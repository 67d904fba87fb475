------------------------ MODULE CircularBufferLemmas ------------------------
(***************************************************************************)
(* What the operations of aesd-circular-buffer.c do to any well-formed     *)
(* buffer, of any capacity, holding entries of any set E.                  *)
(***************************************************************************)
EXTENDS CircularBuffer, FlattenLemmas

(* There is at least one slot, which is what % MAX needs. *)
LEMMA MaxPositive == MAX \in Nat \ {0}
BY MaxAssumption DEF MAX

(* Taking one step round the ring, as in in_offs = (in_offs + 1) % MAX. *)
LEMMA NextOffsValue ==
  ASSUME NEW i \in Slots
  PROVE  /\ NextOffs(i) = IF i = MAX - 1 THEN 0 ELSE i + 1
         /\ NextOffs(i) \in Slots
<1> USE MaxPositive
<1>1. CASE i = MAX - 1
  BY <1>1 DEF NextOffs, Slots
<1>2. CASE i # MAX - 1
  <2> DEFINE j == i + 1
  <2>1. j \in 0 .. MAX - 1
    BY <1>2 DEF Slots
  <2> HIDE DEF j
  <2>2. j % MAX = j
    BY <2>1
  <2> QED
    BY <1>2, <2>1, <2>2 DEF NextOffs, Slots, j
<1> QED
  BY <1>1, <1>2

(* The slot of the k-th oldest entry: out_offs + k, wrapped once. *)
LEMMA SlotValue ==
  ASSUME NEW b, b.out_offs \in Slots, NEW k \in Slots
  PROVE  /\ Slot(b, k) = IF b.out_offs + k < MAX THEN b.out_offs + k
                                                 ELSE b.out_offs + k - MAX
         /\ Slot(b, k) \in Slots
<1> USE MaxPositive
<1> DEFINE o == b.out_offs
<1> o \in Slots
  OBVIOUS
<1> Slot(b, k) = (o + k) % MAX
  BY DEF Slot
<1> HIDE DEF o
<1>1. CASE o + k < MAX
  <2> DEFINE j == o + k
  <2>1. j \in 0 .. MAX - 1
    BY <1>1 DEF Slots
  <2> HIDE DEF j
  <2>2. j % MAX = j
    BY <2>1
  <2> QED
    BY <1>1, <2>1, <2>2 DEF Slots, j, o
<1>2. CASE ~(o + k < MAX)
  <2> DEFINE j == o + k - MAX
  <2>1. j \in 0 .. MAX - 1 /\ o + k = j + MAX
    BY <1>2 DEF Slots
  <2> HIDE DEF j
  <2>2. (j + MAX) % MAX = j
    BY <2>1
  <2> QED
    BY <1>2, <2>1, <2>2 DEF Slots, j, o
<1> QED
  BY <1>1, <1>2
-----------------------------------------------------------------------------
(* The buffer that memset leaves is well-formed and holds nothing. *)
LEMMA InitBuffer ==
  ASSUME NEW E
  PROVE  /\ aesd_circular_buffer_init \in Buffer(E)
         /\ RingOK(aesd_circular_buffer_init)
         /\ Entries(aesd_circular_buffer_init) = <<>>
<1> USE MaxPositive
<1>1. 0 \in Slots
  BY DEF Slots
<1>2. aesd_circular_buffer_init \in Buffer(E)
  BY <1>1 DEF aesd_circular_buffer_init, Buffer
<1>3. RingOK(aesd_circular_buffer_init)
  BY DEF RingOK, aesd_circular_buffer_init, Slots
<1>4. total_entries(aesd_circular_buffer_init) = 0
  BY DEF total_entries, aesd_circular_buffer_init
<1>5. Entries(aesd_circular_buffer_init) = <<>>
  BY <1>4 DEF Entries
<1> QED
  BY <1>2, <1>3, <1>5

(* The buffer value that add_entry leaves, field by field. *)
LEMMA AddEntryFields ==
  ASSUME NEW E, NEW b \in Buffer(E), NEW e, NEW c,
         c = aesd_circular_buffer_add_entry(b, e)
  PROVE  /\ c.entry[b.in_offs] = e
         /\ \A i \in Slots \ {b.in_offs, b.out_offs} : c.entry[i] = b.entry[i]
         /\ ~b.full => \A i \in Slots \ {b.in_offs} : c.entry[i] = b.entry[i]
         /\ c.in_offs = NextOffs(b.in_offs)
         /\ c.out_offs = IF b.full THEN NextOffs(b.out_offs) ELSE b.out_offs
         /\ c.full <=> (b.full \/ c.in_offs = c.out_offs)
BY DEF Buffer, aesd_circular_buffer_add_entry

(* One add_entry keeps the offsets, the flag and the used slots in step. *)
LEMMA AddEntryWellFormed ==
  ASSUME NEW E, NoEntry \notin E, NEW b \in Buffer(E), RingOK(b), NEW e \in E
  PROVE  /\ aesd_circular_buffer_add_entry(b, e) \in Buffer(E)
         /\ RingOK(aesd_circular_buffer_add_entry(b, e))
<1> USE MaxPositive
<1> DEFINE c == aesd_circular_buffer_add_entry(b, e)
<1>1. b.in_offs \in Slots /\ b.out_offs \in Slots /\ b.full \in BOOLEAN
  BY DEF Buffer
<1>2. /\ NextOffs(b.in_offs) = IF b.in_offs = MAX - 1 THEN 0 ELSE b.in_offs + 1
      /\ NextOffs(b.in_offs) \in Slots
      /\ NextOffs(b.out_offs) \in Slots
  BY <1>1, NextOffsValue
<1>3. c \in Buffer(E)
  <2>1. CASE b.full
    <3>1. b.in_offs = b.out_offs
      BY <2>1 DEF RingOK
    <3> QED
      BY <1>1, <1>2, <2>1, <3>1 DEF Buffer, aesd_circular_buffer_add_entry
  <2>2. CASE ~b.full
    BY <1>1, <1>2, <2>2 DEF Buffer, aesd_circular_buffer_add_entry
  <2> QED
    BY <2>1, <2>2
<1>4. c.entry[b.in_offs] # NoEntry
  BY AddEntryFields
<1> HIDE DEF c
<1>5. RingOK(c)
  <2>1. CASE b.full
    <3>1. b.in_offs = b.out_offs
      BY <2>1 DEF RingOK
    <3>2. c.full /\ c.out_offs = c.in_offs
      BY <2>1, <3>1, AddEntryFields DEF c
    <3>3. \A i \in Slots : c.entry[i] # NoEntry
      BY <1>4, <2>1, <3>1, AddEntryFields DEF RingOK, c
    <3> QED
      BY <3>2, <3>3 DEF RingOK
  <2>2. CASE ~b.full
    <3>1. b.out_offs = 0 /\ c.out_offs = 0
      BY <2>2, AddEntryFields DEF RingOK, c
    <3>2. c.full <=> b.in_offs = MAX - 1
      <4>1. c.full <=> NextOffs(b.in_offs) = 0
        BY <2>2, <3>1, AddEntryFields DEF c
      <4> QED
        BY <1>1, <1>2, <4>1 DEF Slots
    <3>3. \A i \in Slots : c.entry[i] # NoEntry <=> i < b.in_offs + 1
      <4> TAKE i \in Slots
      <4>1. CASE i = b.in_offs
        BY <1>1, <1>4, <4>1 DEF Slots
      <4>2. CASE i # b.in_offs
        <5>1. c.entry[i] = b.entry[i]
          BY <2>2, <4>2, AddEntryFields DEF c
        <5> QED
          BY <1>1, <2>2, <4>2, <5>1 DEF RingOK, Slots
      <4> QED
        BY <4>1, <4>2
    <3>4. c.in_offs = NextOffs(b.in_offs)
      BY AddEntryFields DEF c
    <3>5. CASE b.in_offs = MAX - 1
      BY <1>2, <3>1, <3>2, <3>3, <3>4, <3>5 DEF RingOK, Slots
    <3>6. CASE b.in_offs # MAX - 1
      BY <1>2, <3>1, <3>2, <3>3, <3>4, <3>6 DEF RingOK, Slots
    <3> QED
      BY <3>5, <3>6
  <2> QED
    BY <1>1, <2>1, <2>2
<1> QED
  BY <1>3, <1>5 DEF c
-----------------------------------------------------------------------------
(* The entries held form a sequence over E, as long as the ring is used. *)
LEMMA EntriesType ==
  ASSUME NEW E, NEW b \in Buffer(E), RingOK(b)
  PROVE  /\ total_entries(b) \in 0 .. MAX
         /\ Entries(b) \in Seq(E)
         /\ Len(Entries(b)) = total_entries(b)
         /\ \A k \in 1 .. total_entries(b) : Entries(b)[k] = b.entry[Slot(b, k - 1)]
<1> USE MaxPositive
<1> DEFINE n == total_entries(b)
<1>1. n \in 0 .. MAX
  BY DEF Buffer, total_entries, Slots
<1>2. ASSUME NEW k \in 1 .. n PROVE b.entry[Slot(b, k - 1)] \in E
  <2>1. k - 1 \in Slots
    BY <1>1 DEF Slots
  <2>2. Slot(b, k - 1) \in Slots
    BY <2>1, SlotValue DEF Buffer
  <2>3. CASE b.full
    BY <2>2, <2>3 DEF Buffer, RingOK
  <2>4. CASE ~b.full
    <3>1. Slot(b, k - 1) = k - 1
      BY <1>1, <2>1, <2>4, SlotValue DEF Buffer, RingOK, Slots
    <3>2. k - 1 < b.in_offs
      BY <2>4 DEF total_entries, Buffer, Slots
    <3> QED
      BY <2>1, <3>1, <3>2 DEF Buffer, RingOK
  <2> QED
    BY <2>3, <2>4
<1>3. Entries(b) = [k \in 1 .. n |-> b.entry[Slot(b, k - 1)]]
  BY DEF Entries
<1> HIDE DEF n
<1>4. n \in Nat
  BY <1>1
<1>5. Entries(b) \in [1 .. n -> E]
  BY <1>2, <1>3
<1>6. Entries(b) \in Seq(E) /\ Len(Entries(b)) = n
  BY <1>4, <1>5, LenProperties, SeqDef
<1> QED
  BY <1>1, <1>3, <1>6 DEF n

(* Until the ring is full, add_entry appends. *)
LEMMA AddEntryAppends ==
  ASSUME NEW E, NoEntry \notin E, NEW b \in Buffer(E), RingOK(b), NEW e \in E, ~b.full
  PROVE  Entries(aesd_circular_buffer_add_entry(b, e)) = Append(Entries(b), e)
<1> USE MaxPositive
<1> DEFINE c == aesd_circular_buffer_add_entry(b, e)
           n == b.in_offs
<1>0. c \in Buffer(E) /\ RingOK(c)
  BY AddEntryWellFormed
<1>1. n \in Slots /\ b.out_offs = 0 /\ total_entries(b) = n
  BY DEF Buffer, RingOK, total_entries
<1>2. c.out_offs = 0 /\ c.in_offs = NextOffs(n)
  BY <1>1, AddEntryFields
<1>3. c.full <=> c.in_offs = c.out_offs
  BY AddEntryFields
<1>4. /\ c.entry[n] = e
      /\ \A i \in Slots \ {n} : c.entry[i] = b.entry[i]
  BY AddEntryFields
<1> HIDE DEF c
<1>5. total_entries(c) = n + 1
  <2>1. CASE n = MAX - 1
    <3>1. NextOffs(n) = 0
      BY <1>1, <2>1, NextOffsValue
    <3> QED
      BY <1>2, <1>3, <2>1, <3>1 DEF total_entries
  <2>2. CASE n # MAX - 1
    <3>1. NextOffs(n) = n + 1
      BY <1>1, <2>2, NextOffsValue
    <3>2. n + 1 # 0
      BY <1>1 DEF Slots
    <3> QED
      BY <1>2, <1>3, <3>1, <3>2 DEF total_entries
  <2> QED
    BY <2>1, <2>2
<1>6. \A k \in Slots : Slot(b, k) = k /\ Slot(c, k) = k
  <2>1. 0 \in Slots
    BY DEF Slots
  <2> QED
    BY <1>1, <1>2, <2>1, SlotValue DEF Slots
<1>7. ASSUME NEW k \in 1 .. n + 1
      PROVE  Entries(c)[k] = IF k <= n THEN Entries(b)[k] ELSE e
  <2>1. Entries(c)[k] = c.entry[Slot(c, k - 1)]
    BY <1>0, <1>5, EntriesType
  <2>2. k - 1 \in Slots
    BY <1>1 DEF Slots
  <2>3. CASE k <= n
    <3>1. k - 1 # n
      BY <1>1, <2>3 DEF Slots
    <3>2. Entries(b)[k] = b.entry[Slot(b, k - 1)]
      BY <1>1, <2>3, EntriesType DEF Slots
    <3> QED
      BY <1>4, <1>6, <2>1, <2>2, <2>3, <3>1, <3>2
  <2>4. CASE ~(k <= n)
    <3>1. k - 1 = n
      BY <1>1, <2>4 DEF Slots
    <3> QED
      BY <1>4, <1>6, <2>1, <2>2, <2>4, <3>1
  <2> QED
    BY <2>3, <2>4
<1>8. /\ Entries(b) \in Seq(E) /\ Len(Entries(b)) = n
      /\ Entries(c) \in Seq(E) /\ Len(Entries(c)) = n + 1
  BY <1>0, <1>1, <1>5, EntriesType
<1> HIDE DEF n
<1>9. /\ Append(Entries(b), e) \in Seq(E)
      /\ Len(Append(Entries(b), e)) = n + 1
      /\ \A k \in 1 .. n + 1 :
            Append(Entries(b), e)[k] = IF k <= n THEN Entries(b)[k] ELSE e
  BY <1>1, <1>8, AppendProperties DEF Slots
<1> QED
  BY <1>7, <1>8, <1>9, SeqEqual DEF c

(* Once it is full, add_entry drops the oldest entry and appends. *)
LEMMA AddEntryRotates ==
  ASSUME NEW E, NoEntry \notin E, NEW b \in Buffer(E), RingOK(b), NEW e \in E, b.full
  PROVE  Entries(aesd_circular_buffer_add_entry(b, e)) = Append(Tail(Entries(b)), e)
<1> USE MaxPositive
<1> DEFINE c == aesd_circular_buffer_add_entry(b, e)
           o == b.out_offs
<1>0. c \in Buffer(E) /\ RingOK(c)
  BY AddEntryWellFormed
<1>1. o \in Slots /\ b.in_offs = o /\ total_entries(b) = MAX
  BY DEF Buffer, RingOK, total_entries
<1>2. c.out_offs = NextOffs(o) /\ c.full
  BY <1>1, AddEntryFields
<1>3. /\ c.entry[o] = e
      /\ \A i \in Slots \ {o} : c.entry[i] = b.entry[i]
  BY <1>1, AddEntryFields
<1> HIDE DEF c
<1>4. total_entries(c) = MAX
  BY <1>2 DEF total_entries
<1>5. ASSUME NEW k \in 1 .. MAX
      PROVE  Entries(c)[k] = IF k < MAX THEN Entries(b)[k + 1] ELSE e
  <2>1. Entries(c)[k] = c.entry[Slot(c, k - 1)]
    BY <1>0, <1>4, EntriesType
  <2>2. k - 1 \in Slots
    BY DEF Slots
  <2>3. c.out_offs = IF o = MAX - 1 THEN 0 ELSE o + 1
    BY <1>1, <1>2, NextOffsValue
  <2>4. c.out_offs \in Slots
    BY <1>1, <1>2, NextOffsValue
  <2>5. Slot(c, k - 1) = IF c.out_offs + (k - 1) < MAX THEN c.out_offs + (k - 1)
                                                       ELSE c.out_offs + (k - 1) - MAX
    BY <2>2, <2>4, SlotValue
  <2>6. CASE k < MAX
    <3>1. k \in Slots
      BY <2>6 DEF Slots
    <3>2. Slot(b, k) = IF o + k < MAX THEN o + k ELSE o + k - MAX
      BY <1>1, <3>1, SlotValue
    <3>3. Slot(b, k) \in Slots
      BY <1>1, <3>1, SlotValue
    <3>4. Slot(c, k - 1) = Slot(b, k) /\ Slot(b, k) # o
      BY <1>1, <2>3, <2>5, <2>6, <3>2 DEF Slots
    <3>5. Entries(b)[k + 1] = b.entry[Slot(b, k)]
      <4>1. k + 1 \in 1 .. total_entries(b) /\ (k + 1) - 1 = k
        BY <1>1, <2>6
      <4> QED
        BY <4>1, EntriesType
    <3> QED
      BY <1>3, <2>1, <2>6, <3>3, <3>4, <3>5
  <2>7. CASE ~(k < MAX)
    <3>1. Slot(c, k - 1) = o
      BY <1>1, <2>3, <2>5, <2>7 DEF Slots
    <3> QED
      BY <1>3, <2>1, <2>7, <3>1
  <2> QED
    BY <2>6, <2>7
<1>6. /\ Entries(b) \in Seq(E) /\ Len(Entries(b)) = MAX
      /\ Entries(c) \in Seq(E) /\ Len(Entries(c)) = MAX
  BY <1>0, <1>1, <1>4, EntriesType
<1> HIDE DEF o
<1>7. /\ Tail(Entries(b)) \in Seq(E)
      /\ Len(Tail(Entries(b))) = MAX - 1
      /\ \A k \in 1 .. MAX - 1 : Tail(Entries(b))[k] = Entries(b)[k + 1]
  BY <1>6, HeadTailProperties
<1>8. /\ Append(Tail(Entries(b)), e) \in Seq(E)
      /\ Len(Append(Tail(Entries(b)), e)) = MAX
      /\ \A k \in 1 .. MAX :
            Append(Tail(Entries(b)), e)[k] = IF k < MAX THEN Entries(b)[k + 1] ELSE e
  BY <1>7, AppendProperties
<1> QED
  BY <1>5, <1>6, <1>8, SeqEqual DEF c

(* The pointer add_entry returns is that of the oldest entry, if it is     *)
(* about to be dropped.                                                    *)
LEMMA OverwrittenIsOldest ==
  ASSUME NEW E, NEW b \in Buffer(E), RingOK(b)
  PROVE  /\ b.full <=> Len(Entries(b)) = MAX
         /\ b.full => overwritten_entry(b) = Head(Entries(b)).buffptr
         /\ ~b.full => overwritten_entry(b) = NULL
<1> USE MaxPositive
<1>1. Len(Entries(b)) = total_entries(b)
  BY EntriesType
<1>2. b.full <=> total_entries(b) = MAX
  BY DEF total_entries, Buffer, Slots
<1>3. ASSUME b.full PROVE overwritten_entry(b) = Head(Entries(b)).buffptr
  <2>1. Slot(b, 0) = b.out_offs
    BY SlotValue DEF Buffer, Slots
  <2>2. Entries(b)[1] = b.entry[Slot(b, 1 - 1)]
    BY <1>2, <1>3, EntriesType
  <2>3. Head(Entries(b)) = Entries(b)[1]
    BY <1>1, <1>2, <1>3, EntriesType
  <2> QED
    BY <1>3, <2>1, <2>2, <2>3 DEF overwritten_entry
<1> QED
  BY <1>1, <1>2, <1>3 DEF overwritten_entry
-----------------------------------------------------------------------------
(* The sums and the search.  The provers have no induction over a         *)
(* recursive function; a property of the numbers up to MAX that fails      *)
(* somewhere has a first number at which it fails, which is LeastNat.      *)

(* The recursion of RunningTotal has a solution, so its value is the sum   *)
(* the loop computes: zero at first, one size more with each iteration.    *)
LEMMA RunningTotalStep ==
  ASSUME NEW sizes \in [Slots -> Nat]
  PROVE  /\ RunningTotal(sizes) \in [0 .. MAX -> Nat]
         /\ RunningTotal(sizes)[0] = 0
         /\ \A k \in Slots : RunningTotal(sizes)[k+1] = RunningTotal(sizes)[k] + sizes[k]
<1> USE MaxPositive
<1> DEFINE P(n) == \E s \in [0 .. n -> Nat] :
                     s = [k \in 0 .. n |-> IF k = 0 THEN 0 ELSE s[k-1] + sizes[k-1]]
           T == {n \in 0 .. MAX : ~P(n)}
<1>1. T = {}
  <2> SUFFICES ASSUME T # {} PROVE FALSE
    OBVIOUS
  <2> DEFINE m == Min(T)
  <2>0. T \subseteq Nat
    OBVIOUS
  <2> HIDE DEF T
  <2>1. m \in T /\ \A y \in T : m <= y
    BY <2>0, LeastNat
  <2> HIDE DEF m
  <2>10. m \in 0 .. MAX /\ ~P(m) /\ \A n \in 0 .. MAX : ~P(n) => m <= n
    BY <2>1 DEF T
  <2>2. m # 0
    <3> DEFINE s == [k \in 0 .. 0 |-> 0]
    <3>1. s \in [0 .. 0 -> Nat] /\ s = [k \in 0 .. 0 |-> IF k = 0 THEN 0 ELSE s[k-1] + sizes[k-1]]
      OBVIOUS
    <3>2. P(0)
      BY <3>1
    <3> HIDE DEF P
    <3> QED
      BY <2>10, <3>2
  <2>3. m \in 1 .. MAX /\ m - 1 \in 0 .. MAX /\ m - 1 \in Slots
    BY <2>10, <2>2 DEF Slots
  <2>4. P(m-1)
    <3> HIDE DEF P
    <3> QED
      BY <2>10, <2>3
  <2>5. PICK s \in [0 .. m-1 -> Nat] : s = [k \in 0 .. m-1 |-> IF k = 0 THEN 0 ELSE s[k-1] + sizes[k-1]]
    BY <2>4
  <2> DEFINE t == [k \in 0 .. m |-> IF k = m THEN s[m-1] + sizes[m-1] ELSE s[k]]
  <2>6. t \in [0 .. m -> Nat]
    BY <2>3
  <2>7. ASSUME NEW k \in 0 .. m PROVE t[k] = IF k = 0 THEN 0 ELSE t[k-1] + sizes[k-1]
    <3>1. CASE k = m 
      BY <2>3, <3>1
    <3>2. CASE k # m
      <4>1. k \in 0 .. m-1 
        BY <2>3, <3>2
      <4>2. s[k] = IF k = 0 THEN 0 ELSE s[k-1] + sizes[k-1]
        BY <2>5, <4>1
      <4> QED
        BY <2>3, <3>2, <4>1, <4>2
    <3> QED
      BY <3>1, <3>2
  <2>8. t = [k \in 0 .. m |-> IF k = 0 THEN 0 ELSE t[k-1] + sizes[k-1]]
    BY <2>6, <2>7
  <2>9. P(m)
    BY <2>6, <2>8
  <2> QED
    BY <2>10, <2>9
<1>2. PICK s \in [0 .. MAX -> Nat] : s = [k \in 0 .. MAX |-> IF k = 0 THEN 0 ELSE s[k-1] + sizes[k-1]]
  BY <1>1
<1> DEFINE F(f) == [k \in 0 .. MAX |-> IF k = 0 THEN 0 ELSE f[k-1] + sizes[k-1]]
<1>3. RunningTotal(sizes) = CHOOSE f : f = F(f)
  BY DEF RunningTotal
<1>4. RunningTotal(sizes) = F(RunningTotal(sizes))
  BY <1>2, <1>3
<1> DEFINE r == RunningTotal(sizes)
<1> HIDE DEF r
<1>5. r = [k \in 0 .. MAX |-> IF k = 0 THEN 0 ELSE r[k-1] + sizes[k-1]]
  BY <1>4 DEF r
<1>6. r[0] = 0 /\ \A k \in Slots : r[k+1] = r[k] + sizes[k]
  BY <1>5 DEF Slots
<1>7. ASSUME NEW n \in 0 .. MAX, r[n] \notin Nat PROVE FALSE
  <2> DEFINE B == {k \in 0 .. MAX : r[k] \notin Nat}
             m == Min(B)
  <2>1. B \subseteq Nat /\ B # {}
    BY <1>7
  <2> HIDE DEF B
  <2>2. m \in B /\ \A y \in B : m <= y
    BY <2>1, LeastNat
  <2> HIDE DEF m
  <2>3. m \in 1 .. MAX
    BY <1>6, <2>2 DEF B
  <2>4. m - 1 \in Slots /\ m - 1 \in 0 .. MAX /\ ~(m <= m - 1)
    BY <2>3 DEF Slots
  <2>5. r[m-1] \in Nat
    BY <2>2, <2>4 DEF B
  <2>6. r[(m-1)+1] = r[m-1] + sizes[m-1]
    BY <1>6, <2>4
  <2>7. r[m] \in Nat
    BY <2>3, <2>4, <2>5, <2>6
  <2> QED
    BY <2>2, <2>7 DEF B
<1>8. r \in [0 .. MAX -> Nat]
  BY <1>5, <1>7
<1> QED
  BY <1>6, <1>8 DEF r
-----------------------------------------------------------------------------
(* char_count never runs negative and grows by one entry per iteration. *)
LEMMA CharCountStep ==
  ASSUME NEW P, NEW b \in Buffer([buffptr : P, size : Nat])
  PROVE  /\ CharCount(b) \in [0 .. MAX -> Nat]
         /\ CharCount(b)[0] = 0
         /\ \A k \in Slots : /\ Slot(b, k) \in Slots
                             /\ b.entry[Slot(b, k)].size \in Nat
                             /\ CharCount(b)[k+1] = CharCount(b)[k] + b.entry[Slot(b, k)].size
<1> DEFINE sizes == [k \in Slots |-> b.entry[Slot(b, k)].size]
<1>1. ASSUME NEW i \in Slots PROVE b.entry[i].size \in Nat
  BY DEF Buffer, NoEntry
<1>2. ASSUME NEW k \in Slots PROVE Slot(b, k) \in Slots
  BY SlotValue DEF Buffer
<1>3. sizes \in [Slots -> Nat]
  BY <1>1, <1>2
<1>4. CharCount(b) = RunningTotal(sizes)
  BY DEF CharCount
<1>5. \A k \in Slots : sizes[k] = b.entry[Slot(b, k)].size
  OBVIOUS
<1> HIDE DEF sizes
<1> QED
  BY <1>1, <1>2, <1>3, <1>4, <1>5, RunningTotalStep

(* What total_size adds up is a size. *)
LEMMA TotalSizeType ==
  ASSUME NEW P, NEW b \in Buffer([buffptr : P, size : Nat])
  PROVE  aesd_circular_buffer_total_size(b) \in Nat
<1> DEFINE sizes == [i \in Slots |-> IF i \in UsedSlots(b) THEN b.entry[i].size ELSE 0]
<1>1. sizes \in [Slots -> Nat]
  BY DEF Buffer, NoEntry
<1>2. aesd_circular_buffer_total_size(b) = RunningTotal(sizes)[MAX]
  BY DEF aesd_circular_buffer_total_size
<1>3. MAX \in 0 .. MAX
  BY MaxPositive
<1> HIDE DEF sizes
<1> QED
  BY <1>1, <1>2, <1>3, RunningTotalStep

(* There are no more used slots than slots. *)
LEMMA SizeBound ==
  ASSUME NEW b
  PROVE  aesd_circular_buffer_size(b) \in 0 .. MAX
<1>1. IsFiniteSet(Slots) /\ Cardinality(Slots) = MAX
  BY FS_Interval, MaxPositive DEF Slots
<1>2. UsedSlots(b) \subseteq Slots
  BY DEF UsedSlots
<1>3. IsFiniteSet(UsedSlots(b)) /\ Cardinality(UsedSlots(b)) <= MAX
  BY <1>1, <1>2, FS_Subset
<1>4. Cardinality(UsedSlots(b)) \in Nat
  BY <1>3, FS_CardinalityType
<1> QED
  BY <1>3, <1>4, MaxPositive DEF aesd_circular_buffer_size

(* The iteration of the search that returns looks at a held entry.  *)
LEMMA SearchUsed ==
  ASSUME NEW E, NEW b \in Buffer(E), RingOK(b), NEW k \in 0 .. total_entries(b) - 1
  PROVE  k \in Slots /\ Slot(b, k) \in Slots /\ b.entry[Slot(b, k)] \in E
<1>1. total_entries(b) \in 0 .. MAX
  BY EntriesType
<1>2. k \in Slots
  BY <1>1, MaxPositive DEF Slots
<1>3. Slot(b, k) \in Slots
  BY <1>2, SlotValue DEF Buffer
<1>4. Entries(b)[k + 1] = b.entry[Slot(b, k)]
  <2>1. k + 1 \in 1 .. total_entries(b) /\ (k + 1) - 1 = k
    BY <1>1
  <2> QED
    BY <2>1, EntriesType
<1>5. Entries(b)[k + 1] \in E
  <2>1. k + 1 \in 1 .. Len(Entries(b)) /\ Entries(b) \in Seq(E)
    BY <1>1, EntriesType
  <2> QED
    BY <2>1, ElementOfSeq
<1> QED
  BY <1>2, <1>3, <1>4, <1>5

(* The search returns a slot that holds an entry and an offset that lies   *)
(* in the entry, or neither.                                               *)
LEMMA FindInEntry ==
  ASSUME NEW P, NEW b \in Buffer([buffptr : P, size : Nat]), RingOK(b), NEW pos \in Nat,
         NEW r, r = aesd_circular_buffer_find_entry_offset_for_fpos(b, pos)
  PROVE  \/ r = [slot |-> NULL, entry_offset |-> 0]
         \/ /\ r \in [slot : Slots, entry_offset : Nat]
            /\ b.entry[r.slot] \in [buffptr : P, size : Nat]
            /\ r.entry_offset < b.entry[r.slot].size
<1> DEFINE E == [buffptr : P, size : Nat]
           count == CharCount(b)
           hits == Search(b, count, pos)
           i == Min(hits)
           n == total_entries(b)
<1>1. CASE hits = {}
  BY <1>1 DEF aesd_circular_buffer_find_entry_offset_for_fpos
<1>2. CASE hits # {}
  <2>1. r = [slot |-> Slot(b, i), entry_offset |-> pos - count[i]]
    BY <1>2 DEF aesd_circular_buffer_find_entry_offset_for_fpos
  <2>2. n \in 0 .. MAX
    BY EntriesType
  <2>3. hits = {k \in 0 .. n - 1 : pos < count[k] + b.entry[Slot(b, k)].size}
    BY DEF Search
  <2> HIDE DEF hits, count, n
  <2>4. hits \subseteq Nat
    BY <2>2, <2>3
  <2>5. i \in hits /\ \A y \in hits : i <= y
    BY <1>2, <2>4, LeastNat
  <2> HIDE DEF i
  <2>6. i \in 0 .. n - 1 /\ pos < count[i] + b.entry[Slot(b, i)].size
    BY <2>3, <2>5
  <2>7. i \in Slots /\ Slot(b, i) \in Slots /\ b.entry[Slot(b, i)] \in E
    BY <2>6, SearchUsed DEF n
  <2>8. count[i] \in Nat /\ count[i] <= pos
    <3>1. CASE i = 0
      <4>1. count[0] = 0
        BY CharCountStep DEF count
      <4> QED
        BY <3>1, <4>1
    <3>2. CASE i # 0
      <4> DEFINE j == i - 1
      <4>1. j \in 0 .. n - 1 /\ j + 1 = i /\ ~(i <= j)
        BY <2>2, <2>6, <3>2
      <4>2. j \in Slots
        BY <4>1, SearchUsed DEF n
      <4> HIDE DEF j
      <4>3. ~(pos < count[j] + b.entry[Slot(b, j)].size)
        BY <2>3, <2>5, <4>1
      <4>4. /\ count[j] \in Nat /\ b.entry[Slot(b, j)].size \in Nat
            /\ count[j + 1] = count[j] + b.entry[Slot(b, j)].size
        <5>1. j \in 0 .. MAX
          BY <4>2, MaxPositive DEF Slots
        <5> QED
          BY <4>2, <5>1, CharCountStep DEF count
      <4> QED
        BY <4>1, <4>3, <4>4
    <3> QED
      BY <3>1, <3>2
  <2>9. b.entry[Slot(b, i)].size \in Nat
    BY <2>7
  <2>10. pos - count[i] \in Nat /\ pos - count[i] < b.entry[Slot(b, i)].size
    BY <2>6, <2>8, <2>9
  <2> QED
    BY <2>1, <2>7, <2>10
<1> QED
  BY <1>1, <1>2
-----------------------------------------------------------------------------
(* s gives the bytes of the entries of b, one sequence for each, oldest    *)
(* first, the bytes being of a set S.                                      *)
BytesOf(S, b, s) ==
  /\ s \in Seq(Seq(S)) /\ Len(s) = Len(Entries(b))
  /\ \A k \in 1 .. Len(s) : Len(s[k]) = Entries(b)[k].size

(* The bytes before entry k in a concatenation. *)
Before(s, k) == Len(FlattenSeq(SubSeq(s, 1, k)))

(* char_count is the number of bytes that stand before the entry. *)
LEMMA CountIsBefore ==
  ASSUME NEW P, NEW b \in Buffer([buffptr : P, size : Nat]), RingOK(b),
         NEW S, NEW s, BytesOf(S, b, s)
  PROVE  \A k \in 0 .. Len(s) : CharCount(b)[k] = Before(s, k)
<1> DEFINE N == Len(s)
           T == {k \in 0 .. N : CharCount(b)[k] = Before(s, k)}
<1>1. /\ N \in Nat /\ N = total_entries(b) /\ N <= MAX
      /\ \A k \in 1 .. N : Len(s[k]) = b.entry[Slot(b, k - 1)].size
  <2>1. /\ total_entries(b) \in 0 .. MAX /\ Len(Entries(b)) = total_entries(b)
        /\ \A k \in 1 .. total_entries(b) : Entries(b)[k] = b.entry[Slot(b, k - 1)]
    BY EntriesType
  <2>2. N = Len(Entries(b)) /\ \A k \in 1 .. N : Len(s[k]) = Entries(b)[k].size
    BY DEF BytesOf
  <2> HIDE DEF N
  <2>3. N = total_entries(b) /\ N \in Nat /\ N <= MAX
    BY <2>1, <2>2, MaxPositive
  <2> QED
    BY <2>1, <2>2, <2>3
<1>2. s \in Seq(Seq(S))
  BY DEF BytesOf
<1>3. 0 \in T
  <2>1. FlattenSeq(SubSeq(s, 1, 0)) = <<>>
    BY <1>2, FlattenGrows
  <2>2. Len(FlattenSeq(SubSeq(s, 1, 0))) = 0
    BY <2>1, EmptySeq
  <2>3. Before(s, 0) = 0
    BY <2>2 DEF Before
  <2>4. CharCount(b)[0] = 0
    BY CharCountStep
  <2>5. 0 \in 0 .. N
    BY <1>1
  <2> QED
    BY <2>3, <2>4, <2>5
<1>4. ASSUME NEW n \in 0 .. N-1, n \in T PROVE n + 1 \in T
  <2>1. n \in Slots /\ n+1 \in 1 .. N /\ (n+1) - 1 = n /\ n+1 \in 0 .. N /\ n \in 0 .. N
    BY <1>1, MaxPositive DEF Slots
  <2>2. CharCount(b)[n+1] = CharCount(b)[n] + b.entry[Slot(b, n)].size
    BY <2>1, CharCountStep
  <2>3. Len(s[n+1]) = b.entry[Slot(b, n)].size
    BY <1>1, <2>1
  <2>4. /\ FlattenSeq(SubSeq(s, 1, n)) \in Seq(S) /\ s[n+1] \in Seq(S)
        /\ FlattenSeq(SubSeq(s, 1, n+1)) = FlattenSeq(SubSeq(s, 1, n)) \o s[n+1]
    BY <1>2, <2>1, FlattenGrows, ElementOfSeq
  <2>5. Len(FlattenSeq(SubSeq(s, 1, n+1))) = Len(FlattenSeq(SubSeq(s, 1, n))) + Len(s[n+1])
    BY <2>4, ConcatProperties
  <2>6. CharCount(b)[n] = Before(s, n)
    BY <1>4
  <2> QED
    BY <2>1, <2>2, <2>3, <2>5, <2>6 DEF Before
<1> HIDE DEF T
<1>5. 0 .. N \subseteq T
  BY <1>1, <1>3, <1>4, UpTo
<1> QED
  BY <1>5 DEF T

(* r names the entry with the byte at a position, and the byte in it. *)
Finds(b, s, pos, r) ==
  \E i \in 0 .. Len(s) - 1 :
    /\ r.slot = Slot(b, i) /\ r.slot \in Slots /\ r.slot # NULL
    /\ b.entry[r.slot] = Entries(b)[i+1]
    /\ r.entry_offset \in 0 .. Len(s[i+1]) - 1
    /\ pos = Before(s, i) + r.entry_offset

(* The search finds every byte there is. *)
LEMMA SearchFinds ==
  ASSUME NEW P, NEW b \in Buffer([buffptr : P, size : Nat]), RingOK(b),
         NEW S, NEW s, BytesOf(S, b, s), NEW pos \in Nat, pos < Len(FlattenSeq(s))
  PROVE  Finds(b, s, pos, aesd_circular_buffer_find_entry_offset_for_fpos(b, pos))
<1> DEFINE N == Len(s)
           count == CharCount(b)
           hits == Search(b, count, pos)
           i == Min(hits)
           r == aesd_circular_buffer_find_entry_offset_for_fpos(b, pos)
<1>1. /\ N \in Nat /\ N = total_entries(b) /\ N <= MAX
      /\ \A k \in 1 .. N : Entries(b)[k] = b.entry[Slot(b, k - 1)]
      /\ \A k \in 1 .. N : Len(s[k]) = b.entry[Slot(b, k - 1)].size
  <2>1. /\ total_entries(b) \in 0 .. MAX /\ Len(Entries(b)) = total_entries(b)
        /\ \A k \in 1 .. total_entries(b) : Entries(b)[k] = b.entry[Slot(b, k - 1)]
    BY EntriesType
  <2>2. N = Len(Entries(b)) /\ \A k \in 1 .. N : Len(s[k]) = Entries(b)[k].size
    BY DEF BytesOf
  <2> HIDE DEF N
  <2>3. N = total_entries(b) /\ N \in Nat /\ N <= MAX
    BY <2>1, <2>2, MaxPositive
  <2> QED
    BY <2>1, <2>2, <2>3
<1>2. s \in Seq(Seq(S))
  BY DEF BytesOf
<1>3. \A k \in 0 .. N : count[k] = Before(s, k) /\ count[k] \in Nat
  <2> TAKE k \in 0 .. N
  <2>1. k \in 0 .. MAX
    BY <1>1, MaxPositive
  <2>2. CharCount(b) \in [0 .. MAX -> Nat]
    BY CharCountStep
  <2>3. CharCount(b)[k] = Before(s, k)
    BY CountIsBefore
  <2> QED
    BY <2>1, <2>2, <2>3
<1>4. count[0] = 0 /\ count[N] = Len(FlattenSeq(s)) /\ Len(FlattenSeq(s)) \in Nat
  <2>1. FlattenSeq(SubSeq(s, 1, N)) = FlattenSeq(s) /\ FlattenSeq(s) \in Seq(S)
    BY <1>2, FlattenGrows, FlattenType
  <2>2. N \in 0 .. N
    BY <1>1
  <2>3. count[N] = Len(FlattenSeq(SubSeq(s, 1, N)))
    BY <1>3, <2>2 DEF Before
  <2>4. count[0] = 0
    BY CharCountStep
  <2> QED
    BY <2>1, <2>3, <2>4
<1>5. \A k \in 0 .. N - 1 :
         /\ k \in Slots /\ Slot(b, k) \in Slots /\ b.entry[Slot(b, k)].size \in Nat
         /\ count[k+1] = count[k] + b.entry[Slot(b, k)].size
         /\ Len(s[k+1]) = b.entry[Slot(b, k)].size
         /\ Entries(b)[k+1] = b.entry[Slot(b, k)]
  <2> TAKE k \in 0 .. N - 1
  <2>1. k \in Slots /\ k+1 \in 1 .. N /\ (k+1) - 1 = k
    BY <1>1, MaxPositive DEF Slots
  <2> QED
    BY <1>1, <2>1, CharCountStep
<1>6. hits = {k \in 0 .. N - 1 : pos < count[k] + b.entry[Slot(b, k)].size}
  BY <1>1 DEF Search
<1>7. hits # {}
  <2>1. N # 0
    BY <1>4
  <2>2. N - 1 \in 0 .. N - 1 /\ (N - 1) + 1 = N
    BY <1>1, <2>1
  <2>3. count[N] = count[N-1] + b.entry[Slot(b, N-1)].size
    BY <1>5, <2>2
  <2>4. N - 1 \in hits
    BY <1>4, <1>6, <2>2, <2>3
  <2> QED
    BY <2>4
<1>8. r = [slot |-> Slot(b, i), entry_offset |-> pos - count[i]]
  BY <1>7 DEF aesd_circular_buffer_find_entry_offset_for_fpos
<1> HIDE DEF hits, count, N, r
<1>9. i \in hits /\ \A y \in hits : i <= y
  <2>1. hits \subseteq Nat
    BY <1>1, <1>6
  <2> QED
    BY <1>7, <2>1, LeastNat
<1> HIDE DEF i
<1>10. i \in 0 .. N - 1 /\ pos < count[i] + b.entry[Slot(b, i)].size
  BY <1>6, <1>9
<1>11. count[i] <= pos
  <2>1. CASE i = 0
    BY <1>4, <2>1
  <2>2. CASE i # 0
    <3>1. i - 1 \in 0 .. N - 1 /\ (i - 1) + 1 = i /\ ~(i <= i - 1)
      BY <1>1, <1>10, <2>2
    <3>2. ~(pos < count[i-1] + b.entry[Slot(b, i-1)].size)
      BY <1>6, <1>9, <3>1
    <3>3. count[i] = count[i-1] + b.entry[Slot(b, i-1)].size
      BY <1>5, <3>1
    <3>4. i \in 0 .. N
      BY <1>1, <1>10
    <3> QED
      BY <1>3, <3>2, <3>3, <3>4
  <2> QED
    BY <2>1, <2>2
<1>12. i \in 0 .. N /\ count[i] \in Nat /\ count[i] = Before(s, i)
  BY <1>1, <1>3, <1>10
<1>13. r.entry_offset = pos - count[i] /\ r.slot = Slot(b, i)
  BY <1>8
<1>14. /\ Slot(b, i) \in Slots /\ b.entry[Slot(b, i)].size \in Nat
       /\ Len(s[i+1]) = b.entry[Slot(b, i)].size /\ Entries(b)[i+1] = b.entry[Slot(b, i)]
  BY <1>5, <1>10
<1>15. /\ pos - count[i] \in 0 .. Len(s[i+1]) - 1 /\ pos = count[i] + (pos - count[i])
  BY <1>10, <1>11, <1>12, <1>14, SMTT(30)
<1>16. Slot(b, i) # NULL
  BY <1>14, NullAssumption
<1>17. Finds(b, s, pos, r)
  BY <1>10, <1>12, <1>13, <1>14, <1>15, <1>16 DEF Finds, N
<1> QED
  BY <1>17 DEF r

(* Past the last byte the search finds nothing. *)
LEMMA SearchEnds ==
  ASSUME NEW P, NEW b \in Buffer([buffptr : P, size : Nat]), RingOK(b),
         NEW S, NEW s, BytesOf(S, b, s), NEW pos \in Nat, ~(pos < Len(FlattenSeq(s)))
  PROVE  aesd_circular_buffer_find_entry_offset_for_fpos(b, pos).slot = NULL
<1> DEFINE N == Len(s)
           count == CharCount(b)
           hits == Search(b, count, pos)
<1>1. N \in Nat /\ N = total_entries(b) /\ N <= MAX
  BY EntriesType DEF BytesOf
<1>2. s \in Seq(Seq(S))
  BY DEF BytesOf
<1>3. ASSUME NEW k \in 0 .. N - 1 PROVE count[k] + b.entry[Slot(b, k)].size <= pos
  <2>1. k \in Slots /\ k+1 \in 0 .. N /\ N \in (k+1) .. N
    BY <1>1, MaxPositive DEF Slots
  <2>2. count[k+1] = count[k] + b.entry[Slot(b, k)].size
    BY <2>1, CharCountStep
  <2>3. count[k+1] = Before(s, k+1)
    BY <2>1, CountIsBefore
  <2>4. /\ Before(s, k+1) <= Len(FlattenSeq(s)) /\ Len(FlattenSeq(s)) \in Nat
        /\ Before(s, k+1) \in Nat
    <3>1. FlattenSeq(SubSeq(s, 1, k+1)) \in Seq(S) /\ FlattenSeq(s) \in Seq(S)
      BY <1>2, <2>1, FlattenGrows, FlattenType
    <3>2. Before(s, k+1) <= Len(FlattenSeq(SubSeq(s, 1, Len(s))))
      BY <1>2, <2>1, FlattenMonotonic DEF Before
    <3>3. FlattenSeq(SubSeq(s, 1, Len(s))) = FlattenSeq(s)
      BY <1>2, FlattenGrows
    <3> QED
      BY <3>1, <3>2, <3>3 DEF Before
  <2> QED
    BY <2>2, <2>3, <2>4
<1>4. \A k \in 0 .. N - 1 : ~(pos < count[k] + b.entry[Slot(b, k)].size)
  <2> TAKE k \in 0 .. N - 1
  <2>1. k \in Slots /\ k \in 0 .. MAX
    BY <1>1, MaxPositive DEF Slots
  <2>2. count[k] \in Nat /\ b.entry[Slot(b, k)].size \in Nat
    BY <2>1, CharCountStep
  <2> QED
    BY <1>3, <2>2
<1>5. hits = {}
  BY <1>1, <1>4 DEF Search
<1> QED
  BY <1>5 DEF aesd_circular_buffer_find_entry_offset_for_fpos
-----------------------------------------------------------------------------
(* The sum over the slots in the order of the array is the sum in the      *)
(* order of the ring, wherever the ring starts.                            *)
LEMMA SumIsRotated ==
  ASSUME NEW sizes \in [Slots -> Nat], NEW rotated \in [Slots -> Nat], NEW o \in Slots,
         \A k \in Slots : rotated[k] = sizes[IF o + k < MAX THEN o + k ELSE o + k - MAX]
  PROVE  RunningTotal(rotated)[MAX] = RunningTotal(sizes)[MAX]
<1> USE MaxPositive
<1> DEFINE R == RunningTotal(sizes)
           C == RunningTotal(rotated)
<1>1. /\ R \in [0 .. MAX -> Nat] /\ R[0] = 0
      /\ \A k \in Slots : R[k+1] = R[k] + sizes[k]
  BY RunningTotalStep
<1>2. /\ C \in [0 .. MAX -> Nat] /\ C[0] = 0
      /\ \A k \in Slots : C[k+1] = C[k] + rotated[k]
  BY RunningTotalStep
<1> HIDE DEF R, C
<1> DEFINE T == {k \in 0 .. MAX : C[k] + R[o] = IF o + k <= MAX THEN R[o+k] ELSE R[MAX] + R[o+k-MAX]}
<1>3. 0 \in T
  BY <1>1, <1>2 DEF Slots
<1>4. ASSUME NEW n \in 0 .. MAX-1, n \in T PROVE n + 1 \in T
  <2>1. n \in Slots /\ C[n+1] = C[n] + rotated[n]
    BY <1>2 DEF Slots
  <2>2. C[n] \in Nat /\ rotated[n] \in Nat /\ R[o] \in Nat
    <3>1. n \in 0 .. MAX /\ o \in 0 .. MAX
      BY DEF Slots
    <3> QED
      BY <1>1, <1>2, <2>1, <3>1
  <2>3. CASE o + n < MAX
    <3> DEFINE j == o + n
    <3>1. j \in Slots /\ o + (n+1) = j + 1 /\ o + (n+1) <= MAX
      BY <2>3 DEF Slots
    <3>2. C[n] + R[o] = R[j]
      BY <1>4, <2>3 DEF Slots
    <3>3. rotated[n] = sizes[j]
      BY <2>1, <2>3
    <3> HIDE DEF j
    <3>4. R[j+1] = R[j] + sizes[j]
      BY <1>1, <3>1
    <3>5. C[n+1] + R[o] = R[o + (n+1)]
      BY <2>1, <2>2, <3>1, <3>2, <3>3, <3>4
    <3> QED
      BY <3>1, <3>5
  <2>4. CASE ~(o + n < MAX)
    <3> DEFINE j == o + n - MAX
    <3>1. /\ j \in Slots /\ o + (n+1) - MAX = j + 1 /\ ~(o + (n+1) <= MAX)
      BY <2>4 DEF Slots
    <3>2. C[n] + R[o] = R[MAX] + R[j]
      <4>1. CASE o + n = MAX
        <5>1. o + n <= MAX /\ j = 0 /\ MAX \in 0 .. MAX
          BY <4>1 DEF Slots
        <5>2. C[n] + R[o] = R[MAX]
          BY <1>4, <4>1, <5>1
        <5>3. R[MAX] \in Nat
          BY <1>1, <5>1
        <5> QED
          BY <1>1, <5>1, <5>2, <5>3
      <4>2. CASE o + n # MAX
        <5>1. ~(o + n <= MAX)
          BY <2>4, <4>2 DEF Slots
        <5> QED
          BY <1>4, <5>1
      <4> QED
        BY <4>1, <4>2
    <3>3. rotated[n] = sizes[j]
      BY <2>1, <2>4
    <3> HIDE DEF j
    <3>4. R[j+1] = R[j] + sizes[j] /\ R[j] \in Nat /\ R[MAX] \in Nat
      <4>1. j \in 0 .. MAX /\ MAX \in 0 .. MAX
        BY <3>1 DEF Slots
      <4> QED
        BY <1>1, <3>1, <4>1
    <3>5. C[n+1] + R[o] = R[MAX] + R[o + (n+1) - MAX]
      BY <2>1, <2>2, <3>1, <3>2, <3>3, <3>4
    <3> QED
      BY <3>1, <3>5
  <2> QED
    BY <2>3, <2>4
<1> HIDE DEF T
<1>5. 0 .. MAX \subseteq T
  BY <1>3, <1>4, UpTo
<1>6. MAX \in T
  BY <1>5
<1>7. C[MAX] + R[o] = IF o + MAX <= MAX THEN R[o+MAX] ELSE R[MAX] + R[o+MAX-MAX]
  BY <1>6 DEF T
<1>8. o + MAX - MAX = o /\ o \in 0 .. MAX /\ (o + MAX <= MAX => o = 0 /\ o + MAX = MAX)
  BY DEF Slots
<1>9. C[MAX] \in Nat /\ R[MAX] \in Nat /\ R[o] \in Nat
  BY <1>1, <1>2, <1>8
<1>10. C[MAX] = R[MAX]
  <2>1. CASE o = 0
    <3>1. C[MAX] + R[0] = R[MAX]
      BY <1>7, <1>8, <2>1
    <3> QED
      BY <1>1, <1>9, <3>1
  <2>2. CASE o # 0
    <3>1. ~(o + MAX <= MAX)
      BY <1>8, <2>2
    <3>2. C[MAX] + R[o] = R[MAX] + R[o]
      BY <1>7, <1>8, <3>1
    <3> QED
      BY <1>9, <3>2
  <2> QED
    BY <2>1, <2>2
<1> QED
  BY <1>10 DEF R, C

(* The slots behind the last entry add nothing. *)
LEMMA CountStays ==
  ASSUME NEW P, NEW b \in Buffer([buffptr : P, size : Nat]), RingOK(b)
  PROVE  CharCount(b)[MAX] = CharCount(b)[total_entries(b)]
<1> USE MaxPositive
<1>1. CASE b.full
  BY <1>1 DEF total_entries
<1>2. CASE ~b.full
  <2> DEFINE n == b.in_offs
             C == CharCount(b)
             T == {k \in 0 .. MAX : k >= n => C[k] = C[n]}
  <2>1. n \in Slots /\ b.out_offs = 0 /\ total_entries(b) = n /\ b.out_offs \in Slots
    BY <1>2 DEF Buffer, RingOK, total_entries
  <2>2. \A k \in Slots : Slot(b, k) = k
    BY <2>1, SlotValue DEF Slots
  <2>3. \A k \in Slots : k >= n => b.entry[k].size = 0
    <3> TAKE k \in Slots
    <3> HAVE k >= n
    <3>1. ~(k < n)
      BY <2>1 DEF Slots
    <3>2. b.entry[k] = NoEntry
      BY <1>2, <3>1 DEF RingOK
    <3> QED
      BY <3>2 DEF NoEntry
  <2>4. /\ C \in [0 .. MAX -> Nat]
        /\ \A k \in Slots : C[k+1] = C[k] + b.entry[Slot(b, k)].size
    BY CharCountStep
  <2> HIDE DEF C, n
  <2>5. 0 \in T
    BY <2>1 DEF Slots
  <2>6. ASSUME NEW k \in 0 .. MAX-1, k \in T PROVE k + 1 \in T
    <3>1. k \in Slots /\ k+1 \in 0 .. MAX /\ C[k] \in Nat
      BY <2>4 DEF Slots
    <3>2. C[k+1] = C[k] + b.entry[k].size
      BY <2>2, <2>4, <3>1
    <3>3. CASE k >= n
      <4>1. C[k] = C[n] /\ b.entry[k].size = 0
        BY <2>3, <2>6, <3>1, <3>3
      <4>2. C[k+1] = C[n]
        BY <3>1, <3>2, <4>1
      <4> QED
        BY <3>1, <4>2
    <3>4. CASE ~(k >= n)
      <4>1. k+1 >= n => k+1 = n
        BY <2>1, <3>1, <3>4 DEF Slots
      <4> QED
        BY <3>1, <4>1
    <3> QED
      BY <3>3, <3>4
  <2> HIDE DEF T
  <2>7. 0 .. MAX \subseteq T
    BY <2>5, <2>6, UpTo
  <2>8. MAX >= n /\ MAX \in T
    BY <2>1, <2>7 DEF Slots
  <2>9. C[MAX] = C[n]
    BY <2>8 DEF T
  <2> QED
    BY <2>1, <2>9 DEF C, n
<1> QED
  BY <1>1, <1>2

(* aesd_circular_buffer_total_size counts the bytes the search can reach.  *)
LEMMA TotalIsBytes ==
  ASSUME NEW P, NULL \notin P, NEW b \in Buffer([buffptr : P, size : Nat]), RingOK(b),
         NEW S, NEW s, BytesOf(S, b, s)
  PROVE  aesd_circular_buffer_total_size(b) = Len(FlattenSeq(s))
<1> DEFINE sizes == [i \in Slots |-> IF i \in UsedSlots(b) THEN b.entry[i].size ELSE 0]
           rotated == [k \in Slots |-> b.entry[Slot(b, k)].size]
<1>1. \A i \in Slots : sizes[i] = b.entry[i].size /\ sizes[i] \in Nat
  <2> TAKE i \in Slots
  <2>1. b.entry[i] \in [buffptr : P, size : Nat] \/ b.entry[i] = NoEntry
    BY DEF Buffer
  <2>2. CASE b.entry[i] = NoEntry
    BY <2>2 DEF NoEntry
  <2>3. CASE b.entry[i] \in [buffptr : P, size : Nat]
    <3>1. i \in UsedSlots(b)
      BY <2>3 DEF UsedSlots
    <3> QED
      BY <2>3, <3>1
  <2> QED
    BY <2>1, <2>2, <2>3
<1>2. \A k \in Slots : Slot(b, k) \in Slots
                      /\ Slot(b, k) = IF b.out_offs + k < MAX THEN b.out_offs + k
                                                              ELSE b.out_offs + k - MAX
  BY SlotValue DEF Buffer
<1>3. sizes \in [Slots -> Nat]
  BY <1>1
<1>4. rotated \in [Slots -> Nat] /\ \A k \in Slots : rotated[k] = sizes[Slot(b, k)]
  BY <1>1, <1>2
<1>5. aesd_circular_buffer_total_size(b) = RunningTotal(sizes)[MAX]
  BY DEF aesd_circular_buffer_total_size
<1>6. CharCount(b) = RunningTotal(rotated)
  BY DEF CharCount
<1> HIDE DEF sizes, rotated
<1>7. \A k \in Slots : rotated[k] = sizes[IF b.out_offs + k < MAX THEN b.out_offs + k
                                                              ELSE b.out_offs + k - MAX]
  BY <1>2, <1>4
<1>8. RunningTotal(rotated)[MAX] = RunningTotal(sizes)[MAX]
  BY <1>3, <1>4, <1>7, SumIsRotated DEF Buffer
<1>9. CharCount(b)[MAX] = CharCount(b)[Len(s)]
  BY CountStays, EntriesType DEF BytesOf
<1>10. CharCount(b)[Len(s)] = Before(s, Len(s))
  <2>1. Len(s) \in 0 .. Len(s)
    BY DEF BytesOf
  <2> QED
    BY <2>1, CountIsBefore
<1>11. FlattenSeq(SubSeq(s, 1, Len(s))) = FlattenSeq(s)
  BY FlattenGrows DEF BytesOf
<1> QED
  BY <1>5, <1>6, <1>8, <1>9, <1>10, <1>11 DEF Before

(* aesd_circular_buffer_size counts the entries the search can reach. *)
LEMMA SizeIsEntries ==
  ASSUME NEW P, NULL \notin P, NEW b \in Buffer([buffptr : P, size : Nat]), RingOK(b)
  PROVE  aesd_circular_buffer_size(b) = Len(Entries(b))
<1> USE MaxPositive
<1> DEFINE n == total_entries(b)
<1>1. n \in 0 .. MAX /\ Len(Entries(b)) = n
  BY EntriesType
<1>2. \A i \in Slots : i \in UsedSlots(b) <=> b.entry[i] # NoEntry
  BY DEF Buffer, UsedSlots, NoEntry
<1>3. \A i \in Slots : b.entry[i] # NoEntry <=> i < n
  BY DEF RingOK, total_entries, Buffer, Slots
<1>4. UsedSlots(b) \subseteq Slots
  BY DEF UsedSlots
<1> HIDE DEF n
<1>5. UsedSlots(b) = 0 .. n - 1
  <2>1. \A i : i \in 0 .. n - 1 <=> i \in Slots /\ i < n
    BY <1>1 DEF Slots
  <2>2. \A i : i \in UsedSlots(b) <=> i \in Slots /\ i < n
    BY <1>2, <1>3, <1>4
  <2> QED
    BY <2>1, <2>2
<1>6. Cardinality(0 .. n - 1) = n
  <2>1. n - 1 \in Int /\ 0 \in Int /\ n \in Nat
    BY <1>1
  <2>2. Cardinality(0 .. n - 1) = IF 0 > n - 1 THEN 0 ELSE (n - 1) - 0 + 1
    BY <2>1, FS_Interval
  <2> QED
    BY <2>1, <2>2
<1> QED
  BY <1>1, <1>5, <1>6 DEF aesd_circular_buffer_size
=============================================================================
