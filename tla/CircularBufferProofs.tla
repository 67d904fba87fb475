------------------------ MODULE CircularBufferProofs ------------------------
(***************************************************************************)
(* Theorems about the circular buffer for every capacity, every set of     *)
(* addresses and every set of entry sizes.                                 *)
(***************************************************************************)
EXTENDS CircularBufferSpec, CircularBufferLemmas

(* The offsets, the flag and the slots: inductive as it stands. *)
IInv == TypeOK /\ RingInv

(* No entry of a caller looks like the zeroes of memset. *)
LEMMA NoEntryNotEntry == NoEntry \notin Entry
BY PtrAssumption DEF NoEntry, Entry

(* memset establishes the invariant. *)
LEMMA InitIInv == Init => IInv
BY InitBuffer DEF Init, IInv, TypeOK, RingInv

(* add_entry preserves the invariant. *)
LEMMA NextIInv == IInv /\ [Next]_vars => IInv'
<1> SUFFICES ASSUME IInv, [Next]_vars PROVE IInv'
  OBVIOUS
<1> USE DEF IInv, TypeOK, RingInv
<1>1. CASE UNCHANGED vars
  BY <1>1 DEF vars
<1>2. CASE Next
  <2>1. PICK e \in Entry : AddEntry(e)
    BY <1>2 DEF Next
  <2>2. buffer' \in Buffer(Entry) /\ RingOK(buffer')
    BY <2>1, NoEntryNotEntry, AddEntryWellFormed DEF AddEntry
  <2>3. overwritten_entry(buffer) \in Ptr \cup {NULL}
    <3>1. buffer.entry[buffer.out_offs] \in Entry \cup {NoEntry}
      BY DEF Buffer
    <3> QED
      BY <3>1 DEF overwritten_entry, Entry, NoEntry
  <2> QED
    BY <2>1, <2>2, <2>3 DEF AddEntry
<1> QED
  BY <1>1, <1>2

(* After any sequence of add_entry calls the buffer has its type.          *)
THEOREM RingTypes == Spec => []TypeOK
<1>1. IInv => TypeOK
  BY DEF IInv
<1> QED
  BY <1>1, InitIInv, NextIInv, PTL DEF Spec

(* After any sequence of add_entry calls the offsets, the full flag and    *)
(* the used slots agree.                                                   *)
THEOREM RingCorrect == Spec => []RingInv
<1>1. IInv => RingInv
  BY DEF IInv
<1> QED
  BY <1>1, InitIInv, NextIInv, PTL DEF Spec
-----------------------------------------------------------------------------
(* One add_entry is one push onto the log. *)
LEMMA AddEntryIsPush ==
  ASSUME IInv, NEW e \in Entry, AddEntry(e)
  PROVE  Log!Push(e)
<1>1. buffer \in Buffer(Entry) /\ RingOK(buffer)
  BY DEF IInv, TypeOK, RingInv
<1>2. /\ Entries(buffer) \in Seq(Entry)
      /\ Len(Entries(buffer)) \in 0 .. MAX
  BY <1>1, EntriesType
<1>3. buffer.full <=> ~(Len(Entries(buffer)) < MAX)
  BY <1>1, <1>2, OverwrittenIsOldest, MaxPositive
<1>4. Entries(buffer)' = Log!Pushed(Entries(buffer), e)
  <2>1. CASE buffer.full
    BY <1>1, <1>3, <2>1, NoEntryNotEntry, AddEntryRotates DEF AddEntry, Log!Pushed
  <2>2. CASE ~buffer.full
    BY <1>1, <1>3, <2>2, NoEntryNotEntry, AddEntryAppends DEF AddEntry, Log!Pushed
  <2> QED
    BY <2>1, <2>2
<1>5. overwritten' = IF Len(Entries(buffer)) < MAX THEN NULL
                                                   ELSE Head(Entries(buffer)).buffptr
  BY <1>1, <1>3, OverwrittenIsOldest DEF AddEntry
<1> QED
  BY <1>4, <1>5 DEF Log!Push

(* Slots, offsets and the full flag implement the log of the last MAX      *)
(* commands; every add_entry hands back the memory of exactly the command  *)
(* the log drops.                                                          *)
THEOREM BufferImplementsLog == Spec => ImplementsCommandLog
<1>1. Init => Log!Init
  BY InitBuffer DEF Init, Log!Init
<1>2. IInv /\ [Next]_vars => [Log!Next]_(Log!vars)
  <2> SUFFICES ASSUME IInv, [Next]_vars PROVE [Log!Next]_(Log!vars)
    OBVIOUS
  <2>1. CASE UNCHANGED vars
    BY <2>1 DEF vars, Log!vars, Entries, total_entries, Slot
  <2>2. CASE Next
    <3>1. PICK e \in Entry : AddEntry(e)
      BY <2>2 DEF Next
    <3>2. Log!Push(e)
      BY <3>1, AddEntryIsPush
    <3> QED
      BY <3>2 DEF Log!Next
  <2> QED
    BY <2>1, <2>2
<1> QED
  BY <1>1, <1>2, InitIInv, NextIInv, PTL DEF Spec, ImplementsCommandLog, Log!Spec
-----------------------------------------------------------------------------
(* The bytes of each entry, as Bytes lays them end to end. *)
ByteSeqs(b) == [k \in 1 .. Len(Entries(b)) |->
                  [j \in 1 .. Entries(b)[k].size |-> <<Entries(b)[k].buffptr, j - 1>>]]

(* They are what the lemmas about the search speak of. *)
LEMMA EntryBytes ==
  ASSUME IInv
  PROVE  /\ buffer \in Buffer([buffptr : Ptr, size : Nat]) /\ RingOK(buffer)
         /\ BytesOf(Ptr \X Nat, buffer, ByteSeqs(buffer))
         /\ Bytes(Entries(buffer)) = FlattenSeq(ByteSeqs(buffer))
         /\ \A k \in 1 .. Len(Entries(buffer)) : \A j \in 1 .. Entries(buffer)[k].size :
              ByteSeqs(buffer)[k][j] = <<Entries(buffer)[k].buffptr, j - 1>>
<1> DEFINE es == Entries(buffer)
           s == ByteSeqs(buffer)
           n == Len(es)
<1>1. buffer \in Buffer([buffptr : Ptr, size : Nat]) /\ RingOK(buffer)
  BY SizesAssumption DEF IInv, TypeOK, RingInv, Buffer, Entry
<1>2. es \in Seq([buffptr : Ptr, size : Nat]) /\ n \in Nat
  BY <1>1, EntriesType
<1>3. s = [k \in 1 .. n |-> [j \in 1 .. es[k].size |-> <<es[k].buffptr, j - 1>>]]
  BY DEF ByteSeqs
<1>4. Bytes(es) = FlattenSeq(s)
  BY <1>3 DEF Bytes
<1> HIDE DEF es, s, n
<1>5. ASSUME NEW k \in 1 .. n
      PROVE  s[k] \in Seq(Ptr \X Nat) /\ Len(s[k]) = es[k].size
  <2>1. es[k] \in [buffptr : Ptr, size : Nat]
    BY <1>2, ElementOfSeq DEF n
  <2> DEFINE p == es[k].buffptr
             m == es[k].size
  <2>2. p \in Ptr /\ m \in Nat
    BY <2>1
  <2>3. s[k] = [j \in 1 .. m |-> <<p, j - 1>>]
    BY <1>3
  <2> HIDE DEF p, m
  <2>4. s[k] \in [1 .. m -> Ptr \X Nat]
    BY <2>2, <2>3
  <2>5. s[k] \in Seq(Ptr \X Nat) /\ Len(s[k]) = m
    BY <2>2, <2>4, LenProperties, SeqDef
  <2> QED
    BY <2>5 DEF m
<1>6. s \in [1 .. n -> Seq(Ptr \X Nat)]
  BY <1>3, <1>5
<1>7. s \in Seq(Seq(Ptr \X Nat)) /\ Len(s) = n
  BY <1>2, <1>6, LenProperties, SeqDef
<1>8. BytesOf(Ptr \X Nat, buffer, s)
  BY <1>5, <1>7 DEF BytesOf, es, n
<1>9. \A k \in 1 .. n : \A j \in 1 .. es[k].size : s[k][j] = <<es[k].buffptr, j - 1>>
  BY <1>3
<1> QED
  BY <1>1, <1>4, <1>8, <1>9 DEF es, s, n

(* For every position the search returns the byte that stands there when   *)
(* the entries are laid end to end, and nothing past the end, in a ring of *)
(* any capacity, wherever it starts, with entries of any sizes.            *)
THEOREM SearchCorrect == Spec => []FindIsConcatenation
<1>1. ASSUME IInv PROVE FindIsConcatenation
  <2> DEFINE s == ByteSeqs(buffer)
             all == Bytes(Entries(buffer))
  <2> SUFFICES ASSUME NEW pos \in 0 .. Len(all) + 1
               PROVE  LET r == aesd_circular_buffer_find_entry_offset_for_fpos(buffer, pos)
                      IN  IF pos < Len(all)
                          THEN /\ r.slot # NULL
                               /\ <<buffer.entry[r.slot].buffptr, r.entry_offset>> = all[pos + 1]
                          ELSE r.slot = NULL
    BY DEF FindIsConcatenation
  <2> DEFINE r == aesd_circular_buffer_find_entry_offset_for_fpos(buffer, pos)
  <2>1. /\ buffer \in Buffer([buffptr : Ptr, size : Nat]) /\ RingOK(buffer)
        /\ BytesOf(Ptr \X Nat, buffer, s) /\ all = FlattenSeq(s)
        /\ \A k \in 1 .. Len(Entries(buffer)) : \A j \in 1 .. Entries(buffer)[k].size :
              s[k][j] = <<Entries(buffer)[k].buffptr, j - 1>>
    BY <1>1, EntryBytes
  <2> HIDE DEF s, all
  <2>2. /\ s \in Seq(Seq(Ptr \X Nat)) /\ Len(s) = Len(Entries(buffer))
        /\ \A k \in 1 .. Len(s) : Len(s[k]) = Entries(buffer)[k].size
    BY <2>1 DEF BytesOf
  <2>3. Len(all) \in Nat /\ pos \in Nat
    BY <2>1, <2>2, FlattenType
  <2>4. CASE pos < Len(all)
    <3>0. Finds(buffer, s, pos, r)
      BY <2>1, <2>3, <2>4, SearchFinds
    <3> HIDE DEF r
    <3>1. PICK i \in 0 .. Len(s) - 1 :
             /\ r.slot = Slot(buffer, i) /\ r.slot \in Slots /\ r.slot # NULL
             /\ buffer.entry[r.slot] = Entries(buffer)[i+1]
             /\ r.entry_offset \in 0 .. Len(s[i+1]) - 1
             /\ pos = Before(s, i) + r.entry_offset
      BY <3>0 DEF Finds
    <3> DEFINE j == r.entry_offset + 1
    <3>2. i+1 \in 1 .. Len(s) /\ Len(s) \in Nat
      BY <2>2
    <3>3. s[i+1] \in Seq(Ptr \X Nat) /\ Len(s[i+1]) \in Nat
      BY <2>2, <3>2, ElementOfSeq
    <3>4. j \in 1 .. Len(s[i+1]) /\ j - 1 = r.entry_offset
      <4>1. r.entry_offset \in 0 .. Len(s[i+1]) - 1
        BY <3>1
      <4> QED
        BY <3>3, <4>1, SMTT(30)
    <3>5. j \in 1 .. Entries(buffer)[i+1].size
      BY <2>2, <3>2, <3>4
    <3> HIDE DEF j
    <3>6. s[i+1][j] = <<Entries(buffer)[i+1].buffptr, r.entry_offset>>
      BY <2>1, <2>2, <3>2, <3>4, <3>5
    <3>7. all[Before(s, i) + j] = s[i+1][j]
      BY <2>1, <2>2, <3>4, FlattenElement DEF Before
    <3>8. Before(s, i) + j = pos + 1
      <4>1. Before(s, i) \in Nat /\ r.entry_offset \in Nat
        <5>1. 0 \in 0 .. Len(s[i+1])
          BY <3>3
        <5> QED
          BY <2>2, <3>1, <3>3, <5>1, FlattenSuffix DEF Before
      <4> QED
        BY <3>1, <4>1 DEF j
    <3> QED
      BY <2>4, <3>1, <3>6, <3>7, <3>8 DEF r
  <2>5. CASE ~(pos < Len(all))
    <3>1. r.slot = NULL
      BY <2>1, <2>3, <2>5, SearchEnds
    <3> QED
      BY <2>5, <3>1
  <2> QED
    BY <2>4, <2>5
<1> QED
  BY <1>1, InitIInv, NextIInv, PTL DEF Spec

(* aesd_circular_buffer_size and _total_size, which go through the array   *)
(* from slot 0 and look at pointers, count the entries and the bytes that  *)
(* the search, which starts at out_offs, can reach.                        *)
THEOREM SizesCorrect == Spec => []SizesAgree
<1>1. ASSUME IInv PROVE SizesAgree
  <2>1. /\ buffer \in Buffer([buffptr : Ptr, size : Nat]) /\ RingOK(buffer)
        /\ BytesOf(Ptr \X Nat, buffer, ByteSeqs(buffer))
        /\ Bytes(Entries(buffer)) = FlattenSeq(ByteSeqs(buffer))
    BY <1>1, EntryBytes
  <2>2. aesd_circular_buffer_size(buffer) = Len(Entries(buffer))
    BY <2>1, PtrAssumption, SizeIsEntries
  <2>3. aesd_circular_buffer_total_size(buffer) = Len(FlattenSeq(ByteSeqs(buffer)))
    BY <2>1, PtrAssumption, TotalIsBytes
  <2> QED
    BY <2>1, <2>2, <2>3 DEF SizesAgree
<1> QED
  BY <1>1, InitIInv, NextIInv, PTL DEF Spec
=============================================================================
