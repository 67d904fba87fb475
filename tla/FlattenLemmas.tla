--------------------------- MODULE FlattenLemmas ---------------------------
(***************************************************************************)
(* Facts about concatenations of sequences of any length.  The content of  *)
(* the device is FlattenSeq of its commands, a recursive function, and the *)
(* provers cannot instantiate an induction rule.  UpTo is one they can: it *)
(* speaks of a set of numbers instead of a predicate.                      *)
(***************************************************************************)
EXTENDS Integers, Sequences, SequencesExt, FiniteSetTheorems, SequenceTheorems,
        WellFoundedInduction, TLAPS

(* A non-empty set of numbers has a least element, and Min names it. *)
LEMMA LeastNat ==
  ASSUME NEW T, T \subseteq Nat, T # {}
  PROVE  /\ Min(T) \in T
         /\ \A y \in T : Min(T) <= y
<1>1. \E x \in T : \A y \in T : ~ (<<y, x>> \in OpToRel(<, Nat))
  BY NatLessThanWellFounded, WFMin
<1>2. PICK m \in T : \A y \in T : ~ (<<y, m>> \in OpToRel(<, Nat))
  BY <1>1
<1>3. ASSUME NEW y \in T PROVE m <= y
  <2>1. OpToRel(<, Nat) = {ss \in Nat \X Nat : ss[1] < ss[2]}
    BY DEF OpToRel
  <2>2. ~(<<y, m>> \in {ss \in Nat \X Nat : ss[1] < ss[2]})
    BY <1>2, <2>1
  <2> QED
    BY <2>2
<1> QED
  BY <1>3 DEF Min

(* Induction up to N: a set that holds 0 and, with each number below N,    *)
(* the next one, holds all of them.                                        *)
LEMMA UpTo ==
  ASSUME NEW N \in Nat, NEW T, 0 \in T,
         \A n \in 0 .. N-1 : n \in T => n + 1 \in T
  PROVE  0 .. N \subseteq T
<1> SUFFICES ASSUME ~(0 .. N \subseteq T) PROVE FALSE
  OBVIOUS
<1> DEFINE B == {n \in 0 .. N : n \notin T}
           m == Min(B)
<1>1. B \subseteq Nat /\ B # {}
  OBVIOUS
<1> HIDE DEF B
<1>2. m \in B /\ \A y \in B : m <= y
  BY <1>1, LeastNat
<1> HIDE DEF m
<1>3. m \in 1 .. N /\ m \notin T
  BY <1>2 DEF B
<1>4. m - 1 \in 0 .. N-1 /\ ~(m <= m - 1)
  BY <1>3
<1>5. m - 1 \in T
  BY <1>2, <1>4 DEF B
<1>6. (m - 1) + 1 \in T
  BY <1>4, <1>5
<1> QED
  BY <1>3, <1>6
-----------------------------------------------------------------------------
(* f holds the concatenations of the first sequences of s. *)
Concats(S, s, f) ==
  /\ f \in [0 .. Len(s) -> Seq(S)]
  /\ f[0] = <<>>
  /\ \A k \in 0 .. Len(s) - 1 : f[k+1] = f[k] \o s[k+1]

(* There is such a function, for every sequence of sequences. *)
LEMMA ConcatsExist ==
  ASSUME NEW S, NEW s \in Seq(Seq(S))
  PROVE  \E f : Concats(S, s, f)
<1> DEFINE N == Len(s)
           P(n) == \E f \in [0 .. n -> Seq(S)] :
                     f[0] = <<>> /\ \A k \in 0 .. n-1 : f[k+1] = f[k] \o s[k+1]
           T == {n \in 0 .. N : P(n)}
<1>0. N \in Nat
  OBVIOUS
<1>1. 0 \in T
  <2> DEFINE f == [k \in 0 .. 0 |-> <<>>]
  <2>1. f \in [0 .. 0 -> Seq(S)] /\ f[0] = <<>>
    OBVIOUS
  <2>2. \A k \in 0 .. 0-1 : f[k+1] = f[k] \o s[k+1]
    OBVIOUS
  <2> HIDE DEF f
  <2>3. P(0)
    BY <2>1, <2>2
  <2> HIDE DEF P
  <2> QED
    BY <1>0, <2>3
<1>2. ASSUME NEW n \in 0 .. N-1, n \in T PROVE n + 1 \in T
  <2>1. PICK f \in [0 .. n -> Seq(S)] :
               f[0] = <<>> /\ \A k \in 0 .. n-1 : f[k+1] = f[k] \o s[k+1]
    BY <1>2
  <2>2. s[n+1] \in Seq(S) /\ n \in 0 .. n /\ n + 1 \in 0 .. N
    BY <1>0
  <2> DEFINE g == [k \in 0 .. n+1 |-> IF k = n + 1 THEN f[n] \o s[n+1] ELSE f[k]]
  <2>3. f[n] \o s[n+1] \in Seq(S)
    BY <2>2
  <2>4. g \in [0 .. n+1 -> Seq(S)] /\ g[0] = <<>>
    <3>1. ASSUME NEW k \in 0 .. n+1, k # n + 1 PROVE f[k] \in Seq(S)
      BY <1>0, <3>1
    <3> QED
      BY <1>0, <2>1, <2>3, <3>1
  <2>5. ASSUME NEW k \in 0 .. (n+1)-1 PROVE g[k+1] = g[k] \o s[k+1]
    <3>1. k \in 0 .. n /\ k # n + 1 /\ k + 1 \in 0 .. n+1 /\ g[k] = f[k]
      BY <1>0
    <3>2. CASE k = n
      BY <3>1, <3>2
    <3>3. CASE k # n
      <4>1. k \in 0 .. n-1 /\ k + 1 # n + 1
        BY <3>1, <3>3
      <4>2. g[k+1] = f[k+1]
        BY <3>1, <4>1
      <4> QED
        BY <2>1, <3>1, <4>1, <4>2
    <3> QED
      BY <3>2, <3>3
  <2> HIDE DEF g
  <2>6. P(n+1)
    BY <2>4, <2>5
  <2> HIDE DEF P
  <2> QED
    BY <2>2, <2>6
<1> HIDE DEF T
<1>3. 0 .. N \subseteq T
  BY <1>0, <1>1, <1>2, UpTo
<1>4. P(N)
  <2> HIDE DEF P
  <2> QED
    BY <1>0, <1>3 DEF T
<1>5. PICK f \in [0 .. N -> Seq(S)] :
             f[0] = <<>> /\ \A k \in 0 .. N-1 : f[k+1] = f[k] \o s[k+1]
  BY <1>4
<1>6. Concats(S, s, f)
  BY <1>5 DEF Concats
<1> QED
  BY <1>6

(* FlattenSeq computes the last of the concatenations. *)
LEMMA FlattenIsConcat ==
  ASSUME NEW S, NEW s \in Seq(Seq(S)), NEW f, Concats(S, s, f)
  PROVE  FlattenSeq(s) = f[Len(s)]
<1> DEFINE N == Len(s)
           F(g) == [i \in 1 .. N |-> IF i = 1 THEN s[i] ELSE g[i-1] \o s[i]]
           h == CHOOSE g : g = F(g)
           r == [i \in 1 .. N |-> f[i]]
<1>0. N \in Nat /\ \A i \in 1 .. N : s[i] \in Seq(S)
  OBVIOUS
<1>1. CASE N = 0
  BY <1>1 DEF FlattenSeq, Concats
<1>2. CASE N # 0
  <2>1. r = F(r)
    <3>1. ASSUME NEW i \in 1 .. N PROVE r[i] = IF i = 1 THEN s[i] ELSE r[i-1] \o s[i]
      <4>1. i - 1 \in 0 .. N-1 /\ (i-1)+1 = i
        BY <1>0
      <4>2. f[i] = f[i-1] \o s[i]
        BY <4>1 DEF Concats
      <4>3. r[i] = f[i]
        OBVIOUS
      <4>4. CASE i = 1
        <5>1. f[i-1] = <<>>
          BY <4>4 DEF Concats
        <5>2. <<>> \o s[i] = s[i]
          BY <1>0, ConcatEmptySeq
        <5> QED
          BY <4>2, <4>3, <4>4, <5>1, <5>2
      <4>5. CASE i # 1
        <5>1. i - 1 \in 1 .. N
          BY <4>5
        <5> QED
          BY <4>2, <4>3, <4>5, <5>1
      <4> QED
        BY <4>4, <4>5
    <3> QED
      BY <3>1
  <2>2. h = F(h)
    BY <2>1
  <2> HIDE DEF h
  <2>3. h[1] = s[1] /\ \A i \in 1 .. N-1 : h[i+1] = h[i] \o s[i+1]
    <3>1. ASSUME NEW i \in 1 .. N PROVE h[i] = IF i = 1 THEN s[i] ELSE h[i-1] \o s[i]
      BY <2>2
    <3>2. h[1] = s[1]
      BY <1>0, <1>2, <3>1
    <3>3. ASSUME NEW i \in 1 .. N-1 PROVE h[i+1] = h[i] \o s[i+1]
      <4>1. i + 1 \in 1 .. N /\ i + 1 # 1 /\ (i + 1) - 1 = i
        BY <1>0
      <4> QED
        BY <3>1, <4>1
    <3> QED
      BY <3>2, <3>3
  <2> DEFINE T == {n \in 0 .. N-1 : h[n+1] = f[n+1]}
  <2>4. N - 1 \in Nat
    BY <1>0, <1>2
  <2>5. 0 \in T
    <3>1. f[0+1] = f[0] \o s[0+1]
      <4>1. 0 \in 0 .. N-1
        BY <2>4
      <4> QED
        BY <4>1, Zenon DEF Concats
    <3>2. f[1] = s[1]
      <4>1. f[0] = <<>> /\ s[1] \in Seq(S)
        BY <1>0, <1>2 DEF Concats
      <4>2. <<>> \o s[1] = s[1]
        BY <4>1, ConcatEmptySeq
      <4> QED
        BY <3>1, <4>1, <4>2
    <3> QED
      BY <2>3, <2>4, <3>2
  <2>6. ASSUME NEW n \in 0 .. (N-1)-1, n \in T PROVE n + 1 \in T
    <3>1. n + 1 \in 0 .. N-1 /\ n + 1 \in 1 .. N-1
      BY <2>4
    <3>2. f[(n+1)+1] = f[n+1] \o s[(n+1)+1]
      BY <3>1 DEF Concats
    <3>3. h[(n+1)+1] = h[n+1] \o s[(n+1)+1]
      BY <2>3, <3>1
    <3>4. h[n+1] = f[n+1]
      BY <2>6
    <3> QED
      BY <3>1, <3>2, <3>3, <3>4
  <2> HIDE DEF T
  <2>7. 0 .. N-1 \subseteq T
    BY <2>4, <2>5, <2>6, UpTo
  <2>8. h[(N-1)+1] = f[(N-1)+1]
    <3>1. N - 1 \in 0 .. N-1
      BY <2>4
    <3>2. N - 1 \in T
      BY <2>7, <3>1
    <3> QED
      BY <3>2, Zenon DEF T
  <2>9. FlattenSeq(s) = h[N]
    BY <1>2 DEF FlattenSeq, h
  <2> QED
    BY <1>0, <2>8, <2>9
<1> QED
  BY <1>1, <1>2

(* The concatenation of the first k is the k-th of the concatenations. *)
LEMMA FlattenPrefix ==
  ASSUME NEW S, NEW s \in Seq(Seq(S)), NEW f, Concats(S, s, f), NEW k \in 0 .. Len(s)
  PROVE  FlattenSeq(SubSeq(s, 1, k)) = f[k]
<1> DEFINE t == SubSeq(s, 1, k)
           g == [j \in 0 .. k |-> f[j]]
<1>1. t \in Seq(Seq(S)) /\ Len(t) = k /\ \A j \in 1 .. k : t[j] = s[j]
  OBVIOUS
<1> HIDE DEF t
<1>2. g \in [0 .. k -> Seq(S)] /\ g[0] = <<>>
  BY SMTT(30) DEF Concats
<1>3. ASSUME NEW j \in 0 .. k-1 PROVE g[j+1] = g[j] \o t[j+1]
  <2>1. j \in 0 .. Len(s)-1 /\ j \in 0 .. k /\ j + 1 \in 0 .. k /\ j + 1 \in 1 .. k
    OBVIOUS
  <2>2. f[j+1] = f[j] \o s[j+1]
    BY <2>1 DEF Concats
  <2> QED
    BY <1>1, <2>1, <2>2
<1>4. g[k] = f[k]
  OBVIOUS
<1> HIDE DEF g
<1>5. Concats(S, t, g)
  BY <1>1, <1>2, <1>3 DEF Concats
<1> QED
  BY <1>1, <1>4, <1>5, FlattenIsConcat DEF t

(* The bytes of the first k sequences, for each k: there are none at       *)
(* first, each sequence adds its own, and all are of the right type.       *)
LEMMA FlattenGrows ==
  ASSUME NEW S, NEW s \in Seq(Seq(S))
  PROVE  /\ FlattenSeq(SubSeq(s, 1, 0)) = <<>>
         /\ FlattenSeq(SubSeq(s, 1, Len(s))) = FlattenSeq(s)
         /\ \A k \in 0 .. Len(s) : FlattenSeq(SubSeq(s, 1, k)) \in Seq(S)
         /\ \A k \in 0 .. Len(s) - 1 :
              FlattenSeq(SubSeq(s, 1, k+1)) = FlattenSeq(SubSeq(s, 1, k)) \o s[k+1]
<1>1. PICK f : Concats(S, s, f)
  BY ConcatsExist
<1>2. \A k \in 0 .. Len(s) : FlattenSeq(SubSeq(s, 1, k)) = f[k]
  BY <1>1, FlattenPrefix
<1>3. SubSeq(s, 1, Len(s)) = s
  BY SubSeqFull
<1>4. \A k \in 0 .. Len(s) : f[k] \in Seq(S)
  BY <1>1 DEF Concats
<1>5. ASSUME NEW k \in 0 .. Len(s) - 1
      PROVE  FlattenSeq(SubSeq(s, 1, k+1)) = FlattenSeq(SubSeq(s, 1, k)) \o s[k+1]
  <2>1. k \in 0 .. Len(s) /\ k + 1 \in 0 .. Len(s)
    OBVIOUS
  <2>2. f[k+1] = f[k] \o s[k+1]
    BY <1>1 DEF Concats
  <2> QED
    BY <1>2, <2>1, <2>2
<1>6. FlattenSeq(SubSeq(s, 1, 0)) = <<>>
  <2>1. 0 \in 0 .. Len(s) /\ f[0] = <<>>
    BY <1>1 DEF Concats
  <2> QED
    BY <1>2, <2>1
<1> QED
  BY <1>2, <1>3, <1>4, <1>5, <1>6

(* The concatenation of a sequence of sequences is a sequence. *)
LEMMA FlattenType ==
  ASSUME NEW S, NEW s \in Seq(Seq(S))
  PROVE  FlattenSeq(s) \in Seq(S)
<1>1. Len(s) \in 0 .. Len(s)
  OBVIOUS
<1> QED
  BY <1>1, FlattenGrows

(* Concatenation is associative. *)
LEMMA Associative ==
  ASSUME NEW S
  PROVE  \A x, y, z \in Seq(S) : (x \o y) \o z = x \o (y \o z)
<1> SUFFICES ASSUME NEW x \in Seq(S), NEW y \in Seq(S), NEW z \in Seq(S)
             PROVE  (x \o y) \o z = x \o (y \o z)
  OBVIOUS
<1> QED
  BY ConcatAssociative

(* Counting on from k. *)
LEMMA CountOn ==
  ASSUME NEW m \in Nat, NEW k \in 0 .. m, NEW n \in 0 .. (m - k) - 1
  PROVE  /\ k + n \in 0 .. m - 1 /\ n + 1 \in 0 .. m - k /\ n \in 0 .. m - k
         /\ (k + n) + 1 = k + (n + 1) /\ n + 1 \in 1 .. m - k
OBVIOUS

(* What the first k sequences and the next up to m make of it: one behind  *)
(* the other.                                                              *)
LEMMA FlattenSplit ==
  ASSUME NEW S, NEW s \in Seq(Seq(S)), NEW k \in 0 .. Len(s), NEW m \in k .. Len(s)
  PROVE  FlattenSeq(SubSeq(s, 1, m)) =
           FlattenSeq(SubSeq(s, 1, k)) \o FlattenSeq(SubSeq(s, k+1, m))
<1> DEFINE u == SubSeq(s, k+1, Len(s))
           N == Len(s) - k
           A(n) == FlattenSeq(SubSeq(s, 1, n))
           B(n) == FlattenSeq(SubSeq(u, 1, n))
           T == {n \in 0 .. N : A(k+n) = A(k) \o B(n)}
<1>0. N \in Nat /\ Len(s) \in Nat /\ k \in Nat /\ \A j \in 1 .. Len(s) : s[j] \in Seq(S)
  OBVIOUS
<1>1. u \in Seq(Seq(S)) /\ Len(u) = N /\ N \in Nat /\ \A j \in 1 .. N : u[j] = s[k+j]
  <2>1. \A j \in k+1 .. Len(s) : s[j] \in Seq(S)
    BY <1>0
  <2>2. /\ u \in Seq(Seq(S))
        /\ Len(u) = IF k+1 <= Len(s) THEN Len(s) - (k+1) + 1 ELSE 0
        /\ \A i \in 1 .. Len(s) - (k+1) + 1 : u[i] = s[(k+1)+i-1]
    BY <1>0, <2>1, SubSeqProperties
  <2> HIDE DEF u
  <2>3. ASSUME NEW j \in 1 .. N PROVE u[j] = s[k+j]
    BY <1>0, <2>2
  <2> QED
    BY <1>0, <2>2, <2>3
<1>2. \A j \in 1 .. N : u[j] = s[k+j]
  BY <1>1
<1> HIDE DEF u
<1>3. /\ \A n \in 0 .. Len(s) : A(n) \in Seq(S)
      /\ \A n \in 0 .. Len(s) - 1 : A(n+1) = A(n) \o s[n+1]
  BY FlattenGrows
<1>4. /\ B(0) = <<>>
      /\ \A n \in 0 .. N : B(n) \in Seq(S)
      /\ \A n \in 0 .. N - 1 : B(n+1) = B(n) \o u[n+1]
  BY <1>1, FlattenGrows
<1>10. ASSUME NEW n \in 0 .. N PROVE SubSeq(s, k+1, k+n) = SubSeq(u, 1, n)
  <2> DEFINE a == SubSeq(s, k+1, k+n)
             b == SubSeq(u, 1, n)
  <2>1. a \in Seq(Seq(S)) /\ Len(a) = n /\ \A j \in 1 .. n : a[j] = s[k+j]
    <3>1. \A j \in k+1 .. k+n : s[j] \in Seq(S)
      BY <1>0
    <3>2. /\ a \in Seq(Seq(S))
          /\ Len(a) = IF k+1 <= k+n THEN (k+n) - (k+1) + 1 ELSE 0
          /\ \A i \in 1 .. (k+n) - (k+1) + 1 : a[i] = s[(k+1)+i-1]
      BY <1>0, <3>1, SubSeqProperties
    <3> HIDE DEF a
    <3>3. ASSUME NEW j \in 1 .. n PROVE a[j] = s[k+j]
      BY <1>0, <3>2
    <3> QED
      BY <1>0, <3>2, <3>3
  <2>2. b \in Seq(Seq(S)) /\ Len(b) = n /\ \A j \in 1 .. n : b[j] = u[j]
    BY <1>1
  <2> HIDE DEF a, b
  <2>3. ASSUME NEW j \in 1 .. n PROVE a[j] = b[j]
    <3>1. j \in 1 .. N
      BY <1>0
    <3>2. a[j] = s[k+j] /\ b[j] = u[j]
      BY <2>1, <2>2
    <3> QED
      BY <1>2, <3>1, <3>2
  <2>4. a = b
    BY <2>1, <2>2, <2>3, SeqEqual
  <2> QED
    BY <2>4 DEF a, b
<1> HIDE DEF A, B
<1>11. \A x, y, z \in Seq(S) : (x \o y) \o z = x \o (y \o z)
  BY Associative, SMTT(30)
<1>5. 0 \in T
  <2>1. A(k) \o <<>> = A(k)
    BY <1>3, ConcatEmptySeq
  <2>2. k + 0 = k /\ 0 \in 0 .. N
    BY <1>1
  <2> QED
    BY <1>4, <2>1, <2>2
<1>6. ASSUME NEW n \in 0 .. N-1, n \in T PROVE n + 1 \in T
  <2>1. /\ k + n \in 0 .. Len(s) - 1 /\ n + 1 \in 0 .. N /\ n \in 0 .. N
        /\ (k + n) + 1 = k + (n + 1) /\ n + 1 \in 1 .. N
    BY <1>0, CountOn
  <2>2. A(k + (n+1)) = A(k+n) \o s[k + (n+1)]
    BY <1>3, <2>1
  <2>3. B(n+1) = B(n) \o s[k + (n+1)]
    BY <1>2, <1>4, <2>1
  <2>4. A(k+n) = A(k) \o B(n)
    BY <1>6
  <2>5. A(k) \in Seq(S) /\ B(n) \in Seq(S) /\ s[k + (n+1)] \in Seq(S)
    BY <1>3, <1>4, <2>1, SMTT(30)
  <2>6. (A(k) \o B(n)) \o s[k + (n+1)] = A(k) \o (B(n) \o s[k + (n+1)])
    <3> DEFINE x == A(k)
               y == B(n)
               z == s[k + (n+1)]
    <3>1. x \in Seq(S) /\ y \in Seq(S) /\ z \in Seq(S)
      BY <2>5
    <3> HIDE DEF x, y, z
    <3>2. (x \o y) \o z = x \o (y \o z)
      BY <1>11, <3>1, Zenon
    <3> QED
      BY <3>2 DEF x, y, z
  <2>7. A(k + (n+1)) = A(k) \o B(n+1)
    BY <2>2, <2>3, <2>4, <2>6
  <2> QED
    BY <2>1, <2>7
<1> HIDE DEF T
<1>7. 0 .. N \subseteq T
  BY <1>1, <1>5, <1>6, UpTo
<1>8. m - k \in 0 .. N /\ k + (m - k) = m
  BY <1>1
<1>9. A(k + (m - k)) = A(k) \o B(m - k)
  BY <1>7, <1>8 DEF T
<1> QED
  BY <1>8, <1>9, <1>10 DEF A, B

(* The bytes of the first k sequences are a prefix of all bytes. *)
LEMMA FlattenMonotonic ==
  ASSUME NEW S, NEW s \in Seq(Seq(S)), NEW k \in 0 .. Len(s), NEW m \in k .. Len(s)
  PROVE  Len(FlattenSeq(SubSeq(s, 1, k))) <= Len(FlattenSeq(SubSeq(s, 1, m)))
<1> DEFINE a == FlattenSeq(SubSeq(s, 1, k))
           u == SubSeq(s, k+1, m)
           b == FlattenSeq(u)
<1>1. a \in Seq(S)
  BY FlattenGrows
<1>2. u \in Seq(Seq(S))
  <2>1. \A j \in k+1 .. m : s[j] \in Seq(S)
    OBVIOUS
  <2> QED
    BY <2>1, SubSeqProperties
<1> HIDE DEF u
<1>3. b \in Seq(S)
  BY <1>2, FlattenType
<1>4. FlattenSeq(SubSeq(s, 1, m)) = a \o b
  BY FlattenSplit DEF u
<1> HIDE DEF a, b
<1>5. Len(a \o b) = Len(a) + Len(b) /\ Len(a) \in Nat /\ Len(b) \in Nat
  BY <1>1, <1>3
<1> QED
  BY <1>4, <1>5 DEF a

(* A slice, its type, its length and its elements. *)
LEMMA Slice ==
  ASSUME NEW S, NEW s \in Seq(S), NEW i \in 0 .. Len(s), NEW j \in i .. Len(s)
  PROVE  /\ SubSeq(s, i+1, j) \in Seq(S) /\ Len(SubSeq(s, i+1, j)) = j - i
         /\ \A m \in 1 .. j - i : SubSeq(s, i+1, j)[m] = s[i+m]
<1> DEFINE u == SubSeq(s, i+1, j)
<1>1. \A m \in i+1 .. j : s[m] \in S
  OBVIOUS
<1>2. /\ u \in Seq(S) /\ Len(u) = IF i+1 <= j THEN j - (i+1) + 1 ELSE 0
      /\ \A m \in 1 .. j - (i+1) + 1 : u[m] = s[(i+1) + m - 1]
  BY <1>1, SubSeqProperties
<1> HIDE DEF u
<1>3. ASSUME NEW m \in 1 .. j - i PROVE u[m] = s[i+m]
  BY <1>2
<1>4. u \in Seq(S) /\ Len(u) = j - i
  BY <1>2
<1> QED
  BY <1>3, <1>4 DEF u

(* Two slices of which one begins where the other ends. *)
LEMMA SlicesJoin ==
  ASSUME NEW S, NEW s \in Seq(S), NEW i \in 0 .. Len(s), NEW j \in i .. Len(s), NEW k \in j .. Len(s)
  PROVE  SubSeq(s, i+1, j) \o SubSeq(s, j+1, k) = SubSeq(s, i+1, k)
<1> DEFINE a == SubSeq(s, i+1, j)
           b == SubSeq(s, j+1, k)
           c == SubSeq(s, i+1, k)
<1>0. i \in Nat /\ j \in Nat /\ k \in Nat /\ i <= j /\ j <= k /\ k <= Len(s) /\ Len(s) \in Nat
  OBVIOUS
<1>1. a \in Seq(S) /\ Len(a) = j - i /\ \A m \in 1 .. j - i : a[m] = s[i+m]
  BY Slice
<1>2. b \in Seq(S) /\ Len(b) = k - j /\ \A m \in 1 .. k - j : b[m] = s[j+m]
  <2>1. j \in 0 .. Len(s)
    BY <1>0
  <2> QED
    BY <2>1, Slice
<1>3. c \in Seq(S) /\ Len(c) = k - i /\ \A m \in 1 .. k - i : c[m] = s[i+m]
  <2>1. k \in i .. Len(s)
    BY <1>0
  <2> QED
    BY <2>1, Slice
<1> HIDE DEF a, b, c
<1>4. a \o b \in Seq(S) /\ Len(a \o b) = k - i
  <2>1. a \o b \in Seq(S) /\ Len(a \o b) = Len(a) + Len(b)
    BY <1>1, <1>2, ConcatProperties
  <2> QED
    BY <1>0, <1>1, <1>2, <2>1
<1>5. ASSUME NEW m \in 1 .. k - i PROVE (a \o b)[m] = c[m]
  <2>1. CASE m <= j - i
    BY <1>0, <1>1, <1>2, <1>3, <2>1
  <2>2. CASE ~(m <= j - i)
    <3>1. m - (j - i) \in 1 .. k - j /\ j + (m - (j - i)) = i + m
      BY <1>0, <2>2
    <3>2. (a \o b)[m] = b[m - (j - i)]
      BY <1>0, <1>1, <1>2, <2>2, SMTT(30)
    <3>3. b[m - (j - i)] = s[j + (m - (j - i))]
      BY <1>2, <3>1
    <3> QED
      BY <1>3, <3>1, <3>2, <3>3
  <2> QED
    BY <2>1, <2>2
<1>6. a \o b = c
  BY <1>3, <1>4, <1>5, SeqEqual
<1> QED
  BY <1>6 DEF a, b, c

(* What a concatenation holds from a position in its second part on. *)
SlicedInSecond(S) ==
  \A a, b, c \in Seq(S) : \A y \in 0 .. Len(b) :
     SubSeq((a \o b) \o c, Len(a) + y + 1, Len((a \o b) \o c)) = SubSeq(b, y+1, Len(b)) \o c

(* From a position in the middle of three sequences on come the rest of the *)
(* middle one and the last.                                                 *)
LEMMA SliceOfThree == ASSUME NEW S PROVE SlicedInSecond(S)
<1> SUFFICES ASSUME NEW a \in Seq(S), NEW b \in Seq(S), NEW c \in Seq(S), NEW y \in 0 .. Len(b)
             PROVE  SubSeq((a \o b) \o c, Len(a) + y + 1, Len((a \o b) \o c))
                      = SubSeq(b, y+1, Len(b)) \o c
  BY DEF SlicedInSecond
<1> DEFINE w == (a \o b) \o c
           i == Len(a) + y
           u == SubSeq(w, i+1, Len(w))
           v == SubSeq(b, y+1, Len(b))
           A == Len(a)
           B == Len(b)
           C == Len(c)
<1>0. A \in Nat /\ B \in Nat /\ C \in Nat /\ y \in Nat /\ y <= B
  OBVIOUS
<1>1. a \o b \in Seq(S) /\ Len(a \o b) = A + B
  OBVIOUS
<1>2. w \in Seq(S) /\ Len(w) = A + B + C
  BY <1>1
<1>3. \A m \in 1 .. B : w[A + m] = b[m]
  BY <1>1
<1>4. \A m \in 1 .. C : w[A + B + m] = c[m]
  BY <1>1
<1>5. v \in Seq(S) /\ Len(v) = B - y /\ \A m \in 1 .. B - y : v[m] = b[y+m]
  <2>1. Len(b) \in y .. Len(b)
    BY <1>0
  <2> QED
    BY <2>1, Slice
<1> HIDE DEF w, v, A, B, C
<1>6. u \in Seq(S) /\ Len(u) = Len(w) - i /\ \A m \in 1 .. Len(w) - i : u[m] = w[i+m]
  <2>1. i \in 0 .. Len(w) /\ Len(w) \in i .. Len(w)
    BY <1>0, <1>2 DEF A
  <2> HIDE DEF i
  <2> QED
    BY <1>2, <2>1, Slice
<1>7. i = A + y
  BY DEF A
<1> HIDE DEF u, i
<1>8. v \o c \in Seq(S) /\ Len(v \o c) = (B - y) + C
  <2>1. v \o c \in Seq(S) /\ Len(v \o c) = Len(v) + Len(c)
    BY <1>5, ConcatProperties
  <2> QED
    BY <1>0, <1>5, <2>1 DEF C
<1>9. Len(u) = (B - y) + C
  BY <1>0, <1>2, <1>6, <1>7
<1>10. ASSUME NEW m \in 1 .. (B - y) + C PROVE u[m] = (v \o c)[m]
  <2>0. u[m] = w[i + m]
    BY <1>6, <1>9
  <2>1. CASE m <= B - y
    <3>1. y + m \in 1 .. B /\ m \in 1 .. B - y /\ i + m = A + (y + m)
      BY <1>0, <1>7, <2>1
    <3>2. u[m] = b[y + m]
      BY <1>3, <2>0, <3>1
    <3>3. (v \o c)[m] = v[m]
      BY <1>0, <1>5, <3>1
    <3> QED
      BY <1>5, <3>1, <3>2, <3>3
  <2>2. CASE ~(m <= B - y)
    <3> DEFINE n == m - (B - y)
    <3>1. n \in 1 .. C /\ i + m = A + B + n
      BY <1>0, <1>7, <2>2
    <3>2. u[m] = c[n]
      BY <1>4, <2>0, <3>1
    <3>3. (v \o c)[m] = c[n]
      BY <1>0, <1>5, <2>2 DEF C
    <3> QED
      BY <3>2, <3>3
  <2> QED
    BY <2>1, <2>2
<1>11. u = v \o c
  <2>1. u \in Seq(S) /\ v \o c \in Seq(S) /\ Len(u) = Len(v \o c)
    BY <1>6, <1>8, <1>9
  <2>2. \A m \in 1 .. Len(u) : u[m] = (v \o c)[m]
    BY <1>9, <1>10
  <2> QED
    BY <2>1, <2>2, SeqEqual
<1> QED
  BY <1>11 DEF u, v, w, i

(* The concatenation from element y+1 of sequence x+1 on. *)
LEMMA FlattenSuffix ==
  ASSUME NEW S, NEW s \in Seq(Seq(S)), NEW x \in 0 .. Len(s) - 1, NEW y \in 0 .. Len(s[x+1])
  PROVE  /\ Len(FlattenSeq(SubSeq(s, 1, x))) \in Nat /\ Len(FlattenSeq(s)) \in Nat
         /\ Len(FlattenSeq(SubSeq(s, 1, x))) + Len(s[x+1]) <= Len(FlattenSeq(s))
         /\ SubSeq(FlattenSeq(s), Len(FlattenSeq(SubSeq(s, 1, x))) + y + 1, Len(FlattenSeq(s)))
              = SubSeq(s[x+1], y+1, Len(s[x+1])) \o FlattenSeq(SubSeq(s, x+2, Len(s)))
<1> DEFINE a == FlattenSeq(SubSeq(s, 1, x))
           b == s[x+1]
           c == FlattenSeq(SubSeq(s, x+2, Len(s)))
<1>1. /\ x \in 0 .. Len(s) /\ x + 1 \in 0 .. Len(s) /\ Len(s) \in x + 1 .. Len(s) /\ (x + 1) + 1 = x + 2
      /\ x + 1 \in 1 .. Len(s)
  OBVIOUS
<1>2. a \in Seq(S) /\ b \in Seq(S)
  <2>1. a \in Seq(S)
    BY <1>1, FlattenGrows
  <2>2. b \in Seq(S)
    BY <1>1
  <2> QED
    BY <2>1, <2>2
<1>3. c \in Seq(S)
  <2>1. SubSeq(s, (x+1)+1, Len(s)) \in Seq(Seq(S))
    BY <1>1, Slice
  <2> QED
    BY <1>1, <2>1, FlattenType
<1>4. FlattenSeq(s) = (a \o b) \o c
  <2>1. FlattenSeq(SubSeq(s, 1, x + 1)) = a \o b
    BY FlattenGrows
  <2>2. FlattenSeq(SubSeq(s, 1, Len(s))) = FlattenSeq(SubSeq(s, 1, x + 1)) \o FlattenSeq(SubSeq(s, (x+1)+1, Len(s)))
    BY <1>1, FlattenSplit
  <2>3. FlattenSeq(SubSeq(s, 1, Len(s))) = FlattenSeq(s)
    BY FlattenGrows
  <2> QED
    BY <1>1, <2>1, <2>2, <2>3
<1> HIDE DEF a, b, c
<1>5. Len(a) \in Nat /\ Len(b) \in Nat /\ Len(c) \in Nat /\ Len((a \o b) \o c) = Len(a) + Len(b) + Len(c)
  <2>1. a \o b \in Seq(S) /\ Len(a \o b) = Len(a) + Len(b)
    BY <1>2
  <2> QED
    BY <1>2, <1>3, <2>1
<1>6. y \in 0 .. Len(b)
  BY DEF b
<1>7. SubSeq((a \o b) \o c, Len(a) + y + 1, Len((a \o b) \o c)) = SubSeq(b, y+1, Len(b)) \o c
  <2>1. SlicedInSecond(S)
    BY SliceOfThree
  <2> QED
    BY <1>2, <1>3, <1>6, <2>1, Zenon DEF SlicedInSecond
<1>8. Len(FlattenSeq(s)) \in Nat /\ Len(a) + Len(b) <= Len(FlattenSeq(s))
  BY <1>4, <1>5
<1> QED
  BY <1>4, <1>5, <1>7, <1>8 DEF a, b, c

(* Byte j of sequence x+1 stands behind the bytes of the first x. *)
LEMMA FlattenElement ==
  ASSUME NEW S, NEW s \in Seq(Seq(S)), NEW x \in 0 .. Len(s) - 1, NEW j \in 1 .. Len(s[x+1])
  PROVE  /\ Len(FlattenSeq(SubSeq(s, 1, x))) + j \in 1 .. Len(FlattenSeq(s))
         /\ FlattenSeq(s)[Len(FlattenSeq(SubSeq(s, 1, x))) + j] = s[x+1][j]
<1> DEFINE a == FlattenSeq(SubSeq(s, 1, x))
           b == s[x+1]
           ab == FlattenSeq(SubSeq(s, 1, x+1))
           c == FlattenSeq(SubSeq(s, (x+1)+1, Len(s)))
           all == FlattenSeq(s)
<1>1. Len(s) \in Nat /\ x+1 \in 0 .. Len(s) /\ x \in 0 .. Len(s) /\ Len(s) \in (x+1) .. Len(s)
  OBVIOUS
<1>2. a \in Seq(S) /\ ab \in Seq(S) /\ all \in Seq(S) /\ ab = a \o b
  BY <1>1, FlattenGrows, FlattenType
<1>3. b \in Seq(S)
  BY <1>1, ElementOfSeq
<1>4. all = ab \o c
  BY <1>1, FlattenSplit, FlattenGrows
<1>5. c \in Seq(S)
  <2>1. SubSeq(s, (x+1)+1, Len(s)) \in Seq(Seq(S))
    BY <1>1, Slice
  <2> QED
    BY <2>1, FlattenType
<1> HIDE DEF a, b, ab, c, all
<1>6. j \in 1 .. Len(b)
  BY DEF b
<1>7. Len(ab) = Len(a) + Len(b) /\ Len(all) = Len(ab) + Len(c)
      /\ Len(a) \in Nat /\ Len(b) \in Nat /\ Len(c) \in Nat
  BY <1>2, <1>3, <1>4, <1>5
<1>8. ab[Len(a) + j] = b[j]
  BY <1>2, <1>3, <1>6, <1>7
<1>9. all[Len(a) + j] = ab[Len(a) + j]
  BY <1>2, <1>4, <1>5, <1>6, <1>7
<1>10. Len(a) + j \in 1 .. Len(all) /\ all[Len(a) + j] = b[j]
  BY <1>6, <1>7, <1>8, <1>9
<1> QED
  BY <1>10 DEF a, b, all

(* A slice of sequence x+1 is that slice of the concatenation. *)
LEMMA FlattenSlice ==
  ASSUME NEW S, NEW s \in Seq(Seq(S)), NEW x \in 0 .. Len(s) - 1,
         NEW y \in 0 .. Len(s[x+1]), NEW z \in y .. Len(s[x+1])
  PROVE  LET before == Len(FlattenSeq(SubSeq(s, 1, x)))
         IN  SubSeq(FlattenSeq(s), before + y + 1, before + z) = SubSeq(s[x+1], y + 1, z)
<1> DEFINE all == FlattenSeq(s)
           b == s[x+1]
           before == Len(FlattenSeq(SubSeq(s, 1, x)))
<1>1. b \in Seq(S) /\ all \in Seq(S)
  BY FlattenType, ElementOfSeq
<1>2. before \in Nat /\ Len(all) \in Nat /\ before + Len(b) <= Len(all)
  BY FlattenSuffix
<1>3. \A j \in 1 .. Len(b) : all[before + j] = b[j]
  BY FlattenElement
<1>4. y \in 0 .. Len(b) /\ z \in y .. Len(b)
  OBVIOUS
<1> HIDE DEF all, b, before
<1> DEFINE i == before + y
           k == before + z
<1>5. /\ i \in 0 .. Len(all) /\ k \in i .. Len(all) /\ k - i = z - y
      /\ \A m \in Nat : i + m = before + (y + m)
  BY <1>1, <1>2, <1>4
<1> HIDE DEF i, k
<1>6. /\ SubSeq(all, i+1, k) \in Seq(S) /\ Len(SubSeq(all, i+1, k)) = z - y
      /\ \A m \in 1 .. z - y : SubSeq(all, i+1, k)[m] = all[i + m]
  BY <1>1, <1>5, Slice
<1>7. /\ SubSeq(b, y+1, z) \in Seq(S) /\ Len(SubSeq(b, y+1, z)) = z - y
      /\ \A m \in 1 .. z - y : SubSeq(b, y+1, z)[m] = b[y + m]
  BY <1>1, <1>4, Slice
<1>8. \A m \in 1 .. z - y : all[i + m] = b[y + m]
  <2> TAKE m \in 1 .. z - y
  <2>1. y + m \in 1 .. Len(b) /\ i + m = before + (y + m)
    BY <1>1, <1>4, <1>5
  <2> QED
    BY <1>3, <2>1
<1>9. SubSeq(all, i+1, k) = SubSeq(b, y+1, z)
  BY <1>6, <1>7, <1>8, SeqEqual
<1> QED
  BY <1>9 DEF all, b, before, i, k
=============================================================================
