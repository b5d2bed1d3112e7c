-------------------------- MODULE PlacementsProofs --------------------------
(***************************************************************************)
(* Proofs about Positions and Placements, for any records, parents,        *)
(* connections and requests, and any gaps the assumptions admit.           *)
(*                                                                         *)
(* The first half is about one insertion (InsertToPositionables): what it  *)
(* does to siblings in order, whatever their number and the input          *)
(* (Insertion).  The insertion reads a sequence by sets of its indices, so *)
(* its lemmas count: the place of an index is the number of those before   *)
(* it, the number a sibling takes the count of those already taken.        *)
(*                                                                         *)
(* The second half is about requests that interleave.  Room says what a    *)
(* request that has read its siblings still owes them: when it has written *)
(* what it is to write they will be apart, itself included (Promised), as  *)
(* long as nobody else is making room there.                               *)
(***************************************************************************)
EXTENDS Placements, FiniteSetTheorems, SequenceTheorems, TLAPS

(* Counting                                                                *)

\* A strict subset has fewer elements.
LEMMA FewerOf ==
    ASSUME NEW S, IsFiniteSet(S), NEW T \in SUBSET S, NEW e \in S, e \notin T
    PROVE  Cardinality(T) < Cardinality(S) /\ Cardinality(T) \in Nat /\ Cardinality(S) \in Nat
<1>1. IsFiniteSet(T) /\ Cardinality(T) <= Cardinality(S) /\ (Cardinality(S) = Cardinality(T) => S = T)
  BY FS_Subset
<1>2. Cardinality(T) \in Nat /\ Cardinality(S) \in Nat
  BY <1>1, FS_CardinalityType
<1>. QED
  BY <1>1, <1>2

\* The elements of S below e in the order R.
Under(S, R, e) == {d \in S : <<d, e>> \in R}

\* Every rank of a finite set that is totally ordered has its element.
LEMMA Ranks ==
    ASSUME NEW S, IsFiniteSet(S), NEW R,
           \A d \in S : <<d, d>> \notin R,
           \A c, d, e \in S : <<c, d>> \in R /\ <<d, e>> \in R => <<c, e>> \in R,
           \A d, e \in S : d # e => <<d, e>> \in R \/ <<e, d>> \in R
    PROVE  /\ Cardinality(S) \in Nat
           /\ \A e \in S : Cardinality(Under(S, R, e)) \in 0 .. Cardinality(S) - 1
           /\ \A d, e \in S : <<d, e>> \in R <=> Cardinality(Under(S, R, d)) < Cardinality(Under(S, R, e))
           /\ \A d, e \in S : Cardinality(Under(S, R, d)) = Cardinality(Under(S, R, e)) => d = e
           /\ \A k \in 1 .. Cardinality(S) : \E e \in S : Cardinality(Under(S, R, e)) = k - 1
<1>0. Cardinality(S) \in Nat
  BY FS_CardinalityType
<1>1. \A e \in S : Cardinality(Under(S, R, e)) \in 0 .. Cardinality(S) - 1
  <2> SUFFICES ASSUME NEW e \in S PROVE Cardinality(Under(S, R, e)) \in 0 .. Cardinality(S) - 1
    OBVIOUS
  <2>1. Under(S, R, e) \in SUBSET S /\ e \notin Under(S, R, e)
    BY DEF Under
  <2> QED BY <2>1, FewerOf
<1>2. \A d, e \in S : <<d, e>> \in R => Cardinality(Under(S, R, d)) < Cardinality(Under(S, R, e))
  <2> SUFFICES ASSUME NEW d \in S, NEW e \in S, <<d, e>> \in R
               PROVE Cardinality(Under(S, R, d)) < Cardinality(Under(S, R, e))
    OBVIOUS
  <2>1. Under(S, R, d) \in SUBSET Under(S, R, e) /\ d \in Under(S, R, e) /\ d \notin Under(S, R, d)
    BY DEF Under
  <2>2. Under(S, R, e) \in SUBSET S
    BY DEF Under
  <2>3. IsFiniteSet(Under(S, R, e))
    BY <2>2, FS_Subset
  <2> QED BY <2>1, <2>3, FewerOf
<1>3. \A d, e \in S : <<d, e>> \in R <=> Cardinality(Under(S, R, d)) < Cardinality(Under(S, R, e))
  <2> SUFFICES ASSUME NEW d \in S, NEW e \in S
               PROVE <<d, e>> \in R <=> Cardinality(Under(S, R, d)) < Cardinality(Under(S, R, e))
    OBVIOUS
  <2>1. Cardinality(Under(S, R, d)) \in Int /\ Cardinality(Under(S, R, e)) \in Int
    BY <1>1, <1>0
  <2>2. CASE d = e
    BY <2>1, <2>2
  <2>3. CASE <<d, e>> \in R
    BY <2>3, <1>2
  <2>4. CASE d # e /\ <<e, d>> \in R
    <3>1. Cardinality(Under(S, R, e)) < Cardinality(Under(S, R, d))
      BY <2>4, <1>2
    <3>2. <<d, e>> \notin R
      BY <2>4
    <3> QED BY <3>1, <3>2, <2>1
  <2> QED BY <2>2, <2>3, <2>4
<1>4. \A d, e \in S : Cardinality(Under(S, R, d)) = Cardinality(Under(S, R, e)) => d = e
  <2> SUFFICES ASSUME NEW d \in S, NEW e \in S, Cardinality(Under(S, R, d)) = Cardinality(Under(S, R, e)), d # e
               PROVE FALSE
    OBVIOUS
  <2>1. Cardinality(Under(S, R, d)) \in Int /\ Cardinality(Under(S, R, e)) \in Int
    BY <1>1, <1>0
  <2>2. ~(Cardinality(Under(S, R, d)) < Cardinality(Under(S, R, e))) /\ ~(Cardinality(Under(S, R, e)) < Cardinality(Under(S, R, d)))
    BY <2>1
  <2> QED BY <2>2, <1>3
<1>5. \A k \in 1 .. Cardinality(S) : \E e \in S : Cardinality(Under(S, R, e)) = k - 1
  <2> SUFFICES ASSUME NEW k \in 1 .. Cardinality(S), \A e \in S : Cardinality(Under(S, R, e)) # k - 1
               PROVE FALSE
    OBVIOUS
  <2> DEFINE C == Cardinality(S)
             U == 0 .. C - 1
             T == U \ {k - 1}
             f == [e \in S |-> Cardinality(Under(S, R, e))]
  <2>0. C \in Nat /\ k \in 1 .. C /\ C = Cardinality(S)
    BY <1>0
  <2>4. f \in [S -> T]
    BY <1>1
  <2> HIDE DEF C
  <2>1. 0 \in Int /\ C - 1 \in Int /\ k - 1 \in U
    BY <2>0
  <2>2. IsFiniteSet(U) /\ Cardinality(U) = C
    BY <2>0, <2>1, FS_Interval
  <2> HIDE DEF U
  <2>3. IsFiniteSet(T) /\ Cardinality(T) = C - 1
    BY <2>1, <2>2, FS_RemoveElement
  <2>5. Cardinality(T) < Cardinality(S)
    BY <2>3, <2>0
  <2> HIDE DEF T, f
  <2>6. \E x, y \in S : x # y /\ f[x] = f[y]
    BY <2>3, <2>4, <2>5, FS_PigeonHole
  <2> QED BY <2>6, <1>4 DEF f
<1> QED BY <1>0, <1>1, <1>3, <1>4, <1>5

-----------------------------------------------------------------------------
(* Sets of numbers                                                         *)

\* What the k-th number of a set is.
LEMMA NthOf ==
    ASSUME NEW K \in SUBSET Nat, IsFiniteSet(K)
    PROVE  /\ Cardinality(K) \in Nat
           /\ \A k \in 1 .. Cardinality(K) : Nth(K, k) \in K
           /\ \A k, l \in 1 .. Cardinality(K) : k < l => Nth(K, k) < Nth(K, l)
           /\ \A e \in K : /\ Cardinality({j \in K : j < e}) + 1 \in 1 .. Cardinality(K)
                           /\ Nth(K, Cardinality({j \in K : j < e}) + 1) = e
<1> DEFINE R == {d \in Nat \X Nat : d[1] < d[2]}
<1>1. \A d \in K : <<d, d>> \notin R
  OBVIOUS
<1>2. \A c, d, e \in K : <<c, d>> \in R /\ <<d, e>> \in R => <<c, e>> \in R
  OBVIOUS
<1>3. \A d, e \in K : d # e => <<d, e>> \in R \/ <<e, d>> \in R
  OBVIOUS
<1>4. \A e \in K : Under(K, R, e) = {j \in K : j < e}
  BY DEF Under
<1>5. \A d, e \in K : <<d, e>> \in R <=> d < e
  OBVIOUS
<1> HIDE DEF R
<1>6. /\ Cardinality(K) \in Nat
      /\ \A e \in K : Cardinality(Under(K, R, e)) \in 0 .. Cardinality(K) - 1
      /\ \A d, e \in K : <<d, e>> \in R <=> Cardinality(Under(K, R, d)) < Cardinality(Under(K, R, e))
      /\ \A d, e \in K : Cardinality(Under(K, R, d)) = Cardinality(Under(K, R, e)) => d = e
      /\ \A k \in 1 .. Cardinality(K) : \E e \in K : Cardinality(Under(K, R, e)) = k - 1
  <2> HIDE DEF Under
  <2> QED BY <1>1, <1>2, <1>3, Ranks
<1>7. \A k \in 1 .. Cardinality(K) : Nth(K, k) \in K /\ Cardinality(Under(K, R, Nth(K, k))) = k - 1
  <2> SUFFICES ASSUME NEW k \in 1 .. Cardinality(K)
               PROVE  Nth(K, k) \in K /\ Cardinality(Under(K, R, Nth(K, k))) = k - 1
    OBVIOUS
  <2>1. \E e \in K : Cardinality({j \in K : j < e}) = k - 1
    BY <1>4, <1>6
  <2>2. Nth(K, k) \in K /\ Cardinality({j \in K : j < Nth(K, k)}) = k - 1
    BY <2>1 DEF Nth
  <2> QED BY <2>2, <1>4
<1>8. \A k, l \in 1 .. Cardinality(K) : k < l => Nth(K, k) < Nth(K, l)
  <2> SUFFICES ASSUME NEW k \in 1 .. Cardinality(K), NEW l \in 1 .. Cardinality(K), k < l
               PROVE  Nth(K, k) < Nth(K, l)
    OBVIOUS
  <2>1. Cardinality(Under(K, R, Nth(K, k))) < Cardinality(Under(K, R, Nth(K, l)))
    BY <1>7, <1>6
  <2> QED BY <2>1, <1>7, <1>6, <1>5
<1>9. ASSUME NEW e \in K
      PROVE  /\ Cardinality({j \in K : j < e}) + 1 \in 1 .. Cardinality(K)
             /\ Nth(K, Cardinality({j \in K : j < e}) + 1) = e
  <2> DEFINE k == Cardinality({j \in K : j < e}) + 1
  <2>1. k \in 1 .. Cardinality(K) /\ Cardinality(Under(K, R, e)) = k - 1
    BY <1>4, <1>6
  <2>2. Nth(K, k) \in K /\ Cardinality(Under(K, R, Nth(K, k))) = Cardinality(Under(K, R, e))
    BY <2>1, <1>7
  <2>3. Nth(K, k) = e
    BY <2>2, <1>6
  <2> QED BY <2>1, <2>3
<1> QED BY <1>6, <1>7, <1>8, <1>9

LEMMA NthAll ==
    ASSUME NEW K \in SUBSET Nat, IsFiniteSet(K), NEW e \in K
    PROVE  \E k \in 1 .. Cardinality(K) : Nth(K, k) = e
<1> DEFINE k == Cardinality({j \in K : j < e}) + 1
<1>1. k \in 1 .. Cardinality(K) /\ Nth(K, k) = e
  BY NthOf
<1> HIDE DEF k
<1> QED BY <1>1

\* A set of numbers that is not empty has a least and a greatest.
LEMMA Ends ==
    ASSUME NEW K \in SUBSET Nat, IsFiniteSet(K), K # {}
    PROVE  /\ \E m \in K : \A k \in K : m <= k
           /\ \E m \in K : \A k \in K : k <= m
<1>1. PICK e \in K : TRUE
  OBVIOUS
<1>2. /\ Cardinality(K) \in Nat
      /\ \A k \in 1 .. Cardinality(K) : Nth(K, k) \in K
      /\ \A k, l \in 1 .. Cardinality(K) : k < l => Nth(K, k) < Nth(K, l)
      /\ \A d \in K : \E k \in 1 .. Cardinality(K) : Nth(K, k) = d
  <2>1. IsFiniteSet(K)
    OBVIOUS
  <2>2. Cardinality(K) \in Nat
    BY ONLY <2>1, NthOf
  <2>3. \A k \in 1 .. Cardinality(K) : Nth(K, k) \in K
    BY ONLY <2>1, NthOf
  <2>4. \A k, l \in 1 .. Cardinality(K) : k < l => Nth(K, k) < Nth(K, l)
    BY ONLY <2>1, NthOf
  <2>5. \A d \in K : \E k \in 1 .. Cardinality(K) : Nth(K, k) = d
    BY ONLY <2>1, NthAll
  <2> QED BY ONLY <2>2, <2>3, <2>4, <2>5
<1>3. 1 \in 1 .. Cardinality(K) /\ Cardinality(K) \in 1 .. Cardinality(K)
  BY <1>1, <1>2
<1>4. \A d \in K : Nth(K, 1) <= d /\ d <= Nth(K, Cardinality(K))
  <2> SUFFICES ASSUME NEW d \in K PROVE Nth(K, 1) <= d /\ d <= Nth(K, Cardinality(K))
    OBVIOUS
  <2>1. PICK k \in 1 .. Cardinality(K) : Nth(K, k) = d
    BY <1>2
  <2>2. Nth(K, 1) \in Nat /\ Nth(K, Cardinality(K)) \in Nat /\ d \in Nat
    BY <1>2, <1>3
  <2>3. Nth(K, 1) <= d
    <3>1. CASE k = 1 BY <2>1, <2>2, <3>1
    <3>2. CASE 1 < k BY <2>1, <2>2, <3>2, <1>2, <1>3
    <3> QED BY <3>1, <3>2, <1>2
  <2>4. d <= Nth(K, Cardinality(K))
    <3>1. CASE k = Cardinality(K) BY <2>1, <2>2, <3>1
    <3>2. CASE k < Cardinality(K) BY <2>1, <2>2, <3>2, <1>2, <1>3
    <3> QED BY <3>1, <3>2, <1>2
  <2> QED BY <2>3, <2>4
<1> QED BY <1>2, <1>3, <1>4

\* Taken from the right, an entry comes off after those above it.
LEMMA PoppedOf ==
    ASSUME NEW K \in SUBSET Nat, IsFiniteSet(K)
    PROVE  /\ Cardinality(K) \in Nat
           /\ \A n \in Nat : n < Cardinality(K) => Popped(K, n) \in K
           /\ \A e \in K : /\ Cardinality({j \in K : j > e}) \in Nat
                           /\ Cardinality({j \in K : j > e}) < Cardinality(K)
                           /\ Popped(K, Cardinality({j \in K : j > e})) = e
<1> DEFINE R == {d \in Nat \X Nat : d[1] > d[2]}
<1>1. \A d \in K : <<d, d>> \notin R
  OBVIOUS
<1>2. \A c, d, e \in K : <<c, d>> \in R /\ <<d, e>> \in R => <<c, e>> \in R
  OBVIOUS
<1>3. \A d, e \in K : d # e => <<d, e>> \in R \/ <<e, d>> \in R
  OBVIOUS
<1>4. \A e \in K : Under(K, R, e) = {j \in K : j > e}
  BY DEF Under
<1> HIDE DEF R
<1>6. /\ Cardinality(K) \in Nat
      /\ \A e \in K : Cardinality(Under(K, R, e)) \in 0 .. Cardinality(K) - 1
      /\ \A d, e \in K : Cardinality(Under(K, R, d)) = Cardinality(Under(K, R, e)) => d = e
      /\ \A k \in 1 .. Cardinality(K) : \E e \in K : Cardinality(Under(K, R, e)) = k - 1
  BY <1>1, <1>2, <1>3, Ranks
<1>7. \A n \in Nat : n < Cardinality(K) => Popped(K, n) \in K
  <2> SUFFICES ASSUME NEW n \in Nat, n < Cardinality(K) PROVE Popped(K, n) \in K
    OBVIOUS
  <2>1. n + 1 \in 1 .. Cardinality(K) /\ (n + 1) - 1 = n
    BY <1>6
  <2>2. \E e \in K : Cardinality(Under(K, R, e)) = n
    BY <2>1, <1>6
  <2>3. \E e \in K : Cardinality({j \in K : j > e}) = n
    BY <2>2, <1>4
  <2> QED BY <2>3 DEF Popped
<1>8. ASSUME NEW e \in K
      PROVE  /\ Cardinality({j \in K : j > e}) \in Nat
             /\ Cardinality({j \in K : j > e}) < Cardinality(K)
             /\ Popped(K, Cardinality({j \in K : j > e})) = e
  <2> DEFINE n == Cardinality({j \in K : j > e})
             m == Popped(K, n)
  <2>1. n \in Nat /\ n < Cardinality(K) /\ n = Cardinality(Under(K, R, e))
    BY <1>4, <1>6
  <2>2. m \in K /\ Cardinality({j \in K : j > m}) = n
    BY DEF Popped
  <2>3. Cardinality(Under(K, R, m)) = n
    BY <2>2, <1>4
  <2>4. m = e
    BY <2>1, <2>2, <2>3, <1>6
  <2> QED BY <2>1, <2>4
<1> QED BY <1>6, <1>7, <1>8

\* The numbers of an interval in order.
LEMMA NthInterval ==
    ASSUME NEW a \in Nat, NEW b \in Nat, NEW k \in 1 .. b - a + 1
    PROVE  /\ IsFiniteSet(a .. b) /\ Cardinality(a .. b) = b - a + 1
           /\ Nth(a .. b, k) = a + k - 1
<1>1. a \in Int /\ b \in Int /\ a + k - 2 \in Int
  OBVIOUS
<1>2. IsFiniteSet(a .. b) /\ Cardinality(a .. b) = b - a + 1
  BY <1>1, FS_Interval
<1>3. Cardinality(a .. a + k - 2) = k - 1
  <2>1. Cardinality(a .. a + k - 2) = IF a > a + k - 2 THEN 0 ELSE (a + k - 2) - a + 1
    BY <1>1, FS_Interval
  <2> QED BY <2>1
<1>4. a + k - 1 \in a .. b /\ a .. b \in SUBSET Nat
  OBVIOUS
<1>5. {j \in a .. b : j < a + k - 1} = a .. a + k - 2
  OBVIOUS
<1>6. Nth(a .. b, Cardinality({j \in a .. b : j < a + k - 1}) + 1) = a + k - 1
  <2> DEFINE I == a .. b
             e == a + k - 1
  <2>1. I \in SUBSET Nat /\ IsFiniteSet(I) /\ e \in I
    BY <1>2, <1>4
  <2> HIDE DEF I, e
  <2>2. Nth(I, Cardinality({j \in I : j < e}) + 1) = e
    BY <2>1, NthOf
  <2> QED BY <2>2 DEF I, e
<1>7. Cardinality({j \in a .. b : j < a + k - 1}) + 1 = k
  <2>1. Cardinality({j \in a .. b : j < a + k - 1}) = Cardinality(a .. a + k - 2)
    BY <1>5, Zenon
  <2> QED BY <2>1, <1>3
<1> QED BY <1>2, <1>6, <1>7

\* A set of indices that holds all below each of its own.
LEMMA Initial ==
    ASSUME NEW N \in Nat, NEW K \in SUBSET (1 .. N),
           \A i \in K, j \in 1 .. N : j < i => j \in K
    PROVE  Cardinality(K) \in 0 .. N /\ K = 1 .. Cardinality(K)
<1>1. IsFiniteSet(1 .. N) /\ K \in SUBSET Nat
  BY FS_Interval
<1>2. IsFiniteSet(K)
  BY <1>1, FS_Subset
<1>3. CASE K = {}
  BY <1>3, FS_EmptySet
<1>4. CASE K # {}
  <2>1. PICK m \in K : \A k \in K : k <= m
    BY <1>1, <1>2, <1>4, Ends
  <2>2. m \in 1 .. N
    OBVIOUS
  <2>4. \A i \in K : i \in 1 .. m
    BY <2>1, <2>2
  <2>5. \A i \in 1 .. m : i \in K
    BY <2>2
  <2>6. K = 1 .. m
    BY <2>4, <2>5
  <2>3. Cardinality(1 .. m) = m
    BY <2>2, FS_Interval
  <2> QED BY <2>2, <2>6, <2>3
<1> QED BY <1>3, <1>4

-----------------------------------------------------------------------------
(* The parts of the algorithm                                              *)

Value == Nat \cup {None}

LEMMA NumType == \A v \in Value : Num(v) \in Nat
BY DEF Num, Value

\* Distances add up.
LEMMA Reach ==
    /\ \A a, b, c \in Nat : a <= b /\ b + MinGap <= c => a + MinGap <= c
    /\ \A a, b, c \in Nat : a + MinGap <= b /\ b <= c => a + MinGap <= c
    /\ \A a, b, c \in Nat : a + MinGap <= b /\ b + MinGap <= c => a + MinGap <= c
    /\ \A a, b \in Nat : a + MinGap <= b => a < b
    /\ \A a, b \in Nat : IF a - MinGap >= b THEN b + MinGap <= a ELSE a - MinGap < b
BY GapAssumption

LEMMA PickSeq ==
    ASSUME NEW V, NEW s \in Seq(V), NEW K \in SUBSET DOMAIN s
    PROVE  /\ Cardinality(K) \in 0 .. Len(s)
           /\ Pick(s, K) \in Seq(V)
           /\ Len(Pick(s, K)) = Cardinality(K)
           /\ \A k \in 1 .. Cardinality(K) : Pick(s, K)[k] = s[Nth(K, k)] /\ Nth(K, k) \in K
<1>1. Len(s) \in Nat /\ DOMAIN s = 1 .. Len(s)
  OBVIOUS
<1>2. IsFiniteSet(1 .. Len(s)) /\ Cardinality(1 .. Len(s)) = Len(s) /\ K \in SUBSET Nat
  BY <1>1, FS_Interval
<1>3. IsFiniteSet(K) /\ Cardinality(K) <= Len(s)
  BY <1>1, <1>2, FS_Subset
<1>4. Cardinality(K) \in Nat /\ \A k \in 1 .. Cardinality(K) : Nth(K, k) \in K
  BY <1>2, <1>3, NthOf
<1>5. \A k \in 1 .. Cardinality(K) : s[Nth(K, k)] \in V
  BY <1>4
<1>6. Pick(s, K) \in Seq(V) /\ Len(Pick(s, K)) = Cardinality(K)
  BY <1>4, <1>5 DEF Pick
<1> QED BY <1>3, <1>4, <1>6 DEF Pick

\* Where the beginnings start: after a gap or at the bottom, and from there
\* on all neighbours are too near.
LEMMA BeginningsAt ==
    ASSUME NEW low \in Seq(Value), low # <<>>
    PROVE  \E f \in 1 .. Len(low) + 1 :
             LET t == <<0>> \o low IN
             /\ FindBeginnings(low) = SubSeq(t, f, Len(t))
             /\ f = 1 \/ Num(t[f]) - MinGap >= Num(t[f - 1])
             /\ \A i \in f + 1 .. Len(t) : Num(t[i]) - MinGap < Num(t[i - 1])
<1> DEFINE t == <<0>> \o low
           apart == {i \in 2 .. Len(t) : Num(t[i]) - MinGap >= Num(t[i - 1])}
           first == IF apart = {} THEN 1 ELSE CHOOSE i \in apart : \A j \in apart : j <= i
<1>1. <<0>> \in Seq(Value) /\ Len(<<0>>) = 1
  BY DEF Value
<1>2. t \in Seq(Value) /\ Len(t) = Len(low) + 1
  BY <1>1
<1>3. \A i \in 1 .. Len(t) : Num(t[i]) \in Nat
  BY <1>2, NumType
<1>4. Len(low) \in Nat
  OBVIOUS
<1>5. FindBeginnings(low) = SubSeq(t, first, Len(t))
  BY DEF FindBeginnings
<1> HIDE DEF t
<1>6. CASE apart = {}
  <2>1. first = 1
    BY <1>6
  <2>2. \A i \in 2 .. Len(t) : ~(Num(t[i]) - MinGap >= Num(t[i - 1]))
    BY <1>6
  <2>3. \A i \in 2 .. Len(t) : Num(t[i]) - MinGap < Num(t[i - 1])
    <3> SUFFICES ASSUME NEW i \in 2 .. Len(t) PROVE Num(t[i]) - MinGap < Num(t[i - 1])
      OBVIOUS
    <3>1. Num(t[i]) \in Nat /\ Num(t[i - 1]) \in Nat
      BY <1>2, <1>3, <1>4
    <3>2. ~(Num(t[i]) - MinGap >= Num(t[i - 1]))
      BY <2>2
    <3> QED BY ONLY <3>1, <3>2, Reach
  <2>4. \A i \in 1 + 1 .. Len(t) : Num(t[i]) - MinGap < Num(t[i - 1])
    BY <2>3
  <2> HIDE DEF first
  <2>5. 1 \in 1 .. Len(low) + 1
    BY <1>4
  <2>6. FindBeginnings(low) = SubSeq(t, 1, Len(t))
    BY <2>1, <1>5
  <2> QED BY ONLY <2>4, <2>5, <2>6 DEF t
<1>7. CASE apart # {}
  <2>0. Len(t) \in Int /\ 2 \in Int
    BY <1>2, <1>4
  <2>1. apart \in SUBSET Nat /\ apart \in SUBSET (2 .. Len(t)) /\ IsFiniteSet(2 .. Len(t))
    <3>1. IsFiniteSet(2 .. Len(t))
      BY <2>0, FS_Interval
    <3> QED BY <3>1
  <2>2. IsFiniteSet(apart)
    BY <2>1, FS_Subset
  <2>3. \E m \in apart : \A k \in apart : k <= m
    <3> HIDE DEF apart
    <3> QED BY <1>7, <2>1, <2>2, Ends
  <2>4. first \in apart /\ \A j \in apart : j <= first
    BY <1>7, <2>3
  <2> HIDE DEF first
  <2>5. first \in 2 .. Len(t) /\ Num(t[first]) - MinGap >= Num(t[first - 1])
    BY <2>4
  <2>6. \A i \in first + 1 .. Len(t) : Num(t[i]) - MinGap < Num(t[i - 1])
    <3> SUFFICES ASSUME NEW i \in first + 1 .. Len(t) PROVE Num(t[i]) - MinGap < Num(t[i - 1])
      OBVIOUS
    <3>1. Num(t[i]) \in Nat /\ Num(t[i - 1]) \in Nat /\ i \in 2 .. Len(t) /\ ~(i <= first)
      BY <1>2, <1>3, <1>4, <2>5
    <3>2. i \notin apart
      BY <3>1, <2>4
    <3>3. ~(Num(t[i]) - MinGap >= Num(t[i - 1]))
      BY <3>1, <3>2
    <3> QED BY ONLY <3>1, <3>3, Reach
  <2>7. first \in 1 .. Len(low) + 1
    BY <2>5, <1>2, <1>4
  <2> HIDE DEF apart
  <2> QED BY ONLY <2>5, <2>6, <2>7, <1>5 DEF t
<1> QED BY <1>6, <1>7

\* Multiples of the gaps.
LEMMA Times ==
    /\ \A i \in Int : Gap * i \in Int /\ MinGap * i \in Int
    /\ \A i \in Int : Gap * (i + 1) = Gap * i + Gap /\ MinGap * (i + 1) = MinGap * i + MinGap
    /\ \A i, j \in Int : i <= j => Gap * i <= Gap * j
    /\ \A i \in Nat : MinGap * i <= Gap * i /\ 0 <= Gap * i
<1>1. Gap \in Nat /\ MinGap \in Nat /\ MinGap <= Gap
  BY GapAssumption
<1>2. \A i \in Int : Gap * i \in Int /\ MinGap * i \in Int
  BY <1>1
<1>3. \A i \in Int : Gap * (i + 1) = Gap * i + Gap /\ MinGap * (i + 1) = MinGap * i + MinGap
  BY <1>1
<1>4. \A i, j \in Int : i <= j => Gap * i <= Gap * j
  BY <1>1
<1>5. \A i \in Nat : MinGap * i <= Gap * i /\ 0 <= Gap * i
  BY <1>1
<1> QED BY <1>2, <1>3, <1>4, <1>5

\* Where the loop breaks.
LEMMA BreakAt ==
    ASSUME NEW t \in Seq(Value), t # <<>>
    PROVE  /\ Break(t) \in 2 .. Len(t) + 1
           /\ \A i \in 2 .. Break(t) - 1 : ~FarEnough(t, i) /\ ~Halfway(t, i)
           /\ Break(t) <= Len(t) => FarEnough(t, Break(t)) \/ Halfway(t, Break(t))
<1> DEFINE stop == {i \in 2 .. Len(t) : FarEnough(t, i) \/ Halfway(t, i)}
<1>1. Break(t) = IF stop = {} THEN Len(t) + 1 ELSE CHOOSE i \in stop : \A j \in stop : i <= j
  BY DEF Break
<1>2. Len(t) \in Nat /\ Len(t) >= 1
  OBVIOUS
<1>3. CASE stop = {}
  BY <1>1, <1>2, <1>3
<1>4. CASE stop # {}
  <2>0. Len(t) \in Int /\ 2 \in Int
    BY <1>2
  <2>1. stop \in SUBSET Nat /\ stop \in SUBSET (2 .. Len(t)) /\ IsFiniteSet(2 .. Len(t))
    <3>1. IsFiniteSet(2 .. Len(t))
      BY <2>0, FS_Interval
    <3> QED BY <3>1
  <2>2. IsFiniteSet(stop)
    BY <2>1, FS_Subset
  <2>3. \E m \in stop : \A k \in stop : m <= k
    <3> HIDE DEF stop
    <3> QED BY <1>4, <2>1, <2>2, Ends
  <2>4. Break(t) \in stop /\ \A j \in stop : Break(t) <= j
    BY <1>1, <1>4, <2>3
  <2>5. \A i \in 2 .. Break(t) - 1 : i \notin stop
    BY <2>1, <2>4
  <2> QED BY <2>4, <2>5, <1>2
<1> QED BY <1>3, <1>4

\* Neighbours that are all too near do not get far.
LEMMA Chain ==
    ASSUME NEW t \in Seq(Value), NEW m \in 1 .. Len(t),
           \A i \in 2 .. m : Num(t[i]) - MinGap < Num(t[i - 1])
    PROVE  \A i \in 2 .. m : Num(t[i]) < Num(t[1]) + MinGap * (i - 1)
<1> DEFINE bad == {i \in 2 .. m : ~(Num(t[i]) < Num(t[1]) + MinGap * (i - 1))}
<1>1. SUFFICES ASSUME bad # {} PROVE FALSE
  OBVIOUS
<1>2. m \in Int /\ 2 \in Int
  OBVIOUS
<1>3. bad \in SUBSET Nat /\ bad \in SUBSET (2 .. m) /\ IsFiniteSet(2 .. m)
  <2>1. IsFiniteSet(2 .. m)
    BY <1>2, FS_Interval
  <2> QED BY <2>1
<1>4. IsFiniteSet(bad)
  BY <1>3, FS_Subset
<1>5. PICK i \in bad : \A k \in bad : i <= k
  <2> HIDE DEF bad
  <2> QED BY <1>1, <1>3, <1>4, Ends
<1>6. \A k \in 1 .. m : Num(t[k]) \in Nat
  BY NumType
<1>7. i \in 2 .. m /\ Num(t[i]) - MinGap < Num(t[i - 1]) /\ i - 1 \notin bad
  BY <1>5
<1>8. Num(t[i]) \in Nat /\ Num(t[i - 1]) \in Nat /\ Num(t[1]) \in Nat /\ MinGap \in Nat
  BY <1>6, <1>7, GapAssumption
<1>9. MinGap * (i - 1) = MinGap * (i - 2) + MinGap /\ MinGap * (i - 2) \in Int
  <2>1. i - 2 \in Int /\ (i - 2) + 1 = i - 1
    BY <1>7
  <2> QED BY <2>1, Times
<1>10. CASE i = 2
  <2>1. MinGap * (i - 2) = 0
    BY <1>10, GapAssumption
  <2>2. Num(t[i - 1]) = Num(t[1])
    BY <1>10
  <2> QED BY <2>1, <2>2, <1>5, <1>7, <1>8, <1>9
<1>11. CASE i > 2
  <2>1. i - 1 \in 2 .. m /\ (i - 1) - 1 = i - 2
    BY <1>7, <1>11
  <2>2. Num(t[i - 1]) < Num(t[1]) + MinGap * (i - 2)
    BY <2>1, <1>7
  <2>3. ~(Num(t[i]) < Num(t[1]) + MinGap * (i - 1))
    BY <1>5
  <2> QED BY <2>2, <2>3, <1>7, <1>8, <1>9
<1> QED BY <1>7, <1>10, <1>11

\* The loop does not stop in the beginnings before their last.
LEMMA BreakBeyond ==
    ASSUME NEW t \in Seq(Value), NEW m \in 1 .. Len(t),
           \A i \in 2 .. m : Num(t[i]) - MinGap < Num(t[i - 1])
    PROVE  \A i \in 2 .. m : ~FarEnough(t, i) /\ (i < m => ~Halfway(t, i))
<1>1. \A i \in 2 .. m : Num(t[i]) < Num(t[1]) + MinGap * (i - 1)
  BY Chain
<1>2. \A k \in 1 .. m : Num(t[k]) \in Nat
  BY NumType
<1> SUFFICES ASSUME NEW i \in 2 .. m PROVE ~FarEnough(t, i) /\ (i < m => ~Halfway(t, i))
  OBVIOUS
<1>3. /\ i - 2 \in Nat /\ (i - 2) + 1 = i - 1 /\ (i - 1) + 1 = i /\ (i + 1) - 1 = i
      /\ Num(t[1]) \in Nat /\ Num(t[i]) \in Nat
      /\ MinGap \in Nat /\ Gap \in Nat
  BY <1>2, GapAssumption
<1>4. /\ MinGap * (i - 1) = MinGap * (i - 2) + MinGap
      /\ MinGap * i = MinGap * (i - 1) + MinGap
      /\ MinGap * (i - 2) <= Gap * (i - 2)
      /\ MinGap * (i - 2) \in Int /\ Gap * (i - 2) \in Int
  <2>1. i - 1 \in Int /\ i - 2 \in Int
    OBVIOUS
  <2> QED BY <2>1, <1>3, Times
<1> DEFINE a == MinGap * (i - 2)
           g == Gap * (i - 2)
<1>5. /\ MinGap * (i - 1) = a + MinGap /\ MinGap * i = a + MinGap + MinGap
      /\ a <= g /\ a \in Int /\ g \in Int /\ PrevPosition(t, i) = Num(t[1]) + g
  BY <1>4, <1>3 DEF PrevPosition
<1> HIDE DEF a, g
<1>6. ~FarEnough(t, i)
  BY <1>1, <1>3, <1>5 DEF FarEnough
<1>7. ASSUME i < m PROVE ~Halfway(t, i)
  <2>1. i + 1 \in 2 .. m /\ Num(t[i + 1]) \in Nat
    BY <1>7, <1>2
  <2>2. Num(t[i + 1]) < Num(t[1]) + MinGap * i
    BY <2>1, <1>1, <1>3
  <2>4. ~(PrevPosition(t, i) + 2 * MinGap <= Num(t[i + 1]))
    <3> DEFINE u == Num(t[1])
               v == Num(t[i + 1])
               b == PrevPosition(t, i)
               k == MinGap * i
    <3>1. u \in Nat /\ v \in Nat /\ v < u + k /\ k = a + MinGap + MinGap
          /\ a <= g /\ a \in Int /\ g \in Int /\ b = u + g /\ MinGap \in Nat
      BY <2>1, <2>2, <1>3, <1>5
    <3> HIDE DEF k
    <3> HIDE DEF u, v, b
    <3>2. ~(b + 2 * MinGap <= v)
      BY ONLY <3>1
    <3> QED BY <3>2 DEF b, v
  <2> QED BY <2>4 DEF Halfway
<1> QED BY <1>6, <1>7

\* How far the loop gets, and what it assigns.
LEMMA Loop ==
    ASSUME NEW t \in Seq(Value), t # <<>>
    PROVE  \E h \in 0 .. Len(t) - 1 :
             /\ DOMAIN Repositions(t) = 1 .. h
             /\ \A i \in 2 .. h + 1 : ~FarEnough(t, i)
             /\ \A i \in 2 .. h : ~Halfway(t, i)
             /\ \A i \in 1 .. h - 1 : Repositions(t)[i] = Num(t[1]) + Gap * i
             /\ ~NoRoom(t) => \A i \in 1 .. h - 1 : Repositions(t)[i] <= MaxPosition
             /\ \/ /\ h + 2 <= Len(t) => FarEnough(t, h + 2)
                   /\ h >= 1 => Repositions(t)[h] = Num(t[1]) + Gap * h
                   /\ ~NoRoom(t) /\ h >= 1 => Repositions(t)[h] <= MaxPosition
                \/ /\ h >= 1 /\ h + 2 <= Len(t)
                   /\ Halfway(t, h + 1)
                   /\ Repositions(t)[h] = PrevPosition(t, h + 1)
                                          + (Num(t[h + 2]) - PrevPosition(t, h + 1)) \div 2
<1> DEFINE last == Break(t)
           half == last \in DOMAIN t /\ ~FarEnough(t, last)
           h == IF half THEN last - 1 ELSE last - 2
           R == Repositions(t)
<1>1. /\ last \in 2 .. Len(t) + 1
      /\ \A i \in 2 .. last - 1 : ~FarEnough(t, i) /\ ~Halfway(t, i)
      /\ last <= Len(t) => FarEnough(t, last) \/ Halfway(t, last)
  BY BreakAt
<1>2. Len(t) \in Nat /\ DOMAIN t = 1 .. Len(t) /\ Num(t[1]) \in Nat
  BY NumType
<1>3. R = [i \in 1 .. h |-> IF i = last - 1
             THEN PrevPosition(t, last) + (Num(t[last + 1]) - PrevPosition(t, last)) \div 2
             ELSE PrevPosition(t, i + 1) + Gap]
  BY DEF Repositions
<1>4. ~NoRoom(t) => \A i \in 2 .. last - 1 : ~(PrevPosition(t, i) + Gap > MaxPosition)
  BY DEF NoRoom
<1>5. half => Halfway(t, last) /\ last < Len(t)
  BY <1>1, <1>2 DEF Halfway
<1> HIDE DEF last, R
<1>6. h \in 0 .. Len(t) - 1 /\ (half => h = last - 1) /\ (~half => h = last - 2)
  BY <1>1, <1>2, <1>5
<1>7. ASSUME NEW i \in 1 .. h, i # last - 1
      PROVE  R[i] = Num(t[1]) + Gap * i /\ (~NoRoom(t) => R[i] <= MaxPosition)
  <2>1. R[i] = PrevPosition(t, i + 1) + Gap
    BY <1>3, <1>7
  <2>2. PrevPosition(t, i + 1) = Num(t[1]) + Gap * (i - 1)
    <3>1. (i + 1) - 2 = i - 1
      OBVIOUS
    <3> QED BY <3>1 DEF PrevPosition
  <2>3. Gap * i = Gap * (i - 1) + Gap /\ Gap * (i - 1) \in Int
    <3>1. i - 1 \in Int /\ (i - 1) + 1 = i
      OBVIOUS
    <3> QED BY <3>1, Times
  <2>4. Gap \in Nat /\ MaxPosition \in Nat
    BY GapAssumption
  <2>5. i + 1 \in 2 .. last - 1
    BY <1>1, <1>6, <1>7
  <2> QED BY <2>1, <2>2, <2>3, <2>4, <2>5, <1>2, <1>4
<1> HIDE DEF h
<1>8. CASE half
  <2>1. h >= 1 /\ h = last - 1 /\ h + 1 = last /\ h + 2 = last + 1 /\ h + 2 <= Len(t) /\ h \in 1 .. h
    BY <1>8, <1>6, <1>5, <1>1, <1>2
  <2>2. R[h] = PrevPosition(t, h + 1) + (Num(t[h + 2]) - PrevPosition(t, h + 1)) \div 2
    BY <2>1, <1>3
  <2>3. \A i \in 1 .. h - 1 : i \in 1 .. h /\ i # last - 1
    BY <2>1
  <2>4. \A i \in 2 .. h + 1 : ~FarEnough(t, i)
    BY <2>1, <1>1, <1>8
  <2>5. Halfway(t, h + 1) /\ (\A i \in 2 .. h : ~Halfway(t, i))
    BY <2>1, <1>1, <1>5, <1>8
  <2> HIDE DEF half
  <2> QED BY <2>1, <2>2, <2>3, <2>4, <2>5, <1>3, <1>6, <1>7 DEF R
<1>9. CASE ~half
  <2>1. h = last - 2 /\ h + 2 = last /\ h + 1 = last - 1
    BY <1>9, <1>6, <1>1, <1>2
  <2>2. \A i \in 1 .. h : i # last - 1
    BY <2>1, <1>1, <1>2
  <2>3. \A i \in 1 .. h - 1 : i \in 1 .. h
    BY <1>6
  <2>4. \A i \in 2 .. h + 1 : ~FarEnough(t, i) /\ ~Halfway(t, i)
    BY <2>1, <1>1
  <2>5. h + 2 <= Len(t) => FarEnough(t, h + 2)
    BY <2>1, <1>1, <1>2, <1>9
  <2>6. h >= 1 => h \in 1 .. h
    BY <1>6
  <2>7. \A i \in 2 .. h : i \in 2 .. h + 1
    BY <1>6
  <2> HIDE DEF half
  <2> QED BY <2>2, <2>3, <2>4, <2>5, <2>6, <2>7, <1>3, <1>6, <1>7 DEF R
<1> QED BY <1>8, <1>9

\* What new positions of t[2], t[3], ... are good for: they are apart, above
\* t[1], below what is left alone, and do not part records that tie.
Pushed(t, new) ==
    \E h \in 0 .. Len(t) - 1 :
       /\ DOMAIN new = 1 .. h
       /\ \A i \in 1 .. h : new[i] \in Nat /\ Num(t[1]) + MinGap <= new[i]
       /\ \A i, j \in 1 .. h : i < j => new[i] + MinGap <= new[j]
       /\ h + 2 <= Len(t) => \A i \in 1 .. h : new[i] + MinGap <= Num(t[h + 2])
       /\ h = 0 /\ 2 <= Len(t) => Num(t[1]) + MinGap <= Num(t[2])
       /\ h >= 1 /\ h + 2 <= Len(t) => Num(t[h + 1]) < Num(t[h + 2])
       /\ \A i \in 1 .. h : \/ new[i] <= MaxPosition
                            \/ h + 2 <= Len(t) /\ new[i] <= Num(t[h + 2])

LEMMA PushedUp ==
    ASSUME NEW t \in Seq(Value), t # <<>>, ~NoRoom(t)
    PROVE  Pushed(t, Repositions(t))
<1> DEFINE R == Repositions(t)
           y == Num(t[1])
<1>1. PICK h \in 0 .. Len(t) - 1 :
             /\ DOMAIN R = 1 .. h
             /\ \A i \in 2 .. h + 1 : ~FarEnough(t, i)
             /\ \A i \in 2 .. h : ~Halfway(t, i)
             /\ \A i \in 1 .. h - 1 : R[i] = y + Gap * i
             /\ \A i \in 1 .. h - 1 : R[i] <= MaxPosition
             /\ \/ /\ h + 2 <= Len(t) => FarEnough(t, h + 2)
                   /\ h >= 1 => R[h] = y + Gap * h
                   /\ h >= 1 => R[h] <= MaxPosition
                \/ /\ h >= 1 /\ h + 2 <= Len(t)
                   /\ Halfway(t, h + 1)
                   /\ R[h] = PrevPosition(t, h + 1)
                             + (Num(t[h + 2]) - PrevPosition(t, h + 1)) \div 2
  BY Loop
<1>2. /\ Len(t) \in Nat /\ h \in Nat /\ y \in Nat
      /\ Gap \in Nat /\ MinGap \in Nat /\ MaxPosition \in Nat /\ 2 * MinGap <= Gap
      /\ MinGap <= Gap
  BY NumType, GapAssumption
<1>3. \A i \in 1 .. Len(t) : Num(t[i]) \in Nat
  BY NumType
<1> HIDE DEF R, y
\* Records pushed by Gap.
<1>4. \A i, j \in Nat : i < j => y + Gap * i + MinGap <= y + Gap * j
  <2> SUFFICES ASSUME NEW i \in Nat, NEW j \in Nat, i < j
               PROVE  y + Gap * i + MinGap <= y + Gap * j
    OBVIOUS
  <2>1. Gap * (i + 1) = Gap * i + Gap /\ Gap * (i + 1) <= Gap * j /\ Gap * i \in Int /\ Gap * j \in Int
    <3>1. i \in Int /\ j \in Int /\ i + 1 \in Int /\ i + 1 <= j
      OBVIOUS
    <3> QED BY <3>1, Times
  <2> QED BY <2>1, <1>2
<1>5. Gap * 0 = 0 /\ \A i \in Nat : Gap * i \in Nat
  BY <1>2
<1>6. PrevPosition(t, h + 1) = y + Gap * (h - 1)
  BY <1>2 DEF PrevPosition, y
<1>7. ASSUME h >= 1, h + 2 <= Len(t) PROVE Num(t[h + 1]) < Num(t[h + 2])
  <2>1. /\ Num(t[h + 1]) \in Nat /\ Num(t[h + 2]) \in Nat
        /\ ~(PrevPosition(t, h + 1) + MinGap <= Num(t[h + 1]))
    BY <1>1, <1>2, <1>3, <1>7 DEF FarEnough
  <2>2. Gap * (h - 1) \in Int /\ Gap * h = Gap * (h - 1) + Gap
    <3>1. h - 1 \in Int /\ (h - 1) + 1 = h
      BY <1>2
    <3> QED BY <3>1, Times
  <2>3. CASE FarEnough(t, h + 2)
    <3>1. PrevPosition(t, h + 2) + MinGap <= Num(t[h + 2])
      BY <2>3 DEF FarEnough
    <3>2. PrevPosition(t, h + 2) = y + Gap * h
      BY <1>2 DEF PrevPosition, y
    <3> QED BY <3>1, <3>2, <2>1, <2>2, <1>2, <1>6
  <2>4. CASE Halfway(t, h + 1)
    <3>1. PrevPosition(t, h + 1) + 2 * MinGap <= Num(t[(h + 1) + 1])
      BY <2>4 DEF Halfway
    <3>2. (h + 1) + 1 = h + 2
      BY <1>2
    <3> DEFINE b == PrevPosition(t, h + 1)
               u == Num(t[h + 1])
               v == Num(t[h + 2])
    <3>3. /\ b + 2 * MinGap <= v /\ ~(b + MinGap <= u) /\ u \in Nat /\ v \in Nat /\ b \in Int
          /\ MinGap \in Nat
      BY <3>1, <3>2, <2>1, <2>2, <1>2, <1>6
    <3> HIDE DEF b, u, v
    <3>4. u < v
      BY ONLY <3>3
    <3> QED BY <3>4 DEF u, v
  <2> QED BY <2>3, <2>4, <1>1, <1>7
<1>8. CASE /\ h + 2 <= Len(t) => FarEnough(t, h + 2)
           /\ h >= 1 => R[h] = y + Gap * h
           /\ h >= 1 => R[h] <= MaxPosition
  <2>1. \A i \in 1 .. h : R[i] = y + Gap * i /\ R[i] <= MaxPosition
    <3> SUFFICES ASSUME NEW i \in 1 .. h PROVE R[i] = y + Gap * i /\ R[i] <= MaxPosition
      OBVIOUS
    <3>1. (i = h /\ h >= 1) \/ i \in 1 .. h - 1
      BY <1>2
    <3>2. CASE i = h /\ h >= 1
      BY <3>2, <1>8
    <3>3. CASE i \in 1 .. h - 1
      BY <3>3, <1>1
    <3> QED BY <3>1, <3>2, <3>3
  <2>2. \A i \in 1 .. h : R[i] \in Nat /\ y + MinGap <= R[i]
    <3> SUFFICES ASSUME NEW i \in 1 .. h PROVE R[i] \in Nat /\ y + MinGap <= R[i]
      OBVIOUS
    <3>1. i \in Nat /\ 0 \in Nat /\ 0 < i
      OBVIOUS
    <3>2. y + Gap * 0 + MinGap <= y + Gap * i /\ Gap * i \in Nat /\ Gap * 0 = 0
      BY <3>1, <1>4, <1>5
    <3> QED BY <3>2, <2>1, <1>2
  <2>3. \A i, j \in 1 .. h : i < j => R[i] + MinGap <= R[j]
    BY <2>1, <1>4
  <2>4. ASSUME h + 2 <= Len(t)
        PROVE  y + Gap * h + MinGap <= Num(t[h + 2])
    <3>1. PrevPosition(t, h + 2) + MinGap <= Num(t[h + 2])
      BY <2>4, <1>8 DEF FarEnough
    <3>2. PrevPosition(t, h + 2) = y + Gap * h
      BY <1>2 DEF PrevPosition, y
    <3> QED BY <3>1, <3>2
  <2>5. ASSUME h + 2 <= Len(t), NEW i \in 1 .. h
        PROVE  R[i] + MinGap <= Num(t[h + 2])
    <3>1. CASE i = h
      BY <3>1, <2>1, <2>4, <2>5
    <3>2. CASE i < h
      <4>1. R[i] + MinGap <= R[h] /\ R[h] = y + Gap * h
        BY <3>2, <2>1, <2>3
      <4>2. Num(t[h + 2]) \in Nat /\ R[h] \in Nat /\ R[i] \in Nat
        BY <1>2, <1>3, <2>2, <2>5
      <4> QED BY <4>1, <4>2, <2>4, <2>5, <1>2
    <3> QED BY <3>1, <3>2, <1>2
  <2>6. h = 0 /\ 2 <= Len(t) => y + MinGap <= Num(t[2])
    BY <2>4, <1>5, <1>2
  <2> QED BY <2>1, <2>2, <2>3, <2>5, <2>6, <1>1, <1>7 DEF Pushed, R, y
<1>9. CASE /\ h >= 1 /\ h + 2 <= Len(t)
           /\ Halfway(t, h + 1)
           /\ R[h] = PrevPosition(t, h + 1)
                     + (Num(t[h + 2]) - PrevPosition(t, h + 1)) \div 2
  <2> DEFINE P == y + Gap * (h - 1)
             d == Num(t[h + 2]) - P
             q == d \div 2
  <2>1. /\ P \in Nat /\ Num(t[h + 2]) \in Nat /\ h - 1 \in Nat
        /\ P + 2 * MinGap <= Num(t[h + 2])
        /\ R[h] = P + (Num(t[h + 2]) - P) \div 2
    <3>1. (h + 1) + 1 = h + 2 /\ h - 1 \in Nat
      BY <1>2, <1>9
    <3>2. Gap * (h - 1) \in Nat
      BY <3>1, <1>5
    <3>3. P \in Nat /\ PrevPosition(t, h + 1) = P
      BY <3>2, <1>2, <1>6
    <3>4. h + 2 \in 1 .. Len(t)
      BY <1>2, <1>9
    <3>5. Num(t[h + 2]) \in Nat
      BY <3>4, <1>3
    <3>6. P + 2 * MinGap <= Num(t[h + 2])
      BY <3>1, <3>3, <1>9 DEF Halfway
    <3>7. R[h] = P + (Num(t[h + 2]) - P) \div 2
      BY <3>3, <1>9
    <3> HIDE DEF P, d, q
    <3> QED BY <3>1, <3>3, <3>5, <3>6, <3>7
  <2>2. d \in Nat /\ 2 * MinGap <= d /\ R[h] = P + q
    <3> HIDE DEF P
    <3>1. d \in Nat /\ 2 * MinGap <= d
      BY <2>1, <1>2
    <3>2. R[h] = P + q
      BY <2>1
    <3> QED BY <3>1, <3>2
  <2> HIDE DEF d
  <2>3. q \in Nat /\ MinGap <= q /\ q + MinGap <= d
    BY <2>2, <1>2
  <2> HIDE DEF q
  <2>4. R[h] \in Nat /\ P + MinGap <= R[h] /\ R[h] + MinGap <= Num(t[h + 2])
    <3>1. P \in Nat /\ Num(t[h + 2]) \in Nat /\ d = Num(t[h + 2]) - P
      BY <2>1 DEF d
    <3> HIDE DEF P
    <3> QED BY <3>1, <2>2, <2>3, <1>2
  <2>5. \A i \in 1 .. h - 1 : R[i] = y + Gap * i /\ R[i] <= MaxPosition
    BY <1>1
  <2>6. \A i \in 1 .. h - 1 : R[i] \in Nat /\ y + MinGap <= R[i] /\ R[i] <= P
    <3> SUFFICES ASSUME NEW i \in 1 .. h - 1
                 PROVE  R[i] \in Nat /\ y + MinGap <= R[i] /\ R[i] <= P
      OBVIOUS
    <3>1. i \in Nat /\ 0 \in Nat /\ 0 < i
      OBVIOUS
    <3>2. R[i] \in Nat /\ y + MinGap <= R[i]
      <4>1. y + Gap * 0 + MinGap <= y + Gap * i /\ Gap * i \in Nat /\ Gap * 0 = 0
        BY <3>1, <1>4, <1>5
      <4> QED BY <4>1, <2>5, <1>2
    <3>3. Gap * i <= Gap * (h - 1) /\ Gap * i \in Nat /\ Gap * (h - 1) \in Nat
      <4>1. i \in Int /\ h - 1 \in Int /\ i <= h - 1 /\ h - 1 \in Nat
        BY <1>2, <2>1
      <4> QED BY <4>1, <3>1, Times, <1>5
    <3> QED BY <3>2, <3>3, <2>5, <1>2
  <2>7. y <= P
    BY <2>1, <1>2, <1>5
  <2>8. \A i, j \in 1 .. h - 1 : i < j => R[i] + MinGap <= R[j]
    BY <2>5, <1>4
  <2> HIDE DEF P
  <2>9. \A i \in 1 .. h : i = h \/ i \in 1 .. h - 1
    BY <1>2
  <2>15. P \in Nat /\ Num(t[h + 2]) \in Nat
    BY <2>1
  <2>16. y + MinGap <= R[h]
    BY <2>4, <2>7, <2>15, <1>2
  <2>10. \A i \in 1 .. h : R[i] \in Nat /\ y + MinGap <= R[i]
    BY <2>9, <2>4, <2>6, <2>16
  <2>11. ASSUME NEW i \in 1 .. h - 1
         PROVE  R[i] + MinGap <= R[h] /\ R[i] + MinGap <= Num(t[h + 2])
    <3>1. R[i] \in Nat /\ R[i] <= P
      BY <2>6
    <3> QED BY <3>1, <2>4, <2>15, <1>2
  <2>12. \A i, j \in 1 .. h : i < j => R[i] + MinGap <= R[j]
    <3> SUFFICES ASSUME NEW i \in 1 .. h, NEW j \in 1 .. h, i < j
                 PROVE  R[i] + MinGap <= R[j]
      OBVIOUS
    <3>1. i \in 1 .. h - 1
      BY <1>2
    <3> QED BY <3>1, <2>8, <2>9, <2>11
  <2>13. \A i \in 1 .. h : R[i] + MinGap <= Num(t[h + 2])
    BY <2>4, <2>9, <2>11
  <2>14. \A i \in 1 .. h : R[i] <= MaxPosition \/ R[i] <= Num(t[h + 2])
    BY <2>4, <2>5, <2>9, <2>1, <1>2
  <2> QED BY <2>10, <2>12, <2>13, <2>14, <1>1, <1>2, <1>7, <1>9 DEF Pushed, R, y
<1> QED BY <1>1, <1>8, <1>9

\* Renumbering from 0 up.
LEMMA Renumbered ==
    ASSUME NEW t \in Seq(Value), t # <<>>, Num(t[1]) = 0, Gap * (Len(t) - 1) <= MaxPosition
    PROVE  Pushed(t, FullRepositions(t)) /\ DOMAIN FullRepositions(t) = 1 .. Len(t) - 1
<1> DEFINE h == Len(t) - 1
           R == FullRepositions(t)
<1>1. h \in Nat /\ Len(t) = h + 1 /\ Gap \in Nat /\ MinGap \in Nat /\ MinGap <= Gap /\ MaxPosition \in Nat
  BY GapAssumption
<1>2. DOMAIN R = 1 .. h /\ \A i \in 1 .. h : R[i] = Gap * i
  BY DEF FullRepositions
<1>3. Gap * h <= MaxPosition
  OBVIOUS
<1> HIDE DEF R, h
<1>4. \A i, j \in Nat : i < j => Gap * i \in Nat /\ Gap * j \in Nat /\ Gap * i + MinGap <= Gap * j
  <2> SUFFICES ASSUME NEW i \in Nat, NEW j \in Nat, i < j
               PROVE  Gap * i \in Nat /\ Gap * j \in Nat /\ Gap * i + MinGap <= Gap * j
    OBVIOUS
  <2>1. Gap * (i + 1) = Gap * i + Gap /\ Gap * (i + 1) <= Gap * j /\ Gap * i \in Nat /\ Gap * j \in Nat
    <3>1. i \in Int /\ j \in Int /\ i + 1 \in Int /\ i + 1 <= j
      OBVIOUS
    <3> QED BY <3>1, <1>1, Times
  <2> QED BY <2>1, <1>1
<1>5. Gap * 0 = 0
  BY <1>1
<1>6. \A i \in 1 .. h : R[i] \in Nat /\ 0 + MinGap <= R[i]
  <2> SUFFICES ASSUME NEW i \in 1 .. h PROVE R[i] \in Nat /\ 0 + MinGap <= R[i]
    OBVIOUS
  <2>1. i \in Nat /\ 0 \in Nat /\ 0 < i
    OBVIOUS
  <2> QED BY <2>1, <1>1, <1>2, <1>4, <1>5
<1>7. \A i, j \in 1 .. h : i < j => R[i] + MinGap <= R[j]
  BY <1>2, <1>4
<1>8. \A i \in 1 .. h : R[i] <= MaxPosition
  <2> SUFFICES ASSUME NEW i \in 1 .. h PROVE Gap * i <= MaxPosition
    BY <1>2
  <2>1. i \in Int /\ h \in Int /\ i <= h
    BY <1>1
  <2>2. Gap * i <= Gap * h /\ Gap * i \in Int /\ Gap * h \in Int
    BY <2>1, Times
  <2> QED BY <2>2, <1>3, <1>1
<1>9. h \in 0 .. Len(t) - 1 /\ ~(h + 2 <= Len(t)) /\ ~(h = 0 /\ 2 <= Len(t))
  BY <1>1
<1> QED BY <1>2, <1>6, <1>7, <1>8, <1>9 DEF Pushed, R, h

-----------------------------------------------------------------------------
(* Insertion into any siblings                                             *)

\* What the record is inserted into and what that gives, by name.
Low(s, x)   == {i \in DOMAIN s : Num(s[i]) <= x}
High(s, x)  == {i \in DOMAIN s : Num(s[i]) > x}
Whole(s, x) == <<0>> \o Append(Lowers(s, x), x) \o Uppers(s, x)
Lead(s, x)  == FindBeginnings(Append(Lowers(s, x), x)) \o Uppers(s, x)
Row(s, x)   == IF NoRoom(Lead(s, x)) THEN Whole(s, x) ELSE Lead(s, x)
News(s, x)  == IF NoRoom(Lead(s, x)) THEN FullRepositions(Row(s, x)) ELSE Repositions(Row(s, x))
Under1(s, x, v) == Entries(Row(s, x), News(s, x), v)
Taken(s, x, k) ==
    Cardinality({j \in DOMAIN s : j > k /\ s[j] = s[k]}) + (IF s[k] = x THEN 1 ELSE 0)

LEMMA InsertIs ==
    ASSUME NEW s, NEW x
    PROVE  /\ InsertToPositionables(s, x).pos =
                IF Under1(s, x, x) = {} THEN x ELSE News(s, x)[Popped(Under1(s, x, x), 0)]
           /\ DOMAIN InsertToPositionables(s, x).moved =
                {k \in DOMAIN s : Taken(s, x, k) < Cardinality(Under1(s, x, s[k]))}
           /\ \A k \in DOMAIN InsertToPositionables(s, x).moved :
                InsertToPositionables(s, x).moved[k] =
                  News(s, x)[Popped(Under1(s, x, s[k]), Taken(s, x, k))]
BY DEF InsertToPositionables, Under1, News, Row, Lead, Whole, Taken

\* The siblings at or below x, the record, the siblings above.
LEMMA WholeIs ==
    ASSUME NEW s \in Seq(Value), NEW x \in Nat
    PROVE  LET n == Len(Lowers(s, x))
               w == Whole(s, x)
           IN  /\ n = Cardinality(Low(s, x)) /\ n \in 0 .. Len(s)
               /\ w \in Seq(Value) /\ Len(w) = Len(s) + 2
               /\ Lowers(s, x) \in Seq(Value) /\ Uppers(s, x) \in Seq(Value)
               /\ Len(Uppers(s, x)) = Len(s) - n
               /\ w[1] = 0 /\ w[n + 2] = x
               /\ \A k \in 1 .. n : w[k + 1] = s[Nth(Low(s, x), k)] /\ Nth(Low(s, x), k) \in Low(s, x)
               /\ \A k \in 1 .. Len(s) - n : /\ w[n + 2 + k] = s[Nth(High(s, x), k)]
                                             /\ Nth(High(s, x), k) \in High(s, x)
<1> DEFINE lo == Lowers(s, x)
           up == Uppers(s, x)
           n  == Len(lo)
           w  == Whole(s, x)
<1>1. Low(s, x) \in SUBSET DOMAIN s /\ High(s, x) \in SUBSET DOMAIN s
  BY DEF Low, High
<1>2. lo = Pick(s, Low(s, x)) /\ up = Pick(s, High(s, x))
  BY DEF Lowers, Uppers, Low, High
<1> HIDE DEF lo, up
<1>3. /\ lo \in Seq(Value) /\ n = Cardinality(Low(s, x)) /\ n \in 0 .. Len(s)
      /\ \A k \in 1 .. n : lo[k] = s[Nth(Low(s, x), k)] /\ Nth(Low(s, x), k) \in Low(s, x)
  BY <1>1, <1>2, PickSeq
<1>4. /\ up \in Seq(Value) /\ Len(up) = Cardinality(High(s, x))
      /\ \A k \in 1 .. Len(up) : up[k] = s[Nth(High(s, x), k)] /\ Nth(High(s, x), k) \in High(s, x)
  BY <1>1, <1>2, PickSeq
<1>5. Cardinality(High(s, x)) = Len(s) - n
  <2>1. IsFiniteSet(1 .. Len(s)) /\ Cardinality(1 .. Len(s)) = Len(s) /\ DOMAIN s = 1 .. Len(s)
    <3>1. Len(s) \in Nat /\ DOMAIN s = 1 .. Len(s)
      OBVIOUS
    <3> QED BY <3>1, FS_Interval
  <2>2. \A i \in DOMAIN s : Num(s[i]) \in Nat
    BY NumType
  <2>3. High(s, x) = (1 .. Len(s)) \ Low(s, x) /\ (1 .. Len(s)) \cap Low(s, x) = Low(s, x)
    BY <2>1, <2>2 DEF High, Low
  <2>4. Cardinality((1 .. Len(s)) \ Low(s, x)) = Cardinality(1 .. Len(s)) - Cardinality((1 .. Len(s)) \cap Low(s, x))
    BY <2>1, FS_Difference
  <2> QED BY <2>1, <2>3, <2>4, <1>3
<1> HIDE DEF n
<1>6. n = Len(lo) /\ n \in Nat /\ Len(s) \in Nat /\ Len(up) = Len(s) - n
  BY <1>3, <1>4, <1>5 DEF n
<1> DEFINE a == Append(lo, x)
           b == <<0>> \o a
<1>7. a \in Seq(Value) /\ Len(a) = n + 1 /\ a[n + 1] = x /\ \A k \in 1 .. n : a[k] = lo[k]
  BY <1>3, <1>6 DEF Value
<1> HIDE DEF a
<1>8. <<0>> \in Seq(Value) /\ Len(<<0>>) = 1 /\ <<0>>[1] = 0
  BY DEF Value
<1>9. b \in Seq(Value) /\ Len(b) = n + 2 /\ b[1] = 0 /\ \A k \in 1 .. n + 1 : b[k + 1] = a[k]
  BY <1>6, <1>7, <1>8, ConcatProperties
<1> HIDE DEF b
<1>10. w = b \o up
  BY DEF w, Whole, b, a, lo, up
<1>11. /\ w \in Seq(Value) /\ Len(w) = Len(s) + 2
       /\ \A k \in 1 .. n + 2 : w[k] = b[k]
       /\ \A k \in 1 .. Len(s) - n : w[n + 2 + k] = up[k]
  BY <1>4, <1>6, <1>9, <1>10, ConcatProperties
<1>12. w[1] = 0 /\ w[n + 2] = x /\ \A k \in 1 .. n : w[k + 1] = lo[k]
  <2>1. 1 \in 1 .. n + 2 /\ n + 2 \in 1 .. n + 2 /\ n + 1 \in 1 .. n + 1 /\ n + 2 = (n + 1) + 1
    BY <1>6
  <2>2. \A k \in 1 .. n : k + 1 \in 1 .. n + 2 /\ k \in 1 .. n + 1
    BY <1>6
  <2> QED BY <2>1, <2>2, <1>7, <1>9, <1>11
<1> HIDE DEF w
<1> QED BY <1>3, <1>4, <1>5, <1>6, <1>11, <1>12 DEF n, w, lo, up

\* From place f of the whole on records may be pushed up, and the record is
\* among those that are, unless it is at f itself.
LEMMA RowIs ==
    ASSUME NEW s \in Seq(Value), NEW x \in Nat,
           \A k \in DOMAIN s : Num(s[k]) <= MaxPosition,
           Gap * (Len(s) + 1) <= MaxPosition
    PROVE  LET n == Len(Lowers(s, x))
               w == Whole(s, x)
               r == Row(s, x)
           IN  \E f \in 1 .. n + 2 :
                 /\ r \in Seq(Value) /\ Len(r) = Len(s) + 3 - f
                 /\ \A i \in 1 .. Len(r) : r[i] = w[f + i - 1]
                 /\ Pushed(r, News(s, x))
                 /\ \A i \in 1 .. n + 2 - f : i \in DOMAIN News(s, x)
                 /\ f = 1 \/ Num(w[f]) - MinGap >= Num(w[f - 1])
                 /\ f = n + 2 => x <= MaxPosition
<1> DEFINE lo == Lowers(s, x)
           up == Uppers(s, x)
           n  == Len(lo)
           w  == Whole(s, x)
           l  == Lead(s, x)
           r  == Row(s, x)
           a  == Append(lo, x)
           t  == <<0>> \o a
<1>1. /\ n \in 0 .. Len(s) /\ Len(s) \in Nat /\ n \in Nat
      /\ w \in Seq(Value) /\ Len(w) = Len(s) + 2
      /\ lo \in Seq(Value) /\ up \in Seq(Value) /\ Len(up) = Len(s) - n
      /\ w[1] = 0 /\ w[n + 2] = x
      /\ \A k \in 1 .. Len(s) - n : /\ w[n + 2 + k] = s[Nth(High(s, x), k)]
                                    /\ Nth(High(s, x), k) \in High(s, x)
  BY ONLY WholeIs
<1> HIDE DEF lo, up
<1>2. \A i \in 1 .. Len(w) : Num(w[i]) \in Nat
  BY <1>1, NumType
<1>3. MinGap \in Nat /\ Gap \in Nat /\ MaxPosition \in Nat
  BY GapAssumption
<1>4. CASE NoRoom(l)
  <2>1. r = w /\ News(s, x) = FullRepositions(w)
    BY <1>4 DEF Row, News
  <2>2. w # <<>> /\ Num(w[1]) = 0 /\ Len(w) - 1 = Len(s) + 1
    <3>1. 0 # None
      BY GapAssumption
    <3> QED BY <3>1, <1>1 DEF Num
  <2>3. Pushed(w, FullRepositions(w)) /\ DOMAIN FullRepositions(w) = 1 .. Len(w) - 1
    <3> HIDE DEF w
    <3> QED BY <2>2, <1>1, Renumbered
  <2>4. /\ 1 \in 1 .. n + 2 /\ Len(w) = Len(s) + 3 - 1
        /\ (\A i \in 1 .. Len(w) : 1 + i - 1 = i) /\ (\A i \in 1 .. n + 2 - 1 : i \in 1 .. Len(w) - 1)
        /\ 1 # n + 2
    BY <1>1
  <2> HIDE DEF w, r, n
  <2>5. \E f \in 1 .. n + 2 :
                 /\ r \in Seq(Value) /\ Len(r) = Len(s) + 3 - f
                 /\ \A i \in 1 .. Len(r) : r[i] = w[f + i - 1]
                 /\ Pushed(r, News(s, x))
                 /\ \A i \in 1 .. n + 2 - f : i \in DOMAIN News(s, x)
                 /\ f = 1 \/ Num(w[f]) - MinGap >= Num(w[f - 1])
                 /\ f = n + 2 => x <= MaxPosition
    BY <2>1, <2>3, <2>4, <1>1
  <2> QED BY <2>5 DEF w, r, n, lo
<1>5. CASE ~NoRoom(l)
  <2>1. r = l /\ News(s, x) = Repositions(l)
    BY <1>5 DEF Row, News
  <2>2. a \in Seq(Value) /\ a # <<>> /\ Len(a) = n + 1
    BY <1>1 DEF Value
  <2>3. PICK f \in 1 .. Len(a) + 1 :
             /\ FindBeginnings(a) = SubSeq(t, f, Len(t))
             /\ f = 1 \/ Num(t[f]) - MinGap >= Num(t[f - 1])
             /\ \A i \in f + 1 .. Len(t) : Num(t[i]) - MinGap < Num(t[i - 1])
    <3> HIDE DEF a
    <3> QED BY <2>2, BeginningsAt
  <2>4. <<0>> \in Seq(Value) /\ Len(<<0>>) = 1
    BY DEF Value
  <2> HIDE DEF a
  <2>5. t \in Seq(Value) /\ Len(t) = n + 2
    BY <2>2, <2>4, <1>1, ConcatProperties
  <2>6. w = t \o up
    BY DEF Whole, w, t, a, lo, up
  <2> HIDE DEF t, w, n
  <2>7. f \in 1 .. n + 2 /\ f \in Int
    BY <2>2, <2>3, <1>1
  <2>8. \A i \in 1 .. n + 2 : w[i] = t[i]
    BY <2>5, <2>6, <1>1, ConcatProperties
  <2> DEFINE b == SubSeq(t, f, Len(t))
  <2>9. b \in Seq(Value) /\ Len(b) = n + 3 - f /\ \A i \in 1 .. n + 3 - f : b[i] = t[f + i - 1]
    <3>1. Len(t) \in Int /\ f <= Len(t) /\ \A i \in f .. Len(t) : t[i] \in Value
      BY <2>5, <2>7, <1>1
    <3>2. /\ SubSeq(t, f, Len(t)) \in Seq(Value)
          /\ Len(SubSeq(t, f, Len(t))) = IF f <= Len(t) THEN Len(t) - f + 1 ELSE 0
          /\ \A i \in 1 .. Len(t) - f + 1 : SubSeq(t, f, Len(t))[i] = t[f + i - 1]
      BY <3>1, <2>7, SubSeqProperties
    <3>3. Len(t) - f + 1 = n + 3 - f
      BY <2>5, <2>7, <1>1
    <3> QED BY <3>1, <3>2, <3>3
  <2> HIDE DEF b
  <2>10. l = b \o up
    BY <2>3 DEF Lead, b, a, t, lo, up
  <2>11. l \in Seq(Value) /\ Len(l) = Len(s) + 3 - f /\ \A i \in 1 .. Len(l) : l[i] = w[f + i - 1]
    <3>1. /\ l \in Seq(Value) /\ Len(l) = (n + 3 - f) + (Len(s) - n)
          /\ \A i \in 1 .. (n + 3 - f) + (Len(s) - n) : l[i] = IF i <= n + 3 - f THEN b[i] ELSE up[i - (n + 3 - f)]
      <4>1. n + 3 - f \in Nat /\ Len(s) - n \in Nat /\ Len(b) = n + 3 - f /\ Len(up) = Len(s) - n
        BY <2>9, <2>7, <1>1 DEF n
      <4>2. /\ b \o up \in Seq(Value) /\ Len(b \o up) = Len(b) + Len(up)
            /\ \A i \in 1 .. Len(b) + Len(up) : (b \o up)[i] = IF i <= Len(b) THEN b[i] ELSE up[i - Len(b)]
        BY <2>9, <1>1, ConcatProperties
      <4> HIDE DEF l
      <4> QED BY <4>1, <4>2, <2>10
    <3>2. /\ Len(w) = (n + 2) + (Len(s) - n)
          /\ \A i \in 1 .. (n + 2) + (Len(s) - n) : w[i] = IF i <= n + 2 THEN t[i] ELSE up[i - (n + 2)]
      <4>1. n + 2 \in Nat /\ Len(s) - n \in Nat /\ Len(t) = n + 2 /\ Len(up) = Len(s) - n
        BY <2>5, <1>1 DEF n
      <4>2. /\ Len(t \o up) = Len(t) + Len(up)
            /\ \A i \in 1 .. Len(t) + Len(up) : (t \o up)[i] = IF i <= Len(t) THEN t[i] ELSE up[i - Len(t)]
        BY <2>5, <1>1, ConcatProperties
      <4> QED BY ONLY <4>1, <4>2, <2>6
    <3>3. Len(l) = Len(s) + 3 - f
      BY <3>1, <1>1, <2>7
    <3>4. ASSUME NEW i \in 1 .. Len(l) PROVE l[i] = w[f + i - 1]
      <4>1. CASE i <= n + 3 - f
        <5>1. i \in 1 .. n + 3 - f /\ i \in 1 .. (n + 3 - f) + (Len(s) - n) /\ f + i - 1 \in 1 .. n + 2
          BY <4>1, <3>3, <3>4, <2>7, <1>1
        <5>2. l[i] = b[i] /\ b[i] = t[f + i - 1]
          BY ONLY <4>1, <5>1, <3>1, <2>9
        <5> QED BY <5>1, <5>2, <2>8
      <4>2. CASE i > n + 3 - f
        <5>1. l[i] = up[i - (n + 3 - f)]
          BY <4>2, <3>1, <3>4, <2>7, <1>1
        <5>2. w[f + i - 1] = up[(f + i - 1) - (n + 2)]
          <6>1. f + i - 1 \in 1 .. (n + 2) + (Len(s) - n) /\ ~(f + i - 1 <= n + 2)
            BY <4>2, <3>3, <3>4, <2>7, <1>1 DEF n
          <6> QED BY <6>1, <3>2
        <5>3. (f + i - 1) - (n + 2) = i - (n + 3 - f)
          BY <2>7, <1>1
        <5> QED BY <5>1, <5>2, <5>3
      <4> QED BY <4>1, <4>2, <2>7, <1>1
    <3> QED BY <3>1, <3>3, <3>4
  <2> HIDE DEF l
  <2>12. l # <<>> /\ Len(l) >= 1 /\ Len(l) \in Nat
    BY <2>7, <2>11, <1>1
  <2>13. Pushed(l, Repositions(l))
    BY <2>11, <2>12, <1>5, PushedUp
  <2>14. f = 1 \/ Num(w[f]) - MinGap >= Num(w[f - 1])
    <3>1. f \in 1 .. n + 2 /\ (f # 1 => f - 1 \in 1 .. n + 2)
      BY <2>7, <1>1 DEF n
    <3> QED BY <3>1, <2>3, <2>8
  <2>15. \A i \in 1 .. n + 2 - f : i \in DOMAIN Repositions(l)
    <3> DEFINE m == n + 3 - f
    <3>1. m \in 1 .. Len(l)
      BY <2>7, <2>11, <1>1
    <3>2. \A i \in 2 .. m : Num(l[i]) - MinGap < Num(l[i - 1])
      <4> SUFFICES ASSUME NEW i \in 2 .. m PROVE Num(l[i]) - MinGap < Num(l[i - 1])
        OBVIOUS
      <4>1. i \in 1 .. Len(l) /\ i - 1 \in 1 .. Len(l)
        BY <3>1, <2>7, <1>1
      <4>2. l[i] = w[f + i - 1] /\ l[i - 1] = w[f + (i - 1) - 1]
        BY <4>1, <2>11
      <4>3. /\ f + i - 1 \in f + 1 .. n + 2 /\ f + (i - 1) - 1 = (f + i - 1) - 1
            /\ f + i - 1 \in 1 .. n + 2 /\ (f + i - 1) - 1 \in 1 .. n + 2
        BY <2>7, <1>1
      <4>4. Num(t[f + i - 1]) - MinGap < Num(t[(f + i - 1) - 1])
        BY <4>3, <2>3, <2>5
      <4> QED BY <4>2, <4>3, <4>4, <2>8
    <3> HIDE DEF m
    <3>3. \A i \in 2 .. m : ~FarEnough(l, i) /\ (i < m => ~Halfway(l, i))
      BY <3>1, <3>2, <2>11, BreakBeyond
    <3>4. PICK h \in 0 .. Len(l) - 1 :
             /\ DOMAIN Repositions(l) = 1 .. h
             /\ \/ h + 2 <= Len(l) => FarEnough(l, h + 2)
                \/ h >= 1 /\ Halfway(l, h + 1)
      BY <2>11, <2>12, Loop
    <3>5. m <= h + 1
      <4>1. SUFFICES ASSUME h + 1 < m PROVE FALSE
        BY <3>1, <3>4
      <4>2. h + 2 \in 2 .. m /\ h + 2 <= Len(l) /\ (h >= 1 => h + 1 \in 2 .. m)
        BY <4>1, <3>1, <2>12
      <4> QED BY <4>1, <4>2, <3>3, <3>4
    <3> QED BY <3>4, <3>5, <2>7, <1>1 DEF m
  <2>16. ASSUME f = n + 2 PROVE x <= MaxPosition
    <3>1. Len(l) = Len(s) - n + 1 /\ 1 \in 1 .. Len(l) /\ l[1] = x
      <4>1. 1 \in 1 .. Len(l)
        BY <2>12
      <4>2. f + 1 - 1 = n + 2
        BY <2>16, <1>1
      <4>3. l[1] = w[f + 1 - 1]
        BY <4>1, <2>11
      <4>4. l[1] = x
        BY <4>2, <4>3, <1>1
      <4>5. Len(l) = Len(s) - n + 1
        BY <2>16, <2>11, <1>1
      <4> QED BY <4>1, <4>4, <4>5
    <3>2. Num(x) = x
      BY GapAssumption DEF Num
    <3>3. CASE Len(l) = 1
      <4>1. ~(Len(l) = 1 /\ Num(l[1]) > MaxPosition)
        BY <1>5 DEF NoRoom
      <4>2. Num(l[1]) = x
        BY <3>1, <3>2
      <4> QED BY <4>1, <4>2, <3>3, <1>3
    <3>4. CASE Len(l) # 1
      <4>1. 1 \in 1 .. Len(s) - n
        BY <3>1, <3>4, <1>1
      <4>2. PICK k \in DOMAIN s : Num(s[k]) > x
        BY <4>1, <1>1 DEF High
      <4>3. Num(s[k]) \in Nat /\ Num(s[k]) <= MaxPosition
        BY NumType
      <4> QED BY <4>2, <4>3, <1>3
    <3> QED BY <3>3, <3>4
  <2> HIDE DEF r
  <2>17. \E g \in 1 .. n + 2 :
                 /\ r \in Seq(Value) /\ Len(r) = Len(s) + 3 - g
                 /\ \A i \in 1 .. Len(r) : r[i] = w[g + i - 1]
                 /\ Pushed(r, News(s, x))
                 /\ \A i \in 1 .. n + 2 - g : i \in DOMAIN News(s, x)
                 /\ g = 1 \/ Num(w[g]) - MinGap >= Num(w[g - 1])
                 /\ g = n + 2 => x <= MaxPosition
    BY <2>1, <2>7, <2>11, <2>13, <2>14, <2>15, <2>16
  <2> QED BY <2>17 DEF w, r, n, lo
<1> QED BY <1>4, <1>5

LEMMA InsertInRange ==
    ASSUME NEW s \in Seq(Value), NEW x \in Nat,
           \A k \in DOMAIN s : Num(s[k]) <= MaxPosition,
           Gap * (Len(s) + 1) <= MaxPosition
    PROVE  LET r == InsertToPositionables(s, x) IN
           /\ r.pos \in 0 .. MaxPosition
           /\ DOMAIN r.moved \in SUBSET DOMAIN s
           /\ \A k \in DOMAIN r.moved : r.moved[k] \in 0 .. MaxPosition
<1> DEFINE n == Len(Lowers(s, x))
           w == Whole(s, x)
           r == Row(s, x)
           new == News(s, x)
<1>1. /\ n \in 0 .. Len(s) /\ Len(s) \in Nat /\ n \in Nat /\ w[n + 2] = x
      /\ \A k \in 1 .. Len(s) - n : w[n + 2 + k] = s[Nth(High(s, x), k)] /\ Nth(High(s, x), k) \in High(s, x)
  <2>1. n \in 0 .. Len(s)
    BY ONLY WholeIs
  <2>2. w[n + 2] = x
    BY ONLY WholeIs
  <2>3. \A k \in 1 .. Len(s) - n : w[n + 2 + k] = s[Nth(High(s, x), k)] /\ Nth(High(s, x), k) \in High(s, x)
    BY ONLY WholeIs
  <2>4. Len(s) \in Nat
    OBVIOUS
  <2> HIDE DEF n, w, r, new
  <2> QED BY <2>1, <2>2, <2>3, <2>4
<1>2. PICK f \in 1 .. n + 2 :
                 /\ r \in Seq(Value) /\ Len(r) = Len(s) + 3 - f
                 /\ \A i \in 1 .. Len(r) : r[i] = w[f + i - 1]
                 /\ Pushed(r, new)
                 /\ \A i \in 1 .. n + 2 - f : i \in DOMAIN new
                 /\ f = n + 2 => x <= MaxPosition
  BY RowIs
<1> HIDE DEF n, w, r, new
<1>3. PICK h \in 0 .. Len(r) - 1 :
       /\ DOMAIN new = 1 .. h
       /\ \A i \in 1 .. h : new[i] \in Nat
       /\ \A i \in 1 .. h : \/ new[i] <= MaxPosition
                            \/ h + 2 <= Len(r) /\ new[i] <= Num(r[h + 2])
  BY <1>2 DEF Pushed
<1>4. h \in Nat /\ f \in Nat /\ n + 2 - f <= h /\ MaxPosition \in Nat
  <2>1. h \in Nat /\ f \in Nat /\ MaxPosition \in Nat
    BY <1>1, <1>2, <1>3, GapAssumption
  <2>2. CASE n + 2 - f < 1 BY <2>1, <2>2, <1>1
  <2>3. CASE n + 2 - f >= 1
    <3> DEFINE m == n + 2 - f
    <3>1. m \in 1 .. n + 2 - f
      BY <2>1, <2>3, <1>1
    <3>2. m \in 1 .. h
      BY <3>1, <1>2, <1>3
    <3>3. m <= h
      BY <3>2, <2>1
    <3> QED BY <3>3, <2>1, <1>1
  <2> QED BY <2>1, <2>2, <2>3, <1>1
<1>5. \A i \in DOMAIN new : new[i] \in 0 .. MaxPosition
  <2> SUFFICES ASSUME NEW i \in 1 .. h PROVE new[i] \in 0 .. MaxPosition
    BY <1>3
  <2>1. CASE new[i] <= MaxPosition
    BY <2>1, <1>3, <1>4
  <2>2. CASE h + 2 <= Len(r) /\ new[i] <= Num(r[h + 2])
    <3> DEFINE k == f + h + 1 - (n + 2)
    <3>1. /\ h + 2 \in 1 .. Len(r) /\ f + (h + 2) - 1 = n + 2 + k
          /\ k \in 1 .. Len(s) - n
      BY <2>2, <1>1, <1>2, <1>4
    <3>2. r[h + 2] = w[n + 2 + k]
      BY <3>1, <1>2
    <3> HIDE DEF k
    <3>3. PICK j \in DOMAIN s : r[h + 2] = s[j]
      BY <3>1, <3>2, <1>1 DEF High
    <3>4. Num(s[j]) \in Nat /\ Num(s[j]) <= MaxPosition
      BY NumType
    <3> QED BY <2>2, <3>3, <3>4, <1>3, <1>4
  <2> QED BY <2>1, <2>2, <1>3
<1>6. \A v : Under1(s, x, v) \in SUBSET DOMAIN new /\ IsFiniteSet(Under1(s, x, v)) /\ Under1(s, x, v) \in SUBSET Nat
  <2> SUFFICES ASSUME NEW v
               PROVE  Under1(s, x, v) \in SUBSET DOMAIN new /\ IsFiniteSet(Under1(s, x, v)) /\ Under1(s, x, v) \in SUBSET Nat
    OBVIOUS
  <2>1. Under1(s, x, v) \in SUBSET (1 .. h)
    BY <1>3 DEF Under1, Entries, new
  <2>2. IsFiniteSet(1 .. h)
    <3>1. 1 \in Int /\ h \in Int
      BY <1>4
    <3> QED BY <3>1, FS_Interval
  <2>3. IsFiniteSet(Under1(s, x, v))
    BY <2>1, <2>2, FS_Subset
  <2> QED BY <2>1, <2>3, <1>3
<1>7. ASSUME NEW v, NEW m \in Nat, m < Cardinality(Under1(s, x, v))
      PROVE  new[Popped(Under1(s, x, v), m)] \in 0 .. MaxPosition
  <2> DEFINE E == Under1(s, x, v)
  <2>1. E \in SUBSET Nat /\ IsFiniteSet(E) /\ E \in SUBSET DOMAIN new
    BY <1>6
  <2>2. m < Cardinality(E)
    BY <1>7
  <2> HIDE DEF E
  <2>3. Popped(E, m) \in E
    BY <2>1, <2>2, PoppedOf
  <2> QED BY <2>1, <2>3, <1>5 DEF E
<1>8. \A k \in DOMAIN s : Taken(s, x, k) \in Nat
  <2> SUFFICES ASSUME NEW k \in DOMAIN s PROVE Taken(s, x, k) \in Nat
    OBVIOUS
  <2> DEFINE J == {j \in DOMAIN s : j > k /\ s[j] = s[k]}
  <2>1. IsFiniteSet(1 .. Len(s)) /\ DOMAIN s = 1 .. Len(s)
    BY <1>1, FS_Interval
  <2>2. J \in SUBSET (1 .. Len(s))
    BY <2>1
  <2>3. IsFiniteSet(J)
    BY <2>1, <2>2, FS_Subset
  <2>4. Cardinality(J) \in Nat
    BY <2>3, FS_CardinalityType
  <2>5. Taken(s, x, k) = Cardinality(J) + (IF s[k] = x THEN 1 ELSE 0)
    BY DEF Taken
  <2> QED BY <2>4, <2>5
<1>9. InsertToPositionables(s, x).pos \in 0 .. MaxPosition
  <2>1. CASE Under1(s, x, x) = {}
    <3>1. f = n + 2
      <4>1. SUFFICES ASSUME f # n + 2 PROVE FALSE
        OBVIOUS
      <4> DEFINE i == n + 2 - f
      <4>2. i \in 1 .. n + 2 - f /\ i + 1 \in 1 .. Len(r) /\ f + (i + 1) - 1 = n + 2
        BY <4>1, <1>1, <1>2, <1>4
      <4>3. i \in DOMAIN new /\ r[i + 1] = x
        BY <4>2, <1>1, <1>2
      <4> HIDE DEF i
      <4>4. i \in Under1(s, x, x)
        BY <4>3 DEF Under1, Entries, new, r
      <4> QED BY <4>4, <2>1
    <3>2. x \in 0 .. MaxPosition
      BY <3>1, <1>2, <1>4
    <3>3. InsertToPositionables(s, x).pos = x
      BY <2>1, InsertIs
    <3> QED BY <3>2, <3>3
  <2>2. CASE Under1(s, x, x) # {}
    <3>1. Cardinality(Under1(s, x, x)) \in Nat /\ Cardinality(Under1(s, x, x)) # 0
      BY <2>2, <1>6, FS_CardinalityType, FS_EmptySet
    <3>2. new[Popped(Under1(s, x, x), 0)] \in 0 .. MaxPosition
      BY <3>1, <1>7
    <3> QED BY <2>2, <3>2, InsertIs DEF new
  <2> QED BY <2>1, <2>2
<1>10. DOMAIN InsertToPositionables(s, x).moved \in SUBSET DOMAIN s
  BY InsertIs
<1>11. ASSUME NEW k \in DOMAIN InsertToPositionables(s, x).moved
       PROVE  InsertToPositionables(s, x).moved[k] \in 0 .. MaxPosition
  <2>1. k \in DOMAIN s /\ Taken(s, x, k) < Cardinality(Under1(s, x, s[k]))
    BY <1>11, InsertIs
  <2>2. new[Popped(Under1(s, x, s[k]), Taken(s, x, k))] \in 0 .. MaxPosition
    BY <2>1, <1>7, <1>8
  <2> QED BY <1>11, <2>2, InsertIs DEF new
<1> QED BY <1>9, <1>10, <1>11

-----------------------------------------------------------------------------
(* Insertion into siblings in order                                        *)

\* The new positions of all of w, whose places from f + 1 on get new ones.
Renewed(w, f, new) == [u \in DOMAIN w |-> IF u - f \in DOMAIN new THEN new[u - f] ELSE w[u]]

\* From place f on a row in order is pushed up, at least up to place m.
PushedFrom(w, m, f, r, new) ==
    /\ w \in Seq(Nat) /\ m \in DOMAIN w /\ f \in 1 .. m
    /\ \A c, d \in DOMAIN w : c < d => w[c] <= w[d]
    /\ Len(r) = Len(w) + 1 - f
    /\ \A i \in 1 .. Len(r) : r[i] = w[f + i - 1]
    /\ Pushed(r, new)
    /\ \A i \in 1 .. m - f : i \in DOMAIN new
    /\ f = m /\ f > 1 => w[f] - MinGap >= w[f - 1]

\* What is in order stays in order, what is apart stays apart, and place m
\* ends up apart from all others.
SpreadOut(w, m, v) ==
    /\ DOMAIN v = DOMAIN w /\ \A u \in DOMAIN w : v[u] \in Nat
    /\ \A c, d \in DOMAIN w : c < d /\ w[c] + MinGap <= w[d] => v[c] + MinGap <= v[d]
    /\ \A c, d \in DOMAIN w : c < d /\ w[c] < w[d] => v[c] < v[d]
    /\ \A c \in DOMAIN w : c < m => v[c] + MinGap <= v[m]
    /\ \A d \in DOMAIN w : m < d => v[m] + MinGap <= v[d]

LEMMA Spread ==
    ASSUME NEW w, NEW m, NEW f, NEW r \in Seq(Value), NEW new, PushedFrom(w, m, f, r, new)
    PROVE  SpreadOut(w, m, Renewed(w, f, new))
<1> DEFINE v == Renewed(w, f, new)
           N == Len(w)
<1>a. w \in Seq(Nat) /\ m \in DOMAIN w /\ f \in 1 .. m
  BY DEF PushedFrom
<1>b. \A c, d \in DOMAIN w : c < d => w[c] <= w[d]
  BY DEF PushedFrom
<1>c. /\ Len(r) = Len(w) + 1 - f
      /\ \A i \in 1 .. Len(r) : r[i] = w[f + i - 1]
      /\ Pushed(r, new)
  BY DEF PushedFrom
<1>d. \A i \in 1 .. m - f : i \in DOMAIN new
  BY DEF PushedFrom
<1>e. f = m /\ f > 1 => w[f] - MinGap >= w[f - 1]
  BY DEF PushedFrom
<1> USE <1>a, <1>b, <1>c, <1>d, <1>e
<1>1. N \in Nat /\ DOMAIN w = 1 .. N /\ Len(r) = N + 1 - f /\ f \in Nat /\ m \in 1 .. N /\ Len(r) \in Nat /\ MinGap \in Nat \ {0}
  <2>1. N \in Nat /\ DOMAIN w = 1 .. N
    BY <1>a
  <2>2. Len(r) \in Nat
    OBVIOUS
  <2> QED BY <2>1, <2>2, <1>a, <1>c, GapAssumption
<1>2. \A u \in 1 .. N : w[u] \in Nat /\ Num(w[u]) = w[u]
  BY <1>1, <1>a, GapAssumption DEF Num
<1> HIDE DEF N, v
<1>3. PICK h \in 0 .. Len(r) - 1 :
       /\ DOMAIN new = 1 .. h
       /\ \A i \in 1 .. h : new[i] \in Nat /\ Num(r[1]) + MinGap <= new[i]
       /\ \A i, j \in 1 .. h : i < j => new[i] + MinGap <= new[j]
       /\ h + 2 <= Len(r) => \A i \in 1 .. h : new[i] + MinGap <= Num(r[h + 2])
       /\ h = 0 /\ 2 <= Len(r) => Num(r[1]) + MinGap <= Num(r[2])
  BY <1>c DEF Pushed
<1>4. h \in Nat /\ f + h <= N /\ m <= f + h
  <2>1. h \in Nat /\ f + h <= N
    BY <1>1, <1>3
  <2>2. CASE m = f BY <2>1, <2>2, <1>1
  <2>3. CASE m # f
    <3> DEFINE k == m - f
    <3>1. k \in 1 .. m - f
      BY <2>3, <1>1
    <3>2. k \in 1 .. h
      BY <3>1, <1>3
    <3>3. k <= h
      BY <3>2, <2>1
    <3> QED BY <3>3, <2>1, <1>1
  <2> QED BY <2>1, <2>2, <2>3
<1>5. Num(r[1]) = w[f] /\ w[f] \in Nat
  <2>1. 1 \in 1 .. Len(r) /\ f + 1 - 1 = f /\ f \in 1 .. N
    BY <1>1, <1>4
  <2> QED BY <2>1, <1>2
<1>6. \A i \in 1 .. h : new[i] \in Nat /\ w[f] + MinGap <= new[i]
  BY <1>3, <1>5
<1>11. \A c, d \in 1 .. N : c <= d => w[c] <= w[d]
  <2> SUFFICES ASSUME NEW c \in 1 .. N, NEW d \in 1 .. N, c <= d PROVE w[c] <= w[d]
    OBVIOUS
  <2>1. w[c] \in Nat /\ w[d] \in Nat /\ c \in Nat /\ d \in Nat
    BY <1>1, <1>2
  <2>2. CASE c = d BY <2>1, <2>2
  <2>3. CASE c # d
    <3>1. c < d /\ c \in DOMAIN w /\ d \in DOMAIN w
      BY <2>1, <2>3, <1>1
    <3> QED BY <3>1
  <2> QED BY <2>2, <2>3
<1>7. ASSUME NEW d \in 1 .. N, f + h < d
      PROVE  /\ w[d] \in Nat
             /\ \A i \in 1 .. h : new[i] + MinGap <= w[d]
             /\ w[f] + MinGap <= w[d]
  <2>1. h + 2 \in 1 .. Len(r) /\ f + (h + 2) - 1 = f + h + 1 /\ f + h + 1 \in 1 .. N
    BY <1>1, <1>4, <1>7
  <2>2. r[h + 2] = w[f + h + 1] /\ Num(r[h + 2]) = w[f + h + 1]
    BY <2>1, <1>2
  <2>3. w[f + h + 1] <= w[d]
    <3>1. f + h + 1 <= d
      BY <1>1, <1>4, <1>7
    <3> QED BY <3>1, <2>1, <1>11
  <2>4. h + 2 <= Len(r)
    BY <2>1
  <2>5. w[f + h + 1] \in Nat /\ w[d] \in Nat
    BY <2>1, <1>2
  <2>6. \A i \in 1 .. h : new[i] + MinGap <= w[f + h + 1]
    BY <2>2, <2>4, <1>3
  <2>7. \A i \in 1 .. h : new[i] + MinGap <= w[d]
    <3> SUFFICES ASSUME NEW i \in 1 .. h PROVE new[i] + MinGap <= w[d]
      OBVIOUS
    <3>1. new[i] \in Nat /\ new[i] + MinGap <= w[f + h + 1]
      BY <2>6, <1>6
    <3> QED BY ONLY <3>1, <2>3, <2>5, Reach
  <2>8. w[f] + MinGap <= w[d]
    <3>1. CASE h = 0
      <4>1. Num(r[1]) + MinGap <= Num(r[h + 2])
        <5>1. h + 2 = 2
          BY <3>1
        <5> QED BY <5>1, <3>1, <2>4, <1>3
      <4>2. w[f] + MinGap <= w[f + h + 1]
        BY <4>1, <2>2, <1>5
      <4> QED BY ONLY <4>2, <2>3, <2>5, <1>5, Reach
    <3>2. CASE h # 0
      <4>1. h \in 1 .. h
        BY <3>2, <1>4
      <4>2. new[h] \in Nat /\ w[f] + MinGap <= new[h] /\ new[h] + MinGap <= w[d]
        BY <4>1, <2>7, <1>6
      <4> DEFINE z == new[h]
                 y == w[d]
                 g == w[f]
      <4>3. z \in Nat /\ y \in Nat /\ g \in Nat /\ g + MinGap <= z /\ z + MinGap <= y
        BY <4>2, <2>5, <1>5
      <4> HIDE DEF z, y, g
      <4>4. g + MinGap <= y
        BY <4>3, <1>1
      <4> QED BY <4>4 DEF g, y
    <3> QED BY <3>1, <3>2
  <2> QED BY <2>5, <2>7, <2>8
\* The three regions.
<1>8. \A u \in 1 .. N : /\ u <= f => v[u] = w[u]
                        /\ f < u /\ u <= f + h => u - f \in 1 .. h /\ v[u] = new[u - f]
                        /\ f + h < u => v[u] = w[u]
  <2> SUFFICES ASSUME NEW u \in 1 .. N
               PROVE  /\ u <= f => v[u] = w[u]
                      /\ f < u /\ u <= f + h => u - f \in 1 .. h /\ v[u] = new[u - f]
                      /\ f + h < u => v[u] = w[u]
    OBVIOUS
  <2>1. v[u] = IF u - f \in 1 .. h THEN new[u - f] ELSE w[u]
    BY <1>1, <1>3 DEF Renewed, v
  <2> QED BY <2>1, <1>1, <1>4
<1>9. DOMAIN v = DOMAIN w
  BY DEF Renewed, v
<1>10. \A u \in 1 .. N : v[u] \in Nat
  <2> SUFFICES ASSUME NEW u \in 1 .. N PROVE v[u] \in Nat
    OBVIOUS
  <2>1. u <= f \/ (f < u /\ u <= f + h) \/ f + h < u
    BY <1>1, <1>4
  <2>2. CASE v[u] = w[u] BY <2>2, <1>2
  <2>3. CASE u - f \in 1 .. h /\ v[u] = new[u - f] BY <2>3, <1>6
  <2> QED BY <2>1, <2>2, <2>3, <1>8
\* Across a region boundary, or among those that moved, all is apart.
<1>12. ASSUME NEW c \in 1 .. N, NEW d \in 1 .. N, c < d
       PROVE  \/ v[c] + MinGap <= v[d]
              \/ /\ v[c] = w[c] /\ v[d] = w[d]
                 /\ d <= f \/ (c <= f /\ f + h < d) \/ f + h < c
  <2>0. v[c] \in Nat /\ v[d] \in Nat /\ w[c] \in Nat /\ w[d] \in Nat
    BY <1>2, <1>10
  <2>1. CASE d <= f
    <3>1. c <= f
      BY <2>1, <1>1, <1>12
    <3> QED BY <2>1, <3>1, <1>8
  <2>2. CASE c <= f /\ f < d /\ d <= f + h
    <3>1. w[c] <= w[f] /\ v[c] = w[c] /\ d - f \in 1 .. h /\ v[d] = new[d - f]
      <4>1. f \in 1 .. N
        BY <1>1, <1>4
      <4> QED BY <4>1, <2>2, <1>8, <1>11
    <3>2. w[f] + MinGap <= new[d - f] /\ new[d - f] \in Nat
      BY <3>1, <1>6
    <3>3. v[c] + MinGap <= v[d]
      <4> DEFINE z == new[d - f]
      <4>1. w[c] <= w[f] /\ v[c] = w[c] /\ v[d] = z /\ w[f] + MinGap <= z /\ z \in Nat
        BY <3>1, <3>2
      <4> HIDE DEF z
      <4>2. w[c] + MinGap <= z
        BY ONLY <4>1, <2>0, <1>5, Reach
      <4> QED BY <4>1, <4>2
    <3> QED BY <3>3
  <2>3. CASE c <= f /\ f + h < d
    BY <2>3, <1>8
  <2>4. CASE f < c /\ d <= f + h
    <3>1. /\ c - f \in 1 .. h /\ d - f \in 1 .. h /\ c - f < d - f
          /\ v[c] = new[c - f] /\ v[d] = new[d - f]
      <4>1. c <= f + h /\ f < d /\ c - f < d - f
        BY <2>4, <1>1, <1>4, <1>12
      <4> QED BY <4>1, <2>4, <1>8
    <3> QED BY <3>1, <1>3
  <2>5. CASE f < c /\ c <= f + h /\ f + h < d
    <3>1. c - f \in 1 .. h /\ v[c] = new[c - f] /\ v[d] = w[d]
      BY <2>5, <1>8
    <3> QED BY <3>1, <2>5, <1>7
  <2>6. CASE f + h < c
    <3>1. f + h < d
      BY <2>6, <1>1, <1>4, <1>12
    <3> QED BY <2>6, <3>1, <1>8
  <2> QED BY <2>1, <2>2, <2>3, <2>4, <2>5, <2>6, <1>1, <1>4
<1>13. \A c, d \in 1 .. N : c < d /\ w[c] + MinGap <= w[d] => v[c] + MinGap <= v[d]
  BY <1>12
<1>14. \A c, d \in 1 .. N : c < d /\ w[c] < w[d] => v[c] < v[d]
  <2> SUFFICES ASSUME NEW c \in 1 .. N, NEW d \in 1 .. N, c < d, w[c] < w[d] PROVE v[c] < v[d]
    OBVIOUS
  <2>1. v[c] \in Nat /\ v[d] \in Nat
    BY <1>10
  <2>2. CASE v[c] + MinGap <= v[d]
    BY ONLY <2>1, <2>2, Reach
  <2>3. CASE v[c] = w[c] /\ v[d] = w[d]
    BY <2>3
  <2> QED BY <2>2, <2>3, <1>12
<1>15. ASSUME NEW c \in 1 .. N, c < m PROVE v[c] + MinGap <= v[m]
  <2>1. SUFFICES ASSUME /\ v[c] = w[c] /\ v[m] = w[m]
                        /\ m <= f \/ (c <= f /\ f + h < m) \/ f + h < c
                 PROVE  v[c] + MinGap <= v[m]
    BY <1>1, <1>12, <1>15
  <2>2. f = m /\ f > 1
    BY <2>1, <1>1, <1>4, <1>15
  <2>3. w[f] - MinGap >= w[f - 1] /\ f - 1 \in 1 .. N /\ c <= f - 1
    <3>1. f \in 1 .. N /\ N \in Nat /\ c \in 1 .. N /\ c < f
      BY <2>2, <1>1, <1>15
    <3>2. f - 1 \in 1 .. N /\ c <= f - 1
      BY ONLY <2>2, <3>1
    <3>3. w[f] - MinGap >= w[f - 1]
      BY <2>2, <1>1
    <3> QED BY <3>2, <3>3
  <2>4. w[c] <= w[f - 1] /\ w[c] \in Nat /\ w[f - 1] \in Nat
    BY <2>3, <1>2, <1>11
  <2>5. w[f] \in Nat /\ v[c] = w[c] /\ v[m] = w[f]
    <3>1. f \in 1 .. N
      BY <2>2, <1>1
    <3>2. w[f] \in Nat
      BY <3>1, <1>2
    <3> QED BY <3>2, <2>1, <2>2
  <2>6. w[f - 1] + MinGap <= w[f]
    BY ONLY <2>3, <2>4, <2>5, Reach
  <2> QED BY ONLY <2>4, <2>5, <2>6, Reach
<1>16. ASSUME NEW d \in 1 .. N, m < d PROVE v[m] + MinGap <= v[d]
  <2>1. SUFFICES ASSUME /\ v[m] = w[m] /\ v[d] = w[d]
                        /\ d <= f \/ (m <= f /\ f + h < d) \/ f + h < m
                 PROVE  v[m] + MinGap <= v[d]
    BY <1>1, <1>12, <1>16
  <2>2. m = f /\ f + h < d
    BY <2>1, <1>1, <1>4, <1>16
  <2> QED BY <2>1, <2>2, <1>7
<1> QED BY <1>1, <1>9, <1>10, <1>13, <1>14, <1>15, <1>16 DEF SpreadOut, v, N

-----------------------------------------------------------------------------
(* What is taken from the map                                              *)

LEMMA Shift ==
    ASSUME NEW S \in SUBSET Nat, IsFiniteSet(S), NEW d \in Nat
    PROVE  /\ IsFiniteSet({j + d : j \in S})
           /\ Cardinality({j + d : j \in S}) = Cardinality(S)
<1> DEFINE T == {j + d : j \in S}
           g == [j \in S |-> j + d]
<1>1. g \in Bijection(S, T)
  BY DEF Bijection, Injection, Surjection, IsInjective
<1>2. ExistsBijection(S, T)
  BY <1>1 DEF ExistsBijection
<1> HIDE DEF T
<1>3. IsFiniteSet(T) /\ Cardinality(T) = Cardinality(S)
  BY <1>2, FS_Bijection
<1> QED BY <1>3 DEF T

\* The entries under what is at place u, and the places after u that tie
\* with it.
Ties(w, f, h, u) == {i \in 1 .. h : w[f + i] = w[u]}
Later(w, u) == {c \in DOMAIN w : c > u /\ w[c] = w[u]}

LEMMA Offset ==
    ASSUME NEW f \in Nat, NEW h \in Nat, NEW c \in Nat, f < c, c <= f + h
    PROVE  c - f \in 1 .. h /\ f + (c - f) = c /\ (c - f) + f = c /\ c - f \in Nat
OBVIOUS

\* The places f + 1 to f + h of a row in order get new numbers, and the last
\* of them does not tie with the next.
Moving(w, f, h, new) ==
    /\ w \in Seq(Nat) /\ f \in DOMAIN w /\ h \in Nat /\ f + h <= Len(w)
    /\ \A c, d \in DOMAIN w : c < d => w[c] <= w[d]
    /\ DOMAIN new = 1 .. h
    /\ h >= 1 /\ f + h + 1 <= Len(w) => w[f + h] < w[f + h + 1]

\* Taken from the right, the entries come off to the places they are for:
\* those after u that tie with it have taken theirs when u takes its own.
LEMMA Popping ==
    ASSUME NEW w, NEW f, NEW h, NEW new, Moving(w, f, h, new), NEW u \in DOMAIN w
    PROVE  /\ Cardinality(Later(w, u)) \in Nat /\ Cardinality(Ties(w, f, h, u)) \in Nat
           /\ Renewed(w, f, new)[u] =
                IF Cardinality(Later(w, u)) < Cardinality(Ties(w, f, h, u))
                THEN new[Popped(Ties(w, f, h, u), Cardinality(Later(w, u)))]
                ELSE w[u]
<1> DEFINE N == Len(w)
           T == Later(w, u)
           K == Ties(w, f, h, u)
<1>a. /\ w \in Seq(Nat) /\ f \in DOMAIN w /\ h \in Nat /\ f + h <= Len(w) /\ u \in DOMAIN w
      /\ DOMAIN new = 1 .. h
  BY DEF Moving
<1>b. \A c, d \in DOMAIN w : c < d => w[c] <= w[d]
  BY DEF Moving
<1>c. h >= 1 /\ f + h + 1 <= Len(w) => w[f + h] < w[f + h + 1]
  BY DEF Moving
<1>0. N \in Nat /\ DOMAIN w = 1 .. N
  BY <1>a
<1>1. N \in Nat /\ DOMAIN w = 1 .. N /\ f \in 1 .. N /\ u \in 1 .. N /\ w[u] \in Nat /\ f + h <= N
  BY <1>0, <1>a
<1>2. /\ K = {i \in 1 .. h : w[f + i] = w[u]}
      /\ T = {c \in 1 .. N : c > u /\ w[c] = w[u]}
  BY <1>1 DEF Later, Ties
<1>3. Renewed(w, f, new)[u] = IF u - f \in 1 .. h THEN new[u - f] ELSE w[u]
  BY <1>1, <1>a DEF Renewed
<1>4. IsFiniteSet(1 .. h) /\ IsFiniteSet(1 .. N)
  <2>1. 1 \in Int /\ h \in Int /\ N \in Int
    BY <1>1, <1>a
  <2> HIDE DEF N
  <2> QED BY <2>1, FS_Interval
<1>5. \A c \in 1 .. N : w[c] \in Nat
  BY <1>1, <1>a
<1>6. \A c, d \in 1 .. N : c <= d => w[c] <= w[d]
  <2> SUFFICES ASSUME NEW c \in 1 .. N, NEW d \in 1 .. N, c <= d PROVE w[c] <= w[d]
    OBVIOUS
  <2>1. CASE c = d
    <3>1. w[c] \in Nat
      BY <1>5
    <3> QED BY <2>1, <3>1
  <2>2. CASE c < d
    BY <2>2, <1>1, <1>b
  <2>3. c \in Int /\ d \in Int
    BY ONLY <1>1, c \in 1 .. N, d \in 1 .. N
  <2>4. c = d \/ c < d
    BY ONLY <2>3, c <= d
  <2> QED BY <2>1, <2>2, <2>4
\* No tie across the last of those that move.
<1>7. ASSUME NEW c \in 1 .. N, NEW d \in 1 .. N, h >= 1, c <= f + h, f + h < d
      PROVE  w[c] < w[d]
  <2>1. f + h \in 1 .. N /\ f + h + 1 \in 1 .. N /\ f + h + 1 <= d
    <3>1. f \in Nat \ {0} /\ h \in Nat /\ N \in Nat /\ d \in 1 .. N /\ f + h < d
      BY <1>1, <1>a, <1>7
    <3> QED BY ONLY <3>1
  <2>2. w[c] <= w[f + h] /\ w[f + h] < w[f + h + 1] /\ w[f + h + 1] <= w[d]
    BY <2>1, <1>1, <1>c, <1>6, <1>7
  <2>3. w[c] \in Nat /\ w[f + h] \in Nat /\ w[f + h + 1] \in Nat /\ w[d] \in Nat
    BY <2>1, <1>5
  <2> DEFINE a == w[c]
             b == w[f + h]
             p == w[f + h + 1]
             q == w[d]
  <2>4. a \in Nat /\ b \in Nat /\ p \in Nat /\ q \in Nat /\ a <= b /\ b < p /\ p <= q
    BY <2>2, <2>3
  <2> HIDE DEF a, b, p, q
  <2>5. a < q
    BY <2>4
  <2> QED BY <2>5 DEF a, q
<1>d. h \in Nat /\ (h >= 1 /\ f + h + 1 <= N => w[f + h] < w[f + h + 1])
  BY <1>a, <1>c
<1> HIDE DEF N, T, K
<1>8. /\ K \in SUBSET (1 .. h) /\ K \in SUBSET Nat /\ IsFiniteSet(K)
      /\ T \in SUBSET (1 .. N) /\ T \in SUBSET Nat /\ IsFiniteSet(T)
  <2>1. K \in SUBSET (1 .. h) /\ T \in SUBSET (1 .. N)
    BY <1>2
  <2>2. IsFiniteSet(K) /\ IsFiniteSet(T)
    BY <2>1, <1>4, FS_Subset
  <2>3. 1 .. h \in SUBSET Nat /\ 1 .. N \in SUBSET Nat
    OBVIOUS
  <2> QED BY <2>1, <2>2, <2>3
<1>9. Cardinality(T) \in Nat /\ Cardinality(K) \in Nat
  BY <1>8, FS_CardinalityType
<1>10. CASE u <= f
  <2> DEFINE J == {i + f : i \in K}
  <2>1. IsFiniteSet(J) /\ Cardinality(J) = Cardinality(K)
    <3>1. f \in Nat
      BY <1>1, <1>d
    <3> QED BY <3>1, <1>8, Shift
  <2>2. J \in SUBSET T
    <3> SUFFICES ASSUME NEW i \in K PROVE i + f \in T
      OBVIOUS
    <3>1. i \in 1 .. h /\ w[f + i] = w[u] /\ i + f = f + i
      BY <1>1, <1>d, <1>2, <1>8
    <3>2. f + i \in 1 .. N /\ f + i > u
      BY <3>1, <1>1, <1>d, <1>10
    <3> QED BY <3>1, <3>2, <1>2
  <2> HIDE DEF J
  <2>3. Cardinality(K) <= Cardinality(T)
    BY <2>1, <2>2, <1>8, FS_Subset
  <2>4. ~(u - f \in 1 .. h)
    BY <1>1, <1>d, <1>10
  <2> QED BY <2>3, <2>4, <1>3, <1>9 DEF T, K
<1>11. CASE f + h < u
  <2>1. K = {}
    <3> SUFFICES ASSUME NEW i \in K PROVE FALSE
      OBVIOUS
    <3>1. i \in 1 .. h /\ w[f + i] = w[u]
      BY <1>2, <1>8
    <3>2. f + i \in 1 .. N /\ f + i <= f + h /\ h >= 1
      BY <3>1, <1>1, <1>d
    <3>3. w[f + i] < w[u]
      BY <3>2, <1>1, <1>d, <1>7, <1>11
    <3> QED BY <3>1, <3>3, <1>1, <1>d
  <2>2. Cardinality(K) = 0
    BY <2>1, FS_EmptySet
  <2>3. ~(u - f \in 1 .. h)
    BY <1>1, <1>d, <1>11
  <2> QED BY <2>2, <2>3, <1>3, <1>9 DEF T, K
<1>12. CASE f < u /\ u <= f + h
  <2> DEFINE e == u - f
             J == {j \in K : j > e}
  <2>0. f \in Nat /\ u \in Nat
    BY <1>1, <1>d
  <2>1. e \in 1 .. h /\ f + e = u /\ e \in Nat
    BY <2>0, <1>d, <1>12, Offset
  <2>2. e \in K
    BY <2>1, <1>2
  <2>3. {i + f : i \in J} = T
    <3>1. ASSUME NEW i \in J PROVE i + f \in T
      <4>1. i \in 1 .. h /\ w[f + i] = w[u] /\ i > e
        BY <1>2, <1>8
      <4>2. i \in Nat /\ i <= h /\ e \in Nat /\ f + e = u
        BY <4>1, <2>1
      <4>3. f + i \in 1 .. N /\ f + i > u /\ i + f = f + i
        <5> HIDE DEF e, J
        <5> QED BY <4>1, <4>2, <2>0, <1>1, <1>d
      <4> QED BY <4>1, <4>3, <1>2
    <3>2. ASSUME NEW c \in T PROVE c - f \in J /\ c = (c - f) + f
      <4>1. c \in 1 .. N /\ c > u /\ w[c] = w[u]
        BY <1>2, <1>8
      <4>2. c <= f + h
        <5>1. SUFFICES ASSUME f + h < c PROVE FALSE
          BY <4>1, <1>1, <1>d
        <5>2. h >= 1
          BY <1>1, <1>d, <1>12
        <5>3. w[u] < w[c]
          BY <4>1, <5>1, <5>2, <1>1, <1>d, <1>7, <1>12
        <5> QED BY <4>1, <5>3, <1>1, <1>d
      <4>3. c - f \in 1 .. h /\ f + (c - f) = c /\ c - f > e /\ c = (c - f) + f
        <5>1. c \in Nat
          BY <4>1
        <5>2. c > f
          BY <5>1, <4>1, <2>0, <1>12
        <5>3. c - f \in 1 .. h /\ f + (c - f) = c /\ (c - f) + f = c /\ c - f \in Nat
          BY <5>1, <5>2, <4>2, <2>0, <1>d, Offset
        <5>4. c - f > u - f
          BY <5>1, <4>1, <2>0
        <5> QED BY <5>3, <5>4
      <4>4. c - f \in K
        BY <4>1, <4>3, <1>2
      <4> QED BY <4>3, <4>4
    <3> HIDE DEF J
    <3>3. \A c \in T : c \in {i + f : i \in J}
      BY <3>2
    <3>4. \A c \in {i + f : i \in J} : c \in T
      BY <3>1
    <3> QED BY <3>3, <3>4
  <2>4. J \in SUBSET Nat /\ IsFiniteSet(J) /\ f \in Nat
    <3>1. J \in SUBSET K
      OBVIOUS
    <3> HIDE DEF J
    <3>2. IsFiniteSet(J)
      BY <3>1, <1>8, FS_Subset
    <3> QED BY <3>1, <3>2, <2>0, <1>8
  <2>5. Cardinality(T) = Cardinality(J)
    <3> HIDE DEF J
    <3>1. Cardinality({i + f : i \in J}) = Cardinality(J)
      BY <2>4, Shift
    <3> QED BY <3>1, <2>3
  <2>6. Cardinality(J) < Cardinality(K) /\ Popped(K, Cardinality(J)) = e
    <3> HIDE DEF e
    <3> QED BY <2>2, <1>8, PoppedOf
  <2>7. u - f \in 1 .. h
    BY <2>1
  <2>8. Renewed(w, f, new)[u] = new[e]
    BY <2>7, <1>3
  <2> HIDE DEF J, e
  <2> QED BY <2>5, <2>6, <2>8, <1>9 DEF T, K
<1>13. u <= f \/ f + h < u \/ (f < u /\ u <= f + h)
  BY <1>1, <1>d
<1> QED BY <1>10, <1>11, <1>12, <1>13

\* Siblings in order, the record among them: where each has its place.
Seat(n, k) == IF k <= n THEN k + 1 ELSE k + 2

Seated(s, x, n, w) ==
    /\ n \in 0 .. Len(s)
    /\ w \in Seq(Nat) /\ Len(w) = Len(s) + 2
    /\ w[1] = 0 /\ w[n + 2] = x
    /\ \A k \in 1 .. Len(s) : /\ w[Seat(n, k)] = s[k]
                              /\ k <= n => s[k] <= x
                              /\ k > n => x < s[k]
    /\ \A c, d \in DOMAIN w : c < d => w[c] <= w[d]

LEMMA SeatedIs ==
    ASSUME NEW s \in Seq(Nat), \A j, k \in DOMAIN s : j < k => s[j] <= s[k], NEW x \in Nat
    PROVE  Seated(s, x, Len(Lowers(s, x)), Whole(s, x))
<1> DEFINE N == Len(s)
           n == Len(Lowers(s, x))
           w == Whole(s, x)
           K == Low(s, x)
           H == High(s, x)
<1>0. N \in Nat /\ DOMAIN s = 1 .. N
  OBVIOUS
<1>1. \A k \in 1 .. N : s[k] \in Nat /\ Num(s[k]) = s[k]
  BY <1>0, GapAssumption DEF Num
<1>2. s \in Seq(Value)
  <2>1. \A k \in 1 .. N : s[k] \in Value
    BY <1>1 DEF Value
  <2> QED BY <2>1, <1>0, SeqDef
<1>3. /\ n = Cardinality(K) /\ n \in 0 .. N
      /\ w \in Seq(Value) /\ Len(w) = N + 2
      /\ w[1] = 0 /\ w[n + 2] = x
      /\ \A k \in 1 .. n : w[k + 1] = s[Nth(K, k)]
      /\ \A k \in 1 .. N - n : w[n + 2 + k] = s[Nth(H, k)]
  BY <1>2, WholeIs
<1>4. K = {i \in 1 .. N : s[i] <= x} /\ H = {i \in 1 .. N : s[i] > x}
  BY <1>0, <1>1 DEF Low, High
<1>5. \A j, k \in 1 .. N : j < k => s[j] <= s[k]
  BY <1>0
<1> HIDE DEF N, n, w, K, H
<1>6. K = 1 .. n
  <2>1. K \in SUBSET (1 .. N)
    BY <1>4
  <2>2. ASSUME NEW i \in K, NEW j \in 1 .. N, j < i PROVE j \in K
    <3>1. i \in 1 .. N /\ s[i] <= x /\ s[j] <= s[i] /\ s[i] \in Nat /\ s[j] \in Nat
      BY <2>2, <1>1, <1>4, <1>5
    <3>2. s[j] <= x
      <4> DEFINE a == s[i]
                 b == s[j]
      <4>1. a <= x /\ b <= a /\ a \in Nat /\ b \in Nat
        BY <3>1
      <4> HIDE DEF a, b
      <4>2. b <= x
        BY <4>1
      <4> QED BY <4>2 DEF b
    <3> QED BY <3>2, <1>4
  <2> QED BY <2>1, <2>2, <1>0, <1>3, Initial
<1>7. n \in Nat /\ n <= N
  BY <1>0, <1>3
<1>8. H = n + 1 .. N
  <2>1. ASSUME NEW i \in H PROVE i \in n + 1 .. N
    <3>1. i \in 1 .. N /\ s[i] > x /\ s[i] \in Nat
      BY <1>1, <1>4
    <3>2. i \notin K
      BY <3>1, <1>4
    <3> QED BY <3>1, <3>2, <1>0, <1>6, <1>7
  <2>2. ASSUME NEW i \in n + 1 .. N PROVE i \in H
    <3>1. i \in 1 .. N /\ i \notin 1 .. n
      BY <1>0, <1>7
    <3>2. s[i] \in Nat /\ ~(s[i] <= x)
      BY <3>1, <1>1, <1>4, <1>6
    <3> QED BY <3>1, <3>2, <1>4
  <2> QED BY <2>1, <2>2
<1>9. ASSUME NEW k \in 1 .. n
      PROVE  k \in 1 .. N /\ w[k + 1] = s[k] /\ s[k] <= x
  <2>1. k \in 1 .. N /\ k \in K
    BY <1>0, <1>6, <1>7
  <2>2. Nth(1 .. n, k) = 1 + k - 1 /\ 1 + k - 1 = k
    <3>1. 1 \in Nat /\ k \in 1 .. n - 1 + 1
      BY <1>7
    <3> QED BY <3>1, <1>7, NthInterval
  <2> QED BY <2>1, <2>2, <1>3, <1>4, <1>6
<1>10. ASSUME NEW k \in 1 .. N, k > n
       PROVE  w[k + 2] = s[k] /\ s[k] > x
  <2> DEFINE l == k - n
  <2>1. l \in 1 .. N - n /\ n + 2 + l = k + 2 /\ k \in n + 1 .. N /\ n + 1 \in Nat /\ N \in Nat
        /\ l \in 1 .. N - (n + 1) + 1 /\ n + 1 + l - 1 = k
    BY <1>0, <1>7, <1>10
  <2> HIDE DEF l
  <2>2. Nth(n + 1 .. N, l) = k
    <3>1. Nth(n + 1 .. N, l) = n + 1 + l - 1
      <4> DEFINE a == n + 1
      <4>1. a \in Nat /\ l \in 1 .. N - a + 1
        BY <2>1
      <4> HIDE DEF a
      <4>2. Nth(a .. N, l) = a + l - 1
        BY <4>1, <2>1, NthInterval
      <4> QED BY <4>2 DEF a
    <3> QED BY <3>1, <2>1
  <2>3. w[n + 2 + l] = s[Nth(H, l)]
    BY <2>1, <1>3
  <2>4. w[k + 2] = s[k]
    BY <2>1, <2>2, <2>3, <1>8
  <2>5. k \in H
    BY <2>1, <1>8
  <2> QED BY <2>4, <2>5, <1>4
<1>11. ASSUME NEW k \in 1 .. N
       PROVE  w[Seat(n, k)] = s[k] /\ (k <= n => s[k] <= x) /\ (k > n => x < s[k])
  <2>1. k \in Nat /\ s[k] \in Nat
    BY <1>1
  <2>2. CASE k <= n
    <3>1. k \in 1 .. n
      BY <2>2, <1>7
    <3> QED BY <2>1, <2>2, <3>1, <1>7, <1>9 DEF Seat
  <2>3. CASE k > n
    <3>1. w[k + 2] = s[k] /\ s[k] > x
      BY <2>3, <1>10
    <3> QED BY <3>1, <2>1, <2>3, <1>7 DEF Seat
  <2> QED BY <2>1, <2>2, <2>3, <1>7
\* What is at a place of the whole.
<1>12. ASSUME NEW c \in 1 .. N + 2
       PROVE  \/ c = 1 /\ w[c] = 0
              \/ c = n + 2 /\ w[c] = x
              \/ c - 1 \in 1 .. n /\ w[c] = s[c - 1] /\ s[c - 1] <= x
              \/ c - 2 \in n + 1 .. N /\ w[c] = s[c - 2] /\ s[c - 2] > x
  <2>1. c \in Nat /\ (c = 1 \/ c = n + 2 \/ c - 1 \in 1 .. n \/ c - 2 \in n + 1 .. N)
    BY <1>0, <1>7
  <2>2. CASE c = 1 BY <2>2, <1>3
  <2>3. CASE c = n + 2 BY <2>3, <1>3
  <2>4. CASE c - 1 \in 1 .. n
    <3> DEFINE k == c - 1
    <3>1. k \in 1 .. n /\ c = k + 1
      BY <2>1, <2>4
    <3> HIDE DEF k
    <3>2. w[c] = s[k] /\ s[k] <= x
      BY <3>1, <1>9
    <3> QED BY <3>2, <2>4 DEF k
  <2>5. CASE c - 2 \in n + 1 .. N
    <3> DEFINE k == c - 2
    <3>1. k \in 1 .. N /\ k > n /\ c = k + 2
      BY <2>1, <2>5, <1>0, <1>7
    <3> HIDE DEF k
    <3>2. w[c] = s[k] /\ s[k] > x
      BY <3>1, <1>10
    <3> QED BY <3>2, <2>5 DEF k
  <2> QED BY <2>1, <2>2, <2>3, <2>4, <2>5
<1>13. ASSUME NEW c \in 1 .. N + 2 PROVE w[c] \in Nat
  <2>1. \A k \in 1 .. N : s[k] \in Nat
    BY <1>1
  <2>2. (c - 1 \in 1 .. n => c - 1 \in 1 .. N) /\ (c - 2 \in n + 1 .. N => c - 2 \in 1 .. N)
    BY <1>0, <1>7
  <2> QED BY <2>1, <2>2, <1>12
<1>14. w \in Seq(Nat) /\ DOMAIN w = 1 .. N + 2
  <2>1. DOMAIN w = 1 .. N + 2 /\ w = [c \in 1 .. N + 2 |-> w[c]] /\ N + 2 \in Nat
    BY <1>0, <1>3
  <2> QED BY <2>1, <1>13, SeqDef
<1>15. ASSUME NEW c \in 1 .. N + 2, NEW d \in 1 .. N + 2, c < d PROVE w[c] <= w[d]
  <2>0. w[c] \in Nat /\ w[d] \in Nat /\ c \in Nat /\ d \in Nat
    BY <1>13
  <2>1. CASE c = 1 /\ w[c] = 0
    BY <2>0, <2>1
  <2>2. CASE c = n + 2 /\ w[c] = x
    <3>1. d - 2 \in n + 1 .. N /\ w[d] = s[d - 2] /\ s[d - 2] > x
      <4>1. d # 1 /\ d # n + 2 /\ ~(d - 1 \in 1 .. n)
        BY <2>0, <2>2, <1>7, <1>15
      <4> QED BY <4>1, <1>12
    <3> QED BY <2>0, <2>2, <3>1
  <2>3. CASE c - 1 \in 1 .. n /\ w[c] = s[c - 1] /\ s[c - 1] <= x
    <3>1. CASE d = n + 2 /\ w[d] = x BY <2>3, <3>1
    <3>2. CASE d - 1 \in 1 .. n /\ w[d] = s[d - 1]
      <4>1. c - 1 \in 1 .. N /\ d - 1 \in 1 .. N /\ c - 1 < d - 1
        BY <2>0, <2>3, <3>2, <1>0, <1>7, <1>15
      <4> QED BY <4>1, <2>3, <3>2, <1>5
    <3>3. CASE d - 2 \in n + 1 .. N /\ w[d] = s[d - 2] /\ s[d - 2] > x
      <4> DEFINE a == w[c]
                 b == w[d]
      <4>1. a <= x /\ b > x /\ a \in Nat /\ b \in Nat
        BY <2>0, <2>3, <3>3
      <4> HIDE DEF a, b
      <4>2. a <= b
        BY <4>1
      <4> QED BY <4>2 DEF a, b
    <3>4. d # 1
      BY <2>0, <1>15
    <3> QED BY <3>1, <3>2, <3>3, <3>4, <1>12
  <2>4. CASE c - 2 \in n + 1 .. N /\ w[c] = s[c - 2] /\ s[c - 2] > x
    <3>1. d - 2 \in n + 1 .. N /\ w[d] = s[d - 2]
      <4>1. d # 1 /\ d # n + 2 /\ ~(d - 1 \in 1 .. n)
        BY <2>0, <2>4, <1>7, <1>15
      <4> QED BY <4>1, <1>12
    <3>2. c - 2 \in 1 .. N /\ d - 2 \in 1 .. N /\ c - 2 < d - 2
      BY <2>0, <2>4, <3>1, <1>0, <1>7, <1>15
    <3> QED BY <2>4, <3>1, <3>2, <1>5
  <2> QED BY <2>1, <2>2, <2>3, <2>4, <1>12
<1> QED BY <1>3, <1>11, <1>14, <1>15 DEF Seated, N, n, w

LEMMA TakenIs ==
    ASSUME NEW s \in Seq(Nat), NEW x \in Nat, NEW n, NEW w, Seated(s, x, n, w),
           NEW k \in 1 .. Len(s)
    PROVE  Taken(s, x, k) = Cardinality(Later(w, Seat(n, k)))
<1> DEFINE N == Len(s)
           J == {j \in 1 .. N : j > k /\ s[j] = s[k]}
           T == Later(w, Seat(n, k))
<1>0. N \in Nat /\ DOMAIN s = 1 .. N
  OBVIOUS
<1>1. n \in 0 .. N /\ n \in Nat /\ n <= N /\ k \in 1 .. N /\ k \in Nat
  BY <1>0 DEF Seated
<1>2. DOMAIN w = 1 .. N + 2 /\ w[n + 2] = x /\ w[1] = 0
  <2>1. w \in Seq(Nat) /\ Len(w) = N + 2 /\ w[n + 2] = x /\ w[1] = 0
    BY DEF Seated
  <2>2. DOMAIN w = 1 .. Len(w)
    BY <2>1
  <2> QED BY <2>1, <2>2
<1>3. \A j \in 1 .. N : w[Seat(n, j)] = s[j] /\ (j <= n => s[j] <= x) /\ (j > n => x < s[j])
  BY DEF Seated
<1>4. \A j \in 1 .. N : s[j] \in Nat
  BY <1>0
<1>5. Taken(s, x, k) = Cardinality(J) + (IF s[k] = x THEN 1 ELSE 0)
  BY <1>0 DEF Taken
<1>6. T = {c \in 1 .. N + 2 : c > Seat(n, k) /\ w[c] = s[k]}
  BY <1>1, <1>2, <1>3 DEF Later
<1> HIDE DEF N, T
<1>7. J \in SUBSET Nat /\ IsFiniteSet(J)
  <2>1. J \in SUBSET (1 .. N) /\ 1 .. N \in SUBSET Nat
    OBVIOUS
  <2>2. IsFiniteSet(1 .. N)
    <3>1. 1 \in Int /\ N \in Int
      BY <1>0
    <3> QED BY <3>1, FS_Interval
  <2> HIDE DEF J
  <2> QED BY <2>1, <2>2, FS_Subset
<1>8. CASE k > n
  <2> DEFINE S == {j + 2 : j \in J}
  <2>1. S = T
    <3>1. ASSUME NEW j \in J PROVE j + 2 \in T
      <4>1. j \in 1 .. N /\ j > k /\ s[j] = s[k] /\ j \in Nat
        OBVIOUS
      <4>2. j > n /\ Seat(n, j) = j + 2 /\ Seat(n, k) = k + 2
        BY <4>1, <1>1, <1>8 DEF Seat
      <4>3. j + 2 \in 1 .. N + 2 /\ j + 2 > k + 2
        BY <4>1, <1>0, <1>1
      <4> QED BY <4>1, <4>2, <4>3, <1>3, <1>6
    <3>2. ASSUME NEW c \in T PROVE c - 2 \in J /\ c = (c - 2) + 2
      <4>1. c \in 1 .. N + 2 /\ c > Seat(n, k) /\ w[c] = s[k] /\ c \in Nat
        BY <1>6
      <4> DEFINE j == c - 2
      <4>2. j \in 1 .. N /\ j > k /\ c = j + 2 /\ j \in Nat
        BY <4>1, <1>0, <1>1, <1>8 DEF Seat
      <4> HIDE DEF j
      <4>3. Seat(n, j) = c
        BY <4>2, <1>1, <1>8 DEF Seat
      <4>4. s[j] = s[k]
        BY <4>1, <4>2, <4>3, <1>3
      <4>5. j \in J
        BY <4>2, <4>4
      <4> HIDE DEF J
      <4> QED BY <4>2, <4>5 DEF j
    <3> HIDE DEF J
    <3> QED BY <3>1, <3>2
  <2> HIDE DEF J
  <2>2. Cardinality(S) = Cardinality(J)
    BY <1>7, Shift
  <2>3. s[k] # x
    BY <1>1, <1>3, <1>4, <1>8
  <2>4. Cardinality(J) \in Nat
    BY <1>7, FS_CardinalityType
  <2> HIDE DEF S
  <2>5. Taken(s, x, k) = Cardinality(J)
    BY <2>3, <2>4, <1>5
  <2> QED BY <2>1, <2>2, <2>5 DEF T
<1>9. CASE k <= n
  <2> DEFINE S == {j + 1 : j \in J}
             P == IF s[k] = x THEN S \cup {n + 2} ELSE S
  <2>0. Seat(n, k) = k + 1 /\ s[k] <= x /\ s[k] \in Nat
    BY <1>1, <1>3, <1>4, <1>9 DEF Seat
  <2>9. ASSUME NEW j \in J PROVE j <= n /\ j \in Nat /\ j > k /\ s[j] = s[k] /\ j \in 1 .. N
    <3>1. j \in 1 .. N /\ j > k /\ s[j] = s[k] /\ j \in Nat
      OBVIOUS
    <3>2. ~(j > n)
      <4> DEFINE a == s[k]
      <4>1. a <= x /\ a \in Nat /\ s[j] = a
        BY <2>0, <3>1
      <4> HIDE DEF a
      <4>2. ~(x < a)
        BY <4>1
      <4> QED BY <3>1, <4>1, <4>2, <1>3
    <3> QED BY <3>1, <3>2, <1>1
  <2>1. P = T
    <3>1. ASSUME NEW j \in J PROVE j + 1 \in T
      <4>1. j \in 1 .. N /\ j > k /\ s[j] = s[k] /\ j \in Nat /\ j <= n
        BY <2>9
      <4>2. Seat(n, j) = j + 1
        BY <4>1, <1>1 DEF Seat
      <4>3. j + 1 \in 1 .. N + 2 /\ j + 1 > k + 1
        BY <4>1, <1>0, <1>1
      <4> QED BY <4>1, <4>2, <4>3, <2>0, <1>3, <1>6
    <3>2. ASSUME s[k] = x PROVE n + 2 \in T
      <4>1. n + 2 \in 1 .. N + 2 /\ n + 2 > k + 1
        BY <1>0, <1>1, <1>9
      <4> QED BY <3>2, <4>1, <2>0, <1>2, <1>6
    <3>3. ASSUME NEW c \in T PROVE \/ c - 1 \in J /\ c = (c - 1) + 1
                                   \/ c = n + 2 /\ s[k] = x
      <4>1. c \in 1 .. N + 2 /\ c > k + 1 /\ w[c] = s[k] /\ c \in Nat
        BY <2>0, <1>6
      <4>2. CASE c <= n + 1
        <5> DEFINE j == c - 1
        <5>1. j \in 1 .. N /\ j > k /\ c = j + 1 /\ j \in Nat /\ j <= n
          BY <4>1, <4>2, <1>0, <1>1
        <5> HIDE DEF j
        <5>2. Seat(n, j) = c
          BY <5>1, <1>1 DEF Seat
        <5>3. s[j] = s[k]
          BY <4>1, <5>1, <5>2, <1>3
        <5>4. j \in J
          BY <5>1, <5>3
        <5> HIDE DEF J
        <5>5. c - 1 \in J /\ c = (c - 1) + 1
          BY <5>1, <5>4 DEF j
        <5> QED BY <5>5
      <4>3. CASE c = n + 2
        BY <4>1, <4>3, <1>2
      <4>4. CASE c > n + 2
        <5> DEFINE j == c - 2
                   a == s[k]
        <5>1. j \in 1 .. N /\ c = j + 2 /\ j \in Nat /\ j > n
          BY <4>1, <4>4, <1>0, <1>1
        <5> HIDE DEF j
        <5>2. Seat(n, j) = c
          BY <5>1, <1>1 DEF Seat
        <5>3. s[j] = a /\ x < s[j]
          BY <4>1, <5>1, <5>2, <1>3
        <5>4. a <= x /\ a \in Nat
          BY <2>0
        <5> HIDE DEF a
        <5> QED BY <5>3, <5>4
      <4> QED BY <4>1, <4>2, <4>3, <4>4, <1>1
    <3> HIDE DEF J
    <3>4. ASSUME NEW c \in P PROVE c \in T
      BY <3>1, <3>2
    <3>5. ASSUME NEW c \in T PROVE c \in P
      BY <3>3
    <3> QED BY <3>4, <3>5
  <2>2. n + 2 \notin S
    <3> SUFFICES ASSUME NEW j \in J, n + 2 = j + 1 PROVE FALSE
      OBVIOUS
    <3>1. j <= n /\ j \in Nat
      BY <2>9
    <3> QED BY <3>1, <1>1
  <2> HIDE DEF J
  <2>3. IsFiniteSet(S) /\ Cardinality(S) = Cardinality(J)
    BY <1>7, Shift
  <2>4. Cardinality(J) \in Nat
    BY <1>7, FS_CardinalityType
  <2> HIDE DEF S
  <2>5. Cardinality(S \cup {n + 2}) = Cardinality(S) + 1
    BY <2>2, <2>3, FS_AddElement
  <2>6. CASE s[k] = x
    BY <2>1, <2>3, <2>5, <2>6, <1>5 DEF T
  <2>7. CASE s[k] # x
    BY <2>1, <2>3, <2>4, <2>7, <1>5 DEF T
  <2> QED BY <2>6, <2>7
<1> QED BY <1>1, <1>8, <1>9

\* Where the record and its siblings are after the insertion.
LEMMA Aligned ==
    ASSUME NEW s \in Seq(Nat), NEW x \in Nat, NEW n, NEW w, Seated(s, x, n, w),
           NEW f \in 1 .. n + 2, NEW h \in Nat, f + h <= Len(w), n + 2 <= f + h,
           DOMAIN News(s, x) = 1 .. h,
           h >= 1 /\ f + h + 1 <= Len(w) => w[f + h] < w[f + h + 1],
           \A i \in 1 .. h : Row(s, x)[i + 1] = w[f + i]
    PROVE  LET r == InsertToPositionables(s, x)
               v == Renewed(w, f, News(s, x))
           IN  /\ r.pos = v[n + 2]
               /\ \A k \in DOMAIN s : After(s, r)[k] = v[Seat(n, k)]
<1> DEFINE N == Len(s)
           r == InsertToPositionables(s, x)
           new == News(s, x)
           v == Renewed(w, f, new)
<1>0. N \in Nat /\ DOMAIN s = 1 .. N
  OBVIOUS
<1>1. n \in 0 .. N /\ n \in Nat /\ n <= N
  BY <1>0 DEF Seated
<1>2. w \in Seq(Nat) /\ DOMAIN w = 1 .. N + 2 /\ w[n + 2] = x
  <2>1. w \in Seq(Nat) /\ Len(w) = N + 2 /\ w[n + 2] = x
    BY DEF Seated
  <2>2. DOMAIN w = 1 .. Len(w)
    BY <2>1
  <2> QED BY <2>1, <2>2
<1>3. \A k \in 1 .. N : w[Seat(n, k)] = s[k] /\ (k <= n => s[k] <= x) /\ (k > n => x < s[k])
  BY DEF Seated
<1>4. \A c, d \in DOMAIN w : c < d => w[c] <= w[d]
  BY DEF Seated
<1>5. f \in DOMAIN w /\ n + 2 \in DOMAIN w
  BY <1>0, <1>1, <1>2
<1>6. \A y : Under1(s, x, y) = {i \in 1 .. h : w[f + i] = y}
  BY DEF Under1, Entries
<1> HIDE DEF N, r, new, v
<1>7. ASSUME NEW u \in DOMAIN w
      PROVE  v[u] = IF Cardinality(Later(w, u)) < Cardinality(Under1(s, x, w[u]))
                    THEN new[Popped(Under1(s, x, w[u]), Cardinality(Later(w, u)))]
                    ELSE w[u]
  <2>1. Under1(s, x, w[u]) = Ties(w, f, h, u) /\ DOMAIN new = 1 .. h
    BY <1>6 DEF new, Ties
  <2>2. Moving(w, f, h, new)
    BY <2>1, <1>2, <1>4, <1>5 DEF Moving
  <2>4. Renewed(w, f, new)[u] =
                IF Cardinality(Later(w, u)) < Cardinality(Ties(w, f, h, u))
                THEN new[Popped(Ties(w, f, h, u), Cardinality(Later(w, u)))]
                ELSE w[u]
    BY <2>2, Popping
  <2> QED BY <2>1, <2>4 DEF v
<1>8. \A y : Under1(s, x, y) \in SUBSET (1 .. h) /\ IsFiniteSet(Under1(s, x, y))
  <2>1. IsFiniteSet(1 .. h)
    BY FS_Interval
  <2>2. \A y : Under1(s, x, y) \in SUBSET (1 .. h)
    BY <1>6
  <2> QED BY <2>1, <2>2, FS_Subset
<1>9. r.pos = v[n + 2]
  <2>1. Later(w, n + 2) = {}
    <3> SUFFICES ASSUME NEW c \in Later(w, n + 2) PROVE FALSE
      OBVIOUS
    <3>1. c \in 1 .. N + 2 /\ c > n + 2 /\ w[c] = x /\ c \in Nat
      BY <1>2 DEF Later
    <3> DEFINE k == c - 2
    <3>2. k \in 1 .. N /\ k > n /\ c = k + 2 /\ k \in Nat
      BY <3>1, <1>0, <1>1
    <3> HIDE DEF k
    <3>3. Seat(n, k) = c
      BY <3>2, <1>1 DEF Seat
    <3>4. x < x
      BY <3>1, <3>2, <3>3, <1>3
    <3> QED BY <3>4
  <2>2. Cardinality(Later(w, n + 2)) = 0
    BY <2>1, FS_EmptySet
  <2> DEFINE K == Under1(s, x, x)
  <2>3. v[n + 2] = IF 0 < Cardinality(K) THEN new[Popped(K, 0)] ELSE x
    BY <2>2, <1>2, <1>5, <1>7
  <2>4. IsFiniteSet(K)
    BY <1>8
  <2>5. r.pos = IF K = {} THEN x ELSE new[Popped(K, 0)]
    BY InsertIs DEF r, new
  <2> HIDE DEF K
  <2>6. Cardinality(K) \in Nat /\ (Cardinality(K) = 0 <=> K = {})
    BY <2>4, FS_CardinalityType, FS_EmptySet
  <2> QED BY <2>3, <2>5, <2>6
<1>10. ASSUME NEW k \in DOMAIN s PROVE After(s, r)[k] = v[Seat(n, k)]
  <2>0. k \in 1 .. N /\ (Seat(n, k) = k + 1 \/ Seat(n, k) = k + 2)
    BY <1>0 DEF Seat
  <2>1. k \in 1 .. N /\ Seat(n, k) \in DOMAIN w
    <3>1. k \in Nat /\ 1 <= k /\ k <= N
      BY <2>0, <1>0
    <3>2. Seat(n, k) \in 1 .. N + 2
      BY ONLY <3>1, <2>0, <1>0
    <3> QED BY <3>2, <2>0, <1>2
  <2>2. Taken(s, x, k) = Cardinality(Later(w, Seat(n, k))) /\ w[Seat(n, k)] = s[k]
    BY <2>1, <1>3, TakenIs DEF N
  <2>3. v[Seat(n, k)] = IF Taken(s, x, k) < Cardinality(Under1(s, x, s[k]))
                        THEN new[Popped(Under1(s, x, s[k]), Taken(s, x, k))]
                        ELSE s[k]
    BY <2>1, <2>2, <1>7
  <2>4. /\ k \in DOMAIN r.moved <=> Taken(s, x, k) < Cardinality(Under1(s, x, s[k]))
        /\ k \in DOMAIN r.moved => r.moved[k] = new[Popped(Under1(s, x, s[k]), Taken(s, x, k))]
    BY InsertIs DEF r, new
  <2>5. After(s, r)[k] = IF k \in DOMAIN r.moved THEN r.moved[k] ELSE s[k]
    BY DEF After
  <2> QED BY <2>3, <2>4, <2>5
<1> QED BY <1>9, <1>10 DEF r, v, new

\* The insertion into siblings in order, for all positions and inputs: the
\* record lands between those it was put between and none is reordered
\* (LandsBetween); moreover those that were MinGap apart stay so.
LEMMA Insertion ==
    ASSUME NEW s \in Seq(Nat), \A j, k \in DOMAIN s : j < k => s[j] <= s[k], NEW x \in Nat,
           \A k \in DOMAIN s : s[k] <= MaxPosition,
           Gap * (Len(s) + 1) <= MaxPosition
    PROVE  LET r == InsertToPositionables(s, x)
               a == After(s, r)
           IN  /\ LandsBetween(s, x)
               /\ \A k \in DOMAIN s : a[k] \in 0 .. MaxPosition
               /\ \A j, k \in DOMAIN s : j < k /\ s[j] + MinGap <= s[k] => a[j] + MinGap <= a[k]
<1> DEFINE N == Len(s)
           n == Len(Lowers(s, x))
           w == Whole(s, x)
           q == Row(s, x)
           new == News(s, x)
           r == InsertToPositionables(s, x)
           a == After(s, r)
<1>0. N \in Nat /\ DOMAIN s = 1 .. N
  OBVIOUS
<1>1. \A k \in 1 .. N : s[k] \in Nat /\ Num(s[k]) = s[k] /\ s[k] <= MaxPosition
  BY <1>0, GapAssumption DEF Num
<1>2. s \in Seq(Value) /\ \A k \in DOMAIN s : Num(s[k]) <= MaxPosition
  <2>1. \A k \in 1 .. N : s[k] \in Value
    BY <1>1 DEF Value
  <2>2. s \in Seq(Value)
    BY <2>1, <1>0, SeqDef
  <2> QED BY <2>2, <1>0, <1>1
<1>3. PICK f \in 1 .. n + 2 :
                 /\ q \in Seq(Value) /\ Len(q) = N + 3 - f
                 /\ \A i \in 1 .. Len(q) : q[i] = w[f + i - 1]
                 /\ Pushed(q, new)
                 /\ \A i \in 1 .. n + 2 - f : i \in DOMAIN new
                 /\ f = 1 \/ Num(w[f]) - MinGap >= Num(w[f - 1])
  BY <1>2, RowIs
<1>4. /\ r.pos \in 0 .. MaxPosition
      /\ DOMAIN r.moved \in SUBSET DOMAIN s
      /\ \A k \in DOMAIN r.moved : r.moved[k] \in 0 .. MaxPosition
  BY <1>2, InsertInRange
<1>5. Seated(s, x, n, w)
  BY SeatedIs
<1> HIDE DEF n, w, q, new, r
<1>6. \A k \in DOMAIN s : a[k] \in 0 .. MaxPosition
  <2> SUFFICES ASSUME NEW k \in DOMAIN s PROVE a[k] \in 0 .. MaxPosition
    OBVIOUS
  <2>1. s[k] \in 0 .. MaxPosition
    <3>1. s[k] \in Nat /\ s[k] <= MaxPosition /\ MaxPosition \in Nat
      BY <1>0, <1>1, GapAssumption
    <3> QED BY <3>1
  <2>2. a[k] = IF k \in DOMAIN r.moved THEN r.moved[k] ELSE s[k]
    BY DEF After
  <2> QED BY <2>1, <2>2, <1>4
<1> HIDE DEF a, N
<1>7. n \in 0 .. N /\ n \in Nat /\ n <= N
  <2>1. n \in 0 .. N
    BY <1>5 DEF Seated, N
  <2> QED BY <2>1, <1>0
<1>8. /\ w \in Seq(Nat) /\ Len(w) = N + 2 /\ DOMAIN w = 1 .. N + 2
      /\ w[n + 2] = x /\ \A c \in 1 .. N + 2 : w[c] \in Nat /\ Num(w[c]) = w[c]
  <2>1. w \in Seq(Nat) /\ Len(w) = N + 2 /\ w[n + 2] = x
    BY <1>5 DEF Seated, N
  <2>2. DOMAIN w = 1 .. N + 2
    BY <2>1
  <2>3. \A c \in 1 .. N + 2 : w[c] \in Nat
    BY <2>1, <2>2
  <2> QED BY <2>1, <2>2, <2>3, GapAssumption DEF Num
<1>9. \A k \in 1 .. N : w[Seat(n, k)] = s[k] /\ (k <= n => s[k] <= x) /\ (k > n => x < s[k])
  BY <1>5 DEF Seated, N
<1>10. \A c, d \in DOMAIN w : c < d => w[c] <= w[d]
  BY <1>5 DEF Seated
<1>11. f \in Nat /\ f >= 1 /\ f <= n + 2 /\ Len(q) \in Nat /\ Len(q) = N + 3 - f
  BY <1>0, <1>3, <1>7
<1>12. PICK h \in 0 .. Len(q) - 1 :
          /\ DOMAIN new = 1 .. h
          /\ h >= 1 /\ h + 2 <= Len(q) => Num(q[h + 1]) < Num(q[h + 2])
  BY <1>3 DEF Pushed
<1>13. h \in Nat /\ f + h <= N + 2 /\ n + 2 <= f + h
  <2>1. h \in Nat /\ f + h <= N + 2
    BY <1>0, <1>11, <1>12
  <2>2. CASE n + 2 - f < 1 BY <2>1, <2>2, <1>7, <1>11
  <2>3. CASE n + 2 - f >= 1
    <3> DEFINE m == n + 2 - f
    <3>1. m \in 1 .. n + 2 - f
      BY <2>3, <1>7, <1>11
    <3>2. m \in 1 .. h
      BY <3>1, <1>3, <1>12
    <3>3. m <= h
      BY <3>2, <2>1
    <3> QED BY <3>3, <2>1, <1>7, <1>11
  <2> QED BY <2>1, <2>2, <2>3, <1>7, <1>11
<1>14. \A i \in 1 .. Len(q) : q[i] = w[f + i - 1] /\ f + i - 1 \in 1 .. N + 2
  <2> SUFFICES ASSUME NEW i \in 1 .. Len(q) PROVE f + i - 1 \in 1 .. N + 2
    BY <1>3
  <2>1. i \in Nat /\ i >= 1 /\ i <= N + 3 - f
    BY <1>11
  <2> QED BY ONLY <2>1, <1>0, <1>11
<1>15. h >= 1 /\ f + h + 1 <= N + 2 => w[f + h] < w[f + h + 1]
  <2> SUFFICES ASSUME h >= 1, f + h + 1 <= N + 2 PROVE w[f + h] < w[f + h + 1]
    OBVIOUS
  <2>1. h + 1 \in 1 .. Len(q) /\ h + 2 \in 1 .. Len(q) /\ h + 2 <= Len(q)
    BY <1>0, <1>11, <1>13
  <2>2. f + (h + 1) - 1 = f + h /\ f + (h + 2) - 1 = f + h + 1
    BY <1>11, <1>13
  <2>3. q[h + 1] = w[f + h] /\ f + h \in 1 .. N + 2
    BY <2>1, <2>2, <1>14
  <2>4. q[h + 2] = w[f + h + 1] /\ f + h + 1 \in 1 .. N + 2
    BY <2>1, <2>2, <1>14
  <2>5. Num(q[h + 1]) < Num(q[h + 2])
    BY <2>1, <1>12
  <2> QED BY <2>3, <2>4, <2>5, <1>8
<1>16. \A i \in 1 .. h : q[i + 1] = w[f + i]
  <2> SUFFICES ASSUME NEW i \in 1 .. h PROVE q[i + 1] = w[f + i]
    OBVIOUS
  <2>1. i + 1 \in 1 .. Len(q) /\ f + (i + 1) - 1 = f + i
    BY <1>0, <1>11, <1>13
  <2>2. q[i + 1] = w[f + (i + 1) - 1]
    BY <2>1, <1>14
  <2> QED BY <2>1, <2>2
<1> DEFINE v == Renewed(w, f, new)
<1>17. r.pos = v[n + 2] /\ \A k \in DOMAIN s : a[k] = v[Seat(n, k)]
  <2>1. f + h <= Len(w) /\ (h >= 1 /\ f + h + 1 <= Len(w) => w[f + h] < w[f + h + 1])
    BY <1>8, <1>13, <1>15
  <2>2. DOMAIN News(s, x) = 1 .. h /\ \A i \in 1 .. h : Row(s, x)[i + 1] = w[f + i]
    BY <1>12, <1>16 DEF new, q
  <2>3. n + 2 <= f + h /\ f \in 1 .. n + 2 /\ h \in Nat /\ f + h <= Len(w)
    BY <2>1, <1>13
  <2> HIDE DEF v
  <2>4. LET r0 == InsertToPositionables(s, x)
            v0 == Renewed(w, f, News(s, x))
        IN  /\ r0.pos = v0[n + 2]
            /\ \A k \in DOMAIN s : After(s, r0)[k] = v0[Seat(n, k)]
    BY <2>1, <2>2, <2>3, <1>5, Aligned
  <2> QED BY <2>4 DEF r, a, v, new
<1>18. /\ DOMAIN v = DOMAIN w /\ \A u \in DOMAIN w : v[u] \in Nat
       /\ \A c, d \in DOMAIN w : c < d /\ w[c] + MinGap <= w[d] => v[c] + MinGap <= v[d]
       /\ \A c, d \in DOMAIN w : c < d /\ w[c] < w[d] => v[c] < v[d]
       /\ \A c \in DOMAIN w : c < n + 2 => v[c] + MinGap <= v[n + 2]
       /\ \A d \in DOMAIN w : n + 2 < d => v[n + 2] + MinGap <= v[d]
  <2> DEFINE m == n + 2
  <2>1. m \in DOMAIN w /\ f \in 1 .. m
    BY <1>0, <1>7, <1>8, <1>11
  <2>2. /\ q \in Seq(Value) /\ Len(q) = Len(w) + 1 - f
        /\ \A i \in 1 .. Len(q) : q[i] = w[f + i - 1]
        /\ Pushed(q, new)
        /\ \A i \in 1 .. m - f : i \in DOMAIN new
    <3>1. Len(q) = Len(w) + 1 - f
      BY <1>0, <1>7, <1>8, <1>11
    <3>2. m - f = n + 2 - f
      BY <1>7, <1>11
    <3>3. \A i \in 1 .. m - f : i \in DOMAIN new
      BY <3>2, <1>3
    <3> HIDE DEF m
    <3> QED BY <3>1, <3>3, <1>3
  <2>3. f = m /\ f > 1 => w[f] - MinGap >= w[f - 1]
    <3>1. f > 1 => f \in 1 .. N + 2 /\ f - 1 \in 1 .. N + 2
      BY <1>0, <1>7, <1>11
    <3>2. f > 1 => Num(w[f]) = w[f] /\ Num(w[f - 1]) = w[f - 1]
      BY <3>1, <1>8
    <3>3. f > 1 => Num(w[f]) - MinGap >= Num(w[f - 1])
      BY <1>3, <1>11
    <3> QED BY <3>2, <3>3
  <2>4. w \in Seq(Nat)
    BY <1>8
  <2> HIDE DEF m, v
  <2>5. SpreadOut(w, m, Renewed(w, f, new))
    <3>1. PushedFrom(w, m, f, q, new)
      BY <2>1, <2>2, <2>3, <2>4, <1>10 DEF PushedFrom
    <3>2. q \in Seq(Value)
      BY <1>3
    <3> QED BY <3>1, <3>2, Spread
  <2> QED BY <2>5 DEF SpreadOut, v, m
<1> HIDE DEF v
<1>19. \A k \in 1 .. N : Seat(n, k) \in DOMAIN w
  <2> SUFFICES ASSUME NEW k \in 1 .. N PROVE Seat(n, k) \in 1 .. N + 2
    BY <1>8
  <2>1. Seat(n, k) = k + 1 \/ Seat(n, k) = k + 2
    BY DEF Seat
  <2> QED BY ONLY <2>1, <1>0, k \in 1 .. N
<1>20. \A j, k \in 1 .. N : j < k => Seat(n, j) < Seat(n, k)
  BY <1>7 DEF Seat
<1>21. ASSUME NEW j \in DOMAIN s, NEW k \in DOMAIN s, j < k
       PROVE  /\ s[j] + MinGap <= s[k] => a[j] + MinGap <= a[k]
              /\ s[j] < s[k] => a[j] < a[k]
  <2>1. /\ j \in 1 .. N /\ k \in 1 .. N
        /\ w[Seat(n, j)] = s[j] /\ w[Seat(n, k)] = s[k]
        /\ a[j] = v[Seat(n, j)] /\ a[k] = v[Seat(n, k)]
        /\ Seat(n, j) \in DOMAIN w /\ Seat(n, k) \in DOMAIN w /\ Seat(n, j) < Seat(n, k)
    BY <1>0, <1>9, <1>17, <1>19, <1>20, <1>21
  <2> QED BY ONLY <2>1, <1>18
<1>22. ASSUME NEW k \in DOMAIN s
       PROVE  IF s[k] <= x THEN a[k] + MinGap <= r.pos ELSE r.pos + MinGap <= a[k]
  <2>1. k \in 1 .. N /\ k \in Nat /\ a[k] = v[Seat(n, k)] /\ Seat(n, k) \in DOMAIN w /\ s[k] \in Nat
    BY <1>0, <1>1, <1>17, <1>19
  <2>2. CASE k <= n
    <3>1. Seat(n, k) < n + 2 /\ s[k] <= x
      BY <2>1, <2>2, <1>7, <1>9 DEF Seat
    <3>2. v[Seat(n, k)] + MinGap <= v[n + 2]
      BY ONLY <3>1, <2>1, <1>18
    <3> QED BY <3>1, <3>2, <2>1, <1>17
  <2>3. CASE ~(k <= n)
    <3>1. Seat(n, k) > n + 2 /\ x < s[k]
      BY <2>1, <2>3, <1>7, <1>9 DEF Seat
    <3>2. v[n + 2] + MinGap <= v[Seat(n, k)]
      BY ONLY <3>1, <2>1, <1>18, <1>7, <1>0, <1>8
    <3>3. ~(s[k] <= x)
      BY <3>1, <2>1
    <3> QED BY <3>2, <3>3, <2>1, <1>17
  <2> QED BY <2>2, <2>3
<1>23. MinGap <= r.pos /\ r.pos <= MaxPosition
  <2>1. 1 \in DOMAIN w /\ 1 < n + 2
    BY <1>0, <1>7, <1>8
  <2>2. v[1] \in Nat /\ v[1] + MinGap <= v[n + 2]
    BY <2>1, <1>18
  <2>3. r.pos \in Nat /\ r.pos <= MaxPosition
    BY <1>4, GapAssumption
  <2> QED BY <2>2, <2>3, <1>17, GapAssumption
<1>24. LandsBetween(s, x)
  BY <1>21, <1>22, <1>23 DEF LandsBetween, r, a
<1> QED BY <1>6, <1>21, <1>24 DEF r, a

-----------------------------------------------------------------------------
(* Types                                                                   *)

Positional == 0 .. MaxPosition
Placed  == [parent : Parent \cup {None}, pos : Positional \cup {None}]
Write   == [item : Item, pos : Positional]
Pending == [ step : {"read", "land", "sort"}, item : Item \cup {None}, among : Parent,
             to : Parent \cup {None}, pos : Nat \cup {None}, moves : Seq(Write) ]

\* No sibling is written twice by a request.
Distinct(moves) == \A m, n \in DOMAIN moves : moves[m].item = moves[n].item => m = n

\* What a request under way may look like.
Sound(r) ==
    /\ r \in Pending
    /\ r.to \in {None, r.among}
    /\ Distinct(r.moves)
    /\ r.step = "sort" => r.item = None /\ r.pos = None
    /\ r.step # "sort" => r.item \in Item
    /\ r.step = "read" => r.pos \in Nat /\ r.moves = <<>>
    /\ r.step = "land" => r.pos \in Positional \cup {None} /\ (r.pos = None => r.moves = <<>>)

TypeOK ==
    /\ kind \in Kind
    /\ place \in [Item -> Placed]
    /\ plan \in [Proc -> Pending \cup {Idle}]
    /\ \A p \in Proc : plan[p] # Idle => Sound(plan[p])
    /\ \A p \in Proc : plan[p] # Idle => plan[p].item \in asked \cup {None}
    /\ asked \subseteq Item /\ loose \subseteq Parent \cup {None} /\ shuffled \subseteq Parent
    /\ served \in Nat

LEMMA NotIdle ==
    ASSUME NEW p \in Proc, plan[p].step \in {"read", "land", "sort"}
    PROVE  plan[p] # Idle
BY DEF Idle

\* The siblings of a parent, each once, in their order.
LEMMA SiblingsAre ==
    ASSUME TypeOK, NEW L \in Parent, NEW but
    PROVE  LET S == Below(L) \ but
               s == Siblings(L, but)
           IN  /\ Cardinality(S) \in Nat /\ Cardinality(S) <= Cardinality(Item)
               /\ DOMAIN s = 1 .. Cardinality(S) /\ s \in Seq(Item) /\ Len(s) = Cardinality(S)
               /\ \A k \in DOMAIN s : s[k] \in S
               /\ \A j, k \in DOMAIN s : s[j] = s[k] => j = k
               /\ \A i \in S : \E k \in DOMAIN s : s[k] = i
               /\ \A j, k \in DOMAIN s : j < k => Before(s[j], s[k])
<1> DEFINE S == Below(L) \ but
           s == Siblings(L, but)
           C == Cardinality(S)
           R == {d \in Item \X Item : Before(d[1], d[2])}
<1>1. S \in SUBSET Item
  BY DEF Below, Present
<1>2. IsFiniteSet(S) /\ C <= Cardinality(Item)
  <2> HIDE DEF S
  <2> QED BY <1>1, PlacementAssumption, FS_Subset
<1>3. \A d, e \in Item : <<d, e>> \in R <=> Before(d, e)
  OBVIOUS
<1>4. \A i \in Item : i \in Nat /\ (place[i].pos \in Nat \/ place[i].pos = None)
  BY PlacementAssumption DEF TypeOK, Placed, Positional
<1>5. \A i \in Item : ~Before(i, i)
  <2> SUFFICES ASSUME NEW i \in Item PROVE ~Before(i, i)
    OBVIOUS
  <2>1. i \in Nat /\ (place[i].pos \in Nat \/ place[i].pos = None)
    BY <1>4
  <2> QED BY <2>1 DEF Before
<1>6. \A i, j, k \in Item : Before(i, j) /\ Before(j, k) => Before(i, k)
  <2> SUFFICES ASSUME NEW i \in Item, NEW j \in Item, NEW k \in Item, Before(i, j), Before(j, k)
               PROVE  Before(i, k)
    OBVIOUS
  <2> DEFINE a == place[i].pos
             b == place[j].pos
             c == place[k].pos
  <2>1. /\ i \in Nat /\ j \in Nat /\ k \in Nat
        /\ a \in Nat \/ a = None
        /\ b \in Nat \/ b = None
        /\ c \in Nat \/ c = None
        /\ None \notin Nat
    BY <1>4, GapAssumption
  <2>2. /\ (a # None /\ (b = None \/ a < b)) \/ (a = b /\ i < j)
        /\ (b # None /\ (c = None \/ b < c)) \/ (b = c /\ j < k)
    BY DEF Before
  <2> HIDE DEF a, b, c
  <2>3. (a # None /\ (c = None \/ a < c)) \/ (a = c /\ i < k)
    BY <2>1, <2>2
  <2> QED BY <2>3 DEF Before, a, c
<1>7. \A i, j \in Item : i # j => Before(i, j) \/ Before(j, i)
  <2> SUFFICES ASSUME NEW i \in Item, NEW j \in Item, i # j PROVE Before(i, j) \/ Before(j, i)
    OBVIOUS
  <2> DEFINE a == place[i].pos
             b == place[j].pos
  <2>1. /\ i \in Nat /\ j \in Nat
        /\ a \in Nat \/ a = None
        /\ b \in Nat \/ b = None
        /\ None \notin Nat
    BY <1>4, GapAssumption
  <2> HIDE DEF a, b
  <2>2. \/ (a # None /\ (b = None \/ a < b)) \/ (a = b /\ i < j)
        \/ (b # None /\ (a = None \/ b < a)) \/ (b = a /\ j < i)
    BY <2>1
  <2> QED BY <2>2 DEF Before, a, b
<1>8. \A e \in S : Under(S, R, e) = {j \in S : Before(j, e)}
  BY <1>1, <1>3 DEF Under
<1> HIDE DEF R, S
<1>9. /\ \A d \in S : <<d, d>> \notin R
      /\ \A c, d, e \in S : <<c, d>> \in R /\ <<d, e>> \in R => <<c, e>> \in R
      /\ \A d, e \in S : d # e => <<d, e>> \in R \/ <<e, d>> \in R
  BY <1>1, <1>3, <1>5, <1>6, <1>7
<1>10. /\ Cardinality(S) \in Nat
       /\ \A e \in S : Cardinality(Under(S, R, e)) \in 0 .. Cardinality(S) - 1
       /\ \A d, e \in S : <<d, e>> \in R <=> Cardinality(Under(S, R, d)) < Cardinality(Under(S, R, e))
       /\ \A d, e \in S : Cardinality(Under(S, R, d)) = Cardinality(Under(S, R, e)) => d = e
       /\ \A k \in 1 .. Cardinality(S) : \E e \in S : Cardinality(Under(S, R, e)) = k - 1
  BY <1>2, <1>9, Ranks
<1>11. s = [k \in 1 .. C |-> CHOOSE i \in S : Cardinality({j \in S : Before(j, i)}) = k - 1]
  BY DEF Siblings, S
<1> HIDE DEF s
<1>12. ASSUME NEW k \in 1 .. C PROVE s[k] \in S /\ Cardinality(Under(S, R, s[k])) = k - 1
  <2>1. s[k] = CHOOSE i \in S : Cardinality({j \in S : Before(j, i)}) = k - 1
    BY <1>11
  <2>2. \E e \in S : Cardinality({j \in S : Before(j, e)}) = k - 1
    BY <1>8, <1>10
  <2>3. s[k] \in S /\ Cardinality({j \in S : Before(j, s[k])}) = k - 1
    BY <2>1, <2>2
  <2> QED BY <2>3, <1>8
<1> HIDE DEF C
<1>13. C \in Nat /\ DOMAIN s = 1 .. C
  BY <1>10, <1>11 DEF C
<1>14. s \in Seq(Item) /\ Len(s) = C
  <2>1. s = [k \in 1 .. C |-> s[k]]
    <3> DEFINE e(k) == CHOOSE i \in S : Cardinality({j \in S : Before(j, i)}) = k - 1
    <3>1. s = [k \in 1 .. C |-> e(k)]
      BY <1>11
    <3> HIDE DEF e
    <3> QED BY <3>1
  <2>3. \A k \in 1 .. C : s[k] \in Item
    BY <1>1, <1>12
  <2>2. s \in Seq(Item)
    BY <2>1, <2>3, <1>13, SeqDef
  <2> QED BY <2>2, <1>13, LenProperties
<1>15. \A j, k \in 1 .. C : s[j] = s[k] => j = k
  <2> SUFFICES ASSUME NEW j \in 1 .. C, NEW k \in 1 .. C, s[j] = s[k] PROVE j = k
    OBVIOUS
  <2>1. j - 1 = k - 1
    BY <1>12
  <2> QED BY <2>1, <1>13
<1>16. \A i \in S : \E k \in 1 .. C : s[k] = i
  <2> SUFFICES ASSUME NEW i \in S PROVE \E k \in 1 .. C : s[k] = i
    OBVIOUS
  <2> DEFINE k == Cardinality(Under(S, R, i)) + 1
  <2>1. k \in 1 .. C /\ Cardinality(Under(S, R, i)) = k - 1
    BY <1>10, <1>13 DEF C
  <2> HIDE DEF k
  <2>2. s[k] = i
    BY <2>1, <1>10, <1>12
  <2> QED BY <2>1, <2>2
<1>17. \A j, k \in 1 .. C : j < k => Before(s[j], s[k])
  <2> SUFFICES ASSUME NEW j \in 1 .. C, NEW k \in 1 .. C, j < k PROVE Before(s[j], s[k])
    OBVIOUS
  <2>1. /\ s[j] \in S /\ Cardinality(Under(S, R, s[j])) = j - 1
        /\ s[k] \in S /\ Cardinality(Under(S, R, s[k])) = k - 1
    BY <1>12
  <2>2. j - 1 < k - 1
    BY <1>13
  <2>3. <<s[j], s[k]>> \in R
    BY <2>1, <2>2, <1>10
  <2> QED BY <2>1, <2>3, <1>1, <1>3
<1> QED BY <1>2, <1>12, <1>13, <1>14, <1>15, <1>16, <1>17 DEF S, s, C

\* Their positions: as many as they are, within the bounds, and in order
\* where all are numbers.
LEMMA PositionsAre ==
    ASSUME TypeOK, NEW L \in Parent, NEW but
    PROVE  LET s == Siblings(L, but)
               z == PositionsOf(s)
           IN  /\ z \in Seq(Value) /\ DOMAIN z = DOMAIN s
               /\ \A k \in DOMAIN z : z[k] = place[s[k]].pos /\ Num(z[k]) <= MaxPosition
               /\ Gap * (Len(z) + 1) <= MaxPosition
               /\ (\A i \in Below(L) \ but : place[i].pos # None) =>
                     /\ z \in Seq(Nat)
                     /\ \A k \in DOMAIN z : z[k] <= MaxPosition
                     /\ \A j, k \in DOMAIN z : j < k => z[j] <= z[k]
<1> DEFINE S == Below(L) \ but
           s == Siblings(L, but)
           z == PositionsOf(s)
           C == Cardinality(S)
<1>1. /\ C \in Nat /\ C <= Cardinality(Item)
      /\ DOMAIN s = 1 .. C /\ Len(s) = C
      /\ \A k \in DOMAIN s : s[k] \in S
      /\ \A j, k \in DOMAIN s : j < k => Before(s[j], s[k])
  BY SiblingsAre
<1>2. S \in SUBSET Item
  BY DEF Below, Present
<1>3. \A i \in Item : place[i].pos \in Positional \cup {None}
  BY DEF TypeOK, Placed
<1>4. z = [k \in 1 .. C |-> place[s[k]].pos]
  BY <1>1 DEF PositionsOf
<1> HIDE DEF S, s, z, C
<1>5. \A k \in 1 .. C : s[k] \in S /\ s[k] \in Item /\ z[k] = place[s[k]].pos /\ z[k] \in Positional \cup {None}
  BY <1>1, <1>2, <1>3, <1>4
<1>6. MaxPosition \in Nat /\ None \notin Nat
  BY GapAssumption
<1>7. z \in Seq(Value) /\ DOMAIN z = 1 .. C /\ Len(z) = C
  <2>1. z = [k \in 1 .. C |-> z[k]]
    BY <1>4
  <2>2. \A k \in 1 .. C : z[k] \in Value
    BY <1>5 DEF Positional, Value
  <2>3. z \in Seq(Value)
    BY <2>1, <2>2, <1>1, SeqDef
  <2>4. DOMAIN z = 1 .. C
    BY <1>4
  <2> QED BY <2>3, <2>4, <1>1, LenProperties
<1>8. \A k \in 1 .. C : Num(z[k]) <= MaxPosition
  BY <1>5, <1>6 DEF Num, Positional
<1>9. Gap * (Len(z) + 1) <= MaxPosition
  <2>1. Cardinality(Item) \in Nat
    BY PlacementAssumption, FS_CardinalityType
  <2>2. C + 1 \in Int /\ Cardinality(Item) + 1 \in Int /\ C + 1 <= Cardinality(Item) + 1
    BY <2>1, <1>1
  <2>3. /\ Gap * (C + 1) <= Gap * (Cardinality(Item) + 1)
        /\ Gap * (C + 1) \in Int /\ Gap * (Cardinality(Item) + 1) \in Int
    BY <2>2, Times
  <2>4. Gap * (Cardinality(Item) + 1) <= MaxPosition
    BY PlacementAssumption
  <2> DEFINE a == Gap * (C + 1)
             b == Gap * (Cardinality(Item) + 1)
  <2>5. a <= b /\ b <= MaxPosition /\ a \in Int /\ b \in Int
    BY <2>3, <2>4
  <2> HIDE DEF a, b
  <2>6. a <= MaxPosition
    BY <2>5, <1>6
  <2> QED BY <2>6, <1>7 DEF a
<1>10. ASSUME \A i \in S : place[i].pos # None
       PROVE  /\ z \in Seq(Nat)
              /\ \A k \in 1 .. C : z[k] <= MaxPosition
              /\ \A j, k \in 1 .. C : j < k => z[j] <= z[k]
  <2>1. \A k \in 1 .. C : z[k] \in Nat /\ z[k] <= MaxPosition
    BY <1>5, <1>6, <1>10 DEF Positional
  <2>2. z \in Seq(Nat)
    <3>1. z = [k \in 1 .. C |-> z[k]]
      BY <1>4
    <3> QED BY <2>1, <3>1, <1>1, SeqDef
  <2>3. ASSUME NEW j \in 1 .. C, NEW k \in 1 .. C, j < k PROVE z[j] <= z[k]
    <3>1. Before(s[j], s[k]) /\ z[j] = place[s[j]].pos /\ z[k] = place[s[k]].pos
      BY <2>3, <1>1, <1>5
    <3>2. z[j] \in Nat /\ z[k] \in Nat
      BY <2>1
    <3>3. z[j] < z[k] \/ z[j] = z[k]
      BY <3>1, <3>2, <1>6 DEF Before
    <3> QED BY <3>2, <3>3
  <2> QED BY <2>1, <2>2, <2>3
<1> QED BY <1>1, <1>5, <1>7, <1>8, <1>9, <1>10 DEF S, s, z

\* Siblings with numbers take one more record anywhere.
LEMMA InsertionsLandAlways == TypeOK => InsertionsLand
<1> SUFFICES ASSUME TypeOK, NEW L \in Parent, Finite(L),
                    \A i \in Below(L) : place[i].pos # None, NEW x \in Inputs
             PROVE  LandsBetween(PositionsOf(Siblings(L, {})), x)
  BY DEF InsertionsLand
<1> DEFINE z == PositionsOf(Siblings(L, {}))
<1>1. \A i \in Below(L) \ {} : place[i].pos # None
  OBVIOUS
<1>2. /\ z \in Seq(Nat)
      /\ \A j, k \in DOMAIN z : j < k => z[j] <= z[k]
      /\ \A k \in DOMAIN z : z[k] <= MaxPosition
      /\ Gap * (Len(z) + 1) <= MaxPosition
  BY <1>1, PositionsAre
<1>3. x \in Nat
  BY PlacementAssumption
<1> HIDE DEF z
<1>4. LandsBetween(z, x)
  BY <1>2, <1>3, Insertion
<1> QED BY <1>4 DEF z

-----------------------------------------------------------------------------
(* Type correctness                                                        *)

LEMMA TypeInit == Init => TypeOK
<1> SUFFICES ASSUME Init PROVE TypeOK
  OBVIOUS
<1>1. place \in [Item -> Placed]
  BY StartAssumption DEF Init, Placed, Positional
<1>2. \A p \in Proc : plan[p] = Idle
  BY DEF Init
<1>3. plan \in [Proc -> Pending \cup {Idle}]
  BY DEF Init
<1> QED BY <1>1, <1>2, <1>3 DEF Init, TypeOK

\* A request that is taken up.
LEMMA PlaceType ==
    ASSUME TypeOK, NEW p \in Proc, NEW i \in Item, NEW L \in Parent, NEW to \in {None, L},
           NEW x \in Nat \cup {None}, Place(p, i, L, to, x)
    PROVE  TypeOK'
<1> DEFINE r == [ step |-> IF x = None THEN "land" ELSE "read",
                  item |-> i, among |-> L, to |-> to, pos |-> x, moves |-> <<>> ]
<1>1. /\ plan' = [plan EXCEPT ![p] = r] /\ asked' = asked \cup {i} /\ served' = served + 1
      /\ kind' = kind /\ place' = place /\ loose' = loose /\ shuffled' = shuffled
  BY DEF Place
<1>2. Sound(r) /\ r.item = i
  <2>1. <<>> \in Seq(Write) /\ DOMAIN <<>> = {}
    OBVIOUS
  <2>2. r \in Pending
    BY <2>1 DEF Pending
  <2>3. Distinct(r.moves)
    BY <2>1 DEF Distinct
  <2> QED BY <2>2, <2>3, GapAssumption DEF Sound, Positional
<1> HIDE DEF r
<1>3. plan' \in [Proc -> Pending \cup {Idle}]
  BY <1>1, <1>2 DEF TypeOK, Sound
<1>4. \A q \in Proc : plan'[q] # Idle => Sound(plan'[q])
  BY <1>1, <1>2 DEF TypeOK
<1>5. \A q \in Proc : plan'[q] # Idle => plan'[q].item \in asked' \cup {None}
  BY <1>1, <1>2 DEF TypeOK
<1> QED BY <1>1, <1>3, <1>4, <1>5 DEF TypeOK

\* Every request but a sort is about one record, and places it.
LEMMA RequestIs ==
    ASSUME TypeOK, NEW p \in Proc, Request(p)
    PROVE  \/ \E L \in Parents : ListsSortOne(p, L)
           \/ \E i \in Item, L \in Parent, x \in Nat \cup {None} : \E to \in {None, L} :
                 Place(p, i, L, to, x)
<1> DEFINE Goal == \E i \in Item, L \in Parent, x \in Nat \cup {None} : \E to \in {None, L} :
                      Place(p, i, L, to, x)
<1>1. Parents \subseteq Parent /\ Inputs \subseteq Nat /\ Present \subseteq Item
  BY PlacementAssumption DEF Parents, Present
<1>2. \A i \in Present : place[i].parent \in Parent
  BY DEF Present, TypeOK, Placed
<1>3. ASSUME NEW i \in Item, NEW L \in Parent, NEW x \in Nat \cup {None}, Create(p, i, L, x)
      PROVE  Goal
  BY <1>3 DEF Create
<1>4. ASSUME NEW i \in Present, NEW x \in Nat \cup {None}, Keep(p, i, x)
      PROVE  Goal
  <2>1. Place(p, i, place[i].parent, None, x) /\ i \in Item /\ place[i].parent \in Parent
    BY <1>1, <1>2, <1>4 DEF Keep
  <2> QED BY <2>1
<1>5. ASSUME NEW i \in Present, NEW L \in Parent, NEW x \in Nat \cup {None}, Move(p, i, L, x)
      PROVE  Goal
  BY <1>1, <1>5 DEF Move
<1> HIDE DEF Goal
<1>6. CASE CreateBoard(p) \/ CreateList(p) \/ CreateLabel(p)
  BY <1>1, <1>3, <1>6 DEF CreateBoard, CreateList, CreateLabel, BoardsCreateOne, ListsCreateOne, LabelsCreateOne, Goal
<1>7. CASE CreateCard(p) \/ DuplicateCard(p)
  <2>1. PICK i \in Item, L \in Parents, x \in Inputs : CardsCreateOne(p, i, L, x) \/ CardsDuplicateOne(p, i, L, x)
    BY <1>7 DEF CreateCard, DuplicateCard
  <2>2. Create(p, i, L, IF Finite(L) THEN x ELSE None) /\ (IF Finite(L) THEN x ELSE None) \in Nat \cup {None}
    BY <2>1, <1>1 DEF CardsCreateOne, CardsDuplicateOne
  <2> QED BY <2>2, <1>1, <1>3 DEF Goal
<1>8. CASE CreateTaskList(p) \/ CreateTask(p) \/ CreateGroupInBoard(p) \/ CreateGroupInCard(p)
           \/ CreateFieldInGroup(p) \/ CreateFieldInBase(p)
  <2>1. PICK i \in Item, L \in Parents, x \in Inputs : Create(p, i, L, x)
    BY <1>8 DEF CreateTaskList, CreateTask, CreateGroupInBoard, CreateGroupInCard, CreateFieldInGroup,
       CreateFieldInBase, TaskListsCreateOne, TasksCreateOne, CustomFieldGroupsCreateOneInBoard,
       CustomFieldGroupsCreateOneInCard, CustomFieldsCreateOneInGroup, CustomFieldsCreateOneInBase
  <2> QED BY <2>1, <1>1, <1>3 DEF Goal
<1>9. CASE UpdateBoard(p) \/ UpdateLabel(p) \/ UpdateTaskList(p) \/ UpdateGroup(p) \/ UpdateField(p)
  <2>1. PICK i \in Present, x \in Inputs : Keep(p, i, x)
    BY <1>9 DEF UpdateBoard, UpdateLabel, UpdateTaskList, UpdateGroup, UpdateField, BoardsUpdateOne,
       LabelsUpdateOne, TaskListsUpdateOne, CustomFieldGroupsUpdateOneInBoard,
       CustomFieldGroupsUpdateOneInCard, CustomFieldsUpdateOneInGroup, CustomFieldsUpdateOneInBase
  <2> QED BY <2>1, <1>1, <1>4 DEF Goal
<1>10. CASE UpdateList(p) \/ UpdateTask(p) \/ UpdateCard(p)
  <2>1. PICK i \in Present, L \in Parents, x \in Nat \cup {None} : Keep(p, i, x) \/ Move(p, i, L, x)
    <3>1. CASE UpdateList(p) \/ UpdateTask(p)
      BY <3>1, <1>1 DEF UpdateList, UpdateTask, ListsUpdateOne, TasksUpdateOne
    <3>2. CASE UpdateCard(p)
      <4>1. PICK i \in Present, L \in Parents, x \in Inputs \cup {None} : CardsUpdateOne(p, i, L, x)
        BY <3>2 DEF UpdateCard
      <4> DEFINE y == IF Finite(L) THEN x ELSE None
      <4>2. y \in Nat \cup {None} /\ (Keep(p, i, y) \/ Move(p, i, L, y))
        BY <4>1, <1>1 DEF CardsUpdateOne
      <4> HIDE DEF y
      <4> QED BY <4>2
    <3> QED BY <3>1, <3>2, <1>10
  <2>2. L \in Parent
    BY <1>1
  <2> QED BY <2>1, <2>2, <1>4, <1>5 DEF Goal
<1>11. CASE SortList(p)
  BY <1>11 DEF SortList
<1> QED BY <1>6, <1>7, <1>8, <1>9, <1>10, <1>11 DEF Request, Goal

\* A one-to-one renumbering of finitely many places leaves none out.
LEMMA Onto ==
    ASSUME NEW N \in Nat, NEW g \in [1 .. N -> 1 .. N],
           \A j, k \in 1 .. N : g[j] = g[k] => j = k
    PROVE  \A k \in 1 .. N : \E j \in 1 .. N : g[j] = k
<1>1. IsFiniteSet(1 .. N)
  BY FS_Interval
<1>2. g \in Injection(1 .. N, 1 .. N)
  BY DEF Injection, IsInjective
<1>3. g \in Surjection(1 .. N, 1 .. N)
  BY <1>1, <1>2, FS_Injection
<1> QED BY <1>3 DEF Surjection

\* What a sort writes: every card of the list, no two at or near the same
\* position.
LEMMA SortIs ==
    ASSUME TypeOK, NEW p \in Proc, NEW L \in Parents, ListsSortOne(p, L)
    PROVE  \E moves \in Seq(Write) :
             /\ plan' = [plan EXCEPT ![p] =
                   [ step |-> "sort", item |-> None, among |-> L, to |-> None, pos |-> None,
                     moves |-> moves ]]
             /\ Distinct(moves)
             /\ \A i \in Below(L) : \E m \in DOMAIN moves : moves[m].item = i
             /\ \A m, n \in DOMAIN moves : m # n =>
                   moves[m].pos + MinGap <= moves[n].pos \/ moves[n].pos + MinGap <= moves[m].pos
<1> DEFINE s == Siblings(L, {})
           S == Below(L) \ {}
           C == Cardinality(S)
<1>1. L \in Parent
  BY DEF Parents
<1>2. /\ C \in Nat /\ C <= Cardinality(Item)
      /\ DOMAIN s = 1 .. C /\ s \in Seq(Item)
      /\ \A j, k \in DOMAIN s : s[j] = s[k] => j = k
      /\ \A i \in S : \E k \in DOMAIN s : s[k] = i
  BY <1>1, SiblingsAre
<1>3. S = Below(L)
  OBVIOUS
<1>4. PICK order \in [DOMAIN s -> DOMAIN s], arrival \in [DOMAIN s -> DOMAIN s] :
          /\ \A j, k \in DOMAIN s : order[j] = order[k] => j = k
          /\ \A j, k \in DOMAIN s : arrival[j] = arrival[k] => j = k
          /\ plan' = [plan EXCEPT ![p] =
                [ step |-> "sort", item |-> None, among |-> L, to |-> None, pos |-> None,
                  moves |-> [k \in DOMAIN s |->
                      [item |-> s[arrival[k]], pos |-> Gap * order[arrival[k]]]] ]]
  BY DEF ListsSortOne
<1> HIDE DEF s, S, C
<1> DEFINE moves == [k \in 1 .. C |-> [item |-> s[arrival[k]], pos |-> Gap * order[arrival[k]]]]
<1>5. /\ plan' = [plan EXCEPT ![p] =
                [ step |-> "sort", item |-> None, among |-> L, to |-> None, pos |-> None,
                  moves |-> moves ]]
      /\ order \in [1 .. C -> 1 .. C] /\ arrival \in [1 .. C -> 1 .. C]
      /\ \A j, k \in 1 .. C : order[j] = order[k] => j = k
      /\ \A j, k \in 1 .. C : arrival[j] = arrival[k] => j = k
  BY <1>2, <1>4
<1>6. ASSUME NEW k \in 1 .. C
      PROVE  /\ moves[k].item = s[arrival[k]] /\ moves[k].pos = Gap * order[arrival[k]]
             /\ moves[k] \in Write /\ arrival[k] \in 1 .. C /\ order[arrival[k]] \in 1 .. C
  <2>1. arrival[k] \in 1 .. C /\ order[arrival[k]] \in 1 .. C
    BY <1>5
  <2>2. s[arrival[k]] \in Item
    BY <2>1, <1>2
  <2> DEFINE o == order[arrival[k]]
  <2>3. o \in 1 .. C
    BY <2>1
  <2> HIDE DEF o
  <2>4. Gap * o \in Positional
    <3>1. Cardinality(Item) \in Nat
      BY PlacementAssumption, FS_CardinalityType
    <3>2. o \in Int /\ o \in Nat /\ Cardinality(Item) + 1 \in Int /\ o <= Cardinality(Item) + 1
      <4> DEFINE D == Cardinality(Item)
      <4>1. D \in Nat /\ C \in Nat /\ C <= D /\ o \in 1 .. C
        BY <2>3, <3>1, <1>2
      <4> HIDE DEF D
      <4>2. o \in Int /\ o \in Nat /\ D + 1 \in Int /\ o <= D + 1
        BY ONLY <4>1
      <4> QED BY <4>2 DEF D
    <3>3. /\ Gap * o <= Gap * (Cardinality(Item) + 1) /\ 0 <= Gap * o
          /\ Gap * o \in Int /\ Gap * (Cardinality(Item) + 1) \in Int
      BY <3>2, Times
    <3> DEFINE a == Gap * o
               b == Gap * (Cardinality(Item) + 1)
    <3>4. a <= b /\ b <= MaxPosition /\ 0 <= a /\ a \in Int /\ b \in Int /\ MaxPosition \in Nat
      BY <3>3, PlacementAssumption, GapAssumption
    <3> HIDE DEF a, b
    <3>5. a \in 0 .. MaxPosition
      BY <3>4
    <3> QED BY <3>5 DEF a, Positional
  <2> QED BY <2>1, <2>2, <2>4 DEF Write, o
<1>7. DOMAIN moves = 1 .. C
  OBVIOUS
<1>8. moves \in Seq(Write)
  <2>1. moves = [k \in 1 .. C |-> moves[k]] /\ \A k \in 1 .. C : moves[k] \in Write
    BY <1>6
  <2> HIDE DEF moves
  <2> QED BY <2>1, <1>2, SeqDef
<1> HIDE DEF moves
<1>9. Distinct(moves)
  <2> SUFFICES ASSUME NEW m \in 1 .. C, NEW n \in 1 .. C, moves[m].item = moves[n].item
               PROVE  m = n
    BY <1>7 DEF Distinct
  <2>1. s[arrival[m]] = s[arrival[n]] /\ arrival[m] \in 1 .. C /\ arrival[n] \in 1 .. C
    BY <1>6
  <2>2. arrival[m] = arrival[n]
    BY <2>1, <1>2
  <2> QED BY <2>2, <1>5
<1>10. ASSUME NEW i \in Below(L) PROVE \E m \in 1 .. C : moves[m].item = i
  <2>1. PICK k \in 1 .. C : s[k] = i
    BY <1>2, <1>3
  <2>2. \A l \in 1 .. C : \E j \in 1 .. C : arrival[j] = l
    <3>1. /\ C \in Nat /\ arrival \in [1 .. C -> 1 .. C]
          /\ \A j, k2 \in 1 .. C : arrival[j] = arrival[k2] => j = k2
      BY <1>2, <1>5
    <3> QED BY ONLY <3>1, Onto
  <2>3. PICK j \in 1 .. C : arrival[j] = k
    BY <2>2
  <2>4. moves[j].item = s[k]
    BY <2>3, <1>6
  <2> QED BY <2>1, <2>4
<1>11. ASSUME NEW m \in 1 .. C, NEW n \in 1 .. C, m # n
       PROVE  moves[m].pos + MinGap <= moves[n].pos \/ moves[n].pos + MinGap <= moves[m].pos
  <2> DEFINE a == order[arrival[m]]
             b == order[arrival[n]]
  <2>1. a # b /\ a \in 1 .. C /\ b \in 1 .. C
    BY <1>5, <1>6, <1>11
  <2>2. moves[m].pos = Gap * a /\ moves[n].pos = Gap * b
    BY <1>6
  <2> HIDE DEF a, b
  <2>3. ASSUME NEW c \in 1 .. C, NEW d \in 1 .. C, c < d
        PROVE  Gap * c + MinGap <= Gap * d
    <3>1. c \in Int /\ d \in Int /\ c + 1 \in Int /\ c + 1 <= d
      BY <2>3, <1>2
    <3>2. Gap * (c + 1) = Gap * c + Gap /\ Gap * (c + 1) <= Gap * d /\ Gap * c \in Int /\ Gap * d \in Int
      BY <3>1, Times
    <3>3. Gap \in Nat /\ MinGap \in Nat /\ MinGap <= Gap
      BY GapAssumption
    <3> QED BY <3>2, <3>3
  <2>4. a < b \/ b < a
    BY <2>1, <1>2
  <2> QED BY <2>1, <2>2, <2>3, <2>4
<1> QED BY <1>5, <1>7, <1>8, <1>9, <1>10, <1>11

\* Where the writes put record j, if now is where it is.
Target(moves, j, now) ==
    IF \E m \in DOMAIN moves : moves[m].item = j
    THEN moves[CHOOSE m \in DOMAIN moves : moves[m].item = j].pos
    ELSE now

LEMMA TargetIs ==
    ASSUME NEW moves, Distinct(moves), NEW j, NEW now
    PROVE  /\ \A m \in DOMAIN moves : moves[m].item = j => Target(moves, j, now) = moves[m].pos
           /\ (\A m \in DOMAIN moves : moves[m].item # j) => Target(moves, j, now) = now
<1>1. ASSUME NEW m \in DOMAIN moves, moves[m].item = j
      PROVE  Target(moves, j, now) = moves[m].pos
  <2> DEFINE c == CHOOSE n \in DOMAIN moves : moves[n].item = j
  <2>1. c \in DOMAIN moves /\ moves[c].item = j
    BY <1>1
  <2>2. c = m
    BY <2>1, <1>1 DEF Distinct
  <2>3. Target(moves, j, now) = moves[c].pos
    BY <1>1 DEF Target
  <2> QED BY <2>2, <2>3
<1>2. ASSUME \A m \in DOMAIN moves : moves[m].item # j PROVE Target(moves, j, now) = now
  BY <1>2 DEF Target
<1> QED BY <1>1, <1>2

\* What a request does with the siblings it reads.
Inserted(p) ==
    InsertToPositionables(PositionsOf(Siblings(plan[p].among, {plan[p].item})), plan[p].pos)

LEMMA ReadIs ==
    ASSUME TypeOK, NEW p \in Proc, ReadSiblings(p)
    PROVE  LET s == Siblings(plan[p].among, {plan[p].item})
               z == PositionsOf(s)
               r == Inserted(p)
           IN  \E moves \in Seq(Write) :
                 /\ plan' = [plan EXCEPT ![p] =
                       [plan[p] EXCEPT !.step = "land", !.pos = r.pos, !.moves = moves]]
                 /\ Distinct(moves)
                 /\ \A k \in DOMAIN s : Target(moves, s[k], place[s[k]].pos) = After(z, r)[k]
                 /\ r.pos \in Positional
<1> DEFINE L == plan[p].among
           i == plan[p].item
           s == Siblings(L, {i})
           z == PositionsOf(s)
           x == plan[p].pos
           r == Inserted(p)
           M == DOMAIN r.moved
           C == Cardinality(M)
           moves == [k \in 1 .. C |-> [item |-> s[Nth(M, k)], pos |-> r.moved[Nth(M, k)]]]
<1>1. /\ plan[p].step = "read" /\ Sound(plan[p])
      /\ plan' = [plan EXCEPT ![p] = [plan[p] EXCEPT !.step = "land", !.pos = r.pos, !.moves = moves]]
  BY NotIdle DEF ReadSiblings, TypeOK, Inserted
<1>2. L \in Parent /\ x \in Nat
  BY <1>1 DEF Sound, Pending
<1>3. /\ DOMAIN s = 1 .. Len(s) /\ s \in Seq(Item) /\ Len(s) \in Nat
      /\ \A j, k \in DOMAIN s : s[j] = s[k] => j = k
  <2> HIDE DEF L, i, z, x, r, M, C, moves
  <2>1. /\ Cardinality(Below(L) \ {i}) \in Nat
        /\ DOMAIN s = 1 .. Cardinality(Below(L) \ {i}) /\ s \in Seq(Item)
        /\ Len(s) = Cardinality(Below(L) \ {i})
        /\ \A j, k \in DOMAIN s : s[j] = s[k] => j = k
    BY <1>2, SiblingsAre
  <2> HIDE DEF s
  <2> QED BY <2>1
<1>4. /\ z \in Seq(Value) /\ DOMAIN z = DOMAIN s
      /\ \A k \in DOMAIN z : z[k] = place[s[k]].pos /\ Num(z[k]) <= MaxPosition
      /\ Gap * (Len(z) + 1) <= MaxPosition
  BY <1>2, PositionsAre
<1>5. r = InsertToPositionables(z, x)
  BY DEF Inserted
<1> HIDE DEF L, i, s, x
<1>6. r.pos \in Positional /\ M \in SUBSET DOMAIN s /\ \A k \in M : r.moved[k] \in Positional
  <2> HIDE DEF z, r
  <2> QED BY <1>2, <1>4, <1>5, InsertInRange DEF Positional
<1> HIDE DEF z, r
<1>7. M \in SUBSET Nat /\ IsFiniteSet(M)
  <2>1. IsFiniteSet(1 .. Len(s)) /\ 1 .. Len(s) \in SUBSET Nat
    <3>1. 1 \in Int /\ Len(s) \in Int
      BY <1>3
    <3> QED BY <3>1, FS_Interval
  <2> HIDE DEF M
  <2> QED BY <2>1, <1>3, <1>6, FS_Subset DEF M
<1> HIDE DEF M
<1>8. /\ C \in Nat
      /\ \A k \in 1 .. C : Nth(M, k) \in M
      /\ \A k, l \in 1 .. C : k < l => Nth(M, k) < Nth(M, l)
      /\ \A e \in M : \E k \in 1 .. C : Nth(M, k) = e
  <2>1. C \in Nat
    BY ONLY <1>7, NthOf
  <2>2. \A k \in 1 .. C : Nth(M, k) \in M
    BY ONLY <1>7, NthOf
  <2>3. \A k, l \in 1 .. C : k < l => Nth(M, k) < Nth(M, l)
    BY ONLY <1>7, NthOf
  <2>4. \A e \in M : \E k \in 1 .. C : Nth(M, k) = e
    BY ONLY <1>7, NthAll
  <2> QED BY ONLY <2>1, <2>2, <2>3, <2>4
<1> HIDE DEF C
<1>9. ASSUME NEW k \in 1 .. C
      PROVE  /\ moves[k].item = s[Nth(M, k)] /\ moves[k].pos = r.moved[Nth(M, k)]
             /\ moves[k] \in Write /\ Nth(M, k) \in M /\ Nth(M, k) \in DOMAIN s
  <2>1. Nth(M, k) \in M
    BY <1>8
  <2>2. Nth(M, k) \in DOMAIN s /\ s[Nth(M, k)] \in Item /\ r.moved[Nth(M, k)] \in Positional
    BY <2>1, <1>3, <1>6 DEF M
  <2> QED BY <2>1, <2>2 DEF Write
<1>10. DOMAIN moves = 1 .. C /\ moves = [k \in 1 .. C |-> moves[k]]
  OBVIOUS
<1> HIDE DEF moves
<1>11. moves \in Seq(Write)
  BY <1>8, <1>9, <1>10, SeqDef
<1>12. Distinct(moves)
  <2> SUFFICES ASSUME NEW m \in 1 .. C, NEW n \in 1 .. C, moves[m].item = moves[n].item
               PROVE  m = n
    BY <1>10 DEF Distinct
  <2>1. Nth(M, m) = Nth(M, n) /\ Nth(M, m) \in Nat
    BY <1>3, <1>7, <1>9
  <2>2. ~(m < n) /\ ~(n < m)
    BY <2>1, <1>8
  <2> QED BY <2>2, <1>8
<1>13. ASSUME NEW k \in DOMAIN s
       PROVE  Target(moves, s[k], place[s[k]].pos) = After(z, r)[k]
  <2>1. After(z, r)[k] = IF k \in M THEN r.moved[k] ELSE place[s[k]].pos
    BY <1>4 DEF After, M
  <2>2. CASE k \in M
    <3>1. PICK m \in 1 .. C : Nth(M, m) = k
      BY <2>2, <1>8
    <3>2. m \in DOMAIN moves /\ moves[m].item = s[k] /\ moves[m].pos = r.moved[k]
      BY <3>1, <1>9, <1>10
    <3> QED BY <2>1, <2>2, <3>2, <1>12, TargetIs
  <2>3. CASE k \notin M
    <3>1. \A m \in DOMAIN moves : moves[m].item # s[k]
      BY <2>3, <1>3, <1>9, <1>10
    <3> QED BY <2>1, <2>3, <3>1, <1>12, TargetIs
  <2> QED BY <2>2, <2>3
<1> QED BY <1>1, <1>6, <1>11, <1>12, <1>13 DEF moves, s, z, r, L, i, C, M

\* A connection whose request goes on or ends.
LEMMA PlanType ==
    ASSUME TypeOK, NEW p \in Proc, NEW r, r = Idle \/ Sound(r),
           plan' = [plan EXCEPT ![p] = r], asked \subseteq asked',
           r # Idle => r.item \in asked' \cup {None}
    PROVE  /\ plan' \in [Proc -> Pending \cup {Idle}]
           /\ \A q \in Proc : plan'[q] # Idle => Sound(plan'[q])
           /\ \A q \in Proc : plan'[q] # Idle => plan'[q].item \in asked' \cup {None}
<1>1. \A q \in Proc : plan'[q] = IF q = p THEN r ELSE plan[q]
  BY DEF TypeOK
<1>2. r \in Pending \cup {Idle}
  BY DEF Sound
<1>3. plan' \in [Proc -> Pending \cup {Idle}]
  BY <1>2 DEF TypeOK
<1>4. \A q \in Proc : plan'[q] # Idle => Sound(plan'[q])
  BY <1>1 DEF TypeOK
<1>5. \A q \in Proc : plan'[q] # Idle => plan'[q].item \in asked' \cup {None}
  BY <1>1 DEF TypeOK
<1> QED BY <1>3, <1>4, <1>5

LEMMA SortType ==
    ASSUME TypeOK, NEW p \in Proc, NEW L \in Parents, ListsSortOne(p, L)
    PROVE  TypeOK'
<1>1. PICK moves \in Seq(Write) :
         /\ plan' = [plan EXCEPT ![p] =
               [ step |-> "sort", item |-> None, among |-> L, to |-> None, pos |-> None,
                 moves |-> moves ]]
         /\ Distinct(moves)
  BY SortIs
<1> DEFINE r == [ step |-> "sort", item |-> None, among |-> L, to |-> None, pos |-> None,
                  moves |-> moves ]
<1>2. L \in Parent
  BY DEF Parents
<1>3. Sound(r) /\ r.item = None
  BY <1>1, <1>2 DEF Sound, Pending
<1>4. plan' = [plan EXCEPT ![p] = r]
  BY <1>1
<1> HIDE DEF r
<1>5. /\ kind' = kind /\ place' = place /\ asked' = asked /\ loose' = loose
      /\ shuffled' = shuffled \cup {L} /\ served' = served + 1
  BY DEF ListsSortOne
<1>6. /\ plan' \in [Proc -> Pending \cup {Idle}]
      /\ \A q \in Proc : plan'[q] # Idle => Sound(plan'[q])
      /\ \A q \in Proc : plan'[q] # Idle => plan'[q].item \in asked' \cup {None}
  BY <1>3, <1>4, <1>5, PlanType
<1> QED BY <1>2, <1>5, <1>6 DEF TypeOK

LEMMA ReadType ==
    ASSUME TypeOK, NEW p \in Proc, ReadSiblings(p)
    PROVE  TypeOK'
<1> DEFINE x == Inserted(p).pos
<1>1. PICK moves \in Seq(Write) :
         /\ plan' = [plan EXCEPT ![p] =
               [plan[p] EXCEPT !.step = "land", !.pos = x, !.moves = moves]]
         /\ Distinct(moves)
         /\ x \in Positional
  BY ReadIs
<1> HIDE DEF x
<1> DEFINE r == [plan[p] EXCEPT !.step = "land", !.pos = x, !.moves = moves]
<1>2. /\ plan[p] # Idle /\ plan[p].step = "read"
  BY NotIdle DEF ReadSiblings
<1>3. Sound(plan[p]) /\ plan[p].item \in asked \cup {None}
  BY <1>2 DEF TypeOK
<1>4. Sound(r) /\ r.item = plan[p].item
  <2>1. x \in Nat /\ x # None
    BY <1>1, GapAssumption DEF Positional
  <2>2. r \in Pending
    BY <1>1, <1>3, <2>1 DEF Sound, Pending
  <2>3. r.step = "land" /\ r.pos = x /\ r.moves = moves /\ r.item = plan[p].item /\ r.among = plan[p].among /\ r.to = plan[p].to
    BY <1>3 DEF Sound, Pending
  <2> HIDE DEF r
  <2> QED BY <1>1, <1>2, <1>3, <2>1, <2>2, <2>3 DEF Sound
<1>5. plan' = [plan EXCEPT ![p] = r]
  BY <1>1
<1> HIDE DEF r
<1>6. /\ kind' = kind /\ place' = place /\ asked' = asked /\ loose' = loose
      /\ shuffled' = shuffled /\ served' = served
  BY DEF ReadSiblings
<1>7. /\ plan' \in [Proc -> Pending \cup {Idle}]
      /\ \A q \in Proc : plan'[q] # Idle => Sound(plan'[q])
      /\ \A q \in Proc : plan'[q] # Idle => plan'[q].item \in asked' \cup {None}
  BY <1>3, <1>4, <1>5, <1>6, PlanType
<1> QED BY <1>6, <1>7 DEF TypeOK

\* The first of some writes, and those that follow.
LEMMA FirstAndRest ==
    ASSUME NEW moves \in Seq(Write), moves # <<>>, Distinct(moves)
    PROVE  /\ Head(moves) \in Write /\ Head(moves) = moves[1]
           /\ Tail(moves) \in Seq(Write) /\ Distinct(Tail(moves))
           /\ \A n \in DOMAIN Tail(moves) : Tail(moves)[n] = moves[n + 1] /\ n + 1 \in DOMAIN moves
           /\ \A n \in DOMAIN moves : n = 1 \/ n - 1 \in DOMAIN Tail(moves)
           /\ 1 \in DOMAIN moves
<1>1. Len(moves) \in Nat \ {0} /\ DOMAIN moves = 1 .. Len(moves)
  BY EmptySeq, LenProperties
<1>2. /\ Head(moves) \in Write /\ Head(moves) = moves[1] /\ Tail(moves) \in Seq(Write)
      /\ Len(Tail(moves)) = Len(moves) - 1
      /\ \A n \in 1 .. Len(moves) - 1 : Tail(moves)[n] = moves[n + 1]
  BY <1>1, HeadTailProperties
<1>3. DOMAIN Tail(moves) = 1 .. Len(moves) - 1
  BY <1>1, <1>2, LenProperties
<1> DEFINE N == Len(moves)
           t == Tail(moves)
<1>4. N \in Nat \ {0} /\ DOMAIN moves = 1 .. N /\ DOMAIN t = 1 .. N - 1
      /\ \A n \in 1 .. N - 1 : t[n] = moves[n + 1]
  BY <1>1, <1>2, <1>3
<1> HIDE DEF N, t
<1>5. /\ \A n \in 1 .. N - 1 : t[n] = moves[n + 1] /\ n + 1 \in 1 .. N
      /\ \A n \in 1 .. N : n = 1 \/ n - 1 \in 1 .. N - 1
      /\ 1 \in 1 .. N
  BY <1>4
<1>6. Distinct(t)
  <2> SUFFICES ASSUME NEW m \in 1 .. N - 1, NEW n \in 1 .. N - 1, t[m].item = t[n].item PROVE m = n
    BY <1>4 DEF Distinct
  <2>1. m + 1 \in 1 .. N /\ n + 1 \in 1 .. N /\ moves[m + 1].item = moves[n + 1].item
    BY <1>5
  <2>2. m + 1 = n + 1
    BY <2>1, <1>4 DEF Distinct
  <2> QED BY <2>2, <1>4
<1> QED BY <1>2, <1>4, <1>5, <1>6 DEF t

\* A write, as it changes the request and the records.
LEMMA MoveIs ==
    ASSUME TypeOK, NEW p \in Proc, MoveSibling(p)
    PROVE  /\ plan[p] # Idle /\ Sound(plan[p]) /\ plan[p].item \in asked \cup {None}
           /\ plan[p].moves # <<>> /\ plan[p].step \in {"land", "sort"}
           /\ \/ /\ plan' = [plan EXCEPT ![p] = Idle]
                 /\ plan[p].step = "sort" /\ Tail(plan[p].moves) = <<>>
              \/ \E r : /\ plan' = [plan EXCEPT ![p] = r] /\ Sound(r)
                        /\ r.item = plan[p].item /\ r.among = plan[p].among /\ r.step = plan[p].step
                        /\ r.pos = plan[p].pos /\ r.moves = Tail(plan[p].moves)
                        /\ plan[p].step = "sort" => r.moves # <<>>
<1>1. plan[p] # Idle /\ plan[p].moves # <<>> /\ plan[p].step \in {"land", "sort"}
  BY NotIdle DEF MoveSibling
<1>2. Sound(plan[p]) /\ plan[p].item \in asked \cup {None}
  BY <1>1 DEF TypeOK
<1> DEFINE rest == Tail(plan[p].moves)
           r == [plan[p] EXCEPT !.moves = rest]
<1>3. rest \in Seq(Write) /\ Distinct(rest)
  BY <1>1, <1>2, FirstAndRest DEF Sound, Pending
<1>4. Sound(r) /\ r.item = plan[p].item /\ r.among = plan[p].among /\ r.step = plan[p].step
      /\ r.pos = plan[p].pos /\ r.moves = rest
  <2> HIDE DEF rest
  <2>1. r \in Pending
    BY <1>2, <1>3 DEF Sound, Pending
  <2>2. r.item = plan[p].item /\ r.among = plan[p].among /\ r.step = plan[p].step
      /\ r.pos = plan[p].pos /\ r.moves = rest /\ r.to = plan[p].to
    BY <1>2 DEF Sound, Pending
  <2> HIDE DEF r
  <2> QED BY <1>1, <1>2, <1>3, <2>1, <2>2 DEF Sound
<1>5. plan' = [plan EXCEPT ![p] = IF plan[p].step = "sort" /\ rest = <<>> THEN Idle ELSE r]
  BY DEF MoveSibling
<1> HIDE DEF rest, r
<1>6. CASE plan[p].step = "sort" /\ rest = <<>>
  <2>1. plan' = [plan EXCEPT ![p] = Idle]
    BY <1>5, <1>6
  <2> QED BY <2>1, <1>1, <1>2, <1>6 DEF rest
<1>7. CASE ~(plan[p].step = "sort" /\ rest = <<>>)
  <2>1. plan' = [plan EXCEPT ![p] = r]
    BY <1>5, <1>7
  <2>2. plan[p].step = "sort" => r.moves # <<>>
    BY <1>4, <1>7
  <2> QED BY <2>1, <2>2, <1>1, <1>2, <1>4 DEF rest
<1> QED BY <1>6, <1>7

LEMMA MoveType ==
    ASSUME TypeOK, NEW p \in Proc, MoveSibling(p)
    PROVE  TypeOK'
<1>1. PICK r : /\ plan' = [plan EXCEPT ![p] = r] /\ (r = Idle \/ Sound(r))
               /\ r # Idle => r.item \in asked \cup {None}
  BY MoveIs
<1>2. kind' = kind /\ asked' = asked /\ shuffled' = shuffled /\ served' = served
  BY DEF MoveSibling
<1>8. asked \subseteq asked' /\ (r # Idle => r.item \in asked' \cup {None})
  BY <1>1, <1>2
<1>3. /\ plan' \in [Proc -> Pending \cup {Idle}]
      /\ \A q \in Proc : plan'[q] # Idle => Sound(plan'[q])
      /\ \A q \in Proc : plan'[q] # Idle => plan'[q].item \in asked' \cup {None}
  BY <1>1, <1>8, PlanType
<1>4. Sound(plan[p]) /\ plan[p].moves # <<>>
  BY MoveIs
<1>5. Head(plan[p].moves) \in Write /\ plan[p].among \in Parent
  BY <1>4, FirstAndRest DEF Sound, Pending
<1>6. place' \in [Item -> Placed]
  <2> DEFINE m == Head(plan[p].moves)
  <2>1. m.item \in Item /\ m.pos \in Positional
    BY <1>5 DEF Write
  <2>2. place' = place \/ place' = [place EXCEPT ![m.item].pos = m.pos]
    BY DEF MoveSibling
  <2> HIDE DEF m
  <2> QED BY <2>1, <2>2 DEF TypeOK, Placed
<1>7. loose' \subseteq Parent \cup {None}
  BY <1>5 DEF MoveSibling, TypeOK
<1> QED BY <1>2, <1>3, <1>6, <1>7 DEF TypeOK

LEMMA NothingType ==
    ASSUME TypeOK, NEW p \in Proc, SortNothing(p)
    PROVE  TypeOK'
<1>1. /\ kind' = kind /\ place' = place /\ asked' = asked /\ loose' = loose
      /\ shuffled' = shuffled /\ served' = served /\ plan' = [plan EXCEPT ![p] = Idle]
  BY DEF SortNothing
<1>2. /\ plan' \in [Proc -> Pending \cup {Idle}]
      /\ \A q \in Proc : plan'[q] # Idle => Sound(plan'[q])
      /\ \A q \in Proc : plan'[q] # Idle => plan'[q].item \in asked' \cup {None}
  BY <1>1, PlanType
<1> QED BY <1>1, <1>2 DEF TypeOK

\* What is written last.
Landing(p) == IF plan[p].to # None THEN plan[p].to ELSE place[plan[p].item].parent
Number(p)  == IF plan[p].pos = None /\ kind # "Card" THEN place[plan[p].item].pos ELSE plan[p].pos
Settled(p) == plan[p].pos # None /\ Landing(p) = plan[p].among

LEMMA LandIs ==
    ASSUME TypeOK, NEW p \in Proc, Land(p)
    PROVE  /\ plan[p] # Idle /\ Sound(plan[p]) /\ plan[p].item \in asked /\ plan[p].item \in Item
           /\ plan[p].step = "land" /\ plan[p].moves = <<>>
           /\ Landing(p) \in Parent \cup {None} /\ Number(p) \in Positional \cup {None}
           /\ place' = [place EXCEPT ![plan[p].item] = [parent |-> Landing(p), pos |-> Number(p)]]
           /\ loose' = loose \cup (IF Settled(p) THEN {Landing(p)} \cap BeingPlaced(p)
                                   ELSE IF Finite(Landing(p)) \/ Number(p) # None THEN {Landing(p)} ELSE {})
           /\ plan' = [plan EXCEPT ![p] = Idle]
           /\ kind' = kind /\ asked' = asked /\ shuffled' = shuffled /\ served' = served
<1>1. plan[p] # Idle /\ plan[p].step = "land" /\ plan[p].moves = <<>>
  BY NotIdle DEF Land
<1>2. Sound(plan[p]) /\ plan[p].item \in Item
  BY <1>1 DEF TypeOK, Sound
<1>3. plan[p].item \in asked
  <2>1. plan[p].item \in asked \cup {None}
    BY <1>1 DEF TypeOK
  <2> QED BY <2>1, <1>2, PlacementAssumption, GapAssumption
<1>4. place[plan[p].item] \in Placed
  BY <1>2 DEF TypeOK
<1>5. Landing(p) \in Parent \cup {None} /\ Number(p) \in Positional \cup {None}
  BY <1>1, <1>2, <1>4 DEF Landing, Number, Placed, Sound, Pending
<1>6. /\ place' = [place EXCEPT ![plan[p].item] = [parent |-> Landing(p), pos |-> Number(p)]]
      /\ plan' = [plan EXCEPT ![p] = Idle]
      /\ kind' = kind /\ asked' = asked /\ shuffled' = shuffled /\ served' = served
  BY DEF Land, Landing, Number
<1>7. loose' = loose \cup (IF Settled(p) THEN {Landing(p)} \cap BeingPlaced(p)
                           ELSE IF Finite(Landing(p)) \/ Number(p) # None THEN {Landing(p)} ELSE {})
  BY DEF Land, Landing, Number, Settled
<1> QED BY <1>1, <1>2, <1>3, <1>5, <1>6, <1>7

LEMMA LandType ==
    ASSUME TypeOK, NEW p \in Proc, Land(p)
    PROVE  TypeOK'
<1>1. /\ plan[p].item \in Item
      /\ Landing(p) \in Parent \cup {None} /\ Number(p) \in Positional \cup {None}
      /\ place' = [place EXCEPT ![plan[p].item] = [parent |-> Landing(p), pos |-> Number(p)]]
      /\ loose' \subseteq loose \cup {Landing(p)}
      /\ plan' = [plan EXCEPT ![p] = Idle]
      /\ kind' = kind /\ asked' = asked /\ shuffled' = shuffled /\ served' = served
  BY LandIs
<1>2. /\ plan' \in [Proc -> Pending \cup {Idle}]
      /\ \A q \in Proc : plan'[q] # Idle => Sound(plan'[q])
      /\ \A q \in Proc : plan'[q] # Idle => plan'[q].item \in asked' \cup {None}
  BY <1>1, PlanType
<1>3. place' \in [Item -> Placed]
  BY <1>1 DEF TypeOK, Placed
<1>4. loose' \subseteq Parent \cup {None}
  BY <1>1 DEF TypeOK
<1> QED BY <1>1, <1>2, <1>3, <1>4 DEF TypeOK

LEMMA TypeStep == TypeOK /\ [Next]_vars => TypeOK'
<1> SUFFICES ASSUME TypeOK, [Next]_vars PROVE TypeOK'
  OBVIOUS
<1>1. ASSUME NEW p \in Proc, Request(p) PROVE TypeOK'
  BY <1>1, RequestIs, PlaceType, SortType
<1>2. ASSUME NEW p \in Proc, ReadSiblings(p) PROVE TypeOK'
  BY <1>2, ReadType
<1>3. ASSUME NEW p \in Proc, MoveSibling(p) PROVE TypeOK'
  BY <1>3, MoveType
<1>4. ASSUME NEW p \in Proc, SortNothing(p) PROVE TypeOK'
  BY <1>4, NothingType
<1>5. ASSUME NEW p \in Proc, Land(p) PROVE TypeOK'
  BY <1>5, LandType
<1>6. CASE UNCHANGED vars
  BY <1>6 DEF vars, TypeOK, Finite
<1> QED BY <1>1, <1>2, <1>3, <1>4, <1>5, <1>6 DEF Next

\* Positions and plans have their types.
THEOREM TypeCorrect == Spec => []TypeOK
BY TypeInit, TypeStep, PTL DEF Spec

\* Whatever requests crossed, the siblings take one more record anywhere.
THEOREM RoomForOneMore == Spec => []InsertionsLand
BY TypeCorrect, InsertionsLandAlways, PTL

-----------------------------------------------------------------------------
(* Room: what a request that has read its siblings still owes them         *)

\* Request p places a record among the children of L, which it has read.
Placing(p, L) ==
    /\ plan[p] # Idle /\ plan[p].step # "read"
    /\ plan[p].pos # None \/ plan[p].moves # <<>>
    /\ plan[p].among = L

Newcomers(L) == {plan[p].item : p \in {q \in Proc : Placing(q, L)}}

\* Where record j is when p has written all it is to write.
Future(p, j) == Target(plan[p].moves, j, place[j].pos)

\* Nobody but p has siblings of L to write.
Alone(p, L) == \A q \in Proc \ {p} : Placing(q, L) => plan[q].moves = <<>>

Still(L, i, j) == i \notin asked /\ j \notin asked /\ L \notin shuffled
Clear(a, b) == a + MinGap <= b \/ b + MinGap <= a
Spaced(still, a, b) == Clear(a, b) /\ (still => a + MinGap <= b)

Numbered(L) == \A i \in Below(L) : place[i].pos # None
Ordered(L) ==
    (\A p \in Proc : ~Placing(p, L)) =>
       \A i, j \in Below(L) : i < j => Spaced(Still(L, i, j), place[i].pos, place[j].pos)
Promised(p, L) ==
    Placing(p, L) /\ Alone(p, L) =>
       /\ \A i, j \in Below(L) \ Newcomers(L) :
             i < j => Spaced(Still(L, i, j), Future(p, i), Future(p, j))
       /\ plan[p].step = "land" =>
             \A i \in Below(L) \ Newcomers(L) : Clear(plan[p].pos, Future(p, i))

Roomy(L) == Numbered(L) /\ Ordered(L) /\ \A p \in Proc : Promised(p, L)

Room == \A L \in Parent \ loose : Finite(L) => Roomy(L)

\* A parent that a step takes children from at most.
LEMMA Undisturbed ==
    ASSUME TypeOK, NEW L, Roomy(L),
           Below(L)' \subseteq Below(L), \A i \in Below(L)' : place'[i].pos = place[i].pos,
           \A q \in Proc : Placing(q, L)' <=> Placing(q, L),
           \A q \in Proc : Placing(q, L) => plan'[q] = plan[q],
           asked \subseteq asked', shuffled \subseteq shuffled'
    PROVE  Roomy(L)'
<1>1. Numbered(L)'
  BY DEF Roomy, Numbered
<1>2. \A i, j : Still(L, i, j)' => Still(L, i, j)
  BY DEF Still
<1>3. Newcomers(L)' = Newcomers(L)
  BY DEF Newcomers
<1>4. \A p \in Proc : Alone(p, L)' => Alone(p, L)
  BY DEF Alone
<1>5. Ordered(L)'
  <2> SUFFICES ASSUME \A p \in Proc : ~Placing(p, L)', NEW i \in Below(L)', NEW j \in Below(L)', i < j
               PROVE  Spaced(Still(L, i, j)', place'[i].pos, place'[j].pos)
    BY DEF Ordered
  <2>1. Spaced(Still(L, i, j), place[i].pos, place[j].pos)
    BY DEF Roomy, Ordered
  <2> QED BY <2>1, <1>2 DEF Spaced
<1>6. ASSUME NEW p \in Proc PROVE Promised(p, L)'
  <2> SUFFICES ASSUME Placing(p, L)', Alone(p, L)' PROVE Promised(p, L)'
    BY DEF Promised
  <2>1. Placing(p, L) /\ Alone(p, L) /\ plan'[p] = plan[p] /\ Promised(p, L)
    BY <1>4 DEF Roomy
  <2>2. \A i \in Below(L)' : Future(p, i)' = Future(p, i)
    BY <2>1 DEF Future
  <2>3. ASSUME NEW i \in Below(L)' \ Newcomers(L)', NEW j \in Below(L)' \ Newcomers(L)', i < j
        PROVE  Spaced(Still(L, i, j)', Future(p, i)', Future(p, j)')
    <3>1. Spaced(Still(L, i, j), Future(p, i), Future(p, j))
      BY <2>1, <2>3, <1>3 DEF Promised
    <3> QED BY <3>1, <2>2, <1>2 DEF Spaced
  <2>4. ASSUME plan'[p].step = "land", NEW i \in Below(L)' \ Newcomers(L)'
        PROVE  Clear(plan'[p].pos, Future(p, i)')
    <3>1. Clear(plan[p].pos, Future(p, i))
      BY <2>1, <2>4, <1>3 DEF Promised
    <3> QED BY <3>1, <2>1, <2>2
  <2> QED BY <2>3, <2>4 DEF Promised
<1> QED BY <1>1, <1>5, <1>6 DEF Roomy

LEMMA RoomInit == Init => Room
<1> SUFFICES ASSUME Init, NEW L \in Parent, Finite(L) PROVE Roomy(L)
  BY DEF Room
<1>1. place \in Starts /\ \A p \in Proc : ~Placing(p, L)
  BY DEF Init, Placing
<1>2. \A i \in Below(L) : i \in Item /\ place[i].parent = L /\ L \in Parent \ Endless
  BY DEF Below, Present, Finite
<1>3. Numbered(L)
  BY <1>1, <1>2, StartAssumption DEF Numbered
<1>4. Ordered(L)
  <2> SUFFICES ASSUME NEW i \in Below(L), NEW j \in Below(L), i < j
               PROVE  Spaced(Still(L, i, j), place[i].pos, place[j].pos)
    BY DEF Ordered
  <2>1. place[i].pos + MinGap <= place[j].pos
    BY <1>1, <1>2, StartAssumption
  <2> QED BY <2>1 DEF Spaced, Clear
<1> QED BY <1>1, <1>3, <1>4 DEF Roomy, Promised

\* A request that is taken up places nothing yet.
LEMMA PlaceRoom ==
    ASSUME TypeOK, Room, NEW p \in Proc, NEW i \in Item, NEW K \in Parent, NEW to \in {None, K},
           NEW x \in Nat \cup {None}, Place(p, i, K, to, x)
    PROVE  Room'
<1> SUFFICES ASSUME NEW L \in Parent \ loose, Finite(L) PROVE Roomy(L)'
  BY DEF Room, Place, Finite
<1> DEFINE r == [ step |-> IF x = None THEN "land" ELSE "read",
                  item |-> i, among |-> K, to |-> to, pos |-> x, moves |-> <<>> ]
<1>1. /\ plan' = [plan EXCEPT ![p] = r] /\ asked' = asked \cup {i} /\ plan[p] = Idle
      /\ place' = place /\ shuffled' = shuffled
  BY DEF Place, Free
<1>2. \A q \in Proc : plan'[q] = IF q = p THEN r ELSE plan[q]
  BY <1>1 DEF TypeOK
<1>3. r.step = "read" \/ (r.pos = None /\ r.moves = <<>>)
  OBVIOUS
<1> HIDE DEF r
<1>4. ~Placing(p, L) /\ ~Placing(p, L)'
  BY <1>1, <1>2, <1>3 DEF Placing
<1>5. \A q \in Proc : q # p => plan'[q] = plan[q] /\ (Placing(q, L)' <=> Placing(q, L))
  BY <1>2 DEF Placing
<1>6. Below(L)' = Below(L)
  BY <1>1 DEF Below, Present
<1> QED BY <1>1, <1>4, <1>5, <1>6, Undisturbed DEF Room

LEMMA NothingRoom ==
    ASSUME TypeOK, Room, NEW p \in Proc, SortNothing(p)
    PROVE  Room'
<1> SUFFICES ASSUME NEW L \in Parent \ loose, Finite(L) PROVE Roomy(L)'
  BY DEF Room, SortNothing, Finite
<1>1. /\ plan' = [plan EXCEPT ![p] = Idle] /\ place' = place /\ asked' = asked /\ shuffled' = shuffled
      /\ plan[p].step = "sort" /\ plan[p].moves = <<>>
  BY DEF SortNothing
<1>2. plan[p] # Idle /\ plan[p].pos = None
  BY <1>1, NotIdle DEF TypeOK, Sound
<1>3. \A q \in Proc : plan'[q] = IF q = p THEN Idle ELSE plan[q]
  BY <1>1 DEF TypeOK
<1>4. ~Placing(p, L) /\ ~Placing(p, L)'
  BY <1>1, <1>2, <1>3 DEF Placing
<1>5. \A q \in Proc : q # p => plan'[q] = plan[q] /\ (Placing(q, L)' <=> Placing(q, L))
  BY <1>3 DEF Placing
<1>6. Below(L)' = Below(L)
  BY <1>1 DEF Below, Present
<1> QED BY <1>1, <1>4, <1>5, <1>6, Undisturbed DEF Room

\* A sort is going to leave all the cards of the list apart.
LEMMA SortRoom ==
    ASSUME TypeOK, Room, NEW p \in Proc, NEW K \in Parents, ListsSortOne(p, K)
    PROVE  Room'
<1> SUFFICES ASSUME NEW L \in Parent \ loose, Finite(L) PROVE Roomy(L)'
  BY DEF Room, ListsSortOne, Finite
<1>1. PICK moves \in Seq(Write) :
         /\ plan' = [plan EXCEPT ![p] =
               [ step |-> "sort", item |-> None, among |-> K, to |-> None, pos |-> None,
                 moves |-> moves ]]
         /\ Distinct(moves)
         /\ \A i \in Below(K) : \E m \in DOMAIN moves : moves[m].item = i
         /\ \A m, n \in DOMAIN moves : m # n =>
               moves[m].pos + MinGap <= moves[n].pos \/ moves[n].pos + MinGap <= moves[m].pos
  BY SortIs
<1> DEFINE r == [ step |-> "sort", item |-> None, among |-> K, to |-> None, pos |-> None,
                  moves |-> moves ]
<1>2. /\ plan[p] = Idle /\ place' = place /\ asked' = asked /\ shuffled' = shuffled \cup {K}
  BY DEF ListsSortOne, Free
<1>3. \A q \in Proc : plan'[q] = IF q = p THEN r ELSE plan[q]
  BY <1>1 DEF TypeOK
<1>4. r # Idle /\ r.step = "sort" /\ r.pos = None /\ r.moves = moves /\ r.among = K
  BY DEF Idle
<1> HIDE DEF r
<1>5. ~Placing(p, L)
  BY <1>2 DEF Placing
<1>6. \A q \in Proc : q # p => plan'[q] = plan[q] /\ (Placing(q, L)' <=> Placing(q, L))
  BY <1>3 DEF Placing
<1>7. Below(L)' = Below(L)
  BY <1>2 DEF Below, Present
<1>8. Placing(p, L)' <=> (moves # <<>> /\ K = L)
  BY <1>3, <1>4 DEF Placing
<1>9. CASE K # L
  BY <1>2, <1>5, <1>6, <1>7, <1>8, <1>9, Undisturbed DEF Room
<1>10. CASE K = L
  <2>1. Numbered(L)'
    BY <1>2, <1>7 DEF Room, Roomy, Numbered
  <2>2. Ordered(L)'
    <3> SUFFICES ASSUME ~Placing(p, L)' PROVE Below(L)' = {}
      BY DEF Ordered
    <3>1. moves = <<>>
      BY <1>8, <1>10
    <3>2. DOMAIN moves = {}
      BY <3>1
    <3> QED BY <3>2, <1>1, <1>7, <1>10
  <2>3. ASSUME NEW q \in Proc, Placing(q, L)', Alone(q, L)' PROVE Promised(q, L)'
    <3>1. CASE q # p
      <4>1. Placing(p, L)' => moves = <<>>
        BY <2>3, <3>1, <1>3, <1>4 DEF Alone
      <4>2. DOMAIN moves = {}
        BY <4>1, <1>8, <1>10
      <4>3. Below(L)' = {}
        BY <4>2, <1>1, <1>7, <1>10
      <4> QED BY <4>3 DEF Promised
    <3>2. CASE q = p
      <4>1. plan'[p].step # "land"
        BY <1>3, <1>4
      <4>2. ASSUME NEW i \in Below(L)', NEW j \in Below(L)', i < j
            PROVE  Spaced(Still(L, i, j)', Future(p, i)', Future(p, j)')
        <5>1. ~Still(L, i, j)'
          BY <1>2, <1>10 DEF Still
        <5>2. PICK m \in DOMAIN moves : moves[m].item = i
          BY <1>1, <1>7, <1>10
        <5>3. PICK n \in DOMAIN moves : moves[n].item = j
          BY <1>1, <1>7, <1>10
        <5>4. m # n
          <6>1. i \in Nat
            BY PlacementAssumption DEF Below, Present
          <6> QED BY <6>1, <4>2, <5>2, <5>3
        <5>5. Future(p, i)' = moves[m].pos /\ Future(p, j)' = moves[n].pos
          BY <1>1, <1>3, <1>4, <5>2, <5>3, TargetIs DEF Future
        <5>6. Clear(moves[m].pos, moves[n].pos)
          BY <1>1, <5>4 DEF Clear
        <5> QED BY <5>1, <5>5, <5>6 DEF Spaced
      <4> QED BY <3>2, <4>1, <4>2 DEF Promised
    <3> QED BY <3>1, <3>2
  <2>4. \A q \in Proc : Promised(q, L)'
    BY <2>3 DEF Promised
  <2> QED BY <2>1, <2>2, <2>4 DEF Roomy
<1> QED BY <1>9, <1>10

\* A request that has read its siblings leaves them apart, and itself room.
LEMMA ReadRoom ==
    ASSUME TypeOK, Room, NEW p \in Proc, ReadSiblings(p)
    PROVE  Room'
<1> SUFFICES ASSUME NEW L \in Parent \ loose, Finite(L) PROVE Roomy(L)'
  BY DEF Room, ReadSiblings, Finite
<1> DEFINE K == plan[p].among
           e == plan[p].item
           s == Siblings(K, {e})
           z == PositionsOf(s)
           x == plan[p].pos
           c == Inserted(p)
           a == After(z, c)
<1>1. PICK moves \in Seq(Write) :
         /\ plan' = [plan EXCEPT ![p] = [plan[p] EXCEPT !.step = "land", !.pos = c.pos, !.moves = moves]]
         /\ Distinct(moves)
         /\ \A k \in DOMAIN s : Target(moves, s[k], place[s[k]].pos) = a[k]
         /\ c.pos \in Positional
  BY ReadIs
<1>2. /\ plan[p].step = "read" /\ plan[p] # Idle /\ Sound(plan[p])
      /\ place' = place /\ asked' = asked /\ shuffled' = shuffled
  BY NotIdle DEF ReadSiblings, TypeOK
<1>3. K \in Parent /\ x \in Nat
  BY <1>2 DEF Sound, Pending
<1>4. c = InsertToPositionables(z, x)
  BY DEF Inserted
<1> HIDE DEF c
<1> DEFINE r == [plan[p] EXCEPT !.step = "land", !.pos = c.pos, !.moves = moves]
<1>5. \A q \in Proc : plan'[q] = IF q = p THEN r ELSE plan[q]
  BY <1>1 DEF TypeOK
<1>6. /\ r # Idle /\ r.step = "land" /\ r.pos = c.pos /\ r.pos # None
      /\ r.moves = moves /\ r.among = K /\ r.item = e
  <2>1. r.step = "land" /\ r.pos = c.pos /\ r.moves = moves /\ r.among = K /\ r.item = e
    BY <1>2 DEF Sound, Pending
  <2>2. c.pos # None
    BY <1>1, GapAssumption DEF Positional
  <2> HIDE DEF r
  <2> QED BY <2>1, <2>2 DEF Idle
<1> HIDE DEF r
<1>7. ~Placing(p, L)
  BY <1>2 DEF Placing
<1>8. \A q \in Proc : q # p => plan'[q] = plan[q] /\ (Placing(q, L)' <=> Placing(q, L))
  BY <1>5 DEF Placing
<1>9. Below(L)' = Below(L)
  BY <1>2 DEF Below, Present
<1>10. Placing(p, L)' <=> K = L
  BY <1>5, <1>6 DEF Placing
<1>11. Roomy(L)
  BY DEF Room
<1>12. CASE K # L
  BY <1>2, <1>7, <1>8, <1>9, <1>10, <1>11, <1>12, Undisturbed
<1>13. CASE K = L
  <2>1. Numbered(L)'
    BY <1>2, <1>9, <1>11 DEF Roomy, Numbered
  <2>2. Ordered(L)'
    BY <1>10, <1>13 DEF Ordered
  <2>3. /\ Newcomers(L) \subseteq Newcomers(L)' /\ e \in Newcomers(L)'
    <3>1. \A q \in Proc : Placing(q, L) => Placing(q, L)' /\ plan'[q].item = plan[q].item
      BY <1>7, <1>8
    <3>2. Placing(p, L)' /\ plan'[p].item = e
      BY <1>5, <1>6, <1>10, <1>13
    <3> QED BY <3>1, <3>2 DEF Newcomers
  <2>4. ASSUME NEW q \in Proc, q # p, Placing(q, L)', Alone(q, L)' PROVE Promised(q, L)'
    <3>1. Placing(q, L) /\ plan'[q] = plan[q]
      BY <2>4, <1>8
    <3>2. Alone(q, L)
      BY <2>4, <1>7, <1>8 DEF Alone
    <3>3. Promised(q, L)
      BY <1>11 DEF Roomy
    <3>4. \A i : Future(q, i)' = Future(q, i)
      BY <3>1, <1>2 DEF Future
    <3>5. \A i, j : Still(L, i, j)' = Still(L, i, j)
      BY <1>2 DEF Still
    <3>6. Below(L)' \ Newcomers(L)' \subseteq Below(L) \ Newcomers(L)
      BY <2>3, <1>9
    <3> QED BY <3>1, <3>2, <3>3, <3>4, <3>5, <3>6 DEF Promised
  <2>5. ASSUME Alone(p, L)' PROVE Promised(p, L)'
    <3> DEFINE S == Below(L) \ {e}
    <3>1. ASSUME NEW i \in Below(L) \ Newcomers(L), NEW j \in Below(L) \ Newcomers(L), i < j
          PROVE  Spaced(Still(L, i, j), place[i].pos, place[j].pos)
      <4>1. CASE \A q \in Proc : ~Placing(q, L)
        BY <4>1, <3>1, <1>11 DEF Roomy, Ordered
      <4>2. ASSUME NEW q \in Proc, Placing(q, L)
            PROVE  Spaced(Still(L, i, j), place[i].pos, place[j].pos)
        <5>1. q # p
          BY <4>2, <1>7
        <5>2. Alone(q, L) /\ plan[q].moves = <<>>
          BY <4>2, <5>1, <2>5, <1>7, <1>8 DEF Alone
        <5>3. \A n : Future(q, n) = place[n].pos
          BY <5>2 DEF Future, Target
        <5>4. Promised(q, L)
          BY <1>11 DEF Roomy
        <5>5. Spaced(Still(L, i, j), Future(q, i), Future(q, j))
          BY <4>2, <5>2, <5>4, <3>1 DEF Promised
        <5> QED BY <5>3, <5>5
      <4> QED BY <4>1, <4>2
    <3>2. /\ \A k \in DOMAIN s : s[k] \in S
          /\ \A i \in S : \E k \in DOMAIN s : s[k] = i
      <4> HIDE DEF S, z, x, a
      <4>1. /\ \A k \in DOMAIN s : s[k] \in Below(K) \ {e}
            /\ \A i \in Below(K) \ {e} : \E k \in DOMAIN s : s[k] = i
        <5> HIDE DEF K, e
        <5> QED BY <1>3, SiblingsAre
      <4>2. S = Below(K) \ {e}
        BY <1>13 DEF S
      <4> HIDE DEF s
      <4> QED BY <4>1, <4>2
    <3>3. /\ z \in Seq(Nat) /\ DOMAIN z = DOMAIN s
          /\ \A k \in DOMAIN z : z[k] = place[s[k]].pos
          /\ \A k \in DOMAIN z : z[k] <= MaxPosition
          /\ \A j, k \in DOMAIN z : j < k => z[j] <= z[k]
          /\ Gap * (Len(z) + 1) <= MaxPosition
      <4>1. \A i \in Below(K) \ {e} : place[i].pos # None
        BY <1>11, <1>13 DEF Roomy, Numbered
      <4>2. /\ z \in Seq(Value) /\ DOMAIN z = DOMAIN s
            /\ \A k \in DOMAIN z : z[k] = place[s[k]].pos
            /\ Gap * (Len(z) + 1) <= MaxPosition
        <5> HIDE DEF a, x, S, K, e
        <5> QED BY <1>3, PositionsAre
      <4>3. /\ z \in Seq(Nat)
            /\ \A k \in DOMAIN z : z[k] <= MaxPosition
            /\ \A j, k \in DOMAIN z : j < k => z[j] <= z[k]
        <5> HIDE DEF a, x, S, K, e
        <5> QED BY <4>1, <1>3, PositionsAre
      <4> QED BY ONLY <4>2, <4>3
    <3> HIDE DEF z, x
    <3>4. /\ LandsBetween(z, x)
          /\ \A k \in DOMAIN z : a[k] \in 0 .. MaxPosition
          /\ \A j, k \in DOMAIN z : j < k /\ z[j] + MinGap <= z[k] => a[j] + MinGap <= a[k]
      BY <3>3, <1>3, <1>4, Insertion
    <3>5. \A k \in DOMAIN z : Clear(c.pos, a[k])
      BY <3>4, <1>4 DEF LandsBetween, Clear
    <3> HIDE DEF a, s
    <3>6. ASSUME NEW i \in S
          PROVE  \E k \in DOMAIN z : s[k] = i /\ z[k] = place[i].pos /\ Future(p, i)' = a[k]
      <4>1. PICK k \in DOMAIN s : s[k] = i
        BY <3>2
      <4>2. Future(p, i)' = Target(moves, i, place[i].pos)
        BY <1>2, <1>5, <1>6 DEF Future
      <4>3. Target(moves, i, place[i].pos) = a[k]
        BY <4>1, <1>1 DEF a, s
      <4> QED BY <4>1, <4>2, <4>3, <3>3
    <3>7. Below(L)' \ Newcomers(L)' \subseteq (Below(L) \ Newcomers(L)) \cap S
      BY <2>3, <1>9
    <3>8. \A i, j : Still(L, i, j)' = Still(L, i, j)
      BY <1>2 DEF Still
    <3>9. DOMAIN z \subseteq Nat
      <4>1. DOMAIN z = 1 .. Len(z)
        BY <3>3, LenProperties
      <4> QED BY <4>1
    <3>10. \A k \in DOMAIN z : z[k] \in Nat
      BY <3>3, ElementOfSeq, LenProperties
    <3>11. ASSUME NEW j \in DOMAIN z, NEW k \in DOMAIN z, z[j] + MinGap <= z[k]
           PROVE  a[j] + MinGap <= a[k]
      <4>1. j < k
        <5>1. MinGap \in Nat \ {0} /\ z[j] \in Nat /\ z[k] \in Nat /\ j \in Nat /\ k \in Nat
          BY <3>9, <3>10, GapAssumption
        <5>2. ~(k < j) /\ k # j
          BY <5>1, <3>3, <3>11
        <5> QED BY <5>1, <5>2
      <4> QED BY <4>1, <3>4, <3>11
    <3>12. ASSUME NEW i \in Below(L)' \ Newcomers(L)', NEW j \in Below(L)' \ Newcomers(L)', i < j
           PROVE  Spaced(Still(L, i, j)', Future(p, i)', Future(p, j)')
      <4>1. Spaced(Still(L, i, j), place[i].pos, place[j].pos)
        BY <3>1, <3>7, <3>12
      <4>2. PICK k \in DOMAIN z : z[k] = place[i].pos /\ Future(p, i)' = a[k]
        BY <3>6, <3>7
      <4>3. PICK l \in DOMAIN z : z[l] = place[j].pos /\ Future(p, j)' = a[l]
        BY <3>6, <3>7
      <4> QED BY <4>1, <4>2, <4>3, <3>8, <3>11 DEF Spaced, Clear
    <3>13. ASSUME NEW i \in Below(L)' \ Newcomers(L)'
           PROVE  Clear(plan'[p].pos, Future(p, i)')
      <4>1. PICK k \in DOMAIN z : Future(p, i)' = a[k]
        BY <3>6, <3>7
      <4> QED BY <4>1, <3>5, <1>5, <1>6
    <3> QED BY <3>12, <3>13 DEF Promised
  <2>6. \A q \in Proc : Promised(q, L)'
    BY <2>4, <2>5 DEF Promised
  <2> QED BY <2>1, <2>2, <2>6 DEF Roomy
<1> QED BY <1>12, <1>13

\* A placement that meets no other in its parent is the only one there.
LEMMA OneOf ==
    ASSUME NEW p \in Proc, NEW L, L \notin BeingPlaced(p)
    PROVE  \A q \in Proc : q # p => ~Placing(q, L)
BY DEF BeingPlaced, Placing

\* Writing the first of some writes brings no record elsewhere in the end.
LEMMA TargetRest ==
    ASSUME NEW moves \in Seq(Write), moves # <<>>, Distinct(moves), NEW j, NEW now
    PROVE  Target(Tail(moves), j, IF j = Head(moves).item THEN Head(moves).pos ELSE now)
               = Target(moves, j, now)
<1> DEFINE t == Tail(moves)
           m == Head(moves)
           here == IF j = m.item THEN m.pos ELSE now
<1>1. /\ m = moves[1] /\ 1 \in DOMAIN moves
      /\ t \in Seq(Write) /\ Distinct(t)
      /\ \A n \in DOMAIN t : t[n] = moves[n + 1] /\ n + 1 \in DOMAIN moves
      /\ \A n \in DOMAIN moves : n = 1 \/ n - 1 \in DOMAIN t
  BY FirstAndRest
<1>2. DOMAIN t \subseteq Nat \ {0} /\ DOMAIN moves \subseteq Nat
  <2>1. DOMAIN t = 1 .. Len(t) /\ DOMAIN moves = 1 .. Len(moves) /\ Len(t) \in Nat /\ Len(moves) \in Nat
    BY <1>1, LenProperties
  <2> HIDE DEF t
  <2> QED BY <2>1
<1> HIDE DEF t, m
<1>3. CASE j = m.item
  <2>1. Target(moves, j, now) = m.pos
    BY <1>1, <1>3, TargetIs
  <2>2. \A n \in DOMAIN t : t[n].item # j
    <3> SUFFICES ASSUME NEW n \in DOMAIN t, t[n].item = j PROVE FALSE
      OBVIOUS
    <3>1. n + 1 \in DOMAIN moves /\ moves[n + 1].item = moves[1].item
      BY <1>1, <1>3
    <3>2. n + 1 = 1
      BY <3>1, <1>1 DEF Distinct
    <3> QED BY <3>2, <1>2
  <2>3. Target(t, j, here) = here
    BY <2>2, <1>1, TargetIs
  <2> QED BY <2>1, <2>3, <1>3 DEF t, m
<1>4. CASE j # m.item
  <2>1. here = now
    BY <1>4
  <2>2. CASE \E n \in DOMAIN t : t[n].item = j
    <3>1. PICK n \in DOMAIN t : t[n].item = j
      BY <2>2
    <3>2. n + 1 \in DOMAIN moves /\ moves[n + 1] = t[n]
      BY <1>1
    <3>3. Target(t, j, here) = t[n].pos
      BY <3>1, <1>1, TargetIs
    <3>4. Target(moves, j, now) = moves[n + 1].pos
      BY <3>1, <3>2, <1>1, TargetIs
    <3> QED BY <3>2, <3>3, <3>4 DEF t, m
  <2>3. CASE \A n \in DOMAIN t : t[n].item # j
    <3>1. \A n \in DOMAIN moves : moves[n].item # j
      <4> SUFFICES ASSUME NEW n \in DOMAIN moves PROVE moves[n].item # j
        OBVIOUS
      <4>1. CASE n = 1
        BY <4>1, <1>1, <1>4
      <4>2. CASE n # 1
        <5>1. n - 1 \in DOMAIN t
          BY <4>2, <1>1
        <5>2. n - 1 + 1 = n
          BY <1>2
        <5>3. t[n - 1] = moves[n - 1 + 1]
          BY <5>1, <1>1
        <5> QED BY <5>1, <5>2, <5>3, <2>3
      <4> QED BY <4>1, <4>2
    <3>2. Target(moves, j, now) = now
      BY <3>1, TargetIs
    <3>3. Target(t, j, here) = here
      BY <2>3, <1>1, TargetIs
    <3> QED BY <2>1, <3>2, <3>3 DEF t, m
  <2> QED BY <2>2, <2>3
<1> QED BY <1>3, <1>4

\* A write that makes room, while no other request places a record there.
LEMMA MoveRoom ==
    ASSUME TypeOK, Room, NEW p \in Proc, MoveSibling(p)
    PROVE  Room'
<1> DEFINE K == plan[p].among
           moves == plan[p].moves
           m == Head(moves)
<1>1. /\ plan[p] # Idle /\ Sound(plan[p]) /\ moves # <<>> /\ plan[p].step \in {"land", "sort"}
  BY MoveIs
<1>2. moves \in Seq(Write) /\ Distinct(moves) /\ K \in Parent
  BY <1>1 DEF Sound, Pending
<1>3. /\ place' = IF Hits(m, K) THEN [place EXCEPT ![m.item].pos = m.pos] ELSE place
      /\ loose' = loose \cup ({K} \cap BeingPlaced(p))
      /\ asked' = asked /\ shuffled' = shuffled
  BY DEF MoveSibling
<1>4. PICK r : /\ plan' = [plan EXCEPT ![p] = r]
               /\ \/ r = Idle /\ plan[p].step = "sort" /\ Tail(moves) = <<>>
                  \/ /\ Sound(r) /\ r.among = K /\ r.step = plan[p].step /\ r.item = plan[p].item
                     /\ r.pos = plan[p].pos /\ r.moves = Tail(moves)
                     /\ plan[p].step = "sort" => r.moves # <<>>
  BY MoveIs
<1>5. \A q \in Proc : plan'[q] = IF q = p THEN r ELSE plan[q]
  BY <1>4 DEF TypeOK
<1>6. m.item \in Item /\ m.pos \in Positional
  BY <1>1, <1>2, FirstAndRest DEF Write
<1> HIDE DEF K, moves, m
<1>7. ASSUME NEW j \in Item
      PROVE  /\ place'[j].parent = place[j].parent
             /\ place'[j].pos = IF j = m.item /\ place[j].parent = K THEN m.pos ELSE place[j].pos
  <2>1. place[m.item] \in Placed /\ place \in [Item -> Placed]
    BY <1>6 DEF TypeOK
  <2>2. CASE Hits(m, K)
    <3>1. place' = [place EXCEPT ![m.item].pos = m.pos]
      BY <1>3, <2>2
    <3> QED BY <3>1, <2>1, <2>2, <1>6 DEF Hits, Placed
  <2>3. CASE ~Hits(m, K)
    BY <1>3, <2>3 DEF Hits
  <2> QED BY <2>2, <2>3
<1>8. ASSUME NEW L PROVE Below(L)' = Below(L) /\ Below(L) \subseteq Item
  BY <1>7 DEF Below, Present
<1>9. \A L : \A q \in Proc : q # p => plan'[q] = plan[q] /\ (Placing(q, L)' <=> Placing(q, L))
  BY <1>5 DEF Placing
<1> SUFFICES ASSUME NEW L \in Parent \ loose', Finite(L) PROVE Roomy(L)'
  BY DEF Room, Finite
<1>10. Roomy(L)
  BY <1>3 DEF Room
<1>11. CASE L # K
  <2>1. ~Placing(p, L) /\ ~Placing(p, L)'
    BY <1>4, <1>5, <1>11 DEF Placing, K
  <2>2. \A i \in Below(L)' : place'[i].pos = place[i].pos
    BY <1>7, <1>8, <1>11 DEF Below
  <2> QED BY <1>3, <1>8, <1>9, <1>10, <2>1, <2>2, Undisturbed
<1>12. CASE L = K
  <2>1. \A q \in Proc : q # p => ~Placing(q, L)
    BY <1>3, <1>12, OneOf
  <2>2. Placing(p, L)
    BY <1>1, <1>12 DEF Placing, K, moves
  <2>3. Alone(p, L) /\ Newcomers(L) = {plan[p].item}
    BY <2>1, <2>2 DEF Alone, Newcomers
  <2>4. Numbered(L)'
    <3>1. \A i \in Below(L) : place[i].pos # None
      BY <1>10 DEF Roomy, Numbered
    <3>2. m.pos # None
      BY <1>6, GapAssumption DEF Positional
    <3> QED BY <3>1, <3>2, <1>7, <1>8 DEF Numbered
  <2>5. ASSUME NEW i \in Below(L) PROVE Target(Tail(moves), i, place'[i].pos) = Future(p, i)
    <3>1. place'[i].pos = IF i = m.item THEN m.pos ELSE place[i].pos
      BY <1>7, <1>8, <1>12 DEF Below
    <3>2. Target(Tail(moves), i, IF i = m.item THEN m.pos ELSE place[i].pos) = Target(moves, i, place[i].pos)
      BY <1>1, <1>2, TargetRest DEF m
    <3> QED BY <3>1, <3>2 DEF Future, moves
  <2>6. \A i, j : Still(L, i, j)' = Still(L, i, j)
    BY <1>3 DEF Still
  <2>7. Promised(p, L)
    BY <1>10 DEF Roomy
  <2>8. ASSUME NEW i \in Below(L) \ {plan[p].item}, NEW j \in Below(L) \ {plan[p].item}, i < j
        PROVE  Spaced(Still(L, i, j)', Target(Tail(moves), i, place'[i].pos),
                      Target(Tail(moves), j, place'[j].pos))
    BY <2>2, <2>3, <2>5, <2>6, <2>7, <2>8 DEF Promised
  <2>9. CASE r = Idle
    <3>1. plan[p].step = "sort" /\ Tail(moves) = <<>>
      BY <1>4, <2>9 DEF Idle, Sound, Pending
    <3>2. plan[p].item = None
      BY <3>1, <1>1 DEF Sound
    <3>3. \A i \in Below(L) : i # None
      BY <1>8, PlacementAssumption, GapAssumption
    <3>4. \A i : Target(Tail(moves), i, place'[i].pos) = place'[i].pos
      BY <3>1 DEF Target
    <3>5. Ordered(L)'
      <4> SUFFICES ASSUME NEW i \in Below(L)', NEW j \in Below(L)', i < j
                   PROVE  Spaced(Still(L, i, j)', place'[i].pos, place'[j].pos)
        BY DEF Ordered
      <4>1. i \in Below(L) \ {plan[p].item} /\ j \in Below(L) \ {plan[p].item}
        BY <1>8, <3>2, <3>3
      <4> QED BY <4>1, <2>8, <3>4
    <3>6. \A q \in Proc : ~Placing(q, L)'
      BY <2>1, <2>9, <1>5, <1>9 DEF Placing
    <3> QED BY <2>4, <3>5, <3>6 DEF Roomy, Promised
  <2>10. CASE r # Idle
    <3>1. /\ Sound(r) /\ r.among = K /\ r.step = plan[p].step /\ r.item = plan[p].item
          /\ r.pos = plan[p].pos /\ r.moves = Tail(moves)
          /\ plan[p].step = "sort" => r.moves # <<>>
      BY <1>4, <2>10
    <3>2. r.pos # None \/ r.moves # <<>>
      BY <1>1, <3>1 DEF Sound, moves
    <3>3. Placing(p, L)'
      BY <1>1, <1>5, <1>12, <2>10, <3>1, <3>2 DEF Placing
    <3>4. Ordered(L)'
      BY <3>3 DEF Ordered
    <3>5. \A q \in Proc : q # p => ~Placing(q, L)'
      BY <2>1, <1>9
    <3>6. Newcomers(L)' = {plan[p].item}
      <4>1. plan'[p].item = plan[p].item
        BY <1>5, <3>1
      <4> QED BY <3>3, <3>5, <4>1 DEF Newcomers
    <3>7. ASSUME NEW i \in Below(L)
          PROVE  Future(p, i)' = Target(Tail(moves), i, place'[i].pos) /\ Future(p, i)' = Future(p, i)
      BY <1>5, <2>5, <3>1 DEF Future
    <3>8. ASSUME NEW i \in Below(L)' \ Newcomers(L)', NEW j \in Below(L)' \ Newcomers(L)', i < j
          PROVE  Spaced(Still(L, i, j)', Future(p, i)', Future(p, j)')
      <4>1. i \in Below(L) \ {plan[p].item} /\ j \in Below(L) \ {plan[p].item}
        BY <3>6, <1>8
      <4> QED BY <4>1, <2>8, <3>7, <3>8
    <3>9. ASSUME plan'[p].step = "land", NEW i \in Below(L)' \ Newcomers(L)'
          PROVE  Clear(plan'[p].pos, Future(p, i)')
      <4>1. i \in Below(L) \ Newcomers(L)
        BY <2>3, <3>6, <1>8
      <4>2. plan[p].step = "land" /\ plan'[p].pos = plan[p].pos
        BY <3>1, <3>9, <1>5
      <4>3. Clear(plan[p].pos, Future(p, i))
        BY <4>1, <4>2, <2>2, <2>3, <2>7 DEF Promised
      <4> QED BY <4>1, <4>2, <4>3, <3>7
    <3>10. Promised(p, L)'
      BY <3>8, <3>9 DEF Promised
    <3> QED BY <2>4, <3>4, <3>5, <3>10 DEF Roomy, Promised
  <2> QED BY <2>9, <2>10
<1> QED BY <1>11, <1>12

\* A record lands in the room made for it, or where nothing is promised.
LEMMA LandRoom ==
    ASSUME TypeOK, Room, NEW p \in Proc, Land(p)
    PROVE  Room'
<1> DEFINE K == plan[p].among
           i == plan[p].item
           to == Landing(p)
           x == Number(p)
<1>1. /\ plan[p] # Idle /\ Sound(plan[p]) /\ i \in asked /\ i \in Item
      /\ plan[p].step = "land" /\ plan[p].moves = <<>>
      /\ to \in Parent \cup {None} /\ x \in Positional \cup {None}
      /\ place' = [place EXCEPT ![i] = [parent |-> to, pos |-> x]]
      /\ loose' = loose \cup (IF Settled(p) THEN {to} \cap BeingPlaced(p)
                              ELSE IF Finite(to) \/ x # None THEN {to} ELSE {})
      /\ plan' = [plan EXCEPT ![p] = Idle]
      /\ asked' = asked /\ shuffled' = shuffled
  BY LandIs
<1>2. Settled(p) <=> plan[p].pos # None /\ to = K
  BY DEF Settled
<1>3. plan[p].pos # None => x = plan[p].pos
  BY DEF Number
<1> HIDE DEF K, i, to, x
<1>4. \A q \in Proc : plan'[q] = IF q = p THEN Idle ELSE plan[q]
  BY <1>1 DEF TypeOK
<1>5. /\ place'[i].parent = to /\ place'[i].pos = x
      /\ \A j \in Item : j # i => place'[j] = place[j]
  BY <1>1 DEF TypeOK
<1>6. \A L : ~Placing(p, L)' /\ \A q \in Proc : q # p => plan'[q] = plan[q] /\ (Placing(q, L)' <=> Placing(q, L))
  BY <1>4 DEF Placing
<1>7. \A L : Placing(p, L) <=> plan[p].pos # None /\ L = K
  BY <1>1 DEF Placing, K
<1>8. \A L : Below(L) \subseteq Item /\ Below(L)' \subseteq Below(L) \cup {i} /\ (i \in Below(L)' => L = to)
             /\ Below(L) \subseteq Below(L)' \cup {i}
  BY <1>5 DEF Below, Present
<1>9. \A j : Future(p, j) = place[j].pos
  BY <1>1 DEF Future, Target
<1>10. \A L, j, k : Still(L, j, k)' = Still(L, j, k)
  BY <1>1 DEF Still
<1> SUFFICES ASSUME NEW L \in Parent \ loose', Finite(L) PROVE Roomy(L)'
  BY DEF Room, Finite
<1>11. Roomy(L)
  BY <1>1 DEF Room
<1>12. Promised(p, L)
  BY <1>11 DEF Roomy
<1>13. CASE L = to
  <2>1. Settled(p) /\ L \notin BeingPlaced(p)
    BY <1>1, <1>13
  <2>2. plan[p].pos # None /\ L = K /\ x = plan[p].pos
    BY <2>1, <1>2, <1>3, <1>13
  <2>3. Placing(p, L) /\ \A q \in Proc : q # p => ~Placing(q, L)
    BY <2>1, <2>2, <1>7, OneOf
  <2>4. Alone(p, L) /\ Newcomers(L) = {i}
    BY <2>3 DEF Alone, Newcomers, i
  <2>5. \A q \in Proc : ~Placing(q, L)'
    BY <2>3, <1>6
  <2>6. Numbered(L)'
    <3>1. \A j \in Below(L) : place[j].pos # None
      BY <1>11 DEF Roomy, Numbered
    <3> QED BY <3>1, <2>2, <1>5, <1>8 DEF Numbered
  <2>7. Ordered(L)'
    <3> SUFFICES ASSUME NEW j \in Below(L)', NEW k \in Below(L)', j < k
                 PROVE  Spaced(Still(L, j, k)', place'[j].pos, place'[k].pos)
      BY DEF Ordered
    <3>1. j # k
      <4>1. i \in Item /\ j \in Below(L) \cup {i} /\ Below(L) \subseteq Item
        BY <1>1, <1>8
      <4>2. j \in Nat
        BY ONLY <4>1, PlacementAssumption
      <4> QED BY <4>2
    <3>2. CASE j # i /\ k # i
      <4>1. j \in Below(L) \ Newcomers(L) /\ k \in Below(L) \ Newcomers(L)
        BY <3>2, <1>8, <2>4
      <4>2. Spaced(Still(L, j, k), Future(p, j), Future(p, k))
        BY <4>1, <1>12, <2>3, <2>4 DEF Promised
      <4>3. place'[j].pos = place[j].pos /\ place'[k].pos = place[k].pos
        BY <3>2, <4>1, <1>5, <1>8
      <4> QED BY <4>2, <4>3, <1>9, <1>10
    <3>3. CASE j = i \/ k = i
      <4>1. ~Still(L, j, k)'
        BY <3>3, <1>1 DEF Still
      <4>2. ASSUME NEW n \in Below(L)', n # i
            PROVE  Clear(x, place'[n].pos)
        <5>1. n \in Below(L) \ Newcomers(L)
          BY <4>2, <1>8, <2>4
        <5>2. Clear(plan[p].pos, Future(p, n))
          BY <5>1, <1>1, <1>12, <2>3, <2>4 DEF Promised
        <5>3. place'[n].pos = place[n].pos
          BY <4>2, <5>1, <1>5, <1>8
        <5> QED BY <5>2, <5>3, <1>9, <2>2
      <4>3. Clear(place'[j].pos, place'[k].pos)
        BY <3>1, <3>3, <4>2, <1>5 DEF Clear
      <4> QED BY <4>1, <4>3 DEF Spaced
    <3> QED BY <3>2, <3>3
  <2> QED BY <2>5, <2>6, <2>7 DEF Roomy, Promised
<1>14. CASE L # to
  <2>1. Below(L)' \subseteq Below(L) /\ i \notin Below(L)'
    BY <1>8, <1>14
  <2>2. \A j \in Below(L)' : place'[j].pos = place[j].pos
    BY <2>1, <1>5, <1>8
  <2>3. CASE ~Placing(p, L)
    BY <2>1, <2>2, <2>3, <1>1, <1>6, <1>11, Undisturbed
  <2>4. CASE Placing(p, L)
    <3>1. Numbered(L)'
      BY <2>1, <2>2, <1>11 DEF Roomy, Numbered
    <3>2. Ordered(L)'
      <4> SUFFICES ASSUME \A q \in Proc : ~Placing(q, L)',
                          NEW j \in Below(L)', NEW k \in Below(L)', j < k
                   PROVE  Spaced(Still(L, j, k)', place'[j].pos, place'[k].pos)
        BY DEF Ordered
      <4>1. \A q \in Proc : q # p => ~Placing(q, L)
        BY <1>6
      <4>2. Alone(p, L) /\ Newcomers(L) = {i}
        BY <2>4, <4>1 DEF Alone, Newcomers, i
      <4>3. j \in Below(L) \ Newcomers(L) /\ k \in Below(L) \ Newcomers(L)
        BY <2>1, <4>2
      <4>4. Spaced(Still(L, j, k), Future(p, j), Future(p, k))
        BY <2>4, <4>2, <4>3, <1>12 DEF Promised
      <4> QED BY <4>4, <2>2, <1>9, <1>10
    <3>3. Below(L)' \ Newcomers(L)' \subseteq Below(L) \ Newcomers(L)
      <4> SUFFICES ASSUME NEW j \in Below(L)', j \in Newcomers(L) PROVE j \in Newcomers(L)'
        BY <2>1
      <4>1. PICK q \in Proc : Placing(q, L) /\ plan[q].item = j
        BY DEF Newcomers
      <4>2. q # p
        BY <4>1, <2>1 DEF i
      <4> QED BY <4>1, <4>2, <1>6 DEF Newcomers
    <3>4. ASSUME NEW q \in Proc, Placing(q, L)', Alone(q, L)' PROVE Promised(q, L)'
      <4>1. q # p /\ Placing(q, L) /\ plan'[q] = plan[q]
        BY <3>4, <1>6
      <4>2. Alone(q, L)
        BY <3>4, <4>1, <1>1, <1>6 DEF Alone
      <4>3. Promised(q, L)
        BY <1>11 DEF Roomy
      <4>4. \A j \in Below(L)' : Future(q, j)' = Future(q, j)
        BY <4>1, <2>2 DEF Future
      <4>5. ASSUME NEW j \in Below(L)' \ Newcomers(L)', NEW k \in Below(L)' \ Newcomers(L)', j < k
            PROVE  Spaced(Still(L, j, k)', Future(q, j)', Future(q, k)')
        <5>1. Spaced(Still(L, j, k), Future(q, j), Future(q, k))
          BY <4>1, <4>2, <4>3, <4>5, <3>3 DEF Promised
        <5> QED BY <5>1, <4>4, <1>10
      <4>6. ASSUME plan'[q].step = "land", NEW j \in Below(L)' \ Newcomers(L)'
            PROVE  Clear(plan'[q].pos, Future(q, j)')
        <5>1. Clear(plan[q].pos, Future(q, j))
          BY <4>1, <4>2, <4>3, <4>6, <3>3 DEF Promised
        <5> QED BY <5>1, <4>1, <4>4
      <4> QED BY <4>5, <4>6 DEF Promised
    <3>5. \A q \in Proc : Promised(q, L)'
      BY <3>4 DEF Promised
    <3> QED BY <3>1, <3>2, <3>5 DEF Roomy
  <2> QED BY <2>3, <2>4
<1> QED BY <1>13, <1>14

LEMMA RoomStep == TypeOK /\ Room /\ [Next]_vars => Room'
<1> SUFFICES ASSUME TypeOK, Room, [Next]_vars PROVE Room'
  OBVIOUS
<1>1. ASSUME NEW p \in Proc, Request(p) PROVE Room'
  BY <1>1, RequestIs, PlaceRoom, SortRoom
<1>2. ASSUME NEW p \in Proc, ReadSiblings(p) PROVE Room'
  BY <1>2, ReadRoom
<1>3. ASSUME NEW p \in Proc, MoveSibling(p) PROVE Room'
  BY <1>3, MoveRoom
<1>4. ASSUME NEW p \in Proc, SortNothing(p) PROVE Room'
  BY <1>4, NothingRoom
<1>5. ASSUME NEW p \in Proc, Land(p) PROVE Room'
  BY <1>5, LandRoom
<1>6. CASE UNCHANGED vars
  <2> SUFFICES ASSUME NEW L \in Parent \ loose, Finite(L) PROVE Roomy(L)'
    BY <1>6 DEF Room, vars, Finite
  <2>1. Below(L)' = Below(L) /\ \A q \in Proc : Placing(q, L)' <=> Placing(q, L)
    BY <1>6 DEF vars, Below, Present, Placing
  <2> QED BY <2>1, <1>6, Undisturbed DEF Room, vars
<1> QED BY <1>1, <1>2, <1>3, <1>4, <1>5, <1>6 DEF Next

\* Nobody on the way: the siblings are apart, those nobody asked about in
\* the order they were in.
LEMMA RoomOrders == TypeOK /\ Room => SiblingsInOrder
<1> SUFFICES ASSUME TypeOK, Room, AtRest, NEW L \in Parent \ loose, Finite(L),
                    NEW i \in Below(L), NEW j \in Below(L), i < j
             PROVE  /\ Apart(i, j) \/ Apart(j, i)
                    /\ i \notin asked /\ j \notin asked /\ L \notin shuffled => Apart(i, j)
  BY DEF SiblingsInOrder
<1>1. \A p \in Proc : ~Placing(p, L)
  BY DEF AtRest, Placing
<1>2. Spaced(Still(L, i, j), place[i].pos, place[j].pos)
  BY <1>1 DEF Room, Roomy, Ordered
<1> QED BY <1>2 DEF Spaced, Still, Clear, Apart

\* Siblings are apart and in order whenever no request is on the way, in
\* every parent where no two placements met.
THEOREM OrderKept == Spec => []SiblingsInOrder
<1>1. Spec => [](TypeOK /\ Room)
  BY TypeInit, RoomInit, TypeStep, RoomStep, PTL DEF Spec
<1> QED BY <1>1, RoomOrders, PTL

\* A position is only written by a request about the record, or by one that
\* places another among its siblings of that moment.
LEMMA StrangerStep ==
    ASSUME TypeOK, [Next]_vars, NEW i \in Item, place'[i].pos # place[i].pos
    PROVE  \E p \in Proc :
              /\ plan[p] # Idle
              /\ plan[p].item = i \/ plan[p].among = place[i].parent
<1>1. ASSUME NEW p \in Proc, Request(p) PROVE place' = place
  <2>1. \/ \E L \in Parents : ListsSortOne(p, L)
        \/ \E e \in Item, L \in Parent, x \in Nat \cup {None} : \E to \in {None, L} : Place(p, e, L, to, x)
    BY <1>1, RequestIs
  <2> QED BY <2>1 DEF ListsSortOne, Place
<1>2. ASSUME NEW p \in Proc, ReadSiblings(p) \/ SortNothing(p) PROVE place' = place
  BY <1>2 DEF ReadSiblings, SortNothing
<1>3. ASSUME NEW p \in Proc, MoveSibling(p)
      PROVE  plan[p] # Idle /\ plan[p].among = place[i].parent
  <2> DEFINE m == Head(plan[p].moves)
             K == plan[p].among
  <2>1. plan[p] # Idle
    BY <1>3, MoveIs
  <2>2. place' = IF Hits(m, K) THEN [place EXCEPT ![m.item].pos = m.pos] ELSE place
    BY <1>3 DEF MoveSibling
  <2> HIDE DEF m, K
  <2>3. Hits(m, K) /\ m.item = i
    BY <2>2 DEF TypeOK
  <2> QED BY <2>1, <2>3 DEF Hits, K
<1>4. ASSUME NEW p \in Proc, Land(p) PROVE plan[p] # Idle /\ plan[p].item = i
  <2>1. plan[p] # Idle /\ place' = [place EXCEPT ![plan[p].item] = [parent |-> Landing(p), pos |-> Number(p)]]
    BY <1>4, LandIs
  <2> QED BY <2>1 DEF TypeOK
<1>5. CASE UNCHANGED vars
  BY <1>5 DEF vars
<1> QED BY <1>1, <1>2, <1>3, <1>4, <1>5 DEF Next

THEOREM StrangersAreLeftAlone == Spec => StrangersStay
<1>1. TypeOK /\ [Next]_vars =>
         [\A i \in Item : place'[i].pos # place[i].pos =>
            \E p \in Proc :
               /\ plan[p] # Idle
               /\ plan[p].item = i \/ plan[p].among = place[i].parent]_vars
  BY StrangerStep
<1> QED BY <1>1, TypeCorrect, PTL DEF Spec, StrangersStay
=============================================================================
