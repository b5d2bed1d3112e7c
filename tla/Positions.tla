------------------------------ MODULE Positions ------------------------------
(***************************************************************************)
(* Where a record goes among its siblings: the helper insertToPositionables *)
(* of the PLANKA server.  Siblings are ordered by a number, their position. *)
(* A record is put where it is asked to go, unless that is too near to the *)
(* sibling below; then it and the siblings that follow are pushed up, as   *)
(* far as needed, and when there is no room above all are numbered anew.   *)
(***************************************************************************)
EXTENDS Integers, Sequences, FiniteSets

CONSTANTS
    None,        \* no position (null)
    Gap,         \* distance between records that are pushed up (2^14 in the code)
    MinGap,      \* least distance between siblings (1/8 in the code)
    MaxPosition  \* (2^50 in the code)

ASSUME GapAssumption ==
    /\ None \notin Nat
    /\ MinGap \in Nat \ {0}
    /\ Gap \in Nat /\ MaxPosition \in Nat
    /\ 2 * MinGap <= Gap /\ Gap <= MaxPosition

\* In comparisons and sums null is 0.
Num(v) == IF v = None THEN 0 ELSE v

\* The k-th of a set of numbers, and what s has at the places of a set.
Nth(K, k) == CHOOSE i \in K : Cardinality({j \in K : j < i}) = k - 1
Pick(s, K) == [k \in 1 .. Cardinality(K) |-> s[Nth(K, k)]]

\* The positions at or below x, and those above it.
Lowers(s, x) == Pick(s, {i \in DOMAIN s : Num(s[i]) <= x})
Uppers(s, x) == Pick(s, {i \in DOMAIN s : Num(s[i]) > x})

\* findBeginnings: the end of the sequence from which all neighbours are too
\* near to each other; the virtual position 0 may be part of it.
FindBeginnings(s) ==
    LET t == <<0>> \o s
        apart == {i \in 2 .. Len(t) : Num(t[i]) - MinGap >= Num(t[i - 1])}
        first == IF apart = {} THEN 1 ELSE CHOOSE i \in apart : \A j \in apart : j <= i
    IN  SubSeq(t, first, Len(t))

\* Mutant: prevPosition does not advance with the loop.
PrevPositionStuck(t, i) == Num(t[1]) + (IF i > 2 THEN Gap ELSE 0)

\* The loop of getRepositionsMap over t[2], t[3], ...: while it goes on, each
\* record is put Gap above the one before it, so that prevPosition at record i
\* is PrevPosition(t, i).
PrevPosition(t, i) == Num(t[1]) + Gap * (i - 2)

FarEnough(t, i) == PrevPosition(t, i) + MinGap <= Num(t[i])
Halfway(t, i)   == i < Len(t) /\ PrevPosition(t, i) + 2 * MinGap <= Num(t[i + 1])

\* The record at which the loop breaks; beyond t when it does not.
Break(t) ==
    LET stop == {i \in 2 .. Len(t) : FarEnough(t, i) \/ Halfway(t, i)}
    IN  IF stop = {} THEN Len(t) + 1 ELSE CHOOSE i \in stop : \A j \in stop : i <= j

\* getRepositionsMap returns null.
NoRoom(t) ==
    \/ Len(t) = 1 /\ Num(t[1]) > MaxPosition
    \/ \E i \in 2 .. Break(t) - 1 : PrevPosition(t, i) + Gap > MaxPosition

\* The new positions of t[2], t[3], ..., as many as change: the last of them
\* halfway to the next when the loop ended there.
Repositions(t) ==
    LET last == Break(t)
        half == last \in DOMAIN t /\ ~FarEnough(t, last)
    IN  [i \in 1 .. (IF half THEN last - 1 ELSE last - 2) |->
           IF i = last - 1
           THEN PrevPosition(t, last) + (Num(t[last + 1]) - PrevPosition(t, last)) \div 2
           ELSE PrevPosition(t, i + 1) + Gap]

\* getFullRepositionsMap.
FullRepositions(t) == [i \in 1 .. Len(t) - 1 |-> Gap * i]

\* The entries of the map from old positions to new ones that are under v,
\* several where records tie.
Entries(row, new, v) == {i \in DOMAIN new : row[i + 1] = v}

\* Mutant: the entries come off from the left.
PoppedLeft(E, n) == CHOOSE i \in E : Cardinality({j \in E : j < i}) = n

\* The entry that comes off after n others have, from the right.
Popped(E, n) == CHOOSE i \in E : Cardinality({j \in E : j > i}) = n

\* insertToPositionables: the position of the record itself and the new ones
\* of the siblings that move, by their index in s.  The record takes the last
\* entry under its position, then the siblings take theirs from the right.
InsertToPositionables(s, x) ==
    LET low  == Append(Lowers(s, x), x)
        high == Uppers(s, x)
        tail == FindBeginnings(low) \o high
        full == NoRoom(tail)
        row  == IF full THEN <<0>> \o low \o high ELSE tail
        new  == IF full THEN FullRepositions(row) ELSE Repositions(row)
        taken(k) == Cardinality({j \in DOMAIN s : j > k /\ s[j] = s[k]})
                    + (IF s[k] = x THEN 1 ELSE 0)
        moves == {k \in DOMAIN s : taken(k) < Cardinality(Entries(row, new, s[k]))}
        mine  == Entries(row, new, x)
    IN  [ pos   |-> IF mine = {} THEN x ELSE new[Popped(mine, 0)],
          moved |-> [k \in moves |-> new[Popped(Entries(row, new, s[k]), taken(k))]] ]

\* The positions of the siblings after the insertion.
After(s, r) == [k \in DOMAIN s |-> IF k \in DOMAIN r.moved THEN r.moved[k] ELSE s[k]]

\* What an insertion promises, whatever the sequence and the input: siblings
\* that were apart keep their order, the record lands above those at or below
\* the place it was asked to go to and below the others, neither nearer than
\* MinGap, and no position exceeds MaxPosition.
LandsBetween(s, x) ==
    LET r == InsertToPositionables(s, x)
        a == After(s, r)
    IN  /\ \A k \in DOMAIN s : IF s[k] <= x THEN a[k] + MinGap <= r.pos ELSE r.pos + MinGap <= a[k]
        /\ \A j, k \in DOMAIN s : j < k /\ s[j] < s[k] => a[j] < a[k]
        /\ MinGap <= r.pos /\ r.pos <= MaxPosition
=============================================================================
