----------------------------- MODULE CardLease ------------------------------
(***************************************************************************)
(* What the card lock promises (ADR-003): a card is held by at most one    *)
(* actor, and it never passes from one holder to another without having    *)
(* been given up in between.                                               *)
(***************************************************************************)
CONSTANTS Tasks, Actors, NoActor

VARIABLE holder

Init == holder \in [Tasks -> Actors \cup {NoActor}]

Acquire(t, a) ==
    /\ holder[t] = NoActor
    /\ holder' = [holder EXCEPT ![t] = a]

GiveUp(t) == holder' = [holder EXCEPT ![t] = NoActor]

Next == \E t \in Tasks : GiveUp(t) \/ \E a \in Actors : Acquire(t, a)

Spec == Init /\ [][Next]_holder
=============================================================================
