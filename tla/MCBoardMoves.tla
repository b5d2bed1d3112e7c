---------------------------- MODULE MCBoardMoves ----------------------------
(***************************************************************************)
(* Two boards with their lists; a card with two labels of one name, two    *)
(* members and a task, an archived card the task is linked to, a spare     *)
(* card and task, and spare labels.  The second user is a member of the    *)
(* first board only.                                                       *)
(***************************************************************************)
EXTENDS BoardMoves, TLC

CONSTANTS b1, b2, l1, l2, a1, t1, m1, a2, t2, c1, c2, cx, k1, kx, g1, g2, g3, gw, gx, gy, gz, u1, u2

MCMembersOf == [b \in Board |-> IF b = b1 THEN {u1, u2} ELSE {u1}]

On(b, type) == [board |-> b, type |-> type]
MCList0 ==
    (l1 :> On(b1, "active") @@ l2 :> On(b1, "closed") @@ a1 :> On(b1, "archive") @@ t1 :> On(b1, "trash")
       @@ m1 :> On(b2, "active") @@ a2 :> On(b2, "archive") @@ t2 :> On(b2, "trash"))
MCCard0 ==
    (c1 :> [list |-> l1, board |-> b1, prev |-> None, closed |-> FALSE, placed |-> TRUE]
       @@ c2 :> [list |-> a1, board |-> b1, prev |-> l2, closed |-> TRUE, placed |-> FALSE]
       @@ cx :> [list |-> None, board |-> None, prev |-> None, closed |-> FALSE, placed |-> FALSE])
MCTask0 ==
    (k1 :> [card |-> c1, link |-> c2, done |-> TRUE, assignee |-> None]
       @@ kx :> [card |-> None, link |-> None, done |-> FALSE, assignee |-> None])
MCLabel0 ==
    (g1 :> [board |-> b1, name |-> "bug"] @@ g2 :> [board |-> b1, name |-> "bug"]
       @@ g3 :> [board |-> b2, name |-> "feature"]
       @@ [g \in Label \ {g1, g2, g3} |-> [board |-> None, name |-> "bug"]])
MCTags0 == {<<c1, g1>>, <<c1, g2>>}
MCPeople0 == {<<"membership", c1, u1>>, <<"membership", c1, u2>>, <<"subscription", c1, u2>>}
MCSymmetry == Permutations(Proc)
=============================================================================
