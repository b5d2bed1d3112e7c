--------------------------- MODULE MCKanbanMirror ---------------------------
(* A card written in PLANKA and through the Spec API.                      *)
EXTENDS KanbanMirror, TLC

CONSTANTS p1, a1, k1, k2, t1, t2

MCHuman == {p1}
MCAgent == {a1}
MCCard == {k1, k2}
\* What PLANKA's client sends: a text, a position, a place in a list.
MCEdits == {{"text"}, {"pos"}, {"list", "pos"}}

\* Beyond this nothing is settled any more and no call is left to settle it.
Promising == settled # {} \/ alone \/ served < MaxServed

Alike == Permutations(MCCard) \cup Permutations({t1, t2})
=============================================================================
