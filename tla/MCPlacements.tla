---------------------------- MODULE MCPlacements ----------------------------
(***************************************************************************)
(* Three siblings and a record elsewhere, and one that is yet to be made.  *)
(* The siblings are as near as allowed, at the lower or the upper end.     *)
(***************************************************************************)
EXTENDS Placements, TLC

CONSTANTS La, Lb, Le

At(x, y, z) ==
    << [parent |-> La, pos |-> x], [parent |-> La, pos |-> y], [parent |-> La, pos |-> z],
       [parent |-> Lb, pos |-> 8], [parent |-> None, pos |-> None] >>

MCStarts == {At(8, 10, 12), At(44, 46, 48)}
MCItem == 1 .. 5
MCParent == {La, Lb, Le}
MCEndless == {Le}
MCInputs == {0, 9, 12, 45, 49}
MCSymmetry == Permutations(Proc)
=============================================================================
