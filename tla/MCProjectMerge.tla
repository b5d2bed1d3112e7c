--------------------------- MODULE MCProjectMerge ---------------------------
(* TLC instances of ProjectMerge.                                          *)
EXTENDS ProjectMerge, TLC

CONSTANTS A, B, C, m1, m2, o1, o2, r1, none

MCProjects    == {A, B, C}
MCPoint       == {m1}
MCPoints      == {m1, m2}
MCProposal    == {o1}
MCProposals   == {o1, o2}
MCNoRenames   == {}
MCRename      == {r1}

MCRank == A :> 1 @@ B :> 2 @@ C :> 3

\* The names are ordered, so they are not interchangeable.
MCSymmetry == Permutations(MCPoints) \cup Permutations(MCProposals)
=============================================================================
