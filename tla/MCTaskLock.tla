----------------------------- MODULE MCTaskLock -----------------------------
(* TLC instances of TaskLock: two actors, two concurrent requests.         *)
EXTENDS TaskLock, TLC

CONSTANTS a1, a2, t1, t2, s1, s2, w1, w2, none

MCOneTask    == {t1}
MCTwoTasks   == {t1, t2}
MCActors     == {a1, a2}
MCOneSession == {s1}
MCSessions   == {s1, s2}
MCOneSweeper == {w1}
MCSweepers   == {w1, w2}
MCClaimable  == {"tasks", "em_andamento"}
MCActive     == {"em_andamento"}
MCImported   == {"tasks", "em_andamento", "revisao_codigo", "concluido"}

\* Interchangeable identities; used only in runs without liveness.
MCSymmetry == Permutations(MCActors) \cup Permutations(MCSessions)
                \cup Permutations(MCSweepers)
=============================================================================
