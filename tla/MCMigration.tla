----------------------------- MODULE MCMigration -----------------------------
(* Two collections and memories on both sides of a checkpoint.             *)
EXTENDS Migration, TLC

CONSTANTS r1, w1, w2, blue, green

MCReplica == {r1}
MCWorker == {w1, w2}
MCCollection == {blue, green}
MCPoint == 1 .. 2
\* What is written before the first migration starts is among the memories of
\* the initial states, and that migration leaves the configured collection.
Planned ==
    IF mig = None THEN written = 0 /\ faults = 0 /\ \A x \in Point : store[Configured][x] # 0
    ELSE faults = 0 => mig.source = Configured
Alike == Permutations(MCWorker)
=============================================================================
