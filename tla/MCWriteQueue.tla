---------------------------- MODULE MCWriteQueue ----------------------------
(* TLC instances of WriteQueue.                                            *)
EXTENDS WriteQueue, TLC

CONSTANTS w1, w2, api1

MCOneWorker == {w1}
MCWorkers   == {w1, w2}
MCNoApi     == {}
MCApi       == {api1}

\* Workers are interchangeable; used only in runs without liveness.
MCSymmetry == Permutations(MCWorkers)
=============================================================================
