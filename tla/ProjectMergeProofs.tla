------------------------- MODULE ProjectMergeProofs -------------------------
(***************************************************************************)
(* Theorems about ProjectMerge.  The invariant is built in layers: Core    *)
(* types the records of merges, Control is about who holds the row of a    *)
(* proposal and what an ambiguous commit leaves to be read, Keys about the *)
(* advisory locks of the names, which never make runs wait in a circle     *)
(* (NoWaitCycle).  Data, in the second half, is about points: that the     *)
(* database and the vector store agree (StoresAgree) and that a completed  *)
(* merge leaves no point behind (AppliedLeavesNoPoint).  What a run may    *)
(* have done to a point is written over its record, so that a step which   *)
(* leaves the record alone leaves that alone too.                          *)
(***************************************************************************)
EXTENDS ProjectMerge, FiniteSetTheorems, WellFoundedInduction, TLAPS

\* The phases in which a run has names, and those in which it holds the row
\* of its proposal.
Named   == {"locking", "moving", "verifying", "undoing"}
Holding == {"locking", "moving"}

-----------------------------------------------------------------------------
(* The layers of the invariant                                             *)

\* A job that is running is one the queue has handed out.
Busy ==
    \A j \in Jobs : run[j].phase # "idle" =>
                      job[j] \in Job /\ job[j].status = "processing"

\* What a proposal names can be merged.
Mergeable ==
    \A p \in Proposals : prop[p].status # "absent" =>
       prop[p].canonical \in Projects \ prop[p].aliases

\* The names of a run, what it has scrolled and what it has logged.
Shaped(r) ==
    r.phase \in Named =>
       /\ r.canonical \in Projects
       /\ r.canonical \notin r.aliases
       /\ r.aliases \cup {r.canonical} \subseteq r.names
       /\ r.phase = "moving" => r.todo \subseteq r.aliases
       /\ \A q \in Points : r.log[q] # NoProject =>
             r.phase # "locking" /\ r.log[q] \in r.aliases
       /\ \A q \in Points : r.page[q] # NoProject =>
             r.phase = "moving" /\ r.page[q] \in r.aliases

Shape == \A x \in Execs : Shaped(run[x])

Core == TypeOK /\ Busy /\ Mergeable /\ Shape

\* The row of a proposal is held by one job, which found it open.
Held ==
    /\ \A j \in Jobs : run[j].phase \in Holding =>
          prop[job[j].proposal].status \in {"approved", "failed"}
    /\ \A i, j \in Jobs :
          /\ run[i].phase \in Holding
          /\ run[j].phase \in Holding
          /\ job[i].proposal = job[j].proposal
          => i = j

\* What an ambiguous commit did can still be read from its proposal.
Verdict ==
    \A j \in Jobs : run[j].phase = "verifying" =>
       (run[j].landed <=> /\ prop[job[j].proposal].status = "applied"
                          /\ prop[job[j].proposal].job = j)

Control == Held /\ Verdict

-----------------------------------------------------------------------------
(* Core                                                                    *)

\* An idle run, whatever phase it is put in by Enter, has nothing.
LEMMA IdleShaped ==
    ASSUME NEW ph \in Phase \ Named
    PROVE  /\ [Idle EXCEPT !.phase = ph] \in Run
           /\ [Idle EXCEPT !.phase = ph].phase = ph
           /\ Shaped([Idle EXCEPT !.phase = ph])
<1>1. [Idle EXCEPT !.phase = ph].phase = ph
  BY DEF Idle
<1>2. [Idle EXCEPT !.phase = ph] \in Run
  BY DEF Idle, Run, Nowhere
<1> QED
  BY <1>1, <1>2 DEF Shaped

\* A step that replaces one run.
LEMMA OneRun ==
    ASSUME Core, NEW x \in Execs, NEW r \in Run, Shaped(r),
           run' = [run EXCEPT ![x] = r]
    PROVE  /\ run' \in [Execs -> Run]
           /\ Shape'
           /\ run'[x] = r
           /\ \A y \in Execs \ {x} : run'[y] = run[y]
<1>1. run \in [Execs -> Run] /\ Shape
  BY DEF Core, TypeOK
<1>2. run' \in [Execs -> Run] /\ run'[x] = r /\ \A y \in Execs \ {x} : run'[y] = run[y]
  BY <1>1
<1>3. \A y \in Execs : Shaped(run'[y])
  BY <1>1, <1>2 DEF Shape
<1> QED
  BY <1>2, <1>3 DEF Shape

LEMMA EnterCore ==
    ASSUME Core, NEW x \in Execs, NEW ph \in Phase \ Named, Enter(x, ph)
    PROVE  /\ run' \in [Execs -> Run]
           /\ Shape'
           /\ run'[x] = [Idle EXCEPT !.phase = ph]
           /\ run'[x].phase = ph
           /\ \A y \in Execs \ {x} : run'[y] = run[y]
  BY IdleShaped, OneRun DEF Enter

LEMMA CoreInit == ASSUME ProjectMergeAssumption, Init PROVE Core
<1>1. Idle \in Run /\ Idle.phase = "idle" /\ Shaped(Idle)
  BY DEF Idle, Run, Nowhere, Phase, Shaped, Named
<1>2. TypeOK
  <2>1. prop \in [Proposals -> Proposal]
    BY DEF Init, Proposal, ProposalStatus
  <2>2. run \in [Execs -> Run]
    BY <1>1 DEF Init
  <2>3. job \in [Jobs -> Job \cup {NoJob}]
    BY DEF Init
  <2> QED
    BY <2>1, <2>2, <2>3 DEF Init, TypeOK
<1>3. Busy
  BY <1>1 DEF Init, Busy, Execs
<1>4. Mergeable
  BY DEF Init, Mergeable
<1>5. Shape
  BY <1>1 DEF Init, Shape
<1> QED
  BY <1>2, <1>3, <1>4, <1>5 DEF Core

\* The parts of Core that a step leaves alone.
LEMMA CoreByParts ==
    ASSUME Core,
           catalog' \subseteq Projects,
           refs' \in [Points -> Projects], point' \in [Points -> Projects],
           prop' \in [Proposals -> Proposal], Mergeable',
           job' \in [Jobs -> Job \cup {NoJob}],
           run' \in [Execs -> Run], Shape', Busy',
           left' \in [Points -> SUBSET Reason], upsets' \in Nat
    PROVE  Core'
  BY DEF Core, TypeOK

\* A step that moves job j to another phase, its row being unchanged.
LEMMA BusyStep ==
    ASSUME Core, NEW x \in Execs, run[x].phase # "idle", UNCHANGED job,
           \A y \in Execs \ {x} : run'[y] = run[y]
    PROVE  Busy'
  BY DEF Core, Busy, Execs

LEMMA NoteType ==
    ASSUME left \in [Points -> SUBSET Reason], NEW S, NEW reason \in Reason,
           Note(S, reason)
    PROVE  /\ left' \in [Points -> SUBSET Reason]
           /\ \A q \in Points : left[q] \subseteq left'[q]
           /\ \A q \in Points : q \in S => reason \in left'[q]
           /\ \A q \in Points : q \notin S => left'[q] = left[q]
  BY DEF Note

\* A step that changes the status of one proposal, or its job.
LEMMA PropStep ==
    ASSUME Core, NEW p \in Proposals, prop[p].status # "absent",
           NEW s \in ProposalStatus, NEW j \in Jobs \cup {0},
           prop' = [prop EXCEPT ![p] = [prop[p] EXCEPT !.status = s, !.job = j]]
    PROVE  /\ prop' \in [Proposals -> Proposal]
           /\ Mergeable'
           /\ \A o \in Proposals \ {p} : prop'[o] = prop[o]
           /\ prop'[p].status = s
           /\ prop'[p].job = j
<1>1. prop \in [Proposals -> Proposal] /\ prop[p] \in Proposal
  BY DEF Core, TypeOK
<1> DEFINE r == [prop[p] EXCEPT !.status = s, !.job = j]
<1>2. /\ r \in Proposal /\ r.status = s /\ r.job = j
      /\ r.canonical = prop[p].canonical /\ r.aliases = prop[p].aliases
  BY <1>1 DEF Proposal
<1>3. prop' = [prop EXCEPT ![p] = r]
  OBVIOUS
<1> HIDE DEF r
<1>4. prop' \in [Proposals -> Proposal] /\ prop'[p] = r
      /\ \A o \in Proposals \ {p} : prop'[o] = prop[o]
  BY <1>1, <1>2, <1>3
<1> QED
  BY <1>2, <1>4 DEF Mergeable, Core

LEMMA TransitionCore ==
    ASSUME Core, NEW p \in Proposals, NEW expected, NEW new \in ProposalStatus,
           "absent" \notin expected, Transition(p, expected, new)
    PROVE  /\ prop' \in [Proposals -> Proposal]
           /\ Mergeable'
           /\ \A o \in Proposals \ {p} : prop'[o] = prop[o]
           /\ prop'[p].status = new
           /\ prop'[p].job = prop[p].job
<1>1. prop \in [Proposals -> Proposal] /\ prop[p] \in Proposal
  BY DEF Core, TypeOK
<1>2. prop[p].job \in Jobs \cup {0} /\ prop[p].status # "absent"
  BY <1>1 DEF Proposal, Transition
<1>3. prop' = [prop EXCEPT ![p] = [prop[p] EXCEPT !.status = new, !.job = prop[p].job]]
  BY <1>1 DEF Transition, Proposal
<1> QED
  BY <1>2, <1>3, PropStep

(* Decisions: no run changes.                                              *)
LEMMA CoreDecide == ASSUME Core, ProjectMergeAssumption, Decide PROVE Core'
<1> USE DEF Core
<1>1. ASSUME NEW p \in Proposals, NEW c \in Projects, NEW as \in SUBSET Projects,
             Record(p, c, as)
      PROVE  Core'
  <2>1. prop' \in [Proposals -> Proposal]
    BY <1>1 DEF Record, TypeOK, Proposal, ProposalStatus
  <2>2. Mergeable'
    BY <1>1 DEF Record, TypeOK, Mergeable
  <2>3. Shape' /\ Busy'
    BY <1>1 DEF Record, Shape, Busy
  <2> QED
    BY <1>1, <2>1, <2>2, <2>3, CoreByParts DEF Record, TypeOK
<1>2. ASSUME NEW p \in Proposals, Reject(p) PROVE Core'
  <2>1. prop' \in [Proposals -> Proposal] /\ Mergeable'
    BY <1>2, TransitionCore DEF Reject, ProposalStatus
  <2>2. Shape' /\ Busy'
    BY <1>2 DEF Reject, Shape, Busy
  <2> QED
    BY <1>2, <2>1, <2>2, CoreByParts DEF Reject, TypeOK
<1>3. ASSUME NEW p \in Proposals, NEW j \in Jobs, Approve(p, j) PROVE Core'
  <2>1. prop' \in [Proposals -> Proposal] /\ Mergeable'
    <3>1. prop' = [prop EXCEPT ![p] = [prop[p] EXCEPT !.status = "approved", !.job = j]]
      BY <1>3 DEF Approve, TypeOK
    <3> QED
      BY <1>3, <3>1, PropStep DEF Approve, ProposalStatus
  <2>2. job' \in [Jobs -> Job \cup {NoJob}]
    BY <1>3 DEF Approve, TypeOK, Job
  <2>3. run[j].phase = "idle"
    BY <1>3 DEF Approve, Busy, NoJob
  <2>4. Shape' /\ Busy'
    BY <1>3, <2>3 DEF Approve, Shape, Busy, TypeOK
  <2> QED
    BY <1>3, <2>1, <2>2, <2>4, CoreByParts DEF Approve, TypeOK
<1>4. ASSUME NEW j \in Jobs, Enqueue(j) PROVE Core'
  <2>1. job[j] \in Job
    BY <1>4 DEF Enqueue, TypeOK, NoJob
  <2>2. job' \in [Jobs -> Job \cup {NoJob}]
    BY <1>4, <2>1 DEF Enqueue, TypeOK, Job
  <2>3. Shape' /\ Busy'
    BY <1>4 DEF Enqueue, Shape, Busy, TypeOK
  <2>4. Mergeable'
    BY <1>4 DEF Enqueue, Mergeable
  <2> QED
    BY <1>4, <2>2, <2>3, <2>4, CoreByParts DEF Enqueue, TypeOK
<1>5. ASSUME NEW j \in Jobs, EnqueueFails(j) PROVE Core'
  <2>1. job[j] \in Job
    BY <1>5 DEF EnqueueFails, TypeOK, NoJob
  <2>2. job' \in [Jobs -> Job \cup {NoJob}]
    BY <1>5, <2>1 DEF EnqueueFails, TypeOK, Job
  <2>3. Shape' /\ Busy'
    BY <1>5 DEF EnqueueFails, Shape, Busy, TypeOK
  <2>4. prop' \in [Proposals -> Proposal] /\ Mergeable'
    <3>1. job[j].proposal \in Proposals
      BY <2>1 DEF Job
    <3> QED
      BY <1>5, <3>1, TransitionCore DEF EnqueueFails, ProposalStatus, Mergeable, TypeOK
  <2> QED
    BY <1>5, <2>2, <2>3, <2>4, CoreByParts DEF EnqueueFails, Upset, TypeOK
<1> QED
  BY <1>1, <1>2, <1>3, <1>4, <1>5 DEF Decide

(* Steps by which a run takes up or lays down its work.                    *)
LEMMA RunInPhase ==
    ASSUME NEW r \in Run, NEW phase \in Phase
    PROVE  [r EXCEPT !.phase = phase] \in Run /\ [r EXCEPT !.phase = phase].phase = phase
  BY DEF Run

LEMMA CoreTake == ASSUME Core, NEW j \in Jobs, Take(j) PROVE Core'
<1> USE DEF Core
<1>1. job[j] \in Job
  BY DEF Take, TypeOK, NoJob
<1>2. job' \in [Jobs -> Job \cup {NoJob}] /\ job'[j] \in Job /\ job'[j].status = "processing"
  BY <1>1 DEF Take, TypeOK, Job
<1>3. j \in Execs /\ run[j] \in Run
  BY DEF Execs, TypeOK
<1> DEFINE r == [run[j] EXCEPT !.phase = "taken"]
<1>4. r \in Run /\ r.phase = "taken"
  BY <1>3, RunInPhase DEF Phase
<1>5. Shaped(r)
  BY <1>4 DEF Shaped, Named
<1>6. run' = [run EXCEPT ![j] = r]
  BY <1>3 DEF Take, TypeOK
<1> HIDE DEF r
<1>7. run' \in [Execs -> Run] /\ Shape' /\ \A y \in Execs \ {j} : run'[y] = run[y]
  BY <1>3, <1>4, <1>5, <1>6, OneRun
<1>8. Busy'
  BY <1>2, <1>7 DEF Take, Busy, Execs, TypeOK
<1> QED
  BY <1>2, <1>7, <1>8, CoreByParts DEF Take, TypeOK, Mergeable

LEMMA CoreClientUnavailable == ASSUME Core, NEW j \in Jobs, ClientUnavailable(j) PROVE Core'
<1> USE DEF Core
<1>3. j \in Execs /\ run[j].phase # "idle" /\ run[j] \in Run
  BY DEF Execs, ClientUnavailable, TypeOK
<1> DEFINE r == [run[j] EXCEPT !.phase = "raised"]
<1>4. r \in Run /\ r.phase = "raised"
  BY <1>3, RunInPhase DEF Phase
<1>5. Shaped(r)
  BY <1>4 DEF Shaped, Named
<1>6. run' = [run EXCEPT ![j] = r]
  BY <1>3 DEF ClientUnavailable, TypeOK
<1> HIDE DEF r
<1>7. run' \in [Execs -> Run] /\ Shape' /\ \A y \in Execs \ {j} : run'[y] = run[y]
  BY <1>3, <1>4, <1>5, <1>6, OneRun
<1>8. Busy'
  BY <1>3, <1>7, BusyStep DEF ClientUnavailable
<1> QED
  BY <1>7, <1>8, CoreByParts DEF ClientUnavailable, Upset, TypeOK, Mergeable

LEMMA CoreOpenProposal == ASSUME Core, NEW j \in Jobs, OpenProposal(j) PROVE Core'
<1> USE DEF Core
<1>1. j \in Execs /\ run[j].phase = "taken" /\ job[j] \in Job
  BY DEF Execs, OpenProposal, Busy
<1> DEFINE p == prop[job[j].proposal]
           r == IF ProposalLocked(job[j].proposal) THEN [run[j] EXCEPT !.phase = "raised"]
                ELSE IF Resumes(j)
                THEN [Idle EXCEPT !.phase = "locking", !.canonical = p.canonical,
                                  !.names = p.aliases \cup {p.canonical},
                                  !.aliases = p.aliases]
                ELSE [run[j] EXCEPT !.phase = "succeeded"]
<1>2. run' = [run EXCEPT ![j] = r]
  BY <1>1 DEF OpenProposal, TypeOK
<1>3. p \in Proposal /\ run[j] \in Run
  BY <1>1 DEF TypeOK, Job
<1>4. r \in Run /\ Shaped(r)
  <2>1. CASE ProposalLocked(job[j].proposal)
    BY <2>1, <1>3 DEF Run, Phase, Shaped, Named
  <2>2. CASE ~ProposalLocked(job[j].proposal) /\ ~Resumes(j)
    BY <2>2, <1>3 DEF Run, Phase, Shaped, Named
  <2>3. CASE ~ProposalLocked(job[j].proposal) /\ Resumes(j)
    <3>1. p.canonical \in Projects \ p.aliases /\ p.aliases \subseteq Projects
      BY <2>3, <1>1, <1>3 DEF Resumes, Mergeable, Job, Proposal
    <3>2. r = [Idle EXCEPT !.phase = "locking", !.canonical = p.canonical,
                           !.names = p.aliases \cup {p.canonical},
                           !.aliases = p.aliases]
      BY <2>3
    <3> HIDE DEF p, r
    <3>3. r \in Run
      BY <3>1, <3>2 DEF Run, Phase, Idle, Nowhere
    <3> QED
      BY <3>1, <3>2, <3>3 DEF Shaped, Named, Idle, Nowhere
  <2> QED
    BY <2>1, <2>2, <2>3
<1> HIDE DEF r
<1>7. run' \in [Execs -> Run] /\ Shape' /\ \A y \in Execs \ {j} : run'[y] = run[y]
  BY <1>1, <1>2, <1>4, OneRun
<1>8. Busy'
  BY <1>1, <1>7, BusyStep DEF OpenProposal
<1> QED
  BY <1>7, <1>8, CoreByParts DEF OpenProposal, TypeOK, Mergeable

LEMMA CoreStartRename ==
    ASSUME Core, ProjectMergeAssumption, NEW x \in Renames, NEW old \in Projects,
           NEW new \in Projects, StartRename(x, old, new)
    PROVE  Core'
<1> USE DEF Core
<1>1. x \in Execs /\ x \notin Jobs
  BY DEF Execs, ProjectMergeAssumption
<1> DEFINE r == [Idle EXCEPT !.phase = "locking", !.canonical = new,
                             !.names = {old, new}, !.aliases = {old}]
<1>2. run' = [run EXCEPT ![x] = r]
  BY DEF StartRename
<1>3. r \in Run
  BY DEF Run, Phase, Idle, Nowhere
<1>4. Shaped(r)
  BY DEF Shaped, Named, Idle, Nowhere, StartRename
<1> HIDE DEF r
<1>5. run' \in [Execs -> Run] /\ Shape' /\ \A y \in Execs \ {x} : run'[y] = run[y]
  BY <1>1, <1>2, <1>3, <1>4, OneRun
<1>6. Busy'
  BY <1>1, <1>5 DEF StartRename, Busy, Execs
<1> QED
  BY <1>5, <1>6, CoreByParts DEF StartRename, TypeOK, Mergeable

(* Steps of a merge.                                                       *)

LEMMA Ends ==
    ASSUME NEW x
    PROVE  {Failed(x), Refused(x), Ended(x)} \subseteq Phase \ (Named \cup {"idle", "taken"})
  BY DEF Failed, Refused, Ended, Phase, Named

\* A run lays down its merge, with a note or without.
LEMMA CoreEnter ==
    ASSUME Core, NEW x \in Execs, run[x].phase # "idle",
           NEW ph \in Phase \ Named, Enter(x, ph),
           UNCHANGED <<catalog, refs, point, prop, job>>,
           \/ UNCHANGED left
           \/ \E S, reason : reason \in Reason /\ Note(S, reason),
           UNCHANGED upsets \/ Upset
    PROVE  Core'
<1> USE DEF Core
<1>1. run' \in [Execs -> Run] /\ Shape' /\ \A y \in Execs \ {x} : run'[y] = run[y]
  BY EnterCore
<1>2. Busy'
  BY <1>1, BusyStep
<1>3. left' \in [Points -> SUBSET Reason]
  BY NoteType DEF TypeOK
<1>4. upsets' \in Nat
  BY DEF TypeOK, Upset
<1> QED
  BY <1>1, <1>2, <1>3, <1>4, CoreByParts DEF TypeOK, Mergeable

\* A run goes on with its merge.
LEMMA CoreGoesOn ==
    ASSUME Core, NEW x \in Execs, run[x].phase # "idle",
           NEW r \in Run, Shaped(r), run' = [run EXCEPT ![x] = r],
           UNCHANGED <<catalog, refs, prop, job>>,
           point' \in [Points -> Projects],
           \/ UNCHANGED left
           \/ \E S, reason : reason \in Reason /\ Note(S, reason),
           UNCHANGED upsets \/ Upset
    PROVE  Core'
<1> USE DEF Core
<1>1. run' \in [Execs -> Run] /\ Shape' /\ \A y \in Execs \ {x} : run'[y] = run[y]
  BY OneRun
<1>2. Busy'
  BY <1>1, BusyStep
<1>3. left' \in [Points -> SUBSET Reason]
  BY NoteType DEF TypeOK
<1>4. upsets' \in Nat
  BY DEF TypeOK, Upset
<1> QED
  BY <1>1, <1>2, <1>3, <1>4, CoreByParts DEF TypeOK, Mergeable

LEMMA CoreStage == ASSUME Core, NEW x \in Execs, Stage(x) PROVE Core'
<1> DEFINE as == IF x \in Jobs THEN {a \in run[x].aliases : Exists(a)} ELSE run[x].aliases
           r  == [run[x] EXCEPT !.phase = "moving", !.aliases = as,
                                !.rows = {q \in Points : refs[q] \in as},
                                !.cats = as \cap catalog, !.todo = as]
<1>1. run[x] \in Run /\ Shaped(run[x]) /\ run[x].phase = "locking"
  BY DEF Core, TypeOK, Shape, Stage, AllLocked
<1>2. as \subseteq run[x].aliases
  OBVIOUS
<1> HIDE DEF as
<1>3. r \in Run
  BY <1>1, <1>2 DEF Run, Phase
<1>4. Shaped(r)
  BY <1>1, <1>2 DEF Shaped, Run, Named
<1>5. run' = [run EXCEPT ![x] = r]
  BY DEF Stage, Core, TypeOK, as
<1> QED
  BY <1>1, <1>3, <1>4, <1>5, CoreGoesOn DEF Stage, Core, TypeOK, Reason

LEMMA CoreLockName ==
    ASSUME Core, NEW x \in Execs, NEW a \in Projects, LockName(x, a) PROVE Core'
<1> DEFINE r == [run[x] EXCEPT !.locks = @ \cup {a}]
<1>1. run[x] \in Run /\ Shaped(run[x]) /\ run[x].phase = "locking"
  BY DEF Core, TypeOK, Shape, LockName, NextName
<1>2. r \in Run
  BY <1>1 DEF Run
<1>3. Shaped(r)
  BY <1>1 DEF Shaped, Run, Named
<1>4. run' = [run EXCEPT ![x] = r]
  BY DEF LockName, Core, TypeOK
<1> QED
  BY <1>1, <1>2, <1>3, <1>4, CoreGoesOn DEF LockName, Core, TypeOK

LEMMA CoreScroll ==
    ASSUME Core, ProjectMergeAssumption, NEW x \in Execs, NEW a \in Projects, Scroll(x, a)
    PROVE  Core'
<1> DEFINE r == [run[x] EXCEPT !.todo = @ \ {a},
                               !.page = [q \in Points |-> IF point[q] = a THEN a
                                                          ELSE NoProject]]
<1>1. run[x] \in Run /\ Shaped(run[x]) /\ run[x].phase = "moving" /\ a \in run[x].aliases
  BY DEF Core, TypeOK, Shape, Scroll, Shaped, Named
<1>3. r \in Run
  BY <1>1 DEF Run
<1>4. Shaped(r)
  BY <1>1 DEF Shaped, Run, Named
<1>5. run' = [run EXCEPT ![x] = r]
  BY DEF Scroll, Core, TypeOK
<1> QED
  BY <1>1, <1>3, <1>4, <1>5, CoreGoesOn DEF Scroll, Core, TypeOK

LEMMA CoreMove ==
    ASSUME Core, NEW x \in Execs, NEW q \in Points, Move(x, q) PROVE Core'
<1> DEFINE r == [run[x] EXCEPT !.page[q] = NoProject,
                               !.log[q] = IF @ = NoProject THEN run[x].page[q] ELSE @]
<1>1. run[x] \in Run /\ Shaped(run[x]) /\ run[x].phase = "moving"
  BY DEF Core, TypeOK, Shape, Move
<1>3. r \in Run
  BY <1>1 DEF Run
<1>4. Shaped(r)
  BY <1>1 DEF Shaped, Run, Named, Move
<1>5. run' = [run EXCEPT ![x] = r]
  BY <1>1 DEF Move, Core, TypeOK
<1>6. point' \in [Points -> Projects]
  BY <1>1 DEF Move, Core, TypeOK, Shaped, Named
<1> QED
  BY <1>1, <1>3, <1>4, <1>5, <1>6, CoreGoesOn DEF Move

LEMMA CoreRollback ==
    ASSUME Core, NEW x \in Execs, run[x].phase \in {"moving", "verifying"}, Rollback(x)
    PROVE  \E r \in Run : Shaped(r) /\ run' = [run EXCEPT ![x] = r]
<1> DEFINE r == [run[x] EXCEPT !.phase = "undoing", !.page = Nowhere]
<1>1. run[x] \in Run /\ Shaped(run[x])
  BY DEF Core, TypeOK, Shape
<1>2. r \in Run
  BY <1>1 DEF Run, Phase, Nowhere
<1>3. Shaped(r)
  BY <1>1 DEF Shaped, Run, Named, Nowhere
<1>4. run' = [run EXCEPT ![x] = r]
  BY DEF Rollback, Core, TypeOK
<1> QED
  BY <1>2, <1>3, <1>4

LEMMA CoreMoveFails == ASSUME Core, NEW x \in Execs, MoveFails(x) PROVE Core'
<1>1. PICK r \in Run : Shaped(r) /\ run' = [run EXCEPT ![x] = r]
  BY CoreRollback DEF MoveFails
<1> QED
  BY <1>1, CoreGoesOn DEF MoveFails, Core, TypeOK

LEMMA CoreMoveUnanswered ==
    ASSUME Core, NEW x \in Execs, NEW q \in Points, MoveUnanswered(x, q) PROVE Core'
<1>1. PICK r \in Run : Shaped(r) /\ run' = [run EXCEPT ![x] = r]
  BY CoreRollback DEF MoveUnanswered
<1>2. run[x].canonical \in Projects /\ run[x].phase # "idle"
  BY DEF MoveUnanswered, Core, Shape, Shaped, Named
<1>3. point' \in [Points -> Projects]
  BY <1>2 DEF MoveUnanswered, Core, TypeOK
<1>4. \E S, reason : reason \in Reason /\ Note(S, reason)
  BY DEF MoveUnanswered, Reason
<1> QED
  BY <1>1, <1>2, <1>3, <1>4, CoreGoesOn DEF MoveUnanswered

\* What a commit writes.
LEMMA LandParts ==
    ASSUME Core, Held, NEW x \in Execs, run[x].phase = "moving", Land(x)
    PROVE  /\ catalog' \subseteq Projects
           /\ refs' \in [Points -> Projects]
           /\ prop' \in [Proposals -> Proposal]
           /\ Mergeable'
           /\ x \in Jobs =>
                 /\ job[x].proposal \in Proposals
                 /\ prop'[job[x].proposal].status = "applied"
                 /\ prop'[job[x].proposal].job = x
                 /\ \A o \in Proposals \ {job[x].proposal} : prop'[o] = prop[o]
           /\ x \notin Jobs => prop' = prop
<1>1. run[x] \in Run /\ run[x].canonical \in Projects
  BY DEF Core, TypeOK, Shape, Shaped, Named
<1>2. catalog' \subseteq Projects /\ refs' \in [Points -> Projects]
  BY <1>1 DEF Land, Core, TypeOK
<1>3. CASE x \in Jobs
  <2> DEFINE p == job[x].proposal
  <2>1. p \in Proposals /\ prop[p].status # "absent"
    BY <1>3 DEF Core, Busy, Job, Held, Holding
  <2>2. prop' = [prop EXCEPT ![p] = [prop[p] EXCEPT !.status = "applied", !.job = x]]
    BY <1>3, <2>1 DEF Land, Core, TypeOK
  <2> HIDE DEF p
  <2>3. /\ prop' \in [Proposals -> Proposal] /\ Mergeable'
        /\ prop'[p].status = "applied" /\ prop'[p].job = x
        /\ \A o \in Proposals \ {p} : prop'[o] = prop[o]
    BY <1>3, <2>1, <2>2, PropStep DEF ProposalStatus
  <2> QED
    BY <1>2, <1>3, <2>1, <2>3 DEF p
<1>4. CASE x \notin Jobs
  BY <1>2, <1>4 DEF Land, Core, TypeOK, Mergeable
<1> QED
  BY <1>3, <1>4

LEMMA CoreCommit == ASSUME Core, Held, NEW x \in Execs, Commit(x) PROVE Core'
<1>1. run' \in [Execs -> Run] /\ Shape' /\ \A y \in Execs \ {x} : run'[y] = run[y]
  BY Ends, EnterCore DEF Commit
<1>2. Busy'
  BY <1>1, BusyStep DEF Commit
<1> QED
  BY <1>1, <1>2, LandParts, CoreByParts DEF Commit, Core, TypeOK

LEMMA CoreCommitAmbiguous ==
    ASSUME Core, Held, NEW x \in Execs, CommitAmbiguous(x) PROVE Core'
<1>1. PICK landed \in BOOLEAN :
        /\ IF landed THEN Land(x) ELSE UNCHANGED <<catalog, refs, prop>>
        /\ run' = [run EXCEPT ![x].phase = "verifying", ![x].landed = landed]
  BY DEF CommitAmbiguous
<1> DEFINE r == [run[x] EXCEPT !.phase = "verifying", !.landed = landed]
<1>2. run[x] \in Run /\ Shaped(run[x]) /\ run[x].phase = "moving" /\ run[x].page = Nowhere
  BY DEF Core, TypeOK, Shape, CommitAmbiguous, AllMoved
<1>3. r \in Run
  BY <1>2 DEF Run, Phase
<1>4. Shaped(r)
  BY <1>2 DEF Shaped, Run, Named, Nowhere
<1>5. run' = [run EXCEPT ![x] = r]
  BY <1>1 DEF Core, TypeOK
<1> HIDE DEF r
<1>6. run' \in [Execs -> Run] /\ Shape' /\ \A y \in Execs \ {x} : run'[y] = run[y]
  BY <1>3, <1>4, <1>5, OneRun
<1>7. Busy'
  BY <1>2, <1>6, BusyStep DEF CommitAmbiguous
<1>8. /\ catalog' \subseteq Projects /\ refs' \in [Points -> Projects]
      /\ prop' \in [Proposals -> Proposal] /\ Mergeable'
  <2>1. CASE landed
    BY <1>1, <1>2, <2>1, LandParts
  <2>2. CASE ~landed
    BY <1>1, <2>2 DEF Core, TypeOK, Mergeable
  <2> QED
    BY <2>1, <2>2
<1> QED
  BY <1>6, <1>7, <1>8, CoreByParts DEF CommitAmbiguous, Core, TypeOK, Upset

LEMMA CoreVerify == ASSUME Core, NEW x \in Execs, Verify(x) PROVE Core'
<1>1. UNCHANGED left \/ \E S, reason : reason \in Reason /\ Note(S, reason)
  BY DEF Verify, Reason
<1>2. CASE Enter(x, Ended(x))
  BY <1>1, <1>2, Ends, CoreEnter DEF Verify
<1>3. CASE Rollback(x)
  <2>1. PICK r \in Run : Shaped(r) /\ run' = [run EXCEPT ![x] = r]
    BY <1>3, CoreRollback DEF Verify
  <2> QED
    BY <1>1, <2>1, CoreGoesOn DEF Verify, Core, TypeOK
<1> QED
  BY <1>2, <1>3 DEF Verify

LEMMA CoreVerifyFails == ASSUME Core, NEW x \in Execs, VerifyFails(x) PROVE Core'
<1>1. UNCHANGED left \/ \E S, reason : reason \in Reason /\ Note(S, reason)
  BY DEF VerifyFails, Reason
<1> QED
  BY <1>1, Ends, CoreEnter DEF VerifyFails

LEMMA CoreRefuse == ASSUME Core, NEW x \in Execs, Refuse(x) PROVE Core'
  BY Ends, CoreEnter DEF Refuse, AllLocked

LEMMA CoreStageFails == ASSUME Core, NEW x \in Execs, StageFails(x) PROVE Core'
  BY Ends, CoreEnter DEF StageFails

LEMMA CoreUndone == ASSUME Core, NEW x \in Execs, Undone(x) PROVE Core'
  BY Ends, CoreEnter DEF Undone

\* A point of a run that is being undone leaves its log.
LEMMA Unlogged ==
    ASSUME Core, NEW x \in Execs, NEW q \in Points, run[x].phase = "undoing",
           run' = [run EXCEPT ![x].log[q] = NoProject]
    PROVE  \E r \in Run : /\ Shaped(r)
                          /\ run' = [run EXCEPT ![x] = r]
<1> DEFINE r == [run[x] EXCEPT !.log[q] = NoProject]
<1>1. run[x] \in Run /\ Shaped(run[x])
  BY DEF Core, TypeOK, Shape
<1>2. r \in Run
  BY <1>1 DEF Run
<1>3. Shaped(r)
  BY <1>1 DEF Shaped, Run, Named
<1>4. run' = [run EXCEPT ![x] = r]
  BY DEF Core, TypeOK
<1> QED
  BY <1>2, <1>3, <1>4

LEMMA CoreUndoPoint ==
    ASSUME Core, NEW x \in Execs, NEW q \in Points, UndoPoint(x, q) PROVE Core'
<1>1. PICK r \in Run : Shaped(r) /\ run' = [run EXCEPT ![x] = r]
  BY Unlogged DEF UndoPoint
<1>2. point' \in [Points -> Projects]
  BY DEF UndoPoint, Core, TypeOK, Moved, Run
<1> QED
  BY <1>1, <1>2, CoreGoesOn DEF UndoPoint

LEMMA CoreUndoFails ==
    ASSUME Core, NEW x \in Execs, NEW q \in Points, UndoFails(x, q) PROVE Core'
<1>1. PICK r \in Run : Shaped(r) /\ run' = [run EXCEPT ![x] = r]
  BY Unlogged DEF UndoFails
<1>2. \E S, reason : reason \in Reason /\ Note(S, reason)
  BY DEF UndoFails, Reason
<1>3. point' \in [Points -> Projects]
  BY DEF UndoFails, Core, TypeOK, Moved, Run
<1> QED
  BY <1>1, <1>2, <1>3, CoreGoesOn DEF UndoFails

(* After a merge, and crashes.                                             *)
LEMMA CoreMarkFailed == ASSUME Core, NEW j \in Jobs, MarkFailed(j) PROVE Core'
<1> DEFINE p == job[j].proposal
           ph == IF run[j].phase = "failing" THEN "raised" ELSE "succeeded"
<1>1. j \in Execs /\ p \in Proposals /\ run[j].phase # "idle"
  BY DEF Execs, MarkFailed, Core, Busy, Job
<1>2. ph \in Phase \ Named /\ Enter(j, ph)
  BY DEF MarkFailed, Phase, Named
<1> HIDE DEF ph
<1>3. run' \in [Execs -> Run] /\ Shape' /\ \A y \in Execs \ {j} : run'[y] = run[y]
  BY <1>1, <1>2, EnterCore
<1>4. Busy'
  BY <1>1, <1>3, BusyStep DEF MarkFailed
<1>5. prop' \in [Proposals -> Proposal] /\ Mergeable'
  <2>1. CASE Transition(p, {"approved", "failed"}, "failed")
    BY <1>1, <2>1, TransitionCore DEF ProposalStatus
  <2>2. CASE UNCHANGED prop
    BY <2>2 DEF Core, TypeOK, Mergeable
  <2> QED
    BY <2>1, <2>2 DEF MarkFailed
<1> QED
  BY <1>3, <1>4, <1>5, CoreByParts DEF MarkFailed, Core, TypeOK

LEMMA CoreEndJob == ASSUME Core, NEW j \in Jobs, EndJob(j) PROVE Core'
<1>1. j \in Execs /\ run[j].phase # "idle" /\ job[j] \in Job
  BY DEF Execs, EndJob, Core, Busy
<1>2. /\ run' \in [Execs -> Run] /\ Shape' /\ run'[j].phase = "idle"
      /\ \A y \in Execs \ {j} : run'[y] = run[y]
  BY <1>1, EnterCore DEF EndJob, Phase, Named
<1>3. job' \in [Jobs -> Job \cup {NoJob}] /\ \A i \in Jobs \ {j} : job'[i] = job[i]
  BY <1>1 DEF EndJob, Core, TypeOK, Job
<1>4. Busy'
  BY <1>2, <1>3 DEF Core, Busy, Execs
<1> QED
  BY <1>2, <1>3, <1>4, CoreByParts DEF EndJob, Core, TypeOK, Mergeable

LEMMA IdleRun == /\ Idle \in Run /\ Idle.phase = "idle" /\ Shaped(Idle)
                 /\ [Idle EXCEPT !.phase = "over"] \in Run
                 /\ [Idle EXCEPT !.phase = "over"].phase = "over"
                 /\ Shaped([Idle EXCEPT !.phase = "over"])
<1>1. Idle.phase = "idle" /\ Idle \in Run
  BY DEF Idle, Run, Nowhere, Phase
<1>2. "over" \in Phase \ Named
  BY DEF Phase, Named
<1> QED
  BY <1>1, <1>2, IdleShaped DEF Shaped, Named

LEMMA CoreWorkerCrash == ASSUME Core, WorkerCrash PROVE Core'
<1>1. /\ run' \in [Execs -> Run] /\ Shape' /\ \A j \in Jobs : run'[j].phase = "idle"
  BY IdleRun DEF WorkerCrash, Core, TypeOK, Shape, Execs
<1>2. job' \in [Jobs -> Job \cup {NoJob}]
  <2>1. \A j \in Jobs : job[j].status = "processing" =>
           [job[j] EXCEPT !.status = "queued"] \in Job
    BY DEF Core, TypeOK, Job, NoJob
  <2> QED
    BY <2>1 DEF WorkerCrash, Core, TypeOK
<1>3. Busy'
  BY <1>1 DEF Busy
<1>4. left' \in [Points -> SUBSET Reason]
  BY NoteType DEF WorkerCrash, Core, TypeOK, Reason
<1> QED
  BY <1>1, <1>2, <1>3, <1>4, CoreByParts DEF WorkerCrash, Core, TypeOK, Mergeable, Upset

LEMMA CoreApiCrash == ASSUME Core, ProjectMergeAssumption, ApiCrash PROVE Core'
<1>1. /\ run' \in [Execs -> Run] /\ Shape' /\ \A j \in Jobs : run'[j] = run[j]
  BY IdleRun DEF ApiCrash, Core, TypeOK, Shape, Execs, ProjectMergeAssumption
<1>2. job' \in [Jobs -> Job \cup {NoJob}]
  <2>1. \A j \in Jobs : job[j].status = "unsent" =>
           [job[j] EXCEPT !.status = "lost"] \in Job
    BY DEF Core, TypeOK, Job, NoJob
  <2> QED
    BY <2>1 DEF ApiCrash, Core, TypeOK
<1>3. Busy'
  BY <1>1 DEF Busy, ApiCrash, Core
<1>4. left' \in [Points -> SUBSET Reason]
  BY NoteType DEF ApiCrash, Core, TypeOK, Reason
<1>5. upsets' \in Nat /\ UNCHANGED <<catalog, refs, point, prop>>
  BY DEF ApiCrash, Upset, Core, TypeOK
<1>6. Mergeable'
  BY <1>5 DEF Mergeable, Core
<1>7. TypeOK
  BY DEF Core
<1> QED
  BY <1>1, <1>2, <1>3, <1>4, <1>5, <1>6, <1>7, CoreByParts DEF TypeOK

LEMMA CoreMerge ==
    ASSUME Core, Held, ProjectMergeAssumption, NEW x \in Execs,
           MergeStep(x) \/ MergeFault(x)
    PROVE  Core'
  BY CoreStage, CoreRefuse, CoreCommit, CoreVerify, CoreUndone, CoreScroll, CoreMove,
     CoreUndoPoint, CoreStageFails, CoreMoveFails, CoreMoveUnanswered,
     CoreCommitAmbiguous, CoreVerifyFails, CoreUndoFails, CoreLockName
     DEF MergeStep, MergeFault

LEMMA CoreNext ==
    ASSUME Core, Held, ProjectMergeAssumption, [Next]_vars PROVE Core'
<1>1. CASE Decide
  BY <1>1, CoreDecide
<1>2. CASE \E j \in Jobs : JobStep(j) \/ ClientUnavailable(j)
  <2>1. PICK j \in Jobs : JobStep(j) \/ ClientUnavailable(j)
    BY <1>2
  <2>2. j \in Execs
    BY DEF Execs
  <2> QED
    BY <2>1, <2>2, CoreTake, CoreOpenProposal, CoreMerge, CoreMarkFailed, CoreEndJob,
       CoreClientUnavailable DEF JobStep
<1>3. CASE \E x \in Renames, old, new \in Projects : StartRename(x, old, new)
  BY <1>3, CoreStartRename
<1>4. CASE (\E x \in Renames : MergeStep(x)) \/ (\E x \in Execs : MergeFault(x))
  BY <1>4, CoreMerge DEF Execs
<1>5. CASE WorkerCrash \/ ApiCrash
  BY <1>5, CoreWorkerCrash, CoreApiCrash
<1>6. CASE UNCHANGED vars
  BY <1>6 DEF vars, Core, TypeOK, Busy, Mergeable, Shape
<1> QED
  BY <1>1, <1>2, <1>3, <1>4, <1>5, <1>6 DEF Next

-----------------------------------------------------------------------------
(* Control                                                                 *)

\* A running job keeps its proposal.
LEMMA JobNext ==
    ASSUME Core, [Next]_vars, NEW j \in Jobs, run[j].phase # "idle"
    PROVE  job'[j].proposal = job[j].proposal
<1>1. job \in [Jobs -> Job \cup {NoJob}] /\ job[j] \in Job /\ job[j].status = "processing"
  BY DEF Core, TypeOK, Busy
<1>2. CASE UNCHANGED job
  BY <1>2
<1>3. CASE \E p \in Proposals, i \in Jobs : Approve(p, i)
  BY <1>1, <1>3 DEF Approve, NoJob
<1>4. CASE \E i \in Jobs : Enqueue(i) \/ EnqueueFails(i)
  BY <1>1, <1>4 DEF Enqueue, EnqueueFails
<1>5. CASE \E i \in Jobs : Take(i) \/ EndJob(i)
  <2>1. PICK i \in Jobs : Take(i) \/ EndJob(i)
    BY <1>5
  <2>2. CASE i # j
    BY <2>1, <2>2, <1>1 DEF Take, EndJob
  <2>3. CASE i = j
    BY <2>1, <2>3, <1>1 DEF Take, EndJob, Job
  <2> QED
    BY <2>2, <2>3
<1>6. CASE WorkerCrash \/ ApiCrash
  BY <1>1, <1>6 DEF WorkerCrash, ApiCrash, Job
<1>7. ASSUME NEW x \in Execs, MergeStep(x) \/ MergeFault(x) PROVE UNCHANGED job
  <2>1. CASE MergeStep(x)
    BY <2>1 DEF MergeStep, Stage, Refuse, Commit, Verify, Undone, LockName, Scroll, Move,
       UndoPoint
  <2>2. CASE MergeFault(x)
    BY <2>2 DEF MergeFault, StageFails, MoveFails, MoveUnanswered, CommitAmbiguous,
       VerifyFails, UndoFails
  <2> QED
    BY <1>7, <2>1, <2>2
<1>8. CASE Decide
  BY <1>2, <1>3, <1>4, <1>8 DEF Decide, Record, Reject
<1>9. ASSUME NEW i \in Jobs, JobStep(i) \/ ClientUnavailable(i)
      PROVE  job'[j].proposal = job[j].proposal
  BY <1>2, <1>5, <1>7, <1>9 DEF JobStep, ClientUnavailable, OpenProposal, MarkFailed, Execs
<1>10. CASE \E x \in Renames, old, new \in Projects : StartRename(x, old, new)
  BY <1>2, <1>10 DEF StartRename
<1> QED
  BY <1>2, <1>6, <1>7, <1>8, <1>9, <1>10 DEF Next, vars, Execs

\* How the run of a job changes, as far as its proposal is concerned.
Kept(j)     == run'[j] = run[j]
Left(j)     == run'[j].phase \notin Holding \cup {"verifying"}
GoesOn(j)   == run[j].phase \in Holding /\ run'[j].phase \in Holding
Opens(j)    == /\ ~ProposalLocked(job[j].proposal)
               /\ prop[job[j].proposal].status \in {"approved", "failed"}
               /\ UNCHANGED prop
               /\ run[j].phase # "idle"
               /\ run'[j].phase = "locking"
               /\ \A i \in Jobs \ {j} : run'[i] = run[i]
Asks(j)     == /\ run[j].phase = "moving"
               /\ run'[j].phase = "verifying"
               /\ run'[j].landed \in BOOLEAN
               /\ IF run'[j].landed
                  THEN /\ prop'[job[j].proposal].status = "applied"
                       /\ prop'[job[j].proposal].job = j
                  ELSE UNCHANGED prop

LEMMA RunOfOther ==
    ASSUME Core, NEW x \in Execs, MergeStep(x) \/ MergeFault(x)
    PROVE  \A y \in Execs \ {x} : run'[y] = run[y]
  BY DEF Core, TypeOK, MergeStep, MergeFault, Stage, Refuse, Commit, Verify, Undone,
         LockName, Scroll, Move, UndoPoint, StageFails, MoveFails, MoveUnanswered,
         CommitAmbiguous, VerifyFails, UndoFails, Enter, Rollback

LEMMA RunOfMerge ==
    ASSUME Core, Held, NEW j \in Jobs, MergeStep(j) \/ MergeFault(j)
    PROVE  Left(j) \/ GoesOn(j) \/ Asks(j)
<1>1. j \in Execs /\ run \in [Execs -> Run] /\ run[j] \in Run
  BY DEF Execs, Core, TypeOK
<1>2. CASE Refuse(j) \/ Commit(j) \/ Undone(j) \/ StageFails(j) \/ VerifyFails(j)
  <2>1. \E ph \in Phase \ Named : Enter(j, ph)
    BY <1>2, Ends DEF Refuse, Commit, Undone, StageFails, VerifyFails
  <2> QED
    BY <1>1, <2>1, EnterCore DEF Left, Named, Holding
<1>3. CASE Verify(j)
  <2>1. CASE Enter(j, Ended(j))
    BY <1>1, <2>1, Ends, EnterCore DEF Left, Named, Holding
  <2>2. CASE Rollback(j)
    BY <1>1, <2>2 DEF Rollback, Left, Holding
  <2> QED
    BY <1>3, <2>1, <2>2 DEF Verify
<1>4. CASE MoveFails(j) \/ \E q \in Points : MoveUnanswered(j, q)
  <2>1. Rollback(j)
    BY <1>4 DEF MoveFails, MoveUnanswered
  <2>2. run'[j].phase = "undoing"
    BY <1>1, <2>1 DEF Rollback, Run
  <2> QED
    BY <2>2 DEF Left, Holding
<1>5. CASE Stage(j) \/ \E a \in Projects : LockName(j, a)
  <2>1. run[j].phase = "locking"
    BY <1>5 DEF Stage, AllLocked, LockName, NextName
  <2>2. CASE Stage(j)
    <3>1. run'[j].phase = "moving"
      BY <1>1, <2>2 DEF Stage, Run
    <3> QED
      BY <2>1, <3>1 DEF GoesOn, Holding
  <2>3. CASE \E a \in Projects : LockName(j, a)
    <3>1. run'[j].phase = "locking"
      BY <1>1, <2>1, <2>3 DEF LockName, Run
    <3> QED
      BY <2>1, <3>1 DEF GoesOn, Holding
  <2> QED
    BY <1>5, <2>2, <2>3
<1>6. CASE \E a \in Projects : Scroll(j, a)
  BY <1>1, <1>6 DEF Scroll, GoesOn, Holding
<1>7. CASE \E q \in Points : Move(j, q)
  BY <1>1, <1>7 DEF Move, GoesOn, Holding
<1>8. CASE \E q \in Points : UndoPoint(j, q) \/ UndoFails(j, q)
  <2>1. PICK q \in Points : UndoPoint(j, q) \/ UndoFails(j, q)
    BY <1>8
  <2>2. run[j].phase = "undoing" /\ run' = [run EXCEPT ![j].log[q] = NoProject]
    BY <2>1 DEF UndoPoint, UndoFails
  <2>3. run'[j].phase = "undoing"
    BY <1>1, <2>2 DEF Run
  <2> QED
    BY <2>3 DEF Left, Holding
<1>9. CASE CommitAmbiguous(j)
  <2>1. PICK landed \in BOOLEAN :
          /\ IF landed THEN Land(j) ELSE UNCHANGED <<catalog, refs, prop>>
          /\ run' = [run EXCEPT ![j].phase = "verifying", ![j].landed = landed]
    BY <1>9 DEF CommitAmbiguous
  <2>2. run[j].phase = "moving" /\ run'[j].phase = "verifying" /\ run'[j].landed = landed
    BY <1>1, <1>9, <2>1 DEF CommitAmbiguous, Run
  <2> QED
    BY <1>1, <2>1, <2>2, LandParts DEF Asks
<1> QED
  BY <1>2, <1>3, <1>4, <1>5, <1>6, <1>7, <1>8, <1>9 DEF MergeStep, MergeFault

LEMMA RunNext ==
    ASSUME Core, Held, ProjectMergeAssumption, [Next]_vars, NEW j \in Jobs
    PROVE  Kept(j) \/ Left(j) \/ GoesOn(j) \/ Opens(j) \/ Asks(j)
<1>1. j \in Execs /\ run \in [Execs -> Run] /\ run[j] \in Run
  BY DEF Execs, Core, TypeOK
<1>2. CASE UNCHANGED run
  BY <1>2 DEF Kept
<1>3. CASE \E i \in Jobs : Take(i) \/ ClientUnavailable(i)
  <2>1. PICK i \in Jobs, ph \in {"taken", "raised"} : run' = [run EXCEPT ![i].phase = ph]
    BY <1>3 DEF Take, ClientUnavailable
  <2>2. CASE i = j
    BY <1>1, <2>1, <2>2 DEF Left, Holding, Run
  <2>3. CASE i # j
    BY <1>1, <2>1, <2>3 DEF Kept
  <2> QED
    BY <2>2, <2>3
<1>4. CASE \E i \in Jobs : OpenProposal(i)
  <2>1. PICK i \in Jobs : OpenProposal(i)
    BY <1>4
  <2>2. i \in Execs /\ run[i] \in Run
    BY <1>1 DEF Execs
  <2>3. CASE ProposalLocked(job[i].proposal) \/ ~Resumes(i)
    <3>1. PICK ph \in {"raised", "succeeded"} : run' = [run EXCEPT ![i].phase = ph]
      BY <2>1, <2>3 DEF OpenProposal
    <3>2. CASE i = j
      BY <1>1, <3>1, <3>2 DEF Left, Holding, Run
    <3>3. CASE i # j
      BY <1>1, <3>1, <3>3 DEF Kept
    <3> QED
      BY <3>2, <3>3
  <2>4. CASE ~ProposalLocked(job[i].proposal) /\ Resumes(i)
    <3>1. run'[i].phase = "locking" /\ \A y \in Execs \ {i} : run'[y] = run[y]
      <4> DEFINE p == prop[job[i].proposal]
                 r == [Idle EXCEPT !.phase = "locking", !.canonical = p.canonical,
                                   !.names = p.aliases \cup {p.canonical},
                                   !.aliases = p.aliases]
      <4>1. run' = [run EXCEPT ![i] = r]
        BY <2>1, <2>4 DEF OpenProposal
      <4>2. r.phase = "locking"
        BY DEF Idle
      <4> HIDE DEF r
      <4> QED
        BY <1>1, <2>2, <4>1, <4>2
    <3>2. CASE i = j
      BY <2>1, <2>4, <3>1, <3>2 DEF OpenProposal, Opens, Resumes, Execs
    <3> QED
      BY <1>1, <3>1, <3>2 DEF Kept
  <2> QED
    BY <2>3, <2>4
<1>5. CASE \E i \in Jobs : MarkFailed(i) \/ EndJob(i)
  <2>1. PICK i \in Jobs : MarkFailed(i) \/ EndJob(i)
    BY <1>5
  <2>2. i \in Execs /\ \E ph \in Phase \ Named : Enter(i, ph)
    BY <2>1 DEF MarkFailed, EndJob, Phase, Named, Execs
  <2> QED
    BY <1>1, <2>2, EnterCore DEF Kept, Left, Named, Holding
<1>6. CASE \E x \in Execs : MergeStep(x) \/ MergeFault(x)
  BY <1>1, <1>6, RunOfOther, RunOfMerge DEF Kept
<1>7. CASE \E x \in Renames, old, new \in Projects : StartRename(x, old, new)
  BY <1>1, <1>7 DEF StartRename, Kept, ProjectMergeAssumption
<1>8. CASE WorkerCrash \/ ApiCrash
  BY <1>1, <1>8, IdleRun DEF WorkerCrash, ApiCrash, Kept, Left, Holding, ProjectMergeAssumption
<1> QED
  BY <1>2, <1>3, <1>4, <1>5, <1>6, <1>7, <1>8
     DEF Next, vars, Decide, Record, Reject, Approve, Enqueue, EnqueueFails, JobStep, Execs

\* How a proposal changes: only its merge changes one that is locked, and none
\* changes once it is decided.
Decided(p) == /\ ~ProposalLocked(p)
              /\ prop[p].status \notin {"applied", "rejected"}
              /\ prop'[p].status # "applied"
Merged(p)  == \E i \in Jobs : /\ run[i].phase = "moving"
                              /\ job[i].proposal = p
                              /\ prop'[p].status = "applied"
                              /\ prop'[p].job = i
                              /\ run'[i].phase \notin Holding

LEMMA LandMerges ==
    ASSUME Core, Held, NEW x \in Execs, run[x].phase = "moving", Land(x),
           run'[x].phase \notin Holding, NEW p \in Proposals
    PROVE  prop'[p] = prop[p] \/ Merged(p)
<1>1. CASE x \in Jobs
  BY <1>1, LandParts DEF Merged
<1>2. CASE x \notin Jobs
  BY <1>2, LandParts
<1> QED
  BY <1>1, <1>2

LEMMA PropNext ==
    ASSUME Core, Held, ProjectMergeAssumption, [Next]_vars, NEW p \in Proposals
    PROVE  prop'[p] = prop[p] \/ Decided(p) \/ Merged(p)
<1>1. prop \in [Proposals -> Proposal]
  BY DEF Core, TypeOK
<1>2. CASE UNCHANGED prop
  BY <1>2
<1>3. CASE \E o \in Proposals, c \in Projects, as \in SUBSET Projects : Record(o, c, as)
  <2>1. PICK o \in Proposals, c \in Projects, as \in SUBSET Projects : Record(o, c, as)
    BY <1>3
  <2>2. CASE o = p
    <3>1. ~ProposalLocked(p)
      BY <2>1, <2>2 DEF Record, ProposalLocked, Held, Holding
    <3> QED
      BY <1>1, <2>1, <2>2, <3>1 DEF Record, Decided
  <2> QED
    BY <1>1, <2>1, <2>2 DEF Record
<1>4. CASE \E o \in Proposals : Reject(o) \/ \E j \in Jobs : Approve(o, j)
  <2>1. PICK o \in Proposals : Reject(o) \/ \E j \in Jobs : Approve(o, j)
    BY <1>4
  <2>2. CASE Reject(o)
    BY <1>1, <2>2, TransitionCore DEF Reject, Transition, ProposalStatus, Decided
  <2>3. CASE \E j \in Jobs : Approve(o, j)
    BY <1>1, <2>3 DEF Approve, Decided, Proposal
  <2> QED
    BY <2>1, <2>2, <2>3
<1>5. CASE \E j \in Jobs : EnqueueFails(j) \/ MarkFailed(j)
  <2>1. PICK j \in Jobs : EnqueueFails(j) \/ MarkFailed(j)
    BY <1>5
  <2>2. job[j].proposal \in Proposals
    BY <2>1 DEF EnqueueFails, MarkFailed, Core, TypeOK, Busy, Job, NoJob
  <2>3. \/ UNCHANGED prop
        \/ \E expected \in {{"approved"}, {"approved", "failed"}} :
              Transition(job[j].proposal, expected, "failed")
    BY <2>1 DEF EnqueueFails, MarkFailed
  <2> QED
    BY <1>1, <2>2, <2>3, TransitionCore DEF Transition, ProposalStatus, Decided
<1>6. CASE \E x \in Execs : Commit(x)
  <2>1. PICK x \in Execs : Commit(x)
    BY <1>6
  <2>2. run'[x].phase \notin Holding
    <3>1. \E ph \in Phase \ Named : Enter(x, ph)
      BY <2>1, Ends DEF Commit
    <3> QED
      BY <3>1, EnterCore DEF Named, Holding
  <2> QED
    BY <2>1, <2>2, LandMerges DEF Commit
<1>7. CASE \E x \in Execs : CommitAmbiguous(x)
  <2>1. PICK x \in Execs : CommitAmbiguous(x)
    BY <1>7
  <2>2. PICK landed \in BOOLEAN :
          /\ IF landed THEN Land(x) ELSE UNCHANGED <<catalog, refs, prop>>
          /\ run' = [run EXCEPT ![x].phase = "verifying", ![x].landed = landed]
    BY <2>1 DEF CommitAmbiguous
  <2>3. run'[x].phase \notin Holding /\ run[x].phase = "moving"
    BY <2>1, <2>2 DEF CommitAmbiguous, Core, TypeOK, Run, Holding
  <2> QED
    BY <2>2, <2>3, LandMerges
<1>8. ASSUME NEW x \in Execs, MergeStep(x) \/ MergeFault(x)
      PROVE  UNCHANGED prop \/ Commit(x) \/ CommitAmbiguous(x)
  <2>1. CASE MergeStep(x)
    BY <2>1 DEF MergeStep, Stage, Refuse, Verify, Undone, LockName, Scroll, Move,
       UndoPoint
  <2>2. CASE MergeFault(x)
    BY <2>2 DEF MergeFault, StageFails, MoveFails, MoveUnanswered,
       VerifyFails, UndoFails
  <2> QED
    BY <1>8, <2>1, <2>2
<1>9. ASSUME NEW j \in Jobs, JobStep(j) \/ ClientUnavailable(j)
      PROVE  UNCHANGED prop \/ MarkFailed(j) \/ MergeStep(j)
  BY <1>9 DEF JobStep, Take, ClientUnavailable, OpenProposal, EndJob
<1>10. CASE Decide
  BY <1>2, <1>3, <1>4, <1>5, <1>10 DEF Decide, Enqueue
<1>11. CASE \E j \in Jobs : JobStep(j) \/ ClientUnavailable(j)
  BY <1>2, <1>5, <1>6, <1>7, <1>8, <1>9, <1>11 DEF Execs
<1>12. CASE \E x \in Renames, old, new \in Projects : StartRename(x, old, new)
  BY <1>2, <1>12 DEF StartRename
<1>13. CASE \E x \in Execs : MergeStep(x) \/ MergeFault(x)
  BY <1>2, <1>6, <1>7, <1>8, <1>13
<1>14. CASE WorkerCrash \/ ApiCrash
  BY <1>2, <1>14 DEF WorkerCrash, ApiCrash
<1> QED
  BY <1>2, <1>10, <1>11, <1>12, <1>13, <1>14 DEF Next, vars, Execs

LEMMA HeldNext ==
    ASSUME Core, Held, ProjectMergeAssumption, [Next]_vars PROVE Held'
<1> DEFINE P(j) == job[j].proposal
<1>1. ASSUME NEW j \in Jobs, run'[j].phase \in Holding
      PROVE  /\ run[j].phase \in Holding \/ Opens(j)
             /\ job'[j].proposal = P(j)
             /\ P(j) \in Proposals
             /\ prop'[P(j)].status \in {"approved", "failed"}
  <2>1. Kept(j) \/ GoesOn(j) \/ Opens(j)
    BY <1>1, RunNext DEF Left, Asks, Holding
  <2>2. run[j].phase \in Holding \/ Opens(j)
    BY <1>1, <2>1 DEF Kept, GoesOn
  <2>3. run[j].phase # "idle"
    BY <2>2 DEF Opens, Holding
  <2>4. job'[j].proposal = P(j) /\ P(j) \in Proposals
    BY <2>3, JobNext DEF Core, Busy, Job
  <2>5. CASE Opens(j)
    BY <2>2, <2>4, <2>5 DEF Opens
  <2>6. CASE run[j].phase \in Holding
    <3>1. prop[P(j)].status \in {"approved", "failed"} /\ ProposalLocked(P(j))
      BY <2>6 DEF Held, ProposalLocked, Holding
    <3>2. ~Decided(P(j))
      BY <3>1 DEF Decided
    <3>3. ~Merged(P(j))
      BY <1>1, <2>6 DEF Merged, Held, Holding
    <3> QED
      BY <2>2, <2>4, <3>1, <3>2, <3>3, PropNext
  <2> QED
    BY <2>2, <2>5, <2>6
<1>2. ASSUME NEW i \in Jobs, NEW j \in Jobs, run'[i].phase \in Holding,
             run'[j].phase \in Holding, job'[i].proposal = job'[j].proposal, i # j
      PROVE  FALSE
  <2>1. P(i) = P(j)
    BY <1>1, <1>2
  <2>2. CASE run[i].phase \in Holding /\ run[j].phase \in Holding
    BY <1>2, <2>1, <2>2 DEF Held
  <2>3. CASE Opens(i)
    BY <1>2, <2>1, <2>3 DEF Opens, ProposalLocked, Holding
  <2>4. CASE Opens(j)
    BY <1>2, <2>1, <2>4 DEF Opens, ProposalLocked, Holding
  <2> QED
    BY <1>1, <1>2, <2>2, <2>3, <2>4
<1> QED
  BY <1>1, <1>2 DEF Held

LEMMA VerdictNext ==
    ASSUME Core, Held, Verdict, ProjectMergeAssumption, [Next]_vars PROVE Verdict'
<1> SUFFICES ASSUME NEW j \in Jobs, run'[j].phase = "verifying"
             PROVE  run'[j].landed <=> /\ prop'[job'[j].proposal].status = "applied"
                                       /\ prop'[job'[j].proposal].job = j
  BY DEF Verdict
<1> DEFINE p == job[j].proposal
<1>1. Kept(j) \/ Asks(j)
  BY RunNext DEF Left, GoesOn, Opens, Holding
<1>2. run[j].phase \in {"moving", "verifying"}
  BY <1>1 DEF Kept, Asks
<1>3. job'[j].proposal = p /\ p \in Proposals
  BY <1>2, JobNext DEF Core, Busy, Job
<1>4. CASE Asks(j)
  <2>1. prop[p].status # "applied"
    BY <1>4 DEF Asks, Held, Holding
  <2> QED
    BY <1>3, <1>4, <2>1 DEF Asks
<1>5. CASE Kept(j)
  <2>1. run[j].phase = "verifying" /\ run'[j].landed = run[j].landed
    BY <1>5 DEF Kept
  <2>2. run[j].landed <=> prop[p].status = "applied" /\ prop[p].job = j
    BY <2>1 DEF Verdict
  <2>3. CASE Merged(p)
    <3>1. PICK i \in Jobs : /\ run[i].phase = "moving" /\ job[i].proposal = p
                            /\ prop'[p].job = i
      BY <2>3 DEF Merged
    <3>2. i # j /\ prop[p].status # "applied"
      BY <2>1, <3>1 DEF Held, Holding
    <3> QED
      BY <1>3, <2>1, <2>2, <3>1, <3>2
  <2>4. CASE Decided(p)
    BY <1>3, <2>1, <2>2, <2>4 DEF Decided
  <2> QED
    BY <1>3, <2>1, <2>2, <2>3, <2>4, PropNext
<1> QED
  BY <1>1, <1>4, <1>5

\* What can happen to a job that is verifying.
LEMMA VerifyingNext ==
    ASSUME Core, ProjectMergeAssumption, [Next]_vars, NEW j \in Jobs,
           run[j].phase = "verifying"
    PROVE  Verify(j) \/ run'[j] = run[j] \/ run'[j].phase \in {"failing", "idle"}
<1>1. j \in Execs /\ run \in [Execs -> Run]
  BY DEF Execs, Core, TypeOK
<1>2. CASE UNCHANGED run
  BY <1>2
<1>3. CASE \E x \in Execs : MergeStep(x) \/ MergeFault(x)
  <2>1. PICK x \in Execs : MergeStep(x) \/ MergeFault(x)
    BY <1>3
  <2>2. CASE x # j
    BY <1>1, <2>1, <2>2, RunOfOther
  <2>3. CASE x = j
    <3>1. Verify(j) \/ VerifyFails(j)
      BY <2>1, <2>3 DEF MergeStep, MergeFault, Stage, AllLocked, LockName, NextName,
         Refuse, Commit, Undone, Scroll, Move, UndoPoint, StageFails, MoveFails,
         MoveUnanswered, CommitAmbiguous, UndoFails
    <3>2. CASE VerifyFails(j)
      BY <1>1, <3>2, Ends, EnterCore DEF VerifyFails, Failed
    <3> QED
      BY <3>1, <3>2
  <2> QED
    BY <2>2, <2>3
<1>4. CASE \E i \in Jobs : \/ Take(i) \/ ClientUnavailable(i) \/ OpenProposal(i)
                           \/ MarkFailed(i) \/ EndJob(i)
  <2>1. PICK i \in Jobs : \/ Take(i) \/ ClientUnavailable(i) \/ OpenProposal(i)
                          \/ MarkFailed(i) \/ EndJob(i)
    BY <1>4
  <2>2. i # j
    BY <1>1, <2>1 DEF Take, ClientUnavailable, OpenProposal, MarkFailed, EndJob, Core,
       Busy
  <2> QED
    BY <1>1, <2>1, <2>2 DEF Take, ClientUnavailable, OpenProposal, MarkFailed, EndJob,
       Enter
<1>5. CASE \E x \in Renames, old, new \in Projects : StartRename(x, old, new)
  BY <1>1, <1>5 DEF StartRename, ProjectMergeAssumption
<1>6. CASE WorkerCrash \/ ApiCrash
  BY <1>1, <1>6, IdleRun DEF WorkerCrash, ApiCrash, ProjectMergeAssumption
<1> QED
  BY <1>2, <1>3, <1>4, <1>5, <1>6
     DEF Next, vars, Decide, Record, Reject, Approve, Enqueue, EnqueueFails, JobStep, Execs

-----------------------------------------------------------------------------
(* Theorems                                                                *)

LEMMA ControlInit == ASSUME Init PROVE Control
<1>1. \A x \in Execs : run[x].phase = "idle"
  BY DEF Init, Idle
<1> QED
  BY <1>1 DEF Control, Held, Verdict, Holding, Execs

(***************************************************************************)
(* Core and Control hold in every state.                                   *)
(***************************************************************************)
THEOREM ControlCorrect == Spec => [](Core /\ Control)
<1>1. Init => Core /\ Control
  BY ProjectMergeAssumption, CoreInit, ControlInit
<1>2. Core /\ Control /\ [Next]_vars => (Core /\ Control)'
  BY ProjectMergeAssumption, CoreNext, HeldNext, VerdictNext DEF Control
<1> QED
  BY <1>1, <1>2, PTL DEF Spec

(***************************************************************************)
(* Every variable keeps its type: the catalog, the two places that name a  *)
(* memory's project, proposals, jobs, and the state of every merge.        *)
(***************************************************************************)
THEOREM TypeCorrect == Spec => []TypeOK
<1>1. Core /\ Control => TypeOK
  BY DEF Core
<1> QED
  BY <1>1, ControlCorrect, PTL

(***************************************************************************)
(* An applied or rejected proposal never changes again: every write to a   *)
(* proposal is conditional on its status, except the commit of a merge,    *)
(* and a merge holds the row since it found the proposal open.             *)
(***************************************************************************)
THEOREM FinalDecisionsStand == Spec => DecisionStands
<1>1. Core /\ Control /\ [Next]_vars =>
        [\A p \in Proposals :
           prop[p].status \in {"applied", "rejected"} => prop'[p] = prop[p]]_vars
  <2> SUFFICES ASSUME Core, Held, [Next]_vars, NEW p \in Proposals,
                      prop[p].status \in {"applied", "rejected"}
               PROVE  prop'[p] = prop[p]
    BY DEF Control
  <2>1. ~Decided(p) /\ ~Merged(p)
    BY DEF Decided, Merged, Held, Holding
  <2> QED
    BY <2>1, ProjectMergeAssumption, PropNext
<1> QED
  BY <1>1, ControlCorrect, PTL DEF Spec, DecisionStands

(***************************************************************************)
(* After a lost COMMIT a job ends in success only if its transaction was   *)
(* committed and undoes its moves only if it was not: between the commit   *)
(* and the verification nothing can erase its mark on the proposal, nor    *)
(* make it.                                                                *)
(***************************************************************************)
THEOREM CommitsAreJudgedRightly == Spec => CommitJudgedRightly
<1>1. Core /\ Control /\ [Next]_vars =>
        [\A j \in Jobs :
           run[j].phase = "verifying" =>
             /\ run'[j].phase = "succeeded" => run[j].landed
             /\ run'[j].phase = "undoing" => ~run[j].landed]_vars
  <2> SUFFICES ASSUME Core, Verdict, [Next]_vars, NEW j \in Jobs,
                      run[j].phase = "verifying"
               PROVE  /\ run'[j].phase = "succeeded" => run[j].landed
                      /\ run'[j].phase = "undoing" => ~run[j].landed
    BY DEF Control
  <2>1. j \in Execs /\ run[j] \in Run
    BY DEF Execs, Core, TypeOK
  <2>2. SeemsLanded(j) <=> run[j].landed
    BY DEF SeemsLanded, Verdict
  <2>3. CASE Verify(j)
    <3>1. CASE SeemsLanded(j)
      <4>1. Enter(j, "succeeded") /\ "succeeded" \in Phase \ Named
        BY <2>3, <3>1 DEF Verify, Ended, Phase, Named
      <4>2. run'[j].phase = "succeeded"
        BY <2>1, <4>1, EnterCore
      <4> QED
        BY <2>2, <3>1, <4>2
    <3>2. CASE ~SeemsLanded(j)
      <4>1. Rollback(j)
        BY <2>3, <3>2 DEF Verify
      <4>2. run'[j].phase = "undoing"
        BY <2>1, <4>1 DEF Rollback, Core, TypeOK, Run
      <4> QED
        BY <2>2, <3>2, <4>2
    <3> QED
      BY <3>1, <3>2
  <2> QED
    BY <2>3, ProjectMergeAssumption, VerifyingNext
<1> QED
  BY <1>1, ControlCorrect, PTL DEF Spec, CommitJudgedRightly

-----------------------------------------------------------------------------
(* The advisory locks                                                      *)

\* A run climbs: what it has locked ranks below what it has not, and a merge
\* at work has locked everything.
Climbs(r) ==
    r.phase \in Holding =>
       /\ r.locks \subseteq r.names
       /\ r.phase = "moving" => r.locks = r.names
       /\ \A a \in r.locks, b \in r.names \ r.locks : Rank[a] < Rank[b]

Exclusive ==
    \A x, y \in Execs :
       /\ run[x].phase \in Holding
       /\ run[y].phase \in Holding
       /\ x # y
       => run[x].locks \cap run[y].locks = {}

Keys == (\A x \in Execs : Climbs(run[x])) /\ Exclusive

\* What every step but LockName does to a run that holds locks afterwards.
Rests(r, s) ==
    \/ s.phase \notin Holding
    \/ s.phase = "locking" /\ s.locks = {}
    \/ /\ r.phase \in Holding
       /\ s.locks = r.locks /\ s.names = r.names
       /\ s.phase = "moving" => r.phase = "moving" \/ r.locks = r.names

LEMMA KeysRest ==
    ASSUME Keys, \A y \in Execs : Rests(run[y], run'[y]) PROVE Keys'
<1>1. ASSUME NEW y \in Execs PROVE Climbs(run'[y])
  BY DEF Keys, Climbs, Rests
<1>2. Exclusive'
  BY DEF Keys, Exclusive, Rests
<1> QED
  BY <1>1, <1>2 DEF Keys

LEMMA KeysLockName ==
    ASSUME Core, Keys, ProjectMergeAssumption, NEW x \in Execs, NEW a \in Projects,
           LockName(x, a)
    PROVE  Keys'
<1>1. /\ run \in [Execs -> Run] /\ run[x] \in Run /\ run[x].phase = "locking"
      /\ a \in run[x].names \ run[x].locks
      /\ \A b \in run[x].names \ run[x].locks : Rank[a] <= Rank[b]
      /\ \A y \in Execs : ~Locks(y, a)
      /\ run' = [run EXCEPT ![x].locks = @ \cup {a}]
  BY DEF LockName, NextName, Core, TypeOK
<1>2. /\ run'[x].locks = run[x].locks \cup {a}
      /\ run'[x].names = run[x].names /\ run'[x].phase = "locking"
      /\ \A y \in Execs \ {x} : run'[y] = run[y]
  BY <1>1 DEF Run
<1>3. run[x].names \subseteq Projects /\ Rank \in [Projects -> Int]
  BY <1>1 DEF Run, ProjectMergeAssumption
<1>4. \A b \in run[x].names \ run[x].locks : b # a => Rank[a] < Rank[b]
  <2> SUFFICES ASSUME NEW b \in run[x].names \ run[x].locks, b # a PROVE Rank[a] < Rank[b]
    OBVIOUS
  <2>1. Rank[a] <= Rank[b] /\ Rank[a] # Rank[b]
    BY <1>1, <1>3 DEF ProjectMergeAssumption
  <2> QED
    BY <1>3, <2>1
<1>5. Climbs(run'[x])
  BY <1>1, <1>2, <1>4 DEF Keys, Climbs, Holding
<1>6. \A y \in Execs : Climbs(run'[y])
  BY <1>2, <1>5 DEF Keys
<1>7. \A y \in Execs : run[y].phase \in Holding => a \notin run[y].locks
  BY <1>1 DEF Locks, Holding
<1>8. Exclusive'
  BY <1>1, <1>2, <1>7 DEF Keys, Exclusive, Holding
<1> QED
  BY <1>6, <1>8 DEF Keys

LEMMA RestsMerge ==
    ASSUME Core, Core', ProjectMergeAssumption, NEW x \in Execs,
           MergeStep(x) \/ MergeFault(x), \A a \in Projects : ~LockName(x, a)
    PROVE  Rests(run[x], run'[x])
<1>1. run \in [Execs -> Run] /\ run[x] \in Run
  BY DEF Core, TypeOK
<1>2. CASE Refuse(x) \/ Commit(x) \/ Undone(x) \/ StageFails(x) \/ VerifyFails(x)
  <2>1. \E ph \in Phase \ Named : Enter(x, ph)
    BY <1>2, Ends DEF Refuse, Commit, Undone, StageFails, VerifyFails
  <2> QED
    BY <1>1, <2>1, EnterCore DEF Rests, Named, Holding
<1>3. CASE Verify(x) \/ MoveFails(x) \/ \E q \in Points : MoveUnanswered(x, q)
  <2>1. Enter(x, Ended(x)) \/ Rollback(x)
    BY <1>3 DEF Verify, MoveFails, MoveUnanswered
  <2>2. CASE Enter(x, Ended(x))
    <3>1. PICK ph \in Phase \ Named : ph = Ended(x)
      BY Ends
    <3>2. Enter(x, ph)
      BY <2>2, <3>1
    <3>3. run'[x].phase = ph
      BY <3>2, EnterCore
    <3> QED
      BY <3>3 DEF Rests, Named, Holding
  <2>3. CASE Rollback(x)
    <3>1. run'[x].phase = "undoing"
      BY <1>1, <2>3 DEF Rollback, Run
    <3> QED
      BY <3>1 DEF Rests, Holding
  <2> QED
    BY <2>1, <2>2, <2>3
<1>5. CASE Stage(x)
  <2>1. /\ run[x].phase = "locking" /\ run[x].locks = run[x].names
        /\ run'[x].phase = "moving" /\ run'[x].locks = run[x].locks
        /\ run'[x].names = run[x].names
    BY <1>1, <1>5 DEF Stage, AllLocked, Run
  <2> QED
    BY <2>1 DEF Rests, Holding
<1>6. CASE \E a \in Projects : Scroll(x, a)
  <2>1. /\ run[x].phase = "moving" /\ run'[x].phase = "moving"
        /\ run'[x].locks = run[x].locks /\ run'[x].names = run[x].names
    BY <1>1, <1>6 DEF Scroll, Run
  <2> QED
    BY <2>1 DEF Rests, Holding
<1>7. CASE \E q \in Points : Move(x, q)
  <2>1. /\ run[x].phase = "moving" /\ run'[x].phase = "moving"
        /\ run'[x].locks = run[x].locks /\ run'[x].names = run[x].names
    BY <1>1, <1>7 DEF Move, Run
  <2> QED
    BY <2>1 DEF Rests, Holding
<1>8. CASE \E q \in Points : UndoPoint(x, q) \/ UndoFails(x, q)
  <2>1. PICK q \in Points : UndoPoint(x, q) \/ UndoFails(x, q)
    BY <1>8
  <2>2. run[x].phase = "undoing" /\ run' = [run EXCEPT ![x].log[q] = NoProject]
    BY <2>1 DEF UndoPoint, UndoFails
  <2>3. run'[x].phase = "undoing"
    BY <1>1, <2>2 DEF Run
  <2> QED
    BY <2>3 DEF Rests, Holding
<1>9. CASE CommitAmbiguous(x)
  <2>1. PICK landed \in BOOLEAN :
          run' = [run EXCEPT ![x].phase = "verifying", ![x].landed = landed]
    BY <1>9 DEF CommitAmbiguous
  <2> QED
    BY <1>1, <2>1 DEF Rests, Holding, Run
<1> QED
  BY <1>2, <1>3, <1>5, <1>6, <1>7, <1>8, <1>9 DEF MergeStep, MergeFault

LEMMA RestsJob ==
    ASSUME Core, NEW j \in Jobs,
           \/ Take(j) \/ ClientUnavailable(j) \/ OpenProposal(j) \/ MarkFailed(j)
           \/ EndJob(j)
    PROVE  \A y \in Execs : Rests(run[y], run'[y]) \/ run'[y] = run[y]
<1>1. j \in Execs /\ run \in [Execs -> Run] /\ run[j] \in Run
  BY DEF Execs, Core, TypeOK
<1>2. CASE Take(j) \/ ClientUnavailable(j)
  BY <1>1, <1>2 DEF Take, ClientUnavailable, Rests, Holding, Run
<1>3. CASE MarkFailed(j) \/ EndJob(j)
  <2>1. \E ph \in Phase \ Named : Enter(j, ph)
    BY <1>3 DEF MarkFailed, EndJob, Phase, Named
  <2> QED
    BY <1>1, <2>1, EnterCore DEF Rests, Named, Holding
<1>4. CASE OpenProposal(j)
  <2>1. CASE ~ProposalLocked(job[j].proposal) /\ Resumes(j)
    <3>1. /\ run'[j].phase = "locking" /\ run'[j].locks = {}
          /\ \A y \in Execs \ {j} : run'[y] = run[y]
      BY <1>1, <1>4, <2>1 DEF OpenProposal, Idle
    <3> QED
      BY <3>1 DEF Rests
  <2>2. CASE ProposalLocked(job[j].proposal) \/ ~Resumes(j)
    <3>1. PICK ph \in {"raised", "succeeded"} : run' = [run EXCEPT ![j].phase = ph]
      BY <1>4, <2>2 DEF OpenProposal
    <3> QED
      BY <1>1, <3>1 DEF Rests, Holding, Run
  <2> QED
    BY <2>1, <2>2
<1> QED
  BY <1>2, <1>3, <1>4

LEMMA KeysNext ==
    ASSUME Core, Core', Keys, ProjectMergeAssumption, [Next]_vars PROVE Keys'
<1>1. \A y \in Execs : run'[y] = run[y] => Rests(run[y], run'[y])
  BY DEF Keys, Climbs, Rests
<1>2. CASE UNCHANGED run
  BY <1>1, <1>2, KeysRest
<1>3. CASE \E j \in Jobs : \/ Take(j) \/ ClientUnavailable(j) \/ OpenProposal(j)
                           \/ MarkFailed(j) \/ EndJob(j)
  BY <1>1, <1>3, RestsJob, KeysRest
<1>4. CASE \E x \in Renames, old, new \in Projects : StartRename(x, old, new)
  <2>1. PICK x \in Renames, old, new \in Projects : StartRename(x, old, new)
    BY <1>4
  <2>2. /\ x \in Execs /\ run'[x].phase = "locking" /\ run'[x].locks = {}
        /\ \A y \in Execs \ {x} : run'[y] = run[y]
    BY <2>1 DEF StartRename, Idle, Core, TypeOK, Execs
  <2>3. Rests(run[x], run'[x])
    BY <2>2 DEF Rests
  <2> QED
    BY <1>1, <2>2, <2>3, KeysRest
<1>5. CASE \E x \in Execs, a \in Projects : LockName(x, a)
  BY <1>5, KeysLockName
<1>6. CASE \E x \in Execs : MergeStep(x) \/ MergeFault(x)
  BY <1>1, <1>5, <1>6, RestsMerge, RunOfOther, KeysRest
<1>7. CASE WorkerCrash \/ ApiCrash
  <2>1. \A y \in Execs : run'[y] = run[y] \/ run'[y].phase \notin Holding
    BY <1>7, IdleRun DEF WorkerCrash, ApiCrash, Holding
  <2> QED
    BY <1>1, <2>1, KeysRest DEF Rests
<1> QED
  BY <1>2, <1>3, <1>4, <1>5, <1>6, <1>7
     DEF Next, vars, Decide, Record, Reject, Approve, Enqueue, EnqueueFails, JobStep, Execs

(***************************************************************************)
(* The locks of every run form the lower part of its names and no two runs *)
(* hold one name.                                                          *)
(***************************************************************************)
THEOREM KeysCorrect == Spec => [](Core /\ Control /\ Keys)
<1>1. Init => Keys
  BY DEF Init, Idle, Keys, Climbs, Exclusive, Holding
<1>2. Core /\ Control /\ Keys /\ [Next]_vars => (Core /\ Control /\ Keys)'
  BY ProjectMergeAssumption, CoreNext, HeldNext, VerdictNext, KeysNext DEF Control
<1>3. Init => Core /\ Control
  BY ProjectMergeAssumption, CoreInit, ControlInit
<1> QED
  BY <1>1, <1>2, <1>3, PTL DEF Spec

\* Of finitely many ranks one is the highest.
LEMMA Highest ==
    ASSUME NEW N \in Nat, NEW R \in SUBSET (1 .. N), R # {}
    PROVE  \E r \in R : \A s \in R : s <= r
<1> DEFINE T == {N - r : r \in R}
<1>1. T \subseteq Nat /\ T # {}
  <2>1. \A r \in R : r \in Int /\ r <= N /\ N - r \in Nat
    OBVIOUS
  <2> QED
    BY <2>1
<1>2. PICK m \in T : \A n \in T : ~(<<n, m>> \in OpToRel(<, Nat))
  <2> HIDE DEF T
  <2> QED
    BY <1>1, NatLessThanWellFounded, WFMin
<1>3. \A n \in T : ~(n < m)
  BY <1>1, <1>2 DEF OpToRel
<1>4. PICK r \in R : m = N - r
  OBVIOUS
<1>5. \A s \in R : ~(N - s < N - r)
  BY <1>3, <1>4
<1> QED
  BY <1>5

(***************************************************************************)
(* Runs never wait for each other in a circle: along a chain of runs each  *)
(* waiting for a name the next one has locked the names wanted rise in     *)
(* the order in which lock_projects takes them, so that the chain ends.    *)
(***************************************************************************)
THEOREM LocksNeverCircle == Spec => []NoWaitCycle
<1>1. Core /\ Keys => NoWaitCycle
  <2> SUFFICES ASSUME Core, Keys, NEW S \in (SUBSET Execs) \ {{}},
                      \A x \in S : \E y \in S : WaitsFor(x, y)
               PROVE  FALSE
    BY DEF NoWaitCycle
  <2> DEFINE N == Cardinality(Projects)
             Wanted == {a \in Projects : \E x \in S : NextName(x, a)}
             R == {Rank[a] : a \in Wanted}
  <2>1. N \in Nat /\ Rank \in [Projects -> 1 .. N]
    BY ProjectMergeAssumption, FS_CardinalityType DEF ProjectMergeAssumption
  <2>2. \E x \in S : x \in S
    OBVIOUS
  <2>3. PICK x \in S : \E a \in Projects : NextName(x, a)
    BY <2>2 DEF WaitsFor
  <2>4. R \in SUBSET (1 .. N) /\ R # {}
    BY <2>1, <2>3
  <2>5. PICK r \in R : \A s \in R : s <= r
    <3> HIDE DEF R, N
    <3> QED
      BY <2>1, <2>4, Highest
  <2>6. PICK a \in Wanted : r = Rank[a]
    OBVIOUS
  <2>7. PICK z \in S : NextName(z, a)
    BY <2>6
  <2>8. PICK y \in S : WaitsFor(z, y)
    BY <2>7
  <2>9. PICK c \in Projects : NextName(z, c) /\ Locks(y, c)
    BY <2>8 DEF WaitsFor
  <2>10. Rank[c] = Rank[a]
    <3>1. /\ a \in run[z].names \ run[z].locks /\ c \in run[z].names \ run[z].locks
          /\ Rank[a] <= Rank[c] /\ Rank[c] <= Rank[a]
      BY <2>7, <2>9 DEF NextName
    <3>2. Rank[a] \in Int /\ Rank[c] \in Int
      BY <2>1, <2>6, <2>9
    <3> QED
      BY <3>1, <3>2
  <2>11. \E b \in Projects : NextName(y, b)
    BY <2>8 DEF WaitsFor
  <2>12. PICK b \in Projects : NextName(y, b)
    BY <2>11
  <2>13. Rank[c] < Rank[b]
    <3>1. y \in Execs /\ Climbs(run[y]) /\ run[y].phase \in Holding
      BY <2>12 DEF Keys, NextName, Holding
    <3>2. c \in run[y].locks /\ b \in run[y].names \ run[y].locks
      BY <2>9, <2>12 DEF Locks, NextName
    <3> QED
      BY <3>1, <3>2 DEF Climbs
  <2>14. Rank[b] <= r
    BY <2>5, <2>8, <2>12
  <2> QED
    BY <2>1, <2>6, <2>9, <2>10, <2>12, <2>13, <2>14
<1> QED
  BY <1>1, KeysCorrect, PTL

-----------------------------------------------------------------------------
(* The invariant                                                           *)

\* The locks are gone, the points not back.
Loose(r) == r.phase = "undoing" \/ (r.phase = "verifying" /\ ~r.landed)

\* Point q has been moved, the rows have not.
Out(r, q) == r.log[q] # NoProject /\ (r.phase = "moving" \/ Loose(r))

\* What excuses a point that a completed merge has left behind.
Crossing == {"crossed", "misjudged"}

\* Merges at work share no name, ...
Apart ==
    \A x, y \in Execs :
       run[x].phase = "moving" /\ run[y].phase = "moving" /\ x # y
       => run[x].names \cap run[y].names = {}

\* ... and hold the rows of their aliases.
Staged ==
    \A x \in Execs : run[x].phase = "moving" =>
       run[x].rows = {q \in Points : refs[q] \in run[x].aliases}

\* Where a merge at work shares a name with one that is being undone, the
\* points of the latter are known to be crossed.
Marked ==
    \A x, y \in Execs, q \in Points :
       /\ run[x].phase = "moving" /\ x # y
       /\ Loose(run[y]) /\ run[y].names \cap run[x].names # {}
       /\ run[y].log[q] # NoProject
       => left[q] \cap Crossing # {}

\* No alias that has been scrolled has points, except on the page.
Swept(q) ==
    \A x \in Execs :
       run[x].phase = "moving" /\ point[q] \in run[x].aliases \ run[x].todo
       => run[x].page[q] # NoProject

\* A point is at the canonical name of the one run that has moved it, and at
\* its rows if there is none.
Placed(q) ==
    /\ \A x \in Execs : Out(run[x], q) =>
          point[q] = run[x].canonical /\ refs[q] = run[x].log[q]
    /\ \A x, y \in Execs : Out(run[x], q) /\ Out(run[y], q) => x = y
    /\ (\A x \in Execs : ~Out(run[x], q)) => point[q] = refs[q]

\* A scrolled point is where its rows are, and nobody has moved it.
Backed(q) ==
    \A x \in Execs : run[x].phase = "moving" /\ run[x].page[q] # NoProject =>
       refs[q] = run[x].page[q] /\ \A y \in Execs : ~Out(run[y], q)

Fenced == Apart /\ Staged /\ Marked

Data ==
    /\ Fenced
    /\ \A q \in Points : left[q] \cap Crossing = {} => Swept(q)
    /\ \A q \in Points : left[q] = {} => Placed(q) /\ Backed(q)

-----------------------------------------------------------------------------
(* Kinds of steps                                                          *)

LEMMA AstrayIsOut ==
    ASSUME NEW x, NEW q \in Points PROVE q \in Astray(x) <=> Out(run[x], q)
  BY DEF Astray, Moved, Out, Loose

\* Reasons are only ever added.
LEMMA LeftGrows ==
    ASSUME Core, [Next]_vars
    PROVE  \A q \in Points : left[q] \subseteq left'[q]
<1>1. left \in [Points -> SUBSET Reason]
  BY DEF Core, TypeOK
<1> DEFINE Noted == UNCHANGED left \/ \E S, reason : reason \in Reason /\ Note(S, reason)
<1>2. ASSUME NEW x \in Execs, MergeStep(x) PROVE Noted
  BY <1>2 DEF MergeStep, Stage, Refuse, Commit, Verify, Undone, LockName, Scroll,
       Move, UndoPoint, Reason
<1>3. ASSUME NEW x \in Execs, MergeFault(x) PROVE Noted
  BY <1>3 DEF MergeFault, StageFails, MoveFails, MoveUnanswered,
       CommitAmbiguous, VerifyFails, UndoFails, Reason
<1>4. ASSUME NEW j \in Jobs, JobStep(j) \/ ClientUnavailable(j) PROVE Noted
  <2>1. MergeStep(j) => Noted
    BY <1>2 DEF Execs
  <2> QED
    BY <1>4, <2>1 DEF JobStep, Take, ClientUnavailable, OpenProposal, MarkFailed, EndJob
<1>5. ASSUME Decide PROVE Noted
  BY <1>5 DEF Decide, Record, Reject, Approve, Enqueue, EnqueueFails
<1>6. ASSUME WorkerCrash \/ ApiCrash PROVE Noted
  BY <1>6 DEF WorkerCrash, ApiCrash, Reason
<1>7. ASSUME NEW x \in Renames, NEW old, NEW new, StartRename(x, old, new) PROVE Noted
  BY <1>7 DEF StartRename
<1>8. UNCHANGED vars => Noted
  BY DEF vars
<1>9. Noted
  BY <1>2, <1>3, <1>4, <1>5, <1>6, <1>7, <1>8 DEF Next, Execs
<1> QED
  BY <1>1, <1>9, NoteType

\* Runs X leave their merges, or were in none.
LEMMA Release ==
    ASSUME Core, Data, NEW X \in SUBSET Execs,
           UNCHANGED <<refs, point>>,
           \A q \in Points : left[q] \subseteq left'[q],
           \A y \in Execs \ X : run'[y] = run[y],
           \A x \in X : run'[x].phase # "moving" /\ ~Loose(run'[x]),
           \A x \in X, q \in Points : Out(run[x], q) => left'[q] # {}
    PROVE  Data'
<1>1. \A x \in Execs : run'[x].phase = "moving" \/ Loose(run'[x]) =>
                          x \notin X /\ run'[x] = run[x]
  OBVIOUS
<1>2. \A x \in Execs, q \in Points : Out(run'[x], q) =>
                          x \notin X /\ run'[x] = run[x]
  BY <1>1 DEF Out
<1>3. Apart' /\ Staged' /\ Marked'
  <2>1. Apart'
    BY <1>1 DEF Data, Fenced, Apart
  <2>2. Staged'
    BY <1>1 DEF Data, Fenced, Staged
  <2>3. Marked'
    BY <1>1 DEF Data, Fenced, Marked
  <2> QED
    BY <2>1, <2>2, <2>3
<1>4. ASSUME NEW q \in Points, left'[q] \cap Crossing = {} PROVE Swept(q)'
  <2>1. Swept(q)
    BY <1>4 DEF Data
  <2> QED
    BY <1>1, <2>1 DEF Swept
<1>5. ASSUME NEW q \in Points, left'[q] = {} PROVE Placed(q)' /\ Backed(q)'
  <2>1. Placed(q) /\ Backed(q)
    BY <1>5 DEF Data
  <2>2. \A x \in Execs : Out(run'[x], q) <=> Out(run[x], q)
    BY <1>2, <1>5
  <2>3. Placed(q)'
    BY <1>2, <2>1, <2>2 DEF Placed
  <2>4. Backed(q)'
    BY <1>1, <2>1, <2>2 DEF Backed
  <2> QED
    BY <2>3, <2>4
<1> QED
  BY <1>3, <1>4, <1>5 DEF Data, Fenced

\* Run x ends its transaction without a commit and keeps its log.
LEMMA Loosen ==
    ASSUME Core, Data, NEW x \in Execs,
           UNCHANGED <<refs, point>>,
           \A q \in Points : left[q] \subseteq left'[q],
           \A y \in Execs \ {x} : run'[y] = run[y],
           run'[x].phase # "moving",
           run'[x].log = run[x].log, run'[x].names = run[x].names,
           run'[x].canonical = run[x].canonical,
           \/ run[x].phase = "moving"
           \/ Loose(run[x])
           \/ \A q \in Points : run[x].log[q] # NoProject => left'[q] \cap Crossing # {},
           \A q \in Points : left'[q] = {} => (Out(run'[x], q) <=> Out(run[x], q))
    PROVE  Data'
<1>1. \A y \in Execs : run'[y].phase = "moving" => y # x /\ run'[y] = run[y]
  OBVIOUS
<1>2. Apart' /\ Staged'
  <2>1. Apart'
    BY <1>1 DEF Data, Fenced, Apart
  <2>2. Staged'
    BY <1>1 DEF Data, Fenced, Staged
  <2> QED
    BY <2>1, <2>2
<1>3. Marked'
  <2> SUFFICES ASSUME NEW z \in Execs, NEW y \in Execs, NEW q \in Points,
                      run'[z].phase = "moving", z # y, Loose(run'[y]),
                      run'[y].names \cap run'[z].names # {},
                      run'[y].log[q] # NoProject
               PROVE  left'[q] \cap Crossing # {}
    BY DEF Marked
  <2>1. run'[z] = run[z] /\ z # x
    BY <1>1
  <2>2. CASE y # x
    BY <2>1, <2>2 DEF Data, Fenced, Marked
  <2>3. CASE y = x
    BY <2>1, <2>3 DEF Data, Fenced, Marked, Apart
  <2> QED
    BY <2>2, <2>3
<1>4. ASSUME NEW q \in Points, left'[q] \cap Crossing = {} PROVE Swept(q)'
  <2>1. Swept(q)
    BY <1>4 DEF Data
  <2> QED
    BY <1>1, <2>1 DEF Swept
<1>5. ASSUME NEW q \in Points, left'[q] = {} PROVE Placed(q)' /\ Backed(q)'
  <2>1. Placed(q) /\ Backed(q)
    BY <1>5 DEF Data
  <2>2. \A y \in Execs : Out(run'[y], q) <=> Out(run[y], q)
    BY <1>5
  <2>3. Placed(q)'
    BY <2>1, <2>2 DEF Placed
  <2>4. Backed(q)'
    BY <1>1, <2>1, <2>2 DEF Backed
  <2> QED
    BY <2>3, <2>4
<1> QED
  BY <1>2, <1>3, <1>4, <1>5 DEF Data, Fenced

\* A point under an alias of a merge at work has no other run, unless it is
\* known to be crossed.
LEMMA AliasIsFree ==
    ASSUME Core, Data, NEW x \in Execs, run[x].phase = "moving", NEW q \in Points,
           left[q] = {}, refs[q] \in run[x].aliases,
           NEW y \in Execs, Out(run[y], q)
    PROVE  y = x
<1>1. Placed(q) /\ Shaped(run[x]) /\ Shaped(run[y])
  BY DEF Data, Core, Shape
<1>2. refs[q] = run[y].log[q] /\ run[y].log[q] # NoProject
  BY <1>1 DEF Placed, Out
<1>3. run[y].phase \in Named
  BY DEF Out, Loose, Named
<1>4. refs[q] \in run[y].names \cap run[x].names
  BY <1>1, <1>2, <1>3 DEF Shaped, Named
<1>5. SUFFICES ASSUME y # x PROVE FALSE
  OBVIOUS
<1>6. CASE run[y].phase = "moving"
  BY <1>4, <1>5, <1>6 DEF Data, Fenced, Apart
<1>7. CASE Loose(run[y])
  BY <1>2, <1>4, <1>5, <1>7 DEF Data, Fenced, Marked
<1> QED
  BY <1>6, <1>7 DEF Out

\* The transaction of run x is committed.
LEMMA Lands ==
    ASSUME Core, Data, NEW x \in Execs, run[x].phase = "moving", AllMoved(x), Land(x),
           UNCHANGED <<point, left>>,
           \A y \in Execs \ {x} : run'[y] = run[y],
           run'[x].phase # "moving", ~Loose(run'[x])
    PROVE  Data'
<1> DEFINE c == run[x].canonical
           as == run[x].aliases
<1>1. /\ Shaped(run[x]) /\ run[x] \in Run /\ point \in [Points -> Projects]
      /\ refs \in [Points -> Projects] /\ left \in [Points -> SUBSET Reason]
  BY DEF Core, Shape, TypeOK
<1>2. c \notin as /\ as \cup {c} \subseteq run[x].names
  BY <1>1 DEF Shaped, Named
<1>3. \A q \in Points : refs'[q] = IF refs[q] \in as THEN c ELSE refs[q]
  BY <1>1 DEF Land, Data, Fenced, Staged
<1>4. \A y \in Execs : run'[y].phase = "moving" \/ Loose(run'[y]) =>
                          y # x /\ run'[y] = run[y]
  OBVIOUS
<1>5. \A y \in Execs : run'[y].phase = "moving" =>
         /\ y # x /\ run'[y] = run[y]
         /\ run[y].names \cap run[x].names = {} /\ run[y].aliases \subseteq run[y].names
  BY <1>4 DEF Data, Fenced, Apart, Core, Shape, Shaped, Named
<1>6. Apart' /\ Marked' /\ Staged'
  <2>1. Apart'
    BY <1>4 DEF Data, Fenced, Apart
  <2>2. Marked'
    BY <1>4 DEF Data, Fenced, Marked
  <2>3. ASSUME NEW y \in Execs, run'[y].phase = "moving"
        PROVE  run'[y].rows = {q \in Points : refs'[q] \in run'[y].aliases}
    <3>1. run[y].rows = {q \in Points : refs[q] \in run[y].aliases} /\ run'[y] = run[y]
      BY <1>5, <2>3 DEF Data, Fenced, Staged
    <3>2. \A q \in Points : refs'[q] \in run[y].aliases <=> refs[q] \in run[y].aliases
      BY <1>2, <1>3, <1>5, <2>3
    <3> QED
      BY <3>1, <3>2
  <2>4. Staged'
    BY <2>3 DEF Staged
  <2> QED
    BY <2>1, <2>2, <2>4
<1>7. ASSUME NEW q \in Points, left'[q] \cap Crossing = {} PROVE Swept(q)'
  <2>1. Swept(q)
    BY <1>7 DEF Data
  <2> QED
    BY <1>4, <2>1 DEF Swept
<1>8. ASSUME NEW q \in Points, left'[q] = {} PROVE Placed(q)' /\ Backed(q)'
  <2>1. Placed(q) /\ Backed(q) /\ Swept(q) /\ left[q] = {}
    BY <1>8 DEF Data
  <2>2. \A y \in Execs : Out(run'[y], q) => y # x /\ run'[y] = run[y]
    BY <1>4 DEF Out
  <2>3. CASE refs[q] \in as
    <3>1. \A y \in Execs : ~Out(run'[y], q)
      BY <2>1, <2>2, <2>3, AliasIsFree
    <3>2. point[q] = c
      <4>1. CASE Out(run[x], q)
        BY <2>1, <4>1 DEF Placed
      <4>2. CASE ~Out(run[x], q)
        <5>1. \A y \in Execs : ~Out(run[y], q)
          BY <2>1, <2>3, <4>2, AliasIsFree
        <5>2. point[q] \in as
          BY <2>1, <2>3, <5>1 DEF Placed
        <5>3. run[x].todo = {} /\ run[x].page[q] = NoProject
          BY DEF AllMoved, Nowhere
        <5> QED
          BY <2>1, <5>2, <5>3 DEF Swept
      <4> QED
        BY <4>1, <4>2
    <3>3. Placed(q)'
      BY <1>3, <2>3, <3>1, <3>2 DEF Placed
    <3>4. \A y \in Execs : run'[y].phase = "moving" => run'[y].page[q] = NoProject
      <4> SUFFICES ASSUME NEW y \in Execs, run'[y].phase = "moving",
                          run'[y].page[q] # NoProject
                   PROVE  FALSE
        OBVIOUS
      <4>1. run'[y] = run[y] /\ refs[q] = run[y].page[q]
        BY <1>5, <2>1 DEF Backed
      <4>2. refs[q] \in run[y].aliases
        BY <1>5, <4>1 DEF Core, Shape, Shaped, Named
      <4> QED
        BY <1>2, <1>5, <2>3, <4>2
    <3> QED
      BY <3>3, <3>4 DEF Backed
  <2>4. CASE refs[q] \notin as
    <3>1. refs'[q] = refs[q] /\ point'[q] = point[q]
      BY <1>3, <2>4
    <3>2. ~Out(run[x], q)
      BY <2>1, <2>4, <1>1 DEF Placed, Out, Shaped, Named
    <3>3. \A y \in Execs : Out(run'[y], q) <=> Out(run[y], q)
      BY <2>2, <3>2
    <3>4. Placed(q)'
      BY <2>1, <2>2, <3>1, <3>3 DEF Placed
    <3>5. Backed(q)'
      BY <1>5, <2>1, <3>1, <3>3 DEF Backed
    <3> QED
      BY <3>4, <3>5
  <2> QED
    BY <2>3, <2>4
<1> QED
  BY <1>6, <1>7, <1>8 DEF Data, Fenced

LEMMA DataStage ==
    ASSUME Core, Keys, Data, NEW x \in Execs, Stage(x) PROVE Data'
<1> DEFINE as == IF x \in Jobs THEN {a \in run[x].aliases : Exists(a)} ELSE run[x].aliases
           r  == [run[x] EXCEPT !.phase = "moving", !.aliases = as,
                                !.rows = {q \in Points : refs[q] \in as},
                                !.cats = as \cap catalog, !.todo = as]
<1>1. /\ run[x] \in Run /\ Shaped(run[x]) /\ run[x].phase = "locking"
      /\ run \in [Execs -> Run] /\ left \in [Points -> SUBSET Reason]
  BY DEF Core, TypeOK, Shape, Stage, AllLocked
<1>2. run' = [run EXCEPT ![x] = r]
  BY <1>1 DEF Stage
<1>3. /\ r.phase = "moving" /\ r.names = run[x].names /\ r.canonical = run[x].canonical
      /\ r.log = run[x].log /\ r.page = run[x].page /\ r.aliases = as /\ r.todo = as
      /\ r.rows = {q \in Points : refs[q] \in as}
  BY <1>1 DEF Run
<1> HIDE DEF r, as
<1>4. run'[x] = r /\ \A y \in Execs \ {x} : run'[y] = run[y]
  BY <1>1, <1>2
<1>5. \A q \in Points : run[x].log[q] = NoProject /\ run[x].page[q] = NoProject
  BY <1>1 DEF Shaped, Named
<1>6. \A q \in Points : ~Out(run[x], q) /\ ~Out(r, q) /\ ~Loose(r)
  BY <1>1, <1>3, <1>5 DEF Out, Loose
<1>7. /\ \A q \in Points : left[q] \subseteq left'[q]
      /\ \A q \in Points : (\E y \in Execs \ {x} : Exposed(y, run[x].names) /\ q \in Moved(y))
                              => "crossed" \in left'[q]
  <2> DEFINE S == {q \in Points : \E y \in Execs \ {x} :
                                  Exposed(y, run[x].names) /\ q \in Moved(y)}
  <2>1. Note(S, "crossed") /\ "crossed" \in Reason
    BY DEF Stage, Reason
  <2>2. /\ \A q \in Points : left[q] \subseteq left'[q]
        /\ \A q \in Points : q \in S => "crossed" \in left'[q]
    <3> HIDE DEF S
    <3> QED
      BY <1>1, <2>1, NoteType
  <2> QED
    BY <2>2
<1>8. UNCHANGED <<refs, point>>
  BY DEF Stage
<1>9. Apart' /\ Staged' /\ Marked'
  <2>1. \A y \in Execs \ {x} : run[y].phase = "moving" => run[y].names \cap run[x].names = {}
    BY DEF Stage, AllLocked, Keys, Climbs, Exclusive, Holding
  <2>2. Apart'
    BY <1>3, <1>4, <2>1 DEF Data, Fenced, Apart
  <2>3. Staged'
    <3>1. ASSUME NEW y \in Execs, run'[y].phase = "moving"
          PROVE  run'[y].rows = {q \in Points : refs[q] \in run'[y].aliases}
      <4>1. CASE y = x
        BY <1>3, <1>4, <4>1
      <4>2. CASE y # x
        BY <1>4, <3>1, <4>2 DEF Data, Fenced, Staged
      <4> QED
        BY <4>1, <4>2
    <3> QED
      BY <1>8, <3>1 DEF Staged
  <2>4. Marked'
    <3> SUFFICES ASSUME NEW z \in Execs, NEW y \in Execs, NEW q \in Points,
                        run'[z].phase = "moving", z # y, Loose(run'[y]),
                        run'[y].names \cap run'[z].names # {},
                        run'[y].log[q] # NoProject
                 PROVE  left'[q] \cap Crossing # {}
      BY DEF Marked
    <3>1. y # x /\ run'[y] = run[y]
      BY <1>4, <1>6
    <3>2. CASE z = x
      <4>1. Exposed(y, run[x].names) /\ q \in Moved(y)
        BY <1>3, <1>4, <3>1, <3>2 DEF Exposed, Loose, Moved
      <4> QED
        BY <1>7, <3>1, <4>1 DEF Crossing
    <3>3. CASE z # x
      BY <1>4, <1>7, <3>1, <3>3 DEF Data, Fenced, Marked
    <3> QED
      BY <3>2, <3>3
  <2> QED
    BY <2>2, <2>3, <2>4
<1>10. ASSUME NEW q \in Points, left'[q] \cap Crossing = {} PROVE Swept(q)'
  <2>1. Swept(q)
    BY <1>7, <1>10 DEF Data
  <2> QED
    BY <1>3, <1>4, <1>8, <2>1 DEF Swept
<1>11. ASSUME NEW q \in Points, left'[q] = {} PROVE Placed(q)' /\ Backed(q)'
  <2>1. Placed(q) /\ Backed(q)
    BY <1>7, <1>11 DEF Data
  <2>2. \A y \in Execs : Out(run'[y], q) <=> Out(run[y], q)
    BY <1>4, <1>6
  <2>3. Placed(q)'
    BY <1>4, <1>6, <1>8, <2>1, <2>2 DEF Placed
  <2>4. Backed(q)'
    BY <1>3, <1>4, <1>5, <1>8, <2>1, <2>2 DEF Backed
  <2> QED
    BY <2>3, <2>4
<1> QED
  BY <1>9, <1>10, <1>11 DEF Data, Fenced

LEMMA DataScroll ==
    ASSUME Core, ProjectMergeAssumption, Data, NEW x \in Execs, NEW a \in Projects,
           Scroll(x, a)
    PROVE  Data'
<1> DEFINE r == [run[x] EXCEPT !.todo = @ \ {a},
                               !.page = [q \in Points |-> IF point[q] = a THEN a
                                                          ELSE NoProject]]
<1>1. /\ run[x] \in Run /\ Shaped(run[x]) /\ run[x].phase = "moving"
      /\ run \in [Execs -> Run] /\ a \in run[x].todo /\ run[x].page = Nowhere
      /\ a # NoProject /\ UNCHANGED <<refs, point, left>>
  BY DEF Core, TypeOK, Shape, Scroll, ProjectMergeAssumption
<1>2. run' = [run EXCEPT ![x] = r]
  BY <1>1 DEF Scroll
<1>3. /\ r.phase = run[x].phase /\ r.names = run[x].names /\ r.canonical = run[x].canonical
      /\ r.log = run[x].log /\ r.aliases = run[x].aliases /\ r.todo = run[x].todo \ {a}
      /\ r.rows = run[x].rows /\ r.landed = run[x].landed
      /\ \A q \in Points : r.page[q] = IF point[q] = a THEN a ELSE NoProject
  BY <1>1 DEF Run
<1> HIDE DEF r
<1>4. run'[x] = r /\ \A y \in Execs \ {x} : run'[y] = run[y]
  BY <1>1, <1>2
<1>5. \A y \in Execs, q \in Points : Out(run'[y], q) <=> Out(run[y], q)
  BY <1>3, <1>4 DEF Out, Loose
<1>6. a \in run[x].aliases /\ a \in run[x].names
  BY <1>1 DEF Shaped, Named
<1>7. Apart' /\ Staged' /\ Marked'
  <2>1. Apart'
    BY <1>3, <1>4 DEF Data, Fenced, Apart
  <2>2. Staged'
    BY <1>1, <1>3, <1>4 DEF Data, Fenced, Staged
  <2>3. Marked'
    BY <1>1, <1>3, <1>4 DEF Data, Fenced, Marked, Loose
  <2> QED
    BY <2>1, <2>2, <2>3
<1>8. ASSUME NEW q \in Points, left'[q] \cap Crossing = {} PROVE Swept(q)'
  <2>1. Swept(q) /\ run[x].page[q] = NoProject
    BY <1>1, <1>8 DEF Data, Nowhere
  <2> QED
    BY <1>1, <1>3, <1>4, <2>1 DEF Swept
<1>9. ASSUME NEW q \in Points, left'[q] = {} PROVE Placed(q)' /\ Backed(q)'
  <2>1. Placed(q) /\ Backed(q)
    BY <1>1, <1>9 DEF Data
  <2>2. Placed(q)'
    BY <1>1, <1>3, <1>4, <1>5, <2>1 DEF Placed
  <2>3. ASSUME point[q] = a, NEW y \in Execs, Out(run[y], q) PROVE FALSE
    <3>1. point[q] = run[y].canonical /\ run[y].log[q] # NoProject /\ run[y].phase \in Named
      BY <2>1, <2>3 DEF Placed, Out, Loose, Named
    <3>2. a \in run[y].names /\ run[y].canonical \notin run[y].aliases
      BY <2>3, <3>1 DEF Core, Shape, Shaped
    <3>3. y # x
      BY <1>6, <2>3, <3>1, <3>2
    <3>4. CASE run[y].phase = "moving"
      BY <1>1, <1>6, <3>2, <3>3, <3>4 DEF Data, Fenced, Apart
    <3>5. CASE Loose(run[y])
      BY <1>1, <1>6, <1>9, <3>1, <3>2, <3>3, <3>5 DEF Data, Fenced, Marked
    <3> QED
      BY <2>3, <3>4, <3>5 DEF Out
  <2>4. point[q] = a => refs[q] = a
    BY <2>1, <2>3 DEF Placed
  <2>5. Backed(q)'
    BY <1>1, <1>3, <1>4, <1>5, <2>1, <2>3, <2>4 DEF Backed
  <2> QED
    BY <2>2, <2>5
<1> QED
  BY <1>7, <1>8, <1>9 DEF Data, Fenced

LEMMA DataMove ==
    ASSUME Core, Data, NEW x \in Execs, NEW p \in Points, Move(x, p) PROVE Data'
<1> DEFINE r == [run[x] EXCEPT !.page[p] = NoProject,
                               !.log[p] = IF @ = NoProject THEN run[x].page[p] ELSE @]
           c == run[x].canonical
<1>1. /\ run[x] \in Run /\ Shaped(run[x]) /\ run[x].phase = "moving"
      /\ run \in [Execs -> Run] /\ point \in [Points -> Projects]
      /\ run[x].page[p] # NoProject /\ UNCHANGED <<refs, left>>
  BY DEF Core, TypeOK, Shape, Move
<1>2. run' = [run EXCEPT ![x] = r] /\ point' = [point EXCEPT ![p] = c]
  BY <1>1 DEF Move
<1>3. /\ r.phase = "moving" /\ r.names = run[x].names /\ r.canonical = c
      /\ r.aliases = run[x].aliases /\ r.todo = run[x].todo
      /\ r.rows = run[x].rows
      /\ \A q \in Points \ {p} : r.page[q] = run[x].page[q] /\ r.log[q] = run[x].log[q]
      /\ r.page[p] = NoProject
      /\ r.log[p] = IF run[x].log[p] = NoProject THEN run[x].page[p] ELSE run[x].log[p]
  BY <1>1 DEF Run
<1> HIDE DEF r
<1>4. run'[x] = r /\ \A y \in Execs \ {x} : run'[y] = run[y]
  BY <1>1, <1>2
<1>5. point'[p] = c /\ \A q \in Points \ {p} : point'[q] = point[q]
  BY <1>1, <1>2
<1>6. /\ c \in run[x].names /\ c \notin run[x].aliases
      /\ run[x].page[p] \in run[x].aliases /\ run[x].aliases \subseteq run[x].names
  BY <1>1 DEF Shaped, Named
<1>7. \A y \in Execs \ {x} : run[y].phase = "moving" =>
         run[y].names \cap run[x].names = {} /\ run[y].aliases \subseteq run[y].names
  BY <1>1 DEF Data, Fenced, Apart, Core, Shape, Shaped, Named
<1>8. Apart' /\ Staged' /\ Marked'
  <2>1. Apart'
    BY <1>1, <1>3, <1>4 DEF Data, Fenced, Apart
  <2>2. Staged'
    BY <1>1, <1>3, <1>4 DEF Data, Fenced, Staged
  <2>3. \A y \in Execs : Loose(run'[y]) => y # x /\ run'[y] = run[y]
    BY <1>3, <1>4 DEF Loose
  <2>4. Marked'
    BY <1>1, <1>3, <1>4, <2>3 DEF Data, Fenced, Marked
  <2> QED
    BY <2>1, <2>2, <2>4
<1>9. ASSUME NEW q \in Points, left'[q] \cap Crossing = {} PROVE Swept(q)'
  <2>1. Swept(q)
    BY <1>1, <1>9 DEF Data
  <2>2. CASE q = p
    BY <1>3, <1>4, <1>5, <1>6, <1>7, <2>2 DEF Swept
  <2>3. CASE q # p
    BY <1>1, <1>3, <1>4, <1>5, <2>1, <2>3 DEF Swept
  <2> QED
    BY <2>2, <2>3
<1>10. ASSUME NEW q \in Points, left'[q] = {} PROVE Placed(q)' /\ Backed(q)'
  <2>1. Placed(q) /\ Backed(q)
    BY <1>1, <1>10 DEF Data
  <2>2. CASE q # p
    <3>1. \A y \in Execs : Out(run'[y], q) <=> Out(run[y], q)
      BY <1>1, <1>3, <1>4, <2>2 DEF Out, Loose
    <3>2. Placed(q)'
      BY <1>1, <1>3, <1>4, <1>5, <2>1, <2>2, <3>1 DEF Placed
    <3>3. Backed(q)'
      BY <1>1, <1>3, <1>4, <2>1, <2>2, <3>1 DEF Backed
    <3> QED
      BY <3>2, <3>3
  <2>3. CASE q = p
    <3>1. refs[p] = run[x].page[p] /\ \A y \in Execs : ~Out(run[y], p)
      BY <1>1, <2>1, <2>3 DEF Backed
    <3>2. run[x].log[p] = NoProject
      BY <1>1, <3>1 DEF Out
    <3>3. Out(run'[x], p) /\ \A y \in Execs : Out(run'[y], p) => y = x
      BY <1>1, <1>3, <1>4, <3>1, <3>2 DEF Out
    <3>4. Placed(p)'
      BY <1>1, <1>3, <1>4, <1>5, <3>1, <3>2, <3>3 DEF Placed
    <3>5. \A y \in Execs : run'[y].phase = "moving" => run'[y].page[p] = NoProject
      <4> SUFFICES ASSUME NEW y \in Execs, run'[y].phase = "moving",
                          run'[y].page[p] # NoProject
                   PROVE  FALSE
        OBVIOUS
      <4>1. y # x /\ run'[y] = run[y]
        BY <1>3, <1>4
      <4>2. refs[p] = run[y].page[p] /\ run[y].page[p] \in run[y].aliases
        BY <2>1, <2>3, <4>1 DEF Backed, Core, Shape, Shaped, Named
      <4> QED
        BY <1>6, <1>7, <3>1, <4>1, <4>2
    <3> QED
      BY <2>3, <3>4, <3>5 DEF Backed
  <2> QED
    BY <2>2, <2>3
<1> QED
  BY <1>8, <1>9, <1>10 DEF Data, Fenced

\* A point of a run that is being undone is put back, or is lost for it.
LEMMA DataUndo ==
    ASSUME Core, Data, NEW x \in Execs, NEW p \in Points, run[x].phase = "undoing",
           p \in Moved(x), UNCHANGED refs,
           run' = [run EXCEPT ![x].log[p] = NoProject],
           \A q \in Points : left[q] \subseteq left'[q],
           \/ UNCHANGED left /\ point' = [point EXCEPT ![p] = run[x].log[p]]
           \/ left'[p] # {} /\ point' \in {point, [point EXCEPT ![p] = run[x].log[p]]}
    PROVE  Data'
<1> DEFINE r == [run[x] EXCEPT !.log[p] = NoProject]
<1>1. /\ run[x] \in Run /\ Shaped(run[x]) /\ run \in [Execs -> Run]
      /\ point \in [Points -> Projects] /\ run[x].log[p] # NoProject
  BY DEF Core, TypeOK, Shape, Moved
<1>2. run' = [run EXCEPT ![x] = r]
  BY <1>1
<1>3. /\ r.phase = "undoing" /\ r.names = run[x].names /\ r.canonical = run[x].canonical
      /\ \A q \in Points \ {p} : r.log[q] = run[x].log[q]
      /\ r.log[p] = NoProject
  BY <1>1 DEF Run
<1> HIDE DEF r
<1>4. run'[x] = r /\ \A y \in Execs \ {x} : run'[y] = run[y]
  BY <1>1, <1>2
<1>5. \A q \in Points \ {p} : point'[q] = point[q]
  BY <1>1
<1>6. \A y \in Execs : run'[y].phase = "moving" => y # x /\ run'[y] = run[y]
  BY <1>3, <1>4
<1>7. run[x].log[p] \in run[x].names /\ Loose(run[x])
  BY <1>1 DEF Shaped, Named, Loose
<1>8. Apart' /\ Staged' /\ Marked'
  <2>1. Apart' /\ Staged'
    <3>1. Apart'
      BY <1>6 DEF Data, Fenced, Apart
    <3>2. Staged'
      BY <1>6 DEF Data, Fenced, Staged
    <3> QED
      BY <3>1, <3>2
  <2>2. Marked'
    <3> SUFFICES ASSUME NEW z \in Execs, NEW y \in Execs, NEW q \in Points,
                        run'[z].phase = "moving", z # y, Loose(run'[y]),
                        run'[y].names \cap run'[z].names # {},
                        run'[y].log[q] # NoProject
                 PROVE  left[q] \cap Crossing # {}
      BY DEF Marked
    <3>1. run'[z] = run[z]
      BY <1>6
    <3>2. run[y].log[q] # NoProject /\ run[y].names = run'[y].names /\ Loose(run[y])
      BY <1>3, <1>4, <1>7
    <3> QED
      BY <3>1, <3>2 DEF Data, Fenced, Marked
  <2> QED
    BY <2>1, <2>2
<1>9. ASSUME NEW z \in Execs, run'[z].phase = "moving", left'[p] \cap Crossing = {}
      PROVE  run[x].log[p] \notin run[z].aliases
  <2>1. z # x /\ run[z].phase = "moving" /\ run[z].aliases \subseteq run[z].names
    BY <1>6, <1>9 DEF Core, Shape, Shaped, Named
  <2>2. run[x].names \cap run[z].names = {}
    BY <1>1, <1>7, <1>9, <2>1 DEF Data, Fenced, Marked
  <2> QED
    BY <1>7, <2>1, <2>2
<1>10. ASSUME NEW q \in Points, left'[q] \cap Crossing = {} PROVE Swept(q)'
  <2>1. Swept(q)
    BY <1>10 DEF Data
  <2>2. CASE point'[q] = point[q]
    BY <1>6, <2>1, <2>2 DEF Swept
  <2>3. CASE q = p /\ point'[q] = run[x].log[p]
    BY <1>6, <1>9, <1>10, <2>3 DEF Swept
  <2> QED
    BY <1>1, <1>5, <2>2, <2>3
<1>11. ASSUME NEW q \in Points, left'[q] = {} PROVE Placed(q)' /\ Backed(q)'
  <2>1. Placed(q) /\ Backed(q) /\ left[q] = {}
    BY <1>11 DEF Data
  <2>2. CASE q # p
    <3>1. \A y \in Execs : Out(run'[y], q) <=> Out(run[y], q)
      BY <1>3, <1>4, <1>7, <2>2 DEF Out, Loose
    <3>2. Placed(q)'
      BY <1>3, <1>4, <1>5, <2>1, <2>2, <3>1 DEF Placed
    <3>3. Backed(q)'
      BY <1>6, <2>1, <3>1 DEF Backed
    <3> QED
      BY <3>2, <3>3
  <2>3. CASE q = p
    <3>1. Out(run[x], p) /\ refs[p] = run[x].log[p]
      BY <1>1, <1>7, <2>1, <2>3 DEF Out, Placed
    <3>2. \A y \in Execs : ~Out(run'[y], p)
      <4>1. ~Out(run'[x], p)
        BY <1>3, <1>4 DEF Out
      <4>2. ASSUME NEW y \in Execs, y # x PROVE ~Out(run'[y], p)
        BY <1>4, <2>1, <2>3, <3>1, <4>2 DEF Placed
      <4> QED
        BY <4>1, <4>2
    <3>3. point'[p] = refs[p]
      BY <1>1, <1>11, <2>3, <3>1
    <3>4. Placed(p)'
      BY <3>2, <3>3 DEF Placed
    <3>5. Backed(p)'
      <4> SUFFICES ASSUME NEW y \in Execs, run'[y].phase = "moving",
                          run'[y].page[p] # NoProject
                   PROVE  refs[p] = run'[y].page[p]
        BY <3>2 DEF Backed
      <4> QED
        BY <1>6, <2>1, <2>3 DEF Backed
    <3> QED
      BY <2>3, <3>4, <3>5
  <2> QED
    BY <2>2, <2>3
<1> QED
  BY <1>8, <1>10, <1>11 DEF Data, Fenced

-----------------------------------------------------------------------------
(* Every action is of one of these kinds                                   *)

LEMMA DataInit == ASSUME Init PROVE Data
<1>1. \A x \in Execs : run[x].phase = "idle" /\ ~Loose(run[x])
  BY DEF Init, Idle, Loose
<1>2. \A x \in Execs, q \in Points : ~Out(run[x], q)
  BY <1>1 DEF Out
<1>3. Fenced
  BY <1>1 DEF Fenced, Apart, Staged, Marked
<1>4. \A q \in Points : Swept(q) /\ Backed(q)
  BY <1>1 DEF Swept, Backed
<1>5. \A q \in Points : Placed(q)
  BY <1>2 DEF Placed, Init
<1> QED
  BY <1>3, <1>4, <1>5 DEF Data

\* A run that enters a phase without a merge.
LEMMA DataEnter ==
    ASSUME Core, Data, [Next]_vars, NEW x \in Execs, NEW ph \in Phase \ Named,
           Enter(x, ph), UNCHANGED <<refs, point>>,
           \A q \in Points : Out(run[x], q) => left'[q] # {}
    PROVE  Data'
<1>1. run'[x].phase = ph /\ \A y \in Execs \ {x} : run'[y] = run[y]
  BY EnterCore
<1>2. run'[x].phase # "moving" /\ ~Loose(run'[x])
  BY <1>1 DEF Named, Loose
<1>3. {x} \in SUBSET Execs
  OBVIOUS
<1> QED
  BY <1>1, <1>2, <1>3, LeftGrows, Release

\* A run that was in no merge and has not moved a point.
LEMMA DataPrelude ==
    ASSUME Core, Data, [Next]_vars, NEW x \in Execs,
           run[x].phase \notin {"moving", "verifying", "undoing"},
           NEW r \in Run, run' = [run EXCEPT ![x] = r],
           r.phase \notin {"moving", "verifying", "undoing"},
           UNCHANGED <<refs, point>>
    PROVE  Data'
<1>1. run'[x] = r /\ \A y \in Execs \ {x} : run'[y] = run[y]
  BY DEF Core, TypeOK
<1>2. run'[x].phase # "moving" /\ ~Loose(run'[x])
  BY <1>1 DEF Loose
<1>3. \A q \in Points : ~Out(run[x], q)
  BY DEF Out, Loose
<1> DEFINE X == {x}
<1>4. /\ X \in SUBSET Execs
      /\ \A y \in Execs \ X : run'[y] = run[y]
      /\ \A y \in X : run'[y].phase # "moving" /\ ~Loose(run'[y])
      /\ \A y \in X, q \in Points : Out(run[y], q) => left'[q] # {}
  BY <1>1, <1>2, <1>3
<1> HIDE DEF X
<1> QED
  BY <1>4, LeftGrows, Release

LEMMA DataJob ==
    ASSUME Core, Core', Data, [Next]_vars, NEW j \in Jobs,
           \/ Take(j) \/ ClientUnavailable(j) \/ OpenProposal(j) \/ MarkFailed(j)
           \/ EndJob(j)
    PROVE  Data'
<1>1. j \in Execs /\ run \in [Execs -> Run] /\ run' \in [Execs -> Run]
  BY DEF Execs, Core, TypeOK
<1>2. run[j].phase \notin {"moving", "verifying", "undoing"}
  BY DEF Take, ClientUnavailable, OpenProposal, MarkFailed, EndJob, Core, Busy
<1>3. run' = [run EXCEPT ![j] = run'[j]] /\ run'[j] \in Run
  BY <1>1 DEF Take, ClientUnavailable, OpenProposal, MarkFailed, EndJob, Enter
<1>4. run'[j].phase \notin {"moving", "verifying", "undoing"}
  <2>1. CASE MarkFailed(j) \/ EndJob(j)
    <3>1. \E ph \in Phase \ Named : Enter(j, ph)
      BY <2>1 DEF MarkFailed, EndJob, Phase, Named
    <3> QED
      BY <1>1, <3>1, EnterCore DEF Named
  <2>2. CASE Take(j) \/ ClientUnavailable(j)
    BY <1>1, <2>2 DEF Take, ClientUnavailable, Run
  <2>3. CASE OpenProposal(j)
    <3>1. CASE ~ProposalLocked(job[j].proposal) /\ Resumes(j)
      <4>1. run'[j].phase = "locking"
        BY <1>1, <2>3, <3>1 DEF OpenProposal, Idle
      <4> QED
        BY <4>1
    <3>2. CASE ProposalLocked(job[j].proposal) \/ ~Resumes(j)
      <4>1. PICK ph \in {"raised", "succeeded"} : run' = [run EXCEPT ![j].phase = ph]
        BY <2>3, <3>2 DEF OpenProposal
      <4> QED
        BY <1>1, <4>1 DEF Run
    <3> QED
      BY <3>1, <3>2
  <2> QED
    BY <2>1, <2>2, <2>3
<1>5. UNCHANGED <<refs, point>>
  BY DEF Take, ClientUnavailable, OpenProposal, MarkFailed, EndJob
<1> QED
  BY <1>1, <1>2, <1>3, <1>4, <1>5, DataPrelude

LEMMA DataStartRename ==
    ASSUME Core, Core', Data, [Next]_vars, NEW x \in Renames, NEW old \in Projects,
           NEW new \in Projects, StartRename(x, old, new)
    PROVE  Data'
<1>1. x \in Execs /\ run \in [Execs -> Run] /\ run' \in [Execs -> Run]
  BY DEF Execs, Core, TypeOK
<1>2. run' = [run EXCEPT ![x] = run'[x]] /\ run'[x] \in Run /\ run'[x].phase = "locking"
  BY <1>1 DEF StartRename, Idle
<1> QED
  BY <1>1, <1>2, DataPrelude DEF StartRename

LEMMA DataLeave ==
    ASSUME Core, Data, [Next]_vars, NEW x \in Execs,
           Refuse(x) \/ StageFails(x) \/ Undone(x) \/ VerifyFails(x)
    PROVE  Data'
<1>1. CASE Refuse(x) \/ StageFails(x)
  <2>1. \A q \in Points : ~Out(run[x], q)
    BY <1>1 DEF Refuse, AllLocked, StageFails, Out, Loose
  <2> QED
    BY <1>1, <2>1, Ends, DataEnter DEF Refuse, StageFails
<1>2. CASE Undone(x)
  <2>1. \A q \in Points : ~Out(run[x], q)
    BY <1>2 DEF Undone, Moved, Out
  <2> QED
    BY <1>2, <2>1, Ends, DataEnter DEF Undone
<1>3. CASE VerifyFails(x)
  <2>1. left \in [Points -> SUBSET Reason] /\ "unverified" \in Reason
    BY DEF Core, TypeOK, Reason
  <2>2. ASSUME NEW q \in Points, Out(run[x], q) PROVE left'[q] # {}
    <3>1. ~run[x].landed /\ q \in Moved(x)
      BY <1>3, <2>2 DEF VerifyFails, Out, Loose, Moved
    <3> QED
      BY <1>3, <2>1, <3>1, NoteType DEF VerifyFails
  <2> QED
    BY <1>3, <2>2, Ends, DataEnter DEF VerifyFails
<1> QED
  BY <1>1, <1>2, <1>3

LEMMA DataVerify ==
    ASSUME Core, Data, [Next]_vars, NEW x \in Execs, Verify(x) PROVE Data'
<1>1. /\ run[x].phase = "verifying" /\ UNCHANGED <<refs, point>>
      /\ run \in [Execs -> Run] /\ run[x] \in Run /\ left \in [Points -> SUBSET Reason]
  BY DEF Verify, Core, TypeOK
<1>2. \A q \in Points : q \in Moved(x) <=> run[x].log[q] # NoProject
  BY DEF Moved
<1>3. (SeemsLanded(x) <=> run[x].landed) \/ \A q \in Moved(x) : "misjudged" \in left'[q]
  <2>1. SeemsLanded(x) = run[x].landed \/ Note(Moved(x), "misjudged")
    BY DEF Verify
  <2>2. Moved(x) \subseteq Points /\ "misjudged" \in Reason
    BY DEF Moved, Reason
  <2> QED
    BY <1>1, <2>1, <2>2, NoteType
<1>4. CASE SeemsLanded(x)
  <2>1. Enter(x, Ended(x))
    BY <1>4 DEF Verify
  <2>2. \A q \in Points : Out(run[x], q) => left'[q] # {}
    BY <1>1, <1>2, <1>3, <1>4 DEF Out, Loose
  <2> QED
    BY <1>1, <2>1, <2>2, Ends, DataEnter
<1>5. CASE ~SeemsLanded(x)
  <2>1. Rollback(x)
    BY <1>5 DEF Verify
  <2>2. /\ run'[x].phase = "undoing" /\ run'[x].log = run[x].log
        /\ run'[x].names = run[x].names /\ run'[x].canonical = run[x].canonical
        /\ \A y \in Execs \ {x} : run'[y] = run[y]
    BY <1>1, <2>1 DEF Rollback, Run
  <2>3. Loose(run[x]) \/ \A q \in Points : run[x].log[q] # NoProject =>
                                                  left'[q] \cap Crossing # {}
    BY <1>1, <1>2, <1>3, <1>5 DEF Loose, Crossing
  <2>4. ASSUME NEW q \in Points, left'[q] = {} PROVE Out(run'[x], q) <=> Out(run[x], q)
    BY <1>1, <2>2, <2>3, <2>4 DEF Out, Loose
  <2> QED
    BY <1>1, <2>2, <2>3, <2>4, LeftGrows, Loosen
<1> QED
  BY <1>4, <1>5

LEMMA DataMoveFails ==
    ASSUME Core, Data, [Next]_vars, NEW x \in Execs, MoveFails(x) PROVE Data'
<1>1. /\ run[x].phase = "moving" /\ UNCHANGED <<refs, point, left>> /\ Rollback(x)
      /\ run \in [Execs -> Run] /\ run[x] \in Run
  BY DEF MoveFails, Core, TypeOK
<1>2. /\ run'[x].phase = "undoing" /\ run'[x].log = run[x].log
      /\ run'[x].names = run[x].names /\ run'[x].canonical = run[x].canonical
      /\ \A y \in Execs \ {x} : run'[y] = run[y]
  BY <1>1 DEF Rollback, Run
<1>3. \A q \in Points : Out(run'[x], q) <=> Out(run[x], q)
  BY <1>1, <1>2 DEF Out, Loose
<1> QED
  BY <1>1, <1>2, <1>3, LeftGrows, Loosen

\* The point of the lost answer is at the canonical name and in no log.
LEMMA DataMoveUnanswered ==
    ASSUME Core, Data, [Next]_vars, NEW x \in Execs, NEW p \in Points,
           MoveUnanswered(x, p)
    PROVE  Data'
<1> DEFINE c == run[x].canonical
<1>1. /\ run[x].phase = "moving" /\ UNCHANGED refs /\ Rollback(x)
      /\ run \in [Execs -> Run] /\ run[x] \in Run /\ Shaped(run[x])
      /\ point \in [Points -> Projects] /\ point' = [point EXCEPT ![p] = c]
  BY DEF MoveUnanswered, Core, TypeOK, Shape
<1>2. /\ run'[x].phase = "undoing" /\ run'[x].log = run[x].log
      /\ run'[x].names = run[x].names /\ run'[x].canonical = c
      /\ \A y \in Execs \ {x} : run'[y] = run[y]
  BY <1>1 DEF Rollback, Run
<1>3. \A y \in Execs, q \in Points : Out(run'[y], q) <=> Out(run[y], q)
  BY <1>1, <1>2 DEF Out, Loose
<1>4. left'[p] # {}
  <2>1. left \in [Points -> SUBSET Reason] /\ "unanswered" \in Reason
    BY DEF Core, TypeOK, Reason
  <2>2. "unanswered" \in left'[p]
    BY <2>1, NoteType DEF MoveUnanswered
  <2> QED
    BY <2>2
<1>5. \A q \in Points : left[q] \subseteq left'[q]
  BY LeftGrows
<1>6. \A y \in Execs : run'[y].phase = "moving" => y # x /\ run'[y] = run[y]
  BY <1>2
<1>7. \A q \in Points \ {p} : point'[q] = point[q]
  BY <1>1
<1>8. Apart' /\ Staged' /\ Marked'
  <2>1. Apart'
    BY <1>6 DEF Data, Fenced, Apart
  <2>2. Staged'
    BY <1>1, <1>6 DEF Data, Fenced, Staged
  <2>3. Marked'
    <3> SUFFICES ASSUME NEW z \in Execs, NEW y \in Execs, NEW q \in Points,
                        run'[z].phase = "moving", z # y, Loose(run'[y]),
                        run'[y].names \cap run'[z].names # {},
                        run'[y].log[q] # NoProject
                 PROVE  left'[q] \cap Crossing # {}
      BY DEF Marked
    <3>1. run'[z] = run[z] /\ z # x
      BY <1>6
    <3>2. CASE y # x
      BY <1>2, <1>5, <3>1, <3>2 DEF Data, Fenced, Marked
    <3>3. CASE y = x
      BY <1>1, <1>2, <3>1, <3>3 DEF Data, Fenced, Apart
    <3> QED
      BY <3>2, <3>3
  <2> QED
    BY <2>1, <2>2, <2>3
<1>9. ASSUME NEW q \in Points, left'[q] \cap Crossing = {} PROVE Swept(q)'
  <2>1. Swept(q)
    BY <1>5, <1>9 DEF Data
  <2>2. CASE q # p
    BY <1>6, <1>7, <2>1, <2>2 DEF Swept
  <2>3. CASE q = p
    <3>1. point'[p] = c /\ c \in run[x].names
      BY <1>1 DEF Shaped, Named
    <3>2. \A y \in Execs : run'[y].phase = "moving" => c \notin run'[y].aliases
      BY <1>1, <1>6, <3>1 DEF Data, Fenced, Apart, Core, Shape, Shaped, Named
    <3> QED
      BY <2>3, <3>1, <3>2 DEF Swept
  <2> QED
    BY <2>2, <2>3
<1>10. ASSUME NEW q \in Points, left'[q] = {} PROVE Placed(q)' /\ Backed(q)'
  <2>1. Placed(q) /\ Backed(q) /\ q # p
    BY <1>4, <1>5, <1>10 DEF Data
  <2>2. Placed(q)'
    <3>1. \A y \in Execs : run'[y].canonical = run[y].canonical /\ run'[y].log = run[y].log
      BY <1>2
    <3> QED
      BY <1>1, <1>3, <1>7, <2>1, <3>1 DEF Placed
  <2>3. Backed(q)'
    BY <1>1, <1>3, <1>6, <2>1 DEF Backed
  <2> QED
    BY <2>2, <2>3
<1> QED
  BY <1>8, <1>9, <1>10 DEF Data, Fenced

LEMMA DataLockName ==
    ASSUME Core, Core', Data, [Next]_vars, NEW x \in Execs, NEW a \in Projects,
           LockName(x, a)
    PROVE  Data'
<1>1. run \in [Execs -> Run] /\ run' \in [Execs -> Run] /\ run[x].phase = "locking"
  BY DEF Core, TypeOK, LockName, NextName
<1>2. run' = [run EXCEPT ![x] = run'[x]] /\ run'[x] \in Run /\ run'[x].phase = "locking"
  BY <1>1 DEF LockName, Run
<1> QED
  BY <1>1, <1>2, DataPrelude DEF LockName

LEMMA DataCommit ==
    ASSUME Core, Data, [Next]_vars, NEW x \in Execs, Commit(x) PROVE Data'
<1>1. run'[x].phase \notin Named /\ \A y \in Execs \ {x} : run'[y] = run[y]
  <2>1. PICK ph \in Phase \ Named : Enter(x, ph)
    BY Ends DEF Commit
  <2> QED
    BY <2>1, EnterCore
<1>2. run'[x].phase # "moving" /\ ~Loose(run'[x])
  BY <1>1 DEF Named, Loose
<1> QED
  BY <1>1, <1>2, Lands DEF Commit

LEMMA DataCommitAmbiguous ==
    ASSUME Core, Data, [Next]_vars, NEW x \in Execs, CommitAmbiguous(x) PROVE Data'
<1>1. PICK landed \in BOOLEAN :
        /\ IF landed THEN Land(x) ELSE UNCHANGED <<catalog, refs, prop>>
        /\ run' = [run EXCEPT ![x].phase = "verifying", ![x].landed = landed]
  BY DEF CommitAmbiguous
<1>2. /\ run[x].phase = "moving" /\ AllMoved(x) /\ UNCHANGED <<point, left>>
      /\ run \in [Execs -> Run] /\ run[x] \in Run
  BY DEF CommitAmbiguous, Core, TypeOK
<1>3. /\ run'[x].phase = "verifying" /\ run'[x].log = run[x].log
      /\ run'[x].names = run[x].names /\ run'[x].canonical = run[x].canonical
      /\ run'[x].landed = landed
      /\ \A y \in Execs \ {x} : run'[y] = run[y]
  BY <1>1, <1>2 DEF Run
<1>4. CASE landed
  <2>1. ~Loose(run'[x])
    BY <1>3, <1>4 DEF Loose
  <2> QED
    BY <1>1, <1>2, <1>3, <1>4, <2>1, Lands
<1>5. CASE ~landed
  <2>1. \A q \in Points : Out(run'[x], q) <=> Out(run[x], q)
    BY <1>2, <1>3, <1>5 DEF Out, Loose
  <2>2. UNCHANGED refs
    BY <1>1, <1>5
  <2> QED
    BY <1>2, <1>3, <2>1, <2>2, LeftGrows, Loosen
<1> QED
  BY <1>4, <1>5

LEMMA DataUndoSteps ==
    ASSUME Core, Data, [Next]_vars, NEW x \in Execs, NEW p \in Points,
           UndoPoint(x, p) \/ UndoFails(x, p)
    PROVE  Data'
<1>1. CASE UndoPoint(x, p)
  BY <1>1, LeftGrows, DataUndo DEF UndoPoint
<1>2. CASE UndoFails(x, p)
  <2>1. left \in [Points -> SUBSET Reason] /\ "undo" \in Reason
    BY DEF Core, TypeOK, Reason
  <2>2. "undo" \in left'[p]
    BY <1>2, <2>1, NoteType DEF UndoFails
  <2>3. left'[p] # {}
    BY <2>2
  <2> QED
    BY <1>2, <2>3, LeftGrows, DataUndo DEF UndoFails
<1> QED
  BY <1>1, <1>2

\* A crash of one side takes its runs with it.
LEMMA DataCrash ==
    ASSUME Core, Data, [Next]_vars, NEW X \in SUBSET Execs,
           NEW e, e.phase \in {"idle", "over"},
           run' = [x \in Execs |-> IF x \in X THEN e ELSE run[x]],
           Note(UNION {Astray(x) : x \in X}, "crash"),
           UNCHANGED <<refs, point>>
    PROVE  Data'
<1>1. \A x \in X : run'[x].phase # "moving" /\ ~Loose(run'[x])
  BY DEF Loose
<1>2. ASSUME NEW x \in X, NEW q \in Points, Out(run[x], q) PROVE left'[q] # {}
  <2>1. q \in UNION {Astray(y) : y \in X}
    BY <1>2, AstrayIsOut
  <2>2. left \in [Points -> SUBSET Reason] /\ "crash" \in Reason
    BY DEF Core, TypeOK, Reason
  <2>3. "crash" \in left'[q]
    BY <2>1, <2>2, NoteType
  <2> QED
    BY <2>3
<1>3. \A y \in Execs \ X : run'[y] = run[y]
  OBVIOUS
<1> QED
  BY <1>1, <1>2, <1>3, LeftGrows, Release

LEMMA DataCrashes ==
    ASSUME Core, Data, [Next]_vars, WorkerCrash \/ ApiCrash PROVE Data'
<1>1. Jobs \in SUBSET Execs /\ Renames \in SUBSET Execs
  BY DEF Execs
<1>2. Idle.phase = "idle" /\ [Idle EXCEPT !.phase = "over"].phase = "over"
  BY IdleRun
<1>3. CASE WorkerCrash
  BY <1>1, <1>2, <1>3, DataCrash DEF WorkerCrash
<1>4. CASE ApiCrash
  <2> DEFINE e == [Idle EXCEPT !.phase = "over"]
  <2>1. /\ run' = [x \in Execs |-> IF x \in Renames THEN e ELSE run[x]]
        /\ Note(UNION {Astray(x) : x \in Renames}, "crash")
        /\ UNCHANGED <<refs, point>>
    BY <1>4 DEF ApiCrash
  <2>2. e.phase = "over"
    BY <1>2
  <2> HIDE DEF e
  <2> QED
    BY <1>1, <2>1, <2>2, DataCrash
<1> QED
  BY <1>3, <1>4

LEMMA DataNext ==
    ASSUME Core, Core', Keys, Data, ProjectMergeAssumption, [Next]_vars PROVE Data'
<1>1. CASE UNCHANGED <<refs, point, run, left>>
  BY <1>1 DEF Data, Fenced, Apart, Staged, Marked, Swept, Placed, Backed
<1>2. CASE \E j \in Jobs : \/ Take(j) \/ ClientUnavailable(j) \/ OpenProposal(j)
                           \/ MarkFailed(j) \/ EndJob(j)
  BY <1>2, DataJob
<1>3. CASE \E x \in Renames, old, new \in Projects : StartRename(x, old, new)
  BY <1>3, DataStartRename
<1>4. CASE \E x \in Execs : MergeStep(x) \/ MergeFault(x)
  BY <1>4, DataStage, DataLeave, DataCommit, DataVerify, DataScroll, DataMove,
     DataUndoSteps, DataMoveFails, DataMoveUnanswered, DataLockName, DataCommitAmbiguous
     DEF MergeStep, MergeFault
<1>5. CASE WorkerCrash \/ ApiCrash
  BY <1>5, DataCrashes
<1> QED
  BY <1>1, <1>2, <1>3, <1>4, <1>5
     DEF Next, vars, Decide, Record, Reject, Approve, Enqueue, EnqueueFails, JobStep, Execs

-----------------------------------------------------------------------------
(* Theorems                                                                *)

(***************************************************************************)
(* Types, locks and the places of points hold in every state.              *)
(***************************************************************************)
THEOREM DataCorrect == Spec => [](Core /\ Control /\ Keys /\ Data)
<1>1. Init => Data
  BY DataInit
<1>2. Core /\ Core' /\ Keys /\ Data /\ [Next]_vars => Data'
  BY ProjectMergeAssumption, DataNext
<1> QED
  BY <1>1, <1>2, KeysCorrect, PTL DEF Spec

(***************************************************************************)
(* The database and the vector store agree, through refused moves, refused *)
(* and ambiguous commits, undone merges and any number of concurrent       *)
(* merges and renames, except for points whose history names what left     *)
(* them astray: a crash, a compensation or a verification that failed, a   *)
(* verdict on a rename that others made wrong, a merge that took the locks *)
(* before the other was undone, or a move whose answer was lost (that one  *)
(* is in no log, so it is neither undone nor reported).                    *)
(***************************************************************************)
THEOREM StoresAlwaysAgree == Spec => []StoresAgree
<1>1. Core /\ Control /\ Data => StoresAgree
  <2> SUFFICES ASSUME Data, NEW q \in Points, left[q] = {}
               PROVE  Place(q) = {point[q]}
    BY DEF StoresAgree
  <2>1. Placed(q)
    BY DEF Data
  <2>2. \A x \in Execs : Borrows(x, q) <=> Out(run[x], q)
    BY AstrayIsOut DEF Borrows
  <2>3. CASE \E x \in Execs : Borrows(x, q)
    <3>1. PICK x \in Execs : Borrows(x, q)
      BY <2>3
    <3>2. \A y \in Execs : Borrows(y, q) <=> y = x
      BY <2>1, <2>2, <3>1 DEF Placed
    <3>3. run[x].canonical = point[q]
      BY <2>1, <2>2, <3>1 DEF Placed
    <3> QED
      BY <2>3, <3>1, <3>2, <3>3 DEF Place
  <2>4. CASE ~\E x \in Execs : Borrows(x, q)
    BY <2>1, <2>2, <2>4 DEF Place, Placed
  <2> QED
    BY <2>3, <2>4
<1> QED
  BY <1>1, DataCorrect, PTL

\* Only its commit changes a proposal whose merge is at work.
LEMMA OnlyCommits ==
    ASSUME Core, Held, ProjectMergeAssumption, [Next]_vars, NEW j \in Jobs,
           run[j].phase = "moving",
           prop'[job[j].proposal] # prop[job[j].proposal]
    PROVE  AllMoved(j) /\ UNCHANGED point
<1> DEFINE p == job[j].proposal
<1>1. p \in Proposals /\ ProposalLocked(p)
  BY DEF Core, Busy, Job, ProposalLocked
<1>2. Merged(p)
  BY <1>1, PropNext DEF Decided
<1>3. run'[j].phase \notin Holding /\ prop'[p].status = "applied"
  BY <1>2 DEF Merged, Held, Holding
<1>4. prop' # prop
  OBVIOUS
<1>5. PICK x \in Execs : Commit(x) \/ CommitAmbiguous(x)
  <2>1. ASSUME NEW o \in Proposals, Reject(o) \/ \E i \in Jobs : Approve(o, i)
        PROVE  FALSE
    BY <1>1, <1>3, <2>1 DEF Reject, Transition, Approve, Core, TypeOK, Proposal
  <2>2. ASSUME NEW o \in Proposals, NEW c \in Projects, NEW as \in SUBSET Projects,
               Record(o, c, as)
        PROVE  FALSE
    BY <1>1, <1>3, <2>2 DEF Record, Core, TypeOK, Held, Holding
  <2>3. ASSUME NEW i \in Jobs, EnqueueFails(i) \/ MarkFailed(i) PROVE FALSE
    <3>1. \E expected : Transition(job[i].proposal, expected, "failed")
      BY <1>4, <2>3 DEF EnqueueFails, MarkFailed
    <3>2. job[i].proposal # p
      BY <1>1, <3>1 DEF Transition
    <3> QED
      BY <3>1, <3>2 DEF Transition
  <2>4. ASSUME NEW x \in Execs, MergeStep(x) \/ MergeFault(x)
        PROVE  Commit(x) \/ CommitAmbiguous(x)
    <3>1. CASE MergeStep(x)
      BY <1>4, <3>1 DEF MergeStep, Stage, Refuse, Verify, Undone, LockName, Scroll, Move,
       UndoPoint
    <3>2. CASE MergeFault(x)
      BY <1>4, <3>2 DEF MergeFault, StageFails, MoveFails, MoveUnanswered,
       VerifyFails, UndoFails
    <3> QED
      BY <2>4, <3>1, <3>2
  <2>5. ~Decide
    BY <1>4, <2>1, <2>2, <2>3 DEF Decide, Enqueue
  <2>6. ASSUME NEW i \in Jobs, JobStep(i) \/ ClientUnavailable(i) PROVE MergeStep(i)
    BY <1>4, <2>3, <2>6 DEF JobStep, Take, ClientUnavailable, OpenProposal, EndJob
  <2>7. ~(\E y \in Renames, old, new \in Projects : StartRename(y, old, new))
    BY <1>4 DEF StartRename
  <2>8. ~WorkerCrash /\ ~ApiCrash /\ Next
    BY <1>4 DEF WorkerCrash, ApiCrash, vars
  <2>9. \E x \in Execs : MergeStep(x) \/ MergeFault(x)
    BY <2>5, <2>6, <2>7, <2>8 DEF Next, Execs
  <2> QED
    BY <2>4, <2>9
<1>6. x = j
  BY <1>3, <1>5, RunOfOther DEF MergeStep, MergeFault, Execs, Holding
<1> QED
  BY <1>5, <1>6 DEF Commit, CommitAmbiguous

(***************************************************************************)
(* When the merge of a proposal commits no point is left under its         *)
(* aliases, unless a compensation of another run crossed it: the scroll    *)
(* finds points wherever an earlier attempt left them, and what has been   *)
(* scrolled stays empty.                                                   *)
(***************************************************************************)
THEOREM AppliedMergesLeaveNoPoint == Spec => AppliedLeavesNoPoint
<1>1. Core /\ Control /\ Data /\ [Next]_vars =>
        [\A j \in Jobs, q \in Points :
           /\ run[j].phase = "moving"
           /\ prop'[job[j].proposal] # prop[job[j].proposal]
           /\ left[q] \cap {"crossed", "misjudged"} = {}
           => point'[q] \notin run[j].aliases]_vars
  <2> SUFFICES ASSUME Core, Held, Data, [Next]_vars, NEW j \in Jobs, NEW q \in Points,
                      run[j].phase = "moving",
                      prop'[job[j].proposal] # prop[job[j].proposal],
                      left[q] \cap Crossing = {}
               PROVE  point'[q] \notin run[j].aliases
    BY DEF Control, Crossing
  <2>1. AllMoved(j) /\ point' = point
    BY ProjectMergeAssumption, OnlyCommits
  <2>2. Swept(q) /\ j \in Execs
    BY DEF Data, Execs
  <2>3. run[j].todo = {} /\ run[j].page[q] = NoProject
    BY <2>1 DEF AllMoved, Nowhere
  <2> QED
    BY <2>1, <2>2, <2>3 DEF Swept
<1> QED
  BY <1>1, DataCorrect, PTL DEF Spec, AppliedLeavesNoPoint
=============================================================================
