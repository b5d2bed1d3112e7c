---------------------------- MODULE ProjectMerge ----------------------------
(***************************************************************************)
(* Merging and renaming projects: openmemory/api/app/governance/           *)
(* project_merge.py and merge_proposals.py, the admin routes that decide   *)
(* on proposals and rename projects, and the governance job that applies   *)
(* an approved proposal.                                                   *)
(*                                                                         *)
(* A memory is kept twice: rows of the database name its project (refs),   *)
(* and so does the payload of its point in the vector store (point).  A    *)
(* merge holds the changed rows in an open transaction while it moves the  *)
(* points one by one, and moves them back when the transaction fails.  The *)
(* transaction holds the advisory locks of all names involved, taken one   *)
(* after another, and the row of the proposal; whatever comes after its    *)
(* end holds nothing.                                                      *)
(*                                                                         *)
(* Abstracted: the LLM that finds groups (any group of known names may be  *)
(* proposed), protected names, dedicated partitions and slug clashes (they *)
(* only make a merge refuse), schedules and policies (moved in the same    *)
(* transaction as refs), pages of the scroll (a project fits in one), new  *)
(* memories written meanwhile, two names with one hash.  A connection lost *)
(* during COMMIT is decided one way or the other before the verification   *)
(* reads, and a move whose answer is lost is applied before the            *)
(* compensation begins.  The governance queue is reduced to taking, ending *)
(* and requeueing jobs.                                                    *)
(***************************************************************************)
EXTENDS Integers, FiniteSets

CONSTANTS
    Projects,        \* project names
    Points,          \* memories
    Proposals,       \* rows project_merge_proposals
    NumJobs,         \* bound on approvals; each enqueues a job of its own
    Renames,         \* rename requests, one call each
    NoProject,       \* no project
    Rank,            \* the alphabetical order of the names
    MaxConcurrency,  \* jobs the governance worker runs at a time
    MaxAttempts,     \* the worker's ceiling of attempts
    MaxUpsets        \* bound on crashes and failed calls

Jobs  == 1 .. NumJobs
Execs == Jobs \cup Renames

ASSUME ProjectMergeAssumption ==
    /\ NoProject \notin Projects
    /\ IsFiniteSet(Projects)
    /\ Rank \in [Projects -> 1 .. Cardinality(Projects)]
    /\ \A a, b \in Projects : Rank[a] = Rank[b] => a = b
    /\ NumJobs \in Nat
    /\ Renames \cap Jobs = {}
    /\ MaxConcurrency \in Nat \ {0}
    /\ MaxAttempts \in Nat \ {0}
    /\ MaxUpsets \in Nat

ProposalStatus == {"absent", "pending", "approved", "rejected", "applied", "failed"}
Proposal == [status    : ProposalStatus,
             canonical : Projects \cup {NoProject},
             aliases   : SUBSET Projects,
             job       : Jobs \cup {0}]          \* apply_job_id

\* unsent: approved, not yet enqueued; lost: never to be enqueued.
Job == [status   : {"absent", "unsent", "lost", "queued", "processing", "done", "failed"},
        proposal : Proposals,
        attempts : Nat]
NoJob == [status |-> "absent"]

Phase == {"idle", "taken", "locking", "moving", "verifying", "undoing", "failing",
          "refused", "raised", "succeeded", "over"}

\* One call of apply_project_merge.
Run == [phase     : Phase,
        canonical : Projects \cup {NoProject},
        names     : SUBSET Projects,                    \* canonical and aliases
        locks     : SUBSET Projects,                    \* of them, locked so far
        aliases   : SUBSET Projects,                    \* the eligible ones
        rows      : SUBSET Points,                      \* memories whose refs it changes
        cats      : SUBSET Projects,                    \* catalog rows it deletes
        todo      : SUBSET Projects,                    \* aliases still to be scrolled
        page      : [Points -> Projects \cup {NoProject}], \* scrolled, not yet moved
        log       : [Points -> Projects \cup {NoProject}], \* moved_log: where from
        landed    : BOOLEAN]                            \* history: the commit happened

Nowhere == [q \in Points |-> NoProject]

Idle == [phase |-> "idle", canonical |-> NoProject, names |-> {}, locks |-> {},
         aliases |-> {}, rows |-> {}, cats |-> {}, todo |-> {}, page |-> Nowhere,
         log |-> Nowhere, landed |-> FALSE]

Reason == {"crash", "undo", "unverified", "misjudged", "crossed", "unanswered"}

VARIABLES
    catalog,  \* SUBSET Projects, the table projects
    refs,     \* [Points -> Projects], the rows that name a memory's project
    point,    \* [Points -> Projects], payload.project in the vector store
    prop,     \* [Proposals -> Proposal]
    job,      \* [Jobs -> Job or NoJob], governance_jobs
    run,      \* [Execs -> Run]
    left,     \* history: [Points -> SUBSET Reason], why a point may be astray
    upsets    \* crashes and failed calls so far, for the bound

vars == <<catalog, refs, point, prop, job, run, left, upsets>>

Init ==
    /\ refs \in [Points -> Projects]
    /\ catalog \in {C \in SUBSET Projects : \A q \in Points : refs[q] \in C}
    /\ point = refs
    /\ prop = [p \in Proposals |-> [status |-> "absent", canonical |-> NoProject,
                                    aliases |-> {}, job |-> 0]]
    /\ job = [j \in Jobs |-> NoJob]
    /\ run = [x \in Execs |-> Idle]
    /\ left = [q \in Points |-> {}]
    /\ upsets = 0

Upset == upsets < MaxUpsets /\ upsets' = upsets + 1

Moved(x) == {q \in Points : run[x].log[q] # NoProject}

\* FOR UPDATE on the proposal, held to the end of the transaction.
ProposalLocked(p) ==
    \E j \in Jobs : run[j].phase \in {"locking", "moving"} /\ job[j].proposal = p

\* Mutant: the names are not sorted, the canonical one comes first.
NextNameUnsorted(x, a) ==
    LET rest == run[x].names \ run[x].locks
    IN  /\ run[x].phase = "locking"
        /\ a \in rest
        /\ IF run[x].canonical \in rest THEN a = run[x].canonical
                                       ELSE \A b \in rest : Rank[a] <= Rank[b]

\* The advisory locks are taken one after another, in alphabetical order, and
\* kept to the end of the transaction.
NextName(x, a) ==
    LET rest == run[x].names \ run[x].locks
    IN  /\ run[x].phase = "locking"
        /\ a \in rest
        /\ \A b \in rest : Rank[a] <= Rank[b]

Locks(x, a) == run[x].phase \in {"locking", "moving"} /\ a \in run[x].locks

\* Run x is waiting for a name that run y has locked.
WaitsFor(x, y) == \E a \in Projects : NextName(x, a) /\ Locks(y, a)

\* project_exists: in the catalog or in the vector store.
Exists(c) == c \in catalog \/ \E q \in Points : point[q] = c

-----------------------------------------------------------------------------
(* Proposals and the decisions of an administrator                         *)

Open == {"pending", "approved", "failed"}

Record(p, c, as) ==
    /\ prop[p].status = "absent"
    /\ c \notin as
    /\ as # {}
    /\ Exists(c)
    /\ as \subseteq catalog
    /\ ~\E o \in Proposals : /\ prop[o].status \in Open
                             /\ prop[o].aliases \cup {prop[o].canonical} = as \cup {c}
    /\ prop' = [prop EXCEPT ![p] = [status |-> "pending", canonical |-> c,
                                    aliases |-> as, job |-> 0]]
    /\ UNCHANGED <<catalog, refs, point, job, run, left, upsets>>

\* transition_proposal: UPDATE ... WHERE status IN (expected), which waits for
\* the row.
Transition(p, expected, new) ==
    /\ ~ProposalLocked(p)
    /\ prop[p].status \in expected
    /\ prop' = [prop EXCEPT ![p].status = new]

Approve(p, j) ==
    /\ job[j] = NoJob
    /\ \A i \in Jobs : job[i] = NoJob => j <= i
    /\ ~ProposalLocked(p)
    /\ prop[p].status \in {"pending", "failed"}
    /\ prop' = [prop EXCEPT ![p].status = "approved", ![p].job = j]
    /\ job' = [job EXCEPT ![j] = [status |-> "unsent", proposal |-> p, attempts |-> 0]]
    /\ UNCHANGED <<catalog, refs, point, run, left, upsets>>

Enqueue(j) ==
    /\ job[j].status = "unsent"
    /\ job' = [job EXCEPT ![j].status = "queued"]
    /\ UNCHANGED <<catalog, refs, point, prop, run, left, upsets>>

\* Approved without a job would be stuck; failed lets the administrator retry.
EnqueueFails(j) ==
    LET p == job[j].proposal
    IN  /\ job[j].status = "unsent"
        /\ Upset
        /\ \/ Transition(p, {"approved"}, "failed")
           \/ prop[p].status # "approved" /\ ~ProposalLocked(p) /\ UNCHANGED prop
        /\ job' = [job EXCEPT ![j].status = "lost"]
        /\ UNCHANGED <<catalog, refs, point, run, left>>

Reject(p) ==
    /\ Transition(p, {"pending", "approved", "failed"}, "rejected")
    /\ UNCHANGED <<catalog, refs, point, job, run, left, upsets>>

-----------------------------------------------------------------------------
(* Before the transaction                                                  *)

Running == {j \in Jobs : run[j].phase # "idle"}

Take(j) ==
    /\ job[j].status = "queued"
    /\ Cardinality(Running) < MaxConcurrency
    /\ job' = [job EXCEPT ![j].status = "processing"]
    /\ run' = [run EXCEPT ![j].phase = "taken"]
    /\ UNCHANGED <<catalog, refs, point, prop, left, upsets>>

\* The memory client is unavailable: the handler raises before it has looked
\* at the proposal.
ClientUnavailable(j) ==
    /\ run[j].phase = "taken"
    /\ Upset
    /\ run' = [run EXCEPT ![j].phase = "raised"]
    /\ UNCHANGED <<catalog, refs, point, prop, job, left>>

\* Approved, or failed by an earlier attempt of this job.
Resumes(j) ==
    LET p == prop[job[j].proposal]
    IN  p.status = "approved" \/ (p.status = "failed" /\ p.job = j)

\* lock_proposal waits at most lock_timeout, outside the handler's try.
OpenProposal(j) ==
    LET p == job[j].proposal
    IN  /\ run[j].phase = "taken"
        /\ IF ProposalLocked(p) THEN run' = [run EXCEPT ![j].phase = "raised"]
           ELSE IF Resumes(j)
           THEN run' = [run EXCEPT ![j] =
                          [Idle EXCEPT !.phase = "locking",
                                       !.canonical = prop[p].canonical,
                                       !.names = prop[p].aliases \cup {prop[p].canonical},
                                       !.aliases = prop[p].aliases]]
           ELSE run' = [run EXCEPT ![j].phase = "succeeded"]
        /\ UNCHANGED <<catalog, refs, point, prop, job, left, upsets>>

\* rename_project: a target that exists is proposed for a merge instead.
StartRename(x, old, new) ==
    /\ run[x].phase = "idle"
    /\ old \in catalog
    /\ new # old
    /\ ~Exists(new)
    /\ run' = [run EXCEPT ![x] = [Idle EXCEPT !.phase = "locking", !.canonical = new,
                                              !.names = {old, new}, !.aliases = {old}]]
    /\ UNCHANGED <<catalog, refs, point, prop, job, left, upsets>>

-----------------------------------------------------------------------------
(* apply_project_merge                                                     *)

\* Where a run goes on when it has failed without anything to undo.
Failed(x)  == IF x \in Jobs THEN "failing" ELSE "over"
Refused(x) == IF x \in Jobs THEN "refused" ELSE "over"
Ended(x)   == IF x \in Jobs THEN "succeeded" ELSE "over"

Enter(x, phase) == run' = [run EXCEPT ![x] = [Idle EXCEPT !.phase = phase]]

\* A deterministic refusal: of a proposal whose canonical project or whose
\* aliases are all gone, of a rename whose target has appeared.
Refuses(x) ==
    IF x \in Jobs
    THEN ~Exists(run[x].canonical) \/ ~\E a \in run[x].aliases : Exists(a)
    ELSE run[x].canonical \in catalog

\* The locks are gone but the points are not back yet: whoever takes the locks
\* works on what the other run is still undoing.
Exposed(x, names) ==
    /\ \/ run[x].phase = "undoing"
       \/ run[x].phase = "verifying" /\ ~run[x].landed
    /\ run[x].names \cap names # {}

Note(S, reason) ==
    left' = [q \in Points |-> IF q \in S THEN left[q] \cup {reason} ELSE left[q]]

LockName(x, a) ==
    /\ NextName(x, a)
    /\ ~\E y \in Execs : Locks(y, a)
    /\ run' = [run EXCEPT ![x].locks = @ \cup {a}]
    /\ UNCHANGED <<catalog, refs, point, prop, job, left, upsets>>

AllLocked(x) == run[x].phase = "locking" /\ run[x].locks = run[x].names

Stage(x) ==
    LET aliases == IF x \in Jobs THEN {a \in run[x].aliases : Exists(a)}
                                 ELSE run[x].aliases
    IN  /\ AllLocked(x)
        /\ ~Refuses(x)
        /\ run' = [run EXCEPT ![x].phase = "moving",
                              ![x].aliases = aliases,
                              ![x].rows = {q \in Points : refs[q] \in aliases},
                              ![x].cats = aliases \cap catalog,
                              ![x].todo = aliases]
        /\ Note({q \in Points : \E y \in Execs \ {x} :
                    Exposed(y, run[x].names) /\ q \in Moved(y)}, "crossed")
        /\ UNCHANGED <<catalog, refs, point, prop, job, upsets>>

Refuse(x) ==
    /\ AllLocked(x)
    /\ Refuses(x)
    /\ Enter(x, Refused(x))
    /\ UNCHANGED <<catalog, refs, point, prop, job, left, upsets>>

\* lock_timeout while another run holds the next name, or a database or vector
\* store that does not answer.
StageFails(x) ==
    /\ run[x].phase = "locking"
    /\ IF \E y \in Execs : WaitsFor(x, y) THEN UNCHANGED upsets ELSE Upset
    /\ Enter(x, Failed(x))
    /\ UNCHANGED <<catalog, refs, point, prop, job, left>>

\* relocate_project_memories: the points of one alias, found by their payload.
Scroll(x, a) ==
    /\ run[x].phase = "moving"
    /\ run[x].page = Nowhere
    /\ a \in run[x].todo
    /\ run' = [run EXCEPT ![x].todo = @ \ {a},
                          ![x].page = [q \in Points |-> IF point[q] = a THEN a
                                                        ELSE NoProject]]
    /\ UNCHANGED <<catalog, refs, point, prop, job, left, upsets>>

\* Mutant: a point is moved without being logged.
MoveUnlogged(x, q) ==
    /\ run[x].phase = "moving"
    /\ run[x].page[q] # NoProject
    /\ point' = [point EXCEPT ![q] = run[x].canonical]
    /\ run' = [run EXCEPT ![x].page[q] = NoProject]
    /\ UNCHANGED <<catalog, refs, prop, job, left, upsets>>

Move(x, q) ==
    /\ run[x].phase = "moving"
    /\ run[x].page[q] # NoProject
    /\ point' = [point EXCEPT ![q] = run[x].canonical]
    /\ run' = [run EXCEPT ![x].page[q] = NoProject,
                          ![x].log[q] = IF @ = NoProject THEN run[x].page[q] ELSE @]
    /\ UNCHANGED <<catalog, refs, prop, job, left, upsets>>

\* _rollback_and_compensate, first part: the transaction and its locks are gone.
Rollback(x) == run' = [run EXCEPT ![x].phase = "undoing", ![x].page = Nowhere]

\* A point cannot be moved, or the commit is refused.
MoveFails(x) ==
    /\ run[x].phase = "moving"
    /\ Upset
    /\ Rollback(x)
    /\ UNCHANGED <<catalog, refs, point, prop, job, left>>

\* The store has moved a point but its answer is lost: the call raises before
\* the point is logged, so that nothing will move it back.
MoveUnanswered(x, q) ==
    /\ run[x].phase = "moving"
    /\ run[x].page[q] # NoProject
    /\ Upset
    /\ point' = [point EXCEPT ![q] = run[x].canonical]
    /\ Rollback(x)
    /\ Note({q}, "unanswered")
    /\ UNCHANGED <<catalog, refs, prop, job>>

\* What the transaction of run x changes.
Land(x) ==
    /\ catalog' = (catalog \ run[x].aliases) \cup {run[x].canonical}
    /\ refs' = [q \in Points |-> IF q \in run[x].rows THEN run[x].canonical ELSE refs[q]]
    /\ prop' = IF x \in Jobs
               THEN [prop EXCEPT ![job[x].proposal].status = "applied",
                                 ![job[x].proposal].job = x]
               ELSE prop

\* Mutant: the commit does not wait for the points.
AllMovedAlways(x) == TRUE

AllMoved(x) == run[x].todo = {} /\ run[x].page = Nowhere

Commit(x) ==
    /\ run[x].phase = "moving"
    /\ AllMoved(x)
    /\ Land(x)
    /\ Enter(x, Ended(x))
    /\ UNCHANGED <<point, job, left, upsets>>

\* The connection is lost during COMMIT.
CommitAmbiguous(x) ==
    /\ run[x].phase = "moving"
    /\ AllMoved(x)
    /\ Upset
    /\ \E landed \in BOOLEAN :
          /\ IF landed THEN Land(x) ELSE UNCHANGED <<catalog, refs, prop>>
          /\ run' = [run EXCEPT ![x].phase = "verifying", ![x].landed = landed]
    /\ UNCHANGED <<point, job, left>>

\* Mutant: the canonical project is taken for the sign of a commit.
SeemsLandedByCatalog(x) == run[x].canonical \in catalog

\* commit_landed: the proposal says applied by this job; for a rename the old
\* row is gone, or the new one is there.
SeemsLanded(x) ==
    IF x \in Jobs
    THEN prop[job[x].proposal].status = "applied" /\ prop[job[x].proposal].job = x
    ELSE IF run[x].cats # {} THEN run[x].cats \cap catalog = {}
                             ELSE run[x].canonical \in catalog

Verify(x) ==
    /\ run[x].phase = "verifying"
    /\ IF SeemsLanded(x) THEN Enter(x, Ended(x)) ELSE Rollback(x)
    /\ IF SeemsLanded(x) = run[x].landed THEN UNCHANGED left ELSE Note(Moved(x), "misjudged")
    /\ UNCHANGED <<catalog, refs, point, prop, job, upsets>>

\* The verification cannot read either: nothing is undone.
VerifyFails(x) ==
    /\ run[x].phase = "verifying"
    /\ Upset
    /\ Enter(x, Failed(x))
    /\ IF run[x].landed THEN UNCHANGED left ELSE Note(Moved(x), "unverified")
    /\ UNCHANGED <<catalog, refs, point, prop, job>>

\* revert_relocated_memories
UndoPoint(x, q) ==
    /\ run[x].phase = "undoing"
    /\ q \in Moved(x)
    /\ point' = [point EXCEPT ![q] = run[x].log[q]]
    /\ run' = [run EXCEPT ![x].log[q] = NoProject]
    /\ UNCHANGED <<catalog, refs, prop, job, left, upsets>>

\* The call fails, or only its answer is lost; reported as failed either way.
UndoFails(x, q) ==
    /\ run[x].phase = "undoing"
    /\ q \in Moved(x)
    /\ Upset
    /\ point' \in {point, [point EXCEPT ![q] = run[x].log[q]]}
    /\ run' = [run EXCEPT ![x].log[q] = NoProject]
    /\ Note({q}, "undo")
    /\ UNCHANGED <<catalog, refs, prop, job>>

\* Mutant: the failure is reported before the points are back.
UndoneEarly(x) ==
    /\ run[x].phase = "undoing"
    /\ Enter(x, Failed(x))
    /\ UNCHANGED <<catalog, refs, point, prop, job, left, upsets>>

Undone(x) ==
    /\ run[x].phase = "undoing"
    /\ Moved(x) = {}
    /\ Enter(x, Failed(x))
    /\ UNCHANGED <<catalog, refs, point, prop, job, left, upsets>>

-----------------------------------------------------------------------------
(* After the transaction                                                   *)

\* Mutant: the failure is written over any decision.
MarkFailedAnyway(j) ==
    /\ run[j].phase \in {"failing", "refused"}
    /\ ~ProposalLocked(job[j].proposal)
    /\ prop' = [prop EXCEPT ![job[j].proposal].status = "failed"]
    /\ Enter(j, IF run[j].phase = "failing" THEN "raised" ELSE "succeeded")
    /\ UNCHANGED <<catalog, refs, point, job, left, upsets>>

\* _mark_proposal_failed; a refusal ends the job, everything else is raised.
MarkFailed(j) ==
    LET p == job[j].proposal
    IN  /\ run[j].phase \in {"failing", "refused"}
        /\ \/ Transition(p, {"approved", "failed"}, "failed")
           \/ ~ProposalLocked(p) /\ prop[p].status \notin {"approved", "failed"}
              /\ UNCHANGED prop
        /\ Enter(j, IF run[j].phase = "failing" THEN "raised" ELSE "succeeded")
        /\ UNCHANGED <<catalog, refs, point, job, left, upsets>>

EndJob(j) ==
    LET n == job[j].attempts + 1
    IN  /\ \/ /\ run[j].phase = "succeeded"
              /\ job' = [job EXCEPT ![j].status = "done"]
           \/ /\ run[j].phase = "raised"
              /\ job' = [job EXCEPT ![j].status = IF n < MaxAttempts THEN "queued"
                                                                     ELSE "failed",
                                    ![j].attempts = n]
        /\ Enter(j, "idle")
        /\ UNCHANGED <<catalog, refs, point, prop, left, upsets>>

\* Run x dies in the middle: what it moved stays where it is.
Astray(x) ==
    IF run[x].phase \in {"moving", "undoing"} \/ (run[x].phase = "verifying" /\ ~run[x].landed)
    THEN Moved(x) ELSE {}

\* Mutant: there is no recovery at startup.
WorkerCrashForgets ==
    /\ Running # {}
    /\ Upset
    /\ run' = [x \in Execs |-> IF x \in Jobs THEN Idle ELSE run[x]]
    /\ Note(UNION {Astray(j) : j \in Jobs}, "crash")
    /\ UNCHANGED <<catalog, refs, point, prop, job>>

\* The governance worker dies; when it starts again it requeues its jobs.
WorkerCrash ==
    /\ Running # {}
    /\ Upset
    /\ run' = [x \in Execs |-> IF x \in Jobs THEN Idle ELSE run[x]]
    /\ job' = [j \in Jobs |-> IF job[j].status = "processing"
                              THEN [job[j] EXCEPT !.status = "queued"] ELSE job[j]]
    /\ Note(UNION {Astray(j) : j \in Jobs}, "crash")
    /\ UNCHANGED <<catalog, refs, point, prop>>

\* The API dies, with its renames and with approvals not yet enqueued.
ApiCrash ==
    /\ \/ \E x \in Renames : run[x].phase \notin {"idle", "over"}
       \/ \E j \in Jobs : job[j].status = "unsent"
    /\ Upset
    /\ run' = [x \in Execs |-> IF x \in Renames THEN [Idle EXCEPT !.phase = "over"]
                                                ELSE run[x]]
    /\ job' = [j \in Jobs |-> IF job[j].status = "unsent"
                              THEN [job[j] EXCEPT !.status = "lost"] ELSE job[j]]
    /\ Note(UNION {Astray(x) : x \in Renames}, "crash")
    /\ UNCHANGED <<catalog, refs, point, prop>>

-----------------------------------------------------------------------------
MergeStep(x) ==
    \/ Stage(x) \/ Refuse(x) \/ Commit(x) \/ Verify(x) \/ Undone(x)
    \/ \E a \in Projects : LockName(x, a) \/ Scroll(x, a)
    \/ \E q \in Points : Move(x, q) \/ UndoPoint(x, q)

MergeFault(x) ==
    \/ StageFails(x) \/ MoveFails(x) \/ CommitAmbiguous(x) \/ VerifyFails(x)
    \/ \E q \in Points : MoveUnanswered(x, q) \/ UndoFails(x, q)

JobStep(j) == Take(j) \/ OpenProposal(j) \/ MergeStep(j) \/ MarkFailed(j) \/ EndJob(j)

Decide ==
    \/ \E p \in Proposals, c \in Projects, as \in SUBSET Projects : Record(p, c, as)
    \/ \E p \in Proposals : Reject(p) \/ \E j \in Jobs : Approve(p, j)
    \/ \E j \in Jobs : Enqueue(j) \/ EnqueueFails(j)

Next ==
    \/ Decide
    \/ \E j \in Jobs : JobStep(j) \/ ClientUnavailable(j)
    \/ \E x \in Renames, old, new \in Projects : StartRename(x, old, new)
    \/ \E x \in Renames : MergeStep(x)
    \/ \E x \in Execs : MergeFault(x)
    \/ WorkerCrash
    \/ ApiCrash

Spec == Init /\ [][Next]_vars

\* The worker polls for ever and its threads run on; a rename that has begun
\* goes on as well.
LiveSpec ==
    /\ Spec
    /\ \A j \in Jobs : WF_vars(JobStep(j))
    /\ \A x \in Renames : WF_vars(MergeStep(x))

-----------------------------------------------------------------------------
(* Properties                                                              *)

TypeOK ==
    /\ catalog \subseteq Projects
    /\ refs \in [Points -> Projects]
    /\ point \in [Points -> Projects]
    /\ prop \in [Proposals -> Proposal]
    /\ job \in [Jobs -> Job \cup {NoJob}]
    /\ run \in [Execs -> Run]
    /\ left \in [Points -> SUBSET Reason]
    /\ upsets \in Nat

\* Run x has moved point q, and its transaction has not changed the rows.
Borrows(x, q) == q \in Astray(x)

\* Where point q should be.
Place(q) == IF \E x \in Execs : Borrows(x, q)
            THEN {run[x].canonical : x \in {y \in Execs : Borrows(y, q)}}
            ELSE {refs[q]}

(***************************************************************************)
(* Rows and payloads agree: outside the merges under way a memory's point  *)
(* carries the project its rows name, through refused moves, refused and   *)
(* ambiguous commits and concurrent merges and renames.  What is excepted  *)
(* is a crash, a failed compensation or verification (which the code only  *)
(* reports), a rename misjudged, a compensation another merge crossed, and *)
(* a point moved by a call whose answer was lost: that one is in no log,   *)
(* so nothing moves it back and nothing is reported.                       *)
(***************************************************************************)
StoresAgree == \A q \in Points : left[q] = {} => Place(q) = {point[q]}

(***************************************************************************)
(* A merge that commits has left no point under its aliases, not even      *)
(* those of an attempt that crashed or could not be undone.                *)
(***************************************************************************)
AppliedLeavesNoPoint ==
    [][\A j \in Jobs, q \in Points :
         /\ run[j].phase = "moving"
         /\ prop'[job[j].proposal] # prop[job[j].proposal]
         /\ left[q] \cap {"crossed", "misjudged"} = {}
         => point'[q] \notin run[j].aliases]_vars

(***************************************************************************)
(* The two final decisions stand: nothing in flight, neither a job that    *)
(* was enqueued nor the report of its failure, changes a proposal that was *)
(* applied or rejected.                                                    *)
(***************************************************************************)
DecisionStands ==
    [][\A p \in Proposals :
         prop[p].status \in {"applied", "rejected"} => prop'[p] = prop[p]]_vars

(***************************************************************************)
(* After an ambiguous commit the job of a proposal decides by what really  *)
(* happened, whatever was decided and merged before it looked.             *)
(***************************************************************************)
CommitJudgedRightly ==
    [][\A j \in Jobs :
         run[j].phase = "verifying" =>
           /\ run'[j].phase = "succeeded" => run[j].landed
           /\ run'[j].phase = "undoing" => ~run[j].landed]_vars

(***************************************************************************)
(* Runs that lock several names never wait for each other in a circle,     *)
(* whatever names they have in common and however often they are retried:  *)
(* lock_projects sorts them (project_merge.py:285, "no deadlocks").        *)
(***************************************************************************)
NoWaitCycle ==
    ~\E S \in (SUBSET Execs) \ {{}} : \A x \in S : \E y \in S : WaitsFor(x, y)

(***************************************************************************)
(* Every merge job ends: runs that wait for each other's locks, retries    *)
(* and crashes do not keep it for ever.                                    *)
(***************************************************************************)
MergeJobsEnd ==
    \A j \in Jobs : job[j].status \in {"queued", "processing"}
                    ~> job[j].status \in {"done", "failed"}

=============================================================================
