----------------------------- MODULE WriteQueue -----------------------------
(***************************************************************************)
(* The persistent write queue: openmemory/api/app/utils/write_queue.py,    *)
(* its consumer workers/write_worker.py, and the interventions of the API  *)
(* process (write_queue_stall.py, write_queue_requeue.py).                 *)
(*                                                                         *)
(* Every transition of a row but the claim is a SELECT that loads ORM      *)
(* objects, an assignment, and an UPDATE by primary key of the attributes  *)
(* that changed, without a WHERE on what was read: two steps, Load and     *)
(* Flush, with the other processes in between.  The methods are            *)
(* synchronous, so one process has one such transaction at a time.  The    *)
(* claim (dequeue) is FOR UPDATE SKIP LOCKED and one step.                 *)
(*                                                                         *)
(* The configuration is the default one, on PostgreSQL: one job at a time  *)
(* per worker, job timeout on (30 min, below the 35 and 45 min after which *)
(* a processing row counts as stale).  A worker's event loop is never      *)
(* wedged, so a row held by a live worker is not stale; every other age    *)
(* limit may or may not have passed at any time.  Abstracted: the text and *)
(* the project of a job, error messages, metrics, and what follows the add *)
(* in the vector store (dual write, supersedes, autodedup).                *)
(***************************************************************************)
EXTENDS Integers

CONSTANTS
    Workers,      \* write worker processes
    Apis,         \* API processes, with watchdog and admin endpoints
    NumJobs,      \* jobs ever enqueued; the number is the order of created_at
    MaxAttempts,  \* the worker's ceiling of attempts
    MaxUpsets     \* bound on crashes, lost database writes and interventions
                  \* of an administrator, together

ASSUME WriteQueueAssumption ==
    /\ Workers \cap Apis = {}
    /\ NumJobs \in Nat
    /\ MaxAttempts \in Nat \ {0}
    /\ MaxUpsets \in Nat

Jobs  == 1 .. NumJobs
Procs == Workers \cup Apis

Status == {"absent", "queued", "processing", "done", "skipped", "failed"}
Row    == [status : Status, attempts : Nat]
NoRow  == [status |-> "not loaded"]

\* What process_once keeps of the job it dequeued; job 0 stands for none.
Hold  == [job : Jobs \cup {0}, attempts : Nat]
NoJob == [job |-> 0, attempts |-> 0]

Phase == {"down", "starting", "sweeping", "idle", "adding", "stored", "raised",
          "stalling"}

Txn == [kind     : {"recover", "retry", "stall", "done", "skip", "requeue", "fail"},
        from     : [Jobs -> Row \cup {NoRow}],  \* the rows loaded
        attempts : Nat,                         \* argument of requeue and fail
        next     : Phase]                       \* where the process goes on
NoTxn == [kind |-> "none"]

VARIABLES
    row,     \* [Jobs -> Row], the table write_queue
    pc,      \* [Procs -> Phase]
    held,    \* [Procs -> Hold], the job a worker is processing
    txn,     \* [Procs -> Txn or NoTxn]
    zombie,  \* [Workers -> SUBSET Jobs], add() threads that outlived a timeout
    stored,  \* history: jobs of which an add() has persisted memories
    torn,    \* history: jobs whose row was flushed over a newer one, or while
             \* a worker went on processing the job
    upsets   \* crashes, lost writes and interventions so far, for the bound

vars == <<row, pc, held, txn, zombie, stored, torn, upsets>>

Init ==
    /\ row = [j \in Jobs |-> [status |-> "absent", attempts |-> 0]]
    /\ pc = [p \in Procs |-> IF p \in Workers THEN "down" ELSE "idle"]
    /\ held = [p \in Procs |-> NoJob]
    /\ txn = [p \in Procs |-> NoTxn]
    /\ zombie = [w \in Workers |-> {}]
    /\ stored = {}
    /\ torn = {}
    /\ upsets = 0

In(st) == {j \in Jobs : row[j].status \in st}

Free(j) == \A p \in Procs : held[p].job # j

-----------------------------------------------------------------------------
(* The ORM transaction                                                     *)

Upset == upsets < MaxUpsets /\ upsets' = upsets + 1

Load(p, kind, S, n, next) ==
    /\ txn[p] = NoTxn
    /\ txn' = [txn EXCEPT ![p] =
                 [kind |-> kind, attempts |-> n, next |-> next,
                  from |-> [j \in Jobs |-> IF j \in S THEN row[j] ELSE NoRow]]]
    /\ UNCHANGED <<row, pc, held, stored, torn>>

\* Mutant: the retried row keeps its count.
ResetStatusOnly(r) == [r EXCEPT !.status = "queued"]

\* Mutant: the count starts before the first attempt.
ResetBelowZero(r) == [status |-> "queued", attempts |-> -1]

\* A failed row that is to be tried again from the beginning.
Reset(r) == [status |-> "queued", attempts |-> 0]

\* The values assigned to a row loaded as r.
Wanted(x, r) ==
    CASE x.kind = "recover" -> [r EXCEPT !.status = "queued"]
      [] x.kind = "retry"   -> Reset(r)
      [] x.kind = "stall"   -> [status |-> "failed",
                                attempts |-> IF r.attempts = 0 THEN 1 ELSE r.attempts]
      [] x.kind = "done"    -> [r EXCEPT !.status = "done"]
      [] x.kind = "skip"    -> [r EXCEPT !.status = "skipped"]
      [] x.kind = "requeue" -> [status |-> "queued", attempts |-> x.attempts]
      [] OTHER              -> [status |-> "failed", attempts |-> x.attempts]

\* Only the attributes whose value changed are in the UPDATE.
Merge(stale, wanted, current) ==
    [status   |-> IF wanted.status = stale.status THEN current.status
                                                  ELSE wanted.status,
     attempts |-> IF wanted.attempts = stale.attempts THEN current.attempts
                                                      ELSE wanted.attempts]

Hit(x) == {j \in Jobs : x.from[j] # NoRow}

\* Process p goes on at phase next, without its job once it is idle.
GoOn(p, next) ==
    /\ pc' = [pc EXCEPT ![p] = next]
    /\ held' = [held EXCEPT ![p] = IF next = "idle" THEN NoJob ELSE @]

Flush(p) ==
    LET x == txn[p]
    IN  /\ x # NoTxn
        /\ row' = [j \in Jobs |->
                     IF j \in Hit(x)
                     THEN Merge(x.from[j], Wanted(x, x.from[j]), row[j])
                     ELSE row[j]]
        /\ txn' = [txn EXCEPT ![p] = NoTxn]
        /\ GoOn(p, x.next)
        /\ torn' = torn \cup {j \in Hit(x) : row[j] # x.from[j] \/ ~Free(j)'}
        /\ UNCHANGED <<zombie, stored, upsets>>

\* The database refuses the write: a mark inside the job raises, startup
\* recovery tries again, a stall pass is over, all others carry on.
Lose(p) ==
    LET x == txn[p]
    IN  /\ x # NoTxn
        /\ Upset
        /\ txn' = [txn EXCEPT ![p] = NoTxn]
        /\ GoOn(p, CASE x.kind \in {"done", "skip"} -> "raised"
                     [] x.kind = "recover"          -> pc[p]
                     [] p \in Apis                  -> "idle"
                     [] OTHER                       -> x.next)
        /\ UNCHANGED <<row, zombie, stored, torn>>

-----------------------------------------------------------------------------
(* The worker                                                              *)

Start(w) ==
    /\ pc[w] = "down"
    /\ pc' = [pc EXCEPT ![w] = "starting"]
    /\ UNCHANGED <<row, held, txn, zombie, stored, torn, upsets>>

\* _startup_recovery: all processing rows, whoever claimed them.
StartupRecover(w) ==
    /\ pc[w] = "starting"
    /\ Load(w, "recover", In({"processing"}), 0, "sweeping")
    /\ UNCHANGED <<zombie, upsets>>

\* _recover_failed_jobs: the failed rows S whose cooldown is over.
RecoverFailed(w) ==
    /\ pc[w] = "sweeping"
    /\ txn[w] = NoTxn
    /\ \/ \E S \in SUBSET In({"failed"}) \ {{}} : Load(w, "retry", S, 0, "idle")
       \/ GoOn(w, "idle") /\ UNCHANGED <<row, txn, stored, torn>>
    /\ UNCHANGED <<zombie, upsets>>

Ready(w) == pc[w] = "idle" /\ txn[w] = NoTxn

\* Mutant: the claim takes over what is being processed.
DequeueProcessing(w) ==
    /\ Ready(w)
    /\ \E j \in In({"queued", "processing"}) :
          /\ row' = [row EXCEPT ![j].status = "processing"]
          /\ held' = [held EXCEPT ![w] = [job |-> j, attempts |-> row[j].attempts]]
    /\ pc' = [pc EXCEPT ![w] = "adding"]
    /\ UNCHANGED <<txn, zombie, stored, torn, upsets>>

\* Mutant: the claim is not written.
DequeueUnclaimed(w) ==
    /\ Ready(w)
    /\ \E j \in In({"queued"}) :
          held' = [held EXCEPT ![w] = [job |-> j, attempts |-> row[j].attempts]]
    /\ pc' = [pc EXCEPT ![w] = "adding"]
    /\ UNCHANGED <<row, txn, zombie, stored, torn, upsets>>

\* dequeue found a job: the oldest queued one.
Dequeue(w) ==
    /\ Ready(w)
    /\ \E j \in In({"queued"}) :
          /\ \A k \in In({"queued"}) : j <= k
          /\ row' = [row EXCEPT ![j].status = "processing"]
          /\ held' = [held EXCEPT ![w] = [job |-> j, attempts |-> row[j].attempts]]
    /\ pc' = [pc EXCEPT ![w] = "adding"]
    /\ UNCHANGED <<txn, zombie, stored, torn, upsets>>

\* Mutant: failed jobs are recovered after every pass.
PollAlways(w) ==
    /\ Ready(w)
    /\ GoOn(w, "sweeping")
    /\ UNCHANGED <<row, txn, zombie, stored, torn, upsets>>

\* dequeue found none: the pass ends in the recovery of failed jobs.
Poll(w) ==
    /\ Ready(w)
    /\ In({"queued"}) = {}
    /\ GoOn(w, "sweeping")
    /\ UNCHANGED <<row, txn, zombie, stored, torn, upsets>>

\* Worker w is in one of the phases ps of its job, at an await.
Working(w, ps) == pc[w] \in ps /\ txn[w] = NoTxn

AddPersists(w) ==
    /\ Working(w, {"adding"})
    /\ stored' = stored \cup {held[w].job}
    /\ pc' = [pc EXCEPT ![w] = "stored"]
    /\ UNCHANGED <<row, held, txn, zombie, torn, upsets>>

\* Mutant: an empty extraction counts as done.
AddFindsNothingDone(w) ==
    /\ Working(w, {"adding"})
    /\ Load(w, "done", {held[w].job}, 0, "idle")
    /\ UNCHANGED <<zombie, upsets>>

AddFindsNothing(w) ==
    /\ Working(w, {"adding"})
    /\ Load(w, "skip", {held[w].job}, 0, "idle")
    /\ UNCHANGED <<zombie, upsets>>

\* mark_done_if_processing
Finish(w) ==
    /\ Working(w, {"stored"})
    /\ IF row[held[w].job].status = "processing"
       THEN Load(w, "done", {held[w].job}, 0, "idle")
       ELSE GoOn(w, "idle") /\ UNCHANGED <<row, txn, stored, torn>>
    /\ UNCHANGED <<zombie, upsets>>

\* Mutant: one attempt too many.
AttemptFailsLate(w) ==
    LET n == held[w].attempts + 1
    IN  /\ Working(w, {"adding", "stored", "raised"})
        /\ Load(w, IF n <= MaxAttempts THEN "requeue" ELSE "fail",
                {held[w].job}, n, "idle")
        /\ UNCHANGED <<zombie, upsets>>

\* _handle_failure, with the attempts read when the job was dequeued.
AttemptFails(w) ==
    LET n == held[w].attempts + 1
    IN  /\ Working(w, {"adding", "stored", "raised"})
        /\ Load(w, IF n < MaxAttempts THEN "requeue" ELSE "fail",
                {held[w].job}, n, "idle")
        /\ UNCHANGED <<zombie, upsets>>

\* wait_for gives up; a thread inside add() cannot be cancelled and runs on.
JobTimeout(w) ==
    /\ Working(w, {"adding", "stored"})
    /\ Load(w, "fail", {held[w].job}, held[w].attempts + 1, "idle")
    /\ zombie' = [zombie EXCEPT ![w] =
                    IF pc[w] = "adding" THEN @ \cup {held[w].job} ELSE @]
    /\ UNCHANGED upsets

\* Mutant: the late thread reports its success.
ZombieEndsDone(w, j) ==
    /\ j \in zombie[w]
    /\ zombie' = [zombie EXCEPT ![w] = @ \ {j}]
    /\ stored' = stored \cup {j}
    /\ row' = [row EXCEPT ![j].status = "done"]
    /\ UNCHANGED <<pc, held, txn, torn, upsets>>

\* The thread ends at last, with or without memories; nobody awaits it.
ZombieEnds(w, j) ==
    /\ j \in zombie[w]
    /\ zombie' = [zombie EXCEPT ![w] = @ \ {j}]
    /\ stored' \in {stored, stored \cup {j}}
    /\ UNCHANGED <<row, pc, held, txn, torn, upsets>>

\* Mutant: the side loop takes a job for stale before it times out.
FailStaleEarly(w) ==
    /\ pc[w] # "down"
    /\ \E S \in SUBSET In({"processing"}) \ {{}} : Load(w, "stall", S, 0, pc[w])
    /\ UNCHANGED <<zombie, upsets>>

\* _side_loop: processing rows that no live worker can still be holding.
FailStale(w) ==
    /\ pc[w] # "down"
    /\ \E S \in SUBSET {j \in In({"processing"}) : Free(j)} \ {{}} :
          Load(w, "stall", S, 0, pc[w])
    /\ UNCHANGED <<zombie, upsets>>

\* The process dies, or is stopped, with its threads and open transaction.
Crash(w) ==
    /\ pc[w] # "down"
    /\ Upset
    /\ pc' = [pc EXCEPT ![w] = "down"]
    /\ held' = [held EXCEPT ![w] = NoJob]
    /\ txn' = [txn EXCEPT ![w] = NoTxn]
    /\ zombie' = [zombie EXCEPT ![w] = {}]
    /\ UNCHANGED <<row, stored, torn>>

-----------------------------------------------------------------------------
(* The API                                                                 *)

Enqueue ==
    /\ \E j \in In({"absent"}) :
          /\ \A k \in In({"absent"}) : j <= k
          /\ row' = [row EXCEPT ![j].status = "queued"]
    /\ UNCHANGED <<pc, held, txn, zombie, stored, torn, upsets>>

\* The heartbeat is stale: no worker has been up for 90 seconds.
Stalled == \A w \in Workers : pc[w] = "down"

\* fail_stalled_jobs, by the watchdog or forced by an administrator: first the
\* stale processing rows, ...
FailProcessing(a) ==
    /\ pc[a] = "idle"
    /\ \/ Stalled /\ UNCHANGED upsets
       \/ Upset
    /\ \E S \in SUBSET {j \in In({"processing"}) : Free(j)} :
          Load(a, "stall", S, 0, "stalling")
    /\ UNCHANGED zombie

\* ... then the queued rows created more than ten minutes ago.
FailQueued(a) ==
    /\ pc[a] = "stalling"
    /\ \E n \in Jobs : Load(a, "stall", {j \in In({"queued"}) : j <= n}, 0, "idle")
    /\ UNCHANGED <<zombie, upsets>>

\* retry-failed (failed and skipped rows) and requeue-done, of one project or
\* of all: the rows S.
AdminRequeue(a) ==
    /\ pc[a] = "idle"
    /\ Upset
    /\ \E st \in {{"failed", "skipped"}, {"done"}} :
          \E S \in SUBSET In(st) \ {{}} : Load(a, "retry", S, 0, "idle")
    /\ UNCHANGED zombie

-----------------------------------------------------------------------------
MainStep(w) ==
    \/ Start(w)       \/ StartupRecover(w)  \/ RecoverFailed(w) \/ Dequeue(w)
    \/ Poll(w)        \/ AddPersists(w)     \/ AddFindsNothing(w)
    \/ Finish(w)      \/ AttemptFails(w)    \/ JobTimeout(w)    \/ Flush(w)

WorkerStep(w) ==
    MainStep(w) \/ FailStale(w) \/ Crash(w) \/ \E j \in Jobs : ZombieEnds(w, j)

ApiStep(a) == FailProcessing(a) \/ FailQueued(a) \/ AdminRequeue(a) \/ Flush(a)

Next ==
    \/ Enqueue
    \/ \E w \in Workers : WorkerStep(w)
    \/ \E a \in Apis : ApiStep(a)
    \/ \E p \in Procs : Lose(p)

Spec == Init /\ [][Next]_vars

\* The supervisor restarts a dead worker, its loop goes on, and the event loop
\* gets round to the side task however busy the main one is.
LiveSpec ==
    Spec /\ \A w \in Workers : WF_vars(MainStep(w)) /\ SF_vars(FailStale(w))

-----------------------------------------------------------------------------
(* Properties                                                              *)

TypeOK ==
    /\ row \in [Jobs -> Row]
    /\ pc \in [Procs -> Phase]
    /\ held \in [Procs -> Hold]
    /\ txn \in [Procs -> Txn \cup {NoTxn}]
    /\ zombie \in [Workers -> SUBSET Jobs]
    /\ stored \subseteq Jobs
    /\ torn \subseteq Jobs
    /\ upsets \in Nat

(***************************************************************************)
(* A job is processed by one worker, its row says processing, and counts   *)
(* the attempts the worker goes by: across crashes, restarts, timeouts,    *)
(* retries and lost writes, as long as no unguarded UPDATE of another      *)
(* process has landed on a newer row of the job or on one being processed. *)
(***************************************************************************)
OneOwner ==
    \A p \in Procs :
       LET j == held[p].job
       IN  j # 0 /\ j \notin torn =>
             /\ row[j] = [status |-> "processing", attempts |-> held[p].attempts]
             /\ \A q \in Procs \ {p} : held[q].job # j

(***************************************************************************)
(* The ceiling of attempts holds: no row ever counts more than             *)
(* MaxAttempts, and one that counts that many is not retried as it is.     *)
(***************************************************************************)
AttemptsBounded ==
    \A j \in Jobs \ torn :
       /\ row[j].attempts <= MaxAttempts
       /\ row[j].status \in {"queued", "processing"} => row[j].attempts < MaxAttempts

(***************************************************************************)
(* A job reported done has its memories in the store, whatever raced.      *)
(***************************************************************************)
DoneMeansPersisted == In({"done"}) \subseteq stored

(***************************************************************************)
(* A recorded failure stands: nothing but a requeue that starts the count  *)
(* again takes a row out of failed, not even an add() that outlives its    *)
(* timeout and succeeds.  Jobs on which an unguarded UPDATE has landed     *)
(* (torn, this step included) are excepted: mark_done_if_processing reads  *)
(* the status and writes by primary key, and overwrites a failure that is  *)
(* recorded in between.                                                    *)
(***************************************************************************)
FailureStands ==
    [][\A j \in Jobs \ torn' :
         row[j].status = "failed" /\ row'[j].status # "failed"
         => row'[j] = [status |-> "queued", attempts |-> 0]]_vars

(***************************************************************************)
(* One worker alone never tears a job: crashes, restarts, timeouts, lost   *)
(* writes and its three recoveries compose without a lock.                 *)
(***************************************************************************)
NothingTorn == torn = {}

(***************************************************************************)
(* Every accepted job settles: it is not lost by a crash or a lost write,  *)
(* not retried for ever, and not starved by failed jobs that are recovered *)
(* again and again (those are older, and the queue is first in first out). *)
(***************************************************************************)
JobsSettle ==
    \A j \in Jobs : row[j].status \in {"queued", "processing"}
                    ~> row[j].status \in {"done", "skipped", "failed"}
=============================================================================
