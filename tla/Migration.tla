------------------------------ MODULE Migration ------------------------------
(***************************************************************************)
(* The blue-green migration of the vector store.  A migration worker       *)
(* copies the source collection into the target batch by batch, while the  *)
(* write workers mirror what they add to the target as well; an            *)
(* administrator starts the migration, checks that the counts agree,       *)
(* repoints the active collection, or points it back.                      *)
(*                                                                         *)
(* Every process routes by its own snapshot of the migration row, loaded   *)
(* at its first use and dropped only in the process that serves the        *)
(* administrator's request.                                                *)
(***************************************************************************)
EXTENDS Naturals, FiniteSets

CONSTANTS
    None,
    Replica,     \* API processes
    Worker,      \* write workers, each with one job at a time
    Collection,
    Configured,  \* the collection the environment names
    Point,       \* ids of memories, numbers in the order of the scroll
    Batch,       \* points read by one scroll
    MaxEvents,   \* bound on writes to the store and faults together
    MaxFaults    \* bound on failures, restarts and migrations started anew

\* The states that are ever set; "done" is not.
MigrationStatus == {"planned", "copying", "validating", "flipped", "rolled_back"}

\* A row of migration_state.
MigrationState == [source : Collection, target : Collection, active : Collection,
                   dual : BOOLEAN, cursor : Point \cup {None}, status : MigrationStatus]

ASSUME MigrationAssumption ==
    /\ Configured \in Collection
    /\ Replica \cap Worker = {}
    /\ None \notin Collection \cup Worker \cup MigrationState
    /\ Point \subseteq Nat /\ IsFiniteSet(Point)
    /\ Batch \in Nat \ {0}
    /\ MaxEvents \in Nat /\ MaxFaults \in Nat

VARIABLES
    mig,      \* the migration_state row, None before the first start
    store,    \* collections: the version of every memory, 0 where there is none
    snap,     \* the snapshot of every process, None: to be loaded
    work,     \* what each write worker has still to mirror
    copier,   \* the migration worker, with the batch and the row it has loaded
    count,    \* the flip under way in each replica
    astray,   \* points for which source and target may differ
    crossed,  \* flips during which something was written or started
    written, faults

data == <<store, astray, written>>
vars == <<mig, data, snap, work, copier, count, crossed, faults>>

Process == Replica \cup Worker

(***************************************************************************)
(* Routing                                                                 *)
(***************************************************************************)

\* PartitionResolver._load: the active collection, and the target while
\* writes are to be mirrored.
Unplanned == [active |-> Configured, target |-> None]
Current == IF mig = None THEN Unplanned
           ELSE [active |-> mig.active, target |-> IF mig.dual THEN mig.target ELSE None]

(***************************************************************************)
(* Bookkeeping of what may differ.  A point is held by whoever is about to *)
(* write to the target what it read, or deleted, in the source before      *)
(* (None stands for the migration worker).                                 *)
(***************************************************************************)

Idle == [step |-> "idle", point |-> None, from |-> None, to |-> None, version |-> 0]
Off == [step |-> "off", row |-> None, batch |-> <<>>, next |-> None]
NoCount == [step |-> "off", source |-> None, target |-> None, n |-> 0]

Holders(x) ==
    {w \in Worker : work[w].point = x /\ work[w].step \in {"upsert", "erase"}}
    \cup (IF copier.step = "upsert" /\ x \in DOMAIN copier.batch THEN {None} ELSE {})

Cross == crossed' = crossed \cup {r \in Replica : count[r] # NoCount}
Room == written + faults < MaxEvents
Fault == Room /\ faults < MaxFaults /\ faults' = faults + 1

\* A process that routes by view v mirrors what it writes to the target.
Mirrors(v) == mig # None /\ v = [active |-> mig.source, target |-> mig.target]

\* A write of x to the active collection of view v: a version, or 0.
Writes(v, x, version, mirrored) ==
    /\ Room
    /\ written' = written + 1
    /\ store' = [store EXCEPT ![v.active][x] = version]
    /\ astray' = IF mig = None \/ (mirrored /\ Holders(x) = {}) THEN astray ELSE astray \cup {x}
    /\ Cross

\* What was read in "from" arrives in "to", in versions vs.
Arrives(who, from, to, vs) ==
    /\ store' = [store EXCEPT ![to] =
          [x \in Point |-> IF x \in DOMAIN vs THEN vs[x] ELSE store[to][x]]]
    /\ astray' = IF from = mig.source /\ to = mig.target
         THEN astray \ {x \in DOMAIN vs : vs[x] = store[from][x] /\ Holders(x) \subseteq {who}}
         ELSE astray \cup DOMAIN vs
    /\ Cross
    /\ UNCHANGED written

(***************************************************************************)
(* Write workers                                                           *)
(***************************************************************************)

\* add() has stored, changed or deleted a memory; what is mirrored is decided
\* by the same snapshot.
WorkerAdds(w, x) ==
    LET v == snap[w] IN
    /\ v # None
    /\ work[w] = Idle
    /\ Writes(v, x, written + 2, Mirrors(v))
    /\ work' = IF v.target = None THEN work
               ELSE [work EXCEPT ![w] = [Idle EXCEPT !.step = "retrieve", !.point = x,
                                                     !.from = v.active, !.to = v.target]]
    /\ UNCHANGED <<mig, snap, copier, count, faults>>

WorkerDeletes(w, x) ==
    LET v == snap[w] IN
    /\ v # None
    /\ work[w] = Idle
    /\ store[v.active][x] # 0
    /\ work' = IF v.target = None THEN work
               ELSE [work EXCEPT ![w] = [Idle EXCEPT !.step = "erase", !.point = x,
                                                     !.from = v.active, !.to = v.target]]
    /\ Writes(v, x, 0, Mirrors(v))
    /\ UNCHANGED <<mig, snap, copier, count, faults>>

\* replicate_to reads the points back from the source, those still there.
MirrorRetrieves(w) ==
    /\ work[w].step = "retrieve"
    /\ LET version == store[work[w].from][work[w].point] IN
       work' = [work EXCEPT ![w] = IF version = 0 THEN Idle
                                   ELSE [@ EXCEPT !.step = "upsert", !.version = version]]
    /\ UNCHANGED <<mig, data, snap, copier, count, crossed, faults>>

MirrorArrives(w) ==
    /\ work[w].step \in {"upsert", "erase"}
    /\ Arrives(w, work[w].from, work[w].to, [x \in {work[w].point} |-> work[w].version])
    /\ work' = [work EXCEPT ![w] = Idle]
    /\ UNCHANGED <<mig, snap, copier, count, faults>>

\* The mirror is best effort: the job succeeds without it.
MirrorFails(w) ==
    /\ work[w] # Idle
    /\ astray' = astray \cup {work[w].point}
    /\ work' = [work EXCEPT ![w] = Idle]
    /\ Fault
    /\ UNCHANGED <<mig, store, written, snap, copier, count, crossed>>

(***************************************************************************)
(* What is not mirrored: memories added, changed and deleted by requests,  *)
(* and the marks write workers put on superseded ones.                     *)
(***************************************************************************)

ReplicaWrites(r, x, version) ==
    LET v == snap[r] IN
    /\ v # None
    /\ store[v.active][x] # version
    /\ Writes(v, x, version, FALSE)
    /\ UNCHANGED <<mig, snap, work, copier, count, faults>>

MarksObsolete(w, x) ==
    LET v == snap[w] IN
    /\ v # None
    /\ work[w] = Idle
    /\ store[v.active][x] # 0
    /\ Writes(v, x, written + 2, FALSE)
    /\ UNCHANGED <<mig, snap, work, copier, count, faults>>

(***************************************************************************)
(* Snapshots                                                               *)
(***************************************************************************)

\* The first use of a route loads the snapshot (only writes need one here).
Loads(p) ==
    /\ snap[p] = None
    /\ Room
    /\ snap' = [snap EXCEPT ![p] = Current]
    /\ UNCHANGED <<mig, data, work, copier, count, crossed, faults>>

\* A load that fails falls back to the environment, and stays.
LoadFails(p) ==
    /\ snap[p] = None
    /\ snap' = [snap EXCEPT ![p] = Unplanned]
    /\ Fault
    /\ UNCHANGED <<mig, data, work, copier, count, crossed>>

Restarts(p) ==
    /\ snap' = [snap EXCEPT ![p] = None]
    /\ IF p \in Worker
       THEN /\ astray' = IF work[p] = Idle THEN astray ELSE astray \cup {work[p].point}
            /\ work' = [work EXCEPT ![p] = Idle]
            /\ UNCHANGED count
       ELSE /\ count' = [count EXCEPT ![p] = NoCount]
            /\ UNCHANGED <<astray, work>>
    /\ crossed' = crossed \ {p}
    /\ Fault
    /\ UNCHANGED <<mig, store, written, copier>>

(***************************************************************************)
(* The migration worker                                                    *)
(***************************************************************************)

\* Mutant: the id that follows is taken for the last one read.
AheadOfCursor == {x \in Point : store[mig.source][x] # 0 /\ (mig.cursor = None \/ mig.cursor < x)}

\* The points from the checkpoint on; the scroll tells the id that follows.
Ahead == {x \in Point : store[mig.source][x] # 0 /\ (mig.cursor = None \/ mig.cursor <= x)}

\* Between two batches the worker may be running or not: it has kept nothing.
CopyReads ==
    /\ mig # None
    /\ copier = Off
    /\ LET page == {x \in Ahead : Cardinality({y \in Ahead : y < x}) < Batch}
           rest == Ahead \ page
       IN \E next \in rest \cup {None} :
             /\ IF rest = {} THEN next = None ELSE next # None /\ \A y \in rest : next <= y
             /\ copier' = [ step |-> "upsert", row |-> mig, next |-> next,
                            batch |-> [x \in page |-> store[mig.source][x]] ]
    /\ UNCHANGED <<mig, data, snap, work, count, crossed, faults>>

CopyUpserts ==
    /\ copier.step = "upsert"
    /\ Arrives(None, copier.row.source, copier.row.target, copier.batch)
    /\ copier' = [copier EXCEPT !.step = "commit", !.batch = <<>>]
    /\ UNCHANGED <<mig, snap, work, count, faults>>

\* The columns that changed since the row was loaded, over whatever is there.
CopyCommits ==
    LET was    == copier.row
        done   == copier.next = None
        status == IF done THEN "validating" ELSE IF was.status = "planned" THEN "copying" ELSE was.status
    IN
    /\ copier.step = "commit"
    /\ mig' = [mig EXCEPT !.status = IF status # was.status THEN status ELSE @,
                          !.cursor = IF ~done /\ copier.next # was.cursor THEN copier.next ELSE @]
    /\ copier' = Off
    /\ UNCHANGED <<data, snap, work, count, crossed, faults>>

CopyStops ==
    /\ copier # Off
    /\ copier' = Off
    /\ Fault
    /\ UNCHANGED <<mig, data, snap, work, count, crossed>>

(***************************************************************************)
(* MigrationControl, in one of the replicas                                *)
(***************************************************************************)

Forgets(r) == snap' = [snap EXCEPT ![r] = None]

\* What may differ in spite of the copy to come: what only the target has,
\* what somebody holds, and all if a batch of an earlier copy is under way,
\* whose commit writes its checkpoint over the new one.
Start(r, s, t) ==
    /\ s # t
    /\ IF mig = None THEN UNCHANGED faults ELSE Fault
    /\ mig' = [source |-> s, target |-> t, active |-> s, dual |-> TRUE,
               cursor |-> None, status |-> "planned"]
    /\ astray' = IF copier.step \in {"upsert", "commit"} THEN Point
                 ELSE {x \in Point : (store[t][x] # 0 /\ store[s][x] = 0) \/ Holders(x) # {}}
    /\ Forgets(r)
    /\ Cross
    /\ UNCHANGED <<store, written, work, copier, count>>

Size(c) == Cardinality({x \in Point : store[c][x] # 0})

CountSource(r) ==
    /\ mig # None
    /\ count[r] = NoCount
    /\ count' = [count EXCEPT ![r] = [step |-> "target", source |-> mig.source,
                                      target |-> mig.target, n |-> Size(mig.source)]]
    /\ UNCHANGED <<mig, data, snap, work, copier, crossed, faults>>

\* Mutant: any target with a memory in it is taken for complete.
CountTargetAny(r) ==
    /\ count[r].step = "target"
    /\ count' = [count EXCEPT ![r] = IF Size(@.target) > 0 THEN [@ EXCEPT !.step = "flip"] ELSE NoCount]
    /\ crossed' = {q \in crossed : count'[q] # NoCount}
    /\ UNCHANGED <<mig, data, snap, work, copier, faults>>

CountTarget(r) ==
    /\ count[r].step = "target"
    /\ count' = [count EXCEPT ![r] = IF Size(@.target) >= @.n THEN [@ EXCEPT !.step = "flip"] ELSE NoCount]
    /\ crossed' = {q \in crossed : count'[q] # NoCount}
    /\ UNCHANGED <<mig, data, snap, work, copier, faults>>

\* The row is read again.
Flips(r) ==
    /\ count[r].step = "flip"
    /\ mig' = [mig EXCEPT !.active = mig.target, !.dual = FALSE, !.status = "flipped"]
    /\ count' = [count EXCEPT ![r] = NoCount]
    /\ crossed' = crossed \ {r}
    /\ Forgets(r)
    /\ UNCHANGED <<data, work, copier, faults>>

Rollback(r) ==
    /\ mig # None
    /\ mig' = [mig EXCEPT !.active = mig.source, !.dual = FALSE, !.status = "rolled_back"]
    /\ Forgets(r)
    /\ UNCHANGED <<data, work, copier, count, crossed, faults>>

-----------------------------------------------------------------------------
\* Some memories in the configured collection; some processes have loaded
\* their route.
Init ==
    /\ mig = None
    /\ \E S \in SUBSET Point :
          store = [c \in Collection |-> [x \in Point |->
                      IF c = Configured /\ x \in S THEN 1 ELSE 0]]
    /\ snap \in [Process -> {None, Unplanned}]
    /\ work = [w \in Worker |-> Idle]
    /\ copier = Off
    /\ count = [r \in Replica |-> NoCount]
    /\ astray = {} /\ crossed = {}
    /\ written = 0 /\ faults = 0

WorkerNext(w) ==
    \/ \E x \in Point : WorkerAdds(w, x) \/ WorkerDeletes(w, x) \/ MarksObsolete(w, x)
    \/ MirrorRetrieves(w)
    \/ MirrorArrives(w)
    \/ MirrorFails(w)

ReplicaNext(r) ==
    \/ \E x \in Point : ReplicaWrites(r, x, 0) \/ ReplicaWrites(r, x, written + 2)
    \/ \E s, t \in Collection : Start(r, s, t)
    \/ CountSource(r)
    \/ CountTarget(r)
    \/ Flips(r)
    \/ Rollback(r)

CopyNext == CopyReads \/ CopyUpserts \/ CopyCommits \/ CopyStops

Next ==
    \/ \E w \in Worker : WorkerNext(w)
    \/ \E r \in Replica : ReplicaNext(r)
    \/ \E p \in Process : Loads(p) \/ LoadFails(p) \/ Restarts(p)
    \/ CopyNext

Spec == Init /\ [][Next]_vars

-----------------------------------------------------------------------------
(* Properties                                                              *)

(***************************************************************************)
(* When the copy has come to its end and nobody is between a write and its *)
(* mirror, every memory is in the target as it is in the source, and none  *)
(* is there that the source has lost, whichever side of the checkpoint it  *)
(* was written on, however often the copy was cut off, and across flips    *)
(* and rollbacks.  Excepted are points that were written without a mirror, *)
(* or by two at once, and not copied or mirrored again since.              *)
(***************************************************************************)
TargetFollowsSource ==
    mig # None /\ mig.status = "validating" /\ (\A w \in Worker : work[w] = Idle) =>
        \A x \in Point \ astray : store[mig.target][x] = store[mig.source][x]

(***************************************************************************)
(* A flip leaves no memory behind, copy finished or not, as long as the    *)
(* target has none of its own and nothing was written, and no migration    *)
(* started, since the source was counted.                                  *)
(***************************************************************************)
FlipServesSource ==
    [][\A r \in Replica \ crossed : count[r].step = "flip" /\ count'[r] = NoCount /\ mig' # mig =>
          LET kept == {x \in Point : store[mig.source][x] # 0}
              new  == {x \in Point : store[mig.target][x] # 0}
          IN  new \subseteq kept => new = kept]_vars
=============================================================================
