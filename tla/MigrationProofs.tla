--------------------------- MODULE MigrationProofs ---------------------------
(***************************************************************************)
(* Proofs about Migration, for any numbers of replicas, write workers,     *)
(* collections and memories, any size of a batch, any number of writes and *)
(* of faults.                                                              *)
(***************************************************************************)
EXTENDS Migration, FiniteSetTheorems, TLAPS

-----------------------------------------------------------------------------
(* Types                                                                   *)

Mirror == [step : {"retrieve", "upsert", "erase"}, point : Point,
           from : Collection, to : Collection, version : Nat]
Job == {Idle} \cup Mirror

Migrating == mig \in MigrationState /\ mig.source # mig.target

Route == [active : Collection, target : Collection \cup {None}]

\* A batch under way has a row behind it, and so has a flip.
CopierOK ==
    \/ copier.step = "off"
    \/ /\ copier.step \in {"upsert", "commit"}
       /\ Migrating
       /\ copier.row \in MigrationState
       /\ copier.next \in Point \cup {None}
       /\ copier.next # None /\ copier.row.cursor # None => copier.row.cursor < copier.next

BatchOK == copier.step = "upsert" => \A x \in DOMAIN copier.batch : copier.batch[x] \in Nat

Types ==
    /\ mig # None => Migrating
    /\ store \in [Collection -> [Point -> Nat]]
    /\ snap \in [Process -> Route \cup {None}]
    /\ work \in [Worker -> Job]
    /\ CopierOK /\ BatchOK
    /\ DOMAIN count = Replica
    /\ \A r \in Replica : count[r].step # "off" => Migrating
    /\ written \in Nat

-----------------------------------------------------------------------------
(* What holds of a point that is not astray                                *)

Synced(x) == store[mig.target][x] = store[mig.source][x]

Native(from, to) == from = mig.source /\ to = mig.target

\* Who is about to write x from the source to the target has what the source
\* has.
HeldRight(x) ==
    /\ \A w \in Worker :
          work[w].point = x /\ work[w].step \in {"upsert", "erase"} /\ Native(work[w].from, work[w].to) =>
              work[w].version = store[mig.source][x]
    /\ copier.step = "upsert" /\ x \in DOMAIN copier.batch /\ Native(copier.row.source, copier.row.target) =>
          copier.batch[x] = store[mig.source][x]

\* A worker is about to mirror x; one that has yet to read it will find it.
Mirroring(w, x) ==
    /\ work[w].point = x /\ Native(work[w].from, work[w].to)
    /\ \/ work[w].step \in {"upsert", "erase"}
       \/ work[w].step = "retrieve" /\ store[mig.source][x] # 0

Pending(x) == \E w \in Worker : Mirroring(w, x)

\* The copy has still to come to x, as the checkpoint says.
ToCopy(x) ==
    /\ store[mig.source][x] # 0
    /\ mig.status # "validating"
    /\ mig.cursor = None \/ mig.cursor <= x

\* The same of the checkpoint that the batch under way is going to commit.
ToCommit(x) ==
    /\ store[mig.source][x] # 0
    /\ mig.status # "validating"
    /\ copier.next # None /\ copier.next <= x

InBatch(x) == copier.step = "upsert" /\ x \in DOMAIN copier.batch

Safe(x) ==
    /\ HeldRight(x)
    /\ Synced(x) \/ Pending(x) \/ ToCopy(x)
    /\ copier.step # "off" => Synced(x) \/ Pending(x) \/ InBatch(x) \/ ToCommit(x)

Follows == Migrating => \A x \in Point \ astray : Safe(x)

IInv == Types /\ Follows

-----------------------------------------------------------------------------
(* Types are kept                                                          *)

LEMMA WritesKeepTypes ==
    ASSUME Types, NEW v, NEW x \in Point, NEW version \in Nat, NEW m, Writes(v, x, version, m)
    PROVE  store' \in [Collection -> [Point -> Nat]] /\ written' \in Nat
<1>1. store' \in [Collection -> [Point -> Nat]]
  <2>1. store' = [store EXCEPT ![v.active][x] = version]
    BY DEF Writes
  <2> QED
    BY <2>1 DEF Types
<1>2. written' \in Nat
  BY DEF Types, Writes
<1> QED
  BY <1>1, <1>2

LEMMA ArrivesKeepsTypes ==
    ASSUME Types, NEW who, NEW from, NEW to, NEW vs, \A x \in DOMAIN vs : vs[x] \in Nat,
           to \in Collection, Arrives(who, from, to, vs)
    PROVE  store' \in [Collection -> [Point -> Nat]] /\ written' \in Nat
<1>1. store' = [store EXCEPT ![to] =
                  [x \in Point |-> IF x \in DOMAIN vs THEN vs[x] ELSE store[to][x]]]
  BY DEF Arrives
<1>2. [x \in Point |-> IF x \in DOMAIN vs THEN vs[x] ELSE store[to][x]] \in [Point -> Nat]
  BY DEF Types
<1>3. store' \in [Collection -> [Point -> Nat]]
  BY <1>1, <1>2 DEF Types
<1> QED
  BY <1>3 DEF Types, Arrives

LEMMA RoutesTyped ==
    ASSUME Types
    PROVE  Unplanned \in Route /\ Current \in Route
BY MigrationAssumption DEF Types, Migrating, MigrationState, Route, Unplanned, Current

LEMMA WorkerAddsTypes ==
    ASSUME Types, NEW w \in Worker, NEW x \in Point, WorkerAdds(w, x)
    PROVE  Types'
<1>1. store' \in [Collection -> [Point -> Nat]] /\ written' \in Nat
  <2>1. written + 2 \in Nat
    BY DEF Types
  <2> QED
    BY <2>1, WritesKeepTypes DEF WorkerAdds
<1>2. snap[w] \in Route
  BY DEF Types, WorkerAdds, Process
<1>3. work' \in [Worker -> Job]
  BY <1>2 DEF Types, WorkerAdds, Route, Job, Mirror, Idle
<1> QED
  BY <1>1, <1>3 DEF Types, WorkerAdds, CopierOK, BatchOK, Migrating

LEMMA WorkerDeletesTypes ==
    ASSUME Types, NEW w \in Worker, NEW x \in Point, WorkerDeletes(w, x)
    PROVE  Types'
<1>1. store' \in [Collection -> [Point -> Nat]] /\ written' \in Nat
  BY WritesKeepTypes DEF WorkerDeletes
<1>2. snap[w] \in Route
  BY DEF Types, WorkerDeletes, Process
<1>3. work' \in [Worker -> Job]
  BY <1>2 DEF Types, WorkerDeletes, Route, Job, Mirror, Idle
<1> QED
  BY <1>1, <1>3 DEF Types, WorkerDeletes, CopierOK, BatchOK, Migrating

LEMMA MirrorTypes ==
    ASSUME Types, NEW w \in Worker, MirrorRetrieves(w) \/ MirrorArrives(w) \/ MirrorFails(w)
    PROVE  Types'
<1>1. CASE MirrorRetrieves(w)
  <2>0. work[w] \in Mirror
    BY <1>1 DEF Types, MirrorRetrieves, Job, Idle
  <2>1. store[work[w].from][work[w].point] \in Nat
    BY <2>0 DEF Types, Mirror
  <2>2. work' \in [Worker -> Job]
    BY <1>1, <2>0, <2>1 DEF Types, MirrorRetrieves, Job, Mirror
  <2> QED
    BY <1>1, <2>2 DEF Types, MirrorRetrieves, CopierOK, BatchOK, Migrating, data
<1>2. CASE MirrorArrives(w)
  <2>0. work[w] \in Mirror
    BY <1>2 DEF Types, MirrorArrives, Job, Idle
  <2>1. store' \in [Collection -> [Point -> Nat]] /\ written' \in Nat
    BY <1>2, <2>0, ArrivesKeepsTypes DEF MirrorArrives, Mirror
  <2>2. work' \in [Worker -> Job]
    BY <1>2 DEF Types, MirrorArrives, Job
  <2> QED
    BY <1>2, <2>1, <2>2 DEF Types, MirrorArrives, CopierOK, BatchOK, Migrating
<1>3. CASE MirrorFails(w)
  <2>1. work' \in [Worker -> Job]
    BY <1>3 DEF Types, MirrorFails, Job
  <2> QED
    BY <1>3, <2>1 DEF Types, MirrorFails, CopierOK, BatchOK, Migrating
<1> QED
  BY <1>1, <1>2, <1>3

LEMMA UnmirroredTypes ==
    ASSUME Types, NEW p \in Process, NEW x \in Point, NEW version \in Nat,
           ReplicaWrites(p, x, version) \/ MarksObsolete(p, x)
    PROVE  Types'
<1>1. written + 2 \in Nat
  BY DEF Types
<1>2. store' \in [Collection -> [Point -> Nat]] /\ written' \in Nat
  BY <1>1, WritesKeepTypes DEF ReplicaWrites, MarksObsolete
<1> QED
  BY <1>2 DEF Types, ReplicaWrites, MarksObsolete, CopierOK, BatchOK, Migrating

LEMMA SnapshotTypes ==
    ASSUME Types, NEW p \in Process, Loads(p) \/ LoadFails(p) \/ Restarts(p)
    PROVE  Types'
<1>1. snap' \in [Process -> Route \cup {None}]
  BY RoutesTyped DEF Types, Loads, LoadFails, Restarts
<1>2. work' \in [Worker -> Job]
  BY DEF Types, Loads, LoadFails, Restarts, Job
<1>3. store' = store /\ written' = written /\ mig' = mig /\ copier' = copier
  BY DEF Loads, LoadFails, Restarts, data
<1>4. DOMAIN count' = Replica /\ \A r \in Replica : count'[r].step # "off" => Migrating
  BY DEF Types, Migrating, Loads, LoadFails, Restarts, NoCount
<1> QED
  BY <1>1, <1>2, <1>3, <1>4 DEF Types, CopierOK, BatchOK, Migrating

LEMMA CopyReadsTypes ==
    ASSUME Types, CopyReads
    PROVE  Types'
<1> DEFINE page == {x \in Ahead : Cardinality({y \in Ahead : y < x}) < Batch}
           rest == Ahead \ page
<1>1. PICK next \in rest \cup {None} :
         /\ IF rest = {} THEN next = None ELSE next # None /\ \A y \in rest : next <= y
         /\ copier' = [ step |-> "upsert", row |-> mig, next |-> next,
                        batch |-> [x \in page |-> store[mig.source][x]] ]
  BY DEF CopyReads
<1>2. mig \in MigrationState /\ mig.source \in Collection
  BY DEF Types, Migrating, CopyReads, MigrationState
<1>3. page \subseteq Point /\ rest \subseteq Point
  BY DEF Ahead
<1>4. ASSUME next # None, mig.cursor # None
      PROVE  mig.cursor < next
  <2>1. next \in Ahead /\ ~(Cardinality({y \in Ahead : y < next}) < Batch)
    BY <1>1, <1>4
  <2>2. {y \in Ahead : y < next} # {}
    <3>1. Cardinality({}) = 0 /\ 0 < Batch
      BY FS_EmptySet, MigrationAssumption
    <3> QED
      BY <2>1, <3>1
  <2>3. PICK y \in Ahead : y < next
    BY <2>2
  <2>4. y \in Nat /\ next \in Nat /\ mig.cursor \in Nat /\ mig.cursor <= y
    BY <1>2, <1>4, <2>1, MigrationAssumption DEF Ahead, MigrationState
  <2> QED
    BY <2>3, <2>4
<1> HIDE DEF page, rest
<1>5. CopierOK'
  <2>1. copier'.step = "upsert" /\ copier'.row = mig /\ copier'.next = next /\ mig' = mig
    BY <1>1 DEF CopyReads
  <2>2. Migrating
    BY DEF Types, CopyReads
  <2> QED
    BY <2>1, <2>2, <1>2, <1>3, <1>4 DEF CopierOK, Migrating
<1>6. BatchOK'
  <2>1. \A x \in page : store[mig.source][x] \in Nat
    BY <1>2, <1>3 DEF Types
  <2>2. copier'.batch = [x \in page |-> store[mig.source][x]]
    BY <1>1
  <2> QED
    BY <2>1, <2>2 DEF BatchOK
<1> QED
  BY <1>5, <1>6 DEF Types, Migrating, CopyReads, data

LEMMA CopyGoesOnTypes ==
    ASSUME Types, CopyUpserts \/ CopyCommits \/ CopyStops
    PROVE  Types'
<1>1. CASE CopyUpserts
  <2>0. copier.row.target \in Collection
    BY <1>1 DEF CopyUpserts, Types, CopierOK, Migrating, MigrationState
  <2>1. store' \in [Collection -> [Point -> Nat]] /\ written' \in Nat
    BY <1>1, <2>0, ArrivesKeepsTypes DEF CopyUpserts, Types, BatchOK
  <2>2. copier' = [copier EXCEPT !.step = "commit", !.batch = <<>>]
    BY <1>1 DEF CopyUpserts
  <2> QED
    BY <1>1, <2>1, <2>2 DEF CopyUpserts, Types, CopierOK, BatchOK, Migrating
<1>2. CASE CopyCommits
  <2>1. mig \in MigrationState /\ mig.source # mig.target /\ copier.row \in MigrationState /\ copier.next \in Point \cup {None}
    BY <1>2 DEF Types, CopierOK, Migrating, CopyCommits
  <2>2. mig' \in MigrationState /\ mig'.source = mig.source /\ mig'.target = mig.target
    BY <1>2, <2>1 DEF CopyCommits, MigrationState, MigrationStatus
  <2>3. copier'.step = "off"
    BY <1>2 DEF CopyCommits, Off
  <2> QED
    BY <1>2, <2>1, <2>2, <2>3 DEF CopyCommits, Types, CopierOK, BatchOK, Migrating, data
<1>3. CASE CopyStops
  <2>1. copier'.step = "off"
    BY <1>3 DEF CopyStops, Off
  <2> QED
    BY <1>3, <2>1 DEF CopyStops, Types, CopierOK, BatchOK, Migrating, data
<1> QED
  BY <1>1, <1>2, <1>3

LEMMA ControlTypes ==
    ASSUME Types, NEW r \in Replica,
           \/ \E s, t \in Collection : Start(r, s, t)
           \/ CountSource(r) \/ CountTarget(r) \/ Flips(r) \/ Rollback(r)
    PROVE  Types'
<1>1. Migrating' /\ DOMAIN count' = Replica => Types'
  <2>1. store' = store /\ written' = written /\ work' = work /\ copier' = copier
    BY DEF Start, CountSource, CountTarget, Flips, Rollback, data
  <2>2. snap' \in [Process -> Route \cup {None}]
    BY DEF Types, Forgets, Start, CountSource, CountTarget, Flips, Rollback
  <2> QED
    BY <2>1, <2>2 DEF Types, CopierOK, BatchOK
<1>2. DOMAIN count' = Replica
  BY DEF Types, Start, CountSource, CountTarget, Flips, Rollback
<1>3. CASE \E s, t \in Collection : Start(r, s, t)
  <2>1. PICK s, t \in Collection : Start(r, s, t)
    BY <1>3
  <2>2. Migrating'
    BY <2>1 DEF Start, Migrating, MigrationState, MigrationStatus
  <2> QED
    BY <1>1, <1>2, <2>2
<1>4. CASE CountSource(r)
  <2>1. Migrating'
    BY <1>4 DEF CountSource, Types, Migrating
  <2> QED
    BY <1>1, <1>2, <2>1
<1>5. CASE CountTarget(r)
  <2>1. Migrating'
    BY <1>5 DEF CountTarget, Types, Migrating
  <2> QED
    BY <1>1, <1>2, <2>1
<1>6. CASE Flips(r) \/ Rollback(r)
  <2>1. Migrating
    BY <1>6 DEF Flips, Rollback, Types
  <2>2. Migrating'
    BY <1>6, <2>1 DEF Flips, Rollback, Migrating, MigrationState, MigrationStatus
  <2> QED
    BY <1>1, <1>2, <2>2
<1> QED
  BY <1>3, <1>4, <1>5, <1>6

-----------------------------------------------------------------------------
(* A point that a step does not touch                                      *)

\* An untouched point stays safe: the row, the copier, the point in every
\* collection and who is about to mirror it are as before.
LEMMA Untouched ==
    ASSUME Types, Migrating, NEW x \in Point, Safe(x),
           mig' = mig, copier' = copier,
           \A c \in Collection : store'[c][x] = store[c][x],
           \A w \in Worker : work[w].point = x /\ work[w].step # "idle" => work'[w] = work[w],
           \A w \in Worker : work'[w].point = x /\ work'[w].step # "idle" => work'[w] = work[w]
    PROVE  Safe(x)'
<1>1. mig.source \in Collection /\ mig.target \in Collection
  BY DEF Migrating, MigrationState
<1>2. store'[mig'.source][x] = store[mig.source][x] /\ store'[mig'.target][x] = store[mig.target][x]
  BY <1>1
<1>3. HeldRight(x)'
  BY <1>2 DEF Safe, HeldRight, Native
<1>4. Pending(x) => Pending(x)'
  <2> SUFFICES ASSUME NEW w \in Worker, Mirroring(w, x) PROVE Mirroring(w, x)'
    BY DEF Pending
  <2> QED
    BY <1>2 DEF Mirroring, Native
<1>5. Synced(x) => Synced(x)'
  BY <1>2 DEF Synced
<1>6. ToCopy(x) => ToCopy(x)'
  BY <1>2 DEF ToCopy
<1>7. ToCommit(x) => ToCommit(x)'
  BY <1>2 DEF ToCommit
<1>8. InBatch(x) => InBatch(x)'
  BY DEF InBatch
<1> QED
  BY <1>3, <1>4, <1>5, <1>6, <1>7, <1>8 DEF Safe

LEMMA MigratingNotNone ==
    ASSUME Migrating
    PROVE  mig # None
BY MigrationAssumption DEF Migrating

-----------------------------------------------------------------------------
(* Points stay safe                                                        *)

LEMMA WorkerAddsFollows ==
    ASSUME Types, Follows, NEW w \in Worker, NEW y \in Point, WorkerAdds(w, y)
    PROVE  Follows'
<1> SUFFICES ASSUME Migrating', NEW x \in Point, x \notin astray'
             PROVE  Safe(x)'
  BY DEF Follows
<1> DEFINE v == snap[w]
<1>1. Writes(v, y, written + 2, Mirrors(v)) /\ work[w] = Idle /\ v # None
      /\ mig' = mig /\ copier' = copier
  BY DEF WorkerAdds
<1>2. Migrating /\ x \notin astray
  BY <1>1 DEF Migrating, Writes
<1>3. Safe(x)
  BY <1>2 DEF Follows
<1>4. store' = [store EXCEPT ![v.active][y] = written + 2]
  BY <1>1 DEF Writes
<1>5. work' = work \/ work' = [work EXCEPT ![w] = [Idle EXCEPT !.step = "retrieve", !.point = y,
                                                     !.from = v.active, !.to = v.target]]
  BY DEF WorkerAdds
<1>6. CASE x # y
  <2>1. \A c \in Collection : store'[c][x] = store[c][x]
    BY <1>4, <1>6 DEF Types
  <2>2. \A u \in Worker : work[u].point = x /\ work[u].step # "idle" => work'[u] = work[u]
    BY <1>1, <1>5 DEF Types, Idle
  <2>3. \A u \in Worker : work'[u].point = x /\ work'[u].step # "idle" => work'[u] = work[u]
    BY <1>1, <1>5, <1>6 DEF Types, Idle
  <2> QED
    BY <1>1, <1>2, <1>3, <2>1, <2>2, <2>3, Untouched
<1>7. CASE x = y
  <2>1. Mirrors(v) /\ Holders(x) = {}
    BY <1>1, <1>2, <1>7, MigratingNotNone DEF Writes
  <2>2. v.active = mig.source /\ v.target = mig.target
    BY <2>1 DEF Mirrors
  <2>3. mig.source \in Collection /\ mig.target \in Collection /\ mig.source # mig.target
    BY <1>2 DEF Migrating, MigrationState
  <2>4. work' = [work EXCEPT ![w] = [Idle EXCEPT !.step = "retrieve", !.point = y,
                                                 !.from = v.active, !.to = v.target]]
    BY <2>2, <2>3, MigrationAssumption DEF WorkerAdds
  <2>5. work'[w].step = "retrieve" /\ work'[w].point = x /\ work'[w].from = mig.source /\ work'[w].to = mig.target
    BY <1>7, <2>2, <2>4 DEF Types, Idle
  <2>6. store'[mig.source][x] # 0
    BY <1>4, <1>7, <2>2, <2>3 DEF Types
  <2>7. Pending(x)'
    BY <1>1, <2>5, <2>6 DEF Pending, Mirroring, Native
  <2>8. HeldRight(x)'
    BY <1>1, <2>1, <2>4, <2>5 DEF HeldRight, Holders, Types
  <2> QED
    BY <2>7, <2>8 DEF Safe
<1> QED
  BY <1>6, <1>7

LEMMA WorkerDeletesFollows ==
    ASSUME Types, Follows, NEW w \in Worker, NEW y \in Point, WorkerDeletes(w, y)
    PROVE  Follows'
<1> SUFFICES ASSUME Migrating', NEW x \in Point, x \notin astray'
             PROVE  Safe(x)'
  BY DEF Follows
<1> DEFINE v == snap[w]
<1>1. Writes(v, y, 0, Mirrors(v)) /\ work[w] = Idle /\ v # None
      /\ mig' = mig /\ copier' = copier
  BY DEF WorkerDeletes
<1>2. Migrating /\ x \notin astray
  BY <1>1 DEF Migrating, Writes
<1>3. Safe(x)
  BY <1>2 DEF Follows
<1>4. store' = [store EXCEPT ![v.active][y] = 0]
  BY <1>1 DEF Writes
<1>5. work' = work \/ work' = [work EXCEPT ![w] = [Idle EXCEPT !.step = "erase", !.point = y,
                                                     !.from = v.active, !.to = v.target]]
  BY DEF WorkerDeletes
<1>6. CASE x # y
  <2>1. \A c \in Collection : store'[c][x] = store[c][x]
    BY <1>4, <1>6 DEF Types
  <2>2. \A u \in Worker : work[u].point = x /\ work[u].step # "idle" => work'[u] = work[u]
    BY <1>1, <1>5 DEF Types, Idle
  <2>3. \A u \in Worker : work'[u].point = x /\ work'[u].step # "idle" => work'[u] = work[u]
    BY <1>1, <1>5, <1>6 DEF Types, Idle
  <2> QED
    BY <1>1, <1>2, <1>3, <2>1, <2>2, <2>3, Untouched
<1>7. CASE x = y
  <2>1. Mirrors(v) /\ Holders(x) = {}
    BY <1>1, <1>2, <1>7, MigratingNotNone DEF Writes
  <2>2. v.active = mig.source /\ v.target = mig.target
    BY <2>1 DEF Mirrors
  <2>3. mig.source \in Collection /\ mig.target \in Collection /\ mig.source # mig.target
    BY <1>2 DEF Migrating, MigrationState
  <2>4. work' = [work EXCEPT ![w] = [Idle EXCEPT !.step = "erase", !.point = y,
                                                 !.from = v.active, !.to = v.target]]
    BY <2>2, <2>3, MigrationAssumption DEF WorkerDeletes
  <2>5. work'[w].step = "erase" /\ work'[w].point = x /\ work'[w].from = mig.source
        /\ work'[w].to = mig.target /\ work'[w].version = 0
    BY <1>7, <2>2, <2>4 DEF Types, Idle
  <2>6. store'[mig.source][x] = 0
    BY <1>4, <1>7, <2>2, <2>3 DEF Types
  <2>7. Pending(x)'
    BY <1>1, <2>5, <2>6 DEF Pending, Mirroring, Native
  <2>8. HeldRight(x)'
    BY <1>1, <2>1, <2>4, <2>5, <2>6 DEF HeldRight, Holders, Types
  <2> QED
    BY <2>7, <2>8 DEF Safe
<1> QED
  BY <1>6, <1>7

LEMMA UnmirroredFollows ==
    ASSUME Types, Follows, NEW p \in Process, NEW y \in Point, NEW version \in Nat,
           ReplicaWrites(p, y, version) \/ MarksObsolete(p, y)
    PROVE  Follows'
<1> SUFFICES ASSUME Migrating', NEW x \in Point, x \notin astray'
             PROVE  Safe(x)'
  BY DEF Follows
<1>1. PICK n : Writes(snap[p], y, n, FALSE)
  BY DEF ReplicaWrites, MarksObsolete
<1>2. mig' = mig /\ copier' = copier /\ work' = work
  BY DEF ReplicaWrites, MarksObsolete
<1>3. Migrating /\ x \notin astray /\ x # y
  BY <1>1, <1>2, MigratingNotNone DEF Migrating, Writes
<1>4. \A c \in Collection : store'[c][x] = store[c][x]
  <2>1. store' = [store EXCEPT ![snap[p].active][y] = n]
    BY <1>1 DEF Writes
  <2> QED
    BY <1>3, <2>1 DEF Types
<1> QED
  BY <1>2, <1>3, <1>4, Untouched DEF Follows

LEMMA MirrorRetrievesFollows ==
    ASSUME Types, Follows, NEW w \in Worker, MirrorRetrieves(w)
    PROVE  Follows'
<1> SUFFICES ASSUME Migrating', NEW x \in Point, x \notin astray'
             PROVE  Safe(x)'
  BY DEF Follows
<1>1. mig' = mig /\ store' = store /\ astray' = astray /\ copier' = copier
  BY DEF MirrorRetrieves, data
<1>2. Migrating /\ Safe(x)
  BY <1>1 DEF Follows, Migrating
<1> DEFINE version == store[work[w].from][work[w].point]
<1>3. work' = [work EXCEPT ![w] = IF version = 0 THEN Idle
                                  ELSE [@ EXCEPT !.step = "upsert", !.version = version]]
      /\ work[w] \in Mirror /\ work[w].step = "retrieve"
  BY DEF MirrorRetrieves, Types, Job, Idle
<1>4. CASE work[w].point # x
  <2>1. \A u \in Worker : work[u].point = x /\ work[u].step # "idle" => work'[u] = work[u]
    BY <1>3, <1>4 DEF Types
  <2>2. \A u \in Worker : work'[u].point = x /\ work'[u].step # "idle" => work'[u] = work[u]
    BY <1>3, <1>4 DEF Types, Idle, Mirror
  <2> QED
    BY <1>1, <1>2, <2>1, <2>2, Untouched
<1>5. CASE work[w].point = x
  <2>1. CASE version = 0
    <3>1. work' = [work EXCEPT ![w] = Idle]
      BY <1>3, <2>1
    <3>2. HeldRight(x)'
      BY <1>1, <1>2, <3>1 DEF Safe, HeldRight, Native, Types, Idle
    <3>3. Pending(x) => Pending(x)'
      <4> SUFFICES ASSUME NEW u \in Worker, Mirroring(u, x) PROVE Mirroring(u, x)'
        BY DEF Pending
      <4>1. u # w
        BY <1>3, <1>5, <2>1 DEF Mirroring, Native
      <4> QED
        BY <1>1, <3>1, <4>1 DEF Mirroring, Native, Types
    <3> QED
      BY <1>1, <1>2, <3>2, <3>3 DEF Safe, Synced, ToCopy, ToCommit, InBatch
  <2>2. CASE version # 0
    <3>1. work' = [work EXCEPT ![w] = [@ EXCEPT !.step = "upsert", !.version = version]]
      BY <1>3, <2>2
    <3>2. work'[w].step = "upsert" /\ work'[w].version = version /\ work'[w].point = x
          /\ work'[w].from = work[w].from /\ work'[w].to = work[w].to
      <4> HIDE DEF version
      <4>1. work'[w] = [work[w] EXCEPT !.step = "upsert", !.version = version]
        <5>1. DOMAIN work = Worker
          BY DEF Types
        <5> QED
          BY <3>1, <5>1
      <4>2. work[w] \in Mirror
        BY <1>3
      <4> QED
        BY <1>5, <4>1, <4>2 DEF Mirror
    <3>3. HeldRight(x)'
      <4>1. \A u \in Worker : u # w => work'[u] = work[u]
        BY <3>1 DEF Types
      <4> QED
        BY <1>1, <1>2, <1>5, <3>2, <4>1 DEF Safe, HeldRight, Native
    <3>4. Pending(x) => Pending(x)'
      <4> SUFFICES ASSUME NEW u \in Worker, Mirroring(u, x) PROVE Mirroring(u, x)'
        BY DEF Pending
      <4>1. CASE u = w
        BY <1>1, <3>2, <4>1 DEF Mirroring, Native
      <4>2. CASE u # w
        BY <1>1, <3>1, <4>2 DEF Mirroring, Native, Types
      <4> QED
        BY <4>1, <4>2
    <3> QED
      BY <1>1, <1>2, <3>3, <3>4 DEF Safe, Synced, ToCopy, ToCommit, InBatch
  <2> QED
    BY <2>1, <2>2
<1> QED
  BY <1>4, <1>5

LEMMA MirrorArrivesFollows ==
    ASSUME Types, Follows, NEW w \in Worker, MirrorArrives(w)
    PROVE  Follows'
<1> SUFFICES ASSUME Migrating', NEW x \in Point, x \notin astray'
             PROVE  Safe(x)'
  BY DEF Follows
<1> DEFINE y == work[w].point
           from == work[w].from
           to == work[w].to
           vs == [z \in {work[w].point} |-> work[w].version]
<1>1. mig' = mig /\ copier' = copier /\ work' = [work EXCEPT ![w] = Idle]
  BY DEF MirrorArrives
<1>2. Migrating
  BY <1>1 DEF Migrating
<1>3. work[w] \in Mirror /\ work[w].step \in {"upsert", "erase"}
  BY DEF MirrorArrives, Types, Job, Idle
<1>4. Arrives(w, from, to, vs)
  BY DEF MirrorArrives
<1>5. store' = [store EXCEPT ![to] =
                  [z \in Point |-> IF z = y THEN work[w].version ELSE store[to][z]]]
  BY <1>4 DEF Arrives
<1>6. CASE x # y
  <2>1. x \notin astray
    BY <1>4, <1>6 DEF Arrives
  <2>2. \A c \in Collection : store'[c][x] = store[c][x]
    BY <1>5, <1>6 DEF Types
  <2>3. \A u \in Worker : work[u].point = x /\ work[u].step # "idle" => work'[u] = work[u]
    BY <1>1, <1>6 DEF Types
  <2>4. \A u \in Worker : work'[u].point = x /\ work'[u].step # "idle" => work'[u] = work[u]
    BY <1>1, <1>6 DEF Types, Idle
  <2> QED
    BY <1>1, <1>2, <2>1, <2>2, <2>3, <2>4, Untouched DEF Follows
<1>7. CASE x = y
  <2>1. from = mig.source /\ to = mig.target
    BY <1>4, <1>7 DEF Arrives
  <2>2. mig.source \in Collection /\ mig.target \in Collection /\ mig.source # mig.target
    BY <1>2 DEF Migrating, MigrationState
  <2>3. store'[mig.source][x] = store[mig.source][x] /\ store'[mig.target][x] = work[w].version
    BY <1>5, <1>7, <2>1, <2>2 DEF Types
  <2>4. \/ x \notin astray
        \/ work[w].version = store[mig.source][x] /\ Holders(x) \subseteq {w}
    BY <1>4, <1>7, <2>1 DEF Arrives
  <2>5. work[w].version = store[mig.source][x]
    <3>1. CASE x \notin astray
      BY <1>2, <1>3, <1>7, <2>1, <3>1 DEF Follows, Safe, HeldRight, Native
    <3> QED
      BY <2>4, <3>1
  <2>6. Synced(x)'
    BY <1>1, <2>3, <2>5 DEF Synced
  <2>7. HeldRight(x)'
    <3>1. CASE x \notin astray
      <4>1. HeldRight(x)
        BY <1>2, <3>1 DEF Follows, Safe
      <4> QED
        BY <1>1, <2>3, <4>1 DEF HeldRight, Native, Types, Idle
    <3>2. CASE Holders(x) \subseteq {w}
      <4>1. \A u \in Worker \ {w} : ~(work[u].point = x /\ work[u].step \in {"upsert", "erase"})
        BY <3>2 DEF Holders
      <4>2. ~(copier.step = "upsert" /\ x \in DOMAIN copier.batch)
        BY <3>2, MigrationAssumption DEF Holders
      <4>3. \A u \in Worker : ~(work'[u].point = x /\ work'[u].step \in {"upsert", "erase"})
        BY <1>1, <4>1 DEF Types, Idle
      <4> QED
        BY <1>1, <4>2, <4>3 DEF HeldRight
    <3> QED
      BY <2>4, <3>1, <3>2
  <2> QED
    BY <2>6, <2>7 DEF Safe
<1> QED
  BY <1>6, <1>7

\* A worker loses what it had to mirror: the point is astray.
LEMMA LostMirrorFollows ==
    ASSUME Types, Follows, NEW w \in Worker, mig' = mig, store' = store, copier' = copier,
           \/ astray' = astray \cup {work[w].point}
           \/ work[w] = Idle /\ astray' = astray,
           work' = [work EXCEPT ![w] = Idle]
    PROVE  Follows'
<1> SUFFICES ASSUME Migrating', NEW x \in Point, x \notin astray'
             PROVE  Safe(x)'
  BY DEF Follows
<1>1. Migrating /\ x \notin astray
  BY DEF Migrating
<1>2. work[w] = Idle \/ work[w].point # x
  OBVIOUS
<1>3. \A u \in Worker : work[u].point = x /\ work[u].step # "idle" => work'[u] = work[u]
  BY <1>2 DEF Types, Idle
<1>4. \A u \in Worker : work'[u].point = x /\ work'[u].step # "idle" => work'[u] = work[u]
  BY <1>2 DEF Types, Idle
<1> QED
  BY <1>1, <1>3, <1>4, Untouched DEF Follows

LEMMA FaultsFollow ==
    ASSUME Types, Follows, NEW p \in Process, Loads(p) \/ LoadFails(p) \/ Restarts(p)
    PROVE  Follows'
<1>1. CASE Loads(p) \/ LoadFails(p) \/ (Restarts(p) /\ p \notin Worker)
  <2>1. mig' = mig /\ store' = store /\ copier' = copier /\ work' = work /\ astray' = astray
    BY <1>1 DEF Loads, LoadFails, Restarts, data
  <2> QED
    BY <2>1, Untouched DEF Follows, Migrating
<1>2. CASE Restarts(p) /\ p \in Worker
  BY <1>2, LostMirrorFollows DEF Restarts
<1> QED
  BY <1>1, <1>2

LEMMA MirrorFailsFollows ==
    ASSUME Types, Follows, NEW w \in Worker, MirrorFails(w)
    PROVE  Follows'
BY LostMirrorFollows DEF MirrorFails

LEMMA CopyReadsFollows ==
    ASSUME Types, Follows, CopyReads
    PROVE  Follows'
<1> SUFFICES ASSUME Migrating', NEW x \in Point, x \notin astray'
             PROVE  Safe(x)'
  BY DEF Follows
<1> DEFINE page == {y \in Ahead : Cardinality({z \in Ahead : z < y}) < Batch}
           rest == Ahead \ page
<1>1. PICK next \in rest \cup {None} :
         /\ IF rest = {} THEN next = None ELSE next # None /\ \A y \in rest : next <= y
         /\ copier' = [ step |-> "upsert", row |-> mig, next |-> next,
                        batch |-> [y \in page |-> store[mig.source][y]] ]
  BY DEF CopyReads
<1>2. mig' = mig /\ store' = store /\ astray' = astray /\ work' = work /\ copier = Off
  BY DEF CopyReads, data
<1>3. Safe(x)
  BY <1>2 DEF Follows, Migrating
<1> HIDE DEF page
<1>4. copier'.step = "upsert" /\ copier'.row = mig /\ copier'.next = next
      /\ copier'.batch = [y \in page |-> store[mig.source][y]]
  BY <1>1
<1>5. HeldRight(x)'
  BY <1>2, <1>3, <1>4 DEF Safe, HeldRight, Native
<1>6. Pending(x)' = Pending(x)
  BY <1>2 DEF Pending, Mirroring, Native
<1>7. ToCopy(x) => InBatch(x)' \/ ToCommit(x)'
  <2> SUFFICES ASSUME ToCopy(x), x \notin page PROVE ToCommit(x)'
    BY <1>4 DEF InBatch
  <2>1. x \in rest
    BY DEF ToCopy, Ahead
  <2>2. next # None /\ next <= x
    BY <1>1, <2>1
  <2> QED
    BY <1>2, <1>4, <2>2 DEF ToCopy, ToCommit
<1> QED
  BY <1>2, <1>3, <1>5, <1>6, <1>7 DEF Safe, Synced, ToCopy

LEMMA CopyUpsertsFollows ==
    ASSUME Types, Follows, CopyUpserts
    PROVE  Follows'
<1> SUFFICES ASSUME Migrating', NEW x \in Point, x \notin astray'
             PROVE  Safe(x)'
  BY DEF Follows
<1> DEFINE from == copier.row.source
           to == copier.row.target
           vs == copier.batch
<1>1. mig' = mig /\ work' = work /\ copier.step = "upsert" /\ Arrives(None, from, to, vs)
  BY DEF CopyUpserts
<1>2. copier'.step = "commit" /\ copier'.next = copier.next
  BY DEF CopyUpserts, Types, CopierOK
<1>3. Migrating
  BY <1>1 DEF Migrating
<1>4. mig.source \in Collection /\ mig.target \in Collection /\ mig.source # mig.target
  BY <1>3 DEF Migrating, MigrationState
<1>5. store' = [store EXCEPT ![to] =
                  [y \in Point |-> IF y \in DOMAIN vs THEN vs[y] ELSE store[to][y]]]
  BY <1>1 DEF Arrives
<1>6. CASE x \notin DOMAIN vs
  <2>1. \A c \in Collection : store'[c][x] = store[c][x]
    BY <1>5, <1>6 DEF Types
  <2>2. x \notin astray
    BY <1>1, <1>6 DEF Arrives
  <2>3. Safe(x)
    BY <1>3, <2>2 DEF Follows
  <2>4. HeldRight(x)'
    BY <1>1, <1>2, <1>4, <2>1, <2>3 DEF Safe, HeldRight, Native
  <2>5. Pending(x)' = Pending(x)
    BY <1>1, <1>4, <2>1 DEF Pending, Mirroring, Native
  <2>6. Synced(x)' = Synced(x) /\ ToCopy(x)' = ToCopy(x) /\ ToCommit(x)' = ToCommit(x)
    BY <1>1, <1>2, <1>4, <2>1 DEF Synced, ToCopy, ToCommit
  <2>7. ~InBatch(x)
    BY <1>6 DEF InBatch
  <2> QED
    BY <1>1, <2>3, <2>4, <2>5, <2>6, <2>7 DEF Safe
<1>7. CASE x \in DOMAIN vs
  <2>1. from = mig.source /\ to = mig.target
    BY <1>1, <1>7 DEF Arrives
  <2>2. store'[mig.source][x] = store[mig.source][x] /\ store'[mig.target][x] = vs[x]
    BY <1>4, <1>5, <1>7, <2>1 DEF Types
  <2>3. \/ x \notin astray
        \/ vs[x] = store[mig.source][x] /\ Holders(x) \subseteq {None}
    BY <1>1, <1>7, <2>1 DEF Arrives
  <2>4. vs[x] = store[mig.source][x]
    <3>1. CASE x \notin astray
      BY <1>1, <1>3, <1>7, <2>1, <3>1 DEF Follows, Safe, HeldRight, Native
    <3> QED
      BY <2>3, <3>1
  <2>5. Synced(x)'
    BY <1>1, <2>2, <2>4 DEF Synced
  <2>6. HeldRight(x)'
    <3>1. CASE x \notin astray
      <4>1. HeldRight(x)
        BY <1>3, <3>1 DEF Follows, Safe
      <4> QED
        BY <1>1, <1>2, <2>2, <4>1 DEF HeldRight, Native
    <3>2. CASE Holders(x) \subseteq {None}
      <4>1. \A u \in Worker : ~(work[u].point = x /\ work[u].step \in {"upsert", "erase"})
        BY <3>2, MigrationAssumption DEF Holders
      <4> QED
        BY <1>1, <1>2, <4>1 DEF HeldRight
    <3> QED
      BY <2>3, <3>1, <3>2
  <2> QED
    BY <2>5, <2>6 DEF Safe
<1> QED
  BY <1>6, <1>7

LEMMA CopyCommitsFollows ==
    ASSUME Types, Follows, CopyCommits
    PROVE  Follows'
<1> SUFFICES ASSUME Migrating', NEW x \in Point, x \notin astray'
             PROVE  Safe(x)'
  BY DEF Follows
<1>1. store' = store /\ astray' = astray /\ work' = work /\ copier.step = "commit" /\ copier' = Off
  BY DEF CopyCommits, data
<1>2. Migrating /\ mig \in MigrationState /\ copier.row \in MigrationState
      /\ copier.next \in Point \cup {None}
  BY <1>1 DEF Types, CopierOK, Migrating
<1>3. mig'.source = mig.source /\ mig'.target = mig.target
  BY <1>2 DEF CopyCommits, MigrationState
<1>4. Safe(x)
  BY <1>1, <1>2 DEF Follows
<1>5. HeldRight(x)'
  BY <1>1, <1>3, <1>4 DEF Safe, HeldRight, Native, Off
<1>6. Pending(x)' = Pending(x) /\ Synced(x)' = Synced(x)
  BY <1>1, <1>3 DEF Pending, Mirroring, Native, Synced
<1>7. Synced(x) \/ Pending(x) \/ ToCommit(x)
  BY <1>1, <1>4 DEF Safe, InBatch
<1>8. ToCommit(x) => ToCopy(x)'
  <2> SUFFICES ASSUME ToCommit(x) PROVE ToCopy(x)'
    OBVIOUS
  <2>1. copier.next # None /\ copier.next <= x
    BY DEF ToCommit
  <2>2. copier.next # copier.row.cursor
    <3>1. CASE copier.row.cursor = None
      BY <2>1, <3>1
    <3>2. CASE copier.row.cursor # None
      <4>1. copier.row.cursor < copier.next
        BY <1>1, <2>1, <3>2 DEF Types, CopierOK
      <4>2. copier.row.cursor \in Nat /\ copier.next \in Nat
        BY <1>2, <2>1, <3>2, MigrationAssumption DEF MigrationState
      <4> QED
        BY <4>1, <4>2
    <3> QED
      BY <3>1, <3>2
  <2>3. mig'.cursor = copier.next
    BY <1>2, <2>1, <2>2 DEF CopyCommits, MigrationState
  <2>4. mig'.status # "validating"
    BY <1>2, <2>1 DEF CopyCommits, MigrationState, ToCommit
  <2> QED
    BY <1>1, <1>3, <2>1, <2>3, <2>4 DEF ToCommit, ToCopy
<1> QED
  BY <1>1, <1>5, <1>6, <1>7, <1>8 DEF Safe, Off

LEMMA CopyStopsFollows ==
    ASSUME Types, Follows, CopyStops
    PROVE  Follows'
<1> SUFFICES ASSUME Migrating', NEW x \in Point, x \notin astray'
             PROVE  Safe(x)'
  BY DEF Follows
<1>1. mig' = mig /\ store' = store /\ astray' = astray /\ work' = work /\ copier' = Off
  BY DEF CopyStops, data
<1>2. Safe(x)
  BY <1>1 DEF Follows, Migrating
<1>3. HeldRight(x)'
  BY <1>1, <1>2 DEF Safe, HeldRight, Native, Off
<1>4. Pending(x)' = Pending(x) /\ Synced(x)' = Synced(x) /\ ToCopy(x)' = ToCopy(x)
  BY <1>1 DEF Pending, Mirroring, Native, Synced, ToCopy
<1> QED
  BY <1>1, <1>2, <1>3, <1>4 DEF Safe, Off

\* A new migration: whatever the copy will not bring in step is astray.
LEMMA StartFollows ==
    ASSUME Types, Follows, NEW r \in Replica, NEW s \in Collection, NEW t \in Collection, Start(r, s, t)
    PROVE  Follows'
<1> SUFFICES ASSUME NEW x \in Point, x \notin astray'
             PROVE  Safe(x)'
  BY DEF Follows
<1>1. store' = store /\ work' = work /\ copier' = copier
  BY DEF Start
<1>2. mig' = [source |-> s, target |-> t, active |-> s, dual |-> TRUE, cursor |-> None, status |-> "planned"]
  BY DEF Start
<1>3. copier.step \notin {"upsert", "commit"} /\ ~(store[t][x] # 0 /\ store[s][x] = 0) /\ Holders(x) = {}
  BY DEF Start
<1>4. copier.step = "off"
  BY <1>3 DEF Types, CopierOK
<1>5. HeldRight(x)'
  BY <1>1, <1>3, <1>4 DEF HeldRight, Holders
<1>6. Synced(x)' \/ ToCopy(x)'
  BY <1>1, <1>2, <1>3 DEF Synced, ToCopy, Types
<1> QED
  BY <1>1, <1>4, <1>5, <1>6 DEF Safe

LEMMA ControlFollows ==
    ASSUME Types, Follows, NEW r \in Replica,
           CountSource(r) \/ CountTarget(r) \/ Flips(r) \/ Rollback(r)
    PROVE  Follows'
<1>1. CASE CountSource(r) \/ CountTarget(r)
  <2>1. mig' = mig /\ store' = store /\ astray' = astray /\ work' = work /\ copier' = copier
    BY <1>1 DEF CountSource, CountTarget, data
  <2> QED
    BY <2>1, Untouched DEF Follows, Migrating
<1>2. CASE Flips(r) \/ Rollback(r)
  <2> SUFFICES ASSUME Migrating', NEW x \in Point, x \notin astray'
               PROVE  Safe(x)'
    BY DEF Follows
  <2>1. Migrating
    BY <1>2 DEF Flips, Rollback, Types
  <2>2. store' = store /\ astray' = astray /\ work' = work /\ copier' = copier
    BY <1>2 DEF Flips, Rollback, data
  <2>3. mig'.source = mig.source /\ mig'.target = mig.target /\ mig'.cursor = mig.cursor
        /\ mig'.status # "validating"
    BY <1>2, <2>1 DEF Flips, Rollback, Migrating, MigrationState
  <2>4. Safe(x)
    BY <2>1, <2>2 DEF Follows
  <2>5. HeldRight(x)'
    BY <2>2, <2>3, <2>4 DEF Safe, HeldRight, Native
  <2>6. Pending(x)' = Pending(x) /\ Synced(x)' = Synced(x) /\ InBatch(x)' = InBatch(x)
    BY <2>2, <2>3 DEF Pending, Mirroring, Native, Synced, InBatch
  <2>7. (ToCopy(x) => ToCopy(x)') /\ (ToCommit(x) => ToCommit(x)')
    BY <2>2, <2>3 DEF ToCopy, ToCommit
  <2> QED
    BY <2>2, <2>4, <2>5, <2>6, <2>7 DEF Safe
<1> QED
  BY <1>1, <1>2

-----------------------------------------------------------------------------
(* The theorems                                                            *)

LEMMA InitIInv == Init => IInv
<1> SUFFICES ASSUME Init PROVE IInv
  OBVIOUS
<1>1. mig = None /\ ~Migrating
  BY MigratingNotNone DEF Init
<1>2. PICK S \in SUBSET Point :
        store = [c \in Collection |-> [x \in Point |-> IF c = Configured /\ x \in S THEN 1 ELSE 0]]
  BY DEF Init
<1>3. store \in [Collection -> [Point -> Nat]]
  BY <1>2
<1>4. snap \in [Process -> Route \cup {None}]
  BY MigrationAssumption DEF Init, Unplanned, Route
<1>5. work \in [Worker -> Job] /\ CopierOK /\ BatchOK
  BY DEF Init, Job, CopierOK, BatchOK, Off
<1>6. DOMAIN count = Replica /\ (\A r \in Replica : count[r].step = "off") /\ written \in Nat
  BY DEF Init, NoCount
<1> QED
  BY <1>1, <1>3, <1>4, <1>5, <1>6 DEF IInv, Types, Follows

LEMMA StepIInv == IInv /\ [Next]_vars => IInv'
<1> SUFFICES ASSUME IInv, [Next]_vars PROVE IInv'
  OBVIOUS
<1> USE DEF IInv
<1>1. ASSUME NEW w \in Worker, WorkerNext(w) PROVE IInv'
  <2> w \in Process
    BY DEF Process
  <2>1. ASSUME NEW x \in Point, WorkerAdds(w, x) PROVE IInv'
    BY <2>1, WorkerAddsTypes, WorkerAddsFollows
  <2>2. ASSUME NEW x \in Point, WorkerDeletes(w, x) PROVE IInv'
    BY <2>2, WorkerDeletesTypes, WorkerDeletesFollows
  <2>3. ASSUME NEW x \in Point, MarksObsolete(w, x) PROVE IInv'
    BY <2>3, UnmirroredTypes, UnmirroredFollows
  <2>4. CASE MirrorRetrieves(w)
    BY <2>4, MirrorTypes, MirrorRetrievesFollows
  <2>5. CASE MirrorArrives(w)
    BY <2>5, MirrorTypes, MirrorArrivesFollows
  <2>6. CASE MirrorFails(w)
    BY <2>6, MirrorTypes, MirrorFailsFollows
  <2> QED
    BY <1>1, <2>1, <2>2, <2>3, <2>4, <2>5, <2>6 DEF WorkerNext
<1>2. ASSUME NEW r \in Replica, ReplicaNext(r) PROVE IInv'
  <2> r \in Process
    BY DEF Process
  <2>1. ASSUME NEW x \in Point, ReplicaWrites(r, x, 0) \/ ReplicaWrites(r, x, written + 2) PROVE IInv'
    <3>1. written + 2 \in Nat
      BY DEF Types
    <3> QED
      BY <2>1, <3>1, UnmirroredTypes, UnmirroredFollows
  <2>2. ASSUME NEW s \in Collection, NEW t \in Collection, Start(r, s, t) PROVE IInv'
    BY <2>2, ControlTypes, StartFollows
  <2>3. CASE CountSource(r) \/ CountTarget(r) \/ Flips(r) \/ Rollback(r)
    BY <2>3, ControlTypes, ControlFollows
  <2> QED
    BY <1>2, <2>1, <2>2, <2>3 DEF ReplicaNext
<1>3. ASSUME NEW p \in Process, Loads(p) \/ LoadFails(p) \/ Restarts(p) PROVE IInv'
  BY <1>3, SnapshotTypes, FaultsFollow
<1>4. CASE CopyNext
  BY <1>4, CopyReadsTypes, CopyGoesOnTypes, CopyReadsFollows, CopyUpsertsFollows,
     CopyCommitsFollows, CopyStopsFollows DEF CopyNext
<1>5. CASE UNCHANGED vars
  <2>1. mig' = mig /\ store' = store /\ astray' = astray /\ work' = work /\ copier' = copier
        /\ snap' = snap /\ count' = count /\ written' = written
    BY <1>5 DEF vars, data
  <2>2. Types'
    BY <2>1 DEF Types, CopierOK, BatchOK, Migrating
  <2> QED
    BY <2>1, <2>2, Untouched DEF Follows, Migrating
<1> QED
  BY <1>1, <1>2, <1>3, <1>4, <1>5 DEF Next

LEMMA Invariance == Spec => []IInv
  BY InitIInv, StepIInv, PTL DEF Spec

\* Once the copy has come to its end and no mirror is under way, every memory
\* that is not astray is in the target exactly as in the source, for any number
\* of processes, memories, writes, faults and migrations.
THEOREM CopyAndMirrorAgree == Spec => []TargetFollowsSource
<1>1. IInv => TargetFollowsSource
  <2> SUFFICES ASSUME IInv, mig # None, mig.status = "validating", \A w \in Worker : work[w] = Idle,
                      NEW x \in Point \ astray
               PROVE  store[mig.target][x] = store[mig.source][x]
    BY DEF TargetFollowsSource
  <2>1. Synced(x) \/ Pending(x) \/ ToCopy(x)
    BY DEF IInv, Types, Follows, Safe
  <2>2. ~Pending(x)
    BY DEF Pending, Mirroring, Idle
  <2>3. ~ToCopy(x)
    BY DEF ToCopy
  <2> QED
    BY <2>1, <2>2, <2>3 DEF Synced
<1> QED
  BY <1>1, Invariance, PTL

-----------------------------------------------------------------------------
(* The flip                                                                *)

Count == [step : {"target", "flip"}, source : Collection, target : Collection, n : Nat]

CountOK == count \in [Replica -> {NoCount} \cup Count]

\* What a flip has counted, as long as nothing crossed it.
Counted(r) ==
    /\ count[r].step = "target" =>
          count[r].source = mig.source /\ count[r].target = mig.target /\ count[r].n = Size(mig.source)
    /\ count[r].step = "flip" => Size(mig.target) >= Size(mig.source)

FlipInv == CountOK /\ \A r \in Replica \ crossed : Counted(r)

LEMMA SizeTyped ==
    ASSUME NEW c
    PROVE  Size(c) \in Nat /\ IsFiniteSet({x \in Point : store[c][x] # 0})
<1>1. IsFiniteSet({x \in Point : store[c][x] # 0})
  BY FS_Subset, MigrationAssumption
<1> QED
  BY <1>1, FS_CardinalityType DEF Size

\* A flip whose counts nothing crosses goes on counting the same.
LEMMA CrossedOrCounted ==
    ASSUME FlipInv, count' = count,
           \/ Cross
           \/ crossed' = crossed /\ store' = store /\ mig' = mig
           \/ crossed' = crossed /\ store' = store /\ mig'.source = mig.source /\ mig'.target = mig.target
    PROVE  FlipInv'
<1>1. CountOK'
  BY DEF FlipInv, CountOK
<1>2. ASSUME NEW r \in Replica, r \notin crossed' PROVE Counted(r)'
  <2>1. CASE Cross
    <3>1. count[r] = NoCount
      BY <1>2, <2>1 DEF Cross
    <3> QED
      BY <3>1 DEF Counted, NoCount
  <2>2. CASE crossed' = crossed /\ store' = store /\ mig'.source = mig.source /\ mig'.target = mig.target
    <3>1. Counted(r)
      BY <1>2, <2>2 DEF FlipInv
    <3> QED
      BY <2>2, <3>1 DEF Counted, Size
  <2> QED
    BY <2>1, <2>2
<1> QED
  BY <1>1, <1>2 DEF FlipInv

\* One replica gives its flip up, or starts anew.
LEMMA GivenUp ==
    ASSUME FlipInv, NEW r \in Replica, count' = [count EXCEPT ![r] = NoCount],
           crossed \subseteq crossed' \cup {r}, store' = store,
           mig'.source = mig.source, mig'.target = mig.target
    PROVE  FlipInv'
<1>1. CountOK'
  BY DEF FlipInv, CountOK
<1>2. ASSUME NEW q \in Replica, q \notin crossed' PROVE Counted(q)'
  <2>1. CASE q = r
    BY <2>1 DEF FlipInv, CountOK, Counted, NoCount
  <2>2. CASE q # r
    <3>1. Counted(q) /\ count'[q] = count[q]
      BY <1>2, <2>2 DEF FlipInv, CountOK
    <3> QED
      BY <3>1 DEF Counted, Size
  <2> QED
    BY <2>1, <2>2
<1> QED
  BY <1>1, <1>2 DEF FlipInv

LEMMA CountSourceFlip ==
    ASSUME Types, FlipInv, NEW r \in Replica, CountSource(r)
    PROVE  FlipInv'
<1>1. Migrating /\ store' = store /\ mig' = mig /\ crossed' = crossed
  BY DEF CountSource, Types, data
<1> DEFINE c == [step |-> "target", source |-> mig.source, target |-> mig.target, n |-> Size(mig.source)]
<1>2. count' = [count EXCEPT ![r] = c]
  BY DEF CountSource
<1>3. c \in Count
  BY <1>1, SizeTyped DEF Count, Migrating, MigrationState
<1>4. CountOK'
  BY <1>2, <1>3 DEF FlipInv, CountOK
<1>5. ASSUME NEW q \in Replica, q \notin crossed' PROVE Counted(q)'
  <2>1. CASE q = r
    <3>1. count'[q] = c
      BY <1>2, <2>1 DEF FlipInv, CountOK
    <3>2. Size(mig.source)' = Size(mig.source)
      BY <1>1 DEF Size
    <3> QED
      BY <1>1, <3>1, <3>2 DEF Counted
  <2>2. CASE q # r
    <3>1. Counted(q) /\ count'[q] = count[q]
      BY <1>1, <1>2, <1>5, <2>2 DEF FlipInv, CountOK
    <3> QED
      BY <1>1, <3>1 DEF Counted, Size
  <2> QED
    BY <2>1, <2>2
<1> QED
  BY <1>4, <1>5 DEF FlipInv

LEMMA CountTargetFlip ==
    ASSUME FlipInv, NEW r \in Replica, CountTarget(r)
    PROVE  FlipInv'
<1>1. store' = store /\ mig' = mig /\ crossed' = {q \in crossed : count'[q] # NoCount}
  BY DEF CountTarget, data
<1>2. count[r].step = "target" /\ count[r] \in Count
  BY DEF CountTarget, FlipInv, CountOK, NoCount
<1> DEFINE enough == Size(count[r].target) >= count[r].n
<1>3. count' = [count EXCEPT ![r] = IF enough THEN [@ EXCEPT !.step = "flip"] ELSE NoCount]
  BY DEF CountTarget
<1>4. [count[r] EXCEPT !.step = "flip"] \in Count
  BY <1>2 DEF Count
<1> HIDE DEF enough
<1>5. CountOK'
  BY <1>3, <1>4 DEF FlipInv, CountOK
<1>6. ASSUME NEW q \in Replica, q \notin crossed' PROVE Counted(q)'
  <2>1. CASE q = r /\ enough
    <3>1. count'[r] = [count[r] EXCEPT !.step = "flip"]
      BY <1>3, <2>1 DEF FlipInv, CountOK
    <3>2. count'[r].step = "flip" /\ count'[r] # NoCount
      BY <1>2, <3>1 DEF Count, NoCount
    <3>3. Counted(r)
      BY <1>1, <1>6, <2>1, <3>2 DEF FlipInv
    <3>4. Size(mig.target) >= Size(mig.source)
      BY <1>2, <2>1, <3>3 DEF Counted, enough
    <3> QED
      BY <1>1, <2>1, <3>2, <3>4 DEF Counted, Size
  <2>2. CASE q = r /\ ~enough
    <3>1. count'[r] = NoCount
      BY <1>3, <2>2 DEF FlipInv, CountOK
    <3> QED
      BY <2>2, <3>1 DEF Counted, NoCount
  <2>3. CASE q # r
    <3>1. count'[q] = count[q]
      BY <1>3, <2>3 DEF FlipInv, CountOK
    <3>2. CASE count[q] = NoCount
      BY <3>1, <3>2 DEF Counted, NoCount
    <3>3. CASE count[q] # NoCount
      <4>1. Counted(q)
        BY <1>1, <1>6, <3>1, <3>3 DEF FlipInv
      <4> QED
        BY <1>1, <3>1, <4>1 DEF Counted, Size
    <3> QED
      BY <3>2, <3>3
  <2> QED
    BY <2>1, <2>2, <2>3
<1> QED
  BY <1>5, <1>6 DEF FlipInv

LEMMA RestartFlip ==
    ASSUME FlipInv, NEW p \in Process, Restarts(p)
    PROVE  FlipInv'
<1>1. store' = store /\ mig' = mig /\ crossed' = crossed \ {p}
  BY DEF Restarts
<1>2. CASE p \in Worker
  <2>1. count' = count /\ p \notin Replica
    BY <1>2, MigrationAssumption DEF Restarts
  <2>2. ASSUME NEW r \in Replica, r \notin crossed' PROVE Counted(r)'
    <3>1. Counted(r)
      BY <1>1, <2>1, <2>2 DEF FlipInv
    <3> QED
      BY <1>1, <2>1, <3>1 DEF Counted, Size
  <2> QED
    BY <2>1, <2>2 DEF FlipInv, CountOK
<1>3. CASE p \notin Worker
  <2>1. p \in Replica /\ count' = [count EXCEPT ![p] = NoCount]
    BY <1>3 DEF Restarts, Process
  <2> QED
    BY <1>1, <2>1, GivenUp
<1> QED
  BY <1>2, <1>3

LEMMA InitFlipInv == Init => FlipInv
BY DEF Init, FlipInv, CountOK, Counted, NoCount

LEMMA StepFlipInv == Types /\ FlipInv /\ [Next]_vars => FlipInv'
<1> SUFFICES ASSUME Types, FlipInv, [Next]_vars PROVE FlipInv'
  OBVIOUS
<1>1. ASSUME NEW w \in Worker, WorkerNext(w) PROVE FlipInv'
  <2>1. count' = count /\ mig' = mig /\ (Cross \/ (crossed' = crossed /\ store' = store))
    BY <1>1 DEF WorkerNext, WorkerAdds, WorkerDeletes, MarksObsolete, MirrorRetrieves, MirrorArrives,
       MirrorFails, Writes, Arrives, data
  <2> QED
    BY <2>1, CrossedOrCounted
<1>2. ASSUME NEW r \in Replica, ReplicaNext(r) PROVE FlipInv'
  <2>1. CASE \E x \in Point : ReplicaWrites(r, x, 0) \/ ReplicaWrites(r, x, written + 2)
    <3>1. count' = count /\ Cross
      BY <2>1 DEF ReplicaWrites, Writes
    <3> QED
      BY <3>1, CrossedOrCounted
  <2>2. CASE \E s, t \in Collection : Start(r, s, t)
    <3>1. count' = count /\ Cross
      BY <2>2 DEF Start
    <3> QED
      BY <3>1, CrossedOrCounted
  <2>3. CASE CountSource(r)
    BY <2>3, CountSourceFlip
  <2>4. CASE CountTarget(r)
    BY <2>4, CountTargetFlip
  <2>5. CASE Flips(r)
    <3>1. Migrating
      BY <2>5 DEF Flips, Types
    <3>2. mig'.source = mig.source /\ mig'.target = mig.target
      BY <2>5, <3>1 DEF Flips, Migrating, MigrationState
    <3> QED
      BY <2>5, <3>2, GivenUp DEF Flips, data
  <2>6. CASE Rollback(r)
    <3>1. Migrating
      BY <2>6 DEF Rollback, Types
    <3>2. mig'.source = mig.source /\ mig'.target = mig.target
      BY <2>6, <3>1 DEF Rollback, Migrating, MigrationState
    <3>3. count' = count /\ crossed' = crossed /\ store' = store
      BY <2>6 DEF Rollback, data
    <3> QED
      BY <3>2, <3>3, CrossedOrCounted
  <2> QED
    BY <1>2, <2>1, <2>2, <2>3, <2>4, <2>5, <2>6 DEF ReplicaNext
<1>3. ASSUME NEW p \in Process, Loads(p) \/ LoadFails(p) PROVE FlipInv'
  <2>1. count' = count /\ mig' = mig /\ crossed' = crossed /\ store' = store
    BY <1>3 DEF Loads, LoadFails, data
  <2> QED
    BY <2>1, CrossedOrCounted
<1>4. ASSUME NEW p \in Process, Restarts(p) PROVE FlipInv'
  BY <1>4, RestartFlip
<1>5. CASE CopyReads \/ CopyUpserts \/ CopyStops \/ UNCHANGED vars
  <2>1. count' = count /\ mig' = mig /\ (Cross \/ (crossed' = crossed /\ store' = store))
    BY <1>5 DEF CopyReads, CopyUpserts, CopyStops, Arrives, vars, data
  <2> QED
    BY <2>1, CrossedOrCounted
<1>6. CASE CopyCommits
  <2>1. mig \in MigrationState
    BY <1>6 DEF CopyCommits, Types, CopierOK, Migrating
  <2>2. mig'.source = mig.source /\ mig'.target = mig.target
    BY <1>6, <2>1 DEF CopyCommits, MigrationState
  <2>3. count' = count /\ crossed' = crossed /\ store' = store
    BY <1>6 DEF CopyCommits, data
  <2> QED
    BY <2>2, <2>3, CrossedOrCounted
<1> QED
  BY <1>1, <1>2, <1>3, <1>4, <1>5, <1>6 DEF Next, CopyNext

\* A flip that nothing crossed leaves no memory of the source behind, unless
\* the target had memories of its own, for any number of processes, memories
\* and migrations.
THEOREM FlipsLeaveNothingBehind == Spec => FlipServesSource
<1>1. ASSUME Types, FlipInv, NEW r \in Replica \ crossed, count[r].step = "flip",
             {x \in Point : store[mig.target][x] # 0} \subseteq {x \in Point : store[mig.source][x] # 0}
      PROVE  {x \in Point : store[mig.target][x] # 0} = {x \in Point : store[mig.source][x] # 0}
  <2> DEFINE kept == {x \in Point : store[mig.source][x] # 0}
             new == {x \in Point : store[mig.target][x] # 0}
  <2>1. Cardinality(new) >= Cardinality(kept)
    BY <1>1 DEF FlipInv, Counted, Size
  <2>2. IsFiniteSet(kept) /\ Cardinality(kept) \in Nat /\ Cardinality(new) \in Nat
    BY SizeTyped DEF Size
  <2>3. new \in SUBSET kept
    BY <1>1
  <2> HIDE DEF kept, new
  <2>4. Cardinality(new) <= Cardinality(kept)
    BY <2>2, <2>3, FS_Subset
  <2>5. Cardinality(kept) = Cardinality(new)
    BY <2>1, <2>2, <2>4
  <2>6. kept = new
    BY <2>2, <2>3, <2>5, FS_Subset
  <2> QED
    BY <2>6 DEF kept, new
<1>2. Types /\ FlipInv /\ [Next]_vars =>
        [\A r \in Replica \ crossed : count[r].step = "flip" /\ count'[r] = NoCount /\ mig' # mig =>
            LET kept == {x \in Point : store[mig.source][x] # 0}
                new  == {x \in Point : store[mig.target][x] # 0}
            IN  new \subseteq kept => new = kept]_vars
  BY <1>1
<1>3. Spec => []FlipInv
  <2>1. IInv => Types
    BY DEF IInv
  <2> QED
    BY <2>1, InitFlipInv, StepFlipInv, Invariance, PTL DEF Spec
<1>4. IInv => Types
  BY DEF IInv
<1> QED
  BY <1>2, <1>3, <1>4, Invariance, PTL DEF Spec, FlipServesSource
=============================================================================
