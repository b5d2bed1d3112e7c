------------------------------ MODULE TaskLock ------------------------------
(***************************************************************************)
(* The Kanban card lock of openmemory/api/app/utils/task_lock.py and the   *)
(* lease worker of workers/spec_task_timeout_worker.py.                    *)
(*                                                                         *)
(* Every handler reads the card, decides on what it read, and later writes *)
(* with one UPDATE ... WHERE followed by a commit.  A handler is therefore *)
(* two steps: Begin* loads the row into the session and applies the guards *)
(* on it, Commit* evaluates the WHERE clause on the row as it is by then.  *)
(* Anything may happen in between.                                         *)
(*                                                                         *)
(* Abstracted: titles and other payload, is_blocked/block_reason (no guard *)
(* reads them), audit rows, the PLANKA mirror, the resolution of a         *)
(* machine name to a person (an actor here is an identity already          *)
(* resolved), the reconciliation of the workspace that follows a status    *)
(* change and touches no card, and the deletion of a card, after which     *)
(* every UPDATE by its id misses.                                          *)
(***************************************************************************)
EXTENDS Integers, FiniteSets

CONSTANTS
    Tasks,          \* the cards
    Actors,         \* people and agents that may hold a card
    NoActor,        \* assignee NULL
    Sessions,       \* concurrent requests (REST, MCP, PLANKA bridge)
    Sweepers,       \* API replicas, each with its own timeout worker
    InitialColumns, \* columns in which cards are created or imported
    TimeoutHours,   \* SPEC_TASK_TIMEOUT_HOURS as configured
    MaxOps          \* bound on the number of requests of a behaviour

Status == {"tasks", "em_andamento", "revisao_codigo", "fase_teste", "concluido"}

ASSUME TaskLockAssumption ==
    /\ NoActor \notin Actors
    /\ InitialColumns \subseteq Status
    /\ TimeoutHours \in Int
    /\ MaxOps \in Nat

(***************************************************************************)
(* FORWARD_PIPELINE as positions; "tasks" lies outside it.                 *)
(***************************************************************************)
Pipeline == [c \in Status \ {"tasks"} |->
               CASE c = "em_andamento"   -> 1
                 [] c = "revisao_codigo" -> 2
                 [] c = "fase_teste"     -> 3
                 [] OTHER                -> 4]

ActiveColumns == {"em_andamento", "revisao_codigo", "fase_teste"}

\* The lease window the worker really applies: max(0, configured hours).
Window == IF TimeoutHours > 0 THEN TimeoutHours ELSE 0

\* last_activity_at NULL: nobody has touched the card since it was created or
\* imported, and it has no lease that could expire.
NoActivity == -1

Row == [status   : Status,
        assignee : Actors \cup {NoActor},
        version  : Nat,
        archived : BOOLEAN]

Request == [op    : {"claim", "release", "update", "bridge",
                     "metadata", "archive", "unarchive"},
            task  : Tasks,
            actor : Actors \cup {NoActor},
            exp   : Nat,       \* expected_version of the request
            to    : Status,    \* column the request asks for
            snap  : Row]       \* the row as this session loaded it

Idle  == [op |-> "idle"]
NoRow == [status |-> "expired"]  \* an ORM object expired by commit or rollback

VARIABLES
    card,    \* [Tasks -> Row], the table task_cards
    age,     \* [Tasks -> -1 .. Window + 1], hours since last_activity_at
    hist,    \* [Tasks -> Status], new_status of the last TaskStatusHistory row
    sess,    \* [Sessions -> Request or Idle]
    sweep,   \* [Sweepers -> [todo, snap]], progress of process_once
    overlap, \* history: kinds of unversioned write that hit a row changed
             \* since the writer loaded it
    ops      \* requests begun so far, for the bound

vars == <<card, age, hist, sess, sweep, overlap, ops>>

Init ==
    /\ card \in [Tasks -> {[status |-> c, assignee |-> NoActor, version |-> 1,
                            archived |-> FALSE] : c \in InitialColumns}]
    /\ age = [t \in Tasks |-> NoActivity]
    /\ hist = [t \in Tasks |-> card[t].status]
    /\ sess = [s \in Sessions |-> Idle]
    /\ sweep = [w \in Sweepers |-> [todo |-> {}, snap |-> [t \in Tasks |-> NoRow]]]
    /\ overlap = [t \in Tasks |-> {}]
    /\ ops = 0

-----------------------------------------------------------------------------
(* Begin: db.get(TaskCard) and the guards evaluated on what it returned.   *)

Begin(s, t, op, a, e, c) ==
    /\ sess[s] = Idle
    /\ ops < MaxOps
    /\ ops' = ops + 1
    /\ sess' = [sess EXCEPT ![s] = [op |-> op, task |-> t, actor |-> a,
                                    exp |-> e, to |-> c, snap |-> card[t]]]
    /\ UNCHANGED <<card, age, hist, sweep, overlap>>

\* The card is the caller's already, in any column but the backlog.
IsReclaim(snap, a) == snap.assignee = a /\ snap.status # "tasks"

\* An unowned card outside the backlog keeps its column when claimed.
IsAdopt(snap, a) ==
    /\ ~IsReclaim(snap, a)
    /\ snap.assignee = NoActor
    /\ snap.status \notin {"tasks", "concluido"}

BeginClaim(s, t, a) ==
    /\ ~card[t].archived
    /\ Begin(s, t, "claim", a, 0,
             IF IsAdopt(card[t], a) THEN card[t].status ELSE "em_andamento")

BeginRelease(s, t) ==
    /\ ~card[t].archived
    /\ Begin(s, t, "release", NoActor, 0, "tasks")

\* assert_no_forward_skip: at most one column forward, any number back.
NoForwardSkip(old, new) ==
    "tasks" \notin {old, new} => Pipeline[new] <= Pipeline[old] + 1

\* _assert_status_policy: claim and release are the only doors of the backlog
\* and of em_andamento, and an owned card moves only by its assignee.
StatusPolicy(row, new, a) ==
    /\ row.status = "tasks" => new = "tasks"
    /\ new = "em_andamento" => row.status = "em_andamento"
    /\ new = "tasks" => row.status = "tasks"
    /\ row.assignee # NoActor => row.assignee = a
    /\ NoForwardSkip(row.status, new)

\* A client sends as expected_version one it has been shown.
Shown(t) == 1 .. card[t].version

BeginUpdate(s, t, a, e, c) ==
    /\ ~card[t].archived
    /\ StatusPolicy(card[t], c, a)
    /\ Begin(s, t, "update", a, e, c)

\* A card dragged on the PLANKA board: claim and release are the requests
\* above; every other move is update_task_status without the policy, with the
\* version of the row just read.
BeginBridge(s, t, c) ==
    /\ ~card[t].archived
    /\ c \notin {card[t].status, "tasks"}
    /\ ~(card[t].status = "tasks" /\ c = "em_andamento")
    /\ Begin(s, t, "bridge", NoActor, card[t].version, c)

BeginMetadata(s, t, e) == Begin(s, t, "metadata", NoActor, e, card[t].status)

ArchivePolicy(row, a) ==
    row.status \in ActiveColumns /\ row.assignee # NoActor => row.assignee = a

BeginArchive(s, t, a, e) ==
    /\ ~card[t].archived
    /\ ArchivePolicy(card[t], a)
    /\ Begin(s, t, "archive", a, e, card[t].status)

BeginUnarchive(s, t, e) ==
    /\ card[t].archived
    /\ Begin(s, t, "unarchive", NoActor, e, card[t].status)

-----------------------------------------------------------------------------
(* Commit: the UPDATE with its WHERE clause, the history row, the commit.  *)

End(s) == sess' = [sess EXCEPT ![s] = Idle]

\* WHERE matched no row: rollback and report the conflict.
Refuse == UNCHANGED <<card, age, hist, overlap>>

\* A write without a version guard reached a row changed since the load.
NoteOverlap(r) ==
    overlap' = [overlap EXCEPT ![r.task] =
                  IF card[r.task] = r.snap THEN @ ELSE @ \cup {r.op}]

\* Mutant: the claim relies on the guards of the load alone.
ClaimWhereUnguarded(r) == ~card[r.task].archived

\* Mutant: the WHERE clause of the claim forgets archived_at.
ClaimWhereArchived(r) ==
    LET row == card[r.task]
    IN  CASE IsReclaim(r.snap, r.actor) -> row.assignee = r.snap.assignee
          [] IsAdopt(r.snap, r.actor)   -> row.assignee = NoActor
                                           /\ row.status = r.snap.status
          [] OTHER                      -> row.status = "tasks"

ClaimWhere(r) ==
    LET row == card[r.task]
    IN  /\ ~row.archived
        /\ CASE IsReclaim(r.snap, r.actor) -> row.assignee = r.snap.assignee
             [] IsAdopt(r.snap, r.actor)   -> row.assignee = NoActor
                                              /\ row.status = r.snap.status
             [] OTHER                      -> row.status = "tasks"

ApplyClaim(r) ==
    /\ card' = [card EXCEPT ![r.task].assignee = r.actor,
                            ![r.task].status = r.to,
                            ![r.task].version = @ + 1]
    /\ age' = [age EXCEPT ![r.task] = 0]
    /\ hist' = [hist EXCEPT ![r.task] = IF r.snap.status # r.to THEN r.to ELSE @]
    /\ NoteOverlap(r)

CommitClaim(s) ==
    LET r == sess[s]
    IN  /\ r.op = "claim"
        /\ IF ClaimWhere(r) THEN ApplyClaim(r) ELSE Refuse
        /\ End(s)
        /\ UNCHANGED <<sweep, ops>>

\* expected_version = None: the ORM flushes the attributes whose value differs
\* from the loaded one, by primary key alone.
CommitRelease(s) ==
    LET r == sess[s]
    IN  /\ r.op = "release"
        /\ card' = [card EXCEPT
             ![r.task].status   = IF r.snap.status = "tasks" THEN @ ELSE "tasks",
             ![r.task].assignee = IF r.snap.assignee = NoActor THEN @ ELSE NoActor,
             ![r.task].version  = r.snap.version + 1]
        /\ age' = [age EXCEPT ![r.task] = 0]
        /\ hist' = [hist EXCEPT ![r.task] = "tasks"]
        /\ NoteOverlap(r)
        /\ End(s)
        /\ UNCHANGED <<sweep, ops>>

\* Mutant: a version newer than the expected one passes.
VersionMatchesLater(r) == card[r.task].version >= r.exp

\* Every other write is conditional on expected_version.
VersionMatches(r) == card[r.task].version = r.exp

Conditional(s, op, Apply(_)) ==
    LET r == sess[s]
    IN  /\ r.op = op
        /\ IF VersionMatches(r) THEN Apply(r) /\ UNCHANGED overlap ELSE Refuse
        /\ End(s)
        /\ UNCHANGED <<sweep, ops>>

\* Mutant: a column change that writes no history row.
ApplyStatusSilently(r) ==
    /\ card' = [card EXCEPT ![r.task].status = r.to, ![r.task].version = @ + 1]
    /\ age' = [age EXCEPT ![r.task] = 0]
    /\ UNCHANGED hist

ApplyStatus(r) ==
    /\ card' = [card EXCEPT ![r.task].status = r.to, ![r.task].version = @ + 1]
    /\ age' = [age EXCEPT ![r.task] = 0]
    /\ hist' = [hist EXCEPT ![r.task] = IF r.to # r.snap.status THEN r.to ELSE @]

ApplyMetadata(r) ==
    /\ card' = [card EXCEPT ![r.task].version = @ + 1]
    /\ age' = [age EXCEPT ![r.task] = 0]
    /\ UNCHANGED hist

\* Mutant: archiving without a new version.
ApplyArchiveSameVersion(r) ==
    /\ card' = [card EXCEPT ![r.task].archived = TRUE]
    /\ UNCHANGED <<age, hist>>

\* Mutant: archiving as one more column.
ApplyArchiveAsColumn(r) ==
    /\ card' = [card EXCEPT ![r.task].status = "archived", ![r.task].version = @ + 1]
    /\ UNCHANGED <<age, hist>>

ApplyArchive(r) ==
    /\ card' = [card EXCEPT ![r.task].archived = TRUE, ![r.task].version = @ + 1]
    /\ UNCHANGED <<age, hist>>

ApplyUnarchive(r) ==
    /\ card' = [card EXCEPT ![r.task].archived = FALSE, ![r.task].version = @ + 1]
    /\ age' = [age EXCEPT ![r.task] = 0]
    /\ UNCHANGED hist

CommitUpdate(s)    == Conditional(s, "update", ApplyStatus)
CommitBridge(s)    == Conditional(s, "bridge", ApplyStatus)
CommitMetadata(s)  == Conditional(s, "metadata", ApplyMetadata)
CommitArchive(s)   == Conditional(s, "archive", ApplyArchive)
CommitUnarchive(s) == Conditional(s, "unarchive", ApplyUnarchive)

-----------------------------------------------------------------------------
(* apply_planka_card_update: the name, text, date or position of a card is *)
(* edited on the PLANKA board; one UPDATE by primary key, whatever version *)
(* the row has and archived or not.                                        *)

BridgeEdit(t) ==
    /\ ops < MaxOps
    /\ ops' = ops + 1
    /\ card' = [card EXCEPT ![t].version = @ + 1]
    /\ UNCHANGED <<age, hist, sess, sweep, overlap>>

-----------------------------------------------------------------------------
(* The timeout worker.  One pass loads every expired card in one SELECT,   *)
(* then releases them one by one.  A commit or rollback of the pass's      *)
(* session expires its loaded objects, so a later card is loaded again.    *)

Eligible(t) ==
    /\ card[t].status = "em_andamento"
    /\ ~card[t].archived
    /\ age[t] > Window

\* The leases run: an hour passes for every card that has one.
Tick ==
    /\ age' = [t \in Tasks |-> IF age[t] = NoActivity \/ age[t] > Window
                               THEN age[t] ELSE age[t] + 1]
    /\ UNCHANGED <<card, hist, sess, sweep, overlap, ops>>

SweepSelect(w) ==
    LET todo == {t \in Tasks : Eligible(t)}
    IN  /\ sweep[w].todo = {}
        /\ todo # {}
        /\ sweep' = [sweep EXCEPT ![w] =
                       [todo |-> todo,
                        snap |-> [t \in Tasks |-> IF t \in todo THEN card[t] ELSE NoRow]]]
        /\ UNCHANGED <<card, age, hist, sess, overlap, ops>>

\* The next card's object was expired: reading its attributes reloads the row.
SweepLoad(w, t) ==
    /\ t \in sweep[w].todo
    /\ \A u \in Tasks : sweep[w].snap[u] = NoRow
    /\ sweep' = [sweep EXCEPT ![w].snap[t] = card[t]]
    /\ UNCHANGED <<card, age, hist, sess, overlap, ops>>

\* release_task raises on an archived card; the pass goes on with the next.
SweepSkip(w, t) ==
    /\ t \in sweep[w].todo
    /\ sweep[w].snap[t] # NoRow
    /\ sweep[w].snap[t].archived
    /\ sweep' = [sweep EXCEPT ![w].todo = @ \ {t}, ![w].snap[t] = NoRow]
    /\ UNCHANGED <<card, age, hist, sess, overlap, ops>>

\* Mutant: any claim of the column is taken.
TimeoutWhereAnyVersion(w, t) == card[t].status = "em_andamento"

\* Mutant: the version the release would leave, not the one it found.
TimeoutWhereNextVersion(w, t) ==
    /\ card[t].version = sweep[w].snap[t].version + 1
    /\ card[t].status = "em_andamento"

\* release_task(expected_version = task.version)
TimeoutWhere(w, t) ==
    /\ card[t].version = sweep[w].snap[t].version
    /\ card[t].status = "em_andamento"

\* Mutant: the released card keeps its assignee.
ApplyTimeoutOwned(t) ==
    /\ card' = [card EXCEPT ![t].status = "tasks", ![t].version = @ + 1]
    /\ age' = [age EXCEPT ![t] = 0]
    /\ hist' = [hist EXCEPT ![t] = "tasks"]
    /\ UNCHANGED overlap

\* Mutant: the released card keeps its version.
ApplyTimeoutSameVersion(t) ==
    /\ card' = [card EXCEPT ![t].status = "tasks", ![t].assignee = NoActor]
    /\ age' = [age EXCEPT ![t] = 0]
    /\ hist' = [hist EXCEPT ![t] = "tasks"]
    /\ UNCHANGED overlap

ApplyTimeout(t) ==
    /\ card' = [card EXCEPT ![t].status = "tasks", ![t].assignee = NoActor,
                            ![t].version = @ + 1]
    /\ age' = [age EXCEPT ![t] = 0]
    /\ hist' = [hist EXCEPT ![t] = "tasks"]
    /\ UNCHANGED overlap

SweepRelease(w, t) ==
    /\ t \in sweep[w].todo
    /\ sweep[w].snap[t] # NoRow
    /\ ~sweep[w].snap[t].archived
    /\ IF TimeoutWhere(w, t) THEN ApplyTimeout(t) ELSE Refuse
    /\ sweep' = [sweep EXCEPT ![w] = [todo |-> @.todo \ {t},
                                      snap |-> [u \in Tasks |-> NoRow]]]
    /\ UNCHANGED <<sess, ops>>

-----------------------------------------------------------------------------
BeginSome(s) ==
    \E t \in Tasks :
       \/ \E a \in Actors : BeginClaim(s, t, a)
       \/ BeginRelease(s, t)
       \/ \E a \in Actors, e \in Shown(t), c \in Status : BeginUpdate(s, t, a, e, c)
       \/ \E c \in Status : BeginBridge(s, t, c)
       \/ \E e \in Shown(t) : BeginMetadata(s, t, e)
       \/ \E a \in Actors, e \in Shown(t) : BeginArchive(s, t, a, e)
       \/ \E e \in Shown(t) : BeginUnarchive(s, t, e)

CommitSome(s) ==
    \/ CommitClaim(s)    \/ CommitRelease(s)  \/ CommitUpdate(s) \/ CommitBridge(s)
    \/ CommitMetadata(s) \/ CommitArchive(s)  \/ CommitUnarchive(s)

SweepStep(w) ==
    \/ SweepSelect(w)
    \/ \E t \in Tasks : SweepLoad(w, t) \/ SweepSkip(w, t) \/ SweepRelease(w, t)

Next ==
    \/ \E s \in Sessions : BeginSome(s) \/ CommitSome(s)
    \/ \E t \in Tasks : BridgeEdit(t)
    \/ Tick
    \/ \E w \in Sweepers : SweepStep(w)

Spec == Init /\ [][Next]_vars

\* The worker's loop sleeps and sweeps again for as long as its replica runs.
LiveSpec == Spec /\ \A w \in Sweepers : WF_vars(SweepStep(w))

-----------------------------------------------------------------------------
(* Properties                                                              *)

TypeOK ==
    /\ card \in [Tasks -> Row]
    /\ age \in [Tasks -> NoActivity .. Window + 1]
    /\ hist \in [Tasks -> Status]
    /\ sess \in [Sessions -> Request \cup {Idle}]
    /\ sweep \in [Sweepers -> [todo : SUBSET Tasks,
                               snap : [Tasks -> Row \cup {NoRow}]]]
    /\ overlap \in [Tasks -> SUBSET {"claim", "release"}]
    /\ ops \in Nat

\* No manual release has been flushed over a row changed since it was loaded.
Versioned(t) == "release" \notin overlap[t]

\* A loaded row is older than the stored one or equal to it.
Current(snap, row) ==
    /\ snap.version <= row.version
    /\ snap.version = row.version => snap = row

(***************************************************************************)
(* Optimistic concurrency: as long as only versioned writes have raced on  *)
(* a card, a version identifies one state of its row, so that a WHERE      *)
(* version = :expected that matches means nothing changed since the load.  *)
(***************************************************************************)
VersionIdentifiesRow ==
    /\ \A s \in Sessions :
          sess[s] # Idle /\ Versioned(sess[s].task)
            => Current(sess[s].snap, card[sess[s].task])
    /\ \A w \in Sweepers, t \in Tasks :
          sweep[w].snap[t] # NoRow /\ Versioned(t) => Current(sweep[w].snap[t], card[t])

(***************************************************************************)
(* A card in the backlog has no assignee: whoever finds it there may claim *)
(* it (release_task clears the assignee together with the column).         *)
(***************************************************************************)
BacklogIsUnowned ==
    \A t \in Tasks :
       Versioned(t) /\ card[t].status = "tasks" => card[t].assignee = NoActor

(***************************************************************************)
(* The status history leads to the column the card is in, whatever writes  *)
(* raced, unless one of the two unversioned writes (a manual release or a  *)
(* renewal of one's own claim) landed on a row changed since its load.     *)
(***************************************************************************)
HistoryLeadsToColumn ==
    \A t \in Tasks : overlap[t] = {} => hist[t] = card[t].status

\* Session s commits a request of kind op in this step, and the row changes.
Commits(s, op) ==
    /\ sess[s] # Idle
    /\ sess[s].op = op
    /\ sess'[s] # sess[s]
    /\ card'[sess[s].task] # card[sess[s].task]

\* The moves an agent may make with update_task_status, written out.
AgentMoves ==
    {<<c, c>> : c \in Status} \cup
    {<<"em_andamento", "revisao_codigo">>, <<"revisao_codigo", "fase_teste">>,
     <<"fase_teste", "concluido">>, <<"concluido", "fase_teste">>,
     <<"concluido", "revisao_codigo">>, <<"fase_teste", "revisao_codigo">>}

(***************************************************************************)
(* The policy, checked on the row the handler loaded, still holds of the   *)
(* row its UPDATE reaches: an agent never moves a card another actor holds *)
(* by then, never takes one out of the backlog or into em_andamento, and   *)
(* never skips a column.                                                   *)
(***************************************************************************)
PolicyHoldsAtCommit ==
    [][\A s \in Sessions :
         LET t == sess[s].task
         IN  Commits(s, "update") /\ Versioned(t) =>
               /\ card[t].assignee \in {NoActor, sess[s].actor}
               /\ <<card[t].status, card'[t].status>> \in AgentMoves]_vars

(***************************************************************************)
(* Archiving never hides an active card that somebody else holds when the  *)
(* archive is written, though the guard looked at an earlier row.          *)
(***************************************************************************)
ArchiveSparesHeldCards ==
    [][\A s \in Sessions :
         LET t == sess[s].task
         IN  Commits(s, "archive") /\ Versioned(t)
               /\ card[t].status \in ActiveColumns
               => card[t].assignee \in {NoActor, sess[s].actor}]_vars

(***************************************************************************)
(* An archived card is out of the flow: as long as it stays archived no    *)
(* claim, status update, board move or timeout already in flight when it   *)
(* was archived changes its column or its assignee.                        *)
(***************************************************************************)
ArchivedIsFrozen ==
    [][\A t \in Tasks :
         /\ card[t].archived
         /\ card'[t].archived
         /\ Versioned(t)'
         => /\ card'[t].status = card[t].status
            /\ card'[t].assignee = card[t].assignee]_vars

\* Requests whose UPDATE is guarded by expected_version.
Conditionals == {"update", "bridge", "metadata", "archive", "unarchive"}

\* A request in flight on t that the stored version would still admit.
InFlightAdmitted(t) ==
    \E s \in Sessions :
       /\ sess[s] # Idle
       /\ sess[s].task = t
       /\ sess[s].op \in Conditionals
       /\ VersionMatches(sess[s])

(***************************************************************************)
(* The first writer wins: a write that gives a card a new version makes    *)
(* every conditional write in flight on it fail, so no two of them apply   *)
(* on top of the same state.  This step included, cards on which a manual  *)
(* release has raced are excepted: it writes the version after the one it  *)
(* loaded, which may be the one the card has, and then a conditional write *)
(* in flight still applies, whatever the docstring of release_task says.   *)
(***************************************************************************)
WriteInvalidatesInFlight ==
    [][\A t \in Tasks :
         card'[t] # card[t] /\ Versioned(t)' => ~InFlightAdmitted(t)']_vars

(***************************************************************************)
(* A timeout takes a card only in the state the pass loaded it in, so that *)
(* of several replicas only one releases a given claim and a claim made    *)
(* after the load is never taken.                                          *)
(***************************************************************************)
TimeoutTakesWhatItLoaded ==
    [][\A w \in Sweepers, t \in Tasks :
         /\ t \in sweep[w].todo
         /\ t \notin sweep'[w].todo
         /\ card'[t] # card[t]
         /\ Versioned(t)
         => card[t] = sweep[w].snap[t]]_vars

(***************************************************************************)
(* A card abandoned in em_andamento does not stay there: once its lease    *)
(* has run out it is released, renewed or moved.                           *)
(***************************************************************************)
ExpiredLeaseEnds == \A t \in Tasks : Eligible(t) ~> ~Eligible(t)

\* A card outside the backlog is held by its assignee; one in the backlog is
\* anybody's to claim.
Holder == [t \in Tasks |->
             IF card[t].status = "tasks" THEN NoActor ELSE card[t].assignee]

Lease == INSTANCE CardLease WITH holder <- Holder

(***************************************************************************)
(* Exclusivity of the claim: no interleaving, not even with the            *)
(* unversioned writes, hands a held card from one actor to another.        *)
(***************************************************************************)
ExclusiveLease == Lease!Spec

-----------------------------------------------------------------------------
(* What the documentation says and the code does not do                    *)

(***************************************************************************)
(* spec_task_timeout_worker: a card is released when its last activity is  *)
(* older than the limit.                                                   *)
(***************************************************************************)
TimeoutOnlyWhenExpired ==
    [][\A w \in Sweepers, t \in Tasks :
         /\ t \in sweep[w].todo
         /\ t \notin sweep'[w].todo
         /\ card'[t] # card[t]
         => age[t] > Window]_vars
=============================================================================
