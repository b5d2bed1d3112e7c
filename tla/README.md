# ShareMem: a TLA+ model of the shared memory server and its boards

This directory holds TLA+ specifications of the repository's two servers (the
memory server in `src/openmemory/api/app` and the PLANKA server in
`src/integrations/planka/server`), TLC configurations that model-check them on
small instances, and proofs checked by TLAPS. Paths below that begin with
`utils/`, `workers/`, `governance/`, `routers/`, `middleware/` or end in `.py`
are relative to the former, those in `api/` or ending in `.js` to the latter,
others to `src/`. Every definition is a translation of code; `PROJECT.json`
names the lines behind each of them.

## 1. The system

ShareMem lets many agents of a team share memories, specification documents and
Kanban cards. Its processes work on one PostgreSQL database, one vector store
(Qdrant) and optionally Redis:

* **API replicas** (`main.py`, `mcp_server.py`, `routers/`): REST and MCP
  requests. Each also runs a card timeout worker, a workspace archive worker
  and a stall watchdog (`main.py:222-250`). Production deploys four.
* **Write workers** (`workers/write_worker.py`): consumers of the write queue.
  Production deploys eight.
* **One governance worker** (`workers/governance_worker.py`): deduplication,
  consolidation, pruning, merges of projects. There are also a **migration
  worker** (`workers/migration_worker.py`) and a backup worker.
* **The PLANKA server** (`src/integrations/planka/server`, Node.js, Sails): a
  Kanban server kept in the repository and changed there, so that its boards
  show the task cards of the memory server. It has a schema of its own in the
  same PostgreSQL, without foreign keys, and speaks with the memory server over
  HTTP in both directions. Each request is a chain of awaited statements.
* **Browsers**: the PLANKA client (`src/integrations/planka/client`), an
  optimistic store fed by answers and socket events, and the OpenMemory web
  interface (`src/openmemory/ui`).

They share no memory. What they have in common are rows and points, and the
hard behaviour is in what happens to them between the read on which a handler
decides and the write by which it acts.

### Components

| Component | State | Operations | What is hard | Correct when |
|---|---|---|---|---|
| **Card lock**: `utils/task_lock.py`, `utils/kanban_pipeline.py`, `utils/planka_bridge.py`, `workers/spec_task_timeout_worker.py` | column, assignee, version, archive mark, last activity, history | claim, release, update, metadata, archive, unarchive, board move, timeout | concurrent requests judged on stale rows; two kinds of write, versioned and not; several replicas sweep | a claim is exclusive, policy holds of the row written, leases end |
| **Write queue**: `utils/write_queue*.py`, `workers/write_worker.py` | job status, attempts, heartbeat | enqueue, claim, finish, fail, requeue, three recoveries, watchdog, admin | UPDATEs by key over rows changed meanwhile; threads that cannot be cancelled; crashes | each job is owned once, `done` means stored, failures stand, every job settles |
| **Project merge**: `governance/project_merge.py`, `governance/merge_proposals.py` | proposals, catalog, names in rows and in payloads | record, approve, reject, apply, rename, compensate | a transaction around calls that cannot be rolled back; ambiguous commits | rows and payloads name the same project; final decisions stand |
| **Blue-green migration**: `utils/migration_control.py`, `workers/migration_worker.py`, `utils/partitioning.py`, `workers/write_worker.py` | status, checkpoint, two collections, routing snapshot per process | start, copy, mirror, validate, flip, roll back | batches repeated after a restart; cached routes; parity by counting | the target follows the source; a flip leaves nothing behind |
| **PLANKA server, rows**: `api/controllers`, `api/helpers/*/{create,delete}-*.js` | some thirty tables | create and delete projects, boards, lists, cards, memberships, ... | cascades of single statements in place of foreign keys, other requests between them | nothing is lost that was not asked to go, nothing is left that belongs to what has gone |
| **PLANKA server, cards and lists**: `api/helpers/{cards,lists}/*.js`, `api/helpers/utils/insert-to-positionables.js`, `api/hooks/query-methods/models/*.js` | list, board, position, closed, labels, members, tasks | place, sort, move, copy, archive, close | positions computed from siblings read earlier; a move is several statements; records loaded at the start | siblings apart and in order; columns of a card agree with its list and board |
| **PLANKA mirror and bridge**: `utils/planka*.py`, `utils/planka_bridge.py`, `api/helpers/mem0/*.js`, `api/controllers/cards/update.js` | a task and its card, in two databases | push, tell, take back, resync | two systems without a common transaction, telling each other of each other's writes | list, text and member agree once they are at rest, and no card is astray |
| **Workspace lifecycle**: `utils/workspace_lifecycle.py`, `workers/spec_workspace_archive_worker.py` | status of a workspace, its cards | complete, reopen, archive | completion judged from a query over other rows; stale selections | no open card in a completed or archived workspace |
| **Spec documents**: `utils/spec_versioning.py`, `utils/spec_side_effects.py` | versions, index, mirror | write, index, mirror | one thread per write, finishing in any order | the index ends with the last version |
| **Governance queue and scheduler**: `utils/governance_queue.py`, `workers/governance_worker.py`, `utils/governance_schedule.py` | jobs, last run per scope | enqueue, claim, recover, schedule | schedule recorded after the job is committed; recovery by age | a due job is enqueued once per period |
| **Read path and cache**: `utils/read_cache.py`, `utils/memory.py`, `utils/reranking.py` | cached searches | fill, invalidate | a fill computed before a write and stored after its invalidation | staleness bounded by the TTL |
| **Rate limit and authentication**: `middleware/` | window counters | count, fall back without Redis | the boundary of the window | no more than the limit per window |
| **Machine linking and identity**: `utils/machine_resolver.py`, `utils/creator_identity.py` | machines, people | claim, link, merge | concurrent claims of one machine | one owner per machine |
| **PLANKA client**: `src/integrations/planka/client/src/{models,sagas}` | a store of every record seen | optimistic writes, answers, events | answers and events in any order | the store converges to the server |
| **PLANKA uploaded files**: `api/hooks/query-methods/models/UploadedFile.js` | reference counts | attach, detach | counts changed apart from the rows that hold them | no file is lost while referenced |
| **Supersedes, deduplication, governance jobs, project deletion, backup, SDK, web interface, vendored servers** | vector store, files | | scores and files rather than protocols | |

The first seven are modelled: they carry the daily work and have the most
interleavings.

### How the components meet

A claim of a card is `Begin` (load, guards) and `Commit` (conditional UPDATE) in
one request; the timeout worker releases through the same `release_task`, with
an expected version. What the card lock commits is mirrored to a PLANKA card by
HTTP calls after the commit; what a person does in PLANKA is written there
first and told to the memory server afterwards, which may refuse it; the move
it was told of it mirrors back before it answers. A memory write enqueues a
row; a write worker claims it, calls the SDK and mirrors what was added to the
target of a migration; the watchdog of an API replica fails rows when no worker
reports. An approved merge becomes a governance job whose handler updates rows
that the write queue and the card store also name.

`KanbanMirror` is the composition of the two servers around one task and its
card, with the card lock reduced to what the mirror can see of it. `BoardMoves`
and `Placements` take up what `BoardRequests` leaves out of cards and lists, and
leave to it rights and cascades. The other modules share no variables: each
describes one component and what the others do to its rows.

## 2. Modules

| Module | Role |
|---|---|
| `CardLease` | what a card lock promises: a holder changes only through nobody |
| `TaskLock` | the card lock as coded, implementing `CardLease` (`ExclusiveLease`) |
| `TaskLockProofs` | its theorems |
| `WriteQueue` | the write queue, its workers, watchdog and administrator |
| `WriteQueueProofs` | its theorems |
| `ProjectMerge` | proposals, merges, renames, compensation |
| `ProjectMergeProofs` | its theorems |
| `Migration` | the blue-green migration: copy, mirror, snapshots, flip |
| `MigrationProofs` | its theorems |
| `BoardRecords` | PLANKA's tables, statements and cascades |
| `BoardRequests` | the 44 requests that create and delete rows, over `BoardRecords` |
| `BoardRequestsProofs` | its theorems |
| `Positions` | where a record goes among its siblings, a pure algorithm |
| `Placements` | the requests that place and sort records, over `Positions` |
| `PlacementsProofs` | theorems about both |
| `BoardMoves` | cards and lists that move, are copied, archived and closed |
| `BoardMovesProofs` | its theorems |
| `KanbanMirror` | a task and its PLANKA card, written on both sides |
| `KanbanMirrorProofs` | its theorems |
| `MC...` | constants for TLC, one module for each of the specifications |

Operators marked `Mutant:` in the modules are wrong variants of the operator
that follows them, each a plausible bug; none is used by a specification. For
each checked property one variant is known to violate it, so that no property
holds for want of a way to fail.

`TaskLock` and `WriteQueue` have a `TypeOK` that is checked and proved; those of
`ProjectMerge` (`TypeOK`), `Migration` (`Types`), `BoardMoves`, `KanbanMirror`,
`Placements` (`TypeOK`) and `BoardRequests` (`Shape`) are stated and proved in
their proof modules.

### TaskLock

`card` is the table `task_cards`, `age` the hours since `last_activity_at`,
`hist` the last history row, `sess` the requests in flight with the row each
has loaded, `sweep` the progress of each timeout worker, and `overlap` a history
variable: which of the two writes without a version (manual release; renewal of
one's own claim) landed on a row changed since its load.

Each handler is two steps. `Begin*` is the load and every guard evaluated on
the loaded row; `Commit*` is the WHERE clause on the row as it is by then, with
all that follows it up to the commit. `CommitRelease` follows the ORM, which
writes only attributes whose value differs from the loaded one. The sweep loads
all expired cards in one SELECT, but each commit expires the loaded objects, so
that later cards are read again (`SweepLoad`) with whatever version they have
by then.

`BridgeEdit` is an edit that PLANKA tells
(`apply_planka_card_update`): an UPDATE by primary key that raises the version
and asks for none. It races with every conditional write.

Not in the model: payload, the blocked marker (no guard reads it), audit rows,
the outbound board mirror (see `KanbanMirror`), the reconciliation of the
workspace that follows a status change, and the deletion of a card.

### WriteQueue

`row` is the table `write_queue`; `pc`, `held` and `txn` are the phase of each
process, the job it processes and its open ORM transaction. Except for the
claim (`FOR UPDATE SKIP LOCKED`, one step) each transition is `Load` and
`Flush`, and `Flush` writes by primary key the attributes that changed
(`Merge`), whatever the row says by then. `zombie` holds the `add()` threads
that outlive a job timeout; `stored` and `torn` are history variables: jobs
whose memories are in the store, and jobs whose row was flushed over a newer
one or under a worker that went on.

Assumed: the default configuration on PostgreSQL, one job at a time per worker;
the job timeout of 30 minutes below the 35 and 45 minutes after which a
processing row is stale, and a worker's event loop that is never wedged (so a
row held by a live worker is never taken for stale). All other ages are
nondeterministic. Not modelled: SQLite, larger batches, what follows the add.

### ProjectMerge

`refs` and `point` are the two places that name a memory's project, `catalog`
the table of projects, `prop` the proposals, `job` the governance jobs, `run`
one record per call of `apply_project_merge`: its phase, the names it has locked,
the rows its transaction will change, the page of points being moved and
`moved_log`. `LockName` takes the advisory locks of a run one after
another, in the order of the names (`Rank`; `lock_projects` sorts them), while
other runs take theirs; a job in `locking` or `moving` holds the row of its
proposal. A rename is a run without a proposal. A move that fails may have been
applied by the store (`MoveUnanswered`; the HTTP call raises before the point is
logged), and so may a compensation that fails. `left` is a history variable with
the reasons why a point may be astray: a crash, a compensation that failed, a
commit that could not be verified, a rename that was misjudged, a compensation
that another merge crossed, and a move whose answer was lost. Those that the code
reports and leaves to the operator (runbook
`openmemory/docs/runbooks/project-merge.md`) are the first three; the last
nothing reports.

Assumed: a lost commit is decided before the verification reads, a move whose
answer is lost before the compensation begins; one governance
worker, as deployed, so that its recovery at startup only finds its own jobs.
`WorkerCrash` combines the crash with that recovery: nobody else reads a job's
status. A crash is also when the transaction is rolled back. Not modelled: the
detection of groups, protected names, dedicated partitions.

### Migration

`mig` is the row of `migration_state`, `store` the collections with a version
of every memory, `snap` the routing snapshot of each process, `work` what a
write worker has still to mirror, `copier` the migration worker with the batch
and the row it has loaded, `count` the flip under way in each replica. Two
history variables say where the code promises nothing: `astray`, the points for
which source and target may differ (written without a mirror, written by two at
once, mirror lost, or there before the copy began), and `crossed`, the flips
during whose counting something was written or started. A point leaves `astray`
when it is copied or mirrored again as it is in the source.

The copy is `CopyReads` (row and scroll), `CopyUpserts`, `CopyCommits` (of the
columns that changed, over whatever the row says by then); `CopyStops` is a
failure or a restart anywhere between. A write worker adds to the active
collection of *its* snapshot (`WorkerAdds`), reads the point back
(`MirrorRetrieves`) and writes it to the target (`MirrorArrives`). A flip is
`CountSource`, `CountTarget`, `Flips`. Rows and snapshots are never in step:
only the replica that serves the administrator drops its own (`Forgets`).

Taken together: loading the migration row and scrolling; the requests in flight
of the flipping replica count as those of another. Between two batches the
worker is `Off`, having kept nothing. Not modelled: dedicated partitions and the
promotion of a project to one.

### BoardRecords and BoardRequests

`rows` and `dead` are the rows in and gone from the database, `ref` their
columns, `agenda[p]` the statements the request on connection `p` has still to
run. An operator of `BoardRecords` for each helper of `api/helpers` gives its
statements in the code's order (`Related` is the recursion of the
`delete-related` helpers, written as tables); an action of `BoardRequests` for
each controller evaluates its guards and queues them; `Statement` runs the next one.
Statements that depend on what an earlier one read (members revoked, a list's
cards rehomed, heirs of a project) put the statements that follow on the agenda
when they run. `targets` are rows a request was asked to delete and `strayed`
rows written when what they refer to was gone or going; both are history.

`Owning` names the columns that take their row along, `Pointing` those that are
set to null, `Forgotten` those no helper looks after: `boards/delete-related`
does not delete `BoardSubscription` and board-level `CustomFieldGroup` with
fields and values; `cards/delete-related` not `Notification` and values of
board-level groups; `users/delete-related` neither `BoardSubscription` nor the
creator of a board; `prevListId` of other cards dangles. `References` lists all
columns of the schema by itself, and `OwnersLive` is about each of them that is
not forgotten, so that a helper that forgets one more breaks it. An heir's projects are adopted by a read
(`ReadLonely`) and an insert for each (`AdoptProject`). Not modelled: creation
of users, actions and notifications beyond the first row, counters, webhooks,
broadcasts, and a crash in the midst of a cascade, after which nothing resumes.

### Positions and Placements

`Positions` is `insertToPositionables` as functions on sequences: `Break` is
where the loop that pushes siblings up stops, `Repositions` what it assigns,
`FullRepositions` the renumbering when there is no room. `LandsBetween` states
what it is for. A sequence is read by sets of its indices and the rank of an
index in them (`Nth`, `Popped`), where the code pushes and pops: the map from old
positions to new ones has several entries where siblings tie, which come off from
the right. `Placements` has the ten kinds of ordered records, one action
per helper that places one. Each request reads the siblings (`ReadSiblings`),
writes those that move one by one (`MoveSibling`, whose criterion is the id
*and* the parent), then itself (`Land`). `loose` and `shuffled` are history:
parents in which placements overlapped, and those that were sorted.

The code's positions are doubles and it halves distances; here they are integers
and halving rounds down, with gaps chosen so that both cases of each comparison
occur.

### BoardMoves

Two boards; `list`, `card`, `task`, `label`, `tags`, `people` are tables, `plan`
the request on each connection with the records it loaded at its start and the
statements left. Moving a card or a list across boards is, in the code's order:
labels read by name, subscriptions and memberships removed, assignees cleared,
the row written, labels found or made on the new board, tags exchanged, linked
tasks completed. One label is made for each that is missing, so two of a name
give two. A card that moves is tagged label by label; when its list moves, the
tags of all its cards are one `createEach`, and two labels of a card that meet
in one of the new board (there may be several of a name, or none) make the
database refuse them all, after the old ones are gone. `odd` is a history
variable naming cards written from records another request had changed since
("stale"; so is the copy of such a card, and a card that two requests carry to
another board at once), given a null position by the client ("null"), copied
("copy"), or in a batch that was refused ("refused"). The rows at the start are
constants; what is assumed of them (`RowsAssumption`, `StartAssumption`) is what
the properties say of every state in which no request runs. Not modelled: custom
fields of cards that change boards, actions, webhooks, attachments of copies;
memberships of boards are constant (in `BoardRequests` they change).

### KanbanMirror

`task` is the row of the memory server, `card` PLANKA's rows, `link` the id map;
`human` the PLANKA request of each person (`controllers/cards/update.js`, step
by step: write, tell what was written, tell the move, take back), `tell` the
message in flight, `spec` the handlers in the memory server, of a person's move
and of an agent's call alike, with the mirror call by call. Every operation of
`TaskLock` is here as what it commits. A mirror loads the row when it starts and
sends what it has loaded.

`settled` is a history variable: the columns in which the two sides are to
agree once nothing runs. A column leaves it when requests overlap or a message
is lost, times out or is cut off by a restart, or when a person changes something
PLANKA does not tell (`HumanShifts`: the members of a card; lists that are
emptied, moved or deleted), and enters it when a mirror of it
has run by itself (`alone`). So `MirrorAgrees` speaks of every request, refusal
and undoing on its own, and of every resync after any history. "card" stays in
`settled` through faults, so that `CardsAccountedFor` can count what they leave.

Positions are not among the columns. PLANKA stores the place it finds among the
siblings (the subject of `Positions`) and tells nobody; the Spec API keeps the
one it sent: a second card sent to 65536 is stored at 81920. They differ after
any request, and no document says that they agree. A position is here only
something a request tells.

Three statuses stand for five. Not modelled: import of cards created in PLANKA,
creation of boards and lists, documents, comments, checklists, the life cycle of
projects, a PATCH that is carried out after its caller has given up, and the
second mirror some REST routes call.

## 3. Runs

| Run | Question | Shows |
|---|---|---|
| `TaskLockRequests` | one card, two requests in flight (four in all), one timeout worker | versions identify rows, backlog unowned, history leads to the column, policy holds at the commit, archived cards frozen, a write invalidates those in flight (each but for raced manual releases), and the lock implements `CardLease` |
| `TaskLockTimeout` | two cards, one request, two timeout workers, fair | a timeout takes only what it loaded; expired leases end |
| `TaskLockTimeoutExpired` | (violation) sweep of two cards | a claim renewed during the pass is released |
| `WriteQueueFleet` | two workers, watchdog and administrator on one job | outside torn rows one owner and failures that stand; bounded attempts; done means stored |
| `WriteQueueSolo` | one worker, two jobs, two faults, fair | no row is ever torn; every job settles |
| `ProjectMergePair` | two proposals, three names, one fault | stores agree but where a recorded reason says otherwise, locks are never waited for in a circle, completed merges leave nothing, decisions stand, commits judged rightly |
| `ProjectMergeRename` | one job and a rename, two faults, fair | stores agree likewise, jobs end |
| `MigrationWindow` | two memories in two batches, two write workers, a replica | the target follows the source; flips that nothing crossed leave nothing behind |
| `BoardRequestsPair` | any two of 44 requests, a row in every table | cascades take nothing but what belongs to what went, and all of it in the columns they look after, but for rows written into a deletion |
| `PlacementsPair` | two placements among three siblings packed tightly, ten tables | room is made without reordering, and for whoever asks |
| `BoardMovesPair` | two moves, copies or deletions on two boards | cards fit their list and board, labels travel all or none, linked tasks follow |
| `KanbanMirrorPair` | a person and an agent on one task, three requests, two faults | what runs by itself leaves list, text and member alike; a resync repairs the rest; one stray card per fault |

### Bounds

**TaskLock.** Two requests in flight are enough for a guard to be stale, four
requests enough for a third to have changed the row and changed it back;
versions are compared for equality, so longer histories differ in numbers only.
Two cards are needed for a pass that releases one and then reads the other.
`TimeoutHours = 1` with ages -1 (never touched) to 2 has every case of the
comparison.

**WriteQueue.** One job with two workers has all races on a row; two jobs with
one worker have the order of the queue. `MaxAttempts = 2` has the first, the
last and one too many. `MaxUpsets` counts crashes, lost writes and interventions
together: the fleet runs with one of them, since the interleavings of the
processes already provide the rest, and the single worker with two, so that a
fault can hit the recovery from the first.

**ProjectMerge.** Three names are the fewest with which one merge can take
points on from another, and two points the fewest with which a merge can be half
done. Two jobs can overlap each other's retries with one fault; one job and a
rename run with two, so that the compensation or the verification after a fault
can fail as well. Once all approvals of the bound are used and every job has
ended nothing is left to do, so the deadlock check is off; the same holds of all
modules below, whose requests are numbered.

**Migration.** Two points and batches of one put every write before, at or
behind the checkpoint. `MaxEvents` is two: two writes, or a write and a fault (a
migration started anew counts as a fault, it may be repeated only as such). The
constraint `Planned` starts from a first migration that leaves the configured
collection with both memories in it, since what was written before it is part of
the initial states. A snapshot is loaded only while there is room for a write
that would use it.

**BoardRequests.** Two requests interleaved statement by statement, or one
after the other.
Every table has a row in use and one to insert; a request that
would insert into a table without a spare row waits for one, so never more than
two rows of a table come into being. `ServiceLimit` is 2 for the code's 5.

**Placements.** `Gap`, `MinGap`, `MaxPosition` are 8, 2, 48 for 2^14, 1/8,
2^50: three siblings MinGap apart at either end of the range, so that pushing up
goes on for zero to three records, meets halfway, or runs out of room. Inputs
are 0, between, upon and beyond the siblings.

**BoardMoves.** Two boards, one user a member of the first only; an active, a
closed, an archive and a trash list; a card with everything and an archived card
another card's task links to; seven labels, two of one name on a card and room
to make as many on the other board, so that a batch is refused in some moves and
not in others.

**KanbanMirror.** One person and one caller, two ids of cards, two texts, three
requests (three are enough for a fault, what overlaps with it, and the resync
after both) and two faults. `Promising` cuts off behaviours in which nothing is
settled any more and no call is left to settle it: there both properties say
nothing.

Symmetry is declared only in runs without liveness.

### Fairness

`TaskLock!LiveSpec`: weak fairness of each timeout worker, whose loop sleeps and
sweeps for as long as its replica runs. No fairness of requests: clients may
stop anywhere.
`WriteQueue!LiveSpec`: weak fairness of a worker's main loop, including its
start, which the compose files promise (`restart: unless-stopped`; on the swarm
`restart_policy`), and strong fairness of the side task, which asyncio runs at
the next await of the main one although its work comes and goes.
`ProjectMerge!LiveSpec`: weak fairness of each job, which the worker polls for
and its threads carry on, and of a rename that has begun.
The board, mirror and migration modules assume none: their properties are about
states at rest and about steps.

## 4. Proofs

All proofs are for any value of the constants, under the assumptions named in
the modules (`TaskLockAssumption`, `WriteQueueAssumption`,
`ProjectMergeAssumption`, `MigrationAssumption`, `MirrorAssumption`,
`BoardAssumption`, `PlacementAssumption`), which say only that bounds are
numbers, that null values are not members, and that kinds of processes differ.
`RowsAssumption` and `StartAssumption` of `BoardMoves` and `StartAssumption` of
`Placements` say that rows are in order at the start; `GapAssumption` of
`Positions` that the least gap is at most half of the other (1/8 and 2^14 in the
code), and `PlacementAssumption` that all records fit below `MaxPosition` at full
gaps, 2^36 of them with the code's numbers;
`RowAssumption` of `BoardRecords` that the tables are those of the migration and
share no row, and its `StartAssumption` that the rows at the start are such as the
operations leave: they refer to rows of the right table, in not-null columns to
rows that are there, records a controller loads together agree on the board, card or
project they are in, no user is twice a member of a board, and users of a card and
assignees of its tasks are members of its board. A database with no rows but the
administrator satisfies it.
One theorem has a hypothesis of its own (`MovesApart`, below).

**TaskLock.** The inductive invariant joins `TypeOK`, `VersionIdentifiesRow`
and what it needs: as long as no manual release raced on a card, a loaded row
with the stored version *is* the stored row, versions never decrease, and a
request in flight remembers of the loaded row what its guards admit. From it
follow `BacklogIsUnowned`, `HistoryLeadsToColumn`, the action properties
`PolicyHoldsAtCommit`, `WriteInvalidatesInFlight`, `ArchiveSparesHeldCards`,
`ArchivedIsFrozen` and `TimeoutTakesWhatItLoaded`, each of them with raced
manual releases excepted as the formula says, and the refinement
`LeaseImplemented`: every step of the card lock is a step of `CardLease` or a
stutter. The refinement needs no assumption on versions, since the claim's own
WHERE clause carries it.

**WriteQueue.** `TypeOK` is strengthened by `AllEngaged` (who is inside a job
knows which, and where it is going when its transaction ends). `Owner` follows
by itself on top: a torn-free row of a held job is what its worker believes,
and any `Load` by another process that could change it would tear it.
`Persistence` (done means stored) needs the companion that a pending `done`
belongs to a job already stored. `Ceiling` and `Failure` need that rows and the
transactions loaded from them never carry more than the attempts allowed.
`Owner` and `Failure` are about rows that are not torn; what happens to torn ones
is under Findings.
`LoneWorkerTearsNothing` assumes a single worker and no API process (`Alone`):
the rows it has loaded are as they were, and the job it holds is among them only
if it is about to let go of it (`Calm`).

**ProjectMerge.** Three layers. `Core` is `TypeOK` with the shape of a run: its
canonical name is none of its aliases, and its log and its page name aliases.
`Held` says that a job which holds the row of a proposal found it approved or
failed and holds it alone, so that nobody can decide on it until the transaction
ends (`DecisionStands`), and `Verdict` that a commit whose answer was lost can
be read off the proposal (`CommitJudgedRightly`). `Data` has the argument for
`StoresAgree`: merges at work share no name (`Apart`), a merge that shares a
name with one being undone has marked the points of that one (`Marked`), a moved
point is at the canonical name of the one run that has logged it while its rows
are at the logged name (`Placed`), and a scrolled one is at its rows and nobody
else's (`Backed`). `AppliedLeavesNoPoint` follows from `Swept`: an alias that
has been scrolled has no points but those on the page. The steps are grouped by
what they do to a run (it leaves its merge, its transaction ends without or with
a commit, it takes a point on or puts one back), and each action is shown to be
of one of these kinds. A move that is applied and not answered marks its point
as astray, and one that a failing compensation has put back is still marked.
`LocksNeverCircle` proves `NoWaitCycle`: of the names the runs of a circle wait
for take the highest. Who holds it waits for a name in turn, and waits for one
above all it holds (`Climbs`). The number of projects, memories, proposals, jobs
and renames is arbitrary.

**Migration.** `TargetFollowsSource` speaks of a finished copy; `Follows`, the
invariant behind it, of every point at any time. A point that is not astray is
safe: whoever holds it will write what the source has by now, and it is either
in the target as in the source, or held, or still ahead of the copy, where
"ahead" reads the checkpoint of the row, or of the loaded row while a batch is
under way (the batch itself may hold it). Its parts are one lemma per action.
`FlipServesSource` needs `FlipInv`: counts that nothing crossed still hold of
the collections they were taken of. Processes, memories, the size of a batch,
writes and faults are arbitrary.

**KanbanMirror.** `MirrorAgrees` speaks of states at rest, and the invariant
behind it of the one caller that runs alone (`Lone`), if one does: where it is in
its request (`HumanAlone`, `MoveAlone`, `ToSend` and the like: one predicate for
each step that can be next) determines in which columns task and card agree
already, which the steps to come will bring together, and what the request
remembers of the row in case it must take it back. Every column in `settled`
belongs to those. A step of the caller itself moves from one of these predicates
to the next; a step that begins beside it, or a fault, takes columns out of
`settled` and leaves nothing to show; and a resync puts them back whatever went
before. `CardsAccountedFor` counts: `CInv` says of a handler that creates or
drops a card in whose hands the id is, so that a stray card comes into being only
with a fault, one at a time, while no two requests have overlapped. The linked
card of an archived task is no stray for it (see Findings). The hypothesis `MovesApart` says that no edit
holds both a list and a text. The PLANKA client sends its moves apart
(`src/integrations/planka/client/src/sagas/core/services/cards.js:355-376`).
Without it the theorem is false of the code: when such a move is refused the name
stays (see Findings).

**BoardMoves.** The properties are about states at rest, the invariants about
every state. `Base` has types, what a request knows of the rows it loaded
(`Coherent`, `Labelled`: those rows are never deleted in this module, so what is
loaded remains comparable) and that rows refer to rows that are there. On top of
it `Fits` and `Followed` hold of every card that is not stale after every
statement, since the columns are written together. `Clean` does not survive the
first statement of a move to another board by itself: `Stripped` says that what
the request has taken off its cards so far stays off until it writes them, which
is so only because one request at a time carries a card that is not stale, and
because whoever else puts a label or a member on it is seen by the comparison
that makes it stale. `Travelling` follows the names: they are on the card or in
the hands of the request, or they are lost with all others of a batch that was
refused. The theorems are qualified as the formulas are: cards at rest, and none
that two requests carried at a time. For each statement one lemma (`...Effect`)
says what it does to rows and plan; the four invariants use only these.

The proof attempt corrected the model: a request that copied a card gone stale
gave the copy no mark of it, and with three requests at once (the run has two)
such a copy was in a list of another board than its own while `CardFitsList`
claimed to speak of it. A copy now inherits the mark, as the code's copy inherits
the columns.

**BoardRequests.** A cascade reads as a tree and runs as a list of statements
with those of others in between, so the invariant is about the statements still
to run. `Just` gives the reason of each: what it deletes has an owner that was
asked to go or is gone, or came with a membership asked to go; the cards it takes
are in lists that are emptied; what it writes is one of the columns that change
at all (`Loose`). Reasons refer to rows asked for and rows gone, of which there
are only ever more, and to columns that stay, so a reason once given holds
whatever runs in between (`JustKept`). For `LossesAccounted` each row gone keeps
its reason too (`Lost`, `LostKept`), and `CardsSurviveLists` is the reason of the
statement that takes the card. `Fresh` keeps the rows of inserts under way apart
and new, so that no row comes back with other columns. One lemma for each
controller says that its helper's agenda has its reasons, one for each kind of
statement that it leaves all others theirs.

That nothing is left behind needs the agendas to be complete and not only
justified. `OwnersLive` and `MembersOnBoard` speak of states where no request is
under way, of the columns helpers look after and of rows that were not written
into a deletion, so
the invariant `Whole` has to say of the states between what makes them true in
the end:

- `Orphans`, `Stranded`, `Strangers`: a row whose owner is gone, a card whose list
  is gone, and a user of a card who is no member of its board are taken, now or by
  way of their list, by a statement still to run; and its agenda is `Firm`: no
  check, no read of a trash list that may be gone, and no insert that may hit a
  unique key stands before the end of it, so nothing keeps the statement from
  running.
- `Departures`: when the removal of a row is on an agenda, whatever refers to that
  row is seen to by a statement of the *same* agenda (`Cleared`). Since statements
  leave an agenda from the front and the removal is last (`Lines`, with `Due` for
  what each kind of statement may count on behind it), what refers to the row at
  its removal was written in the meantime, by a request that found it going:
  `strayed`, which the properties except.
- `Order` is what these rest on. `Ties`: each row is `Sound`, it agrees with the
  rows it refers to on the board, the card and the project. `Fits`: what a request
  has read and goes on using is still so when it is used (the trash list a retiring
  list's cards are to go to, the lists of a board that goes). `Together`: who takes
  the cards of a list that is being retired also takes those of its trash list, so
  a card moved from one to the other in the midst of it does not escape.
  `Pictures`, `Single` and `Rooted` say the same of covers and backgrounds, of
  memberships, and of rows written too late.

Two clauses of `Saved` are for rows that nobody's statement names: a label of a
card goes with the card when its board goes, not with the label; and the value
of a field of a base group goes with the group on the card that the base brings
down. The invariant was run in TLC on random behaviours before it was proved.
There is one lemma per kind of statement (`...Whole`), which `Step`, `Obeys` and
`Goes` reduce to what that statement changes, and one per controller. At rest
all agendas are empty, so nothing is `Taken` or `Doomed` (`RestIs`), and the two
properties are what remains of `Orphans`, `Stranded` and `Strangers`:
`OwnersStay` and `MembersStay`. A database started without `StartAssumption`,
with a label of another board on a card, say, keeps rows whose owners are gone;
the proof is where that precondition came from.

**Positions and Placements.** `Insertion` says of any siblings in order, any
number of them and any input, that the record lands between those it was put
between, that none is reordered, and that those that were `MinGap` apart stay so.
The first step is to see the insertion as one row: the siblings with the record
among them, of which a part is pushed up (`PushedUp`), or all of which are
numbered anew (`Renumbered`); in either case the row afterwards is spread
(`Spread`). The second is that the entries of the map find the siblings they are
meant for although it is keyed by the old position, which siblings share: what
comes off under a position goes to those that have it from the right, and the
record takes the last of its own (`SeatedIs`, `TakenIs`, `Aligned`). No lemma
needs induction: the distance along a stretch that is pushed up is a product
(`Reach`, `Times`), and the place of an index a cardinality (`Ranks`, `NthOf`).
`RoomForOneMore` (`InsertionsLand`) is `Insertion` at any state of `Placements`.

`SiblingsInOrder` speaks of states at rest; `Room` says of all others what a
request that has read its siblings still owes them. `Future` is where a sibling
is when the request has written all it is to write, and `Promised` that in the
future of a request that alone has siblings to write they are apart and, if no
request was about them, in order, and that the request's own position is apart
from them. Records of other requests that are about to land there (`Newcomers`)
are left out of it, since whichever of them lands first marks the parent.
`TargetRest` says that a write changes no future, since no sibling is written
twice (`Distinct`), and `Undisturbed` that a step elsewhere breaks no promise.

The proof changed the module: its starting states were any of `Starts`, for which
the property fails in the first state; `StartAssumption` now says what the run's
states satisfy. An update may also ask for no position
(`src/integrations/planka/server/api/controllers/cards/update.js:165`), which
the module left out.

Left to TLC: everything under fairness (`ExpiredLeaseEnds`, `JobsSettle`,
`MergeJobsEnd`), since TLAPS proves no liveness here, and the violated
property.
Every invariant and every other property of the passing runs is a theorem.

## 5. Findings

One run exhibits behaviour that a docstring excludes: `TaskLockTimeoutExpired`.
`spec_task_timeout_worker.py:3` says that a card is released when its last
activity is older than the limit, but `task.version` is read when the loop
reaches the card, and a claim renewed during the sweep is released
(`TimeoutOnlyWhenExpired`).

The specifications also have the behaviours of the following table, each against
the words of the repository. No property forbids them, since the code does not:
the property in the last column holds of everything else and names them in its
formula.

| The code says | What happens | Excepted in |
|---|---|---|
| the new version of a released card invalidates every optimistic write in flight (`task_lock.py:317`) | the release writes the version it loaded plus one; after another write that is the version the row has, and a write in flight still applies | `WriteInvalidatesInFlight` and its like, by `Versioned` |
| a job is delivered to at most one worker (`write_queue.py:97`) | a starting worker requeues what others are processing | `OneOwner`, by `torn` |
| a terminal failure is not overwritten (`write_queue.py:134`) | the status is read, and written by primary key afterwards | `FailureStands`, by `torn` |
| points moved go back, or a log says that they did not (`project-merge.md:86`) | a move applied without an answer is not in the log of moves: nothing moves it back and nothing is reported | `StoresAgree`, by "unanswered" |
| the collection is repointed after a parity check (`migration_control.py:91`) | two counts and the commit are three steps; a write between them lets the flip switch to the smaller collection | `FlipServesSource`, by `crossed` |
| a board, a card is deleted with all its contents (`boards/delete.js:11`, `cards/delete.js:11`) | columns no helper looks after keep referring to it | `OwnersLive`, by `Forgotten` |
| who loses a board loses its cards and tasks (`revoke-board-access-side-effects.js:9`) | what is written between its reads and its writes stays | `MembersOnBoard`, by `strayed` |
| archived tasks have no card (`planka_resync.py:79`) | editing one mirrors it and posts a new card | `CardsAccountedFor`, which counts it as linked |
| the board does not keep what the Spec API cannot read (`controllers/cards/update.js:377`) | the refusal of a move reverts list and position; a name written by the same request stays, and the Spec API is told the old one | `MirrorCorrect`, by `MovesApart`; `MCEdits` has no such request |

The rest was met while modelling; the specifications have these behaviours, and
the properties are stated so as to name the exception.

*Card lock.* A lease window of zero switches expiry off
according to `utils/claim_lease.py:33` and releases every idle card according to
`spec_task_timeout_worker.py:67`. The column guide (`kanban_pipeline.py:68`)
recommends a move into `em_andamento` that `_assert_status_policy` refuses to
everyone. The renewal of a claim may move a card back without a history row
(`task_lock.py:269`).

*Write queue.* A timed-out `add()` overlaps the next. Only the done mark is
conditional on `processing`, so `skipped` can overwrite a failure.

*Project merge.* A failed merge is compensated after its locks are gone, while
another merge may have taken its points on. A job can use up its attempts before
it looks at its proposal, which stays approved.

*Migration.* `partitioning.py:148-150` says that every caller resolves the same
value; workers keep the snapshot they loaded before a start or a flip until they
are restarted, and a load that failed once keeps the environment's collection.
Parity by counts is met by points that only the target has, and by writes
between the two counts. The batch under way overwrites newer points and brings
deleted ones back; one under way when a migration is started anew writes its
checkpoint and status over the new one's. What REST adds and deletes, and the
marks on superseded memories, are not mirrored. The status "done" is never set.

*PLANKA, rows.* Two administrators may remove the last two managers of a
project at once (`project-managers/delete-one.js:36` counts, then deletes). A
list deleted while its cards' labels are moved loses them. A crash in a cascade
or a repositioning leaves it half done.

*PLANKA, cards.* When a list changes boards and two labels of one of its cards
meet in one label of the new board, all its cards lose all their labels
(`lists/update-one.js:186` inserts them in one statement after `:131` has
deleted the old ones, and nothing handles the refusal). A copy keeps the
`prevListId` of the original although `models/Card.js:59` has it available in
archive and trash only; `prevListId` may name a list of another board;
`position: null` is accepted for lists kept in order.

*Mirror.* PLANKA tells neither the place it has found for a card nor members a
person adds or removes there, nor cards moved with their list. A refusal of the
text after a change of list leaves the card in its new list. A mirror that fails
after the commit makes PLANKA revert what the memory server keeps. A failed
creation leaves card and link. The bridge answers "applied" for a card it found
completed.

## 6. Not modelled, and the plan

In order of what a fault would cost:

1. **WorkspaceLifecycle**, over the cards of `TaskLock`: completion is judged
   from a query and written later (`utils/workspace_lifecycle.py:54`), so a card
   reopened in between leaves a completed workspace with open cards; the archive
   worker archives what it selected earlier
   (`workers/spec_workspace_archive_worker.py:92`).
2. **Governance**: the second queue with its recovery by age, and the scheduler,
   which commits the job and then its schedule; an error in a later scope rolls
   the marks of earlier ones back (`workers/governance_worker.py:170`).
3. **SpecDocuments**: one thread per write indexes the version it was given, so
   the last to finish wins (`utils/spec_side_effects.py:81`); and **ReadCache**:
   a fill computed before a write and stored after its invalidation
   (`utils/read_cache.py:142`).
4. **PLANKA client** (optimistic store against answers and events), **uploaded
   files**, **rate limit**, **machine linking**.

Not planned: a write job that kills its worker each time
(`workers/write_worker.py:623`: attempts are counted only where a failure is
handled, and the model does not tell the job that causes a crash); the SDK and
the vector store (external), detection of duplicates and superseded memories
(scores), project deletion and backup (sequential), the web interface, the other
vendored servers and the installer.
