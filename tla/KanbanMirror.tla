---------------------------- MODULE KanbanMirror ----------------------------
(***************************************************************************)
(* One task card of the Spec API and the card PLANKA shows of it.  The     *)
(* Spec API writes its row, commits, and then sends the row to PLANKA over *)
(* HTTP.  A person edits the card in PLANKA, which writes its own row      *)
(* first, tells the Spec API afterwards, and writes the old values back    *)
(* when the Spec API refuses or does not answer.  A move told to the Spec  *)
(* API is mirrored back to PLANKA before the answer.                       *)
(*                                                                         *)
(* The columns the two rows share have one name here: list (status and     *)
(* listId), text (title and name, description, due date) and member        *)
(* (assignee and the card's membership).  The position has no column:      *)
(* PLANKA stores the place insert-to-positionables finds near the one it   *)
(* is sent, moves the siblings, and tells neither, so the two sides        *)
(* promise nothing about it.  What remains is that a request with a        *)
(* position in it is told to the Spec API like one with a text.            *)
(***************************************************************************)
EXTENDS Naturals, FiniteSets

CONSTANTS
    None,
    Human,      \* people, each with one PLANKA request at a time
    Agent,      \* callers of the Spec API, each with one call at a time
    Card,       \* ids of PLANKA cards
    Text,       \* what can be written
    Edits,      \* what one PLANKA request may carry: columns, and "pos"
    MaxServed,  \* bound on requests and calls
    MaxFaults   \* bound on lost messages, timeouts and restarts

\* Review and test are columns like em_andamento here: a claim takes the task
\* out of the backlog, and one without an owner stays where it is.
Statuses == {"tasks", "em_andamento", "concluido"}
\* The list of the documents, and one a person made that stands for no status.
Lists == Statuses \cup {"sdd", "other"}

ASSUME MirrorAssumption ==
    /\ None \notin Human \cup Agent \cup Card \cup Lists
    /\ Human \cap Agent = {}
    /\ Edits \subseteq SUBSET {"list", "text", "pos"}
    /\ \A F \in Edits : "list" \in F => "pos" \in F
    /\ IsFiniteSet(Card) /\ MaxServed \in Nat /\ MaxFaults \in Nat

VARIABLES
    task,     \* the TaskCard row, with its life: new, active, archived, gone
    card,     \* the PLANKA rows, list None: not there
    link,     \* the card SpecPlankaIdMap names for the task
    human,    \* the PLANKA request of each person
    tell,     \* the edit each of them has sent to the Spec API
    spec,     \* the Spec API's handler for every person's move and agent's call
    settled,  \* the columns that must agree once nothing runs, and "card"
              \* while no two requests have overlapped
    alone,    \* whatever runs has run by itself and without a fault
    served, faults

planka == <<card, human>>
api == <<task, link, spec>>
bounds == <<served, faults>>
vars == <<task, card, link, human, tell, spec, settled, alone, bounds>>

Meta == {"text", "pos"}
Columns == {"list", "text", "member"}
Everything == Columns \cup {"card"}
Caller == Human \cup Agent

NoRow == [list |-> None, text |-> None, member |-> None]
Deleted == [NoRow EXCEPT !.list = "deleted"]
NoTask == [list |-> None, text |-> None, member |-> None, life |-> "new", version |-> 0]
There(k) == k # None /\ card[k].list \in Lists
Exists == task.life \in {"active", "archived"}
\* A row with some of its columns taken from another.
Overlay(row, new, F) == [f \in DOMAIN row |-> IF f \in F THEN new[f] ELSE row[f]]

(***************************************************************************)
(* A request starts from idle, or from the answer to the one before it.    *)
(***************************************************************************)
Rested(s) == [step |-> s, card |-> None, fields |-> {}, new |-> NoRow,
                 before |-> NoRow]
NoTell == [fields |-> {}, card |-> None, row |-> NoRow]
Idle == [step |-> "idle", op |-> "none", to |-> "none", card |-> None,
         new |-> NoRow, row |-> NoTask, full |-> FALSE]

AtRest(p) == human[p].step \in {"idle", "confirmed", "refused"}
Quiet ==
    /\ \A p \in Human : AtRest(p) /\ tell[p] = NoTell
    /\ \A x \in Caller : spec[x] = Idle

\* A request starts, and leaves the columns F to themselves.
Serves(F) ==
    /\ served < MaxServed
    /\ served' = served + 1
    /\ UNCHANGED faults
    /\ alone' = Quiet
    /\ settled' = IF Quiet THEN settled \ F ELSE {}
Served == Serves({})

Fault ==
    /\ faults < MaxFaults
    /\ faults' = faults + 1
    /\ UNCHANGED served
    /\ alone' = FALSE
    /\ settled' = settled \cap {"card"}

Normal == UNCHANGED <<settled, alone, bounds>>

(***************************************************************************)
(* PLANKA.  A person's request loads the card, writes it, tells what was   *)
(* written, then tells the move; each answer takes it one step further.    *)
(***************************************************************************)

Finished(p, s) == human' = [human EXCEPT ![p] = Rested(s)]
Told(p, F, row) == tell' = [tell EXCEPT ![p] = [fields |-> F, card |-> human[p].card, row |-> row]]
Moved(p) == "list" \in human[p].fields /\ human[p].new.list # human[p].before.list
MovesOn(p) ==
    /\ human' = [human EXCEPT ![p].step = "moving"]
    /\ spec' = [spec EXCEPT ![p] = [Idle EXCEPT
                    !.step = "load", !.op = "move", !.card = human[p].card, !.to = human[p].new.list]]

HumanEdits(p, k, F, new) ==
    /\ AtRest(p) /\ tell[p] = NoTell /\ spec[p] = Idle
    /\ There(k)
    /\ \A f \in Columns \ F : new[f] = card[k][f]
    /\ human' = [human EXCEPT ![p] = [step |-> "write", card |-> k, fields |-> F, new |-> new,
                                      before |-> card[k]]]
    /\ Served
    /\ UNCHANGED <<task, card, link, tell, spec>>

HumanWrites(p) ==
    LET h == human[p]
        row == Overlay(card[h.card], h.new, h.fields)
    IN
    /\ h.step = "write"
    /\ IF There(h.card)
       THEN /\ card' = [card EXCEPT ![h.card] = row]
            /\ Told(p, h.fields \cap Meta, row)
            /\ human' = [human EXCEPT ![p].step = "telling"]
       ELSE Finished(p, "refused") /\ UNCHANGED <<card, tell>>
    /\ Normal
    /\ UNCHANGED <<task, link, spec>>

\* Telling the old values back is best effort, whatever the answer.
EditTaken(p) ==
    IF human[p].step = "telling" /\ Moved(p)
    THEN MovesOn(p)
    ELSE /\ Finished(p, IF human[p].step = "telling" THEN "confirmed" ELSE "refused")
         /\ UNCHANGED spec

EditRefused(p) ==
    /\ human' = [human EXCEPT ![p] = IF @.step = "telling" THEN [@ EXCEPT !.step = "undo"]
                                                           ELSE Rested("refused")]
    /\ UNCHANGED spec

\* Fail closed: the columns told are written back; the list is not.
HumanUndoesEdit(p) ==
    LET h == human[p] IN
    /\ h.step = "undo"
    /\ card' = IF There(h.card)
               THEN [card EXCEPT ![h.card] = Overlay(@, h.before, Meta)]
               ELSE card
    /\ Finished(p, "refused")
    /\ Normal
    /\ UNCHANGED <<api, tell>>

\* Mutant: what was told is told back, and the card stays where it is.
MoveHalfUndone(p) ==
    LET h == human[p] IN
    /\ h.step = "unmove"
    /\ Told(p, h.fields \cap Meta, h.before)
    /\ human' = [human EXCEPT ![p].step = "backing"]
    /\ Normal
    /\ UNCHANGED <<api, card>>

\* The move refused: the card goes back to its list, with the text it was
\* given, and the Spec API is told the old values of what it had taken.
HumanUndoesMove(p) ==
    LET h == human[p] IN
    /\ h.step = "unmove"
    /\ card' = IF There(h.card)
               THEN [card EXCEPT ![h.card] = Overlay(@, h.before, {"list"})]
               ELSE card
    /\ Told(p, h.fields \cap Meta, h.before)
    /\ human' = [human EXCEPT ![p].step = "backing"]
    /\ Normal
    /\ UNCHANGED api

\* Eight seconds have gone by; what was sent may still arrive.
HumanGivesUp(p) ==
    /\ \/ human[p].step \in {"telling", "backing"} /\ EditRefused(p)
       \/ human[p].step = "moving" /\ human' = [human EXCEPT ![p].step = "unmove"] /\ UNCHANGED spec
    /\ Fault
    /\ UNCHANGED <<task, card, link, tell>>

\* PLANKA restarts in the middle of the request.
HumanCutOff(p) ==
    /\ ~AtRest(p)
    /\ Finished(p, "idle")
    /\ Fault
    /\ UNCHANGED <<task, card, link, tell, spec>>

\* A card's members, and the list of a card whose list is deleted or moved as
\* a whole, are PLANKA's own: it tells nobody.
HumanShifts(k, f, new) ==
    /\ There(k)
    /\ card' = [card EXCEPT ![k] = Overlay(@, new, {f})]
    /\ Serves({f})
    /\ UNCHANGED <<api, human, tell>>

\* Deleting a card in PLANKA tells nobody.
HumanDeletes(k) ==
    /\ There(k)
    /\ card' = [card EXCEPT ![k] = Deleted]
    /\ Served
    /\ UNCHANGED <<api, human, tell>>

(***************************************************************************)
(* The Spec API hears of an edit: one UPDATE, whatever the version.        *)
(***************************************************************************)

SpecTakesEdit(p) ==
    LET t == tell[p]
        mapped == t.card = link
    IN
    /\ t # NoTell
    /\ tell' = [tell EXCEPT ![p] = NoTell]
    /\ task' = IF mapped /\ Exists
               THEN [Overlay(task, t.row, t.fields) EXCEPT !.version = @ + 1]
               ELSE task
    /\ IF human[p].step \in {"telling", "backing"}
       THEN IF mapped => Exists THEN EditTaken(p) ELSE EditRefused(p)
       ELSE UNCHANGED <<human, spec>>
    /\ Normal
    /\ UNCHANGED <<card, link>>

\* The edit is lost on its way, or Spec restarts before its commit.
EditLost(p) ==
    /\ tell[p] # NoTell
    /\ tell' = [tell EXCEPT ![p] = NoTell]
    /\ IF human[p].step \in {"telling", "backing"}
       THEN EditRefused(p)
       ELSE UNCHANGED <<human, spec>>
    /\ Fault
    /\ UNCHANGED <<task, card, link>>

(***************************************************************************)
(* The Spec API's handlers.  A call loads the row, writes it under the     *)
(* guard of its own UPDATE and mirrors the row it reads after the commit.  *)
(***************************************************************************)

\* The handler of x ends.  A person still waiting for it hears the answer.
Ended(x, ok) ==
    /\ spec' = [spec EXCEPT ![x] = Idle]
    /\ human' = IF x \in Human /\ human[x].step = "moving"
                THEN [human EXCEPT ![x] = IF ok THEN Rested("confirmed") ELSE [@ EXCEPT !.step = "unmove"]]
                ELSE human

\* Every card of the board is a document or concluded: a move the Spec API
\* could not apply is then answered as applied.
Completed(moved) ==
    There(moved) /\ \A k \in Card : There(k) => card[k].list \in {"sdd", "concluido"}

First(op) == CASE op = "delete" -> "remove" [] op = "resync" -> "snap" [] OTHER -> "write"

\* A call loads the row; the version its caller expects is the row's, since
\* any other is refused.
AgentCalls(a, op, to, new) ==
    /\ spec[a] = Idle
    /\ CASE op = "create" -> task.life = "new"
         [] op = "resync" -> task.life = "active"
         [] OTHER -> Exists
    /\ spec' = [spec EXCEPT ![a] = [Idle EXCEPT
                    !.step = First(op), !.op = op, !.to = to, !.new = new, !.row = task,
                    !.full = op = "resync"]]
    /\ Served
    /\ UNCHANGED <<task, link, planka, tell>>

\* card-moved: what the list means for the task decides the operation.
SpecHearsMove(p) ==
    LET s == spec[p]
        op == CASE task.list = "tasks" /\ s.to = "em_andamento" -> "claim"
                [] s.to = "tasks" -> "release"
                [] OTHER -> "status"
    IN
    /\ s.step = "load"
    /\ IF s.card # link \/ s.to = "sdd"
       THEN Ended(p, TRUE)
       ELSE IF s.to \notin Statuses \/ ~Exists
       THEN Ended(p, Completed(s.card))
       ELSE IF task.life = "archived" \/ task.list = s.to
       THEN Ended(p, TRUE)
       ELSE spec' = [spec EXCEPT ![p].step = "write", ![p].op = op, ![p].row = task] /\ UNCHANGED human
    /\ Normal
    /\ UNCHANGED <<task, link, card, tell>>

\* The row each operation of caller x leaves: none when its checks on the
\* row r it loaded, or the guard of its UPDATE on the row now, refuse it.
If(guard, row) == IF guard THEN {row} ELSE {}
Written(row) == [row EXCEPT !.version = task.version + 1]
Kept(r) == Exists /\ task.version = r.version

Claimed(x, r) ==
    LET free == r.list = "tasks"
        mine == ~free /\ r.member = x
        orphan == ~free /\ r.list # "concluido" /\ r.member = None
    IN  If(/\ r.life = "active" /\ task.life = "active"
           /\ \/ free /\ task.list = "tasks"
              \/ mine /\ task.member = x
              \/ orphan /\ task.member = None /\ task.list = r.list,
           Written([task EXCEPT !.list = IF orphan THEN @ ELSE "em_andamento", !.member = x]))

\* No guard: what differs from the row loaded is written over the row now.
Released(r) ==
    If(r.life = "active" /\ Exists,
       [task EXCEPT !.list = IF r.list = "tasks" THEN @ ELSE "tasks",
                    !.member = IF r.member = None THEN @ ELSE None,
                    !.version = r.version + 1])

Outcome(x) ==
    LET s == spec[x]
        r == s.row
    IN
    CASE s.op = "claim" -> Claimed(x, r)
      [] s.op = "release" -> Released(r)
      [] s.op = "status" -> If(r.life = "active" /\ Kept(r), Written([task EXCEPT !.list = s.to]))
      [] s.op = "edit" -> If(Kept(r), Written(Overlay(task, s.new, Meta)))
      [] s.op = "archive" -> If(r.life = "active" /\ Kept(r), Written([task EXCEPT !.life = "archived"]))
      [] s.op = "unarchive" -> If(r.life = "archived" /\ Kept(r), Written([task EXCEPT !.life = "active"]))
      [] s.op = "create" -> {Overlay([NoTask EXCEPT !.life = "active", !.list = "tasks"], s.new, Meta)}

\* The UPDATE and its commit; what is mirrored is decided by the operation.
SpecWrites(x) ==
    LET s == spec[x] IN
    /\ s.step = "write"
    /\ \/ /\ Outcome(x) = {}
          /\ Ended(x, Exists /\ Completed(s.card))
          /\ UNCHANGED task
       \/ /\ task' \in Outcome(x)
          /\ spec' = [spec EXCEPT
                  ![x].step = IF s.op = "archive" THEN "remove" ELSE "snap",
                  ![x].full = s.op \in {"edit", "create", "unarchive"}]
          /\ UNCHANGED human
    /\ Normal
    /\ UNCHANGED <<link, card, tell>>

\* The mirror failed.  A creation deletes its task again; archiving and its
\* undoing answer as if it had not.
Failed(x) ==
    LET op == spec[x].op IN
    /\ Ended(x, op \in {"archive", "unarchive"})
    /\ task' = IF op = "create" THEN [task EXCEPT !.life = "gone"] ELSE task

\* mirror_task and mirror_task_status read the row after the commit, and
\* whether it has a card.
MirrorReads(x) ==
    /\ spec[x].step = "snap"
    /\ IF Exists
       THEN /\ spec' = [spec EXCEPT ![x].step = "send", ![x].row = task, ![x].card = link,
                                    ![x].full = @ \/ link = None]
            /\ UNCHANGED <<human, task>>
       ELSE Failed(x)
    /\ Normal
    /\ UNCHANGED <<link, card, tell>>

Sent(x) == IF spec[x].full THEN {"list", "text"} ELSE {"list"}

Patched(x) == [card EXCEPT ![spec[x].card] = Overlay(@, spec[x].row, Sent(x))]
Posted(x, k) == [card EXCEPT ![k] = Overlay(NoRow, spec[x].row, {"list", "text"})]

MirrorSends(x) ==
    /\ spec[x].step = "send"
    /\ \/ /\ There(spec[x].card)
          /\ card' = Patched(x)
          /\ spec' = [spec EXCEPT ![x].step = "assign"]
          /\ UNCHANGED <<human, task>>
       \/ /\ spec[x].card = None
          /\ \E k \in Card :
                /\ card[k] = NoRow
                /\ card' = Posted(x, k)
                /\ spec' = [spec EXCEPT ![x].step = "link", ![x].card = k]
          /\ UNCHANGED <<human, task>>
       \/ /\ spec[x].card # None /\ ~There(spec[x].card)
          /\ Failed(x)
          /\ UNCHANGED card
    /\ Normal
    /\ UNCHANGED <<link, tell>>

\* Mutant: the link is left to the end of the request and lost.
MirrorForgets(x) ==
    /\ spec[x].step = "link"
    /\ spec' = [spec EXCEPT ![x].step = "assign"]
    /\ Normal
    /\ UNCHANGED <<task, link, planka, tell>>

MirrorLinks(x) ==
    /\ spec[x].step = "link"
    /\ link' = spec[x].card
    /\ spec' = [spec EXCEPT ![x].step = "assign"]
    /\ Normal
    /\ UNCHANGED <<task, planka, tell>>

\* PUT mem0-assignee: the card's only member is the assignee of the row sent.
MirrorAssigns(x) ==
    LET s == spec[x] IN
    /\ s.step = "assign"
    /\ IF There(s.card)
       THEN /\ card' = [card EXCEPT ![s.card].member = s.row.member]
            /\ Ended(x, TRUE)
            /\ settled' = IF alone THEN settled \cup Sent(x) \cup {"member"} ELSE settled
            /\ UNCHANGED <<task, alone, bounds>>
       ELSE Failed(x) /\ UNCHANGED card /\ Normal
    /\ UNCHANGED <<link, tell>>

\* delete_task of the mirror client: the card, and then the link.
MirrorRemoves(x) ==
    /\ spec[x].step = "remove"
    /\ card' = IF ~There(link) THEN card ELSE [card EXCEPT ![link] = Deleted]
    /\ spec' = [spec EXCEPT ![x].step = "unlink"]
    /\ Normal
    /\ UNCHANGED <<task, link, human, tell>>

MirrorUnlinks(x) ==
    /\ spec[x].step = "unlink"
    /\ link' = None
    /\ IF spec[x].op = "delete"
       THEN spec' = [spec EXCEPT ![x].step = "drop"] /\ UNCHANGED human
       ELSE Ended(x, TRUE)
    /\ Normal
    /\ UNCHANGED <<task, card, tell>>

\* The route deletes the row only after the card.
SpecDrops(x) ==
    /\ spec[x].step = "drop"
    /\ task' = [task EXCEPT !.life = "gone"]
    /\ Ended(x, TRUE)
    /\ Normal
    /\ UNCHANGED <<link, card, tell>>

\* A request to PLANKA times out, applied or not.
MirrorTimesOut(x) ==
    /\ \/ spec[x].step = "send" /\ There(spec[x].card) /\ card' \in {card, Patched(x)}
       \/ spec[x].step = "send" /\ spec[x].card = None
          /\ \E k \in Card : card[k] = NoRow /\ card' \in {card, Posted(x, k)}
       \/ spec[x].step = "assign" /\ UNCHANGED card
       \/ spec[x].step = "remove" /\ link # None /\ card' \in {card, [card EXCEPT ![link] = Deleted]}
    /\ Failed(x)
    /\ Fault
    /\ UNCHANGED <<link, tell>>

\* The Spec API restarts under a handler: the caller's connection breaks.
SpecCutOff(x) ==
    /\ spec[x] # Idle
    /\ Ended(x, FALSE)
    /\ Fault
    /\ UNCHANGED <<task, link, card, tell>>

-----------------------------------------------------------------------------

\* There is no task yet, or it waits in the backlog and on the board.
Init ==
    /\ \/ task = NoTask /\ link = None /\ card = [k \in Card |-> NoRow]
       \/ \E k \in Card, t \in Text :
             /\ task = [NoTask EXCEPT !.life = "active", !.list = "tasks", !.text = t]
             /\ link = k
             /\ card = [[c \in Card |-> NoRow] EXCEPT ![k] = Overlay(NoRow, task, Columns)]
    /\ human = [p \in Human |-> Rested("idle")]
    /\ tell = [p \in Human |-> NoTell]
    /\ spec = [x \in Caller |-> Idle]
    /\ settled = Everything /\ alone = TRUE
    /\ served = 0 /\ faults = 0

Shown == [list : Lists, text : Text, member : Caller \cup {None}]
Content == [text : Text]

HumanNext ==
    \/ \E p \in Human, k \in Card, F \in Edits, new \in Shown : HumanEdits(p, k, F, new)
    \/ \E p \in Human : \/ HumanWrites(p) \/ HumanUndoesEdit(p) \/ HumanUndoesMove(p)
                        \/ HumanGivesUp(p) \/ HumanCutOff(p)
    \/ \E k \in Card, f \in {"list", "member"}, new \in Shown : HumanShifts(k, f, new)
    \/ \E k \in Card : HumanDeletes(k)

SpecNext ==
    \/ \E p \in Human : SpecTakesEdit(p) \/ EditLost(p) \/ SpecHearsMove(p)
    \/ \E a \in Agent :
          \/ \E op \in {"claim", "release", "archive", "unarchive", "delete", "resync"} :
                AgentCalls(a, op, "none", NoRow)
          \/ \E to \in Statuses : AgentCalls(a, "status", to, NoRow)
          \/ \E op \in {"create", "edit"}, new \in Content : AgentCalls(a, op, "none", new)
    \/ \E x \in Caller : SpecWrites(x) \/ SpecDrops(x) \/ SpecCutOff(x)

MirrorNext == \E x \in Caller :
    \/ MirrorReads(x) \/ MirrorSends(x) \/ MirrorLinks(x) \/ MirrorAssigns(x)
    \/ MirrorRemoves(x) \/ MirrorUnlinks(x) \/ MirrorTimesOut(x)

Next == HumanNext \/ SpecNext \/ MirrorNext

Spec == Init /\ [][Next]_vars

-----------------------------------------------------------------------------
(* Properties                                                              *)

(***************************************************************************)
(* Once nothing runs, the task and the card it is linked to say the same   *)
(* in every column that is settled: list, text and member at first and     *)
(* after a mirror of them that ran by itself, until two requests overlap,  *)
(* one is lost, times out or is cut off, or PLANKA changes the column and  *)
(* tells nobody.  So a request that ran alone and told what it did left    *)
(* both sides alike, whether it was taken, or its move refused and undone; *)
(* and one resync by itself repairs what overlaps, faults and untold       *)
(* changes had done before it.  A card among the documents is no statement *)
(* about the status.                                                       *)
(***************************************************************************)
MirrorAgrees ==
    Quiet /\ task.life = "active" /\ There(link) =>
        \A f \in settled \cap Columns :
            \/ card[link][f] = task[f]
            \/ f = "list" /\ card[link].list = "sdd"

\* Cards of the board that are not the card of a task that is there.
Strays == {k \in Card : There(k) /\ ~(k = link /\ Exists)}

(***************************************************************************)
(* While no two requests have overlapped, the board holds at most as many  *)
(* stray cards as answers were lost, calls timed out and processes were    *)
(* restarted: creating, mirroring, archiving, bringing back and deleting   *)
(* leave none, and a cut between the card and the row that links it leaves *)
(* one (mirror_task).  The linked card of an archived task is not a stray: *)
(* archiving deletes the card, but editing an archived task posts another  *)
(* and links it (task_lock.py:585).                                        *)
(***************************************************************************)
CardsAccountedFor ==
    Quiet /\ "card" \in settled => Cardinality(Strays) <= faults
=============================================================================
