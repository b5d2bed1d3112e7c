------------------------- MODULE KanbanMirrorProofs -------------------------
(***************************************************************************)
(* Proofs about KanbanMirror, for any numbers of people, callers, cards,   *)
(* requests and faults: that a request by itself leaves the task and its   *)
(* card alike in the settled columns (MirrorAgrees), and that a fault      *)
(* leaves one stray card at most (CardsAccountedFor).                      *)
(***************************************************************************)
EXTENDS KanbanMirror, FiniteSetTheorems, TLAPS

-----------------------------------------------------------------------------
(* Types                                                                   *)

TextOrNone == Text \cup {None}
MemberOrNone == Caller \cup {None}

\* What a request, a mirror or an undoing may carry.
Fields == Columns \cup {"pos"}

Row == [list : Lists \cup {None, "deleted"}, text : TextOrNone, member : MemberOrNone]
TaskRow == [list : Statuses \cup {None}, text : TextOrNone,
            member : MemberOrNone, life : {"new", "active", "archived", "gone"},
            version : Nat]

HumanStep == {"idle", "confirmed", "refused", "write", "telling", "undo", "moving",
              "unmove", "backing"}
Request == [step : HumanStep, card : Card \cup {None}, fields : SUBSET {"list", "text", "pos"},
            new : Row, before : Row]
Telling == [fields : SUBSET Meta, card : Card \cup {None}, row : Row]

Op == {"none", "move", "claim", "release", "status", "edit", "archive", "unarchive",
       "create", "delete", "resync"}
SpecStep == {"idle", "load", "write", "snap", "send", "link", "assign", "remove",
             "unlink", "drop"}
Handler == [step : SpecStep, op : Op, to : Lists \cup {None, "deleted", "none"}, card : Card \cup {None},
            new : Row \cup Content, row : TaskRow, full : BOOLEAN]

TypeOK ==
    /\ task \in TaskRow
    /\ Exists => task.list \in Statuses
    /\ card \in [Card -> Row]
    /\ link \in Card \cup {None}
    /\ human \in [Human -> Request]
    /\ tell \in [Human -> Telling]
    /\ spec \in [Caller -> Handler]
    /\ \A x \in Caller :
          /\ spec[x].step = "write" => spec[x].op \notin {"none", "move", "delete", "resync"}
          /\ spec[x].op = "status" => spec[x].to \in Statuses
          /\ spec[x].step = "send" => spec[x].row.list \in Statuses
    /\ settled \subseteq Everything
    /\ alone \in BOOLEAN

-----------------------------------------------------------------------------
(* The invariant                                                           *)

Open == task.life = "active"

Matches(row, F) ==
    \A f \in F \cap Columns : row[f] = task[f] \/ (f = "list" /\ row.list = "sdd")

\* The linked card says what the task says, in the columns of F.
Agree(F) == Open /\ There(link) => Matches(card[link], F)

\* x has something under way.
Busy(x) == spec[x] # Idle \/ (x \in Human /\ (~AtRest(x) \/ tell[x] # NoTell))

Lone == \A x, y \in Caller : Busy(x) /\ Busy(y) => x = y

\* What a person asked for: nothing but the columns of the request changes.
Asked(h) ==
    /\ h.fields \in Edits
    /\ h.new.list \in Lists /\ h.before.list \in Lists
    /\ \A f \in Columns \ h.fields : h.new[f] = h.before[f]

\* The task as it was before a request h, and after its edit was taken.
Untold(h) == IF h.card = link THEN Open => Matches(h.before, settled) ELSE Agree(settled)
Edited(h) ==
    IF h.card = link
    THEN Open => Matches(h.before, settled \cap {"list"}) /\ Matches(h.new, settled \ {"list"})
    ELSE Agree(settled)

Silent(p) == tell[p] = NoTell
Unheard(p) == Silent(p) /\ spec[p] = Idle
Shows(h) == There(h.card) /\ card[h.card] = h.new

\* What a handler is still to write to the card: the columns its mirror sends
\* and the member it assigns.
Due(x) == IF spec[x].full THEN Columns ELSE {"list", "member"}

\* A person's request, alone: what it has still to write, tell or take back.
ToWrite(p) ==
    LET h == human[p] IN
    Asked(h) /\ Unheard(p) /\ There(h.card) /\ card[h.card] = h.before /\ Agree(settled)
ToTell(p) ==
    LET h == human[p] IN
    /\ Asked(h) /\ Shows(h) /\ Untold(h) /\ spec[p] = Idle
    /\ tell[p] = [fields |-> h.fields \cap Meta, card |-> h.card, row |-> h.new]
ToUndo(p) ==
    Unheard(p) /\ IF human[p].card = link THEN ~Open ELSE Agree(settled)
ToUnmove(p) ==
    LET h == human[p] IN
    Asked(h) /\ "list" \in h.fields /\ Shows(h) /\ Edited(h) /\ Unheard(p)
ToBack(p) ==
    LET h == human[p] IN
    /\ tell[p] = [fields |-> {"pos"}, card |-> h.card, row |-> h.before] /\ spec[p] = Idle
    /\ Agree(settled)
ToMove(p) ==
    LET h == human[p] IN
    /\ Asked(h) /\ "list" \in h.fields /\ There(h.card) /\ Silent(p)
    /\ spec[p].step \in {"load", "write", "snap", "send", "assign"}

HumanAlone(p) ==
    LET step == human[p].step IN
    /\ AtRest(p) => Unheard(p)
    /\ step = "write" => ToWrite(p)
    /\ step = "telling" => ToTell(p)
    /\ step = "undo" => ToUndo(p)
    /\ step = "unmove" => ToUnmove(p)
    /\ step = "backing" => ToBack(p)
    /\ step = "moving" => ToMove(p)

\* The Spec API's handler of his move.
Arrived(p) ==
    LET h == human[p] IN
    Shows(h) /\ Edited(h) /\ spec[p].card = h.card /\ spec[p].to = h.new.list
Decided(p) ==
    LET s == spec[p] IN
    /\ human[p].card = link /\ Open /\ s.row = task /\ s.to \in Statuses
    /\ \/ s.op = "claim" /\ s.to = "em_andamento"
       \/ s.op = "release" /\ s.to = "tasks"
       \/ s.op = "status"

MoveAlone(p) ==
    LET step == spec[p].step IN
    /\ step # "idle" => human[p].step = "moving"
    /\ step \in {"load", "write"} => Arrived(p)
    /\ step = "write" => Decided(p)
    /\ step \in {"snap", "send", "assign"} => human[p].card = link /\ Open

\* Any handler, alone.
ToSend(x) ==
    LET s == spec[x] IN
    /\ s.card = link /\ (link = None => s.full = TRUE) /\ Exists
    /\ \A f \in Columns : s.row[f] = task[f]
    /\ Agree(settled \ Due(x))
ToLink(x) ==
    LET s == spec[x] IN
    /\ link = None /\ s.full = TRUE /\ There(s.card)
    /\ \A f \in {"list", "text"} : card[s.card][f] = task[f]
    /\ s.row.member = task.member
ToAssign(x) ==
    /\ spec[x].card = link /\ spec[x].row.member = task.member
    /\ Agree((settled \cup Sent(x)) \ {"member"})

MirrorAlone(x) ==
    LET step == spec[x].step IN
    /\ step = "idle" => spec[x] = Idle
    /\ step = "load" => x \in Human
    /\ step = "write" => x \in Human \/ Agree(settled)
    /\ step = "remove" => Agree(settled)
    /\ step = "snap" => Agree(settled \ Due(x))
    /\ step = "send" => ToSend(x)
    /\ step = "link" => ToLink(x)
    /\ step = "assign" => ToAssign(x)
    /\ step \in {"unlink", "drop"} => ~There(link)

Phase(x) == (x \in Human => HumanAlone(x) /\ MoveAlone(x)) /\ MirrorAlone(x)

AloneOK == Lone /\ \A x \in Caller : Phase(x)

IInv ==
    /\ TypeOK
    /\ (alone = TRUE) => AloneOK
    /\ (alone = FALSE) => settled \subseteq {"card"}
    /\ Quiet => Agree(settled)

-----------------------------------------------------------------------------
(* Types: lemmas about the operators                                       *)

LEMMA OverlayRow ==
    ASSUME NEW r \in Row, NEW n \in Row, NEW F \in SUBSET Fields
    PROVE  Overlay(r, n, F) \in Row
  BY DEF Row, Overlay, Fields, Columns

LEMMA OverlayTask ==
    ASSUME NEW t \in TaskRow, NEW n \in Row \cup Content, NEW F \in SUBSET Meta
    PROVE  /\ Overlay(t, n, F) \in TaskRow
           /\ Overlay(t, n, F).life = t.life
           /\ Overlay(t, n, F).list = t.list
           /\ Overlay(t, n, F).version = t.version
  BY DEF Row, Content, TaskRow, Overlay, Meta, TextOrNone

\* The row of a task written over the row of a card.
LEMMA OverlayCard ==
    ASSUME NEW r \in Row, NEW t \in TaskRow, NEW F \in SUBSET Fields
    PROVE  Overlay(r, t, F) \in Row
  BY DEF Row, TaskRow, Overlay, Fields, Columns, Lists

LEMMA OverlayColumn ==
    ASSUME NEW r \in Row, NEW n \in Row \cup TaskRow, NEW F \in SUBSET Fields, NEW f \in Columns
    PROVE  Overlay(r, n, F)[f] = IF f \in F THEN n[f] ELSE r[f]
  BY DEF Row, TaskRow, Overlay, Fields, Columns

LEMMA OverlayTaskColumn ==
    ASSUME NEW t \in TaskRow, NEW n \in Row, NEW F \in SUBSET Meta, NEW f \in Columns
    PROVE  Overlay(t, n, F)[f] = IF f \in F THEN n[f] ELSE t[f]
  BY DEF Row, TaskRow, Overlay, Columns, Meta

LEMMA Records ==
    /\ NoRow \in Row /\ Deleted \in Row /\ NoTask \in TaskRow
    /\ \A s \in {"idle", "confirmed", "refused"} : Rested(s) \in Request
    /\ NoTell \in Telling
    /\ Idle \in Handler
  BY DEF NoRow, Deleted, NoTask, Rested, NoTell, Idle, Row, TaskRow, Request, Telling,
         Handler, HumanStep, SpecStep, Op, TextOrNone, MemberOrNone

LEMMA RequestStep ==
    ASSUME NEW h \in Request, NEW s \in HumanStep
    PROVE  [h EXCEPT !.step = s] \in Request
  BY DEF Request

LEMMA ServesType ==
    ASSUME TypeOK, NEW F, Serves(F)
    PROVE  settled' \subseteq Everything /\ alone' \in BOOLEAN
  BY DEF TypeOK, Serves, Quiet

LEMMA BoundsType ==
    ASSUME TypeOK, Normal \/ Served \/ Fault
    PROVE  settled' \subseteq Everything /\ alone' \in BOOLEAN
<1>1. CASE Normal
  BY <1>1 DEF TypeOK, Normal
<1>2. CASE Served
  BY <1>2, ServesType DEF Served
<1>3. CASE Fault
  BY <1>3 DEF TypeOK, Fault
<1> QED
  BY <1>1, <1>2, <1>3

\* What is asked of a handler, besides its type.
Sane(s) ==
    /\ s.step = "write" => s.op \notin {"none", "move", "delete", "resync"}
    /\ s.op = "status" => s.to \in Statuses
    /\ s.step = "send" => s.row.list \in Statuses

\* A step that changes the handler of one caller.
LEMMA SpecType ==
    ASSUME TypeOK, NEW x \in Caller, NEW s \in Handler, Sane(s),
           spec' = [spec EXCEPT ![x] = s]
    PROVE  /\ spec' \in [Caller -> Handler]
           /\ \A y \in Caller : Sane(spec'[y])
  BY DEF TypeOK, Sane

LEMMA IdleSane == Sane(Idle)
  BY DEF Sane, Idle

\* The type invariant of the next state from its parts.
LEMMA TypeByParts ==
    ASSUME TypeOK,
           task' \in TaskRow, Exists' => task'.list \in Statuses,
           card' \in [Card -> Row], link' \in Card \cup {None},
           human' \in [Human -> Request], tell' \in [Human -> Telling],
           spec' = spec \/ (spec' \in [Caller -> Handler] /\ \A x \in Caller : Sane(spec'[x])),
           settled' \subseteq Everything, alone' \in BOOLEAN
    PROVE  TypeOK'
  BY DEF TypeOK, Sane

LEMMA EndedType ==
    ASSUME TypeOK, NEW x \in Caller, NEW ok, Ended(x, ok)
    PROVE  /\ human' \in [Human -> Request]
           /\ spec' = [spec EXCEPT ![x] = Idle]
           /\ spec' \in [Caller -> Handler] /\ \A y \in Caller : Sane(spec'[y])
<1>1. human' \in [Human -> Request]
  <2>1. CASE x \in Human /\ human[x].step = "moving"
    <3>1. human[x] \in Request /\ "unmove" \in HumanStep
      BY <2>1 DEF TypeOK, HumanStep
    <3>2. [human[x] EXCEPT !.step = "unmove"] \in Request /\ Rested("confirmed") \in Request
      BY <3>1, RequestStep, Records
    <3> QED
      BY <2>1, <3>2 DEF Ended, TypeOK
  <2> QED
    BY <2>1 DEF Ended, TypeOK
<1>2. spec' = [spec EXCEPT ![x] = Idle]
  BY DEF Ended
<1> QED
  BY <1>1, <1>2, IdleSane, Records, SpecType

-----------------------------------------------------------------------------
(* Types: the actions                                                      *)

LEMMA TypeHumanStarts ==
    ASSUME TypeOK, MirrorAssumption, NEW p \in Human, NEW k \in Card, NEW F \in Edits,
           NEW new \in Shown, HumanEdits(p, k, F, new)
    PROVE  TypeOK'
<1>1. new \in Row /\ card[k] \in Row
  BY DEF Shown, Row, TypeOK, TextOrNone, MemberOrNone
<1>2. human' \in [Human -> Request]
  BY <1>1 DEF HumanEdits, TypeOK, Request, HumanStep, MirrorAssumption
<1> QED
  BY <1>2, BoundsType, TypeByParts DEF HumanEdits, TypeOK, Exists

LEMMA TypeHumanWrites ==
    ASSUME TypeOK, NEW p \in Human, HumanWrites(p)
    PROVE  TypeOK'
<1> DEFINE h == human[p]
           row == Overlay(card[h.card], h.new, h.fields)
<1>1. h \in Request /\ h.new \in Row /\ h.fields \in SUBSET Fields
  BY DEF TypeOK, Request, Fields, Columns
<1>2. CASE There(h.card)
  <2>1. h.card \in Card /\ row \in Row
    BY <1>1, <1>2, OverlayRow DEF There, TypeOK, Request
  <2>2. card' \in [Card -> Row]
    BY <1>2, <2>1 DEF HumanWrites, TypeOK
  <2>3. [fields |-> h.fields \cap Meta, card |-> h.card, row |-> row] \in Telling
    BY <2>1 DEF Telling
  <2>4. tell' \in [Human -> Telling]
    BY <1>2, <2>3 DEF HumanWrites, Told, TypeOK
  <2>5. human' = [human EXCEPT ![p] = [h EXCEPT !.step = "telling"]]
    BY <1>2 DEF HumanWrites, TypeOK
  <2>6. human' \in [Human -> Request]
    BY <1>1, <2>5, RequestStep DEF TypeOK, HumanStep
  <2> QED
    BY <2>2, <2>4, <2>6, BoundsType, TypeByParts DEF HumanWrites, TypeOK, Exists
<1>3. CASE ~There(h.card)
  <2>1. human' \in [Human -> Request]
    BY <1>3, Records DEF HumanWrites, Finished, TypeOK
  <2> QED
    BY <1>3, <2>1, BoundsType, TypeByParts DEF HumanWrites, TypeOK, Exists
<1> QED
  BY <1>2, <1>3

LEMMA TypeHumanUndoes ==
    ASSUME TypeOK, NEW p \in Human, HumanUndoesEdit(p) \/ HumanUndoesMove(p)
    PROVE  TypeOK'
<1> DEFINE h == human[p]
<1>1. h \in Request /\ h.before \in Row /\ Meta \in SUBSET Fields
      /\ {"list"} \in SUBSET Fields
  BY DEF TypeOK, Request, Fields, Columns, Meta
<1>2. card' \in [Card -> Row]
  <2>1. CASE There(h.card)
    <3>1. h.card \in Card /\ card[h.card] \in Row
      BY <1>1, <2>1 DEF There, TypeOK, Request
    <3>2. /\ Overlay(card[h.card], h.before, Meta) \in Row
          /\ Overlay(card[h.card], h.before, {"list"}) \in Row
      BY <1>1, <3>1, OverlayRow
    <3> QED
      BY <2>1, <3>1, <3>2 DEF HumanUndoesEdit, HumanUndoesMove, TypeOK
  <2> QED
    BY <2>1 DEF HumanUndoesEdit, HumanUndoesMove, TypeOK
<1>3. CASE HumanUndoesEdit(p)
  <2>1. human' \in [Human -> Request]
    BY <1>3, Records DEF HumanUndoesEdit, Finished, TypeOK
  <2> QED
    BY <1>2, <1>3, <2>1, BoundsType, TypeByParts DEF HumanUndoesEdit, TypeOK, Exists, api
<1>4. CASE HumanUndoesMove(p)
  <2>1. human' = [human EXCEPT ![p] = [h EXCEPT !.step = "backing"]]
    BY <1>4 DEF HumanUndoesMove, TypeOK
  <2>2. human' \in [Human -> Request]
    BY <1>1, <2>1, RequestStep DEF TypeOK, HumanStep
  <2>3. [fields |-> h.fields \cap Meta, card |-> h.card, row |-> h.before] \in Telling
    BY <1>1 DEF Telling, Request
  <2>4. tell' \in [Human -> Telling]
    BY <1>4, <2>3 DEF HumanUndoesMove, Told, TypeOK
  <2> QED
    BY <1>2, <1>4, <2>2, <2>4, BoundsType, TypeByParts DEF HumanUndoesMove, TypeOK, Exists, api
<1> QED
  BY <1>3, <1>4

LEMMA EditTakenType ==
    ASSUME TypeOK, NEW p \in Human, EditTaken(p) \/ EditRefused(p)
    PROVE  /\ human' \in [Human -> Request]
           /\ spec' = spec \/ (spec' \in [Caller -> Handler] /\ \A x \in Caller : Sane(spec'[x]))
<1> DEFINE h == human[p]
<1>1. h \in Request
  BY DEF TypeOK
<1>2. CASE EditTaken(p) /\ h.step = "telling" /\ Moved(p)
  <2>1. human' = [human EXCEPT ![p] = [h EXCEPT !.step = "moving"]]
    BY <1>2 DEF EditTaken, MovesOn, TypeOK
  <2>2. human' \in [Human -> Request]
    BY <1>1, <2>1, RequestStep DEF TypeOK, HumanStep
  <2>3. h.new.list \in Lists \cup {None, "deleted"} /\ h.card \in Card \cup {None}
    BY <1>1 DEF Request, Row
  <2>4. [Idle EXCEPT !.step = "load", !.op = "move", !.card = h.card, !.to = h.new.list]
           \in Handler
    BY <2>3, Records DEF Handler, SpecStep, Op
  <2>5. Sane([Idle EXCEPT !.step = "load", !.op = "move", !.card = h.card, !.to = h.new.list])
    BY DEF Sane, Idle
  <2> QED
    BY <1>2, <2>2, <2>4, <2>5, SpecType DEF EditTaken, MovesOn, Caller
<1>3. CASE EditTaken(p) /\ ~(h.step = "telling" /\ Moved(p))
  BY <1>3, Records DEF EditTaken, Finished, TypeOK
<1>4. CASE EditRefused(p)
  <2>1. [h EXCEPT !.step = "undo"] \in Request /\ Rested("refused") \in Request
    BY <1>1, RequestStep, Records DEF HumanStep
  <2> QED
    BY <1>4, <2>1 DEF EditRefused, TypeOK
<1> QED
  BY <1>2, <1>3, <1>4

LEMMA TypeHumanWaits ==
    ASSUME TypeOK, NEW p \in Human, HumanGivesUp(p) \/ HumanCutOff(p)
    PROVE  TypeOK'
<1>1. CASE HumanGivesUp(p) /\ human[p].step = "moving"
  <2>1. human' = [human EXCEPT ![p] = [human[p] EXCEPT !.step = "unmove"]] /\ UNCHANGED spec
    BY <1>1 DEF HumanGivesUp, TypeOK
  <2>2. human' \in [Human -> Request]
    BY <2>1, RequestStep DEF TypeOK, HumanStep
  <2> QED
    BY <1>1, <2>1, <2>2, BoundsType, TypeByParts DEF HumanGivesUp, TypeOK, Exists
<1>2. CASE HumanGivesUp(p) /\ human[p].step # "moving"
  BY <1>2, EditTakenType, BoundsType, TypeByParts DEF HumanGivesUp, TypeOK, Exists
<1>3. CASE HumanCutOff(p)
  <2>1. human' \in [Human -> Request]
    BY <1>3, Records DEF HumanCutOff, Finished, TypeOK
  <2> QED
    BY <1>3, <2>1, BoundsType, TypeByParts DEF HumanCutOff, TypeOK, Exists
<1> QED
  BY <1>1, <1>2, <1>3

LEMMA TypeHumanDeletes ==
    ASSUME TypeOK, NEW k \in Card, HumanDeletes(k)
    PROVE  TypeOK'
<1>1. card' \in [Card -> Row]
  BY Records DEF HumanDeletes, TypeOK
<1> QED
  BY <1>1, BoundsType, TypeByParts DEF HumanDeletes, TypeOK, Exists, api

LEMMA TypeHumanShifts ==
    ASSUME TypeOK, NEW k \in Card, NEW f \in {"list", "member"}, NEW new \in Shown,
           HumanShifts(k, f, new)
    PROVE  TypeOK'
<1>1. new \in Row /\ card[k] \in Row /\ {f} \in SUBSET Fields
  BY DEF Shown, Row, TypeOK, TextOrNone, MemberOrNone, Fields, Columns
<1>2. card' \in [Card -> Row]
  BY <1>1, OverlayRow DEF HumanShifts, TypeOK
<1>3. Serves({f}) /\ UNCHANGED <<task, link, spec, human, tell>>
  BY DEF HumanShifts, api
<1> QED
  BY <1>2, <1>3, ServesType, TypeByParts DEF TypeOK, Exists

LEMMA TypeEditArrives ==
    ASSUME TypeOK, NEW p \in Human, SpecTakesEdit(p) \/ EditLost(p)
    PROVE  TypeOK'
<1>1. tell' \in [Human -> Telling]
  BY Records DEF SpecTakesEdit, EditLost, TypeOK
<1>2. /\ human' \in [Human -> Request]
      /\ spec' = spec \/ (spec' \in [Caller -> Handler] /\ \A x \in Caller : Sane(spec'[x]))
  BY EditTakenType DEF SpecTakesEdit, EditLost, TypeOK
<1>3. CASE SpecTakesEdit(p)
  <2> DEFINE t == tell[p]
  <2>1. t.row \in Row /\ t.fields \in SUBSET Meta
    BY DEF TypeOK, Telling
  <2> DEFINE row == Overlay(task, t.row, t.fields)
  <2>2. row \in TaskRow /\ row.life = task.life /\ row.list = task.list
    BY <2>1, OverlayTask DEF TypeOK
  <2> HIDE DEF row
  <2>3. [row EXCEPT !.version = @ + 1] \in TaskRow
        /\ [row EXCEPT !.version = @ + 1].life = task.life
        /\ [row EXCEPT !.version = @ + 1].list = task.list
    BY <2>2 DEF TaskRow
  <2>4. task' = task \/ task' = [row EXCEPT !.version = @ + 1]
    BY <1>3 DEF SpecTakesEdit, row
  <2>5. task' \in TaskRow /\ (Exists' => task'.list \in Statuses)
    BY <2>3, <2>4 DEF TypeOK, Exists
  <2> QED
    BY <1>1, <1>2, <1>3, <2>5, BoundsType, TypeByParts DEF SpecTakesEdit, TypeOK
<1>4. CASE EditLost(p)
  BY <1>1, <1>2, <1>4, BoundsType, TypeByParts DEF EditLost, TypeOK, Exists
<1> QED
  BY <1>3, <1>4

LEMMA InIf ==
    ASSUME NEW g \in BOOLEAN, NEW row, NEW r \in If(g, row)
    PROVE  g /\ r = row
  BY DEF If

\* A row of a task with some columns and its version changed.
LEMMA TaskRowStep ==
    ASSUME NEW t \in TaskRow, NEW l \in Statuses, NEW m \in MemberOrNone,
           NEW f \in {"active", "archived"}, NEW v \in Nat
    PROVE  /\ [t EXCEPT !.list = l, !.member = m, !.life = f, !.version = v] \in TaskRow
           /\ [t EXCEPT !.list = l, !.version = v] \in TaskRow
           /\ [t EXCEPT !.life = f, !.version = v] \in TaskRow
           /\ [t EXCEPT !.list = l, !.member = m, !.version = v] \in TaskRow
  BY DEF TaskRow

\* What an operation does to the row.
LEMMA OutcomeOf ==
    ASSUME TypeOK, NEW x \in Caller, spec[x].step = "write", NEW new \in Outcome(x)
    PROVE  /\ new \in TaskRow /\ new.list \in Statuses
           /\ spec[x].op \in {"claim", "release", "status"} =>
                 /\ Exists /\ new.life = task.life
                 /\ new.text = task.text
           /\ spec[x].op = "archive" => Exists /\ new.life = "archived"
           /\ spec[x].op = "edit" => Exists /\ new.life = task.life
           /\ spec[x].op = "unarchive" => Exists /\ new.life = "active"
           /\ spec[x].op = "create" => new.life = "active"
<1> DEFINE s == spec[x]
           r == s.row
<1>1. /\ s \in Handler /\ r \in TaskRow /\ s.new \in Row \cup Content /\ task \in TaskRow
      /\ Exists => task.list \in Statuses
      /\ Meta \in SUBSET Fields /\ Meta \in SUBSET Meta
      /\ task.version \in Nat /\ r.version \in Nat /\ task.version + 1 \in Nat
      /\ r.version + 1 \in Nat /\ task.member \in MemberOrNone
      /\ Exists => task.life \in {"active", "archived"}
  <2>1. s \in Handler /\ task \in TaskRow /\ (Exists => task.list \in Statuses)
    BY DEF TypeOK
  <2>2. r \in TaskRow /\ s.new \in Row \cup Content
    BY <2>1 DEF Handler
  <2>3. task.version \in Nat /\ r.version \in Nat /\ task.member \in MemberOrNone
    BY <2>1, <2>2 DEF TaskRow
  <2> QED
    BY <2>1, <2>2, <2>3 DEF Meta, Fields, Columns, Exists
<1>2. s.op \in {"claim", "release", "status", "edit", "archive", "unarchive", "create"}
  <2>1. s.op \notin {"none", "move", "delete", "resync"} /\ s.op \in Op
    BY <1>1 DEF TypeOK, Handler
  <2> QED
    BY <2>1 DEF Op
<1>3. CASE s.op = "claim"
  <2>1. new \in Claimed(x, r)
    BY <1>3 DEF Outcome
  <2> DEFINE orphan == (~(r.list = "tasks") /\ r.list # "concluido" /\ r.member = None)
             l == IF orphan THEN task.list ELSE "em_andamento"
  <2>2. /\ task.life = "active"
        /\ new = [task EXCEPT !.list = l, !.member = x, !.version = task.version + 1]
    BY <2>1, <1>1 DEF Claimed, If, Written, TaskRow
  <2>3. l \in Statuses /\ Exists /\ x \in MemberOrNone
    BY <1>1, <2>2 DEF Exists, Statuses, MemberOrNone
  <2> HIDE DEF l
  <2>4. new \in TaskRow
    BY <1>1, <2>2, <2>3, TaskRowStep
  <2> QED
    BY <1>1, <1>3, <2>2, <2>3, <2>4 DEF TaskRow
<1>4. CASE s.op = "release"
  <2>1. new \in Released(r)
    BY <1>4 DEF Outcome
  <2> DEFINE l == IF r.list = "tasks" THEN task.list ELSE "tasks"
             m == IF r.member = None THEN task.member ELSE None
  <2>2. /\ Exists
        /\ new = [task EXCEPT !.list = l, !.member = m, !.version = r.version + 1]
    BY <2>1, <1>1 DEF Released, If, TaskRow
  <2>3. l \in Statuses /\ m \in MemberOrNone
    BY <1>1, <2>2 DEF Statuses, MemberOrNone
  <2> HIDE DEF l, m
  <2>4. new \in TaskRow
    BY <1>1, <2>2, <2>3, TaskRowStep
  <2> QED
    BY <1>1, <1>4, <2>2, <2>3, <2>4 DEF TaskRow
<1>5. CASE s.op = "status"
  <2>1. s.to \in Statuses
    BY <1>5 DEF TypeOK
  <2>2. new \in If(r.life = "active" /\ Kept(r), Written([task EXCEPT !.list = s.to]))
    BY <1>5 DEF Outcome
  <2>3. Exists /\ new = Written([task EXCEPT !.list = s.to])
    BY <2>2 DEF If, Kept
  <2>4. new = [task EXCEPT !.list = s.to, !.version = task.version + 1]
    BY <1>1, <2>3 DEF Written, TaskRow
  <2>5. new \in TaskRow
    BY <1>1, <2>1, <2>4, TaskRowStep
  <2> QED
    BY <1>1, <1>5, <2>1, <2>3, <2>4, <2>5 DEF TaskRow
<1>6. CASE s.op = "edit"
  <2> DEFINE o == Overlay(task, s.new, Meta)
  <2>1. new \in If(Kept(r), Written(o))
    BY <1>6 DEF Outcome
  <2> HIDE DEF o
  <2>2. Exists /\ new = [o EXCEPT !.version = task.version + 1]
    BY <2>1 DEF If, Kept, Written
  <2>3. o \in TaskRow /\ o.life = task.life /\ o.list = task.list
    BY <1>1, OverlayTask DEF o
  <2> QED
    BY <1>1, <1>6, <2>2, <2>3 DEF TaskRow
<1>7. CASE s.op = "archive"
  <2>1. new \in If(r.life = "active" /\ Kept(r), Written([task EXCEPT !.life = "archived"]))
    BY <1>7 DEF Outcome
  <2>2. Exists /\ new = Written([task EXCEPT !.life = "archived"])
    BY <2>1 DEF If, Kept
  <2>3. new = [task EXCEPT !.life = "archived", !.version = task.version + 1]
    BY <1>1, <2>2 DEF Written, TaskRow
  <2> QED
    BY <1>1, <1>7, <2>2, <2>3 DEF TaskRow
<1>8. CASE s.op = "unarchive"
  <2>1. new \in If(r.life = "archived" /\ Kept(r), Written([task EXCEPT !.life = "active"]))
    BY <1>8 DEF Outcome
  <2>2. Exists /\ new = Written([task EXCEPT !.life = "active"])
    BY <2>1 DEF If, Kept
  <2>3. new = [task EXCEPT !.life = "active", !.version = task.version + 1]
    BY <1>1, <2>2 DEF Written, TaskRow
  <2> QED
    BY <1>1, <1>8, <2>2, <2>3 DEF TaskRow
<1>9. CASE s.op = "create"
  <2> DEFINE t == [NoTask EXCEPT !.life = "active", !.list = "tasks"]
  <2>1. t \in TaskRow /\ t.list \in Statuses /\ t.life = "active"
    BY Records DEF TaskRow, NoTask, Statuses
  <2>2. Outcome(x) = {Overlay(t, s.new, Meta)}
    BY <1>9 DEF Outcome
  <2> HIDE DEF t
  <2>3. new = Overlay(t, s.new, Meta)
    BY <2>2
  <2> QED
    BY <1>1, <1>9, <2>1, <2>3, OverlayTask
<1> QED
  BY <1>2, <1>3, <1>4, <1>5, <1>6, <1>7, <1>8, <1>9

LEMMA TypeAgentCalls ==
    ASSUME TypeOK, NEW a \in Agent,
           NEW op \in {"claim", "release", "archive", "unarchive", "delete", "resync",
                       "status", "create", "edit"},
           NEW to \in Statuses \cup {"none"}, NEW new \in Row \cup Content,
           op = "status" => to \in Statuses, AgentCalls(a, op, to, new)
    PROVE  TypeOK'
<1> DEFINE s == [Idle EXCEPT !.step = First(op), !.op = op, !.to = to, !.new = new,
                             !.row = task, !.full = (op = "resync")]
<1>1. First(op) \in {"remove", "snap", "write"}
      /\ (First(op) = "write" => op \notin {"none", "move", "delete", "resync"})
  BY DEF First
<1>2. s.step = First(op) /\ s.op = op /\ s.to = to /\ s.row = task
  BY DEF Idle
<1>3. s \in Handler
  <2>1. /\ First(op) \in SpecStep /\ op \in Op /\ to \in Lists \cup {None, "deleted", "none"}
        /\ task \in TaskRow
    BY <1>1 DEF SpecStep, Op, Lists, TypeOK
  <2> DEFINE fl == (op = "resync")
  <2>2. fl \in BOOLEAN
    OBVIOUS
  <2> HIDE DEF fl
  <2>3. Idle \in Handler
    BY Records
  <2>4. [Idle EXCEPT !.step = First(op), !.op = op, !.to = to, !.new = new, !.row = task,
                     !.full = fl] \in Handler
    BY <2>1, <2>2, <2>3 DEF Handler
  <2> QED
    BY <2>4 DEF fl
<1>4. Sane(s)
  BY <1>1, <1>2 DEF Sane
<1>5. spec' = [spec EXCEPT ![a] = s] /\ a \in Caller
  BY DEF AgentCalls, TypeOK, Caller
<1> HIDE DEF s
<1> QED
  BY <1>3, <1>4, <1>5, SpecType, BoundsType, TypeByParts DEF AgentCalls, TypeOK, Exists, planka

LEMMA TypeHearsMove ==
    ASSUME TypeOK, NEW p \in Human, SpecHearsMove(p)
    PROVE  TypeOK'
<1>1. p \in Caller /\ spec[p] \in Handler
  BY DEF TypeOK, Caller
<1>2. CASE \E ok : Ended(p, ok)
  BY <1>1, <1>2, EndedType, BoundsType, TypeByParts DEF SpecHearsMove, TypeOK, Exists
<1>3. CASE ~\E ok : Ended(p, ok)
  <2>1. PICK op \in {"claim", "release", "status"} :
          /\ op = "status" => spec[p].to \in Statuses
          /\ spec' = [spec EXCEPT ![p].step = "write", ![p].op = op, ![p].row = task]
          /\ UNCHANGED human
    BY <1>3 DEF SpecHearsMove
  <2> DEFINE s == [spec[p] EXCEPT !.step = "write", !.op = op, !.row = task]
  <2>2. s \in Handler /\ Sane(s) /\ spec' = [spec EXCEPT ![p] = s]
    BY <1>1, <2>1 DEF Handler, SpecStep, Op, Sane, TypeOK
  <2> HIDE DEF s
  <2> QED
    BY <1>1, <2>1, <2>2, SpecType, BoundsType, TypeByParts DEF SpecHearsMove, TypeOK, Exists
<1> QED
  BY <1>2, <1>3

LEMMA TypeSpecWrites ==
    ASSUME TypeOK, NEW x \in Caller, SpecWrites(x)
    PROVE  TypeOK'
<1>1. CASE Outcome(x) = {}
  BY <1>1, EndedType, BoundsType, TypeByParts DEF SpecWrites, TypeOK, Exists
<1>2. CASE Outcome(x) # {}
  <2>1. task' \in TaskRow /\ task'.list \in Statuses
    BY <1>2, OutcomeOf DEF SpecWrites
  <2> DEFINE st == IF spec[x].op = "archive" THEN "remove" ELSE "snap"
             fl == spec[x].op \in {"edit", "create", "unarchive"}
             s == [spec[x] EXCEPT !.step = st, !.full = fl]
  <2>2. spec[x] \in Handler /\ st \in SpecStep /\ st \in {"remove", "snap"}
    BY DEF TypeOK, SpecStep
  <2>3. fl \in BOOLEAN
    OBVIOUS
  <2>4. spec' = [spec EXCEPT ![x].step = st, ![x].full = fl] /\ UNCHANGED human
        /\ Normal /\ UNCHANGED <<link, card, tell>>
    BY <1>2 DEF SpecWrites
  <2>5. spec[x].op = "status" => spec[x].to \in Statuses
    BY DEF TypeOK
  <2> HIDE DEF st, fl
  <2>6. spec' = [spec EXCEPT ![x] = s]
    BY <2>4 DEF TypeOK
  <2>7. s \in Handler
    BY <2>2, <2>3 DEF Handler
  <2>8. s.step \in {"remove", "snap"} /\ s.op = spec[x].op /\ s.to = spec[x].to
    BY <2>2 DEF Handler
  <2>9. Sane(s)
    BY <2>5, <2>8 DEF Sane
  <2> HIDE DEF s
  <2>10. spec' \in [Caller -> Handler] /\ \A y \in Caller : Sane(spec'[y])
    BY <2>6, <2>7, <2>9, SpecType
  <2> QED
    BY <2>1, <2>4, <2>10, BoundsType, TypeByParts DEF TypeOK
<1> QED
  BY <1>1, <1>2

LEMMA FailedType ==
    ASSUME TypeOK, NEW x \in Caller, Failed(x)
    PROVE  /\ task' \in TaskRow /\ (Exists' => task'.list \in Statuses)
           /\ human' \in [Human -> Request]
           /\ spec' \in [Caller -> Handler] /\ \A y \in Caller : Sane(spec'[y])
<1>1. task' \in TaskRow /\ (Exists' => task'.list \in Statuses)
  BY DEF Failed, TypeOK, TaskRow, Exists
<1>2. PICK ok : Ended(x, ok)
  BY DEF Failed
<1> QED
  BY <1>1, <1>2, EndedType

LEMMA TypeMirrorReads ==
    ASSUME TypeOK, NEW x \in Caller, MirrorReads(x)
    PROVE  TypeOK'
<1>1. CASE Exists
  <2> DEFINE fl == spec[x].full \/ link = None
             s == [spec[x] EXCEPT !.step = "send", !.row = task, !.card = link, !.full = fl]
  <2>1. spec[x] \in Handler /\ "send" \in SpecStep /\ link \in Card \cup {None} /\ task \in TaskRow
        /\ task.list \in Statuses
    BY <1>1 DEF TypeOK, SpecStep
  <2>2. spec[x].full \in BOOLEAN /\ fl \in BOOLEAN
    BY <2>1 DEF Handler
  <2>3. /\ spec' = [spec EXCEPT ![x].step = "send", ![x].row = task, ![x].card = link,
                                ![x].full = spec[x].full \/ link = None]
        /\ UNCHANGED <<human, task>>
    BY <1>1 DEF MirrorReads, TypeOK
  <2> HIDE DEF fl
  <2>4. spec' = [spec EXCEPT ![x] = s]
    BY <2>3 DEF TypeOK, fl
  <2>5. s \in Handler
    BY <2>1, <2>2 DEF Handler
  <2>6. s.step = "send" /\ s.op = spec[x].op /\ s.to = spec[x].to /\ s.row = task
    BY <2>1 DEF Handler
  <2>7. Sane(s)
    BY <2>1, <2>6 DEF Sane, TypeOK
  <2> HIDE DEF s
  <2>8. spec' \in [Caller -> Handler] /\ \A y \in Caller : Sane(spec'[y])
    BY <2>4, <2>5, <2>7, SpecType
  <2> QED
    BY <2>3, <2>8, BoundsType, TypeByParts DEF MirrorReads, TypeOK, Exists
<1>2. CASE ~Exists
  BY <1>2, FailedType, BoundsType, TypeByParts DEF MirrorReads, TypeOK
<1> QED
  BY <1>1, <1>2

\* The rows a mirror leaves in PLANKA.
LEMMA MirrorRows ==
    ASSUME TypeOK, NEW x \in Caller
    PROVE  /\ Sent(x) \in SUBSET Columns /\ Sent(x) \in SUBSET Fields
           /\ spec[x].card \in Card => Patched(x) \in [Card -> Row]
           /\ \A k \in Card : Posted(x, k) \in [Card -> Row]
<1>1. spec[x].row \in TaskRow /\ NoRow \in Row /\ Sent(x) \in SUBSET Columns
      /\ Sent(x) \in SUBSET Fields /\ {"list", "text"} \in SUBSET Fields
  BY Records DEF TypeOK, Handler, Sent, Fields, Columns
<1>2. ASSUME spec[x].card \in Card
      PROVE  Patched(x) \in [Card -> Row]
  <2>1. card[spec[x].card] \in Row
    BY <1>2 DEF TypeOK
  <2>2. Overlay(card[spec[x].card], spec[x].row, Sent(x)) \in Row
    BY <1>1, <2>1, OverlayCard
  <2> QED
    BY <1>2, <2>2 DEF Patched, TypeOK
<1>3. Overlay(NoRow, spec[x].row, {"list", "text"}) \in Row
  BY <1>1, OverlayCard
<1> QED
  BY <1>1, <1>2, <1>3 DEF Posted, TypeOK

LEMMA ThereCard ==
    ASSUME TypeOK, NEW k \in Card \cup {None}, There(k)
    PROVE  k \in Card /\ card[k].list \in Lists
  BY DEF There

\* A handler takes its next step, and nothing else of it changes.
LEMMA StepType ==
    ASSUME TypeOK, NEW x \in Caller, NEW st \in SpecStep \ {"write", "send"},
           spec' = [spec EXCEPT ![x].step = st]
    PROVE  spec' \in [Caller -> Handler] /\ \A y \in Caller : Sane(spec'[y])
<1> DEFINE s == [spec[x] EXCEPT !.step = st]
<1>1. spec[x] \in Handler
  BY DEF TypeOK
<1>2. s \in Handler
  BY <1>1 DEF Handler
<1>3. s.step = st /\ s.op = spec[x].op /\ s.to = spec[x].to
  BY <1>1 DEF Handler
<1>4. Sane(s)
  BY <1>3 DEF Sane, TypeOK
<1>5. spec' = [spec EXCEPT ![x] = s]
  BY DEF TypeOK
<1> HIDE DEF s
<1> QED
  BY <1>2, <1>4, <1>5, SpecType

LEMMA TypeMirrorSends ==
    ASSUME TypeOK, NEW x \in Caller, MirrorSends(x)
    PROVE  TypeOK'
<1>1. spec[x] \in Handler /\ spec[x].card \in Card \cup {None}
  BY DEF TypeOK, Handler
<1>2. CASE /\ There(spec[x].card) /\ card' = Patched(x)
           /\ spec' = [spec EXCEPT ![x].step = "assign"] /\ UNCHANGED <<human, task>>
  <2>1. card' \in [Card -> Row]
    BY <1>1, <1>2, ThereCard, MirrorRows
  <2>2. spec' \in [Caller -> Handler] /\ \A y \in Caller : Sane(spec'[y])
    BY <1>2, StepType DEF SpecStep
  <2> QED
    BY <1>2, <2>1, <2>2, BoundsType, TypeByParts DEF MirrorSends, TypeOK, Exists
<1>3. ASSUME NEW k \in Card, card' = Posted(x, k),
             spec' = [spec EXCEPT ![x].step = "link", ![x].card = k],
             UNCHANGED <<human, task>>
      PROVE  TypeOK'
  <2> DEFINE s == [spec[x] EXCEPT !.step = "link", !.card = k]
  <2>1. s \in Handler
    BY <1>1 DEF Handler, SpecStep
  <2>2. s.step = "link" /\ s.op = spec[x].op /\ s.to = spec[x].to
    BY <1>1 DEF Handler
  <2>3. Sane(s)
    BY <2>2 DEF Sane, TypeOK
  <2>4. spec' = [spec EXCEPT ![x] = s]
    BY <1>3 DEF TypeOK
  <2> HIDE DEF s
  <2>5. spec' \in [Caller -> Handler] /\ \A y \in Caller : Sane(spec'[y])
    BY <2>1, <2>3, <2>4, SpecType
  <2>6. card' \in [Card -> Row]
    BY <1>3, MirrorRows
  <2> QED
    BY <1>3, <2>5, <2>6, BoundsType, TypeByParts DEF MirrorSends, TypeOK, Exists
<1>4. CASE Failed(x) /\ UNCHANGED card
  BY <1>4, FailedType, BoundsType, TypeByParts DEF MirrorSends, TypeOK
<1> QED
  BY <1>2, <1>3, <1>4 DEF MirrorSends

LEMMA TypeMirrorLinks ==
    ASSUME TypeOK, NEW x \in Caller, MirrorLinks(x)
    PROVE  TypeOK'
<1>1. spec' \in [Caller -> Handler] /\ \A y \in Caller : Sane(spec'[y])
  BY StepType DEF MirrorLinks, SpecStep
<1>2. link' \in Card \cup {None}
  BY DEF MirrorLinks, TypeOK, Handler
<1> QED
  BY <1>1, <1>2, BoundsType, TypeByParts DEF MirrorLinks, TypeOK, Exists, planka

LEMMA TypeMirrorAssigns ==
    ASSUME TypeOK, NEW x \in Caller, MirrorAssigns(x)
    PROVE  TypeOK'
<1>1. CASE There(spec[x].card)
  <2>1. spec[x].card \in Card /\ card[spec[x].card] \in Row /\ spec[x].row.member \in MemberOrNone
    BY <1>1, ThereCard DEF TypeOK, Handler, TaskRow
  <2>2. [card[spec[x].card] EXCEPT !.member = spec[x].row.member] \in Row
    BY <2>1 DEF Row
  <2>3. card' \in [Card -> Row]
    BY <1>1, <2>1, <2>2 DEF MirrorAssigns, TypeOK
  <2>4. settled' \subseteq Everything /\ alone' \in BOOLEAN
    BY <1>1 DEF MirrorAssigns, TypeOK, Sent, Everything, Columns
  <2> QED
    BY <1>1, <2>3, <2>4, EndedType, TypeByParts DEF MirrorAssigns, TypeOK, Exists
<1>2. CASE ~There(spec[x].card)
  BY <1>2, FailedType, BoundsType, TypeByParts DEF MirrorAssigns, TypeOK
<1> QED
  BY <1>1, <1>2

LEMMA TypeMirrorRemoves ==
    ASSUME TypeOK, NEW x \in Caller, MirrorRemoves(x) \/ MirrorUnlinks(x) \/ SpecDrops(x)
    PROVE  TypeOK'
<1>1. CASE MirrorRemoves(x)
  <2>1. card' \in [Card -> Row]
    BY <1>1, Records DEF MirrorRemoves, TypeOK
  <2>2. spec' \in [Caller -> Handler] /\ \A y \in Caller : Sane(spec'[y])
    BY <1>1, StepType DEF MirrorRemoves, SpecStep
  <2> QED
    BY <1>1, <2>1, <2>2, BoundsType, TypeByParts DEF MirrorRemoves, TypeOK, Exists
<1>2. CASE MirrorUnlinks(x)
  <2>1. /\ spec' \in [Caller -> Handler] /\ \A y \in Caller : Sane(spec'[y])
        /\ human' \in [Human -> Request]
    <3>1. CASE spec[x].op = "delete"
      BY <1>2, <3>1, StepType DEF MirrorUnlinks, SpecStep, TypeOK
    <3> QED
      BY <1>2, <3>1, EndedType DEF MirrorUnlinks
  <2> QED
    BY <1>2, <2>1, BoundsType, TypeByParts DEF MirrorUnlinks, TypeOK, Exists
<1>3. CASE SpecDrops(x)
  <2>1. task' \in TaskRow /\ (Exists' => task'.list \in Statuses)
    BY <1>3 DEF SpecDrops, TypeOK, TaskRow, Exists
  <2> QED
    BY <1>3, <2>1, EndedType, BoundsType, TypeByParts DEF SpecDrops, TypeOK
<1> QED
  BY <1>1, <1>2, <1>3

LEMMA TypeMirrorFails ==
    ASSUME TypeOK, NEW x \in Caller, MirrorTimesOut(x) \/ SpecCutOff(x)
    PROVE  TypeOK'
<1>1. CASE MirrorTimesOut(x)
  <2>1. spec[x].card \in Card \cup {None} /\ link \in Card \cup {None}
    BY DEF TypeOK, Handler
  <2>2. card' \in [Card -> Row]
    <3>1. CASE spec[x].step = "send" /\ There(spec[x].card) /\ card' \in {card, Patched(x)}
      BY <2>1, <3>1, ThereCard, MirrorRows DEF TypeOK
    <3>2. CASE \E k \in Card : card[k] = NoRow /\ card' \in {card, Posted(x, k)}
      BY <3>2, MirrorRows DEF TypeOK
    <3>3. CASE UNCHANGED card
      BY <3>3 DEF TypeOK
    <3>4. CASE card' \in {card, [card EXCEPT ![link] = Deleted]}
      BY <3>4, Records DEF TypeOK
    <3> QED
      BY <1>1, <3>1, <3>2, <3>3, <3>4 DEF MirrorTimesOut
  <2> QED
    BY <1>1, <2>2, FailedType, BoundsType, TypeByParts DEF MirrorTimesOut, TypeOK
<1>2. CASE SpecCutOff(x)
  BY <1>2, EndedType, BoundsType, TypeByParts DEF SpecCutOff, TypeOK, Exists
<1> QED
  BY <1>1, <1>2

-----------------------------------------------------------------------------
(* The type invariant                                                      *)

LEMMA TypeInit ==
    ASSUME MirrorAssumption, Init
    PROVE  TypeOK
<1>1. /\ human \in [Human -> Request] /\ tell \in [Human -> Telling]
      /\ spec \in [Caller -> Handler] /\ \A x \in Caller : Sane(spec[x])
  BY Records, IdleSane DEF Init
<1>2. settled \subseteq Everything /\ alone \in BOOLEAN
  BY DEF Init
<1>3. task \in TaskRow /\ (Exists => task.list \in Statuses) /\ link \in Card \cup {None}
      /\ card \in [Card -> Row]
  <2>1. CASE task = NoTask /\ link = None /\ card = [k \in Card |-> NoRow]
    BY <2>1, Records DEF NoTask, Exists
  <2>2. ASSUME NEW k \in Card, NEW t \in Text,
               task = [NoTask EXCEPT !.life = "active", !.list = "tasks", !.text = t],
               link = k,
               card = [[c \in Card |-> NoRow] EXCEPT ![k] = Overlay(NoRow, task, Columns)]
        PROVE  /\ task \in TaskRow /\ (Exists => task.list \in Statuses)
               /\ link \in Card \cup {None} /\ card \in [Card -> Row]
    <3>1. task \in TaskRow /\ task.list \in Statuses
      BY <2>2 DEF NoTask, TaskRow, Statuses, TextOrNone, MemberOrNone
    <3>2. Overlay(NoRow, task, Columns) \in Row
      BY <3>1, Records, OverlayCard DEF Fields
    <3> QED
      BY <2>2, <3>1, <3>2, Records
  <2> QED
    BY <2>1, <2>2 DEF Init
<1> QED
  BY <1>1, <1>2, <1>3 DEF TypeOK, Sane

LEMMA TypeNext ==
    ASSUME MirrorAssumption, TypeOK, [Next]_vars
    PROVE  TypeOK'
<1>1. CASE HumanNext
  BY <1>1, TypeHumanStarts, TypeHumanWrites, TypeHumanUndoes, TypeHumanWaits, TypeHumanDeletes,
     TypeHumanShifts
  DEF HumanNext
<1>2. CASE SpecNext
  <2>1. CASE \E p \in Human : SpecTakesEdit(p) \/ EditLost(p) \/ SpecHearsMove(p)
    BY <2>1, TypeEditArrives, TypeHearsMove
  <2>2. ASSUME NEW a \in Agent,
               NEW op \in {"claim", "release", "archive", "unarchive", "delete", "resync"},
               AgentCalls(a, op, "none", NoRow)
        PROVE  TypeOK'
    BY <2>2, TypeAgentCalls, Records
  <2>3. ASSUME NEW a \in Agent, NEW to \in Statuses, AgentCalls(a, "status", to, NoRow)
        PROVE  TypeOK'
    BY <2>3, TypeAgentCalls, Records
  <2>4. ASSUME NEW a \in Agent, NEW op \in {"create", "edit"}, NEW new \in Content,
               AgentCalls(a, op, "none", new)
        PROVE  TypeOK'
    BY <2>4, TypeAgentCalls
  <2>5. CASE \E x \in Caller : SpecWrites(x) \/ SpecDrops(x) \/ SpecCutOff(x)
    BY <2>5, TypeSpecWrites, TypeMirrorRemoves, TypeMirrorFails
  <2> QED
    BY <1>2, <2>1, <2>2, <2>3, <2>4, <2>5 DEF SpecNext
<1>3. CASE MirrorNext
  BY <1>3, TypeMirrorReads, TypeMirrorSends, TypeMirrorLinks, TypeMirrorAssigns,
     TypeMirrorRemoves, TypeMirrorFails DEF MirrorNext
<1>4. CASE UNCHANGED vars
  BY <1>4 DEF vars, bounds, TypeOK, Exists
<1> QED
  BY <1>1, <1>2, <1>3, <1>4 DEF Next

(***************************************************************************)
(* The rows of both sides, the requests, the edits on their way and the    *)
(* handlers have their types in every state, and a handler is at its       *)
(* UPDATE only with an operation that has one (task_lock.py).              *)
(***************************************************************************)
THEOREM TypeCorrect == MirrorAssumption => (Spec => []TypeOK)
<1> SUFFICES ASSUME MirrorAssumption PROVE Spec => []TypeOK
  OBVIOUS
<1>1. Init => TypeOK
  BY TypeInit
<1>2. TypeOK /\ [Next]_vars => TypeOK'
  BY TypeNext
<1> QED
  BY <1>1, <1>2, PTL DEF Spec

-----------------------------------------------------------------------------
(* One request at a time                                                   *)

\* A step that changes nothing of the others' requests and handlers.
Only(x) ==
    \A y \in Caller \ {x} :
        spec'[y] = spec[y] /\ (y \in Human => human'[y] = human[y] /\ tell'[y] = tell[y])

LEMMA RestPhase ==
    ASSUME TypeOK', NEW y \in Caller, ~Busy(y)'
    PROVE  Phase(y)'
<1>1. spec'[y] = Idle /\ spec'[y].step = "idle"
  BY DEF Busy, Idle
<1>2. MirrorAlone(y)'
  BY <1>1 DEF MirrorAlone
<1>3. CASE y \in Human
  <2>1. human'[y].step \in {"idle", "confirmed", "refused"} /\ tell'[y] = NoTell
    BY <1>3 DEF Busy, AtRest
  <2>2. Unheard(y)'
    BY <1>1, <2>1 DEF Unheard, Silent
  <2>3. HumanAlone(y)' /\ MoveAlone(y)'
    BY <1>1, <2>1, <2>2 DEF HumanAlone, MoveAlone
  <2> QED
    BY <1>2, <2>3 DEF Phase
<1> QED
  BY <1>2, <1>3 DEF Phase

\* The invariant of the next state, from that of the one caller that moved.
LEMMA Solo ==
    ASSUME TypeOK', NEW x \in Caller, Only(x), (Lone /\ Busy(x)) \/ Quiet, Phase(x)'
    PROVE  AloneOK'
<1>1. ASSUME NEW y \in Caller \ {x}
      PROVE  ~Busy(y)'
  <2>1. ~Busy(y)
    BY DEF Lone, Busy, Quiet
  <2> QED
    BY <2>1 DEF Busy, Only, AtRest
<1>2. Lone'
  BY <1>1 DEF Lone
<1>3. \A y \in Caller : Phase(y)'
  BY <1>1, RestPhase
<1> QED
  BY <1>2, <1>3 DEF AloneOK

LEMMA HumanPhase ==
    ASSUME NEW p \in Human, spec'[p] = Idle, HumanAlone(p)'
    PROVE  Phase(p)'
<1>1. spec'[p].step = "idle"
  BY DEF Idle
<1> QED
  BY <1>1 DEF Phase, MoveAlone, MirrorAlone

LEMMA AgentPhase ==
    ASSUME MirrorAssumption, NEW a \in Agent, MirrorAlone(a)'
    PROVE  Phase(a)'
  BY DEF Phase, MirrorAssumption

\* Nothing is under way when all is quiet.
LEMMA QuietRest ==
    ASSUME Quiet, NEW x \in Caller
    PROVE  ~Busy(x) /\ spec[x] = Idle /\ spec[x].step = "idle"
<1>1. spec[x] = Idle /\ ~Busy(x)
  BY DEF Quiet, Busy
<1>2. Idle.step = "idle"
  BY DEF Idle
<1> QED
  BY <1>1, <1>2

LEMMA QuietIsRest ==
    ASSUME \A x \in Caller : ~Busy(x)
    PROVE  Quiet
  BY DEF Quiet, Busy, Caller

\* What every step by itself must leave.
Effect(x) ==
    /\ Only(x)
    /\ Phase(x)'
    /\ Quiet' => Agree(settled)'

\* A card other than the one written says what it said.
LEMMA AgreeElsewhere ==
    ASSUME TypeOK, Agree(settled), UNCHANGED <<link, settled>>,
           task'.life = "active" => task.life = "active",
           \A f \in Columns : task'[f] = task[f], link \in Card => card'[link] = card[link]
    PROVE  Agree(settled)'
  BY DEF Agree, Open, There, Matches, TypeOK

LEMMA SoloHumanEdits ==
    ASSUME MirrorAssumption, IInv, NEW p \in Human, NEW k \in Card, NEW F \in Edits,
           NEW new \in Shown, HumanEdits(p, k, F, new), Quiet
    PROVE  Effect(p)
<1> DEFINE h == [step |-> "write", card |-> k, fields |-> F, new |-> new, before |-> card[k]]
<1>1. /\ human' = [human EXCEPT ![p] = h] /\ human'[p] = h /\ h.step = "write"
      /\ UNCHANGED <<task, card, link, tell, spec, settled>>
      /\ p \in Caller /\ spec[p] = Idle /\ tell[p] = NoTell
  BY DEF HumanEdits, Served, Serves, IInv, TypeOK, Caller
<1>2. Agree(settled)'
  BY <1>1 DEF IInv, Agree, Open, There, Matches
<1>3. Asked(h)
  BY DEF HumanEdits, Asked, Shown, There
<1>4. ToWrite(p)'
  BY <1>1, <1>2, <1>3 DEF ToWrite, HumanEdits, Asked, Unheard, Silent, There
<1>5. HumanAlone(p)'
  <2> HIDE DEF h
  <2> QED
    BY <1>1, <1>4 DEF HumanAlone, AtRest
<1>6. Phase(p)'
  BY <1>1, <1>5, HumanPhase
<1>7. Only(p)
  BY <1>1 DEF Only, IInv, TypeOK
<1> QED
  BY <1>2, <1>6, <1>7 DEF Effect

\* The columns PLANKA changes without telling are not settled any more.
LEMMA SoloHumanShifts ==
    ASSUME IInv, NEW k \in Card, NEW f \in {"list", "member"}, NEW new \in Shown,
           HumanShifts(k, f, new), Quiet
    PROVE  Agree(settled)'
<1>1. /\ UNCHANGED <<task, link>> /\ settled' = settled \ {f} /\ TypeOK /\ Agree(settled)
      /\ card' = [card EXCEPT ![k] = Overlay(card[k], new, {f})] /\ There(k)
  BY DEF HumanShifts, Serves, IInv, api, TypeOK
<1>2. new \in Row /\ card[k] \in Row /\ {f} \in SUBSET Fields
  BY <1>1 DEF Shown, Row, TypeOK, TextOrNone, MemberOrNone, Fields, Columns
<1>3. \A g \in Columns \ {f} : Overlay(card[k], new, {f})[g] = card[k][g]
  BY <1>2, OverlayColumn
<1>4. CASE link # k
  BY <1>1, <1>4 DEF Agree, Open, There, Matches, TypeOK
<1>5. CASE link = k
  <2>1. Open => Matches(card[k], settled)
    BY <1>1, <1>5 DEF Agree
  <2>2. card'[k] = Overlay(card[k], new, {f})
    BY <1>1 DEF TypeOK
  <2>3. SUFFICES ASSUME Open', NEW g \in (settled \ {f}) \cap Columns
                 PROVE  card'[k][g] = task[g] \/ (g = "list" /\ card'[k].list = "sdd")
    BY <1>1, <1>5 DEF Agree, Matches
  <2>4. card[k][g] = task[g] \/ (g = "list" /\ card[k].list = "sdd")
    BY <1>1, <2>1, <2>3 DEF Open, Matches
  <2>5. card'[k][g] = card[k][g]
    BY <1>3, <2>2, <2>3
  <2> QED
    BY <2>4, <2>5
<1> QED
  BY <1>4, <1>5

LEMMA SoloHumanDeletes ==
    ASSUME IInv, NEW k \in Card, HumanDeletes(k), Quiet
    PROVE  Agree(settled)'
<1>1. /\ UNCHANGED <<task, link, settled>> /\ TypeOK
      /\ card' = [card EXCEPT ![k] = Deleted] /\ Deleted.list \notin Lists
  BY DEF HumanDeletes, Served, Serves, IInv, api, Deleted, NoRow, Lists, Statuses
<1> QED
  BY <1>1 DEF IInv, Agree, Open, There, Matches, TypeOK

\* What alone gives the caller that moves.
LEMMA AlonePhase ==
    ASSUME IInv, alone = TRUE, NEW x \in Caller
    PROVE  Lone /\ Phase(x)
  BY DEF IInv, AloneOK

LEMMA HumanStepPhase ==
    ASSUME IInv, alone = TRUE, NEW p \in Human
    PROVE  p \in Caller /\ Lone /\ HumanAlone(p) /\ MoveAlone(p) /\ MirrorAlone(p)
  BY AlonePhase DEF Phase, Caller

LEMMA SoloHumanWrites ==
    ASSUME MirrorAssumption, IInv, alone = TRUE, NEW p \in Human, HumanWrites(p)
    PROVE  Effect(p)
<1> DEFINE h == human[p]
           row == Overlay(card[h.card], h.new, h.fields)
<1>1. /\ ToWrite(p) /\ h.step = "write" /\ h \in Request /\ h.new \in Row /\ h.before \in Row
      /\ h.fields \in SUBSET Fields /\ p \in Caller /\ TypeOK
  BY HumanStepPhase DEF HumanWrites, HumanAlone, IInv, TypeOK, Request, Fields, Columns
<1>2. /\ Asked(h) /\ There(h.card) /\ card[h.card] = h.before /\ h.card \in Card
      /\ spec[p] = Idle /\ Agree(settled)
  BY <1>1 DEF ToWrite, Unheard, There, Request
<1>3. row = h.new
  <2>1. row \in Row
    BY <1>1, <1>2, OverlayRow
  <2>2. \A f \in Columns : row[f] = h.new[f]
    BY <1>1, <1>2, OverlayColumn DEF Asked
  <2> HIDE DEF row, h
  <2>3. row.list = h.new.list /\ row.text = h.new.text
        /\ row.member = h.new.member
    BY <2>2 DEF Columns
  <2> QED
    BY <1>1, <2>1, <2>3 DEF Row
<1> HIDE DEF row
<1>4. /\ card' = [card EXCEPT ![h.card] = h.new]
      /\ tell' = [tell EXCEPT ![p] = [fields |-> h.fields \cap Meta, card |-> h.card,
                                      row |-> h.new]]
      /\ human' = [human EXCEPT ![p].step = "telling"]
      /\ UNCHANGED <<task, link, spec, settled>>
  BY <1>2, <1>3 DEF HumanWrites, Told, Normal, row
<1>5. /\ human'[p] = [h EXCEPT !.step = "telling"] /\ human'[p].step = "telling"
      /\ human'[p].card = h.card /\ human'[p].fields = h.fields /\ human'[p].new = h.new
      /\ human'[p].before = h.before
  BY <1>1, <1>4 DEF TypeOK, Request
<1>6. Asked(human[p])' /\ Shows(human[p])'
  BY <1>1, <1>2, <1>4, <1>5 DEF Asked, Shows, There, TypeOK
<1>7. Untold(human[p])'
  <2>1. CASE h.card = link
    <3>1. Open => Matches(h.before, settled)
      BY <1>2, <2>1 DEF Agree
    <3> QED
      BY <1>4, <1>5, <2>1, <3>1 DEF Untold, Open, Matches
  <2>2. CASE h.card # link
    <3>1. Agree(settled)'
      BY <1>1, <1>2, <1>4, <2>2, AgreeElsewhere DEF TypeOK
    <3> QED
      BY <1>4, <1>5, <2>2, <3>1 DEF Untold
  <2> QED
    BY <2>1, <2>2
<1>8. ToTell(p)'
  BY <1>1, <1>2, <1>4, <1>5, <1>6, <1>7 DEF ToTell, TypeOK
<1>9. HumanAlone(p)' /\ ~AtRest(p)'
  BY <1>5, <1>8 DEF HumanAlone, AtRest
<1>10. Phase(p)' /\ ~Quiet'
  BY <1>2, <1>4, <1>9, HumanPhase DEF Quiet
<1>11. Only(p)
  BY <1>1, <1>4 DEF Only, TypeOK
<1> QED
  BY <1>10, <1>11 DEF Effect

LEMMA SoloHumanUndoesEdit ==
    ASSUME IInv, alone = TRUE, NEW p \in Human, HumanUndoesEdit(p)
    PROVE  Effect(p)
<1> DEFINE h == human[p]
<1>1. /\ ToUndo(p) /\ h \in Request /\ h.before \in Row /\ p \in Caller /\ TypeOK
      /\ Meta \in SUBSET Fields /\ spec[p] = Idle /\ tell[p] = NoTell
  BY HumanStepPhase
  DEF HumanUndoesEdit, HumanAlone, IInv, TypeOK, Request, Meta, Fields, Columns, ToUndo, Unheard, Silent
<1>2. /\ human' = [human EXCEPT ![p] = Rested("refused")]
      /\ UNCHANGED <<task, link, spec, tell, settled>>
      /\ human'[p].step = "refused"
  BY <1>1 DEF HumanUndoesEdit, Finished, Normal, api, TypeOK, Rested
<1>3. \A k \in Card : card'[k].list = card[k].list /\ (k # h.card => card'[k] = card[k])
  <2>1. CASE There(h.card)
    <3>1. h.card \in Card /\ card[h.card] \in Row
      BY <1>1, <2>1 DEF There, TypeOK, Request
    <3>2. card' = [card EXCEPT ![h.card] = Overlay(card[h.card], h.before, Meta)]
      BY <2>1, <3>1 DEF HumanUndoesEdit, TypeOK
    <3>3. Overlay(card[h.card], h.before, Meta).list = card[h.card].list
      BY <1>1, <3>1, OverlayColumn DEF Columns, Meta
    <3> QED
      BY <1>1, <3>1, <3>2, <3>3 DEF TypeOK
  <2> QED
    BY <2>1 DEF HumanUndoesEdit
<1>4. Agree(settled)'
  <2>1. CASE h.card = link
    BY <1>1, <1>2, <2>1 DEF ToUndo, Agree, Open
  <2>2. CASE h.card # link
    BY <1>1, <1>2, <1>3, <2>2, AgreeElsewhere DEF ToUndo
  <2> QED
    BY <2>1, <2>2
<1>5. ~Busy(p)'
  BY <1>1, <1>2 DEF Busy, AtRest
<1>6. Phase(p)'
  BY <1>1, <1>5, RestPhase, TypeHumanUndoes
<1>7. Only(p)
  BY <1>1, <1>2 DEF Only, TypeOK
<1> QED
  BY <1>4, <1>6, <1>7 DEF Effect

\* No request moves a card and edits its text.
MovesApart == \A F \in Edits : "list" \in F => "text" \notin F

LEMMA SoloHumanUndoesMove ==
    ASSUME MirrorAssumption, MovesApart, IInv, alone = TRUE, NEW p \in Human,
           HumanUndoesMove(p)
    PROVE  Effect(p)
<1> DEFINE h == human[p]
           row == Overlay(card[h.card], h.before, {"list"})
<1>1. /\ ToUnmove(p) /\ h.step = "unmove" /\ h \in Request /\ h.new \in Row /\ h.before \in Row
      /\ p \in Caller /\ TypeOK /\ {"list"} \in SUBSET Fields
      /\ h.fields \in SUBSET {"list", "text", "pos"}
  BY HumanStepPhase DEF HumanUndoesMove, HumanAlone, IInv, TypeOK, Request, Fields, Columns
<1>2. /\ Asked(h) /\ "list" \in h.fields /\ Shows(h) /\ Edited(h) /\ There(h.card)
      /\ h.card \in Card /\ card[h.card] = h.new /\ spec[p] = Idle
      /\ h.before.list \in Lists
  BY <1>1 DEF ToUnmove, Unheard, There, Request, Shows, Asked
<1>3. h.fields \cap Meta = {"pos"}
  BY <1>1, <1>2 DEF Asked, MirrorAssumption, MovesApart, Meta
<1>4. /\ row.list = h.before.list
      /\ row.text = h.new.text /\ row.member = h.new.member
  BY <1>1, <1>2, OverlayColumn DEF Columns
<1>5. row \in Row
  BY <1>1, <1>2, OverlayRow
<1> HIDE DEF row
<1>6. /\ card' = [card EXCEPT ![h.card] = row]
      /\ tell' = [tell EXCEPT ![p] = [fields |-> {"pos"}, card |-> h.card, row |-> h.before]]
      /\ human' = [human EXCEPT ![p].step = "backing"]
      /\ UNCHANGED <<task, link, spec, settled>>
  BY <1>1, <1>2, <1>3 DEF HumanUndoesMove, Told, Normal, row, api
<1>7. /\ human'[p].step = "backing" /\ human'[p].card = h.card /\ human'[p].before = h.before
      /\ tell'[p] = [fields |-> {"pos"}, card |-> h.card, row |-> h.before]
      /\ card'[h.card] = row
  BY <1>1, <1>2, <1>6 DEF TypeOK, Request
<1>8. Agree(settled)'
  <2>1. CASE h.card = link
    <3>1. SUFFICES ASSUME Open', NEW f \in settled \cap Columns
                   PROVE  row[f] = task[f] \/ (f = "list" /\ row.list = "sdd")
      BY <1>4, <1>6, <1>7, <2>1 DEF Agree, Matches
    <3>2. Matches(h.before, settled \cap {"list"}) /\ Matches(h.new, settled \ {"list"})
      BY <1>2, <1>6, <2>1, <3>1 DEF Edited, Open
    <3>3. CASE f = "list"
      BY <1>4, <3>1, <3>2, <3>3 DEF Matches
    <3>4. CASE f \in {"text", "member"}
      BY <1>4, <3>1, <3>2, <3>4 DEF Matches
    <3> QED
      BY <3>1, <3>3, <3>4 DEF Columns
  <2>2. CASE h.card # link
    BY <1>1, <1>2, <1>6, <2>2, AgreeElsewhere DEF Edited, TypeOK
  <2> QED
    BY <2>1, <2>2
<1>9. ToBack(p)'
  BY <1>2, <1>6, <1>7, <1>8 DEF ToBack
<1>10. HumanAlone(p)' /\ ~AtRest(p)'
  BY <1>7, <1>9 DEF HumanAlone, AtRest
<1>11. Phase(p)' /\ ~Quiet'
  BY <1>2, <1>6, <1>10, HumanPhase DEF Quiet
<1>12. Only(p)
  BY <1>1, <1>6 DEF Only, TypeOK
<1> QED
  BY <1>11, <1>12 DEF Effect

-----------------------------------------------------------------------------
(* The edit arrives by itself                                              *)

LEMMA SoloTakesEdit ==
    ASSUME MirrorAssumption, IInv, alone = TRUE, NEW p \in Human, SpecTakesEdit(p)
    PROVE  Effect(p)
<1> DEFINE h == human[p]
           t == tell[p]
           mapped == h.card = link
<1>1. /\ HumanAlone(p) /\ h \in Request /\ p \in Caller /\ TypeOK /\ t # NoTell
      /\ h.new \in Row /\ h.before \in Row /\ task \in TaskRow
      /\ h.fields \in SUBSET {"list", "text", "pos"}
  BY HumanStepPhase DEF SpecTakesEdit, IInv, TypeOK, Request
<1>2. h.step \in {"telling", "backing"} /\ spec[p] = Idle
  <2>1. h.step \notin {"write", "undo", "unmove", "moving"} /\ ~AtRest(p)
    BY <1>1 DEF HumanAlone, ToWrite, ToUndo, ToUnmove, ToMove, Unheard, Silent
  <2>2. h.step \in {"telling", "backing"}
    BY <1>1, <2>1 DEF AtRest, Request, HumanStep
  <2> QED
    BY <1>1, <2>2 DEF HumanAlone, ToTell, ToBack
<1>3. /\ tell' = [tell EXCEPT ![p] = NoTell] /\ tell'[p] = NoTell
      /\ UNCHANGED <<card, link, settled>>
  BY <1>1 DEF SpecTakesEdit, Normal, TypeOK
<1>4. /\ t.card = h.card
      /\ h.step = "telling" => t.fields = h.fields \cap Meta /\ t.row = h.new
      /\ h.step = "backing" => t.fields = {"pos"} /\ t.row = h.before
  BY <1>1, <1>2 DEF HumanAlone, ToTell, ToBack
<1>5. /\ ~(mapped /\ Exists) => task' = task
      /\ mapped /\ Exists =>
            /\ task'.life = task.life
            /\ \A f \in Columns : task'[f] = IF f \in t.fields THEN t.row[f] ELSE task[f]
  <2>1. CASE mapped /\ Exists
    <3> DEFINE o == Overlay(task, t.row, t.fields)
    <3>1. t.row \in Row /\ t.fields \in SUBSET Meta
      BY <1>1 DEF TypeOK, Telling
    <3>2. o \in TaskRow /\ o.life = task.life
          /\ \A f \in Columns : o[f] = IF f \in t.fields THEN t.row[f] ELSE task[f]
      BY <1>1, <3>1, OverlayTask, OverlayTaskColumn
    <3>3. task' = [o EXCEPT !.version = @ + 1]
      BY <1>4, <2>1 DEF SpecTakesEdit
    <3> HIDE DEF o
    <3>4. task'.life = o.life /\ \A f \in Columns : task'[f] = o[f]
      BY <3>2, <3>3 DEF TaskRow, Columns
    <3> QED
      BY <2>1, <3>2, <3>4
  <2>2. CASE ~(mapped /\ Exists)
    BY <1>4, <2>2 DEF SpecTakesEdit
  <2> QED
    BY <2>1, <2>2
<1>6. Open' = Open /\ Exists' = Exists
  BY <1>5 DEF Open, Exists
<1>7. IF mapped => Exists THEN EditTaken(p) ELSE EditRefused(p)
  BY <1>2, <1>4 DEF SpecTakesEdit
<1>8. Only(p)
  BY <1>1, <1>3, <1>7 DEF Only, EditTaken, EditRefused, MovesOn, Finished, TypeOK
<1>9. \A x \in Caller : spec[x].step = "link" =>
          spec'[x].step = "link" /\ spec'[x].card = spec[x].card
  BY <1>2, <1>8 DEF Only, Idle
<1>11. ASSUME h.step = "telling", mapped, Open
       PROVE  /\ "list" \in settled =>
                     h.before.list = task'.list \/ h.before.list = "sdd"
              /\ \A f \in settled \cap (Columns \ {"list"}) : h.new[f] = task'[f]
  <2>1. ToTell(p) /\ Asked(h) /\ Matches(h.before, settled) /\ Exists
    BY <1>1, <1>11 DEF HumanAlone, ToTell, Untold, Open, Exists
  <2>2. \A f \in Columns : task'[f] = IF f \in h.fields \cap Meta THEN h.new[f] ELSE task[f]
    BY <1>4, <1>5, <1>11, <2>1
  <2>3. "list" \in settled => h.before.list = task'.list \/ h.before.list = "sdd"
    BY <2>1, <2>2 DEF Matches, Meta, Columns
  <2>4. ASSUME NEW f \in settled \cap (Columns \ {"list"})
        PROVE  h.new[f] = task'[f]
    <3>1. CASE f \in h.fields
      BY <1>1, <2>2, <2>4, <3>1 DEF Meta
    <3>2. CASE f \notin h.fields
      BY <2>1, <2>2, <2>4, <3>2 DEF Asked, Matches
    <3> QED
      BY <3>1, <3>2
  <2> QED
    BY <2>3, <2>4
<1>12. CASE h.step = "telling" /\ (mapped => Exists) /\ Moved(p)
  <2> DEFINE s == [Idle EXCEPT !.step = "load", !.op = "move", !.card = h.card, !.to = h.new.list]
  <2>1. human' = [human EXCEPT ![p].step = "moving"] /\ spec' = [spec EXCEPT ![p] = s]
    BY <1>7, <1>12 DEF EditTaken, MovesOn
  <2>2. s.step = "load" /\ s.card = h.card /\ s.to = h.new.list
    BY DEF Idle
  <2> HIDE DEF s
  <2>3. /\ human'[p].step = "moving" /\ human'[p].card = h.card /\ human'[p].fields = h.fields
        /\ human'[p].new = h.new /\ human'[p].before = h.before
        /\ spec'[p] = s
    BY <1>1, <2>1 DEF TypeOK, Request
  <2>4. ToTell(p) /\ Asked(h) /\ Shows(h) /\ Untold(h)
    BY <1>1, <1>12 DEF HumanAlone, ToTell
  <2>5. Asked(human[p])' /\ Shows(human[p])' /\ "list" \in human'[p].fields
    BY <1>3, <1>12, <2>3, <2>4 DEF Asked, Shows, There, Moved
  <2>6. Edited(human[p])'
    <3>1. CASE mapped
      BY <1>3, <1>6, <1>11, <1>12, <2>3, <3>1 DEF Edited, Matches
    <3>2. CASE ~mapped
      <4>1. Agree(settled) /\ task' = task
        BY <1>5, <2>4, <3>2 DEF Untold
      <4> QED
        BY <1>3, <2>3, <3>2, <4>1 DEF Edited, Agree, Open, There, Matches
    <3> QED
      BY <3>1, <3>2
  <2>7. ToMove(p)' /\ Arrived(p)'
    BY <1>3, <2>2, <2>3, <2>5, <2>6 DEF ToMove, Arrived, Silent, Shows
  <2>8. HumanAlone(p)' /\ ~AtRest(p)'
    BY <2>3, <2>7 DEF HumanAlone, AtRest
  <2>9. MoveAlone(p)' /\ MirrorAlone(p)'
    BY <2>2, <2>3, <2>7 DEF MoveAlone, MirrorAlone
  <2> QED
    BY <1>8, <2>8, <2>9 DEF Effect, Phase, Quiet
<1>13. CASE ~(mapped => Exists) /\ h.step = "telling"
  <2>1. human' = [human EXCEPT ![p].step = "undo"] /\ UNCHANGED spec
    BY <1>7, <1>13 DEF EditRefused, TypeOK
  <2>2. human'[p].step = "undo" /\ human'[p].card = h.card
    BY <1>1, <2>1 DEF TypeOK, Request
  <2>3. ToUndo(p)'
    BY <1>2, <1>3, <1>6, <1>13, <2>1, <2>2 DEF ToUndo, Unheard, Silent, Open, Exists
  <2>4. HumanAlone(p)' /\ ~AtRest(p)'
    BY <2>2, <2>3 DEF HumanAlone, AtRest
  <2>5. Phase(p)'
    BY <1>2, <2>1, <2>4, HumanPhase
  <2> QED
    BY <1>8, <2>4, <2>5 DEF Effect, Quiet
\* The request is over.
<1>14. CASE ~(h.step = "telling" /\ (mapped => Exists) /\ Moved(p))
            /\ ~(~(mapped => Exists) /\ h.step = "telling")
  <2>1. \E s \in {"confirmed", "refused"} : human' = [human EXCEPT ![p] = Rested(s)]
    BY <1>1, <1>2, <1>7, <1>14 DEF EditTaken, EditRefused, Finished, TypeOK
  <2>2. UNCHANGED spec /\ AtRest(p)'
    BY <1>1, <1>2, <1>7, <1>14, <2>1 DEF EditTaken, EditRefused, TypeOK, AtRest, Rested
  <2>3. ~Busy(p)'
    BY <1>2, <1>3, <2>2 DEF Busy
  <2>4. Phase(p)'
    BY <1>1, <2>3, RestPhase, TypeEditArrives
  <2>5. Agree(settled)'
    <3>1. CASE ~mapped
      <4>1. Agree(settled) /\ task' = task
        BY <1>1, <1>2, <1>5, <3>1 DEF HumanAlone, ToTell, ToBack, Untold
      <4> QED
        BY <1>3, <4>1 DEF Agree, Open, There, Matches
    <3>2. CASE mapped /\ ~Open
      BY <1>6, <3>2 DEF Agree
    <3>3. CASE mapped /\ Open /\ h.step = "telling"
      <4>1. ToTell(p) /\ Asked(h) /\ Shows(h) /\ Exists
        BY <1>1, <3>3 DEF HumanAlone, ToTell, Open, Exists
      <4>2. h.new.list = h.before.list
        BY <1>14, <3>3, <4>1 DEF Moved, Asked, Columns
      <4>3. card'[link] = h.new
        BY <1>3, <3>3, <4>1 DEF Shows
      <4> QED
        BY <1>3, <1>11, <3>3, <4>2, <4>3 DEF Agree, Matches
    <3>4. CASE mapped /\ Open /\ h.step = "backing"
      <4>1. Agree(settled) /\ Exists
        BY <1>1, <3>4 DEF HumanAlone, ToBack, Open, Exists
      <4>2. \A f \in Columns : task'[f] = task[f]
        BY <1>4, <1>5, <3>4, <4>1 DEF Columns
      <4> QED
        BY <1>3, <3>4, <4>1, <4>2 DEF Agree, Open, There, Matches
    <3> QED
      BY <1>2, <3>1, <3>2, <3>3, <3>4
  <2> QED
    BY <1>8, <2>4, <2>5 DEF Effect
<1> QED
  BY <1>12, <1>13, <1>14

-----------------------------------------------------------------------------
(* The Spec API's handlers by themselves                                   *)

LEMMA SoloAgentCalls ==
    ASSUME MirrorAssumption, IInv, NEW a \in Agent,
           NEW op \in {"claim", "release", "archive", "unarchive", "delete", "resync",
                       "status", "create", "edit"},
           NEW to, NEW new, AgentCalls(a, op, to, new), Quiet
    PROVE  Effect(a)
<1> DEFINE s == [Idle EXCEPT !.step = First(op), !.op = op, !.to = to, !.new = new,
                             !.row = task, !.full = (op = "resync")]
<1>1. /\ UNCHANGED <<task, link, card, human, tell, settled>>
      /\ a \in Caller /\ TypeOK /\ spec[a].step = "idle"
      /\ spec' = [spec EXCEPT ![a] = s]
  BY QuietRest DEF AgentCalls, Served, Serves, IInv, planka, Caller
<1>2. s.step = First(op) /\ First(op) \in {"remove", "snap", "write"}
  BY DEF First, Idle
<1> HIDE DEF s
<1>3. spec'[a] = s
  BY <1>1 DEF TypeOK
<1>4. Agree(settled)'
  BY <1>1 DEF IInv, Agree, Open, There, Matches
<1>5. Agree(settled \ Due(a))'
  BY <1>4 DEF Agree, Matches
<1>6. MirrorAlone(a)'
  BY <1>2, <1>3, <1>4, <1>5 DEF MirrorAlone
<1>7. Phase(a)'
  BY <1>6, AgentPhase
<1>8. Only(a)
  BY <1>1 DEF Only, TypeOK
<1> QED
  BY <1>4, <1>7, <1>8 DEF Effect

\* A handler ends, and the person who waited for it hears that it was taken.
LEMMA EndedRest ==
    ASSUME MirrorAssumption, IInv, alone = TRUE, TypeOK', NEW x \in Caller,
           spec[x].step # "idle", NEW ok, Ended(x, ok), UNCHANGED tell,
           x \in Human => ok
    PROVE  Only(x) /\ Phase(x)' /\ ~Busy(x)'
<1>1. spec' = [spec EXCEPT ![x] = Idle] /\ TypeOK
  BY DEF Ended, IInv
<1>2. Only(x)
  BY <1>1 DEF Only, Ended, TypeOK
<1>3. ~Busy(x)'
  <2>1. CASE x \in Human
    <3>1. human[x].step = "moving" /\ Silent(x)
      BY <2>1, HumanStepPhase DEF MoveAlone, HumanAlone, ToMove
    <3>2. human'[x] = Rested("confirmed")
      BY <1>1, <2>1, <3>1 DEF Ended, TypeOK
    <3>3. AtRest(x)'
      BY <3>2 DEF AtRest, Rested
    <3> QED
      BY <1>1, <3>1, <3>3 DEF Busy, Silent, TypeOK
  <2>2. CASE x \notin Human
    BY <1>1, <2>2 DEF Busy, TypeOK
  <2> QED
    BY <2>1, <2>2
<1> QED
  BY <1>2, <1>3, RestPhase

\* The answer to a person's move was no: he still has his card to put back.
LEMMA EndedRefused ==
    ASSUME MirrorAssumption, IInv, alone = TRUE, NEW p \in Human,
           spec[p].step \in {"load", "write"}, Ended(p, FALSE),
           UNCHANGED <<tell, card, link, task, settled>>
    PROVE  Only(p) /\ Phase(p)' /\ ~Quiet'
<1> DEFINE h == human[p]
<1>1. /\ p \in Caller /\ TypeOK /\ h.step = "moving" /\ ToMove(p) /\ Arrived(p)
  BY HumanStepPhase DEF MoveAlone, HumanAlone, IInv
<1>2. /\ spec' = [spec EXCEPT ![p] = Idle]
      /\ human' = [human EXCEPT ![p] = [h EXCEPT !.step = "unmove"]]
  BY <1>1 DEF Ended
<1>3. /\ spec'[p] = Idle /\ human'[p].step = "unmove" /\ human'[p].card = h.card
      /\ human'[p].fields = h.fields /\ human'[p].new = h.new /\ human'[p].before = h.before
  BY <1>1, <1>2 DEF TypeOK, Request
<1>4. Asked(h) /\ "list" \in h.fields /\ Shows(h) /\ Edited(h) /\ Silent(p)
  BY <1>1 DEF ToMove, Arrived
<1>5. Asked(human[p])' /\ Shows(human[p])' /\ Unheard(p)'
  BY <1>3, <1>4 DEF Asked, Shows, There, Unheard, Silent
<1>6. Edited(human[p])'
  BY <1>3, <1>4 DEF Edited, Agree, Open, There, Matches
<1>7. ToUnmove(p)'
  BY <1>3, <1>4, <1>5, <1>6 DEF ToUnmove
<1>8. HumanAlone(p)' /\ ~AtRest(p)'
  BY <1>3, <1>7 DEF HumanAlone, AtRest
<1>9. Only(p)
  BY <1>1, <1>2 DEF Only, TypeOK
<1> QED
  BY <1>3, <1>8, <1>9, HumanPhase DEF Quiet

\* The card shows what was asked, and the task but for its list.
LEMMA ArrivedAgrees ==
    ASSUME IInv, NEW p \in Human, Arrived(p),
           human[p].card = link => ~Open \/ human[p].new.list \in {"sdd", task.list}
    PROVE  Agree(settled)
<1> DEFINE h == human[p]
<1>1. Shows(h) /\ Edited(h)
  BY DEF Arrived
<1>2. CASE h.card # link
  BY <1>1, <1>2 DEF Edited
<1>3. CASE h.card = link /\ Open
  <2>1. Matches(h.new, settled \ {"list"}) /\ card[link] = h.new
    BY <1>1, <1>3 DEF Edited, Shows
  <2>2. Matches(h.new, settled)
    BY <1>3, <2>1 DEF Matches
  <2> QED
    BY <2>1, <2>2 DEF Agree
<1>4. CASE ~Open
  BY <1>4 DEF Agree
<1> QED
  BY <1>2, <1>3, <1>4

LEMMA SoloHearsMove ==
    ASSUME MirrorAssumption, IInv, alone = TRUE, TypeOK', NEW p \in Human, SpecHearsMove(p)
    PROVE  Effect(p)
<1> DEFINE h == human[p]
           s == spec[p]
<1>1. /\ p \in Caller /\ TypeOK /\ s.step = "load" /\ s.step # "idle"
      /\ h.step = "moving" /\ ToMove(p) /\ Arrived(p) /\ s \in Handler
  BY HumanStepPhase DEF SpecHearsMove, MoveAlone, HumanAlone, IInv, TypeOK
<1>2. UNCHANGED <<task, link, card, tell, settled>>
  BY DEF SpecHearsMove, Normal
<1>3. s.card = h.card /\ s.to = h.new.list /\ Shows(h) /\ Edited(h) /\ h.new.list \in Lists
  BY <1>1 DEF Arrived, ToMove, Asked
<1>5. ASSUME NEW ok \in BOOLEAN, Ended(p, ok),
             ok => ~Open \/ h.card # link \/ h.new.list \in {"sdd", task.list}
      PROVE  Effect(p)
  <2>1. CASE ok
    <3>1. Agree(settled)'
      <4>1. Agree(settled)
        BY <1>1, <1>5, <2>1, ArrivedAgrees
      <4> QED
        BY <1>2, <4>1 DEF Agree, Open, There, Matches
    <3>2. Only(p) /\ Phase(p)'
      BY <1>1, <1>2, <1>5, <2>1, EndedRest
    <3> QED
      BY <3>1, <3>2 DEF Effect
  <2>2. CASE ok = FALSE
    <3>1. Only(p) /\ Phase(p)' /\ ~Quiet'
      BY <1>1, <1>2, <1>5, <2>2, EndedRefused
    <3> QED
      BY <3>1 DEF Effect
  <2> QED
    BY <1>5, <2>1, <2>2
<1>6. CASE s.card # link \/ s.to = "sdd"
  <2>1. Ended(p, TRUE)
    BY <1>6 DEF SpecHearsMove
  <2> QED
    BY <1>3, <1>5, <1>6, <2>1
<1>7. CASE ~(s.card # link \/ s.to = "sdd") /\ (s.to \notin Statuses \/ ~Exists)
  <2>1. Ended(p, Completed(s.card)) /\ Completed(s.card) \in BOOLEAN
    BY <1>7 DEF SpecHearsMove, Completed
  <2>2. Completed(s.card) => ~Open
    <3> SUFFICES ASSUME Completed(s.card) PROVE ~Open
      OBVIOUS
    <3>1. There(h.card) /\ card[h.card] = h.new /\ h.card \in Card
      BY <1>1, <1>3 DEF Shows, There, TypeOK, Request
    <3>2. h.new.list \in {"sdd", "concluido"}
      BY <1>3, <3>1 DEF Completed
    <3>3. s.to \in Statuses
      BY <1>3, <1>7, <3>2 DEF Statuses
    <3> QED
      BY <1>7, <3>3 DEF Open, Exists
  <2> QED
    BY <1>5, <2>1, <2>2
<1>8. CASE /\ ~(s.card # link \/ s.to = "sdd") /\ ~(s.to \notin Statuses \/ ~Exists)
           /\ task.life = "archived" \/ task.list = s.to
  <2>1. Ended(p, TRUE)
    BY <1>8 DEF SpecHearsMove
  <2> QED
    BY <1>3, <1>5, <1>8, <2>1 DEF Open
<1>9. CASE /\ ~(s.card # link \/ s.to = "sdd") /\ ~(s.to \notin Statuses \/ ~Exists)
           /\ ~(task.life = "archived" \/ task.list = s.to)
  <2> DEFINE op == CASE task.list = "tasks" /\ s.to = "em_andamento" -> "claim"
                     [] s.to = "tasks" -> "release"
                     [] OTHER -> "status"
  <2>1. spec' = [spec EXCEPT ![p].step = "write", ![p].op = op, ![p].row = task]
        /\ UNCHANGED human
    BY <1>9 DEF SpecHearsMove
  <2>2. \/ op = "claim" /\ s.to = "em_andamento"
        \/ op = "release" /\ s.to = "tasks"
        \/ op = "status"
    OBVIOUS
  <2> HIDE DEF op
  <2>3. /\ spec'[p].step = "write" /\ spec'[p].op = op /\ spec'[p].row = task
        /\ spec'[p].to = s.to /\ spec'[p].card = s.card
    BY <1>1, <2>1 DEF TypeOK, Handler
  <2>4. Open
    BY <1>9 DEF Open, Exists
  <2>5. Decided(p)'
    BY <1>2, <1>3, <1>9, <2>1, <2>2, <2>3, <2>4 DEF Decided, Open
  <2>6. Arrived(p)'
    <3>1. Shows(human[p])' /\ Edited(human[p])'
      BY <1>2, <1>3, <2>1 DEF Shows, Edited, Agree, Open, There, Matches
    <3> QED
      BY <1>3, <2>1, <2>3, <3>1 DEF Arrived
  <2>7. ToMove(p)'
    BY <1>1, <1>2, <2>1, <2>3 DEF ToMove, Asked, There, Silent
  <2>8. HumanAlone(p)' /\ MoveAlone(p)' /\ MirrorAlone(p)' /\ ~AtRest(p)'
    BY <1>1, <2>1, <2>3, <2>5, <2>6, <2>7 DEF HumanAlone, MoveAlone, MirrorAlone, AtRest
  <2>9. Only(p)
    BY <1>1, <1>2, <2>1 DEF Only, TypeOK
  <2> QED
    BY <2>8, <2>9 DEF Effect, Phase, Quiet
<1> QED
  BY <1>6, <1>7, <1>8, <1>9

LEMMA SoloSpecWrites ==
    ASSUME MirrorAssumption, IInv, alone = TRUE, TypeOK', NEW x \in Caller, SpecWrites(x)
    PROVE  Effect(x)
<1> DEFINE h == human[x]
           s == spec[x]
<1>1. /\ TypeOK /\ s.step = "write" /\ s.step # "idle" /\ s \in Handler
      /\ MirrorAlone(x) /\ Lone
  BY AlonePhase DEF SpecWrites, Phase, IInv, TypeOK
<1>2. UNCHANGED <<link, card, tell, settled>>
  BY DEF SpecWrites, Normal
<1>4. x \in Human => Decided(x) /\ Arrived(x) /\ ToMove(x) /\ h.step = "moving"
  BY <1>1, HumanStepPhase DEF MoveAlone, HumanAlone
<1>5. x \notin Human => Agree(settled)
  BY <1>1 DEF MirrorAlone
<1>6. CASE Outcome(x) = {}
  <2> DEFINE ok == Exists /\ Completed(s.card)
  <2>1. Ended(x, ok) /\ UNCHANGED task /\ ok \in BOOLEAN
    BY <1>6 DEF SpecWrites, Completed, Exists
  <2>2. CASE x \in Human
    <3>1. ~ok
      <4> SUFFICES ASSUME ok PROVE FALSE
        OBVIOUS
      <4>1. There(h.card) /\ card[h.card] = h.new /\ s.to = h.new.list /\ s.to \in Statuses
            /\ s.row = task /\ Open /\ h.card \in Card
        BY <1>1, <1>4, <2>2 DEF Arrived, Shows, Decided, There, TypeOK, Request
      <4>2. s.to = "concluido"
        BY <4>1 DEF Completed, Statuses
      <4>3. s.op = "status"
        BY <1>4, <2>2, <4>2 DEF Decided
      <4>4. Outcome(x) = If(s.row.life = "active" /\ Kept(s.row),
                            Written([task EXCEPT !.list = s.to]))
        BY <4>3 DEF Outcome
      <4>5. s.row.life = "active" /\ Kept(s.row)
        BY <4>1 DEF Kept, Open, Exists
      <4> QED
        BY <1>6, <4>4, <4>5 DEF If
    <3>2. Only(x) /\ Phase(x)' /\ ~Quiet'
      BY <1>1, <1>2, <2>1, <2>2, <3>1, EndedRefused
    <3> QED
      BY <2>1, <3>2 DEF Effect, Exists
  <2>3. CASE x \notin Human
    <3>1. Only(x) /\ Phase(x)'
      BY <1>1, <1>2, <2>1, <2>3, EndedRest
    <3>2. Agree(settled)'
      BY <1>2, <1>5, <2>1, <2>3 DEF Agree, Open, There, Matches
    <3> QED
      BY <2>1, <3>1, <3>2 DEF Effect, Exists
  <2> QED
    BY <2>2, <2>3
<1>7. CASE Outcome(x) # {}
  <2> DEFINE st == IF s.op = "archive" THEN "remove" ELSE "snap"
             fl == s.op \in {"edit", "create", "unarchive"}
  <2>1. /\ task' \in Outcome(x) /\ UNCHANGED human
        /\ spec' = [spec EXCEPT ![x].step = st, ![x].full = fl]
    BY <1>7 DEF SpecWrites
  <2>2. st \in {"remove", "snap"} /\ (st = "remove" => s.op = "archive")
    OBVIOUS
  <2>3. fl # TRUE => s.op \notin {"edit", "create", "unarchive"}
    <3>1. CASE s.op \in {"edit", "create", "unarchive"}
      <4>1. fl = TRUE
        BY <3>1, Zenon
      <4> QED
        BY <4>1, Zenon
    <3>2. CASE ~(s.op \in {"edit", "create", "unarchive"})
      BY <3>2, Zenon
    <3> QED
      BY <3>1, <3>2, Zenon
  <2> HIDE DEF st, fl
  <2>4. spec'[x].step = st /\ spec'[x].full = fl
    BY <1>1, <2>1 DEF TypeOK, Handler
  <2>5. s.op \in {"claim", "release", "status", "edit", "archive", "unarchive", "create"}
    <3>1. s.op \notin {"none", "move", "delete", "resync"} /\ s.op \in Op
      BY <1>1 DEF TypeOK, Handler
    <3> QED
      BY <3>1 DEF Op
  <2>6. /\ s.op \in {"claim", "release", "status"} =>
              /\ Exists /\ task'.life = task.life
              /\ task'.text = task.text
        /\ s.op = "archive" => Exists /\ task'.life = "archived"
        /\ s.op = "edit" => Exists /\ task'.life = task.life
        /\ s.op = "unarchive" => Exists /\ task'.life = "active"
        /\ s.op = "create" => task'.life = "active"
    BY <1>1, <2>1, OutcomeOf
  <2>7. Exists'
    BY <2>5, <2>6 DEF Exists
  <2>8. Only(x)
    BY <1>1, <1>2, <2>1 DEF Only, TypeOK
  <2>9. st = "remove" => ~Open'
    BY <2>2, <2>6 DEF Open
  <2>10. Agree(settled \ Due(x))'
    <3> SUFFICES ASSUME Open', There(link)', NEW f \in (settled \ Due(x)') \cap Columns
                 PROVE  card[link][f] = task'[f]
      BY <1>2 DEF Agree, Matches
    <3>1. spec'[x].full # TRUE /\ f = "text"
      BY <1>1, <2>3, <2>4 DEF Due, Columns
    <3>2. s.op \in {"claim", "release", "status", "archive"}
      BY <2>3, <2>4, <2>5, <3>1
    <3>3. Open /\ There(link) /\ task'.text = task.text
      BY <1>2, <2>6, <3>2 DEF Open, There
    <3>4. card[link].text = task.text
      <4>1. CASE x \in Human
        <5>1. Edited(h) /\ Shows(h) /\ h.card = link
          BY <1>4, <4>1 DEF Arrived, Decided
        <5> QED
          BY <3>1, <3>3, <5>1 DEF Edited, Shows, Matches
      <4>2. CASE x \notin Human
        BY <1>5, <3>1, <3>3, <4>2 DEF Agree, Matches
      <4> QED
        BY <4>1, <4>2
    <3> QED
      BY <3>1, <3>3, <3>4
  <2>11. st = "remove" => Agree(settled)'
    BY <2>9 DEF Agree
  <2>12. MirrorAlone(x)'
    BY <2>2, <2>4, <2>10, <2>11 DEF MirrorAlone
  <2>13. Phase(x)' /\ ~Quiet'
    <3>1. CASE x \in Human
      <4>1. s.op \in {"claim", "release", "status"} /\ st = "snap" /\ human[x].card = link /\ Open
        BY <1>4, <2>2, <3>1 DEF Decided
      <4>2. Open'
        BY <2>6, <4>1 DEF Open
      <4>3. ToMove(x)'
        BY <1>2, <1>4, <2>1, <2>4, <3>1, <4>1 DEF ToMove, Asked, There, Silent
      <4>4. HumanAlone(x)' /\ MoveAlone(x)' /\ ~AtRest(x)'
        BY <1>2, <1>4, <2>1, <2>4, <3>1, <4>1, <4>2, <4>3
        DEF HumanAlone, MoveAlone, AtRest
      <4> QED
        BY <2>12, <3>1, <4>4 DEF Phase, Quiet
    <3>2. CASE x \notin Human
      <4>1. ~Quiet'
        BY <2>2, <2>4 DEF Quiet, Idle
      <4> QED
        BY <2>12, <3>2, <4>1 DEF Phase
    <3> QED
      BY <3>1, <3>2
  <2> QED
    BY <2>7, <2>8, <2>13 DEF Effect
<1> QED
  BY <1>6, <1>7

-----------------------------------------------------------------------------
(* The mirror of a task by itself                                          *)

\* The mirror fails: the caller hears an error, and a creation takes its task
\* back.  No person's move gets here: its card is the one that is linked.
LEMMA SoloFails ==
    ASSUME MirrorAssumption, IInv, alone = TRUE, TypeOK', NEW x \in Caller,
           spec[x].step # "idle", spec[x].step # "link", Failed(x), x \notin Human,
           UNCHANGED <<tell, link, card, settled>>, Exists => ~There(link)
    PROVE  Effect(x)
<1>1. PICK ok : Ended(x, ok)
  BY DEF Failed
<1>2. Only(x) /\ Phase(x)'
  BY <1>1, EndedRest
<1>3. task' = task \/ ~Exists'
  BY DEF Failed, Exists, IInv, TypeOK, TaskRow
<1>4. Agree(settled)'
  BY <1>3 DEF Agree, Open, Exists, There
<1> QED
  BY <1>2, <1>4 DEF Effect

\* What the phases say of the handler that mirrors.
LEMMA MirrorPhase ==
    ASSUME MirrorAssumption, IInv, alone = TRUE, NEW x \in Caller, spec[x].step # "idle"
    PROVE  /\ TypeOK /\ Lone /\ MirrorAlone(x) /\ spec[x] \in Handler
           /\ \A y \in Caller : spec[y].step = "link" => y = x
           /\ x \in Human =>
                 /\ human[x].step = "moving" /\ ToMove(x)
                 /\ spec[x].step \in {"snap", "send", "assign"} => human[x].card = link /\ Open
<1>1. Lone /\ Phase(x) /\ TypeOK /\ spec[x] \in Handler
  BY AlonePhase DEF IInv, TypeOK
<1>2. \A y \in Caller : spec[y].step = "link" => y = x
  BY <1>1 DEF Lone, Busy, Idle
<1> QED
  BY <1>1, <1>2 DEF Phase, HumanAlone, MoveAlone

\* A person's move goes on while its mirror takes a step.
LEMMA MoveGoesOn ==
    ASSUME MirrorAssumption, IInv, alone = TRUE, NEW x \in Caller,
           spec[x].step \in {"snap", "send", "assign"},
           spec'[x].step \in {"send", "assign"}, MirrorAlone(x)',
           UNCHANGED <<task, link, human, tell>>, x \in Human => There(link)'
    PROVE  Phase(x)' /\ ~Quiet'
<1>1. ~Quiet'
  BY DEF Quiet, Idle
<1>2. CASE x \in Human
  <2>1. human[x].step = "moving" /\ ToMove(x) /\ human[x].card = link /\ Open
    BY <1>2, MirrorPhase
  <2>2. ToMove(x)'
    BY <1>2, <2>1 DEF ToMove, Asked, There, Silent
  <2>3. HumanAlone(x)' /\ MoveAlone(x)'
    BY <1>2, <2>1, <2>2 DEF HumanAlone, MoveAlone, AtRest, Open
  <2> QED
    BY <1>1, <2>3 DEF Phase
<1>3. CASE x \notin Human
  BY <1>1, <1>3 DEF Phase
<1> QED
  BY <1>2, <1>3

LEMMA SoloMirrorReads ==
    ASSUME MirrorAssumption, IInv, alone = TRUE, TypeOK', NEW x \in Caller, MirrorReads(x)
    PROVE  Effect(x)
<1> DEFINE s == spec[x]
<1>1. /\ s.step = "snap" /\ TypeOK /\ MirrorAlone(x) /\ s \in Handler
      /\ UNCHANGED <<link, card, tell, settled>>
  BY MirrorPhase DEF MirrorReads, Normal
<1>2. CASE ~Exists
  <2>1. x \notin Human
    BY <1>1, <1>2, MirrorPhase DEF Open, Exists
  <2> QED
    BY <1>1, <1>2, <2>1, SoloFails DEF MirrorReads
<1>3. CASE Exists
  <2> DEFINE fl == s.full \/ link = None
  <2>1. /\ spec' = [spec EXCEPT ![x].step = "send", ![x].row = task, ![x].card = link,
                                ![x].full = s.full \/ link = None]
        /\ UNCHANGED <<human, task>>
    BY <1>1, <1>3 DEF MirrorReads, TypeOK
  <2>2. s.full \in BOOLEAN
    BY <1>1 DEF Handler
  <2>3. (link = None => fl = TRUE) /\ (link # None => fl = s.full)
    BY <2>2
  <2>4. spec'[x].step = "send" /\ spec'[x].row = task /\ spec'[x].card = link
        /\ spec'[x].full = fl
    BY <1>1, <2>1 DEF TypeOK, Handler
  <2> HIDE DEF fl
  <2>5. Agree(settled \ Due(x))'
    <3> SUFFICES ASSUME Open, There(link) PROVE Agree(settled \ Due(x))'
      BY <1>1, <2>1 DEF Agree, Open, There
    <3>1. Due(x)' = Due(x)
      BY <2>3, <2>4 DEF Due, There
    <3>2. Matches(card[link], settled \ Due(x))
      BY <1>1 DEF MirrorAlone, Agree
    <3> QED
      BY <1>1, <2>1, <3>1, <3>2 DEF Agree, Matches
  <2>6. ToSend(x)'
    BY <1>1, <1>3, <2>1, <2>3, <2>4, <2>5 DEF ToSend, Exists
  <2>7. MirrorAlone(x)'
    BY <2>4, <2>6 DEF MirrorAlone
  <2>8. x \in Human => There(link)'
    BY <1>1, MirrorPhase DEF ToMove, There
  <2>9. Phase(x)' /\ ~Quiet'
    BY <1>1, <2>1, <2>4, <2>7, <2>8, MoveGoesOn
  <2>10. Only(x)
    BY <1>1, <2>1 DEF Only, TypeOK
  <2> QED
    BY <2>9, <2>10 DEF Effect
<1> QED
  BY <1>2, <1>3

LEMMA SoloMirrorSends ==
    ASSUME MirrorAssumption, IInv, alone = TRUE, TypeOK', NEW x \in Caller, MirrorSends(x)
    PROVE  Effect(x)
<1> DEFINE s == spec[x]
<1>1. /\ s.step = "send" /\ TypeOK /\ MirrorAlone(x) /\ s \in Handler
      /\ UNCHANGED <<link, tell, settled>> /\ ToSend(x)
      /\ s.row \in TaskRow /\ task \in TaskRow /\ s.row.list \in Statuses
  BY MirrorPhase DEF MirrorSends, Normal, MirrorAlone, TypeOK, Handler
<1>2. /\ s.card = link /\ (link = None => s.full = TRUE) /\ Exists
      /\ \A f \in Columns : s.row[f] = task[f]
      /\ Agree(settled \ Due(x)) /\ task.list \in Lists
  BY <1>1 DEF ToSend, TypeOK, Lists
<1>3. x \in Human => link # None /\ There(link)
  BY <1>1, MirrorPhase DEF ToMove, There
<1>4. CASE /\ There(s.card) /\ card' = Patched(x)
           /\ spec' = [spec EXCEPT ![x].step = "assign"] /\ UNCHANGED <<human, task>>
  <2>1. link \in Card /\ card[link] \in Row /\ Sent(x) \in SUBSET Fields
    BY <1>1, <1>2, <1>4 DEF There, TypeOK, Sent, Fields, Columns
  <2> DEFINE row == Overlay(card[link], s.row, Sent(x))
  <2>2. \A f \in Columns : row[f] = IF f \in Sent(x) THEN task[f] ELSE card[link][f]
    BY <1>1, <1>2, <2>1, OverlayColumn
  <2>3. card' = [card EXCEPT ![link] = row]
    BY <1>2, <1>4, <2>1 DEF Patched, TypeOK
  <2> HIDE DEF row
  <2>4. card'[link] = row /\ \A k \in Card : k # link => card'[k] = card[k]
    BY <1>1, <2>1, <2>3 DEF TypeOK
  <2>5. spec'[x].step = "assign" /\ spec'[x].card = link /\ spec'[x].row = s.row
        /\ spec'[x].full = s.full /\ Sent(x)' = Sent(x)
    BY <1>1, <1>2, <1>4 DEF TypeOK, Handler, Sent
  <2>6. Agree((settled \cup Sent(x)) \ {"member"})'
    <3> SUFFICES ASSUME Open, NEW f \in ((settled \cup Sent(x)) \ {"member"}) \cap Columns
                 PROVE  row[f] = task[f] \/ (f = "list" /\ row.list = "sdd")
      BY <1>1, <1>4, <2>4, <2>5 DEF Agree, Open, Matches
    <3>1. CASE f \in Sent(x)
      BY <2>1, <2>2, <3>1
    <3>2. CASE f \notin Sent(x)
      <4>1. f \in settled \ Due(x) /\ f = "text"
        BY <3>2 DEF Sent, Due, Columns
      <4>2. card[link][f] = task[f]
        BY <1>2, <1>4, <4>1 DEF Agree, Matches, Columns
      <4> QED
        BY <2>2, <3>2, <4>2
    <3> QED
      BY <3>1, <3>2
  <2>7. ToAssign(x)'
    BY <1>1, <1>2, <1>4, <2>5, <2>6 DEF ToAssign, Columns
  <2>8. MirrorAlone(x)'
    BY <2>5, <2>7 DEF MirrorAlone
  <2>9. row.list \in Lists
    BY <1>2, <2>2 DEF Sent, Columns
  <2>10. Phase(x)' /\ ~Quiet'
    BY <1>1, <1>3, <1>4, <2>4, <2>5, <2>8, <2>9, MoveGoesOn DEF There
  <2>11. Only(x)
    BY <1>1, <1>4 DEF Only, TypeOK
  <2> QED
    BY <2>10, <2>11 DEF Effect
<1>5. ASSUME s.card = None, NEW k \in Card, card[k] = NoRow, card' = Posted(x, k),
             spec' = [spec EXCEPT ![x].step = "link", ![x].card = k],
             UNCHANGED <<human, task>>
      PROVE  Effect(x)
  <2> DEFINE row == Overlay(NoRow, s.row, {"list", "text"})
  <2>1. NoRow \in Row /\ {"list", "text"} \in SUBSET Fields
    BY Records DEF Fields, Columns
  <2>2. \A f \in {"list", "text"} : row[f] = task[f]
    BY <1>1, <1>2, <2>1, OverlayColumn DEF Columns
  <2>3. card' = [card EXCEPT ![k] = row]
    BY <1>5 DEF Posted
  <2> HIDE DEF row
  <2>4. card'[k] = row /\ \A c \in Card : c # k => card'[c] = card[c]
    BY <1>1, <2>3 DEF TypeOK
  <2>5. /\ spec'[x].step = "link" /\ spec'[x].card = k /\ spec'[x].full = TRUE
        /\ spec'[x].row = s.row
    BY <1>1, <1>2, <1>5 DEF TypeOK, Handler
  <2>6. There(k)' /\ link = None
    BY <1>2, <1>5, <2>2, <2>4 DEF There, MirrorAssumption
  <2>7. ToLink(x)'
    BY <1>1, <1>2, <1>5, <2>2, <2>4, <2>5, <2>6 DEF ToLink, Columns
  <2>8. MirrorAlone(x)' /\ ~Quiet'
    BY <2>5, <2>7 DEF MirrorAlone, Quiet, Idle
  <2>9. Phase(x)'
    BY <1>3, <2>6, <2>8 DEF Phase
  <2>10. Only(x)
    BY <1>1, <1>5 DEF Only, TypeOK
  <2> QED
    BY <2>8, <2>9, <2>10 DEF Effect
<1>6. CASE s.card # None /\ ~There(s.card) /\ Failed(x) /\ UNCHANGED card
  BY <1>1, <1>2, <1>3, <1>6, SoloFails
<1> QED
  BY <1>4, <1>5, <1>6 DEF MirrorSends

LEMMA SoloMirrorLinks ==
    ASSUME MirrorAssumption, IInv, alone = TRUE, TypeOK', NEW x \in Caller, MirrorLinks(x)
    PROVE  Effect(x)
<1> DEFINE s == spec[x]
<1>1. /\ s.step = "link" /\ TypeOK /\ ToLink(x) /\ s \in Handler
      /\ UNCHANGED <<task, card, human, tell, settled>> /\ link' = s.card
      /\ spec' = [spec EXCEPT ![x].step = "assign"]
  BY MirrorPhase DEF MirrorLinks, Normal, MirrorAlone, planka
<1>2. /\ link = None /\ s.full = TRUE /\ There(s.card) /\ s.row.member = task.member
      /\ \A f \in {"list", "text"} : card[s.card][f] = task[f]
  BY <1>1 DEF ToLink
<1>3. spec'[x].step = "assign" /\ spec'[x].card = s.card /\ spec'[x].row = s.row
      /\ spec'[x].full = TRUE /\ Sent(x)' = {"list", "text"}
  BY <1>1, <1>2 DEF TypeOK, Handler, Sent
<1>4. Agree((settled \cup Sent(x)) \ {"member"})'
  BY <1>1, <1>2, <1>3 DEF Agree, Matches, Columns
<1>5. MirrorAlone(x)' /\ ~Quiet'
  BY <1>1, <1>2, <1>3, <1>4 DEF MirrorAlone, ToAssign, Quiet, Idle
<1>6. x \notin Human
  BY <1>1, MirrorPhase DEF ToMove
<1>7. Only(x)
  BY <1>1 DEF Only, TypeOK
<1> QED
  BY <1>5, <1>6, <1>7 DEF Effect, Phase

LEMMA SoloMirrorAssigns ==
    ASSUME MirrorAssumption, IInv, alone = TRUE, TypeOK', NEW x \in Caller, MirrorAssigns(x)
    PROVE  Effect(x)
<1> DEFINE s == spec[x]
<1>1. /\ s.step = "assign" /\ TypeOK /\ ToAssign(x) /\ s \in Handler
      /\ UNCHANGED <<link, tell>>
  BY MirrorPhase DEF MirrorAssigns, MirrorAlone
<1>2. /\ s.card = link /\ s.row.member = task.member
      /\ Agree((settled \cup Sent(x)) \ {"member"})
  BY <1>1 DEF ToAssign
<1>3. CASE There(s.card)
  <2>1. /\ card' = [card EXCEPT ![link].member = task.member] /\ Ended(x, TRUE)
        /\ settled' = settled \cup Sent(x) \cup {"member"} /\ UNCHANGED task
        /\ link \in Card /\ card[link] \in Row
    BY <1>1, <1>2, <1>3 DEF MirrorAssigns, There, TypeOK
  <2>2. /\ \A f \in Columns : card'[link][f] = IF f = "member" THEN task.member ELSE card[link][f]
        /\ \A k \in Card : card'[k].list = card[k].list
    BY <1>1, <2>1 DEF TypeOK, Row, Columns
  <2>3. Agree(settled)'
    <3> SUFFICES ASSUME Open, There(link), NEW f \in settled' \cap Columns
                 PROVE  card'[link][f] = task[f] \/ (f = "list" /\ card'[link].list = "sdd")
      BY <1>1, <2>1, <2>2 DEF Agree, Open, There, Matches
    <3>1. CASE f = "member"
      BY <2>2, <3>1 DEF Columns
    <3>2. CASE f # "member"
      BY <1>2, <2>1, <2>2, <3>2 DEF Agree, Matches, Columns
    <3> QED
      BY <3>1, <3>2
  <2>4. Only(x) /\ Phase(x)'
    BY <1>1, <2>1, EndedRest
  <2> QED
    BY <2>3, <2>4 DEF Effect
<1>4. CASE ~There(s.card)
  <2>1. Failed(x) /\ UNCHANGED <<card, settled>>
    BY <1>4 DEF MirrorAssigns, Normal
  <2>2. x \notin Human
    BY <1>1, <1>2, <1>4, MirrorPhase DEF ToMove
  <2> QED
    BY <1>1, <1>2, <1>4, <2>1, <2>2, SoloFails
<1> QED
  BY <1>3, <1>4

LEMMA SoloRemoves ==
    ASSUME MirrorAssumption, IInv, alone = TRUE, TypeOK', NEW x \in Caller,
           MirrorRemoves(x) \/ MirrorUnlinks(x) \/ SpecDrops(x)
    PROVE  Effect(x)
<1> DEFINE s == spec[x]
<1>1. /\ s.step \in {"remove", "unlink", "drop"} /\ TypeOK /\ MirrorAlone(x)
      /\ s \in Handler /\ x \notin Human /\ UNCHANGED <<tell, settled>>
      /\ \A y \in Caller : spec[y].step # "link"
  BY MirrorPhase DEF MirrorRemoves, MirrorUnlinks, SpecDrops, Normal, ToMove
<1>2. CASE MirrorRemoves(x)
  <2>1. /\ spec' = [spec EXCEPT ![x].step = "unlink"] /\ UNCHANGED <<task, link, human>>
        /\ card' = IF ~There(link) THEN card ELSE [card EXCEPT ![link] = Deleted]
        /\ Deleted.list \notin Lists
    BY <1>2 DEF MirrorRemoves, Deleted, NoRow, Lists, Statuses
  <2>2. /\ ~There(link)' /\ spec'[x].step = "unlink"
        /\ \A k \in Card : card'[k].list \in Lists => card[k].list \in Lists
    BY <1>1, <2>1 DEF There, TypeOK
  <2>3. MirrorAlone(x)' /\ ~Quiet'
    BY <2>2 DEF MirrorAlone, Quiet, Idle
  <2>4. Only(x)
    BY <1>1, <2>1 DEF Only, TypeOK
  <2> QED
    BY <1>1, <2>3, <2>4 DEF Effect, Phase
<1>3. CASE MirrorUnlinks(x)
  <2>1. /\ ~There(link) /\ link' = None /\ UNCHANGED <<task, card>>
    BY <1>1, <1>3 DEF MirrorUnlinks, MirrorAlone
  <2>3. Agree(settled)' /\ ~There(link)'
    BY <2>1 DEF Agree, There
  <2>4. CASE s.op = "delete"
    <3>1. spec' = [spec EXCEPT ![x].step = "drop"] /\ UNCHANGED human
      BY <1>3, <2>4 DEF MirrorUnlinks
    <3>2. spec'[x].step = "drop"
      BY <1>1, <3>1 DEF TypeOK
    <3>3. MirrorAlone(x)' /\ Only(x)
      BY <1>1, <2>3, <3>1, <3>2 DEF MirrorAlone, Only, TypeOK
    <3> QED
      BY <1>1, <2>3, <3>3 DEF Effect, Phase
  <2>5. CASE s.op # "delete"
    <3>1. Ended(x, TRUE)
      BY <1>3, <2>5 DEF MirrorUnlinks
    <3> QED
      BY <1>1, <2>3, <3>1, EndedRest DEF Effect
  <2> QED
    BY <2>4, <2>5
<1>4. CASE SpecDrops(x)
  <2>1. /\ ~There(link) /\ UNCHANGED <<link, card>> /\ ~Open' /\ Ended(x, TRUE)
    BY <1>1, <1>4 DEF SpecDrops, MirrorAlone, Open, TypeOK, TaskRow
  <2>3. Agree(settled)'
    BY <2>1 DEF Agree
  <2> QED
    BY <1>1, <2>1, <2>3, EndedRest DEF Effect
<1> QED
  BY <1>2, <1>3, <1>4

-----------------------------------------------------------------------------
(* The inductive invariant                                                 *)

LEMMA OverlapInv ==
    ASSUME TypeOK', alone' = FALSE, settled' \subseteq {"card"}
    PROVE  IInv'
  BY DEF IInv, Agree, Matches, Columns

LEMMA EffectInv ==
    ASSUME IInv, TypeOK', NEW x \in Caller, Effect(x), alone' = TRUE,
           (alone = TRUE /\ Busy(x)) \/ Quiet
    PROVE  IInv'
<1>1. (Lone /\ Busy(x)) \/ Quiet
  BY DEF IInv, AloneOK
<1>2. AloneOK'
  BY <1>1, Solo DEF Effect
<1> QED
  BY <1>2 DEF IInv, Effect

LEMMA InvInit ==
    ASSUME MirrorAssumption, Init
    PROVE  IInv
<1>1. TypeOK
  BY TypeInit
<1>2. \A x \in Caller : ~Busy(x) /\ spec[x].step # "link"
  BY DEF Init, Busy, AtRest, Rested, Idle, Caller
<1>3. AloneOK
  <2>1. Lone
    BY <1>2 DEF Lone
  <2>2. ASSUME NEW y \in Caller PROVE Phase(y)
    <3>1. spec[y] = Idle /\ spec[y].step = "idle"
      BY DEF Init, Idle
    <3>2. MirrorAlone(y)
      BY <3>1 DEF MirrorAlone
    <3>3. CASE y \in Human
      <4>1. human[y].step = "idle" /\ tell[y] = NoTell
        BY <3>3 DEF Init, Rested
      <4>2. HumanAlone(y) /\ MoveAlone(y)
        BY <3>1, <4>1 DEF HumanAlone, MoveAlone, Unheard, Silent
      <4> QED
        BY <3>2, <4>2 DEF Phase
    <3> QED
      BY <3>2, <3>3 DEF Phase
  <2> QED
    BY <2>1, <2>2 DEF AloneOK
<1>4. Agree(settled)
  <2>1. CASE task = NoTask /\ link = None /\ card = [k \in Card |-> NoRow]
    BY <2>1 DEF Agree, Open, NoTask, There, NoRow, MirrorAssumption
  <2>2. ASSUME NEW k \in Card, NEW t \in Text,
               task = [NoTask EXCEPT !.life = "active", !.list = "tasks", !.text = t],
               link = k,
               card = [[c \in Card |-> NoRow] EXCEPT ![k] = Overlay(NoRow, task, Columns)]
        PROVE  Agree(settled)
    <3>1. task \in TaskRow /\ NoRow \in Row /\ task.life = "active"
      BY <1>1, <2>2, Records DEF TypeOK, NoTask
    <3>2. \A f \in Columns : Overlay(NoRow, task, Columns)[f] = task[f]
      BY <3>1, OverlayColumn DEF Fields
    <3>3. /\ card[k] = Overlay(NoRow, task, Columns)
          /\ \A c \in Card : c # k => card[c] = NoRow
      BY <2>2
    <3> QED
      BY <2>2, <3>1, <3>2, <3>3
      DEF Agree, Matches, There, NoRow, Exists, MirrorAssumption
  <2> QED
    BY <2>1, <2>2 DEF Init
<1> QED
  BY <1>1, <1>3, <1>4 DEF Init, IInv

LEMMA StepBusy ==
    ASSUME NEW x \in Caller, spec[x].step # "idle"
    PROVE  Busy(x)
<1>1. Idle.step = "idle"
  BY DEF Idle
<1> QED
  BY <1>1 DEF Busy

\* A request that starts while another is under way does not run alone.
LEMMA ServedApart ==
    ASSUME TypeOK', NEW F, Serves(F), ~Quiet
    PROVE  alone' = FALSE /\ settled' = {}
<1>1. alone' \in BOOLEAN
  BY DEF TypeOK
<1>2. alone' = Quiet
  BY Zenon DEF Served, Serves
<1>3. alone' # TRUE
  BY <1>2, Zenon
<1>4. settled' = {}
  BY DEF Served, Serves
<1> QED
  BY <1>1, <1>3, <1>4

\* A request or a call starts.
LEMMA InvServed ==
    ASSUME IInv, TypeOK', NEW x \in Caller, Serves({}), Quiet => Effect(x)
    PROVE  IInv'
<1>1. CASE Quiet
  <2>1. alone' = TRUE
    BY <1>1, Zenon DEF Served, Serves
  <2> QED
    BY <1>1, <2>1, EffectInv
<1>2. CASE ~Quiet
  BY <1>2, ServedApart, OverlapInv
<1> QED
  BY <1>1, <1>2

\* What is under way takes a step of its own.
LEMMA InvNormal ==
    ASSUME IInv, TypeOK', NEW x \in Caller, Busy(x), UNCHANGED alone,
           alone = FALSE => UNCHANGED settled, alone = TRUE => Effect(x)
    PROVE  IInv'
<1>1. alone \in BOOLEAN
  BY DEF IInv, TypeOK
<1>2. CASE alone = TRUE
  BY <1>2, EffectInv
<1>3. CASE alone = FALSE
  BY <1>3, OverlapInv DEF IInv
<1> QED
  BY <1>1, <1>2, <1>3

\* PLANKA writes a card and tells nobody.
LEMMA InvUntold ==
    ASSUME IInv, TypeOK', NEW F, Serves(F), UNCHANGED <<task, link, spec, human, tell>>,
           Quiet => Agree(settled)'
    PROVE  IInv'
<1>1. CASE Quiet
  <2>1. alone' = TRUE
    BY <1>1, Zenon DEF Serves
  <2>2. \A x \in Caller : ~Busy(x)'
    BY <1>1, QuietRest DEF Busy, AtRest
  <2>3. AloneOK'
    BY <2>2, RestPhase DEF AloneOK, Lone
  <2> QED
    BY <1>1, <2>1, <2>3 DEF IInv
<1>2. CASE ~Quiet
  BY <1>2, ServedApart, OverlapInv
<1> QED
  BY <1>1, <1>2

LEMMA InvFault ==
    ASSUME TypeOK', Fault
    PROVE  IInv'
  BY OverlapInv DEF Fault

LEMMA InvHuman ==
    ASSUME MirrorAssumption, MovesApart, IInv, TypeOK', HumanNext
    PROVE  IInv'
<1>1. ASSUME NEW p \in Human, NEW k \in Card, NEW F \in Edits, NEW new \in Shown,
             HumanEdits(p, k, F, new)
      PROVE  IInv'
  <2>1. p \in Caller
    BY DEF Caller
  <2>2. Serves({})
    BY <1>1 DEF HumanEdits, Served
  <2>3. Quiet => Effect(p)
    BY <1>1, SoloHumanEdits
  <2> QED
    BY <2>1, <2>2, <2>3, InvServed
<1>2. ASSUME NEW p \in Human,
             HumanWrites(p) \/ HumanUndoesEdit(p) \/ HumanUndoesMove(p)
      PROVE  IInv'
  <2>1. p \in Caller /\ Busy(p) /\ UNCHANGED <<alone, settled>>
    BY <1>2 DEF HumanWrites, HumanUndoesEdit, HumanUndoesMove, Busy, AtRest, Normal, Caller
  <2>2. alone = TRUE => Effect(p)
    BY <1>2, SoloHumanWrites, SoloHumanUndoesEdit, SoloHumanUndoesMove
  <2> QED
    BY <2>1, <2>2, InvNormal
<1>3. ASSUME NEW p \in Human, HumanGivesUp(p) \/ HumanCutOff(p)
      PROVE  IInv'
  BY <1>3, InvFault DEF HumanGivesUp, HumanCutOff
<1>4. ASSUME NEW k \in Card, HumanDeletes(k)
      PROVE  IInv'
  BY <1>4, SoloHumanDeletes, InvUntold DEF HumanDeletes, Served, api
<1>5. ASSUME NEW k \in Card, NEW f \in {"list", "member"}, NEW new \in Shown,
             HumanShifts(k, f, new)
      PROVE  IInv'
  BY <1>5, SoloHumanShifts, InvUntold DEF HumanShifts, api
<1> QED
  BY <1>1, <1>2, <1>3, <1>4, <1>5 DEF HumanNext

LEMMA InvCalls ==
    ASSUME MirrorAssumption, IInv, TypeOK', NEW a \in Agent,
           NEW op \in {"claim", "release", "archive", "unarchive", "delete", "resync",
                       "status", "create", "edit"},
           NEW to, NEW new, AgentCalls(a, op, to, new)
    PROVE  IInv'
<1>1. a \in Caller
  BY DEF Caller
<1>2. Serves({})
  BY DEF AgentCalls, Served
<1>3. Quiet => Effect(a)
  BY SoloAgentCalls
<1> QED
  BY <1>1, <1>2, <1>3, InvServed

LEMMA InvSpec ==
    ASSUME MirrorAssumption, IInv, TypeOK', SpecNext
    PROVE  IInv'
<1>1. ASSUME NEW p \in Human, SpecTakesEdit(p) PROVE IInv'
  <2>1. p \in Caller /\ Busy(p) /\ UNCHANGED <<alone, settled>>
    BY <1>1 DEF SpecTakesEdit, Busy, Normal, Caller
  <2> QED
    BY <1>1, <2>1, SoloTakesEdit, InvNormal
<1>2. ASSUME NEW p \in Human, EditLost(p) PROVE IInv'
  BY <1>2, InvFault DEF EditLost
<1>3. ASSUME NEW p \in Human, SpecHearsMove(p) PROVE IInv'
  <2>1. p \in Caller /\ Busy(p) /\ UNCHANGED <<alone, settled>>
    <3>1. p \in Caller /\ spec[p].step = "load"
      BY <1>3 DEF SpecHearsMove, Caller
    <3> QED
      BY <1>3, <3>1, StepBusy DEF SpecHearsMove, Normal
  <2> QED
    BY <1>3, <2>1, SoloHearsMove, InvNormal
<1>4. ASSUME NEW a \in Agent,
             NEW op \in {"claim", "release", "archive", "unarchive", "delete", "resync"},
             AgentCalls(a, op, "none", NoRow)
      PROVE  IInv'
  BY <1>4, InvCalls
<1>5. ASSUME NEW a \in Agent, NEW to \in Statuses, AgentCalls(a, "status", to, NoRow)
      PROVE  IInv'
  BY <1>5, InvCalls
<1>6. ASSUME NEW a \in Agent, NEW op \in {"create", "edit"}, NEW new \in Content,
             AgentCalls(a, op, "none", new)
      PROVE  IInv'
  BY <1>6, InvCalls
<1>7. ASSUME NEW x \in Caller, SpecWrites(x) \/ SpecDrops(x) PROVE IInv'
  <2>1. Busy(x) /\ UNCHANGED <<alone, settled>>
    <3>1. spec[x].step \in {"write", "drop"}
      BY <1>7 DEF SpecWrites, SpecDrops
    <3> QED
      BY <1>7, <3>1, StepBusy DEF SpecWrites, SpecDrops, Normal
  <2>2. alone = TRUE => Effect(x)
    BY <1>7, SoloSpecWrites, SoloRemoves
  <2> QED
    BY <2>1, <2>2, InvNormal
<1>8. ASSUME NEW x \in Caller, SpecCutOff(x) PROVE IInv'
  BY <1>8, InvFault DEF SpecCutOff
<1> QED
  BY <1>1, <1>2, <1>3, <1>4, <1>5, <1>6, <1>7, <1>8 DEF SpecNext

LEMMA InvMirror ==
    ASSUME MirrorAssumption, IInv, TypeOK', MirrorNext
    PROVE  IInv'
<1>1. ASSUME NEW x \in Caller,
             MirrorReads(x) \/ MirrorSends(x) \/ MirrorLinks(x) \/ MirrorRemoves(x)
             \/ MirrorUnlinks(x)
      PROVE  IInv'
  <2>1. Busy(x) /\ UNCHANGED <<alone, settled>>
    <3>1. spec[x].step \in {"snap", "send", "link", "remove", "unlink"}
      BY <1>1 DEF MirrorReads, MirrorSends, MirrorLinks, MirrorRemoves, MirrorUnlinks
    <3>2. Normal
      BY <1>1 DEF MirrorReads, MirrorSends, MirrorLinks, MirrorRemoves, MirrorUnlinks
    <3> QED
      BY <3>1, <3>2, StepBusy DEF Normal
  <2>2. alone = TRUE => Effect(x)
    BY <1>1, SoloMirrorReads, SoloMirrorSends, SoloMirrorLinks, SoloRemoves
  <2> QED
    BY <2>1, <2>2, InvNormal
<1>2. ASSUME NEW x \in Caller, MirrorAssigns(x) PROVE IInv'
  <2>1. Busy(x) /\ UNCHANGED alone /\ (alone = FALSE => UNCHANGED settled)
    <3>1. spec[x].step = "assign"
      BY <1>2 DEF MirrorAssigns
    <3> QED
      BY <1>2, <3>1, StepBusy DEF MirrorAssigns, Normal
  <2> QED
    BY <1>2, <2>1, SoloMirrorAssigns, InvNormal
<1>3. ASSUME NEW x \in Caller, MirrorTimesOut(x) PROVE IInv'
  BY <1>3, InvFault DEF MirrorTimesOut
<1> QED
  BY <1>1, <1>2, <1>3 DEF MirrorNext

LEMMA InvNext ==
    ASSUME MirrorAssumption, MovesApart, IInv, [Next]_vars
    PROVE  IInv'
<1>1. TypeOK'
  BY TypeNext DEF IInv
<1>2. CASE Next
  BY <1>1, <1>2, InvHuman, InvSpec, InvMirror DEF Next
<1>3. CASE UNCHANGED vars
  <2>1. UNCHANGED <<task, card, link, human, tell, spec, settled, alone>>
    BY <1>3 DEF vars
  <2>2. AloneOK' = AloneOK
    BY <2>1
    DEF AloneOK, Lone, Busy, Phase, HumanAlone, MoveAlone, MirrorAlone, ToWrite, ToTell, ToUndo,
        ToUnmove, ToBack, ToMove, Arrived, Decided, ToSend, ToLink, ToAssign, Asked, Untold,
        Edited, Silent, Unheard, Shows, Due, Sent, Agree, Matches, Open, There, Exists, AtRest
  <2>3. Quiet' = Quiet /\ Agree(settled)' = Agree(settled)
    BY <2>1 DEF Quiet, AtRest, Agree, Matches, Open, There, Exists
  <2> QED
    BY <1>1, <2>1, <2>2, <2>3 DEF IInv
<1> QED
  BY <1>2, <1>3

-----------------------------------------------------------------------------
(* The properties                                                          *)

LEMMA InvAlways ==
    ASSUME MirrorAssumption, MovesApart
    PROVE  Spec => []IInv
<1>1. Init => IInv
  BY InvInit
<1>2. IInv /\ [Next]_vars => IInv'
  BY InvNext
<1> QED
  BY <1>1, <1>2, PTL DEF Spec

(***************************************************************************)
(* For any numbers of people, callers and cards: once nothing runs, a task *)
(* and its card say the same in every settled column, that is in those of  *)
(* list, text and member no overlap, fault or untold change has touched    *)
(* since the last mirror that ran by itself (cards/update.js, task_lock.py *)
(* and mirror_task).  MovesApart leaves out the request that renames and   *)
(* moves a card, for which the code breaks it: when the move is refused,   *)
(* the card keeps a name that the Spec API is told to take back.           *)
(***************************************************************************)
THEOREM MirrorCorrect ==
    ASSUME MirrorAssumption, MovesApart
    PROVE  Spec => []MirrorAgrees
<1>1. IInv => MirrorAgrees
  BY DEF IInv, MirrorAgrees, Agree, Matches, Open
<1> QED
  BY <1>1, InvAlways, PTL

-----------------------------------------------------------------------------
(* The cards, while no two requests have overlapped                        *)

\* Between the steps of one handler nothing else writes the link.
Linking(x) ==
    LET s == spec[x] IN
    /\ s.step \in {"send", "assign"} => s.card = link
    /\ s.step = "send" => Exists
    /\ s.step = "link" => link = None /\ Exists
    /\ s.step \in {"unlink", "drop"} => ~There(link)

\* Every card is the task's, or is about to be linked to it, or a stray.
Pending(k) == \E x \in Caller : spec[x].step = "link" /\ spec[x].card = k
Unknown == {k \in Card : There(k) /\ ~(Exists /\ (k = link \/ Pending(k)))}

\* A person waits for an edit before the move is told.
Apart == \A p \in Human : human[p].step \in {"write", "telling"} => spec[p] = Idle

Single == Lone /\ \A x \in Caller : Linking(x)

CInv ==
    /\ TypeOK /\ faults \in Nat /\ Apart
    /\ "card" \in settled => Single /\ Cardinality(Unknown) <= faults

LEMMA UnknownFinite ==
    ASSUME MirrorAssumption
    PROVE  IsFiniteSet(Unknown) /\ Cardinality(Unknown) \in Nat
           /\ IsFiniteSet(Unknown') /\ Cardinality(Unknown') \in Nat
<1>1. Unknown \subseteq Card /\ Unknown' \subseteq Card /\ IsFiniteSet(Card)
  BY DEF Unknown, MirrorAssumption
<1> HIDE DEF Unknown
<1>2. IsFiniteSet(Unknown) /\ IsFiniteSet(Unknown')
  BY <1>1, FS_Subset
<1> QED
  BY <1>2, FS_CardinalityType

\* A step by itself strands no card, and a fault strands one at most.
Fewer == faults' = faults /\ Unknown' \subseteq Unknown
OneMore == faults' = faults + 1 /\ \E k : Unknown' \subseteq Unknown \cup {k}

LEMMA FewerCounts ==
    ASSUME MirrorAssumption, faults \in Nat, Cardinality(Unknown) <= faults, Fewer \/ OneMore
    PROVE  Cardinality(Unknown)' <= faults'
<1>1. /\ IsFiniteSet(Unknown) /\ Cardinality(Unknown) \in Nat
      /\ IsFiniteSet(Unknown') /\ Cardinality(Unknown') \in Nat
  BY UnknownFinite
<1>2. CASE Fewer
  <2>1. Unknown' \subseteq Unknown /\ faults' = faults
    BY <1>2 DEF Fewer
  <2> HIDE DEF Unknown
  <2>2. Cardinality(Unknown') <= Cardinality(Unknown)
    BY <1>1, <2>1, FS_Subset
  <2> QED
    BY <1>1, <2>1, <2>2
<1>3. CASE OneMore
  <2>1. faults' = faults + 1
    BY <1>3 DEF OneMore
  <2>2. PICK k : Unknown' \subseteq Unknown \cup {k}
    BY <1>3 DEF OneMore
  <2> HIDE DEF Unknown
  <2>3. /\ IsFiniteSet(Unknown \cup {k})
        /\ Cardinality(Unknown \cup {k}) = Cardinality(Unknown)
           \/ Cardinality(Unknown \cup {k}) = Cardinality(Unknown) + 1
    BY <1>1, FS_AddElement
  <2>4. Cardinality(Unknown') <= Cardinality(Unknown \cup {k})
    BY <2>2, <2>3, FS_Subset
  <2> QED
    BY <1>1, <2>1, <2>3, <2>4
<1> QED
  BY <1>2, <1>3

\* The invariant of the next state, from what the one caller that moved leaves.
LEMMA CardStep ==
    ASSUME MirrorAssumption, CInv, TypeOK', NEW x \in Caller, Only(x),
           Busy(x) \/ Quiet, Apart', faults' \in {faults, faults + 1},
           "card" \in settled' => "card" \in settled,
           Single => Linking(x)' /\ (Fewer \/ OneMore)
    PROVE  CInv'
<1>1. faults' \in Nat
  BY DEF CInv
<1>2. ASSUME "card" \in settled'
      PROVE  Single' /\ Cardinality(Unknown)' <= faults'
  <2>1. Single /\ Cardinality(Unknown) <= faults /\ faults \in Nat
    BY <1>2 DEF CInv
  <2>2. ASSUME NEW y \in Caller \ {x}
        PROVE  ~Busy(y)'
    <3>1. ~Busy(y)
      BY <2>1 DEF Single, Lone, Busy, Quiet
    <3> QED
      BY <3>1 DEF Busy, Only, AtRest
  <2>3. ASSUME NEW y \in Caller \ {x}
        PROVE  Linking(y)'
    <3>1. spec'[y] = Idle
      BY <2>2 DEF Busy
    <3>2. spec'[y].step = "idle"
      BY <3>1 DEF Idle
    <3> QED
      BY <3>2 DEF Linking
  <2>4. Lone'
    BY <2>2 DEF Lone
  <2> QED
    BY <2>1, <2>3, <2>4, FewerCounts DEF Single
<1> QED
  BY <1>1, <1>2 DEF CInv

\* The task stays, the link too, and no card comes: none is stranded.
LEMMA SameCards ==
    ASSUME Exists => Exists', UNCHANGED link,
           \A x \in Caller : spec[x].step = "link" =>
                                spec'[x].step = "link" /\ spec'[x].card = spec[x].card,
           \A k \in Card : There(k)' => There(k)
    PROVE  Unknown' \subseteq Unknown
<1> SUFFICES ASSUME NEW k \in Card, There(k), Exists, k = link \/ Pending(k)
             PROVE  Exists' /\ (k = link' \/ Pending(k)')
  BY DEF Unknown
<1> QED
  BY DEF Pending

LEMMA SameLinking ==
    ASSUME NEW x \in Caller, Linking(x), TypeOK, Exists => Exists', UNCHANGED link,
           \A k \in Card : There(k)' => There(k),
           spec'[x] = spec[x] \/ spec'[x].step \in {"idle", "load", "write", "snap", "remove"}
    PROVE  Linking(x)'
<1>1. There(link)' => There(link)
  BY DEF TypeOK, There
<1> QED
  BY <1>1 DEF Linking

\* A step that touches neither the task's life nor the link nor the handler's
\* card, as CardStep wants it.
LEMMA CalmStep ==
    ASSUME MirrorAssumption, CInv, TypeOK', NEW x \in Caller, Only(x),
           Busy(x) \/ Quiet, Apart', faults' \in {faults, faults + 1},
           "card" \in settled' => "card" \in settled,
           Exists => Exists', UNCHANGED link, \A k \in Card : There(k)' => There(k),
           spec'[x] = spec[x]
           \/ (spec[x].step # "link"
               /\ spec'[x].step \in {"idle", "load", "write", "snap", "remove"})
    PROVE  CInv'
<1>1. Unknown' \subseteq Unknown
  BY SameCards DEF Only
<1>2. Fewer \/ OneMore
  BY <1>1 DEF Fewer, OneMore
<1>3. Single => Linking(x)'
  BY SameLinking DEF Single, CInv
<1> QED
  BY <1>2, <1>3, CardStep

\* A handler that is not about to link leaves all cards but the linked one.
LEMMA OthersUnknown ==
    ASSUME Single, NEW x \in Caller, Busy(x), spec[x].step # "link",
           NEW k \in Card, There(k), k # link
    PROVE  k \in Unknown
<1>1. ~Pending(k)
  <2> SUFFICES ASSUME NEW y \in Caller, spec[y].step = "link" PROVE FALSE
    BY DEF Pending
  <2>1. Busy(y)
    BY StepBusy
  <2> QED
    BY <2>1 DEF Single, Lone
<1> QED
  BY <1>1 DEF Unknown

\* Nothing starts at a handler's side while its person only waits.
LEMMA ApartStep ==
    ASSUME Apart, NEW x \in Caller, Only(x),
           x \in Human => /\ human'[x].step \in {"write", "telling"} =>
                                human[x].step \in {"write", "telling"}
                          /\ spec[x] = Idle => spec'[x] = Idle
    PROVE  Apart'
<1> SUFFICES ASSUME NEW p \in Human, human'[p].step \in {"write", "telling"}
             PROVE  spec'[p] = Idle
  BY DEF Apart
<1>1. p \in Caller
  BY DEF Caller
<1> QED
  BY <1>1 DEF Apart, Only

LEMMA NormalCounts ==
    ASSUME CInv, Normal \/ Fault
    PROVE  /\ "card" \in settled' => "card" \in settled
           /\ faults' = IF Normal THEN faults ELSE faults + 1
           /\ faults' \in {faults, faults + 1}
  BY DEF Normal, Fault, bounds

\* What PLANKA's side of a request does leaves the handlers alone.
LEMMA CardsHuman ==
    ASSUME MirrorAssumption, CInv, TypeOK', NEW p \in Human,
           HumanWrites(p) \/ HumanUndoesEdit(p) \/ HumanUndoesMove(p)
           \/ HumanGivesUp(p) \/ HumanCutOff(p)
    PROVE  CInv'
<1>1. p \in Caller /\ TypeOK /\ Apart /\ ~AtRest(p)
  BY DEF Caller, CInv, HumanWrites, HumanUndoesEdit, HumanUndoesMove, HumanGivesUp, HumanCutOff,
         AtRest
<1>2. UNCHANGED <<task, link, spec>> /\ (Normal \/ Fault)
  BY DEF HumanWrites, HumanUndoesEdit, HumanUndoesMove, HumanGivesUp, HumanCutOff, EditRefused, api
<1>3. \A k \in Card : There(k)' => There(k)
  BY <1>1 DEF HumanWrites, HumanUndoesEdit, HumanUndoesMove, HumanGivesUp, HumanCutOff, There, TypeOK
<1>4. /\ \A q \in Human \ {p} : human'[q] = human[q] /\ tell'[q] = tell[q]
      /\ human'[p].step \in {"write", "telling"} => human[p].step = "write"
  BY <1>1 DEF HumanWrites, HumanUndoesEdit, HumanUndoesMove, HumanGivesUp, HumanCutOff, EditRefused,
              Finished, Told, Rested, TypeOK, Request
<1>5. Only(p)
  BY <1>2, <1>4 DEF Only
<1>6. Apart' /\ Busy(p)
  BY <1>1, <1>2, <1>4, <1>5, ApartStep DEF Busy
<1> QED
  BY <1>1, <1>2, <1>3, <1>5, <1>6, NormalCounts, CalmStep DEF Exists

LEMMA CardsEdit ==
    ASSUME MirrorAssumption, CInv, TypeOK', NEW p \in Human, SpecTakesEdit(p) \/ EditLost(p)
    PROVE  CInv'
<1>1. p \in Caller /\ TypeOK /\ Apart /\ Busy(p) /\ UNCHANGED <<card, link>> /\ (Normal \/ Fault)
  BY DEF Caller, CInv, SpecTakesEdit, EditLost, Busy
<1>2. Exists => Exists'
  <2>1. tell[p] \in Telling /\ task \in TaskRow
    BY <1>1 DEF TypeOK
  <2>2. Overlay(task, tell[p].row, tell[p].fields).life = task.life
    BY <2>1, OverlayTask DEF Telling
  <2>3. Overlay(task, tell[p].row, tell[p].fields) \in TaskRow
    BY <2>1, OverlayTask DEF Telling
  <2>4. task' = task \/ task' = [Overlay(task, tell[p].row, tell[p].fields) EXCEPT !.version = @ + 1]
    BY DEF SpecTakesEdit, EditLost
  <2>5. task'.life = task.life
    BY <2>2, <2>3, <2>4 DEF TaskRow
  <2> QED
    BY <2>5 DEF Exists
\* The move is told only once the edit has been answered.
<1>3. \/ UNCHANGED spec /\ human'[p].step \notin {"write", "telling"}
      \/ UNCHANGED spec /\ human'[p] = human[p]
      \/ human[p].step = "telling" /\ human'[p].step = "moving" /\ spec'[p].step = "load"
  <2>1. human[p] \in Request /\ spec[p] \in Handler
    BY <1>1 DEF TypeOK
  <2>2. CASE EditTaken(p)
    <3>1. CASE human[p].step = "telling" /\ Moved(p)
      <4> DEFINE s == [Idle EXCEPT !.step = "load", !.op = "move", !.card = human[p].card,
                                   !.to = human[p].new.list]
      <4>1. human' = [human EXCEPT ![p].step = "moving"] /\ spec' = [spec EXCEPT ![p] = s]
        BY <2>2, <3>1 DEF EditTaken, MovesOn
      <4>2. s.step = "load"
        BY DEF Idle
      <4> HIDE DEF s
      <4> QED
        BY <1>1, <2>1, <3>1, <4>1, <4>2 DEF TypeOK, Request
    <3>2. CASE ~(human[p].step = "telling" /\ Moved(p))
      BY <1>1, <2>1, <2>2, <3>2 DEF EditTaken, Finished, Rested, TypeOK
    <3> QED
      BY <3>1, <3>2
  <2>3. CASE EditRefused(p)
    BY <1>1, <2>1, <2>3 DEF EditRefused, Rested, TypeOK, Request
  <2>4. CASE UNCHANGED <<human, spec>>
    BY <2>4
  <2> QED
    BY <2>2, <2>3, <2>4 DEF SpecTakesEdit, EditLost
<1>4. \A q \in Caller \ {p} : spec'[q] = spec[q] /\ (q \in Human => human'[q] = human[q] /\ tell'[q] = tell[q])
  BY <1>1 DEF SpecTakesEdit, EditLost, EditTaken, EditRefused, MovesOn, Finished, TypeOK
<1>5. Only(p)
  BY <1>4 DEF Only
<1>6. Apart'
  <2> SUFFICES ASSUME NEW q \in Human, human'[q].step \in {"write", "telling"}
               PROVE  spec'[q] = Idle
    BY DEF Apart
  <2>1. q \in Caller
    BY DEF Caller
  <2> QED
    BY <1>1, <1>3, <1>4, <2>1 DEF Apart
<1>7. spec'[p] = spec[p] \/ (spec[p].step # "link" /\ spec'[p].step = "load")
  <2>1. human[p].step = "telling" => spec[p].step = "idle"
    BY <1>1 DEF Apart, Idle
  <2> QED
    BY <1>3, <2>1
<1>8. \A k \in Card : There(k)' => There(k)
  BY <1>1 DEF There
<1> QED
  BY <1>1, <1>2, <1>5, <1>6, <1>7, <1>8, NormalCounts, CalmStep

\* A request that starts while another is under way unsettles the cards.
LEMMA CardsServed ==
    ASSUME CInv, TypeOK', NEW F, Serves(F), ~Quiet, Apart'
    PROVE  CInv'
  BY ServedApart DEF CInv, Serves

LEMMA CardsStart ==
    ASSUME MirrorAssumption, CInv, TypeOK', NEW x \in Caller, Served, Only(x), Apart',
           UNCHANGED <<task, card, link>>, spec[x] = Idle,
           spec'[x].step \in {"idle", "write", "snap", "remove"}
    PROVE  CInv'
<1>1. CASE ~Quiet
  BY <1>1, CardsServed DEF Served
<1>2. CASE Quiet
  <2>1. faults' = faults /\ settled' = settled
    BY <1>2 DEF Served, Serves
  <2>2. spec[x].step # "link"
    BY DEF Idle
  <2>3. Exists' = Exists /\ \A k \in Card : There(k)' = There(k)
    BY DEF Exists, There
  <2> QED
    BY <1>2, <2>1, <2>2, <2>3, CalmStep
<1> QED
  BY <1>1, <1>2

LEMMA CardsEdits ==
    ASSUME MirrorAssumption, CInv, TypeOK', NEW p \in Human, NEW k \in Card, NEW F, NEW new,
           HumanEdits(p, k, F, new)
    PROVE  CInv'
<1>1. /\ p \in Caller /\ TypeOK /\ Apart /\ Served /\ spec[p] = Idle
      /\ UNCHANGED <<task, card, link, tell, spec>>
      /\ \A q \in Human \ {p} : human'[q] = human[q]
  BY DEF Caller, CInv, HumanEdits, TypeOK
<1>2. Only(p) /\ Apart'
  BY <1>1 DEF Only, Apart
<1>3. spec'[p].step = "idle"
  BY <1>1 DEF Idle
<1> QED
  BY <1>1, <1>2, <1>3, CardsStart

LEMMA CardsCalls ==
    ASSUME MirrorAssumption, CInv, TypeOK', NEW a \in Agent,
           NEW op \in {"claim", "release", "archive", "unarchive", "delete", "resync",
                       "status", "create", "edit"},
           NEW to, NEW new, AgentCalls(a, op, to, new)
    PROVE  CInv'
<1> DEFINE s == [Idle EXCEPT !.step = First(op), !.op = op, !.to = to, !.new = new,
                             !.row = task, !.full = (op = "resync")]
<1>1. /\ a \in Caller /\ a \notin Human /\ TypeOK /\ Apart /\ Served /\ spec[a] = Idle
      /\ UNCHANGED <<task, card, link, human, tell>>
      /\ spec' = [spec EXCEPT ![a] = s]
  BY DEF Caller, CInv, AgentCalls, planka, MirrorAssumption
<1>2. s.step \in {"write", "snap", "remove"}
  BY DEF First, Idle
<1> HIDE DEF s
<1>3. spec'[a] = s /\ \A y \in Caller \ {a} : spec'[y] = spec[y]
  BY <1>1 DEF TypeOK
<1>4. Only(a)
  BY <1>1, <1>3 DEF Only
<1>5. Apart'
  BY <1>1, <1>4, ApartStep
<1> QED
  BY <1>1, <1>2, <1>3, <1>4, <1>5, CardsStart

\* PLANKA changes or deletes a card and tells nobody.
LEMMA CardsUntold ==
    ASSUME MirrorAssumption, CInv, TypeOK', NEW F, Serves(F),
           UNCHANGED <<task, link, spec, human, tell>>, \A k \in Card : There(k)' => There(k)
    PROVE  CInv'
<1>1. Apart'
  BY DEF CInv, Apart
<1>2. CASE ~Quiet
  BY <1>1, <1>2, CardsServed
<1>3. CASE Quiet
  <2>1. faults' = faults /\ settled' \subseteq settled
    BY <1>3 DEF Serves
  <2>2. Unknown' \subseteq Unknown
    BY SameCards DEF Exists
  <2>3. Fewer
    BY <2>1, <2>2 DEF Fewer
  <2>4. \A x \in Caller : ~Busy(x)' /\ spec'[x].step = "idle"
    BY <1>3, QuietRest DEF Busy, AtRest
  <2>5. Single'
    BY <2>4 DEF Single, Lone, Linking
  <2>6. "card" \in settled' => Cardinality(Unknown)' <= faults'
    BY <2>1, <2>3, FewerCounts DEF CInv
  <2> QED
    BY <1>1, <2>1, <2>5, <2>6 DEF CInv
<1> QED
  BY <1>2, <1>3

\* What a handler's step touches of the others, and of its own person.
LEMMA HandlerStep ==
    ASSUME MirrorAssumption, CInv, NEW x \in Caller, spec[x].step # "idle", UNCHANGED tell,
           (\E ok : Ended(x, ok))
           \/ (UNCHANGED human /\ \A y \in Caller \ {x} : spec'[y] = spec[y])
    PROVE  Only(x) /\ Apart' /\ Busy(x)
<1>1. TypeOK /\ Apart /\ Busy(x) /\ spec[x] # Idle
  BY StepBusy DEF CInv, Idle
<1>2. CASE UNCHANGED human /\ \A y \in Caller \ {x} : spec'[y] = spec[y]
  <2>1. Only(x)
    BY <1>2 DEF Only
  <2> QED
    BY <1>1, <1>2, <2>1, ApartStep
<1>3. ASSUME NEW ok, Ended(x, ok) PROVE Only(x) /\ Apart'
  <2>1. /\ \A y \in Caller \ {x} : spec'[y] = spec[y] /\ (y \in Human => human'[y] = human[y])
        /\ x \in Human => human'[x] = human[x] \/ human'[x].step \in {"confirmed", "refused", "unmove"}
    BY <1>1, <1>3 DEF Ended, TypeOK, Request, Rested
  <2>2. Only(x)
    BY <2>1 DEF Only
  <2> QED
    BY <1>1, <2>1, <2>2, ApartStep
<1> QED
  BY <1>1, <1>2, <1>3

\* The mirror failed: the handler is over, and its task may go.
LEMMA FailedLeaves ==
    ASSUME CInv, NEW x \in Caller, Failed(x)
    PROVE  /\ \E ok : Ended(x, ok)
           /\ spec' = [spec EXCEPT ![x] = Idle] /\ spec'[x].step = "idle"
<1>1. \E ok : Ended(x, ok)
  BY DEF Failed
<1>2. spec' = [spec EXCEPT ![x] = Idle]
  BY DEF Failed, Ended
<1> QED
  BY <1>1, <1>2 DEF CInv, TypeOK, Idle

LEMMA CardsHears ==
    ASSUME MirrorAssumption, CInv, TypeOK', NEW p \in Human, SpecHearsMove(p)
    PROVE  CInv'
<1>1. /\ p \in Caller /\ TypeOK /\ spec[p].step = "load" /\ UNCHANGED <<task, link, card, tell>>
      /\ Normal
  BY DEF Caller, CInv, SpecHearsMove
<1>2. \/ \E ok : Ended(p, ok)
      \/ UNCHANGED human /\ \E op : spec' = [spec EXCEPT ![p].step = "write", ![p].op = op,
                                                         ![p].row = task]
  BY <1>1 DEF SpecHearsMove
<1>3. /\ spec'[p].step \in {"idle", "write"}
      /\ (\E ok : Ended(p, ok)) \/ (UNCHANGED human /\ \A y \in Caller \ {p} : spec'[y] = spec[y])
  <2>1. CASE \E ok : Ended(p, ok)
    <3>1. spec' = [spec EXCEPT ![p] = Idle]
      BY <2>1 DEF Ended
    <3> QED
      BY <1>1, <2>1, <3>1 DEF TypeOK, Idle
  <2>2. CASE UNCHANGED human /\ \E op : spec' = [spec EXCEPT ![p].step = "write", ![p].op = op,
                                                             ![p].row = task]
    BY <1>1, <2>2 DEF TypeOK, Handler
  <2> QED
    BY <1>2, <2>1, <2>2
<1>4. Only(p) /\ Apart' /\ Busy(p)
  BY <1>1, <1>3, HandlerStep
<1> QED
  BY <1>1, <1>3, <1>4, NormalCounts, CalmStep DEF Exists, There

LEMMA CardsWrites ==
    ASSUME MirrorAssumption, CInv, TypeOK', NEW x \in Caller, SpecWrites(x)
    PROVE  CInv'
<1>1. TypeOK /\ spec[x].step = "write" /\ UNCHANGED <<link, card, tell>> /\ Normal
  BY DEF CInv, SpecWrites
<1>2. CASE Outcome(x) = {} /\ Ended(x, Exists /\ Completed(spec[x].card)) /\ UNCHANGED task
  <2>1. spec'[x].step = "idle"
    BY <1>1, <1>2 DEF Ended, TypeOK, Idle
  <2>2. Only(x) /\ Apart' /\ Busy(x)
    BY <1>1, <1>2, HandlerStep
  <2> QED
    BY <1>1, <1>2, <2>1, <2>2, NormalCounts, CalmStep DEF Exists, There
<1>3. CASE /\ task' \in Outcome(x) /\ UNCHANGED human
           /\ spec' = [spec EXCEPT
                  ![x].step = IF spec[x].op = "archive" THEN "remove" ELSE "snap",
                  ![x].full = spec[x].op \in {"edit", "create", "unarchive"}]
  <2> DEFINE step == IF spec[x].op = "archive" THEN "remove" ELSE "snap"
             full == spec[x].op \in {"edit", "create", "unarchive"}
  <2>1. spec'[x].step \in {"remove", "snap"} /\ \A y \in Caller \ {x} : spec'[y] = spec[y]
    <3>1. step \in {"remove", "snap"}
      OBVIOUS
    <3>2. spec' = [spec EXCEPT ![x].step = step, ![x].full = full]
      BY <1>3
    <3> HIDE DEF step, full
    <3> QED
      BY <1>1, <3>1, <3>2 DEF TypeOK, Handler
  <2> HIDE DEF step, full
  <2>2. Only(x) /\ Apart' /\ Busy(x)
    BY <1>1, <1>3, <2>1, HandlerStep
  <2>3. Exists'
    <3>1. spec[x].op \in Op \ {"none", "move", "delete", "resync"}
      BY <1>1 DEF TypeOK, Handler
    <3>2. \/ spec[x].op \in {"claim", "release", "status"} \/ spec[x].op = "archive"
          \/ spec[x].op = "edit" \/ spec[x].op = "unarchive" \/ spec[x].op = "create"
      BY <3>1 DEF Op
    <3>3. task' \in Outcome(x)
      BY <1>3
    <3> QED
      BY <1>1, <3>2, <3>3, OutcomeOf DEF Exists
  <2> QED
    BY <1>1, <2>1, <2>2, <2>3, NormalCounts, CalmStep DEF There
<1> QED
  BY <1>2, <1>3 DEF SpecWrites

LEMMA CardsReads ==
    ASSUME MirrorAssumption, CInv, TypeOK', NEW x \in Caller, MirrorReads(x)
    PROVE  CInv'
<1>1. TypeOK /\ spec[x].step = "snap" /\ UNCHANGED <<link, card, tell>> /\ Normal
  BY DEF CInv, MirrorReads
<1>2. CASE Exists
  <2>1. /\ spec' = [spec EXCEPT ![x].step = "send", ![x].row = task, ![x].card = link,
                                ![x].full = @ \/ link = None]
        /\ UNCHANGED <<human, task>>
    BY <1>2 DEF MirrorReads
  <2>2. /\ spec'[x].step = "send" /\ spec'[x].card = link
        /\ \A y \in Caller \ {x} : spec'[y] = spec[y]
    BY <1>1, <2>1 DEF TypeOK, Handler
  <2>3. Only(x) /\ Apart' /\ Busy(x)
    BY <1>1, <2>1, <2>2, HandlerStep
  <2>4. Linking(x)'
    BY <1>1, <1>2, <2>1, <2>2 DEF Linking, Exists
  <2>5. Unknown' \subseteq Unknown
    BY <1>1, <2>1, <2>3, SameCards DEF Only, Exists, There
  <2>6. Fewer
    BY <1>1, <2>5, NormalCounts DEF Fewer
  <2> QED
    BY <2>3, <2>4, <2>6, NormalCounts, <1>1, CardStep
<1>3. CASE ~Exists
  <2>1. Failed(x)
    BY <1>3 DEF MirrorReads
  <2>2. Only(x) /\ Apart' /\ Busy(x) /\ spec'[x].step = "idle"
    BY <1>1, <2>1, FailedLeaves, HandlerStep
  <2> QED
    BY <1>1, <1>3, <2>2, NormalCounts, CalmStep DEF There
<1> QED
  BY <1>2, <1>3

\* The handler is over and no card has come: beside the linked card, that is
\* there or not, all were unknown already.
LEMMA FailedCounts ==
    ASSUME MirrorAssumption, CInv, TypeOK', NEW x \in Caller, Failed(x), UNCHANGED <<link, tell>>,
           spec[x].step \notin {"idle", "link"}, Normal \/ Fault,
           Normal => ~There(link), \A k \in Card : There(k)' => There(k)
    PROVE  CInv'
<1>1. TypeOK
  BY DEF CInv
<1>2. Only(x) /\ Apart' /\ Busy(x) /\ spec'[x].step = "idle"
  BY FailedLeaves, HandlerStep
<1>3. Linking(x)'
  BY <1>2 DEF Linking
<1>4. ASSUME Single PROVE Fewer \/ OneMore
  <2>1. \A k \in Card : There(k) /\ k # link => k \in Unknown
    BY <1>2, <1>4, OthersUnknown
  <2>2. Unknown' \subseteq Card /\ \A k \in Unknown' : There(k)'
    BY DEF Unknown
  <2> HIDE DEF Unknown
  <2>3. Unknown' \subseteq Unknown \cup {link}
    BY <2>1, <2>2
  <2>4. Normal => Unknown' \subseteq Unknown
    BY <2>1, <2>2
  <2> QED
    BY <2>3, <2>4, NormalCounts DEF Fewer, OneMore
<1> QED
  BY <1>2, <1>3, <1>4, NormalCounts, CardStep

LEMMA CardsSends ==
    ASSUME MirrorAssumption, CInv, TypeOK', NEW x \in Caller, MirrorSends(x)
    PROVE  CInv'
<1>1. TypeOK /\ spec[x].step = "send" /\ UNCHANGED <<link, tell>> /\ Normal /\ spec[x] \in Handler
  BY DEF CInv, MirrorSends, TypeOK
<1>2. CASE /\ There(spec[x].card) /\ card' = Patched(x) /\ UNCHANGED <<human, task>>
           /\ spec' = [spec EXCEPT ![x].step = "assign"]
  <2>1. /\ spec'[x].step = "assign" /\ spec'[x].card = spec[x].card
        /\ \A y \in Caller \ {x} : spec'[y] = spec[y]
    BY <1>1, <1>2 DEF TypeOK, Handler
  <2>2. Only(x) /\ Apart' /\ Busy(x)
    BY <1>1, <1>2, <2>1, HandlerStep
  <2>3. \A k \in Card : There(k)' => There(k)
    BY <1>1, <1>2 DEF There, Patched, TypeOK
  <2>4. Single => Linking(x)'
    BY <1>1, <2>1 DEF Single, Linking
  <2>5. Unknown' \subseteq Unknown
    BY <1>1, <1>2, <2>2, <2>3, SameCards DEF Only, Exists
  <2>6. Fewer
    BY <1>1, <2>5, NormalCounts DEF Fewer
  <2> QED
    BY <1>1, <2>2, <2>4, <2>6, NormalCounts, CardStep
<1>3. ASSUME spec[x].card = None, UNCHANGED <<human, task>>, NEW k \in Card, card[k] = NoRow,
             card' = Posted(x, k), spec' = [spec EXCEPT ![x].step = "link", ![x].card = k]
      PROVE  CInv'
  <2>1. /\ spec'[x].step = "link" /\ spec'[x].card = k
        /\ \A y \in Caller \ {x} : spec'[y] = spec[y]
    BY <1>1, <1>3 DEF TypeOK, Handler
  <2>2. Only(x) /\ Apart' /\ Busy(x)
    BY <1>1, <1>3, <2>1, HandlerStep
  <2>3. \A c \in Card : There(c)' => There(c) \/ c = k
    BY <1>1, <1>3 DEF There, Posted, TypeOK
  <2>4. Single => link = None /\ Exists'
    BY <1>1, <1>3 DEF Single, Linking, Exists
  <2>5. Single => Linking(x)'
    BY <1>1, <2>1, <2>4 DEF Linking
  <2>6. ASSUME Single PROVE Fewer
    <3>1. \A c \in Card : There(c) => c \in Unknown
      BY <1>1, <2>2, <2>4, <2>6, OthersUnknown DEF MirrorAssumption
    <3>2. Pending(k)'
      BY <2>1 DEF Pending
    <3>3. Unknown' \subseteq Unknown
      <4> SUFFICES ASSUME NEW c \in Card, There(c)', c # k PROVE c \in Unknown
        BY <2>4, <2>6, <3>2 DEF Unknown
      <4> QED
        BY <2>3, <3>1
    <3> QED
      BY <1>1, <3>3, NormalCounts DEF Fewer
  <2> QED
    BY <1>1, <2>2, <2>5, <2>6, NormalCounts, CardStep
<1>4. CASE ~There(spec[x].card) /\ Failed(x) /\ UNCHANGED card
  <2>1. \A c \in Card : There(c)' => There(c)
    BY <1>4 DEF There
  <2>2. CASE Single
    <3>1. ~There(link)
      BY <1>1, <1>4, <2>2 DEF Single, Linking
    <3> QED
      BY <1>1, <1>4, <2>1, <3>1, FailedCounts
  <2>3. CASE ~Single
    <3>1. Only(x) /\ Apart' /\ Busy(x)
      BY <1>1, <1>4, FailedLeaves, HandlerStep
    <3> QED
      BY <1>1, <2>3, <3>1, NormalCounts, CardStep
  <2> QED
    BY <2>2, <2>3
<1> QED
  BY <1>2, <1>3, <1>4 DEF MirrorSends

LEMMA CardsLinks ==
    ASSUME MirrorAssumption, CInv, TypeOK', NEW x \in Caller, MirrorLinks(x)
    PROVE  CInv'
<1>1. /\ TypeOK /\ spec[x].step = "link" /\ UNCHANGED <<task, card, human, tell>> /\ Normal
      /\ link' = spec[x].card /\ spec' = [spec EXCEPT ![x].step = "assign"]
  BY DEF CInv, MirrorLinks, planka
<1>2. /\ spec'[x].step = "assign" /\ spec'[x].card = spec[x].card
      /\ \A y \in Caller \ {x} : spec'[y] = spec[y]
  BY <1>1 DEF TypeOK, Handler
<1>3. Only(x) /\ Apart' /\ Busy(x)
  BY <1>1, <1>2, HandlerStep
<1>4. Linking(x)'
  BY <1>1, <1>2 DEF Linking
<1>5. ASSUME Single PROVE Fewer
  <2>1. link = None
    BY <1>1, <1>5 DEF Single, Linking
  <2>2. Unknown' \subseteq Unknown
    <3> SUFFICES ASSUME NEW k \in Card, There(k)', Exists, k = link \/ Pending(k), k # link'
                 PROVE  FALSE
      BY <1>1 DEF Unknown, Exists, There
    <3>1. PICK y \in Caller : spec[y].step = "link" /\ spec[y].card = k
      BY <2>1 DEF Pending, MirrorAssumption
    <3>2. y = x
      BY <1>3, <1>5, <3>1, StepBusy DEF Single, Lone
    <3> QED
      BY <1>1, <3>1, <3>2
  <2> QED
    BY <1>1, <2>2, NormalCounts DEF Fewer
<1> QED
  BY <1>1, <1>3, <1>4, <1>5, NormalCounts, CardStep

LEMMA CardsAssigns ==
    ASSUME MirrorAssumption, CInv, TypeOK', NEW x \in Caller, MirrorAssigns(x)
    PROVE  CInv'
<1>1. TypeOK /\ spec[x].step = "assign" /\ UNCHANGED <<link, tell>>
  BY DEF CInv, MirrorAssigns
<1>2. CASE There(spec[x].card)
  <2>1. /\ card' = [card EXCEPT ![spec[x].card].member = spec[x].row.member]
        /\ Ended(x, TRUE) /\ UNCHANGED <<task, faults>>
        /\ settled' = IF alone THEN settled \cup Sent(x) \cup {"member"} ELSE settled
    BY <1>1, <1>2 DEF MirrorAssigns, bounds
  <2>5. "card" \in settled' => "card" \in settled
    BY <2>1 DEF Sent
  <2>2. \A k \in Card : There(k)' => There(k)
    BY <1>1, <1>2, <2>1 DEF There, TypeOK, Row
  <2>3. spec'[x].step = "idle"
    BY <1>1, <2>1 DEF Ended, TypeOK, Idle
  <2>4. Only(x) /\ Apart' /\ Busy(x)
    BY <1>1, <2>1, HandlerStep
  <2> QED
    BY <1>1, <2>1, <2>2, <2>3, <2>4, <2>5, CalmStep DEF Exists
<1>3. CASE ~There(spec[x].card)
  <2>1. Failed(x) /\ UNCHANGED card /\ Normal
    BY <1>3 DEF MirrorAssigns
  <2>2. \A c \in Card : There(c)' => There(c)
    BY <2>1 DEF There
  <2>3. CASE Single
    <3>1. ~There(link)
      BY <1>1, <1>3, <2>3 DEF Single, Linking
    <3> QED
      BY <1>1, <2>1, <2>2, <3>1, FailedCounts
  <2>4. CASE ~Single
    <3>1. Only(x) /\ Apart' /\ Busy(x)
      BY <1>1, <2>1, FailedLeaves, HandlerStep
    <3> QED
      BY <1>1, <2>1, <2>4, <3>1, NormalCounts, CardStep
  <2> QED
    BY <2>3, <2>4
<1> QED
  BY <1>2, <1>3

LEMMA CardsRemoves ==
    ASSUME MirrorAssumption, CInv, TypeOK', NEW x \in Caller, MirrorRemoves(x)
    PROVE  CInv'
<1>1. /\ TypeOK /\ spec[x].step = "remove" /\ UNCHANGED <<task, link, human, tell>> /\ Normal
      /\ spec' = [spec EXCEPT ![x].step = "unlink"] /\ Deleted.list \notin Lists
      /\ card' = IF ~There(link) THEN card ELSE [card EXCEPT ![link] = Deleted]
  BY DEF CInv, MirrorRemoves, Deleted, NoRow, Lists, Statuses
<1>2. spec'[x].step = "unlink" /\ \A y \in Caller \ {x} : spec'[y] = spec[y]
  BY <1>1 DEF TypeOK, Handler
<1>3. Only(x) /\ Apart' /\ Busy(x)
  BY <1>1, <1>2, HandlerStep
<1>4. ~There(link)' /\ \A k \in Card : There(k)' => There(k)
  BY <1>1 DEF There, TypeOK
<1>5. Linking(x)'
  BY <1>2, <1>4 DEF Linking
<1>6. Unknown' \subseteq Unknown
  BY <1>1, <1>3, <1>4, SameCards DEF Only, Exists
<1>7. Fewer
  BY <1>1, <1>6, NormalCounts DEF Fewer
<1> QED
  BY <1>1, <1>3, <1>5, <1>7, NormalCounts, CardStep

LEMMA CardsUnlinks ==
    ASSUME MirrorAssumption, CInv, TypeOK', NEW x \in Caller, MirrorUnlinks(x) \/ SpecDrops(x)
    PROVE  CInv'
<1>1. /\ TypeOK /\ spec[x].step \in {"unlink", "drop"} /\ UNCHANGED <<card, tell>> /\ Normal
      /\ link' \in {link, None}
  BY DEF CInv, MirrorUnlinks, SpecDrops
<1>2. /\ spec'[x].step \in {"idle", "drop"}
      /\ (\E ok : Ended(x, ok)) \/ (UNCHANGED human /\ \A y \in Caller \ {x} : spec'[y] = spec[y])
  <2>1. CASE \E ok : Ended(x, ok)
    <3>1. spec' = [spec EXCEPT ![x] = Idle]
      BY <2>1 DEF Ended
    <3> QED
      BY <1>1, <2>1, <3>1 DEF TypeOK, Idle
  <2>2. CASE ~\E ok : Ended(x, ok)
    <3>1. spec' = [spec EXCEPT ![x].step = "drop"] /\ UNCHANGED human
      BY <2>2 DEF MirrorUnlinks, SpecDrops
    <3> QED
      BY <1>1, <3>1 DEF TypeOK, Handler
  <2> QED
    BY <2>1, <2>2
<1>3. Only(x) /\ Apart' /\ Busy(x)
  BY <1>1, <1>2, HandlerStep
<1>4. ASSUME Single PROVE Linking(x)' /\ Fewer
  <2>1. ~There(link)
    BY <1>1, <1>4 DEF Single, Linking
  <2>2. ~There(link)'
    BY <1>1, <2>1 DEF There
  <2>3. Linking(x)'
    BY <1>2, <2>2 DEF Linking
  <2>4. \A k \in Card : There(k) => k \in Unknown
    BY <1>1, <1>3, <1>4, <2>1, OthersUnknown
  <2>5. Unknown' \subseteq Unknown
    BY <1>1, <2>4 DEF Unknown, There
  <2> QED
    BY <1>1, <2>3, <2>5, NormalCounts DEF Fewer
<1> QED
  BY <1>1, <1>3, <1>4, NormalCounts, CardStep

LEMMA CardsTimesOut ==
    ASSUME MirrorAssumption, CInv, TypeOK', NEW x \in Caller, MirrorTimesOut(x)
    PROVE  CInv'
<1>1. /\ TypeOK /\ spec[x].step \in {"send", "assign", "remove"} /\ UNCHANGED <<link, tell>>
      /\ Fault /\ Failed(x)
  BY DEF CInv, MirrorTimesOut
<1>2. CASE \A c \in Card : There(c)' => There(c)
  <2>1. ~Normal
    BY <1>1 DEF Fault, Normal, CInv, bounds
  <2> QED
    BY <1>1, <1>2, <2>1, FailedCounts
<1>3. ASSUME spec[x].step = "send", spec[x].card = None, NEW k \in Card,
             \A c \in Card : There(c)' => There(c) \/ c = k
      PROVE  CInv'
  <2>1. Only(x) /\ Apart' /\ Busy(x) /\ spec'[x].step = "idle"
    BY <1>1, FailedLeaves, HandlerStep
  <2>2. Linking(x)'
    BY <2>1 DEF Linking
  <2>3. ASSUME Single PROVE OneMore
    <3>1. link = None
      BY <1>3, <2>3 DEF Single, Linking
    <3>2. \A c \in Card : There(c) => c \in Unknown
      BY <1>1, <2>1, <2>3, <3>1, OthersUnknown DEF MirrorAssumption
    <3>3. Unknown' \subseteq Card /\ \A c \in Unknown' : There(c)'
      BY DEF Unknown
    <3> HIDE DEF Unknown
    <3>4. Unknown' \subseteq Unknown \cup {k}
      BY <1>3, <3>2, <3>3
    <3>5. faults' = faults + 1
      BY <1>1 DEF Fault
    <3> QED
      BY <3>4, <3>5 DEF OneMore
  <2> QED
    BY <1>1, <2>1, <2>2, <2>3, NormalCounts, CardStep
<1>4. CASE spec[x].step = "send" /\ There(spec[x].card) /\ card' \in {card, Patched(x)}
  <2>1. \A c \in Card : There(c)' => There(c)
    BY <1>1, <1>4 DEF There, Patched, TypeOK
  <2> QED
    BY <1>2, <2>1
<1>5. ASSUME spec[x].step = "send", spec[x].card = None, NEW k \in Card,
             card' \in {card, Posted(x, k)}
      PROVE  CInv'
  <2>1. \A c \in Card : There(c)' => There(c) \/ c = k
    BY <1>1, <1>5 DEF There, Posted, TypeOK
  <2> QED
    BY <1>3, <1>5, <2>1
<1>6. CASE UNCHANGED card
  BY <1>2, <1>6 DEF There
<1>7. CASE link # None /\ card' \in {card, [card EXCEPT ![link] = Deleted]}
  <2>1. \A c \in Card : There(c)' => There(c)
    BY <1>1, <1>7 DEF There, TypeOK, Deleted, NoRow, Lists, Statuses
  <2> QED
    BY <1>2, <2>1
<1> QED
  BY <1>4, <1>5, <1>6, <1>7 DEF MirrorTimesOut

LEMMA CardsCutOff ==
    ASSUME MirrorAssumption, CInv, TypeOK', NEW x \in Caller, SpecCutOff(x)
    PROVE  CInv'
<1>1. TypeOK /\ spec[x] # Idle /\ UNCHANGED <<task, link, card, tell>> /\ Fault /\ Ended(x, FALSE)
      /\ Busy(x) /\ Apart
  BY DEF CInv, SpecCutOff, Busy
<1>2. /\ \A y \in Caller \ {x} : spec'[y] = spec[y] /\ (y \in Human => human'[y] = human[y])
      /\ x \in Human => human'[x] = human[x] \/ human'[x].step = "unmove"
      /\ spec'[x] = Idle /\ spec'[x].step = "idle"
  BY <1>1 DEF Ended, TypeOK, Request, Idle
<1>3. Only(x)
  BY <1>1, <1>2 DEF Only
<1>4. Apart'
  BY <1>1, <1>2, <1>3, ApartStep
<1>5. Linking(x)'
  BY <1>2 DEF Linking
<1>6. ASSUME Single PROVE OneMore
  <2>1. Unknown' \subseteq Unknown \cup {spec[x].card}
    <3> SUFFICES ASSUME NEW k \in Card, There(k)', k \notin Unknown, k # spec[x].card,
                        ~(Exists' /\ k = link')
                 PROVE  FALSE
      BY DEF Unknown
    <3>1. Exists /\ Pending(k)
      BY <1>1 DEF Unknown, There, Exists
    <3>2. PICK y \in Caller : spec[y].step = "link" /\ spec[y].card = k
      BY <3>1 DEF Pending
    <3>3. y = x
      BY <1>1, <1>6, <3>2, StepBusy DEF Single, Lone
    <3> QED
      BY <3>2, <3>3
  <2>2. faults' = faults + 1
    BY <1>1 DEF Fault
  <2> QED
    BY <2>1, <2>2 DEF OneMore
<1> QED
  BY <1>1, <1>3, <1>4, <1>5, <1>6, NormalCounts, CardStep

LEMMA CardsInit ==
    ASSUME MirrorAssumption, Init
    PROVE  CInv
<1>1. TypeOK /\ faults = 0
  BY TypeInit DEF Init
<1>2. \A x \in Caller : ~Busy(x) /\ spec[x].step = "idle" /\ spec[x] = Idle
  BY DEF Init, Busy, AtRest, Rested, Idle, Caller
<1>3. Apart /\ Single
  BY <1>2 DEF Apart, Single, Lone, Linking, Caller
<1>4. Unknown = {}
  <2>1. CASE card = [k \in Card |-> NoRow]
    BY <2>1 DEF Unknown, There, NoRow, MirrorAssumption
  <2>2. ASSUME NEW k \in Card, NEW t \in Text,
               task = [NoTask EXCEPT !.life = "active", !.list = "tasks", !.text = t], link = k,
               card = [[c \in Card |-> NoRow] EXCEPT ![k] = Overlay(NoRow, task, Columns)]
        PROVE  Unknown = {}
    <3>1. task.life = "active"
      BY <2>2 DEF NoTask
    <3>2. \A c \in Card : c # k => card[c] = NoRow
      BY <2>2
    <3> QED
      BY <2>2, <3>1, <3>2 DEF Unknown, There, NoRow, Exists, MirrorAssumption
  <2> QED
    BY <2>1, <2>2 DEF Init
<1>5. Cardinality(Unknown) = 0
  BY <1>4, FS_EmptySet
<1> QED
  BY <1>1, <1>3, <1>5 DEF CInv

LEMMA CardsNext ==
    ASSUME MirrorAssumption, CInv, [Next]_vars
    PROVE  CInv'
<1>1. TypeOK'
  BY TypeNext DEF CInv
<1>2. CASE HumanNext
  <2>1. ASSUME NEW k \in Card, NEW f \in {"list", "member"}, NEW new \in Shown,
               HumanShifts(k, f, new)
        PROVE  CInv'
    <3>1. Serves({f}) /\ UNCHANGED <<task, link, spec, human, tell>>
      BY <2>1 DEF HumanShifts, api
    <3>2. \A c \in Card : There(c)' => There(c)
      BY <2>1 DEF HumanShifts, There, CInv, TypeOK
    <3> QED
      BY <1>1, <3>1, <3>2, CardsUntold
  <2>2. ASSUME NEW k \in Card, HumanDeletes(k)
        PROVE  CInv'
    <3>1. Serves({}) /\ UNCHANGED <<task, link, spec, human, tell>>
      BY <2>2 DEF HumanDeletes, api, Served
    <3>2. \A c \in Card : There(c)' => There(c)
      BY <2>2 DEF HumanDeletes, There, CInv, TypeOK
    <3> QED
      BY <1>1, <3>1, <3>2, CardsUntold
  <2> QED
    BY <1>1, <1>2, <2>1, <2>2, CardsEdits, CardsHuman DEF HumanNext
<1>3. CASE SpecNext
  <2>1. ASSUME NEW a \in Agent,
               NEW op \in {"claim", "release", "archive", "unarchive", "delete", "resync"},
               AgentCalls(a, op, "none", NoRow)
        PROVE  CInv'
    BY <1>1, <2>1, CardsCalls
  <2>2. ASSUME NEW a \in Agent, NEW to \in Statuses, AgentCalls(a, "status", to, NoRow)
        PROVE  CInv'
    BY <1>1, <2>2, CardsCalls
  <2>3. ASSUME NEW a \in Agent, NEW op \in {"create", "edit"}, NEW new \in Content,
               AgentCalls(a, op, "none", new)
        PROVE  CInv'
    BY <1>1, <2>3, CardsCalls
  <2> QED
    BY <1>1, <1>3, <2>1, <2>2, <2>3, CardsEdit, CardsHears, CardsWrites, CardsUnlinks, CardsCutOff
    DEF SpecNext
<1>4. CASE MirrorNext
  BY <1>1, <1>4, CardsReads, CardsSends, CardsLinks, CardsAssigns, CardsRemoves, CardsUnlinks,
     CardsTimesOut DEF MirrorNext
<1>5. CASE UNCHANGED vars
  <2>1. UNCHANGED <<task, card, link, human, tell, spec, settled, faults>>
    BY <1>5 DEF vars, bounds
  <2>2. Unknown' = Unknown
    BY <2>1 DEF Unknown, There, Exists, Pending
  <2>3. Single' = Single /\ Apart' = Apart
    BY <2>1 DEF Single, Lone, Busy, AtRest, Linking, Exists, There, Apart
  <2> QED
    BY <1>1, <2>1, <2>2, <2>3 DEF CInv
<1> QED
  BY <1>2, <1>3, <1>4, <1>5 DEF Next

(***************************************************************************)
(* For any numbers of people, callers, cards, requests and faults: while   *)
(* no two requests have overlapped, the board holds at most as many stray  *)
(* cards as faults have struck.  SpecPlankaIdMap is written after the card *)
(* and cleared after it is gone, so a cut in between strands the one card  *)
(* of the call it strikes.  Any edits: MovesApart is not needed here.      *)
(***************************************************************************)
THEOREM CardsCorrect == MirrorAssumption => (Spec => []CardsAccountedFor)
<1> SUFFICES ASSUME MirrorAssumption PROVE Spec => []CardsAccountedFor
  OBVIOUS
<1>1. Init => CInv
  BY CardsInit
<1>2. CInv /\ [Next]_vars => CInv'
  BY CardsNext
<1>3. CInv => CardsAccountedFor
  <2> SUFFICES ASSUME CInv, Quiet, "card" \in settled
               PROVE  Cardinality(Strays) <= faults
    BY DEF CardsAccountedFor
  <2>1. \A k : ~Pending(k)
    BY QuietRest DEF Pending
  <2>2. Strays = Unknown
    BY <2>1 DEF Strays, Unknown
  <2> QED
    BY <2>2 DEF CInv
<1> QED
  BY <1>1, <1>2, <1>3, PTL DEF Spec
=============================================================================
