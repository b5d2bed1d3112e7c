------------------------ MODULE BoardMovesProofs ------------------------
(***************************************************************************)
(* What the requests of BoardMoves leave of cards, for any boards, lists,  *)
(* cards, tasks, labels and people, any number of connections and of       *)
(* requests.                                                               *)
(*                                                                         *)
(* The properties are about states in which no request runs, the           *)
(* invariants behind them about all states: a card fits its list after     *)
(* every statement (Fits), and what a request that carries a card to       *)
(* another board has taken off it stays off until it is written            *)
(* (Stripped), its labels' names being kept with the request (Travelling). *)
(***************************************************************************)
EXTENDS BoardMoves, TLAPS

-----------------------------------------------------------------------------
(* Types *)

RowsTypeOK ==
    /\ list \in [List -> ListRow] /\ card \in [Card -> CardRow]
    /\ task \in [Task -> TaskRow] /\ label \in [Label -> LabelRow]
    /\ tags \subseteq Card \X Label
    /\ people \subseteq {"subscription", "membership"} \X Card \X User

MoveStages == {"labels", "subscriptions", "memberships", "tags", "assignees",
               "write", "relabel", "label", "tag"}
CopyStages == {"copy labels", "relabel", "label", "write", "copy members", "copy tags", "copy tasks"}
Stage == MoveStages \cup CopyStages \cup {"sweep", "drop"}

Names == SUBSET [card : Card, was : Label, name : Name, label : Label \cup {None}]
CardTable == [Card -> CardRow]
ListTable == [List -> ListRow]
Dest == [board : Board, type : Kanban]

CardPlan == [op : {"card"}, cards : SUBSET Card, card : CardTable, list : ListTable,
             from : List, to : List, cross : BOOLEAN, position : {"absent", "number", "null"},
             names : Names, copy : {None}, steps : SUBSET Stage]
ListPlan == [op : {"list"}, cards : SUBSET Card, card : CardTable, list : ListTable,
             from : List, to : Dest, cross : BOOLEAN, names : Names, steps : SUBSET Stage]
SweepPlan == [op : {"archive", "trash"}, cards : SUBSET Card, card : CardTable, list : ListTable,
              from : List, to : List, cross : BOOLEAN, names : Names, steps : SUBSET Stage]
CopyPlan == [op : {"create", "copy"}, cards : SUBSET Card, card : CardTable, list : ListTable,
             from : List, to : List, cross : BOOLEAN, names : Names, copy : Card, steps : SUBSET Stage]
TaskPlan == [op : {"task"}, cards : SUBSET Card, card : CardTable, list : ListTable,
             from : List, to : Card, cross : BOOLEAN, names : Names, done : BOOLEAN, steps : SUBSET Stage]
Plan == CardPlan \cup ListPlan \cup SweepPlan \cup CopyPlan \cup TaskPlan

TypeOK == RowsTypeOK /\ plan \in [Proc -> Plan \cup {Idle}]

-----------------------------------------------------------------------------
(* What a request knows of the rows it has loaded *)

Busy(p) == plan[p] # Idle

\* The steps a request may have to take next.
InStep(r, s) ==
    \/ r.op \in {"card", "list"} /\ r.cross /\ s \in MoveStages
    \/ r.op \in {"card", "list"} /\ ~r.cross /\ s = "write"
    \/ r.op \in {"archive", "trash"} /\ s \in {"sweep", "drop"}
    \/ r.op \in {"create", "task"} /\ s = "write"
    \/ r.op = "copy" /\ s \in CopyStages

Carrying(p) == Busy(p) /\ plan[p].op \in {"card", "list"} /\ plan[p].cross /\ ~At(p, "labels")

OneCard(r) ==
    \E c \in Cards :
        /\ r.cards = {c}
        /\ r.op # "task" => r.from = r.card[c].list
        /\ r.op = "task" => (r.card[c].closed => r.done)

Coherent(r) ==
    /\ r.cards \subseteq Cards
    /\ r.op \in {"card", "copy", "task"} => OneCard(r)
    /\ r.op \in {"card", "copy", "create"} => r.list[r.to].board # None
    /\ r.op \in {"card", "copy"} => r.cross = (r.list[r.to].board # r.list[r.from].board)
    /\ r.op = "card" /\ r.list[r.to].type \in Kanban /\ r.to # r.from => r.position # "absent"
    /\ r.op = "list" => /\ r.cross = (r.to.board # r.list[r.from].board)
                        /\ List0[r.from].type \in Kanban
    /\ r.op \in {"archive", "trash"} => /\ r.list[r.to].type \notin Kanban
                                        /\ r.list[r.to].board = r.list[r.from].board
                                        /\ r.list[r.to].board # None
    /\ r.op \in {"create", "copy"} =>
          (r.copy \in Cards <=> r.steps \cap {"copy members", "copy tags", "copy tasks"} # {})
    /\ r.op = "copy" => Card0[r.copy].list = None
    /\ r.op = "task" => r.to \in Cards

\* The labels a request has in hand: names alone until those of the target are
\* read, then labels found for some, then labels for all.
Labelled(p) ==
    /\ Carrying(p) => \A x \in plan[p].names : x.card \in plan[p].cards
    /\ At(p, "tag") => \A x \in plan[p].names : x.label # None
    /\ plan[p].op = "copy" /\ Step(p) \cap {"write", "copy members", "copy tags"} # {}
          => \A x \in plan[p].names : x.label # None
    /\ \A x \in plan[p].names :
          x.label # None => x.label \in Labels /\ label[x.label].name = x.name

PlansOK ==
    /\ \A p \in Proc : Busy(p) =>
          /\ \E s \in Stage : plan[p].steps = {s} /\ InStep(plan[p], s)
          /\ Coherent(plan[p])
          /\ Labelled(p)
    /\ \A p, q \in Proc : p # q /\ Busy(p) /\ Busy(q)
          /\ plan[p].op \in {"create", "copy"} /\ plan[q].op \in {"create", "copy"} => plan[p].copy # plan[q].copy

\* Rows refer to rows that are there; a list is kept in order or it is not.
RowsOK ==
    /\ \A l \in List : list[l].type \in Kanban <=> List0[l].type \in Kanban
    /\ \A c \in Card : Card0[c].list # None => c \in Cards
    /\ \A t \in Tasks : task[t].card \in Cards /\ task[t].link \in Cards \cup {None}
    /\ \A x \in tags : x[1] \in Cards /\ x[2] \in Labels
    /\ \A x \in people : x[2] \in Cards

-----------------------------------------------------------------------------
(* What is promised of a card at any time *)

Stained(c) == <<"stale", c>> \in odd

FitsIn(c, l) ==
    /\ l \in Lists
    /\ StateOfList(c, l)
    /\ Sound(c, {"null"}) => (card[c].placed <=> Finite(l))
    /\ Sound(c, {"copy"}) /\ Finite(l) => card[c].prev = None
Fits(c) == Sound(c, {"stale"}) => FitsIn(c, card[c].list)

Followed(t) == task[t].link # None /\ Sound(task[t].link, {"stale"}) =>
    (card[task[t].link].closed => task[t].done)

Clean(c) == Sound(c, {"stale"}) =>
    /\ \A x \in tags : x[1] = c => label[x[2]].board = card[c].board
    /\ \A x \in people : x[2] = c => x[3] \in MembersOf[card[c].board]
    /\ \A t \in TasksOf({c}) : task[t].assignee \in MembersOf[card[c].board] \cup {None}

Members(p, table, c) == \A x \in people : x[1] = table /\ x[2] = c => x[3] \in MembersOf[Target(p)]

\* What has been taken off a card on its way to another board.
Stripped(p) == Carrying(p) => \A c \in plan[p].cards : ~Stained(c) =>
    /\ \A q \in Proc \ {p} : Carrying(q) => c \notin plan[q].cards
    /\ Step(p) \cap {"memberships", "tags", "assignees", "write"} # {} => Members(p, "subscription", c)
    /\ Step(p) \cap {"tags", "assignees", "write"} # {} => Members(p, "membership", c)
    /\ Step(p) \cap {"assignees", "write", "relabel", "label", "tag"} # {} => \A x \in tags : x[1] # c
    /\ At(p, "write") => \A t \in TasksOf({c}) : task[t].assignee \in MembersOf[Target(p)] \cup {None}

NamesKept(p, c) == {x.name : x \in {y \in plan[p].names : y.card = c}}

\* These are the names the card had, or it has lost all with a batch.
Kept(c, S) == S = NamesOn0(c) \/ (<<"refused", c>> \in odd /\ S = {})

\* The names of the labels of a card are on it or with the request that
\* carries it.
Early == {"subscriptions", "memberships", "tags"}
Travelling(c) == Card0[c].list # None /\ ~Stained(c) =>
    /\ \A p \in Proc : Carrying(p) /\ c \in plan[p].cards => Kept(c, NamesKept(p, c))
    /\ (\A p \in Proc : Carrying(p) /\ c \in plan[p].cards => Step(p) \subseteq Early)
          => Kept(c, NamesOn(c))

AllFit == \A c \in Card : Fits(c)
AllFollowed == \A t \in Tasks : Followed(t)
AllClean == \A c \in Card : Clean(c)
AllStripped == \A p \in Proc : Stripped(p)
AllTravel == \A c \in Card : Travelling(c)

-----------------------------------------------------------------------------
(* Requests as records *)

LEMMA PlanKinds ==
    ASSUME NEW r \in Plan
    PROVE  /\ r.op \in {"card", "list", "archive", "trash", "create", "copy", "task"}
           /\ r.op = "card" => r \in CardPlan
           /\ r.op = "list" => r \in ListPlan
           /\ r.op \in {"archive", "trash"} => r \in SweepPlan
           /\ r.op \in {"create", "copy"} => r \in CopyPlan
           /\ r.op = "task" => r \in TaskPlan
BY DEF Plan, CardPlan, ListPlan, SweepPlan, CopyPlan, TaskPlan

LEMMA PlanFields ==
    ASSUME NEW r \in Plan
    PROVE  /\ r.cards \subseteq Card /\ r.card \in CardTable /\ r.list \in ListTable
           /\ r.from \in List /\ r.cross \in BOOLEAN /\ r.names \in Names /\ r.steps \subseteq Stage
           /\ r.op \in {"card", "archive", "trash", "create", "copy"} => r.to \in List
           /\ r.op = "list" => r.to \in Dest
           /\ r.op = "task" => r.to \in Card /\ r.done \in BOOLEAN
           /\ r.op \in {"create", "copy"} => r.copy \in Card
           /\ r.op = "card" => r.position \in {"absent", "number", "null"}
BY DEF Plan, CardPlan, ListPlan, SweepPlan, CopyPlan, TaskPlan

\* What a request keeps to its end.
Same(r, s) ==
    /\ s.op = r.op /\ s.card = r.card /\ s.list = r.list
    /\ s.from = r.from /\ s.to = r.to /\ s.cross = r.cross
    /\ r.op = "card" => s.position = r.position
    /\ r.op \in {"create", "copy"} => s.copy = r.copy
    /\ r.op = "task" => s.done = r.done

Changed(r, C, N, S) == [r EXCEPT !.cards = C, !.names = N, !.steps = S]

LEMMA ChangeCard ==
    ASSUME NEW r \in CardPlan, NEW C \in SUBSET Card, NEW N \in Names, NEW S \in SUBSET Stage
    PROVE  LET s == Changed(r, C, N, S)
           IN  s \in CardPlan /\ Same(r, s) /\ s.cards = C /\ s.names = N /\ s.steps = S
BY DEF CardPlan, Same, Changed

LEMMA ChangeList ==
    ASSUME NEW r \in ListPlan, NEW C \in SUBSET Card, NEW N \in Names, NEW S \in SUBSET Stage
    PROVE  LET s == Changed(r, C, N, S)
           IN  s \in ListPlan /\ Same(r, s) /\ s.cards = C /\ s.names = N /\ s.steps = S
BY DEF ListPlan, Same, Changed

LEMMA ChangeSweep ==
    ASSUME NEW r \in SweepPlan, NEW C \in SUBSET Card, NEW N \in Names, NEW S \in SUBSET Stage
    PROVE  LET s == Changed(r, C, N, S)
           IN  s \in SweepPlan /\ Same(r, s) /\ s.cards = C /\ s.names = N /\ s.steps = S
BY DEF SweepPlan, Same, Changed

LEMMA ChangeCopy ==
    ASSUME NEW r \in CopyPlan, NEW C \in SUBSET Card, NEW N \in Names, NEW S \in SUBSET Stage
    PROVE  LET s == Changed(r, C, N, S)
           IN  s \in CopyPlan /\ Same(r, s) /\ s.cards = C /\ s.names = N /\ s.steps = S
BY DEF CopyPlan, Same, Changed

LEMMA ChangeTask ==
    ASSUME NEW r \in TaskPlan, NEW C \in SUBSET Card, NEW N \in Names, NEW S \in SUBSET Stage
    PROVE  LET s == Changed(r, C, N, S)
           IN  s \in TaskPlan /\ Same(r, s) /\ s.cards = C /\ s.names = N /\ s.steps = S
BY DEF TaskPlan, Same, Changed

LEMMA ChangePlan ==
    ASSUME NEW r \in Plan, NEW C \in SUBSET Card, NEW N \in Names, NEW S \in SUBSET Stage
    PROVE  LET s == Changed(r, C, N, S)
           IN  s \in Plan /\ Same(r, s) /\ s.cards = C /\ s.names = N /\ s.steps = S
<1>1. CASE r \in CardPlan  BY <1>1, ChangeCard DEF Plan
<1>2. CASE r \in ListPlan  BY <1>2, ChangeList DEF Plan
<1>3. CASE r \in SweepPlan  BY <1>3, ChangeSweep DEF Plan
<1>4. CASE r \in CopyPlan  BY <1>4, ChangeCopy DEF Plan
<1>5. CASE r \in TaskPlan  BY <1>5, ChangeTask DEF Plan
<1> QED  BY <1>1, <1>2, <1>3, <1>4, <1>5 DEF Plan

LEMMA ChangeStep ==
    ASSUME NEW r \in Plan, NEW S \in SUBSET Stage
    PROVE  [r EXCEPT !.steps = S] = Changed(r, r.cards, r.names, S)
<1>1. CASE r \in CardPlan  BY <1>1 DEF CardPlan, Changed
<1>2. CASE r \in ListPlan  BY <1>2 DEF ListPlan, Changed
<1>3. CASE r \in SweepPlan  BY <1>3 DEF SweepPlan, Changed
<1>4. CASE r \in CopyPlan  BY <1>4 DEF CopyPlan, Changed
<1>5. CASE r \in TaskPlan  BY <1>5 DEF TaskPlan, Changed
<1> QED  BY <1>1, <1>2, <1>3, <1>4, <1>5 DEF Plan

LEMMA ChangeNames ==
    ASSUME NEW r \in Plan, NEW N \in Names, NEW S \in SUBSET Stage
    PROVE  [r EXCEPT !.names = N, !.steps = S] = Changed(r, r.cards, N, S)
<1>1. CASE r \in CardPlan  BY <1>1 DEF CardPlan, Changed
<1>2. CASE r \in ListPlan  BY <1>2 DEF ListPlan, Changed
<1>3. CASE r \in SweepPlan  BY <1>3 DEF SweepPlan, Changed
<1>4. CASE r \in CopyPlan  BY <1>4 DEF CopyPlan, Changed
<1>5. CASE r \in TaskPlan  BY <1>5 DEF TaskPlan, Changed
<1> QED  BY <1>1, <1>2, <1>3, <1>4, <1>5 DEF Plan

\* How a step leaves the requests: one goes on, ends or begins.
Others(p) == \A q \in Proc \ {p} : plan'[q] = plan[q]
Went(p, s, C, N) ==
    /\ Busy(p) /\ Others(p)
    /\ plan'[p] \in Plan /\ Same(plan[p], plan'[p])
    /\ plan'[p].cards = C /\ plan'[p].names = N /\ plan'[p].steps = {s}
Ended(p) == Busy(p) /\ plan'[p] = Idle /\ Others(p)
Began(p, r) == plan[p] = Idle /\ plan'[p] = r /\ r \in Plan /\ Others(p)

LEMMA AtBusy ==
    ASSUME TypeOK, NEW p \in Proc, NEW s, At(p, s)
    PROVE  Busy(p) /\ plan[p] \in Plan
BY DEF TypeOK, At, Step, Busy, Idle

LEMMA GotoWent ==
    ASSUME TypeOK, NEW p \in Proc, NEW s \in Stage, Busy(p), Goto(p, s)
    PROVE  Went(p, s, plan[p].cards, plan[p].names)
<1> DEFINE r == plan[p]
<1>1. r \in Plan /\ plan \in [Proc -> Plan \cup {Idle}]  BY DEF TypeOK, Busy
<1>2. plan' = [plan EXCEPT ![p] = [r EXCEPT !.steps = {s}]]  BY <1>1 DEF Goto
<1>3. plan'[p] = [r EXCEPT !.steps = {s}] /\ Others(p)  BY <1>1, <1>2 DEF Others
<1>4. r.cards \in SUBSET Card /\ r.names \in Names /\ {s} \in SUBSET Stage  BY <1>1, PlanFields
<1> HIDE DEF r
<1>5. plan'[p] = Changed(r, r.cards, r.names, {s})  BY <1>1, <1>3, <1>4, ChangeStep
<1> QED  BY <1>1, <1>3, <1>4, <1>5, ChangePlan DEF Went, r

LEMMA WentTypes ==
    ASSUME TypeOK, NEW p \in Proc, plan'[p] \in Plan \cup {Idle}, Others(p), plan' = [plan EXCEPT ![p] = plan'[p]]
    PROVE  plan' \in [Proc -> Plan \cup {Idle}]
BY DEF TypeOK

LEMMA GotoTypes ==
    ASSUME TypeOK, NEW p \in Proc, NEW s \in Stage, Busy(p), Goto(p, s)
    PROVE  plan' \in [Proc -> Plan \cup {Idle}]
<1> DEFINE r == [plan[p] EXCEPT !.steps = {s}]
<1>1. plan[p] \in Plan /\ plan \in [Proc -> Plan \cup {Idle}]  BY DEF TypeOK, Busy
<1>2. plan' = [plan EXCEPT ![p] = r]  BY <1>1 DEF Goto
<1>3. plan'[p] = r  BY <1>1, <1>2
<1>4. r \in Plan  BY <1>3, GotoWent DEF Went
<1> HIDE DEF r
<1> QED  BY <1>1, <1>2, <1>4

LEMMA DoneEnded ==
    ASSUME TypeOK, NEW p \in Proc, Busy(p), Done(p)
    PROVE  Ended(p) /\ plan' \in [Proc -> Plan \cup {Idle}]
BY DEF TypeOK, Done, Ended, Others

LEMMA StartBegan ==
    ASSUME TypeOK, NEW p \in Proc, NEW r \in Plan, Start(p, r)
    PROVE  /\ Began(p, r) /\ plan' \in [Proc -> Plan \cup {Idle}]
           /\ UNCHANGED <<rows, odd>>
BY DEF TypeOK, Start, Free, Began, Others

LEMMA Nowhere ==
    /\ None \notin Board /\ None \notin List /\ None \notin Card
    /\ None \notin Task /\ None \notin Label /\ None \notin User
BY BoardAssumption

LEMMA Sets ==
    /\ Lists \subseteq List /\ Cards \subseteq Card /\ Tasks \subseteq Task /\ Labels \subseteq Label
BY DEF Lists, Cards, Tasks, Labels

LEMMA RowFields ==
    ASSUME TypeOK
    PROVE  /\ \A l \in List : list[l].board \in Board \cup {None} /\ list[l].type \in {"active", "closed", "archive", "trash"}
           /\ \A c \in Card : /\ card[c].list \in List \cup {None} /\ card[c].board \in Board \cup {None}
                              /\ card[c].prev \in List \cup {None} /\ card[c].closed \in BOOLEAN
                              /\ card[c].placed \in BOOLEAN
           /\ \A t \in Task : /\ task[t].card \in Card \cup {None} /\ task[t].link \in Card \cup {None}
                              /\ task[t].done \in BOOLEAN /\ task[t].assignee \in User \cup {None}
           /\ \A l \in Label : label[l].board \in Board \cup {None} /\ label[l].name \in Name
           /\ \A c \in Cards : card[c].list \in List
           /\ \A l \in Lists : list[l].board \in Board
           /\ card \in CardTable /\ list \in ListTable
BY DEF TypeOK, RowsTypeOK, ListRow, CardRow, TaskRow, LabelRow, Kanban, Cards, Lists, CardTable, ListTable

\* A request as it begins.
Fresh(r) ==
    /\ r \in Plan /\ r.names = {}
    /\ \E s \in Stage : r.steps = {s} /\ InStep(r, s)
    /\ r.op \in {"card", "list"} /\ r.cross => r.steps = {"labels"}
    /\ Coherent(r)
    /\ r.op \in {"create", "copy"} => r.copy \in Spare

LEMMA SpareFacts ==
    ASSUME TypeOK, RowsOK, NEW c \in Spare
    PROVE  c \in Card /\ c \notin Cards /\ Card0[c].list = None
BY DEF Spare, RowsOK, Cards

LEMMA NoNames == {} \in Names
BY DEF Names

LEMMA StagesIn ==
    /\ "labels" \in Stage /\ "subscriptions" \in Stage /\ "memberships" \in Stage /\ "tags" \in Stage
    /\ "assignees" \in Stage /\ "write" \in Stage /\ "relabel" \in Stage /\ "label" \in Stage /\ "tag" \in Stage
    /\ "copy labels" \in Stage /\ "copy members" \in Stage /\ "copy tags" \in Stage /\ "copy tasks" \in Stage
    /\ "sweep" \in Stage /\ "drop" \in Stage
BY DEF Stage, MoveStages, CopyStages

LEMMA UpdateCardFresh ==
    ASSUME TypeOK, NEW p \in Proc, UpdateCard(p)
    PROVE  \E r : Fresh(r) /\ Start(p, r)
<1>1. PICK c \in Cards, l \in Lists, position \in {"absent", "number", "null"} :
        LET from == card[c].list
            cross == list[l].board # list[from].board
        IN  /\ from \in Lists
            /\ Finite(l) /\ l # from => position # "absent"
            /\ Start(p, [ op |-> "card", cards |-> {c}, card |-> card, list |-> list,
                          from |-> from, to |-> l, cross |-> cross, position |-> position,
                          names |-> {}, copy |-> None,
                          steps |-> {IF cross THEN "labels" ELSE "write"} ])
      BY Zenon DEF UpdateCard
<1> DEFINE cross == list[l].board # list[card[c].list].board
           r == [ op |-> "card", cards |-> {c}, card |-> card, list |-> list,
                  from |-> card[c].list, to |-> l, cross |-> cross, position |-> position,
                  names |-> {}, copy |-> None,
                  steps |-> {IF cross THEN "labels" ELSE "write"} ]
<1>2. r \in CardPlan
  BY <1>1, RowFields, Sets, NoNames, StagesIn DEF CardPlan
<1>3. \E s \in Stage : r.steps = {s} /\ InStep(r, s)
  BY StagesIn DEF InStep, MoveStages
<1>4. OneCard(r)
  BY DEF OneCard
<1>5. Coherent(r)
  BY <1>1, <1>4 DEF Coherent, Lists, Finite
<1> QED  BY <1>1, <1>2, <1>3, <1>5 DEF Fresh, Plan

LEMMA UpdateListFresh ==
    ASSUME TypeOK, RowsOK, NEW p \in Proc, UpdateList(p)
    PROVE  \E r : Fresh(r) /\ Start(p, r)
<1>1. PICK l \in Lists, b \in Board, type \in Kanban :
        /\ Finite(l)
        /\ Start(p, [ op |-> "list", cards |-> {}, card |-> card, list |-> list,
                      from |-> l, to |-> [board |-> b, type |-> type],
                      cross |-> b # list[l].board, names |-> {},
                      steps |-> {IF b # list[l].board THEN "labels" ELSE "write"} ])
      BY Zenon DEF UpdateList
<1> DEFINE r == [ op |-> "list", cards |-> {}, card |-> card, list |-> list,
                  from |-> l, to |-> [board |-> b, type |-> type],
                  cross |-> b # list[l].board, names |-> {},
                  steps |-> {IF b # list[l].board THEN "labels" ELSE "write"} ]
<1>2. r \in ListPlan
  BY <1>1, RowFields, Sets, NoNames, StagesIn DEF ListPlan, Dest
<1>3. \E s \in Stage : r.steps = {s} /\ InStep(r, s)
  BY StagesIn DEF InStep, MoveStages
<1>5. Coherent(r)
  BY <1>1, Sets DEF Coherent, Lists, Finite, RowsOK
<1> QED  BY <1>1, <1>2, <1>3, <1>5 DEF Fresh, Plan

LEMMA MoveCardsFresh ==
    ASSUME TypeOK, NEW p \in Proc, MoveCards(p)
    PROVE  \E r : Fresh(r) /\ Start(p, r)
<1>1. PICK l \in Lists, a \in Lists :
        /\ list[l].type = "closed"
        /\ list[a].type = "archive" /\ list[a].board = list[l].board
        /\ Start(p, [ op |-> "archive", cards |-> {}, card |-> card, list |-> list,
                      from |-> l, to |-> a, cross |-> FALSE, names |-> {},
                      steps |-> {"sweep"} ])
      BY Zenon DEF MoveCards
<1> DEFINE r == [ op |-> "archive", cards |-> {}, card |-> card, list |-> list,
                  from |-> l, to |-> a, cross |-> FALSE, names |-> {},
                  steps |-> {"sweep"} ]
<1>2. r \in SweepPlan
  BY <1>1, RowFields, Sets, NoNames, StagesIn DEF SweepPlan
<1>3. \E s \in Stage : r.steps = {s} /\ InStep(r, s)
  BY StagesIn DEF InStep
<1>5. Coherent(r)
  BY <1>1 DEF Coherent, Lists, Kanban
<1> QED  BY <1>1, <1>2, <1>3, <1>5 DEF Fresh, Plan

LEMMA DeleteListFresh ==
    ASSUME TypeOK, NEW p \in Proc, DeleteList(p)
    PROVE  \E r : Fresh(r) /\ Start(p, r)
<1>1. PICK l \in Lists, t \in Lists :
        /\ Finite(l)
        /\ list[t].type = "trash" /\ list[t].board = list[l].board
        /\ Start(p, [ op |-> "trash", cards |-> {}, card |-> card, list |-> list,
                      from |-> l, to |-> t, cross |-> FALSE, names |-> {},
                      steps |-> {"sweep"} ])
      BY Zenon DEF DeleteList
<1> DEFINE r == [ op |-> "trash", cards |-> {}, card |-> card, list |-> list,
                  from |-> l, to |-> t, cross |-> FALSE, names |-> {},
                  steps |-> {"sweep"} ]
<1>2. r \in SweepPlan
  BY <1>1, RowFields, Sets, NoNames, StagesIn DEF SweepPlan
<1>3. \E s \in Stage : r.steps = {s} /\ InStep(r, s)
  BY StagesIn DEF InStep
<1>5. Coherent(r)
  BY <1>1 DEF Coherent, Lists, Kanban
<1> QED  BY <1>1, <1>2, <1>3, <1>5 DEF Fresh, Plan

LEMMA CreateCardFresh ==
    ASSUME TypeOK, RowsOK, NEW p \in Proc, CreateCard(p)
    PROVE  \E r : Fresh(r) /\ Start(p, r)
<1>1. PICK c \in Spare, l \in Lists :
        Start(p, [ op |-> "create", cards |-> {}, card |-> card, list |-> list,
                   from |-> l, to |-> l, cross |-> FALSE, names |-> {}, copy |-> c,
                   steps |-> {"write"} ])
      BY Zenon DEF CreateCard
<1> DEFINE r == [ op |-> "create", cards |-> {}, card |-> card, list |-> list,
                  from |-> l, to |-> l, cross |-> FALSE, names |-> {}, copy |-> c,
                  steps |-> {"write"} ]
<1>2. r \in CopyPlan
  BY <1>1, RowFields, Sets, NoNames, StagesIn, SpareFacts DEF CopyPlan
<1>3. \E s \in Stage : r.steps = {s} /\ InStep(r, s)
  BY StagesIn DEF InStep
<1>5. Coherent(r)
  BY <1>1, SpareFacts DEF Coherent, Lists
<1> QED  BY <1>1, <1>2, <1>3, <1>5 DEF Fresh, Plan

LEMMA DuplicateCardFresh ==
    ASSUME TypeOK, RowsOK, NEW p \in Proc, DuplicateCard(p)
    PROVE  \E r : Fresh(r) /\ Start(p, r)
<1>1. PICK c \in Cards, new \in Spare, l \in Lists :
        LET from == card[c].list
            cross == list[l].board # list[from].board
        IN  /\ from \in Lists
            /\ Start(p, [ op |-> "copy", cards |-> {c}, card |-> card, list |-> list,
                          from |-> from, to |-> l, cross |-> cross, names |-> {}, copy |-> new,
                          steps |-> {IF cross THEN "copy labels" ELSE "write"} ])
      BY Zenon DEF DuplicateCard
<1> DEFINE cross == list[l].board # list[card[c].list].board
           r == [ op |-> "copy", cards |-> {c}, card |-> card, list |-> list,
                  from |-> card[c].list, to |-> l, cross |-> cross, names |-> {}, copy |-> new,
                  steps |-> {IF cross THEN "copy labels" ELSE "write"} ]
<1>2. r \in CopyPlan
  BY <1>1, RowFields, Sets, NoNames, StagesIn, SpareFacts DEF CopyPlan
<1>3. \E s \in Stage : r.steps = {s} /\ InStep(r, s)
  BY StagesIn DEF InStep, CopyStages
<1>4. OneCard(r)
  BY DEF OneCard
<1>5. Coherent(r)
  BY <1>1, <1>4, SpareFacts DEF Coherent, Lists
<1> QED  BY <1>1, <1>2, <1>3, <1>5 DEF Fresh, Plan

LEMMA CreateTaskFresh ==
    ASSUME TypeOK, NEW p \in Proc, CreateTask(p)
    PROVE  \E r : Fresh(r) /\ Start(p, r)
<1>1. PICK c \in Cards, linked \in Cards, done \in BOOLEAN :
        Start(p, [ op |-> "task", cards |-> {linked}, card |-> card, list |-> list,
                   from |-> card[c].list, to |-> c, cross |-> FALSE, names |-> {},
                   done |-> done \/ card[linked].closed, steps |-> {"write"} ])
      BY Zenon DEF CreateTask
<1> DEFINE r == [ op |-> "task", cards |-> {linked}, card |-> card, list |-> list,
                  from |-> card[c].list, to |-> c, cross |-> FALSE, names |-> {},
                  done |-> done \/ card[linked].closed, steps |-> {"write"} ]
<1>0. (done \/ card[linked].closed) \in BOOLEAN  BY RowFields, Sets
<1>2. r \in TaskPlan
  BY <1>0, <1>1, RowFields, Sets, NoNames, StagesIn DEF TaskPlan
<1>3. \E s \in Stage : r.steps = {s} /\ InStep(r, s)
  BY StagesIn DEF InStep
<1>4. OneCard(r)
  BY DEF OneCard
<1>5. Coherent(r)
  BY <1>1, <1>4 DEF Coherent
<1> QED  BY <1>1, <1>2, <1>3, <1>5 DEF Fresh, Plan

\* A request begins with rows as they are and disturbs none.
LEMMA RequestFresh ==
    ASSUME TypeOK, RowsOK, NEW p \in Proc, Request(p)
    PROVE  \E r : /\ Fresh(r) /\ Began(p, r)
                  /\ plan' \in [Proc -> Plan \cup {Idle}] /\ UNCHANGED <<rows, odd>>
<1>1. \E r : Fresh(r) /\ Start(p, r)
  BY UpdateCardFresh, UpdateListFresh, MoveCardsFresh, DeleteListFresh, CreateCardFresh,
     DuplicateCardFresh, CreateTaskFresh, Zenon DEF Request
<1> QED  BY <1>1, StartBegan DEF Fresh

-----------------------------------------------------------------------------
(* What each statement does to the types and to the request *)

LEMMA StageOf ==
    ASSUME TypeOK, PlansOK, NEW p \in Proc, NEW s, At(p, s)
    PROVE  Busy(p) /\ plan[p] \in Plan /\ Step(p) = {s} /\ InStep(plan[p], s)
<1>1. Busy(p) /\ plan[p] \in Plan  BY AtBusy
<1>2. PICK t \in Stage : plan[p].steps = {t} /\ InStep(plan[p], t)  BY <1>1 DEF PlansOK
<1> QED  BY <1>1, <1>2 DEF At, Step

LEMMA StageOps ==
    ASSUME TypeOK, PlansOK, NEW p \in Proc, NEW s, At(p, s)
    PROVE  /\ s \in {"labels", "subscriptions", "memberships", "tags", "assignees", "tag"}
                => plan[p].op \in {"card", "list"} /\ plan[p].cross
           /\ s \in {"relabel", "label"}
                => (plan[p].op \in {"card", "list"} /\ plan[p].cross) \/ plan[p].op = "copy"
           /\ s \in {"sweep", "drop"} => plan[p].op \in {"archive", "trash"}
           /\ s \in {"copy labels", "copy members", "copy tags", "copy tasks"} => plan[p].op = "copy"
BY StageOf DEF InStep, MoveStages, CopyStages

LEMMA CarryingAt ==
    ASSUME TypeOK, PlansOK, NEW p \in Proc, NEW s, At(p, s)
    PROVE  Carrying(p) <=> plan[p].op \in {"card", "list"} /\ plan[p].cross /\ s # "labels"
BY StageOf DEF Carrying, At

LEMMA CarryingNow ==
    ASSUME TypeOK, PlansOK, NEW p \in Proc,
           NEW s \in {"subscriptions", "memberships", "tags", "assignees", "tag"}, At(p, s)
    PROVE  Carrying(p)
<1>1. plan[p].op \in {"card", "list"} /\ plan[p].cross  BY StageOps
<1>2. s # "labels"  OBVIOUS
<1> QED  BY <1>1, <1>2, CarryingAt

CardsRead(p) == IF plan[p].op = "list" THEN CardsIn(plan[p].from) ELSE plan[p].cards
NamesRead(p) == {Wanted(x[1], x[2]) : x \in {y \in tags : y[1] \in CardsRead(p)}}

LEMMA WantedType ==
    ASSUME NEW c \in Card, NEW l \in Label, label[l].name \in Name
    PROVE  /\ Wanted(c, l) \in [card : Card, was : Label, name : Name, label : Label \cup {None}]
           /\ Wanted(c, l).card = c /\ Wanted(c, l).name = label[l].name /\ Wanted(c, l).label = None
BY DEF Wanted

LEMMA TagFields ==
    ASSUME TypeOK, NEW x \in tags
    PROVE  x[1] \in Card /\ x[2] \in Label /\ label[x[2]].name \in Name
BY RowFields DEF TypeOK, RowsTypeOK

LEMMA ReadLabelsEffect ==
    ASSUME TypeOK, PlansOK, NEW p \in Proc, ReadLabels(p)
    PROVE  /\ Went(p, "subscriptions", CardsRead(p), NamesRead(p))
           /\ TypeOK'
<1>1. At(p, "labels") /\ Busy(p) /\ plan[p] \in Plan  BY AtBusy DEF ReadLabels
<1>2. CardsRead(p) \in SUBSET Card  BY <1>1, PlanFields, Sets DEF CardsRead, CardsIn
<1>3. NamesRead(p) \in Names  BY <1>2, TagFields, WantedType DEF NamesRead, Names
<1> DEFINE r == Changed(plan[p], CardsRead(p), NamesRead(p), {"subscriptions"})
<1>4. plan' = [plan EXCEPT ![p] = r]  BY Zenon DEF ReadLabels, CardsRead, NamesRead, Changed
<1>5. plan \in [Proc -> Plan \cup {Idle}]  BY DEF TypeOK
<1>6. {"subscriptions"} \in SUBSET Stage  BY StagesIn
<1>7. r \in Plan /\ Same(plan[p], r) /\ r.cards = CardsRead(p) /\ r.names = NamesRead(p) /\ r.steps = {"subscriptions"}
  BY <1>1, <1>2, <1>3, <1>6, ChangePlan
<1> HIDE DEF r
<1>8. Went(p, "subscriptions", CardsRead(p), NamesRead(p))  BY <1>1, <1>4, <1>5, <1>7 DEF Went, Others
<1>9. plan' \in [Proc -> Plan \cup {Idle}]  BY <1>4, <1>5, <1>7
<1>10. UNCHANGED rows  BY DEF ReadLabels
<1> QED  BY <1>8, <1>9, <1>10 DEF TypeOK, RowsTypeOK, rows

LEMMA DropSubscriptionsEffect ==
    ASSUME TypeOK, NEW p \in Proc, DropSubscriptions(p)
    PROVE  /\ Went(p, "memberships", plan[p].cards, plan[p].names)
           /\ TypeOK'
<1>1. Busy(p) /\ Goto(p, "memberships")  BY AtBusy DEF DropSubscriptions
<1>2. people' \subseteq people /\ UNCHANGED <<list, card, task, label, tags>>  BY DEF DropSubscriptions
<1> QED  BY <1>1, <1>2, StagesIn, GotoWent, GotoTypes DEF TypeOK, RowsTypeOK

LEMMA DropMembershipsEffect ==
    ASSUME TypeOK, NEW p \in Proc, DropMemberships(p)
    PROVE  /\ Went(p, "tags", plan[p].cards, plan[p].names)
           /\ TypeOK'
<1>1. Busy(p) /\ Goto(p, "tags")  BY AtBusy DEF DropMemberships
<1>2. people' \subseteq people /\ UNCHANGED <<list, card, task, label, tags>>  BY DEF DropMemberships
<1> QED  BY <1>1, <1>2, StagesIn, GotoWent, GotoTypes DEF TypeOK, RowsTypeOK

LEMMA DropTagsEffect ==
    ASSUME TypeOK, NEW p \in Proc, DropTags(p)
    PROVE  /\ Went(p, "assignees", plan[p].cards, plan[p].names)
           /\ TypeOK'
<1>1. Busy(p) /\ Goto(p, "assignees")  BY AtBusy DEF DropTags
<1>2. tags' \subseteq tags /\ UNCHANGED <<list, card, task, label, people>>  BY DEF DropTags
<1> QED  BY <1>1, <1>2, StagesIn, GotoWent, GotoTypes DEF TypeOK, RowsTypeOK

LEMMA DropAssigneesEffect ==
    ASSUME TypeOK, NEW p \in Proc, DropAssignees(p)
    PROVE  /\ Went(p, "write", plan[p].cards, plan[p].names)
           /\ TypeOK'
           /\ \A t \in Task : /\ task'[t].card = task[t].card /\ task'[t].link = task[t].link
                              /\ task'[t].done = task[t].done
                              /\ task'[t].assignee =
                                   IF t \in TasksOf(plan[p].cards) /\ task[t].assignee \notin MembersOf[Target(p)]
                                     THEN None ELSE task[t].assignee
<1>1. Busy(p) /\ Goto(p, "write")  BY AtBusy DEF DropAssignees
<1>2. UNCHANGED <<list, card, label, tags, people>>  BY DEF DropAssignees
<1>3. task' = [t \in Task |->
          IF t \in TasksOf(plan[p].cards) /\ task[t].assignee \notin MembersOf[Target(p)]
            THEN [task[t] EXCEPT !.assignee = None] ELSE task[t]]  BY DEF DropAssignees
<1>4. task \in [Task -> TaskRow]  BY DEF TypeOK, RowsTypeOK
<1>5. \A t \in Task : [task[t] EXCEPT !.assignee = None] \in TaskRow  BY <1>4 DEF TaskRow
<1>6. task' \in [Task -> TaskRow]  BY <1>3, <1>4, <1>5
<1>7. TypeOK'  BY <1>1, <1>2, <1>6, StagesIn, GotoTypes DEF TypeOK, RowsTypeOK
<1>8. ASSUME NEW t \in Task
      PROVE  /\ task'[t].card = task[t].card /\ task'[t].link = task[t].link
             /\ task'[t].done = task[t].done
             /\ task'[t].assignee =
                  IF t \in TasksOf(plan[p].cards) /\ task[t].assignee \notin MembersOf[Target(p)]
                    THEN None ELSE task[t].assignee
  <2>1. task'[t] = IF t \in TasksOf(plan[p].cards) /\ task[t].assignee \notin MembersOf[Target(p)]
            THEN [task[t] EXCEPT !.assignee = None] ELSE task[t]  BY <1>3
  <2> QED  BY <2>1, <1>4 DEF TaskRow
<1> QED  BY <1>1, <1>7, <1>8, StagesIn, GotoWent

LEMMA FollowFields ==
    ASSUME TypeOK, NEW S, NEW closed \in BOOLEAN
    PROVE  /\ Follow(S, closed) \in [Task -> TaskRow]
           /\ \A t \in Task : LET new == Follow(S, closed)[t] IN
                 /\ new.card = task[t].card /\ new.link = task[t].link /\ new.assignee = task[t].assignee
                 /\ new.done = IF t \in Linked(S) THEN closed ELSE task[t].done
<1>1. task \in [Task -> TaskRow]  BY DEF TypeOK, RowsTypeOK
<1>2. \A t \in Task : [task[t] EXCEPT !.done = closed] \in TaskRow  BY <1>1 DEF TaskRow
<1>3. Follow(S, closed) \in [Task -> TaskRow]  BY <1>1, <1>2 DEF Follow
<1>4. ASSUME NEW t \in Task
      PROVE  LET new == Follow(S, closed)[t] IN
                 /\ new.card = task[t].card /\ new.link = task[t].link /\ new.assignee = task[t].assignee
                 /\ new.done = IF t \in Linked(S) THEN closed ELSE task[t].done
  <2>1. Follow(S, closed)[t] = IF t \in Linked(S) THEN [task[t] EXCEPT !.done = closed] ELSE task[t]  BY DEF Follow
  <2>2. task[t] \in TaskRow  BY <1>1
  <2> QED  BY <2>1, <2>2 DEF TaskRow
<1> QED  BY <1>3, <1>4

\* The row a card is given, in its parts.
ClosedBy(p, c) ==
    IF plan[p].to # plan[p].from THEN Closed(plan[p].card[c], plan[p].list[plan[p].to].type)
    ELSE plan[p].card[c].closed
Switched(p, c) == ClosedBy(p, c) # plan[p].card[c].closed
PlacedBy(p, c) ==
    IF plan[p].list[plan[p].to].type \notin Kanban \/ plan[p].position = "null" THEN FALSE
    ELSE IF plan[p].position = "number" THEN TRUE ELSE card[c].placed
PrevBy(p, c) ==
    IF plan[p].to # plan[p].from
      THEN PrevList(plan[p].card[c], plan[p].from, plan[p].list[plan[p].from].type,
                    plan[p].list[plan[p].to].type, plan[p].cross)
      ELSE card[c].prev

CardWritten(p, c) ==
    /\ \A k \in Card \ {c} : card'[k] = card[k]
    /\ card'[c].list = IF plan[p].to # plan[p].from THEN plan[p].to ELSE card[c].list
    /\ card'[c].board = IF plan[p].cross THEN Target(p) ELSE card[c].board
    /\ card'[c].prev = PrevBy(p, c)
    /\ card'[c].closed = IF Switched(p, c) THEN ClosedBy(p, c) ELSE card[c].closed
    /\ card'[c].placed = PlacedBy(p, c)
    /\ task' = IF Switched(p, c) THEN Follow({c}, ClosedBy(p, c)) ELSE task
    /\ odd' = odd
         \cup (IF Stale(p, {c}, {plan[p].from, plan[p].to}) THEN Record({c}, "stale") ELSE {})
         \cup (IF plan[p].position = "null" THEN Record({c}, "null") ELSE {})
    /\ IF plan[p].cross THEN Went(p, "relabel", plan[p].cards, plan[p].names) ELSE Ended(p)

LEMMA TargetBoard ==
    ASSUME TypeOK, PlansOK, NEW p \in Proc, Busy(p), plan[p].op \in {"card", "list", "copy"}
    PROVE  Target(p) \in Board
<1>1. plan[p] \in Plan /\ Coherent(plan[p])  BY DEF TypeOK, PlansOK, Busy
<1>2. CASE plan[p].op = "list"  BY <1>1, <1>2, PlanFields DEF Target, Dest
<1>3. CASE plan[p].op # "list"
  <2>1. plan[p].to \in List /\ plan[p].list \in ListTable  BY <1>1, <1>3, PlanFields
  <2>2. plan[p].list[plan[p].to].board \in Board \cup {None}  BY <2>1 DEF ListTable, ListRow
  <2> QED  BY <1>1, <1>3, <2>2 DEF Target, Coherent
<1> QED  BY <1>2, <1>3

LEMMA SnapFields ==
    ASSUME NEW r \in Plan
    PROVE  /\ \A l \in List : r.list[l].board \in Board \cup {None} /\ r.list[l].type \in {"active", "closed", "archive", "trash"}
           /\ \A c \in Card : /\ r.card[c].list \in List \cup {None} /\ r.card[c].board \in Board \cup {None}
                              /\ r.card[c].prev \in List \cup {None} /\ r.card[c].closed \in BOOLEAN
                              /\ r.card[c].placed \in BOOLEAN
BY PlanFields DEF ListTable, CardTable, ListRow, CardRow, Kanban

LEMMA WriteCardEffect ==
    ASSUME TypeOK, PlansOK, NEW p \in Proc, WriteCard(p)
    PROVE  /\ Busy(p) /\ At(p, "write") /\ plan[p].op = "card" /\ plan[p].cross \in BOOLEAN
           /\ \E c \in Cards : plan[p].cards = {c} /\ CardWritten(p, c)
           /\ UNCHANGED <<list, label, tags, people>>
           /\ TypeOK'
<1>1. At(p, "write") /\ Busy(p) /\ plan[p] \in Plan /\ plan[p].op = "card" /\ Coherent(plan[p])
  BY AtBusy DEF WriteCard, PlansOK
<1>2. PICK c \in Cards : plan[p].cards = {c}  BY <1>1 DEF Coherent, OneCard
<1> DEFINE new == [card[c] EXCEPT
                        !.list = IF plan[p].to # plan[p].from THEN plan[p].to ELSE card[c].list,
                        !.board = IF plan[p].cross THEN Target(p) ELSE card[c].board,
                        !.prev = PrevBy(p, c),
                        !.closed = IF Switched(p, c) THEN ClosedBy(p, c) ELSE card[c].closed,
                        !.placed = PlacedBy(p, c)]
<1>3. /\ card' = [card EXCEPT ![c] = new]
      /\ task' = IF Switched(p, c) THEN Follow({c}, ClosedBy(p, c)) ELSE task
      /\ odd' = odd
             \cup (IF Stale(p, {c}, {plan[p].from, plan[p].to}) THEN Record({c}, "stale") ELSE {})
             \cup (IF plan[p].position = "null" THEN Record({c}, "null") ELSE {})
      /\ IF plan[p].cross THEN Goto(p, "relabel") ELSE Done(p)
      /\ UNCHANGED <<list, label, tags, people>>
  <2>1. PICK k \in plan[p].cards :
          LET l     == plan[p].to
              from  == plan[p].from
              row   == plan[p].card[k]
              type  == plan[p].list[l].type
              moves == l # from
              closed == IF moves THEN Closed(row, type) ELSE row.closed
              switch == closed # row.closed
              placed == IF type \notin Kanban \/ plan[p].position = "null" THEN FALSE
                        ELSE IF plan[p].position = "number" THEN TRUE ELSE card[k].placed
              new_ == [card[k] EXCEPT
                        !.list = IF moves THEN l ELSE card[k].list,
                        !.board = IF plan[p].cross THEN Target(p) ELSE card[k].board,
                        !.prev = IF moves THEN PrevList(row, from, plan[p].list[from].type, type, plan[p].cross)
                                 ELSE card[k].prev,
                        !.closed = IF switch THEN closed ELSE card[k].closed,
                        !.placed = placed]
          IN  IF k \in Cards
                THEN /\ card' = [card EXCEPT ![k] = new_]
                     /\ task' = IF switch THEN Follow({k}, closed) ELSE task
                     /\ odd' = odd
                          \cup (IF Stale(p, {k}, {from, l}) THEN Record({k}, "stale") ELSE {})
                          \cup (IF plan[p].position = "null" THEN Record({k}, "null") ELSE {})
                     /\ IF plan[p].cross THEN Goto(p, "relabel") ELSE Done(p)
                ELSE /\ Done(p)
                     /\ UNCHANGED <<card, task, odd>>
    BY Zenon DEF WriteCard
  <2>2. k = c /\ k \in Cards  BY <1>2, <2>1
  <2> QED  BY <2>1, <2>2, Zenon DEF Switched, ClosedBy, PlacedBy, PrevBy, WriteCard
<1>4. c \in Card /\ card \in [Card -> CardRow]  BY Sets, <1>2 DEF TypeOK, RowsTypeOK
<1>5. plan[p].to \in List /\ plan[p].from \in List  BY <1>1, PlanFields
<1>6. Target(p) \in Board  BY <1>1, TargetBoard
<1>7. ClosedBy(p, c) \in BOOLEAN  BY <1>1, <1>4, SnapFields DEF ClosedBy, Closed
<1>8. PlacedBy(p, c) \in BOOLEAN  BY <1>4, RowFields DEF PlacedBy
<1>9. PrevBy(p, c) \in List \cup {None}  BY <1>1, <1>4, <1>5, SnapFields, RowFields DEF PrevBy, PrevList
<1>10. new \in CardRow  BY <1>4, <1>5, <1>6, <1>7, <1>8, <1>9 DEF CardRow
<1>11. /\ card'[c].list = IF plan[p].to # plan[p].from THEN plan[p].to ELSE card[c].list
       /\ card'[c].board = IF plan[p].cross THEN Target(p) ELSE card[c].board
       /\ card'[c].prev = PrevBy(p, c)
       /\ card'[c].closed = IF Switched(p, c) THEN ClosedBy(p, c) ELSE card[c].closed
       /\ card'[c].placed = PlacedBy(p, c)
  <2>1. card'[c] = new /\ card[c] \in CardRow  BY <1>3, <1>4
  <2> QED  BY <2>1 DEF CardRow
<1>12. card' \in [Card -> CardRow]  BY <1>3, <1>4, <1>10
<1>13. \A k \in Card \ {c} : card'[k] = card[k]  BY <1>3, <1>4
<1>14. task' \in [Task -> TaskRow]  BY <1>3, <1>7, FollowFields DEF TypeOK, RowsTypeOK
<1>15. IF plan[p].cross THEN Went(p, "relabel", plan[p].cards, plan[p].names) ELSE Ended(p)
  BY <1>1, <1>3, GotoWent, DoneEnded, StagesIn
<1>16. plan' \in [Proc -> Plan \cup {Idle}]  BY <1>1, <1>3, GotoTypes, DoneEnded, StagesIn
<1>17. TypeOK'  BY <1>3, <1>12, <1>14, <1>16 DEF TypeOK, RowsTypeOK
<1>18. CardWritten(p, c)  BY <1>3, <1>11, <1>13, <1>15 DEF CardWritten
<1>19. plan[p].cross \in BOOLEAN  BY <1>1, PlanFields
<1> QED  BY <1>1, <1>2, <1>3, <1>17, <1>18, <1>19

\* A list and its cards are written.
ListWritten(p) ==
    LET l == plan[p].from
        S == CardsIn(l)
        board == IF plan[p].cross THEN plan[p].to.board ELSE list[l].board
        switch == list[l].type # plan[p].to.type
        closed == plan[p].to.type = "closed"
    IN  /\ l \in Lists
        /\ \A k \in List \ {l} : list'[k] = list[k]
        /\ list'[l].board = board /\ list'[l].type = plan[p].to.type
        /\ \A c \in Card \ S : card'[c] = card[c]
        /\ \A c \in S : /\ card'[c].list = l /\ card'[c].prev = card[c].prev /\ card'[c].placed = card[c].placed
                        /\ card'[c].board = IF list[l].board # board THEN board ELSE card[c].board
                        /\ card'[c].closed = IF switch THEN closed ELSE card[c].closed
        /\ task' = IF switch THEN Follow(S, closed) ELSE task
        /\ odd' = odd \cup
              (IF plan[p].cross
                 THEN Record((S \ plan[p].cards) \cup (plan[p].cards \ S), "stale")
                      \cup (IF list[l] # plan[p].list[l] THEN Record(S, "stale") ELSE {})
                 ELSE {})
        /\ IF plan[p].cross THEN Went(p, "relabel", plan[p].cards, plan[p].names) ELSE Ended(p)

ListGone(p) ==
    /\ odd' = odd \cup Record(plan[p].cards, "stale")
    /\ Ended(p)
    /\ UNCHANGED <<list, card, task>>

LEMMA WriteListEffect ==
    ASSUME TypeOK, PlansOK, NEW p \in Proc, WriteList(p)
    PROVE  /\ Busy(p) /\ At(p, "write") /\ plan[p].op = "list" /\ plan[p].cross \in BOOLEAN
           /\ ListWritten(p) \/ ListGone(p)
           /\ UNCHANGED <<label, tags, people>>
           /\ TypeOK'
<1> DEFINE l == plan[p].from
           was == list[l]
           new == [board |-> IF plan[p].cross THEN plan[p].to.board ELSE was.board,
                   type |-> plan[p].to.type]
           S == CardsIn(l)
           board == IF plan[p].cross THEN plan[p].to.board ELSE was.board
           switch == was.type # plan[p].to.type
           closed == plan[p].to.type = "closed"
           moved(c) == [card[c] EXCEPT
                          !.board = IF was.board # board THEN board ELSE @,
                          !.closed = IF switch THEN closed ELSE @]
<1>1. At(p, "write") /\ Busy(p) /\ plan[p] \in Plan /\ plan[p].op = "list"
  BY AtBusy DEF WriteList
<1>2. l \in List /\ plan[p].to \in Dest /\ plan[p].cross \in BOOLEAN  BY <1>1, PlanFields
<1>3. card \in [Card -> CardRow] /\ list \in [List -> ListRow] /\ task \in [Task -> TaskRow]  BY DEF TypeOK, RowsTypeOK
<1>4. UNCHANGED <<label, tags, people>>  BY DEF WriteList
<1>5. CASE l \in Lists
  <2>1. /\ list' = [list EXCEPT ![l] = new]
        /\ card' = [c \in Card |-> IF c \in S THEN moved(c) ELSE card[c]]
        /\ task' = IF switch THEN Follow(S, closed) ELSE task
        /\ odd' = odd \cup
              (IF plan[p].cross
                 THEN Record((S \ plan[p].cards) \cup (plan[p].cards \ S), "stale")
                      \cup (IF list[l] # plan[p].list[l] THEN Record(S, "stale") ELSE {})
                 ELSE {})
        /\ IF plan[p].cross THEN Goto(p, "relabel") ELSE Done(p)
    <3>1. new.board = board /\ new.type = plan[p].to.type  OBVIOUS
    <3>2. /\ list' = [list EXCEPT ![l] = new]
          /\ card' = [c \in Card |-> IF c \in S THEN [card[c] EXCEPT
                          !.board = IF was.board # new.board THEN new.board ELSE @,
                          !.closed = IF was.type # new.type THEN new.type = "closed" ELSE @] ELSE card[c]]
          /\ task' = IF was.type # new.type THEN Follow(S, new.type = "closed") ELSE task
          /\ odd' = odd \cup
              (IF plan[p].cross
                 THEN Record((S \ plan[p].cards) \cup (plan[p].cards \ S), "stale")
                      \cup (IF list[l] # plan[p].list[l] THEN Record(S, "stale") ELSE {})
                 ELSE {})
          /\ IF plan[p].cross THEN Goto(p, "relabel") ELSE Done(p)
      BY <1>5, Zenon DEF WriteList
    <3> HIDE DEF new, board
    <3> QED  BY <3>1, <3>2, Zenon
  <2>2. new \in ListRow  BY <1>2, <1>3 DEF ListRow, Dest, Kanban
  <2>3. \A c \in Card : moved(c) \in CardRow
    <3>1. board \in Board \cup {None}  BY <1>2, <1>3 DEF ListRow, Dest
    <3> HIDE DEF board
    <3> QED  BY <1>3, <3>1 DEF CardRow
  <2>4. list' \in [List -> ListRow]  BY <1>3, <2>1, <2>2
  <2>5. card' \in [Card -> CardRow]  BY <1>3, <2>1, <2>3
  <2>6. task' \in [Task -> TaskRow]  BY <1>3, <2>1, FollowFields
  <2>7. plan' \in [Proc -> Plan \cup {Idle}]  BY <1>1, <2>1, GotoTypes, DoneEnded, StagesIn
  <2>8. IF plan[p].cross THEN Went(p, "relabel", plan[p].cards, plan[p].names) ELSE Ended(p)
    BY <1>1, <2>1, GotoWent, DoneEnded, StagesIn
  <2>9. TypeOK'  BY <1>4, <2>4, <2>5, <2>6, <2>7 DEF TypeOK, RowsTypeOK
  <2>10. \A k \in List \ {l} : list'[k] = list[k]  BY <1>3, <2>1
  <2>11. list'[l].board = board /\ list'[l].type = plan[p].to.type  BY <1>2, <1>3, <2>1
  <2>12. \A c \in Card \ S : card'[c] = card[c]  BY <2>1
  <2>13. ASSUME NEW c \in S
         PROVE  /\ card'[c].list = l /\ card'[c].prev = card[c].prev /\ card'[c].placed = card[c].placed
                /\ card'[c].board = IF was.board # board THEN board ELSE card[c].board
                /\ card'[c].closed = IF switch THEN closed ELSE card[c].closed
    <3>1. c \in Card /\ card[c].list = l  BY Sets DEF CardsIn
    <3>2. card'[c] = moved(c) /\ card[c] \in CardRow  BY <1>3, <2>1, <3>1
    <3> QED  BY <3>1, <3>2 DEF CardRow
  <2>14. ListWritten(p)  BY <1>5, <2>1, <2>8, <2>10, <2>11, <2>12, <2>13 DEF ListWritten
  <2> QED  BY <1>1, <1>2, <1>4, <2>9, <2>14
<1>6. CASE l \notin Lists
  <2>1. /\ odd' = odd \cup Record(plan[p].cards, "stale")
        /\ Done(p)
        /\ UNCHANGED <<list, card, task>>
    BY <1>6, Zenon DEF WriteList
  <2> QED  BY <1>1, <1>2, <1>4, <2>1, DoneEnded DEF ListGone, TypeOK, RowsTypeOK
<1> QED  BY <1>5, <1>6

\* The same names for the same cards, whatever the labels.
SameNames(M, N) ==
    /\ \A x \in M : \E y \in N : y.card = x.card /\ y.name = x.name
    /\ \A y \in N : \E x \in M : x.card = y.card /\ x.name = y.name
FoundAmong(x) == x.label \in Labels /\ label[x.label].name = x.name

WantedSet == [card : Card, was : Label, name : Name, label : Label \cup {None}]

LEMMA LabelGiven ==
    ASSUME NEW x \in WantedSet, NEW l \in Label \cup {None}
    PROVE  LET y == [x EXCEPT !.label = l]
           IN  y \in WantedSet /\ y.card = x.card /\ y.name = x.name /\ y.label = l
BY DEF WantedSet

LEMMA NamesIn ==
    ASSUME TypeOK, NEW p \in Proc, Busy(p)
    PROVE  plan[p].names \subseteq WantedSet
<1>1. plan[p] \in Plan  BY DEF TypeOK, Busy
<1> QED  BY <1>1, PlanFields DEF Names, WantedSet

LEMMA NamesOf ==
    ASSUME NEW N, \A x \in N : x \in WantedSet
    PROVE  N \in Names
BY DEF Names, WantedSet

TargetRead(p) ==
    IF plan[p].op = "copy" THEN Target(p)
    ELSE IF plan[p].op = "list" THEN list[plan[p].from].board
    ELSE card[CHOOSE c \in plan[p].cards : TRUE].board
LabelFor(b, n) == IF Named(b, n) = {} THEN None ELSE CHOOSE l \in Named(b, n) : TRUE

LEMMA LabelForFacts ==
    ASSUME NEW b, NEW n, LabelFor(b, n) # None
    PROVE  LabelFor(b, n) \in Labels /\ label[LabelFor(b, n)].name = n
<1>1. Named(b, n) # {}  BY DEF LabelFor
<1>2. LabelFor(b, n) \in Named(b, n)  BY <1>1, Zenon DEF LabelFor
<1> QED  BY <1>2 DEF Named, LabelsOf

LEMMA ReadTargetLabelsEffect ==
    ASSUME TypeOK, PlansOK, NEW p \in Proc, ReadTargetLabels(p)
    PROVE  /\ \E N : /\ Went(p, "label", plan[p].cards, N) /\ SameNames(plan[p].names, N)
                     /\ \A x \in N : x.label # None => FoundAmong(x)
           /\ TypeOK' /\ UNCHANGED <<rows, odd>>
<1> DEFINE b == TargetRead(p)
           given(x) == [x EXCEPT !.label = LabelFor(b, x.name)]
           N == {given(x) : x \in plan[p].names}
           r == Changed(plan[p], plan[p].cards, N, {"label"})
<1>1. At(p, "relabel") /\ Busy(p) /\ plan[p] \in Plan  BY AtBusy DEF ReadTargetLabels
<1>2. UNCHANGED <<rows, odd>>  BY DEF ReadTargetLabels
<1>3. plan' = [plan EXCEPT ![p] = [plan[p] EXCEPT !.names = N, !.steps = {"label"}]]
  BY Zenon DEF ReadTargetLabels, TargetRead, LabelFor
<1>4. ASSUME NEW x \in plan[p].names
      PROVE  /\ given(x) \in WantedSet /\ given(x).card = x.card /\ given(x).name = x.name
             /\ given(x).label # None => FoundAmong(given(x))
  <2>1. x \in WantedSet  BY <1>1, NamesIn
  <2>2. LabelFor(b, x.name) \in Label \cup {None}  BY LabelForFacts, Sets
  <2>3. /\ given(x) \in WantedSet /\ given(x).card = x.card /\ given(x).name = x.name
        /\ given(x).label = LabelFor(b, x.name)
    BY <2>1, <2>2, LabelGiven
  <2> QED  BY <2>3, LabelForFacts DEF FoundAmong
<1>5. N \in Names  BY <1>4, NamesOf
<1>6. SameNames(plan[p].names, N) /\ \A x \in N : x.label # None => FoundAmong(x)
  BY <1>4 DEF SameNames
<1> HIDE DEF N
<1>7. {"label"} \in SUBSET Stage /\ plan[p].cards \in SUBSET Card  BY <1>1, StagesIn, PlanFields
<1>8. plan' = [plan EXCEPT ![p] = r]
  <2>1. [plan[p] EXCEPT !.names = N, !.steps = {"label"}] = r  BY <1>1, <1>5, <1>7, ChangeNames, Zenon
  <2> QED  BY <1>3, <2>1, Zenon
<1>9. r \in Plan /\ Same(plan[p], r) /\ r.cards = plan[p].cards /\ r.names = N /\ r.steps = {"label"}
  BY <1>1, <1>5, <1>7, ChangePlan
<1>10. plan \in [Proc -> Plan \cup {Idle}]  BY DEF TypeOK
<1> HIDE DEF r
<1>11. Went(p, "label", plan[p].cards, N)  BY <1>1, <1>8, <1>9, <1>10 DEF Went, Others
<1>12. plan' \in [Proc -> Plan \cup {Idle}]  BY <1>8, <1>9, <1>10
<1> QED  BY <1>2, <1>6, <1>11, <1>12 DEF TypeOK, RowsTypeOK, rows

LEMMA CreateLabelsEffect ==
    ASSUME TypeOK, PlansOK, NEW p \in Proc, CreateLabels(p)
    PROVE  /\ \E N : /\ Went(p, IF plan[p].op = "copy" THEN "write" ELSE "tag", plan[p].cards, N)
                     /\ SameNames(plan[p].names, N)
                     /\ \A x \in N : x.label # None /\ FoundAmong(x)'
           /\ \A l \in Labels : l \in Labels' /\ label'[l] = label[l]
           /\ TypeOK' /\ UNCHANGED <<list, card, task, tags, people, odd>>
<1> DEFINE missing == {<<x.was, x.name>> : x \in {y \in plan[p].names : y.label = None}}
           s == IF plan[p].op = "copy" THEN "write" ELSE "tag"
<1>1. At(p, "label") /\ Busy(p) /\ plan[p] \in Plan  BY AtBusy DEF CreateLabels
<1>2. UNCHANGED <<list, card, task, tags, people, odd>>  BY DEF CreateLabels
<1>3. PICK new \in [missing -> Label \ Labels] :
          /\ \A m, n \in missing : new[m] = new[n] => m = n
          /\ label' = [l \in Label |->
                IF \E n \in missing : new[n] = l
                  THEN [board |-> Target(p), name |-> (CHOOSE n \in missing : new[n] = l)[2]]
                  ELSE label[l]]
          /\ plan' = [plan EXCEPT ![p] = [plan[p] EXCEPT
                !.names = {IF x.label = None THEN [x EXCEPT !.label = new[<<x.was, x.name>>]] ELSE x
                              : x \in plan[p].names},
                !.steps = {IF plan[p].op = "copy" THEN "write" ELSE "tag"}]]
  BY Zenon DEF CreateLabels
<1> DEFINE given(x) == IF x.label = None THEN [x EXCEPT !.label = new[<<x.was, x.name>>]] ELSE x
           N == {given(x) : x \in plan[p].names}
           r == Changed(plan[p], plan[p].cards, N, {s})
<1>4. plan[p].names \subseteq WantedSet  BY <1>1, NamesIn
<1>5. \A n \in missing : n[2] \in Name  BY <1>4 DEF WantedSet
<1>6. Target(p) \in Board
  <2>1. plan[p].op \in {"card", "list", "copy"}  BY <1>1, StageOps
  <2> QED  BY <1>1, <2>1, TargetBoard
<1>7. \A l \in Labels : l \in Labels' /\ label'[l] = label[l]  BY <1>3, Sets DEF Labels
<1>8. \A n \in missing : new[n] \in Label /\ label'[new[n]].board = Target(p) /\ label'[new[n]].name = n[2]
  <2> SUFFICES ASSUME NEW n \in missing
               PROVE  new[n] \in Label /\ label'[new[n]].board = Target(p) /\ label'[new[n]].name = n[2]
    OBVIOUS
  <2>1. new[n] \in Label \ Labels  BY <1>3
  <2> DEFINE m == CHOOSE k \in missing : new[k] = new[n]
  <2>2. m \in missing /\ new[m] = new[n]  BY Zenon
  <2>3. m = n  BY <1>3, <2>2
  <2>4. label'[new[n]] = [board |-> Target(p), name |-> m[2]]  BY <1>3, <2>1
  <2> HIDE DEF m
  <2> QED  BY <2>1, <2>3, <2>4
<1>9. ASSUME NEW x \in plan[p].names
      PROVE  /\ given(x) \in WantedSet /\ given(x).card = x.card /\ given(x).name = x.name
             /\ given(x).label # None /\ FoundAmong(given(x))'
  <2>1. x \in WantedSet  BY <1>4
  <2>2. CASE x.label = None
    <3> DEFINE n == <<x.was, x.name>>
    <3>1. n \in missing /\ n[2] = x.name  BY <2>2
    <3>2. /\ given(x) \in WantedSet /\ given(x).card = x.card /\ given(x).name = x.name
          /\ given(x).label = new[n]
      BY <1>8, <2>1, <2>2, <3>1, LabelGiven
    <3>3. new[n] \in Labels' /\ new[n] # None  BY <1>6, <1>8, <3>1, Nowhere DEF Labels
    <3> QED  BY <1>8, <3>1, <3>2, <3>3 DEF FoundAmong
  <2>3. CASE x.label # None
    <3>1. given(x) = x  BY <2>3
    <3>2. x.label \in Labels /\ label[x.label].name = x.name  BY <1>1, <2>3 DEF PlansOK, Labelled
    <3> QED  BY <1>7, <2>1, <2>3, <3>1, <3>2 DEF FoundAmong
  <2> QED  BY <2>2, <2>3
<1>10. N \in Names  BY <1>9, NamesOf
<1>11. SameNames(plan[p].names, N) /\ \A x \in N : x.label # None /\ FoundAmong(x)'
  BY <1>9 DEF SameNames
<1>12. plan' = [plan EXCEPT ![p] = [plan[p] EXCEPT !.names = N, !.steps = {s}]]  BY <1>3, Zenon
<1> HIDE DEF N
<1>13. {s} \in SUBSET Stage /\ plan[p].cards \in SUBSET Card  BY <1>1, StagesIn, PlanFields
<1>14. plan' = [plan EXCEPT ![p] = r]
  <2>1. [plan[p] EXCEPT !.names = N, !.steps = {s}] = r  BY <1>1, <1>10, <1>13, ChangeNames, Zenon
  <2> QED  BY <1>12, <2>1, Zenon
<1>15. r \in Plan /\ Same(plan[p], r) /\ r.cards = plan[p].cards /\ r.names = N /\ r.steps = {s}
  BY <1>1, <1>10, <1>13, ChangePlan
<1>16. plan \in [Proc -> Plan \cup {Idle}]  BY DEF TypeOK
<1> HIDE DEF r
<1>17. Went(p, s, plan[p].cards, N)  BY <1>1, <1>14, <1>15, <1>16 DEF Went, Others
<1>18. plan' \in [Proc -> Plan \cup {Idle}]  BY <1>14, <1>15, <1>16
<1>19. label' \in [Label -> LabelRow]
  <2>1. label \in [Label -> LabelRow]  BY DEF TypeOK, RowsTypeOK
  <2>2. ASSUME NEW l \in Label, \E n \in missing : new[n] = l
        PROVE  [board |-> Target(p), name |-> (CHOOSE n \in missing : new[n] = l)[2]] \in LabelRow
    <3>1. (CHOOSE n \in missing : new[n] = l) \in missing  BY <2>2, Zenon
    <3> QED  BY <1>5, <1>6, <3>1 DEF LabelRow
  <2> HIDE DEF missing
  <2> QED  BY <1>3, <2>1, <2>2
<1> QED  BY <1>2, <1>7, <1>11, <1>17, <1>18, <1>19 DEF TypeOK, RowsTypeOK

LEMMA TagEffect ==
    ASSUME TypeOK, PlansOK, NEW p \in Proc, Tag(p)
    PROVE  /\ Ended(p) /\ TypeOK' /\ plan[p].names \subseteq WantedSet
           /\ \A x \in plan[p].names : x.label \in Labels /\ label[x.label].name = x.name
           /\ \/ tags' = tags \cup {<<x.card, x.label>> : x \in plan[p].names}
              \/ /\ tags' = tags
                 /\ \A x \in plan[p].names : <<"refused", x.card>> \in odd'
           /\ Record({x.card : x \in {y \in plan[p].names :
                         label[y.label].board # card[y.card].board}}, "stale") \subseteq odd'
           /\ odd \subseteq odd'
<1> DEFINE pairs == {<<x.card, x.label>> : x \in plan[p].names}
           refused == plan[p].op = "list" /\ (Meet(plan[p].names) \/ pairs \cap tags # {})
           astray == {x.card : x \in {y \in plan[p].names : label[y.label].board # card[y.card].board}}
<1>0. /\ tags' = IF refused THEN tags ELSE tags \cup pairs
      /\ odd' = odd \cup Record(astray, "stale")
                    \cup (IF refused THEN Record({x.card : x \in plan[p].names}, "refused") ELSE {})
  BY Zenon DEF Tag
<1> HIDE DEF refused, astray
<1>6. odd \subseteq odd' /\ Record(astray, "stale") \subseteq odd'  BY <1>0
<1>7. \/ tags' = tags \cup pairs
      \/ tags' = tags /\ \A x \in plan[p].names : <<"refused", x.card>> \in odd'
  BY <1>0 DEF Record
<1>1. At(p, "tag") /\ Busy(p) /\ plan[p] \in Plan /\ Done(p)  BY AtBusy DEF Tag
<1>2. plan[p].names \subseteq WantedSet  BY <1>1, NamesIn
<1>3. \A x \in plan[p].names : x.label \in Labels /\ label[x.label].name = x.name
  BY <1>1 DEF PlansOK, Labelled
<1>4. tags' \subseteq Card \X Label
  <2>1. tags \subseteq Card \X Label  BY DEF TypeOK, RowsTypeOK
  <2>2. \A x \in plan[p].names : x.card \in Card /\ x.label \in Label  BY <1>2, <1>3, Sets DEF WantedSet
  <2> QED  BY <2>1, <2>2, <1>7
<1>5. UNCHANGED <<list, card, task, label, people>>  BY DEF Tag
<1>8. Ended(p) /\ TypeOK'  BY <1>1, <1>4, <1>5, DoneEnded DEF TypeOK, RowsTypeOK
<1> QED  BY <1>2, <1>3, <1>6, <1>7, <1>8 DEF astray

\* All cards of a list go to another, in one statement.
CardsSwept(p) ==
    LET S == CardsIn(plan[p].from) IN
    /\ \A c \in Card \ S : card'[c] = card[c]
    /\ \A c \in S : /\ card'[c].list = plan[p].to /\ card'[c].board = card[c].board
                    /\ card'[c].closed = card[c].closed /\ ~card'[c].placed
    /\ odd' = odd \cup (IF Stale(p, {}, {plan[p].from, plan[p].to}) THEN Record(S, "stale") ELSE {})
    /\ Ended(p) \/ Went(p, "drop", plan[p].cards, plan[p].names)

LEMMA SweepCardsEffect ==
    ASSUME TypeOK, PlansOK, NEW p \in Proc, SweepCards(p)
    PROVE  /\ Busy(p) /\ plan[p].op \in {"archive", "trash"}
           /\ CardsSwept(p) /\ TypeOK' /\ UNCHANGED <<list, task, label, tags, people>>
<1> DEFINE S == CardsIn(plan[p].from)
           prev(c) == IF plan[p].op = "archive" THEN plan[p].from ELSE card[c].prev
           swept(c) == Swept(card[c], plan[p].to, prev(c))
<1>1. At(p, "sweep") /\ Busy(p) /\ plan[p] \in Plan /\ plan[p].op \in {"archive", "trash"}
  BY AtBusy, StageOps DEF SweepCards
<1>2. plan[p].to \in List /\ plan[p].from \in List  BY <1>1, PlanFields
<1>3. card' = [c \in Card |-> IF c \in S THEN swept(c) ELSE card[c]]  BY Zenon DEF SweepCards
<1>4. UNCHANGED <<list, task, label, tags, people>>  BY DEF SweepCards
<1>5. odd' = odd \cup (IF Stale(p, {}, {plan[p].from, plan[p].to}) THEN Record(S, "stale") ELSE {})
  BY Zenon DEF SweepCards
<1>6. card \in [Card -> CardRow]  BY DEF TypeOK, RowsTypeOK
<1>7. ASSUME NEW c \in Card
      PROVE  /\ swept(c) \in CardRow /\ swept(c).list = plan[p].to /\ swept(c).board = card[c].board
             /\ swept(c).closed = card[c].closed /\ ~swept(c).placed
  <2>1. card[c] \in CardRow  BY <1>6
  <2>2. prev(c) \in List \cup {None}  BY <1>2, <2>1 DEF CardRow
  <2> HIDE DEF prev
  <2> QED  BY <1>2, <2>1, <2>2 DEF CardRow, Swept
<1>8. S \subseteq Card  BY Sets DEF CardsIn
<1> HIDE DEF swept, S
<1>9. card' \in [Card -> CardRow]  BY <1>3, <1>6, <1>7
<1>10. \A c \in Card \ S : card'[c] = card[c]  BY <1>3
<1>11. \A c \in S : card'[c] = swept(c)  BY <1>3, <1>8
<1>12. (Ended(p) \/ Went(p, "drop", plan[p].cards, plan[p].names)) /\ plan' \in [Proc -> Plan \cup {Idle}]
  BY <1>1, DoneEnded, GotoWent, GotoTypes, StagesIn DEF SweepCards
<1>13. CardsSwept(p)  BY <1>5, <1>7, <1>8, <1>10, <1>11, <1>12 DEF CardsSwept, S
<1> QED  BY <1>1, <1>4, <1>9, <1>12, <1>13 DEF TypeOK, RowsTypeOK

LEMMA DropListEffect ==
    ASSUME TypeOK, PlansOK, NEW p \in Proc, DropList(p)
    PROVE  /\ Ended(p) /\ TypeOK' /\ UNCHANGED <<card, task, label, tags, people>>
           /\ \A l \in List \ {plan[p].from} : list'[l] = list[l]
           /\ plan[p].from \in List /\ list'[plan[p].from].type = list[plan[p].from].type
           /\ odd' = odd \cup Record(CardsIn(plan[p].from), "stale")
<1>1. At(p, "drop") /\ Busy(p) /\ plan[p] \in Plan  BY AtBusy DEF DropList
<1>2. plan[p].from \in List  BY <1>1, PlanFields
<1>3. list' = [list EXCEPT ![plan[p].from].board = None]  BY DEF DropList
<1>4. list \in [List -> ListRow]  BY DEF TypeOK, RowsTypeOK
<1>5. list' \in [List -> ListRow] /\ \A l \in List \ {plan[p].from} : list'[l] = list[l]
  BY <1>2, <1>3, <1>4 DEF ListRow
<1>6. list'[plan[p].from].type = list[plan[p].from].type  BY <1>2, <1>3, <1>4 DEF ListRow
<1>7. Ended(p) /\ plan' \in [Proc -> Plan \cup {Idle}]  BY <1>1, DoneEnded DEF DropList
<1>8. UNCHANGED <<card, task, label, tags, people>> /\ odd' = odd \cup Record(CardsIn(plan[p].from), "stale")
  BY DEF DropList
<1> QED  BY <1>2, <1>5, <1>6, <1>7, <1>8 DEF TypeOK, RowsTypeOK

LEMMA InsertCardEffect ==
    ASSUME TypeOK, PlansOK, NEW p \in Proc, InsertCard(p)
    PROVE  LET new == plan[p].copy
               l == plan[p].to
               type == plan[p].list[l].type
           IN  /\ Busy(p) /\ plan[p].op = "create" /\ At(p, "write")
               /\ Ended(p) /\ TypeOK' /\ UNCHANGED <<list, task, label, tags, people>>
               /\ \A c \in Card \ {new} : card'[c] = card[c]
               /\ new \in Card /\ l \in List /\ card'[new].list = l /\ card'[new].board = plan[p].list[l].board
               /\ card'[new].prev = None /\ card'[new].closed = (type = "closed")
               /\ card'[new].placed = (type \in Kanban)
               /\ odd' = odd \cup (IF Stale(p, {}, {l}) THEN Record({new}, "stale") ELSE {})
<1> DEFINE new == plan[p].copy
           l == plan[p].to
           type == plan[p].list[l].type
           row == [list |-> l, board |-> plan[p].list[l].board, prev |-> None,
                   closed |-> type = "closed", placed |-> type \in Kanban]
<1>1. At(p, "write") /\ Busy(p) /\ plan[p] \in Plan /\ plan[p].op = "create"  BY AtBusy DEF InsertCard
<1>2. new \in Card /\ l \in List  BY <1>1, PlanFields
<1>3. plan[p].list[l].board \in Board \cup {None}  BY <1>1, <1>2, SnapFields
<1>4. /\ card' = [card EXCEPT ![new] = row]
      /\ odd' = odd \cup (IF Stale(p, {}, {l}) THEN Record({new}, "stale") ELSE {})
      /\ UNCHANGED <<list, task, label, tags, people>>
  BY Zenon DEF InsertCard
<1>5. row \in CardRow  BY <1>2, <1>3 DEF CardRow
<1>6. card \in [Card -> CardRow]  BY DEF TypeOK, RowsTypeOK
<1>7. card' \in [Card -> CardRow] /\ card'[new] = row /\ \A c \in Card \ {new} : card'[c] = card[c]
  BY <1>2, <1>4, <1>5, <1>6
<1>8. Ended(p) /\ plan' \in [Proc -> Plan \cup {Idle}]  BY <1>1, DoneEnded DEF InsertCard
<1>9. TypeOK'  BY <1>4, <1>7, <1>8 DEF TypeOK, RowsTypeOK
<1> QED  BY <1>1, <1>2, <1>4, <1>7, <1>8, <1>9

LEMMA ReadCopyLabelsEffect ==
    ASSUME TypeOK, PlansOK, NEW p \in Proc, ReadCopyLabels(p)
    PROVE  /\ \E N : Went(p, "relabel", plan[p].cards, N) /\ \A x \in N : x.label = None
           /\ TypeOK' /\ UNCHANGED <<rows, odd>>
<1> DEFINE N == {Wanted(plan[p].copy, x[2]) : x \in {y \in tags : y[1] \in plan[p].cards}}
           r == Changed(plan[p], plan[p].cards, N, {"relabel"})
<1>1. At(p, "copy labels") /\ Busy(p) /\ plan[p] \in Plan  BY AtBusy DEF ReadCopyLabels
<1>2. plan[p].copy \in Card  BY <1>1, StageOps, PlanFields
<1>3. N \in Names /\ \A x \in N : x.label = None  BY <1>2, TagFields, WantedType DEF Names
<1>4. plan' = [plan EXCEPT ![p] = [plan[p] EXCEPT !.names = N, !.steps = {"relabel"}]]
  BY Zenon DEF ReadCopyLabels
<1>5. UNCHANGED <<rows, odd>>  BY DEF ReadCopyLabels
<1> HIDE DEF N
<1>6. {"relabel"} \in SUBSET Stage /\ plan[p].cards \in SUBSET Card  BY <1>1, StagesIn, PlanFields
<1>7. plan' = [plan EXCEPT ![p] = r]
  <2>1. [plan[p] EXCEPT !.names = N, !.steps = {"relabel"}] = r  BY <1>1, <1>3, <1>6, ChangeNames, Zenon
  <2> QED  BY <1>4, <2>1, Zenon
<1>8. r \in Plan /\ Same(plan[p], r) /\ r.cards = plan[p].cards /\ r.names = N /\ r.steps = {"relabel"}
  <2>1. plan[p] \in Plan /\ N \in Names  BY <1>1, <1>3
  <2> QED  BY <1>6, <2>1, ChangePlan
<1>9. plan \in [Proc -> Plan \cup {Idle}]  BY DEF TypeOK
<1> HIDE DEF r
<1>10. Went(p, "relabel", plan[p].cards, N)  BY <1>1, <1>7, <1>8, <1>9 DEF Went, Others
<1>11. plan' \in [Proc -> Plan \cup {Idle}]  BY <1>7, <1>8, <1>9
<1> QED  BY <1>3, <1>5, <1>10, <1>11 DEF TypeOK, RowsTypeOK, rows

\* The one card of a request.
Original(p) == CHOOSE c \in plan[p].cards : TRUE

LEMMA OriginalIs ==
    ASSUME PlansOK, NEW p \in Proc, Busy(p), plan[p].op \in {"card", "copy", "task"}
    PROVE  /\ Original(p) \in Cards /\ plan[p].cards = {Original(p)}
           /\ plan[p].op # "task" => plan[p].from = plan[p].card[Original(p)].list
<1>1. PICK c \in Cards : /\ plan[p].cards = {c}
                         /\ plan[p].op # "task" => plan[p].from = plan[p].card[c].list
  BY DEF PlansOK, Coherent, OneCard
<1>2. Original(p) \in plan[p].cards  BY <1>1, Zenon DEF Original
<1> QED  BY <1>1, <1>2

CopyWritten(p) ==
    LET row  == plan[p].card[Original(p)]
        l    == plan[p].to
        type == plan[p].list[l].type
        new  == plan[p].copy
    IN  /\ \A c \in Card \ {new} : card'[c] = card[c]
        /\ new \in Card /\ l \in List
        /\ card'[new].list = l /\ card'[new].board = CopyBoard(p) /\ card'[new].prev = row.prev
        /\ card'[new].closed = IF l # plan[p].from THEN Closed(row, type) ELSE row.closed
        /\ card'[new].placed = (type \in Kanban)
        /\ odd' = odd \cup Record({new}, "copy")
             \cup (IF \/ Stale(p, plan[p].cards, {plan[p].from, l})
                      \/ \E c \in plan[p].cards : <<"stale", c>> \in odd
                     THEN Record({new}, "stale") ELSE {})

LEMMA InsertCopyEffect ==
    ASSUME TypeOK, PlansOK, NEW p \in Proc, InsertCopy(p)
    PROVE  /\ Busy(p) /\ plan[p].op = "copy" /\ At(p, "write") /\ CopyWritten(p)
           /\ Went(p, "copy members", plan[p].cards, plan[p].names)
           /\ TypeOK' /\ UNCHANGED <<list, task, label, tags, people>>
<1> DEFINE new == plan[p].copy
           old == plan[p].card[Original(p)]
           l == plan[p].to
           type == plan[p].list[l].type
           row == [list |-> l, board |-> IF plan[p].cross THEN Target(p) ELSE old.board,
                   prev |-> old.prev,
                   closed |-> IF l # plan[p].from THEN Closed(old, type) ELSE old.closed,
                   placed |-> type \in Kanban]
<1>1. At(p, "write") /\ Busy(p) /\ plan[p] \in Plan /\ plan[p].op = "copy"  BY AtBusy DEF InsertCopy
<1>2. new \in Card /\ l \in List  BY <1>1, PlanFields
<1>3. Original(p) \in Card  BY <1>1, OriginalIs, Sets
<1>4. old.board \in Board \cup {None} /\ old.prev \in List \cup {None} /\ old.closed \in BOOLEAN
  BY <1>1, <1>3, SnapFields
<1>5. Target(p) \in Board  BY <1>1, TargetBoard
<1>6. /\ card' = [card EXCEPT ![new] = row]
      /\ odd' = odd \cup Record({new}, "copy")
             \cup (IF \/ Stale(p, plan[p].cards, {plan[p].from, l})
                      \/ \E c \in plan[p].cards : <<"stale", c>> \in odd
                     THEN Record({new}, "stale") ELSE {})
      /\ UNCHANGED <<list, task, label, tags, people>>
  BY Zenon DEF InsertCopy, Original
<1>7. row \in CardRow
  <2>1. (IF l # plan[p].from THEN Closed(old, type) ELSE old.closed) \in BOOLEAN  BY <1>4 DEF Closed
  <2>2. (IF plan[p].cross THEN Target(p) ELSE old.board) \in Board \cup {None}  BY <1>4, <1>5
  <2> QED  BY <1>2, <1>4, <2>1, <2>2 DEF CardRow
<1>8. card \in [Card -> CardRow]  BY DEF TypeOK, RowsTypeOK
<1> DEFINE written == row
<1>9. row.board = CopyBoard(p)  BY DEF CopyBoard, Original
<1> HIDE DEF written
<1>10. card' \in [Card -> CardRow] /\ card'[new] = row /\ \A c \in Card \ {new} : card'[c] = card[c]
  BY <1>2, <1>6, <1>7, <1>8
<1>11. CopyWritten(p)  BY <1>2, <1>6, <1>9, <1>10 DEF CopyWritten
<1>12. Goto(p, "copy members")  BY DEF InsertCopy
<1>13. Went(p, "copy members", plan[p].cards, plan[p].names) /\ plan' \in [Proc -> Plan \cup {Idle}]
  BY <1>1, <1>12, GotoWent, GotoTypes, StagesIn
<1> QED  BY <1>1, <1>6, <1>10, <1>11, <1>13 DEF TypeOK, RowsTypeOK

LEMMA CopyMembersEffect ==
    ASSUME TypeOK, PlansOK, NEW p \in Proc, CopyMembers(p)
    PROVE  /\ Busy(p) /\ plan[p].op = "copy" /\ At(p, "copy members")
           /\ Went(p, "copy tags", plan[p].cards, plan[p].names)
           /\ people \subseteq people'
           /\ \A x \in people' \ people : x[2] = plan[p].copy /\ x[3] \in MembersOf[CopyBoard(p)]
           /\ odd' = odd \cup CopyMoves(p)
           /\ TypeOK' /\ UNCHANGED <<list, card, task, label, tags>>
<1> DEFINE A == {y \in people : y[1] = "membership" /\ y[2] \in plan[p].cards /\ y[3] \in MembersOf[CopyBoard(p)]}
           add == {<<"membership", plan[p].copy, x[3]>> : x \in A}
<1>1. At(p, "copy members") /\ Busy(p) /\ plan[p] \in Plan /\ plan[p].op = "copy"
  BY AtBusy, StageOps DEF CopyMembers
<1>2. people' = people \cup add /\ odd' = odd \cup CopyMoves(p) /\ UNCHANGED <<list, card, task, label, tags>>
  BY Zenon DEF CopyMembers
<1>3. plan[p].copy \in Card  BY <1>1, PlanFields
<1>4. people \subseteq {"subscription", "membership"} \X Card \X User  BY DEF TypeOK, RowsTypeOK
<1>5. \A x \in add : x[2] = plan[p].copy /\ x[3] \in MembersOf[CopyBoard(p)]  OBVIOUS
<1>6. add \subseteq {"subscription", "membership"} \X Card \X User  BY <1>3, <1>4
<1> HIDE DEF add
<1>7. Goto(p, "copy tags")  BY DEF CopyMembers
<1>8. Went(p, "copy tags", plan[p].cards, plan[p].names) /\ plan' \in [Proc -> Plan \cup {Idle}]
  BY <1>1, <1>7, GotoWent, GotoTypes, StagesIn
<1> QED  BY <1>1, <1>2, <1>4, <1>5, <1>6, <1>8 DEF TypeOK, RowsTypeOK

LEMMA CopyTagsEffect ==
    ASSUME TypeOK, PlansOK, RowsOK, NEW p \in Proc, CopyTags(p)
    PROVE  /\ Busy(p) /\ plan[p].op = "copy" /\ At(p, "copy tags")
           /\ Ended(p) \/ Went(p, "copy tasks", plan[p].cards, plan[p].names)
           /\ tags \subseteq tags'
           /\ \A x \in tags' \ tags :
                 /\ x[1] = plan[p].copy /\ x[2] \in Labels
                 /\ label[x[2]].board # CopyBoard(p) => <<"stale", plan[p].copy>> \in odd'
           /\ odd \subseteq odd' /\ CopyMoves(p) \subseteq odd'
           /\ TypeOK' /\ UNCHANGED <<list, card, task, label, people>>
<1> DEFINE new == IF plan[p].cross THEN {x.label : x \in plan[p].names}
                  ELSE {x[2] : x \in {y \in tags : y[1] \in plan[p].cards}}
           add == {<<plan[p].copy, l>> : l \in new}
           refused == (plan[p].cross /\ Meet(plan[p].names)) \/ add \cap tags # {}
<1>1. At(p, "copy tags") /\ Busy(p) /\ plan[p] \in Plan /\ plan[p].op = "copy" /\ Labelled(p)
  BY AtBusy, StageOps DEF CopyTags, PlansOK
<1>2. /\ tags' = IF refused THEN tags ELSE tags \cup add
      /\ odd' = odd \cup CopyMoves(p) \cup
                 (IF \E l \in new : label[l].board # CopyBoard(p)
                    THEN Record({plan[p].copy}, "stale") ELSE {})
      /\ IF refused THEN Done(p) ELSE Goto(p, "copy tasks")
      /\ UNCHANGED <<list, card, task, label, people>>
  BY Zenon DEF CopyTags
<1> HIDE DEF refused
<1>3. plan[p].copy \in Card  BY <1>1, PlanFields
<1>4. new \subseteq Labels
  <2>1. \A x \in plan[p].names : x.label \in Labels  BY <1>1 DEF Labelled, At, Step
  <2>2. \A x \in tags : x[2] \in Labels  BY DEF RowsOK
  <2> QED  BY <2>1, <2>2
<1>5. tags \subseteq Card \X Label  BY DEF TypeOK, RowsTypeOK
<1> HIDE DEF new
<1>6. \A x \in add : x[1] = plan[p].copy /\ x[2] \in new  OBVIOUS
<1>7. add \subseteq Card \X Label  BY <1>3, <1>4, Sets
<1> HIDE DEF add
<1>8. \A l \in new : label[l].board # CopyBoard(p) => <<"stale", plan[p].copy>> \in odd'
  BY <1>2 DEF Record
<1>9. Done(p) \/ Goto(p, "copy tasks")  BY <1>2
<1>10. /\ Ended(p) \/ Went(p, "copy tasks", plan[p].cards, plan[p].names)
       /\ plan' \in [Proc -> Plan \cup {Idle}]
  BY <1>1, <1>9, GotoWent, GotoTypes, StagesIn, DoneEnded
<1>11. TypeOK'  BY <1>2, <1>5, <1>7, <1>10 DEF TypeOK, RowsTypeOK
<1>12. odd \subseteq odd' /\ CopyMoves(p) \subseteq odd' /\ tags \subseteq tags'  BY <1>2
<1>13. \A x \in tags' \ tags : x[1] = plan[p].copy /\ x[2] \in new  BY <1>2, <1>6
<1> QED  BY <1>1, <1>2, <1>4, <1>8, <1>10, <1>11, <1>12, <1>13

LEMMA CopyTasksEffect ==
    ASSUME TypeOK, PlansOK, NEW p \in Proc, CopyTasks(p)
    PROVE  /\ Busy(p) /\ plan[p].op = "copy" /\ At(p, "copy tasks") /\ Ended(p)
           /\ \A s \in Task : task'[s] = task[s] \/
                 /\ s \in SpareTasks /\ task'[s].card = plan[p].copy
                 /\ task'[s].assignee \in MembersOf[CopyBoard(p)] \cup {None}
                 /\ \E t \in Tasks : task'[s].link = task[t].link /\ task'[s].done = task[t].done
           /\ odd' = odd \cup CopyMoves(p)
           /\ TypeOK' /\ UNCHANGED <<list, card, label, tags, people>>
<1> DEFINE old == TasksOf(plan[p].cards)
           ok(u) == IF u \in MembersOf[CopyBoard(p)] THEN u ELSE None
<1>1. At(p, "copy tasks") /\ Busy(p) /\ plan[p] \in Plan /\ plan[p].op = "copy"
  BY AtBusy, StageOps DEF CopyTasks
<1>2. PICK new \in [old -> SpareTasks] :
             /\ \A t, u \in old : new[t] = new[u] => t = u
             /\ task' = [s \in Task |->
                   IF \E t \in old : new[t] = s
                     THEN LET t == CHOOSE u \in old : new[u] = s
                          IN  [task[t] EXCEPT !.card = plan[p].copy, !.assignee = ok(@)]
                     ELSE task[s]]
  BY Zenon DEF CopyTasks
<1>3. UNCHANGED <<list, card, label, tags, people>> /\ odd' = odd \cup CopyMoves(p)  BY DEF CopyTasks
<1>4. plan[p].copy \in Card  BY <1>1, PlanFields
<1>5. task \in [Task -> TaskRow]  BY DEF TypeOK, RowsTypeOK
<1>6. old \subseteq Tasks /\ old \subseteq Task  BY Sets DEF TasksOf
<1>7. ASSUME NEW s \in Task
      PROVE  /\ task'[s] \in TaskRow
             /\ task'[s] = task[s] \/
                 /\ s \in SpareTasks /\ task'[s].card = plan[p].copy
                 /\ task'[s].assignee \in MembersOf[CopyBoard(p)] \cup {None}
                 /\ \E t \in Tasks : task'[s].link = task[t].link /\ task'[s].done = task[t].done
  <2>1. CASE \E t \in old : new[t] = s
    <3> DEFINE t == CHOOSE u \in old : new[u] = s
    <3>1. t \in old /\ new[t] = s  BY <2>1, Zenon
    <3>2. task'[s] = [task[t] EXCEPT !.card = plan[p].copy, !.assignee = ok(task[t].assignee)]
      <4>1. task'[s] = [task[t] EXCEPT !.card = plan[p].copy, !.assignee = ok(@)]  BY <1>2, <2>1, Zenon
      <4> HIDE DEF t
      <4> QED  BY <4>1
    <3> HIDE DEF t, old
    <3>3. task[t] \in TaskRow /\ s \in SpareTasks /\ t \in Tasks  BY <1>2, <1>5, <1>6, <3>1
    <3>4. ok(task[t].assignee) \in User \cup {None} /\ ok(task[t].assignee) \in MembersOf[CopyBoard(p)] \cup {None}
      BY <3>3 DEF TaskRow
    <3> HIDE DEF ok
    <3>5. task'[s] \in TaskRow  BY <1>4, <3>2, <3>3, <3>4 DEF TaskRow
    <3>6. /\ task'[s].card = plan[p].copy /\ task'[s].assignee = ok(task[t].assignee)
          /\ task'[s].link = task[t].link /\ task'[s].done = task[t].done
      BY <3>2, <3>3 DEF TaskRow
    <3> QED  BY <3>3, <3>4, <3>5, <3>6
  <2>2. CASE ~\E t \in old : new[t] = s
    <3>1. task'[s] = task[s]  BY <1>2, <2>2, Zenon
    <3> QED  BY <1>5, <3>1
  <2> QED  BY <2>1, <2>2
<1>8. task' \in [Task -> TaskRow]
  <2>1. task' = [s \in Task |-> task'[s]]  BY <1>2, Zenon
  <2> QED  BY <1>7, <2>1
<1>9. Ended(p) /\ plan' \in [Proc -> Plan \cup {Idle}]  BY <1>1, DoneEnded DEF CopyTasks
<1> QED  BY <1>1, <1>3, <1>7, <1>8, <1>9 DEF TypeOK, RowsTypeOK

LEMMA InsertTaskEffect ==
    ASSUME TypeOK, PlansOK, NEW p \in Proc, InsertTask(p)
    PROVE  LET c == Original(p) IN
           /\ Busy(p) /\ plan[p].op = "task" /\ Ended(p)
           /\ \E t \in SpareTasks :
                 /\ \A s \in Task \ {t} : task'[s] = task[s]
                 /\ task'[t].card = plan[p].to /\ task'[t].link = c /\ task'[t].done = plan[p].done
                 /\ task'[t].assignee = None
           /\ odd' = odd \cup (IF card[c].closed # plan[p].card[c].closed THEN Record({c}, "stale") ELSE {})
           /\ TypeOK' /\ UNCHANGED <<list, card, label, tags, people>>
<1>1. At(p, "write") /\ Busy(p) /\ plan[p] \in Plan /\ plan[p].op = "task"  BY AtBusy DEF InsertTask
<1>2. PICK t \in SpareTasks, c \in plan[p].cards :
          /\ task' = [task EXCEPT ![t] =
                [card |-> plan[p].to, link |-> c, done |-> plan[p].done, assignee |-> None]]
          /\ odd' = odd \cup (IF card[c].closed # plan[p].card[c].closed
                                THEN Record({c}, "stale") ELSE {})
  BY Zenon DEF InsertTask
<1>3. c = Original(p) /\ c \in Card  BY <1>1, <1>2, OriginalIs, Sets
<1>4. plan[p].to \in Card /\ plan[p].done \in BOOLEAN  BY <1>1, PlanFields
<1>5. task \in [Task -> TaskRow] /\ t \in Task  BY DEF TypeOK, RowsTypeOK, SpareTasks
<1> DEFINE row == [card |-> plan[p].to, link |-> c, done |-> plan[p].done, assignee |-> None]
<1>6. row \in TaskRow  BY <1>3, <1>4 DEF TaskRow
<1>7. task' \in [Task -> TaskRow] /\ task'[t] = row /\ \A s \in Task \ {t} : task'[s] = task[s]
  BY <1>2, <1>5, <1>6
<1>8. Ended(p) /\ plan' \in [Proc -> Plan \cup {Idle}]  BY <1>1, DoneEnded DEF InsertTask
<1>9. UNCHANGED <<list, card, label, tags, people>>  BY DEF InsertTask
<1> QED  BY <1>1, <1>2, <1>3, <1>7, <1>8, <1>9 DEF TypeOK, RowsTypeOK

-----------------------------------------------------------------------------
(* Requests and rows keep to their shape *)

\* Cards come to be, but only the one a request is to insert, and rows of
\* labels stay as they are.
KeptRows(p) ==
    /\ Cards \subseteq Cards'
    /\ \A c \in Cards' \ Cards : Busy(p) /\ plan[p].op \in {"create", "copy"} /\ plan[p].copy = c
    /\ \A l \in Labels : l \in Labels' /\ label'[l] = label[l]

LEMMA SameCards ==
    ASSUME NEW p \in Proc, card' = card, label' = label
    PROVE  Cards' = Cards /\ Labels' = Labels /\ KeptRows(p)
BY DEF KeptRows, Cards, Labels

LEMMA OthersOK ==
    ASSUME TypeOK, PlansOK, NEW p \in Proc, KeptRows(p), Others(p), NEW q \in Proc \ {p}, Busy(q)'
    PROVE  /\ Busy(q)
           /\ \E s \in Stage : plan'[q].steps = {s} /\ InStep(plan'[q], s)
           /\ Coherent(plan[q])' /\ Labelled(q)'
<1>1. plan'[q] = plan[q] /\ Busy(q)  BY DEF Others, Busy
<1>2. /\ \E s \in Stage : plan[q].steps = {s} /\ InStep(plan[q], s)
      /\ Coherent(plan[q]) /\ Labelled(q)
  BY <1>1 DEF PlansOK
<1>3. plan[q].op \in {"create", "copy"} => (plan[q].copy \in Cards' <=> plan[q].copy \in Cards)
  <2>1. plan[q].op \in {"create", "copy"} /\ Busy(p) /\ plan[p].op \in {"create", "copy"} => plan[p].copy # plan[q].copy
    BY <1>1 DEF PlansOK
  <2> QED  BY <2>1 DEF KeptRows
<1>4. OneCard(plan[q]) => OneCard(plan[q])'  BY <1>1 DEF OneCard, KeptRows
<1>5. Coherent(plan[q])'  BY <1>1, <1>2, <1>3, <1>4 DEF Coherent, KeptRows
<1>6. \A x \in plan[q].names :
          x.label # None => x.label \in Labels' /\ label'[x.label].name = x.name
  BY <1>2 DEF Labelled, KeptRows
<1>7. Labelled(q)'  BY <1>1, <1>2, <1>6 DEF Labelled, Carrying, Busy, At, Step
<1> QED  BY <1>1, <1>2, <1>5, <1>7

LEMMA OneGoes ==
    ASSUME TypeOK, PlansOK, NEW p \in Proc, KeptRows(p), Others(p),
           Busy(p)' => /\ \E s \in Stage : plan'[p].steps = {s} /\ InStep(plan'[p], s)
                       /\ Coherent(plan[p])' /\ Labelled(p)'
                       /\ plan'[p].op \in {"create", "copy"} =>
                            \A q \in Proc \ {p} : Busy(q) /\ plan[q].op \in {"create", "copy"} => plan[q].copy # plan'[p].copy
    PROVE  PlansOK'
<1>1. ASSUME NEW q \in Proc, Busy(q)'
      PROVE  /\ \E s \in Stage : plan'[q].steps = {s} /\ InStep(plan'[q], s)
             /\ Coherent(plan[q])' /\ Labelled(q)'
  BY <1>1, OthersOK
<1>2. ASSUME NEW a \in Proc, NEW b \in Proc, a # b, Busy(a)', Busy(b)',
             plan'[a].op \in {"create", "copy"}, plan'[b].op \in {"create", "copy"}
      PROVE  plan'[a].copy # plan'[b].copy
  <2>1. CASE a # p /\ b # p
    <3>1. Busy(a) /\ Busy(b) /\ plan'[a] = plan[a] /\ plan'[b] = plan[b]  BY <1>2, <2>1 DEF Others, Busy
    <3> QED  BY <1>2, <3>1 DEF PlansOK
  <2>2. CASE a = p
    <3>1. Busy(b) /\ plan'[b] = plan[b]  BY <1>2, <2>2 DEF Others, Busy
    <3> QED  BY <1>2, <2>2, <3>1
  <2>3. CASE b = p
    <3>1. Busy(a) /\ plan'[a] = plan[a]  BY <1>2, <2>3 DEF Others, Busy
    <3> QED  BY <1>2, <2>3, <3>1
  <2> QED  BY <2>1, <2>2, <2>3
<1> QED  BY <1>1, <1>2, Zenon DEF PlansOK

LEMMA EndedOK ==
    ASSUME TypeOK, PlansOK, NEW p \in Proc, KeptRows(p), Ended(p)
    PROVE  PlansOK'
BY OneGoes DEF Ended, Busy

LEMMA WentOK ==
    ASSUME TypeOK, PlansOK, NEW p \in Proc, KeptRows(p), NEW s \in Stage, NEW C, NEW N,
           Went(p, s, C, N), InStep(plan[p], s), C \subseteq Cards,
           plan[p].op # "list" => C = plan[p].cards,
           plan[p].op \in {"create", "copy"} =>
              (plan[p].copy \in Cards' <=> s \in {"copy members", "copy tags", "copy tasks"}),
           Labelled(p)'
    PROVE  PlansOK'
<1>1. Busy(p) /\ Same(plan[p], plan'[p]) /\ plan'[p].steps = {s} /\ plan'[p].cards = C /\ Others(p)
  BY DEF Went
<1>2. Coherent(plan[p]) /\ plan[p] \in Plan  BY <1>1 DEF PlansOK, TypeOK, Busy
<1>3. OneCard(plan[p]) /\ C = plan[p].cards => OneCard(plan[p])'  BY <1>1 DEF OneCard, KeptRows, Same
<1>4. C \subseteq Cards'  BY DEF KeptRows
<1>5. plan[p].op = "task" => plan[p].to \in Cards'  BY <1>2 DEF Coherent, KeptRows
<1>6. Coherent(plan[p])'
  <2>1. /\ plan'[p].op = plan[p].op /\ plan'[p].card = plan[p].card /\ plan'[p].list = plan[p].list
        /\ plan'[p].from = plan[p].from /\ plan'[p].to = plan[p].to /\ plan'[p].cross = plan[p].cross
        /\ plan[p].op = "card" => plan'[p].position = plan[p].position
        /\ plan[p].op \in {"create", "copy"} => plan'[p].copy = plan[p].copy
    BY <1>1 DEF Same
  <2>2. plan'[p].op \in {"card", "copy", "task"} => OneCard(plan[p])'  BY <1>2, <1>3, <2>1 DEF Coherent
  <2>3. plan'[p].op \in {"create", "copy"} =>
          (plan'[p].copy \in Cards' <=> plan'[p].steps \cap {"copy members", "copy tags", "copy tasks"} # {})
    BY <1>1, <2>1
  <2> QED  BY <1>1, <1>2, <1>4, <1>5, <2>1, <2>2, <2>3 DEF Coherent
<1>7. InStep(plan'[p], s)  BY <1>1 DEF InStep, Same
<1>8. plan'[p].op \in {"create", "copy"} =>
        \A q \in Proc \ {p} : Busy(q) /\ plan[q].op \in {"create", "copy"} => plan[q].copy # plan'[p].copy
  BY <1>1 DEF PlansOK, Same
<1> QED  BY <1>1, <1>6, <1>7, <1>8, OneGoes

LEMMA RequestOK ==
    ASSUME TypeOK, PlansOK, RowsOK, NEW p \in Proc, Request(p)
    PROVE  TypeOK' /\ PlansOK' /\ RowsOK'
<1>1. PICK r : Fresh(r) /\ Began(p, r) /\ plan' \in [Proc -> Plan \cup {Idle}] /\ UNCHANGED <<rows, odd>>
  BY RequestFresh
<1>2. UNCHANGED <<list, card, task, label, tags, people>>  BY <1>1 DEF rows
<1>3. TypeOK' /\ RowsOK'  BY <1>1, <1>2 DEF TypeOK, RowsTypeOK, RowsOK, Cards, Tasks, Labels
<1>4. KeptRows(p)  BY <1>2, SameCards
<1>5. Coherent(plan[p])'
  <2>1. plan'[p] = r /\ Coherent(r)  BY <1>1 DEF Began, Fresh
  <2>2. Cards' = Cards  BY <1>2 DEF Cards
  <2>3. OneCard(r) => OneCard(plan[p])'  BY <2>1, <2>2 DEF OneCard
  <2> QED  BY <2>1, <2>2, <2>3 DEF Coherent
<1>6. Labelled(p)'  BY <1>1 DEF Labelled, Began, Fresh
<1>7. r.op \in {"create", "copy"} =>
        \A q \in Proc \ {p} : Busy(q) /\ plan[q].op \in {"create", "copy"} => plan[q].copy # r.copy
  BY <1>1 DEF Fresh, Spare, Busy
<1> QED  BY <1>1, <1>3, <1>4, <1>5, <1>6, <1>7, OneGoes DEF Began, Fresh

\* A request that goes on with the cards and names it has.
LEMMA GoesOn ==
    ASSUME TypeOK, PlansOK, NEW p \in Proc, NEW a \in Stage \ {"labels"}, At(p, a), KeptRows(p),
           NEW s \in Stage \ {"labels", "tag"}, Went(p, s, plan[p].cards, plan[p].names), InStep(plan[p], s),
           plan[p].op = "copy" =>
              /\ a \in {"write", "copy members", "copy tags"}
              /\ plan[p].copy \in Cards' <=> s \in {"copy members", "copy tags", "copy tasks"},
           plan[p].op # "create"
    PROVE  PlansOK'
<1>1. Busy(p) /\ plan[p] \in Plan /\ Step(p) = {a}  BY StageOf
<1>2. Labelled(p) /\ Coherent(plan[p])  BY <1>1 DEF PlansOK
<1>3. /\ plan'[p].op = plan[p].op /\ plan'[p].cross = plan[p].cross
      /\ plan'[p].names = plan[p].names /\ plan'[p].cards = plan[p].cards
      /\ plan'[p].steps = {s}
  BY DEF Went, Same
<1>4. Carrying(p)' => Carrying(p)  BY <1>1, <1>3 DEF Carrying, At, Step
<1>5. \A x \in plan[p].names :
          x.label # None => x.label \in Labels' /\ label'[x.label].name = x.name
  BY <1>2 DEF Labelled, KeptRows
<1>6. plan[p].op = "copy" => \A x \in plan[p].names : x.label # None  BY <1>1, <1>2 DEF Labelled
<1>7. Labelled(p)'  BY <1>2, <1>3, <1>4, <1>5, <1>6 DEF Labelled, At, Step
<1>8. plan[p].cards \subseteq Cards  BY <1>2 DEF Coherent
<1> QED  BY <1>7, <1>8, WentOK

LEMMA ReadLabelsOK ==
    ASSUME TypeOK, PlansOK, RowsOK, NEW p \in Proc, ReadLabels(p)
    PROVE  TypeOK' /\ PlansOK' /\ RowsOK'
<1>1. /\ Went(p, "subscriptions", CardsRead(p), NamesRead(p)) /\ TypeOK'
      /\ UNCHANGED <<list, card, task, label, tags, people>> /\ At(p, "labels")
  BY ReadLabelsEffect DEF ReadLabels, rows
<1>2. Busy(p) /\ plan[p] \in Plan /\ plan[p].op \in {"card", "list"} /\ plan[p].cross /\ Coherent(plan[p])
  BY <1>1, StageOps, AtBusy DEF PlansOK
<1>3. RowsOK'  BY <1>1 DEF RowsOK, Cards, Tasks, Labels
<1>4. KeptRows(p)  BY <1>1, SameCards
<1>5. CardsRead(p) \subseteq Cards  BY <1>2 DEF CardsRead, CardsIn, Coherent
<1>6. plan[p].op # "list" => CardsRead(p) = plan[p].cards  BY DEF CardsRead
<1>7. InStep(plan[p], "subscriptions")  BY <1>2 DEF InStep, MoveStages
<1>8. \A x \in NamesRead(p) : x.card \in CardsRead(p) /\ x.label = None
  BY TagFields, WantedType DEF NamesRead
<1>9. Labelled(p)'
  <2>1. /\ plan'[p].op = plan[p].op /\ plan'[p].names = NamesRead(p) /\ plan'[p].cards = CardsRead(p)
        /\ plan'[p].steps = {"subscriptions"}
    BY <1>1 DEF Went, Same
  <2> QED  BY <1>2, <1>8, <2>1 DEF Labelled, At, Step
<1> QED  BY <1>1, <1>2, <1>3, <1>4, <1>5, <1>6, <1>7, <1>9, StagesIn, WentOK

LEMMA DropSubscriptionsOK ==
    ASSUME TypeOK, PlansOK, RowsOK, NEW p \in Proc, DropSubscriptions(p)
    PROVE  TypeOK' /\ PlansOK' /\ RowsOK'
<1>1. /\ Went(p, "memberships", plan[p].cards, plan[p].names) /\ TypeOK' /\ people' \subseteq people
      /\ UNCHANGED <<list, card, task, label, tags>> /\ At(p, "subscriptions")
  BY DropSubscriptionsEffect DEF DropSubscriptions
<1>2. plan[p].op \in {"card", "list"} /\ plan[p].cross  BY <1>1, StageOps
<1>3. InStep(plan[p], "memberships")  BY <1>2 DEF InStep, MoveStages
<1>4. RowsOK'  BY <1>1 DEF RowsOK, Cards, Tasks, Labels
<1> QED  BY <1>1, <1>2, <1>3, <1>4, StagesIn, SameCards, GoesOn

LEMMA DropMembershipsOK ==
    ASSUME TypeOK, PlansOK, RowsOK, NEW p \in Proc, DropMemberships(p)
    PROVE  TypeOK' /\ PlansOK' /\ RowsOK'
<1>1. /\ Went(p, "tags", plan[p].cards, plan[p].names) /\ TypeOK' /\ people' \subseteq people
      /\ UNCHANGED <<list, card, task, label, tags>> /\ At(p, "memberships")
  BY DropMembershipsEffect DEF DropMemberships
<1>2. plan[p].op \in {"card", "list"} /\ plan[p].cross  BY <1>1, StageOps
<1>3. InStep(plan[p], "tags")  BY <1>2 DEF InStep, MoveStages
<1>4. RowsOK'  BY <1>1 DEF RowsOK, Cards, Tasks, Labels
<1> QED  BY <1>1, <1>2, <1>3, <1>4, StagesIn, SameCards, GoesOn

LEMMA DropTagsOK ==
    ASSUME TypeOK, PlansOK, RowsOK, NEW p \in Proc, DropTags(p)
    PROVE  TypeOK' /\ PlansOK' /\ RowsOK'
<1>1. /\ Went(p, "assignees", plan[p].cards, plan[p].names) /\ TypeOK' /\ tags' \subseteq tags
      /\ UNCHANGED <<list, card, task, label, people>> /\ At(p, "tags")
  BY DropTagsEffect DEF DropTags
<1>2. plan[p].op \in {"card", "list"} /\ plan[p].cross  BY <1>1, StageOps
<1>3. InStep(plan[p], "assignees")  BY <1>2 DEF InStep, MoveStages
<1>4. RowsOK'  BY <1>1 DEF RowsOK, Cards, Tasks, Labels
<1> QED  BY <1>1, <1>2, <1>3, <1>4, StagesIn, SameCards, GoesOn

LEMMA SameTasks ==
    ASSUME \A t \in Task : task'[t].card = task[t].card /\ task'[t].link = task[t].link
    PROVE  Tasks' = Tasks
BY DEF Tasks

LEMMA DropAssigneesOK ==
    ASSUME TypeOK, PlansOK, RowsOK, NEW p \in Proc, DropAssignees(p)
    PROVE  TypeOK' /\ PlansOK' /\ RowsOK'
<1>1. /\ Went(p, "write", plan[p].cards, plan[p].names) /\ TypeOK'
      /\ \A t \in Task : task'[t].card = task[t].card /\ task'[t].link = task[t].link
      /\ UNCHANGED <<list, card, label, tags, people>> /\ At(p, "assignees")
  BY DropAssigneesEffect DEF DropAssignees
<1>2. plan[p].op \in {"card", "list"} /\ plan[p].cross  BY <1>1, StageOps
<1>3. InStep(plan[p], "write")  BY <1>2 DEF InStep, MoveStages
<1>4. Tasks' = Tasks  BY <1>1, SameTasks
<1>5. RowsOK'  BY <1>1, <1>4, Sets DEF RowsOK, Cards, Labels
<1> QED  BY <1>1, <1>2, <1>3, <1>5, StagesIn, SameCards, GoesOn

LEMMA CardsStay ==
    ASSUME TypeOK, NEW p \in Proc, label' = label,
           \A c \in Card : card'[c].list = card[c].list \/ (c \in Cards /\ card'[c].list \in List)
    PROVE  Cards' = Cards /\ Labels' = Labels /\ KeptRows(p)
BY Nowhere DEF Cards, Labels, KeptRows

LEMMA WriteCardOK ==
    ASSUME TypeOK, PlansOK, RowsOK, NEW p \in Proc, WriteCard(p)
    PROVE  TypeOK' /\ PlansOK' /\ RowsOK'
<1>1. /\ Busy(p) /\ At(p, "write") /\ plan[p].op = "card" /\ plan[p].cross \in BOOLEAN
      /\ UNCHANGED <<list, label, tags, people>> /\ TypeOK'
  BY WriteCardEffect
<1>2. PICK c \in Cards : plan[p].cards = {c} /\ CardWritten(p, c)  BY WriteCardEffect
<1>3. plan[p] \in Plan /\ plan[p].to \in List /\ c \in Card  BY <1>1, <1>2, AtBusy, PlanFields, Sets
<1>4. Cards' = Cards /\ Labels' = Labels /\ KeptRows(p)
  <2>1. \A k \in Card : card'[k].list = card[k].list \/ (k \in Cards /\ card'[k].list \in List)
    BY <1>2, <1>3 DEF CardWritten
  <2> QED  BY <1>1, <2>1, CardsStay
<1>5. ClosedBy(p, c) \in BOOLEAN  BY <1>3, SnapFields DEF ClosedBy, Closed
<1>6. \A t \in Task : task'[t].card = task[t].card /\ task'[t].link = task[t].link
  BY <1>2, <1>5, FollowFields DEF CardWritten
<1>7. Tasks' = Tasks  BY <1>6, SameTasks
<1>8. RowsOK'  BY <1>1, <1>4, <1>6, <1>7, Sets DEF RowsOK
<1>9. CASE plan[p].cross
  <2>1. Went(p, "relabel", plan[p].cards, plan[p].names)  BY <1>2, <1>9 DEF CardWritten
  <2>2. InStep(plan[p], "relabel")  BY <1>1, <1>9 DEF InStep, MoveStages
  <2> QED  BY <1>1, <1>4, <1>8, <2>1, <2>2, StagesIn, GoesOn
<1>10. CASE ~plan[p].cross
  <2>1. Ended(p)  BY <1>2, <1>10 DEF CardWritten
  <2> QED  BY <1>1, <1>4, <1>8, <2>1, EndedOK
<1> QED  BY <1>1, <1>9, <1>10

LEMMA WriteListOK ==
    ASSUME TypeOK, PlansOK, RowsOK, NEW p \in Proc, WriteList(p)
    PROVE  TypeOK' /\ PlansOK' /\ RowsOK'
<1>1. /\ Busy(p) /\ At(p, "write") /\ plan[p].op = "list" /\ plan[p].cross \in BOOLEAN
      /\ ListWritten(p) \/ ListGone(p)
      /\ UNCHANGED <<label, tags, people>> /\ TypeOK'
  BY WriteListEffect
<1>2. plan[p] \in Plan /\ plan[p].from \in List /\ plan[p].to.type \in Kanban /\ List0[plan[p].from].type \in Kanban
  BY <1>1, AtBusy, PlanFields DEF PlansOK, Coherent, Dest
<1>3. CASE ListWritten(p)
  <2> DEFINE S == CardsIn(plan[p].from)
  <2>1. \A c \in S : c \in Cards /\ card'[c].list = card[c].list  BY <1>3 DEF ListWritten, CardsIn
  <2>2. \A c \in Card \ S : card'[c] = card[c]  BY <1>3 DEF ListWritten
  <2>3. Cards' = Cards /\ Labels' = Labels /\ KeptRows(p)
    <3>1. \A k \in Card : card'[k].list = card[k].list  BY <2>1, <2>2
    <3> QED  BY <1>1, <3>1, CardsStay
  <2>4. \A t \in Task : task'[t].card = task[t].card /\ task'[t].link = task[t].link
    <3> DEFINE closed == plan[p].to.type = "closed"
    <3>1. closed \in BOOLEAN  OBVIOUS
    <3>2. task' = task \/ task' = Follow(S, closed)  BY <1>3, Zenon DEF ListWritten
    <3> HIDE DEF closed, S
    <3> QED  BY <3>1, <3>2, FollowFields
  <2>5. Tasks' = Tasks  BY <2>4, SameTasks
  <2>6. \A l \in List : list'[l].type \in Kanban <=> List0[l].type \in Kanban
    BY <1>2, <1>3 DEF ListWritten, RowsOK
  <2>7. RowsOK'  BY <1>1, <2>3, <2>4, <2>5, <2>6, Sets DEF RowsOK
  <2>8. CASE plan[p].cross
    <3>1. Went(p, "relabel", plan[p].cards, plan[p].names)  BY <1>3, <2>8 DEF ListWritten
    <3>2. InStep(plan[p], "relabel")  BY <1>1, <2>8 DEF InStep, MoveStages
    <3> QED  BY <1>1, <2>3, <2>7, <3>1, <3>2, StagesIn, GoesOn
  <2>9. CASE ~plan[p].cross
    <3>1. Ended(p)  BY <1>3, <2>9 DEF ListWritten
    <3> QED  BY <1>1, <2>3, <2>7, <3>1, EndedOK
  <2> QED  BY <1>1, <2>8, <2>9
<1>4. CASE ListGone(p)
  <2>1. UNCHANGED <<list, card, task>> /\ Ended(p)  BY <1>4 DEF ListGone
  <2>2. RowsOK'  BY <1>1, <2>1 DEF RowsOK, Cards, Tasks, Labels
  <2> QED  BY <1>1, <2>1, <2>2, SameCards, EndedOK
<1> QED  BY <1>1, <1>3, <1>4

\* What is known of the names after a step that changes their labels.
LEMMA RelabelOK ==
    ASSUME TypeOK, PlansOK, NEW p \in Proc, NEW a \in {"relabel", "label"}, At(p, a), card' = card,
           \A l \in Labels : l \in Labels' /\ label'[l] = label[l],
           NEW s \in {"label", "write", "tag"}, NEW N, Went(p, s, plan[p].cards, N),
           SameNames(plan[p].names, N), InStep(plan[p], s),
           \A x \in N : x.label # None => FoundAmong(x)',
           s # "label" => \A x \in N : x.label # None
    PROVE  PlansOK'
<1>1. Busy(p) /\ plan[p] \in Plan /\ Step(p) = {a}  BY StageOf
<1>2. Labelled(p) /\ Coherent(plan[p])  BY <1>1 DEF PlansOK
<1>3. /\ plan'[p].op = plan[p].op /\ plan'[p].cross = plan[p].cross
      /\ plan'[p].names = N /\ plan'[p].cards = plan[p].cards
      /\ plan'[p].steps = {s}
  BY DEF Went, Same
<1>4. Carrying(p)' => Carrying(p)  BY <1>1, <1>3 DEF Carrying, At, Step
<1>5. Carrying(p) => \A y \in N : y.card \in plan[p].cards  BY <1>2 DEF Labelled, SameNames
<1>6. \A x \in N : x.label # None => x.label \in Labels' /\ label'[x.label].name = x.name
  BY DEF FoundAmong
<1>7. Labelled(p)'  BY <1>3, <1>4, <1>5, <1>6 DEF Labelled, At, Step
<1>8. Cards' = Cards /\ KeptRows(p)  BY DEF KeptRows, Cards
<1>9. plan[p].cards \subseteq Cards  BY <1>2 DEF Coherent
<1>10. plan[p].op \in {"create", "copy"} => plan[p].copy \notin Cards  BY <1>1, <1>2 DEF Coherent, Step
<1> QED  BY <1>7, <1>8, <1>9, <1>10, StagesIn, WentOK

LEMMA ReadTargetLabelsOK ==
    ASSUME TypeOK, PlansOK, RowsOK, NEW p \in Proc, ReadTargetLabels(p)
    PROVE  TypeOK' /\ PlansOK' /\ RowsOK'
<1>1. PICK N : /\ Went(p, "label", plan[p].cards, N) /\ SameNames(plan[p].names, N)
               /\ \A x \in N : x.label # None => FoundAmong(x)
  BY ReadTargetLabelsEffect
<1>2. TypeOK' /\ UNCHANGED <<list, card, task, label, tags, people>> /\ At(p, "relabel")
  BY ReadTargetLabelsEffect DEF rows, ReadTargetLabels
<1>3. RowsOK'  BY <1>2 DEF RowsOK, Cards, Tasks, Labels
<1>4. InStep(plan[p], "label")  BY <1>2, StageOps DEF InStep, MoveStages, CopyStages
<1>5. Labels' = Labels  BY <1>2 DEF Labels
<1>6. \A x \in N : x.label # None => FoundAmong(x)'  BY <1>1, <1>2, <1>5 DEF FoundAmong
<1> QED  BY <1>1, <1>2, <1>3, <1>4, <1>5, <1>6, RelabelOK

LEMMA CreateLabelsOK ==
    ASSUME TypeOK, PlansOK, RowsOK, NEW p \in Proc, CreateLabels(p)
    PROVE  TypeOK' /\ PlansOK' /\ RowsOK'
<1> DEFINE s == IF plan[p].op = "copy" THEN "write" ELSE "tag"
<1>1. PICK N : /\ Went(p, s, plan[p].cards, N) /\ SameNames(plan[p].names, N)
               /\ \A x \in N : x.label # None /\ FoundAmong(x)'
  BY CreateLabelsEffect
<1>2. /\ TypeOK' /\ UNCHANGED <<list, card, task, tags, people>> /\ At(p, "label")
      /\ \A l \in Labels : l \in Labels' /\ label'[l] = label[l]
  BY CreateLabelsEffect DEF CreateLabels
<1>3. RowsOK'
  <2>1. Cards' = Cards /\ Tasks' = Tasks  BY <1>2 DEF Cards, Tasks
  <2> QED  BY <1>2, <2>1 DEF RowsOK
<1>4. InStep(plan[p], s)  BY <1>2, StageOps DEF InStep, MoveStages, CopyStages
<1>5. s \in {"label", "write", "tag"}  OBVIOUS
<1> HIDE DEF s
<1> QED  BY <1>1, <1>2, <1>3, <1>4, <1>5, RelabelOK

LEMMA TagOK ==
    ASSUME TypeOK, PlansOK, RowsOK, NEW p \in Proc, Tag(p)
    PROVE  TypeOK' /\ PlansOK' /\ RowsOK'
<1>1. /\ Ended(p) /\ TypeOK' /\ UNCHANGED <<list, card, task, label, people>> /\ At(p, "tag")
      /\ \A x \in plan[p].names : x.label \in Labels
      /\ tags' \subseteq tags \cup {<<x.card, x.label>> : x \in plan[p].names}
  BY TagEffect DEF Tag
<1>2. Busy(p) /\ Carrying(p)  BY <1>1, CarryingAt, StageOps, StageOf
<1>3. \A x \in plan[p].names : x.card \in Cards  BY <1>2 DEF PlansOK, Labelled, Coherent
<1>4. \A x \in tags' : x[1] \in Cards /\ x[2] \in Labels  BY <1>1, <1>3 DEF RowsOK
<1>5. RowsOK'  BY <1>1, <1>4 DEF RowsOK, Cards, Tasks, Labels
<1> QED  BY <1>1, <1>5, SameCards, EndedOK

LEMMA SweepCardsOK ==
    ASSUME TypeOK, PlansOK, RowsOK, NEW p \in Proc, SweepCards(p)
    PROVE  TypeOK' /\ PlansOK' /\ RowsOK'
<1> DEFINE S == CardsIn(plan[p].from)
<1>1. /\ Busy(p) /\ plan[p].op \in {"archive", "trash"} /\ At(p, "sweep")
      /\ CardsSwept(p) /\ TypeOK' /\ UNCHANGED <<list, task, label, tags, people>>
  BY SweepCardsEffect DEF SweepCards
<1>2. plan[p] \in Plan /\ plan[p].to \in List  BY <1>1, AtBusy, PlanFields
<1>3. Cards' = Cards /\ Labels' = Labels /\ KeptRows(p)
  <2>1. \A c \in S : c \in Cards /\ card'[c].list \in List  BY <1>1, <1>2 DEF CardsSwept, CardsIn
  <2>2. \A c \in Card \ S : card'[c] = card[c]  BY <1>1 DEF CardsSwept
  <2>3. \A k \in Card : card'[k].list = card[k].list \/ (k \in Cards /\ card'[k].list \in List)  BY <2>1, <2>2
  <2> QED  BY <1>1, <2>3, CardsStay
<1>4. RowsOK'
  <2>1. Tasks' = Tasks  BY <1>1 DEF Tasks
  <2> QED  BY <1>1, <1>3, <2>1 DEF RowsOK
<1>5. CASE Ended(p)  BY <1>1, <1>3, <1>4, <1>5, EndedOK
<1>6. CASE Went(p, "drop", plan[p].cards, plan[p].names)
  <2>1. InStep(plan[p], "drop")  BY <1>1 DEF InStep
  <2> QED  BY <1>1, <1>3, <1>4, <1>6, <2>1, StagesIn, GoesOn
<1> QED  BY <1>1, <1>5, <1>6 DEF CardsSwept

LEMMA DropListOK ==
    ASSUME TypeOK, PlansOK, RowsOK, NEW p \in Proc, DropList(p)
    PROVE  TypeOK' /\ PlansOK' /\ RowsOK'
<1>1. /\ Ended(p) /\ TypeOK' /\ UNCHANGED <<card, task, label, tags, people>>
      /\ \A l \in List : list'[l].type = list[l].type
  BY DropListEffect
<1>2. RowsOK'  BY <1>1 DEF RowsOK, Cards, Tasks, Labels
<1> QED  BY <1>1, <1>2, SameCards, EndedOK

\* A row is inserted for a card.
LEMMA Inserted ==
    ASSUME TypeOK, PlansOK, RowsOK, NEW p \in Proc, Busy(p), plan[p].op \in {"create", "copy"},
           plan[p].copy \in Card, \A c \in Card \ {plan[p].copy} : card'[c] = card[c],
           card'[plan[p].copy].list \in List,
           UNCHANGED <<list, task, label, tags, people>>
    PROVE  Cards' = Cards \cup {plan[p].copy} /\ KeptRows(p) /\ RowsOK'
<1>1. Cards' = Cards \cup {plan[p].copy}  BY Nowhere DEF Cards
<1>2. Labels' = Labels /\ Tasks' = Tasks  BY DEF Labels, Tasks
<1>3. KeptRows(p)  BY <1>1, <1>2 DEF KeptRows
<1> QED  BY <1>1, <1>2, <1>3 DEF RowsOK

LEMMA InsertCardOK ==
    ASSUME TypeOK, PlansOK, RowsOK, NEW p \in Proc, InsertCard(p)
    PROVE  TypeOK' /\ PlansOK' /\ RowsOK'
<1>1. /\ Busy(p) /\ plan[p].op = "create" /\ Ended(p) /\ TypeOK'
      /\ UNCHANGED <<list, task, label, tags, people>>
      /\ \A c \in Card \ {plan[p].copy} : card'[c] = card[c]
      /\ plan[p].copy \in Card /\ card'[plan[p].copy].list \in List
  BY InsertCardEffect
<1>2. KeptRows(p) /\ RowsOK'  BY <1>1, Inserted
<1> QED  BY <1>1, <1>2, EndedOK

LEMMA ReadCopyLabelsOK ==
    ASSUME TypeOK, PlansOK, RowsOK, NEW p \in Proc, ReadCopyLabels(p)
    PROVE  TypeOK' /\ PlansOK' /\ RowsOK'
<1>1. PICK N : Went(p, "relabel", plan[p].cards, N) /\ \A x \in N : x.label = None
  BY ReadCopyLabelsEffect
<1>2. TypeOK' /\ UNCHANGED <<list, card, task, label, tags, people>> /\ At(p, "copy labels")
  BY ReadCopyLabelsEffect DEF rows, ReadCopyLabels
<1>3. Busy(p) /\ plan[p].op = "copy" /\ Step(p) = {"copy labels"} /\ Coherent(plan[p])
  BY <1>2, StageOf, StageOps DEF PlansOK
<1>4. RowsOK'  BY <1>2 DEF RowsOK, Cards, Tasks, Labels
<1>5. InStep(plan[p], "relabel")  BY <1>3 DEF InStep, CopyStages
<1>6. Cards' = Cards /\ KeptRows(p)  BY <1>2, SameCards
<1>7. Labelled(p)'
  <2>1. plan'[p].op = "copy" /\ plan'[p].names = N /\ plan'[p].steps = {"relabel"}
    BY <1>1, <1>3 DEF Went, Same
  <2> QED  BY <1>1, <2>1 DEF Labelled, Carrying, At, Step
<1>8. plan[p].copy \notin Cards /\ plan[p].cards \subseteq Cards  BY <1>3 DEF Coherent, Step
<1> QED  BY <1>1, <1>2, <1>3, <1>4, <1>5, <1>6, <1>7, <1>8, StagesIn, WentOK

LEMMA InsertCopyOK ==
    ASSUME TypeOK, PlansOK, RowsOK, NEW p \in Proc, InsertCopy(p)
    PROVE  TypeOK' /\ PlansOK' /\ RowsOK'
<1>1. /\ Busy(p) /\ plan[p].op = "copy" /\ At(p, "write") /\ CopyWritten(p)
      /\ Went(p, "copy members", plan[p].cards, plan[p].names)
      /\ TypeOK' /\ UNCHANGED <<list, task, label, tags, people>>
  BY InsertCopyEffect
<1>2. /\ \A c \in Card \ {plan[p].copy} : card'[c] = card[c]
      /\ plan[p].copy \in Card /\ card'[plan[p].copy].list \in List
  BY <1>1 DEF CopyWritten
<1>3. plan[p].copy \in Cards' /\ KeptRows(p) /\ RowsOK'  BY <1>1, <1>2, Inserted
<1>4. InStep(plan[p], "copy members")  BY <1>1 DEF InStep, CopyStages
<1> QED  BY <1>1, <1>3, <1>4, StagesIn, GoesOn

LEMMA CopyPresent ==
    ASSUME TypeOK, PlansOK, NEW p \in Proc, NEW s \in {"copy members", "copy tags", "copy tasks"}, At(p, s)
    PROVE  /\ Busy(p) /\ plan[p] \in Plan /\ plan[p].op = "copy" /\ plan[p].copy \in Cards
           /\ Card0[plan[p].copy].list = None
<1>1. Busy(p) /\ plan[p] \in Plan /\ Step(p) = {s} /\ plan[p].op = "copy" /\ Coherent(plan[p])
  BY StageOf, StageOps DEF PlansOK
<1> QED  BY <1>1 DEF Coherent, Step

LEMMA CopyMembersOK ==
    ASSUME TypeOK, PlansOK, RowsOK, NEW p \in Proc, CopyMembers(p)
    PROVE  TypeOK' /\ PlansOK' /\ RowsOK'
<1>1. /\ plan[p].op = "copy" /\ At(p, "copy members")
      /\ Went(p, "copy tags", plan[p].cards, plan[p].names)
      /\ \A x \in people' \ people : x[2] = plan[p].copy
      /\ TypeOK' /\ UNCHANGED <<list, card, task, label, tags>>
  BY CopyMembersEffect
<1>2. plan[p].copy \in Cards  BY <1>1, CopyPresent
<1>3. Cards' = Cards /\ Labels' = Labels /\ KeptRows(p)  BY <1>1, SameCards
<1>4. RowsOK'
  <2>1. \A x \in people' : x[2] \in Cards  BY <1>1, <1>2 DEF RowsOK
  <2> QED  BY <1>1, <2>1 DEF RowsOK, Cards, Tasks, Labels
<1>5. InStep(plan[p], "copy tags")  BY <1>1 DEF InStep, CopyStages
<1> QED  BY <1>1, <1>2, <1>3, <1>4, <1>5, StagesIn, GoesOn

LEMMA CopyTagsOK ==
    ASSUME TypeOK, PlansOK, RowsOK, NEW p \in Proc, CopyTags(p)
    PROVE  TypeOK' /\ PlansOK' /\ RowsOK'
<1>1. /\ plan[p].op = "copy" /\ At(p, "copy tags")
      /\ Ended(p) \/ Went(p, "copy tasks", plan[p].cards, plan[p].names)
      /\ \A x \in tags' \ tags : x[1] = plan[p].copy /\ x[2] \in Labels
      /\ TypeOK' /\ UNCHANGED <<list, card, task, label, people>>
  BY CopyTagsEffect
<1>2. plan[p].copy \in Cards  BY <1>1, CopyPresent
<1>3. Cards' = Cards /\ Labels' = Labels /\ KeptRows(p)  BY <1>1, SameCards
<1>4. RowsOK'
  <2>1. \A x \in tags' : x[1] \in Cards /\ x[2] \in Labels  BY <1>1, <1>2 DEF RowsOK
  <2> QED  BY <1>1, <2>1 DEF RowsOK, Cards, Tasks, Labels
<1>5. InStep(plan[p], "copy tasks")  BY <1>1 DEF InStep, CopyStages
<1>6. CASE Ended(p)  BY <1>1, <1>3, <1>4, <1>6, EndedOK
<1>7. CASE Went(p, "copy tasks", plan[p].cards, plan[p].names)
  BY <1>1, <1>2, <1>3, <1>4, <1>5, <1>7, StagesIn, GoesOn
<1> QED  BY <1>1, <1>6, <1>7

LEMMA CopyTasksOK ==
    ASSUME TypeOK, PlansOK, RowsOK, NEW p \in Proc, CopyTasks(p)
    PROVE  TypeOK' /\ PlansOK' /\ RowsOK'
<1>1. /\ At(p, "copy tasks") /\ Ended(p)
      /\ \A s \in Task : task'[s] = task[s] \/
            /\ s \in SpareTasks /\ task'[s].card = plan[p].copy
            /\ \E t \in Tasks : task'[s].link = task[t].link
      /\ TypeOK' /\ UNCHANGED <<list, card, label, tags, people>>
  BY CopyTasksEffect
<1>2. plan[p].copy \in Cards  BY <1>1, CopyPresent
<1>3. \A t \in Tasks' : task'[t].card \in Cards /\ task'[t].link \in Cards \cup {None}
  BY <1>1, <1>2 DEF RowsOK, Tasks
<1>4. RowsOK'  BY <1>1, <1>3 DEF RowsOK, Cards, Labels
<1> QED  BY <1>1, <1>4, SameCards, EndedOK

LEMMA InsertTaskOK ==
    ASSUME TypeOK, PlansOK, RowsOK, NEW p \in Proc, InsertTask(p)
    PROVE  TypeOK' /\ PlansOK' /\ RowsOK'
<1>1. PICK t \in SpareTasks :
        /\ \A s \in Task \ {t} : task'[s] = task[s]
        /\ task'[t].card = plan[p].to /\ task'[t].link = Original(p)
  BY InsertTaskEffect
<1>2. /\ Busy(p) /\ plan[p].op = "task" /\ Ended(p) /\ TypeOK'
      /\ UNCHANGED <<list, card, label, tags, people>>
  BY InsertTaskEffect
<1>3. plan[p].to \in Cards /\ Original(p) \in Cards  BY <1>2, OriginalIs DEF PlansOK, Coherent
<1>4. \A s \in Tasks' : task'[s].card \in Cards /\ task'[s].link \in Cards \cup {None}
  BY <1>1, <1>3 DEF RowsOK, Tasks
<1>5. RowsOK'  BY <1>2, <1>4 DEF RowsOK, Cards, Labels
<1> QED  BY <1>2, <1>5, SameCards, EndedOK

Base == TypeOK /\ PlansOK /\ RowsOK

LEMMA BaseInit == Init => Base
<1> SUFFICES ASSUME Init PROVE Base
  OBVIOUS
<1>1. TypeOK  BY RowsAssumption DEF Init, TypeOK, RowsTypeOK
<1>2. PlansOK  BY DEF Init, PlansOK, Busy
<1>3. RowsOK
  <2>1. \A c \in Card : c \in Cards <=> Card0[c].list # None  BY DEF Init, Cards
  <2>2. \A t \in Tasks : task[t].card \in Cards /\ task[t].link \in Cards \cup {None}
    <3> SUFFICES ASSUME NEW t \in Tasks PROVE task[t].card \in Cards /\ task[t].link \in Cards \cup {None}
      OBVIOUS
    <3>1. t \in {k \in Task : Task0[k].card # None} /\ task[t] = Task0[t]  BY DEF Init, Tasks
    <3>2. Card0[task[t].card].list # None /\ (task[t].link # None => Card0[task[t].link].list # None)
      BY <3>1, StartAssumption
    <3>3. task[t].card \in Card /\ task[t].link \in Card \cup {None}
      BY <1>1, <3>1, RowFields DEF Tasks
    <3> QED  BY <2>1, <3>2, <3>3
  <2>3. \A x \in tags : x[1] \in Cards /\ x[2] \in Labels
    <3> SUFFICES ASSUME NEW x \in tags PROVE x[1] \in Cards /\ x[2] \in Labels
      OBVIOUS
    <3>1. Card0[x[1]].list # None /\ Label0[x[2]].board = Card0[x[1]].board  BY StartAssumption DEF Init
    <3>2. x[1] \in Card /\ x[2] \in Label  BY <1>1, TagFields
    <3>3. Card0[x[1]].board = List0[Card0[x[1]].list].board /\ List0[Card0[x[1]].list].board # None
      BY <3>1, <3>2, StartAssumption
    <3> QED  BY <2>1, <3>1, <3>2, <3>3 DEF Init, Labels
  <2>4. \A x \in people : x[2] \in Cards
    <3>1. \A x \in People0 : Card0[x[2]].list # None  BY StartAssumption
    <3>2. \A x \in People0 : x[2] \in Card  BY RowsAssumption
    <3> QED  BY <2>1, <3>1, <3>2 DEF Init
  <2> QED  BY <2>1, <2>2, <2>3, <2>4 DEF Init, RowsOK
<1> QED  BY <1>1, <1>2, <1>3 DEF Base

LEMMA BaseStep ==
    ASSUME Base, NEW p \in Proc, Request(p) \/ Statement(p)
    PROVE  Base'
<1>1. TypeOK /\ PlansOK /\ RowsOK  BY DEF Base
<1>2. CASE Request(p)  BY <1>1, <1>2, RequestOK DEF Base
<1>3. CASE Statement(p)
  BY <1>1, <1>3, ReadLabelsOK, DropSubscriptionsOK, DropMembershipsOK, DropTagsOK, DropAssigneesOK,
     WriteCardOK, WriteListOK, ReadTargetLabelsOK, CreateLabelsOK, TagOK, SweepCardsOK, DropListOK,
     InsertCardOK, ReadCopyLabelsOK, InsertCopyOK, CopyMembersOK, CopyTagsOK, CopyTasksOK, InsertTaskOK,
     Zenon DEF Base, Statement
<1> QED  BY <1>2, <1>3

LEMMA BaseStutter == Base /\ UNCHANGED vars => Base'
<1> SUFFICES ASSUME Base, UNCHANGED vars PROVE Base'
  OBVIOUS
<1>1. UNCHANGED <<list, card, task, label, tags, people, plan, odd>>  BY DEF vars, rows
<1>2. TypeOK'  BY <1>1 DEF Base, TypeOK, RowsTypeOK
<1>3. RowsOK'  BY <1>1 DEF Base, RowsOK, Cards, Tasks, Labels
<1>4. Cards' = Cards /\ Labels' = Labels  BY <1>1 DEF Cards, Labels
<1>5. ASSUME NEW p \in Proc, Busy(p)'
      PROVE  /\ \E s \in Stage : plan'[p].steps = {s} /\ InStep(plan'[p], s)
             /\ Coherent(plan[p])' /\ Labelled(p)'
  <2>1. plan'[p] = plan[p] /\ Busy(p)  BY <1>1, <1>5 DEF Busy
  <2>2. /\ \E s \in Stage : plan[p].steps = {s} /\ InStep(plan[p], s)
        /\ Coherent(plan[p]) /\ Labelled(p)
    BY <2>1 DEF Base, PlansOK
  <2>3. OneCard(plan[p]) => OneCard(plan[p])'  BY <1>4, <2>1 DEF OneCard
  <2>4. Coherent(plan[p])'  BY <1>4, <2>1, <2>2, <2>3 DEF Coherent
  <2>5. Labelled(p)'  BY <1>1, <1>4, <2>1, <2>2 DEF Labelled, Carrying, Busy, At, Step
  <2> QED  BY <2>1, <2>2, <2>4, <2>5
<1>6. \A p, q \in Proc : p # q /\ Busy(p)' /\ Busy(q)'
          /\ plan'[p].op \in {"create", "copy"} /\ plan'[q].op \in {"create", "copy"} => plan'[p].copy # plan'[q].copy
  BY <1>1 DEF Base, PlansOK, Busy
<1>7. PlansOK'  BY <1>5, <1>6, Zenon DEF PlansOK
<1> QED  BY <1>2, <1>3, <1>7 DEF Base

\* The columns of tables and requests keep to their types, the requests to what
\* they have loaded, and rows refer to rows that are there, in every state, for
\* any rows and any requests (controllers and helpers of cards, lists, tasks).
THEOREM TypeCorrect == Spec => []Base
<1>1. Base /\ [Next]_vars => Base'
  BY BaseStep, BaseStutter, Zenon DEF Next
<1> QED  BY <1>1, BaseInit, PTL DEF Spec

-----------------------------------------------------------------------------
(* Cards fit their lists *)

LEMMA OddGrows ==
    ASSUME NEW p \in Proc, Request(p) \/ Statement(p), Base
    PROVE  odd \subseteq odd'
<1>1. CASE Request(p)  BY <1>1, RequestFresh DEF Base
<1>2. CASE ReadLabels(p) \/ DropSubscriptions(p) \/ DropMemberships(p) \/ DropTags(p) \/ DropAssignees(p)
  BY <1>2 DEF ReadLabels, DropSubscriptions, DropMemberships, DropTags, DropAssignees
<1>3. CASE WriteCard(p)  BY <1>3, WriteCardEffect DEF CardWritten, Base
<1>4. CASE WriteList(p)  BY <1>4, WriteListEffect DEF ListWritten, ListGone, Base
<1>5. CASE ReadTargetLabels(p) \/ CreateLabels(p) \/ Tag(p)
  BY <1>5 DEF ReadTargetLabels, CreateLabels, Tag
<1>6. CASE SweepCards(p) \/ DropList(p) \/ InsertCard(p) \/ ReadCopyLabels(p) \/ InsertCopy(p)
  BY <1>6 DEF SweepCards, DropList, InsertCard, ReadCopyLabels, InsertCopy
<1>7. CASE CopyMembers(p) \/ CopyTags(p) \/ CopyTasks(p) \/ InsertTask(p)
  BY <1>7 DEF CopyMembers, CopyTags, CopyTasks, InsertTask
<1> QED  BY <1>1, <1>2, <1>3, <1>4, <1>5, <1>6, <1>7 DEF Statement

LEMMA FitsKept ==
    ASSUME NEW c \in Card, Fits(c), odd \subseteq odd', card'[c] = card[c],
           c \in Cards => list'[card[c].list] = list[card[c].list]
    PROVE  Fits(c)'
<1> SUFFICES ASSUME Sound(c, {"stale"})' PROVE FitsIn(c, card[c].list)'
  BY DEF Fits
<1>1. c \in Cards  BY DEF Sound, Cards
<1>2. /\ Sound(c, {"stale"})
      /\ Sound(c, {"null"})' => Sound(c, {"null"})
      /\ Sound(c, {"copy"})' => Sound(c, {"copy"})
  BY <1>1 DEF Sound
<1>3. list'[card[c].list] = list[card[c].list]  BY <1>1
<1>4. FitsIn(c, card[c].list)  BY <1>2 DEF Fits
<1> QED  BY <1>2, <1>3, <1>4 DEF FitsIn, StateOfList, Finite, Lists

LEMMA AllFitKept ==
    ASSUME AllFit, odd \subseteq odd', card' = card, list' = list
    PROVE  AllFit'
BY FitsKept DEF AllFit

LEMMA AllFitInit == Init => AllFit
<1> SUFFICES ASSUME Init, NEW c \in Card, Sound(c, {"stale"}) PROVE FitsIn(c, card[c].list)
  BY DEF AllFit, Fits
<1>1. card[c] = Card0[c] /\ list = List0 /\ Card0[c].list # None  BY DEF Init, Sound, Cards
<1>2. Card0[c].list \in List /\ Card0[c].closed \in BOOLEAN  BY <1>1, RowsAssumption DEF CardRow
<1>3. LET row == Card0[c]
          l == List0[row.list]
      IN  /\ l.board # None /\ row.board = l.board
          /\ l.type \in Kanban => row.closed = (l.type = "closed") /\ row.prev = None
          /\ row.placed <=> l.type \in Kanban
  BY <1>1, StartAssumption
<1> QED  BY <1>1, <1>2, <1>3 DEF FitsIn, StateOfList, Finite, Lists, Kanban

LEMMA NotStale ==
    ASSUME NEW p \in Proc, NEW S, NEW L, ~Stale(p, S, L)
    PROVE  /\ \A c \in S : card[c] = plan[p].card[c]
           /\ \A l \in L : list[l] = plan[p].list[l]
BY DEF Stale

LEMMA Recorded ==
    ASSUME NEW c, NEW S, NEW r, c \in S
    PROVE  <<r, c>> \in Record(S, r)
BY DEF Record

LEMMA RecordedOne ==
    ASSUME NEW c, NEW r
    PROVE  <<r, c>> \in Record({c}, r)
BY DEF Record

\* Written from rows that are what they were, a card fits the list it goes to
\* as it fitted the one it comes from.
LEMMA WrittenFits ==
    ASSUME Base, NEW p \in Proc, Busy(p), plan[p].op = "card", NEW c \in Cards, plan[p].cards = {c},
           CardWritten(p, c), list' = list, Fits(c)
    PROVE  Fits(c)'
<1> DEFINE l == plan[p].to
           from == plan[p].from
<1> SUFFICES ASSUME Sound(c, {"stale"})' PROVE FitsIn(c, card[c].list)'
  BY DEF Fits
<1>1. plan[p] \in Plan /\ Coherent(plan[p])  BY DEF Base, TypeOK, PlansOK, Busy
<1>2. l \in List /\ from \in List /\ c \in Card /\ plan[p].position \in {"absent", "number", "null"}
      /\ plan[p].cross \in BOOLEAN
  BY <1>1, PlanFields, Sets
<1>3. <<"stale", c>> \notin odd'  BY DEF Sound
<1>4. ~Stale(p, {c}, {from, l})
  <2> SUFFICES ASSUME Stale(p, {c}, {from, l}) PROVE FALSE
    OBVIOUS
  <2>1. Record({c}, "stale") \subseteq odd'  BY DEF CardWritten
  <2> QED  BY <1>3, <2>1, Recorded
<1>5. card[c] = plan[p].card[c] /\ list[from] = plan[p].list[from] /\ list[l] = plan[p].list[l]
  BY <1>4, NotStale
<1>6. odd \subseteq odd'  BY DEF CardWritten
<1>7. card[c].list = from  BY <1>1, <1>5, <1>2 DEF Coherent, OneCard
<1>8. FitsIn(c, from)  BY <1>3, <1>6, <1>7 DEF Fits, Sound
<1>9. Sound(c, {"copy"})' => Sound(c, {"copy"})  BY <1>6 DEF Sound
<1>10. Sound(c, {"null"})' => Sound(c, {"null"}) /\ plan[p].position # "null"
  <2> SUFFICES ASSUME Sound(c, {"null"})' PROVE Sound(c, {"null"}) /\ plan[p].position # "null"
    OBVIOUS
  <2>1. plan[p].position = "null" => Record({c}, "null") \subseteq odd'  BY DEF CardWritten
  <2>2. <<"null", c>> \notin odd'  BY DEF Sound
  <2> QED  BY <1>6, <2>1, <2>2, Recorded DEF Sound
<1>11. card[c].closed \in BOOLEAN /\ card[c].placed \in BOOLEAN /\ list[l].type \in {"active", "closed", "archive", "trash"}
      /\ list[from].type \in {"active", "closed", "archive", "trash"}
  BY <1>2, RowFields DEF Base
<1>12. card'[c].closed = ClosedBy(p, c)  BY <1>5, <1>11 DEF CardWritten, Switched
<1>13. CASE l # from
  <2>1. card'[c].list = l /\ list'[l] = list[l] /\ list[l].board # None
    BY <1>1, <1>5, <1>13 DEF CardWritten, Coherent
  <2>2. card'[c].board = list[l].board
    BY <1>1, <1>5, <1>8 DEF CardWritten, Coherent, FitsIn, StateOfList, Target
  <2>3. (list[l].type = "active" => ~card'[c].closed) /\ (list[l].type = "closed" => card'[c].closed)
    BY <1>5, <1>12, <1>13 DEF ClosedBy, Closed
  <2>4. Sound(c, {"null"})' => (card'[c].placed <=> list[l].type \in Kanban)
    BY <1>1, <1>2, <1>5, <1>10, <1>13 DEF CardWritten, PlacedBy, Coherent
  <2>5. Sound(c, {"copy"})' /\ list[l].type \in Kanban => card'[c].prev = None
    <3> SUFFICES ASSUME Sound(c, {"copy"})', list[l].type \in Kanban PROVE card'[c].prev = None
      OBVIOUS
    <3>1. card'[c].prev = PrevList(card[c], from, list[from].type, list[l].type, plan[p].cross)
      BY <1>5, <1>13 DEF CardWritten, PrevBy
    <3>2. list[from].type \in Kanban => card[c].prev = None  BY <1>8, <1>9 DEF FitsIn, Finite
    <3>3. list[l].type \notin {"archive", "trash"}  BY DEF Kanban
    <3>4. list[from].type \notin Kanban => list[from].type \in {"archive", "trash"}  BY <1>11 DEF Kanban
    <3> QED  BY <3>1, <3>2, <3>3, <3>4 DEF PrevList
  <2> QED  BY <1>2, <2>1, <2>2, <2>3, <2>4, <2>5 DEF FitsIn, StateOfList, Finite, Lists
<1>14. CASE l = from
  <2>1. ~plan[p].cross  BY <1>1, <1>14 DEF Coherent
  <2>2. card'[c].list = from /\ card'[c].board = card[c].board /\ card'[c].prev = card[c].prev
        /\ card'[c].closed = card[c].closed
    BY <1>5, <1>7, <1>12, <1>14, <2>1 DEF CardWritten, PrevBy, ClosedBy
  <2>3. Sound(c, {"null"})' => (card'[c].placed <=> list[from].type \in Kanban)
    BY <1>2, <1>5, <1>8, <1>10, <1>11, <1>14 DEF CardWritten, PlacedBy, FitsIn, Finite
  <2> QED  BY <1>8, <1>9, <2>2, <2>3 DEF FitsIn, StateOfList, Finite, Lists
<1> QED  BY <1>13, <1>14

LEMMA WriteCardFits ==
    ASSUME Base, AllFit, NEW p \in Proc, WriteCard(p)
    PROVE  AllFit'
<1>1. /\ Busy(p) /\ plan[p].op = "card" /\ UNCHANGED <<list, label, tags, people>>
  BY WriteCardEffect DEF Base
<1>2. PICK c \in Cards : plan[p].cards = {c} /\ CardWritten(p, c)  BY WriteCardEffect DEF Base
<1>3. Fits(c)'  BY <1>1, <1>2, WrittenFits, Sets DEF AllFit
<1>4. odd \subseteq odd' /\ \A k \in Card \ {c} : card'[k] = card[k]  BY <1>2 DEF CardWritten
<1>5. \A k \in Card \ {c} : Fits(k)'  BY <1>1, <1>4, FitsKept DEF AllFit
<1> QED  BY <1>3, <1>5 DEF AllFit

LEMMA WriteListFits ==
    ASSUME Base, AllFit, NEW p \in Proc, WriteList(p)
    PROVE  AllFit'
<1> DEFINE l == plan[p].from
           S == CardsIn(l)
           board == IF plan[p].cross THEN plan[p].to.board ELSE list[l].board
<1>1. /\ Busy(p) /\ plan[p].op = "list" /\ (ListWritten(p) \/ ListGone(p))
      /\ plan[p] \in Plan /\ Coherent(plan[p])
  BY WriteListEffect DEF Base, TypeOK, PlansOK, Busy
<1>2. CASE ListGone(p)  BY <1>2, AllFitKept DEF ListGone
<1>3. CASE ListWritten(p)
  <2>1. l \in Lists /\ l \in List /\ plan[p].to \in Dest  BY <1>1, <1>3, PlanFields DEF ListWritten
  <2>2. odd \subseteq odd'  BY <1>3 DEF ListWritten
  <2>3. ASSUME NEW c \in Card \ S PROVE Fits(c)'
    <3>1. card'[c] = card[c]  BY <1>3 DEF ListWritten
    <3>2. c \in Cards => card[c].list \in List \ {l}  BY RowFields DEF CardsIn, Base
    <3>3. c \in Cards => list'[card[c].list] = list[card[c].list]  BY <1>3, <3>2 DEF ListWritten
    <3> QED  BY <2>2, <3>1, <3>3, FitsKept DEF AllFit
  <2>4. ASSUME NEW c \in S PROVE Fits(c)'
    <3> SUFFICES ASSUME Sound(c, {"stale"})' PROVE FitsIn(c, card[c].list)'
      BY DEF Fits
    <3>1. c \in Card /\ c \in Cards /\ card[c].list = l  BY Sets DEF CardsIn
    <3>2. FitsIn(c, l)  BY <2>2, <3>1 DEF AllFit, Fits, Sound
    <3>3. /\ card'[c].list = l /\ card'[c].prev = card[c].prev /\ card'[c].placed = card[c].placed
          /\ card'[c].board = IF list[l].board # board THEN board ELSE card[c].board
          /\ card'[c].closed = IF list[l].type # plan[p].to.type THEN plan[p].to.type = "closed" ELSE card[c].closed
          /\ list'[l].board = board /\ list'[l].type = plan[p].to.type
      BY <1>3 DEF ListWritten
    <3>4. list[l].type \in Kanban /\ plan[p].to.type \in Kanban /\ board # None
      BY <1>1, <2>1, Nowhere DEF Coherent, Base, RowsOK, Dest, Lists
    <3>5. card'[c].board = board  BY <3>2, <3>3 DEF FitsIn, StateOfList
    <3>6. (plan[p].to.type = "active" => ~card'[c].closed) /\ (plan[p].to.type = "closed" => card'[c].closed)
      BY <3>2, <3>3, <3>4 DEF FitsIn, StateOfList
    <3>7. (Sound(c, {"null"})' => Sound(c, {"null"})) /\ (Sound(c, {"copy"})' => Sound(c, {"copy"}))
      BY <2>2, <3>1 DEF Sound
    <3>8. (Sound(c, {"null"})' => card'[c].placed) /\ (Sound(c, {"copy"})' => card'[c].prev = None)
      BY <3>2, <3>3, <3>4, <3>7 DEF FitsIn, Finite
    <3> HIDE DEF board
    <3> QED  BY <2>1, <3>3, <3>4, <3>5, <3>6, <3>8 DEF FitsIn, StateOfList, Finite, Lists
  <2> QED  BY <2>3, <2>4 DEF AllFit
<1> QED  BY <1>1, <1>2, <1>3

LEMMA SweepCardsFits ==
    ASSUME Base, AllFit, NEW p \in Proc, SweepCards(p)
    PROVE  AllFit'
<1> DEFINE l == plan[p].to
           from == plan[p].from
           S == CardsIn(from)
<1>1. /\ Busy(p) /\ plan[p].op \in {"archive", "trash"} /\ CardsSwept(p) /\ list' = list
      /\ plan[p] \in Plan /\ Coherent(plan[p])
  BY SweepCardsEffect DEF Base, TypeOK, PlansOK, Busy
<1>2. l \in List /\ from \in List  BY <1>1, PlanFields
<1>3. odd \subseteq odd'  BY <1>1 DEF CardsSwept
<1>4. ASSUME NEW c \in Card \ S PROVE Fits(c)'
  <2>1. card'[c] = card[c]  BY <1>1 DEF CardsSwept
  <2> QED  BY <1>1, <1>3, <2>1, FitsKept DEF AllFit
<1>5. ASSUME NEW c \in S PROVE Fits(c)'
  <2> SUFFICES ASSUME Sound(c, {"stale"})' PROVE FitsIn(c, card[c].list)'
    BY DEF Fits
  <2>1. c \in Card /\ c \in Cards /\ card[c].list = from  BY Sets DEF CardsIn
  <2>2. FitsIn(c, from)  BY <1>3, <2>1 DEF AllFit, Fits, Sound
  <2>3. ~Stale(p, {}, {from, l})
    <3> SUFFICES ASSUME Stale(p, {}, {from, l}) PROVE FALSE
      OBVIOUS
    <3>1. Record(S, "stale") \subseteq odd'  BY <1>1 DEF CardsSwept
    <3> QED  BY <3>1, Recorded DEF Sound
  <2>4. list[from] = plan[p].list[from] /\ list[l] = plan[p].list[l]  BY <2>3, NotStale
  <2>5. list[l].type \notin Kanban /\ list[l].board = list[from].board /\ list[l].board # None
    BY <1>1, <2>4 DEF Coherent
  <2>6. card'[c].list = l /\ card'[c].board = card[c].board /\ ~card'[c].placed  BY <1>1 DEF CardsSwept
  <2> QED  BY <1>1, <1>2, <2>2, <2>5, <2>6 DEF FitsIn, StateOfList, Finite, Lists, Kanban
<1> QED  BY <1>4, <1>5 DEF AllFit

LEMMA DropListFits ==
    ASSUME Base, AllFit, NEW p \in Proc, DropList(p)
    PROVE  AllFit'
<1> DEFINE l == plan[p].from
<1>1. /\ card' = card /\ \A k \in List \ {l} : list'[k] = list[k]
      /\ odd' = odd \cup Record(CardsIn(l), "stale")
  BY DropListEffect DEF Base
<1> SUFFICES ASSUME NEW c \in Card PROVE Fits(c)'
  BY DEF AllFit
<1>2. CASE c \in CardsIn(l)  BY <1>1, <1>2, Recorded DEF Fits, Sound
<1>3. CASE c \notin CardsIn(l)
  <2>1. c \in Cards => card[c].list \in List \ {l}  BY <1>3, RowFields DEF CardsIn, Base
  <2>2. c \in Cards => list'[card[c].list] = list[card[c].list]  BY <1>1, <2>1
  <2> QED  BY <1>1, <2>2, FitsKept DEF AllFit
<1> QED  BY <1>2, <1>3

LEMMA InsertCardFits ==
    ASSUME Base, AllFit, NEW p \in Proc, InsertCard(p)
    PROVE  AllFit'
<1>0. PICK new \in Card, l \in List : new = plan[p].copy /\ l = plan[p].to
  BY InsertCardEffect DEF Base
<1> DEFINE type == plan[p].list[l].type
<1>1. /\ Busy(p) /\ plan[p].op = "create" /\ list' = list
      /\ \A c \in Card \ {new} : card'[c] = card[c]
      /\ card'[new].list = l /\ card'[new].board = plan[p].list[l].board
      /\ card'[new].prev = None /\ card'[new].closed = (type = "closed")
      /\ card'[new].placed = (type \in Kanban)
      /\ odd' = odd \cup (IF Stale(p, {}, {l}) THEN Record({new}, "stale") ELSE {})
  BY <1>0, InsertCardEffect DEF Base
<1>2. Coherent(plan[p])  BY <1>1 DEF Base, PlansOK
<1>3. \A c \in Card \ {new} : Fits(c)'  BY <1>1, FitsKept DEF AllFit
<1>4. Fits(new)'
  <2> SUFFICES ASSUME Sound(new, {"stale"})' PROVE FitsIn(new, card[new].list)'
    BY DEF Fits
  <2>1. ~Stale(p, {}, {l})
    <3> SUFFICES ASSUME Stale(p, {}, {l}) PROVE FALSE
      OBVIOUS
    <3>1. Record({new}, "stale") \subseteq odd'  BY <1>1
    <3> QED  BY <3>1, RecordedOne DEF Sound
  <2>2. list[l] = plan[p].list[l]  BY <2>1, NotStale
  <2>3. list[l].board # None  BY <1>0, <1>1, <1>2, <2>2 DEF Coherent
  <2> QED  BY <1>0, <1>1, <2>2, <2>3 DEF FitsIn, StateOfList, Finite, Lists
<1> QED  BY <1>3, <1>4 DEF AllFit

LEMMA InsertCopyFits ==
    ASSUME Base, AllFit, NEW p \in Proc, InsertCopy(p)
    PROVE  AllFit'
<1>1. Busy(p) /\ plan[p].op = "copy" /\ CopyWritten(p) /\ list' = list
  BY InsertCopyEffect DEF Base
<1>0. PICK new, l, from, c : /\ new = plan[p].copy /\ new \in Card
                             /\ l = plan[p].to /\ l \in List
                             /\ from = plan[p].from /\ c = Original(p)
  BY <1>1 DEF CopyWritten
<1>2. Coherent(plan[p]) /\ PlansOK /\ plan[p] \in Plan  BY <1>1 DEF Base, TypeOK, PlansOK, Busy
<1>3. c \in Cards /\ c \in Card /\ plan[p].cards = {c} /\ from = plan[p].card[c].list
  BY <1>0, <1>1, <1>2, OriginalIs, Sets
<1>4. odd \subseteq odd' /\ \A k \in Card \ {new} : card'[k] = card[k]  BY <1>0, <1>1 DEF CopyWritten
<1>5. \A k \in Card \ {new} : Fits(k)'  BY <1>1, <1>4, FitsKept DEF AllFit
<1>6. Fits(new)'
  <2> SUFFICES ASSUME Sound(new, {"stale"})' PROVE FitsIn(new, card[new].list)'
    BY DEF Fits
  <2>1. ~Stale(p, plan[p].cards, {from, l}) /\ <<"stale", c>> \notin odd
    <3> SUFFICES ASSUME Stale(p, plan[p].cards, {from, l}) \/ <<"stale", c>> \in odd PROVE FALSE
      OBVIOUS
    <3>1. \E k \in plan[p].cards : <<"stale", k>> \in odd \/ Stale(p, plan[p].cards, {from, l})  BY <1>3
    <3>2. Record({new}, "stale") \subseteq odd'  BY <1>0, <1>1, <3>1 DEF CopyWritten
    <3> QED  BY <3>2, RecordedOne DEF Sound
  <2>2. card[c] = plan[p].card[c] /\ list[from] = plan[p].list[from] /\ list[l] = plan[p].list[l]
    BY <1>0, <1>3, <2>1, NotStale
  <2>3. FitsIn(c, from)  BY <1>3, <2>1, <2>2 DEF AllFit, Fits, Sound
  <2>4. /\ card'[new].list = l /\ card'[new].board = CopyBoard(p)
        /\ card'[new].closed = IF l # from THEN Closed(card[c], list[l].type) ELSE card[c].closed
        /\ card'[new].placed = (list[l].type \in Kanban) 
    BY <1>0, <1>1, <2>2 DEF CopyWritten
  <2>5. list[l].board # None  BY <1>0, <1>1, <1>2, <2>2 DEF Coherent
  <2>6. card'[new].board = list[l].board
    <3>1. CASE plan[p].cross  BY <1>0, <1>1, <2>2, <2>4, <3>1 DEF CopyBoard, Target
    <3>2. CASE ~plan[p].cross
      <4>1. CopyBoard(p) = card[c].board  BY <1>0, <2>2, <3>2 DEF CopyBoard, Original
      <4>2. list[l].board = list[from].board  BY <1>0, <1>1, <1>2, <2>2, <3>2 DEF Coherent
      <4> QED  BY <2>3, <2>4, <4>1, <4>2 DEF FitsIn, StateOfList
    <3> QED  BY <3>1, <3>2
  <2>7. (list[l].type = "active" => ~card'[new].closed) /\ (list[l].type = "closed" => card'[new].closed)
    BY <2>3, <2>4 DEF Closed, FitsIn, StateOfList
  <2>8. ~Sound(new, {"copy"})'
    <3>1. Record({new}, "copy") \subseteq odd'  BY <1>0, <1>1 DEF CopyWritten
    <3> QED  BY <3>1, RecordedOne DEF Sound
  <2> QED  BY <1>0, <1>1, <2>4, <2>5, <2>6, <2>7, <2>8 DEF FitsIn, StateOfList, Finite, Lists
<1> QED  BY <1>5, <1>6 DEF AllFit

LEMMA AllFitStep ==
    ASSUME Base, AllFit, NEW p \in Proc, Request(p) \/ Statement(p)
    PROVE  AllFit'
<1>1. odd \subseteq odd'  BY OddGrows
<1>2. CASE Request(p)
  <2>1. card' = card /\ list' = list  BY <1>2, RequestFresh DEF Base, rows
  <2> QED  BY <1>1, <2>1, AllFitKept
<1>3. CASE \/ ReadLabels(p) \/ DropSubscriptions(p) \/ DropMemberships(p) \/ DropTags(p) \/ DropAssignees(p)
           \/ ReadTargetLabels(p) \/ CreateLabels(p) \/ Tag(p) \/ ReadCopyLabels(p)
           \/ CopyMembers(p) \/ CopyTags(p) \/ CopyTasks(p) \/ InsertTask(p)
  <2>1. card' = card /\ list' = list
    BY <1>3 DEF ReadLabels, DropSubscriptions, DropMemberships, DropTags, DropAssignees, ReadTargetLabels,
       CreateLabels, Tag, ReadCopyLabels, CopyMembers, CopyTags, CopyTasks, InsertTask, rows
  <2> QED  BY <1>1, <2>1, AllFitKept
<1>4. CASE WriteCard(p) \/ WriteList(p) \/ SweepCards(p) \/ DropList(p) \/ InsertCard(p) \/ InsertCopy(p)
  BY <1>4, WriteCardFits, WriteListFits, SweepCardsFits, DropListFits, InsertCardFits, InsertCopyFits
<1> QED  BY <1>2, <1>3, <1>4, Zenon DEF Statement

LEMMA AllFitStutter == AllFit /\ UNCHANGED vars => AllFit'
<1>1. UNCHANGED vars => card' = card /\ list' = list /\ odd' = odd  BY DEF vars, rows
<1> QED  BY <1>1, AllFitKept

LEMMA FitHolds == Spec => []AllFit
<1>1. Base /\ AllFit /\ [Next]_vars => AllFit'
  BY AllFitStep, AllFitStutter, Zenon DEF Next
<1> QED  BY <1>1, AllFitInit, TypeCorrect, PTL DEF Spec

\* Once requests are over the columns of a card agree with the list it is in,
\* unless it was written from rows that changed since they were loaded: its
\* board, closed or not, its position, the list it remembers (helpers/cards/
\* update-one, lists/update-one, move-cards, delete-one, cards/create-one,
\* duplicate-one).
THEOREM CardsFit == Spec => []CardFitsList
<1>1. AllFit => CardFitsList
  BY DEF AllFit, Fits, FitsIn, CardFitsList
<1> QED  BY <1>1, FitHolds, PTL

-----------------------------------------------------------------------------
(* Linked tasks *)

LEMMA FollowedKept ==
    ASSUME NEW t, Followed(t), odd \subseteq odd',
           task'[t].link = task[t].link, task'[t].done = task[t].done,
           task[t].link # None => card'[task[t].link].closed = card[task[t].link].closed /\ task[t].link \in Cards
    PROVE  Followed(t)'
BY DEF Followed, Sound

LEMMA AllFollowedKept ==
    ASSUME Base, AllFollowed, odd \subseteq odd', Tasks' = Tasks,
           \A t \in Tasks : task'[t].link = task[t].link /\ task'[t].done = task[t].done,
           \A c \in Cards : card'[c].closed = card[c].closed
    PROVE  AllFollowed'
<1> SUFFICES ASSUME NEW t \in Tasks PROVE Followed(t)'
  BY DEF AllFollowed
<1>1. task[t].link \in Cards \cup {None}  BY DEF Base, RowsOK
<1> QED  BY <1>1, FollowedKept DEF AllFollowed

LEMMA AllFollowedInit == Init => AllFollowed
<1> SUFFICES ASSUME Init, NEW t \in Tasks, task[t].link # None PROVE card[task[t].link].closed => task[t].done
  BY DEF AllFollowed, Followed
<1>1. t \in {k \in Task : Task0[k].card # None} /\ task[t] = Task0[t] /\ card = Card0  BY DEF Init, Tasks
<1> QED  BY <1>1, StartAssumption

\* A write that closes or opens cards takes the tasks linked to them along.
LEMMA WrittenFollowed ==
    ASSUME Base, AllFollowed, odd \subseteq odd', Tasks' = Tasks, NEW S \in SUBSET Cards, NEW closed \in BOOLEAN,
           task' = Follow(S, closed), \A c \in S : card'[c].closed = closed,
           \A c \in Card \ S : card'[c] = card[c]
    PROVE  AllFollowed'
<1> SUFFICES ASSUME NEW t \in Tasks PROVE Followed(t)'
  BY DEF AllFollowed
<1>1. t \in Task /\ task[t].link \in Cards \cup {None}  BY Sets DEF Base, RowsOK
<1>2. task'[t].link = task[t].link /\ task'[t].done = IF t \in Linked(S) THEN closed ELSE task[t].done
  BY <1>1, FollowFields DEF Base
<1>3. CASE t \in Linked(S)  BY <1>2, <1>3 DEF Followed, Linked
<1>4. CASE t \notin Linked(S)
  <2>1. task[t].link # None => task[t].link \in Card \ S  BY <1>1, <1>4, Sets DEF Linked
  <2> QED  BY <1>1, <1>2, <1>4, <2>1, FollowedKept DEF AllFollowed
<1> QED  BY <1>3, <1>4

LEMMA WriteCardFollowed ==
    ASSUME Base, AllFollowed, NEW p \in Proc, WriteCard(p)
    PROVE  AllFollowed'
<1>1. Busy(p) /\ plan[p] \in Plan  BY WriteCardEffect DEF Base, TypeOK, Busy
<1>2. PICK c \in Cards : CardWritten(p, c)  BY WriteCardEffect DEF Base
<1>3. c \in Card /\ odd \subseteq odd'  BY <1>2, Sets DEF CardWritten
<1>4. ClosedBy(p, c) \in BOOLEAN  BY <1>1, <1>3, SnapFields DEF ClosedBy, Closed
<1>5. CASE Switched(p, c)
  <2>1. task' = Follow({c}, ClosedBy(p, c)) /\ card'[c].closed = ClosedBy(p, c)
        /\ \A k \in Card \ {c} : card'[k] = card[k]
    BY <1>2, <1>5 DEF CardWritten
  <2>2. Tasks' = Tasks
    <3>1. \A t \in Task : task'[t].card = task[t].card /\ task'[t].link = task[t].link
      BY <1>4, <2>1, FollowFields DEF Base
    <3> QED  BY <3>1, SameTasks
  <2> QED  BY <1>3, <1>4, <2>1, <2>2, WrittenFollowed
<1>6. CASE ~Switched(p, c)
  <2>1. task' = task /\ \A k \in Card : card'[k].closed = card[k].closed  BY <1>2, <1>3, <1>6 DEF CardWritten
  <2> QED  BY <1>3, <2>1, Sets, AllFollowedKept DEF Tasks
<1> QED  BY <1>5, <1>6

LEMMA WriteListFollowed ==
    ASSUME Base, AllFollowed, NEW p \in Proc, WriteList(p)
    PROVE  AllFollowed'
<1>0. PICK S, closed : S = CardsIn(plan[p].from) /\ closed = (plan[p].to.type = "closed")
  OBVIOUS
<1>1. ListWritten(p) \/ ListGone(p)  BY WriteListEffect DEF Base
<1>2. S \subseteq Cards /\ S \subseteq Card /\ closed \in BOOLEAN  BY <1>0, Sets DEF CardsIn
<1>3. CASE ListGone(p)  BY <1>3, AllFollowedKept DEF ListGone, Tasks
<1>4. CASE ListWritten(p) /\ list[plan[p].from].type # plan[p].to.type
  <2>1. task' = Follow(S, closed) /\ \A c \in S : card'[c].closed = closed  BY <1>0, <1>4 DEF ListWritten
  <2>2. odd \subseteq odd' /\ \A c \in Card \ S : card'[c] = card[c]  BY <1>0, <1>4 DEF ListWritten
  <2>3. Tasks' = Tasks
    <3>1. \A t \in Task : task'[t].card = task[t].card /\ task'[t].link = task[t].link
      BY <1>2, <2>1, FollowFields DEF Base
    <3> QED  BY <3>1, SameTasks
  <2> QED  BY <1>2, <2>1, <2>2, <2>3, WrittenFollowed
<1>5. CASE ListWritten(p) /\ list[plan[p].from].type = plan[p].to.type
  <2>1. task' = task /\ odd \subseteq odd' /\ \A c \in Card : card'[c].closed = card[c].closed
    BY <1>5 DEF ListWritten
  <2> QED  BY <2>1, Sets, AllFollowedKept DEF Tasks
<1> QED  BY <1>1, <1>3, <1>4, <1>5

LEMMA Unlinked ==
    ASSUME Base, AllFollowed, odd \subseteq odd', NEW new, new \notin Cards, task' = task,
           \A c \in Card \ {new} : card'[c] = card[c]
    PROVE  AllFollowed'
<1>1. \A c \in Cards : card'[c].closed = card[c].closed  BY Sets
<1> QED  BY <1>1, AllFollowedKept DEF Tasks

\* At its insertion a card or copy is not there.
LEMMA NotYet ==
    ASSUME Base, NEW p \in Proc, At(p, "write"), plan[p].op \in {"create", "copy"}
    PROVE  plan[p].copy \notin Cards
<1>1. Busy(p) /\ Step(p) = {"write"} /\ Coherent(plan[p])  BY StageOf DEF Base, PlansOK
<1> QED  BY <1>1 DEF Coherent, Step

LEMMA InsertFollowed ==
    ASSUME Base, AllFollowed, NEW p \in Proc, InsertCard(p) \/ InsertCopy(p)
    PROVE  AllFollowed'
<1>1. odd \subseteq odd'  BY OddGrows DEF Statement
<1>2. At(p, "write") /\ plan[p].op \in {"create", "copy"}  BY DEF InsertCard, InsertCopy
<1>3. task' = task /\ \A c \in Card \ {plan[p].copy} : card'[c] = card[c]
  BY InsertCardEffect, InsertCopyEffect DEF CopyWritten, Base
<1> QED  BY <1>1, <1>2, <1>3, NotYet, Unlinked

LEMMA CopyTasksFollowed ==
    ASSUME Base, AllFollowed, NEW p \in Proc, CopyTasks(p)
    PROVE  AllFollowed'
<1>1. card' = card /\ odd \subseteq odd'  BY CopyTasksEffect DEF Base
<1> SUFFICES ASSUME NEW s \in Tasks' PROVE Followed(s)'
  BY DEF AllFollowed
<1>2. s \in Task  BY DEF Tasks
<1>3. CASE task'[s] = task[s]
  <2>1. s \in Tasks  BY <1>2, <1>3 DEF Tasks
  <2>2. task[s].link \in Cards \cup {None}  BY <2>1 DEF Base, RowsOK
  <2> QED  BY <1>1, <1>3, <2>1, <2>2, FollowedKept DEF AllFollowed
<1>4. CASE task'[s] # task[s]
  <2>1. PICK t \in Tasks : task'[s].link = task[t].link /\ task'[s].done = task[t].done
    BY <1>2, <1>4, CopyTasksEffect DEF Base
  <2>2. Followed(t)  BY DEF AllFollowed
  <2> QED  BY <1>1, <2>1, <2>2 DEF Followed, Sound, Cards
<1> QED  BY <1>3, <1>4

LEMMA InsertTaskFollowed ==
    ASSUME Base, AllFollowed, NEW p \in Proc, InsertTask(p)
    PROVE  AllFollowed'
<1>0. PICK c : c = Original(p)
  OBVIOUS
<1>1. /\ Busy(p) /\ plan[p].op = "task" /\ card' = card
      /\ odd' = odd \cup (IF card[c].closed # plan[p].card[c].closed THEN Record({c}, "stale") ELSE {})
  BY <1>0, InsertTaskEffect DEF Base
<1>2. PICK t \in SpareTasks : /\ \A s \in Task \ {t} : task'[s] = task[s]
                              /\ task'[t].link = c /\ task'[t].done = plan[p].done
  BY <1>0, InsertTaskEffect DEF Base
<1>3. Coherent(plan[p]) /\ PlansOK  BY <1>1 DEF Base, PlansOK
<1>4. plan[p].cards = {c} /\ (plan[p].card[c].closed => plan[p].done)
  BY <1>0, <1>1, <1>3, OriginalIs DEF Coherent, OneCard
<1>5. Followed(t)'
  <2> SUFFICES ASSUME Sound(c, {"stale"})', card[c].closed PROVE plan[p].done
    BY <1>1, <1>2 DEF Followed
  <2>1. card[c].closed = plan[p].card[c].closed
    <3> SUFFICES ASSUME card[c].closed # plan[p].card[c].closed PROVE FALSE
      OBVIOUS
    <3>1. Record({c}, "stale") \subseteq odd'  BY <1>1
    <3> QED  BY <3>1, RecordedOne DEF Sound
  <2> QED  BY <1>4, <2>1
<1>6. ASSUME NEW s \in Tasks', s # t PROVE Followed(s)'
  <2>1. s \in Tasks /\ task'[s] = task[s]  BY <1>2, <1>6 DEF Tasks
  <2>2. task[s].link \in Cards \cup {None}  BY <2>1 DEF Base, RowsOK
  <2> QED  BY <1>1, <2>1, <2>2, FollowedKept DEF AllFollowed
<1> QED  BY <1>5, <1>6 DEF AllFollowed

LEMMA AllFollowedStep ==
    ASSUME Base, AllFollowed, NEW p \in Proc, Request(p) \/ Statement(p)
    PROVE  AllFollowed'
<1>1. odd \subseteq odd'  BY OddGrows
<1>2. CASE \/ Request(p)
           \/ ReadLabels(p) \/ DropSubscriptions(p) \/ DropMemberships(p) \/ DropTags(p)
           \/ ReadTargetLabels(p) \/ CreateLabels(p) \/ Tag(p) \/ DropList(p) \/ ReadCopyLabels(p)
           \/ CopyMembers(p) \/ CopyTags(p)
  <2>1. CASE Request(p)
    <3>1. card' = card /\ task' = task  BY <2>1, RequestFresh DEF Base, rows
    <3> QED  BY <1>1, <3>1, AllFollowedKept DEF Tasks
  <2>2. CASE ~Request(p)
    <3>1. card' = card /\ task' = task
      BY <1>2, <2>2 DEF ReadLabels, DropSubscriptions, DropMemberships, DropTags, ReadTargetLabels,
         CreateLabels, Tag, DropList, ReadCopyLabels, CopyMembers, CopyTags, rows
    <3> QED  BY <1>1, <3>1, AllFollowedKept DEF Tasks
  <2> QED  BY <2>1, <2>2
<1>3. CASE DropAssignees(p)
  <2>1. card' = card /\ \A t \in Task : /\ task'[t].card = task[t].card /\ task'[t].link = task[t].link
                                        /\ task'[t].done = task[t].done
    BY <1>3, DropAssigneesEffect DEF Base, DropAssignees
  <2>2. Tasks' = Tasks  BY <2>1, SameTasks
  <2> QED  BY <1>1, <2>1, <2>2, Sets, AllFollowedKept
<1>4. CASE SweepCards(p)
  <2>1. CardsSwept(p) /\ task' = task  BY <1>4, SweepCardsEffect DEF Base
  <2>2. \A c \in Card : card'[c].closed = card[c].closed  BY <2>1 DEF CardsSwept
  <2> QED  BY <1>1, <2>1, <2>2, Sets, AllFollowedKept DEF Tasks
<1>5. CASE \/ WriteCard(p) \/ WriteList(p) \/ InsertCard(p) \/ InsertCopy(p) \/ CopyTasks(p) \/ InsertTask(p)
  BY <1>5, WriteCardFollowed, WriteListFollowed, InsertFollowed, CopyTasksFollowed, InsertTaskFollowed
<1> QED  BY <1>2, <1>3, <1>4, <1>5, Zenon DEF Statement

LEMMA AllFollowedStutter == Base /\ AllFollowed /\ UNCHANGED vars => AllFollowed'
<1>1. UNCHANGED vars => card' = card /\ task' = task /\ odd' = odd  BY DEF vars, rows
<1> QED  BY <1>1, AllFollowedKept DEF Tasks

\* Once requests are over a task linked to a closed card is done, wherever the
\* card was closed and whenever the task was linked (Card.qm.updateOne,
\* List.qm.updateOne, tasks/create), unless the card was closed or opened while
\* the task was being linked, or written from stale rows.
THEOREM TasksFollow == Spec => []LinkedTasksFollow
<1>1. Base /\ AllFollowed /\ [Next]_vars => AllFollowed'
  BY AllFollowedStep, AllFollowedStutter, Zenon DEF Next
<1>2. AllFollowed => LinkedTasksFollow
  BY DEF AllFollowed, Followed, LinkedTasksFollow
<1> QED  BY <1>1, <1>2, AllFollowedInit, TypeCorrect, PTL DEF Spec

-----------------------------------------------------------------------------
(* Nothing from elsewhere *)

\* What is on a card after a step was on it before, but for tasks of nobody.
Only(c) ==
    /\ \A x \in tags' : x[1] = c => x \in tags
    /\ \A x \in people' : x[2] = c => x \in people
    /\ \A t \in TasksOf({c})' :
          \/ task'[t].assignee = None
          \/ t \in TasksOf({c}) /\ task'[t].assignee = task[t].assignee

KeptLabels == \A l \in Labels : label'[l] = label[l]
CarriesOn(p) == Carrying(p)' => Carrying(p) /\ plan'[p].cards = plan[p].cards

LEMMA OnlySame ==
    ASSUME tags' \subseteq tags, people' \subseteq people,
           \A t \in Task : /\ task'[t].card = task[t].card
                           /\ task'[t].assignee \in {None, task[t].assignee}
    PROVE  \A c \in Card : Only(c)
BY DEF Only, TasksOf, Tasks

LEMMA CleanKept ==
    ASSUME Base, NEW c \in Card, Clean(c), odd \subseteq odd', KeptLabels, Only(c),
           c \in Cards' => c \in Cards /\ card'[c].board = card[c].board
    PROVE  Clean(c)'
<1> SUFFICES ASSUME Sound(c, {"stale"})'
             PROVE  /\ \A x \in tags' : x[1] = c => label'[x[2]].board = card'[c].board
                    /\ \A x \in people' : x[2] = c => x[3] \in MembersOf[card'[c].board]
                    /\ \A t \in TasksOf({c})' : task'[t].assignee \in MembersOf[card'[c].board] \cup {None}
  BY DEF Clean
<1>1. Sound(c, {"stale"}) /\ card'[c].board = card[c].board  BY DEF Sound
<1>2. /\ \A x \in tags : x[1] = c => label[x[2]].board = card[c].board
      /\ \A x \in people : x[2] = c => x[3] \in MembersOf[card[c].board]
      /\ \A t \in TasksOf({c}) : task[t].assignee \in MembersOf[card[c].board] \cup {None}
  BY <1>1 DEF Clean
<1>3. \A x \in tags : label'[x[2]] = label[x[2]]  BY DEF Base, RowsOK, KeptLabels
<1> QED  BY <1>1, <1>2, <1>3 DEF Only

LEMMA CarryingSame ==
    ASSUME NEW p \in Proc, Others(p), NEW q \in Proc \ {p}
    PROVE  /\ Carrying(q)' <=> Carrying(q)
           /\ Target(q)' = Target(q) /\ Step(q)' = Step(q) /\ plan'[q] = plan[q]
BY DEF Others, Carrying, Busy, At, Step, Target

\* What a request has taken off its cards stays off while others go on.
LEMMA OthersStripped ==
    ASSUME AllStripped, NEW p \in Proc, Others(p), odd \subseteq odd', NEW q \in Proc \ {p},
           \A c \in plan[q].cards : Carrying(q) /\ ~Stained(c)' =>
              Only(c) /\ (Carrying(p)' => c \notin plan'[p].cards)
    PROVE  Stripped(q)'
<1> SUFFICES ASSUME Carrying(q)', NEW c \in plan'[q].cards, ~Stained(c)'
             PROVE  /\ \A r \in Proc \ {q} : Carrying(r)' => c \notin plan'[r].cards
                    /\ Step(q)' \cap {"memberships", "tags", "assignees", "write"} # {} => Members(q, "subscription", c)'
                    /\ Step(q)' \cap {"tags", "assignees", "write"} # {} => Members(q, "membership", c)'
                    /\ Step(q)' \cap {"assignees", "write", "relabel", "label", "tag"} # {} => \A x \in tags' : x[1] # c
                    /\ At(q, "write")' => \A t \in TasksOf({c})' : task'[t].assignee \in MembersOf[Target(q)'] \cup {None}
  BY DEF Stripped
<1>1. Carrying(q) /\ Target(q)' = Target(q) /\ Step(q)' = Step(q) /\ c \in plan[q].cards  BY CarryingSame
<1>2. ~Stained(c)  BY DEF Stained
<1>3. Only(c) /\ (Carrying(p)' => c \notin plan'[p].cards)  BY <1>1
<1>4. /\ \A r \in Proc \ {q} : Carrying(r) => c \notin plan[r].cards
      /\ Step(q) \cap {"memberships", "tags", "assignees", "write"} # {} => Members(q, "subscription", c)
      /\ Step(q) \cap {"tags", "assignees", "write"} # {} => Members(q, "membership", c)
      /\ Step(q) \cap {"assignees", "write", "relabel", "label", "tag"} # {} => \A x \in tags : x[1] # c
      /\ At(q, "write") => \A t \in TasksOf({c}) : task[t].assignee \in MembersOf[Target(q)] \cup {None}
  BY <1>1, <1>2 DEF AllStripped, Stripped
<1>5. \A r \in Proc \ {q} : Carrying(r)' => c \notin plan'[r].cards
  BY <1>3, <1>4, CarryingSame
<1>6. Members(q, "subscription", c) => Members(q, "subscription", c)'  BY <1>1, <1>3 DEF Members, Only
<1>7. Members(q, "membership", c) => Members(q, "membership", c)'  BY <1>1, <1>3 DEF Members, Only
<1>8. (\A x \in tags : x[1] # c) => \A x \in tags' : x[1] # c  BY <1>3 DEF Only
<1>9. At(q, "write")' <=> At(q, "write")  BY <1>1 DEF At
<1>10. At(q, "write") => \A t \in TasksOf({c})' : task'[t].assignee \in MembersOf[Target(q)'] \cup {None}
  BY <1>1, <1>3, <1>4 DEF Only
<1> QED  BY <1>1, <1>4, <1>5, <1>6, <1>7, <1>8, <1>9, <1>10

LEMMA NobodyElse ==
    ASSUME AllStripped, NEW p \in Proc, CarriesOn(p), NEW q \in Proc \ {p}, Carrying(q),
           NEW c \in plan[q].cards, ~Stained(c), Carrying(p)'
    PROVE  c \notin plan'[p].cards
BY DEF AllStripped, Stripped, CarriesOn

\* A step that adds nothing to any card.
LEMMA QuietStep ==
    ASSUME Base, AllClean, AllStripped, NEW p \in Proc, Others(p), odd \subseteq odd', KeptLabels,
           CarriesOn(p), Stripped(p)', \A c \in Card : Only(c),
           \A c \in Card : c \in Cards' => c \in Cards /\ card'[c].board = card[c].board
    PROVE  AllClean' /\ AllStripped'
<1>1. AllClean'  BY CleanKept DEF AllClean
<1>2. ASSUME NEW q \in Proc \ {p} PROVE Stripped(q)'
  <2>1. \A c \in plan[q].cards : Carrying(q) => c \in Card
    <3>1. Carrying(q) => plan[q] \in Plan  BY DEF Carrying, Busy, Base, TypeOK
    <3> QED  BY <3>1, PlanFields
  <2>2. \A c : ~Stained(c)' => ~Stained(c)  BY DEF Stained
  <2> QED  BY <2>1, <2>2, NobodyElse, OthersStripped
<1>3. AllStripped'  BY <1>2 DEF AllStripped
<1> QED  BY <1>1, <1>3

LEMMA EndedStripped ==
    ASSUME NEW p \in Proc, Ended(p)
    PROVE  Stripped(p)' /\ CarriesOn(p) /\ Others(p)
BY DEF Ended, Stripped, CarriesOn, Carrying, Busy

\* What stays of the things taken off the cards of p when it goes on to s.
LEMMA WentStripped ==
    ASSUME Base, AllStripped, NEW p \in Proc, NEW s, NEW N, Carrying(p), Went(p, s, plan[p].cards, N),
           odd \subseteq odd', s # "labels"
    PROVE  /\ CarriesOn(p) /\ Carrying(p)' /\ Others(p) /\ Target(p)' = Target(p)
           /\ Step(p)' = {s} /\ plan'[p].cards = plan[p].cards
           /\ \A c \in plan[p].cards : ~Stained(c)' =>
                 /\ ~Stained(c) /\ c \in Card
                 /\ \A q \in Proc \ {p} : Carrying(q)' => c \notin plan'[q].cards
<1>1. plan'[p].op = plan[p].op /\ plan'[p].cross = plan[p].cross /\ plan'[p].steps = {s}
      /\ plan'[p].cards = plan[p].cards /\ plan'[p] \in Plan /\ Others(p)
      /\ plan'[p].to = plan[p].to /\ plan'[p].list = plan[p].list
  BY DEF Went, Same
<1>2. plan'[p] # Idle  BY <1>1 DEF Idle
<1>3. Carrying(p)'  BY <1>1, <1>2 DEF Carrying, Busy, At, Step
<1>4. Target(p)' = Target(p)  BY <1>1 DEF Target
<1>5. plan[p] \in Plan  BY DEF Carrying, Busy, Base, TypeOK
<1>6. ASSUME NEW c \in plan[p].cards, ~Stained(c)'
      PROVE  /\ ~Stained(c) /\ c \in Card
             /\ \A q \in Proc \ {p} : Carrying(q)' => c \notin plan'[q].cards
  <2>1. ~Stained(c)  BY <1>6 DEF Stained
  <2>2. \A q \in Proc \ {p} : Carrying(q) => c \notin plan[q].cards  BY <2>1 DEF AllStripped, Stripped
  <2> QED  BY <1>1, <1>5, <2>1, <2>2, PlanFields, CarryingSame
<1> QED  BY <1>1, <1>3, <1>4, <1>6 DEF CarriesOn, Step

LEMMA RequestClean ==
    ASSUME Base, AllClean, AllStripped, NEW p \in Proc, Request(p)
    PROVE  AllClean' /\ AllStripped'
<1>1. PICK r : Fresh(r) /\ Began(p, r) /\ UNCHANGED <<rows, odd>>  BY RequestFresh DEF Base
<1>2. ~Carrying(p)' /\ Others(p)  BY <1>1 DEF Began, Fresh, Carrying, At, Step
<1>3. CarriesOn(p) /\ Stripped(p)'  BY <1>2 DEF CarriesOn, Stripped
<1>4. UNCHANGED <<list, card, task, label, tags, people, odd>>  BY <1>1 DEF rows
<1>5. \A c \in Card : Only(c)  BY <1>4, OnlySame
<1> QED  BY <1>2, <1>3, <1>4, <1>5, QuietStep DEF KeptLabels, Cards

LEMMA ReadLabelsClean ==
    ASSUME Base, AllClean, AllStripped, NEW p \in Proc, ReadLabels(p)
    PROVE  AllClean' /\ AllStripped'
<1>1. Went(p, "subscriptions", CardsRead(p), NamesRead(p))  BY ReadLabelsEffect DEF Base
<1>2. UNCHANGED <<list, card, task, label, tags, people>>  BY DEF ReadLabels, rows
<1>3. odd' = odd \cup (IF Carried(p, CardsRead(p)) THEN Record(CardsRead(p), "stale") ELSE {})
  BY Zenon DEF ReadLabels, CardsRead
<1>4. \A c \in Card : Only(c)  BY <1>2, OnlySame
<1>5. AllClean'  BY <1>2, <1>3, <1>4, CleanKept DEF AllClean, KeptLabels, Cards
<1>6. plan'[p].cards = CardsRead(p) /\ Step(p)' = {"subscriptions"} /\ Others(p)  BY <1>1 DEF Went, Step
<1>7. ASSUME NEW q \in Proc \ {p}, Carrying(q), NEW c \in plan[q].cards, c \in CardsRead(p)
      PROVE  Stained(c)'
  <2>1. Carried(p, CardsRead(p))  BY <1>7 DEF Carried, Carrying, Busy
  <2>2. <<"stale", c>> \in Record(CardsRead(p), "stale")  BY <1>7, Recorded
  <2> QED  BY <1>3, <2>1, <2>2 DEF Stained
<1>8. ASSUME NEW q \in Proc \ {p} PROVE Stripped(q)'
  <2>1. \A c \in plan[q].cards : Carrying(q) => c \in Card
    <3>1. Carrying(q) => plan[q] \in Plan  BY DEF Carrying, Busy, Base, TypeOK
    <3> QED  BY <3>1, PlanFields
  <2> QED  BY <1>3, <1>4, <1>6, <1>7, <2>1, OthersStripped
<1>9. Stripped(p)'
  <2> SUFFICES ASSUME NEW c \in CardsRead(p), ~Stained(c)', NEW q \in Proc \ {p}, Carrying(q)'
               PROVE  c \notin plan'[q].cards
    BY <1>6 DEF Stripped, At
  <2> QED  BY <1>6, <1>7, CarryingSame
<1> QED  BY <1>5, <1>8, <1>9 DEF AllStripped

LEMMA DropSubscriptionsClean ==
    ASSUME Base, AllClean, AllStripped, NEW p \in Proc, DropSubscriptions(p)
    PROVE  AllClean' /\ AllStripped'
<1>1. Went(p, "memberships", plan[p].cards, plan[p].names) /\ At(p, "subscriptions")
  BY DropSubscriptionsEffect DEF Base, DropSubscriptions
<1>2. Carrying(p)  BY <1>1, CarryingNow DEF Base
<1>3. people' = people \ Strangers(p, "subscription") /\ UNCHANGED <<list, card, task, label, tags, odd>>
  BY DEF DropSubscriptions
<1>4. \A c \in Card : Only(c)  BY <1>3, OnlySame
<1>5. /\ CarriesOn(p) /\ Others(p) /\ Target(p)' = Target(p)
      /\ Step(p)' = {"memberships"} /\ plan'[p].cards = plan[p].cards
      /\ \A c \in plan[p].cards : ~Stained(c)' =>
            \A q \in Proc \ {p} : Carrying(q)' => c \notin plan'[q].cards
  BY <1>1, <1>2, <1>3, WentStripped
<1>6. \A c \in plan[p].cards : Members(p, "subscription", c)'
  BY <1>3, <1>5 DEF Members, Strangers
<1>7. Stripped(p)'  BY <1>5, <1>6 DEF Stripped, At
<1> QED  BY <1>3, <1>4, <1>5, <1>7, QuietStep DEF KeptLabels, Cards

LEMMA DropMembershipsClean ==
    ASSUME Base, AllClean, AllStripped, NEW p \in Proc, DropMemberships(p)
    PROVE  AllClean' /\ AllStripped'
<1>1. Went(p, "tags", plan[p].cards, plan[p].names) /\ At(p, "memberships")
  BY DropMembershipsEffect DEF Base, DropMemberships
<1>2. Carrying(p)  BY <1>1, CarryingNow DEF Base
<1>3. people' = people \ Strangers(p, "membership") /\ UNCHANGED <<list, card, task, label, tags, odd>>
  BY DEF DropMemberships
<1>4. \A c \in Card : Only(c)  BY <1>3, OnlySame
<1>5. /\ CarriesOn(p) /\ Others(p) /\ Target(p)' = Target(p)
      /\ Step(p)' = {"tags"} /\ plan'[p].cards = plan[p].cards
      /\ \A c \in plan[p].cards : ~Stained(c)' => ~Stained(c) /\
            \A q \in Proc \ {p} : Carrying(q)' => c \notin plan'[q].cards
  BY <1>1, <1>2, <1>3, WentStripped
<1>6. \A c \in plan[p].cards : Members(p, "membership", c)'
  BY <1>3, <1>5 DEF Members, Strangers
<1>7. \A c \in plan[p].cards : ~Stained(c) => Members(p, "subscription", c)
  BY <1>1, <1>2 DEF AllStripped, Stripped, At
<1>8. \A c \in plan[p].cards : ~Stained(c) => Members(p, "subscription", c)'
  BY <1>3, <1>5, <1>7 DEF Members
<1>9. Stripped(p)'  BY <1>5, <1>6, <1>8 DEF Stripped, At
<1> QED  BY <1>3, <1>4, <1>5, <1>9, QuietStep DEF KeptLabels, Cards

LEMMA DropTagsClean ==
    ASSUME Base, AllClean, AllStripped, NEW p \in Proc, DropTags(p)
    PROVE  AllClean' /\ AllStripped'
<1>1. Went(p, "assignees", plan[p].cards, plan[p].names) /\ At(p, "tags")
  BY DropTagsEffect DEF Base, DropTags
<1>2. Carrying(p)  BY <1>1, CarryingNow DEF Base
<1>3. tags' = {x \in tags : x[1] \notin plan[p].cards} /\ UNCHANGED <<list, card, task, label, people, odd>>
  BY DEF DropTags
<1>4. \A c \in Card : Only(c)  BY <1>3, OnlySame
<1>5. /\ CarriesOn(p) /\ Others(p) /\ Target(p)' = Target(p)
      /\ Step(p)' = {"assignees"} /\ plan'[p].cards = plan[p].cards
      /\ \A c \in plan[p].cards : ~Stained(c)' => ~Stained(c) /\
            \A q \in Proc \ {p} : Carrying(q)' => c \notin plan'[q].cards
  BY <1>1, <1>2, <1>3, WentStripped
<1>6. \A c \in plan[p].cards : \A x \in tags' : x[1] # c  BY <1>3
<1>7. \A c \in plan[p].cards : ~Stained(c) => Members(p, "subscription", c) /\ Members(p, "membership", c)
  BY <1>1, <1>2 DEF AllStripped, Stripped, At
<1>8. \A c \in plan[p].cards : ~Stained(c) => Members(p, "subscription", c)' /\ Members(p, "membership", c)'
  BY <1>3, <1>5, <1>7 DEF Members
<1>9. Stripped(p)'  BY <1>5, <1>6, <1>8 DEF Stripped, At
<1> QED  BY <1>3, <1>4, <1>5, <1>9, QuietStep DEF KeptLabels, Cards

LEMMA DropAssigneesClean ==
    ASSUME Base, AllClean, AllStripped, NEW p \in Proc, DropAssignees(p)
    PROVE  AllClean' /\ AllStripped'
<1>1. Went(p, "write", plan[p].cards, plan[p].names) /\ At(p, "assignees")
  BY DropAssigneesEffect DEF Base, DropAssignees
<1>2. Carrying(p)  BY <1>1, CarryingNow DEF Base
<1>3. UNCHANGED <<list, card, label, tags, people, odd>>
      /\ \A t \in Task : /\ task'[t].card = task[t].card
                         /\ task'[t].assignee =
                              IF t \in TasksOf(plan[p].cards) /\ task[t].assignee \notin MembersOf[Target(p)]
                                THEN None ELSE task[t].assignee
  BY DropAssigneesEffect DEF DropAssignees, Base
<1>4. \A c \in Card : Only(c)  BY <1>3, OnlySame
<1>5. /\ CarriesOn(p) /\ Others(p) /\ Target(p)' = Target(p)
      /\ Step(p)' = {"write"} /\ plan'[p].cards = plan[p].cards
      /\ \A c \in plan[p].cards : ~Stained(c)' => ~Stained(c) /\
            \A q \in Proc \ {p} : Carrying(q)' => c \notin plan'[q].cards
  BY <1>1, <1>2, <1>3, WentStripped
<1>6. \A c \in plan[p].cards : \A t \in TasksOf({c})' : task'[t].assignee \in MembersOf[Target(p)'] \cup {None}
  BY <1>3, <1>5 DEF TasksOf, Tasks
<1>7. \A c \in plan[p].cards : ~Stained(c) =>
         /\ Members(p, "subscription", c) /\ Members(p, "membership", c)
         /\ \A x \in tags : x[1] # c
  BY <1>1, <1>2 DEF AllStripped, Stripped, At
<1>8. \A c \in plan[p].cards : ~Stained(c) =>
         /\ Members(p, "subscription", c)' /\ Members(p, "membership", c)'
         /\ \A x \in tags' : x[1] # c
  BY <1>3, <1>5, <1>7 DEF Members
<1>9. Stripped(p)'  BY <1>5, <1>6, <1>8 DEF Stripped, At
<1> QED  BY <1>3, <1>4, <1>5, <1>9, QuietStep DEF KeptLabels, Cards

\* Cards that change boards have been stripped for the board they go to.
LEMMA WrittenClean ==
    ASSUME Base, AllStripped, NEW p \in Proc, At(p, "write"), Carrying(p), odd \subseteq odd',
           UNCHANGED <<label, tags, people>>,
           \A t \in Task : task'[t].card = task[t].card /\ task'[t].assignee = task[t].assignee,
           NEW c \in plan[p].cards, card'[c].board = Target(p)
    PROVE  Clean(c)'
<1> SUFFICES ASSUME ~Stained(c)'
             PROVE  /\ \A x \in tags' : x[1] = c => label'[x[2]].board = card'[c].board
                    /\ \A x \in people' : x[2] = c => x[3] \in MembersOf[card'[c].board]
                    /\ \A t \in TasksOf({c})' : task'[t].assignee \in MembersOf[card'[c].board] \cup {None}
  BY DEF Clean, Sound, Stained
<1>1. ~Stained(c)  BY DEF Stained
<1>2. /\ Members(p, "subscription", c) /\ Members(p, "membership", c)
      /\ \A x \in tags : x[1] # c
      /\ \A t \in TasksOf({c}) : task[t].assignee \in MembersOf[Target(p)] \cup {None}
  BY <1>1 DEF AllStripped, Stripped, At
<1>3. \A x \in people : x[1] \in {"subscription", "membership"}  BY DEF Base, TypeOK, RowsTypeOK
<1>4. \A x \in people : x[2] = c => x[3] \in MembersOf[Target(p)]  BY <1>2, <1>3 DEF Members
<1>5. \A t \in TasksOf({c})' : t \in TasksOf({c}) /\ task'[t].assignee = task[t].assignee  BY DEF TasksOf, Tasks
<1> QED  BY <1>2, <1>4, <1>5

LEMMA RelabelStripped ==
    ASSUME Base, AllStripped, NEW p \in Proc, At(p, "write"), Carrying(p), odd \subseteq odd', tags' = tags,
           Went(p, "relabel", plan[p].cards, plan[p].names)
    PROVE  Stripped(p)' /\ CarriesOn(p) /\ Others(p)
<1>1. /\ CarriesOn(p) /\ Others(p) /\ Step(p)' = {"relabel"} /\ plan'[p].cards = plan[p].cards
      /\ \A c \in plan[p].cards : ~Stained(c)' => ~Stained(c) /\
            \A q \in Proc \ {p} : Carrying(q)' => c \notin plan'[q].cards
  BY WentStripped
<1>2. \A c \in plan[p].cards : ~Stained(c) => \A x \in tags : x[1] # c
  BY DEF AllStripped, Stripped, At
<1> QED  BY <1>1, <1>2 DEF Stripped, At

LEMMA OthersQuiet ==
    ASSUME Base, AllStripped, NEW p \in Proc, Others(p), odd \subseteq odd', CarriesOn(p), Stripped(p)',
           \A c \in Card : Only(c)
    PROVE  AllStripped'
<1>1. ASSUME NEW q \in Proc \ {p} PROVE Stripped(q)'
  <2>1. \A c \in plan[q].cards : Carrying(q) => c \in Card
    <3>1. Carrying(q) => plan[q] \in Plan  BY DEF Carrying, Busy, Base, TypeOK
    <3> QED  BY <3>1, PlanFields
  <2>2. \A c : ~Stained(c)' => ~Stained(c)  BY DEF Stained
  <2> QED  BY <2>1, <2>2, NobodyElse, OthersStripped
<1> QED  BY <1>1 DEF AllStripped

LEMMA WriteCardClean ==
    ASSUME Base, AllClean, AllStripped, NEW p \in Proc, WriteCard(p)
    PROVE  AllClean' /\ AllStripped'
<1>1. /\ Busy(p) /\ At(p, "write") /\ plan[p].op = "card" /\ plan[p].cross \in BOOLEAN
      /\ UNCHANGED <<list, label, tags, people>> /\ plan[p] \in Plan
  BY WriteCardEffect DEF Base, TypeOK, Busy
<1>2. PICK c \in Cards : plan[p].cards = {c} /\ CardWritten(p, c)  BY WriteCardEffect DEF Base
<1>3. c \in Card /\ odd \subseteq odd' /\ \A k \in Card \ {c} : card'[k] = card[k]  BY <1>2, Sets DEF CardWritten
<1>4. ClosedBy(p, c) \in BOOLEAN  BY <1>1, <1>3, SnapFields DEF ClosedBy, Closed
<1>5. \A t \in Task : task'[t].card = task[t].card /\ task'[t].assignee = task[t].assignee
  BY <1>2, <1>4, FollowFields DEF CardWritten, Base
<1>6. \A k \in Card : Only(k)  BY <1>1, <1>5, OnlySame
<1>7. \A k \in Card \ {c} : Clean(k)'  BY <1>1, <1>3, <1>6, CleanKept DEF AllClean, KeptLabels, Cards
<1>8. CASE plan[p].cross
  <2>1. Carrying(p)
    <3>1. "write" # "labels"  OBVIOUS
    <3> QED  BY <1>1, <1>8, <3>1, CarryingAt DEF Base
  <2>2. Went(p, "relabel", plan[p].cards, plan[p].names) /\ card'[c].board = Target(p)
    BY <1>2, <1>8 DEF CardWritten
  <2>3. Clean(c)'  BY <1>1, <1>2, <1>3, <1>5, <2>1, <2>2, WrittenClean
  <2>4. AllStripped'  BY <1>1, <1>3, <1>6, <2>1, <2>2, RelabelStripped, OthersQuiet
  <2> QED  BY <1>7, <2>3, <2>4 DEF AllClean
<1>9. CASE ~plan[p].cross
  <2>1. Ended(p) /\ card'[c].board = card[c].board  BY <1>2, <1>9 DEF CardWritten
  <2>2. Clean(c)'  BY <1>1, <1>2, <1>3, <1>6, <2>1, CleanKept DEF AllClean, KeptLabels
  <2>3. AllStripped'  BY <1>3, <1>6, <2>1, EndedStripped, OthersQuiet
  <2> QED  BY <1>7, <2>2, <2>3 DEF AllClean
<1> QED  BY <1>1, <1>8, <1>9

LEMMA WriteListClean ==
    ASSUME Base, AllFit, AllClean, AllStripped, NEW p \in Proc, WriteList(p)
    PROVE  AllClean' /\ AllStripped'
<1>1. /\ Busy(p) /\ At(p, "write") /\ plan[p].op = "list" /\ plan[p].cross \in BOOLEAN
      /\ ListWritten(p) \/ ListGone(p)
      /\ UNCHANGED <<label, tags, people>> /\ plan[p] \in Plan
  BY WriteListEffect DEF Base, TypeOK, Busy
<1>2. odd \subseteq odd'  BY <1>1 DEF ListWritten, ListGone
<1>3. CASE ListGone(p)
  <2>1. UNCHANGED <<card, task>> /\ Ended(p)  BY <1>3 DEF ListGone
  <2>2. \A c \in Card : Only(c)  BY <1>1, <2>1, OnlySame
  <2> QED  BY <1>1, <1>2, <2>1, <2>2, EndedStripped, QuietStep DEF KeptLabels, Cards
<1>4. CASE ListWritten(p)
  <2> DEFINE l == plan[p].from
             S == CardsIn(l)
             board == IF plan[p].cross THEN plan[p].to.board ELSE list[l].board
  <2>1. S \subseteq Cards /\ S \subseteq Card  BY Sets DEF CardsIn
  <2>2. /\ \A c \in Card \ S : card'[c] = card[c]
        /\ \A c \in S : card'[c].board = IF list[l].board # board THEN board ELSE card[c].board
    BY <1>4 DEF ListWritten
  <2>3. \A t \in Task : task'[t].card = task[t].card /\ task'[t].assignee = task[t].assignee
    <3>1. PICK closed \in BOOLEAN : task' = Follow(S, closed) \/ task' = task  BY <1>4 DEF ListWritten
    <3> HIDE DEF S
    <3> QED  BY <3>1, FollowFields DEF Base
  <2>4. \A c \in Card : Only(c)  BY <1>1, <2>3, OnlySame
  <2>5. \A c \in Card \ S : Clean(c)'
    BY <1>1, <1>2, <2>2, <2>4, CleanKept DEF AllClean, KeptLabels, Cards
  <2>6. CASE plan[p].cross
    <3>1. Carrying(p)
      <4>1. "write" # "labels"  OBVIOUS
      <4> QED  BY <1>1, <2>6, <4>1, CarryingAt DEF Base
    <3>2. Went(p, "relabel", plan[p].cards, plan[p].names)  BY <1>4, <2>6 DEF ListWritten
    <3>3. odd' = odd \cup (Record((S \ plan[p].cards) \cup (plan[p].cards \ S), "stale")
                 \cup (IF list[l] # plan[p].list[l] THEN Record(S, "stale") ELSE {}))
      BY <1>4, <2>6 DEF ListWritten
    <3>4. ASSUME NEW c \in S PROVE Clean(c)'
      <4>1. CASE Stained(c)'  BY <4>1 DEF Clean, Sound, Stained
      <4>2. CASE ~Stained(c)'
        <5>1. c \in plan[p].cards
          <6>1. c \notin plan[p].cards => c \in (S \ plan[p].cards) \cup (plan[p].cards \ S)  OBVIOUS
          <6> HIDE DEF S
          <6> QED  BY <3>3, <4>2, <6>1, Recorded DEF Stained
        <5>2. ~Stained(c)  BY <1>2, <4>2 DEF Stained
        <5>3. FitsIn(c, l)  BY <2>1, <5>2 DEF AllFit, Fits, Sound, Stained, CardsIn
        <5>4. card'[c].board = Target(p)  BY <1>1, <2>2, <2>6, <5>3 DEF FitsIn, StateOfList, Target
        <5> QED  BY <1>1, <1>2, <2>3, <3>1, <5>1, <5>4, WrittenClean
      <4> QED  BY <4>1, <4>2
    <3>5. AllStripped'  BY <1>1, <1>2, <2>4, <3>1, <3>2, RelabelStripped, OthersQuiet
    <3> QED  BY <2>5, <3>4, <3>5 DEF AllClean
  <2>7. CASE ~plan[p].cross
    <3>1. Ended(p)  BY <1>4, <2>7 DEF ListWritten
    <3>2. \A c \in S : card'[c].board = card[c].board  BY <2>2, <2>7
    <3>3. \A c \in S : Clean(c)'
      BY <1>1, <1>2, <2>1, <2>4, <3>2, CleanKept DEF AllClean, KeptLabels
    <3>4. AllStripped'  BY <1>2, <2>4, <3>1, EndedStripped, OthersQuiet
    <3> QED  BY <2>5, <3>3, <3>4 DEF AllClean
  <2> QED  BY <1>1, <2>6, <2>7
<1> QED  BY <1>1, <1>3, <1>4

LEMMA RelabelClean ==
    ASSUME Base, AllClean, AllStripped, NEW p \in Proc, NEW s \in {"label", "tag", "write"}, NEW N,
           \E r \in {"relabel", "label"} : At(p, r),
           s = "write" => plan[p].op = "copy",
           Went(p, s, plan[p].cards, N), KeptLabels, UNCHANGED <<list, card, task, tags, people, odd>>
    PROVE  AllClean' /\ AllStripped'
<1>1. \A c \in Card : Only(c)  BY OnlySame
<1>2. Others(p)  BY DEF Went
<1>3. PICK r \in {"relabel", "label"} : At(p, r)  OBVIOUS
<1>4. CASE Carrying(p)
  <2>1. s # "write"  BY <1>4 DEF Carrying
  <2>2. /\ CarriesOn(p) /\ Step(p)' = {s} /\ plan'[p].cards = plan[p].cards
        /\ \A c \in plan[p].cards : ~Stained(c)' => ~Stained(c) /\
              \A q \in Proc \ {p} : Carrying(q)' => c \notin plan'[q].cards
    BY <1>4, WentStripped
  <2>3. \A c \in plan[p].cards : ~Stained(c) => \A x \in tags : x[1] # c
    BY <1>3, <1>4 DEF AllStripped, Stripped, At
  <2>4. Stripped(p)'  BY <2>1, <2>2, <2>3 DEF Stripped, At
  <2> QED  BY <1>1, <1>2, <2>2, <2>4, QuietStep DEF Cards
<1>5. CASE ~Carrying(p)
  <2>1. ~(plan[p].op \in {"card", "list"} /\ plan[p].cross)
    <3>1. r # "labels"  OBVIOUS
    <3> QED  BY <1>3, <1>5, <3>1, CarryingAt DEF Base
  <2>2. ~Carrying(p)'  BY <2>1 DEF Went, Same, Carrying
  <2> QED  BY <1>1, <1>2, <2>2, QuietStep DEF CarriesOn, Stripped, Cards
<1> QED  BY <1>4, <1>5

LEMMA ReadTargetLabelsClean ==
    ASSUME Base, AllClean, AllStripped, NEW p \in Proc, ReadTargetLabels(p)
    PROVE  AllClean' /\ AllStripped'
<1>1. PICK N : Went(p, "label", plan[p].cards, N)  BY ReadTargetLabelsEffect DEF Base
<1>2. At(p, "relabel") /\ UNCHANGED <<list, card, task, label, tags, people, odd>>  BY DEF ReadTargetLabels, rows
<1> QED  BY <1>1, <1>2, RelabelClean DEF KeptLabels

LEMMA CreateLabelsClean ==
    ASSUME Base, AllClean, AllStripped, NEW p \in Proc, CreateLabels(p)
    PROVE  AllClean' /\ AllStripped'
<1>1. PICK N : Went(p, IF plan[p].op = "copy" THEN "write" ELSE "tag", plan[p].cards, N)
  BY CreateLabelsEffect DEF Base
<1>2. KeptLabels /\ UNCHANGED <<list, card, task, tags, people, odd>>  BY CreateLabelsEffect DEF KeptLabels, Base
<1>3. At(p, "label")  BY DEF CreateLabels
<1>4. PICK s \in {"tag", "write"} : s = (IF plan[p].op = "copy" THEN "write" ELSE "tag")  OBVIOUS
<1> QED  BY <1>1, <1>2, <1>3, <1>4, RelabelClean

\* The labels a request puts back were wanted for the cards it carries.
LEMMA TagClean ==
    ASSUME Base, AllClean, AllStripped, NEW p \in Proc, Tag(p)
    PROVE  AllClean' /\ AllStripped'
<1> DEFINE astray == {x.card : x \in {y \in plan[p].names : label[y.label].board # card[y.card].board}}
<1>1. Ended(p) /\ At(p, "tag") /\ UNCHANGED <<list, card, task, label, people>>  BY TagEffect DEF Tag, Base
<1>2. /\ tags' \subseteq tags \cup {<<x.card, x.label>> : x \in plan[p].names}
      /\ odd \subseteq odd' /\ Record(astray, "stale") \subseteq odd'
  BY TagEffect DEF Base
<1>3. Carrying(p)  BY <1>1, CarryingNow DEF Base
<1>4. \A x \in plan[p].names : x.card \in plan[p].cards  BY <1>3 DEF Base, PlansOK, Labelled, Carrying
<1>5. \A c \in Card : c \notin plan[p].cards => Only(c)
  <2>1. \A c \in Card : \A x \in tags' : c \notin plan[p].cards /\ x[1] = c => x \in tags  BY <1>2, <1>4
  <2> QED  BY <1>1, <2>1 DEF Only, TasksOf, Tasks
<1>6. ASSUME NEW q \in Proc \ {p} PROVE Stripped(q)'
  <2> SUFFICES ASSUME NEW c \in plan[q].cards, Carrying(q), ~Stained(c)'
               PROVE  Only(c) /\ (Carrying(p)' => c \notin plan'[p].cards)
    BY <1>1, <1>2, EndedStripped, OthersStripped
  <2>1. c \in Card
    <3>1. plan[q] \in Plan  BY DEF Carrying, Busy, Base, TypeOK
    <3> QED  BY <3>1, PlanFields
  <2>2. ~Stained(c)  BY <1>2 DEF Stained
  <2>3. c \notin plan[p].cards  BY <1>3, <2>2 DEF AllStripped, Stripped
  <2>4. ~Carrying(p)'  BY <1>1 DEF Ended, Carrying, Busy
  <2> QED  BY <1>5, <2>1, <2>3, <2>4
<1>7. AllStripped'  BY <1>1, <1>6, EndedStripped DEF AllStripped
<1>8. ASSUME NEW c \in Card PROVE Clean(c)'
  <2> SUFFICES ASSUME Sound(c, {"stale"})'
               PROVE  /\ \A x \in tags' : x[1] = c => label[x[2]].board = card[c].board
                      /\ \A x \in people : x[2] = c => x[3] \in MembersOf[card[c].board]
                      /\ \A t \in TasksOf({c}) : task[t].assignee \in MembersOf[card[c].board] \cup {None}
    BY <1>1 DEF Clean, TasksOf, Tasks
  <2>1. Sound(c, {"stale"})  BY <1>1, <1>2 DEF Sound, Cards
  <2>2. /\ \A x \in tags : x[1] = c => label[x[2]].board = card[c].board
        /\ \A x \in people : x[2] = c => x[3] \in MembersOf[card[c].board]
        /\ \A t \in TasksOf({c}) : task[t].assignee \in MembersOf[card[c].board] \cup {None}
    BY <2>1 DEF AllClean, Clean
  <2>3. ASSUME NEW x \in plan[p].names, x.card = c PROVE label[x.label].board = card[c].board
    <3> SUFFICES ASSUME label[x.label].board # card[x.card].board PROVE FALSE
      BY <2>3
    <3>1. c \in astray  BY <2>3
    <3> HIDE DEF astray
    <3>2. <<"stale", c>> \in odd'  BY <1>2, <3>1, Recorded
    <3> QED  BY <3>2 DEF Sound
  <2>4. \A x \in tags' : x \in tags \/ \E y \in plan[p].names : x = <<y.card, y.label>>  BY <1>2
  <2> QED  BY <2>2, <2>3, <2>4
<1> QED  BY <1>7, <1>8 DEF AllClean

\* Others that carry a card to another board see what is put on it meanwhile.
LEMMA CopyMovesSeen ==
    ASSUME NEW p \in Proc, CopyMoves(p) \subseteq odd', NEW c, c = plan[p].copy, ~Stained(c)'
    PROVE  /\ card[c].board = CopyBoard(p)
           /\ \A q \in Proc \ {p} : Carrying(q) => c \notin plan[q].cards
<1> SUFFICES ASSUME card[c].board # CopyBoard(p) \/ \E q \in Proc \ {p} : Carrying(q) /\ c \in plan[q].cards
             PROVE  FALSE
  OBVIOUS
<1>1. card[c].board # CopyBoard(p) \/ Carried(p, {c})  BY DEF Carried, Carrying, Busy
<1>2. Record({c}, "stale") \subseteq odd'  BY <1>1 DEF CopyMoves
<1> QED  BY <1>2, RecordedOne DEF Stained

\* What a copy is given is seen by those who carry it and is fit for its board.
LEMMA CopyFilled ==
    ASSUME Base, AllClean, AllStripped, NEW p \in Proc, Others(p), ~Carrying(p)', NEW c \in Card,
           c = plan[p].copy, CopyMoves(p) \subseteq odd', odd \subseteq odd', UNCHANGED <<card, label>>,
           \A k \in Card \ {c} : Only(k),
           ~Stained(c)' =>
              /\ \A x \in tags' : x[1] = c /\ x \notin tags => label[x[2]].board = CopyBoard(p)
              /\ \A x \in people' : x[2] = c /\ x \notin people => x[3] \in MembersOf[CopyBoard(p)]
              /\ \A t \in TasksOf({c})' :
                    \/ task'[t].assignee \in MembersOf[CopyBoard(p)] \cup {None}
                    \/ t \in TasksOf({c}) /\ task'[t].assignee = task[t].assignee
    PROVE  AllClean' /\ AllStripped'
<1>1. \A k \in Card \ {c} : Clean(k)'  BY CleanKept DEF AllClean, KeptLabels, Cards
<1>2. Clean(c)'
  <2> SUFFICES ASSUME Sound(c, {"stale"})'
               PROVE  /\ \A x \in tags' : x[1] = c => label[x[2]].board = card[c].board
                      /\ \A x \in people' : x[2] = c => x[3] \in MembersOf[card[c].board]
                      /\ \A t \in TasksOf({c})' : task'[t].assignee \in MembersOf[card[c].board] \cup {None}
    BY DEF Clean
  <2>1. Sound(c, {"stale"}) /\ ~Stained(c)'  BY DEF Sound, Cards, Stained
  <2>2. card[c].board = CopyBoard(p)  BY <2>1, CopyMovesSeen
  <2>3. /\ \A x \in tags : x[1] = c => label[x[2]].board = card[c].board
        /\ \A x \in people : x[2] = c => x[3] \in MembersOf[card[c].board]
        /\ \A t \in TasksOf({c}) : task[t].assignee \in MembersOf[card[c].board] \cup {None}
    BY <2>1 DEF AllClean, Clean
  <2> QED  BY <2>1, <2>2, <2>3
<1>3. ASSUME NEW q \in Proc \ {p} PROVE Stripped(q)'
  <2> SUFFICES ASSUME NEW k \in plan[q].cards, Carrying(q), ~Stained(k)'
               PROVE  Only(k)
    BY OthersStripped
  <2>1. k \in Card
    <3>1. plan[q] \in Plan  BY DEF Carrying, Busy, Base, TypeOK
    <3> QED  BY <3>1, PlanFields
  <2>2. k # c  BY CopyMovesSeen
  <2> QED  BY <2>1, <2>2
<1>4. Stripped(p)'  BY DEF Stripped
<1> QED  BY <1>1, <1>2, <1>3, <1>4 DEF AllClean, AllStripped

LEMMA CopyGoes ==
    ASSUME NEW p \in Proc, plan[p].op = "copy", NEW s, NEW C, NEW N, Went(p, s, C, N)
    PROVE  ~Carrying(p)' /\ Others(p)
BY DEF Went, Same, Carrying

LEMMA CopyMembersClean ==
    ASSUME Base, AllClean, AllStripped, NEW p \in Proc, CopyMembers(p)
    PROVE  AllClean' /\ AllStripped'
<1>1. /\ Busy(p) /\ plan[p].op = "copy" /\ Went(p, "copy tags", plan[p].cards, plan[p].names)
      /\ people \subseteq people' /\ odd' = odd \cup CopyMoves(p)
      /\ UNCHANGED <<list, card, task, label, tags>>
  BY CopyMembersEffect DEF Base
<1>2. PICK c \in Card : c = plan[p].copy
  <2>1. plan[p] \in Plan  BY <1>1 DEF Busy, Base, TypeOK
  <2> QED  BY <1>1, <2>1, PlanFields
<1>3. \A x \in people' \ people : x[2] = c /\ x[3] \in MembersOf[CopyBoard(p)]
  BY <1>2, CopyMembersEffect DEF Base
<1>4. \A k \in Card \ {c} : Only(k)  BY <1>1, <1>3 DEF Only, TasksOf, Tasks
<1>5. \A t \in TasksOf({c})' : t \in TasksOf({c}) /\ task'[t].assignee = task[t].assignee
  BY <1>1 DEF TasksOf, Tasks
<1>6. ~Carrying(p)' /\ Others(p)  BY <1>1, CopyGoes
<1> QED  BY <1>1, <1>2, <1>3, <1>4, <1>5, <1>6, CopyFilled

LEMMA CopyTagsClean ==
    ASSUME Base, AllClean, AllStripped, NEW p \in Proc, CopyTags(p)
    PROVE  AllClean' /\ AllStripped'
<1>1. /\ Busy(p) /\ plan[p].op = "copy"
      /\ Ended(p) \/ Went(p, "copy tasks", plan[p].cards, plan[p].names)
      /\ tags \subseteq tags' /\ odd \subseteq odd' /\ CopyMoves(p) \subseteq odd'
      /\ UNCHANGED <<list, card, task, label, people>>
  BY CopyTagsEffect DEF Base
<1>2. PICK c \in Card : c = plan[p].copy
  <2>1. plan[p] \in Plan  BY <1>1 DEF Busy, Base, TypeOK
  <2> QED  BY <1>1, <2>1, PlanFields
<1>3. \A x \in tags' \ tags : x[1] = c /\ (label[x[2]].board # CopyBoard(p) => Stained(c)')
  BY <1>2, CopyTagsEffect DEF Base, Stained
<1>4. \A k \in Card \ {c} : Only(k)  BY <1>1, <1>3 DEF Only, TasksOf, Tasks
<1>5. \A t \in TasksOf({c})' : t \in TasksOf({c}) /\ task'[t].assignee = task[t].assignee
  BY <1>1 DEF TasksOf, Tasks
<1>6. ~Carrying(p)' /\ Others(p)
  <2>1. CASE Ended(p)  BY <2>1 DEF Ended, Carrying, Busy
  <2>2. CASE Went(p, "copy tasks", plan[p].cards, plan[p].names)  BY <1>1, <2>2, CopyGoes
  <2> QED  BY <1>1, <2>1, <2>2
<1> QED  BY <1>1, <1>2, <1>3, <1>4, <1>5, <1>6, CopyFilled

LEMMA CopyTasksClean ==
    ASSUME Base, AllClean, AllStripped, NEW p \in Proc, CopyTasks(p)
    PROVE  AllClean' /\ AllStripped'
<1>1. /\ Busy(p) /\ plan[p].op = "copy" /\ Ended(p) /\ odd' = odd \cup CopyMoves(p)
      /\ UNCHANGED <<list, card, label, tags, people>>
  BY CopyTasksEffect DEF Base
<1>2. PICK c \in Card : c = plan[p].copy
  <2>1. plan[p] \in Plan  BY <1>1 DEF Busy, Base, TypeOK
  <2> QED  BY <1>1, <2>1, PlanFields
<1>3. \A s \in Task : task'[s] = task[s] \/
         /\ s \in SpareTasks /\ task'[s].card = c
         /\ task'[s].assignee \in MembersOf[CopyBoard(p)] \cup {None}
  BY <1>2, CopyTasksEffect DEF Base
<1>4. \A k \in Card \ {c} : Only(k)  BY <1>1, <1>3 DEF Only, TasksOf, Tasks
<1>5. \A t \in TasksOf({c})' : \/ task'[t].assignee \in MembersOf[CopyBoard(p)] \cup {None}
                               \/ t \in TasksOf({c}) /\ task'[t].assignee = task[t].assignee
  BY <1>1, <1>3 DEF TasksOf, Tasks
<1>6. ~Carrying(p)' /\ Others(p)  BY <1>1 DEF Ended, Carrying, Busy
<1> QED  BY <1>1, <1>2, <1>4, <1>5, <1>6, CopyFilled

\* A card that was not there has nothing on it.
LEMMA InsertClean ==
    ASSUME Base, AllClean, AllStripped, NEW p \in Proc, InsertCard(p) \/ InsertCopy(p)
    PROVE  AllClean' /\ AllStripped'
<1>1. odd \subseteq odd'  BY OddGrows DEF Statement
<1>2. At(p, "write") /\ plan[p].op \in {"create", "copy"}  BY DEF InsertCard, InsertCopy
<1>3. UNCHANGED <<list, task, label, tags, people>> /\ \A c \in Card \ {plan[p].copy} : card'[c] = card[c]
  BY InsertCardEffect, InsertCopyEffect DEF CopyWritten, Base
<1>4. ~Carrying(p)' /\ Others(p)
  <2>1. CASE InsertCard(p)
    <3>1. Ended(p)  BY <2>1, InsertCardEffect DEF Base
    <3> QED  BY <3>1 DEF Ended, Carrying, Busy
  <2>2. CASE InsertCopy(p)  BY <2>2, InsertCopyEffect, CopyGoes DEF Base
  <2> QED  BY <2>1, <2>2
<1>5. CarriesOn(p) /\ Stripped(p)'  BY <1>4 DEF CarriesOn, Stripped
<1>6. \A c \in Card : Only(c)  BY <1>3, OnlySame
<1>7. PICK new : new = plan[p].copy /\ new \notin Cards  BY <1>2, NotYet
<1>8. \A c \in Card \ {new} : Clean(c)'  BY <1>1, <1>3, <1>6, <1>7, CleanKept DEF AllClean, KeptLabels, Cards
<1>9. Clean(new)'
  <2>1. (\A x \in tags' : x[1] # new) /\ (\A x \in people' : x[2] # new) /\ TasksOf({new})' = {}
    BY <1>3, <1>7 DEF Base, RowsOK, TasksOf, Tasks
  <2> QED  BY <2>1 DEF Clean
<1>10. AllStripped'  BY <1>1, <1>4, <1>5, <1>6, OthersQuiet
<1> QED  BY <1>8, <1>9, <1>10 DEF AllClean

LEMMA InsertTaskClean ==
    ASSUME Base, AllClean, AllStripped, NEW p \in Proc, InsertTask(p)
    PROVE  AllClean' /\ AllStripped'
<1>1. Ended(p) /\ UNCHANGED <<list, card, label, tags, people>>  BY InsertTaskEffect DEF Base
<1>2. PICK t \in SpareTasks : (\A s \in Task \ {t} : task'[s] = task[s]) /\ task'[t].assignee = None
  BY InsertTaskEffect DEF Base
<1>3. \A c \in Card : Only(c)  BY <1>1, <1>2 DEF Only, TasksOf, Tasks
<1>4. odd \subseteq odd'  BY OddGrows DEF Statement
<1> QED  BY <1>1, <1>3, <1>4, EndedStripped, QuietStep DEF KeptLabels, Cards

LEMMA SweepClean ==
    ASSUME Base, AllClean, AllStripped, NEW p \in Proc, SweepCards(p) \/ DropList(p)
    PROVE  AllClean' /\ AllStripped'
<1>1. odd \subseteq odd' /\ UNCHANGED <<task, label, tags, people>>  BY DEF SweepCards, DropList
<1>2. \A c \in Card : Only(c)  BY <1>1, OnlySame
<1>3. \A c \in Card : c \in Cards' => c \in Cards /\ card'[c].board = card[c].board
  <2>1. CASE SweepCards(p)
    <3>1. CardsSwept(p)  BY <2>1, SweepCardsEffect DEF Base
    <3> QED  BY <3>1 DEF CardsSwept, CardsIn, Cards
  <2>2. CASE DropList(p)  BY <2>2 DEF DropList, Cards
  <2> QED  BY <2>1, <2>2
<1>4. ~Carrying(p)' /\ Others(p)
  <2>1. CASE SweepCards(p)
    <3>1. plan[p].op \in {"archive", "trash"} /\ (Ended(p) \/ Went(p, "drop", plan[p].cards, plan[p].names))
      BY <2>1, SweepCardsEffect DEF CardsSwept, Base
    <3> QED  BY <3>1 DEF Ended, Went, Same, Carrying, Busy
  <2>2. CASE DropList(p)  BY <2>2, DropListEffect DEF Base, Ended, Carrying, Busy
  <2> QED  BY <2>1, <2>2
<1>5. CarriesOn(p) /\ Stripped(p)'  BY <1>4 DEF CarriesOn, Stripped
<1> QED  BY <1>1, <1>2, <1>3, <1>4, <1>5, QuietStep DEF KeptLabels

LEMMA ReadCopyLabelsClean ==
    ASSUME Base, AllClean, AllStripped, NEW p \in Proc, ReadCopyLabels(p)
    PROVE  AllClean' /\ AllStripped'
<1>1. PICK N : Went(p, "relabel", plan[p].cards, N)  BY ReadCopyLabelsEffect DEF Base
<1>2. UNCHANGED <<list, card, task, label, tags, people, odd>> /\ plan[p].op = "copy"
  BY StageOps DEF ReadCopyLabels, rows, Base
<1>3. ~Carrying(p)' /\ Others(p)  BY <1>1, <1>2, CopyGoes
<1>4. \A c \in Card : Only(c)  BY <1>2, OnlySame
<1>5. CarriesOn(p) /\ Stripped(p)'  BY <1>3 DEF CarriesOn, Stripped
<1> QED  BY <1>2, <1>3, <1>4, <1>5, QuietStep DEF KeptLabels, Cards

LEMMA CleanStep ==
    ASSUME Base, AllFit, AllClean, AllStripped, NEW p \in Proc, Request(p) \/ Statement(p)
    PROVE  AllClean' /\ AllStripped'
<1>1. CASE Request(p)  BY <1>1, RequestClean
<1>2. CASE Statement(p)
  BY <1>2, ReadLabelsClean, DropSubscriptionsClean, DropMembershipsClean, DropTagsClean, DropAssigneesClean,
     WriteCardClean, WriteListClean, ReadTargetLabelsClean, CreateLabelsClean, TagClean, SweepClean,
     InsertClean, ReadCopyLabelsClean, CopyMembersClean, CopyTagsClean, CopyTasksClean, InsertTaskClean,
     Zenon DEF Statement
<1> QED  BY <1>1, <1>2

LEMMA CleanStutter ==
    AllClean /\ AllStripped /\ UNCHANGED vars => AllClean' /\ AllStripped'
<1> SUFFICES ASSUME AllClean, AllStripped, UNCHANGED vars PROVE AllClean' /\ AllStripped'
  OBVIOUS
<1>1. UNCHANGED <<list, card, task, label, tags, people, plan, odd>>  BY DEF vars, rows
<1>2. AllClean'  BY <1>1 DEF AllClean, Clean, Sound, Cards, TasksOf, Tasks
<1>3. \A p : /\ Carrying(p)' <=> Carrying(p)
              /\ Step(p)' = Step(p) /\ Target(p)' = Target(p) /\ (At(p, "write")' <=> At(p, "write"))
  BY <1>1 DEF Carrying, Busy, At, Step, Target
<1>4. \A c : (Stained(c)' <=> Stained(c)) /\ TasksOf({c})' = TasksOf({c})
  BY <1>1 DEF Stained, TasksOf, Tasks
<1>5. ASSUME NEW p, NEW table, NEW c, Members(p, table, c) PROVE Members(p, table, c)'
  <2>1. people' = people  BY <1>1
  <2>2. Target(p)' = Target(p)  BY <1>1 DEF Target
  <2> QED  BY <1>5, <2>1, <2>2, Zenon DEF Members
<1>6. ASSUME NEW p \in Proc PROVE Stripped(p)'
  <2>1. Stripped(p)  BY DEF AllStripped
  <2> QED  BY <1>1, <1>3, <1>4, <1>5, <2>1 DEF Stripped
<1>7. AllStripped'  BY <1>6 DEF AllStripped
<1> QED  BY <1>2, <1>7

LEMMA CleanInit == Init => AllClean /\ AllStripped
<1> SUFFICES ASSUME Init PROVE AllClean /\ AllStripped
  OBVIOUS
<1>1. card = Card0 /\ task = Task0 /\ label = Label0 /\ tags = Tags0 /\ people = People0 /\ plan = [p \in Proc |-> Idle]
  BY DEF Init
<1>2. AllStripped  BY <1>1 DEF AllStripped, Stripped, Carrying, Busy
<1>3. ASSUME NEW c \in Card PROVE Clean(c)
  <2>1. \A x \in tags : x[1] = c => label[x[2]].board = card[c].board  BY <1>1, StartAssumption
  <2>2. \A x \in people : x[2] = c => x[3] \in MembersOf[card[c].board]  BY <1>1, StartAssumption
  <2>3. ASSUME NEW t \in TasksOf({c}) PROVE task[t].assignee \in MembersOf[card[c].board] \cup {None}
    <3>1. t \in {k \in Task : Task0[k].card # None} /\ Task0[t].card = c  BY <1>1 DEF TasksOf, Tasks
    <3> QED  BY <1>1, <3>1, StartAssumption
  <2> QED  BY <2>1, <2>2, <2>3 DEF Clean
<1> QED  BY <1>2, <1>3 DEF AllClean

LEMMA CleanHolds == Spec => [](AllClean /\ AllStripped)
<1>1. Base /\ AllFit /\ AllClean /\ AllStripped /\ [Next]_vars => AllClean' /\ AllStripped'
  BY CleanStep, CleanStutter, Zenon DEF Next
<1> QED  BY <1>1, CleanInit, TypeCorrect, FitHolds, PTL DEF Spec

\* Once requests are over a card has labels of its own board only, and its
\* members, its subscribers and the assignees of its tasks are members of the
\* board, whatever moved with it (helpers/cards/update-one, duplicate-one,
\* helpers/lists/update-one), unless two requests carried it at a time, it
\* came into or left a list that moved after its cards were read, or it moved
\* while it was copied.
THEOREM NothingStrange == Spec => []NothingFromElsewhere
<1>1. AllClean => NothingFromElsewhere  BY DEF AllClean, Clean, NothingFromElsewhere
<1> QED  BY <1>1, CleanHolds, PTL

-----------------------------------------------------------------------------
(* Labels travel by name *)

\* The request on p carries the card after its step if and only if it did
\* before, with the same names, and leaves its labels' stages as it was.
StillCarries(p, c) ==
    /\ Carrying(p)' /\ c \in plan'[p].cards =>
          Carrying(p) /\ c \in plan[p].cards /\ NamesKept(p, c)' = NamesKept(p, c)
    /\ Carrying(p) /\ c \in plan[p].cards /\ ~Stained(c)' =>
          Carrying(p)' /\ c \in plan'[p].cards /\ (Step(p)' \subseteq Early => Step(p) \subseteq Early)

LEMMA OthersNames ==
    ASSUME NEW p \in Proc, Others(p), NEW q \in Proc \ {p}, NEW c
    PROVE  NamesKept(q, c)' = NamesKept(q, c)
<1>1. plan'[q] = plan[q]  BY DEF Others
<1> QED  BY <1>1 DEF NamesKept

LEMMA KeptNext ==
    ASSUME NEW c, NamesOn(c)' = NamesOn0(c) \/ (<<"refused", c>> \in odd' /\ NamesOn(c)' = {})
    PROVE  Kept(c, NamesOn(c))'
BY DEF Kept, NamesOn0

\* What was kept stays so, on the card or with the request.
LEMMA KeptStays ==
    ASSUME odd \subseteq odd', NEW c
    PROVE  /\ NamesOn(c)' = NamesOn(c) /\ Kept(c, NamesOn(c)) => Kept(c, NamesOn(c))'
           /\ \A q : NamesKept(q, c)' = NamesKept(q, c) /\ Kept(c, NamesKept(q, c)) => Kept(c, NamesKept(q, c))'
BY DEF Kept, NamesOn0

LEMMA TravelKept ==
    ASSUME NEW c \in Card, Travelling(c), odd \subseteq odd', NEW p \in Proc, Others(p),
           NamesOn(c)' = NamesOn(c), StillCarries(p, c)
    PROVE  Travelling(c)'
<1> SUFFICES ASSUME Card0[c].list # None, ~Stained(c)'
             PROVE  /\ \A q \in Proc : Carrying(q)' /\ c \in plan'[q].cards => Kept(c, NamesKept(q, c))'
                    /\ (\A q \in Proc : Carrying(q)' /\ c \in plan'[q].cards => Step(q)' \subseteq Early)
                          => Kept(c, NamesOn(c))'
  BY DEF Travelling
<1>1. ~Stained(c)  BY DEF Stained
<1>2. /\ \A q \in Proc : Carrying(q) /\ c \in plan[q].cards => Kept(c, NamesKept(q, c))
      /\ (\A q \in Proc : Carrying(q) /\ c \in plan[q].cards => Step(q) \subseteq Early)
            => Kept(c, NamesOn(c))
  BY <1>1 DEF Travelling
<1>3. ASSUME NEW q \in Proc, Carrying(q)', c \in plan'[q].cards PROVE Kept(c, NamesKept(q, c))'
  <2>1. CASE q = p  BY <1>2, <1>3, <2>1, KeptStays DEF StillCarries
  <2>2. CASE q # p  BY <1>2, <1>3, <2>2, CarryingSame, OthersNames, KeptStays
  <2> QED  BY <2>1, <2>2
<1>4. ASSUME \A q \in Proc : Carrying(q)' /\ c \in plan'[q].cards => Step(q)' \subseteq Early
      PROVE  \A q \in Proc : Carrying(q) /\ c \in plan[q].cards => Step(q) \subseteq Early
  <2> SUFFICES ASSUME NEW q \in Proc, Carrying(q), c \in plan[q].cards PROVE Step(q) \subseteq Early
    OBVIOUS
  <2>1. CASE q = p
    <3>1. Carrying(p)' /\ c \in plan'[p].cards /\ (Step(p)' \subseteq Early => Step(p) \subseteq Early)
      BY <2>1 DEF StillCarries
    <3> QED  BY <1>4, <2>1, <3>1
  <2>2. CASE q # p  BY <1>4, <2>2, CarryingSame
  <2> QED  BY <2>1, <2>2
<1>5. Kept(c, NamesOn(c)) => Kept(c, NamesOn(c))'  BY KeptStays
<1> QED  BY <1>2, <1>3, <1>4, <1>5

LEMMA NamesOnSame ==
    ASSUME Base, KeptLabels, NEW c, {y \in tags' : y[1] = c} = {y \in tags : y[1] = c}
    PROVE  NamesOn(c)' = NamesOn(c)
<1>1. \A x \in tags : label'[x[2]] = label[x[2]]  BY DEF Base, RowsOK, KeptLabels
<1>2. NamesOn(c)' = {label'[x[2]].name : x \in {y \in tags : y[1] = c}}  BY DEF NamesOn
<1> QED  BY <1>1, <1>2 DEF NamesOn

LEMMA SameKept ==
    ASSUME NEW p \in Proc, SameNames(plan[p].names, plan'[p].names), NEW c
    PROVE  NamesKept(p, c)' = NamesKept(p, c)
<1> DEFINE M == plan[p].names
           N == plan'[p].names
<1>1. NamesKept(p, c)' = {x.name : x \in {y \in N : y.card = c}}  BY DEF NamesKept
<1>2. NamesKept(p, c) = {x.name : x \in {y \in M : y.card = c}}  BY DEF NamesKept
<1>3. /\ \A x \in M : \E y \in N : y.card = x.card /\ y.name = x.name
      /\ \A y \in N : \E x \in M : x.card = y.card /\ x.name = y.name
  BY DEF SameNames
<1> HIDE DEF M, N
<1> QED  BY <1>1, <1>2, <1>3

\* A step of a request that carries no card, before or after it.
LEMMA NotCarrying ==
    ASSUME NEW p \in Proc, ~Carrying(p), ~Carrying(p)', NEW c
    PROVE  StillCarries(p, c)
BY DEF StillCarries

LEMMA TravelQuiet ==
    ASSUME Base, AllTravel, NEW p \in Proc, Others(p), odd \subseteq odd', KeptLabels, tags' = tags,
           \A c \in Card : StillCarries(p, c)
    PROVE  AllTravel'
BY NamesOnSame, TravelKept DEF AllTravel

LEMMA CarriesSame ==
    ASSUME NEW p \in Proc, Carrying(p), NEW s, NEW N, Went(p, s, plan[p].cards, N), s # "labels",
           SameNames(plan[p].names, N), s \in Early => Step(p) \subseteq Early
    PROVE  Others(p) /\ \A c \in Card : StillCarries(p, c)
<1>1. plan'[p].op = plan[p].op /\ plan'[p].cross = plan[p].cross /\ plan'[p].steps = {s}
      /\ plan'[p].cards = plan[p].cards /\ plan'[p].names = N /\ plan'[p] \in Plan /\ Others(p)
  BY DEF Went, Same
<1>2. plan'[p] # Idle  BY <1>1 DEF Idle
<1>3. Carrying(p)'  BY <1>1, <1>2 DEF Carrying, Busy, At, Step
<1>4. \A c : NamesKept(p, c)' = NamesKept(p, c)  BY <1>1, SameKept
<1>5. Step(p)' = {s}  BY <1>1 DEF Step
<1> QED  BY <1>1, <1>3, <1>4, <1>5 DEF StillCarries

LEMMA SameAsBefore == \A N : SameNames(N, N)
BY DEF SameNames

LEMMA RequestTravel ==
    ASSUME Base, AllTravel, NEW p \in Proc, Request(p)
    PROVE  AllTravel'
<1>1. PICK r : Fresh(r) /\ Began(p, r) /\ UNCHANGED <<rows, odd>>  BY RequestFresh DEF Base
<1>2. ~Carrying(p) /\ ~Carrying(p)' /\ Others(p)  BY <1>1 DEF Began, Fresh, Carrying, Busy, At, Step
<1>3. UNCHANGED <<label, tags, odd>>  BY <1>1 DEF rows
<1> QED  BY <1>2, <1>3, NotCarrying, TravelQuiet DEF KeptLabels

\* The names a request takes along are those on the card.
LEMMA ReadLabelsTravel ==
    ASSUME Base, AllStripped', AllTravel, NEW p \in Proc, ReadLabels(p)
    PROVE  AllTravel'
<1>1. Went(p, "subscriptions", CardsRead(p), NamesRead(p))  BY ReadLabelsEffect DEF Base
<1>2. UNCHANGED <<list, card, task, label, tags, people>> /\ odd \subseteq odd' /\ At(p, "labels")
  BY DEF ReadLabels, rows
<1>3. plan'[p].cards = CardsRead(p) /\ plan'[p].names = NamesRead(p) /\ Step(p)' = {"subscriptions"} /\ Others(p)
  BY <1>1 DEF Went, Step
<1>4. ~Carrying(p)  BY <1>2 DEF Carrying
<1>5. \A c \in Card : NamesOn(c)' = NamesOn(c)  BY <1>2, NamesOnSame DEF KeptLabels
<1>6. ASSUME NEW c \in Card, c \notin CardsRead(p) PROVE Travelling(c)'
  <2>1. StillCarries(p, c)  BY <1>3, <1>4, <1>6 DEF StillCarries
  <2> QED  BY <1>2, <1>3, <1>5, <2>1, TravelKept DEF AllTravel
<1>7. ASSUME NEW c \in Card, c \in CardsRead(p) PROVE Travelling(c)'
  <2> SUFFICES ASSUME Card0[c].list # None, ~Stained(c)'
               PROVE  /\ \A q \in Proc : Carrying(q)' /\ c \in plan'[q].cards => Kept(c, NamesKept(q, c))'
                      /\ Kept(c, NamesOn(c))'
    BY DEF Travelling
  <2>1. ~Stained(c)  BY <1>2 DEF Stained
  <2>2. Carrying(p)'
    <3>1. plan[p].op \in {"card", "list"} /\ plan[p].cross  BY <1>2, StageOps DEF Base
    <3>2. plan'[p].op = plan[p].op /\ plan'[p].cross = plan[p].cross /\ plan'[p].steps = {"subscriptions"}
          /\ plan'[p] \in Plan
      BY <1>1 DEF Went, Same
    <3>3. plan'[p] # Idle  BY <3>2 DEF Idle
    <3> QED  BY <3>1, <3>2, <3>3 DEF Carrying, Busy, At, Step
  <2>3. \A q \in Proc \ {p} : Carrying(q)' => c \notin plan'[q].cards
    BY <1>3, <1>7, <2>2 DEF AllStripped, Stripped
  <2>4. \A q \in Proc : Carrying(q) => c \notin plan[q].cards
    BY <1>4, <2>3, <1>3, CarryingSame
  <2>5. Kept(c, NamesOn(c))  BY <2>1, <2>4 DEF AllTravel, Travelling
  <2>6. NamesKept(p, c)' = NamesOn(c)
    <3>1. NamesKept(p, c)' = {x.name : x \in {y \in NamesRead(p) : y.card = c}}  BY <1>3 DEF NamesKept
    <3>2. \A x \in tags : LET w == Wanted(x[1], x[2]) IN w.card = x[1] /\ w.name = label[x[2]].name
      BY DEF Wanted
    <3>3. ASSUME NEW n \in {x.name : x \in {y \in NamesRead(p) : y.card = c}} PROVE n \in NamesOn(c)
      <4>1. PICK w \in NamesRead(p) : w.card = c /\ n = w.name  OBVIOUS
      <4>2. PICK x \in tags : w = Wanted(x[1], x[2])  BY <4>1 DEF NamesRead
      <4> QED  BY <3>2, <4>1, <4>2 DEF NamesOn
    <3>4. ASSUME NEW n \in NamesOn(c) PROVE n \in {x.name : x \in {y \in NamesRead(p) : y.card = c}}
      <4>1. PICK x \in tags : x[1] = c /\ n = label[x[2]].name  BY DEF NamesOn
      <4>2. Wanted(x[1], x[2]) \in NamesRead(p)  BY <1>7, <4>1 DEF NamesRead
      <4> QED  BY <3>2, <4>1, <4>2
    <3> QED  BY <3>1, <3>3, <3>4
  <2>7. Kept(c, NamesOn(c))'  BY <1>2, <1>5, <2>5, KeptStays
  <2>8. Kept(c, NamesKept(p, c))'  BY <1>5, <2>6, <2>7 DEF Kept, NamesOn0
  <2> QED  BY <2>3, <2>7, <2>8
<1> QED  BY <1>6, <1>7 DEF AllTravel

LEMMA DropTravel ==
    ASSUME Base, AllTravel, NEW p \in Proc, DropSubscriptions(p) \/ DropMemberships(p) \/ DropAssignees(p)
    PROVE  AllTravel'
<1>1. PICK s \in {"subscriptions", "memberships", "assignees"}, t \in {"memberships", "tags", "write"} :
         /\ At(p, s) /\ Went(p, t, plan[p].cards, plan[p].names)
         /\ s = "assignees" <=> t = "write"
  BY DropSubscriptionsEffect, DropMembershipsEffect, DropAssigneesEffect
     DEF Base, DropSubscriptions, DropMemberships, DropAssignees
<1>2. UNCHANGED <<label, tags, odd>>  BY DEF DropSubscriptions, DropMemberships, DropAssignees
<1>3. Carrying(p) /\ Step(p) = {s}  BY <1>1, CarryingNow, StageOf DEF Base
<1>4. t \in Early => Step(p) \subseteq Early  BY <1>1, <1>3 DEF Early
<1>5. t # "labels"  OBVIOUS
<1>6. Others(p) /\ \A c \in Card : StillCarries(p, c)  BY <1>1, <1>3, <1>4, <1>5, SameAsBefore, CarriesSame
<1> QED  BY <1>2, <1>6, TravelQuiet DEF KeptLabels

LEMMA DropTagsTravel ==
    ASSUME Base, AllTravel, NEW p \in Proc, DropTags(p)
    PROVE  AllTravel'
<1>1. Went(p, "assignees", plan[p].cards, plan[p].names) /\ At(p, "tags")
  BY DropTagsEffect DEF Base, DropTags
<1>2. tags' = {x \in tags : x[1] \notin plan[p].cards} /\ UNCHANGED <<label, odd>>  BY DEF DropTags
<1>3. Carrying(p)  BY <1>1, CarryingNow DEF Base
<1>4. "assignees" \notin Early /\ "assignees" # "labels"  BY DEF Early
<1>5. Others(p) /\ \A c \in Card : StillCarries(p, c)  BY <1>1, <1>3, <1>4, SameAsBefore, CarriesSame
<1>6. ASSUME NEW c \in Card, c \notin plan[p].cards PROVE Travelling(c)'
  <2>1. {y \in tags' : y[1] = c} = {y \in tags : y[1] = c}  BY <1>2, <1>6
  <2>2. NamesOn(c)' = NamesOn(c)  BY <1>2, <2>1, NamesOnSame DEF KeptLabels
  <2> QED  BY <1>2, <1>5, <2>2, TravelKept DEF AllTravel
<1>7. ASSUME NEW c \in Card, c \in plan[p].cards PROVE Travelling(c)'
  <2> SUFFICES ASSUME Card0[c].list # None, ~Stained(c)'
               PROVE  /\ \A q \in Proc : Carrying(q)' /\ c \in plan'[q].cards => Kept(c, NamesKept(q, c))'
                      /\ ~\A q \in Proc : Carrying(q)' /\ c \in plan'[q].cards => Step(q)' \subseteq Early
    BY DEF Travelling
  <2>1. ~Stained(c)  BY <1>2 DEF Stained
  <2>2. \A q \in Proc : Carrying(q) /\ c \in plan[q].cards => Kept(c, NamesKept(q, c))
    BY <2>1 DEF AllTravel, Travelling
  <2>3. ASSUME NEW q \in Proc, Carrying(q)', c \in plan'[q].cards PROVE Kept(c, NamesKept(q, c))'
    <3>1. CASE q = p  BY <1>5, <2>2, <2>3, <3>1, <1>2, KeptStays DEF StillCarries
    <3>2. CASE q # p  BY <1>5, <2>2, <2>3, <3>2, <1>2, CarryingSame, OthersNames, KeptStays
    <3> QED  BY <3>1, <3>2
  <2>4. Carrying(p)' /\ c \in plan'[p].cards  BY <1>3, <1>5, <1>7 DEF StillCarries
  <2>5. Step(p)' = {"assignees"}  BY <1>1 DEF Went, Step
  <2> QED  BY <1>4, <2>3, <2>4, <2>5
<1> QED  BY <1>6, <1>7 DEF AllTravel

LEMMA WriteTravel ==
    ASSUME Base, AllTravel, NEW p \in Proc, WriteCard(p) \/ WriteList(p)
    PROVE  AllTravel'
<1>1. At(p, "write") /\ UNCHANGED <<label, tags>>  BY DEF WriteCard, WriteList
<1>2. odd \subseteq odd'  BY OddGrows DEF Statement
<1>3. Busy(p) /\ plan[p].op \in {"card", "list"} /\ plan[p].cross \in BOOLEAN
  BY WriteCardEffect, WriteListEffect DEF Base
<1>4. Step(p) = {"write"}  BY <1>1, StageOf DEF Base
<1>5. Carrying(p) <=> plan[p].cross
  <2>1. "write" # "labels"  OBVIOUS
  <2> QED  BY <1>1, <1>3, <2>1, CarryingAt DEF Base
<1>6. CASE Went(p, "relabel", plan[p].cards, plan[p].names) /\ Carrying(p)
  <2>1. "relabel" \notin Early /\ "relabel" # "labels"  BY DEF Early
  <2>2. Others(p) /\ \A c \in Card : StillCarries(p, c)  BY <1>6, <2>1, SameAsBefore, CarriesSame
  <2> QED  BY <1>1, <1>2, <2>2, TravelQuiet DEF KeptLabels
<1>7. CASE Ended(p) /\ ~Carrying(p)
  <2>1. ~Carrying(p)' /\ Others(p)  BY <1>7 DEF Ended, Carrying, Busy
  <2> QED  BY <1>1, <1>2, <1>7, <2>1, NotCarrying, TravelQuiet DEF KeptLabels
<1>8. CASE ListGone(p)
  <2>1. ~Carrying(p)' /\ Others(p)  BY <1>8 DEF ListGone, Ended, Carrying, Busy
  <2>2. odd' = odd \cup Record(plan[p].cards, "stale")  BY <1>8 DEF ListGone
  <2>3. \A c \in plan[p].cards : Stained(c)'  BY <2>2, Recorded DEF Stained
  <2>4. \A c \in Card : StillCarries(p, c)  BY <2>1, <2>3 DEF StillCarries
  <2> QED  BY <1>1, <1>2, <2>1, <2>4, TravelQuiet DEF KeptLabels
<1>9. \/ Went(p, "relabel", plan[p].cards, plan[p].names) /\ Carrying(p)
      \/ Ended(p) /\ ~Carrying(p)
      \/ ListGone(p)
  BY <1>3, <1>5, WriteCardEffect, WriteListEffect DEF CardWritten, ListWritten, Base
<1> QED  BY <1>6, <1>7, <1>8, <1>9

LEMMA RelabelTravel ==
    ASSUME Base, AllTravel, NEW p \in Proc, ReadTargetLabels(p) \/ CreateLabels(p)
    PROVE  AllTravel'
<1>1. PICK r \in {"relabel", "label"} : At(p, r)  BY DEF ReadTargetLabels, CreateLabels
<1>2. KeptLabels /\ tags' = tags /\ odd' = odd
  BY CreateLabelsEffect DEF ReadTargetLabels, KeptLabels, Base, rows
<1>3. PICK s \in {"label", "tag", "write"} :
         \E N : Went(p, s, plan[p].cards, N) /\ SameNames(plan[p].names, N)
  <2>1. CASE ReadTargetLabels(p)  BY <2>1, ReadTargetLabelsEffect DEF Base
  <2>2. CASE CreateLabels(p)
    <3>1. PICK s \in {"tag", "write"} : s = (IF plan[p].op = "copy" THEN "write" ELSE "tag")  OBVIOUS
    <3> QED  BY <2>2, <3>1, CreateLabelsEffect DEF Base
  <2> QED  BY <2>1, <2>2
<1>4. CASE Carrying(p)
  <2>1. s \notin Early /\ s # "labels"  BY DEF Early
  <2>2. PICK N : Went(p, s, plan[p].cards, N) /\ SameNames(plan[p].names, N)  BY <1>3
  <2>3. Others(p) /\ \A c \in Card : StillCarries(p, c)  BY <1>4, <2>1, <2>2, CarriesSame
  <2> QED  BY <1>2, <2>3, TravelQuiet
<1>5. CASE ~Carrying(p)
  <2>1. ~(plan[p].op \in {"card", "list"} /\ plan[p].cross)
    <3>1. r # "labels"  OBVIOUS
    <3> QED  BY <1>1, <1>5, <3>1, CarryingAt DEF Base
  <2>2. ~Carrying(p)' /\ Others(p)  BY <1>3, <2>1 DEF Went, Same, Carrying
  <2> QED  BY <1>2, <1>5, <2>2, NotCarrying, TravelQuiet
<1> QED  BY <1>4, <1>5

\* The names are back on the card, or lost with the batch.
LEMMA TagTravel ==
    ASSUME Base, AllStripped, AllTravel, NEW p \in Proc, Tag(p)
    PROVE  AllTravel'
<1>1. Ended(p) /\ At(p, "tag") /\ UNCHANGED <<list, card, task, label, people>>  BY TagEffect DEF Tag, Base
<1>2. /\ \/ tags' = tags \cup {<<x.card, x.label>> : x \in plan[p].names}
         \/ tags' = tags /\ \A x \in plan[p].names : <<"refused", x.card>> \in odd'
      /\ odd \subseteq odd'
  BY TagEffect DEF Base
<1>3. Carrying(p) /\ Step(p) = {"tag"}  BY <1>1, CarryingNow, StageOf DEF Base
<1>4. \A x \in plan[p].names : x.card \in plan[p].cards /\ label[x.label].name = x.name
  BY <1>3, TagEffect DEF Base, PlansOK, Labelled, Carrying
<1>5. ~Carrying(p)' /\ Others(p)  BY <1>1 DEF Ended, Carrying, Busy
<1>6. ASSUME NEW c \in Card, c \notin plan[p].cards PROVE Travelling(c)'
  <2>1. {y \in tags' : y[1] = c} = {y \in tags : y[1] = c}
    <3>1. \A x \in plan[p].names : x.card # c  BY <1>4, <1>6
    <3> QED  BY <1>2, <3>1
  <2>2. NamesOn(c)' = NamesOn(c)  BY <1>1, <2>1, NamesOnSame DEF KeptLabels
  <2>3. StillCarries(p, c)  BY <1>5, <1>6 DEF StillCarries
  <2> QED  BY <1>2, <1>5, <2>2, <2>3, TravelKept DEF AllTravel
<1>7. ASSUME NEW c \in Card, c \in plan[p].cards PROVE Travelling(c)'
  <2> SUFFICES ASSUME Card0[c].list # None, ~Stained(c)'
               PROVE  /\ \A q \in Proc : Carrying(q)' => c \notin plan'[q].cards
                      /\ Kept(c, NamesOn(c))'
    BY DEF Travelling
  <2>1. ~Stained(c)  BY <1>2 DEF Stained
  <2>2. \A q \in Proc \ {p} : Carrying(q) => c \notin plan[q].cards
    BY <1>3, <1>7, <2>1 DEF AllStripped, Stripped
  <2>3. \A q \in Proc : Carrying(q)' => c \notin plan'[q].cards  BY <1>5, <2>2, CarryingSame
  <2>4. \A x \in tags : x[1] # c  BY <1>3, <1>7, <2>1 DEF AllStripped, Stripped
  <2>5. Kept(c, NamesKept(p, c))  BY <1>3, <1>7, <2>1 DEF AllTravel, Travelling
  <2>6. ASSUME tags' = tags \cup {<<x.card, x.label>> : x \in plan[p].names} PROVE NamesOn(c)' = NamesKept(p, c)
    <3>1. NamesOn(c)' = {label[x[2]].name : x \in {y \in tags' : y[1] = c}}  BY <1>1 DEF NamesOn
    <3>2. ASSUME NEW n \in {label[x[2]].name : x \in {y \in tags' : y[1] = c}} PROVE n \in NamesKept(p, c)
      <4>1. PICK x \in tags' : x[1] = c /\ n = label[x[2]].name  OBVIOUS
      <4>2. PICK y \in plan[p].names : x = <<y.card, y.label>>  BY <2>6, <2>4, <4>1
      <4>3. y.card = c /\ n = y.name  BY <1>4, <4>1, <4>2
      <4> QED  BY <4>3 DEF NamesKept
    <3>3. ASSUME NEW n \in NamesKept(p, c) PROVE n \in {label[x[2]].name : x \in {y \in tags' : y[1] = c}}
      <4>1. PICK y \in plan[p].names : y.card = c /\ n = y.name  BY DEF NamesKept
      <4>2. <<y.card, y.label>> \in tags' /\ n = label[y.label].name  BY <2>6, <1>4, <4>1
      <4> QED  BY <4>1, <4>2
    <3> QED  BY <3>1, <3>2, <3>3
  <2>7. CASE tags' = tags \cup {<<x.card, x.label>> : x \in plan[p].names}
    <3>1. NamesOn(c)' = NamesKept(p, c)  BY <2>6, <2>7
    <3>2. NamesKept(p, c) = NamesOn0(c) \/ (<<"refused", c>> \in odd' /\ NamesKept(p, c) = {})
      BY <1>2, <2>5 DEF Kept
    <3> QED  BY <2>3, <3>1, <3>2, KeptNext
  <2>8. CASE tags' = tags /\ \A x \in plan[p].names : <<"refused", x.card>> \in odd'
    <3>1. NamesOn(c)' = {}  BY <2>4, <2>8 DEF NamesOn
    <3>2. NamesKept(p, c) = {} \/ <<"refused", c>> \in odd'  BY <2>8 DEF NamesKept
    <3>3. {} = NamesOn0(c) \/ <<"refused", c>> \in odd'  BY <1>2, <2>5, <3>2 DEF Kept
    <3> QED  BY <2>3, <3>1, <3>3, KeptNext
  <2> QED  BY <1>2, <2>3, <2>7, <2>8
<1> QED  BY <1>6, <1>7 DEF AllTravel

LEMMA SweepTravel ==
    ASSUME Base, AllTravel, NEW p \in Proc,
           SweepCards(p) \/ DropList(p) \/ ReadCopyLabels(p) \/ InsertCard(p) \/ InsertCopy(p)
              \/ CopyMembers(p) \/ CopyTasks(p) \/ InsertTask(p)
    PROVE  AllTravel'
<1>1. UNCHANGED <<label, tags>>
  BY DEF SweepCards, DropList, ReadCopyLabels, InsertCard, InsertCopy, CopyMembers, CopyTasks, InsertTask, rows
<1>2. odd \subseteq odd'  BY OddGrows DEF Statement
<1>3. /\ plan[p].op \notin {"card", "list"}
      /\ Ended(p) \/ \E s, C, N : Went(p, s, C, N)
  <2>1. CASE SweepCards(p) \/ DropList(p)
    <3>1. \E s \in {"sweep", "drop"} : At(p, s)  BY <2>1 DEF SweepCards, DropList
    <3>2. plan[p].op \in {"archive", "trash"}  BY <3>1, StageOps DEF Base
    <3>3. Ended(p) \/ \E s, C, N : Went(p, s, C, N)
      BY <2>1, SweepCardsEffect, DropListEffect DEF CardsSwept, Base
    <3> QED  BY <3>2, <3>3
  <2>2. CASE ReadCopyLabels(p)
    <3>1. plan[p].op = "copy"  BY <2>2, StageOps DEF ReadCopyLabels, Base
    <3> QED  BY <2>2, <3>1, ReadCopyLabelsEffect DEF Base
  <2>3. CASE InsertCard(p) \/ InsertTask(p)  BY <2>3, InsertCardEffect, InsertTaskEffect DEF Base
  <2>4. CASE InsertCopy(p)  BY <2>4, InsertCopyEffect DEF Base
  <2>5. CASE CopyMembers(p)  BY <2>5, CopyMembersEffect DEF Base
  <2>6. CASE CopyTasks(p)  BY <2>6, CopyTasksEffect DEF Base
  <2> QED  BY <2>1, <2>2, <2>3, <2>4, <2>5, <2>6
<1>4. ~Carrying(p) /\ ~Carrying(p)' /\ Others(p)  BY <1>3 DEF Ended, Went, Same, Carrying, Busy
<1> QED  BY <1>1, <1>2, <1>4, NotCarrying, TravelQuiet DEF KeptLabels

LEMMA CopyTagsTravel ==
    ASSUME Base, AllTravel, NEW p \in Proc, CopyTags(p)
    PROVE  AllTravel'
<1>1. /\ plan[p].op = "copy"
      /\ Ended(p) \/ Went(p, "copy tasks", plan[p].cards, plan[p].names)
      /\ tags \subseteq tags' /\ odd \subseteq odd' /\ label' = label
      /\ \A x \in tags' \ tags : x[1] = plan[p].copy
  BY CopyTagsEffect DEF Base
<1>2. Card0[plan[p].copy].list = None
  <2>1. At(p, "copy tags")  BY DEF CopyTags
  <2> QED  BY <2>1, CopyPresent DEF Base
<1>3. ~Carrying(p) /\ ~Carrying(p)' /\ Others(p)  BY <1>1, CopyGoes DEF Carrying, Ended, Busy
<1>4. ASSUME NEW c \in Card PROVE Travelling(c)'
  <2>1. CASE Card0[c].list = None  BY <2>1 DEF Travelling
  <2>2. CASE Card0[c].list # None
    <3>1. {y \in tags' : y[1] = c} = {y \in tags : y[1] = c}  BY <1>1, <1>2, <2>2
    <3>2. NamesOn(c)' = NamesOn(c)  BY <1>1, <3>1, NamesOnSame DEF KeptLabels
    <3> QED  BY <1>1, <1>3, <3>2, NotCarrying, TravelKept DEF AllTravel
  <2> QED  BY <2>1, <2>2
<1> QED  BY <1>4 DEF AllTravel

LEMMA TravelStep ==
    ASSUME Base, AllStripped, AllStripped', AllTravel, NEW p \in Proc, Request(p) \/ Statement(p)
    PROVE  AllTravel'
<1>1. CASE Request(p)  BY <1>1, RequestTravel
<1>2. CASE Statement(p)
  BY <1>2, ReadLabelsTravel, DropTravel, DropTagsTravel, WriteTravel, RelabelTravel, TagTravel, SweepTravel,
     CopyTagsTravel, Zenon DEF Statement
<1> QED  BY <1>1, <1>2

LEMMA TravelStutter == AllTravel /\ UNCHANGED vars => AllTravel'
<1> SUFFICES ASSUME AllTravel, UNCHANGED vars PROVE AllTravel'
  OBVIOUS
<1>1. UNCHANGED <<label, tags, plan, odd>>  BY DEF vars, rows
<1>2. ASSUME NEW c \in Card PROVE Travelling(c)'
  <2>1. /\ Kept(c, NamesOn(c)) => Kept(c, NamesOn(c))'
        /\ \A p : Kept(c, NamesKept(p, c)) => Kept(c, NamesKept(p, c))'
    BY <1>1 DEF Kept, NamesOn, NamesOn0, NamesKept
  <2>2. Stained(c)' = Stained(c) /\ \A p : Carrying(p)' = Carrying(p) /\ Step(p)' = Step(p)
    BY <1>1 DEF Stained, Carrying, Busy, At, Step
  <2> QED  BY <1>1, <2>1, <2>2 DEF AllTravel, Travelling
<1> QED  BY <1>2 DEF AllTravel

LEMMA TravelInit == Init => AllTravel
<1> SUFFICES ASSUME Init PROVE AllTravel
  OBVIOUS
<1>1. label = Label0 /\ tags = Tags0 /\ plan = [p \in Proc |-> Idle]  BY DEF Init
<1>2. \A p \in Proc : ~Carrying(p)  BY <1>1 DEF Carrying, Busy
<1>3. \A c : NamesOn(c) = NamesOn0(c)  BY <1>1 DEF NamesOn, NamesOn0
<1> QED  BY <1>2, <1>3 DEF AllTravel, Travelling, Kept

\* A card keeps the names of its labels whatever boards it goes to, on its own
\* or with its list, or has lost all of them with a refused batch, unless two
\* requests carried it at a time: they are read before its labels are dropped
\* and found or made on the board it goes to (helpers/cards/update-one,
\* lists/update-one, labels of the same name).
THEOREM NamesTravel == Spec => []LabelsTravel
<1>1. Base /\ AllStripped /\ AllStripped' /\ AllTravel /\ [Next]_vars => AllTravel'
  BY TravelStep, TravelStutter, Zenon DEF Next
<1>2. AllTravel => LabelsTravel
  <2> SUFFICES ASSUME AllTravel, AtRest, NEW c \in Card, Card0[c].list # None, Sound(c, {"stale"})
               PROVE  Kept(c, NamesOn(c))
    BY DEF LabelsTravel, Kept
  <2>1. ~Stained(c)  BY DEF Sound, Stained
  <2>2. \A p \in Proc : ~Carrying(p)  BY DEF AtRest, Carrying, Busy
  <2> QED  BY <2>1, <2>2 DEF AllTravel, Travelling
<1> QED  BY <1>1, <1>2, TravelInit, TypeCorrect, CleanHolds, PTL DEF Spec
=============================================================================
