----------------------------- MODULE BoardMoves -----------------------------
(***************************************************************************)
(* Cards and lists of the PLANKA server as they move: between lists, to    *)
(* the archive and the trash and back, between boards, one by one or with  *)
(* their list; and the copies of cards.  A card carries columns that are   *)
(* to agree with the list it is in (board, closed or not, with or without  *)
(* a position, the list it came from), labels and members that are to be   *)
(* of its board, and tasks elsewhere that follow it.                       *)
(*                                                                         *)
(* A request loads records, then runs its statements one at a time.  A     *)
(* statement reads what it reads when it runs; the records loaded at the   *)
(* start are used to the end.                                              *)
(***************************************************************************)
EXTENDS Naturals, FiniteSets

CONSTANTS
    None,
    Proc,        \* connections
    Board, List, Card, Task, Label, User,
    MembersOf,   \* the members of every board
    List0, Card0, Task0, Label0, Tags0, People0,  \* the rows at the start
    MaxRequests  \* bound on the requests served

ASSUME BoardAssumption ==
    /\ MembersOf \in [Board -> SUBSET User]
    /\ \A S \in {Board, List, Card, Task, Label, User} : None \notin S /\ IsFiniteSet(S)
    /\ MaxRequests \in Nat

\* The rows at the start are well formed, refer to rows that are there, and
\* every card agrees with its list and board.
Kanban == {"active", "closed"}
Name == {Label0[l].name : l \in Label}
ListRow == [board : Board \cup {None}, type : Kanban \cup {"archive", "trash"}]
CardRow == [list : List \cup {None}, board : Board \cup {None}, prev : List \cup {None},
            closed : BOOLEAN, placed : BOOLEAN]
TaskRow == [card : Card \cup {None}, link : Card \cup {None}, done : BOOLEAN, assignee : User \cup {None}]
LabelRow == [board : Board \cup {None}, name : Name]

ASSUME RowsAssumption ==
    /\ List0 \in [List -> ListRow] /\ Card0 \in [Card -> CardRow]
    /\ Task0 \in [Task -> TaskRow] /\ Label0 \in [Label -> LabelRow]
    /\ Tags0 \subseteq Card \X Label
    /\ People0 \subseteq {"subscription", "membership"} \X Card \X User

ASSUME StartAssumption ==
    /\ \A c \in {k \in Card : Card0[k].list # None} :
          LET row == Card0[c]
              l == List0[row.list]
          IN  /\ l.board # None /\ row.board = l.board
              /\ l.type \in Kanban => row.closed = (l.type = "closed") /\ row.prev = None
              /\ row.placed <=> l.type \in Kanban
    /\ \A t \in {k \in Task : Task0[k].card # None} :
          LET row == Task0[t] IN
          /\ Card0[row.card].list # None
          /\ row.assignee \in MembersOf[Card0[row.card].board] \cup {None}
          /\ row.link # None => Card0[row.link].list # None /\ (Card0[row.link].closed => row.done)
    /\ \A x \in Tags0 : Card0[x[1]].list # None /\ Label0[x[2]].board = Card0[x[1]].board
    /\ \A x \in People0 : Card0[x[2]].list # None /\ x[3] \in MembersOf[Card0[x[2]].board]

VARIABLES
    list,     \* board and type of every list, board None: not there
    card,     \* list, board, previous list, closed, placed
    task,     \* card, linked card, completed, assignee
    label,    \* board and name
    tags,     \* <<card, label>>: CardLabel
    people,   \* <<table, card, user>>: CardSubscription and CardMembership
    plan,     \* what the request on each connection has still to do
    odd,      \* <<reason, card>>: cards written in a way no promise covers
    served

rows == <<list, card, task, label, tags, people>>
vars == <<rows, plan, odd, served>>

Lists == {l \in List : list[l].board # None}
Cards == {c \in Card : card[c].list # None}
Tasks == {t \in Task : task[t].card # None}
Labels == {l \in Label : label[l].board # None}

Finite(l) == list[l].type \in Kanban
CardsIn(l) == {c \in Cards : card[c].list = l}
TasksOf(S) == {t \in Tasks : task[t].card \in S}
Linked(S) == {t \in Tasks : task[t].link \in S}
LabelsOf(b) == {l \in Labels : label[l].board = b}
\* Mutant: any label of the board will do.
NamedAnyhow(b, n) == LabelsOf(b)

Named(b, n) == {l \in LabelsOf(b) : label[l].name = n}

Idle == [steps |-> {}]
Free(p) == plan[p] = Idle /\ served < MaxRequests

(***************************************************************************)
(* A request is a record: the cards it is about, their rows and the rows   *)
(* of the lists as loaded, what to write, and the next step.               *)
(***************************************************************************)

Start(p, r) ==
    /\ Free(p)
    /\ plan' = [plan EXCEPT ![p] = r]
    /\ served' = served + 1
    /\ UNCHANGED <<rows, odd>>

Step(p) == plan[p].steps
Goto(p, s) == plan' = [plan EXCEPT ![p].steps = {s}]
At(p, s) == s \in Step(p)
Done(p) == plan' = [plan EXCEPT ![p] = Idle]

\* Rows the request loaded that are not what they were.
Stale(p, S, L) ==
    \/ \E c \in S : card[c] # plan[p].card[c]
    \/ \E l \in L : list[l] # plan[p].list[l]

\* Others have read cards of S, which they carry to another board, and have
\* not finished with them.
Carried(p, S) == \E q \in Proc \ {p} :
    plan[q] # Idle /\ plan[q].op \in {"card", "list"} /\ plan[q].cross /\ ~At(q, "labels")
        /\ plan[q].cards \cap S # {}

Record(S, reason) == {<<reason, c>> : c \in S}

\* The columns of a card that follow from the list it goes to, given its row
\* and those of the lists.
Closed(row, to) ==
    IF to = "active" THEN FALSE ELSE IF to = "closed" THEN TRUE ELSE row.closed

\* Mutant: the previous list is forgotten only on another board.
PrevListKept(row, fromList, from, to, cross) ==
    IF cross THEN None
    ELSE IF to \in {"archive", "trash"} THEN fromList
    ELSE row.prev

PrevList(row, fromList, from, to, cross) ==
    IF cross \/ from = "trash" THEN None
    ELSE IF to \in {"archive", "trash"} THEN fromList
    ELSE IF from = "archive" THEN None
    ELSE row.prev

(***************************************************************************)
(* cards/update and lists/update: the controllers                          *)
(***************************************************************************)

\* A card goes to list l of any board of which the user is an editor, or
\* stays; position: "absent", "number" or "null".
UpdateCard(p) ==
    \E c \in Cards, l \in Lists, position \in {"absent", "number", "null"} :
        LET from == card[c].list
            cross == list[l].board # list[from].board
        IN  /\ from \in Lists
            /\ Finite(l) /\ l # from => position # "absent"
            /\ Start(p, [ op |-> "card", cards |-> {c}, card |-> card, list |-> list,
                          from |-> from, to |-> l, cross |-> cross, position |-> position,
                          names |-> {}, copy |-> None,
                          steps |-> {IF cross THEN "labels" ELSE "write"} ])

\* A kanban list changes its board, its type or both.
UpdateList(p) ==
    \E l \in Lists, b \in Board, type \in Kanban :
        /\ Finite(l)
        /\ Start(p, [ op |-> "list", cards |-> {}, card |-> card, list |-> list,
                      from |-> l, to |-> [board |-> b, type |-> type],
                      cross |-> b # list[l].board, names |-> {},
                      steps |-> {IF b # list[l].board THEN "labels" ELSE "write"} ])

(***************************************************************************)
(* What leaves a board with a card                                         *)
(***************************************************************************)

Target(p) == IF plan[p].op = "list" THEN plan[p].to.board ELSE plan[p].list[plan[p].to].board

\* The card had this label, and is to have one of its name; no row is known.
Wanted(c, l) == [card |-> c, was |-> l, name |-> label[l].name, label |-> None]

\* The cards of a list are those in it now; their labels are kept by name.
ReadLabels(p) ==
    /\ At(p, "labels")
    /\ LET S == IF plan[p].op = "list" THEN CardsIn(plan[p].from) ELSE plan[p].cards
       IN  /\ plan' = [plan EXCEPT ![p] = [plan[p] EXCEPT
              !.cards = S,
              !.names = {Wanted(x[1], x[2]) : x \in {y \in tags : y[1] \in S}},
              !.steps = {"subscriptions"}]]
           /\ odd' = odd \cup (IF Carried(p, S) THEN Record(S, "stale") ELSE {})
    /\ UNCHANGED <<rows, served>>

\* Mutant: the members of the old board are asked, not those of the new one.
StrangersOfOld(p, table) ==
    {x \in people : x[1] = table /\ x[2] \in plan[p].cards
                    /\ x[3] \notin MembersOf[plan[p].list[plan[p].from].board]}

Strangers(p, table) ==
    {x \in people : x[1] = table /\ x[2] \in plan[p].cards /\ x[3] \notin MembersOf[Target(p)]}

DropSubscriptions(p) ==
    /\ At(p, "subscriptions")
    /\ people' = people \ Strangers(p, "subscription")
    /\ Goto(p, "memberships")
    /\ UNCHANGED <<list, card, task, label, tags, odd, served>>

DropMemberships(p) ==
    /\ At(p, "memberships")
    /\ people' = people \ Strangers(p, "membership")
    /\ Goto(p, "tags")
    /\ UNCHANGED <<list, card, task, label, tags, odd, served>>

DropTags(p) ==
    /\ At(p, "tags")
    /\ tags' = {x \in tags : x[1] \notin plan[p].cards}
    /\ Goto(p, "assignees")
    /\ UNCHANGED <<list, card, task, label, people, odd, served>>

DropAssignees(p) ==
    /\ At(p, "assignees")
    /\ task' = [t \in Task |->
          IF t \in TasksOf(plan[p].cards) /\ task[t].assignee \notin MembersOf[Target(p)]
            THEN [task[t] EXCEPT !.assignee = None] ELSE task[t]]
    /\ Goto(p, "write")
    /\ UNCHANGED <<list, card, label, tags, people, odd, served>>

\* Mutant: the tasks on the card follow it instead of those linked to it.
FollowOwn(S, closed) == [t \in Task |-> IF t \in TasksOf(S) THEN [task[t] EXCEPT !.done = closed] ELSE task[t]]

\* The linked tasks of cards whose state is written follow it.
Follow(S, closed) == [t \in Task |-> IF t \in Linked(S) THEN [task[t] EXCEPT !.done = closed] ELSE task[t]]

\* Card.qm.updateOne, with what follows from the list as it was loaded.
WriteCard(p) ==
    /\ At(p, "write")
    /\ plan[p].op = "card"
    /\ \E c \in plan[p].cards :
          LET l     == plan[p].to
              from  == plan[p].from
              row   == plan[p].card[c]
              type  == plan[p].list[l].type
              moves == l # from
              closed == IF moves THEN Closed(row, type) ELSE row.closed
              switch == closed # row.closed
              placed == IF type \notin Kanban \/ plan[p].position = "null" THEN FALSE
                        ELSE IF plan[p].position = "number" THEN TRUE ELSE card[c].placed
              new == [card[c] EXCEPT
                        !.list = IF moves THEN l ELSE card[c].list,
                        !.board = IF plan[p].cross THEN Target(p) ELSE card[c].board,
                        !.prev = IF moves THEN PrevList(row, from, plan[p].list[from].type, type, plan[p].cross)
                                 ELSE card[c].prev,
                        !.closed = IF switch THEN closed ELSE card[c].closed,
                        !.placed = placed]
          IN  IF c \in Cards
                THEN /\ card' = [card EXCEPT ![c] = new]
                     /\ task' = IF switch THEN Follow({c}, closed) ELSE task
                     /\ odd' = odd
                          \cup (IF Stale(p, {c}, {from, l}) THEN Record({c}, "stale") ELSE {})
                          \cup (IF plan[p].position = "null" THEN Record({c}, "null") ELSE {})
                     /\ IF plan[p].cross THEN Goto(p, "relabel") ELSE Done(p)
                ELSE /\ Done(p)
                     /\ UNCHANGED <<card, task, odd>>
    /\ UNCHANGED <<list, label, tags, people, served>>

\* List.qm.updateOne: the row is locked, the list and its cards change in one
\* transaction.
WriteList(p) ==
    /\ At(p, "write")
    /\ plan[p].op = "list"
    /\ LET l   == plan[p].from
           was == list[l]
           new == [board |-> IF plan[p].cross THEN plan[p].to.board ELSE was.board,
                   type |-> plan[p].to.type]
           S   == CardsIn(l)
           switch == was.type # new.type
           closed == new.type = "closed"
       IN  IF l \in Lists
             THEN /\ list' = [list EXCEPT ![l] = new]
                  /\ card' = [c \in Card |->
                        IF c \in S THEN [card[c] EXCEPT
                              !.board = IF was.board # new.board THEN new.board ELSE @,
                              !.closed = IF switch THEN closed ELSE @]
                        ELSE card[c]]
                  /\ task' = IF switch THEN Follow(S, closed) ELSE task
                  /\ odd' = odd \cup
                        (IF plan[p].cross
                           THEN Record((S \ plan[p].cards) \cup (plan[p].cards \ S), "stale")
                                \cup (IF list[l] # plan[p].list[l] THEN Record(S, "stale") ELSE {})
                           ELSE {})
                  /\ IF plan[p].cross THEN Goto(p, "relabel") ELSE Done(p)
             ELSE /\ odd' = odd \cup Record(plan[p].cards, "stale")
                  /\ Done(p)
                  /\ UNCHANGED <<list, card, task>>
    /\ UNCHANGED <<label, tags, people, served>>

(***************************************************************************)
(* The labels on the new board: those of the same name, or new ones        *)
(***************************************************************************)

\* Labels of the target by name as read, and the names it lacks.
ReadTargetLabels(p) ==
    /\ At(p, "relabel")
    /\ LET b == IF plan[p].op = "copy" THEN Target(p)
                ELSE IF plan[p].op = "list" THEN list[plan[p].from].board
                ELSE card[CHOOSE c \in plan[p].cards : TRUE].board
       IN  plan' = [plan EXCEPT ![p] = [plan[p] EXCEPT
              !.names = {[x EXCEPT !.label = IF Named(b, x.name) = {} THEN None
                                             ELSE CHOOSE l \in Named(b, x.name) : TRUE] : x \in plan[p].names},
              !.steps = {"label"}]]
    /\ UNCHANGED <<rows, odd, served>>

\* What was missing is created: one label for each the cards had, those of
\* one name included.
CreateLabels(p) ==
    /\ At(p, "label")
    /\ LET missing == {<<x.was, x.name>> : x \in {y \in plan[p].names : y.label = None}} IN
       \E new \in [missing -> Label \ Labels] :
          /\ \A m, n \in missing : new[m] = new[n] => m = n
          /\ label' = [l \in Label |->
                IF \E n \in missing : new[n] = l
                  THEN [board |-> Target(p), name |-> (CHOOSE n \in missing : new[n] = l)[2]]
                  ELSE label[l]]
          /\ plan' = [plan EXCEPT ![p] = [plan[p] EXCEPT
                !.names = {IF x.label = None THEN [x EXCEPT !.label = new[<<x.was, x.name>>]] ELSE x
                              : x \in plan[p].names},
                !.steps = {IF plan[p].op = "copy" THEN "write" ELSE "tag"}]]
    /\ UNCHANGED <<list, card, task, tags, people, odd, served>>

\* Two labels of a card have met in one.
Meet(names) == \E x, y \in names : x # y /\ x.card = y.card /\ x.label = y.label

\* The labels of one card are inserted one by one, and a pair that is there is
\* refused alone.  Those of the cards of a list are one batch: a pair that is
\* there, or twice in it, refuses them all.
Tag(p) ==
    /\ At(p, "tag")
    /\ LET pairs == {<<x.card, x.label>> : x \in plan[p].names}
           refused == plan[p].op = "list" /\ (Meet(plan[p].names) \/ pairs \cap tags # {})
       IN  /\ tags' = IF refused THEN tags ELSE tags \cup pairs
           /\ odd' = odd
                \cup Record({x.card : x \in {y \in plan[p].names :
                                  label[y.label].board # card[y.card].board}}, "stale")
                \cup (IF refused THEN Record({x.card : x \in plan[p].names}, "refused") ELSE {})
    /\ Done(p)
    /\ UNCHANGED <<list, card, task, label, people, served>>

(***************************************************************************)
(* lists/move-cards, lists/delete                                          *)
(***************************************************************************)

\* The cards of a closed list go to the archive of its board.
MoveCards(p) ==
    \E l, a \in Lists :
        /\ list[l].type = "closed"
        /\ list[a].type = "archive" /\ list[a].board = list[l].board
        /\ Start(p, [ op |-> "archive", cards |-> {}, card |-> card, list |-> list,
                      from |-> l, to |-> a, cross |-> FALSE, names |-> {},
                      steps |-> {"sweep"} ])

DeleteList(p) ==
    \E l \in Lists, t \in Lists :
        /\ Finite(l)
        /\ list[t].type = "trash" /\ list[t].board = list[l].board
        /\ Start(p, [ op |-> "trash", cards |-> {}, card |-> card, list |-> list,
                      from |-> l, to |-> t, cross |-> FALSE, names |-> {},
                      steps |-> {"sweep"} ])

\* A card that goes to an endless list with all others of its list.
Swept(row, to, prev) == [row EXCEPT !.list = to, !.prev = prev, !.placed = FALSE]

\* One statement for all cards of the list.  Only the archive remembers where
\* they were.
SweepCards(p) ==
    /\ At(p, "sweep")
    /\ LET S == CardsIn(plan[p].from) IN
       /\ card' = [c \in Card |->
             IF c \in S THEN Swept(card[c], plan[p].to,
                   IF plan[p].op = "archive" THEN plan[p].from ELSE card[c].prev)
             ELSE card[c]]
       /\ odd' = odd \cup (IF Stale(p, {}, {plan[p].from, plan[p].to}) THEN Record(S, "stale") ELSE {})
       /\ IF plan[p].op = "archive" THEN Done(p) ELSE Goto(p, "drop")
    /\ UNCHANGED <<list, task, label, tags, people, served>>

DropList(p) ==
    /\ At(p, "drop")
    /\ list' = [list EXCEPT ![plan[p].from].board = None]
    /\ odd' = odd \cup Record(CardsIn(plan[p].from), "stale")
    /\ Done(p)
    /\ UNCHANGED <<card, task, label, tags, people, served>>

(***************************************************************************)
(* New cards, copies and tasks                                             *)
(***************************************************************************)

Spare == {c \in Card : /\ card[c].list = None
                       /\ \A p \in Proc : plan[p] # Idle /\ plan[p].op \in {"create", "copy"} => plan[p].copy # c}

CreateCard(p) ==
    \E c \in Spare, l \in Lists :
        Start(p, [ op |-> "create", cards |-> {}, card |-> card, list |-> list,
                   from |-> l, to |-> l, cross |-> FALSE, names |-> {}, copy |-> c,
                   steps |-> {"write"} ])

InsertCard(p) ==
    /\ At(p, "write")
    /\ plan[p].op = "create"
    /\ LET l == plan[p].to
           type == plan[p].list[l].type
       IN  /\ card' = [card EXCEPT ![plan[p].copy] =
                 [list |-> l, board |-> plan[p].list[l].board, prev |-> None,
                  closed |-> type = "closed", placed |-> type \in Kanban]]
           /\ odd' = odd \cup (IF Stale(p, {}, {l}) THEN Record({plan[p].copy}, "stale") ELSE {})
    /\ Done(p)
    /\ UNCHANGED <<list, task, label, tags, people, served>>

\* cards/duplicate: to the same list or another one.
DuplicateCard(p) ==
    \E c \in Cards, new \in Spare, l \in Lists :
        LET from == card[c].list
            cross == list[l].board # list[from].board
        IN  /\ from \in Lists
            /\ Start(p, [ op |-> "copy", cards |-> {c}, card |-> card, list |-> list,
                          from |-> from, to |-> l, cross |-> cross, names |-> {}, copy |-> new,
                          steps |-> {IF cross THEN "copy labels" ELSE "write"} ])

\* The labels of the original by name; they are found or created on the
\* other board before the copy is.
ReadCopyLabels(p) ==
    /\ At(p, "copy labels")
    /\ plan' = [plan EXCEPT ![p] = [plan[p] EXCEPT
          !.names = {Wanted(plan[p].copy, x[2]) : x \in {y \in tags : y[1] \in plan[p].cards}},
          !.steps = {"relabel"}]]
    /\ UNCHANGED <<rows, odd, served>>

\* What the row of the copy is, but for the columns the list decides.  The
\* previous list is copied whatever the list, and so is what is wrong with the
\* original.
InsertCopy(p) ==
    /\ At(p, "write")
    /\ plan[p].op = "copy"
    /\ LET row  == plan[p].card[CHOOSE c \in plan[p].cards : TRUE]
           l    == plan[p].to
           type == plan[p].list[l].type
       IN  /\ card' = [card EXCEPT ![plan[p].copy] =
                 [list |-> l, board |-> IF plan[p].cross THEN Target(p) ELSE row.board,
                  prev |-> row.prev,
                  closed |-> IF l # plan[p].from THEN Closed(row, type) ELSE row.closed,
                  placed |-> type \in Kanban]]
           /\ odd' = odd \cup Record({plan[p].copy}, "copy")
                \cup (IF \/ Stale(p, plan[p].cards, {plan[p].from, l})
                       \/ \E c \in plan[p].cards : <<"stale", c>> \in odd
                      THEN Record({plan[p].copy}, "stale") ELSE {})
    /\ Goto(p, "copy members")
    /\ UNCHANGED <<list, task, label, tags, people, served>>

\* The board of the copy, as inserted.
CopyBoard(p) ==
    IF plan[p].cross THEN Target(p) ELSE plan[p].card[CHOOSE c \in plan[p].cards : TRUE].board

\* The copy moves to another board while it is still being filled.
CopyMoves(p) ==
    IF \/ card[plan[p].copy].board # CopyBoard(p)
       \/ Carried(p, {plan[p].copy})
      THEN Record({plan[p].copy}, "stale") ELSE {}

CopyMembers(p) ==
    /\ At(p, "copy members")
    /\ people' = people \cup
          {<<"membership", plan[p].copy, x[3]>> : x \in {y \in people :
              y[1] = "membership" /\ y[2] \in plan[p].cards /\ y[3] \in MembersOf[CopyBoard(p)]}}
    /\ odd' = odd \cup CopyMoves(p)
    /\ Goto(p, "copy tags")
    /\ UNCHANGED <<list, card, task, label, tags, served>>

\* On the same board the labels are read now, as they are by now.  They are
\* one batch, and one that is refused ends the request.
CopyTags(p) ==
    /\ At(p, "copy tags")
    /\ LET new == IF plan[p].cross THEN {x.label : x \in plan[p].names}
                  ELSE {x[2] : x \in {y \in tags : y[1] \in plan[p].cards}}
           pairs == {<<plan[p].copy, l>> : l \in new}
           refused == (plan[p].cross /\ Meet(plan[p].names)) \/ pairs \cap tags # {}
       IN  /\ tags' = IF refused THEN tags ELSE tags \cup pairs
           /\ odd' = odd \cup CopyMoves(p) \cup
                 (IF \E l \in new : label[l].board # CopyBoard(p)
                    THEN Record({plan[p].copy}, "stale") ELSE {})
           /\ IF refused THEN Done(p) ELSE Goto(p, "copy tasks")
    /\ UNCHANGED <<list, card, task, label, people, served>>

SpareTasks == Task \ Tasks

\* Linked tasks stay linked to the same card, in the state read.
CopyTasks(p) ==
    /\ At(p, "copy tasks")
    /\ LET old == TasksOf(plan[p].cards)
           ok(u) == IF u \in MembersOf[CopyBoard(p)] THEN u ELSE None
       IN \E new \in [old -> SpareTasks] :
             /\ \A t, u \in old : new[t] = new[u] => t = u
             /\ task' = [s \in Task |->
                   IF \E t \in old : new[t] = s
                     THEN LET t == CHOOSE u \in old : new[u] = s
                          IN  [task[t] EXCEPT !.card = plan[p].copy, !.assignee = ok(@)]
                     ELSE task[s]]
    /\ odd' = odd \cup CopyMoves(p)
    /\ Done(p)
    /\ UNCHANGED <<list, card, label, tags, people, served>>

\* A task on one card, linked to another, which decides whether it is done
\* only if it is closed.
CreateTask(p) ==
    \E c, linked \in Cards, done \in BOOLEAN :
        Start(p, [ op |-> "task", cards |-> {linked}, card |-> card, list |-> list,
                   from |-> card[c].list, to |-> c, cross |-> FALSE, names |-> {},
                   done |-> done \/ card[linked].closed, steps |-> {"write"} ])

InsertTask(p) ==
    /\ At(p, "write")
    /\ plan[p].op = "task"
    /\ \E t \in SpareTasks, c \in plan[p].cards :
          /\ task' = [task EXCEPT ![t] =
                [card |-> plan[p].to, link |-> c, done |-> plan[p].done, assignee |-> None]]
          /\ odd' = odd \cup (IF card[c].closed # plan[p].card[c].closed
                                THEN Record({c}, "stale") ELSE {})
    /\ Done(p)
    /\ UNCHANGED <<list, card, label, tags, people, served>>

-----------------------------------------------------------------------------
Init ==
    /\ list = List0 /\ card = Card0 /\ task = Task0
    /\ label = Label0 /\ tags = Tags0 /\ people = People0
    /\ plan = [p \in Proc |-> Idle]
    /\ odd = {}
    /\ served = 0

Request(p) ==
    \/ UpdateCard(p)
    \/ UpdateList(p)
    \/ MoveCards(p)
    \/ DeleteList(p)
    \/ CreateCard(p)
    \/ DuplicateCard(p)
    \/ CreateTask(p)

Statement(p) ==
    \/ ReadLabels(p)
    \/ DropSubscriptions(p)
    \/ DropMemberships(p)
    \/ DropTags(p)
    \/ DropAssignees(p)
    \/ WriteCard(p)
    \/ WriteList(p)
    \/ ReadTargetLabels(p)
    \/ CreateLabels(p)
    \/ Tag(p)
    \/ SweepCards(p)
    \/ DropList(p)
    \/ InsertCard(p)
    \/ ReadCopyLabels(p)
    \/ InsertCopy(p)
    \/ CopyMembers(p)
    \/ CopyTags(p)
    \/ CopyTasks(p)
    \/ InsertTask(p)

Next == \E p \in Proc :
    \/ Free(p) /\ Request(p)
    \/ Statement(p)

Spec == Init /\ [][Next]_vars

(***************************************************************************)
(* Properties                                                              *)
(***************************************************************************)

AtRest == \A p \in Proc : plan[p] = Idle
Sound(c, reasons) == c \in Cards /\ \A r \in reasons : <<r, c>> \notin odd

\* Closed in a closed list and open in an active one, on the board of its list.
StateOfList(c, l) ==
    /\ card[c].board = list[l].board
    /\ list[l].type = "active" => ~card[c].closed
    /\ list[l].type = "closed" => card[c].closed

\* Once requests are over the columns of a card agree with the list it is in,
\* unless it was written from rows that another request had changed since
\* they were loaded.  It has a position exactly in the lists that are kept in
\* order (a client that gives null for one is believed), and remembers the
\* list it was in only in the archive and the trash (copies remember that of
\* the original).
CardFitsList ==
    AtRest => \A c \in Card : Sound(c, {"stale"}) =>
        LET l == card[c].list IN
        /\ StateOfList(c, l)
        /\ Sound(c, {"null"}) => (card[c].placed <=> Finite(l))
        /\ Sound(c, {"copy"}) /\ Finite(l) => card[c].prev = None

\* Once requests are over nothing of the old board has come along with a card:
\* it has labels of its own board only, and its members, its subscribers and
\* the assignees of its tasks are members of the board.  Left out is a card
\* that two requests carried at a time, that came into or left a list between
\* the reading of its cards and its move, or that moved while it was copied.
NothingFromElsewhere ==
    AtRest => \A c \in Card : Sound(c, {"stale"}) =>
        /\ \A x \in tags : x[1] = c => label[x[2]].board = card[c].board
        /\ \A x \in people : x[2] = c => x[3] \in MembersOf[card[c].board]
        /\ \A t \in TasksOf({c}) : task[t].assignee \in MembersOf[card[c].board] \cup {None}

\* A task linked to a closed card is done once requests are over, wherever
\* the card was closed and whenever the task was linked, unless the card was
\* closed or opened while the task was being linked, or written from stale
\* rows.
LinkedTasksFollow ==
    AtRest => \A t \in Tasks : task[t].link # None /\ Sound(task[t].link, {"stale"}) =>
        (card[task[t].link].closed => task[t].done)

NamesOn(c) == {label[x[2]].name : x \in {y \in tags : y[1] = c}}
NamesOn0(c) == {Label0[x[2]].name : x \in {y \in Tags0 : y[1] = c}}

\* A card that changes boards keeps the names of all its labels, or has lost
\* every one: when its list moved and two labels of a card in it met in one,
\* the batch that was to put the labels back was refused after the old ones
\* were gone.  Cards that two requests carried at a time are left out.
LabelsTravel ==
    AtRest => \A c \in Card : Card0[c].list # None /\ Sound(c, {"stale"}) =>
        \/ NamesOn(c) = NamesOn0(c)
        \/ <<"refused", c>> \in odd /\ NamesOn(c) = {}

=============================================================================
