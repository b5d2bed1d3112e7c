----------------------------- MODULE Placements -----------------------------
(***************************************************************************)
(* The records of the PLANKA server that have a position among siblings,   *)
(* and the requests that create them, place them and move them to another  *)
(* parent.  Each helper reads the siblings, computes where the record goes *)
(* (Positions), writes the new positions of the siblings that make room    *)
(* one by one, and writes the record last, with no transaction: requests   *)
(* of several connections interleave between these statements.             *)
(*                                                                         *)
(* The tables have nothing to do with each other here, so a behaviour is   *)
(* about one of them.  Rights and paths are the subject of BoardRequests.  *)
(***************************************************************************)
EXTENDS Positions

CONSTANTS
    Proc,       \* connections
    Item,       \* the records, numbers in the order of their ids
    Parent,     \* what has siblings: lists, boards, task lists, ...
    Endless,    \* the parents that are archives and trashes, for cards
    Starts,     \* the placements a behaviour may begin with
    Inputs,     \* the positions a client asks for
    MaxRequests \* bound on the requests served

ASSUME PlacementAssumption ==
    /\ Item \subseteq Nat /\ IsFiniteSet(Item)
    /\ None \notin Parent /\ Endless \subseteq Parent
    /\ Inputs \subseteq Nat
    /\ MaxRequests \in Nat
    /\ Gap * (Cardinality(Item) + 1) <= MaxPosition

\* A behaviour begins where the clients have left each other in order: the
\* siblings of a finite parent have numbers, MinGap apart, in the order of
\* their ids.
ASSUME StartAssumption ==
    /\ Starts \subseteq [Item -> [parent : Parent \cup {None}, pos : (0 .. MaxPosition) \cup {None}]]
    /\ \A start \in Starts : \A i \in Item : start[i].parent \in Parent \ Endless =>
          /\ start[i].pos # None
          /\ \A j \in Item : i < j /\ start[j].parent = start[i].parent =>
                start[i].pos + MinGap <= start[j].pos

Kind == {"Board", "List", "Label", "Card", "TaskList", "Task", "GroupInBoard",
         "GroupInCard", "FieldInGroup", "FieldInBase"}

VARIABLES
    kind,      \* the table
    place,     \* parent and position of every record, parent None: not there
    plan,      \* what the request on each connection has still to do
    asked,     \* records some request was about
    loose,     \* parents in which placements overlapped or were skipped
    shuffled,  \* parents that were sorted
    served     \* number of requests

vars == <<kind, place, plan, asked, loose, shuffled, served>>

Present == {i \in Item : place[i].parent # None}
Below(L) == {i \in Present : place[i].parent = L}
Parents == IF kind = "Card" THEN Parent ELSE Parent \ Endless
Finite(L) == L \in Parent \ Endless

\* Siblings are read in the order of their positions, null last, then of
\* their ids.
Before(i, j) ==
    \/ /\ place[i].pos # None
       /\ place[j].pos = None \/ place[i].pos < place[j].pos
    \/ place[i].pos = place[j].pos /\ i < j

Siblings(L, but) ==
    LET S == Below(L) \ but
    IN  [k \in 1 .. Cardinality(S) |->
           CHOOSE i \in S : Cardinality({j \in S : Before(j, i)}) = k - 1]

PositionsOf(s) == [k \in DOMAIN s |-> place[s[k]].pos]

Idle == [step |-> "idle"]
Free(p) == plan[p] = Idle /\ served < MaxRequests

(***************************************************************************)
(* The helpers                                                             *)
(***************************************************************************)

\* A request about record i: among the children of L at x, or without a
\* position (None); to is the parent to write, None to write none.
Place(p, i, L, to, x) ==
    /\ Free(p)
    /\ plan' = [plan EXCEPT ![p] =
          [ step |-> IF x = None THEN "land" ELSE "read",
            item |-> i, among |-> L, to |-> to, pos |-> x, moves |-> <<>> ]]
    /\ asked' = asked \cup {i}
    /\ served' = served + 1
    /\ UNCHANGED <<kind, place, loose, shuffled>>

Reserved == {plan[p].item : p \in {q \in Proc : plan[q] # Idle}}
Fresh(i) == i \in Item \ (Present \cup asked \cup Reserved)

Create(p, i, L, x) == Fresh(i) /\ Place(p, i, L, L, x)
Keep(p, i, x)      == i \in Present /\ Place(p, i, place[i].parent, None, x)
Move(p, i, L, x)   == i \in Present /\ L # place[i].parent /\ Place(p, i, L, L, x)

BoardsCreateOne(p, i, L, x) == Create(p, i, L, x)
BoardsUpdateOne(p, i, x) == Keep(p, i, x)

ListsCreateOne(p, i, L, x) == Create(p, i, L, x)
\* The position is among the lists of the board the list goes to; a list may
\* go to another board and keep its number.
ListsUpdateOne(p, i, L, x) == IF L = place[i].parent THEN Keep(p, i, x) ELSE Move(p, i, L, x)

LabelsCreateOne(p, i, L, x) == Create(p, i, L, x)
LabelsUpdateOne(p, i, x) == Keep(p, i, x)

\* In an endless list a card has no position; an update may also take it away.
CardsCreateOne(p, i, L, x) == Create(p, i, L, IF Finite(L) THEN x ELSE None)
CardsUpdateOne(p, i, L, x) ==
    LET y == IF Finite(L) THEN x ELSE None
    IN  IF L = place[i].parent THEN Keep(p, i, y) ELSE Move(p, i, L, y)
CardsDuplicateOne(p, i, L, x) == Create(p, i, L, IF Finite(L) THEN x ELSE None)

TaskListsCreateOne(p, i, L, x) == Create(p, i, L, x)
TaskListsUpdateOne(p, i, x) == Keep(p, i, x)

TasksCreateOne(p, i, L, x) == Create(p, i, L, x)
\* A task may go to another list of the card and keep its number.
TasksUpdateOne(p, i, L, x) == IF L = place[i].parent THEN Keep(p, i, x) ELSE Move(p, i, L, x)

CustomFieldGroupsCreateOneInBoard(p, i, L, x) == Create(p, i, L, x)
CustomFieldGroupsUpdateOneInBoard(p, i, x) == Keep(p, i, x)
CustomFieldGroupsCreateOneInCard(p, i, L, x) == Create(p, i, L, x)
CustomFieldGroupsUpdateOneInCard(p, i, x) == Keep(p, i, x)

CustomFieldsCreateOneInGroup(p, i, L, x) == Create(p, i, L, x)
CustomFieldsUpdateOneInGroup(p, i, x) == Keep(p, i, x)
CustomFieldsCreateOneInBase(p, i, L, x) == Create(p, i, L, x)
CustomFieldsUpdateOneInBase(p, i, x) == Keep(p, i, x)

\* lists/sort-one numbers the cards of a finite list from scratch, in the
\* order asked for; the writes go out together and arrive in any order.
ListsSortOne(p, L) ==
    /\ Finite(L)
    /\ Free(p)
    /\ LET s == Siblings(L, {})
           perms == {f \in [DOMAIN s -> DOMAIN s] : \A j, k \in DOMAIN s : f[j] = f[k] => j = k}
       IN \E order, arrival \in perms :
             plan' = [plan EXCEPT ![p] =
                [ step |-> "sort", item |-> None, among |-> L, to |-> None, pos |-> None,
                  moves |-> [k \in DOMAIN s |->
                      [item |-> s[arrival[k]], pos |-> Gap * order[arrival[k]]]] ]]
    /\ shuffled' = shuffled \cup {L}
    /\ served' = served + 1
    /\ UNCHANGED <<kind, place, asked, loose>>

(***************************************************************************)
(* The statements of a request                                             *)
(***************************************************************************)

\* Parents in which another request places a record from siblings it has read.
BeingPlaced(p) ==
    {plan[q].among : q \in {r \in Proc \ {p} :
        plan[r] # Idle /\ plan[r].step # "read" /\ (plan[r].pos # None \/ plan[r].moves # <<>>)}}

ReadSiblings(p) ==
    /\ plan[p].step = "read"
    /\ LET s == Siblings(plan[p].among, {plan[p].item})
           r == InsertToPositionables(PositionsOf(s), plan[p].pos)
           M == DOMAIN r.moved
       IN  plan' = [plan EXCEPT ![p] = [plan[p] EXCEPT
              !.step = "land",
              !.pos = r.pos,
              !.moves = [k \in 1 .. Cardinality(M) |->
                 [item |-> s[Nth(M, k)], pos |-> r.moved[Nth(M, k)]]]]]
    /\ UNCHANGED <<kind, place, asked, loose, shuffled, served>>

\* A statement takes effect on a sibling that is still below the parent.
\* Mutant: the criterion is the id alone.
HitsAnywhere(m, L) == place[m.item].parent # None

Hits(m, L) == place[m.item].parent = L

MoveSibling(p) ==
    /\ plan[p].step \in {"land", "sort"}
    /\ plan[p].moves # <<>>
    /\ LET m == Head(plan[p].moves)
           rest == Tail(plan[p].moves)
           L == plan[p].among
       IN  /\ place' = IF Hits(m, L) THEN [place EXCEPT ![m.item].pos = m.pos] ELSE place
           /\ loose' = loose \cup ({L} \cap BeingPlaced(p))
           /\ plan' = [plan EXCEPT ![p] =
                 IF plan[p].step = "sort" /\ rest = <<>> THEN Idle
                 ELSE [plan[p] EXCEPT !.moves = rest]]
    /\ UNCHANGED <<kind, asked, shuffled, served>>

\* A sort of an empty list writes nothing.
SortNothing(p) ==
    /\ plan[p].step = "sort"
    /\ plan[p].moves = <<>>
    /\ plan' = [plan EXCEPT ![p] = Idle]
    /\ UNCHANGED <<kind, place, asked, loose, shuffled, served>>

\* The record itself: what the request did not give is left as it is; for a
\* card, whose column admits it, no position is null.
Land(p) ==
    /\ plan[p].step = "land"
    /\ plan[p].moves = <<>>
    /\ LET i == plan[p].item
           L == IF plan[p].to # None THEN plan[p].to ELSE place[i].parent
           x == IF plan[p].pos = None /\ kind # "Card" THEN place[i].pos ELSE plan[p].pos
           settled == plan[p].pos # None /\ L = plan[p].among
       IN  /\ place' = [place EXCEPT ![i] = [parent |-> L, pos |-> x]]
           /\ loose' = loose \cup (IF settled THEN {L} \cap BeingPlaced(p)
                                   ELSE IF Finite(L) \/ x # None THEN {L} ELSE {})
    /\ plan' = [plan EXCEPT ![p] = Idle]
    /\ UNCHANGED <<kind, asked, shuffled, served>>

(***************************************************************************)
(* The controllers                                                         *)
(***************************************************************************)

CreateBoard(p) ==
    kind = "Board" /\ \E i \in Item, L \in Parents, x \in Inputs : BoardsCreateOne(p, i, L, x)
UpdateBoard(p) ==
    kind = "Board" /\ \E i \in Present, x \in Inputs : BoardsUpdateOne(p, i, x)

CreateList(p) ==
    kind = "List" /\ \E i \in Item, L \in Parents, x \in Inputs : ListsCreateOne(p, i, L, x)
UpdateList(p) ==
    /\ kind = "List"
    /\ \E i \in Present, L \in Parents, x \in Inputs \cup {None} : ListsUpdateOne(p, i, L, x)

CreateLabel(p) ==
    kind = "Label" /\ \E i \in Item, L \in Parents, x \in Inputs : LabelsCreateOne(p, i, L, x)
UpdateLabel(p) ==
    kind = "Label" /\ \E i \in Present, x \in Inputs : LabelsUpdateOne(p, i, x)

CreateCard(p) ==
    kind = "Card" /\ \E i \in Item, L \in Parents, x \in Inputs : CardsCreateOne(p, i, L, x)
UpdateCard(p) ==
    kind = "Card" /\ \E i \in Present, L \in Parents, x \in Inputs \cup {None} : CardsUpdateOne(p, i, L, x)
DuplicateCard(p) ==
    kind = "Card" /\ \E i \in Item, L \in Parents, x \in Inputs : CardsDuplicateOne(p, i, L, x)
SortList(p) ==
    kind = "Card" /\ \E L \in Parents : ListsSortOne(p, L)

CreateTaskList(p) ==
    kind = "TaskList" /\ \E i \in Item, L \in Parents, x \in Inputs : TaskListsCreateOne(p, i, L, x)
UpdateTaskList(p) ==
    kind = "TaskList" /\ \E i \in Present, x \in Inputs : TaskListsUpdateOne(p, i, x)

CreateTask(p) ==
    kind = "Task" /\ \E i \in Item, L \in Parents, x \in Inputs : TasksCreateOne(p, i, L, x)
UpdateTask(p) ==
    /\ kind = "Task"
    /\ \E i \in Present, L \in Parents, x \in Inputs \cup {None} : TasksUpdateOne(p, i, L, x)

CreateGroupInBoard(p) ==
    /\ kind = "GroupInBoard"
    /\ \E i \in Item, L \in Parents, x \in Inputs : CustomFieldGroupsCreateOneInBoard(p, i, L, x)
CreateGroupInCard(p) ==
    /\ kind = "GroupInCard"
    /\ \E i \in Item, L \in Parents, x \in Inputs : CustomFieldGroupsCreateOneInCard(p, i, L, x)
UpdateGroup(p) ==
    \E i \in Present, x \in Inputs :
        \/ kind = "GroupInBoard" /\ CustomFieldGroupsUpdateOneInBoard(p, i, x)
        \/ kind = "GroupInCard" /\ CustomFieldGroupsUpdateOneInCard(p, i, x)

CreateFieldInGroup(p) ==
    /\ kind = "FieldInGroup"
    /\ \E i \in Item, L \in Parents, x \in Inputs : CustomFieldsCreateOneInGroup(p, i, L, x)
CreateFieldInBase(p) ==
    /\ kind = "FieldInBase"
    /\ \E i \in Item, L \in Parents, x \in Inputs : CustomFieldsCreateOneInBase(p, i, L, x)
UpdateField(p) ==
    \E i \in Present, x \in Inputs :
        \/ kind = "FieldInGroup" /\ CustomFieldsUpdateOneInGroup(p, i, x)
        \/ kind = "FieldInBase" /\ CustomFieldsUpdateOneInBase(p, i, x)

-----------------------------------------------------------------------------
Init ==
    /\ kind \in Kind
    /\ place \in Starts
    /\ plan = [p \in Proc |-> Idle]
    /\ asked = {} /\ loose = {} /\ shuffled = {}
    /\ served = 0

Request(p) ==
    \/ CreateBoard(p)
    \/ UpdateBoard(p)
    \/ CreateList(p)
    \/ UpdateList(p)
    \/ CreateLabel(p)
    \/ UpdateLabel(p)
    \/ CreateCard(p)
    \/ UpdateCard(p)
    \/ DuplicateCard(p)
    \/ SortList(p)
    \/ CreateTaskList(p)
    \/ UpdateTaskList(p)
    \/ CreateTask(p)
    \/ UpdateTask(p)
    \/ CreateGroupInBoard(p)
    \/ CreateGroupInCard(p)
    \/ UpdateGroup(p)
    \/ CreateFieldInGroup(p)
    \/ CreateFieldInBase(p)
    \/ UpdateField(p)

Next == \E p \in Proc :
    \/ Free(p) /\ Request(p)
    \/ ReadSiblings(p) \/ MoveSibling(p) \/ SortNothing(p) \/ Land(p)

Spec == Init /\ [][Next]_vars

(***************************************************************************)
(* Properties                                                              *)
(***************************************************************************)

\* The siblings of every parent that can be reached, ties and gaps left by
\* requests that crossed included, take one more record wherever a client
\* asks for it (helpers/utils/insert-to-positionables).
InsertionsLand ==
    \A L \in Parent : Finite(L) /\ (\A i \in Below(L) : place[i].pos # None) =>
        \A x \in Inputs : LandsBetween(PositionsOf(Siblings(L, {})), x)

AtRest == \A p \in Proc : plan[p] = Idle

Apart(i, j) == place[i].pos + MinGap <= place[j].pos

\* When no request is under way siblings are MinGap apart, which is what the
\* clients compute the middle of two neighbours from, and making room has
\* reordered none of them: those no request was about stay in the order of
\* their ids, which is the order they start in.  Where two requests placed
\* records among the same siblings, or a record came with a number from
\* elsewhere, neither is promised.
SiblingsInOrder ==
    AtRest => \A L \in Parent \ loose : Finite(L) =>
        \A i, j \in Below(L) : i < j =>
            /\ Apart(i, j) \/ Apart(j, i)
            /\ i \notin asked /\ j \notin asked /\ L \notin shuffled => Apart(i, j)

\* A record that left while others made room for a newcomer is not touched:
\* a position is written by a request about the record, or by one that
\* places another among its siblings of that moment.
StrangersStay ==
    [][\A i \in Item : place'[i].pos # place[i].pos =>
          \E p \in Proc :
             /\ plan[p] # Idle
             /\ plan[p].item = i \/ plan[p].among = place[i].parent]_vars
=============================================================================
