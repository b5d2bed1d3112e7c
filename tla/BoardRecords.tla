---------------------------- MODULE BoardRecords ----------------------------
(***************************************************************************)
(* The rows of the PLANKA server and the cascades that delete them.        *)
(*                                                                         *)
(* The database has no foreign keys and the helpers open no transaction    *)
(* around a deletion: deleting a board is a list of statements, one await  *)
(* after another, each removing the rows that refer to the rows removed    *)
(* before.  A request is therefore an agenda of jobs, one job per          *)
(* statement, and the requests of several connections interleave.          *)
(*                                                                         *)
(* This module holds the tables, the statements and the helpers of         *)
(* api/helpers that put a request's agenda together.  BoardRequests holds  *)
(* the controllers that admit requests.                                    *)
(***************************************************************************)
EXTENDS Naturals, Sequences, FiniteSets

CONSTANTS
    None,       \* the null of a column
    Proc,       \* connections whose requests run side by side
    Schema,     \* the rows that exist or may come to exist, by table
    Rows0,      \* the rows of the database at the start
    Ref0,       \* their columns
    Admin,      \* the user row of defaultAdminEmail
    MaxRequests,\* bound on the requests served
    ServiceLimit\* notification services allowed on one board (5 in the code)

RowsOf == [T \in DOMAIN Schema |-> Schema[T]]
Row == UNION {RowsOf[T] : T \in DOMAIN Schema}
TableOf == [r \in Row |-> CHOOSE T \in DOMAIN Schema : r \in RowsOf[T]]

Tables == {"Project", "ProjectManager", "ProjectFavorite", "BackgroundImage", "BaseCustomFieldGroup",
           "Board", "BoardMembership", "BoardSubscription", "Label", "List", "Card", "CardLabel",
           "CardMembership", "CardSubscription", "TaskList", "Task", "Attachment", "Comment", "Action",
           "CustomFieldGroup", "CustomField", "CustomFieldValue", "NotificationService",
           "Notification", "Session", "IdentityProviderUser", "User"}

ASSUME RowAssumption ==
    /\ DOMAIN Schema = Tables
    /\ None \notin Row
    /\ IsFiniteSet(Row)
    /\ \A T, U \in DOMAIN Schema : RowsOf[T] \cap RowsOf[U] # {} => T = U
    /\ Rows0 \subseteq Row
    /\ Ref0 = [r \in Row |-> Ref0[r]]
    /\ Admin \in Row
    /\ MaxRequests \in Nat
    /\ ServiceLimit \in Nat \ {0}

VARIABLES
    rows,      \* rows in the database
    dead,      \* rows that were deleted
    ref,       \* columns of every row inserted so far
    agenda,    \* agenda[p]: the statements the request on p has still to run
    targets,   \* rows some request was asked to delete
    strayed,   \* rows written when what they refer to was gone or going
    served     \* number of requests admitted

vars == <<rows, dead, ref, agenda, targets, strayed, served>>

(***************************************************************************)
(* Tables and columns                                                      *)
(***************************************************************************)

\* Columns whose referent takes the row with it when it is deleted, of those
\* the helpers look after.
Owning(T) ==
    CASE T \in {"ProjectManager", "ProjectFavorite"} -> {"project", "user"}
      [] T \in {"BackgroundImage", "BaseCustomFieldGroup", "Board"} -> {"project"}
      [] T = "Project" -> {"manager"}
      [] T \in {"BoardMembership", "NotificationService"} -> {"board", "user"}
      [] T \in {"Label", "List"} -> {"board"}
      [] T = "Card" -> {"list"}
      [] T = "CardLabel" -> {"card", "label"}
      [] T \in {"CardMembership", "CardSubscription"} -> {"card", "user"}
      [] T \in {"TaskList", "Attachment", "Comment", "Action"} -> {"card"}
      [] T = "Task" -> {"taskList"}
      [] T = "CustomFieldGroup" -> {"card", "base"}
      [] T = "CustomField" -> {"group", "base"}
      [] T = "CustomFieldValue" -> {"group", "field"}
      [] T \in {"Session", "IdentityProviderUser", "Notification"} -> {"user"}
      [] OTHER -> {}

\* Columns that are set to null when their referent is deleted, of those the
\* helpers look after.
Pointing(T) ==
    CASE T = "Task" -> {"linkedCard", "assignee"}
      [] T = "Card" -> {"creator", "cover"}
      [] T = "Comment" -> {"user"}
      [] T = "Action" -> {"board", "user"}
      [] T = "Attachment" -> {"creator"}
      [] T = "Notification" -> {"creator"}
      [] T = "Project" -> {"background"}
      [] OTHER -> {}

\* Columns no helper looks after: what they refer to goes, and the row stays as
\* it is.
Forgotten(T) ==
    CASE T = "Notification" -> {"board", "card", "comment", "action"}
      [] T = "BoardSubscription" -> {"board", "user"}
      [] T = "CustomFieldGroup" -> {"board"}
      [] T = "CustomFieldValue" -> {"card"}
      [] T = "Card" -> {"prevList"}
      [] T = "Board" -> {"creator"}
      [] OTHER -> {}

\* The columns of the schema that refer to rows, but for two copies of what
\* another row says: the board of a card is that of its list, the project of a
\* membership that of its board.
References(T) ==
    CASE T \in {"ProjectManager", "ProjectFavorite"} -> {"project", "user"}
      [] T \in {"BackgroundImage", "BaseCustomFieldGroup"} -> {"project"}
      [] T = "Board" -> {"project", "creator"}
      [] T = "Project" -> {"manager", "background"}
      [] T \in {"BoardMembership", "BoardSubscription", "NotificationService"} -> {"board", "user"}
      [] T \in {"Label", "List"} -> {"board"}
      [] T = "Card" -> {"list", "prevList", "creator", "cover"}
      [] T = "CardLabel" -> {"card", "label"}
      [] T \in {"CardMembership", "CardSubscription", "Comment"} -> {"card", "user"}
      [] T = "TaskList" -> {"card"}
      [] T = "Task" -> {"taskList", "linkedCard", "assignee"}
      [] T = "Attachment" -> {"card", "creator"}
      [] T = "Action" -> {"board", "card", "user"}
      [] T = "CustomFieldGroup" -> {"board", "card", "base"}
      [] T = "CustomField" -> {"base", "group"}
      [] T = "CustomFieldValue" -> {"card", "group", "field"}
      [] T \in {"Session", "IdentityProviderUser"} -> {"user"}
      [] T = "Notification" -> {"user", "creator", "board", "card", "comment", "action"}
      [] OTHER -> {}

\* Columns under a unique constraint of the schema.
UniqueKey(T) ==
    CASE T \in {"ProjectManager", "ProjectFavorite"} -> {"project", "user"}
      [] T \in {"BoardMembership", "BoardSubscription"} -> {"board", "user"}
      [] T \in {"CardMembership", "CardSubscription"} -> {"card", "user"}
      [] T = "CardLabel" -> {"card", "label"}
      [] T = "CustomFieldValue" -> {"card", "group", "field"}
      [] OTHER -> {}

At(r, c) == IF r \in Row /\ c \in DOMAIN ref[r] THEN ref[r][c] ELSE None

(***************************************************************************)
(* The database at the start                                               *)
(***************************************************************************)

\* The table a column refers to.
Target == [project |-> "Project", user |-> "User", manager |-> "ProjectManager", board |-> "Board",
           list |-> "List", card |-> "Card", label |-> "Label", taskList |-> "TaskList",
           base |-> "BaseCustomFieldGroup", group |-> "CustomFieldGroup", field |-> "CustomField",
           linkedCard |-> "Card", assignee |-> "User", creator |-> "User", cover |-> "Attachment",
           background |-> "BackgroundImage"]

\* Columns that may not be null, of those by which a row belongs to a board or
\* a card.
Required(T) ==
    CASE T = "List" -> {"board"}
      [] T = "Card" -> {"list"}
      [] T = "BoardMembership" -> {"board", "user"}
      [] T = "CardLabel" -> {"card", "label"}
      [] T = "CardMembership" -> {"card", "user"}
      [] T = "TaskList" -> {"card"}
      [] T = "Task" -> {"taskList"}
      [] T = "CustomFieldValue" -> {"group", "field"}
      [] OTHER -> {}

\* Column c of the columns cols, and of row r in a database with columns R.
Col(cols, c) == IF c \in DOMAIN cols THEN cols[c] ELSE None
Value(R, r, c) == IF r \in Row THEN Col(R[r], c) ELSE None

\* The columns of r in a database with columns R, whose rows are or were K:
\* references have the table of their column, and the records a controller
\* loads together agree on the board, the card or the project they are in.
Sound(r, cols, R, K) ==
    LET T == TableOf[r]
        has(c, d) == Col(cols, c) # None => Col(cols, c) \in K /\ Value(R, Col(cols, c), d) = r
    IN  /\ \A c \in DOMAIN Target : Col(cols, c) = None \/ Col(cols, c) \in RowsOf[Target[c]]
        /\ \A c \in Required(T) : Col(cols, c) \in K
        /\ T = "Card" => Col(cols, "board") = Value(R, Col(cols, "list"), "board") /\ has("cover", "card")
        /\ T = "CardLabel" => Value(R, Col(cols, "label"), "board") = Value(R, Col(cols, "card"), "board")
        /\ T = "Project" => has("background", "project") /\ has("manager", "project")
        /\ T = "CustomField" => Col(cols, "group") = None \/ Col(cols, "base") = None
        /\ T = "CustomFieldValue" =>
              LET base == Value(R, Col(cols, "group"), "base") IN
              IF base # None THEN Value(R, Col(cols, "field"), "base") = base
              ELSE Value(R, Col(cols, "field"), "group") = Col(cols, "group")

\* No user is twice a member of a board, and the users of a card are members
\* of its board.
ASSUME StartAssumption ==
    LET col(r, c) == Value(Ref0, r, c)
        members(b) == {col(m, "user") : m \in {k \in RowsOf["BoardMembership"] \cap Rows0 : col(k, "board") = b}}
    IN  /\ \A r \in Rows0 : Sound(r, Ref0[r], Ref0, Rows0)
        /\ \A m, n \in RowsOf["BoardMembership"] \cap Rows0 :
              col(m, "user") = col(n, "user") /\ col(m, "board") = col(n, "board") => m = n
        /\ \A r \in RowsOf["CardMembership"] \cap Rows0 : col(r, "user") \in members(col(col(r, "card"), "board"))
        /\ \A r \in RowsOf["Task"] \cap Rows0 : col(r, "assignee") # None =>
              col(r, "assignee") \in members(col(col(col(r, "taskList"), "card"), "board"))

Live(T) == RowsOf[T] \cap rows

\* Rows an insert of T may use: not in the database, never deleted, and not
\* in an insert some request has still to run.
Pending(p) == {agenda[p][i] : i \in DOMAIN agenda[p]}
Reserved == UNION {DOMAIN job.new : job \in {j \in UNION {Pending(p) : p \in Proc} : j.op = "insert"}}
Free(T) == RowsOf[T] \ (rows \cup dead \cup Reserved)

(***************************************************************************)
(* Statements                                                              *)
(***************************************************************************)

\* Model.qm.delete(criteria), and the same with the deleteRelated of the rows
\* it returned as the next statements.
Delete(T, where)  == [op |-> "delete", table |-> T, where |-> where]
Cascade(T, where) == [op |-> "cascade", table |-> T, where |-> where]

\* Model.qm.deleteOne(id): what follows is run only if a row was deleted.
Remove(r) == [op |-> "remove", row |-> r]

\* Model.qm.update(criteria, {c: null}).
Null(T, where, c) == [op |-> "null", table |-> T, where |-> where, col |-> c]

\* Model.qm.createOne(values).  A clash with a unique key ends the request,
\* or is ignored; a row of "needs" that is gone makes the transaction fail.
InsertAll(new)        == [op |-> "insert", new |-> new, needs |-> {}, strict |-> TRUE]
Insert(r, cols)       == InsertAll([q \in {r} |-> cols])
InsertUnder(o, r, cols) == [Insert(r, cols) EXCEPT !.needs = {o}]
InsertOrSkip(r, cols) == [Insert(r, cols) EXCEPT !.strict = FALSE]

\* Model.qm.updateOne(id, {c: v}).
Point(r, c, v) == [op |-> "set", row |-> r, col |-> c, to |-> v]

\* A count the helper checks before it goes on: rows matching where, the row
\* "but" left out, must number at least lo and at most hi.
Check(T, where, but, lo, hi) ==
    [op |-> "check", table |-> T, where |-> where, but |-> but, lo |-> lo, hi |-> hi]

\* Card.qm.update({listId: from}, {listId: to}), with to looked up by a
\* statement of its own when it is the trash list of a board.
Rehome(from, to) == [op |-> "rehome", from |-> from, to |-> to]
Retire(from, b)  == [op |-> "retire", from |-> from, board |-> b]

\* The statements of revokeBoardAccessSideEffects that depend on its reading
\* of the board's cards, and those of users/delete-one on the projects left.
Revoke(b, u)      == [op |-> "revoke", board |-> b, user |-> u]
Unassign(cs, u)   == [op |-> "unassign", cards |-> cs, user |-> u]
Dismiss(u, heir)  == [op |-> "dismiss", user |-> u, heir |-> heir]
Adopt(heir, ps)   == [op |-> "adopt", heir |-> heir, projects |-> ps, read |-> FALSE]
Adopting(heir, ps) == [op |-> "adopt", heir |-> heir, projects |-> ps, read |-> TRUE]

Hits(T, where) == {r \in Live(T) : \A c \in DOMAIN where : At(r, c) \in where[c]}

(***************************************************************************)
(* The deleteRelated helpers.  Each takes the rows that go and returns the *)
(* statements that remove what belongs to them, in the code's order.       *)
(***************************************************************************)

CustomFieldsDeleteRelated(S) == <<Delete("CustomFieldValue", [field |-> S])>>

CustomFieldGroupsDeleteRelated(S) ==
    <<Delete("CustomFieldValue", [group |-> S]), Delete("CustomField", [group |-> S])>>

BaseCustomFieldGroupsDeleteRelated(S) ==
    <<Cascade("CustomFieldGroup", [base |-> S]), Delete("CustomField", [base |-> S])>>

TaskListsDeleteRelated(S) == <<Delete("Task", [taskList |-> S])>>

LabelsDeleteRelated(S) == <<Delete("CardLabel", [label |-> S])>>

\* Mutant: attachments and custom fields of a deleted card are forgotten.
CardsDeleteRelatedPartly(S) ==
    << Delete("CardSubscription", [card |-> S]),
       Delete("CardMembership", [card |-> S]),
       Delete("CardLabel", [card |-> S]),
       Cascade("TaskList", [card |-> S]),
       Null("Task", [linkedCard |-> S], "linkedCard"),
       Delete("Comment", [card |-> S]),
       Delete("Action", [card |-> S]) >>

\* Mutant: a task linked to a deleted card is deleted with it.
CardsDeleteRelatedLinked(S) ==
    << Delete("CardMembership", [card |-> S]),
       Delete("Task", [linkedCard |-> S]) >>

CardsDeleteRelated(S) ==
    << Delete("CardSubscription", [card |-> S]),
       Delete("CardMembership", [card |-> S]),
       Delete("CardLabel", [card |-> S]),
       Cascade("TaskList", [card |-> S]),
       Null("Task", [linkedCard |-> S], "linkedCard"),
       Delete("Attachment", [card |-> S]),
       Cascade("CustomFieldGroup", [card |-> S]),
       Delete("Comment", [card |-> S]),
       Delete("Action", [card |-> S]) >>

ListsDeleteRelated(S) == <<Cascade("Card", [list |-> S])>>

BoardsDeleteRelated(S) ==
    << Delete("BoardMembership", [board |-> S]),
       Delete("Label", [board |-> S]),
       Cascade("List", [board |-> S]),
       Null("Action", [board |-> S], "board"),
       Delete("NotificationService", [board |-> S]) >>

ProjectsDeleteRelated(S) ==
    << Delete("ProjectFavorite", [project |-> S]),
       Delete("ProjectManager", [project |-> S]),
       Delete("BackgroundImage", [project |-> S]),
       Cascade("BaseCustomFieldGroup", [project |-> S]),
       Cascade("Board", [project |-> S]) >>

\* heir is the administrator who deletes the user: users/delete-one makes
\* him manager of the projects left without one.
UsersDeleteRelated(u, heir) ==
    << Delete("IdentityProviderUser", [user |-> {u}]),
       Delete("Session", [user |-> {u}]),
       Delete("ProjectFavorite", [user |-> {u}]),
       Dismiss(u, heir),
       Delete("BoardMembership", [user |-> {u}]),
       Null("Card", [creator |-> {u}], "creator"),
       Delete("CardSubscription", [user |-> {u}]),
       Delete("CardMembership", [user |-> {u}]),
       Null("Task", [assignee |-> {u}], "assignee"),
       Null("Attachment", [creator |-> {u}], "creator"),
       Null("Comment", [user |-> {u}], "user"),
       Null("Action", [user |-> {u}], "user"),
       Null("Notification", [creator |-> {u}], "creator"),
       Delete("Notification", [user |-> {u}]),
       Delete("NotificationService", [user |-> {u}]) >>

\* What follows a cascading delete of rows S of table T.
Related(T, S) ==
    CASE T = "Project" -> ProjectsDeleteRelated(S)
      [] T = "BaseCustomFieldGroup" -> BaseCustomFieldGroupsDeleteRelated(S)
      [] T = "Board" -> BoardsDeleteRelated(S)
      [] T = "List" -> ListsDeleteRelated(S)
      [] T = "Card" -> CardsDeleteRelated(S)
      [] T = "TaskList" -> TaskListsDeleteRelated(S)
      [] T = "CustomFieldGroup" -> CustomFieldGroupsDeleteRelated(S)
      [] OTHER -> <<>>

\* actions/create-one.  The notifications it sends on are not modelled.
ActionsCreateOne(a, c, b, u) == <<Insert(a, [card |-> c, board |-> b, user |-> u])>>

(***************************************************************************)
(* The deleteOne helpers                                                   *)
(***************************************************************************)

\* Leaves of the tree.
CardLabelsDeleteOne(k) == <<Remove(k)>>
TasksDeleteOne(t)               == <<Remove(t)>>
CommentsDeleteOne(k)            == <<Remove(k)>>
CustomFieldValuesDeleteOne(v)   == <<Remove(v)>>
NotificationServicesDeleteOneInBoard(n) == <<Remove(n)>>
NotificationServicesDeleteOneInUser(n)  == <<Remove(n)>>

CustomFieldsDeleteOneInGroup(f) == CustomFieldsDeleteRelated({f}) \o <<Remove(f)>>
CustomFieldsDeleteOneInBase(f)  == CustomFieldsDeleteRelated({f}) \o <<Remove(f)>>
CustomFieldGroupsDeleteOneInBoard(g) == CustomFieldGroupsDeleteRelated({g}) \o <<Remove(g)>>
CustomFieldGroupsDeleteOneInCard(g)  == CustomFieldGroupsDeleteRelated({g}) \o <<Remove(g)>>
BaseCustomFieldGroupsDeleteOne(g) == BaseCustomFieldGroupsDeleteRelated({g}) \o <<Remove(g)>>
TaskListsDeleteOne(t) == TaskListsDeleteRelated({t}) \o <<Remove(t)>>
LabelsDeleteOne(l) == LabelsDeleteRelated({l}) \o <<Remove(l)>>
CardsDeleteOne(c) == CardsDeleteRelated({c}) \o <<Remove(c)>>
BoardsDeleteOne(b) == BoardsDeleteRelated({b}) \o <<Remove(b)>>

\* Mutant: the cards of a list are deleted with it.
ListsDeleteOneCards(l, b) == <<Cascade("Card", [list |-> {l}]), Remove(l)>>

\* The cards go to the trash list of the board before the list is deleted.
ListsDeleteOne(l, b) == <<Retire(l, b), Remove(l)>>

\* The trash list stays; its cards go.
ListsClearOne(l) == ListsDeleteRelated({l})

ProjectsDeleteOne(p) ==
    <<Check("Board", [project |-> {p}], {}, 0, 0)>> \o ProjectsDeleteRelated({p}) \o <<Remove(p)>>

\* The snapshot of the card the controller loaded decides about the cover.
AttachmentsDeleteOne(a, c) ==
    (IF At(c, "cover") = a THEN <<Point(c, "cover", None)>> ELSE <<>>) \o <<Remove(a)>>

BackgroundImagesDeleteOne(i, p) ==
    (IF At(p, "background") = i THEN <<Point(p, "background", None)>> ELSE <<>>) \o <<Remove(i)>>

CardMembershipsDeleteOne(m, c, a, u) ==
    << Remove(m),
       Delete("CardSubscription", [card |-> {At(m, "card")}, user |-> {At(m, "user")}, trait |-> {"through membership"}]) >>
    \o ActionsCreateOne(a, c, At(c, "board"), u)

\* Mutant: membership of the board ends, membership of its cards does not.
BoardMembershipsDeleteOneOnly(m) == <<Remove(m)>>

BoardMembershipsDeleteOne(m) ==
    << Delete("BoardSubscription", [board |-> {At(m, "board")}, user |-> {At(m, "user")}]),
       Revoke(At(m, "board"), At(m, "user")),
       Remove(m) >>

ProjectManagersDeleteOne(m) ==
    << Check("ProjectManager", [project |-> {At(m, "project")}], {m}, 1, Cardinality(Row)),
       Remove(m) >>

UsersDeleteOne(u, heir) == UsersDeleteRelated(u, heir) \o <<Remove(u)>>

(***************************************************************************)
(* The createOne helpers, without the positions they give (see Positions)  *)
(***************************************************************************)

ListsCreateOne(l, b)      == <<Insert(l, [board |-> b, trait |-> "active"])>>
LabelsCreateOne(l, b)     == <<Insert(l, [board |-> b])>>
CardLabelsCreateOne(k, c, l) == <<Insert(k, [card |-> c, label |-> l])>>
TaskListsCreateOne(t, c)  == <<Insert(t, [card |-> c])>>
TasksCreateOne(t, l, c)   == <<Insert(t, [taskList |-> l, linkedCard |-> c, assignee |-> None])>>
CommentsCreateOne(k, c, u) == <<InsertUnder(c, k, [card |-> c, user |-> u])>>

\* subscribes: the user's setting subscribeToOwnCards.
CardsCreateOne(c, l, u, a, s, subscribes) ==
    <<Insert(c, [list |-> l, board |-> At(l, "board"), creator |-> u, cover |-> None])>>
    \o (IF subscribes THEN <<InsertOrSkip(s, [card |-> c, user |-> u, trait |-> "permanent"])>> ELSE <<>>)
    \o ActionsCreateOne(a, c, At(l, "board"), u)

CardMembershipsCreateOne(m, c, u, s, a) ==
    << Insert(m, [card |-> c, user |-> u]),
       InsertOrSkip(s, [card |-> c, user |-> u, trait |-> "through membership"]) >>
    \o ActionsCreateOne(a, c, At(c, "board"), u)

\* image: the file is an image; the card's snapshot had no cover.
AttachmentsCreateOne(a, c, u, image) ==
    <<Insert(a, [card |-> c, creator |-> u])>>
    \o (IF image /\ At(c, "cover") = None THEN <<Point(c, "cover", a)>> ELSE <<>>)

CustomFieldGroupsCreateOneInBoard(g, b, base) == <<Insert(g, [board |-> b, card |-> None, base |-> base])>>
CustomFieldGroupsCreateOneInCard(g, c, base)  == <<Insert(g, [board |-> None, card |-> c, base |-> base])>>
BaseCustomFieldGroupsCreateOne(g, p)          == <<Insert(g, [project |-> p])>>
CustomFieldsCreateOneInGroup(f, g)            == <<Insert(f, [group |-> g, base |-> None])>>
CustomFieldsCreateOneInBase(f, g)             == <<Insert(f, [group |-> None, base |-> g])>>
CustomFieldValuesCreateOrUpdateOne(v, c, g, f) ==
    <<InsertOrSkip(v, [card |-> c, group |-> g, field |-> f])>>

NotificationServicesCreateOneInBoard(n, b) ==
    << Check("NotificationService", [board |-> {b}], {}, 0, ServiceLimit - 1),
       Insert(n, [board |-> b, user |-> None]) >>
NotificationServicesCreateOneInUser(n, u) ==
    << Check("NotificationService", [user |-> {u}], {}, 0, ServiceLimit - 1),
       Insert(n, [board |-> None, user |-> u]) >>

\* A new image becomes the background of its project.
BackgroundImagesCreateOne(i, p) == <<Insert(i, [project |-> p]), Point(p, "background", i)>>
BoardMembershipsCreateOne(m, b, u, role) ==
    <<Insert(m, [board |-> b, user |-> u, trait |-> role])>>
ProjectManagersCreateOne(m, p, u)   == <<Insert(m, [project |-> p, user |-> u])>>

\* Board.qm.createOne and Project.qm.createOne insert several rows in one
\* transaction.
BoardsCreateOne(b, p, u, m, archive, trash) ==
    <<InsertAll([r \in {b, m, archive, trash} |->
                   CASE r = b       -> [project |-> p]
                     [] r = m       -> [board |-> b, user |-> u, trait |-> "editor"]
                     [] r = archive -> [board |-> b, trait |-> "archive"]
                     [] r = trash   -> [board |-> b, trait |-> "trash"]])>>
ProjectsCreateOne(p, m, u, private) ==
    <<InsertAll([r \in {p, m} |->
                   IF r = p THEN [manager |-> IF private THEN m ELSE None, background |-> None]
                   ELSE [project |-> p, user |-> u]])>>
=============================================================================
