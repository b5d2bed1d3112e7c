--------------------------- MODULE BoardRequests ---------------------------
(***************************************************************************)
(* The requests of the PLANKA server that create and delete rows.  A       *)
(* controller loads the path from its record up to the project, checks the *)
(* rights of the current user and hands the loaded records to a helper.    *)
(* Here a controller is an action that admits a request: its guard is what *)
(* the controller read, its effect the agenda of the helper's statements.  *)
(* The statements run one at a time, with those of other requests between  *)
(* them.                                                                   *)
(***************************************************************************)
EXTENDS BoardRecords

(***************************************************************************)
(* What controllers read                                                   *)
(***************************************************************************)

\* getPathToProjectById: every record up to the project must exist.
InProject(b) == b \in Live("Board") /\ At(b, "project") \in Live("Project")
InBoard(r)   == r \in rows /\ InProject(At(r, "board"))
OnCard(c)    == c \in Live("Card") /\ At(c, "list") \in Live("List") /\ InBoard(At(c, "list"))
UnderCard(r) == r \in rows /\ OnCard(At(r, "card"))
BoardOf(c)   == At(At(c, "list"), "board")

Users == Live("User")
Members(b) == {At(m, "user") : m \in {k \in Live("BoardMembership") : At(k, "board") = b}}
WithRole(b, roles) ==
    {At(m, "user") : m \in {k \in Live("BoardMembership") : At(k, "board") = b /\ At(k, "trait") \in roles}}
Managers(q) == {At(m, "user") : m \in {k \in Live("ProjectManager") : At(k, "project") = q}}

Member(u, b)    == u \in Members(b)
Editor(u, b)    == u \in WithRole(b, {"editor"})
Commenter(u, b) == u \in WithRole(b, {"editor", "commenter"})
Manager(u, q)   == u \in Managers(q)

Edited(b)  == WithRole(b, {"editor"}) \cap Users # {}
Managed(q) == Managers(q) \cap Users # {}

GroupBoard(g) == IF At(g, "board") # None THEN At(g, "board") ELSE BoardOf(At(g, "card"))
InGroup(g) ==
    /\ g \in Live("CustomFieldGroup")
    /\ IF At(g, "board") # None THEN InBoard(g) ELSE UnderCard(g)

(***************************************************************************)
(* Admitting a request and running its next statement                      *)
(***************************************************************************)

\* Rows that the last statement of a request under way will delete.
Dying == {j.row : j \in {k \in UNION {Pending(p) : p \in Proc} : k.op = "remove"}}

\* A row written now with columns cols refers to something gone or going, or
\* to something that strayed itself.
Astray(T, cols) ==
    \/ \E c \in (Owning(T) \cup Pointing(T)) \cap DOMAIN cols :
          cols[c] \in dead \cup Dying \cup strayed
    \/ /\ T = "CardMembership"
       /\ ~\E m \in Live("BoardMembership") \ Dying :
             /\ At(m, "user") = cols["user"]
             /\ At(m, "board") = At(cols["card"], "board")
    \/ /\ T = "Task"
       /\ cols["assignee"] # None
       /\ ~\E m \in Live("BoardMembership") \ Dying :
             /\ At(m, "user") = cols["assignee"]
             /\ At(m, "board") = At(At(cols["taskList"], "card"), "board")

Ready(p) == agenda[p] = <<>> /\ served < MaxRequests

Serve(p, jobs, T) ==
    /\ Ready(p)
    /\ agenda' = [agenda EXCEPT ![p] = jobs]
    /\ targets' = targets \cup T
    /\ served' = served + 1
    /\ UNCHANGED <<rows, dead, ref, strayed>>

GoOn(p, next) == agenda' = [agenda EXCEPT ![p] = next]

Erase(S) ==
    /\ rows' = rows \ S
    /\ dead' = dead \cup (S \cap rows)

\* Column c of the rows of S that are still there becomes v.
Write(S, c, v) ==
    LET written(r) == [ref[r] EXCEPT ![c] = v]
    IN  /\ ref' = [r \in Row |-> IF r \in S \cap rows THEN written(r) ELSE ref[r]]
        /\ strayed' = strayed \cup {r \in S \cap rows : Astray(TableOf[r], written(r))}

Clash(r, cols) ==
    /\ UniqueKey(TableOf[r]) # {}
    /\ \E q \in Live(TableOf[r]) : \A c \in UniqueKey(TableOf[r]) : At(q, c) = cols[c]

DeleteRows(p, job, rest) ==
    /\ job.op = "delete"
    /\ Erase(Hits(job.table, job.where))
    /\ GoOn(p, rest)
    /\ UNCHANGED <<ref, strayed>>

CascadeRows(p, job, rest) ==
    /\ job.op = "cascade"
    /\ LET hit == Hits(job.table, job.where) IN
       /\ Erase(hit)
       /\ GoOn(p, Related(job.table, hit) \o rest)
    /\ UNCHANGED <<ref, strayed>>

RemoveRow(p, job, rest) ==
    /\ job.op = "remove"
    /\ Erase({job.row})
    /\ GoOn(p, IF job.row \in rows THEN rest ELSE <<>>)
    /\ UNCHANGED <<ref, strayed>>

NullColumn(p, job, rest) ==
    /\ job.op = "null"
    /\ Write(Hits(job.table, job.where), job.col, None)
    /\ GoOn(p, rest)
    /\ UNCHANGED <<rows, dead>>

SetColumn(p, job, rest) ==
    /\ job.op = "set"
    /\ Write({job.row}, job.col, job.to)
    /\ GoOn(p, rest)
    /\ UNCHANGED <<rows, dead>>

InsertRows(p, job, rest) ==
    /\ job.op = "insert"
    /\ IF job.needs \subseteq rows /\ ~\E r \in DOMAIN job.new : Clash(r, job.new[r])
         THEN /\ rows' = rows \cup DOMAIN job.new
              /\ ref' = [r \in Row |-> IF r \in DOMAIN job.new THEN job.new[r] ELSE ref[r]]
              /\ strayed' = strayed \cup {r \in DOMAIN job.new : Astray(TableOf[r], job.new[r])}
              /\ GoOn(p, rest)
         ELSE /\ GoOn(p, IF job.strict THEN <<>> ELSE rest)
              /\ UNCHANGED <<rows, ref, strayed>>
    /\ UNCHANGED dead

CheckRows(p, job, rest) ==
    /\ job.op = "check"
    /\ LET n == Cardinality(Hits(job.table, job.where) \ job.but)
       IN  GoOn(p, IF job.lo <= n /\ n <= job.hi THEN rest ELSE <<>>)
    /\ UNCHANGED <<rows, dead, ref, strayed>>

\* lists/delete-one: the trash list is read, then the cards are moved.  With
\* no trash list the helper throws on trashList.id.
FindTrash(p, job, rest) ==
    /\ job.op = "retire"
    /\ LET trash == {t \in Live("List") : At(t, "board") = job.board /\ At(t, "trait") = "trash"} IN
       IF trash = {} THEN GoOn(p, <<>>)
       ELSE \E t \in trash : GoOn(p, <<Rehome(job.from, t)>> \o rest)
    /\ UNCHANGED <<rows, dead, ref, strayed>>

RehomeCards(p, job, rest) ==
    /\ job.op = "rehome"
    /\ Write(Hits("Card", [list |-> {job.from}]), "list", job.to)
    /\ GoOn(p, rest)
    /\ UNCHANGED <<rows, dead>>

\* revokeBoardAccessSideEffects reads the cards of the board ...
ReadCards(p, job, rest) ==
    /\ job.op = "revoke"
    /\ LET cards == Hits("Card", [board |-> {job.board}])
           his   == [card |-> cards, user |-> {job.user}]
       IN  GoOn(p, << Delete("CardSubscription", his), Delete("CardMembership", his),
                      Unassign(cards, job.user) >> \o rest)
    /\ UNCHANGED <<rows, dead, ref, strayed>>

\* ... and, two statements later, their task lists.
ReadTaskLists(p, job, rest) ==
    /\ job.op = "unassign"
    /\ LET lists == Hits("TaskList", [card |-> job.cards]) IN
       GoOn(p, <<Null("Task", [taskList |-> lists, assignee |-> {job.user}], "assignee")>>
               \o rest)
    /\ UNCHANGED <<rows, dead, ref, strayed>>

\* users/delete-related deletes the manager rows of the user and the private
\* projects they own; users/delete-one looks after the other projects last.
DismissManager(p, job, rest) ==
    /\ job.op = "dismiss"
    /\ LET hit == Hits("ProjectManager", [user |-> {job.user}]) IN
       /\ Erase(hit)
       /\ GoOn(p, <<Cascade("Project", [manager |-> hit])>> \o rest
                  \o <<Adopt(job.heir, {At(m, "project") : m \in hit})>>)
    /\ UNCHANGED <<ref, strayed>>

\* Of those projects the ones without a manager are read ...
Adopted(p, heir, ps, rest) == GoOn(p, IF ps = {} THEN rest ELSE <<Adopting(heir, ps)>> \o rest)

ReadLonely(p, job, rest) ==
    /\ job.op = "adopt" /\ ~job.read
    /\ LET lonely == {q \in job.projects \cap rows :
                         ~\E m \in Live("ProjectManager") : At(m, "project") = q}
       IN  Adopted(p, job.heir, lonely, rest)
    /\ UNCHANGED <<rows, dead, ref, strayed>>

\* ... and get one each, in any order.  A private project refuses, and so does
\* the unique key; the others are inserted all the same.
AdoptProject(p, job, rest) ==
    /\ job.op = "adopt" /\ job.read
    /\ \E q \in job.projects, m \in Free("ProjectManager") :
          LET cols == [project |-> q, user |-> job.heir] IN
          /\ Adopted(p, job.heir, job.projects \ {q}, rest)
          /\ \/ /\ At(q, "manager") = None /\ ~Clash(m, cols)
                /\ rows' = rows \cup {m}
                /\ ref' = [r \in Row |-> IF r = m THEN cols ELSE ref[r]]
                /\ strayed' = strayed \cup {r \in {m} : Astray("ProjectManager", cols)}
             \/ /\ At(q, "manager") # None \/ Clash(m, cols)
                /\ UNCHANGED <<rows, ref, strayed>>
    /\ UNCHANGED dead

Statement(p) ==
    /\ agenda[p] # <<>>
    /\ LET job == Head(agenda[p])
           rest == Tail(agenda[p])
       IN \/ DeleteRows(p, job, rest)
          \/ CascadeRows(p, job, rest)
          \/ RemoveRow(p, job, rest)
          \/ NullColumn(p, job, rest)
          \/ SetColumn(p, job, rest)
          \/ InsertRows(p, job, rest)
          \/ CheckRows(p, job, rest)
          \/ FindTrash(p, job, rest)
          \/ RehomeCards(p, job, rest)
          \/ ReadCards(p, job, rest)
          \/ ReadTaskLists(p, job, rest)
          \/ DismissManager(p, job, rest)
          \/ ReadLonely(p, job, rest)
          \/ AdoptProject(p, job, rest)
    /\ UNCHANGED <<targets, served>>

(***************************************************************************)
(* Controllers: creation                                                   *)
(***************************************************************************)

CreateProject(p) ==
    \E u \in Users, q \in Free("Project"), m \in Free("ProjectManager"), private \in BOOLEAN :
        Serve(p, ProjectsCreateOne(q, m, u, private), {})

\* A manager, or an administrator where groups do not isolate projects.
CreateProjectManager(p) ==
    \E q \in Live("Project"), u \in Users, m \in Free("ProjectManager") :
        /\ Managed(q) \/ Admin \in Users
        /\ At(q, "manager") = None
        /\ At(u, "trait") \in {"admin", "projectOwner"}
        /\ Serve(p, ProjectManagersCreateOne(m, q, u), {})

CreateBoard(p) ==
    \E q \in Live("Project"), b \in Free("Board"), m \in Free("BoardMembership"),
      archive, trash \in Free("List"), u \in Users :
        /\ Manager(u, q)
        /\ archive # trash
        /\ Serve(p, BoardsCreateOne(b, q, u, m, archive, trash), {})

CreateBoardMembership(p) ==
    \E b \in Live("Board"), u, actor \in Users, m \in Free("BoardMembership"),
      role \in {"editor", "viewer", "commenter"} :
        /\ InProject(b)
        /\ Manager(actor, At(b, "project"))
        /\ At(actor, "trait") \in {"admin", "projectOwner"} \/ u = actor
        /\ Serve(p, BoardMembershipsCreateOne(m, b, u, role), {})

CreateList(p) ==
    \E b \in Live("Board"), l \in Free("List") :
        InProject(b) /\ Edited(b) /\ Serve(p, ListsCreateOne(l, b), {})

CreateLabel(p) ==
    \E b \in Live("Board"), l \in Free("Label") :
        InProject(b) /\ Edited(b) /\ Serve(p, LabelsCreateOne(l, b), {})

CreateCard(p) ==
    \E l \in Live("List"), c \in Free("Card"), u \in Users, a \in Free("Action"),
      s \in Free("CardSubscription"), subscribes \in BOOLEAN :
        /\ InBoard(l)
        /\ Editor(u, At(l, "board"))
        /\ Serve(p, CardsCreateOne(c, l, u, a, s, subscribes), {})

CreateCardLabel(p) ==
    \E c \in Live("Card"), l \in Live("Label"), k \in Free("CardLabel") :
        /\ OnCard(c)
        /\ Edited(BoardOf(c))
        /\ At(l, "board") = BoardOf(c)
        /\ Serve(p, CardLabelsCreateOne(k, c, l), {})

CreateCardMembership(p) ==
    \E c \in Live("Card"), u, actor \in Users, m \in Free("CardMembership"),
      s \in Free("CardSubscription"), a \in Free("Action") :
        /\ OnCard(c)
        /\ Editor(actor, BoardOf(c))
        /\ Member(u, BoardOf(c))
        /\ Serve(p, CardMembershipsCreateOne(m, c, u, s, a), {})

CreateTaskList(p) ==
    \E c \in Live("Card"), t \in Free("TaskList") :
        OnCard(c) /\ Edited(BoardOf(c)) /\ Serve(p, TaskListsCreateOne(t, c), {})

\* A task may name a card it is linked to, one its creator can see.
CreateTask(p) ==
    \E t \in Free("Task"), l \in Live("TaskList"), c \in Live("Card") \cup {None}, u \in Users :
        /\ UnderCard(l)
        /\ Editor(u, BoardOf(At(l, "card")))
        /\ c # None => /\ OnCard(c)
                       /\ Manager(u, At(BoardOf(c), "project")) \/ Member(u, BoardOf(c))
        /\ Serve(p, TasksCreateOne(t, l, c), {})

\* tasks/update with an assignee, which a task that is linked to a card does
\* not take.
AssignTask(p) ==
    \E t \in Live("Task"), u \in Users :
        /\ At(t, "linkedCard") = None
        /\ UnderCard(At(t, "taskList"))
        /\ Edited(BoardOf(At(At(t, "taskList"), "card")))
        /\ Member(u, BoardOf(At(At(t, "taskList"), "card")))
        /\ Serve(p, <<Point(t, "assignee", u)>>, {})

CreateComment(p) ==
    \E c \in Live("Card"), k \in Free("Comment"), u \in Users :
        /\ OnCard(c)
        /\ Commenter(u, BoardOf(c))
        /\ Serve(p, CommentsCreateOne(k, c, u), {})

CreateAttachment(p) ==
    \E c \in Live("Card"), a \in Free("Attachment"), u \in Users, image \in BOOLEAN :
        /\ OnCard(c)
        /\ Editor(u, BoardOf(c))
        /\ Serve(p, AttachmentsCreateOne(a, c, u, image), {})

CreateBaseCustomFieldGroup(p) ==
    \E q \in Live("Project"), g \in Free("BaseCustomFieldGroup") :
        Managed(q) /\ Serve(p, BaseCustomFieldGroupsCreateOne(g, q), {})

CreateCustomFieldGroupInBoard(p) ==
    \E b \in Live("Board"), g \in Free("CustomFieldGroup"),
      base \in Live("BaseCustomFieldGroup") \cup {None} :
        /\ InProject(b)
        /\ Edited(b)
        /\ base # None => At(base, "project") = At(b, "project")
        /\ Serve(p, CustomFieldGroupsCreateOneInBoard(g, b, base), {})

CreateCustomFieldGroupInCard(p) ==
    \E c \in Live("Card"), g \in Free("CustomFieldGroup"),
      base \in Live("BaseCustomFieldGroup") \cup {None} :
        /\ OnCard(c)
        /\ Edited(BoardOf(c))
        /\ base # None => At(base, "project") = At(BoardOf(c), "project")
        /\ Serve(p, CustomFieldGroupsCreateOneInCard(g, c, base), {})

CreateCustomFieldInGroup(p) ==
    \E g \in Live("CustomFieldGroup"), f \in Free("CustomField") :
        InGroup(g) /\ Edited(GroupBoard(g)) /\ Serve(p, CustomFieldsCreateOneInGroup(f, g), {})

CreateCustomFieldInBase(p) ==
    \E g \in Live("BaseCustomFieldGroup"), f \in Free("CustomField") :
        /\ At(g, "project") \in Live("Project")
        /\ Managed(At(g, "project"))
        /\ Serve(p, CustomFieldsCreateOneInBase(f, g), {})

CreateOrUpdateCustomFieldValue(p) ==
    \E c \in Live("Card"), g \in Live("CustomFieldGroup"), f \in Live("CustomField"),
      v \in Free("CustomFieldValue") :
        /\ OnCard(c)
        /\ Edited(BoardOf(c))
        /\ IF At(g, "board") # None THEN At(g, "board") = BoardOf(c) ELSE At(g, "card") = c
        /\ IF At(g, "base") # None THEN At(f, "base") = At(g, "base") ELSE At(f, "group") = g
        /\ Serve(p, CustomFieldValuesCreateOrUpdateOne(v, c, g, f), {})

CreateNotificationServiceInBoard(p) ==
    \E b \in Live("Board"), n \in Free("NotificationService") :
        /\ InProject(b)
        /\ Managed(At(b, "project"))
        /\ Serve(p, NotificationServicesCreateOneInBoard(n, b), {})

CreateNotificationServiceInUser(p) ==
    \E u \in Users, n \in Free("NotificationService") :
        Serve(p, NotificationServicesCreateOneInUser(n, u), {})

CreateBackgroundImage(p) ==
    \E q \in Live("Project"), i \in Free("BackgroundImage") :
        Managed(q) /\ Serve(p, BackgroundImagesCreateOne(i, q), {})

(***************************************************************************)
(* Controllers: deletion                                                   *)
(***************************************************************************)

DeleteProject(p) ==
    \E q \in Live("Project") : Managed(q) /\ Serve(p, ProjectsDeleteOne(q), {q})

DeleteProjectManager(p) ==
    \E m \in Live("ProjectManager") :
        /\ At(m, "project") \in Live("Project")
        /\ Managed(At(m, "project")) \/ Admin \in Users
        /\ At(At(m, "project"), "manager") = None
        /\ At(m, "user") \in Users
        /\ Serve(p, ProjectManagersDeleteOne(m), {m})

DeleteBoard(p) ==
    \E b \in Live("Board") :
        InProject(b) /\ Managed(At(b, "project")) /\ Serve(p, BoardsDeleteOne(b), {b})

\* The member himself, or a manager of the project; either way the user of
\* the membership has to be there.
DeleteBoardMembership(p) ==
    \E m \in Live("BoardMembership") :
        /\ InBoard(m)
        /\ At(m, "user") \in Users
        /\ Serve(p, BoardMembershipsDeleteOne(m), {m})

DeleteList(p) ==
    \E l \in Live("List") :
        /\ InBoard(l)
        /\ At(l, "trait") \in {"active", "closed"}
        /\ Edited(At(l, "board"))
        /\ Serve(p, ListsDeleteOne(l, At(l, "board")), {l})

\* The cards in the trash are what the request asks to delete, so its target
\* is the list.
ClearList(p) ==
    \E l \in Live("List") :
        /\ InBoard(l)
        /\ At(l, "trait") = "trash"
        /\ Managed(At(At(l, "board"), "project")) \/ Edited(At(l, "board"))
        /\ Serve(p, ListsClearOne(l), {l})

DeleteLabel(p) ==
    \E l \in Live("Label") :
        InBoard(l) /\ Edited(At(l, "board")) /\ Serve(p, LabelsDeleteOne(l), {l})

DeleteCard(p) ==
    \E c \in Live("Card") :
        OnCard(c) /\ Edited(BoardOf(c)) /\ Serve(p, CardsDeleteOne(c), {c})

DeleteCardLabel(p) ==
    \E k \in Live("CardLabel") :
        UnderCard(k) /\ Edited(BoardOf(At(k, "card"))) /\ Serve(p, CardLabelsDeleteOne(k), {k})

DeleteCardMembership(p) ==
    \E m \in Live("CardMembership"), a \in Free("Action"), u \in Users :
        /\ UnderCard(m)
        /\ Editor(u, BoardOf(At(m, "card")))
        /\ At(m, "user") \in Users
        /\ Serve(p, CardMembershipsDeleteOne(m, At(m, "card"), a, u), {m})

DeleteTaskList(p) ==
    \E t \in Live("TaskList") :
        UnderCard(t) /\ Edited(BoardOf(At(t, "card"))) /\ Serve(p, TaskListsDeleteOne(t), {t})

DeleteTask(p) ==
    \E t \in Live("Task") :
        /\ UnderCard(At(t, "taskList"))
        /\ Edited(BoardOf(At(At(t, "taskList"), "card")))
        /\ Serve(p, TasksDeleteOne(t), {t})

DeleteComment(p) ==
    \E k \in Live("Comment"), u \in Users :
        /\ UnderCard(k)
        /\ \/ Manager(u, At(BoardOf(At(k, "card")), "project"))
           \/ At(k, "user") = u /\ Commenter(u, BoardOf(At(k, "card")))
        /\ Serve(p, CommentsDeleteOne(k), {k})

DeleteAttachment(p) ==
    \E a \in Live("Attachment") :
        /\ UnderCard(a)
        /\ Edited(BoardOf(At(a, "card")))
        /\ Serve(p, AttachmentsDeleteOne(a, At(a, "card")), {a})

DeleteBaseCustomFieldGroup(p) ==
    \E g \in Live("BaseCustomFieldGroup") :
        /\ At(g, "project") \in Live("Project")
        /\ Managed(At(g, "project"))
        /\ Serve(p, BaseCustomFieldGroupsDeleteOne(g), {g})

DeleteCustomFieldGroup(p) ==
    \E g \in Live("CustomFieldGroup") :
        /\ InGroup(g)
        /\ Edited(GroupBoard(g))
        /\ \/ At(g, "board") # None /\ Serve(p, CustomFieldGroupsDeleteOneInBoard(g), {g})
           \/ At(g, "board") = None /\ Serve(p, CustomFieldGroupsDeleteOneInCard(g), {g})

DeleteCustomField(p) ==
    \E f \in Live("CustomField") :
        \/ /\ At(f, "base") \in Live("BaseCustomFieldGroup")
           /\ At(At(f, "base"), "project") \in Live("Project")
           /\ Managed(At(At(f, "base"), "project"))
           /\ Serve(p, CustomFieldsDeleteOneInBase(f), {f})
        \/ /\ At(f, "base") = None
           /\ InGroup(At(f, "group"))
           /\ Edited(GroupBoard(At(f, "group")))
           /\ Serve(p, CustomFieldsDeleteOneInGroup(f), {f})

DeleteCustomFieldValue(p) ==
    \E v \in Live("CustomFieldValue") :
        /\ UnderCard(v)
        /\ Edited(BoardOf(At(v, "card")))
        /\ At(v, "group") \in Live("CustomFieldGroup")
        /\ Serve(p, CustomFieldValuesDeleteOne(v), {v})

DeleteNotificationService(p) ==
    \E n \in Live("NotificationService") :
        \/ At(n, "user") \in Users /\ Serve(p, NotificationServicesDeleteOneInUser(n), {n})
        \/ /\ At(n, "user") = None
           /\ InBoard(n)
           /\ Managed(At(At(n, "board"), "project"))
           /\ Serve(p, NotificationServicesDeleteOneInBoard(n), {n})

DeleteBackgroundImage(p) ==
    \E i \in Live("BackgroundImage") :
        /\ At(i, "project") \in Live("Project")
        /\ Managed(At(i, "project"))
        /\ Serve(p, BackgroundImagesDeleteOne(i, At(i, "project")), {i})

DeleteUser(p) ==
    \E u, heir \in Users :
        /\ u # Admin
        /\ At(heir, "trait") = "admin"
        /\ Serve(p, UsersDeleteOne(u, heir), {u})

-----------------------------------------------------------------------------
Init ==
    /\ rows = Rows0
    /\ dead = {}
    /\ ref = Ref0
    /\ agenda = [p \in Proc |-> <<>>]
    /\ targets = {}
    /\ strayed = {}
    /\ served = 0

Create(p) ==
    \/ CreateProject(p)
    \/ CreateProjectManager(p)
    \/ CreateBoard(p)
    \/ CreateBoardMembership(p)
    \/ CreateList(p)
    \/ CreateLabel(p)
    \/ CreateCard(p)
    \/ CreateCardLabel(p)
    \/ CreateCardMembership(p)
    \/ CreateTaskList(p)
    \/ CreateTask(p)
    \/ AssignTask(p)
    \/ CreateComment(p)
    \/ CreateAttachment(p)
    \/ CreateBaseCustomFieldGroup(p)
    \/ CreateCustomFieldGroupInBoard(p)
    \/ CreateCustomFieldGroupInCard(p)
    \/ CreateCustomFieldInGroup(p)
    \/ CreateCustomFieldInBase(p)
    \/ CreateOrUpdateCustomFieldValue(p)
    \/ CreateNotificationServiceInBoard(p)
    \/ CreateNotificationServiceInUser(p)
    \/ CreateBackgroundImage(p)

Destroy(p) ==
    \/ DeleteProject(p)
    \/ DeleteProjectManager(p)
    \/ DeleteBoard(p)
    \/ DeleteBoardMembership(p)
    \/ DeleteList(p)
    \/ ClearList(p)
    \/ DeleteLabel(p)
    \/ DeleteCard(p)
    \/ DeleteCardLabel(p)
    \/ DeleteCardMembership(p)
    \/ DeleteTaskList(p)
    \/ DeleteTask(p)
    \/ DeleteComment(p)
    \/ DeleteAttachment(p)
    \/ DeleteBaseCustomFieldGroup(p)
    \/ DeleteCustomFieldGroup(p)
    \/ DeleteCustomField(p)
    \/ DeleteCustomFieldValue(p)
    \/ DeleteNotificationService(p)
    \/ DeleteBackgroundImage(p)
    \/ DeleteUser(p)

Next == \E p \in Proc :
    \/ Ready(p) /\ Create(p)
    \/ Ready(p) /\ Destroy(p)
    \/ Statement(p)

Spec == Init /\ [][Next]_vars

(***************************************************************************)
(* Properties                                                              *)
(***************************************************************************)

\* A membership or a subscription that goes with a membership that was asked
\* to go: of the same user, on the same card or the same board.
WithMembership(r) ==
    /\ TableOf[r] \in {"BoardSubscription", "CardSubscription", "CardMembership"}
    /\ \E m \in targets :
          /\ TableOf[m] \in {"BoardMembership", "CardMembership"}
          /\ At(m, "user") = At(r, "user")
          /\ \/ At(m, "board") # None /\ At(m, "board") \in {At(r, "board"), At(At(r, "card"), "board")}
             \/ At(m, "card") # None /\ At(m, "card") = At(r, "card")

\* Every row that was deleted was asked to go, or belongs to one that was:
\* no cascade takes a row whose owners stay (clearing the trash counts as
\* asking for what is in it).
LossesAccounted ==
    \A r \in dead :
        \/ r \in targets
        \/ \E c \in Owning(TableOf[r]) : At(r, c) \in targets \cup dead
        \/ WithMembership(r)

AtRest == \A p \in Proc : agenda[p] = <<>>

\* When no request is under way, whatever order the statements of requests
\* ran in, no column of the schema refers to a row that is gone, other than the
\* Forgotten ones: no foreign key enforces this, only the helpers' lists of
\* statements.  Rows written against a deletion under way are excepted.
OwnersLive ==
    AtRest =>
        \A r \in rows \ strayed :
            \A c \in References(TableOf[r]) \ Forgotten(TableOf[r]) : At(r, c) \notin dead

\* A user who is a member of a card, or is assigned one of its tasks, is a
\* member of its board when no request is under way; excepted are the rows
\* that were written when the membership was gone or going, which nothing
\* takes.
MembersOnBoard ==
    AtRest =>
        \A r \in rows \ strayed :
            /\ TableOf[r] = "CardMembership" => Member(At(r, "user"), At(At(r, "card"), "board"))
            /\ TableOf[r] = "Task" /\ At(r, "assignee") # None =>
                  Member(At(r, "assignee"), At(At(At(r, "taskList"), "card"), "board"))

\* Deleting a list deletes none of its cards: a card goes only when it, its
\* trash list, its board, its project or the owner of its project is asked
\* to go.
CardsSurviveLists ==
    [][\A c \in Live("Card") \ rows' :
          \/ c \in targets
          \/ At(c, "list") \in targets /\ At(At(c, "list"), "trait") = "trash"
          \/ At(At(c, "list"), "board") \in targets \cup dead]_vars
=============================================================================
