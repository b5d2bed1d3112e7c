-------------------------- MODULE MCBoardRequests --------------------------
(***************************************************************************)
(* One board with a row in every table, its project, an empty project and  *)
(* a private one, an administrator and a user; a spare row for every       *)
(* table a request may insert into.                                        *)
(***************************************************************************)
EXTENDS BoardRequests, TLC

CONSTANTS p1, p2, p3, px, n1, n2, n3, n4, nx, fa, i1, ix, bg, bgx, b1, bx, m1,
          m2, mx, bs, l1, ar, tr, lx, ly, la, lax, c1, c2, cx, k1, kx, cm,
          cmx, s1, s2, sx, tl, tlx, t1, t2, tx, at, atx, co, cox, ac, ax, g1,
          g2, gx, f1, f0, fx, v1, vx, ns, nsx, no, se, id, u1, u2

\* The rows of every table, those with an x spare.
MCSchema == [
    Project |-> {p1, p2, p3, px},
    ProjectManager |-> {n1, n2, n3, n4, nx},
    ProjectFavorite |-> {fa},
    BackgroundImage |-> {i1, ix},
    BaseCustomFieldGroup |-> {bg, bgx},
    Board |-> {b1, bx},
    BoardMembership |-> {m1, m2, mx},
    BoardSubscription |-> {bs},
    Label |-> {la, lax},
    List |-> {l1, ar, tr, lx, ly},
    Card |-> {c1, c2, cx},
    CardLabel |-> {k1, kx},
    CardMembership |-> {cm, cmx},
    CardSubscription |-> {s1, s2, sx},
    TaskList |-> {tl, tlx},
    Task |-> {t1, t2, tx},
    Attachment |-> {at, atx},
    Comment |-> {co, cox},
    Action |-> {ac, ax},
    CustomFieldGroup |-> {g1, g2, gx},
    CustomField |-> {f1, f0, fx},
    CustomFieldValue |-> {v1, vx},
    NotificationService |-> {ns, nsx},
    Notification |-> {no},
    Session |-> {se},
    IdentityProviderUser |-> {id},
    User |-> {u1, u2} ]

\* The rows of the database at the start and the columns that refer to rows.
Columns ==
       (p1 :> [manager |-> None, background |-> i1])
    @@ (p2 :> [manager |-> None, background |-> None])
    @@ (p3 :> [manager |-> n3, background |-> None])
    @@ (n1 :> [project |-> p1, user |-> u1])
    @@ (n4 :> [project |-> p1, user |-> u2])
    @@ (n2 :> [project |-> p2, user |-> u2])
    @@ (n3 :> [project |-> p3, user |-> u2])
    @@ (fa :> [project |-> p1, user |-> u2])
    @@ (i1 :> [project |-> p1])
    @@ (bg :> [project |-> p1])
    @@ (b1 :> [project |-> p1])
    @@ (m1 :> [board |-> b1, user |-> u1, trait |-> "editor"])
    @@ (m2 :> [board |-> b1, user |-> u2, trait |-> "commenter"])
    @@ (bs :> [board |-> b1, user |-> u2])
    @@ (la :> [board |-> b1])
    @@ (l1 :> [board |-> b1, trait |-> "active"])
    @@ (ar :> [board |-> b1, trait |-> "archive"])
    @@ (tr :> [board |-> b1, trait |-> "trash"])
    @@ (c1 :> [list |-> l1, board |-> b1, creator |-> u2, cover |-> at])
    @@ (c2 :> [list |-> tr, board |-> b1, creator |-> u1, cover |-> None, prevList |-> l1])
    @@ (k1 :> [card |-> c1, label |-> la])
    @@ (cm :> [card |-> c1, user |-> u2])
    @@ (s1 :> [card |-> c1, user |-> u2, trait |-> "through membership"])
    @@ (s2 :> [card |-> c1, user |-> u1, trait |-> "permanent"])
    @@ (tl :> [card |-> c1])
    @@ (t1 :> [taskList |-> tl, linkedCard |-> c2, assignee |-> None])
    @@ (t2 :> [taskList |-> tl, linkedCard |-> None, assignee |-> u2])
    @@ (at :> [card |-> c1, creator |-> u2])
    @@ (co :> [card |-> c1, user |-> u2])
    @@ (ac :> [card |-> c1, board |-> b1, user |-> u2])
    @@ (g1 :> [card |-> c1, board |-> None, base |-> None])
    @@ (g2 :> [card |-> c1, board |-> None, base |-> bg])
    @@ (f1 :> [group |-> g1, base |-> None])
    @@ (f0 :> [group |-> None, base |-> bg])
    @@ (v1 :> [card |-> c1, group |-> g2, field |-> f0])
    @@ (ns :> [board |-> b1, user |-> None])
    @@ (no :> [user |-> u2, creator |-> u1, board |-> b1, card |-> c1])
    @@ (se :> [user |-> u2])
    @@ (id :> [user |-> u2])
    @@ (u1 :> [trait |-> "admin"])
    @@ (u2 :> [trait |-> "boardUser"])

MCRows0 == DOMAIN Columns
MCRef0 == [r \in Row |-> IF r \in MCRows0 THEN Columns[r] ELSE <<>>]

MCSymmetry == Permutations(Proc)
=============================================================================
