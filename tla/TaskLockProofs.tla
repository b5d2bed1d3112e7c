--------------------------- MODULE TaskLockProofs ---------------------------
(***************************************************************************)
(* Proofs about TaskLock, for any numbers of cards, actors, requests and   *)
(* replicas, any lease window and any number of operations.                *)
(***************************************************************************)
EXTENDS TaskLock, TLAPS

(***************************************************************************)
(* Type correctness of the card table and of every session.                *)
(***************************************************************************)
LEMMA TypeInit == Init => TypeOK
  <1> SUFFICES ASSUME Init PROVE TypeOK
    OBVIOUS
  <1>1. Window \in Nat
    BY TaskLockAssumption DEF Window
  <1>2. card \in [Tasks -> Row]
    <2>. DEFINE New(c) == [status |-> c, assignee |-> NoActor, version |-> 1,
                           archived |-> FALSE]
    <2>1. \A c \in InitialColumns : New(c) \in Row
      BY TaskLockAssumption DEF Row
    <2>2. card \in [Tasks -> {New(c) : c \in InitialColumns}]
      BY DEF Init
    <2>. HIDE DEF New
    <2>. QED
      BY <2>1, <2>2
  <1>3. hist \in [Tasks -> Status]
    BY <1>2 DEF Init, Row
  <1>. QED
    BY <1>1, <1>2, <1>3 DEF Init, TypeOK, NoActivity

LEMMA TypeBegin ==
    ASSUME TypeOK, NEW s \in Sessions, BeginSome(s)
    PROVE  TypeOK'
  <1>1. ASSUME NEW t \in Tasks, NEW op, NEW a \in Actors \cup {NoActor},
               NEW e \in Nat, NEW c \in Status,
               op \in {"claim", "release", "update", "bridge",
                       "metadata", "archive", "unarchive"},
               Begin(s, t, op, a, e, c)
        PROVE  TypeOK'
    <2>1. [op |-> op, task |-> t, actor |-> a, exp |-> e, to |-> c,
           snap |-> card[t]] \in Request
      BY <1>1 DEF TypeOK, Request
    <2>. QED
      BY <1>1, <2>1 DEF TypeOK, Begin
  <1>2. \A t \in Tasks : card[t].status \in Status /\ card[t].version \in Nat
                         /\ Shown(t) \subseteq Nat
    BY DEF TypeOK, Row, Shown
  <1>3. "em_andamento" \in Status /\ "tasks" \in Status
    BY DEF Status
  <1>4. PICK t \in Tasks :
       \/ \E a \in Actors : BeginClaim(s, t, a)
       \/ BeginRelease(s, t)
       \/ \E a \in Actors, e \in Shown(t), c \in Status : BeginUpdate(s, t, a, e, c)
       \/ \E c \in Status : BeginBridge(s, t, c)
       \/ \E e \in Shown(t) : BeginMetadata(s, t, e)
       \/ \E a \in Actors, e \in Shown(t) : BeginArchive(s, t, a, e)
       \/ \E e \in Shown(t) : BeginUnarchive(s, t, e)
    BY DEF BeginSome
  <1>5. CASE \E a \in Actors : BeginClaim(s, t, a)
    BY <1>1, <1>2, <1>3, <1>5 DEF BeginClaim
  <1>6. CASE BeginRelease(s, t)
    BY <1>1, <1>2, <1>3, <1>6 DEF BeginRelease
  <1>7. CASE \E a \in Actors, e \in Shown(t), c \in Status : BeginUpdate(s, t, a, e, c)
    BY <1>1, <1>2, <1>7 DEF BeginUpdate
  <1>8. CASE \E c \in Status : BeginBridge(s, t, c)
    BY <1>1, <1>2, <1>8 DEF BeginBridge
  <1>9. CASE \E e \in Shown(t) : BeginMetadata(s, t, e)
    BY <1>1, <1>2, <1>9 DEF BeginMetadata
  <1>10. CASE \E a \in Actors, e \in Shown(t) : BeginArchive(s, t, a, e)
    BY <1>1, <1>2, <1>10 DEF BeginArchive
  <1>11. CASE \E e \in Shown(t) : BeginUnarchive(s, t, e)
    BY <1>1, <1>2, <1>11 DEF BeginUnarchive
  <1>. QED
    BY <1>4, <1>5, <1>6, <1>7, <1>8, <1>9, <1>10, <1>11

LEMMA TypeCommit ==
    ASSUME TypeOK, NEW s \in Sessions, CommitSome(s)
    PROVE  TypeOK'
  <1>. DEFINE r == sess[s]
  <1>1. r \in Request
    BY DEF TypeOK, CommitSome, CommitClaim, CommitRelease, CommitUpdate,
           CommitBridge, CommitMetadata, CommitArchive, CommitUnarchive,
           Conditional, Idle
  <1>2. /\ r.task \in Tasks /\ r.actor \in Actors \cup {NoActor}
        /\ r.to \in Status /\ r.snap \in Row
    BY <1>1 DEF Request
  <1>3. card[r.task] \in Row /\ card[r.task].version + 1 \in Nat
        /\ card[r.task].status \in Status
        /\ card[r.task].assignee \in Actors \cup {NoActor}
    BY <1>2 DEF TypeOK, Row
  <1>4. 0 \in NoActivity .. Window + 1
    BY TaskLockAssumption DEF Window, NoActivity
  <1>5. sess' = [sess EXCEPT ![s] = Idle] => sess' \in [Sessions -> Request \cup {Idle}]
    BY DEF TypeOK
  <1>6. CASE CommitClaim(s)
    <2>1. CASE ApplyClaim(r)
      <3>1. card' \in [Tasks -> Row]
        BY <2>1, <1>2, <1>3 DEF ApplyClaim, TypeOK, Row
      <3>2. overlap' \in [Tasks -> SUBSET {"claim", "release"}]
        BY <2>1, <1>2, <1>6 DEF ApplyClaim, NoteOverlap, TypeOK, CommitClaim
      <3>. QED
        BY <1>2, <1>4, <1>5, <1>6, <2>1, <3>1, <3>2 DEF ApplyClaim, CommitClaim, End, TypeOK
    <2>2. CASE Refuse
      BY <1>5, <1>6, <2>2 DEF Refuse, CommitClaim, End, TypeOK
    <2>. QED
      BY <1>6, <2>1, <2>2 DEF CommitClaim
  <1>7. CASE CommitRelease(s)
    <2>1. card' \in [Tasks -> Row]
      <3> DEFINE c == card[r.task]
                 status == IF r.snap.status = "tasks" THEN c.status ELSE "tasks"
                 assignee == IF r.snap.assignee = NoActor THEN c.assignee ELSE NoActor
                 new == [c EXCEPT !.status = status, !.assignee = assignee,
                                  !.version = r.snap.version + 1]
      <3>1. c \in Row /\ status \in Status /\ r.snap.version + 1 \in Nat
        BY <1>2, <1>3 DEF TypeOK, Row, Status
      <3>2. new \in Row
        BY <3>1 DEF Row
      <3>3. card' = [card EXCEPT ![r.task] = new]
        BY <1>2, <1>7 DEF CommitRelease, TypeOK
      <3> QED
        BY <3>2, <3>3 DEF TypeOK
    <2>2. overlap' \in [Tasks -> SUBSET {"claim", "release"}]
      BY <1>2, <1>7 DEF CommitRelease, NoteOverlap, TypeOK
    <2>3. "tasks" \in Status
      BY DEF Status
    <2>. QED
      BY <1>2, <1>4, <1>5, <1>7, <2>1, <2>2, <2>3 DEF CommitRelease, End, TypeOK
  <1>8. ASSUME sess' = [sess EXCEPT ![s] = Idle], UNCHANGED <<sweep, ops>>,
               \/ ApplyStatus(r) /\ UNCHANGED overlap
               \/ ApplyMetadata(r) /\ UNCHANGED overlap
               \/ ApplyArchive(r) /\ UNCHANGED overlap
               \/ ApplyUnarchive(r) /\ UNCHANGED overlap
               \/ Refuse
        PROVE  TypeOK'
    <2>1. card' \in [Tasks -> Row]
      <3>1. CASE ApplyStatus(r)
        BY <1>2, <1>3, <3>1 DEF ApplyStatus, TypeOK, Row
      <3>2. CASE ApplyMetadata(r)
        BY <1>2, <1>3, <3>2 DEF ApplyMetadata, TypeOK, Row
      <3>3. CASE ApplyArchive(r)
        BY <1>2, <1>3, <3>3 DEF ApplyArchive, TypeOK, Row
      <3>4. CASE ApplyUnarchive(r)
        BY <1>2, <1>3, <3>4 DEF ApplyUnarchive, TypeOK, Row
      <3>5. CASE Refuse
        BY <3>5 DEF Refuse, TypeOK
      <3>. QED
        BY <1>8, <3>1, <3>2, <3>3, <3>4, <3>5
    <2>2. age' \in [Tasks -> NoActivity .. Window + 1] /\ hist' \in [Tasks -> Status]
      <3>. DEFINE Ages == NoActivity .. Window + 1
      <3>1. age \in [Tasks -> Ages] /\ hist \in [Tasks -> Status] /\ 0 \in Ages
        BY <1>4 DEF TypeOK
      <3>. HIDE DEF Ages
      <3>2. age' \in [Tasks -> Ages] /\ hist' \in [Tasks -> Status]
        BY <1>2, <1>8, <3>1 DEF ApplyStatus, ApplyMetadata, ApplyArchive,
                                ApplyUnarchive, Refuse
      <3>. QED
        BY <3>2 DEF Ages
    <2>. QED
      BY <1>5, <1>8, <2>1, <2>2 DEF Refuse, TypeOK
  <1>9. CASE CommitUpdate(s)
    BY <1>8, <1>9 DEF CommitUpdate, Conditional, End
  <1>10. CASE CommitBridge(s)
    BY <1>8, <1>10 DEF CommitBridge, Conditional, End
  <1>11. CASE CommitMetadata(s)
    BY <1>8, <1>11 DEF CommitMetadata, Conditional, End
  <1>12. CASE CommitArchive(s)
    BY <1>8, <1>12 DEF CommitArchive, Conditional, End
  <1>13. CASE CommitUnarchive(s)
    BY <1>8, <1>13 DEF CommitUnarchive, Conditional, End
  <1>. QED
    BY <1>6, <1>7, <1>9, <1>10, <1>11, <1>12, <1>13 DEF CommitSome

LEMMA TypeSweep ==
    ASSUME TypeOK, NEW w \in Sweepers, SweepStep(w)
    PROVE  TypeOK'
  <1>. DEFINE Pass == [todo : SUBSET Tasks, snap : [Tasks -> Row \cup {NoRow}]]
  <1>1. sweep[w] \in Pass
    BY DEF TypeOK
  <1>2. CASE SweepSelect(w)
    <2>1. [todo |-> {t \in Tasks : Eligible(t)},
           snap |-> [t \in Tasks |-> IF t \in {u \in Tasks : Eligible(u)}
                                     THEN card[t] ELSE NoRow]] \in Pass
      BY DEF TypeOK
    <2>. QED
      BY <1>2, <2>1 DEF SweepSelect, TypeOK
  <1>3. ASSUME NEW t \in Tasks, SweepLoad(w, t) PROVE TypeOK'
    <2>1. [sweep[w] EXCEPT !.snap[t] = card[t]] \in Pass
      BY <1>1 DEF TypeOK
    <2>. QED
      BY <1>3, <2>1 DEF SweepLoad, TypeOK
  <1>4. ASSUME NEW t \in Tasks, SweepSkip(w, t) PROVE TypeOK'
    <2>1. [sweep[w] EXCEPT !.todo = @ \ {t}, !.snap[t] = NoRow] \in Pass
      BY <1>1 DEF TypeOK
    <2>. QED
      BY <1>4, <2>1 DEF SweepSkip, TypeOK
  <1>5. ASSUME NEW t \in Tasks, SweepRelease(w, t) PROVE TypeOK'
    <2>1. [todo |-> sweep[w].todo \ {t}, snap |-> [u \in Tasks |-> NoRow]] \in Pass
      BY <1>1
    <2>2. sweep' \in [Sweepers -> Pass]
      BY <1>5, <2>1 DEF SweepRelease, TypeOK
    <2>3. 0 \in NoActivity .. Window + 1 /\ "tasks" \in Status
      BY TaskLockAssumption DEF Window, NoActivity, Status
    <2>4. CASE ApplyTimeout(t)
      <3>1. card' \in [Tasks -> Row]
        BY <1>5, <2>3, <2>4 DEF ApplyTimeout, TypeOK, Row
      <3>. QED
        BY <1>5, <2>2, <2>3, <2>4, <3>1 DEF ApplyTimeout, SweepRelease, TypeOK
    <2>5. CASE Refuse
      BY <1>5, <2>2, <2>5 DEF Refuse, SweepRelease, TypeOK
    <2>. QED
      BY <1>5, <2>4, <2>5 DEF SweepRelease
  <1>. QED
    BY <1>2, <1>3, <1>4, <1>5 DEF SweepStep

LEMMA TypeEdit ==
    ASSUME TypeOK, NEW t \in Tasks, BridgeEdit(t)
    PROVE  TypeOK'
  <1>1. card[t] \in Row /\ card[t].version + 1 \in Nat
    BY DEF TypeOK, Row
  <1>2. card' \in [Tasks -> Row]
    BY <1>1 DEF BridgeEdit, TypeOK, Row
  <1>. QED
    BY <1>2 DEF BridgeEdit, TypeOK

LEMMA TypeStep == TypeOK /\ [Next]_vars => TypeOK'
  <1> SUFFICES ASSUME TypeOK, [Next]_vars PROVE TypeOK'
    OBVIOUS
  <1>1. CASE Tick
    <2>1. age' \in [Tasks -> NoActivity .. Window + 1]
      BY <1>1, TaskLockAssumption DEF Tick, TypeOK, Window, NoActivity
    <2>. QED
      BY <1>1, <2>1 DEF Tick, TypeOK
  <1>2. CASE UNCHANGED vars
    BY <1>2 DEF vars, TypeOK
  <1>. QED
    BY <1>1, <1>2, TypeBegin, TypeCommit, TypeEdit, TypeSweep DEF Next

(***************************************************************************)
(* Every reachable state is well typed: the rows, what each session and    *)
(* each pass loaded, and the lease counters.                               *)
(***************************************************************************)
THEOREM TypeCorrect == Spec => []TypeOK
  BY TypeInit, TypeStep, PTL DEF Spec

-----------------------------------------------------------------------------
(***************************************************************************)
(* The versioned writes.  What a request was admitted on, as a fact about  *)
(* the row its session loaded.                                             *)
(***************************************************************************)
Admitted(r) ==
    /\ r.op \in Conditionals => r.exp <= r.snap.version /\ r.exp \in Nat
    /\ r.op = "claim" => r.to # "tasks"
    /\ r.op = "update" => StatusPolicy(r.snap, r.to, r.actor)
    /\ r.op = "bridge" => r.to # "tasks"
    /\ r.op \in {"release", "update", "bridge", "archive"} => ~r.snap.archived
    /\ r.op = "archive" => ArchivePolicy(r.snap, r.actor)

AllAdmitted == \A s \in Sessions : sess[s] # Idle => Admitted(sess[s])

\* The inductive invariant.
IInv ==
    /\ TypeOK
    /\ AllAdmitted
    /\ VersionIdentifiesRow
    /\ BacklogIsUnowned
    /\ HistoryLeadsToColumn

(***************************************************************************)
(* What any step does to a row: leave it, write its next version, or be a  *)
(* manual release over a changed row; and such a card is never forgotten.  *)
(***************************************************************************)
NextVersion(t) ==
    \/ card'[t] = card[t]
    \/ card'[t].version = card[t].version + 1
    \/ ~Versioned(t)'

\* What any step does to what sessions and passes have loaded.
LoadsCurrent(s) ==
    \/ sess'[s] = sess[s]
    \/ sess'[s] = Idle
    \/ /\ sess'[s] \in Request
       /\ sess'[s].snap = card[sess'[s].task]
       /\ card' = card
       /\ Admitted(sess'[s])

PassLoadsCurrent(w, t) ==
    \/ sweep'[w].snap[t] = sweep[w].snap[t]
    \/ sweep'[w].snap[t] = NoRow
    \/ sweep'[w].snap[t] = card[t] /\ card' = card

StepShape ==
    /\ \A t \in Tasks : NextVersion(t)
    /\ \A t \in Tasks : overlap[t] \subseteq overlap'[t]
    /\ \A s \in Sessions : LoadsCurrent(s)
    /\ \A w \in Sweepers, t \in Tasks : PassLoadsCurrent(w, t)

LEMMA ShapeBegin ==
    ASSUME TypeOK, NEW s \in Sessions, BeginSome(s)
    PROVE  StepShape
  <1>1. ASSUME NEW t \in Tasks, NEW op, NEW a \in Actors \cup {NoActor},
               NEW e \in Nat, NEW c \in Status,
               op \in {"claim", "release", "update", "bridge",
                       "metadata", "archive", "unarchive"},
               op \in Conditionals => e <= card[t].version,
               op = "claim" => c # "tasks",
               op = "update" => StatusPolicy(card[t], c, a),
               op = "bridge" => c # "tasks",
               op \in {"release", "update", "bridge", "archive"} => ~card[t].archived,
               op = "archive" => ArchivePolicy(card[t], a),
               Begin(s, t, op, a, e, c)
        PROVE  StepShape
    <2>. DEFINE r == [op |-> op, task |-> t, actor |-> a, exp |-> e, to |-> c,
                      snap |-> card[t]]
    <2>1. r \in Request /\ r.snap = card[r.task]
      BY <1>1 DEF TypeOK, Request
    <2>2. Admitted(r)
      BY <1>1 DEF Admitted
    <2>3. sess' = [sess EXCEPT ![s] = r]
      BY <1>1 DEF Begin
    <2>4. UNCHANGED <<card, overlap, sweep>>
      BY <1>1 DEF Begin
    <2>5. \A z \in Sessions : LoadsCurrent(z)
      <3>1. \A z \in Sessions : sess'[z] = IF z = s THEN r ELSE sess[z]
        BY <2>3 DEF TypeOK
      <3>. HIDE DEF r
      <3>. QED
        BY <2>1, <2>2, <2>4, <3>1 DEF LoadsCurrent
    <2>. QED
      BY <2>4, <2>5 DEF StepShape, NextVersion, PassLoadsCurrent
  <1>2. \A t \in Tasks : card[t].status \in Status /\ card[t].version \in Nat
    BY DEF TypeOK, Row
  <1>3. \A t \in Tasks : \A e \in Shown(t) : e \in Nat /\ e <= card[t].version
    BY <1>2 DEF Shown
  <1>4. "em_andamento" \in Status /\ "tasks" \in Status
    BY DEF Status
  <1>5. PICK t \in Tasks :
       \/ \E a \in Actors : BeginClaim(s, t, a)
       \/ BeginRelease(s, t)
       \/ \E a \in Actors, e \in Shown(t), c \in Status : BeginUpdate(s, t, a, e, c)
       \/ \E c \in Status : BeginBridge(s, t, c)
       \/ \E e \in Shown(t) : BeginMetadata(s, t, e)
       \/ \E a \in Actors, e \in Shown(t) : BeginArchive(s, t, a, e)
       \/ \E e \in Shown(t) : BeginUnarchive(s, t, e)
    BY DEF BeginSome
  <1>6. CASE \E a \in Actors : BeginClaim(s, t, a)
    <2>1. PICK a \in Actors : BeginClaim(s, t, a)
      BY <1>6
    <2>. DEFINE c == IF IsAdopt(card[t], a) THEN card[t].status ELSE "em_andamento"
    <2>2. c \in Status /\ c # "tasks"
      BY <1>2, <1>4 DEF IsAdopt
    <2>3. Begin(s, t, "claim", a, 0, c)
      BY <2>1 DEF BeginClaim
    <2>. HIDE DEF c
    <2>. QED
      BY <1>1, <2>2, <2>3 DEF Conditionals
  <1>7. CASE BeginRelease(s, t)
    BY <1>1, <1>4, <1>7 DEF BeginRelease, Conditionals
  <1>8. CASE \E a \in Actors, e \in Shown(t), c \in Status : BeginUpdate(s, t, a, e, c)
    BY <1>1, <1>3, <1>8 DEF BeginUpdate
  <1>9. CASE \E c \in Status : BeginBridge(s, t, c)
    BY <1>1, <1>2, <1>9 DEF BeginBridge
  <1>10. CASE \E e \in Shown(t) : BeginMetadata(s, t, e)
    BY <1>1, <1>2, <1>3, <1>10 DEF BeginMetadata
  <1>11. CASE \E a \in Actors, e \in Shown(t) : BeginArchive(s, t, a, e)
    BY <1>1, <1>2, <1>3, <1>11 DEF BeginArchive
  <1>12. CASE \E e \in Shown(t) : BeginUnarchive(s, t, e)
    <2>1. PICK e \in Shown(t) : Begin(s, t, "unarchive", NoActor, e, card[t].status)
      BY <1>12 DEF BeginUnarchive
    <2>2. card[t].status \in Status /\ e \in Nat /\ e <= card[t].version
      BY <1>2, <1>3
    <2>3. /\ "unarchive" \in Conditionals => e <= card[t].version
          /\ "unarchive" = "claim" => card[t].status # "tasks"
          /\ "unarchive" = "update" => StatusPolicy(card[t], card[t].status, NoActor)
          /\ "unarchive" = "bridge" => card[t].status # "tasks"
          /\ "unarchive" \in {"update", "bridge", "archive"} => ~card[t].archived
          /\ "unarchive" = "archive" => ArchivePolicy(card[t], NoActor)
      BY <2>2
    <2>4. NoActor \in Actors \cup {NoActor}
      OBVIOUS
    <2>. QED
      BY <1>1, <2>1, <2>2, <2>3, <2>4
  <1>. QED
    BY <1>5, <1>6, <1>7, <1>8, <1>9, <1>10, <1>11, <1>12

LEMMA ShapeCommit ==
    ASSUME TypeOK, NEW s \in Sessions, CommitSome(s)
    PROVE  StepShape
  <1>. DEFINE r == sess[s]
  <1>1. r \in Request
    BY DEF TypeOK, CommitSome, CommitClaim, CommitRelease, CommitUpdate,
           CommitBridge, CommitMetadata, CommitArchive, CommitUnarchive,
           Conditional, Idle
  <1>2. r.task \in Tasks /\ r.snap \in Row
    BY <1>1 DEF Request
  <1>3. /\ sess' = [sess EXCEPT ![s] = Idle]
        /\ UNCHANGED sweep
    BY DEF CommitSome, CommitClaim, CommitRelease, CommitUpdate, CommitBridge,
           CommitMetadata, CommitArchive, CommitUnarchive, Conditional, End
  <1>4. /\ \A z \in Sessions : LoadsCurrent(z)
        /\ \A w \in Sweepers, t \in Tasks : PassLoadsCurrent(w, t)
    BY <1>3 DEF LoadsCurrent, PassLoadsCurrent, TypeOK
  <1>5. /\ \A t \in Tasks : NextVersion(t)
        /\ \A t \in Tasks : overlap[t] \subseteq overlap'[t]
    <2>1. CASE Refuse
      BY <2>1 DEF Refuse, NextVersion
    <2>2. CASE ApplyClaim(r)
      BY <2>2, <1>2 DEF ApplyClaim, NextVersion, NoteOverlap, TypeOK, Row
    <2>3. CASE CommitRelease(s)
      <3>1. ASSUME card[r.task] = r.snap
            PROVE  card'[r.task].version = card[r.task].version + 1
        BY <2>3, <3>1, <1>2 DEF CommitRelease, TypeOK, Row
      <3>2. ASSUME NEW t \in Tasks, t = r.task, card[t] # r.snap PROVE ~Versioned(t)'
        <4>1. overlap'[t] = overlap[t] \cup {"release"}
          BY <2>3, <3>2 DEF CommitRelease, NoteOverlap, TypeOK
        <4>. QED
          BY <4>1 DEF Versioned
      <3>3. \A t \in Tasks : t # r.task => card'[t] = card[t]
        BY <2>3, <1>2 DEF CommitRelease, TypeOK
      <3>4. \A t \in Tasks : overlap[t] \subseteq overlap'[t]
        BY <2>3, <1>2 DEF CommitRelease, NoteOverlap, TypeOK
      <3>. QED
        <4>1. \A t \in Tasks : NextVersion(t)
          BY <3>1, <3>2, <3>3 DEF NextVersion
        <4>. QED
          BY <3>4, <4>1
    <2>4. CASE ApplyStatus(r) /\ UNCHANGED overlap
      BY <2>4, <1>2 DEF ApplyStatus, NextVersion, TypeOK, Row
    <2>5. CASE ApplyMetadata(r) /\ UNCHANGED overlap
      BY <2>5, <1>2 DEF ApplyMetadata, NextVersion, TypeOK, Row
    <2>6. CASE ApplyArchive(r) /\ UNCHANGED overlap
      BY <2>6, <1>2 DEF ApplyArchive, NextVersion, TypeOK, Row
    <2>7. CASE ApplyUnarchive(r) /\ UNCHANGED overlap
      BY <2>7, <1>2 DEF ApplyUnarchive, NextVersion, TypeOK, Row
    <2>. QED
      BY <2>1, <2>2, <2>3, <2>4, <2>5, <2>6, <2>7
         DEF CommitSome, CommitClaim, CommitUpdate, CommitBridge, CommitMetadata,
             CommitArchive, CommitUnarchive, Conditional
  <1>. QED
    BY <1>4, <1>5 DEF StepShape

LEMMA ShapeSweep ==
    ASSUME TypeOK, NEW w \in Sweepers, SweepStep(w)
    PROVE  StepShape
  <1>1. UNCHANGED <<sess, overlap>>
    BY DEF SweepStep, SweepSelect, SweepLoad, SweepSkip, SweepRelease,
           ApplyTimeout, Refuse
  <1>2. \A t \in Tasks : NextVersion(t)
    <2>1. CASE UNCHANGED card
      BY <2>1 DEF NextVersion
    <2>2. ASSUME NEW t \in Tasks, ApplyTimeout(t) PROVE \A u \in Tasks : NextVersion(u)
      BY <2>2 DEF ApplyTimeout, NextVersion, TypeOK, Row
    <2>. QED
      BY <2>1, <2>2 DEF SweepStep, SweepSelect, SweepLoad, SweepSkip, SweepRelease, Refuse
  <1>3. \A v \in Sweepers, t \in Tasks : PassLoadsCurrent(v, t)
    <2>. DEFINE Pass == [todo : SUBSET Tasks, snap : [Tasks -> Row \cup {NoRow}]]
    <2>1. sweep \in [Sweepers -> Pass]
      BY DEF TypeOK
    <2>2. CASE SweepSelect(w)
      BY <2>1, <2>2 DEF SweepSelect, PassLoadsCurrent
    <2>3. ASSUME NEW t \in Tasks, SweepLoad(w, t)
          PROVE  \A v \in Sweepers, u \in Tasks : PassLoadsCurrent(v, u)
      BY <2>1, <2>3 DEF SweepLoad, PassLoadsCurrent
    <2>4. ASSUME NEW t \in Tasks, SweepSkip(w, t)
          PROVE  \A v \in Sweepers, u \in Tasks : PassLoadsCurrent(v, u)
      BY <2>1, <2>4 DEF SweepSkip, PassLoadsCurrent
    <2>5. ASSUME NEW t \in Tasks, SweepRelease(w, t)
          PROVE  \A v \in Sweepers, u \in Tasks : PassLoadsCurrent(v, u)
      BY <2>1, <2>5 DEF SweepRelease, PassLoadsCurrent
    <2>. QED
      BY <2>2, <2>3, <2>4, <2>5 DEF SweepStep
  <1>. QED
    BY <1>1, <1>2, <1>3 DEF StepShape, LoadsCurrent

LEMMA Shape == TypeOK /\ [Next]_vars => StepShape
  <1> SUFFICES ASSUME TypeOK, [Next]_vars PROVE StepShape
    OBVIOUS
  <1>1. CASE Tick \/ UNCHANGED vars
    BY <1>1 DEF Tick, vars, StepShape, NextVersion, LoadsCurrent, PassLoadsCurrent
  <1>2. ASSUME NEW t \in Tasks, BridgeEdit(t) PROVE StepShape
    <2>1. \A u \in Tasks : NextVersion(u)
      BY <1>2 DEF BridgeEdit, NextVersion, TypeOK, Row
    <2>. QED
      BY <1>2, <2>1 DEF BridgeEdit, StepShape, LoadsCurrent, PassLoadsCurrent
  <1>. QED
    BY <1>1, <1>2, ShapeBegin, ShapeCommit, ShapeSweep DEF Next

(***************************************************************************)
(* A version identifies a row, from the shape of the steps alone.          *)
(***************************************************************************)
LEMMA LoadedRowsStayCurrent ==
    ASSUME TypeOK, TypeOK', StepShape, VersionIdentifiesRow
    PROVE  VersionIdentifiesRow'
  <1>1. ASSUME NEW t \in Tasks, NEW snap \in Row, "release" \notin overlap'[t],
               "release" \notin overlap[t] => Current(snap, card[t])
        PROVE  Current(snap, card'[t])
    <2>1. card[t].version \in Nat /\ card'[t].version \in Nat /\ snap.version \in Nat
      BY DEF TypeOK, Row
    <2>2. "release" \notin overlap[t]
      BY <1>1 DEF StepShape
    <2>3. CASE card'[t] = card[t]
      BY <1>1, <2>2, <2>3
    <2>4. CASE card'[t].version = card[t].version + 1
      BY <1>1, <2>1, <2>2, <2>4 DEF Current
    <2>. QED
      BY <1>1, <2>3, <2>4 DEF StepShape, NextVersion, Versioned
  <1>2. \A t \in Tasks : Current(card[t], card[t])
    BY DEF Current, TypeOK, Row
  <1>3. ASSUME NEW s \in Sessions, sess'[s] # Idle, "release" \notin overlap'[sess'[s].task]
        PROVE  Current(sess'[s].snap, card'[sess'[s].task])
    <2>1. sess'[s] \in Request
      BY <1>3 DEF TypeOK
    <2>2. sess'[s].task \in Tasks /\ sess'[s].snap \in Row
      BY <2>1 DEF Request
    <2>3. "release" \notin overlap[sess'[s].task]
            => Current(sess'[s].snap, card[sess'[s].task])
      <3>1. CASE sess'[s] = sess[s]
        BY <1>3, <3>1 DEF VersionIdentifiesRow, Versioned
      <3>2. CASE sess'[s].snap = card[sess'[s].task]
        BY <1>2, <2>2, <3>2
      <3>. QED
        BY <1>3, <3>1, <3>2 DEF StepShape, LoadsCurrent
    <2>. QED
      BY <1>1, <1>3, <2>2, <2>3
  <1>4. ASSUME NEW w \in Sweepers, NEW t \in Tasks,
               sweep'[w].snap[t] # NoRow, "release" \notin overlap'[t]
        PROVE  Current(sweep'[w].snap[t], card'[t])
    <2>1. sweep'[w].snap[t] \in Row
      BY <1>4 DEF TypeOK
    <2>2. "release" \notin overlap[t] => Current(sweep'[w].snap[t], card[t])
      <3>1. CASE sweep'[w].snap[t] = sweep[w].snap[t]
        BY <1>4, <3>1 DEF VersionIdentifiesRow, Versioned
      <3>2. CASE sweep'[w].snap[t] = card[t]
        BY <1>2, <3>2
      <3>. QED
        BY <1>4, <3>1, <3>2 DEF StepShape, PassLoadsCurrent
    <2>. QED
      BY <1>1, <1>4, <2>1, <2>2
  <1>. QED
    BY <1>3, <1>4 DEF VersionIdentifiesRow, Versioned

LEMMA AdmittedStays ==
    ASSUME AllAdmitted, StepShape PROVE AllAdmitted'
  BY DEF AllAdmitted, StepShape, LoadsCurrent

(***************************************************************************)
(* The step every versioned write rests on: a matching version means that  *)
(* the row is the one the request was admitted on.                         *)
(***************************************************************************)
LEMMA MatchMeansUnchanged ==
    ASSUME TypeOK, AllAdmitted, VersionIdentifiesRow, NEW s \in Sessions,
           sess[s] \in Request, sess[s] # Idle, sess[s].op \in Conditionals,
           VersionMatches(sess[s]), Versioned(sess[s].task)
    PROVE  sess[s].snap = card[sess[s].task]
  <1>1. Current(sess[s].snap, card[sess[s].task])
    BY DEF VersionIdentifiesRow
  <1>2. sess[s].exp <= sess[s].snap.version
    BY DEF AllAdmitted, Admitted
  <1>3. sess[s].snap \in Row /\ card[sess[s].task] \in Row
    BY DEF Request, TypeOK
  <1>4. sess[s].snap.version \in Nat /\ card[sess[s].task].version \in Nat
    BY <1>3 DEF Row
  <1>. QED
    BY <1>1, <1>2, <1>4 DEF Current, VersionMatches

LEMMA RequestsAreNotIdle ==
    ASSUME TypeOK, NEW s \in Sessions, sess[s].op # "idle"
    PROVE  sess[s] \in Request /\ sess[s] # Idle
  BY DEF TypeOK, Idle

\* The two facts about a card that a step must keep.
CardFacts(t) ==
    /\ Versioned(t) /\ card[t].status = "tasks" => card[t].assignee = NoActor
    /\ overlap[t] = {} => hist[t] = card[t].status

AllCardFacts == \A t \in Tasks : CardFacts(t)

LEMMA CardFactsCommit ==
    ASSUME TypeOK, AllAdmitted, VersionIdentifiesRow, AllCardFacts,
           NEW s \in Sessions, CommitSome(s)
    PROVE  AllCardFacts'
  <1>1. sess[s] \in Request /\ sess[s] # Idle
    BY RequestsAreNotIdle
       DEF CommitSome, CommitClaim, CommitRelease, CommitUpdate, CommitBridge,
           CommitMetadata, CommitArchive, CommitUnarchive, Conditional
  <1>2. PICK r \in Request : r = sess[s]
    BY <1>1
  <1>3. PICK k \in Tasks : k = r.task
    BY DEF Request
  <1>4. /\ card[k] \in Row /\ r.snap \in Row
        /\ CardFacts(k) /\ Admitted(r)
    BY <1>1, <1>2, <1>3 DEF TypeOK, Request, AllAdmitted, AllCardFacts
  <1>5. ASSUME \A t \in Tasks \ {k} : /\ card'[t] = card[t]
                                     /\ hist'[t] = hist[t]
                                     /\ overlap'[t] = overlap[t],
               CardFacts(k)'
        PROVE  AllCardFacts'
    BY <1>5 DEF AllCardFacts, CardFacts, Versioned
  <1>6. CASE Refuse
    BY <1>6 DEF Refuse, AllCardFacts, CardFacts, Versioned
  <1>7. CASE CommitClaim(s) /\ ApplyClaim(r)
    <2>1. card'[k].status = r.to /\ r.to # "tasks"
      BY <1>2, <1>3, <1>4, <1>7 DEF ApplyClaim, CommitClaim, TypeOK, Row, Admitted
    <2>2. hist'[k] = IF r.snap.status # r.to THEN r.to ELSE hist[k]
      BY <1>3, <1>7 DEF ApplyClaim, TypeOK
    <2>3. overlap'[k] = {} => overlap[k] = {} /\ card[k] = r.snap
      BY <1>3, <1>7 DEF ApplyClaim, NoteOverlap, TypeOK
    <2>4. CardFacts(k)'
      BY <1>4, <2>1, <2>2, <2>3 DEF CardFacts
    <2>. QED
      BY <1>3, <1>5, <1>7, <2>4 DEF ApplyClaim, NoteOverlap, TypeOK
  <1>8. CASE CommitRelease(s)
    <2>1. overlap'[k] = IF card[k] = r.snap THEN overlap[k] ELSE overlap[k] \cup {"release"}
      BY <1>2, <1>3, <1>8 DEF CommitRelease, NoteOverlap, TypeOK
    <2>2. /\ card'[k].status = IF r.snap.status = "tasks" THEN card[k].status ELSE "tasks"
          /\ card'[k].assignee = IF r.snap.assignee = NoActor THEN card[k].assignee
                                                              ELSE NoActor
          /\ hist'[k] = "tasks"
      BY <1>2, <1>3, <1>4, <1>8 DEF CommitRelease, TypeOK, Row
    <2>3. ASSUME card[k] = r.snap PROVE CardFacts(k)'
      BY <2>2, <2>3 DEF CardFacts
    <2>4. ASSUME card[k] # r.snap PROVE CardFacts(k)'
      BY <2>1, <2>4 DEF CardFacts, Versioned
    <2>. QED
      BY <1>2, <1>3, <1>5, <1>8, <2>3, <2>4 DEF CommitRelease, NoteOverlap, TypeOK
  <1>9. ASSUME r.op \in {"update", "bridge"}, VersionMatches(r), ApplyStatus(r),
               UNCHANGED overlap
        PROVE  AllCardFacts'
    <2>1. Versioned(k) => r.snap = card[k]
      BY <1>1, <1>2, <1>3, <1>9, MatchMeansUnchanged DEF Conditionals
    <2>2. /\ card'[k].status = r.to
          /\ card'[k].assignee = card[k].assignee
          /\ hist'[k] = IF r.to # r.snap.status THEN r.to ELSE hist[k]
      BY <1>3, <1>4, <1>9 DEF ApplyStatus, TypeOK, Row
    <2>3. r.to = "tasks" => r.snap.status = "tasks"
      BY <1>4, <1>9 DEF Admitted, StatusPolicy
    <2>4. overlap[k] = {} => Versioned(k)
      BY DEF Versioned
    <2>5. Versioned(k)' <=> Versioned(k)
      BY <1>9 DEF Versioned
    <2>6. CardFacts(k)'
      BY <1>4, <1>9, <2>1, <2>2, <2>3, <2>4, <2>5 DEF CardFacts
    <2>. QED
      BY <1>3, <1>5, <1>9, <2>6 DEF ApplyStatus, TypeOK
  <1>10. ASSUME ApplyMetadata(r) \/ ApplyArchive(r) \/ ApplyUnarchive(r),
                UNCHANGED overlap
         PROVE  AllCardFacts'
    <2>1. /\ card'[k].status = card[k].status
          /\ card'[k].assignee = card[k].assignee
          /\ UNCHANGED hist
      <3>1. CASE ApplyMetadata(r)
        BY <1>3, <1>4, <3>1 DEF ApplyMetadata, TypeOK, Row
      <3>2. CASE ApplyArchive(r)
        BY <1>3, <1>4, <3>2 DEF ApplyArchive, TypeOK, Row
      <3>3. CASE ApplyUnarchive(r)
        BY <1>3, <1>4, <3>3 DEF ApplyUnarchive, TypeOK, Row
      <3>. QED
        BY <1>10, <3>1, <3>2, <3>3
    <2>2. CardFacts(k)'
      BY <1>4, <1>10, <2>1 DEF CardFacts, Versioned
    <2>3. \A t \in Tasks \ {k} : card'[t] = card[t]
      BY <1>3, <1>10 DEF ApplyMetadata, ApplyArchive, ApplyUnarchive, TypeOK
    <2>. QED
      BY <1>5, <1>10, <2>1, <2>2, <2>3
  <1>11. CASE CommitUpdate(s)
    BY <1>2, <1>6, <1>9, <1>11 DEF CommitUpdate, Conditional
  <1>12. CASE CommitBridge(s)
    BY <1>2, <1>6, <1>9, <1>12 DEF CommitBridge, Conditional
  <1>13. CASE CommitMetadata(s)
    BY <1>2, <1>6, <1>10, <1>13 DEF CommitMetadata, Conditional
  <1>14. CASE CommitArchive(s)
    BY <1>2, <1>6, <1>10, <1>14 DEF CommitArchive, Conditional
  <1>15. CASE CommitUnarchive(s)
    BY <1>2, <1>6, <1>10, <1>15 DEF CommitUnarchive, Conditional
  <1>16. CASE CommitClaim(s)
    BY <1>2, <1>6, <1>7, <1>16 DEF CommitClaim
  <1>. QED
    BY <1>8, <1>11, <1>12, <1>13, <1>14, <1>15, <1>16 DEF CommitSome

\* An edit on the board changes nothing of a card but its version.
LEMMA EditKeeps ==
    ASSUME TypeOK, NEW t \in Tasks, BridgeEdit(t), NEW u \in Tasks
    PROVE  /\ card'[u].status = card[u].status
           /\ card'[u].assignee = card[u].assignee
           /\ card'[u].archived = card[u].archived
           /\ hist'[u] = hist[u] /\ overlap'[u] = overlap[u]
  <1>1. card[t] \in Row /\ card \in [Tasks -> Row]
    BY DEF TypeOK
  <1>2. card' = [card EXCEPT ![t].version = @ + 1]
    BY DEF BridgeEdit
  <1>. QED
    BY <1>1, <1>2 DEF BridgeEdit, Row

LEMMA CardFactsStep ==
    ASSUME TypeOK, AllAdmitted, VersionIdentifiesRow, AllCardFacts, [Next]_vars
    PROVE  AllCardFacts'
  <1>1. ASSUME UNCHANGED <<card, hist, overlap>> PROVE AllCardFacts'
    BY <1>1 DEF AllCardFacts, CardFacts, Versioned
  <1>2. ASSUME NEW t \in Tasks, ApplyTimeout(t) PROVE AllCardFacts'
    <2>1. /\ card'[t].status = "tasks" /\ card'[t].assignee = NoActor
          /\ hist'[t] = "tasks"
      BY <1>2 DEF ApplyTimeout, TypeOK, Row
    <2>2. \A u \in Tasks \ {t} : card'[u] = card[u] /\ hist'[u] = hist[u]
      BY <1>2 DEF ApplyTimeout, TypeOK
    <2>. QED
      BY <1>2, <2>1, <2>2 DEF ApplyTimeout, AllCardFacts, CardFacts, Versioned
  <1>3. ASSUME NEW s \in Sessions, BeginSome(s) PROVE UNCHANGED <<card, hist, overlap>>
    BY <1>3 DEF BeginSome, BeginClaim, BeginRelease, BeginUpdate, BeginBridge,
                BeginMetadata, BeginArchive, BeginUnarchive, Begin
  <1>4. ASSUME NEW w \in Sweepers, SweepStep(w) PROVE AllCardFacts'
    BY <1>1, <1>2, <1>4 DEF SweepStep, SweepSelect, SweepLoad, SweepSkip,
                            SweepRelease, Refuse
  <1>5. CASE Tick \/ UNCHANGED vars
    BY <1>1, <1>5 DEF Tick, vars
  <1>6. ASSUME NEW t \in Tasks, BridgeEdit(t) PROVE AllCardFacts'
    BY <1>6, EditKeeps DEF AllCardFacts, CardFacts, Versioned
  <1>. QED
    BY <1>1, <1>3, <1>4, <1>5, <1>6, CardFactsCommit DEF Next

LEMMA InvInit == Init => IInv
  <1> SUFFICES ASSUME Init PROVE IInv
    OBVIOUS
  <1>1. AllAdmitted /\ VersionIdentifiesRow
    BY DEF Init, AllAdmitted, VersionIdentifiesRow
  <1>2. \A t \in Tasks : card[t].assignee = NoActor /\ hist[t] = card[t].status
    BY DEF Init
  <1>. QED
    BY <1>1, <1>2, TypeInit DEF IInv, BacklogIsUnowned, HistoryLeadsToColumn

LEMMA InvStep == IInv /\ [Next]_vars => IInv'
  <1> SUFFICES ASSUME IInv, [Next]_vars PROVE IInv'
    OBVIOUS
  <1>1. TypeOK' /\ StepShape
    BY TypeStep, Shape DEF IInv
  <1>2. AllAdmitted' /\ VersionIdentifiesRow'
    BY <1>1, AdmittedStays, LoadedRowsStayCurrent DEF IInv
  <1>3. AllCardFacts
    BY DEF IInv, AllCardFacts, CardFacts, BacklogIsUnowned, HistoryLeadsToColumn
  <1>4. AllCardFacts'
    BY <1>3, CardFactsStep DEF IInv
  <1>5. BacklogIsUnowned' /\ HistoryLeadsToColumn'
    BY <1>4 DEF AllCardFacts, CardFacts, BacklogIsUnowned, HistoryLeadsToColumn
  <1>. QED
    BY <1>1, <1>2, <1>5 DEF IInv

THEOREM Invariance == Spec => []IInv
  BY InvInit, InvStep, PTL DEF Spec

(***************************************************************************)
(* Optimistic concurrency is sound for any numbers of cards, requests and  *)
(* replicas: among versioned writes a version identifies one row.          *)
(***************************************************************************)
THEOREM VersionsIdentifyRows == Spec => []VersionIdentifiesRow
  <1>1. IInv => VersionIdentifiesRow
    BY DEF IInv
  <1>. QED
    BY <1>1, Invariance, PTL

(***************************************************************************)
(* A card in the backlog has no assignee.                                  *)
(***************************************************************************)
THEOREM BacklogStaysUnowned == Spec => []BacklogIsUnowned
  <1>1. IInv => BacklogIsUnowned
    BY DEF IInv
  <1>. QED
    BY <1>1, Invariance, PTL

(***************************************************************************)
(* The status history leads to the column of the card.                     *)
(***************************************************************************)
THEOREM HistoryStaysComplete == Spec => []HistoryLeadsToColumn
  <1>1. IInv => HistoryLeadsToColumn
    BY DEF IInv
  <1>. QED
    BY <1>1, Invariance, PTL

-----------------------------------------------------------------------------
(***************************************************************************)
(* What a step may never do.                                               *)
(***************************************************************************)
LEMMA OwnCommit ==
    ASSUME [Next]_vars, NEW s \in Sessions, sess[s] # Idle, sess'[s] # sess[s],
           TypeOK
    PROVE  CommitSome(s)
  <1>1. ASSUME NEW z \in Sessions, BeginSome(z) PROVE FALSE
    <2>1. PICK r : sess[z] = Idle /\ sess' = [sess EXCEPT ![z] = r]
      BY <1>1 DEF BeginSome, BeginClaim, BeginRelease, BeginUpdate, BeginBridge,
                  BeginMetadata, BeginArchive, BeginUnarchive, Begin
    <2>. QED
      BY <2>1 DEF TypeOK
  <1>2. ASSUME NEW z \in Sessions, CommitSome(z) PROVE z = s
    <2>1. sess' = [sess EXCEPT ![z] = Idle]
      BY <1>2 DEF CommitSome, CommitClaim, CommitRelease, CommitUpdate, CommitBridge,
                  CommitMetadata, CommitArchive, CommitUnarchive, Conditional, End
    <2>. QED
      BY <2>1 DEF TypeOK
  <1>3. ASSUME NEW w \in Sweepers, SweepStep(w) PROVE FALSE
    BY <1>3 DEF SweepStep, SweepSelect, SweepLoad, SweepSkip, SweepRelease
  <1>. QED
    BY <1>1, <1>2, <1>3 DEF Next, BridgeEdit, Tick, vars

\* The pipeline policy admits exactly the moves written out in AgentMoves.
LEMMA PolicyMoves ==
    ASSUME NEW old \in Status, NEW new \in Status,
           old = "tasks" => new = "tasks",
           new = "em_andamento" => old = "em_andamento",
           new = "tasks" => old = "tasks",
           NoForwardSkip(old, new)
    PROVE  <<old, new>> \in AgentMoves
  <1>1. /\ Pipeline["em_andamento"] = 1 /\ Pipeline["revisao_codigo"] = 2
        /\ Pipeline["fase_teste"] = 3   /\ Pipeline["concluido"] = 4
    BY DEF Pipeline, Status
  <1>2. \A c \in Status : <<c, c>> \in AgentMoves
    BY DEF AgentMoves
  <1>3. CASE old = new
    BY <1>2, <1>3
  <1>4. CASE old # new
    <2>1. old # "tasks" /\ new # "tasks" /\ new # "em_andamento"
      BY <1>4
    <2>2. Pipeline[new] <= Pipeline[old] + 1
      BY <2>1 DEF NoForwardSkip
    <2>3. \/ old = "em_andamento" /\ new = "revisao_codigo"
          \/ old = "revisao_codigo" /\ new = "fase_teste"
          \/ old = "fase_teste" /\ new \in {"concluido", "revisao_codigo"}
          \/ old = "concluido" /\ new \in {"fase_teste", "revisao_codigo"}
      BY <1>1, <1>4, <2>1, <2>2 DEF Status
    <2>. QED
      BY <2>3 DEF AgentMoves
  <1>. QED
    BY <1>3, <1>4

(***************************************************************************)
(* The policy an update was admitted on holds of the row it is written to: *)
(* no third party moves a held card, no column is skipped, and the backlog *)
(* and em_andamento are entered by release and claim alone.                *)
(***************************************************************************)
THEOREM PolicyIsKept == Spec => PolicyHoldsAtCommit
  <1>. DEFINE Kept(s, t) ==
          /\ card[t].assignee \in {NoActor, sess[s].actor}
          /\ <<card[t].status, card'[t].status>> \in AgentMoves
  <1>1. ASSUME IInv, [Next]_vars, NEW s \in Sessions, NEW t, t = sess[s].task,
               Commits(s, "update"), Versioned(t)
        PROVE  Kept(s, t)
    <2>1. sess[s] \in Request /\ sess[s] # Idle
      BY <1>1, RequestsAreNotIdle DEF Commits, IInv
    <2>2. PICK r \in Request : r = sess[s]
      BY <2>1
    <2>3. t \in Tasks /\ t = r.task /\ r.snap \in Row /\ r.to \in Status
      BY <1>1, <2>2 DEF Request
    <2>4. CommitUpdate(s)
      BY <1>1, OwnCommit
         DEF Commits, IInv, CommitSome, CommitClaim, CommitRelease, CommitBridge,
             CommitMetadata, CommitArchive, CommitUnarchive, Conditional
    <2>5. VersionMatches(r) /\ ApplyStatus(r)
      BY <1>1, <2>2, <2>3, <2>4 DEF CommitUpdate, Conditional, Refuse, Commits
    <2>6. r.snap = card[t]
      BY <1>1, <2>1, <2>2, <2>3, <2>5, MatchMeansUnchanged
         DEF IInv, Conditionals, Commits
    <2>7. StatusPolicy(card[t], r.to, r.actor)
      BY <1>1, <2>1, <2>2, <2>6 DEF IInv, AllAdmitted, Admitted, Commits
    <2>8. card'[t].status = r.to
      BY <1>1, <2>3, <2>5 DEF ApplyStatus, IInv, TypeOK, Row
    <2>9. card[t].status \in Status
      BY <2>3, <2>6 DEF Row
    <2>10. <<card[t].status, r.to>> \in AgentMoves
      BY <2>3, <2>7, <2>9, PolicyMoves DEF StatusPolicy
    <2>. QED
      BY <2>2, <2>7, <2>8, <2>10 DEF StatusPolicy
  <1>2. IInv /\ [Next]_vars
          => [\A s \in Sessions :
                LET t == sess[s].task
                IN  Commits(s, "update") /\ Versioned(t) =>
                      /\ card[t].assignee \in {NoActor, sess[s].actor}
                      /\ <<card[t].status, card'[t].status>> \in AgentMoves]_vars
    BY <1>1
  <1>. QED
    BY <1>2, Invariance, PTL DEF Spec, PolicyHoldsAtCommit

(***************************************************************************)
(* First writer wins: a write of a card leaves no conditional write in     *)
(* flight that could still apply, if no manual release has raced on it.    *)
(***************************************************************************)
THEOREM WritesExclude == Spec => WriteInvalidatesInFlight
  <1>1. ASSUME IInv, [Next]_vars, NEW t \in Tasks, card'[t] # card[t], Versioned(t)'
        PROVE  ~InFlightAdmitted(t)'
    <2>1. StepShape /\ TypeOK
      BY <1>1, Shape DEF IInv
    <2>2. card'[t].version = card[t].version + 1 /\ card[t].version \in Nat
      BY <1>1, <2>1 DEF StepShape, NextVersion, TypeOK, Row
    <2>3. Versioned(t)
      BY <1>1, <2>1 DEF StepShape, Versioned
    <2>4. ASSUME NEW s \in Sessions, sess'[s] # Idle, sess'[s].task = t,
                 sess'[s].op \in Conditionals
          PROVE  card'[t].version # sess'[s].exp
      <3>1. sess'[s] = sess[s]
        BY <1>1, <2>1, <2>4 DEF StepShape, LoadsCurrent
      <3>2. sess[s] \in Request
        BY <2>1, <2>4, <3>1 DEF TypeOK
      <3>3. sess[s].exp <= sess[s].snap.version /\ sess[s].exp \in Nat
        BY <1>1, <2>4, <3>1 DEF IInv, AllAdmitted, Admitted
      <3>4. sess[s].snap.version \in Nat
        BY <3>2 DEF Request, Row
      <3>5. sess[s].snap.version <= card[t].version
        BY <1>1, <2>3, <2>4, <3>1 DEF IInv, VersionIdentifiesRow, Current
      <3>. QED
        BY <2>2, <3>1, <3>3, <3>4, <3>5
    <2>. QED
      BY <2>4 DEF InFlightAdmitted, VersionMatches
  <1>2. IInv /\ [Next]_vars
          => [\A t \in Tasks :
                card'[t] # card[t] /\ Versioned(t)' => ~InFlightAdmitted(t)']_vars
    BY <1>1
  <1>. QED
    BY <1>2, Invariance, PTL DEF Spec, WriteInvalidatesInFlight

(***************************************************************************)
(* The policy an archive was admitted on holds of the row it is written    *)
(* to: nobody archives an active card that another actor holds by then.    *)
(***************************************************************************)
THEOREM ArchivesSpareHeldCards == Spec => ArchiveSparesHeldCards
  <1>1. ASSUME IInv, [Next]_vars, NEW s \in Sessions, Commits(s, "archive"),
               Versioned(sess[s].task), card[sess[s].task].status \in ActiveColumns
        PROVE  card[sess[s].task].assignee \in {NoActor, sess[s].actor}
    <2>1. sess[s] \in Request /\ sess[s] # Idle
      BY <1>1, RequestsAreNotIdle DEF Commits, IInv
    <2>2. CommitArchive(s)
      BY <1>1, OwnCommit
         DEF Commits, IInv, CommitSome, CommitClaim, CommitRelease, CommitUpdate,
             CommitBridge, CommitMetadata, CommitUnarchive, Conditional
    <2>3. VersionMatches(sess[s])
      BY <1>1, <2>2 DEF CommitArchive, Conditional, Refuse, Commits
    <2>4. sess[s].snap = card[sess[s].task]
      BY <1>1, <2>1, <2>3, MatchMeansUnchanged DEF IInv, Conditionals, Commits
    <2>5. ArchivePolicy(card[sess[s].task], sess[s].actor)
      BY <1>1, <2>1, <2>4 DEF IInv, AllAdmitted, Admitted, Commits
    <2>. QED
      BY <1>1, <2>5 DEF ArchivePolicy
  <1>2. IInv /\ [Next]_vars
          => [\A s \in Sessions :
                LET t == sess[s].task
                IN  Commits(s, "archive") /\ Versioned(t)
                      /\ card[t].status \in ActiveColumns
                      => card[t].assignee \in {NoActor, sess[s].actor}]_vars
    BY <1>1
  <1>. QED
    BY <1>2, Invariance, PTL DEF Spec, ArchiveSparesHeldCards

(***************************************************************************)
(* Of several replicas only one releases a claim, and only as it loaded    *)
(* it: the version in the timeout's WHERE clause tells a later claim.      *)
(***************************************************************************)
THEOREM TimeoutsTakeWhatTheyLoaded == Spec => TimeoutTakesWhatItLoaded
  <1>1. ASSUME IInv, [Next]_vars, NEW w \in Sweepers, NEW t \in Tasks,
               t \in sweep[w].todo, t \notin sweep'[w].todo,
               card'[t] # card[t], Versioned(t)
        PROVE  card[t] = sweep[w].snap[t]
    <2>1. \E v \in Sweepers, u \in Tasks : SweepRelease(v, u)
      <3>1. sweep' # sweep /\ card' # card
        BY <1>1
      <3>2. ASSUME NEW s \in Sessions, BeginSome(s) \/ CommitSome(s) PROVE FALSE
        BY <3>1, <3>2
           DEF BeginSome, BeginClaim, BeginRelease, BeginUpdate, BeginBridge,
               BeginMetadata, BeginArchive, BeginUnarchive, Begin, CommitSome,
               CommitClaim, CommitRelease, CommitUpdate, CommitBridge, CommitMetadata,
               CommitArchive, CommitUnarchive, Conditional
      <3>. QED
        BY <1>1, <3>1, <3>2 DEF Next, BridgeEdit, Tick, vars, SweepStep, SweepSelect, SweepLoad, SweepSkip
    <2>2. PICK v \in Sweepers, u \in Tasks : SweepRelease(v, u)
      BY <2>1
    <2>3. sweep \in [Sweepers -> [todo : SUBSET Tasks, snap : [Tasks -> Row \cup {NoRow}]]]
      BY <1>1 DEF IInv, TypeOK
    <2>4. v = w /\ u = t
      BY <1>1, <2>2, <2>3 DEF SweepRelease
    <2>5. sweep[w].snap[t] # NoRow /\ TimeoutWhere(w, t)
      BY <1>1, <2>2, <2>4 DEF SweepRelease, Refuse
    <2>6. Current(sweep[w].snap[t], card[t])
      BY <1>1, <2>5 DEF IInv, VersionIdentifiesRow
    <2>. QED
      BY <2>5, <2>6 DEF TimeoutWhere, Current
  <1>2. IInv /\ [Next]_vars
          => [\A w \in Sweepers, t \in Tasks :
                /\ t \in sweep[w].todo
                /\ t \notin sweep'[w].todo
                /\ card'[t] # card[t]
                /\ Versioned(t)
                => card[t] = sweep[w].snap[t]]_vars
    BY <1>1
  <1>. QED
    BY <1>2, Invariance, PTL DEF Spec, TimeoutTakesWhatItLoaded

\* What a step leaves of an archived card that stays archived.
Frozen(t) ==
    card[t].archived /\ card'[t].archived /\ Versioned(t)' =>
        card'[t].status = card[t].status /\ card'[t].assignee = card[t].assignee

LEMMA FrozenCommit ==
    ASSUME IInv, NEW s \in Sessions, CommitSome(s), NEW t \in Tasks
    PROVE  Frozen(t)
  <1>. DEFINE r == sess[s]
  <1>1. r \in Request /\ r # Idle
    BY RequestsAreNotIdle
       DEF IInv, CommitSome, CommitClaim, CommitRelease, CommitUpdate, CommitBridge,
           CommitMetadata, CommitArchive, CommitUnarchive, Conditional
  <1>2. r.task \in Tasks /\ card \in [Tasks -> Row] /\ Admitted(r)
    BY <1>1 DEF Request, IInv, TypeOK, AllAdmitted
  <1>3. CASE card' = card
    BY <1>3 DEF Frozen
  <1>4. CASE CommitClaim(s) /\ ClaimWhere(r) /\ ApplyClaim(r)
    BY <1>2, <1>4 DEF ClaimWhere, ApplyClaim, Frozen, Row
  <1>5. CASE CommitRelease(s)
    <2>1. ~r.snap.archived
      BY <1>2, <1>5 DEF Admitted, CommitRelease
    <2>2. "release" \notin overlap'[r.task] => card[r.task] = r.snap
      BY <1>2, <1>5 DEF CommitRelease, NoteOverlap, IInv, TypeOK
    <2>3. t # r.task => card'[t] = card[t]
      BY <1>2, <1>5 DEF CommitRelease
    <2>. QED
      BY <2>1, <2>2, <2>3 DEF Frozen, Versioned
  <1>6. ASSUME r.op \in {"update", "bridge"}, VersionMatches(r), ApplyStatus(r), UNCHANGED overlap
        PROVE  Frozen(t)
    <2>1. Versioned(r.task) => ~card[r.task].archived
      BY <1>1, <1>2, <1>6, MatchMeansUnchanged DEF IInv, Conditionals, Admitted
    <2>2. t # r.task => card'[t] = card[t]
      BY <1>2, <1>6 DEF ApplyStatus
    <2>. QED
      BY <1>6, <2>1, <2>2 DEF Frozen, Versioned
  <1>7. CASE CommitMetadata(s) /\ ApplyMetadata(r)
    BY <1>2, <1>7 DEF ApplyMetadata, Frozen, Row
  <1>8. CASE CommitArchive(s) /\ ApplyArchive(r)
    BY <1>2, <1>8 DEF ApplyArchive, Frozen, Row
  <1>9. CASE CommitUnarchive(s) /\ ApplyUnarchive(r)
    BY <1>2, <1>9 DEF ApplyUnarchive, Frozen, Row
  <1>. QED
    BY <1>3, <1>4, <1>5, <1>6, <1>7, <1>8, <1>9
       DEF CommitSome, CommitClaim, CommitUpdate, CommitBridge, CommitMetadata,
           CommitArchive, CommitUnarchive, Conditional, Refuse

LEMMA FrozenSweep ==
    ASSUME IInv, NEW w \in Sweepers, SweepStep(w), NEW t \in Tasks
    PROVE  Frozen(t)
  <1>1. CASE card' = card
    BY <1>1 DEF Frozen
  <1>2. ASSUME NEW u \in Tasks, SweepRelease(w, u), TimeoutWhere(w, u), ApplyTimeout(u)
        PROVE  Frozen(t)
    <2>1. sweep[w].snap[u] # NoRow /\ ~sweep[w].snap[u].archived
      BY <1>2 DEF SweepRelease
    <2>2. Versioned(u) => card[u] = sweep[w].snap[u]
      BY <1>2, <2>1 DEF IInv, VersionIdentifiesRow, TimeoutWhere, Current
    <2>3. t # u => card'[t] = card[t]
      BY <1>2 DEF ApplyTimeout, IInv, TypeOK
    <2>. QED
      BY <1>2, <2>1, <2>2, <2>3 DEF Frozen, Versioned, ApplyTimeout
  <1>. QED
    BY <1>1, <1>2 DEF SweepStep, SweepSelect, SweepLoad, SweepSkip, SweepRelease, Refuse

(***************************************************************************)
(* An archived card is out of the flow: what was in flight when it was     *)
(* archived changes neither its column nor its assignee, unless it is a    *)
(* manual release.                                                         *)
(***************************************************************************)
THEOREM ArchivedStaysFrozen == Spec => ArchivedIsFrozen
  <1>1. ASSUME IInv, [Next]_vars, NEW t \in Tasks PROVE Frozen(t)
    <2>1. CASE card' = card
      BY <2>1 DEF Frozen
    <2>2. ASSUME NEW s \in Sessions, BeginSome(s) PROVE card' = card
      BY <2>2 DEF BeginSome, BeginClaim, BeginRelease, BeginUpdate, BeginBridge,
                  BeginMetadata, BeginArchive, BeginUnarchive, Begin
    <2>3. ASSUME NEW u \in Tasks, BridgeEdit(u) PROVE Frozen(t)
      BY <1>1, <2>3, EditKeeps DEF Frozen, IInv
    <2>. QED
      BY <1>1, <2>1, <2>2, <2>3, FrozenCommit, FrozenSweep DEF Next, Tick, vars
  <1>2. IInv /\ [Next]_vars
          => [\A t \in Tasks :
                /\ card[t].archived
                /\ card'[t].archived
                /\ Versioned(t)'
                => /\ card'[t].status = card[t].status
                   /\ card'[t].assignee = card[t].assignee]_vars
    BY <1>1 DEF Frozen
  <1>. QED
    BY <1>2, Invariance, PTL DEF Spec, ArchivedIsFrozen

-----------------------------------------------------------------------------
(***************************************************************************)
(* The lock implements the abstract lease, unversioned writes included.    *)
(***************************************************************************)

\* What a step does to the holder of the one card it writes.
HolderMoves(t) ==
    \/ Holder'[t] = Holder[t]
    \/ Holder'[t] = NoActor
    \/ Holder[t] = NoActor /\ Holder'[t] \in Actors

LEMMA LeaseStep ==
    ASSUME NEW t \in Tasks, HolderMoves(t),
           \A u \in Tasks \ {t} : card'[u] = card[u]
    PROVE  [Lease!Next]_Holder
  <1>1. \A u \in Tasks \ {t} : Holder'[u] = Holder[u]
    BY DEF Holder
  <1>2. DOMAIN Holder = Tasks /\ DOMAIN Holder' = Tasks
    BY DEF Holder
  <1>3. Holder = [u \in Tasks |-> Holder[u]] /\ Holder' = [u \in Tasks |-> Holder'[u]]
    BY DEF Holder
  <1>4. CASE Holder'[t] = Holder[t]
    BY <1>1, <1>3, <1>4
  <1>5. CASE Holder'[t] = NoActor
    <2>1. Holder' = [Holder EXCEPT ![t] = NoActor]
      BY <1>1, <1>3, <1>5
    <2>. QED
      BY <2>1 DEF Lease!Next, Lease!GiveUp
  <1>6. CASE Holder[t] = NoActor /\ Holder'[t] \in Actors
    <2>1. Holder' = [Holder EXCEPT ![t] = Holder'[t]]
      BY <1>1, <1>3, <1>6
    <2>2. PICK a \in Actors : a = Holder'[t]
      BY <1>6
    <2>3. Lease!Acquire(t, a)
      BY <1>6, <2>1, <2>2 DEF Lease!Acquire
    <2>. QED
      BY <2>3 DEF Lease!Next
  <1>. QED
    BY <1>4, <1>5, <1>6 DEF HolderMoves

LEMMA LeaseCommit ==
    ASSUME TypeOK, NEW s \in Sessions, CommitSome(s)
    PROVE  [Lease!Next]_Holder
  <1>1. sess[s] \in Request /\ sess[s] # Idle
    BY RequestsAreNotIdle
       DEF CommitSome, CommitClaim, CommitRelease, CommitUpdate, CommitBridge,
           CommitMetadata, CommitArchive, CommitUnarchive, Conditional
  <1>2. PICK r \in Request : r = sess[s]
    BY <1>1
  <1>3. PICK k \in Tasks : k = r.task
    BY DEF Request
  <1>4. /\ card[k] \in Row /\ r.snap \in Row
        /\ card[k].assignee \in Actors \cup {NoActor}
        /\ r.actor \in Actors \cup {NoActor}
    BY <1>3 DEF TypeOK, Row, Request
  <1>5. CASE UNCHANGED card
    BY <1>5 DEF Holder
  <1>6. CASE CommitClaim(s) /\ ApplyClaim(r)
    <2>1. ClaimWhere(r) \/ UNCHANGED card
      BY <1>2, <1>6 DEF CommitClaim, Refuse
    <2>2. CASE ClaimWhere(r)
      <3>1. /\ card'[k].assignee = r.actor /\ card'[k].status = r.to
            /\ \A u \in Tasks \ {k} : card'[u] = card[u]
        BY <1>3, <1>4, <1>6 DEF ApplyClaim, TypeOK, Row
      <3>2. \/ card[k].status = "tasks"
            \/ card[k].assignee = NoActor
            \/ card[k].assignee = r.actor
        BY <1>3, <2>2 DEF ClaimWhere, IsReclaim, IsAdopt
      <3>3. HolderMoves(k)
        BY <1>4, <3>1, <3>2 DEF HolderMoves, Holder
      <3>. QED
        BY <3>1, <3>3, LeaseStep
    <2>. QED
      BY <1>5, <2>1, <2>2
  <1>7. CASE CommitRelease(s)
    <2>1. /\ card'[k].assignee \in {card[k].assignee, NoActor}
          /\ card'[k].status \in {card[k].status, "tasks"}
          /\ \A u \in Tasks \ {k} : card'[u] = card[u]
      BY <1>2, <1>3, <1>4, <1>7 DEF CommitRelease, TypeOK, Row
    <2>2. HolderMoves(k)
      BY <2>1 DEF HolderMoves, Holder
    <2>. QED
      BY <2>1, <2>2, LeaseStep
  <1>8. ASSUME ApplyStatus(r) \/ ApplyMetadata(r) \/ ApplyArchive(r) \/ ApplyUnarchive(r)
        PROVE  [Lease!Next]_Holder
    <2>1. /\ card'[k].assignee = card[k].assignee
          /\ \A u \in Tasks \ {k} : card'[u] = card[u]
      <3>1. CASE ApplyStatus(r)
        BY <1>3, <1>4, <3>1 DEF ApplyStatus, TypeOK, Row
      <3>2. CASE ApplyMetadata(r)
        BY <1>3, <1>4, <3>2 DEF ApplyMetadata, TypeOK, Row
      <3>3. CASE ApplyArchive(r)
        BY <1>3, <1>4, <3>3 DEF ApplyArchive, TypeOK, Row
      <3>4. CASE ApplyUnarchive(r)
        BY <1>3, <1>4, <3>4 DEF ApplyUnarchive, TypeOK, Row
      <3>. QED
        BY <1>8, <3>1, <3>2, <3>3, <3>4
    <2>2. HolderMoves(k)
      BY <1>4, <2>1 DEF HolderMoves, Holder
    <2>. QED
      BY <2>1, <2>2, LeaseStep
  <1>. QED
    BY <1>2, <1>5, <1>6, <1>7, <1>8
       DEF CommitSome, CommitClaim, CommitUpdate, CommitBridge, CommitMetadata,
           CommitArchive, CommitUnarchive, Conditional, Refuse

LEMMA LeaseNext == TypeOK /\ [Next]_vars => [Lease!Next]_Holder
  <1> SUFFICES ASSUME TypeOK, [Next]_vars PROVE [Lease!Next]_Holder
    OBVIOUS
  <1>1. ASSUME UNCHANGED card PROVE [Lease!Next]_Holder
    BY <1>1 DEF Holder
  <1>2. ASSUME NEW s \in Sessions, BeginSome(s) PROVE UNCHANGED card
    BY <1>2 DEF BeginSome, BeginClaim, BeginRelease, BeginUpdate, BeginBridge,
                BeginMetadata, BeginArchive, BeginUnarchive, Begin
  <1>3. ASSUME NEW t \in Tasks, ApplyTimeout(t) PROVE [Lease!Next]_Holder
    <2>1. /\ card'[t].status = "tasks"
          /\ \A u \in Tasks \ {t} : card'[u] = card[u]
      BY <1>3 DEF ApplyTimeout, TypeOK, Row
    <2>2. HolderMoves(t)
      BY <2>1 DEF HolderMoves, Holder
    <2>. QED
      BY <2>1, <2>2, LeaseStep
  <1>4. ASSUME NEW w \in Sweepers, SweepStep(w) PROVE [Lease!Next]_Holder
    BY <1>1, <1>3, <1>4 DEF SweepStep, SweepSelect, SweepLoad, SweepSkip,
                            SweepRelease, Refuse
  <1>5. ASSUME NEW t \in Tasks, BridgeEdit(t) PROVE UNCHANGED Holder
    BY <1>5, EditKeeps DEF Holder
  <1>. QED
    BY <1>1, <1>2, <1>4, <1>5, LeaseCommit DEF Next, Tick, vars

(***************************************************************************)
(* Exclusivity of the claim, for any numbers of cards, actors, concurrent  *)
(* requests and replicas: a held card is never handed to another actor     *)
(* without having been given up.                                           *)
(***************************************************************************)
THEOREM LeaseImplemented == Spec => ExclusiveLease
  <1>1. TypeOK => Holder \in [Tasks -> Actors \cup {NoActor}]
    BY DEF Holder, TypeOK, Row
  <1>2. Init => Lease!Init
    BY <1>1, TypeInit DEF Lease!Init
  <1>. QED
    BY <1>2, LeaseNext, TypeCorrect, PTL DEF Spec, ExclusiveLease, Lease!Spec
=============================================================================
