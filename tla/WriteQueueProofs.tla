-------------------------- MODULE WriteQueueProofs --------------------------
(***************************************************************************)
(* Proofs about WriteQueue, for any numbers of workers, API processes and  *)
(* jobs, any ceiling of attempts and any number of upsets.                 *)
(***************************************************************************)
EXTENDS WriteQueue, TLAPS

Kind == {"recover", "retry", "stall", "done", "skip", "requeue", "fail"}

\* The phases in which a worker has a job in hand.
InJob == {"adding", "stored", "raised"}

-----------------------------------------------------------------------------
(* The steps, by what they do to the rows and to the transactions          *)

\* What the code has checked, and knows, when it loads the rows S.
Justified(p, kind, S, n, next) ==
    /\ kind = "recover" => S \subseteq In({"processing"})
    /\ kind = "stall" => S \subseteq In({"processing", "queued"})
    /\ kind \in {"done", "skip", "requeue", "fail"} =>
          pc[p] \in InJob /\ S = {held[p].job} /\ next = "idle"
    /\ kind = "done" => pc[p] = "stored"
    /\ kind \in {"requeue", "fail"} => n = held[p].attempts + 1
    /\ kind = "requeue" => n < MaxAttempts
    /\ next \in InJob => next = pc[p]

LoadStep ==
    \E p \in Procs, kind \in Kind, S \in SUBSET (Jobs \cup {0}), n \in Nat, next \in Phase :
       Load(p, kind, S, n, next) /\ Justified(p, kind, S, n, next)

\* Process p goes on without having written, or dies.
Move(p, next) ==
    /\ UNCHANGED <<row, stored, torn>>
    /\ pc' = [pc EXCEPT ![p] = next]
    /\ \/ held' = held
       \/ held' = [held EXCEPT ![p] = NoJob] /\ next \notin InJob
    /\ \/ txn' = txn /\ next \notin InJob /\ (txn[p] = NoTxn \/ pc[p] \notin InJob)
       \/ txn' = [txn EXCEPT ![p] = NoTxn]
    /\ next \in InJob =>
          next = pc[p] \/ (next = txn[p].next /\ txn[p] # NoTxn)
                       \/ (next = "raised" /\ txn[p] # NoTxn
                             /\ txn[p].kind \in {"done", "skip"})

MoveStep == \E p \in Procs, next \in Phase : Move(p, next)

LateStore == UNCHANGED <<row, pc, held, txn, torn>> /\ stored \subseteq stored'

\* The counters and the threads left behind keep their types.
Aside ==
    /\ zombie' \in [Workers -> SUBSET Jobs]
    /\ upsets' \in Nat

\* Whoever is inside a job knows which one, whoever has stored something has
\* stored that, and an open transaction returns the process where it was.
Engaged(p) ==
    /\ pc[p] \in InJob => held[p].job \in Jobs
    /\ pc[p] = "stored" => held[p].job \in stored
    /\ txn[p] # NoTxn =>
         /\ txn[p].next \in InJob => txn[p].next = pc[p]
         /\ txn[p].kind \in {"done", "skip"} => pc[p] \in InJob

AllEngaged == \A p \in Procs : Engaged(p)

-----------------------------------------------------------------------------
LEMMA WorkersAreProcs == Workers \subseteq Procs /\ Apis \subseteq Procs
  BY DEF Procs

LEMMA StepForms ==
    ASSUME TypeOK, AllEngaged, Next
    PROVE  /\ Aside
           /\ \/ LoadStep
              \/ \E p \in Procs : Flush(p)
              \/ MoveStep
              \/ \E w \in Workers : Dequeue(w)
              \/ \E w \in Workers : AddPersists(w)
              \/ LateStore /\ stored' \subseteq Jobs
              \/ Enqueue
  <1>. USE WorkersAreProcs
  <1>. DEFINE Forms == \/ LoadStep
                       \/ \E p \in Procs : Flush(p)
                       \/ MoveStep
                       \/ \E w \in Workers : Dequeue(w)
                       \/ \E w \in Workers : AddPersists(w)
                       \/ LateStore /\ stored' \subseteq Jobs
                       \/ Enqueue
  <1>1. ASSUME NEW p \in Procs, NEW kind \in Kind, NEW S \in SUBSET (Jobs \cup {0}),
               NEW n \in Nat, NEW next \in Phase,
               Load(p, kind, S, n, next), Justified(p, kind, S, n, next)
        PROVE  LoadStep
    BY <1>1 DEF LoadStep
  <1>2. \A p \in Procs : held[p].job \in Jobs \cup {0} /\ held[p].attempts \in Nat
                         /\ pc[p] \in Phase
    BY DEF TypeOK, Hold
  <1>3. \A st : In(st) \in SUBSET (Jobs \cup {0})
    BY DEF In
  <1>4. ASSUME UNCHANGED <<zombie, upsets>> PROVE Aside
    BY <1>4 DEF Aside, TypeOK
  <1>5. ASSUME Enqueue PROVE Aside /\ Forms
    BY <1>4, <1>5 DEF Enqueue
  <1>6. ASSUME NEW p \in Procs, Flush(p) PROVE Aside /\ Forms
    BY <1>4, <1>6 DEF Flush
  <1>7. ASSUME NEW p \in Procs, Lose(p) PROVE Aside /\ Forms
    <2>. DEFINE next == CASE txn[p].kind \in {"done", "skip"} -> "raised"
                          [] txn[p].kind = "recover"          -> pc[p]
                          [] p \in Apis                       -> "idle"
                          [] OTHER                            -> txn[p].next
    <2>1. Aside
      BY <1>7 DEF Lose, Upset, Aside, TypeOK
    <2>2. txn[p] \in Txn /\ txn[p] # NoTxn
      BY <1>7 DEF Lose, TypeOK
    <2>3. next \in Phase
      BY <1>2, <2>2 DEF Txn, Phase
    <2>4. GoOn(p, next) /\ UNCHANGED <<row, stored, torn>>
          /\ txn' = [txn EXCEPT ![p] = NoTxn]
      BY <1>7 DEF Lose
    <2>5. next \in InJob => next = pc[p] \/ next = txn[p].next
                            \/ (next = "raised" /\ txn[p].kind \in {"done", "skip"})
      BY DEF InJob
    <2>. HIDE DEF next
    <2>6. held' = held \/ (held' = [held EXCEPT ![p] = NoJob] /\ next \notin InJob)
      BY <2>4, <1>2 DEF GoOn, InJob, TypeOK
    <2>7. Move(p, next)
      BY <2>2, <2>4, <2>5, <2>6 DEF Move, GoOn
    <2>. QED
      BY <2>1, <2>3, <2>7 DEF MoveStep
  <1>8. ASSUME NEW w \in Workers, MainStep(w) PROVE Aside /\ Forms
    <2>1. CASE Start(w)
      <3>1. Move(w, "starting")
        BY <2>1 DEF Start, Move, InJob
      <3>. QED
        BY <1>4, <2>1, <3>1 DEF Start, MoveStep, Phase
    <2>2. CASE StartupRecover(w)
      <3>1. Load(w, "recover", In({"processing"}), 0, "sweeping")
        BY <2>2 DEF StartupRecover
      <3>2. Justified(w, "recover", In({"processing"}), 0, "sweeping")
        BY DEF Justified, InJob
      <3>. QED
        BY <1>1, <1>3, <1>4, <2>2, <3>1, <3>2 DEF StartupRecover, Kind, Phase
    <2>3. CASE RecoverFailed(w)
      <3>1. ASSUME NEW S \in SUBSET In({"failed"}), Load(w, "retry", S, 0, "idle")
            PROVE  LoadStep
        <4>1. Justified(w, "retry", S, 0, "idle")
          BY DEF Justified, InJob
        <4>. QED
          BY <1>1, <1>3, <3>1, <4>1 DEF Kind, Phase
      <3>2. ASSUME GoOn(w, "idle"), UNCHANGED <<row, txn, stored, torn>>, txn[w] = NoTxn
            PROVE  MoveStep
        <4>1. Move(w, "idle")
          BY <3>2 DEF GoOn, Move, InJob
        <4>. QED
          BY <4>1 DEF MoveStep, Phase
      <3>. QED
        BY <1>4, <2>3, <3>1, <3>2 DEF RecoverFailed
    <2>4. CASE Dequeue(w)
      BY <1>4, <2>4 DEF Dequeue
    <2>5. CASE Poll(w)
      <3>1. Move(w, "sweeping")
        BY <2>5, <1>2 DEF Poll, Ready, GoOn, Move, InJob, TypeOK
      <3>. QED
        BY <1>4, <2>5, <3>1 DEF Poll, MoveStep, Phase
    <2>6. CASE AddPersists(w)
      BY <1>4, <2>6 DEF AddPersists
    <2>7. CASE AddFindsNothing(w)
      <3>1. Load(w, "skip", {held[w].job}, 0, "idle") /\ pc[w] \in InJob
        BY <2>7 DEF AddFindsNothing, Working, InJob
      <3>2. Justified(w, "skip", {held[w].job}, 0, "idle")
        BY <3>1 DEF Justified, InJob
      <3>. QED
        BY <1>1, <1>2, <1>4, <2>7, <3>1, <3>2 DEF AddFindsNothing, Kind, Phase
    <2>8. CASE Finish(w)
      <3>1. txn[w] = NoTxn /\ pc[w] = "stored"
        BY <2>8 DEF Finish, Working
      <3>2. ASSUME Load(w, "done", {held[w].job}, 0, "idle") PROVE LoadStep
        <4>1. Justified(w, "done", {held[w].job}, 0, "idle")
          BY <3>1 DEF Justified, InJob
        <4>. QED
          BY <1>1, <1>2, <3>2, <4>1 DEF Kind, Phase
      <3>3. ASSUME GoOn(w, "idle"), UNCHANGED <<row, txn, stored, torn>>
            PROVE  MoveStep
        <4>1. Move(w, "idle")
          BY <3>1, <3>3 DEF GoOn, Move, InJob
        <4>. QED
          BY <4>1 DEF MoveStep, Phase
      <3>. QED
        BY <1>4, <2>8, <3>2, <3>3 DEF Finish
    <2>9. CASE AttemptFails(w)
      <3>. DEFINE n    == held[w].attempts + 1
                  kind == IF n < MaxAttempts THEN "requeue" ELSE "fail"
      <3>1. Load(w, kind, {held[w].job}, n, "idle") /\ pc[w] \in InJob
        BY <2>9 DEF AttemptFails, Working, InJob
      <3>2. Justified(w, kind, {held[w].job}, n, "idle")
        BY <3>1 DEF Justified, InJob
      <3>3. kind \in Kind /\ n \in Nat /\ "idle" \in Phase
        BY <1>2 DEF Kind, Phase
      <3>. HIDE DEF n, kind
      <3>. QED
        BY <1>1, <1>2, <1>4, <2>9, <3>1, <3>2, <3>3 DEF AttemptFails
    <2>10. CASE JobTimeout(w)
      <3>1. Load(w, "fail", {held[w].job}, held[w].attempts + 1, "idle") /\ pc[w] \in InJob
        BY <2>10 DEF JobTimeout, Working, InJob
      <3>2. Justified(w, "fail", {held[w].job}, held[w].attempts + 1, "idle")
        BY <3>1 DEF Justified, InJob
      <3>3. held[w].job \in Jobs
        BY <3>1 DEF AllEngaged, Engaged
      <3>4. Aside
        BY <2>10, <3>3 DEF JobTimeout, Aside, TypeOK
      <3>. QED
        BY <1>1, <1>2, <3>1, <3>2, <3>4 DEF Kind, Phase
    <2>11. CASE Flush(w)
      BY <1>6, <2>11
    <2>. QED
      BY <1>8, <2>1, <2>2, <2>3, <2>4, <2>5, <2>6, <2>7, <2>8, <2>9, <2>10, <2>11
      DEF MainStep
  <1>9. ASSUME NEW w \in Workers, FailStale(w) PROVE Aside /\ Forms
    <2>1. PICK S \in SUBSET In({"processing"}) : Load(w, "stall", S, 0, pc[w])
      BY <1>9 DEF FailStale
    <2>2. Justified(w, "stall", S, 0, pc[w])
      BY DEF Justified, In
    <2>. QED
      BY <1>1, <1>2, <1>3, <1>4, <1>9, <2>1, <2>2 DEF FailStale, Kind
  <1>10. ASSUME NEW w \in Workers, Crash(w) PROVE Aside /\ Forms
    <2>1. Move(w, "down")
      BY <1>10 DEF Crash, Move, InJob
    <2>. QED
      BY <1>10, <2>1 DEF Crash, Upset, Aside, TypeOK, MoveStep, Phase
  <1>11. ASSUME NEW w \in Workers, NEW j \in Jobs, ZombieEnds(w, j) PROVE Aside /\ Forms
    BY <1>11 DEF ZombieEnds, LateStore, Aside, TypeOK
  <1>12. ASSUME NEW a \in Apis, ApiStep(a) PROVE Aside /\ Forms
    <2>1. CASE FailProcessing(a)
      <3>1. PICK S \in SUBSET In({"processing"}) : Load(a, "stall", S, 0, "stalling")
        BY <2>1 DEF FailProcessing
      <3>2. Justified(a, "stall", S, 0, "stalling")
        BY DEF Justified, In, InJob
      <3>3. Aside
        BY <2>1 DEF FailProcessing, Upset, Aside, TypeOK
      <3>. QED
        BY <1>1, <1>3, <3>1, <3>2, <3>3 DEF Kind, Phase
    <2>2. CASE FailQueued(a)
      <3>1. PICK n \in Jobs : Load(a, "stall", {j \in In({"queued"}) : j <= n}, 0, "idle")
        BY <2>2 DEF FailQueued
      <3>2. Justified(a, "stall", {j \in In({"queued"}) : j <= n}, 0, "idle")
        BY DEF Justified, In, InJob
      <3>3. {j \in In({"queued"}) : j <= n} \in SUBSET (Jobs \cup {0})
        BY DEF In
      <3>. QED
        BY <1>1, <1>4, <2>2, <3>1, <3>2, <3>3 DEF FailQueued, Kind, Phase
    <2>3. CASE AdminRequeue(a)
      <3>0. PICK st \in {{"failed", "skipped"}, {"done"}} :
               \E S \in SUBSET In(st) : Load(a, "retry", S, 0, "idle")
        BY <2>3 DEF AdminRequeue
      <3>1. PICK S \in SUBSET In(st) : Load(a, "retry", S, 0, "idle")
        BY <3>0
      <3>2. Justified(a, "retry", S, 0, "idle")
        BY DEF Justified, InJob
      <3>3. Aside
        BY <2>3 DEF AdminRequeue, Upset, Aside, TypeOK
      <3>. QED
        BY <1>1, <1>3, <3>1, <3>2, <3>3 DEF Kind, Phase
    <2>. QED
      BY <1>6, <1>12, <2>1, <2>2, <2>3 DEF ApiStep
  <1>. QED
    BY <1>5, <1>7, <1>8, <1>9, <1>10, <1>11, <1>12 DEF Next, WorkerStep

-----------------------------------------------------------------------------
(* Rows under a flush                                                      *)

LEMMA NoTxnIsNone == NoTxn \notin Txn /\ NoRow \notin Row
  BY DEF NoTxn, Txn, NoRow, Row, Status

LEMMA WantedRow ==
    ASSUME NEW x \in Txn, NEW r \in Row
    PROVE  /\ Wanted(x, r) \in Row
           /\ Wanted(x, r).status # "absent"
           /\ Wanted(x, r).status = "done" => x.kind = "done"
  BY DEF Wanted, Reset, Txn, Row, Status

\* A row that is not torn by the flush was still the one loaded, and nobody is
\* processing its job after the flush.
LEMMA FlushRow ==
    ASSUME TypeOK, NEW p \in Procs, Flush(p), NEW j \in Jobs
    PROVE  /\ txn[p] \in Txn /\ txn' = [txn EXCEPT ![p] = NoTxn]
           /\ torn \subseteq torn' /\ stored' = stored
           /\ row'[j] \in Row
           /\ row'[j].status = "done" => row[j].status = "done" \/ txn[p].kind = "done"
           /\ j \notin Hit(txn[p]) => row'[j] = row[j]
           /\ j \in Hit(txn[p]) /\ j \notin torn' =>
                /\ txn[p].from[j] = row[j]
                /\ row'[j] = Wanted(txn[p], row[j])
                /\ \A q \in Procs : held'[q].job # j
  <1>. DEFINE x == txn[p]
  <1>1. x \in Txn
    BY DEF Flush, TypeOK
  <1>2. txn' = [txn EXCEPT ![p] = NoTxn] /\ torn \subseteq torn' /\ stored' = stored
    BY DEF Flush
  <1>3. row'[j] = IF j \in Hit(x) THEN Merge(x.from[j], Wanted(x, x.from[j]), row[j])
                                  ELSE row[j]
    BY DEF Flush
  <1>4. row[j] \in Row
    BY DEF TypeOK
  <1>5. CASE j \notin Hit(x)
    BY <1>1, <1>2, <1>3, <1>4, <1>5
  <1>6. CASE j \in Hit(x)
    <2>1. PICK f \in Row : f = x.from[j]
      BY <1>1, <1>6 DEF Hit, Txn
    <2>2. PICK v \in Row : v = Wanted(x, f) /\ (v.status = "done" => x.kind = "done")
      BY <1>1, WantedRow
    <2>3. row'[j] = Merge(f, v, row[j])
      BY <1>3, <1>6, <2>1, <2>2
    <2>4. /\ row'[j] \in Row
          /\ row'[j].status = "done" => row[j].status = "done" \/ x.kind = "done"
      BY <1>4, <2>2, <2>3 DEF Merge, Row
    <2>5. ASSUME j \notin torn'
          PROVE  row[j] = f /\ \A q \in Procs : held'[q].job # j
      <3>1. torn' = torn \cup {k \in Hit(x) : row[k] # x.from[k] \/ ~Free(k)'}
        BY DEF Flush
      <3>2. row[j] = x.from[j] /\ Free(j)'
        BY <1>6, <2>5, <3>1
      <3>. QED
        BY <2>1, <3>2 DEF Free
    <2>6. row[j] = f => row'[j] = v
      BY <1>4, <2>2, <2>3 DEF Merge, Row
    <2>. QED
      BY <1>1, <1>2, <1>6, <2>1, <2>2, <2>4, <2>5, <2>6
  <1>. QED
    BY <1>5, <1>6

-----------------------------------------------------------------------------
(* Types, and what a process knows of its job                              *)

Typed == TypeOK /\ AllEngaged

LEMMA LoadTyped ==
    ASSUME Typed, Aside, LoadStep
    PROVE  Typed'
  <1>1. PICK p \in Procs, kind \in Kind, S \in SUBSET (Jobs \cup {0}), n \in Nat, next \in Phase :
            Load(p, kind, S, n, next) /\ Justified(p, kind, S, n, next)
    BY DEF LoadStep
  <1>2. PICK F \in [Jobs -> Row \cup {NoRow}] :
            F = [j \in Jobs |-> IF j \in S THEN row[j] ELSE NoRow]
    BY DEF Typed, TypeOK
  <1>. DEFINE x == [kind |-> kind, attempts |-> n, next |-> next, from |-> F]
  <1>3. x \in Txn /\ x.kind = kind /\ x.next = next
    BY DEF Txn, Kind
  <1>4. txn' = [txn EXCEPT ![p] = x]
    BY <1>1, <1>2 DEF Load
  <1>. HIDE DEF x
  <1>5. TypeOK'
    <2>1. txn' \in [Procs -> Txn \cup {NoTxn}]
      BY <1>3, <1>4 DEF Typed, TypeOK
    <2>. QED
      BY <1>1, <2>1 DEF Load, Aside, Typed, TypeOK
  <1>6. AllEngaged'
    <2>. SUFFICES ASSUME NEW q \in Procs PROVE Engaged(q)'
      BY DEF AllEngaged
    <2>1. Engaged(q)
      BY DEF Typed, AllEngaged
    <2>2. pc' = pc /\ held' = held /\ stored' = stored
      BY <1>1 DEF Load
    <2>3. txn'[q] = IF q = p THEN x ELSE txn[q]
      BY <1>4 DEF Typed, TypeOK
    <2>4. q = p => /\ x.next \in InJob => x.next = pc[q]
                   /\ x.kind \in {"done", "skip"} => pc[q] \in InJob
      BY <1>1, <1>3 DEF Justified
    <2>. QED
      BY <2>1, <2>2, <2>3, <2>4 DEF Engaged
  <1>. QED
    BY <1>5, <1>6 DEF Typed

LEMMA FlushTyped ==
    ASSUME Typed, Aside, NEW p \in Procs, Flush(p)
    PROVE  Typed'
  <1>. TypeOK
    BY DEF Typed
  <1>1. PICK next \in Phase : GoOn(p, next) /\ next = txn[p].next
    BY NoTxnIsNone DEF Flush, TypeOK, Txn
  <1>2. TypeOK'
    <2>1. row' \in [Jobs -> Row]
      <3>1. \A j \in Jobs : row'[j] \in Row
        BY FlushRow
      <3>2. row' = [j \in Jobs |-> row'[j]]
        BY DEF Flush
      <3>. QED
        BY <3>1, <3>2
    <2>2. pc' \in [Procs -> Phase] /\ held' \in [Procs -> Hold]
      BY <1>1 DEF GoOn, TypeOK, Hold, NoJob
    <2>3. txn' \in [Procs -> Txn \cup {NoTxn}] /\ stored' \subseteq Jobs
      BY DEF Flush, TypeOK
    <2>4. torn' \subseteq Jobs
      BY DEF Flush, TypeOK, Hit
    <2>. QED
      BY <2>1, <2>2, <2>3, <2>4 DEF Aside, TypeOK
  <1>3. AllEngaged'
    <2>. SUFFICES ASSUME NEW q \in Procs PROVE Engaged(q)'
      BY DEF AllEngaged
    <2>1. Engaged(q) /\ txn[p] # NoTxn
      BY DEF Typed, AllEngaged, Flush
    <2>2. CASE q = p
      <3>1. pc'[q] = next /\ txn'[q] = NoTxn /\ stored' = stored
            /\ (next # "idle" => held'[q] = held[q])
        BY <1>1, <2>2 DEF GoOn, Flush, TypeOK
      <3>2. next \in InJob => next = pc[q]
        BY <1>1, <2>1, <2>2 DEF Engaged
      <3>. QED
        BY <2>1, <3>1, <3>2 DEF Engaged, InJob
    <2>3. CASE q # p
      <3>1. pc'[q] = pc[q] /\ txn'[q] = txn[q] /\ stored' = stored /\ held'[q] = held[q]
        BY <1>1, <2>3 DEF GoOn, Flush, TypeOK
      <3>. QED
        BY <2>1, <3>1 DEF Engaged
    <2>. QED
      BY <2>2, <2>3
  <1>. QED
    BY <1>2, <1>3 DEF Typed

LEMMA MoveTyped ==
    ASSUME Typed, Aside, MoveStep
    PROVE  Typed'
  <1>. TypeOK
    BY DEF Typed
  <1>1. PICK p \in Procs, next \in Phase : Move(p, next)
    BY DEF MoveStep
  <1>2. TypeOK'
    <2>1. held' \in [Procs -> Hold]
      BY <1>1 DEF Move, TypeOK, Hold, NoJob
    <2>2. txn' \in [Procs -> Txn \cup {NoTxn}]
      BY <1>1 DEF Move, TypeOK
    <2>. QED
      BY <1>1, <2>1, <2>2 DEF Move, Aside, TypeOK
  <1>3. AllEngaged'
    <2>. SUFFICES ASSUME NEW q \in Procs PROVE Engaged(q)'
      BY DEF AllEngaged
    <2>1. Engaged(q)
      BY DEF Typed, AllEngaged
    <2>2. CASE q = p
      <3>1. pc'[q] = next /\ stored' = stored
        BY <1>1, <2>2 DEF Move, TypeOK
      <3>2. next \in InJob => held'[q] = held[q]
        BY <1>1, <2>2 DEF Move
      <3>3. next \in InJob => pc[q] \in InJob /\ (next = "stored" => pc[q] = "stored")
        BY <1>1, <2>1, <2>2 DEF Move, Engaged
      <3>4. txn'[q] # NoTxn =>
              txn'[q] = txn[q] /\ next \notin InJob /\ pc[q] \notin InJob
        BY <1>1, <2>2 DEF Move, TypeOK
      <3>. QED
        BY <2>1, <3>1, <3>2, <3>3, <3>4 DEF Engaged, InJob
    <2>3. CASE q # p
      <3>1. pc'[q] = pc[q] /\ txn'[q] = txn[q] /\ stored' = stored /\ held'[q] = held[q]
        BY <1>1, <2>3 DEF Move, TypeOK
      <3>. QED
        BY <2>1, <3>1 DEF Engaged
    <2>. QED
      BY <2>2, <2>3
  <1>. QED
    BY <1>2, <1>3 DEF Typed

\* What the claim of a job does.
LEMMA DequeueRow ==
    ASSUME TypeOK, NEW w \in Workers, Dequeue(w)
    PROVE  \E j \in Jobs :
             /\ row[j].status = "queued"
             /\ row' = [row EXCEPT ![j].status = "processing"]
             /\ row' \in [Jobs -> Row]
             /\ row'[j] = [status |-> "processing", attempts |-> row[j].attempts]
             /\ \A k \in Jobs \ {j} : row'[k] = row[k]
             /\ held' = [held EXCEPT ![w] = [job |-> j, attempts |-> row[j].attempts]]
             /\ held'[w].job = j /\ held'[w].attempts = row[j].attempts
  <1>1. PICK j \in Jobs :
           /\ row[j].status = "queued"
           /\ row' = [row EXCEPT ![j].status = "processing"]
           /\ held' = [held EXCEPT ![w] = [job |-> j, attempts |-> row[j].attempts]]
    BY DEF Dequeue, In
  <1>2. row'[j] = [status |-> "processing", attempts |-> row[j].attempts]
        /\ row' \in [Jobs -> Row] /\ \A k \in Jobs \ {j} : row'[k] = row[k]
    BY <1>1 DEF TypeOK, Row, Status
  <1>3. held'[w].job = j /\ held'[w].attempts = row[j].attempts
    BY <1>1, WorkersAreProcs DEF TypeOK
  <1>. QED
    BY <1>1, <1>2, <1>3

LEMMA EnqueueRow ==
    ASSUME TypeOK, Enqueue
    PROVE  \E j \in Jobs :
             /\ row[j].status = "absent"
             /\ row' \in [Jobs -> Row]
             /\ row'[j] = [status |-> "queued", attempts |-> row[j].attempts]
             /\ \A k \in Jobs \ {j} : row'[k] = row[k]
  <1>1. PICK j \in Jobs : /\ row[j].status = "absent"
                          /\ row' = [row EXCEPT ![j].status = "queued"]
    BY DEF Enqueue, In
  <1>. QED
    BY <1>1 DEF TypeOK, Row, Status

LEMMA OtherTyped ==
    ASSUME Typed, Aside,
           \/ \E w \in Workers : Dequeue(w)
           \/ \E w \in Workers : AddPersists(w)
           \/ LateStore /\ stored' \subseteq Jobs
           \/ Enqueue
    PROVE  Typed'
  <1>. TypeOK /\ \A q \in Procs : Engaged(q)
    BY DEF Typed, AllEngaged
  <1>1. ASSUME NEW w \in Workers, Dequeue(w) PROVE Typed'
    <2>1. PICK j \in Jobs :
            /\ row' \in [Jobs -> Row] /\ row[j].attempts \in Nat
            /\ held' = [held EXCEPT ![w] = [job |-> j, attempts |-> row[j].attempts]]
      BY <1>1, DequeueRow DEF TypeOK, Row
    <2>2. pc' = [pc EXCEPT ![w] = "adding"] /\ UNCHANGED <<txn, stored, torn>>
          /\ txn[w] = NoTxn
      BY <1>1 DEF Dequeue, Ready
    <2>3. pc' \in [Procs -> Phase] /\ held' \in [Procs -> Hold]
      BY <2>1, <2>2 DEF TypeOK, Hold, Phase
    <2>4. TypeOK'
      BY <2>1, <2>2, <2>3 DEF TypeOK, Aside
    <2>5. ASSUME NEW q \in Procs PROVE Engaged(q)'
      <3>1. CASE q = w
        <4>1. pc'[q] = "adding" /\ txn'[q] = NoTxn /\ held'[q].job \in Jobs
          BY <2>1, <2>2, <3>1 DEF TypeOK
        <4>. QED
          BY <4>1 DEF Engaged
      <3>2. CASE q # w
        <4>1. pc'[q] = pc[q] /\ txn'[q] = txn[q] /\ held'[q] = held[q] /\ stored' = stored
          BY <2>1, <2>2, <3>2 DEF TypeOK
        <4>. QED
          BY <4>1 DEF Engaged
      <3>. QED
        BY <3>1, <3>2
    <2>. QED
      BY <2>4, <2>5 DEF Typed, AllEngaged
  <1>2. ASSUME NEW w \in Workers, AddPersists(w) PROVE Typed'
    <2>1. /\ pc[w] = "adding" /\ pc' = [pc EXCEPT ![w] = "stored"]
          /\ stored' = stored \cup {held[w].job} /\ txn[w] = NoTxn
          /\ UNCHANGED <<row, held, txn, torn>>
      BY <1>2 DEF AddPersists, Working
    <2>2. w \in Procs /\ held[w].job \in Jobs
      BY <2>1, WorkersAreProcs DEF Engaged, InJob
    <2>3. pc' \in [Procs -> Phase] /\ stored' \subseteq Jobs
      BY <2>1, <2>2 DEF TypeOK, Phase
    <2>4. TypeOK'
      BY <2>1, <2>3 DEF TypeOK, Aside
    <2>5. ASSUME NEW q \in Procs PROVE Engaged(q)'
      <3>1. CASE q = w
        <4>1. pc'[q] = "stored" /\ txn'[q] = NoTxn /\ held'[q].job \in Jobs
              /\ held'[q].job \in stored'
          BY <2>1, <2>2, <3>1 DEF TypeOK
        <4>. QED
          BY <4>1 DEF Engaged
      <3>2. CASE q # w
        <4>1. pc'[q] = pc[q] /\ txn'[q] = txn[q] /\ held'[q] = held[q]
              /\ stored \subseteq stored'
          BY <2>1, <3>2 DEF TypeOK
        <4>. QED
          BY <4>1 DEF Engaged
      <3>. QED
        BY <3>1, <3>2
    <2>. QED
      BY <2>4, <2>5 DEF Typed, AllEngaged
  <1>3. ASSUME LateStore, stored' \subseteq Jobs PROVE Typed'
    <2>1. TypeOK'
      BY <1>3 DEF LateStore, TypeOK, Aside
    <2>2. ASSUME NEW q \in Procs PROVE Engaged(q)'
      BY <1>3 DEF LateStore, Engaged
    <2>. QED
      BY <2>1, <2>2 DEF Typed, AllEngaged
  <1>4. ASSUME Enqueue PROVE Typed'
    <2>1. row' \in [Jobs -> Row] /\ UNCHANGED <<pc, held, txn, stored, torn>>
      BY <1>4, EnqueueRow DEF Enqueue
    <2>2. TypeOK'
      BY <2>1 DEF TypeOK, Aside
    <2>3. ASSUME NEW q \in Procs PROVE Engaged(q)'
      BY <2>1 DEF Engaged
    <2>. QED
      BY <2>2, <2>3 DEF Typed, AllEngaged
  <1>. QED
    BY <1>1, <1>2, <1>3, <1>4

LEMMA InitTyped == Init => Typed
  <1>. SUFFICES ASSUME Init PROVE Typed
    OBVIOUS
  <1>1. TypeOK
    BY WriteQueueAssumption
    DEF Init, TypeOK, Row, Status, Phase, Hold, NoJob
  <1>2. ASSUME NEW q \in Procs PROVE Engaged(q)
    BY DEF Init, Engaged, InJob
  <1>. QED
    BY <1>1, <1>2 DEF Typed, AllEngaged

LEMMA NextTyped == Typed /\ [Next]_vars => Typed'
  <1>. SUFFICES ASSUME Typed, [Next]_vars PROVE Typed'
    OBVIOUS
  <1>1. CASE Next
    <2>1. Typed => TypeOK /\ AllEngaged
      BY DEF Typed
    <2>. QED
      BY <1>1, <2>1, StepForms, LoadTyped, FlushTyped, MoveTyped, OtherTyped
  <1>2. CASE UNCHANGED vars
    BY <1>2 DEF vars, Typed, TypeOK, AllEngaged, Engaged
  <1>. QED
    BY <1>1, <1>2

(***************************************************************************)
(* The variables of the queue and of its workers keep their types.         *)
(***************************************************************************)
THEOREM TypeCorrect == Spec => []TypeOK
  <1>1. Typed => TypeOK
    BY DEF Typed
  <1>. QED
    BY <1>1, InitTyped, NextTyped, PTL DEF Spec

-----------------------------------------------------------------------------
(* One owner                                                               *)

\* Process q owns the job it holds.
Owns(q) ==
    LET j == held[q].job
    IN  j # 0 /\ j \notin torn =>
          /\ row[j] = [status |-> "processing", attempts |-> held[q].attempts]
          /\ \A p \in Procs \ {q} : held[p].job # j

LEMMA OwnerStep ==
    ASSUME Typed, OneOwner, Next
    PROVE  OneOwner'
  <1>. TypeOK /\ AllEngaged /\ \A q \in Procs : Owns(q)
    BY DEF Typed, OneOwner, Owns
  <1>. SUFFICES ASSUME NEW q \in Procs PROVE Owns(q)'
    BY DEF OneOwner, Owns
  <1>0. \A p \in Procs : held[p].job \in Jobs \cup {0}
    BY DEF TypeOK, Hold
  <1>1. CASE LoadStep
    BY <1>1 DEF LoadStep, Load, Owns
  <1>2. ASSUME NEW p \in Procs, Flush(p) PROVE Owns(q)'
    <2>. SUFFICES ASSUME held'[q].job # 0, held'[q].job \notin torn'
                  PROVE  /\ row'[held'[q].job] =
                              [status |-> "processing", attempts |-> held'[q].attempts]
                         /\ \A r \in Procs \ {q} : held'[r].job # held'[q].job
      BY DEF Owns
    <2>1. \A r \in Procs : held'[r] = held[r] \/ held'[r].job = 0
      BY <1>2 DEF Flush, GoOn, TypeOK, NoJob
    <2>2. held'[q] = held[q] /\ held[q].job \in Jobs
      BY <1>0, <2>1
    <2>3. row'[held[q].job] = row[held[q].job] /\ held[q].job \notin torn
      BY <1>2, <2>2, FlushRow
    <2>4. Owns(q)
      OBVIOUS
    <2>. QED
      BY <2>1, <2>2, <2>3, <2>4 DEF Owns
  <1>3. CASE MoveStep
    <2>1. PICK p \in Procs, next \in Phase : Move(p, next)
      BY <1>3 DEF MoveStep
    <2>2. row' = row /\ torn' = torn
      BY <2>1 DEF Move
    <2>3. \A r \in Procs : held'[r] = held[r] \/ held'[r].job = 0
      BY <2>1 DEF Move, TypeOK, NoJob
    <2>4. Owns(q)
      OBVIOUS
    <2>. QED
      BY <2>2, <2>3, <2>4 DEF Owns
  <1>4. ASSUME NEW w \in Workers, Dequeue(w) PROVE Owns(q)'
    <2>1. PICK j \in Jobs :
             /\ row[j].status = "queued"
             /\ row'[j] = [status |-> "processing", attempts |-> row[j].attempts]
             /\ \A k \in Jobs \ {j} : row'[k] = row[k]
             /\ held' = [held EXCEPT ![w] = [job |-> j, attempts |-> row[j].attempts]]
             /\ held'[w].job = j /\ held'[w].attempts = row[j].attempts
      BY <1>4, DequeueRow
    <2>2. torn' = torn
      BY <1>4 DEF Dequeue
    <2>3. \A r \in Procs : r # w => held'[r] = held[r]
      BY <2>1 DEF TypeOK
    <2>4. ASSUME NEW r \in Procs, held[r].job = j, j \notin torn PROVE FALSE
      <3>1. Owns(r) /\ j # 0
        BY DEF Jobs
      <3>2. row[j].status = "processing"
        BY <2>4, <3>1 DEF Owns
      <3>. QED
        BY <2>1, <3>2
    <2>5. CASE q = w
      BY <2>1, <2>2, <2>3, <2>4, <2>5 DEF Owns
    <2>6. CASE q # w
      <3>1. Owns(q) /\ held'[q] = held[q]
        BY <2>3, <2>6
      <3>2. held[q].job \notin torn => held[q].job # j
        BY <2>4
      <3>. QED
        BY <1>0, <2>1, <2>2, <2>3, <3>1, <3>2 DEF Owns
    <2>. QED
      BY <2>5, <2>6
  <1>5. ASSUME NEW w \in Workers, AddPersists(w) PROVE Owns(q)'
    BY <1>5 DEF AddPersists, Owns
  <1>6. CASE LateStore
    BY <1>6 DEF LateStore, Owns
  <1>7. CASE Enqueue
    <2>1. PICK j \in Jobs : /\ row[j].status = "absent"
                            /\ \A k \in Jobs \ {j} : row'[k] = row[k]
      BY <1>7, EnqueueRow
    <2>2. held' = held /\ torn' = torn /\ Owns(q)
      BY <1>7 DEF Enqueue
    <2>3. held[q].job # 0 /\ held[q].job \notin torn => held[q].job \in Jobs \ {j}
      BY <1>0, <2>1, <2>2 DEF Owns
    <2>. QED
      BY <2>1, <2>2, <2>3 DEF Owns
  <1>. QED
    BY <1>1, <1>2, <1>3, <1>4, <1>5, <1>6, <1>7, StepForms

LEMMA OwnerInductive == Typed /\ OneOwner /\ [Next]_vars => OneOwner'
  <1>. SUFFICES ASSUME Typed, OneOwner, [Next]_vars PROVE OneOwner'
    OBVIOUS
  <1>1. CASE Next
    BY <1>1, OwnerStep
  <1>2. CASE UNCHANGED vars
    BY <1>2 DEF vars, OneOwner
  <1>. QED
    BY <1>1, <1>2

LEMMA InitOwner == Init => OneOwner
  BY DEF Init, OneOwner, NoJob

(***************************************************************************)
(* A job is processed by one worker, and its row says so, until an         *)
(* unguarded UPDATE has landed on a newer row of it (torn).                *)
(***************************************************************************)
THEOREM Owner == Spec => []OneOwner
  BY InitTyped, InitOwner, NextTyped, OwnerInductive, PTL DEF Spec

-----------------------------------------------------------------------------
(* What is reported done is stored                                         *)

\* The rows an open transaction is about to mark done have their memories.
DonePending ==
    \A p \in Procs : txn[p] # NoTxn /\ txn[p].kind = "done" => Hit(txn[p]) \subseteq stored

Persisted == DoneMeansPersisted /\ DonePending

LEMMA PersistedStep ==
    ASSUME Typed, Persisted, Next
    PROVE  Persisted'
  <1>. TypeOK /\ AllEngaged /\ \A q \in Procs : Engaged(q)
    BY DEF Typed, AllEngaged
  <1>0. \A j \in Jobs : row[j].status = "done" => j \in stored
    BY DEF Persisted, DoneMeansPersisted, In
  <1>1. ASSUME NEW j \in Jobs, row'[j].status = "done" PROVE j \in stored'
    <2>1. CASE LoadStep
      BY <1>0, <1>1, <2>1 DEF LoadStep, Load
    <2>2. ASSUME NEW p \in Procs, Flush(p) PROVE j \in stored'
      <3>1. /\ stored' = stored
            /\ j \notin Hit(txn[p]) => row'[j] = row[j]
            /\ row[j].status = "done" \/ txn[p].kind = "done"
        BY <1>1, <2>2, FlushRow
      <3>2. txn[p] # NoTxn
        BY <2>2 DEF Flush
      <3>3. txn[p].kind = "done" => Hit(txn[p]) \subseteq stored
        BY <3>2 DEF Persisted, DonePending
      <3>. QED
        BY <1>0, <1>1, <3>1, <3>3
    <2>3. CASE MoveStep
      BY <1>0, <1>1, <2>3 DEF MoveStep, Move
    <2>4. ASSUME NEW w \in Workers, Dequeue(w) PROVE j \in stored'
      <3>1. PICK i \in Jobs :
               /\ row'[i] = [status |-> "processing", attempts |-> row[i].attempts]
               /\ \A k \in Jobs \ {i} : row'[k] = row[k]
        BY <2>4, DequeueRow
      <3>2. stored' = stored
        BY <2>4 DEF Dequeue
      <3>. QED
        BY <1>0, <1>1, <3>1, <3>2
    <2>5. ASSUME NEW w \in Workers, AddPersists(w) PROVE j \in stored'
      BY <1>0, <1>1, <2>5 DEF AddPersists
    <2>6. CASE LateStore
      BY <1>0, <1>1, <2>6 DEF LateStore
    <2>7. CASE Enqueue
      <3>1. PICK i \in Jobs :
               /\ row'[i] = [status |-> "queued", attempts |-> row[i].attempts]
               /\ \A k \in Jobs \ {i} : row'[k] = row[k]
        BY <2>7, EnqueueRow
      <3>2. stored' = stored
        BY <2>7 DEF Enqueue
      <3>. QED
        BY <1>0, <1>1, <3>1, <3>2
    <2>. QED
      BY <2>1, <2>2, <2>3, <2>4, <2>5, <2>6, <2>7, StepForms
  <1>2. stored \subseteq stored'
    BY StepForms DEF LoadStep, Load, Flush, MoveStep, Move, Dequeue, AddPersists,
                     LateStore, Enqueue
  <1>3. ASSUME NEW q \in Procs, txn'[q] # NoTxn, txn'[q].kind = "done"
        PROVE  Hit(txn'[q]) \subseteq stored'
    <2>0. ASSUME txn'[q] = txn[q] PROVE Hit(txn'[q]) \subseteq stored'
      BY <1>2, <1>3, <2>0 DEF Persisted, DonePending
    <2>1. CASE LoadStep
      <3>1. PICK p \in Procs, kind \in Kind, S \in SUBSET (Jobs \cup {0}), n \in Nat,
                 next \in Phase :
               Load(p, kind, S, n, next) /\ Justified(p, kind, S, n, next)
        BY <2>1 DEF LoadStep
      <3>2. txn'[p] = [kind |-> kind, attempts |-> n, next |-> next,
                       from |-> [j \in Jobs |-> IF j \in S THEN row[j] ELSE NoRow]]
            /\ (q # p => txn'[q] = txn[q])
        BY <3>1 DEF Load, TypeOK
      <3>3. CASE q = p
        <4>1. kind = "done"
          BY <1>3, <3>2, <3>3
        <4>2. S = {held[p].job} /\ pc[p] = "stored"
          BY <3>1, <4>1 DEF Justified
        <4>3. S \subseteq stored
          BY <4>2 DEF Engaged
        <4>4. Hit(txn'[p]) \subseteq S
          BY <3>2 DEF Hit
        <4>. QED
          BY <1>2, <3>3, <4>3, <4>4
      <3>. QED
        BY <2>0, <3>2, <3>3
    <2>2. CASE \E p \in Procs : Flush(p)
      BY <1>3, <2>0, <2>2 DEF Flush, TypeOK
    <2>3. CASE MoveStep
      BY <1>3, <2>0, <2>3 DEF MoveStep, Move, TypeOK
    <2>4. CASE txn' = txn
      BY <2>0, <2>4
    <2>. QED
      BY <2>1, <2>2, <2>3, <2>4, StepForms DEF Dequeue, AddPersists, LateStore, Enqueue
  <1>. QED
    BY <1>1, <1>3 DEF Persisted, DoneMeansPersisted, DonePending, In

LEMMA PersistedInductive == Typed /\ Persisted /\ [Next]_vars => Persisted'
  <1>. SUFFICES ASSUME Typed, Persisted, [Next]_vars PROVE Persisted'
    OBVIOUS
  <1>1. CASE Next
    BY <1>1, PersistedStep
  <1>2. CASE UNCHANGED vars
    BY <1>2 DEF vars, Persisted, DoneMeansPersisted, DonePending, In, Hit
  <1>. QED
    BY <1>1, <1>2

LEMMA InitPersisted == Init => Persisted
  BY DEF Init, Persisted, DoneMeansPersisted, DonePending, In

(***************************************************************************)
(* A job reported done has its memories in the store.                      *)
(***************************************************************************)
THEOREM Persistence == Spec => []DoneMeansPersisted
  <1>1. Persisted => DoneMeansPersisted
    BY DEF Persisted
  <1>. QED
    BY <1>1, InitTyped, InitPersisted, NextTyped, PersistedInductive, PTL DEF Spec

-----------------------------------------------------------------------------
(* The ceiling of attempts                                                 *)

\* A row may be tried (again) only below the ceiling.
Good(r) ==
    /\ r.attempts <= MaxAttempts
    /\ r.status \in {"absent", "queued", "processing"} => r.attempts < MaxAttempts

RowsGood == \A j \in Jobs \ torn : Good(row[j])

\* What transaction x would write over an unchanged row j, and that it takes
\* back a failure only to start again.
Sound(x, j) ==
    /\ Good(Wanted(x, x.from[j]))
    /\ x.from[j].status = "failed" => x.kind \in {"retry", "fail"}

TxnsSound ==
    \A p \in Procs : txn[p] # NoTxn => \A j \in Hit(txn[p]) \ torn : Sound(txn[p], j)

Counted == RowsGood /\ TxnsSound

LEMMA LoadSound ==
    ASSUME TypeOK, OneOwner, RowsGood,
           NEW p \in Procs, NEW kind \in Kind, NEW S \in SUBSET (Jobs \cup {0}),
           NEW n \in Nat, NEW next \in Phase, NEW x,
           x = [kind |-> kind, attempts |-> n, next |-> next,
                from |-> [j \in Jobs |-> IF j \in S THEN row[j] ELSE NoRow]],
           Justified(p, kind, S, n, next),
           NEW j \in Hit(x) \ torn
    PROVE  Sound(x, j)
  <1>1. j \in Jobs /\ j \in S /\ x.kind = kind /\ x.attempts = n
    BY DEF Hit
  <1>2. PICK r \in Row : r = row[j] /\ x.from[j] = r
    BY <1>1 DEF TypeOK
  <1>3. Good(r) /\ r.attempts \in Nat /\ r.status \in Status
    BY <1>1, <1>2 DEF RowsGood, Row
  <1>4. MaxAttempts \in Nat /\ MaxAttempts > 0
    BY WriteQueueAssumption
  <1>. SUFFICES /\ Good(Wanted(x, r))
                /\ r.status = "failed" => kind \in {"retry", "fail"}
    BY <1>1, <1>2 DEF Sound
  <1>5. ASSUME kind \in {"done", "skip", "requeue", "fail"}
        PROVE  r = [status |-> "processing", attempts |-> held[p].attempts]
    <2>1. j = held[p].job /\ j # 0
      BY <1>1, <1>5 DEF Justified, Jobs
    <2>. QED
      BY <1>2, <2>1 DEF OneOwner
  <1>6. CASE kind = "recover"
    <2>1. r.status = "processing"
      BY <1>1, <1>2, <1>6 DEF Justified, In
    <2>2. Wanted(x, r) = [r EXCEPT !.status = "queued"]
      BY <1>1, <1>6 DEF Wanted
    <2>. QED
      BY <1>3, <1>4, <2>1, <2>2 DEF Good, Row
  <1>7. CASE kind = "retry"
    <2>1. Wanted(x, r) = [status |-> "queued", attempts |-> 0]
      BY <1>1, <1>7 DEF Wanted, Reset
    <2>. QED
      BY <1>4, <1>7, <2>1 DEF Good
  <1>8. CASE kind = "stall"
    <2>1. r.status \in {"processing", "queued"}
      BY <1>1, <1>2, <1>8 DEF Justified, In
    <2>2. Wanted(x, r) = [status |-> "failed",
                          attempts |-> IF r.attempts = 0 THEN 1 ELSE r.attempts]
      BY <1>1, <1>8 DEF Wanted
    <2>. QED
      BY <1>3, <1>4, <2>1, <2>2 DEF Good
  <1>9. CASE kind = "done"
    <2>1. Wanted(x, r) = [r EXCEPT !.status = "done"]
      BY <1>1, <1>9 DEF Wanted
    <2>. QED
      BY <1>3, <1>5, <1>9, <2>1 DEF Good, Row
  <1>10. CASE kind = "skip"
    <2>1. Wanted(x, r) = [r EXCEPT !.status = "skipped"]
      BY <1>1, <1>10 DEF Wanted
    <2>. QED
      BY <1>3, <1>5, <1>10, <2>1 DEF Good, Row
  <1>11. CASE kind = "requeue"
    <2>1. Wanted(x, r) = [status |-> "queued", attempts |-> n] /\ n < MaxAttempts
      BY <1>1, <1>11 DEF Wanted, Justified
    <2>. QED
      BY <1>4, <1>5, <1>11, <2>1 DEF Good
  <1>12. CASE kind = "fail"
    <2>1. Wanted(x, r) = [status |-> "failed", attempts |-> n]
          /\ n = held[p].attempts + 1
      BY <1>1, <1>12 DEF Wanted, Justified
    <2>2. r.attempts < MaxAttempts /\ r.attempts = held[p].attempts
      BY <1>3, <1>5, <1>12 DEF Good
    <2>. QED
      BY <1>3, <1>4, <1>12, <2>1, <2>2 DEF Good
  <1>. QED
    BY <1>6, <1>7, <1>8, <1>9, <1>10, <1>11, <1>12 DEF Kind

LEMMA RowsStep ==
    ASSUME Typed, Counted, Next, NEW j \in Jobs \ torn'
    PROVE  /\ Good(row'[j])
           /\ row[j].status = "failed" /\ row'[j].status # "failed"
              => row'[j] = [status |-> "queued", attempts |-> 0]
  <1>. TypeOK /\ AllEngaged /\ TxnsSound
    BY DEF Typed, Counted
  <1>0. ASSUME torn' = torn PROVE Good(row[j])
    BY <1>0 DEF Counted, RowsGood
  <1>1. CASE LoadStep
    BY <1>0, <1>1 DEF LoadStep, Load
  <1>2. ASSUME NEW p \in Procs, Flush(p)
        PROVE  /\ Good(row'[j])
               /\ row[j].status = "failed" /\ row'[j].status # "failed"
                  => row'[j] = [status |-> "queued", attempts |-> 0]
    <2>1. j \notin torn /\ Good(row[j])
      BY <1>2, FlushRow DEF Counted, RowsGood
    <2>2. CASE j \notin Hit(txn[p])
      BY <1>2, <2>1, <2>2, FlushRow
    <2>3. CASE j \in Hit(txn[p])
      <3>1. txn[p].from[j] = row[j] /\ row'[j] = Wanted(txn[p], row[j])
        BY <1>2, <2>3, FlushRow
      <3>2. txn[p] # NoTxn
        BY <1>2 DEF Flush
      <3>3. Sound(txn[p], j)
        BY <2>1, <2>3, <3>2 DEF TxnsSound
      <3>4. txn[p].kind = "retry" => row'[j] = [status |-> "queued", attempts |-> 0]
        BY <3>1 DEF Wanted, Reset
      <3>5. txn[p].kind = "fail" => row'[j].status = "failed"
        BY <3>1 DEF Wanted
      <3>. QED
        BY <3>1, <3>3, <3>4, <3>5 DEF Sound
    <2>. QED
      BY <2>2, <2>3
  <1>3. CASE MoveStep
    BY <1>0, <1>3 DEF MoveStep, Move
  <1>4. ASSUME NEW w \in Workers, Dequeue(w)
        PROVE  /\ Good(row'[j])
               /\ row[j].status = "failed" => row'[j].status = "failed"
    <2>1. PICK i \in Jobs :
             /\ row[i].status = "queued"
             /\ row'[i] = [status |-> "processing", attempts |-> row[i].attempts]
             /\ \A k \in Jobs \ {i} : row'[k] = row[k]
      BY <1>4, DequeueRow
    <2>2. Good(row[j])
      BY <1>0, <1>4 DEF Dequeue
    <2>. QED
      BY <2>1, <2>2 DEF Good
  <1>5. CASE \E w \in Workers : AddPersists(w)
    BY <1>0, <1>5 DEF AddPersists
  <1>6. CASE LateStore
    BY <1>0, <1>6 DEF LateStore
  <1>7. CASE Enqueue
    <2>1. PICK i \in Jobs :
             /\ row[i].status = "absent"
             /\ row'[i] = [status |-> "queued", attempts |-> row[i].attempts]
             /\ \A k \in Jobs \ {i} : row'[k] = row[k]
      BY <1>7, EnqueueRow
    <2>2. Good(row[j])
      BY <1>0, <1>7 DEF Enqueue
    <2>. QED
      BY <2>1, <2>2 DEF Good
  <1>. QED
    BY <1>1, <1>2, <1>3, <1>4, <1>5, <1>6, <1>7, StepForms

LEMMA TxnsStep ==
    ASSUME Typed, OneOwner, Counted, Next
    PROVE  TxnsSound'
  <1>. TypeOK /\ AllEngaged /\ TxnsSound /\ RowsGood
    BY DEF Typed, Counted
  <1>. SUFFICES ASSUME NEW q \in Procs, txn'[q] # NoTxn, NEW j \in Hit(txn'[q]) \ torn'
                PROVE  Sound(txn'[q], j)
    BY DEF TxnsSound
  <1>1. torn \subseteq torn'
    BY StepForms DEF LoadStep, Load, Flush, MoveStep, Move, Dequeue, AddPersists,
                     LateStore, Enqueue
  <1>2. ASSUME txn'[q] = txn[q] PROVE Sound(txn'[q], j)
    BY <1>1, <1>2 DEF TxnsSound
  <1>3. CASE LoadStep
    <2>1. PICK p \in Procs, kind \in Kind, S \in SUBSET (Jobs \cup {0}), n \in Nat,
               next \in Phase :
             Load(p, kind, S, n, next) /\ Justified(p, kind, S, n, next)
      BY <1>3 DEF LoadStep
    <2>2. txn'[p] = [kind |-> kind, attempts |-> n, next |-> next,
                     from |-> [i \in Jobs |-> IF i \in S THEN row[i] ELSE NoRow]]
          /\ (q # p => txn'[q] = txn[q])
      BY <2>1 DEF Load, TypeOK
    <2>3. CASE q = p
      BY <1>1, <2>1, <2>2, <2>3, LoadSound
    <2>. QED
      BY <1>2, <2>2, <2>3
  <1>4. CASE \E p \in Procs : Flush(p)
    BY <1>2, <1>4 DEF Flush, TypeOK
  <1>5. CASE MoveStep
    BY <1>2, <1>5 DEF MoveStep, Move, TypeOK
  <1>6. CASE txn' = txn
    BY <1>2, <1>6
  <1>. QED
    BY <1>3, <1>4, <1>5, <1>6, StepForms DEF Dequeue, AddPersists, LateStore, Enqueue

LEMMA CountedInductive == Typed /\ OneOwner /\ Counted /\ [Next]_vars => Counted'
  <1>. SUFFICES ASSUME Typed, OneOwner, Counted, [Next]_vars PROVE Counted'
    OBVIOUS
  <1>1. CASE Next
    <2>1. \A j \in Jobs \ torn' : Good(row'[j])
      BY <1>1, RowsStep
    <2>2. RowsGood'
      BY <2>1 DEF RowsGood, Good
    <2>. QED
      BY <1>1, <2>2, TxnsStep DEF Counted
  <1>2. CASE UNCHANGED vars
    <2>1. row' = row /\ txn' = txn /\ torn' = torn
      BY <1>2 DEF vars
    <2>2. RowsGood'
      BY <2>1 DEF Counted, RowsGood, Good
    <2>3. TxnsSound'
      BY <2>1 DEF Counted, TxnsSound
    <2>. QED
      BY <2>2, <2>3 DEF Counted
  <1>. QED
    BY <1>1, <1>2

LEMMA InitCounted == Init => Counted
  BY WriteQueueAssumption DEF Init, Counted, RowsGood, TxnsSound, Good

(***************************************************************************)
(* No row counts more attempts than the ceiling allows, jobs excepted on   *)
(* which an unguarded UPDATE has landed (torn).                            *)
(***************************************************************************)
THEOREM Ceiling == Spec => []AttemptsBounded
  <1>1. Counted => AttemptsBounded
    BY DEF Counted, RowsGood, Good, AttemptsBounded
  <1>. QED
    BY <1>1, InitTyped, InitOwner, InitCounted, NextTyped, OwnerInductive,
       CountedInductive, PTL DEF Spec

(***************************************************************************)
(* The recorded failure of a job is taken back only by a requeue that      *)
(* starts again, unless this step or an earlier one flushed its row over a *)
(* newer one or under a worker that went on (torn).                        *)
(***************************************************************************)
THEOREM Failure == Spec => FailureStands
  <1>1. Typed /\ Counted /\ [Next]_vars
        => [\A j \in Jobs \ torn' :
              row[j].status = "failed" /\ row'[j].status # "failed"
              => row'[j] = [status |-> "queued", attempts |-> 0]]_vars
    BY RowsStep
  <1>. QED
    BY <1>1, InitTyped, InitOwner, InitCounted, NextTyped, OwnerInductive,
       CountedInductive, PTL DEF Spec, FailureStands
-----------------------------------------------------------------------------
(* A worker on its own                                                     *)

\* A single worker, no API process that intervenes.
Alone == Apis = {} /\ \A v, w \in Workers : v = w

\* The rows a worker has loaded are as they were, the job it holds is among
\* them only if it lets go of it, and out of a job it holds none.
Calm(w) ==
    /\ held[w].job # 0 => pc[w] \in InJob
    /\ txn[w] # NoTxn =>
          /\ \A j \in Hit(txn[w]) : row[j] = txn[w].from[j] /\ row[j].status # "absent"
          /\ \/ txn[w].next = "idle"
             \/ /\ held[w].job \notin Hit(txn[w])
                /\ txn[w].next \in InJob \/ held[w].job = 0

AllCalm == torn = {} /\ \A w \in Workers : Calm(w)

LEMMA LoadCalm ==
    ASSUME Alone, Typed, AllCalm, NEW w \in Workers, NEW kind, NEW n,
           NEW S \in SUBSET Jobs, NEW next, Load(w, kind, S, n, next),
           \A j \in S : row[j].status # "absent",
           next = "idle" \/ (held[w].job \notin S /\ (next \in InJob \/ held[w].job = 0))
    PROVE  AllCalm'
  <1>. DEFINE x == [kind |-> kind, attempts |-> n, next |-> next,
                    from |-> [j \in Jobs |-> IF j \in S THEN row[j] ELSE NoRow]]
  <1>1. UNCHANGED <<row, pc, held, torn>> /\ txn' = [txn EXCEPT ![w] = x]
    BY DEF Load
  <1>2. Hit(x) \subseteq S /\ \A j \in Hit(x) : row[j] = x.from[j]
    BY DEF Hit
  <1>3. x.next = next
    OBVIOUS
  <1>4. txn'[w] = x
    BY <1>1, WorkersAreProcs DEF Typed, TypeOK
  <1>. HIDE DEF x
  <1>5. Calm(w)'
    BY <1>1, <1>2, <1>3, <1>4 DEF AllCalm, Calm, Hit
  <1>. QED
    BY <1>1, <1>5 DEF AllCalm, Alone

\* The transaction ends, written or not, and the worker goes on.
LEMMA EndCalm ==
    ASSUME Alone, Typed, AllCalm, NEW w \in Workers, NEW next \in Phase, torn' = {},
           txn' = [txn EXCEPT ![w] = NoTxn], GoOn(w, next),
           next = "idle" \/ next \in InJob \/ held[w].job = 0
    PROVE  AllCalm'
  <1>1. w \in Procs /\ pc'[w] = next /\ txn'[w] = NoTxn
    BY WorkersAreProcs DEF GoOn, Typed, TypeOK
  <1>2. held'[w].job # 0 => pc'[w] \in InJob
    BY <1>1 DEF GoOn, Typed, TypeOK, NoJob
  <1>. QED
    BY <1>1, <1>2 DEF AllCalm, Calm, Alone

LEMMA WorkerCalm ==
    ASSUME Alone, Typed, OneOwner, AllCalm, NEW w \in Workers, WorkerStep(w)
    PROVE  AllCalm'
  <1>. USE WorkersAreProcs
  <1>1. /\ held[w].job \in Jobs \cup {0} /\ pc[w] \in Phase
        /\ pc[w] \in InJob => held[w].job \in Jobs
        /\ held[w].job # 0 => pc[w] \in InJob
        /\ 0 \notin Jobs /\ Jobs \subseteq Jobs \cup {0}
    BY DEF Typed, TypeOK, Hold, AllEngaged, Engaged, AllCalm, Calm, Jobs
  <1>2. pc[w] \in InJob => row[held[w].job].status # "absent"
    <2>1. CASE pc[w] \in InJob
      <3>1. row[held[w].job] = [status |-> "processing", attempts |-> held[w].attempts]
        BY <1>1, <2>1 DEF OneOwner, AllCalm
      <3>. QED
        BY <3>1
    <2>. QED
      BY <2>1
  <1>3. ASSUME UNCHANGED <<row, txn, torn, held>>, pc'[w] \in InJob \/ held[w].job = 0
        PROVE  AllCalm'
    BY <1>3 DEF AllCalm, Calm, Alone, Hit
  <1>4. ASSUME NEW next \in Phase, GoOn(w, next), txn[w] = NoTxn, UNCHANGED <<txn, torn>>,
               next = "idle" \/ held[w].job = 0
        PROVE  AllCalm'
    <2>1. txn' = [txn EXCEPT ![w] = NoTxn]
      BY <1>4 DEF Typed, TypeOK
    <2>. QED
      BY <1>4, <2>1, EndCalm DEF AllCalm
  <1>5. CASE Start(w) \/ AddPersists(w) \/ \E j \in Jobs : ZombieEnds(w, j)
    <2>1. UNCHANGED <<row, txn, torn, held>>
      BY <1>5 DEF Start, AddPersists, ZombieEnds
    <2>2. pc'[w] \in InJob \/ held[w].job = 0
      BY <1>1, <1>5 DEF Start, AddPersists, ZombieEnds, InJob, Typed, TypeOK
    <2>. QED
      BY <1>3, <2>1, <2>2
  <1>6. CASE StartupRecover(w)
    <2>1. held[w].job = 0
      BY <1>1, <1>6 DEF StartupRecover, InJob
    <2>. QED
      BY <1>1, <1>6, <2>1, LoadCalm DEF StartupRecover, In
  <1>7. CASE RecoverFailed(w)
    <2>1. CASE \E S \in SUBSET In({"failed"}) \ {{}} : Load(w, "retry", S, 0, "idle")
      BY <2>1, LoadCalm DEF In
    <2>2. CASE GoOn(w, "idle") /\ UNCHANGED <<row, txn, stored, torn>>
      BY <1>4, <1>7, <2>2 DEF RecoverFailed, Phase
    <2>. QED
      BY <1>7, <2>1, <2>2 DEF RecoverFailed
  <1>8. CASE Dequeue(w)
    <2>1. pc'[w] = "adding" /\ UNCHANGED <<txn, torn>> /\ txn[w] = NoTxn
      BY <1>8 DEF Dequeue, Ready, Typed, TypeOK
    <2>. QED
      BY <2>1 DEF AllCalm, Calm, Alone, InJob
  <1>9. CASE Poll(w)
    BY <1>1, <1>4, <1>9 DEF Poll, Ready, Phase, InJob
  <1>10. CASE AddFindsNothing(w)
    BY <1>1, <1>2, <1>10, LoadCalm DEF AddFindsNothing, Working, InJob
  <1>11. CASE Finish(w)
    <2>1. CASE row[held[w].job].status = "processing"
      BY <1>1, <1>2, <1>11, <2>1, LoadCalm DEF Finish, Working, InJob
    <2>2. CASE row[held[w].job].status # "processing"
      BY <1>4, <1>11, <2>2 DEF Finish, Working, Phase
    <2>. QED
      BY <2>1, <2>2
  <1>12. CASE AttemptFails(w)
    <2>1. PICK kind : Load(w, kind, {held[w].job}, held[w].attempts + 1, "idle")
      BY <1>12 DEF AttemptFails
    <2>2. pc[w] \in InJob
      BY <1>12 DEF AttemptFails, Working, InJob
    <2>. QED
      BY <1>1, <1>2, <2>1, <2>2, LoadCalm
  <1>13. CASE JobTimeout(w)
    BY <1>1, <1>2, <1>13, LoadCalm DEF JobTimeout, Working, InJob
  <1>14. CASE FailStale(w)
    <2>1. PICK S \in SUBSET {j \in In({"processing"}) : Free(j)} : Load(w, "stall", S, 0, pc[w])
      BY <1>14 DEF FailStale
    <2>2. S \in SUBSET Jobs /\ held[w].job \notin S /\ \A j \in S : row[j].status # "absent"
      BY <2>1 DEF In, Free
    <2>. QED
      BY <1>1, <2>1, <2>2, LoadCalm
  <1>15. CASE Crash(w)
    <2>1. held'[w] = NoJob /\ txn'[w] = NoTxn /\ torn' = torn
      BY <1>15 DEF Crash, Typed, TypeOK
    <2>. QED
      BY <2>1 DEF AllCalm, Calm, Alone, NoJob
  <1>16. CASE Flush(w)
    <2>1. txn[w] # NoTxn /\ txn[w].next \in Phase /\ GoOn(w, txn[w].next)
          /\ txn' = [txn EXCEPT ![w] = NoTxn]
      BY <1>16 DEF Flush, Typed, TypeOK, Txn
    <2>2. ASSUME NEW j \in Hit(txn[w]) PROVE row[j] = txn[w].from[j] /\ Free(j)'
      <3>1. row[j] = txn[w].from[j] /\ j \in Jobs /\ j # 0
        BY <1>1, <2>1, <2>2 DEF AllCalm, Calm, Hit
      <3>2. held'[w].job # j
        BY <1>1, <2>1, <2>2, <3>1 DEF AllCalm, Calm, GoOn, Typed, TypeOK, NoJob
      <3>3. \A p \in Procs : p = w
        BY DEF Procs, Alone
      <3>. QED
        BY <3>1, <3>2, <3>3 DEF Free
    <2>3. torn' = {}
      BY <1>16, <2>2 DEF Flush, AllCalm
    <2>. QED
      BY <2>1, <2>3, EndCalm DEF AllCalm, Calm
  <1>. QED
    BY <1>5, <1>6, <1>7, <1>8, <1>9, <1>10, <1>11, <1>12, <1>13, <1>14, <1>15, <1>16
       DEF WorkerStep, MainStep

LEMMA LostCalm ==
    ASSUME Alone, Typed, AllCalm, NEW w \in Workers, Lose(w)
    PROVE  AllCalm'
  <1>. USE WorkersAreProcs
  <1>. DEFINE next == CASE txn[w].kind \in {"done", "skip"} -> "raised"
                        [] txn[w].kind = "recover"          -> pc[w]
                        [] w \in Apis                       -> "idle"
                        [] OTHER                            -> txn[w].next
  <1>1. txn[w] # NoTxn /\ txn' = [txn EXCEPT ![w] = NoTxn] /\ torn' = torn /\ GoOn(w, next)
    BY DEF Lose
  <1>2. txn[w].next \in Phase /\ pc[w] \in Phase /\ w \notin Apis
    BY <1>1 DEF Typed, TypeOK, Txn, Alone
  <1>3. next \in {"raised", pc[w], txn[w].next}
    BY <1>2
  <1>4. next \in Phase
    BY <1>2, <1>3 DEF Phase
  <1>5. next = "idle" \/ next \in InJob \/ held[w].job = 0
    BY <1>1, <1>3 DEF AllCalm, Calm, InJob
  <1>. HIDE DEF next
  <1>. QED
    BY <1>1, <1>4, <1>5, EndCalm DEF AllCalm

LEMMA CalmInductive == Alone /\ Typed /\ OneOwner /\ AllCalm /\ [Next]_vars => AllCalm'
  <1>. SUFFICES ASSUME Alone, Typed, OneOwner, AllCalm, [Next]_vars PROVE AllCalm'
    OBVIOUS
  <1>1. CASE Enqueue
    <2>1. UNCHANGED <<pc, held, txn, torn>>
      BY <1>1 DEF Enqueue
    <2>2. \A j \in Jobs : row[j].status # "absent" => row'[j] = row[j]
      BY <1>1 DEF Enqueue, In, Typed, TypeOK
    <2>3. \A x : Hit(x) \subseteq Jobs
      BY DEF Hit
    <2>. QED
      BY <2>1, <2>2, <2>3 DEF AllCalm, Calm
  <1>2. CASE UNCHANGED vars
    BY <1>2 DEF vars, AllCalm, Calm
  <1>. QED
    BY <1>1, <1>2, WorkerCalm, LostCalm DEF Next, Procs, Alone

LEMMA InitCalm == Init => AllCalm
  BY DEF Init, AllCalm, Calm, NoJob, Procs

(***************************************************************************)
(* Nothing is torn where one worker works alone, however often it crashes: *)
(* its main loop, its side task and its recoveries never write a row that  *)
(* another of them has changed since it was loaded.                        *)
(***************************************************************************)
THEOREM LoneWorkerTearsNothing ==
    ASSUME Alone PROVE Spec => []NothingTorn
  <1>1. AllCalm => NothingTorn
    BY DEF AllCalm, NothingTorn
  <1>2. AllCalm /\ Typed /\ OneOwner /\ [Next]_vars => AllCalm'
    BY CalmInductive
  <1>. QED
    BY <1>1, <1>2, InitTyped, InitOwner, InitCalm, NextTyped, OwnerInductive, PTL DEF Spec
=============================================================================
