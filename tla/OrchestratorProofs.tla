------------------------- MODULE OrchestratorProofs -------------------------
(***************************************************************************)
(* Proofs about the control loop, for every set of phones, goroutines and  *)
(* requests and every choice of failing calls and crashes.                 *)
(***************************************************************************)
EXTENDS Orchestrator, TLAPS

-----------------------------------------------------------------------------
(***************************************************************************)
(* What the pure steps on records return.                                  *)
(***************************************************************************)

\* A transition keeps a record a record, and gives it the state asked for.
LEMMA MovedRecord ==
    ASSUME NEW r \in PhoneRecord, NEW to \in States
    PROVE  Moved(r, to) \in PhoneRecord /\ Moved(r, to).state = to
    BY DEF Moved, PhoneRecord

\* Recording an error and switching the flag keep a record a record.
LEMMA MarkedRecord ==
    ASSUME NEW r \in PhoneRecord, NEW e \in Errors, NEW flag \in BOOLEAN
    PROVE  /\ [r EXCEPT !.lastError = e] \in PhoneRecord
           /\ Failed(r) \in PhoneRecord
           /\ Flagged(r, flag) \in PhoneRecord
    BY DEF Failed, Flagged, PhoneRecord, Errors

\* A row that is not absent is a record.
LEMMA PresentRecord ==
    ASSUME NEW r \in PhoneRecord \union {NoPhone}
    PROVE  r.state # "absent" <=> r \in PhoneRecord
    BY DEF PhoneRecord, NoPhone, States, SetupStages

LEMMA NewPhoneRecord == NewPhone \in PhoneRecord
    BY DEF NewPhone, PhoneRecord, States, Errors

\* What a request is about to write is a record.
LEMMA RequestedRecord ==
    ASSUME NEW r \in PhoneRecord, NEW op \in AllOps \ {"add"}
    PROVE  Requested(op, r) \in PhoneRecord
    <1>1. [r EXCEPT !.lastError = "reason"] \in PhoneRecord
      BY MarkedRecord DEF Errors
    <1>2. [r EXCEPT !.readyAt = FALSE] \in PhoneRecord
      BY DEF PhoneRecord
    <1>3. {"paused", "working", "error", "new", "retired"} \subseteq States
      BY DEF States
    <1>4. QED
      BY <1>1, <1>2, <1>3, MovedRecord DEF Requested, AllOps

\* The provisioner's answers are states.
LEMMA SetupAnswersStates ==
    ASSUME NEW st \in States
    PROVE  SetupAnswers(st) \subseteq States
    BY DEF SetupAnswers, NextStage, States, SetupStages

\* The call chosen for a row is a worker's, and only a present row gets one.
LEMMA NextCallPoint ==
    ASSUME NEW r \in PhoneRecord \union {NoPhone}
    PROVE  /\ NextCall(r) \in WorkerPoints
           /\ NextCall(r) # "unlock" => r \in PhoneRecord
    BY PresentRecord DEF NextCall, WorkerPoints, RemoteCalls, SetupStages
-----------------------------------------------------------------------------
(***************************************************************************)
(* Types.  Besides TypeOK: an actor that is running is on a phone, and one *)
(* that is about to use its copy has a record there.                       *)
(***************************************************************************)

CopyPoints == Points \ {"idle", "lock", "get", "unlock"}

Located ==
    \A a \in Actors :
        /\ pc[a] # "idle" => on[a] \in Serials
        /\ pc[a] \in CopyPoints => copy[a] \in PhoneRecord

Typed == TypeOK /\ Located

LEMMA TypedInit == Init => Typed
    <1> SUFFICES ASSUME Init PROVE Typed
      OBVIOUS
    <1>1. \A st \in InitialStates : LeftBehind(st) \in PhoneRecord \union {NoPhone}
      <2> SUFFICES ASSUME NEW st \in States
                   PROVE  LeftBehind(st) \in PhoneRecord
        BY OrchestratorAssumption DEF LeftBehind
      <2> DEFINE ready == st \in {"ready", "working", "paused"}
                 retired == st = "retired"
      <2>1. [NewPhone EXCEPT !.state = st, !.readyAt = ready, !.retiredAt = retired]
              = LeftBehind(st)
        BY DEF LeftBehind, States, SetupStages
      <2>2. ready \in BOOLEAN /\ retired \in BOOLEAN
        OBVIOUS
      <2> HIDE DEF ready, retired
      <2>3. [NewPhone EXCEPT !.state = st, !.readyAt = ready, !.retiredAt = retired]
              \in PhoneRecord
        BY <2>2, NewPhoneRecord DEF PhoneRecord
      <2>4. QED
        BY <2>1, <2>3
    <1>2. store \in [Serials -> PhoneRecord \union {NoPhone}]
      BY <1>1 DEF Init
    <1>3. announced \in [Serials -> States]
      BY <1>2 DEF Init, Present, PhoneRecord, States
    <1>4. crashes \in 0 .. MaxCrashes
      BY OrchestratorAssumption DEF Init
    <1>5. "idle" \in Points /\ "idle" \notin CopyPoints
      BY DEF Points, CopyPoints
    <1>6. QED
      BY <1>2, <1>3, <1>4, <1>5 DEF Init, Typed, TypeOK, Located

\* A goroutine that returns leaves everything typed.
LEMMA TypedFinish ==
    ASSUME Typed, NEW a \in Actors, Finish(a)
    PROVE  /\ pc' \in [Actors -> Points]
           /\ on' \in [Actors -> Serials \union {"none"}]
           /\ copy' \in [Actors -> PhoneRecord \union {NoPhone}]
           /\ was' \in [Actors -> States \union {"none"}]
           /\ Located'
    <1>1. "idle" \in Points /\ "idle" \notin CopyPoints
      BY DEF Points, CopyPoints
    <1>2. QED
      BY <1>1 DEF Typed, TypeOK, Located, Finish, Goto, Holding

\* So does an actor that moves to another call, keeping its copy, and that
\* perhaps writes a record to the store.
LEMMA TypedMove ==
    ASSUME Typed, NEW a \in Actors, pc[a] # "idle",
           NEW point \in Points \ {"idle"}, Goto(a, point),
           NEW r \in PhoneRecord \union {NoPhone}, copy' = [copy EXCEPT ![a] = r],
           point \in CopyPoints => r \in PhoneRecord,
           on' = on
    PROVE  /\ pc' \in [Actors -> Points]
           /\ on' \in [Actors -> Serials \union {"none"}]
           /\ copy' \in [Actors -> PhoneRecord \union {NoPhone}]
           /\ Located'
    BY DEF Typed, TypeOK, Located, Goto

LEMMA TypedUpdate ==
    ASSUME TypeOK, NEW s \in Serials, NEW r \in PhoneRecord, Update(s, r)
    PROVE  store' \in [Serials -> PhoneRecord \union {NoPhone}]
    BY DEF TypeOK, Update
\* A transition from a call that has its copy.
LEMMA TypedTransition ==
    ASSUME Typed, NEW a \in Actors, pc[a] \in CopyPoints,
           NEW r \in PhoneRecord, NEW to \in States, NEW point \in CopyPoints,
           Transition(a, r, to, point), UNCHANGED <<lease, on, announced, crashes>>
    PROVE  Typed'
    <1>1. Moved(r, to) \in PhoneRecord
      BY MovedRecord
    <1>2. copy[a] \in PhoneRecord /\ on[a] \in Serials /\ pc[a] # "idle"
      BY DEF Typed, Located, CopyPoints
    <1>3. store' \in [Serials -> PhoneRecord \union {NoPhone}]
      BY <1>1, <1>2, TypedUpdate DEF Transition, Typed
    <1>4. was' \in [Actors -> States \union {"none"}]
      BY <1>2 DEF Transition, Typed, TypeOK, PhoneRecord
    <1>5. point \in Points \ {"idle"}
      BY DEF CopyPoints
    <1>6. QED
      BY <1>1, <1>2, <1>3, <1>4, <1>5, TypedMove DEF Transition, Typed, TypeOK, Holding

LEMMA TypedWorker ==
    ASSUME Typed, NEW w \in Workers, WorkerStep(w)
    PROVE  Typed'
    <1> w \in Actors
      BY DEF Actors
    <1> USE DEF Points, WorkerPoints, ClientPoints, RemoteCalls, CopyPoints
    <1>1. CASE Lock(w)
      BY <1>1 DEF Lock, TryLock, Goto, Typed, TypeOK, Located
    <1>2. CASE LockBusy(w)
      BY <1>2, TypedFinish DEF LockBusy, Typed, TypeOK
    <1>3. CASE Get(w)
      <2>1. on[w] \in Serials /\ pc[w] # "idle"
        BY <1>3 DEF Get, Typed, Located
      <2>2. store[on[w]] \in PhoneRecord \union {NoPhone}
        BY <2>1 DEF Typed, TypeOK
      <2>3. /\ NextCall(store[on[w]]) \in Points \ {"idle"}
            /\ NextCall(store[on[w]]) \in CopyPoints => store[on[w]] \in PhoneRecord
        BY <2>2, NextCallPoint
      <2>4. QED
        BY <1>3, <2>1, <2>2, <2>3, TypedMove DEF Get, Holding, Typed, TypeOK
    <1>4. CASE GetFails(w)
      BY <1>4 DEF GetFails, Goto, Typed, TypeOK, Located
    <1>5. ASSUME NEW call \in {"connect", "advance"}, StepFails(w, call)
          PROVE  Typed'
      <2>1. on[w] \in Serials /\ copy[w] \in PhoneRecord
        BY <1>5 DEF StepFails, Typed, Located
      <2>2. store' \in [Serials -> PhoneRecord \union {NoPhone}]
        BY <1>5, <2>1, TypedUpdate, MarkedRecord DEF StepFails, Typed, Errors
      <2>3. QED
        BY <1>5, <2>2 DEF StepFails, Goto, Typed, TypeOK, Located
    <1>6. CASE Connect(w)
      BY <1>6, TypedTransition DEF Connect, Typed, Located, States, SetupStages
    <1>7. CASE AdvanceSetup(w)
      <2>1. copy[w] \in PhoneRecord /\ pc[w] = "advance"
        BY <1>7 DEF AdvanceSetup, Typed, Located
      <2>2. SetupAnswers(copy[w].state) \subseteq States
        BY <2>1, SetupAnswersStates DEF PhoneRecord
      <2>3. QED
        BY <1>7, <2>1, <2>2, TypedTransition DEF AdvanceSetup
    <1>8. CASE SetupGoesOn(w)
      BY <1>8 DEF SetupGoesOn, Goto, Typed, TypeOK, Located
    <1>9. CASE Promote(w)
      BY <1>9, TypedTransition DEF Promote, Typed, Located, States
    <1>10. CASE Heartbeat(w)
      <2>1. store' \in [Serials -> PhoneRecord \union {NoPhone}]
        BY <1>10, TypedUpdate DEF Heartbeat, Typed, Located
      <2>2. QED
        BY <1>10, <2>1 DEF Heartbeat, Goto, Typed, TypeOK, Located
    <1>11. CASE RaiseFlag(w)
      <2>1. on[w] \in Serials /\ Flagged(copy[w], TRUE) \in PhoneRecord
        BY <1>11, MarkedRecord DEF RaiseFlag, Typed, Located, Errors
      <2>2. store' \in [Serials -> PhoneRecord \union {NoPhone}]
        BY <1>11, <2>1, TypedUpdate DEF RaiseFlag, Typed
      <2>3. QED
        BY <1>11, <2>1, <2>2, TypedMove DEF RaiseFlag, Holding, Typed, TypeOK
    <1>12. CASE Recover(w)
      <2>1. [copy[w] EXCEPT !.lastError = "none"] \in PhoneRecord
        BY <1>12, MarkedRecord DEF Recover, Typed, Located, Errors
      <2>2. QED
        BY <1>12, <2>1, TypedTransition DEF Recover, States
    <1>13. CASE RecoveryFails(w)
      <2>1. on[w] \in Serials /\ Failed(copy[w]) \in PhoneRecord
        BY <1>13, MarkedRecord DEF RecoveryFails, Typed, Located, Errors
      <2>2. store' \in [Serials -> PhoneRecord \union {NoPhone}]
        BY <1>13, <2>1, TypedUpdate DEF RecoveryFails, Typed
      <2>3. QED
        BY <1>13, <2>1, <2>2, TypedMove DEF RecoveryFails, Holding, Typed, TypeOK
    <1>14. CASE ClearFlag(w)
      <2>1. on[w] \in Serials /\ Flagged(copy[w], FALSE) \in PhoneRecord
        BY <1>14, MarkedRecord DEF ClearFlag, Typed, Located, Errors
      <2>2. store' \in [Serials -> PhoneRecord \union {NoPhone}]
        BY <1>14, <2>1, TypedUpdate DEF ClearFlag, Typed
      <2>3. QED
        BY <1>14, <2>1, <2>2, TypedMove DEF ClearFlag, Holding, Typed, TypeOK
    <1>15. CASE Announce(w)
      <2>1. on[w] \in Serials /\ copy[w].state \in States
        BY <1>15 DEF Announce, Typed, Located, PhoneRecord
      <2>2. announced' \in [Serials -> States]
        BY <1>15, <2>1 DEF Announce, Publish, Typed, TypeOK
      <2>3. QED
        BY <1>15, <2>2 DEF Announce, Goto, Typed, TypeOK, Located
    <1>16. CASE Release(w)
      <2>1. lease' \in [Serials -> {"free", "held", "lapsed"}]
        BY <1>16 DEF Release, Unlock, Typed, TypeOK
      <2>2. QED
        BY <1>16, <2>1, TypedFinish DEF Release, Typed, TypeOK
    <1>17. QED
      BY <1>1, <1>2, <1>3, <1>4, <1>5, <1>6, <1>7, <1>8, <1>9, <1>10, <1>11, <1>12,
         <1>13, <1>14, <1>15, <1>16 DEF WorkerStep
LEMMA TypedClient ==
    ASSUME Typed, NEW c \in Clients,
           \/ ClientStep(c)
           \/ \E s \in Serials, op \in AllOps : Request(c, s, op)
           \/ \E s \in Serials : RequestAdd(c, s)
    PROVE  Typed'
    <1> c \in Actors
      BY DEF Actors
    <1> USE DEF Points, ClientPoints, CopyPoints
    <1>1. ASSUME NEW s \in Serials, NEW op \in AllOps, Request(c, s, op)
          PROVE  Typed'
      <2>1. store[s] \in PhoneRecord
        BY <1>1 DEF Request, Present, Typed, TypeOK
      <2>2. Requested(op, store[s]) \in PhoneRecord
        BY <1>1, <2>1, RequestedRecord DEF Request
      <2>3. was' \in [Actors -> States \union {"none"}]
        BY <1>1, <2>1 DEF Request, Typed, TypeOK, PhoneRecord
      <2>4. pc' \in [Actors -> Points]
        BY <1>1 DEF Request, Goto, Typed, TypeOK
      <2>5. QED
        BY <1>1, <2>2, <2>3, <2>4 DEF Request, Goto, Holding, Typed, TypeOK, Located
    <1>2. ASSUME NEW s \in Serials, RequestAdd(c, s)
          PROVE  Typed'
      BY <1>2, NewPhoneRecord DEF RequestAdd, Goto, Holding, Typed, TypeOK, Located
    <1>3. CASE SavePhone(c)
      <2>1. store' \in [Serials -> PhoneRecord \union {NoPhone}]
        BY <1>3 DEF SavePhone, Typed, TypeOK, Located
      <2>2. QED
        BY <1>3, <2>1, TypedFinish DEF SavePhone, Typed, TypeOK
    <1>4. CASE StoreRequest(c)
      <2>1. store' \in [Serials -> PhoneRecord \union {NoPhone}]
        BY <1>4, TypedUpdate DEF StoreRequest, Typed, Located
      <2>2. QED
        BY <1>4, <2>1 DEF StoreRequest, Goto, Typed, TypeOK, Located
    <1>5. CASE StoreQuietly(c)
      <2>1. store' \in [Serials -> PhoneRecord \union {NoPhone}]
        BY <1>5, TypedUpdate DEF StoreQuietly, Typed, Located
      <2>2. QED
        BY <1>5, <2>1, TypedFinish DEF StoreQuietly, Typed, TypeOK
    <1>6. CASE Reply(c)
      <2>1. on[c] \in Serials /\ copy[c].state \in States
        BY <1>6 DEF Reply, Typed, Located, PhoneRecord
      <2>2. announced' \in [Serials -> States]
        BY <1>6, <2>1 DEF Reply, Publish, Typed, TypeOK
      <2>3. QED
        BY <1>6, <2>2, TypedFinish DEF Reply, Typed, TypeOK
    <1>7. QED
      BY <1>1, <1>2, <1>3, <1>4, <1>5, <1>6 DEF ClientStep

LEMMA TypedStep == Typed /\ [Next]_vars => Typed'
    <1> SUFFICES ASSUME Typed, [Next]_vars PROVE Typed'
      OBVIOUS
    <1>1. ASSUME NEW w \in Workers, NEW s \in Serials, Tick(w, s)
          PROVE  Typed'
      BY <1>1 DEF Tick, Goto, Typed, TypeOK, Located, Actors, Points, WorkerPoints, CopyPoints
    <1>2. ASSUME NEW s \in Serials, Lapse(s)
          PROVE  Typed'
      BY <1>2 DEF Lapse, Typed, TypeOK, Located
    <1>3. CASE Crash
      <2>1. crashes' \in 0 .. MaxCrashes
        BY <1>3, OrchestratorAssumption DEF Crash, Typed, TypeOK
      <2>2. QED
        BY <1>3, <2>1 DEF Crash, Typed, TypeOK, Located, Points, CopyPoints
    <1>4. CASE UNCHANGED vars
      BY <1>4 DEF vars, Typed, TypeOK, Located
    <1>5. QED
      BY <1>1, <1>2, <1>3, <1>4, TypedWorker, TypedClient DEF Next

\* Every variable keeps its type in every behaviour, and a running actor
\* always has a phone and, where it uses one, a record.
THEOREM TypeCorrect == Spec => []TypeOK
    <1>1. Typed => TypeOK
      BY DEF Typed
    <1>2. QED
      BY <1>1, TypedInit, TypedStep, PTL DEF Spec

\* The strengthening the other proofs start from.
LEMMA TypedAlways == Spec => []Typed
    BY TypedInit, TypedStep, PTL DEF Spec
-----------------------------------------------------------------------------
(***************************************************************************)
(* Consistent records.  The induction needs to know which state the copy   *)
(* of a goroutine is in when its call returns: the record of a phone that  *)
(* leaves "new" or a setup stage has no ready_at.                          *)
(***************************************************************************)

CallMatchesCopy ==
    \A w \in Workers :
        /\ pc[w] = "connect" => copy[w].state = "new"
        /\ pc[w] = "advance" => copy[w].state \in SetupStages

ConsistentInv == Typed /\ CallMatchesCopy /\ RecordsConsistent

\* Moving to "wifi_setup" or onward from a record without ready_at, or
\* anywhere outside setup, gives a consistent record.
LEMMA MovedConsistent ==
    ASSUME NEW r \in PhoneRecord, NEW to \in States,
           to \in {"new"} \union SetupStages => ~r.readyAt
    PROVE  ConsistentRecord(Moved(r, to))
    BY DEF Moved, ConsistentRecord, PhoneRecord, States, SetupStages

\* Error text and flag do not matter for consistency.
LEMMA MarkedConsistent ==
    ASSUME NEW r \in PhoneRecord, ConsistentRecord(r), NEW e \in Errors, NEW flag \in BOOLEAN
    PROVE  /\ ConsistentRecord([r EXCEPT !.lastError = e])
           /\ ConsistentRecord(Failed(r))
           /\ ConsistentRecord(Flagged(r, flag))
    BY DEF Failed, Flagged, ConsistentRecord, PhoneRecord

\* Every request turns a consistent record into a consistent one.
LEMMA RequestedConsistent ==
    ASSUME NEW r \in PhoneRecord, ConsistentRecord(r), NEW op \in AllOps \ {"add"}
    PROVE  ConsistentRecord(Requested(op, r))
    <1>1. [r EXCEPT !.lastError = "reason"] \in PhoneRecord
      BY MarkedRecord DEF Errors
    <1>2. [r EXCEPT !.readyAt = FALSE] \in PhoneRecord /\ ~[r EXCEPT !.readyAt = FALSE].readyAt
      BY DEF PhoneRecord
    <1>3. /\ {"paused", "working", "error", "retired"} \subseteq States \ ({"new"} \union SetupStages)
          /\ "new" \in States
      BY DEF States, SetupStages
    <1>4. /\ ConsistentRecord(Moved([r EXCEPT !.lastError = "reason"], "paused"))
          /\ ConsistentRecord(Moved(r, "working"))
          /\ ConsistentRecord(Moved([r EXCEPT !.lastError = "reason"], "error"))
          /\ ConsistentRecord(Moved([r EXCEPT !.readyAt = FALSE], "new"))
          /\ ConsistentRecord(Moved(r, "retired"))
      BY <1>1, <1>2, <1>3, MovedConsistent
    <1>5. QED
      BY <1>4 DEF Requested, AllOps

LEMMA ConsistentInit == Init => CallMatchesCopy /\ RecordsConsistent
    <1> SUFFICES ASSUME Init PROVE CallMatchesCopy /\ RecordsConsistent
      OBVIOUS
    <1>1. \A st \in InitialStates :
             Present(LeftBehind(st)) => ConsistentRecord(LeftBehind(st))
      BY OrchestratorAssumption
         DEF LeftBehind, Present, NewPhone, ConsistentRecord, States, SetupStages
    <1>2. QED
      BY <1>1 DEF Init, CallMatchesCopy, RecordsConsistent, Present, Actors

\* Writing a consistent record and keeping it, or another consistent one, as
\* the copy preserves consistency everywhere else.
LEMMA ConsistentWrite ==
    ASSUME RecordsConsistent, TypeOK,
           NEW s \in Serials, NEW r \in PhoneRecord, ConsistentRecord(r), Update(s, r),
           NEW a \in Actors, NEW q, Present(q) => ConsistentRecord(q),
           copy' = [copy EXCEPT ![a] = q]
    PROVE  RecordsConsistent'
    BY DEF RecordsConsistent, TypeOK, Update
\* A goroutine's transition, from a state whose setup targets lack ready_at.
LEMMA ConsistentTransition ==
    ASSUME ConsistentInv, NEW a \in Actors, on[a] \in Serials, NEW r \in PhoneRecord,
           NEW to \in States, to \in {"new"} \union SetupStages => ~r.readyAt,
           NEW point, Transition(a, r, to, point)
    PROVE  RecordsConsistent'
    <1>1. Moved(r, to) \in PhoneRecord /\ ConsistentRecord(Moved(r, to))
      BY MovedRecord, MovedConsistent
    <1>2. QED
      BY <1>1, ConsistentWrite DEF Transition, Holding, ConsistentInv, Typed

LEMMA ConsistentWorker ==
    ASSUME ConsistentInv, NEW w \in Workers, WorkerStep(w)
    PROVE  RecordsConsistent'
    <1> w \in Actors
      BY DEF Actors
    <1> USE DEF Points, WorkerPoints, ClientPoints, RemoteCalls, CopyPoints
    <1>a. Typed /\ TypeOK /\ Located /\ RecordsConsistent /\ CallMatchesCopy
      BY DEF ConsistentInv, Typed
    <1>b. pc[w] \in CopyPoints =>
             on[w] \in Serials /\ copy[w] \in PhoneRecord /\ ConsistentRecord(copy[w])
      BY <1>a, PresentRecord DEF Located, RecordsConsistent, Present, NoPhone, TypeOK
    <1>1. CASE /\ Lock(w) \/ LockBusy(w) \/ GetFails(w) \/ SetupGoesOn(w)
                  \/ Announce(w) \/ Release(w)
      BY <1>1, <1>a DEF Lock, LockBusy, GetFails, SetupGoesOn, Announce, Release,
                        Finish, Holding, RecordsConsistent, TypeOK, Present
    <1>2. CASE Get(w)
      <2>1. on[w] \in Serials
        BY <1>2, <1>a DEF Get, Located
      <2>2. QED
        BY <1>2, <1>a, <2>1 DEF Get, Holding, RecordsConsistent, TypeOK
    <1>3. ASSUME NEW call \in {"connect", "advance"}, StepFails(w, call)
          PROVE  RecordsConsistent'
      <2>1. Failed(copy[w]) \in PhoneRecord /\ ConsistentRecord(Failed(copy[w]))
        BY <1>3, <1>b, MarkedRecord, MarkedConsistent DEF StepFails, Errors
      <2>2. copy' = [copy EXCEPT ![w] = copy[w]]
        BY <1>3, <1>a DEF StepFails, TypeOK
      <2>3. QED
        BY <1>3, <1>a, <1>b, <2>1, <2>2, ConsistentWrite DEF StepFails
    <1>4. CASE Connect(w)
      <2>1. ~copy[w].readyAt
        BY <1>4, <1>a, <1>b DEF Connect, CallMatchesCopy, ConsistentRecord, PhoneRecord
      <2>2. QED
        BY <1>4, <1>b, <2>1, ConsistentTransition DEF Connect, States, SetupStages
    <1>5. CASE AdvanceSetup(w)
      <2>1. ~copy[w].readyAt
        BY <1>5, <1>a, <1>b DEF AdvanceSetup, CallMatchesCopy, ConsistentRecord, PhoneRecord
      <2>2. SetupAnswers(copy[w].state) \subseteq States
        BY <1>5, <1>b, SetupAnswersStates DEF AdvanceSetup, PhoneRecord
      <2>3. QED
        BY <1>5, <1>b, <2>1, <2>2, ConsistentTransition DEF AdvanceSetup
    <1>6. CASE Promote(w)
      BY <1>6, <1>b, ConsistentTransition DEF Promote, States, SetupStages
    <1>7. CASE Heartbeat(w)
      <2>1. copy' = [copy EXCEPT ![w] = copy[w]]
        BY <1>7, <1>a DEF Heartbeat, TypeOK
      <2>2. QED
        BY <1>7, <1>a, <1>b, <2>1, ConsistentWrite DEF Heartbeat
    <1>8. CASE RaiseFlag(w)
      <2>1. /\ Flagged(copy[w], TRUE) \in PhoneRecord
            /\ ConsistentRecord(Flagged(copy[w], TRUE))
        BY <1>8, <1>b, MarkedRecord, MarkedConsistent DEF RaiseFlag, Errors
      <2>2. QED
        BY <1>8, <1>a, <1>b, <2>1, ConsistentWrite DEF RaiseFlag, Holding
    <1>9. CASE Recover(w)
      <2>1. [copy[w] EXCEPT !.lastError = "none"] \in PhoneRecord
        BY <1>9, <1>b, MarkedRecord DEF Recover, Errors
      <2>2. QED
        BY <1>9, <1>b, <2>1, ConsistentTransition DEF Recover, States, SetupStages
    <1>10. CASE RecoveryFails(w)
      <2>1. Failed(copy[w]) \in PhoneRecord /\ ConsistentRecord(Failed(copy[w]))
        BY <1>10, <1>b, MarkedRecord, MarkedConsistent DEF RecoveryFails, Errors
      <2>2. QED
        BY <1>10, <1>a, <1>b, <2>1, ConsistentWrite DEF RecoveryFails, Holding
    <1>11. CASE ClearFlag(w)
      <2>1. /\ Flagged(copy[w], FALSE) \in PhoneRecord
            /\ ConsistentRecord(Flagged(copy[w], FALSE))
        BY <1>11, <1>b, MarkedRecord, MarkedConsistent DEF ClearFlag, Errors
      <2>2. QED
        BY <1>11, <1>a, <1>b, <2>1, ConsistentWrite DEF ClearFlag, Holding
    <1>12. QED
      BY <1>1, <1>2, <1>3, <1>4, <1>5, <1>6, <1>7, <1>8, <1>9, <1>10, <1>11 DEF WorkerStep
LEMMA ConsistentClient ==
    ASSUME ConsistentInv, NEW c \in Clients,
           \/ ClientStep(c)
           \/ \E s \in Serials, op \in AllOps : Request(c, s, op)
           \/ \E s \in Serials : RequestAdd(c, s)
    PROVE  RecordsConsistent'
    <1> c \in Actors
      BY DEF Actors
    <1>a. Typed /\ TypeOK /\ Located /\ RecordsConsistent
      BY DEF ConsistentInv, Typed
    <1>b. pc[c] \in ClientPoints =>
             on[c] \in Serials /\ copy[c] \in PhoneRecord /\ ConsistentRecord(copy[c])
      BY <1>a, PresentRecord
         DEF Located, RecordsConsistent, Present, NoPhone, TypeOK, CopyPoints, Points, ClientPoints
    <1>1. ASSUME NEW s \in Serials, NEW op \in AllOps, Request(c, s, op)
          PROVE  RecordsConsistent'
      <2>1. store[s] \in PhoneRecord /\ ConsistentRecord(store[s])
        BY <1>1, <1>a DEF Request, Present, TypeOK, RecordsConsistent
      <2>2. ConsistentRecord(Requested(op, store[s]))
        BY <1>1, <2>1, RequestedConsistent DEF Request
      <2>3. QED
        BY <1>1, <1>a, <2>2 DEF Request, Holding, RecordsConsistent, TypeOK
    <1>2. ASSUME NEW s \in Serials, RequestAdd(c, s)
          PROVE  RecordsConsistent'
      <2>1. ConsistentRecord(NewPhone)
        BY DEF NewPhone, ConsistentRecord, SetupStages
      <2>2. QED
        BY <1>2, <1>a, <2>1 DEF RequestAdd, Holding, RecordsConsistent, TypeOK
    <1>3. CASE SavePhone(c)
      BY <1>3, <1>a, <1>b
         DEF SavePhone, Finish, Holding, RecordsConsistent, TypeOK, Present, ClientPoints
    <1>4. CASE StoreRequest(c)
      <2>1. copy' = [copy EXCEPT ![c] = copy[c]]
        BY <1>4, <1>a DEF StoreRequest, TypeOK
      <2>2. QED
        BY <1>4, <1>a, <1>b, <2>1, ConsistentWrite DEF StoreRequest, ClientPoints
    <1>5. CASE StoreQuietly(c)
      <2>1. copy' = [copy EXCEPT ![c] = NoPhone] /\ ~Present(NoPhone)
        BY <1>5 DEF StoreQuietly, Finish, Holding, Present
      <2>2. QED
        BY <1>5, <1>a, <1>b, <2>1, ConsistentWrite DEF StoreQuietly, ClientPoints
    <1>6. CASE Reply(c)
      BY <1>6, <1>a DEF Reply, Finish, Holding, RecordsConsistent, TypeOK, Present
    <1>7. QED
      BY <1>1, <1>2, <1>3, <1>4, <1>5, <1>6 DEF ClientStep

\* Only Get sends a goroutine into a call, and it chooses the call by the
\* state of the copy it has just made.
LEMMA CallMatchesCopyStep == ConsistentInv /\ [Next]_vars => CallMatchesCopy'
    <1> SUFFICES ASSUME ConsistentInv, [Next]_vars PROVE CallMatchesCopy'
      OBVIOUS
    <1>a. TypeOK /\ Located /\ CallMatchesCopy
      BY DEF ConsistentInv, Typed
    <1>1. ASSUME NEW w \in Workers, WorkerStep(w) \/ \E s \in Serials : Tick(w, s)
          PROVE  CallMatchesCopy'
      <2> w \in Actors
        BY DEF Actors
      <2>1. \A v \in Workers : v # w => pc'[v] = pc[v] /\ copy'[v] = copy[v]
        BY <1>1, <1>a
           DEF WorkerStep, Tick, Lock, LockBusy, Get, GetFails, Connect, StepFails, AdvanceSetup,
               SetupGoesOn, Promote, Heartbeat, RaiseFlag, Recover, RecoveryFails, ClearFlag,
               Announce, Release, Transition, Finish, Goto, Holding, TypeOK, Actors
      <2>2. CASE Get(w)
        <3>1. pc'[w] = NextCall(store[on[w]]) /\ copy'[w] = store[on[w]]
          BY <2>2, <1>a DEF Get, Goto, Holding, TypeOK
        <3>2. /\ NextCall(store[on[w]]) = "connect" => store[on[w]].state = "new"
              /\ NextCall(store[on[w]]) = "advance" => store[on[w]].state \in SetupStages
          BY DEF NextCall
        <3>3. QED
          BY <1>a, <2>1, <3>1, <3>2 DEF CallMatchesCopy
      <2>3. CASE ~Get(w)
        <3>1. pc'[w] \notin {"connect", "advance"}
          BY <1>1, <1>a, <2>3
             DEF WorkerStep, Tick, Lock, LockBusy, GetFails, Connect, StepFails, AdvanceSetup,
                 SetupGoesOn, Promote, Heartbeat, RaiseFlag, Recover, RecoveryFails, ClearFlag,
                 Announce, Release, Transition, Finish, Goto, TypeOK
        <3>2. QED
          BY <1>a, <2>1, <3>1 DEF CallMatchesCopy
      <2>4. QED
        BY <2>2, <2>3
    <1>2. ASSUME NEW c \in Clients,
                 \/ ClientStep(c)
                 \/ \E s \in Serials, op \in AllOps : Request(c, s, op)
                 \/ \E s \in Serials : RequestAdd(c, s)
          PROVE  CallMatchesCopy'
      <2>1. \A v \in Workers : pc'[v] = pc[v] /\ copy'[v] = copy[v]
        BY <1>2, <1>a, OrchestratorAssumption
           DEF ClientStep, Request, RequestAdd, SavePhone, StoreRequest, StoreQuietly, Reply,
               Finish, Goto, Holding, TypeOK, Actors
      <2>2. QED
        BY <1>a, <2>1 DEF CallMatchesCopy
    <1>3. CASE Crash \/ (\E s \in Serials : Lapse(s)) \/ UNCHANGED vars
      BY <1>3, <1>a DEF Crash, Lapse, vars, CallMatchesCopy, Actors
    <1>4. QED
      BY <1>1, <1>2, <1>3 DEF Next

LEMMA ConsistentStep == ConsistentInv /\ [Next]_vars => ConsistentInv'
    <1> SUFFICES ASSUME ConsistentInv, [Next]_vars PROVE RecordsConsistent'
      BY TypedStep, CallMatchesCopyStep DEF ConsistentInv
    <1>a. TypeOK /\ RecordsConsistent
      BY DEF ConsistentInv, Typed
    <1>1. CASE \E w \in Workers, s \in Serials : Tick(w, s)
      BY <1>1, <1>a DEF Tick, RecordsConsistent
    <1>2. CASE (\E s \in Serials : Lapse(s)) \/ UNCHANGED vars
      BY <1>2, <1>a DEF Lapse, vars, RecordsConsistent
    <1>3. CASE Crash
      BY <1>3, <1>a DEF Crash, RecordsConsistent, Present
    <1>4. QED
      BY <1>1, <1>2, <1>3, ConsistentWorker, ConsistentClient DEF Next

\* No race, lapsed lease, failed call or crash leaves a record, stored or on
\* its way to the store, that contradicts its own timestamps.
THEOREM RecordsStayConsistent == Spec => []RecordsConsistent
    <1>1. Init => ConsistentInv
      BY TypedInit, ConsistentInit DEF ConsistentInv
    <1>2. ConsistentInv => RecordsConsistent
      BY DEF ConsistentInv
    <1>3. QED
      BY <1>1, <1>2, ConsistentStep, PTL DEF Spec
-----------------------------------------------------------------------------
(***************************************************************************)
(* Leases.                                                                 *)
(***************************************************************************)

InWork(w) == pc[w] \notin {"idle", "lock"}

\* What a step of one goroutine does to the leases and to who is in work.
LEMMA WorkerLease ==
    ASSUME Typed, NEW w \in Workers, WorkerStep(w)
    PROVE  /\ on[w] \in Serials
           /\ \A v \in Workers : v # w => pc'[v] = pc[v] /\ on'[v] = on[v]
           /\ \/ /\ ~InWork(w) /\ pc'[w] = "get" /\ on' = on
                 /\ lease[on[w]] # "held" /\ lease' = [lease EXCEPT ![on[w]] = "held"]
              \/ /\ ~InWork(w) /\ pc'[w] = "idle"
                 /\ lease' = lease
              \/ /\ InWork(w) /\ pc'[w] \notin {"idle", "lock"} /\ on' = on
                 /\ lease' = lease
              \/ /\ InWork(w) /\ pc'[w] = "idle"
                 /\ lease' = [lease EXCEPT ![on[w]] = "free"]
    <1> w \in Actors
      BY DEF Actors
    <1>a. TypeOK /\ Located
      BY DEF Typed
    <1>b. pc[w] # "idle"
      BY <1>a DEF WorkerStep, Lock, LockBusy, Get, GetFails, Connect, StepFails, AdvanceSetup,
                  SetupGoesOn, Promote, Heartbeat, RaiseFlag, Recover, RecoveryFails, ClearFlag,
                  Announce, Release
    <1>1. on[w] \in Serials
      BY <1>a, <1>b DEF Located
    <1>2. \A v \in Workers : v # w => pc'[v] = pc[v] /\ on'[v] = on[v]
      BY <1>a DEF WorkerStep, Lock, LockBusy, Get, GetFails, Connect, StepFails, AdvanceSetup,
                  SetupGoesOn, Promote, Heartbeat, RaiseFlag, Recover, RecoveryFails, ClearFlag,
                  Announce, Release, Transition, Finish, Goto, TypeOK, Actors
    <1>3. CASE Lock(w)
      BY <1>1, <1>2, <1>3, <1>a DEF Lock, TryLock, Goto, InWork, TypeOK
    <1>4. CASE LockBusy(w)
      BY <1>1, <1>2, <1>4, <1>a DEF LockBusy, Finish, Goto, InWork, TypeOK
    <1>5. CASE Release(w)
      BY <1>1, <1>2, <1>5, <1>a DEF Release, Unlock, Finish, Goto, InWork, TypeOK
    <1>6. CASE Get(w)
      <2>1. NextCall(store[on[w]]) \notin {"idle", "lock"}
        BY DEF NextCall
      <2>2. QED
        BY <1>1, <1>2, <1>6, <1>a, <2>1 DEF Get, Goto, InWork, TypeOK
    <1>7. CASE ~(Lock(w) \/ LockBusy(w) \/ Release(w) \/ Get(w))
      BY <1>1, <1>2, <1>7, <1>a
         DEF WorkerStep, GetFails, Connect, StepFails, AdvanceSetup,
             SetupGoesOn, Promote, Heartbeat, RaiseFlag, Recover, RecoveryFails, ClearFlag,
             Announce, Transition, Goto, InWork, TypeOK
    <1>8. QED
      BY <1>3, <1>4, <1>5, <1>6, <1>7

\* A request touches neither the leases nor any goroutine.
LEMMA ClientLease ==
    ASSUME Typed, NEW c \in Clients,
           \/ ClientStep(c)
           \/ \E s \in Serials, op \in AllOps : Request(c, s, op)
           \/ \E s \in Serials : RequestAdd(c, s)
    PROVE  /\ lease' = lease
           /\ \A w \in Workers : pc'[w] = pc[w] /\ on'[w] = on[w] /\ copy'[w] = copy[w]
                                  /\ was'[w] = was[w]
    BY OrchestratorAssumption
       DEF ClientStep, Request, RequestAdd, SavePhone, StoreRequest, StoreQuietly, Reply,
           Finish, Goto, Holding, Typed, TypeOK, Actors

LEMMA LeaseOwnedStep == Typed /\ LeaseOwned /\ [Next]_vars => LeaseOwned'
    <1> SUFFICES ASSUME Typed, LeaseOwned, [Next]_vars,
                        NEW s \in Serials, lease'[s] = "held"
                 PROVE  \E w \in Workers : Processing(w, s)'
      BY DEF LeaseOwned
    <1>a. TypeOK
      BY DEF Typed
    <1>1. ASSUME NEW w \in Workers, WorkerStep(w)
          PROVE  \E v \in Workers : Processing(v, s)'
      <2>1. CASE on[w] = s /\ ~InWork(w) /\ pc'[w] = "get" /\ on' = on
        BY <1>1, <2>1 DEF Processing
      <2>2. CASE lease' = lease \/ on[w] # s
        <3>1. lease[s] = "held"
          BY <1>1, <2>2, <1>a, WorkerLease DEF TypeOK
        <3>2. PICK v \in Workers : Processing(v, s)
          BY <3>1 DEF LeaseOwned
        <3>3. CASE v # w
          BY <3>2, <3>3, <1>1, WorkerLease DEF Processing
        <3>4. CASE v = w
          BY <3>2, <3>4, <1>1, <2>2, <3>1, <1>a, WorkerLease DEF Processing, InWork, TypeOK
        <3>5. QED
          BY <3>3, <3>4
      <2>3. QED
        BY <1>1, <2>1, <2>2, <1>a, WorkerLease DEF TypeOK
    <1>2. ASSUME NEW w \in Workers, NEW p \in Serials, Tick(w, p)
          PROVE  \E v \in Workers : Processing(v, s)'
      BY <1>2, <1>a DEF Tick, Goto, LeaseOwned, Processing, TypeOK, Actors
    <1>3. ASSUME NEW c \in Clients,
                 \/ ClientStep(c)
                 \/ \E p \in Serials, op \in AllOps : Request(c, p, op)
                 \/ \E p \in Serials : RequestAdd(c, p)
          PROVE  \E v \in Workers : Processing(v, s)'
      BY <1>3, ClientLease DEF LeaseOwned, Processing
    <1>4. CASE (\E p \in Serials : Lapse(p)) \/ Crash \/ UNCHANGED vars
      BY <1>4, <1>a DEF Lapse, Crash, vars, LeaseOwned, Processing, TypeOK
    <1>5. QED
      BY <1>1, <1>2, <1>3, <1>4 DEF Next

\* An unexpired lease always has a goroutine that is still to release it,
\* whatever lapses, fails or restarts.
THEOREM LeasesAreOwned == Spec => []LeaseOwned
    <1>1. Init => LeaseOwned
      BY DEF Init, LeaseOwned
    <1>2. QED
      BY <1>1, TypedAlways, LeaseOwnedStep, PTL DEF Spec

-----------------------------------------------------------------------------
(***************************************************************************)
(* Mutual exclusion, while no call outlasts the lease: then a goroutine in *)
(* work has the unexpired lease of its phone.                              *)
(***************************************************************************)

NoLapse == SlowCalls = {}

HasLease == \A w \in Workers : InWork(w) => lease[on[w]] = "held"

Exclusive == HasLease /\ MutualExclusion

LEMMA ExclusiveStep == NoLapse /\ Typed /\ Exclusive /\ [Next]_vars => Exclusive'
    <1> SUFFICES ASSUME NoLapse, Typed, Exclusive, [Next]_vars PROVE Exclusive'
      OBVIOUS
    <1>a. TypeOK /\ Located
      BY DEF Typed
    <1>b. \A w, v \in Workers : InWork(w) /\ InWork(v) /\ on[w] = on[v] => w = v
      BY <1>a DEF Exclusive, MutualExclusion, Processing, InWork, Located, Actors
    <1>1. ASSUME NEW w \in Workers, WorkerStep(w)
          PROVE  Exclusive'
      <2>1. /\ HasLease
            /\ \A v \in Workers : v # w => pc'[v] = pc[v] /\ on'[v] = on[v]
            /\ on[w] \in Serials
        BY <1>1, WorkerLease DEF Exclusive
      <2>2. HasLease'
        <3> SUFFICES ASSUME NEW v \in Workers, InWork(v)' PROVE (lease[on[v]] = "held")'
          BY DEF HasLease
        <3>1. CASE v = w
          BY <3>1, <1>1, <2>1, <1>a, WorkerLease DEF HasLease, InWork, TypeOK
        <3>2. CASE v # w
          <4>1. InWork(v) /\ lease[on[v]] = "held" /\ on'[v] = on[v] /\ on[v] \in Serials
            BY <3>2, <2>1, <1>a DEF HasLease, InWork, Located, Actors
          <4>2. CASE InWork(w)
            BY <4>1, <4>2, <3>2, <1>1, <1>a, <1>b, WorkerLease DEF TypeOK
          <4>3. CASE ~InWork(w)
            BY <4>1, <4>3, <1>1, <1>a, WorkerLease DEF TypeOK
          <4>4. QED
            BY <4>2, <4>3
        <3>3. QED
          BY <3>1, <3>2
      <2>3. MutualExclusion'
        <3> SUFFICES ASSUME NEW v \in Workers, v # w, InWork(v), InWork(w)',
                            on'[w] = on[v]
                     PROVE  FALSE
          BY <2>1, <1>b DEF MutualExclusion, Processing, InWork
        <3>1. lease[on[v]] = "held"
          BY <2>1 DEF HasLease
        <3>2. QED
          BY <3>1, <1>1, <1>b, WorkerLease DEF InWork
      <2>4. QED
        BY <2>2, <2>3 DEF Exclusive
    <1>2. ASSUME NEW w \in Workers, NEW s \in Serials, Tick(w, s)
          PROVE  Exclusive'
      BY <1>2, <1>a DEF Tick, Goto, Exclusive, HasLease, MutualExclusion, Processing, InWork,
                        TypeOK, Actors
    <1>3. ASSUME NEW c \in Clients,
                 \/ ClientStep(c)
                 \/ \E s \in Serials, op \in AllOps : Request(c, s, op)
                 \/ \E s \in Serials : RequestAdd(c, s)
          PROVE  Exclusive'
      BY <1>3, ClientLease DEF Exclusive, HasLease, MutualExclusion, Processing, InWork
    <1>4. ASSUME NEW s \in Serials, Lapse(s)
          PROVE  Exclusive'
      BY <1>4 DEF Lapse, NoLapse
    <1>5. CASE Crash \/ UNCHANGED vars
      BY <1>5 DEF Crash, vars, Exclusive, HasLease, MutualExclusion, Processing, InWork, Actors
    <1>6. QED
      BY <1>1, <1>2, <1>3, <1>4, <1>5 DEF Next

LEMMA ExclusiveInit == Init => Exclusive
    BY DEF Init, Exclusive, HasLease, MutualExclusion, Processing, InWork, Actors

LEMMA ExclusiveAlways == NoLapse => (Spec => []Exclusive)
    <1> SUFFICES ASSUME NoLapse PROVE Spec => []Exclusive
      OBVIOUS
    <1>1. Typed /\ Exclusive /\ [Next]_vars => Exclusive'
      BY ExclusiveStep
    <1>2. QED
      BY <1>1, ExclusiveInit, TypedAlways, PTL DEF Spec

\* As long as no remote call outlasts the lease, two goroutines never
\* process one phone at once, whatever requests, failures and crashes come
\* in between.
THEOREM LeaseExcludes == NoLapse => (Spec => []MutualExclusion)
    <1> SUFFICES ASSUME NoLapse PROVE Spec => []MutualExclusion
      OBVIOUS
    <1>1. Exclusive => MutualExclusion
      BY DEF Exclusive
    <1>2. QED
      BY <1>1, ExclusiveAlways, PTL
=============================================================================
