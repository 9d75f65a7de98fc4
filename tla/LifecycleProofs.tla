-------------------------- MODULE LifecycleProofs --------------------------
(***************************************************************************)
(* Proofs about a control loop that has its phones to itself: operators    *)
(* only add phones, no call outlasts the lease, the process does not stop, *)
(* and writes and publications succeed.  Every other call may fail.  Then  *)
(* the loop implements PhoneLifecycle, raises the recovery flag for nobody *)
(* but the goroutine that recovers, and leaves no subscriber behind.       *)
(***************************************************************************)
EXTENDS OrchestratorProofs

LoopAlone ==
    /\ OperatorOps \subseteq {"add"}
    /\ SlowCalls = {}
    /\ MaxCrashes = 0
    /\ ~MayFail("update") /\ ~MayFail("publish")

Telling == {"announce", "announceRecovered"}
Recoveries == {"recover", "announceRecovered", "clear"}

\* The state a record is in when a call is about to be made with it.
Matches(point, r) ==
    /\ point = "connect" => r.state = "new"
    /\ point = "advance" => r.state \in SetupStages
    /\ point = "promote" => r.state = "ready"
    /\ point \in {"flag", "recover"} => r.state = "paused"

\* Under its lease a goroutine holds the stored record, not a stale one.
HoldsStored ==
    \A w \in Workers :
        /\ pc[w] \in CopyPoints => copy[w] = store[on[w]]
        /\ Matches(pc[w], copy[w])

\* Requests only add phones,
Adding ==
    \A c \in Clients : pc[c] \in {"idle", "save"} /\ (pc[c] = "save" => copy[c] = NewPhone)

\* and nothing is published of a phone before it is added.
OnlyAdds ==
    /\ Adding
    /\ \A s \in Serials : ~Present(store[s]) => announced[s] = "new"

LoopInv == HoldsStored /\ OnlyAdds /\ FlagOwned /\ SubscribersFollow

-----------------------------------------------------------------------------
(***************************************************************************)
(* What a step of a goroutine does, to the phone it is on and to no other. *)
(***************************************************************************)

\* The phone stays in its state, or takes an arrow of the diagram, or its
\* state is told.
Stays(w) ==
    /\ store'[on[w]].state = store[on[w]].state
    /\ announced' = announced
    /\ pc[w] \notin Telling /\ pc'[w] \notin Telling

Moves(w) ==
    /\ pc[w] \in CopyPoints \ Telling
    /\ <<store[on[w]].state, store'[on[w]].state>> \in Diagram(Provisioner)
    /\ store'[on[w]].state \in States
    /\ announced' = announced
    /\ pc'[w] \in Telling /\ on'[w] = on[w]

Tells(w) ==
    /\ pc[w] \in Telling
    /\ Present(store[on[w]]) /\ store' = store
    /\ announced' = [announced EXCEPT ![on[w]] = store[on[w]].state]

\* Only the goroutine that recovers, or is to lower the flag, may see it raised.
Flags(w) ==
    Present(store'[on[w]]) /\ store'[on[w]].recoveryInProgress =>
        \/ pc'[w] \in Recoveries /\ on'[w] = on[w]
        \/ /\ Present(store[on[w]]) /\ store[on[w]].recoveryInProgress
           /\ pc[w] \notin Recoveries

Effect(w) ==
    /\ \A s \in Serials \ {on[w]} : store'[s] = store[s]
    /\ Present(store'[on[w]]) <=> Present(store[on[w]])
    /\ ~InWork(w) => store' = store
    /\ pc'[w] \in CopyPoints => on'[w] = on[w] /\ copy'[w] = store'[on[w]]
    /\ Matches(pc'[w], copy'[w])
    /\ Stays(w) \/ Moves(w) \/ Tells(w)
    /\ Flags(w)

-----------------------------------------------------------------------------
\* An actor's step leaves the call and the copy of every other actor alone.
LEMMA WorkerAlone ==
    ASSUME Typed, NEW w \in Workers, WorkerStep(w) \/ \E s \in Serials : Tick(w, s)
    PROVE  \A a \in Actors \ {w} : pc'[a] = pc[a] /\ on'[a] = on[a] /\ copy'[a] = copy[a]
    BY DEF WorkerStep, Tick, Lock, LockBusy, Get, GetFails, Connect, StepFails, AdvanceSetup,
           SetupGoesOn, Promote, Heartbeat, RaiseFlag, Recover, RecoveryFails, ClearFlag,
           Announce, Release, Transition, Finish, Goto, Holding, Typed, TypeOK

\* A row is present when it is a record.
LEMMA PresentMeansRecord ==
    ASSUME NEW r \in PhoneRecord \union {NoPhone}
    PROVE  Present(r) <=> r \in PhoneRecord
    BY PresentRecord DEF Present, NoPhone

\* A transition's fields: it changes neither the flag nor a record's being one.
LEMMA MovedFields ==
    ASSUME NEW r \in PhoneRecord, NEW to \in States
    PROVE  /\ Moved(r, to) \in PhoneRecord
           /\ Moved(r, to).state = to
           /\ Moved(r, to).recoveryInProgress = r.recoveryInProgress
    BY MovedRecord DEF Moved, PhoneRecord

\* Recording an error and switching the flag leave the state alone.
LEMMA MarkedFields ==
    ASSUME NEW r \in PhoneRecord, NEW flag \in BOOLEAN
    PROVE  /\ Failed(r) \in PhoneRecord /\ Flagged(r, flag) \in PhoneRecord
           /\ Failed(r).state = r.state /\ Flagged(r, flag).state = r.state
           /\ Failed(r).recoveryInProgress = r.recoveryInProgress
           /\ Flagged(r, flag).recoveryInProgress = flag
    <1>1. Failed(r) \in PhoneRecord /\ Flagged(r, flag) \in PhoneRecord
      BY MarkedRecord DEF Errors
    <1>2. QED
      BY <1>1 DEF Failed, Flagged, PhoneRecord

\* The provisioner's answer to a setup stage is an arrow away, or that stage.
LEMMA AnswersFollowDiagram ==
    ASSUME NEW st \in SetupStages, NEW next \in SetupAnswers(st), next # st
    PROVE  <<st, next>> \in Diagram(Provisioner) /\ next \in States
    BY OrchestratorAssumption DEF SetupAnswers, Diagram, NextStage, SetupStages, States

\* A goroutine writing a record back to its phone's row.
LEMMA WritesRow ==
    ASSUME LoopAlone, TypeOK, NEW s \in Serials, NEW r \in PhoneRecord, Update(s, r)
    PROVE  /\ store'[s] = r
           /\ \A p \in Serials \ {s} : store'[p] = store[p]
           /\ Present(store'[s])
    BY PresentMeansRecord DEF LoopAlone, Update, TypeOK

\* Every call of a goroutine that has the stored record does what Effect says.
LEMMA WorkerEffect ==
    ASSUME LoopAlone, Typed, HoldsStored, NEW w \in Workers, WorkerStep(w)
    PROVE  on[w] \in Serials /\ Effect(w)
    <1> w \in Actors
      BY DEF Actors
    <1>a. TypeOK /\ Located
      BY DEF Typed
    <1>b. on[w] \in Serials
      BY WorkerLease
    <1>c. ASSUME pc[w] \in CopyPoints
          PROVE  /\ copy[w] \in PhoneRecord /\ store[on[w]] = copy[w]
                 /\ Present(store[on[w]]) /\ InWork(w)
      <2>1. copy[w] \in PhoneRecord /\ store[on[w]] = copy[w]
        BY <1>a, <1>c DEF Located, HoldsStored
      <2>2. QED
        BY <1>c, <2>1, PresentMeansRecord DEF CopyPoints, InWork
    <1>1. CASE Lock(w) \/ LockBusy(w) \/ GetFails(w) \/ SetupGoesOn(w) \/ Release(w)
      <2>1. /\ store' = store /\ announced' = announced
            /\ pc[w] \in {"lock", "get", "advance", "unlock"}
            /\ pc'[w] \in {"get", "idle", "unlock"}
        BY <1>1, <1>a DEF Lock, LockBusy, GetFails, SetupGoesOn, Release, Finish, Goto, TypeOK
      <2>2. QED
        BY <1>b, <2>1 DEF Effect, Stays, Flags, Matches, Telling, Recoveries, CopyPoints
    <1>2. CASE Get(w)
      <2>1. /\ store' = store /\ announced' = announced /\ on' = on
            /\ pc[w] = "get" /\ pc'[w] = NextCall(store[on[w]])
            /\ copy'[w] = store[on[w]]
        BY <1>2, <1>a DEF Get, Goto, Holding, TypeOK
      <2>2. /\ NextCall(store[on[w]]) \notin Telling
            /\ Matches(NextCall(store[on[w]]), store[on[w]])
        BY DEF NextCall, Matches, Telling
      <2>3. QED
        BY <1>b, <2>1, <2>2 DEF Effect, Stays, Flags, Recoveries, Telling
    <1>3. ASSUME NEW call \in {"connect", "advance"}, StepFails(w, call)
          PROVE  Effect(w)
      <2>1. pc[w] = call /\ pc'[w] = "unlock" /\ announced' = announced
            /\ Update(on[w], Failed(copy[w]))
        BY <1>3, <1>a DEF StepFails, Goto, TypeOK
      <2>2. pc[w] \in CopyPoints
        BY <2>1 DEF CopyPoints, Points, WorkerPoints, RemoteCalls
      <2>3. /\ Failed(copy[w]) \in PhoneRecord
            /\ Failed(copy[w]).state = copy[w].state
            /\ Failed(copy[w]).recoveryInProgress = copy[w].recoveryInProgress
        BY <1>c, <2>2, MarkedFields
      <2>4. /\ store'[on[w]] = Failed(copy[w]) /\ Present(store'[on[w]])
            /\ \A s \in Serials \ {on[w]} : store'[s] = store[s]
        BY <1>a, <1>b, <2>1, <2>3, WritesRow
      <2>5. QED
        BY <1>c, <2>1, <2>2, <2>3, <2>4
           DEF Effect, Stays, Flags, Matches, Telling, Recoveries, CopyPoints
    <1>4. ASSUME NEW r \in PhoneRecord, NEW to \in States,
                 NEW point \in {"announce", "announceRecovered"},
                 Transition(w, r, to, point), on' = on, announced' = announced,
                 pc[w] \in CopyPoints \ Telling,
                 r.recoveryInProgress = copy[w].recoveryInProgress,
                 <<copy[w].state, to>> \in Diagram(Provisioner),
                 point = "announceRecovered" <=> pc[w] \in Recoveries
          PROVE  Effect(w)
      <2>1. /\ pc'[w] = point /\ copy'[w] = Moved(r, to)
            /\ Update(on[w], Moved(r, to))
        BY <1>4, <1>a DEF Transition, Goto, Holding, TypeOK
      <2>2. /\ Moved(r, to) \in PhoneRecord /\ Moved(r, to).state = to
            /\ Moved(r, to).recoveryInProgress = copy[w].recoveryInProgress
        BY <1>4, MovedFields
      <2>3. /\ store'[on[w]] = Moved(r, to) /\ Present(store'[on[w]])
            /\ \A s \in Serials \ {on[w]} : store'[s] = store[s]
        BY <1>a, <1>b, <2>1, <2>2, WritesRow
      <2>4. Moves(w)
        BY <1>4, <1>c, <2>1, <2>2, <2>3 DEF Moves, Telling
      <2>5. Flags(w)
        BY <1>4, <1>c, <2>1, <2>2, <2>3 DEF Flags, Recoveries
      <2>6. QED
        BY <1>4, <1>c, <2>1, <2>3, <2>4, <2>5 DEF Effect, Matches
    <1>5. CASE Connect(w)
      <2>1. /\ pc[w] = "connect" /\ pc[w] \in CopyPoints \ Telling /\ pc[w] \notin Recoveries
            /\ Transition(w, copy[w], "wifi_setup", "announce")
            /\ on' = on /\ announced' = announced
        BY <1>5 DEF Connect, CopyPoints, Points, WorkerPoints, RemoteCalls, Telling, Recoveries
      <2>2. <<copy[w].state, "wifi_setup">> \in Diagram(Provisioner) /\ "wifi_setup" \in States
        BY <2>1 DEF HoldsStored, Matches, Diagram, States, SetupStages
      <2>3. QED
        BY <1>4, <1>b, <1>c, <2>1, <2>2
    <1>6. CASE AdvanceSetup(w)
      <2>1. pc[w] \in CopyPoints \ Telling /\ pc[w] = "advance" /\ pc[w] \notin Recoveries
        BY <1>6 DEF AdvanceSetup, CopyPoints, Points, WorkerPoints, RemoteCalls, Telling, Recoveries
      <2>2. copy[w].state \in SetupStages
        BY <2>1 DEF HoldsStored, Matches
      <2>3. PICK next \in SetupAnswers(copy[w].state) :
                    next # copy[w].state /\ Transition(w, copy[w], next, "announce")
        BY <1>6 DEF AdvanceSetup
      <2>4. <<copy[w].state, next>> \in Diagram(Provisioner) /\ next \in States
        BY <2>2, <2>3, AnswersFollowDiagram
      <2>5. on' = on /\ announced' = announced
        BY <1>6 DEF AdvanceSetup
      <2>6. QED
        BY <1>4, <1>b, <1>c, <2>1, <2>3, <2>4, <2>5
    <1>7. CASE Promote(w)
      <2>1. /\ pc[w] = "promote" /\ pc[w] \in CopyPoints \ Telling /\ pc[w] \notin Recoveries
            /\ Transition(w, copy[w], "working", "announce")
            /\ on' = on /\ announced' = announced
        BY <1>7 DEF Promote, CopyPoints, Points, WorkerPoints, Telling, Recoveries
      <2>2. <<copy[w].state, "working">> \in Diagram(Provisioner) /\ "working" \in States
        BY <2>1 DEF HoldsStored, Matches, Diagram, States
      <2>3. QED
        BY <1>4, <1>b, <1>c, <2>1, <2>2
    <1>8. CASE Heartbeat(w)
      <2>1. /\ pc[w] = "status" /\ pc'[w] = "unlock" /\ announced' = announced
            /\ Update(on[w], copy[w])
        BY <1>8, <1>a DEF Heartbeat, Goto, TypeOK
      <2>2. pc[w] \in CopyPoints
        BY <2>1 DEF CopyPoints, Points, WorkerPoints, RemoteCalls
      <2>3. QED
        BY <1>a, <1>b, <1>c, <2>1, <2>2, WritesRow
           DEF Effect, Stays, Flags, Matches, Telling, Recoveries, CopyPoints
    <1>9. CASE RaiseFlag(w) \/ RecoveryFails(w) \/ ClearFlag(w)
      <2>1. PICK r \in {Flagged(copy[w], TRUE), Failed(copy[w]), Flagged(copy[w], FALSE)},
                 point \in {"recover", "clear", "unlock"} :
              /\ pc'[w] = point /\ copy'[w] = r /\ on' = on /\ announced' = announced
              /\ Update(on[w], r)
              /\ point = "unlock" => r = Flagged(copy[w], FALSE)
              /\ pc[w] \in {"flag", "recover", "clear"}
              /\ point = "recover" => pc[w] = "flag"
        BY <1>9, <1>a DEF RaiseFlag, RecoveryFails, ClearFlag, Goto, Holding, TypeOK
      <2>2. pc[w] \in CopyPoints
        BY <2>1 DEF CopyPoints, Points, WorkerPoints, RemoteCalls
      <2>3. /\ r \in PhoneRecord /\ r.state = copy[w].state
            /\ point = "unlock" => r.recoveryInProgress = FALSE
        <3>1. /\ Failed(copy[w]) \in PhoneRecord
              /\ Failed(copy[w]).state = copy[w].state
          BY <1>c, <2>2, MarkedFields
        <3>2. ASSUME NEW flag \in BOOLEAN
              PROVE  /\ Flagged(copy[w], flag) \in PhoneRecord
                     /\ Flagged(copy[w], flag).state = copy[w].state
                     /\ Flagged(copy[w], flag).recoveryInProgress = flag
          BY <1>c, <2>2, MarkedFields
        <3>3. QED
          BY <2>1, <3>1, <3>2
      <2>4. /\ store'[on[w]] = r /\ Present(store'[on[w]])
            /\ \A s \in Serials \ {on[w]} : store'[s] = store[s]
        BY <1>a, <1>b, <2>1, <2>3, WritesRow
      <2>5. Matches(pc'[w], copy'[w])
        BY <2>1, <2>3 DEF Matches, HoldsStored
      <2>6. Flags(w)
        BY <2>1, <2>3, <2>4 DEF Flags, Recoveries
      <2>7. Stays(w)
        BY <1>c, <2>1, <2>2, <2>3, <2>4 DEF Stays, Telling
      <2>8. QED
        BY <1>b, <1>c, <2>1, <2>2, <2>4, <2>5, <2>6, <2>7 DEF Effect
    <1>10. CASE Recover(w)
      <2>1. pc[w] = "recover" /\ pc[w] \in CopyPoints \ Telling /\ pc[w] \in Recoveries
        BY <1>10 DEF Recover, CopyPoints, Points, WorkerPoints, RemoteCalls, Telling, Recoveries
      <2>2. <<copy[w].state, "working">> \in Diagram(Provisioner) /\ "working" \in States
        BY <2>1 DEF HoldsStored, Matches, Diagram, States
      <2> DEFINE r == [copy[w] EXCEPT !.lastError = "none"]
      <2>3. r \in PhoneRecord /\ r.recoveryInProgress = copy[w].recoveryInProgress
        BY <1>c, <2>1 DEF PhoneRecord, Errors
      <2>4. /\ Transition(w, r, "working", "announceRecovered")
            /\ on' = on /\ announced' = announced
        BY <1>10 DEF Recover
      <2> HIDE DEF r
      <2>5. QED
        BY <1>4, <1>b, <2>1, <2>2, <2>3, <2>4
    <1>11. CASE Announce(w)
      <2>1. /\ pc[w] \in Telling /\ store' = store
            /\ announced' = [announced EXCEPT ![on[w]] = copy[w].state]
            /\ pc'[w] = IF pc[w] = "announce" THEN "unlock" ELSE "clear"
            /\ copy'[w] = copy[w] /\ on' = on
        BY <1>11, <1>a DEF Announce, Publish, LoopAlone, Goto, Telling, TypeOK
      <2>2. pc[w] \in CopyPoints
        BY <2>1 DEF Telling, CopyPoints, Points, WorkerPoints
      <2>3. QED
        BY <1>b, <1>c, <2>1, <2>2
           DEF Effect, Tells, Flags, Matches, Telling, Recoveries
    <1>12. QED
      BY <1>b, <1>1, <1>2, <1>3, <1>5, <1>6, <1>7, <1>8, <1>9, <1>10, <1>11 DEF WorkerStep

-----------------------------------------------------------------------------
(***************************************************************************)
(* The invariant.                                                          *)
(***************************************************************************)

LEMMA LoopInit == Init => LoopInv
    <1> SUFFICES ASSUME Init PROVE LoopInv
      OBVIOUS
    <1>1. TypeOK
      BY TypedInit DEF Typed
    <1>2. \A a \in Actors : pc[a] = "idle" /\ pc[a] \notin CopyPoints
      BY DEF Init, CopyPoints
    <1>3. HoldsStored
      BY <1>2 DEF HoldsStored, Matches, Actors
    <1>4. OnlyAdds
      BY <1>2, <1>1 DEF OnlyAdds, Adding, Init, Actors
    <1>5. FlagOwned
      <2> SUFFICES ASSUME NEW st \in InitialStates, Present(LeftBehind(st))
                   PROVE  ~LeftBehind(st).recoveryInProgress
        BY DEF Init, FlagOwned
      <2>1. QED
        BY DEF LeftBehind, Present, NewPhone, NoPhone
    <1>6. SubscribersFollow
      BY DEF Init, SubscribersFollow
    <1>7. QED
      BY <1>3, <1>4, <1>5, <1>6 DEF LoopInv

\* A step of a goroutine: what it does to its own phone is Effect, and no
\* other goroutine in work is on that phone.
LEMMA LoopWorker ==
    ASSUME LoopAlone, Typed, Exclusive, LoopInv, NEW w \in Workers, WorkerStep(w)
    PROVE  LoopInv'
    <1> w \in Actors
      BY DEF Actors
    <1>a. TypeOK /\ Located /\ HoldsStored /\ OnlyAdds /\ FlagOwned /\ SubscribersFollow
      BY DEF Typed, LoopInv
    <1>b. on[w] \in Serials /\ Effect(w)
      BY <1>a, WorkerEffect
    <1>c. \A a \in Actors \ {w} : pc'[a] = pc[a] /\ on'[a] = on[a] /\ copy'[a] = copy[a]
      BY WorkerAlone
    <1>d. \A v \in Workers : InWork(w) /\ InWork(v) /\ on[w] = on[v] => w = v
      BY <1>b DEF Exclusive, MutualExclusion, Processing, InWork
    <1>e. Telling \subseteq CopyPoints /\ Recoveries \subseteq CopyPoints
      BY DEF Telling, Recoveries, CopyPoints, Points, WorkerPoints, RemoteCalls
    <1>1. HoldsStored'
      <2> SUFFICES ASSUME NEW v \in Workers
                   PROVE  /\ pc'[v] \in CopyPoints => copy'[v] = store'[on'[v]]
                          /\ Matches(pc'[v], copy'[v])
        BY DEF HoldsStored
      <2>1. CASE v = w
        BY <2>1, <1>b DEF Effect
      <2>2. CASE v # w
        <3>1. pc'[v] = pc[v] /\ on'[v] = on[v] /\ copy'[v] = copy[v]
          BY <2>2, <1>c DEF Actors
        <3>2. Matches(pc'[v], copy'[v])
          BY <3>1, <1>a DEF HoldsStored
        <3>3. ASSUME pc[v] \in CopyPoints PROVE copy[v] = store'[on[v]]
          <4>1. InWork(v) /\ on[v] \in Serials /\ copy[v] = store[on[v]]
            BY <3>3, <1>a DEF CopyPoints, InWork, Located, HoldsStored, Actors
          <4>2. CASE on[v] = on[w]
            BY <4>1, <4>2, <2>2, <1>b, <1>d DEF Effect
          <4>3. CASE on[v] # on[w]
            BY <4>1, <4>3, <1>b DEF Effect
          <4>4. QED
            BY <4>2, <4>3
        <3>4. QED
          BY <3>1, <3>2, <3>3
      <2>3. QED
        BY <2>1, <2>2
    <1>2. OnlyAdds'
      <2>1. \A c \in Clients : pc'[c] = pc[c] /\ copy'[c] = copy[c]
        BY <1>c, OrchestratorAssumption DEF Actors
      <2>2. ASSUME NEW s \in Serials, ~Present(store'[s])
            PROVE  announced'[s] = "new"
        <3>1. ~Present(store[s]) /\ announced[s] = "new"
          BY <2>2, <1>a, <1>b DEF Effect, OnlyAdds
        <3>2. announced'[s] = announced[s]
          BY <3>1, <1>a, <1>b DEF Effect, Stays, Moves, Tells, TypeOK
        <3>3. QED
          BY <3>1, <3>2
      <2>3. QED
        BY <1>a, <2>1, <2>2 DEF OnlyAdds, Adding
    <1>3. FlagOwned'
      <2> SUFFICES ASSUME NEW s \in Serials, Present(store'[s]), store'[s].recoveryInProgress
                   PROVE  \E v \in Workers : on'[v] = s /\ pc'[v] \in Recoveries
        BY DEF FlagOwned, Recovering, Recoveries
      <2>1. \/ s = on[w] /\ pc'[w] \in Recoveries /\ on'[w] = on[w]
            \/ /\ Present(store[s]) /\ store[s].recoveryInProgress
               /\ s = on[w] => pc[w] \notin Recoveries
        BY <1>b DEF Effect, Flags
      <2>2. CASE s = on[w] /\ pc'[w] \in Recoveries /\ on'[w] = on[w]
        BY <2>2
      <2>3. CASE /\ Present(store[s]) /\ store[s].recoveryInProgress
                 /\ s = on[w] => pc[w] \notin Recoveries
        <3>1. PICK v \in Workers : on[v] = s /\ pc[v] \in Recoveries
          BY <2>3, <1>a DEF FlagOwned, Recovering, Recoveries
        <3>2. QED
          BY <2>3, <3>1, <1>c DEF Actors
      <2>4. QED
        BY <2>1, <2>2, <2>3
    <1>4. SubscribersFollow'
      <2> SUFFICES ASSUME NEW s \in Serials, Present(store'[s])
                   PROVE  \/ announced'[s] = store'[s].state
                          \/ \E a \in Actors : on'[a] = s /\ pc'[a] \in Telling
        BY DEF SubscribersFollow, Telling
      <2>1. Present(store[s])
        BY <1>b DEF Effect
      <2>2. CASE s = on[w] /\ Moves(w)
        BY <2>2 DEF Moves
      <2>3. CASE s = on[w] /\ Tells(w)
        BY <2>3, <1>a DEF Tells, TypeOK
      <2>4. CASE \/ s # on[w]
                 \/ Stays(w)
        <3>1. /\ store'[s].state = store[s].state
              /\ announced'[s] = announced[s]
              /\ s = on[w] => pc[w] \notin Telling
          BY <2>4, <1>a, <1>b DEF Effect, Stays, Moves, Tells, TypeOK
        <3>2. CASE announced[s] = store[s].state
          BY <3>1, <3>2
        <3>3. CASE \E a \in Actors : on[a] = s /\ pc[a] \in Telling
          BY <3>1, <3>3, <1>c
        <3>4. QED
          BY <2>1, <3>2, <3>3, <1>a DEF SubscribersFollow, Telling
      <2>5. QED
        BY <2>2, <2>3, <2>4, <1>b DEF Effect
    <1>5. QED
      BY <1>1, <1>2, <1>3, <1>4 DEF LoopInv

\* A request either waits to save a new phone or saves it where no row was.
LEMMA LoopClient ==
    ASSUME OperatorOps \subseteq {"add"}, Typed, Adding, NEW c \in Clients,
           \/ ClientStep(c)
           \/ \E s \in Serials, op \in AllOps : Request(c, s, op)
           \/ \E s \in Serials : RequestAdd(c, s)
    PROVE  /\ announced' = announced
           /\ \A a \in Actors \ {c} : pc'[a] = pc[a] /\ on'[a] = on[a] /\ copy'[a] = copy[a]
           /\ pc[c] \notin Telling
           /\ pc'[c] \in {"idle", "save"} /\ (pc'[c] = "save" => copy'[c] = NewPhone)
           /\ \/ store' = store
              \/ \E s \in Serials : ~Present(store[s]) /\ store' = [store EXCEPT ![s] = NewPhone]
    <1> c \in Actors
      BY DEF Actors
    <1>a. TypeOK /\ Located /\ Adding
      BY DEF Typed
    <1>1. ASSUME NEW s \in Serials, NEW op \in AllOps, Request(c, s, op)
          PROVE  FALSE
      BY <1>1 DEF Request
    <1>2. CASE \E s \in Serials : RequestAdd(c, s)
      BY <1>2, <1>a DEF RequestAdd, Goto, Holding, TypeOK, Telling
    <1>3. CASE ClientStep(c)
      <2>1. SavePhone(c)
        BY <1>3, <1>a DEF ClientStep, StoreRequest, StoreQuietly, Reply, Adding
      <2>2. pc[c] = "save" /\ on[c] \in Serials /\ copy[c] = NewPhone
        BY <2>1, <1>a DEF SavePhone, Adding, Located
      <2>3. QED
        BY <2>1, <2>2, <1>a DEF SavePhone, Finish, Goto, Holding, TypeOK, Telling
    <1>4. QED
      BY <1>1, <1>2, <1>3

LEMMA LoopStep == LoopAlone /\ Typed /\ Exclusive /\ LoopInv /\ [Next]_vars => LoopInv'
    <1> SUFFICES ASSUME LoopAlone, Typed, Exclusive, LoopInv, [Next]_vars PROVE LoopInv'
      OBVIOUS
    <1>a. TypeOK /\ Located /\ HoldsStored /\ OnlyAdds /\ FlagOwned /\ SubscribersFollow
      BY DEF Typed, LoopInv
    <1>1. ASSUME NEW w \in Workers, NEW s \in Serials, Tick(w, s)
          PROVE  LoopInv'
      <2>1. /\ store' = store /\ announced' = announced /\ copy' = copy
            /\ pc[w] = "idle" /\ pc'[w] = "lock"
            /\ \A a \in Actors \ {w} : pc'[a] = pc[a] /\ on'[a] = on[a]
        BY <1>1, <1>a, WorkerAlone DEF Tick, Goto, TypeOK, Actors
      <2>2. HoldsStored'
        BY <1>a, <2>1 DEF HoldsStored, Matches, CopyPoints, Actors
      <2>3. OnlyAdds'
        BY <1>a, <2>1, OrchestratorAssumption DEF OnlyAdds, Adding, Actors
      <2>4. FlagOwned'
        BY <1>a, <2>1 DEF FlagOwned, Recovering, Actors
      <2>5. SubscribersFollow'
        BY <1>a, <2>1 DEF SubscribersFollow, Actors
      <2>6. QED
        BY <2>2, <2>3, <2>4, <2>5 DEF LoopInv
    <1>2. ASSUME NEW c \in Clients,
                 \/ ClientStep(c)
                 \/ \E s \in Serials, op \in AllOps : Request(c, s, op)
                 \/ \E s \in Serials : RequestAdd(c, s)
          PROVE  LoopInv'
      <2>1. /\ announced' = announced
            /\ \A a \in Actors \ {c} : pc'[a] = pc[a] /\ on'[a] = on[a] /\ copy'[a] = copy[a]
            /\ pc[c] \notin Telling
            /\ pc'[c] \in {"idle", "save"} /\ (pc'[c] = "save" => copy'[c] = NewPhone)
            /\ \/ store' = store
               \/ \E s \in Serials : /\ ~Present(store[s])
                                     /\ store' = [store EXCEPT ![s] = NewPhone]
        BY <1>2, <1>a, LoopClient DEF LoopAlone, OnlyAdds
      <2>2. \A w \in Workers : w \in Actors \ {c}
        BY OrchestratorAssumption DEF Actors
      <2>3. \A s \in Serials :
              \/ store'[s] = store[s]
              \/ ~Present(store[s]) /\ store'[s] = NewPhone
        BY <2>1, <1>a DEF TypeOK
      <2>4. HoldsStored'
        <3> SUFFICES ASSUME NEW w \in Workers, pc[w] \in CopyPoints
                     PROVE  store'[on[w]] = copy[w]
          BY <1>a, <2>1, <2>2 DEF HoldsStored
        <3>1. copy[w] = store[on[w]] /\ copy[w] \in PhoneRecord /\ on[w] \in Serials
          BY <1>a DEF HoldsStored, Located, CopyPoints, Actors
        <3>2. QED
          BY <2>3, <3>1, PresentMeansRecord
      <2>5. OnlyAdds'
        <3>1. ASSUME NEW d \in Clients
              PROVE  pc'[d] \in {"idle", "save"} /\ (pc'[d] = "save" => copy'[d] = NewPhone)
          BY <1>a, <2>1 DEF OnlyAdds, Adding, Actors
        <3>2. Present(NewPhone)
          BY PresentMeansRecord, NewPhoneRecord
        <3>3. QED
          BY <1>a, <2>1, <2>3, <3>1, <3>2 DEF OnlyAdds, Adding
      <2>6. FlagOwned'
        <3> SUFFICES ASSUME NEW s \in Serials, Present(store'[s]), store'[s].recoveryInProgress
                     PROVE  \E v \in Workers : Recovering(v, s)'
          BY DEF FlagOwned
        <3>1. Present(store[s]) /\ store[s].recoveryInProgress
          BY <2>3 DEF NewPhone
        <3>2. QED
          BY <1>a, <2>1, <2>2, <3>1 DEF FlagOwned, Recovering
      <2>7. SubscribersFollow'
        <3> SUFFICES ASSUME NEW s \in Serials, Present(store'[s]),
                            announced[s] # store'[s].state
                     PROVE  \E a \in Actors : on'[a] = s /\ pc'[a] \in Telling
          BY <2>1 DEF SubscribersFollow, Telling
        <3>1. store'[s] = store[s]
          BY <1>a, <2>3 DEF OnlyAdds, NewPhone
        <3>2. PICK a \in Actors : on[a] = s /\ pc[a] \in Telling
          BY <1>a, <3>1 DEF SubscribersFollow, Telling
        <3>3. QED
          BY <2>1, <3>2
      <2>8. QED
        BY <2>4, <2>5, <2>6, <2>7 DEF LoopInv
    <1>3. CASE (\E s \in Serials : Lapse(s)) \/ Crash
      BY <1>3, <1>a DEF Lapse, Crash, LoopAlone, TypeOK
    <1>4. CASE UNCHANGED vars
      BY <1>4, <1>a DEF vars, LoopInv, HoldsStored, OnlyAdds, Adding, FlagOwned, Recovering,
                        SubscribersFollow
    <1>5. QED
      BY <1>1, <1>2, <1>3, <1>4, LoopWorker DEF Next

LEMMA LoopAlways == LoopAlone => (Spec => [](Typed /\ Exclusive /\ LoopInv))
    <1> SUFFICES ASSUME LoopAlone PROVE Spec => [](Typed /\ Exclusive /\ LoopInv)
      OBVIOUS
    <1>1. Spec => []Exclusive
      BY ExclusiveAlways DEF LoopAlone, NoLapse
    <1>2. Typed /\ Exclusive /\ LoopInv /\ [Next]_vars => LoopInv'
      BY LoopStep
    <1>3. QED
      BY <1>1, <1>2, LoopInit, TypedAlways, PTL DEF Spec

\* The recovery flag of a stored record is never left raised without the
\* goroutine that raised it: handlePaused's deferred clear reaches the store.
THEOREM FlagsAreOwned == LoopAlone => (Spec => []FlagOwned)
    <1> SUFFICES ASSUME LoopAlone PROVE Spec => []FlagOwned
      OBVIOUS
    <1>1. LoopInv => FlagOwned
      BY DEF LoopInv
    <1>2. QED
      BY <1>1, LoopAlways, PTL

\* The subscribers of phone.state.changed know the stored state of every
\* phone, but for the moment between transition's write and its event.
THEOREM SubscribersAreTold == LoopAlone => (Spec => []SubscribersFollow)
    <1> SUFFICES ASSUME LoopAlone PROVE Spec => []SubscribersFollow
      OBVIOUS
    <1>1. LoopInv => SubscribersFollow
      BY DEF LoopInv
    <1>2. QED
      BY <1>1, LoopAlways, PTL

-----------------------------------------------------------------------------
(***************************************************************************)
(* The loop implements PhoneLifecycle.                                     *)
(***************************************************************************)

StateOf == [s \in Serials |-> store[s].state]

\* The instance draws the same diagram over the same states.
LEMMA SameDiagram ==
    /\ Lifecycle!States = States
    /\ Lifecycle!Diagram(Provisioner) = Diagram(Provisioner)
    <1>1. Lifecycle!SetupStages = SetupStages
      BY DEF Lifecycle!SetupStages, SetupStages
    <1>2. \A st \in SetupStages : Lifecycle!NextStage(st) = NextStage(st)
      BY DEF Lifecycle!NextStage, NextStage
    <1>3. {<<st, Lifecycle!NextStage(st)>> : st \in SetupStages}
            = {<<st, NextStage(st)>> : st \in SetupStages}
      BY <1>2
    <1>4. QED
      BY <1>1, <1>3 DEF Lifecycle!States, States, Lifecycle!Diagram, Diagram

\* The abstract state maps to typed rows, and told to announced.
LEMMA LifecycleInit == Init => Lifecycle!Init
    <1> SUFFICES ASSUME Init PROVE Lifecycle!Init
      OBVIOUS
    <1>1. TypeOK
      BY TypedInit DEF Typed
    <1>2. \A s \in Serials : /\ store[s].state \in States \union {"absent"}
                            /\ Present(store[s]) <=> store[s].state # "absent"
      BY <1>1, PresentRecord, PresentMeansRecord DEF TypeOK, PhoneRecord, NoPhone
    <1>3. announced = [s \in Serials |-> IF StateOf[s] = "absent" THEN "new" ELSE StateOf[s]]
      BY <1>2 DEF Init, StateOf
    <1>4. StateOf \in [Serials -> States \union {"absent"}]
      BY <1>2 DEF StateOf
    <1>5. QED
      BY <1>3, <1>4, SameDiagram DEF StateOf, Lifecycle!Init

\* A goroutine's transition is an arrow of the diagram, and its publication
\* tells the arrow: it was told of the state it leaves because no other
\* goroutine is about to tell of this phone.
LEMMA WorkerSimulates ==
    ASSUME LoopAlone, Typed, Exclusive, LoopInv, NEW w \in Workers, WorkerStep(w)
    PROVE  [Lifecycle!Next]_(Lifecycle!vars)
    <1>a. TypeOK /\ Located /\ HoldsStored /\ OnlyAdds /\ SubscribersFollow
      BY DEF Typed, LoopInv
    <1>b. PICK p \in Serials : p = on[w] /\ Effect(w)
      BY <1>a, WorkerEffect
    <1>1. CASE Stays(w)
      <2>1. \A s \in Serials : store'[s].state = store[s].state
        BY <1>1, <1>b DEF Effect, Stays
      <2>2. QED
        BY <1>1, <2>1 DEF Stays, Lifecycle!vars
    <1>2. CASE Moves(w)
      <2>1. announced[p] = store[p].state
        <3>1. InWork(w) /\ Present(store[p])
          <4>1. copy[w] = store[p] /\ copy[w] \in PhoneRecord
            BY <1>2, <1>a, <1>b DEF Moves, HoldsStored, Located, Actors
          <4>2. QED
            BY <1>2, <4>1, PresentMeansRecord DEF Moves, CopyPoints, InWork
        <3>2. ASSUME NEW a \in Actors, on[a] = p, pc[a] \in Telling
              PROVE  FALSE
          <4>1. a \in Workers
            BY <3>2, <1>a DEF OnlyAdds, Adding, Actors, Telling
          <4>2. a = w
            BY <3>1, <3>2, <4>1, <1>b
               DEF Exclusive, MutualExclusion, Processing, InWork, Telling
          <4>3. QED
            BY <3>2, <4>2, <1>2 DEF Moves
        <3>3. QED
          BY <3>1, <3>2, <1>a, <1>b DEF SubscribersFollow, Telling
      <2>2. \A s \in Serials \ {p} : store'[s] = store[s]
        BY <1>b DEF Effect
      <2>3. StateOf' = [StateOf EXCEPT ![p] = store'[p].state]
        BY <1>b, <2>2 DEF StateOf
      <2>4. Lifecycle!Advance(p)
        <3>1. /\ <<store[p].state, store'[p].state>> \in Diagram(Provisioner)
              /\ store'[p].state \in States
              /\ announced' = announced
          BY <1>2, <1>b DEF Moves
        <3>2. StateOf[p] = store[p].state
          BY <1>b DEF StateOf
        <3>3. QED
          BY <2>1, <2>3, <3>1, <3>2, SameDiagram DEF StateOf, Lifecycle!Advance
      <2>5. QED
        BY <2>4 DEF Lifecycle!Next
    <1>3. CASE Tells(w)
      <2>1. store' = store /\ announced' = [announced EXCEPT ![p] = store[p].state]
        BY <1>3, <1>b DEF Tells
      <2>2. CASE announced[p] = store[p].state
        <3>1. announced' = announced
          BY <1>a, <2>1, <2>2 DEF TypeOK
        <3>2. QED
          BY <2>1, <3>1 DEF Lifecycle!vars
      <2>3. CASE announced[p] # store[p].state
        <3>1. store[p].state # "absent"
          BY <1>3, <1>a, <1>b, PresentRecord, PresentMeansRecord DEF Tells, TypeOK
        <3>2. Lifecycle!Tell(p)
          BY <1>b, <2>1, <2>3, <3>1 DEF Lifecycle!Tell
        <3>3. QED
          BY <1>b, <3>2 DEF Lifecycle!Next
      <2>4. QED
        BY <2>2, <2>3
    <1>4. QED
      BY <1>1, <1>2, <1>3, <1>b DEF Effect

LEMMA ClientSimulates ==
    ASSUME LoopAlone, Typed, LoopInv, NEW c \in Clients,
           \/ ClientStep(c)
           \/ \E s \in Serials, op \in AllOps : Request(c, s, op)
           \/ \E s \in Serials : RequestAdd(c, s)
    PROVE  [Lifecycle!Next]_(Lifecycle!vars)
    <1>a. OperatorOps \subseteq {"add"} /\ Adding
      BY DEF LoopAlone, LoopInv, OnlyAdds
    <1>1. announced' = announced
      BY <1>a, LoopClient
    <1>2. CASE store' = store
      BY <1>1, <1>2 DEF Lifecycle!vars
    <1>3. ASSUME NEW s \in Serials, ~Present(store[s]), store' = [store EXCEPT ![s] = NewPhone]
          PROVE  Lifecycle!Register(s)
      <2>1. store[s].state = "absent"
        BY <1>3, PresentMeansRecord DEF Present, NoPhone
      <2>2. StateOf' = [StateOf EXCEPT ![s] = "new"]
        BY <1>3 DEF StateOf, NewPhone, Typed, TypeOK
      <2>3. QED
        BY <1>1, <2>1, <2>2 DEF StateOf, Lifecycle!Register
    <1>4. QED
      BY <1>2, <1>3, <1>a, LoopClient DEF Lifecycle!Next

LEMMA StepSimulates ==
    LoopAlone /\ Typed /\ Exclusive /\ LoopInv /\ [Next]_vars
        => [Lifecycle!Next]_(Lifecycle!vars)
    <1> SUFFICES ASSUME LoopAlone, Typed, Exclusive, LoopInv, [Next]_vars
                 PROVE  [Lifecycle!Next]_(Lifecycle!vars)
      OBVIOUS
    <1>1. CASE \/ \E w \in Workers, s \in Serials : Tick(w, s)
               \/ UNCHANGED vars
      BY <1>1 DEF Tick, vars, Lifecycle!vars
    <1>2. CASE (\E s \in Serials : Lapse(s)) \/ Crash
      BY <1>2 DEF Lapse, Crash, LoopAlone, Typed, TypeOK
    <1>3. QED
      BY <1>1, <1>2, WorkerSimulates, ClientSimulates DEF Next

\* For every farm and either provisioner, a loop that has its phones to
\* itself walks each of them along the README's diagram, one arrow at a time,
\* and tells every arrow before the next is taken, whichever calls fail.
THEOREM LoopFollowsLifecycle == LoopAlone => (Spec => ImplementsLifecycle)
    <1> SUFFICES ASSUME LoopAlone PROVE Spec => Lifecycle!Spec
      BY DEF ImplementsLifecycle
    <1>1. Typed /\ Exclusive /\ LoopInv /\ [Next]_vars => [Lifecycle!Next]_(Lifecycle!vars)
      BY StepSimulates
    <1>2. QED
      BY <1>1, LifecycleInit, LoopAlways, PTL DEF Spec, Lifecycle!Spec
=============================================================================
