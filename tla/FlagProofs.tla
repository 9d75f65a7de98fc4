----------------------------- MODULE FlagProofs -----------------------------
(***************************************************************************)
(* Proofs about the recovery flag.  A recovery may take 120 s and the      *)
(* lease lasts 30 s, so a second goroutine can be on a phone that is being *)
(* recovered: what keeps it from a second recovery is the flag in the      *)
(* phone's record.  It does as long as recoveries succeed and are written, *)
(* whatever else fails and wherever the process stops.                     *)
(***************************************************************************)
EXTENDS LifecycleProofs

FlagGuards ==
    /\ OperatorOps \subseteq {"add"}
    /\ SlowCalls \subseteq {"recover"}
    /\ ~MayFail("update") /\ ~MayFail("recover")

IsPaused(r) == r.state = "paused"

\* Paused, and no recovery of it has begun.
Fresh(r) == IsPaused(r) /\ ~r.recoveryInProgress

AtPause == {"flag", "recover"}

\* The flag goes up under the lease of the only goroutine on the phone; while
\* the phone is paused nobody is about to write but those who recover it, and
\* when it is no longer paused no copy would make it so again.
PauseInv ==
    \A w \in Workers :
        /\ pc[w] = "flag" => Fresh(store[on[w]])
        /\ pc[w] = "recover" => IsPaused(store[on[w]]) /\ ~Fresh(store[on[w]])
        /\ pc[w] \in CopyPoints /\ IsPaused(store[on[w]]) => pc[w] \in AtPause
        /\ pc[w] \in CopyPoints => (IsPaused(copy[w]) <=> pc[w] \in AtPause)
        /\ InWork(w) /\ Fresh(store[on[w]]) => lease[on[w]] = "held"

FreshAlone ==
    \A w, v \in Workers :
        InWork(w) /\ InWork(v) /\ on[w] = on[v] /\ Fresh(store[on[w]]) => w = v

FlagInv == PauseInv /\ FreshAlone /\ OneRecovery /\ Adding

-----------------------------------------------------------------------------
\* No answer of the provisioner pauses a phone.
LEMMA AnswersDoNotPause ==
    ASSUME NEW st \in States \ {"paused"}, NEW next \in SetupAnswers(st)
    PROVE  next \in States /\ next # "paused"
    BY DEF SetupAnswers, NextStage, States, SetupStages

\* A call made for a phone that is not paused leaves it so, and what the
\* goroutine still holds of it too.
LEMMA OtherCalls ==
    ASSUME FlagGuards, Typed, PauseInv, NEW w \in Workers, WorkerStep(w),
           pc[w] \in CopyPoints \ AtPause
    PROVE  /\ on[w] \in Serials
           /\ ~IsPaused(store[on[w]]) /\ ~IsPaused(store'[on[w]])
           /\ \A s \in Serials \ {on[w]} : store'[s] = store[s]
           /\ pc'[w] \notin AtPause
           /\ pc'[w] \in CopyPoints => ~IsPaused(copy'[w])
           /\ lease' = lease
    <1> w \in Actors
      BY DEF Actors
    <1>a. TypeOK /\ Located
      BY DEF Typed
    <1>b. on[w] \in Serials /\ copy[w] \in PhoneRecord
      BY <1>a, WorkerLease DEF Located
    <1>c. ~IsPaused(store[on[w]]) /\ ~IsPaused(copy[w])
      BY DEF PauseInv
    <1>d. pc[w] \notin {"lock", "get", "unlock", "flag", "recover"}
      BY DEF CopyPoints, AtPause
    <1>1. ASSUME NEW r \in PhoneRecord, ~IsPaused(r), Update(on[w], r)
          PROVE  /\ ~IsPaused(store'[on[w]])
                 /\ \A s \in Serials \ {on[w]} : store'[s] = store[s]
      BY <1>1, <1>a, <1>b DEF FlagGuards, Update, TypeOK
    <1>2. ASSUME NEW to \in States, to # "paused", NEW point \in Points \ AtPause,
                 Transition(w, copy[w], to, point), lease' = lease
          PROVE  /\ ~IsPaused(store'[on[w]])
                 /\ \A s \in Serials \ {on[w]} : store'[s] = store[s]
                 /\ pc'[w] \notin AtPause /\ ~IsPaused(copy'[w])
      <2>1. Moved(copy[w], to) \in PhoneRecord /\ ~IsPaused(Moved(copy[w], to))
        BY <1>b, <1>2, MovedFields DEF IsPaused
      <2>2. /\ Update(on[w], Moved(copy[w], to))
            /\ pc'[w] = point /\ copy'[w] = Moved(copy[w], to)
        BY <1>2, <1>a DEF Transition, Goto, Holding, TypeOK
      <2>3. QED
        BY <1>1, <2>1, <2>2
    <1>3. CASE StepFails(w, "connect") \/ StepFails(w, "advance")
      <2>1. Failed(copy[w]) \in PhoneRecord /\ ~IsPaused(Failed(copy[w]))
        BY <1>b, <1>c, MarkedFields DEF IsPaused
      <2>2. Update(on[w], Failed(copy[w])) /\ pc'[w] = "unlock" /\ lease' = lease
        BY <1>3, <1>a DEF StepFails, Goto, TypeOK
      <2>3. QED
        BY <1>b, <1>c, <1>1, <2>1, <2>2 DEF AtPause, CopyPoints
    <1>4. CASE Connect(w)
      <2>1. Transition(w, copy[w], "wifi_setup", "announce") /\ lease' = lease
        BY <1>4 DEF Connect
      <2>2. "wifi_setup" \in States /\ "announce" \in Points \ AtPause
        BY DEF States, SetupStages, Points, WorkerPoints, AtPause
      <2>3. QED
        BY <1>b, <1>c, <1>2, <2>1, <2>2
    <1>5. CASE AdvanceSetup(w)
      <2>1. PICK next \in SetupAnswers(copy[w].state) :
                    Transition(w, copy[w], next, "announce")
        BY <1>5 DEF AdvanceSetup
      <2>2. lease' = lease /\ "announce" \in Points \ AtPause
        BY <1>5 DEF AdvanceSetup, Points, WorkerPoints, AtPause
      <2>3. next \in States /\ next # "paused"
        BY <1>b, <1>c, <2>1, AnswersDoNotPause DEF IsPaused, PhoneRecord
      <2>4. QED
        BY <1>b, <1>c, <1>2, <2>1, <2>2, <2>3
    <1>6. CASE Promote(w)
      <2>1. Transition(w, copy[w], "working", "announce") /\ lease' = lease
        BY <1>6 DEF Promote
      <2>2. "working" \in States /\ "announce" \in Points \ AtPause
        BY DEF States, Points, WorkerPoints, AtPause
      <2>3. QED
        BY <1>b, <1>c, <1>2, <2>1, <2>2
    <1>7. CASE Heartbeat(w)
      <2>1. Update(on[w], copy[w]) /\ pc'[w] = "unlock" /\ lease' = lease
        BY <1>7, <1>a DEF Heartbeat, Goto, TypeOK
      <2>2. QED
        BY <1>b, <1>c, <1>1, <2>1 DEF AtPause, CopyPoints
    <1>8. CASE ClearFlag(w)
      <2>1. Flagged(copy[w], FALSE) \in PhoneRecord /\ ~IsPaused(Flagged(copy[w], FALSE))
        BY <1>b, <1>c, MarkedFields DEF IsPaused
      <2>2. Update(on[w], Flagged(copy[w], FALSE)) /\ pc'[w] = "unlock" /\ lease' = lease
        BY <1>8, <1>a DEF ClearFlag, Goto, TypeOK
      <2>3. QED
        BY <1>b, <1>c, <1>1, <2>1, <2>2 DEF AtPause, CopyPoints
    <1>9. CASE SetupGoesOn(w) \/ Announce(w)
      <2>1. /\ store' = store /\ lease' = lease /\ copy'[w] = copy[w]
            /\ pc'[w] \in {"unlock", "clear"}
        BY <1>9, <1>a DEF SetupGoesOn, Announce, Goto, TypeOK
      <2>2. QED
        BY <1>b, <1>c, <2>1 DEF AtPause
    <1>10. QED
      BY <1>d, <1>3, <1>4, <1>5, <1>6, <1>7, <1>8, <1>9
         DEF WorkerStep, Lock, LockBusy, Get, GetFails, RaiseFlag, Recover, RecoveryFails, Release

\* What a goroutine leaves alone is as good for another one as it was: the
\* other's row, its lease while the row is fresh, and its place.
LEMMA FlagWorker ==
    ASSUME FlagGuards, Typed, FlagInv, NEW w \in Workers, WorkerStep(w)
    PROVE  PauseInv' /\ FreshAlone' /\ OneRecovery'
    <1> w \in Actors
      BY DEF Actors
    <1>a. TypeOK /\ Located /\ PauseInv /\ FreshAlone /\ OneRecovery
      BY DEF Typed, FlagInv
    <1>b. PICK s \in Serials : s = on[w]
      BY WorkerLease
    <1>c. \A v \in Workers \ {w} : pc'[v] = pc[v] /\ on'[v] = on[v] /\ copy'[v] = copy[v]
      BY WorkerAlone DEF Actors
    <1>d. \A v \in Workers : pc[v] \in CopyPoints => InWork(v)
      BY DEF CopyPoints, InWork
    <1>e. \A v \in Workers : InWork(v) => on[v] \in Serials
      BY <1>a DEF InWork, Located, Actors
    <1>f. AtPause \subseteq CopyPoints
      BY DEF AtPause, CopyPoints, Points, WorkerPoints, RemoteCalls
    <1>1. CASE pc[w] \in CopyPoints \ AtPause
      <2>1. /\ ~IsPaused(store[s]) /\ ~IsPaused(store'[s])
            /\ \A p \in Serials \ {s} : store'[p] = store[p]
            /\ pc'[w] \notin AtPause
            /\ pc'[w] \in CopyPoints => ~IsPaused(copy'[w])
            /\ lease' = lease
        BY <1>1, <1>a, <1>b, OtherCalls
      <2>2. InWork(w)
        BY <1>1, <1>d
      <2>3. on'[w] = s \/ ~InWork(w)'
        BY <1>b, <2>2, WorkerLease DEF InWork
      <2>4. PauseInv'
        BY <1>a, <1>b, <1>c, <1>d, <1>e, <1>f, <2>1, <2>3
           DEF PauseInv, Fresh, InWork, AtPause, CopyPoints
      <2>5. FreshAlone'
        BY <1>a, <1>b, <1>c, <1>e, <2>1, <2>3 DEF FreshAlone, Fresh, InWork
      <2>6. OneRecovery'
        BY <1>a, <1>c, <2>1 DEF OneRecovery, AtPause
      <2>7. QED
        BY <2>4, <2>5, <2>6
    <1>2. CASE pc[w] = "flag"
      <2>1. /\ Update(s, Flagged(copy[w], TRUE)) /\ pc'[w] = "recover"
            /\ copy'[w] = Flagged(copy[w], TRUE) /\ on' = on /\ lease' = lease
        BY <1>2, <1>a, <1>b
           DEF WorkerStep, Lock, LockBusy, Get, GetFails, Connect, StepFails, AdvanceSetup,
               SetupGoesOn, Promote, Heartbeat, RaiseFlag, Recover, RecoveryFails, ClearFlag,
               Announce, Release, Goto, Holding, TypeOK
      <2>2. /\ Flagged(copy[w], TRUE) \in PhoneRecord
            /\ IsPaused(Flagged(copy[w], TRUE)) /\ ~Fresh(Flagged(copy[w], TRUE))
        <3>1. copy[w] \in PhoneRecord /\ IsPaused(copy[w])
          BY <1>2, <1>a, <1>f DEF PauseInv, AtPause, Located
        <3>2. QED
          BY <3>1, MarkedFields DEF IsPaused, Fresh
      <2>3. /\ store'[s] = Flagged(copy[w], TRUE)
            /\ \A p \in Serials \ {s} : store'[p] = store[p]
        BY <1>a, <2>1, <2>2 DEF FlagGuards, Update, TypeOK
      <2>4. Fresh(store[s]) /\ InWork(w)
        BY <1>2, <1>a, <1>b DEF PauseInv, InWork
      <2>5. \A v \in Workers \ {w} : InWork(v) => on[v] # s
        BY <1>a, <1>b, <2>4 DEF FreshAlone
      <2>6. PauseInv'
        <3> SUFFICES ASSUME NEW v \in Workers, InWork(v)'
                     PROVE  /\ pc'[v] = "flag" => Fresh(store'[on[v]])
                            /\ pc'[v] = "recover" =>
                                  IsPaused(store'[on[v]]) /\ ~Fresh(store'[on[v]])
                            /\ pc'[v] \in CopyPoints /\ IsPaused(store'[on[v]]) => pc'[v] \in AtPause
                            /\ pc'[v] \in CopyPoints => (IsPaused(copy'[v]) <=> pc'[v] \in AtPause)
                            /\ Fresh(store'[on[v]]) => lease'[on[v]] = "held"
          BY <2>1 DEF PauseInv, InWork, CopyPoints
        <3>1. CASE v = w
          BY <3>1, <1>b, <2>1, <2>2, <2>3 DEF AtPause
        <3>2. CASE v # w
          <4>1. pc'[v] = pc[v] /\ copy'[v] = copy[v] /\ InWork(v)
            BY <3>2, <1>c DEF InWork
          <4>2. store'[on[v]] = store[on[v]]
            BY <3>2, <4>1, <1>e, <2>3, <2>5
          <4>3. QED
            BY <4>1, <4>2, <1>a, <2>1 DEF PauseInv
        <3>3. QED
          BY <3>1, <3>2
      <2>7. FreshAlone'
        BY <1>a, <1>b, <1>c, <1>e, <2>1, <2>2, <2>3, <2>5 DEF FreshAlone, InWork
      <2>8. OneRecovery'
        BY <1>a, <1>b, <1>c, <2>1, <2>5 DEF OneRecovery, InWork
      <2>9. QED
        BY <2>6, <2>7, <2>8
    <1>3. CASE pc[w] = "recover"
      <2> DEFINE r == Moved([copy[w] EXCEPT !.lastError = "none"], "working")
      <2>1. /\ Update(s, r) /\ pc'[w] = "announceRecovered"
            /\ copy'[w] = r /\ on' = on /\ lease' = lease
        BY <1>3, <1>a, <1>b
           DEF WorkerStep, Lock, LockBusy, Get, GetFails, Connect, StepFails, AdvanceSetup,
               SetupGoesOn, Promote, Heartbeat, RaiseFlag, Recover, RecoveryFails, ClearFlag,
               Announce, Release, Transition, Goto, Holding, TypeOK, FlagGuards
      <2>2. r \in PhoneRecord /\ ~IsPaused(r)
        <3>1. copy[w] \in PhoneRecord
          BY <1>3, <1>a, <1>f DEF AtPause, Located
        <3>2. [copy[w] EXCEPT !.lastError = "none"] \in PhoneRecord
          BY <3>1 DEF PhoneRecord, Errors
        <3>3. QED
          BY <3>2, MovedFields DEF IsPaused, States
      <2> HIDE DEF r
      <2>3. /\ store'[s] = r
            /\ \A p \in Serials \ {s} : store'[p] = store[p]
        BY <1>a, <2>1, <2>2 DEF FlagGuards, Update, TypeOK
      <2>4. IsPaused(store[s]) /\ ~Fresh(store[s])
        BY <1>3, <1>a, <1>b DEF PauseInv
      <2>5. \A v \in Workers \ {w} : on[v] = s => pc[v] \notin CopyPoints
        BY <1>3, <1>a, <1>b, <2>4 DEF PauseInv, OneRecovery, AtPause
      <2>6. PauseInv'
        BY <1>a, <1>b, <1>c, <1>d, <1>e, <1>f, <2>1, <2>2, <2>3, <2>5
           DEF PauseInv, Fresh, InWork, AtPause
      <2>7. FreshAlone'
        BY <1>a, <1>b, <1>c, <1>e, <2>1, <2>2, <2>3 DEF FreshAlone, Fresh, InWork
      <2>8. OneRecovery'
        BY <1>a, <1>c, <2>1 DEF OneRecovery
      <2>9. QED
        BY <2>6, <2>7, <2>8
    <1>4. CASE pc[w] \notin CopyPoints
      <2>1. /\ store' = store
            /\ pc'[w] \in CopyPoints =>
                   /\ pc[w] = "get" /\ copy'[w] = store[s]
                   /\ IsPaused(store[s]) <=> pc'[w] \in AtPause
                   /\ pc'[w] \in AtPause => pc'[w] = "flag" /\ Fresh(store[s])
        <3>1. CASE Get(w)
          <4>1. pc[w] = "get" /\ pc'[w] = NextCall(store[s]) /\ copy'[w] = store[s]
            BY <3>1, <1>a, <1>b DEF Get, Goto, Holding, TypeOK
          <4>2. NextCall(store[s]) \in CopyPoints =>
                   /\ IsPaused(store[s]) <=> NextCall(store[s]) \in AtPause
                   /\ NextCall(store[s]) \in AtPause =>
                         NextCall(store[s]) = "flag" /\ Fresh(store[s])
            BY DEF NextCall, CopyPoints, AtPause, IsPaused, Fresh, SetupStages
          <4>3. QED
            BY <3>1, <4>1, <4>2 DEF Get
        <3>2. CASE Lock(w) \/ LockBusy(w) \/ GetFails(w) \/ Release(w)
          BY <3>2, <1>a
             DEF Lock, LockBusy, GetFails, Release, Finish, Goto, TypeOK, CopyPoints
        <3>3. QED
          BY <1>4, <3>1, <3>2
             DEF WorkerStep, Connect, StepFails, AdvanceSetup, SetupGoesOn, Promote, Heartbeat,
                 RaiseFlag, Recover, RecoveryFails, ClearFlag, Announce, CopyPoints, Points,
                 WorkerPoints, RemoteCalls
      <2>2. \/ /\ ~InWork(w) /\ InWork(w)' /\ on' = on
               /\ lease[s] # "held" /\ lease' = [lease EXCEPT ![s] = "held"]
            \/ ~InWork(w) /\ ~InWork(w)' /\ lease' = lease
            \/ InWork(w) /\ InWork(w)' /\ on' = on /\ lease' = lease
            \/ InWork(w) /\ ~InWork(w)' /\ lease' = [lease EXCEPT ![s] = "free"]
        BY <1>b, WorkerLease DEF InWork
      <2>3. Fresh(store[s]) /\ InWork(w) =>
                \A v \in Workers \ {w} : InWork(v) => on[v] # s
        BY <1>a, <1>b DEF FreshAlone
      <2>4. ASSUME NEW v \in Workers \ {w}, InWork(v), Fresh(store[on[v]])
            PROVE  /\ lease[on[v]] = "held" /\ lease'[on[v]] = "held"
                   /\ InWork(w)' => on'[w] # on[v]
        <3>1. lease[on[v]] = "held" /\ on[v] \in Serials
          BY <2>4, <1>a, <1>e DEF PauseInv
        <3>2. QED
          BY <2>2, <2>3, <2>4, <3>1, <1>a, <1>b DEF TypeOK
      <2>5. PauseInv'
        <3> SUFFICES ASSUME NEW v \in Workers
                     PROVE  /\ pc'[v] = "flag" => Fresh(store[on'[v]])
                            /\ pc'[v] = "recover" =>
                                  IsPaused(store[on'[v]]) /\ ~Fresh(store[on'[v]])
                            /\ pc'[v] \in CopyPoints /\ IsPaused(store[on'[v]]) => pc'[v] \in AtPause
                            /\ pc'[v] \in CopyPoints => (IsPaused(copy'[v]) <=> pc'[v] \in AtPause)
                            /\ InWork(v)' /\ Fresh(store[on'[v]]) => lease'[on'[v]] = "held"
          BY <2>1 DEF PauseInv
        <3>1. CASE v # w
          <4>1. pc'[v] = pc[v] /\ on'[v] = on[v] /\ copy'[v] = copy[v] /\ (InWork(v)' <=> InWork(v))
            BY <3>1, <1>c DEF InWork
          <4>2. QED
            BY <3>1, <4>1, <2>4, <1>a DEF PauseInv
        <3>2. CASE v = w
          <4>1. InWork(w)' => on'[w] = s
            BY <1>b, <2>2
          <4>2. pc'[w] \in CopyPoints => InWork(w)'
            BY DEF CopyPoints, InWork
          <4>3. InWork(w)' /\ Fresh(store[s]) => lease'[s] = "held"
            BY <2>2, <1>a, <1>b DEF PauseInv, TypeOK
          <4>4. QED
            BY <3>2, <4>1, <4>2, <4>3, <2>1, <1>f DEF AtPause
        <3>3. QED
          BY <3>1, <3>2
      <2>6. FreshAlone'
        BY <1>a, <1>c, <2>1, <2>4 DEF FreshAlone, InWork
      <2>7. OneRecovery'
        BY <1>a, <1>c, <1>f, <2>1 DEF OneRecovery, AtPause
      <2>8. QED
        BY <2>5, <2>6, <2>7
    <1>5. QED
      BY <1>1, <1>2, <1>3, <1>4 DEF AtPause

LEMMA FlagInit == Init => FlagInv
    BY DEF Init, FlagInv, PauseInv, FreshAlone, OneRecovery, Adding, InWork, CopyPoints, Actors

LEMMA FlagStep == FlagGuards /\ Typed /\ FlagInv /\ [Next]_vars => FlagInv'
    <1> SUFFICES ASSUME FlagGuards, Typed, FlagInv, [Next]_vars PROVE FlagInv'
      OBVIOUS
    <1>a. TypeOK /\ Located /\ PauseInv /\ FreshAlone /\ OneRecovery /\ Adding
      BY DEF Typed, FlagInv
    <1>b. \A w \in Workers : w \in Actors /\ w \notin Clients
      BY OrchestratorAssumption DEF Actors
    <1>1. ASSUME NEW w \in Workers, WorkerStep(w) \/ \E s \in Serials : Tick(w, s)
          PROVE  Adding'
      BY <1>1, <1>a, <1>b, WorkerAlone DEF Adding, Actors
    <1>2. ASSUME NEW w \in Workers, NEW s \in Serials, Tick(w, s)
          PROVE  FlagInv'
      <2>1. /\ store' = store /\ lease' = lease /\ copy' = copy
            /\ pc[w] = "idle" /\ pc'[w] = "lock"
            /\ \A v \in Workers \ {w} : pc'[v] = pc[v] /\ on'[v] = on[v]
        BY <1>2, <1>a, <1>b, WorkerAlone DEF Tick, Goto, TypeOK
      <2>2. PauseInv'
        BY <1>a, <2>1 DEF PauseInv, InWork, CopyPoints
      <2>3. FreshAlone' /\ OneRecovery'
        BY <1>a, <2>1 DEF FreshAlone, OneRecovery, InWork
      <2>4. QED
        BY <1>1, <1>2, <2>2, <2>3 DEF FlagInv
    <1>3. ASSUME NEW c \in Clients,
                 \/ ClientStep(c)
                 \/ \E s \in Serials, op \in AllOps : Request(c, s, op)
                 \/ \E s \in Serials : RequestAdd(c, s)
          PROVE  FlagInv'
      <2>1. /\ \A a \in Actors \ {c} : pc'[a] = pc[a] /\ on'[a] = on[a] /\ copy'[a] = copy[a]
            /\ pc'[c] \in {"idle", "save"} /\ (pc'[c] = "save" => copy'[c] = NewPhone)
            /\ \/ store' = store
               \/ \E s \in Serials : /\ ~Present(store[s])
                                     /\ store' = [store EXCEPT ![s] = NewPhone]
        BY <1>3, <1>a, LoopClient DEF FlagGuards
      <2>2. \A w \in Workers : pc'[w] = pc[w] /\ on'[w] = on[w] /\ copy'[w] = copy[w]
        BY <1>b, <2>1
      <2>3. lease' = lease
        BY <1>3, ClientLease
      <2>4. \A s \in Serials :
              /\ IsPaused(store'[s]) <=> IsPaused(store[s])
              /\ Fresh(store'[s]) <=> Fresh(store[s])
        BY <2>1, <1>a DEF TypeOK, Present, NoPhone, NewPhone, IsPaused, Fresh
      <2>5. \A w \in Workers : pc[w] # "idle" => on[w] \in Serials
        BY <1>a, <1>b DEF Located
      <2>6. PauseInv'
        BY <1>a, <2>2, <2>3, <2>4, <2>5 DEF PauseInv, InWork, CopyPoints
      <2>7. FreshAlone' /\ OneRecovery'
        BY <1>a, <2>2, <2>4, <2>5 DEF FreshAlone, OneRecovery, InWork
      <2>8. Adding'
        BY <1>a, <2>1 DEF Adding, Actors
      <2>9. QED
        BY <2>6, <2>7, <2>8 DEF FlagInv
    <1>4. ASSUME NEW s \in Serials, Lapse(s)
          PROVE  FlagInv'
      <2>1. /\ store' = store /\ pc' = pc /\ on' = on /\ copy' = copy
            /\ \A p \in Serials \ {s} : lease'[p] = lease[p]
        BY <1>4, <1>a DEF Lapse, TypeOK
      <2>2. PICK w \in Workers : on[w] = s /\ pc[w] = "recover"
        BY <1>4 DEF Lapse, FlagGuards
      <2>3. ~Fresh(store[s])
        BY <1>a, <2>2 DEF PauseInv
      <2>4. \A v \in Workers : InWork(v) => on[v] \in Serials
        BY <1>a, <1>b DEF Located, InWork
      <2>5. PauseInv'
        BY <1>a, <2>1, <2>3, <2>4 DEF PauseInv, InWork
      <2>6. FreshAlone' /\ OneRecovery' /\ Adding'
        BY <1>a, <2>1 DEF FreshAlone, OneRecovery, Adding, InWork
      <2>7. QED
        BY <2>5, <2>6 DEF FlagInv
    <1>5. CASE Crash
      BY <1>5 DEF Crash, FlagInv, PauseInv, FreshAlone, OneRecovery, Adding, InWork,
                  CopyPoints, Actors
    <1>6. CASE UNCHANGED vars
      BY <1>6, <1>a DEF vars, FlagInv, PauseInv, FreshAlone, OneRecovery, Adding, InWork
    <1>7. ASSUME NEW w \in Workers, WorkerStep(w)
          PROVE  FlagInv'
      BY <1>7, <1>1, FlagWorker DEF FlagInv
    <1>8. QED
      BY <1>2, <1>3, <1>4, <1>5, <1>6, <1>7 DEF Next

\* Though the lease of a recovery may lapse and the process may stop, two
\* recovery flows never run on one phone, for any number of goroutines, as
\* long as recoveries succeed, records are written and operators only add.
THEOREM RecoveriesStayAlone == FlagGuards => (Spec => []OneRecovery)
    <1> SUFFICES ASSUME FlagGuards PROVE Spec => []OneRecovery
      OBVIOUS
    <1>1. Typed /\ FlagInv /\ [Next]_vars => FlagInv'
      BY FlagStep
    <1>2. FlagInv => OneRecovery
      BY DEF FlagInv
    <1>3. QED
      BY <1>1, <1>2, FlagInit, TypedAlways, PTL DEF Spec
=============================================================================
