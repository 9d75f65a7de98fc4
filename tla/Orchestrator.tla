---------------------------- MODULE Orchestrator ----------------------------
(***************************************************************************)
(* The core of the phone orchestrator: the control loop that takes every   *)
(* active phone one lifecycle step further on each tick, and the operator  *)
(* requests that rewrite the same records.                                 *)
(*                                                                         *)
(* Two kinds of actor share the phone store.  A worker is one              *)
(* processPhone goroutine: it takes the phone's lease, reads the record,   *)
(* calls a remote service, writes its copy of the whole record back, tells *)
(* the subscribers and releases the lease.  A client is one HTTP request:  *)
(* it reads the record, rewrites it and answers; it never takes the lease. *)
(* Every step between two accesses to shared state is an action.           *)
(***************************************************************************)
EXTENDS Naturals, PhoneRecords

CONSTANTS
    Serials,        \* phones of the farm
    Workers,        \* processPhone goroutines that may exist at once
    Clients,        \* HTTP requests that may be in progress at once
    OperatorOps,    \* requests the operator makes
    InitialStates,  \* states of the phones at start-up, "absent" for none
    Provisioner,    \* "stub" or "http"
    SlowCalls,      \* remote calls that may outlast the lease
    Faults,         \* calls that may fail
    MaxCrashes      \* bound on the process crashes of a behaviour

AllOps == {"add", "remove", "pause", "resume", "markError", "reprovision", "standSeq"}
RemoteCalls == {"connect", "advance", "status", "recover"}

ASSUME OrchestratorAssumption ==
    /\ OperatorOps \subseteq AllOps
    /\ InitialStates \subseteq States \union {"absent"}
    /\ Provisioner \in {"stub", "http"}
    /\ SlowCalls \subseteq RemoteCalls
    /\ Workers \intersect Clients = {}
    /\ "none" \notin Serials
    /\ MaxCrashes \in Nat

VARIABLES
    store,      \* serial -> row of the phones table
    lease,      \* serial -> the lock entry: absent, unexpired or expired
    pc,         \* actor -> the call it is about to make
    on,         \* actor -> the serial it works on
    copy,       \* actor -> its copy of the record
    was,        \* actor -> state before the transition it announces
    announced,  \* serial -> last state sent on phone.state.changed
    crashes     \* crashes so far

vars == <<store, lease, pc, on, copy, was, announced, crashes>>

Actors == Workers \union Clients

WorkerPoints ==
    RemoteCalls \union
    {"lock", "get", "promote", "flag", "announce", "announceRecovered", "clear", "unlock"}

ClientPoints == {"save", "store", "storeQuietly", "announce"}

Points == {"idle"} \union WorkerPoints \union ClientPoints

-----------------------------------------------------------------------------
(***************************************************************************)
(* Shared steps.                                                           *)
(***************************************************************************)

\* The row of a phone left by an earlier process while no recovery was going
\* on, or no row at all.
LeftBehind(st) ==
    IF st = "absent" THEN NoPhone
    ELSE [NewPhone EXCEPT !.state = st,
                          !.readyAt = st \in {"ready", "working", "paused"},
                          !.retiredAt = st = "retired"]

Init ==
    /\ store \in [Serials -> {LeftBehind(st) : st \in InitialStates}]
    /\ lease = [s \in Serials |-> "free"]
    /\ pc = [a \in Actors |-> "idle"]
    /\ on = [a \in Actors |-> "none"]
    /\ copy = [a \in Actors |-> NoPhone]
    /\ was = [a \in Actors |-> "none"]
    /\ announced = [s \in Serials |-> IF Present(store[s]) THEN store[s].state ELSE "new"]
    /\ crashes = 0

MayFail(call) == call \in Faults

\* store.Update replaces the whole row by the caller's copy; every caller in
\* the loop drops its error.
Update(s, r) ==
    \/ store' = [store EXCEPT ![s] = r]
    \/ MayFail("update") /\ UNCHANGED store

Goto(a, point) == pc' = [pc EXCEPT ![a] = point]

Holding(a, r) == copy' = [copy EXCEPT ![a] = r]

\* The actor's goroutine returns.
Finish(a) ==
    /\ Goto(a, "idle")
    /\ on' = [on EXCEPT ![a] = "none"]
    /\ Holding(a, NoPhone)
    /\ was' = [was EXCEPT ![a] = "none"]

\* The first half of transition: compute the record, write it, and go on to
\* tell the subscribers.
Transition(a, r, to, next) ==
    /\ Update(on[a], Moved(r, to))
    /\ Holding(a, Moved(r, to))
    /\ was' = [was EXCEPT ![a] = copy[a].state]
    /\ Goto(a, next)

\* Faulty variants of Publish: the event names the state left behind, or
\* carries the error text in the place of the state.
PublishOld(a) == announced' = [announced EXCEPT ![on[a]] = was[a]]

PublishError(a) == announced' = [announced EXCEPT ![on[a]] = copy[a].lastError]

\* The second half: the row of phone_state_log and the event carry the same
\* pair of states; announced stands for both.
Publish(a) ==
    \/ announced' = [announced EXCEPT ![on[a]] = copy[a].state]
    \/ MayFail("publish") /\ UNCHANGED announced
-----------------------------------------------------------------------------
(***************************************************************************)
(* The lease (MemoryPhoneLock).  An entry is taken when there is none or   *)
(* the one there has expired; Unlock deletes whatever entry it finds, for  *)
(* entries name no owner.                                                  *)
(***************************************************************************)

\* Faulty variants: the entry is not looked at; the entry is not deleted.
TryLockBlindly(s) == lease' = [lease EXCEPT ![s] = "held"]

UnlockForgotten(s) == UNCHANGED lease

TryLock(s) == lease[s] # "held" /\ lease' = [lease EXCEPT ![s] = "held"]

Unlock(s) == lease' = [lease EXCEPT ![s] = "free"]

\* The TTL (30 s) runs out under a holder that is still in a slow call.
Lapse(s) ==
    /\ lease[s] = "held"
    /\ \E w \in Workers : on[w] = s /\ pc[w] \in SlowCalls
    /\ lease' = [lease EXCEPT ![s] = "lapsed"]
    /\ UNCHANGED <<store, pc, on, copy, was, announced, crashes>>

-----------------------------------------------------------------------------
(***************************************************************************)
(* Workers: Run, processAll, processPhone and the handlers it calls.       *)
(***************************************************************************)

\* A tick lists the active phones and starts a goroutine for each.
Tick(w, s) ==
    /\ pc[w] = "idle"
    /\ store[s].state \in ActiveStates
    /\ Goto(w, "lock")
    /\ on' = [on EXCEPT ![w] = s]
    /\ UNCHANGED <<store, lease, copy, was, announced, crashes>>

Lock(w) ==
    /\ pc[w] = "lock"
    /\ TryLock(on[w])
    /\ Goto(w, "get")
    /\ UNCHANGED <<store, on, copy, was, announced, crashes>>

LockBusy(w) ==
    /\ pc[w] = "lock"
    /\ lease[on[w]] = "held"
    /\ Finish(w)
    /\ UNCHANGED <<store, lease, announced, crashes>>

\* The call processPhone makes for a record, by its state.
NextCall(r) ==
    CASE r.state = "new"           -> "connect"
      [] r.state \in SetupStages   -> "advance"
      [] r.state = "ready"         -> "promote"
      [] r.state = "working"       -> "status"
      [] r.state = "paused" /\ ~r.recoveryInProgress -> "flag"
      [] OTHER                     -> "unlock"

Get(w) ==
    /\ pc[w] = "get"
    /\ Holding(w, store[on[w]])
    /\ Goto(w, NextCall(store[on[w]]))
    /\ UNCHANGED <<store, lease, on, was, announced, crashes>>

\* Faulty variant of GetFails: it returns before Unlock is deferred.
GetFailsLocked(w) ==
    /\ pc[w] = "get"
    /\ MayFail("get")
    /\ Finish(w)
    /\ UNCHANGED <<store, lease, announced, crashes>>

GetFails(w) ==
    /\ pc[w] = "get"
    /\ MayFail("get")
    /\ Goto(w, "unlock")
    /\ UNCHANGED <<store, lease, on, copy, was, announced, crashes>>

\* The end of processPhone after a failed step: the error is recorded, in
\* the copy read before the call.
StepFails(w, call) ==
    /\ pc[w] = call
    /\ MayFail(call)
    /\ Update(on[w], Failed(copy[w]))
    /\ Goto(w, "unlock")
    /\ UNCHANGED <<lease, on, copy, was, announced, crashes>>

\* Faulty variant of Connect: the Wi-Fi stage is skipped.
ConnectSkipsWifi(w) ==
    /\ pc[w] = "connect"
    /\ Transition(w, copy[w], "proxy_setup", "announce")
    /\ UNCHANGED <<lease, on, announced, crashes>>

Connect(w) ==
    /\ pc[w] = "connect"
    /\ Transition(w, copy[w], "wifi_setup", "announce")
    /\ UNCHANGED <<lease, on, announced, crashes>>

\* What AdvanceSetup may answer when it does not fail: the next stage, or,
\* over HTTP, the stage it was asked about or "ready".
SetupAnswers(st) ==
    IF Provisioner = "stub" THEN {NextStage(st)} ELSE {st, "ready"}

AdvanceSetup(w) ==
    /\ pc[w] = "advance"
    /\ \E next \in SetupAnswers(copy[w].state) \ {copy[w].state} :
           Transition(w, copy[w], next, "announce")
    /\ UNCHANGED <<lease, on, announced, crashes>>

SetupGoesOn(w) ==
    /\ pc[w] = "advance"
    /\ copy[w].state \in SetupAnswers(copy[w].state)
    /\ Goto(w, "unlock")
    /\ UNCHANGED <<store, lease, on, copy, was, announced, crashes>>

Promote(w) ==
    /\ pc[w] = "promote"
    /\ Transition(w, copy[w], "working", "announce")
    /\ UNCHANGED <<lease, on, announced, crashes>>

\* heartbeat: whatever GetStatus answers, the copy is written back.
Heartbeat(w) ==
    /\ pc[w] = "status"
    /\ Update(on[w], copy[w])
    /\ Goto(w, "unlock")
    /\ UNCHANGED <<lease, on, copy, was, announced, crashes>>

\* Faulty variant of RaiseFlag: the flag is raised in the copy only.
RaiseFlagUnsaved(w) ==
    /\ pc[w] = "flag"
    /\ Holding(w, Flagged(copy[w], TRUE))
    /\ Goto(w, "recover")
    /\ UNCHANGED <<store, lease, on, was, announced, crashes>>

\* handlePaused raises the flag before it calls the recovery flow,
RaiseFlag(w) ==
    /\ pc[w] = "flag"
    /\ Update(on[w], Flagged(copy[w], TRUE))
    /\ Holding(w, Flagged(copy[w], TRUE))
    /\ Goto(w, "recover")
    /\ UNCHANGED <<lease, on, was, announced, crashes>>

\* Faulty variant of Recover: the plan is carried out, the phone not moved.
RecoverUnmoved(w) ==
    /\ pc[w] = "recover"
    /\ Transition(w, [copy[w] EXCEPT !.lastError = "none"], "paused", "announceRecovered")
    /\ UNCHANGED <<lease, on, announced, crashes>>

\* takes the phone back to work when the flow returns a plan,
Recover(w) ==
    /\ pc[w] = "recover"
    /\ Transition(w, [copy[w] EXCEPT !.lastError = "none"], "working", "announceRecovered")
    /\ UNCHANGED <<lease, on, announced, crashes>>

\* or records its error,
RecoveryFails(w) ==
    /\ pc[w] = "recover"
    /\ MayFail("recover")
    /\ Update(on[w], Failed(copy[w]))
    /\ Holding(w, Failed(copy[w]))
    /\ Goto(w, "clear")
    /\ UNCHANGED <<lease, on, was, announced, crashes>>

\* Faulty variant of ClearFlag: the flag is lowered in the copy only.
ClearFlagUnsaved(w) ==
    /\ pc[w] = "clear"
    /\ Goto(w, "unlock")
    /\ UNCHANGED <<store, lease, on, copy, was, announced, crashes>>

\* and in either case lowers the flag when it returns.
ClearFlag(w) ==
    /\ pc[w] = "clear"
    /\ Update(on[w], Flagged(copy[w], FALSE))
    /\ Holding(w, Flagged(copy[w], FALSE))
    /\ Goto(w, "unlock")
    /\ UNCHANGED <<lease, on, was, announced, crashes>>

Announce(w) ==
    /\ pc[w] \in {"announce", "announceRecovered"}
    /\ Publish(w)
    /\ Goto(w, IF pc[w] = "announce" THEN "unlock" ELSE "clear")
    /\ UNCHANGED <<store, lease, on, copy, was, crashes>>

Release(w) ==
    /\ pc[w] = "unlock"
    /\ Unlock(on[w])
    /\ Finish(w)
    /\ UNCHANGED <<store, announced, crashes>>

WorkerStep(w) ==
    \/ Lock(w) \/ LockBusy(w)
    \/ Get(w) \/ GetFails(w)
    \/ Connect(w) \/ StepFails(w, "connect")
    \/ AdvanceSetup(w) \/ SetupGoesOn(w) \/ StepFails(w, "advance")
    \/ Promote(w)
    \/ Heartbeat(w)
    \/ RaiseFlag(w) \/ Recover(w) \/ RecoveryFails(w) \/ ClearFlag(w)
    \/ Announce(w)
    \/ Release(w)

-----------------------------------------------------------------------------
(***************************************************************************)
(* Clients: the requests of PhonesHTTP and GRPC.  None looks at the state  *)
(* the phone is in, or at the lease.                                       *)
(***************************************************************************)

\* Faulty variant of Requested: reprovision keeps ready_at.
RequestedReadyKept(op, r) ==
    CASE op = "pause"       -> Moved([r EXCEPT !.lastError = "reason"], "paused")
      [] op = "resume"      -> Moved(r, "working")
      [] op = "markError"   -> Moved([r EXCEPT !.lastError = "reason"], "error")
      [] op = "reprovision" -> Moved(r, "new")
      [] op = "remove"      -> Moved(r, "retired")
      [] op = "standSeq"    -> r

\* The record a request that found r goes on to write.
Requested(op, r) ==
    CASE op = "pause"       -> Moved([r EXCEPT !.lastError = "reason"], "paused")
      [] op = "resume"      -> Moved(r, "working")
      [] op = "markError"   -> Moved([r EXCEPT !.lastError = "reason"], "error")
      [] op = "reprovision" -> Moved([r EXCEPT !.readyAt = FALSE], "new")
      [] op = "remove"      -> Moved(r, "retired")
      [] op = "standSeq"    -> r

\* RemovePhone and SetStandSeqNumber write without a transition: no log row
\* and no event.
Quiet == {"remove", "standSeq"}

Request(c, s, op) ==
    /\ pc[c] = "idle"
    /\ op \in OperatorOps \ {"add"}
    /\ Present(store[s])
    /\ on' = [on EXCEPT ![c] = s]
    /\ Holding(c, Requested(op, store[s]))
    /\ \/ op \in Quiet /\ Goto(c, "storeQuietly") /\ UNCHANGED was
       \/ op \notin Quiet /\ Goto(c, "store") /\ was' = [was EXCEPT ![c] = store[s].state]
    /\ UNCHANGED <<store, lease, announced, crashes>>

\* AddPhone goes on only if it finds no row.
RequestAdd(c, s) ==
    /\ pc[c] = "idle"
    /\ "add" \in OperatorOps
    /\ ~Present(store[s])
    /\ on' = [on EXCEPT ![c] = s]
    /\ Holding(c, NewPhone)
    /\ Goto(c, "save")
    /\ UNCHANGED <<store, lease, was, announced, crashes>>

\* Save inserts: a row that has appeared since is left as it is.
SavePhone(c) ==
    /\ pc[c] = "save"
    /\ store' = IF Present(store[on[c]]) THEN store
                ELSE [store EXCEPT ![on[c]] = copy[c]]
    /\ Finish(c)
    /\ UNCHANGED <<lease, announced, crashes>>

StoreRequest(c) ==
    /\ pc[c] = "store"
    /\ Update(on[c], copy[c])
    /\ Goto(c, "announce")
    /\ UNCHANGED <<lease, on, copy, was, announced, crashes>>

StoreQuietly(c) ==
    /\ pc[c] = "storeQuietly"
    /\ Update(on[c], copy[c])
    /\ Finish(c)
    /\ UNCHANGED <<lease, announced, crashes>>

Reply(c) ==
    /\ pc[c] = "announce"
    /\ Publish(c)
    /\ Finish(c)
    /\ UNCHANGED <<store, lease, crashes>>

ClientStep(c) ==
    SavePhone(c) \/ StoreRequest(c) \/ StoreQuietly(c) \/ Reply(c)

-----------------------------------------------------------------------------
\* The process stops and starts again: its goroutines and the in-memory
\* leases are gone, the phones table stays.
Crash ==
    /\ crashes < MaxCrashes
    /\ crashes' = crashes + 1
    /\ lease' = [s \in Serials |-> "free"]
    /\ pc' = [a \in Actors |-> "idle"]
    /\ on' = [a \in Actors |-> "none"]
    /\ copy' = [a \in Actors |-> NoPhone]
    /\ was' = [a \in Actors |-> "none"]
    /\ UNCHANGED <<store, announced>>

Next ==
    \/ \E w \in Workers, s \in Serials : Tick(w, s)
    \/ \E w \in Workers : WorkerStep(w)
    \/ \E s \in Serials : Lapse(s)
    \/ \E c \in Clients, s \in Serials, op \in AllOps : Request(c, s, op)
    \/ \E c \in Clients, s \in Serials : RequestAdd(c, s)
    \/ \E c \in Clients : ClientStep(c)
    \/ Crash

Spec == Init /\ [][Next]_vars

\* The ticker keeps starting goroutines for every active phone: strong
\* fairness, for a slot of Workers that is free only now and then is a limit
\* of the model, not of the code.  The calls of a goroutine return: connector
\* and provisioner have timeouts, and of the recovery it is assumed that its
\* executor, which has none, answers.  Operators need not make requests, and
\* nothing forces a lease to lapse or a crash.
Fairness ==
    /\ \A s \in Serials : SF_vars(\E w \in Workers : Tick(w, s))
    /\ \A w \in Workers : WF_vars(WorkerStep(w))
    /\ \A c \in Clients : WF_vars(ClientStep(c))

FairSpec == Spec /\ Fairness

-----------------------------------------------------------------------------
(***************************************************************************)
(* Properties.                                                             *)
(***************************************************************************)

TypeOK ==
    /\ store \in [Serials -> PhoneRecord \union {NoPhone}]
    /\ lease \in [Serials -> {"free", "held", "lapsed"}]
    /\ pc \in [Actors -> Points]
    /\ on \in [Actors -> Serials \union {"none"}]
    /\ copy \in [Actors -> PhoneRecord \union {NoPhone}]
    /\ was \in [Actors -> States \union {"none"}]
    /\ announced \in [Serials -> States]
    /\ crashes \in 0 .. MaxCrashes

\* A worker between its TryLock and its Unlock.
Processing(w, s) == on[w] = s /\ pc[w] \notin {"idle", "lock"}

\* A worker that has raised the recovery flag and not yet lowered it.
Recovering(w, s) == on[w] = s /\ pc[w] \in {"recover", "announceRecovered", "clear"}

\* Whatever races, lapses, failures and crashes there are, no stored record
\* and no copy on its way to the store contradicts its own timestamps: a
\* phone in or before setup has no ready_at, a working one has, a retired
\* one has retired_at.  Every write is a whole record, so a stale write
\* loses updates but never mixes two records.
RecordsConsistent ==
    /\ \A s \in Serials : Present(store[s]) => ConsistentRecord(store[s])
    /\ \A a \in Actors : Present(copy[a]) => ConsistentRecord(copy[a])

\* While no call outlasts the lease, two goroutines never process one phone.
MutualExclusion ==
    \A w, v \in Workers, s \in Serials :
        Processing(w, s) /\ Processing(v, s) => w = v

\* An unexpired lease always has a goroutine that will release it: no return
\* path of processPhone, no lapse and no restart locks a phone out.
LeaseOwned ==
    \A s \in Serials : lease[s] = "held" => \E w \in Workers : Processing(w, s)

\* Two recovery flows never run on one phone.  While recoveries succeed, the
\* flag sees to it even after the lease of the first has lapsed (the flow may
\* take 120 s, the lease 30 s).
OneRecovery ==
    \A w, v \in Workers, s \in Serials :
        on[w] = s /\ on[v] = s /\ pc[w] = "recover" /\ pc[v] = "recover" => w = v

\* The flag is set only while a recovery owns it, whatever the state.
FlagOwned ==
    \A s \in Serials :
        Present(store[s]) /\ store[s].recoveryInProgress
            => \E w \in Workers : Recovering(w, s)

\* The subscribers of phone.state.changed know the stored state, except
\* while the goroutine that has just written it is about to tell them.
SubscribersFollow ==
    \A s \in Serials :
        \/ ~Present(store[s])
        \/ announced[s] = store[s].state
        \/ \E a \in Actors : on[a] = s /\ pc[a] \in {"announce", "announceRecovered"}

\* A phone once retired stays retired (the README diagram has no way out).
RetiredIsFinal ==
    [][\A s \in Serials : store[s].state = "retired" => store'[s].state = "retired"]_vars

\* The abstract lifecycle: the stored state and what subscribers were told.
Lifecycle == INSTANCE PhoneLifecycle WITH
    state <- [s \in Serials |-> store[s].state],
    told <- announced

\* The loop, alone on its phones, is an atomic walk along the diagram in
\* which subscribers hear of every step before the next one is taken,
ImplementsLifecycle == Lifecycle!Spec

\* and no step is put off forever.
ImplementsFairLifecycle == Lifecycle!FairSpec

\* With a provisioner that always moves on, every new phone is put to work.
NewReachesWork ==
    \A s \in Serials : store[s].state = "new" ~> store[s].state = "working"

\* A paused phone does not stay paused: the loop recovers it.
PausedRecovers ==
    \A s \in Serials : store[s].state = "paused" ~> store[s].state # "paused"
=============================================================================
