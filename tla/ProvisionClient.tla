-------------------------- MODULE ProvisionClient --------------------------
(***************************************************************************)
(* Setup over HTTP (PROVISIONER_MODE=http): ProvisionHTTP.AdvanceSetup     *)
(* asks phone-provisioner how the phone's run is going, starts one when it *)
(* should, and answers "ready" when the run it is waiting for is over.     *)
(* What it waits for is remembered in memory only (awaitingReady).  The    *)
(* provisioner keeps one run per serial and outlives the orchestrator; it  *)
(* is external, modelled by what the client counts on.  Over HTTP a phone  *)
(* spends its whole setup in wifi_setup, so one stage stands for all four. *)
(***************************************************************************)
EXTENDS Naturals

CONSTANTS
    Serials,
    Callers,          \* goroutines that may be in AdvanceSetup at once
    Lapses,           \* TRUE if a call may outlast the phone's lease
    MaxPasses,        \* bound on the setups of one phone
    MaxDisturbances   \* bound on lost calls, failed or foreign runs, restarts

ASSUME ProvisionAssumption ==
    /\ Lapses \in BOOLEAN
    /\ MaxPasses \in Nat /\ MaxDisturbances \in Nat
    /\ "none" \notin Serials

VARIABLES
    run,            \* serial -> status of its run at the provisioner
    awaiting,       \* serial -> is it in awaitingReady?
    stage, readyAt, \* serial -> in setup, declared ready, or elsewhere; is ready_at set?
    passes,         \* serial -> setups begun
    done,           \* serial -> has a run succeeded since this setup began?
    rerun,          \* serial -> was one started although one had succeeded?
    interrupted,    \* serial -> has an operator taken it out of a setup?
    pc, on, view,   \* caller -> next step, serial, status it was told
    known,          \* caller -> ready_at of its copy of the record
    disturbances

record == <<stage, readyAt>>
history == <<passes, done, rerun, interrupted>>
caller == <<pc, on, view, known>>
vars == <<run, awaiting, record, history, caller, disturbances>>

Statuses == {"none", "pending", "ready", "failed"}

TypeOK ==
    /\ run \in [Serials -> Statuses]
    /\ awaiting \in [Serials -> BOOLEAN]
    /\ stage \in [Serials -> {"out", "setup", "ready"}]
    /\ readyAt \in [Serials -> BOOLEAN]
    /\ passes \in [Serials -> Nat]
    /\ done \in [Serials -> BOOLEAN]
    /\ rerun \in [Serials -> BOOLEAN]
    /\ interrupted \in [Serials -> BOOLEAN]
    /\ pc \in [Callers -> {"idle", "ask", "decide", "post", "note", "again", "judge", "drop"}]
    /\ on \in [Callers -> Serials \union {"none"}]
    /\ view \in [Callers -> Statuses]
    /\ known \in [Callers -> BOOLEAN]
    /\ disturbances \in Nat

\* No phone is in setup when the process starts; runs may be left from
\* before.
Init ==
    /\ run \in [Serials -> Statuses \ {"pending"}]
    /\ awaiting = [s \in Serials |-> FALSE]
    /\ stage = [s \in Serials |-> "out"]
    /\ readyAt \in [Serials -> BOOLEAN]
    /\ passes = [s \in Serials |-> 0]
    /\ done = [s \in Serials |-> FALSE]
    /\ rerun = [s \in Serials |-> FALSE]
    /\ interrupted = [s \in Serials |-> FALSE]
    /\ pc = [c \in Callers |-> "idle"]
    /\ on = [c \in Callers |-> "none"]
    /\ view = [c \in Callers |-> "none"]
    /\ known = [c \in Callers |-> FALSE]
    /\ disturbances = 0

Disturb == disturbances < MaxDisturbances /\ disturbances' = disturbances + 1

Unattended(s) == Lapses \/ \A c \in Callers : on[c] # s

Goto(c, point) == pc' = [pc EXCEPT ![c] = point]

\* AdvanceSetup returns to the loop.
Return(c) ==
    /\ Goto(c, "idle")
    /\ on' = [on EXCEPT ![c] = "none"]
    /\ view' = [view EXCEPT ![c] = "none"]
    /\ known' = [known EXCEPT ![c] = FALSE]

\* If it returns an error, the loop notes it in its copy of the record and
\* writes that back: a phone taken out of setup meanwhile is in setup again.
ReturnError(c) ==
    /\ Return(c)
    /\ stage' = [stage EXCEPT ![on[c]] = "setup"]
    /\ readyAt' = [readyAt EXCEPT ![on[c]] = known[c]]

-----------------------------------------------------------------------------
(***************************************************************************)
(* The phone's record, as the control loop and the operator move it.       *)
(***************************************************************************)

\* A new or reprovisioned phone is taken to wifi_setup, without a ready_at, by
\* a goroutine that holds its lease.
EnterSetup(s) ==
    /\ stage[s] # "setup"
    /\ passes[s] < MaxPasses
    /\ Unattended(s)
    /\ stage' = [stage EXCEPT ![s] = "setup"]
    /\ readyAt' = [readyAt EXCEPT ![s] = FALSE]
    /\ passes' = [passes EXCEPT ![s] = @ + 1]
    /\ done' = [done EXCEPT ![s] = FALSE]
    /\ rerun' = [rerun EXCEPT ![s] = FALSE]
    /\ UNCHANGED <<run, awaiting, interrupted, caller, disturbances>>

\* pause, resume, markError, reprovision or remove in the middle of a setup:
\* none of them tells the provision client.  resume sets ready_at.
LeaveSetup(s) ==
    /\ stage[s] = "setup"
    /\ stage' = [stage EXCEPT ![s] = "out"]
    /\ \E set \in BOOLEAN : readyAt' = [readyAt EXCEPT ![s] = @ \/ set]
    /\ interrupted' = [interrupted EXCEPT ![s] = TRUE]
    /\ UNCHANGED <<run, awaiting, passes, done, rerun, caller, disturbances>>

-----------------------------------------------------------------------------
(***************************************************************************)
(* AdvanceSetup.                                                           *)
(***************************************************************************)

\* processPhone reads the record and finds the phone in setup.
Take(c, s) ==
    /\ pc[c] = "idle"
    /\ stage[s] = "setup"
    /\ Unattended(s)
    /\ on' = [on EXCEPT ![c] = s]
    /\ known' = [known EXCEPT ![c] = readyAt[s]]
    /\ Goto(c, "ask")
    /\ UNCHANGED <<run, awaiting, record, history, view, disturbances>>

\* The first GET /status.
Ask(c) ==
    /\ pc[c] = "ask"
    /\ view' = [view EXCEPT ![c] = run[on[c]]]
    /\ Goto(c, "decide")
    /\ UNCHANGED <<run, awaiting, record, history, on, known, disturbances>>

\* Faulty variants: the run awaited is started again; one that was ready
\* before this setup is taken as good.
ShouldStartAwaited(c) == view[c] # "pending"

ShouldStartNotReady(c) == view[c] \in {"none", "failed"}

ShouldStart(c) ==
    \/ view[c] \in {"none", "failed"}
    \/ view[c] = "ready" /\ ~awaiting[on[c]] /\ ~known[c]

Decide(c) ==
    /\ pc[c] = "decide"
    /\ Goto(c, IF ShouldStart(c) THEN "post" ELSE "judge")
    /\ UNCHANGED <<run, awaiting, record, history, on, view, known, disturbances>>

\* POST /provision is accepted,
Post(c) ==
    /\ pc[c] = "post"
    /\ run[on[c]] # "pending"
    /\ run' = [run EXCEPT ![on[c]] = "pending"]
    /\ rerun' = [rerun EXCEPT ![on[c]] = @ \/ done[on[c]]]
    /\ Goto(c, "note")
    /\ UNCHANGED <<awaiting, record, passes, done, interrupted, on, view, known, disturbances>>

\* or refused with 409, which the client passes over,
Conflict(c) ==
    /\ pc[c] = "post"
    /\ run[on[c]] = "pending"
    /\ Goto(c, "again")
    /\ UNCHANGED <<run, awaiting, record, history, on, view, known, disturbances>>

\* or accepted with the answer lost: the client returns the error and does
\* not know of the run.
PostUnanswered(c) ==
    /\ pc[c] = "post"
    /\ run[on[c]] # "pending"
    /\ Disturb
    /\ run' = [run EXCEPT ![on[c]] = "pending"]
    /\ rerun' = [rerun EXCEPT ![on[c]] = @ \/ done[on[c]]]
    /\ ReturnError(c)
    /\ UNCHANGED <<awaiting, passes, done, interrupted>>

\* Faulty variant of Note: the run is not remembered.
NoteNothing(c) ==
    /\ pc[c] = "note"
    /\ Goto(c, "again")
    /\ UNCHANGED <<run, awaiting, record, history, on, view, known, disturbances>>

Note(c) ==
    /\ pc[c] = "note"
    /\ awaiting' = [awaiting EXCEPT ![on[c]] = TRUE]
    /\ Goto(c, "again")
    /\ UNCHANGED <<run, record, history, on, view, known, disturbances>>

\* The GET /status after a POST.
AskAgain(c) ==
    /\ pc[c] = "again"
    /\ view' = [view EXCEPT ![c] = run[on[c]]]
    /\ Goto(c, "judge")
    /\ UNCHANGED <<run, awaiting, record, history, on, known, disturbances>>

\* A GET or POST that does not get through ends the call with an error.
CallFails(c) ==
    /\ pc[c] \in {"ask", "post", "again"}
    /\ Disturb
    /\ ReturnError(c)
    /\ UNCHANGED <<run, awaiting, history>>

\* "ready" counts only for a run that is awaited.
ReadySeen(c) == view[c] = "ready" /\ awaiting[on[c]]

Judge(c) ==
    /\ pc[c] = "judge"
    /\ ReadySeen(c)
    /\ Goto(c, "drop")
    /\ UNCHANGED <<run, awaiting, record, history, on, view, known, disturbances>>

\* Pending or not awaited: the phone stays where it is, and its record is not
\* written.
StaysInSetup(c) ==
    /\ pc[c] = "judge"
    /\ ~ReadySeen(c)
    /\ view[c] # "failed"
    /\ Return(c)
    /\ UNCHANGED <<run, awaiting, record, history, disturbances>>

\* Failed: an error.
FailureSeen(c) ==
    /\ pc[c] = "judge"
    /\ view[c] = "failed"
    /\ ReturnError(c)
    /\ UNCHANGED <<run, awaiting, history, disturbances>>

\* Faulty variant of Complete: the run stays in awaitingReady.
CompleteStillAwaiting(c) ==
    /\ pc[c] = "drop"
    /\ stage' = [stage EXCEPT ![on[c]] = "ready"]
    /\ readyAt' = [readyAt EXCEPT ![on[c]] = TRUE]
    /\ Return(c)
    /\ UNCHANGED <<run, awaiting, history, disturbances>>

\* The serial is dropped from awaitingReady and the loop writes its copy of
\* the phone back as ready.
Complete(c) ==
    /\ pc[c] = "drop"
    /\ awaiting' = [awaiting EXCEPT ![on[c]] = FALSE]
    /\ stage' = [stage EXCEPT ![on[c]] = "ready"]
    /\ readyAt' = [readyAt EXCEPT ![on[c]] = TRUE]
    /\ Return(c)
    /\ UNCHANGED <<run, history, disturbances>>

CallerStep(c) ==
    \/ Ask(c) \/ Decide(c) \/ Post(c) \/ Conflict(c) \/ PostUnanswered(c) \/ Note(c)
    \/ AskAgain(c) \/ CallFails(c) \/ Judge(c) \/ StaysInSetup(c) \/ FailureSeen(c)
    \/ Complete(c)

-----------------------------------------------------------------------------
(***************************************************************************)
(* The provisioner and the process.                                        *)
(***************************************************************************)

RunSucceeds(s) ==
    /\ run[s] = "pending"
    /\ run' = [run EXCEPT ![s] = "ready"]
    /\ done' = [done EXCEPT ![s] = TRUE]
    /\ UNCHANGED <<awaiting, record, passes, rerun, interrupted, caller, disturbances>>

RunFails(s) ==
    /\ run[s] = "pending"
    /\ Disturb
    /\ run' = [run EXCEPT ![s] = "failed"]
    /\ UNCHANGED <<awaiting, record, history, caller>>

\* A run started at the provisioner by somebody else.
ForeignRun(s) ==
    /\ run[s] # "pending"
    /\ Disturb
    /\ run' = [run EXCEPT ![s] = "pending"]
    /\ UNCHANGED <<awaiting, record, history, caller>>

\* The orchestrator restarts: awaitingReady and the calls are gone.
Restart ==
    /\ Disturb
    /\ awaiting' = [s \in Serials |-> FALSE]
    /\ pc' = [c \in Callers |-> "idle"]
    /\ on' = [c \in Callers |-> "none"]
    /\ view' = [c \in Callers |-> "none"]
    /\ known' = [c \in Callers |-> FALSE]
    /\ UNCHANGED <<run, record, history>>

Next ==
    \/ \E s \in Serials :
          \/ EnterSetup(s) \/ LeaveSetup(s)
          \/ RunSucceeds(s) \/ RunFails(s) \/ ForeignRun(s)
          \/ \E c \in Callers : Take(c, s)
    \/ \E c \in Callers : CallerStep(c)
    \/ Restart

Spec == Init /\ [][Next]_vars

\* The ticker asks again and again (strong fairness: a free caller is the
\* model's limit, not the code's), a call returns (the client has a timeout
\* of 120 s), and a run that does not fail ends.
Fairness ==
    /\ \A s \in Serials : SF_vars(\E c \in Callers : Take(c, s)) /\ WF_vars(RunSucceeds(s))
    /\ \A c \in Callers : WF_vars(CallerStep(c))

FairSpec == Spec /\ Fairness

-----------------------------------------------------------------------------
(***************************************************************************)
(* Properties.                                                             *)
(***************************************************************************)

\* A phone is declared ready only after a run has succeeded since it entered
\* setup, never on the strength of an old run: reprovision resets the phone
\* for a setup, and the setup happens.
ReadyIsEarned == \A s \in Serials : stage[s] = "ready" => done[s]

\* The same for the phones no operator has taken out of a setup half-way,
\* whatever is lost, fails or restarts.
EarnedUnlessInterrupted ==
    \A s \in Serials : stage[s] = "ready" => done[s] \/ interrupted[s]

\* While nothing is lost, fails or restarts, no setup provisions a phone
\* twice, not even one that was left and entered again.
ProvisionedOnce == disturbances = 0 => \A s \in Serials : ~rerun[s]

\* Is a caller about to start a run of s, by what it was told?
WillPost(s) ==
    \E c \in Callers : on[c] = s /\ (pc[c] = "post" \/ (pc[c] = "decide" /\ ShouldStart(c)))

\* Is a run of s awaited, or about to be?
Noted(s) == awaiting[s] \/ \E c \in Callers : on[c] = s /\ pc[c] = "note"

\* How far s is from being ready: a run nobody awaits is to end, one to be
\* started, it is to end, and to be seen.
Distance(s) ==
    IF stage[s] # "setup" THEN 0
    ELSE IF WillPost(s) \/ ~Noted(s) THEN IF run[s] = "pending" THEN 4 ELSE 3
    ELSE CASE run[s] = "ready" -> 1
           [] run[s] = "pending" -> 2
           [] OTHER -> 3

\* Only a lost call, a failed or foreign run or a restart sets a setup back:
\* otherwise each run started, and each that succeeds, brings it nearer to
\* ready.  So after the last of those at most one more run is started, however
\* stale the status a caller goes by.
SetupAdvances ==
    [][disturbances' = disturbances =>
          \A s \in Serials : stage[s] = "setup" =>
              /\ Distance(s)' <= Distance(s)
              /\ run'[s] # run[s] => Distance(s)' < Distance(s)]_vars

\* Finitely many lost calls, failed runs and restarts, wherever they strike,
\* do not keep a phone in setup for ever.
SetupEnds == \A s \in Serials : stage[s] = "setup" ~> stage[s] # "setup"
=============================================================================
