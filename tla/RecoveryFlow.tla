---------------------------- MODULE RecoveryFlow ----------------------------
(***************************************************************************)
(* A recovery, from the frozen screen to the report (RecoveryFlowService), *)
(* and the exchange with recovery-engine it goes through (RecoveryNATS).   *)
(* A flow looks at the phone's screen, asks the engine for a plan, has the *)
(* executor carry it out, taps Allow up to three times more while a        *)
(* permission dialog stays, checks the screen and reports the outcome.     *)
(*                                                                         *)
(* The exchange is publish/subscribe: the request goes to one subject, the *)
(* answer comes back on another that every flow subscribes to while it     *)
(* waits, and no answer says which request it is for.  Observer, executor, *)
(* engine and the phones' screens are external; of a screen the flow sees  *)
(* only whether a permission dialog is on it.  Nothing keeps two flows     *)
(* from working on the same phone.                                         *)
(***************************************************************************)
EXTENDS Naturals

CONSTANTS
    Phones,
    Flows,        \* RunRecovery calls that may be in progress at once
    MaxDialogs,   \* phone -> bound on the dialogs stacked on its screen
    MaxPlan,      \* bound on the taps of a plan
    MaxAsked      \* bound on the unanswered requests for one phone

ASSUME RecoveryAssumption ==
    /\ MaxDialogs \in [Phones -> Nat] /\ MaxPlan \in Nat /\ MaxAsked \in Nat
    /\ "none" \notin Phones

VARIABLES
    dialogs,    \* phone -> permission dialogs stacked on its screen
    asked,      \* phone -> requests the engine has not answered yet
    step, on,   \* flow -> next step, phone
    view,       \* flow -> is there a dialog on the screen it last looked at?
    inbox,      \* flow -> first answer since it subscribed
    plan,       \* flow -> phone the plan it carries out was made for
    taps,       \* flow -> extra taps made
    verdict,    \* flow -> success of the final check
    mixed,      \* flow -> could an answer for another phone have reached it?
    hindered,   \* flow -> has a call to observer or executor failed it?
    loose,      \* phones on which a failed call's taps may still be made
    overtaken,  \* flow -> has someone else tapped Allow since it saw a dialog?
    strays      \* phones on which Allow was tapped blindly (see TapAllow)

exchange == <<asked, inbox, mixed>>
vars == <<dialogs, exchange, step, on, view, plan, taps, verdict, hindered,
          loose, overtaken, strays>>
world == <<loose, overtaken, strays>>

\* Faulty variant of MaxTaps: one round too few.
TwoTaps == 2

\* Rounds of extra taps.
MaxTaps == 3

NoAnswer == [for |-> "none", ok |-> FALSE]
Answers == [for : Phones, ok : BOOLEAN]

Steps == {"idle", "look", "subscribe", "publish", "await", "execute",
          "relook", "retap", "check", "report"}

TypeOK ==
    /\ dialogs \in [Phones -> Nat]
    /\ asked \in [Phones -> Nat]
    /\ step \in [Flows -> Steps]
    /\ on \in [Flows -> Phones \union {"none"}]
    /\ view \in [Flows -> {"clear", "dialog", "unseen"}]
    /\ inbox \in [Flows -> Answers \union {NoAnswer}]
    /\ plan \in [Flows -> Phones \union {"none"}]
    /\ taps \in [Flows -> 0 .. MaxTaps]
    /\ verdict \in [Flows -> BOOLEAN]
    /\ mixed \in [Flows -> BOOLEAN]
    /\ hindered \in [Flows -> BOOLEAN]
    /\ loose \subseteq Phones
    /\ overtaken \in [Flows -> BOOLEAN]
    /\ strays \subseteq Phones

Init ==
    /\ dialogs \in [Phones -> UNION {0 .. MaxDialogs[p] : p \in Phones}]
    /\ \A p \in Phones : dialogs[p] <= MaxDialogs[p]
    /\ asked = [p \in Phones |-> 0]
    /\ step = [f \in Flows |-> "idle"]
    /\ on = [f \in Flows |-> "none"]
    /\ view = [f \in Flows |-> "unseen"]
    /\ inbox = [f \in Flows |-> NoAnswer]
    /\ plan = [f \in Flows |-> "none"]
    /\ taps = [f \in Flows |-> 0]
    /\ verdict = [f \in Flows |-> FALSE]
    /\ mixed = [f \in Flows |-> FALSE]
    /\ hindered = [f \in Flows |-> FALSE]
    /\ loose = {}
    /\ overtaken = [f \in Flows |-> FALSE]
    /\ strays = {}

Goto(f, next) == step' = [step EXCEPT ![f] = next]

\* The flow returns, with a plan or an error, and leaves its subscription.
Return(f) ==
    /\ Goto(f, "idle")
    /\ on' = [on EXCEPT ![f] = "none"]
    /\ view' = [view EXCEPT ![f] = "unseen"]
    /\ inbox' = [inbox EXCEPT ![f] = NoAnswer]
    /\ plan' = [plan EXCEPT ![f] = "none"]
    /\ taps' = [taps EXCEPT ![f] = 0]
    /\ verdict' = [verdict EXCEPT ![f] = FALSE]
    /\ mixed' = [mixed EXCEPT ![f] = FALSE]
    /\ hindered' = [hindered EXCEPT ![f] = FALSE]

\* Faulty variant of Subscribed: the subscription is opened first thing.
SubscribedEarly(f) == step[f] \in {"look", "subscribe", "publish", "await"}

Subscribed(f) == step[f] \in {"publish", "await"}

Screen(p) == IF dialogs[p] > 0 THEN "dialog" ELSE "clear"

\* DumpUI.
LookAt(f) ==
    /\ view' = [view EXCEPT ![f] = Screen(on[f])]
    /\ overtaken' = [overtaken EXCEPT ![f] = FALSE]

\* n dialogs go, or all there are.
Dismissed(p, n) == dialogs' = [dialogs EXCEPT ![p] = IF @ > n THEN @ - n ELSE 0]

\* Allow is tapped n times in one call, each time where f's last dump showed
\* it: the dialog on top goes, or, if none is left, whatever is there now takes
\* the tap.  It does so blindly if it is the call's first tap and nobody else
\* has tapped Allow since the dump.
TapAllow(f, n) ==
    /\ Dismissed(on[f], n)
    /\ strays' = IF dialogs[on[f]] > 0 \/ overtaken[f] THEN strays ELSE strays \union {on[f]}
    /\ overtaken' = [g \in Flows |-> 
                        g # f /\ (overtaken[g] \/ (view[g] = "dialog" /\ on[g] = on[f]))]

\* The taps of a failed call may be made all the same, later.
FailsLoosely(f) ==
    loose' = loose \union (IF view[f] = "dialog" THEN {on[f]} ELSE {})

Hindered(f) == hindered' = [hindered EXCEPT ![f] = TRUE]

-----------------------------------------------------------------------------
(***************************************************************************)
(* RunRecovery up to the plan.                                             *)
(***************************************************************************)

\* handlePaused, or POST /recovery/run, which looks at no lease and no flag.
Start(f, p) ==
    /\ step[f] = "idle"
    /\ asked[p] < MaxAsked
    /\ Goto(f, "look")
    /\ on' = [on EXCEPT ![f] = p]
    /\ UNCHANGED <<dialogs, exchange, view, plan, taps, verdict, hindered, world>>

\* CaptureScreen and the first DumpUI.
Look(f) ==
    /\ step[f] = "look"
    /\ LookAt(f)
    /\ Goto(f, "subscribe")
    /\ UNCHANGED <<dialogs, exchange, on, plan, taps, verdict, hindered, loose, strays>>

\* A failure of any call up to the plan ends the flow with an error.
GivesUp(f) ==
    /\ step[f] \in {"look", "subscribe", "publish"}
    /\ Return(f)
    /\ UNCHANGED <<dialogs, asked, world>>

\* From here on every message on af.recovery.response is queued for f.  Late
\* answers to earlier requests for other phones may be among them.
Subscribe(f) ==
    /\ step[f] = "subscribe"
    /\ Goto(f, "publish")
    /\ mixed' = [mixed EXCEPT ![f] = \E q \in Phones \ {on[f]} : asked[q] > 0]
    /\ UNCHANGED <<dialogs, asked, inbox, on, view, plan, taps, verdict, hindered, world>>

\* The request; flows subscribed for other phones may see its answer.
Publish(f) ==
    /\ step[f] = "publish"
    /\ Goto(f, "await")
    /\ asked' = [asked EXCEPT ![on[f]] = @ + 1]
    /\ mixed' = [g \in Flows |-> mixed[g] \/ (Subscribed(g) /\ on[g] # on[f])]
    /\ UNCHANGED <<dialogs, inbox, on, view, plan, taps, verdict, hindered, world>>

\* NextMsg hands over the first answer queued; the others go with the
\* subscription.
Receive(f) ==
    /\ step[f] = "await"
    /\ inbox[f] # NoAnswer
    /\ inbox[f].ok
    /\ Goto(f, "execute")
    /\ plan' = [plan EXCEPT ![f] = inbox[f].for]
    /\ UNCHANGED <<dialogs, exchange, on, view, taps, verdict, hindered, world>>

\* No plan in the answer, or one that cannot be read.
Refused(f) ==
    /\ step[f] = "await"
    /\ inbox[f] # NoAnswer
    /\ ~inbox[f].ok
    /\ Return(f)
    /\ UNCHANGED <<dialogs, asked, world>>

\* NextMsg times out: the request stays with the engine.
Expire(f) ==
    /\ step[f] = "await"
    /\ inbox[f] = NoAnswer
    /\ Return(f)
    /\ UNCHANGED <<dialogs, asked, world>>

-----------------------------------------------------------------------------
(***************************************************************************)
(* RunRecovery from the plan on.                                           *)
(***************************************************************************)

\* The plan's steps.  All its taps are moved to the Allow button of the first
\* dump, if it shows one, and may hit one dialog after the other; a "back" may
\* close one, too.  A plan need do neither.
Carried(f) ==
    \/ view[f] = "dialog" /\ \E n \in 1 .. MaxPlan : TapAllow(f, n)
    \/ UNCHANGED <<dialogs, overtaken, strays>>

Execute(f) ==
    /\ step[f] = "execute"
    /\ Carried(f)
    /\ Goto(f, "relook")
    /\ UNCHANGED <<exchange, on, view, plan, taps, verdict, hindered, loose>>

\* The executor fails, perhaps half-way.
ExecuteFails(f) ==
    /\ step[f] = "execute"
    /\ Carried(f)
    /\ FailsLoosely(f)
    /\ Return(f)
    /\ UNCHANGED asked

\* Faulty variant of Relook: the first dump is used again.
RelookNot(f) ==
    /\ step[f] = "relook"
    /\ taps[f] < MaxTaps
    /\ Goto(f, IF view[f] = "dialog" THEN "retap" ELSE "check")
    /\ UNCHANGED <<dialogs, exchange, on, view, plan, taps, verdict, hindered, world>>

\* Each round of the loop looks again,
Relook(f) ==
    /\ step[f] = "relook"
    /\ taps[f] < MaxTaps
    /\ LookAt(f)
    /\ Goto(f, IF dialogs[on[f]] > 0 THEN "retap" ELSE "check")
    /\ UNCHANGED <<dialogs, exchange, on, plan, taps, verdict, hindered, loose, strays>>

\* Faulty variant of Retap: the rounds are not counted.
RetapUncounted(f) ==
    /\ step[f] = "retap"
    /\ \/ TapAllow(f, 1) /\ UNCHANGED hindered
       \/ UNCHANGED <<dialogs, overtaken, strays>> /\ Hindered(f)
    /\ Goto(f, "relook")
    /\ UNCHANGED <<exchange, on, view, plan, taps, verdict, loose>>

\* and taps Allow (a tap may have no effect on the dialog).
Retap(f) ==
    /\ step[f] = "retap"
    /\ \/ TapAllow(f, 1) /\ UNCHANGED hindered
       \/ UNCHANGED <<dialogs, overtaken, strays>> /\ Hindered(f)
    /\ taps' = [taps EXCEPT ![f] = @ + 1]
    /\ Goto(f, "relook")
    /\ UNCHANGED <<exchange, on, view, plan, verdict, loose>>

\* A failed dump or a dialog without Allow ends the loop,
Break(f) ==
    /\ step[f] = "relook"
    /\ taps[f] < MaxTaps
    /\ Hindered(f)
    /\ Goto(f, "check")
    /\ UNCHANGED <<dialogs, exchange, on, view, plan, taps, verdict, world>>

\* and so does a failed tap, which may have reached the phone all the same.
RetapFails(f) ==
    /\ step[f] = "retap"
    /\ TapAllow(f, 1) \/ UNCHANGED <<dialogs, overtaken, strays>>
    /\ FailsLoosely(f)
    /\ Hindered(f)
    /\ Goto(f, "check")
    /\ UNCHANGED <<exchange, on, view, plan, taps, verdict>>

\* So does the count.
EnoughTaps(f) ==
    /\ step[f] = "relook"
    /\ taps[f] = MaxTaps
    /\ Goto(f, "check")
    /\ UNCHANGED <<dialogs, exchange, on, view, plan, taps, verdict, hindered, world>>

\* The last capture and dump: the flow has succeeded if the screen can be
\* captured and the dump, if there is one, shows no dialog.
Check(f) ==
    /\ step[f] = "check"
    /\ LookAt(f)
    /\ verdict' = [verdict EXCEPT ![f] = dialogs[on[f]] = 0]
    /\ Goto(f, "report")
    /\ UNCHANGED <<dialogs, exchange, on, plan, taps, hindered, loose, strays>>

\* Without a dump the capture decides.
CheckFails(f) ==
    /\ step[f] = "check"
    /\ Hindered(f)
    /\ \E captured \in BOOLEAN : verdict' = [verdict EXCEPT ![f] = captured]
    /\ Goto(f, "report")
    /\ UNCHANGED <<dialogs, exchange, on, view, plan, taps, world>>

\* The outcome is published and the plan returned, whatever the verdict.
Report(f) ==
    /\ step[f] = "report"
    /\ Return(f)
    /\ UNCHANGED <<dialogs, asked, world>>

FlowStep(f) ==
    \/ Look(f) \/ GivesUp(f) \/ Subscribe(f) \/ Publish(f)
    \/ Receive(f) \/ Refused(f) \/ Expire(f)
    \/ Execute(f) \/ ExecuteFails(f)
    \/ Relook(f) \/ Break(f) \/ Retap(f) \/ RetapFails(f) \/ EnoughTaps(f)
    \/ Check(f) \/ CheckFails(f) \/ Report(f)

-----------------------------------------------------------------------------
(***************************************************************************)
(* The engine.                                                             *)
(***************************************************************************)

\* An answer to a request for p reaches every flow subscribed at the moment;
\* it is the first for those that have none queued.
Answer(p, ok) ==
    /\ asked[p] > 0
    /\ asked' = [asked EXCEPT ![p] = @ - 1]
    /\ inbox' = [f \in Flows |->
                    IF Subscribed(f) /\ inbox[f] = NoAnswer
                    THEN [for |-> p, ok |-> ok] ELSE inbox[f]]
    /\ UNCHANGED <<dialogs, mixed, step, on, view, plan, taps, verdict, hindered, world>>

\* A request or its answer is lost.
Lose(p) ==
    /\ asked[p] > 0
    /\ asked' = [asked EXCEPT ![p] = @ - 1]
    /\ UNCHANGED <<dialogs, inbox, mixed, step, on, view, plan, taps, verdict, hindered, world>>

-----------------------------------------------------------------------------
(***************************************************************************)
(* The phones.                                                             *)
(***************************************************************************)

\* A tap of a failed call is made late and hits a dialog.
LateTap(p) ==
    /\ p \in loose
    /\ dialogs[p] > 0
    /\ Dismissed(p, 1)
    /\ overtaken' = [f \in Flows |->
                        overtaken[f] \/ (view[f] = "dialog" /\ on[f] = p)]
    /\ UNCHANGED <<exchange, step, on, view, plan, taps, verdict, hindered, loose, strays>>

Next ==
    \/ \E f \in Flows, p \in Phones : Start(f, p)
    \/ \E f \in Flows : FlowStep(f)
    \/ \E p \in Phones, ok \in BOOLEAN : Answer(p, ok)
    \/ \E p \in Phones : Lose(p) \/ LateTap(p)

Spec == Init /\ [][Next]_vars

\* The next call is the executor's: it has no deadline, and neither has the
\* context RunRecovery is given.
AtExecutor(f) == step[f] \in {"execute", "retap"}

\* Every other call of a flow returns: the observer's have a timeout, and so
\* has the wait for the answer.  The engine need not answer.
FairSpec == Spec /\ \A f \in Flows : WF_vars(~AtExecutor(f) /\ FlowStep(f))

-----------------------------------------------------------------------------
(***************************************************************************)
(* Properties.                                                             *)
(***************************************************************************)

\* The plan a flow carries out was made for the phone it carries it out on.
PlanForPhone == \A f \in Flows : plan[f] \in {"none", on[f]}

\* It is, for every flow during whose wait no request for another phone was
\* unanswered: refused, lost, late and repeated answers do no harm.
PlanForPhoneAlone == \A f \in Flows : plan[f] \in {"none", on[f]} \/ mixed[f]

\* Up to three stacked dialogs are cleared by a flow that no failed call and
\* no dead button hinders, even if the engine's plan taps nothing, and the
\* outcome it reports is a success.
StackCleared ==
    \A f \in Flows : step[f] = "report" /\ ~hindered[f] =>
        verdict[f] /\ dialogs[on[f]] = 0

\* No flow taps the place of a dialog that is gone unless another flow or a
\* late tap overtook it since it looked, or an earlier step of the same plan
\* did: each call to the executor goes by a dump made since the last.  Flows
\* may share the phone.
NoBlindTap == strays = {}

\* What a flow has left to do: two calls for each extra tap, and one for each
\* other step.
CallsLeft(f) ==
    CASE step[f] = "idle" -> 0
      [] step[f] = "report" -> 1
      [] step[f] = "check" -> 2
      [] step[f] = "retap" -> 2 * (MaxTaps - taps[f]) + 2
      [] step[f] = "relook" -> 2 * (MaxTaps - taps[f]) + 3
      [] step[f] = "execute" -> 2 * MaxTaps + 4
      [] step[f] = "await" -> 2 * MaxTaps + 5
      [] step[f] = "publish" -> 2 * MaxTaps + 6
      [] step[f] = "subscribe" -> 2 * MaxTaps + 7
      [] step[f] = "look" -> 2 * MaxTaps + 8

\* Whatever a flow does and whatever it finds, it has less to do after it, and
\* no other flow on the phone, answer or loss gives it more: RunRecovery makes
\* a bounded number of calls, also on a screen whose dialogs never go.
FlowsWindDown ==
    [][\A f \in Flows :
          /\ FlowStep(f) => CallsLeft(f)' < CallsLeft(f)
          /\ step[f] # "idle" => CallsLeft(f)' <= CallsLeft(f)]_vars

\* Every recovery returns unless an executor never answers it, whether or not
\* the engine does, and whatever other flows do to the phone.
FlowReturns == \A f \in Flows : []<>(step[f] = "idle") \/ <>[]AtExecutor(f)
=============================================================================
