--------------------------- MODULE RecoveryProofs ---------------------------
(***************************************************************************)
(* Proofs about RecoveryFlow: a plan goes to the phone it was made for     *)
(* unless requests for other phones were open meanwhile, no flow taps      *)
(* blindly where a dialog was, a stack of dialogs no higher than the       *)
(* rounds of extra taps is cleared, and every call of a flow leaves it     *)
(* less to do.                                                             *)
(***************************************************************************)
EXTENDS RecoveryFlow, TLAPS

\* A flow is on a phone from Start to Return, has no answer before it
\* subscribes, no plan before it has an answer, and taps left when it taps.
FlowsInOrder ==
    \A f \in Flows :
        /\ step[f] = "idle" <=> on[f] = "none"
        /\ step[f] \in {"idle", "look", "subscribe"} => inbox[f] = NoAnswer
        /\ step[f] \in {"idle", "look", "subscribe", "publish", "await"} => plan[f] = "none"
        /\ step[f] = "retap" => taps[f] < MaxTaps

\* What reaches a flow that waits while no request for another phone is open.
ExchangeApart ==
    \A f \in Flows : Subscribed(f) /\ ~mixed[f] =>
        /\ inbox[f] = NoAnswer \/ inbox[f].for = on[f]
        /\ \A q \in Phones : asked[q] > 0 => q = on[f]

PlanInv == TypeOK /\ FlowsInOrder /\ ExchangeApart /\ PlanForPhoneAlone

\* A flow about to tap has seen a dialog, and it is still there, unless someone
\* else has tapped Allow since.
DialogsStay ==
    \A f \in Flows :
        /\ step[f] = "retap" => view[f] = "dialog"
        /\ /\ step[f] \in {"subscribe", "publish", "await", "execute", "retap"}
           /\ view[f] = "dialog"
           => dialogs[on[f]] > 0 \/ overtaken[f]

TapInv == TypeOK /\ FlowsInOrder /\ DialogsStay /\ NoBlindTap
-----------------------------------------------------------------------------
\* Initially every variable has its type.
LEMMA InitTypes == Init => TypeOK
<1>1. UNION {0 .. MaxDialogs[p] : p \in Phones} \subseteq Nat
  BY RecoveryAssumption
<1>. QED BY <1>1 DEF Init, TypeOK, Steps, MaxTaps

\* A flow that is not idle has a phone.
LEMMA FlowOnPhone ==
    ASSUME TypeOK, FlowsInOrder, NEW f \in Flows, step[f] # "idle" PROVE on[f] \in Phones
BY DEF TypeOK, FlowsInOrder

\* Taps leave a count of dialogs, their strays are phones.
LEMMA TapKeepsTypes ==
    ASSUME TypeOK, NEW f \in Flows, on[f] \in Phones, NEW n \in Nat, TapAllow(f, n)
    PROVE  /\ dialogs' \in [Phones -> Nat] /\ strays' \subseteq Phones
           /\ overtaken' \in [Flows -> BOOLEAN]
<1>1. dialogs' \in [Phones -> Nat]
  BY DEF TypeOK, TapAllow, Dismissed
<1>2. strays' \subseteq Phones
  BY DEF TypeOK, TapAllow
<1>3. overtaken' \in [Flows -> BOOLEAN]
  BY Zenon DEF TapAllow
<1>. QED BY <1>1, <1>2, <1>3

\* So does a plan.
LEMMA PlanKeepsTypes ==
    ASSUME TypeOK, NEW f \in Flows, on[f] \in Phones, Carried(f)
    PROVE  /\ dialogs' \in [Phones -> Nat] /\ strays' \subseteq Phones
           /\ overtaken' \in [Flows -> BOOLEAN]
<1>1. \A n \in 1 .. MaxPlan : n \in Nat
  BY RecoveryAssumption
<1>. QED BY <1>1, TapKeepsTypes DEF TypeOK, Carried

\* A return leaves the flow's variables in their types.
LEMMA ReturnKeepsTypes ==
    ASSUME TypeOK, NEW f \in Flows, Return(f), asked' \in [Phones -> Nat],
           dialogs' \in [Phones -> Nat], strays' \subseteq Phones,
           loose' \subseteq Phones, overtaken' \in [Flows -> BOOLEAN]
    PROVE  TypeOK'
<1>1. /\ step' \in [Flows -> Steps] /\ on' \in [Flows -> Phones \union {"none"}]
      /\ view' \in [Flows -> {"clear", "dialog", "unseen"}] /\ plan' \in [Flows -> Phones \union {"none"}]
      /\ inbox' \in [Flows -> Answers \union {NoAnswer}] /\ taps' \in [Flows -> 0 .. MaxTaps]
  BY DEF TypeOK, Return, Goto, Steps, MaxTaps
<1>2. verdict' \in [Flows -> BOOLEAN] /\ mixed' \in [Flows -> BOOLEAN] /\ hindered' \in [Flows -> BOOLEAN]
  BY DEF TypeOK, Return
<1>. QED BY <1>1, <1>2 DEF TypeOK

\* Every step keeps the variables in their types.
LEMMA TypeKept == ASSUME TypeOK, FlowsInOrder, [Next]_vars PROVE TypeOK'
<1>1. CASE UNCHANGED vars
  BY <1>1 DEF vars, exchange, world, TypeOK
<1>2. ASSUME NEW f \in Flows, NEW p \in Phones, Start(f, p) PROVE TypeOK'
  BY <1>2 DEF Start, Goto, exchange, world, TypeOK, Steps
<1>3. ASSUME NEW f \in Flows, FlowStep(f) PROVE TypeOK'
  <2>1. step[f] # "idle"
    BY <1>3 DEF FlowStep, Look, GivesUp, Subscribe, Publish, Receive, Refused, Expire, Execute,
       ExecuteFails, Relook, Retap, RetapFails, Break, EnoughTaps, Check, CheckFails, Report
  <2>2. on[f] \in Phones
    BY <2>1, FlowOnPhone
  <2>3. CASE Look(f) \/ Relook(f)
    BY <2>2, <2>3 DEF Look, Relook, LookAt, Screen, Goto, exchange, TypeOK, Steps
  <2>4. CASE GivesUp(f) \/ Refused(f) \/ Expire(f) \/ Report(f)
    <3>1. /\ Return(f) /\ asked' \in [Phones -> Nat] /\ dialogs' \in [Phones -> Nat]
          /\ strays' \subseteq Phones /\ loose' \subseteq Phones /\ overtaken' \in [Flows -> BOOLEAN]
      BY <2>4 DEF GivesUp, Refused, Expire, Report, world, TypeOK
    <3>. QED BY <3>1, ReturnKeepsTypes
  <2>5. CASE Subscribe(f)
    BY <2>5 DEF Subscribe, Goto, world, TypeOK, Steps
  <2>6. CASE Publish(f)
    <3>1. asked' \in [Phones -> Nat]
      BY <2>2, <2>6 DEF Publish, TypeOK
    <3>2. mixed' \in [Flows -> BOOLEAN]
      BY <2>6, Zenon DEF Publish
    <3>. QED BY <2>6, <3>1, <3>2 DEF Publish, Goto, world, TypeOK, Steps
  <2>7. CASE Receive(f)
    <3>1. inbox[f] \in Answers
      BY <2>7 DEF Receive, TypeOK
    <3>2. inbox[f].for \in Phones
      BY <3>1 DEF Answers
    <3>. QED BY <2>7, <3>2 DEF Receive, Goto, exchange, world, TypeOK, Steps
  <2>8. CASE Execute(f)
    <3>1. dialogs' \in [Phones -> Nat] /\ strays' \subseteq Phones /\ overtaken' \in [Flows -> BOOLEAN]
      BY <2>2, <2>8, PlanKeepsTypes DEF Execute
    <3>. QED BY <2>8, <3>1 DEF Execute, Goto, exchange, TypeOK, Steps
  <2>9. CASE ExecuteFails(f)
    <3>1. dialogs' \in [Phones -> Nat] /\ strays' \subseteq Phones /\ overtaken' \in [Flows -> BOOLEAN]
      BY <2>2, <2>9, PlanKeepsTypes DEF ExecuteFails
    <3>. QED BY <2>2, <2>9, <3>1, ReturnKeepsTypes DEF ExecuteFails, FailsLoosely, TypeOK
  <2>10. CASE Retap(f)
    <3>1. dialogs' \in [Phones -> Nat] /\ strays' \subseteq Phones /\ overtaken' \in [Flows -> BOOLEAN]
      BY <2>2, <2>10, TapKeepsTypes DEF Retap, TypeOK
    <3>2. taps[f] + 1 \in 0 .. MaxTaps
      BY <2>10 DEF Retap, TypeOK, FlowsInOrder, MaxTaps
    <3>. QED BY <2>10, <3>1, <3>2 DEF Retap, Hindered, Goto, exchange, TypeOK, Steps
  <2>11. CASE Break(f) \/ EnoughTaps(f)
    BY <2>11 DEF Break, EnoughTaps, Hindered, Goto, exchange, world, TypeOK, Steps
  <2>14. CASE RetapFails(f)
    <3>1. dialogs' \in [Phones -> Nat] /\ strays' \subseteq Phones /\ overtaken' \in [Flows -> BOOLEAN]
      BY <2>2, <2>14, TapKeepsTypes DEF RetapFails, TypeOK
    <3>. QED BY <2>2, <2>14, <3>1 DEF RetapFails, FailsLoosely, Hindered, Goto, exchange, TypeOK, Steps
  <2>12. CASE Check(f)
    BY <2>2, <2>12 DEF Check, LookAt, Screen, Goto, exchange, TypeOK, Steps
  <2>13. CASE CheckFails(f)
    BY <2>13 DEF CheckFails, Hindered, Goto, exchange, world, TypeOK, Steps
  <2>. QED BY <1>3, <2>3, <2>4, <2>5, <2>6, <2>7, <2>8, <2>9, <2>10, <2>11, <2>12, <2>13, <2>14 DEF FlowStep
<1>4. ASSUME NEW p \in Phones, NEW ok \in BOOLEAN, Answer(p, ok) PROVE TypeOK'
  <2>1. asked' \in [Phones -> Nat]
    BY <1>4 DEF Answer, TypeOK
  <2>2. [for |-> p, ok |-> ok] \in Answers
    BY DEF Answers
  <2>3. inbox' \in [Flows -> Answers \union {NoAnswer}]
    BY <1>4, <2>2 DEF Answer, TypeOK
  <2>. QED BY <1>4, <2>1, <2>3 DEF Answer, world, TypeOK
<1>5. ASSUME NEW p \in Phones, Lose(p) PROVE TypeOK'
  BY <1>5 DEF Lose, world, TypeOK
<1>6. ASSUME NEW p \in Phones, LateTap(p) PROVE TypeOK'
  <2>1. overtaken' \in [Flows -> BOOLEAN]
    BY <1>6, Zenon DEF LateTap
  <2>. QED BY <1>6, <2>1 DEF LateTap, Dismissed, exchange, TypeOK
<1>. QED BY <1>1, <1>2, <1>3, <1>4, <1>5, <1>6 DEF Next

\* Every step keeps the flows in order.
LEMMA OrderKept == ASSUME TypeOK, FlowsInOrder, [Next]_vars PROVE FlowsInOrder'
<1> USE DEF TypeOK, FlowsInOrder
<1>1. CASE UNCHANGED vars
  BY <1>1 DEF vars, exchange
<1>2. ASSUME NEW f \in Flows, NEW p \in Phones, Start(f, p) PROVE FlowsInOrder'
  <2>1. p # "none"
    BY RecoveryAssumption
  <2>. QED BY <1>2, <2>1 DEF Start, Goto, exchange
<1>3. ASSUME NEW f \in Flows, FlowStep(f) PROVE FlowsInOrder'
  <2>1. CASE Look(f) \/ Subscribe(f) \/ Publish(f)
    BY <2>1 DEF Look, Subscribe, Publish, Goto, exchange
  <2>2. CASE GivesUp(f) \/ Refused(f) \/ Expire(f) \/ Report(f) \/ ExecuteFails(f)
    BY <2>2 DEF GivesUp, Refused, Expire, Report, ExecuteFails, Return, Goto
  <2>3. CASE Receive(f)
    BY <2>3 DEF Receive, Goto, exchange
  <2>4. CASE Execute(f)
    BY <2>4 DEF Execute, Goto, exchange
  <2>5. CASE Relook(f)
    BY <2>5 DEF Relook, Goto, exchange
  <2>6. CASE Retap(f)
    BY <2>6 DEF Retap, Goto, exchange
  <2>7. CASE Break(f) \/ EnoughTaps(f) \/ RetapFails(f)
    BY <2>7 DEF Break, EnoughTaps, RetapFails, Goto, exchange
  <2>8. CASE Check(f) \/ CheckFails(f)
    BY <2>8 DEF Check, CheckFails, Goto, exchange
  <2>. QED BY <1>3, <2>1, <2>2, <2>3, <2>4, <2>5, <2>6, <2>7, <2>8 DEF FlowStep
<1>4. ASSUME NEW p \in Phones, NEW ok \in BOOLEAN, Answer(p, ok) PROVE FlowsInOrder'
  BY <1>4 DEF Answer, Subscribed
<1>5. ASSUME NEW p \in Phones, Lose(p) PROVE FlowsInOrder'
  BY <1>5 DEF Lose
<1>6. ASSUME NEW p \in Phones, LateTap(p) PROVE FlowsInOrder'
  BY <1>6 DEF LateTap, exchange
<1>. QED BY <1>1, <1>2, <1>3, <1>4, <1>5, <1>6 DEF Next

\* Every step keeps the exchange and the plans apart.
LEMMA PlanKept ==
    ASSUME PlanInv, [Next]_vars PROVE ExchangeApart' /\ PlanForPhoneAlone'
<1> USE DEF PlanInv, TypeOK, FlowsInOrder, ExchangeApart, PlanForPhoneAlone, Subscribed
<1> DEFINE Kept == ExchangeApart' /\ PlanForPhoneAlone'
<1>1. CASE UNCHANGED vars
  BY <1>1 DEF vars, exchange
<1>2. ASSUME NEW f \in Flows, NEW p \in Phones, Start(f, p) PROVE Kept
  BY <1>2 DEF Start, Goto, exchange
<1>3. ASSUME NEW f \in Flows, FlowStep(f) PROVE Kept
  <2>1. CASE Look(f)
    BY <2>1 DEF Look, Goto, exchange
  <2>2. CASE Subscribe(f)
    BY <2>2 DEF Subscribe, Goto
  <2>3. CASE Publish(f)
    <3>1. on[f] \in Phones
      BY <2>3 DEF Publish
    <3>2. \A q \in Phones : asked'[q] > 0 => asked[q] > 0 \/ q = on[f]
      BY <2>3, <3>1 DEF Publish
    <3>3. ASSUME NEW g \in Flows, Subscribed(g)', ~mixed'[g]
          PROVE  /\ inbox'[g] = NoAnswer \/ inbox'[g].for = on'[g]
                 /\ \A q \in Phones : asked'[q] > 0 => q = on'[g]
      <4>1. Subscribed(g) /\ ~mixed[g] /\ on[g] = on[f]
        BY <2>3, <3>3 DEF Publish, Goto
      <4>. QED BY <2>3, <3>2, <4>1 DEF Publish
    <3>4. PlanForPhoneAlone'
      BY <2>3 DEF Publish
    <3>. QED BY <3>3, <3>4
  <2>4. CASE GivesUp(f) \/ Refused(f) \/ Expire(f) \/ Report(f) \/ ExecuteFails(f)
    BY <2>4 DEF GivesUp, Refused, Expire, Report, ExecuteFails, Return, Goto
  <2>5. CASE Receive(f)
    BY <2>5 DEF Receive, Goto, exchange
  <2>6. CASE Execute(f)
    BY <2>6 DEF Execute, Goto, exchange
  <2>7. CASE Relook(f) \/ Retap(f)
    BY <2>7 DEF Relook, Retap, Goto, exchange
  <2>8. CASE Break(f) \/ EnoughTaps(f) \/ RetapFails(f)
    BY <2>8 DEF Break, EnoughTaps, RetapFails, Goto, exchange
  <2>9. CASE Check(f) \/ CheckFails(f)
    BY <2>9 DEF Check, CheckFails, Goto, exchange
  <2>. QED BY <1>3, <2>1, <2>2, <2>3, <2>4, <2>5, <2>6, <2>7, <2>8, <2>9 DEF FlowStep
<1>4. ASSUME NEW p \in Phones, NEW ok \in BOOLEAN, Answer(p, ok) PROVE Kept
  <2>1. \A q \in Phones : asked'[q] > 0 => asked[q] > 0
    BY <1>4 DEF Answer
  <2>2. ASSUME NEW g \in Flows, Subscribed(g), ~mixed[g]
        PROVE  inbox'[g] = NoAnswer \/ inbox'[g].for = on[g]
    <3>1. p = on[g]
      BY <1>4, <2>2 DEF Answer
    <3>. QED BY <1>4, <2>2, <3>1 DEF Answer
  <2>. QED BY <1>4, <2>1, <2>2 DEF Answer
<1>5. ASSUME NEW p \in Phones, Lose(p) PROVE Kept
  BY <1>5 DEF Lose
<1>6. ASSUME NEW p \in Phones, LateTap(p) PROVE Kept
  BY <1>6 DEF LateTap, exchange
<1>. QED BY <1>1, <1>2, <1>3, <1>4, <1>5, <1>6 DEF Next

\* A flow during whose wait no request for another phone was open carries
\* out the plan made for its phone, for any number of phones and flows and
\* whatever is refused, lost or late.
THEOREM PlansAreForTheirPhones == Spec => []PlanForPhoneAlone
<1>1. Init => PlanInv
  BY InitTypes DEF Init, PlanInv, FlowsInOrder, ExchangeApart, PlanForPhoneAlone, Subscribed
<1>2. PlanInv /\ [Next]_vars => PlanInv'
  BY TypeKept, OrderKept, PlanKept DEF PlanInv
<1>3. PlanInv => PlanForPhoneAlone
  BY DEF PlanInv
<1>. QED BY <1>1, <1>2, <1>3, PTL DEF Spec
-----------------------------------------------------------------------------
\* What the tap invariant says beside types and order.
TapsSound == DialogsStay /\ NoBlindTap

\* A step of a flow that touches neither the screens nor what it knows of them
\* keeps it sound, if it goes on to a step about which nothing new is claimed.
LEMMA QuietKeepsTaps ==
    ASSUME TapInv, NEW f \in Flows, UNCHANGED <<dialogs, on, view, overtaken, strays>>,
           NEW next, step' = [step EXCEPT ![f] = next],
           next # "retap",
           next \in {"subscribe", "publish", "await", "execute"}
               => step[f] \in {"subscribe", "publish", "await", "execute"}
    PROVE  TapsSound'
BY DEF TapInv, TapsSound, TypeOK, DialogsStay, NoBlindTap

\* A return keeps it sound.
LEMMA ReturnKeepsTaps ==
    ASSUME TapInv, NEW f \in Flows, Return(f), UNCHANGED <<dialogs, overtaken, strays>>
    PROVE  TapsSound'
BY DEF TapInv, TapsSound, TypeOK, DialogsStay, NoBlindTap, Return, Goto

\* When dialogs go on one phone only, and every flow there that has seen one
\* is overtaken, the others' knowledge stays sound.
LEMMA OthersKeepTaps ==
    ASSUME TapInv, NEW p \in Phones, NEW g \in Flows,
           step'[g] = step[g], on'[g] = on[g], view'[g] = view[g],
           \A q \in Phones \ {p} : dialogs'[q] = dialogs[q],
           overtaken'[g] = (overtaken[g] \/ (view[g] = "dialog" /\ on[g] = p))
    PROVE  /\ step'[g] = "retap" => view'[g] = "dialog"
           /\ /\ step'[g] \in {"subscribe", "publish", "await", "execute", "retap"}
              /\ view'[g] = "dialog"
              => dialogs'[on'[g]] > 0 \/ overtaken'[g]
<1> USE DEF TapInv, DialogsStay
<1>1. step'[g] = "retap" => view'[g] = "dialog"
  OBVIOUS
<1>2. ASSUME step[g] \in {"subscribe", "publish", "await", "execute", "retap"}, view[g] = "dialog"
      PROVE  dialogs'[on'[g]] > 0 \/ overtaken'[g]
  <2>1. on[g] \in Phones
    BY <1>2, FlowOnPhone
  <2>2. CASE on[g] = p
    BY <1>2, <2>2, Zenon
  <2>3. CASE on[g] # p
    <3>1. dialogs'[on'[g]] = dialogs[on[g]]
      BY <2>1, <2>3
    <3>2. dialogs[on[g]] > 0 \/ overtaken[g]
      BY <1>2
    <3>3. overtaken[g] => overtaken'[g]
      BY Zenon
    <3>. QED BY <3>1, <3>2, <3>3
  <2>. QED BY <2>2, <2>3
<1>. QED BY <1>1, <1>2

\* The taps of a flow that has seen a dialog and is to look again or return
\* keep it sound.
LEMMA TapKeepsTaps ==
    ASSUME TapInv, NEW f \in Flows, on[f] \in Phones, NEW n \in Nat, TapAllow(f, n),
           dialogs[on[f]] > 0 \/ overtaken[f],
           NEW next, next \in {"relook", "check", "idle"}, step' = [step EXCEPT ![f] = next],
           \A g \in Flows \ {f} : on'[g] = on[g] /\ view'[g] = view[g]
    PROVE  TapsSound'
<1> USE DEF TapInv, TypeOK
<1>1. NoBlindTap'
  BY DEF TapAllow, NoBlindTap
<1>2. \A q \in Phones \ {on[f]} : dialogs'[q] = dialogs[q]
  BY DEF TapAllow, Dismissed
<1>3. ASSUME NEW g \in Flows
      PROVE  /\ step'[g] = "retap" => view'[g] = "dialog"
             /\ /\ step'[g] \in {"subscribe", "publish", "await", "execute", "retap"}
                /\ view'[g] = "dialog"
                => dialogs'[on'[g]] > 0 \/ overtaken'[g]
  <2>1. CASE g = f
    BY <2>1
  <2>2. CASE g # f
    <3>1. step'[g] = step[g] /\ on'[g] = on[g] /\ view'[g] = view[g]
      BY <2>2
    <3>2. overtaken'[g] = (overtaken[g] \/ (view[g] = "dialog" /\ on[g] = on[f]))
      BY <2>2, Zenon DEF TapAllow
    <3>. QED BY <1>2, <3>1, <3>2, OthersKeepTaps
  <2>. QED BY <2>1, <2>2
<1>. QED BY <1>1, <1>3 DEF TapsSound, DialogsStay

\* A plan keeps it sound.
LEMMA PlanKeepsTaps ==
    ASSUME TapInv, NEW f \in Flows, on[f] \in Phones, step[f] = "execute", Carried(f),
           NEW next, next \in {"relook", "idle"}, step' = [step EXCEPT ![f] = next],
           \A g \in Flows \ {f} : on'[g] = on[g] /\ view'[g] = view[g]
    PROVE  TapsSound'
<1>1. CASE UNCHANGED <<dialogs, overtaken, strays>>
  BY <1>1 DEF TapInv, TapsSound, TypeOK, DialogsStay, NoBlindTap
<1>2. ASSUME view[f] = "dialog", NEW n \in 1 .. MaxPlan, TapAllow(f, n)
      PROVE  TapsSound'
  <2>1. n \in Nat
    BY RecoveryAssumption
  <2>2. dialogs[on[f]] > 0 \/ overtaken[f]
    BY <1>2 DEF TapInv, DialogsStay
  <2>. QED BY <1>2, <2>1, <2>2, TapKeepsTaps
<1>. QED BY <1>1, <1>2 DEF Carried

\* A look tells a flow how things are.
LEMMA LookKeepsTaps ==
    ASSUME TapInv, NEW f \in Flows, LookAt(f), UNCHANGED <<dialogs, on, strays>>,
           NEW next, step' = [step EXCEPT ![f] = next],
           next = "retap" => dialogs[on[f]] > 0
    PROVE  TapsSound'
<1> USE DEF TapInv, TypeOK, DialogsStay, NoBlindTap
<1>1. view'[f] = "dialog" <=> dialogs[on[f]] > 0
  BY DEF LookAt, Screen
<1>2. \A g \in Flows \ {f} : /\ view'[g] = view[g] /\ overtaken'[g] = overtaken[g]
                              /\ step'[g] = step[g]
  BY DEF LookAt
<1>. QED BY <1>1, <1>2 DEF TapsSound

\* Every step keeps it sound.
LEMMA TapKept == ASSUME TapInv, [Next]_vars PROVE TapsSound'
<1> USE DEF TapInv
<1>1. CASE UNCHANGED vars
  BY <1>1 DEF vars, exchange, TapsSound, DialogsStay, NoBlindTap
<1>2. ASSUME NEW f \in Flows, NEW p \in Phones, Start(f, p) PROVE TapsSound'
  BY <1>2 DEF Start, Goto, exchange, world, TapsSound, TypeOK, DialogsStay, NoBlindTap
<1>3. ASSUME NEW f \in Flows, FlowStep(f) PROVE TapsSound'
  <2>1. on[f] \in Phones
    <3>1. step[f] # "idle"
      BY <1>3 DEF FlowStep, Look, GivesUp, Subscribe, Publish, Receive, Refused, Expire, Execute,
         ExecuteFails, Relook, Retap, RetapFails, Break, EnoughTaps, Check, CheckFails, Report
    <3>. QED BY <3>1, FlowOnPhone
  <2>2. CASE Look(f)
    BY <2>2, LookKeepsTaps DEF Look, Goto
  <2>3. CASE GivesUp(f) \/ Refused(f) \/ Expire(f) \/ Report(f)
    BY <2>3, ReturnKeepsTaps DEF GivesUp, Refused, Expire, Report, world
  <2>4. CASE Subscribe(f)
    BY <2>4, QuietKeepsTaps DEF Subscribe, Goto, world
  <2>5. CASE Publish(f)
    BY <2>5, QuietKeepsTaps DEF Publish, Goto, world
  <2>6. CASE Receive(f)
    BY <2>6, QuietKeepsTaps DEF Receive, Goto, world
  <2>7. CASE Execute(f)
    BY <2>1, <2>7, PlanKeepsTaps DEF Execute, Goto
  <2>8. CASE ExecuteFails(f)
    <3>1. /\ step' = [step EXCEPT ![f] = "idle"]
          /\ \A g \in Flows \ {f} : on'[g] = on[g] /\ view'[g] = view[g]
      BY <2>8 DEF ExecuteFails, Return, Goto, TypeOK
    <3>. QED BY <2>1, <2>8, <3>1, PlanKeepsTaps DEF ExecuteFails
  <2>9. CASE Relook(f)
    <3>1. CASE dialogs[on[f]] > 0
      BY <2>9, <3>1, LookKeepsTaps DEF Relook, Goto
    <3>2. CASE ~(dialogs[on[f]] > 0)
      BY <2>9, <3>2, LookKeepsTaps DEF Relook, Goto
    <3>. QED BY <3>1, <3>2
  <2>10. CASE Retap(f) \/ RetapFails(f)
    <3>1. dialogs[on[f]] > 0 \/ overtaken[f]
      BY <2>10 DEF Retap, RetapFails, DialogsStay
    <3>2. CASE TapAllow(f, 1)
      BY <2>1, <2>10, <3>1, <3>2, TapKeepsTaps DEF Retap, RetapFails, Goto
    <3>3. CASE UNCHANGED <<dialogs, overtaken, strays>>
      BY <2>10, <3>3, QuietKeepsTaps DEF Retap, RetapFails, Goto
    <3>. QED BY <2>10, <3>2, <3>3 DEF Retap, RetapFails
  <2>11. CASE Break(f) \/ EnoughTaps(f)
    BY <2>11, QuietKeepsTaps DEF Break, EnoughTaps, Goto, world
  <2>12. CASE Check(f)
    BY <2>12, LookKeepsTaps DEF Check, Goto
  <2>13. CASE CheckFails(f)
    BY <2>13, QuietKeepsTaps DEF CheckFails, Goto, world
  <2>. QED BY <1>3, <2>2, <2>3, <2>4, <2>5, <2>6, <2>7, <2>8, <2>9, <2>10, <2>11, <2>12, <2>13 DEF FlowStep
<1>4. ASSUME NEW p \in Phones, NEW ok \in BOOLEAN, Answer(p, ok) PROVE TapsSound'
  BY <1>4 DEF Answer, world, TapsSound, DialogsStay, NoBlindTap
<1>5. ASSUME NEW p \in Phones, Lose(p) PROVE TapsSound'
  BY <1>5 DEF Lose, world, TapsSound, DialogsStay, NoBlindTap
<1>6. ASSUME NEW p \in Phones, LateTap(p) PROVE TapsSound'
  <2>1. \A q \in Phones \ {p} : dialogs'[q] = dialogs[q]
    BY <1>6 DEF LateTap, Dismissed, TypeOK
  <2>2. ASSUME NEW g \in Flows
        PROVE  /\ step'[g] = step[g] /\ on'[g] = on[g] /\ view'[g] = view[g]
               /\ overtaken'[g] = (overtaken[g] \/ (view[g] = "dialog" /\ on[g] = p))
    BY <1>6, Zenon DEF LateTap
  <2>3. DialogsStay'
    BY <2>1, <2>2, OthersKeepTaps DEF DialogsStay
  <2>. QED BY <1>6, <2>3 DEF LateTap, TapsSound, NoBlindTap
<1>. QED BY <1>1, <1>2, <1>3, <1>4, <1>5, <1>6 DEF Next

\* However many flows share the phone, and however many taps a plan has, no
\* flow taps the place of a dialog that is gone unless another flow or a late
\* tap has overtaken it since it looked, or an earlier step of the plan has.
THEOREM TapsHitDialogs == Spec => []NoBlindTap
<1>1. Init => TapInv
  BY InitTypes DEF Init, TapInv, FlowsInOrder, DialogsStay, NoBlindTap
<1>2. TapInv /\ [Next]_vars => TapInv'
  <2>1. SUFFICES ASSUME TapInv, [Next]_vars PROVE TapInv'
    OBVIOUS
  <2>2. TypeOK' /\ FlowsInOrder'
    BY <2>1, TypeKept, OrderKept DEF TapInv
  <2>3. TapsSound'
    BY <2>1, TapKept
  <2>. QED BY <2>2, <2>3 DEF TapInv, TapsSound
<1>3. TapInv => NoBlindTap
  BY DEF TapInv
<1>. QED BY <1>1, <1>2, <1>3, PTL DEF Spec
-----------------------------------------------------------------------------
\* Stacks stay as low as they were; a flow that nothing hinders has taps left
\* for the dialogs left, and none is left when it checks the screen.
StacksFall ==
    /\ \A p \in Phones : dialogs[p] <= MaxTaps
    /\ \A f \in Flows :
          /\ step[f] \in {"idle", "look", "subscribe", "publish", "await", "execute"}
                 => taps[f] = 0
          /\ ~hindered[f] /\ step[f] \in {"relook", "retap"}
                 => dialogs[on[f]] + taps[f] <= MaxTaps
          /\ ~hindered[f] /\ step[f] \in {"check", "report"} => dialogs[on[f]] = 0
          /\ ~hindered[f] /\ step[f] = "report" => verdict[f]

StackInv == TypeOK /\ FlowsInOrder /\ StacksFall

\* Taps leave no phone with more dialogs, and one tap takes one away.
LEMMA TapLowers ==
    ASSUME TypeOK, NEW p \in Phones, NEW n \in Nat, Dismissed(p, n)
    PROVE  /\ \A q \in Phones : dialogs'[q] <= dialogs[q]
           /\ dialogs[p] > 0 /\ n = 1 => dialogs'[p] = dialogs[p] - 1
           /\ dialogs[p] = 0 => dialogs'[p] = 0
BY DEF TypeOK, Dismissed

\* Neither does a plan.
LEMMA PlanLowers ==
    ASSUME TypeOK, NEW f \in Flows, on[f] \in Phones, Carried(f)
    PROVE  \A q \in Phones : dialogs'[q] <= dialogs[q]
<1>1. \A n \in 1 .. MaxPlan : n \in Nat
  BY RecoveryAssumption
<1>2. CASE UNCHANGED <<dialogs, overtaken, strays>>
  BY <1>2 DEF TypeOK
<1>. QED BY <1>1, <1>2, TapLowers DEF Carried, TapAllow

\* While dialogs only go, a flow that does not move keeps its part of the
\* invariant; so the one that moves is all there is to look at.
LEMMA OthersKeepStacks ==
    ASSUME StackInv, TypeOK', NEW f \in Flows,
           \A q \in Phones : dialogs'[q] <= dialogs[q],
           \A g \in Flows \ {f} : /\ step'[g] = step[g] /\ on'[g] = on[g] /\ taps'[g] = taps[g]
                                  /\ hindered'[g] = hindered[g] /\ verdict'[g] = verdict[g],
           step'[f] \in {"idle", "look", "subscribe", "publish", "await", "execute"} => taps'[f] = 0,
           ~hindered'[f] /\ step'[f] \in {"relook", "retap"} => dialogs'[on'[f]] + taps'[f] <= MaxTaps,
           ~hindered'[f] /\ step'[f] \in {"check", "report"} => dialogs'[on'[f]] = 0,
           ~hindered'[f] /\ step'[f] = "report" => verdict'[f]
    PROVE  StacksFall'
<1> USE DEF StackInv, StacksFall, TypeOK, MaxTaps
<1>1. \A p \in Phones : dialogs'[p] <= MaxTaps
  OBVIOUS
<1>2. ASSUME NEW g \in Flows, g # f, step[g] # "idle"
      PROVE  dialogs'[on[g]] <= dialogs[on[g]] /\ dialogs'[on[g]] \in Nat /\ dialogs[on[g]] \in Nat
  BY <1>2, FlowOnPhone
<1>3. ASSUME NEW g \in Flows
      PROVE  /\ step'[g] \in {"idle", "look", "subscribe", "publish", "await", "execute"}
                    => taps'[g] = 0
             /\ ~hindered'[g] /\ step'[g] \in {"relook", "retap"}
                    => dialogs'[on'[g]] + taps'[g] <= MaxTaps
             /\ ~hindered'[g] /\ step'[g] \in {"check", "report"} => dialogs'[on'[g]] = 0
             /\ ~hindered'[g] /\ step'[g] = "report" => verdict'[g]
  <2>1. CASE g = f
    BY <2>1
  <2>2. CASE g # f
    BY <1>2, <2>2
  <2>. QED BY <2>1, <2>2
<1>. QED BY <1>1, <1>3

\* Every step keeps the stacks falling.
LEMMA StacksKept == ASSUME StackInv, [Next]_vars PROVE StacksFall'
<1> USE DEF StackInv
<1>0. TypeOK'
  BY TypeKept
<1>1. CASE UNCHANGED vars
  BY <1>1 DEF vars, exchange, StacksFall
<1>2. ASSUME NEW f \in Flows, NEW p \in Phones, Start(f, p) PROVE StacksFall'
  BY <1>0, <1>2, OthersKeepStacks DEF Start, Goto, TypeOK, StacksFall
<1>3. ASSUME NEW f \in Flows, FlowStep(f) PROVE StacksFall'
  <2>1. on[f] \in Phones
    <3>1. step[f] # "idle"
      BY <1>3 DEF FlowStep, Look, GivesUp, Subscribe, Publish, Receive, Refused, Expire, Execute,
         ExecuteFails, Relook, Retap, RetapFails, Break, EnoughTaps, Check, CheckFails, Report
    <3>. QED BY <3>1, FlowOnPhone
  <2>2. CASE Look(f) \/ Subscribe(f) \/ Publish(f) \/ Receive(f)
    BY <1>0, <2>2, OthersKeepStacks DEF Look, Subscribe, Publish, Receive, Goto, TypeOK, StacksFall
  <2>3. CASE GivesUp(f) \/ Refused(f) \/ Expire(f) \/ Report(f) \/ ExecuteFails(f)
    <3>1. Return(f) /\ \A q \in Phones : dialogs'[q] <= dialogs[q]
      BY <2>1, <2>3, PlanLowers DEF GivesUp, Refused, Expire, Report, ExecuteFails, TypeOK
    <3>2. /\ step'[f] = "idle" /\ taps'[f] = 0
          /\ \A g \in Flows \ {f} :
                /\ step'[g] = step[g] /\ on'[g] = on[g] /\ taps'[g] = taps[g]
                /\ hindered'[g] = hindered[g] /\ verdict'[g] = verdict[g]
      BY <3>1 DEF Return, Goto, TypeOK
    <3>. QED BY <1>0, <3>1, <3>2, OthersKeepStacks
  <2>4. CASE Execute(f)
    <3>1. \A q \in Phones : dialogs'[q] <= dialogs[q]
      BY <2>1, <2>4, PlanLowers DEF Execute
    <3>2. dialogs'[on[f]] <= MaxTaps /\ taps[f] = 0
      BY <1>0, <2>1, <2>4, <3>1 DEF Execute, StacksFall, TypeOK, MaxTaps
    <3>. QED BY <1>0, <2>1, <2>4, <3>1, <3>2, OthersKeepStacks DEF Execute, Goto, TypeOK, MaxTaps
  <2>5. CASE Relook(f)
    BY <1>0, <2>1, <2>5, OthersKeepStacks DEF Relook, Goto, TypeOK, StacksFall
  <2>6. CASE Retap(f)
    <3>1. taps'[f] = taps[f] + 1 /\ taps[f] < MaxTaps
      BY <2>6 DEF Retap, TypeOK, FlowsInOrder
    <3>2. CASE TapAllow(f, 1) /\ UNCHANGED hindered
      <4>1. ~hindered[f] => dialogs'[on[f]] + taps'[f] <= MaxTaps
        BY <2>1, <2>6, <3>1, <3>2, TapLowers DEF Retap, TapAllow, StacksFall, TypeOK, MaxTaps
      <4>2. \A q \in Phones : dialogs'[q] <= dialogs[q]
        BY <2>1, <3>2, TapLowers DEF TapAllow
      <4>. QED BY <1>0, <2>6, <3>2, <4>1, <4>2, OthersKeepStacks DEF Retap, Goto, TypeOK
    <3>3. CASE UNCHANGED <<dialogs, overtaken, strays>> /\ Hindered(f)
      <4>1. hindered'[f] /\ step'[f] = "relook" /\ \A q \in Phones : dialogs'[q] <= dialogs[q]
        BY <2>6, <3>3 DEF Retap, Hindered, Goto, TypeOK
      <4>2. \A g \in Flows \ {f} :
                /\ step'[g] = step[g] /\ on'[g] = on[g] /\ taps'[g] = taps[g]
                /\ hindered'[g] = hindered[g] /\ verdict'[g] = verdict[g]
        BY <2>6, <3>3 DEF Retap, Hindered, Goto, TypeOK
      <4>. QED BY <1>0, <4>1, <4>2, OthersKeepStacks
    <3>. QED BY <2>6, <3>2, <3>3 DEF Retap
  <2>7. CASE Break(f) \/ RetapFails(f)
    <3>1. \A q \in Phones : dialogs'[q] <= dialogs[q]
      BY <2>1, <2>7, TapLowers DEF Break, RetapFails, TapAllow, TypeOK
    <3>. QED BY <1>0, <2>7, <3>1, OthersKeepStacks DEF Break, RetapFails, Hindered, Goto, TypeOK
  <2>8. CASE EnoughTaps(f)
    <3>1. ~hindered[f] => dialogs[on[f]] = 0
      BY <2>1, <2>8 DEF EnoughTaps, StacksFall, TypeOK, MaxTaps
    <3>. QED BY <1>0, <2>1, <2>8, <3>1, OthersKeepStacks DEF EnoughTaps, Goto, TypeOK
  <2>9. CASE Check(f)
    BY <1>0, <2>1, <2>9, OthersKeepStacks DEF Check, Goto, TypeOK, StacksFall
  <2>10. CASE CheckFails(f)
    <3>1. hindered'[f] /\ step'[f] = "report" /\ \A q \in Phones : dialogs'[q] <= dialogs[q]
      BY <2>10 DEF CheckFails, Hindered, Goto, TypeOK
    <3>2. \A g \in Flows \ {f} :
              /\ step'[g] = step[g] /\ on'[g] = on[g] /\ taps'[g] = taps[g]
              /\ hindered'[g] = hindered[g] /\ verdict'[g] = verdict[g]
      BY <2>10 DEF CheckFails, Hindered, Goto, TypeOK
    <3>. QED BY <1>0, <3>1, <3>2, OthersKeepStacks
  <2>. QED BY <1>3, <2>2, <2>3, <2>4, <2>5, <2>6, <2>7, <2>8, <2>9, <2>10 DEF FlowStep
<1>4. ASSUME NEW p \in Phones, NEW ok \in BOOLEAN, Answer(p, ok) PROVE StacksFall'
  BY <1>4 DEF Answer, StacksFall
<1>5. ASSUME NEW p \in Phones, Lose(p) PROVE StacksFall'
  BY <1>5 DEF Lose, StacksFall
<1>6. ASSUME NEW p \in Phones, LateTap(p) PROVE StacksFall'
  <2>1. \A q \in Phones : dialogs'[q] <= dialogs[q]
    BY <1>6, TapLowers DEF LateTap
  <2>2. UNCHANGED <<step, on, taps, verdict, hindered>>
    BY <1>6 DEF LateTap
  <2>3. \A q \in Phones : dialogs[q] \in Nat /\ dialogs'[q] \in Nat
    BY <1>0 DEF TypeOK
  <2>4. \A f \in Flows : taps[f] \in Nat /\ (step[f] # "idle" => on[f] \in Phones)
    BY FlowOnPhone DEF TypeOK, MaxTaps
  <2>. QED BY <2>1, <2>2, <2>3, <2>4 DEF StacksFall, MaxTaps
<1>. QED BY <1>1, <1>2, <1>3, <1>4, <1>5, <1>6 DEF Next

\* Any stack of at most three dialogs is cleared, and the outcome reported is
\* a success, by every flow that no failed call and no dead button hinders,
\* other flows on the same phone notwithstanding.
THEOREM StacksAreCleared ==
    (\A p \in Phones : MaxDialogs[p] <= MaxTaps) => (Spec => []StackCleared)
<1> SUFFICES ASSUME \A p \in Phones : MaxDialogs[p] <= MaxTaps PROVE Spec => []StackCleared
  OBVIOUS
<1>1. Init => StackInv
  <2> SUFFICES ASSUME Init PROVE StackInv
    OBVIOUS
  <2>1. TypeOK
    BY InitTypes
  <2>2. ASSUME NEW p \in Phones PROVE dialogs[p] <= MaxTaps
    <3>1. dialogs[p] \in Nat /\ MaxDialogs[p] \in Nat
      BY <2>1, RecoveryAssumption DEF TypeOK
    <3>2. dialogs[p] <= MaxDialogs[p] /\ MaxDialogs[p] <= 3
      BY DEF Init, MaxTaps
    <3>. QED BY <3>1, <3>2 DEF MaxTaps
  <2>. QED BY <2>1, <2>2 DEF Init, StackInv, FlowsInOrder, StacksFall
<1>2. StackInv /\ [Next]_vars => StackInv'
  BY TypeKept, OrderKept, StacksKept DEF StackInv
<1>3. StackInv => StackCleared
  BY DEF StackInv, StacksFall, StackCleared
<1>. QED BY <1>1, <1>2, <1>3, PTL DEF Spec
-----------------------------------------------------------------------------
(***************************************************************************)
(* How much a flow has left to do.                                         *)
(***************************************************************************)

\* The step a flow is at and its extra taps decide it.
LEMMA SameStepSameCalls ==
    ASSUME NEW f \in Flows, step'[f] = step[f], taps'[f] = taps[f]
    PROVE  CallsLeft(f)' = CallsLeft(f)
BY DEF CallsLeft

\* It is a number, and none only for a flow that is not running.
LEMMA CallsLeftNat ==
    ASSUME TypeOK, NEW f \in Flows
    PROVE  CallsLeft(f) \in Nat /\ (step[f] # "idle" => CallsLeft(f) > 0)
<1>1. step[f] \in Steps /\ taps[f] \in 0 .. 3
  BY DEF TypeOK, MaxTaps
<1>. QED BY <1>1 DEF CallsLeft, Steps, MaxTaps

\* A flow that returns has nothing left to do.
LEMMA ReturnWindsDown ==
    ASSUME TypeOK, NEW f \in Flows, step[f] # "idle", Return(f) PROVE CallsLeft(f)' < CallsLeft(f)
<1>1. step'[f] = "idle"
  BY DEF Return, Goto, TypeOK
<1>. QED BY <1>1, CallsLeftNat DEF CallsLeft

\* Each step of a flow leaves it less to do: an extra tap costs two calls, and
\* there are no more than three.
LEMMA FlowWindsDown ==
    ASSUME TypeOK, FlowsInOrder, NEW f \in Flows, FlowStep(f)
    PROVE  CallsLeft(f)' < CallsLeft(f)
<1>1. step[f] # "idle"
  BY DEF FlowStep, Look, GivesUp, Subscribe, Publish, Receive, Refused, Expire, Execute,
     ExecuteFails, Relook, Retap, RetapFails, Break, EnoughTaps, Check, CheckFails, Report
<1>2. taps[f] \in 0 .. 3 /\ (step[f] = "retap" => taps[f] < 3)
  BY DEF TypeOK, FlowsInOrder, MaxTaps
<1>3. CASE GivesUp(f) \/ Refused(f) \/ Expire(f) \/ ExecuteFails(f) \/ Report(f)
  BY <1>1, <1>3, ReturnWindsDown DEF GivesUp, Refused, Expire, ExecuteFails, Report
<1>4. CASE Look(f) \/ Subscribe(f) \/ Publish(f) \/ Receive(f)
  BY <1>4 DEF Look, Subscribe, Publish, Receive, Goto, TypeOK, CallsLeft, MaxTaps
<1>5. CASE Execute(f) \/ Relook(f) \/ EnoughTaps(f)
  BY <1>2, <1>5 DEF Execute, Relook, EnoughTaps, Goto, TypeOK, CallsLeft, MaxTaps
<1>6. CASE Retap(f)
  <2>1. step[f] = "retap" /\ step'[f] = "relook" /\ taps'[f] = taps[f] + 1
    BY <1>6 DEF Retap, Goto, TypeOK
  <2>. QED BY <1>2, <2>1 DEF CallsLeft, MaxTaps
<1>7. CASE Break(f) \/ RetapFails(f)
  BY <1>2, <1>7 DEF Break, RetapFails, Goto, TypeOK, CallsLeft, MaxTaps
<1>8. CASE Check(f) \/ CheckFails(f)
  BY <1>8 DEF Check, CheckFails, Goto, TypeOK, CallsLeft
<1>. QED BY <1>3, <1>4, <1>5, <1>6, <1>7, <1>8 DEF FlowStep

\* What a flow does is done to its own step and taps only.
LEMMA OthersKeepCalls ==
    ASSUME TypeOK, NEW f \in Flows, FlowStep(f), NEW g \in Flows, g # f
    PROVE  step'[g] = step[g] /\ taps'[g] = taps[g]
BY DEF TypeOK, FlowStep, Look, GivesUp, Subscribe, Publish, Receive, Refused, Expire, Execute,
   ExecuteFails, Relook, Retap, RetapFails, Break, EnoughTaps, Check, CheckFails, Report, Return, Goto

\* However many flows and phones there are, and whether or not an engine
\* answers, every flow makes a bounded number of calls: each leaves it less to
\* do, and nothing that happens around it more.
THEOREM FlowsDoWindDown == Spec => FlowsWindDown
<1> DEFINE Inv == TypeOK /\ FlowsInOrder
           Winds(f) == /\ FlowStep(f) => CallsLeft(f)' < CallsLeft(f)
                       /\ step[f] # "idle" => CallsLeft(f)' <= CallsLeft(f)
<1>1. Init => Inv
  BY InitTypes DEF Init, FlowsInOrder
<1>2. Inv /\ [Next]_vars => Inv'
  BY TypeKept, OrderKept
<1>3. Inv /\ [Next]_vars => [\A f \in Flows : Winds(f)]_vars
  <2> SUFFICES ASSUME Inv, Next, NEW f \in Flows PROVE Winds(f)
    BY DEF vars
  <2>1. FlowStep(f) => CallsLeft(f)' < CallsLeft(f)
    BY FlowWindsDown
  <2>2. CallsLeft(f) \in Nat
    BY CallsLeftNat
  <2>3. ASSUME step[f] # "idle", ~FlowStep(f) PROVE CallsLeft(f)' <= CallsLeft(f)
    <3>1. step'[f] = step[f] /\ taps'[f] = taps[f]
      <4>1. CASE \E g \in Flows, p \in Phones : Start(g, p)
        BY <2>3, <4>1 DEF Start, Goto, TypeOK
      <4>2. CASE \E g \in Flows : FlowStep(g)
        BY <2>3, <4>2, OthersKeepCalls
      <4>3. CASE (\E p \in Phones, ok \in BOOLEAN : Answer(p, ok)) \/ (\E p \in Phones : Lose(p) \/ LateTap(p))
        BY <4>3 DEF Answer, Lose, LateTap
      <4>. QED BY <4>1, <4>2, <4>3 DEF Next
    <3>. QED BY <2>2, <3>1, SameStepSameCalls
  <2>4. CallsLeft(f)' \in Nat
    <3>1. TypeOK'
      BY <1>2
    <3>2. step'[f] \in Steps /\ taps'[f] \in 0 .. 3
      BY <3>1 DEF TypeOK, MaxTaps
    <3>. QED BY <3>2 DEF CallsLeft, Steps, MaxTaps
  <2>. QED BY <2>1, <2>2, <2>3, <2>4
<1>. QED BY <1>1, <1>2, <1>3, PTL DEF Spec, FlowsWindDown
=============================================================================
