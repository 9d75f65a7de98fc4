-------------------------- MODULE ProvisionProofs --------------------------
(***************************************************************************)
(* Proofs about ProvisionClient: while calls stay within the lease, a      *)
(* phone no operator has taken out of a setup is never declared ready on   *)
(* the strength of an old run, while nothing goes wrong no setup           *)
(* provisions a phone twice, and only a disturbance sets a setup back.     *)
(***************************************************************************)
EXTENDS ProvisionClient, TLAPS

\* A caller works on one phone, and the lease keeps other callers off it.
CallersApart ==
    /\ \A c \in Callers : pc[c] = "idle" <=> on[c] = "none"
    /\ \A c, d \in Callers : on[c] # "none" /\ on[c] = on[d] => c = d

Undisturbed(c) == on[c] # "none" /\ ~interrupted[on[c]]

\* What a caller knows of the phone it works on.
CallersInformed ==
    \A c \in Callers : Undisturbed(c) =>
        /\ stage[on[c]] = "setup"
        /\ pc[c] = "note" => (run[on[c]] = "ready" => done[on[c]])
        /\ pc[c] \in {"decide", "judge"} => (view[c] = "ready" /\ awaiting[on[c]] => done[on[c]])
        /\ pc[c] = "drop" => done[on[c]]

\* A serial is in awaitingReady only during a setup, and the run awaited is
\* one of that setup.
AwaitingMeansThisSetup ==
    \A s \in Serials : awaiting[s] /\ ~interrupted[s] =>
        /\ stage[s] = "setup"
        /\ run[s] = "ready" => done[s]

ProvisionInv ==
    /\ TypeOK
    /\ CallersApart
    /\ CallersInformed
    /\ AwaitingMeansThisSetup
    /\ EarnedUnlessInterrupted

-----------------------------------------------------------------------------
\* The invariant holds before any setup has begun.
LEMMA InitProvisionInv == Init => ProvisionInv
BY ProvisionAssumption DEF Init, ProvisionInv, TypeOK, Statuses, CallersApart, CallersInformed,
   Undisturbed, AwaitingMeansThisSetup, EarnedUnlessInterrupted

\* Every action keeps the variables in their types.
LEMMA TypeKept == ASSUME TypeOK, CallersApart, [Next]_vars PROVE TypeOK'
<1> USE DEF TypeOK, Statuses, record, history, caller
<1>1. CASE UNCHANGED vars
  BY <1>1 DEF vars
<1>2. CASE Restart
  BY <1>2 DEF Restart, Disturb
<1>3. ASSUME NEW s \in Serials, EnterSetup(s) \/ LeaveSetup(s) PROVE TypeOK'
  <2>1. CASE EnterSetup(s)
    <3>1. passes[s] + 1 \in Nat
      OBVIOUS
    <3>. QED BY <2>1, <3>1 DEF EnterSetup
  <2>2. CASE LeaveSetup(s)
    BY <2>2 DEF LeaveSetup
  <2>. QED BY <1>3, <2>1, <2>2
<1>4. ASSUME NEW s \in Serials, RunSucceeds(s) \/ RunFails(s) \/ ForeignRun(s) PROVE TypeOK'
  <2>1. CASE RunSucceeds(s)
    BY <2>1 DEF RunSucceeds
  <2>2. CASE RunFails(s)
    BY <2>2 DEF RunFails, Disturb
  <2>3. CASE ForeignRun(s)
    BY <2>3 DEF ForeignRun, Disturb
  <2>. QED BY <1>4, <2>1, <2>2, <2>3
<1>5. ASSUME NEW s \in Serials, NEW c \in Callers, Take(c, s) PROVE TypeOK'
  BY <1>5 DEF Take, Goto
<1>6. ASSUME NEW c \in Callers, CallerStep(c) PROVE TypeOK'
  <2>1. CASE Decide(c) \/ Conflict(c) \/ Judge(c)
    BY <2>1 DEF Decide, Conflict, Judge, Goto
  <2>2. CASE Post(c) \/ Note(c)
    BY <2>2 DEF Post, Note, Goto
  <2>3. CASE PostUnanswered(c) \/ CallFails(c) \/ FailureSeen(c)
    <3>1. /\ run' \in [Serials -> Statuses] /\ disturbances' \in Nat
          /\ UNCHANGED <<awaiting, passes, done, interrupted>> /\ rerun' \in [Serials -> BOOLEAN]
          /\ ReturnError(c)
      BY <2>3 DEF PostUnanswered, CallFails, FailureSeen, Disturb
    <3>2. /\ pc' \in [Callers -> {"idle", "ask", "decide", "post", "note", "again", "judge", "drop"}]
          /\ on' \in [Callers -> Serials \union {"none"}]
          /\ view' \in [Callers -> Statuses] /\ known' \in [Callers -> BOOLEAN]
      BY <3>1 DEF ReturnError, Return, Goto
    <3>3. stage' \in [Serials -> {"out", "setup", "ready"}] /\ readyAt' \in [Serials -> BOOLEAN]
      BY <3>1 DEF ReturnError
    <3>. QED BY <3>1, <3>2, <3>3
  <2>4. CASE Ask(c) \/ AskAgain(c)
    <3>1. on[c] \in Serials
      BY <2>4 DEF Ask, AskAgain, CallersApart
    <3>. QED BY <2>4, <3>1 DEF Ask, AskAgain, Goto
  <2>5. CASE StaysInSetup(c) \/ Complete(c)
    BY <2>5 DEF StaysInSetup, Complete, Return, Goto
  <2>. QED BY <1>6, <2>1, <2>2, <2>3, <2>4, <2>5 DEF CallerStep
<1>. QED BY <1>1, <1>2, <1>3, <1>4, <1>5, <1>6 DEF Next

\* What the other conjuncts say, in one word for the steps below.
Sound == CallersApart /\ CallersInformed /\ AwaitingMeansThisSetup /\ EarnedUnlessInterrupted

\* Every action of a system whose calls stay within the lease preserves them.
LEMMA SoundKept ==
    ASSUME TypeOK, Sound, ~Lapses, [Next]_vars PROVE Sound'
<1> USE DEF TypeOK, Sound, CallersApart, CallersInformed, Undisturbed,
            AwaitingMeansThisSetup, EarnedUnlessInterrupted, record, history, caller
<1>1. CASE UNCHANGED vars
  BY <1>1 DEF vars
<1>2. CASE Restart
  BY <1>2 DEF Restart
<1>3. ASSUME NEW s \in Serials, EnterSetup(s) PROVE Sound'
  BY <1>3 DEF EnterSetup, Unattended
<1>4. ASSUME NEW s \in Serials, LeaveSetup(s) PROVE Sound'
  BY <1>4 DEF LeaveSetup
<1>5. ASSUME NEW s \in Serials, RunSucceeds(s) \/ RunFails(s) \/ ForeignRun(s) PROVE Sound'
  BY <1>5 DEF RunSucceeds, RunFails, ForeignRun
<1>6. ASSUME NEW s \in Serials, NEW c \in Callers, Take(c, s) PROVE Sound'
  <2>1. s # "none"
    BY ProvisionAssumption
  <2>. QED BY <1>6, <2>1 DEF Take, Goto, Unattended
<1>7. ASSUME NEW c \in Callers, CallerStep(c) PROVE Sound'
  <2>1. CASE Decide(c)
    BY <2>1 DEF Decide, Goto, ShouldStart
  <2>2. CASE Post(c)
    BY <2>2 DEF Post, Goto
  <2>3. CASE Conflict(c)
    BY <2>3 DEF Conflict, Goto
  <2>4. CASE PostUnanswered(c)
    BY <2>4 DEF PostUnanswered, ReturnError, Return, Goto
  <2>5. CASE Note(c)
    BY <2>5 DEF Note, Goto
  <2>6. CASE Ask(c) \/ AskAgain(c)
    BY <2>6 DEF Ask, AskAgain, Goto
  <2>7. CASE CallFails(c) \/ FailureSeen(c)
    BY <2>7 DEF CallFails, FailureSeen, ReturnError, Return, Goto
  <2>10. CASE StaysInSetup(c)
    BY <2>10 DEF StaysInSetup, Return, Goto
  <2>8. CASE Judge(c)
    BY <2>8 DEF Judge, ReadySeen, Goto
  <2>9. CASE Complete(c)
    BY <2>9 DEF Complete, Return, Goto
  <2>. QED BY <1>7, <2>1, <2>2, <2>3, <2>4, <2>5, <2>6, <2>7, <2>8, <2>9, <2>10 DEF CallerStep
<1>. QED BY <1>1, <1>2, <1>3, <1>4, <1>5, <1>6, <1>7 DEF Next

\* While no call of AdvanceSetup outlasts the phone's lease, a phone that no
\* operator has taken out of a setup is declared ready only after a run of
\* this setup has succeeded: however many phones, callers, setups, lost
\* calls, failed or foreign runs and restarts there are.
THEOREM SetupIsEarned == ~Lapses => (Spec => []EarnedUnlessInterrupted)
<1>1. Init => ProvisionInv
  BY InitProvisionInv
<1>2. ~Lapses /\ ProvisionInv /\ [Next]_vars => ProvisionInv'
  <2>1. SUFFICES ASSUME ~Lapses, ProvisionInv, [Next]_vars PROVE ProvisionInv'
    OBVIOUS
  <2>2. TypeOK'
    BY <2>1, TypeKept DEF ProvisionInv
  <2>3. Sound'
    BY <2>1, SoundKept DEF ProvisionInv, Sound
  <2>. QED BY <2>2, <2>3 DEF ProvisionInv, Sound
<1>3. ProvisionInv => EarnedUnlessInterrupted
  BY DEF ProvisionInv
<1>4. SUFFICES ASSUME ~Lapses PROVE Spec => []EarnedUnlessInterrupted
  OBVIOUS
<1>5. ProvisionInv /\ [Next]_vars => ProvisionInv'
  BY <1>2, <1>4
<1>. QED BY <1>1, <1>3, <1>5, PTL DEF Spec
-----------------------------------------------------------------------------
\* A caller whose POST was accepted is about to note the run.
Noting(s) == \E c \in Callers : on[c] = s /\ pc[c] = "note"

\* While nothing is lost, fails or restarts: a run in progress is awaited, or
\* about to be; so is one that has succeeded, until the phone is ready; and a
\* run that is awaited neither fails nor disappears.
RunsAwaited ==
    \A s \in Serials :
        /\ ~rerun[s]
        /\ run[s] = "pending" => awaiting[s] \/ Noting(s)
        /\ done[s] => awaiting[s] \/ Noting(s) \/ stage[s] = "ready"
        /\ awaiting[s] \/ Noting(s) => run[s] \in {"pending", "ready"}

\* So a caller that is to start a run knows of none, and none sees one failed.
CallersCareful ==
    \A c \in Callers : on[c] # "none" =>
        /\ stage[on[c]] # "ready"
        /\ pc[c] = "decide" /\ awaiting[on[c]] => view[c] \in {"pending", "ready"}
        /\ pc[c] = "post" => ~awaiting[on[c]]
        /\ pc[c] = "again" => awaiting[on[c]]
        /\ pc[c] = "judge" => view[c] # "failed"
        /\ pc[c] \in {"decide", "judge", "drop"} /\ view[c] = "ready" => run[on[c]] = "ready"
        /\ pc[c] = "drop" => view[c] = "ready"

Once == RunsAwaited /\ CallersCareful

OnceInv == TypeOK /\ CallersApart /\ (disturbances = 0 => Once)

\* The callers stay apart.
LEMMA ApartKept ==
    ASSUME TypeOK, CallersApart, ~Lapses, [Next]_vars PROVE CallersApart'
<1> USE DEF TypeOK, CallersApart, record, history, caller
<1>1. CASE UNCHANGED vars
  BY <1>1 DEF vars
<1>2. CASE Restart
  BY <1>2 DEF Restart
<1>3. ASSUME NEW s \in Serials, \/ EnterSetup(s) \/ LeaveSetup(s)
                                \/ RunSucceeds(s) \/ RunFails(s) \/ ForeignRun(s)
      PROVE  CallersApart'
  BY <1>3 DEF EnterSetup, LeaveSetup, RunSucceeds, RunFails, ForeignRun
<1>4. ASSUME NEW s \in Serials, NEW c \in Callers, Take(c, s) PROVE CallersApart'
  <2>1. s # "none"
    BY ProvisionAssumption
  <2>. QED BY <1>4, <2>1 DEF Take, Goto, Unattended
<1>5. ASSUME NEW c \in Callers, CallerStep(c) PROVE CallersApart'
  <2>1. CASE Ask(c) \/ Decide(c) \/ Post(c) \/ Conflict(c) \/ Note(c) \/ AskAgain(c) \/ Judge(c)
    BY <2>1 DEF Ask, Decide, Post, Conflict, Note, AskAgain, Judge, Goto
  <2>2. CASE PostUnanswered(c) \/ CallFails(c) \/ FailureSeen(c) \/ StaysInSetup(c) \/ Complete(c)
    BY <2>2 DEF PostUnanswered, CallFails, FailureSeen, StaysInSetup, Complete, ReturnError, Return,
       Goto
  <2>. QED BY <1>5, <2>1, <2>2 DEF CallerStep
<1>. QED BY <1>1, <1>2, <1>3, <1>4, <1>5 DEF Next

\* A step of a caller that does not disturb: its phone is the only one it
\* touches, and no other caller is there.
LEMMA CallerOnce ==
    ASSUME OnceInv, ~Lapses, disturbances = 0, NEW c \in Callers, CallerStep(c),
           disturbances' = 0
    PROVE  Once'
<1> USE DEF OnceInv, Once, TypeOK, CallersApart, RunsAwaited, CallersCareful, Noting,
            record, history, caller
<1>1. CASE Decide(c)
  BY <1>1 DEF Decide, Goto, ShouldStart
<1>2. CASE Post(c)
  <2>1. on[c] \in Serials /\ ~awaiting[on[c]] /\ ~Noting(on[c]) /\ stage[on[c]] # "ready"
    BY <1>2 DEF Post
  <2>2. ~done[on[c]]
    BY <2>1
  <2>3. \A s \in Serials : ~rerun'[s]
    BY <1>2, <2>1, <2>2 DEF Post
  <2>4. Noting(on[c])' /\ \A s \in Serials : s # on[c] => (Noting(s)' <=> Noting(s))
    BY <1>2, <2>1 DEF Post, Goto
  <2>5. RunsAwaited'
    BY <1>2, <2>1, <2>2, <2>3, <2>4 DEF Post
  <2>6. CallersCareful'
    BY <1>2, <2>1 DEF Post, Goto
  <2>. QED BY <2>5, <2>6
<1>3. CASE Conflict(c)
  BY <1>3 DEF Conflict, Goto
<1>4. CASE PostUnanswered(c) \/ CallFails(c)
  BY <1>4 DEF PostUnanswered, CallFails, Disturb
<1>5. CASE Note(c)
  <2>1. on[c] \in Serials /\ Noting(on[c])
    BY <1>5 DEF Note
  <2>2. awaiting'[on[c]] /\ \A s \in Serials : s # on[c] =>
            (Noting(s)' <=> Noting(s)) /\ awaiting'[s] = awaiting[s]
    BY <1>5, <2>1 DEF Note, Goto
  <2>3. RunsAwaited'
    BY <1>5, <2>1, <2>2 DEF Note
  <2>4. CallersCareful'
    BY <1>5, <2>1 DEF Note, Goto
  <2>. QED BY <2>3, <2>4
<1>6. CASE Ask(c) \/ AskAgain(c)
  BY <1>6 DEF Ask, AskAgain, Goto
<1>7. CASE Judge(c)
  BY <1>7 DEF Judge, ReadySeen, Goto
<1>8. CASE StaysInSetup(c)
  BY <1>8 DEF StaysInSetup, Return, Goto
<1>10. CASE FailureSeen(c)
  BY <1>10 DEF FailureSeen
<1>9. CASE Complete(c)
  <2>1. on[c] \in Serials /\ run[on[c]] = "ready"
    BY <1>9 DEF Complete
  <2>2. stage'[on[c]] = "ready" /\ \A s \in Serials : s # on[c] =>
            stage'[s] = stage[s] /\ awaiting'[s] = awaiting[s]
    BY <1>9, <2>1 DEF Complete
  <2>3. \A s \in Serials : Noting(s)' <=> Noting(s)
    BY <1>9 DEF Complete, Return, Goto
  <2>4. RunsAwaited'
    BY <1>9, <2>1, <2>2, <2>3 DEF Complete
  <2>5. \A d \in Callers : on'[d] # "none" => d # c /\ on'[d] = on[d] /\ on[d] # on[c]
    BY <1>9, <2>1 DEF Complete, Return
  <2>6. CallersCareful'
    BY <1>9, <2>2, <2>5 DEF Complete, Return, Goto
  <2>. QED BY <2>4, <2>6
<1>. QED BY <1>1, <1>2, <1>3, <1>4, <1>5, <1>6, <1>7, <1>8, <1>9, <1>10 DEF CallerStep

\* Nor do the other steps start a second run, as long as nothing is disturbed.
LEMMA OnceKept ==
    ASSUME OnceInv, ~Lapses, [Next]_vars, disturbances' = 0 PROVE Once'
<1> USE DEF OnceInv, Once, TypeOK, CallersApart, RunsAwaited, CallersCareful, Noting,
            record, history, caller
<1>0. disturbances = 0
  <2>1. disturbances' = disturbances \/ disturbances' = disturbances + 1
    BY DEF Next, vars, EnterSetup, LeaveSetup, Take, CallerStep, Ask, Decide, Post, Conflict,
       PostUnanswered, Note, AskAgain, CallFails, Judge, StaysInSetup, FailureSeen, Complete,
       RunSucceeds, RunFails, ForeignRun, Restart, Disturb
  <2>. QED BY <2>1
<1>1. CASE UNCHANGED vars
  BY <1>0, <1>1 DEF vars
<1>2. CASE Restart
  BY <1>0, <1>2 DEF Restart, Disturb
<1>3. ASSUME NEW s \in Serials, EnterSetup(s) PROVE Once'
  BY <1>0, <1>3, ProvisionAssumption DEF EnterSetup, Unattended
<1>4. ASSUME NEW s \in Serials, LeaveSetup(s) PROVE Once'
  BY <1>0, <1>4 DEF LeaveSetup
<1>5. ASSUME NEW s \in Serials, RunSucceeds(s) PROVE Once'
  BY <1>0, <1>5 DEF RunSucceeds
<1>6. ASSUME NEW s \in Serials, RunFails(s) \/ ForeignRun(s) PROVE Once'
  BY <1>0, <1>6 DEF RunFails, ForeignRun, Disturb
<1>7. ASSUME NEW s \in Serials, NEW c \in Callers, Take(c, s) PROVE Once'
  <2>1. s # "none"
    BY ProvisionAssumption
  <2>2. \A t \in Serials : Noting(t)' <=> Noting(t)
    BY <1>7, <2>1 DEF Take, Goto
  <2>3. RunsAwaited'
    BY <1>0, <1>7, <2>2 DEF Take
  <2>4. CallersCareful'
    BY <1>0, <1>7, <2>1 DEF Take, Goto
  <2>. QED BY <2>3, <2>4
<1>8. ASSUME NEW c \in Callers, CallerStep(c) PROVE Once'
  BY <1>0, <1>8, CallerOnce
<1>. QED BY <1>1, <1>2, <1>3, <1>4, <1>5, <1>6, <1>7, <1>8 DEF Next

\* While no call outlasts the lease, and nothing is lost, fails or restarts,
\* no setup starts a second run for a phone, for any number of phones,
\* callers and setups, left half-way and entered again.
THEOREM SetupsProvisionOnce == ~Lapses => (Spec => []ProvisionedOnce)
<1> SUFFICES ASSUME ~Lapses PROVE Spec => []ProvisionedOnce
  OBVIOUS
<1>1. Init => OnceInv
  BY ProvisionAssumption DEF Init, OnceInv, Once, TypeOK, Statuses, CallersApart, RunsAwaited,
     CallersCareful, Noting
<1>2. OnceInv /\ [Next]_vars => OnceInv'
  BY TypeKept, ApartKept, OnceKept DEF OnceInv
<1>3. OnceInv => ProvisionedOnce
  BY DEF OnceInv, Once, RunsAwaited, ProvisionedOnce
<1>. QED BY <1>1, <1>2, <1>3, PTL DEF Spec
-----------------------------------------------------------------------------
(***************************************************************************)
(* How far a setup is from its end.                                        *)
(***************************************************************************)

\* Nothing that is done elsewhere changes it.
LEMMA Elsewhere ==
    ASSUME NEW s \in Serials,
           run'[s] = run[s], awaiting'[s] = awaiting[s], stage'[s] = stage[s],
           \A c \in Callers : on'[c] = s <=> on[c] = s,
           \A c \in Callers : on[c] = s =>
               pc'[c] = pc[c] /\ view'[c] = view[c] /\ known'[c] = known[c]
    PROVE  Distance(s)' = Distance(s)
<1>1. ASSUME NEW c \in Callers, on[c] = s PROVE ShouldStart(c)' <=> ShouldStart(c)
  BY <1>1 DEF ShouldStart
<1>2. WillPost(s)' <=> WillPost(s)
  BY <1>1 DEF WillPost
<1>3. Noted(s)' <=> Noted(s)
  BY DEF Noted
<1>. QED BY <1>2, <1>3 DEF Distance

\* The caller on a phone decides whether a run is to be started or noted.
LEMMA TheCaller ==
    ASSUME CallersApart, NEW s \in Serials, NEW c \in Callers, on[c] = s
    PROVE  /\ WillPost(s) <=> pc[c] = "post" \/ (pc[c] = "decide" /\ ShouldStart(c))
           /\ Noted(s) <=> awaiting[s] \/ pc[c] = "note"
<1>1. s # "none"
  BY ProvisionAssumption
<1>2. \A d \in Callers : on[d] = s <=> d = c
  BY <1>1 DEF CallersApart
<1>. QED BY <1>2 DEF WillPost, Noted

\* With nobody on it, nothing is to be started.
LEMMA NoCaller ==
    ASSUME NEW s \in Serials, \A c \in Callers : on[c] # s
    PROVE  ~WillPost(s) /\ (Noted(s) <=> awaiting[s])
BY DEF WillPost, Noted
\* The same of the state after a step.
LEMMA TheCallerThen ==
    ASSUME CallersApart', NEW s \in Serials, NEW c \in Callers, on'[c] = s
    PROVE  /\ WillPost(s)' <=> pc'[c] = "post" \/ (pc'[c] = "decide" /\ ShouldStart(c)')
           /\ Noted(s)' <=> awaiting'[s] \/ pc'[c] = "note"
<1>1. s # "none"
  BY ProvisionAssumption
<1>2. \A d \in Callers : on'[d] = s <=> d = c
  BY <1>1 DEF CallersApart
<1>. QED BY <1>2 DEF WillPost, Noted

LEMMA NoCallerThen ==
    ASSUME NEW s \in Serials, \A c \in Callers : on'[c] # s
    PROVE  ~WillPost(s)' /\ (Noted(s)' <=> awaiting'[s])
BY DEF WillPost, Noted

\* What the property says of one phone.
Advances(s) ==
    /\ Distance(s)' <= Distance(s)
    /\ run'[s] # run[s] => Distance(s)' < Distance(s)

LEMMA SameDistance ==
    ASSUME NEW s \in Serials, run'[s] = run[s], Distance(s)' = Distance(s)
    PROVE  Advances(s)
<1>1. Distance(s) \in Nat
  BY DEF Distance
<1>. QED BY <1>1 DEF Advances

\* A phone that is no longer in setup has arrived.
LEMMA OutOfSetup ==
    ASSUME NEW s \in Serials, run'[s] = run[s], stage'[s] # "setup"
    PROVE  Advances(s)
<1>1. Distance(s) \in Nat /\ Distance(s)' = 0
  BY DEF Distance
<1>. QED BY <1>1 DEF Advances

\* A caller that does not disturb brings its phone on, or leaves it where it is.
LEMMA CallerAdvances ==
    ASSUME TypeOK, CallersApart, CallersApart', NEW c \in Callers, CallerStep(c),
           NEW s \in Serials, on[c] = s, stage[s] = "setup", disturbances' = disturbances
    PROVE  Advances(s)
<1> USE DEF TypeOK, Statuses, record, history, caller
<1>1. /\ WillPost(s) <=> pc[c] = "post" \/ (pc[c] = "decide" /\ ShouldStart(c))
      /\ Noted(s) <=> awaiting[s] \/ pc[c] = "note"
  BY TheCaller
<1>2. ASSUME on'[c] = s
      PROVE  /\ WillPost(s)' <=> pc'[c] = "post" \/ (pc'[c] = "decide" /\ ShouldStart(c)')
             /\ Noted(s)' <=> awaiting'[s] \/ pc'[c] = "note"
  BY <1>2, TheCallerThen
<1>11. CASE Ask(c)
  <2>1. /\ pc[c] = "ask" /\ pc'[c] = "decide" /\ on'[c] = s /\ view'[c] = run[s]
        /\ known' = known /\ run' = run /\ awaiting' = awaiting /\ stage' = stage
    BY <1>11 DEF Ask, Goto
  <2>2. /\ ~WillPost(s) /\ (Noted(s) <=> awaiting[s])
        /\ WillPost(s)' <=> ShouldStart(c)'
        /\ Noted(s)' <=> awaiting[s]
    BY <1>1, <1>2, <2>1
  <2>3. ShouldStart(c)' <=> \/ run[s] \in {"none", "failed"}
                            \/ run[s] = "ready" /\ ~awaiting[s] /\ ~known[c]
    BY <2>1 DEF ShouldStart
  <2>4. Distance(s)' = Distance(s)
    BY <2>1, <2>2, <2>3 DEF Distance
  <2>. QED BY <2>1, <2>4, SameDistance
<1>3. CASE Decide(c)
  <2>1. /\ pc[c] = "decide" /\ pc'[c] = IF ShouldStart(c) THEN "post" ELSE "judge"
        /\ on'[c] = s /\ run' = run /\ awaiting' = awaiting /\ stage' = stage
    BY <1>3 DEF Decide, Goto
  <2>2. (WillPost(s)' <=> WillPost(s)) /\ (Noted(s)' <=> Noted(s))
    BY <1>1, <1>2, <2>1
  <2>3. Distance(s)' = Distance(s)
    BY <2>1, <2>2 DEF Distance
  <2>. QED BY <2>1, <2>3, SameDistance
<1>4. CASE Post(c)
  <2>1. /\ pc[c] = "post" /\ pc'[c] = "note" /\ on'[c] = s
        /\ run[s] # "pending" /\ run'[s] = "pending" /\ stage' = stage
    BY <1>4 DEF Post, Goto
  <2>2. WillPost(s) /\ ~WillPost(s)' /\ Noted(s)'
    BY <1>1, <1>2, <2>1
  <2>3. Distance(s) = 3 /\ Distance(s)' = 2
    BY <2>1, <2>2 DEF Distance
  <2>. QED BY <2>3 DEF Advances
<1>5. CASE Conflict(c)
  <2>1. /\ pc[c] = "post" /\ pc'[c] = "again" /\ on'[c] = s
        /\ run[s] = "pending" /\ run' = run /\ stage' = stage
    BY <1>5 DEF Conflict, Goto
  <2>2. Distance(s) = 4 /\ Distance(s)' \in {2, 4}
    BY <1>1, <2>1 DEF Distance
  <2>. QED BY <2>1, <2>2 DEF Advances
<1>6. CASE Note(c)
  <2>1. /\ pc[c] = "note" /\ pc'[c] = "again" /\ on'[c] = s
        /\ run' = run /\ awaiting'[s] /\ stage' = stage
    BY <1>6 DEF Note, Goto
  <2>2. ~WillPost(s) /\ Noted(s) /\ ~WillPost(s)' /\ Noted(s)'
    BY <1>1, <1>2, <2>1
  <2>3. Distance(s)' = Distance(s)
    BY <2>1, <2>2 DEF Distance
  <2>. QED BY <2>1, <2>3, SameDistance
<1>7. CASE AskAgain(c) \/ Judge(c)
  <2>1. /\ pc[c] \in {"again", "judge"} /\ pc'[c] \in {"judge", "drop"} /\ on'[c] = s
        /\ run' = run /\ awaiting' = awaiting /\ stage' = stage
    BY <1>7 DEF AskAgain, Judge, Goto
  <2>2. ~WillPost(s) /\ ~WillPost(s)' /\ (Noted(s)' <=> Noted(s))
    BY <1>1, <1>2, <2>1
  <2>3. Distance(s)' = Distance(s)
    BY <2>1, <2>2 DEF Distance
  <2>. QED BY <2>1, <2>3, SameDistance
<1>8. CASE StaysInSetup(c) \/ FailureSeen(c)
  <2>1. /\ pc[c] = "judge" /\ on'[c] = "none"
        /\ run' = run /\ awaiting' = awaiting /\ stage'[s] = stage[s]
        /\ \A d \in Callers : d # c => on'[d] = on[d]
    BY <1>8 DEF StaysInSetup, FailureSeen, ReturnError, Return
  <2>2. s # "none"
    BY ProvisionAssumption
  <2>3. \A d \in Callers : on'[d] # s
    BY <2>1, <2>2 DEF CallersApart
  <2>4. ~WillPost(s) /\ ~WillPost(s)' /\ (Noted(s)' <=> Noted(s))
    BY <1>1, <2>1, <2>3, NoCallerThen
  <2>5. Distance(s)' = Distance(s)
    BY <2>1, <2>4 DEF Distance
  <2>. QED BY <2>1, <2>5, SameDistance
<1>9. CASE Complete(c)
  <2>1. run' = run /\ stage'[s] = "ready"
    BY <1>9 DEF Complete
  <2>. QED BY <2>1, OutOfSetup
<1>10. CASE PostUnanswered(c) \/ CallFails(c)
  BY <1>10 DEF PostUnanswered, CallFails, Disturb
<1>. QED BY <1>3, <1>4, <1>5, <1>6, <1>7, <1>8, <1>9, <1>10, <1>11 DEF CallerStep

\* So does every step that is not a disturbance.
LEMMA StepAdvances ==
    ASSUME TypeOK, CallersApart, CallersApart', ~Lapses, Next, disturbances' = disturbances,
           NEW s \in Serials, stage[s] = "setup"
    PROVE  Advances(s)
<1> USE DEF TypeOK, Statuses, record, history, caller
<1>1. ASSUME NEW q \in Serials, EnterSetup(q) \/ LeaveSetup(q) PROVE Advances(s)
  <2>1. run' = run /\ awaiting' = awaiting /\ pc' = pc /\ on' = on /\ view' = view /\ known' = known
    BY <1>1 DEF EnterSetup, LeaveSetup
  <2>2. CASE stage'[s] = stage[s]
    <3>1. Distance(s)' = Distance(s)
      BY <2>1, <2>2, Elsewhere
    <3>. QED BY <2>1, <3>1, SameDistance
  <2>3. CASE stage'[s] # "setup"
    BY <2>1, <2>3, OutOfSetup
  <2>4. stage'[s] = stage[s] \/ stage'[s] # "setup"
    BY <1>1 DEF EnterSetup, LeaveSetup
  <2>. QED BY <2>2, <2>3, <2>4
<1>2. ASSUME NEW q \in Serials, RunSucceeds(q) PROVE Advances(s)
  <2>1. /\ awaiting' = awaiting /\ stage' = stage /\ pc' = pc /\ on' = on /\ view' = view /\ known' = known
        /\ run[q] = "pending" /\ run' = [run EXCEPT ![q] = "ready"]
    BY <1>2 DEF RunSucceeds
  <2>2. CASE q # s
    <3>1. run'[s] = run[s]
      BY <2>1, <2>2
    <3>2. Distance(s)' = Distance(s)
      BY <2>1, <3>1, Elsewhere
    <3>. QED BY <3>1, <3>2, SameDistance
  <2>3. CASE q = s
    <3>1. run[s] = "pending" /\ run'[s] = "ready"
      BY <2>1, <2>3
    <3>2. (WillPost(s)' <=> WillPost(s)) /\ (Noted(s)' <=> Noted(s))
      <4>1. \A c \in Callers : ShouldStart(c)' <=> ShouldStart(c)
        BY <2>1 DEF ShouldStart
      <4>. QED BY <2>1, <4>1 DEF WillPost, Noted
    <3>3. \/ Distance(s) = 4 /\ Distance(s)' = 3
          \/ Distance(s) = 2 /\ Distance(s)' = 1
      BY <2>1, <3>1, <3>2 DEF Distance
    <3>. QED BY <3>3 DEF Advances
  <2>. QED BY <2>2, <2>3
<1>3. ASSUME NEW q \in Serials, RunFails(q) \/ ForeignRun(q) PROVE FALSE
  BY <1>3 DEF RunFails, ForeignRun, Disturb
<1>4. ASSUME NEW q \in Serials, NEW c \in Callers, Take(c, q) PROVE Advances(s)
  <2>1. /\ run' = run /\ awaiting' = awaiting /\ stage' = stage /\ pc[c] = "idle"
        /\ on' = [on EXCEPT ![c] = q] /\ pc' = [pc EXCEPT ![c] = "ask"] /\ view' = view
        /\ known' = [known EXCEPT ![c] = readyAt[q]]
        /\ \A d \in Callers : on[d] # q
    BY <1>4 DEF Take, Goto, Unattended
  <2>2. on[c] = "none" /\ s # "none"
    BY <2>1, ProvisionAssumption DEF CallersApart
  <2>3. CASE q # s
    <3>1. \A d \in Callers : on'[d] = s <=> on[d] = s
      BY <2>1, <2>2, <2>3
    <3>2. \A d \in Callers : on[d] = s =>
              pc'[d] = pc[d] /\ view'[d] = view[d] /\ known'[d] = known[d]
      BY <2>1, <2>2
    <3>3. Distance(s)' = Distance(s)
      BY <2>1, <3>1, <3>2, Elsewhere
    <3>. QED BY <2>1, <3>3, SameDistance
  <2>4. CASE q = s
    <3>1. ~WillPost(s) /\ (Noted(s) <=> awaiting[s])
      BY <2>1, <2>4, NoCaller
    <3>2. on'[c] = s /\ pc'[c] = "ask"
      BY <2>1, <2>4
    <3>3. ~WillPost(s)' /\ (Noted(s)' <=> awaiting[s])
      BY <2>1, <3>2, TheCallerThen
    <3>4. Distance(s)' = Distance(s)
      BY <2>1, <3>1, <3>3 DEF Distance
    <3>. QED BY <2>1, <3>4, SameDistance
  <2>. QED BY <2>3, <2>4
<1>5. ASSUME NEW c \in Callers, CallerStep(c) PROVE Advances(s)
  <2>1. CASE on[c] = s
    BY <1>5, <2>1, CallerAdvances
  <2>2. CASE on[c] # s
    <3>1. PICK q : q = on[c]
      OBVIOUS
    <3>2. pc[c] # "idle" /\ q \in Serials /\ q # s
      BY <1>5, <2>2, <3>1 DEF CallersApart, CallerStep, Ask, Decide, Post, Conflict, PostUnanswered,
         Note, AskAgain, CallFails, Judge, StaysInSetup, FailureSeen, Complete, ReturnError
    <3>3. /\ \A d \in Callers : d # c => on'[d] = on[d] /\ pc'[d] = pc[d] /\ view'[d] = view[d] /\ known'[d] = known[d]
          /\ on'[c] \in {q, "none"}
      BY <1>5, <3>1 DEF CallerStep, Ask, Decide, Post, Conflict, PostUnanswered, Note, AskAgain,
         CallFails, Judge, StaysInSetup, FailureSeen, Complete, ReturnError, Return, Goto
    <3>4. run'[s] = run[s] /\ awaiting'[s] = awaiting[s] /\ stage'[s] = stage[s]
      BY <1>5, <3>1, <3>2 DEF CallerStep, Ask, Decide, Post, Conflict, PostUnanswered, Note, AskAgain,
         CallFails, Judge, StaysInSetup, FailureSeen, Complete, ReturnError
    <3>5. s # "none"
      BY ProvisionAssumption
    <3>6. Distance(s)' = Distance(s)
      <4>1. \A d \in Callers : on'[d] = s <=> on[d] = s
        BY <3>1, <3>2, <3>3, <3>5
      <4>2. \A d \in Callers : on[d] = s => pc'[d] = pc[d] /\ view'[d] = view[d] /\ known'[d] = known[d]
        BY <2>2, <3>3
      <4>. QED BY <3>4, <4>1, <4>2, Elsewhere
    <3>. QED BY <3>4, <3>6, SameDistance
  <2>. QED BY <2>1, <2>2
<1>6. CASE Restart
  BY <1>6 DEF Restart, Disturb
<1>. QED BY <1>1, <1>2, <1>3, <1>4, <1>5, <1>6 DEF Next

\* While no call outlasts the lease, only a disturbance sets a setup back, and
\* after the last one it starts at most one more run: for any number of phones
\* and callers, setups left half-way and entered again, and statuses gone stale
\* (AdvanceSetup).
THEOREM SetupsDoAdvance == ~Lapses => (Spec => SetupAdvances)
<1> SUFFICES ASSUME ~Lapses PROVE Spec => SetupAdvances
  OBVIOUS
<1> DEFINE Inv == TypeOK /\ CallersApart
           Advance == disturbances' = disturbances =>
              \A s \in Serials : stage[s] = "setup" =>
                  /\ Distance(s)' <= Distance(s)
                  /\ run'[s] # run[s] => Distance(s)' < Distance(s)
<1>1. Init => Inv
  BY ProvisionAssumption DEF Init, TypeOK, Statuses, CallersApart
<1>2. Inv /\ [Next]_vars => Inv'
  BY TypeKept, ApartKept
<1>3. Inv /\ Inv' /\ [Next]_vars => [Advance]_vars
  BY StepAdvances DEF vars, Advances
<1>. QED BY <1>1, <1>2, <1>3, PTL DEF Spec, SetupAdvances
=============================================================================
