--------------------------- MODULE PhoneLifecycle ---------------------------
(***************************************************************************)
(* What the control loop promises for a phone it has to itself: the        *)
(* README's state diagram walked one arrow at a time, each arrow told to   *)
(* the subscribers of phone.state.changed before the next one is taken.    *)
(* There are no goroutines, leases, copies or flags here.                  *)
(***************************************************************************)
EXTENDS PhoneRecords

CONSTANTS Serials, Provisioner

VARIABLES
    state,  \* serial -> lifecycle state, or "absent"
    told    \* serial -> the last state the subscribers were told

vars == <<state, told>>

Init ==
    /\ state \in [Serials -> States \union {"absent"}]
    /\ told = [s \in Serials |-> IF state[s] = "absent" THEN "new" ELSE state[s]]

\* A new phone appears; nothing is published for it.
Register(s) ==
    /\ state[s] = "absent"
    /\ state' = [state EXCEPT ![s] = "new"]
    /\ UNCHANGED told

Advance(s) ==
    /\ told[s] = state[s]
    /\ \E to \in States :
          /\ <<state[s], to>> \in Diagram(Provisioner)
          /\ state' = [state EXCEPT ![s] = to]
    /\ UNCHANGED told

Tell(s) ==
    /\ state[s] # "absent"
    /\ told[s] # state[s]
    /\ told' = [told EXCEPT ![s] = state[s]]
    /\ UNCHANGED state

Next == \E s \in Serials : Register(s) \/ Advance(s) \/ Tell(s)

Spec == Init /\ [][Next]_vars

FairSpec == Spec /\ \A s \in Serials : WF_vars(Advance(s)) /\ WF_vars(Tell(s))
=============================================================================
