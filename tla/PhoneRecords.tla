---------------------------- MODULE PhoneRecords ----------------------------
(***************************************************************************)
(* The phone record as the orchestrator stores it (domain.Phone), reduced  *)
(* to the fields its control flow reads: the lifecycle state, whether      *)
(* ready_at and retired_at are set, the recovery_in_progress flag and the  *)
(* kind of text last_error holds.  The pure steps that compute one record  *)
(* from another are here too; the actions that read and write them are in  *)
(* the modules of the components.                                          *)
(***************************************************************************)

SetupStages == {"wifi_setup", "proxy_setup", "apps_install", "auth"}

States == {"new", "ready", "working", "paused", "error", "retired"} \union SetupStages

\* PhoneState.IsActive, and the WHERE clause of ListActive.
ActiveStates == States \ {"error", "retired"}

\* last_error: empty, the text of a failed call, the operator's reason, or
\* the text the device sync leaves.
Errors == {"none", "failed", "reason", "adbMissing"}

PhoneRecord ==
    [state : States,
     readyAt : BOOLEAN,
     retiredAt : BOOLEAN,
     recoveryInProgress : BOOLEAN,
     lastError : Errors]

\* No row with this serial.
NoPhone == [state |-> "absent"]

Present(r) == r # NoPhone

\* The record AddPhone saves.
NewPhone ==
    [state |-> "new", readyAt |-> FALSE, retiredAt |-> FALSE,
     recoveryInProgress |-> FALSE, lastError |-> "none"]

\* What transition assigns: ready_at is set once, on the first arrival in
\* ready or working; retired_at on every arrival in retired.
Moved(r, to) ==
    [r EXCEPT !.state = to,
              !.readyAt = @ \/ to \in {"ready", "working"},
              !.retiredAt = @ \/ to = "retired"]

Failed(r) == [r EXCEPT !.lastError = "failed"]

\* The flag handlePaused raises before and lowers after a recovery.
Flagged(r, flag) == [r EXCEPT !.recoveryInProgress = flag]

\* The stage after each setup stage, as the built-in provisioner walks them.
NextStage(st) ==
    CASE st = "wifi_setup"   -> "proxy_setup"
      [] st = "proxy_setup"  -> "apps_install"
      [] st = "apps_install" -> "auth"
      [] st = "auth"         -> "ready"
      [] OTHER               -> st

\* The arrows of the README's state diagram that the loop follows by itself.
\* The external provisioner reports only that it is done, so over HTTP any
\* setup stage may be followed by ready.
Diagram(provisioner) ==
    {<<"new", "wifi_setup">>, <<"ready", "working">>, <<"paused", "working">>}
    \union IF provisioner = "stub" THEN {<<st, NextStage(st)>> : st \in SetupStages}
                                   ELSE {<<st, "ready">> : st \in SetupStages}

\* A record agrees with its own timestamps.  The provisioner starts a run
\* only when ready_at is empty, and fleet reports date a phone by ready_at
\* and retired_at.
ConsistentRecord(r) ==
    /\ r.state \in {"new"} \union SetupStages => ~r.readyAt
    /\ r.state \in {"ready", "working"} => r.readyAt
    /\ r.state = "retired" => r.retiredAt
=============================================================================
