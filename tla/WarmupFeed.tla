----------------------------- MODULE WarmupFeed -----------------------------
(***************************************************************************)
(* One warm-up of a feed (actionWarmupFeed of the scenario runner): swipe, *)
(* look whether the feed moved, bring the app back if it was left, recover *)
(* a feed that no longer moves, watch, perhaps like, until time is up.     *)
(*                                                                         *)
(* The runner compares two markers, texts taken from dumps of the screen.  *)
(* A marker is kept relative to the screen as it is now: "same" if that is *)
(* what a dump would give, "other" if not, "none" if the dump failed.  Two *)
(* screens may have the same marker: it is made of three texts at most, or *)
(* of the size of the dump.  Time is counted in slices of a quarter of a   *)
(* minute, and a round of the loop takes at least one.  Phone and observer *)
(* are external.                                                           *)
(***************************************************************************)
EXTENDS StepArithmetic

CONSTANTS
    MaxLikes,     \* likes_max of the scenario
    Durations,    \* duration_sec
    Untils        \* until, in seconds from now (0: no time of day)

ASSUME WarmupAssumption ==
    MaxLikes \in Nat /\ Durations \subseteq Int /\ Untils \subseteq Int

VARIABLE
    warm        \* locals of the warm-up, the screen, what the swipes have done

\* The phone's screen, and what its record may say of it.
Actual == <<720, 1600>>
Stored == {Unsized, <<1600, 720>>}

Markers == {"none", "same", "other"}
Outcomes == {"unknown", "changed", "unchanged"}
Ranges == {"duration_sec", "likes_max", "initial_view_sec", "scroll_interval_sec",
           "view_duration_sec", "like_cooldown_sec", "swipe_pause_ms"}
Places == {"off", "size", "look", "swipe", "relaunch", "judge", "treat",
           "watch", "like", "done", "failed", "dropped"}

\* hint: does the screen name a foreign app, if only in a caption?  known: did
\* the observer or the record give the size?  alike: has a changed screen had
\* the marker that was remembered?  frozen: swipes seen to have no effect since
\* the screen last changed, the app was relaunched or the feed recovered;
\* still: swipes in a row without effect, up to two.  The last three are not
\* known to the runner.
Idle ==
    [hint |-> FALSE, at |-> "off", size |-> Unsized, known |-> FALSE, before |-> "none", after |-> "none",
     outcome |-> "unknown", streak |-> 0, left |-> 0, likes |-> 0,
     reversed |-> "none", alike |-> FALSE, frozen |-> 0, still |-> 0]

WarmType == [hint : BOOLEAN, at : Places, size : {Unsized, Actual, <<RefW, RefH>>},
             known : BOOLEAN, before : Markers, after : Markers, outcome : Outcomes,
             streak : 0 .. 2, left : Nat, likes : 0 .. MaxLikes,
             reversed : Ranges \union {"none"}, alike : BOOLEAN,
             frozen : Nat, still : 0 .. 2]

WarmTypeOK == warm \in WarmType

WarmInit == warm = Idle

\* A range of the scenario, in slices; one may be the wrong way round.  It is
\* view_duration_sec only in a scenario that has no scroll_interval_sec: others
\* are not asked for it.
RangeOf(name) == IF warm.reversed = name THEN <<2, 1>> ELSE <<1, 2>>
Panics(name) == PickRange(RangeOf(name)) = {}

\* The pause at the end of a round, and the next one.
NextRound == IF Panics("swipe_pause_ms") THEN "dropped" ELSE "swipe"

Spend(n) == IF n < warm.left THEN warm.left - n ELSE 0

\* A marker when the screen has changed, to one like it or not.
Stale(marker, alike) ==
    IF marker = "none" THEN "none" ELSE IF alike THEN "same" ELSE "other"

\* What the warm-up may be once the screen has changed.
PassedTo(alike, h) ==
    [warm EXCEPT !.before = Stale(@, alike), !.after = Stale(@, alike), !.hint = h,
                 !.alike = @ \/ (alike /\ warm.before # "none"), !.frozen = 0]

Passed == {PassedTo(alike, h) : alike \in BOOLEAN, h \in BOOLEAN}

\* CaptureScreen: the size, or a failure, or an answer without one.
CaptureScreen == {Actual, Unsized}

\* captureFeedMarkerReliable: the marker of the screen, or none in time.
CaptureMarker == {"same", "none"}

\* No marker, or one that names a foreign app (isForeignAppMarker).
LeftApp(w, marker) == marker = "none" \/ w.hint

\* Faulty variant of SwipeOutcome: no dump, no movement.
SwipeOutcomeBlind(b, a) == IF a \in {b, "none"} THEN "unchanged" ELSE "changed"

\* feedSwipeOutcome: a dump that failed says nothing, and with nothing to
\* compare it with the feed counts as moved.
SwipeOutcome(b, a) ==
    IF a = "none" THEN "unknown" ELSE IF b = a THEN "unchanged" ELSE "changed"

-----------------------------------------------------------------------------
(***************************************************************************)
(* Before the first swipe.                                                 *)
(***************************************************************************)

\* Ranges drawn from at once: a reversed one panics here.
DrawnFirst == {"duration_sec", "likes_max"}

\* The step's parameters.
WarmBegin ==
    \E h \in BOOLEAN, r \in Ranges \union {"none"}, d \in Durations, u \in Untils :
        warm' = [Idle EXCEPT
            !.hint = h,
            !.reversed = r,
            !.at = IF r \in DrawnFirst THEN "dropped" ELSE "size",
            !.left = IF r \in DrawnFirst THEN 0 ELSE WarmupWindow(d, u) \div 15]

\* resolveFeedScreenSize: from a capture, or else from the record.
Resolve ==
    /\ warm.at = "size"
    /\ \E captured \in CaptureScreen, record \in Stored :
        LET s == IF captured # Unsized THEN captured ELSE record
        IN  warm' = [warm EXCEPT !.size = PortraitSize(s), !.known = s # Unsized,
                                 !.at = "look"]

\* The first video is watched for a while, and its marker taken.
FirstLook ==
    /\ warm.at = "look"
    /\ IF Panics("initial_view_sec") THEN warm' = [warm EXCEPT !.at = "dropped"]
       ELSE \E m \in CaptureMarker : warm' = [warm EXCEPT !.before = m, !.at = "swipe"]

\* Between its calls the warm-up ends when the client that asked for the step
\* has gone.
Disconnect ==
    /\ warm.at \in {"look", "swipe", "watch", "like"}
    /\ warm' = [warm EXCEPT !.at = "failed"]

-----------------------------------------------------------------------------
(***************************************************************************)
(* A round.                                                                *)
(***************************************************************************)

\* The swipe and up to three dumps.  A swipe may have no effect, and it may
\* leave the app.
Swipe ==
    /\ warm.at = "swipe" /\ warm.left > 0
    /\ \E m \in CaptureMarker, changed \in BOOLEAN :
       \E w \in IF changed THEN Passed ELSE {warm} :
            warm' = [w EXCEPT
                !.after = m,
                !.outcome = SwipeOutcome(w.before, m),
                !.at = IF LeftApp(w, m) THEN "relaunch" ELSE "judge",
                !.frozen = IF ~changed /\ m = "same" THEN @ + 1 ELSE @,
                !.still = IF changed THEN 0 ELSE IF @ < 2 THEN @ + 1 ELSE 2]

\* A swipe that fails, perhaps after it was made, ends the warm-up.
SwipeFails ==
    /\ warm.at = "swipe" /\ warm.left > 0
    /\ warm' = [warm EXCEPT !.at = "failed"]

TimeIsUp ==
    /\ warm.at = "swipe" /\ warm.left = 0
    /\ warm' = [warm EXCEPT !.at = "done"]

\* Faulty variant of Relaunch: the feed is swiped again at once.
RelaunchAgain ==
    /\ warm.at = "relaunch"
    /\ \E m \in CaptureMarker, w \in Passed :
        warm' = [w EXCEPT !.before = m, !.streak = 0, !.at = "swipe"]

\* relaunchTikTokPackage: home, launch, and one dump to start again from.
Relaunch ==
    /\ warm.at = "relaunch"
    /\ \E m \in CaptureMarker, w \in Passed :
        warm' = [w EXCEPT !.before = m, !.streak = 0, !.at = "judge"]

\* Home fails, or the launch after it: the warm-up goes on where it is.
RelaunchFails ==
    /\ warm.at = "relaunch"
    /\ \E w \in {warm} \union Passed : warm' = [w EXCEPT !.at = "judge"]

\* Faulty variant of Judge: the feed is recovered at the third outcome.
JudgeLate ==
    /\ warm.at = "judge"
    /\ LET n == CASE warm.outcome = "unchanged" -> warm.streak + 1
                  [] warm.outcome = "changed" -> 0
                  [] OTHER -> warm.streak
       IN  warm' = [warm EXCEPT
              !.streak = n,
              !.before = IF warm.outcome = "changed" THEN warm.after ELSE @,
              !.after = "none", !.outcome = "unknown",
              !.at = IF n > 2 THEN "treat" ELSE "watch"]

\* The outcome is counted.  A changed one replaces the marker to compare with,
\* also the one just taken after a relaunch.
Judge ==
    /\ warm.at = "judge"
    /\ LET n == CASE warm.outcome = "unchanged" -> warm.streak + 1
                  [] warm.outcome = "changed" -> 0
                  [] OTHER -> warm.streak
       IN  warm' = [warm EXCEPT
              !.streak = n,
              !.before = IF warm.outcome = "changed" THEN warm.after ELSE @,
              !.after = "none", !.outcome = "unknown",
              !.at = IF n >= 2 THEN "treat" ELSE "watch"]

\* tryRecoverBlockedFeed: a recovery flow or, without one, two more swipes.
\* Either may change the screen, or not; then two dumps.
Treat ==
    /\ warm.at = "treat"
    /\ \E m \in CaptureMarker, w \in {warm} \union Passed :
        warm' = [w EXCEPT !.before = IF m = "none" THEN @ ELSE m,
                          !.streak = 0, !.frozen = 0, !.at = "watch"]

\* The video is watched, for six seconds if the scenario says nothing.
Watch ==
    /\ warm.at = "watch"
    /\ IF Panics("scroll_interval_sec") \/ Panics("view_duration_sec")
       THEN warm' = [warm EXCEPT !.at = "dropped"]
       ELSE \E n \in PickRange(RangeOf("scroll_interval_sec")) :
            \E next \in {NextRound} \union (IF warm.likes < MaxLikes THEN {"like"} ELSE {}) :
                warm' = [warm EXCEPT !.left = Spend(n), !.at = next]

\* A like, and a pause no longer than the time left.  The tap may leave the
\* screen as it was, to a dump.
Like ==
    /\ warm.at = "like"
    /\ \E w \in {warm} \union Passed :
        IF Panics("like_cooldown_sec") THEN warm' = [w EXCEPT !.at = "dropped"]
        ELSE \E n \in PickRange(RangeOf("like_cooldown_sec")) :
            warm' = [w EXCEPT !.likes = @ + 1, !.left = Spend(n), !.at = NextRound]

\* A tap that fails, perhaps after it was made, is not counted as a like.
LikeFails ==
    /\ warm.at = "like"
    /\ \E w \in {warm} \union Passed : warm' = [w EXCEPT !.at = NextRound]

WarmStep ==
    \/ Resolve \/ FirstLook \/ Disconnect
    \/ Swipe \/ SwipeFails \/ TimeIsUp \/ Relaunch \/ RelaunchFails
    \/ Judge \/ Treat \/ Watch \/ Like \/ LikeFails

-----------------------------------------------------------------------------
(***************************************************************************)
(* Properties.                                                             *)
(***************************************************************************)

\* A feed that three swipes in a row were seen not to move is recovered: the
\* fourth is not made before that.
FrozenIsTreated == warm.at = "swipe" => warm.frozen <= 2

\* Only a feed that the last two swipes did not move is recovered, however
\* many dumps fail and whatever else changes the screen (the comment on
\* feedSwipeOutcome, and TestFeedSwipeOutcome), if screens that follow each
\* other have different markers.
RecoveryOnlyWhenStill == warm.at = "treat" /\ ~warm.alike => warm.still = 2

\* What a warm-up has left to do: the rest of the round, and no more than six
\* calls for each slice of time that is left.
WarmLeft ==
    CASE warm.at \in {"off", "done", "failed", "dropped"} -> 0
      [] warm.at = "watch" -> 6 * warm.left + 1
      [] warm.at = "treat" -> 6 * warm.left + 2
      [] warm.at = "judge" -> 6 * warm.left + 3
      [] warm.at = "relaunch" -> 6 * warm.left + 4
      [] warm.at = "swipe" -> 6 * warm.left + 5
      [] warm.at \in {"like", "look"} -> 6 * warm.left + 6
      [] warm.at = "size" -> 6 * warm.left + 7

\* Gestures meant for the reference screen land on the phone's, and a feed is
\* swiped upwards, whenever the observer or the record knows the screen's
\* size, sides in either order.
GesturesLand ==
    warm.known =>
        /\ \A p \in Aims : OnScreen(ScalePoint(p, warm.size), Actual)
        /\ LET from == ScalePoint(FeedSwipe[1], warm.size)
               to == ScalePoint(FeedSwipe[2], warm.size)
           IN  from[1] = to[1] /\ from[2] > to[2]
=============================================================================
