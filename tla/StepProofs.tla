----------------------------- MODULE StepProofs -----------------------------
(***************************************************************************)
(* Proofs about scenario steps: the runner's arithmetic for all integers,  *)
(* and the warm-up of a feed for any number of likes, any durations and    *)
(* any time of day.                                                        *)
(***************************************************************************)
EXTENDS ScenarioStep, TLAPS

-----------------------------------------------------------------------------
(***************************************************************************)
(* Arithmetic.                                                             *)
(***************************************************************************)

\* scaleCoord, of any value: on the screen, and off its edge.
LEMMA ScaledCoord ==
    ASSUME NEW value \in Int, NEW ref \in Nat, ref > 0, NEW size \in Nat, size > 1
    PROVE  ScaleCoord(value, ref, size) \in 1 .. size - 1
    <1> DEFINE v == (value * size) \div ref
    <1>1. v \in Int
      <2>1. value * size \in Int
        OBVIOUS
      <2>2. QED
        BY <2>1
    <1>2. ScaleCoord(value, ref, size) =
            IF v < 1 THEN 1 ELSE IF v >= size THEN size - 1 ELSE v
      BY DEF ScaleCoord
    <1> HIDE DEF v
    <1>3. QED
      BY <1>1, <1>2

\* Whatever point of whatever scenario, and whatever screen of at least two
\* pixels either way: the gesture lands on the screen (clamp of scaleCoord).
THEOREM ScaledPointsLand ==
    ASSUME NEW x \in Int, NEW y \in Int, NEW w \in Nat, NEW h \in Nat, w > 1, h > 1
    PROVE  OnScreen(ScalePoint(<<x, y>>, <<w, h>>), <<w, h>>)
    <1>1. RefW \in Nat /\ RefW > 0 /\ RefH \in Nat /\ RefH > 0
      BY DEF RefW, RefH
    <1>2. ScaleCoord(x, RefW, w) \in 1 .. w - 1
      BY <1>1, ScaledCoord
    <1>3. ScaleCoord(y, RefH, h) \in 1 .. h - 1
      BY <1>1, ScaledCoord
    <1>4. QED
      BY <1>2, <1>3 DEF OnScreen, ScalePoint

\* On any screen three pixels high or more a feed is swiped straight up.
LEMMA FeedSwipesUp ==
    ASSUME NEW w \in Nat, NEW h \in Nat, h >= 3
    PROVE  LET from == ScalePoint(FeedSwipe[1], <<w, h>>)
               to == ScalePoint(FeedSwipe[2], <<w, h>>)
           IN  from[1] = to[1] /\ from[2] > to[2]
    <1> DEFINE a == (1650 * h) \div 1920
               b == (450 * h) \div 1920
    <1>1. /\ a \in Int /\ 1920 * a <= 1650 * h /\ 1650 * h < 1920 * a + 1920
          /\ b \in Int /\ 1920 * b <= 450 * h /\ 450 * h < 1920 * b + 1920
      OBVIOUS
    <1>2. /\ ScaleCoord(1650, RefH, h) = IF a < 1 THEN 1 ELSE IF a >= h THEN h - 1 ELSE a
          /\ ScaleCoord(450, RefH, h) = IF b < 1 THEN 1 ELSE IF b >= h THEN h - 1 ELSE b
      BY DEF ScaleCoord, RefH
    <1> HIDE DEF a, b
    <1>3. ScaleCoord(1650, RefH, h) > ScaleCoord(450, RefH, h)
      BY <1>1, <1>2
    <1>4. QED
      BY <1>3 DEF ScalePoint, FeedSwipe

\* The portrait size has its width no larger than its height, and is a size.
LEMMA Portrait ==
    ASSUME NEW a \in Int, NEW b \in Int
    PROVE  LET s == PortraitSize(<<a, b>>)
           IN  s[1] \in Nat /\ s[2] \in Nat /\ s[1] > 0 /\ s[1] <= s[2]
    BY DEF PortraitSize, RefW, RefH

\* A warm-up lasts, and no longer than asked for; a time of day that is near
\* leaves it half a minute at least.
LEMMA Window ==
    ASSUME NEW d \in Int, NEW u \in Int
    PROVE  /\ WarmupWindow(d, u) \in Nat /\ WarmupWindow(d, u) > 0
           /\ d > 0 => WarmupWindow(d, u) <= d
           /\ WarmupWindow(d, u) \div 15 \in Nat
    <1>1. WarmupWindow(d, u) \in Nat /\ WarmupWindow(d, u) > 0
          /\ (d > 0 => WarmupWindow(d, u) <= d)
      BY DEF WarmupWindow
    <1>2. QED
      BY <1>1

-----------------------------------------------------------------------------
(***************************************************************************)
(* The warm-up's invariant.  Frozen: as long as swipes are seen to have no *)
(* effect, the marker to compare with is the screen's, and all but the     *)
(* first of them have been counted.  Streak: what is counted was without   *)
(* effect, unless a changed screen had the marker that was remembered.     *)
(***************************************************************************)

Calm == {"size", "look", "swipe", "watch", "like"}
Open == {"relaunch", "judge"}

FrozenInv ==
    /\ warm.at \in {"size", "look"} => warm.streak = 0 /\ warm.frozen = 0
    /\ warm.at \in Calm =>
          /\ warm.streak <= 1
          /\ warm.frozen >= 1 => warm.before = "same" /\ warm.frozen <= warm.streak + 1
    /\ warm.at \in Open =>
          /\ warm.streak <= 1
          /\ warm.frozen >= 1 =>
                \/ warm.outcome = "changed" /\ warm.after = "same" /\ warm.frozen = 1
                \/ /\ warm.outcome = "unchanged" /\ warm.before = "same"
                   /\ warm.frozen <= warm.streak + 2
                \/ /\ warm.outcome = "unknown" /\ warm.before = "same"
                   /\ warm.frozen <= warm.streak + 1

StreakInv ==
    ~warm.alike =>
        /\ warm.at \in Calm /\ warm.before = "same" => warm.streak <= warm.still
        /\ warm.at \in Open /\ warm.outcome = "unchanged" => warm.streak + 1 <= warm.still
        /\ warm.at \in Open /\ warm.outcome = "unknown" /\ warm.before = "same" =>
              warm.streak <= warm.still
        /\ warm.at = "treat" => warm.streak = 2 /\ warm.still = 2

RestInv ==
    /\ warm.known => warm.size = Actual
    /\ warm.at = "like" => warm.likes < MaxLikes

WarmInv == WarmTypeOK /\ FrozenInv /\ StreakInv /\ RestInv

LEMMA IdleWarm == Idle \in WarmType
    BY WarmupAssumption DEF WarmType, Idle, Places, Markers, Outcomes

\* What the invariant makes of a warm-up whose screen has changed.
LEMMA PassedWarm ==
    ASSUME WarmInv, NEW w \in Passed
    PROVE  /\ w \in WarmType
           /\ w.frozen = 0 /\ w.still = warm.still /\ w.streak = warm.streak
           /\ w.at = warm.at /\ w.outcome = warm.outcome /\ w.likes = warm.likes
           /\ w.left = warm.left /\ w.reversed = warm.reversed
           /\ w.known = warm.known /\ w.size = warm.size
           /\ (warm.alike => w.alike) /\ (w.before = "same" => w.alike)
    <1>0. PICK alike \in BOOLEAN, h \in BOOLEAN : w = PassedTo(alike, h)
      BY DEF Passed
    <1>1. w = [warm EXCEPT !.before = Stale(@, alike), !.after = Stale(@, alike), !.hint = h,
                           !.alike = @ \/ (alike /\ warm.before # "none"), !.frozen = 0]
      BY <1>0, Zenon DEF PassedTo
    <1>2. warm \in WarmType
      BY DEF WarmInv, WarmTypeOK
    <1>3. /\ Stale(warm.before, alike) \in Markers /\ Stale(warm.after, alike) \in Markers
          /\ Stale(warm.before, alike) = "same" => alike /\ warm.before # "none"
      BY DEF Stale, Markers
    <1>4. (warm.alike \/ (alike /\ warm.before # "none")) \in BOOLEAN
      OBVIOUS
    <1>5. w \in WarmType
      BY <1>1, <1>2, <1>3, <1>4 DEF WarmType
    <1>6. w.before = Stale(warm.before, alike)
          /\ w.alike = (warm.alike \/ (alike /\ warm.before # "none"))
      BY <1>1, <1>2 DEF WarmType
    <1>7. /\ w.frozen = 0 /\ w.still = warm.still /\ w.streak = warm.streak
          /\ w.at = warm.at /\ w.outcome = warm.outcome /\ w.likes = warm.likes
          /\ w.left = warm.left /\ w.reversed = warm.reversed
          /\ w.known = warm.known /\ w.size = warm.size
      BY <1>1, <1>2 DEF WarmType
    <1>8. QED
      BY <1>3, <1>5, <1>6, <1>7

-----------------------------------------------------------------------------
(***************************************************************************)
(* The steps of a warm-up.                                                 *)
(***************************************************************************)

LEMMA BeginWarm ==
    ASSUME WarmBegin
    PROVE  WarmInv'
    <1>1. PICK h \in BOOLEAN, r \in Ranges \union {"none"}, d \in Durations, u \in Untils :
            warm' = [Idle EXCEPT
                !.hint = h, !.reversed = r,
                !.at = IF r \in DrawnFirst THEN "dropped" ELSE "size",
                !.left = IF r \in DrawnFirst THEN 0 ELSE WarmupWindow(d, u) \div 15]
      BY DEF WarmBegin
    <1> DEFINE at == IF r \in DrawnFirst THEN "dropped" ELSE "size"
               left == IF r \in DrawnFirst THEN 0 ELSE WarmupWindow(d, u) \div 15
    <1>2. d \in Int /\ u \in Int
      BY WarmupAssumption
    <1>3. at \in Places /\ left \in Nat
      BY <1>2, Window DEF Places
    <1>4. warm' = [Idle EXCEPT !.hint = h, !.reversed = r, !.at = at, !.left = left]
      BY <1>1
    <1> HIDE DEF at, left
    <1>5. warm' \in WarmType
      BY <1>3, <1>4, IdleWarm DEF WarmType
    <1>6. /\ warm'.frozen = 0 /\ warm'.streak = 0 /\ warm'.before = "none"
          /\ warm'.outcome = "unknown" /\ warm'.known = FALSE /\ warm'.at = at
      BY <1>4 DEF Idle
    <1>7. at \in {"dropped", "size"}
      BY DEF at
    <1>8. QED
      BY <1>5, <1>6, <1>7 DEF WarmInv, WarmTypeOK, FrozenInv, StreakInv, RestInv, Calm, Open

LEMMA ResolveWarm ==
    ASSUME WarmInv, Resolve
    PROVE  WarmInv'
    <1>1. PICK captured \in CaptureScreen, stored \in Stored :
            LET s == IF captured # Unsized THEN captured ELSE stored
            IN  warm' = [warm EXCEPT !.size = PortraitSize(s), !.known = s # Unsized,
                                     !.at = "look"]
      BY DEF Resolve
    <1> DEFINE s == IF captured # Unsized THEN captured ELSE stored
    <1>2. s \in {Unsized, Actual, <<1600, 720>>}
      BY DEF CaptureScreen, Stored
    <1>3. /\ PortraitSize(Unsized) = <<RefW, RefH>> /\ PortraitSize(Actual) = Actual
          /\ PortraitSize(<<1600, 720>>) = Actual
      BY DEF PortraitSize, Unsized, Actual
    <1>4. warm' = [warm EXCEPT !.size = PortraitSize(s), !.known = s # Unsized, !.at = "look"]
      BY <1>1
    <1> HIDE DEF s
    <1>5. PortraitSize(s) \in {Actual, <<RefW, RefH>>} /\ (s # Unsized => PortraitSize(s) = Actual)
      BY <1>2, <1>3
    <1>6. (s # Unsized) \in BOOLEAN /\ warm \in WarmType /\ warm.at = "size"
      BY DEF WarmInv, WarmTypeOK, Resolve
    <1>7. warm' \in WarmType
      BY <1>4, <1>5, <1>6 DEF WarmType, Places
    <1>8. /\ warm'.known = (s # Unsized) /\ warm'.size = PortraitSize(s) /\ warm'.at = "look"
          /\ warm'.before = warm.before /\ warm'.streak = warm.streak /\ warm'.still = warm.still
          /\ warm'.frozen = warm.frozen /\ warm'.alike = warm.alike
      BY <1>4, <1>6 DEF WarmType
    <1>9. QED
      BY <1>5, <1>6, <1>7, <1>8
         DEF WarmInv, WarmTypeOK, FrozenInv, StreakInv, RestInv, Calm, Open

LEMMA SwipeWarm ==
    ASSUME WarmInv, Swipe
    PROVE  WarmInv'
    <1>0. PICK m \in CaptureMarker, changed \in BOOLEAN :
            \E w \in IF changed THEN Passed ELSE {warm} :
                warm' = [w EXCEPT
                    !.after = m,
                    !.outcome = SwipeOutcome(w.before, m),
                    !.at = IF LeftApp(w, m) THEN "relaunch" ELSE "judge",
                    !.frozen = IF ~changed /\ m = "same" THEN @ + 1 ELSE @,
                    !.still = IF changed THEN 0 ELSE IF @ < 2 THEN @ + 1 ELSE 2]
      BY DEF Swipe
    <1>1. PICK w \in IF changed THEN Passed ELSE {warm} :
            warm' = [w EXCEPT
                !.after = m,
                !.outcome = SwipeOutcome(w.before, m),
                !.at = IF LeftApp(w, m) THEN "relaunch" ELSE "judge",
                !.frozen = IF ~changed /\ m = "same" THEN @ + 1 ELSE @,
                !.still = IF changed THEN 0 ELSE IF @ < 2 THEN @ + 1 ELSE 2]
      BY <1>0
    <1> DEFINE o == SwipeOutcome(w.before, m)
               at == IF LeftApp(w, m) THEN "relaunch" ELSE "judge"
               frozen == IF ~changed /\ m = "same" THEN w.frozen + 1 ELSE w.frozen
               still == IF changed THEN 0 ELSE IF w.still < 2 THEN w.still + 1 ELSE 2
    <1>2. warm' = [w EXCEPT !.after = m, !.outcome = o, !.at = at, !.frozen = frozen, !.still = still]
      BY <1>1
    <1>3. /\ w \in WarmType /\ warm.at = "swipe" /\ w.streak = warm.streak /\ w.still = warm.still
          /\ w.known = warm.known /\ w.size = warm.size
          /\ changed => w.frozen = 0 /\ (w.before = "same" => w.alike)
          /\ ~changed => w = warm
          /\ (warm.alike => w.alike)
      BY PassedWarm DEF WarmInv, WarmTypeOK, Swipe
    <1>4. /\ m \in {"same", "none"} /\ w.before \in {"none", "same", "other"}
          /\ w.frozen \in Nat /\ w.still \in 0 .. 2 /\ w.streak \in 0 .. 2
          /\ w.alike \in BOOLEAN
      BY <1>3 DEF CaptureMarker, WarmType, Markers
    <1>5. /\ o = "unknown" <=> m = "none"
          /\ o = "unchanged" <=> m = "same" /\ w.before = "same"
          /\ o = "changed" <=> m = "same" /\ w.before # "same"
          /\ o \in {"unknown", "changed", "unchanged"}
      BY <1>4 DEF SwipeOutcome
    <1>6. at \in {"relaunch", "judge"} /\ frozen \in Nat /\ still \in 0 .. 2
      BY <1>4
    <1>7. /\ warm.streak <= 1
          /\ warm.frozen >= 1 => warm.before = "same" /\ warm.frozen <= warm.streak + 1
          /\ ~warm.alike /\ warm.before = "same" => warm.streak <= warm.still
      BY <1>3 DEF WarmInv, FrozenInv, StreakInv, Calm
    <1> HIDE DEF o, at
    <1>8. frozen >= 1 =>
            \/ o = "changed" /\ m = "same" /\ frozen = 1
            \/ o = "unchanged" /\ w.before = "same" /\ frozen <= w.streak + 2
            \/ o = "unknown" /\ w.before = "same" /\ frozen <= w.streak + 1
      <2>1. CASE changed
        BY <1>3, <1>4, <2>1
      <2>2. CASE ~changed
        BY <1>3, <1>4, <1>5, <1>7, <2>2
      <2>3. QED
        BY <2>1, <2>2
    <1>9. ~w.alike =>
            /\ o = "unchanged" => w.streak + 1 <= still
            /\ o = "unknown" /\ w.before = "same" => w.streak <= still
      <2>1. CASE changed
        BY <1>3, <1>4, <1>5, <2>1
      <2>2. CASE ~changed
        BY <1>3, <1>4, <1>5, <1>7, <2>2
      <2>3. QED
        BY <2>1, <2>2
    <1> HIDE DEF frozen, still
    <1>10. warm' \in WarmType
      BY <1>2, <1>3, <1>4, <1>5, <1>6 DEF WarmType, Places, Outcomes, Markers
    <1>11. /\ warm'.at = at /\ warm'.outcome = o /\ warm'.after = m /\ warm'.frozen = frozen
           /\ warm'.still = still /\ warm'.streak = w.streak /\ warm'.before = w.before
           /\ warm'.alike = w.alike /\ warm'.known = w.known /\ warm'.size = w.size
      BY <1>2, <1>3 DEF WarmType
    <1>12. FrozenInv'
      BY <1>3, <1>6, <1>7, <1>8, <1>11 DEF FrozenInv, Calm, Open
    <1>13. StreakInv'
      BY <1>6, <1>9, <1>11 DEF StreakInv, Calm, Open
    <1>14. RestInv'
      BY <1>3, <1>6, <1>11 DEF WarmInv, RestInv
    <1>15. QED
      BY <1>10, <1>12, <1>13, <1>14 DEF WarmInv, WarmTypeOK

\* A warm-up that is as it was, or has had the screen changed under it.
LEMMA MaybePassed ==
    ASSUME WarmInv, NEW w \in {warm} \union Passed
    PROVE  /\ w \in WarmType /\ warm \in WarmType
           /\ w.streak = warm.streak /\ w.at = warm.at /\ w.outcome = warm.outcome
           /\ w.still = warm.still /\ w.known = warm.known /\ w.size = warm.size
           /\ w.likes = warm.likes /\ w.left = warm.left /\ w.reversed = warm.reversed
           /\ (warm.alike => w.alike)
           /\ w = warm \/ (w.frozen = 0 /\ (w.before = "same" => w.alike))
    BY PassedWarm DEF WarmInv, WarmTypeOK

LEMMA ChangedWarm ==
    ASSUME WarmInv, warm' \in Passed
    PROVE  WarmInv'
    <1>1. PICK w \in Passed : w = warm'
      OBVIOUS
    <1>2. /\ w \in WarmType /\ w.frozen = 0 /\ w.still = warm.still /\ w.streak = warm.streak
          /\ w.at = warm.at /\ w.outcome = warm.outcome /\ w.likes = warm.likes
          /\ w.known = warm.known /\ w.size = warm.size
          /\ (warm.alike => w.alike) /\ (w.before = "same" => w.alike)
      BY PassedWarm
    <1>3. WarmTypeOK' /\ FrozenInv' /\ RestInv'
      BY <1>1, <1>2 DEF WarmInv, WarmTypeOK, FrozenInv, RestInv
    <1>4. StreakInv'
      BY <1>1, <1>2 DEF WarmInv, StreakInv
    <1>5. QED
      BY <1>3, <1>4 DEF WarmInv

LEMMA LookWarm ==
    ASSUME WarmInv, FirstLook
    PROVE  WarmInv'
    <1>1. warm \in WarmType /\ warm.at = "look"
      BY DEF WarmInv, WarmTypeOK, FirstLook
    <1>2. PICK m \in Markers, at \in {"swipe", "dropped"} :
            warm' = [warm EXCEPT !.before = m, !.at = at]
      <2>1. CASE warm' = [warm EXCEPT !.at = "dropped"]
        <3>1. warm' = [warm EXCEPT !.before = warm.before, !.at = "dropped"]
          BY <1>1, <2>1 DEF WarmType
        <3>2. warm.before \in Markers
          BY <1>1 DEF WarmType
        <3>3. QED
          BY <3>1, <3>2
      <2>2. ASSUME NEW m \in CaptureMarker, warm' = [warm EXCEPT !.before = m, !.at = "swipe"]
            PROVE  \E n \in Markers, at \in {"swipe", "dropped"} :
                      warm' = [warm EXCEPT !.before = n, !.at = at]
        <3>1. m \in Markers
          BY DEF CaptureMarker, Markers
        <3>2. QED
          BY <2>2, <3>1
      <2>3. QED
        BY <2>1, <2>2 DEF FirstLook
    <1>3. warm' \in WarmType
      BY <1>1, <1>2 DEF WarmType, Places
    <1>4. /\ warm'.at = at /\ warm'.frozen = warm.frozen /\ warm'.streak = warm.streak
          /\ warm'.still = warm.still /\ warm'.known = warm.known /\ warm'.size = warm.size
      BY <1>1, <1>2 DEF WarmType
    <1>5. warm.frozen = 0 /\ warm.streak = 0 /\ warm.still \in 0 .. 2
      BY <1>1 DEF WarmInv, FrozenInv, WarmType
    <1>6. QED
      BY <1>3, <1>4, <1>5 DEF WarmInv, WarmTypeOK, FrozenInv, StreakInv, RestInv, Calm, Open

\* The warm-up is over, or stops.
LEMMA OverWarm ==
    ASSUME WarmInv, Disconnect \/ SwipeFails \/ TimeIsUp
    PROVE  WarmInv'
    <1>1. PICK at \in {"failed", "done"} : warm' = [warm EXCEPT !.at = at]
      BY DEF Disconnect, SwipeFails, TimeIsUp
    <1>2. warm \in WarmType
      BY DEF WarmInv, WarmTypeOK
    <1>3. warm' \in WarmType
      BY <1>1, <1>2 DEF WarmType, Places
    <1>4. warm'.at = at /\ warm'.known = warm.known /\ warm'.size = warm.size
      BY <1>1, <1>2 DEF WarmType
    <1>5. QED
      BY <1>3, <1>4 DEF WarmInv, WarmTypeOK, FrozenInv, StreakInv, RestInv, Calm, Open

LEMMA RelaunchWarm ==
    ASSUME WarmInv, Relaunch
    PROVE  WarmInv'
    <1>1. PICK m \in CaptureMarker, w \in Passed :
            warm' = [w EXCEPT !.before = m, !.streak = 0, !.at = "judge"]
      BY DEF Relaunch
    <1>2. /\ w \in WarmType /\ warm \in WarmType /\ w.frozen = 0 /\ w.still = warm.still
          /\ w.outcome = warm.outcome /\ w.known = warm.known /\ w.size = warm.size
          /\ (warm.alike => w.alike) /\ warm.at = "relaunch" /\ m \in Markers
      BY PassedWarm DEF WarmInv, WarmTypeOK, Relaunch, CaptureMarker, Markers
    <1>3. warm' \in WarmType
      <2>1. w \in WarmType /\ "judge" \in Places /\ m \in Markers /\ 0 \in 0 .. 2
        BY <1>2 DEF Places
      <2>2. [w EXCEPT !.before = m] \in WarmType
        BY <2>1 DEF WarmType
      <2>3. [w EXCEPT !.before = m, !.streak = 0] \in WarmType
        BY <2>1, <2>2 DEF WarmType
      <2>4. QED
        BY <1>1, <2>1, <2>3 DEF WarmType
    <1>4. /\ warm'.at = "judge" /\ warm'.streak = 0 /\ warm'.frozen = 0
          /\ warm'.still = warm.still /\ warm'.outcome = warm.outcome /\ warm'.alike = w.alike
          /\ warm'.known = warm.known /\ warm'.size = warm.size
      BY <1>1, <1>2 DEF WarmType
    <1>5. ~warm.alike /\ warm.outcome = "unchanged" => warm.streak + 1 <= warm.still
      BY <1>2 DEF WarmInv, StreakInv, Open
    <1>6. warm.still \in 0 .. 2 /\ warm.streak \in 0 .. 2
      BY <1>2 DEF WarmType
    <1>7. FrozenInv' /\ RestInv'
      BY <1>4 DEF WarmInv, FrozenInv, RestInv, Calm, Open
    <1>8. StreakInv'
      BY <1>2, <1>4, <1>5, <1>6 DEF StreakInv, Calm, Open
    <1>9. QED
      BY <1>3, <1>7, <1>8 DEF WarmInv, WarmTypeOK

LEMMA RelaunchFailsWarm ==
    ASSUME WarmInv, RelaunchFails
    PROVE  WarmInv'
    <1>1. PICK w \in {warm} \union Passed : warm' = [w EXCEPT !.at = "judge"]
      BY DEF RelaunchFails
    <1>2. /\ w \in WarmType /\ w.streak = warm.streak /\ w.outcome = warm.outcome
          /\ w.still = warm.still /\ w.known = warm.known /\ w.size = warm.size
          /\ (warm.alike => w.alike)
          /\ w = warm \/ (w.frozen = 0 /\ (w.before = "same" => w.alike))
      BY MaybePassed
    <1>3. warm' \in WarmType
      <2>1. w \in WarmType /\ "judge" \in Places
        BY <1>2 DEF Places
      <2>2. QED
        BY <1>1, <2>1 DEF WarmType
    <1>4. /\ warm'.at = "judge" /\ warm'.streak = warm.streak /\ warm'.frozen = w.frozen
          /\ warm'.still = warm.still /\ warm'.outcome = warm.outcome /\ warm'.alike = w.alike
          /\ warm'.before = w.before /\ warm'.after = w.after
          /\ warm'.known = warm.known /\ warm'.size = warm.size
      BY <1>1, <1>2 DEF WarmType
    <1>5. warm.at = "relaunch"
      BY DEF RelaunchFails
    <1>6. FrozenInv' /\ RestInv'
      BY <1>2, <1>4, <1>5 DEF WarmInv, FrozenInv, RestInv, Calm, Open
    <1>7. StreakInv'
      BY <1>2, <1>4, <1>5 DEF WarmInv, StreakInv, Calm, Open
    <1>8. QED
      BY <1>3, <1>6, <1>7 DEF WarmInv, WarmTypeOK

LEMMA JudgeWarm ==
    ASSUME WarmInv, Judge
    PROVE  WarmInv'
    <1> DEFINE n == CASE warm.outcome = "unchanged" -> warm.streak + 1
                      [] warm.outcome = "changed" -> 0
                      [] OTHER -> warm.streak
               before == IF warm.outcome = "changed" THEN warm.after ELSE warm.before
               at == IF n >= 2 THEN "treat" ELSE "watch"
    <1>1. warm \in WarmType /\ warm.at = "judge"
      BY DEF WarmInv, WarmTypeOK, Judge
    <1>2. warm' = [warm EXCEPT !.streak = n, !.before = before, !.after = "none",
                               !.outcome = "unknown", !.at = at]
      BY DEF Judge
    <1>3. warm.streak <= 1 /\ warm.streak \in 0 .. 2 /\ warm.still \in 0 .. 2
          /\ warm.frozen \in Nat /\ warm.outcome \in {"unknown", "changed", "unchanged"}
      BY <1>1 DEF WarmInv, FrozenInv, Open, WarmType, Outcomes
    <1>4. /\ n \in 0 .. 2
          /\ warm.outcome = "unchanged" => n = warm.streak + 1
          /\ warm.outcome = "changed" => n = 0
          /\ warm.outcome = "unknown" => n = warm.streak
      BY <1>3
    <1> HIDE DEF n
    <1>5. before \in Markers /\ (n >= 2 => at = "treat") /\ (n < 2 => at = "watch")
      BY <1>1, <1>4 DEF WarmType
    <1>6. /\ warm.outcome = "changed" => before = warm.after
          /\ warm.outcome # "changed" => before = warm.before
      OBVIOUS
    <1> HIDE DEF before, at
    <1>7. warm' \in WarmType
      <2>1. at \in Places /\ n \in 0 .. 2 /\ "none" \in Markers /\ "unknown" \in Outcomes
        BY <1>4, <1>5 DEF Places, Markers, Outcomes
      <2>2. QED
        BY <1>1, <1>2, <1>5, <2>1 DEF WarmType
    <1>8. /\ warm'.at = at /\ warm'.streak = n /\ warm'.before = before
          /\ warm'.frozen = warm.frozen /\ warm'.still = warm.still
          /\ warm'.alike = warm.alike /\ warm'.known = warm.known /\ warm'.size = warm.size
      BY <1>1, <1>2 DEF WarmType
    <1>9. n < 2 /\ warm.frozen >= 1 => before = "same" /\ warm.frozen <= n + 1
      BY <1>1, <1>3, <1>4, <1>6 DEF WarmInv, FrozenInv, Open
    <1>10. ~warm.alike => /\ n < 2 /\ before = "same" => n <= warm.still
                          /\ n >= 2 => n = 2 /\ warm.still = 2
      BY <1>1, <1>3, <1>4, <1>6 DEF WarmInv, StreakInv, Open
    <1>11. at \in {"treat", "watch"} /\ (at = "treat" <=> n >= 2)
      BY <1>4, <1>5
    <1>12. FrozenInv'
      BY <1>4, <1>8, <1>9, <1>11 DEF FrozenInv, Calm, Open
    <1>13. StreakInv'
      <2>1. CASE warm.alike
        BY <1>8, <2>1 DEF StreakInv
      <2>2. CASE ~warm.alike /\ n >= 2
        BY <1>4, <1>8, <1>10, <1>11, <2>2 DEF StreakInv, Calm, Open
      <2>3. CASE ~warm.alike /\ ~(n >= 2)
        <3>1. at = "watch" /\ n < 2
          BY <1>4, <1>11, <2>3
        <3>2. before = "same" => n <= warm.still
          BY <1>10, <2>3, <3>1
        <3>3. /\ warm'.at = "watch" /\ warm'.streak = n /\ warm'.before = before
              /\ warm'.still = warm.still
          BY <1>8, <3>1
        <3>4. QED
          BY <3>2, <3>3 DEF StreakInv, Calm, Open
      <2>4. QED
        BY <2>1, <2>2, <2>3
    <1>14. QED
      BY <1>7, <1>8, <1>11, <1>12, <1>13 DEF WarmInv, WarmTypeOK, RestInv

LEMMA TreatWarm ==
    ASSUME WarmInv, Treat
    PROVE  WarmInv'
    <1>1. PICK m \in CaptureMarker, w \in {warm} \union Passed :
            warm' = [w EXCEPT !.before = IF m = "none" THEN @ ELSE m,
                              !.streak = 0, !.frozen = 0, !.at = "watch"]
      BY DEF Treat
    <1> DEFINE before == IF m = "none" THEN w.before ELSE m
    <1>2. /\ w \in WarmType /\ w.still = warm.still /\ w.known = warm.known /\ w.size = warm.size
      BY MaybePassed
    <1>3. before \in Markers /\ "watch" \in Places
      BY <1>2 DEF CaptureMarker, Markers, WarmType, Places
    <1>4. warm' \in WarmType
      <2>1. warm' = [w EXCEPT !.before = before, !.streak = 0, !.frozen = 0, !.at = "watch"]
        BY <1>1
      <2> HIDE DEF before
      <2>2. w \in WarmType /\ before \in Markers /\ "watch" \in Places
            /\ 0 \in 0 .. 2 /\ 0 \in Nat
        BY <1>2, <1>3
      <2>3. [w EXCEPT !.before = before, !.streak = 0] \in WarmType
        BY <2>2 DEF WarmType
      <2>4. QED
        BY <2>1, <2>2, <2>3 DEF WarmType
    <1>5. /\ warm'.at = "watch" /\ warm'.streak = 0 /\ warm'.frozen = 0
          /\ warm'.still \in 0 .. 2 /\ warm'.known = warm.known /\ warm'.size = warm.size
      BY <1>1, <1>2 DEF WarmType
    <1>6. QED
      BY <1>4, <1>5 DEF WarmInv, WarmTypeOK, FrozenInv, StreakInv, RestInv, Calm, Open

\* A pause takes from the time left.
LEMMA Spent ==
    ASSUME WarmInv, NEW r, NEW n \in PickRange(RangeOf(r))
    PROVE  Spend(n) \in Nat
    <1>1. n \in Int
      BY DEF PickRange, RangeOf
    <1>2. n > 0
      BY DEF PickRange, RangeOf
    <1>3. warm.left \in Nat
      BY DEF WarmInv, WarmTypeOK, WarmType
    <1>4. QED
      BY <1>1, <1>2, <1>3 DEF Spend

\* What a pause, or the like before it, leaves of the invariant.
LEMMA PausedWarm ==
    ASSUME WarmInv, warm.at \in {"watch", "like"}, NEW w \in {warm} \union Passed,
           NEW likes \in 0 .. MaxLikes, NEW left \in Nat,
           NEW at \in {"swipe", "like", "dropped"}, at = "like" => likes < MaxLikes,
           warm' = [w EXCEPT !.likes = likes, !.left = left, !.at = at]
    PROVE  WarmInv'
    <1>1. /\ w \in WarmType /\ w.streak = warm.streak /\ w.outcome = warm.outcome
          /\ w.still = warm.still /\ w.known = warm.known /\ w.size = warm.size
          /\ (warm.alike => w.alike)
          /\ w = warm \/ (w.frozen = 0 /\ (w.before = "same" => w.alike))
      BY MaybePassed
    <1>2. warm' \in WarmType
      BY <1>1 DEF WarmType, Places
    <1>3. /\ warm'.at = at /\ warm'.likes = likes
          /\ warm'.streak = warm.streak /\ warm'.frozen = w.frozen
          /\ warm'.still = warm.still /\ warm'.alike = w.alike /\ warm'.before = w.before
          /\ warm'.known = warm.known /\ warm'.size = warm.size
      BY <1>1 DEF WarmType
    <1>4. FrozenInv' /\ RestInv'
      BY <1>1, <1>3 DEF WarmInv, FrozenInv, RestInv, Calm, Open
    <1>5. StreakInv'
      BY <1>1, <1>3 DEF WarmInv, StreakInv, Calm, Open
    <1>6. QED
      BY <1>2, <1>4, <1>5 DEF WarmInv, WarmTypeOK

LEMMA WatchWarm ==
    ASSUME WarmInv, Watch
    PROVE  WarmInv'
    <1>1. warm \in WarmType /\ warm.at = "watch"
      BY DEF WarmInv, WarmTypeOK, Watch
    <1>2. warm.likes \in 0 .. MaxLikes /\ warm.left \in Nat
      BY <1>1 DEF WarmType
    <1>3. CASE warm' = [warm EXCEPT !.at = "dropped"]
      <2>1. warm' = [warm EXCEPT !.likes = warm.likes, !.left = warm.left, !.at = "dropped"]
        BY <1>1, <1>3 DEF WarmType
      <2>2. QED
        BY <1>1, <1>2, <2>1, PausedWarm
    <1>4. ASSUME NEW n \in PickRange(RangeOf("scroll_interval_sec")),
                 NEW next \in {"swipe", "like", "dropped"},
                 next = "like" => warm.likes < MaxLikes,
                 warm' = [warm EXCEPT !.left = Spend(n), !.at = next]
          PROVE  WarmInv'
      <2>1. warm' = [warm EXCEPT !.likes = warm.likes, !.left = Spend(n), !.at = next]
        BY <1>1, <1>4 DEF WarmType
      <2>2. Spend(n) \in Nat
        BY Spent
      <2>3. warm.at \in {"watch", "like"} /\ next \in {"swipe", "like", "dropped"}
            /\ (next = "like" => warm.likes < MaxLikes)
        BY <1>1, <1>4
      <2>4. QED
        BY <1>2, <2>1, <2>2, <2>3, PausedWarm
    <1>5. QED
      BY <1>3, <1>4 DEF Watch, NextRound

LEMMA LikeWarm ==
    ASSUME WarmInv, Like
    PROVE  WarmInv'
    <1>1. warm.at = "like"
      BY DEF Like
    <1>2. warm.likes \in 0 .. MaxLikes /\ warm.likes + 1 \in 0 .. MaxLikes /\ warm.left \in Nat
      <2>1. warm.likes \in 0 .. MaxLikes /\ warm.left \in Nat
        BY DEF WarmInv, WarmTypeOK, WarmType
      <2>2. warm.likes < MaxLikes
        BY <1>1 DEF WarmInv, RestInv
      <2>3. MaxLikes \in Nat
        BY WarmupAssumption
      <2>4. QED
        BY <2>1, <2>2, <2>3
    <1>3. PICK w \in {warm} \union Passed :
            IF Panics("like_cooldown_sec") THEN warm' = [w EXCEPT !.at = "dropped"]
            ELSE \E n \in PickRange(RangeOf("like_cooldown_sec")) :
                    warm' = [w EXCEPT !.likes = @ + 1, !.left = Spend(n), !.at = NextRound]
      BY DEF Like
    <1>4. w \in WarmType /\ w.likes = warm.likes /\ w.left = warm.left
      BY MaybePassed
    <1>5. CASE warm' = [w EXCEPT !.at = "dropped"]
      <2>1. warm' = [w EXCEPT !.likes = warm.likes, !.left = warm.left, !.at = "dropped"]
        BY <1>4, <1>5 DEF WarmType
      <2>2. QED
        BY <1>1, <1>2, <2>1, PausedWarm
    <1>6. ASSUME NEW n \in PickRange(RangeOf("like_cooldown_sec")),
                 warm' = [w EXCEPT !.likes = @ + 1, !.left = Spend(n), !.at = NextRound]
          PROVE  WarmInv'
      <2>1. warm' = [w EXCEPT !.likes = warm.likes + 1, !.left = Spend(n), !.at = NextRound]
        BY <1>4, <1>6
      <2>2. Spend(n) \in Nat
        BY Spent
      <2>3. NextRound \in {"swipe", "like", "dropped"} /\ NextRound # "like"
        BY DEF NextRound
      <2>4. QED
        BY <1>1, <1>2, <2>1, <2>2, <2>3, PausedWarm
    <1>7. QED
      BY <1>3, <1>5, <1>6

LEMMA LikeFailsWarm ==
    ASSUME WarmInv, LikeFails
    PROVE  WarmInv'
    <1>1. warm.at = "like"
      BY DEF LikeFails
    <1>2. warm.likes \in 0 .. MaxLikes /\ warm.left \in Nat
      BY DEF WarmInv, WarmTypeOK, WarmType
    <1>3. PICK w \in {warm} \union Passed : warm' = [w EXCEPT !.at = NextRound]
      BY DEF LikeFails
    <1>4. w \in WarmType /\ w.likes = warm.likes /\ w.left = warm.left
      BY MaybePassed
    <1>5. warm' = [w EXCEPT !.likes = warm.likes, !.left = warm.left, !.at = NextRound]
      BY <1>3, <1>4 DEF WarmType
    <1>6. NextRound \in {"swipe", "like", "dropped"} /\ NextRound # "like"
      BY DEF NextRound
    <1>7. QED
      BY <1>1, <1>2, <1>5, <1>6, PausedWarm

-----------------------------------------------------------------------------
(***************************************************************************)
(* The theorems about warm-ups.                                            *)
(***************************************************************************)

\* Outside a warm-up its state is at rest.
LEMMA RestingWarm == ASSUME warm' = Idle PROVE WarmInv'
    <1>1. warm' \in WarmType
      BY IdleWarm
    <1>2. warm'.known = FALSE /\ warm'.at = "off"
      BY DEF Idle
    <1>3. QED
      BY <1>1, <1>2 DEF WarmInv, WarmTypeOK, FrozenInv, StreakInv, RestInv, Calm, Open

LEMMA WarmStart == Init => WarmInv
    <1> SUFFICES ASSUME Init PROVE WarmInv
      OBVIOUS
    <1>1. warm = Idle
      BY DEF Init, WarmInit
    <1>2. warm \in WarmType
      BY <1>1, IdleWarm
    <1>3. warm.known = FALSE /\ warm.at = "off"
      BY <1>1 DEF Idle
    <1>4. QED
      BY <1>2, <1>3 DEF WarmInv, WarmTypeOK, FrozenInv, StreakInv, RestInv, Calm, Open

LEMMA WarmStepInv == WarmInv /\ [Next]_vars => WarmInv'
    <1> SUFFICES ASSUME WarmInv, [Next]_vars
                 PROVE  WarmInv'
      OBVIOUS
    <1>1. CASE UNCHANGED warm
      BY <1>1 DEF WarmInv, WarmTypeOK, FrozenInv, StreakInv, RestInv
    <1>2. CASE Admit /\ ~UNCHANGED warm
      <2>1. WarmBegin
        BY <1>2 DEF Admit
      <2>2. QED
        BY <2>1, BeginWarm
    <1>3. CASE Warm
      <2>1. WarmStep
        BY <1>3 DEF Warm
      <2>2. QED
        BY <2>1, ResolveWarm, LookWarm, OverWarm, SwipeWarm, RelaunchWarm, RelaunchFailsWarm,
           JudgeWarm, TreatWarm, WatchWarm, LikeWarm, LikeFailsWarm DEF WarmStep
    <1>4. CASE WarmReturns
      BY <1>4, RestingWarm DEF WarmReturns
    <1>5. CASE JobActs /\ ~UNCHANGED warm
      <2>1. warm' \in Passed
        BY <1>5 DEF JobActs
      <2>2. QED
        BY <2>1, ChangedWarm
    <1>6. QED
      BY <1>1, <1>2, <1>3, <1>4, <1>5
         DEF Next, RunnerStep, vars, Request, Reject, Perform, PerformFails, Download,
             DownloadFails, TapGallery, Submit, SubmitFails, JobDone, JobFailed, PollFails,
             JobTimesOut, AwaitVideo, Complete, JobEnds, OrphanEnds, Deliver, Pause, Resume

LEMMA WarmInvariant == Spec => []WarmInv
    BY WarmStart, WarmStepInv, PTL DEF Spec

\* Of any warm-up, however long and with whatever jobs moving the screen: three
\* swipes seen to have no effect are not followed by a fourth before the feed
\* is recovered.
THEOREM FrozenFeedsAreTreated == Spec => []FrozenIsTreated
    <1>1. WarmInv => FrozenIsTreated
      BY DEF WarmInv, FrozenInv, FrozenIsTreated, Calm, WarmTypeOK, WarmType
    <1>2. QED
      BY <1>1, WarmInvariant, PTL

\* And a feed is recovered only after two swipes without effect, unless two
\* screens had the same marker.
THEOREM MovingFeedsAreNot == Spec => []RecoveryOnlyWhenStill
    <1>1. WarmInv => RecoveryOnlyWhenStill
      BY DEF WarmInv, StreakInv, RecoveryOnlyWhenStill
    <1>2. QED
      BY <1>1, WarmInvariant, PTL

\* The points of the scenarios are points.
LEMMA AimsArePoints == \A p \in Aims : p[1] \in Int /\ p[2] \in Int
    <1>1. \A s \in Swipes : s[1][1] \in Int /\ s[1][2] \in Int /\ s[2][1] \in Int /\ s[2][2] \in Int
      BY DEF Swipes, FeedSwipe, PageSwipe, ControlSwipe
    <1>2. \A p \in Points : p[1] \in Int /\ p[2] \in Int
      BY DEF Points, LikePoint, AddressPoint, PublishPoints, CentrePoint
    <1>3. QED
      BY <1>1, <1>2 DEF Aims

\* In any warm-up, gestures land on the screen and the feed is swiped upwards,
\* if the screen's size is known.
THEOREM GesturesDoLand == Spec => []GesturesLand
    <1>1. WarmInv => GesturesLand
      <2> SUFFICES ASSUME WarmInv, warm.known
                   PROVE  /\ \A p \in Aims : OnScreen(ScalePoint(p, warm.size), Actual)
                          /\ LET from == ScalePoint(FeedSwipe[1], warm.size)
                                 to == ScalePoint(FeedSwipe[2], warm.size)
                             IN  from[1] = to[1] /\ from[2] > to[2]
        BY DEF GesturesLand
      <2>1. warm.size = <<720, 1600>> /\ Actual = <<720, 1600>>
        BY DEF WarmInv, RestInv, Actual
      <2>2. ASSUME NEW p \in Aims PROVE OnScreen(ScalePoint(p, <<720, 1600>>), <<720, 1600>>)
        <3>1. p[1] \in Int /\ p[2] \in Int
          BY AimsArePoints
        <3>2. OnScreen(ScalePoint(<<p[1], p[2]>>, <<720, 1600>>), <<720, 1600>>)
          BY <3>1, ScaledPointsLand
        <3>3. QED
          BY <3>2 DEF ScalePoint
      <2>3. LET from == ScalePoint(FeedSwipe[1], <<720, 1600>>)
                to == ScalePoint(FeedSwipe[2], <<720, 1600>>)
            IN  from[1] = to[1] /\ from[2] > to[2]
        BY FeedSwipesUp
      <2>4. QED
        BY <2>1, <2>2, <2>3
    <1>2. QED
      BY <1>1, WarmInvariant, PTL

-----------------------------------------------------------------------------
(***************************************************************************)
(* Paused phones.                                                          *)
(***************************************************************************)

LicenceInv ==
    /\ DOMAIN step = DOMAIN NoStep
    /\ step.licence \in BOOLEAN /\ state \in {"working", "paused"}
    /\ step.stage # "idle" => step.licence \/ state = "paused"
    /\ PausedIsLeftAlone

LEMMA NoStepLicence == ASSUME LicenceInv, step' = NoStep, state' = state PROVE LicenceInv'
    BY DEF LicenceInv, NoStep, PausedIsLeftAlone

LEMMA LicenceStep == LicenceInv /\ [Next]_vars => LicenceInv'
    <1> SUFFICES ASSUME LicenceInv, [Next]_vars
                 PROVE  LicenceInv'
      OBVIOUS
    <1>1. DOMAIN step = {"stage", "act", "todo", "job", "posted", "licence", "slipped",
                         "disturbed", "overtaken"}
      BY DEF LicenceInv, NoStep
    <1>2. CASE UNCHANGED <<step, state>>
      BY <1>2 DEF LicenceInv, PausedIsLeftAlone
    <1>3. CASE step' = NoStep /\ state' = state
      BY <1>3, NoStepLicence
    <1>4. CASE /\ DOMAIN step' = DOMAIN step /\ step'.stage = step.stage
               /\ step'.licence = step.licence /\ state' = state
      BY <1>4 DEF LicenceInv, PausedIsLeftAlone
    <1>5. ASSUME NEW action, NEW file, Request(action, file)
          PROVE  LicenceInv'
      <2>1. /\ DOMAIN step' = DOMAIN NoStep /\ step'.stage = "asked"
            /\ step'.licence = (state = "working") /\ state' = state
        BY <1>5 DEF Request, NoStep
      <2>2. QED
        BY <2>1 DEF LicenceInv, PausedIsLeftAlone
    <1>6. CASE Admit
      <2>1. PICK read \in BOOLEAN, s \in Scripts(step.act) :
              /\ read => state = "working"
              /\ step' = [step EXCEPT
                    !.stage = IF step.act = "warmup_feed" THEN "warming" ELSE "running",
                    !.todo = s, !.licence = @ \/ ~read]
        BY <1>6 DEF Admit
      <2>2. /\ DOMAIN step' = DOMAIN step /\ step'.stage \in {"warming", "running"}
            /\ step'.licence = (step.licence \/ ~read) /\ state' = state
        BY <1>1, <1>6, <2>1 DEF Admit
      <2>3. step.licence \/ ~read
        BY <1>6, <2>1 DEF Admit, LicenceInv
      <2>4. QED
        BY <2>2, <2>3 DEF LicenceInv, PausedIsLeftAlone
    <1>7. CASE Resume
      <2>1. /\ DOMAIN step' = DOMAIN step /\ step'.stage = step.stage /\ state' = "working"
            /\ step'.licence = (step.licence \/ step.stage # "idle")
        BY <1>1, <1>7 DEF Resume
      <2>2. QED
        BY <2>1 DEF LicenceInv, PausedIsLeftAlone
    <1>8. CASE Pause
      <2>1. step' = step /\ state' = "paused"
        BY <1>8 DEF Pause
      <2>2. QED
        BY <2>1 DEF LicenceInv, PausedIsLeftAlone
    <1>9. CASE \/ Reject \/ SubmitFails \/ JobFailed \/ PollFails \/ JobTimesOut \/ Complete
               \/ WarmReturns
      BY <1>3, <1>9 DEF Reject, SubmitFails, JobFailed, PollFails, JobTimesOut, Complete,
                        WarmReturns, Answer, Leaving
    <1>10. CASE PerformFails \/ DownloadFails \/ AwaitVideo
      BY <1>1, <1>3, <1>4, <1>10 DEF PerformFails, DownloadFails, AwaitVideo, Answer,
                                         Leaving
    <1>11. CASE Perform \/ Download \/ TapGallery \/ Submit \/ JobDone \/ JobEnds \/ JobActs
      BY <1>1, <1>4, <1>11 DEF Perform, Download, TapGallery, Submit, JobDone, JobEnds, JobActs
    <1>12. ASSUME NEW v, Deliver(v)
           PROVE  LicenceInv'
      BY <1>1, <1>4, <1>12 DEF Deliver
    <1>13. CASE Warm \/ OrphanEnds
      BY <1>2, <1>13 DEF Warm, OrphanEnds
    <1>14. CASE UNCHANGED vars
      BY <1>2, <1>14 DEF vars
    <1>15. QED
      BY <1>5, <1>6, <1>7, <1>8, <1>9, <1>10, <1>11, <1>12, <1>13, <1>14 DEF Next, RunnerStep

\* A phone that has been paused ever since the step was asked for is left alone,
\* whatever the step; the one reading of the state is enough for that.
THEOREM PausedPhonesAreLeft == Spec => []PausedIsLeftAlone
    <1>1. Init => LicenceInv
      BY DEF Init, NoStep, LicenceInv, PausedIsLeftAlone
    <1>2. LicenceInv => PausedIsLeftAlone
      BY DEF LicenceInv
    <1>3. QED
      BY <1>1, <1>2, LicenceStep, PTL DEF Spec
=============================================================================
