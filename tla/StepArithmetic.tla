--------------------------- MODULE StepArithmetic ---------------------------
(***************************************************************************)
(* The arithmetic of the scenario runner: screen sizes and the points that *)
(* gestures are aimed at, ranges drawn from a scenario's variables and the *)
(* time a warm-up may take.                                                *)
(***************************************************************************)
EXTENDS Integers

\* The screen the scenarios' coordinates are written for.
RefW == 1080
RefH == 1920

\* No size in the phone's record.
Unsized == <<0, 0>>

\* Faulty variant of PortraitSize: the sides are taken as they are stored.
AsStored(s) == IF s[1] <= 0 \/ s[2] <= 0 THEN <<RefW, RefH>> ELSE s

\* portraitSize: the shorter side is the width; without a size, the reference.
PortraitSize(s) ==
    IF s[1] <= 0 \/ s[2] <= 0 THEN <<RefW, RefH>>
    ELSE IF s[1] <= s[2] THEN s
    ELSE <<s[2], s[1]>>

\* scaleCoord: proportional, and kept off the screen's edges.
ScaleCoord(value, ref, size) ==
    LET v == (value * size) \div ref
    IN  IF ref <= 0 \/ size <= 1 THEN value
        ELSE IF v < 1 THEN 1
        ELSE IF v >= size THEN size - 1
        ELSE v

ScalePoint(p, size) ==
    <<ScaleCoord(p[1], RefW, size[1]), ScaleCoord(p[2], RefH, size[2])>>

OnScreen(p, size) == p[1] \in 0 .. size[1] - 1 /\ p[2] \in 0 .. size[2] - 1

\* A swipe from one point to another, in reference coordinates.
FeedSwipe == <<<<540, 1650>>, <<540, 450>>>>
PageSwipe == <<<<540, 1500>>, <<540, 600>>>>
ControlSwipe == [
    swipe_up    |-> FeedSwipe,
    swipe_down  |-> <<<<540, 450>>, <<540, 1650>>>>,
    swipe_left  |-> <<<<900, 960>>, <<180, 960>>>>,
    swipe_right |-> <<<<180, 960>>, <<900, 960>>>>]

\* The places the steps tap: the like of a feed, a browser's address bar, the
\* app on the way to a publication, and the centre of the screen.
LikePoint == <<920, 1100>>
AddressPoint == <<540, 120>>
PublishPoints == [plus |-> <<540, 1850>>, gallery |-> <<270, 400>>, next |-> <<950, 120>>]
CentrePoint == <<540, 960>>

Points == {LikePoint, AddressPoint, CentrePoint}
            \union {PublishPoints[k] : k \in DOMAIN PublishPoints}
Swipes == {FeedSwipe, PageSwipe} \union {ControlSwipe[k] : k \in DOMAIN ControlSwipe}
Aims == Points \union {s[1] : s \in Swipes} \union {s[2] : s \in Swipes}

\* pickRange of an interval: any value in it.  A reversed one has none, and
\* rand.Intn panics.
PickRange(r) == r[1] .. r[2]

\* warmupFeedDeadline, counted from now: until, a time of day, cuts the
\* warm-up short unless it is past or less than 30 s away.
WarmupWindow(duration, until) ==
    LET d == IF duration <= 0 THEN 60 ELSE duration
    IN  IF until >= 30 /\ until < d THEN until ELSE d

\* The time a social action's job is waited for, in seconds: by the count of
\* what it does, up to twenty minutes, or by the time it is to take.
JobTimeout(count, duration) ==
    LET n == count * 25 + 120
    IN  IF duration > 0 THEN duration + 90
        ELSE IF count <= 0 THEN 600
        ELSE IF n < 1200 THEN n ELSE 1200
=============================================================================
