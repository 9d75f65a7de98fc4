---------------------------- MODULE ScriptProofs ----------------------------
(***************************************************************************)
(* Proofs about the scripts of a scenario's steps: what a step that ends   *)
(* as "completed" has done, and where on the phone its calls land,         *)
(* whatever call fails, whatever job is left behind, and however many      *)
(* steps there have been before.                                           *)
(*                                                                         *)
(* The invariant looks ahead: it says of the calls still to be made what   *)
(* they bring about from where the phone is now.  So it need not remember  *)
(* which calls have been made.                                             *)
(*                                                                         *)
(* The last part shows that every call leaves a step less to do.           *)
(***************************************************************************)
EXTENDS StepProofs, SequenceTheorems

-----------------------------------------------------------------------------
(***************************************************************************)
(* What the calls of a script bring about.                                 *)
(***************************************************************************)

\* The calls of the scripts.
Calls == {"home", "back", "key", "swipe", "tap", "type", "enter", "look", "plan", "recover",
          "launchApp", "launchBrowser", "forceStop", "plus", "gallery", "next", "register",
          "download", "submit", "await", "createVideo", "awaitVideo", "draw"}

\* A call, and what to do when it fails.
Entry == [call : Calls, or : {"stop", "on", "skip", "keys"}]

Script == Seq(Entry)

\* The calls that leave the phone showing something, and what that is.
Lands(c) == CASE c = "home" -> "home"
              [] c = "launchApp" -> "app"
              [] c = "launchBrowser" -> "browser"
              [] OTHER -> "other"

\* The calls that may change what the phone shows.
Movers == {"home", "launchApp", "launchBrowser", "forceStop", "back", "key", "plan"}

\* What the phone shows after the first j calls of s, from f, if a call put it
\* there and none after it moved it.
Standing(s, f, j) == IF j = 0 THEN f ELSE Lands(s[j].call)

\* The first n calls of s, from a phone that shows f, leave it showing w.
Shows(s, f, n, w) ==
    \E j \in 0 .. n :
        /\ Standing(s, f, j) = w
        /\ \A i \in j + 1 .. n : s[i].call \notin Movers

\* Calls that are meant for the browser, and for the app.
ForBrowser == {"type", "enter"}
ForApp == {"plus", "gallery", "next"}

\* The calls of s, from f, land where they are meant to.
AllLand(s, f) ==
    \A i \in DOMAIN s :
        /\ s[i].call \in ForBrowser => Shows(s, f, i - 1, "browser")
        /\ s[i].call \in ForApp => Shows(s, f, i - 1, "app")

\* The calls of s, from f, end where the act is said to end.
EndsRight(a, s, f) ==
    /\ a \in {"open_app", "publish_content"} => Shows(s, f, Len(s), "app")
    /\ a \in {"close_app", "browser_research"} => Shows(s, f, Len(s), "home")

Holds(s, c) == \E i \in DOMAIN s : s[i].call = c

\* What holds of every rest of an act's script: a call that is skipped has no
\* action of its own; only the closing of the app goes over to keys, and only a
\* social action asks for a job, which it awaits then; a download must succeed;
\* and a social action has no calls meant for the app or the browser.
Shaped(a, s) ==
    /\ s \in Script
    /\ \A i \in DOMAIN s : s[i].or = "skip" => i + 1 \in DOMAIN s /\ s[i + 1].call \notin Special
    /\ \A i \in DOMAIN s : s[i].or = "keys" => a = "close_app" /\ s[i].call \notin Special
    /\ \A i \in DOMAIN s : s[i].call = "submit" =>
          a = "social_action" /\ \E j \in i + 1 .. Len(s) : s[j].call = "await"
    /\ \A i \in DOMAIN s : s[i].call = "download" => s[i].or = "stop"
    /\ a = "social_action" => \A i \in DOMAIN s : s[i].call \notin ForBrowser \union ForApp

\* Every tap of the gallery comes after a download.
Downloaded(s) ==
    \A i \in DOMAIN s : s[i].call = "gallery" => \E j \in 1 .. i - 1 : s[j].call = "download"

-----------------------------------------------------------------------------
(***************************************************************************)
(* The invariant.                                                          *)
(***************************************************************************)

StepRecord ==
    [stage : Stages, act : Acts, todo : Script, job : JobStates,
     posted : {"none", "own", "other"}, licence : BOOLEAN, slipped : BOOLEAN,
     disturbed : BOOLEAN, overtaken : BOOLEAN]

StepTyped ==
    /\ step \in StepRecord
    /\ front \in Fronts /\ orphan \in BOOLEAN /\ bus \in BOOLEAN
    /\ state \in {"working", "paused"}
    /\ gallery \in {"own", "other"} /\ sent \in SUBSET {"own", "other"}
    /\ ~bus => sent \subseteq {"other"}

\* A job that is not done is yet to be awaited.
JobInv ==
    /\ step.act # "social_action" => step.job = "none"
    /\ step.job \in {"none", "done"} \/ Holds(step.todo, "await")

\* Up to here nothing has gone wrong: then the rest of the calls land.
PlaceInv ==
    Undisturbed =>
        /\ AllLand(step.todo, front)
        /\ EndsRight(step.act, step.todo, front)

\* Over HTTP, unless another video came on top of the step's own: the gallery is
\* yet to be tapped or has been tapped for the own video, and it is first in the
\* gallery or yet to be downloaded.
VideoInv ==
    step.act = "publish_content" /\ ~bus /\ ~step.overtaken =>
        /\ step.posted = "own" \/ Holds(step.todo, "gallery")
        /\ gallery = "own" \/ Downloaded(step.todo)

RunningInv == Shaped(step.act, step.todo) /\ JobInv /\ PlaceInv /\ VideoInv

ScriptInv ==
    /\ StepTyped
    /\ step.stage # "running" => step.job = "none"
    /\ step.stage = "running" => RunningInv

-----------------------------------------------------------------------------
(***************************************************************************)
(* A call less.                                                            *)
(***************************************************************************)

\* A script that is not over has a first call and a rest.
LEMMA ScriptRest ==
    ASSUME NEW s \in Script, s # <<>>
    PROVE  /\ Len(s) \in Nat /\ Len(s) >= 1 /\ DOMAIN s = 1 .. Len(s)
           /\ Head(s) = s[1] /\ Head(s) \in Entry
           /\ Tail(s) \in Script /\ Len(Tail(s)) = Len(s) - 1
           /\ DOMAIN Tail(s) = 1 .. Len(s) - 1
           /\ \A i \in 1 .. Len(s) - 1 : Tail(s)[i] = s[i + 1]
    <1>1. s \in Seq(Entry)
      BY DEF Script
    <1>2. Len(s) \in Nat \ {0} /\ DOMAIN s = 1 .. Len(s)
      BY <1>1, EmptySeq, LenProperties
    <1>3. Head(s) = s[1]
      OBVIOUS
    <1>4. /\ Head(s) \in Entry /\ Tail(s) \in Seq(Entry) /\ Len(Tail(s)) = Len(s) - 1
          /\ \A i \in 1 .. Len(Tail(s)) : Tail(s)[i] = s[i + 1]
      BY <1>1, HeadTailProperties
    <1>5. DOMAIN Tail(s) = 1 .. Len(Tail(s))
      BY <1>4, LenProperties
    <1>6. QED
      BY <1>2, <1>3, <1>4, <1>5 DEF Script

\* A script's shape is that of its rest.
LEMMA RestShaped ==
    ASSUME NEW a, NEW s, Shaped(a, s), s # <<>>
    PROVE  Shaped(a, Tail(s))
    <1>1. s \in Script
      BY DEF Shaped
    <1>2. /\ Len(s) \in Nat /\ Len(s) >= 1 /\ DOMAIN s = 1 .. Len(s)
          /\ Tail(s) \in Script /\ Len(Tail(s)) = Len(s) - 1
          /\ DOMAIN Tail(s) = 1 .. Len(s) - 1
          /\ \A i \in 1 .. Len(s) - 1 : Tail(s)[i] = s[i + 1]
      BY <1>1, ScriptRest
    <1> DEFINE t == Tail(s)
    <1> HIDE DEF t
    <1>3. \A i \in DOMAIN t : i + 1 \in DOMAIN s /\ t[i] = s[i + 1]
      BY <1>2 DEF t
    <1>4. ASSUME NEW i \in DOMAIN t, t[i].or = "skip"
          PROVE  i + 1 \in DOMAIN t /\ t[i + 1].call \notin Special
      <2>1. (i + 1) + 1 \in DOMAIN s /\ s[(i + 1) + 1].call \notin Special
        BY <1>3, <1>4 DEF Shaped
      <2>2. i + 1 \in DOMAIN t
        BY <1>2, <2>1 DEF t
      <2>3. QED
        BY <1>3, <2>1, <2>2
    <1>5. ASSUME NEW i \in DOMAIN t, t[i].call = "submit"
          PROVE  a = "social_action" /\ \E j \in i + 1 .. Len(t) : t[j].call = "await"
      <2>1. /\ a = "social_action"
            /\ \E j \in (i + 1) + 1 .. Len(s) : s[j].call = "await"
        BY <1>3, <1>5 DEF Shaped
      <2>2. PICK j \in (i + 1) + 1 .. Len(s) : s[j].call = "await"
        BY <2>1
      <2>3. i \in Nat /\ j - 1 \in i + 1 .. Len(t) /\ j - 1 \in DOMAIN t /\ (j - 1) + 1 = j
        BY <1>2 DEF t
      <2>4. t[j - 1].call = "await"
        BY <1>3, <2>2, <2>3
      <2>5. QED
        BY <2>1, <2>3, <2>4
    <1>6. \A i \in DOMAIN t : t[i].or = "keys" => a = "close_app" /\ t[i].call \notin Special
      BY <1>3 DEF Shaped
    <1>7. \A i \in DOMAIN t : t[i].call = "download" => t[i].or = "stop"
      BY <1>3 DEF Shaped
    <1>8. a = "social_action" => \A i \in DOMAIN t : t[i].call \notin ForBrowser \union ForApp
      BY <1>3 DEF Shaped
    <1>9. t \in Script
      BY <1>2 DEF t
    <1>10. Shaped(a, t)
      BY <1>4, <1>5, <1>6, <1>7, <1>8, <1>9 DEF Shaped
    <1>11. QED
      BY <1>10 DEF t

\* A call is held by the rest, unless it is the first.
LEMMA RestHolds ==
    ASSUME NEW s \in Script, s # <<>>, NEW c, Holds(s, c), Head(s).call # c
    PROVE  Holds(Tail(s), c)
    <1>1. PICK i \in DOMAIN s : s[i].call = c
      BY DEF Holds
    <1>2. /\ Len(s) \in Nat /\ DOMAIN s = 1 .. Len(s) /\ Head(s) = s[1]
          /\ DOMAIN Tail(s) = 1 .. Len(s) - 1
          /\ \A j \in 1 .. Len(s) - 1 : Tail(s)[j] = s[j + 1]
      BY ScriptRest
    <1>3. i # 1
      BY <1>1, <1>2
    <1>4. i - 1 \in DOMAIN Tail(s) /\ (i - 1) + 1 = i
      BY <1>2, <1>3
    <1>5. Tail(s)[i - 1] = s[i]
      BY <1>2, <1>4
    <1>6. QED
      BY <1>1, <1>4, <1>5 DEF Holds

\* What is downloaded first in a script is in its rest, or was just now.
LEMMA RestDownloaded ==
    ASSUME NEW s \in Script, s # <<>>, Downloaded(s), Head(s).call # "download"
    PROVE  Downloaded(Tail(s))
    <1>1. /\ Len(s) \in Nat /\ DOMAIN s = 1 .. Len(s) /\ Head(s) = s[1]
          /\ DOMAIN Tail(s) = 1 .. Len(s) - 1
          /\ \A j \in 1 .. Len(s) - 1 : Tail(s)[j] = s[j + 1]
      BY ScriptRest
    <1>2. SUFFICES ASSUME NEW i \in DOMAIN Tail(s), Tail(s)[i].call = "gallery"
                   PROVE  \E j \in 1 .. i - 1 : Tail(s)[j].call = "download"
      BY DEF Downloaded
    <1>3. i \in 1 .. Len(s) - 1 /\ i + 1 \in DOMAIN s /\ s[i + 1].call = "gallery"
      BY <1>1, <1>2
    <1>4. PICK j \in 1 .. (i + 1) - 1 : s[j].call = "download"
      BY <1>3 DEF Downloaded
    <1>5. j # 1
      BY <1>1, <1>4
    <1>6. j - 1 \in 1 .. i - 1 /\ j - 1 \in 1 .. Len(s) - 1 /\ (j - 1) + 1 = j
      BY <1>1, <1>3, <1>5
    <1>7. Tail(s)[j - 1] = s[j]
      BY <1>1, <1>6
    <1>8. QED
      BY <1>4, <1>6, <1>7

\* After a call, and what it leads to, the rest shows what the whole shows.
LEMMA RestShows ==
    ASSUME NEW s \in Script, s # <<>>, NEW f, f = front,
           NEW g \in Leads(Head(s).call), Head(s).call # "recover",
           NEW n \in 1 .. Len(s), NEW w \in {"home", "app", "browser"}, Shows(s, f, n, w)
    PROVE  Shows(Tail(s), g, n - 1, w)
    <1>1. /\ Len(s) \in Nat /\ DOMAIN s = 1 .. Len(s) /\ Head(s) = s[1]
          /\ DOMAIN Tail(s) = 1 .. Len(s) - 1
          /\ \A j \in 1 .. Len(s) - 1 : Tail(s)[j] = s[j + 1]
      BY ScriptRest
    <1>2. PICK j \in 0 .. n : /\ Standing(s, f, j) = w
                              /\ \A i \in j + 1 .. n : s[i].call \notin Movers
      BY DEF Shows
    <1>3. ASSUME NEW k \in 0 .. n - 1, k + 1 >= j,
                 \A i \in j + 1 .. n : s[i].call \notin Movers
          PROVE  \A i \in k + 1 .. n - 1 : Tail(s)[i].call \notin Movers
      <2>1. TAKE i \in k + 1 .. n - 1
      <2>2. i \in 1 .. Len(s) - 1 /\ i + 1 \in j + 1 .. n
        BY <1>1, <1>3
      <2>3. QED
        BY <1>1, <1>3, <2>2
    <1>4. CASE j = 0
      <2>1. s[1].call \notin Movers /\ f = w
        BY <1>2, <1>4 DEF Standing
      <2>2. g = f
        BY <1>1, <2>1 DEF Leads, Movers
      <2>3. Standing(Tail(s), g, 0) = w
        BY <2>1, <2>2 DEF Standing
      <2>4. \A i \in 0 + 1 .. n - 1 : Tail(s)[i].call \notin Movers
        BY <1>2, <1>3, <1>4
      <2>5. QED
        BY <2>3, <2>4 DEF Shows
    <1>5. CASE j = 1
      <2>1. Lands(s[1].call) = w
        BY <1>2, <1>5 DEF Standing
      <2>2. g = w
        BY <1>1, <2>1 DEF Leads, Lands
      <2>3. Standing(Tail(s), g, 0) = w
        BY <2>2 DEF Standing
      <2>4. \A i \in 0 + 1 .. n - 1 : Tail(s)[i].call \notin Movers
        BY <1>2, <1>3, <1>5
      <2>5. QED
        BY <2>3, <2>4 DEF Shows
    <1>6. CASE j > 1
      <2>1. j - 1 \in 0 .. n - 1 /\ j - 1 \in 1 .. Len(s) - 1 /\ (j - 1) + 1 = j
        BY <1>1, <1>6
      <2>2. Tail(s)[j - 1] = s[j]
        BY <1>1, <2>1
      <2>3. Standing(Tail(s), g, j - 1) = w
        BY <1>2, <1>6, <2>1, <2>2 DEF Standing
      <2>4. \A i \in (j - 1) + 1 .. n - 1 : Tail(s)[i].call \notin Movers
        BY <1>2, <1>3, <2>1
      <2>5. QED
        BY <2>1, <2>3, <2>4 DEF Shows
    <1>7. QED
      BY <1>4, <1>5, <1>6

\* So the calls after it land, and end, where those of the whole do.
LEMMA RestLands ==
    ASSUME NEW s \in Script, s # <<>>, NEW g \in Leads(Head(s).call),
           Head(s).call # "recover", NEW a, AllLand(s, front), EndsRight(a, s, front)
    PROVE  AllLand(Tail(s), g) /\ EndsRight(a, Tail(s), g)
    <1>1. /\ Len(s) \in Nat /\ Len(s) >= 1 /\ DOMAIN s = 1 .. Len(s)
          /\ Len(Tail(s)) = Len(s) - 1 /\ DOMAIN Tail(s) = 1 .. Len(s) - 1
          /\ \A j \in 1 .. Len(s) - 1 : Tail(s)[j] = s[j + 1]
      BY ScriptRest
    <1>2. ASSUME NEW i \in DOMAIN Tail(s), NEW w \in {"home", "app", "browser"},
                 Shows(s, front, (i + 1) - 1, w)
          PROVE  Shows(Tail(s), g, i - 1, w)
      <2>1. i \in 1 .. Len(s) /\ (i + 1) - 1 = i
        BY <1>1
      <2>2. QED
        BY <1>2, <2>1, RestShows
    <1>3. ASSUME NEW i \in DOMAIN Tail(s)
          PROVE  /\ Tail(s)[i].call \in ForBrowser => Shows(Tail(s), g, i - 1, "browser")
                 /\ Tail(s)[i].call \in ForApp => Shows(Tail(s), g, i - 1, "app")
      <2>1. i + 1 \in DOMAIN s /\ Tail(s)[i] = s[i + 1]
        BY <1>1
      <2>2. /\ s[i + 1].call \in ForBrowser => Shows(s, front, (i + 1) - 1, "browser")
            /\ s[i + 1].call \in ForApp => Shows(s, front, (i + 1) - 1, "app")
        BY <2>1 DEF AllLand
      <2>3. QED
        BY <1>2, <2>1, <2>2
    <1>4. ASSUME NEW w \in {"home", "app"}, Shows(s, front, Len(s), w)
          PROVE  Shows(Tail(s), g, Len(Tail(s)), w)
      <2>1. Len(s) \in 1 .. Len(s)
        BY <1>1
      <2>2. QED
        BY <1>1, <1>4, <2>1, RestShows
    <1>5. QED
      BY <1>3, <1>4 DEF AllLand, EndsRight

-----------------------------------------------------------------------------
(***************************************************************************)
(* The scripts of the steps.                                               *)
(***************************************************************************)

\* What a script is to bring about from wherever the phone is.
Sound(a, s) ==
    /\ Shaped(a, s)
    /\ \A f \in Fronts : AllLand(s, f) /\ EndsRight(a, s, f)
    /\ a = "publish_content" => Holds(s, "gallery") /\ Downloaded(s)

\* What a call leaves the phone showing,
LEMMA ShowsNow ==
    ASSUME NEW s, NEW f, NEW n \in Nat, n > 0
    PROVE  Shows(s, f, n, Lands(s[n].call))
    <1>1. n \in 0 .. n /\ Standing(s, f, n) = Lands(s[n].call)
      BY DEF Standing
    <1>2. \A i \in n + 1 .. n : s[i].call \notin Movers
      OBVIOUS
    <1>3. QED
      BY <1>1, <1>2 DEF Shows

\* it shows still after one that does not move it.
LEMMA ShowsStill ==
    ASSUME NEW s, NEW f, NEW n \in Nat, NEW w, Shows(s, f, n, w), s[n + 1].call \notin Movers
    PROVE  Shows(s, f, n + 1, w)
    <1>1. PICK j \in 0 .. n : /\ Standing(s, f, j) = w
                              /\ \A i \in j + 1 .. n : s[i].call \notin Movers
      BY DEF Shows
    <1>2. j \in 0 .. n + 1 /\ \A i \in j + 1 .. n + 1 : i \in j + 1 .. n \/ i = n + 1
      OBVIOUS
    <1>3. \A i \in j + 1 .. n + 1 : s[i].call \notin Movers
      BY <1>1, <1>2
    <1>4. QED
      BY <1>1, <1>2, <1>3 DEF Shows

LEMMA Entries ==
    ASSUME NEW c \in Calls
    PROVE  /\ Must(c) \in Entry /\ Must(c).call = c /\ Must(c).or = "stop"
           /\ May(c) \in Entry /\ May(c).call = c /\ May(c).or = "on"
           /\ Try(c) \in Entry /\ Try(c).call = c /\ Try(c).or = "skip"
    BY DEF Must, May, Try, Entry

\* Scripts that show nothing in particular at their end, and need nothing.
LEMMA PlainScript ==
    ASSUME NEW a, NEW s \in Script,
           a \notin {"open_app", "close_app", "browser_research", "publish_content"},
           \A i \in DOMAIN s : /\ s[i].or \notin {"skip", "keys"}
                               /\ s[i].call \notin {"submit", "download"}
                               /\ s[i].call \notin ForBrowser \union ForApp
    PROVE  Sound(a, s)
    BY DEF Sound, Shaped, AllLand, EndsRight

LEMMA OneCall ==
    ASSUME NEW e \in Entry
    PROVE  <<e>> \in Script /\ DOMAIN <<e>> = {1} /\ Len(<<e>>) = 1 /\ <<e>>[1] = e
    BY DEF Script

LEMMA OpenAppSound == \A s \in OpenApp : Sound("open_app", s)
    <1>1. ASSUME NEW s, s = <<Must("home"), Must("launchApp")>>
          PROVE  Sound("open_app", s)
      <2>1. s \in Seq(Entry) /\ Len(s) = 2 /\ DOMAIN s = 1 .. 2
        BY <1>1, Entries DEF Calls
      <2>2. s[1] = Must("home") /\ s[2] = Must("launchApp")
        BY <1>1
      <2>3. ASSUME NEW f
            PROVE  Shows(s, f, 2, "app")
        <3>1. Lands(s[2].call) = "app"
          BY <2>2 DEF Must, Lands
        <3>2. QED
          BY <3>1, ShowsNow
      <2>4. QED
        BY <2>1, <2>2, <2>3
           DEF Script, Sound, Shaped, AllLand, EndsRight, Must, ForBrowser, ForApp
    <1>2. ASSUME NEW s, s = <<Must("home"), Must("launchApp"), May("recover")>>
          PROVE  Sound("open_app", s)
      <2>1. s \in Seq(Entry) /\ Len(s) = 3 /\ DOMAIN s = 1 .. 3
        BY <1>2, Entries DEF Calls
      <2>2. s[1] = Must("home") /\ s[2] = Must("launchApp") /\ s[3] = May("recover")
        BY <1>2
      <2>3. ASSUME NEW f
            PROVE  Shows(s, f, 3, "app")
        <3>1. Lands(s[2].call) = "app" /\ s[2 + 1].call \notin Movers
          BY <2>2 DEF Must, May, Lands, Movers
        <3>2. Shows(s, f, 2 + 1, "app")
          BY <3>1, ShowsNow, ShowsStill
        <3>3. QED
          BY <3>2
      <2>4. QED
        BY <2>1, <2>2, <2>3
           DEF Script, Sound, Shaped, AllLand, EndsRight, Must, May, ForBrowser, ForApp
    <1>3. QED
      BY <1>1, <1>2 DEF OpenApp

\* Closing the app by keys needs nothing of what came before it.
LEMMA KeysOutSound == Sound("close_app", KeysOut)
    <1>1. Must("back") \in Entry /\ Must("home") \in Entry
      BY Entries DEF Calls
    <1>2. /\ KeysOut \in [1 .. 6 -> Entry] /\ DOMAIN KeysOut = 1 .. 6
          /\ \A i \in 1 .. 5 : KeysOut[i] = Must("back")
          /\ KeysOut[6] = Must("home")
      BY <1>1 DEF KeysOut
    <1>3. KeysOut \in Seq(Entry)
      BY <1>2, SeqDef
    <1>4. Len(KeysOut) = 6
      BY <1>2, <1>3, LenProperties
    <1>5. ASSUME NEW f
          PROVE  Shows(KeysOut, f, 6, "home")
      <2>1. Lands(KeysOut[6].call) = "home"
        BY <1>2 DEF Must, Lands
      <2>2. QED
        BY <2>1, ShowsNow
    <1>6. \A i \in 1 .. 6 : KeysOut[i].or = "stop" /\ KeysOut[i].call \in {"back", "home"}
      BY <1>2 DEF Must
    <1>7. QED
      BY <1>2, <1>3, <1>4, <1>5, <1>6
         DEF Script, Sound, Shaped, AllLand, EndsRight, ForBrowser, ForApp

LEMMA CloseAppSound == \A s \in CloseApp : Sound("close_app", s)
    <1>1. ASSUME NEW s, s = <<[call |-> "forceStop", or |-> "keys"], Must("home")>>
          PROVE  Sound("close_app", s)
      <2>1. [call |-> "forceStop", or |-> "keys"] \in Entry /\ Must("home") \in Entry
        BY Entries DEF Entry, Calls
      <2>2. s \in Seq(Entry) /\ Len(s) = 2 /\ DOMAIN s = 1 .. 2
        BY <1>1, <2>1
      <2>3. s[1] = [call |-> "forceStop", or |-> "keys"] /\ s[2] = Must("home")
        BY <1>1
      <2>4. ASSUME NEW f
            PROVE  Shows(s, f, 2, "home")
        <3>1. Lands(s[2].call) = "home"
          BY <2>3 DEF Must, Lands
        <3>2. QED
          BY <3>1, ShowsNow
      <2>5. QED
        BY <2>2, <2>3, <2>4
           DEF Script, Sound, Shaped, AllLand, EndsRight, Must, ForBrowser, ForApp, Special
    <1>2. QED
      BY <1>1, KeysOutSound DEF CloseApp

\* The app is launched after the download, and stays where it is.
LEMMA PublishSound == \A s \in Publish : Sound("publish_content", s)
    <1> SUFFICES ASSUME NEW s, s = <<Must("register"), Must("download"), Must("launchApp"),
                                     Must("plus"), Must("gallery"), Must("next")>>
                 PROVE  Sound("publish_content", s)
      BY DEF Publish
    <1>1. s \in Seq(Entry) /\ Len(s) = 6 /\ DOMAIN s = 1 .. 6
      BY Entries DEF Calls
    <1>2. /\ s[1] = Must("register") /\ s[2] = Must("download") /\ s[3] = Must("launchApp")
          /\ s[4] = Must("plus") /\ s[5] = Must("gallery") /\ s[6] = Must("next")
      OBVIOUS
    <1>3. /\ \A i \in 1 .. 6 : s[i].or = "stop"
          /\ s[1].call = "register" /\ s[2].call = "download" /\ s[3].call = "launchApp"
          /\ s[4].call = "plus" /\ s[5].call = "gallery" /\ s[6].call = "next"
      BY <1>2 DEF Must
    <1>4. ASSUME NEW f
          PROVE  /\ Shows(s, f, 3, "app") /\ Shows(s, f, 4, "app")
                 /\ Shows(s, f, 5, "app") /\ Shows(s, f, 6, "app")
      <2>1. Shows(s, f, 3, "app")
        <3>1. Lands(s[3].call) = "app"
          BY <1>3 DEF Lands
        <3>2. QED
          BY <3>1, ShowsNow
      <2>2. Shows(s, f, 3 + 1, "app")
        BY <1>3, <2>1, ShowsStill DEF Movers
      <2>3. Shows(s, f, 4 + 1, "app")
        BY <1>3, <2>2, ShowsStill DEF Movers
      <2>4. Shows(s, f, 5 + 1, "app")
        BY <1>3, <2>3, ShowsStill DEF Movers
      <2>5. QED
        BY <2>1, <2>2, <2>3, <2>4
    <1>5. \A f \in Fronts : AllLand(s, f) /\ EndsRight("publish_content", s, f)
      BY <1>1, <1>3, <1>4 DEF AllLand, EndsRight, ForBrowser, ForApp
    <1>6. Shaped("publish_content", s)
      BY <1>1, <1>3 DEF Script, Shaped
    <1>7. Holds(s, "gallery") /\ Downloaded(s)
      BY <1>1, <1>3 DEF Holds, Downloaded
    <1>8. QED
      BY <1>5, <1>6, <1>7 DEF Sound

LEMMA SocialSound == \A s \in Social : Sound("social_action", s)
    <1>1. ASSUME NEW s, s = <<Must("submit"), Must("await")>>
          PROVE  Sound("social_action", s)
      <2>1. s \in Seq(Entry) /\ Len(s) = 2 /\ DOMAIN s = 1 .. 2
        BY <1>1, Entries DEF Calls
      <2>2. s[1] = Must("submit") /\ s[2] = Must("await")
        BY <1>1
      <2>3. QED
        BY <2>1, <2>2 DEF Script, Sound, Shaped, AllLand, EndsRight, Must, ForBrowser, ForApp
    <1>2. ASSUME NEW s, s = <<May("launchApp"), Must("submit"), Must("await")>>
          PROVE  Sound("social_action", s)
      <2>1. s \in Seq(Entry) /\ Len(s) = 3 /\ DOMAIN s = 1 .. 3
        BY <1>2, Entries DEF Calls
      <2>2. s[1] = May("launchApp") /\ s[2] = Must("submit") /\ s[3] = Must("await")
        BY <1>2
      <2>3. QED
        BY <2>1, <2>2
           DEF Script, Sound, Shaped, AllLand, EndsRight, Must, May, ForBrowser, ForApp
    <1>3. ASSUME NEW s, s = <<Try("home"), May("launchApp"), Must("submit"), Must("await")>>
          PROVE  Sound("social_action", s)
      <2>1. s \in Seq(Entry) /\ Len(s) = 4 /\ DOMAIN s = 1 .. 4
        BY <1>3, Entries DEF Calls
      <2>2. /\ s[1] = Try("home") /\ s[2] = May("launchApp") /\ s[3] = Must("submit")
            /\ s[4] = Must("await")
        BY <1>3
      <2>3. QED
        BY <2>1, <2>2 DEF Script, Sound, Shaped, AllLand, EndsRight, Must, May, Try,
                          ForBrowser, ForApp, Special
    <1>4. QED
      BY <1>1, <1>2, <1>3 DEF Social

\* The calls of three scripts, one after the other.
LEMMA Joined ==
    ASSUME NEW u \in Seq(Entry), NEW v \in Seq(Entry), NEW w \in Seq(Entry),
           NEW s, s = u \o v \o w
    PROVE  /\ s \in Seq(Entry) /\ Len(s) = Len(u) + Len(v) + Len(w)
           /\ \A i \in 1 .. Len(u) : s[i] = u[i]
           /\ \A i \in 1 .. Len(v) : s[Len(u) + i] = v[i]
           /\ \A i \in 1 .. Len(w) : s[Len(u) + Len(v) + i] = w[i]
    <1>1. Len(u) \in Nat /\ Len(v) \in Nat /\ Len(w) \in Nat
      BY LenProperties
    <1>2. PICK t \in Seq(Entry) : t = u \o v
      BY ConcatProperties
    <1>3. /\ Len(t) = Len(u) + Len(v)
          /\ \A i \in 1 .. Len(u) + Len(v) : t[i] = IF i <= Len(u) THEN u[i] ELSE v[i - Len(u)]
      BY <1>2, ConcatProperties
    <1>4. /\ s \in Seq(Entry) /\ Len(s) = Len(t) + Len(w)
          /\ \A i \in 1 .. Len(t) + Len(w) : s[i] = IF i <= Len(t) THEN t[i] ELSE w[i - Len(t)]
      BY <1>2, ConcatProperties
    <1>5. ASSUME NEW i \in 1 .. Len(u)
          PROVE  s[i] = u[i]
      BY <1>1, <1>3, <1>4
    <1>6. ASSUME NEW i \in 1 .. Len(v)
          PROVE  s[Len(u) + i] = v[i]
      <2>1. /\ Len(u) + i \in 1 .. Len(t) + Len(w) /\ Len(u) + i <= Len(t)
            /\ Len(u) + i \in 1 .. Len(u) + Len(v) /\ ~(Len(u) + i <= Len(u))
            /\ (Len(u) + i) - Len(u) = i
        BY <1>1, <1>3
      <2>2. QED
        BY <1>3, <1>4, <2>1
    <1>7. ASSUME NEW i \in 1 .. Len(w)
          PROVE  s[Len(u) + Len(v) + i] = w[i]
      <2>1. /\ Len(t) + i \in 1 .. Len(t) + Len(w) /\ ~(Len(t) + i <= Len(t))
            /\ (Len(t) + i) - Len(t) = i /\ Len(t) + i = Len(u) + Len(v) + i
        BY <1>1, <1>3
      <2>2. s[Len(t) + i] = w[i]
        BY <1>4, <2>1
      <2>3. QED
        BY <2>1, <2>2
    <1>8. QED
      BY <1>3, <1>4, <1>5, <1>6, <1>7

\* What the research does between the search and its end: nothing that moves the
\* phone elsewhere.
Reading == [call : {"tap", "look", "swipe", "draw"}, or : {"stop", "on"}]

LEMMA Readings ==
    ASSUME NEW c \in {"tap", "look", "swipe", "draw"}
    PROVE  Must(c) \in Reading /\ May(c) \in Reading
    BY DEF Must, May, Reading

\* However many scrolls there are.
LEMMA ScrollsRead ==
    ASSUME NEW n \in Nat
    PROVE  Scrolls(n) \in Seq(Reading)
    <1>1. ASSUME NEW i \in 1 .. 3 * n
          PROVE  Scrolls(n)[i] \in Reading
      BY Readings DEF Scrolls
    <1>2. Scrolls(n) \in [1 .. 3 * n -> Reading]
      BY <1>1 DEF Scrolls
    <1>3. 3 * n \in Nat
      OBVIOUS
    <1>4. QED
      BY <1>2, <1>3, SeqDef

LEMMA PageRead ==
    ASSUME NEW link \in Links, NEW n \in Nat, NEW page,
           page = link \o <<Must("draw"), May("look"), Must("draw")>> \o Scrolls(n)
    PROVE  page \in Seq(Reading)
    <1>1. Must("draw") \in Reading /\ May("look") \in Reading /\ Must("tap") \in Reading
      BY Readings
    <1>2. link \in Seq(Reading)
      <2>1. <<>> \in Seq(Reading) /\ <<Must("tap")>> \in Seq(Reading)
        BY <1>1
      <2>2. QED
        BY <2>1 DEF Links
    <1>3. <<Must("draw"), May("look"), Must("draw")>> \in Seq(Reading)
      BY <1>1
    <1>4. PICK a \in Seq(Reading) : a = link \o <<Must("draw"), May("look"), Must("draw")>>
      BY <1>2, <1>3, ConcatProperties
    <1>5. QED
      BY <1>4, ScrollsRead, ConcatProperties

\* What is read is a script.
LEMMA ReadingScript ==
    ASSUME NEW page \in Seq(Reading)
    PROVE  page \in Seq(Entry)
    <1>1. Reading \subseteq Entry
      BY DEF Reading, Entry, Calls
    <1>2. page \in [1 .. Len(page) -> Reading] /\ Len(page) \in Nat
      BY LenProperties
    <1>3. page \in [1 .. Len(page) -> Entry]
      BY <1>1, <1>2
    <1>4. QED
      BY <1>2, <1>3, SeqDef

\* The home that ends the research is the last call that moves the phone, and
\* the second launch is the last before the search.
LEMMA ResearchSound ==
    ASSUME NEW s \in Seq(Entry), NEW m \in Nat, Len(s) = 12 + m,
           s[1] = Must("launchBrowser"), s[2] = Try("home"), s[3] = May("launchBrowser"),
           s[4] = Must("tap"), s[5] = Must("type"), s[6] = Must("enter"),
           \A i \in 7 .. 11 + m : s[i] \in Reading,
           s[12 + m] = May("home")
    PROVE  Sound("browser_research", s)
    <1>1. DOMAIN s = 1 .. 12 + m
      BY LenProperties
    <1>2. /\ s[2].or = "skip" /\ s[2].call = "home"
          /\ s[3].call = "launchBrowser" /\ s[4].call = "tap"
          /\ s[5].or = "stop" /\ s[5].call = "type"
          /\ s[6].or = "stop" /\ s[6].call = "enter"
          /\ s[12 + m].call = "home"
      BY DEF Must, May, Try
    <1>3. ASSUME NEW i \in DOMAIN s, i \notin {2, 5, 6}
          PROVE  /\ s[i].or \in {"stop", "on"}
                 /\ s[i].call \in {"launchBrowser", "tap", "look", "swipe", "draw", "home"}
      <2>1. i \in {1, 3, 4} \/ i \in 7 .. 11 + m \/ i = 12 + m
        BY <1>1, <1>3
      <2>2. CASE i \in 7 .. 11 + m
        BY <2>2 DEF Reading
      <2>3. CASE i \in {1, 3, 4} \/ i = 12 + m
        <3>1. \E c \in {"launchBrowser", "tap", "home"} : s[i] = Must(c) \/ s[i] = May(c)
          BY <2>3
        <3>2. QED
          BY <3>1 DEF Must, May
      <2>4. QED
        BY <2>1, <2>2, <2>3
    <1>4. ASSUME NEW f
          PROVE  Shows(s, f, 4, "browser") /\ Shows(s, f, 5, "browser")
      <2>1. Shows(s, f, 3, Lands(s[3].call))
        <3>1. \A k \in Nat : k > 0 => Shows(s, f, k, Lands(s[k].call))
          BY ShowsNow
        <3>2. QED
          BY <3>1
      <2>2. Lands(s[3].call) = "browser"
        BY <1>2 DEF Lands
      <2>3. Shows(s, f, 3, "browser")
        BY <2>1, <2>2
      <2>4. s[3 + 1].call \notin Movers /\ s[4 + 1].call \notin Movers
        BY <1>2 DEF Movers
      <2>5. Shows(s, f, 3 + 1, "browser")
        BY <2>3, <2>4, ShowsStill
      <2>6. Shows(s, f, 4, "browser")
        BY <2>5
      <2>7. Shows(s, f, 4 + 1, "browser")
        BY <2>4, <2>6, ShowsStill
      <2>8. QED
        BY <2>6, <2>7
    <1>5. ASSUME NEW f
          PROVE  Shows(s, f, 12 + m, "home")
      <2>1. Lands(s[12 + m].call) = "home" /\ 12 + m \in Nat /\ 12 + m > 0
        BY <1>1, <1>2 DEF Lands
      <2>2. Shows(s, f, 12 + m, Lands(s[12 + m].call))
        BY <2>1, ShowsNow
      <2>3. QED
        BY <2>1, <2>2
    <1>6. Shaped("browser_research", s)
      <2>1. ASSUME NEW i \in DOMAIN s, s[i].or = "skip"
            PROVE  i + 1 \in DOMAIN s /\ s[i + 1].call \notin Special
        <3>1. i = 2
          BY <1>2, <1>3, <2>1
        <3>2. 2 + 1 \in DOMAIN s /\ s[2 + 1].call = "launchBrowser"
          BY <1>1, <1>2
        <3>3. QED
          BY <3>1, <3>2 DEF Special
      <2>2. \A i \in DOMAIN s : s[i].or # "keys" /\ s[i].call \notin {"submit", "download"}
        BY <1>2, <1>3
      <2>3. QED
        BY <2>1, <2>2 DEF Shaped, Script
    <1>7. \A f \in Fronts : AllLand(s, f) /\ EndsRight("browser_research", s, f)
      <2>1. TAKE f \in Fronts
      <2>2. \A i \in DOMAIN s : s[i].call \notin ForApp
        BY <1>2, <1>3 DEF ForApp
      <2>3. \A i \in DOMAIN s : s[i].call \in ForBrowser => i \in {5, 6}
        BY <1>2, <1>3 DEF ForBrowser
      <2>4. AllLand(s, f)
        BY <1>4, <2>2, <2>3 DEF AllLand
      <2>5. EndsRight("browser_research", s, f)
        BY <1>5 DEF EndsRight
      <2>6. QED
        BY <2>4, <2>5
    <1>8. QED
      BY <1>6, <1>7 DEF Sound

LEMMA BrowserSound == \A s \in Browser : Sound("browser_research", s)
    <1>0. SUFFICES ASSUME NEW link \in Links, NEW n \in 0 .. MaxScrolls, NEW s,
                          s = Research(May("launchBrowser"), link, n)
                   PROVE  Sound("browser_research", s)
      <2>1. ASSUME NEW s \in Browser
            PROVE  \E link \in Links, n \in 0 .. MaxScrolls :
                      s = Research(May("launchBrowser"), link, n)
        BY DEF Browser
      <2>2. QED
        BY <2>1
    <1>1. PICK open \in Seq(Entry) : open = Search(May("launchBrowser"))
      <2>1. <<Must("launchBrowser"), Try("home"), May("launchBrowser"), Must("tap"), Must("type"),
              Must("enter"), Must("draw"), May("look"), Must("look")>> \in Seq(Entry)
        BY Entries DEF Calls
      <2>2. QED
        BY <2>1 DEF Search
    <1>2. /\ Len(open) = 9 /\ open[1] = Must("launchBrowser") /\ open[2] = Try("home")
          /\ open[3] = May("launchBrowser") /\ open[4] = Must("tap")
          /\ open[5] = Must("type") /\ open[6] = Must("enter") /\ open[7] = Must("draw")
          /\ open[8] = May("look") /\ open[9] = Must("look")
      BY <1>1 DEF Search
    <1>3. PICK close \in Seq(Entry) : close = <<Must("draw"), May("look"), May("home")>>
      <2>1. <<Must("draw"), May("look"), May("home")>> \in Seq(Entry)
        BY Entries DEF Calls
      <2>2. QED
        BY <2>1
    <1>4. /\ Len(close) = 3 /\ close[1] = Must("draw") /\ close[2] = May("look")
          /\ close[3] = May("home")
      BY <1>3
    <1>5. PICK page : page = link \o <<Must("draw"), May("look"), Must("draw")>> \o Scrolls(n)
      OBVIOUS
    <1>6. page \in Seq(Reading) /\ page \in Seq(Entry)
      <2>1. n \in Nat
        BY ScrollsAssumption
      <2>2. QED
        BY <1>5, <2>1, PageRead, ReadingScript
    <1>7. PICK m \in Nat : m = Len(page)
      BY <1>6, LenProperties
    <1>8. s = open \o page \o close
      BY <1>0, <1>1, <1>3, <1>5 DEF Research
    <1>9. /\ s \in Seq(Entry) /\ Len(s) = 9 + m + 3
          /\ \A i \in 1 .. 9 : s[i] = open[i]
          /\ \A i \in 1 .. m : s[9 + i] = page[i]
          /\ \A i \in 1 .. 3 : s[9 + m + i] = close[i]
      <2>1. /\ s \in Seq(Entry) /\ Len(s) = Len(open) + Len(page) + Len(close)
            /\ \A i \in 1 .. Len(open) : s[i] = open[i]
            /\ \A i \in 1 .. Len(page) : s[Len(open) + i] = page[i]
            /\ \A i \in 1 .. Len(close) : s[Len(open) + Len(page) + i] = close[i]
        <3>1. open \in Seq(Entry) /\ page \in Seq(Entry) /\ close \in Seq(Entry)
          BY <1>1, <1>3, <1>6
        <3>2. QED
          BY <3>1, <1>8, Joined
      <2>2. Len(open) = 9 /\ Len(page) = m /\ Len(close) = 3
        BY <1>2, <1>4, <1>7
      <2>3. QED
        BY <2>1, <2>2
    <1>10. Len(s) = 12 + m
      BY <1>9
    <1>11. /\ s[1] = open[1] /\ s[2] = open[2] /\ s[3] = open[3] /\ s[4] = open[4]
           /\ s[5] = open[5] /\ s[6] = open[6] /\ s[7] = open[7] /\ s[8] = open[8]
           /\ s[9] = open[9]
      BY <1>9
    <1>12. s[10 + m] = close[1] /\ s[11 + m] = close[2] /\ s[12 + m] = close[3]
      <2>1. s[9 + m + 1] = close[1] /\ s[9 + m + 2] = close[2] /\ s[9 + m + 3] = close[3]
        BY <1>9
      <2>2. 9 + m + 1 = 10 + m /\ 9 + m + 2 = 11 + m /\ 9 + m + 3 = 12 + m
        OBVIOUS
      <2>3. QED
        BY <2>1, <2>2
    <1>13. ASSUME NEW i \in 7 .. 11 + m
           PROVE  s[i] \in Reading
      <2>1. Must("draw") \in Reading /\ May("look") \in Reading /\ Must("look") \in Reading
        BY Readings
      <2>2. i \in {7, 8, 9, 10 + m, 11 + m} \/ i - 9 \in 1 .. m
        OBVIOUS
      <2>3. CASE i \in {7, 8, 9, 10 + m, 11 + m}
        BY <1>2, <1>4, <1>11, <1>12, <2>1, <2>3
      <2>4. CASE i - 9 \in 1 .. m
        <3>1. PICK j \in 1 .. m : j = i - 9
          BY <2>4
        <3>2. 9 + j = i
          BY <3>1
        <3>3. s[9 + j] = page[j]
          BY <1>9
        <3>4. page[j] \in Reading
          BY <1>6, <1>7, ElementOfSeq
        <3>5. QED
          BY <3>2, <3>3, <3>4
      <2>5. QED
        BY <2>2, <2>3, <2>4
    <1>14. /\ s[1] = Must("launchBrowser") /\ s[2] = Try("home") /\ s[3] = May("launchBrowser")
           /\ s[4] = Must("tap") /\ s[5] = Must("type") /\ s[6] = Must("enter")
           /\ s[12 + m] = May("home")
      BY <1>2, <1>4, <1>11, <1>12
    <1>15. s \in Seq(Entry) /\ \A i \in 7 .. 11 + m : s[i] \in Reading
      BY <1>9, <1>13
    <1>16. QED
      BY <1>10, <1>14, <1>15, ResearchSound

\* Every script of every act is sound.
LEMMA ScriptsSound == \A a \in Acts : \A s \in Scripts(a) : Sound(a, s)
    <1> SUFFICES ASSUME NEW a \in Acts, NEW s \in Scripts(a)
                 PROVE  Sound(a, s)
      OBVIOUS
    <1>1. CASE a = "open_app"
      BY <1>1, OpenAppSound DEF Scripts
    <1>2. CASE a = "close_app"
      BY <1>2, CloseAppSound DEF Scripts
    <1>3. CASE a = "browser_research"
      BY <1>3, BrowserSound DEF Scripts
    <1>4. CASE a = "publish_content"
      BY <1>4, PublishSound DEF Scripts
    <1>5. CASE a = "social_action"
      BY <1>5, SocialSound DEF Scripts
    <1>6. CASE a = "create_video"
      <2>1. s = <<Must("createVideo"), Must("awaitVideo")>>
        BY <1>6 DEF Scripts, CreateVideo
      <2>2. s \in Seq(Entry) /\ DOMAIN s = 1 .. 2
        BY <2>1, Entries DEF Calls
      <2>3. s[1] = Must("createVideo") /\ s[2] = Must("awaitVideo")
        BY <2>1
      <2>4. QED
        BY <1>6, <2>2, <2>3, PlainScript DEF Script, Must, ForBrowser, ForApp
    <1>7. CASE a \in {"device_control", "wait", "custom_execute", "warmup_feed"}
      <2>1. s = <<>> \/ \E c \in {"home", "back", "key", "swipe", "tap", "plan"} : s = <<Must(c)>>
        BY <1>7 DEF Scripts, Control, CustomExecute, Plan
      <2>2. CASE s = <<>>
        <3>1. s \in Script /\ DOMAIN s = {}
          BY <2>2 DEF Script
        <3>2. QED
          BY <1>7, <3>1, PlainScript
      <2>3. ASSUME NEW c \in {"home", "back", "key", "swipe", "tap", "plan"}, s = <<Must(c)>>
            PROVE  Sound(a, s)
        <3>1. Must(c) \in Entry /\ Must(c).call = c /\ Must(c).or = "stop"
          BY <2>3, Entries DEF Calls
        <3>2. s \in Script /\ DOMAIN s = {1} /\ s[1] = Must(c)
          BY <2>3, <3>1, OneCall
        <3>3. QED
          BY <1>7, <2>3, <3>1, <3>2, PlainScript DEF ForBrowser, ForApp
      <2>4. QED
        BY <2>1, <2>2, <2>3
    <1>8. QED
      BY <1>1, <1>2, <1>3, <1>4, <1>5, <1>6, <1>7 DEF Acts

-----------------------------------------------------------------------------
(***************************************************************************)
(* What the invariant keeps.                                               *)
(***************************************************************************)

LEMMA LeadsSomewhere ==
    ASSUME NEW c, NEW f \in Leads(c), front \in Fronts
    PROVE  f \in Fronts
    BY DEF Leads, Fronts

LEMMA NoStepTyped == NoStep \in StepRecord /\ NoStep.stage = "idle" /\ NoStep.job = "none"
    <1>1. <<>> \in Script
      BY DEF Script
    <1>2. QED
      BY <1>1 DEF NoStep, StepRecord, Stages, Acts, JobStates

\* What goes on around the step keeps its types.
Around ==
    /\ front' \in Fronts /\ orphan' \in BOOLEAN /\ bus' = bus
    /\ state' \in {"working", "paused"}
    /\ gallery' \in {"own", "other"} /\ sent' \in SUBSET {"own", "other"}
    /\ ~bus => sent' \subseteq {"other"}

\* The step is over.
LEMMA StepOver ==
    ASSUME ScriptInv, Around, step' = NoStep
    PROVE  ScriptInv'
    BY NoStepTyped DEF ScriptInv, StepTyped, Around

LEMMA Answered ==
    ASSUME ScriptInv, NEW downloads, Leaving(downloads), front' \in Fronts,
           UNCHANGED <<state, bus>>
    PROVE  ScriptInv'
    <1>1. step' = NoStep /\ Around
      BY DEF ScriptInv, StepTyped, Around, Leaving
    <1>2. QED
      BY <1>1, StepOver

\* The step is not running, neither before nor after.
LEMMA NotRunning ==
    ASSUME ScriptInv, Around, step' \in StepRecord, step'.stage # "running", step'.job = "none"
    PROVE  ScriptInv'
    BY DEF ScriptInv, StepTyped, Around

\* What is left of the running step's record.
Onward ==
    /\ step' \in StepRecord
    /\ step.stage = "running" /\ step'.stage = "running" /\ step'.act = step.act
    /\ step'.disturbed = step.disturbed /\ step'.overtaken = step.overtaken

\* A call is over, and it did not fail or may not fail.
LEMMA CallOver ==
    ASSUME ScriptInv, Around, Onward, step.todo # <<>>, step'.todo = Tail(step.todo),
           ~step'.slipped => /\ ~step.slipped /\ Call # "recover"
                             /\ front' \in Leads(Call),
           JobInv', VideoInv'
    PROVE  ScriptInv'
    <1>1. step.todo \in Script /\ Shaped(step.act, step.todo) /\ PlaceInv
      BY DEF ScriptInv, StepTyped, StepRecord, Onward, RunningInv
    <1>2. Shaped(step'.act, step'.todo)
      BY <1>1, RestShaped DEF Onward
    <1>3. ASSUME Undisturbed'
          PROVE  AllLand(step'.todo, front') /\ EndsRight(step'.act, step'.todo, front')
      <2>1. AllLand(step.todo, front) /\ EndsRight(step.act, step.todo, front)
        BY <1>1, <1>3 DEF Undisturbed, PlaceInv, Onward
      <2>2. front' \in Leads(Head(step.todo).call) /\ Head(step.todo).call # "recover"
        BY <1>3 DEF Undisturbed, Call
      <2>3. AllLand(Tail(step.todo), front') /\ EndsRight(step.act, Tail(step.todo), front')
        BY <1>1, <2>1, <2>2, RestLands
      <2>4. QED
        BY <2>3 DEF Onward
    <1>4. PlaceInv'
      BY <1>3 DEF PlaceInv
    <1>5. StepTyped' /\ step'.stage = "running"
      BY DEF ScriptInv, StepTyped, Around, Onward
    <1>6. QED
      BY <1>2, <1>4, <1>5 DEF ScriptInv, RunningInv

\* A call that is not about a job leaves what is known of jobs.
LEMMA SameJob ==
    ASSUME ScriptInv, Onward, step.todo # <<>>, step'.todo = Tail(step.todo),
           Call # "await", step'.job = step.job
    PROVE  JobInv'
    <1>1. step.todo \in Script /\ JobInv
      BY DEF ScriptInv, StepTyped, StepRecord, Onward, RunningInv
    <1>2. Holds(step.todo, "await") => Holds(step'.todo, "await")
      BY <1>1, RestHolds DEF Call
    <1>3. QED
      BY <1>1, <1>2 DEF JobInv, Onward

\* And one that is not about videos what is known of those.
LEMMA SameVideo ==
    ASSUME ScriptInv, Onward, step.todo # <<>>, step'.todo = Tail(step.todo),
           Call \notin {"gallery", "download"},
           step'.posted = step.posted, bus' = bus, gallery' = gallery
    PROVE  VideoInv'
    <1>1. step.todo \in Script /\ VideoInv
      BY DEF ScriptInv, StepTyped, StepRecord, Onward, RunningInv
    <1>2. Holds(step.todo, "gallery") => Holds(step'.todo, "gallery")
      BY <1>1, RestHolds DEF Call
    <1>3. Downloaded(step.todo) => Downloaded(step'.todo)
      BY <1>1, RestDownloaded DEF Call
    <1>4. QED
      BY <1>1, <1>2, <1>3 DEF VideoInv, Onward

-----------------------------------------------------------------------------
(***************************************************************************)
(* The runner's steps.                                                     *)
(***************************************************************************)

LEMMA AdmitScript ==
    ASSUME ScriptInv, Admit
    PROVE  ScriptInv'
    <1>1. PICK read \in BOOLEAN, s \in Scripts(step.act) :
            step' = [step EXCEPT
              !.stage = IF step.act = "warmup_feed" THEN "warming" ELSE "running",
              !.todo = s, !.licence = @ \/ ~read]
      BY DEF Admit
    <1>2. step \in StepRecord /\ step.act \in Acts /\ step.stage = "asked" /\ step.job = "none"
      BY DEF ScriptInv, StepTyped, StepRecord, Admit
    <1>3. Sound(step.act, s)
      BY <1>2, ScriptsSound
    <1>4. s \in Script
      BY <1>3 DEF Sound, Shaped
    <1>5. front' \in Fronts
      BY DEF Admit, ScriptInv, StepTyped, Fronts
    <1>6. Around
      BY <1>5 DEF Around, Admit, ScriptInv, StepTyped
    <1>7. PICK stage \in {"warming", "running"} :
            stage = IF step.act = "warmup_feed" THEN "warming" ELSE "running"
      OBVIOUS
    <1>8. PICK licence \in BOOLEAN : licence = (step.licence \/ ~read)
      OBVIOUS
    <1>9. step' = [step EXCEPT !.stage = stage, !.todo = s, !.licence = licence]
      BY <1>1, <1>7, <1>8
    <1>10. /\ step' \in StepRecord /\ step'.stage = stage /\ step'.todo = s
           /\ step'.act = step.act /\ step'.job = "none"
      BY <1>2, <1>4, <1>9 DEF StepRecord, Stages
    <1>11. CASE stage = "warming"
      BY <1>6, <1>10, <1>11, NotRunning
    <1>12. CASE stage = "running"
      <2>1. JobInv'
        BY <1>10 DEF JobInv
      <2>2. PlaceInv'
        BY <1>3, <1>5, <1>10 DEF PlaceInv, Sound
      <2>3. VideoInv'
        BY <1>3, <1>10 DEF VideoInv, Sound
      <2>4. Shaped(step'.act, step'.todo)
        BY <1>3, <1>10 DEF Sound
      <2>5. QED
        BY <1>6, <1>10, <1>12, <2>1, <2>2, <2>3, <2>4
           DEF ScriptInv, RunningInv, StepTyped, Around
    <1>13. QED
      BY <1>11, <1>12

LEMMA PerformScript ==
    ASSUME ScriptInv, Perform
    PROVE  ScriptInv'
    <1>1. /\ step \in StepRecord /\ step.stage = "running" /\ step.todo # <<>>
          /\ step.todo \in Script /\ Call \notin Special /\ front' \in Leads(Call)
      BY DEF ScriptInv, StepTyped, StepRecord, Perform
    <1>2. Tail(step.todo) \in Script
      BY <1>1, ScriptRest
    <1>3. PICK slipped \in BOOLEAN : slipped = (step.slipped \/ Call = "recover")
      OBVIOUS
    <1>4. step' = [step EXCEPT !.todo = Tail(step.todo), !.slipped = slipped]
      BY <1>3 DEF Perform, Rest
    <1>5. /\ Onward /\ step'.todo = Tail(step.todo) /\ step'.slipped = slipped
          /\ step'.job = step.job /\ step'.posted = step.posted
      BY <1>1, <1>2, <1>4 DEF Onward, StepRecord
    <1>6. Around
      BY <1>1, LeadsSomewhere DEF Around, Perform, ScriptInv, StepTyped
    <1>7. Call \notin {"await", "gallery", "download"}
      BY <1>1 DEF Special
    <1>8. JobInv'
      BY <1>1, <1>5, <1>7, SameJob
    <1>9. gallery' = gallery /\ bus' = bus
      BY DEF Perform
    <1>10. VideoInv'
      BY <1>1, <1>5, <1>7, <1>9, SameVideo
    <1>11. ~step'.slipped => ~step.slipped /\ Call # "recover" /\ front' \in Leads(Call)
      BY <1>1, <1>3, <1>5
    <1>12. QED
      BY <1>1, <1>5, <1>6, <1>8, <1>10, <1>11, CallOver

\* A call that is skipped with the next one leaves a script of the same shape.
LEMMA SkipScript ==
    ASSUME ScriptInv, Around, Onward, step.todo # <<>>, Call \notin Special,
           Head(step.todo).or = "skip", step'.todo = Tail(Rest), step'.slipped = TRUE,
           step'.job = step.job, step'.posted = step.posted, gallery' = gallery
    PROVE  ScriptInv'
    <1>1. step.todo \in Script /\ Shaped(step.act, step.todo) /\ JobInv /\ VideoInv
      BY DEF ScriptInv, StepTyped, StepRecord, Onward, RunningInv
    <1>2. /\ DOMAIN step.todo = 1 .. Len(step.todo) /\ Len(step.todo) \in Nat
          /\ Len(step.todo) >= 1 /\ Head(step.todo) = step.todo[1]
          /\ Rest \in Script /\ DOMAIN Rest = 1 .. Len(step.todo) - 1
          /\ \A i \in 1 .. Len(step.todo) - 1 : Rest[i] = step.todo[i + 1]
      BY <1>1, ScriptRest DEF Rest
    <1>3. 1 \in DOMAIN step.todo /\ step.todo[1].or = "skip"
      BY <1>2
    <1>4. 1 + 1 \in DOMAIN step.todo /\ step.todo[1 + 1].call \notin Special
      BY <1>1, <1>3 DEF Shaped
    <1>5. 1 \in 1 .. Len(step.todo) - 1
      BY <1>2, <1>4
    <1>6. Rest # <<>> /\ Rest[1] = step.todo[1 + 1]
      BY <1>2, <1>5
    <1>7. Head(Rest).call \notin Special
      <2>1. Head(Rest) = Rest[1]
        BY <1>2, <1>6, ScriptRest
      <2>2. QED
        BY <1>4, <1>6, <2>1
    <1>8. Shaped(step.act, Rest)
      BY <1>1, RestShaped DEF Rest
    <1>9. Shaped(step'.act, step'.todo)
      BY <1>6, <1>8, RestShaped DEF Onward
    <1>10. ASSUME NEW c \in Special, Holds(step.todo, c)
           PROVE  Holds(step'.todo, c)
      <2>1. Holds(Rest, c)
        BY <1>1, <1>10, RestHolds DEF Call, Rest
      <2>2. QED
        BY <1>2, <1>6, <1>7, <1>10, <2>1, RestHolds
    <1>11. ASSUME Downloaded(step.todo)
           PROVE  Downloaded(step'.todo)
      <2>1. "download" \in Special
        BY DEF Special
      <2>2. Downloaded(Rest)
        BY <1>1, <1>11, <2>1, RestDownloaded DEF Call, Rest
      <2>3. QED
        BY <1>2, <1>6, <1>7, <2>1, <2>2, RestDownloaded
    <1>12. "await" \in Special /\ "gallery" \in Special
      BY DEF Special
    <1>13. JobInv'
      BY <1>1, <1>10, <1>12 DEF JobInv, Onward
    <1>14. VideoInv'
      BY <1>1, <1>10, <1>11, <1>12 DEF VideoInv, Onward, Around
    <1>15. PlaceInv'
      BY DEF PlaceInv, Undisturbed
    <1>16. QED
      BY <1>9, <1>13, <1>14, <1>15
         DEF ScriptInv, RunningInv, StepTyped, Around, Onward

LEMMA PerformFailsScript ==
    ASSUME ScriptInv, PerformFails
    PROVE  ScriptInv'
    <1>1. /\ step \in StepRecord /\ step.stage = "running" /\ step.todo # <<>>
          /\ step.todo \in Script /\ Call \notin Special
      BY DEF ScriptInv, StepTyped, StepRecord, PerformFails
    <1>2. front' \in Fronts
      BY LeadsSomewhere DEF PerformFails, ScriptInv, StepTyped
    <1>3. UNCHANGED <<state, bus>>
      BY DEF PerformFails
    <1>4. CASE Head(step.todo).or = "stop"
      <2>1. Answer
        BY <1>4 DEF PerformFails
      <2>2. QED
        BY <1>2, <1>3, <2>1, Answered DEF Answer
    <1>5. ASSUME UNCHANGED <<orphan, gallery, sent>>
          PROVE  Around
      BY <1>2, <1>3, <1>5 DEF Around, ScriptInv, StepTyped
    <1>6. CASE Head(step.todo).or = "keys"
      <2>1. step' = [step EXCEPT !.todo = KeysOut] /\ UNCHANGED <<orphan, gallery, sent>>
        BY <1>6 DEF PerformFails
      <2>2. Sound("close_app", KeysOut)
        BY KeysOutSound
      <2>3. KeysOut \in Script
        BY <2>2 DEF Sound, Shaped
      <2>4. /\ step' \in StepRecord /\ step'.stage = "running" /\ step'.act = step.act
            /\ step'.job = step.job /\ step'.todo = KeysOut
        BY <1>1, <2>1, <2>3 DEF StepRecord
      <2>5. step.act = "close_app"
        <3>1. 1 \in DOMAIN step.todo /\ Head(step.todo) = step.todo[1]
          BY <1>1, ScriptRest
        <3>2. QED
          BY <1>1, <1>6, <3>1 DEF ScriptInv, RunningInv, Shaped
      <2>6. JobInv'
        BY <1>1, <2>4, <2>5 DEF ScriptInv, RunningInv, JobInv
      <2>7. PlaceInv' /\ VideoInv' /\ Shaped(step'.act, step'.todo)
        BY <1>2, <2>2, <2>4, <2>5 DEF PlaceInv, VideoInv, Sound
      <2>8. QED
        BY <1>5, <2>1, <2>4, <2>6, <2>7 DEF ScriptInv, RunningInv, StepTyped, Around
    <1>7. CASE Head(step.todo).or \notin {"stop", "keys"}
      <2>1. PICK t \in {Tail(Rest), Rest} :
              t = IF Head(step.todo).or = "skip" THEN Tail(Rest) ELSE Rest
        OBVIOUS
      <2>2. step' = [step EXCEPT !.slipped = TRUE, !.todo = t] /\ UNCHANGED <<orphan, gallery, sent>>
        BY <1>7, <2>1 DEF PerformFails
      <2>3. Around
        BY <1>5, <2>2
      <2>4. Rest \in Script
        BY <1>1, ScriptRest DEF Rest
      <2>5. ASSUME NEW r \in Script, t = r
            PROVE  /\ Onward /\ step'.todo = r /\ step'.slipped = TRUE
                   /\ step'.job = step.job /\ step'.posted = step.posted
        BY <1>1, <2>2, <2>5 DEF Onward, StepRecord
      <2>6. CASE Head(step.todo).or = "skip"
        <3>1. Tail(Rest) \in Script
          <4>1. 1 \in DOMAIN step.todo /\ Head(step.todo) = step.todo[1]
            BY <1>1, ScriptRest
          <4>2. 1 + 1 \in DOMAIN step.todo
            BY <1>1, <2>6, <4>1 DEF ScriptInv, RunningInv, Shaped
          <4>3. Len(step.todo) - 1 >= 1 /\ DOMAIN Rest = 1 .. Len(step.todo) - 1
            BY <1>1, <4>2, ScriptRest DEF Rest
          <4>4. Rest # <<>>
            BY <1>1, <4>3, ScriptRest
          <4>5. QED
            BY <2>4, <4>4, ScriptRest
        <3>2. t = Tail(Rest)
          BY <2>1, <2>6
        <3>3. QED
          BY <1>1, <2>2, <2>3, <2>5, <2>6, <3>1, <3>2, SkipScript
      <2>7. CASE Head(step.todo).or # "skip"
        <3>1. t = Rest
          BY <2>1, <2>7
        <3>2. /\ Onward /\ step'.todo = Tail(step.todo) /\ step'.slipped
              /\ step'.job = step.job /\ step'.posted = step.posted
          BY <2>4, <2>5, <3>1 DEF Rest
        <3>3. Call \notin {"await", "gallery", "download"}
          BY <1>1 DEF Special
        <3>4. JobInv'
          BY <1>1, <3>2, <3>3, SameJob
        <3>5. VideoInv'
          BY <1>1, <1>3, <2>2, <3>2, <3>3, SameVideo
        <3>6. QED
          BY <1>1, <2>3, <3>2, <3>4, <3>5, CallOver
      <2>8. QED
        BY <2>6, <2>7
    <1>8. QED
      BY <1>4, <1>6, <1>7

\* A call with an action of its own leaves the phone showing what it does.
LEMMA Unmoved ==
    ASSUME Call \in Special, front' = front
    PROVE  front' \in Leads(Call) /\ Call # "recover"
    BY DEF Special, Leads

\* Such a call, at its end.
LEMMA OwnCallOver ==
    ASSUME ScriptInv, NEW c \in Special, At(c), NEW job \in JobStates,
           NEW posted \in {"none", "own", "other"},
           step' = [step EXCEPT !.todo = Rest, !.job = job, !.posted = posted],
           UNCHANGED <<front, orphan, state, bus>>,
           gallery' \in {"own", "other"}, sent' \in SUBSET {"own", "other"}, ~bus => sent' \subseteq {"other"}
    PROVE  /\ Onward /\ step'.todo = Tail(step.todo) /\ step.todo # <<>> /\ Call = c
           /\ step'.job = job /\ step'.posted = posted
           /\ JobInv' /\ VideoInv' => ScriptInv'
    <1>1. /\ step \in StepRecord /\ step.stage = "running" /\ step.todo # <<>>
          /\ step.todo \in Script /\ Call = c
      BY DEF ScriptInv, StepTyped, StepRecord, At
    <1>2. Rest \in Script /\ Rest = Tail(step.todo)
      BY <1>1, ScriptRest DEF Rest
    <1>3. /\ Onward /\ step'.todo = Tail(step.todo) /\ step'.slipped = step.slipped
          /\ step'.job = job /\ step'.posted = posted
      BY <1>1, <1>2 DEF Onward, StepRecord
    <1>4. Around
      BY DEF Around, ScriptInv, StepTyped
    <1>5. Call \in Special
      BY <1>1
    <1>6. front' \in Leads(Call) /\ Call # "recover"
      BY <1>5, Unmoved
    <1>7. ~step'.slipped => ~step.slipped /\ Call # "recover" /\ front' \in Leads(Call)
      BY <1>3, <1>6
    <1>8. JobInv' /\ VideoInv' => ScriptInv'
      BY <1>1, <1>3, <1>4, <1>7, CallOver
    <1>9. QED
      BY <1>1, <1>3, <1>8

\* The running step's record, as a call with an action of its own finds it.
LEMMA AtCall ==
    ASSUME ScriptInv, NEW c, At(c)
    PROVE  /\ step \in StepRecord /\ step.stage = "running" /\ step.todo # <<>>
           /\ step.todo \in Script /\ step.job \in JobStates
           /\ step.posted \in {"none", "own", "other"}
           /\ Shaped(step.act, step.todo) /\ JobInv /\ VideoInv
           /\ 1 \in DOMAIN step.todo /\ Head(step.todo) = step.todo[1]
           /\ Call = c /\ step.todo[1].call = c
    <1>1. /\ step \in StepRecord /\ step.stage = "running" /\ step.todo # <<>>
          /\ step.todo \in Script /\ Call = c /\ RunningInv
      BY DEF ScriptInv, StepTyped, StepRecord, At
    <1>2. 1 \in DOMAIN step.todo /\ Head(step.todo) = step.todo[1]
      BY <1>1, ScriptRest
    <1>3. QED
      BY <1>1, <1>2 DEF StepRecord, RunningInv, Call

LEMMA DownloadScript ==
    ASSUME ScriptInv, Download
    PROVE  ScriptInv'
    <1>1. At("download") /\ "download" \in Special
      BY DEF Download, Special
    <1>2. /\ step \in StepRecord /\ step.todo # <<>> /\ step.todo \in Script
          /\ step.job \in JobStates /\ step.posted \in {"none", "own", "other"}
          /\ VideoInv /\ Call = "download"
      BY <1>1, AtCall
    <1>3. step' = [step EXCEPT !.todo = Rest, !.job = step.job, !.posted = step.posted]
      BY <1>2 DEF Download, StepRecord
    <1>4. /\ UNCHANGED <<front, orphan, state, bus>>
          /\ gallery' \in {"own", "other"} /\ sent' \in SUBSET {"own", "other"}
          /\ ~bus => sent' \subseteq {"other"} /\ gallery' = "own"
      BY DEF Download, PublishDownload, DownloadSync, ScriptInv, StepTyped
    <1>5. /\ Onward /\ step'.todo = Tail(step.todo) /\ step'.job = step.job
          /\ step'.posted = step.posted /\ (JobInv' /\ VideoInv' => ScriptInv')
      BY <1>1, <1>2, <1>3, <1>4, OwnCallOver
    <1>6. JobInv'
      BY <1>2, <1>5, SameJob
    <1>7. Holds(step.todo, "gallery") => Holds(step'.todo, "gallery")
      BY <1>2, <1>5, RestHolds DEF Call
    <1>8. VideoInv'
      BY <1>2, <1>4, <1>5, <1>7 DEF VideoInv, Onward
    <1>9. QED
      BY <1>5, <1>6, <1>8

LEMMA DownloadFailsScript ==
    ASSUME ScriptInv, DownloadFails
    PROVE  ScriptInv'
    <1>1. At("download")
      BY DEF DownloadFails
    <1>2. Head(step.todo).or = "stop"
      BY <1>1, AtCall DEF Shaped
    <1>3. PICK downloads : Leaving(downloads)
      BY <1>2 DEF DownloadFails
    <1>4. front' \in Fronts /\ UNCHANGED <<state, bus>>
      BY DEF DownloadFails, ScriptInv, StepTyped
    <1>5. QED
      BY <1>3, <1>4, Answered

\* Over HTTP the video tapped is the step's own: its download is over, for the
\* gallery's tap is the call in hand.
LEMMA TapGalleryScript ==
    ASSUME ScriptInv, TapGallery
    PROVE  ScriptInv'
    <1>1. At("gallery") /\ "gallery" \in Special
      BY DEF TapGallery, Special
    <1>2. /\ step \in StepRecord /\ step.todo # <<>> /\ step.todo \in Script
          /\ step.job \in JobStates /\ VideoInv /\ Call = "gallery"
          /\ 1 \in DOMAIN step.todo /\ step.todo[1].call = "gallery"
      BY <1>1, AtCall
    <1>3. step' = [step EXCEPT !.todo = Rest, !.job = step.job, !.posted = gallery]
      BY <1>2 DEF TapGallery, StepRecord
    <1>4. /\ UNCHANGED <<front, orphan, state, bus>> /\ gallery' = gallery
          /\ gallery' \in {"own", "other"} /\ gallery \in {"none", "own", "other"}
          /\ sent' \in SUBSET {"own", "other"} /\ (~bus => sent' \subseteq {"other"})
      BY DEF TapGallery, ScriptInv, StepTyped
    <1>5. /\ Onward /\ step'.todo = Tail(step.todo) /\ step'.job = step.job
          /\ step'.posted = gallery /\ (JobInv' /\ VideoInv' => ScriptInv')
      BY <1>1, <1>2, <1>3, <1>4, OwnCallOver
    <1>6. JobInv'
      BY <1>2, <1>5, SameJob
    <1>7. ~Downloaded(step.todo)
      <2>1. ~\E j \in 1 .. 1 - 1 : step.todo[j].call = "download"
        OBVIOUS
      <2>2. QED
        BY <1>2, <2>1 DEF Downloaded
    <1>8. VideoInv'
      BY <1>2, <1>4, <1>5, <1>7 DEF VideoInv, Onward
    <1>9. QED
      BY <1>5, <1>6, <1>8

LEMMA SubmitScript ==
    ASSUME ScriptInv, Submit
    PROVE  ScriptInv'
    <1>1. At("submit") /\ "submit" \in Special /\ "running" \in JobStates
      BY DEF Submit, Special, JobStates
    <1>2. /\ step \in StepRecord /\ step.todo # <<>> /\ step.todo \in Script
          /\ step.posted \in {"none", "own", "other"} /\ Shaped(step.act, step.todo)
          /\ 1 \in DOMAIN step.todo /\ step.todo[1].call = "submit"
      BY <1>1, AtCall
    <1>3. step' = [step EXCEPT !.todo = Rest, !.job = "running", !.posted = step.posted]
      BY <1>2 DEF Submit, StepRecord
    <1>4. /\ UNCHANGED <<front, orphan, state, bus>>
          /\ gallery' \in {"own", "other"} /\ sent' \in SUBSET {"own", "other"}
          /\ ~bus => sent' \subseteq {"other"}
      BY DEF Submit, ScriptInv, StepTyped
    <1>5. /\ Onward /\ step'.todo = Tail(step.todo) /\ (JobInv' /\ VideoInv' => ScriptInv')
      BY <1>1, <1>2, <1>3, <1>4, OwnCallOver
    <1>6. step.act = "social_action" /\ \E j \in 1 + 1 .. Len(step.todo) : step.todo[j].call = "await"
      BY <1>2 DEF Shaped
    <1>7. Holds(Tail(step.todo), "await")
      <2>1. PICK j \in 1 + 1 .. Len(step.todo) : step.todo[j].call = "await"
        BY <1>6
      <2>2. /\ Len(step.todo) \in Nat /\ DOMAIN Tail(step.todo) = 1 .. Len(step.todo) - 1
            /\ \A i \in 1 .. Len(step.todo) - 1 : Tail(step.todo)[i] = step.todo[i + 1]
        BY <1>2, ScriptRest
      <2>3. j - 1 \in DOMAIN Tail(step.todo) /\ (j - 1) + 1 = j
        BY <2>2
      <2>4. Tail(step.todo)[j - 1] = step.todo[j]
        BY <2>2, <2>3
      <2>5. QED
        BY <2>1, <2>3, <2>4 DEF Holds
    <1>8. JobInv' /\ VideoInv'
      BY <1>5, <1>6, <1>7 DEF JobInv, VideoInv, Onward
    <1>9. QED
      BY <1>5, <1>8

LEMMA JobDoneScript ==
    ASSUME ScriptInv, JobDone
    PROVE  ScriptInv'
    <1>1. At("await") /\ "await" \in Special /\ step.job = "done"
      BY DEF JobDone, Special
    <1>2. /\ step \in StepRecord /\ step.todo # <<>> /\ step.todo \in Script
          /\ step.job \in JobStates /\ step.posted \in {"none", "own", "other"}
          /\ JobInv /\ Call = "await"
      BY <1>1, AtCall
    <1>3. step' = [step EXCEPT !.todo = Rest, !.job = step.job, !.posted = step.posted]
      BY <1>2 DEF JobDone, StepRecord
    <1>4. /\ UNCHANGED <<front, orphan, state, bus>> /\ gallery' = gallery
          /\ gallery' \in {"own", "other"} /\ sent' \in SUBSET {"own", "other"}
          /\ ~bus => sent' \subseteq {"other"}
      BY DEF JobDone, ScriptInv, StepTyped
    <1>5. /\ Onward /\ step'.todo = Tail(step.todo) /\ step'.job = step.job
          /\ step'.posted = step.posted /\ (JobInv' /\ VideoInv' => ScriptInv')
      BY <1>1, <1>2, <1>3, <1>4, OwnCallOver
    <1>6. JobInv'
      BY <1>1, <1>2, <1>5 DEF JobInv, Onward
    <1>7. VideoInv'
      BY <1>2, <1>4, <1>5, SameVideo
    <1>8. QED
      BY <1>5, <1>6, <1>7

\* The steps that end with an answer, whatever the calls left.
LEMMA AnsweringScript ==
    ASSUME ScriptInv, Reject \/ JobFailed \/ PollFails \/ JobTimesOut \/ AwaitVideo \/ Complete
                      \/ WarmReturns
    PROVE  ScriptInv'
    <1>1. VideoReady \notin VideoDone
      BY DEF VideoReady, VideoDone
    <1>2. Answer /\ front' = front /\ UNCHANGED <<state, bus>>
      BY <1>1 DEF Reject, JobFailed, PollFails, JobTimesOut, AwaitVideo, Complete, WarmReturns
    <1>3. front' \in Fronts
      BY <1>2 DEF ScriptInv, StepTyped
    <1>4. QED
      BY <1>2, <1>3, Answered DEF Answer

LEMMA SubmitFailsScript ==
    ASSUME ScriptInv, SubmitFails
    PROVE  ScriptInv'
    <1>1. step' = NoStep /\ Around
      BY DEF SubmitFails, Around, ScriptInv, StepTyped
    <1>2. QED
      BY <1>1, StepOver

LEMMA RequestScript ==
    ASSUME ScriptInv, NEW action, NEW file, Request(action, file)
    PROVE  ScriptInv'
    <1>1. PICK act \in Acts : act = MergeStep(action, file)
      BY DEF Request
    <1>2. PICK licence \in BOOLEAN : licence = (state = "working")
      OBVIOUS
    <1>3. step' = [NoStep EXCEPT !.stage = "asked", !.act = act, !.licence = licence]
      BY <1>1, <1>2 DEF Request
    <1>4. step' \in StepRecord /\ step'.stage = "asked" /\ step'.job = "none"
      BY <1>3, NoStepTyped DEF StepRecord, Stages
    <1>5. Around
      BY DEF Request, Around, ScriptInv, StepTyped
    <1>6. QED
      BY <1>4, <1>5, NotRunning

-----------------------------------------------------------------------------
(***************************************************************************)
(* What goes on around the steps.                                          *)
(***************************************************************************)

\* What is left of the calls stays.
LEMMA SameCalls ==
    ASSUME ScriptInv, Around, step' \in StepRecord, step'.stage = step.stage,
           step'.act = step.act, step'.todo = step.todo,
           step.stage # "running" => step'.job = "none",
           step.stage = "running" => JobInv' /\ PlaceInv' /\ VideoInv'
    PROVE  ScriptInv'
    BY DEF ScriptInv, StepTyped, Around, RunningInv

LEMMA JobEndsScript ==
    ASSUME ScriptInv, JobEnds
    PROVE  ScriptInv'
    <1>1. step \in StepRecord /\ step.job = "running" /\ step.stage = "running" /\ RunningInv
      BY DEF ScriptInv, StepTyped, JobEnds
    <1>2. PICK s \in {"done", "failed", "cancelled"} : step' = [step EXCEPT !.job = s]
      BY DEF JobEnds
    <1>3. /\ step' \in StepRecord /\ step'.stage = step.stage /\ step'.act = step.act
          /\ step'.todo = step.todo /\ step'.slipped = step.slipped
          /\ step'.disturbed = step.disturbed /\ step'.posted = step.posted
          /\ step'.overtaken = step.overtaken
      BY <1>1, <1>2 DEF StepRecord, JobStates
    <1>4. Around /\ front' = front /\ gallery' = gallery /\ bus' = bus
      BY DEF JobEnds, Around, ScriptInv, StepTyped
    <1>5. step.act = "social_action" /\ Holds(step.todo, "await")
      BY <1>1 DEF RunningInv, JobInv
    <1>6. JobInv'
      BY <1>3, <1>5 DEF JobInv
    <1>7. PlaceInv' /\ VideoInv'
      BY <1>1, <1>3, <1>4 DEF RunningInv, PlaceInv, VideoInv, Undisturbed
    <1>8. QED
      BY <1>1, <1>3, <1>4, <1>6, <1>7, SameCalls

\* A job moves the phone.  An earlier step's job disturbs the step; its own
\* job is that of a social action, whose calls need nothing of the phone.
LEMMA JobActsScript ==
    ASSUME ScriptInv, JobActs
    PROVE  ScriptInv'
    <1>1. step \in StepRecord
      BY DEF ScriptInv, StepTyped
    <1>2. PICK disturbed \in BOOLEAN :
            disturbed = (step.disturbed \/ (orphan /\ step.stage = "running"))
      OBVIOUS
    <1>3. step' = [step EXCEPT !.disturbed = disturbed]
      BY <1>2 DEF JobActs
    <1>4. /\ step' \in StepRecord /\ step'.stage = step.stage /\ step'.act = step.act
          /\ step'.todo = step.todo /\ step'.slipped = step.slipped
          /\ step'.disturbed = disturbed /\ step'.posted = step.posted /\ step'.job = step.job
          /\ step'.overtaken = step.overtaken
      BY <1>1, <1>3 DEF StepRecord
    <1>5. front' \in Fronts /\ gallery' = gallery /\ bus' = bus
      BY DEF JobActs, ScriptInv, StepTyped
    <1>6. Around
      BY <1>5 DEF JobActs, Around, ScriptInv, StepTyped
    <1>7. ASSUME step.stage = "running"
          PROVE  JobInv' /\ PlaceInv' /\ VideoInv'
      <2>1. RunningInv
        BY <1>7 DEF ScriptInv
      <2>2. JobInv' /\ VideoInv'
        BY <1>4, <1>5, <2>1 DEF RunningInv, JobInv, VideoInv
      <2>3. ASSUME Undisturbed'
            PROVE  AllLand(step'.todo, front') /\ EndsRight(step'.act, step'.todo, front')
        <3>1. ~orphan
          BY <1>2, <1>4, <1>7, <2>3 DEF Undisturbed
        <3>2. step.job = "running"
          BY <3>1 DEF JobActs
        <3>3. step.act = "social_action" /\ Shaped(step.act, step.todo)
          BY <2>1, <3>2 DEF RunningInv, JobInv
        <3>4. QED
          BY <1>4, <3>3 DEF Shaped, AllLand, EndsRight
      <2>4. QED
        BY <2>2, <2>3 DEF PlaceInv
    <1>8. step.stage # "running" => step'.job = "none"
      BY <1>4 DEF ScriptInv
    <1>9. QED
      BY <1>4, <1>6, <1>7, <1>8, SameCalls

\* A download arrives: over HTTP one of an earlier step, and on top of the step's
\* own it overtakes it.
LEMMA DeliverScript ==
    ASSUME ScriptInv, NEW v, Deliver(v)
    PROVE  ScriptInv'
    <1>1. step \in StepRecord
      BY DEF ScriptInv, StepTyped
    <1>2. PICK overtaken \in BOOLEAN :
            overtaken = (step.overtaken
                           \/ (step.stage = "running" /\ gallery = "own" /\ gallery' = "other"))
      OBVIOUS
    <1>3. step' = [step EXCEPT !.overtaken = overtaken]
      BY <1>2 DEF Deliver
    <1>4. /\ step' \in StepRecord /\ step'.stage = step.stage /\ step'.act = step.act
          /\ step'.todo = step.todo /\ step'.slipped = step.slipped
          /\ step'.disturbed = step.disturbed /\ step'.posted = step.posted
          /\ step'.job = step.job /\ step'.overtaken = overtaken
      BY <1>1, <1>3 DEF StepRecord
    <1>5. v \in {"own", "other"} /\ front' = front /\ bus' = bus
      BY DEF Deliver, ScriptInv, StepTyped
    <1>6. Around
      BY <1>5 DEF Deliver, Around, ScriptInv, StepTyped
    <1>7. ASSUME step.stage = "running"
          PROVE  JobInv' /\ PlaceInv' /\ VideoInv'
      <2>1. JobInv /\ PlaceInv /\ VideoInv
        BY <1>7 DEF ScriptInv, RunningInv
      <2>2. JobInv' /\ PlaceInv'
        BY <1>4, <1>5, <2>1 DEF JobInv, PlaceInv, Undisturbed
      <2>3. ASSUME ~step'.overtaken
            PROVE  ~step.overtaken /\ (gallery = "own" => gallery' = "own")
        BY <1>2, <1>4, <1>7, <2>3 DEF Deliver, ScriptInv, StepTyped
      <2>4. VideoInv'
        BY <1>4, <1>5, <2>1, <2>3 DEF VideoInv
      <2>5. QED
        BY <2>2, <2>4
    <1>8. step.stage # "running" => step'.job = "none"
      BY <1>4 DEF ScriptInv
    <1>9. QED
      BY <1>4, <1>6, <1>7, <1>8, SameCalls

\* Only the licence of the step changes, or nothing the invariant speaks of.
LEMMA AsideScript ==
    ASSUME ScriptInv, Resume \/ Pause \/ OrphanEnds \/ Warm \/ UNCHANGED vars
    PROVE  ScriptInv'
    <1>1. step \in StepRecord
      BY DEF ScriptInv, StepTyped
    <1>2. PICK licence \in BOOLEAN : licence = (step.licence \/ step.stage # "idle")
      OBVIOUS
    <1>3. step' = step \/ step' = [step EXCEPT !.licence = licence]
      BY <1>2 DEF Resume, Pause, OrphanEnds, Warm, vars
    <1>4. /\ step' \in StepRecord /\ step'.stage = step.stage /\ step'.act = step.act
          /\ step'.todo = step.todo /\ step'.slipped = step.slipped
          /\ step'.disturbed = step.disturbed /\ step'.posted = step.posted
          /\ step'.overtaken = step.overtaken
          /\ step'.job = step.job
      BY <1>1, <1>3 DEF StepRecord
    <1>5. Around /\ front' = front /\ gallery' = gallery /\ bus' = bus
      BY DEF Resume, Pause, OrphanEnds, Warm, vars, Around, ScriptInv, StepTyped
    <1>6. step.stage = "running" => JobInv' /\ PlaceInv' /\ VideoInv'
      BY <1>4, <1>5 DEF ScriptInv, RunningInv, JobInv, PlaceInv, VideoInv, Undisturbed
    <1>7. step.stage # "running" => step'.job = "none"
      BY <1>4 DEF ScriptInv
    <1>8. QED
      BY <1>4, <1>5, <1>6, <1>7, SameCalls

-----------------------------------------------------------------------------
(***************************************************************************)
(* The theorems.                                                           *)
(***************************************************************************)

LEMMA ScriptStart == Init => ScriptInv
    BY NoStepTyped DEF Init, ScriptInv, StepTyped, Fronts

LEMMA ScriptStep == ScriptInv /\ [Next]_vars => ScriptInv'
    <1> SUFFICES ASSUME ScriptInv, [Next]_vars
                 PROVE  ScriptInv'
      OBVIOUS
    <1>1. CASE \E action \in Acts \union {""}, file \in Files : Request(action, file)
      BY <1>1, RequestScript
    <1>2. CASE RunnerStep \/ PollFails
      BY <1>2, AdmitScript, PerformScript, PerformFailsScript, DownloadScript,
         DownloadFailsScript, TapGalleryScript, SubmitScript, SubmitFailsScript,
         JobDoneScript, AnsweringScript, AsideScript DEF RunnerStep
    <1>3. CASE \E v \in {"own", "other"} : Deliver(v)
      BY <1>3, DeliverScript
    <1>4. CASE JobEnds \/ OrphanEnds \/ JobActs \/ Pause \/ Resume \/ UNCHANGED vars
      BY <1>4, JobEndsScript, JobActsScript, AsideScript
    <1>5. QED
      BY <1>1, <1>2, <1>3, <1>4 DEF Next

LEMMA ScriptInvariant == Spec => []ScriptInv
    BY ScriptStart, ScriptStep, PTL DEF Spec

\* A step, the phone and what is under way are always of their types.
THEOREM StepTypes == Spec => []StepTypeOK
    <1>1. WarmInv /\ ScriptInv => StepTypeOK
      <2> SUFFICES ASSUME WarmInv, ScriptInv
                   PROVE  StepTypeOK
        OBVIOUS
      <2>1. step \in StepRecord
        BY DEF ScriptInv, StepTyped
      <2>2. \A i \in DOMAIN step.todo : step.todo[i].or \in {"stop", "on", "skip", "keys"}
        <3>1. step.todo \in Seq(Entry)
          BY <2>1 DEF StepRecord, Script
        <3>2. \A i \in DOMAIN step.todo : step.todo[i] \in Entry
          BY <3>1, LenProperties, ElementOfSeq
        <3>3. QED
          BY <3>2 DEF Entry
      <2>3. {step.licence, step.slipped, step.disturbed, step.overtaken, orphan, bus} \subseteq BOOLEAN
        BY <2>1 DEF StepRecord, ScriptInv, StepTyped
      <2>4. QED
        BY <2>1, <2>2, <2>3 DEF StepTypeOK, WarmInv, StepRecord, ScriptInv, StepTyped
    <1>2. QED
      BY <1>1, WarmInvariant, ScriptInvariant, PTL

\* No step ends as "completed" whose job was not seen done: not after a time
\* out, a failed poll, or a word for the job's end that is not known
\* (waitBehaviorJobWithLogs).
THEOREM CompletedStepsFinished == Spec => []CompletedMeansFinished
    <1>1. ScriptInv => CompletedMeansFinished
      BY DEF ScriptInv, RunningInv, JobInv, Holds, CompletedMeansFinished, Finishing
    <1>2. QED
      BY <1>1, ScriptInvariant, PTL

\* The research is typed into the browser and the publication tapped in the app,
\* in whatever order calls fail and jobs end around the step.
THEOREM CallsLandInPlace == Spec => []ActsInPlace
    <1>1. ScriptInv => ActsInPlace
      <2> SUFFICES ASSUME ScriptInv, step.stage = "running", step.todo # <<>>, Undisturbed
                   PROVE  /\ Call \in {"type", "enter"} => front = "browser"
                          /\ Call \in {"plus", "gallery", "next"} => front = "app"
        BY DEF ActsInPlace
      <2>1. step.todo \in Script /\ AllLand(step.todo, front)
        BY DEF ScriptInv, StepTyped, StepRecord, RunningInv, PlaceInv
      <2>2. 1 \in DOMAIN step.todo /\ Head(step.todo) = step.todo[1]
        BY <2>1, ScriptRest
      <2>3. /\ Call \in ForBrowser => Shows(step.todo, front, 1 - 1, "browser")
            /\ Call \in ForApp => Shows(step.todo, front, 1 - 1, "app")
        BY <2>1, <2>2 DEF AllLand, Call
      <2>4. \A w : Shows(step.todo, front, 1 - 1, w) => front = w
        BY DEF Shows, Standing
      <2>5. QED
        BY <2>3, <2>4 DEF ForBrowser, ForApp
    <1>2. QED
      BY <1>1, ScriptInvariant, PTL

\* A step that ends as "completed" leaves the phone where it says.
THEOREM StepsEndWhereTheySay == Spec => []EndsWhereItSays
    <1>1. ScriptInv => EndsWhereItSays
      <2> SUFFICES ASSUME ScriptInv, Finishing, Undisturbed
                   PROVE  /\ step.act \in {"open_app", "publish_content"} => front = "app"
                          /\ step.act \in {"close_app", "browser_research"} => front = "home"
        BY DEF EndsWhereItSays
      <2>1. EndsRight(step.act, step.todo, front) /\ Len(step.todo) = 0
        BY DEF ScriptInv, RunningInv, PlaceInv, Finishing
      <2>2. \A w : Shows(step.todo, front, 0, w) => front = w
        BY DEF Shows, Standing
      <2>3. QED
        BY <2>1, <2>2 DEF EndsRight
    <1>2. QED
      BY <1>1, ScriptInvariant, PTL

\* A publication that ends as "completed" is of the step's own video, where the
\* download returns when the file is on the phone, whatever downloads of earlier
\* steps are still under way, unless one of them comes on top of the step's own.
THEOREM OwnVideosArePublished == Spec => []PublishesItsVideo
    <1>1. ScriptInv => PublishesItsVideo
      BY DEF ScriptInv, RunningInv, VideoInv, Holds, PublishesItsVideo, Finishing
    <1>2. QED
      BY <1>1, ScriptInvariant, PTL
-----------------------------------------------------------------------------
(***************************************************************************)
(* How much a warm-up has left to do.                                      *)
(***************************************************************************)

\* Time is left as long as the round has not come to its pause.
Paced == warm.at \in {"relaunch", "judge", "treat", "watch"} => warm.left > 0

\* A pause takes some of the time, if there is any.
LEMMA PauseTakes ==
    ASSUME WarmInv, NEW r, NEW n \in PickRange(RangeOf(r))
    PROVE  /\ Spend(n) \in Nat /\ Spend(n) <= warm.left
           /\ warm.left > 0 => Spend(n) < warm.left
    <1>1. n \in Int
      BY DEF PickRange, RangeOf
    <1>2. n > 0
      BY DEF PickRange, RangeOf
    <1>3. warm.left \in Nat
      BY DEF WarmInv, WarmTypeOK, WarmType
    <1>4. QED
      BY <1>1, <1>2, <1>3 DEF Spend

\* Where a call of the warm-up leads, and what it takes of the time.
Goes(from, to) == warm.at \in from /\ warm'.at \in to
Moves ==
    \/ Goes({"size", "look", "swipe", "watch", "like"}, {"done", "failed", "dropped"})
    \/ /\ warm'.left = warm.left
       /\ \/ Goes({"size"}, {"look"}) \/ Goes({"look"}, {"swipe"})
          \/ Goes({"swipe"}, {"relaunch", "judge"}) /\ warm.left > 0
          \/ Goes({"relaunch"}, {"judge"}) \/ Goes({"judge"}, {"treat", "watch"})
          \/ Goes({"treat"}, {"watch"})
    \/ /\ warm'.left <= warm.left /\ Goes({"like"}, {"swipe"})
    \/ /\ warm.left > 0 => warm'.left < warm.left
       /\ Goes({"watch"}, {"swipe", "like"})

LEMMA RoundMoves ==
    ASSUME WarmInv, Swipe \/ Relaunch \/ RelaunchFails \/ Judge \/ Treat
    PROVE  Moves
    <1>1. warm \in WarmType
      BY DEF WarmInv, WarmTypeOK
    <1>2. CASE Swipe
      <2>1. PICK changed \in BOOLEAN, m \in CaptureMarker, w \in {warm} \union Passed :
              warm' = [w EXCEPT
                !.after = m,
                !.outcome = SwipeOutcome(w.before, m),
                !.at = IF LeftApp(w, m) THEN "relaunch" ELSE "judge",
                !.frozen = IF ~changed /\ m = "same" THEN @ + 1 ELSE @,
                !.still = IF changed THEN 0 ELSE IF @ < 2 THEN @ + 1 ELSE 2]
        BY <1>2 DEF Swipe
      <2>2. w \in WarmType /\ w.left = warm.left
        BY MaybePassed
      <2>3. warm'.left = w.left /\ warm'.at \in {"relaunch", "judge"}
        BY <2>1, <2>2 DEF WarmType
      <2>4. QED
        BY <1>2, <2>2, <2>3 DEF Moves, Goes, Swipe
    <1>3. CASE Relaunch
      <2>1. PICK m \in CaptureMarker, w \in Passed :
              warm' = [w EXCEPT !.before = m, !.streak = 0, !.at = "judge"]
        BY <1>3 DEF Relaunch
      <2>2. w \in WarmType /\ w.left = warm.left
        BY PassedWarm
      <2>3. warm'.left = w.left /\ warm'.at = "judge"
        BY <2>1, <2>2 DEF WarmType
      <2>4. QED
        BY <1>3, <2>2, <2>3 DEF Moves, Goes, Relaunch
    <1>4. CASE RelaunchFails
      <2>1. PICK w \in {warm} \union Passed : warm' = [w EXCEPT !.at = "judge"]
        BY <1>4 DEF RelaunchFails
      <2>2. w \in WarmType /\ w.left = warm.left
        BY MaybePassed
      <2>3. warm'.left = w.left /\ warm'.at = "judge"
        BY <2>1, <2>2 DEF WarmType
      <2>4. QED
        BY <1>4, <2>2, <2>3 DEF Moves, Goes, RelaunchFails
    <1>5. CASE Judge
      <2>1. warm'.left = warm.left /\ warm'.at \in {"treat", "watch"}
        BY <1>1, <1>5 DEF Judge, WarmType
      <2>2. QED
        BY <1>5, <2>1 DEF Moves, Goes, Judge
    <1>6. CASE Treat
      <2>1. PICK m \in CaptureMarker, w \in {warm} \union Passed :
              warm' = [w EXCEPT !.before = IF m = "none" THEN @ ELSE m,
                                !.streak = 0, !.frozen = 0, !.at = "watch"]
        BY <1>6 DEF Treat
      <2>2. w \in WarmType /\ w.left = warm.left
        BY MaybePassed
      <2>3. warm'.left = w.left /\ warm'.at = "watch"
        BY <2>1, <2>2 DEF WarmType
      <2>4. QED
        BY <1>6, <2>2, <2>3 DEF Moves, Goes, Treat
    <1>7. QED
      BY <1>2, <1>3, <1>4, <1>5, <1>6

LEMMA PauseMoves ==
    ASSUME WarmInv, Watch \/ Like \/ LikeFails
    PROVE  Moves
    <1>1. warm \in WarmType
      BY DEF WarmInv, WarmTypeOK
    <1>2. CASE Watch
      <2>1. CASE warm' = [warm EXCEPT !.at = "dropped"]
        <3>1. warm'.at = "dropped"
          BY <1>1, <2>1 DEF WarmType
        <3>2. QED
          BY <1>2, <3>1 DEF Moves, Goes, Watch
      <2>2. ASSUME NEW n \in PickRange(RangeOf("scroll_interval_sec")),
                   NEW next \in {"swipe", "like", "dropped"},
                   warm' = [warm EXCEPT !.left = Spend(n), !.at = next]
            PROVE  Moves
        <3>1. warm'.left = Spend(n) /\ warm'.at = next
          BY <1>1, <2>2 DEF WarmType
        <3>2. warm.left > 0 => Spend(n) < warm.left
          BY PauseTakes
        <3>3. QED
          BY <1>2, <3>1, <3>2 DEF Moves, Goes, Watch
      <2>3. QED
        BY <1>2, <2>1, <2>2 DEF Watch, NextRound
    <1>3. CASE Like
      <2>1. PICK w \in {warm} \union Passed :
              IF Panics("like_cooldown_sec") THEN warm' = [w EXCEPT !.at = "dropped"]
              ELSE \E n \in PickRange(RangeOf("like_cooldown_sec")) :
                      warm' = [w EXCEPT !.likes = @ + 1, !.left = Spend(n), !.at = NextRound]
        BY <1>3 DEF Like
      <2>2. w \in WarmType
        BY MaybePassed
      <2>3. CASE warm' = [w EXCEPT !.at = "dropped"]
        <3>1. warm'.at = "dropped"
          BY <2>2, <2>3 DEF WarmType
        <3>2. QED
          BY <1>3, <3>1 DEF Moves, Goes, Like
      <2>4. ASSUME NEW n \in PickRange(RangeOf("like_cooldown_sec")),
                   warm' = [w EXCEPT !.likes = @ + 1, !.left = Spend(n), !.at = NextRound]
            PROVE  Moves
        <3>1. warm'.left = Spend(n) /\ warm'.at \in {"swipe", "dropped"}
          BY <2>2, <2>4 DEF WarmType, NextRound
        <3>2. Spend(n) <= warm.left
          BY PauseTakes
        <3>3. QED
          BY <1>3, <3>1, <3>2 DEF Moves, Goes, Like
      <2>5. QED
        BY <2>1, <2>3, <2>4
    <1>4. CASE LikeFails
      <2>1. PICK w \in {warm} \union Passed : warm' = [w EXCEPT !.at = NextRound]
        BY <1>4 DEF LikeFails
      <2>2. w \in WarmType /\ w.left = warm.left
        BY MaybePassed
      <2>3. /\ warm'.left = warm.left /\ warm'.at \in {"swipe", "dropped"}
            /\ warm.left \in Nat
        BY <1>1, <2>1, <2>2 DEF WarmType, NextRound
      <2>4. QED
        BY <1>4, <2>3 DEF Moves, Goes, LikeFails
    <1>5. QED
      BY <1>2, <1>3, <1>4

LEMMA WarmMoves ==
    ASSUME WarmInv, WarmStep
    PROVE  Moves
    <1>1. warm \in WarmType
      BY DEF WarmInv, WarmTypeOK
    <1>2. CASE Resolve
      <2>1. warm'.left = warm.left /\ warm'.at = "look"
        BY <1>1, <1>2 DEF Resolve, WarmType
      <2>2. QED
        BY <1>2, <2>1 DEF Moves, Goes, Resolve
    <1>3. CASE FirstLook
      <2>1. warm'.left = warm.left /\ warm'.at \in {"swipe", "dropped"}
        BY <1>1, <1>3 DEF FirstLook, WarmType
      <2>2. QED
        BY <1>3, <2>1 DEF Moves, Goes, FirstLook
    <1>4. CASE Disconnect \/ SwipeFails \/ TimeIsUp
      <2>1. warm'.at \in {"failed", "done"}
        BY <1>1, <1>4 DEF Disconnect, SwipeFails, TimeIsUp, WarmType
      <2>2. QED
        BY <1>4, <2>1 DEF Moves, Goes, Disconnect, SwipeFails, TimeIsUp
    <1>5. QED
      BY <1>2, <1>3, <1>4, RoundMoves, PauseMoves DEF WarmStep

LEMMA WarmLeftNat == ASSUME WarmInv PROVE WarmLeft \in Nat
    <1>1. warm.left \in Nat /\ warm.at \in Places
      BY DEF WarmInv, WarmTypeOK, WarmType
    <1>2. QED
      BY <1>1 DEF WarmLeft, Places

\* Each call of a warm-up leaves less to do, since every round takes time.
LEMMA WarmNearer ==
    ASSUME WarmInv, WarmInv', Paced, Moves
    PROVE  WarmLeft' < WarmLeft /\ Paced'
    <1>1. /\ warm.left \in Nat /\ warm.at \in Places
          /\ warm'.left \in Nat /\ warm'.at \in Places
      BY DEF WarmInv, WarmTypeOK, WarmType
    <1>2. CASE Goes({"size", "look", "swipe", "watch", "like"}, {"done", "failed", "dropped"})
      BY <1>1, <1>2 DEF Goes, WarmLeft, Paced
    <1>3. CASE /\ warm'.left = warm.left
               /\ \/ Goes({"size"}, {"look"}) \/ Goes({"look"}, {"swipe"})
                  \/ Goes({"swipe"}, {"relaunch", "judge"}) /\ warm.left > 0
                  \/ Goes({"relaunch"}, {"judge"}) \/ Goes({"judge"}, {"treat", "watch"})
                  \/ Goes({"treat"}, {"watch"})
      BY <1>1, <1>3 DEF Goes, WarmLeft, Paced
    <1>4. CASE warm'.left <= warm.left /\ Goes({"like"}, {"swipe"})
      BY <1>1, <1>4 DEF Goes, WarmLeft, Paced
    <1>5. CASE /\ warm.left > 0 => warm'.left < warm.left
               /\ Goes({"watch"}, {"swipe", "like"})
      BY <1>1, <1>5 DEF Goes, WarmLeft, Paced
    <1>6. QED
      BY <1>2, <1>3, <1>4, <1>5 DEF Moves

\* A screen that changes under the warm-up takes nothing from it.
LEMMA WarmAside ==
    ASSUME WarmInv, warm' \in Passed
    PROVE  warm'.at = warm.at /\ warm'.left = warm.left /\ WarmLeft' = WarmLeft
    <1>1. PICK w \in Passed : w = warm'
      OBVIOUS
    <1>2. w.at = warm.at /\ w.left = warm.left
      BY PassedWarm
    <1>3. QED
      BY <1>1, <1>2 DEF WarmLeft
-----------------------------------------------------------------------------
(***************************************************************************)
(* How much a step has left to do.                                         *)
(***************************************************************************)

\* A script less one call is a call shorter, and closing by keys is shorter
\* than trying to close by force first.
LEMMA ScriptShorter ==
    ASSUME NEW s \in Script
    PROVE  /\ ScriptLeft(s) \in Nat
           /\ s # <<>> => ScriptLeft(Tail(s)) < ScriptLeft(s)
           /\ s # <<>> /\ Head(s).or = "keys" => ScriptLeft(KeysOut) < ScriptLeft(s)
    <1>1. Len(KeysOut) = 6 /\ \A i \in DOMAIN KeysOut : KeysOut[i].or = "stop"
      <2>1. Must("back") \in Entry /\ Must("home") \in Entry
        BY Entries DEF Calls
      <2>2. KeysOut \in [1 .. 6 -> Entry] /\ DOMAIN KeysOut = 1 .. 6
        BY <2>1 DEF KeysOut
      <2>3. KeysOut \in Seq(Entry)
        BY <2>2, SeqDef
      <2>4. \A i \in 1 .. 6 : KeysOut[i].or = "stop"
        BY DEF KeysOut, Must
      <2>5. QED
        BY <2>2, <2>3, <2>4, LenProperties
    <1>2. ASSUME NEW t, Len(t) \in Nat
          PROVE  /\ ScriptLeft(t) \in {Len(t), Len(t) + 6}
                 /\ (\E i \in DOMAIN t : t[i].or = "keys") => ScriptLeft(t) = Len(t) + 6
                 /\ (\A i \in DOMAIN t : t[i].or # "keys") => ScriptLeft(t) = Len(t)
      BY <1>1 DEF ScriptLeft
    <1>3. Len(s) \in Nat
      BY LenProperties DEF Script
    <1>4. ASSUME s # <<>>
          PROVE  ScriptLeft(Tail(s)) < ScriptLeft(s)
      <2>1. /\ Len(s) >= 1 /\ Len(Tail(s)) = Len(s) - 1 /\ Len(Tail(s)) \in Nat
            /\ DOMAIN s = 1 .. Len(s) /\ DOMAIN Tail(s) = 1 .. Len(s) - 1
            /\ \A i \in 1 .. Len(s) - 1 : Tail(s)[i] = s[i + 1]
        BY <1>4, ScriptRest
      <2>2. CASE \E i \in DOMAIN s : s[i].or = "keys"
        <3>1. ScriptLeft(s) = Len(s) + 6 /\ ScriptLeft(Tail(s)) \in {Len(Tail(s)), Len(Tail(s)) + 6}
          BY <1>2, <1>3, <2>1, <2>2
        <3>2. QED
          BY <1>3, <2>1, <3>1
      <2>3. CASE \A i \in DOMAIN s : s[i].or # "keys"
        <3>1. \A i \in DOMAIN Tail(s) : i + 1 \in DOMAIN s /\ Tail(s)[i] = s[i + 1]
          BY <1>3, <2>1
        <3>2. \A i \in DOMAIN Tail(s) : Tail(s)[i].or # "keys"
          BY <2>3, <3>1
        <3>3. ScriptLeft(s) = Len(s) /\ ScriptLeft(Tail(s)) = Len(Tail(s))
          BY <1>2, <1>3, <2>1, <2>3, <3>2
        <3>4. QED
          BY <1>3, <2>1, <3>3
      <2>4. QED
        BY <2>2, <2>3
    <1>5. ASSUME s # <<>>, Head(s).or = "keys"
          PROVE  ScriptLeft(KeysOut) < ScriptLeft(s)
      <2>1. 1 \in DOMAIN s /\ Len(s) >= 1 /\ Head(s) = s[1]
        BY <1>5, ScriptRest
      <2>2. ScriptLeft(s) = Len(s) + 6
        BY <1>2, <1>3, <1>5, <2>1
      <2>3. ScriptLeft(KeysOut) = 6
        <3>1. ~\E i \in DOMAIN KeysOut : KeysOut[i].or = "keys"
          BY <1>1
        <3>2. QED
          BY <1>1, <3>1 DEF ScriptLeft
      <2>4. QED
        BY <1>3, <2>1, <2>2, <2>3
    <1>6. ScriptLeft(s) \in Nat
      BY <1>2, <1>3
    <1>7. QED
      BY <1>4, <1>5, <1>6

\* The step goes on with the rest of its calls.
LEMMA RestIsNearer ==
    ASSUME ScriptInv, step.stage # "warming", step'.stage # "warming",
           step.todo # <<>>, step'.todo = Rest
    PROVE  CallsLeft' < CallsLeft
    <1>1. step.todo \in Script
      BY DEF ScriptInv, StepTyped, StepRecord
    <1>2. ScriptLeft(Rest) < ScriptLeft(step.todo)
      BY <1>1, ScriptShorter DEF Rest
    <1>3. CallsLeft = ScriptLeft(step.todo) /\ CallsLeft' = ScriptLeft(step'.todo)
      BY DEF CallsLeft
    <1>4. QED
      BY <1>2, <1>3

\* A call that fails, and does not end the step, leaves less to do too.
LEMMA FailureIsNearer ==
    ASSUME ScriptInv, PerformFails
    PROVE  step' = NoStep \/ CallsLeft' < CallsLeft
    <1>1. /\ step \in StepRecord /\ step.stage = "running" /\ step.todo # <<>>
          /\ step.todo \in Script /\ Shaped(step.act, step.todo) /\ Call \notin Special
      BY DEF ScriptInv, StepTyped, StepRecord, PerformFails, RunningInv
    <1>2. CASE Head(step.todo).or = "stop"
      <2>1. Answer
        BY <1>2 DEF PerformFails
      <2>2. QED
        BY <2>1 DEF Answer, Leaving
    <1>3. CASE Head(step.todo).or = "keys"
      <2>1. step' = [step EXCEPT !.todo = KeysOut]
        BY <1>3 DEF PerformFails
      <2>2. step'.todo = KeysOut /\ step'.stage = "running"
        BY <1>1, <2>1 DEF StepRecord
      <2>3. ScriptLeft(KeysOut) < ScriptLeft(step.todo)
        BY <1>1, <1>3, ScriptShorter
      <2>4. CallsLeft = ScriptLeft(step.todo) /\ CallsLeft' = ScriptLeft(step'.todo)
        BY <1>1, <2>2 DEF CallsLeft
      <2>5. QED
        BY <2>2, <2>3, <2>4
    <1>4. CASE Head(step.todo).or \notin {"stop", "keys"}
      <2>1. step' = [step EXCEPT !.slipped = TRUE,
                       !.todo = IF Head(step.todo).or = "skip" THEN Tail(Rest) ELSE Rest]
        BY <1>4 DEF PerformFails
      <2>2. /\ step'.stage = "running"
            /\ step'.todo = IF Head(step.todo).or = "skip" THEN Tail(Rest) ELSE Rest
        BY <1>1, <2>1 DEF StepRecord
      <2>3. CASE Head(step.todo).or # "skip"
        BY <1>1, <2>2, <2>3, RestIsNearer
      <2>4. CASE Head(step.todo).or = "skip"
        <3>1. /\ Len(step.todo) \in Nat /\ DOMAIN step.todo = 1 .. Len(step.todo)
              /\ Head(step.todo) = step.todo[1] /\ Len(step.todo) >= 1
              /\ Rest \in Script /\ DOMAIN Rest = 1 .. Len(step.todo) - 1
          BY <1>1, ScriptRest DEF Rest
        <3>2. 1 \in DOMAIN step.todo /\ step.todo[1].or = "skip"
          BY <2>4, <3>1
        <3>3. 1 + 1 \in DOMAIN step.todo
          BY <1>1, <3>2 DEF Shaped
        <3>4. 1 \in DOMAIN Rest
          BY <3>1, <3>3
        <3>5. Rest # <<>>
          BY <3>4
        <3>6. /\ ScriptLeft(Tail(Rest)) < ScriptLeft(Rest) /\ ScriptLeft(Tail(Rest)) \in Nat
              /\ ScriptLeft(Rest) < ScriptLeft(step.todo)
              /\ ScriptLeft(Rest) \in Nat /\ ScriptLeft(step.todo) \in Nat
          <4>1. Tail(Rest) \in Script
            BY <3>1, <3>5, ScriptRest
          <4>2. QED
            BY <1>1, <3>1, <3>5, <4>1, ScriptShorter DEF Rest
        <3>7. CallsLeft = ScriptLeft(step.todo) /\ CallsLeft' = ScriptLeft(step'.todo)
          BY <1>1, <2>2 DEF CallsLeft
        <3>8. QED
          BY <2>2, <2>4, <3>6, <3>7
      <2>5. QED
        BY <2>3, <2>4
    <1>5. QED
      BY <1>2, <1>3, <1>4

\* Every step of the runner on a step that has begun leaves less to do.
LEMMA RunnerIsNearer ==
    ASSUME ScriptInv, WarmInv, WarmInv', Paced, RunnerStep
    PROVE  step' = NoStep \/ step.stage = "asked" \/ CallsLeft' < CallsLeft
    <1>1. step \in StepRecord
      BY DEF ScriptInv, StepTyped
    <1>2. CASE Reject \/ JobFailed \/ JobTimesOut \/ Complete \/ WarmReturns \/ SubmitFails
      BY <1>2 DEF Reject, JobFailed, JobTimesOut, Complete, WarmReturns, SubmitFails, Answer,
                  Leaving
    <1>3. CASE Admit
      BY <1>3 DEF Admit
    <1>4. CASE Perform \/ Download \/ TapGallery \/ Submit \/ JobDone
      <2>1. /\ step.stage = "running" /\ step.todo # <<>>
            /\ step'.stage = "running" /\ step'.todo = Rest
        BY <1>1, <1>4 DEF Perform, Download, TapGallery, Submit, JobDone, At, StepRecord
      <2>2. QED
        BY <2>1, RestIsNearer
    <1>5. CASE DownloadFails \/ AwaitVideo
      <2>1. CASE \E downloads : Leaving(downloads)
        BY <2>1 DEF Leaving
      <2>2. CASE step' = [step EXCEPT !.todo = Rest]
        <3>1. /\ step.stage = "running" /\ step.todo # <<>>
              /\ step'.stage = "running" /\ step'.todo = Rest
          BY <1>1, <1>5, <2>2 DEF DownloadFails, AwaitVideo, At, StepRecord
        <3>2. QED
          BY <3>1, RestIsNearer
      <2>3. QED
        BY <1>5, <2>1, <2>2 DEF DownloadFails, AwaitVideo, Answer
    <1>6. CASE PerformFails
      BY <1>6, FailureIsNearer
    <1>7. CASE Warm
      <2>1. WarmLeft' < WarmLeft
        BY <1>7, WarmMoves, WarmNearer DEF Warm
      <2>2. CallsLeft = WarmLeft /\ CallsLeft' = WarmLeft'
        BY <1>7 DEF Warm, CallsLeft
      <2>3. QED
        BY <2>1, <2>2
    <1>8. QED
      BY <1>2, <1>3, <1>4, <1>5, <1>6, <1>7 DEF RunnerStep

\* What goes on around a step that has begun leaves it as much to do.
LEMMA AroundIsAsNear ==
    ASSUME ScriptInv, WarmInv, step.stage \in {"running", "warming"}, Next, ~RunnerStep, ~PollFails
    PROVE  CallsLeft' = CallsLeft
    <1>1. step \in StepRecord
      BY DEF ScriptInv, StepTyped
    <1>2. step'.stage = step.stage /\ step'.todo = step.todo
      BY <1>1 DEF Next, Request, JobEnds, OrphanEnds, JobActs, Deliver, Pause, Resume, StepRecord
    <1>3. CASE step.stage = "running"
      BY <1>2, <1>3 DEF CallsLeft
    <1>4. CASE step.stage = "warming"
      <2>1. CASE JobActs
        BY <1>2, <1>4, <2>1, WarmAside DEF JobActs, CallsLeft
      <2>2. CASE warm' = warm
        BY <1>2, <1>4, <2>2 DEF CallsLeft, WarmLeft
      <2>3. QED
        BY <1>4, <2>1, <2>2 DEF Next, Request, JobEnds, OrphanEnds, Deliver, Pause, Resume
    <1>5. QED
      BY <1>3, <1>4

\* Time is left wherever a round still needs it.
LEMMA PacedInvariant == Spec => []Paced
    <1>1. Init => Paced
      BY DEF Init, WarmInit, Idle, Paced
    <1>2. ASSUME WarmInv, WarmInv', Paced, [Next]_vars
          PROVE  Paced'
      <2>1. CASE Warm
        BY <1>2, <2>1, WarmMoves, WarmNearer DEF Warm
      <2>2. CASE JobActs
        <3>1. CASE warm' \in Passed
          BY <1>2, <3>1, WarmAside DEF Paced
        <3>2. CASE UNCHANGED warm
          BY <1>2, <3>2 DEF Paced
        <3>3. QED
          BY <2>2, <3>1, <3>2 DEF JobActs
      <2>3. CASE WarmBegin
        <3>1. warm'.at \in {"dropped", "size"}
          BY <2>3 DEF WarmBegin, Idle
        <3>2. QED
          BY <3>1 DEF Paced
      <2>4. CASE warm' = Idle
        BY <2>4 DEF Idle, Paced
      <2>5. CASE UNCHANGED warm
        BY <1>2, <2>5 DEF Paced
      <2>6. QED
        BY <1>2, <2>1, <2>2, <2>3, <2>4, <2>5
           DEF Next, RunnerStep, vars, Request, Reject, Admit, Perform, PerformFails, Download,
               DownloadFails, TapGallery, Submit, SubmitFails, JobDone, JobFailed, PollFails,
               JobTimesOut, AwaitVideo, Complete, WarmReturns, JobEnds, OrphanEnds, Deliver,
               Pause, Resume
    <1>3. WarmInv /\ WarmInv' /\ Paced /\ [Next]_vars => Paced'
      BY <1>2
    <1>4. QED
      BY <1>1, <1>3, WarmInvariant, PTL DEF Spec

\* For any durations, times of day and number of likes, a step that has begun
\* comes nearer to its end with every call it makes, and nothing around it
\* takes it farther away (the loops of actionWarmupFeed and the scripts).
THEOREM StepsComeNearer == Spec => NearerToItsEnd
    <1> DEFINE Inv == ScriptInv /\ WarmInv /\ Paced
               Counted == CallsLeft \in Nat
               Nearer ==
                  /\ RunnerStep => \/ step'.stage = "idle" \/ step.stage = "asked"
                                   \/ CallsLeft' < CallsLeft
                  /\ step.stage \in {"running", "warming"} => CallsLeft' <= CallsLeft
    <1>1. Inv => Counted
      BY ScriptShorter, WarmLeftNat DEF CallsLeft, ScriptInv, StepTyped, StepRecord
    <1>2. Inv /\ Inv' /\ Counted /\ Counted' /\ [Next]_vars => [Nearer]_vars
      <2> SUFFICES ASSUME Inv, Inv', Counted, Counted', Next
                   PROVE  Nearer
        BY DEF vars
      <2>1. RunnerStep => step' = NoStep \/ step.stage = "asked" \/ CallsLeft' < CallsLeft
        BY RunnerIsNearer
      <2>2. step' = NoStep => step'.stage = "idle" /\ CallsLeft' = 0
        <3>1. ASSUME step' = NoStep
              PROVE  CallsLeft' = 0
          BY <3>1 DEF CallsLeft, ScriptLeft, NoStep
        <3>2. QED
          BY <3>1, NoStepTyped
      <2>3. ASSUME step.stage \in {"running", "warming"}
            PROVE  CallsLeft' <= CallsLeft
        <3>1. CASE ~RunnerStep /\ ~PollFails
          BY <2>3, <3>1, AroundIsAsNear
        <3>2. CASE PollFails
          BY <2>2, <3>2 DEF PollFails, Answer, Leaving
        <3>3. CASE RunnerStep
          BY <2>1, <2>2, <2>3, <3>3
        <3>4. QED
          BY <3>1, <3>2, <3>3
      <2>4. QED
        BY <2>1, <2>2, <2>3
    <1>3. QED
      BY <1>1, <1>2, WarmInvariant, ScriptInvariant, PacedInvariant, PTL DEF Spec, NearerToItsEnd
=============================================================================
