---------------------------- MODULE ScenarioStep ----------------------------
(***************************************************************************)
(* The steps of a scenario on one phone (POST .../scenarios/run-step and   *)
(* ScenarioRunner), one after the other, with what goes on around them:    *)
(* jobs that behavior-engine goes on with after the step that asked for    *)
(* them has given up, downloads that travel over NATS, and an operator who *)
(* pauses the phone.                                                       *)
(*                                                                         *)
(* A step is a script of calls.  Executor, observer, behavior-engine,      *)
(* video-generator and content-distributor are external: any call may      *)
(* fail, and one that fails may have been carried out.                     *)
(***************************************************************************)
EXTENDS WarmupFeed, Sequences

CONSTANT
    MaxScrolls    \* the most that scroll_count of a scenario asks for

ASSUME ScrollsAssumption == MaxScrolls \in Nat

VARIABLES
    front,      \* what the phone shows: "home", "app", "browser", or "other",
                \* which is also what a warm-up leaves, going by markers alone
    step,       \* the step in progress
    orphan,     \* does a job of an earlier step still run?
    state,      \* the phone's state, paused or not
    bus,        \* downloads go over NATS
    gallery,    \* whose video is first in the phone's gallery?
    sent        \* whose downloads are still under way?  Over HTTP those whose
                \* caller has given up waiting

vars == <<warm, front, step, orphan, state, bus, gallery, sent>>

Acts == {"wait", "open_app", "close_app", "warmup_feed", "browser_research",
         "create_video", "publish_content", "social_action", "custom_execute",
         "device_control"}
Fronts == {"home", "app", "browser", "other"}
Stages == {"idle", "asked", "running", "warming"}
JobStates == {"none", "running", "done", "failed", "cancelled"}

\* job: the step's own job at behavior-engine; posted: the video published;
\* licence: has the phone been out of pause since the request, or its state
\* been unreadable?  slipped: has a call that may fail failed, or a recovery
\* moved the screen?  disturbed: has an earlier step's job moved it?
\* overtaken: has an earlier step's download come on top of the step's own?
NoStep == [stage |-> "idle", act |-> "wait", todo |-> <<>>, job |-> "none",
           posted |-> "none", licence |-> FALSE, slipped |-> FALSE, disturbed |-> FALSE,
           overtaken |-> FALSE]

-----------------------------------------------------------------------------
(***************************************************************************)
(* The scripts.  When a call fails the step stops, goes on, skips the next *)
(* call too, or closes the app by keys instead.                            *)
(***************************************************************************)

Must(c) == [call |-> c, or |-> "stop"]
May(c) == [call |-> c, or |-> "on"]
Try(c) == [call |-> c, or |-> "skip"]

\* Faulty variant of KeysOut: home is not pressed.
KeysBack == [i \in 1 .. 5 |-> Must("back")]

\* closeAppViaKeys.
KeysOut == [i \in 1 .. 6 |-> Must(IF i < 6 THEN "back" ELSE "home")]

OpenApp == {<<Must("home"), Must("launchApp")>>,
            <<Must("home"), Must("launchApp"), May("recover")>>}

CloseApp == {<<[call |-> "forceStop", or |-> "keys"], Must("home")>>, KeysOut}

\* The research: a search, with what follows the press of home as a parameter,
\* a look for a link,
Search(next) ==
    <<Must("launchBrowser"), Try("home"), next, Must("tap"), Must("type"), Must("enter"),
      Must("draw"), May("look"), Must("look")>>

\* which is tapped if the page shows one, and the page looked through.
Links == {<<>>, <<Must("tap")>>}
Scrolls(n) ==
    [i \in 1 .. 3 * n |-> CASE i % 3 = 1 -> May("swipe")
                            [] i % 3 = 2 -> Must("draw")
                            [] OTHER -> May("look")]

Research(next, link, n) ==
    Search(next) \o (link \o <<Must("draw"), May("look"), Must("draw")>> \o Scrolls(n))
        \o <<Must("draw"), May("look"), May("home")>>

\* Faulty variant of Browser: home, but no launch after it.
BrowserAtHome ==
    UNION {{Research(May("look"), link, n) : n \in 0 .. MaxScrolls} : link \in Links}

\* actionBrowserResearch.  "draw" draws from a range of the scenario, most often
\* for a wait; from a reversed one it panics, and the connection is dropped.
Browser ==
    UNION {{Research(May("launchBrowser"), link, n) : n \in 0 .. MaxScrolls} : link \in Links}

CreateVideo == {<<Must("createVideo"), Must("awaitVideo")>>}

\* Faulty variant of Publish: a failed download is let pass.
PublishAnyhow ==
    {<<Must("register"), May("download"), Must("launchApp"),
       Must("plus"), Must("gallery"), Must("next")>>}

Publish ==
    {<<Must("register"), Must("download"), Must("launchApp"),
       Must("plus"), Must("gallery"), Must("next")>>}

\* actionSocialAction: a search brings the app to the front first.
Social ==
    {<<Must("submit"), Must("await")>>,
     <<May("launchApp"), Must("submit"), Must("await")>>,
     <<Try("home"), May("launchApp"), Must("submit"), Must("await")>>}

\* What the executor can be told to do in a plan (stepToAction).
PlanTypes == {"tap", "wait", "back"}

\* ExecutePlan: steps of other types are left out, and a plan of none but them
\* is no call at all.
Plan(types) == IF types \intersect PlanTypes = {} THEN <<>> ELSE <<Must("plan")>>

CustomExecute == {Plan(types) : types \in SUBSET {"tap", "wait", "swipe"} \ {{}}}

Control == {<<Must(c)>> : c \in {"home", "back", "key", "swipe", "tap"}}

Scripts(a) ==
    CASE a = "open_app" -> OpenApp
      [] a = "close_app" -> CloseApp
      [] a = "browser_research" -> Browser
      [] a = "create_video" -> CreateVideo
      [] a = "publish_content" -> Publish
      [] a = "social_action" -> Social
      [] a = "device_control" -> Control
      [] a = "wait" -> {Plan({"wait"})}
      [] a = "custom_execute" -> CustomExecute
      [] OTHER -> {<<>>}

\* What the phone may show after a call.
Leads(c) ==
    CASE c = "home" -> {"home"}
      [] c = "launchApp" -> {"app"}
      [] c = "launchBrowser" -> {"browser"}
      [] c = "forceStop" -> {IF front = "app" THEN "home" ELSE front}
      [] c \in {"back", "key", "plan", "recover"} -> Fronts
      [] OTHER -> {front}

-----------------------------------------------------------------------------
StepTypeOK ==
    /\ WarmTypeOK
    /\ front \in Fronts
    /\ step.stage \in Stages /\ step.act \in Acts /\ step.job \in JobStates
    /\ \A i \in DOMAIN step.todo : step.todo[i].or \in {"stop", "on", "skip", "keys"}
    /\ step.posted \in {"none", "own", "other"}
    /\ {step.licence, step.slipped, step.disturbed, step.overtaken, orphan, bus} \subseteq BOOLEAN
    /\ state \in {"working", "paused"}
    /\ gallery \in {"own", "other"} /\ sent \subseteq {"own", "other"}

Init ==
    /\ WarmInit
    /\ front \in {"home", "app"}
    /\ step = NoStep /\ orphan = FALSE /\ state = "working"
    /\ bus \in BOOLEAN /\ gallery = "other" /\ sent = {}

\* The request is answered, or its connection dropped; what it has started at
\* behavior-engine and the downloads under way go on.
Leaving(downloads) ==
    /\ step' = NoStep
    /\ orphan' = (orphan \/ step.job = "running")
    /\ gallery' = "other"
    /\ sent' = IF downloads = {} THEN {} ELSE {"other"}

Answer == Leaving(sent)

Call == Head(step.todo).call
At(c) == step.stage = "running" /\ step.todo # <<>> /\ Call = c
Rest == Tail(step.todo)

\* Calls with actions of their own.
Special == {"download", "gallery", "submit", "await", "awaitVideo"}

-----------------------------------------------------------------------------
(***************************************************************************)
(* A request for a step, up to the step's first call.                      *)
(***************************************************************************)

\* The step's action in scenario.yaml; "unlisted" if the step is not in it, and
\* "no file" if there is none, or scenarios does not answer.
Files == Acts \union {"", "unlisted", "no file"}

\* MergeStepRequest: the request's action, if it names one, or the file's.  The
\* file must have the step even then.
MergeStep(action, file) ==
    IF file = "no file" THEN action
    ELSE IF file = "unlisted" THEN "error"
    ELSE IF action # "" THEN action
    ELSE file

\* A request that comes to nothing is refused at once.
Request(action, file) ==
    /\ step.stage = "idle"
    /\ MergeStep(action, file) \in Acts
    /\ step' = [NoStep EXCEPT !.stage = "asked", !.act = MergeStep(action, file),
                              !.licence = state = "working"]
    /\ UNCHANGED <<warm, front, orphan, state, bus, gallery, sent>>

\* The phone is paused, the variables cannot be read, or a parameter or a
\* client is missing.
Reject ==
    /\ step.stage = "asked"
    /\ Answer
    /\ UNCHANGED <<warm, front, state, bus>>

\* Faulty variant of Admit: the phone's state is not looked at.
AdmitAll ==
    /\ step.stage = "asked"
    /\ \E s \in Scripts(step.act) :
        step' = [step EXCEPT !.stage = IF step.act = "warmup_feed" THEN "warming" ELSE "running",
                             !.todo = s]
    /\ IF step.act = "warmup_feed" THEN WarmBegin /\ front' = "other"
       ELSE UNCHANGED <<warm, front>>
    /\ UNCHANGED <<orphan, state, bus, gallery, sent>>

\* RunStep reads the phone, once.  If it cannot, the step starts all the same.
Admit ==
    /\ step.stage = "asked"
    /\ \E read \in BOOLEAN, s \in Scripts(step.act) :
        /\ read => state = "working"
        /\ step' = [step EXCEPT
              !.stage = IF step.act = "warmup_feed" THEN "warming" ELSE "running",
              !.todo = s, !.licence = @ \/ ~read]
    /\ IF step.act = "warmup_feed" THEN WarmBegin /\ front' = "other"
       ELSE UNCHANGED <<warm, front>>
    /\ UNCHANGED <<orphan, state, bus, gallery, sent>>

-----------------------------------------------------------------------------
(***************************************************************************)
(* The calls.                                                              *)
(***************************************************************************)

Perform ==
    /\ step.stage = "running" /\ step.todo # <<>> /\ Call \notin Special
    /\ front' \in Leads(Call)
    /\ step' = [step EXCEPT !.todo = Rest, !.slipped = @ \/ Call = "recover"]
    /\ UNCHANGED <<warm, orphan, state, bus, gallery, sent>>

\* A call that fails may have been carried out.
PerformFails ==
    /\ step.stage = "running" /\ step.todo # <<>> /\ Call \notin Special
    /\ front' \in Leads(Call) \union {front}
    /\ CASE Head(step.todo).or = "stop" -> Answer
         [] Head(step.todo).or = "keys" ->
              step' = [step EXCEPT !.todo = KeysOut] /\ UNCHANGED <<orphan, gallery, sent>>
         [] OTHER ->
              /\ step' = [step EXCEPT !.slipped = TRUE,
                            !.todo = IF Head(step.todo).or = "skip" THEN Tail(Rest) ELSE Rest]
              /\ UNCHANGED <<orphan, gallery, sent>>
    /\ UNCHANGED <<warm, state, bus>>

\* Over NATS a download is only asked for;
PublishDownload == sent' = sent \union {"own"} /\ UNCHANGED gallery

\* over HTTP the call returns when the file is on the phone.
DownloadSync == gallery' = "own" /\ UNCHANGED sent

\* DownloadAsync.
Download ==
    /\ At("download")
    /\ step' = [step EXCEPT !.todo = Rest]
    /\ IF bus THEN PublishDownload ELSE DownloadSync
    /\ UNCHANGED <<warm, front, orphan, state, bus>>

\* A download that fails for its caller, by the client's timeout or with the
\* caller's own request, may arrive all the same.
DownloadFails ==
    /\ At("download")
    /\ \E downloads \in {sent, sent \union {"own"}} :
        IF Head(step.todo).or = "stop" THEN Leaving(downloads)
        ELSE /\ step' = [step EXCEPT !.todo = Rest]
             /\ sent' = downloads /\ UNCHANGED <<orphan, gallery>>
    /\ UNCHANGED <<warm, front, state, bus>>

\* The first video of the gallery is the one published.
TapGallery ==
    /\ At("gallery")
    /\ step' = [step EXCEPT !.todo = Rest, !.posted = gallery]
    /\ UNCHANGED <<warm, front, orphan, state, bus, gallery, sent>>

Submit ==
    /\ At("submit")
    /\ step' = [step EXCEPT !.todo = Rest, !.job = "running"]
    /\ UNCHANGED <<warm, front, orphan, state, bus, gallery, sent>>

\* No answer, or one without a job's id: the job may run all the same.
SubmitFails ==
    /\ At("submit")
    /\ step' = NoStep
    /\ orphan' \in {orphan, TRUE}
    /\ UNCHANGED <<warm, front, state, bus, gallery, sent>>

\* waitBehaviorJobWithLogs sees the job done,
JobDone ==
    /\ At("await") /\ step.job = "done"
    /\ step' = [step EXCEPT !.todo = Rest]
    /\ UNCHANGED <<warm, front, orphan, state, bus, gallery, sent>>

\* or failed, or cannot see it,
JobFailed ==
    /\ At("await") /\ step.job = "failed"
    /\ Answer
    /\ UNCHANGED <<warm, front, state, bus>>

PollFails ==
    /\ At("await")
    /\ Answer
    /\ UNCHANGED <<warm, front, state, bus>>

\* Faulty variant of JobTimesOut: time is up, so the job must have been done.
JobTimesOutDone ==
    /\ At("await") /\ step.job \in {"running", "cancelled"}
    /\ step' = [step EXCEPT !.todo = Rest]
    /\ UNCHANGED <<warm, front, orphan, state, bus, gallery, sent>>

\* Faulty variant of JobTimesOut: a job that is over is never given up.
JobTimesOutRunning ==
    /\ At("await") /\ step.job = "running"
    /\ Answer
    /\ UNCHANGED <<warm, front, state, bus>>

\* or waits until time is up.  A word it does not know counts as running.
JobTimesOut ==
    /\ At("await") /\ step.job \in {"running", "cancelled"}
    /\ Answer
    /\ UNCHANGED <<warm, front, state, bus>>

\* The words waitVideoJob takes for the end of a video job, and the one that
\* both clients report.
VideoDone == {"completed", "done", "success"}
VideoReady == "job_status_ready"

\* waitVideoJob: never sees the job done, and times out.
AwaitVideo ==
    /\ At("awaitVideo")
    /\ IF VideoReady \in VideoDone
       THEN step' = [step EXCEPT !.todo = Rest] /\ UNCHANGED <<orphan, gallery, sent>>
       ELSE Answer
    /\ UNCHANGED <<warm, front, state, bus>>

\* The script is done: "completed".
Complete ==
    /\ step.stage = "running" /\ step.todo = <<>>
    /\ Answer
    /\ UNCHANGED <<warm, front, state, bus>>

\* A call of the warm-up, and its end.
Warm ==
    /\ step.stage = "warming"
    /\ WarmStep
    /\ UNCHANGED <<front, step, orphan, state, bus, gallery, sent>>

WarmReturns ==
    /\ warm.at \in {"done", "failed", "dropped"}
    /\ Answer
    /\ warm' = Idle
    /\ UNCHANGED <<front, state, bus>>

RunnerStep ==
    \/ Reject \/ Admit \/ Perform \/ PerformFails
    \/ Download \/ DownloadFails \/ TapGallery
    \/ Submit \/ SubmitFails \/ JobDone \/ JobFailed \/ JobTimesOut
    \/ AwaitVideo \/ Complete \/ Warm \/ WarmReturns

-----------------------------------------------------------------------------
(***************************************************************************)
(* Around the step.                                                        *)
(***************************************************************************)

\* A job ends, well or badly, or is cancelled at behavior-engine.
JobEnds ==
    /\ step.job = "running"
    /\ \E s \in {"done", "failed", "cancelled"} : step' = [step EXCEPT !.job = s]
    /\ UNCHANGED <<warm, front, orphan, state, bus, gallery, sent>>

OrphanEnds ==
    /\ orphan
    /\ orphan' = FALSE
    /\ UNCHANGED <<warm, front, step, state, bus, gallery, sent>>

\* A job uses the phone.
JobActs ==
    /\ orphan \/ step.job = "running"
    /\ IF step.stage = "warming"
       THEN warm' \in Passed /\ UNCHANGED front
       ELSE front' \in Fronts \ {"browser"} /\ UNCHANGED warm
    /\ step' = [step EXCEPT !.disturbed = @ \/ (orphan /\ step.stage = "running")]
    /\ UNCHANGED <<orphan, state, bus, gallery, sent>>

\* A download arrives, or is lost.
Deliver(v) ==
    /\ v \in sent
    /\ sent' = sent \ {v}
    /\ gallery' \in {v, gallery}
    /\ step' = [step EXCEPT !.overtaken =
                  @ \/ (step.stage = "running" /\ gallery = "own" /\ gallery' = "other")]
    /\ UNCHANGED <<warm, front, orphan, state, bus>>

Pause ==
    /\ state = "working"
    /\ state' = "paused"
    /\ UNCHANGED <<warm, front, step, orphan, bus, gallery, sent>>

Resume ==
    /\ state = "paused"
    /\ state' = "working"
    /\ step' = [step EXCEPT !.licence = @ \/ step.stage # "idle"]
    /\ UNCHANGED <<warm, front, orphan, bus, gallery, sent>>

Next ==
    \/ \E action \in Acts \union {""}, file \in Files : Request(action, file)
    \/ RunnerStep \/ PollFails
    \/ JobEnds \/ OrphanEnds \/ JobActs
    \/ \E v \in {"own", "other"} : Deliver(v)
    \/ Pause \/ Resume

Spec == Init /\ [][Next]_vars

\* The calls whose clients set no deadline: the executor's and those of the
\* recovery flows, and the video generator's.  The request's context has none.
NoDeadline ==
    {"home", "back", "key", "swipe", "tap", "type", "enter", "plan", "launchApp",
     "launchBrowser", "forceStop", "plus", "gallery", "next", "recover", "awaitVideo"}

\* Is the runner in such a call, which may never return?
OpenEnded ==
    \/ step.stage = "running" /\ step.todo # <<>> /\ Call \in NoDeadline
    \/ /\ step.stage = "warming"
       /\ \/ warm.at \in {"relaunch", "treat", "like"}
          \/ warm.at = "swipe" /\ warm.left > 0

\* The other calls have the timeouts of their HTTP clients, and so has every
\* wait for a job of behavior-engine.  Polls need not fail, and nothing is asked
\* of the jobs, of the downloads or of the operator.
FairSpec == Spec /\ WF_vars(~OpenEnded /\ RunnerStep)

-----------------------------------------------------------------------------
(***************************************************************************)
(* Properties.                                                             *)
(***************************************************************************)

Finishing == step.stage = "running" /\ step.todo = <<>>
Undisturbed == ~step.slipped /\ ~step.disturbed

\* A step whose job was seen neither done nor failed is not "completed": not
\* by a timeout, nor by a word for the job's end that the runner does not know.
CompletedMeansFinished == Finishing => step.job \in {"none", "done"}

\* The search is typed into the browser, and a publication's taps go to the
\* app, unless a call failed that the step lets fail, or a job left behind by
\* an earlier step took the phone.
ActsInPlace ==
    step.stage = "running" /\ step.todo # <<>> /\ Undisturbed =>
        /\ Call \in {"type", "enter"} => front = "browser"
        /\ Call \in {"plus", "gallery", "next"} => front = "app"

\* The phone is left where "completed" says: in the app it was to open, or at
\* home once the app is closed, by force or by keys, or the research is over.
EndsWhereItSays ==
    Finishing /\ Undisturbed =>
        /\ step.act \in {"open_app", "publish_content"} => front = "app"
        /\ step.act \in {"close_app", "browser_research"} => front = "home"

\* A publication is of the step's own video, where downloads go over HTTP, even
\* if those of earlier steps, timed out or cancelled, arrive while it goes on:
\* all but one that comes on top of the step's own.
PublishesItsVideo ==
    Finishing /\ step.act = "publish_content" /\ ~bus =>
        step.posted = "own" \/ step.overtaken

\* A phone paused ever since a step was asked for is not touched by it (the
\* error text "шаг сценария невозможен (нужен working/ready)"), unless the
\* store could not be read.
PausedIsLeftAlone == step.stage \in {"running", "warming"} => step.licence

\* What a script has left to do; closing the app may have to start again by
\* keys.
ScriptLeft(s) ==
    IF \E i \in DOMAIN s : s[i].or = "keys" THEN Len(s) + Len(KeysOut) ELSE Len(s)

CallsLeft == IF step.stage = "warming" THEN WarmLeft ELSE ScriptLeft(step.todo)

\* A step that has begun has less to do after every call it makes, and neither
\* jobs nor downloads nor the operator give it more: a call that fails is not
\* made again and again, and no round of a warm-up goes by without time spent,
\* whether the app is relaunched, the feed recovered or a like fails.
NearerToItsEnd ==
    [][/\ RunnerStep => \/ step'.stage = "idle" \/ step.stage = "asked"
                        \/ CallsLeft' < CallsLeft
       /\ step.stage \in {"running", "warming"} => CallsLeft' <= CallsLeft]_vars

\* Every step asked for comes to an end, whatever the phone, the jobs and the
\* scenario's ranges are like, but for one that waits for ever in one call that
\* has no deadline.
StepsEnd == []<>(step.stage = "idle") \/ <>[]OpenEnded
=============================================================================
