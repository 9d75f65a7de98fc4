# Phone orchestrator: TLA+ models and proofs

This directory models the control logic of AF phone-orchestrator: the lifecycle
loop that takes phones from `new` to `working`, the HTTP setup client, the
recovery flow, the steps of a scenario with the feed warm-up, and the services
that keep the table of phones in step with the fleet. TLC checks the models on
small instances; TLAPS proves the main invariants for every size.

## 1. Inventory

| Component | Code | State | Operations |
|---|---|---|---|
| Phone record | `internal/domain/phone.go` | – (a value) | `IsActive`, the record's fields |
| Control loop | `internal/service/orchestrator_service.go` | goroutines | `Run`, `processAll`, `processPhone`, `handlePaused`, `heartbeat`, `transition`; `PausePhone`, `ResumePhone`, `MarkError`, `ReprovisionPhone` |
| Phone lock | `internal/adapter/repository/memory_lock.go` | serial → expiry | `TryLock(ttl)`, `Unlock` |
| Phone store | `memory_phone_store.go`, `postgres_phone_store.go` | serial → row, log tables | `Get`, `Save`, `Update`, `ListActive`, `ListAll`, `Delete`, `LogTransition`, `Stats` |
| Phone service | `internal/service/phone_service.go` | – | `AddPhone`, `RemovePhone`, `SetStandSeqNumber`, `SyncLiveDevices` |
| Event publisher | `nats_publisher.go` | – | `PublishPhoneStateChanged` |
| HTTP setup client | `provision_http.go` | `awaitingReady` map | `AdvanceSetup` (status, start, status) |
| Stub provisioner, connectors | `connector_stub.go`, `connector_grpc.go` | – | `Connect`, `GetStatus`, `AdvanceSetup`, `ListDevices` |
| Recovery flow | `recovery_flow_service.go`, `refine_steps_xml.go` | one flow's locals | `RunRecovery`, `ReportOutcome` |
| Recovery exchange | `recovery_nats.go` | one subscription per wait | `Solve`, `ReportOutcome` |
| Stand numbers | `stand_seq_sync_service.go` | – | `SyncFromHome` |
| Scenario runner | `scenario_runner.go`, `scenario_vars.go`, `scenario_parse.go`, `scenario_step_log.go`, `warmup_feed_helpers.go` | one step's locals | `RunStep` with ten actions, feed warm-up, job waits |
| Clients | `scenarios_http.go`, `behavior_http.go`, `content_*.go`, `executor_grpc.go`, `observer_http.go`, `video_grpc.go`, `contacts_grpc.go` | – | one call each, some with polling |
| HTTP and gRPC handlers | `internal/adapter/handler/` | – | one operation per route |

How they interact. Every tick of `Run` lists the active phones and starts one
`processPhone` goroutine for each. A goroutine takes the phone's lease (30 s),
reads its record, makes one remote call, and writes *its copy of the whole
record* back. HTTP requests read and rewrite the same records and take no
lease. `transition` is store write, log row, event, in this order, with every
error dropped. A paused phone is handed to the recovery flow, which talks to
observer, engine (over NATS publish/subscribe) and executor for up to 120 s,
longer than the lease. Setup is delegated to `ProvisionHTTP`, which polls the
provisioner and remembers in memory which runs it awaits.

A scenario step runs inside an HTTP request, for minutes, without lease or
flag: it drives the phone through the executor, watches it through the
observer, starts recovery flows of its own, and waits for jobs of
behavior-engine and video-generator that do not stop when the wait does. The
device scan and the stand-number reading rewrite whole records beside the loop.

What is hard: writes of stale copies; leases that lapse under a call and
unlocks that name no owner; a flag in the table that outlives its goroutine;
lost updates and lost events; restarts that forget the leases and
`awaitingReady`; answers that name no request; conclusions drawn from dumps
that may fail or look alike; jobs and downloads that outlive the step that
asked for them; calls without a deadline. `PROJECT.json` lists each of these
hazards at its line.

What makes each part correct:

- loop: follows the README's state diagram, one goroutine per phone, every
  transition told, no phone locked out or left behind, retired phones stay so;
- lock: an entry always has a goroutine that will release it;
- records: state and timestamps agree, whatever is lost;
- setup client: a phone is ready only on a run of its own setup, is not
  provisioned twice, and every setup ends;
- recovery: the plan is the phone's own, dialogs are cleared, taps go by what
  was seen last, and the flow returns if the executor does;
- fleet: a scan nobody overtakes settles every phone, numbers are the phones'
  own, phones off the allowlist are left alone;
- warm-up: a feed that is stuck is recovered, one that moves is not, gestures
  land on the screen;
- steps: "completed" means that what was asked for has happened, in the app it
  was meant for; paused phones are left alone; every step ends if its calls do.

## 2. Modules

| Module | Models |
|---|---|
| `PhoneRecords` | `domain.Phone` reduced to what the control flow reads, and the pure steps between records |
| `PhoneLifecycle` | abstract specification: the state diagram walked one arrow at a time, each arrow told before the next |
| `Orchestrator` | loop, lock, store, events and operator requests, composed; refines `PhoneLifecycle` |
| `OrchestratorProofs` | theorems about `Orchestrator` |
| `LifecycleProofs` | theorems about a loop that has its phones to itself, with the refinement of `PhoneLifecycle` |
| `FlagProofs` | theorem about recoveries that outlast their lease |
| `ProvisionClient` | `ProvisionHTTP.AdvanceSetup`, the provisioner as environment |
| `ProvisionProofs` | theorems about `ProvisionClient` |
| `RecoveryFlow` | `RunRecovery` and `RecoveryNATS.Solve`; screens and engine as environment |
| `RecoveryProofs` | theorems about `RecoveryFlow` |
| `FleetSync` | `SyncLiveDevices`, `SyncFromHome`, and the requests that edit a record beside them |
| `FleetProofs` | theorems about `FleetSync` |
| `StepArithmetic` | screen sizes, points and swipes, ranges, time windows of the scenario runner |
| `WarmupFeed` | `actionWarmupFeed` and its helpers, on a phone whose screen may change under it |
| `ScenarioStep` | `RunStep`, step after step, with the jobs, downloads and pauses around it; contains `WarmupFeed` |
| `StepProofs` | theorems about the three modules before it: points, warm-up, pauses |
| `ScriptProofs` | theorems about the scripts of `ScenarioStep`, and about how near a step is to its end |
| `MCOrchestrator`, `MCProvisionClient`, `MCRecoveryFlow`, `MCFleetSync`, `MCScenarioStep` | instances for TLC |

Operators that begin a comment with "Faulty variant" are not part of any
specification: each is a plausible bug in the operator below it, used to see
that a property would notice it.

### Orchestrator

`store` is the phones table, `lease` the lock map (`free`, `held`, or `lapsed`
once its TTL has run out), `announced` the last state sent on
`phone.state.changed`. Each *worker* is a goroutine and each *client* an HTTP
request; `pc`, `on` and `copy` are the call it is about to make, its phone and
its copy of the record. One action is what runs between two accesses to shared
state:

| Code | Actions |
|---|---|
| `processAll`, `TryLock`, `Get` | `Tick`, `Lock`/`LockBusy`, `Get`/`GetFails` |
| `StateNew`, setup states, `StateReady`, `StateWorking` | `Connect`, `AdvanceSetup`/`SetupGoesOn`, `Promote`, `Heartbeat` |
| `handlePaused` | `RaiseFlag`, `Recover`/`RecoveryFails`, `ClearFlag` |
| `stepErr` handling | `StepFails` |
| `transition` | `Transition` (store write), then `Announce`/`Reply` (log row and event) |
| deferred `Unlock` | `Release` |
| `AddPhone` | `RequestAdd`, `SavePhone` |
| pause, resume, error, reprovision | `Request`, `StoreRequest`, `Reply` |
| remove, stand number | `Request`, `StoreQuietly` |
| TTL, process restart | `Lapse`, `Crash` |

`SlowCalls` says which calls may outlast the lease, `Faults` which calls may
fail (`update` and `publish` too: their errors are dropped by the code).

### ProvisionClient

`run` is the provisioner's status for a serial, `awaiting` the `awaitingReady`
map, `stage` where the phone is and `readyAt` whether its record has a
`ready_at`. `Take` is `processPhone` reading the record; `known` is what its copy
says of `ready_at`, on which `shouldStartProvision` decides. `Ask`, `Decide`,
`Post`/`Conflict`, `Note`, `AskAgain`, `Judge` and `Complete` are the stretches
of `AdvanceSetup` between its HTTP calls and its map accesses. When it returns an
error (`CallFails`, `PostUnanswered`, `FailureSeen`) the loop writes its copy of
the record back (`ReturnError`), and a phone an operator took out of setup
meanwhile is in it again. `done`, `rerun` and `interrupted` are
history variables, read by the properties (`done` also by `rerun`), never by a
guard. `Lapses = TRUE` lets a second caller in, as when a call
takes longer (client timeout 120 s) than the lease.

### RecoveryFlow

`step` is the flow's place in `RunRecovery`. A screen is a number of stacked
permission dialogs; a flow sees only whether there is one. `inbox` is the first
message of the flow's subscription, `asked` the engine's unanswered requests.
`mixed`, `plan`, `hindered`, `overtaken` and `strays` are history. CaptureScreen and the
first dump are one action, because only the dump decides anything.

A plan taps up to `MaxPlan` times, and each of its taps goes where the first dump
showed Allow (`refineTapStepsFromXML`); the extra taps look again each time. A
call of the executor may fail and be carried out all the same, at once or later
(`loose`, `LateTap`). Flows may share a phone, as `POST /recovery/run` and the
scenario runner start flows without lease or flag. `overtaken` notes that another
flow or a late tap has tapped Allow since this one looked; `strays` are the
phones on which a call's first tap went to a place where Allow no longer was
although nobody had overtaken it.

### FleetSync

`record` is the phones table reduced to state, last error, stand number and
whether `ready_at` is set.
`scan`, `reading` and `request` are one device scan, one reading of a number
and one editing request in progress; each action is one access to the store or
one call to the phone.

| Code | Actions |
|---|---|
| `SyncLiveDevices`, loop over the devices | `ScanBegin` (the list, filtered by `IsAllowed`), `Look` (`Get`), `Put` (`Update` or `Save`) |
| its second loop | `Snapshot` (`ListAll`), `Mark` (`Update`), `ScanDone` |
| an error of the store | `ScanFails` |
| `SyncFromHome` | `ReadingBegin` (`GetPhone`), `PressHome`, `Dump`, `Detect` |
| `save`, `SetStandSeqNumber` | `ReadRecord`, `PutNumber` |
| the handlers of phone routes | `RequestBegin`, `RequestWrites`, `RequestFails` |
| other users of the screen | `UseApp` |

A screen is the set of numbers it shows. A home screen shows the phone's own, if
it is put up there (`reading.shown`), and perhaps others; an app shows any. On a
phone that does not show its own, a lone other number is stored, and nothing in
the code could tell: `NumberIsPhones` speaks of the phones that do. A scan puts
a marked phone to work with the `ready_at` it had, perhaps none; since only
tests call the scan, `RecordsConsistent` of `Orchestrator` does not meet such
rows. `scan.before` and `scan.alone` remember
the table at the scan's start and whether anyone else has written since;
`reading.moved` whether an app has come to the front: history, read by no guard.

### WarmupFeed

`warm.at` is the place in `actionWarmupFeed`. The runner compares *markers*,
short texts taken from dumps, and never sees the screen itself. The model keeps
a marker relative to the screen as it is now: `same`, `other`, or `none` for a
dump that failed; whatever changes the screen turns `same` into `other`, or
leaves it when the new screen has the same marker. One of the scenario's seven
ranges may be reversed, and the draw from it panics where the code makes it. `alike`, `frozen` and `still`
are history.

| Code | Actions |
|---|---|
| before the loop: variables, screen size, first marker | `WarmBegin`, `Resolve`, `FirstLook` |
| swipe and `captureFeedMarkerReliable` | `Swipe`, `SwipeFails` |
| `isForeignAppMarker`, `relaunchTikTokPackage` | `Relaunch`, `RelaunchFails` |
| `feedSwipeOutcome` and the streak | `Judge` |
| `tryRecoverBlockedFeed` | `Treat` |
| pause, like, cool-down | `Watch`, `Like`, `LikeFails` |
| deadline, cancelled context | `TimeIsUp`, `Disconnect` |

### ScenarioStep

A step is a script: the calls still to be made, each with what the code does
when it fails (`stop`, go `on`, `skip` the next one too, or close the app by
`keys`). `Scripts` gives the scripts of each action; `Perform` and
`PerformFails` make one call. `front` is what the phone shows.

| Code | Actions |
|---|---|
| the run-step route, `LookupStepFromYAML`, `MergeStepRequest` | `Request` |
| `RunStep` up to the switch | `Admit`, `Reject` |
| executor and observer calls, `ExecutePlan` | `Perform`, `PerformFails` |
| `DownloadAsync` over HTTP or NATS, the gallery | `Download`, `DownloadFails`, `Deliver`, `TapGallery` |
| `RunSocialAction`, `waitBehaviorJobWithLogs` | `Submit`, `SubmitFails`, `JobDone`, `JobFailed`, `JobTimesOut`, `PollFails` |
| `waitVideoJob` | `AwaitVideo` |
| `actionWarmupFeed` | `Warm`, `WarmReturns` |
| the end of `RunStep` | `Complete` |
| behavior-engine, operator | `JobEnds`, `OrphanEnds`, `JobActs`, `Pause`, `Resume` |

A browser research is a family of scripts, one for each number of scrolls, with
or without a link; its draws from the scenario's ranges are calls that may fail,
by a panic. A download its caller has given up on stays in `sent` and may arrive
during a later step (`Deliver`), over HTTP as over NATS; `overtaken` notes that
one came on top of the step's own.

`licence`, `slipped`, `disturbed`, `overtaken` and `posted` are history. A panic in the middle
of a warm-up (`dropped`) ends the request, as it does in Go's HTTP server.

## 3. Runs

| Run | Instance | Shows |
|---|---|---|
| `loop` | 2 phones, one added at run time, 2 workers, calls return | `MutualExclusion`, `FlagOwned`, `SubscribersFollow`; refinement of `PhoneLifecycle!FairSpec`; every new phone reaches work |
| `lapse` | 1 phone, 3 workers, recovery outlasts the lease | recoveries stay single thanks to the stored flag, and paused phones recover |
| `requests` | 1 phone, 1 worker, 1 client, all requests, all faults, lapses, 1 crash, HTTP setup | types, `RecordsConsistent`, `LeaseOwned` |
| `retired_revived` | one remove | **violation**: `Connect`'s transition writes back a copy read before a removal and undoes it |
| `pause_race` | one pause at a time | **violation**: a pause writes the raised flag back and the phone is never recovered |
| `stolen_lease` | 3 workers, failing recoveries that outlast the lease | **violation**: `Unlock` frees the successor's lease, two recoveries run |
| `setup` | 1 phone, 3 setups, 4 disturbances, interruptions, failing calls that write a copy back | `EarnedUnlessInterrupted`, `ProvisionedOnce`, `SetupAdvances`, `SetupEnds` |
| `stale_ready` | 1 phone, interruptions, no disturbance | **violation**: an old run makes a new setup ready |
| `recovery` | 2 phones, one with up to 3 dialogs, 2 flows on the same phone or not, plans of up to 2 taps, late taps | `PlanForPhoneAlone`, `StackCleared`, `NoBlindTap`, `FlowsWindDown`, `FlowReturns` |
| `plan_mix_up` | 2 phones, 2 flows | **violation**: a plan is carried out on another phone |
| `scenario` | 1 phone, any sequence of steps, late downloads, warm-ups up to a minute | `FrozenIsTreated`, `RecoveryOnlyWhenStill`, `GesturesLand`, `CompletedMeansFinished`, `ActsInPlace`, `EndsWhereItSays`, `PublishesItsVideo`, `PausedIsLeftAlone`, `NearerToItsEnd`, `StepsEnd`, types |
| `fleet` | 2 phones, 1 scan, 1 reading, 1 request | `LoneScanSettles`, `NumberIsPhones`, `OffListLeftAlone`, types |

Each violation run is a disagreement between the code and a sentence of the
repository, quoted in `PROJECT.json` under `findings`.

Bounds. Phones interact only through the actors that pass from one to another,
so one or two suffice; two workers are enough for every two-goroutine race, and
the third is needed to see a lease taken from a successor. One crash reaches
every state a second crash could start from, because a crash resets everything
but the table. Three setups let an old run, a current run and a stale entry
meet; the bound on disturbances is a counter, `MaxDisturbances`, which
liveness needs: a provisioner that fails for ever never finishes a setup. Three
dialogs are one for each extra tap, the boundary of the loop, and one phone is
enough to have them; of a plan of two taps the second goes by a dump that is out
of date. `MaxAsked` bounds
the engine's backlog per phone; a late answer needs one. The bounds on crashes,
passes, disturbances and requests are guards of the actions that use them up.
`setup` and `fleet` turn the deadlock check off: once the setups, or the scan,
the reading and the request, are used up the phone may rest.

In `scenario` nothing but time, likes and the scrolls of a research (two, so
that one follows another) is bounded, and steps follow each other
without end. Time is counted in slices of 15 s, and a round of the loop takes
one or two: a minute holds four rounds, one more than it takes to see three
swipes without effect, and what the counters hold over from one round to the
next is at most a streak of two. One like is enough to see the pause after it,
and its reversed range. `Durations` has the default and a full minute; `Untils`
a time that is past, one that is too near, and the two around the 30 s edge.
A warm-up goes by markers alone, so the model does not follow which app is in
front during one.

In `fleet` every phone starts unknown, at work, paused, retired, in error, or
marked as gone: what earlier scans and requests leave, so a second one would
start from a table that is already an initial one, but for numbers. The other
numbers are a small one and 40000, which the column cannot hold; one phone's
number is 32767, its largest. The allowlist is empty, which allows all, or holds
one phone of two.

Symmetry is declared only where no liveness is checked (`ActorSymmetry` for
workers and clients, `Symmetry` for phones and flows).

Fairness. Where a client sets a timeout its calls return: observer 60 s,
behavior-engine 90 s, provisioner, content and scenarios 120 s, connector 10 to
30 s; the wait for a recovery plan and the wait for a job have limits of their
own. The executor's gRPC calls and the video generator's have none, and neither
has the context that a recovery or a step is given. So `FairSpec` of
`RecoveryFlow` and of `ScenarioStep` forces a flow or a step on (`WF`) only where
it is not in such a call (`AtExecutor`, `OpenEnded`), and `FlowReturns` and
`StepsEnd` say that it ends *or* stays in such calls for ever: nothing else
keeps it. In `ScenarioStep` polls need not fail (`PollFails` is left out), jobs
need not end and downloads need not arrive.

In `ProvisionClient` every call of `AdvanceSetup` has the 120 s timeout (`WF` on
caller steps), and a run that does not fail ends (`WF` on `RunSucceeds`). In
`Orchestrator` calls return (`WF` on worker and client steps); of its recoveries
this is assumed, since they use the executor, so `NewReachesWork`,
`PausedRecovers` and the fair refinement are about farms whose executor answers.
The ticker comes round for every phone (`SF` on `Tick` and `Take`: strong,
because the model's few worker slots are taken now and then while the code has no
such limit). Nothing forces operators, lapses, crashes, failures or the engine's
answers.

## 4. Proofs

| Theorem | States | Assumes |
|---|---|---|
| `TypeCorrect` | `Spec => []TypeOK` | – |
| `RecordsStayConsistent` | `Spec => []RecordsConsistent` | – |
| `LeasesAreOwned` | `Spec => []LeaseOwned` | – |
| `LeaseExcludes` | `Spec => []MutualExclusion` | `NoLapse`: no call outlasts the lease |
| `LoopFollowsLifecycle` | `Spec => ImplementsLifecycle` | `LoopAlone` |
| `FlagsAreOwned` | `Spec => []FlagOwned` | `LoopAlone` |
| `SubscribersAreTold` | `Spec => []SubscribersFollow` | `LoopAlone` |
| `RecoveriesStayAlone` | `Spec => []OneRecovery` | `FlagGuards` |
| `SetupIsEarned` | `Spec => []EarnedUnlessInterrupted` | `~Lapses` |
| `SetupsProvisionOnce` | `Spec => []ProvisionedOnce` | `~Lapses` |
| `PlansAreForTheirPhones` | `Spec => []PlanForPhoneAlone` | – |
| `TapsHitDialogs` | `Spec => []NoBlindTap` | – |
| `StacksAreCleared` | `Spec => []StackCleared` | `MaxDialogs[p] <= MaxTaps`: at most three dialogs on any phone |
| `FleetTypes` | `Spec => []FleetTypeOK` | – |
| `NumbersAreTheirPhones` | `Spec => []NumberIsPhones` | – |
| `OffListStays` | `Spec => OffListLeftAlone` | – |
| `LoneScansSettle` | `Spec => []LoneScanSettles` | – |
| `ScaledPointsLand` | any integer point lands on any screen of 2 pixels or more | – |
| `FrozenFeedsAreTreated` | `Spec => []FrozenIsTreated` | – |
| `MovingFeedsAreNot` | `Spec => []RecoveryOnlyWhenStill` | – |
| `GesturesDoLand` | `Spec => []GesturesLand` | – |
| `PausedPhonesAreLeft` | `Spec => []PausedIsLeftAlone` | – |
| `StepTypes` | `Spec => []StepTypeOK` | – |
| `CompletedStepsFinished` | `Spec => []CompletedMeansFinished` | – |
| `CallsLandInPlace` | `Spec => []ActsInPlace` | – |
| `StepsEndWhereTheySay` | `Spec => []EndsWhereItSays` | – |
| `OwnVideosArePublished` | `Spec => []PublishesItsVideo` | – |
| `StepsComeNearer` | `Spec => NearerToItsEnd` | – |
| `FlowsDoWindDown` | `Spec => FlowsWindDown` | – |
| `SetupsDoAdvance` | `Spec => SetupAdvances` | `~Lapses` |

`LoopAlone`: operators only add phones, no call outlasts the lease, the process
does not stop, and writes and publications succeed; every other call may fail.
Each part is needed: run `pause_race` shows what a request beside the loop does,
`stolen_lease` what a lapsed lease does, and a lost write or a crash between the
two halves of `transition` plainly leaves a flag or a subscriber behind.
`FlagGuards`: operators only add phones, only recoveries outlast the lease, and
they and the writes succeed; the process may stop, and other calls may fail.
Beside these, only the modules' named `ASSUME`s on the constants are used.

- *Records.* The invariant adds what an actor's copy must satisfy at each point
  of its path, e.g. that the copy is a phone and its state is the one the next
  transition expects; consistency of the store alone is not inductive, since
  any copy may be written.
- *Leases.* A worker past its `TryLock` is on a phone, and an unexpired lease
  names one. For exclusion, with no lapse: at most one worker is processing a
  phone and then its lease is held, so `Lock` cannot succeed.
- *Loop alone.* Its invariant says that a worker about to use its copy holds
  the *stored* record (`HoldsStored`), in the state its call expects. That needs
  exclusion: nobody else writes the row meanwhile, and requests only fill rows
  that were absent. `Effect` sums up what any step of a worker then does: keep
  the state, take an arrow, or tell one; the three are a stutter, `Advance` and
  `Tell` of `PhoneLifecycle`. When an arrow is taken, `SubscribersFollow` and
  exclusion give that the state before it had been told.
- *Recoveries.* A paused phone whose flag is down is *fresh*. While it is, at
  most one worker is in work on it and has the lease, since only a recovery
  lets one lapse, so the flag goes up with nobody else there (`FreshAlone`).
  With the flag up, whoever comes in after a lapse reads it and leaves. And no
  copy ever makes a phone paused again (`PauseInv`): that is why operators may
  not pause, and why a failed recovery, which leaves the phone paused and lowers
  the flag, undoes the property.
- *Setup.* `EarnedUnlessInterrupted` says nothing of a caller that is about to
  declare the phone ready. `ProvisionInv` adds that one caller is on a phone,
  that an entry of `awaitingReady` means a run of this setup, and what a caller
  may conclude from its status at each step.
- *One run.* While nothing is lost, fails or restarts, a run in progress is in
  `awaitingReady` or its starter is about to enter it, and so is one that has
  succeeded until the phone is ready (`OnceInv`); a caller that is about to
  start a run has found no entry, so there is none to double.
- *Plans.* `ExchangeApart`: while an unmixed flow waits, the only open requests
  are for its phone, so the answer in its queue is too.
- *Taps.* `DialogsStay`: between a dump that shows a dialog and the call that
  taps it, the dialog is there or the flow has been overtaken, because whoever
  takes a dialog away overtakes every flow on the phone that has seen it.
- *Stacks.* `StackInv` counts the taps a flow has left against the dialogs
  left: `dialogs + taps <= 3` until it checks the screen, and other flows'
  taps only help.
- *Fleet.* `FleetInv` adds to the types what each writer holds at its place:
  whom the scan, the reading and the request are on and whether they may be.
  That a reading's number is the phone's needs the screen before it: while the
  reading is at its dump and undisturbed, the home screen is in front, and the
  one candidate on it is the phone's number, since that is among the texts.
- *Lone scan.* `LoneInv` cuts the phones of a scan nobody has overtaken into
  those still to be taken, which are as they were at the start, the one in
  hand, whose copy is what it is to become, and those done, which are settled.
  The second pass finds its phones by a snapshot of a table half settled:
  marking is idempotent and the first pass never touches a phone that is gone.
- *Warm-up.* `WarmInv` relates what the runner counts to what has happened:
  swipes without effect that it saw are at most its streak, with one more for a
  swipe not yet judged and one for the first, which it may have taken for
  movement because it compared with a screen long gone (`FrozenInv`); and a
  streak of *n* means that the last *n* swipes did nothing, as long as no two
  screens were alike (`StreakInv`). It holds for any `MaxLikes`, `Durations`
  and `Untils`, so for warm-ups of hours.
- *Paused phones.* `LicenceInv`: a phone without licence is paused, and then
  `Admit` cannot have read it as working.
- *Scripts.* `ScriptInv` looks ahead: it says what the calls still to be made
  bring about from where the phone is now (`PlaceInv`), so it need not remember
  which calls have been made. That holds as long as the step is undisturbed: no
  earlier job moves the screen, and no call failed that may fail. A step's own
  job moves it too, but only a social action has one, and needs nothing of the
  phone afterwards. A tap in the gallery takes what is first there, so the
  script's download is ahead of it unless the own video is already first, and
  stays so unless another comes on top of it (`VideoInv`).
- *Nearer to the end.* That something ends is beyond the prover, but not the
  reason why: a number that every call makes smaller. A recovery has two calls
  left for each extra tap, fourteen in all. A setup has a `Distance` from ready;
  that one caller works on a phone decides whether a run is still to be started
  (`WillPost`) or is known of (`Noted`). A step has its calls, and those of the
  way out by keys while a force-stop may still fail. A warm-up has six calls for
  each slice of time left; `Paced` says that a round that has come as far as its
  pause has time left for it, so that no round is free. With the fairness of
  single calls each of these gives termination; that last inference is what
  TLC checks on the instances.

Only model-checked: liveness itself (`NewReachesWork`, `PausedRecovers`,
`SetupEnds`, `FlowReturns`, `StepsEnd`, and the fairness of
`ImplementsFairLifecycle`), because the prover has neither fairness nor
`ENABLED`. Every other property of a passing run is a theorem.

## 5. Abstractions

- A row is written and read atomically, as both stores do; `LogTransition` is
  taken together with the event that carries the same pair of states.
- A lapsed lease is a choice, not a clock: it may lapse at any moment of a slow
  call.
- Error texts are four kinds; the recovery plan is the phone it was made for;
  a screen is a number of dialogs; the tap coordinates are "where Allow was".
- Memory and Postgres stores differ in ways no property here sees. `Save`
  leaves an existing row as it is.
- Dialogs that appear by themselves are left out: `StackCleared` is about the
  flow's own work.
- A late tap that hits no dialog changes nothing a flow can see.
- A step that is not a warm-up is a list of calls: the sleeps between them, and
  what a dump that decides nothing showed, are left out. Whether a result page
  holds a link to tap is a choice.
- Steps on one phone follow each other; two run-step requests at once are not
  modelled, since nothing in the code keeps them apart and no property of a
  step survives it.
- Behavior-engine's jobs move the screen at any moment while they run.
- Names, ports and times of a phone's record are left out of `FleetSync`, where
  no decision reads them.

Not modelled: the payload of `POST /provision`, log messages and step logs,
video and contacts apart from the video job a step waits for, uploads, listing
and deletion of content, Wi-Fi and application routes, the other proxies of
observer and executor, the syntax of `scenario.yaml` and of UI dumps,
configuration, health checks: pure I/O or text without control state.
`SyncLiveDevices` is modelled although only tests call it.

## 6. Plan

1. Done: `PhoneRecords`, `Orchestrator` with `PhoneLifecycle`,
   `ProvisionClient`, `RecoveryFlow`; `FleetSync`, `StepArithmetic`,
   `WarmupFeed`, `ScenarioStep`; the theorems of section 4.
2. Done: every safety invariant of the loop, the provisioner client, recovery
   and fleet sync that a passing run checks is proved, with the safety part of
   the refinement `Orchestrator => PhoneLifecycle`.
3. Done: the types and the script properties of `ScenarioStep`, and for every
   liveness property outside the loop the number that decreases
   (`FlowsWindDown`, `NearerToItsEnd`, `SetupAdvances`).
4. Still to do: the same for the loop (what a worker, once it has a phone, has
   left to do, and how far a new phone is from work); and the hazards of
   `PROJECT.json` that have no property yet: unknown step types in a plan, two
   run-step requests on one phone, retired phones under the unique index.
