# 4WALL: verification project

TLA+ models of the parts of 4WALL in which several processes have to agree, the
TLC configurations that check them on small instances, and theorems about them
that TLAPS checks for every value of the constants. Paths are relative to the
root of the repository. `PROJECT.json` holds the machine-readable side: the
components, the runs, the mutants that show each property can fail, the lines
each definition stands for, the hazards and the theorems.

Contents: 1 the system, 2 what makes it hard, 3 the modules, 4 the components
one by one, 5 runs and bounds, 6 proofs, 7 findings and deviations, 8 what is
not modelled, 9 what is left.

## 1. The system

4WALL monitors and operates a factory. A FastAPI server with a PostgreSQL
database (`planner-server/app`) is the centre; a React console (`web-app`), an
Android flight console (`android-app`), workers and edge agents
(`planner-server/deploy`, `planner-server/scripts`) and the LINE messenger talk
to it over HTTP.

| Part | State it keeps | Operations | Talks to |
| --- | --- | --- | --- |
| OpenBMC command rows (`routers/openbmc.py`, `openbmc_service.py`) | command rows: status, lease, slot, result | propose, confirm, cancel, claim, progress, result, deadline sweep | console, site connector |
| OpenBMC site connector (`deploy/openbmc-connector`) | one active command, in memory and in a state file | poll, reconcile, claim, dispatch, report | cloud rows, local collector and agent |
| OpenBMC observations and events | observation and event rows, sent keys | ingest, batch, mark sent | connector, console |
| Twin agent relay (`twin_agent.py`, `routers/twin_agent.py`) | job list, feeds, world slots, worker heartbeat, all in memory | snapshot, message, updates, jobs, result, sweep | page, worker, LINE |
| Twin agent worker (`deploy/twin-agent-worker`) | retry queue, in memory | fetch, think, post, flush | relay, language model |
| Twin agent page (`useTwinAgentBridge.ts`, `ChatPanel.tsx`) | cursor, processed numbers, query cache, spinner | ask, poll, apply, publish | relay |
| LINE account linking (`line_identity.py`) | one-time attempts, bindings | start, choose site, redirect, callback, unlink | console, LINE |
| LINE webhook (`routers/line.py`) | claimed events, durable replies | receive, handle, retry | LINE, most of the others |
| Incidents (`incidents.py`) | incident rows, history, LINE notifications | create, change status, reopen, assign | console, LINE, cameras |
| Dispatch and decision ledger (`dispatch.py`, `routers/decision_ledger.py`) | decision points, mold counters, rosters | reconcile, upsert, bump, reset | cameras, LINE, console |
| Camera agent (`scripts/camera_agent.py`) | a spool of image and metadata files | capture, upload, heartbeat, age out | camera endpoints |
| Camera frames (`routers/camera_ingest.py`, `camera_analysis.py`) | frame rows with upload and analysis status, objects | intent, upload, complete, analyse, purge | camera agent, worker, incidents |
| Industrial data engine (`industrial_data_engine/`) | job and stage rows, artifacts | queue, run the stages in order, rerun, export | external generators |
| Missions, dispatch and bundles (`routers/inspection.py`, `missions.py`, `mission_materialization.py`) | missions, routes, schedules, dispatches, artifact rows and objects | plan, patch, dispatch, materialize, serve | console, Android |
| Android mission cache (`data/sync/ServerMissionRepository.kt`) | staging, active and backup directories with manifests | sync, promote, verify | server |
| Android flight state machine (`FlightReducer.kt`) | stage, clearance, remembered stage | reduce | coordinator, safety supervisor |
| Android flight console (`DemoMissionCoordinator.kt`, `MainActivity.kt`) | bundle, screen, stage, coroutines | load, preflight, start, hold, land, take over | DJI SDK, server |
| Android upload queue (`FlightUploadRepository.kt`) | a queue in a file | enqueue, flush | server |

## 2. What makes it hard

Requests run in a thread pool, and a handler takes locks for parts of its work
only. SQLAlchemy sessions keep an identity map, so a row that was read before a
lock may be judged as it was then, and a commit writes only the attributes that
differ from the ones loaded. The connector drives a physical device through a
local collector, keeps one file as its only memory, and must know after a crash
whether it may repeat something. HTTP calls time out after the other side has
acted. LINE delivers an event again until it gets a 200, also while the earlier
delivery still runs. The camera agent and the upload queue keep files that a
power cut may leave half written. The relay forgets everything when it restarts
while page and worker do not. React effects and the query cache see old answers.
On the phone, a coroutine continues after a suspended SDK call in a state that
the pilot, the USB receiver or a logout has changed. `PROJECT.json` lists these
at their lines with the properties that guard against them.

## 3. The modules

| Module | Models | Composed with |
| --- | --- | --- |
| `OpenBmcTypes` | statuses, results and messages of the two sides | both sides |
| `OpenBmcCloud` | the command rows and the web requests on them | `OpenBmc` |
| `OpenBmcConnector` | the connector's cycle, its state file, collector and agent | `OpenBmc` |
| `OpenBmc` | rows, connector and the network between them | implements, in its rows, `CloudSpec` |
| `OpenBmcFeed` | configuration, readings, events and heartbeats of a site | |
| `TwinAgentServer` | the relay | `TwinAgent`; implements `AskAndAnswer` |
| `TwinAgent` | relay, page and worker | `TwinAgentServer` |
| `AskAndAnswer` | abstract: one answer per question, then its commands | |
| `FlightStages` | `FlightReducer` with guard and safety supervisor | |
| `FlightConsole` | coordinator, mission setup and DJI adapter | |
| `LineIdentity` | links between LINE users and web users | |
| `LineWebhook` | webhook threads, redelivery, owed replies | `LineIdentity`, which it implements |
| `LineEvidence` | sheet reader, people counter, answers with pictures | |
| `LineIncidents` | incident rows, their operators, the plan and its caches | |
| `CameraFrames` | camera agent, ingest, analysis, purge | |
| `FlightUploads` | the phone's upload backlog and its ingest | |
| `MissionDelivery` | building a mission, its download and cache | |
| `IndustrialEngine` | jobs of the data engine and their stages | |
| `DecisionLedger` | plans, reports and verdicts of the decision ledger | |
| `MoldSentinel` | the molds' shot counters and their reminders | |
| `InspectionPlan` | templates, schedules, dispatches and analyses of inspections | |

An `MC*` module gives its specification the values TLC needs. Four of them join
components that share no state, so that one configuration serves several:
`MCLineHall` lets a behaviour run the links, the evidence or the incidents, `MCPhone`
the missions or the uploads, `MCFlight` the reducer or the console, `MCControlPlane`
the ledger, the molds or the inspections; which one is chosen in the initial state
and never changes, so every behaviour of each component is a behaviour of the
joined module and no interleaving of unrelated steps is enumerated.

Theorems are in `OpenBmcProofs` (rows, workflow and feed), `TwinAgentProofs`,
`FlightProofs` (reducer and console), `ControlPlaneProofs` (ledger, molds, inspections,
LINE links and webhook), `CameraProofs`, `HallProofs` (evidence and incidents), `PhoneProofs` (uploads and missions) and `EngineProofs`. A configuration without a
run (section 7) reproduces a deviation.

### 4.1 The OpenBMC command workflow

**Rows (`OpenBmcCloud`).** One device. For each command the row's `status`,
`slot` (active_slot, unique per device), lease, local id and result. A web
request (confirm, cancel) is a record in `web` with the row *as it was loaded*:
`BeginRequest` is the `session.get`, `Loaded` what the locking select adds,
which is the lock and no new values, because the object is already in the
identity map and the select does not ask for `populate_existing`. Confirm
checks and commits in two steps (`ConfirmChecks`, `ConfirmCommits` or
`ConfirmRollsBack` when the unique slot refuses). The sweep of
`expire_unclaimed_commands` runs inside the requests that call it, so it is a
part of those actions (`SweptStatus`, `SweptSlot`). `ClaimNothing`,
`ClaimRejects` and `ClaimGrants` are the branches of the claim endpoint;
`Progress` and `Finish` are the two reports, with the answer they give.
Deadlines are sets of rows whose time has run out. Proposal hashes, freshness of
the observation, roles and feature flags are an arbitrary verdict at the place
where the code looks at them.

**Connector (`OpenBmcConnector`).** `mem` and `disk` are the active command in
memory and in the file; every save may fail, which leaves them different and ends
the cycle, as the exception does in `run_once`. `pc` says which part of the cycle
runs. Each HTTP call is a message in `net` and the connector waits on it
(`call`, `reply`); it may time out before or after the other side has acted. A
crash may come between any two steps and reloads `disk`. The poll's view of the
collector (`snap`) may miss evidence and never invents it. `net` is a set: a
call that was given up may still arrive later, in any order. A failed
configuration refresh is a cycle without a poll. A save of what the poll uploaded
writes the active command in memory too, so `StartCycle` may bring the file up to it.
The collector and the agent are external and are modelled by what the connector
relies on. A collector that was restarted hands out its ids from 1 again while the
polled state may still hold the agent's events of before: `FormerOutcomes` are the
outcomes these report, under any id. `Reconciled` is the `not_before` cutoff at
dispatchedAt that tells them from the events of this command; the model takes the
collector's clock not to run ahead of the connector's, so no older event is dated
after the cutoff.

**Joined (`OpenBmc`).** `Handle(m)` takes a request out of the network, performs
the endpoint's action and puts the answer in its place. Of the refusals with 401,
403 and 503 only the claim's is an action of its own: a progress or a result that is
refused this way changes no row and ends the cycle, which is what a lost request does.

*Assumptions.* PostgreSQL row locks and unique constraints work as specified.
One connector process per connector row. Fault actions share one budget.

### 4.2 The twin agent

**Relay (`TwinAgentServer`).** One browser session. A request is a record in
`call[t]` of the thread that works on it, and its `pc` names the next
acquisition of the lock: GET updates is sweep, announce (once per expired job),
collect; GET jobs is sweep, announce, claim; POST result is complete, reply,
commands. All of these interleave. `overdue` is the set of jobs whose present
status has outlived its time limit. `announce` takes the expired jobs in any
order, which includes the code's. The feed and an answer are sets of events, ordered
by their numbers; `posted` is everything ever said, over restarts. Which commands are too old to be delivered
(COMMAND_FRESH_WINDOW) is arbitrary. Only questions of the web chat are modelled;
those of LINE are answered by a LINE message and not through this feed.

**Page (`TwinAgent`).** `page` holds the refs (`cursor`, `processed`), the query
cache (`data`), whether the effect on `[updates]` has to run (`due`), the poll
in flight and the store's `online` and `pending`; `handled` counts how often each
thing said was handled. The query library gives a new
object only if the answer differs from the one it has; `PollSucceeded` says so. A
poll may start before the effect of the last answer has run, except that the very
first answer takes effect before the timer polls again.

**Worker (`TwinAgent`).** `fetch_job`, `process_job`, `submit_job_result` with its
flush, and the final flush of the turn. The retry queue drops its oldest entry
when full, 404 and 409 are permanent, the back-off is abstracted to "may be due".
The worker's guard against a job seen twice (`_processed_job_ids`) is left out:
the relay hands out each job once, so it never acts.

**Faults.** A lost poll or message, a lost answer to the worker, a crash of the
worker, a relay that loses sight of the worker, a restart of the relay, leaving
and re-entering the workspace. `FaultKinds` says which, `MaxFaults` how many.
Abstract promise: `AskAndAnswer` (one answer per question, then its commands
once).

### 4.3 The flight state machine (`FlightStages`)

One step is one call of `FlightReducer.reduce`: any event, in any order, with any
context of `Contexts`. `flight` holds the fields of `FlightState` the transitions
depend on; a `TransitionContext` is the set of its fields that differ from their
defaults, so that `Contexts` says which of them may. The order of the code is
kept: the supervisor's ruling (`Decide`) first, then the user's requests, then
the stage's own handler, then the transition guard. `ruling` and `interrupted`
are history: what the supervisor decided in this step, and which flying stage the
last interruption cut off. Left out: wording, `authValid` and the upload
counters, which are only copied.

### 4.4 The flight console (`FlightConsole`)

The coordinator runs on the main thread, so the code between two suspension
points is one step. A patrol command is three: the click, the coroutine's first
part, which looks at the stage and calls DJI, and the part after DJI's answer or
the adapter's timeout. In the DEMO runtime a command blocks the thread and is one
step. `jobs` are the launched commands, `loads` the mission loads in flight,
`adapter` is `DjiWaypointMissionAdapter` with the mission it holds; its LOADED state
during a push is left out, nothing looks at it. Logout, USB
attach and detach, the emergency rail and the preflight gates may act between any
two of these. The flight stage is the console's own: `DemoMissionCoordinator` is given
the `FlightReducer` (its parameter is marked unused, :98) and never calls it, so the
two modules are separate models that share the vocabulary of stages and no state.

### 4.5 LINE: links and webhook

**`LineIdentity`.** The one-time attempts and the bindings. Every operation of
`line_identity.py` is one transaction that locks the rows it decides on, and two
inserts that race end at a unique constraint and a retry, so an operation is one
step. Secrets are booleans: a token is stored or it is not, and only its holder
can present it. `readers` says which web user may still see which site;
membership can be lost between two steps of a link.

**`LineWebhook`** EXTENDS it. Each delivery of an event is a request thread that
claims the event's row, changes the links in one transaction with the reply it
owes, sends the reply and only then marks the row processed. A thread stops
where the database or LINE is called. `holder` is the thread whose uncommitted
insert others wait for. An event has one of the kinds that differ in what is
durable: start, unlink and a successful link owe a stored reply; a failed link and
one without a reply token owe nothing; a command and a postback are answered best
effort, unless their user has no link or lost the site (`Unscoped`): then the answer is
the link page of a new attempt, and is owed. Every handler may raise (`HandleRaises`),
and so may every commit and the decryption of a stored reply (`Raises`). After a reply
that LINE refused the row is read again: when another delivery ended it meanwhile, the
request ends in a 500 and LINE delivers once more (`ReplyRefused`). LINE and the network lose answers, answer 5xx or
refuse the reply token, and a server dies anywhere, at most `MaxFaults` times.
`ControlPlaneProofs!WebhookKeepsIdentity` shows that the webhook implements
`IdentitySpec`, so what holds of the links holds under the webhook.

### 4.6 Camera frames (`CameraFrames`)

One camera. `spool` is what the agent's directory holds of each frame, `req` the
requests in the server's threads, `row` the frame rows, `object` the storage,
`camera` the row with the latest frame. A handler has a read step and a commit
step, because a session writes the attributes that differ from those it loaded,
whatever the row holds by then. `worker` takes the oldest queued frame,
`purge` is the maintenance script. `crossed` is history: frames of which a complete
request was committed although its session had loaded the row before another one was.
Such a frame is queued twice (camera_ingest.py:503) and may raise a second incident,
which is why `RaisedOnce` excepts it; see `OneIncident` in section 7. An intent's answer is
built from the new row, the code's from the loaded one, to the same effect. The agent's round is the code's: age limit,
flush oldest first, capture, heartbeat. Faults: a request the agent gave up that
still arrives, a crash of the agent, of the worker, a half-written file, an
expired intent, the purge script, the age limit.

### 4.7 Flight uploads (`FlightUploads`)

The repository holds one mutex from reading the file to the end of the flush, so
one operation runs at a time, in `app`; what the server does with a request is
one transaction. A group of the backlog is a flight. Events are merged by their
id on the server, batches are inserted.


### 4.8 Missions on their way to the phone (`MissionDelivery`)

A *build* is one materialization: two files and their checksums. `web` are the
server's threads; `WriteKmz`, `WriteMeta`, `SelectRows` and `CommitBuild` are the
order of `generate_and_store` and `_replace_mission_artifacts`: storage first, rows
with the commit. All builds of a mission share their storage keys and, because
the storage numbers every write 1, their version. `sync` are the syncs of the app;
one step per file operation of `syncMissionBundle`, `promoteToActive` and
`recordToBundle`. `active`, `backup` and `staging` are the directories, with what
their manifest names and where its paths point. Logout clears one directory after
the other while syncs go on. `held` is the build installed last and `disturbed`
tells that syncs overlapped or that one was cut while it installed: both are
history. Overlap is possible since the button is always enabled and the
repository has no lock.

### 4.9 OpenBMC observations and events (`OpenBmcFeed`)

The other half of the connector's cycle. `run` is its place in `run_once`, `mem` and
`disk` the state store with the keys sent and the last reading posted. A request is
a record in `req[t]` of the server's thread; `Begin` is the session's load and the
duplicate check, `CommitReading`, `CommitEvents` and `CommitBeat` write what the
session changed. A retry meets its own earlier request this way. A source key is a
pair of the collector's instance and the number of the event: a lost state file
gives a new instance. People rotate the token, revoke the connector or add a
device at any time, at most `MaxActs` times. `aheadE` and `aheadR` are what is
dated in the server's future. `blank` counts restarts that found no state file.

### 4.10 The industrial data engine (`IndustrialEngine`)

`job` and `row` are the two tables, `object` what the storage holds of each job,
`worker` where a worker's loop is. `Table` gives each of the twenty stages the
provider it asks, the answers its validator refuses, the objects it reads and the
objects it stores that something reads again; the actions are then the same for
all plain stages, and the special ones (reference image, photos, world, quality,
export) have their own. An answer is good, has one of the defects validators
tell apart, is an error, or never comes: the commands of gsplat, Boxer and EGO run
without a timeout. `Selected` and `Rounded` are the arithmetic of
`_select_evenly_spaced_paths`. A fault is in the storage, in a read of the database
(`ReadFails`, which also strikes between two stages, where no stage's handler sees it), in a
commit, or ends the process. `sent`, `verdict` and `struck` are history.

### 4.11 Evidence LINE answers with (`LineEvidence`)

A camera uploads frames, each with the moment it was taken and the moment its
camera says it was. `reader` is the sheet-and-screen reader (`HmiOcrRunner`),
`counter` the person counter (`PersonPresenceRunner`) with its retry queue; either
posts observations that arrive, are lost, or arrive late. A question is answered
in three steps: the newest observation is chosen and judged (`AskTicket`,
`AskDetail`), pictures are cut and get their links (`Cut`), the reply is sent (`Send`);
people and screen questions are one query. `Served` says whether a picture's link
opens now: a fetch changes nothing, so it is an operator. `sent` are the replies
LINE accepted. Two frames, clocks that differ and a rebinding of the conversation
are enough to let every comparison of times come out both ways.

### 4.12 Incidents and their plan (`LineIncidents`)

An operator, on the web or on LINE, loads the row without a lock (`Load`), writes,
which takes the row's lock and pushes the LINE message (`Write`), and commits the
columns that differ from the loaded copy (`Commit`), or everything is rolled back
(`RollBack`). `since` is the time the row was last opened or closed as others could
see it. A reader who misses the cache queries (`Query`), for the page a second time
(`List`), and stores (`Store`); the picture's life counts from before the query, the
page's from after the build. `DayLength` puts midnight into the run. The
assignment's ledger hook can fail inside the transaction; that is one of the
reasons of `RollBack`.

### 4.13 The decision ledger (`DecisionLedger`)

A dispatch sheet that a camera reads opens a plan point for its machine and day; people
report what was made, and the row is judged when the report is written. `points` are
the rows, `sheets` the observations as committed. A request reads in one step and
commits in another: what it read and will write is a set of jobs in `requests[c]`, and
its commit writes the columns that differ from what it read (`Column`), as the session's
unit of work does. `PostSheet` with `CommitSheet` is the camera's post and the hook that
upserts the plan, `CommitSheetAlone` the same when the hook's savepoint rolls back;
`Reconcile` and `CommitReconcile` are the reconciliation of a day; `Report`,
`RecordOnPage` and `CommitActual` are the LINE report and the page's form, both ending in
`record_actual`. `First` is `.first()` of a query without an order: any of the rows.
`CreateDispatch` writes a dispatch point with the two candidates of `suggest_assignees`
(`Suggested`), from the roster, the skill matrix and the zones, which people may change
at any time. `plans`, `heard` and `voices` are history: the plans and actuals each row
ever had, and where its reports came from.

### 4.14 The molds' reminders (`MoldSentinel`)

`rule` are the rows of mold_maintenance_rules. A shot report (`Bump`) reads the row,
tells the LINE groups bound at that moment one after the other (`Push`, or `PushRefused`
when LINE does not take it), takes the time of the alert (`StampAlert`) and commits
(`CommitBump`); a reset reads and commits. `desk[c]` is a request's copy of the row, the
count it will write, the groups left and whether all were reached. Rules and bindings
change meanwhile, and a request may die between two groups. `tick` is the clock the
stamps come from; `delivered` and `called` are history.

### 4.15 Inspections (`InspectionPlan`)

Routes, templates, schedules, missions and dispatches are rows that lie at a site and
refer to one another. `CreateRoute`, `CreateTemplate`, `PatchTemplate` and `CreateSchedule`
read and write one row; `PatchSchedule`, `DispatchMission` and `PatchDispatch` check the
links (`ValidLinks`), normalize the rows' derived columns and remember in `clerk[c]` what
they read; `CommitSchedule` and `CommitDispatch` write the columns that changed.
`CreateFlightTask` makes a mission and its dispatch. An analysis (`Reprocess`, `ReadEvents`,
`ReadPages`, `StoreEvidence`, `CommitAnalysis`) reads the rows it will replace in three
queries, puts pictures and page into the storage (one step for all of them) and commits; two of one mission may
overlap at every step, and store their page under one name. No handler moves a row to
another site, so `LinksStayHome` is about what the validation lets pass and not about
overlap. An id that is an empty string passes the validation unchecked and ends at the
foreign key; it is left out. `EvidenceOpens` asks for the artifact row of the report's own
analysis, the download is content with any row of the mission and the name.
## 5. Runs and bounds

Faults share one budget per run: each run asks what a single fault, or a
pair of them, at every possible moment does. Liveness runs use the bounds of the
safety properties next to them.

| Run | What it asks | Bounds, and why they are enough |
| --- | --- | --- |
| `openbmc` | a command end to end: one dispatch per lease, success only after execution, every active command and every result ends | 1 command, 1 web request at a time, 1 lease, 2 faults (a crash and a lost answer together are the interesting pair), and events of either outcome from before a restart of the collector (`FormerOutcomes`). 161,986 states. The theorems of section 6 hold for any number |
| `twin_agent` | a question with one fault is answered once and in the end, the page repeats nothing while it stays mounted and skips nothing while the relay stays up | 1 question, 1 fault of six kinds. 2 jobs with 2 faults were searched to 5.4 million states |
| `flight` | the reducer under every event in every order; what is pushed and started, and that nobody is locked out | reducer: contexts with one field, or one related pair, off its default: each guard reads one of these. Console: 2 intact bundles, 1 broken one, gates none, GPS or fly zone, 1 load in flight: a second bundle is needed to be the wrong one |
| `line_webhook` | effects once, replies kept | 3 events of one LINE user in 4 mixes of kinds (`MCMixes`; one with a link that brings no reply token), 2 threads, 1 fault: two deliveries of one event and an unrelated event between. 1,078,552 states |
| `line_hall` | who is linked, and that nobody is in two links or two current attempts; how old and how true an answer is; what an incident's row and the plan keep | links: 2 LINE users, 2 web users, 3 attempts, 1 site. Evidence: 2 frames, 2 readings, clocks equal or one ahead, 1 fault (reader) or 2 (counter), time up to 4. Incidents: 3 operators on one incident, or 1 operator with 2 readers of picture or page and one midnight. 3,422,774 states |
| `camera_frames` | no frame is lost; a frame raises one incident unless two of its completions overlap; spool and queue empty | 2 frames, sound or broken and alike or not, 2 threads, window 2, 1 fault of eight kinds |
| `phone` | the cache keeps the last good bundle, the pilot gets the mission; no upload is lost or overtaken | missions: 2, one of them built twice, 2 server threads, 1 sync, 1 fault. Uploads: 2 flights, 3 events, 2 batches, 2 faults of five kinds (three faults alone: 382,509 states) |
| `openbmc_feed` | nothing is stored twice, people's decisions stand, evidence arrives | 2 events, 1 reading, list of 2, batches of 1, 1 key remembered, 2 threads, 1 fault of five kinds, 1 act of people |
| `industrial_engine` | exports are whole, a failure names its stage (or, between two stages, the last that ended), photos are chosen right, no job stalls the queue | 2 jobs, 1 worker, a text request and three photos of which two are allowed, 2 verdicts, 1 fault. 466,295 states |
| `control_plane` | verdicts are earned, reminders stop only when heard, links stay at their site, what an analysis shows opens | ledger: 2 cameras at 2 sites that use one machine number, 2 rows, at most 4 requests of which 2 overlap, 1 lapse, in several mixes of acts (`MCOffices`). Molds: 1 mold, threshold 2, 2 groups, 4 tasks of which 2 overlap, 1 slip. Inspections: 2 of each kind of row, one at either site, 2 dispatches, 3 requests of which 2 overlap, 1 mishap (`MCAgendas`). Two overlapping requests are what a stale copy needs, a third prepares or follows them. Requests and groups are symmetric. 282,855 states |
| `openbmc_wedge`, `mission_stale` | the findings of section 7 | the smallest instance that shows them |

Deadlock is checked except in `line_webhook`, `line_hall`, `phone`,
`industrial_engine` and `control_plane`, where a bounded number of events, attempts,
frames, uploads, jobs or requests ends and the system comes to rest.

**Fairness.** *OpenBMC:* `run_forever` goes on and systemd restarts it, the server
serves each request, time passes. The deadline sweep is part of the reads and proposals the
page makes; that a device is read again and again is the page's timer
(FactoryTwinPage.tsx:357), so `CommandsSettle` is promised only while such a page is open. *Twin agent:* the page's timer polls, the
worker's loop runs, each relay thread goes on. *Console:* a launched coroutine goes on
and the adapter's timeouts end its calls. *Webhook:* a thread goes on, LINE delivers
again what was not answered 200. *Cameras:* the agent's loop, its service manager, the
server's threads, the worker. *Missions:* handlers and coroutines go on. *Feed:* the
connector's cycle, the server's threads, and clocks. *Engine:* the worker's loop, weakly
fair as a whole: it does nothing else. *Control plane:* none, nothing there is promised
to happen. People are never assumed to act, faults never
to stop but by their bound.

## 6. Proofs

TLC checks an instance; the theorems below hold for every value of the
constants that satisfies the ASSUME of its module. They are proved with TLAPS
(SMT, Zenon, and LS4 for the temporal steps). The list is in PROJECT.json.

**Assumptions.** Each is named, stands in the module that declares the constants
and is evaluated by TLC in every run: names for "none" are not members of the sets
they stand beside, bounds and limits are numbers (`FeedMax`, `MaxTracked`, `RetrySize`,
`MaxLeases` not zero), sets the code enumerates are not empty, `Incidents` and
`Missions` are finite. `EvidenceAssumption` says that no camera's clock is ahead
without bound; the bound itself is arbitrary and appears in `NothingOld`. Which
faults happen and how many is arbitrary.

**`OpenBmcProofs`.** `OneActiveCommand` is not inductive, because a confirm tests the
unique slot when it commits and not the statuses; `SlotInv` (an active row holds the
slot, the slot has one holder) is. `ConnectorKeepsEnds` follows: the connector's
requests change rows that have not ended. For the workflow, `ConnectorInv` relates
the connector's place in its cycle, its memory, its file and the requests in the
network to the collector's log; `DispatchInv` says that a lease whose dispatch is
possible was not used. From them `DispatchedOnce`. `RowsRefined` shows that every behaviour of
the workflow is one of `CloudSpec` in its rows, so the theorems about rows carry
over. `EvidenceInv` follows every success on its way, from the log through reply,
memory, file, request and row, for `SuccessIsReal`; what it starts from is that no event of
before a restart of the collector is reconciled.

**`TwinAgentProofs`.** `RelayInv`: a live job is owed to nobody and nothing was said of it,
an ended one is owed by one thread at most, and what is owed was not said yet. It
gives the refinement of `AskAndAnswer`, of the relay alone and inside the whole
(`WholeAnswersOnce`). What the page has is related to the relay by what a number stands
for: `Base` is how many events were posted before the relay started, and the answer the
page holds was counted from some such base, the present one or an earlier one that
lies behind everything the relay says now (`DataInv`). `HandledOnce` then needs
`Remembered`: what the page has handled of this relay is in `processed`, and its cursor,
the answer it holds and the answer on its way are in order, so that the cursor moves
back after a restart only. `NothingSkipped` needs what an unfinished poll asks with
(`PollPassed`), that nothing was posted before the first answer (`NothingAsked`), and
that the answer at hand still has to be applied when it holds something new
(`DataPassed`). Both invariants are guarded by the fault that breaks them: a
workspace entered again handles its events again, and a relay that restarts lets
what it says before the next poll pass by (section 7). That the poll's thread does
nothing else (`Apart`, `PollAlone`) is proved from all 22 actions once; the steps of the
other invariants go by the nine kinds of step that are left (`StepKinds`).

The feed: what keeps a second row of one key out is the unique constraint
(`OneRowPerKey`), which the handler meets although its duplicate check is stale when it
commits. That one event has not more rows than one and the starts without a state
file needs `InstancesCounted`: no row and no request carries a later instance id than
the one those starts have reached. `AdminStands` is proved action by action: no
commit of a request writes the two columns people decide about.

**`FlightProofs`.** `FlyingIsCleared` is not inductive, because HOLD goes back to the
stage it remembers: the clearance is kept for that stage too. `ResumeInv` says that the
remembered stage is the one that was cut off. The console: one command at a time,
DEMO launches none, no patrol flies while a command waits for DJI, and the bundle
captured at the click was verified.

**`EngineProofs`.** `EngineInv` says of each job what its stage rows, its objects, its data
set and the judge's verdicts agree on (`JobOK`), and of the worker what it knows of its
job at each place (`WorkerOK`): the rows before its stage are closed, those behind it
pending (`InStage`), and at the end everything that is offered is exported and good.
`Told` carries `FailureIsTold`, `Whole` the exports, `WorldFromPhotos` the choice of photos.
The theorems assume what the code has and the model does not fix: **`OneWorker`**
(render.yaml starts one; the queue's row is read without a lock, and with two workers
`FailureIsTold` is false, section 7) and, for `EnginePhotos` alone, **`DistinctNames`** (two
photos of one name overwrite each other, section 7). Both are hypotheses of the theorems and hold in the run's instance.

**`ControlPlaneProofs`.** *Ledger:* `LedgerSound`. A verdict was earned at the moment of a
commit, but the commit judges by the copy the request read, while other requests write
plan and actual meanwhile. So the invariant says of every row that its present plan and
actual are in its history and its verdict was earned from that history (`Earned`), and of
every open request that the copy it holds, and the actual it brings, were such a row
too (`ReadOf`); a row's kind, site, machine, day and guess never change again
(`RowStays`), which carries both over every step. `ReportsStayHome` needs of a request
that its job's site and day are the row's. *Molds:* `MoldSound`: what a request has still
to tell and what was delivered together cover the groups it called, as long as its stamp
stands (`Stamped`); the clock never goes back. *Inspections:* `PlanHome` adds to
`LinksStayHome` the same of the values a request will write, and `Grows` says that rows never
disappear nor move, so what a request checked stays true until its commit. `EvidenceSound`
numbers the analyses: what one will delete is older than what it writes, its own
events are in nobody else's hands, and two missions share none.

*LINE:* `IdentityInv` by what an operation may do to an attempt (`ChangesCurrent`).
`HookInv` says what a thread at each place knows of the event's row, above all that the
thread that handles an event holds it (`OwnLock`) and what it has done when it leaves.
`WebhookKeepsIdentity` shows each step of the webhook to be a step of `IdentitySpec` or
a stutter.

**`CameraProofs`.** `InStep` says who the agent waits for, `Sound` and `Trusted` what a request
and an answer prove of the server's row and object, which is what `NeverLost` needs when
the agent deletes its copy. `Once` is what keeps a frame to one incident while its completions
do not overlap (`Single`): it is analysed only after it is uploaded, the worker has it only
while it is queued, and a frame that raised one has an observation that refers to its row, so
the purge script cannot make room for a second upload.

**`HallProofs`.** `PlanInv`: a plan remembers some moment at which it was asked for; rows that
have changed since are dated after it, and its day is the one of that moment
(`SameDay`). `EvidenceInv`: stamps are at most `Ahead` of the truth, observations lie in the
order of their creation, and whatever a thread or a reply shows `RestsOn` an observation
that was good at the question. The newest of a finite set of rows is found with
`Largest`. Crops are only replaced by those of the same frame.

**`PhoneProofs`.** `UploadInv`: a request the app gave up brings, whenever it arrives, whatever
precedes its events (`OrderInv`); the operation under way has dropped from its copy only
what the server has (`WorkInv`). `DeliveryInv`: while syncs neither overlap nor are cut as
they install, at most one is past its download, and `Kept` says where the last bundle
is at each of its steps.

**Theorems about properties no run checks.** `EndsKept`, `SecretsAreGone`, `EndsForGood`,
`NobodyTakenOver`, `NothingOwed`, `ManualStaysManual`, `UploadsFinal`, `PointerSound`,
`AtMostOneActive`, `CopiesExplained`, `ReportsStayHome`, `ResolvedHasTime`,
`ProcessedIsReplied`, `TransitIsRunning` and the typing theorems. Every safety invariant
a passing run checks is proved.

**Only model-checked.** Everything about liveness and ENABLED, which is out of TLAPS's reach.
What a recursive function
computes for every input would need induction over data, which the provers cannot
instantiate here.

## 7. Findings and deviations

Two runs end in a counterexample; PROJECT.json quotes both sides.

- `openbmc_wedge`: `runner.py:273`. When the lease ends at the cloud before
  `accepted_by_collector` was posted, the connector posts it again in every cycle,
  gets 409 every time, and the exception leaves before the deadline test: it claims
  nothing any more.
- `mission_stale`: `ServerMissionRepository.kt:81`. A mission that was built again has
  the same versions, so a sync answers "already cached" for ever.

**Configurations without a run.** Each checks what a document or comment says and
TLC finds it violated. Run them as `tlc -config X.cfg M`.

| Configuration (module) | Property | Says | Does |
| --- | --- | --- | --- |
| `OpenBmcFeedBack` (`OpenBmcFeed`) | `ObservedMovesOn` | | two requests of one connector can set last_observed_at back |
| `TwinAgentOffline` (`MCTwinAgent`) | `ComesBack` | docs/twin-agent-demo.md:49 | online is recomputed only when the answer differs |
| `TwinAgentSkips` (`MCTwinAgent`) | `PassedIsHandled` | useTwinAgentBridge.test.tsx:558 | a restarted relay counts from zero: what it posts before the page's next poll lies behind the cursor and is skipped (twin_agent.py:254) |
| `FlightRetry` (`FlightUploads`) | `Retried` | FlightUploadRepository.kt:136 | nothing calls flush(): the backlog waits for the next report |
| `MissionOverlap` (`MCMissionDelivery`) | `OnlyValidatedInstalled` | docs/mission-bundle-flow.md:27 | two syncs install one another's staging |
| `MissionCrash` (`MCMissionDelivery`) | `CrashKeepsABundle` | docs/mission-bundle-flow.md:40 | a crash between rename and rewrite leaves no bundle, or a backup nobody restores |

**Properties to add to a configuration.** These are defined in the modules and are
violated when they are added as a property: `EveryPictureOpens` and `WarningFits`
(`LineHall.cfg`), `OpenIsRed` (`LineHall.cfg`: the plan of docs/line-floorplan.md:75 shows
today's incidents only, service.py:925-940) and `OnlyTransitions` (`LineHall.cfg`: two operators
may overwrite each other's status). In the data engine, `KeptContractsSuffice` (Boxer need
not leave the scene graph the export needs: providers.py:550, pipeline.py:605) and
`FailedStageIsKept` (inputs fail between two stages: pipeline.py:100), both in
`IndustrialEngine.cfg`; `PhotosReachTheWorld` with `Requests <- MCSameNames` (two photos of
one name overwrite each other); `FailureIsTold` with two workers (the queue's row is read
without a lock). In `OpenBmc.cfg`, `CancelledNeverDispatched` (docs/openbmc-factory-integration-architecture.md :371) and
`EndsAreFinal` (:379); in `Flight.cfg`, `NoAutomaticRecovery` (docs/failsafe-table.md:26); and
`AnswersKeepHold` (docs/state-machine.md:171). In `OpenBmcFeed.cfg`, `OneRowPerEvent`: a lost state
file gives a new instance id, and events a second row
(docs/openbmc-factory-integration-architecture.md:110). In `TwinAgent.cfg`, `NothingRepeated`:
the query cache outlives the refs, and entering the workspace again repeats its events
(useTwinAgentBridge.ts:623). In `CameraFrames.cfg`, `LatestIsNewest`: a stale snapshot of the
camera row moves the pointer back (docs/factory-camera-latest-frame-view.md:6),
`OneIncident`: two complete requests that both loaded the row before either was committed
queue the frame twice, and it may raise two incidents (camera_ingest.py:503-504); and
`KeepsCapturing`: a half-written metadata file stops the round before the capture
(docs/factory-camera-ingest.md:125, camera_agent.py:605).

In `ControlPlane.cfg`: `PlansStayHome` (test_decision_ledger.py:219 keeps sites apart that use
one machine number; the observation's upsert looks for the row without the site,
dispatch.py:727-735); `OnePointPerDay` (dispatch.py:245: two requests that find no row add one
each); `BriefIsTrue` (a plan that is written again does not recompute `consistent`);
`AlertIsOfThisPeriod` (dispatch.py:541: a bump that overlaps a reset writes its alert over
the new period); `PageIsOfReport` and `ReportCountsEvents` (overlapping analyses of one mission
leave one page and the events of both); `MissionFollowsDispatch`, `ClosedWhenEnded` and
`OneDispatch` (overlapping requests mix their columns, or add a dispatch each); `RoutesAgree` (a
template's patch does not look at the schedules that have it).

**Met while modelling, without a configuration.**

- *Evidence.* Freshness is judged when the observation is chosen, the link's time is
  taken when the picture is cut: evidence that crosses 180 s between gets a link that
  answers 404 for its whole life (line.py:1128, :1165;
  docs/line-image-fetch-race-gap-analysis.md:18). Reading a frame again more than five
  minutes later makes a picture already sent answer 404. The warning of an overexposed
  screen is a second query and may be about another frame (line.py:1358). An
  observation that arrives late is the newest by created_at (service.py:334). In the
  person counter an item refused for ever blocks those behind it, flush_pending is not
  called when the frame source fails, and a lost answer gives a second row. The OCR
  worker has no retry and marks the frame done. Pictures are never deleted, and a
  token opens both crop routes.
- *Incidents.* LINE gets its message before the commit. The assignment's ledger hook
  catches exceptions without a savepoint, so a failed query aborts the commit after the
  push. `resolved_at` may stay on a pending row. The page lists incidents by a second
  query and may disagree with its own map.
- *LINE.* A LINE push precedes the worker's commit; terminalize has no processed guard
  (line.py:769-779).
- *Cameras.* A late complete queues an analysed frame again; a stale camera snapshot or
  a heartbeat moves or blocks the pointer; two identical queued frames are both skipped;
  the purge protects the latest ids it read once and leaves EquipmentStateObservation
  rows; images without metadata stay in the spool.
- *Uploads.* The first group that fails blocks those behind it.
- *Missions.* A failed materialization has overwritten the storage; two overlapping builds
  leave two row sets; mission.status and dispatch.status may differ; a logout races a
  sync, and a crash in the middle of one keeps the cache.
- *OpenBMC.* The error codes of commands, configuration and heartbeats never reach the
  cloud (runner.py:492 against :498-508); a second device provisioned for a connector stops
  it at its next restart; one future-dated event or refused reading blocks the upload.
  With two web users, `SlotFollowsStatus` and `PhaseBehindStatus` fail: a cancel decides on the
  row as `session.get` read it (openbmc.py:980). No run has two web users.
- *Flight.* The emergency hold also ends MANUAL_OVERRIDE (docs/failsafe-table.md:26), and an
  answer to the landing prompt ends a hold (docs/state-machine.md:171).
- *Data engine.* A threshold of 0 means 0.7; rgb_frames.zip holds the first render only;
  a hung external command stalls the queue; a killed worker leaves its job running;
  refused uploads leave orphan objects.
- *Sheet reader* (`ocr_worker/work_order.py`, `adjudication.py`), read and not modelled: an
  alignment failure below three does not reset the streak; "never adjudicated twice" is
  untrue when identity reads vary; the adjudicated tag is lost when a value is locked again.

## 8. What is not modelled

- *Ledger.* Its statistics, the wording and the push of the brief, and zone occupancy: they read only.
- *Rate limiter.* One lock around a sliding window.
- *Live operations, control intents, read models.* Rows written by single requests, and projections.
- *Sign-in and access control.* Every model starts behind a successful access check; tokens and
  roles are left out except where a change of them is part of a protocol (rotation of connector
  tokens, membership of sites, logout on the phone).
- *Pixels and language.* Image analysis, OCR, prompts, and the matching of a message to an
  intent are a nondeterministic verdict.
- *User interfaces*, vendor SDK wrappers and deployment files.
- *Hazards that are not in the list*, because they are deviations of section 7 or proved without a
  run: `openbmc.py:980` and `:713` with two web users, `:883` and `:917` (`OneActiveCommand`, at the
  level of rows); `incidents.py:217` (`ResolvedHasTime`);
  `DemoMissionCoordinator.kt:916` (`TransitIsRunning`); `useTwinAgentBridge.ts:623`, `:681`,
  `FlightReducer.kt:101`, `camera_agent.py:605`, `FlightUploadRepository.kt:100`,
  `ServerMissionRepository.kt:90`, `MainActivity.kt:603`, `dispatch.py:245` and `:541`.


## 9. What is left

- Proofs: none of the safety invariants is open. Liveness, and the properties of
  section 7 that are violated, stay with TLC.
- Models: the sheet reader's adjudication, and the live operations of a mission.
- The commands' runs with two web users, whose deviation at `openbmc.py:980` is known:
  the workflow's `SlotFollowsStatus` would have to be weakened for it first.
