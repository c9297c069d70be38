---------------------------- MODULE OpenBmcFeed ----------------------------
(***************************************************************************)
(* Measurements and events of a site: every cycle the connector             *)
(* (deploy/openbmc-connector, runner.py) polls the local collector and posts *)
(* the reading, if it is a new one, and the events it has not yet marked as  *)
(* sent; state.py keeps those marks in a file.  routers/openbmc.py stores    *)
(* each under its source key, in one session per request, while people in    *)
(* the web console rotate tokens, revoke the connector or add devices.       *)
(*                                                                         *)
(* Events and readings are numbered in the order of their source times.  A   *)
(* source key is the collector instance id and a digest of the content, so a *)
(* pair <<instance, number>> here.  The command half of a cycle is the       *)
(* business of OpenBmcConnector.                                             *)
(***************************************************************************)
EXTENDS Integers, Sequences, FiniteSets, FiniteSetsExt, SequencesExt

CONSTANTS
    MaxEvents, MaxReadings, \* what the collector logs and measures (bounds)
    Window,                 \* events GET /api/state lists
    BatchSize,              \* event_batch_size
    MaxSent,                \* MAX_SENT_EVENT_KEYS
    Threads,                \* request threads of the server
    DeviceConfigured,       \* the configuration names the device
    TroubleKinds, MaxTroubles,  \* faults that may happen, and how many (bound)
    MaxActs                 \* acts of people in the web console (bound)

ASSUME FeedAssumption ==
    /\ {MaxEvents, MaxReadings, MaxTroubles, MaxActs} \subseteq Nat
    /\ {Window, BatchSize, MaxSent} \subseteq Nat \ {0}
    /\ DeviceConfigured \in BOOLEAN

VARIABLES
    logged, reading,    \* the collector's last event and last reading
    aheadE, aheadR,     \* events and readings dated in the server's future
    marks, saved,          \* the connector's state store, in memory and in its file
    run,                \* the connector's place in run_once
    req,                \* the requests, one per thread
    connector,          \* the connector's row: status and token
    extra,              \* a second active device is bound to the connector
    lastObserved,       \* last_observed_at of the device's row
    events, readings,   \* stored rows per source key
    blank,              \* restarts that found no state file (history)
    troubles              \* faults so far

site == <<logged, reading>>
ahead == <<aheadE, aheadR>>
store == <<marks, saved>>
rows == <<lastObserved, events, readings>>
admin == <<connector, extra>>
feedVars == <<site, ahead, store, run, req, rows, admin, blank, troubles>>

Events == 1 .. MaxEvents
Readings == 0 .. MaxReadings        \* 0: the collector has no reading yet
Instances == 1 .. MaxTroubles + MaxActs + 1
Keys(S) == Instances \X S
Tokens == 1 .. MaxActs + 1
Connector == [status : {"active", "revoked"}, token : Tokens]

Stored == [inst : Instances, last : Readings, sent : Seq(Events)]
NoFile == [inst |-> 0]
NoPost == [kind |-> "none", inst |-> 1, items |-> <<>>, step |-> "sent", live |-> FALSE,
         ok |-> FALSE, token |-> 1, known |-> {}, last |-> 0,
         conn |-> [status |-> "active", token |-> 1]]
Request == [kind : {"none", "config", "reading", "events", "beat"},
            inst : Instances,
            items : Seq(Nat),               \* numbers of the readings or events it carries
            step : {"sent", "read", "answered"},
            live : BOOLEAN,                 \* the connector waits for the answer
            ok : BOOLEAN,
            token : Tokens,
            known : SUBSET Nat,             \* items found stored by the duplicate check
            last : Readings,                \* last_observed_at and the connector's row
            conn : Connector]               \* as the session loaded them
Run == [pc : {"config", "poll", "reading", "events", "beat", "wait", "sleep"},
        ready : BOOLEAN,                    \* device_id is known
        token : Tokens,                     \* the token it was started with
        reading : Readings,                 \* the polled state
        todo : Seq(Events)]                 \* pending events, oldest first
Started(token) == [pc |-> "config", ready |-> FALSE, token |-> token, reading |-> 0, todo |-> <<>>]

-----------------------------------------------------------------------------
(***************************************************************************)
(* A fault of kind k happens.  "lost": no connection.  "late": the          *)
(* connector gives up while the server works on.  "crash": it stops and      *)
(* systemd restarts it.  "disk": save() raises.  "skew": the site's clock    *)
(* runs ahead of the server's.                                               *)
(***************************************************************************)
Trouble(k) ==
    /\ k \in TroubleKinds
    /\ troubles < MaxTroubles
    /\ troubles' = troubles + 1
Dated(now) == IF now THEN Trouble("skew") ELSE UNCHANGED troubles

\* The collector: an external program, as get_state sees it.
Log ==
    /\ logged < MaxEvents
    /\ logged' = logged + 1
    /\ \E early \in BOOLEAN :
        /\ Dated(early)
        /\ aheadE' = IF early THEN aheadE \cup {logged'} ELSE aheadE
    /\ UNCHANGED <<reading, aheadR, store, run, req, rows, admin, blank>>
Measure ==
    /\ reading < MaxReadings
    /\ reading' = reading + 1
    /\ \E early \in BOOLEAN :
        /\ Dated(early)
        /\ aheadR' = IF early THEN aheadR \cup {reading'} ELSE aheadR
    /\ UNCHANGED <<logged, aheadE, store, run, req, rows, admin, blank>>
Shown == {e \in 1 .. logged : e > logged - Window}
\* The server's clock reaches what was dated in its future.
TimePasses ==
    /\ aheadE \cup aheadR # {}
    /\ aheadE' = {} /\ aheadR' = {}
    /\ UNCHANGED <<site, store, run, req, rows, admin, blank, troubles>>

-----------------------------------------------------------------------------
(* The connector.                                                            *)
At(pc) == run.pc = pc
Goto(pc) == run' = [run EXCEPT !.pc = pc]

\* A failed refresh ends the cycle only while no device is known.
SkipConfig ==
    /\ At("config") /\ run.ready
    /\ Goto("poll")
    /\ UNCHANGED <<site, ahead, store, req, rows, admin, blank, troubles>>
AfterConfig(ok) == IF ok \/ run.ready THEN "poll" ELSE "sleep"

\* A mistake EvidenceArrives rules out: without a new reading, no events.
NextUploadBoth(r) == IF r # 0 /\ r # marks.last THEN "reading" ELSE "beat"
\* _upload_state posts the reading unless it was the last one posted, then the events.
NextUpload(r) == IF r # 0 /\ r # marks.last THEN "reading" ELSE "events"
Pending == SelectSeq(SetToSortSeq(Shown, <), LAMBDA e : e \notin ToSet(marks.sent))
Poll ==
    /\ At("poll")
    /\ \/ /\ run' = [run EXCEPT !.pc = NextUpload(reading), !.reading = reading, !.todo = Pending]
          /\ UNCHANGED troubles
       \/ Trouble("lost") /\ Goto("beat")         \* the collector does not answer
    /\ UNCHANGED <<site, ahead, store, req, rows, admin, blank>>
UploadEnd ==
    /\ At("events") /\ run.todo = <<>>
    /\ Goto("beat")
    /\ UNCHANGED <<site, ahead, store, req, rows, admin, blank, troubles>>
\* The heartbeat is not due, or it is over; the commands follow, then the next cycle.
SkipBeat ==
    /\ At("beat")
    /\ Goto("sleep")
    /\ UNCHANGED <<site, ahead, store, req, rows, admin, blank, troubles>>
NextCycle ==
    /\ At("sleep")
    /\ Goto("config")
    /\ UNCHANGED <<site, ahead, store, req, rows, admin, blank, troubles>>

Batch == SubSeq(run.todo, 1, Min({BatchSize, Len(run.todo)}))
Rest == SubSeq(run.todo, Len(Batch) + 1, Len(run.todo))
Posts(kind) ==
    CASE kind = "reading" -> <<run.reading>> [] kind = "events" -> Batch [] OTHER -> <<>>
\* Any thread that is free serves it: which one makes no difference.
FreeThread == CHOOSE t \in Threads : req[t].kind = "none"
Post ==
  LET t == FreeThread IN
    /\ \E u \in Threads : req[u].kind = "none"
    /\ run.pc \in {"config", "reading", "events", "beat"}
    /\ run.pc = "events" => run.todo # <<>>
    /\ req' = [req EXCEPT ![t] =
                 [NoPost EXCEPT !.kind = run.pc, !.live = TRUE, !.token = run.token,
                              !.inst = marks.inst, !.items = Posts(run.pc)]]
    /\ Goto("wait")
    /\ UNCHANGED <<site, ahead, store, rows, admin, blank, troubles>>

\* ClientError: a failed upload ends with the heartbeat, a failed heartbeat is only logged.
Failed(kind) ==
    CASE kind = "config" -> AfterConfig(FALSE) [] kind = "beat" -> "sleep" [] OTHER -> "beat"
Unreachable ==
    /\ run.pc \in {"config", "reading", "events", "beat"}
    /\ Trouble("lost")
    /\ Goto(Failed(run.pc))
    /\ UNCHANGED <<site, ahead, store, req, rows, admin, blank>>
GiveUpPost(t) ==
    /\ req[t].live
    /\ Trouble("late")
    /\ req' = [req EXCEPT ![t].live = FALSE]
    /\ Goto(Failed(req[t].kind))
    /\ UNCHANGED <<site, ahead, store, rows, admin, blank>>
\* A request nobody waits for never arrives, or its answer is thrown away.
Forget(t) ==
    /\ req[t].kind # "none" /\ ~req[t].live
    /\ req[t].step \in {"sent", "answered"}
    /\ req' = [req EXCEPT ![t] = NoPost]
    /\ UNCHANGED <<site, ahead, store, run, rows, admin, blank, troubles>>

\* save() replaces the file, or raises: then memory is ahead of it and the cycle ends.
Save(m, next) ==
    /\ marks' = m
    /\ \/ saved' = m /\ run' = next /\ UNCHANGED troubles
       \/ Trouble("disk") /\ Goto("sleep") /\ UNCHANGED saved
LastOf(s, n) == SubSeq(s, Max({1, Len(s) - n + 1}), Len(s))
\* mark_events_sent: the newest MaxSent keys are kept.
Marked(m, batch) ==
    [m EXCEPT !.sent = LastOf(m.sent \o SelectSeq(batch, LAMBDA e : e \notin ToSet(m.sent)), MaxSent)]
\* A mistake MarkedIsStored rules out: a failed batch is marked as well.
TakenAnyway(t) == TRUE
\* post_event_batch and post_observation raise unless the answer is a success.
Taken(t) == req[t].ok
Receive(t) ==
    /\ req[t].live /\ req[t].step = "answered"
    /\ req' = [req EXCEPT ![t] = NoPost]
    /\ \/ /\ req[t].kind = "reading" /\ Taken(t)
          /\ Save([marks EXCEPT !.last = run.reading], [run EXCEPT !.pc = "events"])
       \/ /\ req[t].kind = "events" /\ Taken(t)
          /\ Save(Marked(marks, Batch), [run EXCEPT !.pc = "events", !.todo = Rest])
       \/ /\ req[t].kind \in {"reading", "events"} /\ ~Taken(t)
          /\ Goto("beat")
          /\ UNCHANGED <<store, troubles>>
       \/ /\ req[t].kind = "config"
          /\ run' = [run EXCEPT !.pc = AfterConfig(req[t].ok), !.ready = @ \/ req[t].ok]
          /\ UNCHANGED <<store, troubles>>
       \/ /\ req[t].kind = "beat"
          /\ Goto("sleep")
          /\ UNCHANGED <<store, troubles>>
    /\ UNCHANGED <<site, ahead, rows, admin, blank>>

\* A mistake StoredOnce rules out: the instance id is made anew at every start.
LoadAnew == [marks EXCEPT !.inst = marks.inst + 1]
\* StateStore: the file, or a fresh instance id that is saved only with the first mark.
Load ==
    IF saved # NoFile THEN saved ELSE [inst |-> marks.inst + 1, last |-> 0, sent |-> <<>>]
Restart(token) ==
    /\ run' = Started(token)
    /\ marks' = Load
    /\ blank' = IF saved = NoFile THEN blank + 1 ELSE blank
    /\ req' = [t \in Threads |-> [req[t] EXCEPT !.live = FALSE]]
    /\ UNCHANGED <<site, ahead, saved, rows, admin>>
CrashFeed == Trouble("crash") /\ Restart(run.token)
\* An operator puts the rotated token in the site's environment file and restarts the service.
Reinstall ==
    /\ connector.status = "active"
    /\ run.token # connector.token
    /\ Restart(connector.token)
    /\ UNCHANGED troubles

-----------------------------------------------------------------------------
(***************************************************************************)
(* The server: the first half of a handler authenticates, loads the device   *)
(* and looks for duplicates, the second half commits.                        *)
(***************************************************************************)
AnsweredWith(t, ok) ==
    req' = [req EXCEPT ![t] = [NoPost EXCEPT !.kind = req[t].kind, !.live = req[t].live,
                                           !.step = "answered", !.ok = ok]]
Authorised(t) == connector.status = "active" /\ connector.token = req[t].token
\* _refresh_config wants exactly one active device, or the one it is configured for.
OneDevice == DeviceConfigured \/ ~extra
Items(t) == ToSet(req[t].items)
Key(t, n) == <<req[t].inst, n>>
TooEarly(t) ==
    CASE req[t].kind = "reading" -> Items(t) \cap aheadR # {}
      [] req[t].kind = "events" -> Items(t) \cap aheadE # {}
      [] OTHER -> FALSE
Duplicates(t) ==
    CASE req[t].kind = "reading" -> {r \in Items(t) : readings[Key(t, r)] > 0}
      [] req[t].kind = "events" -> {e \in Items(t) : events[Key(t, e)] > 0}
      [] OTHER -> {}
AnswerConfig(t) == req[t].kind = "config" /\ AnsweredWith(t, OneDevice)
Begin(t) ==
    /\ req[t].kind # "none" /\ req[t].step = "sent"
    /\ \/ ~Authorised(t) /\ AnsweredWith(t, FALSE)
       \/ Authorised(t) /\ AnswerConfig(t)
       \/ Authorised(t) /\ TooEarly(t) /\ AnsweredWith(t, FALSE)
       \/ /\ Authorised(t) /\ req[t].kind # "config" /\ ~TooEarly(t)
          /\ req' = [req EXCEPT ![t].step = "read", ![t].known = Duplicates(t),
                                ![t].last = lastObserved, ![t].conn = connector]
    /\ UNCHANGED <<site, ahead, store, run, rows, admin, blank, troubles>>

Serving(t, kind) == req[t].kind = kind /\ req[t].step = "read"
\* A mistake StoredOnce rules out: no unique constraint, only the select before it.
TakenMeanwhileUnseen(table, t) == FALSE
\* The unique constraint: another session has stored one of the new keys since.
TakenMeanwhile(table, t) == \E n \in Items(t) \ req[t].known : table[Key(t, n)] > 0
Insert(table, t) ==
    [k \in DOMAIN table |->
        IF \E n \in Items(t) \ req[t].known : k = Key(t, n) THEN table[k] + 1 ELSE table[k]]
\* Of the device's row last_observed_at is written if the session's copy is not newer.
Observed(r, loaded) == IF r > loaded THEN r ELSE lastObserved
CommitReading(t) ==
    /\ Serving(t, "reading")
    /\ IF TakenMeanwhile(readings, t) \/ Items(t) \subseteq req[t].known
       THEN UNCHANGED <<readings, lastObserved>>        \* answered as a duplicate
       ELSE /\ readings' = Insert(readings, t)
            /\ lastObserved' = Observed(req[t].items[1], req[t].last)
    /\ AnsweredWith(t, TRUE)
    /\ UNCHANGED <<site, ahead, store, run, events, admin, blank, troubles>>
\* All events of the batch or none: a conflict is answered 409.
CommitEvents(t) ==
    /\ Serving(t, "events")
    /\ \/ /\ TakenMeanwhile(events, t)
          /\ AnsweredWith(t, FALSE)
          /\ UNCHANGED events
       \/ /\ ~TakenMeanwhile(events, t)
          /\ events' = Insert(events, t)
          /\ AnsweredWith(t, TRUE)
    /\ UNCHANGED <<site, ahead, store, run, lastObserved, readings, admin, blank, troubles>>
\* A mistake AdminStands rules out: the heartbeat writes the row it has loaded.
BeatWrites(t) == req[t].conn
\* The heartbeat changes version, error code and times; status and token are not written.
Beaten(t) == connector
CommitBeat(t) ==
    /\ Serving(t, "beat")
    /\ connector' = Beaten(t)
    /\ AnsweredWith(t, TRUE)
    /\ UNCHANGED <<site, ahead, store, run, rows, extra, blank, troubles>>

\* The web console. A revoke also replaces the token by one nobody is told.
ActsDone == connector.token - 1 + (IF extra THEN 1 ELSE 0)
RotateToken ==
    /\ ActsDone < MaxActs
    /\ connector' = [connector EXCEPT !.token = @ + 1]
    /\ UNCHANGED <<site, ahead, store, run, req, rows, extra, blank, troubles>>
Revoke ==
    /\ ActsDone < MaxActs
    /\ connector.status = "active"
    /\ connector' = [status |-> "revoked", token |-> connector.token + 1]
    /\ UNCHANGED <<site, ahead, store, run, req, rows, extra, blank, troubles>>
ProvisionDevice ==
    /\ ActsDone < MaxActs
    /\ ~extra
    /\ extra' = TRUE
    /\ UNCHANGED <<site, ahead, store, run, req, rows, connector, blank, troubles>>

-----------------------------------------------------------------------------
FeedInit ==
    /\ logged = 0 /\ reading = 0 /\ aheadE = {} /\ aheadR = {}
    /\ marks = [inst |-> 1, last |-> 0, sent |-> <<>>] /\ saved = NoFile
    /\ run = Started(1)
    /\ req = [t \in Threads |-> NoPost]
    /\ connector = [status |-> "active", token |-> 1] /\ extra = FALSE
    /\ lastObserved = 0
    /\ events = [k \in Keys(Events) |-> 0]
    /\ readings = [k \in Keys(Readings) |-> 0]
    /\ blank = 0 /\ troubles = 0

Cycle ==
    \/ SkipConfig \/ Poll \/ UploadEnd \/ SkipBeat \/ NextCycle
    \/ Post \/ \E t \in Threads : Receive(t)
Serve(t) == Begin(t) \/ CommitReading(t) \/ CommitEvents(t) \/ CommitBeat(t) \/ Forget(t)
FeedNext ==
    \/ Log \/ Measure \/ TimePasses
    \/ Cycle \/ Unreachable \/ CrashFeed \/ Reinstall
    \/ \E t \in Threads : GiveUpPost(t) \/ Serve(t)
    \/ RotateToken \/ Revoke \/ ProvisionDevice
FeedSpec == FeedInit /\ [][FeedNext]_feedVars

\* run_forever cycles and systemd restarts it, the server serves what it has, clocks go on.
\* The heartbeat is not always skipped, nor the configuration; nothing depends on either.
FeedFairness ==
    /\ WF_feedVars(Cycle)
    /\ \A t \in Threads : WF_feedVars(Serve(t))
    /\ WF_feedVars(TimePasses)
FairFeedSpec == FeedSpec /\ FeedFairness

-----------------------------------------------------------------------------
FeedTypeOK ==
    /\ logged \in 0 .. MaxEvents /\ reading \in Readings
    /\ aheadE \subseteq Events /\ aheadR \subseteq Readings
    /\ marks \in Stored /\ saved \in Stored \cup {NoFile}
    /\ run \in Run
    /\ req \in [Threads -> Request]
    /\ connector \in Connector /\ extra \in BOOLEAN
    /\ lastObserved \in Readings
    /\ events \in [Keys(Events) -> Nat] /\ readings \in [Keys(Readings) -> Nat]
    /\ blank \in 0 .. MaxTroubles + MaxActs /\ troubles \in 0 .. MaxTroubles

Copies(table, n) == {i \in Instances : table[<<i, n>>] > 0}

\* Nothing is stored twice, though requests are repeated while the server still works on the
\* first: a key has one row, and only a restart that found no state file can give an event or a
\* reading another key (ingest_openbmc_observation, ingest_openbmc_events, StateStore).
StoredOnce ==
    /\ \A e \in Events, i \in Instances : events[<<i, e>>] <= 1
    /\ \A r \in Readings, i \in Instances : readings[<<i, r>>] <= 1
    /\ \A e \in Events : Cardinality(Copies(events, e)) <= blank + 1
    /\ \A r \in Readings : Cardinality(Copies(readings, r)) <= blank + 1

\* What the connector will never post again is stored: no fault puts a mark, in memory or in the
\* file, ahead of the cloud's rows (_upload_state).
MarkedIsStored ==
    \A s \in {marks, saved} \ {NoFile} :
        /\ \A e \in ToSet(s.sent) : events[<<s.inst, e>>] > 0
        /\ s.last # 0 => readings[<<s.inst, s.last>>] > 0

\* No request of the connector, however late, takes back a revoke or brings an old token back
\* (rotate_openbmc_connector_token, revoke_openbmc_connector, heartbeat_openbmc_connector).
AdminStands ==
    [][/\ connector.status = "revoked" => connector'.status = "revoked"
       /\ connector'.token >= connector.token]_feedVars

\* Nobody lets the connector in any more, or its configuration does not say which device it has.
Cut ==
    \/ connector.status = "revoked" \/ run.token # connector.token
    \/ ~OneDevice
\* An event or a reading the collector goes on showing is stored in the end, over crashes, lost
\* and late answers, failed saves, dates in the future and a full list of marks (run_once).
EvidenceArrives ==
    /\ \A e \in Events : e \in Shown ~> Copies(events, e) # {} \/ e \notin Shown \/ Cut
    /\ \A r \in Readings \ {0} : reading = r ~> Copies(readings, r) # {} \/ reading # r \/ Cut

\* The architecture document, line 110, deduplicates by "collector instance + source event id":
\* one event, one row. Not so before the instance id was first saved.
OneRowPerEvent == \A e \in Events : Cardinality(Copies(events, e)) <= 1

\* last_observed_at is only moved forward, as the comparison in ingest_openbmc_observation
\* means it. Not so when two sessions overlap.
ObservedMovesOn == [][lastObserved' >= lastObserved]_feedVars
=============================================================================
