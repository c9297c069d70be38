----------------------------- MODULE TwinAgent -----------------------------
(***************************************************************************)
(* The twin agent end to end: the relay (TwinAgentServer), the worker that *)
(* answers the questions (deploy/twin-agent-worker) and the page that asks *)
(* them and follows the feed (web-app, useTwinAgentBridge.ts and           *)
(* ChatPanel.tsx).                                                         *)
(***************************************************************************)
EXTENDS TwinAgentServer

CONSTANTS
    NoThread,
    RetrySize,    \* RETRY_QUEUE_SIZE, 20 in the code
    FaultKinds,   \* which of the faults below may happen
    MaxFaults     \* bound: how many of them, each at most once

ASSUME AgentAssumption ==
    /\ NoThread \notin Threads
    /\ RetrySize \in Nat \ {0} /\ MaxFaults \in Nat
    /\ FaultKinds \subseteq {"pageLost", "workerLost", "crash", "unseen", "restart", "remount"}

VARIABLES
    message,      \* what became of the POST of each question
    page,         \* the mounted workspace: refs, query cache and store
    worker,       \* the worker process
    handled,      \* history: how often the page has handled what was said
    faults

agentVars == <<message, page, worker, handled, faults>>
vars == <<serverVars, agentVars>>

Said == [kind : Kinds, job : Jobs]
Answered == [events : SUBSET Event, cursor : Cursor, online : BOOLEAN]
NoData == [events |-> {}, cursor |-> NoCursor, online |-> FALSE]

Page == [cursor : Cursor, processed : SUBSET Nat, data : Answered,
         due : BOOLEAN,                     \* the effect on [updates] has to run
         poll : Threads \cup {NoThread},    \* the request in flight
         online : BOOLEAN, pending : Nat]   \* the store's cloudAgentOnline, pendingAgentReplies

Result == [job : Jobs, tools : BOOLEAN]
Worker == [pc : {"idle", "fetching", "thinking", "flushing", "reposting", "flushed", "posting"},
           job : Jobs \cup {NoJob}, tools : BOOLEAN,
           wait : Threads \cup {NoThread}, queue : Seq(Result)]

Mounted == [cursor |-> NoCursor, processed |-> {}, data |-> NoData, due |-> FALSE,
            poll |-> NoThread, online |-> FALSE, pending |-> 0]
Started == [pc |-> "idle", job |-> NoJob, tools |-> FALSE, wait |-> NoThread, queue |-> <<>>]

TypeOK ==
    /\ ServerTypeOK
    /\ message \in [Jobs -> {"unsent", "sent", "taken", "failed"}]
    /\ page \in Page
    /\ worker \in Worker /\ Len(worker.queue) <= RetrySize
    /\ handled \in [Said -> Nat]
    /\ faults \subseteq FaultKinds /\ Cardinality(faults) <= MaxFaults

Init ==
    /\ ServerInit
    /\ message = [j \in Jobs |-> "unsent"]
    /\ page = Mounted /\ worker = Started
    /\ handled = [s \in Said |-> 0] /\ faults = {}

Fault(kind) ==
    /\ kind \in FaultKinds \ faults
    /\ Cardinality(faults) < MaxFaults
    /\ faults' = faults \cup {kind}

Unwatched(t) == t # page.poll /\ t # worker.wait

Less(n, k) == IF n > k THEN n - k ELSE 0

-----------------------------------------------------------------------------
(* The page: asking (ChatPanel.tsx).                                         *)

\* While the cloud agent is offline the question is answered locally.
Ask(j) ==
    /\ message[j] = "unsent" /\ page.online
    /\ message' = [message EXCEPT ![j] = "sent"]
    /\ page' = [page EXCEPT !.pending = @ + 1]
    /\ UNCHANGED <<serverVars, worker, handled, faults>>

MessageArrives(j) ==
    /\ message[j] = "sent"
    /\ EnqueueJob(j)
    /\ message' = [message EXCEPT ![j] = "taken"]
    /\ UNCHANGED <<page, worker, handled, faults>>

\* The mutation rejects: refused (404), or the request or its answer is lost.
MessageFails(j) ==
    /\ \/ message[j] = "sent" /\ ~slot /\ UNCHANGED faults
       \/ message[j] \in {"sent", "taken"} /\ Fault("pageLost")
    /\ message' = [message EXCEPT ![j] = "failed"]
    /\ page' = [page EXCEPT !.pending = Less(@, 1)]
    /\ UNCHANGED <<serverVars, worker, handled>>

PublishSnapshot ==
    /\ ~slot
    /\ StoreSnapshot
    /\ UNCHANGED agentVars

-----------------------------------------------------------------------------
(* The page: following the feed (useTwinAgentBridge.ts).                     *)

\* A refetch on focus may start before the effect of the last answer has run; the
\* first answer takes effect before the timer polls again.
Poll ==
    /\ page.poll = NoThread
    /\ page.due => page.cursor # NoCursor
    /\ \E t \in Threads :
          /\ Unwatched(t)
          /\ BeginUpdates(t, page.cursor)
          /\ page' = [page EXCEPT !.poll = t]
    /\ UNCHANGED <<message, worker, handled, faults>>

\* The query fails: isError turns true and the page shows the agent offline.
PollFailed == page' = [page EXCEPT !.poll = NoThread, !.online = FALSE]

PollFails ==
    /\ page.poll # NoThread
    /\ \/ Fault("pageLost")
       \/ call[page.poll] = Free /\ UNCHANGED faults
    /\ PollFailed
    /\ UNCHANGED <<serverVars, message, worker, handled>>

\* The query library keeps the object it has when the answer is deeply equal to
\* it; the effect on [updates] then does not run.
PollSucceeded(answer) ==
    page' = [page EXCEPT !.poll = NoThread, !.data = answer, !.due = @ \/ answer # page.data]

PollReturns(t) ==
    /\ page.poll = t
    /\ Return(t)
    /\ IF call[t].code = "404" THEN PollFailed
       ELSE PollSucceeded([events |-> call[t].events, cursor |-> call[t].cursor,
                           online |-> call[t].online])
    /\ UNCHANGED <<message, worker, handled, faults>>

\* The cursor moved back: the server has restarted.
WentBack == IF page.cursor = NoCursor THEN FALSE ELSE page.data.cursor < page.cursor

\* Mutant: the processed numbers are not remembered.
KnownNone == {}

Known == IF WentBack THEN {} ELSE page.processed

Fresh == {e \in page.data.events : e.seq \notin Known}

\* Mutant: replies shown are not counted off.
RepliesNone(events) == 0

Replies(events) == Cardinality({e \in events : e.kind = "reply"})

Told(e) == [kind |-> e.kind, job |-> e.job]

\* The effect on [updates]: every event not yet processed is handled.
Apply ==
    /\ page.due
    /\ page' = [page EXCEPT !.due = FALSE,
                            !.online = page.data.online,
                            !.cursor = page.data.cursor,
                            !.processed = Known \cup {e.seq : e \in Fresh},
                            !.pending = Less(@, Replies(Fresh))]
    /\ handled' = [s \in Said |-> handled[s] + Cardinality({e \in Fresh : Told(e) = s})]
    /\ UNCHANGED <<serverVars, message, worker, faults>>

\* The workspace is left and entered again: new refs and a reset store, the
\* session and the query cache of the page load kept.
Remount ==
    /\ Fault("remount")
    /\ page' = [Mounted EXCEPT !.data = page.data, !.due = (page.data # NoData), !.poll = page.poll]
    /\ UNCHANGED <<serverVars, message, worker, handled>>

-----------------------------------------------------------------------------
(* The worker (agent_worker/main.py, job_source.py, publish.py).             *)

Calls(pc, t) == worker' = [worker EXCEPT !.pc = pc, !.wait = t]

\* fetch_job
Fetch ==
    /\ worker.pc = "idle"
    /\ \E t \in Threads : Unwatched(t) /\ BeginJobs(t) /\ Calls("fetching", t)
    /\ UNCHANGED <<message, page, handled, faults>>

\* process_job up to the result: the model answers, with or without tool calls.
Think ==
    /\ worker.pc = "thinking"
    /\ \E tools \in BOOLEAN : worker' = [worker EXCEPT !.pc = "flushing", !.tools = tools]
    /\ UNCHANGED <<serverVars, message, page, handled, faults>>

\* flush_pending, the head of the queue being due.
Repost ==
    /\ worker.pc = "flushing" /\ worker.queue # <<>>
    /\ \E t \in Threads :
          /\ Unwatched(t)
          /\ BeginResult(t, Head(worker.queue).job, Head(worker.queue).tools)
          /\ Calls("reposting", t)
    /\ UNCHANGED <<message, page, handled, faults>>

Flushed == worker.pc \in {"flushing", "flushed"}

\* submit_job_result after its flush
PostResult ==
    /\ Flushed /\ worker.job # NoJob
    /\ \E t \in Threads :
          Unwatched(t) /\ BeginResult(t, worker.job, worker.tools) /\ Calls("posting", t)
    /\ UNCHANGED <<message, page, handled, faults>>

\* The end of one turn of run_live
Sleep ==
    /\ Flushed /\ worker.job = NoJob
    /\ worker' = [worker EXCEPT !.pc = "idle"]
    /\ UNCHANGED <<serverVars, message, page, handled, faults>>

\* An answer; 404 and 409 are permanent errors, the result is not kept.
WorkerReturns(t) ==
    /\ worker.wait = t
    /\ Return(t)
    /\ worker' =
         CASE worker.pc = "fetching" ->
                [worker EXCEPT !.wait = NoThread, !.job = call[t].job,
                               !.pc = IF call[t].job = NoJob THEN "flushing" ELSE "thinking"]
           [] worker.pc = "reposting" ->
                [worker EXCEPT !.wait = NoThread, !.pc = "flushing", !.queue = Tail(@)]
           [] worker.pc = "posting" ->
                [worker EXCEPT !.wait = NoThread, !.pc = "flushing", !.job = NoJob]
    /\ UNCHANGED <<message, page, handled, faults>>

\* _enqueue: the oldest result gives way when the queue is full.
Kept == LastOf(RetrySize, Append(worker.queue, [job |-> worker.job, tools |-> worker.tools]))

\* No answer: a failed fetch ends the turn without a flush, a failed repost ends
\* the flush, a failed post is kept for later.
WorkerFails ==
    /\ worker.wait # NoThread
    /\ \/ Fault("workerLost")
       \/ call[worker.wait] = Free /\ UNCHANGED faults
    /\ worker' =
         CASE worker.pc = "fetching" -> [worker EXCEPT !.wait = NoThread, !.pc = "idle"]
           [] worker.pc = "reposting" -> [worker EXCEPT !.wait = NoThread, !.pc = "flushed"]
           [] worker.pc = "posting" ->
                [worker EXCEPT !.wait = NoThread, !.pc = "flushing", !.job = NoJob, !.queue = Kept]
    /\ UNCHANGED <<serverVars, message, page, handled>>

WorkerCrash ==
    /\ Fault("crash")
    /\ worker' = Started
    /\ UNCHANGED <<serverVars, message, page, handled>>

-----------------------------------------------------------------------------
(* The server.                                                               *)

\* The caller has given up; the thread goes back to the pool.
NobodyWaits(t) == Unwatched(t) /\ Return(t) /\ UNCHANGED agentVars

ServerRuns(t) == Handle(t) /\ UNCHANGED agentVars

TimeLimits == (\E j \in Jobs : PassLimit(j)) /\ UNCHANGED agentVars

\* The server loses sight of the worker, or everything.
ServerFaults ==
    /\ \/ Fault("unseen") /\ workerSeen /\ WorkerUnseen
       \/ Fault("restart") /\ Restart
    /\ UNCHANGED <<message, page, worker, handled>>

PageStep ==
    \/ \E j \in Jobs : Ask(j) \/ MessageFails(j)
    \/ PublishSnapshot \/ Poll \/ PollFails \/ Apply \/ Remount

WorkerStep == Fetch \/ Think \/ Repost \/ PostResult \/ Sleep \/ WorkerFails

ThreadStep(t) == ServerRuns(t) \/ PollReturns(t) \/ WorkerReturns(t) \/ NobodyWaits(t)

Next ==
    \/ PageStep \/ WorkerStep \/ WorkerCrash \/ ServerFaults \/ TimeLimits
    \/ \E j \in Jobs : MessageArrives(j)
    \/ \E t \in Threads : ThreadStep(t)

Spec == Init /\ [][Next]_vars

(* Handlers finish, requests that were sent arrive, the page keeps publishing  *)
(* and polling by its timers and time passes. Nothing is asked of the worker:  *)
(* it may be switched off.                                                     *)
ServerFairness ==
    /\ \A t \in Threads : WF_vars(ThreadStep(t))
    /\ \A j \in Jobs : WF_vars(MessageArrives(j))
    /\ WF_vars(TimeLimits)

PageFairness == WF_vars(PublishSnapshot) /\ WF_vars(Poll) /\ WF_vars(Apply)

FairSpec == Spec /\ ServerFairness /\ PageFairness

\* The worker keeps cycling as well (systemd restarts it).
BusySpec == FairSpec /\ WF_vars(WorkerStep)

-----------------------------------------------------------------------------
(* Safety.                                                                   *)

NothingRepeated == \A s \in Said : handled[s] <= 1

\* An event is handled at most once by a page that stays mounted: no reply is
\* shown twice and no tool call is executed twice, whatever polls overlap,
\* answers are lost and servers restart (processedSeqsRef).
HandledOnce == "remount" \notin faults => NothingRepeated

\* What the page's cursor has passed, the page has handled.
PassedIsHandled ==
    page.cursor # NoCursor =>
        \A e \in feed : e.kind = "reply" /\ e.seq <= page.cursor => handled[Promise!Reply(e.job)] > 0

\* As long as the server stays up a reply still in the feed is either shown or will
\* be in the next answer: none is skipped, whatever polls are lost or overlap. A
\* server that restarts counts from zero, and what it says before the next poll
\* passes by (PassedIsHandled, TwinAgentSkips.cfg).
NothingSkipped == "restart" \notin faults => PassedIsHandled

(* Liveness.                                                                   *)

\* A question the server took is answered on the page, by the offline text if
\* the worker is gone, as long as the page polls and the server stays up (a
\* restarted one has forgotten the question).
QuestionsAnswered ==
    \A j \in Jobs : message[j] = "taken" ~>
        \/ "restart" \in faults
        \/ handled[Promise!Reply(j)] > 0

\* The chat does not wait for ever: pendingAgentReplies comes back to zero.
SpinnerEnds == page.pending > 0 ~> ("restart" \in faults \/ page.pending = 0)

\* After the last failure the page finds the cloud agent online again.
ComesBack == []<>page.online
=============================================================================
