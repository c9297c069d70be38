-------------------------- MODULE TwinAgentServer --------------------------
(***************************************************************************)
(* The relay of the twin agent (planner-server/app/twin_agent.py and       *)
(* routers/twin_agent.py): the job list and the feed of ONE browser        *)
(* session, in memory under one lock, and the request handlers, which run  *)
(* in a thread pool and take the lock once per step.                       *)
(***************************************************************************)
EXTENDS Naturals, Sequences, FiniteSets

CONSTANTS
    Jobs,         \* the questions that may ever be asked
    Threads,      \* requests the server works on at once
    NoJob, NoCursor,
    FeedMax,      \* FEED_MAX_EVENTS, 100 in the code
    MaxTracked    \* MAX_TRACKED_JOBS, 200 in the code

ASSUME ServerAssumption ==
    /\ NoJob \notin Jobs
    /\ NoCursor \notin Nat
    /\ FeedMax \in Nat \ {0}
    /\ MaxTracked \in Nat \ {0}

VARIABLES
    jobs,         \* the tracked jobs, oldest first
    overdue,      \* the jobs whose present status has outlived its time limit
    feed, tail,   \* the events kept, which their numbers order, and the last number
    slot,         \* does the server know the browser session?
    workerSeen,   \* has the worker called within WORKER_ONLINE_WINDOW?
    call,         \* the request each thread works on
    issued,       \* the job ids that uuid4 has produced
    posted        \* history: every event ever appended

serverVars == <<jobs, overdue, feed, tail, slot, workerSeen, call, issued, posted>>

Live == {"pending", "claimed"}
Job == [id : Jobs, status : Live \cup {"done", "expired"}]
Kinds == {"reply", "commands"}
Event == [seq : Nat, kind : Kinds, job : Jobs]
Cursor == Nat \cup {NoCursor}

Call == [op : {"free", "updates", "jobs", "result"},
         pc : {"free", "sweep", "announce", "complete", "reply", "commands", "answer"},
         todo : SUBSET Jobs,            \* expired jobs still to be announced
         cursor : Cursor,               \* asked with, then answered with
         job : Jobs \cup {NoJob},
         tools : BOOLEAN,               \* does the result carry tool calls?
         events : SUBSET Event,
         online : BOOLEAN,
         code : {"ok", "404", "409"}]

Free == [op |-> "free", pc |-> "free", todo |-> {}, cursor |-> NoCursor, job |-> NoJob,
         tools |-> FALSE, events |-> {}, online |-> FALSE, code |-> "ok"]

LastOf(n, s) == SubSeq(s, IF Len(s) > n THEN Len(s) - n + 1 ELSE 1, Len(s))

ServerTypeOK ==
    /\ jobs \in Seq(Job)
    /\ overdue \in SUBSET Jobs
    /\ feed \in SUBSET Event
    /\ tail \in Nat
    /\ slot \in BOOLEAN /\ workerSeen \in BOOLEAN
    /\ call \in [Threads -> Call]
    /\ issued \in SUBSET Jobs
    /\ posted \in Seq([kind : Kinds, job : Jobs])

ServerInit ==
    /\ jobs = <<>> /\ overdue = {}
    /\ feed = {} /\ tail = 0
    /\ slot = FALSE /\ workerSeen = FALSE
    /\ call = [t \in Threads |-> Free]
    /\ issued = {} /\ posted = <<>>

-----------------------------------------------------------------------------
(* Requests.                                                                 *)

\* POST snapshot: the session becomes known.
StoreSnapshot ==
    /\ slot' = TRUE
    /\ UNCHANGED <<jobs, overdue, feed, tail, workerSeen, call, issued, posted>>

\* POST messages, of a session the server knows.
EnqueueJob(j) ==
    /\ slot
    /\ j \notin issued
    /\ jobs' = Append(jobs, [id |-> j, status |-> "pending"])
    /\ issued' = issued \cup {j}
    /\ UNCHANGED <<overdue, feed, tail, slot, workerSeen, call, posted>>

Begin(t, c) ==
    /\ call[t] = Free
    /\ call' = [call EXCEPT ![t] = c]
    /\ UNCHANGED <<jobs, overdue, feed, tail, slot, issued, posted>>

\* GET updates: 404 unless the session is known.
BeginUpdates(t, cursor) ==
    /\ Begin(t, IF slot THEN [Free EXCEPT !.op = "updates", !.pc = "sweep", !.cursor = cursor]
                        ELSE [Free EXCEPT !.op = "updates", !.pc = "answer", !.code = "404"])
    /\ UNCHANGED workerSeen

\* GET jobs and POST result record the worker's heartbeat first.
BeginJobs(t) ==
    /\ Begin(t, [Free EXCEPT !.op = "jobs", !.pc = "sweep"])
    /\ workerSeen' = TRUE

BeginResult(t, j, tools) ==
    /\ Begin(t, [Free EXCEPT !.op = "result", !.pc = "complete", !.job = j, !.tools = tools])
    /\ workerSeen' = TRUE

\* The handler has answered and its thread is free again.
Return(t) ==
    /\ call[t].pc = "answer"
    /\ call' = [call EXCEPT ![t] = Free]
    /\ UNCHANGED <<jobs, overdue, feed, tail, slot, workerSeen, issued, posted>>

-----------------------------------------------------------------------------
(* sweep_twin_agent_jobs: expire and truncate under the lock, then announce  *)
(* the expired jobs one by one, each under the lock again.                   *)

\* Mutant: the sweep looks at claimed jobs only.
ExpiredClaim(job) == job.status = "claimed" /\ job.id \in overdue

Expired(job) == job.status \in Live /\ job.id \in overdue

Swept(job) == IF Expired(job) THEN [job EXCEPT !.status = "expired"] ELSE job

ExpiredIds == {jobs[i].id : i \in {k \in DOMAIN jobs : Expired(jobs[k])}}

Sweep(t) ==
    /\ call[t].pc = "sweep"
    /\ jobs' = LastOf(MaxTracked, [i \in DOMAIN jobs |-> Swept(jobs[i])])
    /\ call' = [call EXCEPT ![t].pc = "announce", ![t].todo = ExpiredIds]
    /\ UNCHANGED <<overdue, feed, tail, slot, workerSeen, issued, posted>>

\* append_feed_event: the last FeedMax events are kept.
Post(kind, j) ==
    /\ tail' = tail + 1
    /\ feed' = {e \in feed \cup {[seq |-> tail + 1, kind |-> kind, job |-> j]} :
                    e.seq + FeedMax > tail + 1}
    /\ posted' = Append(posted, [kind |-> kind, job |-> j])

Announce(t) ==
    /\ call[t].pc = "announce"
    /\ \E j \in call[t].todo :
          /\ Post("reply", j)
          /\ call' = [call EXCEPT ![t].todo = @ \ {j}]
    /\ UNCHANGED <<jobs, overdue, slot, workerSeen, issued>>

-----------------------------------------------------------------------------
(* The second half of GET updates, GET jobs and POST result.                 *)

\* Mutant: the cursor is taken for the first event wanted.
UnreadAfterNext(cursor, stale) == {e \in feed \ stale : e.seq > cursor + 1}

Unread(cursor, stale) == {e \in feed \ stale : e.seq > cursor}

CommandEvents == {e \in feed : e.kind = "commands"}

Readable(cursor) == IF cursor = NoCursor THEN FALSE ELSE cursor <= tail

\* collect_feed_events; commands older than COMMAND_FRESH_WINDOW are left out.
Collect(t) ==
    /\ call[t].op = "updates" /\ call[t].pc = "announce" /\ call[t].todo = {}
    /\ \/ /\ ~Readable(call[t].cursor)
          /\ call' = [call EXCEPT ![t].pc = "answer", ![t].cursor = tail, ![t].online = workerSeen]
       \/ /\ Readable(call[t].cursor)
          /\ \E stale \in SUBSET CommandEvents :
                call' = [call EXCEPT ![t].pc = "answer", ![t].cursor = tail, ![t].online = workerSeen,
                                     ![t].events = Unread(call[t].cursor, stale)]
    /\ UNCHANGED <<jobs, overdue, feed, tail, slot, workerSeen, issued, posted>>

FirstPending(i) ==
    /\ jobs[i].status = "pending"
    /\ \A k \in 1..(i - 1) : jobs[k].status # "pending"

\* claim_next_job
Claim(t) ==
    /\ call[t].op = "jobs" /\ call[t].pc = "announce" /\ call[t].todo = {}
    /\ \/ /\ \A i \in DOMAIN jobs : jobs[i].status # "pending"
          /\ call' = [call EXCEPT ![t].pc = "answer"]
          /\ UNCHANGED <<jobs, overdue>>
       \/ \E i \in DOMAIN jobs :
          /\ FirstPending(i)
          /\ jobs' = [jobs EXCEPT ![i].status = "claimed"]
          /\ overdue' = overdue \ {jobs[i].id}
          /\ call' = [call EXCEPT ![t].pc = "answer", ![t].job = jobs[i].id]
    /\ UNCHANGED <<feed, tail, slot, workerSeen, issued, posted>>

Tracked(j, i) == i \in DOMAIN jobs /\ jobs[i].id = j

\* Mutant: a repeated result is taken again.
MayCompleteAgain(job) == job.status \in {"claimed", "done"}

MayComplete(job) == job.status = "claimed"

\* complete_job
Complete(t) ==
    /\ call[t].pc = "complete"
    /\ \/ /\ ~\E i \in DOMAIN jobs : Tracked(call[t].job, i)
          /\ call' = [call EXCEPT ![t].pc = "answer", ![t].code = "404"]
          /\ UNCHANGED jobs
       \/ \E i \in DOMAIN jobs :
          /\ Tracked(call[t].job, i)
          /\ \/ /\ ~MayComplete(jobs[i])
                /\ call' = [call EXCEPT ![t].pc = "answer", ![t].code = "409"]
                /\ UNCHANGED jobs
             \/ /\ MayComplete(jobs[i])
                /\ jobs' = [jobs EXCEPT ![i].status = "done"]
                /\ call' = [call EXCEPT ![t].pc = "reply"]
    /\ UNCHANGED <<overdue, feed, tail, slot, workerSeen, issued, posted>>

PostReply(t) ==
    /\ call[t].pc = "reply"
    /\ Post("reply", call[t].job)
    /\ call' = [call EXCEPT ![t].pc = IF call[t].tools THEN "commands" ELSE "answer"]
    /\ UNCHANGED <<jobs, overdue, slot, workerSeen, issued>>

PostCommands(t) ==
    /\ call[t].pc = "commands"
    /\ Post("commands", call[t].job)
    /\ call' = [call EXCEPT ![t].pc = "answer"]
    /\ UNCHANGED <<jobs, overdue, slot, workerSeen, issued>>

Handle(t) ==
    \/ Sweep(t) \/ Announce(t) \/ Collect(t) \/ Claim(t)
    \/ Complete(t) \/ PostReply(t) \/ PostCommands(t)

-----------------------------------------------------------------------------
(* Time and restarts.                                                        *)

\* A pending job passes JOB_PENDING_TTL, a claimed one JOB_CLAIMED_TTL.
PassLimit(j) ==
    /\ j \notin overdue
    /\ \E i \in DOMAIN jobs : jobs[i].id = j /\ jobs[i].status \in Live
    /\ overdue' = overdue \cup {j}
    /\ UNCHANGED <<jobs, feed, tail, slot, workerSeen, call, issued, posted>>

WorkerUnseen ==
    /\ workerSeen' = FALSE
    /\ UNCHANGED <<jobs, overdue, feed, tail, slot, call, issued, posted>>

\* Nothing of TwinAgentState is persisted.
Restart ==
    /\ jobs' = <<>> /\ overdue' = {}
    /\ feed' = {} /\ tail' = 0
    /\ slot' = FALSE /\ workerSeen' = FALSE
    /\ call' = [t \in Threads |-> Free]
    /\ UNCHANGED <<issued, posted>>

ServerNext ==
    \/ StoreSnapshot \/ WorkerUnseen \/ Restart
    \/ \E j \in Jobs : EnqueueJob(j) \/ PassLimit(j)
    \/ \E t \in Threads :
          \/ \E cursor \in Cursor : BeginUpdates(t, cursor)
          \/ BeginJobs(t)
          \/ \E j \in Jobs, tools \in BOOLEAN : BeginResult(t, j, tools)
          \/ Handle(t) \/ Return(t)

ServerSpec == ServerInit /\ [][ServerNext]_serverVars

\* A question is answered at most once, by the worker or by the sweep, however
\* their threads interleave, and commands follow their answer at most once.
Promise == INSTANCE AskAndAnswer

AnswersOnce == Promise!Spec
=============================================================================
