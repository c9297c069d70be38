---------------------------- MODULE FlightUploads ----------------------------
(***************************************************************************)
(* The upload backlog of the Android app (data/upload/                      *)
(* FlightUploadRepository.kt) and the server's ingest of flight events and  *)
(* telemetry batches (routers/missions.py).                                 *)
(*                                                                         *)
(* Every operation of the repository holds one mutex from reading the file  *)
(* to the end of the flush, so there is one operation at a time, in app;    *)
(* what the server does with a request is one transaction.  The backlog's   *)
(* lists only grow at their end and are filtered: they are sets of numbers, *)
(* given in the order of the enqueue.                                       *)
(***************************************************************************)
EXTENDS Integers

CONSTANTS
    Flights,        \* pairs of flight and mission, a group of the backlog each
    MaxEvents,      \* events reported (bound)
    MaxBatches,     \* telemetry batches reported (bound)
    TroubleKinds,     \* the troubles that may happen, see Trouble
    MaxTroubles       \* troubles of a behaviour (bound)

ASSUME UploadAssumption ==
    Flights # {} /\ MaxEvents \in Nat /\ MaxBatches \in Nat /\ MaxTroubles \in Nat

VARIABLES
    flight,         \* the flight of each event
    made,           \* numbers of events and batches reported so far
    file,           \* upload-backlog.json
    app,            \* the operation that holds the mutex
    late,           \* requests the client gave up and that may still arrive
    stored,         \* copies of each event in the server's table
    copies,         \* copies of each batch in the server's table
    queued,         \* items whose enqueue wrote the file (history)
    torn,           \* items lost with a half-written file (history)
    unheard,        \* acceptances of each batch the app did not note (history)
    troubles          \* troubles so far

uploadVars == <<flight, made, file, app, late, stored, copies, queued, torn, unheard, troubles>>
ingestVars == <<late, stored, copies>>
historyVars == <<queued, torn, unheard>>

Events == 1 .. MaxEvents
Batches == 1 .. MaxBatches
Store == [events : SUBSET Events, batches : SUBSET Batches]
NoStore == [events |-> {}, batches |-> {}]      \* PendingUploadStore()
Items(store) == ({"event"} \X store.events) \cup ({"batch"} \X store.batches)

Idle == [pc |-> "idle", store |-> NoStore, groups |-> {}, kept |-> {}, sent |-> {}]
App == [pc : {"idle", "store", "events", "batches", "save"},
        store : Store,              \* the store in memory
        groups : SUBSET Flights,    \* groups of events not tried yet
        kept : SUBSET Flights,      \* groups retained
        sent : SUBSET Batches]      \* batches accepted in this flush

(***************************************************************************)
(* A fault of kind k happens, if the model allows that kind.  "lost": no    *)
(* connection, no session, or an answer other than 2xx.  "answer": the      *)
(* server commits and its answer is lost.  "late": the client gives up and  *)
(* the request may still arrive.  "crash": the app's process ends.  "torn": *)
(* it ends inside writeText.                                                *)
(***************************************************************************)
Trouble(k) ==
    /\ k \in TroubleKinds
    /\ troubles < MaxTroubles
    /\ troubles' = troubles + 1

-----------------------------------------------------------------------------
(***************************************************************************)
(* Enqueue: read the file, add the item, write.  readStore takes a file it  *)
(* cannot decode for an empty backlog, so that a half-written file is one.  *)
(***************************************************************************)
EnqueueEvent(f) ==
    LET e == made.events + 1
    IN  /\ app = Idle
        /\ e \in Events
        /\ made' = [made EXCEPT !.events = e]
        /\ flight' = [flight EXCEPT ![e] = f]
        /\ app' = [Idle EXCEPT !.pc = "store",
                               !.store = [file EXCEPT !.events = @ \cup {e}]]
        /\ UNCHANGED <<file, ingestVars, historyVars, troubles>>
EnqueueBatch ==
    LET b == made.batches + 1
    IN  /\ app = Idle
        /\ b \in Batches
        /\ made' = [made EXCEPT !.batches = b]
        /\ app' = [Idle EXCEPT !.pc = "store",
                               !.store = [file EXCEPT !.batches = @ \cup {b}]]
        /\ UNCHANGED <<flight, file, ingestVars, historyVars, troubles>>
WriteStore ==
    /\ app.pc = "store"
    /\ file' = app.store
    /\ queued' = queued \cup Items(app.store)
    /\ app' = [app EXCEPT !.pc = "events", !.groups = {flight[e] : e \in app.store.events}]
    /\ UNCHANGED <<flight, made, ingestVars, torn, unheard, troubles>>

-----------------------------------------------------------------------------
(***************************************************************************)
(* flushLocked, first the events: a request for each group, in the order of *)
(* their first events, up to the first that fails.                          *)
(***************************************************************************)
Group(f) == {e \in app.store.events : flight[e] = f}
NextGroup(f) ==
    /\ f \in app.groups
    /\ \E e \in Group(f) : \A g \in app.groups : \A d \in Group(g) : e <= d

\* session.merge: one row for an event's id.
Merged(es) == [e \in Events |-> IF e \in es THEN 1 ELSE stored[e]]
Added(b) == [copies EXCEPT ![b] = @ + 1]

\* A mistake OrderKept rules out: the failed group is not retained, the groups after it are.
RetainedAfter(f) == app.groups \ {f}
\* The failed group and the ones after it stay.
Retained(f) == app.groups
EventsKept(store, kept) == [store EXCEPT !.events = {e \in @ : flight[e] \in kept}]
AfterEvents(kept) ==
    app' = [app EXCEPT !.pc = "batches", !.groups = {}, !.kept = kept,
                       !.store = EventsKept(app.store, kept)]

PostEvents(f) ==
    /\ app.pc = "events"
    /\ NextGroup(f)
    /\ \/ /\ stored' = Merged(Group(f))
          /\ app' = [app EXCEPT !.groups = @ \ {f}]
          /\ UNCHANGED <<late, troubles>>
       \/ /\ AfterEvents(Retained(f))
          /\ \/ Trouble("lost") /\ UNCHANGED <<stored, late>>
             \/ Trouble("answer") /\ stored' = Merged(Group(f)) /\ UNCHANGED late
             \/ /\ Trouble("late")
                /\ late' = late \cup {[events |-> Group(f), batches |-> {}]}
                /\ UNCHANGED stored
    /\ UNCHANGED <<flight, made, file, copies, historyVars>>
EventsDone ==
    /\ app.pc = "events"
    /\ app.groups = {}
    /\ AfterEvents({})
    /\ UNCHANGED <<flight, made, file, ingestVars, historyVars, troubles>>

(***************************************************************************)
(* Then the telemetry, batch by batch, up to the first that fails, and the  *)
(* file is written again.                                                   *)
(***************************************************************************)
NextBatch(b) ==
    /\ b \in app.store.batches \ app.sent
    /\ \A c \in app.store.batches \ app.sent : b <= c

\* A mistake CopiesAreRetries rules out: a failed batch retains the accepted ones too.
AllKept == app.store.batches
\* A mistake NothingLost rules out: the failed batch itself is not retained.
RestKept == {b \in app.store.batches \ app.sent : ~NextBatch(b)}
\* The failed batch and the ones after it; none when all went through.
BatchesKept == app.store.batches \ app.sent
Finish == app' = [app EXCEPT !.pc = "save", !.store.batches = BatchesKept]

PostBatch ==
    /\ app.pc = "batches"
    /\ \E b \in Batches :
        /\ NextBatch(b)
        /\ \/ /\ copies' = Added(b)
              /\ app' = [app EXCEPT !.sent = @ \cup {b}]
              /\ UNCHANGED <<late, unheard, troubles>>
           \/ /\ Finish
              /\ \/ Trouble("lost") /\ UNCHANGED <<copies, late, unheard>>
                 \/ /\ Trouble("answer")
                    /\ copies' = Added(b)
                    /\ unheard' = [unheard EXCEPT ![b] = @ + 1]
                    /\ UNCHANGED late
                 \/ /\ Trouble("late")
                    /\ late' = late \cup {[events |-> {}, batches |-> {b}]}
                    /\ UNCHANGED <<copies, unheard>>
    /\ UNCHANGED <<flight, made, file, stored, queued, torn>>
BatchesDone ==
    /\ app.pc = "batches"
    /\ app.store.batches \subseteq app.sent
    /\ Finish
    /\ UNCHANGED <<flight, made, file, ingestVars, historyVars, troubles>>
Save ==
    /\ app.pc = "save"
    /\ file' = app.store
    /\ app' = Idle
    /\ UNCHANGED <<flight, made, ingestVars, historyVars, troubles>>

-----------------------------------------------------------------------------
\* A request the client gave up reaches the server, or never does.
Arrive ==
    /\ \E r \in late :
        /\ late' = late \ {r}
        /\ \/ UNCHANGED <<stored, copies, unheard>>
           \/ /\ stored' = Merged(r.events)
              /\ copies' = [b \in Batches |-> IF b \in r.batches THEN copies[b] + 1 ELSE copies[b]]
              /\ unheard' = [b \in Batches |-> IF b \in r.batches THEN unheard[b] + 1 ELSE unheard[b]]
    /\ UNCHANGED <<flight, made, file, app, queued, torn, troubles>>

\* What the flush had learned is gone with the process; the file is what it was, or half of it.
AppEnds ==
    /\ app # Idle
    /\ \/ Trouble("crash") /\ UNCHANGED <<file, torn>>
       \/ /\ Trouble("torn")
          /\ app.pc \in {"store", "save"}
          /\ torn' = torn \cup Items(file) \cup Items(app.store)
          /\ file' = NoStore
    /\ unheard' = [b \in Batches |-> IF b \in app.sent THEN unheard[b] + 1 ELSE unheard[b]]
    /\ app' = Idle
    /\ UNCHANGED <<flight, made, ingestVars, queued>>

-----------------------------------------------------------------------------
UploadInit ==
    /\ flight \in [Events -> {CHOOSE f \in Flights : TRUE}]
    /\ made = [events |-> 0, batches |-> 0]
    /\ file = NoStore           \* no file yet
    /\ app = Idle
    /\ late = {}
    /\ stored = [e \in Events |-> 0]
    /\ copies = [b \in Batches |-> 0]
    /\ queued = {} /\ torn = {}
    /\ unheard = [b \in Batches |-> 0]
    /\ troubles = 0

Enqueue == EnqueueBatch \/ \E f \in Flights : EnqueueEvent(f)
AppStep ==
    \/ WriteStore \/ EventsDone \/ PostBatch \/ BatchesDone \/ Save
    \/ \E f \in Flights : PostEvents(f)
UploadNext == Enqueue \/ AppStep \/ Arrive \/ AppEnds

UploadSpec == UploadInit /\ [][UploadNext]_uploadVars

(***************************************************************************)
(* A launched operation goes on until it ends or the process does.  Nothing *)
(* makes the flight report another item.                                    *)
(***************************************************************************)
UploadFairSpec == UploadSpec /\ WF_uploadVars(AppStep)

-----------------------------------------------------------------------------
UploadTypeOK ==
    /\ flight \in [Events -> Flights]
    /\ made \in [events : 0 .. MaxEvents, batches : 0 .. MaxBatches]
    /\ file \in Store
    /\ app \in App
    /\ late \subseteq Store
    /\ stored \in [Events -> Nat] /\ copies \in [Batches -> Nat] /\ unheard \in [Batches -> Nat]
    /\ queued \subseteq Items([events |-> Events, batches |-> Batches])
    /\ torn \subseteq Items([events |-> Events, batches |-> Batches])
    /\ troubles \in 0 .. MaxTroubles

Arrived == {<<"event", e>> : e \in {d \in Events : stored[d] > 0}}
           \cup {<<"batch", b>> : b \in {c \in Batches : copies[c] > 0}}

(***************************************************************************)
(* The backlog lets go of an item only when the server has it: whatever is  *)
(* lost, late or interrupted between the two writes of an operation, an     *)
(* item whose enqueue wrote the file is in the file or at the server (or    *)
(* went with a half-written file).                                          *)
(***************************************************************************)
NothingLost == queued \subseteq Items(file) \cup Arrived \cup torn

(***************************************************************************)
(* A telemetry batch, which has no id, is stored again only when the app    *)
(* could not know that it was accepted.                                     *)
(***************************************************************************)
CopiesAreRetries == \A b \in Batches : copies[b] <= 1 + unheard[b]

(***************************************************************************)
(* The server has the events of a flight without gaps: a group that failed  *)
(* is retained with the groups after it, so no later event of the flight    *)
(* overtakes an earlier one.                                                *)
(***************************************************************************)
OrderKept ==
    \A d, e \in Events :
        /\ d < e /\ flight[d] = flight[e]
        /\ stored[e] > 0 /\ <<"event", d>> \in queued \ torn
        => stored[d] > 0

(***************************************************************************)
(* "Pending uploads will retry later" (FlightUploadRepository.kt:136): what *)
(* is in the backlog is uploaded some time.                                 *)
(***************************************************************************)
Retried == \A e \in Events : <<"event", e>> \in queued ~> stored[e] > 0 \/ <<"event", e>> \in torn

=============================================================================
