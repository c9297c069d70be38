----------------------------- MODULE PhoneProofs -----------------------------
(***************************************************************************)
(* Proofs about what the phone exchanges with the server: the backlog it   *)
(* uploads (FlightUploads) and the missions it downloads                   *)
(* (MissionDelivery).                                                      *)
(***************************************************************************)
EXTENDS FlightUploads, MissionDelivery, FiniteSetTheorems, TLAPS

(***************************************************************************)
(* Only what was reported is anywhere, and a write adds the newest item.   *)
(***************************************************************************)
Reported(store) ==
    (\A e \in store.events : e <= made.events) /\ (\A b \in store.batches : b <= made.batches)

ReportedInv ==
    /\ Reported(file) /\ Reported(app.store) /\ \A r \in late : Reported(r)
    /\ \A e \in Events : stored[e] > 0 \/ <<"event", e>> \in queued => e <= made.events
    /\ \A e \in file.events : <<"event", e>> \in queued
    /\ \A b \in Batches : copies[b] > 0 => b <= made.batches
    /\ \A e \in app.store.events : app.pc = "store" => e \in file.events \/ e = made.events
    /\ \A e \in app.store.events : app.pc # "store" => e \in file.events

(***************************************************************************)
(* What the operation under way has dropped from its copy of the backlog,  *)
(* or has marked as sent, has arrived.                                     *)
(***************************************************************************)
EventIn(e) == stored[e] > 0
BatchIn(b) == copies[b] > 0

WorkInv ==
    /\ app.pc = "idle" => app = Idle
    /\ app.pc # "idle" =>
         /\ \A e \in file.events : e \in app.store.events \/ EventIn(e)
         /\ \A b \in file.batches : b \in app.store.batches \/ BatchIn(b)
    /\ app.pc = "events" =>
         /\ app.store = file
         /\ \A e \in app.store.events : flight[e] \in app.groups \/ EventIn(e)
    /\ \A b \in app.sent : BatchIn(b)

BacklogInv == 
    /\ \A e \in Events : <<"event", e>> \in queued => e \in file.events \/ EventIn(e) \/ <<"event", e>> \in torn
    /\ \A b \in Batches : <<"batch", b>> \in queued => b \in file.batches \/ BatchIn(b) \/ <<"batch", b>> \in torn
    /\ queued \subseteq ({"event"} \X Events) \cup ({"batch"} \X Batches)

(***************************************************************************)
(* A request that may still arrive brings what comes before it along,      *)
(* unless that is there.                                                   *)
(***************************************************************************)
Before(d, e) == d < e /\ flight[d] = flight[e] /\ <<"event", d>> \in queued \ torn
OrderInv ==
    /\ \A d, e \in Events : Before(d, e) /\ EventIn(e) => EventIn(d)
    /\ \A r \in late : \A e \in r.events : \A d \in Events : Before(d, e) => d \in r.events \/ EventIn(d)

(***************************************************************************)
(* A batch the app may still send has been stored only unheard.            *)
(***************************************************************************)
RetryInv ==
    \A b \in Batches :
        /\ copies[b] <= 1 + unheard[b]
        /\ b \in file.batches \cup app.store.batches /\ b \notin app.sent => copies[b] <= unheard[b]
        /\ app.pc = "save" /\ b \in app.store.batches => b \notin app.sent

UploadInv == UploadTypeOK /\ ReportedInv /\ WorkInv /\ BacklogInv /\ OrderInv /\ RetryInv

-----------------------------------------------------------------------------
LEMMA Counts == MaxEvents \in Nat /\ MaxBatches \in Nat /\ MaxTroubles \in Nat /\ Flights # {}
  BY UploadAssumption

LEMMA UploadInvInit == UploadInit => UploadInv
  <1> SUFFICES ASSUME UploadInit PROVE UploadInv
    OBVIOUS
  <1> USE DEF UploadInit, NoStore, Idle
  <1>1. UploadTypeOK
    BY Counts DEF UploadTypeOK, Store, App
  <1>2. ReportedInv /\ WorkInv
    BY DEF ReportedInv, Reported, WorkInv
  <1>3. BacklogInv /\ OrderInv /\ RetryInv
    BY DEF BacklogInv, OrderInv, RetryInv, EventIn, Before
  <1> QED
    BY <1>1, <1>2, <1>3 DEF UploadInv

(***************************************************************************)
(* What one step does to the tables: rows are only added.                  *)
(***************************************************************************)
LEMMA TablesGrow ==
    ASSUME UploadTypeOK, [UploadNext]_uploadVars
    PROVE  /\ stored' \in [Events -> Nat] /\ copies' \in [Batches -> Nat] /\ unheard' \in [Batches -> Nat]
           /\ \A e \in Events : stored[e] > 0 => stored'[e] > 0
           /\ \A b \in Batches : copies[b] <= copies'[b]
  <1>1. stored \in [Events -> Nat] /\ copies \in [Batches -> Nat] /\ unheard \in [Batches -> Nat]
    BY DEF UploadTypeOK
  <1>2. ASSUME NEW es PROVE /\ Merged(es) \in [Events -> Nat]
                            /\ \A e \in Events : stored[e] > 0 => Merged(es)[e] > 0
    BY <1>1 DEF Merged
  <1>3. ASSUME NEW b \in Batches PROVE /\ Added(b) \in [Batches -> Nat]
                                        /\ \A c \in Batches : copies[c] <= Added(b)[c]
    BY <1>1 DEF Added
  <1>4. ASSUME NEW b \in Batches, unheard' = [unheard EXCEPT ![b] = @ + 1] PROVE unheard' \in [Batches -> Nat]
    BY <1>1, <1>4
  <1>5. ASSUME NEW bs, unheard' = [b \in Batches |-> IF b \in bs THEN unheard[b] + 1 ELSE unheard[b]]
        PROVE  unheard' \in [Batches -> Nat]
    BY <1>1, <1>5
  <1>6. ASSUME NEW bs, copies' = [b \in Batches |-> IF b \in bs THEN copies[b] + 1 ELSE copies[b]]
        PROVE  copies' \in [Batches -> Nat] /\ \A b \in Batches : copies[b] <= copies'[b]
    BY <1>1, <1>6
  <1>7. CASE UNCHANGED <<stored, copies, unheard>>
    BY <1>1, <1>7
  <1>8. CASE \E f \in Flights : PostEvents(f)
    BY <1>1, <1>2, <1>8 DEF PostEvents, historyVars
  <1>9. CASE PostBatch
    BY <1>1, <1>3, <1>4, <1>9 DEF PostBatch
  <1>10. CASE Arrive
    <2>1. CASE UNCHANGED <<stored, copies, unheard>>
      BY <1>7, <2>1
    <2>2. CASE \E r \in late :
                 /\ stored' = Merged(r.events)
                 /\ copies' = [b \in Batches |-> IF b \in r.batches THEN copies[b] + 1 ELSE copies[b]]
                 /\ unheard' = [b \in Batches |-> IF b \in r.batches THEN unheard[b] + 1 ELSE unheard[b]]
      BY <1>2, <1>5, <1>6, <2>2
    <2> QED
      BY <1>10, <2>1, <2>2 DEF Arrive
  <1>11. CASE AppEnds
    BY <1>1, <1>5, <1>11 DEF AppEnds, ingestVars
  <1> QED
    BY <1>7, <1>8, <1>9, <1>10, <1>11
    DEF UploadNext, Enqueue, EnqueueEvent, EnqueueBatch, AppStep, WriteStore, EventsDone, BatchesDone, Save,
        uploadVars, ingestVars, historyVars

LEMMA UploadTypeStep == UploadTypeOK /\ [UploadNext]_uploadVars => UploadTypeOK'
  <1> SUFFICES ASSUME UploadTypeOK, [UploadNext]_uploadVars PROVE UploadTypeOK'
    OBVIOUS
  <1> DEFINE AppOK == app' \in App
             FileOK == file' \in Store
             LateOK == late' \subseteq Store
             RestOK == /\ flight' \in [Events -> Flights]
                       /\ made' \in [events : 0 .. MaxEvents, batches : 0 .. MaxBatches]
                       /\ troubles' \in 0 .. MaxTroubles
             NotesOK == queued' \cup torn' \subseteq Items([events |-> Events, batches |-> Batches])
  <1>1. AppOK /\ FileOK /\ LateOK /\ RestOK /\ NotesOK => UploadTypeOK'
    BY TablesGrow DEF UploadTypeOK
  <1>2. /\ app \in App /\ file \in Store /\ late \subseteq Store /\ flight \in [Events -> Flights]
        /\ made \in [events : 0 .. MaxEvents, batches : 0 .. MaxBatches]
        /\ troubles \in 0 .. MaxTroubles
        /\ queued \cup torn \subseteq Items([events |-> Events, batches |-> Batches])
    BY DEF UploadTypeOK
  <1>3. NoStore \in Store /\ Idle \in App
    BY DEF NoStore, Store, Idle, App
  <1>4. app.store \in Store /\ \A e \in Events : flight[e] \in Flights
    BY <1>2 DEF App
  <1>5. \A s \in Store : Items(s) \subseteq Items([events |-> Events, batches |-> Batches])
    BY DEF Items, Store
  <1>6. \A k : Trouble(k) => troubles' \in 0 .. MaxTroubles
    BY <1>2, Counts DEF Trouble
  <1>7. CASE UNCHANGED uploadVars
    BY <1>7 DEF uploadVars, UploadTypeOK, ingestVars, historyVars
  <1>8. ASSUME NEW f \in Flights, EnqueueEvent(f) PROVE UploadTypeOK'
    <2>1. PICK e \in Events : e = made.events + 1
      BY <1>8 DEF EnqueueEvent
    <2>2. [file EXCEPT !.events = @ \cup {e}] \in Store
      BY <1>2 DEF Store
    <2>3. PICK new \in Store : new = [file EXCEPT !.events = @ \cup {e}]
      BY <2>2
    <2>4. app' = [Idle EXCEPT !.pc = "store", !.store = new]
      BY <1>8, <2>1, <2>3 DEF EnqueueEvent
    <2>5. AppOK
      BY <2>4 DEF App, Idle
    <2>6. made' = [made EXCEPT !.events = e] /\ flight' = [flight EXCEPT ![e] = f]
      BY <1>8, <2>1 DEF EnqueueEvent
    <2>7. RestOK
      BY <1>2, <1>8, <2>1, <2>6 DEF EnqueueEvent, Events
    <2> QED
      BY <1>1, <1>2, <1>8, <2>5, <2>7 DEF EnqueueEvent, ingestVars, historyVars
  <1>9. CASE EnqueueBatch
    <2>1. PICK b \in Batches : b = made.batches + 1
      BY <1>9 DEF EnqueueBatch
    <2>2. [file EXCEPT !.batches = @ \cup {b}] \in Store
      BY <1>2 DEF Store
    <2>3. PICK new \in Store : new = [file EXCEPT !.batches = @ \cup {b}]
      BY <2>2
    <2>4. app' = [Idle EXCEPT !.pc = "store", !.store = new]
      BY <1>9, <2>1, <2>3 DEF EnqueueBatch
    <2>5. AppOK
      BY <2>4 DEF App, Idle
    <2>6. made' = [made EXCEPT !.batches = b]
      BY <1>9, <2>1 DEF EnqueueBatch
    <2>7. RestOK
      BY <1>2, <1>9, <2>1, <2>6 DEF EnqueueBatch, Batches
    <2> QED
      BY <1>1, <1>2, <1>9, <2>5, <2>7 DEF EnqueueBatch, ingestVars, historyVars
  <1>10. CASE WriteStore
    <2>1. {flight[e] : e \in app.store.events} \in SUBSET Flights
      BY <1>4 DEF Store
    <2>2. PICK gs \in SUBSET Flights : gs = {flight[e] : e \in app.store.events}
      BY <2>1
    <2>3. app' = [app EXCEPT !.pc = "events", !.groups = gs]
      BY <1>10, <2>2 DEF WriteStore
    <2>4. AppOK
      BY <1>2, <2>3 DEF App
    <2> QED
      BY <1>1, <1>2, <1>4, <1>5, <1>10, <2>4 DEF WriteStore, ingestVars
  <1>11. \A kept \in SUBSET Flights : AfterEvents(kept) => AppOK
    <2> SUFFICES ASSUME NEW kept \in SUBSET Flights, AfterEvents(kept) PROVE AppOK
      OBVIOUS
    <2>1. EventsKept(app.store, kept) \in Store
      BY <1>4 DEF EventsKept, Store
    <2>2. PICK new \in Store : new = EventsKept(app.store, kept)
      BY <2>1
    <2>3. app' = [app EXCEPT !.pc = "batches", !.groups = {}, !.kept = kept, !.store = new]
      BY <2>2 DEF AfterEvents
    <2> QED
      BY <1>2, <2>3 DEF App
  <1>12. ASSUME NEW f \in Flights, PostEvents(f) PROVE UploadTypeOK'
    <2>1. app.groups \in SUBSET Flights
      BY <1>2 DEF App
    <2>2. [events |-> Group(f), batches |-> {}] \in Store
      BY <1>4 DEF Store, Group
    <2>3. AppOK
      <3>1. CASE app' = [app EXCEPT !.groups = @ \ {f}]
        BY <1>2, <3>1 DEF App
      <3> QED
        BY <1>11, <1>12, <2>1, <3>1 DEF PostEvents, Retained
    <2>4. LateOK
      BY <1>2, <1>12, <2>2 DEF PostEvents
    <2>5. RestOK
      BY <1>2, <1>6, <1>12 DEF PostEvents
    <2> QED
      BY <1>1, <1>2, <1>12, <2>3, <2>4, <2>5 DEF PostEvents, historyVars
  <1>13. CASE EventsDone
    BY <1>1, <1>2, <1>11, <1>13 DEF EventsDone, ingestVars, historyVars
  <1>14. Finish => AppOK
    <2> SUFFICES ASSUME Finish PROVE AppOK
      OBVIOUS
    <2>1. PICK new : new = [app.store EXCEPT !.batches = BatchesKept]
      OBVIOUS
    <2>2. new \in Store
      BY <1>4, <2>1 DEF Store, BatchesKept
    <2>3. app' = [app EXCEPT !.pc = "save", !.store = new]
      BY <2>1 DEF Finish
    <2> QED
      BY <1>2, <2>2, <2>3 DEF App
  <1>15. CASE PostBatch
    <2>1. PICK b \in Batches :
            /\ \/ app' = [app EXCEPT !.sent = @ \cup {b}]
               \/ Finish
            /\ late' = late \/ late' = late \cup {[events |-> {}, batches |-> {b}]}
      BY <1>15 DEF PostBatch
    <2>2. AppOK
      <3>1. CASE app' = [app EXCEPT !.sent = @ \cup {b}]
        BY <1>2, <3>1 DEF App
      <3> QED
        BY <1>14, <2>1, <3>1
    <2>3. LateOK
      BY <1>2, <2>1 DEF Store
    <2>4. RestOK
      BY <1>2, <1>6, <1>15 DEF PostBatch
    <2> QED
      BY <1>1, <1>2, <1>15, <2>2, <2>3, <2>4 DEF PostBatch
  <1>16. CASE BatchesDone
    BY <1>1, <1>2, <1>14, <1>16 DEF BatchesDone, ingestVars, historyVars
  <1>17. CASE Save
    BY <1>1, <1>2, <1>3, <1>4, <1>17 DEF Save, ingestVars, historyVars
  <1>18. CASE Arrive
    BY <1>1, <1>2, <1>18 DEF Arrive
  <1>19. CASE AppEnds
    <2>1. FileOK /\ RestOK /\ torn' \subseteq torn \cup Items(file) \cup Items(app.store)
      BY <1>2, <1>3, <1>6, <1>19 DEF AppEnds
    <2> QED
      BY <1>1, <1>2, <1>3, <1>4, <1>5, <1>19, <2>1 DEF AppEnds, ingestVars
  <1> QED
    BY <1>7, <1>8, <1>9, <1>10, <1>12, <1>13, <1>15, <1>16, <1>17, <1>18, <1>19
    DEF UploadNext, Enqueue, AppStep

(***************************************************************************)
(* What an operation does to its own copy of the backlog.                  *)
(***************************************************************************)
LEMMA Moves ==
    ASSUME UploadTypeOK
    PROVE  /\ \A kept : AfterEvents(kept) =>
                /\ app'.pc = "batches" /\ app'.sent = app.sent /\ app'.store.batches = app.store.batches
                /\ app'.store.events = {e \in app.store.events : flight[e] \in kept}
           /\ Finish =>
                /\ app'.pc = "save" /\ app'.sent = app.sent /\ app'.store.events = app.store.events
                /\ app'.store.batches = app.store.batches \ app.sent
           /\ WriteStore =>
                /\ app'.pc = "events" /\ app'.sent = app.sent /\ app'.store = app.store
                /\ app'.groups = {flight[e] : e \in app.store.events}
           /\ \A f : app' = [app EXCEPT !.groups = @ \ {f}] =>
                /\ app'.pc = app.pc /\ app'.sent = app.sent /\ app'.store = app.store
                /\ app'.groups = app.groups \ {f}
           /\ \A b : app' = [app EXCEPT !.sent = @ \cup {b}] =>
                /\ app'.pc = app.pc /\ app'.store = app.store /\ app'.sent = app.sent \cup {b}
           /\ Idle.pc = "idle" /\ Idle.store = NoStore /\ Idle.sent = {}
           /\ \A f : EnqueueEvent(f) =>
                /\ app'.pc = "store" /\ app'.sent = {} /\ app'.store.batches = file.batches
                /\ app'.store.events = file.events \cup {made.events + 1}
                /\ made'.events = made.events + 1 /\ made'.batches = made.batches
           /\ EnqueueBatch =>
                /\ app'.pc = "store" /\ app'.sent = {} /\ app'.store.events = file.events
                /\ app'.store.batches = file.batches \cup {made.batches + 1}
                /\ made'.batches = made.batches + 1 /\ made'.events = made.events
  <1>1. app \in App /\ app.store \in Store /\ file \in Store
    BY DEF UploadTypeOK, App
  <1>2. ASSUME NEW kept, AfterEvents(kept)
        PROVE  /\ app'.pc = "batches" /\ app'.sent = app.sent /\ app'.store.batches = app.store.batches
               /\ app'.store.events = {e \in app.store.events : flight[e] \in kept}
    <2>1. PICK new : new = EventsKept(app.store, kept)
      OBVIOUS
    <2>2. app' = [app EXCEPT !.pc = "batches", !.groups = {}, !.kept = kept, !.store = new]
      BY <1>2, <2>1 DEF AfterEvents
    <2>3. app'.pc = "batches" /\ app'.sent = app.sent /\ app'.store = new
      BY <1>1, <2>2 DEF App
    <2>4. new.batches = app.store.batches /\ new.events = {e \in app.store.events : flight[e] \in kept}
      BY <1>1, <2>1 DEF EventsKept, Store
    <2> QED
      BY <2>3, <2>4
  <1>3. ASSUME Finish
        PROVE  /\ app'.pc = "save" /\ app'.sent = app.sent /\ app'.store.events = app.store.events
               /\ app'.store.batches = app.store.batches \ app.sent
    <2>1. PICK new : new = [app.store EXCEPT !.batches = BatchesKept]
      OBVIOUS
    <2>2. app' = [app EXCEPT !.pc = "save", !.store = new]
      BY <1>3, <2>1 DEF Finish
    <2>3. app'.pc = "save" /\ app'.sent = app.sent /\ app'.store = new
      BY <1>1, <2>2 DEF App
    <2>4. new.events = app.store.events /\ new.batches = app.store.batches \ app.sent
      BY <1>1, <2>1 DEF BatchesKept, Store
    <2> QED
      BY <2>3, <2>4
  <1>4. ASSUME WriteStore
        PROVE  /\ app'.pc = "events" /\ app'.sent = app.sent /\ app'.store = app.store
               /\ app'.groups = {flight[e] : e \in app.store.events}
    <2>1. PICK gs : gs = {flight[e] : e \in app.store.events}
      OBVIOUS
    <2>2. app' = [app EXCEPT !.pc = "events", !.groups = gs]
      BY <1>4, <2>1 DEF WriteStore
    <2> QED
      BY <1>1, <2>1, <2>2 DEF App
  <1>5. \A f : app' = [app EXCEPT !.groups = @ \ {f}] =>
          /\ app'.pc = app.pc /\ app'.sent = app.sent /\ app'.store = app.store
          /\ app'.groups = app.groups \ {f}
    BY <1>1 DEF App
  <1>6. \A b : app' = [app EXCEPT !.sent = @ \cup {b}] =>
          /\ app'.pc = app.pc /\ app'.store = app.store /\ app'.sent = app.sent \cup {b}
    BY <1>1 DEF App
  <1>7. Idle.pc = "idle" /\ Idle.store = NoStore /\ Idle.sent = {}
    BY DEF Idle
  <1>8. ASSUME NEW f, EnqueueEvent(f)
        PROVE  /\ app'.pc = "store" /\ app'.sent = {} /\ app'.store.batches = file.batches
               /\ app'.store.events = file.events \cup {made.events + 1}
               /\ made'.events = made.events + 1 /\ made'.batches = made.batches
    <2>1. PICK new, e : e = made.events + 1 /\ new = [file EXCEPT !.events = @ \cup {e}]
      OBVIOUS
    <2>2. app' = [Idle EXCEPT !.pc = "store", !.store = new] /\ made' = [made EXCEPT !.events = e]
      BY <1>8, <2>1 DEF EnqueueEvent
    <2>3. app'.pc = "store" /\ app'.sent = {} /\ app'.store = new
      BY <2>2 DEF Idle
    <2>4. new.batches = file.batches /\ new.events = file.events \cup {e}
      BY <1>1, <2>1 DEF Store
    <2>5. made'.events = e /\ made'.batches = made.batches
      BY <2>2 DEF UploadTypeOK
    <2> QED
      BY <2>1, <2>3, <2>4, <2>5
  <1>9. ASSUME EnqueueBatch
        PROVE  /\ app'.pc = "store" /\ app'.sent = {} /\ app'.store.events = file.events
               /\ app'.store.batches = file.batches \cup {made.batches + 1}
               /\ made'.batches = made.batches + 1 /\ made'.events = made.events
    <2>1. PICK new, b : b = made.batches + 1 /\ new = [file EXCEPT !.batches = @ \cup {b}]
      OBVIOUS
    <2>2. app' = [Idle EXCEPT !.pc = "store", !.store = new] /\ made' = [made EXCEPT !.batches = b]
      BY <1>9, <2>1 DEF EnqueueBatch
    <2>3. app'.pc = "store" /\ app'.sent = {} /\ app'.store = new
      BY <2>2 DEF Idle
    <2>4. new.events = file.events /\ new.batches = file.batches \cup {b}
      BY <1>1, <2>1 DEF Store
    <2>5. made'.batches = b /\ made'.events = made.events
      BY <2>2 DEF UploadTypeOK
    <2> QED
      BY <2>1, <2>3, <2>4, <2>5
  <1> QED
    BY <1>2, <1>3, <1>4, <1>5, <1>6, <1>7, <1>8, <1>9

(***************************************************************************)
(* One step, seen from the backlog: what may happen to the file, the copy  *)
(* in memory and the tables together.                                      *)
(***************************************************************************)
Reporting ==
    /\ app = Idle /\ app'.pc = "store" /\ app'.sent = {}
    /\ \/ /\ made'.events = made.events + 1 /\ made'.batches = made.batches
          /\ app'.store.events = file.events \cup {made.events + 1} /\ app'.store.batches = file.batches
          /\ \A e \in Events : e # made.events + 1 => flight'[e] = flight[e]
       \/ /\ made'.batches = made.batches + 1 /\ made'.events = made.events
          /\ app'.store.events = file.events /\ app'.store.batches = file.batches \cup {made.batches + 1}
          /\ UNCHANGED flight
    /\ UNCHANGED <<file, late, stored, copies, queued, torn, unheard>>

Writing ==
    /\ app.pc = "store" /\ app'.pc = "events"
    /\ app'.store = app.store /\ app'.sent = app.sent /\ file' = app.store
    /\ \A e \in app.store.events : flight[e] \in app'.groups
    /\ queued' = queued \cup Items(app.store)
    /\ UNCHANGED <<flight, made, late, stored, copies, torn, unheard>>

Uploading ==
    /\ app.pc = "events" /\ app'.sent = app.sent
    /\ \E f :
         /\ \/ /\ stored' = Merged(Group(f)) /\ UNCHANGED late
               /\ app'.pc = "events" /\ app'.store = app.store /\ app'.groups = app.groups \ {f}
            \/ /\ app'.pc = "batches" /\ app'.store.batches = app.store.batches
               /\ app'.store.events = {e \in app.store.events : flight[e] \in app.groups}
               /\ stored' = stored \/ stored' = Merged(Group(f))
               /\ late' = late \/ late' = late \cup {[events |-> Group(f), batches |-> {}]}
    /\ UNCHANGED <<flight, made, file, copies, queued, torn, unheard>>

Sending ==
    /\ app.pc = "batches"
    /\ \/ \E b \in app.store.batches \ app.sent :
            \/ /\ copies' = Added(b) /\ UNCHANGED <<late, unheard>>
               /\ app'.pc = "batches" /\ app'.store = app.store /\ app'.sent = app.sent \cup {b}
            \/ /\ app'.pc = "save" /\ app'.sent = app.sent /\ app'.store.events = app.store.events
               /\ app'.store.batches = app.store.batches \ app.sent
               /\ \/ UNCHANGED <<late, copies, unheard>>
                  \/ copies' = Added(b) /\ unheard' = [unheard EXCEPT ![b] = @ + 1] /\ UNCHANGED late
                  \/ late' = late \cup {[events |-> {}, batches |-> {b}]} /\ UNCHANGED <<copies, unheard>>
       \/ /\ app'.pc = "save" /\ app'.sent = app.sent /\ app'.store.events = app.store.events
          /\ app'.store.batches = app.store.batches \ app.sent
          /\ UNCHANGED <<late, copies, unheard>>
    /\ UNCHANGED <<flight, made, file, stored, queued, torn>>

Ending ==
    /\ app' = Idle
    /\ \/ app.pc = "save" /\ file' = app.store /\ UNCHANGED <<unheard, torn>>
       \/ /\ UNCHANGED <<file, torn>> \/ (file' = NoStore /\ torn' = torn \cup Items(file) \cup Items(app.store))
          /\ unheard' = [b \in Batches |-> IF b \in app.sent THEN unheard[b] + 1 ELSE unheard[b]]
    /\ UNCHANGED <<flight, made, late, stored, copies, queued>>

Arriving ==
    /\ \E r \in late :
         /\ late' = late \ {r}
         /\ \/ UNCHANGED <<stored, copies, unheard>>
            \/ /\ stored' = Merged(r.events)
               /\ copies' = [b \in Batches |-> IF b \in r.batches THEN copies[b] + 1 ELSE copies[b]]
               /\ unheard' = [b \in Batches |-> IF b \in r.batches THEN unheard[b] + 1 ELSE unheard[b]]
    /\ UNCHANGED <<flight, made, file, app, queued, torn>>

Resting == UNCHANGED <<flight, made, file, app, late, stored, copies, queued, torn, unheard>>

LEMMA UploadActs ==
    ASSUME UploadTypeOK, [UploadNext]_uploadVars
    PROVE  Reporting \/ Writing \/ Uploading \/ Sending \/ Ending \/ Arriving \/ Resting
  <1>1. CASE UNCHANGED uploadVars
    BY <1>1 DEF uploadVars, ingestVars, historyVars, Resting
  <1>2. ASSUME NEW f \in Flights, EnqueueEvent(f) PROVE Reporting
    <2>1. \A e \in Events : e # made.events + 1 => flight'[e] = flight[e]
      BY <1>2 DEF EnqueueEvent, UploadTypeOK
    <2>2. /\ app'.pc = "store" /\ app'.sent = {} /\ app'.store.batches = file.batches
          /\ app'.store.events = file.events \cup {made.events + 1}
          /\ made'.events = made.events + 1 /\ made'.batches = made.batches
      BY <1>2, Moves
    <2> QED
      BY <1>2, <2>1, <2>2 DEF EnqueueEvent, ingestVars, historyVars, Reporting
  <1>3. CASE EnqueueBatch
    <2>1. /\ app'.pc = "store" /\ app'.sent = {} /\ app'.store.events = file.events
          /\ app'.store.batches = file.batches \cup {made.batches + 1}
          /\ made'.batches = made.batches + 1 /\ made'.events = made.events
      BY <1>3, Moves
    <2> QED
      BY <1>3, <2>1 DEF EnqueueBatch, ingestVars, historyVars, Reporting
  <1>4. CASE WriteStore
    <2>1. /\ app'.pc = "events" /\ app'.sent = app.sent /\ app'.store = app.store
          /\ app'.groups = {flight[e] : e \in app.store.events}
      BY <1>4, Moves
    <2> QED
      BY <1>4, <2>1 DEF WriteStore, ingestVars, Writing
  <1>5. ASSUME NEW f \in Flights, PostEvents(f) PROVE Uploading
    <2>1. CASE stored' = Merged(Group(f)) /\ app' = [app EXCEPT !.groups = @ \ {f}] /\ UNCHANGED <<late, troubles>>
      <3>1. /\ app'.pc = app.pc /\ app'.sent = app.sent /\ app'.store = app.store
            /\ app'.groups = app.groups \ {f}
        BY <2>1, Moves
      <3> QED
        BY <1>5, <2>1, <3>1 DEF PostEvents, historyVars, Uploading
    <2>2. CASE AfterEvents(Retained(f))
      <3>1. /\ app'.pc = "batches" /\ app'.sent = app.sent /\ app'.store.batches = app.store.batches
            /\ app'.store.events = {e \in app.store.events : flight[e] \in Retained(f)}
        BY <2>2, Moves
      <3>2. /\ stored' = stored \/ stored' = Merged(Group(f))
            /\ late' = late \/ late' = late \cup {[events |-> Group(f), batches |-> {}]}
        BY <1>5 DEF PostEvents
      <3> QED
        BY <1>5, <3>1, <3>2 DEF PostEvents, historyVars, Uploading, Retained
    <2> QED
      BY <1>5, <2>1, <2>2 DEF PostEvents
  <1>6. CASE EventsDone
    <2>1. /\ app'.pc = "batches" /\ app'.sent = app.sent /\ app'.store.batches = app.store.batches
          /\ app'.store.events = {e \in app.store.events : flight[e] \in {}}
      BY <1>6, Moves DEF EventsDone
    <2> QED
      BY <1>6, <2>1 DEF EventsDone, ingestVars, historyVars, Uploading
  <1>7. Finish => /\ app'.pc = "save" /\ app'.sent = app.sent /\ app'.store.events = app.store.events
                  /\ app'.store.batches = app.store.batches \ app.sent
    BY Moves
  <1>8. CASE PostBatch
    <2>1. PICK b \in Batches :
            /\ NextBatch(b)
            /\ \/ /\ copies' = Added(b)
                  /\ app' = [app EXCEPT !.sent = @ \cup {b}]
                  /\ UNCHANGED <<late, unheard, troubles>>
               \/ /\ Finish
                  /\ \/ UNCHANGED <<late, copies, unheard>>
                     \/ copies' = Added(b) /\ unheard' = [unheard EXCEPT ![b] = @ + 1] /\ UNCHANGED late
                     \/ late' = late \cup {[events |-> {}, batches |-> {b}]} /\ UNCHANGED <<copies, unheard>>
      BY <1>8 DEF PostBatch
    <2>2. b \in app.store.batches \ app.sent
      BY <2>1 DEF NextBatch
    <2>3. app' = [app EXCEPT !.sent = @ \cup {b}] =>
            app'.pc = app.pc /\ app'.store = app.store /\ app'.sent = app.sent \cup {b}
      BY Moves
    <2> QED
      BY <1>7, <1>8, <2>1, <2>2, <2>3 DEF PostBatch, Sending
  <1>9. CASE BatchesDone
    BY <1>7, <1>9 DEF BatchesDone, ingestVars, historyVars, Sending
  <1>10. CASE Save
    BY <1>10 DEF Save, ingestVars, historyVars, Ending
  <1>11. CASE Arrive
    BY <1>11 DEF Arrive, Arriving
  <1>12. CASE AppEnds
    BY <1>12 DEF AppEnds, ingestVars, Ending
  <1> QED
    BY <1>1, <1>2, <1>3, <1>4, <1>5, <1>6, <1>8, <1>9, <1>10, <1>11, <1>12 DEF UploadNext, Enqueue, AppStep

-----------------------------------------------------------------------------
(***************************************************************************)
(* Typed values that the steps below compare.                              *)
(***************************************************************************)
LEMMA UploadValues ==
    ASSUME UploadTypeOK
    PROVE  /\ file.events \subseteq Events /\ file.batches \subseteq Batches
           /\ app.store.events \subseteq Events /\ app.store.batches \subseteq Batches
           /\ app.sent \subseteq Batches
           /\ made.events \in Nat /\ made.batches \in Nat
           /\ \A r \in late : r.events \subseteq Events /\ r.batches \subseteq Batches
           /\ Events \subseteq Nat /\ Batches \subseteq Nat
  <1>1. app.store \in Store /\ app.sent \subseteq Batches
    BY DEF UploadTypeOK, App
  <1> QED
    BY <1>1, Counts DEF UploadTypeOK, Store, Events, Batches

LEMMA MergedHas ==
    ASSUME UploadTypeOK, NEW es, NEW e \in Events
    PROVE  Merged(es)[e] > 0 <=> e \in es \/ stored[e] > 0
  BY DEF Merged, UploadTypeOK

LEMMA WorkStep ==
    ASSUME UploadInv, [UploadNext]_uploadVars
    PROVE  WorkInv'
  <1> UploadTypeOK /\ WorkInv /\ UploadTypeOK'
    BY UploadTypeStep DEF UploadInv
  <1>1. /\ \A e \in Events : EventIn(e) => EventIn(e)'
        /\ \A b \in Batches : BatchIn(b) => BatchIn(b)'
    <2>1. \A b \in Batches : copies[b] \in Nat /\ copies'[b] \in Nat
      BY DEF UploadTypeOK
    <2> QED
      BY <2>1, TablesGrow DEF EventIn, BatchIn
  <1>2. /\ file.events \subseteq Events /\ file.batches \subseteq Batches
        /\ app.store.events \subseteq Events /\ app.store.batches \subseteq Batches /\ app.sent \subseteq Batches
    BY UploadValues
  <1>3. CASE Reporting
    <2>1. app'.pc = "store" /\ app'.sent = {} /\ file.events \subseteq app'.store.events
          /\ file.batches \subseteq app'.store.batches /\ file' = file
      BY <1>3 DEF Reporting
    <2> QED
      BY <2>1 DEF WorkInv
  <1>4. CASE Writing
    BY <1>1, <1>2, <1>4 DEF Writing, WorkInv
  <1>5. CASE Uploading
    <2>1. PICK f :
            \/ /\ stored' = Merged(Group(f))
               /\ app'.pc = "events" /\ app'.store = app.store /\ app'.groups = app.groups \ {f}
            \/ /\ app'.pc = "batches" /\ app'.store.batches = app.store.batches
               /\ app'.store.events = {e \in app.store.events : flight[e] \in app.groups}
      BY <1>5 DEF Uploading
    <2>2. /\ app.pc = "events" /\ app.store = file /\ app'.sent = app.sent /\ file' = file /\ flight' = flight
          /\ \A e \in app.store.events : flight[e] \in app.groups \/ EventIn(e)
          /\ \A b \in app.sent : BatchIn(b)
      BY <1>5 DEF Uploading, WorkInv
    <2>3. CASE stored' = Merged(Group(f)) /\ app'.pc = "events" /\ app'.store = app.store /\ app'.groups = app.groups \ {f}
      <3>1. \A e \in app.store.events : flight[e] = f => EventIn(e)'
        BY <1>2, <2>3, MergedHas DEF Group, EventIn
      <3> QED
        BY <1>1, <1>2, <2>2, <2>3, <3>1 DEF WorkInv
    <2>4. CASE /\ app'.pc = "batches" /\ app'.store.batches = app.store.batches
               /\ app'.store.events = {e \in app.store.events : flight[e] \in app.groups}
      BY <1>1, <1>2, <2>2, <2>4 DEF WorkInv
    <2> QED
      BY <2>1, <2>3, <2>4
  <1>6. CASE Sending
    <2>1. /\ app.pc = "batches" /\ file' = file /\ app'.store.events = app.store.events
          /\ app'.pc \in {"batches", "save"}
          /\ app'.store.batches = app.store.batches \/ app'.store.batches = app.store.batches \ app.sent
      BY <1>6 DEF Sending
    <2>2. app'.sent = app.sent \/ \E b \in Batches : app'.sent = app.sent \cup {b} /\ copies' = Added(b)
      BY <1>2, <1>6 DEF Sending
    <2>3. \A b \in app'.sent : BatchIn(b)'
      BY <1>1, <1>2, <2>2 DEF WorkInv, Added, BatchIn, UploadTypeOK
    <2> QED
      BY <1>1, <1>2, <2>1, <2>3 DEF WorkInv
  <1>7. CASE Ending
    BY <1>7 DEF Ending, Idle, WorkInv
  <1>8. CASE Arriving \/ Resting
    BY <1>1, <1>2, <1>8 DEF Arriving, Resting, WorkInv
  <1> QED
    BY UploadActs, <1>3, <1>4, <1>5, <1>6, <1>7, <1>8

LEMMA ReportedStep ==
    ASSUME UploadInv, [UploadNext]_uploadVars
    PROVE  ReportedInv'
  <1> UploadTypeOK /\ WorkInv /\ ReportedInv /\ UploadTypeOK'
    BY UploadTypeStep DEF UploadInv
  <1>1. /\ file.events \subseteq Events /\ file.batches \subseteq Batches
        /\ app.store.events \subseteq Events /\ app.store.batches \subseteq Batches
        /\ \A r \in late : r.events \subseteq Events /\ r.batches \subseteq Batches
        /\ made.events \in Nat /\ made.batches \in Nat /\ Events \subseteq Nat /\ Batches \subseteq Nat
    BY UploadValues
  <1> USE DEF Reported
  <1>2. CASE Reporting
    <2>1. /\ made'.events >= made.events /\ made'.batches >= made.batches
          /\ made'.events \in Nat /\ made'.batches \in Nat
          /\ \A e \in app'.store.events : e \in file.events \/ e = made'.events
          /\ \A b \in app'.store.batches : b \in file.batches \/ b = made'.batches
      BY <1>1, <1>2 DEF Reporting
    <2>2. UNCHANGED <<file, late, stored, copies, queued>> /\ app'.pc = "store"
      BY <1>2 DEF Reporting
    <2>3. /\ \A e \in Events : e <= made.events => e <= made'.events
          /\ \A b \in Batches : b <= made.batches => b <= made'.batches
      <3>1. ASSUME NEW x \in Nat, NEW y \in Nat, NEW z \in Nat, x <= y, y <= z PROVE x <= z
        BY <3>1
      <3> QED
        BY <1>1, <2>1, <3>1
    <2>4. \A r \in late : \A e \in r.events : e <= made'.events
      BY <1>1, <2>3 DEF ReportedInv
    <2>5. \A r \in late : \A b \in r.batches : b <= made'.batches
      BY <1>1, <2>3 DEF ReportedInv
    <2>6. /\ \A e \in file.events : e <= made'.events
          /\ \A b \in file.batches : b <= made'.batches
      BY <1>1, <2>3 DEF ReportedInv
    <2>7. /\ \A e \in app'.store.events : e <= made'.events
          /\ \A b \in app'.store.batches : b <= made'.batches
      BY <2>1, <2>6
    <2> QED
      BY <2>1, <2>2, <2>3, <2>4, <2>5, <2>6, <2>7 DEF ReportedInv
  <1>3. CASE Writing
    <2>1. /\ file' = app.store /\ app'.store = app.store /\ app'.pc = "events"
          /\ queued' = queued \cup Items(app.store)
          /\ UNCHANGED <<made, late, stored, copies>>
      BY <1>3 DEF Writing
    <2>2. \A e \in Events : <<"event", e>> \in queued' <=> <<"event", e>> \in queued \/ e \in app.store.events
      BY <2>1 DEF Items
    <2>3. \A e \in Events : stored[e] > 0 \/ <<"event", e>> \in queued' => e <= made.events
      BY <2>2 DEF ReportedInv
    <2>4. \A e \in app.store.events : <<"event", e>> \in queued'
      BY <1>1, <2>2
    <2>5. Reported(app.store) /\ (\A r \in late : Reported(r)) /\ \A b \in Batches : copies[b] > 0 => b <= made.batches
      BY DEF ReportedInv
    <2> QED
      BY <2>1, <2>3, <2>4, <2>5 DEF ReportedInv
  <1>4. CASE Uploading
    <2>1. /\ app.pc = "events" /\ UNCHANGED <<made, file, copies, queued>> /\ app'.pc # "store"
          /\ app'.store.events \subseteq app.store.events /\ app'.store.batches \subseteq app.store.batches
      BY <1>4 DEF Uploading
    <2>2. PICK f : /\ stored' = stored \/ stored' = Merged(Group(f))
                   /\ late' = late \/ late' = late \cup {[events |-> Group(f), batches |-> {}]}
      BY <1>4 DEF Uploading
    <2>3. Group(f) \subseteq app.store.events
      BY DEF Group
    <2>4. \A r \in late' : Reported(r)
      BY <2>2, <2>3 DEF ReportedInv
    <2>5. \A e \in Events : stored'[e] > 0 => e <= made.events
      BY <2>2, <2>3, MergedHas DEF ReportedInv
    <2> QED
      BY <1>1, <2>1, <2>4, <2>5 DEF ReportedInv
  <1>5. CASE Sending
    <2>1. /\ app.pc = "batches" /\ UNCHANGED <<made, file, stored, queued>> /\ app'.pc # "store"
          /\ app'.store.events = app.store.events /\ app'.store.batches \subseteq app.store.batches
      BY <1>5 DEF Sending
    <2>2. \/ UNCHANGED <<late, copies>>
          \/ \E b \in app.store.batches :
                \/ copies' = Added(b) /\ UNCHANGED late
                \/ UNCHANGED copies /\ late' = late \cup {[events |-> {}, batches |-> {b}]}
      BY <1>5 DEF Sending
    <2>3. (\A r \in late' : Reported(r)) /\ \A b \in Batches : copies'[b] > 0 => b <= made.batches
      BY <1>1, <2>2 DEF ReportedInv, Added, UploadTypeOK
    <2> QED
      BY <1>1, <2>1, <2>3 DEF ReportedInv
  <1>6. CASE Ending
    <2>1. /\ app' = Idle /\ UNCHANGED <<made, late, stored, copies, queued>>
          /\ file' \in {file, NoStore} \/ (app.pc = "save" /\ file' = app.store)
      BY <1>6 DEF Ending
    <2>2. app'.pc = "idle" /\ app'.store.events = {} /\ app'.store.batches = {}
      BY <2>1 DEF Idle, NoStore
    <2> QED
      BY <1>1, <2>1, <2>2 DEF ReportedInv, NoStore
  <1>7. CASE Arriving
    <2>1. PICK r \in late :
            /\ late' = late \ {r}
            /\ \/ UNCHANGED <<stored, copies>>
               \/ /\ stored' = Merged(r.events)
                  /\ copies' = [b \in Batches |-> IF b \in r.batches THEN copies[b] + 1 ELSE copies[b]]
      BY <1>7 DEF Arriving
    <2>2. \A e \in Events : stored'[e] > 0 => e <= made.events
      BY <2>1, MergedHas DEF ReportedInv
    <2>3. \A b \in Batches : copies'[b] > 0 => b <= made.batches
      BY <2>1 DEF ReportedInv
    <2> QED
      BY <1>7, <2>1, <2>2, <2>3 DEF ReportedInv, Arriving
  <1>8. CASE Resting
    BY <1>8 DEF Resting, ReportedInv
  <1> QED
    BY UploadActs, <1>2, <1>3, <1>4, <1>5, <1>6, <1>7, <1>8

LEMMA BacklogStep ==
    ASSUME UploadInv, [UploadNext]_uploadVars
    PROVE  BacklogInv'
  <1> UploadTypeOK /\ WorkInv /\ BacklogInv /\ UploadTypeOK'
    BY UploadTypeStep DEF UploadInv
  <1>1. /\ \A e \in Events : EventIn(e) => EventIn(e)'
        /\ \A b \in Batches : BatchIn(b) => BatchIn(b)'
    <2>1. \A b \in Batches : copies[b] \in Nat /\ copies'[b] \in Nat
      BY DEF UploadTypeOK
    <2> QED
      BY <2>1, TablesGrow DEF EventIn, BatchIn
  <1>2. /\ file.events \subseteq Events /\ file.batches \subseteq Batches
        /\ app.store.events \subseteq Events /\ app.store.batches \subseteq Batches
    BY UploadValues
  <1>3. CASE Writing
    <2>1. app.pc = "store" /\ file' = app.store /\ queued' = queued \cup Items(app.store) /\ torn' = torn
      BY <1>3 DEF Writing
    <2>2. /\ \A e \in Events : <<"event", e>> \in queued' => <<"event", e>> \in queued \/ e \in app.store.events
          /\ \A b \in Batches : <<"batch", b>> \in queued' => <<"batch", b>> \in queued \/ b \in app.store.batches
      BY <2>1 DEF Items
    <2>3. queued' \subseteq ({"event"} \X Events) \cup ({"batch"} \X Batches)
      BY <1>2, <2>1 DEF Items, BacklogInv
    <2> QED
      BY <1>1, <1>2, <2>1, <2>2, <2>3 DEF WorkInv, BacklogInv
  <1>4. CASE Ending
    <2>1. CASE app.pc = "save" /\ file' = app.store /\ UNCHANGED <<torn, queued>>
      BY <1>1, <1>2, <2>1 DEF WorkInv, BacklogInv
    <2>2. CASE file' = NoStore /\ torn' = torn \cup Items(file) \cup Items(app.store) /\ UNCHANGED queued
      <3>1. /\ \A e \in file.events : <<"event", e>> \in torn'
            /\ \A b \in file.batches : <<"batch", b>> \in torn'
        BY <2>2 DEF Items
      <3> QED
        BY <1>1, <2>2, <3>1 DEF BacklogInv, NoStore
    <2>3. CASE UNCHANGED <<file, torn, queued>>
      BY <1>1, <2>3 DEF BacklogInv
    <2> QED
      BY <1>4, <2>1, <2>2, <2>3 DEF Ending
  <1>5. CASE Reporting \/ Uploading \/ Sending \/ Arriving \/ Resting
    BY <1>1, <1>5 DEF Reporting, Uploading, Sending, Arriving, Resting, BacklogInv
  <1> QED
    BY UploadActs, <1>3, <1>4, <1>5

LEMMA OrderStep ==
    ASSUME UploadInv, [UploadNext]_uploadVars
    PROVE  OrderInv'
  <1> UploadTypeOK /\ WorkInv /\ ReportedInv /\ BacklogInv /\ OrderInv
    BY DEF UploadInv
  <1>1. \A e \in Events : EventIn(e) => EventIn(e)'
    BY TablesGrow DEF EventIn
  <1>2. /\ file.events \subseteq Events /\ app.store.events \subseteq Events
        /\ made.events \in Nat /\ Events \subseteq Nat /\ \A r \in late : r.events \subseteq Events
    BY UploadValues
  <1>3. CASE UNCHANGED stored /\ late' \subseteq late /\ (\A d, e \in Events : (EventIn(e) \/ \E r \in late : e \in r.events) /\ Before(d, e)' => Before(d, e))
    BY <1>1, <1>2, <1>3 DEF OrderInv, EventIn
  <1>4. \A e \in Events : EventIn(e) \/ (\E r \in late : e \in r.events) => e <= made.events
    BY DEF ReportedInv, Reported, EventIn
  <1>5. CASE Reporting
    <2>1. /\ \A e \in Events : e <= made.events => flight'[e] = flight[e]
          /\ UNCHANGED <<stored, late, queued, torn>>
      BY <1>2, <1>5 DEF Reporting
    <2>2. \A d \in Events : <<"event", d>> \in queued => d <= made.events
      BY DEF ReportedInv
    <2> QED
      BY <1>3, <1>4, <2>1, <2>2 DEF Before
  <1>6. CASE Writing
    <2>1. app.pc = "store" /\ UNCHANGED <<stored, late, flight, torn>> /\ queued' = queued \cup Items(app.store)
      BY <1>6 DEF Writing
    <2>2. \A d \in Events : <<"event", d>> \in queued' => <<"event", d>> \in queued \/ d = made.events
      BY <2>1 DEF Items, ReportedInv
    <2>3. ASSUME NEW d \in Events, NEW e \in Events, e <= made.events, Before(d, e)'
          PROVE  Before(d, e)
      BY <1>2, <2>1, <2>2, <2>3 DEF Before
    <2> QED
      BY <1>3, <1>4, <2>1, <2>3
  <1>7. CASE Ending \/ Sending \/ Resting
    <2>1. UNCHANGED <<stored, flight, queued>> /\ torn \subseteq torn'
      BY <1>7 DEF Ending, Sending, Resting
    <2>2. \A d, e \in Events : Before(d, e)' => Before(d, e)
      BY <2>1 DEF Before
    <2>3. \A r \in late' : r \in late \/ r.events = {}
      BY <1>7 DEF Ending, Sending, Resting
    <2> QED
      BY <1>1, <1>2, <2>1, <2>2, <2>3 DEF OrderInv, EventIn
  <1>8. CASE Arriving
    <2>1. UNCHANGED <<flight, queued, torn>>
      BY <1>8 DEF Arriving
    <2>2. PICK r \in late : late' = late \ {r} /\ (stored' = stored \/ stored' = Merged(r.events))
      BY <1>8 DEF Arriving
    <2>3. \A d, e \in Events : Before(d, e)' <=> Before(d, e)
      BY <2>1 DEF Before
    <2>4. ASSUME NEW d \in Events, NEW e \in Events, Before(d, e), EventIn(e)'
          PROVE  EventIn(d)'
      BY <1>1, <2>2, <2>4, MergedHas DEF OrderInv, EventIn
    <2> QED
      BY <1>1, <1>2, <2>2, <2>3, <2>4 DEF OrderInv
  <1>9. CASE Uploading
    <2>1. UNCHANGED <<flight, queued, torn>> /\ app.pc = "events"
      BY <1>9 DEF Uploading
    <2>2. PICK f : /\ stored' = stored \/ stored' = Merged(Group(f))
                   /\ late' = late \/ late' = late \cup {[events |-> Group(f), batches |-> {}]}
      BY <1>9 DEF Uploading
    <2>3. \A d, e \in Events : Before(d, e)' <=> Before(d, e)
      BY <2>1 DEF Before
    <2>4. ASSUME NEW d \in Events, NEW e \in Group(f), Before(d, e)
          PROVE  d \in Group(f) \/ EventIn(d)
      BY <2>1, <2>4 DEF Before, Group, BacklogInv, WorkInv
    <2>5. Group(f) \subseteq Events
      BY <1>2 DEF Group
    <2>6. ASSUME NEW d \in Events, NEW e \in Events, Before(d, e), EventIn(e)'
          PROVE  EventIn(d)'
      BY <1>1, <2>2, <2>4, <2>6, MergedHas DEF OrderInv, EventIn
    <2>7. ASSUME NEW r \in late', NEW e \in r.events, NEW d \in Events, Before(d, e)
          PROVE  d \in r.events \/ EventIn(d)'
      <3>1. CASE r \in late
        BY <1>1, <2>7, <3>1 DEF OrderInv
      <3>2. CASE r.events = Group(f)
        BY <1>1, <2>4, <2>7, <3>2
      <3> QED
        BY <2>2, <3>1, <3>2
    <2>8. \A r \in late' : r.events \subseteq Events
      BY <1>2, <2>2, <2>5
    <2> QED
      BY <2>3, <2>6, <2>7, <2>8 DEF OrderInv
  <1> QED
    BY UploadActs, <1>5, <1>6, <1>7, <1>8, <1>9

LEMMA RetryStep ==
    ASSUME UploadInv, [UploadNext]_uploadVars
    PROVE  RetryInv'
  <1> UploadTypeOK /\ WorkInv /\ ReportedInv /\ RetryInv
    BY DEF UploadInv
  <1>1. \A b \in Batches : copies[b] \in Nat /\ unheard[b] \in Nat
    BY DEF UploadTypeOK
  <1>2. /\ file.batches \subseteq Batches /\ app.store.batches \subseteq Batches /\ app.sent \subseteq Batches
        /\ made.batches \in Nat /\ Batches \subseteq Nat
    BY UploadValues
  <1>3. CASE Reporting
    <2>1. /\ app'.pc = "store" /\ app'.sent = {} /\ UNCHANGED <<file, copies, unheard>>
          /\ app.sent = {} /\ \A b \in app'.store.batches : b \in file.batches \/ b = made.batches + 1
      BY <1>3 DEF Reporting, Idle
    <2>2. \A b \in Batches : b = made.batches + 1 => copies[b] = 0
      BY <1>1, <1>2 DEF ReportedInv
    <2>3. ASSUME NEW b \in Batches, b \in file.batches \/ b = made.batches + 1
          PROVE  copies[b] <= unheard[b]
      BY <1>1, <2>1, <2>2, <2>3 DEF RetryInv
    <2> QED
      BY <1>2, <2>1, <2>3 DEF RetryInv
  <1>4. CASE Writing
    BY <1>4 DEF Writing, RetryInv
  <1>5. CASE Uploading
    <2>1. /\ UNCHANGED <<file, copies, unheard>> /\ app'.sent = app.sent
          /\ app'.store.batches = app.store.batches /\ app'.pc # "save"
      BY <1>5 DEF Uploading
    <2> QED
      BY <2>1 DEF RetryInv
  <1>6. CASE Sending
    <2>1. file' = file
      BY <1>6 DEF Sending
    <2>2. ASSUME NEW b \in app.store.batches \ app.sent, copies' = Added(b), UNCHANGED unheard,
                 app'.pc = "batches", app'.store = app.store, app'.sent = app.sent \cup {b}
          PROVE  RetryInv'
      BY <1>1, <1>2, <2>1, <2>2 DEF RetryInv, Added, UploadTypeOK
    <2>3. ASSUME NEW b \in app.store.batches \ app.sent, copies' = Added(b), unheard' = [unheard EXCEPT ![b] = @ + 1],
                 app'.sent = app.sent, app'.store.batches = app.store.batches \ app.sent
          PROVE  RetryInv'
      BY <1>1, <1>2, <2>1, <2>3 DEF RetryInv, Added, UploadTypeOK
    <2>4. ASSUME UNCHANGED <<copies, unheard>>, app'.sent = app.sent,
                 app'.store.batches = app.store.batches \ app.sent
          PROVE  RetryInv'
      BY <1>1, <1>2, <2>1, <2>4 DEF RetryInv
    <2> QED
      BY <1>6, <2>2, <2>3, <2>4 DEF Sending
  <1>7. CASE Ending
    <2>1. app' = Idle /\ app'.store.batches = {} /\ app'.sent = {} /\ app'.pc = "idle" /\ copies' = copies
      BY <1>7 DEF Ending, Idle, NoStore
    <2>2. CASE app.pc = "save" /\ file' = app.store /\ UNCHANGED unheard
      BY <1>1, <1>2, <2>1, <2>2 DEF RetryInv
    <2>3. CASE /\ UNCHANGED file \/ file' = NoStore
               /\ unheard' = [b \in Batches |-> IF b \in app.sent THEN unheard[b] + 1 ELSE unheard[b]]
      <3>1. file'.batches \subseteq file.batches
        BY <2>3 DEF NoStore
      <3>2. \A b \in Batches : unheard'[b] = IF b \in app.sent THEN unheard[b] + 1 ELSE unheard[b]
        BY <2>3
      <3> QED
        BY <1>1, <1>2, <2>1, <3>1, <3>2 DEF RetryInv
    <2> QED
      BY <1>7, <2>2, <2>3 DEF Ending
  <1>8. CASE Arriving
    <2>1. UNCHANGED <<file, app>>
      BY <1>8 DEF Arriving
    <2>2. \A b \in Batches :
            \/ copies'[b] = copies[b] /\ unheard'[b] = unheard[b]
            \/ copies'[b] = copies[b] + 1 /\ unheard'[b] = unheard[b] + 1
      BY <1>8 DEF Arriving
    <2> QED
      BY <1>1, <2>1, <2>2 DEF RetryInv
  <1>9. CASE Resting
    BY <1>9 DEF Resting, RetryInv
  <1> QED
    BY UploadActs, <1>3, <1>4, <1>5, <1>6, <1>7, <1>8, <1>9

LEMMA UploadAlwaysInv == UploadSpec => []UploadInv
  <1>1. UploadInv /\ [UploadNext]_uploadVars => UploadInv'
    BY UploadTypeStep, WorkStep, ReportedStep, BacklogStep, OrderStep, RetryStep DEF UploadInv
  <1> QED
    BY UploadInvInit, <1>1, PTL DEF UploadSpec

-----------------------------------------------------------------------------
(***************************************************************************)
(* The backlog lets go of an item only when the server has it, for any     *)
(* number of flights, items and troubles: an item whose enqueue wrote the  *)
(* file is in the file or at the server, or went with a half-written file. *)
(* (FlightUploadRepository.kt, enqueue and flushLocked)                    *)
(***************************************************************************)
THEOREM BacklogKeeps == UploadSpec => []NothingLost
  <1>1. UploadInv => NothingLost
    BY DEF UploadInv, BacklogInv, NothingLost, Items, Arrived, EventIn, BatchIn
  <1> QED
    BY UploadAlwaysInv, <1>1, PTL

(***************************************************************************)
(* No later event of a flight overtakes an earlier one, not even in a      *)
(* request that arrives long after the app gave it up.                     *)
(***************************************************************************)
THEOREM EventsInOrder == UploadSpec => []OrderKept
  <1>1. UploadInv => OrderKept
    BY DEF UploadInv, OrderInv, OrderKept, EventIn, Before
  <1> QED
    BY UploadAlwaysInv, <1>1, PTL

(***************************************************************************)
(* A telemetry batch has more than one row only by as many acceptances as  *)
(* the app could not note.                                                 *)
(***************************************************************************)
THEOREM CopiesExplained == UploadSpec => []CopiesAreRetries
  <1>1. UploadInv => CopiesAreRetries
    BY DEF UploadInv, RetryInv, CopiesAreRetries
  <1> QED
    BY UploadAlwaysInv, <1>1, PTL

-----------------------------------------------------------------------------
(***************************************************************************)
(* The cache, as long as no syncs overlap and none is cut while it         *)
(* installs: one sync at a time and none after a logout; what it has       *)
(* staged, set aside and installed; and otherwise the good bundle.         *)
(***************************************************************************)
Kept(dir) ==
    \/ held = NoBuild /\ ~dir.there
    \/ /\ dir.there /\ held \in Builds /\ dir.manifest = held
       /\ dir.paths = "active" /\ held \in dir.kmz /\ dir.meta = held

Holds(dir, b) == b \in dir.kmz /\ dir.meta = b

ServerInv ==
    /\ \A m \in Missions : dispatch[m] # "none" => response[m] \in Builds
    /\ \A t \in Threads : web[t].at # "idle" => web[t].build \in Builds
    /\ \A s \in Syncs : sync[s].at \notin {"idle", "ask"} => sync[s].build \in Builds

OneSync == \A s, o \in Syncs : sync[s].at # "idle" /\ sync[o].at # "idle" => s = o
NoneAfterLogout == user # "in" => \A s \in Syncs : sync[s].at = "idle"
Staged ==
    \A s \in Syncs :
        /\ sync[s].at \in {"manifest", "aside", "install"} /\ staging[Target(s)].there
             => Holds(staging[Target(s)], sync[s].build)
        /\ sync[s].at = "install" => Kept(backup)
        /\ sync[s].at = "finish" => active.there /\ Holds(active, sync[s].build)

CacheInv == OneSync /\ NoneAfterLogout /\ Staged /\ (~Installing => Kept(active))

DeliveryInv == DeliveryTypeOK /\ ServerInv /\ (~disturbed => CacheInv)

-----------------------------------------------------------------------------
LEMMA DeliveryValues ==
    ASSUME DeliveryTypeOK
    PROVE  /\ MaxFaults \in Nat /\ NoBuild \notin Builds
           /\ \A b \in Builds : missionOf[b] \in Missions
           /\ \A k : Fault(k) => faults' \in 0 .. MaxFaults
           /\ Missing \in Directory /\ Empty \in Directory /\ NoWork \in Work /\ NoSync \in Sync
           /\ NoBundle \in Bundle
  <1>1. MaxFaults \in Nat /\ NoBuild \notin Builds /\ \A b \in Builds : missionOf[b] \in Missions
    BY DeliveryAssumption
  <1>2. \A k : Fault(k) => faults' \in 0 .. MaxFaults
    BY <1>1 DEF Fault, DeliveryTypeOK
  <1>3. Missing \in Directory /\ Empty \in Directory
    BY DEF Missing, Empty, Directory, BuildOrNone
  <1>4. NoWork \in Work /\ NoSync \in Sync /\ NoBundle \in Bundle
    BY DEF NoWork, Work, NoSync, Sync, NoBundle, Bundle, BuildOrNone
  <1> QED
    BY <1>1, <1>2, <1>3, <1>4

LEMMA DeliveryInvInit == Init => DeliveryInv
  <1> SUFFICES ASSUME Init PROVE DeliveryInv
    OBVIOUS
  <1>1. Cardinality(Missions) \in Nat
    BY DeliveryAssumption, FS_CardinalityType
  <1>2. /\ Missing \in Directory /\ NoWork \in Work /\ NoSync \in Sync /\ NoBundle \in Bundle
        /\ 0 \in 0 .. MaxFaults
    BY DeliveryAssumption DEF Missing, Directory, NoWork, Work, NoSync, Sync, NoBundle, Bundle, BuildOrNone
  <1>3. rank \in [Missions -> Nat]
    BY <1>1 DEF Init
  <1>4. DeliveryTypeOK
    BY <1>2, <1>3 DEF Init, DeliveryTypeOK, BuildOrNone
  <1>5. ServerInv
    BY DEF Init, ServerInv, NoWork, NoSync
  <1>6. CacheInv
    BY DEF Init, CacheInv, OneSync, NoneAfterLogout, Staged, Kept, NoSync, Missing
  <1> QED
    BY <1>4, <1>5, <1>6 DEF DeliveryInv

(***************************************************************************)
(* The server: builds keep their own rows and answers.                     *)
(***************************************************************************)
ServerTyped ==
    /\ begun \subseteq Builds
    /\ web \in [Threads -> Work]
    /\ dispatch \in [Missions -> {"none", "open", "closed"}]
    /\ rank \in [Missions -> Nat]
    /\ response \in [Missions -> BuildOrNone]
    /\ rows \in [Missions -> SUBSET Builds]
    /\ object \in [Missions -> [kmz : BuildOrNone, meta : BuildOrNone]]
    /\ committed \subseteq Builds
Answers ==
    /\ \A m \in Missions : dispatch[m] # "none" => response[m] \in Builds
    /\ \A t \in Threads : web[t].at # "idle" => web[t].build \in Builds

LEMMA ServerStep ==
    ASSUME ServerTyped, Answers, ServerNext
    PROVE  /\ ServerTyped' /\ Answers'
           /\ UNCHANGED phoneVars
           /\ UNCHANGED faults \/ Fault("fails")
  <1> DEFINE Goal == /\ ServerTyped' /\ Answers'
                     /\ UNCHANGED phoneVars
                     /\ UNCHANGED faults \/ Fault("fails")
  <1>1. ASSUME NEW m \in Missions PROVE Touched(m) \in [Missions -> Nat]
    BY DEF Touched, ServerTyped
  <1>2. \A t \in Threads : web[t] \in Work
    BY DEF ServerTyped
  <1>3. ASSUME NEW m \in Missions, NEW state \in {"open", "closed"}, SetDispatch(m, state)
        PROVE  Goal
    BY <1>1, <1>3 DEF SetDispatch, ServerTyped, Answers, BuildOrNone
  <1>4. ASSUME NEW t \in Threads, NEW b \in Builds, NEW d \in BOOLEAN, BeginBuild(t, b, d)
        PROVE  Goal
    <2>1. PICK new : new = [NoWork EXCEPT !.at = "kmz", !.build = b, !.dispatches = d]
      OBVIOUS
    <2>2. new \in Work /\ new.build = b
      BY <2>1 DEF NoWork, Work, BuildOrNone
    <2>3. web' = [web EXCEPT ![t] = new] /\ begun' = begun \cup {b}
      BY <1>4, <2>1 DEF BeginBuild
    <2> QED
      BY <1>4, <2>2, <2>3 DEF BeginBuild, ServerTyped, Answers
  <1>5. ASSUME NEW t \in Threads, web[t].at # "idle"
        PROVE  Of(t) \in Missions /\ web[t].build \in Builds
    BY <1>5, DeliveryAssumption DEF Of, Answers
  <1>6. ASSUME NEW t \in Threads, NEW new \in Work, web' = [web EXCEPT ![t] = new],
               new.at # "idle" => new.build \in Builds
        PROVE  web' \in [Threads -> Work] /\ \A u \in Threads : web'[u].at # "idle" => web'[u].build \in Builds
    BY <1>6 DEF ServerTyped, Answers
  <1>7. ASSUME NEW t \in Threads, WriteKmz(t) PROVE Goal
    <2>1. PICK m \in Missions : m = Of(t)
      BY <1>5, <1>7 DEF WriteKmz
    <2>2. PICK new : new = [web[t] EXCEPT !.at = "meta"]
      OBVIOUS
    <2>3. new \in Work /\ new.build = web[t].build
      BY <1>2, <2>2 DEF Work
    <2>4. web' = [web EXCEPT ![t] = new] /\ web[t].build \in Builds
      BY <1>5, <1>7, <2>2 DEF WriteKmz
    <2>5. PICK files : files = [object[m] EXCEPT !.kmz = web[t].build]
      OBVIOUS
    <2>6. files \in [kmz : BuildOrNone, meta : BuildOrNone]
      BY <2>4, <2>5 DEF ServerTyped, BuildOrNone
    <2>7. object' = [object EXCEPT ![m] = files]
      BY <1>7, <2>1, <2>5 DEF WriteKmz
    <2>8. object' \in [Missions -> [kmz : BuildOrNone, meta : BuildOrNone]]
      BY <2>6, <2>7 DEF ServerTyped
    <2> QED
      BY <1>6, <1>7, <2>3, <2>4, <2>8 DEF WriteKmz, ServerTyped, Answers
  <1>8. ASSUME NEW t \in Threads, WriteMeta(t) PROVE Goal
    <2>1. PICK m \in Missions : m = Of(t)
      BY <1>5, <1>8 DEF WriteMeta
    <2>2. PICK new : new = [web[t] EXCEPT !.at = "select"]
      OBVIOUS
    <2>3. new \in Work /\ new.build = web[t].build
      BY <1>2, <2>2 DEF Work
    <2>4. web' = [web EXCEPT ![t] = new] /\ web[t].build \in Builds
      BY <1>5, <1>8, <2>2 DEF WriteMeta
    <2>5. PICK files : files = [object[m] EXCEPT !.meta = web[t].build]
      OBVIOUS
    <2>6. files \in [kmz : BuildOrNone, meta : BuildOrNone]
      BY <2>4, <2>5 DEF ServerTyped, BuildOrNone
    <2>7. object' = [object EXCEPT ![m] = files]
      BY <1>8, <2>1, <2>5 DEF WriteMeta
    <2>8. object' \in [Missions -> [kmz : BuildOrNone, meta : BuildOrNone]]
      BY <2>6, <2>7 DEF ServerTyped
    <2> QED
      BY <1>6, <1>8, <2>3, <2>4, <2>8 DEF WriteMeta, ServerTyped, Answers
  <1>9. ASSUME NEW t \in Threads, SelectRows(t) PROVE Goal
    <2>1. rows[Of(t)] \in SUBSET Builds /\ web[t].build \in Builds
      BY <1>5, <1>9 DEF SelectRows, ServerTyped
    <2>2. PICK new : new = [web[t] EXCEPT !.at = "commit", !.seen = rows[Of(t)]]
      OBVIOUS
    <2>3. new \in Work /\ new.build = web[t].build
      BY <1>2, <2>1, <2>2 DEF Work
    <2>4. web' = [web EXCEPT ![t] = new]
      BY <1>9, <2>2 DEF SelectRows
    <2> QED
      BY <1>6, <1>9, <2>1, <2>3, <2>4 DEF SelectRows, ServerTyped, Answers
  <1>10. NoWork \in Work /\ NoWork.at = "idle"
    BY DEF NoWork, Work, BuildOrNone
  <1>11. ASSUME NEW t \in Threads, CommitBuild(t) PROVE Goal
    <2>1. PICK m \in Missions, b \in Builds : m = Of(t) /\ b = web[t].build
      BY <1>5, <1>11 DEF CommitBuild
    <2>2. /\ rows' = [rows EXCEPT ![m] = (@ \ web[t].seen) \cup {b}]
          /\ response' = [response EXCEPT ![m] = b]
          /\ committed' = committed \cup {b}
          /\ (dispatch' = [dispatch EXCEPT ![m] = "open"] /\ rank' = Touched(m)) \/ UNCHANGED <<dispatch, rank>>
          /\ web' = [web EXCEPT ![t] = NoWork]
          /\ UNCHANGED <<begun, object, phoneVars, faults>>
      BY <1>11, <2>1 DEF CommitBuild
    <2>3. /\ rows' \in [Missions -> SUBSET Builds] /\ response' \in [Missions -> BuildOrNone]
          /\ committed' \subseteq Builds
          /\ dispatch' \in [Missions -> {"none", "open", "closed"}] /\ rank' \in [Missions -> Nat]
      BY <1>1, <2>2 DEF ServerTyped, BuildOrNone
    <2>4. \A n \in Missions : dispatch'[n] # "none" => response'[n] \in Builds
      BY <2>2 DEF Answers, ServerTyped
    <2> QED
      BY <1>6, <1>10, <2>2, <2>3, <2>4 DEF ServerTyped, Answers
  <1>12. ASSUME NEW t \in Threads, FailBuild(t) PROVE Goal
    BY <1>6, <1>10, <1>12 DEF FailBuild, ServerTyped, Answers
  <1> QED
    BY <1>3, <1>4, <1>7, <1>8, <1>9, <1>11, <1>12 DEF ServerNext, BuildStep

(***************************************************************************)
(* The phone: types, and a sync works on a build the server committed.     *)
(***************************************************************************)
PhoneTyped ==
    /\ active \in Directory /\ backup \in Directory
    /\ staging \in [Missions -> Directory]
    /\ sync \in [Syncs -> Sync]
    /\ attached \in Bundle
    /\ user \in {"in", "leaving", "clearing", "out"}
    /\ held \in BuildOrNone
    /\ disturbed \in BOOLEAN
Answered == \A s \in Syncs : sync[s].at \notin {"idle", "ask"} => sync[s].build \in Builds

LEMMA LoadedTyped ==
    ASSUME NEW dir \in Directory, NEW stages
    PROVE  Loaded(dir, stages) \in Bundle
  <1>1. Verified(dir, stages) \in BOOLEAN /\ dir.manifest \in BuildOrNone
    BY DEF Verified, Directory
  <1>2. PICK sound \in BOOLEAN : sound = Verified(dir, stages)
    BY <1>1
  <1>3. [build |-> dir.manifest, verified |-> sound, asked |-> NoBuild] \in Bundle /\ NoBundle \in Bundle
    BY <1>1 DEF Bundle, NoBundle, BuildOrNone
  <1>4. Loaded(dir, stages) \in {NoBundle, [build |-> dir.manifest, verified |-> sound, asked |-> NoBuild]}
    BY <1>2 DEF Loaded
  <1> QED
    BY <1>3, <1>4

\* What a sync's step leaves behind, by the place it goes to.
LEMMA SyncMoves ==
    ASSUME PhoneTyped, Answered, NEW s \in Syncs, NEW new \in Sync, sync' = [sync EXCEPT ![s] = new],
           new.at \notin {"idle", "ask"} => new.build \in Builds
    PROVE  sync' \in [Syncs -> Sync] /\ Answered'
  BY DEF PhoneTyped, Answered

LEMMA EndsTyped ==
    ASSUME PhoneTyped, Answered, NEW s \in Syncs, Ends(s)
    PROVE  sync' \in [Syncs -> Sync] /\ Answered'
  <1>1. NoSync \in Sync /\ NoSync.at = "idle"
    BY DEF NoSync, Sync, BuildOrNone
  <1> QED
    BY <1>1, SyncMoves DEF Ends

LEMMA GotoTyped ==
    ASSUME PhoneTyped, Answered, NEW s \in Syncs, sync[s].at \notin {"idle", "ask"},
           NEW place \in {"kmz", "meta", "write", "manifest", "aside", "install", "finish"}, Goto(s, place)
    PROVE  sync' \in [Syncs -> Sync] /\ Answered'
  <1>1. PICK new : new = [sync[s] EXCEPT !.at = place]
    OBVIOUS
  <1>2. sync[s] \in Sync
    BY DEF PhoneTyped
  <1>3. new \in Sync /\ new.build = sync[s].build
    BY <1>1, <1>2 DEF Sync
  <1>4. sync' = [sync EXCEPT ![s] = new]
    BY <1>1 DEF Goto
  <1> QED
    BY <1>3, <1>4, SyncMoves DEF Answered

LEMMA PhoneStep ==
    ASSUME ServerTyped, Answers, PhoneTyped, Answered, PhoneNext
    PROVE  /\ PhoneTyped' /\ Answered'
           /\ UNCHANGED serverVars
           /\ UNCHANGED faults \/ \E k : Fault(k)
  <1> DEFINE Goal == /\ PhoneTyped' /\ Answered'
                     /\ UNCHANGED serverVars
                     /\ UNCHANGED faults \/ \E k : Fault(k)
             SyncOK == sync' \in [Syncs -> Sync] /\ Answered'
  <1>1. Missing \in Directory /\ Empty \in Directory /\ NoBundle \in Bundle /\ NoSync \in Sync /\ NoSync.at = "idle"
    BY DEF Missing, Empty, Directory, NoBundle, Bundle, NoSync, Sync, BuildOrNone
  <1>2. \A s \in Syncs : sync[s] \in Sync
    BY DEF PhoneTyped
  <1>3. \A s \in Syncs : sync[s].at \notin {"idle", "ask"} => sync[s].build \in Builds /\ Target(s) \in Missions
    BY DeliveryAssumption DEF Answered, Target
  <1>4. \A m \in Missions : staging[m] \in Directory
    BY DEF PhoneTyped
  <1>5. ASSUME NEW s \in Syncs, StartSync(s) PROVE Goal
    <2>1. PICK new : new = [NoSync EXCEPT !.at = "ask"]
      OBVIOUS
    <2>2. new \in Sync /\ new.at = "ask"
      BY <2>1 DEF NoSync, Sync, BuildOrNone
    <2>3. SyncOK
      <3>1. sync' = [sync EXCEPT ![s] = new]
        BY <1>5, <2>1 DEF StartSync
      <3> QED
        BY <2>2, <3>1, SyncMoves
    <2>4. disturbed' \in BOOLEAN
      BY <1>5 DEF StartSync
    <2> QED
      BY <1>5, <2>3, <2>4 DEF StartSync, PhoneTyped, diskVars
  <1>6. ASSUME NEW s \in Syncs, RequestFails(s) PROVE Goal
    <2>1. SyncOK
      BY <1>6, EndsTyped DEF RequestFails
    <2> QED
      BY <1>6, <2>1 DEF RequestFails, PhoneTyped, diskVars
  <1>7. ASSUME NEW s \in Syncs, Ask(s) PROVE Goal
    <2>1. PICK m \in Missions : /\ Serves(m)
                               /\ sync' = [sync EXCEPT ![s].at = "check", ![s].build = response[m]]
      BY <1>7 DEF Ask
    <2>2. response[m] \in Builds
      BY <2>1 DEF Serves, Answers
    <2>3. PICK new : new = [sync[s] EXCEPT !.at = "check", !.build = response[m]]
      OBVIOUS
    <2>4. new \in Sync /\ new.build \in Builds
      BY <1>2, <2>2, <2>3 DEF Sync, BuildOrNone
    <2>5. SyncOK
      <3>1. sync' = [sync EXCEPT ![s] = new]
        BY <2>1, <2>3
      <3> QED
        BY <2>4, <3>1, SyncMoves
    <2> QED
      BY <1>7, <2>5 DEF Ask, PhoneTyped, diskVars
  <1>8. ASSUME NEW s \in Syncs, NEW dir \in Directory, NEW stages, NEW b \in BuildOrNone,
               attached' = [Loaded(dir, stages) EXCEPT !.asked = b]
        PROVE  attached' \in Bundle
    <2>1. PICK bundle \in Bundle : bundle = Loaded(dir, stages)
      BY LoadedTyped
    <2>2. attached' = [bundle EXCEPT !.asked = b]
      BY <1>8, <2>1
    <2> QED
      BY <2>2 DEF Bundle
  <1>9. ASSUME NEW s \in Syncs, ReuseCache(s) PROVE Goal
    <2>1. SyncOK
      BY <1>9, EndsTyped DEF ReuseCache
    <2>2. active \in Directory /\ sync[s].build \in BuildOrNone
      BY <1>2 DEF PhoneTyped, Sync
    <2>3. attached' \in Bundle
      BY <1>8, <1>9, <2>2 DEF ReuseCache
    <2> QED
      BY <1>9, <2>1, <2>3 DEF ReuseCache, PhoneTyped, diskVars
  <1>10. ASSUME NEW s \in Syncs, ClearStaging(s) PROVE Goal
    <2>1. SyncOK
      BY <1>10, GotoTyped DEF ClearStaging
    <2>2. staging' \in [Missions -> Directory]
      BY <1>1, <1>10 DEF ClearStaging, PhoneTyped
    <2> QED
      BY <1>10, <2>1, <2>2 DEF ClearStaging, PhoneTyped
  <1>11. ASSUME NEW s \in Syncs, GetKmz(s) PROVE Goal
    <2>1. PICK m \in Missions : m = Target(s)
      BY <1>3, <1>11 DEF GetKmz
    <2>2. PICK row \in rows[m] :
            sync' = [sync EXCEPT ![s].at = "meta", ![s].kmz = object[m].kmz, ![s].headers = (row = sync[s].build)]
      BY <1>11, <2>1 DEF GetKmz
    <2>3. PICK bytes \in BuildOrNone : bytes = object[m].kmz
      BY DEF ServerTyped
    <2>4. PICK agree \in BOOLEAN : agree = (row = sync[s].build)
      <3>1. (row = sync[s].build) \in BOOLEAN
        OBVIOUS
      <3> QED
        BY <3>1
    <2>5. PICK new : new = [sync[s] EXCEPT !.at = "meta", !.kmz = bytes, !.headers = (row = sync[s].build)]
      OBVIOUS
    <2>6. new \in Sync /\ new.build = sync[s].build
      <3>1. new = [sync[s] EXCEPT !.at = "meta", !.kmz = bytes, !.headers = agree]
        BY <2>4, <2>5
      <3> QED
        BY <1>2, <3>1 DEF Sync
    <2>7. SyncOK
      <3>1. sync' = [sync EXCEPT ![s] = new]
        BY <1>2, <2>2, <2>3, <2>5 DEF PhoneTyped
      <3>2. sync[s].build \in Builds
        BY <1>3, <1>11 DEF GetKmz
      <3> QED
        BY <2>6, <3>1, <3>2, SyncMoves
    <2> QED
      BY <1>11, <2>7 DEF GetKmz, PhoneTyped, diskVars
  <1>12. ASSUME NEW s \in Syncs, GetMeta(s) PROVE Goal
    <2>1. PICK m \in Missions : m = Target(s)
      BY <1>3, <1>12 DEF GetMeta
    <2>2. PICK row \in rows[m] :
            sync' = [sync EXCEPT ![s].at = "write", ![s].meta = object[m].meta,
                                 ![s].headers = (@ /\ row = sync[s].build)]
      BY <1>12, <2>1 DEF GetMeta
    <2>3. PICK bytes \in BuildOrNone : bytes = object[m].meta
      BY DEF ServerTyped
    <2>4. PICK agree \in BOOLEAN : agree = (sync[s].headers /\ row = sync[s].build)
      <3>1. (sync[s].headers /\ row = sync[s].build) \in BOOLEAN
        OBVIOUS
      <3> QED
        BY <3>1
    <2>5. PICK new : new = [sync[s] EXCEPT !.at = "write", !.meta = bytes, !.headers = (sync[s].headers /\ row = sync[s].build)]
      OBVIOUS
    <2>6. new \in Sync /\ new.build = sync[s].build
      <3>1. new = [sync[s] EXCEPT !.at = "write", !.meta = bytes, !.headers = agree]
        BY <2>4, <2>5
      <3> QED
        BY <1>2, <3>1 DEF Sync
    <2>7. SyncOK
      <3>1. sync' = [sync EXCEPT ![s] = new]
        BY <1>2, <2>2, <2>3, <2>5 DEF PhoneTyped
      <3>2. sync[s].build \in Builds
        BY <1>3, <1>12 DEF GetMeta
      <3> QED
        BY <2>6, <3>1, <3>2, SyncMoves
    <2> QED
      BY <1>12, <2>7 DEF GetMeta, PhoneTyped, diskVars
  <1>13. ASSUME NEW s \in Syncs, WriteFiles(s) PROVE Goal
    <2>1. SyncOK
      BY <1>13, GotoTyped DEF WriteFiles
    <2>2. PICK m \in Missions, b \in Builds : m = Target(s) /\ b = sync[s].build
      BY <1>3, <1>13 DEF WriteFiles
    <2>3. sync[s].kmz = b /\ sync[s].meta = b
      BY <1>13, <2>2 DEF WriteFiles, ArtifactsAgree
    <2>4. PICK dir : dir = [staging[m] EXCEPT !.kmz = @ \cup {b}, !.meta = b]
      OBVIOUS
    <2>5. dir \in Directory
      BY <1>4, <2>4 DEF Directory, BuildOrNone
    <2>6. staging' = [staging EXCEPT ![m] = dir]
      BY <1>13, <2>2, <2>3, <2>4 DEF WriteFiles
    <2>7. staging' \in [Missions -> Directory]
      BY <2>5, <2>6 DEF PhoneTyped
    <2> QED
      BY <1>13, <2>1, <2>7 DEF WriteFiles, PhoneTyped
  <1>14. ASSUME NEW s \in Syncs, WriteManifest(s) PROVE Goal
    <2>1. SyncOK
      BY <1>14, GotoTyped DEF WriteManifest
    <2>2. PICK m \in Missions, b \in Builds : m = Target(s) /\ b = sync[s].build
      BY <1>3, <1>14 DEF WriteManifest
    <2>3. PICK dir : dir = [staging[m] EXCEPT !.manifest = b, !.paths = "staging"]
      OBVIOUS
    <2>4. dir \in Directory
      BY <1>4, <2>3 DEF Directory, BuildOrNone
    <2>5. staging' = [staging EXCEPT ![m] = dir]
      BY <1>14, <2>2, <2>3 DEF WriteManifest
    <2>6. staging' \in [Missions -> Directory]
      BY <2>4, <2>5 DEF PhoneTyped
    <2> QED
      BY <1>14, <2>1, <2>6 DEF WriteManifest, PhoneTyped
  <1>15. ASSUME NEW s \in Syncs, GiveUp(s) PROVE Goal
    <2>1. SyncOK
      BY <1>15, EndsTyped DEF GiveUp
    <2> QED
      BY <1>15, <2>1 DEF GiveUp, PhoneTyped, diskVars
  <1>16. ASSUME NEW s \in Syncs, SetAside(s) PROVE Goal
    <2>1. SyncOK
      BY <1>16, GotoTyped DEF SetAside
    <2> QED
      BY <1>1, <1>16, <2>1 DEF SetAside, PhoneTyped
  <1>17. ASSUME NEW s \in Syncs, Install(s) PROVE Goal
    <2>1. SyncOK
      BY <1>17, GotoTyped DEF Install
    <2>2. staging' \in [Missions -> Directory] /\ staging[Target(s)] \in Directory
      BY <1>1, <1>3, <1>4, <1>17 DEF Install, PhoneTyped
    <2> QED
      BY <1>1, <1>17, <2>1, <2>2 DEF Install, PhoneTyped
  <1>18. ASSUME NEW s \in Syncs, RestoreBackup(s) PROVE Goal
    <2>1. SyncOK
      BY <1>18, EndsTyped DEF RestoreBackup
    <2> QED
      BY <1>1, <1>18, <2>1 DEF RestoreBackup, PhoneTyped
  <1>19. ASSUME NEW s \in Syncs, FinishSync(s) PROVE Goal
    <2>1. SyncOK
      BY <1>19, EndsTyped DEF FinishSync
    <2>2. sync[s].build \in Builds
      BY <1>3, <1>19 DEF FinishSync
    <2>3. Rewritten(s) \in Directory
      BY <2>2 DEF Rewritten, PhoneTyped, Directory, BuildOrNone
    <2>4. attached' \in Bundle
      BY <1>8, <1>19, <2>2, <2>3 DEF FinishSync, BuildOrNone
    <2> QED
      BY <1>19, <2>1, <2>2, <2>3, <2>4 DEF FinishSync, PhoneTyped, BuildOrNone
  <1>20. UNCHANGED sync => Answered'
    BY DEF Answered
  <1>21. CASE Logout
    <2>1. disturbed' \in BOOLEAN
      BY <1>21 DEF Logout
    <2> QED
      BY <1>20, <1>21, <2>1 DEF Logout, PhoneTyped, diskVars
  <1>22. CASE ClearActive
    BY <1>1, <1>20, <1>22 DEF ClearActive, PhoneTyped, BuildOrNone
  <1>23. CASE ClearTheRest
    BY <1>1, <1>20, <1>23 DEF ClearTheRest, PhoneTyped
  <1>24. CASE Login
    BY <1>20, <1>24 DEF Login, PhoneTyped, diskVars
  <1>25. CASE Crash
    <2>1. SyncOK
      BY <1>1, <1>25 DEF Crash, Answered
    <2>2. active' \in Directory
      <3>1. [active EXCEPT !.manifest = NoBuild, !.paths = "torn"] \in Directory
        BY DEF PhoneTyped, Directory, BuildOrNone
      <3> QED
        BY <1>25, <3>1 DEF Crash, PhoneTyped
    <2>3. attached' \in Bundle
      BY <1>25, <2>2, LoadedTyped DEF Crash
    <2>4. disturbed' \in BOOLEAN /\ user' \in {"in", "out"}
      BY <1>25 DEF Crash
    <2> QED
      BY <1>25, <2>1, <2>2, <2>3, <2>4 DEF Crash, PhoneTyped
  <1> QED
    BY <1>5, <1>6, <1>7, <1>9, <1>10, <1>11, <1>12, <1>13, <1>14, <1>15, <1>16, <1>17, <1>18, <1>19,
       <1>21, <1>22, <1>23, <1>24, <1>25
    DEF PhoneNext, SyncStep

-----------------------------------------------------------------------------
\* What a step may do to a cache nobody disturbs.
Undisturbed ==
    /\ \A b \in Builds : missionOf[b] \in Missions
    /\ NoBuild \notin Builds
    /\ staging \in [Missions -> Directory] /\ active \in Directory /\ held \in BuildOrNone
    /\ sync \in [Syncs -> Sync]
    /\ \A s \in Syncs : sync[s].at \notin {"idle", "ask"} => sync[s].build \in Builds
    /\ CacheInv

\* The only sync goes on, to a place where it has nothing staged to answer for.
LEMMA SyncGoesOn ==
    ASSUME Undisturbed, NEW s \in Syncs, sync[s].at \notin {"idle", "install", "finish"},
           NEW new, sync' = [sync EXCEPT ![s] = new],
           new.at \in {"ask", "check", "kmz", "meta", "write"},
           UNCHANGED <<active, user, held>>
    PROVE  CacheInv'
  <1>1. \A o \in Syncs : sync'[o] = IF o = s THEN new ELSE sync[o]
    BY DEF Undisturbed
  <1>2. \A o \in Syncs : sync[o].at # "idle" => o = s
    BY DEF Undisturbed, CacheInv, OneSync
  <1>3. ~Installing
    BY <1>2 DEF Installing
  <1>4. OneSync'
    BY <1>1, <1>2 DEF OneSync
  <1>5. NoneAfterLogout'
    BY DEF Undisturbed, CacheInv, NoneAfterLogout
  <1>6. Staged'
    BY <1>1, <1>2 DEF Staged
  <1>7. Kept(active)'
    BY <1>3 DEF Undisturbed, CacheInv, Kept
  <1> QED
    BY <1>4, <1>5, <1>6, <1>7 DEF CacheInv

\* The only sync ends, and leaves a good bundle.
LEMMA SyncIsOver ==
    ASSUME Undisturbed, NEW s \in Syncs, sync[s].at # "idle", Ends(s),
           UNCHANGED user, Kept(active)'
    PROVE  CacheInv'
  <1>1. \A o \in Syncs : sync[o].at # "idle" => o = s
    BY DEF Undisturbed, CacheInv, OneSync
  <1>2. \A o \in Syncs : sync'[o].at = "idle"
    BY <1>1 DEF Undisturbed, Ends, NoSync
  <1> QED
    BY <1>2 DEF CacheInv, OneSync, NoneAfterLogout, Staged

\* The only sync reaches a place where it has something to answer for.
LEMMA SyncReaches ==
    ASSUME Undisturbed, NEW s \in Syncs, sync[s].at # "idle",
           NEW place \in {"manifest", "aside", "install", "finish"}, Goto(s, place), UNCHANGED user,
           place # "finish" /\ staging'[Target(s)].there => Holds(staging'[Target(s)], sync[s].build),
           place = "install" => Kept(backup)',
           place = "finish" => active'.there /\ Holds(active', sync[s].build),
           place \in {"manifest", "aside"} => Kept(active)'
    PROVE  CacheInv'
  <1>1. \A o \in Syncs : sync[o].at # "idle" => o = s
    BY DEF Undisturbed, CacheInv, OneSync
  <1>2. /\ \A o \in Syncs \ {s} : sync'[o].at = "idle"
        /\ sync'[s].at = place /\ sync'[s].build = sync[s].build
    <2>1. sync[s] \in Sync
      BY DEF Undisturbed
    <2>2. sync' = [sync EXCEPT ![s] = [sync[s] EXCEPT !.at = place]]
      BY DEF Goto
    <2>3. \A o \in Syncs : sync'[o] = IF o = s THEN [sync[s] EXCEPT !.at = place] ELSE sync[o]
      BY <2>2 DEF Undisturbed
    <2> QED
      BY <1>1, <2>1, <2>3 DEF Sync
  <1>3. OneSync'
    BY <1>2 DEF OneSync
  <1>4. NoneAfterLogout'
    BY DEF Undisturbed, CacheInv, NoneAfterLogout
  <1>5. Target(s)' = Target(s)
    BY <1>2 DEF Target
  <1>6. Staged'
    BY <1>2, <1>5 DEF Staged
  <1>7. ~Installing' => Kept(active)'
    BY <1>2 DEF Installing
  <1> QED
    BY <1>3, <1>4, <1>6, <1>7 DEF CacheInv

LEMMA SyncCache ==
    ASSUME Undisturbed, NEW s \in Syncs, SyncStep(s)
    PROVE  CacheInv'
  <1>1. \A o \in Syncs : sync[o].at # "idle" => o = s
    <2>1. sync[s].at # "idle"
      BY DEF SyncStep, RequestFails, Ask, ReuseCache, ClearStaging, GetKmz, GetMeta, WriteFiles,
             WriteManifest, GiveUp, SetAside, Install, RestoreBackup, FinishSync
    <2> QED
      BY <2>1 DEF Undisturbed, CacheInv, OneSync
  <1>2. /\ sync[s].at \notin {"install", "finish"} => Kept(active)
        /\ sync[s] \in Sync
    BY <1>1 DEF Undisturbed, CacheInv, Installing
  <1>3. UNCHANGED <<active, held>> => (Kept(active)' <=> Kept(active))
    BY DEF Kept
  <1>4. /\ sync[s].at \in {"manifest", "aside", "install"} /\ staging[Target(s)].there
             => Holds(staging[Target(s)], sync[s].build)
        /\ sync[s].at = "install" => Kept(backup)
        /\ sync[s].at = "finish" => active.there /\ Holds(active, sync[s].build)
    BY DEF Undisturbed, CacheInv, Staged
  <1>5. sync[s].at \notin {"idle", "ask"} => sync[s].build \in Builds /\ Target(s) \in Missions
    BY DEF Undisturbed, Target
  <1>6. CASE RequestFails(s)
    BY <1>2, <1>3, <1>6, SyncIsOver DEF RequestFails, diskVars
  <1>7. CASE Ask(s)
    <2>1. PICK m \in Missions : sync' = [sync EXCEPT ![s].at = "check", ![s].build = response[m]]
      BY <1>7 DEF Ask
    <2>2. PICK new : new = [sync[s] EXCEPT !.at = "check", !.build = response[m]]
      OBVIOUS
    <2>3. sync' = [sync EXCEPT ![s] = new] /\ new.at = "check"
      BY <1>2, <2>1, <2>2 DEF Sync
    <2> QED
      BY <1>7, <2>3, SyncGoesOn DEF Ask, diskVars
  <1>8. CASE ReuseCache(s)
    BY <1>2, <1>3, <1>8, SyncIsOver DEF ReuseCache, diskVars
  <1>9. CASE ClearStaging(s)
    <2>1. PICK new : new = [sync[s] EXCEPT !.at = "kmz"]
      OBVIOUS
    <2>2. sync' = [sync EXCEPT ![s] = new] /\ new.at = "kmz"
      BY <1>2, <1>9, <2>1 DEF ClearStaging, Goto, Sync
    <2> QED
      BY <1>9, <2>2, SyncGoesOn DEF ClearStaging
  <1>10. CASE GetKmz(s)
    <2>1. PICK row : sync' = [sync EXCEPT ![s].at = "meta", ![s].kmz = object[Target(s)].kmz,
                                          ![s].headers = (row = sync[s].build)]
      BY <1>10 DEF GetKmz
    <2>2. PICK new : new = [sync[s] EXCEPT !.at = "meta", !.kmz = object[Target(s)].kmz,
                                           !.headers = (row = sync[s].build)]
      OBVIOUS
    <2>3. sync' = [sync EXCEPT ![s] = new] /\ new.at = "meta"
      BY <1>2, <2>1, <2>2 DEF Sync, Undisturbed
    <2> QED
      BY <1>10, <2>3, SyncGoesOn DEF GetKmz, diskVars
  <1>11. CASE GetMeta(s)
    <2>1. PICK row : sync' = [sync EXCEPT ![s].at = "write", ![s].meta = object[Target(s)].meta,
                                          ![s].headers = (@ /\ row = sync[s].build)]
      BY <1>11 DEF GetMeta
    <2>2. PICK new : new = [sync[s] EXCEPT !.at = "write", !.meta = object[Target(s)].meta,
                                           !.headers = (sync[s].headers /\ row = sync[s].build)]
      OBVIOUS
    <2>3. sync' = [sync EXCEPT ![s] = new] /\ new.at = "write"
      BY <1>2, <2>1, <2>2 DEF Sync, Undisturbed
    <2> QED
      BY <1>11, <2>3, SyncGoesOn DEF GetMeta, diskVars
  <1>12. CASE WriteFiles(s)
    <2>1. PICK m \in Missions, b \in Builds : m = Target(s) /\ b = sync[s].build
      BY <1>5, <1>12 DEF WriteFiles
    <2>2. sync[s].kmz = b /\ sync[s].meta = b
      BY <1>12, <2>1 DEF WriteFiles, ArtifactsAgree
    <2>3. staging' = [staging EXCEPT ![m] = [staging[m] EXCEPT !.kmz = @ \cup {b}, !.meta = b]]
      BY <1>12, <2>1, <2>2 DEF WriteFiles
    <2>4. staging'[m] = [staging[m] EXCEPT !.kmz = @ \cup {b}, !.meta = b] /\ staging[m] \in Directory
      BY <2>3 DEF Undisturbed
    <2>5. Holds(staging'[m], b)
      BY <2>4 DEF Holds, Directory
    <2> QED
      BY <1>2, <1>3, <1>12, <2>1, <2>5, SyncReaches DEF WriteFiles
  <1>13. CASE WriteManifest(s)
    <2>1. PICK m \in Missions, b \in Builds : m = Target(s) /\ b = sync[s].build
      BY <1>5, <1>13 DEF WriteManifest
    <2>2. staging' = [staging EXCEPT ![m] = [staging[m] EXCEPT !.manifest = b, !.paths = "staging"]]
      BY <1>13, <2>1 DEF WriteManifest
    <2>3. staging'[m] = [staging[m] EXCEPT !.manifest = b, !.paths = "staging"] /\ staging[m] \in Directory
      BY <2>2 DEF Undisturbed
    <2>4. Holds(staging'[m], b)
      <3>1. Holds(staging[m], b)
        BY <1>4, <1>13, <2>1 DEF WriteManifest
      <3> QED
        BY <2>3, <3>1 DEF Holds, Directory
    <2> QED
      BY <1>2, <1>3, <1>13, <2>1, <2>4, SyncReaches DEF WriteManifest
  <1>14. CASE GiveUp(s)
    BY <1>2, <1>3, <1>4, <1>14, SyncIsOver DEF GiveUp, diskVars
  <1>15. CASE SetAside(s)
    <2>1. Kept(backup)'
      BY <1>2, <1>15 DEF SetAside, Kept
    <2> QED
      BY <1>4, <1>15, <2>1, SyncReaches DEF SetAside
  <1>16. CASE Install(s)
    BY <1>4, <1>16, SyncReaches DEF Install
  <1>17. CASE RestoreBackup(s)
    <2>1. Kept(active)'
      BY <1>4, <1>17 DEF RestoreBackup, Kept
    <2> QED
      BY <1>17, <2>1, SyncIsOver DEF RestoreBackup
  <1>18. CASE FinishSync(s)
    <2>1. PICK b \in Builds : b = sync[s].build
      BY <1>5, <1>18 DEF FinishSync
    <2>2. active' = [active EXCEPT !.manifest = b, !.paths = "active"] /\ held' = b /\ active \in Directory
      BY <1>18, <2>1 DEF FinishSync, Rewritten, Undisturbed
    <2>3. Kept(active)'
      BY <1>4, <1>18, <2>1, <2>2 DEF FinishSync, Kept, Holds, Directory
    <2> QED
      BY <1>18, <2>3, SyncIsOver DEF FinishSync
  <1> QED
    BY <1>6, <1>7, <1>8, <1>9, <1>10, <1>11, <1>12, <1>13, <1>14, <1>15, <1>16, <1>17, <1>18 DEF SyncStep

LEMMA CacheStep ==
    ASSUME DeliveryInv, [Next]_vars, ~disturbed'
    PROVE  CacheInv'
  <1>1. ASSUME disturbed PROVE FALSE
    BY <1>1 DEF Next, ServerNext, PhoneNext, SetDispatch, BeginBuild, BuildStep, WriteKmz, WriteMeta, SelectRows,
           CommitBuild, FailBuild, SyncStep, StartSync, RequestFails, Ask, ReuseCache, ClearStaging, GetKmz,
           GetMeta, WriteFiles, WriteManifest, GiveUp, SetAside, Install, RestoreBackup, FinishSync, Logout,
           ClearActive, ClearTheRest, Login, Crash, vars, phoneVars
  <1>2. Undisturbed
    BY <1>1, DeliveryValues DEF DeliveryInv, DeliveryTypeOK, ServerInv, Undisturbed
  <1>3. CASE UNCHANGED phoneVars
    BY <1>2, <1>3 DEF phoneVars, diskVars, Undisturbed, CacheInv, OneSync, NoneAfterLogout, Staged, Installing, Kept,
                      Target
  <1>4. ASSUME NEW s \in Syncs, StartSync(s) PROVE CacheInv'
    <2>1. \A o \in Syncs : sync[o].at = "idle"
      BY <1>4 DEF StartSync, Others
    <2>2. /\ \A o \in Syncs \ {s} : sync'[o].at = "idle"
          /\ sync'[s].at = "ask" /\ user = "in"
          /\ UNCHANGED <<active, held, user>>
      BY <1>2, <1>4, <2>1 DEF StartSync, NoSync, Undisturbed, diskVars
    <2>3. Kept(active)'
      BY <1>2, <2>1, <2>2 DEF Undisturbed, CacheInv, Installing, Kept
    <2> QED
      BY <2>2, <2>3 DEF CacheInv, OneSync, NoneAfterLogout, Staged
  <1>5. ASSUME NEW s \in Syncs, SyncStep(s) PROVE CacheInv'
    BY <1>2, <1>5, SyncCache
  <1>6. CASE /\ \A o \in Syncs : sync'[o].at = "idle"
             /\ Kept(active)'
    BY <1>6 DEF CacheInv, OneSync, NoneAfterLogout, Staged
  <1>7. CASE Logout
    <2>1. (\A o \in Syncs : sync[o].at = "idle") /\ UNCHANGED <<sync, active, held>>
      BY <1>7 DEF Logout, Syncing, diskVars
    <2> QED
      BY <1>2, <1>6, <2>1 DEF Undisturbed, CacheInv, Installing, Kept
  <1>8. user # "in" => (\A o \in Syncs : sync[o].at = "idle") /\ Kept(active)
    BY <1>2 DEF Undisturbed, CacheInv, NoneAfterLogout, Installing
  <1>9. CASE ClearActive
    BY <1>6, <1>8, <1>9 DEF ClearActive, Kept, Missing
  <1>10. CASE ClearTheRest
    BY <1>6, <1>8, <1>10 DEF ClearTheRest, Kept
  <1>11. CASE Login
    BY <1>6, <1>8, <1>11 DEF Login, Kept, diskVars
  <1>12. CASE Crash
    <2>1. ~Installing
      BY <1>12 DEF Crash
    <2>2. UNCHANGED <<active, held>> /\ sync' = [s \in Syncs |-> NoSync]
      BY <1>12, <2>1 DEF Crash, Installing
    <2>3. Kept(active)' /\ \A o \in Syncs : sync'[o].at = "idle"
      BY <1>2, <2>1, <2>2 DEF Undisturbed, CacheInv, Kept, NoSync
    <2> QED
      BY <1>6, <2>3
  <1>13. CASE ServerNext
    BY <1>3, <1>13, ServerStep DEF DeliveryInv, DeliveryTypeOK, ServerInv, ServerTyped, Answers
  <1>14. CASE UNCHANGED vars
    BY <1>3, <1>14 DEF vars
  <1> QED
    BY <1>4, <1>5, <1>7, <1>9, <1>10, <1>11, <1>12, <1>13, <1>14 DEF Next, PhoneNext

LEMMA DeliveryAlwaysInv == Spec => []DeliveryInv
  <1>1. DeliveryTypeOK /\ ServerInv <=> ServerTyped /\ Answers /\ PhoneTyped /\ Answered /\ faults \in 0 .. MaxFaults
    BY DEF DeliveryTypeOK, ServerInv, ServerTyped, Answers, PhoneTyped, Answered
  <1>2. ASSUME DeliveryInv, [Next]_vars
        PROVE  ServerTyped' /\ Answers' /\ PhoneTyped' /\ Answered' /\ faults' \in 0 .. MaxFaults
    <2>1. ServerTyped /\ Answers /\ PhoneTyped /\ Answered /\ faults \in 0 .. MaxFaults
      BY <1>1, <1>2 DEF DeliveryInv
    <2>2. \A k : Fault(k) => faults' \in 0 .. MaxFaults
      BY <1>2, DeliveryValues DEF DeliveryInv
    <2>3. UNCHANGED phoneVars => PhoneTyped' /\ Answered'
      BY <2>1 DEF phoneVars, diskVars, PhoneTyped, Answered
    <2>4. UNCHANGED serverVars => ServerTyped' /\ Answers'
      BY <2>1 DEF serverVars, ServerTyped, Answers
    <2>5. CASE ServerNext
      BY <2>1, <2>2, <2>3, <2>5, ServerStep
    <2>6. CASE PhoneNext
      BY <2>1, <2>2, <2>4, <2>6, PhoneStep
    <2>7. CASE UNCHANGED vars
      BY <2>1, <2>3, <2>4, <2>7 DEF vars
    <2> QED
      BY <1>2, <2>5, <2>6, <2>7 DEF Next
  <1>3. DeliveryInv /\ [Next]_vars => DeliveryInv'
    <2>1. ASSUME DeliveryInv, [Next]_vars PROVE (DeliveryTypeOK /\ ServerInv)'
      BY <1>2, <2>1 DEF DeliveryTypeOK, ServerInv, ServerTyped, Answers, PhoneTyped, Answered
    <2> QED
      BY <2>1, CacheStep DEF DeliveryInv
  <1> QED
    BY <1>3, DeliveryInvInit, PTL DEF Spec

(***************************************************************************)
(* Whatever fails, the cache keeps the bundle installed last, whole and    *)
(* verified, as long as syncs do not overlap and none is cut while it      *)
(* installs: for any number of missions, builds, server threads and        *)
(* faults.  (ServerMissionRepository.kt, syncMissionBundle)                *)
(***************************************************************************)
THEOREM CacheKeepsBundle == Spec => []KeepsLastGood
  <1>1. ASSUME DeliveryInv, ~disturbed, ~Installing
        PROVE  \/ held = NoBuild /\ ~active.there
               \/ Readable(active) /\ Verified(active, staging) /\ active.manifest = held
    <2>1. Kept(active) /\ NoBuild \notin Builds
      BY <1>1, DeliveryValues DEF DeliveryInv, CacheInv
    <2>2. active.paths = "active" => Files(active, staging) = active
      BY DEF Files
    <2> QED
      BY <2>1, <2>2 DEF Kept, Readable, Verified
  <1>2. DeliveryInv => KeepsLastGood
    BY <1>1 DEF KeepsLastGood
  <1> QED
    BY <1>2, DeliveryAlwaysInv, PTL

(***************************************************************************)
(* Type correctness of the phone's two queues, and of what the server      *)
(* keeps for them.                                                         *)
(***************************************************************************)
THEOREM UploadTyped == UploadSpec => []UploadTypeOK
  <1>1. UploadInv => UploadTypeOK
    BY DEF UploadInv
  <1> QED
    BY <1>1, UploadAlwaysInv, PTL

\* And of the delivery of missions, where every sync works on a build that
\* the server has made.
THEOREM DeliveryTyped == Spec => [](DeliveryTypeOK /\ ServerInv)
  <1>1. DeliveryInv => DeliveryTypeOK /\ ServerInv
    BY DEF DeliveryInv
  <1> QED
    BY <1>1, DeliveryAlwaysInv, PTL

=============================================================================
