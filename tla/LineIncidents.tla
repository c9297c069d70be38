---------------------------- MODULE LineIncidents ----------------------------
(***************************************************************************)
(* Incidents and the floor plan that shows them (planner-server,           *)
(* incidents.py, routers/incidents.py, routers/line.py, line_floorplan/):  *)
(* operators on the web and on LINE report incidents and move them through *)
(* their states, each in a transaction of its own that pushes a message to *)
(* the LINE group before it commits; LINE shows the plan as a picture and  *)
(* as a live page, each from a cache of its own.                           *)
(*                                                                         *)
(* An operator loads the row without a lock, decides on the copy, and      *)
(* writes only the columns it changed; from that write to its commit it    *)
(* holds the row.                                                          *)
(***************************************************************************)
EXTENDS Integers, FiniteSets, Sequences, Functions

CONSTANTS
    Incidents,
    Operators,
    Readers,      \* threads that serve the plan
    Parts,        \* who takes part: sets of operators, readers and views, and what bounds them
    DayLength,    \* midnight is when now % DayLength = 0
    PictureCache, \* CACHE_SECONDS of the picture
    StateCache,   \* FLOORPLAN_STATE_CACHE_SECONDS
    BuildTime     \* a build of the plan takes no longer

ASSUME IncidentAssumption ==
    /\ IsFiniteSet(Incidents)
    /\ Parts \subseteq [operators : SUBSET Operators, readers : SUBSET Readers,
                        views : SUBSET {"picture", "page"}, clock : Nat, breaks : Nat]
    /\ {DayLength, PictureCache} \subseteq Nat \ {0}
    /\ {StateCache, BuildTime} \subseteq Nat

VARIABLES
    part,    \* never changes
    now,
    rows,    \* incidents, as committed
    desk,    \* what each operator is doing
    cache,   \* _CACHE of the picture, _floorplan_state_cache of the page
    build,  \* what each reader is building
    breaks   \* processes and databases that failed

incidentVars == <<part, now, rows, desk, cache, build, breaks>>

Statuses == {"none", "pending_review", "confirmed", "in_progress", "resolved", "false_positive"}
Unresolved == {"pending_review", "confirmed", "in_progress"}
Views == {"picture", "page"}
Clocks == 0..part.clock

\* STATUS_TRANSITIONS, what each action asks for and from where.
Asks == [confirm |-> "confirmed", dismiss |-> "false_positive", start |-> "in_progress",
         resolve |-> "resolved", reopen |-> "pending_review", report |-> "pending_review"]
From(act) ==
    CASE act \in {"confirm", "dismiss"} -> {"pending_review"}
      [] act = "start"   -> {"confirmed"}
      [] act = "resolve" -> {"in_progress"}
      [] act = "reopen"  -> {"resolved", "false_positive"}
      [] act = "report"  -> {"none"}
      [] act = "edit"    -> Statuses \ {"none"}
Acts == DOMAIN Asks \cup {"edit"}

\* since: when the row was last opened or closed, as others could see it.
Record == [status : Statuses, ended : BOOLEAN, created : Clocks, since : Clocks]
NoIncident == [status |-> "none", ended |-> FALSE, created |-> 0, since |-> 0]
Desk == [at : {"idle", "loaded", "held"}, act : Acts, id : Incidents, copy : Record]
Idle(places) == [x \in places |-> [at |-> "idle"]]

IncidentTypeOK ==
    /\ now \in Clocks /\ rows \in [Incidents -> Record]
    /\ \A o \in Operators : desk[o] = [at |-> "idle"] \/ desk[o] \in Desk
    /\ \A v \in Views : cache[v].red \cup cache[v].list \subseteq Incidents
    /\ \A r \in Readers : build[r].at \in {"idle", "query", "list", "store"}
    /\ breaks \in 0..part.breaks

IncidentInit ==
    /\ part \in Parts
    /\ now = 0
    /\ rows = [i \in Incidents |-> NoIncident]
    /\ desk = Idle(Operators)
    /\ cache = [v \in Views |-> [until |-> -1, red |-> {}, list |-> {}]]
    /\ build = Idle(Readers)
    /\ breaks = 0

-----------------------------------------------------------------------------
(* The operators.                                                            *)

\* An operator sits down with a copy of the incident; what is refused changes nothing.
Take(o, act, i, copy) ==
    /\ desk[o].at = "idle" /\ rows[i].status \in From(act)
    /\ desk' = [desk EXCEPT ![o] = [at |-> "loaded", act |-> act, id |-> i, copy |-> copy]]
    /\ UNCHANGED <<rows, breaks>>

\* session.get and the checks of update_incident_status, reopen_incident and the edits.
Load(o, act, i) == act # "report" /\ Take(o, act, i, rows[i])

\* What the form on the web, or one tap on a machine of the plan in LINE, reports.
Reported == [NoIncident EXCEPT !.created = now]

\* There is nothing to load, and the id is new.
Report(o, i) ==
    /\ ~\E p \in Operators : desk[p].at # "idle" /\ desk[p].id = i
    /\ Take(o, "report", i, Reported)

Held(i) == \E o \in Operators : desk[o].at = "held" /\ desk[o].id = i

\* The flush of record_incident_line_notification writes the row, which other writers now
\* wait for; then the message is pushed, and whether LINE took it is noted.
Write(o) ==
    /\ desk[o].at = "loaded" /\ ~Held(desk[o].id)
    /\ desk' = [desk EXCEPT ![o].at = "held"]
    /\ UNCHANGED <<rows, breaks>>

\* Mutant: the first end counts, a second one leaves resolved_at alone.
EndTimeOnce(d, row) ==
    CASE d.act = "resolve" /\ ~d.copy.ended -> TRUE
      [] d.act = "reopen" /\ d.copy.ended -> FALSE
      [] OTHER -> row.ended

\* resolved_at: a resolve always sets another time, a reopen clears it; the column is
\* written only where that differs from the loaded copy.
EndTime(d, row) ==
    CASE d.act = "resolve" -> TRUE
      [] d.act = "reopen" /\ d.copy.ended -> FALSE
      [] OTHER -> row.ended

Open(row) == row.status \in Unresolved

\* What becomes of the row: the columns the operator changed, over whatever is there now.
Result(d, row) ==
    LET status == IF d.act = "edit" THEN row.status ELSE Asks[d.act]
    IN [status |-> status, ended |-> EndTime(d, row),
        created |-> IF d.act = "report" THEN d.copy.created ELSE row.created,
        since |-> IF (status \in Unresolved) = Open(row) THEN row.since ELSE now]

Commit(o) ==
    /\ desk[o].at = "held"
    /\ rows' = [rows EXCEPT ![desk[o].id] = Result(desk[o], @)]
    /\ desk' = [desk EXCEPT ![o] = [at |-> "idle"]]
    /\ UNCHANGED breaks

\* The process dies, the database refuses, or the ledger's query failed inside the
\* transaction of an assignment: everything is rolled back, the push is not.
RollBack(o) ==
    /\ desk[o].at # "idle"
    /\ breaks < part.breaks /\ breaks' = breaks + 1
    /\ desk' = [desk EXCEPT ![o] = [at |-> "idle"]]
    /\ UNCHANGED rows

Operate(o) ==
    /\ (\E i \in Incidents : Report(o, i) \/ \E act \in Acts : Load(o, act, i))
       \/ Write(o) \/ Commit(o) \/ RollBack(o)
    /\ UNCHANGED <<part, now, cache, build>>

-----------------------------------------------------------------------------
(* The plan.                                                                 *)

Day(t) == t \div DayLength

\* _today_incidents: created on the site's day.
Today(t) == {i \in Incidents : rows[i].status # "none" /\ Day(rows[i].created) = Day(t)}

\* _machine_status: a machine is red where an incident of today is unresolved.
Red(t) == {i \in Today(t) : Open(rows[i])}

\* The picture is good while asked < expires_at, the page's state up to and including the
\* last second. An answer from the cache changes nothing and is no action.
Good(view) == IF view = "picture" THEN now < cache[view].until ELSE now <= cache[view].until

Miss(r, view) ==
    /\ build[r].at = "idle" /\ ~Good(view)
    /\ build' = [build EXCEPT ![r] = [at |-> "query", view |-> view, asked |-> now,
                                     red |-> {}, list |-> {}]]
    /\ UNCHANGED <<cache, breaks>>

\* get_floorplan_snapshot; "today" is that of the moment the request came.
Query(r) ==
    /\ build[r].at = "query"
    /\ build' = [build EXCEPT ![r].at = IF build[r].view = "page" THEN "list" ELSE "store",
                             ![r].red = Red(build[r].asked)]
    /\ UNCHANGED <<cache, breaks>>

\* build_floorplan_state_payload asks a second time for the incidents it lists.
List(r) ==
    /\ build[r].at = "list"
    /\ build' = [build EXCEPT ![r].at = "store", ![r].list = Red(build[r].asked)]
    /\ UNCHANGED <<cache, breaks>>

\* Mutant: both caches count from when the plan is ready.
UntilFromStore(view, asked) == now + IF view = "picture" THEN PictureCache ELSE StateCache

\* The picture's time counts from before the query, the state's from after the build.
Until(view, asked) == IF view = "picture" THEN asked + PictureCache ELSE now + StateCache

Store(r) ==
    /\ build[r].at = "store"
    /\ LET view == build[r].view IN
       cache' = [cache EXCEPT ![view] = [until |-> Until(view, build[r].asked), red |-> build[r].red,
                                         list |-> build[r].list]]
    /\ build' = [build EXCEPT ![r] = [at |-> "idle"]]
    /\ UNCHANGED breaks

\* Another process starts: the caches are its own, what the old one did is lost.
NewProcess ==
    /\ breaks < part.breaks /\ breaks' = breaks + 1
    /\ cache' = [v \in Views |-> [until |-> -1, red |-> {}, list |-> {}]]
    /\ build' = Idle(Readers) /\ desk' = Idle(Operators)
    /\ UNCHANGED <<part, now, rows>>

Serve ==
    /\ \E r \in part.readers : (\E v \in part.views : Miss(r, v)) \/ Query(r) \/ List(r) \/ Store(r)
    /\ UNCHANGED <<part, now, rows, desk>>

\* Builds are not slower than BuildTime.
TimePasses ==
    /\ now < part.clock
    /\ \A r \in Readers : build[r].at # "idle" => now - build[r].asked < BuildTime
    /\ now' = now + 1
    /\ UNCHANGED <<part, rows, desk, cache, build, breaks>>

IncidentNext == (\E o \in part.operators : Operate(o)) \/ Serve \/ NewProcess \/ TimePasses

IncidentSpec == IncidentInit /\ [][IncidentNext]_incidentVars

-----------------------------------------------------------------------------
\* A plan asked for at t tells of everything that was committed up to this moment.
Tells(view, t) == IF view = "picture" THEN t - PictureCache ELSE t - StateCache - BuildTime - 1

\* The answers that may be given: from a good cache, or by a reader that has queried.
Answers ==
    {[view |-> v, asked |-> now, red |-> cache[v].red, list |-> cache[v].list] : v \in {w \in Views : Good(w)}}
        \cup {[view |-> build[r].view, asked |-> build[r].asked, red |-> build[r].red, list |-> build[r].list] :
                  r \in {q \in Readers : build[q].at = "store"}}

\* Whoever built what is in the cache, and in whatever order two builders finished: an
\* answer shows every incident of the day that had been open for the time of its cache,
\* and none that had been closed for as long.
PlanTells ==
    \A a \in Answers : \A i \in Incidents :
        rows[i].status # "none" /\ rows[i].since <= Tells(a.view, a.asked) /\ Day(rows[i].created) = Day(a.asked)
            => /\ (i \in a.red) = Open(rows[i])
               /\ a.view = "page" => (i \in a.list) = Open(rows[i])

\* Operators overwrite each other, but never so that a resolved incident has lost the time
\* it was resolved at.
ResolvedHasTime == \A i \in Incidents : rows[i].status = "resolved" => rows[i].ended

-----------------------------------------------------------------------------
\* What the incidents do not keep.

\* Only STATUS_TRANSITIONS and a reopen change a status.
OnlyTransitions ==
    [][\A i \in Incidents : rows'[i].status # rows[i].status =>
           \E act \in DOMAIN Asks : rows[i].status \in From(act) /\ rows'[i].status = Asks[act]]_rows

\* An unresolved incident is red on the plan.
OpenIsRed ==
    \A a \in Answers : \A i \in Incidents :
        Open(rows[i]) /\ rows[i].since <= Tells(a.view, a.asked) => i \in a.red
=============================================================================
