---------------------------- MODULE InspectionPlan ----------------------------
(***************************************************************************)
(* Inspections as the control plane plans and reports them (planner-       *)
(* server, routers/inspection.py, inspection_control.py and                *)
(* inspection_reporting.py): templates of routes, schedules, dispatches of *)
(* missions, and the events, evidence and report of an analysis.           *)
(*                                                                         *)
(* A request reads its rows and commits later; it writes the columns it    *)
(* changed. Rows keep the site they were created at, and none of them is   *)
(* deleted but events, reports and their artifacts. Times are the numbers  *)
(* of the requests that took them, 0 for none. The geometry of routes,     *)
(* names, notes, assignees and alert rules take no part in what is checked.*)
(***************************************************************************)
EXTENDS Integers, FiniteSets

CONSTANTS
    Routes, Templates, Schedules, Missions,
    Premises,
    placeOf,         \* where each row is created; NoSite is possible for a mission
    None,           \* no link
    Clerks,         \* requests being served at one time
    MaxDispatches,  \* rows of dispatchrecord
    Agendas         \* the acts, the statuses that are asked for, how many requests and mishaps

NoSite == "no site"
ScheduleStatus == {"scheduled", "paused", "cancelled", "completed"}
DispatchStatus == {"queued", "assigned", "sent", "accepted", "completed", "failed"}
Deeds == {"route", "template", "retemplate", "schedule", "reschedule", "dispatch", "redispatch", "task", "report"}
Modes == {"normal", "no_findings", "analysis_failed"}

ASSUME PlanAssumption ==
    /\ NoSite \notin Premises
    /\ placeOf \in [Routes \cup Templates \cup Schedules \cup Missions -> Premises \cup {NoSite}]
    /\ \A x \in Routes \cup Templates \cup Schedules : placeOf[x] \in Premises
    /\ None \notin Routes \cup Templates \cup Schedules \cup Missions
    /\ MaxDispatches \in Nat
    /\ Agendas \subseteq [acts : SUBSET Deeds, asked : SUBSET (ScheduleStatus \cup DispatchStatus), requests : Nat, mishaps : Nat]

VARIABLES
    agenda,      \* never changes
    routes,      \* the routes there are
    templates, schedules, missions, dispatches,
    events,      \* the events of each mission
    reports,     \* the reports of each mission
    evidence,    \* events whose artifact has a row
    stored,      \* events whose picture is in the storage
    pages,       \* rows of the artifact inspection_report.html of each mission, by analysis
    page,        \* the analysis whose page the storage has under that name
    analyses,    \* analyses that have taken their time
    clerk,       \* what each request has read
    served,      \* requests so far
    mishaps      \* requests that died

planVars == <<agenda, routes, templates, schedules, missions, dispatches, events, reports, evidence, stored, pages, page, analyses, clerk, served, mishaps>>
analysis == <<events, reports, evidence, stored, pages, page, analyses>>

Template == [known : BOOLEAN, route : Routes \cup {None}]
Schedule == [known : BOOLEAN, route : Routes \cup {None}, template : Templates \cup {None}, status : ScheduleStatus,
             planned : BOOLEAN, recurs : BOOLEAN, next : {"none", "planned", "follow-up"}, paused : BOOLEAN,
             ran : Nat, dispatched : Nat, outcome : {"none", "scheduled_for_execution", "dispatch_created", "paused", "cancelled", "completed"}]
Mission == [known : BOOLEAN, site : Premises \cup {NoSite},
            status : {"ready", "scheduled", "dispatched", "running", "completed", "failed", "report_ready"}]
Dispatch == [mission : Missions \cup {None}, route : Routes \cup {None}, template : Templates \cup {None},
             schedule : Schedules \cup {None}, status : DispatchStatus, accepted : Nat, closed : Nat]
DispatchIds == 1 .. MaxDispatches
AnalysisReport == [number : Nat, ready : BOOLEAN, count : Nat]

NewTemplate == [known |-> FALSE, route |-> None]
NewSchedule == [known |-> FALSE, route |-> None, template |-> None, status |-> "scheduled", planned |-> FALSE, recurs |-> FALSE,
                next |-> "none", paused |-> FALSE, ran |-> 0, dispatched |-> 0, outcome |-> "none"]
NewDispatch == [mission |-> None, route |-> None, template |-> None, schedule |-> None, status |-> "queued", accepted |-> 0, closed |-> 0]

\* What a request has read (was) and what it will write (now) of a dispatch, a mission's
\* status and a schedule; or the reports and events it will replace.
Waiting == [does |-> "nothing", id |-> 0, mission |-> None, was |-> NewDispatch, now |-> NewDispatch, statusWas |-> "ready",
            status |-> "ready", schedule |-> None, planWas |-> NewSchedule, plan |-> NewSchedule, mode |-> "normal",
            reports |-> {}, events |-> {}, old |-> 0, at |-> 0]

PlanInit ==
    /\ agenda \in Agendas
    /\ routes = {}
    /\ templates = [t \in Templates |-> NewTemplate]
    /\ schedules = [s \in Schedules |-> NewSchedule]
    /\ missions \in [Missions -> {m \in Mission : m.status = "ready" /\ (m.known \/ m.site = NoSite)}]
    /\ \A m \in Missions : missions[m].known => missions[m].site = placeOf[m]
    /\ dispatches = [d \in DispatchIds |-> NewDispatch]
    /\ events = [m \in Missions |-> {}] /\ reports = [m \in Missions |-> {}]
    /\ evidence = {} /\ stored = {} /\ analyses = 0
    /\ pages = [m \in Missions |-> {}] /\ page = [m \in Missions |-> 0]
    /\ clerk = [c \in Clerks |-> Waiting]
    /\ served = 0 /\ mishaps = 0

Serve(act) == act \in agenda.acts /\ served < agenda.requests /\ served' = served + 1
ThisRequest == served + 1

-----------------------------------------------------------------------------
(* Links: a row refers to rows that exist and lie at its site. *)

RouteAt(r, site) == r \in routes /\ placeOf[r] = site
TemplateAt(t, site) == t \in Templates /\ templates[t].known /\ placeOf[t] = site
ScheduleAt(s, site) == s \in Schedules /\ schedules[s].known /\ placeOf[s] = site

\* A mutant of ValidLinks: the template's site is not asked.
ValidRoute(site, r, t) ==
    /\ r # None \/ t # None
    /\ r # None => RouteAt(r, site)
    /\ t # None => templates[t].known
    /\ r # None /\ t # None => templates[t].route \in {None, r}

\* _validate_schedule_links. (An empty string for an id is neither None nor looked
\* up: the write of such a request ends at the foreign key and is rolled back.)
ValidLinks(site, r, t) ==
    /\ r # None \/ t # None
    /\ r # None => RouteAt(r, site)
    /\ t # None => TemplateAt(t, site)
    /\ r # None /\ t # None => templates[t].route \in {None, r}

CreateRoute(r) ==
    /\ "route" \in agenda.acts /\ r \notin routes
    /\ routes' = routes \cup {r}
    /\ UNCHANGED <<agenda, templates, schedules, missions, dispatches, analysis, clerk, served, mishaps>>

CreateTemplate(t, r) ==
    /\ Serve("template") /\ ~templates[t].known
    /\ r # None => RouteAt(r, placeOf[t])
    /\ templates' = [templates EXCEPT ![t] = [known |-> TRUE, route |-> r]]
    /\ UNCHANGED <<agenda, routes, schedules, missions, dispatches, analysis, clerk, mishaps>>

\* patch_template: the schedules that have the template are not looked at.
PatchTemplate(t, r) ==
    /\ Serve("retemplate") /\ templates[t].known
    /\ RouteAt(r, placeOf[t])
    /\ templates' = [templates EXCEPT ![t].route = r]
    /\ UNCHANGED <<agenda, routes, schedules, missions, dispatches, analysis, clerk, mishaps>>

-----------------------------------------------------------------------------
(* Schedules. *)

FollowUp(s) == IF s.recurs THEN "follow-up" ELSE "none"

\* normalize_schedule_state
NormalizedSchedule(s, now) ==
    CASE s.status = "scheduled" -> [s EXCEPT !.paused = FALSE, !.outcome = "scheduled_for_execution",
                                             !.next = IF s.planned THEN "planned" ELSE FollowUp(s)]
      [] s.status = "paused"    -> [s EXCEPT !.paused = TRUE, !.next = "none", !.outcome = "paused"]
      [] s.status = "cancelled" -> [s EXCEPT !.paused = FALSE, !.next = "none", !.ran = now, !.outcome = "cancelled"]
      [] s.status = "completed" -> [s EXCEPT !.paused = FALSE, !.next = FollowUp(s), !.ran = now, !.outcome = "completed"]

CreateSchedule(s, r, t, status, planned, recurs) ==
    /\ Serve("schedule") /\ ~schedules[s].known
    /\ ValidLinks(placeOf[s], r, t)
    /\ schedules' = [schedules EXCEPT ![s] =
           NormalizedSchedule([NewSchedule EXCEPT !.known = TRUE, !.route = r, !.template = t, !.status = status,
                                                  !.planned = planned, !.recurs = recurs], ThisRequest)]
    /\ UNCHANGED <<agenda, routes, templates, missions, dispatches, analysis, clerk, mishaps>>

\* A body's field that is None leaves the column alone.
Given(new, old) == IF new = None THEN old ELSE new

PatchSchedule(c, s, r, t, status, planned, recurs) ==
    LET was == schedules[s]
        now == NormalizedSchedule([was EXCEPT !.route = Given(r, @), !.template = Given(t, @), !.status = Given(status, @),
                                                !.planned = @ \/ planned, !.recurs = recurs], ThisRequest)
    IN
    /\ Serve("reschedule") /\ was.known
    /\ clerk[c] = Waiting
    /\ ValidLinks(placeOf[s], now.route, now.template)
    /\ clerk' = [clerk EXCEPT ![c] = [Waiting EXCEPT !.does = "reschedule", !.schedule = s, !.planWas = was, !.plan = now]]
    /\ UNCHANGED <<agenda, routes, templates, schedules, missions, dispatches, analysis, mishaps>>

-----------------------------------------------------------------------------
(* Dispatches. *)

\* normalize_dispatch_state
NormalizedDispatch(d, now) ==
    [d EXCEPT !.accepted = IF d.status \in {"accepted", "completed"} /\ @ = 0 THEN now ELSE @,
              !.closed = IF d.status \in {"completed", "failed"} THEN now ELSE 0]

\* mission_status_for_dispatch
StatusFor(status) ==
    CASE status = "queued" -> "scheduled"
      [] status \in {"assigned", "sent"} -> "dispatched"
      [] status = "accepted" -> "running"
      [] status \in {"completed", "failed"} -> status

\* mark_schedule_dispatched
Marked(s, now) == [s EXCEPT !.dispatched = now, !.outcome = IF s.status = "scheduled" THEN "dispatch_created" ELSE @]

BeginDispatch(c, act, id, m, was, now, s, marks) ==
    clerk' = [clerk EXCEPT ![c] =
        [Waiting EXCEPT !.does = act, !.id = id, !.mission = m, !.was = was, !.now = now,
                        !.statusWas = missions[m].status, !.status = StatusFor(now.status),
                        !.schedule = s, !.planWas = IF s = None THEN NewSchedule ELSE schedules[s],
                        !.plan = IF s = None THEN NewSchedule ELSE IF marks THEN Marked(schedules[s], ThisRequest) ELSE schedules[s]]]

\* dispatch_mission: any dispatch of the mission is used again; without one a row is added.
DispatchesOf(m) == {d \in DispatchIds : dispatches[d].mission = m}
DispatchMission(c, m, r, t, s, status) ==
    /\ Serve("dispatch") /\ missions[m].known
    /\ missions[m].site # NoSite
    /\ clerk[c] = Waiting
    /\ ValidLinks(missions[m].site, r, t)
    /\ s # None => ScheduleAt(s, missions[m].site)
    /\ \E d \in IF DispatchesOf(m) = {} THEN {0} ELSE DispatchesOf(m) :
          LET was == IF d = 0 THEN NewDispatch ELSE dispatches[d]
              now == NormalizedDispatch([was EXCEPT !.mission = m, !.route = r, !.template = t, !.schedule = s, !.status = status], ThisRequest)
          IN  BeginDispatch(c, "dispatch", d, m, was, now, s, TRUE)
    /\ UNCHANGED <<agenda, routes, templates, schedules, missions, dispatches, analysis, mishaps>>

PatchDispatch(c, d, r, t, s, status) ==
    LET was == dispatches[d]
        m == was.mission
        now == NormalizedDispatch([was EXCEPT !.route = Given(r, @), !.template = Given(t, @), !.schedule = Given(s, @),
                                              !.status = Given(status, @)], ThisRequest)
    IN
    /\ Serve("redispatch") /\ m # None
    /\ missions[m].site # NoSite
    /\ clerk[c] = Waiting
    /\ ValidLinks(missions[m].site, now.route, now.template)
    /\ now.schedule # None => ScheduleAt(now.schedule, missions[m].site)
    /\ BeginDispatch(c, "redispatch", d, m, was, now, now.schedule, now.status \in {"assigned", "sent", "accepted", "completed"})
    /\ UNCHANGED <<agenda, routes, templates, schedules, missions, dispatches, analysis, mishaps>>

\* The columns that differ from what was read.
Columns(was, now, row) == [f \in DOMAIN row |-> IF now[f] # was[f] THEN now[f] ELSE row[f]]
Replan(w) ==
    schedules' = IF w.schedule = None THEN schedules
                 ELSE [schedules EXCEPT ![w.schedule] = Columns(w.planWas, w.plan, @)]

CommitSchedule(c) ==
    /\ clerk[c].does = "reschedule"
    /\ Replan(clerk[c])
    /\ clerk' = [clerk EXCEPT ![c] = Waiting]
    /\ UNCHANGED <<agenda, routes, templates, missions, dispatches, analysis, served, mishaps>>

CommitDispatch(c) ==
    LET w == clerk[c] IN
    /\ w.does \in {"dispatch", "redispatch"}
    /\ \/ w.id # 0 /\ dispatches' = [dispatches EXCEPT ![w.id] = Columns(w.was, w.now, @)]
       \/ w.id = 0 /\ \E d \in DispatchesOf(None) :
             /\ \A e \in DispatchesOf(None) : d <= e
             /\ dispatches' = [dispatches EXCEPT ![d] = w.now]
    /\ missions' = [missions EXCEPT ![w.mission].status = IF w.status # w.statusWas THEN w.status ELSE @]
    /\ Replan(w)
    /\ clerk' = [clerk EXCEPT ![c] = Waiting]
    /\ UNCHANGED <<agenda, routes, templates, analysis, served, mishaps>>

\* create_route_flight_task: a mission at the route's site and its dispatch; when the
\* mission cannot be materialized nothing is kept.
CreateFlightTask(m, r) ==
    /\ Serve("task") /\ ~missions[m].known
    /\ r \in routes
    /\ missions' = [missions EXCEPT ![m] = [known |-> TRUE, site |-> placeOf[r], status |-> StatusFor("assigned")]]
    /\ \E d \in DispatchesOf(None) :
          /\ \A e \in DispatchesOf(None) : d <= e
          /\ dispatches' = [dispatches EXCEPT ![d] = [NewDispatch EXCEPT !.mission = m, !.route = r, !.status = "assigned"]]
    /\ UNCHANGED <<agenda, routes, templates, schedules, analysis, clerk, mishaps>>

-----------------------------------------------------------------------------
(* Analysis: reprocess_demo_analysis. *)

\* The events of one analysis; the numbers of two analyses differ.
Found(at, mode) == IF mode = "normal" THEN {2 * at, 2 * at + 1} ELSE {}
Succeeds(mode) == mode # "analysis_failed"

\* mission_status_for_report
StatusAfter(status, mode) ==
    IF ~Succeeds(mode) THEN "failed" ELSE IF status = "completed" THEN "report_ready" ELSE status

Reprocess(c, m, mode) ==
    /\ Serve("report") /\ missions[m].known
    /\ clerk[c] = Waiting
    /\ clerk' = [clerk EXCEPT ![c] =
           [Waiting EXCEPT !.does = "read reports", !.mission = m, !.mode = mode, !.reports = reports[m],
                           !.statusWas = missions[m].status, !.status = StatusAfter(missions[m].status, mode)]]
    /\ UNCHANGED <<agenda, routes, templates, schedules, missions, dispatches, analysis, mishaps>>

ReadEvents(c) ==
    /\ clerk[c].does = "read reports"
    /\ clerk' = [clerk EXCEPT ![c].does = "read events", ![c].events = events[clerk[c].mission]]
    /\ UNCHANGED <<agenda, routes, templates, schedules, missions, dispatches, analysis, served, mishaps>>

\* If a report had a page, the first row of that name goes, whichever report it is of;
\* then the analysis takes its time.
ReadPages(c) ==
    LET w == clerk[c]
        rows == IF \E r \in w.reports : r.ready THEN pages[w.mission] ELSE {}
    IN
    /\ w.does = "read events"
    /\ \E old \in IF rows = {} THEN {0} ELSE rows :
          clerk' = [clerk EXCEPT ![c].does = "analyse", ![c].old = old, ![c].at = analyses + 1]
    /\ analyses' = analyses + 1
    /\ UNCHANGED <<agenda, routes, templates, schedules, missions, dispatches, events, reports, evidence, stored,
                   pages, page, served, mishaps>>

\* The pictures and the page are in the storage before the rows are committed.
StoreEvidence(c) ==
    LET w == clerk[c] IN
    /\ w.does = "analyse"
    /\ clerk' = [clerk EXCEPT ![c].does = "stored"]
    /\ stored' = stored \cup Found(w.at, w.mode)
    /\ page' = [page EXCEPT ![w.mission] = IF Succeeds(w.mode) THEN w.at ELSE @]
    /\ UNCHANGED <<agenda, routes, templates, schedules, missions, dispatches, events, reports, evidence, pages, analyses,
                   served, mishaps>>

\* A mutant of CommitAnalysis: all rows of the page's name go with the commit.
SweepAnalysis(c) ==
    LET w == clerk[c] new == Found(w.at, w.mode) IN
    /\ w.does = "stored"
    /\ events' = [events EXCEPT ![w.mission] = (@ \ w.events) \cup new]
    /\ evidence' = (evidence \ w.events) \cup new
    /\ pages' = [pages EXCEPT ![w.mission] = IF Succeeds(w.mode) THEN {w.at} ELSE {}]
    /\ reports' = [reports EXCEPT ![w.mission] =
           (@ \ w.reports) \cup {[number |-> w.at, ready |-> Succeeds(w.mode), count |-> Cardinality(new)]}]
    /\ missions' = [missions EXCEPT ![w.mission].status = IF w.status # w.statusWas THEN w.status ELSE @]
    /\ clerk' = [clerk EXCEPT ![c] = Waiting]
    /\ UNCHANGED <<agenda, routes, templates, schedules, dispatches, stored, page, analyses, served, mishaps>>

CommitAnalysis(c) ==
    LET w == clerk[c] new == Found(w.at, w.mode) IN
    /\ w.does = "stored"
    /\ events' = [events EXCEPT ![w.mission] = (@ \ w.events) \cup new]
    /\ evidence' = (evidence \ w.events) \cup new
    /\ pages' = [pages EXCEPT ![w.mission] = (@ \ {w.old}) \cup IF Succeeds(w.mode) THEN {w.at} ELSE {}]
    /\ reports' = [reports EXCEPT ![w.mission] =
           (@ \ w.reports) \cup {[number |-> w.at, ready |-> Succeeds(w.mode), count |-> Cardinality(new)]}]
    /\ missions' = [missions EXCEPT ![w.mission].status = IF w.status # w.statusWas THEN w.status ELSE @]
    /\ clerk' = [clerk EXCEPT ![c] = Waiting]
    /\ UNCHANGED <<agenda, routes, templates, schedules, dispatches, stored, page, analyses, served, mishaps>>

DieAtWork(c) ==
    /\ clerk[c] # Waiting
    /\ clerk' = [clerk EXCEPT ![c] = Waiting]
    /\ mishaps < agenda.mishaps /\ mishaps' = mishaps + 1
    /\ UNCHANGED <<agenda, routes, templates, schedules, missions, dispatches, analysis, served>>

\* The steps of one request.
ClerkNext(c) ==
    \/ \E s \in Schedules, r \in Routes \cup {None}, t \in Templates \cup {None},
          status \in (agenda.asked \cap ScheduleStatus) \cup {None}, planned, recurs \in BOOLEAN :
          PatchSchedule(c, s, r, t, status, planned, recurs)
    \/ CommitSchedule(c)
    \/ \E m \in Missions, r \in Routes \cup {None}, t \in Templates \cup {None}, s \in Schedules \cup {None},
          status \in agenda.asked \cap DispatchStatus : DispatchMission(c, m, r, t, s, status)
    \/ \E d \in DispatchIds, r \in Routes \cup {None}, t \in Templates \cup {None}, s \in Schedules \cup {None},
          status \in (agenda.asked \cap DispatchStatus) \cup {None} : PatchDispatch(c, d, r, t, s, status)
    \/ CommitDispatch(c)
    \/ \E m \in Missions, mode \in Modes : Reprocess(c, m, mode)
    \/ ReadEvents(c) \/ ReadPages(c) \/ StoreEvidence(c) \/ CommitAnalysis(c)
    \/ DieAtWork(c)

PlanNext ==
    \/ \E r \in Routes : CreateRoute(r)
    \/ \E t \in Templates, r \in Routes \cup {None} : CreateTemplate(t, r)
    \/ \E t \in Templates, r \in Routes : PatchTemplate(t, r)
    \/ \E s \in Schedules, r \in Routes \cup {None}, t \in Templates \cup {None}, status \in agenda.asked \cap ScheduleStatus,
          planned, recurs \in BOOLEAN : CreateSchedule(s, r, t, status, planned, recurs)
    \/ \E m \in Missions, r \in Routes : CreateFlightTask(m, r)
    \/ \E c \in Clerks : ClerkNext(c)

PlanSpec == PlanInit /\ [][PlanNext]_planVars

-----------------------------------------------------------------------------
PlanTypeOK ==
    /\ agenda \in Agendas /\ routes \subseteq Routes
    /\ templates \in [Templates -> Template] /\ schedules \in [Schedules -> Schedule]
    /\ missions \in [Missions -> Mission] /\ dispatches \in [DispatchIds -> Dispatch]
    /\ events \in [Missions -> SUBSET Nat] /\ evidence \subseteq Nat /\ stored \subseteq Nat
    /\ reports \in [Missions -> SUBSET AnalysisReport]
    /\ pages \in [Missions -> SUBSET Nat] /\ page \in [Missions -> Nat] /\ analyses \in Nat
    /\ served \in 0 .. agenda.requests /\ mishaps \in 0 .. agenda.mishaps

\* Links never leave a site: what a template, a schedule or a dispatch refers to exists
\* and lies at its own site, however patches of the rows at both ends overlap
\* (_require_route, _require_template, _require_schedule).
LinksStayHome ==
    /\ \A t \in Templates : templates[t].route # None => RouteAt(templates[t].route, placeOf[t])
    /\ \A s \in Schedules :
          /\ schedules[s].route # None => RouteAt(schedules[s].route, placeOf[s])
          /\ schedules[s].template # None => TemplateAt(schedules[s].template, placeOf[s])
    /\ \A d \in DispatchIds : dispatches[d].mission # None =>
          LET site == missions[dispatches[d].mission].site IN
          /\ dispatches[d].route # None => RouteAt(dispatches[d].route, site)
          /\ dispatches[d].template # None => TemplateAt(dispatches[d].template, site)
          /\ dispatches[d].schedule # None => ScheduleAt(dispatches[d].schedule, site)

\* The report of a mission is its newest (load_reporting_state).
Shown(m) == {r \in reports[m] : \A other \in reports[m] : other.number <= r.number}

\* What is shown of an analysis opens: the artifact of every event has a row and its
\* picture is stored, and the shown report, when it is ready, has a page, though analyses
\* of one mission overlap, delete each other's rows by name and die half-way. It asks for
\* the row the report's own analysis wrote; the download is content with any row of the
\* mission and the name.
EvidenceOpens ==
    \A m \in Missions :
        /\ events[m] \subseteq evidence \cap stored
        /\ \A r \in Shown(m) : r.ready => r.number \in pages[m] /\ page[m] # 0

\* The page that opens is the one of the report. Analyses that overlap store theirs under one name.
PageIsOfReport ==
    \A m \in Missions : \A r \in Shown(m) : r.ready => page[m] = r.number

\* The report says how many events there are (event_count). Two analyses that overlap
\* leave the events of both.
ReportCountsEvents ==
    \A m \in Missions : \A r \in Shown(m) : r.count = Cardinality(events[m])

\* A mission goes as its dispatch goes. Two patches that overlap mix their columns.
MissionFollowsDispatch ==
    \A d \in DispatchIds : dispatches[d].mission # None =>
        missions[dispatches[d].mission].status \in {StatusFor(dispatches[d].status), "report_ready", "failed"}

\* normalize_dispatch_state, for one request at a time.
ClosedWhenEnded ==
    \A d \in DispatchIds : dispatches[d].closed # 0 <=> dispatches[d].status \in {"completed", "failed"}

\* _validate_schedule_links (template_route_mismatch) is not asked when a template is patched.
RoutesAgree ==
    \A s \in Schedules : schedules[s].route # None /\ schedules[s].template # None =>
        templates[schedules[s].template].route \in {None, schedules[s].route}

\* A mission has one dispatch (dispatch_mission looks for it first).
OneDispatch == \A m \in Missions : Cardinality(DispatchesOf(m)) <= 1
===============================================================================
