---------------------------- MODULE DecisionLedger ----------------------------
(***************************************************************************)
(* The decision ledger (planner-server, dispatch.py, decision_ledger.py).  *)
(* A dispatch sheet read by a camera opens a plan point for its machine    *)
(* and day; people report what was made or who was sent; the row is judged *)
(* when the report is written. Sheets arrive with the camera's posts       *)
(* (upsert_plan_point_from_observation) and with a reconciliation of a     *)
(* whole day; reports with LINE messages and with the web page.            *)
(*                                                                         *)
(* A request reads, and commits later: what it wrote are the columns it    *)
(* changed against the row it had read (the session's unit of work). The   *)
(* ledger has no unique key for a machine and a day.                       *)
(*                                                                         *)
(* A planned total that could not be read is 0; people are numbers in the  *)
(* order of their names; Nothing stands for no actual, Unclear for one     *)
(* that says no number and no name. Sheets of one camera and total do not  *)
(* differ otherwise.                                                       *)
(***************************************************************************)
EXTENDS Integers, FiniteSets

CONSTANTS
    LedgerCameras,
    homeOf,         \* the site of each camera
    Machines,       \* machine numbers; two sites may use the same
    NoMachine,      \* the sheet's machine could not be read
    Amounts,        \* quantities on sheets and in reports
    Crew,           \* people who can be sent to a machine
    Requests,       \* requests being served at one time
    MaxPoints,      \* rows of decision_points
    LastMoment,
    dayOf, shiftOf, \* the site's day and shift of each moment
    RosterChoices,  \* rosters a foreman may upload for a day
    SkillChoices,   \* skill matrices
    ZoneChoices,    \* which zone lists which machine
    Offices         \* what may happen: acts, the sheets that are posted, and how many requests and lapses at most

Nowhere == "nowhere"
NoZone == "no zone"
Nothing == -1
Unclear == -2
Actuals == Amounts \cup Crew \cup {Nothing, Unclear}
Homes == {homeOf[k] : k \in LedgerCameras}
Moments == 0..LastMoment
Days == {dayOf[t] : t \in Moments}
Acts == {"sheet", "reconcile", "report", "record", "attribute", "dispatch", "configure", "later"}
Shifts == {"day", "night"}
Sheet == [camera : LedgerCameras, at : Moments, machine : Machines \cup {NoMachine}, total : Amounts \cup {0}]
RosterEntry == [who : Crew, shift : Shifts \cup {"full"}, machines : SUBSET Machines, zone : STRING]

ASSUME LedgerAssumption ==
    /\ NoMachine \notin Machines /\ Nowhere \notin Homes
    /\ Amounts \subseteq Nat /\ Crew \subseteq Nat
    /\ {MaxPoints, LastMoment} \subseteq Nat
    /\ Offices \subseteq [acts : SUBSET Acts, sheets : SUBSET Sheet, requests : Nat, lapses : Nat]
    /\ \A t \in Moments : shiftOf[t] \in Shifts
    /\ RosterChoices \subseteq SUBSET RosterEntry
    /\ SkillChoices \subseteq [Crew \X Machines -> 0..3]
    /\ ZoneChoices \subseteq [Machines -> STRING]

VARIABLES
    office,    \* never changes
    moment,
    sheets,    \* the observations as committed
    points,    \* rows of decision_points
    requests,  \* what each request has read and is going to write
    roster, skills, zones,
    plans,     \* history: the plans each row ever had
    heard,     \* history: the actuals each row ever had
    voices,    \* history: <<site, day>> of the LINE reports written to a row
    begun,     \* requests so far
    lapses     \* requests that died, hooks that failed

config == <<roster, skills, zones>>
ledgerVars == <<office, begun, moment, sheets, points, requests, config, plans, heard, voices, lapses>>

PointIds == 1..MaxPoints
NoPlan == [total |-> 0, camera |-> Nowhere]
Plan == [total : Amounts \cup {0}, camera : LedgerCameras \cup {Nowhere}]
PointRow == [kind : {"absent", "plan", "dispatch"}, site : Homes \cup {Nowhere}, machine : Machines \cup {NoMachine},
             day : Days, plan : Plan, guess : SUBSET Crew, actual : Actuals,
             verdict : {"none", "yes", "no"}, status : {"awaiting_actual", "resolved"}, attribution : {"none", "given"}]
NoRow == [kind |-> "absent", site |-> Nowhere, machine |-> NoMachine, day |-> dayOf[0], plan |-> NoPlan, guess |-> {},
          actual |-> Nothing, verdict |-> "none", status |-> "awaiting_actual", attribution |-> "none"]

NoSheet == [camera |-> Nowhere, at |-> 0, machine |-> NoMachine, total |-> 0]

\* What a request will write to one row: found is the row it read, 0 for a new one.
Job == [found : 0..MaxPoints, seen : PointRow, site : Homes \cup {Nowhere}, machine : Machines,
        day : Days, plan : Plan, actual : Actuals]
Served == [does : {"idle", "sheet", "reconcile", "report", "record"}, sheet : Sheet \cup {NoSheet}, day : Days, jobs : SUBSET Job]
Free == [does |-> "idle", sheet |-> NoSheet, day |-> dayOf[0], jobs |-> {}]

LedgerInit ==
    /\ office \in Offices
    /\ moment = 0 /\ begun = 0
    /\ sheets = {}
    /\ points = [i \in PointIds |-> NoRow]
    /\ requests = [c \in Requests |-> Free]
    /\ roster \in [Days -> RosterChoices] /\ skills \in SkillChoices /\ zones \in ZoneChoices
    /\ plans = [i \in PointIds |-> {}] /\ heard = [i \in PointIds |-> {}] /\ voices = [i \in PointIds |-> {}]
    /\ lapses = 0

Lapse == lapses < office.lapses /\ lapses' = lapses + 1
Begin(c, does, sheet, day, jobs) ==
    /\ does \in office.acts /\ begun < office.requests
    /\ requests[c] = Free
    /\ begun' = begun + 1
    /\ requests' = [requests EXCEPT ![c] = [does |-> does, sheet |-> sheet, day |-> day, jobs |-> jobs]]
    /\ UNCHANGED <<office, moment, sheets, points, config, plans, heard, voices, lapses>>
Finish(c) == requests' = [requests EXCEPT ![c] = Free]

-----------------------------------------------------------------------------
(* compute_consistency, and the writes of one commit. *)

Distance(a, b) == IF a >= b THEN a - b ELSE b - a

\* A plan is met within 5 percent; a dispatch when one of the candidates was sent.
Consistent(kind, plan, guess, actual) ==
    CASE actual \in {Nothing, Unclear} -> "none"
      [] kind = "dispatch" /\ actual \notin {Nothing, Unclear} ->
            IF guess = {} THEN "none" ELSE IF actual \in guess THEN "yes" ELSE "no"
      [] kind # "dispatch" /\ actual \notin {Nothing, Unclear} ->
            IF plan.total <= 0 THEN "none" ELSE IF 20 * Distance(actual, plan.total) <= plan.total THEN "yes" ELSE "no"

\* The column is written if it changed against the row that was read.
Column(read, new, stored) == IF new # read THEN new ELSE stored

Replanned(row, job) == [row EXCEPT !.plan = Column(job.seen.plan, job.plan, @)]

\* record_actual, with the actual the request brings or, when it brings none, the one it read.
Brought(job) == IF job.actual = Nothing THEN job.seen.actual ELSE job.actual
\* A mutant of Recorded: an actual that says no number is a mismatch.
RecordedUnparsed(row, job, anew) ==
    [row EXCEPT
        !.actual = IF anew THEN Brought(job) ELSE Column(job.seen.actual, Brought(job), @),
        !.verdict = IF Brought(job) = Unclear THEN "no"
                    ELSE Consistent(job.seen.kind, job.seen.plan, job.seen.guess, Brought(job)),
        !.status = "resolved"]

\* When what else is recorded with it, the reporter, the channel or a note, is anew, the
\* whole column is written, the actual that was read with it.
Recorded(row, job, anew) ==
    [row EXCEPT
        !.actual = IF anew THEN Brought(job) ELSE Column(job.seen.actual, Brought(job), @),
        !.verdict = Column(job.seen.verdict, Consistent(job.seen.kind, job.seen.plan, job.seen.guess, Brought(job)), @),
        !.status = "resolved"]

Opened(job) ==
    [NoRow EXCEPT !.kind = "plan", !.site = job.site, !.machine = job.machine, !.day = job.day, !.plan = job.plan]

Remember ==
    /\ plans' = [i \in PointIds |-> plans[i] \cup {points'[i].plan}]
    /\ heard' = [i \in PointIds |-> heard[i] \cup {points'[i].actual}]

\* Rows are numbered as they are opened.
Unused == {i \in PointIds : points[i].kind = "absent"}
Unopened(S) == \A i \in Unused \ S : \A j \in S : j < i

\* The plans of a commit: rows that were found get theirs, the others are opened.
WritePlans(jobs) ==
    \E place \in [{job \in jobs : job.found = 0} -> Unused] :
        /\ Unopened({place[job] : job \in DOMAIN place})
        /\ \A j, k \in DOMAIN place : place[j] = place[k] => j = k
        /\ points' = [i \in PointIds |->
               IF \E job \in jobs : job.found = i THEN Replanned(points[i], CHOOSE job \in jobs : job.found = i)
               ELSE IF \E job \in DOMAIN place : place[job] = i THEN Opened(CHOOSE job \in DOMAIN place : place[job] = i)
               ELSE points[i]]
        /\ Remember

-----------------------------------------------------------------------------
(* Sheets. *)

\* plan_vs_actual rows of the machine and the day, of whatever site.
OnDay(machine, day) ==
    {i \in PointIds : points[i].kind = "plan" /\ points[i].machine = machine /\ points[i].day = day}
OnDayAt(site, machine, day) == {i \in OnDay(machine, day) : points[i].site = site}

\* .first() of a query without an order: any row, or none when there is none.
First(rows) == IF rows = {} THEN {0} ELSE rows

PlanJob(s, i) ==
    [found |-> i, seen |-> IF i = 0 THEN NoRow ELSE points[i], site |-> homeOf[s.camera], machine |-> s.machine,
     day |-> dayOf[s.at], plan |-> [total |-> s.total, camera |-> s.camera], actual |-> Nothing]

\* submit_camera_ocr_observation up to its commit; the hook reads the row it will write.
PostSheet(c, s) ==
    /\ s.at <= moment
    /\ \/ s.machine = NoMachine /\ Begin(c, "sheet", s, dayOf[s.at], {})
       \/ s.machine # NoMachine /\ \E i \in First(OnDay(s.machine, dayOf[s.at])) :
             Begin(c, "sheet", s, dayOf[s.at], {PlanJob(s, i)})

CommitSheet(c) ==
    /\ requests[c].does = "sheet"
    /\ sheets' = sheets \cup {requests[c].sheet}
    /\ WritePlans(requests[c].jobs)
    /\ Finish(c)
    /\ UNCHANGED <<office, begun, moment, config, voices, lapses>>

\* The hook failed: its savepoint is rolled back and the observation stays.
CommitSheetAlone(c) ==
    /\ requests[c].does = "sheet"
    /\ sheets' = sheets \cup {requests[c].sheet}
    /\ Finish(c) /\ Lapse
    /\ UNCHANGED <<office, begun, moment, points, config, plans, heard, voices>>

\* The camera's newest observation of the day; two of one moment are in no order.
Newest(k, day) ==
    {s \in sheets : /\ s.camera = k /\ dayOf[s.at] = day
                    /\ \A other \in sheets : other.camera = k /\ dayOf[other.at] = day => other.at <= s.at}

\* reconcile_work_orders reads, for each camera, its newest sheet and the row of its own
\* site. Of two cameras on one machine the later in the loop prevails.
JobFor(s) == {PlanJob(s, i) : i \in First(OnDayAt(homeOf[s.camera], s.machine, dayOf[s.at]))}
SameRow(j, k) == j.site = k.site /\ j.machine = k.machine
Reconcile(c, day) ==
    \E read \in SUBSET sheets, jobs \in SUBSET UNION {JobFor(s) : s \in {x \in sheets : x.machine # NoMachine}} :
        /\ \A k \in LedgerCameras : Newest(k, day) # {} => \E s \in read : s \in Newest(k, day)
        /\ \A s \in read : s \in Newest(s.camera, day) /\ \A x \in read : x.camera = s.camera => x = s
        /\ jobs \subseteq UNION {JobFor(s) : s \in {x \in read : x.machine # NoMachine}}
        /\ \A s \in read : s.machine # NoMachine => \E job \in jobs, mine \in JobFor(s) : SameRow(job, mine)
        /\ \A j, k \in jobs : SameRow(j, k) => j = k
        /\ Begin(c, "reconcile", NoSheet, day, jobs)

CommitReconcile(c) ==
    /\ requests[c].does = "reconcile"
    /\ WritePlans(requests[c].jobs)
    /\ Finish(c)
    /\ UNCHANGED <<office, begun, moment, sheets, config, voices, lapses>>

-----------------------------------------------------------------------------
(* Reports. *)

ActualJob(i, site, actual) ==
    [found |-> i, seen |-> points[i], site |-> site, machine |-> points[i].machine,
     day |-> points[i].day, plan |-> points[i].plan, actual |-> actual]

\* A mutant of Report: the row of the machine at whatever site.
ReportByMachine(c, site, machine, amount) ==
    \E i \in OnDay(machine, dayOf[moment]) :
        Begin(c, "report", NoSheet, dayOf[moment], {ActualJob(i, site, amount)})

\* A LINE message "回報 machine amount" of a conversation bound to the site: today's row,
\* the newest by occurred_at, which all of one day share. Without one nothing is written.
Report(c, site, machine, amount) ==
    \E i \in OnDayAt(site, machine, dayOf[moment]) :
        Begin(c, "report", NoSheet, dayOf[moment], {ActualJob(i, site, amount)})

\* POST /v1/decision-points/{id}/actual: any row, and a body that may name no actual.
RecordOnPage(c, i, actual) ==
    /\ points[i].kind # "absent"
    /\ actual \in (IF points[i].kind = "plan" THEN Amounts ELSE Crew) \cup {Nothing, Unclear}
    /\ Begin(c, "record", NoSheet, points[i].day, {ActualJob(i, points[i].site, actual)})

CommitActual(c) ==
    /\ requests[c].does \in {"report", "record"}
    /\ \E job \in requests[c].jobs, anew \in BOOLEAN :
          /\ points' = [points EXCEPT ![job.found] = Recorded(@, job, anew)]
          /\ voices' = [voices EXCEPT ![job.found] =
                 IF requests[c].does = "report" THEN @ \cup {<<job.site, requests[c].day>>} ELSE @]
    /\ Remember
    /\ Finish(c)
    /\ UNCHANGED <<office, begun, moment, sheets, config, lapses>>

\* The request dies, or its transaction is rolled back.
Die(c) ==
    /\ requests[c] # Free
    /\ Finish(c) /\ Lapse
    /\ UNCHANGED <<office, begun, moment, sheets, points, config, plans, heard, voices>>

\* attribute_decision_point: its columns depend on nothing it reads.
Attribute(i, reason) ==
    /\ "attribute" \in office.acts
    /\ points[i].kind # "absent"
    /\ points' = [points EXCEPT ![i].attribution = reason]
    /\ UNCHANGED <<office, begun, moment, sheets, requests, config, plans, heard, voices, lapses>>

-----------------------------------------------------------------------------
(* Dispatch points: a shadow prediction, written with or before the actual. *)

OnShift(day, shift) == {e \in roster[day] : e.shift \in {shift, "full"}}
Score(e, machine) ==
    LET level == skills[<<e.who, machine>>]
        able == IF level > 0 THEN 10 * level ELSE IF machine \in e.machines THEN 8 ELSE 0
        near == IF zones[machine] # NoZone /\ e.zone = zones[machine] THEN 3 ELSE 0
    IN able + near
Ahead(e, f, machine) ==
    \/ Score(e, machine) > Score(f, machine)
    \/ Score(e, machine) = Score(f, machine) /\ e.who < f.who

\* suggest_assignees: the first two by score, then by name.
Suggested(machine, day, shift) ==
    {e.who : e \in {f \in OnShift(day, shift) : Cardinality({x \in OnShift(day, shift) : Ahead(x, f, machine)}) < 2}}

\* create_dispatch_point, from the page (no site), a LINE message or an incident's assignment.
CreateDispatch(site, machine, at, assignee) ==
    \E i \in Unused :
        LET guess == Suggested(machine, dayOf[at], shiftOf[at]) IN
        /\ "dispatch" \in office.acts /\ begun < office.requests
        /\ begun' = begun + 1
        /\ Unopened({i})
        /\ points' = [points EXCEPT ![i] =
               [NoRow EXCEPT !.kind = "dispatch", !.site = site, !.machine = machine, !.day = dayOf[at], !.guess = guess,
                             !.actual = assignee, !.verdict = Consistent("dispatch", NoPlan, guess, assignee),
                             !.status = IF assignee = Nothing THEN "awaiting_actual" ELSE "resolved"]]
        /\ Remember
        /\ UNCHANGED <<office, moment, sheets, requests, config, voices, lapses>>

PutRoster(day, entries) ==
    /\ "configure" \in office.acts
    /\ roster' = [roster EXCEPT ![day] = entries]
    /\ UNCHANGED <<office, begun, moment, sheets, points, requests, skills, zones, plans, heard, voices, lapses>>
PutSkillMatrix(matrix) ==
    /\ "configure" \in office.acts
    /\ skills' = matrix
    /\ UNCHANGED <<office, begun, moment, sheets, points, requests, roster, zones, plans, heard, voices, lapses>>
PutZones(listed) ==
    /\ "configure" \in office.acts
    /\ zones' = listed
    /\ UNCHANGED <<office, begun, moment, sheets, points, requests, roster, skills, plans, heard, voices, lapses>>

Later ==
    /\ "later" \in office.acts
    /\ moment < LastMoment /\ moment' = moment + 1
    /\ UNCHANGED <<office, begun, sheets, points, requests, config, plans, heard, voices, lapses>>

LedgerNext ==
    \/ \E c \in Requests :
          \/ \E s \in office.sheets : PostSheet(c, s)
          \/ CommitSheet(c) \/ CommitSheetAlone(c)
          \/ \E day \in Days : Reconcile(c, day)
          \/ CommitReconcile(c)
          \/ \E site \in Homes, machine \in Machines, amount \in Amounts : Report(c, site, machine, amount)
          \/ \E i \in PointIds, actual \in Actuals : RecordOnPage(c, i, actual)
          \/ CommitActual(c)
          \/ Die(c)
    \/ \E i \in PointIds, reason \in {"none", "given"} : Attribute(i, reason)
    \/ \E site \in Homes \cup {Nowhere}, machine \in Machines, at \in Moments, assignee \in Crew \cup {Nothing} :
          CreateDispatch(site, machine, at, assignee)
    \/ \E day \in Days, entries \in RosterChoices : PutRoster(day, entries)
    \/ \E matrix \in SkillChoices : PutSkillMatrix(matrix)
    \/ \E listed \in ZoneChoices : PutZones(listed)
    \/ Later

LedgerSpec == LedgerInit /\ [][LedgerNext]_ledgerVars

-----------------------------------------------------------------------------
(* The daily brief. *)

\* The rows of a site's brief, or of the organization's, and what is said of each.
Brief(site, day) ==
    {i \in PointIds : points[i].kind = "plan" /\ points[i].day = day /\ site \in {points[i].site, Nowhere}}
Line(i) ==
    CASE points[i].actual = Nothing -> "pending_actual"
      [] points[i].actual # Nothing /\ points[i].verdict = "yes" -> "consistent"
      [] points[i].actual # Nothing /\ points[i].verdict = "no" -> "mismatch"
      [] points[i].actual # Nothing /\ points[i].verdict = "none" -> "recorded"

-----------------------------------------------------------------------------
\* The state of the ledger is well formed.
LedgerTypeOK ==
    /\ office \in Offices
    /\ moment \in Moments
    /\ sheets \subseteq Sheet
    /\ points \in [PointIds -> PointRow]
    /\ requests \in [Requests -> Served]
    /\ roster \in [Days -> RosterChoices] /\ skills \in SkillChoices /\ zones \in ZoneChoices
    /\ plans \in [PointIds -> SUBSET Plan]
    /\ heard \in [PointIds -> SUBSET Actuals]
    /\ voices \in [PointIds -> SUBSET ((Homes \cup {Nowhere}) \X Days)]
    /\ begun \in 0..office.requests /\ lapses \in 0..office.lapses

\* A verdict was earned: an actual that was recorded for the row meets, or misses, a plan
\* the row had (or the candidates named before). However requests overlap, no verdict comes from another row's
\* numbers or from numbers nobody sent (record_actual, compute_consistency).
VerdictWasEarned ==
    \A i \in PointIds : points[i].verdict # "none" =>
        \E plan \in plans[i], actual \in heard[i] :
            Consistent(points[i].kind, plan, points[i].guess, actual) = points[i].verdict

\* What is reported at one site on one day is written to that site's and that day's row
\* (record_machine_actual), whoever else writes to the ledger meanwhile.
ReportsStayHome ==
    \A site \in Homes, day \in Days : \A i \in Brief(site, day) :
        \A voice \in voices[i] : voice = <<site, day>>

\* test_decision_ledger.py:219: sites that use one machine number are kept apart. The
\* upsert of an observation looks for the row without the site.
PlansStayHome ==
    \A i \in PointIds : points[i].kind = "plan" => homeOf[points[i].plan.camera] = points[i].site

\* dispatch.py:245: one point for each machine and date.
OnePointPerDay ==
    \A site \in Homes, machine \in Machines, day \in Days : Cardinality(OnDayAt(site, machine, day)) <= 1

\* The verdict of a row is about the numbers its line of the brief shows.
BriefIsTrue ==
    \A i \in PointIds : Line(i) \in {"consistent", "mismatch"} =>
        Consistent(points[i].kind, points[i].plan, points[i].guess, points[i].actual) =
            (IF Line(i) = "consistent" THEN "yes" ELSE "no")
===============================================================================
