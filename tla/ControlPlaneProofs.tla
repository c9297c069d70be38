-------------------------- MODULE ControlPlaneProofs --------------------------
(***************************************************************************)
(* The planner-server's records: the decision ledger, the molds' counters  *)
(* and the inspections, for every number of cameras, machines, groups,     *)
(* rows and overlapping requests; and the links of LineIdentity and the    *)
(* deliveries of LineWebhook, for every number of users, attempts, events  *)
(* and request threads, with what the webhook does to the links shown to   *)
(* be what LineIdentity allows. They share no rows: each part has a        *)
(* specification, an inductive invariant and theorems of its own.          *)
(***************************************************************************)
EXTENDS LineWebhook, DecisionLedger, MoldSentinel, InspectionPlan, FiniteSetTheorems, TLAPS

-----------------------------------------------------------------------------
(***************************************************************************)
(* DecisionLedger: what a request has read of a row stays true of what the *)
(* row ever had. A row never changes its kind, its place or the candidates *)
(* that were named for it.                                                 *)
(***************************************************************************)

Earned(i, verdict) ==
    verdict # "none" =>
        \E plan \in plans[i], actual \in heard[i] : Consistent(points[i].kind, plan, points[i].guess, actual) = verdict

RowSound(i) ==
    /\ points[i].kind # "absent" =>
          /\ points[i].machine \in Machines
          /\ points[i].plan \in plans[i] /\ points[i].actual \in heard[i]
    /\ Earned(i, points[i].verdict)
    /\ \A voice \in voices[i] : points[i].kind # "absent" /\ voice = <<points[i].site, points[i].day>>

\* What a request holds of a row.
ReadOf(job, i) ==
    /\ points[i].kind # "absent"
    /\ job.seen.kind = points[i].kind /\ job.seen.guess = points[i].guess
    /\ job.seen.plan \in plans[i] /\ job.seen.actual \in heard[i]
    /\ Earned(i, job.seen.verdict)
RequestSound(c) ==
    /\ requests[c].does = "sheet" => requests[c].sheet \in Sheet
    /\ \A job \in requests[c].jobs :
          /\ job.found # 0 => ReadOf(job, job.found)
          /\ requests[c].does \in {"report", "record"} => job.found # 0
          /\ requests[c].does = "report" => job.site = points[job.found].site /\ requests[c].day = points[job.found].day

LedgerSound ==
    /\ LedgerTypeOK
    /\ \A i \in PointIds : RowSound(i)
    /\ \A c \in Requests : RequestSound(c)

\* What no step takes back.
RowStays(i) ==
    /\ points[i].kind # "absent" =>
          /\ points'[i].kind = points[i].kind /\ points'[i].guess = points[i].guess
          /\ points'[i].site = points[i].site /\ points'[i].day = points[i].day
    /\ plans[i] \subseteq plans'[i] /\ heard[i] \subseteq heard'[i]

LEMMA LedgerConstants ==
    /\ 0 \in Moments /\ dayOf[0] \in Days
    /\ \A k \in LedgerCameras : homeOf[k] \in Homes
    /\ \A t \in Moments : dayOf[t] \in Days
    /\ Nothing \in Actuals /\ Unclear \in Actuals
<1>1. 0 \in Moments
  BY LedgerAssumption DEF Moments
<1> QED BY <1>1 DEF Days, Homes, Actuals

LEMMA NewLedgerRows ==
    NoPlan \in Plan /\ NoRow \in PointRow /\ Free \in Served
<1>1. NoPlan \in Plan
  BY DEF NoPlan, Plan
<1>2. NoRow \in PointRow
  BY <1>1, LedgerConstants DEF NoRow, PointRow
<1> QED BY <1>1, <1>2, LedgerConstants DEF Free, Served

LEMMA ConsistentTyped ==
    ASSUME NEW kind, NEW plan, NEW guess, NEW actual PROVE Consistent(kind, plan, guess, actual) \in {"none", "yes", "no"}
BY DEF Consistent

LEMMA BroughtTyped == ASSUME NEW job \in Job PROVE Brought(job) \in Actuals
BY DEF Brought, Job, PointRow

LEMMA ReplannedTyped ==
    ASSUME NEW row \in PointRow, NEW job \in Job
    PROVE /\ Replanned(row, job) \in PointRow
          /\ Replanned(row, job).kind = row.kind /\ Replanned(row, job).guess = row.guess
          /\ Replanned(row, job).site = row.site /\ Replanned(row, job).day = row.day
          /\ Replanned(row, job).machine = row.machine
          /\ Replanned(row, job).actual = row.actual /\ Replanned(row, job).verdict = row.verdict
<1>1. Column(job.seen.plan, job.plan, row.plan) \in Plan
  BY DEF Column, Job, PointRow
<1> QED BY <1>1 DEF Replanned, PointRow

LEMMA RecordedTyped ==
    ASSUME NEW row \in PointRow, NEW job \in Job, NEW anew \in BOOLEAN
    PROVE /\ Recorded(row, job, anew) \in PointRow
          /\ Recorded(row, job, anew).kind = row.kind /\ Recorded(row, job, anew).guess = row.guess
          /\ Recorded(row, job, anew).site = row.site /\ Recorded(row, job, anew).day = row.day
          /\ Recorded(row, job, anew).machine = row.machine /\ Recorded(row, job, anew).plan = row.plan
          /\ Recorded(row, job, anew).actual = IF anew THEN Brought(job) ELSE Column(job.seen.actual, Brought(job), row.actual)
          /\ Recorded(row, job, anew).verdict =
                 Column(job.seen.verdict, Consistent(job.seen.kind, job.seen.plan, job.seen.guess, Brought(job)), row.verdict)
<1> DEFINE judged == Consistent(job.seen.kind, job.seen.plan, job.seen.guess, Brought(job))
           actual == IF anew THEN Brought(job) ELSE Column(job.seen.actual, Brought(job), row.actual)
<1>1. actual \in Actuals
  BY BroughtTyped DEF Column, PointRow
<1>2. judged \in {"none", "yes", "no"}
  BY ConsistentTyped
<1> HIDE DEF judged
<1>3. Column(job.seen.verdict, judged, row.verdict) \in {"none", "yes", "no"}
  BY <1>2 DEF Column, PointRow
<1> HIDE DEF actual
<1>4. Recorded(row, job, anew) = [row EXCEPT !.actual = actual, !.verdict = Column(job.seen.verdict, judged, @), !.status = "resolved"]
  BY DEF Recorded, actual, judged
<1>5. Recorded(row, job, anew) = [row EXCEPT !.actual = actual, !.verdict = Column(job.seen.verdict, judged, row.verdict), !.status = "resolved"]
  BY <1>4
<1> QED BY <1>1, <1>3, <1>5 DEF PointRow, actual, judged

LEMMA OpenedTyped ==
    ASSUME NEW job \in Job
    PROVE /\ Opened(job) \in PointRow /\ Opened(job).kind = "plan" /\ Opened(job).machine = job.machine
          /\ Opened(job).verdict = "none"
BY NewLedgerRows DEF Opened, PointRow, Job, NoRow

LEMMA EarnedStays ==
    ASSUME NEW i, RowStays(i), points[i].kind # "absent", NEW verdict, Earned(i, verdict) PROVE Earned(i, verdict)'
BY DEF RowStays, Earned

LEMMA ReadStays ==
    ASSUME NEW i, RowStays(i), NEW job, ReadOf(job, i) PROVE ReadOf(job, i)'
<1>1. points[i].kind # "absent" /\ Earned(i, job.seen.verdict)
  BY DEF ReadOf
<1>2. Earned(i, job.seen.verdict)'
  BY <1>1, EarnedStays
<1> QED BY <1>2 DEF ReadOf, RowStays

\* A request that waits keeps what it knows.
LEMMA RequestStays ==
    ASSUME LedgerSound, \A i \in PointIds : RowStays(i), NEW c \in Requests, requests'[c] = requests[c]
    PROVE RequestSound(c)'
<1>1. RequestSound(c)
  BY DEF LedgerSound
<1>2. \A job \in requests[c].jobs : job \in Job
  BY DEF LedgerSound, LedgerTypeOK, Served
<1> SUFFICES ASSUME NEW job \in requests[c].jobs
             PROVE /\ job.found # 0 => ReadOf(job, job.found)'
                   /\ requests[c].does \in {"report", "record"} => job.found # 0
                   /\ requests[c].does = "report" => job.site = points'[job.found].site /\ requests[c].day = points'[job.found].day
  BY <1>1 DEF RequestSound
<1>3. job.found # 0 => job.found \in PointIds
  BY <1>2 DEF Job, PointIds
<1>4. job.found # 0 => ReadOf(job, job.found)
  BY <1>1 DEF RequestSound
<1>5. job.found # 0 => ReadOf(job, job.found)'
  BY <1>3, <1>4, ReadStays
<1>6. requests[c].does \in {"report", "record"} => job.found # 0
  BY <1>1 DEF RequestSound
<1>7. ASSUME requests[c].does = "report"
      PROVE job.site = points'[job.found].site /\ requests[c].day = points'[job.found].day
  <2>1. job.site = points[job.found].site /\ requests[c].day = points[job.found].day
    BY <1>1, <1>7 DEF RequestSound
  <2> QED BY <1>3, <1>4, <1>6, <1>7, <2>1 DEF ReadOf, RowStays
<1> QED BY <1>5, <1>6, <1>7

\* A row that is not written is as sound as it was.
LEMMA RowKeeps ==
    ASSUME NEW i, RowSound(i), points'[i] = points[i], voices'[i] = voices[i], plans[i] \subseteq plans'[i], heard[i] \subseteq heard'[i]
    PROVE RowSound(i)'
BY DEF RowSound, Earned

\* What the commit of plans makes of a row.
LEMMA WrittenPlans ==
    ASSUME LedgerSound, NEW jobs \in SUBSET Job, WritePlans(jobs), NEW i \in PointIds
    PROVE /\ \/ points'[i] = points[i]
             \/ \E job \in jobs : job.found = i /\ points'[i] = Replanned(points[i], job)
             \/ \E job \in jobs : points[i].kind = "absent" /\ points'[i] = Opened(job)
          /\ plans'[i] = plans[i] \cup {points'[i].plan} /\ heard'[i] = heard[i] \cup {points'[i].actual}
<1>1. PICK place \in [{job \in jobs : job.found = 0} -> Unused] :
          points' = [x \in PointIds |->
               IF \E job \in jobs : job.found = x THEN Replanned(points[x], CHOOSE job \in jobs : job.found = x)
               ELSE IF \E job \in DOMAIN place : place[job] = x THEN Opened(CHOOSE job \in DOMAIN place : place[job] = x)
               ELSE points[x]]
  BY DEF WritePlans
<1>2. plans'[i] = plans[i] \cup {points'[i].plan} /\ heard'[i] = heard[i] \cup {points'[i].actual}
  BY DEF WritePlans, Remember
<1>3. CASE \E job \in jobs : job.found = i
  <2>1. PICK job : job = CHOOSE x \in jobs : x.found = i
    OBVIOUS
  <2>2. job \in jobs /\ job.found = i
    BY <1>3, <2>1
  <2>3. points'[i] = Replanned(points[i], job)
    BY <1>1, <1>3, <2>1
  <2> QED BY <1>2, <2>2, <2>3
<1>4. CASE ~(\E job \in jobs : job.found = i) /\ \E job \in DOMAIN place : place[job] = i
  <2>1. PICK job : job = CHOOSE x \in DOMAIN place : place[x] = i
    OBVIOUS
  <2>2. job \in DOMAIN place /\ place[job] = i
    BY <1>4, <2>1
  <2>3. job \in jobs /\ points[i].kind = "absent"
    BY <2>2 DEF Unused
  <2>4. points'[i] = Opened(job)
    BY <1>1, <1>4, <2>1
  <2> QED BY <1>2, <2>3, <2>4
<1>5. CASE ~(\E job \in jobs : job.found = i) /\ ~(\E job \in DOMAIN place : place[job] = i)
  BY <1>1, <1>2, <1>5
<1> QED BY <1>3, <1>4, <1>5

LEMMA LedgerRows ==
    ASSUME LedgerSound
    PROVE /\ \A i \in PointIds : points[i] \in PointRow /\ RowSound(i)
          /\ \A c \in Requests : requests[c] \in Served /\ requests[c].jobs \in SUBSET Job /\ RequestSound(c)
BY DEF LedgerSound, LedgerTypeOK, Served

LEMMA PlansCommitted ==
    ASSUME LedgerSound, NEW c \in Requests, WritePlans(requests[c].jobs), UNCHANGED voices
    PROVE /\ points' \in [PointIds -> PointRow] /\ plans' \in [PointIds -> SUBSET Plan] /\ heard' \in [PointIds -> SUBSET Actuals]
          /\ \A i \in PointIds : RowStays(i) /\ RowSound(i)'
<1> DEFINE jobs == requests[c].jobs
<1>1. jobs \in SUBSET Job /\ RequestSound(c)
  BY LedgerRows
<1>2. ASSUME NEW i \in PointIds
      PROVE points'[i] \in PointRow /\ RowStays(i) /\ RowSound(i)'
  <2>1. /\ \/ points'[i] = points[i]
           \/ \E job \in jobs : job.found = i /\ points'[i] = Replanned(points[i], job)
           \/ \E job \in jobs : points[i].kind = "absent" /\ points'[i] = Opened(job)
        /\ plans'[i] = plans[i] \cup {points'[i].plan} /\ heard'[i] = heard[i] \cup {points'[i].actual}
    BY <1>1, WrittenPlans
  <2>2. points[i] \in PointRow /\ RowSound(i)
    BY LedgerRows
  <2>3. CASE points'[i] = points[i]
    <3>1. RowStays(i)
      BY <2>1, <2>3 DEF RowStays
    <3> QED BY <2>1, <2>2, <2>3, <3>1, RowKeeps
  <2>4. ASSUME NEW job \in jobs, job.found = i, points'[i] = Replanned(points[i], job)
        PROVE points'[i] \in PointRow /\ RowStays(i) /\ RowSound(i)'
    <3>1. job \in Job /\ i # 0
      BY <1>1 DEF PointIds
    <3>2. points[i].kind # "absent"
      BY <1>1, <2>4, <3>1 DEF RequestSound, ReadOf
    <3>3. /\ points'[i] \in PointRow /\ points'[i].kind = points[i].kind /\ points'[i].guess = points[i].guess
          /\ points'[i].site = points[i].site /\ points'[i].day = points[i].day /\ points'[i].machine = points[i].machine
          /\ points'[i].actual = points[i].actual /\ points'[i].verdict = points[i].verdict
      BY <2>2, <2>4, <3>1, ReplannedTyped
    <3>4. RowStays(i)
      BY <2>1, <3>3 DEF RowStays
    <3>5. Earned(i, points[i].verdict)'
      <4>1. PICK verdict : verdict = points[i].verdict
        OBVIOUS
      <4>2. Earned(i, verdict)'
        BY <2>2, <3>2, <3>4, <4>1, EarnedStays DEF RowSound
      <4> QED BY <3>3, <4>1, <4>2 DEF Earned
    <3> QED BY <2>1, <2>2, <3>2, <3>3, <3>4, <3>5 DEF RowSound
  <2>5. ASSUME NEW job \in jobs, points[i].kind = "absent", points'[i] = Opened(job)
        PROVE points'[i] \in PointRow /\ RowStays(i) /\ RowSound(i)'
    <3>1. job \in Job
      BY <1>1
    <3>2. points'[i] \in PointRow /\ points'[i].kind = "plan" /\ points'[i].machine \in Machines /\ points'[i].verdict = "none"
      BY <2>5, <3>1, OpenedTyped DEF Job
    <3>3. voices'[i] = {}
      BY <2>2, <2>5 DEF RowSound
    <3>4. RowStays(i)
      BY <2>1, <2>5 DEF RowStays
    <3> QED BY <2>1, <3>2, <3>3, <3>4 DEF RowSound, Earned
  <2> QED BY <2>1, <2>3, <2>4, <2>5
<1>3. points' \in [PointIds -> PointRow]
  <2>1. points' = [i \in PointIds |-> points'[i]]
    BY DEF WritePlans
  <2> QED BY <1>2, <2>1
<1>4. plans' \in [PointIds -> SUBSET Plan] /\ heard' \in [PointIds -> SUBSET Actuals]
  <2>1. plans' = [i \in PointIds |-> plans[i] \cup {points'[i].plan}] /\ heard' = [i \in PointIds |-> heard[i] \cup {points'[i].actual}]
    BY DEF WritePlans, Remember
  <2>2. \A i \in PointIds : points'[i].plan \in Plan /\ points'[i].actual \in Actuals
    BY <1>2 DEF PointRow
  <2> QED BY <2>1, <2>2 DEF LedgerSound, LedgerTypeOK
<1> QED BY <1>2, <1>3, <1>4

\* A step of one request, given what it makes of the rows.
LEMMA RequestStep ==
    ASSUME LedgerSound, LedgerTypeOK', \A i \in PointIds : RowStays(i) /\ RowSound(i)',
           NEW c \in Requests, NEW after, requests' = [requests EXCEPT ![c] = after], RequestSound(c)'
    PROVE LedgerSound'
<1>1. ASSUME NEW x \in Requests PROVE RequestSound(x)'
  <2>1. CASE x = c
    BY <2>1
  <2>2. CASE x # c
    <3>1. requests'[x] = requests[x]
      BY <2>2 DEF LedgerSound, LedgerTypeOK
    <3> QED BY <3>1, RequestStays
  <2> QED BY <2>1, <2>2
<1> QED BY <1>1 DEF LedgerSound

LEMMA FreeIsSound == ASSUME NEW c, requests'[c] = Free PROVE RequestSound(c)'
BY DEF Free, RequestSound

LEMMA OfficeTyped ==
    ASSUME LedgerTypeOK
    PROVE office.requests \in Nat /\ office.lapses \in Nat /\ office.sheets \subseteq Sheet /\ begun \in Nat /\ lapses \in Nat
<1>1. office \in [acts : SUBSET Acts, sheets : SUBSET Sheet, requests : Nat, lapses : Nat]
  BY LedgerAssumption DEF LedgerTypeOK
<1> QED BY <1>1 DEF LedgerTypeOK

LEMMA SameRows ==
    ASSUME LedgerSound, UNCHANGED <<points, plans, heard, voices>> PROVE \A i \in PointIds : RowStays(i) /\ RowSound(i)'
<1> SUFFICES ASSUME NEW i \in PointIds PROVE RowStays(i) /\ RowSound(i)'
  OBVIOUS
<1>1. RowSound(i)
  BY LedgerRows
<1> QED BY <1>1, RowKeeps DEF RowStays

LEMMA BeginSound ==
    ASSUME LedgerSound, NEW c \in Requests, NEW does \in {"sheet", "reconcile", "report", "record"}, NEW sheet \in Sheet \cup {NoSheet},
           NEW day \in Days, NEW jobs \in SUBSET Job, Begin(c, does, sheet, day, jobs),
           does = "sheet" => sheet \in Sheet,
           \A job \in jobs : /\ job.found # 0 => ReadOf(job, job.found)
                             /\ does \in {"report", "record"} => job.found # 0
                             /\ does = "report" => job.site = points[job.found].site /\ day = points[job.found].day
    PROVE LedgerSound'
<1> DEFINE w == [does |-> does, sheet |-> sheet, day |-> day, jobs |-> jobs]
<1>1. /\ requests' = [requests EXCEPT ![c] = w] /\ begun' = begun + 1 /\ begun < office.requests
      /\ UNCHANGED <<office, moment, sheets, points, config, plans, heard, voices, lapses>>
  BY DEF Begin
<1>2. \A i \in PointIds : RowStays(i) /\ RowSound(i)'
  BY <1>1, SameRows
<1>3. w \in Served
  BY DEF Served
<1> HIDE DEF w
<1>4. requests' \in [Requests -> Served] /\ requests'[c] = w
  BY <1>1, <1>3 DEF LedgerSound, LedgerTypeOK
<1>5. begun' \in 0 .. office.requests
  BY <1>1, OfficeTyped DEF LedgerSound, LedgerTypeOK
<1>6. LedgerTypeOK'
  BY <1>1, <1>4, <1>5 DEF LedgerSound, LedgerTypeOK, config
<1>7. RequestSound(c)'
  <2> SUFFICES ASSUME NEW job \in jobs
               PROVE /\ job.found # 0 => ReadOf(job, job.found)'
                     /\ does \in {"report", "record"} => job.found # 0
                     /\ does = "report" => job.site = points'[job.found].site /\ day = points'[job.found].day
    BY <1>4 DEF RequestSound, w
  <2>1. job.found # 0 => job.found \in PointIds
    BY DEF Job, PointIds
  <2> QED BY <1>1, <1>2, <2>1, ReadStays
<1> QED BY <1>1, <1>2, <1>6, <1>7, RequestStep

\* What a request reads of a row that is there.
LEMMA ReadNow ==
    ASSUME LedgerSound, NEW i \in PointIds, points[i].kind # "absent", NEW job, job.seen = points[i]
    PROVE ReadOf(job, i)
BY LedgerRows DEF ReadOf, RowSound

LEMMA PlanJobSound ==
    ASSUME LedgerSound, NEW s \in Sheet, s.machine # NoMachine, NEW i, i = 0 \/ (i \in PointIds /\ points[i].kind # "absent")
    PROVE /\ PlanJob(s, i) \in Job /\ PlanJob(s, i).found = i
          /\ i # 0 => ReadOf(PlanJob(s, i), i)
<1>1. s.machine \in Machines /\ homeOf[s.camera] \in Homes /\ dayOf[s.at] \in Days
  BY LedgerConstants DEF Sheet
<1>2. (IF i = 0 THEN NoRow ELSE points[i]) \in PointRow /\ i \in 0 .. MaxPoints
  BY NewLedgerRows, LedgerRows, LedgerAssumption DEF PointIds
<1>3. [total |-> s.total, camera |-> s.camera] \in Plan
  BY DEF Sheet, Plan
<1>4. PlanJob(s, i) \in Job /\ PlanJob(s, i).found = i
  BY <1>1, <1>2, <1>3, LedgerConstants DEF PlanJob, Job
<1>5. i # 0 => PlanJob(s, i).seen = points[i]
  BY DEF PlanJob
<1> QED BY <1>4, <1>5, ReadNow

LEMMA ActualJobSound ==
    ASSUME LedgerSound, NEW i \in PointIds, points[i].kind # "absent", NEW site \in Homes \cup {Nowhere}, NEW actual \in Actuals
    PROVE /\ ActualJob(i, site, actual) \in Job /\ ActualJob(i, site, actual).found = i /\ ActualJob(i, site, actual).site = site
          /\ ReadOf(ActualJob(i, site, actual), i)
<1>1. points[i] \in PointRow /\ points[i].machine \in Machines /\ i \in 0 .. MaxPoints
  BY LedgerRows, LedgerAssumption DEF RowSound, PointIds
<1>2. points[i].plan \in Plan /\ points[i].day \in Days
  BY <1>1 DEF PointRow
<1>3. ActualJob(i, site, actual) \in Job
  BY <1>1, <1>2 DEF ActualJob, Job
<1>4. ActualJob(i, site, actual).seen = points[i] /\ ActualJob(i, site, actual).found = i /\ ActualJob(i, site, actual).site = site
  BY DEF ActualJob
<1> QED BY <1>3, <1>4, ReadNow

LEMMA PostSheetStep ==
    ASSUME LedgerSound, NEW c \in Requests, NEW s \in office.sheets, PostSheet(c, s) PROVE LedgerSound'
<1>1. s \in Sheet
  BY OfficeTyped DEF LedgerSound
<1>2. dayOf[s.at] \in Days
  BY <1>1, LedgerConstants DEF Sheet
<1>3. CASE s.machine = NoMachine /\ Begin(c, "sheet", s, dayOf[s.at], {})
  BY <1>1, <1>2, <1>3, BeginSound
<1>4. ASSUME s.machine # NoMachine, NEW i \in First(OnDay(s.machine, dayOf[s.at])), Begin(c, "sheet", s, dayOf[s.at], {PlanJob(s, i)})
      PROVE LedgerSound'
  <2>1. i = 0 \/ (i \in PointIds /\ points[i].kind # "absent")
    BY DEF First, OnDay
  <2>2. PlanJob(s, i) \in Job /\ PlanJob(s, i).found = i /\ (i # 0 => ReadOf(PlanJob(s, i), i))
    BY <1>1, <1>4, <2>1, PlanJobSound
  <2> QED BY <1>1, <1>2, <1>4, <2>2, BeginSound
<1> QED BY <1>3, <1>4 DEF PostSheet

LEMMA ReconcileStep ==
    ASSUME LedgerSound, NEW c \in Requests, NEW day \in Days, Reconcile(c, day) PROVE LedgerSound'
<1>1. PICK read \in SUBSET sheets, jobs \in SUBSET UNION {JobFor(s) : s \in {x \in sheets : x.machine # NoMachine}} :
          Begin(c, "reconcile", NoSheet, day, jobs)
  BY DEF Reconcile
<1>2. ASSUME NEW job \in jobs PROVE job \in Job /\ (job.found # 0 => ReadOf(job, job.found))
  <2>1. PICK s \in sheets : s.machine # NoMachine /\ job \in JobFor(s)
    BY <1>1
  <2>2. PICK i \in First(OnDayAt(homeOf[s.camera], s.machine, dayOf[s.at])) : job = PlanJob(s, i)
    BY <2>1 DEF JobFor
  <2>3. i = 0 \/ (i \in PointIds /\ points[i].kind # "absent")
    BY <2>2 DEF First, OnDayAt, OnDay
  <2>4. s \in Sheet
    BY DEF LedgerSound, LedgerTypeOK
  <2> QED BY <2>1, <2>2, <2>3, <2>4, PlanJobSound
<1>3. jobs \in SUBSET Job
  BY <1>2
<1> QED BY <1>1, <1>2, <1>3, BeginSound

LEMMA CommitSheetStep ==
    ASSUME LedgerSound, NEW c \in Requests, CommitSheet(c) \/ CommitReconcile(c) PROVE LedgerSound'
<1>1. /\ WritePlans(requests[c].jobs) /\ requests' = [requests EXCEPT ![c] = Free]
      /\ UNCHANGED <<office, begun, moment, config, voices, lapses>>
  BY DEF CommitSheet, CommitReconcile, Finish
<1>2. /\ points' \in [PointIds -> PointRow] /\ plans' \in [PointIds -> SUBSET Plan] /\ heard' \in [PointIds -> SUBSET Actuals]
      /\ \A i \in PointIds : RowStays(i) /\ RowSound(i)'
  BY <1>1, PlansCommitted
<1>3. requests' \in [Requests -> Served] /\ requests'[c] = Free
  BY <1>1, NewLedgerRows DEF LedgerSound, LedgerTypeOK
<1>4. sheets' \subseteq Sheet
  <2>1. CASE CommitSheet(c)
    <3>1. sheets' = sheets \cup {requests[c].sheet} /\ requests[c].does = "sheet"
      BY <2>1 DEF CommitSheet
    <3>2. requests[c].sheet \in Sheet
      BY <3>1, LedgerRows DEF RequestSound
    <3> QED BY <3>1, <3>2 DEF LedgerSound, LedgerTypeOK
  <2>2. CASE CommitReconcile(c)
    BY <2>2 DEF CommitReconcile, LedgerSound, LedgerTypeOK
  <2> QED BY <2>1, <2>2
<1>5. LedgerTypeOK'
  BY <1>1, <1>2, <1>3, <1>4 DEF LedgerSound, LedgerTypeOK, config
<1>6. RequestSound(c)'
  BY <1>3, FreeIsSound
<1> QED BY <1>1, <1>2, <1>5, <1>6, RequestStep

\* A request that ends without a write of its own to the rows.
LEMMA EndStep ==
    ASSUME LedgerSound, NEW c \in Requests, requests' = [requests EXCEPT ![c] = Free], sheets' \subseteq Sheet, Lapse,
           UNCHANGED <<office, begun, moment, points, config, plans, heard, voices>>
    PROVE LedgerSound'
<1>1. \A i \in PointIds : RowStays(i) /\ RowSound(i)'
  BY SameRows
<1>2. requests' \in [Requests -> Served] /\ requests'[c] = Free
  BY NewLedgerRows DEF LedgerSound, LedgerTypeOK
<1>3. lapses' \in 0 .. office.lapses
  BY OfficeTyped DEF LedgerSound, LedgerTypeOK, Lapse
<1>4. LedgerTypeOK'
  BY <1>2, <1>3 DEF LedgerSound, LedgerTypeOK, config
<1>5. RequestSound(c)'
  BY <1>2, FreeIsSound
<1> QED BY <1>1, <1>4, <1>5, RequestStep

LEMMA CommitSheetAloneStep ==
    ASSUME LedgerSound, NEW c \in Requests, CommitSheetAlone(c) PROVE LedgerSound'
<1>1. requests[c].sheet \in Sheet
  BY LedgerRows DEF RequestSound, CommitSheetAlone
<1>2. sheets' \subseteq Sheet
  BY <1>1 DEF CommitSheetAlone, LedgerSound, LedgerTypeOK
<1> QED BY <1>2, EndStep DEF CommitSheetAlone, Finish

LEMMA DieStep ==
    ASSUME LedgerSound, NEW c \in Requests, Die(c) PROVE LedgerSound'
<1>1. sheets' \subseteq Sheet
  BY DEF Die, LedgerSound, LedgerTypeOK
<1> QED BY <1>1, EndStep DEF Die, Finish

LEMMA ReportStep ==
    ASSUME LedgerSound, NEW c \in Requests, NEW site \in Homes, NEW machine \in Machines, NEW amount \in Amounts,
           Report(c, site, machine, amount)
    PROVE LedgerSound'
<1>1. PICK i \in OnDayAt(site, machine, dayOf[moment]) : Begin(c, "report", NoSheet, dayOf[moment], {ActualJob(i, site, amount)})
  BY DEF Report
<1>2. i \in PointIds /\ points[i].kind = "plan" /\ points[i].site = site /\ points[i].day = dayOf[moment]
  BY DEF OnDayAt, OnDay
<1>3. dayOf[moment] \in Days
  BY LedgerConstants DEF LedgerSound, LedgerTypeOK
<1>4. amount \in Actuals /\ i # 0
  BY <1>2 DEF Actuals, PointIds
<1>5. /\ ActualJob(i, site, amount) \in Job /\ ActualJob(i, site, amount).found = i /\ ActualJob(i, site, amount).site = site
      /\ ReadOf(ActualJob(i, site, amount), i)
  BY <1>2, <1>4, ActualJobSound
<1> QED BY <1>1, <1>2, <1>3, <1>4, <1>5, BeginSound

LEMMA RecordOnPageStep ==
    ASSUME LedgerSound, NEW c \in Requests, NEW i \in PointIds, NEW actual \in Actuals, RecordOnPage(c, i, actual)
    PROVE LedgerSound'
<1>1. points[i].kind # "absent" /\ Begin(c, "record", NoSheet, points[i].day, {ActualJob(i, points[i].site, actual)})
  BY DEF RecordOnPage
<1>2. points[i].day \in Days /\ points[i].site \in Homes \cup {Nowhere} /\ i # 0
  BY LedgerRows DEF PointRow, PointIds
<1>3. ActualJob(i, points[i].site, actual) \in Job /\ ActualJob(i, points[i].site, actual).found = i /\ ReadOf(ActualJob(i, points[i].site, actual), i)
  BY <1>1, <1>2, ActualJobSound
<1> QED BY <1>1, <1>2, <1>3, BeginSound

\* What a report or the page writes to its row.
LEMMA ActualWritten ==
    ASSUME LedgerSound, NEW c \in Requests, requests[c].does \in {"report", "record"}, NEW job \in requests[c].jobs, NEW anew \in BOOLEAN,
           points' = [points EXCEPT ![job.found] = Recorded(@, job, anew)],
           voices' = [voices EXCEPT ![job.found] =
                          IF requests[c].does = "report" THEN @ \cup {<<job.site, requests[c].day>>} ELSE @],
           Remember
    PROVE /\ job.found \in PointIds
          /\ points'[job.found] \in PointRow
          /\ voices'[job.found] \in SUBSET ((Homes \cup {Nowhere}) \X Days)
          /\ RowStays(job.found) /\ RowSound(job.found)'
<1> DEFINE i == job.found
           read == job.seen
           judged == Consistent(read.kind, read.plan, read.guess, Brought(job))
<1>1. job \in Job /\ RequestSound(c) /\ requests[c] \in Served
  BY LedgerRows
<1>2. i \in PointIds
  BY <1>1 DEF RequestSound, Job, PointIds
<1>3. points[i] \in PointRow /\ RowSound(i) /\ ReadOf(job, i)
  BY <1>1, <1>2, LedgerRows DEF RequestSound
<1>4. points'[i] = Recorded(points[i], job, anew)
  BY <1>2 DEF LedgerSound, LedgerTypeOK
<1>5. plans'[i] = plans[i] \cup {points'[i].plan} /\ heard'[i] = heard[i] \cup {points'[i].actual}
  BY <1>2 DEF Remember
<1>6. /\ points'[i] \in PointRow /\ points'[i].kind = points[i].kind /\ points'[i].guess = points[i].guess
      /\ points'[i].site = points[i].site /\ points'[i].day = points[i].day /\ points'[i].machine = points[i].machine
      /\ points'[i].actual = IF anew THEN Brought(job) ELSE Column(read.actual, Brought(job), points[i].actual)
      /\ points'[i].verdict = Column(read.verdict, judged, points[i].verdict)
  BY <1>1, <1>3, <1>4, RecordedTyped
<1>7. RowStays(i)
  BY <1>5, <1>6 DEF RowStays
<1>8. points[i].kind # "absent"
  BY <1>3 DEF ReadOf
<1>9. Brought(job) \in heard'[i]
  <2>1. CASE Brought(job) = read.actual
    BY <1>3, <1>5, <2>1 DEF ReadOf
  <2>2. CASE Brought(job) # read.actual
    BY <1>5, <1>6, <2>2 DEF Column
  <2> QED BY <2>1, <2>2
<1>10. Earned(i, judged)'
  <2>1. read.plan \in plans'[i] /\ points'[i].kind = read.kind /\ points'[i].guess = read.guess
    BY <1>3, <1>5, <1>6 DEF ReadOf
  <2>2. Consistent(points'[i].kind, read.plan, points'[i].guess, Brought(job)) = judged
    BY <2>1
  <2> HIDE DEF judged
  <2> QED BY <1>9, <2>1, <2>2 DEF Earned
<1>11. PICK before : before = points[i].verdict
  OBVIOUS
<1>12. Earned(i, before)'
  BY <1>3, <1>7, <1>8, <1>11, EarnedStays DEF RowSound
<1>13. points'[i].verdict = judged \/ points'[i].verdict = before
  BY <1>6, <1>11 DEF Column
<1>14. Earned(i, points[i].verdict)'
  BY <1>10, <1>12, <1>13 DEF Earned
<1>15. voices'[i] \in SUBSET ((Homes \cup {Nowhere}) \X Days) /\ \A voice \in voices'[i] : voice = <<points[i].site, points[i].day>>
  <2>1. voices[i] \in SUBSET ((Homes \cup {Nowhere}) \X Days) /\ points[i].site \in Homes \cup {Nowhere} /\ points[i].day \in Days
    BY <1>2, <1>3 DEF LedgerSound, LedgerTypeOK, PointRow
  <2>2. voices'[i] = IF requests[c].does = "report" THEN voices[i] \cup {<<job.site, requests[c].day>>} ELSE voices[i]
    BY <1>2 DEF LedgerSound, LedgerTypeOK
  <2>3. requests[c].does = "report" => job.site = points[i].site /\ requests[c].day = points[i].day
    BY <1>1 DEF RequestSound
  <2>4. \A voice \in voices[i] : voice = <<points[i].site, points[i].day>>
    BY <1>3 DEF RowSound
  <2> QED BY <2>1, <2>2, <2>3, <2>4
<1>16. points'[i].machine \in Machines /\ points'[i].plan \in plans'[i] /\ points'[i].actual \in heard'[i]
  BY <1>3, <1>5, <1>6, <1>8 DEF RowSound
<1>17. RowSound(i)'
  BY <1>6, <1>8, <1>14, <1>15, <1>16 DEF RowSound
<1> QED BY <1>2, <1>6, <1>7, <1>15, <1>17

LEMMA CommitActualStep ==
    ASSUME LedgerSound, NEW c \in Requests, CommitActual(c) PROVE LedgerSound'
<1>1. /\ requests[c].does \in {"report", "record"} /\ Remember /\ requests' = [requests EXCEPT ![c] = Free]
      /\ UNCHANGED <<office, begun, moment, sheets, config, lapses>>
  BY DEF CommitActual, Finish
<1>2. PICK job \in requests[c].jobs : \E anew \in BOOLEAN :
          /\ points' = [points EXCEPT ![job.found] = Recorded(@, job, anew)]
          /\ voices' = [voices EXCEPT ![job.found] =
                 IF requests[c].does = "report" THEN @ \cup {<<job.site, requests[c].day>>} ELSE @]
  BY DEF CommitActual
<1>3. PICK anew \in BOOLEAN :
          /\ points' = [points EXCEPT ![job.found] = Recorded(@, job, anew)]
          /\ voices' = [voices EXCEPT ![job.found] =
                 IF requests[c].does = "report" THEN @ \cup {<<job.site, requests[c].day>>} ELSE @]
  BY <1>2, Zenon
<1>4. /\ job.found \in PointIds
      /\ points'[job.found] \in PointRow
      /\ voices'[job.found] \in SUBSET ((Homes \cup {Nowhere}) \X Days)
      /\ RowStays(job.found) /\ RowSound(job.found)'
  BY <1>1, <1>3, ActualWritten
<1>5. \A i \in PointIds : plans'[i] = plans[i] \cup {points'[i].plan} /\ heard'[i] = heard[i] \cup {points'[i].actual}
  BY <1>1 DEF Remember
<1>6. ASSUME NEW i \in PointIds PROVE points'[i] \in PointRow /\ RowStays(i) /\ RowSound(i)'
  <2>1. CASE i = job.found
    BY <1>4, <2>1
  <2>2. CASE i # job.found
    <3>1. points'[i] = points[i] /\ voices'[i] = voices[i]
      BY <1>3, <2>2 DEF LedgerSound, LedgerTypeOK
    <3>2. points[i] \in PointRow /\ RowSound(i)
      BY LedgerRows
    <3>3. RowStays(i)
      BY <1>5, <3>1 DEF RowStays
    <3> QED BY <1>5, <3>1, <3>2, <3>3, RowKeeps
  <2> QED BY <2>1, <2>2
<1>7. points' \in [PointIds -> PointRow]
  <2>1. points' = [i \in PointIds |-> points'[i]]
    BY <1>3 DEF LedgerSound, LedgerTypeOK
  <2> QED BY <1>6, <2>1
<1>8. voices' \in [PointIds -> SUBSET ((Homes \cup {Nowhere}) \X Days)]
  BY <1>3, <1>4 DEF LedgerSound, LedgerTypeOK
<1>9. plans' \in [PointIds -> SUBSET Plan] /\ heard' \in [PointIds -> SUBSET Actuals]
  <2>1. \A i \in PointIds : points'[i].plan \in Plan /\ points'[i].actual \in Actuals
    BY <1>6 DEF PointRow
  <2> QED BY <1>1, <2>1 DEF Remember, LedgerSound, LedgerTypeOK
<1>10. requests' \in [Requests -> Served] /\ requests'[c] = Free
  BY <1>1, NewLedgerRows DEF LedgerSound, LedgerTypeOK
<1>11. LedgerTypeOK'
  BY <1>1, <1>7, <1>8, <1>9, <1>10 DEF LedgerSound, LedgerTypeOK, config
<1>12. RequestSound(c)'
  BY <1>10, FreeIsSound
<1> QED BY <1>1, <1>6, <1>11, <1>12, RequestStep

\* A step that no request takes part in.
LEMMA IdleStep ==
    ASSUME LedgerSound, LedgerTypeOK', UNCHANGED requests, \A i \in PointIds : RowStays(i) /\ RowSound(i)'
    PROVE LedgerSound'
<1>1. \A c \in Requests : RequestSound(c)'
  BY RequestStays
<1> QED BY <1>1 DEF LedgerSound

LEMMA AttributeStep ==
    ASSUME LedgerSound, NEW i \in PointIds, NEW reason \in {"none", "given"}, Attribute(i, reason) PROVE LedgerSound'
<1>1. /\ points' = [points EXCEPT ![i].attribution = reason]
      /\ UNCHANGED <<office, begun, moment, sheets, requests, config, plans, heard, voices, lapses>>
  BY DEF Attribute
<1>2. ASSUME NEW x \in PointIds
      PROVE /\ points'[x] \in PointRow
            /\ points'[x].kind = points[x].kind /\ points'[x].guess = points[x].guess /\ points'[x].site = points[x].site
            /\ points'[x].day = points[x].day /\ points'[x].machine = points[x].machine /\ points'[x].plan = points[x].plan
            /\ points'[x].actual = points[x].actual /\ points'[x].verdict = points[x].verdict
  <2>1. points[x] \in PointRow /\ points'[x] = IF x = i THEN [points[x] EXCEPT !.attribution = reason] ELSE points[x]
    BY <1>1 DEF LedgerSound, LedgerTypeOK
  <2> QED BY <2>1 DEF PointRow
<1>3. ASSUME NEW x \in PointIds PROVE RowStays(x) /\ RowSound(x)'
  <2>1. RowSound(x)
    BY LedgerRows
  <2> QED BY <1>1, <1>2, <2>1 DEF RowStays, RowSound, Earned
<1>4. points' \in [PointIds -> PointRow]
  BY <1>1, <1>2 DEF LedgerSound, LedgerTypeOK
<1>5. LedgerTypeOK'
  BY <1>1, <1>4 DEF LedgerSound, LedgerTypeOK, config
<1> QED BY <1>1, <1>3, <1>5, IdleStep

\* The candidates are people of the roster.
LEMMA SuggestedTyped ==
    ASSUME LedgerTypeOK, NEW machine, NEW day \in Days, NEW shift PROVE Suggested(machine, day, shift) \subseteq Crew
<1>1. roster[day] \subseteq RosterEntry
  BY LedgerAssumption DEF LedgerTypeOK
<1> QED BY <1>1 DEF Suggested, OnShift, RosterEntry

LEMMA CreateDispatchStep ==
    ASSUME LedgerSound, NEW site \in Homes \cup {Nowhere}, NEW machine \in Machines, NEW at \in Moments, NEW assignee \in Crew \cup {Nothing},
           CreateDispatch(site, machine, at, assignee)
    PROVE LedgerSound'
<1> DEFINE guess == Suggested(machine, dayOf[at], shiftOf[at])
           judged == Consistent("dispatch", NoPlan, guess, assignee)
           row == [NoRow EXCEPT !.kind = "dispatch", !.site = site, !.machine = machine, !.day = dayOf[at], !.guess = guess,
                                !.actual = assignee, !.verdict = judged,
                                !.status = IF assignee = Nothing THEN "awaiting_actual" ELSE "resolved"]
<1>1. PICK i \in Unused : points' = [points EXCEPT ![i] = row]
  BY DEF CreateDispatch
<1>2. /\ begun < office.requests /\ begun' = begun + 1 /\ Remember
      /\ UNCHANGED <<office, moment, sheets, requests, config, voices, lapses>>
  BY DEF CreateDispatch
<1>3. i \in PointIds /\ points[i].kind = "absent"
  BY DEF Unused
<1>4. guess \subseteq Crew /\ dayOf[at] \in Days /\ assignee \in Actuals
  BY SuggestedTyped, LedgerConstants DEF LedgerSound, Actuals
<1>5. judged \in {"none", "yes", "no"}
  BY ConsistentTyped
<1>6. PICK wanted, found : wanted = guess /\ found = judged
  OBVIOUS
<1>7. points' = [points EXCEPT ![i] =
          [NoRow EXCEPT !.kind = "dispatch", !.site = site, !.machine = machine, !.day = dayOf[at], !.guess = wanted,
                        !.actual = assignee, !.verdict = found,
                        !.status = IF assignee = Nothing THEN "awaiting_actual" ELSE "resolved"]]
  BY <1>1, <1>6
<1>8. wanted \subseteq Crew /\ found \in {"none", "yes", "no"} /\ found = Consistent("dispatch", NoPlan, wanted, assignee)
  BY <1>4, <1>5, <1>6
<1> HIDE DEF guess, judged, row
<1>9. points'[i] = [NoRow EXCEPT !.kind = "dispatch", !.site = site, !.machine = machine, !.day = dayOf[at], !.guess = wanted,
                        !.actual = assignee, !.verdict = found,
                        !.status = IF assignee = Nothing THEN "awaiting_actual" ELSE "resolved"]
  BY <1>3, <1>7 DEF LedgerSound, LedgerTypeOK
<1>10. /\ points'[i] \in PointRow /\ points'[i].kind = "dispatch" /\ points'[i].machine = machine /\ points'[i].plan = NoPlan
       /\ points'[i].guess = wanted /\ points'[i].actual = assignee /\ points'[i].verdict = found
  <2>1. PICK status : status = IF assignee = Nothing THEN "awaiting_actual" ELSE "resolved"
    OBVIOUS
  <2>2. status \in {"awaiting_actual", "resolved"}
    BY <2>1
  <2>3. PICK opened : opened = points'[i]
    OBVIOUS
  <2>4. opened = [NoRow EXCEPT !.kind = "dispatch", !.site = site, !.machine = machine, !.day = dayOf[at], !.guess = wanted,
                               !.actual = assignee, !.verdict = found, !.status = status]
    BY <1>9, <2>1, <2>3
  <2>5. opened = [kind |-> "dispatch", site |-> site, machine |-> machine, day |-> dayOf[at], plan |-> NoPlan, guess |-> wanted,
                  actual |-> assignee, verdict |-> found, status |-> status, attribution |-> "none"]
    BY <2>4 DEF NoRow
  <2>6. NoPlan \in Plan
    BY NewLedgerRows
  <2>7. opened \in PointRow
    BY <1>4, <1>8, <2>2, <2>5, <2>6 DEF PointRow
  <2> QED BY <2>3, <2>5, <2>7
<1>11. \A x \in PointIds : plans'[x] = plans[x] \cup {points'[x].plan} /\ heard'[x] = heard[x] \cup {points'[x].actual}
  BY <1>2 DEF Remember
<1>12. RowStays(i) /\ RowSound(i)'
  <2>1. voices'[i] = {}
    BY <1>2, <1>3, LedgerRows DEF RowSound
  <2>2. RowStays(i)
    BY <1>3, <1>11 DEF RowStays
  <2>3. Earned(i, found)'
    BY <1>3, <1>8, <1>10, <1>11 DEF Earned
  <2> QED BY <1>3, <1>10, <1>11, <2>1, <2>2, <2>3 DEF RowSound, Earned
<1>13. ASSUME NEW x \in PointIds PROVE points'[x] \in PointRow /\ RowStays(x) /\ RowSound(x)'
  <2>1. CASE x = i
    BY <1>10, <1>12, <2>1
  <2>2. CASE x # i
    <3>1. points'[x] = points[x] /\ voices'[x] = voices[x]
      BY <1>2, <1>7, <2>2 DEF LedgerSound, LedgerTypeOK
    <3>2. points[x] \in PointRow /\ RowSound(x)
      BY LedgerRows
    <3>3. RowStays(x)
      BY <1>11, <3>1 DEF RowStays
    <3> QED BY <1>11, <3>1, <3>2, <3>3, RowKeeps
  <2> QED BY <2>1, <2>2
<1>14. points' \in [PointIds -> PointRow]
  <2>1. points' = [x \in PointIds |-> points'[x]]
    BY <1>7 DEF LedgerSound, LedgerTypeOK
  <2> QED BY <1>13, <2>1
<1>15. plans' \in [PointIds -> SUBSET Plan] /\ heard' \in [PointIds -> SUBSET Actuals]
  <2>1. \A x \in PointIds : points'[x].plan \in Plan /\ points'[x].actual \in Actuals
    BY <1>13 DEF PointRow
  <2> QED BY <1>2, <2>1 DEF Remember, LedgerSound, LedgerTypeOK
<1>16. begun' \in 0 .. office.requests
  BY <1>2, OfficeTyped DEF LedgerSound, LedgerTypeOK
<1>17. LedgerTypeOK'
  BY <1>2, <1>14, <1>15, <1>16 DEF LedgerSound, LedgerTypeOK, config
<1> QED BY <1>2, <1>13, <1>17, IdleStep

\* Rosters, skills, zones and the clock.
LEMMA ConfigureStep ==
    ASSUME LedgerSound,
           \/ \E day \in Days, entries \in RosterChoices : PutRoster(day, entries)
           \/ \E matrix \in SkillChoices : PutSkillMatrix(matrix)
           \/ \E listed \in ZoneChoices : PutZones(listed)
           \/ Later
    PROVE LedgerSound'
<1>1. UNCHANGED <<office, begun, sheets, points, requests, plans, heard, voices, lapses>>
  BY DEF PutRoster, PutSkillMatrix, PutZones, Later
<1>2. moment' \in Moments
  BY LedgerAssumption DEF PutRoster, PutSkillMatrix, PutZones, Later, LedgerSound, LedgerTypeOK, Moments
<1>3. roster' \in [Days -> RosterChoices] /\ skills' \in SkillChoices /\ zones' \in ZoneChoices
  BY DEF PutRoster, PutSkillMatrix, PutZones, Later, LedgerSound, LedgerTypeOK, config
<1>4. LedgerTypeOK'
  BY <1>1, <1>2, <1>3 DEF LedgerSound, LedgerTypeOK
<1>5. \A i \in PointIds : RowStays(i) /\ RowSound(i)'
  BY <1>1, SameRows
<1> QED BY <1>1, <1>4, <1>5, IdleStep

LEMMA LedgerStep ==
    ASSUME LedgerSound, [LedgerNext]_ledgerVars PROVE LedgerSound'
<1>1. ASSUME NEW c \in Requests, NEW s \in office.sheets, PostSheet(c, s) PROVE LedgerSound'
  BY <1>1, PostSheetStep
<1>2. ASSUME NEW c \in Requests, CommitSheet(c) \/ CommitReconcile(c) PROVE LedgerSound'
  BY <1>2, CommitSheetStep
<1>3. ASSUME NEW c \in Requests, CommitSheetAlone(c) PROVE LedgerSound'
  BY <1>3, CommitSheetAloneStep
<1>4. ASSUME NEW c \in Requests, NEW day \in Days, Reconcile(c, day) PROVE LedgerSound'
  BY <1>4, ReconcileStep
<1>5. ASSUME NEW c \in Requests, NEW site \in Homes, NEW machine \in Machines, NEW amount \in Amounts, Report(c, site, machine, amount)
      PROVE LedgerSound'
  BY <1>5, ReportStep
<1>6. ASSUME NEW c \in Requests, NEW i \in PointIds, NEW actual \in Actuals, RecordOnPage(c, i, actual) PROVE LedgerSound'
  BY <1>6, RecordOnPageStep
<1>7. ASSUME NEW c \in Requests, CommitActual(c) PROVE LedgerSound'
  BY <1>7, CommitActualStep
<1>8. ASSUME NEW c \in Requests, Die(c) PROVE LedgerSound'
  BY <1>8, DieStep
<1>9. ASSUME NEW i \in PointIds, NEW reason \in {"none", "given"}, Attribute(i, reason) PROVE LedgerSound'
  BY <1>9, AttributeStep
<1>10. ASSUME NEW site \in Homes \cup {Nowhere}, NEW machine \in Machines, NEW at \in Moments, NEW assignee \in Crew \cup {Nothing},
              CreateDispatch(site, machine, at, assignee)
       PROVE LedgerSound'
  BY <1>10, CreateDispatchStep
<1>11. CASE UNCHANGED ledgerVars
  <2>1. UNCHANGED <<office, begun, moment, sheets, points, requests, config, plans, heard, voices, lapses>>
    BY <1>11 DEF ledgerVars
  <2>2. LedgerTypeOK'
    BY <2>1 DEF LedgerSound, LedgerTypeOK, config
  <2> QED BY <2>1, <2>2, SameRows, IdleStep
<1> QED BY <1>1, <1>2, <1>3, <1>4, <1>5, <1>6, <1>7, <1>8, <1>9, <1>10, <1>11, ConfigureStep DEF LedgerNext

LEMMA LedgerBegins == ASSUME LedgerInit PROVE LedgerSound
<1>1. office \in [acts : SUBSET Acts, sheets : SUBSET Sheet, requests : Nat, lapses : Nat]
  BY LedgerAssumption DEF LedgerInit
<1>2. LedgerTypeOK
  BY <1>1, NewLedgerRows, LedgerConstants DEF LedgerInit, LedgerTypeOK
<1>3. \A i \in PointIds : RowSound(i)
  BY DEF LedgerInit, RowSound, Earned, NoRow
<1>4. \A c \in Requests : RequestSound(c)
  BY DEF LedgerInit, RequestSound, Free
<1> QED BY <1>2, <1>3, <1>4 DEF LedgerSound

THEOREM LedgerSoundHolds == LedgerSpec => []LedgerSound
<1>1. LedgerInit => LedgerSound
  BY LedgerBegins
<1>2. LedgerSound /\ [LedgerNext]_ledgerVars => LedgerSound'
  BY LedgerStep
<1> QED BY <1>1, <1>2, PTL DEF LedgerSpec

\* The ledger is well formed, whatever its cameras, machines, crews and requests.
THEOREM LedgerTypeCorrect == LedgerSpec => []LedgerTypeOK
<1>1. LedgerSound => LedgerTypeOK
  BY DEF LedgerSound
<1> QED BY <1>1, LedgerSoundHolds, PTL

\* A verdict stands on a plan and an actual that were the row's own (record_actual,
\* compute_consistency), for any number of requests that overlap.
THEOREM VerdictWasEarnedHolds == LedgerSpec => []VerdictWasEarned
<1>1. LedgerSound => VerdictWasEarned
  BY DEF LedgerSound, RowSound, Earned, VerdictWasEarned
<1> QED BY <1>1, LedgerSoundHolds, PTL

\* A LINE report is written to a row of the site and the day it was made at (record_machine_actual).
THEOREM ReportsStayHomeHolds == LedgerSpec => []ReportsStayHome
<1>1. LedgerSound => ReportsStayHome
  <2> SUFFICES ASSUME LedgerSound, NEW site \in Homes, NEW day \in Days, NEW i \in Brief(site, day), NEW voice \in voices[i]
               PROVE voice = <<site, day>>
    BY DEF ReportsStayHome
  <2>1. i \in PointIds /\ points[i].day = day /\ site = points[i].site
    BY LedgerAssumption DEF Brief
  <2> QED BY <2>1, LedgerRows DEF RowSound
<1> QED BY <1>1, LedgerSoundHolds, PTL

-----------------------------------------------------------------------------
(***************************************************************************)
(* MoldSentinel: a stamp that is going to be written was earned.           *)
(***************************************************************************)

\* The reminder c is sending: all of its groups but those still to do were told by the tick.
ToldAll(m, groups, by) == \A g \in groups : \E t \in 1 .. by : <<m, g, t>> \in delivered
Reminded(m, by) == \E groups \in SUBSET Groups : groups # {} /\ <<m, groups>> \in called /\ ToldAll(m, groups, by)

Stamped(w) ==
    w.does = "bump" /\ w.stamp /\ LineConfigured =>
        \E groups \in SUBSET Groups :
            /\ groups # {} /\ <<w.mold, groups>> \in called
            /\ ToldAll(w.mold, groups \ w.todo, IF w.at = 0 THEN tick ELSE w.at)
MoldSound ==
    /\ MoldTypeOK
    /\ \A c \in Desks : /\ desk[c].does # "nothing" => desk[c].mold \in Molds
                        /\ desk[c].todo # {} => desk[c].does # "nothing" /\ desk[c].at = 0
                        /\ Stamped(desk[c])
    /\ \A m \in Molds : rule[m].alertAt # 0 /\ LineConfigured => Reminded(m, rule[m].alertAt)

LEMMA NewMoldRows == NoRule \in Rule /\ Unoccupied \in Desk
<1>1. NoRule \in Rule
  BY DEF NoRule, Rule
<1> QED BY <1>1 DEF Unoccupied, Desk

LEMMA CountedTyped ==
    ASSUME NEW count \in Nat, NEW shots \in ShotReports PROVE Counted(count, shots) \in Nat
<1>1. shots \in [set : Nat \cup {Keep}, more : Int]
  BY MoldAssumption
<1>2. (IF shots.set = Keep THEN count ELSE shots.set) \in Nat
  BY <1>1
<1> QED BY <1>1, <1>2 DEF Counted, NotBelow0

\* Telling more, and later, takes nothing back.
LEMMA ToldGrows ==
    ASSUME delivered \subseteq delivered', called \subseteq called', NEW m, NEW groups, NEW by \in Nat, NEW later \in Nat, by <= later
    PROVE /\ ToldAll(m, groups, by) => ToldAll(m, groups, later)'
          /\ Reminded(m, by) => Reminded(m, later)'
<1>1. 1 .. by \subseteq 1 .. later
  OBVIOUS
<1>2. ASSUME NEW x PROVE ToldAll(m, x, by) => ToldAll(m, x, later)'
  BY <1>1 DEF ToldAll
<1>3. Reminded(m, by) => Reminded(m, later)'
  BY <1>2 DEF Reminded
<1> QED BY <1>2, <1>3

\* A desk that stays keeps its stamp's reason.
LEMMA StampStays ==
    ASSUME MoldSound, delivered \subseteq delivered', called \subseteq called', tick' \in Nat, tick <= tick',
           NEW c \in Desks, desk'[c] = desk[c]
    PROVE Stamped(desk[c])'
<1> SUFFICES ASSUME desk[c].does = "bump", desk[c].stamp, LineConfigured
             PROVE \E groups \in SUBSET Groups :
                       /\ groups # {} /\ <<desk[c].mold, groups>> \in called'
                       /\ ToldAll(desk[c].mold, groups \ desk[c].todo, IF desk[c].at = 0 THEN tick ELSE desk[c].at)'
  BY DEF Stamped
<1>1. PICK groups \in SUBSET Groups :
          /\ groups # {} /\ <<desk[c].mold, groups>> \in called
          /\ ToldAll(desk[c].mold, groups \ desk[c].todo, IF desk[c].at = 0 THEN tick ELSE desk[c].at)
  BY DEF MoldSound, Stamped
<1>2. desk[c].at \in Nat /\ tick \in Nat
  BY DEF MoldSound, MoldTypeOK, Desk
<1>3. PICK m, left, by, later :
          /\ m = desk[c].mold /\ left = groups \ desk[c].todo
          /\ by = (IF desk[c].at = 0 THEN tick ELSE desk[c].at) /\ later = (IF desk[c].at = 0 THEN tick' ELSE desk[c].at)
  OBVIOUS
<1>4. by \in Nat /\ later \in Nat /\ by <= later
  BY <1>2, <1>3
<1>5. ToldAll(m, left, later)'
  BY <1>1, <1>3, <1>4, ToldGrows
<1>6. ToldAll(desk[c].mold, groups \ desk[c].todo, IF desk[c].at = 0 THEN tick ELSE desk[c].at)'
  BY <1>3, <1>5 DEF ToldAll
<1> QED BY <1>1, <1>6

\* What a step of one desk must show: the types, and its own row and stamp.
LEMMA DeskStep ==
    ASSUME MoldSound, MoldTypeOK', delivered \subseteq delivered', called \subseteq called', tick <= tick',
           \A m \in Molds : rule'[m].alertAt # rule[m].alertAt /\ LineConfigured => Reminded(m, rule[m].alertAt)',
           \A c \in Desks : \/ desk'[c] = desk[c]
                            \/ /\ desk'[c].does # "nothing" => desk'[c].mold \in Molds
                               /\ desk'[c].todo # {} => desk'[c].does # "nothing" /\ desk'[c].at = 0
                               /\ Stamped(desk[c])'
    PROVE MoldSound'
<1>1. tick' \in Nat
  BY DEF MoldTypeOK
<1>2. ASSUME NEW c \in Desks
      PROVE /\ desk'[c].does # "nothing" => desk'[c].mold \in Molds
            /\ desk'[c].todo # {} => desk'[c].does # "nothing" /\ desk'[c].at = 0
            /\ Stamped(desk[c])'
  <2>1. CASE desk'[c] = desk[c]
    BY <1>1, <2>1, StampStays DEF MoldSound
  <2> QED BY <2>1
<1>3. ASSUME NEW m \in Molds, rule'[m].alertAt # 0, LineConfigured PROVE Reminded(m, rule[m].alertAt)'
  <2>1. CASE rule'[m].alertAt = rule[m].alertAt
    <3>1. PICK by \in Nat : by = rule[m].alertAt
      BY DEF MoldSound, MoldTypeOK, Rule
    <3>2. Reminded(m, by)
      BY <1>3, <2>1, <3>1 DEF MoldSound
    <3>3. Reminded(m, by)'
      <4>1. by <= by
        BY <3>1
      <4> QED BY <3>1, <3>2, <4>1, ToldGrows
    <3> QED BY <2>1, <3>1, <3>3 DEF Reminded, ToldAll
  <2> QED BY <1>3, <2>1
<1> QED BY <1>2, <1>3 DEF MoldSound

LEMMA MoldStepSound == MoldSound /\ [MoldNext]_moldVars => MoldSound'
<1> SUFFICES ASSUME MoldSound, [MoldNext]_moldVars PROVE MoldSound'
  OBVIOUS
<1>1. MoldTypeOK /\ tick \in Nat /\ tick + 1 \in Nat
  BY DEF MoldSound, MoldTypeOK
<1>2. CASE UNCHANGED moldVars
  BY <1>1, <1>2, DeskStep DEF moldVars, MoldTypeOK
<1>3. ASSUME NEW m \in Molds, NEW threshold \in Thresholds, PutRule(m, threshold) PROVE MoldSound'
  <2> DEFINE row == [rule[m] EXCEPT !.known = TRUE, !.threshold = threshold]
  <2>1. /\ rule' = [rule EXCEPT ![m] = row] /\ tasks' = tasks + 1
        /\ UNCHANGED <<bound, desk, tick, delivered, called, slips>>
    BY <1>1, <1>3 DEF PutRule, TakeTask, MoldTypeOK
  <2>2. row \in Rule /\ row.alertAt = rule[m].alertAt
    BY <1>1 DEF MoldTypeOK, Rule
  <2> HIDE DEF row
  <2>3. MoldTypeOK'
    BY <1>1, <2>1, <2>2 DEF MoldTypeOK
  <2>4. \A x \in Molds : rule'[x].alertAt = rule[x].alertAt
    BY <1>1, <2>1, <2>2 DEF MoldTypeOK
  <2> QED BY <1>1, <2>1, <2>3, <2>4, DeskStep
<1>4. ASSUME NEW groups \in SUBSET Groups, Rebind(groups) PROVE MoldSound'
  <2>1. MoldTypeOK'
    BY <1>1, <1>4 DEF Rebind, TakeTask, MoldTypeOK
  <2> QED BY <1>1, <1>4, <2>1, DeskStep DEF Rebind
<1>5. ASSUME NEW c \in Desks, NEW m \in Molds, NEW shots \in ShotReports, Bump(c, m, shots) PROVE MoldSound'
  <2> DEFINE count == Counted(rule[m].count, shots)
             due == Due(rule[m], count)
             w == [does |-> "bump", mold |-> m, seen |-> rule[m], count |-> count, at |-> 0,
                   todo |-> IF due /\ LineConfigured THEN bound ELSE {},
                   stamp |-> due /\ (LineConfigured => bound # {})]
  <2>1. rule[m] \in Rule /\ count \in Nat
    BY <1>1, CountedTyped DEF MoldTypeOK, Rule
  <2>2. w \in Desk
    <3> HIDE DEF count, due
    <3> QED BY <1>1, <2>1 DEF Desk, MoldTypeOK
  <2>3. /\ desk' = [desk EXCEPT ![c] = w] /\ tasks' = tasks + 1
        /\ called' = IF due /\ LineConfigured THEN called \cup {<<m, bound>>} ELSE called
        /\ UNCHANGED <<rule, bound, tick, delivered, slips>>
    BY <1>5 DEF Bump, TakeTask
  <2>4. MoldTypeOK'
    <3> HIDE DEF w, due
    <3> QED BY <1>1, <2>2, <2>3 DEF MoldTypeOK
  <2>5. w.mold = m /\ w.at = 0 /\ w.does = "bump" /\ (w.stamp /\ LineConfigured => w.todo = bound /\ bound # {} /\ due)
    OBVIOUS
  <2> HIDE DEF w, due
  <2>6. desk'[c] = w /\ \A x \in Desks : x # c => desk'[x] = desk[x]
    BY <1>1, <2>3 DEF MoldTypeOK
  <2>7. Stamped(desk[c])'
    <3>1. SUFFICES ASSUME desk'[c].stamp, LineConfigured
                   PROVE \E groups \in SUBSET Groups :
                             /\ groups # {} /\ <<desk'[c].mold, groups>> \in called'
                             /\ ToldAll(desk[c].mold, groups \ desk[c].todo, IF desk[c].at = 0 THEN tick ELSE desk[c].at)'
      BY DEF Stamped
    <3>2. bound \in SUBSET Groups /\ bound # {} /\ <<desk'[c].mold, bound>> \in called' /\ bound \ desk'[c].todo = {}
      BY <1>1, <2>3, <2>5, <2>6, <3>1 DEF MoldTypeOK
    <3> QED BY <3>2 DEF ToldAll
  <2> QED BY <1>1, <2>3, <2>4, <2>5, <2>6, <2>7, DeskStep
<1>6. ASSUME NEW c \in Desks, NEW g \in Groups, Push(c, g) PROVE MoldSound'
  <2>1. /\ g \in desk[c].todo /\ desk' = [desk EXCEPT ![c].todo = @ \ {g}]
        /\ delivered' = delivered \cup {<<desk[c].mold, g, tick + 1>>} /\ tick' = tick + 1
        /\ UNCHANGED <<rule, bound, called, tasks, slips>>
    BY <1>6 DEF Push, Told, Tick
  <2>2. desk[c] \in Desk /\ desk[c].mold \in Molds
    BY <1>1, <2>1, MoldAssumption DEF MoldSound, MoldTypeOK, Desk, Unoccupied
  <2>3. /\ desk'[c].todo = desk[c].todo \ {g} /\ desk'[c].at = desk[c].at /\ desk'[c].mold = desk[c].mold
        /\ desk'[c].does = desk[c].does /\ desk'[c].stamp = desk[c].stamp
        /\ \A x \in Desks : x # c => desk'[x] = desk[x]
    BY <1>1, <2>1 DEF MoldTypeOK, Desk
  <2>4. desk[c].at = 0 /\ desk[c].does # "nothing"
    BY <2>1 DEF MoldSound
  <2>5. MoldTypeOK'
    <3>1. desk' \in [Desks -> Desk]
      BY <1>1, <2>1 DEF MoldTypeOK, Desk
    <3>2. delivered' \subseteq Molds \X Groups \X Nat
      BY <1>1, <2>1, <2>2 DEF MoldTypeOK
    <3> QED BY <1>1, <2>1, <3>1, <3>2 DEF MoldTypeOK
  <2>6. Stamped(desk[c])'
    <3>1. SUFFICES ASSUME desk'[c].does = "bump", desk'[c].stamp, LineConfigured
                   PROVE \E groups \in SUBSET Groups :
                             /\ groups # {} /\ <<desk'[c].mold, groups>> \in called'
                             /\ ToldAll(desk[c].mold, groups \ desk[c].todo, IF desk[c].at = 0 THEN tick ELSE desk[c].at)'
      BY DEF Stamped
    <3>2. PICK groups \in SUBSET Groups :
              groups # {} /\ <<desk[c].mold, groups>> \in called /\ ToldAll(desk[c].mold, groups \ desk[c].todo, tick)
      BY <2>3, <2>4, <3>1 DEF MoldSound, Stamped
    <3>3. ASSUME NEW x \in groups \ desk'[c].todo PROVE \E t \in 1 .. tick + 1 : <<desk[c].mold, x, t>> \in delivered'
      <4>1. CASE x = g
        <5>1. tick + 1 \in 1 .. tick + 1
          BY <1>1
        <5> QED BY <2>1, <4>1, <5>1
      <4>2. CASE x # g
        <5>1. PICK t \in 1 .. tick : <<desk[c].mold, x, t>> \in delivered
          BY <2>3, <3>2, <3>3, <4>2 DEF ToldAll
        <5>2. t \in 1 .. tick + 1
          BY <1>1
        <5> QED BY <2>1, <5>1, <5>2
      <4> QED BY <4>1, <4>2
    <3>4. ToldAll(desk[c].mold, groups \ desk[c].todo, IF desk[c].at = 0 THEN tick ELSE desk[c].at)'
      BY <2>1, <2>3, <2>4, <3>3 DEF ToldAll
    <3>5. <<desk'[c].mold, groups>> \in called'
      BY <2>1, <2>3, <3>2
    <3> QED BY <3>2, <3>4, <3>5
  <2>7. delivered \subseteq delivered' /\ called \subseteq called' /\ tick <= tick'
    BY <1>1, <2>1
  <2>8. \A x \in Desks : \/ desk'[x] = desk[x]
                         \/ /\ desk'[x].does # "nothing" => desk'[x].mold \in Molds
                            /\ desk'[x].todo # {} => desk'[x].does # "nothing" /\ desk'[x].at = 0
                            /\ Stamped(desk[x])'
    BY <2>2, <2>3, <2>4, <2>6
  <2> QED BY <2>1, <2>5, <2>7, <2>8, DeskStep
<1>7. ASSUME NEW c \in Desks, NEW w \in Desk, desk' = [desk EXCEPT ![c] = w], tick' \in {tick, tick + 1},
             slips' \in Nat, tasks' \in Nat, UNCHANGED <<rule, bound, delivered, called>>,
             w.does # "nothing" => w.mold \in Molds, w.todo = {} \/ (w.does # "nothing" /\ w.at = 0), Stamped(desk[c])'
      PROVE MoldSound'
  <2>1. desk'[c] = w /\ \A x \in Desks : x # c => desk'[x] = desk[x]
    BY <1>1, <1>7 DEF MoldTypeOK
  <2>2. MoldTypeOK'
    BY <1>1, <1>7 DEF MoldTypeOK
  <2>3. tick <= tick'
    BY <1>1, <1>7
  <2> QED BY <1>7, <2>1, <2>2, <2>3, DeskStep
<1>8. ASSUME NEW c \in Desks, NEW g \in Groups, PushRefused(c, g) PROVE MoldSound'
  <2> DEFINE w == [desk[c] EXCEPT !.todo = @ \ {g}, !.stamp = FALSE]
  <2>1. g \in desk[c].todo /\ desk' = [desk EXCEPT ![c] = w] /\ slips' = slips + 1 /\ UNCHANGED <<rule, bound, tick, delivered, called, tasks>>
    BY <1>8 DEF PushRefused, NotTold, Slip
  <2>2. desk[c] \in Desk /\ desk[c].mold \in Molds /\ desk[c].at = 0 /\ desk[c].does # "nothing"
    BY <1>1, <2>1 DEF MoldSound, MoldTypeOK
  <2>3. w \in Desk /\ w.mold \in Molds /\ w.at = 0 /\ w.does # "nothing" /\ ~w.stamp
    BY <2>2 DEF Desk
  <2> HIDE DEF w
  <2>4. desk'[c] = w
    BY <1>1, <2>1 DEF MoldTypeOK
  <2>5. Stamped(desk[c])'
    BY <2>3, <2>4 DEF Stamped
  <2>6. slips' \in Nat /\ tasks' \in Nat
    BY <1>1, <2>1 DEF MoldTypeOK
  <2> QED BY <1>7, <2>1, <2>3, <2>5, <2>6
<1>9. ASSUME NEW c \in Desks, StampAlert(c) PROVE MoldSound'
  <2> DEFINE w == [desk[c] EXCEPT !.at = tick + 1]
  <2>1. /\ desk[c].does = "bump" /\ desk[c].todo = {} /\ desk[c].at = 0
        /\ desk' = [desk EXCEPT ![c] = w] /\ tick' = tick + 1 /\ UNCHANGED <<rule, bound, delivered, called, tasks, slips>>
    BY <1>9 DEF StampAlert, Tick
  <2>2. desk[c] \in Desk /\ desk[c].mold \in Molds
    BY <1>1, <2>1 DEF MoldSound, MoldTypeOK
  <2>3. /\ w \in Desk /\ w.mold = desk[c].mold /\ w.todo = {} /\ w.at = tick + 1 /\ w.does = "bump"
        /\ w.stamp = desk[c].stamp
    BY <1>1, <2>1, <2>2 DEF Desk
  <2> HIDE DEF w
  <2>4. desk'[c] = w
    BY <1>1, <2>1 DEF MoldTypeOK
  <2>5. Stamped(desk[c])'
    <3>1. SUFFICES ASSUME desk'[c].does = "bump", desk'[c].stamp, LineConfigured
                   PROVE \E groups \in SUBSET Groups :
                             /\ groups # {} /\ <<desk'[c].mold, groups>> \in called'
                             /\ ToldAll(desk[c].mold, groups \ desk[c].todo, IF desk[c].at = 0 THEN tick ELSE desk[c].at)'
      BY DEF Stamped
    <3>2. PICK groups \in SUBSET Groups :
              groups # {} /\ <<desk[c].mold, groups>> \in called /\ ToldAll(desk[c].mold, groups \ desk[c].todo, tick)
      BY <2>1, <2>3, <2>4, <3>1 DEF MoldSound, Stamped
    <3>3. 1 .. tick \subseteq 1 .. tick + 1 /\ tick + 1 # 0
      BY <1>1
    <3>4. \A g \in groups : \E t \in 1 .. tick + 1 : <<desk[c].mold, g, t>> \in delivered
      BY <2>1, <3>2, <3>3 DEF ToldAll
    <3>5. ToldAll(desk[c].mold, groups \ desk[c].todo, IF desk[c].at = 0 THEN tick ELSE desk[c].at)'
      BY <2>1, <2>3, <2>4, <3>3, <3>4 DEF ToldAll
    <3>6. <<desk'[c].mold, groups>> \in called'
      BY <2>1, <2>3, <2>4, <3>2
    <3> QED BY <3>2, <3>5, <3>6
  <2>6. slips' \in Nat /\ tasks' \in Nat
    BY <1>1, <2>1 DEF MoldTypeOK
  <2> QED BY <1>7, <2>1, <2>2, <2>3, <2>5, <2>6
<1>10. ASSUME NEW c \in Desks, CommitBump(c) PROVE MoldSound'
  <2> DEFINE m == desk[c].mold
             row == [rule[m] EXCEPT !.count = Written(desk[c].seen.count, desk[c].count, @),
                                    !.alertAt = IF desk[c].stamp THEN desk[c].at ELSE @]
  <2>1. /\ desk[c].does = "bump" /\ desk[c].at # 0 /\ rule' = [rule EXCEPT ![m] = row]
        /\ desk' = [desk EXCEPT ![c] = Unoccupied] /\ UNCHANGED <<bound, tick, delivered, called, tasks, slips>>
    <3>1. rule' = [rule EXCEPT ![m].count = Written(desk[c].seen.count, desk[c].count, @),
                               ![m].alertAt = IF desk[c].stamp THEN desk[c].at ELSE @]
      BY <1>10 DEF CommitBump
    <3> QED BY <1>1, <1>10, <3>1 DEF CommitBump, MoldTypeOK, Rule
  <2>2. desk[c] \in Desk /\ m \in Molds /\ rule[m] \in Rule /\ desk[c].todo = {}
    BY <1>1, <2>1 DEF MoldSound, MoldTypeOK
  <2>3. row \in Rule /\ row.alertAt = IF desk[c].stamp THEN desk[c].at ELSE rule[m].alertAt
    <3>1. Written(desk[c].seen.count, desk[c].count, rule[m].count) \in Nat
      BY <2>2 DEF Written, Desk, Rule
    <3>2. desk[c].at \in Nat
      BY <2>2 DEF Desk
    <3> HIDE DEF m
    <3> QED BY <2>2, <3>1, <3>2 DEF Rule
  <2>4. \A x \in Molds : x # m => rule'[x] = rule[x]
    BY <1>1, <2>1 DEF MoldTypeOK
  <2>5. rule'[m].alertAt = IF desk[c].stamp THEN desk[c].at ELSE rule[m].alertAt
    <3> HIDE DEF row, m
    <3> QED BY <1>1, <2>1, <2>2, <2>3 DEF MoldTypeOK
  <2>6. desk[c].stamp /\ LineConfigured =>
            \E groups \in SUBSET Groups : groups # {} /\ <<m, groups>> \in called /\ ToldAll(m, groups, desk[c].at)
    <3>1. SUFFICES ASSUME desk[c].stamp, LineConfigured
                   PROVE \E groups \in SUBSET Groups : groups # {} /\ <<m, groups>> \in called /\ ToldAll(m, groups, desk[c].at)
      OBVIOUS
    <3>2. PICK groups \in SUBSET Groups :
              groups # {} /\ <<m, groups>> \in called /\ ToldAll(m, groups \ desk[c].todo, desk[c].at)
      BY <2>1, <3>1 DEF MoldSound, Stamped
    <3> QED BY <2>2, <3>2 DEF ToldAll
  <2>7. MoldTypeOK'
    <3> HIDE DEF row, m
    <3> QED BY <1>1, <2>1, <2>3, NewMoldRows DEF MoldTypeOK
  <2>8. ASSUME NEW x \in Molds, rule'[x].alertAt # rule[x].alertAt, LineConfigured PROVE Reminded(x, rule[x].alertAt)'
    <3>1. x = m /\ desk[c].stamp /\ rule'[x].alertAt = desk[c].at
      BY <2>4, <2>5, <2>8
    <3>2. PICK groups \in SUBSET Groups : groups # {} /\ <<x, groups>> \in called /\ ToldAll(x, groups, desk[c].at)
      BY <2>6, <2>8, <3>1
    <3> QED BY <2>1, <3>1, <3>2 DEF Reminded, ToldAll
  <2>9. desk'[c] = Unoccupied /\ \A x \in Desks : x # c => desk'[x] = desk[x]
    BY <1>1, <2>1 DEF MoldTypeOK
  <2>10. Stamped(desk[c])'
    BY <2>9 DEF Stamped, Unoccupied
  <2>11. \A x \in Desks : \/ desk'[x] = desk[x]
                          \/ /\ desk'[x].does # "nothing" => desk'[x].mold \in Molds
                             /\ desk'[x].todo # {} => desk'[x].does # "nothing" /\ desk'[x].at = 0
                             /\ Stamped(desk[x])'
    BY <2>9, <2>10 DEF Unoccupied
  <2>12. tick <= tick' /\ delivered \subseteq delivered' /\ called \subseteq called'
    BY <1>1, <2>1
  <2> HIDE DEF m, row
  <2> QED BY <2>7, <2>8, <2>11, <2>12, DeskStep
<1>11. ASSUME NEW c \in Desks, NEW m \in Molds, Reset(c, m) PROVE MoldSound'
  <2> DEFINE w == [Unoccupied EXCEPT !.does = "reset", !.mold = m, !.seen = rule[m], !.at = tick + 1]
  <2>1. desk' = [desk EXCEPT ![c] = w] /\ tick' = tick + 1 /\ tasks' = tasks + 1 /\ UNCHANGED <<rule, bound, delivered, called, slips>>
    BY <1>11 DEF Reset, Tick, TakeTask
  <2>2. w \in Desk /\ w.mold = m /\ w.todo = {} /\ w.does = "reset"
    BY <1>1, NewMoldRows DEF Desk, Unoccupied, MoldTypeOK
  <2> HIDE DEF w
  <2>3. desk'[c] = w
    BY <1>1, <2>1 DEF MoldTypeOK
  <2>4. Stamped(desk[c])'
    BY <2>2, <2>3 DEF Stamped
  <2>5. slips' \in Nat /\ tasks' \in Nat
    BY <1>1, <2>1 DEF MoldTypeOK
  <2> QED BY <1>7, <2>1, <2>2, <2>4, <2>5
<1>12. ASSUME NEW c \in Desks, CommitReset(c) PROVE MoldSound'
  <2> DEFINE m == desk[c].mold
             row == [rule[m] EXCEPT !.count = Written(desk[c].seen.count, 0, @), !.resetAt = desk[c].at]
  <2>1. /\ desk[c].does = "reset" /\ rule' = [rule EXCEPT ![m] = row]
        /\ desk' = [desk EXCEPT ![c] = Unoccupied] /\ UNCHANGED <<bound, tick, delivered, called, tasks, slips>>
    <3>1. rule' = [rule EXCEPT ![m].count = Written(desk[c].seen.count, 0, @), ![m].resetAt = desk[c].at]
      BY <1>12 DEF CommitReset
    <3> QED BY <1>1, <1>12, <3>1 DEF CommitReset, MoldTypeOK, Rule
  <2>2. desk[c] \in Desk /\ m \in Molds /\ rule[m] \in Rule
    BY <1>1, <2>1 DEF MoldSound, MoldTypeOK
  <2>3. row \in Rule /\ row.alertAt = rule[m].alertAt
    <3>1. Written(desk[c].seen.count, 0, rule[m].count) \in Nat /\ desk[c].at \in Nat
      BY <2>2 DEF Written, Desk, Rule
    <3> HIDE DEF m
    <3> QED BY <2>2, <3>1 DEF Rule
  <2>4. desk'[c] = Unoccupied /\ \A x \in Desks : x # c => desk'[x] = desk[x]
    BY <1>1, <2>1 DEF MoldTypeOK
  <2>5. Stamped(desk[c])'
    BY <2>4 DEF Stamped, Unoccupied
  <2>6. \A x \in Desks : \/ desk'[x] = desk[x]
                         \/ /\ desk'[x].does # "nothing" => desk'[x].mold \in Molds
                            /\ desk'[x].todo # {} => desk'[x].does # "nothing" /\ desk'[x].at = 0
                            /\ Stamped(desk[x])'
    BY <2>4, <2>5 DEF Unoccupied
  <2> HIDE DEF m, row
  <2>7. MoldTypeOK' /\ \A x \in Molds : rule'[x].alertAt = rule[x].alertAt
    BY <1>1, <2>1, <2>2, <2>3, NewMoldRows DEF MoldTypeOK
  <2>8. tick <= tick' /\ delivered \subseteq delivered' /\ called \subseteq called'
    BY <1>1, <2>1
  <2> QED BY <2>6, <2>7, <2>8, DeskStep
<1>13. ASSUME NEW c \in Desks, DieAtDesk(c) PROVE MoldSound'
  <2>1. desk' = [desk EXCEPT ![c] = Unoccupied] /\ slips' = slips + 1 /\ UNCHANGED <<rule, bound, tick, delivered, called, tasks>>
    BY <1>13 DEF DieAtDesk, Slip
  <2>2. desk'[c] = Unoccupied
    BY <1>1, <2>1 DEF MoldTypeOK
  <2>3. Stamped(desk[c])' /\ Unoccupied.todo = {} /\ Unoccupied.does = "nothing"
    BY <2>2 DEF Stamped, Unoccupied
  <2>4. slips' \in Nat /\ tasks' \in Nat
    BY <1>1, <2>1 DEF MoldTypeOK
  <2> QED BY <1>7, <2>1, <2>3, <2>4, NewMoldRows
<1> QED BY <1>2, <1>3, <1>4, <1>5, <1>6, <1>8, <1>9, <1>10, <1>11, <1>12, <1>13 DEF MoldNext

LEMMA MoldInitSound == MoldInit => MoldSound
<1> SUFFICES ASSUME MoldInit PROVE MoldSound
  OBVIOUS
<1>1. MoldTypeOK
  BY NewMoldRows DEF MoldInit, MoldTypeOK
<1>2. ASSUME NEW c \in Desks
      PROVE /\ desk[c].does # "nothing" => desk[c].mold \in Molds
            /\ desk[c].todo # {} => desk[c].does # "nothing" /\ desk[c].at = 0
            /\ Stamped(desk[c])
  BY DEF MoldInit, Unoccupied, Stamped
<1>3. \A m \in Molds : rule[m].alertAt = 0
  BY DEF MoldInit, NoRule
<1> QED BY <1>1, <1>2, <1>3 DEF MoldSound

\* The rows of the mold rules and the requests are well formed.
THEOREM MoldTypeCorrect == MoldSpec => []MoldTypeOK
<1>1. MoldSound => MoldTypeOK
  BY DEF MoldSound
<1> QED BY <1>1, MoldInitSound, MoldStepSound, PTL DEF MoldSpec

\* A mold is silent only when every group of some reminder was told, for any molds, groups and requests at one time.
THEOREM AlertWasHeardHolds == MoldSpec => []AlertWasHeard
<1>1. MoldSound => AlertWasHeard
  BY DEF MoldSound, AlertWasHeard, Reminded, ToldAll
<1> QED BY <1>1, MoldInitSound, MoldStepSound, PTL DEF MoldSpec

-----------------------------------------------------------------------------
(***************************************************************************)
(* InspectionPlan: types.                                                  *)
(***************************************************************************)

MissionStatus == {"ready", "scheduled", "dispatched", "running", "completed", "failed", "report_ready"}
ClerkWork == {"nothing", "reschedule", "dispatch", "redispatch", "read reports", "read events", "analyse", "stored"}
ClerkRow == [does : ClerkWork, id : 0 .. MaxDispatches, mission : Missions \cup {None}, was : Dispatch, now : Dispatch,
             statusWas : MissionStatus, status : MissionStatus, schedule : Schedules \cup {None}, planWas : Schedule,
             plan : Schedule, mode : Modes, reports : SUBSET AnalysisReport, events : SUBSET Nat, old : Nat, at : Nat]

\* Requests that deal with a mission have one.
AtMission(w) == w.does \in {"nothing", "reschedule"} \/ w.mission \in Missions

PlanTyped == PlanTypeOK /\ clerk \in [Clerks -> ClerkRow] /\ \A c \in Clerks : AtMission(clerk[c])

\* The desk of a request after a step of its own; those of the others stay.
LEMMA ClerkTyped ==
    ASSUME PlanTyped, NEW c \in Clerks, NEW w \in ClerkRow, AtMission(w), clerk' = [clerk EXCEPT ![c] = w]
    PROVE clerk' \in [Clerks -> ClerkRow] /\ (\A x \in Clerks : AtMission(clerk[x]))'
<1>1. clerk' \in [Clerks -> ClerkRow]
  BY DEF PlanTyped
<1>2. ASSUME NEW x \in Clerks PROVE AtMission(clerk'[x])
  BY DEF PlanTyped
<1> QED BY <1>1, <1>2

LEMMA NewPlanRows ==
    /\ NewTemplate \in Template /\ NewSchedule \in Schedule /\ NewDispatch \in Dispatch
    /\ Waiting \in ClerkRow
<1>1. NewTemplate \in Template /\ NewSchedule \in Schedule /\ NewDispatch \in Dispatch
  BY DEF NewTemplate, Template, NewSchedule, Schedule, NewDispatch, Dispatch, ScheduleStatus, DispatchStatus
<1>2. 0 \in 0 .. MaxDispatches
  BY PlanAssumption
<1>3. Waiting \in ClerkRow
  BY <1>1, <1>2 DEF Waiting, ClerkRow, ClerkWork, Modes, MissionStatus
<1> QED BY <1>1, <1>3

\* Of a row that was read, changed and written back, a column is what was changed or what is stored.
LEMMA DispatchColumns ==
    ASSUME NEW was \in Dispatch, NEW now \in Dispatch, NEW row \in Dispatch
    PROVE /\ Columns(was, now, row) \in Dispatch
          /\ Columns(was, now, row).mission = IF now.mission # was.mission THEN now.mission ELSE row.mission
          /\ Columns(was, now, row).route = IF now.route # was.route THEN now.route ELSE row.route
          /\ Columns(was, now, row).template = IF now.template # was.template THEN now.template ELSE row.template
          /\ Columns(was, now, row).schedule = IF now.schedule # was.schedule THEN now.schedule ELSE row.schedule
<1>1. Columns(was, now, row) \in Dispatch
  BY SMT DEF Columns, Dispatch
<1>2. Columns(was, now, row).mission = IF now.mission # was.mission THEN now.mission ELSE row.mission
  BY SMT DEF Columns, Dispatch
<1>3. Columns(was, now, row).route = IF now.route # was.route THEN now.route ELSE row.route
  BY SMT DEF Columns, Dispatch
<1>4. Columns(was, now, row).template = IF now.template # was.template THEN now.template ELSE row.template
  BY SMT DEF Columns, Dispatch
<1>5. Columns(was, now, row).schedule = IF now.schedule # was.schedule THEN now.schedule ELSE row.schedule
  BY SMT DEF Columns, Dispatch
<1> QED BY <1>1, <1>2, <1>3, <1>4, <1>5

LEMMA ScheduleColumns ==
    ASSUME NEW was \in Schedule, NEW now \in Schedule, NEW row \in Schedule
    PROVE /\ Columns(was, now, row) \in Schedule
          /\ Columns(was, now, row).known = IF now.known # was.known THEN now.known ELSE row.known
          /\ Columns(was, now, row).route = IF now.route # was.route THEN now.route ELSE row.route
          /\ Columns(was, now, row).template = IF now.template # was.template THEN now.template ELSE row.template
<1>1. Columns(was, now, row) \in Schedule
  BY SMT DEF Columns, Schedule
<1>2. Columns(was, now, row).known = IF now.known # was.known THEN now.known ELSE row.known
  BY SMT DEF Columns, Schedule
<1>3. Columns(was, now, row).route = IF now.route # was.route THEN now.route ELSE row.route
  BY SMT DEF Columns, Schedule
<1>4. Columns(was, now, row).template = IF now.template # was.template THEN now.template ELSE row.template
  BY SMT DEF Columns, Schedule
<1> QED BY <1>1, <1>2, <1>3, <1>4

\* Normalizing a schedule leaves what it refers to alone.
LEMMA NormalizedScheduleTyped ==
    ASSUME NEW s \in Schedule, NEW now \in Nat
    PROVE /\ NormalizedSchedule(s, now) \in Schedule
          /\ NormalizedSchedule(s, now).known = s.known
          /\ NormalizedSchedule(s, now).route = s.route
          /\ NormalizedSchedule(s, now).template = s.template
<1>1. FollowUp(s) \in {"none", "follow-up"}
  BY DEF FollowUp
<1>2. CASE s.status = "scheduled"
  BY <1>1, <1>2 DEF NormalizedSchedule, Schedule, ScheduleStatus
<1>3. CASE s.status = "paused"
  BY <1>1, <1>3 DEF NormalizedSchedule, Schedule, ScheduleStatus
<1>4. CASE s.status = "cancelled"
  BY <1>1, <1>4 DEF NormalizedSchedule, Schedule, ScheduleStatus
<1>5. CASE s.status = "completed"
  BY <1>1, <1>5 DEF NormalizedSchedule, Schedule, ScheduleStatus
<1> QED BY <1>2, <1>3, <1>4, <1>5 DEF Schedule, ScheduleStatus

LEMMA NormalizedDispatchTyped ==
    ASSUME NEW d \in Dispatch, NEW now \in Nat
    PROVE /\ NormalizedDispatch(d, now) \in Dispatch
          /\ NormalizedDispatch(d, now).mission = d.mission
          /\ NormalizedDispatch(d, now).route = d.route
          /\ NormalizedDispatch(d, now).template = d.template
          /\ NormalizedDispatch(d, now).schedule = d.schedule
BY DEF NormalizedDispatch, Dispatch

LEMMA MarkedTyped ==
    ASSUME NEW s \in Schedule, NEW now \in Nat
    PROVE /\ Marked(s, now) \in Schedule
          /\ Marked(s, now).known = s.known
          /\ Marked(s, now).route = s.route
          /\ Marked(s, now).template = s.template
BY DEF Marked, Schedule

LEMMA MissionWritten ==
    ASSUME PlanTyped, NEW m \in Missions, NEW status \in MissionStatus, missions' = [missions EXCEPT ![m].status = status]
    PROVE missions' \in [Missions -> Mission]
<1>1. missions \in [Missions -> Mission]
  BY DEF PlanTyped, PlanTypeOK
<1>2. missions[m] \in Mission
  BY <1>1
<1>3. [missions[m] EXCEPT !.status = status] \in Mission
  BY <1>2 DEF Mission, MissionStatus
<1> QED BY <1>1, <1>3

\* The status of a mission is written if it changed against the one that was read.
LEMMA StatusWritten ==
    ASSUME PlanTyped, NEW c \in Clerks, clerk[c].mission \in Missions, clerk[c].status \in MissionStatus,
           missions' = [missions EXCEPT ![clerk[c].mission].status = IF clerk[c].status # clerk[c].statusWas THEN clerk[c].status ELSE @]
    PROVE missions' \in [Missions -> Mission]
<1>1. PICK m : m = clerk[c].mission
  OBVIOUS
<1>2. missions[m] \in Mission
  BY <1>1 DEF PlanTyped, PlanTypeOK
<1>3. PICK status : status = IF clerk[c].status # clerk[c].statusWas THEN clerk[c].status ELSE missions[m].status
  OBVIOUS
<1>4. status \in MissionStatus
  BY <1>2, <1>3 DEF Mission, MissionStatus
<1>5. missions' = [missions EXCEPT ![m].status = status]
  BY <1>1, <1>3 DEF PlanTyped, PlanTypeOK
<1> QED BY <1>1, <1>4, <1>5, MissionWritten

LEMMA StatusForTyped == ASSUME NEW status \in DispatchStatus PROVE StatusFor(status) \in MissionStatus
BY DEF StatusFor, DispatchStatus, MissionStatus

LEMMA StatusAfterTyped ==
    ASSUME NEW status \in MissionStatus, NEW mode PROVE StatusAfter(status, mode) \in MissionStatus
BY DEF StatusAfter, MissionStatus

LEMMA FoundTyped == ASSUME NEW at \in Nat, NEW mode PROVE Found(at, mode) \in SUBSET Nat /\ Cardinality(Found(at, mode)) \in Nat
<1>1. Found(at, mode) \in SUBSET Nat
  BY DEF Found
<1>2. IsFiniteSet(Found(at, mode))
  <2>1. IsFiniteSet({}) /\ IsFiniteSet({2 * at})
    BY FS_EmptySet, FS_Singleton
  <2>2. IsFiniteSet({2 * at} \cup {2 * at + 1})
    BY <2>1, FS_AddElement
  <2>3. {2 * at} \cup {2 * at + 1} = {2 * at, 2 * at + 1}
    OBVIOUS
  <2> QED BY <2>1, <2>2, <2>3 DEF Found
<1> QED BY <1>1, <1>2, FS_CardinalityType

LEMMA AgendaTyped ==
    ASSUME PlanTypeOK
    PROVE /\ agenda.acts \subseteq Deeds /\ agenda.asked \subseteq ScheduleStatus \cup DispatchStatus
          /\ agenda.requests \in Nat /\ agenda.mishaps \in Nat
          /\ served \in Nat /\ mishaps \in Nat /\ ThisRequest \in Nat
<1>1. agenda \in [acts : SUBSET Deeds, asked : SUBSET (ScheduleStatus \cup DispatchStatus), requests : Nat, mishaps : Nat]
  BY PlanAssumption DEF PlanTypeOK
<1> QED BY <1>1 DEF PlanTypeOK, ThisRequest

LEMMA ServeTyped ==
    ASSUME PlanTypeOK, NEW act, Serve(act)
    PROVE served' \in 0 .. agenda.requests
BY AgendaTyped DEF Serve

LEMMA BeginDispatchTyped ==
    ASSUME PlanTyped, NEW c \in Clerks, NEW act \in {"dispatch", "redispatch"}, NEW id \in 0 .. MaxDispatches,
           NEW m \in Missions, NEW was \in Dispatch, NEW now \in Dispatch, NEW s \in Schedules \cup {None},
           NEW marks \in BOOLEAN, BeginDispatch(c, act, id, m, was, now, s, marks)
    PROVE clerk' \in [Clerks -> ClerkRow] /\ (\A x \in Clerks : AtMission(clerk[x]))'
<1> DEFINE planWas == IF s = None THEN NewSchedule ELSE schedules[s]
           plan == IF s = None THEN NewSchedule ELSE IF marks THEN Marked(schedules[s], ThisRequest) ELSE schedules[s]
<1>1. planWas \in Schedule
  BY NewPlanRows DEF PlanTyped, PlanTypeOK
<1>2. plan \in Schedule
  BY NewPlanRows, MarkedTyped, AgendaTyped DEF PlanTyped, PlanTypeOK
<1>3. StatusFor(now.status) \in MissionStatus /\ missions[m].status \in MissionStatus
  BY StatusForTyped DEF Dispatch, PlanTyped, PlanTypeOK, Mission, MissionStatus
<1> DEFINE w == [Waiting EXCEPT !.does = act, !.id = id, !.mission = m, !.was = was, !.now = now,
                                !.statusWas = missions[m].status, !.status = StatusFor(now.status),
                                !.schedule = s, !.planWas = planWas, !.plan = plan]
<1>4. w \in ClerkRow
  <2> HIDE DEF planWas, plan
  <2> QED BY <1>1, <1>2, <1>3, NewPlanRows DEF ClerkRow, ClerkWork
<1>5. clerk' = [clerk EXCEPT ![c] = w]
  BY DEF BeginDispatch
<1>6. w.mission = m
  BY DEF Waiting
<1> HIDE DEF w
<1> QED BY <1>4, <1>5, <1>6, ClerkTyped DEF AtMission

LEMMA ReleasedTyped ==
    ASSUME PlanTyped, NEW c \in Clerks, clerk' = [clerk EXCEPT ![c] = Waiting]
    PROVE clerk' \in [Clerks -> ClerkRow] /\ (\A x \in Clerks : AtMission(clerk[x]))'
<1>1. Waiting \in ClerkRow /\ AtMission(Waiting)
  BY NewPlanRows DEF AtMission, Waiting
<1> QED BY <1>1, ClerkTyped

LEMMA PlanInitTyped == PlanInit => PlanTyped
<1> SUFFICES ASSUME PlanInit PROVE PlanTyped
  OBVIOUS
<1>1. agenda \in Agendas /\ agenda.requests \in Nat /\ agenda.mishaps \in Nat
  BY PlanAssumption DEF PlanInit
<1>2. templates \in [Templates -> Template] /\ schedules \in [Schedules -> Schedule] /\ dispatches \in [DispatchIds -> Dispatch]
  BY NewPlanRows DEF PlanInit
<1>3. missions \in [Missions -> Mission]
  BY DEF PlanInit
<1>4. clerk \in [Clerks -> ClerkRow] /\ \A c \in Clerks : AtMission(clerk[c])
  BY NewPlanRows DEF PlanInit, AtMission, Waiting
<1>5. /\ events \in [Missions -> SUBSET Nat] /\ evidence \subseteq Nat /\ stored \subseteq Nat
      /\ reports \in [Missions -> SUBSET AnalysisReport]
      /\ pages \in [Missions -> SUBSET Nat] /\ page \in [Missions -> Nat] /\ analyses \in Nat
      /\ routes \subseteq Routes
  BY DEF PlanInit
<1>6. served \in 0 .. agenda.requests /\ mishaps \in 0 .. agenda.mishaps
  BY <1>1 DEF PlanInit
<1> QED BY <1>1, <1>2, <1>3, <1>4, <1>5, <1>6 DEF PlanTyped, PlanTypeOK

LEMMA ReplanTyped ==
    ASSUME PlanTyped, NEW w \in ClerkRow, Replan(w)
    PROVE schedules' \in [Schedules -> Schedule]
<1>1. CASE w.schedule = None
  BY <1>1 DEF Replan, PlanTyped, PlanTypeOK
<1>2. CASE w.schedule # None
  <2> DEFINE row == Columns(w.planWas, w.plan, schedules[w.schedule])
  <2>1. w.schedule \in Schedules /\ w.planWas \in Schedule /\ w.plan \in Schedule
    BY <1>2 DEF ClerkRow
  <2>2. row \in Schedule
    BY <2>1, ScheduleColumns DEF PlanTyped, PlanTypeOK
  <2>3. schedules' = [schedules EXCEPT ![w.schedule] = row]
    BY <1>2 DEF Replan
  <2> HIDE DEF row
  <2> QED BY <2>1, <2>2, <2>3 DEF PlanTyped, PlanTypeOK
<1> QED BY <1>1, <1>2

LEMMA PlanStepTyped == PlanTyped /\ [PlanNext]_planVars => PlanTyped'
<1> SUFFICES ASSUME PlanTyped, [PlanNext]_planVars PROVE PlanTyped'
  OBVIOUS
<1> USE DEF PlanTyped
<1>1. CASE UNCHANGED planVars
  BY <1>1 DEF planVars, PlanTypeOK
<1>2. ASSUME NEW r \in Routes, CreateRoute(r) PROVE PlanTyped'
  BY <1>2 DEF CreateRoute, PlanTypeOK, analysis
<1>3. ASSUME NEW t \in Templates, NEW r \in Routes \cup {None}, CreateTemplate(t, r) PROVE PlanTyped'
  <2>1. [known |-> TRUE, route |-> r] \in Template
    BY DEF Template
  <2>2. templates' \in [Templates -> Template]
    BY <1>3, <2>1 DEF CreateTemplate, PlanTypeOK
  <2> QED BY <1>3, <2>2, ServeTyped DEF CreateTemplate, PlanTypeOK, analysis
<1>4. ASSUME NEW t \in Templates, NEW r \in Routes, PatchTemplate(t, r) PROVE PlanTyped'
  <2>1. templates' \in [Templates -> Template]
    BY <1>4 DEF PatchTemplate, PlanTypeOK, Template
  <2> QED BY <1>4, <2>1, ServeTyped DEF PatchTemplate, PlanTypeOK, analysis
<1>5. ASSUME NEW s \in Schedules, NEW r \in Routes \cup {None}, NEW t \in Templates \cup {None},
             NEW status \in agenda.asked \cap ScheduleStatus, NEW planned \in BOOLEAN, NEW recurs \in BOOLEAN,
             CreateSchedule(s, r, t, status, planned, recurs)
      PROVE PlanTyped'
  <2> DEFINE row == [NewSchedule EXCEPT !.known = TRUE, !.route = r, !.template = t, !.status = status,
                                        !.planned = planned, !.recurs = recurs]
  <2>1. row \in Schedule
    BY NewPlanRows DEF Schedule
  <2>2. NormalizedSchedule(row, ThisRequest) \in Schedule
    BY <2>1, NormalizedScheduleTyped, AgendaTyped
  <2>3. schedules' = [schedules EXCEPT ![s] = NormalizedSchedule(row, ThisRequest)]
    BY <1>5 DEF CreateSchedule
  <2>4. schedules' \in [Schedules -> Schedule]
    <3> HIDE DEF row
    <3> QED BY <2>2, <2>3 DEF PlanTypeOK
  <2> QED BY <1>5, <2>4, ServeTyped DEF CreateSchedule, PlanTypeOK, analysis
<1>6. ASSUME NEW m \in Missions, NEW r \in Routes, CreateFlightTask(m, r) PROVE PlanTyped'
  <2>1. placeOf[r] \in Premises \cup {NoSite}
    BY PlanAssumption
  <2>2. StatusFor("assigned") \in MissionStatus
    BY StatusForTyped DEF DispatchStatus
  <2>3. missions' \in [Missions -> Mission]
    BY <1>6, <2>1, <2>2 DEF CreateFlightTask, PlanTypeOK, Mission, MissionStatus
  <2> DEFINE row == [NewDispatch EXCEPT !.mission = m, !.route = r, !.status = "assigned"]
  <2>4. row \in Dispatch
    BY NewPlanRows DEF Dispatch, DispatchStatus
  <2>5. PICK d \in DispatchesOf(None) : dispatches' = [dispatches EXCEPT ![d] = row]
    BY <1>6 DEF CreateFlightTask
  <2>6. dispatches' \in [DispatchIds -> Dispatch]
    <3> HIDE DEF row
    <3> QED BY <2>4, <2>5 DEF PlanTypeOK
  <2> QED BY <1>6, <2>3, <2>6, ServeTyped DEF CreateFlightTask, PlanTypeOK, analysis
<1>7. ASSUME NEW c \in Clerks, NEW s \in Schedules, NEW r \in Routes \cup {None}, NEW t \in Templates \cup {None},
             NEW status \in (agenda.asked \cap ScheduleStatus) \cup {None}, NEW planned \in BOOLEAN, NEW recurs \in BOOLEAN,
             PatchSchedule(c, s, r, t, status, planned, recurs)
      PROVE PlanTyped'
  <2> DEFINE was == schedules[s]
             given == [was EXCEPT !.route = Given(r, @), !.template = Given(t, @), !.status = Given(status, @),
                                  !.planned = @ \/ planned, !.recurs = recurs]
             now == NormalizedSchedule(given, ThisRequest)
             w == [Waiting EXCEPT !.does = "reschedule", !.schedule = s, !.planWas = was, !.plan = now]
  <2>1. was \in Schedule
    BY DEF PlanTypeOK
  <2>2. /\ Given(r, was.route) \in Routes \cup {None} /\ Given(t, was.template) \in Templates \cup {None}
        /\ Given(status, was.status) \in ScheduleStatus
    BY <2>1 DEF Given, Schedule
  <2>3. given \in Schedule
    <3> HIDE DEF was
    <3> QED BY <2>1, <2>2 DEF Schedule
  <2>4. now \in Schedule
    <3> HIDE DEF given
    <3> QED BY <2>3, NormalizedScheduleTyped, AgendaTyped
  <2>5. w \in ClerkRow
    <3> HIDE DEF was, now
    <3> QED BY <2>1, <2>4, NewPlanRows DEF ClerkRow, ClerkWork
  <2>6. clerk' = [clerk EXCEPT ![c] = w]
    BY <1>7 DEF PatchSchedule
  <2>7. clerk' \in [Clerks -> ClerkRow] /\ (\A x \in Clerks : AtMission(clerk[x]))'
    <3>1. AtMission(w)
      BY DEF AtMission, Waiting
    <3> HIDE DEF w
    <3> QED BY <2>5, <2>6, <3>1, ClerkTyped
  <2> QED BY <1>7, <2>7, ServeTyped DEF PatchSchedule, PlanTypeOK, analysis
<1>8. ASSUME NEW c \in Clerks, NEW m \in Missions, NEW r \in Routes \cup {None}, NEW t \in Templates \cup {None},
             NEW s \in Schedules \cup {None}, NEW status \in agenda.asked \cap DispatchStatus,
             DispatchMission(c, m, r, t, s, status)
      PROVE PlanTyped'
  <2>1. PICK d \in DispatchIds \cup {0} :
            LET was == IF d = 0 THEN NewDispatch ELSE dispatches[d]
                now == NormalizedDispatch([was EXCEPT !.mission = m, !.route = r, !.template = t, !.schedule = s, !.status = status],
                                          ThisRequest)
            IN  BeginDispatch(c, "dispatch", d, m, was, now, s, TRUE)
    BY <1>8 DEF DispatchMission, DispatchesOf
  <2> DEFINE was == IF d = 0 THEN NewDispatch ELSE dispatches[d]
             given == [was EXCEPT !.mission = m, !.route = r, !.template = t, !.schedule = s, !.status = status]
             now == NormalizedDispatch(given, ThisRequest)
  <2>2. was \in Dispatch /\ d \in 0 .. MaxDispatches
    BY NewPlanRows, PlanAssumption DEF PlanTypeOK, DispatchIds
  <2>3. given \in Dispatch
    <3> HIDE DEF was
    <3> QED BY <2>2 DEF Dispatch
  <2>4. now \in Dispatch
    <3> HIDE DEF given
    <3> QED BY <2>3, NormalizedDispatchTyped, AgendaTyped
  <2>5. BeginDispatch(c, "dispatch", d, m, was, now, s, TRUE)
    BY <2>1
  <2>6. clerk' \in [Clerks -> ClerkRow] /\ (\A x \in Clerks : AtMission(clerk[x]))'
    <3> HIDE DEF was, now
    <3> QED BY <2>2, <2>4, <2>5, BeginDispatchTyped
  <2> HIDE DEF was, given, now
  <2> QED BY <1>8, <2>6, ServeTyped DEF DispatchMission, PlanTypeOK, analysis
<1>9. ASSUME NEW c \in Clerks, NEW d \in DispatchIds, NEW r \in Routes \cup {None}, NEW t \in Templates \cup {None},
             NEW s \in Schedules \cup {None}, NEW status \in (agenda.asked \cap DispatchStatus) \cup {None},
             PatchDispatch(c, d, r, t, s, status)
      PROVE PlanTyped'
  <2> DEFINE was == dispatches[d]
             given == [was EXCEPT !.route = Given(r, @), !.template = Given(t, @), !.schedule = Given(s, @),
                                  !.status = Given(status, @)]
             now == NormalizedDispatch(given, ThisRequest)
             marks == now.status \in {"assigned", "sent", "accepted", "completed"}
  <2>1. was \in Dispatch
    BY DEF PlanTypeOK
  <2>2. /\ Given(r, was.route) \in Routes \cup {None} /\ Given(t, was.template) \in Templates \cup {None}
        /\ Given(s, was.schedule) \in Schedules \cup {None} /\ Given(status, was.status) \in DispatchStatus
    BY <2>1 DEF Given, Dispatch
  <2>3. given \in Dispatch
    <3> HIDE DEF was
    <3> QED BY <2>1, <2>2 DEF Dispatch
  <2>4. now \in Dispatch
    <3> HIDE DEF given
    <3> QED BY <2>3, NormalizedDispatchTyped, AgendaTyped
  <2>5. was.mission \in Missions /\ BeginDispatch(c, "redispatch", d, was.mission, was, now, now.schedule, marks)
    BY <1>9, <2>1 DEF PatchDispatch, Dispatch
  <2>6. d \in 0 .. MaxDispatches /\ now.schedule \in Schedules \cup {None} /\ marks \in BOOLEAN
    <3> HIDE DEF now
    <3> QED BY <2>4, PlanAssumption DEF DispatchIds, Dispatch
  <2>7. clerk' \in [Clerks -> ClerkRow] /\ (\A x \in Clerks : AtMission(clerk[x]))'
    <3> HIDE DEF was, now, marks
    <3> QED BY <2>1, <2>4, <2>5, <2>6, BeginDispatchTyped
  <2> HIDE DEF was, given, now, marks
  <2> QED BY <1>9, <2>7, ServeTyped DEF PatchDispatch, PlanTypeOK, analysis
<1>10. ASSUME NEW c \in Clerks, CommitSchedule(c) PROVE PlanTyped'
  <2>1. schedules' \in [Schedules -> Schedule]
    BY <1>10, ReplanTyped DEF CommitSchedule
  <2>2. clerk' \in [Clerks -> ClerkRow] /\ (\A x \in Clerks : AtMission(clerk[x]))'
    BY <1>10, ReleasedTyped DEF CommitSchedule
  <2> QED BY <1>10, <2>1, <2>2 DEF CommitSchedule, PlanTypeOK, analysis
<1>11. ASSUME NEW c \in Clerks, CommitDispatch(c) PROVE PlanTyped'
  <2>1. clerk[c] \in ClerkRow /\ clerk[c].mission \in Missions
    BY <1>11 DEF CommitDispatch, AtMission
  <2>2. schedules' \in [Schedules -> Schedule]
    BY <1>11, <2>1, ReplanTyped DEF CommitDispatch
  <2>3. dispatches' \in [DispatchIds -> Dispatch]
    <3>1. CASE clerk[c].id # 0 /\ dispatches' = [dispatches EXCEPT ![clerk[c].id] = Columns(clerk[c].was, clerk[c].now, @)]
      <4> DEFINE row == Columns(clerk[c].was, clerk[c].now, dispatches[clerk[c].id])
      <4>1. clerk[c].id \in DispatchIds /\ clerk[c].was \in Dispatch /\ clerk[c].now \in Dispatch
        BY <2>1, <3>1 DEF ClerkRow, DispatchIds
      <4>2. row \in Dispatch
        BY <4>1, DispatchColumns DEF PlanTypeOK
      <4>3. dispatches' = [dispatches EXCEPT ![clerk[c].id] = row]
        BY <3>1
      <4> HIDE DEF row
      <4> QED BY <4>1, <4>2, <4>3 DEF PlanTypeOK
    <3>2. CASE \E d \in DispatchesOf(None) : dispatches' = [dispatches EXCEPT ![d] = clerk[c].now]
      BY <2>1, <3>2 DEF ClerkRow, PlanTypeOK
    <3> QED BY <1>11, <3>1, <3>2 DEF CommitDispatch
  <2>4. missions' \in [Missions -> Mission]
    <3>1. clerk[c].status \in MissionStatus
      BY <2>1 DEF ClerkRow
    <3>2. missions' = [missions EXCEPT ![clerk[c].mission].status =
                           IF clerk[c].status # clerk[c].statusWas THEN clerk[c].status ELSE @]
      BY <1>11 DEF CommitDispatch
    <3> QED BY <2>1, <3>1, <3>2, StatusWritten
  <2>5. clerk' \in [Clerks -> ClerkRow] /\ (\A x \in Clerks : AtMission(clerk[x]))'
    BY <1>11, ReleasedTyped DEF CommitDispatch
  <2> QED BY <1>11, <2>2, <2>3, <2>4, <2>5 DEF CommitDispatch, PlanTypeOK, analysis
<1>12. ASSUME NEW c \in Clerks, NEW m \in Missions, NEW mode \in Modes, Reprocess(c, m, mode) PROVE PlanTyped'
  <2>1. missions[m].status \in MissionStatus /\ reports[m] \in SUBSET AnalysisReport
    BY DEF PlanTypeOK, Mission, MissionStatus
  <2>2. StatusAfter(missions[m].status, mode) \in MissionStatus
    BY <2>1, StatusAfterTyped
  <2> DEFINE w == [Waiting EXCEPT !.does = "read reports", !.mission = m, !.mode = mode, !.reports = reports[m],
                       !.statusWas = missions[m].status, !.status = StatusAfter(missions[m].status, mode)]
  <2>3. w \in ClerkRow
    BY <2>1, <2>2, NewPlanRows DEF ClerkRow, ClerkWork
  <2>4. clerk' = [clerk EXCEPT ![c] = w]
    BY <1>12 DEF Reprocess
  <2>5. clerk' \in [Clerks -> ClerkRow] /\ (\A x \in Clerks : AtMission(clerk[x]))'
    <3>1. AtMission(w)
      BY DEF AtMission, Waiting
    <3> HIDE DEF w
    <3> QED BY <2>3, <2>4, <3>1, ClerkTyped
  <2> QED BY <1>12, <2>5, ServeTyped DEF Reprocess, PlanTypeOK, analysis
<1>13. ASSUME NEW c \in Clerks, ReadEvents(c) PROVE PlanTyped'
  <2>1. clerk[c] \in ClerkRow /\ clerk[c].mission \in Missions
    BY <1>13 DEF ReadEvents, AtMission
  <2> DEFINE w == [clerk[c] EXCEPT !.does = "read events", !.events = events[clerk[c].mission]]
  <2>2. w \in ClerkRow /\ w.mission \in Missions
    BY <2>1 DEF ClerkRow, ClerkWork, PlanTypeOK
  <2>3. clerk' = [clerk EXCEPT ![c] = w]
    BY <1>13 DEF ReadEvents
  <2>4. clerk' \in [Clerks -> ClerkRow] /\ (\A x \in Clerks : AtMission(clerk[x]))'
    <3> HIDE DEF w
    <3> QED BY <2>2, <2>3, ClerkTyped DEF AtMission
  <2> QED BY <1>13, <2>4 DEF ReadEvents, PlanTypeOK, analysis
<1>14. ASSUME NEW c \in Clerks, ReadPages(c) PROVE PlanTyped'
  <2>1. clerk[c] \in ClerkRow /\ clerk[c].mission \in Missions
    BY <1>14 DEF ReadPages, AtMission
  <2>2. PICK old \in pages[clerk[c].mission] \cup {0} :
            clerk' = [clerk EXCEPT ![c].does = "analyse", ![c].old = old, ![c].at = analyses + 1]
    BY <1>14 DEF ReadPages
  <2> DEFINE w == [clerk[c] EXCEPT !.does = "analyse", !.old = old, !.at = analyses + 1]
  <2>3. w \in ClerkRow /\ w.mission \in Missions
    <3>1. old \in Nat /\ analyses + 1 \in Nat
      BY <2>1, <2>2 DEF PlanTypeOK
    <3> QED BY <2>1, <3>1 DEF ClerkRow, ClerkWork
  <2>4. clerk' = [clerk EXCEPT ![c] = w]
    BY <2>2
  <2>5. clerk' \in [Clerks -> ClerkRow] /\ (\A x \in Clerks : AtMission(clerk[x]))'
    <3> HIDE DEF w
    <3> QED BY <2>3, <2>4, ClerkTyped DEF AtMission
  <2>6. analyses' \in Nat
    <3>1. analyses' = analyses + 1
      BY <1>14 DEF ReadPages
    <3> QED BY <3>1 DEF PlanTypeOK
  <2>7. UNCHANGED <<agenda, routes, templates, schedules, missions, dispatches, events, reports, evidence, stored,
                    pages, page, served, mishaps>>
    BY <1>14 DEF ReadPages
  <2> QED BY <2>5, <2>6, <2>7 DEF PlanTypeOK
<1>15. ASSUME NEW c \in Clerks, StoreEvidence(c) PROVE PlanTyped'
  <2>1. clerk[c] \in ClerkRow /\ clerk[c].mission \in Missions
    BY <1>15 DEF StoreEvidence, AtMission
  <2> DEFINE w == [clerk[c] EXCEPT !.does = "stored"]
  <2>2. w \in ClerkRow /\ w.mission \in Missions
    BY <2>1 DEF ClerkRow, ClerkWork
  <2>3. clerk' = [clerk EXCEPT ![c] = w]
    BY <1>15 DEF StoreEvidence
  <2>4. clerk' \in [Clerks -> ClerkRow] /\ (\A x \in Clerks : AtMission(clerk[x]))'
    <3> HIDE DEF w
    <3> QED BY <2>2, <2>3, ClerkTyped DEF AtMission
  <2>5. clerk[c].at \in Nat /\ Found(clerk[c].at, clerk[c].mode) \in SUBSET Nat
    BY <2>1, FoundTyped DEF ClerkRow
  <2>6. stored' \subseteq Nat /\ page' \in [Missions -> Nat]
    BY <1>15, <2>5 DEF StoreEvidence, PlanTypeOK
  <2> QED BY <1>15, <2>4, <2>6 DEF StoreEvidence, PlanTypeOK
<1>16. ASSUME NEW c \in Clerks, CommitAnalysis(c) PROVE PlanTyped'
  <2> DEFINE w == clerk[c]
             new == Found(w.at, w.mode)
             row == [number |-> w.at, ready |-> Succeeds(w.mode), count |-> Cardinality(new)]
  <2>1. w \in ClerkRow /\ w.mission \in Missions
    BY <1>16 DEF CommitAnalysis, AtMission
  <2>2. w.at \in Nat /\ new \in SUBSET Nat /\ Cardinality(new) \in Nat /\ w.status \in MissionStatus
    BY <2>1, FoundTyped DEF ClerkRow
  <2>3. row \in AnalysisReport
    BY <2>2 DEF AnalysisReport, Succeeds
  <2>4. events' \in [Missions -> SUBSET Nat] /\ evidence' \subseteq Nat
    BY <1>16, <2>2 DEF CommitAnalysis, PlanTypeOK
  <2>5. pages' \in [Missions -> SUBSET Nat]
    BY <1>16, <2>2 DEF CommitAnalysis, PlanTypeOK
  <2>6. reports' = [reports EXCEPT ![w.mission] = (@ \ w.reports) \cup {row}]
    BY <1>16 DEF CommitAnalysis
  <2>7. reports' \in [Missions -> SUBSET AnalysisReport]
    <3> HIDE DEF row, w
    <3> QED BY <2>3, <2>6 DEF PlanTypeOK
  <2>8. missions' = [missions EXCEPT ![w.mission].status = IF w.status # w.statusWas THEN w.status ELSE @]
    BY <1>16 DEF CommitAnalysis
  <2>9. missions' \in [Missions -> Mission]
    BY <2>1, <2>2, <2>8, StatusWritten
  <2>10. clerk' \in [Clerks -> ClerkRow] /\ (\A x \in Clerks : AtMission(clerk[x]))'
    BY <1>16, ReleasedTyped DEF CommitAnalysis
  <2> HIDE DEF w, new, row
  <2> QED BY <1>16, <2>4, <2>5, <2>7, <2>9, <2>10 DEF CommitAnalysis, PlanTypeOK
<1>17. ASSUME NEW c \in Clerks, DieAtWork(c) PROVE PlanTyped'
  <2>1. clerk' \in [Clerks -> ClerkRow] /\ (\A x \in Clerks : AtMission(clerk[x]))'
    BY <1>17, ReleasedTyped DEF DieAtWork
  <2> QED BY <1>17, <2>1, AgendaTyped DEF DieAtWork, PlanTypeOK, analysis
<1>18. ASSUME NEW c \in Clerks, ClerkNext(c) PROVE PlanTyped'
  <2>1. CASE \E s \in Schedules, r \in Routes \cup {None}, t \in Templates \cup {None},
                status \in (agenda.asked \cap ScheduleStatus) \cup {None}, planned, recurs \in BOOLEAN :
                PatchSchedule(c, s, r, t, status, planned, recurs)
    <3> HIDE DEF PlanTyped
    <3>1. PICK s \in Schedules, r \in Routes \cup {None}, t \in Templates \cup {None},
               status \in (agenda.asked \cap ScheduleStatus) \cup {None}, planned \in BOOLEAN, recurs \in BOOLEAN :
               PatchSchedule(c, s, r, t, status, planned, recurs)
      BY <2>1, Zenon
    <3> QED BY <1>7, <3>1
  <2>2. CASE \E m \in Missions, r \in Routes \cup {None}, t \in Templates \cup {None}, s \in Schedules \cup {None},
                status \in agenda.asked \cap DispatchStatus : DispatchMission(c, m, r, t, s, status)
    BY <1>8, <2>2
  <2>3. CASE \E d \in DispatchIds, r \in Routes \cup {None}, t \in Templates \cup {None}, s \in Schedules \cup {None},
                status \in (agenda.asked \cap DispatchStatus) \cup {None} : PatchDispatch(c, d, r, t, s, status)
    BY <1>9, <2>3
  <2>4. CASE \E m \in Missions, mode \in Modes : Reprocess(c, m, mode)
    BY <1>12, <2>4
  <2> QED BY <1>10, <1>11, <1>13, <1>14, <1>15, <1>16, <1>17, <1>18, <2>1, <2>2, <2>3, <2>4 DEF ClerkNext
<1>19. CASE \E s \in Schedules, r \in Routes \cup {None}, t \in Templates \cup {None}, status \in agenda.asked \cap ScheduleStatus,
              planned, recurs \in BOOLEAN : CreateSchedule(s, r, t, status, planned, recurs)
  <2> HIDE DEF PlanTyped
  <2>1. PICK s \in Schedules, r \in Routes \cup {None}, t \in Templates \cup {None}, status \in agenda.asked \cap ScheduleStatus,
             planned \in BOOLEAN, recurs \in BOOLEAN : CreateSchedule(s, r, t, status, planned, recurs)
    BY <1>19, Zenon
  <2> QED BY <1>5, <2>1
<1> QED BY <1>1, <1>2, <1>3, <1>4, <1>6, <1>18, <1>19 DEF PlanNext

\* What the tables of the control plane hold is well formed.
THEOREM PlanTypeCorrect == PlanSpec => []PlanTypeOK
<1>1. PlanInit => PlanTyped
  BY PlanInitTyped
<1>2. PlanTyped /\ [PlanNext]_planVars => PlanTyped'
  BY PlanStepTyped
<1>3. PlanTyped => PlanTypeOK
  BY DEF PlanTyped
<1> QED BY <1>1, <1>2, <1>3, PTL DEF PlanSpec

(***************************************************************************)
(* InspectionPlan: links stay home.  What a request is going to write was  *)
(* checked when it was read, and what was checked stays true: routes,      *)
(* templates and schedules stay, and so does the mission of a dispatch.    *)
(***************************************************************************)

RefersHome(row, site) ==
    /\ row.route # None => RouteAt(row.route, site)
    /\ row.template # None => TemplateAt(row.template, site)
DispatchHome(d, site) == RefersHome(d, site) /\ (d.schedule # None => ScheduleAt(d.schedule, site))

TemplatesHome == \A t \in Templates : templates[t].route # None => RouteAt(templates[t].route, placeOf[t])
SchedulesHome == \A s \in Schedules : RefersHome(schedules[s], placeOf[s])
DispatchesHome ==
    \A d \in DispatchIds : dispatches[d].mission # None =>
        /\ missions[dispatches[d].mission].known
        /\ DispatchHome(dispatches[d], missions[dispatches[d].mission].site)

\* What a request writes to a schedule: the columns it read, or some that were checked.
PlansHome(w) ==
    w.schedule # None =>
        /\ w.plan.known \/ w.plan.known = w.planWas.known
        /\ w.plan.route \in {None, w.planWas.route} \/ RouteAt(w.plan.route, placeOf[w.schedule])
        /\ w.plan.template \in {None, w.planWas.template} \/ TemplateAt(w.plan.template, placeOf[w.schedule])
SendsHome(w) ==
    w.does \in {"dispatch", "redispatch"} =>
        /\ missions[w.mission].known
        /\ w.now.mission = w.mission
        /\ w.id # 0 => w.was.mission = w.mission /\ dispatches[w.id].mission = w.mission
        /\ DispatchHome(w.now, missions[w.mission].site)
ClerksHome == \A c \in Clerks : PlansHome(clerk[c]) /\ SendsHome(clerk[c])

PlanHome == TemplatesHome /\ SchedulesHome /\ DispatchesHome /\ ClerksHome

\* What no step takes back.
Grows ==
    /\ routes \subseteq routes'
    /\ \A t \in Templates : templates[t].known => templates'[t].known
    /\ \A s \in Schedules : schedules[s].known => schedules'[s].known
    /\ \A m \in Missions : missions[m].known => missions'[m].known /\ missions'[m].site = missions[m].site
    /\ \A d \in DispatchIds : dispatches[d].mission # None => dispatches'[d].mission = dispatches[d].mission

LEMMA LinksGrow ==
    ASSUME Grows
    PROVE /\ \A r, site : RouteAt(r, site) => RouteAt(r, site)'
          /\ \A t, site : TemplateAt(t, site) => TemplateAt(t, site)'
          /\ \A s, site : ScheduleAt(s, site) => ScheduleAt(s, site)'
<1>1. \A r, site : RouteAt(r, site) => RouteAt(r, site)'
  BY DEF Grows, RouteAt
<1>2. \A t, site : TemplateAt(t, site) => TemplateAt(t, site)'
  BY DEF Grows, TemplateAt
<1>3. \A s, site : ScheduleAt(s, site) => ScheduleAt(s, site)'
  BY DEF Grows, ScheduleAt
<1> QED BY <1>1, <1>2, <1>3

LEMMA ReplanGrows ==
    ASSUME PlanTyped, NEW w \in ClerkRow, PlansHome(w), Replan(w)
    PROVE \A s \in Schedules : schedules[s].known => schedules'[s].known
<1>1. CASE w.schedule = None
  BY <1>1 DEF Replan
<1>2. CASE w.schedule # None
  <2> DEFINE row == Columns(w.planWas, w.plan, schedules[w.schedule])
  <2>1. w.schedule \in Schedules /\ w.planWas \in Schedule /\ w.plan \in Schedule /\ schedules[w.schedule] \in Schedule
    BY <1>2 DEF ClerkRow, PlanTyped, PlanTypeOK
  <2>2. schedules[w.schedule].known => row.known
    <3>1. row.known = IF w.plan.known # w.planWas.known THEN w.plan.known ELSE schedules[w.schedule].known
      BY <2>1, ScheduleColumns
    <3> HIDE DEF row
    <3> QED BY <1>2, <3>1 DEF PlansHome
  <2>3. schedules' = [schedules EXCEPT ![w.schedule] = row]
    BY <1>2 DEF Replan
  <2> HIDE DEF row
  <2> QED BY <2>1, <2>2, <2>3 DEF PlanTyped, PlanTypeOK
<1> QED BY <1>1, <1>2

LEMMA PlanGrows == PlanTyped /\ PlanHome /\ [PlanNext]_planVars => Grows
<1> SUFFICES ASSUME PlanTyped, PlanHome, [PlanNext]_planVars PROVE Grows
  OBVIOUS
<1>1. CASE UNCHANGED <<routes, templates, schedules, missions, dispatches>>
  BY <1>1 DEF Grows
<1>2. ASSUME NEW r \in Routes, CreateRoute(r) PROVE Grows
  BY <1>2 DEF CreateRoute, Grows
<1>3. ASSUME NEW t \in Templates, NEW r \in Routes \cup {None}, CreateTemplate(t, r) PROVE Grows
  BY <1>3 DEF CreateTemplate, Grows, PlanTyped, PlanTypeOK
<1>4. ASSUME NEW t \in Templates, NEW r \in Routes, PatchTemplate(t, r) PROVE Grows
  BY <1>4 DEF PatchTemplate, Grows, PlanTyped, PlanTypeOK, Template
<1>5. ASSUME NEW s \in Schedules, NEW r, NEW t, NEW status, NEW planned, NEW recurs,
             CreateSchedule(s, r, t, status, planned, recurs)
      PROVE Grows
  <2>1. PICK row : schedules' = [schedules EXCEPT ![s] = row]
    BY <1>5 DEF CreateSchedule
  <2> QED BY <1>5, <2>1 DEF CreateSchedule, Grows, PlanTyped, PlanTypeOK
<1>6. ASSUME NEW m \in Missions, NEW r \in Routes, CreateFlightTask(m, r) PROVE Grows
  <2>1. PICK d \in DispatchesOf(None) : \E row : dispatches' = [dispatches EXCEPT ![d] = row]
    BY <1>6 DEF CreateFlightTask
  <2>2. \A x \in DispatchIds : dispatches[x].mission # None => dispatches'[x].mission = dispatches[x].mission
    BY <2>1 DEF DispatchesOf, PlanTyped, PlanTypeOK
  <2>3. \A x \in Missions : missions[x].known => missions'[x] = missions[x]
    BY <1>6 DEF CreateFlightTask, PlanTyped, PlanTypeOK
  <2> QED BY <1>6, <2>2, <2>3 DEF CreateFlightTask, Grows
<1>7. ASSUME NEW c \in Clerks, CommitSchedule(c) PROVE Grows
  <2>1. \A s \in Schedules : schedules[s].known => schedules'[s].known
    BY <1>7, ReplanGrows DEF CommitSchedule, PlanTyped, PlanHome, ClerksHome
  <2> QED BY <1>7, <2>1 DEF CommitSchedule, Grows
<1>8. ASSUME NEW c \in Clerks, CommitDispatch(c) PROVE Grows
  <2>1. clerk[c] \in ClerkRow /\ clerk[c].mission \in Missions /\ PlansHome(clerk[c]) /\ SendsHome(clerk[c])
    BY <1>8 DEF CommitDispatch, PlanTyped, AtMission, PlanHome, ClerksHome
  <2>2. \A s \in Schedules : schedules[s].known => schedules'[s].known
    BY <1>8, <2>1, ReplanGrows DEF CommitDispatch
  <2>3. \A m \in Missions : missions'[m].known = missions[m].known /\ missions'[m].site = missions[m].site
    BY <1>8, <2>1 DEF CommitDispatch, PlanTyped, PlanTypeOK, Mission
  <2>4. \A x \in DispatchIds : dispatches[x].mission # None => dispatches'[x].mission = dispatches[x].mission
    <3>1. CASE clerk[c].id # 0 /\ dispatches' = [dispatches EXCEPT ![clerk[c].id] = Columns(clerk[c].was, clerk[c].now, @)]
      <4> DEFINE row == Columns(clerk[c].was, clerk[c].now, dispatches[clerk[c].id])
      <4>1. clerk[c].id \in DispatchIds /\ clerk[c].was \in Dispatch /\ clerk[c].now \in Dispatch
        BY <2>1, <3>1 DEF ClerkRow, DispatchIds
      <4>2. row.mission = IF clerk[c].now.mission # clerk[c].was.mission THEN clerk[c].now.mission
                          ELSE dispatches[clerk[c].id].mission
        BY <4>1, DispatchColumns DEF PlanTyped, PlanTypeOK
      <4>3. clerk[c].now.mission = clerk[c].was.mission
        BY <1>8, <2>1, <3>1 DEF SendsHome, CommitDispatch
      <4>4. dispatches' = [dispatches EXCEPT ![clerk[c].id] = row]
        BY <3>1
      <4> HIDE DEF row
      <4> QED BY <4>1, <4>2, <4>3, <4>4 DEF PlanTyped, PlanTypeOK
    <3>2. CASE \E d \in DispatchesOf(None) : dispatches' = [dispatches EXCEPT ![d] = clerk[c].now]
      BY <3>2 DEF DispatchesOf, PlanTyped, PlanTypeOK
    <3> QED BY <1>8, <3>1, <3>2 DEF CommitDispatch
  <2> QED BY <1>8, <2>2, <2>3, <2>4 DEF CommitDispatch, Grows
<1>9. ASSUME NEW c \in Clerks, CommitAnalysis(c) PROVE Grows
  <2>1. clerk[c].mission \in Missions
    BY <1>9 DEF CommitAnalysis, PlanTyped, AtMission
  <2>2. \A m \in Missions : missions'[m].known = missions[m].known /\ missions'[m].site = missions[m].site
    BY <1>9, <2>1 DEF CommitAnalysis, PlanTyped, PlanTypeOK, Mission
  <2> QED BY <1>9, <2>2 DEF CommitAnalysis, Grows
<1>10. ASSUME NEW c \in Clerks, ClerkNext(c) PROVE Grows
  <2>1. CASE \E s \in Schedules, r \in Routes \cup {None}, t \in Templates \cup {None},
                status \in (agenda.asked \cap ScheduleStatus) \cup {None}, planned, recurs \in BOOLEAN :
                PatchSchedule(c, s, r, t, status, planned, recurs)
    BY <1>1, <2>1 DEF PatchSchedule
  <2>2. CASE \E m \in Missions, r \in Routes \cup {None}, t \in Templates \cup {None}, s \in Schedules \cup {None},
                status \in agenda.asked \cap DispatchStatus : DispatchMission(c, m, r, t, s, status)
    BY <1>1, <2>2 DEF DispatchMission
  <2>3. CASE \E d \in DispatchIds, r \in Routes \cup {None}, t \in Templates \cup {None}, s \in Schedules \cup {None},
                status \in (agenda.asked \cap DispatchStatus) \cup {None} : PatchDispatch(c, d, r, t, s, status)
    <3>1. PICK d \in DispatchIds, r \in Routes \cup {None}, t \in Templates \cup {None}, s \in Schedules \cup {None},
               status \in (agenda.asked \cap DispatchStatus) \cup {None} : PatchDispatch(c, d, r, t, s, status)
      BY <2>3
    <3>2. UNCHANGED <<agenda, routes, templates, schedules, missions, dispatches, analysis, mishaps>>
      BY <3>1 DEF PatchDispatch
    <3> QED BY <1>1, <3>2
  <2>4. CASE \E m \in Missions, mode \in Modes : Reprocess(c, m, mode)
    BY <1>1, <2>4 DEF Reprocess
  <2>5. CASE ReadEvents(c) \/ ReadPages(c) \/ StoreEvidence(c) \/ DieAtWork(c)
    BY <1>1, <2>5 DEF ReadEvents, ReadPages, StoreEvidence, DieAtWork
  <2> QED BY <1>7, <1>8, <1>9, <1>10, <2>1, <2>2, <2>3, <2>4, <2>5 DEF ClerkNext
<1>11. CASE UNCHANGED planVars
  BY <1>1, <1>11 DEF planVars
<1>12. CASE \E s \in Schedules, r \in Routes \cup {None}, t \in Templates \cup {None}, status \in agenda.asked \cap ScheduleStatus,
               planned, recurs \in BOOLEAN : CreateSchedule(s, r, t, status, planned, recurs)
  BY <1>5, <1>12
<1> QED BY <1>2, <1>3, <1>4, <1>6, <1>10, <1>11, <1>12 DEF PlanNext

\* What a request in progress does not touch.
LEMMA ClerkLeaves ==
    ASSUME NEW c, ClerkNext(c)
    PROVE /\ UNCHANGED <<agenda, routes, templates>>
          /\ CommitDispatch(c) \/ UNCHANGED dispatches
          /\ CommitSchedule(c) \/ CommitDispatch(c) \/ UNCHANGED schedules
          /\ CommitDispatch(c) \/ CommitAnalysis(c) \/ UNCHANGED missions
<1>1. CASE \E s \in Schedules, r \in Routes \cup {None}, t \in Templates \cup {None},
              status \in (agenda.asked \cap ScheduleStatus) \cup {None}, planned, recurs \in BOOLEAN :
              PatchSchedule(c, s, r, t, status, planned, recurs)
  BY <1>1 DEF PatchSchedule
<1>2. CASE \E m \in Missions, r \in Routes \cup {None}, t \in Templates \cup {None}, s \in Schedules \cup {None},
              status \in agenda.asked \cap DispatchStatus : DispatchMission(c, m, r, t, s, status)
  BY <1>2 DEF DispatchMission
<1>3. CASE \E d \in DispatchIds, r \in Routes \cup {None}, t \in Templates \cup {None}, s \in Schedules \cup {None},
              status \in (agenda.asked \cap DispatchStatus) \cup {None} : PatchDispatch(c, d, r, t, s, status)
  BY <1>3 DEF PatchDispatch
<1>4. CASE \E m \in Missions, mode \in Modes : Reprocess(c, m, mode)
  BY <1>4 DEF Reprocess
<1>5. CASE ReadEvents(c) \/ ReadPages(c) \/ StoreEvidence(c) \/ DieAtWork(c)
  BY <1>5 DEF ReadEvents, ReadPages, StoreEvidence, DieAtWork
<1>6. CASE CommitSchedule(c)
  BY <1>6 DEF CommitSchedule
<1>7. CASE CommitDispatch(c)
  BY <1>7 DEF CommitDispatch
<1>8. CASE CommitAnalysis(c)
  BY <1>8 DEF CommitAnalysis
<1> QED BY <1>1, <1>2, <1>3, <1>4, <1>5, <1>6, <1>7, <1>8 DEF ClerkNext

LEMMA TemplatesStayHome ==
    ASSUME PlanTyped, TemplatesHome, Grows, [PlanNext]_planVars PROVE TemplatesHome'
<1>1. \A r, site : RouteAt(r, site) => RouteAt(r, site)'
  BY LinksGrow
<1>2. CASE UNCHANGED templates
  BY <1>1, <1>2 DEF TemplatesHome
<1>4. ASSUME NEW t \in Templates, NEW r \in Routes \cup {None}, CreateTemplate(t, r) PROVE TemplatesHome'
  BY <1>1, <1>4 DEF CreateTemplate, TemplatesHome, PlanTyped, PlanTypeOK
<1>5. ASSUME NEW t \in Templates, NEW r \in Routes, PatchTemplate(t, r) PROVE TemplatesHome'
  BY <1>1, <1>5 DEF PatchTemplate, TemplatesHome, PlanTyped, PlanTypeOK, Template
<1>6. ASSUME NEW r, CreateRoute(r) PROVE TemplatesHome'
  BY <1>2, <1>6 DEF CreateRoute
<1>7. CASE \E s \in Schedules, r \in Routes \cup {None}, t \in Templates \cup {None}, status \in agenda.asked \cap ScheduleStatus,
              planned, recurs \in BOOLEAN : CreateSchedule(s, r, t, status, planned, recurs)
  BY <1>2, <1>7 DEF CreateSchedule
<1>8. ASSUME NEW m, NEW r, CreateFlightTask(m, r) PROVE TemplatesHome'
  BY <1>2, <1>8 DEF CreateFlightTask
<1>9. ASSUME NEW c \in Clerks, ClerkNext(c) PROVE TemplatesHome'
  BY <1>2, <1>9, ClerkLeaves
<1>10. CASE UNCHANGED planVars
  BY <1>2, <1>10 DEF planVars
<1> QED BY <1>4, <1>5, <1>6, <1>7, <1>8, <1>9, <1>10 DEF PlanNext

\* What a request writes to a schedule is home.
LEMMA ReplanHome ==
    ASSUME PlanTyped, SchedulesHome, Grows, NEW w \in ClerkRow, PlansHome(w), Replan(w)
    PROVE SchedulesHome'
<1>1. /\ \A r, site : RouteAt(r, site) => RouteAt(r, site)'
      /\ \A t, site : TemplateAt(t, site) => TemplateAt(t, site)'
  BY LinksGrow
<1>2. ASSUME NEW s \in Schedules, schedules'[s].route = schedules[s].route, schedules'[s].template = schedules[s].template
      PROVE RefersHome(schedules[s], placeOf[s])'
  BY <1>1, <1>2 DEF SchedulesHome, RefersHome
<1>3. CASE w.schedule = None
  BY <1>2, <1>3 DEF Replan, SchedulesHome
<1>4. CASE w.schedule # None
  <2> DEFINE row == Columns(w.planWas, w.plan, schedules[w.schedule])
  <2>1. w.schedule \in Schedules /\ w.planWas \in Schedule /\ w.plan \in Schedule /\ schedules[w.schedule] \in Schedule
    BY <1>4 DEF ClerkRow, PlanTyped, PlanTypeOK
  <2>2. /\ row.route = IF w.plan.route # w.planWas.route THEN w.plan.route ELSE schedules[w.schedule].route
        /\ row.template = IF w.plan.template # w.planWas.template THEN w.plan.template ELSE schedules[w.schedule].template
    BY <2>1, ScheduleColumns
  <2>3. schedules' = [schedules EXCEPT ![w.schedule] = row]
    BY <1>4 DEF Replan
  <2> HIDE DEF row
  <2>4. schedules'[w.schedule] = row
    BY <2>1, <2>3 DEF PlanTyped, PlanTypeOK
  <2>5. schedules'[w.schedule].route # None => RouteAt(schedules[w.schedule].route, placeOf[w.schedule])'
    <3>1. schedules[w.schedule].route # None => RouteAt(schedules[w.schedule].route, placeOf[w.schedule])
      BY <2>1 DEF SchedulesHome, RefersHome
    <3> QED BY <1>1, <1>4, <2>2, <2>4, <3>1 DEF PlansHome
  <2>6. schedules'[w.schedule].template # None => TemplateAt(schedules[w.schedule].template, placeOf[w.schedule])'
    <3>1. schedules[w.schedule].template # None => TemplateAt(schedules[w.schedule].template, placeOf[w.schedule])
      BY <2>1 DEF SchedulesHome, RefersHome
    <3> QED BY <1>1, <1>4, <2>2, <2>4, <3>1 DEF PlansHome
  <2>7. ASSUME NEW s \in Schedules PROVE RefersHome(schedules[s], placeOf[s])'
    <3>1. CASE s = w.schedule
      BY <2>5, <2>6, <3>1 DEF RefersHome
    <3>2. CASE s # w.schedule
      BY <1>2, <2>3, <3>2 DEF PlanTyped, PlanTypeOK
    <3> QED BY <3>1, <3>2
  <2> QED BY <2>7 DEF SchedulesHome
<1> QED BY <1>3, <1>4

LEMMA SchedulesStayHome ==
    ASSUME PlanTyped, PlanHome, Grows, [PlanNext]_planVars PROVE SchedulesHome'
<1> USE DEF PlanHome
<1>1. /\ \A r, site : RouteAt(r, site) => RouteAt(r, site)'
      /\ \A t, site : TemplateAt(t, site) => TemplateAt(t, site)'
  BY LinksGrow
<1>2. CASE UNCHANGED schedules
  BY <1>1, <1>2 DEF SchedulesHome, RefersHome
<1>3. ASSUME NEW s \in Schedules, NEW r \in Routes \cup {None}, NEW t \in Templates \cup {None},
             NEW status \in agenda.asked \cap ScheduleStatus, NEW planned \in BOOLEAN, NEW recurs \in BOOLEAN,
             CreateSchedule(s, r, t, status, planned, recurs)
      PROVE SchedulesHome'
  <2> DEFINE new == [NewSchedule EXCEPT !.known = TRUE, !.route = r, !.template = t, !.status = status,
                                        !.planned = planned, !.recurs = recurs]
             row == NormalizedSchedule(new, ThisRequest)
  <2>1. new \in Schedule /\ new.route = r /\ new.template = t
    BY NewPlanRows DEF Schedule
  <2>2. row.route = r /\ row.template = t
    <3> HIDE DEF new
    <3> QED BY <2>1, NormalizedScheduleTyped, AgendaTyped DEF PlanTyped
  <2>3. schedules' = [schedules EXCEPT ![s] = row]
    BY <1>3 DEF CreateSchedule
  <2>4. /\ r # None => RouteAt(r, placeOf[s])
        /\ t # None => TemplateAt(t, placeOf[s])
    BY <1>3 DEF CreateSchedule, ValidLinks
  <2> HIDE DEF row
  <2>5. schedules'[s].route = r /\ schedules'[s].template = t
    BY <2>2, <2>3 DEF PlanTyped, PlanTypeOK
  <2>6. \A x \in Schedules : x # s => schedules'[x] = schedules[x]
    BY <2>3 DEF PlanTyped, PlanTypeOK
  <2>7. ASSUME NEW x \in Schedules PROVE RefersHome(schedules[x], placeOf[x])'
    <3>1. CASE x = s
      BY <1>1, <2>4, <2>5, <3>1 DEF RefersHome
    <3>2. CASE x # s
      BY <1>1, <2>6, <3>2 DEF SchedulesHome, RefersHome
    <3> QED BY <3>1, <3>2
  <2> QED BY <2>7 DEF SchedulesHome
<1>4. ASSUME NEW c \in Clerks, ClerkNext(c) PROVE SchedulesHome'
  <2>1. clerk[c] \in ClerkRow /\ PlansHome(clerk[c])
    BY DEF PlanTyped, ClerksHome
  <2>2. CASE CommitSchedule(c)
    BY <2>1, <2>2, ReplanHome DEF CommitSchedule
  <2>3. CASE CommitDispatch(c)
    BY <2>1, <2>3, ReplanHome DEF CommitDispatch
  <2> QED BY <1>2, <1>4, <2>2, <2>3, ClerkLeaves
<1>5. ASSUME NEW r, CreateRoute(r) PROVE SchedulesHome'
  BY <1>2, <1>5 DEF CreateRoute
<1>6. ASSUME NEW t, NEW r, CreateTemplate(t, r) PROVE SchedulesHome'
  BY <1>2, <1>6 DEF CreateTemplate
<1>7. ASSUME NEW t, NEW r, PatchTemplate(t, r) PROVE SchedulesHome'
  BY <1>2, <1>7 DEF PatchTemplate
<1>8. ASSUME NEW m, NEW r, CreateFlightTask(m, r) PROVE SchedulesHome'
  BY <1>2, <1>8 DEF CreateFlightTask
<1>9. CASE UNCHANGED planVars
  BY <1>2, <1>9 DEF planVars
<1>10. CASE \E s \in Schedules, r \in Routes \cup {None}, t \in Templates \cup {None}, status \in agenda.asked \cap ScheduleStatus,
               planned, recurs \in BOOLEAN : CreateSchedule(s, r, t, status, planned, recurs)
  <2> HIDE DEF PlanHome
  <2>1. PICK s \in Schedules, r \in Routes \cup {None}, t \in Templates \cup {None}, status \in agenda.asked \cap ScheduleStatus,
             planned \in BOOLEAN, recurs \in BOOLEAN : CreateSchedule(s, r, t, status, planned, recurs)
    BY <1>10, Zenon
  <2> QED BY <1>3, <2>1
<1> QED BY <1>4, <1>5, <1>6, <1>7, <1>8, <1>9, <1>10 DEF PlanNext

\* A dispatch whose row stays, and one that is written.
LEMMA DispatchKeepsHome ==
    ASSUME PlanTyped, DispatchesHome, Grows, NEW d \in DispatchIds, dispatches'[d] = dispatches[d]
    PROVE (dispatches[d].mission # None =>
               /\ missions[dispatches[d].mission].known
               /\ DispatchHome(dispatches[d], missions[dispatches[d].mission].site))'
<1> SUFFICES ASSUME dispatches[d].mission # None
             PROVE /\ missions'[dispatches[d].mission].known
                   /\ DispatchHome(dispatches[d], missions[dispatches[d].mission].site)'
  OBVIOUS
<1>1. /\ \A r, site : RouteAt(r, site) => RouteAt(r, site)'
      /\ \A t, site : TemplateAt(t, site) => TemplateAt(t, site)'
      /\ \A s, site : ScheduleAt(s, site) => ScheduleAt(s, site)'
  BY LinksGrow
<1>2. dispatches[d].mission \in Missions
  BY DEF PlanTyped, PlanTypeOK, Dispatch
<1>3. missions[dispatches[d].mission].known /\ DispatchHome(dispatches[d], missions[dispatches[d].mission].site)
  BY DEF DispatchesHome
<1>4. missions'[dispatches[d].mission].known /\ missions'[dispatches[d].mission].site = missions[dispatches[d].mission].site
  BY <1>2, <1>3 DEF Grows
<1> QED BY <1>1, <1>3, <1>4 DEF DispatchHome, RefersHome

LEMMA DispatchGetsHome ==
    ASSUME PlanTyped, Grows, NEW d \in DispatchIds, NEW m \in Missions, missions[m].known, dispatches'[d].mission = m,
           dispatches'[d].route # None => RouteAt(dispatches'[d].route, missions[m].site),
           dispatches'[d].template # None => TemplateAt(dispatches'[d].template, missions[m].site),
           dispatches'[d].schedule # None => ScheduleAt(dispatches'[d].schedule, missions[m].site)
    PROVE (dispatches[d].mission # None =>
               /\ missions[dispatches[d].mission].known
               /\ DispatchHome(dispatches[d], missions[dispatches[d].mission].site))'
<1>1. /\ \A r, site : RouteAt(r, site) => RouteAt(r, site)'
      /\ \A t, site : TemplateAt(t, site) => TemplateAt(t, site)'
      /\ \A s, site : ScheduleAt(s, site) => ScheduleAt(s, site)'
  BY LinksGrow
<1>2. missions'[m].known /\ missions'[m].site = missions[m].site
  BY DEF Grows
<1> QED BY <1>1, <1>2 DEF DispatchHome, RefersHome

LEMMA DispatchesStayHome ==
    ASSUME PlanTyped, PlanHome, Grows, [PlanNext]_planVars PROVE DispatchesHome'
<1> DEFINE Home(d) == dispatches[d].mission # None =>
                          /\ missions[dispatches[d].mission].known
                          /\ DispatchHome(dispatches[d], missions[dispatches[d].mission].site)
<1>1. ASSUME NEW d \in DispatchIds, dispatches'[d] = dispatches[d] PROVE Home(d)'
  BY <1>1, DispatchKeepsHome DEF PlanHome
<1>2. CASE UNCHANGED dispatches
  BY <1>1, <1>2 DEF DispatchesHome
<1>3. ASSUME NEW c \in Clerks, CommitDispatch(c) PROVE DispatchesHome'
  <2> DEFINE w == clerk[c]
  <2>1. w \in ClerkRow /\ w.mission \in Missions /\ w.was \in Dispatch /\ w.now \in Dispatch
    BY <1>3 DEF CommitDispatch, PlanTyped, AtMission, ClerkRow
  <2>2. /\ missions[w.mission].known /\ w.now.mission = w.mission
        /\ w.id # 0 => w.was.mission = w.mission /\ dispatches[w.id].mission = w.mission
        /\ DispatchHome(w.now, missions[w.mission].site)
    BY <1>3 DEF CommitDispatch, PlanHome, ClerksHome, SendsHome
  <2>3. CASE w.id # 0 /\ dispatches' = [dispatches EXCEPT ![w.id] = Columns(w.was, w.now, @)]
    <3> DEFINE row == Columns(w.was, w.now, dispatches[w.id])
    <3>1. w.id \in DispatchIds /\ dispatches[w.id] \in Dispatch
      BY <2>1, <2>3 DEF ClerkRow, DispatchIds, PlanTyped, PlanTypeOK
    <3>2. /\ row.mission = w.mission
          /\ row.route = IF w.now.route # w.was.route THEN w.now.route ELSE dispatches[w.id].route
          /\ row.template = IF w.now.template # w.was.template THEN w.now.template ELSE dispatches[w.id].template
          /\ row.schedule = IF w.now.schedule # w.was.schedule THEN w.now.schedule ELSE dispatches[w.id].schedule
      <4>1. row.mission = IF w.now.mission # w.was.mission THEN w.now.mission ELSE dispatches[w.id].mission
        BY <2>1, <3>1, DispatchColumns
      <4> HIDE DEF row
      <4>2. row.mission = w.mission
        BY <2>2, <2>3, <4>1
      <4> USE DEF row
      <4> QED BY <2>1, <3>1, <4>2, DispatchColumns
    <3>3. dispatches' = [dispatches EXCEPT ![w.id] = row]
      BY <2>3
    <3>4. DispatchHome(dispatches[w.id], missions[w.mission].site)
      <4>1. w.mission # None
        BY <2>1, PlanAssumption
      <4> QED BY <2>2, <2>3, <3>1, <4>1 DEF PlanHome, DispatchesHome
    <3> HIDE DEF row
    <3>5. dispatches'[w.id] = row
      BY <3>1, <3>3 DEF PlanTyped, PlanTypeOK
    <3> HIDE DEF w
    <3>6. /\ row.route # None => RouteAt(row.route, missions[w.mission].site)
          /\ row.template # None => TemplateAt(row.template, missions[w.mission].site)
          /\ row.schedule # None => ScheduleAt(row.schedule, missions[w.mission].site)
      BY <2>2, <3>2, <3>4 DEF DispatchHome, RefersHome
    <3>7. ASSUME NEW d \in DispatchIds PROVE Home(d)'
      <4>1. CASE d = w.id
        <5>1. PICK m \in Missions : m = w.mission
          BY <2>1
        <5>2. /\ missions[m].known /\ dispatches'[d].mission = m
              /\ dispatches'[d].route # None => RouteAt(dispatches'[d].route, missions[m].site)
              /\ dispatches'[d].template # None => TemplateAt(dispatches'[d].template, missions[m].site)
              /\ dispatches'[d].schedule # None => ScheduleAt(dispatches'[d].schedule, missions[m].site)
          BY <2>2, <3>2, <3>5, <3>6, <4>1, <5>1
        <5> QED BY <5>2, DispatchGetsHome
      <4>2. CASE d # w.id
        BY <1>1, <3>3, <4>2 DEF PlanTyped, PlanTypeOK
      <4> QED BY <4>1, <4>2
    <3> QED BY <3>7 DEF DispatchesHome
  <2>4. CASE \E d \in DispatchesOf(None) : dispatches' = [dispatches EXCEPT ![d] = w.now]
    <3>1. PICK e \in DispatchesOf(None) : dispatches' = [dispatches EXCEPT ![e] = w.now]
      BY <2>4
    <3>2. e \in DispatchIds /\ dispatches'[e] = w.now
      BY <3>1 DEF DispatchesOf, PlanTyped, PlanTypeOK
    <3> HIDE DEF w
    <3>3. ASSUME NEW d \in DispatchIds PROVE Home(d)'
      <4>1. CASE d = e
        <5>1. PICK m \in Missions : m = w.mission
          BY <2>1
        <5>2. /\ missions[m].known /\ dispatches'[d].mission = m
              /\ dispatches'[d].route # None => RouteAt(dispatches'[d].route, missions[m].site)
              /\ dispatches'[d].template # None => TemplateAt(dispatches'[d].template, missions[m].site)
              /\ dispatches'[d].schedule # None => ScheduleAt(dispatches'[d].schedule, missions[m].site)
          BY <2>2, <3>2, <4>1, <5>1 DEF DispatchHome, RefersHome
        <5> QED BY <5>2, DispatchGetsHome
      <4>2. CASE d # e
        BY <1>1, <3>1, <4>2 DEF PlanTyped, PlanTypeOK
      <4> QED BY <4>1, <4>2
    <3> QED BY <3>3 DEF DispatchesHome
  <2> QED BY <1>3, <2>3, <2>4 DEF CommitDispatch
<1>4. ASSUME NEW m \in Missions, NEW r \in Routes, CreateFlightTask(m, r) PROVE DispatchesHome'
  <2> DEFINE row == [NewDispatch EXCEPT !.mission = m, !.route = r, !.status = "assigned"]
  <2>1. row.mission = m /\ row.route = r /\ row.template = None /\ row.schedule = None
    BY DEF NewDispatch
  <2>2. PICK e \in DispatchesOf(None) : dispatches' = [dispatches EXCEPT ![e] = row]
    BY <1>4 DEF CreateFlightTask
  <2> HIDE DEF row
  <2>3. e \in DispatchIds /\ dispatches'[e] = row
    BY <2>2 DEF DispatchesOf, PlanTyped, PlanTypeOK
  <2>4. missions'[m].known /\ missions'[m].site = placeOf[r] /\ r \in routes'
    BY <1>4 DEF CreateFlightTask, PlanTyped, PlanTypeOK
  <2>5. ASSUME NEW d \in DispatchIds PROVE Home(d)'
    <3>1. CASE d = e
      BY <2>1, <2>3, <2>4, <3>1 DEF DispatchHome, RefersHome, RouteAt
    <3>2. CASE d # e
      BY <1>1, <2>2, <3>2 DEF PlanTyped, PlanTypeOK
    <3> QED BY <3>1, <3>2
  <2> QED BY <2>5 DEF DispatchesHome
<1>5. ASSUME NEW c \in Clerks, ClerkNext(c) PROVE DispatchesHome'
  BY <1>2, <1>3, <1>5, ClerkLeaves
<1>6. ASSUME NEW r, CreateRoute(r) PROVE DispatchesHome'
  BY <1>2, <1>6 DEF CreateRoute
<1>7. ASSUME NEW t, NEW r, CreateTemplate(t, r) PROVE DispatchesHome'
  BY <1>2, <1>7 DEF CreateTemplate
<1>8. ASSUME NEW t, NEW r, PatchTemplate(t, r) PROVE DispatchesHome'
  BY <1>2, <1>8 DEF PatchTemplate
<1>9. CASE UNCHANGED planVars
  BY <1>2, <1>9 DEF planVars
<1>10. CASE \E s \in Schedules, r \in Routes \cup {None}, t \in Templates \cup {None}, status \in agenda.asked \cap ScheduleStatus,
               planned, recurs \in BOOLEAN : CreateSchedule(s, r, t, status, planned, recurs)
  BY <1>2, <1>10 DEF CreateSchedule
<1> HIDE DEF Home
<1> QED BY <1>4, <1>5, <1>6, <1>7, <1>8, <1>9, <1>10 DEF PlanNext

LEMMA PlanKeepsHome ==
    ASSUME Grows, NEW x \in Clerks, PlansHome(clerk[x]), clerk'[x].schedule = clerk[x].schedule,
           clerk'[x].plan = clerk[x].plan, clerk'[x].planWas = clerk[x].planWas
    PROVE PlansHome(clerk[x])'
<1>1. /\ \A r, site : RouteAt(r, site) => RouteAt(r, site)'
      /\ \A t, site : TemplateAt(t, site) => TemplateAt(t, site)'
  BY LinksGrow
<1> QED BY <1>1 DEF PlansHome

LEMMA ClerkKeepsHome ==
    ASSUME PlanTyped, Grows, NEW x \in Clerks, clerk'[x] = clerk[x], PlansHome(clerk[x]), SendsHome(clerk[x])
    PROVE (PlansHome(clerk[x]) /\ SendsHome(clerk[x]))'
<1>1. /\ \A r, site : RouteAt(r, site) => RouteAt(r, site)'
      /\ \A t, site : TemplateAt(t, site) => TemplateAt(t, site)'
      /\ \A s, site : ScheduleAt(s, site) => ScheduleAt(s, site)'
  BY LinksGrow
<1>2. PlansHome(clerk[x])'
  BY PlanKeepsHome
<1>3. CASE clerk[x].does \in {"dispatch", "redispatch"}
  <2>1. clerk[x].mission \in Missions /\ clerk[x].mission # None /\ clerk[x].id \in 0 .. MaxDispatches
    BY <1>3, PlanAssumption DEF PlanTyped, AtMission, ClerkRow
  <2>2. /\ missions'[clerk[x].mission].known
        /\ missions'[clerk[x].mission].site = missions[clerk[x].mission].site
    BY <1>3, <2>1 DEF SendsHome, Grows
  <2>3. clerk[x].id # 0 => clerk[x].was.mission = clerk[x].mission /\ dispatches'[clerk[x].id].mission = clerk[x].mission
    BY <1>3, <2>1 DEF SendsHome, Grows, DispatchIds
  <2>4. DispatchHome(clerk[x].now, missions[clerk[x].mission].site)'
    BY <1>1, <1>3, <2>2 DEF SendsHome, DispatchHome, RefersHome
  <2> QED BY <1>2, <1>3, <2>2, <2>3, <2>4 DEF SendsHome
<1> QED BY <1>2, <1>3 DEF SendsHome

LEMMA WaitingIsHome ==
    ASSUME NEW x, clerk'[x] = Waiting PROVE (PlansHome(clerk[x]) /\ SendsHome(clerk[x]))'
BY DEF Waiting, PlansHome, SendsHome

\* A request that begins a dispatch.
LEMMA BeginsHome ==
    ASSUME PlanTyped, PlanHome, Grows, NEW c \in Clerks, NEW act \in {"dispatch", "redispatch"}, NEW id \in 0 .. MaxDispatches,
           NEW m \in Missions, NEW was \in Dispatch, NEW now \in Dispatch, NEW s \in Schedules \cup {None},
           NEW marks \in BOOLEAN, BeginDispatch(c, act, id, m, was, now, s, marks),
           missions[m].known, now.mission = m, id # 0 => was.mission = m /\ dispatches[id].mission = m,
           DispatchHome(now, missions[m].site)
    PROVE (PlansHome(clerk[c]) /\ SendsHome(clerk[c]))'
<1> DEFINE planWas == IF s = None THEN NewSchedule ELSE schedules[s]
           plan == IF s = None THEN NewSchedule ELSE IF marks THEN Marked(schedules[s], ThisRequest) ELSE schedules[s]
           w == [Waiting EXCEPT !.does = act, !.id = id, !.mission = m, !.was = was, !.now = now,
                                !.statusWas = missions[m].status, !.status = StatusFor(now.status),
                                !.schedule = s, !.planWas = planWas, !.plan = plan]
<1>1. clerk'[c] = w
  BY DEF BeginDispatch, PlanTyped
<1>2. plan.known = planWas.known /\ plan.route = planWas.route /\ plan.template = planWas.template
  BY MarkedTyped, AgendaTyped DEF PlanTyped, PlanTypeOK
<1>3. /\ clerk'[c].schedule = s /\ clerk'[c].planWas = planWas /\ clerk'[c].plan = plan
      /\ clerk'[c].mission = m /\ clerk'[c].was = was /\ clerk'[c].now = now /\ clerk'[c].id = id
  <2> HIDE DEF planWas, plan
  <2> QED BY <1>1 DEF Waiting
<1> HIDE DEF planWas, plan, w
<1>4. PlansHome(clerk[c])'
  BY <1>2, <1>3 DEF PlansHome
<1>5. missions'[m].known /\ missions'[m].site = missions[m].site
  BY DEF Grows
<1>6. id # 0 => dispatches'[id].mission = m
  BY PlanAssumption DEF Grows, DispatchIds
<1>7. DispatchHome(now, missions[m].site)'
  BY <1>5, LinksGrow DEF DispatchHome, RefersHome
<1> QED BY <1>3, <1>4, <1>5, <1>6, <1>7 DEF SendsHome

LEMMA ClerksStayHome ==
    ASSUME PlanTyped, PlanHome, Grows, [PlanNext]_planVars PROVE ClerksHome'
<1> DEFINE Home(c) == PlansHome(clerk[c]) /\ SendsHome(clerk[c])
<1>1. ASSUME NEW c \in Clerks PROVE Home(c)
  BY DEF PlanHome, ClerksHome
<1>2. ASSUME NEW c \in Clerks, clerk'[c] = clerk[c] PROVE Home(c)'
  BY <1>1, <1>2, ClerkKeepsHome
<1>3. CASE UNCHANGED clerk
  BY <1>2, <1>3 DEF ClerksHome
<1>4. ASSUME NEW c \in Clerks, NEW w, clerk' = [clerk EXCEPT ![c] = w], Home(c)' PROVE ClerksHome'
  <2>1. ASSUME NEW x \in Clerks PROVE Home(x)'
    <3>1. CASE x = c
      BY <1>4, <3>1
    <3>2. CASE x # c
      BY <1>2, <1>4, <3>2 DEF PlanTyped
    <3> QED BY <3>1, <3>2
  <2> QED BY <2>1 DEF ClerksHome
<1>5. ASSUME NEW c \in Clerks, clerk' = [clerk EXCEPT ![c] = Waiting] PROVE ClerksHome'
  <2>1. clerk'[c] = Waiting
    BY <1>5 DEF PlanTyped
  <2> QED BY <1>4, <1>5, <2>1, WaitingIsHome
<1>6. ASSUME NEW c \in Clerks, NEW s \in Schedules, NEW r \in Routes \cup {None}, NEW t \in Templates \cup {None},
             NEW status \in (agenda.asked \cap ScheduleStatus) \cup {None}, NEW planned \in BOOLEAN, NEW recurs \in BOOLEAN,
             PatchSchedule(c, s, r, t, status, planned, recurs)
      PROVE ClerksHome'
  <2> DEFINE was == schedules[s]
             given == [was EXCEPT !.route = Given(r, @), !.template = Given(t, @), !.status = Given(status, @),
                                  !.planned = @ \/ planned, !.recurs = recurs]
             now == NormalizedSchedule(given, ThisRequest)
             w == [Waiting EXCEPT !.does = "reschedule", !.schedule = s, !.planWas = was, !.plan = now]
  <2>1. was \in Schedule
    BY DEF PlanTyped, PlanTypeOK
  <2>2. /\ Given(r, was.route) \in Routes \cup {None} /\ Given(t, was.template) \in Templates \cup {None}
        /\ Given(status, was.status) \in ScheduleStatus
    BY <2>1 DEF Given, Schedule
  <2>3. given \in Schedule /\ given.known = was.known
    <3> HIDE DEF was
    <3> QED BY <2>1, <2>2 DEF Schedule
  <2>4. now.known = was.known
    <3> HIDE DEF given, was
    <3> QED BY <2>3, NormalizedScheduleTyped, AgendaTyped DEF PlanTyped
  <2>5. was.known /\ ValidLinks(placeOf[s], now.route, now.template) /\ clerk' = [clerk EXCEPT ![c] = w]
    BY <1>6 DEF PatchSchedule
  <2>6. clerk'[c] = w
    BY <2>5 DEF PlanTyped
  <2>7. clerk'[c].schedule = s /\ clerk'[c].planWas = was /\ clerk'[c].plan = now /\ clerk'[c].does = "reschedule"
    <3> HIDE DEF was, now
    <3> QED BY <2>6 DEF Waiting
  <2> HIDE DEF was, given, now, w
  <2>8. Home(c)'
    BY <2>4, <2>5, <2>7, LinksGrow DEF PlansHome, SendsHome, ValidLinks
  <2> QED BY <1>4, <2>5, <2>8
<1>7. ASSUME NEW c \in Clerks, NEW act \in {"dispatch", "redispatch"}, NEW id \in 0 .. MaxDispatches,
             NEW m \in Missions, NEW was \in Dispatch, NEW now \in Dispatch, NEW s \in Schedules \cup {None},
             NEW marks \in BOOLEAN, BeginDispatch(c, act, id, m, was, now, s, marks),
             missions[m].known, now.mission = m, id # 0 => was.mission = m /\ dispatches[id].mission = m,
             DispatchHome(now, missions[m].site)
      PROVE ClerksHome'
  <2>1. Home(c)'
    BY <1>7, BeginsHome
  <2>2. PICK w : clerk' = [clerk EXCEPT ![c] = w]
    BY <1>7 DEF BeginDispatch
  <2> QED BY <1>4, <2>1, <2>2
<1>8. ASSUME NEW c \in Clerks, NEW m \in Missions, NEW r \in Routes \cup {None}, NEW t \in Templates \cup {None},
             NEW s \in Schedules \cup {None}, NEW status \in agenda.asked \cap DispatchStatus,
             DispatchMission(c, m, r, t, s, status)
      PROVE ClerksHome'
  <2>1. PICK d \in IF DispatchesOf(m) = {} THEN {0} ELSE DispatchesOf(m) :
            LET was == IF d = 0 THEN NewDispatch ELSE dispatches[d]
                now == NormalizedDispatch([was EXCEPT !.mission = m, !.route = r, !.template = t, !.schedule = s, !.status = status],
                                          ThisRequest)
            IN  BeginDispatch(c, "dispatch", d, m, was, now, s, TRUE)
    BY <1>8 DEF DispatchMission
  <2> DEFINE was == IF d = 0 THEN NewDispatch ELSE dispatches[d]
             given == [was EXCEPT !.mission = m, !.route = r, !.template = t, !.schedule = s, !.status = status]
             now == NormalizedDispatch(given, ThisRequest)
  <2>2. was \in Dispatch /\ d \in 0 .. MaxDispatches /\ (d # 0 => was.mission = m /\ dispatches[d].mission = m)
    BY <2>1, NewPlanRows, PlanAssumption DEF PlanTyped, PlanTypeOK, DispatchIds, DispatchesOf
  <2>3. given \in Dispatch /\ given.mission = m /\ given.route = r /\ given.template = t /\ given.schedule = s
    <3> HIDE DEF was
    <3> QED BY <2>2 DEF Dispatch
  <2>4. now \in Dispatch /\ now.mission = m /\ now.route = r /\ now.template = t /\ now.schedule = s
    <3> HIDE DEF given
    <3> QED BY <2>3, NormalizedDispatchTyped, AgendaTyped DEF PlanTyped
  <2>5. BeginDispatch(c, "dispatch", d, m, was, now, s, TRUE)
    BY <2>1
  <2>6. missions[m].known /\ ValidLinks(missions[m].site, r, t) /\ (s # None => ScheduleAt(s, missions[m].site))
    BY <1>8 DEF DispatchMission
  <2> HIDE DEF was, given, now
  <2>7. DispatchHome(now, missions[m].site)
    BY <2>4, <2>6 DEF DispatchHome, RefersHome, ValidLinks
  <2> QED BY <1>7, <2>2, <2>4, <2>5, <2>6, <2>7
<1>9. ASSUME NEW c \in Clerks, NEW d \in DispatchIds, NEW r \in Routes \cup {None}, NEW t \in Templates \cup {None},
             NEW s \in Schedules \cup {None}, NEW status \in (agenda.asked \cap DispatchStatus) \cup {None},
             PatchDispatch(c, d, r, t, s, status)
      PROVE ClerksHome'
  <2> DEFINE was == dispatches[d]
             given == [was EXCEPT !.route = Given(r, @), !.template = Given(t, @), !.schedule = Given(s, @),
                                  !.status = Given(status, @)]
             now == NormalizedDispatch(given, ThisRequest)
             marks == now.status \in {"assigned", "sent", "accepted", "completed"}
  <2>1. was \in Dispatch
    BY DEF PlanTyped, PlanTypeOK
  <2>2. /\ Given(r, was.route) \in Routes \cup {None} /\ Given(t, was.template) \in Templates \cup {None}
        /\ Given(s, was.schedule) \in Schedules \cup {None} /\ Given(status, was.status) \in DispatchStatus
    BY <2>1 DEF Given, Dispatch
  <2>3. given \in Dispatch /\ given.mission = was.mission
    <3> HIDE DEF was
    <3> QED BY <2>1, <2>2 DEF Dispatch
  <2>4. now \in Dispatch /\ now.mission = was.mission
    <3> HIDE DEF given, was
    <3> QED BY <2>3, NormalizedDispatchTyped, AgendaTyped DEF PlanTyped
  <2>5. /\ was.mission # None /\ ValidLinks(missions[was.mission].site, now.route, now.template)
        /\ now.schedule # None => ScheduleAt(now.schedule, missions[was.mission].site)
        /\ BeginDispatch(c, "redispatch", d, was.mission, was, now, now.schedule, marks)
    BY <1>9 DEF PatchDispatch
  <2>6. was.mission \in Missions /\ missions[was.mission].known
    BY <2>1, <2>5 DEF Dispatch, PlanHome, DispatchesHome
  <2>7. d \in 0 .. MaxDispatches /\ now.schedule \in Schedules \cup {None} /\ marks \in BOOLEAN
    <3> HIDE DEF now
    <3> QED BY <2>4, PlanAssumption DEF DispatchIds, Dispatch
  <2>8. dispatches[d].mission = was.mission
    OBVIOUS
  <2> HIDE DEF was, given, now, marks
  <2>9. DispatchHome(now, missions[was.mission].site)
    BY <2>5 DEF DispatchHome, RefersHome, ValidLinks
  <2> QED BY <1>7, <2>1, <2>4, <2>5, <2>6, <2>7, <2>8, <2>9
<1>10. ASSUME NEW c \in Clerks, NEW m \in Missions, NEW mode \in Modes, Reprocess(c, m, mode) PROVE ClerksHome'
  <2> DEFINE w == [Waiting EXCEPT !.does = "read reports", !.mission = m, !.mode = mode, !.reports = reports[m],
                       !.statusWas = missions[m].status, !.status = StatusAfter(missions[m].status, mode)]
  <2>1. clerk' = [clerk EXCEPT ![c] = w]
    BY <1>10 DEF Reprocess
  <2>2. w.schedule = None /\ w.does = "read reports"
    BY DEF Waiting
  <2> HIDE DEF w
  <2>3. clerk'[c] = w
    BY <2>1 DEF PlanTyped
  <2>4. Home(c)'
    BY <2>2, <2>3 DEF PlansHome, SendsHome
  <2> QED BY <1>4, <2>1, <2>4
<1>11. ASSUME NEW c \in Clerks, ReadEvents(c) \/ ReadPages(c) \/ StoreEvidence(c) PROVE ClerksHome'
  <2>1. /\ \A x \in Clerks : x # c => clerk'[x] = clerk[x]
        /\ clerk'[c].schedule = clerk[c].schedule /\ clerk'[c].plan = clerk[c].plan /\ clerk'[c].planWas = clerk[c].planWas
        /\ clerk'[c].does \in {"read events", "analyse", "stored"}
    <3>1. clerk \in [Clerks -> ClerkRow]
      BY DEF PlanTyped
    <3>2. CASE ReadEvents(c)
      BY <3>1, <3>2 DEF ReadEvents, ClerkRow
    <3>3. CASE ReadPages(c)
      <4>1. PICK old : clerk' = [clerk EXCEPT ![c].does = "analyse", ![c].old = old, ![c].at = analyses + 1]
        BY <3>3 DEF ReadPages
      <4> QED BY <3>1, <4>1 DEF ClerkRow
    <3>4. CASE StoreEvidence(c)
      BY <3>1, <3>4 DEF StoreEvidence, ClerkRow
    <3> QED BY <1>11, <3>2, <3>3, <3>4
  <2>2. Home(c)'
    BY <1>1, <2>1, PlanKeepsHome DEF SendsHome
  <2>3. ASSUME NEW x \in Clerks PROVE Home(x)'
    BY <1>2, <2>1, <2>2
  <2> QED BY <2>3 DEF ClerksHome
<1>12. ASSUME NEW c \in Clerks, CommitSchedule(c) \/ CommitDispatch(c) \/ CommitAnalysis(c) \/ DieAtWork(c) PROVE ClerksHome'
  BY <1>5, <1>12 DEF CommitSchedule, CommitDispatch, CommitAnalysis, DieAtWork
<1>13. ASSUME NEW c \in Clerks, ClerkNext(c) PROVE ClerksHome'
  <2> HIDE DEF Home
  <2>1. CASE \E s \in Schedules, r \in Routes \cup {None}, t \in Templates \cup {None},
                status \in (agenda.asked \cap ScheduleStatus) \cup {None}, planned, recurs \in BOOLEAN :
                PatchSchedule(c, s, r, t, status, planned, recurs)
    <3>1. PICK s \in Schedules, r \in Routes \cup {None}, t \in Templates \cup {None},
               status \in (agenda.asked \cap ScheduleStatus) \cup {None}, planned \in BOOLEAN, recurs \in BOOLEAN :
               PatchSchedule(c, s, r, t, status, planned, recurs)
      BY <2>1, Zenon
    <3> QED BY <1>6, <3>1
  <2>2. CASE \E m \in Missions, r \in Routes \cup {None}, t \in Templates \cup {None}, s \in Schedules \cup {None},
                status \in agenda.asked \cap DispatchStatus : DispatchMission(c, m, r, t, s, status)
    BY <1>8, <2>2
  <2>3. CASE \E d \in DispatchIds, r \in Routes \cup {None}, t \in Templates \cup {None}, s \in Schedules \cup {None},
                status \in (agenda.asked \cap DispatchStatus) \cup {None} : PatchDispatch(c, d, r, t, s, status)
    BY <1>9, <2>3
  <2>4. CASE \E m \in Missions, mode \in Modes : Reprocess(c, m, mode)
    BY <1>10, <2>4
  <2> QED BY <1>11, <1>12, <1>13, <2>1, <2>2, <2>3, <2>4 DEF ClerkNext
<1>14. ASSUME NEW r, CreateRoute(r) PROVE ClerksHome'
  BY <1>3, <1>14 DEF CreateRoute
<1>15. ASSUME NEW t, NEW r, CreateTemplate(t, r) PROVE ClerksHome'
  BY <1>3, <1>15 DEF CreateTemplate
<1>16. ASSUME NEW t, NEW r, PatchTemplate(t, r) PROVE ClerksHome'
  BY <1>3, <1>16 DEF PatchTemplate
<1>17. ASSUME NEW m, NEW r, CreateFlightTask(m, r) PROVE ClerksHome'
  BY <1>3, <1>17 DEF CreateFlightTask
<1>18. CASE UNCHANGED planVars
  BY <1>3, <1>18 DEF planVars
<1>19. CASE \E s \in Schedules, r \in Routes \cup {None}, t \in Templates \cup {None}, status \in agenda.asked \cap ScheduleStatus,
               planned, recurs \in BOOLEAN : CreateSchedule(s, r, t, status, planned, recurs)
  BY <1>3, <1>19 DEF CreateSchedule
<1> HIDE DEF Home
<1> QED BY <1>13, <1>14, <1>15, <1>16, <1>17, <1>18, <1>19 DEF PlanNext

\* Links never leave a site, for any rows, sites and requests at one time.
THEOREM LinksStayHomeHolds == PlanSpec => []LinksStayHome
<1>1. PlanInit => PlanHome
  BY DEF PlanInit, PlanHome, TemplatesHome, SchedulesHome, DispatchesHome, ClerksHome, RefersHome, PlansHome, SendsHome,
         NewTemplate, NewSchedule, NewDispatch, Waiting
<1>2. PlanTyped /\ PlanHome /\ [PlanNext]_planVars => PlanHome'
  BY PlanGrows, TemplatesStayHome, SchedulesStayHome, DispatchesStayHome, ClerksStayHome DEF PlanHome
<1>3. PlanHome => LinksStayHome
  BY DEF PlanHome, TemplatesHome, SchedulesHome, DispatchesHome, DispatchHome, RefersHome, LinksStayHome
<1>4. PlanInit => PlanTyped
  BY PlanInitTyped
<1>5. PlanTyped /\ [PlanNext]_planVars => PlanTyped'
  BY PlanStepTyped
<1> QED BY <1>1, <1>2, <1>3, <1>4, <1>5, PTL DEF PlanSpec

(***************************************************************************)
(* InspectionPlan: evidence opens.  Analyses are numbered as they take     *)
(* their time. What an analysis deletes is older than itself; its own      *)
(* events are in nobody's hands before they are committed; and no two      *)
(* missions share events.                                                  *)
(***************************************************************************)

Analysing(w) == w.does \in {"analyse", "stored"}

NumberedMissions ==
    \A m \in Missions :
        /\ \A r \in reports[m] : r.number <= analyses
        /\ \A p \in pages[m] : p <= analyses
        /\ \A e \in events[m] : e <= 2 * analyses + 1
Numbered(w) ==
    /\ \A r \in w.reports : r.number <= analyses
    /\ \A e \in w.events : e <= 2 * analyses + 1
    /\ Analysing(w) => /\ w.at \in 1 .. analyses /\ w.old < w.at
                       /\ \A r \in w.reports : r.number < w.at

MissionsApart == \A m, n \in Missions : m # n => events[m] \cap events[n] = {}
Apart(w) ==
    /\ \A m \in Missions : m # w.mission => w.events \cap events[m] = {}
    /\ Analysing(w) => /\ \A m \in Missions : Found(w.at, w.mode) \cap events[m] = {}
                       /\ \A x \in Clerks : Found(w.at, w.mode) \cap clerk[x].events = {}
AnalysesApart == \A c, x \in Clerks : c # x /\ Analysing(clerk[c]) /\ Analysing(clerk[x]) => clerk[c].at # clerk[x].at

EvidenceKept ==
    \A m \in Missions :
        /\ events[m] \subseteq evidence \cap stored
        /\ \A r \in reports[m] : r.ready => page[m] # 0
        /\ \A r \in Shown(m) : r.ready => r.number \in pages[m]
StoredFirst(w) ==
    w.does = "stored" => /\ Found(w.at, w.mode) \subseteq stored
                         /\ Succeeds(w.mode) => page[w.mission] # 0

ClerkSound(c) == Numbered(clerk[c]) /\ Apart(clerk[c]) /\ StoredFirst(clerk[c])
EvidenceSound ==
    /\ NumberedMissions /\ MissionsApart /\ EvidenceKept /\ AnalysesApart
    /\ \A c \in Clerks : ClerkSound(c)

LEMMA FoundBetween ==
    ASSUME NEW at \in Nat, NEW mode, NEW e \in Found(at, mode) PROVE e \in Nat /\ 2 * at <= e /\ e <= 2 * at + 1
BY DEF Found

LEMMA FoundApart ==
    ASSUME NEW a \in Nat, NEW b \in Nat, a # b, NEW mode, NEW other PROVE Found(a, mode) \cap Found(b, other) = {}
<1> SUFFICES ASSUME NEW e \in Found(a, mode), e \in Found(b, other) PROVE FALSE
  OBVIOUS
<1>1. e \in Nat /\ 2 * a <= e /\ e <= 2 * a + 1 /\ 2 * b <= e /\ e <= 2 * b + 1
  BY FoundBetween
<1> QED BY <1>1

\* A request that begins, ends or dies holds no events.
LEMMA DeskSound ==
    ASSUME PlanTyped, EvidenceSound, UNCHANGED analysis, NEW c \in Clerks, NEW w, clerk' = [clerk EXCEPT ![c] = w],
           w.events = {}, w.does \notin {"analyse", "stored"}, \A r \in w.reports : r.number <= analyses
    PROVE EvidenceSound'
<1>1. UNCHANGED <<events, reports, evidence, stored, pages, page, analyses>>
  BY DEF analysis
<1>2. clerk'[c] = w /\ \A x \in Clerks : x # c => clerk'[x] = clerk[x]
  BY DEF PlanTyped
<1>3. NumberedMissions' /\ MissionsApart'
  BY <1>1 DEF EvidenceSound, NumberedMissions, MissionsApart
<1>4. EvidenceKept'
  BY <1>1 DEF EvidenceSound, EvidenceKept, Shown
<1>5. AnalysesApart'
  BY <1>2 DEF EvidenceSound, AnalysesApart, Analysing
<1>6. ASSUME NEW x \in Clerks PROVE ClerkSound(x)'
  <2>1. CASE x = c
    BY <1>1, <1>2, <2>1 DEF ClerkSound, Numbered, Apart, StoredFirst, Analysing
  <2>2. CASE x # c
    <3>1. ClerkSound(x)
      BY DEF EvidenceSound
    <3>2. Numbered(clerk[x])' /\ StoredFirst(clerk[x])'
      BY <1>1, <1>2, <2>2, <3>1 DEF ClerkSound, Numbered, StoredFirst, Analysing
    <3>3. Apart(clerk[x])'
      BY <1>1, <1>2, <2>2, <3>1 DEF ClerkSound, Apart, Analysing
    <3> QED BY <3>2, <3>3 DEF ClerkSound
  <2> QED BY <2>1, <2>2
<1> QED BY <1>3, <1>4, <1>5, <1>6 DEF EvidenceSound

LEMMA ReadEventsSound ==
    ASSUME PlanTyped, EvidenceSound, NEW c \in Clerks, ReadEvents(c) PROVE EvidenceSound'
<1>1. UNCHANGED <<events, reports, evidence, stored, pages, page, analyses>>
  BY DEF ReadEvents, analysis
<1>2. clerk[c].mission \in Missions
  BY DEF ReadEvents, PlanTyped, AtMission
<1>3. /\ clerk'[c].does = "read events" /\ clerk'[c].events = events[clerk[c].mission]
      /\ clerk'[c].mission = clerk[c].mission /\ clerk'[c].reports = clerk[c].reports
      /\ \A x \in Clerks : x # c => clerk'[x] = clerk[x]
  BY DEF ReadEvents, PlanTyped, ClerkRow
<1>4. NumberedMissions' /\ MissionsApart'
  BY <1>1 DEF EvidenceSound, NumberedMissions, MissionsApart
<1>5. EvidenceKept'
  BY <1>1 DEF EvidenceSound, EvidenceKept, Shown
<1>6. AnalysesApart'
  <2> SUFFICES ASSUME NEW a \in Clerks, NEW x \in Clerks, a # x, Analysing(clerk'[a]), Analysing(clerk'[x])
               PROVE clerk'[a].at # clerk'[x].at
    BY DEF AnalysesApart
  <2>1. a # c /\ x # c
    BY <1>3 DEF Analysing
  <2>2. clerk'[a] = clerk[a] /\ clerk'[x] = clerk[x]
    BY <1>3, <2>1
  <2> QED BY <2>2 DEF EvidenceSound, AnalysesApart
<1>7. ASSUME NEW x \in Clerks PROVE ClerkSound(x)'
  <2>1. CASE x = c
    <3>1. ClerkSound(c) /\ NumberedMissions /\ MissionsApart
      BY DEF EvidenceSound
    <3>2. Numbered(clerk[c])' /\ StoredFirst(clerk[c])'
      BY <1>1, <1>2, <1>3, <3>1 DEF ClerkSound, Numbered, NumberedMissions, StoredFirst, Analysing
    <3>3. Apart(clerk[c])'
      BY <1>1, <1>2, <1>3, <3>1 DEF MissionsApart, Apart, Analysing
    <3> QED BY <2>1, <3>2, <3>3 DEF ClerkSound
  <2>2. CASE x # c
    <3>1. ClerkSound(x)
      BY DEF EvidenceSound
    <3>2. Numbered(clerk[x])' /\ StoredFirst(clerk[x])'
      BY <1>1, <1>3, <2>2, <3>1 DEF ClerkSound, Numbered, StoredFirst, Analysing
    <3>3. Apart(clerk[x])'
      BY <1>1, <1>2, <1>3, <2>2, <3>1 DEF ClerkSound, Apart, Analysing
    <3> QED BY <3>2, <3>3 DEF ClerkSound
  <2> QED BY <2>1, <2>2
<1> QED BY <1>4, <1>5, <1>6, <1>7 DEF EvidenceSound

LEMMA ReadPagesSound ==
    ASSUME PlanTyped, EvidenceSound, NEW c \in Clerks, ReadPages(c) PROVE EvidenceSound'
<1>1. UNCHANGED <<events, reports, evidence, stored, pages, page>> /\ analyses' = analyses + 1 /\ analyses \in Nat
  BY DEF ReadPages, PlanTyped, PlanTypeOK
<1>2. clerk[c].mission \in Missions
  BY DEF ReadPages, PlanTyped, AtMission
<1>3. PICK old \in pages[clerk[c].mission] \cup {0} :
          clerk' = [clerk EXCEPT ![c].does = "analyse", ![c].old = old, ![c].at = analyses + 1]
  BY DEF ReadPages
<1>4. /\ clerk'[c].does = "analyse" /\ clerk'[c].events = clerk[c].events /\ clerk'[c].at = analyses + 1 /\ clerk'[c].old = old
      /\ clerk'[c].mission = clerk[c].mission /\ clerk'[c].reports = clerk[c].reports
      /\ \A x \in Clerks : x # c => clerk'[x] = clerk[x]
  BY <1>3 DEF PlanTyped, ClerkRow
<1>5. old \in Nat /\ old <= analyses
  BY <1>1, <1>2, <1>3 DEF EvidenceSound, NumberedMissions, PlanTyped, PlanTypeOK
<1>6. \A x \in Clerks : /\ ClerkSound(x) /\ clerk[x].at \in Nat /\ clerk[x].events \subseteq Nat
                        /\ \A r \in clerk[x].reports : r.number \in Nat
  BY DEF EvidenceSound, PlanTyped, ClerkRow, AnalysisReport
<1>7. NumberedMissions'
  <2>1. ASSUME NEW m \in Missions
        PROVE /\ \A r \in reports[m] : r.number \in Nat /\ r.number <= analyses
              /\ \A p \in pages[m] : p \in Nat /\ p <= analyses
              /\ \A e \in events[m] : e \in Nat /\ e <= 2 * analyses + 1
    BY DEF EvidenceSound, NumberedMissions, PlanTyped, PlanTypeOK, AnalysisReport
  <2> QED BY <1>1, <2>1 DEF NumberedMissions
<1>8. MissionsApart' /\ EvidenceKept'
  BY <1>1 DEF EvidenceSound, MissionsApart, EvidenceKept, Shown
<1>9. AnalysesApart'
  <2>1. ASSUME NEW x \in Clerks, x # c, Analysing(clerk[x]) PROVE clerk[x].at # analyses + 1
    BY <1>1, <1>6, <2>1 DEF ClerkSound, Numbered
  <2> QED BY <1>4, <2>1 DEF EvidenceSound, AnalysesApart, Analysing
<1>10. ASSUME NEW x \in Clerks, NEW mode PROVE Found(analyses + 1, mode) \cap clerk[x].events = {}
  <2> SUFFICES ASSUME NEW e \in Found(analyses + 1, mode), e \in clerk[x].events PROVE FALSE
    OBVIOUS
  <2>1. e \in Nat /\ 2 * (analyses + 1) <= e
    <3>1. analyses + 1 \in Nat
      BY <1>1
    <3> QED BY <3>1, FoundBetween
  <2>2. e <= 2 * analyses + 1
    BY <1>6 DEF ClerkSound, Numbered
  <2> QED BY <1>1, <2>1, <2>2
<1>11. ASSUME NEW m \in Missions, NEW mode PROVE Found(analyses + 1, mode) \cap events[m] = {}
  <2> SUFFICES ASSUME NEW e \in Found(analyses + 1, mode), e \in events[m] PROVE FALSE
    OBVIOUS
  <2>1. e \in Nat /\ 2 * (analyses + 1) <= e
    <3>1. analyses + 1 \in Nat
      BY <1>1
    <3> QED BY <3>1, FoundBetween
  <2>2. e <= 2 * analyses + 1
    BY DEF EvidenceSound, NumberedMissions
  <2> QED BY <1>1, <2>1, <2>2
<1>12. \A x \in Clerks : clerk'[x].events = clerk[x].events
  BY <1>4
<1>13. ASSUME NEW x \in Clerks PROVE ClerkSound(x)'
  <2>1. /\ \A r \in clerk'[x].reports : r.number <= analyses'
        /\ \A e \in clerk'[x].events : e <= 2 * analyses' + 1
    <3>1. /\ \A r \in clerk[x].reports : r.number \in Nat /\ r.number <= analyses
          /\ \A e \in clerk[x].events : e \in Nat /\ e <= 2 * analyses + 1
      BY <1>6 DEF ClerkSound, Numbered
    <3>2. clerk'[x].reports = clerk[x].reports
      BY <1>4
    <3> QED BY <1>1, <1>12, <3>1, <3>2
  <2>2. CASE x = c
    <3>1. Numbered(clerk[c])'
      <4>1. \A r \in clerk[c].reports : r.number \in Nat /\ r.number <= analyses
        BY <1>6 DEF ClerkSound, Numbered
      <4> QED BY <1>1, <1>4, <1>5, <2>1, <2>2, <4>1 DEF Numbered
    <3>2. Apart(clerk[c])'
      <4>1. \A m \in Missions : m # clerk[c].mission => clerk[c].events \cap events[m] = {}
        BY <1>6 DEF ClerkSound, Apart
      <4> QED BY <1>1, <1>4, <1>10, <1>11, <1>12, <4>1 DEF Apart
    <3>3. StoredFirst(clerk[c])'
      BY <1>4 DEF StoredFirst
    <3> QED BY <2>2, <3>1, <3>2, <3>3 DEF ClerkSound
  <2>3. CASE x # c
    <3>1. Numbered(clerk[x])'
      BY <1>1, <1>4, <1>6, <2>1, <2>3 DEF ClerkSound, Numbered, Analysing
    <3>2. Apart(clerk[x])' /\ StoredFirst(clerk[x])'
      BY <1>1, <1>4, <1>6, <1>12, <2>3 DEF ClerkSound, Apart, Analysing, StoredFirst
    <3> QED BY <3>1, <3>2 DEF ClerkSound
  <2> QED BY <2>2, <2>3
<1> QED BY <1>7, <1>8, <1>9, <1>13 DEF EvidenceSound

LEMMA StoreEvidenceSound ==
    ASSUME PlanTyped, EvidenceSound, NEW c \in Clerks, StoreEvidence(c) PROVE EvidenceSound'
<1> DEFINE new == Found(clerk[c].at, clerk[c].mode)
<1>1. UNCHANGED <<events, reports, evidence, pages, analyses>> /\ stored' = stored \cup new
  BY DEF StoreEvidence
<1>2. clerk[c].mission \in Missions /\ clerk[c].does = "analyse"
  BY DEF StoreEvidence, PlanTyped, AtMission
<1>3. /\ clerk'[c].does = "stored" /\ clerk'[c].events = clerk[c].events /\ clerk'[c].at = clerk[c].at
      /\ clerk'[c].mode = clerk[c].mode /\ clerk'[c].old = clerk[c].old
      /\ clerk'[c].mission = clerk[c].mission /\ clerk'[c].reports = clerk[c].reports
      /\ \A x \in Clerks : x # c => clerk'[x] = clerk[x]
  BY DEF StoreEvidence, PlanTyped, ClerkRow
<1>4. \A x \in Clerks : ClerkSound(x)
  BY DEF EvidenceSound
<1>5. clerk[c].at # 0
  BY <1>2, <1>4 DEF ClerkSound, Numbered, Analysing
<1>6. page' = [page EXCEPT ![clerk[c].mission] = IF Succeeds(clerk[c].mode) THEN clerk[c].at ELSE @]
  BY DEF StoreEvidence
<1>7. /\ \A m \in Missions : page[m] # 0 => page'[m] # 0
      /\ Succeeds(clerk[c].mode) => page'[clerk[c].mission] # 0
  BY <1>2, <1>5, <1>6 DEF PlanTyped, PlanTypeOK
<1>8. NumberedMissions' /\ MissionsApart'
  BY <1>1 DEF EvidenceSound, NumberedMissions, MissionsApart
<1>9. EvidenceKept'
  BY <1>1, <1>7 DEF EvidenceSound, EvidenceKept, Shown
<1>10. AnalysesApart'
  BY <1>2, <1>3 DEF EvidenceSound, AnalysesApart, Analysing
<1>11. ASSUME NEW x \in Clerks PROVE ClerkSound(x)'
  <2>1. Numbered(clerk[x])'
    BY <1>1, <1>2, <1>3, <1>4 DEF ClerkSound, Numbered, Analysing
  <2>2. Apart(clerk[x])'
    <3>1. Apart(clerk[x]) /\ clerk'[x].events = clerk[x].events /\ clerk'[x].mission = clerk[x].mission
          /\ clerk'[x].at = clerk[x].at /\ clerk'[x].mode = clerk[x].mode /\ (Analysing(clerk'[x]) => Analysing(clerk[x]))
      BY <1>2, <1>3, <1>4 DEF ClerkSound, Analysing
    <3>2. \A y \in Clerks : clerk'[y].events = clerk[y].events
      BY <1>3
    <3> QED BY <1>1, <3>1, <3>2 DEF Apart, Analysing
  <2>3. StoredFirst(clerk[x])'
    <3>1. CASE x = c
      BY <1>1, <1>3, <1>7, <3>1 DEF StoredFirst
    <3>2. CASE x # c
      <4>1. clerk[x].does = "stored" => clerk[x].mission \in Missions
        BY DEF PlanTyped, AtMission
      <4> QED BY <1>1, <1>3, <1>4, <1>7, <3>2, <4>1 DEF ClerkSound, StoredFirst
    <3> QED BY <3>1, <3>2
  <2> QED BY <2>1, <2>2, <2>3 DEF ClerkSound
<1> QED BY <1>8, <1>9, <1>10, <1>11 DEF EvidenceSound

LEMMA CommitAnalysisSound ==
    ASSUME PlanTyped, EvidenceSound, NEW c \in Clerks, CommitAnalysis(c) PROVE EvidenceSound'
<1> DEFINE w == clerk[c]
           new == Found(w.at, w.mode)
           row == [number |-> w.at, ready |-> Succeeds(w.mode), count |-> Cardinality(new)]
<1>1. /\ UNCHANGED <<stored, page, analyses>>
      /\ events' = [events EXCEPT ![w.mission] = (@ \ w.events) \cup new]
      /\ evidence' = (evidence \ w.events) \cup new
      /\ pages' = [pages EXCEPT ![w.mission] = (@ \ {w.old}) \cup IF Succeeds(w.mode) THEN {w.at} ELSE {}]
      /\ reports' = [reports EXCEPT ![w.mission] = (@ \ w.reports) \cup {row}]
      /\ clerk' = [clerk EXCEPT ![c] = Waiting]
      /\ w.does = "stored"
  BY DEF CommitAnalysis
<1>2. w.mission \in Missions
  BY <1>1 DEF PlanTyped, AtMission
<1>3. /\ events'[w.mission] = (events[w.mission] \ w.events) \cup new
      /\ pages'[w.mission] = (pages[w.mission] \ {w.old}) \cup IF Succeeds(w.mode) THEN {w.at} ELSE {}
      /\ reports'[w.mission] = (reports[w.mission] \ w.reports) \cup {row}
      /\ \A m \in Missions : m # w.mission => events'[m] = events[m] /\ pages'[m] = pages[m] /\ reports'[m] = reports[m]
  BY <1>1, <1>2 DEF PlanTyped, PlanTypeOK
<1>4. clerk'[c] = Waiting /\ \A x \in Clerks : x # c => clerk'[x] = clerk[x]
  BY <1>1 DEF PlanTyped
<1>5. \A x \in Clerks : ClerkSound(x)
  BY DEF EvidenceSound
<1>6. /\ analyses \in Nat /\ w.at \in Nat /\ w.old \in Nat /\ w.at \in 1 .. analyses /\ w.old < w.at
      /\ \A r \in w.reports : r.number < w.at
  BY <1>1, <1>5 DEF ClerkSound, Numbered, Analysing, PlanTyped, PlanTypeOK, ClerkRow
<1>7. /\ \A m \in Missions : m # w.mission => w.events \cap events[m] = {}
      /\ \A m \in Missions : new \cap events[m] = {}
      /\ \A x \in Clerks : new \cap clerk[x].events = {}
      /\ new \subseteq stored
      /\ Succeeds(w.mode) => page[w.mission] # 0
  BY <1>1, <1>5 DEF ClerkSound, Apart, StoredFirst, Analysing
<1>8. \A e \in new : e \in Nat /\ e <= 2 * analyses + 1
  <2> SUFFICES ASSUME NEW e \in new PROVE e \in Nat /\ e <= 2 * analyses + 1
    OBVIOUS
  <2>1. e \in Nat /\ e <= 2 * w.at + 1
    BY <1>6, FoundBetween
  <2> HIDE DEF w
  <2> QED BY <1>6, <2>1
<1>9. row.number = w.at /\ row.ready = Succeeds(w.mode)
  OBVIOUS
<1>10. ASSUME NEW x \in Clerks, x # c, Analysing(clerk[x]) PROVE Found(clerk[x].at, clerk[x].mode) \cap new = {}
  <2>1. clerk[x].at # w.at
    BY <1>1, <1>10 DEF EvidenceSound, AnalysesApart, Analysing
  <2>2. clerk[x].at \in Nat
    BY DEF PlanTyped, ClerkRow
  <2> QED BY <1>6, <2>1, <2>2, FoundApart
<1> HIDE DEF w, new, row
<1>11. NumberedMissions'
  <2> SUFFICES ASSUME NEW m \in Missions
               PROVE /\ \A r \in reports'[m] : r.number <= analyses
                     /\ \A p \in pages'[m] : p <= analyses
                     /\ \A e \in events'[m] : e <= 2 * analyses + 1
    BY <1>1 DEF NumberedMissions
  <2>1. /\ \A r \in reports[m] : r.number <= analyses
        /\ \A p \in pages[m] : p <= analyses
        /\ \A e \in events[m] : e <= 2 * analyses + 1
    BY DEF EvidenceSound, NumberedMissions
  <2>2. CASE m = w.mission
    BY <1>3, <1>6, <1>8, <1>9, <2>1, <2>2
  <2>3. CASE m # w.mission
    BY <1>3, <2>1, <2>3
  <2> QED BY <2>2, <2>3
<1>12. MissionsApart'
  <2> SUFFICES ASSUME NEW m \in Missions, NEW n \in Missions, m # n PROVE events'[m] \cap events'[n] = {}
    BY DEF MissionsApart
  <2>1. events[m] \cap events[n] = {}
    BY DEF EvidenceSound, MissionsApart
  <2>2. events'[m] \subseteq events[m] \cup new /\ events'[n] \subseteq events[n] \cup new
    BY <1>3
  <2>3. events'[m] = events[m] \/ events'[n] = events[n]
    BY <1>3
  <2> QED BY <1>7, <2>1, <2>2, <2>3
<1>13. EvidenceKept'
  <2> SUFFICES ASSUME NEW m \in Missions
               PROVE /\ events'[m] \subseteq evidence' \cap stored
                     /\ \A r \in reports'[m] : r.ready => page[m] # 0
                     /\ \A r \in Shown(m)' : r.ready => r.number \in pages'[m]
    BY <1>1 DEF EvidenceKept
  <2>1. /\ events[m] \subseteq evidence \cap stored
        /\ \A r \in reports[m] : r.ready => page[m] # 0
        /\ \A r \in Shown(m) : r.ready => r.number \in pages[m]
    BY DEF EvidenceSound, EvidenceKept
  <2>2. CASE m # w.mission
    <3>1. Shown(m)' = Shown(m)
      BY <1>3, <2>2 DEF Shown
    <3> QED BY <1>1, <1>3, <1>7, <2>1, <2>2, <3>1
  <2>3. CASE m = w.mission
    <3>1. events'[m] \subseteq evidence' \cap stored
      BY <1>1, <1>3, <1>7, <2>1, <2>3
    <3>2. \A r \in reports'[m] : r.ready => page[m] # 0
      BY <1>3, <1>7, <1>9, <2>1, <2>3
    <3>3. ASSUME NEW r \in Shown(m)', r.ready PROVE r.number \in pages'[m]
      <4>1. r \in reports'[m] /\ \A other \in reports'[m] : other.number <= r.number
        BY DEF Shown
      <4>2. CASE r = row
        BY <1>3, <1>9, <2>3, <3>3, <4>2
      <4>3. CASE r # row
        <5>1. r \in reports[m] /\ row \in reports'[m]
          BY <1>3, <2>3, <4>1, <4>3
        <5>2. w.at <= r.number /\ r.number \in Nat
          BY <1>9, <4>1, <5>1 DEF PlanTyped, PlanTypeOK, AnalysisReport
        <5>3. ASSUME NEW other \in reports[m] PROVE other.number <= r.number
          <6>1. other.number \in Nat
            BY DEF PlanTyped, PlanTypeOK, AnalysisReport
          <6>2. CASE other \in w.reports
            BY <1>6, <5>2, <6>1, <6>2
          <6>3. CASE other \notin w.reports
            BY <1>3, <2>3, <4>1, <6>3
          <6> QED BY <6>2, <6>3
        <5>4. r.number \in pages[m]
          BY <2>1, <3>3, <5>1, <5>3 DEF Shown
        <5>5. r.number # w.old
          BY <1>6, <5>2
        <5> QED BY <1>3, <2>3, <5>4, <5>5
      <4> QED BY <4>2, <4>3
    <3> QED BY <3>1, <3>2, <3>3
  <2> QED BY <2>2, <2>3
<1>14. AnalysesApart'
  BY <1>4 DEF EvidenceSound, AnalysesApart, Analysing, Waiting
<1>15. ASSUME NEW x \in Clerks PROVE ClerkSound(x)'
  <2>1. CASE x = c
    BY <1>4, <2>1 DEF ClerkSound, Numbered, Apart, StoredFirst, Analysing, Waiting
  <2>2. CASE x # c
    <3>1. ClerkSound(x) /\ clerk'[x] = clerk[x]
      BY <1>4, <1>5, <2>2
    <3>2. Numbered(clerk[x])' /\ StoredFirst(clerk[x])'
      BY <1>1, <3>1 DEF ClerkSound, Numbered, StoredFirst, Analysing
    <3>3. Apart(clerk[x])'
      <4>1. \A m \in Missions : events'[m] \subseteq events[m] \cup new
        BY <1>3
      <4>2. \A y \in Clerks : clerk'[y].events \in {clerk[y].events, {}}
        BY <1>4 DEF Waiting
      <4>3. ASSUME NEW m \in Missions, m # clerk[x].mission PROVE clerk[x].events \cap events'[m] = {}
        BY <1>7, <3>1, <4>1, <4>3 DEF ClerkSound, Apart
      <4>4. ASSUME Analysing(clerk[x]), NEW m \in Missions
            PROVE Found(clerk[x].at, clerk[x].mode) \cap events'[m] = {}
        BY <1>10, <2>2, <3>1, <4>1, <4>4 DEF ClerkSound, Apart
      <4>5. ASSUME Analysing(clerk[x]), NEW y \in Clerks
            PROVE Found(clerk[x].at, clerk[x].mode) \cap clerk'[y].events = {}
        BY <3>1, <4>2, <4>5 DEF ClerkSound, Apart
      <4> QED BY <3>1, <4>3, <4>4, <4>5 DEF Apart
    <3> QED BY <3>2, <3>3 DEF ClerkSound
  <2> QED BY <2>1, <2>2
<1> QED BY <1>11, <1>12, <1>13, <1>14, <1>15 DEF EvidenceSound

LEMMA EvidenceStaysSound == PlanTyped /\ EvidenceSound /\ [PlanNext]_planVars => EvidenceSound'
<1> SUFFICES ASSUME PlanTyped, EvidenceSound, [PlanNext]_planVars PROVE EvidenceSound'
  OBVIOUS
<1>1. CASE UNCHANGED <<analysis, clerk>>
  BY <1>1 DEF analysis, EvidenceSound, NumberedMissions, MissionsApart, EvidenceKept, Shown, AnalysesApart, ClerkSound, Numbered,
              Apart, StoredFirst, Analysing
<1>2. ASSUME NEW c \in Clerks, UNCHANGED analysis, clerk' = [clerk EXCEPT ![c] = Waiting] PROVE EvidenceSound'
  <2>1. Waiting.events = {} /\ Waiting.reports = {} /\ Waiting.does = "nothing"
    BY DEF Waiting
  <2> QED BY <1>2, <2>1, DeskSound
<1>3. ASSUME NEW c \in Clerks, NEW s \in Schedules, NEW r, NEW t, NEW status, NEW planned, NEW recurs,
             PatchSchedule(c, s, r, t, status, planned, recurs)
      PROVE EvidenceSound'
  <2>1. PICK was, plan : clerk' = [clerk EXCEPT ![c] = [Waiting EXCEPT !.does = "reschedule", !.schedule = s, !.planWas = was, !.plan = plan]]
    BY <1>3 DEF PatchSchedule
  <2> DEFINE w == [Waiting EXCEPT !.does = "reschedule", !.schedule = s, !.planWas = was, !.plan = plan]
  <2>2. w.events = {} /\ w.reports = {} /\ w.does = "reschedule" /\ clerk' = [clerk EXCEPT ![c] = w]
    BY <2>1 DEF Waiting
  <2>3. UNCHANGED analysis
    BY <1>3 DEF PatchSchedule
  <2> HIDE DEF w
  <2> QED BY <2>2, <2>3, DeskSound
<1>4. ASSUME NEW c \in Clerks, NEW act \in {"dispatch", "redispatch"}, NEW id, NEW m, NEW was, NEW now, NEW s, NEW marks,
             BeginDispatch(c, act, id, m, was, now, s, marks), UNCHANGED analysis
      PROVE EvidenceSound'
  <2>1. PICK planWas, plan, statusWas, status :
            clerk' = [clerk EXCEPT ![c] = [Waiting EXCEPT !.does = act, !.id = id, !.mission = m, !.was = was, !.now = now,
                          !.statusWas = statusWas, !.status = status, !.schedule = s, !.planWas = planWas, !.plan = plan]]
    BY <1>4 DEF BeginDispatch
  <2> DEFINE w == [Waiting EXCEPT !.does = act, !.id = id, !.mission = m, !.was = was, !.now = now,
                       !.statusWas = statusWas, !.status = status, !.schedule = s, !.planWas = planWas, !.plan = plan]
  <2>2. w.events = {} /\ w.reports = {} /\ w.does = act /\ clerk' = [clerk EXCEPT ![c] = w]
    BY <2>1 DEF Waiting
  <2> HIDE DEF w
  <2> QED BY <1>4, <2>2, DeskSound
<1>5. ASSUME NEW c \in Clerks, NEW m, NEW r, NEW t, NEW s, NEW status, DispatchMission(c, m, r, t, s, status)
      PROVE EvidenceSound'
  <2>1. UNCHANGED analysis /\ \E id, was, now : BeginDispatch(c, "dispatch", id, m, was, now, s, TRUE)
    BY <1>5 DEF DispatchMission
  <2> QED BY <1>4, <2>1
<1>6. ASSUME NEW c \in Clerks, NEW d, NEW r, NEW t, NEW s, NEW status, PatchDispatch(c, d, r, t, s, status)
      PROVE EvidenceSound'
  <2>1. UNCHANGED analysis /\ \E m, was, now, plan, marks : BeginDispatch(c, "redispatch", d, m, was, now, plan, marks)
    BY <1>6 DEF PatchDispatch
  <2> QED BY <1>4, <2>1
<1>7. ASSUME NEW c \in Clerks, NEW m \in Missions, NEW mode \in Modes, Reprocess(c, m, mode) PROVE EvidenceSound'
  <2>1. PICK statusWas, status, old :
            /\ old = reports[m]
            /\ clerk' = [clerk EXCEPT ![c] = [Waiting EXCEPT !.does = "read reports", !.mission = m, !.mode = mode,
                            !.reports = old, !.statusWas = statusWas, !.status = status]]
    BY <1>7 DEF Reprocess
  <2> DEFINE w == [Waiting EXCEPT !.does = "read reports", !.mission = m, !.mode = mode,
                       !.reports = old, !.statusWas = statusWas, !.status = status]
  <2>2. w.events = {} /\ w.reports = old /\ w.does = "read reports" /\ clerk' = [clerk EXCEPT ![c] = w]
    BY <2>1 DEF Waiting
  <2>3. \A r \in old : r.number <= analyses
    BY <2>1 DEF EvidenceSound, NumberedMissions
  <2>4. UNCHANGED analysis
    BY <1>7 DEF Reprocess
  <2> HIDE DEF w
  <2> QED BY <2>2, <2>3, <2>4, DeskSound
<1>8. ASSUME NEW c \in Clerks, CommitSchedule(c) \/ CommitDispatch(c) \/ DieAtWork(c) PROVE EvidenceSound'
  BY <1>2, <1>8 DEF CommitSchedule, CommitDispatch, DieAtWork
<1>9. ASSUME NEW c \in Clerks, ClerkNext(c) PROVE EvidenceSound'
  <2>1. CASE \E s \in Schedules, r \in Routes \cup {None}, t \in Templates \cup {None},
                status \in (agenda.asked \cap ScheduleStatus) \cup {None}, planned, recurs \in BOOLEAN :
                PatchSchedule(c, s, r, t, status, planned, recurs)
    BY <1>3, <2>1
  <2>2. CASE \E m \in Missions, r \in Routes \cup {None}, t \in Templates \cup {None}, s \in Schedules \cup {None},
                status \in agenda.asked \cap DispatchStatus : DispatchMission(c, m, r, t, s, status)
    BY <1>5, <2>2
  <2>3. CASE \E d \in DispatchIds, r \in Routes \cup {None}, t \in Templates \cup {None}, s \in Schedules \cup {None},
                status \in (agenda.asked \cap DispatchStatus) \cup {None} : PatchDispatch(c, d, r, t, s, status)
    BY <1>6, <2>3
  <2>4. CASE \E m \in Missions, mode \in Modes : Reprocess(c, m, mode)
    BY <1>7, <2>4
  <2> QED BY <1>8, <1>9, <2>1, <2>2, <2>3, <2>4, ReadEventsSound, ReadPagesSound, StoreEvidenceSound, CommitAnalysisSound
          DEF ClerkNext
<1>10. ASSUME NEW r, CreateRoute(r) PROVE EvidenceSound'
  BY <1>1, <1>10 DEF CreateRoute
<1>11. ASSUME NEW t, NEW r, CreateTemplate(t, r) \/ PatchTemplate(t, r) PROVE EvidenceSound'
  BY <1>1, <1>11 DEF CreateTemplate, PatchTemplate
<1>12. ASSUME NEW m, NEW r, CreateFlightTask(m, r) PROVE EvidenceSound'
  BY <1>1, <1>12 DEF CreateFlightTask
<1>13. CASE \E s \in Schedules, r \in Routes \cup {None}, t \in Templates \cup {None}, status \in agenda.asked \cap ScheduleStatus,
               planned, recurs \in BOOLEAN : CreateSchedule(s, r, t, status, planned, recurs)
  BY <1>1, <1>13 DEF CreateSchedule
<1>14. CASE UNCHANGED planVars
  BY <1>1, <1>14 DEF planVars, analysis
<1> QED BY <1>9, <1>10, <1>11, <1>12, <1>13, <1>14 DEF PlanNext

\* What is shown of an analysis opens, for any missions and analyses that overlap.
THEOREM EvidenceOpensHolds == PlanSpec => []EvidenceOpens
<1>1. PlanInit => EvidenceSound
  <2> SUFFICES ASSUME PlanInit PROVE EvidenceSound
    OBVIOUS
  <2>1. NumberedMissions /\ MissionsApart /\ EvidenceKept
    BY DEF PlanInit, NumberedMissions, MissionsApart, EvidenceKept, Shown
  <2>2. \A c \in Clerks : clerk[c] = Waiting
    BY DEF PlanInit
  <2>3. AnalysesApart /\ \A c \in Clerks : ClerkSound(c)
    BY <2>2 DEF AnalysesApart, ClerkSound, Numbered, Apart, StoredFirst, Analysing, Waiting
  <2> QED BY <2>1, <2>3 DEF EvidenceSound
<1>2. PlanTyped /\ EvidenceSound /\ [PlanNext]_planVars => EvidenceSound'
  BY EvidenceStaysSound
<1>3. EvidenceSound => EvidenceOpens
  BY DEF EvidenceSound, EvidenceKept, EvidenceOpens, Shown
<1>4. PlanInit => PlanTyped
  BY PlanInitTyped
<1>5. PlanTyped /\ [PlanNext]_planVars => PlanTyped'
  BY PlanStepTyped
<1> QED BY <1>1, <1>2, <1>3, <1>4, <1>5, PTL DEF PlanSpec

-----------------------------------------------------------------------------
USE LineAssumption, WebhookAssumption

-----------------------------------------------------------------------------
(* LineIdentity                                                              *)

OneAttempt ==
    \A a, c \in Attempts : Current(a) /\ Current(c) /\ attempt[a].line = attempt[c].line => a = c

OneRow == \A b, c \in bindings : b.line = c.line \/ b.user = c.user => b = c

Confirmed(b) ==
    \E a \in Attempts : /\ attempt[a].status = "consumed"
                        /\ attempt[a].line = b.line
                        /\ attempt[a].user = b.user
                        /\ attempt[a].site = b.site

IdentityInv == IdentityTypeOK /\ OneAtATime /\ SecretsLeave /\ LinkIsConfirmed

\* What the operations other than a start do to the attempts: a current row is
\* changed, its LINE user stays, and it gives its secrets up when it ends.
ChangesCurrent(a, row) ==
    /\ attempt' = [attempt EXCEPT ![a] = row]
    /\ row \in AttemptRow
    /\ attempt[a].status \in Pending
    /\ row.line = attempt[a].line
    /\ row.status \in Ended => ~row.token /\ ~row.redirect

LEMMA ChangeKeeps ==
    ASSUME IdentityTypeOK, OneAttempt, SecretsLeave, NEW a \in Attempts, NEW row,
           ChangesCurrent(a, row)
    PROVE  /\ attempt' \in [Attempts -> AttemptRow]
           /\ OneAttempt'
           /\ SecretsLeave'
           /\ \A c \in Attempts : attempt[c].status \in Ended => attempt'[c] = attempt[c]
<1>1. attempt \in [Attempts -> AttemptRow]  BY DEF IdentityTypeOK
<1>2. attempt' \in [Attempts -> AttemptRow]  BY <1>1 DEF ChangesCurrent
<1>3. \A c \in Attempts : attempt'[c] = IF c = a THEN row ELSE attempt[c]
  BY <1>1 DEF ChangesCurrent
<1>4. \A c \in Attempts : /\ attempt'[c].line = attempt[c].line
                          /\ attempt'[c].status \in Pending => attempt[c].status \in Pending
  BY <1>3 DEF ChangesCurrent
<1>5. OneAttempt'  BY <1>4 DEF OneAttempt, Current
<1>6. SecretsLeave'  BY <1>3 DEF ChangesCurrent, SecretsLeave
<1>7. \A c \in Attempts : attempt[c].status \in Ended => attempt'[c] = attempt[c]
  BY <1>3 DEF ChangesCurrent, Pending, Ended
<1> QED  BY <1>2, <1>5, <1>6, <1>7

LEMMA RowOf ==
    ASSUME IdentityTypeOK, NEW a \in Attempts
    PROVE  /\ attempt[a] \in AttemptRow
           /\ \A status \in Ended : /\ Retired(attempt[a], status) \in AttemptRow
                                    /\ Retired(attempt[a], status).line = attempt[a].line
                                    /\ Retired(attempt[a], status).user = attempt[a].user
                                    /\ Retired(attempt[a], status).site = attempt[a].site
                                    /\ Retired(attempt[a], status).status = status
                                    /\ ~Retired(attempt[a], status).token
                                    /\ ~Retired(attempt[a], status).redirect
<1>1. attempt[a] \in AttemptRow  BY DEF IdentityTypeOK
<1> SUFFICES ASSUME NEW status \in Ended
             PROVE  /\ Retired(attempt[a], status) \in AttemptRow
                    /\ Retired(attempt[a], status).line = attempt[a].line
                    /\ Retired(attempt[a], status).user = attempt[a].user
                    /\ Retired(attempt[a], status).site = attempt[a].site
                    /\ Retired(attempt[a], status).status = status
                    /\ ~Retired(attempt[a], status).token
                    /\ ~Retired(attempt[a], status).redirect
  BY <1>1
<1>2. Retired(attempt[a], status) \in AttemptRow
  BY <1>1 DEF AttemptRow, Retired, Ended
<1>3. /\ Retired(attempt[a], status).line = attempt[a].line
      /\ Retired(attempt[a], status).user = attempt[a].user
      /\ Retired(attempt[a], status).site = attempt[a].site
  BY <1>1 DEF AttemptRow, Retired
<1>4. Retired(attempt[a], status).status = status
  BY <1>1 DEF AttemptRow, Retired
<1>5. ~Retired(attempt[a], status).token /\ ~Retired(attempt[a], status).redirect
  BY <1>1 DEF AttemptRow, Retired
<1> QED  BY <1>2, <1>3, <1>4, <1>5

\* An operation that retires a current attempt.
LEMMA RetireChanges ==
    ASSUME IdentityTypeOK, NEW a \in Attempts, NEW status \in Ended,
           attempt[a].status \in Pending,
           attempt' = [attempt EXCEPT ![a] = Retired(@, status)]
    PROVE  ChangesCurrent(a, Retired(attempt[a], status))
<1>1. attempt' = [attempt EXCEPT ![a] = Retired(attempt[a], status)]
  BY DEF IdentityTypeOK
<1> QED  BY <1>1, RowOf DEF ChangesCurrent

LEMMA ConfirmChanges ==
    ASSUME IdentityTypeOK, NEW a \in Attempts, NEW u \in WebUsers, NEW s \in Sites,
           ConfirmSite(a, u, s)
    PROVE  \E row : ChangesCurrent(a, row)
<1>0. attempt[a] \in AttemptRow  BY DEF IdentityTypeOK
<1> DEFINE row == [attempt[a] EXCEPT !.user = u, !.site = s, !.redirect = TRUE,
                                     !.status = "pending_line"]
<1>1. attempt' = [attempt EXCEPT ![a] = row]  BY DEF ConfirmSite, IdentityTypeOK
<1>2. row \in AttemptRow  BY <1>0 DEF AttemptRow, Pending
<1>3. row.line = attempt[a].line /\ row.status = "pending_line"
  BY <1>0 DEF AttemptRow
<1>4. attempt[a].status \in Pending  BY DEF ConfirmSite, Usable, Pending
<1> HIDE DEF row
<1> QED  BY <1>1, <1>2, <1>3, <1>4 DEF ChangesCurrent, Ended

LEMMA RedirectChanges ==
    ASSUME IdentityTypeOK, NEW a \in Attempts, ConsumeRedirect(a)
    PROVE  \E row : ChangesCurrent(a, row)
<1>0. attempt[a] \in AttemptRow  BY DEF IdentityTypeOK
<1> DEFINE row == [attempt[a] EXCEPT !.token = FALSE, !.redirect = FALSE, !.redirected = TRUE]
<1>1. attempt' = [attempt EXCEPT ![a] = row]  BY DEF ConsumeRedirect, IdentityTypeOK
<1>2. row \in AttemptRow  BY <1>0 DEF AttemptRow
<1>3. row.line = attempt[a].line /\ ~row.token /\ ~row.redirect
  BY <1>0 DEF AttemptRow
<1>4. attempt[a].status \in Pending  BY DEF ConsumeRedirect, Usable, Pending
<1> HIDE DEF row
<1> QED  BY <1>1, <1>2, <1>3, <1>4 DEF ChangesCurrent

LEMMA AgeChanges ==
    ASSUME IdentityTypeOK, NEW a \in Attempts, Age(a)
    PROVE  \E row : ChangesCurrent(a, row)
<1>0. attempt[a] \in AttemptRow  BY DEF IdentityTypeOK
<1> DEFINE row == [attempt[a] EXCEPT !.stale = TRUE]
<1>1. attempt' = [attempt EXCEPT ![a] = row]  BY DEF Age, IdentityTypeOK
<1>2. row \in AttemptRow  BY <1>0 DEF AttemptRow
<1>3. row.line = attempt[a].line /\ row.status = attempt[a].status
  BY <1>0 DEF AttemptRow
<1>4. attempt[a].status \in Pending  BY DEF Age, Current
<1> HIDE DEF row
<1> QED  BY <1>1, <1>2, <1>3, <1>4 DEF ChangesCurrent, Pending, Ended

\* Every step on an attempt but a start.
LEMMA AttemptStepChanges ==
    ASSUME IdentityTypeOK, NEW a \in Attempts,
           \/ \E u \in WebUsers, s \in Sites : ConfirmSite(a, u, s)
           \/ ConsumeRedirect(a)
           \/ \E status \in Pending : ExpireAttempt(a, status)
           \/ LinkFailed(a)
           \/ \E l \in LineUsers : LinkConflict(a, l)
           \/ Age(a)
    PROVE  /\ \E row : ChangesCurrent(a, row)
           /\ UNCHANGED <<bindings, readers>>
<1>1. ASSUME NEW u \in WebUsers, NEW s \in Sites, ConfirmSite(a, u, s)
      PROVE  (\E row : ChangesCurrent(a, row)) /\ UNCHANGED <<bindings, readers>>
  BY <1>1, ConfirmChanges DEF ConfirmSite
<1>2. ASSUME ConsumeRedirect(a)
      PROVE  (\E row : ChangesCurrent(a, row)) /\ UNCHANGED <<bindings, readers>>
  BY <1>2, RedirectChanges DEF ConsumeRedirect
<1>3. ASSUME NEW status \in Pending, ExpireAttempt(a, status)
      PROVE  (\E row : ChangesCurrent(a, row)) /\ UNCHANGED <<bindings, readers>>
  <2>1. "expired" \in Ended  BY DEF Ended
  <2>2. /\ attempt[a].status \in Pending
        /\ attempt' = [attempt EXCEPT ![a] = Retired(@, "expired")]
        /\ UNCHANGED <<bindings, readers>>
    BY <1>3 DEF ExpireAttempt
  <2> QED  BY <2>1, <2>2, RetireChanges
<1>4. ASSUME LinkFailed(a)
      PROVE  (\E row : ChangesCurrent(a, row)) /\ UNCHANGED <<bindings, readers>>
  <2>1. "failed" \in Ended  BY DEF Ended
  <2>2. /\ attempt[a].status \in Pending
        /\ attempt' = [attempt EXCEPT ![a] = Retired(@, "failed")]
        /\ UNCHANGED <<bindings, readers>>
    BY <1>4 DEF LinkFailed, Answered, Usable, Pending
  <2> QED  BY <2>1, <2>2, RetireChanges
<1>5. ASSUME NEW l \in LineUsers, LinkConflict(a, l)
      PROVE  (\E row : ChangesCurrent(a, row)) /\ UNCHANGED <<bindings, readers>>
  <2>1. "failed" \in Ended  BY DEF Ended
  <2>2. /\ attempt[a].status \in Pending
        /\ attempt' = [attempt EXCEPT ![a] = Retired(@, "failed")]
        /\ UNCHANGED <<bindings, readers>>
    BY <1>5 DEF LinkConflict, MayLink, Answered, Usable, Pending
  <2> QED  BY <2>1, <2>2, RetireChanges
<1>6. ASSUME Age(a)
      PROVE  (\E row : ChangesCurrent(a, row)) /\ UNCHANGED <<bindings, readers>>
  BY <1>6, AgeChanges DEF Age
<1> QED  BY <1>1, <1>2, <1>3, <1>4, <1>5, <1>6

EndedKept == \A c \in Attempts : attempt[c].status \in Ended => attempt'[c] = attempt[c]

\* Such a step keeps the invariant: the links and the consumed attempts are as before.
LEMMA ChangeKeepsInv ==
    ASSUME IdentityInv, NEW a \in Attempts, NEW row, ChangesCurrent(a, row),
           UNCHANGED <<bindings, readers>>
    PROVE  IdentityInv' /\ EndedKept
<1>1. /\ attempt' \in [Attempts -> AttemptRow]
      /\ OneAttempt'
      /\ SecretsLeave'
      /\ EndedKept
  BY ChangeKeeps DEF IdentityInv, OneAtATime, OneAttempt, EndedKept
<1>2. IdentityTypeOK'  BY <1>1 DEF IdentityInv, IdentityTypeOK
<1>3. OneAtATime'  BY <1>1 DEF IdentityInv, OneAtATime, OneAttempt, Current
<1>4. LinkIsConfirmed'
  BY <1>1 DEF IdentityInv, LinkIsConfirmed, EndedKept, Ended
<1> QED  BY <1>1, <1>2, <1>3, <1>4 DEF IdentityInv

\* A start: the new row is the LINE user's only current one.
LEMMA StartKeepsInv ==
    ASSUME IdentityInv, NEW new \in Attempts, NEW l \in LineUsers, StartAttempt(new, l)
    PROVE  IdentityInv' /\ EndedKept
<1> DEFINE fresh == [NoAttempt EXCEPT !.line = l, !.status = "pending_web", !.token = TRUE]
<1>0. IdentityTypeOK  BY DEF IdentityInv
<1>1. fresh \in AttemptRow /\ fresh.line = l /\ fresh.status = "pending_web"
  BY DEF NoAttempt, AttemptRow, Pending
<1>2. attempt' = [a \in Attempts |-> IF a = new THEN fresh ELSE AfterStart(a, l)]
  BY DEF StartAttempt
<1> HIDE DEF fresh
<1>3. ASSUME NEW a \in Attempts
      PROVE  /\ AfterStart(a, l) \in AttemptRow
             /\ AfterStart(a, l).line = attempt[a].line
             /\ AfterStart(a, l).status \in Pending =>
                    attempt[a].status \in Pending /\ attempt[a].line # l
             /\ attempt[a].status \in Ended => AfterStart(a, l) = attempt[a]
             /\ AfterStart(a, l).status \in Ended =>
                    ~AfterStart(a, l).token /\ ~AfterStart(a, l).redirect
  <2>1. attempt[a] \in AttemptRow  BY <1>0, RowOf
  <2>2. "expired" \in Ended /\ "superseded" \in Ended  BY DEF Ended
  <2>3. "expired" \notin Pending /\ "superseded" \notin Pending  BY DEF Pending
  <2>4. attempt[a].status \in Ended => ~attempt[a].token /\ ~attempt[a].redirect
    BY DEF IdentityInv, SecretsLeave
  <2>5. attempt[a].status \in Ended => ~Current(a)  BY DEF Current, Ended, Pending
  <2>6. CASE Current(a) /\ attempt[a].stale
    BY <2>2, <2>3, <2>5, <2>6, <1>0, RowOf DEF AfterStart
  <2>7. CASE ~(Current(a) /\ attempt[a].stale) /\ Current(a) /\ attempt[a].line = l
    BY <2>2, <2>3, <2>5, <2>7, <1>0, RowOf DEF AfterStart
  <2>8. CASE ~(Current(a) /\ attempt[a].stale) /\ ~(Current(a) /\ attempt[a].line = l)
    <3>1. AfterStart(a, l) = attempt[a]  BY <2>8 DEF AfterStart
    <3> QED  BY <3>1, <2>1, <2>4, <2>8 DEF Current
  <2> QED  BY <2>6, <2>7, <2>8
<1>4. attempt' \in [Attempts -> AttemptRow]  BY <1>1, <1>2, <1>3
<1>5. \A a \in Attempts : attempt'[a] = IF a = new THEN fresh ELSE AfterStart(a, l)
  BY <1>2
<1>6. attempt[new].status = "none"  BY DEF StartAttempt
<1>7. OneAttempt'
  <2> SUFFICES ASSUME NEW a \in Attempts, NEW c \in Attempts,
                      attempt'[a].status \in Pending, attempt'[c].status \in Pending,
                      attempt'[a].line = attempt'[c].line
               PROVE  a = c
    BY DEF OneAttempt, Current
  <2>1. CASE a = new /\ c # new  BY <2>1, <1>1, <1>3, <1>5
  <2>2. CASE a # new /\ c = new  BY <2>2, <1>1, <1>3, <1>5
  <2>3. CASE a # new /\ c # new
    BY <2>3, <1>3, <1>5 DEF IdentityInv, OneAtATime, Current
  <2> QED  BY <2>1, <2>2, <2>3
<1>8. SecretsLeave'
  <2>1. fresh.status \notin Ended  BY <1>1 DEF Ended
  <2> QED  BY <2>1, <1>3, <1>5 DEF SecretsLeave
<1>9. EndedKept
  <2>1. attempt[new].status \notin Ended  BY <1>6 DEF Ended
  <2> QED  BY <2>1, <1>3, <1>5 DEF EndedKept
<1>10. UNCHANGED <<bindings, readers>>  BY DEF StartAttempt
<1>11. IdentityTypeOK'  BY <1>0, <1>4, <1>10 DEF IdentityTypeOK
<1>12. OneAtATime'  BY <1>7, <1>10 DEF IdentityInv, OneAtATime, OneAttempt, Current
<1>13. LinkIsConfirmed'
  BY <1>9, <1>10 DEF IdentityInv, LinkIsConfirmed, EndedKept, Ended
<1> QED  BY <1>8, <1>9, <1>11, <1>12, <1>13 DEF IdentityInv

\* The link itself: its attempt is consumed, and it is the only row of either side.
LEMMA LinkKeepsInv ==
    ASSUME IdentityInv, NEW a \in Attempts, NEW l \in LineUsers, Link(a, l)
    PROVE  IdentityInv' /\ EndedKept
<1> DEFINE u == attempt[a].user
           s == attempt[a].site
           new == [line |-> l, user |-> u, site |-> s, active |-> TRUE]
           row == Retired(attempt[a], "consumed")
<1>0. IdentityTypeOK  BY DEF IdentityInv
<1>1. attempt[a].status \in Pending /\ attempt[a].line = l /\ <<u, s>> \in readers
  BY DEF Link, MayLink, Answered, Usable, Pending
<1>2. attempt' = [attempt EXCEPT ![a] = Retired(@, "consumed")]  BY DEF Link
<1>3. "consumed" \in Ended  BY DEF Ended
<1>4. ChangesCurrent(a, row)  BY <1>0, <1>1, <1>2, <1>3, RetireChanges
<1>5. /\ attempt' \in [Attempts -> AttemptRow]
      /\ OneAttempt'
      /\ SecretsLeave'
      /\ EndedKept
  BY <1>4, ChangeKeeps DEF IdentityInv, OneAtATime, OneAttempt, EndedKept
<1>6. u \in WebUsers /\ s \in Sites  BY <1>0, <1>1 DEF IdentityTypeOK
<1>7. /\ attempt'[a].status = "consumed" /\ attempt'[a].line = l
      /\ attempt'[a].user = u /\ attempt'[a].site = s
  <2>1. attempt'[a] = row  BY <1>0, <1>2 DEF IdentityTypeOK
  <2> HIDE DEF row
  <2> QED  BY <2>1, <1>0, <1>1, <1>3, RowOf DEF row
<1> HIDE DEF row
<1>8. bindings' = (bindings \ Rows(l, u)) \cup {new}  BY DEF Link, Upserted
<1>9. readers' = readers  BY DEF Link
<1>10. new \in Binding  BY <1>6 DEF Binding
<1>11. new.line = l /\ new.user = u /\ new.site = s  OBVIOUS
<1> HIDE DEF new, u, s
<1>12. IdentityTypeOK'  BY <1>0, <1>5, <1>8, <1>9, <1>10 DEF IdentityTypeOK
<1>13. OneRow'
  <2> SUFFICES ASSUME NEW b \in bindings', NEW c \in bindings', b.line = c.line \/ b.user = c.user
               PROVE  b = c
    BY DEF OneRow
  <2>1. \A d \in bindings' : d = new \/ (d \in bindings /\ d.line # l /\ d.user # u)
    BY <1>8 DEF Rows
  <2>2. CASE b \in bindings /\ c \in bindings
    BY <2>2 DEF IdentityInv, OneAtATime
  <2> QED  BY <2>1, <2>2, <1>11
<1>14. OneAtATime'  BY <1>5, <1>13 DEF OneAtATime, OneAttempt, OneRow, Current
<1>15. LinkIsConfirmed'
  <2> SUFFICES ASSUME NEW b \in bindings', b.active
               PROVE  \E c \in Attempts : /\ attempt'[c].status = "consumed"
                                          /\ attempt'[c].line = b.line
                                          /\ attempt'[c].user = b.user
                                          /\ attempt'[c].site = b.site
    BY DEF LinkIsConfirmed
  <2>1. CASE b = new  BY <2>1, <1>7, <1>11
  <2>2. CASE b \in bindings
    BY <2>2, <1>5 DEF IdentityInv, LinkIsConfirmed, EndedKept, Ended
  <2> QED  BY <2>1, <2>2, <1>8
<1> QED  BY <1>5, <1>12, <1>14, <1>15 DEF IdentityInv

LEMMA UnlinkKeepsInv ==
    ASSUME IdentityInv, NEW l \in LineUsers, Unlink(l)
    PROVE  IdentityInv' /\ EndedKept
<1> DEFINE Off(b) == IF b.line = l THEN [b EXCEPT !.active = FALSE] ELSE b
<1>1. bindings' = {Off(b) : b \in bindings} /\ UNCHANGED <<attempt, readers>>  BY DEF Unlink
<1>2. IdentityTypeOK  BY DEF IdentityInv
<1>3. ASSUME NEW b \in bindings
      PROVE  /\ Off(b) \in Binding
             /\ Off(b).line = b.line /\ Off(b).user = b.user /\ Off(b).site = b.site
             /\ Off(b).active => b.active
  <2>1. b \in Binding  BY <1>2 DEF IdentityTypeOK
  <2>2. Off(b) \in Binding  BY <2>1 DEF Binding
  <2>3. Off(b).line = b.line /\ Off(b).user = b.user /\ Off(b).site = b.site
    BY <2>1 DEF Binding
  <2>4. Off(b).active => b.active  BY <2>1 DEF Binding
  <2> QED  BY <2>2, <2>3, <2>4
<1> HIDE DEF Off
<1>4. bindings' \subseteq Binding  BY <1>1, <1>3
<1>5. IdentityTypeOK'  BY <1>1, <1>2, <1>4 DEF IdentityTypeOK
<1>6. OneRow'
  <2> SUFFICES ASSUME NEW b \in bindings', NEW c \in bindings', b.line = c.line \/ b.user = c.user
               PROVE  b = c
    BY DEF OneRow
  <2>1. PICK d \in bindings : b = Off(d)  BY <1>1
  <2>2. PICK f \in bindings : c = Off(f)  BY <1>1
  <2>3. d.line = f.line \/ d.user = f.user  BY <2>1, <2>2, <1>3
  <2>4. d = f  BY <2>3 DEF IdentityInv, OneAtATime
  <2> QED  BY <2>1, <2>2, <2>4
<1>7. OneAtATime'
  BY <1>1, <1>6 DEF IdentityInv, OneAtATime, OneRow, Current
<1>8. LinkIsConfirmed'
  <2> SUFFICES ASSUME NEW b \in bindings', b.active
               PROVE  \E c \in Attempts : /\ attempt[c].status = "consumed"
                                          /\ attempt[c].line = b.line
                                          /\ attempt[c].user = b.user
                                          /\ attempt[c].site = b.site
    BY <1>1 DEF LinkIsConfirmed
  <2>1. PICK d \in bindings : b = Off(d)  BY <1>1
  <2>2. d.active /\ b.line = d.line /\ b.user = d.user /\ b.site = d.site  BY <2>1, <1>3
  <2> QED  BY <2>2 DEF IdentityInv, LinkIsConfirmed
<1>9. SecretsLeave'  BY <1>1 DEF IdentityInv, SecretsLeave
<1> QED  BY <1>1, <1>5, <1>7, <1>8, <1>9 DEF IdentityInv, EndedKept

LEMMA IdentityInitInv == IdentityInit => IdentityInv
<1> SUFFICES ASSUME IdentityInit PROVE IdentityInv  OBVIOUS
<1>1. NoAttempt \in AttemptRow /\ NoAttempt.status = "none"  BY DEF NoAttempt, AttemptRow
<1>2. attempt \in [Attempts -> AttemptRow]  BY <1>1 DEF IdentityInit
<1>3. \A a \in Attempts : attempt[a].status = "none"  BY <1>1 DEF IdentityInit
<1>4. IdentityTypeOK  BY <1>2 DEF IdentityInit, IdentityTypeOK
<1>5. OneAtATime  BY <1>3 DEF IdentityInit, OneAtATime, Current, Pending
<1>6. SecretsLeave  BY <1>3 DEF SecretsLeave, Ended
<1>7. LinkIsConfirmed  BY DEF IdentityInit, LinkIsConfirmed
<1> QED  BY <1>4, <1>5, <1>6, <1>7 DEF IdentityInv

LEMMA WorldKeepsInv ==
    ASSUME IdentityInv, ChangeMembership \/ UNCHANGED idVars
    PROVE  IdentityInv' /\ EndedKept
<1>1. UNCHANGED <<attempt, bindings>>  BY DEF ChangeMembership, idVars
<1>2. readers' \subseteq WebUsers \X Sites
  BY DEF ChangeMembership, idVars, IdentityInv, IdentityTypeOK
<1>3. IdentityTypeOK'  BY <1>1, <1>2 DEF IdentityInv, IdentityTypeOK
<1>4. OneAtATime' /\ SecretsLeave' /\ LinkIsConfirmed'
  BY <1>1 DEF IdentityInv, OneAtATime, SecretsLeave, LinkIsConfirmed, Current
<1> QED  BY <1>1, <1>3, <1>4 DEF IdentityInv, EndedKept

LEMMA IdentityStep ==
    ASSUME IdentityInv, [IdentityNext]_idVars
    PROVE  IdentityInv' /\ EndedKept
<1>0. IdentityTypeOK  BY DEF IdentityInv
<1>1. ASSUME NEW a \in Attempts,
             \/ \E u \in WebUsers, s \in Sites : ConfirmSite(a, u, s)
             \/ ConsumeRedirect(a)
             \/ \E status \in Pending : ExpireAttempt(a, status)
             \/ LinkFailed(a)
             \/ \E l \in LineUsers : LinkConflict(a, l)
             \/ Age(a)
      PROVE  IdentityInv' /\ EndedKept
  <2>1. (\E row : ChangesCurrent(a, row)) /\ UNCHANGED <<bindings, readers>>
    BY <1>0, <1>1, AttemptStepChanges
  <2> QED  BY <2>1, ChangeKeepsInv
<1>2. CASE WebStep  BY <1>1, <1>2 DEF WebStep, Pending
<1>3. ASSUME NEW l \in LineUsers, NEW a \in Attempts,
             StartAttempt(a, l) \/ Link(a, l) \/ LinkConflict(a, l)
      PROVE  IdentityInv' /\ EndedKept
  BY <1>1, <1>3, StartKeepsInv, LinkKeepsInv
<1>4. ASSUME NEW l \in LineUsers, Unlink(l)
      PROVE  IdentityInv' /\ EndedKept
  BY <1>4, UnlinkKeepsInv
<1>5. ASSUME NEW a \in Attempts, LinkFailed(a) \/ ExpireAttempt(a, "pending_line") \/ Age(a)
      PROVE  IdentityInv' /\ EndedKept
  BY <1>1, <1>5 DEF Pending
<1>6. CASE ChangeMembership \/ UNCHANGED idVars  BY <1>6, WorldKeepsInv
<1> QED  BY <1>2, <1>3, <1>4, <1>5, <1>6 DEF IdentityNext

THEOREM IdentityInvariant == IdentitySpec => []IdentityInv
<1>1. IdentityInv /\ [IdentityNext]_idVars => IdentityInv'  BY IdentityStep
<1> QED  BY IdentityInitInv, <1>1, PTL DEF IdentitySpec

\* An active link was confirmed by its web user, in a flow its LINE user started.
THEOREM LinksAreConfirmed == IdentitySpec => []LinkIsConfirmed
<1>1. IdentityInv => LinkIsConfirmed  BY DEF IdentityInv
<1> QED  BY IdentityInvariant, <1>1, PTL

\* One current attempt of a LINE user, one row of a LINE user and of a web user.
THEOREM OneLinkAtATime == IdentitySpec => []OneAtATime
<1>1. IdentityInv => OneAtATime  BY DEF IdentityInv
<1> QED  BY IdentityInvariant, <1>1, PTL

\* An ended attempt keeps no token that could be used again.
THEOREM SecretsAreGone == IdentitySpec => []SecretsLeave
<1>1. IdentityInv => SecretsLeave  BY DEF IdentityInv
<1> QED  BY IdentityInvariant, <1>1, PTL

\* An ended attempt never changes again.
THEOREM EndsForGood == IdentitySpec => EndedForGood
<1>1. IdentityInv /\ [IdentityNext]_idVars
        => [\A a \in Attempts : attempt[a].status \in Ended => attempt'[a] = attempt[a]]_idVars
  BY IdentityStep DEF EndedKept
<1> QED  BY IdentityInvariant, <1>1, PTL DEF IdentitySpec, EndedForGood

\* An active link is not replaced by another flow's.
THEOREM NobodyTakenOver == IdentitySpec => NobodyIsTakenOver
<1> DEFINE Stays == \A b \in bindings : b.active =>
                        \E c \in bindings' : c.line = b.line /\ c.user = b.user
<1>1. ASSUME IdentityInv, [IdentityNext]_idVars
      PROVE  Stays
  <2> SUFFICES ASSUME NEW b \in bindings, b.active
               PROVE  \E c \in bindings' : c.line = b.line /\ c.user = b.user
    OBVIOUS
  <2>1. b \in Binding  BY <1>1 DEF IdentityInv, IdentityTypeOK
  <2>2. ASSUME NEW a \in Attempts, NEW l \in LineUsers, Link(a, l)
        PROVE  \E c \in bindings' : c.line = b.line /\ c.user = b.user
    <3> DEFINE new == [line |-> l, user |-> attempt[a].user, site |-> attempt[a].site,
                       active |-> TRUE]
    <3>1. bindings' = (bindings \ Rows(l, attempt[a].user)) \cup {new}
      BY <2>2 DEF Link, Upserted
    <3>2. new.line = l /\ new.user = attempt[a].user  OBVIOUS
    <3>3. CASE b \in Rows(l, attempt[a].user)
      BY <3>1, <3>2, <3>3, <2>2 DEF Link, Taken
    <3>4. CASE b \notin Rows(l, attempt[a].user)  BY <3>1, <3>4
    <3> QED  BY <3>3, <3>4
  <2>3. ASSUME NEW l \in LineUsers, Unlink(l)
        PROVE  \E c \in bindings' : c.line = b.line /\ c.user = b.user
    <3> DEFINE off == IF b.line = l THEN [b EXCEPT !.active = FALSE] ELSE b
    <3>1. off \in bindings'  BY <2>3 DEF Unlink
    <3>2. off.line = b.line /\ off.user = b.user  BY <2>1 DEF Binding
    <3> QED  BY <3>1, <3>2
  <2>4. CASE UNCHANGED bindings  BY <2>4
  <2> QED
    BY <1>1, <2>2, <2>3, <2>4
    DEF IdentityNext, WebStep, ConfirmSite, ExpireAttempt, ConsumeRedirect, StartAttempt,
        LinkConflict, LinkFailed, Age, ChangeMembership, idVars
<1>2. IdentityInv /\ [IdentityNext]_idVars => [Stays]_idVars  BY <1>1
<1> QED  BY IdentityInvariant, <1>2, PTL DEF IdentitySpec, NobodyIsTakenOver

-----------------------------------------------------------------------------
(* LineWebhook: what it does to the links is what LineIdentity allows.       *)

\* Each step of a thread either leaves the links alone or is one of their operations.
LEMMA HandleIsIdentity ==
    ASSUME NEW t \in Threads, thread[t].event \in Events, Handle(t)
    PROVE  [IdentityNext]_idVars
<1> DEFINE e == thread[t].event
<1>1. lineOf[e] \in LineUsers /\ aboutOf[e] \in Attempts  OBVIOUS
<1>2. CASE HandleStart(t, e)  BY <1>1, <1>2 DEF HandleStart, IdentityNext
<1>3. CASE HandleUnlink(t, e)  BY <1>1, <1>3 DEF HandleUnlink, IdentityNext
<1>4. CASE HandleLinked(t, e)  BY <1>1, <1>4 DEF HandleLinked, IdentityNext
<1>5. CASE HandleUnanswered(t, e)  BY <1>1, <1>5 DEF HandleUnanswered, IdentityNext
<1>6. CASE HandleEndedAttempt(t, e)  BY <1>1, <1>6 DEF HandleEndedAttempt, IdentityNext
<1>7. CASE HandleRaises(t, e) \/ HandleCommand(t, e) \/ HandlePostback(t, e) \/ HandleDeclines(t, e)
  BY <1>7 DEF HandleRaises, HandleCommand, HandlePostback, HandleDeclines
<1> QED  BY <1>2, <1>3, <1>4, <1>5, <1>6, <1>7 DEF Handle

Ev(t) == thread[t].event
Status(e) == record[e].status

\* The insert of an event's row is held by the thread that handles it, and only while
\* there is no committed row; whoever goes on without holding it found or wrote a row.
ServesEvents == \A t \in Threads : ~At(t, "idle") => Ev(t) \in Events
HeldIsNew ==
    \A e \in Events, t \in Threads : holder[e] = t =>
        Ev(t) = e /\ thread[t].at \in {"handle", "apply", "mark"} /\ Status(e) = "none"
HandlingHolds == \A t \in Threads : thread[t].at \in {"handle", "apply"} => holder[Ev(t)] = t
ApplyIsPostback == \A t \in Threads : At(t, "apply") => kindOf[Ev(t)] \notin Durable
MarkIsEarned ==
    \A t \in Threads : At(t, "mark") /\ holder[Ev(t)] # t =>
        Status(Ev(t)) # "none" /\ (kindOf[Ev(t)] \in Durable => Ev(t) \in replied)
OwingHasRow == \A t \in Threads : thread[t].at \in {"reply", "retry", "terminate"} => Status(Ev(t)) # "none"
OwedIsReceived == \A e \in Events : record[e].reply => Status(e) = "received"
AppliedHasRow == \A e \in Events : applied[e] \in {0, 1} /\ (Status(e) = "none" => applied[e] = 0)

HookInv ==
    /\ HookTypeOK
    /\ ServesEvents /\ HeldIsNew /\ HandlingHolds /\ ApplyIsPostback
    /\ MarkIsEarned /\ OwingHasRow /\ OwedIsReceived /\ AppliedHasRow
    /\ NothingOwedAfterTheLast /\ ProcessedIsReplied

\* What a step of thread t with event e may do: it moves on, or leaves; it may write
\* the row, the lock and the count of its own event, and nobody else's.
StepOf(t, e) ==
    /\ \A o \in Threads : o # t => thread'[o] = thread[o]
    /\ \A d \in Events : d # e =>
          /\ record'[d] = record[d] /\ holder'[d] = holder[d] /\ applied'[d] = applied[d]
          /\ d \in acked' <=> d \in acked
    /\ replied \subseteq replied'
    /\ kindOf' = kindOf
    /\ thread'[t].at # "idle" => thread'[t].event = e

\* The lock is free or its own, or it leaves the event as it is.
OwnLock(t, e) ==
    \/ holder[e] \in {t, NoThread} /\ holder'[e] \in {t, NoThread}
    \/ record'[e] = record[e] /\ holder'[e] = holder[e] /\ applied'[e] = applied[e] /\ e \notin acked'

\* Where it goes, and what it leaves behind.
Leaves(t, e) ==
    LET place == thread'[t].at  row == record'[e] IN
    /\ holder'[e] = t => place \in {"handle", "apply", "mark"} /\ row.status = "none"
    /\ place \in {"handle", "apply"} => holder'[e] = t
    /\ place = "apply" => kindOf[e] \notin Durable
    /\ place = "mark" /\ holder'[e] # t =>
          row.status # "none" /\ (kindOf[e] \in Durable => e \in replied')
    /\ place \in {"reply", "retry", "terminate"} => row.status # "none"
    /\ row.reply => row.status = "received"
    /\ row.status = "none" => record[e].status = "none" /\ applied'[e] = 0
    /\ applied'[e] \in {0, 1}
    /\ e \in acked' => row.status # "none" /\ ~row.reply
    /\ row.status = "processed" /\ kindOf[e] \in Durable /\ applied'[e] > 0 => e \in replied'

LEMMA StepKeeps ==
    ASSUME HookInv, HookTypeOK', NEW t \in Threads, NEW e \in Events,
           \A d \in Events : holder[d] = t => d = e,
           StepOf(t, e), OwnLock(t, e), Leaves(t, e)
    PROVE  HookInv'
<1>0. NoThread # t  BY DEF WebhookAssumption
<1>1. \A o \in Threads : o # t => thread'[o] = thread[o]  BY DEF StepOf
<1>2. \A d \in Events : d # e =>
          /\ record'[d] = record[d] /\ holder'[d] = holder[d] /\ applied'[d] = applied[d]
          /\ d \in acked' <=> d \in acked
  BY DEF StepOf
<1>3. kindOf' = kindOf /\ replied \subseteq replied'  BY DEF StepOf
<1>4. thread'[t].at # "idle" => thread'[t].event = e  BY DEF StepOf
<1>5. \A o \in Threads : o # t /\ holder'[e] = o =>
          holder[e] = o /\ record'[e] = record[e] /\ applied'[e] = applied[e]
  BY <1>0, WebhookAssumption DEF OwnLock
<1>6. record'[e].status = "none" => record[e].status = "none"  BY DEF Leaves
<1>7. \A o \in Threads : o # t /\ holder[e] = o => holder'[e] = o
  BY WebhookAssumption DEF OwnLock
<1>8. ServesEvents'
  BY <1>1, <1>4 DEF HookInv, ServesEvents, At, Ev
<1>9. HeldIsNew'
  <2> SUFFICES ASSUME NEW d \in Events, NEW o \in Threads, holder'[d] = o
               PROVE  /\ thread'[o].event = d
                      /\ thread'[o].at \in {"handle", "apply", "mark"}
                      /\ record'[d].status = "none"
    BY DEF HeldIsNew, Ev, Status
  <2>1. CASE d = e /\ o = t  BY <2>1, <1>4 DEF Leaves
  <2>2. CASE d = e /\ o # t
    BY <2>2, <1>1, <1>5 DEF HookInv, HeldIsNew, Ev, Status
  <2>3. CASE d # e
    <3>1. holder[d] = o /\ o # t  BY <2>3, <1>2
    <3> QED  BY <3>1, <2>3, <1>1, <1>2 DEF HookInv, HeldIsNew, Ev, Status
  <2> QED  BY <2>1, <2>2, <2>3
<1>10. HandlingHolds'
  <2> SUFFICES ASSUME NEW o \in Threads, thread'[o].at \in {"handle", "apply"}
               PROVE  holder'[thread'[o].event] = o
    BY DEF HandlingHolds, Ev
  <2>1. CASE o = t  BY <2>1, <1>4 DEF Leaves
  <2>2. CASE o # t
    <3>1. thread'[o] = thread[o] /\ thread[o].event \in Events
      BY <2>2, <1>1 DEF HookInv, ServesEvents, At, Ev
    <3>2. holder[thread[o].event] = o
      BY <3>1 DEF HookInv, HandlingHolds, Ev
    <3> QED  BY <3>1, <3>2, <2>2, <1>2, <1>7
  <2> QED  BY <2>1, <2>2
<1>11. ApplyIsPostback'
  <2> SUFFICES ASSUME NEW o \in Threads, thread'[o].at = "apply"
               PROVE  kindOf[thread'[o].event] \notin Durable
    BY <1>3 DEF ApplyIsPostback, Ev, At
  <2>1. CASE o = t  BY <2>1, <1>4 DEF Leaves
  <2>2. CASE o # t  BY <2>2, <1>1 DEF HookInv, ApplyIsPostback, Ev, At
  <2> QED  BY <2>1, <2>2
<1>12. MarkIsEarned'
  <2> SUFFICES ASSUME NEW o \in Threads, thread'[o].at = "mark", holder'[thread'[o].event] # o
               PROVE  /\ record'[thread'[o].event].status # "none"
                      /\ kindOf[thread'[o].event] \in Durable => thread'[o].event \in replied'
    BY <1>3 DEF MarkIsEarned, Ev, At, Status
  <2>1. CASE o = t  BY <2>1, <1>4 DEF Leaves
  <2>2. CASE o # t
    <3>1. thread'[o] = thread[o] /\ thread[o].event \in Events
      BY <2>2, <1>1 DEF HookInv, ServesEvents, At, Ev
    <3>2. holder[thread[o].event] # o  BY <3>1, <2>2, <1>2, <1>7
    <3>3. /\ record[thread[o].event].status # "none"
          /\ kindOf[thread[o].event] \in Durable => thread[o].event \in replied
      BY <3>1, <3>2 DEF HookInv, MarkIsEarned, Ev, At, Status
    <3> QED  BY <3>1, <3>3, <1>2, <1>3, <1>6
  <2> QED  BY <2>1, <2>2
<1>13. OwingHasRow'
  <2> SUFFICES ASSUME NEW o \in Threads, thread'[o].at \in {"reply", "retry", "terminate"}
               PROVE  record'[thread'[o].event].status # "none"
    BY DEF OwingHasRow, Ev, Status
  <2>1. CASE o = t  BY <2>1, <1>4 DEF Leaves
  <2>2. CASE o # t
    <3>1. thread'[o] = thread[o] /\ thread[o].event \in Events
      BY <2>2, <1>1 DEF HookInv, ServesEvents, At, Ev
    <3>2. record[thread[o].event].status # "none"
      BY <3>1 DEF HookInv, OwingHasRow, Ev, Status
    <3> QED  BY <3>1, <3>2, <1>2, <1>6
  <2> QED  BY <2>1, <2>2
<1>14. AppliedHasRow'
  BY <1>2 DEF HookInv, AppliedHasRow, Status, Leaves
<1>15. NothingOwedAfterTheLast'
  <2> SUFFICES ASSUME NEW d \in acked'
               PROVE  record'[d].status # "none" /\ ~record'[d].reply
    BY DEF NothingOwedAfterTheLast
  <2>1. d \in Events  BY DEF HookTypeOK
  <2> QED  BY <2>1, <1>2 DEF HookInv, NothingOwedAfterTheLast, Leaves
<1>16. ProcessedIsReplied'
  BY <1>2, <1>3 DEF HookInv, ProcessedIsReplied, Leaves
<1>17. OwedIsReceived'
  BY <1>2 DEF HookInv, OwedIsReceived, Leaves, Status
<1> QED
  BY <1>8, <1>9, <1>10, <1>11, <1>12, <1>13, <1>14, <1>15, <1>16, <1>17 DEF HookInv

\* A thread on the way serves an event, and holds no lock but that event's.
LEMMA OnTheWay ==
    ASSUME HookInv, NEW t \in Threads, thread[t].at # "idle"
    PROVE  /\ Ev(t) \in Events
           /\ \A d \in Events : holder[d] = t => d = Ev(t)
           /\ thread[t].at \in {"handle", "apply"} =>
                /\ holder[Ev(t)] = t /\ Status(Ev(t)) = "none"
                /\ applied[Ev(t)] = 0 /\ Ev(t) \notin acked
BY DEF HookInv, ServesEvents, HeldIsNew, HandlingHolds, AppliedHasRow, NothingOwedAfterTheLast,
       At, Ev, Status

LEMMA Moves ==
    ASSUME HookTypeOK, NEW t \in Threads, NEW place \in Places, Goto(t, place)
    PROVE  /\ thread' \in [Threads -> [at : Places, event : Events \cup {NoEvent}]]
           /\ \A o \in Threads : o # t => thread'[o] = thread[o]
           /\ thread'[t].at = place /\ thread'[t].event = Ev(t)
<1>1. thread \in [Threads -> [at : Places, event : Events \cup {NoEvent}]]  BY DEF HookTypeOK
<1>2. thread' = [thread EXCEPT ![t] = [thread[t] EXCEPT !.at = place]]  BY <1>1 DEF Goto
<1>3. [thread[t] EXCEPT !.at = place] \in [at : Places, event : Events \cup {NoEvent}]  BY <1>1
<1>4. thread'[t] = [thread[t] EXCEPT !.at = place]  BY <1>1, <1>2
<1>5. thread'[t].at = place /\ thread'[t].event = Ev(t)  BY <1>1, <1>4 DEF Ev
<1> QED  BY <1>1, <1>2, <1>3, <1>5

LEMMA Returns ==
    ASSUME HookTypeOK, NEW t \in Threads, Return(t)
    PROVE  /\ thread' \in [Threads -> [at : Places, event : Events \cup {NoEvent}]]
           /\ \A o \in Threads : o # t => thread'[o] = thread[o]
           /\ thread'[t].at = "idle"
BY DEF HookTypeOK, Return, Idle, Places

\* The row is written, or left.
LEMMA Writes ==
    ASSUME HookTypeOK, NEW e \in Events, NEW status \in {"received", "processed", "failed"},
           NEW reply \in BOOLEAN, Write(e, status, reply)
    PROVE  /\ record' \in [Events -> Row]
           /\ \A d \in Events : d # e => record'[d] = record[d]
           /\ record'[e].status = status /\ record'[e].reply = reply
<1>1. [status |-> status, reply |-> reply] \in Row  BY DEF Row
<1>2. record'[e] = [status |-> status, reply |-> reply]  BY DEF Write, HookTypeOK
<1> QED  BY <1>1, <1>2 DEF Write, HookTypeOK

LEMMA Releases ==
    ASSUME HookTypeOK, NEW e \in Events, Release(e)
    PROVE  /\ holder' \in [Events -> Threads \cup {NoThread}]
           /\ \A d \in Events : d # e => holder'[d] = holder[d]
           /\ holder'[e] = NoThread
BY DEF HookTypeOK, Release

LEMMA Applies ==
    ASSUME HookTypeOK, NEW e \in Events, Apply(e)
    PROVE  /\ applied' \in [Events -> Nat]
           /\ \A d \in Events : d # e => applied'[d] = applied[d]
           /\ applied'[e] = applied[e] + 1
BY DEF HookTypeOK, Apply

LEMMA Answers ==
    ASSUME HookTypeOK, NEW e \in Events, Answer(e)
    PROVE  /\ acked' \subseteq Events /\ faults' \in 0..MaxFaults
           /\ \A d \in Events : d # e => (d \in acked' <=> d \in acked)
BY WebhookAssumption DEF HookTypeOK, Answer, Fault

LEMMA FaultCounted ==
    ASSUME HookTypeOK, Fault
    PROVE  faults' \in 0..MaxFaults
BY WebhookAssumption DEF HookTypeOK, Fault

LEMMA RepliesIfPossible ==
    ASSUME HookTypeOK, NEW e \in Events, ReplyIfPossible(e)
    PROVE  replied' \subseteq Events /\ replied \subseteq replied'
BY DEF HookTypeOK, ReplyIfPossible

LEMMA PlaceIn == {"claim", "handle", "reply", "retry", "mark", "apply", "terminate", "fail"} \subseteq Places
BY DEF Places

LEMMA DeliverKeeps ==
    ASSUME HookInv, NEW t \in Threads, NEW e \in Events, Deliver(t, e), UNCHANGED kindOf
    PROVE  HookInv'
<1>1. \A d \in Events : holder[d] # t  BY DEF HookInv, HeldIsNew, Deliver, At, Ev
<1>2. thread'[t] = [at |-> "claim", event |-> e]  BY DEF Deliver, HookInv, HookTypeOK
<1>3. HookTypeOK'  BY DEF Deliver, HookInv, HookTypeOK, Places
<1>4. StepOf(t, e)  BY <1>2 DEF StepOf, Deliver, HookInv, HookTypeOK
<1>5. OwnLock(t, e)  BY DEF OwnLock, Deliver
<1>6. Leaves(t, e)
  BY <1>1, <1>2
  DEF Leaves, Deliver, HookInv, AppliedHasRow, NothingOwedAfterTheLast, ProcessedIsReplied,
      OwedIsReceived, Status
<1> QED  BY <1>1, <1>3, <1>4, <1>5, <1>6, StepKeeps

\* What the invariant says of one event, and what it asks again after the step.
LEMMA RowFacts ==
    ASSUME HookInv, NEW e \in Events
    PROVE  /\ record[e].status \in {"none", "received", "processed", "failed"}
           /\ record[e].reply \in BOOLEAN
           /\ record[e].reply => record[e].status = "received"
           /\ record[e].status = "none" => applied[e] = 0
           /\ applied[e] \in {0, 1}
           /\ e \in acked => record[e].status # "none" /\ ~record[e].reply
           /\ record[e].status = "processed" /\ kindOf[e] \in Durable /\ applied[e] > 0 => e \in replied
BY DEF HookInv, HookTypeOK, Row, OwedIsReceived, AppliedHasRow, NothingOwedAfterTheLast,
       ProcessedIsReplied, Status

LEMMA ClaimKeeps ==
    ASSUME HookInv, NEW t \in Threads, Claim(t), UNCHANGED kindOf
    PROVE  HookInv'
<1> DEFINE e == Ev(t)
<1>0. HookTypeOK  BY DEF HookInv
<1>1. /\ e \in Events /\ \A d \in Events : holder[d] = t => d = e
      /\ holder[e] = NoThread
      /\ UNCHANGED <<record, applied, replied>>
  BY OnTheWay DEF Claim, At, Ev
<1>2. CASE ClaimFresh(t, e)
  <2>1. Goto(t, "handle") /\ UNCHANGED <<acked, faults>> /\ holder' = [holder EXCEPT ![e] = t]
    BY <1>2 DEF ClaimFresh
  <2>2. HookTypeOK'
    BY <1>0, <1>1, <2>1, PlaceIn, Moves DEF HookTypeOK
  <2>3. StepOf(t, e)
    BY <1>0, <1>1, <2>1, PlaceIn, Moves DEF StepOf, HookTypeOK
  <2>4. OwnLock(t, e)  BY <1>0, <1>1, <2>1 DEF OwnLock, HookTypeOK
  <2>5. Leaves(t, e)
    BY <1>0, <1>1, <1>2, <2>1, PlaceIn, Moves, RowFacts DEF Leaves, ClaimFresh, HookTypeOK
  <2> QED  BY <1>1, <2>2, <2>3, <2>4, <2>5, StepKeeps
<1>3. CASE ClaimRetry(t, e)
  <2>1. Goto(t, "retry") /\ UNCHANGED <<holder, acked, faults>>  BY <1>3 DEF ClaimRetry
  <2>2. HookTypeOK'  BY <1>0, <1>1, <2>1, PlaceIn, Moves DEF HookTypeOK
  <2>3. StepOf(t, e)  BY <1>0, <1>1, <2>1, PlaceIn, Moves DEF StepOf
  <2>4. OwnLock(t, e)  BY <1>1, <2>1 DEF OwnLock
  <2>5. Leaves(t, e)
    BY <1>0, <1>1, <1>3, <2>1, PlaceIn, Moves, RowFacts, WebhookAssumption
    DEF Leaves, ClaimRetry, ReplyPending
  <2> QED  BY <1>1, <2>2, <2>3, <2>4, <2>5, StepKeeps
<1>4. CASE ClaimSkips(t, e)
  <2>1. /\ Return(t) /\ Answer(e) /\ UNCHANGED holder
        /\ record[e].status # "none" /\ ~record[e].reply
    BY <1>1, <1>4, RowFacts DEF ClaimSkips, ReplyPending
  <2>2. HookTypeOK'  BY <1>0, <1>1, <2>1, Returns, Answers DEF HookTypeOK
  <2>3. StepOf(t, e)  BY <1>0, <1>1, <2>1, Returns, Answers DEF StepOf
  <2>4. OwnLock(t, e)  BY <1>1, <2>1 DEF OwnLock
  <2>5. Leaves(t, e)
    BY <1>0, <1>1, <2>1, Returns, RowFacts, WebhookAssumption DEF Leaves
  <2> QED  BY <1>1, <2>2, <2>3, <2>4, <2>5, StepKeeps
<1> QED  BY <1>2, <1>3, <1>4 DEF Claim, Ev

\* The commit of an effect, a rollback and an answer without effect all start from the
\* thread's own lock and an event nothing was committed for.
LEMMA HandleKeeps ==
    ASSUME HookInv, NEW t \in Threads, Handle(t), UNCHANGED kindOf
    PROVE  HookInv'
<1> DEFINE e == Ev(t)
<1>0. HookTypeOK  BY DEF HookInv
<1>1. /\ e \in Events /\ \A d \in Events : holder[d] = t => d = e
      /\ holder[e] = t /\ record[e].status = "none" /\ applied[e] = 0 /\ e \notin acked
      /\ UNCHANGED <<acked, faults>>
  BY OnTheWay DEF Handle, At, Status, Ev
<1>2. NoThread # t  BY WebhookAssumption
<1>3. OwnLock(t, e)
  <2>1. holder'[e] = NoThread \/ holder' = holder
    BY <1>0, <1>1, Releases
    DEF Handle, HandleStart, HandleUnlink, HandleLinked, HandleUnanswered, HandleEndedAttempt,
        HandleRaises, HandleCommand, HandlePostback, HandleDeclines, CommitOwing, Ev
  <2> QED  BY <1>1, <2>1 DEF OwnLock
<1>4. CASE CommitOwing(t, e)
  <2>1. /\ Write(e, "received", TRUE) /\ Apply(e) /\ Release(e) /\ Goto(t, "reply")
        /\ UNCHANGED replied
    BY <1>4 DEF CommitOwing
  <2>a. /\ thread' \in [Threads -> [at : Places, event : Events \cup {NoEvent}]]
        /\ \A o \in Threads : o # t => thread'[o] = thread[o]
        /\ thread'[t].at = "reply" /\ thread'[t].event = e
    BY <1>0, <2>1, PlaceIn, Moves
  <2>b. /\ record' \in [Events -> Row]
        /\ \A d \in Events : d # e => record'[d] = record[d]
        /\ record'[e].status = "received" /\ record'[e].reply = TRUE
    BY <1>0, <1>1, <2>1, Writes
  <2>c. /\ applied' \in [Events -> Nat]
        /\ \A d \in Events : d # e => applied'[d] = applied[d]
        /\ applied'[e] = 1
    BY <1>0, <1>1, <2>1, Applies
  <2>d. /\ holder' \in [Events -> Threads \cup {NoThread}]
        /\ \A d \in Events : d # e => holder'[d] = holder[d]
        /\ holder'[e] = NoThread
    BY <1>0, <1>1, <2>1, Releases
  <2>2. HookTypeOK'  BY <1>0, <1>1, <2>1, <2>a, <2>b, <2>c, <2>d DEF HookTypeOK
  <2>3. StepOf(t, e)  BY <1>1, <2>1, <2>a, <2>b, <2>c, <2>d DEF StepOf
  <2>4. Leaves(t, e)  BY <1>1, <1>2, <2>a, <2>b, <2>c, <2>d DEF Leaves
  <2> QED  BY <1>1, <1>3, <2>2, <2>3, <2>4, StepKeeps
<1>5. ASSUME NEW place \in {"mark", "fail"}, Goto(t, place),
             Write(e, "received", FALSE), Apply(e), Release(e),
             ReplyIfPossible(e), kindOf[e] \notin Durable
      PROVE  HookInv'
  <2>a. /\ thread' \in [Threads -> [at : Places, event : Events \cup {NoEvent}]]
        /\ \A o \in Threads : o # t => thread'[o] = thread[o]
        /\ thread'[t].at = place /\ thread'[t].event = e
    BY <1>0, <1>5, PlaceIn, Moves
  <2>b. /\ record' \in [Events -> Row]
        /\ \A d \in Events : d # e => record'[d] = record[d]
        /\ record'[e].status = "received" /\ record'[e].reply = FALSE
    BY <1>0, <1>1, <1>5, Writes
  <2>c. /\ applied' \in [Events -> Nat]
        /\ \A d \in Events : d # e => applied'[d] = applied[d]
        /\ applied'[e] = 1
    BY <1>0, <1>1, <1>5, Applies
  <2>d. /\ holder' \in [Events -> Threads \cup {NoThread}]
        /\ \A d \in Events : d # e => holder'[d] = holder[d]
        /\ holder'[e] = NoThread
    BY <1>0, <1>1, <1>5, Releases
  <2>e. replied' \subseteq Events /\ replied \subseteq replied'
    BY <1>0, <1>1, <1>5, RepliesIfPossible
  <2>2. HookTypeOK'  BY <1>0, <1>1, <2>a, <2>b, <2>c, <2>d, <2>e DEF HookTypeOK
  <2>3. StepOf(t, e)  BY <1>1, <2>a, <2>b, <2>c, <2>d, <2>e DEF StepOf
  <2>4. Leaves(t, e)  BY <1>1, <1>2, <1>5, <2>a, <2>b, <2>c, <2>d DEF Leaves
  <2> QED  BY <1>1, <1>3, <2>2, <2>3, <2>4, StepKeeps
<1>6. CASE HandleEndedAttempt(t, e)
  <2>1. /\ Write(e, "received", FALSE) /\ Release(e) /\ Goto(t, "fail")
        /\ UNCHANGED <<applied, replied>>
    BY <1>6 DEF HandleEndedAttempt
  <2>a. /\ thread' \in [Threads -> [at : Places, event : Events \cup {NoEvent}]]
        /\ \A o \in Threads : o # t => thread'[o] = thread[o]
        /\ thread'[t].at = "fail" /\ thread'[t].event = e
    BY <1>0, <2>1, PlaceIn, Moves
  <2>b. /\ record' \in [Events -> Row]
        /\ \A d \in Events : d # e => record'[d] = record[d]
        /\ record'[e].status = "received" /\ record'[e].reply = FALSE
    BY <1>0, <1>1, <2>1, Writes
  <2>d. /\ holder' \in [Events -> Threads \cup {NoThread}]
        /\ \A d \in Events : d # e => holder'[d] = holder[d]
        /\ holder'[e] = NoThread
    BY <1>0, <1>1, <2>1, Releases
  <2>2. HookTypeOK'  BY <1>0, <1>1, <2>1, <2>a, <2>b, <2>d DEF HookTypeOK
  <2>3. StepOf(t, e)  BY <1>1, <2>1, <2>a, <2>b, <2>d DEF StepOf
  <2>4. Leaves(t, e)  BY <1>1, <1>2, <2>1, <2>a, <2>b, <2>d DEF Leaves
  <2> QED  BY <1>1, <1>3, <2>2, <2>3, <2>4, StepKeeps
<1>7. CASE HandleRaises(t, e)
  <2>1. Release(e) /\ Goto(t, "fail") /\ UNCHANGED <<record, applied, replied>>
    BY <1>7 DEF HandleRaises
  <2>2. HookTypeOK'  BY <1>0, <1>1, <2>1, PlaceIn, Moves, Releases DEF HookTypeOK
  <2>3. StepOf(t, e)  BY <1>0, <1>1, <2>1, PlaceIn, Moves, Releases DEF StepOf
  <2>4. Leaves(t, e)
    BY <1>0, <1>1, <1>2, <2>1, PlaceIn, Moves, Releases, RowFacts DEF Leaves
  <2> QED  BY <1>1, <1>3, <2>2, <2>3, <2>4, StepKeeps
<1>8. ASSUME NEW place \in {"apply", "mark"}, Goto(t, place), ReplyIfPossible(e),
             UNCHANGED <<record, holder, applied>>, place = "apply" => kindOf[e] \notin Durable
      PROVE  HookInv'
  <2>1. place \in Places  BY DEF Places
  <2>2. HookTypeOK'  BY <1>0, <1>1, <1>8, <2>1, Moves, RepliesIfPossible DEF HookTypeOK
  <2>3. StepOf(t, e)  BY <1>0, <1>1, <1>8, <2>1, Moves, RepliesIfPossible DEF StepOf
  <2>4. Leaves(t, e)  BY <1>0, <1>1, <1>8, <2>1, Moves, RowFacts DEF Leaves
  <2> QED  BY <1>1, <1>3, <2>2, <2>3, <2>4, StepKeeps
<1>9. CASE HandleStart(t, e) \/ HandleUnlink(t, e) \/ HandleLinked(t, e)
  BY <1>4, <1>9 DEF HandleStart, HandleUnlink, HandleLinked
<1>10. CASE HandleUnanswered(t, e)
  BY <1>5, <1>10 DEF HandleUnanswered, Durable, ReplyIfPossible
<1>11. CASE HandleCommand(t, e)  BY <1>5, <1>11 DEF HandleCommand, Durable
<1>12. CASE HandlePostback(t, e)  BY <1>8, <1>12 DEF HandlePostback, Durable
<1>13. CASE HandleDeclines(t, e)  BY <1>8, <1>13 DEF HandleDeclines
<1> QED
  BY <1>6, <1>7, <1>9, <1>10, <1>11, <1>12, <1>13 DEF Handle, Ev

LEMMA ReplyKeeps ==
    ASSUME HookInv, NEW t \in Threads, Reply(t), UNCHANGED kindOf
    PROVE  HookInv'
<1> DEFINE e == Ev(t)
<1>0. HookTypeOK  BY DEF HookInv
<1>1. /\ e \in Events /\ \A d \in Events : holder[d] = t => d = e
      /\ record[e].status # "none"
      /\ UNCHANGED <<record, holder, applied>>
  BY OnTheWay DEF Reply, Replying, HookInv, OwingHasRow, Status, Ev
<1>2. /\ replied \subseteq replied' /\ replied' \subseteq Events
      /\ acked' = acked /\ faults' \in 0..MaxFaults
  BY <1>0, <1>1, RepliesIfPossible, WebhookAssumption
  DEF Reply, ReplyAccepted, ReplyLost, ReplyRefused, Fault, HookTypeOK, Ev
<1>3. holder[e] = NoThread
  BY <1>0, <1>1 DEF HookInv, HookTypeOK, HeldIsNew, Status
<1>4. \A o \in Threads : o # t => thread'[o] = thread[o]
  BY <1>0, PlaceIn, Moves, Returns DEF Reply, ReplyAccepted, ReplyLost, ReplyRefused
<1>5. thread' \in [Threads -> [at : Places, event : Events \cup {NoEvent}]]
  BY <1>0, PlaceIn, Moves, Returns DEF Reply, ReplyAccepted, ReplyLost, ReplyRefused
<1>6. \/ thread'[t].at = "mark" /\ thread'[t].event = e /\ e \in replied'
      \/ thread'[t].at = "idle"
      \/ thread'[t].at = "terminate" /\ thread'[t].event = e
  BY <1>0, PlaceIn, Moves, Returns DEF Reply, ReplyAccepted, ReplyLost, ReplyRefused, Ev
<1>7. HookTypeOK'  BY <1>0, <1>1, <1>2, <1>5 DEF HookTypeOK
<1>8. StepOf(t, e)  BY <1>1, <1>2, <1>4, <1>6 DEF StepOf
<1>9. OwnLock(t, e)  BY <1>1, <1>3 DEF OwnLock
<1>10. Leaves(t, e)  BY <1>1, <1>2, <1>3, <1>6, RowFacts, WebhookAssumption DEF Leaves
<1> QED  BY <1>1, <1>7, <1>8, <1>9, <1>10, StepKeeps

\* What a thread held is free again, and nobody else's lock is touched.
LEMMA RollsBack ==
    ASSUME HookInv, NEW t \in Threads, thread[t].at # "idle", RolledBack(t)
    PROVE  /\ holder' \in [Events -> Threads \cup {NoThread}]
           /\ \A d \in Events : d # Ev(t) => holder'[d] = holder[d]
           /\ holder'[Ev(t)] = IF holder[Ev(t)] = t THEN NoThread ELSE holder[Ev(t)]
           /\ holder[Ev(t)] \notin {t, NoThread} => Ev(t) \notin acked
<1>1. Ev(t) \in Events /\ \A d \in Events : holder[d] = t => d = Ev(t)  BY OnTheWay
<1>2. holder[Ev(t)] \notin {t, NoThread} => Ev(t) \notin acked
  BY <1>1 DEF HookInv, HookTypeOK, HeldIsNew, NothingOwedAfterTheLast, Status
<1> QED  BY <1>1, <1>2 DEF RolledBack, HookInv, HookTypeOK

LEMMA RaisesKeeps ==
    ASSUME HookInv, NEW t \in Threads, Raises(t), UNCHANGED kindOf
    PROVE  HookInv'
<1> DEFINE e == Ev(t)
<1>0. HookTypeOK  BY DEF HookInv
<1>1. thread[t].at # "idle" /\ RolledBack(t)  BY DEF Raises
<1>2. e \in Events /\ \A d \in Events : holder[d] = t => d = e  BY <1>1, OnTheWay
<1>3. /\ Goto(t, "fail") /\ faults' \in 0..MaxFaults
      /\ UNCHANGED <<record, applied, replied, acked>>
  BY <1>0, FaultCounted DEF Raises
<1>4. /\ holder' \in [Events -> Threads \cup {NoThread}]
      /\ \A d \in Events : d # e => holder'[d] = holder[d]
      /\ holder'[e] = IF holder[e] = t THEN NoThread ELSE holder[e]
      /\ holder[e] \notin {t, NoThread} => e \notin acked
  BY <1>1, RollsBack
<1>5. /\ thread' \in [Threads -> [at : Places, event : Events \cup {NoEvent}]]
      /\ \A o \in Threads : o # t => thread'[o] = thread[o]
      /\ thread'[t].at = "fail" /\ thread'[t].event = e
  BY <1>0, <1>3, PlaceIn, Moves
<1>6. HookTypeOK'  BY <1>0, <1>3, <1>4, <1>5 DEF HookTypeOK
<1>7. StepOf(t, e)  BY <1>3, <1>4, <1>5 DEF StepOf
<1>8. OwnLock(t, e)  BY <1>3, <1>4 DEF OwnLock
<1>9. Leaves(t, e)  BY <1>2, <1>3, <1>4, <1>5, RowFacts, WebhookAssumption DEF Leaves
<1> QED  BY <1>2, <1>6, <1>7, <1>8, <1>9, StepKeeps

\* The row is ended: by the thread that holds its lock, or when nobody does.
LEMMA EndKeeps ==
    ASSUME HookInv, NEW t \in Threads, thread[t].at # "idle", UNCHANGED kindOf,
           NEW status \in {"processed", "failed"}, Write(Ev(t), status, FALSE),
           holder[Ev(t)] \in {t, NoThread}, holder'[Ev(t)] = NoThread,
           holder' \in [Events -> Threads \cup {NoThread}],
           \A d \in Events : d # Ev(t) => holder'[d] = holder[d],
           applied' \in [Events -> Nat], applied'[Ev(t)] \in {0, 1},
           \A d \in Events : d # Ev(t) => applied'[d] = applied[d],
           replied \subseteq replied', replied' \subseteq Events,
           status = "processed" /\ kindOf[Ev(t)] \in Durable /\ applied'[Ev(t)] > 0
               => Ev(t) \in replied',
           Answer(Ev(t)), Return(t)
    PROVE  HookInv'
<1> DEFINE e == Ev(t)
<1>0. HookTypeOK  BY DEF HookInv
<1>1. e \in Events /\ \A d \in Events : holder[d] = t => d = e  BY OnTheWay
<1>2. /\ record' \in [Events -> Row]
      /\ \A d \in Events : d # e => record'[d] = record[d]
      /\ record'[e].status = status /\ record'[e].reply = FALSE
  BY <1>0, <1>1, Writes
<1>3. /\ acked' \subseteq Events /\ faults' \in 0..MaxFaults
      /\ \A d \in Events : d # e => (d \in acked' <=> d \in acked)
  BY <1>0, <1>1, Answers
<1>4. /\ thread' \in [Threads -> [at : Places, event : Events \cup {NoEvent}]]
      /\ \A o \in Threads : o # t => thread'[o] = thread[o]
      /\ thread'[t].at = "idle"
  BY <1>0, Returns
<1>5. HookTypeOK'  BY <1>0, <1>2, <1>3, <1>4 DEF HookTypeOK
<1>6. StepOf(t, e)  BY <1>2, <1>3, <1>4 DEF StepOf
<1>7. OwnLock(t, e)  BY DEF OwnLock
<1>8. Leaves(t, e)  BY <1>2, <1>4, WebhookAssumption DEF Leaves
<1> QED  BY <1>1, <1>5, <1>6, <1>7, <1>8, StepKeeps

LEMMA MarkKeeps ==
    ASSUME HookInv, NEW t \in Threads, Mark(t), UNCHANGED kindOf
    PROVE  HookInv'
<1> DEFINE e == Ev(t)
<1>0. HookTypeOK  BY DEF HookInv
<1>1. thread[t].at \in {"mark", "apply"} /\ thread[t].at # "idle"  BY DEF Mark
<1>2. e \in Events  BY <1>1, OnTheWay
<1>3. /\ Write(e, "processed", FALSE) /\ Answer(e) /\ Return(t) /\ UNCHANGED replied /\ Release(e)
  BY DEF Mark, Ev
<1>4. /\ holder' \in [Events -> Threads \cup {NoThread}]
      /\ \A d \in Events : d # e => holder'[d] = holder[d]
      /\ holder'[e] = NoThread
  BY <1>0, <1>2, <1>3, Releases
<1>5. holder[e] \in {t, NoThread}
  <2>1. CASE thread[t].at = "apply"  BY <2>1, OnTheWay
  <2>2. CASE thread[t].at = "mark" /\ holder[e] # t
    <3>1. record[e].status # "none"
      BY <2>2 DEF HookInv, MarkIsEarned, At, Ev, Status
    <3> QED  BY <3>1, <1>0, <1>2 DEF HookInv, HookTypeOK, HeldIsNew, Status
  <2> QED  BY <1>1, <2>1, <2>2
<1>6. /\ applied' \in [Events -> Nat] /\ applied'[e] \in {0, 1}
      /\ \A d \in Events : d # e => applied'[d] = applied[d]
  <2>1. CASE thread[t].at = "apply"
    <3>1. Apply(e) /\ applied[e] = 0  BY <2>1, OnTheWay DEF Mark, At, Ev
    <3> QED  BY <3>1, <1>0, <1>2, Applies
  <2>2. CASE thread[t].at # "apply"
    <3>1. applied' = applied  BY <2>2 DEF Mark, At
    <3> QED  BY <3>1, <1>0, <1>2 DEF HookInv, HookTypeOK, AppliedHasRow
  <2> QED  BY <2>1, <2>2
<1>7. kindOf[e] \in Durable /\ applied'[e] > 0 => e \in replied'
  <2>1. CASE thread[t].at = "apply"
    BY <2>1 DEF HookInv, ApplyIsPostback, At, Ev
  <2>2. CASE thread[t].at = "mark" /\ holder[e] # t
    BY <2>2, <1>3 DEF HookInv, MarkIsEarned, At, Ev
  <2>3. CASE thread[t].at = "mark" /\ holder[e] = t
    <3>1. applied' = applied  BY <2>3 DEF Mark, At
    <3>2. record[e].status = "none"  BY <2>3, <1>2 DEF HookInv, HeldIsNew, Status
    <3> QED  BY <3>1, <3>2, <1>2 DEF HookInv, AppliedHasRow, Status
  <2> QED  BY <1>1, <2>1, <2>2, <2>3
<1>8. replied' \subseteq Events /\ replied \subseteq replied'  BY <1>0, <1>3 DEF HookTypeOK
<1>9. "processed" \in {"processed", "failed"}  OBVIOUS
<1> HIDE DEF e
<1>10. e = Ev(t)  BY DEF e
<1> QED  BY <1>1, <1>3, <1>4, <1>5, <1>6, <1>7, <1>8, <1>9, <1>10, EndKeeps

LEMMA TerminalizeKeeps ==
    ASSUME HookInv, NEW t \in Threads, Terminalize(t), UNCHANGED kindOf
    PROVE  HookInv'
<1>0. HookTypeOK  BY DEF HookInv
<1>1. thread[t].at = "terminate" /\ thread[t].at # "idle"  BY DEF Terminalize, At
<1>2. Ev(t) \in Events  BY <1>1, OnTheWay
<1>3. /\ Write(Ev(t), "failed", FALSE) /\ Answer(Ev(t)) /\ Return(t)
      /\ UNCHANGED <<holder, applied, replied>>
  BY DEF Terminalize, Ev
<1>4. holder[Ev(t)] = NoThread
  <2>1. record[Ev(t)].status # "none"  BY <1>1 DEF HookInv, OwingHasRow, Status
  <2> QED  BY <2>1, <1>0, <1>2 DEF HookInv, HookTypeOK, HeldIsNew, Status
<1>5. applied[Ev(t)] \in {0, 1}  BY <1>2 DEF HookInv, AppliedHasRow
<1> QED  BY <1>0, <1>1, <1>2, <1>3, <1>4, <1>5, EndKeeps DEF HookTypeOK

LEMMA MarkFailedKeeps ==
    ASSUME HookInv, NEW t \in Threads, MarkFailed(t), UNCHANGED kindOf
    PROVE  HookInv'
<1> DEFINE e == Ev(t)
<1>0. HookTypeOK  BY DEF HookInv
<1>1. thread[t].at # "idle"  BY DEF MarkFailed, At
<1>2. e \in Events /\ \A d \in Events : holder[d] = t => d = e  BY <1>1, OnTheWay
<1>3. /\ Answer(e) /\ Return(t) /\ ReplyIfPossible(e)
      /\ UNCHANGED <<holder, applied>> /\ holder[e] = NoThread
  BY DEF MarkFailed, Ev
<1>4. replied' \subseteq Events /\ replied \subseteq replied'  BY <1>0, <1>2, <1>3, RepliesIfPossible
<1>5. applied[e] \in {0, 1}  BY <1>2 DEF HookInv, AppliedHasRow
<1>6. CASE Write(e, "failed", FALSE)
  BY <1>0, <1>1, <1>2, <1>3, <1>4, <1>5, <1>6, EndKeeps DEF HookTypeOK
<1>7. CASE record[e].status = "processed" /\ UNCHANGED record
  <2>1. /\ acked' \subseteq Events /\ faults' \in 0..MaxFaults
        /\ \A d \in Events : d # e => (d \in acked' <=> d \in acked)
    BY <1>0, <1>2, <1>3, Answers
  <2>2. /\ thread' \in [Threads -> [at : Places, event : Events \cup {NoEvent}]]
        /\ \A o \in Threads : o # t => thread'[o] = thread[o]
        /\ thread'[t].at = "idle"
    BY <1>0, <1>3, Returns
  <2>3. HookTypeOK'  BY <1>0, <1>3, <1>4, <1>7, <2>1, <2>2 DEF HookTypeOK
  <2>4. StepOf(t, e)  BY <1>3, <1>4, <1>7, <2>1, <2>2 DEF StepOf
  <2>5. OwnLock(t, e)  BY <1>3 DEF OwnLock
  <2>6. Leaves(t, e)  BY <1>2, <1>3, <1>4, <1>7, <2>2, RowFacts, WebhookAssumption DEF Leaves
  <2> QED  BY <1>2, <2>3, <2>4, <2>5, <2>6, StepKeeps
<1> QED  BY <1>6, <1>7 DEF MarkFailed, Ev

LEMMA CrashKeeps ==
    ASSUME HookInv, NEW t \in Threads, Crash(t), UNCHANGED kindOf
    PROVE  HookInv'
<1> DEFINE e == Ev(t)
<1>0. HookTypeOK  BY DEF HookInv
<1>1. thread[t].at # "idle"  BY DEF Crash, At
<1>2. e \in Events /\ \A d \in Events : holder[d] = t => d = e  BY <1>1, OnTheWay
<1>3. /\ Return(t) /\ faults' \in 0..MaxFaults
      /\ UNCHANGED <<record, applied, replied, acked>>
  BY <1>0, FaultCounted DEF Crash
<1>4. /\ holder' \in [Events -> Threads \cup {NoThread}]
      /\ \A d \in Events : d # e => holder'[d] = holder[d]
      /\ holder'[e] = IF holder[e] = t THEN NoThread ELSE holder[e]
      /\ holder[e] \notin {t, NoThread} => e \notin acked
  BY <1>1, RollsBack DEF Crash
<1>5. /\ thread' \in [Threads -> [at : Places, event : Events \cup {NoEvent}]]
      /\ \A o \in Threads : o # t => thread'[o] = thread[o]
      /\ thread'[t].at = "idle"
  BY <1>0, <1>3, Returns
<1>6. HookTypeOK'  BY <1>0, <1>3, <1>4, <1>5 DEF HookTypeOK
<1>7. StepOf(t, e)  BY <1>3, <1>4, <1>5 DEF StepOf
<1>8. OwnLock(t, e)  BY <1>3, <1>4 DEF OwnLock
<1>9. Leaves(t, e)  BY <1>2, <1>3, <1>4, <1>5, RowFacts, WebhookAssumption DEF Leaves
<1> QED  BY <1>2, <1>6, <1>7, <1>8, <1>9, StepKeeps

LEMMA HookInitInv == Init => HookInv
<1> SUFFICES ASSUME Init PROVE HookInv  OBVIOUS
<1>1. \A t \in Threads : thread[t] = [at |-> "idle", event |-> NoEvent]  BY DEF Init, Idle
<1>2. \A e \in Events : record[e] = [status |-> "none", reply |-> FALSE]  BY DEF Init
<1>3. HookTypeOK
  BY WebhookAssumption DEF Init, HookTypeOK, Idle, Places, Row
<1>4. ServesEvents /\ HandlingHolds /\ ApplyIsPostback /\ MarkIsEarned /\ OwingHasRow
  BY <1>1 DEF ServesEvents, HandlingHolds, ApplyIsPostback, MarkIsEarned, OwingHasRow, At
<1>5. HeldIsNew  BY WebhookAssumption DEF Init, HeldIsNew
<1>6. OwedIsReceived /\ AppliedHasRow
  BY <1>2 DEF Init, OwedIsReceived, AppliedHasRow, Status
<1>7. NothingOwedAfterTheLast /\ ProcessedIsReplied
  BY <1>2 DEF Init, NothingOwedAfterTheLast, ProcessedIsReplied
<1> QED  BY <1>3, <1>4, <1>5, <1>6, <1>7 DEF HookInv

LEMMA HookStep == HookInv /\ [Next]_vars => HookInv'
<1> SUFFICES ASSUME HookInv, [Next]_vars PROVE HookInv'  OBVIOUS
<1>1. ASSUME NEW t \in Threads, ThreadStep(t), UNCHANGED kindOf
      PROVE  HookInv'
  BY <1>1, ClaimKeeps, HandleKeeps, ReplyKeeps, RaisesKeeps, MarkKeeps, TerminalizeKeeps,
     MarkFailedKeeps
  DEF ThreadStep
<1>2. ASSUME NEW t \in Threads, Crash(t) \/ \E e \in Events : Deliver(t, e), UNCHANGED kindOf
      PROVE  HookInv'
  BY <1>2, CrashKeeps, DeliverKeeps
<1>3. CASE UNCHANGED <<kindOf, record, holder, thread, applied, replied, acked, faults>>
  BY <1>3
  DEF HookInv, HookTypeOK, ServesEvents, HeldIsNew, HandlingHolds, ApplyIsPostback, MarkIsEarned,
      OwingHasRow, OwedIsReceived, AppliedHasRow, NothingOwedAfterTheLast, ProcessedIsReplied,
      At, Ev, Status
<1> QED  BY <1>1, <1>2, <1>3 DEF Next, Around, vars

THEOREM HookInvariant == Spec => []HookInv
BY HookInitInv, HookStep, PTL DEF Spec

\* However often an event is delivered, its effect is committed once at most.
THEOREM EffectsOnce == Spec => []EffectOnce
<1>1. HookInv => EffectOnce  BY DEF HookInv, AppliedHasRow, EffectOnce
<1> QED  BY HookInvariant, <1>1, PTL

\* LINE is never told that an event is done while its reply is still owed.
THEOREM NothingOwed == Spec => []NothingOwedAfterTheLast
<1>1. HookInv => NothingOwedAfterTheLast  BY DEF HookInv
<1> QED  BY HookInvariant, <1>1, PTL

\* Processed with a durable effect means that LINE accepted the reply.
THEOREM ProcessedReplied == Spec => []ProcessedIsReplied
<1>1. HookInv => ProcessedIsReplied  BY DEF HookInv
<1> QED  BY HookInvariant, <1>1, PTL

-----------------------------------------------------------------------------
\* The webhook implements LineIdentity: every step of it, crash and retry included,
\* changes the links as one of LineIdentity's operations, or not at all.
THEOREM WebhookKeepsIdentity == Spec => IdentitySpec
<1>1. Init => IdentityInit  BY DEF Init
<1>2. HookInv /\ [Next]_vars => [IdentityNext]_idVars
  <2> SUFFICES ASSUME HookInv, [Next]_vars PROVE [IdentityNext]_idVars  OBVIOUS
  <2>1. ASSUME NEW t \in Threads, Handle(t) PROVE [IdentityNext]_idVars
    <3>1. thread[t].event \in Events  BY <2>1, OnTheWay DEF Handle, At, Ev
    <3> QED  BY <2>1, <3>1, HandleIsIdentity
  <2>2. ASSUME NEW t \in Threads,
               \/ Claim(t) \/ Reply(t) \/ Raises(t) \/ Mark(t) \/ Terminalize(t)
               \/ MarkFailed(t) \/ Crash(t) \/ \E e \in Events : Deliver(t, e)
        PROVE  UNCHANGED idVars
    BY <2>2
    DEF Claim, Reply, Raises, Mark, Terminalize, MarkFailed, Crash, Deliver
  <2>3. CASE Around
    BY <2>3 DEF Around, IdentityNext
  <2>4. CASE UNCHANGED vars  BY <2>4 DEF vars, idVars
  <2> QED  BY <2>1, <2>2, <2>3, <2>4 DEF Next, ThreadStep
<1> QED  BY <1>1, <1>2, HookInvariant, PTL DEF Spec, IdentitySpec

\* So a link made through the webhook was confirmed, whatever LINE delivers twice.
THEOREM WebhookLinksConfirmed == Spec => []LinkIsConfirmed
BY WebhookKeepsIdentity, LinksAreConfirmed, PTL
=============================================================================
