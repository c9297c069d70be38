----------------------------- MODULE HallProofs -----------------------------
(***************************************************************************)
(* Proofs about the hall: what the incidents' rows and plan keep           *)
(* (LineIncidents), and what an answer on LINE rests on (LineEvidence).    *)
(***************************************************************************)
EXTENDS LineEvidence, LineIncidents, FiniteSetTheorems, SequenceTheorems, TLAPS

(***************************************************************************)
(* The incidents are well typed.                                           *)
(***************************************************************************)
Plan == [until : Int, red : SUBSET Incidents, list : SUBSET Incidents]
Building == [at : {"query", "list", "store"}, view : Views, asked : Clocks,
             red : SUBSET Incidents, list : SUBSET Incidents]
AtRest == [at |-> "idle"]

IncidentTyped ==
    /\ part \in Parts
    /\ now \in Clocks
    /\ rows \in [Incidents -> Record]
    /\ desk \in [Operators -> {AtRest} \cup Desk]
    /\ cache \in [Views -> Plan]
    /\ build \in [Readers -> {AtRest} \cup Building]
    /\ breaks \in 0 .. part.breaks

LEMMA PartsBounded ==
    ASSUME NEW p \in Parts
    PROVE  /\ p.clock \in Nat /\ p.breaks \in Nat
           /\ p.operators \subseteq Operators /\ p.readers \subseteq Readers /\ p.views \subseteq Views
  BY IncidentAssumption DEF Views

LEMMA IncidentTypedInit == IncidentInit => IncidentTyped
  <1> SUFFICES ASSUME IncidentInit PROVE IncidentTyped
    OBVIOUS
  <1>1. part.clock \in Nat /\ part.breaks \in Nat
    BY PartsBounded DEF IncidentInit
  <1>2. NoIncident \in Record
    BY <1>1 DEF NoIncident, Record, Clocks, Statuses
  <1>3. rows \in [Incidents -> Record] /\ desk \in [Operators -> {AtRest} \cup Desk]
        /\ build \in [Readers -> {AtRest} \cup Building]
    BY <1>2 DEF IncidentInit, Idle, AtRest
  <1>4. cache \in [Views -> Plan]
    BY DEF IncidentInit, Plan
  <1> QED
    BY <1>1, <1>3, <1>4 DEF IncidentInit, IncidentTyped, Clocks

LEMMA IncidentTypedStep == IncidentTyped /\ [IncidentNext]_incidentVars => IncidentTyped'
  <1> SUFFICES ASSUME IncidentTyped, [IncidentNext]_incidentVars PROVE IncidentTyped'
    OBVIOUS
  <1>1. /\ part.clock \in Nat /\ part.breaks \in Nat
        /\ part.operators \subseteq Operators /\ part.readers \subseteq Readers /\ part.views \subseteq Views
    BY PartsBounded DEF IncidentTyped
  <1> USE DEF IncidentTyped
  <1>2. ASSUME NEW o \in part.operators, Operate(o) PROVE IncidentTyped'
    <2> UNCHANGED <<part, now, cache, build>> /\ o \in Operators
      BY <1>1, <1>2 DEF Operate
    <2> UNCHANGED <<Clocks, Record, Desk, Building>>
      BY DEF Clocks, Record, Desk, Building
    <2>1. ASSUME NEW act, NEW i \in Incidents, NEW copy \in Record, act \in Acts, Take(o, act, i, copy)
          PROVE  IncidentTyped'
      <3>1. [at |-> "loaded", act |-> act, id |-> i, copy |-> copy] \in Desk
        BY <2>1 DEF Desk
      <3> QED
        BY <2>1, <3>1 DEF Take
    <2>2. ASSUME NEW i \in Incidents, Report(o, i) PROVE IncidentTyped'
      <3>1. Reported \in Record
        <4>1. NoIncident \in Record
          BY <1>1 DEF NoIncident, Record, Clocks, Statuses
        <4> QED
          BY <4>1 DEF Reported, Record
      <3> QED
        BY <2>1, <2>2, <3>1 DEF Report, Acts, Asks
    <2>3. ASSUME NEW i \in Incidents, NEW act \in Acts, Load(o, act, i) PROVE IncidentTyped'
      BY <2>1, <2>3 DEF Load
    <2>4. CASE Write(o)
      <3>1. desk[o] \in Desk
        BY <2>4 DEF Write, AtRest
      <3>2. [desk[o] EXCEPT !.at = "held"] \in Desk
        BY <3>1 DEF Desk
      <3> QED
        BY <2>4, <3>2 DEF Write
    <2>5. CASE Commit(o)
      <3>1. desk[o] \in Desk
        BY <2>5 DEF Commit, AtRest
      <3>2. Result(desk[o], rows[desk[o].id]) \in Record
        <4>1. desk[o].id \in Incidents /\ rows[desk[o].id] \in Record /\ desk[o].copy \in Record /\ desk[o].act \in Acts
          BY <3>1 DEF Desk
        <4>2. desk[o].act # "edit" => Asks[desk[o].act] \in Statuses
          BY <4>1 DEF Acts, Asks, Statuses
        <4>3. EndTime(desk[o], rows[desk[o].id]) \in BOOLEAN
          BY <4>1 DEF EndTime, Record
        <4> QED
          BY <4>1, <4>2, <4>3 DEF Result, Record
      <3> QED
        BY <2>5, <3>2 DEF Commit, AtRest
    <2>6. CASE RollBack(o)
      BY <1>1, <2>6 DEF RollBack, AtRest
    <2> QED
      BY <1>2, <2>2, <2>3, <2>4, <2>5, <2>6 DEF Operate
  <1>3. CASE Serve
    <2> UNCHANGED <<part, now, rows, desk>>
      BY <1>3 DEF Serve
    <2> UNCHANGED <<Clocks, Record, Desk, Building>>
      BY DEF Clocks, Record, Desk, Building
    <2>1. PICK r \in part.readers : (\E v \in part.views : Miss(r, v)) \/ Query(r) \/ List(r) \/ Store(r)
      BY <1>3 DEF Serve
    <2>2. r \in Readers /\ breaks' = breaks
      BY <1>1, <2>1 DEF Miss, Query, List, Store
    <2>3. \A t : Red(t) \in SUBSET Incidents
      BY DEF Red, Today
    <2>4. ASSUME NEW v \in part.views, Miss(r, v) PROVE IncidentTyped'
      <3>1. [at |-> "query", view |-> v, asked |-> now, red |-> {}, list |-> {}] \in Building
        BY <1>1 DEF Building
      <3> QED
        BY <2>2, <2>4, <3>1 DEF Miss
    <2>5. ASSUME build[r].at # "idle" PROVE build[r] \in Building
      BY <2>2, <2>5 DEF AtRest
    <2>6. CASE Query(r)
      <3>1. [build[r] EXCEPT !.at = IF build[r].view = "page" THEN "list" ELSE "store", !.red = Red(build[r].asked)]
               \in Building
        BY <2>3, <2>5, <2>6 DEF Query, Building
      <3> QED
        BY <2>2, <2>6, <3>1 DEF Query
    <2>7. CASE List(r)
      <3>1. [build[r] EXCEPT !.at = "store", !.list = Red(build[r].asked)] \in Building
        BY <2>3, <2>5, <2>7 DEF List, Building
      <3> QED
        BY <2>2, <2>7, <3>1 DEF List
    <2>8. CASE Store(r)
      <3>1. build[r].view \in Views /\ build[r].asked \in Clocks
            /\ build[r].red \in SUBSET Incidents /\ build[r].list \in SUBSET Incidents
        BY <2>5, <2>8 DEF Store, Building
      <3>2. Until(build[r].view, build[r].asked) \in Int
        BY <1>1, <3>1, IncidentAssumption DEF Until, Clocks
      <3>3. [until |-> Until(build[r].view, build[r].asked), red |-> build[r].red, list |-> build[r].list] \in Plan
        BY <3>1, <3>2 DEF Plan
      <3> QED
        BY <2>2, <2>8, <3>1, <3>3 DEF Store, AtRest
    <2> QED
      BY <2>1, <2>4, <2>6, <2>7, <2>8
  <1>4. CASE NewProcess
    <2>1. cache' \in [Views -> Plan]
      BY <1>4 DEF NewProcess, Plan
    <2>2. build' \in [Readers -> {AtRest} \cup Building] /\ desk' \in [Operators -> {AtRest} \cup Desk]
      BY <1>4 DEF NewProcess, Idle, AtRest
    <2>3. breaks' \in 0 .. part.breaks /\ UNCHANGED <<part, now, rows>>
      BY <1>1, <1>4 DEF NewProcess
    <2> UNCHANGED <<Clocks, Record, Desk, Building>>
      BY <2>3 DEF Clocks, Record, Desk, Building
    <2> QED
      BY <2>1, <2>2, <2>3
  <1>5. CASE TimePasses
    <2> UNCHANGED <<part, rows, desk, cache, build, breaks>>
      BY <1>5 DEF TimePasses
    <2> UNCHANGED <<Clocks, Record, Desk, Building>>
      BY DEF Clocks, Record, Desk, Building
    <2>1. now' \in Clocks
      BY <1>1, <1>5 DEF TimePasses, Clocks
    <2> QED
      BY <2>1
  <1>6. CASE UNCHANGED incidentVars
    <2> UNCHANGED <<Clocks, Record, Desk, Building>>
      BY <1>6 DEF Clocks, Record, Desk, Building, incidentVars
    <2> QED
      BY <1>6 DEF incidentVars
  <1> QED
    BY <1>2, <1>3, <1>4, <1>5, <1>6 DEF IncidentNext

(***************************************************************************)
(* Reports. A report finds no row and nobody else at its id; whatever else *)
(* is on a desk has a row. A row is created before it is opened or closed. *)
(***************************************************************************)
Busy(o) == desk[o].at # "idle"

ReportsAlone ==
    \A o \in Operators : Busy(o) =>
        IF desk[o].act = "report"
        THEN /\ rows[desk[o].id].status = "none"
             /\ desk[o].copy.created <= now
             /\ \A p \in Operators : Busy(p) /\ desk[p].id = desk[o].id => p = o
        ELSE rows[desk[o].id].status # "none"

CreatedFirst ==
    \A i \in Incidents : rows[i].status # "none" => rows[i].created <= rows[i].since /\ rows[i].since <= now

(***************************************************************************)
(* What a query that was asked for at t has seen: every row of its day     *)
(* that has not been opened or closed since before t.                      *)
(***************************************************************************)
Seen(found, t) ==
    \A i \in Incidents :
        rows[i].status # "none" /\ rows[i].since < t /\ Day(rows[i].created) = Day(t)
            => (i \in found) = Open(rows[i])

BuildSeen ==
    \A r \in Readers : build[r].at # "idle" =>
        /\ build[r].asked <= now /\ now - build[r].asked <= BuildTime
        /\ build[r].at # "query" => Seen(build[r].red, build[r].asked)
        /\ build[r].at = "store" /\ build[r].view = "page" => Seen(build[r].list, build[r].asked)

\* The moment a plan in the cache may have been asked for.
AskedBy(view, plan, t) ==
    /\ t <= now
    /\ IF view = "picture" THEN plan.until <= t + PictureCache
       ELSE plan.until <= t + BuildTime + StateCache
    /\ Seen(plan.red, t)
    /\ view = "page" => Seen(plan.list, t)

CacheSeen ==
    \A v \in Views : cache[v].until = -1 \/ \E t \in Clocks : AskedBy(v, cache[v], t)

PlanInv == IncidentTyped /\ ReportsAlone /\ CreatedFirst /\ BuildSeen /\ CacheSeen

-----------------------------------------------------------------------------
\* The day of a moment between two moments of one day is that day.
LEMMA SameDay ==
    ASSUME NEW x \in Nat, NEW y \in Nat, NEW z \in Nat, x <= y, y <= z, Day(x) = Day(z)
    PROVE  Day(y) = Day(z)
  <1>1. DayLength \in Nat \ {0}
    BY IncidentAssumption
  <1> DEFINE q == x \div DayLength
             p == y \div DayLength
  <1>2. q \in Nat /\ p \in Nat
    BY <1>1
  <1>3. DayLength * q <= x /\ x < DayLength * q + DayLength
    BY <1>1
  <1>4. DayLength * p <= y /\ y < DayLength * p + DayLength
    BY <1>1
  <1>5. z \div DayLength = q /\ z < DayLength * q + DayLength
    BY <1>1 DEF Day
  <1>6. p <= q
    <2>1. SUFFICES ASSUME q + 1 <= p PROVE FALSE
      BY <1>2
    <2>2. DayLength * (q + 1) <= DayLength * p
      BY <1>1, <1>2, <2>1
    <2> QED
      BY <1>1, <1>2, <1>4, <1>5, <2>2
  <1>7. q <= p
    <2>1. SUFFICES ASSUME p + 1 <= q PROVE FALSE
      BY <1>2
    <2>2. DayLength * (p + 1) <= DayLength * q
      BY <1>1, <1>2, <2>1
    <2> QED
      BY <1>1, <1>2, <1>3, <1>4, <2>2
  <1> QED
    BY <1>2, <1>5, <1>6, <1>7 DEF Day

\* What an operator has on the desk.
LEMMA OnDesk ==
    ASSUME IncidentTyped, NEW o \in Operators, Busy(o)
    PROVE  /\ desk[o] \in Desk
           /\ desk[o].id \in Incidents /\ desk[o].act \in Acts /\ desk[o].copy \in Record
           /\ rows[desk[o].id] \in Record
  BY DEF IncidentTyped, Busy, AtRest, Desk

\* A commit changes one row: what it becomes is there, and whether it was opened or closed
\* is dated now.
LEMMA CommitChanges ==
    ASSUME IncidentTyped, ReportsAlone, NEW o \in Operators, Commit(o), now' = now
    PROVE  LET i == desk[o].id IN
           /\ i \in Incidents
           /\ \A j \in Incidents \ {i} : rows'[j] = rows[j]
           /\ rows'[i].status # "none"
           /\ \/ rows'[i].since = now /\ (rows[i].status # "none" => rows'[i].created = rows[i].created)
              \/ /\ rows[i].status # "none" /\ Open(rows'[i]) = Open(rows[i])
                 /\ rows'[i].since = rows[i].since /\ rows'[i].created = rows[i].created
           /\ rows[i].status = "none" => rows'[i].created <= now
  <1> DEFINE d == desk[o]
             i == d.id
  <1>1. /\ Busy(o) /\ d \in Desk /\ i \in Incidents /\ d.act \in Acts
        /\ d.copy \in Record /\ rows[i] \in Record
    BY OnDesk DEF Commit, Busy
  <1>2. rows' = [rows EXCEPT ![i] = Result(d, rows[i])]
    BY DEF Commit
  <1>3. rows \in [Incidents -> Record]
    BY DEF IncidentTyped
  <1>4. rows'[i] = Result(d, rows[i]) /\ \A j \in Incidents \ {i} : rows'[j] = rows[j]
    BY <1>1, <1>2, <1>3
  <1>5. d.act # "edit" => Asks[d.act] # "none"
    BY <1>1 DEF Acts, Asks
  <1>6. CASE d.act = "report"
    <2>1. rows[i].status = "none" /\ d.copy.created <= now /\ Asks[d.act] = "pending_review"
      BY <1>1, <1>6 DEF ReportsAlone, Asks
    <2> QED
      BY <1>1, <1>4, <1>6, <2>1 DEF Result, Open, Unresolved
  <1>7. CASE d.act # "report"
    <2>1. rows[i].status # "none"
      BY <1>1, <1>7 DEF ReportsAlone
    <2> QED
      BY <1>1, <1>4, <1>5, <1>7, <2>1 DEF Result, Open
  <1> QED
    BY <1>6, <1>7

\* A commit takes nothing from what a query asked for before it has seen.
LEMMA SeenKept ==
    ASSUME IncidentTyped, ReportsAlone, NEW o \in Operators, Commit(o), now' = now,
           NEW found, NEW t \in Nat, t <= now, Seen(found, t)
    PROVE  Seen(found, t)'
  <1> DEFINE i == desk[o].id
  <1>1. /\ i \in Incidents
        /\ \A j \in Incidents \ {i} : rows'[j] = rows[j]
        /\ \/ rows'[i].since = now
           \/ /\ rows[i].status # "none" /\ Open(rows'[i]) = Open(rows[i])
              /\ rows'[i].since = rows[i].since /\ rows'[i].created = rows[i].created
    BY CommitChanges
  <1>2. now \in Nat
    BY PartsBounded DEF IncidentTyped, Clocks
  <1>3. SUFFICES ASSUME NEW j \in Incidents, rows'[j].status # "none", rows'[j].since < t,
                        Day(rows'[j].created) = Day(t)
                 PROVE  (j \in found) = Open(rows'[j])
    BY DEF Seen
  <1>4. CASE j # i
    BY <1>1, <1>3, <1>4 DEF Seen
  <1>5. CASE j = i
    BY <1>1, <1>2, <1>3, <1>5 DEF Seen
  <1> QED
    BY <1>4, <1>5

LEMMA PlanInvInit == IncidentInit => PlanInv
  <1> SUFFICES ASSUME IncidentInit PROVE PlanInv
    OBVIOUS
  <1>1. IncidentTyped
    BY IncidentTypedInit
  <1>2. ReportsAlone /\ BuildSeen
    BY DEF IncidentInit, ReportsAlone, BuildSeen, Busy, Idle
  <1>3. CreatedFirst
    BY DEF IncidentInit, CreatedFirst, NoIncident
  <1>4. CacheSeen
    BY DEF IncidentInit, CacheSeen
  <1> QED
    BY <1>1, <1>2, <1>3, <1>4 DEF PlanInv

LEMMA PlanInvStep == PlanInv /\ [IncidentNext]_incidentVars => PlanInv'
  <1> SUFFICES ASSUME PlanInv, [IncidentNext]_incidentVars PROVE PlanInv'
    OBVIOUS
  <1>1. /\ part.clock \in Nat
        /\ part.operators \subseteq Operators /\ part.readers \subseteq Readers /\ part.views \subseteq Views
        /\ now \in Nat /\ IncidentTyped /\ IncidentTyped'
    BY PartsBounded, IncidentTypedStep DEF PlanInv, IncidentTyped, Clocks
  <1>2. ASSUME NEW o \in part.operators, Operate(o) PROVE PlanInv'
    <2>1. UNCHANGED <<part, now, cache, build>> /\ o \in Operators
      BY <1>1, <1>2 DEF Operate
    <2>2. UNCHANGED rows => (BuildSeen /\ CacheSeen /\ CreatedFirst)'
      BY <2>1 DEF PlanInv, BuildSeen, CacheSeen, CreatedFirst, AskedBy, Seen, Clocks
    <2>3. ASSUME NEW act \in Acts, NEW i \in Incidents, NEW copy, Take(o, act, i, copy),
                 act = "report" => copy.created = now /\ ~\E p \in Operators : Busy(p) /\ desk[p].id = i
          PROVE  PlanInv'
      <3>1. /\ rows' = rows
            /\ desk'[o] = [at |-> "loaded", act |-> act, id |-> i, copy |-> copy]
            /\ \A p \in Operators \ {o} : desk'[p] = desk[p]
        BY <1>1, <2>3 DEF Take, IncidentTyped
      <3>2. act # "report" => rows[i].status # "none"
        BY <2>3 DEF Take, From, Acts, Asks
      <3>3. act = "report" => rows[i].status = "none"
        BY <2>3 DEF Take, From
      <3>4. ASSUME NEW p \in Operators \ {o}, Busy(p), desk[p].act = "report"
            PROVE  desk[p].id # i
        BY <2>3, <3>2, <3>3, <3>4 DEF PlanInv, ReportsAlone
      <3>5. ReportsAlone'
        BY <1>1, <2>1, <2>3, <3>1, <3>2, <3>3, <3>4 DEF PlanInv, ReportsAlone, Busy
      <3> QED
        BY <1>1, <2>2, <3>1, <3>5 DEF PlanInv
    <2>4. ASSUME NEW i \in Incidents, Report(o, i) PROVE PlanInv'
      <3>1. Reported.created = now
        BY DEF Reported, NoIncident
      <3> QED
        BY <2>3, <2>4, <3>1 DEF Report, Busy, Acts, Asks
    <2>5. ASSUME NEW i \in Incidents, NEW act \in Acts, Load(o, act, i) PROVE PlanInv'
      BY <2>3, <2>5 DEF Load
    <2>6. CASE Write(o)
      <3>1. rows' = rows /\ Busy(o)
        BY <2>6 DEF Write, Busy
      <3>2. desk'[o] = [desk[o] EXCEPT !.at = "held"] /\ \A p \in Operators \ {o} : desk'[p] = desk[p]
        BY <1>1, <2>1, <2>6 DEF Write, IncidentTyped
      <3>3. desk'[o].at = "held" /\ desk'[o].act = desk[o].act /\ desk'[o].id = desk[o].id
            /\ desk'[o].copy = desk[o].copy
        BY <1>1, <2>1, <3>1, <3>2, OnDesk DEF Desk
      <3>4. \A p \in Operators : /\ Busy(p)' = Busy(p) /\ desk'[p].act = desk[p].act
                                  /\ desk'[p].id = desk[p].id /\ desk'[p].copy = desk[p].copy
        BY <3>1, <3>2, <3>3 DEF Busy
      <3>5. ReportsAlone'
        BY <2>1, <3>1, <3>4 DEF PlanInv, ReportsAlone
      <3> QED
        BY <1>1, <2>2, <3>1, <3>5 DEF PlanInv
    <2>7. CASE Commit(o)
      <3> DEFINE i == desk[o].id
      <3>1. /\ i \in Incidents
            /\ \A j \in Incidents \ {i} : rows'[j] = rows[j]
            /\ rows'[i].status # "none"
            /\ \/ rows'[i].since = now /\ (rows[i].status # "none" => rows'[i].created = rows[i].created)
               \/ /\ rows[i].status # "none"
                  /\ rows'[i].since = rows[i].since /\ rows'[i].created = rows[i].created
            /\ rows[i].status = "none" => rows'[i].created <= now
        BY <1>1, <2>1, <2>7, CommitChanges DEF PlanInv
      <3>2. ~Busy(o)' /\ \A p \in Operators \ {o} : desk'[p] = desk[p]
        BY <1>1, <2>1, <2>7 DEF Commit, Busy, IncidentTyped
      <3>3. Busy(o)
        BY <2>7 DEF Commit, Busy
      <3>4. ReportsAlone'
        <4> SUFFICES ASSUME NEW p \in Operators, Busy(p)'
                     PROVE  IF desk'[p].act = "report"
                            THEN /\ rows'[desk'[p].id].status = "none"
                                 /\ desk'[p].copy.created <= now
                                 /\ \A q \in Operators : Busy(q)' /\ desk'[q].id = desk'[p].id => q = p
                            ELSE rows'[desk'[p].id].status # "none"
          BY <2>1 DEF ReportsAlone
        <4>1. p # o /\ desk'[p] = desk[p] /\ Busy(p)
          BY <3>2 DEF Busy
        <4>2. desk[p].id \in Incidents
          BY <1>1, <4>1, OnDesk
        <4>3. \A q \in Operators : Busy(q)' => Busy(q) /\ desk'[q] = desk[q]
          BY <3>2 DEF Busy
        <4>4. CASE desk[p].act = "report"
          <5>1. desk[p].id # i
            BY <2>1, <3>3, <4>1, <4>4 DEF PlanInv, ReportsAlone
          <5> QED
            BY <3>1, <4>1, <4>2, <4>3, <4>4, <5>1 DEF PlanInv, ReportsAlone
        <4>5. CASE desk[p].act # "report"
          BY <3>1, <4>1, <4>2, <4>5 DEF PlanInv, ReportsAlone
        <4> QED
          BY <4>4, <4>5
      <3>5. rows[i] \in Record /\ rows'[i] \in Record'
        BY <1>1, <3>1 DEF IncidentTyped
      <3>6. CreatedFirst'
        BY <1>1, <2>1, <3>1, <3>5 DEF PlanInv, CreatedFirst, Record, Clocks
      <3>7. ASSUME NEW found, NEW t \in Clocks, t <= now, Seen(found, t) PROVE Seen(found, t)'
        BY <1>1, <2>1, <2>7, <3>7, SeenKept DEF PlanInv, Clocks
      <3>8. BuildSeen'
        <4>1. \A r \in Readers : build[r].at # "idle" => build[r].asked \in Clocks
          BY <1>1 DEF IncidentTyped, AtRest, Building
        <4> QED
          BY <2>1, <3>7, <4>1 DEF PlanInv, BuildSeen
      <3>9. CacheSeen'
        BY <2>1, <3>7 DEF PlanInv, CacheSeen, AskedBy, Clocks
      <3> QED
        BY <1>1, <3>4, <3>6, <3>8, <3>9 DEF PlanInv
    <2>8. CASE RollBack(o)
      <3>1. rows' = rows
        BY <2>8 DEF RollBack
      <3>2. ~Busy(o)' /\ \A p \in Operators \ {o} : desk'[p] = desk[p]
        BY <1>1, <2>1, <2>8 DEF RollBack, Busy, IncidentTyped
      <3>3. ReportsAlone'
        BY <2>1, <3>1, <3>2 DEF PlanInv, ReportsAlone, Busy
      <3> QED
        BY <1>1, <2>2, <3>1, <3>3 DEF PlanInv
    <2> QED
      BY <1>2, <2>4, <2>5, <2>6, <2>7, <2>8 DEF Operate
  <1>3. CASE Serve
    <2>1. UNCHANGED <<part, now, rows, desk>>
      BY <1>3 DEF Serve
    <2>2. (ReportsAlone /\ CreatedFirst)'
      BY <2>1 DEF PlanInv, ReportsAlone, CreatedFirst, Busy
    <2>3. \A found, t : Seen(found, t) => Seen(found, t)'
      BY <2>1 DEF Seen
    <2>4. PICK r \in part.readers : (\E v \in part.views : Miss(r, v)) \/ Query(r) \/ List(r) \/ Store(r)
      BY <1>3 DEF Serve
    <2>5. r \in Readers
      BY <1>1
    <2>6. \A t : Seen(Red(t), t)
      <3> SUFFICES ASSUME NEW t, NEW i \in Incidents, rows[i].status # "none", Day(rows[i].created) = Day(t)
                   PROVE  (i \in Red(t)) = Open(rows[i])
        BY DEF Seen
      <3>1. i \in Today(t)
        BY DEF Today
      <3>2. i \in Red(t) <=> Open(rows[i])
        BY <3>1 DEF Red
      <3> QED
        BY <3>2 DEF Open
    <2>7. cache' = cache => CacheSeen'
      BY <2>1, <2>3 DEF PlanInv, CacheSeen, AskedBy, Clocks
    <2>8. ASSUME build[r].at # "idle"
          PROVE  build[r] \in Building /\ build[r].asked \in Nat
      BY <1>1, <2>5, <2>8 DEF IncidentTyped, AtRest, Building, Clocks
    <2>9. ASSUME NEW v \in part.views, Miss(r, v) PROVE PlanInv'
      <3>1. /\ cache' = cache
            /\ build'[r].at = "query" /\ build'[r].asked = now
            /\ \A q \in Readers \ {r} : build'[q] = build[q]
        BY <1>1, <2>5, <2>9 DEF Miss, IncidentTyped
      <3>2. BuildSeen'
        BY <1>1, <2>1, <2>3, <3>1, IncidentAssumption DEF PlanInv, BuildSeen
      <3> QED
        BY <1>1, <2>2, <2>7, <3>1, <3>2 DEF PlanInv
    <2>10. CASE Query(r)
      <3>1. build' = [build EXCEPT ![r] = [@ EXCEPT !.at = IF build[r].view = "page" THEN "list" ELSE "store",
                                                    !.red = Red(build[r].asked)]]
        BY <2>10 DEF Query
      <3>2. /\ cache' = cache
            /\ build'[r].at = (IF build[r].view = "page" THEN "list" ELSE "store")
            /\ build'[r].asked = build[r].asked /\ build'[r].red = Red(build[r].asked)
            /\ build'[r].view = build[r].view
            /\ \A q \in Readers \ {r} : build'[q] = build[q]
        BY <1>1, <2>5, <2>8, <2>10, <3>1 DEF Query, IncidentTyped, Building
      <3>3. BuildSeen'
        <4>1. (build[r].asked <= now /\ now - build[r].asked <= BuildTime)'
          BY <2>1, <2>5, <2>10, <3>2 DEF PlanInv, BuildSeen, Query
        <4>2. Seen(build[r].red, build[r].asked)'
          BY <2>3, <2>6, <3>2
        <4>3. ~(build'[r].at = "store" /\ build'[r].view = "page")
          BY <3>2
        <4>4. \A q \in Readers \ {r} : build'[q] = build[q]
          BY <3>2
        <4> QED
          BY <2>1, <2>3, <4>1, <4>2, <4>3, <4>4 DEF PlanInv, BuildSeen
      <3> QED
        BY <1>1, <2>2, <2>7, <3>2, <3>3 DEF PlanInv
    <2>11. CASE List(r)
      <3>1. build' = [build EXCEPT ![r] = [@ EXCEPT !.at = "store", !.list = Red(build[r].asked)]]
        BY <2>11 DEF List
      <3>2. /\ cache' = cache
            /\ build'[r].at = "store" /\ build'[r].view = build[r].view
            /\ build'[r].asked = build[r].asked /\ build'[r].red = build[r].red
            /\ build'[r].list = Red(build[r].asked)
            /\ \A q \in Readers \ {r} : build'[q] = build[q]
        BY <1>1, <2>5, <2>8, <2>11, <3>1 DEF List, IncidentTyped, Building
      <3>3. BuildSeen'
        <4>1. (build[r].asked <= now /\ now - build[r].asked <= BuildTime)'
          BY <2>1, <2>5, <2>11, <3>2 DEF PlanInv, BuildSeen, List
        <4>2. Seen(build[r].red, build[r].asked)'
          BY <2>1, <2>3, <2>5, <2>6, <2>11, <3>2 DEF PlanInv, BuildSeen, List
        <4>3. (build[r].view = "page" => Seen(build[r].list, build[r].asked))'
          BY <2>1, <2>3, <2>5, <2>6, <2>11, <3>2 DEF PlanInv, BuildSeen, List
        <4>4. \A q \in Readers \ {r} : build'[q] = build[q]
          BY <3>2
        <4> QED
          BY <2>1, <2>3, <4>1, <4>2, <4>3, <4>4 DEF PlanInv, BuildSeen
      <3> QED
        BY <1>1, <2>2, <2>7, <3>2, <3>3 DEF PlanInv
    <2>12. CASE Store(r)
      <3> DEFINE v == build[r].view
                 plan == [until |-> Until(v, build[r].asked), red |-> build[r].red, list |-> build[r].list]
      <3>1. /\ build'[r].at = "idle" /\ \A q \in Readers \ {r} : build'[q] = build[q]
            /\ v \in Views /\ cache'[v] = plan /\ \A w \in Views \ {v} : cache'[w] = cache[w]
        BY <1>1, <2>5, <2>8, <2>12 DEF Store, IncidentTyped, Building
      <3>2. BuildSeen'
        BY <2>1, <2>3, <3>1 DEF PlanInv, BuildSeen
      <3>3. /\ build[r].asked \in Clocks /\ build[r].asked <= now /\ now - build[r].asked <= BuildTime
            /\ Seen(build[r].red, build[r].asked)
            /\ v = "page" => Seen(build[r].list, build[r].asked)
        BY <2>5, <2>8, <2>12 DEF PlanInv, BuildSeen, Store, Building
      <3>4. AskedBy(v, plan, build[r].asked)
        BY <1>1, <2>8, <2>12, <3>1, <3>3, IncidentAssumption DEF AskedBy, Until, Store, Views
      <3>5. CacheSeen'
        BY <2>1, <2>3, <3>1, <3>3, <3>4 DEF PlanInv, CacheSeen, AskedBy, Clocks
      <3> QED
        BY <1>1, <2>2, <3>2, <3>5 DEF PlanInv
    <2> QED
      BY <2>4, <2>9, <2>10, <2>11, <2>12
  <1>4. CASE NewProcess
    <2>1. UNCHANGED <<part, now, rows>>
      BY <1>4 DEF NewProcess
    <2>2. (ReportsAlone /\ BuildSeen)'
      BY <1>4 DEF NewProcess, ReportsAlone, BuildSeen, Busy, Idle
    <2>3. (CreatedFirst /\ CacheSeen)'
      BY <1>4, <2>1 DEF NewProcess, PlanInv, CreatedFirst, CacheSeen
    <2> QED
      BY <1>1, <2>2, <2>3 DEF PlanInv
  <1>5. CASE TimePasses
    <2>1. UNCHANGED <<part, rows, desk, cache, build, breaks>> /\ now' = now + 1
      BY <1>5 DEF TimePasses
    <2>2. (ReportsAlone /\ CreatedFirst)'
      <3>1. \A o \in Operators : Busy(o) => desk[o].copy.created \in Nat
        BY <1>1, OnDesk DEF Record, Clocks
      <3>2. \A i \in Incidents : rows[i].created \in Nat /\ rows[i].since \in Nat
        BY <1>1 DEF IncidentTyped, Record, Clocks
      <3> QED
        BY <1>1, <2>1, <3>1, <3>2 DEF PlanInv, ReportsAlone, CreatedFirst, Busy
    <2>3. \A found, t : Seen(found, t) => Seen(found, t)'
      BY <2>1 DEF Seen
    <2>4. BuildSeen'
      <3>1. \A r \in Readers : build[r].at # "idle" => build[r].asked \in Nat /\ now - build[r].asked < BuildTime
        BY <1>1, <1>5 DEF TimePasses, IncidentTyped, AtRest, Building, Clocks
      <3> QED
        BY <1>1, <2>1, <2>3, <3>1, IncidentAssumption DEF PlanInv, BuildSeen
    <2>5. CacheSeen'
      <3>1. ASSUME NEW v \in Views, NEW t \in Clocks, AskedBy(v, cache[v], t) PROVE AskedBy(v, cache[v], t)'
        BY <1>1, <2>1, <2>3, <3>1 DEF AskedBy, Clocks
      <3> QED
        BY <2>1, <3>1 DEF PlanInv, CacheSeen, Clocks
    <2> QED
      BY <1>1, <2>2, <2>4, <2>5 DEF PlanInv
  <1>6. CASE UNCHANGED incidentVars
    BY <1>1, <1>6 DEF PlanInv, incidentVars, ReportsAlone, CreatedFirst, BuildSeen, CacheSeen, AskedBy, Seen, Busy, Clocks
  <1> QED
    BY <1>2, <1>3, <1>4, <1>5, <1>6 DEF IncidentNext

LEMMA PlanAlwaysInv == IncidentSpec => []PlanInv
  BY PlanInvInit, PlanInvStep, PTL DEF IncidentSpec

(***************************************************************************)
(* However many operators and readers there are, whatever the caches hold  *)
(* for and wherever midnight falls: an answer, from the cache or from a    *)
(* build, of the picture or of the page, shows every incident of its day   *)
(* that had been open for the time of its cache, and none that had been    *)
(* closed for as long.                                                     *)
(***************************************************************************)
THEOREM PlanTellsTheDay == IncidentSpec => []PlanTells
  <1>1. PlanInv => PlanTells
    <2> SUFFICES ASSUME PlanInv, NEW a \in Answers, NEW i \in Incidents,
                        rows[i].status # "none", rows[i].since <= Tells(a.view, a.asked),
                        Day(rows[i].created) = Day(a.asked)
                 PROVE  /\ (i \in a.red) = Open(rows[i])
                        /\ a.view = "page" => (i \in a.list) = Open(rows[i])
      BY DEF PlanTells
    <2>1. /\ now \in Nat
          /\ rows[i].created \in Nat /\ rows[i].since \in Nat /\ rows[i].created <= rows[i].since
          /\ PictureCache \in Nat \ {0} /\ StateCache \in Nat /\ BuildTime \in Nat
      BY PartsBounded, IncidentAssumption DEF PlanInv, IncidentTyped, CreatedFirst, Record, Clocks
    <2>2. CASE \E v \in Views : Good(v) /\ a = [view |-> v, asked |-> now, red |-> cache[v].red, list |-> cache[v].list]
      <3>1. PICK v \in Views : Good(v) /\ a = [view |-> v, asked |-> now, red |-> cache[v].red, list |-> cache[v].list]
        BY <2>2
      <3>2. cache[v].until \in Int
        BY DEF PlanInv, IncidentTyped, Plan
      <3>3. PICK t \in Clocks : AskedBy(v, cache[v], t)
        BY <2>1, <3>1, <3>2 DEF PlanInv, CacheSeen, Good
      <3>4. t \in Nat /\ t <= now
        BY <3>3, PartsBounded DEF AskedBy, PlanInv, IncidentTyped, Clocks
      <3>5. rows[i].since < t
        BY <2>1, <3>1, <3>2, <3>3, <3>4 DEF AskedBy, Tells, Good
      <3>6. Day(t) = Day(now)
        BY <2>1, <3>1, <3>4, <3>5, SameDay
      <3> QED
        BY <3>1, <3>3, <3>5, <3>6 DEF AskedBy, Seen
    <2>3. CASE \E r \in Readers : build[r].at = "store" /\
                   a = [view |-> build[r].view, asked |-> build[r].asked, red |-> build[r].red, list |-> build[r].list]
      <3>1. PICK r \in Readers : build[r].at = "store" /\
                   a = [view |-> build[r].view, asked |-> build[r].asked, red |-> build[r].red, list |-> build[r].list]
        BY <2>3
      <3>2. build[r].asked \in Nat
        BY <3>1, PartsBounded DEF PlanInv, IncidentTyped, AtRest, Building, Clocks
      <3>3. rows[i].since < a.asked
        BY <2>1, <3>1, <3>2 DEF Tells
      <3> QED
        BY <3>1, <3>3 DEF PlanInv, BuildSeen, Seen
    <2> QED
      BY <2>2, <2>3 DEF Answers
  <1> QED
    BY PlanAlwaysInv, <1>1, PTL

(***************************************************************************)
(* Operators load rows without a lock and write only what they changed;    *)
(* still no resolved incident is without the time it was resolved at.      *)
(***************************************************************************)
THEOREM ResolvedTimed == IncidentSpec => []ResolvedHasTime
  <1>1. IncidentInit => ResolvedHasTime
    BY DEF IncidentInit, ResolvedHasTime, NoIncident
  <1>2. PlanInv /\ ResolvedHasTime /\ [IncidentNext]_incidentVars => ResolvedHasTime'
    <2> SUFFICES ASSUME PlanInv, ResolvedHasTime, [IncidentNext]_incidentVars PROVE ResolvedHasTime'
      OBVIOUS
    <2>1. CASE UNCHANGED rows
      BY <2>1 DEF ResolvedHasTime
    <2>2. ASSUME NEW o \in part.operators, Commit(o) PROVE ResolvedHasTime'
      <3> DEFINE d == desk[o]
      <3>1. o \in Operators /\ rows \in [Incidents -> Record]
        BY PartsBounded DEF PlanInv, IncidentTyped
      <3>2. d.id \in Incidents /\ d.act \in Acts
        BY <2>2, <3>1, OnDesk DEF PlanInv, Commit, Busy
      <3>3. rows' = [rows EXCEPT ![d.id] = Result(d, rows[d.id])]
        BY <2>2 DEF Commit
      <3>4. Result(d, rows[d.id]).status = "resolved" => Result(d, rows[d.id]).ended
        BY <3>2 DEF Result, EndTime, ResolvedHasTime, Acts, Asks
      <3> QED
        BY <3>1, <3>2, <3>3, <3>4 DEF ResolvedHasTime
    <2>3. UNCHANGED rows \/ \E o \in part.operators : Commit(o)
      <3>1. CASE IncidentNext
        BY <3>1 DEF IncidentNext, Operate, Report, Load, Take, Write, RollBack, Serve, NewProcess, TimePasses
      <3>2. CASE UNCHANGED incidentVars
        BY <3>2 DEF incidentVars
      <3> QED
        BY <3>1, <3>2
    <2> QED
      BY <2>1, <2>2, <2>3
  <1> QED
    BY PlanAlwaysInv, <1>1, <1>2, PTL DEF IncidentSpec

-----------------------------------------------------------------------------
\* A set of numbers up to n has a largest one.
LEMMA Largest ==
    ASSUME NEW n \in Nat, NEW S, S \subseteq 1 .. n, S # {}
    PROVE  \E x \in S : \A y \in S : x >= y
  <1> DEFINE T == {1 .. k : k \in {j \in Nat : j <= n /\ S \subseteq 1 .. j}}
             R == StrictSubsetOrdering(1 .. n)
  <1>1. T \subseteq SUBSET (1 .. n) /\ T # {}
    <2>1. \A k \in Nat : k <= n => 1 .. k \subseteq 1 .. n
      OBVIOUS
    <2> QED
      BY <2>1
  <1>2. IsWellFoundedOn(R, SUBSET (1 .. n))
    <2>1. IsFiniteSet(1 .. n)
      BY FS_Interval
    <2> QED
      BY <2>1, FS_StrictSubsetOrderingWellFounded, FS_FiniteSubsetsOfFinite
  <1>3. \E x \in T : \A y \in T : <<y, x>> \notin R
    <2> HIDE DEF T, R
    <2> QED
      BY <1>1, <1>2, WFMin
  <1>4. PICK k \in Nat : k <= n /\ S \subseteq 1 .. k /\ \A y \in T : <<y, 1 .. k>> \notin R
    BY <1>3
  <1>5. k \in S
    <2> SUFFICES ASSUME k \notin S PROVE FALSE
      OBVIOUS
    <2>1. k # 0 /\ k - 1 \in Nat
      <3>1. PICK s \in S : TRUE
        OBVIOUS
      <3> QED
        BY <1>4, <3>1
    <2>2. S \subseteq 1 .. (k - 1)
      <3> SUFFICES ASSUME NEW s \in S PROVE s \in 1 .. (k - 1)
        OBVIOUS
      <3>1. s \in 1 .. k /\ s # k
        BY <1>4
      <3> QED
        BY <1>4, <3>1
    <2>3. 1 .. (k - 1) \in T
      BY <1>4, <2>1, <2>2
    <2>4. 1 .. (k - 1) \subseteq 1 .. k /\ k \in 1 .. k /\ k \notin 1 .. (k - 1) /\ 1 .. k \subseteq 1 .. n
      BY <1>4, <2>1
    <2>5. <<1 .. (k - 1), 1 .. k>> \in R
      BY <2>4 DEF StrictSubsetOrdering
    <2> QED
      BY <1>4, <2>3, <2>5
  <1> QED
    BY <1>4, <1>5

-----------------------------------------------------------------------------
(***************************************************************************)
(* The frames: their stamps are ahead of them by no more than a camera's   *)
(* clock, and one of them is the newest.                                   *)
(***************************************************************************)
FrameRow == [taken : Int, stamp : Int]
NewestFrame(i) ==
    \A j \in 1..Len(frames) :
        frames[j].stamp < frames[i].stamp \/ (frames[j].stamp = frames[i].stamp /\ j <= i)

FramesInv ==
    /\ clock \in Nat
    /\ frames \in Seq(FrameRow)
    /\ \A i \in 1..Len(frames) : frames[i].stamp <= frames[i].taken + Ahead
    /\ frames # <<>> => \E i \in 1..Len(frames) : NewestFrame(i)

(***************************************************************************)
(* Whatever a worker has in hand, queued or on its way is a frame that was *)
(* uploaded.                                                               *)
(***************************************************************************)
Uploaded(f) == f \in 1..Len(frames)
Queued == [frame : Nat, due : BOOLEAN]

WorkersInv ==
    /\ reader \in [at : {"idle", "read"}, frame : Nat, last : Nat]
    /\ reader.at = "read" => Uploaded(reader.frame)
    /\ counter \in [at : {"idle", "flush", "post", "tail"}, frame : Nat, keys : SUBSET Nat,
                    queue : Seq(Queued), dropped : SUBSET Nat]
    /\ counter.at \in {"flush", "post"} => Uploaded(counter.frame)
    /\ \A i \in 1..Len(counter.queue) : Uploaded(counter.queue[i].frame)
    /\ \A p \in late : p.kind \in Kinds /\ Uploaded(p.frame) /\ p.reading \in Reading

(***************************************************************************)
(* The observations are of uploaded frames and in the order of their time. *)
(***************************************************************************)
SeenRow == [frame : Nat, created : Int, reading : Reading]
SeenInv ==
    /\ seen \in [Kinds -> Seq(SeenRow)]
    /\ \A k \in Kinds : \A i \in 1..Len(seen[k]) :
         /\ Uploaded(seen[k][i].frame) /\ seen[k][i].created <= clock
         /\ \A j \in 1..i : seen[k][j].created <= seen[k][i].created

(***************************************************************************)
(* What an answer rests on since its question was asked: a row that exists, *)
(* of a frame young enough by its stamp, and nothing newer at that moment. *)
(***************************************************************************)
RestsOn(kind, obs, asked, limit) ==
    /\ obs \in 1..Len(seen[kind])
    /\ asked \in Int /\ asked <= clock
    /\ asked - frames[seen[kind][obs].frame].stamp <= limit
    /\ \A i \in (obs + 1)..Len(seen[kind]) : seen[kind][i].created >= asked

CropThere(kind, f) == \E c \in crops : c.kind = kind /\ c.frame = f

Thread == [at : {"idle", "cut", "send"}, question : {"none", "ticket", "detail"},
           obs : Nat, asked : Int, issued : Int]
ThreadInv ==
    /\ thread \in Thread
    /\ thread.at # "idle" =>
        /\ RestsOn("ocr", thread.obs, thread.asked, MaxAge)
        /\ thread.at = "send" => \A k \in Pictures : CropThere(k, Ocr(thread.obs).frame)

SentInv ==
    \A m \in sent :
        /\ m.issued \in Int
        /\ RestsOn(KindOf(m), m.obs, m.asked, Limit(m))
        /\ m.pictures # {} => KindOf(m) = "ocr"
        /\ \A k \in m.pictures : CropThere(k, FrameOf(m))

EvidenceInv == FramesInv /\ WorkersInv /\ SeenInv /\ ThreadInv /\ SentInv

-----------------------------------------------------------------------------
LEMMA AheadIs == Ahead \in Int /\ 0 <= Ahead /\ \A d \in Drifts : d <= Ahead
  <1> DEFINE Top(x) == \A y \in Drifts : x >= y
  <1>1. \E x \in Drifts : Top(x)
    BY EvidenceAssumption
  <1>2. Ahead \in Drifts /\ Top(Ahead)
    <2>1. Ahead = CHOOSE x \in Drifts : Top(x)
      BY DEF Ahead, Max
    <2> HIDE DEF Top
    <2> QED
      BY <1>1, <2>1
  <1> QED
    BY <1>2, EvidenceAssumption

LEMMA LatestUploaded == FramesInv /\ Latest # 0 => Uploaded(Latest)
  <1> SUFFICES ASSUME FramesInv, Latest # 0 PROVE Uploaded(Latest)
    OBVIOUS
  <1>1. frames # <<>> /\ Latest = CHOOSE i \in 1..Len(frames) : NewestFrame(i)
    BY DEF Latest, NewestFrame
  <1>2. \E i \in 1..Len(frames) : NewestFrame(i)
    BY <1>1 DEF FramesInv
  <1> QED
    BY <1>1, <1>2 DEF Uploaded

LEMMA EvidenceInvInit == EvidenceInit => EvidenceInv
  <1> SUFFICES ASSUME EvidenceInit PROVE EvidenceInv
    OBVIOUS
  <1>1. FramesInv
    BY DEF EvidenceInit, FramesInv, FrameRow
  <1>2. WorkersInv
    BY DEF EvidenceInit, WorkersInv, IdleReader, IdleCounter, Queued
  <1>3. SeenInv
    BY DEF EvidenceInit, SeenInv
  <1>4. ThreadInv /\ SentInv
    BY DEF EvidenceInit, ThreadInv, SentInv, NoThread, Thread
  <1> QED
    BY <1>1, <1>2, <1>3, <1>4 DEF EvidenceInv

(***************************************************************************)
(* One step: frames and observations are only added, with the time of the  *)
(* moment.                                                                 *)
(***************************************************************************)
NewRow ==
    /\ frames' = frames /\ clock' = clock
    /\ \E k \in Kinds, f \in 1..Len(frames), r \in Reading : seen' = Row(k, f, r)

LEMMA HeardRow ==
    ASSUME NEW k \in Kinds, NEW f \in 1..Len(frames), NEW r \in Reading,
           Heard(k, f, r) \/ Unanswered(k, f, r), UNCHANGED <<frames, clock>>
    PROVE  /\ UNCHANGED seen \/ NewRow
           /\ \A p \in late' : p \in late \/ p = [kind |-> k, frame |-> f, reading |-> r]
  BY DEF Heard, Unanswered, NewRow

LEMMA FramesStep == EvidenceInv /\ [EvidenceNext]_evidenceVars => FramesInv'
  <1> SUFFICES ASSUME FramesInv, [EvidenceNext]_evidenceVars PROVE FramesInv'
    BY DEF EvidenceInv
  <1>1. CASE Upload
    <2>1. PICK drift \in Drifts :
            frames' = Append(frames, [taken |-> IF drift < 0 THEN clock + drift ELSE clock, stamp |-> clock + drift])
      BY <1>1 DEF Upload
    <2> DEFINE new == [taken |-> IF drift < 0 THEN clock + drift ELSE clock, stamp |-> clock + drift]
    <2>2. clock' = clock /\ clock \in Nat /\ frames \in Seq(FrameRow) /\ drift \in Int
      BY <1>1, EvidenceAssumption DEF Upload, FramesInv
    <2>3. new \in FrameRow /\ new.stamp <= new.taken + Ahead
      BY <2>2, AheadIs DEF FrameRow
    <2>4. /\ frames' \in Seq(FrameRow) /\ Len(frames') = Len(frames) + 1
          /\ frames'[Len(frames) + 1] = new
          /\ \A i \in 1..Len(frames) : frames'[i] = frames[i]
      BY <2>1, <2>2, <2>3
    <2>5. \A i \in 1..Len(frames') : frames'[i].stamp <= frames'[i].taken + Ahead
      BY <2>2, <2>3, <2>4 DEF FramesInv
    <2>6. \E i \in 1..Len(frames') : NewestFrame(i)'
      <3>1. CASE frames = <<>>
        BY <2>2, <2>3, <2>4, <3>1 DEF NewestFrame, FrameRow
      <3>2. CASE frames # <<>>
        <4> DEFINE N == Len(frames)
        <4>1. PICK n \in 1..N : NewestFrame(n)
          BY <3>2 DEF FramesInv
        <4>2. N \in Nat /\ \A j \in 1..N : frames[j] \in FrameRow
          BY <2>2
        <4>3. new.stamp \in Int /\ \A j \in 1..N : frames[j].stamp \in Int
          BY <2>3, <4>2 DEF FrameRow
        <4>4. \A j \in 1..(N + 1) : j = N + 1 \/ j \in 1..N
          BY <4>2
        <4> HIDE DEF new, N
        <4>5. CASE new.stamp >= frames[n].stamp
          <5>1. \A j \in 1..N : frames[j].stamp <= new.stamp /\ j <= N + 1
            BY <4>1, <4>2, <4>3, <4>5 DEF NewestFrame, N
          <5>2. \A j \in 1..N : frames'[j].stamp < new.stamp \/ (frames'[j].stamp = new.stamp /\ j <= N + 1)
            BY <2>4, <4>3, <5>1 DEF N
          <5>3. PICK last \in Nat : last = N + 1
            BY <4>2
          <5>4. NewestFrame(last)'
            BY <2>4, <4>2, <4>4, <5>2, <5>3 DEF NewestFrame, N
          <5> QED
            BY <2>4, <4>2, <5>3, <5>4 DEF N
        <4>6. CASE new.stamp < frames[n].stamp
          <5>1. NewestFrame(n)'
            BY <2>4, <4>1, <4>2, <4>4, <4>6 DEF NewestFrame, N
          <5> QED
            BY <2>4, <4>1, <4>2, <5>1 DEF N
        <4> QED
          BY <4>1, <4>3, <4>5, <4>6
      <3> QED
        BY <3>1, <3>2
    <2> QED
      BY <2>2, <2>4, <2>5, <2>6 DEF FramesInv
  <1>2. CASE Tick
    <2>1. frames' = frames /\ clock' = clock + 1
      BY <1>2 DEF Tick
    <2> QED
      BY <2>1 DEF FramesInv, NewestFrame
  <1>3. CASE UNCHANGED <<clock, frames>>
    BY <1>3 DEF FramesInv, NewestFrame
  <1>4. Upload \/ Tick \/ UNCHANGED <<clock, frames>>
    BY DEF EvidenceNext, evidenceVars, Rebind, LateArrives, ReaderStep, CounterStep, BackoffEnds, Restart, AnswerStep
  <1> QED
    BY <1>1, <1>2, <1>3, <1>4

LEMMA FramesGrow ==
    ASSUME EvidenceInv, [EvidenceNext]_evidenceVars
    PROVE  /\ Len(frames) \in Nat /\ Len(frames') \in Nat /\ Len(frames) <= Len(frames')
           /\ \A i \in 1..Len(frames) : frames'[i] = frames[i] /\ frames[i].stamp \in Int
           /\ clock \in Nat /\ clock' \in Nat /\ clock <= clock'
           /\ \A f : Uploaded(f) => Uploaded(f)'
  <1>1. clock \in Nat /\ clock' \in Nat /\ frames \in Seq(FrameRow)
    BY FramesStep DEF EvidenceInv, FramesInv
  <1>2. Len(frames) \in Nat /\ \A i \in 1..Len(frames) : frames[i].stamp \in Int
    <2>1. Len(frames) \in Nat /\ \A i \in 1..Len(frames) : frames[i] \in FrameRow
      BY <1>1
    <2> QED
      BY <2>1 DEF FrameRow
  <1>3. CASE Upload
    <2>1. clock' = clock /\ \E x \in FrameRow : frames' = Append(frames, x)
      <3>1. PICK drift \in Drifts :
              frames' = Append(frames, [taken |-> IF drift < 0 THEN clock + drift ELSE clock, stamp |-> clock + drift])
        BY <1>3 DEF Upload
      <3>2. drift \in Int
        BY EvidenceAssumption
      <3>3. [taken |-> IF drift < 0 THEN clock + drift ELSE clock, stamp |-> clock + drift] \in FrameRow
        BY <1>1, <3>2 DEF FrameRow
      <3> QED
        BY <1>3, <3>1, <3>3 DEF Upload
    <2> QED
      BY <1>1, <1>2, <2>1 DEF Uploaded
  <1>4. CASE UNCHANGED frames /\ (clock' = clock \/ clock' = clock + 1)
    BY <1>1, <1>2, <1>4 DEF Uploaded
  <1>5. Upload \/ (UNCHANGED frames /\ (clock' = clock \/ clock' = clock + 1))
    BY DEF EvidenceNext, evidenceVars, Tick, Rebind, LateArrives, ReaderStep, CounterStep, BackoffEnds, Restart,
           AnswerStep
  <1> QED
    BY <1>3, <1>4, <1>5

LEMMA WorkersStep ==
    ASSUME EvidenceInv, [EvidenceNext]_evidenceVars
    PROVE  /\ WorkersInv'
           /\ UNCHANGED seen \/ NewRow
  <1> WorkersInv /\ FramesInv
    BY DEF EvidenceInv
  <1> DEFINE Known(f) == f \in Nat /\ f \in 1..Len(frames')
  <1>1. \A f : Uploaded(f) => Known(f)
    BY FramesGrow DEF Uploaded
  <1>2. Latest # 0 => Known(Latest) /\ Uploaded(Latest)
    BY <1>1, LatestUploaded
  <1>3. Readings \subseteq Reading /\ NoReading \in Reading
    BY EvidenceAssumption DEF NoReading, Reading
  <1>4. reader.frame \in Nat /\ counter.frame \in Nat /\ counter.queue \in Seq(Queued)
    BY DEF WorkersInv
  <1>5. \A i \in 1..Len(counter.queue) : Known(counter.queue[i].frame) /\ counter.queue[i] \in Queued
    BY <1>1, <1>4 DEF WorkersInv
  <1>6. \A p \in late : p.kind \in Kinds /\ Known(p.frame) /\ p.reading \in Reading
    BY <1>1 DEF WorkersInv
  <1> DEFINE LateOK == \A p \in late' : p.kind \in Kinds /\ Uploaded(p.frame)' /\ p.reading \in Reading
             ReaderOK == /\ reader' \in [at : {"idle", "read"}, frame : Nat, last : Nat]
                         /\ reader'.at = "read" => Uploaded(reader.frame)'
             CounterOK == /\ counter' \in [at : {"idle", "flush", "post", "tail"}, frame : Nat, keys : SUBSET Nat,
                                           queue : Seq(Queued), dropped : SUBSET Nat]
                          /\ counter'.at \in {"flush", "post"} => Uploaded(counter.frame)'
                          /\ \A i \in 1..Len(counter'.queue) : Uploaded(counter.queue[i].frame)'
  <1>7. ReaderOK /\ CounterOK /\ LateOK => WorkersInv'
    BY DEF WorkersInv
  <1>8. UNCHANGED late => LateOK
    BY <1>6 DEF Uploaded
  <1>9. UNCHANGED reader => ReaderOK
    BY <1>1 DEF WorkersInv, Uploaded
  <1>10. UNCHANGED counter => CounterOK
    BY <1>1, <1>5 DEF WorkersInv, Uploaded
  <1> HIDE DEF Known, Uploaded, LateOK, ReaderOK, CounterOK
  <1>11. ASSUME NEW k \in Kinds, NEW f, NEW r \in Reading, Uploaded(f), Heard(k, f, r) \/ Unanswered(k, f, r),
                UNCHANGED <<frames, clock>>
         PROVE  LateOK /\ (UNCHANGED seen \/ NewRow)
    BY <1>1, <1>6, <1>11, HeardRow DEF Uploaded, LateOK, Known, Uploaded
  <1>12. CASE Upload \/ Tick \/ Rebind \/ AnswerStep \/ UNCHANGED evidenceVars
    BY <1>7, <1>8, <1>9, <1>10, <1>12 DEF Upload, Tick, Rebind, AnswerStep, evidenceVars, workers
  <1>13. CASE LateArrives
    <2>1. LateOK
      BY <1>6, <1>13 DEF LateArrives, LateOK, Known, Uploaded
    <2>2. NewRow
      BY <1>13 DEF LateArrives, NewRow, WorkersInv, Uploaded
    <2> QED
      BY <1>7, <1>9, <1>10, <1>13, <2>1, <2>2 DEF LateArrives
  <1>14. CASE ReaderStep
    <2>1. UNCHANGED <<counter, frames, clock>>
      <3>1. UNCHANGED <<frames, clock>>
        BY <1>14 DEF ReaderStep
      <3> QED
        BY <1>14, <3>1 DEF ReaderStep, Fetch, Process
    <2>2. CASE Fetch
      <3>1. reader' = [reader EXCEPT !.at = "read", !.frame = Latest]
        BY <2>2 DEF Fetch
      <3>2. ReaderOK
        BY <1>2, <2>2, <3>1 DEF Fetch, WorkersInv, ReaderOK, Known, Uploaded
      <3> QED
        BY <1>7, <1>8, <1>10, <2>1, <2>2, <3>2 DEF Fetch
    <2>3. CASE Process
      <3>1. PICK r \in Readings : Heard("ocr", reader.frame, r) \/ Unanswered("ocr", reader.frame, r)
        BY <2>3 DEF Process
      <3>2. Uploaded(reader.frame)
        BY <2>3 DEF Process, WorkersInv
      <3>3. LateOK /\ (UNCHANGED seen \/ NewRow)
        BY <1>3, <1>11, <2>1, <3>1, <3>2 DEF Kinds
      <3>4. ReaderOK
        BY <1>4, <2>3 DEF Process, IdleReader, ReaderOK
      <3> QED
        BY <1>7, <1>10, <2>1, <3>3, <3>4
    <2> QED
      BY <1>14, <2>2, <2>3 DEF ReaderStep
  <1>15. CASE CounterStep
    <2>1. UNCHANGED <<reader, frames, clock>>
      BY <1>15 DEF CounterStep
    <2>2. CASE Look
      <3>1. CASE Latest \in counter.keys
        <4>1. counter' = [counter EXCEPT !.at = "tail"]
          BY <2>2, <3>1 DEF Look, Skip, GoOn
        <4>2. counter'.at = "tail" /\ counter'.queue = counter.queue
          BY <4>1 DEF WorkersInv
        <4>3. counter' \in [at : {"idle", "flush", "post", "tail"}, frame : Nat, keys : SUBSET Nat,
                            queue : Seq(Queued), dropped : SUBSET Nat]
          BY <4>1 DEF WorkersInv
        <4>4. \A i \in 1..Len(counter'.queue) : counter'.queue[i].frame \in 1..Len(frames')
          BY <1>5, <4>2 DEF Known
        <4>5. CounterOK
          BY <4>2, <4>3, <4>4 DEF CounterOK, Uploaded
        <4> QED
          BY <1>7, <1>8, <1>9, <2>1, <2>2, <4>5 DEF Look
      <3>2. CASE Latest \notin counter.keys
        <4>1. counter' = [counter EXCEPT !.at = "flush", !.frame = Latest, !.keys = @ \cup {Latest}]
          BY <2>2, <3>2 DEF Look
        <4>2. Known(Latest)
          BY <1>2, <2>2 DEF Look
        <4>3. Latest \in Nat /\ counter.keys \cup {Latest} \in SUBSET Nat
          BY <4>2 DEF WorkersInv, Known
        <4>4. PICK l \in Nat : l = Latest
          BY <4>3
        <4>5. counter' = [counter EXCEPT !.at = "flush", !.frame = l, !.keys = @ \cup {l}]
          BY <4>1, <4>4
        <4>6. counter'.frame = l /\ counter'.queue = counter.queue
          BY <4>5 DEF WorkersInv
        <4>7. PICK keys \in SUBSET Nat : keys = counter.keys \cup {l}
          BY <4>3, <4>4
        <4>8. counter' = [counter EXCEPT !.at = "flush", !.frame = l, !.keys = keys]
          BY <4>5, <4>7
        <4>9. counter' \in [at : {"idle", "flush", "post", "tail"}, frame : Nat, keys : SUBSET Nat,
                            queue : Seq(Queued), dropped : SUBSET Nat]
          BY <4>8 DEF WorkersInv
        <4>10. \A i \in 1..Len(counter'.queue) : counter'.queue[i].frame \in 1..Len(frames')
          BY <1>5, <4>6 DEF Known
        <4>11. counter'.frame \in 1..Len(frames')
          BY <4>2, <4>4, <4>6 DEF Known
        <4>12. CounterOK
          BY <4>9, <4>10, <4>11 DEF CounterOK, Uploaded
        <4> QED
          BY <1>7, <1>8, <1>9, <2>1, <2>2, <4>12 DEF Look
      <3> QED
        BY <1>7, <1>8, <1>9, <2>1, <2>2, <3>1, <3>2 DEF Look
    <2>3. CASE FlushOne
      <3> DEFINE f == Head(counter.queue).frame
      <3>1. counter.queue # <<>> /\ f = counter.queue[1].frame /\ 1 \in 1..Len(counter.queue)
        BY <1>4, <2>3 DEF FlushOne, Due
      <3>2. Uploaded(f)
        BY <3>1 DEF WorkersInv
      <3>3. Heard("people", f, NoReading) \/ Unanswered("people", f, NoReading)
        BY <2>3 DEF FlushOne
      <3>4. LateOK /\ (UNCHANGED seen \/ NewRow)
        BY <1>3, <1>11, <2>1, <3>2, <3>3 DEF Kinds
      <3>5. CASE counter' = [counter EXCEPT !.queue = Tail(@)]
        <4>1. Tail(counter.queue) \in Seq(Queued) /\ Len(Tail(counter.queue)) = Len(counter.queue) - 1
              /\ \A i \in 1..Len(Tail(counter.queue)) : Tail(counter.queue)[i] = counter.queue[i + 1]
                                                        /\ i + 1 \in 1..Len(counter.queue)
          BY <1>4, <3>1
        <4>2. CounterOK
          BY <1>1, <1>5, <3>5, <4>1 DEF WorkersInv, CounterOK, Known, Uploaded
        <4> QED
          BY <1>7, <1>9, <2>1, <3>4, <4>2
      <3>6. CASE counter' = [counter EXCEPT !.queue = [counter.queue EXCEPT ![1].due = FALSE],
                                            !.at = IF counter.at = "flush" THEN "post" ELSE "idle"]
        <4> DEFINE q == [counter.queue EXCEPT ![1].due = FALSE]
        <4>1. PICK head : head = [counter.queue[1] EXCEPT !.due = FALSE]
          OBVIOUS
        <4>2. head \in Queued /\ head.frame = counter.queue[1].frame
          BY <1>5, <3>1, <4>1 DEF Queued
        <4>3. q \in Seq(Queued) /\ Len(q) = Len(counter.queue)
              /\ \A i \in 1..Len(counter.queue) : q[i].frame = counter.queue[i].frame
          <5>1. q = [counter.queue EXCEPT ![1] = head]
            BY <4>1
          <5> HIDE DEF q
          <5> QED
            BY <1>4, <3>1, <4>2, <5>1
        <4>4. CounterOK
          <5> HIDE DEF q
          <5>1. counter' = [counter EXCEPT !.queue = q, !.at = IF counter.at = "flush" THEN "post" ELSE "idle"]
            BY <3>6 DEF q
          <5> QED
            BY <1>1, <1>5, <2>3, <4>3, <5>1 DEF FlushOne, WorkersInv, CounterOK, Known, Uploaded
        <4> QED
          BY <1>7, <1>9, <2>1, <3>4, <4>4
      <3> QED
        BY <2>3, <3>5, <3>6 DEF FlushOne
    <2>4. CASE FlushDone
      <3>1. CounterOK
        BY <1>1, <1>5, <2>4 DEF FlushDone, GoOn, WorkersInv, CounterOK, Known, Uploaded
      <3> QED
        BY <1>7, <1>8, <1>9, <2>1, <2>4, <3>1 DEF FlushDone
    <2>5. CASE PostCount
      <3>1. Uploaded(counter.frame)
        BY <2>5 DEF PostCount, WorkersInv
      <3>2. Heard("people", counter.frame, NoReading) \/ Unanswered("people", counter.frame, NoReading)
        BY <2>5 DEF PostCount
      <3>3. LateOK /\ (UNCHANGED seen \/ NewRow)
        BY <1>3, <1>11, <2>1, <3>1, <3>2 DEF Kinds
      <3>4. CASE GoOn("tail")
        <4>1. CounterOK
          BY <1>1, <1>5, <3>4 DEF GoOn, WorkersInv, CounterOK, Known, Uploaded
        <4> QED
          BY <1>7, <1>9, <2>1, <3>3, <4>1
      <3>5. CASE counter' = Enqueued(counter.frame)
        <4> DEFINE full == Len(counter.queue) = QueueSize
                   rest == IF full THEN Tail(counter.queue) ELSE counter.queue
                   item == [frame |-> counter.frame, due |-> FALSE]
                   dropped == IF full THEN counter.dropped \cup {Head(counter.queue).frame} ELSE counter.dropped
        <4>1. QueueSize \in Nat \ {0}
          BY EvidenceAssumption
        <4>2. /\ rest \in Seq(Queued) /\ Len(rest) \in Nat
              /\ \A i \in 1..Len(rest) : Known(rest[i].frame)
          <5>1. CASE full
            <6>1. /\ rest = Tail(counter.queue) /\ counter.queue # <<>>
                  /\ Len(rest) = Len(counter.queue) - 1 /\ rest \in Seq(Queued)
                  /\ \A i \in 1..Len(rest) : rest[i] = counter.queue[i + 1] /\ i + 1 \in 1..Len(counter.queue)
              BY <1>4, <4>1, <5>1
            <6> HIDE DEF rest, full
            <6> QED
              BY <1>5, <6>1
          <5>2. CASE ~full
            BY <1>4, <1>5, <5>2
          <5> QED
            BY <5>1, <5>2
        <4>3. dropped \in SUBSET Nat
          BY <1>4, <1>5, <4>1 DEF WorkersInv, Queued
        <4>4. item \in Queued
          BY <1>4 DEF Queued
        <4>5. counter' = [counter EXCEPT !.at = "tail", !.queue = Append(rest, item), !.dropped = dropped]
          BY <3>5 DEF Enqueued
        <4> HIDE DEF full, rest, dropped
        <4>6. /\ Append(rest, item) \in Seq(Queued) /\ Len(Append(rest, item)) = Len(rest) + 1
              /\ \A i \in 1..Len(rest) : Append(rest, item)[i] = rest[i]
              /\ Append(rest, item)[Len(rest) + 1] = item
          BY <4>2, <4>4
        <4>7. Known(item.frame)
          BY <1>1, <3>1
        <4> HIDE DEF item
        <4>8. \A i \in 1..Len(Append(rest, item)) : Known(Append(rest, item)[i].frame)
          BY <4>2, <4>6, <4>7
        <4>9. CounterOK
          BY <4>3, <4>5, <4>6, <4>8 DEF WorkersInv, CounterOK, Known, Uploaded
        <4> QED
          BY <1>7, <1>9, <2>1, <3>3, <4>9
      <3> QED
        BY <2>5, <3>4, <3>5 DEF PostCount
    <2> QED
      BY <1>15, <2>2, <2>3, <2>4, <2>5 DEF CounterStep
  <1>16. CASE BackoffEnds
    <2>1. counter.queue # <<>> /\ 1 \in 1..Len(counter.queue)
      BY <1>4, <1>16 DEF BackoffEnds
    <2> DEFINE q == [counter.queue EXCEPT ![1].due = TRUE]
    <2>2. q \in Seq(Queued) /\ Len(q) = Len(counter.queue)
          /\ \A i \in 1..Len(counter.queue) : q[i].frame = counter.queue[i].frame
      <3>1. PICK head : head = [counter.queue[1] EXCEPT !.due = TRUE]
        OBVIOUS
      <3>2. head \in Queued /\ head.frame = counter.queue[1].frame
        BY <1>5, <2>1, <3>1 DEF Queued
      <3>3. q = [counter.queue EXCEPT ![1] = head]
        BY <3>1
      <3> HIDE DEF q
      <3> QED
        BY <1>4, <2>1, <3>2, <3>3
    <2>4. counter' = [counter EXCEPT !.queue = q]
      BY <1>16 DEF BackoffEnds
    <2> HIDE DEF q
    <2>5. CounterOK
      BY <1>1, <1>5, <2>2, <2>4 DEF WorkersInv, CounterOK, Known, Uploaded
    <2> QED
      BY <1>7, <1>8, <1>9, <1>16, <2>5 DEF BackoffEnds
  <1>17. CASE Restart
    <2>1. IdleReader \in [at : {"idle", "read"}, frame : Nat, last : Nat] /\ IdleReader.at = "idle"
      BY DEF IdleReader
    <2>2. CASE RestartReader
      BY <1>7, <1>8, <1>10, <1>17, <2>1, <2>2 DEF Restart, RestartReader, ReaderOK
    <2>3. CASE RestartCounter
      <3>1. CounterOK
        BY <2>3 DEF RestartCounter, IdleCounter, CounterOK
      <3> QED
        BY <1>7, <1>8, <1>9, <2>3, <3>1 DEF RestartCounter
    <2> QED
      BY <1>17, <2>2, <2>3 DEF Restart
  <1> QED
    BY <1>12, <1>13, <1>14, <1>15, <1>16, <1>17 DEF EvidenceNext

(***************************************************************************)
(* The observations: what is there stays, what comes has the time of the   *)
(* moment.                                                                 *)
(***************************************************************************)
LEMMA SeenStep ==
    ASSUME EvidenceInv, [EvidenceNext]_evidenceVars
    PROVE  /\ SeenInv'
           /\ \A k \in Kinds :
                /\ Len(seen[k]) \in Nat /\ Len(seen'[k]) \in Nat /\ Len(seen[k]) <= Len(seen'[k])
                /\ \A i \in 1..Len(seen[k]) : seen'[k][i] = seen[k][i]
                /\ \A i \in (Len(seen[k]) + 1)..Len(seen'[k]) : seen'[k][i].created >= clock
  <1> SeenInv /\ FramesInv
    BY DEF EvidenceInv
  <1>1. /\ clock \in Nat /\ clock' \in Nat /\ clock <= clock'
        /\ \A f : f \in 1..Len(frames) => f \in 1..Len(frames')
    BY FramesGrow DEF Uploaded
  <1>2. \A k \in Kinds : seen[k] \in Seq(SeenRow) /\ Len(seen[k]) \in Nat
    BY DEF SeenInv
  <1>3. \A k \in Kinds : \A i \in 1..Len(seen[k]) :
          /\ seen[k][i] \in SeenRow /\ seen[k][i].created \in Int
          /\ seen[k][i].frame \in 1..Len(frames') /\ seen[k][i].created <= clock
          /\ \A j \in 1..i : seen[k][j].created <= seen[k][i].created
    <2> TAKE k \in Kinds
    <2> TAKE i \in 1..Len(seen[k])
    <2>1. seen[k][i] \in SeenRow
      BY <1>2
    <2> QED
      BY <1>1, <2>1 DEF SeenInv, Uploaded, SeenRow
  <1>4. CASE UNCHANGED seen
    <2>1. SeenInv'
      BY <1>1, <1>3, <1>4 DEF SeenInv, Uploaded
    <2> QED
      BY <1>2, <1>4, <2>1
  <1>5. CASE NewRow
    <2>1. PICK k \in Kinds, f \in 1..Len(frames), r \in Reading : seen' = Row(k, f, r)
      BY <1>5 DEF NewRow
    <2>2. clock' = clock
      BY <1>5 DEF NewRow
    <2> DEFINE row == [frame |-> f, created |-> clock, reading |-> r]
               n == Len(seen[k])
    <2>3. row \in SeenRow
      BY <1>1 DEF SeenRow
    <2>4. n \in Nat /\ seen[k] \in Seq(SeenRow)
      BY <1>2
    <2>5. /\ seen'[k] = Append(seen[k], row)
          /\ \A kk \in Kinds : kk # k => seen'[kk] = seen[kk]
          /\ seen' = [seen EXCEPT ![k] = Append(seen[k], row)]
      BY <2>1 DEF Row, SeenInv
    <2>6. row.frame \in 1..Len(frames') /\ row.created = clock
      BY <1>1
    <2> HIDE DEF row, n
    <2>7. /\ seen'[k] \in Seq(SeenRow) /\ Len(seen'[k]) = n + 1
          /\ \A i \in 1..n : seen'[k][i] = seen[k][i]
          /\ seen'[k][n + 1] = row
      BY <2>3, <2>4, <2>5 DEF n
    <2>8. seen' \in [Kinds -> Seq(SeenRow)]
      BY <2>3, <2>4, <2>5 DEF SeenInv
    <2>9. ASSUME NEW i \in 1..Len(seen'[k])
          PROVE  /\ seen'[k][i].frame \in 1..Len(frames') /\ seen'[k][i].created <= clock
                 /\ \A j \in 1..i : seen'[k][j].created <= seen'[k][i].created
      <3>1. CASE i = n + 1
        <4>1. \A j \in 1..i : j = n + 1 \/ j \in 1..n
          BY <2>4, <3>1
        <4>2. seen'[k][i].frame \in 1..Len(frames') /\ seen'[k][i].created = clock
          BY <2>6, <2>7, <3>1
        <4>3. \A j \in 1..n : seen'[k][j].created <= clock
          BY <1>3, <2>7 DEF n
        <4> QED
          BY <1>1, <3>1, <4>1, <4>2, <4>3
      <3>2. CASE i \in 1..n
        <4>1. \A j \in 1..i : j \in 1..n
          BY <2>4, <3>2
        <4> QED
          BY <1>3, <2>7, <3>2, <4>1 DEF n
      <3> QED
        BY <2>4, <2>7, <3>1, <3>2
    <2>10. ASSUME NEW kk \in Kinds, NEW i \in 1..Len(seen'[kk])
           PROVE  /\ seen'[kk][i].frame \in 1..Len(frames') /\ seen'[kk][i].created <= clock'
                  /\ \A j \in 1..i : seen'[kk][j].created <= seen'[kk][i].created
      BY <1>3, <2>2, <2>5, <2>9
    <2>11. SeenInv'
      BY <2>8, <2>10 DEF SeenInv, Uploaded
    <2>12. \A i \in (n + 1)..(n + 1) : seen'[k][i].created >= clock
      BY <1>1, <2>4, <2>6, <2>7
    <2>13. /\ Len(seen[k]) \in Nat /\ Len(seen'[k]) \in Nat /\ Len(seen[k]) <= Len(seen'[k])
           /\ \A i \in 1..Len(seen[k]) : seen'[k][i] = seen[k][i]
           /\ \A i \in (Len(seen[k]) + 1)..Len(seen'[k]) : seen'[k][i].created >= clock
      BY <2>4, <2>7, <2>12 DEF n
    <2>14. \A kk \in Kinds : kk # k =>
             /\ Len(seen[kk]) \in Nat /\ Len(seen'[kk]) \in Nat /\ Len(seen[kk]) <= Len(seen'[kk])
             /\ \A i \in 1..Len(seen[kk]) : seen'[kk][i] = seen[kk][i]
             /\ \A i \in (Len(seen[kk]) + 1)..Len(seen'[kk]) : seen'[kk][i].created >= clock
      BY <1>2, <2>5
    <2> QED
      BY <2>11, <2>13, <2>14
  <1> QED
    BY <1>4, <1>5, WorkersStep

\* What an answer rests on does not go away.
LEMMA RestsKept ==
    ASSUME EvidenceInv, [EvidenceNext]_evidenceVars,
           NEW kind \in Kinds, NEW obs, NEW asked, NEW limit \in Int, RestsOn(kind, obs, asked, limit)
    PROVE  RestsOn(kind, obs, asked, limit)'
  <1>1. /\ Len(seen[kind]) \in Nat /\ Len(seen'[kind]) \in Nat /\ Len(seen[kind]) <= Len(seen'[kind])
        /\ \A i \in 1..Len(seen[kind]) : seen'[kind][i] = seen[kind][i]
        /\ \A i \in (Len(seen[kind]) + 1)..Len(seen'[kind]) : seen'[kind][i].created >= clock
    BY SeenStep
  <1>2. /\ clock \in Nat /\ clock' \in Nat /\ clock <= clock'
        /\ \A i \in 1..Len(frames) : frames'[i] = frames[i]
    BY FramesGrow
  <1>3. obs \in 1..Len(seen[kind]) /\ asked \in Int /\ asked <= clock
        /\ \A i \in (obs + 1)..Len(seen[kind]) : seen[kind][i].created >= asked
    BY DEF RestsOn
  <1>4. seen[kind][obs].frame \in 1..Len(frames)
    BY <1>3 DEF EvidenceInv, SeenInv, Uploaded
  <1>5. asked - frames'[seen'[kind][obs].frame].stamp <= limit
    BY <1>1, <1>2, <1>3, <1>4 DEF RestsOn
  <1>6. ASSUME NEW i \in (obs + 1)..Len(seen'[kind])
        PROVE  seen'[kind][i].created >= asked
    <2>1. CASE i <= Len(seen[kind])
      <3>1. i \in 1..Len(seen[kind]) /\ i \in (obs + 1)..Len(seen[kind])
        BY <1>1, <1>3, <2>1
      <3> QED
        BY <1>1, <1>3, <3>1
    <2>2. CASE i > Len(seen[kind])
      <3>1. i \in (Len(seen[kind]) + 1)..Len(seen'[kind])
        BY <1>1, <1>3, <2>2
      <3>2. seen'[kind][i].created >= clock
        BY <1>1, <3>1
      <3>3. seen'[kind][i].created \in Int
        <4>1. seen'[kind] \in Seq(SeenRow) /\ i \in 1..Len(seen'[kind])
          BY SeenStep, <1>1, <1>3 DEF SeenInv
        <4>2. seen'[kind][i] \in SeenRow
          BY <4>1
        <4> QED
          BY <4>2 DEF SeenRow
      <3> QED
        BY <1>2, <1>3, <3>2, <3>3
    <2> QED
      BY <1>1, <1>3, <2>1, <2>2
  <1> QED
    BY <1>1, <1>2, <1>3, <1>5, <1>6 DEF RestsOn

-----------------------------------------------------------------------------
(***************************************************************************)
(* The crops: a picture that is there is replaced, not removed.            *)
(***************************************************************************)
LEMMA StoredKeeps ==
    ASSUME NEW kinds, NEW kind, NEW f, CropThere(kind, f)
    PROVE  \E c \in Stored(kinds) : c.kind = kind /\ c.frame = f
  <1> DEFINE cut == Ocr(thread.obs).frame
             new(k) == [kind |-> k, frame |-> cut, image |-> ImageOf(cut), obs |-> thread.obs]
  <1>1. Stored(kinds) = {c \in crops : c.frame # cut \/ c.kind \notin kinds} \cup {new(k) : k \in kinds}
    BY DEF Stored
  <1>2. PICK c \in crops : c.kind = kind /\ c.frame = f
    BY DEF CropThere
  <1>3. CASE f = cut /\ kind \in kinds
    <2>1. new(kind) \in Stored(kinds)
      BY <1>1, <1>3
    <2> QED
      BY <1>3, <2>1
  <1>4. CASE ~(f = cut /\ kind \in kinds)
    BY <1>1, <1>2, <1>4
  <1> QED
    BY <1>3, <1>4

LEMMA StoredHas ==
    ASSUME NEW kinds, NEW kind \in kinds
    PROVE  \E c \in Stored(kinds) : c.kind = kind /\ c.frame = Ocr(thread.obs).frame
  <1> DEFINE new(k) == [kind |-> k, frame |-> Ocr(thread.obs).frame, image |-> ImageOf(Ocr(thread.obs).frame),
                        obs |-> thread.obs]
  <1>1. new(kind) \in Stored(kinds)
    BY DEF Stored
  <1> QED
    BY <1>1

LEMMA CropsKept ==
    ASSUME EvidenceInv, [EvidenceNext]_evidenceVars, NEW kind, NEW f, CropThere(kind, f)
    PROVE  CropThere(kind, f)'
  <1>1. CASE UNCHANGED crops
    BY <1>1 DEF CropThere
  <1>2. CASE \E kinds : crops' = Stored(kinds)
    BY <1>2, StoredKeeps DEF CropThere
  <1>3. UNCHANGED crops \/ \E kinds : crops' = Stored(kinds)
    <2>1. CASE AnswerStep
      BY <2>1 DEF AnswerStep, AskTicket, AskDetail, AskScreen, AskPeople, Tell, Cut, CutFails, Send, ServerDies
    <2>2. CASE ~AnswerStep
      BY <2>2 DEF EvidenceNext, evidenceVars, line, Upload, Tick, Rebind, LateArrives, ReaderStep, CounterStep,
                  BackoffEnds, Restart
    <2> QED
      BY <2>1, <2>2
  <1> QED
    BY <1>1, <1>2, <1>3

-----------------------------------------------------------------------------
(***************************************************************************)
(* The answers.                                                            *)
(***************************************************************************)
LEMMA Limits ==
    /\ MaxAge \in Nat /\ FutureSkew \in Nat /\ PersonAge \in Nat
    /\ \A m : Limit(m) \in Int /\ KindOf(m) \in Kinds
  BY EvidenceAssumption DEF Limit, KindOf, Kinds

\* The newest row, when its frame is young enough now.
LEMMA RestsNow ==
    ASSUME EvidenceInv, NEW kind \in Kinds, Newest(kind) # 0, NEW limit \in Int,
           clock - frames[seen[kind][Newest(kind)].frame].stamp <= limit
    PROVE  RestsOn(kind, Newest(kind), clock, limit)
  <1>1. seen[kind] \in Seq(SeenRow) /\ clock \in Nat
    BY DEF EvidenceInv, SeenInv, FramesInv
  <1>2. Newest(kind) \in Nat /\ Newest(kind) = Len(seen[kind])
    BY <1>1 DEF Newest
  <1> QED
    BY <1>1, <1>2 DEF RestsOn

LEMMA TrustedRests == EvidenceInv /\ Trusted(Selected) => RestsOn("ocr", Selected, clock, MaxAge)
  <1> SUFFICES ASSUME EvidenceInv, Trusted(Selected) PROVE RestsOn("ocr", Selected, clock, MaxAge)
    OBVIOUS
  <1>1. /\ Selected = Newest("ocr") /\ Newest("ocr") # 0
        /\ ~(clock - frames[seen["ocr"][Newest("ocr")].frame].stamp > MaxAge)
    BY DEF Trusted, Selected, Stale, Ocr
  <1>2. seen["ocr"] \in Seq(SeenRow) /\ clock \in Nat /\ "ocr" \in Kinds
    BY DEF EvidenceInv, SeenInv, FramesInv, Kinds
  <1>3. Newest("ocr") \in 1..Len(seen["ocr"])
    BY <1>1, <1>2 DEF Newest
  <1>4. seen["ocr"][Newest("ocr")].frame \in 1..Len(frames)
    BY <1>2, <1>3 DEF EvidenceInv, SeenInv, Uploaded
  <1>5. frames[seen["ocr"][Newest("ocr")].frame] \in FrameRow
    BY <1>4 DEF EvidenceInv, FramesInv
  <1>6. frames[seen["ocr"][Newest("ocr")].frame].stamp \in Int
    BY <1>5 DEF FrameRow
  <1> QED
    BY <1>1, <1>2, <1>6, RestsNow, Limits

LEMMA FreshRests ==
    ASSUME EvidenceInv, NEW kind \in Kinds, NEW limit \in Nat, Newest(kind) # 0,
           Fresh(seen[kind][Newest(kind)], clock, limit)
    PROVE  RestsOn(kind, Newest(kind), clock, limit)
  <1>1. clock - frames[seen[kind][Newest(kind)].frame].stamp \in 0..limit
    BY DEF Fresh
  <1> QED
    BY <1>1, RestsNow

\* A row stays, and so does what is shown of it.
LEMMA RowStays ==
    ASSUME EvidenceInv, [EvidenceNext]_evidenceVars, NEW kind \in Kinds, NEW obs, NEW asked, NEW limit,
           RestsOn(kind, obs, asked, limit)
    PROVE  seen'[kind][obs] = seen[kind][obs]
  BY SeenStep DEF RestsOn

LEMMA AskersChoose ==
    ASSUME NEW question, Chosen(question)
    PROVE  thread' = [at |-> "cut", question |-> question, obs |-> Selected, asked |-> clock, issued |-> clock]
  BY DEF Chosen

LEMMA ThreadStep == EvidenceInv /\ [EvidenceNext]_evidenceVars => ThreadInv'
  <1> SUFFICES ASSUME EvidenceInv, [EvidenceNext]_evidenceVars PROVE ThreadInv'
    OBVIOUS
  <1>1. /\ thread \in Thread
        /\ thread.at # "idle" =>
             /\ RestsOn("ocr", thread.obs, thread.asked, MaxAge)
             /\ thread.at = "send" => \A k \in Pictures : CropThere(k, Ocr(thread.obs).frame)
    BY DEF EvidenceInv, ThreadInv
  <1>2. "ocr" \in Kinds /\ MaxAge \in Int /\ clock \in Nat
    BY Limits DEF Kinds, EvidenceInv, FramesInv
  <1>3. CASE UNCHANGED thread
    <2>1. CASE thread.at = "idle"
      BY <1>1, <1>3, <2>1 DEF ThreadInv, Thread
    <2>2. CASE thread.at # "idle"
      <3>1. PICK obs, asked : obs = thread.obs /\ asked = thread.asked
        OBVIOUS
      <3>2. RestsOn("ocr", obs, asked, MaxAge)
        BY <1>1, <2>2, <3>1
      <3>3. RestsOn("ocr", obs, asked, MaxAge)'
        BY <1>2, <3>2, RestsKept
      <3>4. seen'["ocr"][obs] = seen["ocr"][obs]
        BY <1>2, <3>2, RowStays
      <3>5. thread'.obs = obs /\ thread'.asked = asked
        BY <1>3, <3>1
      <3>6. CASE thread.at = "send"
        <4>1. PICK f, pictures : f = Ocr(obs).frame /\ pictures = Pictures
          OBVIOUS
        <4>2. \A k \in pictures : CropThere(k, f)
          BY <1>1, <3>1, <3>6, <4>1
        <4>3. \A k \in pictures : CropThere(k, f)'
          BY <4>2, CropsKept
        <4>4. Ocr(thread.obs)'.frame = f /\ Pictures' = pictures
          BY <1>3, <3>1, <3>4, <4>1 DEF Pictures, Ocr
        <4> QED
          BY <1>1, <1>3, <3>3, <3>5, <4>3, <4>4 DEF ThreadInv, RestsOn, CropThere, Thread
      <3>7. CASE thread.at # "send"
        BY <1>1, <1>3, <3>3, <3>5, <3>7 DEF ThreadInv, RestsOn, Thread
      <3> QED
        BY <3>6, <3>7
    <2> QED
      BY <2>1, <2>2
  <1>4. CASE thread' = NoThread
    BY <1>4 DEF NoThread, ThreadInv, Thread
  <1>5. CASE \E question \in {"ticket", "detail"} : Trusted(Selected) /\ Chosen(question)
    <2>1. PICK question \in {"ticket", "detail"} : Trusted(Selected) /\ Chosen(question)
      BY <1>5
    <2>2. PICK obs, asked : obs = Selected /\ asked = clock
      OBVIOUS
    <2>3. RestsOn("ocr", obs, asked, MaxAge)
      BY <2>1, <2>2, TrustedRests
    <2>4. RestsOn("ocr", obs, asked, MaxAge)'
      BY <1>2, <2>3, RestsKept
    <2>5. thread' = [at |-> "cut", question |-> question, obs |-> obs, asked |-> asked, issued |-> asked]
      BY <2>1, <2>2 DEF Chosen
    <2>6. obs \in Nat /\ asked \in Int
      <3>1. seen["ocr"] \in Seq(SeenRow)
        BY <1>2 DEF EvidenceInv, SeenInv
      <3> QED
        BY <1>2, <2>2, <3>1 DEF Selected, Newest
    <2>7. thread'.obs = obs /\ thread'.asked = asked /\ thread'.at = "cut"
      BY <2>5
    <2>8. thread' \in Thread
      BY <2>5, <2>6 DEF Thread
    <2> QED
      BY <2>4, <2>7, <2>8 DEF ThreadInv, RestsOn, Thread
  <1>6. CASE Cut /\ UNCHANGED <<seen, frames, clock>>
    <2>1. /\ thread.at = "cut" /\ crops' = Stored(Pictures)
          /\ thread' = [thread EXCEPT !.at = "send", !.issued = clock]
      BY <1>6 DEF Cut
    <2>2. /\ thread' \in Thread /\ thread'.at = "send" /\ thread'.obs = thread.obs
          /\ thread'.asked = thread.asked /\ thread'.question = thread.question
      <3>1. PICK n \in Int : n = clock
        BY <1>2
      <3>2. thread' = [thread EXCEPT !.at = "send", !.issued = n]
        BY <2>1, <3>1
      <3> QED
        BY <1>1, <3>2 DEF Thread
    <2>3. RestsOn("ocr", thread.obs, thread.asked, MaxAge)
      BY <1>1, <2>1
    <2>4. PICK f, pictures : f = Ocr(thread.obs).frame /\ pictures = Pictures
      OBVIOUS
    <2>5. \A k \in pictures : CropThere(k, f)'
      BY <2>1, <2>4, StoredHas DEF CropThere
    <2>6. Ocr(thread.obs)'.frame = f /\ Pictures' = pictures
      BY <1>6, <2>2, <2>4 DEF Pictures, Ocr
    <2>7. RestsOn("ocr", thread.obs, thread.asked, MaxAge)'
      BY <1>6, <2>2, <2>3 DEF RestsOn
    <2> QED
      BY <2>2, <2>5, <2>6, <2>7 DEF ThreadInv, CropThere, Thread
  <1>7. CASE AnswerStep
    <2>1. UNCHANGED <<seen, frames, clock>>
      BY <1>7 DEF AnswerStep, workers
    <2>2. CASE AskTicket
      BY <1>5, <2>2 DEF AskTicket
    <2>3. CASE AskDetail
      BY <1>5, <2>3 DEF AskDetail
    <2>4. CASE Cut
      BY <1>6, <2>1, <2>4
    <2>5. CASE AskScreen \/ AskPeople
      BY <1>3, <2>5 DEF AskScreen, AskPeople, Tell
    <2>6. CASE CutFails \/ Send \/ ServerDies
      BY <1>4, <2>6 DEF CutFails, Send, ServerDies
    <2> QED
      BY <1>7, <2>2, <2>3, <2>4, <2>5, <2>6 DEF AnswerStep
  <1>8. CASE ~AnswerStep
    <2>1. UNCHANGED thread
      BY <1>8 DEF EvidenceNext, evidenceVars, line, Upload, Tick, Rebind, LateArrives, ReaderStep, CounterStep,
                  BackoffEnds, Restart
    <2> QED
      BY <1>3, <2>1
  <1> QED
    BY <1>7, <1>8

Answered(m) ==
    /\ m.issued \in Int
    /\ RestsOn(KindOf(m), m.obs, m.asked, Limit(m))
    /\ m.pictures # {} => KindOf(m) = "ocr"
    /\ \A k \in m.pictures : CropThere(k, FrameOf(m))

LEMMA AnswersKept ==
    ASSUME EvidenceInv, [EvidenceNext]_evidenceVars, NEW m, Answered(m)
    PROVE  Answered(m)'
  <1>1. KindOf(m) \in Kinds /\ Limit(m) \in Int
    BY Limits
  <1>2. PICK kind \in Kinds, limit \in Int : kind = KindOf(m) /\ limit = Limit(m)
    BY <1>1
  <1>3. PICK obs, asked : obs = m.obs /\ asked = m.asked
    OBVIOUS
  <1>4. RestsOn(kind, obs, asked, limit)
    BY <1>2, <1>3 DEF Answered
  <1>5. RestsOn(kind, obs, asked, limit)' /\ seen'[kind][obs] = seen[kind][obs]
    BY <1>4, RestsKept, RowStays
  <1>6. RestsOn(KindOf(m), m.obs, m.asked, Limit(m))'
    BY <1>2, <1>3, <1>5
  <1>7. CASE m.pictures = {}
    BY <1>6, <1>7 DEF Answered
  <1>8. CASE m.pictures # {}
    <2>1. PICK f : f = FrameOf(m)
      OBVIOUS
    <2>2. \A k \in m.pictures : CropThere(k, f)
      BY <2>1 DEF Answered
    <2>3. \A k \in m.pictures : CropThere(k, f)'
      BY <2>2, CropsKept
    <2>4. FrameOf(m)' = f
      BY <1>2, <1>3, <1>5, <1>8, <2>1 DEF FrameOf, Ocr, Answered
    <2> QED
      BY <1>6, <1>8, <2>3, <2>4 DEF Answered, CropThere
  <1> QED
    BY <1>7, <1>8

LEMMA SentStep == EvidenceInv /\ [EvidenceNext]_evidenceVars => SentInv'
  <1> SUFFICES ASSUME EvidenceInv, [EvidenceNext]_evidenceVars PROVE SentInv'
    OBVIOUS
  <1>1. \A m \in sent : Answered(m)
    BY DEF EvidenceInv, SentInv, Answered
  <1>2. \A m \in sent : Answered(m)'
    BY <1>1, AnswersKept
  <1>3. ASSUME NEW new, sent' = sent \cup {new}, Answered(new)
        PROVE  SentInv'
    <2>1. Answered(new)'
      BY <1>3, AnswersKept
    <2>2. \A m \in sent' : Answered(m)'
      BY <1>2, <1>3, <2>1
    <2> QED
      BY <2>2 DEF SentInv, Answered
  <1>4. CASE UNCHANGED sent
    BY <1>2, <1>4 DEF SentInv, Answered
  <1>5. clock \in Int
    BY DEF EvidenceInv, FramesInv
  <1>6. CASE Send
    <2>1. CASE UNCHANGED sent
      BY <1>4, <2>1
    <2>2. CASE sent' # sent
      <3>1. PICK warned :
              sent' = sent \cup {Reply(thread.question, thread.obs, thread.asked, thread.issued, Pictures, warned)}
        BY <1>6, <2>2 DEF Send
      <3>2. PICK new : new = Reply(thread.question, thread.obs, thread.asked, thread.issued, Pictures, warned)
        OBVIOUS
      <3>3. /\ new.question = thread.question /\ new.obs = thread.obs /\ new.asked = thread.asked
            /\ new.issued = thread.issued /\ new.pictures = Pictures
        BY <3>2 DEF Reply
      <3>4. /\ thread \in Thread /\ thread.at = "send"
            /\ RestsOn("ocr", thread.obs, thread.asked, MaxAge)
            /\ \A k \in Pictures : CropThere(k, Ocr(thread.obs).frame)
        BY <1>6 DEF Send, EvidenceInv, ThreadInv
      <3>5. thread.question \in {"none", "ticket", "detail"} /\ thread.issued \in Int
        BY <3>4 DEF Thread
      <3>6. KindOf(new) = "ocr" /\ Limit(new) = MaxAge
        BY <3>3, <3>5 DEF KindOf, Limit
      <3>8. Answered(new)
        BY <3>3, <3>4, <3>5, <3>6 DEF Answered, FrameOf
      <3> QED
        BY <1>3, <3>1, <3>2, <3>8
    <2> QED
      BY <2>1, <2>2
  <1>7. ASSUME NEW question \in {"screen", "people"}, NEW i, Tell(question, i),
               RestsOn(IF question = "people" THEN "people" ELSE "ocr", i, clock,
                       IF question = "people" THEN PersonAge ELSE MaxAge)
        PROVE  SentInv'
    <2>1. PICK new : new = Reply(question, i, clock, clock, {}, FALSE)
      OBVIOUS
    <2>2. sent' = sent \cup {new}
      BY <1>7, <2>1 DEF Tell
    <2>3. new.question = question /\ new.obs = i /\ new.asked = clock /\ new.issued = clock /\ new.pictures = {}
      BY <2>1 DEF Reply
    <2>4. Answered(new)
      BY <1>5, <1>7, <2>3 DEF Answered, KindOf, Limit
    <2> QED
      BY <1>3, <2>2, <2>4
  <1>8. CASE AskScreen
    <2>1. Newest("ocr") # 0 /\ Fresh(seen["ocr"][Newest("ocr")], clock, MaxAge)
      BY <1>8 DEF AskScreen, Readable, Legible, Ocr
    <2>2. RestsOn("ocr", Newest("ocr"), clock, MaxAge)
      BY <2>1, FreshRests, Limits DEF Kinds
    <2> QED
      BY <1>7, <1>8, <2>2 DEF AskScreen
  <1>9. CASE AskPeople
    <2>1. Newest("people") # 0 /\ Fresh(seen["people"][Newest("people")], clock, PersonAge)
      BY <1>9 DEF AskPeople, Countable
    <2>2. RestsOn("people", Newest("people"), clock, PersonAge)
      BY <2>1, FreshRests, Limits DEF Kinds
    <2> QED
      BY <1>7, <1>9, <2>2 DEF AskPeople
  <1>10. CASE AnswerStep
    <2>1. CASE AskTicket \/ AskDetail \/ Cut \/ CutFails \/ ServerDies
      BY <1>4, <2>1 DEF AskTicket, AskDetail, Cut, CutFails, ServerDies
    <2> QED
      BY <1>6, <1>8, <1>9, <1>10, <2>1 DEF AnswerStep
  <1>11. CASE ~AnswerStep
    <2>1. UNCHANGED sent
      BY <1>11 DEF EvidenceNext, evidenceVars, line, Upload, Tick, Rebind, LateArrives, ReaderStep, CounterStep,
                   BackoffEnds, Restart
    <2> QED
      BY <1>4, <2>1
  <1> QED
    BY <1>10, <1>11

LEMMA EvidenceAlwaysInv == EvidenceSpec => []EvidenceInv
  <1>1. EvidenceInv /\ [EvidenceNext]_evidenceVars => EvidenceInv'
    BY FramesStep, WorkersStep, SeenStep, ThreadStep, SentStep DEF EvidenceInv
  <1> QED
    BY EvidenceInvInit, <1>1, PTL DEF EvidenceSpec

-----------------------------------------------------------------------------
(***************************************************************************)
(* However long the workers took and whatever was looked at twice, what an *)
(* answer shows was in front of the camera at most its limit before the    *)
(* question, give or take what a camera's clock is ahead: for every number *)
(* of frames, every drift of the clocks, every limit and deployment.       *)
(* (find_line_crop_capture, build_hmi_screen_view,                         *)
(* latest_machine_people_count in planner-server)                          *)
(***************************************************************************)
THEOREM AnswersAreRecent == EvidenceSpec => []NothingOld
  <1>1. EvidenceInv => NothingOld
    <2> SUFFICES ASSUME EvidenceInv, NEW m \in sent
                 PROVE  m.asked - frames[seen[KindOf(m)][m.obs].frame].taken <= Limit(m) + Ahead
      BY DEF NothingOld
    <2>1. RestsOn(KindOf(m), m.obs, m.asked, Limit(m)) /\ KindOf(m) \in Kinds /\ Limit(m) \in Int
      BY Limits DEF EvidenceInv, SentInv
    <2>2. PICK f : f = seen[KindOf(m)][m.obs].frame
      OBVIOUS
    <2>3. f \in 1..Len(frames)
      BY <2>1, <2>2 DEF RestsOn, EvidenceInv, SeenInv, Uploaded
    <2>4. frames[f] \in FrameRow /\ frames[f].stamp <= frames[f].taken + Ahead
      BY <2>3 DEF EvidenceInv, FramesInv
    <2>5. frames[f].stamp \in Int /\ frames[f].taken \in Int
      BY <2>4 DEF FrameRow
    <2>6. m.asked \in Int /\ m.asked - frames[f].stamp <= Limit(m)
      BY <2>1, <2>2 DEF RestsOn
    <2> QED
      BY <2>1, <2>2, <2>4, <2>5, <2>6, AheadIs
  <1> QED
    BY EvidenceAlwaysInv, <1>1, PTL

(***************************************************************************)
(* When the question came, nothing newer than what the reply shows had     *)
(* been received: a sheet that was taken down is not shown again, whatever *)
(* a retried, late or repeated post brought meanwhile.                     *)
(***************************************************************************)
THEOREM NewestIsShown == EvidenceSpec => []NoOlderSheet
  <1>1. EvidenceInv => NoOlderSheet
    BY DEF EvidenceInv, SentInv, RestsOn, NoOlderSheet, Newest
  <1> QED
    BY EvidenceAlwaysInv, <1>1, PTL

(***************************************************************************)
(* A picture that was sent opens while its link lives and the conversation *)
(* is bound, when the evidence was in time for the link and the frame has  *)
(* not been read again: later observations of the frame are only nearer to *)
(* the link, and the crop under it is never removed.                       *)
(***************************************************************************)
THEOREM PicturesOpen == EvidenceSpec => []PicturesLast
  <1>1. EvidenceInv => PicturesLast
    <2> SUFFICES ASSUME EvidenceInv, NEW m \in sent, NEW k \in m.pictures, LinkIsGood(m), NotLate(m), ~SeenAgain(m)
                 PROVE  Served(m, k)
      BY DEF PicturesLast
    <2> DEFINE rowsSeen == seen["ocr"]
               n == Len(seen["ocr"])
               I == {i \in 1..n : rowsSeen[i].frame = FrameOf(m)}
               r == OfFrame(FrameOf(m))
    <2>1. /\ KindOf(m) = "ocr" /\ m.issued \in Int /\ m.obs \in 1..n
          /\ \E c \in crops : c.kind = k /\ c.frame = FrameOf(m)
      BY DEF EvidenceInv, SentInv, RestsOn, CropThere
    <2>2. rowsSeen \in Seq(SeenRow) /\ n \in Nat /\ "ocr" \in Kinds
      BY DEF EvidenceInv, SeenInv, Kinds
    <2>3. m.obs \in I
      BY <2>1 DEF FrameOf, Ocr
    <2>4. r \in I /\ r >= m.obs
      <3>1. r = IF I # {} THEN CHOOSE x \in I : \A y \in I : x >= y ELSE 0
        BY DEF OfFrame, SelectLastInSeq, Max
      <3>2. \E x \in I : \A y \in I : x >= y
        BY <2>2, <2>3, Largest
      <3> HIDE DEF r, I
      <3> QED
        BY <2>3, <3>1, <3>2
    <2>5. /\ rowsSeen[r] \in SeenRow /\ rowsSeen[m.obs] \in SeenRow
          /\ rowsSeen[r].frame = FrameOf(m) /\ rowsSeen[m.obs].frame = FrameOf(m)
      BY <2>2, <2>3, <2>4
    <2>6. rowsSeen[m.obs].created <= rowsSeen[r].created
      <3>1. m.obs \in 1..r /\ r \in 1..n
        BY <2>1, <2>2, <2>4
      <3> QED
        BY <2>2, <3>1 DEF EvidenceInv, SeenInv
    <2>7. rowsSeen[m.obs].created \in Int /\ rowsSeen[r].created \in Int
      BY <2>5 DEF SeenRow
    <2>8. ~(m.issued - rowsSeen[m.obs].created > MaxAge)
          /\ ~(m.issued - frames[FrameOf(m)].stamp > MaxAge)
          /\ ~(m.issued - frames[FrameOf(m)].stamp < 0 - FutureSkew)
      BY <2>5 DEF NotLate, Stale, Ocr
    <2>9. ~(rowsSeen[r].created > m.issued + FutureSkew)
      BY <2>4, <2>5 DEF SeenAgain, Newest, Ocr
    <2>10. ~(m.issued - rowsSeen[r].created > MaxAge) /\ ~(m.issued - rowsSeen[r].created < 0 - FutureSkew)
      <3>1. PICK earlier \in Int, later \in Int, issued \in Int :
              earlier = rowsSeen[m.obs].created /\ later = rowsSeen[r].created /\ issued = m.issued
        BY <2>1, <2>7
      <3> HIDE DEF r, n, I, rowsSeen
      <3>2. earlier <= later /\ ~(issued - earlier > MaxAge) /\ ~(later > issued + FutureSkew)
        BY <2>6, <2>8, <2>9, <3>1
      <3>3. ~(issued - later > MaxAge) /\ ~(issued - later < 0 - FutureSkew)
        BY <3>2, Limits
      <3> QED
        BY <3>1, <3>3
    <2>11. ~Stale(Ocr(r), m.issued)
      <3> HIDE DEF r, n, I
      <3> QED
        BY <2>5, <2>8, <2>10 DEF Stale, Ocr
    <2> QED
      BY <2>1, <2>11 DEF Served, TokenTime
  <1> QED
    BY EvidenceAlwaysInv, <1>1, PTL

=============================================================================
