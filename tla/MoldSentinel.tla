----------------------------- MODULE MoldSentinel -----------------------------
(***************************************************************************)
(* The maintenance counter of the molds (planner-server, dispatch.py).     *)
(* Every shot report moves a mold's counter; when it has reached its       *)
(* threshold the LINE groups are told, until all of them were reached once *)
(* since the mold was last maintained. Requests read the row, tell the     *)
(* groups one after the other, and write the columns they changed when     *)
(* they commit.                                                            *)
(*                                                                         *)
(* Times are the ticks of one clock, 0 for never. A rule that was entered  *)
(* stays active: nothing in the program switches one off.                  *)
(***************************************************************************)
EXTENDS Integers, FiniteSets

CONSTANTS
    Molds,
    Groups,          \* LINE groups that may be bound
    LineConfigured,  \* the deployment has a LINE channel
    Thresholds,
    ShotReports,     \* bodies of a report: a count to set or Keep, and an increment
    Keep,
    Desks,           \* requests being served at one time
    MaxTasks,        \* requests begun
    MaxSlips         \* messages that are refused and requests that die

NoMold == "no mold"
ASSUME MoldAssumption ==
    /\ LineConfigured \in BOOLEAN /\ Keep \notin Nat
    /\ NoMold \notin Molds
    /\ Thresholds \subseteq Nat \ {0} /\ {MaxTasks, MaxSlips} \subseteq Nat
    /\ ShotReports \subseteq [set : Nat \cup {Keep}, more : Int]

VARIABLES
    rule,    \* rows of mold_maintenance_rules
    bound,   \* groups with an active binding
    desk,    \* what each request has read and done
    tick,
    delivered,   \* history: <<mold, group, time>> of the reminders that arrived
    called,  \* history: <<mold, groups>> of the reminders that were begun
    tasks,   \* requests begun
    slips

moldVars == <<rule, bound, desk, tick, delivered, called, tasks, slips>>

Rule == [known : BOOLEAN, count : Nat, threshold : Thresholds \cup {0}, resetAt : Nat, alertAt : Nat]
NoRule == [known |-> FALSE, count |-> 0, threshold |-> 0, resetAt |-> 0, alertAt |-> 0]
Desk == [does : {"nothing", "bump", "reset"}, mold : Molds \cup {NoMold}, seen : Rule, count : Nat, at : Nat,
         todo : SUBSET Groups, stamp : BOOLEAN]
Unoccupied == [does |-> "nothing", mold |-> NoMold, seen |-> NoRule, count |-> 0, at |-> 0, todo |-> {}, stamp |-> FALSE]

MoldInit ==
    /\ rule = [m \in Molds |-> NoRule]
    /\ bound \in SUBSET Groups
    /\ desk = [c \in Desks |-> Unoccupied]
    /\ tick = 0 /\ delivered = {} /\ called = {} /\ tasks = 0 /\ slips = 0

Tick == tick' = tick + 1
TakeTask == tasks < MaxTasks /\ tasks' = tasks + 1
Slip == slips < MaxSlips /\ slips' = slips + 1

\* put_mold_rules: a new rule, or another threshold for one that exists.
PutRule(m, threshold) ==
    /\ TakeTask
    /\ rule' = [rule EXCEPT ![m].known = TRUE, ![m].threshold = threshold]
    /\ UNCHANGED <<bound, desk, tick, delivered, called, slips>>

Rebind(groups) ==
    /\ TakeTask
    /\ bound' = groups
    /\ UNCHANGED <<rule, desk, tick, delivered, called, slips>>

-----------------------------------------------------------------------------
(* bump_mold_counter *)

NotBelow0(n) == IF n < 0 THEN 0 ELSE n
Counted(count, shots) == NotBelow0((IF shots.set = Keep THEN count ELSE shots.set) + shots.more)

\* Reached, and not everyone was told since the last maintenance.
NotYetAlerted(r) == r.alertAt = 0 \/ (r.resetAt # 0 /\ r.alertAt < r.resetAt)
Due(r, count) == count >= r.threshold /\ NotYetAlerted(r)

\* Without a channel the reminder counts as sent; with one and nobody bound it does not.
Bump(c, m, shots) ==
    LET count == Counted(rule[m].count, shots)
        due == Due(rule[m], count)
    IN
    /\ TakeTask
    /\ desk[c] = Unoccupied /\ rule[m].known
    /\ desk' = [desk EXCEPT ![c] =
           [does |-> "bump", mold |-> m, seen |-> rule[m], count |-> count, at |-> 0,
            todo |-> IF due /\ LineConfigured THEN bound ELSE {},
            stamp |-> due /\ (LineConfigured => bound # {})]]
    /\ called' = IF due /\ LineConfigured THEN called \cup {<<m, bound>>} ELSE called
    /\ UNCHANGED <<rule, bound, tick, delivered, slips>>

\* A mutant of Told: the result of the last group is the result.
ToldLast(c, g) == desk' = [desk EXCEPT ![c].todo = @ \ {g}, ![c].stamp = TRUE]
Told(c, g) == desk' = [desk EXCEPT ![c].todo = @ \ {g}]
NotTold(c, g) == desk' = [desk EXCEPT ![c].todo = @ \ {g}, ![c].stamp = FALSE]

Push(c, g) ==
    /\ g \in desk[c].todo
    /\ Told(c, g)
    /\ delivered' = delivered \cup {<<desk[c].mold, g, tick + 1>>}
    /\ Tick
    /\ UNCHANGED <<rule, bound, called, tasks, slips>>

\* LineBotDeliveryError: the others are told all the same.
PushRefused(c, g) ==
    /\ g \in desk[c].todo
    /\ NotTold(c, g)
    /\ Slip
    /\ UNCHANGED <<rule, bound, tick, delivered, called, tasks>>

\* The column is written if it changed against the row that was read.
Written(read, new, stored) == IF new # read THEN new ELSE stored

\* The time of the alert is taken when all were tried, and written with the commit.
StampAlert(c) ==
    /\ desk[c].does = "bump" /\ desk[c].todo = {} /\ desk[c].at = 0
    /\ desk' = [desk EXCEPT ![c].at = tick + 1]
    /\ Tick
    /\ UNCHANGED <<rule, bound, delivered, called, tasks, slips>>

CommitBump(c) ==
    /\ desk[c].does = "bump" /\ desk[c].at # 0
    /\ rule' = [rule EXCEPT
           ![desk[c].mold].count = Written(desk[c].seen.count, desk[c].count, @),
           ![desk[c].mold].alertAt = IF desk[c].stamp THEN desk[c].at ELSE @]
    /\ desk' = [desk EXCEPT ![c] = Unoccupied]
    /\ UNCHANGED <<bound, tick, delivered, called, tasks, slips>>

-----------------------------------------------------------------------------
(* reset_mold_counter, from a LINE message *)

Reset(c, m) ==
    /\ TakeTask
    /\ desk[c] = Unoccupied /\ rule[m].known
    /\ desk' = [desk EXCEPT ![c] = [Unoccupied EXCEPT !.does = "reset", !.mold = m, !.seen = rule[m], !.at = tick + 1]]
    /\ Tick
    /\ UNCHANGED <<rule, bound, delivered, called, slips>>

CommitReset(c) ==
    /\ desk[c].does = "reset"
    /\ rule' = [rule EXCEPT
           ![desk[c].mold].count = Written(desk[c].seen.count, 0, @),
           ![desk[c].mold].resetAt = desk[c].at]
    /\ desk' = [desk EXCEPT ![c] = Unoccupied]
    /\ UNCHANGED <<bound, tick, delivered, called, tasks, slips>>

DieAtDesk(c) ==
    /\ desk[c] # Unoccupied
    /\ desk' = [desk EXCEPT ![c] = Unoccupied]
    /\ Slip
    /\ UNCHANGED <<rule, bound, tick, delivered, called, tasks>>

MoldNext ==
    \/ \E m \in Molds, threshold \in Thresholds : PutRule(m, threshold)
    \/ \E groups \in SUBSET Groups : Rebind(groups)
    \/ \E c \in Desks :
          \/ \E m \in Molds, shots \in ShotReports : Bump(c, m, shots)
          \/ \E g \in Groups : Push(c, g) \/ PushRefused(c, g)
          \/ StampAlert(c) \/ CommitBump(c)
          \/ \E m \in Molds : Reset(c, m)
          \/ CommitReset(c)
          \/ DieAtDesk(c)

MoldSpec == MoldInit /\ [][MoldNext]_moldVars

-----------------------------------------------------------------------------
MoldTypeOK ==
    /\ rule \in [Molds -> Rule] /\ bound \subseteq Groups /\ desk \in [Desks -> Desk]
    /\ {tick, tasks, slips} \subseteq Nat
    /\ delivered \subseteq Molds \X Groups \X Nat /\ called \subseteq Molds \X SUBSET Groups

\* The reminders of a mold stop only when they were delivered: if its row says that it was
\* alerted, every group of some reminder was told before, and there was one to tell. A
\* message that is refused, a request that dies between two groups or a binding that
\* comes and goes never silences a mold (last_alert_at, all_delivered).
AlertWasHeard ==
    \A m \in Molds : rule[m].alertAt # 0 /\ LineConfigured =>
        \E groups \in SUBSET Groups :
            /\ groups # {} /\ <<m, groups>> \in called
            /\ \A g \in groups : \E t \in 1 .. rule[m].alertAt : <<m, g, t>> \in delivered

\* dispatch.py:541 promises an alert when the threshold is crossed. A bump that overlaps a
\* reset writes its alert, and its count, over the new period.
AlertIsOfThisPeriod ==
    \A m \in Molds : rule[m].alertAt > rule[m].resetAt /\ LineConfigured =>
        \E g \in Groups : \E t \in rule[m].resetAt .. rule[m].alertAt : <<m, g, t>> \in delivered
===============================================================================
