---------------------------- MODULE AskAndAnswer ----------------------------
(***************************************************************************)
(* What the twin agent promises of a question, with the worker, the time   *)
(* limits and the feed left out: each question is answered at most once,   *)
(* and commands follow the answer they belong to, at most once.            *)
(***************************************************************************)
EXTENDS Sequences

CONSTANT Jobs

VARIABLES
    issued,   \* the questions accepted so far
    posted    \* everything said in return, in order

Reply(j) == [kind |-> "reply", job |-> j]
Commands(j) == [kind |-> "commands", job |-> j]

Said(e) == \E i \in DOMAIN posted : posted[i] = e

Init == issued = {} /\ posted = <<>>

Ask(j) ==
    /\ j \notin issued
    /\ issued' = issued \cup {j}
    /\ UNCHANGED posted

Answer(j) ==
    /\ j \in issued
    /\ ~Said(Reply(j))
    /\ posted' = Append(posted, Reply(j))
    /\ UNCHANGED issued

Command(j) ==
    /\ Said(Reply(j))
    /\ ~Said(Commands(j))
    /\ posted' = Append(posted, Commands(j))
    /\ UNCHANGED issued

Next == \E j \in Jobs : Ask(j) \/ Answer(j) \/ Command(j)

Spec == Init /\ [][Next]_<<issued, posted>>
=============================================================================
