---------------------------- MODULE LineWebhook -----------------------------
(***************************************************************************)
(* The LINE webhook (planner-server, routers/line.py): each delivery of an *)
(* event is a request thread that claims the event's row, changes the      *)
(* links of LineIdentity in one transaction with the reply it owes, sends  *)
(* the reply and only then marks the row processed. LINE delivers an event *)
(* again until it gets a 200, also while an earlier delivery still runs.   *)
(*                                                                         *)
(* A thread stops at the places where the database or LINE is called. What *)
(* LINE and the network do (answers lost, 5xx, a refused reply token) and  *)
(* a server that dies take at most MaxFaults steps.                        *)
(***************************************************************************)
EXTENDS LineIdentity

CONSTANTS
    Events,    \* webhook events, by their line_event_key
    Threads,   \* request threads of the server
    Mixes,     \* which kinds the events may have: a set of functions from Events
    lineOf,    \* the LINE user of its source
    aboutOf,   \* for an answer of the link page: the attempt of its nonce
    NoThread, NoEvent,
    MaxFaults

\* A "silentlink" is a completed link without a reply token.
Kinds == {"start", "unlink", "linked", "silentlink", "linkfailed", "command", "postback"}
Links == {"linked", "silentlink"}

\* The kinds that always owe a reply, which is stored with the effect.
Durable == {"start", "unlink", "linked"}

ASSUME WebhookAssumption ==
    /\ Mixes \subseteq [Events -> Kinds]
    /\ lineOf \in [Events -> LineUsers]
    /\ aboutOf \in [Events -> Attempts]
    /\ NoThread \notin Threads /\ NoEvent \notin Events
    /\ MaxFaults \in Nat

VARIABLES
    kindOf,   \* the kind of each event; never changes
    record,   \* row of line_webhook_events: processed_status, and whether a reply is stored
    holder,   \* the thread whose uncommitted insert of the event's row others wait for
    thread,   \* per thread: where it is, and with which event
    applied,  \* how often the event's effect was committed
    replied,  \* events whose reply LINE accepted: their reply token is used up
    acked,    \* events LINE got a 200 for
    faults

vars == <<attempt, bindings, readers, kindOf, record, holder, thread, applied, replied, acked, faults>>

Places == {"idle", "claim", "handle", "reply", "retry", "mark", "apply", "terminate", "fail"}
Row == [status : {"none", "received", "processed", "failed"}, reply : BOOLEAN]

HookTypeOK ==
    /\ kindOf \in Mixes
    /\ record \in [Events -> Row]
    /\ holder \in [Events -> Threads \cup {NoThread}]
    /\ thread \in [Threads -> [at : Places, event : Events \cup {NoEvent}]]
    /\ applied \in [Events -> Nat]
    /\ replied \subseteq Events
    /\ acked \subseteq Events
    /\ faults \in 0..MaxFaults

Idle == [at |-> "idle", event |-> NoEvent]
At(t, place) == thread[t].at = place

Init ==
    /\ IdentityInit
    /\ kindOf \in Mixes
    /\ record = [e \in Events |-> [status |-> "none", reply |-> FALSE]]
    /\ holder = [e \in Events |-> NoThread]
    /\ thread = [t \in Threads |-> Idle]
    /\ applied = [e \in Events |-> 0]
    /\ replied = {} /\ acked = {}
    /\ faults = 0

Goto(t, place) == thread' = [thread EXCEPT ![t].at = place]
Return(t) == thread' = [thread EXCEPT ![t] = Idle]
Release(e) == holder' = [holder EXCEPT ![e] = NoThread]
Write(e, status, reply) == record' = [record EXCEPT ![e] = [status |-> status, reply |-> reply]]
Apply(e) == applied' = [applied EXCEPT ![e] = @ + 1]
Fault == faults < MaxFaults /\ faults' = faults + 1

\* The 200 of the request reaches LINE, or is lost and LINE delivers again.
Answer(e) ==
    \/ acked' = acked \cup {e} /\ UNCHANGED faults
    \/ UNCHANGED acked /\ Fault

\* _reply_messages_if_possible: the outcome is not looked at.
ReplyIfPossible(e) == replied' \in {replied, replied \cup {e}}

-----------------------------------------------------------------------------
\* LINE posts the event. The link page answers only for a nonce it was given.
Deliver(t, e) ==
    /\ At(t, "idle")
    /\ e \notin acked
    /\ kindOf[e] \in Links \cup {"linkfailed"} => attempt[aboutOf[e]].redirected
    /\ thread' = [thread EXCEPT ![t] = [at |-> "claim", event |-> e]]
    /\ UNCHANGED <<idVars, record, holder, applied, replied, acked, faults>>

\* Mutant: a row that is only "received" is skipped, whether or not it owes a reply.
NeverPending(e) == record[e].status = "none" /\ record[e].reply

ReplyPending(e) == record[e].status = "received" /\ record[e].reply

\* Mutant: a row that was received and not ended is handled once more.
ClaimUnended(t, e) ==
    /\ record[e].status \in {"none", "received"}
    /\ holder' = [holder EXCEPT ![e] = t]
    /\ Goto(t, "handle")
    /\ UNCHANGED <<acked, faults>>

\* _claim_line_webhook_event: a new row, or the row of an earlier delivery.
ClaimFresh(t, e) ==
    /\ record[e].status = "none"
    /\ holder' = [holder EXCEPT ![e] = t]
    /\ Goto(t, "handle")
    /\ UNCHANGED <<acked, faults>>

ClaimRetry(t, e) ==
    /\ ReplyPending(e)
    /\ Goto(t, "retry")
    /\ UNCHANGED <<holder, acked, faults>>

ClaimSkips(t, e) ==
    /\ record[e].status # "none" /\ ~ReplyPending(e)
    /\ Answer(e)
    /\ Return(t)
    /\ UNCHANGED holder

\* The insert of a key waits for the transaction that holds the same key.
Claim(t) ==
    LET e == thread[t].event IN
    /\ At(t, "claim")
    /\ holder[e] = NoThread
    /\ ClaimFresh(t, e) \/ ClaimRetry(t, e) \/ ClaimSkips(t, e)
    /\ UNCHANGED <<idVars, record, applied, replied>>

-----------------------------------------------------------------------------
(* _handle_line_event of a fresh row. A durable effect commits together with *)
(* the row and the reply it owes.                                            *)

CommitOwing(t, e) ==
    /\ Write(e, "received", TRUE) /\ Apply(e)
    /\ Release(e)
    /\ Goto(t, "reply")
    /\ UNCHANGED replied

\* resolve_line_user_scope: the link and the membership are looked at each time.
Scoped(l) == \E b \in bindings : b.line = l /\ b.active /\ <<b.user, b.site>> \in readers
Unscoped(e) == kindOf[e] \in {"command", "postback"} /\ ~Scoped(lineOf[e])

\* Whatever a user without a link asks, the answer is the link page of a new attempt.
HandleStart(t, e) ==
    /\ kindOf[e] = "start" \/ Unscoped(e)
    /\ \E new \in Attempts : StartAttempt(new, lineOf[e])
    /\ CommitOwing(t, e)

HandleUnlink(t, e) ==
    /\ kindOf[e] = "unlink"
    /\ Unlink(lineOf[e])
    /\ CommitOwing(t, e)

HandleLinked(t, e) ==
    /\ kindOf[e] = "linked"
    /\ Link(aboutOf[e], lineOf[e])
    /\ CommitOwing(t, e)

\* The user gave up on LINE's page, or there is no reply token: nobody to reply to.
HandleUnanswered(t, e) ==
    /\ \/ kindOf[e] = "linkfailed" /\ LinkFailed(aboutOf[e])
       \/ kindOf[e] = "silentlink" /\ Link(aboutOf[e], lineOf[e])
    /\ Write(e, "received", FALSE) /\ Apply(e)
    /\ Release(e)
    /\ Goto(t, "mark")
    /\ UNCHANGED replied

\* A refused link: an attempt that ends with it is committed before the error goes on.
HandleEndedAttempt(t, e) ==
    /\ \/ kindOf[e] \in Links /\ LinkConflict(aboutOf[e], lineOf[e])
       \/ kindOf[e] \in Links \cup {"linkfailed"} /\ ExpireAttempt(aboutOf[e], "pending_line")
    /\ Write(e, "received", FALSE)
    /\ Release(e)
    /\ Goto(t, "fail")
    /\ UNCHANGED <<applied, replied>>

\* Every other exception of a handler: rolled back.
HandleRaises(t, e) ==
    /\ \/ kindOf[e] \in Links /\ LinkRefused(aboutOf[e], lineOf[e])
       \/ kindOf[e] = "linkfailed" /\ NonceSpent(aboutOf[e])
       \/ kindOf[e] \in {"start", "unlink", "command", "postback"}
    /\ Release(e)
    /\ Goto(t, "fail")
    /\ UNCHANGED <<idVars, record, applied, replied>>

\* A text command commits its effect with the row, before the reply; it may raise after that.
HandleCommand(t, e) ==
    /\ kindOf[e] = "command" /\ Scoped(lineOf[e])
    /\ Write(e, "received", FALSE) /\ Apply(e)
    /\ Release(e)
    /\ ReplyIfPossible(e)
    /\ Goto(t, "mark") \/ Goto(t, "fail")
    /\ UNCHANGED idVars

\* A button commits its effect with "processed", after the reply.
HandlePostback(t, e) ==
    /\ kindOf[e] = "postback" /\ Scoped(lineOf[e])
    /\ ReplyIfPossible(e)
    /\ Goto(t, "apply")
    /\ UNCHANGED <<idVars, record, holder, applied>>

\* A group without a site, too many link requests, no link token of LINE: only an answer.
HandleDeclines(t, e) ==
    /\ kindOf[e] = "start" \/ Unscoped(e)
    /\ ReplyIfPossible(e)
    /\ Goto(t, "mark")
    /\ UNCHANGED <<idVars, record, holder, applied>>

Handle(t) ==
    LET e == thread[t].event IN
    /\ At(t, "handle")
    /\ \/ HandleStart(t, e) \/ HandleUnlink(t, e) \/ HandleLinked(t, e)
       \/ HandleUnanswered(t, e) \/ HandleEndedAttempt(t, e) \/ HandleRaises(t, e)
       \/ HandleCommand(t, e) \/ HandlePostback(t, e) \/ HandleDeclines(t, e)
    /\ UNCHANGED <<acked, faults>>

-----------------------------------------------------------------------------
(* The owed reply, in the first delivery and in the later ones.              *)

Replying(t) == thread[t].at \in {"reply", "retry"}

\* Mutant: a call that timed out counts as delivered.
AcceptedOrLost(t, e) ==
    /\ replied' \in {replied, replied \cup {e}}
    /\ Goto(t, "mark")
    /\ UNCHANGED <<acked, faults>>

ReplyAccepted(t, e) ==
    /\ e \notin replied
    /\ replied' = replied \cup {e}
    /\ Goto(t, "mark")
    /\ UNCHANGED <<acked, faults>>

\* No answer, 429 or 5xx: LINE gets a 503 and will deliver the event again.
ReplyLost(t, e) ==
    /\ Fault
    /\ ReplyIfPossible(e)
    /\ Return(t)
    /\ UNCHANGED acked

\* Mutant: a refused reply token is answered with 503 as well.
RefusedIsRetried(t, e) ==
    /\ Return(t)
    /\ UNCHANGED <<replied, acked, faults>>

\* The reply token is used up or too old, or the channel token is wrong. After the
\* commit the row is read again: when another delivery has ended it, LINE gets a 500.
ReplyRefused(t, e) ==
    /\ \/ At(t, "retry") /\ Goto(t, "terminate")
       \/ At(t, "reply") /\ record[e].reply /\ Goto(t, "terminate")
       \/ At(t, "reply") /\ ~record[e].reply /\ Return(t)
    /\ UNCHANGED <<replied, acked, faults>>

Reply(t) ==
    LET e == thread[t].event IN
    /\ Replying(t)
    /\ ReplyAccepted(t, e) \/ ReplyLost(t, e) \/ ReplyRefused(t, e)
    /\ UNCHANGED <<idVars, record, holder, applied>>

RolledBack(t) == holder' = [e \in Events |-> IF holder[e] = t THEN NoThread ELSE holder[e]]

\* The database refuses a commit, or the stored reply cannot be decrypted any more.
Raises(t) ==
    /\ thread[t].at \in {"handle", "reply", "retry", "mark", "apply"}
    /\ Fault
    /\ RolledBack(t)
    /\ Goto(t, "fail")
    /\ UNCHANGED <<idVars, record, applied, replied, acked>>

-----------------------------------------------------------------------------
(* The end of a delivery.                                                    *)

Mark(t) ==
    LET e == thread[t].event IN
    /\ thread[t].at \in {"mark", "apply"}
    /\ IF At(t, "apply") THEN Apply(e) ELSE UNCHANGED applied
    /\ Write(e, "processed", FALSE)
    /\ Release(e)
    /\ Answer(e)
    /\ Return(t)
    /\ UNCHANGED <<idVars, replied>>

\* _terminalize_durable_line_reply_failure
Terminalize(t) ==
    LET e == thread[t].event IN
    /\ At(t, "terminate")
    /\ Write(e, "failed", FALSE)
    /\ Answer(e)
    /\ Return(t)
    /\ UNCHANGED <<idVars, holder, applied, replied>>

\* _mark_line_webhook_event_failed and the apology
MarkFailed(t) ==
    LET e == thread[t].event IN
    /\ At(t, "fail")
    /\ holder[e] = NoThread
    /\ IF record[e].status = "processed" THEN UNCHANGED record ELSE Write(e, "failed", FALSE)
    /\ ReplyIfPossible(e)
    /\ Answer(e)
    /\ Return(t)
    /\ UNCHANGED <<idVars, holder, applied>>

\* The server dies, or the database fails outside the handler: rolled back, and no 200.
Crash(t) ==
    /\ ~At(t, "idle")
    /\ Fault
    /\ RolledBack(t)
    /\ Return(t)
    /\ UNCHANGED <<idVars, record, applied, replied, acked>>

ThreadStep(t) ==
    Claim(t) \/ Handle(t) \/ Reply(t) \/ Raises(t) \/ Mark(t) \/ Terminalize(t) \/ MarkFailed(t)

\* The web page and the world around the links.
Around ==
    /\ WebStep \/ ChangeMembership \/ \E a \in Attempts : Age(a)
    /\ UNCHANGED <<record, holder, thread, applied, replied, acked, faults>>

Next ==
    /\ \/ \E t \in Threads : ThreadStep(t) \/ Crash(t) \/ \E e \in Events : Deliver(t, e)
       \/ Around
    /\ UNCHANGED kindOf

Spec == Init /\ [][Next]_vars

\* Requests run to their end, and LINE delivers again what it has no 200 for.
FairSpec ==
    /\ Spec
    /\ \A t \in Threads : WF_vars(ThreadStep(t) /\ UNCHANGED kindOf)
    /\ \A e \in Events : WF_vars(\E t \in Threads : Deliver(t, e) /\ UNCHANGED kindOf)

-----------------------------------------------------------------------------
\* However often an event is delivered, one after the other or at once, and wherever
\* a delivery dies, its effect is committed once at most.
EffectOnce == \A e \in Events : applied[e] <= 1

\* A reply the effect owes is kept until LINE took it or refused it: an event LINE
\* will not deliver again has a row, and owes nothing.
NothingOwedAfterTheLast ==
    \A e \in acked : record[e].status # "none" /\ ~record[e].reply

\* An effect that owes a reply is marked processed only when LINE accepted the reply.
ProcessedIsReplied ==
    \A e \in Events :
        record[e].status = "processed" /\ kindOf[e] \in Durable /\ applied[e] > 0 => e \in replied

\* Owed replies are settled: LINE's deliveries go on until no row owes a reply any more
\* and LINE has a 200 for every event that has a row.
OwedIsSettled ==
    <>[](\A e \in Events : record[e].status # "none" => ~record[e].reply /\ e \in acked)
=============================================================================
