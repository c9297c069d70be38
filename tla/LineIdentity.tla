---------------------------- MODULE LineIdentity ----------------------------
(***************************************************************************)
(* Linking a LINE user with a web user (planner-server, line_identity.py): *)
(* the one-time attempts with their flow token, redirect token and nonce,  *)
(* and the bindings they end in.                                           *)
(*                                                                         *)
(* Each operation is one database transaction. The rows it decides on are  *)
(* locked (FOR UPDATE) and the races of two inserts end at a unique        *)
(* constraint and a retry, so an operation is one step here; the webhook   *)
(* that calls three of them is in LineWebhook. Secrets are booleans: a     *)
(* token is stored or it is not, and only its holder can present it.       *)
(***************************************************************************)
EXTENDS Naturals, FiniteSets

CONSTANTS
    LineUsers,  \* users of the LINE channel (one destination)
    WebUsers,
    Sites,
    Attempts,   \* rows of line_account_link_attempts
    NoOne       \* user_id and site_id of an attempt nobody confirmed

ASSUME LineAssumption == NoOne \notin WebUsers \cup Sites

VARIABLES
    attempt,   \* the row of each attempt; status "none" when there is none yet
    bindings,  \* rows of line_user_bindings
    readers    \* <<user, site>> pairs _authorized_user_site accepts

idVars == <<attempt, bindings, readers>>

Pending == {"pending_web", "pending_line"}
Ended == {"consumed", "failed", "superseded", "expired"}

AttemptRow == [line : LineUsers \cup {NoOne}, user : WebUsers \cup {NoOne},
               site : Sites \cup {NoOne}, status : {"none"} \cup Pending \cup Ended,
               token : BOOLEAN,      \* encrypted_link_token is stored
               redirect : BOOLEAN,   \* redirect_token_hash is stored
               redirected : BOOLEAN, \* LINE's page, and so the nonce, was given out
               stale : BOOLEAN]      \* expires_at has passed
Binding == [line : LineUsers, user : WebUsers, site : Sites, active : BOOLEAN]

IdentityTypeOK ==
    /\ attempt \in [Attempts -> AttemptRow]
    /\ bindings \subseteq Binding
    /\ readers \subseteq WebUsers \X Sites

NoAttempt == [line |-> NoOne, user |-> NoOne, site |-> NoOne, status |-> "none",
              token |-> FALSE, redirect |-> FALSE, redirected |-> FALSE, stale |-> FALSE]

IdentityInit ==
    /\ attempt = [a \in Attempts |-> NoAttempt]
    /\ bindings = {}
    /\ readers = WebUsers \X Sites

\* is_current of the row: the check constraint ties it to the status.
Current(a) == attempt[a].status \in Pending

-----------------------------------------------------------------------------
\* Mutant: the attempt ends and its secrets stay in the row.
RetiredOnly(row, status) == [row EXCEPT !.status = status]

Retired(row, status) == [row EXCEPT !.status = status, !.token = FALSE, !.redirect = FALSE]

\* Mutant: the stale attempts are retired and the previous one is not.
Unsuperseded(a, l) == IF Current(a) /\ attempt[a].stale THEN Retired(attempt[a], "expired")
                      ELSE attempt[a]

\* What a start does to another row: stale attempts of everybody expire, the
\* LINE user's own current one is superseded.
AfterStart(a, l) ==
    IF Current(a) /\ attempt[a].stale THEN Retired(attempt[a], "expired")
    ELSE IF Current(a) /\ attempt[a].line = l THEN Retired(attempt[a], "superseded")
    ELSE attempt[a]

\* create_line_account_link_attempt
StartAttempt(new, l) ==
    /\ attempt[new].status = "none"
    /\ attempt' = [a \in Attempts |->
                     IF a = new
                     THEN [NoAttempt EXCEPT !.line = l, !.status = "pending_web", !.token = TRUE]
                     ELSE AfterStart(a, l)]
    /\ UNCHANGED <<bindings, readers>>

\* _require_attempt_state, when the row has the expected status and is too old:
\* it is retired, and every caller commits that.
ExpireAttempt(a, status) ==
    /\ attempt[a].status = status /\ attempt[a].stale
    /\ attempt' = [attempt EXCEPT ![a] = Retired(@, "expired")]
    /\ UNCHANGED <<bindings, readers>>

\* Mutant: only the age of the attempt is looked at.
InTime(a, status) == attempt[a].status # "none" /\ ~attempt[a].stale

Usable(a, status) == attempt[a].status = status /\ ~attempt[a].stale

\* confirm_line_account_link_site: the web user chooses a site.
ConfirmSite(a, u, s) ==
    /\ Usable(a, "pending_web")
    /\ <<u, s>> \in readers
    /\ attempt' = [attempt EXCEPT ![a] = [@ EXCEPT !.user = u, !.site = s, !.redirect = TRUE,
                                                   !.status = "pending_line"]]
    /\ UNCHANGED <<bindings, readers>>

\* consume_line_account_link_redirect
ConsumeRedirect(a) ==
    /\ attempt[a].redirect
    /\ Usable(a, "pending_line")
    /\ ~attempt[a].redirected /\ attempt[a].token
    /\ attempt' = [attempt EXCEPT ![a] = [@ EXCEPT !.token = FALSE, !.redirect = FALSE,
                                                   !.redirected = TRUE]]
    /\ UNCHANGED <<bindings, readers>>

-----------------------------------------------------------------------------
(* consume_line_account_link: LINE answers with the nonce of attempt a and   *)
(* the LINE user l who stands behind the answer.                             *)

Rows(l, u) == {b \in bindings : b.line = l \/ b.user = u}

\* Mutant: only the LINE user's other link is noticed.
TakenByLine(l, u) == \E b \in Rows(l, u) : b.active /\ b.user # u

\* _upsert_line_user_binding refuses: either side has another active link.
Taken(l, u) == \E b \in Rows(l, u) : b.active /\ (b.line # l \/ b.user # u)

\* It keeps one row for both sides, whichever inactive rows there were.
Upserted(l, u, s) ==
    (bindings \ Rows(l, u)) \cup {[line |-> l, user |-> u, site |-> s, active |-> TRUE]}

Answered(a) == attempt[a].redirected /\ Usable(a, "pending_line")

\* Mutant: whoever answers is linked.
AnyoneMayLink(a, l) == Answered(a) /\ <<attempt[a].user, attempt[a].site>> \in readers

MayLink(a, l) ==
    /\ Answered(a)
    /\ attempt[a].line = l
    /\ <<attempt[a].user, attempt[a].site>> \in readers

LinkFailed(a) ==
    /\ Answered(a)
    /\ attempt' = [attempt EXCEPT ![a] = Retired(@, "failed")]
    /\ UNCHANGED <<bindings, readers>>

Link(a, l) ==
    /\ MayLink(a, l)
    /\ ~Taken(l, attempt[a].user)
    /\ bindings' = Upserted(l, attempt[a].user, attempt[a].site)
    /\ attempt' = [attempt EXCEPT ![a] = Retired(@, "consumed")]
    /\ UNCHANGED readers

LinkConflict(a, l) ==
    /\ MayLink(a, l)
    /\ Taken(l, attempt[a].user)
    /\ attempt' = [attempt EXCEPT ![a] = Retired(@, "failed")]
    /\ UNCHANGED <<bindings, readers>>

NonceSpent(a) == attempt[a].redirected /\ attempt[a].status # "pending_line"

\* The nonce is used up, the user behind the answer another, or not allowed: no change.
LinkRefused(a, l) == NonceSpent(a) \/ (Answered(a) /\ ~MayLink(a, l))

\* unlink_line_user_binding
Unlink(l) ==
    /\ bindings' = {IF b.line = l THEN [b EXCEPT !.active = FALSE] ELSE b : b \in bindings}
    /\ UNCHANGED <<attempt, readers>>

-----------------------------------------------------------------------------
(* The world: ten minutes pass, memberships are granted and revoked.         *)

Age(a) ==
    /\ Current(a) /\ ~attempt[a].stale
    /\ attempt' = [attempt EXCEPT ![a].stale = TRUE]
    /\ UNCHANGED <<bindings, readers>>

ChangeMembership ==
    /\ \E pair \in WebUsers \X Sites :
         readers' = IF pair \in readers THEN readers \ {pair} ELSE readers \cup {pair}
    /\ UNCHANGED <<attempt, bindings>>

\* Requests of the web page and LINE's own page.
WebStep ==
    \E a \in Attempts :
        \/ \E u \in WebUsers, s \in Sites : ConfirmSite(a, u, s)
        \/ ExpireAttempt(a, "pending_web")
        \/ ConsumeRedirect(a)
        \/ attempt[a].redirect /\ ExpireAttempt(a, "pending_line")

IdentityNext ==
    \/ WebStep
    \/ \E l \in LineUsers :
         \/ \E a \in Attempts : StartAttempt(a, l) \/ Link(a, l) \/ LinkConflict(a, l)
         \/ Unlink(l)
    \/ \E a \in Attempts : LinkFailed(a) \/ ExpireAttempt(a, "pending_line") \/ Age(a)
    \/ ChangeMembership

IdentitySpec == IdentityInit /\ [][IdentityNext]_idVars

-----------------------------------------------------------------------------
\* A link exists only between the LINE user the flow was started for and the web
\* user who confirmed it, with the site that user chose, in one attempt that was
\* still the current one when LINE answered.
LinkIsConfirmed ==
    \A b \in bindings : b.active =>
        \E a \in Attempts : /\ attempt[a].status = "consumed"
                            /\ attempt[a].line = b.line
                            /\ attempt[a].user = b.user
                            /\ attempt[a].site = b.site

\* A LINE user has one current attempt at most, and never two active links; the
\* same for a web user's links.
OneAtATime ==
    /\ \A a, c \in Attempts :
         Current(a) /\ Current(c) /\ attempt[a].line = attempt[c].line => a = c
    /\ \A b, c \in bindings : b.line = c.line \/ b.user = c.user => b = c

\* An attempt that ended keeps no secret that could be presented again.
SecretsLeave ==
    \A a \in Attempts : attempt[a].status \in Ended => ~attempt[a].token /\ ~attempt[a].redirect

\* An ended attempt stays as it ended: nothing is linked with it again.
EndedForGood ==
    [][\A a \in Attempts : attempt[a].status \in Ended => attempt'[a] = attempt[a]]_idVars

\* An active link never gives way to another flow: its row stays with its LINE user
\* and its web user, until one of them unlinked it.
NobodyIsTakenOver ==
    [][\A b \in bindings : b.active =>
          \E c \in bindings' : c.line = b.line /\ c.user = b.user]_idVars
=============================================================================
