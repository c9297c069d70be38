--------------------------- MODULE MCLineWebhook ----------------------------
EXTENDS LineWebhook, TLC

CONSTANTS l1, a1, e1, e2, e3

\* One LINE user starts a flow (e1), answers the page or gives up (e2), and then
\* gives the link back or uses it (e3).
MCMixes ==
    {(e1 :> "start") @@ (e2 :> "linked") @@ (e3 :> "unlink"),
     (e1 :> "start") @@ (e2 :> "linked") @@ (e3 :> "postback"),
     (e1 :> "start") @@ (e2 :> "silentlink") @@ (e3 :> "command"),
     (e1 :> "start") @@ (e2 :> "linkfailed") @@ (e3 :> "linked")}
MCLines == [e \in Events |-> l1]
MCAbout == [e \in Events |-> a1]
=============================================================================
