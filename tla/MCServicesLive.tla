--------------------------- MODULE MCServicesLive ---------------------------
(* What must happen in the end, in the components that promise it: as in      *)
(* MCServices, part says which of them a behaviour is of.                     *)
EXTENDS Applications, TopUps, Alerts, LiveBoard, TLC

CONSTANTS
    c1, c2,  \* candidates
    r1, r2,  \* requests and runs, of every component
    p1, p2   \* payments
VARIABLE part

Parts == {"applications", "topups", "alerts", "live"}

Only(p) ==
    /\ part = p /\ UNCHANGED part
    /\ p # "applications" => UNCHANGED vars
    /\ p # "topups"       => UNCHANGED topUpVars
    /\ p # "alerts"       => UNCHANGED alertVars
    /\ p # "live"         => UNCHANGED liveVars

ServicesInit ==
    /\ part \in Parts
    /\ Init /\ TopUpsInit /\ AlertsInit /\ LiveInit
    /\ part # "alerts" => chat

ServicesNext ==
    \/ Only("applications") /\ Next
    \/ Only("topups") /\ TopUpsNext
    \/ Only("alerts") /\ AlertsNext
    \/ Only("live") /\ LiveNext

\* A transaction that has begun goes on, time passes, and cron keeps starting
\* the nightly job (as in Applications' FairSpec).
NightsPass ==
    /\ \A p \in Procs : WF_vars(part = "applications" /\ Advance(p))
    /\ \A p \in Requests : WF_vars(part = "applications" /\ AnswerError(p))
    /\ WF_vars(part = "applications" /\ RunJob)
    /\ WF_vars(part = "applications" /\ Tick)

\* A call goes on or dies, and the gateway repeats an event until it is
\* answered, whatever calls are in the way.
GatewayRepeats ==
    /\ \A c \in TopUpCalls : WF_topUpVars(part = "topups" /\ CallStep(c))
    /\ \A e \in Event : SF_topUpVars(part = "topups" /\ \E c \in TopUpCalls : HandleWebhook(c, e))

\* Cron keeps sweeping, and the worker takes what is queued and goes on with it.
SweepsGoOn ==
    /\ WF_alertVars(part = "alerts" /\ SweepMessages)
    /\ \A w \in AlertRuns : WF_alertVars(part = "alerts" /\ AlertRunStep(w))
    /\ WF_alertVars(part = "alerts" /\ \E w \in AlertRuns : TakeAlert(w, Message))

\* Whoever publishes or answers goes on, and an open page polls every half minute.
ScreensPoll ==
    /\ \A p \in Publishers : WF_liveVars(part = "live" /\ Publishing(p))
    /\ \A s \in Screens :
        /\ WF_liveVars(part = "live" /\ Joining(s))
        /\ WF_liveVars(part = "live" /\ Poll(s))
        /\ WF_liveVars(part = "live" /\ PollAnswered(s))

ServicesSpec ==
    /\ ServicesInit /\ [][ServicesNext]_<<part, vars, topUpVars, alertVars, liveVars>>
    /\ NightsPass /\ GatewayRepeats /\ SweepsGoOn /\ ScreensPoll

\* Once the arrivals stop changing, every screen of the company's comes to show
\* them (LiveBoard's ScreensCatchUp, in the behaviours that are of it).
EveryScreenCatchesUp == part = "live" => ScreensCatchUp
=============================================================================
