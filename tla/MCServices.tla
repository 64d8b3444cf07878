----------------------------- MODULE MCServices -----------------------------
(* The components that share no state with each other, on small instances in  *)
(* one run: part says which of them a behaviour is of, and the others stand   *)
(* still in it.                                                               *)
EXTENDS DriveLifecycle, Sessions, People, TopUps, Alerts, OfflineCheckIns, VoiceIntros,
        Outcomes, Messages, LiveBoard, Trust, Fanout, RateLimits, TLC

CONSTANTS
    d1,          \* a drive
    r1, r2,      \* requests and runs, of every component
    u1, u2, u3,  \* people
    g1, g2       \* pages, each in a browser of its own
VARIABLE part

Parts == {"drives", "sessions", "people", "topups", "alerts", "offline", "voice",
          "outcomes", "messages", "live", "trust", "fanout", "rates"}

OwnBrowser == g1 :> g1 @@ g2 :> g2
Symmetry == Permutations({r1, r2}) \cup Permutations({u1, u2})

Only(p) ==
    /\ part = p /\ UNCHANGED part
    /\ p # "drives"   => UNCHANGED vars
    /\ p # "sessions" => UNCHANGED sessionVars
    /\ p # "people"   => UNCHANGED peopleVars
    /\ p # "topups"   => UNCHANGED topUpVars
    /\ p # "alerts"   => UNCHANGED alertVars
    /\ p # "offline"  => UNCHANGED offlineVars
    /\ p # "voice"    => UNCHANGED voiceVars
    /\ p # "outcomes" => UNCHANGED outcomesVars
    /\ p # "messages" => UNCHANGED messageVars
    /\ p # "live"     => UNCHANGED liveVars
    /\ p # "trust"    => UNCHANGED trustVars
    /\ p # "fanout"   => UNCHANGED fanoutVars
    /\ p # "rates"    => UNCHANGED rateVars

ServicesInit ==
    /\ part \in Parts
    /\ Init /\ SessionsInit /\ PeopleInit /\ TopUpsInit /\ AlertsInit /\ OfflineInit /\ VoiceInit
    /\ OutcomesInit /\ MessagesInit /\ LiveInit /\ TrustInit /\ FanoutInit /\ RateInit
    /\ part # "alerts" => chat
    /\ part # "fanout" => verified /\ matching = {}

ServicesNext ==
    \/ Only("drives") /\ Next
    \/ Only("sessions") /\ SessionsNext
    \/ Only("people") /\ PeopleNext
    \/ Only("topups") /\ TopUpsNext
    \/ Only("alerts") /\ AlertsNext
    \/ Only("offline") /\ OfflineNext
    \/ Only("voice") /\ VoiceNext
    \/ Only("outcomes") /\ OutcomesNext
    \/ Only("messages") /\ MessagesNext
    \/ Only("live") /\ LiveNext
    \/ Only("trust") /\ TrustNext
    \/ Only("fanout") /\ FanoutNext
    \/ Only("rates") /\ RateNext

ServicesSpec == ServicesInit /\ [][ServicesNext]_<<part, vars, sessionVars, peopleVars, topUpVars,
    alertVars, offlineVars, voiceVars, outcomesVars, messageVars, liveVars,
    trustVars, fanoutVars, rateVars>>

\* Every variable has its type, in every state of the component it is of.
ServicesTypeOK ==
    /\ part = "drives"   => TypeOK
    /\ part = "sessions" => SessionsTypeOK
    /\ part = "people"   => PeopleTypeOK
    /\ part = "topups"   => TopUpsTypeOK
    /\ part = "alerts"   => AlertsTypeOK
    /\ part = "offline"  => OfflineTypeOK
    /\ part = "voice"    => VoiceTypeOK
    /\ part = "outcomes" => OutcomesTypeOK
    /\ part = "messages" => MessagesTypeOK
    /\ part = "live"     => LiveTypeOK
    /\ part = "trust"    => TrustTypeOK
    /\ part = "fanout"   => FanoutTypeOK
    /\ part = "rates"    => RateTypeOK
=============================================================================
