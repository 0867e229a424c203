---------------------------- MODULE HubConnection ----------------------------
(***************************************************************************)
(* The hub's way to the cloud: WifiController and AwsIotThread on the same *)
(* event group and led queue, as app_main joins them.  A session can begin *)
(* only over a link that has an address.                                   *)
(***************************************************************************)
EXTENDS WifiController, AwsIotThread

vars == <<groupVars, ledEventQueue, wifiVars, awsVars>>

Init == WifiInit /\ AwsInit

AwsStep ==
    /\ AwsThread
    /\ session = "down" /\ session' = "up" => link = "ip"
    /\ UNCHANGED wifiVars

AwsTimerStep == ReconnectTimerFires /\ UNCHANGED wifiVars

SessionStep == SessionLost /\ UNCHANGED wifiVars

Telemetry == ReadingArrives /\ UNCHANGED wifiVars

WifiStep == (WifiProgress \/ Associates \/ GetsIp \/ LinkFails) /\ UNCHANGED awsVars

UiStep == ReceiveLed /\ UNCHANGED <<groupVars, wifiVars, awsVars>>

Next == AwsStep \/ AwsTimerStep \/ SessionStep \/ Telemetry \/ WifiStep \/ UiStep

Spec == Init /\ [][Next]_vars

\* The AWS thread runs, and the network drops the session of a link that is down.
Fairness ==
    /\ WF_vars(AwsStep)
    /\ WF_vars(SessionStep /\ link # "ip")

FairSpec == Spec /\ Fairness

-----------------------------------------------------------------------------
(* Properties.                                                             *)

\* The Wi-Fi handlers never do to the group or the led queue what AwsIotThread is
\* not prepared for: the hub's connection behaves like the thread in the
\* surroundings its own module assumes, so what is proved there holds here.
ImplementsAwsIotThread == AwsSpec

\* When the link stays down, the session and its bit go too: the thread goes on
\* calling the client, and so notices, also while it has no reason to connect.
DeadLinkEndsSession ==
    <>[](link # "ip") => <>[](session = "down" /\ AWS_CONNECTED_BIT \notin bits)

\* What eventgroup.hpp says of isBitsSet, true if the bits are set, where yield_
\* relies on it to connect.  It fails after a disconnection: the second clear of
\* handleDisconnect_ stores a value fetched before the Wi-Fi handler set its bit,
\* and no attempt is made while the link is up.
SetBitIsSeen ==
    pc = "yield" /\ session = "down" /\ WIFI_CONNECTED_BIT \in bits
        => IsBitsSet({WIFI_CONNECTED_BIT})
=============================================================================
