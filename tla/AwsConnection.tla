---------------------------- MODULE AwsConnection ----------------------------
(***************************************************************************)
(* What AwsIotThread promises about the connection to AWS IoT: there is    *)
(* always exactly one reason for the next attempt.  After the first Wi-Fi  *)
(* connection an attempt is due; an attempt ends online or starts a pause; *)
(* the end of a pause, or of a session, makes the next attempt due.  An    *)
(* attempt may end stranded, with no next one, only if timer commands can  *)
(* be refused.                                                             *)
(***************************************************************************)
CONSTANT MayStrand

VARIABLE phase

Phases == {"startup", "due", "connecting", "online", "pausing", "stranded"}

Init == phase = "startup"

WifiUp    == phase = "startup" /\ phase' = "due"
Attempt   == phase = "due" /\ phase' = "connecting"
Connected == phase = "connecting" /\ phase' = "online"
Failed    == phase = "connecting" /\ phase' = "pausing"
Stranded  == phase = "connecting" /\ MayStrand /\ phase' = "stranded"
PauseOver == phase = "pausing" /\ phase' = "due"
SessionOver == phase = "online" /\ phase' = "due"

Next == WifiUp \/ Attempt \/ Connected \/ Failed \/ Stranded \/ PauseOver \/ SessionOver

Spec == Init /\ [][Next]_phase
=============================================================================
