---------------------------- MODULE MCRadioLink ----------------------------
(***************************************************************************)
(* RadioLink for TLC: the packets are the request, one of another device   *)
(* and the telemetry of a few measurements.                                *)
(***************************************************************************)
EXTENDS RadioLink

CONSTANTS request, other, remains

MCPacket   == {request, other, remains} \cup Telemetry
MCReadings == Telemetry \cup {remains}
=============================================================================
