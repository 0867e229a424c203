--------------------------- MODULE ConnectionBits ---------------------------
(***************************************************************************)
(* The bits of the hub's connectionEventGroup (defs.hpp).                  *)
(***************************************************************************)
EXTENDS EventGroup

WIFI_CONNECTED_BIT == "WIFI_CONNECTED_BIT"
AWS_CONNECTED_BIT  == "AWS_CONNECTED_BIT"

ASSUME BitAssumption == Bit = {WIFI_CONNECTED_BIT, AWS_CONNECTED_BIT}
=============================================================================
