------------------------------ MODULE WifiStartup ------------------------------
(***************************************************************************)
(* How WifiController and Wifi set the Wi-Fi driver up, and what of it is  *)
(* left when one of their calls fails.  WifiController reads the station's *)
(* credentials from the storage; the driver keeps those it was given last  *)
(* in the flash, from where it takes them when it is initialised.          *)
(*                                                                         *)
(* WifiController uses the mode APSTA; the others are those of Wifi.  The  *)
(* configuration of the access point and the network interfaces are left   *)
(* out; the call that sets the former is in its place.                     *)
(***************************************************************************)
EXTENDS Naturals, Sequences

CONSTANTS Credentials,   \* what the storage may hold
          NoCredentials  \* nothing stored, or nothing given to the driver

VARIABLES wifiMode,       \* mode_
          stored,         \* the credentials in the storage
          loopCreated,    \* the default event loop exists
          driver,         \* the driver: is it initialised and started, its credentials
          joined,         \* the credentials the station last joined with since the restart
          restoreFailed   \* a restore got to its middle since the restart

wifiStartupVars == <<wifiMode, stored, loopCreated, driver, joined, restoreFailed>>

Modes    == {"NONE", "STA", "AP", "APSTA"}
StaModes == {"STA", "APSTA"}
ApModes  == {"AP", "APSTA"}

WifiStartupInit ==
    /\ wifiMode = "NONE"
    /\ stored \in Credentials \cup {NoCredentials}
    /\ loopCreated = FALSE
    /\ driver = [up |-> FALSE, started |-> FALSE, sta |-> NoCredentials]
    /\ joined = NoCredentials
    /\ restoreFailed = FALSE

\* setMode_ and setConfig_: the calls of the driver, in their order.
ConfigCalls(mode) ==
    CASE mode = "STA"   -> <<"mode", "sta">>
      [] mode = "AP"    -> <<"mode", "ap">>
      [] mode = "APSTA" -> <<"mode", "sta", "ap">>

\* WifiController::init: two strings of the storage, preInit_, the above, two handlers.
InitCalls(mode) ==
    <<"ssid", "password", "netif", "loop", "wifi">> \o ConfigCalls(mode)
        \o <<"wifiHandler", "ipHandler">>

Done(calls, n) == {calls[i] : i \in 1..n}

\* How many calls may succeed: without credentials none, and the default event loop is
\* created once and never deleted, so that a second init gets no further.
Possible(calls) ==
    {n \in 0..Len(calls) :
        /\ "ssid" \in Done(calls, n) => stored # NoCredentials
        /\ "loop" \in Done(calls, n) => ~loopCreated}

\* Mutant: mode_ stays when the configuration fails.
ModeKept(mode, done) == IF "mode" \in done THEN mode ELSE wifiMode

\* Wifi::init resets mode_ when the configuration fails.
ModeAfterInit(mode, done) ==
    IF "mode" \notin done THEN wifiMode
    ELSE IF (mode \in StaModes => "sta" \in done) /\ (mode \in ApModes => "ap" \in done)
         THEN mode ELSE "NONE"

ControllerInit(mode) ==
    \E n \in Possible(InitCalls(mode)) :
       LET done == Done(InitCalls(mode), n) IN
       /\ wifiMode' = ModeAfterInit(mode, done)
       /\ loopCreated' = (loopCreated \/ "loop" \in done)
       /\ driver' = [driver EXCEPT !.up = @ \/ "wifi" \in done,
                                   !.sta = IF "sta" \in done THEN stored ELSE @]
       /\ UNCHANGED <<stored, joined, restoreFailed>>

\* Wifi::restore: the driver forgets its configuration first; mode_ is not reset.
Restore(mode) ==
    /\ wifiMode # "NONE" /\ driver.up /\ stored # NoCredentials
    /\ \E n \in 0..Len(ConfigCalls(mode)) :
          LET done == Done(ConfigCalls(mode), n) IN
          /\ wifiMode' = IF "mode" \in done THEN mode ELSE wifiMode
          /\ driver' = [driver EXCEPT !.sta = IF "sta" \in done THEN stored
                                              ELSE NoCredentials]
          /\ restoreFailed' = (restoreFailed \/ n < Len(ConfigCalls(mode)))
    /\ UNCHANGED <<stored, loopCreated, joined>>

WifiStart ==
    /\ driver.up
    /\ driver' = [driver EXCEPT !.started = TRUE]
    /\ UNCHANGED <<wifiMode, stored, loopCreated, joined, restoreFailed>>

WifiStop ==
    /\ driver.up
    /\ driver' = [driver EXCEPT !.started = FALSE]
    /\ UNCHANGED <<wifiMode, stored, loopCreated, joined, restoreFailed>>

\* The driver refuses this while it is started.
WifiDeinit ==
    /\ driver.up /\ ~driver.started
    /\ driver' = [driver EXCEPT !.up = FALSE]
    /\ UNCHANGED <<wifiMode, stored, loopCreated, joined, restoreFailed>>

\* Wifi::connect; the driver refuses it when it is not started.
WifiJoin ==
    /\ wifiMode \in StaModes
    /\ driver.started
    /\ joined' = driver.sta
    /\ UNCHANGED <<wifiMode, stored, loopCreated, driver, restoreFailed>>

\* The device restarts, perhaps with other credentials in its storage.
WifiRestart ==
    /\ wifiMode' = "NONE"
    /\ stored' \in Credentials \cup {NoCredentials}
    /\ loopCreated' = FALSE
    /\ driver' = [driver EXCEPT !.up = FALSE, !.started = FALSE]
    /\ joined' = NoCredentials
    /\ restoreFailed' = FALSE

WifiStartupNext ==
    \/ \E mode \in Modes \ {"NONE"} : ControllerInit(mode) \/ Restore(mode)
    \/ WifiStart \/ WifiStop \/ WifiDeinit \/ WifiJoin \/ WifiRestart

WifiStartupSpec == WifiStartupInit /\ [][WifiStartupNext]_wifiStartupVars

-----------------------------------------------------------------------------
(* Properties.                                                             *)

WifiStartupTypeOK ==
    /\ wifiMode \in Modes
    /\ stored \in Credentials \cup {NoCredentials}
    /\ loopCreated \in BOOLEAN
    /\ driver \in [up : BOOLEAN, started : BOOLEAN, sta : Credentials \cup {NoCredentials}]
    /\ joined \in Credentials \cup {NoCredentials}
    /\ restoreFailed \in BOOLEAN

\* Whichever call of init failed, and whoever goes on as if none had, the station never
\* joins with credentials the driver has kept from before a restart: what it joins with
\* is what the storage holds.  A restore that failed is excepted: it leaves mode_ as it
\* was and the driver without credentials.
JoinsAsStored ==
    /\ joined # NoCredentials => joined = stored
    /\ wifiMode \in StaModes /\ ~restoreFailed => driver.sta = stored
=============================================================================
