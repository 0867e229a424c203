-------------------------------- MODULE Drivers --------------------------------
(***************************************************************************)
(* The classes that both programs build on and that share no state with    *)
(* each other: event groups, the timers of HrTimer, the pins and the       *)
(* converter, the storage, the set-up of Wi-Fi and the settings of the     *)
(* modem.  As their steps commute, it is enough to look at the behaviours  *)
(* in which one of them works: the one exercised.                          *)
(***************************************************************************)
EXTENDS EventGroup, HrTimer, Adc, NvsStore, WifiStartup, ModemSettings

VARIABLE exercised  \* the part that works

driversVars ==
    <<groupVars, hrVars, gpioVars, adcVars, nvsVars, wifiStartupVars, settingsVars,
      exercised>>

DriversInit ==
    /\ GroupInit
    /\ HrInit
    /\ GpioInit
    /\ AdcInit
    /\ NvsInit
    /\ WifiStartupInit
    /\ SettingsInit
    /\ exercised \in {"group", "timers", "converter", "storage", "wifi", "modem"}

DriversNext ==
    /\ UNCHANGED exercised
    /\ \/ /\ exercised = "group"
          /\ GroupNext
          /\ UNCHANGED <<hrVars, gpioVars, adcVars, nvsVars, wifiStartupVars, settingsVars>>
       \/ /\ exercised = "timers"
          /\ HrNext
          /\ UNCHANGED <<groupVars, gpioVars, adcVars, nvsVars, wifiStartupVars,
                         settingsVars>>
       \/ /\ exercised = "converter"
          /\ AdcSystemNext
          /\ UNCHANGED <<groupVars, hrVars, nvsVars, wifiStartupVars, settingsVars>>
       \/ /\ exercised = "storage"
          /\ NvsNext
          /\ UNCHANGED <<groupVars, hrVars, gpioVars, adcVars, wifiStartupVars,
                         settingsVars>>
       \/ /\ exercised = "wifi"
          /\ WifiStartupNext
          /\ UNCHANGED <<groupVars, hrVars, gpioVars, adcVars, nvsVars, settingsVars>>
       \/ /\ exercised = "modem"
          /\ SettingsNext
          /\ UNCHANGED <<groupVars, hrVars, gpioVars, adcVars, nvsVars, wifiStartupVars>>

DriversSpec == DriversInit /\ [][DriversNext]_driversVars

\* Types of all parts; in particular what is stored as a byte is one.
DriversTypeOK ==
    /\ GroupTypeOK
    /\ HrTypeOK
    /\ AdcTypeOK
    /\ NvsTypeOK
    /\ WifiStartupTypeOK
    /\ SettingsTypeOK
=============================================================================
