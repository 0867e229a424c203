---------------------------------- MODULE Adc ----------------------------------
(***************************************************************************)
(* hw::Adc: channels of the two converter units.  All objects of a unit    *)
(* share one handle, which the first init creates and the release of the   *)
(* last object deletes.  The release of the last object of UNIT_2 deletes  *)
(* the handle of UNIT_1 instead, wherever that handle is in use, and       *)
(* forgets the handle of UNIT_2, whose unit stays claimed.                 *)
(*                                                                         *)
(* Deleting or using a handle that is deleted already is undefined: here   *)
(* it changes nothing.  An object is built once.                           *)
(***************************************************************************)
EXTENDS Gpio, Sequences

CONSTANT Adcs  \* the objects

VARIABLES usedConfig,     \* usedConfig_, a set: no configuration is in it twice
          adcConfig,      \* config_ of each object, without its bit width
          adcHandle,      \* adcHandle_ of each object
          adcUnitHandle,  \* adcUnit1Handle_ and adcUnit2Handle_
          claimedUnits    \* the units the driver has handed out

adcVars == <<usedConfig, adcConfig, adcHandle, adcUnitHandle, claimedUnits>>

Units   == {"UNIT_1", "UNIT_2"}
Handles == {"nullptr", "live", "deleted"}

\* The pins of the channels 0, 1, 2, ... of each unit.
PinsOf == [UNIT_1 |-> <<36, 37, 38, 39, 32, 33, 34, 35>>,
           UNIT_2 |-> <<4, 0, 2, 15, 13, 12, 14, 27, 25, 26>>]

Configs == {c \in Units \X (0..9) : c[2] < Len(PinsOf[c[1]])}

INVALID_CONFIG == <<"UNKNOWN", -1>>
NO_CONFIG      == <<"UNBUILT", -1>>

ConfigOf(number) ==
    IF \E c \in Configs : PinsOf[c[1]][c[2] + 1] = number
    THEN CHOOSE c \in Configs : PinsOf[c[1]][c[2] + 1] = number
    ELSE INVALID_CONFIG

AdcInit ==
    /\ usedConfig = {}
    /\ adcConfig = [a \in Adcs |-> NO_CONFIG]
    /\ adcHandle = [a \in Adcs |-> "nullptr"]
    /\ adcUnitHandle = [u \in Units |-> "nullptr"]
    /\ claimedUnits = {}

BuildAdc(a, g) ==
    LET config == IF IsGpioAssigned(g) THEN ConfigOf(gpioNumber[g]) ELSE INVALID_CONFIG IN
    /\ adcConfig[a] = NO_CONFIG
    /\ gpioNumber[g] # UNBUILT
    /\ adcConfig' = [adcConfig EXCEPT ![a] = IF config \in usedConfig
                                             THEN INVALID_CONFIG ELSE config]
    /\ usedConfig' = usedConfig \cup ({config} \ {INVALID_CONFIG})
    /\ UNCHANGED <<adcHandle, adcUnitHandle, claimedUnits>>

\* init with a handle of its unit at hand; whether the channel can be configured then
\* changes nothing but the result.
InitAdcShared(a) ==
    /\ adcConfig[a] \in Configs
    /\ adcUnitHandle[adcConfig[a][1]] # "nullptr"
    /\ adcHandle' = [adcHandle EXCEPT ![a] = adcUnitHandle[adcConfig[a][1]]]
    /\ UNCHANGED <<usedConfig, adcConfig, adcUnitHandle, claimedUnits>>

\* init with a handle to create: the driver refuses a unit that it has handed out.
InitAdcFirst(a) ==
    LET unit == adcConfig[a][1] IN
    /\ adcConfig[a] \in Configs
    /\ adcUnitHandle[unit] = "nullptr"
    /\ \/ /\ unit \notin claimedUnits
          /\ adcHandle' = [adcHandle EXCEPT ![a] = "live"]
          /\ adcUnitHandle' = [adcUnitHandle EXCEPT ![unit] = "live"]
          /\ claimedUnits' = claimedUnits \cup {unit}
       \/ /\ adcHandle' = [adcHandle EXCEPT ![a] = "nullptr"]
          /\ UNCHANGED <<adcUnitHandle, claimedUnits>>
    /\ UNCHANGED <<usedConfig, adcConfig>>

HasUnit(unit, configs) == \E c \in configs : c[1] = unit

\* clearAdcUnitHandle_: for either unit the driver is given the handle of UNIT_1.
ClearAdcUnitHandle(a, unit) ==
    LET dies == adcUnitHandle["UNIT_1"] = "live" IN
    /\ claimedUnits' = IF dies THEN claimedUnits \ {"UNIT_1"} ELSE claimedUnits
    /\ adcHandle' = [b \in Adcs |-> IF b = a THEN "nullptr"
                                    ELSE IF dies /\ adcHandle[b] # "nullptr"
                                              /\ adcConfig[b][1] = "UNIT_1" THEN "deleted"
                                    ELSE adcHandle[b]]
    /\ adcUnitHandle' = [u \in Units |-> IF u = unit THEN "nullptr"
                                         ELSE IF dies /\ u = "UNIT_1" THEN "deleted"
                                         ELSE adcUnitHandle[u]]

\* Mutant: the other objects of the unit are not looked for.
DeinitAdcAlone(a) ==
    /\ adcConfig[a] \in usedConfig
    /\ usedConfig' = usedConfig \ {adcConfig[a]}
    /\ adcConfig' = [adcConfig EXCEPT ![a] = INVALID_CONFIG]
    /\ ClearAdcUnitHandle(a, adcConfig[a][1])

DeinitAdc(a) ==
    /\ adcConfig[a] \in usedConfig
    /\ usedConfig' = usedConfig \ {adcConfig[a]}
    /\ adcConfig' = [adcConfig EXCEPT ![a] = INVALID_CONFIG]
    /\ IF HasUnit(adcConfig[a][1], usedConfig')
       THEN adcHandle' = [adcHandle EXCEPT ![a] = "nullptr"]
            /\ UNCHANGED <<adcUnitHandle, claimedUnits>>
       ELSE ClearAdcUnitHandle(a, adcConfig[a][1])

AdcNext ==
    \E a \in Adcs :
       \/ \E g \in Gpios : BuildAdc(a, g)
       \/ InitAdcShared(a) \/ InitAdcFirst(a) \/ DeinitAdc(a)

AdcSystem == <<gpioVars, adcVars>>

AdcSystemNext ==
    \/ GpioNext /\ UNCHANGED adcVars
    \/ AdcNext /\ UNCHANGED gpioVars

AdcSpec == GpioInit /\ AdcInit /\ [][AdcSystemNext]_AdcSystem

-----------------------------------------------------------------------------
(* Properties.                                                             *)

AdcTypeOK ==
    /\ GpioTypeOK
    /\ usedConfig \subseteq Configs
    /\ adcConfig \in [Adcs -> Configs \cup {INVALID_CONFIG, NO_CONFIG}]
    /\ adcHandle \in [Adcs -> Handles]
    /\ adcUnitHandle \in [Units -> Handles]
    /\ claimedUnits \subseteq Units

\* Whatever other objects do, built on the same pins or not, the handle that an object
\* has obtained works until the object's own deinit, but for one case: the release of
\* the last object of UNIT_2, for which clearAdcUnitHandle_ deletes the handle of UNIT_1.
LastOfUnit2Goes ==
    HasUnit("UNIT_2", usedConfig) /\ ~HasUnit("UNIT_2", usedConfig')

AdcHandlesOutliveUse ==
    [][\A a \in Adcs :
          adcHandle[a] = "live" =>
             \/ adcHandle'[a] = "live"
             \/ adcConfig'[a] = INVALID_CONFIG
             \/ adcConfig[a][1] = "UNIT_1" /\ LastOfUnit2Goes
      ]_AdcSystem
=============================================================================
