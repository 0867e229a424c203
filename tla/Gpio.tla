--------------------------------- MODULE Gpio ---------------------------------
(***************************************************************************)
(* hw::Gpio: a pin of the chip, which belongs to the first object built    *)
(* for it; any later one is left without a number.  No destructor gives a  *)
(* number back.                                                            *)
(***************************************************************************)
EXTENDS Integers

CONSTANTS Gpios,        \* the objects
          GpioNumbers   \* the numbers they are built with

ASSUME GpioAssumption == GpioNumbers \subseteq Int

VARIABLES usedGpioNumbers,     \* usedGpioNumbers_
          gpioNumber,          \* number_ of each object, UNBUILT before its constructor
          gpioMode,            \* mode_
          isInterruptEnabled   \* isInterruptEnabled_

gpioVars == <<usedGpioNumbers, gpioNumber, gpioMode, isInterruptEnabled>>

INVALID_GPIO_NUMBER == -1
UNBUILT             == -2
PinNumbers          == 0..39
GpioModes           == {"DISABLE", "INPUT", "OUTPUT"}

IsGpioAssigned(g) == gpioNumber[g] >= 0

GpioInit ==
    /\ usedGpioNumbers = {}
    /\ gpioNumber = [g \in Gpios |-> UNBUILT]
    /\ gpioMode = [g \in Gpios |-> "DISABLE"]
    /\ isInterruptEnabled = FALSE

BuildGpio(g, number) ==
    /\ gpioNumber[g] = UNBUILT
    /\ IF number \in PinNumbers /\ number \notin usedGpioNumbers
       THEN /\ gpioNumber' = [gpioNumber EXCEPT ![g] = number]
            /\ usedGpioNumbers' = usedGpioNumbers \cup {number}
       ELSE /\ gpioNumber' = [gpioNumber EXCEPT ![g] = INVALID_GPIO_NUMBER]
            /\ UNCHANGED usedGpioNumbers
    /\ UNCHANGED <<gpioMode, isInterruptEnabled>>

\* A mode the driver refuses leaves everything as it is.
SetMode(g, mode) ==
    /\ IsGpioAssigned(g)
    /\ gpioMode' = [gpioMode EXCEPT ![g] = mode]
    /\ UNCHANGED <<usedGpioNumbers, gpioNumber, isInterruptEnabled>>

\* setInterrupt installs the interrupt service for all pins when it is first needed; what
\* fails afterwards does not take it back.
SetInterrupt(g) ==
    /\ IsGpioAssigned(g)
    /\ isInterruptEnabled' = TRUE
    /\ UNCHANGED <<usedGpioNumbers, gpioNumber, gpioMode>>

GpioNext ==
    \E g \in Gpios :
       \/ \E number \in GpioNumbers : BuildGpio(g, number)
       \/ \E mode \in GpioModes : SetMode(g, mode)
       \/ SetInterrupt(g)

GpioTypeOK ==
    /\ usedGpioNumbers \subseteq PinNumbers
    /\ gpioNumber \in [Gpios -> PinNumbers \cup {INVALID_GPIO_NUMBER, UNBUILT}]
    /\ gpioMode \in [Gpios -> GpioModes]
    /\ isInterruptEnabled \in BOOLEAN
=============================================================================
