----------------------------- MODULE TimedMeter -----------------------------
(***************************************************************************)
(* app::TimedMeter with the Sht40 sensor, run by the main loop of the      *)
(* controller, and the callback of the measurement timer.  The n-th value  *)
(* of a quantity is the number n; 0 is INVALID_VALUE.                      *)
(*                                                                         *)
(* A measurement writes its two fields about 20 ms apart, the duration of  *)
(* the second sensor reading, into a telemetry that the radio thread, of   *)
(* higher priority on the same core, copies at any time.                   *)
(***************************************************************************)
EXTENDS Naturals

CONSTANTS MaxMeasurements,  \* bounds the number of measurements explored
          SensorMayFail     \* FALSE: every reading of the sensor succeeds

ASSUME MeterAssumption == MaxMeasurements \in Nat \ {0} /\ SensorMayFail \in BOOLEAN

VARIABLES telemetry,         \* config_.telemetry
          isReadyToMeasure,  \* isReadyToMeasure_
          meterPc,           \* where the main task is
          measurementTimer,  \* whether the measurement timer has been started
          taken              \* how many measurements have been begun

meterVars == <<telemetry, isReadyToMeasure, meterPc, measurementTimer, taken>>

Telemetry == [temperatureC : 0..MaxMeasurements, humidityRh : 0..MaxMeasurements]

-----------------------------------------------------------------------------
\* app_main measures once in start before it starts the timer and the radio thread.
MeterInit ==
    /\ telemetry = [temperatureC |-> 0, humidityRh |-> 0]
    /\ isReadyToMeasure = FALSE
    /\ meterPc = "temperature"
    /\ measurementTimer = "idle"
    /\ taken = 1

MeterTypeOK ==
    /\ telemetry \in Telemetry
    /\ isReadyToMeasure \in BOOLEAN
    /\ meterPc \in {"loop", "reset", "temperature", "humidity", "startTimer"}
    /\ measurementTimer \in {"idle", "periodic"}
    /\ taken \in 1..MaxMeasurements

\* What getTemperatureC and getHumidityRh return for the measurement that is going on.
SensorValues == {taken} \cup IF SensorMayFail THEN {0} ELSE {}

\* Mutant: a failed reading leaves the old value.
MeasureTemperatureOrKeep ==
    /\ meterPc = "temperature"
    /\ \E v \in SensorValues :
           telemetry' = IF v = 0 THEN telemetry ELSE [telemetry EXCEPT !.temperatureC = v]
    /\ meterPc' = "humidity"
    /\ UNCHANGED <<isReadyToMeasure, measurementTimer, taken>>

MeasureTemperature ==
    /\ meterPc = "temperature"
    /\ \E v \in SensorValues : telemetry' = [telemetry EXCEPT !.temperatureC = v]
    /\ meterPc' = "humidity"
    /\ UNCHANGED <<isReadyToMeasure, measurementTimer, taken>>

MeasureHumidity ==
    /\ meterPc = "humidity"
    /\ \E v \in SensorValues : telemetry' = [telemetry EXCEPT !.humidityRh = v]
    /\ meterPc' = IF measurementTimer = "idle" THEN "startTimer" ELSE "loop"
    /\ UNCHANGED <<isReadyToMeasure, measurementTimer, taken>>

StartMeasurementTimer ==
    /\ meterPc = "startTimer"
    /\ measurementTimer' = "periodic"
    /\ meterPc' = "loop"
    /\ UNCHANGED <<telemetry, isReadyToMeasure, taken>>

\* yield tests the flag, and then resets it.
MeterYield ==
    /\ meterPc = "loop"
    /\ isReadyToMeasure
    /\ meterPc' = "reset"
    /\ UNCHANGED <<telemetry, isReadyToMeasure, measurementTimer, taken>>

ResetReady ==
    /\ meterPc = "reset"
    /\ taken < MaxMeasurements
    /\ isReadyToMeasure' = FALSE
    /\ taken' = taken + 1
    /\ meterPc' = "temperature"
    /\ UNCHANGED <<telemetry, measurementTimer>>

MeasurementTimerFires ==
    /\ measurementTimer = "periodic"
    /\ isReadyToMeasure' = TRUE
    /\ UNCHANGED <<telemetry, meterPc, measurementTimer, taken>>

MainTask ==
    \/ MeasureTemperature \/ MeasureHumidity \/ StartMeasurementTimer
    \/ MeterYield \/ ResetReady

MeterNext == MainTask \/ MeasurementTimerFires
=============================================================================
