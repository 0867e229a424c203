---------------------------- MODULE RadioLinkProofs ----------------------------
(***************************************************************************)
(* Proofs about the radio, first about the hub's side alone, then about    *)
(* the link of both.                                                       *)
(*                                                                         *)
(* The hub's side: its types, that the next request always finds the end-  *)
(* of-transmission flag clear, and that a time-out runs only while an      *)
(* answer could come.  The thread and the timer task's callback share the  *)
(* modem without a lock.  RequestInv says how they keep apart: a request   *)
(* is made only when the end of the one before has been handled.  WakeInv  *)
(* follows that end from the modem's flag through hubSeen to the thread's  *)
(* label, and TimeoutInv follows the time-out along the same way.          *)
(*                                                                         *)
(* The link: its types, and that the two values of a reading belong        *)
(* together, for any packets, any number of measurements, any failures of  *)
(* the sensor and of accesses to the modems.  MeterInv says what the       *)
(* telemetry holds at each place of the main task.  LinkInv carries this   *)
(* through both FIFOs to the hub's queue.                                  *)
(***************************************************************************)
EXTENDS RadioLink, TLAPS

USE DEF Flags, Modes, Places, TimerStates, LedEvent, HubLabels

-----------------------------------------------------------------------------
(* What the operators on modems give.                                      *)

LEMMA InitialModemType == InitialModem \in Modems
BY DEF InitialModem, Modems

LEMMA MapDio0Type ==
    ASSUME NEW m \in Modems, NEW flag \in Flags
    PROVE  /\ MapDio0(m, flag) \in Modems
           /\ MapDio0(m, flag).dio0 = flag
           /\ MapDio0(m, flag).mode = m.mode
           /\ MapDio0(m, flag).flags = m.flags
BY DEF MapDio0, Modems

LEMMA SetModeType ==
    ASSUME NEW m \in Modems, NEW mode \in Modes
    PROVE  /\ SetMode(m, mode) \in Modems
           /\ SetMode(m, mode).mode = mode
           /\ SetMode(m, mode).dio0 = m.dio0
           /\ SetMode(m, mode).flags = m.flags
BY DEF SetMode, Modems

LEMMA ClearFlagsType ==
    ASSUME NEW m \in Modems, NEW seen \in SUBSET Flags
    PROVE  /\ ClearFlags(m, seen) \in Modems
           /\ ClearFlags(m, seen).flags = m.flags \ seen
           /\ ClearFlags(m, seen).mode = m.mode
           /\ ClearFlags(m, seen).dio0 = m.dio0
BY DEF ClearFlags, Modems

LEMMA PointAtType ==
    ASSUME NEW m \in Modems, NEW place \in Places
    PROVE  /\ PointAt(m, place) \in Modems
           /\ PointAt(m, place).mode = m.mode
           /\ PointAt(m, place).dio0 = m.dio0
           /\ PointAt(m, place).flags = m.flags
BY DEF PointAt, Modems

LEMMA FillFifoType ==
    ASSUME NEW m \in Modems, NEW packet \in Packet
    PROVE  /\ FillFifo(m, packet) \in Modems
           /\ FillFifo(m, packet).mode = m.mode
           /\ FillFifo(m, packet).dio0 = m.dio0
           /\ FillFifo(m, packet).flags = m.flags
BY DEF FillFifo, Modems

LEMMA ReceivedType ==
    ASSUME NEW m \in Modems, NEW packet \in Packet
    PROVE  /\ Received(m, packet) \in Modems
           /\ Received(m, packet).mode = m.mode
           /\ Received(m, packet).dio0 = m.dio0
           /\ Received(m, packet).flags = m.flags \cup {"RX_DONE"}
BY DEF Received, Modems

LEMMA TransmittedType ==
    ASSUME NEW m \in Modems
    PROVE  /\ Transmitted(m) \in Modems
           /\ Transmitted(m).mode = "STANDBY"
           /\ Transmitted(m).dio0 = m.dio0
           /\ Transmitted(m).flags = m.flags \cup {"TX_DONE"}
BY DEF Transmitted, Modems

LEMMA LedIsTyped ==
    ASSUME LedTypeOK, NEW event \in LedEvent, SendLed(event)
    PROVE  LedTypeOK'
BY LedCapacityAssumption DEF LedTypeOK, SendLed

LEMMA LedTakenIsTyped ==
    ASSUME LedTypeOK, ReceiveLed
    PROVE  LedTypeOK'
BY LedCapacityAssumption DEF LedTypeOK, ReceiveLed

LEMMA PacketHandledIsTyped ==
    ASSUME hubQueue \in Seq(Readings), Len(hubQueue) <= HubQueueCapacity,
           NEW packet, HandlePacket(packet)
    PROVE  hubQueue' \in Seq(Readings) /\ Len(hubQueue') <= HubQueueCapacity
BY HubRadioAssumption DEF HandlePacket

-----------------------------------------------------------------------------
(* Types.                                                                  *)

LEMMA HubTypeInit == HubRadioInit => HubRadioTypeOK
<1> SUFFICES ASSUME HubRadioInit PROVE HubRadioTypeOK
  OBVIOUS
<1>1. hubModem \in Modems
  BY InitialModemType DEF HubRadioInit
<1>2. LedTypeOK
  BY LedCapacityAssumption DEF HubRadioInit, LedInit, LedTypeOK
<1>3. hubQueue \in Seq(Readings) /\ Len(hubQueue) <= HubQueueCapacity
  BY HubRadioAssumption DEF HubRadioInit
<1> QED
  BY <1>1, <1>2, <1>3 DEF HubRadioInit, HubRadioTypeOK

LEMMA ThreadIsTyped ==
    ASSUME HubRadioTypeOK, HubRadioThread
    PROVE  HubRadioTypeOK'
<1> USE DEF HubRadioTypeOK, LedTypeOK, ThreadAt, hubThreadVars, hubTimerVars
<1>1. CASE StartThread
  BY <1>1 DEF StartThread, AfterStartOnce, Refused
<1>2. CASE MapRx
  BY <1>2, MapDio0Type DEF MapRx, AfterListening
<1>3. CASE ModeRx
  BY <1>3, SetModeType DEF ModeRx, AfterListening
<1>4. CASE ArmTimeout
  BY <1>4 DEF ArmTimeout, AfterStartOnce, Refused
<1>5. CASE Suspend
  BY <1>5 DEF Suspend
<1>6. CASE ReadIrq
  <2>1. hubModem.flags \in SUBSET Flags
    BY DEF Modems
  <2> QED BY <1>6, <2>1 DEF ReadIrq
<1>7. CASE ClearIrq
  BY <1>7, ClearFlagsType DEF ClearIrq, HandlerOf, Event
<1>8. CASE StopTimeout
  BY <1>8 DEF StopTimeout, AfterStop, Refused
<1>9. CASE PointRx
  <2>1. hubModem.current \in Places
    BY DEF Modems
  <2> QED BY <1>9, <2>1, PointAtType DEF PointRx
<1>10. CASE ReadFifo
  <2>1. hubQueue' \in Seq(Readings) /\ Len(hubQueue') <= HubQueueCapacity
    BY <1>10, PacketHandledIsTyped DEF ReadFifo
  <2> QED BY <1>10, <2>1 DEF ReadFifo
<1> QED
  BY <1>1, <1>2, <1>3, <1>4, <1>5, <1>6, <1>7, <1>8, <1>9, <1>10 DEF HubRadioThread

LEMMA OthersAreTyped ==
    ASSUME HubRadioTypeOK, HubRadioNext, ~HubRadioThread
    PROVE  HubRadioTypeOK'
<1> USE DEF HubRadioTypeOK, ModemBecomes, hubThreadVars, hubTimerVars
<1>1. CASE RequestTimerFires
  BY <1>1 DEF RequestTimerFires, LedTypeOK
<1>2. CASE TransmitRequest
  <2>1. \A from, to, m : m \in Modems /\ to \in {"idle", "fill", "mapTx", "modeTx"}
                           /\ RequestStep(from, to, m) => HubRadioTypeOK'
    BY DEF RequestStep, LedTypeOK
  <2>2. /\ PointAt(hubModem, "base") \in Modems
        /\ FillFifo(hubModem, Request) \in Modems
        /\ MapDio0(hubModem, "TX_DONE") \in Modems
        /\ SetMode(hubModem, "TX") \in Modems
    BY ModemAssumption, PointAtType, FillFifoType, MapDio0Type, SetModeType
  <2> QED BY <1>2, <2>1, <2>2 DEF TransmitRequest
<1>3. CASE TimeoutExpires
  BY <1>3 DEF TimeoutExpires, LedTypeOK
<1>4. CASE TimeoutCallback
  BY <1>4, LedIsTyped DEF TimeoutCallback
<1>5. CASE TransmissionEnds
  BY <1>5, TransmittedType DEF TransmissionEnds, LedTypeOK
<1>6. CASE PacketArrives
  BY <1>6, ReceivedType DEF PacketArrives, LedTypeOK
<1>7. CASE AwsTakesReading
  BY <1>7, HubRadioAssumption DEF AwsTakesReading, LedTypeOK
<1>8. CASE HubUiTakesLedEvent
  BY <1>8, LedTakenIsTyped DEF HubUiTakesLedEvent, hubRadioVars
<1> QED
  BY <1>1, <1>2, <1>3, <1>4, <1>5, <1>6, <1>7, <1>8 DEF HubRadioNext, HubTimerTask

LEMMA HubTypeStep == HubRadioTypeOK /\ [HubRadioNext]_hubRadioSystem => HubRadioTypeOK'
<1>1. CASE UNCHANGED hubRadioSystem
  BY <1>1 DEF HubRadioTypeOK, LedTypeOK, hubRadioSystem, hubRadioVars, hubThreadVars, hubTimerVars
<1> QED
  BY <1>1, ThreadIsTyped, OthersAreTyped

\* The modem, the labels and timers keep their types and the two queues their lengths.
THEOREM HubRadioTypeCorrect == HubRadioSpec => []HubRadioTypeOK
BY HubTypeInit, HubTypeStep, PTL DEF HubRadioSpec

-----------------------------------------------------------------------------
(* The end of a transmission is never overlooked for good.                 *)

Awake == {"mapRx", "modeRx", "start"}

\* While a request is made, or transmitted, the end of the one before is behind the
\* thread, and DIO0 shows the end of this one.
RequestInv ==
    /\ requester # "idle" \/ hubModem.mode = "TX" =>
          hubPc \notin Awake /\ "TX_DONE" \notin hubModem.flags \cup hubSeen
    /\ requester = "modeTx" \/ hubModem.mode = "TX" => hubModem.dio0 = "TX_DONE"
    /\ requester # "idle" => hubModem.mode # "TX"

\* The flag is set only while the thread is on its way to clear it.
WakeInv ==
    /\ "TX_DONE" \in hubModem.flags => hubPc \in {"readIrq", "clearIrq"}
    /\ "TX_DONE" \in hubModem.flags /\ hubPc = "clearIrq" => "TX_DONE" \in hubSeen
    /\ hubPc = "suspended" => hubSeen = {}

\* A time-out that runs while the modem stands by is about to be stopped, or the modem
\* to be told to listen.
TimeoutInv ==
    /\ hubPc = "start" => timeoutTimer = "idle"
    /\ hubPc = "armTimeout" => hubModem.mode = "RX_CONT" /\ "TX_DONE" \in hubSeen
    /\ timeoutTimer = "armed" /\ hubModem.mode = "STANDBY" /\ "TX_DONE" \notin hubModem.flags =>
          "TX_DONE" \in hubSeen /\ hubPc \in {"stopTimeout", "mapRx", "modeRx"}

RadioInv == HubRadioTypeOK /\ RequestInv /\ WakeInv

LEMMA RadioInvInit == ASSUME HubRadioInit PROVE RadioInv
BY HubTypeInit DEF HubRadioInit, RadioInv, RequestInv, WakeInv, InitialModem, Awake

\* With no failing access.
LEMMA ThreadKeepsRadioInv ==
    ASSUME ~SpiMayFail, RadioInv, HubRadioThread
    PROVE  RequestInv' /\ WakeInv'
<1> USE DEF RadioInv, HubRadioTypeOK, RequestInv, WakeInv, Awake, ThreadAt, hubTimerVars
<1>1. CASE StartThread
  BY <1>1 DEF StartThread
<1>2. CASE MapRx
  BY <1>2, MapDio0Type DEF MapRx, AfterListening
<1>3. CASE ModeRx
  BY <1>3, SetModeType DEF ModeRx, AfterListening
<1>4. CASE ArmTimeout
  BY <1>4 DEF ArmTimeout
<1>5. CASE Suspend
  BY <1>5 DEF Suspend
<1>6. CASE ReadIrq
  BY <1>6 DEF ReadIrq
<1>7. CASE ClearIrq
  BY <1>7, ClearFlagsType DEF ClearIrq, HandlerOf, Event
<1>8. CASE StopTimeout
  BY <1>8 DEF StopTimeout
<1>9. CASE PointRx
  <2>1. hubModem.current \in Places
    BY DEF Modems
  <2> QED BY <1>9, <2>1, PointAtType DEF PointRx
<1>10. CASE ReadFifo
  BY <1>10 DEF ReadFifo
<1> QED
  BY <1>1, <1>2, <1>3, <1>4, <1>5, <1>6, <1>7, <1>8, <1>9, <1>10 DEF HubRadioThread

LEMMA OthersKeepRadioInv ==
    ASSUME ~SpiMayFail, RadioInv, HubRadioNext, ~HubRadioThread
    PROVE  RequestInv' /\ WakeInv'
<1> USE DEF RadioInv, HubRadioTypeOK, RequestInv, WakeInv, Awake, ModemBecomes,
            hubThreadVars, hubTimerVars
<1>1. CASE RequestTimerFires
  BY <1>1 DEF RequestTimerFires, TransmissionIsOver
<1>2. CASE TransmitRequest
  <2>1. CASE RequestStep("point", "fill", PointAt(hubModem, "base"))
    BY <2>1, PointAtType DEF RequestStep
  <2>2. CASE RequestStep("fill", "mapTx", FillFifo(hubModem, Request))
    BY <2>2, FillFifoType, ModemAssumption DEF RequestStep
  <2>3. CASE RequestStep("mapTx", "modeTx", MapDio0(hubModem, "TX_DONE"))
    BY <2>3, MapDio0Type DEF RequestStep, Rises, Dio0
  <2>4. CASE RequestStep("modeTx", "idle", SetMode(hubModem, "TX"))
    BY <2>4, SetModeType DEF RequestStep
  <2> QED BY <1>2, <2>1, <2>2, <2>3, <2>4 DEF TransmitRequest
<1>3. CASE TimeoutExpires
  BY <1>3 DEF TimeoutExpires
<1>4. CASE TimeoutCallback
  BY <1>4 DEF TimeoutCallback
<1>5. CASE TransmissionEnds
  BY <1>5, TransmittedType DEF TransmissionEnds, Rises, Dio0
<1>6. CASE PacketArrives
  BY <1>6, ReceivedType DEF PacketArrives
<1>7. CASE AwsTakesReading
  BY <1>7 DEF AwsTakesReading
<1>8. CASE HubUiTakesLedEvent
  BY <1>8 DEF HubUiTakesLedEvent, hubRadioVars
<1> QED
  BY <1>1, <1>2, <1>3, <1>4, <1>5, <1>6, <1>7, <1>8 DEF HubRadioNext, HubTimerTask

LEMMA RadioInvStep ==
    ASSUME ~SpiMayFail, RadioInv, [HubRadioNext]_hubRadioSystem
    PROVE  RadioInv'
<1>1. CASE UNCHANGED hubRadioSystem
  BY <1>1 DEF RadioInv, HubRadioTypeOK, RequestInv, WakeInv, LedTypeOK, hubRadioSystem,
              hubRadioVars, hubThreadVars, hubTimerVars
<1>2. HubRadioTypeOK'
  BY HubTypeStep DEF RadioInv
<1> QED
  BY <1>1, <1>2, ThreadKeepsRadioInv, OthersKeepRadioInv DEF RadioInv

\* A sleeping thread has left nothing that would keep the end of the next request from
\* waking it.
THEOREM WakesCorrect == HubRadioSpec => []NextRequestWakes
<1>1. CASE SpiMayFail
  <2>1. NextRequestWakes
    BY <1>1 DEF NextRequestWakes
  <2> QED BY <2>1, PTL
<1>2. CASE ~SpiMayFail
  <2>1. HubRadioInit => RadioInv
    BY RadioInvInit
  <2>2. RadioInv /\ [HubRadioNext]_hubRadioSystem => RadioInv'
    BY <1>2, RadioInvStep
  <2>3. RadioInv => NextRequestWakes
    BY DEF RadioInv, WakeInv, NextRequestWakes
  <2> QED BY <2>1, <2>2, <2>3, PTL DEF HubRadioSpec
<1> QED BY <1>1, <1>2

-----------------------------------------------------------------------------
(* The time-out.                                                           *)

LEMMA ThreadKeepsTimeoutInv ==
    ASSUME ~SpiMayFail, ~TimerQueueMayBeFull, RadioInv, TimeoutInv, HubRadioThread
    PROVE  TimeoutInv'
<1> USE DEF RadioInv, HubRadioTypeOK, RequestInv, WakeInv, TimeoutInv, Awake, ThreadAt,
            hubTimerVars
<1>1. CASE StartThread
  BY <1>1 DEF StartThread
<1>2. CASE MapRx
  BY <1>2, MapDio0Type DEF MapRx, AfterListening
<1>3. CASE ModeRx
  BY <1>3, SetModeType DEF ModeRx, AfterListening
<1>4. CASE ArmTimeout
  BY <1>4 DEF ArmTimeout
<1>5. CASE Suspend
  BY <1>5 DEF Suspend
<1>6. CASE ReadIrq
  BY <1>6 DEF ReadIrq
<1>7. CASE ClearIrq
  BY <1>7, ClearFlagsType DEF ClearIrq, HandlerOf, Event
<1>8. CASE StopTimeout
  BY <1>8 DEF StopTimeout, AfterStop, Refused
<1>9. CASE PointRx
  <2>1. hubModem.current \in Places
    BY DEF Modems
  <2> QED BY <1>9, <2>1, PointAtType DEF PointRx
<1>10. CASE ReadFifo
  BY <1>10 DEF ReadFifo
<1> QED
  BY <1>1, <1>2, <1>3, <1>4, <1>5, <1>6, <1>7, <1>8, <1>9, <1>10 DEF HubRadioThread

LEMMA OthersKeepTimeoutInv ==
    ASSUME ~SpiMayFail, RadioInv, TimeoutInv, HubRadioNext, ~HubRadioThread
    PROVE  TimeoutInv'
<1> USE DEF RadioInv, HubRadioTypeOK, RequestInv, WakeInv, TimeoutInv, Awake, ModemBecomes,
            hubThreadVars, hubTimerVars
<1>1. CASE RequestTimerFires
  BY <1>1 DEF RequestTimerFires
<1>2. CASE TransmitRequest
  <2>1. CASE RequestStep("point", "fill", PointAt(hubModem, "base"))
    BY <2>1, PointAtType DEF RequestStep
  <2>2. CASE RequestStep("fill", "mapTx", FillFifo(hubModem, Request))
    BY <2>2, FillFifoType, ModemAssumption DEF RequestStep
  <2>3. CASE RequestStep("mapTx", "modeTx", MapDio0(hubModem, "TX_DONE"))
    BY <2>3, MapDio0Type DEF RequestStep
  <2>4. CASE RequestStep("modeTx", "idle", SetMode(hubModem, "TX"))
    BY <2>4, SetModeType DEF RequestStep
  <2> QED BY <1>2, <2>1, <2>2, <2>3, <2>4 DEF TransmitRequest
<1>3. CASE TimeoutExpires
  BY <1>3 DEF TimeoutExpires
<1>4. CASE TimeoutCallback
  BY <1>4 DEF TimeoutCallback
<1>5. CASE TransmissionEnds
  BY <1>5, TransmittedType DEF TransmissionEnds
<1>6. CASE PacketArrives
  BY <1>6, ReceivedType DEF PacketArrives
<1>7. CASE AwsTakesReading
  BY <1>7 DEF AwsTakesReading
<1>8. CASE HubUiTakesLedEvent
  BY <1>8 DEF HubUiTakesLedEvent, hubRadioVars
<1> QED
  BY <1>1, <1>2, <1>3, <1>4, <1>5, <1>6, <1>7, <1>8 DEF HubRadioNext, HubTimerTask

LEMMA TimeoutInvStep ==
    ASSUME ~SpiMayFail, ~TimerQueueMayBeFull, RadioInv, TimeoutInv,
           [HubRadioNext]_hubRadioSystem
    PROVE  TimeoutInv'
<1>1. CASE UNCHANGED hubRadioSystem
  BY <1>1 DEF TimeoutInv, hubRadioSystem, hubRadioVars, hubThreadVars, hubTimerVars
<1> QED
  BY <1>1, ThreadKeepsTimeoutInv, OthersKeepTimeoutInv

\* The time-out runs only where an answer could still come.
THEOREM TimeoutCorrect == HubRadioSpec => []TimeoutOnlyWhileListening
<1>1. CASE SpiMayFail \/ TimerQueueMayBeFull
  <2>1. TimeoutOnlyWhileListening
    BY <1>1 DEF TimeoutOnlyWhileListening
  <2> QED BY <2>1, PTL
<1>2. CASE ~SpiMayFail /\ ~TimerQueueMayBeFull
  <2> DEFINE Inv == RadioInv /\ TimeoutInv
  <2>1. HubRadioInit => Inv
    BY RadioInvInit DEF HubRadioInit, TimeoutInv
  <2>2. Inv /\ [HubRadioNext]_hubRadioSystem => Inv'
    BY <1>2, RadioInvStep, TimeoutInvStep
  <2>3. Inv => TimeoutOnlyWhileListening
    BY DEF TimeoutInv, TimeoutOnlyWhileListening
  <2> QED BY <2>1, <2>2, <2>3, PTL DEF HubRadioSpec
<1> QED BY <1>1, <1>2

HIDE DEF TimerStates, LedEvent, HubLabels

-----------------------------------------------------------------------------
(* The meter.                                                              *)

\* Both fields are of the last measurement or invalid, but for those which the
\* measurement that is going on has not written yet.
MeterInv ==
    LET last == taken - 1 IN
    /\ telemetry.temperatureC \in {0, IF meterPc = "temperature" THEN last ELSE taken}
    /\ telemetry.humidityRh
         \in {0, IF meterPc \in {"temperature", "humidity"} THEN last ELSE taken}

MeterRight == MeterTypeOK /\ MeterInv

LEMMA TelemetryFields ==
    ASSUME NEW r \in Telemetry, NEW v \in 0..MaxMeasurements
    PROVE  /\ r.temperatureC \in 0..MaxMeasurements
           /\ r.humidityRh \in 0..MaxMeasurements
           /\ [r EXCEPT !.temperatureC = v] \in Telemetry
           /\ [r EXCEPT !.temperatureC = v].temperatureC = v
           /\ [r EXCEPT !.temperatureC = v].humidityRh = r.humidityRh
           /\ [r EXCEPT !.humidityRh = v] \in Telemetry
           /\ [r EXCEPT !.humidityRh = v].humidityRh = v
           /\ [r EXCEPT !.humidityRh = v].temperatureC = r.temperatureC
BY DEF Telemetry

LEMMA MeterInitial == MeterInit => MeterRight
<1> SUFFICES ASSUME MeterInit PROVE MeterRight
  OBVIOUS
<1>1. telemetry \in Telemetry /\ telemetry.temperatureC = 0 /\ telemetry.humidityRh = 0
  BY MeterAssumption DEF MeterInit, Telemetry
<1>2. taken \in 1..MaxMeasurements
  BY MeterAssumption DEF MeterInit
<1> QED
  BY <1>1, <1>2 DEF MeterInit, MeterRight, MeterTypeOK, MeterInv

LEMMA MeterStep ==
    ASSUME MeterRight, MeterNext
    PROVE  MeterRight'
<1> USE MeterAssumption DEF MeterRight, MeterTypeOK, MeterInv
<1>1. \A v \in SensorValues : v \in {0, taken} /\ v \in 0..MaxMeasurements
  BY DEF SensorValues
<1>2. CASE MeasureTemperature
  <2>1. PICK v \in SensorValues : telemetry' = [telemetry EXCEPT !.temperatureC = v]
    BY <1>2 DEF MeasureTemperature
  <2>2. telemetry' \in Telemetry /\ telemetry'.temperatureC \in {0, taken}
        /\ telemetry'.humidityRh = telemetry.humidityRh
    BY <1>1, <2>1, TelemetryFields
  <2> QED
    BY <1>2, <2>2 DEF MeasureTemperature
<1>3. CASE MeasureHumidity
  <2>1. PICK v \in SensorValues : telemetry' = [telemetry EXCEPT !.humidityRh = v]
    BY <1>3 DEF MeasureHumidity
  <2>2. telemetry' \in Telemetry /\ telemetry'.humidityRh \in {0, taken}
        /\ telemetry'.temperatureC = telemetry.temperatureC
    BY <1>1, <2>1, TelemetryFields
  <2> QED
    BY <1>3, <2>2 DEF MeasureHumidity
<1>4. CASE ResetReady
  <2>1. taken' \in 1..MaxMeasurements /\ taken' - 1 = taken
    BY <1>4 DEF ResetReady
  <2>2. telemetry.temperatureC \in {0, taken} /\ telemetry.humidityRh \in {0, taken}
    BY <1>4 DEF ResetReady
  <2> QED
    BY <1>4, <2>1, <2>2 DEF ResetReady
<1>5. CASE StartMeasurementTimer \/ MeterYield \/ MeasurementTimerFires
  BY <1>5 DEF StartMeasurementTimer, MeterYield, MeasurementTimerFires
<1> QED
  BY <1>2, <1>3, <1>4, <1>5 DEF MeterNext, MainTask

\* What the radio thread copies, whenever it does.
LEMMA TelemetryHoldsTogether ==
    ASSUME MeterRight
    PROVE  telemetry \in Telemetry /\ AlmostTogether(telemetry)
BY DEF MeterRight, MeterTypeOK, MeterInv, AlmostTogether

-----------------------------------------------------------------------------
(* Packets and modems.                                                     *)

Whole(packet) == packet \in Telemetry \ {Remains} => AlmostTogether(packet)

WholePackets == {packet \in Packet \cup {Nothing} : Whole(packet)}

WholeModems ==
    {m \in Modems : \A p \in {"base", "later"} : m.fifo[p] \in WholePackets}

LEMMA OtherPackets ==
    /\ {Request, Remains, Nothing} \subseteq WholePackets
    /\ Foreign \subseteq WholePackets
    /\ Telemetry \subseteq Packet
BY LinkAssumption, HubRadioAssumption, ModemAssumption DEF WholePackets, Whole

LEMMA OwnPacket ==
    ASSUME MeterRight
    PROVE  telemetry \in WholePackets
BY TelemetryHoldsTogether, LinkAssumption DEF WholePackets, Whole

LEMMA InitialModemIsWhole == InitialModem \in WholeModems
<1>1. \A p \in {"base", "later"} : InitialModem.fifo[p] = Nothing
  BY DEF InitialModem
<1> QED
  BY <1>1, InitialModemType, OtherPackets DEF WholeModems

LEMMA AccessesKeepWhole ==
    ASSUME NEW m \in WholeModems
    PROVE  /\ \A flag \in Flags : MapDio0(m, flag) \in WholeModems
           /\ \A mode \in Modes : SetMode(m, mode) \in WholeModems
           /\ \A seen \in SUBSET Flags : ClearFlags(m, seen) \in WholeModems
           /\ \A place \in Places : PointAt(m, place) \in WholeModems
           /\ Transmitted(m) \in WholeModems
<1>1. m \in Modems
  BY DEF WholeModems
<1>2. /\ \A flag \in Flags : MapDio0(m, flag).fifo = m.fifo
      /\ \A mode \in Modes : SetMode(m, mode).fifo = m.fifo
      /\ \A seen \in SUBSET Flags : ClearFlags(m, seen).fifo = m.fifo
      /\ \A place \in Places : PointAt(m, place).fifo = m.fifo
      /\ Transmitted(m).fifo = m.fifo
  BY <1>1 DEF MapDio0, SetMode, ClearFlags, PointAt, Transmitted, Modems
<1>3. \A n \in Modems : n.fifo = m.fifo => n \in WholeModems
  BY DEF WholeModems
<1> QED
  BY <1>1, <1>2, <1>3, MapDio0Type, SetModeType, ClearFlagsType, PointAtType, TransmittedType

LEMMA FillKeepsWhole ==
    ASSUME NEW m \in WholeModems, NEW packet \in WholePackets, packet \in Packet
    PROVE  FillFifo(m, packet) \in WholeModems
<1>1. m \in Modems /\ \A p \in {"base", "later"} : m.fifo[p] \in WholePackets
  BY DEF WholeModems
<1>2. FillFifo(m, packet) \in Modems
  BY <1>1, FillFifoType
<1>3. \A p \in {"base", "later"} : FillFifo(m, packet).fifo[p] \in {m.fifo[p], packet}
  BY <1>1 DEF FillFifo, Modems
<1> QED
  BY <1>1, <1>2, <1>3 DEF WholeModems

LEMMA ReceptionKeepsWhole ==
    ASSUME NEW m \in WholeModems, NEW packet \in WholePackets
    PROVE  Received(m, packet) \in WholeModems
<1>1. m \in Modems /\ \A p \in {"base", "later"} : m.fifo[p] \in WholePackets
  BY DEF WholeModems
<1>2. packet \in Packet \cup {Nothing}
  BY DEF WholePackets
<1>3. Received(m, packet) \in Modems
  BY <1>1, <1>2 DEF Received, Modems
<1>4. \A p \in {"base", "later"} : Received(m, packet).fifo[p] \in {m.fifo[p], packet}
  BY <1>1 DEF Received, Modems
<1> QED
  BY <1>1, <1>3, <1>4 DEF WholeModems

LEMMA ContentsAreWhole ==
    ASSUME NEW m \in WholeModems
    PROVE  FifoContents(m) \subseteq WholePackets /\ OnAir(m) \in WholePackets
BY OtherPackets DEF FifoContents, OnAir, WholeModems, Modems

-----------------------------------------------------------------------------
(* The controller.                                                         *)

CtlRight ==
    /\ MeterRight
    /\ ctlModem \in WholeModems
    /\ ctlPc \in {"start", "resumed", "suspended"}

LEMMA OutcomesAre ==
    /\ \A a, b, c : Outcomes(<<a, b, c>>) \subseteq {a, b, c}
    /\ \A a, b, c, d, e : Outcomes(<<a, b, c, d, e>>) \subseteq {a, b, c, d, e}
BY DEF Outcomes, ToSet, Last

LEMMA ListeningIsWhole ==
    ASSUME NEW m \in WholeModems
    PROVE  Listening(m) \subseteq WholeModems
<1> DEFINE mapped == MapDio0(m, "RX_DONE")
<1>1. mapped \in WholeModems
  BY AccessesKeepWhole
<1>2. SetMode(mapped, "RX_CONT") \in WholeModems
  BY <1>1, AccessesKeepWhole
<1>3. Listening(m) \subseteq {m, mapped, SetMode(mapped, "RX_CONT")}
  BY OutcomesAre DEF Listening
<1> HIDE DEF mapped
<1> QED
  BY <1>1, <1>2, <1>3

LEMMA TransmissionIsWhole ==
    ASSUME NEW m \in WholeModems, NEW packet \in WholePackets, packet \in Packet
    PROVE  Transmission(m, packet) \subseteq WholeModems
<1> DEFINE pointed == PointAt(m, "base")
           filled  == FillFifo(pointed, packet)
           mapped  == MapDio0(filled, "TX_DONE")
           sending == SetMode(mapped, "TX")
<1>1. pointed \in WholeModems
  BY AccessesKeepWhole
<1>2. filled \in WholeModems
  BY <1>1, FillKeepsWhole
<1>3. mapped \in WholeModems
  BY <1>2, AccessesKeepWhole
<1>4. sending \in WholeModems
  BY <1>3, AccessesKeepWhole
<1>5. Transmission(m, packet) \subseteq {m, pointed, filled, mapped, sending}
  BY OutcomesAre DEF Transmission
<1> HIDE DEF pointed, filled, mapped, sending
<1> QED
  BY <1>1, <1>2, <1>3, <1>4, <1>5

LEMMA HandledIsWhole ==
    ASSUME MeterRight, NEW m \in WholeModems
    PROVE  Handled(m) \subseteq WholeModems
<1>1. m.flags \in SUBSET Flags /\ m.current \in Places
  BY DEF WholeModems, Modems
<1>2. ClearFlags(m, m.flags) \in WholeModems
  BY <1>1, AccessesKeepWhole
<1>3. telemetry \in WholePackets /\ telemetry \in Packet
  BY OwnPacket, TelemetryHoldsTogether, OtherPackets
<1>4. ASSUME NEW n \in WholeModems, NEW packet
      PROVE  Answer(n, packet) \subseteq WholeModems
  BY <1>3, TransmissionIsWhole DEF Answer
<1>5. ASSUME NEW n \in WholeModems
      PROVE  Reception(n) \subseteq WholeModems
  <2> DEFINE pointed == PointAt(n, n.current)
             Answers == UNION {Answer(pointed, packet) : packet \in FifoContents(pointed)}
  <2>1. n.current \in Places
    BY DEF WholeModems, Modems
  <2>2. pointed \in WholeModems
    BY <2>1, AccessesKeepWhole
  <2>3. Answers \subseteq WholeModems
    BY <1>4, <2>2
  <2>4. Reception(n) \subseteq Answers \cup {n, pointed}
    BY DEF Reception
  <2> HIDE DEF pointed, Answers
  <2> QED
    BY <2>2, <2>3, <2>4
<1>6. Reception(ClearFlags(m, m.flags)) \subseteq WholeModems
  BY <1>2, <1>5
<1>7. Listening(ClearFlags(m, m.flags)) \subseteq WholeModems
  BY <1>2, ListeningIsWhole
<1> QED
  BY <1>2, <1>6, <1>7 DEF Handled

LEMMA CtlInitial == CtlInit => CtlRight
BY MeterInitial, InitialModemIsWhole DEF CtlInit, CtlRight

LEMMA MeterStays ==
    ASSUME MeterRight, UNCHANGED meterVars
    PROVE  MeterRight'
BY DEF MeterRight, MeterTypeOK, MeterInv, meterVars

LEMMA CtlStays ==
    ASSUME CtlRight, UNCHANGED ctlVars
    PROVE  CtlRight'
BY MeterStays DEF CtlRight, ctlVars, ctlRadioVars

LEMMA CtlModemChanges ==
    ASSUME CtlRight, NEW m \in WholeModems, CtlModemBecomes(m)
    PROVE  CtlRight'
BY MeterStays DEF CtlRight, CtlModemBecomes

LEMMA CtlStepsRight ==
    ASSUME CtlRight, CtlThread \/ CtlMeter
    PROVE  CtlRight'
<1>1. CASE CtlStart
  <2>1. ctlModem' \in WholeModems
    BY <1>1, ListeningIsWhole DEF CtlStart, CtlRight
  <2> QED
    BY <1>1, <2>1, MeterStays DEF CtlStart, CtlRight
<1>2. CASE CtlHandleIrq
  <2>1. ctlModem' \in WholeModems
    BY <1>2, HandledIsWhole DEF CtlHandleIrq, CtlRight
  <2> QED
    BY <1>2, <2>1, MeterStays DEF CtlHandleIrq, CtlRight
<1>3. CASE CtlMeter
  BY <1>3, MeterStep DEF CtlMeter, CtlRight, ctlRadioVars
<1> QED
  BY <1>1, <1>2, <1>3 DEF CtlThread

LEMMA CtlHearsRight ==
    ASSUME CtlRight, NEW packet \in WholePackets, CtlHears(packet)
    PROVE  CtlRight'
BY ReceptionKeepsWhole, CtlStays, CtlModemChanges DEF CtlHears, CtlRight

LEMMA CtlTransmissionEndsRight ==
    ASSUME CtlRight, CtlTransmissionEnds
    PROVE  CtlRight'
BY AccessesKeepWhole, CtlModemChanges DEF CtlTransmissionEnds, CtlRight

-----------------------------------------------------------------------------
(* The hub.                                                                *)

QueueWhole == \A i \in 1..Len(hubQueue) : hubQueue[i] \in WholePackets

HubRight == HubRadioTypeOK /\ hubModem \in WholeModems /\ QueueWhole

LEMMA HubInitial == HubRadioInit => HubRight
<1> SUFFICES ASSUME HubRadioInit PROVE HubRight
  OBVIOUS
<1>1. HubRadioTypeOK
  BY HubTypeInit
<1> QED
  BY <1>1, InitialModemIsWhole DEF HubRadioInit, HubRight, QueueWhole

LEMMA HubStays ==
    ASSUME HubRight, UNCHANGED hubRadioSystem
    PROVE  HubRight'
<1>1. HubRadioTypeOK'
  BY HubTypeStep DEF HubRight
<1> QED
  BY <1>1 DEF HubRight, QueueWhole, hubRadioSystem, hubRadioVars, hubThreadVars

LEMMA HandledPacketIsWhole ==
    ASSUME hubQueue \in Seq(Readings), QueueWhole, NEW packet \in WholePackets,
           HandlePacket(packet)
    PROVE  QueueWhole'
<1>1. CASE hubQueue' = hubQueue
  BY <1>1 DEF QueueWhole
<1>2. CASE hubQueue' = Append(hubQueue, packet) /\ packet \in Readings
  <2>1. /\ Len(hubQueue') = Len(hubQueue) + 1 /\ Len(hubQueue) \in Nat
        /\ \A i \in 1..Len(hubQueue) : hubQueue'[i] = hubQueue[i]
        /\ hubQueue'[Len(hubQueue) + 1] = packet
    BY <1>2
  <2>2. ASSUME NEW i \in 1..Len(hubQueue') PROVE hubQueue'[i] \in WholePackets
    <3>1. i \in 1..Len(hubQueue) \/ i = Len(hubQueue) + 1
      BY <2>1, <2>2
    <3> QED
      BY <2>1, <3>1 DEF QueueWhole
  <2> QED
    BY <2>2 DEF QueueWhole
<1> QED
  BY <1>1, <1>2 DEF HandlePacket

LEMMA TakenQueueIsWhole ==
    ASSUME hubQueue \in Seq(Readings), QueueWhole, hubQueue # <<>>, hubQueue' = Tail(hubQueue)
    PROVE  QueueWhole'
<1>1. /\ Len(hubQueue') = Len(hubQueue) - 1 /\ Len(hubQueue) \in Nat
      /\ \A i \in 1..Len(hubQueue') : hubQueue'[i] = hubQueue[i + 1]
  OBVIOUS
<1>2. \A i \in 1..Len(hubQueue') : i + 1 \in 1..Len(hubQueue)
  BY <1>1
<1> QED
  BY <1>1, <1>2 DEF QueueWhole

\* The hub's own steps, and the end of its transmissions.
HubOwn ==
    \/ HubRadioThread \/ AwsTakesReading \/ HubUiTakesLedEvent
    \/ RequestTimerFires \/ TransmitRequest \/ TimeoutExpires \/ TimeoutCallback
    \/ TransmissionEnds

LEMMA HubOwnModem ==
    ASSUME HubRight, HubOwn
    PROVE  hubModem' \in WholeModems
<1> USE DEF HubRight, HubRadioTypeOK, ModemBecomes, hubThreadVars, hubTimerVars
<1>1. hubModem.current \in Places
  BY DEF Modems
<1>2. Request \in WholePackets /\ Request \in Packet
  BY OtherPackets, ModemAssumption
<1>3. CASE UNCHANGED hubModem
  BY <1>3
<1>4. CASE MapRx \/ ModeRx
  BY <1>4, AccessesKeepWhole DEF MapRx, ModeRx
<1>5. CASE ClearIrq \/ PointRx
  BY <1>1, <1>5, AccessesKeepWhole DEF ClearIrq, PointRx
<1>6. CASE TransmitRequest
  BY <1>2, <1>6, AccessesKeepWhole, FillKeepsWhole DEF TransmitRequest, RequestStep
<1>7. CASE TransmissionEnds
  BY <1>7, AccessesKeepWhole DEF TransmissionEnds
<1> QED
  BY <1>3, <1>4, <1>5, <1>6, <1>7
  DEF HubOwn, HubRadioThread, StartThread, ArmTimeout, Suspend, ReadIrq, StopTimeout,
      ReadFifo, AwsTakesReading, HubUiTakesLedEvent, RequestTimerFires, TimeoutExpires,
      TimeoutCallback, hubRadioVars

LEMMA HubOwnQueue ==
    ASSUME HubRight, HubOwn
    PROVE  QueueWhole'
<1> USE DEF HubRight, HubRadioTypeOK, hubThreadVars, hubTimerVars
<1>1. CASE UNCHANGED hubQueue
  BY <1>1 DEF QueueWhole
<1>2. CASE ReadFifo
  BY <1>1, <1>2, ContentsAreWhole, HandledPacketIsWhole DEF ReadFifo
<1>3. CASE AwsTakesReading
  BY <1>3, TakenQueueIsWhole DEF AwsTakesReading
<1> QED
  BY <1>1, <1>2, <1>3
  DEF HubOwn, HubRadioThread, StartThread, MapRx, ModeRx, ArmTimeout, Suspend, ReadIrq,
      ClearIrq, StopTimeout, PointRx, HubUiTakesLedEvent, RequestTimerFires,
      TransmitRequest, RequestStep, TimeoutExpires, TimeoutCallback, TransmissionEnds,
      hubRadioVars

LEMMA HubOwnRight ==
    ASSUME HubRight, HubOwn
    PROVE  HubRight'
<1>1. HubRadioNext
  BY DEF HubOwn, HubRadioNext, HubTimerTask
<1>2. HubRadioTypeOK'
  BY <1>1, HubTypeStep DEF HubRight
<1> QED
  BY <1>2, HubOwnModem, HubOwnQueue DEF HubRight

LEMMA HubHearsRight ==
    ASSUME HubRight, NEW packet \in WholePackets, HubHears(packet)
    PROVE  HubRight'
<1>1. CASE UNCHANGED <<hubModem, hubPc>>
  <2>1. UNCHANGED hubRadioSystem
    BY <1>1 DEF HubHears, hubRadioSystem, hubRadioVars, hubThreadVars, hubTimerVars
  <2> QED
    BY <2>1, HubStays
<1>2. CASE ModemBecomes(Received(hubModem, packet))
  <2>1. hubModem' \in WholeModems /\ hubModem' \in Modems
    BY <1>2, ReceptionKeepsWhole DEF ModemBecomes, HubRight, WholeModems
  <2>2. hubPc' \in {hubPc, "readIrq"}
    BY <1>2 DEF ModemBecomes
  <2>3. UNCHANGED <<ledEventQueue, hubSeen, requester, requestTimer, timeoutTimer,
                    timeoutDue, hubQueue>>
    BY DEF HubHears, hubTimerVars
  <2> QED
    BY <2>1, <2>2, <2>3 DEF HubRight, HubRadioTypeOK, LedTypeOK, QueueWhole, HubLabels
<1> QED
  BY <1>1, <1>2 DEF HubHears

-----------------------------------------------------------------------------
(* The link.                                                               *)

LinkInv == CtlRight /\ HubRight

LEMMA LinkStep == LinkInv /\ [LinkNext]_linkVars => LinkInv'
<1> SUFFICES ASSUME CtlRight, HubRight, [LinkNext]_linkVars PROVE CtlRight' /\ HubRight'
  BY DEF LinkInv
<1>1. OnAir(hubModem) \in WholePackets /\ OnAir(ctlModem) \in WholePackets
  BY ContentsAreWhole DEF CtlRight, HubRight
<1>2. CASE HubStep
  BY <1>2, CtlStays, HubOwnRight DEF HubStep, HubOwn, RequestIsDue
<1>3. CASE CtlStep
  BY <1>3, CtlStepsRight, HubStays DEF CtlStep
<1>4. CASE ControllerHearsHub
  BY <1>1, <1>4, CtlHearsRight, HubOwnRight DEF ControllerHearsHub, HubOwn
<1>5. CASE HubHearsController
  BY <1>1, <1>5, CtlTransmissionEndsRight, HubHearsRight DEF HubHearsController, AnswerEnds
<1>6. CASE Disturbed
  BY <1>6, CtlStays, HubStays, CtlTransmissionEndsRight, HubOwnRight
  DEF Disturbed, AnswerEnds, HubOwn
<1>7. CASE OthersTransmit
  BY <1>7, OtherPackets, CtlHearsRight, HubHearsRight DEF OthersTransmit
<1>8. CASE UNCHANGED linkVars
  BY <1>8, CtlStays, HubStays DEF linkVars
<1> QED
  BY <1>2, <1>3, <1>4, <1>5, <1>6, <1>7, <1>8 DEF LinkNext, Air

LEMMA LinkAlways == LinkSpec => []LinkInv
<1>1. LinkInit => LinkInv
  BY CtlInitial, HubInitial DEF LinkInit, LinkInv
<1> QED
  BY <1>1, LinkStep, PTL DEF LinkSpec

\* Both modems, both threads, the meter and the queues keep their types, for any packets
\* and any number of measurements.
THEOREM LinkTypeCorrect == LinkSpec => []LinkTypeOK
<1>1. LinkInv => LinkTypeOK
  BY DEF LinkInv, CtlRight, HubRight, MeterRight, WholeModems, LinkTypeOK, CtlTypeOK
<1> QED
  BY <1>1, LinkAlways, PTL

\* Whenever the thread copies the telemetry, and whatever fails on the way, the two values
\* of a reading in the hub's queue are of one measurement or of two successive ones.
THEOREM ReadingsCorrect == LinkSpec => []ReadingsHoldTogether
<1>1. ASSUME LinkInv, NEW reading \in ToSet(hubQueue) \ {Remains}
      PROVE  AlmostTogether(reading)
  <2>1. hubQueue \in Seq(Readings) /\ QueueWhole
    BY <1>1 DEF LinkInv, HubRight, HubRadioTypeOK
  <2>2. PICK i \in 1..Len(hubQueue) : reading = hubQueue[i]
    BY <2>1 DEF ToSet
  <2>3. reading \in WholePackets /\ reading \in Telemetry
    BY <2>1, <2>2, LinkAssumption DEF QueueWhole
  <2> QED
    BY <2>3 DEF WholePackets, Whole
<1>2. LinkInv => ReadingsHoldTogether
  BY <1>1 DEF ReadingsHoldTogether
<1> QED
  BY <1>2, LinkAlways, PTL

-----------------------------------------------------------------------------
(* The link's hub is the hub of RadioThreadHub.                            *)

\* A modem that transmits has been given a telemetry, at the FIFO's base.
AnswersOnly(m) == m.mode = "TX" => OnAir(m) \in Telemetry

\* And its thread sleeps until the transmission ends.
AnswerInv ==
    /\ AnswersOnly(ctlModem)
    /\ ctlModem.mode = "TX" => ctlPc = "suspended"

LEMMA ListeningAnswers ==
    ASSUME NEW m \in Modems, m.mode # "TX"
    PROVE  \A n \in Listening(m) : n.mode # "TX"
<1> DEFINE mapped == MapDio0(m, "RX_DONE")
<1>1. mapped \in Modems /\ mapped.mode # "TX"
  BY MapDio0Type
<1>2. SetMode(mapped, "RX_CONT").mode = "RX_CONT"
  BY <1>1, SetModeType
<1>3. Listening(m) \subseteq {m, mapped, SetMode(mapped, "RX_CONT")}
  BY OutcomesAre DEF Listening
<1> HIDE DEF mapped
<1> QED
  BY <1>1, <1>2, <1>3

LEMMA TransmissionAnswers ==
    ASSUME NEW m \in Modems, m.mode # "TX", NEW packet \in Telemetry
    PROVE  \A n \in Transmission(m, packet) : AnswersOnly(n)
<1> DEFINE pointed == PointAt(m, "base")
           filled  == FillFifo(pointed, packet)
           mapped  == MapDio0(filled, "TX_DONE")
           sending == SetMode(mapped, "TX")
<1>1. packet \in Packet
  BY LinkAssumption
<1>2. pointed \in Modems /\ pointed.mode # "TX" /\ pointed.pointer = "base"
  BY PointAtType DEF PointAt, Modems
<1>3. filled \in Modems /\ filled.mode # "TX"
  BY <1>1, <1>2, FillFifoType
<1>4. filled.fifo["base"] = packet
  BY <1>2 DEF FillFifo, Modems
<1>5. mapped \in Modems /\ mapped.mode # "TX" /\ mapped.fifo = filled.fifo
  BY <1>3, MapDio0Type DEF MapDio0, Modems
<1>6. sending.fifo = mapped.fifo
  BY <1>5 DEF SetMode, Modems
<1>7. OnAir(sending) = packet
  BY <1>4, <1>5, <1>6 DEF OnAir
<1>8. Transmission(m, packet) \subseteq {m, pointed, filled, mapped, sending}
  BY OutcomesAre DEF Transmission
<1> HIDE DEF pointed, filled, mapped, sending
<1> QED
  BY <1>2, <1>3, <1>5, <1>7, <1>8 DEF AnswersOnly

LEMMA HandledAnswers ==
    ASSUME telemetry \in Telemetry, NEW m \in Modems, m.mode # "TX"
    PROVE  \A n \in Handled(m) : AnswersOnly(n)
<1> DEFINE cleared == ClearFlags(m, m.flags)
<1>1. cleared \in Modems /\ cleared.mode # "TX"
  <2>1. m.flags \in SUBSET Flags
    BY DEF Modems
  <2> QED
    BY <2>1, ClearFlagsType
<1>2. \A n \in Reception(cleared) : AnswersOnly(n)
  <2> DEFINE pointed == PointAt(cleared, cleared.current)
  <2>1. cleared.current \in Places
    BY <1>1 DEF Modems
  <2>2. pointed \in Modems /\ pointed.mode # "TX"
    BY <1>1, <2>1, PointAtType
  <2>3. ASSUME NEW packet PROVE \A n \in Answer(pointed, packet) : AnswersOnly(n)
    <3> HIDE DEF pointed
    <3>1. \A n \in Transmission(pointed, telemetry) : AnswersOnly(n)
      BY <2>2, TransmissionAnswers
    <3> QED
      BY <2>2, <3>1 DEF Answer, AnswersOnly
  <2>4. Reception(cleared) \subseteq
          (UNION {Answer(pointed, packet) : packet \in FifoContents(pointed)})
            \cup {cleared, pointed}
    BY DEF Reception
  <2> HIDE DEF pointed, cleared
  <2> QED
    BY <1>1, <2>2, <2>3, <2>4 DEF AnswersOnly
<1>3. \A n \in Listening(cleared) : AnswersOnly(n)
  <2> HIDE DEF cleared
  <2> QED
    BY <1>1, ListeningAnswers DEF AnswersOnly
<1>4. Handled(m) \subseteq {m, cleared} \cup Reception(cleared) \cup Listening(cleared)
  BY DEF Handled
<1> HIDE DEF cleared
<1> QED
  BY <1>1, <1>2, <1>3, <1>4 DEF AnswersOnly

LEMMA AnswerStep ==
    ASSUME CtlRight, AnswerInv, [LinkNext]_linkVars
    PROVE  AnswerInv'
<1>1. ctlModem \in Modems /\ telemetry \in Telemetry
  BY DEF CtlRight, WholeModems, MeterRight, MeterTypeOK
<1>2. CASE UNCHANGED ctlRadioVars
  BY <1>2 DEF AnswerInv, AnswersOnly, OnAir, ctlRadioVars
<1>3. CASE CtlStart
  BY <1>1, <1>3, ListeningAnswers DEF CtlStart, AnswerInv, AnswersOnly
<1>4. CASE CtlHandleIrq
  BY <1>1, <1>4, HandledAnswers DEF CtlHandleIrq, AnswerInv
<1>5. ASSUME NEW packet, CtlHears(packet) PROVE AnswerInv'
  <2>1. CASE ctlModem.mode = "RX_CONT" /\ ctlModem' = Received(ctlModem, packet)
    <3>1. ctlModem'.mode = "RX_CONT"
      BY <1>1, <2>1 DEF Received, Modems
    <3> QED
      BY <3>1 DEF AnswerInv, AnswersOnly
  <2> QED
    BY <1>2, <1>5, <2>1 DEF CtlHears, CtlModemBecomes, ctlVars, ctlRadioVars
<1>6. CASE CtlTransmissionEnds
  <2>1. ctlModem'.mode = "STANDBY"
    BY <1>1, <1>6, TransmittedType DEF CtlTransmissionEnds, CtlModemBecomes
  <2> QED
    BY <2>1 DEF AnswerInv, AnswersOnly
<1> QED
  BY <1>2, <1>3, <1>4, <1>5, <1>6
  DEF LinkNext, HubStep, CtlStep, CtlThread, CtlMeter, Air, ControllerHearsHub,
      HubHearsController, AnswerEnds, Disturbed, OthersTransmit, linkVars, ctlVars

\* What the hub hears in the link may arrive at the hub alone.
LEMMA HubHearsPacket ==
    ASSUME NEW packet \in Packet \ {Remains}, HubHears(packet)
    PROVE  HubRadioNext \/ UNCHANGED hubRadioSystem
<1>1. CASE UNCHANGED <<hubModem, hubPc>>
  BY <1>1 DEF HubHears, hubRadioSystem, hubRadioVars, hubThreadVars, hubTimerVars
<1>2. CASE /\ hubModem.mode = "RX_CONT" /\ hubPc = "suspended"
           /\ ModemBecomes(Received(hubModem, packet))
  <2>1. PacketArrives
    BY <1>2 DEF HubHears, PacketArrives
  <2> QED
    BY <2>1 DEF HubRadioNext
<1> QED
  BY <1>1, <1>2 DEF HubHears

LEMMA HubSideStep ==
    ASSUME AnswerInv, [LinkNext]_linkVars
    PROVE  [HubRadioNext]_hubRadioSystem
<1>1. CASE HubStep
  BY <1>1 DEF HubStep, RequestIsDue, HubRadioNext, HubTimerTask
<1>2. CASE CtlStep \/ UNCHANGED linkVars
  BY <1>2 DEF CtlStep, linkVars
<1>3. CASE ControllerHearsHub \/ Disturbed
  BY <1>3 DEF ControllerHearsHub, Disturbed, HubRadioNext
<1>4. CASE HubHearsController
  <2>1. OnAir(ctlModem) \in Packet \ {Remains}
    BY <1>4, LinkAssumption
    DEF HubHearsController, AnswerEnds, CtlTransmissionEnds, AnswerInv, AnswersOnly
  <2> QED
    BY <1>4, <2>1, HubHearsPacket DEF HubHearsController
<1>5. CASE OthersTransmit
  <2>1. Foreign \subseteq Packet \ {Remains}
    BY LinkAssumption
  <2> QED
    BY <1>5, <2>1, HubHearsPacket DEF OthersTransmit
<1> QED
  BY <1>1, <1>2, <1>3, <1>4, <1>5 DEF LinkNext, Air

\* Whatever the controller and other devices do, the hub's side of the link behaves as in
\* the surroundings that RadioThreadHub assumes, for any packets and measurements.
THEOREM HubSideImplemented == LinkSpec => HubRadioSpec
<1>1. LinkInit => HubRadioInit /\ AnswerInv
  BY DEF LinkInit, CtlInit, InitialModem, AnswerInv, AnswersOnly
<1>2. CtlRight /\ AnswerInv /\ [LinkNext]_linkVars => AnswerInv'
  BY AnswerStep
<1>3. AnswerInv /\ [LinkNext]_linkVars => [HubRadioNext]_hubRadioSystem
  BY HubSideStep
<1>4. LinkInv => CtlRight
  BY DEF LinkInv
<1> QED
  BY <1>1, <1>2, <1>3, <1>4, LinkAlways, PTL DEF LinkSpec, HubRadioSpec

\* Therefore in the link, too, the end of the next request wakes the hub's thread, and a
\* time-out is pending only where an answer could come.
THEOREM HubSideCorrect == LinkSpec => []NextRequestWakes /\ []TimeoutOnlyWhileListening
BY HubSideImplemented, WakesCorrect, TimeoutCorrect, PTL
=============================================================================
