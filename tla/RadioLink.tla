------------------------------ MODULE RadioLink ------------------------------
(***************************************************************************)
(* The hub's RadioThreadHub and the controller's RadioThreadController on  *)
(* the same frequency: what one transmits the other receives, if it        *)
(* listens and nothing disturbs the air.  Other devices transmit as well.  *)
(***************************************************************************)
EXTENDS RadioThreadHub, RadioThreadController

CONSTANT Foreign  \* packets of other devices

\* Remains are not one of the controller's measurements.
ASSUME LinkAssumption ==
    /\ Telemetry \subseteq Packet \ {Remains}
    /\ Readings = Telemetry \cup {Remains}
    /\ Foreign \subseteq Packet \ Readings
    /\ AirIsSlow

linkVars == <<hubRadioSystem, ctlVars>>

-----------------------------------------------------------------------------
LinkInit   == HubRadioInit /\ CtlInit
LinkTypeOK == HubRadioTypeOK /\ CtlTypeOK

HubHears(packet) ==
    /\ IF hubModem.mode = "RX_CONT" /\ hubPc = "suspended"
       THEN ModemBecomes(Received(hubModem, packet))
       ELSE UNCHANGED <<hubModem, hubPc>>
    /\ UNCHANGED <<ledEventQueue, hubSeen, requester, hubTimerVars, hubQueue>>

\* The hub's packet has been transmitted, and heard by the controller.
ControllerHearsHub == TransmissionEnds /\ CtlHears(OnAir(hubModem))

\* The controller's answer took longer than the hub's thread was awake after its request.
AnswerEnds == hubPc = "suspended" /\ CtlTransmissionEnds

\* The controller's packet has been transmitted, and heard by the hub.
HubHearsController == AnswerEnds /\ HubHears(OnAir(ctlModem))

Disturbed ==
    \/ TransmissionEnds /\ UNCHANGED ctlVars
    \/ AnswerEnds /\ UNCHANGED hubRadioSystem

OthersTransmit == \E packet \in Foreign : CtlHears(packet) /\ HubHears(packet)

Air == ControllerHearsHub \/ HubHearsController \/ Disturbed \/ OthersTransmit

\* Ten seconds are between two requests: the last one has been answered, and the thread
\* has handled the answer.
RequestIsDue ==
    /\ ctlPc # "resumed" /\ ctlModem.mode # "TX"
    /\ hubPc = "suspended" \/ hubModem.fifo[hubModem.current] \notin Telemetry
    /\ RequestTimerFires

HubStep ==
    /\ \/ HubRadioThread \/ AwsTakesReading \/ HubUiTakesLedEvent
       \/ RequestIsDue \/ TransmitRequest \/ TimeoutExpires \/ TimeoutCallback
    /\ UNCHANGED ctlVars

CtlStep == (CtlThread \/ CtlMeter) /\ UNCHANGED hubRadioSystem

LinkNext == HubStep \/ CtlStep \/ Air

LinkSpec == LinkInit /\ [][LinkNext]_linkVars

\* Threads and timer tasks run, transmissions end, AwsIotThread takes readings, and
\* answers and requests are not disturbed for ever.
LinkFairness ==
    /\ WF_linkVars(HubRadioThread /\ UNCHANGED ctlVars)
    /\ WF_linkVars(RequestIsDue /\ UNCHANGED ctlVars)
    /\ WF_linkVars(TransmitRequest /\ UNCHANGED ctlVars)
    /\ WF_linkVars(AwsTakesReading /\ UNCHANGED ctlVars)
    /\ WF_linkVars(CtlThread /\ UNCHANGED hubRadioSystem)
    /\ WF_linkVars(MainTask /\ UNCHANGED <<hubRadioSystem, ctlRadioVars>>)
    /\ WF_linkVars(TransmissionEnds /\ LinkNext)
    /\ WF_linkVars(AnswerEnds /\ LinkNext)
    /\ SF_linkVars(ControllerHearsHub)
    /\ SF_linkVars(HubHearsController)

LinkFairSpec == LinkSpec /\ LinkFairness

-----------------------------------------------------------------------------
(* Properties.                                                             *)

AlmostTogether(reading) ==
    reading.temperatureC # 0 /\ reading.humidityRh # 0 =>
        reading.temperatureC - reading.humidityRh \in {0, 1}

\* The radio thread copies the telemetry while a measurement may be half written: the
\* two values in a reading of the hub belong to one measurement, or to two successive
\* ones with the temperature the later, whatever accesses failed on the way.
ReadingsHoldTogether ==
    \A reading \in ToSet(hubQueue) \ {Remains} : AlmostTogether(reading)

\* The hub goes on receiving telemetry: requests that were replaced in the FIFO, lost or
\* not heard, answers lost, a reading that found the queue full, none of it stops the
\* two nodes for good, although the controller has no timer.
LinkDelivers ==
    ~SpiMayFail /\ ~TimerQueueMayBeFull /\ HubQueueCapacity > 0 /\ <>[][~OthersTransmit]_linkVars =>
        []<>(hubQueue = <<>>) /\ []<>(ToSet(hubQueue) \cap Telemetry # {})
=============================================================================
