--------------------------- MODULE RadioThreadHub ---------------------------
(***************************************************************************)
(* app::RadioThreadHub: the thread that waits for the radio's interrupt    *)
(* and handles it, the callback of the request timer, which transmits from *)
(* the timer task, and the time-out timer.  Thread and callback use the    *)
(* modem without a lock, and are cut at every access to its registers.     *)
(***************************************************************************)
EXTENDS RadioModem, SwTimer, LedEventQueue

CONSTANTS Readings,          \* packets of type TELEMETRY
          HubQueueCapacity,  \* the length given to telemetryQueue in app_main (5)
          AirIsSlow          \* TRUE: a packet takes longer than the thread is awake

ASSUME HubRadioAssumption ==
    /\ Remains \in Readings
    /\ Readings \subseteq Packet \ {Request}
    /\ HubQueueCapacity \in Nat
    /\ AirIsSlow \in BOOLEAN

VARIABLES hubModem,
          hubPc,         \* where the thread is
          hubSeen,       \* the flags getIrqEvent has read
          requester,     \* where the request timer's callback is
          requestTimer,
          timeoutTimer,
          timeoutDue,    \* the time-out timer has expired, its callback is to come
          hubQueue       \* telemetryQueue

hubThreadVars == <<hubModem, hubPc, hubSeen, requester>>
hubTimerVars  == <<requestTimer, timeoutTimer, timeoutDue>>
hubRadioVars  == <<hubThreadVars, hubTimerVars, hubQueue>>
hubRadioSystem == <<hubRadioVars, ledEventQueue>>

-----------------------------------------------------------------------------
HubLabels == {"start", "mapRx", "modeRx", "armTimeout", "suspend", "suspended",
              "readIrq", "clearIrq", "stopTimeout", "pointRx", "readFifo"}

HubRadioInit ==
    /\ LedInit
    /\ hubModem = InitialModem
    /\ hubPc = "start"
    /\ hubSeen = {}
    /\ requester = "idle"
    /\ requestTimer = "idle"
    /\ timeoutTimer = "idle"
    /\ timeoutDue = FALSE
    /\ hubQueue = <<>>

HubRadioTypeOK ==
    /\ LedTypeOK
    /\ hubModem \in Modems
    /\ hubPc \in HubLabels
    /\ hubSeen \in SUBSET Flags
    /\ requester \in {"idle", "point", "fill", "mapTx", "modeTx"}
    /\ requestTimer \in TimerStates
    /\ timeoutTimer \in TimerStates
    /\ timeoutDue \in BOOLEAN
    /\ hubQueue \in Seq(Readings) /\ Len(hubQueue) <= HubQueueCapacity

\* The thread goes to label; an interrupt has no effect on a thread that runs.
ThreadAt(label) == hubPc' = label

\* Another task, or the radio, changes the modem: a rising edge resumes the thread.
ModemBecomes(m) ==
    /\ hubModem' = m
    /\ hubPc' = IF hubPc = "suspended" /\ Rises(hubModem, m) THEN "readIrq" ELSE hubPc

-----------------------------------------------------------------------------
(* run_ and listening.                                                     *)

StartThread ==
    /\ hubPc = "start"
    /\ requestTimer' \in AfterStartOnce(requestTimer)
    /\ ThreadAt("mapRx")
    /\ UNCHANGED <<ledEventQueue, hubModem, hubSeen, requester, timeoutTimer, timeoutDue,
                   hubQueue>>

\* What follows listening, whose result nobody looks at.
AfterListening == IF "TX_DONE" \in hubSeen THEN "armTimeout" ELSE "suspend"

MapRx ==
    /\ hubPc = "mapRx"
    /\ \/ /\ hubModem' = MapDio0(hubModem, "RX_DONE")
          /\ ThreadAt("modeRx")
       \/ /\ SpiMayFail
          /\ ThreadAt(AfterListening)
          /\ UNCHANGED hubModem
    /\ UNCHANGED <<ledEventQueue, hubSeen, requester, hubTimerVars, hubQueue>>

ModeRx ==
    /\ hubPc = "modeRx"
    /\ \/ hubModem' = SetMode(hubModem, "RX_CONT")
       \/ SpiMayFail /\ UNCHANGED hubModem
    /\ ThreadAt(AfterListening)
    /\ UNCHANGED <<ledEventQueue, hubSeen, requester, hubTimerVars, hubQueue>>

ArmTimeout ==
    /\ hubPc = "armTimeout"
    /\ timeoutTimer' \in AfterStartOnce(timeoutTimer)
    /\ ThreadAt("suspend")
    /\ UNCHANGED <<ledEventQueue, hubModem, hubSeen, requester, requestTimer, timeoutDue,
                   hubQueue>>

\* An interrupt that came before this has been forgotten.
Suspend ==
    /\ hubPc = "suspend"
    /\ ThreadAt("suspended")
    /\ hubSeen' = {}
    /\ UNCHANGED <<ledEventQueue, hubModem, requester, hubTimerVars, hubQueue>>

-----------------------------------------------------------------------------
(* processRadioIrqEvent_.                                                  *)

\* getIrqEvent reads the flags and then writes them back.
ReadIrq ==
    /\ hubPc = "readIrq"
    /\ \/ hubSeen' = hubModem.flags /\ ThreadAt("clearIrq")
       \/ SpiMayFail /\ ThreadAt("suspend") /\ UNCHANGED hubSeen
    /\ UNCHANGED <<ledEventQueue, hubModem, requester, hubTimerVars, hubQueue>>

Event(seen) == IF "RX_DONE" \in seen THEN "RX_DONE"
               ELSE IF "TX_DONE" \in seen THEN "TX_DONE" ELSE "UNKNOWN"

HandlerOf(event) == CASE event = "RX_DONE" -> "stopTimeout"
                      [] event = "TX_DONE" -> "mapRx"
                      [] event = "UNKNOWN" -> "suspend"

ClearIrq ==
    /\ hubPc = "clearIrq"
    /\ \/ /\ hubModem' = ClearFlags(hubModem, hubSeen)
          /\ ThreadAt(HandlerOf(Event(hubSeen)))
       \/ SpiMayFail /\ ThreadAt("suspend") /\ UNCHANGED hubModem
    /\ UNCHANGED <<ledEventQueue, hubSeen, requester, hubTimerVars, hubQueue>>

\* Mutant: a packet does not stop the time-out.
StopNothing ==
    /\ hubPc = "stopTimeout"
    /\ ThreadAt("pointRx")
    /\ UNCHANGED <<ledEventQueue, hubModem, hubSeen, requester, hubTimerVars, hubQueue>>

StopTimeout ==
    /\ hubPc = "stopTimeout"
    /\ timeoutTimer' \in AfterStop(timeoutTimer)
    /\ ThreadAt("pointRx")
    /\ UNCHANGED <<ledEventQueue, hubModem, hubSeen, requester, requestTimer, timeoutDue,
                   hubQueue>>

\* getRxData.  When it fails the packet's type is UNKNOWN, and nothing is done.
PointRx ==
    /\ hubPc = "pointRx"
    /\ \/ /\ hubModem' = PointAt(hubModem, hubModem.current)
          /\ ThreadAt("readFifo")
       \/ SpiMayFail /\ ThreadAt("suspend") /\ UNCHANGED hubModem
    /\ UNCHANGED <<ledEventQueue, hubSeen, requester, hubTimerVars, hubQueue>>

\* Mutant: any packet is queued.
HandleAnyPacket(packet) ==
    hubQueue' = IF Len(hubQueue) < HubQueueCapacity THEN Append(hubQueue, packet) ELSE hubQueue

\* handlePacketData_ and receiveTelemetry_.
HandlePacket(packet) ==
    hubQueue' = IF packet \in Readings /\ Len(hubQueue) < HubQueueCapacity
                THEN Append(hubQueue, packet) ELSE hubQueue

ReadFifo ==
    /\ hubPc = "readFifo"
    /\ \/ \E packet \in FifoContents(hubModem) : HandlePacket(packet)
       \/ SpiMayFail /\ UNCHANGED hubQueue
    /\ ThreadAt("suspend")
    /\ UNCHANGED <<ledEventQueue, hubModem, hubSeen, requester, hubTimerVars>>

HubRadioThread ==
    \/ StartThread \/ MapRx \/ ModeRx \/ ArmTimeout \/ Suspend
    \/ ReadIrq \/ ClearIrq \/ StopTimeout \/ PointRx \/ ReadFifo

-----------------------------------------------------------------------------
(* The timer task: one callback at a time.                                 *)

\* The thread has handled the end of the last transmission if it was told of it:
\* there are REQUEST_TIME_US, ten seconds, between two requests.
TransmissionIsOver ==
    /\ hubModem.mode # "TX"
    /\ hubPc \notin {"start", "mapRx", "modeRx"}
    /\ "TX_DONE" \in hubModem.flags \cup hubSeen => hubPc = "suspended"

RequestTimerFires ==
    /\ requestTimer = "armed"
    /\ requester = "idle"
    /\ TransmissionIsOver
    /\ requester' = "point"
    /\ UNCHANGED <<ledEventQueue, hubModem, hubPc, hubSeen, hubTimerVars, hubQueue>>

\* One access of transmitData to the modem; the first that fails is the last.
RequestStep(from, to, m) ==
    /\ requester = from
    /\ \/ ModemBecomes(m) /\ requester' = to
       \/ SpiMayFail /\ requester' = "idle" /\ UNCHANGED <<hubModem, hubPc>>
    /\ UNCHANGED <<ledEventQueue, hubSeen, hubTimerVars, hubQueue>>

\* Mutant: the interrupt is not switched to the end of the transmission.
TransmitUnmapped ==
    \/ RequestStep("point", "fill", PointAt(hubModem, "base"))
    \/ RequestStep("fill", "modeTx", FillFifo(hubModem, Request))
    \/ RequestStep("modeTx", "idle", SetMode(hubModem, "TX"))

TransmitRequest ==
    \/ RequestStep("point", "fill", PointAt(hubModem, "base"))
    \/ RequestStep("fill", "mapTx", FillFifo(hubModem, Request))
    \/ RequestStep("mapTx", "modeTx", MapDio0(hubModem, "TX_DONE"))
    \/ RequestStep("modeTx", "idle", SetMode(hubModem, "TX"))

\* The timer expires; its callback runs when the timer task has time for it.  A stop
\* that comes in between is too late.
TimeoutExpires ==
    /\ timeoutTimer = "armed"
    /\ timeoutTimer' = "idle"
    /\ timeoutDue' = TRUE
    /\ UNCHANGED <<ledEventQueue, hubThreadVars, requestTimer, hubQueue>>

TimeoutCallback ==
    /\ timeoutDue
    /\ requester = "idle"
    /\ timeoutDue' = FALSE
    /\ SendLed("RADIO_TIMEOUT")
    /\ UNCHANGED <<hubThreadVars, requestTimer, timeoutTimer, hubQueue>>

-----------------------------------------------------------------------------
(* The surroundings.                                                       *)

\* A transmission lasts about a second, longer than the thread is ever awake.
TransmissionEnds ==
    /\ hubModem.mode = "TX"
    /\ hubPc = "suspended"
    /\ ModemBecomes(Transmitted(hubModem))
    /\ UNCHANGED <<ledEventQueue, hubSeen, requester, hubTimerVars, hubQueue>>

\* Packets of the controller, or of other devices on the same frequency.
PacketArrives ==
    /\ hubModem.mode = "RX_CONT"
    /\ AirIsSlow => hubPc = "suspended"
    /\ \E packet \in Packet \ {Remains} : ModemBecomes(Received(hubModem, packet))
    /\ UNCHANGED <<ledEventQueue, hubSeen, requester, hubTimerVars, hubQueue>>

AwsTakesReading ==
    /\ hubQueue # <<>>
    /\ hubQueue' = Tail(hubQueue)
    /\ UNCHANGED <<ledEventQueue, hubThreadVars, hubTimerVars>>

HubUiTakesLedEvent == ReceiveLed /\ UNCHANGED hubRadioVars

HubTimerTask == RequestTimerFires \/ TransmitRequest \/ TimeoutExpires \/ TimeoutCallback

HubRadioNext ==
    \/ HubRadioThread
    \/ HubTimerTask
    \/ TransmissionEnds \/ PacketArrives
    \/ AwsTakesReading \/ HubUiTakesLedEvent

HubRadioSpec == HubRadioInit /\ [][HubRadioNext]_hubRadioSystem

\* The thread and the timer task run, and a transmission ends.
HubRadioFairness ==
    /\ WF_hubRadioSystem(HubRadioThread)
    /\ WF_hubRadioSystem(RequestTimerFires)
    /\ WF_hubRadioSystem(TransmitRequest)
    /\ WF_hubRadioSystem(TransmissionEnds)

HubRadioFairSpec == HubRadioSpec /\ HubRadioFairness

-----------------------------------------------------------------------------
(* Properties.                                                             *)

\* When the thread sleeps and no request is being made, nothing is left that the next
\* request could not set right: the flag that the request makes DIO0 show is clear, so
\* its end will raise an edge, whatever interrupts were lost before.
NextRequestWakes ==
    ~SpiMayFail /\ hubPc = "suspended" /\ requester = "idle" =>
        "TX_DONE" \notin hubModem.flags

\* A time-out is pending only where an answer could still come: the modem listens, or
\* the next request is on its way.
TimeoutOnlyWhileListening ==
    ~SpiMayFail /\ ~TimerQueueMayBeFull /\ timeoutTimer = "armed" =>
        hubModem.mode # "STANDBY" \/ "TX_DONE" \in hubModem.flags \cup hubSeen

\* The hub listens again and again, also after the end of a transmission was taken for
\* a packet, and after a packet whose interrupt the thread has missed.
HubListens ==
    ~SpiMayFail /\ ~TimerQueueMayBeFull =>
        []<>(hubModem.mode = "RX_CONT" /\ hubModem.dio0 = "RX_DONE")

\* What rfm95.hpp says of send: it sends the data, and OK means success.  transmitData
\* fills the FIFO while the modem goes on receiving, and receptions start at the same
\* base as sends: a packet that arrives before the mode changes takes the request's
\* place and is transmitted instead; so is an older one when the thread, woken by a
\* packet, moves the FIFO's pointer before the callback writes.
SentIsRequest ==
    ~SpiMayFail /\ hubModem.mode = "TX" => OnAir(hubModem) = Request
=============================================================================
