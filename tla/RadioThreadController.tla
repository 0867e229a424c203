------------------------ MODULE RadioThreadController ------------------------
(***************************************************************************)
(* app::RadioThreadController: woken by the radio's interrupt, it answers  *)
(* a request with the telemetry the meter has measured last.               *)
(*                                                                         *)
(* Only this thread uses the controller's modem, and a packet takes longer *)
(* to receive than the thread is awake: what it does between two           *)
(* suspensions is one step.  All it shares with the main task is the       *)
(* telemetry, which it copies at once, having the higher priority on the   *)
(* same core.                                                              *)
(***************************************************************************)
EXTENDS RadioModem, TimedMeter, Sequences, SequencesExt

VARIABLES ctlModem,
          ctlPc  \* "start", "resumed" or "suspended"

ctlRadioVars == <<ctlModem, ctlPc>>
ctlVars      == <<ctlRadioVars, meterVars>>

-----------------------------------------------------------------------------
CtlInit ==
    /\ MeterInit
    /\ ctlModem = InitialModem
    /\ ctlPc = "start"

CtlTypeOK ==
    /\ MeterTypeOK
    /\ ctlModem \in Modems
    /\ ctlPc \in {"start", "resumed", "suspended"}

\* Register accesses in a row take the modem through the states in the sequence.  The
\* first that fails is the last.
Outcomes(modems) == IF SpiMayFail THEN ToSet(modems) ELSE {Last(modems)}

\* listening.
Listening(m) ==
    LET mapped == MapDio0(m, "RX_DONE")
    IN  Outcomes(<<m, mapped, SetMode(mapped, "RX_CONT")>>)

\* transmitData.
Transmission(m, packet) ==
    LET pointed == PointAt(m, "base")
        filled  == FillFifo(pointed, packet)
        mapped  == MapDio0(filled, "TX_DONE")
    IN  Outcomes(<<m, pointed, filled, mapped, SetMode(mapped, "TX")>>)

\* handlePacketData_ and sendTelemetry_: a request is answered, all else ignored.
Answer(m, packet) == IF packet = Request THEN Transmission(m, telemetry) ELSE {m}

\* processReceiveData_: getRxData, then the packet.
Reception(m) ==
    LET pointed == PointAt(m, m.current)
    IN  (UNION {Answer(pointed, packet) : packet \in FifoContents(pointed)})
        \cup IF SpiMayFail THEN {m, pointed} ELSE {}

\* Mutant: only receptions are handled.
HandledRxOnly(m) == IF "RX_DONE" \in m.flags THEN Reception(ClearFlags(m, m.flags))
                    ELSE {ClearFlags(m, m.flags)}

\* processRadioIrqEvent_: getIrqEvent, whose failure ends it, and what the event calls for.
Handled(m) ==
    LET cleared == ClearFlags(m, m.flags)
    IN  (IF SpiMayFail THEN {m} ELSE {})
        \cup IF "RX_DONE" \in m.flags THEN Reception(cleared)
             ELSE IF "TX_DONE" \in m.flags THEN Listening(cleared)
             ELSE {cleared}

-----------------------------------------------------------------------------
\* app_main starts the thread when the meter has been started.
CtlStart ==
    /\ ctlPc = "start"
    /\ measurementTimer = "periodic"
    /\ ctlModem' \in Listening(ctlModem)
    /\ ctlPc' = "suspended"
    /\ UNCHANGED meterVars

CtlHandleIrq ==
    /\ ctlPc = "resumed"
    /\ ctlModem' \in Handled(ctlModem)
    /\ ctlPc' = "suspended"
    /\ UNCHANGED meterVars

CtlThread == CtlStart \/ CtlHandleIrq

\* The main task runs while the radio thread sleeps, or waits in the middle of its work.
CtlMeter == MeterNext /\ UNCHANGED ctlRadioVars

-----------------------------------------------------------------------------
\* The radio changes the modem: a rising edge of DIO0 resumes the thread.
CtlModemBecomes(m) ==
    /\ ctlModem' = m
    /\ ctlPc' = IF ctlPc = "suspended" /\ Rises(ctlModem, m) THEN "resumed" ELSE ctlPc
    /\ UNCHANGED meterVars

\* A packet is in the air; a modem that listens receives it.
CtlHears(packet) ==
    IF ctlModem.mode = "RX_CONT" /\ ctlPc = "suspended"
    THEN CtlModemBecomes(Received(ctlModem, packet))
    ELSE UNCHANGED ctlVars

CtlTransmissionEnds ==
    /\ ctlModem.mode = "TX"
    /\ ctlPc = "suspended"
    /\ CtlModemBecomes(Transmitted(ctlModem))
=============================================================================
