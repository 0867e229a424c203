----------------------------- MODULE RadioModem -----------------------------
(***************************************************************************)
(* The Rfm95 modem (sx127x registers) as LoRa::listening, transmitData,    *)
(* getRxData and getIrqEvent use it.  A modem is a record; every operator  *)
(* is the effect of one register access, or of one event of the radio.     *)
(*                                                                         *)
(* DIO0 shows the flag that DIO_MAPPING_1 selects, and its rising edge is  *)
(* the interrupt that resumes the radio thread.                            *)
(***************************************************************************)
EXTENDS Naturals

CONSTANTS Packet,     \* what a packet, or the FIFO, may hold
          Request,    \* the packet that asks for telemetry
          Remains,    \* bytes that happen to look like a packet
          Nothing,    \* bytes that look like no packet
          SpiMayFail  \* FALSE: no access to a register fails

ASSUME ModemAssumption ==
    /\ Request \in Packet /\ Remains \in Packet \ {Request}
    /\ Nothing \notin Packet
    /\ SpiMayFail \in BOOLEAN

Flags  == {"RX_DONE", "TX_DONE"}
Modes  == {"STANDBY", "RX_CONT", "TX"}

\* The FIFO has its base, where sends and the first packet of a reception go, a place
\* for later packets, and what lies behind something just written.
Places == {"base", "later", "behind"}

Modems == [mode    : Modes,
           dio0    : Flags,           \* DIO_MAPPING_1
           flags   : SUBSET Flags,    \* IRQ_FLAGS
           pointer : Places,          \* FIFO_ADDR_PTR
           current : {"base", "later"},  \* FIFO_RX_CURRENT_ADDR
           next    : {"base", "later"},  \* where the next packet goes
           fifo    : [{"base", "later"} -> Packet \cup {Nothing}]]

\* Rfm95::init leaves the modem in standby with both bases at 0.
InitialModem == [mode |-> "STANDBY", dio0 |-> "RX_DONE", flags |-> {},
                 pointer |-> "base", current |-> "base", next |-> "base",
                 fifo |-> [p \in {"base", "later"} |-> Nothing]]

-----------------------------------------------------------------------------
(* Register accesses.                                                      *)

Dio0(m) == m.dio0 \in m.flags

Rises(before, after) == ~Dio0(before) /\ Dio0(after)

MapDio0(m, flag) == [m EXCEPT !.dio0 = flag]

\* Receiving starts with an empty FIFO.
SetMode(m, mode) ==
    IF mode = "RX_CONT" /\ m.mode # "RX_CONT"
    THEN [m EXCEPT !.mode = mode, !.next = "base"]
    ELSE [m EXCEPT !.mode = mode]

\* Mutant: the flags are not cleared.
ClearNoFlags(m, seen) == m

\* Flags are cleared by writing them back.
ClearFlags(m, seen) == [m EXCEPT !.flags = @ \ seen]

PointAt(m, place) == [m EXCEPT !.pointer = place]

\* A write to the FIFO goes where the pointer is and moves it.
FillFifo(m, packet) ==
    [m EXCEPT !.pointer = "behind",
              !.fifo = IF m.pointer = "behind" THEN @ ELSE [@ EXCEPT ![m.pointer] = packet]]

\* What a read of the whole FIFO finds.  It leaves the pointer where it was.  Behind
\* something just written there are the bytes of older packets, cut anywhere.
FifoContents(m) ==
    IF m.pointer = "behind" THEN {Remains, Nothing} ELSE {m.fifo[m.pointer]}

-----------------------------------------------------------------------------
(* Events of the radio.                                                    *)

\* A packet is received.
Received(m, packet) ==
    [m EXCEPT !.fifo[m.next] = packet, !.current = m.next, !.next = "later",
              !.flags = @ \cup {"RX_DONE"}]

\* The packet at the FIFO's base has been transmitted.
Transmitted(m) == [m EXCEPT !.mode = "STANDBY", !.flags = @ \cup {"TX_DONE"}]

OnAir(m) == m.fifo["base"]
=============================================================================
