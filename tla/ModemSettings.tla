----------------------------- MODULE ModemSettings -----------------------------
(***************************************************************************)
(* The settings of the modem, from Rfm95 down to the registers.  Several   *)
(* settings share a register, of which each call replaces its own bits; a  *)
(* call is a sequence of accesses to registers, over a bus that may fail   *)
(* at any of them.                                                         *)
(*                                                                         *)
(* A register is the set of its bits that are one.                         *)
(***************************************************************************)
EXTENDS Integers, Sequences

CONSTANTS Settings,  \* records of settings to try, one field for each setting
          MaxCalls,  \* bounds the number of calls
          UNKNOWN    \* a setting never applied, or last applied by a call that failed

\* The frequencies that 24 bits can hold, in steps of 15625/256 Hz.
Frequencies == {frequencyHz \in Nat : frequencyHz < 65536 * 15625}

PreambleLengths == {length \in Nat : length < 65536}

\* What the interface can be asked for: the values of the enumerations and of the types
\* of parameters.
SettingsRange ==
    [frequency : Frequencies, boost : BOOLEAN, gain : 0..6, bandwidth : 0..9,
     header : {"EXPLICIT"}, sf : 6..12, sync : 0..255, preamble : PreambleLengths,
     pa : [pin : {"RFO", "BOOST"}, power : -128..127]]

ASSUME SettingsAssumption ==
    /\ Settings \subseteq SettingsRange
    /\ MaxCalls \in Nat

VARIABLES initialised,  \* modem_ exists
          registers,    \* the modem's registers
          applied,      \* for each setting, the value its last call gave OK for
          underWay,     \* where setAllSettings is, if it is running
          calls         \* how many calls were made

settingsVars == <<initialised, registers, applied, underWay, calls>>

-----------------------------------------------------------------------------
(* Registers.                                                              *)

PowersOf2 == <<1, 2, 4, 8, 16, 32, 64, 128, 256, 512, 1024, 2048, 4096>>

Bits(byte) == {i \in 0..7 : (byte \div PowersOf2[i + 1]) % 2 = 1}

BitOf(byte, i) == IF i \in byte THEN 1 ELSE 0

Number(byte) ==
    BitOf(byte, 0) + 2 * BitOf(byte, 1) + 4 * BitOf(byte, 2) + 8 * BitOf(byte, 3)
      + 16 * BitOf(byte, 4) + 32 * BitOf(byte, 5) + 64 * BitOf(byte, 6) + 128 * BitOf(byte, 7)

OP_MODE           == 1
FRF_MSB           == 6
PA_CONFIG         == 9
OCP               == 11
LNA               == 12
FIFO_TX_BASE_ADDR == 14
FIFO_RX_BASE_ADDR == 15
MODEM_CONFIG_1    == 29
MODEM_CONFIG_2    == 30
PREAMBLE_MSB      == 32
MODEM_CONFIG_3    == 38
DETECT_OPTIMIZE   == 49
DETECT_THRESHOLD  == 55
SYNC_WORD         == 57
PA_DAC            == 77

Addresses ==
    {OP_MODE, FRF_MSB, FRF_MSB + 1, FRF_MSB + 2, PA_CONFIG, OCP, LNA, FIFO_TX_BASE_ADDR,
     FIFO_RX_BASE_ADDR, MODEM_CONFIG_1, MODEM_CONFIG_2, PREAMBLE_MSB, PREAMBLE_MSB + 1,
     MODEM_CONFIG_3, DETECT_OPTIMIZE, DETECT_THRESHOLD, SYNC_WORD, PA_DAC}

\* The registers concerned, after the chip's reset.
ResetValues ==
    [r \in Addresses |->
       Bits(IF r = OP_MODE THEN 9
            ELSE IF r = FRF_MSB THEN 108
            ELSE IF r = FRF_MSB + 1 THEN 128
            ELSE IF r = PA_CONFIG THEN 79
            ELSE IF r = OCP THEN 43
            ELSE IF r = LNA THEN 32
            ELSE IF r = FIFO_TX_BASE_ADDR THEN 128
            ELSE IF r = MODEM_CONFIG_1 THEN 114
            ELSE IF r = MODEM_CONFIG_2 THEN 112
            ELSE IF r = PREAMBLE_MSB + 1 THEN 8
            ELSE IF r = MODEM_CONFIG_3 THEN 4
            ELSE IF r = DETECT_OPTIMIZE THEN 195
            ELSE IF r = DETECT_THRESHOLD THEN 10
            ELSE IF r = SYNC_WORD THEN 18
            ELSE IF r = PA_DAC THEN 132
            ELSE 0)]

\* The registers after an access: write_ of one byte, and appendRegister_.
Write(regs, reg, byte)          == [regs EXCEPT ![reg] = Bits(byte)]
AppendTo(regs, reg, byte, mask) == [regs EXCEPT ![reg] = (@ \cap Bits(mask)) \cup Bits(byte)]

UpperNibble(byte) == Number(byte) \div 16

Bandwidths == <<7800, 10400, 15600, 20800, 31250, 41700, 62500, 125000, 250000, 500000>>

BandwidthOf(regs)       == Bandwidths[UpperNibble(regs[MODEM_CONFIG_1]) + 1]
SpreadingFactorOf(regs) == UpperNibble(regs[MODEM_CONFIG_2])

\* In milliseconds, rounded twice.
SymbolDuration(regs) ==
    1000 \div (BandwidthOf(regs) \div PowersOf2[SpreadingFactorOf(regs) + 1])

\* Mutant of OptimizationBits: the automatic gain goes off with it.
OptimizationBitsAlone == [value |-> 8, mask |-> 243]

\* setLowDatarateOptimization_(true)
OptimizationBits == [value |-> 8, mask |-> 247]

\* reloadLowDatarateOptimization_, which decides by what it reads.
Reload(regs) ==
    IF SymbolDuration(regs) <= 16 THEN regs
    ELSE AppendTo(regs, MODEM_CONFIG_3, OptimizationBits.value, OptimizationBits.mask)

-----------------------------------------------------------------------------
(* The stages of each call: the registers after each of its accesses.      *)

\* (frequencyHz << 19) / 32000000
Frf(frequencyHz) ==
    256 * (frequencyHz \div 15625) + ((256 * (frequencyHz % 15625)) \div 15625)

FrequencyStages(regs, frequencyHz) ==
    <<[regs EXCEPT ![FRF_MSB]     = Bits((Frf(frequencyHz) \div 65536) % 256),
                   ![FRF_MSB + 1] = Bits((Frf(frequencyHz) \div 256) % 256),
                   ![FRF_MSB + 2] = Bits(Frf(frequencyHz) % 256)]>>

\* A gain of 0 is AUTO.
GainStages(regs, gain) ==
    LET manual == AppendTo(regs, MODEM_CONFIG_3, 0, 251) IN
    IF gain = 0 THEN <<AppendTo(regs, MODEM_CONFIG_3, 4, 251)>>
    ELSE <<manual, AppendTo(manual, LNA, gain * 32, 31)>>

\* Mutant: only the spreading factor's change looks at the symbols' duration.
BandwidthStagesAlone(regs, bandwidth) ==
    <<AppendTo(regs, MODEM_CONFIG_1, bandwidth * 16, 15)>>

BandwidthStages(regs, bandwidth) ==
    LET set == AppendTo(regs, MODEM_CONFIG_1, bandwidth * 16, 15) IN
    <<set, Reload(set)>>

SpreadingFactorStages(regs, sf) ==
    LET optimize  == Write(regs, DETECT_OPTIMIZE, 195)
        threshold == Write(optimize, DETECT_THRESHOLD, 10)
        set       == AppendTo(threshold, MODEM_CONFIG_2, sf * 16, 15)
    IN  IF sf = 6 THEN <<>> ELSE <<optimize, threshold, set, Reload(set)>>

PreambleStages(regs, length) ==
    <<[regs EXCEPT ![PREAMBLE_MSB]     = Bits(length \div 256),
                   ![PREAMBLE_MSB + 1] = Bits(length % 256)]>>

\* The division of C, which rounds towards zero.
Quotient(a, b) == IF a >= 0 THEN a \div b ELSE -((-a) \div b)

MaxCurrent(pa) ==
    IF pa.pin = "BOOST" THEN IF pa.power = 20 THEN 120 ELSE 87
                        ELSE IF pa.power > 7 THEN 29 ELSE 20

\* Mutant: the protection is not switched on.
OvercurrentTrimOnly(pa) == Quotient(MaxCurrent(pa) - 45, 5) % 256

\* In eight bits: below 45 mA, as for RFO, the sum loses the bit that switches it on.
OvercurrentProtection(pa) == (Quotient(MaxCurrent(pa) - 45, 5) + 32) % 256

\* 18 and 19 dBm run over into the bits above those of the power.
PaConfigValue(pa) ==
    IF pa.pin = "RFO"
    THEN IF pa.power < 0 THEN pa.power + 4 ELSE 112 + pa.power
    ELSE IF pa.power = 20 THEN 128 + 15 ELSE 128 + (pa.power - 2)

PaAllowed(pa) == pa.power \in IF pa.pin = "RFO" THEN -4..15 ELSE 2..20

PaStages(regs, pa) ==
    LET dac == Write(regs, PA_DAC, IF pa.pin = "BOOST" /\ pa.power = 20 THEN 135 ELSE 132)
        ocp == Write(dac, OCP, OvercurrentProtection(pa))
    IN  IF ~PaAllowed(pa) THEN <<>>
        ELSE IF PaConfigValue(pa) = 0 THEN <<dac, ocp>>
        ELSE <<dac, ocp, Write(ocp, PA_CONFIG, PaConfigValue(pa))>>

Stages(regs, name, v) ==
    IF name = "frequency"      THEN FrequencyStages(regs, v)
    ELSE IF name = "boost"     THEN <<AppendTo(regs, LNA, IF v THEN 3 ELSE 0, 252)>>
    ELSE IF name = "gain"      THEN GainStages(regs, v)
    ELSE IF name = "bandwidth" THEN BandwidthStages(regs, v)
    ELSE IF name = "header"    THEN <<AppendTo(regs, MODEM_CONFIG_1, 0, 254)>>
    ELSE IF name = "sf"        THEN SpreadingFactorStages(regs, v)
    ELSE IF name = "sync"      THEN <<Write(regs, SYNC_WORD, v)>>
    ELSE IF name = "preamble"  THEN PreambleStages(regs, v)
    ELSE PaStages(regs, v)

\* The arguments that a call refuses, at once or, the lowest power, after two accesses.
Refused(name, v) ==
    \/ name = "sf" /\ v = 6
    \/ name = "pa" /\ (~PaAllowed(v) \/ PaConfigValue(v) = 0)

\* Sleep, both bases of the FIFO, standby, with the bit of LoRa.
InitStages(regs) ==
    LET sleep == Write(regs, OP_MODE, 128)
        tx    == Write(sleep, FIFO_TX_BASE_ADDR, 0)
        rx    == Write(tx, FIFO_RX_BASE_ADDR, 0)
    IN  <<sleep, tx, rx, Write(rx, OP_MODE, 129)>>

-----------------------------------------------------------------------------
(* The calls.                                                              *)

\* In the order of setAllSettings.
Names == <<"frequency", "boost", "gain", "bandwidth", "header", "sf", "sync", "preamble", "pa">>

AllNames == {Names[i] : i \in 1..Len(Names)}

NotUnderWay == [next |-> 0]

SettingsInit ==
    /\ initialised = FALSE
    /\ registers = ResetValues
    /\ applied = [name \in AllNames |-> UNKNOWN]
    /\ underWay = NotUnderWay
    /\ calls = 0

\* What a call may leave that ends early: an access that is reported to have failed may
\* have been made.
Partway(regs, stages) == {regs} \cup {stages[i] : i \in 1..Len(stages)}

\* One setting, which gives OK only after its last access.
Make(name, v, ok) ==
    LET stages == Stages(registers, name, v) IN
    /\ IF ok THEN ~Refused(name, v) /\ registers' = stages[Len(stages)]
             ELSE registers' \in Partway(registers, stages)
    /\ applied' = [applied EXCEPT ![name] = IF ok THEN v
                                            ELSE IF stages = <<>> THEN @ ELSE UNKNOWN]

Call ==
    /\ initialised
    /\ underWay = NotUnderWay
    /\ calls < MaxCalls
    /\ calls' = calls + 1

\* setFrequency, setLnaBoostHf, and so on.
SetOne ==
    /\ Call
    /\ \E name \in AllNames, settings \in Settings, ok \in BOOLEAN :
          Make(name, settings[name], ok)
    /\ UNCHANGED <<initialised, underWay>>

SetAllSettings ==
    /\ Call
    /\ \E settings \in Settings : underWay' = [next |-> 1, settings |-> settings]
    /\ UNCHANGED <<initialised, registers, applied>>

\* The next setting of setAllSettings, which returns at the first failure.
SetNext ==
    /\ underWay # NotUnderWay
    /\ \E ok \in BOOLEAN :
          /\ Make(Names[underWay.next], underWay.settings[Names[underWay.next]], ok)
          /\ underWay' = IF ok /\ underWay.next < Len(Names)
                         THEN [underWay EXCEPT !.next = @ + 1] ELSE NotUnderWay
    /\ UNCHANGED <<initialised, calls>>

\* Once there is a modem_, a failure of init does not take it away.
Rfm95Init ==
    /\ ~initialised
    /\ initialised' = TRUE
    /\ registers' \in Partway(registers, InitStages(registers))
    /\ UNCHANGED <<applied, underWay, calls>>

SettingsNext == Rfm95Init \/ SetOne \/ SetAllSettings \/ SetNext

SettingsSpec == SettingsInit /\ [][SettingsNext]_settingsVars

-----------------------------------------------------------------------------
(* What the registers mean.                                                *)

FrequencyOf(regs) ==
    LET frf == Number(regs[FRF_MSB]) * 65536 + Number(regs[FRF_MSB + 1]) * 256
                 + Number(regs[FRF_MSB + 2])
    IN  (frf \div 256) * 15625 + (((frf % 256) * 15625) \div 256)

RF_MID_BAND_THRESHOLD_HZ == 525 * 1000000

\* What getRssi_ adds to the modem's value.
RssiOffset(regs) == IF FrequencyOf(regs) < RF_MID_BAND_THRESHOLD_HZ THEN -164 ELSE -157

GainOf(regs) ==
    IF 2 \in regs[MODEM_CONFIG_3] THEN 0 ELSE Number(regs[LNA]) \div 32

\* The power that the modem sends with, by the pin's bit, those of MaxPower (all or none
\* of them), and the four of OutputPower.
PaOf(regs) ==
    LET output == Number(regs[PA_CONFIG]) % 16 IN
    IF 7 \in regs[PA_CONFIG]
    THEN [pin |-> "BOOST", power |-> output + IF regs[PA_DAC] = Bits(135) THEN 5 ELSE 2]
    ELSE [pin |-> "RFO", power |-> IF 4 \in regs[PA_CONFIG] THEN output ELSE output - 4]

\* The powers of the BOOST pin that the interface's comment leaves out and the code takes:
\* their value is 16 or 17 above the least, which in four bits is 0 or 1.
PaGiven(pa) ==
    IF pa.pin = "BOOST" /\ pa.power \in {18, 19} THEN [pa EXCEPT !.power = @ - 16] ELSE pa

\* The limit of the current in mA, 0 when there is none.
CurrentLimit(regs) ==
    LET trim == Number(regs[OCP]) % 32 IN
    IF 5 \notin regs[OCP] THEN 0
    ELSE IF trim <= 15 THEN 45 + 5 * trim
    ELSE IF trim <= 27 THEN 10 * trim - 30
    ELSE 240

Shows(regs, name, v) ==
    /\ name = "frequency" => /\ v - FrequencyOf(regs) \in 0..62
                             /\ RssiOffset(regs) =
                                  IF v < RF_MID_BAND_THRESHOLD_HZ THEN -164 ELSE -157
    /\ name = "boost"     => ({0, 1} \subseteq regs[LNA]) = v
    /\ name = "gain"      => GainOf(regs) = v
    /\ name = "bandwidth" => UpperNibble(regs[MODEM_CONFIG_1]) = v
    /\ name = "header"    => 0 \notin regs[MODEM_CONFIG_1]
    /\ name = "sf"        => SpreadingFactorOf(regs) = v
    /\ name = "sync"      => Number(regs[SYNC_WORD]) = v
    /\ name = "preamble"  => Number(regs[PREAMBLE_MSB]) * 256
                               + Number(regs[PREAMBLE_MSB + 1]) = v
    /\ name = "pa"        => PaOf(regs) = PaGiven(v)

-----------------------------------------------------------------------------
(* Properties.                                                             *)

SettingsTypeOK ==
    /\ initialised \in BOOLEAN
    /\ registers \in [Addresses -> SUBSET (0..7)]
    /\ DOMAIN applied = AllNames
    /\ underWay \in {NotUnderWay} \cup [next : 1..Len(Names), settings : Settings]
    /\ calls \in 0..MaxCalls

\* In whatever order settings are made, and whichever of the calls between them fail half
\* way, the modem has every setting as the last call that made it asked, if that call
\* gave OK: no call touches the bits of another setting in a register they share.  (The
\* power has the exception of PaGiven.)
SettingsTakeEffect ==
    \A name \in AllNames :
       applied[name] # UNKNOWN => Shows(registers, name, applied[name])

\* Symbols of 17 ms and more are sent with the optimization for low data rates, whether
\* the bandwidth or the spreading factor was set last; and no combination of the two
\* makes the code read a bandwidth it does not know, or divide by zero.
LowDataRateWhenNeeded ==
    /\ UpperNibble(registers[MODEM_CONFIG_1]) \in 0..9
    /\ SpreadingFactorOf(registers) \in 7..12
    /\ BandwidthOf(registers) \div PowersOf2[SpreadingFactorOf(registers) + 1] # 0
    /\ UNKNOWN \notin {applied["bandwidth"], applied["sf"]} =>
          (PowersOf2[applied["sf"] + 1] * 1000 >= 17 * Bandwidths[applied["bandwidth"] + 1]
             => 3 \in registers[MODEM_CONFIG_3])

\* Whatever power was set before, on either pin, the amplifier of the BOOST pin works with
\* a limit of the current, of no more than 87 mA below the highest power.  (That of the RFO
\* pin works without one: the code's 20 or 29 mA are below the least limit of the chip.)
CurrentLimited ==
    LET pa == applied["pa"] IN
    pa # UNKNOWN => IF pa.pin = "BOOST"
                    THEN CurrentLimit(registers) \in 1..MaxCurrent(pa)
                    ELSE CurrentLimit(registers) = 0
=============================================================================
