-------------------------- MODULE ModemSettingsProofs --------------------------
(***************************************************************************)
(* Proofs about the settings of the modem: whichever calls are made and    *)
(* fail, each setting that a call gave OK for is in the registers, for any *)
(* values that the interface takes.                                        *)
(*                                                                         *)
(* Every bit of a register belongs to one setting (Field), but for that of *)
(* the optimization for low data rates.  An access changes no bit of       *)
(* another setting (Keeps), hence neither does what is left of a call that *)
(* fails, and a setting is shown by its own bits alone (ShowsByField).     *)
(***************************************************************************)
EXTENDS ModemSettings, TLAPS

-----------------------------------------------------------------------------
(* Bytes and nibbles.                                                      *)

Registers == [Addresses -> SUBSET (0..7)]

\* The values of a register, as sets of bits, are the 256 values of a byte.
LEMMA ByteValue ==
    ASSUME NEW byte \in 0..255
    PROVE  Number(Bits(byte)) = byte
  <1> DEFINE b(p) == (byte \div p) % 2
  <1>1. /\ byte = 2 * (byte \div 2) + b(1)
        /\ byte \div 2 = 2 * (byte \div 4) + b(2)
        /\ byte \div 4 = 2 * (byte \div 8) + b(4)
        /\ byte \div 8 = 2 * (byte \div 16) + b(8)
    BY SMT
  <1>2. /\ byte \div 16 = 2 * (byte \div 32) + b(16)
        /\ byte \div 32 = 2 * (byte \div 64) + b(32)
        /\ byte \div 64 = 2 * (byte \div 128) + b(64)
        /\ byte \div 128 = b(128)
    BY SMT
  <1>3. /\ BitOf(Bits(byte), 0) = b(1) /\ BitOf(Bits(byte), 1) = b(2)
        /\ BitOf(Bits(byte), 2) = b(4) /\ BitOf(Bits(byte), 3) = b(8)
    BY SMT DEF BitOf, Bits, PowersOf2
  <1>4. /\ BitOf(Bits(byte), 4) = b(16) /\ BitOf(Bits(byte), 5) = b(32)
        /\ BitOf(Bits(byte), 6) = b(64) /\ BitOf(Bits(byte), 7) = b(128)
    BY SMT DEF BitOf, Bits, PowersOf2
  <1>5. \A p \in {1, 2, 4, 8, 16, 32, 64, 128} : b(p) \in Int /\ byte \div p \in Int
    BY SMT
  <1> HIDE DEF b
  <1> QED
    BY SMT, <1>1, <1>2, <1>3, <1>4, <1>5 DEF Number

LEMMA BitsOfRegister == \A byte : Bits(byte) \in SUBSET (0..7)
  BY DEF Bits

LEMMA Masks ==
    /\ Bits(15) = 0..3
    /\ Bits(31) = 0..4
    /\ Bits(252) = 2..7
    /\ Bits(251) = (0..7) \ {2}
    /\ Bits(254) = 1..7
    /\ Bits(247) = (0..7) \ {3}
    /\ Bits(0) = {}
    /\ Bits(3) = {0, 1}
    /\ Bits(4) = {2}
    /\ Bits(8) = {3}
    /\ Bits(135) = {0, 1, 2, 7}
    /\ Bits(132) = {2, 7}
  BY DEF Bits, PowersOf2

LEMMA UpperBits ==
    /\ \A value \in 0..15 : Bits(value * 16) \subseteq 4..7
    /\ \A value \in 0..6 : Bits(value * 32) \subseteq 5..7
  BY SMTT(30) DEF Bits, PowersOf2

LEMMA UpperPart ==
    ASSUME NEW a, NEW b
    PROVE  /\ a \cap (4..7) = b \cap (4..7) => UpperNibble(a) = UpperNibble(b)
           /\ a \cap (5..7) = b \cap (5..7) => Number(a) \div 32 = Number(b) \div 32
           /\ a \cap (0..7) = b \cap (0..7) => Number(a) = Number(b)
  BY DEF UpperNibble, Number, BitOf

LEMMA NibbleValue ==
    ASSUME NEW value \in 0..15, NEW reg
    PROVE  UpperNibble((reg \cap Bits(15)) \cup Bits(value * 16)) = value
  <1>1. ((reg \cap Bits(15)) \cup Bits(value * 16)) \cap (4..7) = Bits(value * 16) \cap (4..7)
    BY Masks
  <1>2. UpperNibble(Bits(value * 16)) = value
    BY ByteValue, value * 16 \in 0..255 DEF UpperNibble
  <1> QED
    BY <1>1, <1>2, UpperPart

LEMMA GainValue ==
    ASSUME NEW value \in 0..6, NEW reg
    PROVE  Number((reg \cap Bits(31)) \cup Bits(value * 32)) \div 32 = value
  <1>1. ((reg \cap Bits(31)) \cup Bits(value * 32)) \cap (5..7) = Bits(value * 32) \cap (5..7)
    BY Masks
  <1>2. Number(Bits(value * 32)) \div 32 = value
    BY ByteValue, value * 32 \in 0..255
  <1> QED
    BY <1>1, <1>2, UpperPart

LEMMA FrfBytes ==
    ASSUME NEW f \in Nat, f < 65536 * 15625
    PROVE  /\ Frf(f) \in Nat
           /\ Frf(f) = ((Frf(f) \div 65536) % 256) * 65536 + ((Frf(f) \div 256) % 256) * 256
                         + (Frf(f) % 256)
           /\ f - ((Frf(f) \div 256) * 15625 + (((Frf(f) % 256) * 15625) \div 256)) \in 0..62
           /\ Frf(f) \div 256 = f \div 15625
  <1> DEFINE q == f \div 15625
             r == f % 15625
             g == (256 * r) \div 15625
  <1>1. q \in Nat /\ q < 65536 /\ r \in Nat /\ r < 15625 /\ f = 15625 * q + r
    BY SMT
  <1>2. g \in 0..255 /\ 256 * r - 15625 * g >= 0 /\ 256 * r - 15625 * g < 15625
    BY SMT, <1>1
  <1>3. Frf(f) = 256 * q + g
    BY SMT DEF Frf
  <1> HIDE DEF q, r, g
  <1>4. Frf(f) \div 256 = q /\ Frf(f) % 256 = g
    BY SMT, <1>1, <1>2, <1>3
  <1>5. r - ((g * 15625) \div 256) \in 0..62
    BY SMT, <1>1, <1>2
  <1>6. Frf(f) \div 65536 = q \div 256
    BY SMT, <1>1, <1>2, <1>3
  <1> DEFINE n == Frf(f)
             high == (n \div 65536) % 256
             middle == (n \div 256) % 256
             rest == ((n % 256) * 15625) \div 256
  <1>7. 256 * q + g = high * 65536 + middle * 256 + (n % 256)
    BY SMT, <1>1, <1>2, <1>4, <1>6
  <1>8. n = high * 65536 + middle * 256 + (n % 256)
    BY SMT, <1>3, <1>7
  <1>9. rest = (g * 15625) \div 256
    BY SMT, <1>4
  <1>10. rest \in Nat
    BY SMT, <1>2, <1>9
  <1> HIDE DEF rest
  <1>11. f - (q * 15625 + rest) \in 0..62
    BY SMT, <1>1, <1>5, <1>9, <1>10
  <1>12. f - ((n \div 256) * 15625 + rest) \in 0..62
    BY SMT, <1>4, <1>11
  <1>13. Frf(f) \in Nat
    BY SMT, <1>1, <1>2, <1>3
  <1> QED
    BY SMT, <1>4, <1>8, <1>12, <1>13 DEF q, rest

-----------------------------------------------------------------------------
(* Which bits of the registers belong to which setting.                    *)

Field(name, a) ==
    IF name = "frequency" THEN IF a \in {FRF_MSB, FRF_MSB + 1, FRF_MSB + 2} THEN 0..7 ELSE {}
    ELSE IF name = "boost" THEN IF a = LNA THEN {0, 1} ELSE {}
    ELSE IF name = "gain" THEN IF a = LNA THEN 5..7 ELSE IF a = MODEM_CONFIG_3 THEN {2} ELSE {}
    ELSE IF name = "bandwidth" THEN IF a = MODEM_CONFIG_1 THEN 4..7 ELSE {}
    ELSE IF name = "header" THEN IF a = MODEM_CONFIG_1 THEN {0} ELSE {}
    ELSE IF name = "sf" THEN IF a \in {DETECT_OPTIMIZE, DETECT_THRESHOLD} THEN 0..7
                             ELSE IF a = MODEM_CONFIG_2 THEN 4..7 ELSE {}
    ELSE IF name = "sync" THEN IF a = SYNC_WORD THEN 0..7 ELSE {}
    ELSE IF name = "preamble" THEN IF a \in {PREAMBLE_MSB, PREAMBLE_MSB + 1} THEN 0..7 ELSE {}
    ELSE IF a \in {PA_DAC, OCP, PA_CONFIG} THEN 0..7 ELSE {}

\* The bit of the optimization for low data rates belongs to none; bandwidth and spreading
\* factor may both set it.
Optimization(a) == IF a = MODEM_CONFIG_3 THEN {3} ELSE {}

SameIn(r, s, name) == \A a \in Addresses : r[a] \cap Field(name, a) = s[a] \cap Field(name, a)

SameOutside(r, s, name) ==
    \A a \in Addresses : \A i \in (0..7) \ (Field(name, a) \cup Optimization(a)) :
       i \in r[a] <=> i \in s[a]

LEMMA AddressesDistinct ==
    /\ Addresses = {1, 6, 7, 8, 9, 11, 12, 14, 15, 29, 30, 32, 33, 38, 49, 55, 57, 77}
    /\ OP_MODE = 1 /\ FRF_MSB = 6 /\ PA_CONFIG = 9 /\ OCP = 11 /\ LNA = 12
    /\ FIFO_TX_BASE_ADDR = 14 /\ FIFO_RX_BASE_ADDR = 15 /\ MODEM_CONFIG_1 = 29
    /\ MODEM_CONFIG_2 = 30 /\ PREAMBLE_MSB = 32 /\ MODEM_CONFIG_3 = 38
    /\ DETECT_OPTIMIZE = 49 /\ DETECT_THRESHOLD = 55 /\ SYNC_WORD = 57 /\ PA_DAC = 77
  BY DEF Addresses, OP_MODE, FRF_MSB, PA_CONFIG, OCP, LNA, FIFO_TX_BASE_ADDR,
     FIFO_RX_BASE_ADDR, MODEM_CONFIG_1, MODEM_CONFIG_2, PREAMBLE_MSB, MODEM_CONFIG_3,
     DETECT_OPTIMIZE, DETECT_THRESHOLD, SYNC_WORD, PA_DAC

LEMMA NamesAre ==
    AllNames = {"frequency", "boost", "gain", "bandwidth", "header", "sf", "sync", "preamble",
                "pa"}
  BY DEF AllNames, Names

LEMMA FieldsDisjoint ==
    ASSUME NEW name \in AllNames, NEW other \in AllNames, name # other, NEW a \in Addresses
    PROVE  Field(name, a) \cap (Field(other, a) \cup Optimization(a)) = {}
  BY AddressesDistinct, NamesAre DEF Field, Optimization

LEMMA SameOutsideIsSameIn ==
    ASSUME NEW r \in Registers, NEW s \in Registers,
           NEW name \in AllNames, NEW other \in AllNames, name # other,
           SameOutside(r, s, other)
    PROVE  SameIn(r, s, name)
  <1> SUFFICES ASSUME NEW a \in Addresses
               PROVE  r[a] \cap Field(name, a) = s[a] \cap Field(name, a)
    BY DEF SameIn
  <1>1. r[a] \subseteq 0..7 /\ s[a] \subseteq 0..7
    BY DEF Registers
  <1>2. \A i \in 0..7 : i \in Field(name, a) => (i \in r[a] <=> i \in s[a])
    BY FieldsDisjoint DEF SameOutside
  <1> QED
    BY <1>1, <1>2

LEMMA ShowsEach ==
    ASSUME NEW regs, NEW v
    PROVE  /\ Shows(regs, "frequency", v)
                <=> /\ v - FrequencyOf(regs) \in 0..62
                    /\ RssiOffset(regs) = IF v < RF_MID_BAND_THRESHOLD_HZ THEN -164 ELSE -157
           /\ Shows(regs, "boost", v) <=> ({0, 1} \subseteq regs[LNA]) = v
           /\ Shows(regs, "gain", v) <=> GainOf(regs) = v
           /\ Shows(regs, "bandwidth", v) <=> UpperNibble(regs[MODEM_CONFIG_1]) = v
           /\ Shows(regs, "header", v) <=> 0 \notin regs[MODEM_CONFIG_1]
           /\ Shows(regs, "sf", v) <=> SpreadingFactorOf(regs) = v
           /\ Shows(regs, "sync", v) <=> Number(regs[SYNC_WORD]) = v
           /\ Shows(regs, "preamble", v) <=> Number(regs[PREAMBLE_MSB]) * 256
                                              + Number(regs[PREAMBLE_MSB + 1]) = v
           /\ Shows(regs, "pa", v) <=> PaOf(regs) = PaGiven(v)
  <1>1. Shows(regs, "frequency", v)
          <=> /\ v - FrequencyOf(regs) \in 0..62
              /\ RssiOffset(regs) = IF v < RF_MID_BAND_THRESHOLD_HZ THEN -164 ELSE -157
    BY Zenon DEF Shows
  <1>2. Shows(regs, "boost", v) <=> ({0, 1} \subseteq regs[LNA]) = v
    BY Zenon DEF Shows
  <1>3. Shows(regs, "gain", v) <=> GainOf(regs) = v
    BY Zenon DEF Shows
  <1>4. Shows(regs, "bandwidth", v) <=> UpperNibble(regs[MODEM_CONFIG_1]) = v
    BY Zenon DEF Shows
  <1>5. Shows(regs, "header", v) <=> 0 \notin regs[MODEM_CONFIG_1]
    BY Zenon DEF Shows
  <1>6. Shows(regs, "sf", v) <=> SpreadingFactorOf(regs) = v
    BY Zenon DEF Shows
  <1>7. Shows(regs, "sync", v) <=> Number(regs[SYNC_WORD]) = v
    BY Zenon DEF Shows
  <1>8. Shows(regs, "preamble", v) <=> Number(regs[PREAMBLE_MSB]) * 256
                                         + Number(regs[PREAMBLE_MSB + 1]) = v
    BY Zenon DEF Shows
  <1>9. Shows(regs, "pa", v) <=> PaOf(regs) = PaGiven(v)
    BY Zenon DEF Shows
  <1> QED
    BY Zenon, <1>1, <1>2, <1>3, <1>4, <1>5, <1>6, <1>7, <1>8, <1>9

LEMMA SamePower ==
    ASSUME NEW r, NEW s, r[PA_CONFIG] = s[PA_CONFIG], r[PA_DAC] = s[PA_DAC]
    PROVE  PaOf(r) = PaOf(s)
  BY Zenon DEF PaOf

LEMMA SameBits ==
    ASSUME NEW a, NEW b, a \subseteq 0..7, b \subseteq 0..7, a \cap (0..7) = b \cap (0..7)
    PROVE  a = b
  BY Zenon

LEMMA ShowsByField ==
    ASSUME NEW r \in Registers, NEW s \in Registers, NEW name \in AllNames, NEW v,
           SameIn(r, s, name), Shows(s, name, v)
    PROVE  Shows(r, name, v)
  <1> USE AddressesDistinct DEF SameIn, Field, Registers
  <1>1. CASE name = "frequency"
    <2>1. /\ Number(r[FRF_MSB]) = Number(s[FRF_MSB])
          /\ Number(r[FRF_MSB + 1]) = Number(s[FRF_MSB + 1])
          /\ Number(r[FRF_MSB + 2]) = Number(s[FRF_MSB + 2])
      BY <1>1, UpperPart
    <2>2. FrequencyOf(r) = FrequencyOf(s)
      BY <2>1 DEF FrequencyOf
    <2> QED
      BY <1>1, <2>2 DEF Shows, RssiOffset
  <1>2. CASE name = "boost"
    BY <1>2 DEF Shows
  <1>3. CASE name = "gain"
    <2>1. Number(r[LNA]) \div 32 = Number(s[LNA]) \div 32
      BY <1>3, UpperPart
    <2>2. 2 \in r[MODEM_CONFIG_3] <=> 2 \in s[MODEM_CONFIG_3]
      BY <1>3
    <2> QED
      BY <1>3, <2>1, <2>2 DEF Shows, GainOf
  <1>4. CASE name = "bandwidth"
    BY <1>4, UpperPart DEF Shows
  <1>5. CASE name = "header"
    BY <1>5 DEF Shows
  <1>6. CASE name = "sf"
    BY <1>6, UpperPart DEF Shows, SpreadingFactorOf
  <1>7. CASE name = "sync"
    BY <1>7, UpperPart DEF Shows
  <1>8. CASE name = "preamble"
    <2>1. /\ Number(r[PREAMBLE_MSB]) = Number(s[PREAMBLE_MSB])
          /\ Number(r[PREAMBLE_MSB + 1]) = Number(s[PREAMBLE_MSB + 1])
      BY <1>8, UpperPart
    <2> QED
      BY <1>8, <2>1 DEF Shows
  <1>9. CASE name = "pa"
    <2>1. \A a \in {PA_CONFIG, PA_DAC} : r[a] = s[a]
      <3> SUFFICES ASSUME NEW a \in {PA_CONFIG, PA_DAC}
                   PROVE  r[a] = s[a]
        OBVIOUS
      <3>1. r[a] \cap (0..7) = s[a] \cap (0..7)
        BY <1>9
      <3>2. r[a] \subseteq 0..7 /\ s[a] \subseteq 0..7
        OBVIOUS
      <3> QED
        BY <3>1, <3>2, SameBits
    <2>2. PaOf(r) = PaOf(s)
      BY <2>1, SamePower
    <2>3. PaOf(s) = PaGiven(v)
      BY <1>9, ShowsEach
    <2> QED
      BY <1>9, <2>2, <2>3, ShowsEach
  <1> QED
    BY <1>1, <1>2, <1>3, <1>4, <1>5, <1>6, <1>7, <1>8, <1>9, NamesAre

-----------------------------------------------------------------------------
(* No access changes a bit of another setting.                             *)

Keeps(r, s, name) ==
    /\ r \in Registers
    /\ SameOutside(r, s, name)
    /\ 3 \in s[MODEM_CONFIG_3] => 3 \in r[MODEM_CONFIG_3]

LEMMA KeepsTransitive ==
    ASSUME NEW r, NEW s, NEW t, NEW name, Keeps(r, s, name), Keeps(s, t, name)
    PROVE  Keeps(r, t, name)
  BY DEF Keeps, SameOutside

LEMMA KeepsItself ==
    ASSUME NEW r \in Registers, NEW name
    PROVE  Keeps(r, r, name)
  BY DEF Keeps, SameOutside

LEMMA WriteKeeps ==
    ASSUME NEW s \in Registers, NEW a \in Addresses, a # MODEM_CONFIG_3, NEW byte, NEW name,
           Field(name, a) = 0..7
    PROVE  Keeps(Write(s, a, byte), s, name)
  BY BitsOfRegister, AddressesDistinct DEF Keeps, SameOutside, Write, Registers

LEMMA AppendKeeps ==
    ASSUME NEW s \in Registers, NEW a \in Addresses, NEW byte, NEW mask, NEW name,
           \A i \in (0..7) \ (Field(name, a) \cup Optimization(a)) :
              i \in Bits(mask) /\ i \notin Bits(byte),
           a = MODEM_CONFIG_3 => 3 \in Bits(mask) \cup Bits(byte)
    PROVE  Keeps(AppendTo(s, a, byte, mask), s, name)
  <1> DEFINE r == AppendTo(s, a, byte, mask)
  <1>1. /\ \A b \in Addresses : b # a => r[b] = s[b]
        /\ r[a] = (s[a] \cap Bits(mask)) \cup Bits(byte)
    BY DEF AppendTo, Registers
  <1>2. r \in Registers
    BY BitsOfRegister DEF AppendTo, Registers
  <1> HIDE DEF r
  <1>3. SameOutside(r, s, name)
    BY <1>1 DEF SameOutside
  <1>4. 3 \in s[MODEM_CONFIG_3] => 3 \in r[MODEM_CONFIG_3]
    BY <1>1, AddressesDistinct
  <1> QED
    BY <1>2, <1>3, <1>4 DEF Keeps, r

LEMMA ReloadKeeps ==
    ASSUME NEW s \in Registers, NEW name
    PROVE  Keeps(Reload(s), s, name)
  <1>1. Keeps(AppendTo(s, MODEM_CONFIG_3, 8, 247), s, name)
    <2>1. \A i \in (0..7) \ (Field(name, MODEM_CONFIG_3) \cup Optimization(MODEM_CONFIG_3)) :
             i \in Bits(247) /\ i \notin Bits(8)
      BY Masks DEF Optimization
    <2>2. 3 \in Bits(247) \cup Bits(8) /\ MODEM_CONFIG_3 \in Addresses
      BY Masks, AddressesDistinct
    <2> QED
      BY <2>1, <2>2, AppendKeeps
  <1> QED
    BY <1>1, KeepsItself DEF Reload, OptimizationBits

LEMMA SeveralKeep ==
    ASSUME NEW s \in Registers, NEW name, NEW bytes,
           NEW A \in SUBSET (Addresses \ {MODEM_CONFIG_3}), \A a \in A : Field(name, a) = 0..7,
           NEW r \in Registers, \A a \in Addresses \ A : r[a] = s[a]
    PROVE  Keeps(r, s, name)
  BY AddressesDistinct DEF Keeps, SameOutside

LEMMA PartwayNone ==
    ASSUME NEW s PROVE Partway(s, <<>>) = {s}
  BY 1..0 = {} DEF Partway

LEMMA PartwayOne ==
    ASSUME NEW s, NEW a PROVE Partway(s, <<a>>) = {s, a}
  BY 1..1 = {1} DEF Partway

LEMMA PartwayTwo ==
    ASSUME NEW s, NEW a, NEW b PROVE Partway(s, <<a, b>>) = {s, a, b}
  BY 1..2 = {1, 2} DEF Partway

LEMMA PartwayThree ==
    ASSUME NEW s, NEW a, NEW b, NEW c PROVE Partway(s, <<a, b, c>>) = {s, a, b, c}
  BY 1..3 = {1, 2, 3} DEF Partway

LEMMA PartwayFour ==
    ASSUME NEW s, NEW a, NEW b, NEW c, NEW d
    PROVE  Partway(s, <<a, b, c, d>>) = {s, a, b, c, d}
  BY 1..4 = {1, 2, 3, 4} DEF Partway

LEMMA LargeFields ==
    ASSUME NEW s \in SettingsRange
    PROVE  /\ s["frequency"] \in Nat /\ s["frequency"] < 65536 * 15625
           /\ s["preamble"] \in Nat /\ s["preamble"] < 65536
  BY SMT DEF SettingsRange, Frequencies, PreambleLengths

LEMMA SmallFields ==
    ASSUME NEW s \in SettingsRange
    PROVE  /\ s["boost"] \in BOOLEAN /\ s["gain"] \in 0..6 /\ s["bandwidth"] \in 0..9
           /\ s["sf"] \in 6..12 /\ s["sync"] \in 0..255
           /\ s["pa"] \in [pin : {"RFO", "BOOST"}, power : Int]
  BY SMT DEF SettingsRange

LEMMA StagesOf ==
    ASSUME NEW regs, NEW v
    PROVE  /\ Stages(regs, "frequency", v) = FrequencyStages(regs, v)
           /\ Stages(regs, "gain", v) = GainStages(regs, v)
           /\ Stages(regs, "bandwidth", v) = BandwidthStages(regs, v)
           /\ Stages(regs, "header", v) = <<AppendTo(regs, MODEM_CONFIG_1, 0, 254)>>
           /\ Stages(regs, "sf", v) = SpreadingFactorStages(regs, v)
           /\ Stages(regs, "sync", v) = <<Write(regs, SYNC_WORD, v)>>
           /\ Stages(regs, "preamble", v) = PreambleStages(regs, v)
           /\ Stages(regs, "pa", v) = PaStages(regs, v)
  BY DEF Stages

LEMMA BoostStagesOf ==
    ASSUME NEW regs, NEW v
    PROVE  Stages(regs, "boost", v) = <<AppendTo(regs, LNA, IF v THEN 3 ELSE 0, 252)>>
  BY DEF Stages

LEMMA FrequencyKeeps ==
    ASSUME NEW regs \in Registers, NEW v, NEW r \in Partway(regs, FrequencyStages(regs, v))
    PROVE  Keeps(r, regs, "frequency")
  <1> DEFINE A == {FRF_MSB, FRF_MSB + 1, FRF_MSB + 2}
  <1>1. A \in SUBSET (Addresses \ {MODEM_CONFIG_3}) /\ \A a \in A : Field("frequency", a) = 0..7
    BY AddressesDistinct DEF Field
  <1> DEFINE set == FrequencyStages(regs, v)[1]
  <1>2. FrequencyStages(regs, v) = <<set>>
    BY DEF FrequencyStages
  <1>3. set \in Registers /\ \A a \in Addresses \ A : set[a] = regs[a]
    BY BitsOfRegister, AddressesDistinct DEF FrequencyStages, Registers
  <1> HIDE DEF set
  <1>4. r \in {regs, set}
    BY <1>2, PartwayOne
  <1> QED
    BY <1>1, <1>3, <1>4, SeveralKeep, KeepsItself

LEMMA BoostKeeps ==
    ASSUME NEW regs \in Registers, NEW v
    PROVE  Keeps(AppendTo(regs, LNA, IF v THEN 3 ELSE 0, 252), regs, "boost")
  <1>1. \A i \in (0..7) \ Field("boost", LNA) : i \in Bits(252) /\ i \notin Bits(3) /\ i \notin Bits(0)
    BY Masks DEF Field
  <1>2. LNA \in Addresses /\ LNA # MODEM_CONFIG_3
    BY AddressesDistinct
  <1> QED
    BY <1>1, <1>2, AppendKeeps

LEMMA GainKeeps ==
    ASSUME NEW regs \in Registers, NEW v \in 0..6, NEW r \in Partway(regs, GainStages(regs, v))
    PROVE  Keeps(r, regs, "gain")
  <1> DEFINE manual == AppendTo(regs, MODEM_CONFIG_3, 0, 251)
             auto   == AppendTo(regs, MODEM_CONFIG_3, 4, 251)
             set    == AppendTo(manual, LNA, v * 32, 31)
  <1>1. Keeps(manual, regs, "gain") /\ Keeps(auto, regs, "gain")
    <2>1. /\ \A i \in (0..7) \ (Field("gain", MODEM_CONFIG_3) \cup Optimization(MODEM_CONFIG_3)) :
                i \in Bits(251) /\ i \notin Bits(0) /\ i \notin Bits(4)
          /\ 3 \in Bits(251)
      BY Masks, AddressesDistinct DEF Field, Optimization
    <2> QED
      BY <2>1, AppendKeeps, AddressesDistinct
  <1>2. Keeps(set, manual, "gain")
    <2>1. \A i \in (0..7) \ Field("gain", LNA) : i \in Bits(31) /\ i \notin Bits(v * 32)
      BY Masks, UpperBits DEF Field
    <2>2. LNA \in Addresses /\ LNA # MODEM_CONFIG_3
      BY AddressesDistinct
    <2> QED
      BY <1>1, <2>1, <2>2, AppendKeeps DEF Keeps
  <1>3. IF v = 0 THEN GainStages(regs, v) = <<auto>> ELSE GainStages(regs, v) = <<manual, set>>
    BY DEF GainStages
  <1> HIDE DEF manual, auto, set
  <1>4. r \in {regs, manual, auto, set}
    BY <1>3, PartwayOne, PartwayTwo
  <1> QED
    BY <1>1, <1>2, <1>4, KeepsItself, KeepsTransitive

LEMMA BandwidthKeeps ==
    ASSUME NEW regs \in Registers, NEW v \in 0..9,
           NEW r \in Partway(regs, BandwidthStages(regs, v))
    PROVE  Keeps(r, regs, "bandwidth")
  <1> DEFINE set == AppendTo(regs, MODEM_CONFIG_1, v * 16, 15)
  <1>1. Keeps(set, regs, "bandwidth")
    <2>1. \A i \in (0..7) \ Field("bandwidth", MODEM_CONFIG_1) :
             i \in Bits(15) /\ i \notin Bits(v * 16)
      BY Masks, UpperBits DEF Field
    <2>2. MODEM_CONFIG_1 \in Addresses /\ MODEM_CONFIG_1 # MODEM_CONFIG_3
      BY AddressesDistinct
    <2> QED
      BY <2>1, <2>2, AppendKeeps
  <1>2. Keeps(Reload(set), set, "bandwidth")
    BY <1>1, ReloadKeeps DEF Keeps
  <1>3. BandwidthStages(regs, v) = <<set, Reload(set)>>
    BY DEF BandwidthStages
  <1> HIDE DEF set
  <1>4. r \in {regs, set, Reload(set)}
    BY <1>3, PartwayTwo
  <1> QED
    BY <1>1, <1>2, <1>4, KeepsItself, KeepsTransitive

LEMMA HeaderKeeps ==
    ASSUME NEW regs \in Registers
    PROVE  Keeps(AppendTo(regs, MODEM_CONFIG_1, 0, 254), regs, "header")
  <1>1. \A i \in (0..7) \ Field("header", MODEM_CONFIG_1) : i \in Bits(254) /\ i \notin Bits(0)
    BY Masks DEF Field
  <1>2. MODEM_CONFIG_1 \in Addresses /\ MODEM_CONFIG_1 # MODEM_CONFIG_3
    BY AddressesDistinct
  <1> QED
    BY <1>1, <1>2, AppendKeeps

LEMMA SpreadingFactorKeeps ==
    ASSUME NEW regs \in Registers, NEW v \in 6..12,
           NEW r \in Partway(regs, SpreadingFactorStages(regs, v))
    PROVE  Keeps(r, regs, "sf")
  <1> DEFINE optimize  == Write(regs, DETECT_OPTIMIZE, 195)
             threshold == Write(optimize, DETECT_THRESHOLD, 10)
             set       == AppendTo(threshold, MODEM_CONFIG_2, v * 16, 15)
  <1>1. /\ {DETECT_OPTIMIZE, DETECT_THRESHOLD, MODEM_CONFIG_2} \subseteq Addresses
        /\ MODEM_CONFIG_3 \notin {DETECT_OPTIMIZE, DETECT_THRESHOLD, MODEM_CONFIG_2}
        /\ Field("sf", DETECT_OPTIMIZE) = 0..7
        /\ Field("sf", DETECT_THRESHOLD) = 0..7
        /\ Field("sf", MODEM_CONFIG_2) = 4..7
    BY AddressesDistinct DEF Field
  <1>2. Keeps(optimize, regs, "sf")
    BY <1>1, WriteKeeps
  <1>3. Keeps(threshold, optimize, "sf")
    BY <1>1, <1>2, WriteKeeps DEF Keeps
  <1>4. Keeps(set, threshold, "sf")
    <2>1. \A i \in (0..7) \ Field("sf", MODEM_CONFIG_2) : i \in Bits(15) /\ i \notin Bits(v * 16)
      BY <1>1, Masks, UpperBits
    <2> QED
      BY <1>1, <1>3, <2>1, AppendKeeps DEF Keeps
  <1>5. Keeps(Reload(set), set, "sf")
    BY <1>4, ReloadKeeps DEF Keeps
  <1>6. SpreadingFactorStages(regs, v) = IF v = 6 THEN <<>>
                                         ELSE <<optimize, threshold, set, Reload(set)>>
    BY DEF SpreadingFactorStages
  <1> HIDE DEF optimize, threshold, set
  <1>7. r \in {regs, optimize, threshold, set, Reload(set)}
    BY <1>6, PartwayNone, PartwayFour
  <1> QED
    BY <1>2, <1>3, <1>4, <1>5, <1>7, KeepsItself, KeepsTransitive

LEMMA PreambleKeeps ==
    ASSUME NEW regs \in Registers, NEW v, NEW r \in Partway(regs, PreambleStages(regs, v))
    PROVE  Keeps(r, regs, "preamble")
  <1> DEFINE A == {PREAMBLE_MSB, PREAMBLE_MSB + 1}
  <1>1. A \in SUBSET (Addresses \ {MODEM_CONFIG_3}) /\ \A a \in A : Field("preamble", a) = 0..7
    BY AddressesDistinct DEF Field
  <1> DEFINE set == PreambleStages(regs, v)[1]
  <1>2. PreambleStages(regs, v) = <<set>>
    BY DEF PreambleStages
  <1>3. set \in Registers /\ \A a \in Addresses \ A : set[a] = regs[a]
    BY BitsOfRegister, AddressesDistinct DEF PreambleStages, Registers
  <1> HIDE DEF set
  <1>4. r \in {regs, set}
    BY <1>2, PartwayOne
  <1> QED
    BY <1>1, <1>3, <1>4, SeveralKeep, KeepsItself

LEMMA PaKeeps ==
    ASSUME NEW regs \in Registers, NEW v, NEW r \in Partway(regs, PaStages(regs, v))
    PROVE  Keeps(r, regs, "pa")
  <1> DEFINE dac == Write(regs, PA_DAC, IF v.pin = "BOOST" /\ v.power = 20 THEN 135 ELSE 132)
             ocp == Write(dac, OCP, OvercurrentProtection(v))
             config == Write(ocp, PA_CONFIG, PaConfigValue(v))
  <1>1. /\ {PA_DAC, OCP, PA_CONFIG} \subseteq Addresses
        /\ MODEM_CONFIG_3 \notin {PA_DAC, OCP, PA_CONFIG}
        /\ \A a \in {PA_DAC, OCP, PA_CONFIG} : Field("pa", a) = 0..7
    BY AddressesDistinct DEF Field
  <1>2. Keeps(dac, regs, "pa")
    BY <1>1, WriteKeeps
  <1>3. Keeps(ocp, dac, "pa")
    BY <1>1, <1>2, WriteKeeps DEF Keeps
  <1>4. Keeps(config, ocp, "pa")
    BY <1>1, <1>3, WriteKeeps DEF Keeps
  <1>5. PaStages(regs, v) \in {<<>>, <<dac, ocp>>, <<dac, ocp, config>>}
    BY DEF PaStages
  <1> HIDE DEF dac, ocp, config
  <1>6. r \in {regs, dac, ocp, config}
    BY <1>5, PartwayNone, PartwayTwo, PartwayThree
  <1> QED
    BY <1>2, <1>3, <1>4, <1>6, KeepsItself, KeepsTransitive

LEMMA SyncKeeps ==
    ASSUME NEW regs \in Registers, NEW v
    PROVE  Keeps(Write(regs, SYNC_WORD, v), regs, "sync")
  BY WriteKeeps, AddressesDistinct DEF Field

\* Wherever a call ends, it has changed no bit of another setting.
LEMMA StagesKeep ==
    ASSUME NEW regs \in Registers, NEW name \in AllNames, NEW s \in SettingsRange,
           NEW r \in Partway(regs, Stages(regs, name, s[name]))
    PROVE  Keeps(r, regs, name)
  <1>1. CASE name = "frequency"
    <2>1. r \in Partway(regs, FrequencyStages(regs, s["frequency"]))
      BY <1>1, StagesOf
    <2> QED
      BY <1>1, <2>1, FrequencyKeeps
  <1>2. CASE name = "boost"
    <2>1. r \in {regs, AppendTo(regs, LNA, IF s["boost"] THEN 3 ELSE 0, 252)}
      BY <1>2, BoostStagesOf, PartwayOne
    <2> QED
      BY <1>2, <2>1, BoostKeeps, KeepsItself
  <1>3. CASE name = "gain"
    <2>1. r \in Partway(regs, GainStages(regs, s["gain"]))
      BY <1>3, StagesOf
    <2> QED
      BY <1>3, <2>1, GainKeeps, SmallFields
  <1>4. CASE name = "bandwidth"
    <2>1. r \in Partway(regs, BandwidthStages(regs, s["bandwidth"]))
      BY <1>4, StagesOf
    <2> QED
      BY <1>4, <2>1, BandwidthKeeps, SmallFields
  <1>5. CASE name = "header"
    <2>1. r \in {regs, AppendTo(regs, MODEM_CONFIG_1, 0, 254)}
      BY <1>5, StagesOf, PartwayOne
    <2> QED
      BY <1>5, <2>1, HeaderKeeps, KeepsItself
  <1>6. CASE name = "sf"
    <2>1. r \in Partway(regs, SpreadingFactorStages(regs, s["sf"]))
      BY <1>6, StagesOf
    <2> QED
      BY <1>6, <2>1, SpreadingFactorKeeps, SmallFields
  <1>7. CASE name = "sync"
    <2>1. r \in {regs, Write(regs, SYNC_WORD, s["sync"])}
      BY <1>7, StagesOf, PartwayOne
    <2> QED
      BY <1>7, <2>1, SyncKeeps, KeepsItself
  <1>8. CASE name = "preamble"
    <2>1. r \in Partway(regs, PreambleStages(regs, s["preamble"]))
      BY <1>8, StagesOf
    <2> QED
      BY <1>8, <2>1, PreambleKeeps
  <1>9. CASE name = "pa"
    <2>1. r \in Partway(regs, PaStages(regs, s["pa"]))
      BY <1>9, StagesOf
    <2> QED
      BY <1>9, <2>1, PaKeeps
  <1> QED
    BY <1>1, <1>2, <1>3, <1>4, <1>5, <1>6, <1>7, <1>8, <1>9, NamesAre

-----------------------------------------------------------------------------
(* The last access of a call leaves the registers as the call was asked.   *)

FrequencyRead(frf) == (frf \div 256) * 15625 + (((frf % 256) * 15625) \div 256)

LEMMA FrequencyBand ==
    ASSUME NEW f \in Nat, f < 65536 * 15625
    PROVE  FrequencyRead(Frf(f)) < RF_MID_BAND_THRESHOLD_HZ <=> f < RF_MID_BAND_THRESHOLD_HZ
  <1> DEFINE q == f \div 15625
             n == Frf(f)
             rest == ((n % 256) * 15625) \div 256
  <1>1. q \in Nat /\ f >= 15625 * q /\ f < 15625 * q + 15625
    BY SMT
  <1>2. n \in Nat /\ n \div 256 = q /\ f - ((n \div 256) * 15625 + rest) \in 0..62
    BY SMT, FrfBytes
  <1>3. FrequencyRead(n) = (n \div 256) * 15625 + rest
    BY SMT DEF FrequencyRead
  <1>4. rest \in Nat
    BY SMT, <1>2
  <1> HIDE DEF q, n, rest
  <1>5. FrequencyRead(n) = q * 15625 + rest
    BY SMT, <1>2, <1>3
  <1>6. FrequencyRead(n) >= 15625 * q /\ FrequencyRead(n) < 15625 * q + 15625
    BY SMT, <1>1, <1>2, <1>4, <1>5
  <1>7. RF_MID_BAND_THRESHOLD_HZ = 15625 * 33600
    BY SMT DEF RF_MID_BAND_THRESHOLD_HZ
  <1>8. FrequencyRead(n) < 15625 * 33600 <=> f < 15625 * 33600
    <2>1. CASE q < 33600
      BY SMT, <1>1, <1>5, <1>6, <1>4, <2>1
    <2>2. CASE ~(q < 33600)
      BY SMT, <1>1, <1>5, <1>6, <1>4, <2>2
    <2> QED
      BY <2>1, <2>2
  <1> QED
    BY SMT, <1>7, <1>8 DEF n

LEMMA FrequencyOfBytes ==
    ASSUME NEW regs, NEW high \in Nat, NEW middle \in Nat, NEW low \in Nat,
           Number(regs[FRF_MSB]) = high, Number(regs[FRF_MSB + 1]) = middle,
           Number(regs[FRF_MSB + 2]) = low
    PROVE  FrequencyOf(regs) = FrequencyRead(high * 65536 + middle * 256 + low)
  BY SMT DEF FrequencyOf, FrequencyRead

LEMMA FrequencyShown ==
    ASSUME NEW regs \in Registers, NEW v \in Nat, v < 65536 * 15625,
           NEW r, FrequencyStages(regs, v) = <<r>>
    PROVE  Shows(r, "frequency", v)
  <1> DEFINE n == Frf(v)
             high == (n \div 65536) % 256
             middle == (n \div 256) % 256
             low == n % 256
  <1>1. n \in Nat /\ n = high * 65536 + middle * 256 + low
    BY SMT, FrfBytes
  <1>2. high \in 0..255 /\ middle \in 0..255 /\ low \in 0..255
    <2>1. n \div 65536 \in Nat /\ n \div 256 \in Nat /\ n \in Nat
      BY SMT, <1>1
    <2>2. \A k \in Nat : k % 256 \in 0..255
      BY SMT
    <2> HIDE DEF n
    <2> QED
      BY <2>1, <2>2
  <1>3. /\ r[FRF_MSB] = Bits(high)
        /\ r[FRF_MSB + 1] = Bits(middle)
        /\ r[FRF_MSB + 2] = Bits(low)
    BY AddressesDistinct DEF FrequencyStages, Registers
  <1>4. v - FrequencyRead(n) \in 0..62
    BY SMT, FrfBytes DEF FrequencyRead
  <1> HIDE DEF n, high, middle, low
  <1>5. /\ Number(r[FRF_MSB]) = high
        /\ Number(r[FRF_MSB + 1]) = middle
        /\ Number(r[FRF_MSB + 2]) = low
    BY <1>2, <1>3, ByteValue
  <1>6. FrequencyOf(r) = FrequencyRead(n)
    BY <1>1, <1>2, <1>5, FrequencyOfBytes
  <1>7. FrequencyOf(r) < RF_MID_BAND_THRESHOLD_HZ <=> v < RF_MID_BAND_THRESHOLD_HZ
    BY SMT, <1>6, FrequencyBand DEF n
  <1> QED
    BY SMT, <1>4, <1>6, <1>7, ShowsEach DEF RssiOffset

LEMMA BoostShown ==
    ASSUME NEW regs \in Registers, NEW v \in BOOLEAN
    PROVE  Shows(AppendTo(regs, LNA, IF v THEN 3 ELSE 0, 252), "boost", v)
  <1> DEFINE r == AppendTo(regs, LNA, IF v THEN 3 ELSE 0, 252)
  <1>1. r[LNA] = (regs[LNA] \cap (2..7)) \cup IF v THEN {0, 1} ELSE {}
    BY AddressesDistinct, Masks DEF AppendTo, Registers
  <1>2. {0, 1} \subseteq r[LNA] <=> v
    BY <1>1
  <1>3. ({0, 1} \subseteq r[LNA]) = v
    BY <1>2
  <1> HIDE DEF r
  <1>4. Shows(r, "boost", v)
    BY <1>3, ShowsEach
  <1> QED
    BY <1>4 DEF r

LEMMA GainShown ==
    ASSUME NEW regs \in Registers, NEW v \in 0..6,
           NEW r, r = GainStages(regs, v)[Len(GainStages(regs, v))]
    PROVE  Shows(r, "gain", v)
  <1> DEFINE manual == AppendTo(regs, MODEM_CONFIG_3, 0, 251)
  <1>1. CASE v = 0
    <2>1. r = AppendTo(regs, MODEM_CONFIG_3, 4, 251)
      BY <1>1 DEF GainStages
    <2>2. 2 \in r[MODEM_CONFIG_3]
      BY <2>1, AddressesDistinct, Masks DEF AppendTo, Registers
    <2> QED
      BY <1>1, <2>2, ShowsEach DEF GainOf
  <1>2. CASE v # 0
    <2>1. r = AppendTo(manual, LNA, v * 32, 31)
      BY <1>2 DEF GainStages
    <2>2. 2 \notin manual[MODEM_CONFIG_3] /\ manual \in Registers
      BY AddressesDistinct, Masks, BitsOfRegister DEF AppendTo, Registers
    <2> HIDE DEF manual
    <2>3. /\ r[MODEM_CONFIG_3] = manual[MODEM_CONFIG_3]
          /\ r[LNA] = (manual[LNA] \cap Bits(31)) \cup Bits(v * 32)
      BY <2>1, <2>2, AddressesDistinct DEF AppendTo, Registers
    <2>4. Number(r[LNA]) \div 32 = v
      BY <2>3, GainValue
    <2> QED
      BY <2>2, <2>3, <2>4, ShowsEach DEF GainOf
  <1> QED
    BY <1>1, <1>2

LEMMA ReloadOthers ==
    ASSUME NEW regs \in Registers, NEW a \in Addresses, a # MODEM_CONFIG_3
    PROVE  Reload(regs)[a] = regs[a]
  BY AddressesDistinct DEF Reload, AppendTo, Registers

LEMMA BandwidthShown ==
    ASSUME NEW regs \in Registers, NEW v \in 0..9,
           NEW r, r = BandwidthStages(regs, v)[Len(BandwidthStages(regs, v))]
    PROVE  Shows(r, "bandwidth", v)
  <1> DEFINE set == AppendTo(regs, MODEM_CONFIG_1, v * 16, 15)
  <1>1. r = Reload(set)
    BY DEF BandwidthStages
  <1>2. /\ set \in Registers
        /\ set[MODEM_CONFIG_1] = (regs[MODEM_CONFIG_1] \cap Bits(15)) \cup Bits(v * 16)
    BY AddressesDistinct, BitsOfRegister DEF AppendTo, Registers
  <1> HIDE DEF set
  <1>3. r[MODEM_CONFIG_1] = set[MODEM_CONFIG_1]
    BY <1>1, <1>2, ReloadOthers, AddressesDistinct
  <1>4. UpperNibble((regs[MODEM_CONFIG_1] \cap Bits(15)) \cup Bits(v * 16)) = v
    BY v \in 0..15, NibbleValue
  <1>5. UpperNibble(r[MODEM_CONFIG_1]) = v
    BY Zenon, <1>2, <1>3, <1>4
  <1> QED
    BY <1>5, ShowsEach

LEMMA HeaderShown ==
    ASSUME NEW regs \in Registers, NEW v
    PROVE  Shows(AppendTo(regs, MODEM_CONFIG_1, 0, 254), "header", v)
  <1> DEFINE r == AppendTo(regs, MODEM_CONFIG_1, 0, 254)
  <1>1. 0 \notin r[MODEM_CONFIG_1]
    BY AddressesDistinct, Masks DEF AppendTo, Registers
  <1> HIDE DEF r
  <1>2. Shows(r, "header", v)
    BY <1>1, ShowsEach
  <1> QED
    BY <1>2 DEF r

LEMMA WriteTyped ==
    ASSUME NEW s \in Registers, NEW a, NEW byte
    PROVE  Write(s, a, byte) \in Registers
  BY BitsOfRegister DEF Write, Registers

LEMMA WrittenValue ==
    ASSUME NEW s \in Registers, NEW a \in Addresses, NEW b \in Addresses, NEW byte
    PROVE  /\ Write(s, a, byte)[a] = Bits(byte)
           /\ b # a => Write(s, a, byte)[b] = s[b]
  BY DEF Write, Registers

LEMMA SpreadingFactorShown ==
    ASSUME NEW regs \in Registers, NEW v \in 7..12,
           NEW r, r = SpreadingFactorStages(regs, v)[Len(SpreadingFactorStages(regs, v))]
    PROVE  Shows(r, "sf", v)
  <1> DEFINE threshold == Write(Write(regs, DETECT_OPTIMIZE, 195), DETECT_THRESHOLD, 10)
             set       == AppendTo(threshold, MODEM_CONFIG_2, v * 16, 15)
  <1>1. r = Reload(set)
    BY DEF SpreadingFactorStages
  <1>2. threshold \in Registers
    BY WriteTyped
  <1> HIDE DEF threshold
  <1>3. /\ set \in Registers
        /\ set[MODEM_CONFIG_2] = (threshold[MODEM_CONFIG_2] \cap Bits(15)) \cup Bits(v * 16)
    BY <1>2, AddressesDistinct, BitsOfRegister DEF AppendTo, Registers
  <1> HIDE DEF set
  <1>4. r[MODEM_CONFIG_2] = set[MODEM_CONFIG_2]
    BY <1>1, <1>3, ReloadOthers, AddressesDistinct
  <1>5. UpperNibble((threshold[MODEM_CONFIG_2] \cap Bits(15)) \cup Bits(v * 16)) = v
    BY v \in 0..15, NibbleValue
  <1>6. UpperNibble(r[MODEM_CONFIG_2]) = v
    BY Zenon, <1>3, <1>4, <1>5
  <1> QED
    BY <1>6, ShowsEach DEF SpreadingFactorOf

LEMMA SyncShown ==
    ASSUME NEW regs \in Registers, NEW v \in 0..255
    PROVE  Shows(Write(regs, SYNC_WORD, v), "sync", v)
  <1>1. Write(regs, SYNC_WORD, v)[SYNC_WORD] = Bits(v)
    BY AddressesDistinct DEF Write, Registers
  <1>2. Number(Write(regs, SYNC_WORD, v)[SYNC_WORD]) = v
    BY <1>1, ByteValue
  <1> QED
    BY <1>2, ShowsEach

LEMMA PreambleShown ==
    ASSUME NEW regs \in Registers, NEW v \in Nat, v < 65536,
           NEW r, PreambleStages(regs, v) = <<r>>
    PROVE  Shows(r, "preamble", v)
  <1>1. v \div 256 \in 0..255 /\ v % 256 \in 0..255 /\ (v \div 256) * 256 + (v % 256) = v
    BY SMT
  <1>2. r[PREAMBLE_MSB] = Bits(v \div 256) /\ r[PREAMBLE_MSB + 1] = Bits(v % 256)
    BY AddressesDistinct DEF PreambleStages, Registers
  <1>3. Number(r[PREAMBLE_MSB]) = v \div 256 /\ Number(r[PREAMBLE_MSB + 1]) = v % 256
    BY <1>1, <1>2, ByteValue
  <1>4. Number(r[PREAMBLE_MSB]) * 256 + Number(r[PREAMBLE_MSB + 1]) = v
    BY SMT, <1>1, <1>3
  <1> QED
    BY <1>4, ShowsEach

LEMMA PaRegisters ==
    ASSUME NEW regs \in Registers, NEW v, ~Refused("pa", v),
           NEW r, r = PaStages(regs, v)[Len(PaStages(regs, v))]
    PROVE  /\ PaAllowed(v) /\ PaConfigValue(v) # 0
           /\ r[PA_DAC] = Bits(IF v.pin = "BOOST" /\ v.power = 20 THEN 135 ELSE 132)
           /\ r[OCP] = Bits(OvercurrentProtection(v))
           /\ r[PA_CONFIG] = Bits(PaConfigValue(v))
  <1> DEFINE d == IF v.pin = "BOOST" /\ v.power = 20 THEN 135 ELSE 132
             dac == Write(regs, PA_DAC, d)
             ocp == Write(dac, OCP, OvercurrentProtection(v))
             config == Write(ocp, PA_CONFIG, PaConfigValue(v))
  <1>1. PaAllowed(v) /\ PaConfigValue(v) # 0
    BY DEF Refused
  <1>2. r = config
    BY <1>1 DEF PaStages
  <1>4. /\ PA_DAC \in Addresses /\ OCP \in Addresses /\ PA_CONFIG \in Addresses
        /\ PA_DAC # OCP /\ PA_DAC # PA_CONFIG /\ OCP # PA_CONFIG
    BY AddressesDistinct
  <1> HIDE DEF d
  <1>5. dac \in Registers /\ dac[PA_DAC] = Bits(d)
    BY <1>4, WriteTyped, WrittenValue
  <1> HIDE DEF dac
  <1>6. ocp \in Registers /\ ocp[PA_DAC] = Bits(d) /\ ocp[OCP] = Bits(OvercurrentProtection(v))
    BY <1>4, <1>5, WriteTyped, WrittenValue
  <1> HIDE DEF ocp
  <1>7. /\ config[PA_DAC] = Bits(d)
        /\ config[OCP] = Bits(OvercurrentProtection(v))
        /\ config[PA_CONFIG] = Bits(PaConfigValue(v))
    BY <1>4, <1>6, WrittenValue
  <1> QED
    BY <1>1, <1>2, <1>7 DEF d

LEMMA PaValues ==
    ASSUME NEW v, v.pin \in {"RFO", "BOOST"}, v.power \in Int,
           PaAllowed(v), PaConfigValue(v) # 0
    PROVE  /\ v.pin = "RFO" /\ v.power < 0 =>
                 PaConfigValue(v) = v.power + 4 /\ v.power \in -3..-1
           /\ v.pin = "RFO" /\ v.power >= 0 =>
                 PaConfigValue(v) = 112 + v.power /\ v.power \in 0..15
           /\ v.pin = "BOOST" /\ v.power = 20 => PaConfigValue(v) = 143
           /\ v.pin = "BOOST" /\ v.power # 20 =>
                 PaConfigValue(v) = 126 + v.power /\ v.power \in 2..19
           /\ PaConfigValue(v) \in 0..255
  <1>1. CASE v.pin = "RFO"
    BY <1>1 DEF PaAllowed, PaConfigValue
  <1>2. CASE v.pin = "BOOST" /\ v.power = 20
    BY <1>2 DEF PaAllowed, PaConfigValue
  <1>3. CASE v.pin = "BOOST" /\ v.power # 20
    BY <1>3 DEF PaAllowed, PaConfigValue
  <1> QED
    BY <1>1, <1>2, <1>3

LEMMA PaOfIs ==
    ASSUME NEW r, NEW output, output = Number(r[PA_CONFIG]) % 16
    PROVE  /\ 7 \in r[PA_CONFIG] /\ r[PA_DAC] = Bits(135) =>
                 PaOf(r) = [pin |-> "BOOST", power |-> output + 5]
           /\ 7 \in r[PA_CONFIG] /\ r[PA_DAC] # Bits(135) =>
                 PaOf(r) = [pin |-> "BOOST", power |-> output + 2]
           /\ 7 \notin r[PA_CONFIG] /\ 4 \in r[PA_CONFIG] =>
                 PaOf(r) = [pin |-> "RFO", power |-> output]
           /\ 7 \notin r[PA_CONFIG] /\ 4 \notin r[PA_CONFIG] =>
                 PaOf(r) = [pin |-> "RFO", power |-> output - 4]
  BY Zenon DEF PaOf

LEMMA PaArithmetic ==
    /\ \A c, p : c = p + 4 /\ p \in -3..-1 =>
          (c % 16) - 4 = p /\ (c \div 128) % 2 # 1 /\ (c \div 16) % 2 # 1
    /\ \A c, p : c = 112 + p /\ p \in 0..15 =>
          c % 16 = p /\ (c \div 128) % 2 # 1 /\ (c \div 16) % 2 = 1
    /\ \A c, p : c = 126 + p /\ p \in 2..19 =>
          /\ (c \div 128) % 2 = 1
          /\ (c % 16) + 2 = IF p \in {18, 19} THEN p - 16 ELSE p
  BY SMT

LEMMA PaShown ==
    ASSUME NEW regs \in Registers, NEW v \in [pin : {"RFO", "BOOST"}, power : Int],
           ~Refused("pa", v), NEW r, r = PaStages(regs, v)[Len(PaStages(regs, v))]
    PROVE  Shows(r, "pa", v)
  <1> DEFINE c == PaConfigValue(v)
             output == Number(r[PA_CONFIG]) % 16
  <1>1. /\ PaAllowed(v) /\ c # 0
        /\ r[PA_DAC] = Bits(IF v.pin = "BOOST" /\ v.power = 20 THEN 135 ELSE 132)
        /\ r[PA_CONFIG] = Bits(c)
    BY PaRegisters
  <1>2. v = [pin |-> v.pin, power |-> v.power]
    OBVIOUS
  <1>3. v.pin \in {"RFO", "BOOST"} /\ v.power \in Int
    OBVIOUS
  <1>4. /\ c \in 0..255
        /\ v.pin = "RFO" /\ v.power < 0 => c = v.power + 4 /\ v.power \in -3..-1
        /\ v.pin = "RFO" /\ v.power >= 0 => c = 112 + v.power /\ v.power \in 0..15
        /\ v.pin = "BOOST" /\ v.power = 20 => c = 143
        /\ v.pin = "BOOST" /\ v.power # 20 => c = 126 + v.power /\ v.power \in 2..19
    BY <1>1, <1>3, PaValues
  <1>5. /\ 7 \in r[PA_CONFIG] <=> (c \div 128) % 2 = 1
        /\ 4 \in r[PA_CONFIG] <=> (c \div 16) % 2 = 1
    BY <1>1 DEF Bits, PowersOf2
  <1> HIDE DEF c
  <1>6. output = c % 16
    <2>1. c \in 0..255
      BY Zenon, <1>4
    <2>2. Number(Bits(c)) = c
      BY Zenon, <2>1, ByteValue
    <2> QED
      BY Zenon, <1>1, <2>2
  <1> HIDE DEF output
  <1>7. /\ 7 \in r[PA_CONFIG] /\ r[PA_DAC] = Bits(135) =>
              PaOf(r) = [pin |-> "BOOST", power |-> output + 5]
        /\ 7 \in r[PA_CONFIG] /\ r[PA_DAC] # Bits(135) =>
              PaOf(r) = [pin |-> "BOOST", power |-> output + 2]
        /\ 7 \notin r[PA_CONFIG] /\ 4 \in r[PA_CONFIG] =>
              PaOf(r) = [pin |-> "RFO", power |-> output]
        /\ 7 \notin r[PA_CONFIG] /\ 4 \notin r[PA_CONFIG] =>
              PaOf(r) = [pin |-> "RFO", power |-> output - 4]
    BY PaOfIs DEF output
  <1> DEFINE given == IF v.pin = "BOOST" /\ v.power \in {18, 19} THEN v.power - 16
                                                                ELSE v.power
  <1>8. PaOf(r) = [pin |-> v.pin, power |-> given]
    <2>1. CASE v.pin = "RFO" /\ v.power < 0
      <3>1. output - 4 = v.power /\ 7 \notin r[PA_CONFIG] /\ 4 \notin r[PA_CONFIG]
        <4>1. c = v.power + 4 /\ v.power \in -3..-1
          BY Zenon, <1>4, <2>1
        <4>2. (c % 16) - 4 = v.power /\ (c \div 128) % 2 # 1 /\ (c \div 16) % 2 # 1
          BY <4>1, PaArithmetic
        <4> QED
          BY Zenon, <1>5, <1>6, <4>2
      <3>2. given = v.power
        BY Zenon, <2>1, "RFO" # "BOOST"
      <3> QED
        BY Zenon, <1>7, <2>1, <3>1, <3>2
    <2>2. CASE v.pin = "RFO" /\ v.power >= 0
      <3>1. output = v.power /\ 7 \notin r[PA_CONFIG] /\ 4 \in r[PA_CONFIG]
        <4>1. c = 112 + v.power /\ v.power \in 0..15
          BY Zenon, <1>4, <2>2
        <4>2. c % 16 = v.power /\ (c \div 128) % 2 # 1 /\ (c \div 16) % 2 = 1
          BY <4>1, PaArithmetic
        <4> QED
          BY Zenon, <1>5, <1>6, <4>2
      <3>2. given = v.power
        BY Zenon, <2>2, "RFO" # "BOOST"
      <3> QED
        BY Zenon, <1>7, <2>2, <3>1, <3>2
    <2>3. CASE v.pin = "BOOST" /\ v.power = 20
      <3>1. output + 5 = given /\ 7 \in r[PA_CONFIG] /\ r[PA_DAC] = Bits(135)
        BY SMT, <1>1, <1>4, <1>5, <1>6, <2>3
      <3> QED
        BY Zenon, <1>7, <2>3, <3>1
    <2>4. CASE v.pin = "BOOST" /\ v.power # 20
      <3>1. c = 126 + v.power /\ v.power \in 2..19
        BY Zenon, <1>4, <2>4
      <3>2. output + 2 = given
        BY <1>6, <2>4, <3>1, PaArithmetic
      <3>3. 7 \in r[PA_CONFIG]
        BY Zenon, <1>5, <3>1, PaArithmetic
      <3>4. 0 \in Bits(135) /\ 0 \notin Bits(132)
        BY SMT, Masks
      <3>5. r[PA_DAC] # Bits(135)
        BY Zenon, <1>1, <2>4, <3>4
      <3> QED
        BY Zenon, <1>7, <2>4, <3>2, <3>3, <3>5
    <2> QED
      BY <1>3, <2>1, <2>2, <2>3, <2>4
  <1>9. PaGiven(v) = [pin |-> v.pin, power |-> given]
    BY <1>2 DEF PaGiven
  <1>10. PaOf(r) = PaGiven(v)
    BY Zenon, <1>8, <1>9
  <1> QED
    BY <1>10, ShowsEach

LimitFor(regs, pa) ==
    IF pa.pin = "BOOST" THEN CurrentLimit(regs) \in 1..MaxCurrent(pa)
                        ELSE CurrentLimit(regs) = 0

LEMMA LimitShown ==
    ASSUME NEW regs \in Registers, NEW v \in [pin : {"RFO", "BOOST"}, power : Int],
           ~Refused("pa", v), NEW r, r = PaStages(regs, v)[Len(PaStages(regs, v))]
    PROVE  LimitFor(r, v)
  <1> DEFINE o == OvercurrentProtection(v)
  <1>1. r[OCP] = Bits(o)
    BY PaRegisters
  <1>2. o = IF v.pin = "BOOST" THEN IF v.power = 20 THEN 47 ELSE 40
                               ELSE IF v.power > 7 THEN 29 ELSE 27
    BY DEF OvercurrentProtection, MaxCurrent, Quotient
  <1>3. 5 \in r[OCP] <=> (o \div 32) % 2 = 1
    BY <1>1 DEF Bits, PowersOf2
  <1> HIDE DEF o
  <1>4. Number(r[OCP]) = o
    <2>1. o \in 0..255
      BY <1>2
    <2> QED
      BY <1>1, <2>1, ByteValue
  <1>5. CurrentLimit(r) = IF v.pin = "BOOST" THEN IF v.power = 20 THEN 120 ELSE 85 ELSE 0
    BY <1>2, <1>3, <1>4 DEF CurrentLimit
  <1> QED
    BY <1>5 DEF LimitFor, MaxCurrent

LEMMA LimitKept ==
    ASSUME NEW r, NEW s, r[OCP] = s[OCP], NEW pa, LimitFor(s, pa)
    PROVE  LimitFor(r, pa)
  BY DEF LimitFor, CurrentLimit

-----------------------------------------------------------------------------
(* The optimization for low data rates.                                    *)

LEMMA Durations ==
    ASSUME NEW b \in Nat, b >= 4096, NEW p \in {128, 256, 512, 1024, 2048, 4096}
    PROVE  /\ b \div p \in Nat /\ b \div p # 0
           /\ p * 1000 >= 17 * b => ~(1000 \div (b \div p) <= 16)
  <1>1. \A q \in 1..58 : ~(1000 \div q <= 16)
    BY SMT
  <1>2. b \div p \in Nat /\ b \div p # 0
    BY SMT
  <1>3. ASSUME p * 1000 >= 17 * b PROVE b \div p <= 58
    BY SMT, <1>3
  <1> QED
    BY <1>1, <1>2, <1>3

LEMMA BandwidthsAndPowers ==
    /\ \A i \in 0..9 : Bandwidths[i + 1] \in Nat /\ Bandwidths[i + 1] >= 4096
    /\ \A i \in 7..12 : PowersOf2[i + 1] \in {128, 256, 512, 1024, 2048, 4096}
  BY SMT DEF Bandwidths, PowersOf2

Optimized(regs, bandwidth, sf) ==
    PowersOf2[sf + 1] * 1000 >= 17 * Bandwidths[bandwidth + 1] => 3 \in regs[MODEM_CONFIG_3]

LEMMA ReloadSets ==
    ASSUME NEW regs \in Registers, NEW bandwidth \in 0..9, NEW sf \in 7..12,
           UpperNibble(regs[MODEM_CONFIG_1]) = bandwidth, SpreadingFactorOf(regs) = sf,
           PowersOf2[sf + 1] * 1000 >= 17 * Bandwidths[bandwidth + 1]
    PROVE  3 \in Reload(regs)[MODEM_CONFIG_3]
  <1> DEFINE b == Bandwidths[bandwidth + 1]
             p == PowersOf2[sf + 1]
  <1>1. b \in Nat /\ b >= 4096 /\ p \in {128, 256, 512, 1024, 2048, 4096}
    BY BandwidthsAndPowers
  <1>2. BandwidthOf(regs) = b /\ SymbolDuration(regs) = 1000 \div (b \div p)
    BY DEF BandwidthOf, SymbolDuration
  <1> HIDE DEF b, p
  <1>3. ~(SymbolDuration(regs) <= 16)
    <2>1. p * 1000 >= 17 * b
      BY DEF b, p
    <2> QED
      BY <1>1, <1>2, <2>1, Durations
  <1>4. Reload(regs) = AppendTo(regs, MODEM_CONFIG_3, 8, 247)
    BY <1>3 DEF Reload, OptimizationBits
  <1>5. 3 \in AppendTo(regs, MODEM_CONFIG_3, 8, 247)[MODEM_CONFIG_3]
    BY AddressesDistinct, Masks DEF AppendTo, Registers
  <1> QED
    BY <1>4, <1>5

-----------------------------------------------------------------------------
(* A call that gives OK.                                                   *)

LEMMA StagesLength ==
    ASSUME NEW regs \in Registers, NEW name \in AllNames, NEW s \in SettingsRange,
           ~Refused(name, s[name])
    PROVE  Len(Stages(regs, name, s[name])) \in 1..4
  <1>1. CASE name = "frequency"
    BY <1>1, StagesOf DEF FrequencyStages
  <1>2. CASE name = "boost"
    BY <1>2, BoostStagesOf
  <1>3. CASE name = "gain"
    <2> DEFINE manual == AppendTo(regs, MODEM_CONFIG_3, 0, 251)
               auto == AppendTo(regs, MODEM_CONFIG_3, 4, 251)
               set == AppendTo(manual, LNA, s["gain"] * 32, 31)
    <2>1. GainStages(regs, s["gain"]) = <<auto>> \/ GainStages(regs, s["gain"]) = <<manual, set>>
      BY DEF GainStages
    <2> HIDE DEF manual, auto, set
    <2> QED
      BY <1>3, <2>1, StagesOf
  <1>4. CASE name = "bandwidth"
    BY <1>4, StagesOf DEF BandwidthStages
  <1>5. CASE name = "header"
    BY <1>5, StagesOf
  <1>6. CASE name = "sf"
    <2> DEFINE optimize  == Write(regs, DETECT_OPTIMIZE, 195)
               threshold == Write(optimize, DETECT_THRESHOLD, 10)
               set       == AppendTo(threshold, MODEM_CONFIG_2, s["sf"] * 16, 15)
    <2>1. s["sf"] # 6
      BY <1>6 DEF Refused
    <2>2. SpreadingFactorStages(regs, s["sf"]) = <<optimize, threshold, set, Reload(set)>>
      BY <2>1 DEF SpreadingFactorStages
    <2> HIDE DEF optimize, threshold, set
    <2> QED
      BY <1>6, <2>2, StagesOf
  <1>7. CASE name = "sync"
    BY <1>7, StagesOf
  <1>8. CASE name = "preamble"
    BY <1>8, StagesOf DEF PreambleStages
  <1>9. CASE name = "pa"
    <2> DEFINE v == s["pa"]
               dac == Write(regs, PA_DAC, IF v.pin = "BOOST" /\ v.power = 20 THEN 135 ELSE 132)
               ocp == Write(dac, OCP, OvercurrentProtection(v))
               config == Write(ocp, PA_CONFIG, PaConfigValue(v))
    <2>1. PaAllowed(v) /\ PaConfigValue(v) # 0
      BY <1>9 DEF Refused
    <2>2. PaStages(regs, v) = <<dac, ocp, config>>
      BY <2>1 DEF PaStages
    <2> HIDE DEF dac, ocp, config
    <2> QED
      BY <1>9, <2>2, StagesOf
  <1> QED
    BY <1>1, <1>2, <1>3, <1>4, <1>5, <1>6, <1>7, <1>8, <1>9, NamesAre

LEMMA LastIsPartway ==
    ASSUME NEW regs, NEW stages, Len(stages) \in 1..4
    PROVE  stages[Len(stages)] \in Partway(regs, stages)
  BY DEF Partway

LEMMA LastOfOne ==
    ASSUME NEW a
    PROVE  <<a>>[Len(<<a>>)] = a
  OBVIOUS

\* A call that gives OK leaves the registers as it was asked.
LEMMA CallShows ==
    ASSUME NEW regs \in Registers, NEW name \in AllNames, NEW s \in SettingsRange,
           ~Refused(name, s[name]),
           NEW r, r = Stages(regs, name, s[name])[Len(Stages(regs, name, s[name]))]
    PROVE  Shows(r, name, s[name])
  <1>1. CASE name = "frequency"
    <2>1. FrequencyStages(regs, s["frequency"]) = <<r>>
      BY <1>1, StagesOf DEF FrequencyStages
    <2> QED
      BY <1>1, <2>1, FrequencyShown, LargeFields
  <1>2. CASE name = "boost"
    <2>1. r = AppendTo(regs, LNA, IF s["boost"] THEN 3 ELSE 0, 252)
      BY <1>2, BoostStagesOf
    <2> QED
      BY <1>2, <2>1, BoostShown, SmallFields
  <1>3. CASE name = "gain"
    <2>1. r = GainStages(regs, s["gain"])[Len(GainStages(regs, s["gain"]))]
      <3>1. Stages(regs, "gain", s["gain"]) = GainStages(regs, s["gain"])
        BY Zenon, StagesOf
      <3> QED
        BY Zenon, <1>3, <3>1
    <2> QED
      BY <1>3, <2>1, GainShown, SmallFields
  <1>4. CASE name = "bandwidth"
    <2>1. r = BandwidthStages(regs, s["bandwidth"])[Len(BandwidthStages(regs, s["bandwidth"]))]
      <3>1. Stages(regs, "bandwidth", s["bandwidth"]) = BandwidthStages(regs, s["bandwidth"])
        BY Zenon, StagesOf
      <3> QED
        BY Zenon, <1>4, <3>1
    <2> QED
      BY <1>4, <2>1, BandwidthShown, SmallFields
  <1>5. CASE name = "header"
    <2>1. Stages(regs, "header", s["header"]) = <<AppendTo(regs, MODEM_CONFIG_1, 0, 254)>>
      BY Zenon, StagesOf
    <2>2. r = AppendTo(regs, MODEM_CONFIG_1, 0, 254)
      BY Zenon, <1>5, <2>1, LastOfOne
    <2> QED
      BY <1>5, <2>2, HeaderShown
  <1>6. CASE name = "sf"
    <2>1. s["sf"] \in 7..12
      BY <1>6, SmallFields DEF Refused
    <2>2. r = SpreadingFactorStages(regs, s["sf"])[Len(SpreadingFactorStages(regs, s["sf"]))]
      <3>1. Stages(regs, "sf", s["sf"]) = SpreadingFactorStages(regs, s["sf"])
        BY Zenon, StagesOf
      <3> QED
        BY Zenon, <1>6, <3>1
    <2> QED
      BY <1>6, <2>1, <2>2, SpreadingFactorShown
  <1>7. CASE name = "sync"
    <2>1. Stages(regs, "sync", s["sync"]) = <<Write(regs, SYNC_WORD, s["sync"])>>
      BY Zenon, StagesOf
    <2>2. r = Write(regs, SYNC_WORD, s["sync"])
      BY Zenon, <1>7, <2>1, LastOfOne
    <2> QED
      BY <1>7, <2>2, SyncShown, SmallFields
  <1>8. CASE name = "preamble"
    <2>1. PreambleStages(regs, s["preamble"]) = <<r>>
      <3>1. Stages(regs, "preamble", s["preamble"]) = PreambleStages(regs, s["preamble"])
        BY Zenon, StagesOf
      <3>2. PICK set : PreambleStages(regs, s["preamble"]) = <<set>>
        BY DEF PreambleStages
      <3> QED
        BY Zenon, <1>8, <3>1, <3>2, LastOfOne
    <2> QED
      BY <1>8, <2>1, PreambleShown, LargeFields
  <1>9. CASE name = "pa"
    <2>1. r = PaStages(regs, s["pa"])[Len(PaStages(regs, s["pa"]))]
      <3>1. Stages(regs, "pa", s["pa"]) = PaStages(regs, s["pa"])
        BY Zenon, StagesOf
      <3> QED
        BY Zenon, <1>9, <3>1
    <2> QED
      BY <1>9, <2>1, PaShown, SmallFields
  <1> QED
    BY <1>1, <1>2, <1>3, <1>4, <1>5, <1>6, <1>7, <1>8, <1>9, NamesAre

-----------------------------------------------------------------------------
(* The upper nibbles that the code divides by.                             *)

Nibbles(regs) ==
    /\ UpperNibble(regs[MODEM_CONFIG_1]) \in 0..9
    /\ SpreadingFactorOf(regs) \in 7..12

LEMMA NibbleKept ==
    ASSUME NEW r \in Registers, NEW s \in Registers
    PROVE  /\ SameIn(r, s, "bandwidth") =>
                 UpperNibble(r[MODEM_CONFIG_1]) = UpperNibble(s[MODEM_CONFIG_1])
           /\ SameIn(r, s, "sf") => SpreadingFactorOf(r) = SpreadingFactorOf(s)
  <1>1. ASSUME SameIn(r, s, "bandwidth")
        PROVE  UpperNibble(r[MODEM_CONFIG_1]) = UpperNibble(s[MODEM_CONFIG_1])
    <2>1. r[MODEM_CONFIG_1] \cap (4..7) = s[MODEM_CONFIG_1] \cap (4..7)
      BY <1>1, AddressesDistinct DEF SameIn, Field
    <2> QED
      BY <2>1, UpperPart
  <1>2. ASSUME SameIn(r, s, "sf")
        PROVE  SpreadingFactorOf(r) = SpreadingFactorOf(s)
    <2>1. r[MODEM_CONFIG_2] \cap (4..7) = s[MODEM_CONFIG_2] \cap (4..7)
      BY <1>2, AddressesDistinct DEF SameIn, Field
    <2> QED
      BY <2>1, UpperPart DEF SpreadingFactorOf
  <1> QED
    BY <1>1, <1>2

\* Wherever a call ends, the nibbles are those of a bandwidth and of a spreading factor.
LEMMA CallNibbles ==
    ASSUME NEW regs \in Registers, Nibbles(regs),
           NEW name \in AllNames, NEW s \in SettingsRange,
           NEW r \in Partway(regs, Stages(regs, name, s[name]))
    PROVE  Nibbles(r)
  <1>1. Keeps(r, regs, name)
    BY StagesKeep
  <1>2. r \in Registers /\ SameOutside(r, regs, name)
    BY <1>1 DEF Keeps
  <1>3. /\ name # "bandwidth" => SameIn(r, regs, "bandwidth")
        /\ name # "sf" => SameIn(r, regs, "sf")
    BY <1>2, SameOutsideIsSameIn, NamesAre
  <1>4. /\ name # "bandwidth" => UpperNibble(r[MODEM_CONFIG_1]) = UpperNibble(regs[MODEM_CONFIG_1])
        /\ name # "sf" => SpreadingFactorOf(r) = SpreadingFactorOf(regs)
    BY <1>2, <1>3, NibbleKept
  <1>5. ASSUME name = "bandwidth" PROVE UpperNibble(r[MODEM_CONFIG_1]) \in 0..9
    <2> DEFINE v == s["bandwidth"]
               set == AppendTo(regs, MODEM_CONFIG_1, v * 16, 15)
    <2>1. v \in 0..9
      BY SmallFields
    <2>2. set \in Registers /\ set[MODEM_CONFIG_1] = (regs[MODEM_CONFIG_1] \cap Bits(15)) \cup Bits(v * 16)
      BY AddressesDistinct, BitsOfRegister DEF AppendTo, Registers
    <2>3. Stages(regs, "bandwidth", v) = <<set, Reload(set)>>
      BY Zenon, StagesOf DEF BandwidthStages
    <2> HIDE DEF set, v
    <2>4. r \in {regs, set, Reload(set)}
      BY <1>5, <2>3, PartwayTwo DEF v
    <2>5. UpperNibble((regs[MODEM_CONFIG_1] \cap Bits(15)) \cup Bits(v * 16)) = v
      BY <2>1, v \in 0..15, NibbleValue
    <2>6. UpperNibble(set[MODEM_CONFIG_1]) = v
      BY Zenon, <2>2, <2>5
    <2>7. Reload(set)[MODEM_CONFIG_1] = set[MODEM_CONFIG_1]
      BY <2>2, ReloadOthers, AddressesDistinct
    <2>8. UpperNibble(r[MODEM_CONFIG_1]) \in {UpperNibble(regs[MODEM_CONFIG_1]), v}
      BY Zenon, <2>4, <2>6, <2>7
    <2> QED
      BY <2>1, <2>8 DEF Nibbles
  <1>6. ASSUME name = "sf" PROVE SpreadingFactorOf(r) \in 7..12
    <2> DEFINE v         == s["sf"]
               optimize  == Write(regs, DETECT_OPTIMIZE, 195)
               threshold == Write(optimize, DETECT_THRESHOLD, 10)
               set       == AppendTo(threshold, MODEM_CONFIG_2, v * 16, 15)
    <2>1. v \in 6..12
      BY SmallFields
    <2>2. /\ {DETECT_OPTIMIZE, DETECT_THRESHOLD, MODEM_CONFIG_2} \subseteq Addresses
          /\ MODEM_CONFIG_2 \notin {DETECT_OPTIMIZE, DETECT_THRESHOLD, MODEM_CONFIG_3}
      BY AddressesDistinct
    <2>3. Stages(regs, "sf", v) = IF v = 6 THEN <<>> ELSE <<optimize, threshold, set, Reload(set)>>
      <3>1. Stages(regs, "sf", v) = SpreadingFactorStages(regs, v)
        BY Zenon, StagesOf
      <3> QED
        BY <3>1 DEF SpreadingFactorStages
    <2>4. optimize \in Registers /\ optimize[MODEM_CONFIG_2] = regs[MODEM_CONFIG_2]
      BY <2>2, WriteTyped, WrittenValue
    <2> HIDE DEF optimize
    <2>5. threshold \in Registers /\ threshold[MODEM_CONFIG_2] = regs[MODEM_CONFIG_2]
      BY <2>2, <2>4, WriteTyped, WrittenValue
    <2> HIDE DEF threshold
    <2>6. set \in Registers /\ set[MODEM_CONFIG_2] = (threshold[MODEM_CONFIG_2] \cap Bits(15)) \cup Bits(v * 16)
      BY <2>2, <2>5, BitsOfRegister DEF AppendTo, Registers
    <2> HIDE DEF set, v
    <2>7. r \in {regs, optimize, threshold, set, Reload(set)} /\ (v = 6 => r = regs)
      BY <1>6, <2>3, PartwayNone, PartwayFour DEF v
    <2>8. UpperNibble((threshold[MODEM_CONFIG_2] \cap Bits(15)) \cup Bits(v * 16)) = v
      BY <2>1, v \in 0..15, NibbleValue
    <2>9. UpperNibble(set[MODEM_CONFIG_2]) = v
      BY Zenon, <2>6, <2>8
    <2>10. Reload(set)[MODEM_CONFIG_2] = set[MODEM_CONFIG_2]
      BY <2>2, <2>6, ReloadOthers
    <2>11. SpreadingFactorOf(r) \in {SpreadingFactorOf(regs), v}
      BY Zenon, <2>4, <2>5, <2>7, <2>9, <2>10 DEF SpreadingFactorOf
    <2>12. v = 6 => SpreadingFactorOf(r) = SpreadingFactorOf(regs)
      BY Zenon, <2>7
    <2> QED
      BY <2>1, <2>11, <2>12 DEF Nibbles
  <1> QED
    BY <1>4, <1>5, <1>6 DEF Nibbles

\* A call of either setting that decides the symbols' duration, when it gives OK, has
\* looked at the duration that it leaves.
LEMMA CallOptimizes ==
    ASSUME NEW regs \in Registers, NEW name \in {"bandwidth", "sf"}, NEW s \in SettingsRange,
           ~Refused(name, s[name]),
           NEW r, r = Stages(regs, name, s[name])[Len(Stages(regs, name, s[name]))],
           NEW bandwidth \in 0..9, NEW sf \in 7..12,
           UpperNibble(r[MODEM_CONFIG_1]) = bandwidth, SpreadingFactorOf(r) = sf
    PROVE  Optimized(r, bandwidth, sf)
  <1>1. PICK set \in Registers : r = Reload(set)
    <2>1. CASE name = "bandwidth"
      <3> DEFINE set == AppendTo(regs, MODEM_CONFIG_1, s["bandwidth"] * 16, 15)
      <3>1. Stages(regs, "bandwidth", s["bandwidth"]) = <<set, Reload(set)>>
        BY Zenon, StagesOf DEF BandwidthStages
      <3>2. set \in Registers
        BY BitsOfRegister DEF AppendTo, Registers
      <3> HIDE DEF set
      <3>3. r = Reload(set)
        <4> DEFINE stages == Stages(regs, "bandwidth", s["bandwidth"])
        <4>1. r = stages[Len(stages)]
          BY Zenon, <2>1
        <4> HIDE DEF stages
        <4>2. r = <<set, Reload(set)>>[Len(<<set, Reload(set)>>)]
          BY Zenon, <3>1, <4>1 DEF stages
        <4> QED
          BY <4>2
      <3> QED
        BY <3>2, <3>3
    <2>2. CASE name = "sf"
      <3> DEFINE optimize  == Write(regs, DETECT_OPTIMIZE, 195)
                 threshold == Write(optimize, DETECT_THRESHOLD, 10)
                 set       == AppendTo(threshold, MODEM_CONFIG_2, s["sf"] * 16, 15)
      <3>1. Stages(regs, "sf", s["sf"]) = <<optimize, threshold, set, Reload(set)>>
        <4>1. s["sf"] # 6
          BY <2>2 DEF Refused
        <4>2. Stages(regs, "sf", s["sf"]) = SpreadingFactorStages(regs, s["sf"])
          BY Zenon, StagesOf
        <4> QED
          BY <4>1, <4>2 DEF SpreadingFactorStages
      <3>2. threshold \in Registers
        BY WriteTyped
      <3> HIDE DEF optimize, threshold
      <3>3. set \in Registers
        BY <3>2, BitsOfRegister DEF AppendTo, Registers
      <3> HIDE DEF set
      <3>4. r = Reload(set)
        <4> DEFINE stages == Stages(regs, "sf", s["sf"])
                   four == <<optimize, threshold, set, Reload(set)>>
        <4>1. r = stages[Len(stages)]
          BY Zenon, <2>2
        <4> HIDE DEF stages
        <4>2. r = four[Len(four)]
          BY Zenon, <3>1, <4>1 DEF stages
        <4> QED
          BY <4>2
      <3> QED
        BY <3>3, <3>4
    <2> QED
      BY <2>1, <2>2
  <1>2. /\ r[MODEM_CONFIG_1] = set[MODEM_CONFIG_1]
        /\ r[MODEM_CONFIG_2] = set[MODEM_CONFIG_2]
    BY <1>1, ReloadOthers, AddressesDistinct
  <1>3. UpperNibble(set[MODEM_CONFIG_1]) = bandwidth /\ SpreadingFactorOf(set) = sf
    BY Zenon, <1>2 DEF SpreadingFactorOf
  <1> QED
    BY <1>1, <1>3, ReloadSets DEF Optimized

-----------------------------------------------------------------------------
(* The invariant.                                                          *)

SettingsInv == SettingsTypeOK /\ SettingsTakeEffect /\ LowDataRateWhenNeeded /\ CurrentLimited

LEMMA NibblesDivide ==
    ASSUME NEW regs, Nibbles(regs)
    PROVE  BandwidthOf(regs) \div PowersOf2[SpreadingFactorOf(regs) + 1] # 0
  <1>1. /\ BandwidthOf(regs) \in Nat /\ BandwidthOf(regs) >= 4096
        /\ PowersOf2[SpreadingFactorOf(regs) + 1] \in {128, 256, 512, 1024, 2048, 4096}
    BY BandwidthsAndPowers DEF Nibbles, BandwidthOf
  <1> QED
    BY <1>1, Durations

LEMMA LowDataRateIs ==
    LowDataRateWhenNeeded <=>
       /\ Nibbles(registers)
       /\ UNKNOWN \notin {applied["bandwidth"], applied["sf"]} =>
             Optimized(registers, applied["bandwidth"], applied["sf"])
  BY Zenon, NibblesDivide DEF LowDataRateWhenNeeded, Nibbles, Optimized

LEMMA CurrentLimitedIs ==
    CurrentLimited <=> (applied["pa"] # UNKNOWN => LimitFor(registers, applied["pa"]))
  BY Zenon DEF CurrentLimited, LimitFor

LEMMA SetsEveryInv ==
    ASSUME SettingsInv, NEW name \in AllNames, NEW s \in SettingsRange, NEW ok \in BOOLEAN,
           Make(name, s[name], ok)
    PROVE  /\ registers' \in [Addresses -> SUBSET (0..7)]
           /\ DOMAIN applied' = AllNames
           /\ SettingsTakeEffect'
           /\ LowDataRateWhenNeeded'
           /\ CurrentLimited'
  <1> DEFINE stages == Stages(registers, name, s[name])
  <1>1. registers \in Registers /\ DOMAIN applied = AllNames
    BY DEF SettingsInv, SettingsTypeOK, Registers
  <1>2. /\ ok => ~Refused(name, s[name]) /\ registers' = stages[Len(stages)]
        /\ ~ok => registers' \in Partway(registers, stages)
        /\ applied' = [applied EXCEPT ![name] = IF ok THEN s[name]
                                               ELSE IF stages = <<>> THEN @ ELSE UNKNOWN]
    BY Zenon DEF Make
  <1>3. DOMAIN applied' = AllNames
    BY <1>1, <1>2
  <1>4. \A n \in AllNames : n # name => applied'[n] = applied[n]
    BY <1>1, <1>2
  <1>5. applied'[name] = IF ok THEN s[name] ELSE IF stages = <<>> THEN applied[name] ELSE UNKNOWN
    BY <1>1, <1>2
  <1>6. ok => Len(stages) \in 1..4
    BY <1>1, <1>2, StagesLength
  <1> HIDE DEF stages
  <1>7. registers' \in Partway(registers, stages)
    BY <1>2, <1>6, LastIsPartway
  <1>8. Keeps(registers', registers, name)
    BY <1>1, <1>7, StagesKeep DEF stages
  <1>9. registers' \in Registers
    BY <1>8 DEF Keeps
  <1>10. \A n \in AllNames : n # name => SameIn(registers', registers, n)
    BY <1>1, <1>8, <1>9, SameOutsideIsSameIn DEF Keeps
  <1>11. ASSUME ~ok, applied'[name] # UNKNOWN
         PROVE  registers' = registers /\ applied'[name] = applied[name]
    <2>1. stages = <<>> /\ applied'[name] = applied[name]
      BY <1>5, <1>11
    <2> QED
      BY <1>7, <2>1, PartwayNone
  <1>12. SettingsTakeEffect'
    <2> SUFFICES ASSUME NEW n \in AllNames, applied'[n] # UNKNOWN
                 PROVE  Shows(registers', n, applied'[n])
      BY Zenon DEF SettingsTakeEffect
    <2>1. applied[n] # UNKNOWN => Shows(registers, n, applied[n])
      BY Zenon DEF SettingsInv, SettingsTakeEffect
    <2>2. CASE n # name
      BY Zenon, <1>1, <1>4, <1>9, <1>10, <2>1, <2>2, ShowsByField
    <2>3. CASE n = name /\ ok
      <3>1. applied'[n] = s[name]
        BY Zenon, <1>5, <2>3
      <3>2. Shows(registers', name, s[name])
        BY Zenon, <1>1, <1>2, <2>3, CallShows DEF stages
      <3> QED
        BY Zenon, <2>3, <3>1, <3>2
    <2>4. CASE n = name /\ ~ok
      BY Zenon, <1>11, <2>1, <2>4
    <2> QED
      BY Zenon, <2>2, <2>3, <2>4
  <1>13. LowDataRateWhenNeeded'
    <2>1. Nibbles(registers)
      BY LowDataRateIs DEF SettingsInv
    <2>2. Nibbles(registers')
      BY <1>1, <1>7, <2>1, CallNibbles DEF stages
    <2> DEFINE bandwidth == applied'["bandwidth"]
               sf == applied'["sf"]
    <2>3. ASSUME UNKNOWN \notin {bandwidth, sf}
          PROVE  Optimized(registers', bandwidth, sf)
      <3>1. "bandwidth" \in AllNames /\ "sf" \in AllNames
        BY NamesAre
      <3>2. UpperNibble(registers'[MODEM_CONFIG_1]) = bandwidth /\ SpreadingFactorOf(registers') = sf
        <4>1. Shows(registers', "bandwidth", bandwidth) /\ Shows(registers', "sf", sf)
          BY Zenon, <1>12, <2>3, <3>1 DEF SettingsTakeEffect
        <4> QED
          BY Zenon, <4>1, ShowsEach
      <3>3. bandwidth \in 0..9 /\ sf \in 7..12
        BY <2>2, <3>2 DEF Nibbles
      <3>4. CASE name \in {"bandwidth", "sf"} /\ ok
        <4>1. registers' = stages[Len(stages)] /\ ~Refused(name, s[name])
          BY <1>2, <3>4
        <4> HIDE DEF bandwidth, sf
        <4>2. registers' = Stages(registers, name, s[name])[Len(Stages(registers, name, s[name]))]
          BY Zenon, <4>1 DEF stages
        <4>3. name \in {"bandwidth", "sf"}
          BY Zenon, <3>4
        <4> QED
          BY Zenon, <1>1, <3>2, <3>3, <4>1, <4>2, <4>3, CallOptimizes
      <3>5. CASE ~(name \in {"bandwidth", "sf"} /\ ok)
        <4>1. bandwidth = applied["bandwidth"] /\ sf = applied["sf"]
          BY <1>4, <1>11, <2>3, <3>1, <3>5
        <4>2. Optimized(registers, bandwidth, sf)
          BY Zenon, <2>3, <4>1, LowDataRateIs DEF SettingsInv
        <4>3. 3 \in registers[MODEM_CONFIG_3] => 3 \in registers'[MODEM_CONFIG_3]
          BY <1>8 DEF Keeps
        <4> HIDE DEF bandwidth, sf
        <4> QED
          BY Zenon, <4>2, <4>3 DEF Optimized
      <3> QED
        BY <3>4, <3>5
    <2> HIDE DEF bandwidth, sf
    <2>4. /\ UpperNibble(registers'[MODEM_CONFIG_1]) \in 0..9
          /\ SpreadingFactorOf(registers') \in 7..12
      BY Zenon, <2>2 DEF Nibbles
    <2>5. BandwidthOf(registers') \div PowersOf2[SpreadingFactorOf(registers') + 1] # 0
      BY Zenon, <2>2, NibblesDivide
    <2> QED
      BY Zenon, <2>3, <2>4, <2>5 DEF LowDataRateWhenNeeded, Optimized, bandwidth, sf
  <1>14. CurrentLimited'
    <2> DEFINE pa == applied'["pa"]
    <2>1. "pa" \in AllNames
      BY NamesAre
    <2>2. ASSUME pa # UNKNOWN
          PROVE  LimitFor(registers', pa)
      <3>1. CASE name = "pa" /\ ok
        <4>1. pa = s["pa"] /\ ~Refused("pa", s["pa"])
          BY Zenon, <1>2, <1>5, <3>1
        <4>2. registers' = stages[Len(stages)]
          BY Zenon, <1>2, <3>1
        <4>3. stages = PaStages(registers, s["pa"])
          <5>1. Stages(registers, "pa", s["pa"]) = PaStages(registers, s["pa"])
            BY Zenon, StagesOf
          <5> QED
            BY Zenon, <3>1, <5>1 DEF stages
        <4>4. s["pa"] \in [pin : {"RFO", "BOOST"}, power : Int]
          BY SmallFields
        <4>5. registers' = PaStages(registers, s["pa"])[Len(PaStages(registers, s["pa"]))]
          BY Zenon, <4>2, <4>3
        <4> QED
          BY Zenon, <1>1, <4>1, <4>4, <4>5, LimitShown
      <3>2. CASE ~(name = "pa" /\ ok)
        <4>1. pa = applied["pa"]
          BY Zenon, <1>4, <1>11, <2>1, <2>2, <3>2
        <4>2. registers'[OCP] = registers[OCP]
          <5>1. registers' = registers \/ SameIn(registers', registers, "pa")
            BY Zenon, <1>10, <1>11, <2>1, <2>2, <3>2
          <5>2. ASSUME SameIn(registers', registers, "pa") PROVE registers'[OCP] = registers[OCP]
            <6>1. registers'[OCP] \cap (0..7) = registers[OCP] \cap (0..7)
              BY <5>2, AddressesDistinct DEF SameIn, Field
            <6>2. registers'[OCP] \subseteq 0..7 /\ registers[OCP] \subseteq 0..7
              BY <1>1, <1>9, AddressesDistinct DEF Registers
            <6> QED
              BY <6>1, <6>2, SameBits
          <5> QED
            BY <5>1, <5>2
        <4>3. LimitFor(registers, pa)
          BY Zenon, <2>2, <4>1, CurrentLimitedIs DEF SettingsInv
        <4> QED
          BY Zenon, <4>2, <4>3, LimitKept
      <3> QED
        BY <3>1, <3>2
    <2> HIDE DEF pa
    <2> QED
      BY Zenon, <2>2 DEF CurrentLimited, LimitFor, pa
  <1> QED
    BY Zenon, <1>3, <1>9, <1>12, <1>13, <1>14 DEF Registers

\* Init's accesses are to registers of no setting.
LEMMA ModemInitKeeps ==
    ASSUME NEW regs \in Registers, NEW r \in Partway(regs, InitStages(regs))
    PROVE  /\ r \in Registers
           /\ \A name \in AllNames : SameIn(r, regs, name)
           /\ r[MODEM_CONFIG_3] = regs[MODEM_CONFIG_3] /\ r[OCP] = regs[OCP]
  <1> DEFINE sleep == Write(regs, OP_MODE, 128)
             tx    == Write(sleep, FIFO_TX_BASE_ADDR, 0)
             rx    == Write(tx, FIFO_RX_BASE_ADDR, 0)
             last  == Write(rx, OP_MODE, 129)
             A     == {OP_MODE, FIFO_TX_BASE_ADDR, FIFO_RX_BASE_ADDR}
  <1>1. InitStages(regs) = <<sleep, tx, rx, last>>
    BY DEF InitStages
  <1>2. A \subseteq Addresses
    BY AddressesDistinct
  <1>3. sleep \in Registers /\ \A a \in Addresses \ A : sleep[a] = regs[a]
    BY <1>2, WriteTyped, WrittenValue
  <1> HIDE DEF sleep
  <1>4. tx \in Registers /\ \A a \in Addresses \ A : tx[a] = regs[a]
    BY <1>2, <1>3, WriteTyped, WrittenValue
  <1> HIDE DEF tx
  <1>5. rx \in Registers /\ \A a \in Addresses \ A : rx[a] = regs[a]
    BY <1>2, <1>4, WriteTyped, WrittenValue
  <1> HIDE DEF rx
  <1>6. last \in Registers /\ \A a \in Addresses \ A : last[a] = regs[a]
    BY <1>2, <1>5, WriteTyped, WrittenValue
  <1> HIDE DEF last
  <1>7. r \in {regs, sleep, tx, rx, last}
    BY <1>1, PartwayFour
  <1>8. r \in Registers /\ \A a \in Addresses \ A : r[a] = regs[a]
    BY <1>3, <1>4, <1>5, <1>6, <1>7
  <1>9. \A a \in A : \A name \in AllNames : Field(name, a) = {}
    BY AddressesDistinct, NamesAre DEF Field
  <1>10. MODEM_CONFIG_3 \in Addresses \ A /\ OCP \in Addresses \ A
    BY AddressesDistinct
  <1> HIDE DEF A
  <1> QED
    BY <1>8, <1>9, <1>10 DEF SameIn

LEMMA SettingsInitInv == SettingsInit => SettingsInv
  <1> SUFFICES ASSUME SettingsInit PROVE SettingsInv
    OBVIOUS
  <1>1. registers \in [Addresses -> SUBSET (0..7)]
    BY BitsOfRegister DEF SettingsInit, ResetValues
  <1>2. DOMAIN applied = AllNames /\ \A name \in AllNames : applied[name] = UNKNOWN
    BY DEF SettingsInit
  <1>3. SettingsTypeOK
    <2>1. underWay \in {NotUnderWay} \cup [next : 1..Len(Names), settings : Settings]
      BY Zenon DEF SettingsInit
    <2>2. initialised \in BOOLEAN /\ calls \in 0..MaxCalls
      <3>1. initialised = FALSE /\ calls = 0
        BY Zenon DEF SettingsInit
      <3>2. MaxCalls \in Nat
        BY Zenon, SettingsAssumption
      <3>3. calls \in 0..MaxCalls
        BY SMT, <3>1, <3>2
      <3> QED
        BY Zenon, <3>1, <3>3
    <2> QED
      BY Zenon, <1>1, <1>2, <2>1, <2>2 DEF SettingsTypeOK
  <1>4. registers[MODEM_CONFIG_1] = Bits(114) /\ registers[MODEM_CONFIG_2] = Bits(112)
    BY AddressesDistinct DEF SettingsInit, ResetValues
  <1>5. Number(Bits(114)) = 114 /\ Number(Bits(112)) = 112
    BY ByteValue
  <1>6. Nibbles(registers)
    BY <1>4, <1>5 DEF Nibbles, SpreadingFactorOf, UpperNibble
  <1>7. \A name \in {"bandwidth", "sf", "pa"} : applied[name] = UNKNOWN
    BY <1>2, NamesAre
  <1> QED
    BY <1>2, <1>3, <1>6, <1>7, LowDataRateIs, CurrentLimitedIs DEF SettingsInv, SettingsTakeEffect

LEMMA SettingsNextInv == SettingsInv /\ [SettingsNext]_settingsVars => SettingsInv'
  <1> SUFFICES ASSUME SettingsInv, [SettingsNext]_settingsVars PROVE SettingsInv'
    OBVIOUS
  <1> USE DEF SettingsTypeOK
  <1>1. CASE Rfm95Init
    <2>1. registers \in Registers /\ registers' \in Partway(registers, InitStages(registers))
      BY <1>1 DEF SettingsInv, Rfm95Init, Registers
    <2>2. /\ registers' \in Registers
          /\ \A name \in AllNames : SameIn(registers', registers, name)
          /\ registers'[MODEM_CONFIG_3] = registers[MODEM_CONFIG_3]
          /\ registers'[OCP] = registers[OCP]
      BY <2>1, ModemInitKeeps
    <2>3. applied' = applied /\ initialised' = TRUE /\ underWay' = underWay /\ calls' = calls
      BY <1>1 DEF Rfm95Init
    <2>4. SettingsTypeOK'
      BY <2>2, <2>3 DEF SettingsInv, Registers
    <2>5. SettingsTakeEffect'
      BY Zenon, <2>1, <2>2, <2>3, ShowsByField DEF SettingsInv, SettingsTakeEffect
    <2>6. Nibbles(registers')
      <3>1. "bandwidth" \in AllNames /\ "sf" \in AllNames
        BY NamesAre
      <3>2. /\ UpperNibble(registers'[MODEM_CONFIG_1]) = UpperNibble(registers[MODEM_CONFIG_1])
            /\ SpreadingFactorOf(registers') = SpreadingFactorOf(registers)
        BY Zenon, <2>1, <2>2, <3>1, NibbleKept
      <3> QED
        BY Zenon, <3>2, LowDataRateIs DEF SettingsInv, Nibbles
    <2>7. LowDataRateWhenNeeded'
      <3>1. UNKNOWN \notin {applied'["bandwidth"], applied'["sf"]} =>
              Optimized(registers', applied'["bandwidth"], applied'["sf"])
        BY Zenon, <2>2, <2>3, LowDataRateIs DEF SettingsInv, Optimized
      <3> QED
        BY Zenon, <2>6, <3>1, NibblesDivide DEF LowDataRateWhenNeeded, Nibbles, Optimized
    <2>8. CurrentLimited'
      <3>1. applied'["pa"] # UNKNOWN => LimitFor(registers', applied'["pa"])
        BY Zenon, <2>2, <2>3, CurrentLimitedIs, LimitKept DEF SettingsInv
      <3> QED
        BY Zenon, <3>1 DEF CurrentLimited, LimitFor
    <2> QED
      BY Zenon, <2>4, <2>5, <2>7, <2>8 DEF SettingsInv
  <1>2. CASE SetOne
    <2>1. PICK name \in AllNames, s \in Settings, ok \in BOOLEAN : Make(name, s[name], ok)
      BY <1>2 DEF SetOne
    <2>2. s \in SettingsRange
      BY SettingsAssumption
    <2>3. /\ registers' \in [Addresses -> SUBSET (0..7)]
          /\ DOMAIN applied' = AllNames
          /\ SettingsTakeEffect' /\ LowDataRateWhenNeeded' /\ CurrentLimited'
      BY Zenon, <2>1, <2>2, SetsEveryInv
    <2>4. /\ initialised' = initialised /\ underWay' = underWay
          /\ calls < MaxCalls /\ calls' = calls + 1
      BY <1>2 DEF SetOne, Call
    <2>5. calls' \in 0..MaxCalls
      BY <2>4, SettingsAssumption DEF SettingsInv
    <2> QED
      BY Zenon, <2>3, <2>4, <2>5 DEF SettingsInv
  <1>3. CASE SetAllSettings
    <2>1. /\ UNCHANGED <<initialised, registers, applied>>
          /\ calls < MaxCalls /\ calls' = calls + 1
          /\ \E s \in Settings : underWay' = [next |-> 1, settings |-> s]
      BY <1>3 DEF SetAllSettings, Call
    <2>2. underWay' \in [next : 1..Len(Names), settings : Settings]
      BY <2>1 DEF Names
    <2>3. calls' \in 0..MaxCalls
      BY <2>1, SettingsAssumption DEF SettingsInv
    <2>4. SettingsTypeOK'
      BY Zenon, <2>1, <2>2, <2>3 DEF SettingsInv
    <2>5. SettingsTakeEffect' /\ LowDataRateWhenNeeded' /\ CurrentLimited'
      BY Zenon, <2>1 DEF SettingsInv, SettingsTakeEffect, LowDataRateWhenNeeded, CurrentLimited
    <2> QED
      BY Zenon, <2>4, <2>5 DEF SettingsInv
  <1>4. CASE SetNext
    <2> DEFINE i == underWay.next
               s == underWay.settings
    <2>1. i \in 1..Len(Names) /\ s \in Settings /\ underWay = [next |-> i, settings |-> s]
      BY <1>4 DEF SetNext, SettingsInv
    <2>2. Names[i] \in AllNames /\ s \in SettingsRange
      BY <2>1, SettingsAssumption DEF AllNames
    <2>3. PICK ok \in BOOLEAN :
            /\ Make(Names[i], s[Names[i]], ok)
            /\ underWay' = IF ok /\ i < Len(Names)
                           THEN [underWay EXCEPT !.next = @ + 1] ELSE NotUnderWay
      BY Zenon, <1>4 DEF SetNext
    <2>4. /\ registers' \in [Addresses -> SUBSET (0..7)]
          /\ DOMAIN applied' = AllNames
          /\ SettingsTakeEffect' /\ LowDataRateWhenNeeded' /\ CurrentLimited'
      BY Zenon, <2>2, <2>3, SetsEveryInv
    <2>5. underWay' \in {NotUnderWay} \cup [next : 1..Len(Names), settings : Settings]
      <3>1. Len(Names) = 9
        BY DEF Names
      <3> QED
        BY <2>1, <2>3, <3>1
    <2>6. initialised' = initialised /\ calls' = calls
      BY <1>4 DEF SetNext
    <2> QED
      BY Zenon, <2>4, <2>5, <2>6 DEF SettingsInv
  <1>5. CASE UNCHANGED settingsVars
    <2>1. UNCHANGED <<initialised, registers, applied, underWay, calls>>
      BY <1>5 DEF settingsVars
    <2>2. SettingsTakeEffect' /\ LowDataRateWhenNeeded' /\ CurrentLimited'
      BY Zenon, <2>1 DEF SettingsInv, SettingsTakeEffect, LowDataRateWhenNeeded, CurrentLimited
    <2> QED
      BY Zenon, <2>1, <2>2 DEF SettingsInv
  <1> QED
    BY <1>1, <1>2, <1>3, <1>4, <1>5 DEF SettingsNext

LEMMA SettingsAlways == SettingsSpec => []SettingsInv
  BY SettingsInitInv, SettingsNextInv, PTL DEF SettingsSpec

-----------------------------------------------------------------------------
(* Theorems.                                                               *)

\* The registers hold bytes, and setAllSettings is at one of the settings it was given.
THEOREM SettingsTypeCorrect == SettingsSpec => []SettingsTypeOK
  <1>1. SettingsInv => SettingsTypeOK
    BY DEF SettingsInv
  <1> QED
    BY <1>1, SettingsAlways, PTL

\* In whatever order the setters of Rfm95 are called and whichever of them fail half way,
\* the modem has every setting as the last call that made it asked, if that gave OK.
THEOREM SettingsCorrect == SettingsSpec => []SettingsTakeEffect
  <1>1. SettingsInv => SettingsTakeEffect
    BY DEF SettingsInv
  <1> QED
    BY <1>1, SettingsAlways, PTL

\* reloadLowDatarateOptimization_ never divides by zero, and has switched the optimization
\* on wherever the symbols of the settings given OK for are of 17 ms or more.
THEOREM LowDataRateCorrect == SettingsSpec => []LowDataRateWhenNeeded
  <1>1. SettingsInv => LowDataRateWhenNeeded
    BY DEF SettingsInv
  <1> QED
    BY <1>1, SettingsAlways, PTL

\* The limit that setPa_ leaves for the amplifier's current is that of the power it gave
\* OK for, whatever was set before and is set afterwards.
THEOREM CurrentCorrect == SettingsSpec => []CurrentLimited
  <1>1. SettingsInv => CurrentLimited
    BY DEF SettingsInv
  <1> QED
    BY <1>1, SettingsAlways, PTL
=============================================================================
