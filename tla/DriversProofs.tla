----------------------------- MODULE DriversProofs -----------------------------
(***************************************************************************)
(* Proofs about the classes that both programs build on, each alone, and   *)
(* then about all of them.  Those about the modem's settings are in        *)
(* ModemSettingsProofs.                                                    *)
(*                                                                         *)
(* HrTimer, for any objects and any number of timers: types, and that it   *)
(* implements TimerPool.  The invariant says that the numbers given out so *)
(* far are those up to the number of timers and free numbers together,     *)
(* none of them twice; and that timerCount_ counts the timers that have    *)
(* one.                                                                    *)
(*                                                                         *)
(* NvsStore, for strings of any length, any keys, restarts and failures:   *)
(* what it promises of a string.  The two entries of a key need not belong *)
(* together.  The invariant ties each to what the key may be read as: the  *)
(* text is always one of these strings, and where there is only one, the   *)
(* size is its size.                                                       *)
(*                                                                         *)
(* Adc, for any objects and pins: which handles outlive their use.  The    *)
(* invariant says that no two objects have one configuration, and that an  *)
(* object's handle is that of its unit for as long as it works.            *)
(*                                                                         *)
(* Wifi and its set-up by WifiController, for any credentials and any call *)
(* that fails: what the station joins with.  The invariant says that a     *)
(* mode with a station never goes with credentials of an earlier run, even *)
(* after a restore that failed.                                            *)
(***************************************************************************)
EXTENDS Drivers, EventGroupProofs, ModemSettingsProofs, FiniteSetTheorems

-----------------------------------------------------------------------------
(* The numbers of HrTimer.                                                 *)

GivenOut == timerCount + Len(availableTimerNumber)

Holders == {t \in HrTimers : timerNumber[t] # 0}

HeldOnce ==
    \A t, u \in HrTimers : timerNumber[t] = timerNumber[u] /\ timerNumber[t] # 0 => t = u

FreeOnce(queue) ==
    \A i, j \in 1..Len(queue) : queue[i] = queue[j] => i = j

FreeWithin(queue, n) == \A i \in 1..Len(queue) : queue[i] <= n

FreeNotHeld(queue) ==
    \A t \in HrTimers, i \in 1..Len(queue) : timerNumber[t] # queue[i]

CountRight == IsFiniteSet(Holders) /\ timerCount = Cardinality(Holders)

NumbersInv ==
    /\ HrTypeOK
    /\ GivenOut <= MAX_TIMER_COUNT
    /\ \A t \in HrTimers : timerNumber[t] <= GivenOut
    /\ HeldOnce
    /\ FreeOnce(availableTimerNumber)
    /\ FreeWithin(availableTimerNumber, GivenOut)
    /\ FreeNotHeld(availableTimerNumber)
    /\ CountRight

\* What setTimerNumber_ takes and what it leaves in the queue.
LEMMA NewNumber ==
    ASSUME NumbersInv, timerCount < MAX_TIMER_COUNT
    PROVE  /\ NewTimerNumber \in 1..MAX_TIMER_COUNT
           /\ NumbersLeft \in Seq(1..MAX_TIMER_COUNT)
           /\ \A t \in HrTimers : timerNumber[t] # NewTimerNumber
           /\ \A i \in 1..Len(NumbersLeft) : NumbersLeft[i] # NewTimerNumber
           /\ FreeOnce(NumbersLeft)
           /\ FreeNotHeld(NumbersLeft)
           /\ timerCount + 1 + Len(NumbersLeft) <= MAX_TIMER_COUNT
           /\ NewTimerNumber <= timerCount + 1 + Len(NumbersLeft)
           /\ FreeWithin(NumbersLeft, timerCount + 1 + Len(NumbersLeft))
           /\ \A t \in HrTimers : timerNumber[t] <= timerCount + 1 + Len(NumbersLeft)
           /\ Len(NumbersLeft) \in Nat
<1> USE HrTimerAssumption
<1>1. CASE availableTimerNumber = <<>>
  <2>1. /\ NewTimerNumber = timerCount + 1
        /\ NumbersLeft = <<>>
        /\ GivenOut = timerCount
        /\ Len(NumbersLeft) = 0
    BY <1>1 DEF NewTimerNumber, NumbersLeft, GivenOut, NumbersInv, HrTypeOK
  <2> QED
    BY <2>1 DEF NumbersInv, HrTypeOK, FreeOnce, FreeNotHeld, FreeWithin
<1>2. CASE availableTimerNumber # <<>>
  <2> DEFINE q == availableTimerNumber
  <2>1. /\ NewTimerNumber = q[1]
        /\ NumbersLeft = Tail(q)
        /\ q \in Seq(1..MAX_TIMER_COUNT)
        /\ Len(q) \in Nat /\ Len(q) > 0
    BY <1>2 DEF NewTimerNumber, NumbersLeft, NumbersInv, HrTypeOK
  <2>2. /\ NumbersLeft \in Seq(1..MAX_TIMER_COUNT)
        /\ Len(NumbersLeft) = Len(q) - 1
        /\ \A i \in 1..Len(NumbersLeft) : NumbersLeft[i] = q[i + 1] /\ i + 1 \in 1..Len(q)
    BY <2>1
  <2>3. timerCount + 1 + Len(NumbersLeft) = GivenOut
    BY <2>1, <2>2 DEF GivenOut, NumbersInv, HrTypeOK
  <2>4. 1 \in 1..Len(q) /\ q[1] \in 1..MAX_TIMER_COUNT
    BY <2>1
  <2>5. \A i \in 1..Len(NumbersLeft) : NumbersLeft[i] # NewTimerNumber
    BY <2>1, <2>2, <2>4 DEF NumbersInv, FreeOnce
  <2>6. FreeOnce(NumbersLeft) /\ FreeNotHeld(NumbersLeft)
    <3>1. FreeOnce(NumbersLeft)
      <4> SUFFICES ASSUME NEW i \in 1..Len(NumbersLeft), NEW j \in 1..Len(NumbersLeft),
                          NumbersLeft[i] = NumbersLeft[j]
                   PROVE  i = j
        BY DEF FreeOnce
      <4>1. q[i + 1] = q[j + 1] /\ i + 1 \in 1..Len(q) /\ j + 1 \in 1..Len(q)
        BY <2>2
      <4>2. i + 1 = j + 1
        BY <4>1 DEF NumbersInv, FreeOnce
      <4> QED
        BY <4>2
    <3>2. FreeNotHeld(NumbersLeft)
      BY <2>2 DEF NumbersInv, FreeNotHeld
    <3> QED
      BY <3>1, <3>2
  <2>7. \A t \in HrTimers : timerNumber[t] # NewTimerNumber
    BY <2>1, <2>4 DEF NumbersInv, FreeNotHeld
  <2>8. NewTimerNumber <= GivenOut /\ FreeWithin(NumbersLeft, GivenOut)
    BY <2>1, <2>2, <2>4 DEF NumbersInv, FreeWithin
  <2> QED
    BY <2>1, <2>2, <2>3, <2>4, <2>5, <2>6, <2>7, <2>8 DEF NumbersInv
<1> QED
  BY <1>1, <1>2

\* Giving a number back at the end of the queue.
LEMMA Returned ==
    ASSUME NEW queue \in Seq(1..MAX_TIMER_COUNT), NEW n \in 1..MAX_TIMER_COUNT,
           FreeOnce(queue), \A i \in 1..Len(queue) : queue[i] # n
    PROVE  /\ Append(queue, n) \in Seq(1..MAX_TIMER_COUNT)
           /\ Len(Append(queue, n)) = Len(queue) + 1
           /\ FreeOnce(Append(queue, n))
           /\ \A i \in 1..Len(Append(queue, n)) :
                 Append(queue, n)[i] = n \/ (i \in 1..Len(queue) /\ Append(queue, n)[i] = queue[i])
<1>1. /\ Append(queue, n) \in Seq(1..MAX_TIMER_COUNT)
      /\ Len(Append(queue, n)) = Len(queue) + 1
      /\ \A i \in 1..Len(queue) : Append(queue, n)[i] = queue[i]
      /\ Append(queue, n)[Len(queue) + 1] = n
      /\ Len(queue) \in Nat
  OBVIOUS
<1>2. \A i \in 1..(Len(queue) + 1) : i \in 1..Len(queue) \/ i = Len(queue) + 1
  BY <1>1
<1>3. FreeOnce(Append(queue, n))
  <2> SUFFICES ASSUME NEW i \in 1..(Len(queue) + 1), NEW j \in 1..(Len(queue) + 1),
                      Append(queue, n)[i] = Append(queue, n)[j]
               PROVE  i = j
    BY <1>1 DEF FreeOnce
  <2> QED
    BY <1>1, <1>2 DEF FreeOnce
<1> QED
  BY <1>1, <1>2, <1>3

LEMMA NumbersInit == HrInit => NumbersInv
<1> SUFFICES ASSUME HrInit PROVE NumbersInv
  OBVIOUS
<1>1. Holders = {}
  BY DEF HrInit, Holders
<1>2. CountRight
  BY <1>1, FS_EmptySet DEF CountRight, HrInit
<1> QED
  BY <1>2, HrTimerAssumption
     DEF HrInit, NumbersInv, HrTypeOK, GivenOut, HeldOnce, FreeOnce, FreeNotHeld, FreeWithin

LEMMA InitKeeps ==
    ASSUME NumbersInv, NEW t \in HrTimers, HrInitSucceeds(t)
    PROVE  NumbersInv'
<1> USE HrTimerAssumption
<1>1. /\ timerCount < MAX_TIMER_COUNT
      /\ timerNumber[t] = 0
      /\ timerCount' = timerCount + 1
      /\ availableTimerNumber' = NumbersLeft
      /\ timerNumber' = [timerNumber EXCEPT ![t] = NewTimerNumber]
      /\ espTimer' = [espTimer EXCEPT ![t] = "stopped"]
  BY DEF HrInitSucceeds, HrMayInit, NumbersInv, HrTypeOK
<1>2. /\ NewTimerNumber \in 1..MAX_TIMER_COUNT
      /\ NumbersLeft \in Seq(1..MAX_TIMER_COUNT)
      /\ \A u \in HrTimers : timerNumber[u] # NewTimerNumber
      /\ \A i \in 1..Len(NumbersLeft) : NumbersLeft[i] # NewTimerNumber
      /\ FreeOnce(NumbersLeft)
      /\ FreeNotHeld(NumbersLeft)
      /\ timerCount + 1 + Len(NumbersLeft) <= MAX_TIMER_COUNT
      /\ NewTimerNumber <= timerCount + 1 + Len(NumbersLeft)
      /\ FreeWithin(NumbersLeft, timerCount + 1 + Len(NumbersLeft))
      /\ \A u \in HrTimers : timerNumber[u] <= timerCount + 1 + Len(NumbersLeft)
      /\ Len(NumbersLeft) \in Nat
  BY <1>1, NewNumber
<1>3. /\ timerNumber \in [HrTimers -> 0..MAX_TIMER_COUNT]
      /\ timerCount \in 0..MAX_TIMER_COUNT
      /\ espTimer \in [HrTimers -> {"none", "stopped", "once", "periodic"}]
  BY DEF NumbersInv, HrTypeOK
<1>4. \A u \in HrTimers : timerNumber'[u] = IF u = t THEN NewTimerNumber ELSE timerNumber[u]
  BY <1>1, <1>3
<1>5. HrTypeOK'
  BY <1>1, <1>2, <1>3 DEF HrTypeOK
<1>6. GivenOut' = timerCount + 1 + Len(NumbersLeft)
  BY <1>1 DEF GivenOut
<1>7. FreeWithin(availableTimerNumber, GivenOut)'
  BY <1>1, <1>2, <1>6 DEF FreeWithin
<1>8. HeldOnce'
  BY <1>2, <1>4 DEF HeldOnce, NumbersInv
<1>9. FreeOnce(availableTimerNumber)' /\ FreeNotHeld(availableTimerNumber)'
  BY <1>1, <1>2, <1>4 DEF FreeOnce, FreeNotHeld
<1>10. CountRight'
  <2>1. Holders' = Holders \cup {t} /\ t \notin Holders
    BY <1>1, <1>2, <1>4 DEF Holders
  <2> QED
    BY <2>1, <1>1, <1>3, FS_AddElement DEF CountRight, NumbersInv
<1> QED
  BY <1>2, <1>4, <1>5, <1>6, <1>7, <1>8, <1>9, <1>10 DEF NumbersInv
LEMMA FailedInitKeeps ==
    ASSUME NumbersInv, NEW t \in HrTimers, HrInitFails(t)
    PROVE  NumbersInv'
<1> USE HrTimerAssumption
<1>1. /\ timerCount < MAX_TIMER_COUNT
      /\ availableTimerNumber' = Append(NumbersLeft, NewTimerNumber)
      /\ UNCHANGED <<timerCount, timerNumber, espTimer>>
  BY DEF HrInitFails, HrMayInit
<1>2. /\ NewTimerNumber \in 1..MAX_TIMER_COUNT
      /\ NumbersLeft \in Seq(1..MAX_TIMER_COUNT)
      /\ \A u \in HrTimers : timerNumber[u] # NewTimerNumber
      /\ \A i \in 1..Len(NumbersLeft) : NumbersLeft[i] # NewTimerNumber
      /\ FreeOnce(NumbersLeft)
      /\ FreeNotHeld(NumbersLeft)
      /\ timerCount + 1 + Len(NumbersLeft) <= MAX_TIMER_COUNT
      /\ NewTimerNumber <= timerCount + 1 + Len(NumbersLeft)
      /\ FreeWithin(NumbersLeft, timerCount + 1 + Len(NumbersLeft))
      /\ \A u \in HrTimers : timerNumber[u] <= timerCount + 1 + Len(NumbersLeft)
      /\ Len(NumbersLeft) \in Nat
  BY <1>1, NewNumber
<1>3. /\ timerCount \in 0..MAX_TIMER_COUNT
      /\ timerNumber \in [HrTimers -> 0..MAX_TIMER_COUNT]
      /\ espTimer \in [HrTimers -> {"none", "stopped", "once", "periodic"}]
      /\ HeldOnce
      /\ CountRight
  BY DEF NumbersInv, HrTypeOK
<1>4. /\ availableTimerNumber' \in Seq(1..MAX_TIMER_COUNT)
      /\ Len(availableTimerNumber') = Len(NumbersLeft) + 1
      /\ FreeOnce(availableTimerNumber')
      /\ \A i \in 1..Len(availableTimerNumber') :
            \/ availableTimerNumber'[i] = NewTimerNumber
            \/ i \in 1..Len(NumbersLeft) /\ availableTimerNumber'[i] = NumbersLeft[i]
  BY <1>1, <1>2, Returned
<1>5. HrTypeOK'
  BY <1>1, <1>3, <1>4 DEF HrTypeOK
<1>6. GivenOut' = timerCount + 1 + Len(NumbersLeft)
  BY <1>1, <1>2, <1>3, <1>4 DEF GivenOut
<1>7. FreeWithin(availableTimerNumber, GivenOut)'
  BY <1>2, <1>4, <1>6 DEF FreeWithin
<1>8. FreeNotHeld(availableTimerNumber)'
  BY <1>1, <1>2, <1>4 DEF FreeNotHeld
<1>9. HeldOnce' /\ CountRight'
  BY <1>1, <1>3 DEF HeldOnce, CountRight, Holders
<1>10. FreeOnce(availableTimerNumber)'
  BY <1>4 DEF FreeOnce
<1> QED
  BY <1>1, <1>2, <1>5, <1>6, <1>7, <1>8, <1>9, <1>10 DEF NumbersInv

LEMMA DeinitKeeps ==
    ASSUME NumbersInv, NEW t \in HrTimers, HrDeinit(t)
    PROVE  NumbersInv'
<1> USE HrTimerAssumption
<1> DEFINE n == timerNumber[t]
<1>1. /\ n # 0
      /\ timerCount' = timerCount - 1
      /\ availableTimerNumber' = Append(availableTimerNumber, n)
      /\ timerNumber' = [timerNumber EXCEPT ![t] = 0]
      /\ espTimer' = [espTimer EXCEPT ![t] = "none"]
  BY DEF HrDeinit
<1>2. /\ timerCount \in 0..MAX_TIMER_COUNT
      /\ availableTimerNumber \in Seq(1..MAX_TIMER_COUNT)
      /\ timerNumber \in [HrTimers -> 0..MAX_TIMER_COUNT]
      /\ espTimer \in [HrTimers -> {"none", "stopped", "once", "periodic"}]
      /\ Len(availableTimerNumber) \in Nat
  BY DEF NumbersInv, HrTypeOK
<1>3. n \in 1..MAX_TIMER_COUNT /\ n <= GivenOut
  BY <1>1, <1>2 DEF NumbersInv
<1>4. /\ availableTimerNumber' \in Seq(1..MAX_TIMER_COUNT)
      /\ Len(availableTimerNumber') = Len(availableTimerNumber) + 1
      /\ FreeOnce(availableTimerNumber')
      /\ \A i \in 1..Len(availableTimerNumber') :
            \/ availableTimerNumber'[i] = n
            \/ /\ i \in 1..Len(availableTimerNumber)
               /\ availableTimerNumber'[i] = availableTimerNumber[i]
  <2>1. FreeOnce(availableTimerNumber)
        /\ \A i \in 1..Len(availableTimerNumber) : availableTimerNumber[i] # n
    BY DEF NumbersInv, FreeNotHeld
  <2> HIDE DEF n
  <2> QED
    BY <1>1, <1>2, <1>3, <2>1, Returned
<1>5. \A u \in HrTimers : timerNumber'[u] = IF u = t THEN 0 ELSE timerNumber[u]
  BY <1>1, <1>2
<1>6. CountRight' /\ timerCount' \in Nat
  <2>1. Holders' = Holders \ {t} /\ t \in Holders
    BY <1>1, <1>5 DEF Holders
  <2>2. IsFiniteSet(Holders) /\ timerCount = Cardinality(Holders)
    BY DEF NumbersInv, CountRight
  <2>3. /\ IsFiniteSet(Holders')
        /\ Cardinality(Holders') = Cardinality(Holders) - 1
    BY <2>1, <2>2, FS_RemoveElement
  <2>4. Cardinality(Holders') \in Nat
    BY <2>3, FS_CardinalityType
  <2> QED
    BY <2>2, <2>3, <2>4, <1>1 DEF CountRight
<1>7. HrTypeOK'
  BY <1>1, <1>2, <1>4, <1>6 DEF HrTypeOK
<1>8. GivenOut' = GivenOut
  BY <1>1, <1>2, <1>4 DEF GivenOut
<1>9. FreeWithin(availableTimerNumber, GivenOut)'
  BY <1>3, <1>4, <1>8 DEF NumbersInv, FreeWithin
<1>10. FreeNotHeld(availableTimerNumber)'
  <2> SUFFICES ASSUME NEW u \in HrTimers, NEW i \in 1..Len(availableTimerNumber')
               PROVE  timerNumber'[u] # availableTimerNumber'[i]
    BY DEF FreeNotHeld
  <2>1. availableTimerNumber'[i] # 0
    BY <1>4
  <2>2. CASE u = t
    BY <2>1, <2>2, <1>5
  <2>3. CASE u # t
    BY <2>3, <1>1, <1>4, <1>5 DEF NumbersInv, HeldOnce, FreeNotHeld
  <2> QED
    BY <2>2, <2>3
<1>11. HeldOnce'
  BY <1>5 DEF NumbersInv, HeldOnce
<1>12. FreeOnce(availableTimerNumber)'
  BY <1>4 DEF FreeOnce
<1>13. (\A u \in HrTimers : timerNumber[u] <= GivenOut)'
  <2>1. 0 <= GivenOut
    BY <1>2 DEF GivenOut
  <2>2. \A u \in HrTimers : timerNumber[u] <= GivenOut
    BY DEF NumbersInv
  <2> QED
    BY <2>1, <2>2, <1>5, <1>8
<1>14. (GivenOut <= MAX_TIMER_COUNT)'
  BY <1>8 DEF NumbersInv
<1> QED
  BY <1>6, <1>7, <1>9, <1>10, <1>11, <1>12, <1>13, <1>14 DEF NumbersInv

\* The other operations change only what esp_timer has.
LEMMA OtherKeeps ==
    ASSUME NumbersInv, UNCHANGED <<timerCount, availableTimerNumber, timerNumber>>,
           espTimer' \in [HrTimers -> {"none", "stopped", "once", "periodic"}]
    PROVE  NumbersInv'
<1>1. HrTypeOK'
  BY DEF NumbersInv, HrTypeOK
<1>2. GivenOut' = GivenOut /\ (HeldOnce' <=> HeldOnce) /\ (CountRight' <=> CountRight)
  BY DEF GivenOut, HeldOnce, CountRight, Holders
<1> QED
  BY <1>1, <1>2 DEF NumbersInv, FreeOnce, FreeWithin, FreeNotHeld

LEMMA StepKeeps == NumbersInv /\ [HrNext]_hrVars => NumbersInv'
<1> SUFFICES ASSUME NumbersInv, [HrNext]_hrVars PROVE NumbersInv'
  OBVIOUS
<1>1. CASE UNCHANGED hrVars
  BY <1>1, OtherKeeps DEF hrVars, NumbersInv, HrTypeOK
<1>2. ASSUME NEW t \in HrTimers, HrInitSucceeds(t) PROVE NumbersInv'
  BY <1>2, InitKeeps
<1>3. ASSUME NEW t \in HrTimers, HrInitFails(t) PROVE NumbersInv'
  BY <1>3, FailedInitKeeps
<1>4. ASSUME NEW t \in HrTimers, HrDeinit(t) PROVE NumbersInv'
  BY <1>4, DeinitKeeps
<1>5. ASSUME NEW t \in HrTimers,
             StartOnce(t) \/ StartPeriodic(t) \/ HrStop(t) \/ HrTimerFires(t)
      PROVE  NumbersInv'
  <2>1. espTimer \in [HrTimers -> {"none", "stopped", "once", "periodic"}]
    BY DEF NumbersInv, HrTypeOK
  <2>2. /\ UNCHANGED <<timerCount, availableTimerNumber, timerNumber>>
        /\ espTimer' \in [HrTimers -> {"none", "stopped", "once", "periodic"}]
    BY <1>5, <2>1 DEF StartOnce, StartPeriodic, StartAs, HrStop, HrTimerFires
  <2> QED
    BY <2>2, OtherKeeps
<1> QED
  BY <1>1, <1>2, <1>3, <1>4, <1>5 DEF HrNext

LEMMA NumbersAlways == HrSpec => []NumbersInv
<1> QED
  BY NumbersInit, StepKeeps, PTL DEF HrSpec

-----------------------------------------------------------------------------
(* Theorems.                                                               *)

\* timerCount_ and the numbers stay in their ranges, whatever the order of the calls, for
\* any objects and any MAX_TIMER_COUNT.
THEOREM HrTypeCorrect == HrSpec => []HrTypeOK
<1>1. NumbersInv => HrTypeOK
  BY DEF NumbersInv
<1> QED
  BY <1>1, NumbersAlways, PTL

\* HrTimer implements TimerPool: a number is held by one timer at most, and is free when
\* a timer gets it.
THEOREM PoolImplemented == HrSpec => ImplementsTimerPool
<1>1. HrInit => Pool!PoolInit
  BY DEF HrInit, Pool!PoolInit
<1>2. NumbersInv /\ [HrNext]_hrVars => [Pool!PoolNext]_timerNumber
  <2> SUFFICES ASSUME NumbersInv, HrNext, timerNumber' # timerNumber PROVE Pool!PoolNext
    BY DEF hrVars
  <2>1. ASSUME NEW t \in HrTimers, HrInitSucceeds(t) PROVE Pool!PoolNext
    <3>1. timerNumber[t] = 0 /\ timerCount < MAX_TIMER_COUNT
          /\ timerNumber' = [timerNumber EXCEPT ![t] = NewTimerNumber]
      BY <2>1 DEF HrInitSucceeds, HrMayInit
    <3>2. /\ NewTimerNumber \in 1..MAX_TIMER_COUNT
          /\ \A u \in HrTimers : timerNumber[u] # NewTimerNumber
      BY <3>1, NewNumber
    <3>3. NewTimerNumber \in (1..MAX_TIMER_COUNT) \ Pool!Held
      BY <3>2 DEF Pool!Held
    <3>4. Pool!Acquire(t)
      BY <3>1, <3>3 DEF Pool!Acquire
    <3> QED
      BY <3>4 DEF Pool!PoolNext
  <2>2. ASSUME NEW t \in HrTimers, HrDeinit(t) PROVE Pool!PoolNext
    BY <2>2 DEF HrDeinit, Pool!PoolNext, Pool!Release
  <2>3. ASSUME NEW t \in HrTimers,
               HrInitFails(t) \/ StartOnce(t) \/ StartPeriodic(t) \/ HrStop(t) \/ HrTimerFires(t)
        PROVE  FALSE
    BY <2>3 DEF HrInitFails, StartOnce, StartPeriodic, StartAs, HrStop, HrTimerFires
  <2> QED
    BY <2>1, <2>2, <2>3 DEF HrNext
<1> QED
  BY <1>1, <1>2, NumbersAlways, PTL DEF HrSpec, ImplementsTimerPool, Pool!PoolSpec

-----------------------------------------------------------------------------
(* The strings of NvsStore.                                                *)

\* Between its entries, a string's size is stored and the string may be read.
StoringRight ==
    storing # NONE =>
       /\ storing[2] \in possible[storing[1]]
       /\ sizes[storing[1]] = storing[2] % 256

EntriesRight ==
    \A k \in Keys :
       /\ texts[k] \in possible[k]
       /\ \A s \in StringLengths : possible[k] = {s} => sizes[k] = s % 256

NvsInv == NvsTypeOK /\ StoringRight /\ EntriesRight

LEMMA NvsInvInit == NvsInit => NvsInv
<1> USE NvsAssumption
<1> SUFFICES ASSUME NvsInit PROVE NvsInv
  OBVIOUS
<1>1. NvsTypeOK
  BY DEF NvsInit, NvsTypeOK, Nothing
<1>2. \A s \in StringLengths : {NONE} # {s}
  OBVIOUS
<1> QED
  BY <1>1, <1>2 DEF NvsInit, NvsInv, StoringRight, EntriesRight, Nothing

\* An erased flash, and nothing being stored.
LEMMA ErasedKeeps ==
    ASSUME NvsInv, AllErased, storing' = NONE,
           isNvsInitialized' \in BOOLEAN, nvsUp' \in BOOLEAN
    PROVE  NvsInv'
<1> USE NvsAssumption
<1>1. NvsTypeOK'
  BY DEF NvsInv, NvsTypeOK, AllErased, Nothing
<1>2. \A s \in StringLengths : {NONE} # {s}
  OBVIOUS
<1> QED
  BY <1>1, <1>2 DEF NvsInv, StoringRight, EntriesRight, AllErased, Nothing

\* Entries that stay, and nothing being stored.
LEMMA KeptKeeps ==
    ASSUME NvsInv, EntriesKept, storing' = NONE,
           isNvsInitialized' \in BOOLEAN, nvsUp' \in BOOLEAN
    PROVE  NvsInv'
BY DEF NvsInv, NvsTypeOK, StoringRight, EntriesRight, EntriesKept

LEMMA SetItemKeeps ==
    ASSUME NvsInv, NEW k \in ItemKeys, NEW byte \in {0, 255}, SetItem(k, byte)
    PROVE  NvsInv'
BY DEF NvsInv, NvsTypeOK, StoringRight, EntriesRight, SetItem, Byte

LEMMA SetSizeKeeps ==
    ASSUME NvsInv, NEW k \in Keys, NEW s \in StringLengths, SetSize(k, s)
    PROVE  NvsInv'
<1> USE NvsAssumption
<1>1. /\ sizes' = [sizes EXCEPT ![k] = s % 256]
      /\ storing' = <<k, s>>
      /\ possible' = [possible EXCEPT ![k] = @ \cup {s}]
      /\ UNCHANGED <<isNvsInitialized, nvsUp, texts, items>>
      /\ sizes \in [Keys -> Byte \cup {NONE}]
      /\ possible \in [Keys -> SUBSET (StringLengths \cup {NONE})]
      /\ texts \in [Keys -> StringLengths \cup {NONE}]
  BY DEF SetSize, NvsInv, NvsTypeOK
<1>2. s % 256 \in Byte
  BY DEF Byte
<1>3. NvsTypeOK'
  BY <1>1, <1>2 DEF NvsInv, NvsTypeOK
<1>4. StoringRight'
  BY <1>1 DEF StoringRight
<1>5. EntriesRight'
  <2> SUFFICES ASSUME NEW j \in Keys
               PROVE  /\ texts'[j] \in possible'[j]
                      /\ \A r \in StringLengths : possible'[j] = {r} => sizes'[j] = r % 256
    BY DEF EntriesRight
  <2>1. CASE j = k
    BY <2>1, <1>1 DEF NvsInv, EntriesRight
  <2>2. CASE j # k
    BY <2>2, <1>1 DEF NvsInv, EntriesRight
  <2> QED
    BY <2>1, <2>2
<1> QED
  BY <1>3, <1>4, <1>5 DEF NvsInv

LEMMA SetTextKeeps ==
    ASSUME NvsInv, SetText
    PROVE  NvsInv'
<1> USE NvsAssumption
<1>1. PICK k \in Keys, s \in StringLengths : storing = <<k, s>>
  <2>1. storing \in Keys \X StringLengths
    BY DEF SetText, NvsInv, NvsTypeOK
  <2>2. storing = <<storing[1], storing[2]>> /\ storing[1] \in Keys
        /\ storing[2] \in StringLengths
    BY <2>1
  <2> QED
    BY <2>2
<1>2. /\ texts' = [texts EXCEPT ![k] = s]
      /\ possible' = [possible EXCEPT ![k] = {s}]
      /\ storing' = NONE
      /\ UNCHANGED <<isNvsInitialized, nvsUp, sizes, items>>
      /\ possible \in [Keys -> SUBSET (StringLengths \cup {NONE})]
      /\ texts \in [Keys -> StringLengths \cup {NONE}]
      /\ sizes[k] = s % 256
  BY <1>1 DEF SetText, NvsInv, NvsTypeOK, StoringRight
<1>3. NvsTypeOK' /\ StoringRight'
  BY <1>2 DEF NvsInv, NvsTypeOK, StoringRight
<1>4. EntriesRight'
  BY <1>2 DEF NvsInv, EntriesRight
<1> QED
  BY <1>3, <1>4 DEF NvsInv

LEMMA NvsStepKeeps == NvsInv /\ [NvsNext]_nvsVars => NvsInv'
<1> SUFFICES ASSUME NvsInv, [NvsNext]_nvsVars PROVE NvsInv'
  OBVIOUS
<1>1. CASE UNCHANGED nvsVars
  BY <1>1 DEF nvsVars, NvsInv, NvsTypeOK, StoringRight, EntriesRight
<1>2. CASE NvsStoreInitErasing \/ Erease
  BY <1>2, ErasedKeeps DEF NvsStoreInitErasing, Erease
<1>3. CASE NvsStoreInit \/ EraseFails \/ SetTextFails \/ Restart
  BY <1>3, KeptKeeps
     DEF NvsStoreInit, EraseFails, SetTextFails, Restart, NvsInv, NvsTypeOK
<1>4. CASE \E k \in ItemKeys, byte \in {0, 255} : SetItem(k, byte)
  BY <1>4, SetItemKeeps
<1>5. CASE \E k \in Keys, s \in StringLengths : SetSize(k, s)
  BY <1>5, SetSizeKeeps
<1>6. CASE SetText
  BY <1>6, SetTextKeeps
<1> QED
  BY <1>1, <1>2, <1>3, <1>4, <1>5, <1>6 DEF NvsNext

-----------------------------------------------------------------------------
(* Theorems.                                                               *)

\* A string stored with OK is read back if it has fewer than 255 characters, and never
\* otherwise; nothing is read that was not stored, whatever restarts and failures came
\* between the two entries, for strings of any length.
THEOREM StoredStringCorrect == NvsSpec => []StoredStringIsRead
<1> USE NvsAssumption
<1>1. NvsInv => StoredStringIsRead
  <2> SUFFICES ASSUME NvsInv, nvsUp, NEW k \in Keys
               PROVE  /\ GetString(k) \in possible[k] \cup {FAIL}
                      /\ \A s \in StringLengths :
                           possible[k] = {s} => GetString(k) = IF s < 255 THEN s ELSE FAIL
    BY DEF StoredStringIsRead
  <2>1. GetString(k) \in possible[k] \cup {FAIL}
    BY DEF GetString, NvsInv, EntriesRight
  <2>2. ASSUME NEW s \in StringLengths, possible[k] = {s}
        PROVE  GetString(k) = IF s < 255 THEN s ELSE FAIL
    <3>1. texts[k] = s /\ sizes[k] = s % 256 /\ s \in Nat
      BY <2>2 DEF NvsInv, EntriesRight
    <3>2. NONE \notin {sizes[k], texts[k]}
      BY <3>1
    <3>3. CASE s < 255
      <4>1. s % 256 = s /\ (s + 1) % 256 = s + 1
        BY <3>1, <3>3
      <4> QED
        BY <3>1, <3>2, <3>3, <4>1 DEF GetString, BufferLength
    <3>4. CASE ~(s < 255)
      <4>1. ((s % 256) + 1) % 256 < s + 1
        BY <3>1, <3>4
      <4> QED
        BY <3>1, <3>2, <3>4, <4>1 DEF GetString, BufferLength
    <3> QED
      BY <3>3, <3>4
  <2> QED
    BY <2>1, <2>2
<1> QED
  BY <1>1, NvsInvInit, NvsStepKeeps, PTL DEF NvsSpec

-----------------------------------------------------------------------------
(* The handles of Adc.                                                     *)

ConfigsRight ==
    /\ adcConfig \in [Adcs -> Configs \cup {INVALID_CONFIG, NO_CONFIG}]
    /\ usedConfig \subseteq Configs
    /\ \A a \in Adcs : adcConfig[a] \in Configs => adcConfig[a] \in usedConfig
    /\ \A a, b \in Adcs : adcConfig[a] \in Configs /\ adcConfig[a] = adcConfig[b] => a = b

HandlesRight ==
    /\ adcHandle \in [Adcs -> Handles]
    /\ adcUnitHandle \in [Units -> Handles]
    /\ \A a \in Adcs : adcHandle[a] # "nullptr" => adcConfig[a] \in Configs
    /\ \A a \in Adcs : adcHandle[a] = "live" => adcUnitHandle[adcConfig[a][1]] = "live"

AdcInv == ConfigsRight /\ HandlesRight

LEMMA ConfigsAre ==
    /\ INVALID_CONFIG \notin Configs /\ NO_CONFIG \notin Configs
    /\ INVALID_CONFIG # NO_CONFIG
    /\ \A c \in Configs : c[1] \in Units
    /\ \A number : ConfigOf(number) \in Configs \cup {INVALID_CONFIG}
<1>1. \A c \in Configs : c \in Units \X (0..9) /\ c[1] \in Units
  BY DEF Configs
<1>2. INVALID_CONFIG[1] = "UNKNOWN" /\ NO_CONFIG[1] = "UNBUILT"
  BY DEF INVALID_CONFIG, NO_CONFIG
<1>3. \A number : ConfigOf(number) \in Configs \cup {INVALID_CONFIG}
  BY DEF ConfigOf
<1> QED
  BY <1>1, <1>2, <1>3 DEF Units

LEMMA AdcInvInit == AdcInit => AdcInv
BY ConfigsAre DEF AdcInit, AdcInv, ConfigsRight, HandlesRight, Handles, Units

\* An object is built on a configuration that no other has.
LEMMA BuildKeeps ==
    ASSUME AdcInv, NEW a \in Adcs, NEW g, BuildAdc(a, g)
    PROVE  AdcInv'
<1>1. PICK config \in Configs \cup {INVALID_CONFIG} :
         /\ adcConfig[a] = NO_CONFIG
         /\ adcConfig' = [adcConfig EXCEPT ![a] = IF config \in usedConfig
                                                  THEN INVALID_CONFIG ELSE config]
         /\ usedConfig' = usedConfig \cup ({config} \ {INVALID_CONFIG})
         /\ UNCHANGED <<adcHandle, adcUnitHandle>>
  BY ConfigsAre DEF BuildAdc
<1>2. /\ adcConfig'[a] \in Configs \cup {INVALID_CONFIG}
      /\ adcConfig'[a] \in Configs => adcConfig'[a] \in usedConfig' \ usedConfig
      /\ \A b \in Adcs \ {a} : adcConfig'[b] = adcConfig[b]
  BY <1>1, ConfigsAre DEF AdcInv, ConfigsRight
<1>3. ConfigsRight'
  BY <1>1, <1>2, ConfigsAre DEF AdcInv, ConfigsRight
<1>4. \A b \in Adcs : adcHandle[b] # "nullptr" => b # a
  BY <1>1, ConfigsAre DEF AdcInv, HandlesRight
<1>5. HandlesRight'
  BY <1>1, <1>2, <1>4 DEF AdcInv, HandlesRight
<1> QED
  BY <1>3, <1>5 DEF AdcInv

LEMMA InitKeepsHandles ==
    ASSUME AdcInv, NEW a \in Adcs, InitAdcShared(a) \/ InitAdcFirst(a)
    PROVE  /\ AdcInv'
           /\ \A b \in Adcs : adcHandle[b] = "live" => adcHandle'[b] = "live"
<1> USE DEF AdcInv, HandlesRight, Handles
<1>1. adcConfig[a] \in Configs /\ adcConfig[a][1] \in Units /\ UNCHANGED <<usedConfig, adcConfig>>
  BY ConfigsAre DEF InitAdcShared, InitAdcFirst
<1>2. ConfigsRight'
  BY <1>1 DEF ConfigsRight
<1>3. CASE InitAdcShared(a)
  BY <1>1, <1>2, <1>3 DEF InitAdcShared
<1>4. CASE InitAdcFirst(a)
  <2> DEFINE unit == adcConfig[a][1]
  <2>1. adcHandle[a] # "live" /\ unit \in Units
    BY <1>1, <1>4 DEF InitAdcFirst
  <2>2. CASE /\ adcHandle' = [adcHandle EXCEPT ![a] = "live"]
             /\ adcUnitHandle' = [adcUnitHandle EXCEPT ![unit] = "live"]
    <3>1. /\ adcHandle' \in [Adcs -> Handles]
          /\ adcUnitHandle' \in [Units -> Handles]
          /\ \A b \in Adcs \ {a} : adcHandle'[b] = adcHandle[b]
          /\ adcHandle'[a] = "live" /\ adcUnitHandle'[unit] = "live"
          /\ \A u \in Units : adcUnitHandle[u] = "live" => adcUnitHandle'[u] = "live"
      BY <2>1, <2>2
    <3>2. \A b \in Adcs : adcConfig[b] \in Configs => adcConfig[b][1] \in Units
      BY ConfigsAre
    <3> QED
      BY <1>1, <1>2, <3>1, <3>2
  <2>3. CASE /\ adcHandle' = [adcHandle EXCEPT ![a] = "nullptr"]
             /\ UNCHANGED adcUnitHandle
    BY <1>1, <1>2, <2>1, <2>3
  <2> QED
    BY <1>4, <2>2, <2>3 DEF InitAdcFirst
<1> QED
  BY <1>3, <1>4

\* The last object of its unit goes: nothing of the unit is in use, but for UNIT_2 the
\* handles of UNIT_1 may be deleted.
LEMMA DeinitKeepsHandles ==
    ASSUME AdcInv, NEW a \in Adcs, DeinitAdc(a)
    PROVE  /\ AdcInv'
           /\ \A b \in Adcs : adcHandle[b] = "live" =>
                 \/ adcHandle'[b] = "live"
                 \/ adcConfig'[b] = INVALID_CONFIG
                 \/ adcConfig[b][1] = "UNIT_1" /\ LastOfUnit2Goes
<1> USE DEF AdcInv, HandlesRight, Handles
<1> DEFINE unit == adcConfig[a][1]
           dies == adcUnitHandle["UNIT_1"] = "live"
<1>1. /\ adcConfig[a] \in usedConfig
      /\ usedConfig' = usedConfig \ {adcConfig[a]}
      /\ adcConfig' = [adcConfig EXCEPT ![a] = INVALID_CONFIG]
  BY DEF DeinitAdc
<1>2. /\ adcConfig'[a] = INVALID_CONFIG
      /\ \A b \in Adcs \ {a} : adcConfig'[b] = adcConfig[b]
  BY <1>1 DEF ConfigsRight
<1>3. ConfigsRight'
  BY <1>1, <1>2, ConfigsAre DEF ConfigsRight
<1>4. CASE HasUnit(unit, usedConfig')
  <2>1. adcHandle' = [adcHandle EXCEPT ![a] = "nullptr"] /\ UNCHANGED adcUnitHandle
    BY <1>4 DEF DeinitAdc
  <2> QED
    BY <1>2, <1>3, <2>1
<1>5. CASE ~HasUnit(unit, usedConfig')
  <2>1. ClearAdcUnitHandle(a, unit)
    BY <1>5 DEF DeinitAdc
  <2>2. ASSUME NEW b \in Adcs \ {a}, adcHandle[b] # "nullptr"
        PROVE  adcConfig[b][1] \in Units /\ adcConfig[b][1] # unit
    <3>1. adcConfig[b] \in Configs /\ adcConfig[b] \in usedConfig
      BY <2>2 DEF ConfigsRight
    <3>2. adcConfig[b] # adcConfig[a]
      BY <2>2, <3>1 DEF ConfigsRight
    <3>3. adcConfig[b] \in usedConfig'
      BY <1>1, <3>1, <3>2
    <3> QED
      BY <1>5, <3>1, <3>3, ConfigsAre DEF HasUnit
  <2>3. /\ adcHandle' = [b \in Adcs |-> IF b = a THEN "nullptr"
                                         ELSE IF dies /\ adcHandle[b] # "nullptr"
                                                   /\ adcConfig[b][1] = "UNIT_1" THEN "deleted"
                                         ELSE adcHandle[b]]
        /\ adcUnitHandle' = [u \in Units |-> IF u = unit THEN "nullptr"
                                              ELSE IF dies /\ u = "UNIT_1" THEN "deleted"
                                              ELSE adcUnitHandle[u]]
    BY <2>1 DEF ClearAdcUnitHandle
  <2>4. HandlesRight'
    <3>1. /\ adcHandle' \in [Adcs -> Handles]
          /\ adcUnitHandle' \in [Units -> Handles]
          /\ adcHandle'[a] = "nullptr"
      BY <2>3
    <3>2. ASSUME NEW b \in Adcs \ {a}, adcHandle'[b] # "nullptr"
          PROVE  adcHandle[b] # "nullptr" /\ adcConfig'[b] \in Configs
      BY <1>2, <2>3, <3>2
    <3>3. ASSUME NEW b \in Adcs \ {a}, adcHandle'[b] = "live"
          PROVE  adcUnitHandle'[adcConfig'[b][1]] = "live"
      <4>1. adcHandle[b] = "live" /\ ~(dies /\ adcConfig[b][1] = "UNIT_1")
        BY <2>3, <3>3
      <4>2. adcConfig'[b] = adcConfig[b] /\ adcUnitHandle[adcConfig[b][1]] = "live"
        BY <1>2, <4>1
      <4>3. adcConfig[b][1] \in Units /\ adcConfig[b][1] # unit
        BY <2>2, <4>1
      <4> QED
        BY <2>3, <4>1, <4>2, <4>3
    <3> QED
      BY <3>1, <3>2, <3>3
  <2>5. ASSUME NEW b \in Adcs \ {a}, adcHandle[b] = "live", adcHandle'[b] # "live"
        PROVE  adcConfig[b][1] = "UNIT_1" /\ LastOfUnit2Goes
    <3>1. adcConfig[b][1] = "UNIT_1"
      BY <2>3, <2>5
    <3>2. unit # "UNIT_1"
      BY <2>2, <2>5, <3>1
    <3>3. unit = "UNIT_2"
      BY <1>1, <3>2, ConfigsAre DEF ConfigsRight, Units
    <3> QED
      BY <1>1, <1>5, <3>1, <3>3 DEF LastOfUnit2Goes, HasUnit
  <2> QED
    BY <1>2, <1>3, <2>4, <2>5
<1> QED
  BY <1>4, <1>5

LEMMA AdcStays ==
    ASSUME AdcInv, UNCHANGED adcVars
    PROVE  AdcInv'
BY DEF AdcInv, ConfigsRight, HandlesRight, adcVars

LEMMA AdcStepKeeps == AdcInv /\ [AdcSystemNext]_AdcSystem => AdcInv'
BY BuildKeeps, InitKeepsHandles, DeinitKeepsHandles, AdcStays
DEF AdcSystemNext, AdcNext, AdcSystem

\* A handle that an object has obtained works until the object's deinit, whatever the
\* others do, unless the last object of UNIT_2 is released; for any objects.
THEOREM HandlesCorrect == AdcSpec => AdcHandlesOutliveUse
<1>1. ASSUME AdcInv, [AdcSystemNext]_AdcSystem,
             NEW a \in Adcs, adcHandle[a] = "live"
      PROVE  \/ adcHandle'[a] = "live"
             \/ adcConfig'[a] = INVALID_CONFIG
             \/ adcConfig[a][1] = "UNIT_1" /\ LastOfUnit2Goes
  <2>1. CASE UNCHANGED adcVars
    BY <1>1, <2>1 DEF adcVars
  <2>2. ASSUME NEW b \in Adcs, NEW g \in Gpios, BuildAdc(b, g) PROVE adcHandle'[a] = "live"
    BY <1>1, <2>2 DEF BuildAdc
  <2>3. ASSUME NEW b \in Adcs, InitAdcShared(b) \/ InitAdcFirst(b)
        PROVE  adcHandle'[a] = "live"
    BY <1>1, <2>3, InitKeepsHandles
  <2>4. ASSUME NEW b \in Adcs, DeinitAdc(b)
        PROVE  \/ adcHandle'[a] = "live"
               \/ adcConfig'[a] = INVALID_CONFIG
               \/ adcConfig[a][1] = "UNIT_1" /\ LastOfUnit2Goes
    BY <1>1, <2>4, DeinitKeepsHandles
  <2> QED
    BY <1>1, <2>1, <2>2, <2>3, <2>4 DEF AdcSystemNext, AdcNext, AdcSystem
<1>2. AdcInv /\ [AdcSystemNext]_AdcSystem =>
        [\A a \in Adcs :
            adcHandle[a] = "live" =>
               \/ adcHandle'[a] = "live"
               \/ adcConfig'[a] = INVALID_CONFIG
               \/ adcConfig[a][1] = "UNIT_1" /\ LastOfUnit2Goes]_AdcSystem
  BY <1>1
<1> QED
  BY <1>2, AdcInvInit, AdcStepKeeps, PTL DEF AdcSpec, AdcHandlesOutliveUse

-----------------------------------------------------------------------------
(* The set-up of Wi-Fi.                                                    *)

CredentialsInv ==
    /\ wifiMode \in Modes
    /\ driver \in [up : BOOLEAN, started : BOOLEAN, sta : Credentials \cup {NoCredentials}]
    /\ stored \in Credentials \cup {NoCredentials}
    /\ restoreFailed \in BOOLEAN
    /\ wifiMode \in StaModes => driver.sta \in {stored, NoCredentials}
    /\ JoinsAsStored

LEMMA CredentialsInit == WifiStartupInit => CredentialsInv
<1> SUFFICES ASSUME WifiStartupInit PROVE CredentialsInv
  OBVIOUS
<1>1. /\ wifiMode = "NONE" /\ wifiMode \in Modes /\ wifiMode \notin StaModes
      /\ joined = NoCredentials
  BY DEF WifiStartupInit, Modes, StaModes
<1>2. /\ driver \in [up : BOOLEAN, started : BOOLEAN, sta : Credentials \cup {NoCredentials}]
      /\ stored \in Credentials \cup {NoCredentials}
      /\ restoreFailed \in BOOLEAN
  BY DEF WifiStartupInit
<1> QED
  BY <1>1, <1>2 DEF CredentialsInv, JoinsAsStored

LEMMA InitKeepsCredentials ==
    ASSUME CredentialsInv, NEW mode \in Modes \ {"NONE"}, ControllerInit(mode)
    PROVE  CredentialsInv'
<1>1. PICK n \in Possible(InitCalls(mode)) :
         LET done == Done(InitCalls(mode), n) IN
         /\ wifiMode' = ModeAfterInit(mode, done)
         /\ loopCreated' = (loopCreated \/ "loop" \in done)
         /\ driver' = [driver EXCEPT !.up = @ \/ "wifi" \in done,
                                     !.sta = IF "sta" \in done THEN stored ELSE @]
         /\ UNCHANGED <<stored, joined, restoreFailed>>
  BY DEF ControllerInit
<1> DEFINE done == Done(InitCalls(mode), n)
<1>2. /\ wifiMode' = ModeAfterInit(mode, done)
      /\ driver' = [driver EXCEPT !.up = @ \/ "wifi" \in done,
                                  !.sta = IF "sta" \in done THEN stored ELSE @]
      /\ UNCHANGED <<stored, joined, restoreFailed>>
  BY <1>1
<1> HIDE DEF done
<1>3. /\ driver'.sta = IF "sta" \in done THEN stored ELSE driver.sta
      /\ driver' \in [up : BOOLEAN, started : BOOLEAN, sta : Credentials \cup {NoCredentials}]
  BY <1>2 DEF CredentialsInv
<1>4. /\ wifiMode' \in Modes
      /\ wifiMode' \in StaModes => "sta" \in done \/ wifiMode' = wifiMode
  BY <1>2 DEF ModeAfterInit, CredentialsInv, Modes, StaModes
<1> QED
  BY <1>2, <1>3, <1>4 DEF CredentialsInv, JoinsAsStored

\* A configuration made to its end has set the mode and, for a station, the credentials.
LEMMA ConfigComplete ==
    ASSUME NEW mode \in Modes \ {"NONE"}
    PROVE  LET done == Done(ConfigCalls(mode), Len(ConfigCalls(mode))) IN
           /\ Len(ConfigCalls(mode)) \in Nat
           /\ "mode" \in done
           /\ mode \in StaModes => "sta" \in done
<1>1. CASE mode = "STA"
  <2>1. ConfigCalls(mode) = <<"mode", "sta">>
    BY <1>1 DEF ConfigCalls
  <2> QED
    BY <2>1, <1>1 DEF Done
<1>2. CASE mode = "AP"
  <2>1. ConfigCalls(mode) = <<"mode", "ap">>
    BY <1>2 DEF ConfigCalls
  <2> QED
    BY <2>1, <1>2 DEF Done, StaModes
<1>3. CASE mode = "APSTA"
  <2>1. ConfigCalls(mode) = <<"mode", "sta", "ap">>
    BY <1>3 DEF ConfigCalls
  <2> QED
    BY <2>1, <1>3 DEF Done
<1> QED
  BY <1>1, <1>2, <1>3 DEF Modes

LEMMA RestoreKeepsCredentials ==
    ASSUME CredentialsInv, NEW mode \in Modes \ {"NONE"}, Restore(mode)
    PROVE  CredentialsInv'
<1> DEFINE length == Len(ConfigCalls(mode))
<1>1. PICK n \in 0..length :
         LET done == Done(ConfigCalls(mode), n) IN
         /\ wifiMode' = IF "mode" \in done THEN mode ELSE wifiMode
         /\ driver' = [driver EXCEPT !.sta = IF "sta" \in done THEN stored
                                             ELSE NoCredentials]
         /\ restoreFailed' = (restoreFailed \/ n < length)
  BY DEF Restore
<1> DEFINE done == Done(ConfigCalls(mode), n)
<1>2. /\ wifiMode' = IF "mode" \in done THEN mode ELSE wifiMode
      /\ driver' = [driver EXCEPT !.sta = IF "sta" \in done THEN stored ELSE NoCredentials]
      /\ restoreFailed' = (restoreFailed \/ n < length)
      /\ UNCHANGED <<stored, joined>>
  BY <1>1 DEF Restore
<1>3. length \in Nat
  BY ConfigComplete
<1>4. ~restoreFailed' => "mode" \in done /\ (mode \in StaModes => "sta" \in done)
  <2> SUFFICES ASSUME ~restoreFailed'
               PROVE  "mode" \in done /\ (mode \in StaModes => "sta" \in done)
    OBVIOUS
  <2>1. ~(n < length)
    BY <1>2
  <2>2. n = length
    <3> HIDE DEF length, done
    <3> QED
      BY <2>1, <1>3
  <2> QED
    BY <2>2, ConfigComplete
<1> HIDE DEF done, length
<1>5. /\ driver'.sta = IF "sta" \in done THEN stored ELSE NoCredentials
      /\ driver' \in [up : BOOLEAN, started : BOOLEAN, sta : Credentials \cup {NoCredentials}]
  BY <1>2 DEF CredentialsInv
<1>6. wifiMode' \in Modes /\ restoreFailed' \in BOOLEAN
  BY <1>2 DEF CredentialsInv
<1>7. wifiMode' \in StaModes => driver'.sta \in {stored', NoCredentials}
  BY <1>2, <1>5
<1>8. JoinsAsStored'
  BY <1>2, <1>4, <1>5 DEF CredentialsInv, JoinsAsStored
<1> QED
  BY <1>2, <1>5, <1>6, <1>7, <1>8 DEF CredentialsInv

\* Calls that leave the mode, the credentials of the driver and what is stored.
LEMMA DriverKeepsCredentials ==
    ASSUME CredentialsInv, UNCHANGED <<wifiMode, stored, restoreFailed>>,
           joined' = joined \/ (wifiMode \in StaModes /\ joined' = driver.sta),
           driver' \in [up : BOOLEAN, started : BOOLEAN, sta : Credentials \cup {NoCredentials}],
           driver'.sta = driver.sta
    PROVE  CredentialsInv'
BY DEF CredentialsInv, JoinsAsStored

LEMMA RestartKeepsCredentials ==
    ASSUME CredentialsInv, WifiRestart
    PROVE  CredentialsInv'
BY DEF CredentialsInv, JoinsAsStored, WifiRestart, Modes, StaModes

LEMMA StartupStepKeeps ==
    CredentialsInv /\ [WifiStartupNext]_wifiStartupVars => CredentialsInv'
<1> SUFFICES ASSUME CredentialsInv, [WifiStartupNext]_wifiStartupVars PROVE CredentialsInv'
  OBVIOUS
<1>1. ASSUME NEW mode \in Modes \ {"NONE"}, ControllerInit(mode) PROVE CredentialsInv'
  BY <1>1, InitKeepsCredentials
<1>2. ASSUME NEW mode \in Modes \ {"NONE"}, Restore(mode) PROVE CredentialsInv'
  BY <1>2, RestoreKeepsCredentials
<1>3. CASE WifiStart \/ WifiStop \/ WifiDeinit
  <2>1. /\ driver' \in [up : BOOLEAN, started : BOOLEAN, sta : Credentials \cup {NoCredentials}]
        /\ driver'.sta = driver.sta
        /\ UNCHANGED <<wifiMode, stored, restoreFailed, joined>>
    BY <1>3 DEF WifiStart, WifiStop, WifiDeinit, CredentialsInv
  <2> QED
    BY <2>1, DriverKeepsCredentials
<1>4. CASE WifiJoin
  BY <1>4, DriverKeepsCredentials DEF WifiJoin, CredentialsInv
<1>5. CASE WifiRestart
  BY <1>5, RestartKeepsCredentials
<1>6. CASE UNCHANGED wifiStartupVars
  BY <1>6 DEF wifiStartupVars, CredentialsInv, JoinsAsStored
<1> QED
  BY <1>1, <1>2, <1>3, <1>4, <1>5, <1>6 DEF WifiStartupNext

-----------------------------------------------------------------------------
(* Theorem.                                                                *)

\* Whatever call of the set-up fails and whatever is called after it, the station joins
\* with what the storage holds, for any credentials.
THEOREM JoinsCorrect == WifiStartupSpec => []JoinsAsStored
<1>1. CredentialsInv => JoinsAsStored
  BY DEF CredentialsInv
<1> QED
  BY <1>1, CredentialsInit, StartupStepKeeps, PTL DEF WifiStartupSpec

-----------------------------------------------------------------------------
(* The types of the parts.                                                 *)

LEMMA PinsKeep == GpioTypeOK /\ [GpioNext]_gpioVars => GpioTypeOK'
<1> SUFFICES ASSUME GpioTypeOK, [GpioNext]_gpioVars PROVE GpioTypeOK'
  OBVIOUS
<1> USE DEF GpioTypeOK
<1>1. ASSUME NEW g \in Gpios, NEW number \in GpioNumbers, BuildGpio(g, number)
      PROVE  GpioTypeOK'
  <2>1. CASE number \in PinNumbers /\ number \notin usedGpioNumbers
    BY <1>1, <2>1 DEF BuildGpio
  <2>2. CASE ~(number \in PinNumbers /\ number \notin usedGpioNumbers)
    BY <1>1, <2>2 DEF BuildGpio
  <2> QED
    BY <2>1, <2>2
<1>2. ASSUME NEW g \in Gpios, NEW mode \in GpioModes, SetMode(g, mode) PROVE GpioTypeOK'
  BY <1>2 DEF SetMode
<1>3. ASSUME NEW g \in Gpios, SetInterrupt(g) PROVE GpioTypeOK'
  BY <1>3 DEF SetInterrupt
<1>4. CASE UNCHANGED gpioVars
  BY <1>4 DEF gpioVars
<1> QED
  BY <1>1, <1>2, <1>3, <1>4 DEF GpioNext

\* The types of the pins and of what the driver of the converter has handed out; those of
\* the objects are in AdcInv.
ConverterInv == AdcInv /\ GpioTypeOK /\ claimedUnits \subseteq Units

LEMMA ConverterInit == GpioInit /\ AdcInit => ConverterInv
<1> SUFFICES ASSUME GpioInit, AdcInit PROVE ConverterInv
  OBVIOUS
<1>1. GpioTypeOK
  BY DEF GpioInit, GpioTypeOK, GpioModes
<1>2. claimedUnits \subseteq Units
  BY DEF AdcInit
<1> QED
  BY <1>1, <1>2, AdcInvInit DEF ConverterInv

LEMMA ConverterKeeps == ConverterInv /\ [AdcSystemNext]_AdcSystem => ConverterInv'
<1> SUFFICES ASSUME ConverterInv, [AdcSystemNext]_AdcSystem PROVE ConverterInv'
  OBVIOUS
<1>1. AdcInv'
  BY AdcStepKeeps DEF ConverterInv
<1>2. GpioTypeOK'
  BY PinsKeep DEF ConverterInv, AdcSystemNext, AdcSystem, gpioVars
<1>3. claimedUnits' \subseteq Units
  <2>1. CASE UNCHANGED claimedUnits
    BY <2>1 DEF ConverterInv
  <2>2. ASSUME NEW a \in Adcs, InitAdcFirst(a) PROVE claimedUnits' \subseteq Units
    <3>1. adcConfig[a][1] \in Units
      BY <2>2, ConfigsAre DEF InitAdcFirst
    <3> QED
      BY <2>2, <3>1 DEF InitAdcFirst, ConverterInv
  <2>3. ASSUME NEW a \in Adcs, DeinitAdc(a) PROVE claimedUnits' \subseteq Units
    BY <2>3 DEF DeinitAdc, ClearAdcUnitHandle, ConverterInv
  <2> QED
    BY <2>1, <2>2, <2>3
       DEF AdcSystemNext, AdcSystem, AdcNext, BuildAdc, InitAdcShared, adcVars
<1> QED
  BY <1>1, <1>2, <1>3 DEF ConverterInv

\* Configurations, handles and pins are of their types, for any objects and numbers.
THEOREM AdcTypeCorrect == AdcSpec => []AdcTypeOK
<1>1. ConverterInv => AdcTypeOK
  BY DEF ConverterInv, AdcInv, ConfigsRight, HandlesRight, AdcTypeOK
<1> QED
  BY <1>1, ConverterInit, ConverterKeeps, PTL DEF AdcSpec

\* A size is stored in a byte, whatever the length of the string.
THEOREM NvsTypeCorrect == NvsSpec => []NvsTypeOK
<1>1. NvsInv => NvsTypeOK
  BY DEF NvsInv
<1> QED
  BY <1>1, NvsInvInit, NvsStepKeeps, PTL DEF NvsSpec

\* The types of what CredentialsInv does not speak of, the driver's and the event loop's.
LoopInv ==
    CredentialsInv /\ loopCreated \in BOOLEAN /\ joined \in Credentials \cup {NoCredentials}

LEMMA LoopKeeps == LoopInv /\ [WifiStartupNext]_wifiStartupVars => LoopInv'
<1> SUFFICES ASSUME LoopInv, [WifiStartupNext]_wifiStartupVars PROVE LoopInv'
  OBVIOUS
<1>1. CredentialsInv'
  BY StartupStepKeeps DEF LoopInv
<1>2. loopCreated' \in BOOLEAN /\ joined' \in Credentials \cup {NoCredentials}
  <2>1. ASSUME NEW mode \in Modes \ {"NONE"}, ControllerInit(mode)
        PROVE  loopCreated' \in BOOLEAN /\ joined' = joined
    BY <2>1 DEF ControllerInit
  <2>2. ASSUME NEW mode \in Modes \ {"NONE"}, Restore(mode)
        PROVE  loopCreated' = loopCreated /\ joined' = joined
    BY <2>2 DEF Restore
  <2>3. CASE WifiStart \/ WifiStop \/ WifiDeinit \/ UNCHANGED wifiStartupVars
    BY <2>3 DEF WifiStart, WifiStop, WifiDeinit, wifiStartupVars, LoopInv
  <2>4. CASE WifiJoin
    BY <2>4 DEF WifiJoin, LoopInv, CredentialsInv
  <2>5. CASE WifiRestart
    BY <2>5 DEF WifiRestart
  <2> QED
    BY <2>1, <2>2, <2>3, <2>4, <2>5 DEF WifiStartupNext, LoopInv
<1> QED
  BY <1>1, <1>2 DEF LoopInv

\* mode_ and what the driver and the storage have are of their types.
THEOREM WifiStartupTypeCorrect == WifiStartupSpec => []WifiStartupTypeOK
<1>1. WifiStartupInit => LoopInv
  BY CredentialsInit DEF WifiStartupInit, LoopInv
<1>2. LoopInv => WifiStartupTypeOK
  BY DEF LoopInv, CredentialsInv, WifiStartupTypeOK
<1> QED
  BY <1>1, <1>2, LoopKeeps, PTL DEF WifiStartupSpec

-----------------------------------------------------------------------------
(* All of them.                                                            *)

\* The parts, working one beside the other, are each what it is alone: what is proved of a
\* part is true of the whole.
THEOREM PartsImplemented ==
    DriversSpec =>
        GroupSpec /\ HrSpec /\ AdcSpec /\ NvsSpec /\ WifiStartupSpec /\ SettingsSpec
<1>1. DriversInit => /\ GroupInit /\ HrInit /\ GpioInit /\ AdcInit /\ NvsInit
                     /\ WifiStartupInit /\ SettingsInit
  BY DEF DriversInit
<1>2. [DriversNext]_driversVars =>
        /\ [GroupNext]_groupVars
        /\ [HrNext]_hrVars
        /\ [AdcSystemNext]_AdcSystem
        /\ [NvsNext]_nvsVars
        /\ [WifiStartupNext]_wifiStartupVars
        /\ [SettingsNext]_settingsVars
  BY DEF DriversNext, driversVars, AdcSystem
<1> QED
  BY <1>1, <1>2, PTL
     DEF DriversSpec, GroupSpec, HrSpec, AdcSpec, NvsSpec, WifiStartupSpec, SettingsSpec

\* Every part of every state of the drivers is of its type, for any values of their
\* constants: a byte stays a byte, a count within its limit.
THEOREM DriversTypeCorrect == DriversSpec => []DriversTypeOK
<1>1. GroupTypeOK /\ HrTypeOK /\ AdcTypeOK /\ NvsTypeOK /\ WifiStartupTypeOK
        /\ SettingsTypeOK => DriversTypeOK
  BY DEF DriversTypeOK
<1> QED
  BY <1>1, PartsImplemented, GroupTypeCorrect, HrTypeCorrect, AdcTypeCorrect, NvsTypeCorrect,
     WifiStartupTypeCorrect, SettingsTypeCorrect, PTL

\* The invariants of the parts are those of the whole.
THEOREM DriversCorrect ==
    DriversSpec => /\ []StoredStringIsRead
                   /\ []JoinsAsStored
                   /\ []SettingsTakeEffect
                   /\ []LowDataRateWhenNeeded
                   /\ []CurrentLimited
                   /\ ImplementsTimerPool
                   /\ AdcHandlesOutliveUse
BY PartsImplemented, StoredStringCorrect, JoinsCorrect, SettingsCorrect, LowDataRateCorrect,
   CurrentCorrect, PoolImplemented, HandlesCorrect, PTL

\* So are those of the event group, as long as its calls do not overlap.
THEOREM DriversGroupCorrect ==
    ASSUME OneAtATime
    PROVE  DriversSpec => []CopyNeverMissesBit /\ CopyLagsByOneClear /\ OkMeansInSync
BY PartsImplemented, CopyIsComplete, LagCorrect, OkCorrect, PTL
=============================================================================
