-------------------------------- MODULE HrTimer --------------------------------
(***************************************************************************)
(* timer::hw::HrTimer: timers of esp_timer, of which at most               *)
(* MAX_TIMER_COUNT exist.  Each has a number; the number of a timer that   *)
(* is given up goes to the end of a queue and is given again from there.   *)
(*                                                                         *)
(* A timer is not started or stopped before its first init, nor after its  *)
(* deinit: handle_ is then nullptr, or what esp_timer has freed.           *)
(***************************************************************************)
EXTENDS Naturals, Sequences

CONSTANTS HrTimers,         \* the objects
          MAX_TIMER_COUNT   \* MAX_TIMER_COUNT (4)

ASSUME HrTimerAssumption == MAX_TIMER_COUNT \in Nat

VARIABLES timerCount,            \* timerCount_
          availableTimerNumber,  \* availableTimerNumber_
          timerNumber,           \* timerNumber_ of each object, 0 for TIMER_NOT_EXIST
          espTimer               \* what esp_timer has for each object

hrVars == <<timerCount, availableTimerNumber, timerNumber, espTimer>>

HrInit ==
    /\ timerCount = 0
    /\ availableTimerNumber = <<>>
    /\ timerNumber = [t \in HrTimers |-> 0]
    /\ espTimer = [t \in HrTimers |-> "none"]

\* setTimerNumber_, which is called with the timer counted already.
NewTimerNumber ==
    IF availableTimerNumber # <<>> THEN Head(availableTimerNumber) ELSE timerCount + 1

NumbersLeft ==
    IF availableTimerNumber # <<>> THEN Tail(availableTimerNumber) ELSE <<>>

-----------------------------------------------------------------------------
(* init and deinit.                                                        *)

\* A timer that has a number is refused with INVALID_STATE, one too many with FAIL.
HrMayInit(t) == timerNumber[t] = 0 /\ timerCount < MAX_TIMER_COUNT

HrInitSucceeds(t) ==
    /\ HrMayInit(t)
    /\ timerCount' = timerCount + 1
    /\ availableTimerNumber' = NumbersLeft
    /\ timerNumber' = [timerNumber EXCEPT ![t] = NewTimerNumber]
    /\ espTimer' = [espTimer EXCEPT ![t] = "stopped"]

\* esp_timer_create fails: removeTimerProperties_ gives the number back.
HrInitFails(t) ==
    /\ HrMayInit(t)
    /\ availableTimerNumber' = Append(NumbersLeft, NewTimerNumber)
    /\ UNCHANGED <<timerCount, timerNumber, espTimer>>

\* Mutant: the number is given back and kept.
HrDeinitKeepingNumber(t) ==
    /\ timerNumber[t] # 0
    /\ timerCount' = timerCount - 1
    /\ availableTimerNumber' = Append(availableTimerNumber, timerNumber[t])
    /\ espTimer' = [espTimer EXCEPT ![t] = "none"]
    /\ UNCHANGED timerNumber

\* A timer that runs is not deleted by esp_timer: it is stopped and deleted then.
HrDeinit(t) ==
    /\ timerNumber[t] # 0
    /\ timerCount' = timerCount - 1
    /\ availableTimerNumber' = Append(availableTimerNumber, timerNumber[t])
    /\ timerNumber' = [timerNumber EXCEPT ![t] = 0]
    /\ espTimer' = [espTimer EXCEPT ![t] = "none"]

-----------------------------------------------------------------------------
(* Starting and stopping.                                                  *)

\* esp_timer's start refuses a timer that runs, and its restart lets the timer be of the
\* kind it is: startPeriodic of a timer that runs once gives OK and leaves it so.
StartAs(t, kind) ==
    /\ espTimer[t] # "none"
    /\ espTimer' = [espTimer EXCEPT ![t] = IF @ = "stopped" THEN kind ELSE @]
    /\ UNCHANGED <<timerCount, availableTimerNumber, timerNumber>>

StartOnce(t)     == StartAs(t, "once")
StartPeriodic(t) == StartAs(t, "periodic")

HrStop(t) ==
    /\ espTimer[t] # "none"
    /\ espTimer' = [espTimer EXCEPT ![t] = "stopped"]
    /\ UNCHANGED <<timerCount, availableTimerNumber, timerNumber>>

HrTimerFires(t) ==
    /\ espTimer[t] = "once"
    /\ espTimer' = [espTimer EXCEPT ![t] = "stopped"]
    /\ UNCHANGED <<timerCount, availableTimerNumber, timerNumber>>

HrNext ==
    \E t \in HrTimers :
       \/ HrInitSucceeds(t) \/ HrInitFails(t) \/ HrDeinit(t)
       \/ StartOnce(t) \/ StartPeriodic(t) \/ HrStop(t) \/ HrTimerFires(t)

HrSpec == HrInit /\ [][HrNext]_hrVars

-----------------------------------------------------------------------------
(* Properties.                                                             *)

HrTypeOK ==
    /\ timerCount \in 0..MAX_TIMER_COUNT
    /\ availableTimerNumber \in Seq(1..MAX_TIMER_COUNT)
    /\ timerNumber \in [HrTimers -> 0..MAX_TIMER_COUNT]
    /\ espTimer \in [HrTimers -> {"none", "stopped", "once", "periodic"}]

Pool == INSTANCE TimerPool

\* The numbers, given out in any order and given back in any other, are never held by
\* two timers, and a timer only ever gets a free one: HrTimer implements TimerPool.
ImplementsTimerPool == Pool!PoolSpec
=============================================================================
