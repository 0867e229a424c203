------------------------------- MODULE TimerPool -------------------------------
(***************************************************************************)
(* What the timers of HrTimer promise of their numbers: each is held by    *)
(* one timer at most, and any timer that has none may get a free one.      *)
(***************************************************************************)
EXTENDS Naturals

CONSTANTS HrTimers,         \* the objects
          MAX_TIMER_COUNT   \* the numbers are 1..MAX_TIMER_COUNT

VARIABLE timerNumber  \* the number of each timer, 0 when it has none

Held == {timerNumber[t] : t \in HrTimers} \ {0}

PoolInit == timerNumber = [t \in HrTimers |-> 0]

Acquire(t) ==
    /\ timerNumber[t] = 0
    /\ \E n \in (1..MAX_TIMER_COUNT) \ Held : timerNumber' = [timerNumber EXCEPT ![t] = n]

Release(t) ==
    /\ timerNumber[t] # 0
    /\ timerNumber' = [timerNumber EXCEPT ![t] = 0]

PoolNext == \E t \in HrTimers : Acquire(t) \/ Release(t)

PoolSpec == PoolInit /\ [][PoolNext]_timerNumber
=============================================================================
