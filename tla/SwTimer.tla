------------------------------- MODULE SwTimer -------------------------------
(***************************************************************************)
(* timer::sw::Timer (core/software), as its users see it: a one-shot timer *)
(* is "idle" or "armed".  Every command goes through the timer task's      *)
(* queue with no time to wait, so a full queue refuses it and the timer    *)
(* stays as it was.  startOnce sends two commands, a change of period,     *)
(* which by itself starts a dormant timer, and a start: once the first is  *)
(* accepted the timer runs.                                                *)
(***************************************************************************)
CONSTANT TimerQueueMayBeFull  \* FALSE: the timer task always has room for a command

ASSUME TimerQueueAssumption == TimerQueueMayBeFull \in BOOLEAN

TimerStates == {"idle", "armed"}

Refused(timer) == IF TimerQueueMayBeFull THEN {timer} ELSE {}

\* The states startOnce, or stop, may leave the timer in.
AfterStartOnce(timer) == {"armed"} \cup Refused(timer)
AfterStop(timer)      == {"idle"} \cup Refused(timer)
=============================================================================
