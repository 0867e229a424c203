----------------------------- MODULE EventGroup -----------------------------
(***************************************************************************)
(* sw::EventGroup (core/software): a wrapper of a FreeRTOS event group     *)
(* that keeps a copy of the kernel's bits, allBits_, so that isBitsSet     *)
(* need not enter the kernel.  The copy is an ordinary member, read and    *)
(* written without a lock by every task that uses the group.               *)
(*                                                                         *)
(* One call is made of the steps between which another task can run: read  *)
(* the copy and compute the expected value, let the kernel change its      *)
(* bits, fetch the value it returns, store that value in the copy.  A set  *)
(* of bits stands for the uint32_t of the code.                            *)
(***************************************************************************)
EXTENDS FiniteSets

CONSTANTS Task,       \* the tasks that call the group
          Bit,        \* the bits in use
          OneAtATime  \* TRUE: a call starts only when no other is in progress

ASSUME OneAtATimeAssumption == OneAtATime \in BOOLEAN

VARIABLES bits,     \* the kernel's bits
          allBits,  \* allBits_, the copy
          call      \* the call each task is executing

groupVars == <<bits, allBits, call>>

-----------------------------------------------------------------------------
Ops     == {"set", "clear", "wait"}
Results == {"none", "OK", "FAIL", "INVALID_ARG", "TIMEOUT"}

Calls == [phase : {"idle", "kernel", "return", "store"},
          op : Ops, arg : SUBSET Bit,
          expected : SUBSET Bit, ret : SUBSET Bit, result : Results]

Finished(r) == [phase |-> "idle", op |-> "set", arg |-> {},
                expected |-> {}, ret |-> {}, result |-> r]

GroupInit ==
    /\ bits = {}
    /\ allBits = {}
    /\ call = [t \in Task |-> Finished("none")]

GroupTypeOK ==
    /\ bits \in SUBSET Bit
    /\ allBits \in SUBSET Bit
    /\ call \in [Task -> Calls]

Idle(t) == call[t].phase = "idle"

\* isBitsSet reads the copy, and is true when any of the bits is in it.
IsBitsSet(b) == allBits \cap b # {}

-----------------------------------------------------------------------------
(* The steps of one call.                                                  *)

\* expectedAllBits, computed from the copy when the call starts.
ExpectedAllBits(op, b) == IF op = "clear" THEN allBits \ b ELSE allBits \cup b

InCall(op, b) ==
    [phase |-> "kernel", op |-> op, arg |-> b,
     expected |-> ExpectedAllBits(op, b), ret |-> {}, result |-> "none"]

Begin(t, op, b) ==
    /\ Idle(t)
    /\ b # {}
    /\ call' = [call EXCEPT ![t] = InCall(op, b)]
    /\ UNCHANGED <<bits, allBits>>

\* A call without bits returns before it touches anything.
BeginWithoutBits(t) ==
    /\ Idle(t)
    /\ call' = [call EXCEPT ![t] = Finished("INVALID_ARG")]
    /\ UNCHANGED <<bits, allBits>>

\* xEventGroupSetBits releases the tasks whose wait the new bits satisfy; each
\* gets the bits of that moment as the result of its wait.
Release(c, newBits) ==
    [u \in Task |-> IF c[u].phase = "kernel" /\ c[u].op = "wait" /\ c[u].arg \subseteq newBits
                    THEN [c[u] EXCEPT !.phase = "store", !.ret = newBits]
                    ELSE c[u]]

\* Mutant: the result is the bits before the set, as for a clear.
KernelSetReturnsOld(t) ==
    /\ call[t].phase = "kernel" /\ call[t].op = "set"
    /\ bits' = bits \cup call[t].arg
    /\ call' = Release([call EXCEPT ![t].phase = "store", ![t].ret = bits], bits')
    /\ UNCHANGED allBits

KernelSet(t) ==
    /\ call[t].phase = "kernel" /\ call[t].op = "set"
    /\ bits' = bits \cup call[t].arg
    /\ call' = Release([call EXCEPT ![t].phase = "return"], bits')
    /\ UNCHANGED allBits

\* xEventGroupSetBits reads its result when the scheduler runs again.
ReturnSet(t) ==
    /\ call[t].phase = "return"
    /\ call' = [call EXCEPT ![t].phase = "store", ![t].ret = bits]
    /\ UNCHANGED <<bits, allBits>>

\* xEventGroupClearBits returns the bits as they were before it cleared any.
KernelClear(t) ==
    /\ call[t].phase = "kernel" /\ call[t].op = "clear"
    /\ bits' = bits \ call[t].arg
    /\ call' = [call EXCEPT ![t].phase = "store", ![t].ret = bits]
    /\ UNCHANGED allBits

\* xEventGroupWaitBits returns the current bits: all those asked for are set, or
\* the time is over.
KernelWait(t) ==
    /\ call[t].phase = "kernel" /\ call[t].op = "wait"
    /\ call' = [call EXCEPT ![t].phase = "store", ![t].ret = bits]
    /\ UNCHANGED <<bits, allBits>>

KernelStep(t) == KernelSet(t) \/ ReturnSet(t) \/ KernelClear(t) \/ KernelWait(t)

\* Mutant: the comparison looks at the requested bits alone.
ResultOfRequested(t) ==
    IF IF call[t].op = "clear" THEN call[t].ret \ call[t].arg = call[t].expected
                               ELSE call[t].arg \subseteq call[t].ret
    THEN "OK" ELSE "FAIL"

\* The outcome of the comparison that ends a call, the same for set, clear and wait.
ResultOf(t) == IF call[t].ret = call[t].expected THEN "OK" ELSE "FAIL"

\* Mutant: the copy becomes the value the caller expects.
StoreExpected(t) ==
    /\ call[t].phase = "store"
    /\ allBits' = call[t].expected
    /\ call' = [call EXCEPT ![t] = Finished(ResultOf(t))]
    /\ UNCHANGED bits

Store(t) ==
    /\ call[t].phase = "store"
    /\ allBits' = call[t].ret
    /\ call' = [call EXCEPT ![t] = Finished(ResultOf(t))]
    /\ UNCHANGED bits

-----------------------------------------------------------------------------
(* A call made by a task that no other user of the group can preempt: its  *)
(* steps are one.                                                          *)

AtomicSet(b) ==
    /\ bits' = bits \cup b
    /\ allBits' = bits'
    /\ call' = Release(call, bits')

AtomicClear(b) ==
    /\ bits' = bits \ b
    /\ allBits' = bits
    /\ UNCHANGED call

-----------------------------------------------------------------------------
(* The class on its own: tasks that make any calls.                        *)

NextOf(t) ==
    \/ /\ OneAtATime => \A u \in Task : Idle(u)
       /\ \/ BeginWithoutBits(t)
          \/ \E op \in Ops, b \in SUBSET Bit : Begin(t, op, b)
    \/ KernelStep(t)
    \/ Store(t)

GroupNext == \E t \in Task : NextOf(t)

GroupSpec == GroupInit /\ [][GroupNext]_groupVars

-----------------------------------------------------------------------------
(* Properties of calls that do not overlap.                                *)

Quiet == \A t \in Task : Idle(t)

Completes(t) == call[t].phase = "store" /\ call'[t].phase = "idle"

\* Between calls the copy holds every bit the kernel holds: isBitsSet never denies
\* a bit that is set.
CopyNeverMissesBit == Quiet => bits \subseteq allBits

\* A call leaves in the copy at most one kind of stale bit: those a clear has
\* just cleared.  A set, a wait or a second clear removes them.
CopyLagsByOneClear ==
    [][\A t \in Task : Completes(t) =>
         allBits' \ bits' \subseteq
            (IF call[t].op = "clear" THEN call[t].arg \cap call[t].ret ELSE {})]_groupVars

\* A call that returns OK leaves the copy equal to the kernel's bits.
OkMeansInSync ==
    [][\A t \in Task : Completes(t) /\ call'[t].result = "OK" => allBits' = bits']_groupVars

\* What eventgroup.hpp says of clear: FAIL means that the bits were not cleared.
\* The code returns FAIL whenever a bit was set and has been cleared.
FailedClearLeavesABit ==
    [][\A t \in Task : Completes(t) /\ call[t].op = "clear" /\ call'[t].result = "FAIL"
                         => call[t].arg \cap bits' # {}]_groupVars

\* What eventgroup.hpp says of wait: TIMEOUT when the time is over before the bits are
\* set.  The code has one comparison for all operations, and returns FAIL.
TimeoutIsReported ==
    [][\A t \in Task : /\ Completes(t)
                      /\ call[t].op = "wait"
                      /\ ~(call[t].arg \subseteq call[t].ret)
                      => call'[t].result = "TIMEOUT"]_groupVars
=============================================================================
