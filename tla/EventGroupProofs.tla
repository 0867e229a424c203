-------------------------- MODULE EventGroupProofs --------------------------
(***************************************************************************)
(* What holds of sw::EventGroup for any tasks and bits: the steps of a     *)
(* call keep the types, and, when calls do not overlap, the copy never     *)
(* misses a bit of the kernel.                                             *)
(***************************************************************************)
EXTENDS EventGroup, TLAPS

LEMMA FinishedType == \A r \in Results : Finished(r) \in Calls
BY DEF Finished, Calls, Ops, Results

LEMMA InitType == GroupInit => GroupTypeOK
BY FinishedType DEF GroupInit, GroupTypeOK, Results

\* Starting a call keeps the types.
LEMMA BeginType ==
    ASSUME GroupTypeOK, NEW t \in Task, NEW op \in Ops, NEW b \in SUBSET Bit,
           Begin(t, op, b)
    PROVE  GroupTypeOK'
<1>1. InCall(op, b) \in Calls
  BY DEF GroupTypeOK, InCall, ExpectedAllBits, Calls, Ops, Results
<1> QED
  BY <1>1 DEF GroupTypeOK, Begin

\* Releasing waiting tasks keeps the types of the calls.
LEMMA ReleaseType ==
    ASSUME NEW c \in [Task -> Calls], NEW newBits \in SUBSET Bit
    PROVE  Release(c, newBits) \in [Task -> Calls]
<1> SUFFICES ASSUME NEW u \in Task
             PROVE  Release(c, newBits)[u] \in Calls
  BY DEF Release
<1>1. c[u] \in Calls
  OBVIOUS
<1>2. [c[u] EXCEPT !.phase = "store", !.ret = newBits] \in Calls
  BY <1>1 DEF Calls
<1> QED
  BY <1>1, <1>2 DEF Release

\* So do the kernel's steps of a call.
LEMMA KernelType ==
    ASSUME GroupTypeOK, NEW t \in Task, KernelStep(t)
    PROVE  GroupTypeOK'
<1>1. call \in [Task -> Calls] /\ call[t] \in Calls /\ bits \in SUBSET Bit
  BY DEF GroupTypeOK
<1>2. CASE KernelSet(t)
  <2>1. [call[t] EXCEPT !.phase = "return"] \in Calls
    BY <1>1 DEF Calls
  <2>2. [call EXCEPT ![t].phase = "return"] \in [Task -> Calls]
    BY <1>1, <2>1
  <2>3. bits' \in SUBSET Bit
    BY <1>1, <1>2 DEF KernelSet, Calls
  <2>4. call' \in [Task -> Calls]
    BY <1>2, <2>2, <2>3, ReleaseType DEF KernelSet
  <2> QED
    BY <1>2, <2>3, <2>4 DEF GroupTypeOK, KernelSet
<1>3. CASE ReturnSet(t) \/ KernelClear(t) \/ KernelWait(t)
  <2>1. [call[t] EXCEPT !.phase = "store", !.ret = bits] \in Calls
    BY <1>1 DEF Calls
  <2>2. call' \in [Task -> Calls]
    BY <1>1, <1>3, <2>1 DEF ReturnSet, KernelClear, KernelWait
  <2> QED
    BY <1>1, <1>3, <2>2 DEF GroupTypeOK, ReturnSet, KernelClear, KernelWait
<1> QED
  BY <1>2, <1>3 DEF KernelStep

\* And the end of a call.
LEMMA StoreType ==
    ASSUME GroupTypeOK, NEW t \in Task, Store(t)
    PROVE  GroupTypeOK'
<1>1. ResultOf(t) \in Results
  BY DEF ResultOf, Results
<1>2. call[t] \in Calls
  BY DEF GroupTypeOK
<1>3. allBits' \in SUBSET Bit
  BY <1>2 DEF Store, Calls
<1> QED
  BY <1>1, <1>3, FinishedType DEF GroupTypeOK, Store

\* So do the calls that are one step.
LEMMA AtomicType ==
    ASSUME GroupTypeOK, NEW b \in SUBSET Bit, AtomicSet(b) \/ AtomicClear(b)
    PROVE  GroupTypeOK'
<1>1. CASE AtomicSet(b)
  <2>1. bits' \in SUBSET Bit
    BY <1>1 DEF AtomicSet, GroupTypeOK
  <2>2. call' \in [Task -> Calls]
    BY <1>1, <2>1, ReleaseType DEF AtomicSet, GroupTypeOK
  <2> QED
    BY <1>1, <2>1, <2>2 DEF AtomicSet, GroupTypeOK
<1>2. CASE AtomicClear(b)
  BY <1>2 DEF AtomicClear, GroupTypeOK
<1> QED
  BY <1>1, <1>2

-----------------------------------------------------------------------------
(* The class on its own.                                                   *)

\* The state of the group is well typed, whatever calls its tasks make.
THEOREM GroupTypeCorrect == GroupSpec => []GroupTypeOK
<1>1. GroupInit => GroupTypeOK
  BY InitType
<1>2. GroupTypeOK /\ [GroupNext]_groupVars => GroupTypeOK'
  <2> SUFFICES ASSUME GroupTypeOK, [GroupNext]_groupVars
               PROVE  GroupTypeOK'
    OBVIOUS
  <2>1. CASE UNCHANGED groupVars
    BY <2>1 DEF groupVars, GroupTypeOK
  <2>2. ASSUME NEW t \in Task, NextOf(t)
        PROVE  GroupTypeOK'
    <3>1. CASE BeginWithoutBits(t)
      BY <3>1, FinishedType DEF BeginWithoutBits, GroupTypeOK, Results
    <3>2. ASSUME NEW op \in Ops, NEW b \in SUBSET Bit, Begin(t, op, b)
          PROVE  GroupTypeOK'
      BY <3>2, BeginType
    <3>3. CASE KernelStep(t)
      BY <3>3, KernelType
    <3>4. CASE Store(t)
      BY <3>4, StoreType
    <3> QED
      BY <2>2, <3>1, <3>2, <3>3, <3>4 DEF NextOf
  <2> QED
    BY <2>1, <2>2 DEF GroupNext
<1> QED
  BY <1>1, <1>2, PTL DEF GroupSpec

-----------------------------------------------------------------------------
(* Calls that do not overlap.                                              *)

\* At most one call is in progress.  Until it has done its part in the kernel the
\* copy misses nothing; from then on the value it will store does not.
OneCall == \A t, u \in Task : ~Idle(t) /\ ~Idle(u) => t = u

StoresAllBits ==
    \A t \in Task :
        /\ call[t].phase = "kernel" => bits \subseteq allBits
        /\ call[t].phase = "store" => bits \subseteq call[t].ret

SerialInv == GroupTypeOK /\ OneCall /\ StoresAllBits /\ CopyNeverMissesBit

\* With calls that do not overlap, isBitsSet never denies a bit that is set.
THEOREM CopyIsComplete ==
    ASSUME OneAtATime
    PROVE  GroupSpec => []CopyNeverMissesBit
<1>1. GroupInit => OneCall /\ StoresAllBits /\ CopyNeverMissesBit
  BY DEF GroupInit, OneCall, StoresAllBits, CopyNeverMissesBit, Idle, Finished
<1>2. ASSUME SerialInv, [GroupNext]_groupVars
      PROVE  (OneCall /\ StoresAllBits /\ CopyNeverMissesBit)'
  <2> USE DEF SerialInv
  <2>1. CASE UNCHANGED groupVars
    BY <1>2, <2>1 DEF groupVars, OneCall, StoresAllBits, CopyNeverMissesBit, Idle, Quiet
  <2>2. ASSUME NEW t \in Task, NextOf(t)
        PROVE  (OneCall /\ StoresAllBits /\ CopyNeverMissesBit)'
    <3>1. \A u \in Task : call[u] \in Calls
      BY <1>2 DEF GroupTypeOK
    <3>2. CASE BeginWithoutBits(t)
      BY <1>2, <3>1, <3>2
      DEF BeginWithoutBits, OneCall, StoresAllBits, CopyNeverMissesBit, Idle, Quiet,
          Finished, GroupTypeOK
    <3>3. ASSUME NEW op \in Ops, NEW b \in SUBSET Bit, Begin(t, op, b),
                 \A u \in Task : Idle(u)
          PROVE  (OneCall /\ StoresAllBits /\ CopyNeverMissesBit)'
      BY <1>2, <3>1, <3>3
      DEF Begin, OneCall, StoresAllBits, CopyNeverMissesBit, Idle, Quiet, InCall, GroupTypeOK
    <3>4. CASE KernelStep(t)
      <4>1. ~Idle(t) /\ \A u \in Task : u # t => Idle(u)
        BY <1>2, <3>4 DEF KernelStep, KernelSet, ReturnSet, KernelClear, KernelWait, Idle, OneCall
      <4>2. CASE KernelSet(t)
        <5> DEFINE c == [call EXCEPT ![t].phase = "return"]
        <5>1. c \in [Task -> Calls] /\ c[t].phase = "return"
          <6>1. [call[t] EXCEPT !.phase = "return"] \in Calls
            BY <3>1 DEF Calls
          <6> QED
            BY <1>2, <3>1, <6>1 DEF GroupTypeOK
        <5>2. \A u \in Task : u # t => c[u] = call[u] /\ c[u].phase = "idle"
          BY <1>2, <4>1 DEF Idle, GroupTypeOK
        <5>3. \A u \in Task : call'[u] = c[u]
          BY <4>2, <5>1, <5>2 DEF KernelSet, Release
        <5>4. \A u \in Task : call'[u].phase = IF u = t THEN "return" ELSE "idle"
          BY <5>1, <5>2, <5>3
        <5> HIDE DEF c
        <5> QED
          BY <4>1, <5>4 DEF OneCall, StoresAllBits, CopyNeverMissesBit, Idle, Quiet
      <4>3. CASE ReturnSet(t) \/ KernelClear(t) \/ KernelWait(t)
        BY <1>2, <3>1, <4>1, <4>3
        DEF ReturnSet, KernelClear, KernelWait, OneCall, StoresAllBits, CopyNeverMissesBit,
            Idle, Quiet, GroupTypeOK, Calls
      <4> QED
        BY <3>4, <4>2, <4>3 DEF KernelStep
    <3>5. CASE Store(t)
      BY <1>2, <3>1, <3>5
      DEF Store, OneCall, StoresAllBits, CopyNeverMissesBit, Idle, Quiet, Finished, GroupTypeOK
    <3> QED
      BY <2>2, <3>2, <3>3, <3>4, <3>5 DEF NextOf
  <2> QED
    BY <1>2, <2>1, <2>2 DEF GroupNext
<1>3. GroupSpec => []GroupTypeOK
  BY GroupTypeCorrect
<1> QED
  BY <1>1, <1>2, <1>3, PTL DEF GroupSpec, SerialInv

-----------------------------------------------------------------------------
(* How far the copy lags.                                                  *)

\* The value that a call will store is that of the kernel, but for the bits that it has
\* cleared itself; and a clear expects none of these.
ExactlyReturned ==
    \A t \in Task :
        /\ call[t].phase = "store" =>
              bits = IF call[t].op = "clear" THEN call[t].ret \ call[t].arg ELSE call[t].ret
        /\ call[t].phase = "return" => call[t].op = "set"
        /\ ~Idle(t) /\ call[t].op = "clear" => call[t].expected \cap call[t].arg = {}

ExactInv == GroupTypeOK /\ OneCall /\ ExactlyReturned

\* Whoever is in a call is alone in it.
LEMMA AloneInCall ==
    ASSUME GroupTypeOK, OneCall, NEW t \in Task, ~Idle(t)
    PROVE  \A u \in Task : u # t => Idle(u)
BY DEF OneCall

\* A set that the kernel makes releases nobody, there being no other call.
LEMMA NobodyReleased ==
    ASSUME GroupTypeOK, OneCall, NEW t \in Task, KernelSet(t)
    PROVE  /\ call'[t] = [call[t] EXCEPT !.phase = "return"]
           /\ \A u \in Task : u # t => call'[u] = call[u]
<1> DEFINE c == [call EXCEPT ![t].phase = "return"]
<1>1. call \in [Task -> Calls] /\ call[t] \in Calls
  BY DEF GroupTypeOK
<1>2. c[t] = [call[t] EXCEPT !.phase = "return"] /\ c[t].phase = "return"
  BY <1>1 DEF Calls
<1>3. \A u \in Task : u # t => c[u] = call[u] /\ c[u].phase = "idle"
  BY <1>1, AloneInCall DEF KernelSet, Idle
<1>4. \A u \in Task : call'[u] = c[u]
  BY <1>2, <1>3 DEF KernelSet, Release
<1> HIDE DEF c
<1> QED
  BY <1>2, <1>3, <1>4

LEMMA ExactStep ==
    ASSUME OneAtATime, ExactInv, [GroupNext]_groupVars
    PROVE  (OneCall /\ ExactlyReturned)'
<1> USE DEF ExactInv
<1>1. CASE UNCHANGED groupVars
  BY <1>1 DEF groupVars, OneCall, ExactlyReturned, Idle
<1>2. ASSUME NEW t \in Task, NextOf(t)
      PROVE  (OneCall /\ ExactlyReturned)'
  <2>1. call \in [Task -> Calls] /\ \A u \in Task : call[u] \in Calls
    BY DEF GroupTypeOK
  <2>2. CASE BeginWithoutBits(t)
    BY <2>1, <2>2 DEF BeginWithoutBits, OneCall, ExactlyReturned, Idle, Finished
  <2>3. ASSUME NEW op \in Ops, NEW b \in SUBSET Bit, Begin(t, op, b), \A u \in Task : Idle(u)
        PROVE  (OneCall /\ ExactlyReturned)'
    <3>1. /\ \A u \in Task : u # t => call'[u].phase = "idle"
          /\ call'[t] = InCall(op, b)
      BY <2>1, <2>3 DEF Begin, Idle
    <3>2. /\ call'[t].phase = "kernel" /\ call'[t].op = op
          /\ op = "clear" => call'[t].expected \cap call'[t].arg = {}
      BY <3>1 DEF InCall, ExpectedAllBits
    <3> QED
      BY <3>1, <3>2 DEF OneCall, ExactlyReturned, Idle
  <2>4. CASE KernelStep(t)
    <3>1. ~Idle(t) /\ \A u \in Task : u # t => Idle(u)
      BY <2>4, AloneInCall
      DEF KernelStep, KernelSet, ReturnSet, KernelClear, KernelWait, Idle
    <3>2. CASE KernelSet(t)
      <4>1. /\ call'[t].phase = "return" /\ call'[t].op = "set"
            /\ \A u \in Task : u # t => call'[u].phase = "idle"
        BY <2>1, <3>1, <3>2, NobodyReleased DEF KernelSet, Idle, Calls
      <4> QED
        BY <4>1 DEF OneCall, ExactlyReturned, Idle
    <3>3. CASE ReturnSet(t) \/ KernelClear(t) \/ KernelWait(t)
      <4>1. /\ call'[t].phase = "store" /\ call'[t].op = call[t].op
            /\ call'[t].arg = call[t].arg /\ call'[t].expected = call[t].expected
            /\ call'[t].ret = bits
            /\ \A u \in Task : u # t => call'[u].phase = "idle"
        BY <2>1, <3>1, <3>3 DEF ReturnSet, KernelClear, KernelWait, Idle, Calls
      <4>2. bits' = IF call[t].op = "clear" THEN bits \ call[t].arg ELSE bits
        BY <3>3 DEF ReturnSet, KernelClear, KernelWait, ExactlyReturned
      <4>3. OneCall'
        BY <4>1 DEF OneCall, Idle
      <4>4. call[t].op = "clear" => call[t].expected \cap call[t].arg = {}
        BY <3>1 DEF ExactlyReturned
      <4>5. ASSUME NEW u \in Task, ~Idle(u)'
            PROVE  u = t
        BY <4>1, <4>5 DEF Idle
      <4>6. call'[t].phase # "return"
        BY <4>1
      <4>7. ExactlyReturned'
        BY <4>1, <4>2, <4>4, <4>5, <4>6 DEF ExactlyReturned, Idle
      <4> QED
        BY <4>3, <4>7
    <3> QED
      BY <2>4, <3>2, <3>3 DEF KernelStep
  <2>5. CASE Store(t)
    BY <2>1, <2>5 DEF Store, OneCall, ExactlyReturned, Idle, Finished
  <2> QED
    BY <1>2, <2>2, <2>3, <2>4, <2>5 DEF NextOf
<1> QED
  BY <1>1, <1>2 DEF GroupNext

LEMMA ExactAlways == ASSUME OneAtATime PROVE GroupSpec => []ExactInv
<1>1. GroupInit => OneCall /\ ExactlyReturned
  BY DEF GroupInit, OneCall, ExactlyReturned, Idle, Finished
<1>2. ExactInv /\ [GroupNext]_groupVars => (OneCall /\ ExactlyReturned)'
  BY ExactStep
<1> QED
  BY <1>1, <1>2, GroupTypeCorrect, PTL DEF GroupSpec, ExactInv

\* A call that completes is the one that stores.
LEMMA CompletesByStore ==
    ASSUME OneAtATime, ExactInv, [GroupNext]_groupVars, NEW t \in Task, Completes(t)
    PROVE  /\ allBits' = call[t].ret /\ bits' = bits
           /\ call'[t].result = ResultOf(t)
<1>1. PICK u \in Task : NextOf(u)
  BY DEF groupVars, Completes, GroupNext
<1>2. ~Idle(t) /\ call[t].phase = "store"
  BY DEF Completes, Idle
<1>3. ~BeginWithoutBits(u) /\ ~(\E op \in Ops, b \in SUBSET Bit : Begin(u, op, b))
  BY <1>1, <1>2 DEF NextOf, BeginWithoutBits, Begin, Idle, ExactInv, GroupTypeOK, Completes
<1>4. ~Idle(u)
  BY <1>1, <1>3 DEF NextOf, KernelStep, KernelSet, ReturnSet, KernelClear, KernelWait, Store,
                    Idle
<1>5. u = t
  BY <1>2, <1>4 DEF ExactInv, OneCall
<1>6. Store(t)
  BY <1>1, <1>2, <1>3, <1>5
  DEF NextOf, KernelStep, KernelSet, ReturnSet, KernelClear, KernelWait
<1>7. call'[t] = Finished(ResultOf(t))
  BY <1>6 DEF Store, ExactInv, GroupTypeOK
<1> QED
  BY <1>6, <1>7 DEF Store, Finished

\* After a call the copy has no bit that the kernel lacks, but for those which this very
\* call has cleared.
THEOREM LagCorrect == ASSUME OneAtATime PROVE GroupSpec => CopyLagsByOneClear
<1>1. ASSUME ExactInv, [GroupNext]_groupVars, NEW t \in Task, Completes(t)
      PROVE  allBits' \ bits' \subseteq
                (IF call[t].op = "clear" THEN call[t].arg \cap call[t].ret ELSE {})
  BY <1>1, CompletesByStore DEF ExactInv, ExactlyReturned, Completes
<1>2. ExactInv /\ [GroupNext]_groupVars =>
        [\A t \in Task : Completes(t) =>
             allBits' \ bits' \subseteq
                (IF call[t].op = "clear" THEN call[t].arg \cap call[t].ret ELSE {})]_groupVars
  BY <1>1
<1> QED
  BY <1>2, ExactAlways, PTL DEF GroupSpec, CopyLagsByOneClear

\* After a call that gives OK the copy is what the kernel holds.
THEOREM OkCorrect == ASSUME OneAtATime PROVE GroupSpec => OkMeansInSync
<1>1. ASSUME ExactInv, [GroupNext]_groupVars, NEW t \in Task, Completes(t),
             call'[t].result = "OK"
      PROVE  allBits' = bits'
  <2>1. call[t].ret = call[t].expected
    BY <1>1, CompletesByStore DEF ResultOf
  <2> QED
    BY <1>1, <2>1, CompletesByStore DEF ExactInv, ExactlyReturned, Completes, Idle
<1>2. ExactInv /\ [GroupNext]_groupVars =>
        [\A t \in Task : Completes(t) /\ call'[t].result = "OK" => allBits' = bits']_groupVars
  BY <1>1
<1> QED
  BY <1>2, ExactAlways, PTL DEF GroupSpec, OkMeansInSync
=============================================================================
