------------------------- MODULE AwsIotThreadProofs -------------------------
(***************************************************************************)
(* Proofs about AwsIotThread for any length of its queues, any number of   *)
(* attempts and any times: its types, that there is one reason to connect  *)
(* at a time, that AWS_CONNECTED_BIT follows the session, that the thread  *)
(* implements AwsConnection, and that the pauses between attempts grow.    *)
(***************************************************************************)
EXTENDS AwsIotThread, EventGroupProofs

-----------------------------------------------------------------------------
(* Types.                                                                  *)

\* Sending a led event and taking one keep the queue within its length.
LEMMA LedType ==
    ASSUME LedTypeOK, (\E e \in LedEvent : SendLed(e)) \/ ReceiveLed \/ UNCHANGED ledEventQueue
    PROVE  LedTypeOK'
BY LedCapacityAssumption DEF LedTypeOK, SendLed, ReceiveLed

\* The state of the thread proper is well typed.
ThreadTypeOK ==
    /\ pc \in Labels
    /\ isConnectTriggered \in BOOLEAN
    /\ connectCounter \in 0..(MAX_CONNECT_ATTEMPTS - 1)
    /\ reconnectTimer \in TimerStates
    /\ reconnectTime \in {0} \cup ReconnectTimes
    /\ session \in Sessions

TelemetryTypeOK ==
    telemetryQueue \in Seq(Reading) /\ Len(telemetryQueue) <= TelemetryCapacity

\* The times handleReconnect_ asks for are the growing ones and the long one.
LEMMA HandleReconnectType ==
    ASSUME ThreadTypeOK, HandleReconnect
    PROVE  /\ connectCounter' \in 0..(MAX_CONNECT_ATTEMPTS - 1)
           /\ reconnectTimer' \in TimerStates
           /\ reconnectTime' \in {0} \cup ReconnectTimes
<1>1. connectCounter' \in 0..(MAX_CONNECT_ATTEMPTS - 1)
  BY AwsAssumption DEF ThreadTypeOK, HandleReconnect
<1>2. reconnectTimer' \in TimerStates
  BY DEF ThreadTypeOK, HandleReconnect, AfterStartOnce, Refused, TimerStates
<1>3. reconnectTime' \in {0} \cup ReconnectTimes
  <2>1. CASE connectCounter + 1 >= MAX_CONNECT_ATTEMPTS
    BY <2>1 DEF HandleReconnect, TimeAfter, ReconnectTimes
  <2>2. CASE ~(connectCounter + 1 >= MAX_CONNECT_ATTEMPTS)
    <3>1. connectCounter + 1 \in 1..(MAX_CONNECT_ATTEMPTS - 1)
      BY <2>2, AwsAssumption DEF ThreadTypeOK
    <3>2. reconnectTime' = (connectCounter + 1) * RECONNECT_TIME
      BY <2>2, AwsAssumption DEF HandleReconnect, TimeAfter, ThreadTypeOK
    <3> QED
      BY <3>1, <3>2 DEF ReconnectTimes
  <2> QED
    BY <2>1, <2>2
<1> QED
  BY <1>1, <1>2, <1>3

\* Every step keeps the types of the group and of the led queue.
LEMMA SharedType ==
    ASSUME GroupTypeOK, LedTypeOK, [AwsNext]_awsSystem
    PROVE  GroupTypeOK' /\ LedTypeOK'
<1>1. Aws \in Task /\ {WIFI_CONNECTED_BIT} \in SUBSET Bit /\ {AWS_CONNECTED_BIT} \in SUBSET Bit
  BY AwsAssumption, BitAssumption
<1>2. GroupTypeOK'
  <2>1. CASE InKernel
    BY <1>1, <2>1, KernelType DEF InKernel
  <2>2. CASE WaitForWifi \/ SetAwsBit \/ ClearAwsBit
    BY <1>1, <2>2, BeginType DEF WaitForWifi, SetAwsBit, ClearAwsBit, Ops
  <2>3. CASE WaitEnds \/ SetAwsBitEnds \/ ClearAwsBitEnds
    BY <1>1, <2>3, StoreType DEF WaitEnds, SetAwsBitEnds, ClearAwsBitEnds
  <2>4. CASE WifiSetsBit \/ WifiClearsBit
    BY <1>1, <2>4, AtomicType DEF WifiSetsBit, WifiClearsBit
  <2>5. CASE UNCHANGED groupVars
    BY <2>5 DEF groupVars, GroupTypeOK
  <2> QED
    BY <2>1, <2>2, <2>3, <2>4, <2>5
    DEF AwsNext, AwsThread, AwsSurroundings, awsSystem, Yield, TakeTrigger, ConnectSucceeds,
        ConnectFails, AnnounceConnected, PublishTelemetry, ClientYield, AnnounceDisconnected,
        ReconnectTimerFires, SessionLost, ReadingArrives, UiTakesLedEvent, OthersSendLed
<1>3. LedTypeOK'
  <2>1. (\E e \in LedEvent : SendLed(e)) \/ ReceiveLed \/ UNCHANGED ledEventQueue
    BY DEF LedEvent, AwsNext, AwsThread, AwsSurroundings, awsSystem, WaitForWifi, WaitEnds,
           InKernel, Yield, TakeTrigger, ConnectSucceeds, ConnectFails, SetAwsBit,
           SetAwsBitEnds, AnnounceConnected, PublishTelemetry, ClientYield, ClearAwsBit,
           ClearAwsBitEnds, AnnounceDisconnected, ReconnectTimerFires, SessionLost,
           ReadingArrives, UiTakesLedEvent, WifiSetsBit, WifiClearsBit, OthersSendLed
  <2> QED
    BY <2>1, LedType
<1> QED
  BY <1>2, <1>3

\* Every step keeps the types of the thread proper.
LEMMA ThreadType ==
    ASSUME ThreadTypeOK, [AwsNext]_awsSystem
    PROVE  ThreadTypeOK'
<1>1. CASE ConnectFails
  BY <1>1, HandleReconnectType DEF ConnectFails, HandleReconnect, ThreadTypeOK, Labels
<1>2. CASE AwsThread /\ ~ConnectFails
  BY <1>2
  DEF AwsThread, awsVars, retryVars, ThreadTypeOK, Labels, Sessions, WaitForWifi, WaitEnds,
      InKernel, Yield, TakeTrigger, ConnectSucceeds, SetAwsBit, SetAwsBitEnds,
      AnnounceConnected, PublishTelemetry, ClientYield, ClearAwsBit, ClearAwsBitEnds,
      AnnounceDisconnected
<1>3. CASE AwsSurroundings
  BY <1>3
  DEF AwsSurroundings, awsVars, retryVars, ThreadTypeOK, TimerStates, Sessions,
      ReconnectTimerFires, SessionLost, ReadingArrives, UiTakesLedEvent, WifiSetsBit,
      WifiClearsBit, OthersSendLed
<1>4. CASE UNCHANGED awsSystem
  BY <1>4 DEF awsSystem, awsVars, ThreadTypeOK
<1> QED
  BY <1>1, <1>2, <1>3, <1>4 DEF AwsNext

\* Every step keeps the telemetry queue within its length.
LEMMA TelemetryType ==
    ASSUME TelemetryTypeOK, [AwsNext]_awsSystem
    PROVE  TelemetryTypeOK'
<1>1. CASE PublishTelemetry
  BY <1>1, AwsAssumption DEF PublishTelemetry, TelemetryTypeOK
<1>2. CASE ReadingArrives
  BY <1>2, AwsAssumption DEF ReadingArrives, TelemetryTypeOK
<1>3. CASE UNCHANGED telemetryQueue
  BY <1>3 DEF TelemetryTypeOK
<1> QED
  BY <1>1, <1>2, <1>3
  DEF AwsNext, AwsThread, AwsSurroundings, awsSystem, awsVars, WaitForWifi, WaitEnds, InKernel,
      Yield, TakeTrigger, ConnectSucceeds, ConnectFails, SetAwsBit, SetAwsBitEnds,
      AnnounceConnected, ClientYield, ClearAwsBit, ClearAwsBitEnds, AnnounceDisconnected,
      ReconnectTimerFires, SessionLost, UiTakesLedEvent, WifiSetsBit, WifiClearsBit,
      OthersSendLed

\* The state stays well typed: connectCounter never reaches MAX_CONNECT_ATTEMPTS, and
\* the timer is only asked for the times of the code.
THEOREM AwsTypeCorrect == AwsSpec => []AwsTypeOK
<1>1. AwsInit => AwsTypeOK
  <2> SUFFICES ASSUME AwsInit PROVE AwsTypeOK
    OBVIOUS
  <2>1. GroupTypeOK
    BY InitType DEF AwsInit
  <2>2. LedTypeOK
    BY LedCapacityAssumption DEF AwsInit, LedInit, LedTypeOK
  <2>3. ThreadTypeOK
    <3>1. connectCounter \in 0..(MAX_CONNECT_ATTEMPTS - 1)
      BY AwsAssumption DEF AwsInit
    <3>2. isConnectTriggered \in BOOLEAN
      BY DEF AwsInit
    <3> QED
      BY <3>1, <3>2 DEF AwsInit, ThreadTypeOK, Labels, TimerStates, Sessions
  <2>4. TelemetryTypeOK
    BY AwsAssumption DEF AwsInit, TelemetryTypeOK
  <2> QED
    BY <2>1, <2>2, <2>3, <2>4 DEF AwsTypeOK, ThreadTypeOK, TelemetryTypeOK
<1>2. AwsTypeOK /\ [AwsNext]_awsSystem => AwsTypeOK'
  <2>1. AwsTypeOK <=> GroupTypeOK /\ LedTypeOK /\ ThreadTypeOK /\ TelemetryTypeOK
    BY DEF AwsTypeOK, ThreadTypeOK, TelemetryTypeOK
  <2>2. AwsTypeOK' <=> (GroupTypeOK /\ LedTypeOK /\ ThreadTypeOK /\ TelemetryTypeOK)'
    BY DEF AwsTypeOK, ThreadTypeOK, TelemetryTypeOK
  <2> QED
    BY <2>1, <2>2, SharedType, ThreadType, TelemetryType
<1> QED
  BY <1>1, <1>2, PTL DEF AwsSpec

-----------------------------------------------------------------------------
(* One reason to connect.                                                  *)

\* What keeps the reasons apart: a session and an attempt exclude the flag and the
\* timer, these exclude each other, and where the thread is tells whether there is
\* a session.  Unless timer commands are refused, one of them is always there.
ReasonInv ==
    /\ pc = "wait" => ~isConnectTriggered /\ reconnectTimer = "idle" /\ session = "down"
    /\ Online => ~isConnectTriggered /\ reconnectTimer = "idle"
    /\ pc = "connect" => ~isConnectTriggered /\ reconnectTimer = "idle" /\ session = "down"
    /\ isConnectTriggered => reconnectTimer = "idle"
    /\ pc = "take" => isConnectTriggered
    /\ pc \in {"set", "announce"} => session # "down"
    /\ pc \in {"clear", "clearAgain", "announceLoss"} => session = "down"
    /\ \/ TimerQueueMayBeFull
       \/ pc \in {"wait", "connect"} \/ Online
       \/ isConnectTriggered \/ reconnectTimer = "armed"

LEMMA ReasonStep ==
    ASSUME ReasonInv, ThreadTypeOK, [AwsNext]_awsSystem
    PROVE  ReasonInv'
<1>1. CASE WaitForWifi \/ InKernel \/ SetAwsBit \/ ClearAwsBit
  <2>1. UNCHANGED awsVars
    BY <1>1 DEF WaitForWifi, InKernel, SetAwsBit, ClearAwsBit
  <2> QED
    BY <2>1 DEF awsVars, ReasonInv, Online
<1>2. CASE WaitEnds
  BY <1>2 DEF WaitEnds, ReasonInv, Online
<1>3. CASE Yield
  BY <1>3 DEF Yield, retryVars, ReasonInv, Online
<1>4. CASE TakeTrigger
  BY <1>4 DEF TakeTrigger, ReasonInv, Online
<1>5. CASE ConnectSucceeds
  BY <1>5 DEF ConnectSucceeds, retryVars, ReasonInv, Online
<1>6. CASE ConnectFails
  <2>1. reconnectTimer' = "armed" \/ (TimerQueueMayBeFull /\ reconnectTimer' = reconnectTimer)
    BY <1>6 DEF ConnectFails, HandleReconnect, AfterStartOnce, Refused
  <2> QED
    BY <1>6, <2>1 DEF ConnectFails, HandleReconnect, ReasonInv, Online
<1>7. CASE SetAwsBitEnds
  BY <1>7 DEF SetAwsBitEnds, retryVars, ReasonInv, Online
<1>8. CASE AnnounceConnected \/ PublishTelemetry
  BY <1>8 DEF AnnounceConnected, PublishTelemetry, retryVars, ReasonInv, Online
<1>9. CASE ClientYield
  BY <1>9 DEF ClientYield, retryVars, ReasonInv, Online
<1>10. CASE ClearAwsBitEnds
  BY <1>10 DEF ClearAwsBitEnds, retryVars, ReasonInv, Online
<1>11. CASE AnnounceDisconnected
  BY <1>11 DEF AnnounceDisconnected, ReasonInv, Online
<1>12. CASE ReconnectTimerFires
  BY <1>12 DEF ReconnectTimerFires, ReasonInv, Online
<1>13. CASE SessionLost
  BY <1>13 DEF SessionLost, retryVars, ReasonInv, Online
<1>14. CASE \/ ReadingArrives \/ UiTakesLedEvent \/ WifiSetsBit \/ WifiClearsBit
            \/ OthersSendLed \/ UNCHANGED awsSystem
  <2>1. UNCHANGED <<pc, retryVars, session>>
    BY <1>14
    DEF ReadingArrives, UiTakesLedEvent, WifiSetsBit, WifiClearsBit, OthersSendLed, awsSystem,
        awsVars, retryVars
  <2> QED
    BY <2>1 DEF retryVars, ReasonInv, Online
<1> QED
  BY <1>1, <1>2, <1>3, <1>4, <1>5, <1>6, <1>7, <1>8, <1>9, <1>10, <1>11, <1>12, <1>13, <1>14
  DEF AwsNext, AwsThread, AwsSurroundings

LEMMA ReasonInitial == AwsInit => ReasonInv
BY DEF AwsInit, ReasonInv, Online

LEMMA ReasonHolds == AwsSpec => [](ThreadTypeOK /\ ReasonInv)
<1>1. AwsTypeOK => ThreadTypeOK
  BY DEF AwsTypeOK, ThreadTypeOK
<1> QED
  BY <1>1, AwsTypeCorrect, ReasonInitial, ReasonStep, PTL DEF AwsSpec

\* The session, the attempt in progress, the flag and the timer are never two at a
\* time, and, unless timer commands are refused, never none.
THEOREM OneReasonCorrect == AwsSpec => []OneReasonToConnect
<1>1. ThreadTypeOK /\ ReasonInv => OneReasonToConnect
  <2> SUFFICES ASSUME ThreadTypeOK, ReasonInv
               PROVE  OneReasonToConnect
    OBVIOUS
  <2>1. ASSUME NEW r \in Reasons, NEW s \in Reasons
        PROVE  r = s
    BY <2>1 DEF Reasons, Holds, ReasonInv, Online
  <2>2. ASSUME ~TimerQueueMayBeFull
        PROVE  Reasons # {}
    BY <2>2 DEF Reasons, Holds, ReasonInv
  <2> QED
    BY <2>1, <2>2 DEF OneReasonToConnect
<1> QED
  BY <1>1, ReasonHolds, PTL

-----------------------------------------------------------------------------
(* The cycle of AwsConnection.                                             *)

\* The abstract phase is the reason that holds.
LEMMA PhaseIs ==
    ASSUME ReasonInv, ThreadTypeOK
    PROVE  /\ pc = "wait" <=> AwsPhase = "startup"
           /\ Online <=> AwsPhase = "online"
           /\ pc = "connect" <=> AwsPhase = "connecting"
           /\ isConnectTriggered <=> AwsPhase = "due"
           /\ reconnectTimer = "armed" <=> AwsPhase = "pausing"
           /\ AwsPhase = "stranded" => TimerQueueMayBeFull
BY DEF ReasonInv, ThreadTypeOK, AwsPhase, Online, TimerStates

\* Every step of the thread and its surroundings is a step of the cycle or leaves
\* the phase as it is.
LEMMA PhaseStep ==
    ASSUME ReasonInv, ThreadTypeOK, ReasonInv', ThreadTypeOK', [AwsNext]_awsSystem
    PROVE  [Connection!Next]_AwsPhase
<1> USE DEF Connection!Next, Connection!WifiUp, Connection!Attempt, Connection!Connected,
            Connection!Failed, Connection!Stranded, Connection!PauseOver,
            Connection!SessionOver
<1>1. CASE \/ WaitForWifi \/ InKernel \/ SetAwsBit \/ ClearAwsBit \/ ReadingArrives
           \/ UiTakesLedEvent \/ WifiSetsBit \/ WifiClearsBit \/ OthersSendLed
           \/ UNCHANGED awsSystem
  <2>1. UNCHANGED <<pc, retryVars, session>>
    BY <1>1
    DEF WaitForWifi, InKernel, SetAwsBit, ClearAwsBit, ReadingArrives, UiTakesLedEvent,
        WifiSetsBit, WifiClearsBit, OthersSendLed, awsSystem, awsVars, retryVars
  <2> QED
    BY <2>1 DEF retryVars, AwsPhase, Online
<1>2. CASE WaitEnds
  BY <1>2 DEF WaitEnds, AwsPhase, Online, ReasonInv
<1>3. CASE \/ Yield \/ SetAwsBitEnds \/ AnnounceConnected \/ PublishTelemetry
           \/ ClearAwsBitEnds \/ ClientYield
  BY <1>3
  DEF Yield, SetAwsBitEnds, AnnounceConnected, PublishTelemetry, ClearAwsBitEnds, ClientYield,
      retryVars, AwsPhase, Online, ReasonInv
<1>4. CASE TakeTrigger
  BY <1>4 DEF TakeTrigger, AwsPhase, Online, ReasonInv
<1>5. CASE ConnectSucceeds
  BY <1>5 DEF ConnectSucceeds, retryVars, AwsPhase, Online, ReasonInv
<1>6. CASE ConnectFails
  <2>1. reconnectTimer' = "armed" \/ (TimerQueueMayBeFull /\ reconnectTimer' = reconnectTimer)
    BY <1>6 DEF ConnectFails, HandleReconnect, AfterStartOnce, Refused
  <2> QED
    BY <1>6, <2>1 DEF ConnectFails, HandleReconnect, AwsPhase, Online, ReasonInv
<1>7. CASE AnnounceDisconnected
  BY <1>7 DEF AnnounceDisconnected, AwsPhase, Online, ReasonInv
<1>8. CASE ReconnectTimerFires
  BY <1>8 DEF ReconnectTimerFires, AwsPhase, Online, ReasonInv
<1>9. CASE SessionLost
  BY <1>9 DEF SessionLost, retryVars, AwsPhase, Online, ReasonInv
<1> QED
  BY <1>1, <1>2, <1>3, <1>4, <1>5, <1>6, <1>7, <1>8, <1>9
  DEF AwsNext, AwsThread, AwsSurroundings

\* AwsIotThread implements the connection cycle: an attempt is made only when one is
\* due, and each failure or loss of a session leads to the next.
THEOREM ConnectionImplemented == AwsSpec => ImplementsConnection
<1>1. AwsInit => Connection!Init
  BY DEF AwsInit, AwsPhase, Online, Connection!Init
<1>2. /\ ThreadTypeOK /\ ReasonInv /\ (ThreadTypeOK /\ ReasonInv)'
      /\ [AwsNext]_awsSystem
      => [Connection!Next]_AwsPhase
  BY PhaseStep
<1> QED
  BY <1>1, <1>2, ReasonHolds, PTL DEF AwsSpec, ImplementsConnection, Connection!Spec

-----------------------------------------------------------------------------
(* AWS_CONNECTED_BIT follows the session.                                  *)

Changing == {"set", "clear", "clearAgain"}

\* What is in progress on the event group, told by where the thread is.
CallInv ==
    LET c == call[Aws] IN
    /\ pc \notin Changing \cup {"wait"} => c.phase = "idle"
    /\ c.phase # "idle" =>
          /\ c.op = IF pc \in {"set", "wait"} THEN pc ELSE "clear"
          /\ c.arg = IF pc = "wait" THEN {WIFI_CONNECTED_BIT} ELSE {AWS_CONNECTED_BIT}
    /\ c.phase = "return" => pc = "set"

\* Where AWS_CONNECTED_BIT is during the calls that change it: in the kernel, in the
\* copy, in the value the call will store and in the value it expects.
BitInv ==
    LET c == call[Aws] IN
    /\ AWS_CONNECTED_BIT \in bits <=>
          CASE pc = "set"        -> c.phase \in {"return", "store"}
            [] pc = "clear"      -> c.phase # "store"
            [] pc = "clearAgain" -> FALSE
            [] OTHER             -> session # "down"
    /\ pc = "set" /\ c.phase \in {"idle", "kernel"} => AWS_CONNECTED_BIT \notin allBits
    /\ pc = "clear" /\ c.phase # "store" => AWS_CONNECTED_BIT \in allBits
    /\ pc \notin Changing => (AWS_CONNECTED_BIT \in allBits <=> session # "down")
    /\ c.phase = "store" => (AWS_CONNECTED_BIT \in c.ret <=> pc \in {"set", "clear"})
    /\ pc = "clear" /\ c.phase # "idle" => AWS_CONNECTED_BIT \notin c.expected

LEMMA BitInitial == AwsInit => CallInv /\ BitInv
BY AwsAssumption, BitAssumption
DEF AwsInit, GroupInit, Finished, CallInv, BitInv, Changing, WIFI_CONNECTED_BIT,
    AWS_CONNECTED_BIT

\* The thread's own steps.
LEMMA BitThreadStep ==
    ASSUME GroupTypeOK, ThreadTypeOK, ReasonInv, CallInv, BitInv, AwsThread
    PROVE  CallInv' /\ BitInv'
<1>1. /\ Aws \in Task /\ Task = {Aws}
      /\ call \in [Task -> Calls] /\ call[Aws] \in Calls
      /\ WIFI_CONNECTED_BIT # AWS_CONNECTED_BIT
  BY AwsAssumption DEF GroupTypeOK, WIFI_CONNECTED_BIT, AWS_CONNECTED_BIT
<1>2. ASSUME NEW op, NEW b, Begin(Aws, op, b)
      PROVE  /\ call'[Aws].phase = "kernel" /\ call'[Aws].op = op /\ call'[Aws].arg = b
             /\ call'[Aws].expected = ExpectedAllBits(op, b)
             /\ call[Aws].phase = "idle" /\ UNCHANGED <<bits, allBits>>
  BY <1>1, <1>2 DEF Begin, InCall, Idle
<1>3. ASSUME Store(Aws)
      PROVE  /\ call[Aws].phase = "store" /\ call'[Aws].phase = "idle"
             /\ allBits' = call[Aws].ret /\ UNCHANGED bits
  BY <1>1, <1>3 DEF Store, Finished
<1>4. CASE WaitForWifi
  <2>1. Begin(Aws, "wait", {WIFI_CONNECTED_BIT}) /\ UNCHANGED <<pc, session>> /\ pc = "wait"
    BY <1>4 DEF WaitForWifi, awsVars
  <2>2. /\ call'[Aws].phase = "kernel" /\ call'[Aws].op = "wait"
        /\ call'[Aws].arg = {WIFI_CONNECTED_BIT}
        /\ call'[Aws].expected = ExpectedAllBits("wait", {WIFI_CONNECTED_BIT})
        /\ call[Aws].phase = "idle" /\ UNCHANGED <<bits, allBits>>
    BY <1>2, <2>1
  <2> QED
    BY <2>1, <2>2 DEF CallInv, BitInv, Changing, ExpectedAllBits
<1>5. CASE WaitEnds
  BY <1>3, <1>5 DEF WaitEnds, CallInv, BitInv, Changing, ReasonInv
<1>6. CASE InKernel
  <2>1. UNCHANGED <<pc, session>>
    BY <1>6 DEF InKernel, awsVars
  <2>2. CASE KernelSet(Aws)
    <3>1. /\ call'[Aws].phase = "return" /\ call'[Aws].op = call[Aws].op
          /\ call'[Aws].arg = call[Aws].arg
      <4> DEFINE c == [call EXCEPT ![Aws].phase = "return"]
      <4>1. c[Aws].phase = "return" /\ c[Aws].op = call[Aws].op /\ c[Aws].arg = call[Aws].arg
        BY <1>1 DEF Calls
      <4> HIDE DEF c
      <4>2. call' = Release(c, bits')
        BY <2>2 DEF KernelSet, c
      <4> QED
        BY <1>1, <4>1, <4>2 DEF Release
    <3> QED
      BY <1>1, <2>1, <2>2, <3>1 DEF KernelSet, CallInv, BitInv, Changing
  <2>3. CASE ReturnSet(Aws)
    <3>1. /\ call'[Aws].phase = "store" /\ call'[Aws].op = call[Aws].op
          /\ call'[Aws].arg = call[Aws].arg /\ call'[Aws].ret = bits
      BY <1>1, <2>3 DEF ReturnSet, Calls
    <3> QED
      BY <1>1, <2>1, <2>3, <3>1 DEF ReturnSet, CallInv, BitInv, Changing
  <2>4. CASE KernelClear(Aws)
    <3>1. /\ call'[Aws].phase = "store" /\ call'[Aws].op = call[Aws].op
          /\ call'[Aws].arg = call[Aws].arg /\ call'[Aws].ret = bits
          /\ call'[Aws].expected = call[Aws].expected
      BY <1>1, <2>4 DEF KernelClear, Calls
    <3> QED
      BY <1>1, <2>1, <2>4, <3>1 DEF KernelClear, CallInv, BitInv, Changing
  <2>5. CASE KernelWait(Aws)
    <3>1. /\ call'[Aws].phase = "store" /\ call'[Aws].op = call[Aws].op
          /\ call'[Aws].arg = call[Aws].arg /\ call'[Aws].ret = bits
      BY <1>1, <2>5 DEF KernelWait, Calls
    <3> QED
      BY <1>1, <2>1, <2>5, <3>1 DEF KernelWait, CallInv, BitInv, Changing, ReasonInv
  <2> QED
    BY <1>6, <2>2, <2>3, <2>4, <2>5 DEF InKernel, KernelStep
<1>7. CASE \/ Yield \/ TakeTrigger \/ ConnectSucceeds \/ ConnectFails
           \/ AnnounceConnected \/ PublishTelemetry \/ ClientYield \/ AnnounceDisconnected
  <2>1. UNCHANGED groupVars /\ pc \notin {"wait", "set", "clear", "clearAgain"}
    BY <1>7
    DEF Yield, TakeTrigger, ConnectSucceeds, ConnectFails, AnnounceConnected,
        PublishTelemetry, ClientYield, AnnounceDisconnected
  <2> QED
    BY <1>7, <2>1
    DEF Yield, TakeTrigger, ConnectSucceeds, ConnectFails, AnnounceConnected,
        PublishTelemetry, ClientYield, AnnounceDisconnected, groupVars, CallInv, BitInv,
        Changing, ReasonInv
<1>8. CASE SetAwsBit
  <2>1. Begin(Aws, "set", {AWS_CONNECTED_BIT}) /\ UNCHANGED <<pc, session>> /\ pc = "set"
    BY <1>8 DEF SetAwsBit, awsVars
  <2>2. /\ call'[Aws].phase = "kernel" /\ call'[Aws].op = "set"
        /\ call'[Aws].arg = {AWS_CONNECTED_BIT}
        /\ call'[Aws].expected = ExpectedAllBits("set", {AWS_CONNECTED_BIT})
        /\ call[Aws].phase = "idle" /\ UNCHANGED <<bits, allBits>>
    BY <1>2, <2>1
  <2> QED
    BY <2>1, <2>2 DEF CallInv, BitInv, Changing, ExpectedAllBits
<1>9. CASE SetAwsBitEnds
  BY <1>3, <1>9 DEF SetAwsBitEnds, CallInv, BitInv, Changing, ReasonInv
<1>10. CASE ClearAwsBit
  <2>1. Begin(Aws, "clear", {AWS_CONNECTED_BIT}) /\ UNCHANGED <<pc, session>> /\ pc \in {"clear", "clearAgain"}
    BY <1>10 DEF ClearAwsBit, awsVars
  <2>2. /\ call'[Aws].phase = "kernel" /\ call'[Aws].op = "clear"
        /\ call'[Aws].arg = {AWS_CONNECTED_BIT}
        /\ call'[Aws].expected = ExpectedAllBits("clear", {AWS_CONNECTED_BIT})
        /\ call[Aws].phase = "idle" /\ UNCHANGED <<bits, allBits>>
    BY <1>2, <2>1
  <2> QED
    BY <2>1, <2>2 DEF CallInv, BitInv, Changing, ExpectedAllBits
<1>11. CASE ClearAwsBitEnds
  <2>1. pc = "clear" => ResultOf(Aws) = "FAIL"
    BY <1>3, <1>11 DEF ClearAwsBitEnds, BitInv, ResultOf
  <2> QED
    BY <1>3, <1>11, <2>1 DEF ClearAwsBitEnds, CallInv, BitInv, Changing, ReasonInv
<1> QED
  BY <1>4, <1>5, <1>6, <1>7, <1>8, <1>9, <1>10, <1>11 DEF AwsThread

\* The steps around it, also when a Wi-Fi handler uses the group in the middle of
\* one of the thread's calls.
LEMMA BitSurroundingStep ==
    ASSUME GroupTypeOK, ReasonInv, CallInv, BitInv, AwsSurroundings
    PROVE  CallInv' /\ BitInv'
<1>1. /\ Aws \in Task /\ call \in [Task -> Calls] /\ call[Aws] \in Calls
      /\ WIFI_CONNECTED_BIT # AWS_CONNECTED_BIT
  BY AwsAssumption DEF GroupTypeOK, WIFI_CONNECTED_BIT, AWS_CONNECTED_BIT
<1>2. CASE WifiSetsBit
  <2>1. /\ UNCHANGED <<pc, session>>
        /\ bits' = bits \cup {WIFI_CONNECTED_BIT} /\ allBits' = bits'
        /\ call' = Release(call, bits')
    BY <1>2 DEF WifiSetsBit, AtomicSet, awsVars
  <2>2. CASE call[Aws].phase = "kernel" /\ call[Aws].op = "wait" /\ call[Aws].arg \subseteq bits'
    <3>1. /\ call'[Aws].phase = "store" /\ call'[Aws].ret = bits'
          /\ call'[Aws].op = call[Aws].op /\ call'[Aws].arg = call[Aws].arg
      BY <1>1, <2>1, <2>2 DEF Release, Calls
    <3>2. pc = "wait"
      BY <2>2 DEF CallInv
    <3> QED
      BY <1>1, <2>1, <2>2, <3>1, <3>2 DEF ReasonInv, CallInv, BitInv, Changing
  <2>3. CASE ~(call[Aws].phase = "kernel" /\ call[Aws].op = "wait" /\ call[Aws].arg \subseteq bits')
    <3>1. call'[Aws] = call[Aws]
      BY <1>1, <2>1, <2>3 DEF Release
    <3> QED
      BY <1>1, <2>1, <3>1 DEF CallInv, BitInv, Changing
  <2> QED
    BY <2>2, <2>3
<1>3. CASE WifiClearsBit
  <2>1. /\ UNCHANGED <<pc, session, call>>
        /\ bits' = bits \ {WIFI_CONNECTED_BIT} /\ allBits' = bits
    BY <1>3 DEF WifiClearsBit, AtomicClear, awsVars
  <2> QED
    BY <1>1, <2>1 DEF CallInv, BitInv, Changing
<1>4. CASE SessionLost
  BY <1>4 DEF SessionLost, groupVars, CallInv, BitInv, Changing
<1>5. CASE ReconnectTimerFires \/ ReadingArrives \/ UiTakesLedEvent \/ OthersSendLed
  <2>1. UNCHANGED <<groupVars, pc, session>>
    BY <1>5 DEF ReconnectTimerFires, ReadingArrives, UiTakesLedEvent, OthersSendLed, awsVars
  <2> QED
    BY <2>1 DEF groupVars, CallInv, BitInv, Changing
<1> QED
  BY <1>2, <1>3, <1>4, <1>5 DEF AwsSurroundings

LEMMA BitHolds == AwsSpec => [](CallInv /\ BitInv)
<1>1. /\ AwsTypeOK /\ ThreadTypeOK /\ ReasonInv /\ CallInv /\ BitInv
      /\ [AwsNext]_awsSystem
      => CallInv' /\ BitInv'
  <2> SUFFICES ASSUME GroupTypeOK, ThreadTypeOK, ReasonInv, CallInv, BitInv,
                      [AwsNext]_awsSystem
               PROVE  CallInv' /\ BitInv'
    BY DEF AwsTypeOK
  <2>1. CASE UNCHANGED awsSystem
    <3>1. UNCHANGED <<bits, allBits, call, pc, session>>
      BY <2>1 DEF awsSystem, groupVars, awsVars
    <3> QED
      BY <3>1 DEF CallInv, BitInv, Changing
  <2> QED
    BY <2>1, BitThreadStep, BitSurroundingStep DEF AwsNext
<1> QED
  BY <1>1, BitInitial, AwsTypeCorrect, ReasonHolds, PTL DEF AwsSpec

\* Outside the calls that change it, AWS_CONNECTED_BIT in the kernel and in the copy
\* says whether there is a session.
THEOREM AwsBitCorrect == AwsSpec => []AwsBitTracksSession
<1>1. BitInv => AwsBitTracksSession
  BY DEF BitInv, AwsBitTracksSession, Changing
<1> QED
  BY <1>1, BitHolds, PTL

-----------------------------------------------------------------------------
(* The pauses between attempts.                                            *)

\* The time asked for last tells how many attempts have failed since the long pause.
PauseInv ==
    reconnectTime \in IF connectCounter = 0 THEN {0, RECONNECT_AFTER_MAX_ATTEMPT_TIME}
                                            ELSE {RECONNECT_TIME * connectCounter}

\* The pauses can be told apart: there is a short one, and the long one is none of them.
PausesDiffer ==
    /\ MAX_CONNECT_ATTEMPTS > 1
    /\ \A n \in 1..(MAX_CONNECT_ATTEMPTS - 1) :
          RECONNECT_TIME * n # RECONNECT_AFTER_MAX_ATTEMPT_TIME

\* Multiples of a positive number grow with the factor.
LEMMA Multiples ==
    ASSUME NEW t \in Nat \ {0}, NEW m \in Nat, NEW n \in Nat, m < n
    PROVE  /\ t * m \in Nat
           /\ t * (m + 1) = t * m + t
           /\ t * m < t * n
           /\ t * n # 0
<1>1. t * m \in Nat /\ t * (m + 1) = t * m + t
  OBVIOUS
<1>2. PICK k \in Nat : n = m + 1 + k
  <2>1. n - m - 1 \in Nat /\ n = m + 1 + (n - m - 1)
    OBVIOUS
  <2> QED
    BY <2>1
<1>3. t * k \in Nat
  OBVIOUS
<1>4. t * n = t * m + t + t * k
  BY <1>2
<1> QED
  BY <1>1, <1>3, <1>4

\* A failed attempt moves on from each pause to the next.
LEMMA FailureGrows ==
    ASSUME ThreadTypeOK, PauseInv, PausesDiffer, HandleReconnect
    PROVE  /\ PauseInv'
           /\ reconnectTime' =
                CASE reconnectTime \in {0, RECONNECT_AFTER_MAX_ATTEMPT_TIME} -> RECONNECT_TIME
                  [] reconnectTime = RECONNECT_TIME * (MAX_CONNECT_ATTEMPTS - 1)
                        -> RECONNECT_AFTER_MAX_ATTEMPT_TIME
                  [] OTHER -> reconnectTime + RECONNECT_TIME
<1> DEFINE last == MAX_CONNECT_ATTEMPTS - 1
<1>1. /\ connectCounter \in 0..last
      /\ last \in Nat \ {0}
      /\ MAX_CONNECT_ATTEMPTS = last + 1
      /\ RECONNECT_TIME \in Nat \ {0}
      /\ RECONNECT_AFTER_MAX_ATTEMPT_TIME \in Nat \ {0}
  BY AwsAssumption DEF ThreadTypeOK, PausesDiffer
<1>2. \A n \in 1..last : RECONNECT_TIME * n \notin {0, RECONNECT_AFTER_MAX_ATTEMPT_TIME}
  <2> SUFFICES ASSUME NEW n \in 1..last
               PROVE  RECONNECT_TIME * n \notin {0, RECONNECT_AFTER_MAX_ATTEMPT_TIME}
    OBVIOUS
  <2>1. RECONNECT_TIME * n # 0
    BY <1>1, Multiples, n \in Nat, 0 \in Nat, 0 < n
  <2> QED
    BY <2>1 DEF PausesDiffer
<1>3. CASE connectCounter = 0
  <2>1. reconnectTime \in {0, RECONNECT_AFTER_MAX_ATTEMPT_TIME}
    BY <1>3 DEF PauseInv
  <2>2. connectCounter' = 1 /\ reconnectTime' = RECONNECT_TIME
    BY <1>1, <1>3 DEF HandleReconnect, TimeAfter
  <2>3. reconnectTime # RECONNECT_TIME * last
    BY <1>1, <1>2, <2>1
  <2>4. PauseInv'
    BY <1>1, <2>2 DEF PauseInv
  <2> QED
    BY <2>1, <2>2, <2>3, <2>4
<1>4. CASE connectCounter = last
  <2>1. reconnectTime = RECONNECT_TIME * last
    BY <1>1, <1>4 DEF PauseInv
  <2>2. connectCounter' = 0 /\ reconnectTime' = RECONNECT_AFTER_MAX_ATTEMPT_TIME
    BY <1>1, <1>4 DEF HandleReconnect, TimeAfter
  <2>3. reconnectTime \notin {0, RECONNECT_AFTER_MAX_ATTEMPT_TIME}
    BY <1>1, <1>2, <2>1
  <2>4. PauseInv'
    BY <2>2 DEF PauseInv
  <2> QED
    BY <2>1, <2>2, <2>3, <2>4
<1>5. CASE connectCounter # 0 /\ connectCounter # last
  <2>1. connectCounter \in 1..last /\ connectCounter < last /\ connectCounter \in Nat
    BY <1>1, <1>5
  <2>2. reconnectTime = RECONNECT_TIME * connectCounter
    BY <1>5 DEF PauseInv
  <2>3. /\ connectCounter' = connectCounter + 1
        /\ reconnectTime' = RECONNECT_TIME * (connectCounter + 1)
    BY <1>1, <2>1 DEF HandleReconnect, TimeAfter
  <2>4. /\ RECONNECT_TIME * connectCounter \in Nat
        /\ RECONNECT_TIME * (connectCounter + 1) = RECONNECT_TIME * connectCounter + RECONNECT_TIME
        /\ RECONNECT_TIME * connectCounter < RECONNECT_TIME * last
    BY <1>1, <2>1, Multiples
  <2>5. RECONNECT_TIME * connectCounter # RECONNECT_TIME * last
    <3>1. RECONNECT_TIME * last \in Nat
      BY <1>1
    <3> QED
      BY <2>4, <3>1
  <2>6. reconnectTime \notin {0, RECONNECT_AFTER_MAX_ATTEMPT_TIME}
    BY <1>2, <2>1, <2>2
  <2>7. reconnectTime' = reconnectTime + RECONNECT_TIME
    BY <2>2, <2>3, <2>4
  <2>8. PauseInv'
    BY <2>1, <2>3 DEF PauseInv
  <2> QED
    BY <2>2, <2>5, <2>6, <2>7, <2>8
<1> QED
  BY <1>3, <1>4, <1>5

\* Only a failed attempt touches the counter and the time.
LEMMA PauseStep ==
    ASSUME ThreadTypeOK, PauseInv, PausesDiffer, [AwsNext]_awsSystem
    PROVE  /\ PauseInv'
           /\ pc = "connect" /\ pc' # "set" /\ pc' # pc => HandleReconnect
<1>1. CASE ConnectFails
  BY <1>1, FailureGrows DEF ConnectFails
<1>2. CASE ~ConnectFails
  <2>1. UNCHANGED <<connectCounter, reconnectTime>>
    BY <1>2
    DEF AwsNext, AwsThread, AwsSurroundings, awsSystem, awsVars, retryVars, WaitForWifi,
        WaitEnds, InKernel, Yield, TakeTrigger, ConnectSucceeds, SetAwsBit, SetAwsBitEnds,
        AnnounceConnected, PublishTelemetry, ClientYield, ClearAwsBit, ClearAwsBitEnds,
        AnnounceDisconnected, ReconnectTimerFires, SessionLost, ReadingArrives,
        UiTakesLedEvent, WifiSetsBit, WifiClearsBit, OthersSendLed
  <2>2. ~(pc = "connect" /\ pc' # "set" /\ pc' # pc)
    BY <1>2
    DEF AwsNext, AwsThread, AwsSurroundings, awsSystem, awsVars, retryVars, WaitForWifi,
        WaitEnds, InKernel, Yield, TakeTrigger, ConnectSucceeds, SetAwsBit, SetAwsBitEnds,
        AnnounceConnected, PublishTelemetry, ClientYield, ClearAwsBit, ClearAwsBitEnds,
        AnnounceDisconnected, ReconnectTimerFires, SessionLost, ReadingArrives,
        UiTakesLedEvent, WifiSetsBit, WifiClearsBit, OthersSendLed
  <2> QED
    BY <2>1, <2>2 DEF PauseInv
<1> QED
  BY <1>1, <1>2

\* The pauses between failed attempts grow up to the long one and then start again, for
\* every number of attempts and every time, as long as the pauses can be told apart.
THEOREM PausesGrowAlways ==
    ASSUME PausesDiffer
    PROVE  AwsSpec => PausesGrow
<1>1. AwsInit => PauseInv
  BY DEF AwsInit, PauseInv
<1>2. AwsInit => ThreadTypeOK
  <2> SUFFICES ASSUME AwsInit
               PROVE  ThreadTypeOK
    OBVIOUS
  <2>1. connectCounter \in 0..(MAX_CONNECT_ATTEMPTS - 1)
    BY AwsAssumption DEF AwsInit
  <2>2. isConnectTriggered \in BOOLEAN
    BY DEF AwsInit
  <2> QED
    BY <2>1, <2>2 DEF AwsInit, ThreadTypeOK, Labels, TimerStates, Sessions
<1>3. ThreadTypeOK /\ PauseInv /\ [AwsNext]_awsSystem => ThreadTypeOK' /\ PauseInv'
  BY PausesDiffer, ThreadType, PauseStep
<1>4. ThreadTypeOK /\ PauseInv /\ [AwsNext]_awsSystem =>
        [pc = "connect" /\ pc' # "set" /\ pc' # pc =>
           reconnectTime' =
              CASE reconnectTime \in {0, RECONNECT_AFTER_MAX_ATTEMPT_TIME} -> RECONNECT_TIME
                [] reconnectTime = RECONNECT_TIME * (MAX_CONNECT_ATTEMPTS - 1)
                      -> RECONNECT_AFTER_MAX_ATTEMPT_TIME
                [] OTHER -> reconnectTime + RECONNECT_TIME]_awsSystem
  <2> SUFFICES ASSUME ThreadTypeOK, PauseInv, [AwsNext]_awsSystem,
                      pc = "connect" /\ pc' # "set" /\ pc' # pc
               PROVE  reconnectTime' =
                         CASE reconnectTime \in {0, RECONNECT_AFTER_MAX_ATTEMPT_TIME}
                                 -> RECONNECT_TIME
                           [] reconnectTime = RECONNECT_TIME * (MAX_CONNECT_ATTEMPTS - 1)
                                 -> RECONNECT_AFTER_MAX_ATTEMPT_TIME
                           [] OTHER -> reconnectTime + RECONNECT_TIME
    OBVIOUS
  <2>1. HandleReconnect
    BY PausesDiffer, PauseStep
  <2> QED
    BY <2>1, PausesDiffer, FailureGrows
<1> QED
  BY <1>1, <1>2, <1>3, <1>4, PTL DEF AwsSpec, PausesGrow
=============================================================================
