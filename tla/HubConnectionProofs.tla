------------------------ MODULE HubConnectionProofs ------------------------
(***************************************************************************)
(* The composition of WifiController and AwsIotThread.  It puts the thread *)
(* in the surroundings its module assumes, so what AwsIotThreadProofs      *)
(* proves of the thread holds in the hub.  The controller is in wider      *)
(* surroundings than those of its module, where nobody else uses the group *)
(* or sends led events: its invariants hold because the thread writes none *)
(* of its variables, and, by the calls it makes, only its own bit.         *)
(***************************************************************************)
EXTENDS HubConnection, AwsIotThreadProofs, WifiControllerProofs

\* Each step of the Wi-Fi handlers, of the driver and of the timer is, for the
\* thread, one of the steps of its surroundings or none.
LEMMA WifiStepMaps ==
    ASSUME WifiStep
    PROVE  [AwsNext]_awsSystem
<1> USE DEF WifiStep, AwsNext, AwsSurroundings
<1>1. CASE HandleGotIp
  BY <1>1 DEF HandleGotIp, WifiSetsBit
<1>2. CASE ScanEnds
  <2>1. CASE GiveUp
    BY <2>1 DEF GiveUp, WifiClearsBit
  <2>2. CASE Retry
    BY <2>2 DEF Retry, OthersSendLed
  <2> QED
    BY <1>2, <2>1, <2>2 DEF ScanEnds
<1>3. CASE \/ Start \/ HandleStaStart \/ HandleStaConnected \/ HandleStaDisconnected
           \/ WifiTimerFires \/ TimerCallback \/ Associates \/ GetsIp \/ LinkFails
  BY <1>3
  DEF Start, HandleStaStart, HandleStaConnected, HandleStaDisconnected, WifiTimerFires,
      TimerCallback, CallbackConnects, CallbackLoads, CallbackStores, Associates, GetsIp,
      LinkFails, LinkBecomes, awsSystem
<1> QED
  BY <1>1, <1>2, <1>3 DEF WifiProgress, EventLoop

\* So is every step of the hub.
LEMMA HubStepMaps == [Next]_vars => [AwsNext]_awsSystem
<1> SUFFICES ASSUME [Next]_vars
             PROVE  [AwsNext]_awsSystem
  OBVIOUS
<1>1. CASE WifiStep
  BY <1>1, WifiStepMaps
<1>2. CASE AwsStep \/ AwsTimerStep \/ SessionStep \/ Telemetry
  BY <1>2 DEF AwsStep, AwsTimerStep, SessionStep, Telemetry, AwsNext, AwsSurroundings
<1>3. CASE UiStep
  BY <1>3 DEF UiStep, UiTakesLedEvent, AwsNext, AwsSurroundings
<1>4. CASE UNCHANGED vars
  BY <1>4 DEF vars, awsSystem
<1> QED
  BY <1>1, <1>2, <1>3, <1>4 DEF Next

\* The hub's connection implements the specification of AwsIotThread.
THEOREM HubImplementsAws == Spec => ImplementsAwsIotThread
<1>1. Init => AwsInit
  BY DEF Init
<1> QED
  BY <1>1, HubStepMaps, PTL DEF Spec, AwsSpec, ImplementsAwsIotThread

\* In the hub, too, there is one reason to connect at a time and the bit follows the
\* session.
COROLLARY HubConnects == Spec => [](OneReasonToConnect /\ AwsBitTracksSession)
BY HubImplementsAws, OneReasonCorrect, AwsBitCorrect, PTL DEF ImplementsAwsIotThread

-----------------------------------------------------------------------------
(* The controller in the hub.                                              *)

\* For the controller's variables, a step of the hub is one of the controller's or none.
LEMMA ControllerStep ==
    ASSUME [Next]_vars
    PROVE  (WifiStep /\ WifiNext) \/ UNCHANGED wifiVars
BY DEF Next, AwsStep, AwsTimerStep, SessionStep, Telemetry, WifiStep, UiStep, WifiNext, vars

\* The thread's calls change no bit but its own: those that set or clear one have
\* AWS_CONNECTED_BIT for their argument.
LEMMA ThreadKeepsWifiBit ==
    ASSUME CallInv, AwsThread
    PROVE  WIFI_CONNECTED_BIT \in bits' <=> WIFI_CONNECTED_BIT \in bits
<1>1. CASE UNCHANGED bits
  BY <1>1
<1>2. CASE InKernel
  <2>1. WIFI_CONNECTED_BIT # AWS_CONNECTED_BIT
    BY DEF WIFI_CONNECTED_BIT, AWS_CONNECTED_BIT
  <2>2. CASE KernelSet(Aws) \/ KernelClear(Aws)
    <3>1. call[Aws].phase # "idle" /\ call[Aws].op \in {"set", "clear"}
      BY <2>2 DEF KernelSet, KernelClear
    <3>2. call[Aws].arg = {AWS_CONNECTED_BIT}
      BY <3>1 DEF CallInv
    <3>3. bits' = bits \cup call[Aws].arg \/ bits' = bits \ call[Aws].arg
      BY <2>2 DEF KernelSet, KernelClear
    <3> QED
      BY <2>1, <3>2, <3>3
  <2>3. CASE ReturnSet(Aws) \/ KernelWait(Aws)
    BY <2>3 DEF ReturnSet, KernelWait
  <2> QED
    BY <1>2, <2>2, <2>3 DEF InKernel, KernelStep
<1>3. CASE AwsThread /\ ~InKernel
  BY <1>3
  DEF AwsThread, WaitForWifi, WaitEnds, Yield, TakeTrigger, ConnectSucceeds, ConnectFails,
      SetAwsBit, SetAwsBitEnds, AnnounceConnected, PublishTelemetry, ClientYield,
      ClearAwsBit, ClearAwsBitEnds, AnnounceDisconnected, Begin, Store, groupVars
<1> QED
  BY <1>2, <1>3

\* So a step that is not the controller's leaves WIFI_CONNECTED_BIT and what it goes with.
LEMMA OthersKeepWifiBit ==
    ASSUME CallInv, [Next]_vars, ~WifiStep
    PROVE  /\ UNCHANGED wifiVars
           /\ WIFI_CONNECTED_BIT \in bits' <=> WIFI_CONNECTED_BIT \in bits
<1>1. UNCHANGED wifiVars
  BY ControllerStep
<1>2. CASE AwsStep
  BY <1>1, <1>2, ThreadKeepsWifiBit DEF AwsStep
<1>3. CASE ~AwsStep
  <2>1. UNCHANGED bits
    BY <1>3
    DEF Next, AwsTimerStep, SessionStep, Telemetry, UiStep, ReconnectTimerFires, SessionLost,
        ReadingArrives, vars, groupVars
  <2> QED
    BY <1>1, <2>1
<1> QED
  BY <1>2, <1>3

\* The invariants of the controller and those of the thread that they need.
HubInv == WayInv /\ BitOrEvent /\ BoundsOK /\ CountInv

LEMMA HubInvStep ==
    ASSUME HubInv, CallInv, [Next]_vars
    PROVE  HubInv'
<1>1. CASE WifiStep
  <2>1. WifiNext /\ (WifiProgress \/ Driver) /\ ControlTypeOK
    BY <1>1 DEF WifiStep, WifiNext, Driver, HubInv, WayInv
  <2> QED
    BY <2>1, WayStep, BitOrEventStep, BoundsStep, CountStep DEF HubInv
<1>2. CASE ~WifiStep
  <2>1. /\ UNCHANGED wifiVars
        /\ WIFI_CONNECTED_BIT \in bits' <=> WIFI_CONNECTED_BIT \in bits
    BY <1>2, OthersKeepWifiBit
  <2>2. WayInv' /\ BoundsOK' /\ CountInv'
    BY <2>1, WayStutter
    DEF HubInv, BoundsOK, CountInv, Cycle, Allowed, TooManyAttempts, StartUnhandled, Pending,
        wifiVars, history
  <2>3. BitOrEvent'
    BY <2>1 DEF HubInv, BitOrEvent, Pending, wifiVars
  <2> QED
    BY <2>2, <2>3 DEF HubInv
<1> QED
  BY <1>1, <1>2

LEMMA HubInvHolds == Spec => [](HubInv /\ CallInv)
<1>1. Init => HubInv
  BY WayInitial, CountInitial DEF Init, WifiInit, HubInv, BitOrEvent
<1>2. HubInv /\ CallInv /\ [Next]_vars => HubInv'
  BY HubInvStep
<1> QED
  BY <1>1, <1>2, HubImplementsAws, BitHolds, PTL DEF Spec, ImplementsAwsIotThread

\* With the AWS thread on the same event group there is still one way to a Wi-Fi
\* connection at a time, and none exactly when an error was dropped; and with every event
\* handled and an address obtained WIFI_CONNECTED_BIT is set, wherever the thread is in its
\* own calls.
THEOREM HubStaysConnected == Spec => []OneWayToConnect /\ []BitSetWhenSettled
<1>1. HubInv => OneWayToConnect
  BY WaysAre DEF HubInv, WayInv, OneWayToConnect
<1>2. HubInv => BitSetWhenSettled
  BY DEF HubInv, BitOrEvent, BitSetWhenSettled, Pending
<1> QED
  BY <1>1, <1>2, HubInvHolds, PTL

\* Nobody in the hub clears WIFI_CONNECTED_BIT but the controller, which does so while the
\* link is down and no event waits.
THEOREM HubClearsOnlyWhileDown == Spec => ClearedOnlyWhileDown
<1>1. ASSUME HubInv, CallInv, [Next]_vars,
             WIFI_CONNECTED_BIT \in bits, WIFI_CONNECTED_BIT \notin bits'
      PROVE  link = "idle" /\ events = <<>>
  <2>1. WifiStep
    BY <1>1, OthersKeepWifiBit
  <2>2. WifiNext
    BY <2>1 DEF WifiStep, WifiNext
  <2>3. ScanEnds
    BY <1>1, <2>2, WhoClears
  <2> QED
    BY <1>1, <2>3, ScanIsAlone DEF ScanEnds, HubInv
<1>2. HubInv /\ CallInv /\ [Next]_vars =>
        [(WIFI_CONNECTED_BIT \in bits /\ WIFI_CONNECTED_BIT \notin bits')
           => link = "idle" /\ events = <<>> ]_wifiSystem
  BY <1>1
<1> QED
  BY <1>2, HubInvHolds, PTL DEF Spec, ClearedOnlyWhileDown

\* Every variable of the hub's connection keeps its type.
THEOREM HubTypeCorrect == Spec => [](WifiTypeOK /\ AwsTypeOK)
<1>1. HubInv /\ AwsTypeOK => WifiTypeOK
  BY DEF HubInv, WayInv, ControlTypeOK, BoundsOK, AwsTypeOK, WifiTypeOK
<1> QED
  BY <1>1, HubInvHolds, HubImplementsAws, AwsTypeCorrect, PTL DEF ImplementsAwsIotThread

\* In the hub, too, the station pauses after a bounded number of attempts.
THEOREM HubAttemptsBounded == Spec => []AttemptsBounded
<1>1. HubInv => AttemptsBounded
  BY CountBounds DEF HubInv
<1> QED
  BY <1>1, HubInvHolds, PTL
=============================================================================
