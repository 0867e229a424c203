---------------------------- MODULE AwsIotThread ----------------------------
(***************************************************************************)
(* app::AwsIotThread, the hub's task that keeps the MQTT session with AWS  *)
(* IoT and publishes telemetry, with the parts of its surroundings it      *)
(* reacts to: the Wi-Fi handlers that set and clear WIFI_CONNECTED_BIT,    *)
(* the reconnect timer's callback, the MQTT client of the SDK, the radio   *)
(* thread that queues readings and the UI thread that takes led events.    *)
(*                                                                         *)
(* The thread is cut where another task can come between: at every read or *)
(* write of state it shares and at every call that blocks.                 *)
(***************************************************************************)
EXTENDS ConnectionBits, SwTimer, LedEventQueue

CONSTANTS Aws,                   \* the task that runs AwsIotThread
          Reading,               \* telemetry readings
          TelemetryCapacity,     \* the length given to telemetryQueue in app_main (5)
          MAX_CONNECT_ATTEMPTS,
          RECONNECT_TIME,                   \* RECONNECT_TIME_US, in seconds
          RECONNECT_AFTER_MAX_ATTEMPT_TIME  \* likewise

ASSUME AwsAssumption ==
    /\ Task = {Aws}
    /\ TelemetryCapacity \in Nat
    /\ MAX_CONNECT_ATTEMPTS \in Nat \ {0}
    /\ RECONNECT_TIME \in Nat \ {0}
    /\ RECONNECT_AFTER_MAX_ATTEMPT_TIME \in Nat \ {0}

VARIABLES pc,                  \* where the thread is in run_
          isConnectTriggered,  \* isConnectTriggered_
          connectCounter,
          reconnectTimer,      \* the timer's state
          reconnectTime,       \* the time of the last startOnce; 0 before any
          session,             \* the MQTT session, as the client and the network see it
          telemetryQueue

awsVars == <<pc, isConnectTriggered, connectCounter, reconnectTimer, reconnectTime,
             session, telemetryQueue>>

awsSystem == <<groupVars, ledEventQueue, awsVars>>

\* What a step leaves alone that neither runs the thread nor changes its state.
retryVars == <<isConnectTriggered, connectCounter, reconnectTimer, reconnectTime>>

-----------------------------------------------------------------------------
Labels == {"wait", "yield", "take", "connect", "set", "announce", "telemetry",
           "client", "clear", "clearAgain", "announceLoss"}

\* A session that the network has dropped is "lost" until the client notices.
Sessions == {"down", "up", "lost"}

AwsInit ==
    /\ GroupInit
    /\ LedInit
    /\ pc = "wait"
    /\ isConnectTriggered = FALSE
    /\ connectCounter = 0
    /\ reconnectTimer = "idle"
    /\ reconnectTime = 0
    /\ session = "down"
    /\ telemetryQueue = <<>>

\* The times handleReconnect_ can ask for.
ReconnectTimes == {n * RECONNECT_TIME : n \in 1..(MAX_CONNECT_ATTEMPTS - 1)}
                  \cup {RECONNECT_AFTER_MAX_ATTEMPT_TIME}

AwsTypeOK ==
    /\ GroupTypeOK
    /\ LedTypeOK
    /\ pc \in Labels
    /\ isConnectTriggered \in BOOLEAN
    /\ connectCounter \in 0..(MAX_CONNECT_ATTEMPTS - 1)
    /\ reconnectTimer \in TimerStates
    /\ reconnectTime \in {0} \cup ReconnectTimes
    /\ session \in Sessions
    /\ telemetryQueue \in Seq(Reading) /\ Len(telemetryQueue) <= TelemetryCapacity

-----------------------------------------------------------------------------
(* run_ before its loop: wait until Wi-Fi is connected.                    *)

WaitForWifi ==
    /\ pc = "wait"
    /\ Begin(Aws, "wait", {WIFI_CONNECTED_BIT})
    /\ UNCHANGED <<ledEventQueue, awsVars>>

WaitEnds ==
    /\ pc = "wait"
    /\ Store(Aws)
    /\ IF ResultOf(Aws) = "OK"
       THEN pc' = "yield" /\ isConnectTriggered' = TRUE
       ELSE UNCHANGED <<pc, isConnectTriggered>>
    /\ UNCHANGED <<ledEventQueue, connectCounter, reconnectTimer, reconnectTime,
                   session, telemetryQueue>>

\* The kernel's part of whichever call on the event group is in progress.
InKernel ==
    /\ KernelStep(Aws)
    /\ UNCHANGED <<ledEventQueue, awsVars>>

-----------------------------------------------------------------------------
(* yield_ and handleConnect_.                                              *)

Yield ==
    /\ pc = "yield"
    /\ pc' = IF /\ IsBitsSet({WIFI_CONNECTED_BIT})
                /\ ~IsBitsSet({AWS_CONNECTED_BIT})
                /\ isConnectTriggered
             THEN "take" ELSE "telemetry"
    /\ UNCHANGED <<groupVars, ledEventQueue, retryVars, session, telemetryQueue>>

\* Mutant: the trigger is left set.
KeepTrigger ==
    /\ pc = "take"
    /\ pc' = "connect"
    /\ UNCHANGED <<groupVars, ledEventQueue, retryVars, session, telemetryQueue>>

TakeTrigger ==
    /\ pc = "take"
    /\ isConnectTriggered' = FALSE
    /\ pc' = "connect"
    /\ UNCHANGED <<groupVars, ledEventQueue, connectCounter, reconnectTimer,
                   reconnectTime, session, telemetryQueue>>

\* The SDK refuses to connect a client that holds a session.
ConnectSucceeds ==
    /\ pc = "connect"
    /\ session = "down"
    /\ session' = "up"
    /\ pc' = "set"
    /\ UNCHANGED <<groupVars, ledEventQueue, retryVars, telemetryQueue>>

\* Mutant: the attempt after which the long pause comes is one too many.
TimeAfterOneMore(counter) ==
    IF counter > MAX_CONNECT_ATTEMPTS THEN RECONNECT_AFTER_MAX_ATTEMPT_TIME
                                      ELSE RECONNECT_TIME * counter

\* The time handleReconnect_ asks for, counter being connectCounter after ++.
TimeAfter(counter) ==
    IF counter >= MAX_CONNECT_ATTEMPTS THEN RECONNECT_AFTER_MAX_ATTEMPT_TIME
                                       ELSE RECONNECT_TIME * counter

\* Mutant: the failed attempt also leaves the trigger set, so as to try at once.
RetryAtOnce ==
    /\ connectCounter' = (connectCounter + 1) % MAX_CONNECT_ATTEMPTS
    /\ reconnectTime' = TimeAfter(connectCounter + 1)
    /\ reconnectTimer' \in AfterStartOnce(reconnectTimer)
    /\ isConnectTriggered' = TRUE

\* Mutant: the counter is not reset after the long pause.
ReconnectCountingOn ==
    /\ connectCounter' = connectCounter + 1
    /\ reconnectTime' = TimeAfter(connectCounter + 1)
    /\ reconnectTimer' \in AfterStartOnce(reconnectTimer)
    /\ UNCHANGED isConnectTriggered

\* handleReconnect_.  The result of startOnce is ignored.
HandleReconnect ==
    /\ connectCounter' = IF connectCounter + 1 >= MAX_CONNECT_ATTEMPTS
                         THEN 0 ELSE connectCounter + 1
    /\ reconnectTime' = TimeAfter(connectCounter + 1)
    /\ reconnectTimer' \in AfterStartOnce(reconnectTimer)
    /\ UNCHANGED isConnectTriggered

ConnectFails ==
    /\ pc = "connect"
    /\ HandleReconnect
    /\ pc' = "telemetry"
    /\ UNCHANGED <<groupVars, ledEventQueue, session, telemetryQueue>>

SetAwsBit ==
    /\ pc = "set"
    /\ Begin(Aws, "set", {AWS_CONNECTED_BIT})
    /\ UNCHANGED <<ledEventQueue, awsVars>>

\* The result of the set is only logged.
SetAwsBitEnds ==
    /\ pc = "set"
    /\ Store(Aws)
    /\ pc' = "announce"
    /\ UNCHANGED <<ledEventQueue, retryVars, session, telemetryQueue>>

\* The led event and setSubscriptions_, whose results are only logged.
AnnounceConnected ==
    /\ pc = "announce"
    /\ SendLed("AWS_CONNECTED")
    /\ pc' = "telemetry"
    /\ UNCHANGED <<groupVars, retryVars, session, telemetryQueue>>

-----------------------------------------------------------------------------
(* The rest of the loop: telemetryQueue.yield and awsIotClient.yield.      *)

\* The reading leaves the queue, whether or not it can be published.
PublishTelemetry ==
    /\ pc = "telemetry"
    /\ telemetryQueue' = IF telemetryQueue = <<>> THEN <<>> ELSE Tail(telemetryQueue)
    /\ pc' = "client"
    /\ UNCHANGED <<groupVars, ledEventQueue, retryVars, session>>

\* Mutant: the client runs only while Wi-Fi is connected.
ClientYieldIfWifi ==
    /\ pc = "client"
    /\ IF session = "lost" /\ IsBitsSet({WIFI_CONNECTED_BIT})
       THEN session' = "down" /\ pc' = "clear"
       ELSE pc' = "yield" /\ UNCHANGED session
    /\ UNCHANGED <<groupVars, ledEventQueue, retryVars, telemetryQueue>>

\* The client notices a lost session, and calls handleDisconnect_ from its yield.
ClientYield ==
    /\ pc = "client"
    /\ IF session = "lost"
       THEN session' = "down" /\ pc' = "clear"
       ELSE pc' = "yield" /\ UNCHANGED session
    /\ UNCHANGED <<groupVars, ledEventQueue, retryVars, telemetryQueue>>

-----------------------------------------------------------------------------
(* handleDisconnect_.                                                      *)

\* Mutant: both bits are cleared.
ClearBothBits ==
    /\ pc \in {"clear", "clearAgain"}
    /\ Begin(Aws, "clear", {AWS_CONNECTED_BIT, WIFI_CONNECTED_BIT})
    /\ UNCHANGED <<ledEventQueue, awsVars>>

ClearAwsBit ==
    /\ pc \in {"clear", "clearAgain"}
    /\ Begin(Aws, "clear", {AWS_CONNECTED_BIT})
    /\ UNCHANGED <<ledEventQueue, awsVars>>

\* Mutant: the clear is not tried again.
ClearOnce ==
    /\ pc \in {"clear", "clearAgain"}
    /\ Store(Aws)
    /\ pc' = "announceLoss"
    /\ UNCHANGED <<ledEventQueue, retryVars, session, telemetryQueue>>

\* A clear that fails is tried once more.
ClearAwsBitEnds ==
    /\ pc \in {"clear", "clearAgain"}
    /\ Store(Aws)
    /\ pc' = IF pc = "clear" /\ ResultOf(Aws) = "FAIL" THEN "clearAgain" ELSE "announceLoss"
    /\ UNCHANGED <<ledEventQueue, retryVars, session, telemetryQueue>>

\* Mutant: the lost session does not trigger a connection.
AnnounceOnly ==
    /\ pc = "announceLoss"
    /\ SendLed("AWS_DISCONNECTED")
    /\ pc' = "yield"
    /\ UNCHANGED <<groupVars, retryVars, session, telemetryQueue>>

AnnounceDisconnected ==
    /\ pc = "announceLoss"
    /\ SendLed("AWS_DISCONNECTED")
    /\ isConnectTriggered' = TRUE
    /\ pc' = "yield"
    /\ UNCHANGED <<groupVars, connectCounter, reconnectTimer, reconnectTime, session,
                   telemetryQueue>>

AwsThread ==
    \/ WaitForWifi \/ WaitEnds \/ InKernel
    \/ Yield \/ TakeTrigger \/ ConnectSucceeds \/ ConnectFails
    \/ SetAwsBit \/ SetAwsBitEnds \/ AnnounceConnected
    \/ PublishTelemetry \/ ClientYield
    \/ ClearAwsBit \/ ClearAwsBitEnds \/ AnnounceDisconnected

-----------------------------------------------------------------------------
(* The surroundings of the thread.                                         *)

\* The reconnect timer expires: its callback runs in the timer task.
ReconnectTimerFires ==
    /\ reconnectTimer = "armed"
    /\ reconnectTimer' = "idle"
    /\ isConnectTriggered' = TRUE
    /\ UNCHANGED <<groupVars, ledEventQueue, pc, connectCounter, reconnectTime, session,
                   telemetryQueue>>

\* The broker or the network drops the session.
SessionLost ==
    /\ session = "up"
    /\ session' = "lost"
    /\ UNCHANGED <<groupVars, ledEventQueue, pc, retryVars, telemetryQueue>>

\* The radio thread queues a reading; one that finds the queue full is dropped.
ReadingArrives ==
    /\ \E r \in Reading :
         telemetryQueue' = IF Len(telemetryQueue) < TelemetryCapacity
                           THEN Append(telemetryQueue, r) ELSE telemetryQueue
    /\ UNCHANGED <<groupVars, ledEventQueue, pc, retryVars, session>>

UiTakesLedEvent ==
    /\ ReceiveLed
    /\ UNCHANGED <<groupVars, awsVars>>

\* The Wi-Fi handlers run in a task of higher priority on the thread's core.
WifiSetsBit ==
    /\ AtomicSet({WIFI_CONNECTED_BIT})
    /\ SendLed("WIFI_CONNECTED")
    /\ UNCHANGED awsVars

WifiClearsBit ==
    /\ AtomicClear({WIFI_CONNECTED_BIT})
    /\ SendLed("WIFI_DISCONNECTED")
    /\ UNCHANGED awsVars

\* Led events of an attempt to connect to Wi-Fi and of the radio thread.
OthersSendLed ==
    /\ \E e \in {"WIFI_CONNECTION", "RADIO_TIMEOUT"} : SendLed(e)
    /\ UNCHANGED <<groupVars, awsVars>>

AwsSurroundings ==
    \/ ReconnectTimerFires \/ SessionLost \/ ReadingArrives \/ UiTakesLedEvent
    \/ WifiSetsBit \/ WifiClearsBit \/ OthersSendLed

AwsNext == AwsThread \/ AwsSurroundings

AwsSpec == AwsInit /\ [][AwsNext]_awsSystem

\* The thread is a task the scheduler runs, the timer task runs expired timers, and
\* a broker that is asked again and again accepts at last.
AwsFairness ==
    /\ WF_awsSystem(AwsThread)
    /\ WF_awsSystem(ReconnectTimerFires)
    /\ SF_awsSystem(ConnectSucceeds)

AwsFairSpec == AwsSpec /\ AwsFairness

-----------------------------------------------------------------------------
(* Properties.                                                             *)

\* A session exists, or handleDisconnect_ has not yet made up for its loss.
Online == session # "down" \/ pc \in {"clear", "clearAgain", "announceLoss"}

Holds(reason) ==
    CASE reason = "startup"    -> pc = "wait"
      [] reason = "due"        -> isConnectTriggered
      [] reason = "connecting" -> pc = "connect"
      [] reason = "online"     -> Online
      [] reason = "pausing"    -> reconnectTimer = "armed"

Reasons == {r \in {"startup", "due", "connecting", "online", "pausing"} : Holds(r)}

\* The flag that the timer task, the MQTT client's callback and the thread itself
\* write, the timer and the session never ask for two attempts at once (an attempt
\* is never made on a live session, and no timer outlives the failure that started
\* it), and, unless a timer command was refused, never leave none to come.
OneReasonToConnect ==
    /\ \A r, s \in Reasons : r = s
    /\ ~TimerQueueMayBeFull => Reasons # {}

AwsPhase ==
    CASE pc = "wait"                 -> "startup"
      [] Online                      -> "online"
      [] pc = "connect"              -> "connecting"
      [] isConnectTriggered          -> "due"
      [] reconnectTimer = "armed"    -> "pausing"
      [] OTHER                       -> "stranded"

Connection == INSTANCE AwsConnection WITH phase <- AwsPhase, MayStrand <- TimerQueueMayBeFull

\* The thread implements the connection cycle of AwsConnection.
ImplementsConnection == Connection!Spec

\* Outside the calls that change it, AWS_CONNECTED_BIT says whether there is a
\* session, in the kernel and in the copy, whatever the Wi-Fi handlers do to the
\* group in the middle of the thread's calls.
AwsBitTracksSession ==
    pc \notin {"set", "clear", "clearAgain"} =>
        /\ AWS_CONNECTED_BIT \in bits    <=> session # "down"
        /\ AWS_CONNECTED_BIT \in allBits <=> session # "down"

\* The pauses between failed attempts grow by RECONNECT_TIME until the long pause,
\* after which they start again.
PausesGrow ==
    [][pc = "connect" /\ pc' # "set" /\ pc' # pc =>
         reconnectTime' =
            CASE reconnectTime \in {0, RECONNECT_AFTER_MAX_ATTEMPT_TIME} -> RECONNECT_TIME
              [] reconnectTime = RECONNECT_TIME * (MAX_CONNECT_ATTEMPTS - 1)
                    -> RECONNECT_AFTER_MAX_ATTEMPT_TIME
              [] OTHER -> reconnectTime + RECONNECT_TIME]_awsSystem

\* If the thread sees Wi-Fi connected from some time on, and timer commands are never
\* refused, it gets a session again and again.
AwsReconnects ==
    ~TimerQueueMayBeFull /\ <>[]IsBitsSet({WIFI_CONNECTED_BIT}) => []<>(session = "up")
=============================================================================
