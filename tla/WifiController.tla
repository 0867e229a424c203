--------------------------- MODULE WifiController ---------------------------
(***************************************************************************)
(* app::WifiController, which keeps the hub's station connected: handlers  *)
(* of Wi-Fi and IP events, run by the event loop's task, and the callback  *)
(* of the reconnect timer, run by the timer task.                          *)
(*                                                                         *)
(* The event loop's task has the highest priority on its core: what a      *)
(* handler does between two blocking calls (the scan is one) is one step.  *)
(* The timer task has the lowest and can be preempted inside the           *)
(* callback, also in the middle of its ++reconnectAttempt_.                *)
(***************************************************************************)
EXTENDS ConnectionBits, SwTimer, LedEventQueue

CONSTANTS MAX_RECONNECT_ATTEMPTS,
          CountModulus,   \* where reconnectAttempt_ wraps, 256 for a uint8_t
          EventCapacity   \* how many events the driver has waiting at once

ASSUME WifiAssumption ==
    /\ MAX_RECONNECT_ATTEMPTS \in Nat
    /\ CountModulus \in Nat /\ CountModulus > MAX_RECONNECT_ATTEMPTS + 2
    /\ EventCapacity \in Nat \ {0}

VARIABLES link,              \* the driver's station: what connect and the air did to it
          events,            \* events posted to the loop and not yet handled
          handler,           \* "scan" while a handler waits for the scan to end
          reconnectAttempt,  \* reconnectAttempt_
          wifiTimer,         \* the reconnect timer
          callback,          \* where the timer's callback is
          loaded,            \* the value its ++ has read
          dropped,           \* history: a connect left the station idle, or a startOnce
                             \* the timer, and the error it returned was ignored
          attempts           \* history: calls of connect since the last association
                             \* handled or the last time it gave up

history == <<dropped, attempts>>

wifiVars == <<link, events, handler, reconnectAttempt, wifiTimer, callback, loaded, history>>

wifiSystem == <<groupVars, ledEventQueue, wifiVars>>

-----------------------------------------------------------------------------
Links  == {"off", "idle", "connecting", "associated", "ip"}
Events == {"STA_START", "STA_CONNECTED", "STA_DISCONNECTED", "GOT_IP"}

WifiInit ==
    /\ GroupInit
    /\ LedInit
    /\ link = "off"
    /\ events = <<>>
    /\ handler = "free"
    /\ reconnectAttempt = 0
    /\ wifiTimer = "idle"
    /\ callback = "none"
    /\ loaded = 0
    /\ dropped = FALSE
    /\ attempts = 0

WifiTypeOK ==
    /\ GroupTypeOK
    /\ LedTypeOK
    /\ link \in Links
    /\ events \in Seq(Events) /\ Len(events) <= EventCapacity
    /\ handler \in {"free", "scan"}
    /\ reconnectAttempt \in 0..(CountModulus - 1)
    /\ wifiTimer \in TimerStates
    /\ callback \in {"none", "connect", "load", "store"}
    /\ loaded \in 0..(CountModulus - 1)
    /\ dropped \in BOOLEAN
    /\ attempts \in Nat

\* ++ of a uint8_t.
Incremented(n) == (n + 1) % CountModulus

\* Mutant: one attempt too many.
TooManyAttemptsLate == reconnectAttempt > MAX_RECONNECT_ATTEMPTS + 1

TooManyAttempts == reconnectAttempt > MAX_RECONNECT_ATTEMPTS

-----------------------------------------------------------------------------
(* The driver.                                                             *)

\* connect has an effect only when the station is neither connected nor connecting, and
\* may fail then, too.  An error comes without an event, and every caller ignores it.
Connect ==
    /\ link' \in IF link = "idle" THEN {"connecting", "idle"} ELSE {link}
    /\ dropped' = (dropped \/ link' = "idle")
    /\ attempts' = attempts + 1

Post(event) == Len(events) < EventCapacity /\ events' = Append(events, event)

\* WifiController::start.
Start ==
    /\ link = "off"
    /\ link' = "idle"
    /\ Post("STA_START")
    /\ UNCHANGED <<groupVars, ledEventQueue, handler, reconnectAttempt, wifiTimer,
                   callback, loaded, history>>

LinkBecomes(from, to, event) ==
    /\ link \in from
    /\ link' = to
    /\ Post(event)
    /\ UNCHANGED <<groupVars, ledEventQueue, handler, reconnectAttempt, wifiTimer,
                   callback, loaded, history>>

Associates == LinkBecomes({"connecting"}, "associated", "STA_CONNECTED")
GetsIp     == LinkBecomes({"associated"}, "ip", "GOT_IP")

\* An attempt fails or a connection is lost.
LinkFails == LinkBecomes({"connecting", "associated", "ip"}, "idle", "STA_DISCONNECTED")

-----------------------------------------------------------------------------
(* wifiEventHandler_ and ipEventHandler_.                                  *)

Takes(event) ==
    /\ handler = "free"
    /\ events # <<>>
    /\ Head(events) = event
    /\ events' = Tail(events)

HandleStaStart ==
    /\ Takes("STA_START")
    /\ Connect
    /\ UNCHANGED <<groupVars, ledEventQueue, handler, reconnectAttempt, wifiTimer,
                   callback, loaded>>

\* Mutant: the bit is cleared until the new connection has its address.
HandleStaConnectedClearing ==
    /\ Takes("STA_CONNECTED")
    /\ reconnectAttempt' = 0
    /\ attempts' = 0
    /\ AtomicClear({WIFI_CONNECTED_BIT})
    /\ wifiTimer' \in AfterStop(wifiTimer)
    /\ UNCHANGED <<ledEventQueue, link, handler, callback, loaded, dropped>>

HandleStaConnected ==
    /\ Takes("STA_CONNECTED")
    /\ reconnectAttempt' = 0
    /\ attempts' = 0
    /\ wifiTimer' \in AfterStop(wifiTimer)
    /\ UNCHANGED <<groupVars, ledEventQueue, link, handler, callback, loaded, dropped>>

\* The handler blocks in scan; reconnect_ comes when the scan ends.
HandleStaDisconnected ==
    /\ Takes("STA_DISCONNECTED")
    /\ handler' = "scan"
    /\ UNCHANGED <<groupVars, ledEventQueue, link, reconnectAttempt, wifiTimer,
                   callback, loaded, history>>

\* Mutant: giving up does not start the timer.
GiveUpForGood ==
    /\ TooManyAttempts
    /\ reconnectAttempt' = 0
    /\ attempts' = 0
    /\ AtomicClear({WIFI_CONNECTED_BIT})
    /\ SendLed("WIFI_DISCONNECTED")
    /\ UNCHANGED <<link, wifiTimer, dropped>>

\* Mutant: giving up clears both bits.
GiveUpClearingAll ==
    /\ TooManyAttempts
    /\ reconnectAttempt' = 0
    /\ attempts' = 0
    /\ AtomicClear({WIFI_CONNECTED_BIT, AWS_CONNECTED_BIT})
    /\ SendLed("WIFI_DISCONNECTED")
    /\ wifiTimer' \in AfterStartOnce(wifiTimer)
    /\ dropped' = (dropped \/ wifiTimer' # "armed")
    /\ UNCHANGED link

\* reconnect_ after too many attempts: wait for the timer.
GiveUp ==
    /\ TooManyAttempts
    /\ reconnectAttempt' = 0
    /\ attempts' = 0
    /\ AtomicClear({WIFI_CONNECTED_BIT})
    /\ SendLed("WIFI_DISCONNECTED")
    /\ wifiTimer' \in AfterStartOnce(wifiTimer)
    /\ dropped' = (dropped \/ wifiTimer' # "armed")
    /\ UNCHANGED link

\* Mutant: the timer runs during the attempts as well.
RetryWithTimer ==
    /\ ~TooManyAttempts
    /\ reconnectAttempt' = Incremented(reconnectAttempt)
    /\ SendLed("WIFI_CONNECTION")
    /\ Connect
    /\ wifiTimer' \in AfterStartOnce(wifiTimer)
    /\ UNCHANGED groupVars

\* reconnect_ before that: try again.
Retry ==
    /\ ~TooManyAttempts
    /\ reconnectAttempt' = Incremented(reconnectAttempt)
    /\ SendLed("WIFI_CONNECTION")
    /\ Connect
    /\ UNCHANGED <<groupVars, wifiTimer>>

\* The scan is over.  Its result is ignored, and one that fails returns at once: the
\* timer's callback may be anywhere.
ScanEnds ==
    /\ handler = "scan"
    /\ handler' = "free"
    /\ GiveUp \/ Retry
    /\ UNCHANGED <<events, callback, loaded>>

\* Mutant: the bit is not set when the led event was dropped.
HandleGotIpIfSent ==
    /\ Takes("GOT_IP")
    /\ AtomicSet(IF Len(ledEventQueue) < LedCapacity THEN {WIFI_CONNECTED_BIT} ELSE {})
    /\ SendLed("WIFI_CONNECTED")
    /\ UNCHANGED <<link, handler, reconnectAttempt, wifiTimer, callback, loaded, history>>

HandleGotIp ==
    /\ Takes("GOT_IP")
    /\ AtomicSet({WIFI_CONNECTED_BIT})
    /\ SendLed("WIFI_CONNECTED")
    /\ UNCHANGED <<link, handler, reconnectAttempt, wifiTimer, callback, loaded, history>>

EventLoop == HandleStaStart \/ HandleStaConnected \/ HandleStaDisconnected \/ HandleGotIp

-----------------------------------------------------------------------------
(* The reconnect timer and its callback: connect, then ++reconnectAttempt_. *)

WifiTimerFires ==
    /\ wifiTimer = "armed"
    /\ callback = "none"
    /\ wifiTimer' = "idle"
    /\ callback' = "connect"
    /\ UNCHANGED <<groupVars, ledEventQueue, link, events, handler, reconnectAttempt, loaded,
                   history>>

CallbackConnects ==
    /\ callback = "connect"
    /\ Connect
    /\ callback' = "load"
    /\ UNCHANGED <<groupVars, ledEventQueue, events, handler, reconnectAttempt, wifiTimer,
                   loaded>>

CallbackLoads ==
    /\ callback = "load"
    /\ loaded' = reconnectAttempt
    /\ callback' = "store"
    /\ UNCHANGED <<groupVars, ledEventQueue, link, events, handler, reconnectAttempt,
                   wifiTimer, history>>

CallbackStores ==
    /\ callback = "store"
    /\ reconnectAttempt' = Incremented(loaded)
    /\ callback' = "none"
    /\ loaded' = 0
    /\ UNCHANGED <<groupVars, ledEventQueue, link, events, handler, wifiTimer, history>>

TimerCallback == CallbackConnects \/ CallbackLoads \/ CallbackStores

WifiUiTakesLedEvent ==
    /\ ReceiveLed
    /\ UNCHANGED <<groupVars, wifiVars>>

WifiProgress == Start \/ EventLoop \/ ScanEnds \/ WifiTimerFires \/ TimerCallback

WifiNext ==
    \/ WifiProgress
    \/ Associates \/ GetsIp \/ LinkFails
    \/ WifiUiTakesLedEvent

WifiSpec == WifiInit /\ [][WifiNext]_wifiSystem

\* Each task runs, a scan ends, and an attempt the driver has begun goes on.
WifiFairness ==
    /\ WF_wifiSystem(Start)
    /\ WF_wifiSystem(EventLoop)
    /\ WF_wifiSystem(ScanEnds)
    /\ WF_wifiSystem(WifiTimerFires)
    /\ WF_wifiSystem(TimerCallback)
    /\ WF_wifiSystem(Associates \/ GetsIp)

WifiFairSpec == WifiSpec /\ WifiFairness

-----------------------------------------------------------------------------
(* Properties.                                                             *)

Pending(event) == \E i \in 1..Len(events) : events[i] = event

\* What will lead to a connection, or is one.
WayIsOpen(way) ==
    CASE way = "link"       -> link \notin {"off", "idle"}
      [] way = "not started" -> link = "off"
      [] way = "event"      -> Pending("STA_START") \/ Pending("STA_DISCONNECTED")
      [] way = "scan"       -> handler = "scan"
      [] way = "timer"      -> wifiTimer = "armed"
      [] way = "callback"   -> callback = "connect"

Ways == {w \in {"link", "not started", "event", "scan", "timer", "callback"} : WayIsOpen(w)}

\* Handlers and timer never work at the connection at the same time, though they
\* call the driver from different tasks, and the station is left disconnected with
\* nobody to connect it exactly when an error of connect on an idle station, or of
\* startOnce, was dropped: one is enough, and nothing else does it.
OneWayToConnect ==
    /\ \A v, w \in Ways : v = w
    /\ Ways = {} <=> dropped

\* With every event handled and an address obtained, WIFI_CONNECTED_BIT is set,
\* however disconnections and late events were interleaved before.
BitSetWhenSettled ==
    link = "ip" /\ events = <<>> /\ handler = "free" => WIFI_CONNECTED_BIT \in bits

\* The station pauses after a bounded number of attempts, wherever the callback was
\* preempted in its ++ and whatever the handlers wrote to the count meanwhile, a value
\* stored late included: at most twice the attempts of a cycle without the timer.
AttemptsBounded == attempts <= 2 * (MAX_RECONNECT_ATTEMPTS + 1)

\* The bit is cleared only while the link is down, with no event of a newer
\* connection waiting behind the one that is being handled.
ClearedOnlyWhileDown ==
    [][(WIFI_CONNECTED_BIT \in bits /\ WIFI_CONNECTED_BIT \notin bits')
         => link = "idle" /\ events = <<>> ]_wifiSystem

\* If from some time on the air lets every attempt through, and the driver and the
\* timer have refused nothing they were asked, the bit is set for good.
WifiRecovers ==
    []~dropped /\ <>[][~LinkFails]_wifiSystem => <>[](WIFI_CONNECTED_BIT \in bits)
=============================================================================
