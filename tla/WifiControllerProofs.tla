------------------------ MODULE WifiControllerProofs ------------------------
(***************************************************************************)
(* Proofs about WifiController: one way to connect at a time, whatever the *)
(* capacity of the event queue and the limit on attempts, and what follows *)
(* from it for WIFI_CONNECTED_BIT.                                         *)
(***************************************************************************)
EXTENDS WifiController, EventGroupProofs, SequenceTheorems, TLAPS

-----------------------------------------------------------------------------
(* What the argument needs to know of types.                               *)

ControlTypeOK ==
    /\ link \in Links
    /\ events \in Seq(Events)
    /\ handler \in {"free", "scan"}
    /\ wifiTimer \in TimerStates
    /\ callback \in {"none", "connect", "load", "store"}
    /\ dropped \in BOOLEAN

Driver == Associates \/ GetsIp \/ LinkFails

LEMMA ControlType ==
    ASSUME ControlTypeOK, WifiProgress \/ Driver \/ UNCHANGED wifiVars
    PROVE  ControlTypeOK'
<1> USE DEF ControlTypeOK, Links, Events, TimerStates, history
<1>1. CASE Start
  BY <1>1 DEF Start, Post
<1>2. CASE HandleStaStart
  BY <1>2 DEF HandleStaStart, Takes, Connect
<1>3. CASE HandleStaConnected
  BY <1>3 DEF HandleStaConnected, Takes, AfterStop, Refused
<1>4. CASE HandleStaDisconnected
  BY <1>4 DEF HandleStaDisconnected, Takes
<1>5. CASE HandleGotIp
  BY <1>5 DEF HandleGotIp, Takes
<1>6. CASE ScanEnds
  BY <1>6 DEF ScanEnds, GiveUp, Retry, Connect, AfterStartOnce, Refused
<1>7. CASE WifiTimerFires \/ TimerCallback
  BY <1>7 DEF WifiTimerFires, TimerCallback, CallbackConnects, CallbackLoads,
              CallbackStores, Connect
<1>8. CASE Driver
  BY <1>8 DEF Driver, Associates, GetsIp, LinkFails, LinkBecomes, Post
<1>9. CASE UNCHANGED wifiVars
  BY <1>9 DEF wifiVars
<1> QED
  BY <1>1, <1>2, <1>3, <1>4, <1>5, <1>6, <1>7, <1>8, <1>9 DEF WifiProgress, EventLoop

-----------------------------------------------------------------------------
(* The inductive invariant.  A way to connect is an event that comes last, *)
(* a scan, the timer, the callback or the link itself; a queue that ends   *)
(* with another event belongs to a link that is up.                        *)

EventWay == {"STA_START", "STA_DISCONNECTED"}

LinkWay     == link \notin {"off", "idle"}
StartWay    == link = "off"
QueueWay    == \E i \in 1..Len(events) : events[i] \in EventWay
ScanWay     == handler = "scan"
TimerWay    == wifiTimer = "armed"
CallbackWay == callback = "connect"

Exclusive ==
    /\ QueueWay    => ~LinkWay /\ ~StartWay
    /\ ScanWay     => ~LinkWay /\ ~StartWay /\ ~QueueWay
    /\ TimerWay    => ~LinkWay /\ ~StartWay /\ ~QueueWay /\ ~ScanWay
    /\ CallbackWay => ~LinkWay /\ ~StartWay /\ ~QueueWay /\ ~ScanWay /\ ~TimerWay

SomeWay == LinkWay \/ StartWay \/ QueueWay \/ ScanWay \/ TimerWay \/ CallbackWay

EventsInOrder ==
    /\ \A i \in 1..Len(events) : events[i] \in EventWay => i = Len(events)
    /\ events # <<>> /\ events[Len(events)] \notin EventWay => link \in {"associated", "ip"}

WayInv == ControlTypeOK /\ Exclusive /\ EventsInOrder /\ (~SomeWay <=> dropped)

\* The named ways are those of the property.
LEMMA WaysAre ==
    ASSUME ControlTypeOK
    PROVE  /\ Exclusive <=> \A v, w \in Ways : v = w
           /\ SomeWay <=> Ways # {}
<1> DEFINE W == {"link", "not started", "event", "scan", "timer", "callback"}
<1>1. /\ WayIsOpen("link") <=> LinkWay
      /\ WayIsOpen("not started") <=> StartWay
      /\ WayIsOpen("event") <=> QueueWay
      /\ WayIsOpen("scan") <=> ScanWay
      /\ WayIsOpen("timer") <=> TimerWay
      /\ WayIsOpen("callback") <=> CallbackWay
  BY DEF WayIsOpen, LinkWay, StartWay, QueueWay, EventWay, ScanWay, TimerWay, CallbackWay,
         Pending
<1>2. LinkWay => ~StartWay
  BY DEF LinkWay, StartWay
<1>3. \A w : w \in Ways <=> w \in W /\ WayIsOpen(w)
  BY DEF Ways
<1>4. SomeWay <=> Ways # {}
  <2>1. ASSUME SomeWay PROVE \E w \in W : WayIsOpen(w)
    BY <1>1, <2>1 DEF SomeWay
  <2>2. ASSUME NEW w \in Ways PROVE SomeWay
    BY <1>1, <1>3, <2>2 DEF SomeWay
  <2> QED
    BY <1>3, <2>1, <2>2
<1>5. ASSUME Exclusive, NEW v \in Ways, NEW w \in Ways PROVE v = w
  <2> DEFINE Is(u) == \/ u = "link" /\ LinkWay
                      \/ u = "not started" /\ StartWay
                      \/ u = "event" /\ QueueWay
                      \/ u = "scan" /\ ScanWay
                      \/ u = "timer" /\ TimerWay
                      \/ u = "callback" /\ CallbackWay
  <2>1. ASSUME NEW u \in Ways PROVE Is(u)
    BY <1>1, <1>3, <2>1
  <2>2. Is(v) /\ Is(w)
    BY <2>1
  <2>3. CASE v = "link" /\ LinkWay
    BY <1>2, <1>5, <2>2, <2>3 DEF Exclusive
  <2>4. CASE v = "not started" /\ StartWay
    BY <1>2, <1>5, <2>2, <2>4 DEF Exclusive
  <2>5. CASE v = "event" /\ QueueWay
    BY <1>5, <2>2, <2>5 DEF Exclusive
  <2>6. CASE v = "scan" /\ ScanWay
    BY <1>5, <2>2, <2>6 DEF Exclusive
  <2>7. CASE v = "timer" /\ TimerWay
    BY <1>5, <2>2, <2>7 DEF Exclusive
  <2>8. CASE v = "callback" /\ CallbackWay
    BY <1>5, <2>2, <2>8 DEF Exclusive
  <2> QED
    BY <2>2, <2>3, <2>4, <2>5, <2>6, <2>7, <2>8
<1>6. ASSUME \A v, w \in Ways : v = w PROVE Exclusive
  <2>1. \A v, w \in W : WayIsOpen(v) /\ WayIsOpen(w) => v = w
    BY <1>3, <1>6
  <2> QED
    BY <1>1, <2>1 DEF Exclusive
<1> QED
  BY <1>4, <1>5, <1>6

-----------------------------------------------------------------------------
(* The invariant is inductive.                                             *)

\* What is left of a queue s of n + 1 events, a way-event only at its end, when the
\* head is taken.
LEMMA TailOfOrdered ==
    ASSUME NEW n \in Nat, NEW s, NEW t,
           \A i \in 1..n : t[i] = s[i + 1],
           \A i \in 1..(n + 1) : s[i] \in EventWay => i = n + 1
    PROVE  /\ \A i \in 1..n : t[i] \in EventWay => i = n
           /\ s[1] \in EventWay => n = 0
           /\ s[1] \notin EventWay =>
                ((\E i \in 1..n : t[i] \in EventWay)
                   <=> \E i \in 1..(n + 1) : s[i] \in EventWay)
           /\ n # 0 => t[n] = s[n + 1]
<1>1. ASSUME NEW i \in 1..n
      PROVE  i + 1 \in 1..(n + 1) /\ t[i] = s[i + 1]
  OBVIOUS
<1>2. ASSUME NEW i \in 1..(n + 1), i # 1
      PROVE  i - 1 \in 1..n /\ t[i - 1] = s[i]
  <2>1. i - 1 \in 1..n /\ (i - 1) + 1 = i
    BY <1>2
  <2> QED
    BY <2>1
<1>3. ASSUME s[1] \notin EventWay, NEW i \in 1..(n + 1), s[i] \in EventWay
      PROVE  \E j \in 1..n : t[j] \in EventWay
  BY <1>2, <1>3
<1> QED
  BY <1>1, <1>3

\* Taking the head leaves the order of the rest.
LEMMA TakesKeepsOrder ==
    ASSUME WayInv, NEW e \in Events, Takes(e)
    PROVE  /\ \A i \in 1..Len(events') : events'[i] \in EventWay => i = Len(events')
           /\ e \in EventWay => events' = <<>> /\ QueueWay
           /\ e \notin EventWay => (QueueWay' <=> QueueWay)
           /\ e \notin EventWay /\ ~QueueWay => link \in {"associated", "ip"}
           /\ events' # <<>> => events'[Len(events')] = events[Len(events)]
<1> DEFINE n == Len(events')
<1>1. /\ events \in Seq(Events) /\ events # <<>> /\ events' = Tail(events)
      /\ Head(events) = e
      /\ \A i \in 1..Len(events) : events[i] \in EventWay => i = Len(events)
      /\ events[Len(events)] \notin EventWay => link \in {"associated", "ip"}
  BY DEF WayInv, ControlTypeOK, EventsInOrder, Takes
<1>2. /\ events' \in Seq(Events) /\ n \in Nat /\ Len(events) = n + 1 /\ e = events[1]
      /\ \A i \in 1..n : events'[i] = events[i + 1]
  BY <1>1, HeadTailProperties
<1>3. /\ QueueWay' <=> \E i \in 1..n : events'[i] \in EventWay
      /\ QueueWay <=> \E i \in 1..(n + 1) : events[i] \in EventWay
  BY <1>2 DEF QueueWay, EventWay
<1>4. \A i \in 1..(n + 1) : events[i] \in EventWay => i = n + 1
  BY <1>1, <1>2
<1>5. n = 0 <=> events' = <<>>
  BY <1>2, EmptySeq
<1>6. 1 \in 1..(n + 1) /\ n + 1 \in 1..(n + 1)
  BY <1>2
<1> HIDE DEF n
<1>7. /\ \A i \in 1..n : events'[i] \in EventWay => i = n
      /\ events[1] \in EventWay => n = 0
      /\ events[1] \notin EventWay =>
           ((\E i \in 1..n : events'[i] \in EventWay)
              <=> \E i \in 1..(n + 1) : events[i] \in EventWay)
      /\ n # 0 => events'[n] = events[n + 1]
  BY <1>2, <1>4, TailOfOrdered
<1> QED
  BY <1>1, <1>2, <1>3, <1>5, <1>6, <1>7 DEF n

\* An event of the driver is posted behind others only while the link is up.
LEMMA PostKeepsOrder ==
    ASSUME WayInv, ~QueueWay, NEW e \in Events, Post(e)
    PROVE  /\ \A i \in 1..Len(events') : events'[i] \in EventWay => i = Len(events')
           /\ QueueWay' <=> e \in EventWay
           /\ events' # <<>> /\ events'[Len(events')] = e
<1> USE DEF WayInv, ControlTypeOK, Post
<1>1. /\ Len(events) \in Nat
      /\ Len(events') = Len(events) + 1
      /\ events'[Len(events')] = e
      /\ \A i \in 1..Len(events) : events'[i] = events[i] /\ events[i] \notin EventWay
  BY DEF QueueWay
<1>2. \A i \in 1..Len(events') : i = Len(events') \/ i \in 1..Len(events)
  BY <1>1
<1>3. Len(events') \in 1..Len(events')
  BY <1>1
<1> QED
  BY <1>1, <1>2, <1>3 DEF QueueWay, EventWay

\* When the scan ends there is nothing to come from the driver.
LEMMA ScanIsAlone ==
    ASSUME WayInv, handler = "scan"
    PROVE  link = "idle" /\ events = <<>>
<1>1. ~LinkWay /\ ~StartWay /\ ~QueueWay
  BY DEF WayInv, Exclusive, ScanWay
<1>2. link = "idle"
  BY <1>1 DEF WayInv, ControlTypeOK, Links, LinkWay, StartWay
<1>3. ASSUME events # <<>> PROVE FALSE
  <2>1. Len(events) \in 1..Len(events)
    BY <1>3 DEF WayInv, ControlTypeOK
  <2> QED
    BY <1>1, <1>2, <1>3, <2>1 DEF WayInv, EventsInOrder, QueueWay
<1> QED
  BY <1>2, <1>3

LEMMA WayStep ==
    ASSUME WayInv, WifiProgress \/ Driver
    PROVE  WayInv'
<1> USE DEF ScanWay, TimerWay, CallbackWay, history
<1>0. ControlTypeOK'
  BY ControlType DEF WayInv
<1>e. "STA_START" \in Events /\ "STA_CONNECTED" \in Events
      /\ "STA_DISCONNECTED" \in Events /\ "GOT_IP" \in Events
  BY DEF Events
<1>w. /\ "STA_START" \in EventWay /\ "STA_DISCONNECTED" \in EventWay
      /\ "STA_CONNECTED" \notin EventWay /\ "GOT_IP" \notin EventWay
  BY DEF EventWay
<1>1. CASE Start
  <2>1. ~QueueWay /\ Post("STA_START")
    BY <1>1 DEF Start, WayInv, Exclusive, StartWay
  <2> QED
    BY <1>0, <1>1, <1>e, <1>w, <2>1, PostKeepsOrder
    DEF Start, WayInv, Exclusive, SomeWay, EventsInOrder, StartWay, LinkWay
<1>2. CASE HandleStaStart
  <2>1. Takes("STA_START")
    BY <1>2 DEF HandleStaStart
  <2>2. events' = <<>> /\ QueueWay
    BY <1>e, <1>w, <2>1, TakesKeepsOrder
  <2>3. ~QueueWay'
    BY <2>2 DEF QueueWay, EventWay
  <2>4. /\ link = "idle" /\ ~dropped
        /\ handler = "free" /\ wifiTimer # "armed" /\ callback # "connect"
    BY <2>1, <2>2
    DEF WayInv, Exclusive, SomeWay, StartWay, LinkWay, ControlTypeOK, Links, Takes
  <2>5. /\ link' \in {"connecting", "idle"} /\ (dropped' <=> link' = "idle")
        /\ UNCHANGED <<handler, wifiTimer, callback>>
    BY <1>2, <2>4 DEF HandleStaStart, Connect
  <2>6. Exclusive' /\ (~SomeWay' <=> dropped')
    BY <2>3, <2>4, <2>5 DEF Exclusive, SomeWay, StartWay, LinkWay
  <2>7. EventsInOrder'
    BY <2>2 DEF EventsInOrder
  <2> QED
    BY <1>0, <2>6, <2>7 DEF WayInv
<1>3. CASE HandleStaConnected
  <2>1. Takes("STA_CONNECTED")
    BY <1>3 DEF HandleStaConnected
  <2>2. /\ QueueWay' <=> QueueWay
        /\ ~QueueWay => link \in {"associated", "ip"}
        /\ \A i \in 1..Len(events') : events'[i] \in EventWay => i = Len(events')
        /\ events' # <<>> => events # <<>> /\ events'[Len(events')] = events[Len(events)]
    BY <1>e, <1>w, <2>1, TakesKeepsOrder DEF Takes
  <2>3. ~TimerWay /\ wifiTimer' = wifiTimer
    BY <1>3, <2>2
    DEF HandleStaConnected, WayInv, Exclusive, LinkWay, AfterStop, Refused, ControlTypeOK,
        TimerStates
  <2> QED
    BY <1>0, <1>3, <2>2, <2>3
    DEF HandleStaConnected, WayInv, Exclusive, SomeWay, EventsInOrder, StartWay, LinkWay,
        EventWay
<1>4. CASE HandleStaDisconnected
  <2>1. Takes("STA_DISCONNECTED")
    BY <1>4 DEF HandleStaDisconnected
  <2>2. events' = <<>> /\ QueueWay
    BY <1>e, <1>w, <2>1, TakesKeepsOrder
  <2>3. ~QueueWay'
    BY <2>2 DEF QueueWay, EventWay
  <2> QED
    BY <1>0, <1>4, <2>2, <2>3
    DEF HandleStaDisconnected, WayInv, Exclusive, SomeWay, EventsInOrder, StartWay, LinkWay,
        EventWay
<1>5. CASE HandleGotIp
  <2>1. Takes("GOT_IP")
    BY <1>5 DEF HandleGotIp
  <2>2. /\ QueueWay' <=> QueueWay
        /\ \A i \in 1..Len(events') : events'[i] \in EventWay => i = Len(events')
        /\ events' # <<>> => events # <<>> /\ events'[Len(events')] = events[Len(events)]
    BY <1>e, <1>w, <2>1, TakesKeepsOrder DEF Takes
  <2> QED
    BY <1>0, <1>5, <2>2
    DEF HandleGotIp, WayInv, Exclusive, SomeWay, EventsInOrder, StartWay, LinkWay, EventWay
<1>6. CASE ScanEnds
  <2>1. ~LinkWay /\ ~StartWay /\ ~QueueWay /\ events = <<>> /\ events' = <<>>
    BY <1>6, ScanIsAlone DEF ScanEnds, WayInv, Exclusive
  <2>2. ~QueueWay' /\ handler' = "free" /\ callback' = callback
    BY <1>6, <2>1 DEF QueueWay, EventWay, ScanEnds
  <2>3. CASE GiveUp
    BY <1>0, <1>6, <2>1, <2>2, <2>3
    DEF GiveUp, ScanEnds, WayInv, Exclusive, SomeWay, EventsInOrder, StartWay, LinkWay,
        EventWay, AfterStartOnce, Refused
  <2>4. CASE Retry
    BY <1>0, <1>6, <2>1, <2>2, <2>4
    DEF Retry, ScanEnds, WayInv, Exclusive, SomeWay, EventsInOrder, StartWay, LinkWay,
        EventWay, Connect
  <2> QED
    BY <1>6, <2>3, <2>4 DEF ScanEnds
<1>7. CASE WifiTimerFires
  <2>1. QueueWay' <=> QueueWay
    BY <1>7 DEF WifiTimerFires, QueueWay, EventWay
  <2> QED
    BY <1>0, <1>7, <2>1
    DEF WifiTimerFires, WayInv, Exclusive, SomeWay, EventsInOrder, StartWay, LinkWay, EventWay
<1>8. CASE CallbackConnects
  <2>1. ~LinkWay /\ ~StartWay /\ ~QueueWay
    BY <1>8 DEF CallbackConnects, WayInv, Exclusive
  <2>2. events = <<>>
    <3> SUFFICES ASSUME events # <<>> PROVE FALSE
      OBVIOUS
    <3>1. Len(events) \in 1..Len(events)
      BY DEF WayInv, ControlTypeOK
    <3> QED
      BY <2>1, <3>1 DEF WayInv, EventsInOrder, QueueWay, LinkWay
  <2>3. events' = <<>> /\ ~QueueWay'
    BY <1>8, <2>2 DEF CallbackConnects, QueueWay, EventWay
  <2> QED
    BY <1>0, <1>8, <2>1, <2>3
    DEF CallbackConnects, WayInv, Exclusive, SomeWay, EventsInOrder, StartWay, LinkWay,
        Connect, EventWay
<1>9. CASE CallbackLoads \/ CallbackStores
  <2>1. QueueWay' <=> QueueWay
    BY <1>9 DEF CallbackLoads, CallbackStores, QueueWay, EventWay
  <2> QED
    BY <1>0, <1>9, <2>1
    DEF CallbackLoads, CallbackStores, WayInv, Exclusive, SomeWay, EventsInOrder, StartWay,
        LinkWay, EventWay
<1>10. CASE Associates
  <2>1. ~QueueWay /\ Post("STA_CONNECTED")
    BY <1>10 DEF Associates, LinkBecomes, WayInv, Exclusive, LinkWay
  <2> QED
    BY <1>0, <1>10, <1>e, <1>w, <2>1, PostKeepsOrder
    DEF Associates, LinkBecomes, WayInv, Exclusive, SomeWay, EventsInOrder, StartWay,
        LinkWay, EventWay
<1>11. CASE GetsIp
  <2>1. ~QueueWay /\ Post("GOT_IP")
    BY <1>11 DEF GetsIp, LinkBecomes, WayInv, Exclusive, LinkWay
  <2> QED
    BY <1>0, <1>11, <1>e, <1>w, <2>1, PostKeepsOrder
    DEF GetsIp, LinkBecomes, WayInv, Exclusive, SomeWay, EventsInOrder, StartWay, LinkWay,
        EventWay
<1>12. CASE LinkFails
  <2>1. ~QueueWay /\ Post("STA_DISCONNECTED")
    BY <1>12 DEF LinkFails, LinkBecomes, WayInv, Exclusive, LinkWay
  <2> QED
    BY <1>0, <1>12, <1>e, <1>w, <2>1, PostKeepsOrder
    DEF LinkFails, LinkBecomes, WayInv, Exclusive, SomeWay, EventsInOrder, StartWay, LinkWay,
        EventWay
<1> QED
  BY <1>1, <1>2, <1>3, <1>4, <1>5, <1>6, <1>7, <1>8, <1>9, <1>10, <1>11, <1>12
  DEF WifiProgress, EventLoop, TimerCallback, Driver

\* It depends on nothing but the controller's own variables.
LEMMA WayStutter ==
    ASSUME WayInv, UNCHANGED wifiVars
    PROVE  WayInv'
BY DEF wifiVars, history, WayInv, ControlTypeOK, Exclusive, SomeWay, EventsInOrder, LinkWay,
       StartWay, QueueWay, ScanWay, TimerWay, CallbackWay, EventWay, Links, Events, TimerStates

LEMMA WayInitial == WifiInit => WayInv
<1> SUFFICES ASSUME WifiInit PROVE WayInv
  OBVIOUS
<1>1. ControlTypeOK
  <2>1. dropped \in BOOLEAN
    BY Zenon DEF WifiInit
  <2>2. events \in Seq(Events)
    BY DEF WifiInit
  <2> QED
    BY <2>1, <2>2 DEF WifiInit, ControlTypeOK, Links, TimerStates
<1>2. events = <<>> /\ ~QueueWay
  BY DEF WifiInit, QueueWay
<1>3. EventsInOrder
  BY <1>2 DEF EventsInOrder
<1>4. Exclusive /\ SomeWay /\ ~dropped
  BY <1>2 DEF WifiInit, Exclusive, SomeWay, LinkWay, StartWay, ScanWay, TimerWay, CallbackWay
<1> QED
  BY <1>1, <1>3, <1>4 DEF WayInv

LEMMA WayHolds == WifiSpec => []WayInv
<1>1. ASSUME WayInv, [WifiNext]_wifiSystem PROVE WayInv'
  <2>1. CASE WifiProgress \/ Associates \/ GetsIp \/ LinkFails
    BY <1>1, <2>1, WayStep DEF Driver
  <2>2. CASE WifiUiTakesLedEvent
    BY <1>1, <2>2, WayStutter DEF WifiUiTakesLedEvent
  <2>3. CASE UNCHANGED wifiSystem
    BY <1>1, <2>3, WayStutter DEF wifiSystem
  <2> QED
    BY <1>1, <2>1, <2>2, <2>3 DEF WifiNext
<1> QED
  BY WayInitial, <1>1, PTL DEF WifiSpec

\* The Wi-Fi handlers and the timer never work at the connection at the same time, and
\* nobody does exactly when an error was dropped: for any limit and capacity.
THEOREM OneWayCorrect == WifiSpec => []OneWayToConnect
<1>1. WayInv => OneWayToConnect
  BY WaysAre DEF WayInv, OneWayToConnect
<1> QED
  BY <1>1, WayHolds, PTL

-----------------------------------------------------------------------------
(* WIFI_CONNECTED_BIT.                                                     *)

\* Only the end of a scan clears a bit.
LEMMA WhoClears ==
    ASSUME WifiNext, ~ScanEnds
    PROVE  bits \subseteq bits'
BY DEF WifiNext, WifiProgress, EventLoop, TimerCallback, Start, HandleStaStart,
       HandleStaConnected, HandleStaDisconnected, HandleGotIp, AtomicSet,
       WifiTimerFires, CallbackConnects, CallbackLoads, CallbackStores, Associates, GetsIp,
       LinkFails, LinkBecomes, WifiUiTakesLedEvent, groupVars

\* The bit is cleared only while the link is down and no event waits.
THEOREM ClearedCorrect == WifiSpec => ClearedOnlyWhileDown
<1>1. ASSUME WayInv, [WifiNext]_wifiSystem,
             WIFI_CONNECTED_BIT \in bits, WIFI_CONNECTED_BIT \notin bits'
      PROVE  link = "idle" /\ events = <<>>
  <2>1. CASE UNCHANGED wifiSystem
    BY <1>1, <2>1 DEF wifiSystem, groupVars
  <2>2. CASE ScanEnds
    BY <1>1, <2>2, ScanIsAlone DEF ScanEnds
  <2>3. CASE WifiNext /\ ~ScanEnds
    BY <1>1, <2>3, WhoClears
  <2> QED
    BY <1>1, <2>1, <2>2, <2>3
<1> QED
  BY <1>1, WayHolds, PTL DEF WifiSpec, ClearedOnlyWhileDown

-----------------------------------------------------------------------------
(* A link with an address has its bit, or the event that will set it.      *)

BitOrEvent == link = "ip" => WIFI_CONNECTED_BIT \in bits \/ Pending("GOT_IP")

\* An event that is not the head is still there when the head is taken.
LEMMA StillPending ==
    ASSUME ControlTypeOK, NEW e \in Events, NEW f, f # e, Takes(e), Pending(f)
    PROVE  Pending(f)'
<1>1. /\ events \in Seq(Events) /\ events # <<>> /\ events' = Tail(events)
      /\ Head(events) = e
  BY DEF ControlTypeOK, Takes
<1>2. PICK i \in 1..Len(events) : events[i] = f
  BY DEF Pending
<1>3. /\ Len(events') \in Nat /\ Len(events) = Len(events') + 1 /\ events[1] = e
      /\ \A j \in 1..Len(events') : events'[j] = events[j + 1]
  BY <1>1, HeadTailProperties
<1>4. i # 1
  BY <1>2, <1>3
<1>5. i - 1 \in 1..Len(events') /\ (i - 1) + 1 = i
  BY <1>2, <1>3, <1>4
<1>6. events'[i - 1] = f
  BY <1>2, <1>3, <1>5
<1> QED
  BY <1>5, <1>6 DEF Pending

LEMMA PostedIsPending ==
    ASSUME ControlTypeOK, NEW e \in Events, Post(e)
    PROVE  Pending(e)'
<1>1. /\ Len(events) \in Nat
      /\ Len(events') = Len(events) + 1
      /\ events'[Len(events')] = e
  BY DEF Post, ControlTypeOK
<1>2. Len(events') \in 1..Len(events')
  BY <1>1
<1> QED
  BY <1>1, <1>2 DEF Pending

LEMMA BitOrEventStep ==
    ASSUME WayInv, BitOrEvent, WifiNext
    PROVE  BitOrEvent'
<1> USE DEF BitOrEvent
<1>0. ControlTypeOK
  BY DEF WayInv
<1>e. "STA_START" \in Events /\ "STA_CONNECTED" \in Events
      /\ "STA_DISCONNECTED" \in Events /\ "GOT_IP" \in Events
  BY DEF Events
<1>1. CASE UNCHANGED <<bits, link, events>>
  BY <1>1 DEF Pending
<1>2. CASE link' # "ip"
  BY <1>2
<1>3. CASE HandleStaStart
  BY <1>0, <1>e, <1>3, StillPending DEF HandleStaStart, Connect, groupVars
<1>4. CASE HandleStaConnected
  BY <1>0, <1>e, <1>4, StillPending DEF HandleStaConnected, groupVars
<1>5. CASE HandleStaDisconnected
  BY <1>0, <1>e, <1>5, StillPending DEF HandleStaDisconnected, groupVars
<1>6. CASE HandleGotIp
  BY <1>6 DEF HandleGotIp, AtomicSet
<1>7. CASE GetsIp
  BY <1>0, <1>e, <1>7, PostedIsPending DEF GetsIp, LinkBecomes
<1>8. CASE ScanEnds
  BY <1>8, ScanIsAlone DEF ScanEnds, GiveUp, Retry, Connect
<1>9. CASE CallbackConnects
  BY <1>9 DEF CallbackConnects, Connect, groupVars, Pending
<1> QED
  BY <1>1, <1>2, <1>3, <1>4, <1>5, <1>6, <1>7, <1>8, <1>9
  DEF WifiNext, WifiProgress, EventLoop, TimerCallback, Start, WifiTimerFires,
      CallbackLoads, CallbackStores, Associates, LinkFails, LinkBecomes,
      WifiUiTakesLedEvent, wifiVars, groupVars

\* With an address obtained and every event handled, WIFI_CONNECTED_BIT is set.
THEOREM BitCorrect == WifiSpec => []BitSetWhenSettled
<1>1. WifiInit => BitOrEvent
  BY DEF WifiInit, BitOrEvent
<1>2. ASSUME WayInv, BitOrEvent, [WifiNext]_wifiSystem PROVE BitOrEvent'
  <2>1. CASE UNCHANGED wifiSystem
    BY <1>2, <2>1 DEF wifiSystem, groupVars, wifiVars, BitOrEvent, Pending
  <2> QED
    BY <1>2, <2>1, BitOrEventStep
<1>3. BitOrEvent => BitSetWhenSettled
  BY DEF BitOrEvent, BitSetWhenSettled, Pending
<1> QED
  BY <1>1, <1>2, <1>3, WayHolds, PTL DEF WifiSpec

-----------------------------------------------------------------------------
(* Events, posted within the capacity, and the counts.                     *)

BoundsOK ==
    /\ Len(events) <= EventCapacity
    /\ reconnectAttempt \in 0..(CountModulus - 1)
    /\ loaded \in 0..(CountModulus - 1)
    /\ attempts \in Nat

LEMMA BoundsStep ==
    ASSUME ControlTypeOK, BoundsOK, WifiNext
    PROVE  BoundsOK'
<1> USE WifiAssumption DEF BoundsOK
<1>1. events \in Seq(Events) /\ Len(events) \in Nat
  BY DEF ControlTypeOK
<1>2. Len(events') <= EventCapacity
  <2>1. CASE UNCHANGED events
    BY <2>1
  <2>2. CASE events # <<>> /\ events' = Tail(events)
    <3>1. Len(events') = Len(events) - 1
      BY <1>1, <2>2, HeadTailProperties
    <3> QED
      BY <1>1, <3>1
  <2>3. CASE \E e \in Events : Post(e)
    BY <1>1, <2>3, AppendProperties DEF Post
  <2> QED
    BY <2>1, <2>2, <2>3
    DEF Events, WifiNext, WifiProgress, EventLoop, TimerCallback, Start, HandleStaStart,
        HandleStaConnected, HandleStaDisconnected, HandleGotIp, ScanEnds, WifiTimerFires,
        CallbackConnects, CallbackLoads, CallbackStores, Associates, GetsIp, LinkFails,
        LinkBecomes, WifiUiTakesLedEvent, wifiVars, Takes
<1>3. \A n \in 0..(CountModulus - 1) : Incremented(n) \in 0..(CountModulus - 1)
  BY DEF Incremented
<1>4. /\ reconnectAttempt' \in {reconnectAttempt, 0, Incremented(reconnectAttempt),
                                Incremented(loaded)}
      /\ loaded' \in {loaded, reconnectAttempt, 0}
      /\ attempts' \in {attempts, attempts + 1, 0}
  BY DEF WifiNext, WifiProgress, EventLoop, TimerCallback, Start, HandleStaStart,
         HandleStaConnected, HandleStaDisconnected, HandleGotIp, ScanEnds, GiveUp, Retry,
         WifiTimerFires, CallbackConnects, CallbackLoads, CallbackStores, Connect,
         Associates, GetsIp, LinkFails, LinkBecomes, WifiUiTakesLedEvent, wifiVars, history
<1>5. reconnectAttempt' \in 0..(CountModulus - 1) /\ loaded' \in 0..(CountModulus - 1)
  <2>1. reconnectAttempt \in 0..(CountModulus - 1) /\ loaded \in 0..(CountModulus - 1)
    BY Zenon DEF BoundsOK
  <2>2. 0 \in 0..(CountModulus - 1)
    OBVIOUS
  <2> HIDE DEF BoundsOK
  <2>3. /\ Incremented(reconnectAttempt) \in 0..(CountModulus - 1)
        /\ Incremented(loaded) \in 0..(CountModulus - 1)
    BY <1>3, <2>1, Zenon
  <2> QED
    BY <1>4, <2>1, <2>2, <2>3, Zenon
<1> QED
  BY <1>2, <1>4, <1>5

-----------------------------------------------------------------------------
(* How many attempts there are before the station pauses.  The attempts    *)
(* made and those the count still allows are together at most twice those  *)
(* of a cycle, and at most one more than a cycle while the callback is on  *)
(* its way: what it stores can then add no more than a cycle.  The count   *)
(* itself may be anything once the callback has stored a value late.       *)

Cycle == MAX_RECONNECT_ATTEMPTS + 1

Allowed == IF TooManyAttempts THEN 0 ELSE Cycle - reconnectAttempt

StartUnhandled == link = "off" \/ Pending("STA_START")

CountInv ==
    /\ attempts + Allowed <= 2 * Cycle
    /\ callback # "none" => attempts + Allowed <= Cycle + 1
    /\ callback # "none" /\ reconnectAttempt > Cycle => attempts <= 1
    /\ callback = "store" /\ loaded = CountModulus - 1 => attempts + Allowed <= Cycle
    /\ wifiTimer = "armed" \/ callback = "connect" => attempts = 0
    /\ StartUnhandled => attempts = 0 /\ callback = "none"

\* STA_START is posted once, by start.
LEMMA StartIsFirst ==
    ASSUME ControlTypeOK, WifiNext, ~Start, StartUnhandled'
    PROVE  StartUnhandled
<1>1. link' = "off" => link = "off"
  BY DEF WifiNext, WifiProgress, EventLoop, TimerCallback, HandleStaStart,
         HandleStaConnected, HandleStaDisconnected, HandleGotIp, ScanEnds, GiveUp, Retry,
         WifiTimerFires, CallbackConnects, CallbackLoads, CallbackStores, Connect,
         Associates, GetsIp, LinkFails, LinkBecomes, WifiUiTakesLedEvent, wifiVars
<1>2. ASSUME Pending("STA_START")' PROVE Pending("STA_START")
  <2>1. PICK i \in 1..Len(events') : events'[i] = "STA_START"
    BY <1>2 DEF Pending
  <2>2. events \in Seq(Events)
    BY DEF ControlTypeOK
  <2>3. CASE UNCHANGED events
    BY <2>1, <2>3 DEF Pending
  <2>4. CASE events # <<>> /\ events' = Tail(events)
    <3>1. /\ Len(events') \in Nat /\ Len(events) = Len(events') + 1
          /\ \A k \in 1..Len(events') : events'[k] = events[k + 1]
      BY <2>2, <2>4, HeadTailProperties
    <3>2. i + 1 \in 1..Len(events) /\ events[i + 1] = "STA_START"
      BY <2>1, <3>1
    <3> QED
      BY <3>2 DEF Pending
  <2>5. ASSUME NEW e \in Events \ {"STA_START"}, Post(e)
        PROVE  Pending("STA_START")
    <3>1. /\ Len(events) \in Nat /\ Len(events') = Len(events) + 1
          /\ events'[Len(events) + 1] = e
          /\ \A k \in 1..Len(events) : events'[k] = events[k]
      BY <2>2, <2>5 DEF Post
    <3>2. i # Len(events) + 1
      BY <2>1, <2>5, <3>1
    <3>3. i \in 1..Len(events) /\ events[i] = "STA_START"
      BY <2>1, <3>1, <3>2
    <3> QED
      BY <3>3 DEF Pending
  <2> QED
    BY <2>3, <2>4, <2>5
    DEF Events, WifiNext, WifiProgress, EventLoop, TimerCallback, HandleStaStart,
        HandleStaConnected, HandleStaDisconnected, HandleGotIp, ScanEnds, WifiTimerFires,
        CallbackConnects, CallbackLoads, CallbackStores, Associates, GetsIp, LinkFails,
        LinkBecomes, WifiUiTakesLedEvent, wifiVars, Takes
<1> QED
  BY <1>1, <1>2 DEF StartUnhandled

\* Until it has been handled nobody else works at the connection.
LEMMA StartIsAlone ==
    ASSUME WayInv, StartUnhandled
    PROVE  handler # "scan" /\ wifiTimer # "armed" /\ callback # "connect"
<1>1. StartWay \/ QueueWay
  BY DEF StartUnhandled, StartWay, Pending, QueueWay, EventWay
<1> QED
  BY <1>1 DEF WayInv, Exclusive, ScanWay, TimerWay, CallbackWay

LEMMA CountStep ==
    ASSUME WayInv, BoundsOK, CountInv, WifiNext
    PROVE  CountInv'
<1> USE WifiAssumption DEF Cycle, Allowed, TooManyAttempts
<1>1. /\ reconnectAttempt \in Nat /\ reconnectAttempt < CountModulus
      /\ loaded \in Nat /\ loaded < CountModulus
      /\ attempts \in Nat
  BY DEF BoundsOK
<1>2. ControlTypeOK
  BY DEF WayInv
<1>3. ~Start => (StartUnhandled' => StartUnhandled)
  BY <1>2, StartIsFirst
<1>4. CASE Start
  <2>1. attempts = 0 /\ callback = "none"
    BY <1>4 DEF Start, CountInv, StartUnhandled
  <2>2. UNCHANGED <<reconnectAttempt, wifiTimer, callback, loaded, attempts>>
    BY <1>4 DEF Start, history
  <2> QED
    BY <1>1, <2>1, <2>2 DEF CountInv
<1>5. CASE HandleStaStart
  <2>1. Takes("STA_START") /\ attempts' = attempts + 1
    BY <1>5 DEF HandleStaStart, Connect
  <2>2. events' = <<>> /\ QueueWay
    BY <2>1, TakesKeepsOrder DEF Events, EventWay
  <2>3. Pending("STA_START")
    <3>1. Len(events) \in Nat /\ Len(events) # 0 /\ events[1] = "STA_START"
      BY <1>2, <2>1, EmptySeq DEF Takes, ControlTypeOK
    <3>2. 1 \in 1..Len(events)
      BY <3>1
    <3> QED
      BY <3>1, <3>2 DEF Pending
  <2>4. attempts = 0 /\ callback = "none" /\ wifiTimer # "armed"
    BY <2>3, StartIsAlone DEF CountInv, StartUnhandled
  <2>5. ~StartUnhandled'
    <3>1. link # "off" /\ link' # "off"
      BY <1>5, <2>2 DEF HandleStaStart, Connect, WayInv, Exclusive, StartWay
    <3> QED
      BY <2>2, <3>1 DEF StartUnhandled, Pending
  <2>6. UNCHANGED <<reconnectAttempt, wifiTimer, callback, loaded>>
    BY <1>5 DEF HandleStaStart
  <2> QED
    BY <1>1, <2>1, <2>4, <2>5, <2>6 DEF CountInv
<1>6. CASE HandleStaConnected
  BY <1>1, <1>3, <1>6 DEF HandleStaConnected, Start, CountInv
<1>7. CASE ScanEnds
  <2>1. callback # "connect" /\ wifiTimer # "armed" /\ callback' = callback
        /\ loaded' = loaded /\ ~StartUnhandled
    BY <1>7, StartIsAlone DEF ScanEnds, WayInv, Exclusive, ScanWay, TimerWay, CallbackWay
  <2>2. ~StartUnhandled'
    BY <1>3, <1>7, <2>1 DEF ScanEnds, Start
  <2>3. CASE GiveUp
    BY <1>1, <2>1, <2>2, <2>3 DEF GiveUp, CountInv
  <2>4. CASE Retry
    <3>1. reconnectAttempt <= MAX_RECONNECT_ATTEMPTS
          /\ reconnectAttempt' = reconnectAttempt + 1
          /\ attempts' = attempts + 1 /\ wifiTimer' = wifiTimer
      BY <1>1, <2>4 DEF Retry, Connect, Incremented
    <3> QED
      BY <1>1, <2>1, <2>2, <3>1 DEF CountInv
  <2> QED
    BY <1>7, <2>3, <2>4 DEF ScanEnds
<1>8. CASE WifiTimerFires
  <2>1. ~StartUnhandled /\ attempts = 0
    BY <1>8, StartIsAlone DEF WifiTimerFires, CountInv
  <2>2. ~StartUnhandled'
    BY <1>3, <1>8, <2>1 DEF WifiTimerFires, Start
  <2>3. UNCHANGED <<reconnectAttempt, loaded, attempts>> /\ callback' = "connect"
    BY <1>8 DEF WifiTimerFires, history
  <2> QED
    BY <1>1, <2>1, <2>2, <2>3 DEF CountInv
<1>9. CASE CallbackConnects
  <2>1. ~StartUnhandled /\ attempts = 0 /\ wifiTimer # "armed"
    BY <1>9, StartIsAlone
    DEF CallbackConnects, CountInv, WayInv, Exclusive, TimerWay, CallbackWay
  <2>2. ~StartUnhandled'
    BY <1>3, <1>9, <2>1 DEF CallbackConnects, Start
  <2>3. /\ UNCHANGED <<reconnectAttempt, loaded, wifiTimer>>
        /\ callback' = "load" /\ attempts' = 1
    BY <1>9, <2>1 DEF CallbackConnects, Connect
  <2> QED
    BY <1>1, <2>1, <2>2, <2>3 DEF CountInv
<1>10. CASE CallbackLoads
  <2>1. /\ UNCHANGED <<reconnectAttempt, wifiTimer, attempts>>
        /\ callback = "load" /\ callback' = "store" /\ loaded' = reconnectAttempt
    BY <1>10 DEF CallbackLoads, history
  <2>2. ~StartUnhandled /\ ~StartUnhandled'
    BY <1>3, <1>10, <2>1 DEF CallbackLoads, Start, CountInv
  <2> QED
    BY <1>1, <2>1, <2>2 DEF CountInv
<1>11. CASE CallbackStores
  <2>1. /\ UNCHANGED <<wifiTimer, attempts>>
        /\ callback = "store" /\ callback' = "none" /\ loaded' = 0
        /\ reconnectAttempt' = Incremented(loaded)
    BY <1>11 DEF CallbackStores, history
  <2>2. ~StartUnhandled /\ ~StartUnhandled'
    BY <1>3, <1>11, <2>1 DEF CallbackStores, Start, CountInv
  <2>3. CASE loaded = CountModulus - 1
    <3>1. reconnectAttempt' = 0
      BY <1>1, <2>1, <2>3 DEF Incremented
    <3> QED
      BY <1>1, <2>1, <2>2, <2>3, <3>1 DEF CountInv
  <2>4. CASE loaded # CountModulus - 1
    <3>1. reconnectAttempt' = loaded + 1
      BY <1>1, <2>1, <2>4 DEF Incremented
    <3> QED
      BY <1>1, <2>1, <2>2, <2>4, <3>1 DEF CountInv
  <2> QED
    BY <2>3, <2>4
<1>12. CASE ~Start /\ UNCHANGED <<reconnectAttempt, wifiTimer, callback, loaded, attempts>>
  BY <1>3, <1>12 DEF CountInv
<1> QED
  BY <1>4, <1>5, <1>6, <1>7, <1>8, <1>9, <1>10, <1>11, <1>12
  DEF WifiNext, WifiProgress, EventLoop, TimerCallback, HandleStaDisconnected, HandleGotIp,
      Associates, GetsIp, LinkFails, LinkBecomes, WifiUiTakesLedEvent, wifiVars, history, Start

LEMMA CountInitial == WifiInit => BoundsOK /\ CountInv
BY WifiAssumption
DEF WifiInit, BoundsOK, CountInv, Cycle, Allowed, TooManyAttempts, StartUnhandled

\* The invariant bounds the attempts: those it still allows are not negative.
LEMMA CountBounds ==
    ASSUME BoundsOK, CountInv
    PROVE  AttemptsBounded
BY WifiAssumption
DEF BoundsOK, CountInv, Cycle, Allowed, TooManyAttempts, AttemptsBounded

\* Wherever the callback is preempted in its ++, and for any width of the count that holds
\* its limit, the station pauses after at most twice the attempts of a cycle.
THEOREM AttemptsCorrect == WifiSpec => []AttemptsBounded
<1>1. ASSUME WayInv, BoundsOK, CountInv, [WifiNext]_wifiSystem PROVE BoundsOK' /\ CountInv'
  <2>1. CASE UNCHANGED wifiSystem
    BY <1>1, <2>1
    DEF wifiSystem, wifiVars, history, BoundsOK, CountInv, Cycle, Allowed, TooManyAttempts,
        StartUnhandled, Pending
  <2>2. CASE WifiNext
    BY <1>1, <2>2, BoundsStep, CountStep DEF WayInv
  <2> QED
    BY <1>1, <2>1, <2>2
<1>2. BoundsOK /\ CountInv => AttemptsBounded
  BY CountBounds
<1> QED
  BY <1>1, <1>2, CountInitial, WayHolds, PTL DEF WifiSpec

-----------------------------------------------------------------------------
(* Types, with the group, the queues and the counters.                     *)

\* Sending a led event and taking one keep the queue within its length.
LEMMA WifiLedType ==
    ASSUME LedTypeOK, (\E e \in LedEvent : SendLed(e)) \/ ReceiveLed \/ UNCHANGED ledEventQueue
    PROVE  LedTypeOK'
BY LedCapacityAssumption DEF LedTypeOK, SendLed, ReceiveLed

\* Handlers use the group by whole calls.
LEMMA WifiGroupType ==
    ASSUME GroupTypeOK, [WifiNext]_wifiSystem
    PROVE  GroupTypeOK'
<1>1. {WIFI_CONNECTED_BIT} \in SUBSET Bit
  BY BitAssumption
<1>2. CASE AtomicSet({WIFI_CONNECTED_BIT}) \/ AtomicClear({WIFI_CONNECTED_BIT})
  BY <1>1, <1>2, AtomicType
<1>3. CASE UNCHANGED groupVars
  BY <1>3 DEF groupVars, GroupTypeOK
<1> QED
  BY <1>2, <1>3
  DEF WifiNext, WifiProgress, EventLoop, TimerCallback, wifiSystem, Start, HandleStaStart,
      HandleStaConnected, HandleStaDisconnected, HandleGotIp, ScanEnds, GiveUp, Retry,
      WifiTimerFires, CallbackConnects, CallbackLoads, CallbackStores, Associates, GetsIp,
      LinkFails, LinkBecomes, WifiUiTakesLedEvent

LEMMA WifiSendsType ==
    ASSUME LedTypeOK, [WifiNext]_wifiSystem
    PROVE  LedTypeOK'
<1>1. (\E e \in LedEvent : SendLed(e)) \/ ReceiveLed \/ UNCHANGED ledEventQueue
  BY DEF LedEvent, WifiNext, WifiProgress, EventLoop, TimerCallback, wifiSystem, Start,
         HandleStaStart, HandleStaConnected, HandleStaDisconnected, HandleGotIp, ScanEnds,
         GiveUp, Retry, WifiTimerFires, CallbackConnects, CallbackLoads, CallbackStores,
         Associates, GetsIp, LinkFails, LinkBecomes, WifiUiTakesLedEvent
<1> QED
  BY <1>1, WifiLedType

\* Every variable of the station's control keeps to its values, the queues to their
\* lengths and the counter below its modulus.
THEOREM WifiTypeCorrect == WifiSpec => []WifiTypeOK
<1>1. WifiInit => GroupTypeOK /\ LedTypeOK /\ BoundsOK
  BY InitType, LedCapacityAssumption, CountInitial DEF WifiInit, LedInit, LedTypeOK
<1>2. ASSUME WayInv, GroupTypeOK, LedTypeOK, BoundsOK, [WifiNext]_wifiSystem
      PROVE  GroupTypeOK' /\ LedTypeOK' /\ BoundsOK'
  <2>1. BoundsOK'
    <3>1. CASE UNCHANGED wifiSystem
      BY <1>2, <3>1 DEF wifiSystem, wifiVars, history, BoundsOK
    <3> QED
      BY <1>2, <3>1, BoundsStep DEF WayInv
  <2> QED
    BY <1>2, <2>1, WifiGroupType, WifiSendsType
<1>3. WayInv /\ GroupTypeOK /\ LedTypeOK /\ BoundsOK => WifiTypeOK
  BY DEF WayInv, ControlTypeOK, BoundsOK, WifiTypeOK
<1> QED
  BY <1>1, <1>2, <1>3, WayHolds, PTL DEF WifiSpec
=============================================================================
