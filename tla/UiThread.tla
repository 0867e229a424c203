------------------------------- MODULE UiThread -------------------------------
(***************************************************************************)
(* app::UiThread, which serves the button and shows led events, and the    *)
(* callback of its led timer, which shows the radio's event again.  The    *)
(* callback is run by the timer task, whose priority is lower: the thread  *)
(* may preempt it anywhere, while the thread's own handling of an event is *)
(* not interrupted by it.  Both write the led's rgbColor.                  *)
(*                                                                         *)
(* wifiLedEvent_ is written by the code and never read; it is left out.    *)
(***************************************************************************)
EXTENDS LedEventQueue, SwTimer

CONSTANT Faulty  \* the channels of the led for which a call of the PWM driver may fail

ASSUME FaultyAssumption == Faulty \subseteq {"red", "green", "blue"}

VARIABLES uiPc,             \* "button", "debounce" (the delay of a click) or "queue"
          buttonTriggered,  \* buttonTriggered_
          radioLedEvent,    \* radioLedEvent_
          ledTimer,         \* the led timer
          rgbColor,         \* the colour that setColor has worked out
          duty,             \* what the PWM channels give
          callback,         \* where the timer's callback is
          left,             \* the channels it has left to do there
          callbackEvent,    \* the event it handles, or handled last
          uiEvent,          \* the event the thread handled last
          shown,            \* whichever of the two came last
          spoilt            \* why the led may show something else: a set of reasons

uiVars == <<uiPc, buttonTriggered, radioLedEvent, ledTimer, rgbColor, duty, callback, left,
            callbackEvent, uiEvent, shown, spoilt>>

uiSystem == <<ledEventQueue, uiVars>>

ledVars == <<rgbColor, duty>>

callbackVars == <<callback, left, callbackEvent>>

-----------------------------------------------------------------------------
(* The led.                                                                *)

Channels     == {"red", "green", "blue"}
ChannelOrder == <<"red", "green", "blue">>

\* The largest duty of the resolution of 8 bits.
MaxBrightness == 255

Colors == {"RED", "GREEN", "BLUE", "YELLOW", "ORANGE", "MAGENTA"}

\* Mutant: yellow is the colour of two thirds of a white.
RgbOfDimYellow(color) ==
    [red   |-> IF color \in {"RED", "YELLOW", "ORANGE", "MAGENTA"} THEN MaxBrightness ELSE 0,
     green |-> IF color = "GREEN" THEN MaxBrightness
               ELSE IF color = "ORANGE" THEN 300 ELSE 0,
     blue  |-> IF color \in {"BLUE", "MAGENTA"} THEN MaxBrightness ELSE 0]

\* RgbBase::setColor at the largest brightness.
RgbOf(color) ==
    [red   |-> IF color \in {"RED", "YELLOW", "ORANGE", "MAGENTA"} THEN MaxBrightness ELSE 0,
     green |-> IF color \in {"GREEN", "YELLOW"} THEN MaxBrightness
               ELSE IF color = "ORANGE" THEN MaxBrightness \div 2 ELSE 0,
     blue  |-> IF color \in {"BLUE", "MAGENTA"} THEN MaxBrightness ELSE 0]

\* No light: what the channels are attached with.
Dark == [c \in Channels |-> 0]

\* Ledc::setDuty of a channel, whose result Ws2812b::setColor drops.
SetDuty(channel, value) ==
    \/ duty' = [duty EXCEPT ![channel] = value]
    \/ channel \in Faulty /\ UNCHANGED duty

-----------------------------------------------------------------------------
(* handleLedEvent_.                                                        *)

\* Anything but the six events of the switch is shown in orange, AWS_CONNECTED too; a
\* radio that communicates, in the blue that the colour starts with.
ColorOf(event) ==
    CASE event \in {"WIFI_CONNECTION", "RADIO_COMMUNICATION"} -> "BLUE"
      [] event = "WIFI_CONNECTED"    -> "GREEN"
      [] event = "WIFI_DISCONNECTED" -> "RED"
      [] event = "AWS_DISCONNECTED"  -> "YELLOW"
      [] event = "RADIO_TIMEOUT"     -> "MAGENTA"
      [] OTHER                       -> "ORANGE"

RadioEvents == {"RADIO_COMMUNICATION", "RADIO_TIMEOUT"}

\* Mutant: the timer is started only when the radio works.
SetLedTimerInverted ==
    IF radioLedEvent # "RADIO_TIMEOUT"
    THEN ledTimer' \in AfterStartOnce(ledTimer)
    ELSE UNCHANGED ledTimer

SetLedTimer ==
    IF radioLedEvent = "RADIO_TIMEOUT"
    THEN ledTimer' \in AfterStartOnce(ledTimer)
    ELSE UNCHANGED ledTimer

\* The callback is between its reading of the event and its end.
CallbackAtWork == callback \notin {"none", "event"}

\* Mutant: the channels are set before the colour is worked out.
HandleLedEventSwapped(event, reached) ==
    /\ IF event \in RadioEvents THEN radioLedEvent' = event ELSE UNCHANGED radioLedEvent
    /\ IF event = "WIFI_DISCONNECTED" THEN SetLedTimer ELSE UNCHANGED ledTimer
    /\ rgbColor' = RgbOf(ColorOf(event))
    /\ duty' = [c \in Channels |-> IF c \in reached THEN rgbColor[c] ELSE duty[c]]
    /\ uiEvent' = event
    /\ shown' = event
    /\ spoilt' = (IF CallbackAtWork THEN {"overlap"} ELSE {})
                     \cup (IF reached = Channels THEN {} ELSE {"failure"})

\* The thread handles an event; the channels in reached are those the driver sets.
HandleLedEvent(event, reached) ==
    /\ IF event \in RadioEvents THEN radioLedEvent' = event ELSE UNCHANGED radioLedEvent
    /\ IF event = "WIFI_DISCONNECTED" THEN SetLedTimer ELSE UNCHANGED ledTimer
    /\ rgbColor' = RgbOf(ColorOf(event))
    /\ duty' = [c \in Channels |-> IF c \in reached THEN rgbColor'[c] ELSE duty[c]]
    /\ uiEvent' = event
    /\ shown' = event
    /\ spoilt' = (IF CallbackAtWork THEN {"overlap"} ELSE {})
                     \cup (IF reached = Channels THEN {} ELSE {"failure"})

Reachable == {Channels \ failing : failing \in SUBSET Faulty}

-----------------------------------------------------------------------------
(* run_.                                                                   *)

UiInit ==
    /\ LedInit
    /\ uiPc = "button"
    /\ buttonTriggered = FALSE
    /\ radioLedEvent = "UNKNOWN"
    /\ ledTimer = "idle"
    /\ rgbColor = Dark
    /\ duty = Dark
    /\ callback = "none"
    /\ left = <<>>
    /\ callbackEvent = "UNKNOWN"
    /\ uiEvent = "UNKNOWN"
    /\ shown = "UNKNOWN"
    /\ spoilt = {}

\* Button::yield: a click is waited out before it is reported.
YieldButton ==
    /\ uiPc = "button"
    /\ uiPc' = IF buttonTriggered THEN "debounce" ELSE "queue"
    /\ UNCHANGED <<ledEventQueue, buttonTriggered, radioLedEvent, ledTimer, ledVars,
                   callbackVars, uiEvent, shown, spoilt>>

\* Mutant: the queue is looked at only when there was no click.
ReportClickAndSkip ==
    /\ uiPc = "debounce"
    /\ buttonTriggered' = FALSE
    /\ uiPc' = "button"
    /\ UNCHANGED <<ledEventQueue, radioLedEvent, ledTimer, ledVars, callbackVars, uiEvent,
                   shown, spoilt>>

ReportClick ==
    /\ uiPc = "debounce"
    /\ buttonTriggered' = FALSE
    /\ uiPc' = "queue"
    /\ UNCHANGED <<ledEventQueue, radioLedEvent, ledTimer, ledVars, callbackVars, uiEvent,
                   shown, spoilt>>

\* Queue::yield, with the queue's callback.
YieldQueue ==
    /\ uiPc = "queue"
    /\ uiPc' = "button"
    /\ IF ledEventQueue = <<>>
       THEN UNCHANGED <<ledEventQueue, radioLedEvent, ledTimer, ledVars, uiEvent, shown, spoilt>>
       ELSE /\ ReceiveLed
            /\ \E reached \in Reachable : HandleLedEvent(Head(ledEventQueue), reached)
    /\ UNCHANGED <<buttonTriggered, callbackVars>>

UiRun == YieldButton \/ ReportClick \/ YieldQueue

-----------------------------------------------------------------------------
(* The led timer.                                                          *)

LedTimerFires ==
    /\ ledTimer = "armed"
    /\ callback = "none"
    /\ ledTimer' = "idle"
    /\ callback' = "event"
    /\ UNCHANGED <<ledEventQueue, uiPc, buttonTriggered, radioLedEvent, ledVars, left,
                   callbackEvent, uiEvent, shown, spoilt>>

\* The callback passes radioLedEvent_ by reference: it is read here ...
CallbackReads ==
    /\ callback = "event"
    /\ callbackEvent' = radioLedEvent
    /\ callback' = "store"
    /\ shown' = radioLedEvent
    /\ spoilt' = {}
    /\ UNCHANGED <<ledEventQueue, uiPc, buttonTriggered, radioLedEvent, ledTimer, ledVars,
                   left, uiEvent>>

\* ... and written back here.
CallbackStores ==
    /\ callback = "store"
    /\ radioLedEvent' = callbackEvent
    /\ callback' = "color"
    /\ left' = ChannelOrder
    /\ UNCHANGED <<ledEventQueue, uiPc, buttonTriggered, ledTimer, ledVars, callbackEvent,
                   uiEvent, shown, spoilt>>

CallbackColors ==
    /\ callback = "color"
    /\ rgbColor' = [rgbColor EXCEPT ![Head(left)] = RgbOf(ColorOf(callbackEvent))[Head(left)]]
    /\ IF Len(left) = 1
       THEN callback' = "duty" /\ left' = ChannelOrder
       ELSE left' = Tail(left) /\ UNCHANGED callback
    /\ UNCHANGED <<ledEventQueue, uiPc, buttonTriggered, radioLedEvent, ledTimer, duty,
                   callbackEvent, uiEvent, shown, spoilt>>

\* setDuty takes the value from rgbColor, where the thread may have changed it.
CallbackSetsDuty ==
    /\ callback = "duty"
    /\ SetDuty(Head(left), rgbColor[Head(left)])
    /\ spoilt' = IF duty'[Head(left)] = rgbColor[Head(left)]
                 THEN spoilt ELSE spoilt \cup {"failure"}
    /\ left' = Tail(left)
    /\ callback' = IF Len(left) = 1 THEN "none" ELSE callback
    /\ UNCHANGED <<ledEventQueue, uiPc, buttonTriggered, radioLedEvent, ledTimer, rgbColor,
                   callbackEvent, uiEvent, shown>>

LedCallback == CallbackReads \/ CallbackStores \/ CallbackColors \/ CallbackSetsDuty

-----------------------------------------------------------------------------
(* The surroundings.                                                       *)

\* The interrupt of the button's pin.
ButtonFalls ==
    /\ buttonTriggered' = TRUE
    /\ UNCHANGED <<ledEventQueue, uiPc, radioLedEvent, ledTimer, ledVars, callbackVars,
                   uiEvent, shown, spoilt>>

\* The Wi-Fi handlers, the AWS thread and the radio thread.
EventSent ==
    /\ \E event \in LedEvent : SendLed(event)
    /\ UNCHANGED uiVars

UiNext == UiRun \/ LedTimerFires \/ LedCallback \/ ButtonFalls \/ EventSent

UiSpec == UiInit /\ [][UiNext]_uiSystem

\* Both tasks run: the thread waits 10 ms in every turn.
UiFairness ==
    /\ WF_uiSystem(UiRun)
    /\ WF_uiSystem(LedTimerFires)
    /\ WF_uiSystem(LedCallback)

UiFairSpec == UiSpec /\ UiFairness

-----------------------------------------------------------------------------
(* Properties.                                                             *)

ShownEvents == LedEvent \cup {"UNKNOWN"}

UiTypeOK ==
    /\ LedTypeOK
    /\ uiPc \in {"button", "debounce", "queue"}
    /\ buttonTriggered \in BOOLEAN
    /\ radioLedEvent \in RadioEvents \cup {"UNKNOWN"}
    /\ ledTimer \in TimerStates
    /\ rgbColor \in [Channels -> 0..MaxBrightness]
    /\ duty \in [Channels -> 0..MaxBrightness]
    /\ callback \in {"none", "event", "store", "color", "duty"}
    /\ left \in Seq(Channels) /\ Len(left) <= 3
    /\ (left # <<>>) = (callback \in {"color", "duty"})
    /\ callbackEvent \in RadioEvents \cup {"UNKNOWN"}
    /\ uiEvent \in ShownEvents
    /\ shown \in ShownEvents
    /\ spoilt \subseteq {"overlap", "failure"}

\* Both tasks at rest, the led has the colour of the event that was handled last, unless
\* the thread broke into the callback or the driver failed.  After a break in, every
\* channel still belongs to one of the two events concerned.
LedShowsItsEvents ==
    /\ callback = "none" /\ spoilt = {} /\ shown # "UNKNOWN" => duty = RgbOf(ColorOf(shown))
    /\ spoilt = {"overlap"} =>
         \A c \in Channels :
            duty[c] \in {RgbOf(ColorOf(e))[c] : e \in {uiEvent, callbackEvent}}

\* The red of a Wi-Fi disconnection does not hide a radio that has timed out for ever.  A
\* disconnection handled while the callback is at work is excepted: the callback writes
\* back the RADIO_TIMEOUT it has read, over an answer of the radio that the thread has
\* handled since, and setLedTimer_ has by then found nothing to start the timer for.
RedGivesWay ==
    shown = "WIFI_DISCONNECTED" /\ radioLedEvent = "RADIO_TIMEOUT" /\ "overlap" \notin spoilt
        ~> shown # "WIFI_DISCONNECTED"

\* However often the button bounces, events are taken from the queue, and however many
\* events come, a click is reported.
ThreadServesBoth ==
    /\ (ledEventQueue # <<>> /\ uiPc = "button") ~> uiPc = "queue"
    /\ buttonTriggered ~> ~buttonTriggered
=============================================================================
