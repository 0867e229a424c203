---------------------------- MODULE UiThreadProofs ----------------------------
(***************************************************************************)
(* Proofs about UiThread, for any length of its queue and any channels     *)
(* that may fail: its types, and what the led shows.                       *)
(*                                                                         *)
(* The invariant follows the callback channel by channel: what it has      *)
(* worked out or set so far is of its event, and after the thread broke    *)
(* into it, everything is of its event or of the thread's.                 *)
(***************************************************************************)
EXTENDS UiThread, TLAPS

-----------------------------------------------------------------------------
(* Colours and channels.                                                   *)

Duties == [Channels -> 0..MaxBrightness]

LEMMA RgbType == \A color : RgbOf(color) \in Duties
BY DEF RgbOf, Duties, Channels, MaxBrightness

\* The channels of what the callback has left to do.
Suffixes == {<<"blue">>, <<"green", "blue">>, ChannelOrder}

ToDo(seq) ==
    IF seq = ChannelOrder THEN Channels
    ELSE IF seq = <<"green", "blue">> THEN {"green", "blue"}
    ELSE IF seq = <<"blue">> THEN {"blue"}
    ELSE {}

LEMMA SuffixSteps ==
    ASSUME NEW seq \in Suffixes
    PROVE  /\ Head(seq) \in Channels
           /\ Len(seq) = 1 => ToDo(seq) = {Head(seq)} /\ Tail(seq) = <<>>
           /\ Len(seq) # 1 => /\ Tail(seq) \in Suffixes
                              /\ ToDo(Tail(seq)) = ToDo(seq) \ {Head(seq)}
           /\ seq \in Seq(Channels) /\ Len(seq) <= 3 /\ seq # <<>>
<1>1. CASE seq = <<"blue">>
  <2>1. seq # ChannelOrder /\ seq # <<"green", "blue">>
    BY <1>1 DEF ChannelOrder
  <2> QED
    BY <1>1, <2>1 DEF ToDo, Channels
<1>2. CASE seq = <<"green", "blue">>
  <2>1. seq # ChannelOrder /\ <<"blue">> # ChannelOrder /\ <<"blue">> # seq
    BY <1>2 DEF ChannelOrder
  <2>2. Tail(seq) = <<"blue">> /\ Head(seq) = "green" /\ Len(seq) = 2
    BY <1>2
  <2> QED
    BY <1>2, <2>1, <2>2 DEF ToDo, Channels, Suffixes
<1>3. CASE seq = ChannelOrder
  <2>1. Tail(seq) = <<"green", "blue">> /\ Head(seq) = "red" /\ Len(seq) = 3
    BY <1>3 DEF ChannelOrder
  <2>2. <<"green", "blue">> # ChannelOrder
    BY DEF ChannelOrder
  <2> QED
    BY <1>3, <2>1, <2>2 DEF ToDo, Channels, Suffixes, ChannelOrder
<1> QED
  BY <1>1, <1>2, <1>3 DEF Suffixes

LEMMA AllToDo == ChannelOrder \in Suffixes /\ ToDo(ChannelOrder) = Channels
BY DEF Suffixes, ToDo

-----------------------------------------------------------------------------
(* The invariant.                                                          *)

\* Types of what the thread and the callback write.
ControlTypeOK ==
    /\ uiPc \in {"button", "debounce", "queue"}
    /\ buttonTriggered \in BOOLEAN
    /\ radioLedEvent \in RadioEvents \cup {"UNKNOWN"}
    /\ ledTimer \in TimerStates
    /\ rgbColor \in Duties
    /\ duty \in Duties
    /\ callback \in {"none", "event", "store", "color", "duty"}
    /\ left \in IF callback \in {"color", "duty"} THEN Suffixes ELSE {<<>>}
    /\ callbackEvent \in RadioEvents \cup {"UNKNOWN"}
    /\ uiEvent \in ShownEvents
    /\ shown \in ShownEvents
    /\ spoilt \subseteq {"overlap", "failure"}

Rgb(event) == RgbOf(ColorOf(event))

\* Nobody else has touched the led since the event shown.
Undisturbed ==
    spoilt = {} =>
       /\ ~CallbackAtWork /\ shown # "UNKNOWN" => duty = Rgb(shown)
       /\ CallbackAtWork => shown = callbackEvent
       /\ callback = "color" =>
             \A c \in Channels \ ToDo(left) : rgbColor[c] = Rgb(callbackEvent)[c]
       /\ callback = "duty" =>
             /\ \A c \in Channels : rgbColor[c] = Rgb(callbackEvent)[c]
             /\ \A c \in Channels \ ToDo(left) : duty[c] = Rgb(callbackEvent)[c]

OfEither(c) == {Rgb(uiEvent)[c], Rgb(callbackEvent)[c]}

\* The thread has broken into the callback.
Overlapped ==
    spoilt = {"overlap"} =>
       \A c \in Channels :
          /\ duty[c] \in OfEither(c)
          /\ CallbackAtWork => rgbColor[c] \in OfEither(c)

UiInv == ControlTypeOK /\ Undisturbed /\ Overlapped

LEMMA UiInitial == UiInit => UiInv
<1> SUFFICES ASSUME UiInit PROVE UiInv
  OBVIOUS
<1>1. Dark \in Duties
  BY DEF Dark, Duties, MaxBrightness
<1>2. ControlTypeOK
  BY <1>1 DEF UiInit, ControlTypeOK, TimerStates, ShownEvents
<1>3. Undisturbed /\ Overlapped
  BY DEF UiInit, Undisturbed, Overlapped, CallbackAtWork
<1> QED
  BY <1>2, <1>3 DEF UiInv

-----------------------------------------------------------------------------
(* The thread.                                                             *)

\* Handling an event leaves the channels that were reached in its colour.
LEMMA HandleKeeps ==
    ASSUME UiInv, NEW event \in LedEvent, NEW reached \in Reachable,
           HandleLedEvent(event, reached), uiPc' = "button",
           UNCHANGED <<buttonTriggered, callbackVars>>
    PROVE  UiInv'
<1>1. reached \subseteq Channels
  BY DEF Reachable
<1>2. /\ rgbColor' = Rgb(event) /\ rgbColor' \in Duties
      /\ duty' = [c \in Channels |-> IF c \in reached THEN rgbColor'[c] ELSE duty[c]]
      /\ uiEvent' = event /\ shown' = event
      /\ callback' = callback /\ left' = left /\ callbackEvent' = callbackEvent
  BY RgbType DEF HandleLedEvent, Rgb, callbackVars
<1>3. duty' \in Duties
  BY <1>2 DEF UiInv, ControlTypeOK, Duties
<1>4. spoilt' = (IF CallbackAtWork THEN {"overlap"} ELSE {})
                     \cup (IF reached = Channels THEN {} ELSE {"failure"})
  BY DEF HandleLedEvent
<1>5. ControlTypeOK'
  <2>1. radioLedEvent' \in RadioEvents \cup {"UNKNOWN"} /\ ledTimer' \in TimerStates
    BY DEF HandleLedEvent, SetLedTimer, AfterStartOnce, Refused, TimerStates, UiInv,
           ControlTypeOK
  <2>2. spoilt' \subseteq {"overlap", "failure"}
    BY <1>4
  <2> QED
    BY <1>2, <1>3, <2>1, <2>2 DEF UiInv, ControlTypeOK, ShownEvents
<1>6. reached = Channels => duty' = rgbColor'
  BY <1>2 DEF Duties
<1>7. CASE CallbackAtWork
  <2>1. "overlap" \in spoilt'
    BY <1>4, <1>7
  <2>2. Undisturbed'
    BY <2>1 DEF Undisturbed
  <2>3. Overlapped'
    <3>1. spoilt' = {"overlap"} => reached = Channels
      BY <1>4
    <3>2. \A c \in Channels : rgbColor'[c] \in OfEither(c)'
      BY <1>2 DEF OfEither
    <3> QED
      BY <1>6, <3>1, <3>2 DEF Overlapped
  <2> QED
    BY <1>5, <2>2, <2>3 DEF UiInv
<1>8. CASE ~CallbackAtWork
  <2>1. ~CallbackAtWork' /\ callback' \notin {"color", "duty"}
    BY <1>2, <1>8 DEF CallbackAtWork, UiInv, ControlTypeOK
  <2>2. spoilt' = {} => reached = Channels
    BY <1>4
  <2>3. Undisturbed'
    BY <1>2, <1>6, <2>1, <2>2 DEF Undisturbed, Rgb
  <2>4. Overlapped'
    BY <1>4, <1>8 DEF Overlapped
  <2> QED
    BY <1>5, <2>3, <2>4 DEF UiInv
<1> QED
  BY <1>7, <1>8

-----------------------------------------------------------------------------
(* The callback.                                                           *)

LEMMA ReadsKeeps == ASSUME UiInv, CallbackReads PROVE UiInv'
<1> USE DEF UiInv, CallbackReads
<1>1. ControlTypeOK'
  BY DEF ControlTypeOK, ShownEvents, RadioEvents, LedEvent, ledVars
<1>2. Undisturbed' /\ Overlapped'
  BY DEF Undisturbed, Overlapped, CallbackAtWork
<1> QED
  BY <1>1, <1>2

LEMMA StoresKeeps == ASSUME UiInv, CallbackStores PROVE UiInv'
<1> USE DEF UiInv, CallbackStores
<1>1. ControlTypeOK'
  BY AllToDo DEF ControlTypeOK, ledVars
<1>2. Undisturbed'
  BY AllToDo DEF Undisturbed, CallbackAtWork, ledVars
<1>3. Overlapped'
  BY DEF Overlapped, CallbackAtWork, OfEither, ledVars
<1> QED
  BY <1>1, <1>2, <1>3

LEMMA ColorsKeeps == ASSUME UiInv, CallbackColors PROVE UiInv'
<1> DEFINE h == Head(left)
<1>1. /\ left \in Suffixes /\ rgbColor \in Duties /\ callback = "color" /\ CallbackAtWork
      /\ UNCHANGED <<uiPc, buttonTriggered, radioLedEvent, ledTimer, duty, callbackEvent,
                     uiEvent, shown, spoilt>>
      /\ rgbColor' = [rgbColor EXCEPT ![h] = Rgb(callbackEvent)[h]]
      /\ IF Len(left) = 1
         THEN callback' = "duty" /\ left' = ChannelOrder
         ELSE left' = Tail(left) /\ callback' = callback
  BY DEF UiInv, ControlTypeOK, CallbackColors, Rgb, CallbackAtWork
<1>2. h \in Channels /\ (Len(left) = 1 => ToDo(left) = {h})
  BY <1>1, SuffixSteps
<1>3. /\ rgbColor' \in Duties
      /\ rgbColor'[h] = Rgb(callbackEvent)[h]
      /\ \A c \in Channels : c # h => rgbColor'[c] = rgbColor[c]
  <2>1. Rgb(callbackEvent)[h] \in 0..MaxBrightness
    BY <1>2, RgbType DEF Rgb, Duties
  <2> HIDE DEF h
  <2> QED
    BY <1>1, <1>2, <2>1 DEF Duties
<1>4. /\ callback' \in {"color", "duty"} /\ left' \in Suffixes /\ CallbackAtWork'
      /\ callback' = "color" => ToDo(left') = ToDo(left) \ {h}
      /\ callback' = "duty" => ToDo(left') = Channels /\ ToDo(left) = {h}
  BY <1>1, <1>2, SuffixSteps, AllToDo DEF CallbackAtWork
<1> HIDE DEF h
<1>5. ControlTypeOK'
  BY <1>1, <1>3, <1>4 DEF UiInv, ControlTypeOK
<1>6. Undisturbed'
  <2> SUFFICES ASSUME spoilt' = {}
               PROVE  /\ shown' = callbackEvent'
                      /\ callback' = "color" =>
                            \A c \in Channels \ ToDo(left') :
                               rgbColor'[c] = Rgb(callbackEvent)[c]
                      /\ callback' = "duty" =>
                            \A c \in Channels : rgbColor'[c] = Rgb(callbackEvent)[c]
    BY <1>1, <1>4 DEF Undisturbed
  <2>1. /\ shown = callbackEvent
        /\ \A c \in Channels \ ToDo(left) : rgbColor[c] = Rgb(callbackEvent)[c]
    BY <1>1 DEF UiInv, Undisturbed
  <2> QED
    BY <1>1, <1>3, <1>4, <2>1
<1>7. Overlapped'
  <2>1. \A c \in Channels : OfEither(c)' = OfEither(c)
    BY <1>1 DEF OfEither
  <2>2. \A c \in Channels : Rgb(callbackEvent)[c] \in OfEither(c)
    BY DEF OfEither
  <2> QED
    BY <1>1, <1>2, <1>3, <2>1, <2>2 DEF UiInv, Overlapped
<1> QED
  BY <1>5, <1>6, <1>7 DEF UiInv

LEMMA SetsDutyKeeps == ASSUME UiInv, CallbackSetsDuty PROVE UiInv'
<1> DEFINE h == Head(left)
<1>1. /\ left \in Suffixes /\ rgbColor \in Duties /\ duty \in Duties
      /\ callback = "duty" /\ CallbackAtWork
      /\ UNCHANGED <<uiPc, buttonTriggered, radioLedEvent, ledTimer, rgbColor, callbackEvent,
                     uiEvent, shown>>
      /\ SetDuty(h, rgbColor[h])
      /\ spoilt' = IF duty'[h] = rgbColor[h] THEN spoilt ELSE spoilt \cup {"failure"}
      /\ left' = Tail(left)
      /\ callback' = IF Len(left) = 1 THEN "none" ELSE callback
  BY DEF UiInv, ControlTypeOK, CallbackSetsDuty, CallbackAtWork
<1>2. h \in Channels
  BY <1>1, SuffixSteps
<1>3. /\ duty' \in Duties
      /\ duty'[h] \in {duty[h], rgbColor[h]}
      /\ \A c \in Channels : c # h => duty'[c] = duty[c]
  <2>1. rgbColor[h] \in 0..MaxBrightness
    BY <1>1, <1>2 DEF Duties
  <2> HIDE DEF h
  <2> QED
    BY <1>1, <1>2, <2>1 DEF Duties, SetDuty
<1>4. /\ callback' \in {"duty", "none"}
      /\ callback' = "duty" => left' \in Suffixes /\ ToDo(left') = ToDo(left) \ {h}
      /\ callback' = "none" => left' = <<>> /\ ToDo(left) = {h}
      /\ callback' = "none" => ~CallbackAtWork'
      /\ callback' = "duty" => CallbackAtWork'
  BY <1>1, SuffixSteps DEF CallbackAtWork
<1>5. /\ spoilt' = {} => spoilt = {} /\ duty'[h] = rgbColor[h]
      /\ spoilt' = {"overlap"} => spoilt = {"overlap"} /\ duty'[h] = rgbColor[h]
      /\ spoilt' \subseteq {"overlap", "failure"}
  BY <1>1 DEF UiInv, ControlTypeOK
<1> HIDE DEF h
<1>6. ControlTypeOK'
  BY <1>1, <1>3, <1>4, <1>5 DEF UiInv, ControlTypeOK
<1>7. Undisturbed'
  <2> SUFFICES ASSUME spoilt' = {} PROVE Undisturbed'
    BY DEF Undisturbed
  <2>1. /\ shown = callbackEvent
        /\ \A c \in Channels : rgbColor[c] = Rgb(callbackEvent)[c]
        /\ \A c \in Channels \ ToDo(left) : duty[c] = Rgb(callbackEvent)[c]
    BY <1>1, <1>5 DEF UiInv, Undisturbed
  <2>2. \A c \in Channels \ (ToDo(left) \ {h}) : duty'[c] = Rgb(callbackEvent)[c]
    BY <1>2, <1>3, <1>5, <2>1
  <2>3. CASE callback' = "none"
    <3>1. \A c \in Channels : duty'[c] = Rgb(callbackEvent)[c]
      BY <1>4, <2>2, <2>3
    <3>2. duty' = Rgb(callbackEvent)
      <4>1. Rgb(callbackEvent) \in Duties
        BY RgbType DEF Rgb
      <4> QED
        BY <1>3, <3>1, <4>1 DEF Duties
    <3> QED
      BY <1>1, <1>4, <2>1, <2>3, <3>2 DEF Undisturbed
  <2>4. CASE callback' = "duty"
    BY <1>1, <1>4, <2>1, <2>2, <2>4 DEF Undisturbed
  <2> QED
    BY <1>4, <2>3, <2>4
<1>8. Overlapped'
  <2>1. \A c \in Channels : OfEither(c)' = OfEither(c)
    BY <1>1 DEF OfEither
  <2> QED
    BY <1>1, <1>2, <1>3, <1>5, <2>1 DEF UiInv, Overlapped
<1> QED
  BY <1>6, <1>7, <1>8 DEF UiInv

-----------------------------------------------------------------------------
(* All steps.                                                              *)

\* Steps that neither handle an event nor are the callback's.
LEMMA IdleKeeps ==
    ASSUME UiInv, ControlTypeOK',
           callback' = callback \/ (callback = "none" /\ callback' = "event"),
           UNCHANGED <<left, rgbColor, duty, callbackEvent, uiEvent, shown, spoilt>>
    PROVE  UiInv'
<1>1. CallbackAtWork' <=> CallbackAtWork
  BY DEF CallbackAtWork
<1>2. callback' \in {"color", "duty"} => callback' = callback
  OBVIOUS
<1>3. Undisturbed'
  BY <1>1, <1>2 DEF UiInv, Undisturbed
<1>4. Overlapped'
  BY <1>1 DEF UiInv, Overlapped, OfEither
<1> QED
  BY <1>3, <1>4 DEF UiInv

\* Sending and taking events keep the queue within its length.
LEMMA LedType ==
    ASSUME LedTypeOK, (\E e \in LedEvent : SendLed(e)) \/ ReceiveLed \/ UNCHANGED ledEventQueue
    PROVE  LedTypeOK'
BY LedCapacityAssumption DEF LedTypeOK, SendLed, ReceiveLed

LEMMA UiStep ==
    ASSUME UiInv, LedTypeOK, [UiNext]_uiSystem
    PROVE  UiInv' /\ LedTypeOK'
<1>1. LedTypeOK'
  <2>1. (\E e \in LedEvent : SendLed(e)) \/ ReceiveLed \/ UNCHANGED ledEventQueue
    BY DEF UiNext, UiRun, YieldButton, ReportClick, YieldQueue, LedTimerFires, LedCallback,
           CallbackReads, CallbackStores, CallbackColors, CallbackSetsDuty, ButtonFalls,
           EventSent, uiSystem
  <2> QED
    BY <2>1, LedType
<1>2. CASE YieldQueue /\ ledEventQueue # <<>>
  <2>1. Head(ledEventQueue) \in LedEvent
    BY <1>2 DEF LedTypeOK
  <2>2. PICK reached \in Reachable : HandleLedEvent(Head(ledEventQueue), reached)
    BY <1>2 DEF YieldQueue
  <2>3. uiPc' = "button" /\ UNCHANGED <<buttonTriggered, callbackVars>>
    BY <1>2 DEF YieldQueue
  <2> QED
    BY <1>1, <2>1, <2>2, <2>3, HandleKeeps
<1>3. CASE CallbackReads \/ CallbackStores \/ CallbackColors \/ CallbackSetsDuty
  BY <1>1, <1>3, ReadsKeeps, StoresKeeps, ColorsKeeps, SetsDutyKeeps
<1>4. CASE \/ YieldQueue /\ ledEventQueue = <<>>
           \/ YieldButton \/ ReportClick \/ LedTimerFires \/ ButtonFalls \/ EventSent
           \/ UNCHANGED uiSystem
  <2>1. /\ callback' = callback \/ (callback = "none" /\ callback' = "event")
        /\ UNCHANGED <<left, rgbColor, duty, callbackEvent, uiEvent, shown, spoilt>>
    BY <1>4
    DEF YieldQueue, YieldButton, ReportClick, LedTimerFires, ButtonFalls, EventSent, uiSystem,
        uiVars, callbackVars, ledVars
  <2>2. ControlTypeOK'
    BY <1>4
    DEF UiInv, ControlTypeOK, TimerStates, YieldQueue, YieldButton, ReportClick,
        LedTimerFires, ButtonFalls, EventSent, uiSystem, uiVars, callbackVars, ledVars
  <2> QED
    BY <1>1, <2>1, <2>2, IdleKeeps
<1> QED
  BY <1>2, <1>3, <1>4 DEF UiNext, UiRun, LedCallback

LEMMA UiAlways == UiSpec => [](UiInv /\ LedTypeOK)
<1>1. UiInit => LedTypeOK
  BY LedCapacityAssumption DEF UiInit, LedInit, LedTypeOK
<1> QED
  BY <1>1, UiInitial, UiStep, PTL DEF UiSpec

-----------------------------------------------------------------------------
(* Theorems.                                                               *)

\* The state stays well typed, for any length of the queue and any channels that fail.
THEOREM UiTypeCorrect == UiSpec => []UiTypeOK
<1>1. ASSUME UiInv, LedTypeOK PROVE UiTypeOK
  <2>1. CASE callback \in {"color", "duty"}
    BY <1>1, <2>1, SuffixSteps DEF UiInv, ControlTypeOK, UiTypeOK, Duties
  <2>2. CASE callback \notin {"color", "duty"}
    BY <1>1, <2>2 DEF UiInv, ControlTypeOK, UiTypeOK, Duties
  <2> QED
    BY <2>1, <2>2
<1> QED
  BY <1>1, UiAlways, PTL

\* Wherever the thread breaks into the callback, and whichever channels fail, the led shows
\* the last event's colour when neither happened, and otherwise channels of the two events.
THEOREM LedCorrect == UiSpec => []LedShowsItsEvents
<1>1. ASSUME UiInv PROVE LedShowsItsEvents
  <2>1. callback = "none" /\ spoilt = {} /\ shown # "UNKNOWN" => duty = Rgb(shown)
    BY <1>1 DEF UiInv, Undisturbed, CallbackAtWork
  <2>2. spoilt = {"overlap"} =>
          \A c \in Channels :
             duty[c] \in {RgbOf(ColorOf(e))[c] : e \in {uiEvent, callbackEvent}}
    BY <1>1 DEF UiInv, Overlapped, OfEither, Rgb
  <2> QED
    BY <2>1, <2>2 DEF LedShowsItsEvents, Rgb
<1> QED
  BY <1>1, UiAlways, PTL
=============================================================================
