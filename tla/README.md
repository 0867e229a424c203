# Verification of the greenhouse project

TLA+ models of the greenhouse firmware (ESP32, ESP-IDF, C++), the TLC
configurations that check them on small instances, and theorems about them
checked by TLAPS. Paths below are relative to the repository; in `PROJECT.json`
every definition that models code names the lines it stands for.

- [The system](#the-system)
- [Modules and how they correspond to the code](#modules-and-how-they-correspond-to-the-code)
- [What the runs check](#what-the-runs-check)
- [What is proved](#what-is-proved)
- [Findings](#findings)
- [Not modelled, and why](#not-modelled-and-why)
- [Plan](#plan)

## The system

Two devices. The **greenhouse controller** measures temperature and humidity and
answers radio requests. The **hub** asks for readings every ten seconds over a LoRa
radio and publishes them to AWS IoT over Wi-Fi. Every part is a C++ class wired
together in the `app_main` of its device.

| Component | State | Operations | Talks to |
|---|---|---|---|
| `EventGroup` (core/software) | the kernel's bits, the copy `allBits_` | `set`, `clear`, `wait`, `isBitsSet` | shared by `WifiController` and `AwsIotThread` on the hub |
| `Queue` (core/software) | bounded FIFO | `send` (never waits, drops when full), `yield`, `receive` | led queue: three senders, UI thread; telemetry queue: radio thread to AWS thread |
| `Timer` (core/software) | dormant or armed, period | `startOnce`, `startPeriodic`, `stop`, callback in the timer task | every thread |
| `WifiController` + `Wifi` | `reconnectAttempt_`, reconnect timer; in the driver the station and its pending events | handlers of Wi-Fi and IP events, `reconnect_`, timer callback | event group, led queue |
| `AwsIotThread` + `AwsIotClient` | place in `run_`, `isConnectTriggered_`, `connectCounter`, reconnect timer, MQTT session | `yield_`, `handleConnect_`, `handleReconnect_`, `handleDisconnect_`, `publishTelemetry_`, timer callback, disconnect callback | event group, both queues |
| `RadioThreadHub` | time-out and request timers, suspended or not | interrupt, timer callbacks, packet handling | modem, both queues |
| `RadioThreadController` | suspended or not | interrupt, answers a request | modem, telemetry of `TimedMeter` |
| `Sx127xModem`, `Rfm95` | operating mode, IRQ flags, DIO mapping, FIFO, power registers | `listening`, `transmitData`, `getIrqEvent`, `getRxData`, `setPaConfig` | radio threads |
| `UiThread`, `Ws2812b`, `Button` | colour, duties of three channels, radio's last event, led timer, click | `handleLedEvent_`, timer callback, `Button::yield` | led queue |
| `TimedMeter`, `Sht40` | last telemetry, measurement flag | timer callback, `yield` | radio thread of the controller |
| `HrTimer` | count of timers, queue of free numbers | `init`, `deinit`, `start*`, `stop` | the controller's measurement timer |
| `NvsStore` | NVS entries, initialised or not | `init`, `erease`, `setItem`, `setString`, `getString` | credentials of `WifiController` |
| `Gpio`, `Adc` | used pins; used configurations and the units' handles | constructors, `setMode`, `setInterrupt`; `init`, `deinit` | button, sensors |
| `Spi`, `I2c`, `Ledc`, `Delay` | a handle | thin wrappers of ESP-IDF | drivers |
| packets, `Ticks`, `utils.hpp` | none | conversions | threads |

What is hard in this code:

- **State shared without a lock.** `EventGroup::allBits_` is written by the Wi-Fi
  event handlers and by the AWS thread; `isConnectTriggered_` by the timer task,
  by the MQTT client's callback and by the thread; `reconnectAttempt_` by the event
  loop's task and by the timer task.
- **Events that arrive late.** A Wi-Fi event is handled after the link has moved on,
  and `reconnect_` runs after a scan that lasts seconds.
- **Retries.** Both reconnections depend on one timer each; a lost trigger would end
  the connection for good, an additional one would start two attempts at once.
- **Commands that are refused.** Timer commands and queue sends never wait, and
  `esp_wifi_connect` may fail at once; most callers drop the results.
- **A result that says the opposite of what happened.** `EventGroup::clear` reports
  `FAIL` after it has cleared a bit, and the AWS thread is built around it.
- **Interrupts.** A radio interrupt can come between the handling of the last one and
  the suspension that it should have prevented.
- **A modem used by two tasks.** The request timer's callback transmits from the timer
  task while the modem receives and the radio thread may be reading a packet.
- **A set-up that fails half way.** Settings of the modem, the set-up of Wi-Fi and the
  storing of a string are sequences of accesses of which any may fail, and the programs
  go on.
- **Registers that settings share,** with values computed in eight bits.
- **A measurement in two halves.** The controller's main task writes two values 20 ms
  apart; its radio thread copies them at any time.

What makes each component correct:

- `EventGroup`: the copy never lacks a bit the kernel holds between calls; it lags by
  at most one clear; `OK` means that it is exact.
- `WifiController`: one way to a connection at a time, and none only after an error of
  the driver or the timer was dropped; the bit agrees with the link once events are
  handled; the attempts between two pauses are bounded.
- `AwsIotThread`: one reason to connect at a time, and always one; the bit agrees with
  the session; pauses grow; a session is got again and again.
- Hub: the two together do no more to each other than each was checked against.
- `RadioThreadHub`: whatever interrupt is lost, the next request finds the modem in a
  state from which its end wakes the thread; the hub listens again and again; the
  time-out runs only while an answer could come.
- Radio link: readings go on arriving; the two values of a reading belong together.
- `UiThread`: the led shows one event's colour unless the thread broke into the callback;
  a disconnection does not hide a radio that has timed out for ever; neither a bouncing
  button nor a flood of events keeps the other waiting.
- `HrTimer`: no number is held twice and none is lost.
- `NvsStore`: a string that was stored is read, or nothing; never a mixture.
- `Adc`: a channel's handle lives as long as the channel.
- `Wifi` at start-up: the station joins with the stored credentials or not at all.
- Modem settings: every setting is what its last successful call asked, whatever was set
  in between; the amplifier's current is limited; long symbols have their optimization.

`PROJECT.json` lists the hazards one by one, at the line where each bites, with the
properties that cover it.

## Modules and how they correspond to the code

| Module | Models | Remarks |
|---|---|---|
| `EventGroup` | `EventGroup` | one call is cut into the kernel's step and the store of the copy; `GroupSpec` is the class on its own, used by any tasks |
| `ConnectionBits` | the bits of `defs.hpp` | instance of the set of bits |
| `SwTimer` | `timer::sw::Timer` | operators: where a command may leave a timer |
| `LedEventQueue` | `sw::Queue` | as used for led events |
| `WifiController` | `WifiController`, `Wifi`, the driver's station as an environment | on the three modules above |
| `AwsIotThread` | `AwsIotThread`, `AwsIotClient`, with Wi-Fi, timer task, broker, radio and UI as an environment | likewise |
| `AwsConnection` | what `AwsIotThread` promises | abstract specification |
| `HubConnection` | `app_main` of the hub | composition of the last two systems on one event group and one led queue |
| `RadioModem` | `Rfm95`, `LoRa` and `ModemBase` as the radio threads use them | operators: what an access to a register, or an event of the radio, does to a modem |
| `RadioThreadHub` | `RadioThreadHub` and its two timers, with the air, AWS thread and UI as an environment | on `RadioModem`, `SwTimer`, `LedEventQueue` |
| `TimedMeter` | `TimedMeter`, `Sht40`, the controller's main loop | |
| `RadioThreadController` | `RadioThreadController` | on `RadioModem` and `TimedMeter` |
| `RadioLink`, `MCRadioLink` | both devices on one frequency | composition; the latter gives the packets for TLC |
| `UiThread` | `UiThread`, `Ws2812b`, `RgbBase`, `Button`, `Ledc` as the led uses it | on `LedEventQueue` and `SwTimer` |
| `HrTimer` | `timer::hw::HrTimer` | |
| `TimerPool` | what `HrTimer` promises of its numbers | abstract specification |
| `Gpio`, `Adc` | `hw::Gpio`, `hw::Adc` | the second on the first |
| `NvsStore` | `storage::hw::NvsStore` | |
| `WifiStartup` | `init`, `start` and `stop` of `WifiController`, the set-up part of `Wifi` | with the driver and its flash as an environment |
| `ModemSettings` | the setters of `Rfm95`, `LoRa` and `ModemBase`, down to the registers | |
| `Drivers`, `MCDrivers` | the last five and `EventGroup` together | composition; the latter gives the settings for TLC |
| `EventGroupProofs`, `WifiControllerProofs`, `AwsIotThreadProofs`, `HubConnectionProofs`, `RadioLinkProofs`, `UiThreadProofs`, `ModemSettingsProofs`, `DriversProofs` | | theorems and their proofs; `RadioLinkProofs` is about the hub's side alone and about the link, `DriversProofs` about `HrTimer`, `NvsStore`, `Adc`, `WifiStartup` and all the parts of `Drivers` together |

**EventGroup.** `bits` is the kernel's state, `allBits` the copy, `call[t]` what task
`t` is executing. `Begin` computes `expectedAllBits` from the copy; `KernelSet`,
`KernelClear` and `KernelWait` are the FreeRTOS calls; `ReturnSet` is apart because
`xEventGroupSetBits` reads its result after the scheduler has been resumed; `Store`
assigns the copy and compares. `AtomicSet` and `AtomicClear` are whole calls, for a
caller nobody can preempt. `isBitsSet` is a read of the copy and is true when *any*
of the bits is in it, as in the code.

**WifiController.** The default event loop's task has a higher priority than the
application's threads and shares their core, so what a handler does between two
blocking calls is one action; the scan of `STA_DISCONNECTED` blocks, hence
`HandleStaDisconnected` and `ScanEnds`. A scan may fail, and then returns at once: it is
no guarantee that the timer task has run. That task has the lowest priority and is cut
inside its callback: `CallbackConnects`, then the read and the write of
`++reconnectAttempt_`. `link` is the station of the Wi-Fi driver, `events` what it has
posted and nobody has handled. `wifiTimer` is "idle" or "armed". `Connect` on an idle
station begins an attempt or fails, and then posts no event; its three callers
(`wificontroller.cpp:25`, `:93`, and `:143` through `:102`) ignore the result, as `:102`
ignores that of `startOnce`. `dropped` is the history of this, `attempts` the number of
calls of `connect` since the last association or pause.

**AwsIotThread.** `pc` is the place in `run_`, cut at every access to shared state and
at every blocking call. `session` is "lost" between the loss of a session and the
client's notice of it in `ClientYield`, which calls `handleDisconnect_` synchronously.
The connect loop of `yield_` tests three conditions in one action: a Wi-Fi handler
that ran between two of them would give an outcome it can also give by running before
or after, since only one of them is the handler's to change.

**HubConnection.** Both systems on the same variables. `AwsStep` adds what neither
module can say: a session begins only over a link with an address.

**RadioModem.** A modem is a record: operating mode, interrupt flags, which flag DIO0
shows, the FIFO's pointer and contents. DIO0's rising edge (`Rises`) is the interrupt;
a flag that stays set raises none. The FIFO has a base, where sends and the first
packet of a reception go, and a place for later packets; what lies behind something
just written is `Remains`, bytes of older packets that may look like a reading, or
`Nothing`.

**RadioThreadHub.** `hubPc` is the place in the thread, `requester` that in the request
timer's callback; both are cut at every access to a register, and between any two the
other may run. (On the hardware the callback runs when the thread waits, for the bus
or in `getRxData`'s delay; the model allows it everywhere.) `hubSeen` is what
`getIrqEvent` has read. An edge resumes the thread only when it is suspended. The
time-out timer's expiry and its callback are apart: a stop in between is too late.
`TransmissionIsOver` is the ten seconds between requests, `TransmissionEnds` the second
a transmission takes.

**TimedMeter.** The n-th measurement gives the value n, 0 stands for `INVALID_VALUE`.
The two fields are written in two steps; `yield` tests and resets the flag in two.

**RadioThreadController.** Nobody else uses this modem and packets take about a second
(SF12 at 125 kHz), so that what the thread does between two suspensions is one step;
`Outcomes` gives all the states a failing access may leave.

**RadioLink.** A transmission that ends is heard by the other side if it listens, or
disturbed. `RequestIsDue` adds to the timer what ten seconds mean for the link: the
answer to the last request is over and handled.

**UiThread.** `uiPc` is the place in the thread's turn: the button, the 100 ms in which a
click is waited out, the queue. The timer task has the lowest priority: the thread may
break into the callback, which is therefore cut at its read and write of
`radioLedEvent_`, at each colour of `rgbColor` and at each channel, and is never the one
that breaks in, so that the thread's `HandleLedEvent` is one action. `Faulty` is the set
of channels whose `setDuty` may fail, unnoticed. `shown` and `spoilt` are history: the
event handled last, and why the led may show something else. `ColorOf` follows the
switch, in which an AWS connection has no case and gets the default, orange.

**HrTimer.** `timerNumber[t]` is 0 for `TIMER_NOT_EXIST`. `HrInitFails` is the
`esp_timer_create` that fails after a number was taken, and gives it back at the end of
the queue. `StartAs` is `startOnce` and `startPeriodic`: both restart a timer that runs,
which leaves its kind. A timer that runs is stopped by `deinit` before it is deleted, so
`HrDeinit` always succeeds.

**Gpio, Adc.** A constructor claims its pin or configuration, or leaves the object without;
only `Adc` gives its back. `ClearAdcUnitHandle` is faithful to `clearAdcUnitHandle_`: for
unit 2 it deletes the handle of unit 1 and forgets that of unit 2.

**NvsStore.** A string is its length. `SetSize` and `SetText` are the two halves of
`setString`, between which the device may restart or the second write fail. `possible[k]`
is history: what a reader may be told. Sizes are cut to eight bits where the code cuts
them, on the way in and once more with one added on the way out.

**WifiStartup.** `InitCalls` is the sequence of calls of `WifiController::init`, of which
any prefix may succeed; `ModeAfterInit` what `mode_` is then. The driver keeps the
credentials it was given over a restart, as ESP-IDF does in its flash.

**ModemSettings.** A register is a set of bits. A setting has its stages: the registers
after each of its accesses, of which any may be the last (`Partway`), as an access that
fails may or may not have happened; `OK` comes after the whole. `AppendTo` replaces the
bits that the mask does not keep; `Reload` computes the symbols' duration from what the
registers hold at that moment. `setAllSettings` goes from one setting to the next
(`underWay`, `SetNext`) and returns at the first that fails.
`PaConfigValue`, `OvercurrentProtection` and `Frf` compute in the width of the code.

## What the runs check

All passing runs but `drivers` and `wifi` check deadlock. In the first a program may stop
calling its drivers, and the bound on calls of the modem does stop it; in the second a
dropped error really leaves the station with nothing to do, and `OneWayToConnect` says
exactly when. State counts are of distinct states.

| Run | States | Question | Properties |
|---|---|---|---|
| `eventgroup_clear_doc` | violated | does `FAIL` from `clear` mean that bits were left? | `FailedClearLeavesABit` |
| `eventgroup_wait_doc` | violated | does `wait` report a time-out as such? | `TimeoutIsReported` |
| `wifi` | 377 970 | does the station reconnect, whatever the order of events? | `WifiTypeOK`, `OneWayToConnect`, `BitSetWhenSettled`, `AttemptsBounded`, `ClearedOnlyWhileDown`, `WifiRecovers` |
| `aws` | 23 196 | does the thread keep its session, whatever comes between its steps? | `AwsTypeOK`, `OneReasonToConnect`, `AwsBitTracksSession`, `ImplementsConnection`, `PausesGrow`, `AwsReconnects` |
| `hub` | 774 340 | does each stay within what the other was checked against? | `BitSetWhenSettled`, `ImplementsAwsIotThread`, `DeadLinkEndsSession` |
| `hub_set_bit_doc` | violated | does `isBitsSet` see a bit that is set? | `SetBitIsSeen` |
| `radio_hub` | 51 650 | do lost interrupts and requests in the middle of a reception leave the hub working? | `HubRadioTypeOK`, `NextRequestWakes`, `TimeoutOnlyWhileListening`, `HubListens` |
| `radio_send_doc` | violated | does `send` transmit what it was given? | `SentIsRequest` |
| `radio_link` | 4 267 614 | which readings arrive, when accesses to the modem and the sensor fail? | `LinkTypeOK`, `ReadingsHoldTogether` |
| `radio_link_live` | 358 272 | do readings go on arriving? | `LinkDelivers` |
| `ui` | 200 680 | what does the led show when two tasks write it, and is everybody served? | `UiTypeOK`, `LedShowsItsEvents`, `RedGivesWay`, `ThreadServesBoth` |
| `drivers` | 162 270 | do the event group and the drivers keep their promises through any order of calls, failures and restarts? | `DriversTypeOK`, `CopyNeverMissesBit`, `CopyLagsByOneClear`, `OkMeansInSync`, `StoredStringIsRead`, `JoinsAsStored`, `SettingsTakeEffect`, `LowDataRateWhenNeeded`, `CurrentLimited`, `ImplementsTimerPool`, `AdcHandlesOutliveUse` |

### Bounds

- `eventgroup_clear_doc`, `eventgroup_wait_doc`: two bits tell a clear or a wait of all
  from one of some.
- `wifi`: `MAX_RECONNECT_ATTEMPTS = 5` and `CountModulus = 256` as in the code, so that the
  count takes every value it can, including by wrapping. `attempts` needs no bound:
  `AttemptsBounded` is one. Timer commands may be refused. `EventCapacity = 4` is more
  than the driver can have outstanding: a connection that comes and goes posts three
  events, and no new attempt begins before `STA_DISCONNECTED` is handled. The led
  queue has one place, so that both a full and an empty queue occur.
- `aws`: constants of the code; one place in each queue, for the same reason.
- `hub`: `MAX_CONNECT_ATTEMPTS = 2`, the least value with an attempt before the last, and
  `MAX_RECONNECT_ATTEMPTS = 0`, one attempt and then the pause, with a count that wraps at
  the least value the assumption allows. The counters are checked with their real limits
  in `wifi` and `aws`, and the theorems hold for all of them. Telemetry has no place
  here (every reading is dropped): nothing in the connection depends on it, which
  `AwsIotThread` shows with one. Timer commands may be refused.

- `radio_hub`: packets are the request, a reading, any other, and remains that look like
  a reading. `AirIsSlow = FALSE`: packets may arrive at any time, even while the thread
  is awake, which is more than SF12 allows and is what loses interrupts. One place in
  each queue.
- `radio_send_doc`: the same with `AirIsSlow = TRUE`, so that the violation needs no
  packet faster than the real ones.
- `radio_link`: two measurements, enough for a reading to mix two; the led queue has no
  place and other devices are silent, both having been explored in `radio_hub` and
  `radio_link_live`. Any access to a register and any reading of the sensor may fail.
- `radio_link_live`: one measurement, as the contents of a reading do not matter to its
  arrival; packets of another device.

- `ui`: one place in the queue, so that it is both full and empty; one channel that may
  fail, enough for a colour to be incomplete. Timer commands are accepted: `RedGivesWay`
  depends on it.
- `drivers`: the parts share no state, so a behaviour exercises one of them
  (`exercised`), and the state space is the sum of theirs and not the product. Two tasks
  and two bits for the event group: as its calls do not overlap here (`OneAtATime`), the
  second task matters only as the caller of the next call. Four
  timers for three numbers: one is refused, and the queue of free numbers gets longer
  than one. Pins 32 and 33 belong to one converter, 4 to the other, 40 is no pin: with
  three gpios and three channels, two on one unit and one on the other. Gpios and
  channels are symmetric. The lengths of strings are those on either side of each wrap.
  `MCSettings` has five records of settings: those of the
  controller's `app_main`, the ends of the ranges that the code tells apart, with values
  it refuses, and a power that only the interface's comment excludes. Two calls
  (`MaxCalls`) are one setting or all of them and any other after it, either of which may
  end anywhere; the theorems hold for any number of calls and all settings.

The bounds the code does not have are `EventCapacity`, which `Post` names,
`MaxMeasurements`, which `ResetReady` names, and `MaxCalls`, which `Call` names.

### Fairness

- `WifiFairness`: weak fairness for the event loop's task, the end of a scan, the timer
  and its callback, which are tasks the scheduler runs; and for the driver's progress
  with an attempt it has begun, which ends in an association, an address or a failure.
- `AwsFairness`: weak fairness for the thread and the timer; strong fairness for
  `ConnectSucceeds`, which says that a broker asked again and again accepts at last.
  It is a demand on the network and not on the code: without it no session can be
  promised. `AwsReconnects` also assumes that timer commands are accepted and that the
  copy shows Wi-Fi connected from some time on.
- `Fairness` of `HubConnection`: the thread runs, and the network drops a session
  whose link is down.
- `WifiRecovers` assumes that from some time on no attempt that has begun fails, and that
  no error of `connect` on an idle station or of `startOnce` was dropped: after one the
  station does not recover, which `OneWayToConnect` shows.
- `HubRadioFairness`: the thread and the timer task run, the request timer expires and a
  transmission ends. Nothing is assumed of packets.
- `LinkFairness`: the same on both devices, the AWS thread takes readings, and strong
  fairness for a packet being heard: an air that destroys every one delivers nothing.
  `LinkDelivers` assumes that from some time on other devices are silent, that no
  access fails and no timer command is refused.
- `UiFairness`: the thread waits 10 ms in every turn, and so leaves the processor to the
  timer task, which runs the callback to its end.

## What is proved

Every theorem holds for all values of the constants that satisfy the named
assumptions of the modules (`WifiAssumption`, `AwsAssumption`, `BitAssumption`,
`TimerQueueAssumption`, `LedCapacityAssumption`, `ModemAssumption`, `HubRadioAssumption`,
`MeterAssumption`, `LinkAssumption`, `HrTimerAssumption`, `GpioAssumption`,
`NvsAssumption`, `FaultyAssumption`, `SettingsAssumption`), which TLC
evaluates in the runs. `SettingsAssumption` asks for no more than the types and
enumerations of the interface; `LinkAssumption` has the controller's packets told from
`Remains`. Some theorems assume more and say so: those on the copy of an
event group, that its calls do not overlap (`OneAtATime`); `PausesGrowAlways`, that the
pauses can be told apart (`PausesDiffer`).

| Theorem | States | Argument |
|---|---|---|
| `EventGroupProofs!GroupTypeCorrect` | `GroupSpec => []GroupTypeOK` | inductive as it stands |
| `EventGroupProofs!CopyIsComplete` | `CopyNeverMissesBit` if calls do not overlap | `CallInv`: at most one task is in a call, and what it has fetched is not older than the bits |
| `EventGroupProofs!LagCorrect`, `OkCorrect` | `CopyLagsByOneClear`, `OkMeansInSync` if calls do not overlap | `ExactInv`: what the kernel has returned to a call is exactly its bits of before a clear, or of after a set or a wait |
| `WifiControllerProofs!WifiTypeCorrect` | `WifiTypeOK` | inductive with `WayInv`, which bounds what the driver has outstanding |
| `WifiControllerProofs!OneWayCorrect` | `OneWayToConnect`: never two ways, and none exactly when an error was dropped | `WayInv`, below |
| `WifiControllerProofs!ClearedCorrect` | `ClearedOnlyWhileDown` | `WayInv`: only the end of a scan clears, and during a scan nothing else is at work |
| `WifiControllerProofs!BitCorrect` | `BitSetWhenSettled` | `WayInv` and `BitOrEvent`: a link with an address has its bit or the event that will set it |
| `WifiControllerProofs!AttemptsCorrect` | `AttemptsBounded` | `WayInv` and `CountInv`, below |
| `AwsIotThreadProofs!AwsTypeCorrect` | `AwsTypeOK` | inductive as it stands; the counter stays below its limit because the attempt that reaches it resets it |
| `AwsIotThreadProofs!OneReasonCorrect` | `OneReasonToConnect` | `ReasonInv` |
| `AwsIotThreadProofs!ConnectionImplemented` | `ImplementsConnection` | `ReasonInv` and a step-by-step refinement: every step of the thread and of its surroundings is one step of `AwsConnection`, or none |
| `AwsIotThreadProofs!AwsBitCorrect` | `AwsBitTracksSession` | `BitInv` |
| `AwsIotThreadProofs!PausesGrowAlways` | `PausesGrow` | `PauseInv`: the time asked for last is the counter's multiple, or the long one while the counter is 0 |
| `RadioLinkProofs!HubRadioTypeCorrect` | `HubRadioTypeOK` | inductive as it stands, with a lemma for every operator on modems |
| `RadioLinkProofs!WakesCorrect` | `NextRequestWakes` | `RequestInv` and `WakeInv`, below |
| `RadioLinkProofs!TimeoutCorrect` | `TimeoutOnlyWhileListening` | these and `TimeoutInv`, which follows a time-out in standby to its stop or to the modem's listening |
| `RadioLinkProofs!LinkTypeCorrect` | `LinkTypeOK` | part of `LinkInv` |
| `RadioLinkProofs!ReadingsCorrect` | `ReadingsHoldTogether` | `MeterInv` and `LinkInv`, below |
| `RadioLinkProofs!HubSideImplemented` | the hub in the link is `HubRadioSpec` | every step of the link is a step of the hub's threads and of its surroundings, or none; `AnswerInv`, below |
| `RadioLinkProofs!HubSideCorrect` | `NextRequestWakes`, `TimeoutOnlyWhileListening` in the link | the theorems of the hub's side alone, through the one above |
| `UiThreadProofs!UiTypeCorrect` | `UiTypeOK` | part of `UiInv` |
| `UiThreadProofs!LedCorrect` | `LedShowsItsEvents` | `UiInv`, below |
| `DriversProofs!JoinsCorrect` | `JoinsAsStored` | `CredentialsInv`: a mode with a station never goes with credentials of an earlier run |
| `DriversProofs!HrTypeCorrect` | types of `HrTimer` | part of `NumbersInv` |
| `DriversProofs!PoolImplemented` | `ImplementsTimerPool` | `NumbersInv`, below |
| `DriversProofs!StoredStringCorrect` | `StoredStringIsRead` | `NvsInv`, below |
| `DriversProofs!HandlesCorrect` | `AdcHandlesOutliveUse` | `AdcInv`: no two objects have one configuration, and a handle that works is its unit's |
| `DriversProofs!AdcTypeCorrect`, `NvsTypeCorrect`, `WifiStartupTypeCorrect` | types of `Adc` and `Gpio`, `NvsStore`, `WifiStartup` | the invariants above, with the types of what they leave out |
| `DriversProofs!PartsImplemented` | the parts together are each part's specification | the parts share no variable |
| `DriversProofs!DriversTypeCorrect`, `DriversCorrect`, `DriversGroupCorrect` | `DriversTypeOK`, and the other properties of the run `drivers`; the last has those of event groups if calls do not overlap | the theorems of the parts, through the one above |
| `ModemSettingsProofs!SettingsTypeCorrect`, `SettingsCorrect` | `SettingsTypeOK`, `SettingsTakeEffect` | `SettingsInv`, below |
| `ModemSettingsProofs!LowDataRateCorrect`, `CurrentCorrect` | `LowDataRateWhenNeeded`, `CurrentLimited` | `SettingsInv`, and what `Reload` and the overcurrent protection compute for every argument |
| `HubConnectionProofs!HubImplementsAws` | `ImplementsAwsIotThread` | every step of the hub is a step of the thread, of its surroundings, or leaves both alone |
| `HubConnectionProofs!HubConnects` | the thread's properties in the hub | the theorems of the thread, through the one above |
| `HubConnectionProofs!HubStaysConnected` | `OneWayToConnect`, `BitSetWhenSettled` in the hub | `HubInv`, below |
| `HubConnectionProofs!HubClearsOnlyWhileDown` | `ClearedOnlyWhileDown` in the hub | `HubInv`: a clear of the thread's is not one of the handlers' bit |
| `HubConnectionProofs!HubTypeCorrect` | `WifiTypeOK` and `AwsTypeOK` in the hub | `HubInv`, and the thread's type through `HubImplementsAws` |
| `HubConnectionProofs!HubAttemptsBounded` | `AttemptsBounded` in the hub | `HubInv`, which has `CountInv` |

**`WayInv`.** `OneWayToConnect` is not inductive: nothing in it says that a handler
which is about to run will find the link it expects. The strengthening names six ways
to a connection (the link itself, a start to come, an event that will call `connect` or
scan, a scan, the timer, the callback) as pairwise exclusive, and adds that such an
event is always the last of the queue, and that a queue ending with another event
belongs to a link that is up. There is no way exactly when an error was `dropped`. The lemmas `TakesKeepsOrder` and `PostKeepsOrder` say
what taking and posting an event do to that order.

**`CountInv`.** The count itself says little: the callback may have read an old value before
a scan ended and write it back after a reset, or after the count of a new cycle. What can
be said is about the attempts made since the last pause, together with those that the
count still `Allowed`s: while the callback is on its way to its store they are at most a
cycle (one more than the limit), and one more for the callback's own; a late store can
give the count any value, but it happens once, as the timer is armed again only by the
next pause, and what it allows is at most another cycle. Hence twice a cycle, which TLC
finds to be reached.

**`ReasonInv`** is the same idea for the AWS thread: the reasons as named predicates,
exclusive in pairs, with what each place in the thread knows about them.

**`BitInv`** says, for every place in a call of the thread and for every step of that
call, what the kernel's bits, the fetched value and the copy hold of
`AWS_CONNECTED_BIT`. It is needed because the copy is wrong in the middle of every
disconnection; that it is right afterwards depends on the second clear, and that the
second clear is made depends on the first being reported as failed.

**`RequestInv`, `WakeInv`.** That a sleeping thread finds the flag clear says nothing of
a thread that is awake, nor of the callback that runs beside it. `RequestInv` says that
while a request is made or transmitted the end of the one before is behind the thread,
and that DIO0 shows the end of this one; `WakeInv` that the flag is set only while the
thread is on its way to clear it. The edge that starts this way exists because of
`RequestInv`.

**`MeterInv`, `LinkInv`.** `ReadingsHoldTogether` speaks of the hub's queue, and the values
it speaks of were paired in the controller. `MeterInv` says of every place between the
two readings of a measurement what each field may be; from it follows that a copy of the
telemetry taken anywhere holds together. `LinkInv` carries this through both FIFOs, the
air and whatever a failing access leaves of a modem (`WholeModems`) to the queue. Remains
of older packets are excepted: they may look like any reading.

**`AnswerInv`.** `RadioThreadHub` is about an air in which any packet may arrive but none
that is a remainder of others; the link's air carries what the controller's FIFO holds
when a transmission ends. That this is never more than was allowed needs an invariant of the controller: a modem that transmits
has a telemetry at the base of its FIFO, and its thread sleeps until the transmission is
over. A failing access does not break it, because the packet is in the FIFO before the
mode that sends it.

**`HubInv`.** The composition does not implement `WifiController` alone: there, nobody else
uses the event group. `HubInv` is the controller's own `WayInv`, `BitOrEvent`, `CountInv` and bounds. A
step of the handlers keeps it as it does there; for a step of the thread it is enough that
`WIFI_CONNECTED_BIT` stays as it is, which the thread's `CallInv` gives: its calls have
`AWS_CONNECTED_BIT` and no other bit as their argument.

**`SettingsInv`.** Every bit of a register belongs to at most one setting: `Field(name, a)` are
the bits at address `a` that the setting uses. (That of the optimization for low data
rates belongs to none: two settings may set it.) That a call keeps the others' (`Keeps`,
`StagesKeep`) follows from its masks, by what `Bits` and `Number` do to a byte
(`ByteValue` and the lemmas after it), and it holds at every stage, thus also for a call
that ends early. The two properties that relate settings, the optimization for low data
rates and the limit of the current, are in the invariant as they stand. Their values are
compared for all bandwidths and spreading factors, and for all pins and powers.

**`UiInv`** says of every place in the callback what `rgbColor` and the channels hold. As
long as the thread has not broken in (`Undisturbed`), the channels that are done have the
colour of the callback's event; once it has (`Overlapped`), every channel of either has
that of one of the two events, because each colour is written and read whole.

**`NumbersInv`.** That no two timers have one number is not inductive: the next number
comes from the queue of free ones or from `timerCount_`, and nothing relates these to
what is held. The strengthening: the numbers given out so far are 1 up to the count and
the free ones together; those held and those free are different and none occurs twice;
`timerCount_` is the cardinality of the holders. A new number is then outside of both.

**`NvsInv`.** The entries of a key need not belong together after a restart in the middle
of `setString`. The text is always a string the key may be read as, and when there is
only one such string, the size is its size. That a mixture is not read follows from NVS,
which refuses a buffer that is too small.

TLC checked every invariant used as a strengthening before it was proved.

**Only model-checked:** the liveness properties (`WifiRecovers`, `AwsReconnects`,
`DeadLinkEndsSession`, `HubListens`, `LinkDelivers`, `RedGivesWay`, `ThreadServesBoth`),
which need fairness and `ENABLED`, out of the prover's reach. All other properties of
the passing runs have a theorem.

## Findings

- `clear` reports `FAIL` when it has cleared a bit (`eventgroup.cpp:51`), against
  `eventgroup.hpp:58-59`. Run `eventgroup_clear_doc`. The retry in `handleDisconnect_`
  works around it; `awsiotthread.cpp:120` calls it a bug that happens "sometimes".
- `wait` never returns `TIMEOUT` (`eventgroup.cpp:73-77`), against `eventgroup.hpp:72`. Run
  `eventgroup_wait_doc`: whatever the kernel returns when the time is over is not what was
  expected, and that is `FAIL`.
- `isBitsSet` can deny a bit that is set when two tasks use the group at once, against
  `eventgroup.hpp:83`. Run `hub_set_bit_doc`: a handler sets `WIFI_CONNECTED_BIT`
  between the kernel's part of the AWS thread's second clear and the store of the
  copy. The thread then makes no attempt until the next Wi-Fi event.

- `send` does not always transmit what it is given, against `rfm95.hpp:67-72`. Run
  `radio_send_doc`: the modem goes on receiving while `transmitData` fills the FIFO
  (`sx127xmodem.cpp:325-345` and `106-121`), and a packet that arrives takes the request's place. The
  ten-second period repairs it: the next request is another one.

A single access that fails between reading and clearing the flags (`sx127xmodem.cpp:376`)
can leave DIO0 high for good: the controller then sleeps for ever, and so does the hub
after the end of a transmission. No document says otherwise, so it is a hazard and not
a finding.

What follows no document denies, or no run of its own shows; the models have it all:

- `RedGivesWay` has an exception. A disconnection and then an answer of the radio that
  are handled while the led timer's callback is at work leave the led red: the callback
  writes back the `RADIO_TIMEOUT` it has read over the newer event, and `setLedTimer_`
  found nothing to start the timer for.
- One `esp_wifi_connect` that fails on an idle station, or one `startOnce` that a full timer
  queue refuses, leaves the station disconnected for good: no event follows and nobody
  tries again. `OneWayToConnect` says exactly this.
- A `wait` whose bits are all set may report `FAIL`, when the copy it computes its
  expectation from has a bit that was cleared.
- `reconnectAttempt_` may be given an old value after a reset, by the timer's callback that
  was preempted in its `++`. A pause may come early, or up to a cycle late, no more.
- An AWS connection is shown in orange, the colour of no case of the switch.
- `HrTimer::startPeriodic` of a timer that runs once restarts it as such, and the other way
  round. `deinit` of a timer that is not initialised gives `OK`, where `hrtimer.hpp:33` has
  `INVALID_STATE`.
- The release of the last channel of ADC unit 2 deletes unit 1's handle (`adc.cpp:228`);
  unit 2 stays claimed, so that it cannot be initialised again.
- A string of 255 characters or more is stored with `OK` and cannot be read.
- After a failed `erease`, `isNvsInitialized_` stays, and `init` does nothing until the device
  restarts.
- A second `init` of Wi-Fi, after a `deinit` or after one that failed late, always fails
  where it creates the default event loop.
- `setPaConfig` gives `OK` for 18 and 19 dBm on the BOOST pin, which `rfm95.hpp:251-252`
  excludes; the value then runs over into the bits of `MaxPower`. For RFO at -4 dBm it
  gives `FAIL` after it has written two of the three registers.
- The overcurrent protection of the RFO pin is switched off by an eight-bit wrap.
- The bit of the low-data-rate optimization is never cleared, and symbols of 16.384 ms,
  which are longer than the 16 ms of the data sheet, do not set it: the division rounds.
- The controller's `app_main` tests a stale `errorCode` after `measurementTimer.init()`
  (`main.cpp:88-89`).

## Not modelled, and why

- `app_main`'s other failures at start-up: it logs them and goes on, and a class whose
  `init` failed answers `INVALID_STATE` from then on. Of the set-ups, that of Wi-Fi, the
  storage, the modem, the timers and the converter keep something when they fail, and
  are modelled.
- `AwsIotClient::init`, `subscribe` and `disconnect`: their results are logged, and nothing
  calls the last.
- The `show*` functions and logging; the conversions of packets and of raw sensor values,
  which are stateless.
- `Spi`, `I2c`, `Delay` and the rest of `Ledc`: wrappers that keep nothing but a handle.
- `utils.hpp` and `Ticks`: constant expressions. One of them is wrong,
  `sToMs<Time, uint8_t>(60)` in `wificontroller.hpp:152`, which gives a pause of 13.92 s;
  nothing says how long it should be.
- Time: a timer is armed or idle, and an armed timer expires at any time. The lengths
  of the AWS thread's pauses are values of `reconnectTime`.
- Two tasks in one object of `HrTimer`, `Gpio`, `Adc`, `NvsStore` or `Wifi`'s set-up: each is
  used by one task of its program.

## Plan

What is left, the most important first:

1. **Telemetry pipeline.** From the hub's radio thread through the queue to the
   publication: a lossy FIFO as the abstract specification, implemented by queue and
   AWS thread.
2. **The whole hub.** The radio thread and the UI composed with `HubConnection` on the one
   led queue.
3. **Radio link, abstract.** A lossy request and answer as the abstract specification.
