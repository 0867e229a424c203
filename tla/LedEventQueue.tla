---------------------------- MODULE LedEventQueue ----------------------------
(***************************************************************************)
(* The sw::Queue that carries led events from the Wi-Fi handlers and the   *)
(* AWS and radio threads to the UI thread.  send does not wait: an event   *)
(* that finds the queue full is dropped.                                   *)
(***************************************************************************)
EXTENDS Naturals, Sequences

CONSTANT LedCapacity  \* the length given to the queue in app_main (5)

ASSUME LedCapacityAssumption == LedCapacity \in Nat

VARIABLE ledEventQueue

LedEvent == {"WIFI_CONNECTION", "WIFI_CONNECTED", "WIFI_DISCONNECTED",
             "AWS_CONNECTED", "AWS_DISCONNECTED",
             "RADIO_COMMUNICATION", "RADIO_TIMEOUT"}

LedInit   == ledEventQueue = <<>>
LedTypeOK == ledEventQueue \in Seq(LedEvent) /\ Len(ledEventQueue) <= LedCapacity

\* Mutant: the length is not checked.
SendLedAlways(event) == ledEventQueue' = Append(ledEventQueue, event)

SendLed(event) ==
    ledEventQueue' = IF Len(ledEventQueue) < LedCapacity
                     THEN Append(ledEventQueue, event)
                     ELSE ledEventQueue

\* The UI thread takes an event.
ReceiveLed ==
    /\ ledEventQueue # <<>>
    /\ ledEventQueue' = Tail(ledEventQueue)
=============================================================================
