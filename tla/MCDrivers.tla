------------------------------- MODULE MCDrivers -------------------------------
(***************************************************************************)
(* Drivers for TLC: the settings that the modem is given, and the symmetry *)
(* of pins and channels, each of which is like the others of its kind.     *)
(***************************************************************************)
EXTENDS Drivers, TLC

MCSymmetry == Permutations(Gpios) \cup Permutations(Adcs)

\* The first are those of app_main; the others have the ends of the ranges that the code
\* distinguishes, among them a spreading factor and a power that it refuses, and a power
\* that only the interface's comment excludes.
MCSettings ==
    {[frequency |-> 868000000, boost |-> TRUE, gain |-> 1, bandwidth |-> 7,
      header |-> "EXPLICIT", sf |-> 12, sync |-> 18, preamble |-> 8,
      pa |-> [pin |-> "BOOST", power |-> 20]],
     [frequency |-> 525000000, boost |-> FALSE, gain |-> 0, bandwidth |-> 0,
      header |-> "EXPLICIT", sf |-> 7, sync |-> 52, preamble |-> 1000,
      pa |-> [pin |-> "BOOST", power |-> 17]],
     [frequency |-> 524999999, boost |-> FALSE, gain |-> 6, bandwidth |-> 9,
      header |-> "EXPLICIT", sf |-> 6, sync |-> 255, preamble |-> 65535,
      pa |-> [pin |-> "RFO", power |-> -3]],
     [frequency |-> 433920001, boost |-> TRUE, gain |-> 4, bandwidth |-> 2,
      header |-> "EXPLICIT", sf |-> 11, sync |-> 0, preamble |-> 6,
      pa |-> [pin |-> "RFO", power |-> -4]],
     [frequency |-> 868000000, boost |-> FALSE, gain |-> 0, bandwidth |-> 7,
      header |-> "EXPLICIT", sf |-> 10, sync |-> 18, preamble |-> 8,
      pa |-> [pin |-> "BOOST", power |-> 19]]}
=============================================================================
