------------------------------- MODULE MCTimers -------------------------------
(* Small instances of Timers.                                              *)
EXTENDS Timers

CONSTANTS w1, w2, a, b

OneWorker  == {w1}
TwoWorkers == {w1, w2}
OnePart    == {a}
TwoParts   == {a, b}
==============================================================================
