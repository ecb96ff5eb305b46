------------------------------ MODULE MCOutbox ------------------------------
(* Small instances of the outbox for TLC.                                  *)
EXTENDS OutboxRefinement, TLC

CONSTANTS w1, w2, m1, m2

OneWorker   == {w1}
TwoWorkers  == {w1, w2}
OneMessage  == {m1}
TwoMessages == {m1, m2}

(* Workers are interchangeable, and so are messages.                       *)
Symmetry == Permutations(Workers) \cup Permutations(Message)
=============================================================================
