-------------------------- MODULE MCTelegramPolling --------------------------
(* A small instance of TelegramPolling.  Each start over an empty database *)
(* draws an epoch: one for each process, and one after a fault.            *)
EXTENDS TelegramPolling

CONSTANTS p1, p2, e1, e2, e3

TwoProcesses == {p1, p2}
Epochs       == {e1, e2, e3}
==============================================================================
