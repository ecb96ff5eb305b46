------------------------------ MODULE MCTopics ------------------------------
(* Small instances of Topics.                                              *)
EXTENDS Topics

CONSTANTS p1, p2, a, b

TwoProcesses == {p1, p2}
TwoChats == {a, b}

(* One topic that an operator has made by hand.                            *)
ByHand == <<Nobody>>
=============================================================================
