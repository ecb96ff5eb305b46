------------------------------ MODULE Courier -------------------------------
(***************************************************************************)
(* What the outbox promises its users, with no leases, workers, requests   *)
(* or retries: a log of entries, each about one message.  An entry is      *)
(* tried at most once, in the order of the entries of its message, and the *)
(* attempt either ends in a definite outcome or stays unknown for ever.    *)
(***************************************************************************)
EXTENDS Integers

CONSTANTS
    Message,    \* what entries are about
    Nothing,    \* the subject of an entry that is not there
    MaxRows     \* bound: entries ever accepted, a natural number

Id == 1..MaxRows

Status  == {"none", "queued", "trying", "delivered", "unknown",
            "blocked", "failed", "cancelled"}
Finished == {"delivered", "failed", "cancelled"}

VARIABLES
    status,    \* Id -> what has become of the entry
    subject    \* Id -> the message the entry is about

cvars == <<status, subject>>

Init ==
    /\ status = [i \in Id |-> "none"]
    /\ subject = [i \in Id |-> Nothing]

(* New entries about m go to the end of the log; entries about m that have *)
(* not been tried may be cancelled in the same step.                       *)
Accept(m) ==
    \E new, gone \in SUBSET Id :
        /\ new \cup gone # {}
        /\ \A i \in new : /\ status[i] = "none"
                          /\ \A j \in 1..(i - 1) : status[j] # "none" \/ j \in new
        /\ \A i \in gone : status[i] = "queued" /\ subject[i] = m
        /\ status' = [i \in Id |-> IF i \in new THEN "queued"
                                   ELSE IF i \in gone THEN "cancelled"
                                   ELSE status[i]]
        /\ subject' = [i \in Id |-> IF i \in new THEN m ELSE subject[i]]

(* An entry is tried when all earlier ones about its message are finished. *)
Try(i) ==
    /\ status[i] = "queued"
    /\ \A j \in 1..(i - 1) : subject[j] = subject[i] => status[j] \in Finished
    /\ status' = [status EXCEPT ![i] = "trying"]
    /\ UNCHANGED subject

(* An attempt succeeds, is refused, or has an outcome nobody knows.        *)
Conclude(i) ==
    /\ status[i] = "trying"
    /\ \E s \in {"delivered", "unknown", "blocked", "failed"} :
         status' = [status EXCEPT ![i] = s]
    /\ UNCHANGED subject

(* An entry is given up before it is tried, in its turn.                   *)
Drop(i) ==
    /\ status[i] = "queued"
    /\ \A j \in 1..(i - 1) : subject[j] = subject[i] => status[j] \in Finished
    /\ status' = [status EXCEPT ![i] = "failed"]
    /\ UNCHANGED subject

(* Several attempts are found to have been interrupted.                    *)
LoseTrack ==
    \E lost \in SUBSET Id :
        /\ lost # {}
        /\ \A i \in lost : status[i] = "trying"
        /\ status' = [i \in Id |-> IF i \in lost THEN "unknown" ELSE status[i]]
        /\ UNCHANGED subject

Next ==
    \/ \E m \in Message : Accept(m)
    \/ \E i \in Id : Try(i) \/ Conclude(i) \/ Drop(i)
    \/ LoseTrack

Spec == Init /\ [][Next]_cvars

=============================================================================
