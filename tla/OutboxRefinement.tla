-------------------------- MODULE OutboxRefinement --------------------------
(***************************************************************************)
(* The outbox implements the courier: leases and recoveries of rows that   *)
(* have not begun are stutters, and a row is tried from BeginSend on.      *)
(***************************************************************************)
EXTENDS Outbox

StatusOf(s) ==
    CASE s \in {"pending", "leased"} -> "queued"
      [] s = "sending"    -> "trying"
      [] s = "succeeded"  -> "delivered"
      [] s = "uncertain"  -> "unknown"
      [] s = "dead"       -> "failed"
      [] s = "superseded" -> "cancelled"
      [] OTHER            -> s

courier == INSTANCE Courier WITH
    Nothing <- Nobody,
    status  <- [i \in Id |-> StatusOf(state[i])],
    subject <- [i \in Id |-> row[i].of]

(* Whatever the workers, the clock and the network do, a user of the       *)
(* outbox sees rows tried once and in order, and outcomes that stay.       *)
ImplementsCourier == courier!Spec

=============================================================================
