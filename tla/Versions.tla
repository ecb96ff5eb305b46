------------------------------ MODULE Versions ------------------------------
(***************************************************************************)
(* The versions that the source of a message gives to what it says of it:  *)
(* domain.SourceVersion, and the two decisions the store takes by them.    *)
(*                                                                         *)
(* "tie" stands for the fields Tie and Digest, which together tell two     *)
(* events apart; StreamEpoch is the same for every event of a source, as   *)
(* AcceptTelegramBatch admits no other, and is left out.  "order" is in    *)
(* the unit of its source: seconds for Telegram, milliseconds for          *)
(* WhatsApp, and 0 when the source gives none.                             *)
(***************************************************************************)
EXTENDS Integers

CONSTANT Tie

VersionKind == {"telegram.message", "wa.message", "wa.edit", "wa.revoke",
                "wa.reaction", "wa.system"}

Version == [kind : VersionKind, order : Nat, tie : Tie]

(* SourceVersion.Compare: what v is when w is there already.  Two events   *)
(* of one order are not ordered by anything.                               *)
Compare(v, w) ==
    IF v.kind # w.kind THEN "conflict"
    ELSE IF v.order < w.order THEN "older"
    ELSE IF v.order > w.order THEN "newer"
    ELSE IF v.tie # w.tie THEN "conflict"
    ELSE "same"

(* One look of applySource at a version it has.  Versions of one kind are  *)
(* compared; of two kinds only the numbers are, if both have one.          *)
Judge(v, old) ==
    IF v.kind = old.kind
    THEN CASE Compare(v, old) = "conflict" -> "conflict"
           [] Compare(v, old) = "newer"    -> "apply"
           [] OTHER                        -> "stale"
    ELSE IF v.order > 0 /\ old.order > 0 /\ v.order <= old.order
    THEN "stale" ELSE "apply"

(* Mutant: only the version of the part that the event names is asked.     *)
JudgePartOnly(v, part, effective) == Judge(v, part)

(* The version of the part is asked first, then the effective version of   *)
(* the message; the first that objects decides.                            *)
JudgeBoth(v, part, effective) ==
    IF Judge(v, part) = "apply" THEN Judge(v, effective) ELSE Judge(v, part)

=============================================================================
