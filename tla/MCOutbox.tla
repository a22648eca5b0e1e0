------------------------------ MODULE MCOutbox ------------------------------
(* Intake and its outbox message for TLC: two attachments, of which the      *)
(* second body names one and the first both.                                 *)
EXTENDS Intake, TLC

CONSTANTS f1, f2, b1, b2

Callers == Permutations(Caller)

MCFiles == (b1 :> {f1, f2}) @@ (b2 :> {f1})
=============================================================================
