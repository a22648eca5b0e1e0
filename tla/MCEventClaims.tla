---------------------------- MODULE MCEventClaims ----------------------------
(* EventClaims for TLC: interchangeable calls and fingerprints. *)
EXTENDS EventClaims, TLC

Symm == Permutations(Call) \cup Permutations(Fingerprint)
=============================================================================
