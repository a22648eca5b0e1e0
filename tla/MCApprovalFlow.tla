--------------------------- MODULE MCApprovalFlow ---------------------------
(* ApprovalFlow for TLC: interchangeable approvals. *)
EXTENDS ApprovalFlow, TLC

Symm == Permutations(Approval)
=============================================================================
