------------------------------ MODULE MCWorker ------------------------------
(* Worker for TLC: two messages, of one event or of two under one key, or     *)
(* (MCWorkerReclaim.cfg) a single message.  No symmetry: the properties are   *)
(* temporal.                                                                  *)
EXTENDS Worker
=============================================================================
