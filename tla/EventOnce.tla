------------------------------ MODULE EventOnce ------------------------------
(***************************************************************************)
(* What the processed-event records promise to their users, stated on its  *)
(* own: a key is open until it is settled, it is settled once and for all, *)
(* it is settled as completed only by the call that holds it, and a call   *)
(* that has given a key up never holds one again.                          *)
(***************************************************************************)
CONSTANTS Key,      \* idempotency keys
          Call,     \* invocations of the worker, each holds at most one key
          None      \* no call

VARIABLES outcome,  \* outcome[k]: "open", "completed" or "dead_lettered"
          holder,   \* holder[k]: the call that holds k, or None
          credited, \* credited[k]: the call whose result k keeps, or None
          spent     \* the calls that hold or have held a key

vars == <<outcome, holder, credited, spent>>

Init ==
  /\ outcome = [k \in Key |-> "open"]
  /\ holder = [k \in Key |-> None]
  /\ credited = [k \in Key |-> None]
  /\ spent = {}

\* A fresh call takes an open key, from its holder if there is one.
Acquire(k, c) ==
  /\ outcome[k] = "open"
  /\ c \notin spent
  /\ holder' = [holder EXCEPT ![k] = c]
  /\ spent' = spent \cup {c}
  /\ UNCHANGED <<outcome, credited>>

\* The holder gives the key up and leaves it open.
Release(k) ==
  /\ holder[k] # None
  /\ holder' = [holder EXCEPT ![k] = None]
  /\ UNCHANGED <<outcome, credited, spent>>

\* The holder completes the key.
Complete(k) ==
  /\ outcome[k] = "open"
  /\ holder[k] # None
  /\ outcome' = [outcome EXCEPT ![k] = "completed"]
  /\ credited' = [credited EXCEPT ![k] = holder[k]]
  /\ holder' = [holder EXCEPT ![k] = None]
  /\ UNCHANGED spent

\* The key is given up for good, which only a key that was tried can be.
DeadLetter(k) ==
  /\ outcome[k] = "open"
  /\ spent # {}
  /\ outcome' = [outcome EXCEPT ![k] = "dead_lettered"]
  /\ holder' = [holder EXCEPT ![k] = None]
  /\ UNCHANGED <<credited, spent>>

Next == \E k \in Key :
  \/ \E c \in Call : Acquire(k, c)
  \/ Release(k)
  \/ Complete(k)
  \/ DeadLetter(k)

Spec == Init /\ [][Next]_vars
=============================================================================
