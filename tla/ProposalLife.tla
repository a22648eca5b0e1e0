------------------------------ MODULE ProposalLife ------------------------------
(***************************************************************************)
(* What becomes of the proposals of a conversation, stated on its own: one *)
(* at a time is open or being confirmed; an open one can be reserved,      *)
(* cancelled or outlived; the project is changed for one that is being     *)
(* confirmed, once, and only then can that be confirmed; how a proposal    *)
(* was settled is final.                                                   *)
(***************************************************************************)
CONSTANT Key   \* the proposals, by the keys of the messages they answer

VARIABLES
    state,     \* state[k]: "none", "open", "confirming" or how k was settled
    changed    \* the proposals whose change has been made

vars == <<state, changed>>

Init ==
    /\ state = [k \in Key |-> "none"]
    /\ changed = {}

Settle(k, from, to) ==
    /\ state[k] = from
    /\ state' = [state EXCEPT ![k] = to]
    /\ UNCHANGED changed

\* A new proposal; the open one it finds has expired.
Propose(k) ==
    /\ state[k] = "none"
    /\ \A j \in Key : state[j] # "confirming"
    /\ state' = [j \in Key |-> IF j = k THEN "open"
                                ELSE IF state[j] = "open" THEN "expired" ELSE state[j]]
    /\ UNCHANGED changed

Cancel(k) == Settle(k, "open", "cancelled")
Expire(k) == Settle(k, "open", "expired")
Reserve(k) == Settle(k, "open", "confirming")

Change(k) ==
    /\ state[k] = "confirming"
    /\ k \notin changed
    /\ changed' = changed \cup {k}
    /\ UNCHANGED state

Confirm(k) == k \in changed /\ Settle(k, "confirming", "confirmed")
Refuse(k) == Settle(k, "confirming", "stale")

Next == \E k \in Key :
    \/ Propose(k) \/ Cancel(k) \/ Expire(k)
    \/ Reserve(k) \/ Change(k) \/ Confirm(k) \/ Refuse(k)

Spec == Init /\ [][Next]_vars
=============================================================================
