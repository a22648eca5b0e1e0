------------------------------ MODULE MCConversation ------------------------------
(* A small instance of Conversation: three records, of which the second     *)
(* depends on the first, and two messages.                                  *)
EXTENDS Conversation, TLC

CONSTANTS k1, k2, t1, t2, t3

MCDependents == (t1 :> {t2}) @@ (t2 :> {t3}) @@ (t3 :> {})
MCMeaning ==
    (k1 :> {[kind |-> "move", refs |-> <<t2>>], [kind |-> "batch", refs |-> <<t2, t3>>]})
    @@ (k2 :> {[kind |-> "move", refs |-> <<t1>>], [kind |-> "status", refs |-> <<t3>>],
               [kind |-> "quantity", refs |-> <<t3>>], [kind |-> "talk", refs |-> <<t1>>],
               [kind |-> "update", refs |-> <<t2>>]})
=============================================================================
