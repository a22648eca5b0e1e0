--------------------------- MODULE ConversationChanges ---------------------------
(****************************************************************************)
(* What OG makes of a message that asks for a change: how it is classed,    *)
(* what it is bound to, and what the typed services leave in the store.     *)
(*                                                                          *)
(* A reading is what the model took a message for, [kind, refs]:            *)
(*   "move"      new dates for a task and all that depend on it             *)
(*   "status"    another status of a task; of a finished one a reopening    *)
(*   "complete", "change", "create"   a task is finished, edited, created   *)
(*   "stock"     a material's quantities or details, a delivery             *)
(*   "issue", "resolve"   an issue is changed or resolved                   *)
(*   "cancel"    a task is cancelled                                        *)
(*   "batch"     changes of several tasks in one message                    *)
(*   "purchase"  a request for material                                     *)
(*   "update"    a site update                                              *)
(*   "quantity"  "add 20 bags of cement": arrived, or to be ordered?        *)
(*   "talk"      a question about the project, answered with citations      *)
(****************************************************************************)
EXTENDS ConversationMemory, Sequences

TaskKind == {"move", "status", "complete", "change", "create", "cancel", "batch"}
Kind == TaskKind \cup {"stock", "issue", "resolve", "purchase", "update", "quantity", "talk"}
Mentions == UNION {[1 .. n -> Item] : n \in 1 .. Clauses}
Reading == [kind : Kind, refs : Mentions]

Memories == [exists : BOOLEAN, version : Nat, pending : Commands \cup {None},
             due : BOOLEAN, question : SUBSET Reading]

\* ActivityEvent, as far as a replay compares it.
Activities == [kind : Kind \cup {"largeMove", "approved", "confirmed"}, item : Item, on : Seen]

Subject(r) == r.refs[1]
Refs(r) == {r.refs[i] : i \in DOMAIN r.refs}

-----------------------------------------------------------------------------
(****************************************************************************)
(* Classing (_mutation_kind, schedule impact, MutationPolicyService).       *)
(****************************************************************************)
MutationKind(r) ==
    CASE r.kind = "status" -> IF items[Subject(r)].done THEN "reopen" ELSE "change"
      [] r.kind = "move"   -> IF Cardinality(Affected(Subject(r))) > LargeImpact
                              THEN "largeMove" ELSE "move"
      [] OTHER             -> r.kind

\* A permission the manager lacks denies the change; the rest is a table.
Policy(kind) ==
    CASE kind \in {"move", "reopen"}                   -> "confirmFirst"
      [] kind \in {"largeMove", "purchase", "cancel"} -> "approval"
      [] OTHER                                         -> "atOnce"

\* Where the conversation graph sends a message: an answer without a change,
\* the intake, a question of its own, or the typed tools.
Route(r) ==
    CASE r.kind = "talk"     -> "cite"
      [] r.kind = "update"   -> "submit"
      [] r.kind = "quantity" -> "ask"
      [] OTHER               -> "look"

\* The versions the composer binds a change to.
Observed(kind, r) == Versions(IF kind = "create" THEN {} ELSE Refs(r))

\* The answers that "add 20 bags of cement" leaves open.
Meanings(r) == {[r EXCEPT !.kind = "stock"], [r EXCEPT !.kind = "purchase"]}

-----------------------------------------------------------------------------
(****************************************************************************)
(* The typed services.  Each refuses a record that is not at the version    *)
(* OG composed the change on.                                               *)
(****************************************************************************)

\* TaskService: a task is finished after the ones it depends on; finishing it
\* again and editing a finished one are allowed.
TaskAllowed(kind, t) ==
    kind = "complete" => \A u \in Item : t \in Dependents[u] => items[u].done

TaskChanged(kind, t) ==
    CASE kind = "create"   -> items
      [] kind = "complete" -> [items EXCEPT ![t] = [version |-> @.version + 1, done |-> TRUE]]
      [] OTHER             -> Bumped({t})

\* MaterialService: whatever the operation, the material is saved once.
StockChanged(m) == Bumped({m})

\* IssueService
IssueChanged(kind, i) == [items EXCEPT ![i] =
    [version |-> @.version + 1, done |-> IF kind = "resolve" THEN TRUE ELSE @.done]]

Changed(kind, t) ==
    CASE kind = "stock"               -> StockChanged(t)
      [] kind \in {"issue", "resolve"} -> IssueChanged(kind, t)
      [] OTHER                        -> TaskChanged(kind, t)

-----------------------------------------------------------------------------
(****************************************************************************)
(* ActivityService.mutate under a message's own key: the first change is    *)
(* recorded with its effect in one transaction, the same one again is       *)
(* replayed, a key that stands for another is refused.                      *)
(****************************************************************************)
Activity(kind, t, on) == [kind |-> kind, item |-> t, on |-> on]

Recorded(k, i, activity, effect) ==
    /\ acts' = [acts EXCEPT ![k][i] = activity]
    /\ items' = effect
    /\ UNCHANGED <<memory, claims, moved>>

\* The fingerprint of a request for approval holds the versions it was made
\* on, the one of a routine change does not.
Replayed(k, i, activity) ==
    /\ acts[k][i] # None
    /\ acts[k][i].kind = activity.kind /\ acts[k][i].item = activity.item
    /\ activity.kind = "largeMove" => acts[k][i].on = activity.on

Mutated(k, i, activity, effect) ==
    IF acts[k][i] = None THEN Recorded(k, i, activity, effect) ELSE UNCHANGED store

Mutable(k, i, activity, allowed) ==
    IF acts[k][i] = None THEN allowed ELSE Replayed(k, i, activity)

\* continue_approved: an approved large move is applied once, on what the
\* approval was asked for, under a key of its own; otherwise it is refused.
Continuable(k) ==
    /\ acts[k][0] # None /\ acts[k][0].kind = "largeMove"
    /\ acts[k][Approved] = None
    /\ Covered(acts[k][0].on) = Affected(acts[k][0].item)
    /\ Current(acts[k][0].on)

Continued(k) ==
    /\ acts' = [acts EXCEPT ![k][Approved] = Activity("approved", acts[k][0].item, acts[k][0].on)]
    /\ items' = Bumped(Covered(acts[k][0].on))
    /\ moved' = [moved EXCEPT ![k] = @ + 1]
    /\ UNCHANGED <<memory, claims>>
=============================================================================
