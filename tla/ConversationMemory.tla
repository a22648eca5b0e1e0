---------------------------- MODULE ConversationMemory ----------------------------
(****************************************************************************)
(* What a conversation with OG keeps for one manager of one project:        *)
(* ConversationMemory with its single slot for a proposal that waits for    *)
(* the manager's confirmation, the claims (ConversationProposalClaim) that  *)
(* say how each proposal ended, the activity ledger that makes a change     *)
(* idempotent, and the records a change is applied to.  Every operator      *)
(* below reads the store or says what one transaction leaves in it; the     *)
(* calls that run the transactions are in module Conversation.              *)
(*                                                                          *)
(* A Key is the Idempotency-Key of a message: the proposal's id and the     *)
(* activity's id are digests of it (and of the project and the actor).      *)
(* Signatures, permissions and the policy table are left out: a command is  *)
(* sealed and checked by the same server, with the same table.  A           *)
(* reservation's random attempt id is left out too: a key is claimed once,  *)
(* so that all that hold the claim hold the same attempt.                   *)
(****************************************************************************)
EXTENDS Naturals, FiniteSets

CONSTANTS
    Key,          \* the idempotency keys of messages
    Item,         \* the records a message can be about
    Dependents,   \* Dependents[t]: the tasks that name t as a dependency
    LargeImpact,  \* a change that moves more tasks than this needs an approval (3)
    Fresh,        \* TRUE: the manager has never talked to OG, no memory exists yet
    Firestore,    \* TRUE: the store is Firestore; FALSE: the in-memory one
    None

ASSUME MemoryAssumption ==
    /\ Dependents \in [Item -> SUBSET Item]
    /\ LargeImpact \in Nat
    /\ Fresh \in BOOLEAN
    /\ Firestore \in BOOLEAN
    /\ None \notin Key \cup Nat

VARIABLES
    memory,   \* ConversationMemory: [exists, version, pending, due, question]
    claims,   \* claims[k]: None, or how the proposal k was consumed
    acts,     \* acts[k]: the activities under key k, by slot (see below)
    items,    \* items[t]: [version, done]
    moved     \* history: how often the new dates of message k were applied

store == <<memory, claims, acts, items, moved>>

-----------------------------------------------------------------------------
\* The versions of the records somebody has read, and the records it covers.
Seen == [Item -> Nat \cup {None}]
Covered(seen) == {t \in Item : seen[t] # None}

\* PendingConversationCommand: a sealed proposal.  Only what has to be confirmed
\* first becomes one.
Commands == [key : Key, kind : {"move", "reopen"}, task : Item, memory : Nat, seen : Seen]

\* ConversationProposalClaim; a reservation notes the version it was made on.
Claims == [outcome : {"confirming", "confirmed", "stale", "cancelled", "expired"},
           command : Commands, reviewed : Nat \cup {None}]

-----------------------------------------------------------------------------
\* The activities a key can stand for: the message's own change (slot 0), the
\* clauses of a batch ("key:task:0", ...) and an approved move's.
Clauses == 2   \* the clauses of a batch that are told apart
Approved == Clauses + 1
Slot == 0 .. Approved

(****************************************************************************)
(* The schedule impact: t and every unfinished task downstream of it.       *)
(****************************************************************************)
Affected(t) ==
    LET Closed(S) == \A u \in S : \A d \in Dependents[u] : items[d].done \/ d \in S
    IN  {u \in Item : \A S \in SUBSET Item : t \in S /\ Closed(S) => u \in S}

Versions(S) == [t \in Item |-> IF t \in S THEN items[t].version ELSE None]

Bumped(S) == [t \in Item |-> IF t \in S THEN [items[t] EXCEPT !.version = @ + 1] ELSE items[t]]

\* What a schedule proposal is bound to: the versions of all it moves.
Proposed(t) == Versions(Affected(t))

\* A proposal as it is sealed: the change, what it is bound to and the version
\* of the memory it was made on.
Command(k, kind, t) ==
    [key |-> k, kind |-> kind, task |-> t, memory |-> memory.version,
     seen |-> IF kind = "move" THEN Proposed(t) ELSE Versions({t})]

\* The target state is still the one the manager was shown.
Current(seen) == Versions(Covered(seen)) = seen

Pending(k) == memory.pending # None /\ memory.pending.key = k

-----------------------------------------------------------------------------
(****************************************************************************)
(* Writing the memory.  repository.create stores version 0 and save adds    *)
(* one: the first write leaves the version a reader of the absent memory    *)
(* has seen.                                                                *)
(****************************************************************************)
Written(m) ==
    [m EXCEPT !.exists = TRUE, !.version = IF memory.exists THEN memory.version + 1 ELSE 0]

\* Mutant: a copy is written back whatever has been written meanwhile.
SaveableUncompared(m) == TRUE

\* save with the version the copy was read at; the first write compares none.
Saveable(m) == memory.exists => memory.version = m.version

\* A copy of the memory is written back.  It is time, not the record, that says
\* whether the proposal in it is past its fifteen minutes.
Saved(m) ==
    /\ memory' = [Written(m) EXCEPT !.due = memory.due /\ m.pending # None]
    /\ UNCHANGED <<claims, acts, items, moved>>

\* What remember_reference, remember_pending and clear_active_clarification
\* make of the memory they have read: a citation, one question, none.
WithCitation == memory
WithQuestion(answers) == [memory EXCEPT !.question = answers]
WithoutQuestion == [memory EXCEPT !.question = {}]

\* Mutant: the slot is emptied and the expiry of what it held stays behind.
EmptiedButDue == [Written(memory) EXCEPT !.pending = None]

\* The slot as every settling transaction leaves it.
Emptied == [Written(memory) EXCEPT !.pending = None, !.due = FALSE]

Claimed(k, outcome, cmd, reviewed) ==
    [claims EXCEPT ![k] = [outcome |-> outcome, command |-> cmd, reviewed |-> reviewed]]

Outcome(k) == IF claims[k] = None THEN "none" ELSE claims[k].outcome

\* _expire_pending_in_session: a reserved or consumed proposal is not expired. The
\* activity is looked up after the claim was created, a read after a write that
\* Firestore's client refuses.
Expirable == memory.pending # None /\ memory.due
                /\ Outcome(memory.pending.key) \in (IF Firestore THEN {} ELSE {"none"}) \cup {"expired"}

Expired == IF Outcome(memory.pending.key) = "expired" THEN claims
           ELSE Claimed(memory.pending.key, "expired", memory.pending, None)

-----------------------------------------------------------------------------
(****************************************************************************)
(* The transactions.  Each is a guard and the store it leaves; a refused    *)
(* one raises and leaves the store as it was.                               *)
(****************************************************************************)

\* remember_command: the memory is the one the proposal was made on, and the
\* slot is free or holds a proposal that is past its fifteen minutes.
Rememberable(cmd) ==
    /\ Outcome(cmd.key) = "none"
    /\ memory.version = cmd.memory
    /\ memory.pending = None \/ Expirable

Remembered(cmd) ==
    /\ memory' = [Written(memory) EXCEPT !.pending = cmd, !.due = FALSE]
    /\ claims' = IF memory.pending = None THEN claims ELSE Expired
    /\ UNCHANGED <<acts, items, moved>>

\* Mutant: a proposal that is being confirmed can be cleared.
ClearableEvenReserved(k, v) ==
    /\ Outcome(k) \in {"none", "confirming"}
    /\ memory.version = v
    /\ Pending(k)

\* clear_command: a claimed proposal is left to its claim.
Clearable(k, v) ==
    /\ Outcome(k) = "none"
    /\ memory.version = v
    /\ Pending(k)

Cleared(k) ==
    /\ memory' = Emptied
    /\ claims' = Claimed(k, "cancelled", memory.pending, None)
    /\ UNCHANGED <<acts, items, moved>>

\* begin_confirmation; the receipt of an earlier reservation is replayed
\* without a look at the memory.
Reservable(cmd, v) ==
    IF Outcome(cmd.key) \in {"confirming", "confirmed", "stale"}
    THEN claims[cmd.key].command = cmd
    ELSE Outcome(cmd.key) = "none" /\ memory.version = v /\ memory.pending = cmd

Reserved(cmd, v) ==
    /\ claims' = IF claims[cmd.key] # None THEN claims
                 ELSE Claimed(cmd.key, "confirming", cmd, v)
    /\ UNCHANGED <<memory, acts, items, moved>>

\* _validate_confirmation_fence, in the transaction that applies the change.
Fenced(cmd) == Outcome(cmd.key) = "confirming" /\ claims[cmd.key].command = cmd

\* _apply: the same tasks are affected, at the versions that were reviewed.
\* A confirmed reopening is refused by TaskService: it is no human correction.
Applicable(cmd) ==
    cmd.kind = "move" /\ Covered(cmd.seen) = Affected(cmd.task) /\ Current(cmd.seen)

Applied(cmd) ==
    /\ items' = Bumped(Covered(cmd.seen))
    /\ acts' = [acts EXCEPT ![cmd.key][0] =
                    [kind |-> "confirmed", item |-> cmd.task, on |-> Proposed(cmd.task)]]
    /\ moved' = [moved EXCEPT ![cmd.key] = @ + 1]
    /\ UNCHANGED <<memory, claims>>

\* _matches_confirmation: the activity under the key is this confirmation's.
ConfirmedActivity(k) ==
    /\ acts[k][0] # None
    /\ acts[k][0].kind = "confirmed"

\* complete_confirmation and abort_confirmation end a reservation and free
\* the slot together.
Endable(cmd) == Fenced(cmd) /\ memory.pending = cmd

Ended(cmd, outcome) ==
    /\ memory' = Emptied
    /\ claims' = [claims EXCEPT ![cmd.key].outcome = outcome]
    /\ UNCHANGED <<acts, items, moved>>
=============================================================================
