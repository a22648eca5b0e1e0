------------------------------- MODULE Conversation -------------------------------
(****************************************************************************)
(* The calls of the conversation API, run by any number of service          *)
(* instances for one manager: messages (POST messages), confirmations and   *)
(* cancellations of proposals (POST and DELETE proposals/{id}), each cut    *)
(* where it awaits a model or starts another transaction, together with     *)
(* what happens around them: other people edit tasks, proposals get old,    *)
(* instances die.                                                           *)
(*                                                                          *)
(* A message's text is fixed by its key, the model's reading of it is not:  *)
(* Meaning[k] holds what it may be taken for, and every call that asks      *)
(* chooses again.                                                           *)
(****************************************************************************)
EXTENDS ConversationChanges

CONSTANTS
    Call,         \* requests in flight at a time
    Meaning,      \* Meaning[k]: the readings of the message with key k
    MaxTurns,     \* bound on messages
    MaxEdits,     \* bound on edits of tasks by others
    MaxMishaps    \* bound on instances that die

ASSUME ConversationAssumption ==
    /\ Meaning \in [Key -> SUBSET Reading]
    /\ None \notin Reading \cup Commands \cup Claims \cup Activities
    /\ MaxTurns \in Nat /\ MaxEdits \in Nat /\ MaxMishaps \in Nat

VARIABLES
    calls,   \* calls[c]: Idle, or where a request stands and what it has read
    spent    \* the bounded events so far: [turns, edits, mishaps]

vars == <<store, calls, spent>>

Idle == [at |-> "idle"]
In(c, places) == calls[c].at \in places
Go(c, call) == calls' = [calls EXCEPT ![c] = call]
Move(c, place) == Go(c, [calls[c] EXCEPT !.at = place])
End(c) == Go(c, Idle)
Spend(what, bound) == spent[what] < bound /\ spent' = [spent EXCEPT ![what] = @ + 1]

\* A transaction that is refused raises, and the call ends in an error.
Try(c, allowed, effect, next) ==
    /\ IF allowed THEN effect /\ next ELSE UNCHANGED store /\ End(c)
    /\ UNCHANGED spent

Init ==
    /\ memory = [exists |-> ~Fresh, version |-> 0, pending |-> None, due |-> FALSE, question |-> {}]
    /\ claims = [k \in Key |-> None]
    /\ acts = [k \in Key |-> [i \in Slot |-> None]]
    /\ items = [t \in Item |-> [version |-> 0, done |-> FALSE]]
    /\ moved = [k \in Key |-> 0]
    /\ calls = [c \in Call |-> Idle]
    /\ spent = [turns |-> 0, edits |-> 0, mishaps |-> 0]

-----------------------------------------------------------------------------
(****************************************************************************)
(* A message.  Its handler has loaded the memory: a question that is still  *)
(* open makes the message its answer.                                       *)
(****************************************************************************)
Message(c, k) ==
    /\ calls[c] = Idle
    /\ Spend("turns", MaxTurns)
    /\ Go(c, [at |-> IF memory.question = {} THEN "classify" ELSE "answer", key |-> k,
              reading |-> None, seen |-> memory.question, clause |-> 0])
    /\ UNCHANGED store

\* The resolver takes the text for one of the answers the question allows, or
\* for none; a question past its fifteen minutes is dropped with the message.
Answer(c) ==
    /\ In(c, {"answer"})
    /\ \/ \E r \in calls[c].seen : Go(c, [calls[c] EXCEPT !.at = "clear", !.reading = r])
       \/ Move(c, "clear")
       \/ End(c)
    /\ UNCHANGED <<store, spent>>

\* The intent classifier routes the message; an unclear one changes nothing.
Classify(c) ==
    /\ In(c, {"classify"})
    /\ \/ \E r \in Meaning[calls[c].key] :
             Go(c, [calls[c] EXCEPT
                       !.at = Route(r),
                       !.reading = IF Route(r) = "submit" THEN r ELSE None,
                       !.seen = IF Route(r) = "ask" THEN Meanings(r) ELSE {}])
       \/ End(c)
    /\ UNCHANGED <<store, spent>>

(****************************************************************************)
(* remember_reference, remember_pending and clear_active_clarification:     *)
(* the memory is read, and written in a transaction of its own that only    *)
(* compares versions.                                                       *)
(****************************************************************************)
AfterClearing(c) == IF calls[c].reading = None THEN End(c) ELSE Move(c, "look")

Load(c) ==
    /\ In(c, {"cite", "ask", "clear"})
    /\ LET new == CASE In(c, {"cite"})  -> WithCitation
                    [] In(c, {"ask"})   -> WithQuestion(calls[c].seen)
                    [] In(c, {"clear"}) -> WithoutQuestion
       IN  IF new = memory /\ ~In(c, {"cite"})
           THEN IF In(c, {"clear"}) THEN AfterClearing(c) ELSE End(c)
           ELSE Go(c, [calls[c] EXCEPT !.at = IF @ = "clear" THEN "saveAndAct" ELSE "save",
                                       !.seen = new])
    /\ UNCHANGED <<store, spent>>

Save(c) ==
    /\ In(c, {"save", "saveAndAct"})
    /\ Try(c, Saveable(calls[c].seen), Saved(calls[c].seen),
           IF In(c, {"save"}) THEN End(c) ELSE AfterClearing(c))

-----------------------------------------------------------------------------
(****************************************************************************)
(* ConversationActionExecutionService.execute.                              *)
(****************************************************************************)

\* A message sent again is answered with its proposal; what another message
\* has left in the slot is looked at when the new proposal is stored, except
\* that an old one is cleared first.
Look(c) ==
    /\ In(c, {"look"})
    /\ IF Pending(calls[c].key) THEN End(c)
       ELSE IF memory.pending # None /\ memory.due
       THEN Go(c, [calls[c] EXCEPT !.at = "evict",
                       !.seen = [key |-> memory.pending.key, version |-> memory.version]])
       ELSE Move(c, "interpret")
    /\ UNCHANGED <<store, spent>>

Evict(c) ==
    /\ In(c, {"evict"})
    /\ LET old == calls[c].seen
       IN  Try(c, Clearable(old.key, old.version), Cleared(old.key), Move(c, "interpret"))

\* The interpreter's reading, or the one an answer has given; a malformed
\* reading changes nothing.
Interpret(c) ==
    /\ In(c, {"interpret"})
    /\ \/ \E r \in IF calls[c].reading # None THEN {calls[c].reading}
                   ELSE {m \in Meaning[calls[c].key] : Route(m) = "look"} :
             Go(c, [calls[c] EXCEPT !.at = IF r.kind = "batch" THEN "composeBatch" ELSE "compose",
                                    !.reading = r])
       \/ calls[c].reading = None /\ End(c)
    /\ UNCHANGED <<store, spent>>

\* The resolver names one record, the composer's checks let the change pass.
\* It is bound to what was read and sent where its class belongs; otherwise the
\* manager is asked to say it again and nothing is kept.
Bound(c, kind, place) ==
    Go(c, [calls[c] EXCEPT !.at = place, !.reading.kind = kind,
                           !.seen = Observed(kind, calls[c].reading)])
Unresolved(c) == End(c)
Invalid(c) == End(c)

Compose(c) ==
    /\ In(c, {"compose"})
    /\ LET r == calls[c].reading
           kind == MutationKind(r)
       IN  \/ Unresolved(c) \/ Invalid(c)
           \/ /\ Policy(kind) = "confirmFirst"
              /\ Go(c, [calls[c] EXCEPT !.at = "remember",
                             !.seen = Command(calls[c].key, kind, Subject(r))])
           \/ Policy(kind) = "atOnce" /\ Bound(c, kind, "apply")
           \/ kind = "purchase" /\ Bound(c, kind, "purchase")
           \/ kind = "largeMove" /\ Bound(c, kind, "escalate")
           \/ kind = "cancel" /\ End(c)
    /\ UNCHANGED <<store, spent>>

\* The clauses of a batch are resolved and composed together; one that is
\* unclear leaves the whole batch behind as a question.
ComposeBatch(c) ==
    /\ In(c, {"composeBatch"})
    /\ \/ Bound(c, "batch", "recheck")
       \/ Go(c, [calls[c] EXCEPT !.at = "ask", !.seen = {calls[c].reading}])
       \/ Invalid(c)
    /\ UNCHANGED <<store, spent>>

Remember(c) ==
    /\ In(c, {"remember"})
    /\ Try(c, Rememberable(calls[c].seen), Remembered(calls[c].seen), End(c))

\* Every task of a batch is read again before its first change is applied.
Recheck(c) ==
    /\ In(c, {"recheck"})
    /\ IF Current(calls[c].seen)
       THEN Go(c, [calls[c] EXCEPT !.at = "apply", !.clause = 1]) ELSE End(c)
    /\ UNCHANGED <<store, spent>>

\* One routine change under a key: k's own, or that of its i-th clause.
Routine(c, i, kind, t, next) ==
    LET k == calls[c].key
        activity == Activity(kind, t, Versions({t}))
    IN  Try(c, /\ kind = "create" \/ items[t].version = calls[c].seen[t]
               /\ Mutable(k, i, activity, TaskAllowed(kind, t)),
            Mutated(k, i, activity, Changed(kind, t)), next)

ApplyChange(c) ==
    /\ In(c, {"apply"}) /\ calls[c].clause = 0
    /\ Routine(c, 0, calls[c].reading.kind, Subject(calls[c].reading), End(c))

ApplyClause(c) ==
    /\ In(c, {"apply"}) /\ calls[c].clause > 0
    /\ LET i == calls[c].clause
           refs == calls[c].reading.refs
       IN  Routine(c, i, "change", refs[i],
                   IF i < Len(refs) THEN Go(c, [calls[c] EXCEPT !.clause = @ + 1]) ELSE End(c))

\* A message's one activity that leaves every record as it is.
Handoff(c, activity, allowed) ==
    Try(c, Mutable(calls[c].key, 0, activity, allowed),
        Mutated(calls[c].key, 0, activity, items), End(c))

\* prepare_purchase: the request, its approval and a run that waits for it.
PreparePurchase(c) ==
    /\ In(c, {"purchase"})
    /\ LET m == Subject(calls[c].reading)
       IN  Handoff(c, Activity("purchase", m, Versions({m})), items[m].version = calls[c].seen[m])

\* prepare: the approval of a large move holds what it affects now.
Escalate(c) ==
    /\ In(c, {"escalate"})
    /\ LET t == Subject(calls[c].reading)
       IN  IF Cardinality(Affected(t)) > LargeImpact
           THEN Handoff(c, Activity("largeMove", t, Proposed(t)), TRUE)
           ELSE End(c) /\ UNCHANGED <<store, spent>>

\* submit: the site update, its run and its event in the outbox.
Submit(c) ==
    /\ In(c, {"submit"})
    /\ Handoff(c, Activity("update", Subject(calls[c].reading), Versions({})), TRUE)

\* The approval of a large move has been granted and its event is handled.
ContinueApproved(k) == Continuable(k) /\ Continued(k) /\ UNCHANGED <<calls, spent>>

-----------------------------------------------------------------------------
(****************************************************************************)
(* ConversationConfirmationService.confirm, with the memory version the     *)
(* client was given with the proposal.                                      *)
(****************************************************************************)

\* Mutant: the resumed confirmation asks for an unchanged memory.
ResumableUnlessDrifted(k, v) ==
    Outcome(k) = "confirming" /\ claims[k].reviewed = v /\ memory.version = v /\ Pending(k)

\* A reservation is taken up again by the request that made it, whatever has
\* happened to the memory's version and to the proposal's fifteen minutes.
Resumable(k, v) == Outcome(k) = "confirming" /\ claims[k].reviewed = v /\ Pending(k)

Confirm(c, k, v) ==
    /\ calls[c] = Idle
    /\ \/ Pending(k) /\ claims[k] = None /\ Go(c, [at |-> "due", key |-> k, version |-> v])
       \/ /\ Resumable(k, v)
          /\ Go(c, [at |-> "dispatch", key |-> k, version |-> v, seen |-> memory.pending])
    /\ UNCHANGED <<store, spent>>

\* expire_command_if_due
Due(c) ==
    /\ In(c, {"due"})
    /\ LET v == calls[c].version
       IN  IF Pending(calls[c].key) /\ (memory.version # v \/ memory.due)
           THEN Try(c, memory.version = v /\ Expirable,
                    memory' = Emptied /\ claims' = Expired /\ UNCHANGED <<acts, items, moved>>,
                    End(c))
           ELSE Move(c, "require") /\ UNCHANGED <<store, spent>>

\* require_command
Require(c) ==
    /\ In(c, {"require"})
    /\ IF /\ Pending(calls[c].key) /\ memory.version = calls[c].version
          /\ ~memory.due /\ Current(memory.pending.seen)
       THEN Go(c, [at |-> "reserve", key |-> calls[c].key, version |-> calls[c].version,
                   seen |-> memory.pending])
       ELSE End(c)
    /\ UNCHANGED <<store, spent>>

Reserve(c) ==
    /\ In(c, {"reserve"})
    /\ LET cmd == calls[c].seen
       IN  Try(c, Reservable(cmd, calls[c].version), Reserved(cmd, calls[c].version),
               Move(c, "dispatch"))

\* _dispatch: the change, its activity and the fence in one transaction.  An
\* activity of another change under the key ends the reservation, any other
\* refusal first asks whether the change has been made after all.
Dispatch(c) ==
    /\ In(c, {"dispatch"})
    /\ LET cmd == calls[c].seen
           act == acts[cmd.key][0]
       IN  \/ /\ Fenced(cmd) /\ act = None /\ Applicable(cmd)
              /\ Applied(cmd)
              /\ Move(c, "complete")
           \/ /\ Fenced(cmd) /\ act # None /\ cmd.kind = "move"
              /\ Move(c, IF ConfirmedActivity(cmd.key) THEN "complete" ELSE "abort")
              /\ UNCHANGED store
           \/ /\ ~Fenced(cmd) \/ cmd.kind # "move" \/ (act = None /\ ~Applicable(cmd))
              /\ Move(c, "lookup")
              /\ UNCHANGED store
    /\ UNCHANGED spent

Lookup(c) ==
    /\ In(c, {"lookup"})
    /\ Move(c, IF ConfirmedActivity(calls[c].seen.key) THEN "complete" ELSE "abort")
    /\ UNCHANGED <<store, spent>>

Finish(c) ==
    /\ In(c, {"complete", "abort"})
    /\ LET cmd == calls[c].seen
       IN  Try(c, Endable(cmd),
               Ended(cmd, IF In(c, {"complete"}) THEN "confirmed" ELSE "stale"), End(c))

\* cancel_proposal looks at the claim first; a cancelled one is answered again.
Cancel(c, k, v) ==
    /\ calls[c] = Idle
    /\ Pending(k) /\ claims[k] = None
    /\ Go(c, [at |-> "cancel", key |-> k, version |-> v])
    /\ UNCHANGED <<store, spent>>

ClearProposal(c) ==
    /\ In(c, {"cancel"})
    /\ Try(c, Clearable(calls[c].key, calls[c].version), Cleared(calls[c].key), End(c))

-----------------------------------------------------------------------------
\* Fifteen minutes pass.  A message is answered in much less: none of the
\* proposal's own key is in flight.
Expire ==
    /\ memory.pending # None /\ ~memory.due
    /\ \A c \in Call : calls[c] # Idle /\ calls[c].key = memory.pending.key
                          => In(c, {"due", "require", "reserve", "dispatch", "lookup",
                                    "complete", "abort", "cancel"})
    /\ memory' = [memory EXCEPT !.due = TRUE]
    /\ UNCHANGED <<claims, acts, items, moved, calls, spent>>

\* Others edit, finish or reopen a task.
Edit(t) ==
    /\ Spend("edits", MaxEdits)
    /\ \E d \in BOOLEAN : items' = [items EXCEPT ![t] = [version |-> @.version + 1, done |-> d]]
    /\ UNCHANGED <<memory, claims, acts, moved, calls>>

\* The instance dies, or the request is cut off at its time limit.
Die(c) ==
    /\ calls[c] # Idle
    /\ Spend("mishaps", MaxMishaps)
    /\ End(c)
    /\ UNCHANGED store

Step(c) ==
    \/ Answer(c) \/ Classify(c) \/ Load(c) \/ Save(c)
    \/ Look(c) \/ Evict(c) \/ Interpret(c) \/ Compose(c) \/ ComposeBatch(c) \/ Remember(c)
    \/ Recheck(c) \/ ApplyChange(c) \/ ApplyClause(c)
    \/ PreparePurchase(c) \/ Escalate(c) \/ Submit(c)
    \/ Due(c) \/ Require(c) \/ Reserve(c) \/ Dispatch(c) \/ Lookup(c) \/ Finish(c)
    \/ ClearProposal(c)

\* The versions of the memory that a client can hold with the open proposal.
Shown == IF memory.pending = None THEN {} ELSE memory.pending.memory .. memory.version

Next ==
    \/ \E c \in Call, k \in Key : Message(c, k)
    \/ \E c \in Call, k \in Key, v \in Shown : Confirm(c, k, v) \/ Cancel(c, k, v)
    \/ \E c \in Call : Step(c) \/ Die(c)
    \/ \E k \in Key : ContinueApproved(k)
    \/ Expire
    \/ \E t \in Item : Edit(t)

\* The client that was not told how its confirmation ended sends it again, with
\* the version it was shown (the proposal card stays open after an error).
Resend ==
    /\ memory.pending # None
    /\ Outcome(memory.pending.key) = "confirming"
    /\ \E c \in Call : Confirm(c, memory.pending.key, claims[memory.pending.key].reviewed)

\* A request that is not cut off is answered, and a client that can send its
\* confirmation again does.
Fairness == SF_vars(Resend) /\ \A c \in Call : WF_vars(Step(c))

Spec == Init /\ [][Next]_vars /\ Fairness

-----------------------------------------------------------------------------
\* The state has its shape; only a proposal in the slot can be past its time,
\* and a proposal in the slot is unclaimed or being confirmed.
TypeOK ==
    /\ memory \in Memories
    /\ memory.pending # None => /\ memory.pending.memory <= memory.version
                                /\ Outcome(memory.pending.key) \in {"none", "confirming"}
    /\ memory.due => memory.pending # None
    /\ claims \in [Key -> Claims \cup {None}]
    /\ \A k \in Key : claims[k] # None => claims[k].command.key = k
    /\ acts \in [Key -> [Slot -> Activities \cup {None}]]
    /\ items \in [Item -> [version : Nat, done : BOOLEAN]]
    /\ moved \in [Key -> Nat]

\* What the manager is told about a proposal is what happened: a confirmed one
\* has changed the project, once; for a message whose proposal was cancelled,
\* has expired or still waits, only an approved large move can have.
\* (A stale one says nothing: of two confirmations with one reservation, the one
\* that is refused may call stale what the other has done after its refusal.)
OutcomeMatchesChange ==
    \A k \in Key :
        /\ moved[k] <= 1
        /\ Outcome(k) = "confirmed" => moved[k] = 1
        /\ Outcome(k) \in {"none", "cancelled", "expired"} /\ moved[k] = 1
              => acts[k][Approved] # None

\* The new dates were given to the tasks, and the versions of them, that the
\* manager or the approver had been shown, whoever has edited them in between.
ChangedAsReviewed ==
    \A k \in Key : moved[k] > 0 =>
        \/ /\ acts[k][0] # None /\ acts[k][0].kind = "confirmed"
           /\ claims[k] # None /\ acts[k][0].on = claims[k].command.seen
        \/ acts[k][Approved] # None /\ acts[k][Approved].on = acts[k][0].on

\* A proposal that is being confirmed keeps the slot until it is decided.
ReservedKeepsTheSlot ==
    \A k \in Key : Outcome(k) = "confirming" => memory.pending = claims[k].command

\* Proposals end truthfully (ConversationConfirmationService.confirm,
\* clear_command, expire_command_if_due, under every interleaving of
\* messages, confirmations, cancellations and edits).
ProposalsEndTruthfully == OutcomeMatchesChange /\ ChangedAsReviewed /\ ReservedKeepsTheSlot

\* A proposal leaves the slot when it is settled, never behind the manager's back
\* (README.md:194: version checks "prevent silent last-write-wins").
NoSilentOverwrite ==
    [][\A k \in Key : Pending(k) /\ memory'.pending # memory.pending
          => Outcome(k)' \in {"confirmed", "stale", "cancelled", "expired"}]_vars

-----------------------------------------------------------------------------
\* What becomes of the proposals: a claim tells how one ended, and one without
\* a claim is open as long as it is in the slot.
ProposalState == [k \in Key |-> IF claims[k] # None THEN claims[k].outcome
                                ELSE IF Pending(k) THEN "open" ELSE "none"]
ConfirmedKeys == {k \in Key : ConfirmedActivity(k)}

Life == INSTANCE ProposalLife WITH state <- ProposalState, changed <- ConfirmedKeys

\* The calls, in every interleaving, make of a proposal what ProposalLife says:
\* one at a time is open or reserved, it is settled once, and the project is
\* changed between its reservation and its receipt.
ImplementsLife == Life!Spec

\* A confirmation that was cut off between its reservation and its receipt is
\* decided in the end, if the client repeats it as it was sent.
ReservationEnds == \A k \in Key : Outcome(k) = "confirming" ~> Outcome(k) # "confirming"
=============================================================================
