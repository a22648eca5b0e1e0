------------------------------- MODULE Outbox -------------------------------
(***************************************************************************)
(* app/services/outbox.py: one event waiting in the transactional outbox   *)
(* and the callers that publish it.  OutboxService.process claims the      *)
(* message in one transaction, hands it to the publisher outside of any,   *)
(* and records the outcome in another.  Nothing keeps two callers, a user  *)
(* who submits again and the request that is still running, out of each    *)
(* other's way: this module is about what they leave behind together.      *)
(* The message is stored before its first caller; Intake adds the          *)
(* transaction that stores it together with the state it announces.        *)
(***************************************************************************)
EXTENDS Naturals, FiniteSets

CONSTANTS
  Caller,     \* invocations of process: bounds the retries
  ErrorCode   \* the exceptions a publisher raises

ASSUME OutboxAssumption == IsFiniteSet(Caller)

VARIABLES
  status,     \* the message's status
  processed,  \* whether it has a processed_at
  attempts,   \* how often it was claimed
  audited,    \* whether its callers pass an audit_context
  firestore,  \* whether the store is Firestore or the in-memory one
  audit,      \* the activities recorded about it, by phase
  topic,      \* the callers whose publication reached Pub/Sub
  pc,         \* pc[c]: how far caller c is
  error       \* error[c]: what its publisher raised

vars == <<status, processed, attempts, audited, firestore, audit, topic, pc, error>>

NoError == "none"

\* _record_activity: the phase, the attempt in its idempotency key or, for
\* "published", none (0), and the fields that a replay is compared on.
Activity(phase, key, attempt, code) ==
  [phase |-> phase, key |-> key, attempt |-> attempt, code |-> code]

SameIdentity(x, y) == x.phase = y.phase /\ x.key = y.key

\* The activity is looked up after the message was saved, which Firestore's
\* client refuses within one transaction.
LateRead == audited /\ firestore

\* The activity may be recorded: it is new or the one recorded before.
\* Otherwise ActivityIdempotencyConflict rolls the transaction back.
Recordable(x) == ~LateRead /\ \A y \in audit : SameIdentity(x, y) => x = y
Recorded(x) == IF audited THEN audit \cup {x} ELSE audit

Init ==
  /\ status = "pending"
  /\ processed = FALSE
  /\ attempts = 0
  /\ audited \in BOOLEAN
  /\ firestore \in BOOLEAN
  /\ audit = {}
  /\ topic = {}
  /\ pc = [c \in Caller |-> "idle"]
  /\ error = [c \in Caller |-> NoError]

-----------------------------------------------------------------------------
UncheckedSave(newStatus, newProcessed) == TRUE
\* The model's own check on every save: processed_at if and only if the status
\* is terminal.  A save that fails it is rolled back.
ValidSave(newStatus, newProcessed) == (newStatus = "completed") <=> newProcessed

Claimable == status # "completed"

\* _claim: a completed message is returned as it is.
AlreadyPublished(c) ==
  /\ pc[c] = "idle"
  /\ ~ Claimable
  /\ pc' = [pc EXCEPT ![c] = "succeeded"]
  /\ UNCHANGED <<status, processed, attempts, audited, firestore, audit, topic, error>>

\* _claim: otherwise it is claimed, whoever else is publishing it.
Claim(c) ==
  LET activity == Activity("claim", attempts + 1, attempts + 1, NoError) IN
  /\ pc[c] = "idle"
  /\ Claimable
  /\ Recordable(activity)
  /\ ValidSave("processing", processed)
  /\ status' = "processing"
  /\ attempts' = attempts + 1
  /\ audit' = Recorded(activity)
  /\ pc' = [pc EXCEPT ![c] = "publishing"]
  /\ UNCHANGED <<processed, audited, firestore, topic, error>>

\* _claim: where the activity cannot be looked up, process raises.
ClaimRefused(c) ==
  /\ pc[c] = "idle"
  /\ Claimable
  /\ LateRead
  /\ pc' = [pc EXCEPT ![c] = "rolled back"]
  /\ UNCHANGED <<status, processed, attempts, audited, firestore, audit, topic, error>>

\* The publisher returned: Pub/Sub has the event.
Publish(c) ==
  /\ pc[c] = "publishing"
  /\ topic' = topic \cup {c}
  /\ pc' = [pc EXCEPT ![c] = "published"]
  /\ UNCHANGED <<status, processed, attempts, audited, firestore, audit, error>>

\* The publisher raised; Pub/Sub may have the event all the same (the response
\* was lost or came after timeout_seconds).
Raise(c, code) ==
  /\ pc[c] = "publishing"
  /\ topic' \in {topic, topic \cup {c}}
  /\ error' = [error EXCEPT ![c] = code]
  /\ pc' = [pc EXCEPT ![c] = "raised"]
  /\ UNCHANGED <<status, processed, attempts, audited, firestore, audit>>

\* Saves the message of c with a new status and records it, or rolls back:
\* then process itself raises.
SaveOutcome(c, newStatus, newProcessed, activity, told) ==
  \/ /\ ValidSave(newStatus, newProcessed)
     /\ Recordable(activity)
     /\ status' = newStatus
     /\ processed' = newProcessed
     /\ audit' = Recorded(activity)
     /\ pc' = [pc EXCEPT ![c] = told]
     /\ UNCHANGED <<attempts, audited, firestore, topic, error>>
  \/ /\ ~ (ValidSave(newStatus, newProcessed) /\ Recordable(activity))
     /\ pc' = [pc EXCEPT ![c] = "rolled back"]
     /\ UNCHANGED <<status, processed, attempts, audited, firestore, audit, topic, error>>

\* _fail: it reads the message anew, but not whose claim it is, and keeps
\* its processed_at.
Fail(c) ==
  /\ pc[c] = "raised"
  /\ SaveOutcome(c, "failed", processed,
                 Activity("failure", attempts, attempts, error[c]), "failed")

\* _complete
CompleteEarly(c) ==
  /\ pc[c] \in {"publishing", "published"}
  /\ SaveOutcome(c, "completed", TRUE,
                 Activity("published", 0, attempts, NoError), "succeeded")
Complete(c) ==
  /\ pc[c] = "published"
  /\ SaveOutcome(c, "completed", TRUE,
                 Activity("published", 0, attempts, NoError), "succeeded")

\* The process dies with its request.
Crash(c) ==
  /\ pc[c] \in {"publishing", "published", "raised"}
  /\ pc' = [pc EXCEPT ![c] = "crashed"]
  /\ UNCHANGED <<status, processed, attempts, audited, firestore, audit, topic, error>>

Step(c) == Publish(c) \/ (\E code \in ErrorCode : Raise(c, code)) \/ Fail(c) \/ Complete(c)

Process(c) ==
  \/ AlreadyPublished(c)
  \/ Claim(c)
  \/ ClaimRefused(c)
  \/ Publish(c)
  \/ \E code \in ErrorCode : Raise(c, code)
  \/ Fail(c)
  \/ Complete(c)
  \/ Crash(c)

Next == \E c \in Caller : Process(c)

\* A request that was begun is carried through, unless its process dies; no
\* request has to come.
Fairness == \A c \in Caller : WF_vars(Step(c))

Spec == Init /\ [][Next]_vars /\ Fairness

-----------------------------------------------------------------------------
(* Properties *)

\* The message is well formed, and processed_at marks the completed ones
\* (OutboxMessage.validate_outbox).
TypeOK ==
  /\ status \in {"pending", "processing", "failed", "completed"}
  /\ processed = (status = "completed")
  /\ audited \in BOOLEAN /\ firestore \in BOOLEAN
  /\ attempts \in 0 .. Cardinality(Caller)
  /\ topic \subseteq Caller
  /\ pc \in [Caller -> {"idle", "publishing", "published", "raised", "succeeded",
                        "failed", "rolled back", "crashed"}]
  /\ error \in [Caller -> ErrorCode \cup {NoError}]

\* Whoever is told that the event is published, and the record that says so,
\* tell the truth, even when a caller's own publication failed.
SuccessMeansPublished ==
  (status = "completed" \/ \E c \in Caller : pc[c] = "succeeded") => topic # {}

\* The activity ledger tells the message's story: every claim once, no failure
\* before its claim, and the publication exactly when the message is completed,
\* under the last of the claims.
AuditTellsTheStory == audited =>
  /\ {x.key : x \in {y \in audit : y.phase = "claim"}} = 1 .. attempts
  /\ \A x \in audit : x.attempt <= attempts
  /\ {x.attempt : x \in {y \in audit : y.phase = "published"}}
       = IF status = "completed" THEN {attempts} ELSE {}

\* What callers are told and what the ledger says is what happened
\* (OutboxService.process under concurrent retries).
AnswersAreTrue == SuccessMeansPublished /\ AuditTellsTheStory

\* A late failure never takes a publication back: once completed, a message is
\* never claimed, failed or published again by a caller that comes after.
CompletedIsFinal ==
  [][status = "completed" =>
       /\ status' = "completed" /\ attempts' = attempts
       /\ \A c \in Caller : pc[c] = "idle" => pc'[c] \in {"idle", "succeeded"}]_vars
=============================================================================
