----------------------------- MODULE EventClaims -----------------------------
(***************************************************************************)
(* app/services/event_claims.py: the record                                *)
(* projects/{id}/processed_events/{idempotency_key}, by which the worker   *)
(* turns Pub/Sub's at-least-once deliveries into one settled outcome.      *)
(* Every operation of EventClaimService is one repository transaction, so  *)
(* each is one action.  A call is one invocation of process_event_async:   *)
(* it claims once, under a token of its own (the random token is modelled  *)
(* by the identity of the call), and may later complete or fail its claim. *)
(* A call that crashes or hangs is a call that takes no further action.    *)
(***************************************************************************)
EXTENDS Naturals, FiniteSets

CONSTANTS
  Key,           \* idempotency keys
  Fingerprint,   \* fingerprints of the immutable envelope fields
  Call,          \* invocations of the worker: bounds the deliveries
  None,          \* Python's None
  LeaseSeconds,  \* event_claim_lease_seconds, in ticks of the clock
  MaxAttempts,   \* event_claim_max_attempts
  MaxTime        \* bound on the clock

ASSUME ClaimsAssumption ==
  /\ LeaseSeconds \in Nat \ {0}
  /\ MaxAttempts \in Nat \ {0}
  /\ MaxTime \in Nat
  /\ None \notin Call
  /\ None \notin Fingerprint

ASSUME CallsAssumption == IsFiniteSet(Call)

VARIABLES
  record,    \* record[k]: the processed event stored under k
  event,     \* event[c]: the envelope delivered to call c
  pc,        \* pc[c]: how far call c is
  deadline,  \* deadline[c]: the lease expiry that call c was given
  now        \* the clock

vars == <<record, event, pc, deadline, now>>

Event == [key : Key, fp : Fingerprint]

Settled == {"completed", "dead_lettered"}
Status == {"absent", "claimed", "failed"} \cup Settled

Record == [status : Status, fp : Fingerprint \cup {None},
           token : Call \cup {None}, lease : Nat, attempts : Nat,
           result : Call \cup {None}]

NoRecord == [status |-> "absent", fp |-> None, token |-> None, lease |-> 0,
             attempts |-> 0, result |-> None]

\* What the call was told, once its claim was acquired: "owner" until it
\* settles, "lost" when it learns that the claim is no longer its own.
Acquired == {"owner", "completed", "failed", "rejected", "lost"}
\* What the call was told when its claim was not acquired.
TurnedAway == {"busy", "duplicate", "buried", "conflict"}

K(c) == event[c].key

Init ==
  /\ record = [k \in Key |-> NoRecord]
  /\ event \in [Call -> Event]
  /\ pc = [c \in Call |-> "new"]
  /\ deadline = [c \in Call |-> 0]
  /\ now = 0

-----------------------------------------------------------------------------
(* EventClaimService.claim *)

LeaseIgnored(r) == FALSE
\* A live claim: the lease expires strictly after now.
LeaseLive(r) == r.status = "claimed" /\ r.lease > now

AnyEvent(c) == TRUE
SameEvent(c) == record[K(c)].fp = event[c].fp

\* The claim is given to c, as its attempt number n.
Grant(c, n) ==
  /\ record' = [record EXCEPT ![K(c)] =
       [status |-> "claimed", fp |-> event[c].fp, token |-> c,
        lease |-> now + LeaseSeconds, attempts |-> n, result |-> None]]
  /\ pc' = [pc EXCEPT ![c] = "owner"]
  /\ deadline' = [deadline EXCEPT ![c] = now + LeaseSeconds]
  /\ UNCHANGED <<event, now>>

\* The claim is not given: the call returns with what it was told.
TurnAway(c, told) ==
  /\ pc' = [pc EXCEPT ![c] = told]
  /\ UNCHANGED <<record, event, deadline, now>>

ClaimFirst(c) ==
  /\ pc[c] = "new"
  /\ record[K(c)].status = "absent"
  /\ Grant(c, 1)

ClaimConflict(c) ==
  /\ pc[c] = "new"
  /\ record[K(c)].status # "absent"
  /\ ~ SameEvent(c)
  /\ TurnAway(c, "conflict")

ClaimSettled(c) ==
  /\ pc[c] = "new"
  /\ SameEvent(c)
  /\ \/ record[K(c)].status = "completed" /\ TurnAway(c, "duplicate")
     \/ record[K(c)].status = "dead_lettered" /\ TurnAway(c, "buried")

ClaimBusy(c) ==
  /\ pc[c] = "new"
  /\ SameEvent(c)
  /\ LeaseLive(record[K(c)])
  /\ TurnAway(c, "busy")

\* A record whose last attempt failed or whose lease ran out.
Claimable(c) ==
  /\ pc[c] = "new"
  /\ SameEvent(c)
  /\ record[K(c)].status \in {"claimed", "failed"}
  /\ ~ LeaseLive(record[K(c)])

\* The budget is spent: nobody settled the last attempt, so claim does.
ClaimExhausted(c) ==
  /\ Claimable(c)
  /\ record[K(c)].attempts >= MaxAttempts
  /\ record' = [record EXCEPT ![K(c)].status = "dead_lettered",
                              ![K(c)].token = None, ![K(c)].lease = 0]
  /\ pc' = [pc EXCEPT ![c] = "buried"]
  /\ UNCHANGED <<event, deadline, now>>

ClaimRetryUncounted(c) ==
  /\ Claimable(c)
  /\ record[K(c)].attempts < MaxAttempts
  /\ Grant(c, record[K(c)].attempts)
ClaimRetry(c) ==
  /\ Claimable(c)
  /\ record[K(c)].attempts < MaxAttempts
  /\ Grant(c, record[K(c)].attempts + 1)

Claim(c) ==
  \/ ClaimFirst(c)
  \/ ClaimConflict(c)
  \/ ClaimSettled(c)
  \/ ClaimBusy(c)
  \/ ClaimExhausted(c)
  \/ ClaimRetry(c)

-----------------------------------------------------------------------------
(* EventClaimService.complete and EventClaimService.fail *)

ActiveClaimAnyToken(c) == LeaseLive(record[K(c)])
\* _require_active_claim
ActiveClaim(c) ==
  /\ LeaseLive(record[K(c)])
  /\ record[K(c)].token = c

\* InvalidEventClaim: the call learns that it lost the claim.
Refused(c) ==
  /\ pc[c] = "owner"
  /\ ~ ActiveClaim(c)
  /\ TurnAway(c, "lost")

Complete(c) ==
  /\ pc[c] = "owner"
  /\ ActiveClaim(c)
  /\ record' = [record EXCEPT ![K(c)].status = "completed", ![K(c)].result = c,
                              ![K(c)].token = None, ![K(c)].lease = 0]
  /\ pc' = [pc EXCEPT ![c] = "completed"]
  /\ UNCHANGED <<event, deadline, now>>

FailStatusEarly(c, terminal) ==
  IF terminal \/ record[K(c)].attempts + 1 >= MaxAttempts
    THEN "dead_lettered" ELSE "failed"
\* A failure is final when it is terminal or the budget is spent.
FailStatus(c, terminal) ==
  IF terminal \/ record[K(c)].attempts >= MaxAttempts
    THEN "dead_lettered" ELSE "failed"

FailKeepsToken(c, terminal) ==
  /\ pc[c] = "owner"
  /\ ActiveClaim(c)
  /\ record' = [record EXCEPT ![K(c)].status = FailStatus(c, terminal)]
  /\ pc' = [pc EXCEPT ![c] = IF terminal THEN "rejected" ELSE "failed"]
  /\ UNCHANGED <<event, deadline, now>>
Fail(c, terminal) ==
  /\ pc[c] = "owner"
  /\ ActiveClaim(c)
  /\ record' = [record EXCEPT ![K(c)].status = FailStatus(c, terminal),
                              ![K(c)].token = None, ![K(c)].lease = 0]
  /\ pc' = [pc EXCEPT ![c] = IF terminal THEN "rejected" ELSE "failed"]
  /\ UNCHANGED <<event, deadline, now>>

Tick ==
  /\ now < MaxTime
  /\ now' = now + 1
  /\ UNCHANGED <<record, event, pc, deadline>>

Next ==
  \/ Tick
  \/ \E c \in Call :
       \/ Claim(c)
       \/ Complete(c)
       \/ \E terminal \in BOOLEAN : Fail(c, terminal)
       \/ Refused(c)

Spec == Init /\ [][Next]_vars

-----------------------------------------------------------------------------
(* Properties *)

\* The record and the local state of the calls are well formed; a claimed
\* record has an owner token and a completed one a result, and no other record
\* has either (ProcessedEvent.validate_completion).
TypeOK ==
  /\ record \in [Key -> Record]
  /\ event \in [Call -> Event]
  /\ pc \in [Call -> {"new"} \cup Acquired \cup TurnedAway]
  /\ deadline \in [Call -> Nat]
  /\ now \in Nat
  /\ \A k \in Key : /\ (record[k].status = "claimed") <=> (record[k].token # None)
                    /\ (record[k].status = "completed") <=> (record[k].result # None)

\* While the lease a call was given lasts, the claim is that call's alone, so
\* no other call can acquire, complete, fail or bury the event under it: a
\* worker that finishes within its lease always gets to settle the event.
LeaseIsExclusive ==
  \A c \in Call : (pc[c] = "owner" /\ now < deadline[c])
    => /\ record[K(c)].status = "claimed"
       /\ record[K(c)].token = c
       /\ record[K(c)].lease = deadline[c]

\* Every claim that was ever given is counted in the record, whoever took it
\* and whatever became of it, and no more than MaxAttempts are given.
AttemptsCountClaims ==
  \A k \in Key :
    /\ record[k].attempts = Cardinality({c \in Call : K(c) = k /\ pc[c] \in Acquired})
    /\ record[k].attempts <= MaxAttempts

\* An event is buried only with cause: a call reported a terminal failure, or
\* the whole budget was spent and no call completed it.
BuriedWithCause ==
  \A k \in Key : record[k].status = "dead_lettered" =>
    \/ \E c \in Call : K(c) = k /\ pc[c] = "rejected"
    \/ record[k].attempts = MaxAttempts

\* A reused idempotency key never reaches a worker as another event: all the
\* calls that ever owned a key were delivered the same envelope.
OwnersAgreeOnEvent ==
  \A c, d \in Call :
    (K(c) = K(d) /\ pc[c] \in Acquired /\ pc[d] \in Acquired)
      => event[c].fp = event[d].fp

\* A settled record never changes again: a replay, a late worker or an
\* exhausted claim leaves the outcome and its result as they were.
SettledIsFinal ==
  [][\A k \in Key : record[k].status \in Settled => record'[k] = record[k]]_vars

\* The claim records implement EventOnce: an event is settled once, and
\* completed only by the call that holds it.
Once == INSTANCE EventOnce WITH
  outcome <- [k \in Key |->
                IF record[k].status \in Settled THEN record[k].status ELSE "open"],
  holder <- [k \in Key |-> record[k].token],
  credited <- [k \in Key |-> record[k].result],
  spent <- {c \in Call : pc[c] \in Acquired}

ImplementsOnce == Once!Spec
=============================================================================
