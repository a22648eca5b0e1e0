-------------------------- MODULE EventClaimsProofs --------------------------
(***************************************************************************)
(* Theorems about EventClaims, for any sets of keys, fingerprints and      *)
(* calls, any lease and any budget of attempts.                            *)
(***************************************************************************)
EXTENDS EventClaims, FiniteSetTheorems, TLAPS

\* What the records and the calls always agree on: a record that exists was
\* claimed by some call, every call that acquired a key was delivered the
\* event the record was made for, the budget is never exceeded, and a record
\* is buried only with cause.
Agreement ==
  /\ \A k \in Key : record[k].status # "absent" =>
       \E c \in Call : K(c) = k /\ pc[c] \in Acquired
  /\ \A c \in Call : pc[c] \in Acquired =>
       /\ record[K(c)].status # "absent"
       /\ record[K(c)].fp = event[c].fp
  /\ \A k \in Key : record[k].attempts <= MaxAttempts

IInv == TypeOK /\ LeaseIsExclusive /\ Agreement /\ BuriedWithCause

\* Every step of the claims is one of four changes of a single record, or
\* changes no record: the proofs below go through these cases.
ClaimStep(c) == Claim(c) \/ Complete(c) \/ Refused(c)
                  \/ \E terminal \in BOOLEAN : Fail(c, terminal)

LEMMA KeyOfCall ==
  ASSUME TypeOK, NEW c \in Call
  PROVE  K(c) \in Key /\ event[c].fp \in Fingerprint
  BY DEF TypeOK, K, Event

LEMMA InitIInv == Init => IInv
  BY ClaimsAssumption DEF Init, IInv, TypeOK, LeaseIsExclusive, Agreement,
     BuriedWithCause, NoRecord, Record, Status, Settled, Acquired, TurnedAway, K

\* Type correctness is preserved by every step.
LEMMA TypeStep == ASSUME TypeOK, [Next]_vars PROVE TypeOK'
<1> USE ClaimsAssumption DEF TypeOK, Record, Status, Settled, Acquired, TurnedAway
<1>1. CASE UNCHANGED vars
  BY <1>1 DEF vars
<1>2. CASE Tick
  BY <1>2 DEF Tick
<1>3. ASSUME NEW c \in Call, ClaimStep(c) PROVE TypeOK'
  <2>k. K(c) \in Key /\ event[c].fp \in Fingerprint /\ record[K(c)] \in Record
    BY KeyOfCall
  <2>1. ASSUME NEW told \in TurnedAway \cup {"lost"}, TurnAway(c, told) PROVE TypeOK'
    BY <2>1 DEF TurnAway
  <2>2. ASSUME NEW n \in Nat, Grant(c, n) PROVE TypeOK'
    BY <2>2, <2>k DEF Grant
  <2>3. CASE Claim(c)
    BY <2>1, <2>2, <2>3, <2>k DEF Claim, ClaimFirst, ClaimConflict, ClaimSettled,
       ClaimBusy, ClaimExhausted, ClaimRetry, Claimable
  <2>4. CASE Complete(c)
    BY <2>4, <2>k DEF Complete, ActiveClaim, LeaseLive
  <2>5. CASE \E terminal \in BOOLEAN : Fail(c, terminal)
    BY <2>5, <2>k DEF Fail, FailStatus, ActiveClaim, LeaseLive
  <2>6. CASE Refused(c)
    BY <2>6, <2>1 DEF Refused
  <2>7. QED BY <1>3, <2>3, <2>4, <2>5, <2>6 DEF ClaimStep
<1>4. QED BY <1>1, <1>2, <1>3 DEF Next, ClaimStep

\* The processed-event records and the calls keep their types, and exactly
\* the claimed records have an owner.
THEOREM TypeCorrect == Spec => []TypeOK
<1>1. Init => TypeOK
  BY InitIInv DEF IInv
<1>2. QED BY <1>1, TypeStep, PTL DEF Spec

-----------------------------------------------------------------------------
\* The owner of a live claim settles it: the record ends, keeps its event and
\* its attempts, and no other record and no other call changes.
Settles(c) ==
  /\ pc[c] = "owner" /\ record[K(c)].token = c /\ record[K(c)].status = "claimed"
  /\ \A k \in Key : k # K(c) => record'[k] = record[k]
  /\ record'[K(c)].status \in {"completed", "failed", "dead_lettered"}
  /\ record'[K(c)].fp = record[K(c)].fp
  /\ record'[K(c)].attempts = record[K(c)].attempts
  /\ pc'[c] \in {"completed", "failed", "rejected"}
  /\ \A d \in Call : d # c => pc'[d] = pc[d]
  /\ UNCHANGED <<event, deadline, now>>

LEMMA Settlement ==
  ASSUME TypeOK, NEW c \in Call, Complete(c) \/ \E terminal \in BOOLEAN : Fail(c, terminal)
  PROVE  Settles(c)
<1>1. K(c) \in Key /\ record[K(c)] \in Record  BY KeyOfCall DEF TypeOK
<1>2. CASE Complete(c)
  BY <1>1, <1>2 DEF Complete, ActiveClaim, LeaseLive, Settles, TypeOK, Record
<1>3. ASSUME NEW terminal \in BOOLEAN, Fail(c, terminal) PROVE Settles(c)
  <2>1. FailStatus(c, terminal) \in {"failed", "dead_lettered"}  BY DEF FailStatus
  <2>. QED BY <1>1, <1>3, <2>1 DEF Fail, ActiveClaim, LeaseLive, Settles, TypeOK, Record
<1>. QED BY <1>2, <1>3

\* While a lease lasts nothing but its owner's own settlement touches the
\* record, because claim refuses a live record and the settling operations
\* compare the token.
LEMMA ExclusiveStep ==
  ASSUME TypeOK, LeaseIsExclusive, [Next]_vars
  PROVE  LeaseIsExclusive'
<1> SUFFICES ASSUME NEW d \in Call, pc'[d] = "owner", now' < deadline'[d]
             PROVE  /\ record'[K(d)'].status = "claimed"
                    /\ record'[K(d)'].token = d
                    /\ record'[K(d)'].lease = deadline'[d]
  BY DEF LeaseIsExclusive
<1> USE ClaimsAssumption DEF TypeOK, Record, LeaseIsExclusive, K
<1>1. CASE UNCHANGED vars
  BY <1>1 DEF vars
<1>2. CASE Tick
  BY <1>2 DEF Tick
<1>3. ASSUME NEW c \in Call, ClaimStep(c)
      PROVE  /\ record'[K(d)'].status = "claimed"
             /\ record'[K(d)'].token = d
             /\ record'[K(d)'].lease = deadline'[d]
  <2>k. K(c) \in Key /\ K(d) \in Key /\ record[K(c)] \in Record
    BY KeyOfCall
  <2>1. ASSUME NEW told, told # "owner", TurnAway(c, told), pc[c] = "new" \/ pc[c] = "owner"
        PROVE  /\ record'[K(d)'].status = "claimed"
               /\ record'[K(d)'].token = d
               /\ record'[K(d)'].lease = deadline'[d]
    BY <2>1 DEF TurnAway
  <2>2. ASSUME NEW n \in Nat, Grant(c, n), ~ LeaseLive(record[K(c)])
        PROVE  /\ record'[K(d)'].status = "claimed"
               /\ record'[K(d)'].token = d
               /\ record'[K(d)'].lease = deadline'[d]
    BY <2>2, <2>k DEF Grant, LeaseLive
  <2>3. CASE Claim(c)
    <3>1. CASE ClaimFirst(c)
      BY <3>1, <2>2, <2>k DEF ClaimFirst, LeaseLive
    <3>2. CASE ClaimRetry(c)
      BY <3>2, <2>2, <2>k DEF ClaimRetry, Claimable
    <3>3. CASE ClaimExhausted(c)
      <4>1. d # c /\ pc[d] = "owner" /\ now < deadline[d] /\ K(d)' = K(d)
        BY <3>3 DEF ClaimExhausted, Claimable
      <4>2. LeaseLive(record[K(d)])  BY <4>1 DEF LeaseLive
      <4>3. K(d) # K(c)  BY <3>3, <4>2 DEF ClaimExhausted, Claimable
      <4>4. record'[K(d)] = record[K(d)] /\ deadline' = deadline
        BY <3>3, <2>k, <4>3 DEF ClaimExhausted
      <4>. QED BY <4>1, <4>4
    <3>4. CASE ClaimConflict(c) \/ ClaimSettled(c) \/ ClaimBusy(c)
      BY <3>4, <2>1 DEF ClaimConflict, ClaimSettled, ClaimBusy
    <3>5. QED BY <2>3, <3>1, <3>2, <3>3, <3>4 DEF Claim
  <2>s. ASSUME Settles(c)
        PROVE  /\ record'[K(d)'].status = "claimed"
               /\ record'[K(d)'].token = d
               /\ record'[K(d)'].lease = deadline'[d]
    <3>1. d # c /\ pc[d] = "owner" /\ now < deadline[d] /\ K(d)' = K(d)  BY <2>s DEF Settles
    <3>2. record[K(d)].token = d  BY <3>1
    <3>3. K(d) # K(c)  BY <2>s, <3>1, <3>2 DEF Settles
    <3>. QED BY <2>s, <2>k, <3>1, <3>3 DEF Settles
  <2>4. CASE Complete(c)
    BY <2>4, <2>s, Settlement
  <2>5. CASE \E terminal \in BOOLEAN : Fail(c, terminal)
    BY <2>5, <2>s, Settlement
  <2>6. CASE Refused(c)
    BY <2>6, <2>1 DEF Refused
  <2>7. QED BY <1>3, <2>3, <2>4, <2>5, <2>6 DEF ClaimStep
<1>4. QED BY <1>1, <1>2, <1>3 DEF Next, ClaimStep

\* A call stays acquired once it is, and it acquires only the record of its
\* own event; the attempts only grow under the budget.
LEMMA AgreementStep ==
  ASSUME TypeOK, Agreement, [Next]_vars
  PROVE  Agreement'
<1> USE ClaimsAssumption DEF TypeOK, Record, Status, Settled, Agreement, Acquired, K
<1>1. CASE UNCHANGED vars
  BY <1>1 DEF vars
<1>2. CASE Tick
  BY <1>2 DEF Tick
<1>3. ASSUME NEW c \in Call, ClaimStep(c) PROVE Agreement'
  <2>k. K(c) \in Key /\ record[K(c)] \in Record /\ record[K(c)].attempts \in Nat
    BY KeyOfCall
  <2>1. ASSUME NEW told \in TurnedAway, TurnAway(c, told), pc[c] = "new" PROVE Agreement'
    BY <2>1 DEF TurnAway, TurnedAway
  <2>2. ASSUME NEW n \in Nat, Grant(c, n), n <= MaxAttempts, pc[c] = "new",
               record[K(c)].status = "absent" \/ SameEvent(c)
        PROVE  Agreement'
    BY <2>2, <2>k DEF Grant, SameEvent
  <2>3. CASE ClaimFirst(c)
    BY <2>3, <2>2 DEF ClaimFirst
  <2>4. CASE ClaimRetry(c)
    BY <2>4, <2>2, <2>k DEF ClaimRetry, Claimable
  <2>5. CASE ClaimExhausted(c)
    <3>1. /\ pc' = [pc EXCEPT ![c] = "buried"] /\ UNCHANGED event /\ pc[c] = "new"
          /\ \A k \in Key : /\ record[k].status = "absent" <=> record'[k].status = "absent"
                            /\ record'[k].fp = record[k].fp
                            /\ record'[k].attempts = record[k].attempts
      <4>1. record[K(c)].status \in {"claimed", "failed"}  BY <2>5 DEF ClaimExhausted, Claimable
      <4>2. /\ record'[K(c)].status = "dead_lettered" /\ record'[K(c)].fp = record[K(c)].fp
            /\ record'[K(c)].attempts = record[K(c)].attempts
            /\ \A k \in Key : k # K(c) => record'[k] = record[k]
        BY <2>5, <2>k DEF ClaimExhausted
      <4>. QED BY <2>5, <4>1, <4>2 DEF ClaimExhausted, Claimable
    <3>2. \A d \in Call : pc[d] \in Acquired <=> pc'[d] \in Acquired
      BY <3>1
    <3>3. \A d \in Call : K(d) \in Key
      BY KeyOfCall
    <3>4. QED BY <3>1, <3>2, <3>3
  <2>6. CASE ClaimConflict(c) \/ ClaimSettled(c) \/ ClaimBusy(c)
    BY <2>6, <2>1 DEF ClaimConflict, ClaimSettled, ClaimBusy, TurnedAway
  <2>s. ASSUME Settles(c) PROVE Agreement'
    <3>1. \A d \in Call : K(d) \in Key /\ K(d)' = K(d)  BY <2>s, KeyOfCall DEF Settles
    <3>2. \A k \in Key : /\ record[k].status = "absent" <=> record'[k].status = "absent"
                         /\ record'[k].fp = record[k].fp
                         /\ record'[k].attempts = record[k].attempts
      BY <2>s, <2>k DEF Settles
    <3>3. \A d \in Call : pc[d] \in Acquired <=> pc'[d] \in Acquired  BY <2>s DEF Settles
    <3>. QED BY <2>s, <3>1, <3>2, <3>3 DEF Settles
  <2>7. CASE Complete(c)
    BY <2>7, <2>s, Settlement
  <2>8. CASE \E terminal \in BOOLEAN : Fail(c, terminal)
    BY <2>8, <2>s, Settlement
  <2>9. CASE Refused(c)
    BY <2>9 DEF Refused, TurnAway
  <2>10. QED BY <1>3, <2>3, <2>4, <2>5, <2>6, <2>7, <2>8, <2>9 DEF ClaimStep, Claim
<1>4. QED BY <1>1, <1>2, <1>3 DEF Next, ClaimStep

\* The cause for which a record was buried stays, while the record and the
\* calls that reported a terminal failure stay.
LEMMA CauseKept ==
  ASSUME BuriedWithCause, NEW k \in Key, record'[k] = record[k], event' = event,
         record'[k].status = "dead_lettered",
         \A d \in Call : pc[d] = "rejected" => pc'[d] = "rejected"
  PROVE  \/ \E c \in Call : event'[c].key = k /\ pc'[c] = "rejected"
         \/ record'[k].attempts = MaxAttempts
  BY DEF BuriedWithCause, K

\* Only two steps bury a record: claim, once the budget is spent, and fail,
\* on a terminal failure or on the last attempt.
LEMMA BuriedStep ==
  ASSUME TypeOK, Agreement, BuriedWithCause, [Next]_vars
  PROVE  BuriedWithCause'
<1> SUFFICES ASSUME NEW k \in Key, record'[k].status = "dead_lettered"
             PROVE  \/ \E c \in Call : event'[c].key = k /\ pc'[c] = "rejected"
                    \/ record'[k].attempts = MaxAttempts
  BY DEF BuriedWithCause, K
<1> USE ClaimsAssumption DEF TypeOK, Record, K
<1>1. CASE UNCHANGED vars \/ Tick
  BY <1>1, CauseKept DEF vars, Tick
<1>3. ASSUME NEW c \in Call, ClaimStep(c)
      PROVE  \/ \E d \in Call : event'[d].key = k /\ pc'[d] = "rejected"
             \/ record'[k].attempts = MaxAttempts
  <2>k. /\ K(c) \in Key /\ record[K(c)] \in Record
        /\ record[K(c)].attempts \in Nat /\ record[K(c)].attempts <= MaxAttempts
    BY KeyOfCall DEF Agreement
  <2>1. ASSUME NEW told, TurnAway(c, told), pc[c] # "rejected"
        PROVE  \/ \E d \in Call : event'[d].key = k /\ pc'[d] = "rejected"
               \/ record'[k].attempts = MaxAttempts
    BY <2>1, CauseKept DEF TurnAway
  <2>2. ASSUME NEW n, Grant(c, n), pc[c] # "rejected"
        PROVE  \/ \E d \in Call : event'[d].key = k /\ pc'[d] = "rejected"
               \/ record'[k].attempts = MaxAttempts
    BY <2>2, <2>k, CauseKept DEF Grant
  <2>3. CASE ClaimFirst(c) \/ ClaimRetry(c)
    BY <2>3, <2>2 DEF ClaimFirst, ClaimRetry, Claimable
  <2>4. CASE ClaimExhausted(c)
    <3>1. CASE k = K(c)
      <4>1. record[K(c)].attempts >= MaxAttempts /\ record'[k].attempts = record[K(c)].attempts
        BY <2>4, <2>k, <3>1 DEF ClaimExhausted
      <4>2. record[K(c)].attempts = MaxAttempts
        BY <4>1, <2>k
      <4>3. QED BY <4>1, <4>2
    <3>2. CASE k # K(c)
      <4>1. record'[k] = record[k]
        BY <2>4, <2>k, <3>2 DEF ClaimExhausted
      <4>2. \A d \in Call : pc[d] = "rejected" => pc'[d] = "rejected"
        BY <2>4 DEF ClaimExhausted, Claimable
      <4>3. event' = event
        BY <2>4 DEF ClaimExhausted
      <4>4. QED BY <4>1, <4>2, <4>3, CauseKept
    <3>3. QED BY <3>1, <3>2
  <2>5. CASE ClaimConflict(c) \/ ClaimSettled(c) \/ ClaimBusy(c) \/ Refused(c)
    BY <2>5, <2>1 DEF ClaimConflict, ClaimSettled, ClaimBusy, Refused
  <2>6. CASE Complete(c)
    BY <2>6, <2>k, CauseKept DEF Complete
  <2>7. CASE \E terminal \in BOOLEAN : Fail(c, terminal)
    <3>1. PICK terminal \in BOOLEAN : Fail(c, terminal)
      BY <2>7
    <3>2. CASE k = K(c)
      <4>1. record'[k].status = FailStatus(c, terminal)
            /\ record'[k].attempts = record[k].attempts
        BY <3>1, <3>2, <2>k DEF Fail
      <4>2. CASE terminal
        <5>1. pc'[c] = "rejected" /\ UNCHANGED event
          BY <3>1, <4>2 DEF Fail
        <5>2. QED BY <5>1, <3>2
      <4>3. CASE ~ terminal
        <5> HIDE DEF TypeOK, Record
        <5>1. record[K(c)].attempts >= MaxAttempts
          BY <4>1, <4>3, <3>2 DEF FailStatus
        <5>2. record[K(c)].attempts = MaxAttempts
          BY <5>1, <2>k
        <5>3. QED BY <4>1, <5>2, <3>2
      <4>4. QED BY <4>2, <4>3
    <3>3. CASE k # K(c)
      <4>1. record'[k] = record[k]
        BY <3>1, <2>k, <3>3 DEF Fail
      <4>2. \A d \in Call : pc[d] = "rejected" => pc'[d] = "rejected"
        BY <3>1 DEF Fail
      <4>3. event' = event
        BY <3>1 DEF Fail
      <4>4. QED BY <4>1, <4>2, <4>3, CauseKept
    <3>4. QED BY <3>2, <3>3
  <2>8. QED BY <1>3, <2>3, <2>4, <2>5, <2>6, <2>7 DEF ClaimStep, Claim
<1>4. QED BY <1>1, <1>3 DEF Next, ClaimStep

LEMMA Invariance == Spec => []IInv
<1>1. IInv /\ [Next]_vars => IInv'
  BY TypeStep, ExclusiveStep, AgreementStep, BuriedStep DEF IInv
<1>2. QED BY InitIInv, <1>1, PTL DEF Spec

\* A call that was given a lease keeps the record to itself until the lease
\* runs out, whatever the other deliveries do.
THEOREM Exclusive == Spec => []LeaseIsExclusive
  BY Invariance, PTL DEF IInv

\* An event is dead-lettered only on a terminal failure or on a spent budget.
THEOREM BuriedOnlyWithCause == Spec => []BuriedWithCause
  BY Invariance, PTL DEF IInv

\* All calls that ever owned a key were delivered the same envelope.
THEOREM SameEnvelope == Spec => []OwnersAgreeOnEvent
<1>1. IInv => OwnersAgreeOnEvent
  BY DEF IInv, Agreement, OwnersAgreeOnEvent
<1>2. QED BY Invariance, <1>1, PTL

-----------------------------------------------------------------------------
\* The calls that ever acquired a key.
Claimants == [k \in Key |-> {c \in Call : K(c) = k /\ pc[c] \in Acquired}]

LEMMA FiniteClaimants ==
  ASSUME NEW k \in Key
  PROVE  IsFiniteSet(Claimants[k]) /\ Cardinality(Claimants[k]) \in Nat
<1>1. Claimants[k] \in SUBSET Call
  BY DEF Claimants
<1>2. QED BY <1>1, CallsAssumption, FS_Subset, FS_CardinalityType

\* A claim is given to one more call and counted, or no call joins and no
\* record's count is changed.
LEMMA ClaimantsMove ==
  ASSUME TypeOK, Agreement, [Next]_vars
  PROVE  \/ Claimants' = Claimants /\ \A k \in Key : record'[k].attempts = record[k].attempts
         \/ \E c \in Call :
              /\ pc[c] \notin Acquired /\ K(c) \in Key
              /\ Claimants' = [Claimants EXCEPT ![K(c)] = @ \cup {c}]
              /\ record'[K(c)].attempts = IF Claimants[K(c)] = {} THEN 1
                                         ELSE record[K(c)].attempts + 1
              /\ \A k \in Key \ {K(c)} : record'[k].attempts = record[k].attempts
<1> DEFINE Same == Claimants' = Claimants /\ \A k \in Key : record'[k].attempts = record[k].attempts
           Counted(c) ==
              /\ pc[c] \notin Acquired /\ K(c) \in Key
              /\ Claimants' = [Claimants EXCEPT ![K(c)] = @ \cup {c}]
              /\ record'[K(c)].attempts = IF Claimants[K(c)] = {} THEN 1
                                         ELSE record[K(c)].attempts + 1
              /\ \A k \in Key \ {K(c)} : record'[k].attempts = record[k].attempts
<1>1. ASSUME event' = event, \A k \in Key : record'[k].attempts = record[k].attempts,
             \A d \in Call : pc[d] \in Acquired <=> pc'[d] \in Acquired
      PROVE  Same
  BY <1>1 DEF Claimants, K
<1>2. ASSUME NEW c \in Call, NEW n \in Nat, Grant(c, n), pc[c] = "new",
             n = IF Claimants[K(c)] = {} THEN 1 ELSE record[K(c)].attempts + 1
      PROVE  Counted(c)
  <2>1. K(c) \in Key /\ pc[c] \notin Acquired /\ event' = event
    BY <1>2, KeyOfCall DEF Grant, Acquired
  <2>2. \A d \in Call : pc'[d] \in Acquired <=> d = c \/ pc[d] \in Acquired
    BY <1>2 DEF Grant, Acquired, TypeOK
  <2>3. Claimants' = [Claimants EXCEPT ![K(c)] = @ \cup {c}]
    BY <2>1, <2>2 DEF Claimants, K
  <2>4. /\ record'[K(c)].attempts = n
        /\ \A k \in Key \ {K(c)} : record'[k] = record[k]
    BY <1>2, <2>1 DEF Grant, TypeOK
  <2>5. QED BY <1>2, <2>1, <2>3, <2>4
<1>3. CASE UNCHANGED vars \/ Tick
  BY <1>1, <1>3 DEF vars, Tick
<1>4. ASSUME NEW c \in Call, ClaimStep(c) PROVE Same \/ Counted(c)
  <2>k. K(c) \in Key /\ record[K(c)].attempts \in Nat
    BY KeyOfCall DEF TypeOK, Record
  <2>1. CASE ClaimFirst(c)
    <3>1. Claimants[K(c)] = {}
      BY <2>1, <2>k DEF ClaimFirst, Claimants, Agreement
    <3>2. QED BY <1>2, <2>1, <3>1 DEF ClaimFirst
  <2>2. CASE ClaimRetry(c)
    <3>1. Claimants[K(c)] # {}
      BY <2>2, <2>k DEF ClaimRetry, Claimable, Claimants, Agreement
    <3>2. QED BY <1>2, <2>2, <2>k, <3>1 DEF ClaimRetry, Claimable
  <2>3. CASE ClaimConflict(c) \/ ClaimSettled(c) \/ ClaimBusy(c) \/ Refused(c)
    <3>1. record' = record /\ event' = event
      BY <2>3 DEF ClaimConflict, ClaimSettled, ClaimBusy, Refused, TurnAway
    <3>2. \A d \in Call : pc[d] \in Acquired <=> pc'[d] \in Acquired
      BY <2>3 DEF ClaimConflict, ClaimSettled, ClaimBusy, Refused, TurnAway, Acquired, TypeOK
    <3>3. QED BY <1>1, <3>1, <3>2
  <2>4. CASE ClaimExhausted(c) \/ Complete(c) \/ \E terminal \in BOOLEAN : Fail(c, terminal)
    <3>1. \A k \in Key : record'[k].attempts = record[k].attempts
      <4>1. record \in [Key -> Record]
        BY DEF TypeOK
      <4>2. CASE ClaimExhausted(c)
        BY <2>k, <4>1, <4>2 DEF ClaimExhausted, Record
      <4>3. CASE Complete(c)
        BY <2>k, <4>1, <4>3 DEF Complete, Record
      <4>4. CASE \E terminal \in BOOLEAN : Fail(c, terminal)
        BY <2>k, <4>1, <4>4 DEF Fail, Record
      <4>5. QED BY <2>4, <4>2, <4>3, <4>4
    <3>2. event' = event /\ \A d \in Call : pc[d] \in Acquired <=> pc'[d] \in Acquired
      BY <2>4 DEF ClaimExhausted, Claimable, Complete, Fail, Acquired, TypeOK
    <3>3. QED BY <1>1, <3>1, <3>2
  <2>5. QED BY <1>4, <2>1, <2>2, <2>3, <2>4 DEF ClaimStep, Claim
<1>5. QED BY <1>3, <1>4 DEF Next, ClaimStep

\* A record counts every claim that was ever given, and no more are given than
\* the budget allows.
THEOREM AttemptsAreClaims == Spec => []AttemptsCountClaims
<1> DEFINE Counts == \A k \in Key : record[k].attempts = Cardinality(Claimants[k])
<1>1. Init => Counts
  <2>1. ASSUME Init, NEW k \in Key PROVE Claimants[k] = {} /\ record[k].attempts = 0
    BY <2>1 DEF Init, Claimants, Acquired, NoRecord
  <2>2. QED BY <2>1, FS_EmptySet
<1>2. ASSUME IInv, Counts, [Next]_vars PROVE Counts'
  <2>1. CASE Claimants' = Claimants /\ \A k \in Key : record'[k].attempts = record[k].attempts
    BY <1>2, <2>1
  <2>2. ASSUME NEW c \in Call, pc[c] \notin Acquired, K(c) \in Key,
               Claimants' = [Claimants EXCEPT ![K(c)] = @ \cup {c}],
               record'[K(c)].attempts = IF Claimants[K(c)] = {} THEN 1
                                        ELSE record[K(c)].attempts + 1,
               \A k \in Key \ {K(c)} : record'[k].attempts = record[k].attempts
        PROVE  Counts'
    <3>1. c \notin Claimants[K(c)] /\ IsFiniteSet(Claimants[K(c)])
      BY <2>2, FiniteClaimants DEF Claimants
    <3>2. Cardinality(Claimants[K(c)] \cup {c}) = Cardinality(Claimants[K(c)]) + 1
      BY <3>1, FS_AddElement
    <3>3. Claimants[K(c)] = {} => Cardinality(Claimants[K(c)]) = 0
      BY FS_EmptySet
    <3>4. Claimants'[K(c)] = Claimants[K(c)] \cup {c}
          /\ \A k \in Key \ {K(c)} : Claimants'[k] = Claimants[k]
      BY <2>2 DEF Claimants
    <3>5. record'[K(c)].attempts = Cardinality(Claimants'[K(c)])
      <4>1. record[K(c)].attempts = Cardinality(Claimants[K(c)])
        BY <1>2, <2>2
      <4>2. Cardinality(Claimants'[K(c)]) = Cardinality(Claimants[K(c)]) + 1
        BY <3>2, <3>4
      <4>3. CASE Claimants[K(c)] = {}
        BY <2>2, <3>3, <4>2, <4>3
      <4>4. CASE Claimants[K(c)] # {}
        BY <2>2, <4>1, <4>2, <4>4
      <4>5. QED BY <4>3, <4>4
    <3>6. QED BY <1>2, <2>2, <3>4, <3>5
  <2>3. QED BY <1>2, <2>1, <2>2, ClaimantsMove DEF IInv
<1>3. IInv /\ Counts => AttemptsCountClaims
  BY DEF IInv, Agreement, AttemptsCountClaims, Claimants
<1>4. QED BY <1>1, <1>2, <1>3, Invariance, PTL DEF Spec

-----------------------------------------------------------------------------
\* Every operation that writes a record requires it to be unsettled.
LEMMA SettledStep ==
  ASSUME TypeOK, [Next]_vars, NEW k \in Key, record[k].status \in Settled
  PROVE  record'[k] = record[k]
<1> USE DEF Settled
<1>1. CASE UNCHANGED vars \/ Tick
  BY <1>1 DEF vars, Tick
<1>2. ASSUME NEW c \in Call, ClaimStep(c) PROVE record'[k] = record[k]
  <2>k. K(c) \in Key /\ record \in [Key -> Record]
    BY KeyOfCall DEF TypeOK
  <2>1. CASE Claim(c)
    BY <2>1, <2>k DEF Claim, ClaimFirst, ClaimConflict, ClaimSettled, ClaimBusy,
       ClaimExhausted, ClaimRetry, Claimable, Grant, TurnAway
  <2>2. CASE Complete(c)
    BY <2>2, <2>k DEF Complete, ActiveClaim, LeaseLive
  <2>3. CASE \E terminal \in BOOLEAN : Fail(c, terminal)
    BY <2>3, <2>k DEF Fail, ActiveClaim, LeaseLive
  <2>4. CASE Refused(c)
    BY <2>4 DEF Refused, TurnAway
  <2>5. QED BY <1>2, <2>1, <2>2, <2>3, <2>4 DEF ClaimStep
<1>3. QED BY <1>1, <1>2 DEF Next, ClaimStep

\* A completed or dead-lettered record, its result included, never changes.
THEOREM OutcomeIsFinal == Spec => SettledIsFinal
<1>1. TypeOK /\ [Next]_vars =>
        [\A k \in Key : record[k].status \in Settled => record'[k] = record[k]]_vars
  BY SettledStep
<1>2. QED BY TypeCorrect, <1>1, PTL DEF Spec, SettledIsFinal

-----------------------------------------------------------------------------
(* Refinement: the claim records implement EventOnce. *)

\* The mapped variables, under names of their own.
Outcome == [k \in Key |-> IF record[k].status \in Settled THEN record[k].status ELSE "open"]
Holder == [k \in Key |-> record[k].token]
Credited == [k \in Key |-> record[k].result]
Spent == {c \in Call : pc[c] \in Acquired}

\* A step that leaves the records alone, and takes no call out of the acquired
\* ones or into them, is a stutter of EventOnce.
LEMMA Stutter ==
  ASSUME record' = record, \A d \in Call : pc[d] \in Acquired <=> pc'[d] \in Acquired
  PROVE  UNCHANGED Once!vars
  BY DEF Once!vars

LEMMA GrantRefines ==
  ASSUME TypeOK, NEW c \in Call, NEW n, Grant(c, n), pc[c] = "new",
         record[K(c)].status \notin Settled, record[K(c)].result = None
  PROVE  Once!Next
<1> DEFINE k == K(c)
<1>k. k \in Key /\ record \in [Key -> Record]
  BY KeyOfCall DEF TypeOK
<1>1. Outcome[k] = "open" /\ c \notin Spent
  BY <1>k DEF Outcome, Spent, Acquired
<1>2. Holder' = [Holder EXCEPT ![k] = c]
  BY <1>k DEF Grant, Holder, K
<1>3. Spent' = Spent \cup {c}
  BY DEF Grant, Spent, Acquired, TypeOK
<1>4. Outcome' = Outcome
  BY <1>k DEF Grant, Outcome, K, Settled
<1>5. Credited' = Credited
  BY <1>k DEF Grant, Credited, K
<1>6. QED BY <1>k, <1>1, <1>2, <1>3, <1>4, <1>5
        DEF Once!Next, Once!Acquire, Outcome, Holder, Credited, Spent

LEMMA BuryRefines ==
  ASSUME TypeOK, NEW c \in Call, NEW d \in Call, pc[d] \in Acquired,
         record[K(c)].status \notin Settled,
         record' = [record EXCEPT ![K(c)].status = "dead_lettered",
                                  ![K(c)].token = None, ![K(c)].lease = 0],
         \A e \in Call : pc[e] \in Acquired <=> pc'[e] \in Acquired
  PROVE  Once!Next
<1> DEFINE k == K(c)
<1>k. k \in Key /\ record \in [Key -> Record]
  BY KeyOfCall DEF TypeOK
<1>1. Outcome[k] = "open" /\ d \in Spent
  BY <1>k DEF Outcome, Spent
<1>2. Outcome' = [Outcome EXCEPT ![k] = "dead_lettered"]
  BY <1>k DEF Outcome, Settled, K, Record
<1>3. Holder' = [Holder EXCEPT ![k] = None]
  BY <1>k DEF Holder, K, Record
<1>4. Credited' = Credited /\ Spent' = Spent
  BY <1>k DEF Credited, Spent, K, Record
<1>5. QED BY <1>k, <1>1, <1>2, <1>3, <1>4
        DEF Once!Next, Once!DeadLetter, Outcome, Holder, Credited, Spent

LEMMA ReleaseRefines ==
  ASSUME TypeOK, NEW c \in Call, record[K(c)].status = "claimed",
         record' = [record EXCEPT ![K(c)].status = "failed",
                                  ![K(c)].token = None, ![K(c)].lease = 0],
         \A e \in Call : pc[e] \in Acquired <=> pc'[e] \in Acquired
  PROVE  Once!Next
<1> DEFINE k == K(c)
<1>k. k \in Key /\ record \in [Key -> Record]
  BY KeyOfCall DEF TypeOK
<1>1. Holder[k] # None
  BY <1>k DEF Holder, TypeOK
<1>2. Holder' = [Holder EXCEPT ![k] = None]
  BY <1>k DEF Holder, K, Record
<1>3. Outcome' = Outcome /\ Credited' = Credited /\ Spent' = Spent
  BY <1>k DEF Outcome, Settled, Credited, Spent, K, Record
<1>4. QED BY <1>k, <1>1, <1>2, <1>3
        DEF Once!Next, Once!Release, Outcome, Holder, Credited, Spent

LEMMA CompleteRefines ==
  ASSUME TypeOK, NEW c \in Call, Complete(c)
  PROVE  Once!Next
<1> DEFINE k == K(c)
<1>k. k \in Key /\ record \in [Key -> Record]
  BY KeyOfCall DEF TypeOK
<1>1. Outcome[k] = "open" /\ Holder[k] = c /\ c # None
  BY <1>k, ClaimsAssumption DEF Complete, ActiveClaim, LeaseLive, Outcome, Holder, Settled
<1>2. Outcome' = [Outcome EXCEPT ![k] = "completed"]
  BY <1>k DEF Complete, Outcome, Settled, K, Record
<1>3. Holder' = [Holder EXCEPT ![k] = None]
  BY <1>k DEF Complete, Holder, K, Record
<1>4. Credited' = [Credited EXCEPT ![k] = c]
  BY <1>k DEF Complete, Credited, K, Record
<1>5. Spent' = Spent
  BY DEF Complete, Spent, Acquired, TypeOK
<1>6. QED BY <1>k, <1>1, <1>2, <1>3, <1>4, <1>5
        DEF Once!Next, Once!Complete, Outcome, Holder, Credited, Spent

LEMMA RefinementStep ==
  ASSUME TypeOK, Agreement, [Next]_vars
  PROVE  Once!Next \/ UNCHANGED Once!vars
<1>1. CASE UNCHANGED vars \/ Tick
  BY <1>1, Stutter DEF vars, Tick
<1>2. ASSUME NEW c \in Call, ClaimStep(c) PROVE Once!Next \/ UNCHANGED Once!vars
  <2>k. K(c) \in Key /\ record[K(c)] \in Record
    BY KeyOfCall DEF TypeOK
  <2>n. record[K(c)].status # "completed" => record[K(c)].result = None
    BY <2>k DEF TypeOK
  <2>1. CASE ClaimFirst(c)
    BY <2>1, <2>n, GrantRefines DEF ClaimFirst, Settled
  <2>2. CASE ClaimRetry(c)
    BY <2>2, <2>n, GrantRefines DEF ClaimRetry, Claimable, Settled
  <2>3. CASE ClaimExhausted(c)
    <3>1. PICK d \in Call : pc[d] \in Acquired
      BY <2>3, <2>k DEF ClaimExhausted, Claimable, Agreement
    <3>2. \A e \in Call : pc[e] \in Acquired <=> pc'[e] \in Acquired
      BY <2>3 DEF ClaimExhausted, Claimable, Acquired, TypeOK
    <3>3. QED BY <2>3, <3>1, <3>2, BuryRefines DEF ClaimExhausted, Claimable, Settled
  <2>4. CASE ClaimConflict(c) \/ ClaimSettled(c) \/ ClaimBusy(c) \/ Refused(c)
    BY <2>4, Stutter DEF ClaimConflict, ClaimSettled, ClaimBusy, Refused, TurnAway,
       Acquired, TypeOK
  <2>5. CASE Complete(c)
    BY <2>5, CompleteRefines
  <2>6. ASSUME NEW terminal \in BOOLEAN, Fail(c, terminal) PROVE Once!Next
    <3>1. \A e \in Call : pc[e] \in Acquired <=> pc'[e] \in Acquired
      BY <2>6 DEF Fail, Acquired, TypeOK
    <3>2. pc[c] \in Acquired /\ record[K(c)].status = "claimed"
      BY <2>6 DEF Fail, ActiveClaim, LeaseLive, Acquired
    <3>3. CASE FailStatus(c, terminal) = "dead_lettered"
      BY <2>6, <3>1, <3>2, <3>3, BuryRefines DEF Fail, Settled
    <3>4. CASE FailStatus(c, terminal) = "failed"
      BY <2>6, <3>1, <3>2, <3>4, ReleaseRefines DEF Fail
    <3>5. QED BY <3>3, <3>4 DEF FailStatus
  <2>7. QED BY <1>2, <2>1, <2>2, <2>3, <2>4, <2>5, <2>6 DEF ClaimStep, Claim
<1>3. QED BY <1>1, <1>2 DEF Next, ClaimStep

\* The claim records implement EventOnce, for any number of keys and calls:
\* each event is settled once, and completed only by the call that holds it.
THEOREM Refinement == Spec => ImplementsOnce
<1>1. Init => Once!Init
  BY DEF Init, Once!Init, NoRecord, Settled, Acquired
<1>2. TypeOK /\ Agreement /\ [Next]_vars => [Once!Next]_(Once!vars)
  BY RefinementStep
<1>3. IInv => TypeOK /\ Agreement
  BY DEF IInv
<1>4. QED BY <1>1, <1>2, <1>3, Invariance, PTL DEF Spec, ImplementsOnce, Once!Spec
=============================================================================
