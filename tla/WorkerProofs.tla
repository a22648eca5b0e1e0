----------------------------- MODULE WorkerProofs -----------------------------
(***************************************************************************)
(* Theorems about Worker, for any number of messages and of pushes.  What  *)
(* EventClaimsProofs proves of the claims holds of the deliveries' claims. *)
(***************************************************************************)
EXTENDS Worker, FiniteSetTheorems, TLAPS

Proved == INSTANCE EventClaimsProofs WITH Call <- Delivery

\* The assumptions of EventClaims hold of the deliveries.
LEMMA DeliveriesAreCalls ==
  /\ LeaseSeconds \in Nat \ {0}
  /\ MaxAttempts \in Nat \ {0}
  /\ MaxTime \in Nat
  /\ None \notin Delivery
  /\ None \notin Fingerprint
  /\ Proved!IsFiniteSet(Delivery)
<1>1. IsFiniteSet(1 .. MaxDeliveries)
  BY FS_Interval, WorkerAssumption
<1>2. IsFiniteSet(Delivery)
  BY <1>1, FS_Product, WorkerAssumption DEF Delivery
<1>3. QED BY <1>2, WorkerAssumption DEF IsFiniteSet, Proved!IsFiniteSet

\* EventClaims is instantiated here and in Worker alike.
LEMMA SameState ==
  /\ Claims!vars = Proved!vars
  /\ Claims!Settled = Proved!Settled
  /\ Claims!Init <=> Proved!Init
  /\ Claims!Tick <=> Proved!Tick
<1>1. Claims!Init <=> Proved!Init
  BY DEF Claims!Init, Proved!Init, Claims!NoRecord, Proved!NoRecord, Claims!Event, Proved!Event
<1>2. QED BY <1>1 DEF Claims!vars, Proved!vars, Claims!Tick, Proved!Tick, Claims!Settled,
             Proved!Settled

LEMMA SameType == Claims!TypeOK <=> Proved!TypeOK
  BY DEF Claims!TypeOK, Claims!Record, Claims!Event, Claims!Status, Claims!Settled,
     Claims!Acquired, Claims!TurnedAway, Proved!TypeOK, Proved!Record, Proved!Event,
     Proved!Status, Proved!Settled, Proved!Acquired, Proved!TurnedAway

LEMMA SameClaim == ASSUME NEW d PROVE Claims!Claim(d) <=> Proved!Claim(d)
  BY DEF Claims!Claim, Claims!ClaimFirst, Claims!ClaimConflict,
     Claims!ClaimSettled, Claims!ClaimBusy, Claims!ClaimExhausted, Claims!ClaimRetry,
     Claims!Claimable, Claims!SameEvent, Claims!LeaseLive, Claims!Grant,
     Claims!TurnAway, Claims!K, Proved!Claim, Proved!ClaimFirst, Proved!ClaimConflict,
     Proved!ClaimSettled, Proved!ClaimBusy, Proved!ClaimExhausted, Proved!ClaimRetry,
     Proved!Claimable, Proved!SameEvent, Proved!LeaseLive, Proved!Grant,
     Proved!TurnAway, Proved!K

LEMMA SameFinish ==
  ASSUME NEW d
  PROVE  /\ Claims!Complete(d) <=> Proved!Complete(d)
         /\ Claims!Refused(d) <=> Proved!Refused(d)
         /\ \A terminal : Claims!Fail(d, terminal) <=> Proved!Fail(d, terminal)
  BY DEF Claims!Complete, Claims!Fail, Claims!FailStatus, Claims!Refused,
     Claims!ActiveClaim, Claims!LeaseLive, Claims!TurnAway, Claims!K, Proved!Complete,
     Proved!Fail, Proved!FailStatus, Proved!Refused, Proved!ActiveClaim,
     Proved!LeaseLive, Proved!TurnAway, Proved!K

LEMMA ClaimsStep == [Next]_vars => [Proved!Next]_(Proved!vars)
<1>1. UNCHANGED vars => UNCHANGED Proved!vars
  BY DEF vars, Proved!vars
<1>2. ASSUME NEW m \in Message, NEW n \in 1 .. MaxDeliveries, Deliver(m, n)
      PROVE  Proved!Next
  <2>1. <<m, n>> \in Delivery /\ Proved!Claim(<<m, n>>)
    BY <1>2, SameClaim DEF Deliver, Delivery
  <2>2. QED BY <2>1 DEF Proved!Next
<1>3. ASSUME NEW d \in Delivery, Respond(d) \/ GiveUp(d) \/ Finish(d)
      PROVE  [Proved!Next]_(Proved!vars)
  <2>1. CASE Respond(d) \/ GiveUp(d)
    BY <2>1 DEF Respond, GiveUp, Proved!vars
  <2>2. CASE Finish(d)
    BY <2>2, SameFinish DEF Finish, Proved!Next
  <2>3. QED BY <1>3, <2>1, <2>2
<1>4. Tick => Proved!Next
  BY SameState DEF Tick, Proved!Next
<1>5. QED BY <1>1, <1>2, <1>3, <1>4 DEF Next

LEMMA ClaimsSpec == Spec => Proved!Spec
<1>1. Init => Proved!Init
  BY SameState DEF Init
<1>2. QED BY <1>1, ClaimsStep, PTL DEF Spec, Proved!Spec

LEMMA ClaimsTyped == Spec => []Claims!TypeOK
<1>1. Proved!Spec => []Proved!TypeOK
  BY Proved!TypeCorrect, DeliveriesAreCalls
<1>2. QED BY <1>1, ClaimsSpec, SameType, PTL

-----------------------------------------------------------------------------
(***************************************************************************)
(* What the answers of the handler mean.                                   *)
(***************************************************************************)

\* The outcomes that are reported of a settled event.
Done == {"duplicate", "buried", "completed"}

EventSettled(d) == record[event[d].key].status \in Claims!Settled

Pushes ==
  /\ push \in [Delivery -> {"unsent", "open", "acked", "nacked"}]
  /\ \A d \in Delivery : push[d] = "unsent" <=> pc[d] = "new"
  /\ \A m \in Message, n \in 2 .. MaxDeliveries :
       push[<<m, n>>] # "unsent" => push[<<m, n - 1>>] = "nacked"

\* A message carries one event; who is told of a settled event is told the
\* truth; and only what the handler answered is acknowledged.
Told ==
  /\ \A m \in Message, n \in 1 .. MaxDeliveries : event[<<m, n>>] = event[<<m, 1>>]
  /\ \A d \in Delivery : pc[d] \in Done => EventSettled(d)
  /\ \A d \in Delivery : push[d] = "acked" => pc[d] \in Answered

WorkerInv == Pushes /\ Told

LEMMA KeyOfDelivery ==
  ASSUME Claims!TypeOK, NEW d \in Delivery
  PROVE  /\ event[d].key \in Key /\ record \in [Key -> Claims!Record]
         /\ pc \in [Delivery -> {"new"} \cup Claims!Acquired \cup Claims!TurnedAway]
  BY DEF Claims!TypeOK, Claims!Event

\* A claim is answered at once, unless it is acquired.
LEMMA ClaimTells ==
  ASSUME Claims!TypeOK, NEW d \in Delivery, Claims!Claim(d)
  PROVE  \E told \in {"owner", "busy", "conflict", "duplicate", "buried"} :
           /\ pc[d] = "new" /\ pc' = [pc EXCEPT ![d] = told] /\ event' = event
           /\ told \in Done => EventSettled(d)'
<1>1. event[d].key \in Key /\ record \in [Key -> Claims!Record]
  BY KeyOfDelivery
<1> USE DEF Done, EventSettled, Claims!Settled
<1>2. CASE Claims!ClaimFirst(d) \/ Claims!ClaimRetry(d)
  BY <1>2 DEF Claims!ClaimFirst, Claims!ClaimRetry, Claims!Claimable, Claims!Grant
<1>3. CASE Claims!ClaimConflict(d) \/ Claims!ClaimBusy(d)
  BY <1>3 DEF Claims!ClaimConflict, Claims!ClaimBusy, Claims!TurnAway
<1>4. CASE Claims!ClaimSettled(d)
  BY <1>4 DEF Claims!ClaimSettled, Claims!TurnAway, Claims!K
<1>5. CASE Claims!ClaimExhausted(d)
  <2>1. record'[event[d].key].status = "dead_lettered"
    BY <1>1, <1>5 DEF Claims!ClaimExhausted, Claims!K, Claims!Record
  <2>2. QED BY <1>5, <2>1 DEF Claims!ClaimExhausted, Claims!Claimable
<1>6. QED BY <1>2, <1>3, <1>4, <1>5 DEF Claims!Claim

LEMMA FinishTells ==
  ASSUME Claims!TypeOK, NEW d \in Delivery, Finish(d)
  PROVE  /\ push' = push /\ event' = event
         /\ \E told \in {"completed", "failed", "rejected", "lost"} :
              /\ pc[d] = "owner" /\ pc' = [pc EXCEPT ![d] = told]
              /\ told \in Done => EventSettled(d)'
<1>1. event[d].key \in Key /\ record \in [Key -> Claims!Record]
  BY KeyOfDelivery
<1> USE DEF Done, EventSettled, Claims!Settled
<1>2. CASE Claims!Complete(d)
  <2>1. record'[event[d].key].status = "completed"
    BY <1>1, <1>2 DEF Claims!Complete, Claims!K, Claims!Record
  <2>2. QED BY <1>2, <2>1 DEF Finish, Claims!Complete
<1>3. CASE \E terminal \in BOOLEAN : Claims!Fail(d, terminal)
  BY <1>3 DEF Finish, Claims!Fail
<1>4. CASE Claims!Refused(d)
  BY <1>4 DEF Finish, Claims!Refused, Claims!TurnAway
<1>5. QED BY <1>2, <1>3, <1>4 DEF Finish

\* What was settled stays settled, so what a delivery was told stays true.
LEMMA ToldStays ==
  ASSUME Claims!TypeOK, [Next]_vars, NEW d \in Delivery, EventSettled(d)
  PROVE  EventSettled(d)'
<1>1. event' = event
  BY ClaimTells, FinishTells
     DEF Next, vars, Tick, Claims!Tick, Deliver, Respond, GiveUp, Delivery
<1>2. event[d].key \in Key
  BY KeyOfDelivery
<1>3. record'[event[d].key] = record[event[d].key]
  BY <1>2, ClaimsStep, SameType, SameState, DeliveriesAreCalls, Proved!SettledStep DEF EventSettled
<1>4. QED BY <1>1, <1>3 DEF EventSettled, Claims!Settled

-----------------------------------------------------------------------------
(* The inductive step, one lemma for the calls and one for the pushes. *)

\* A step moves at most one delivery: it is claimed as it is pushed, finished
\* by its owner, answered, or given up.
LEMMA PushMoves ==
  ASSUME Claims!TypeOK, WorkerInv, [Next]_vars
  PROVE  /\ event' = event
         /\ \/ pc' = pc /\ push' = push
            \/ \E m \in Message, n \in 1 .. MaxDeliveries,
                  told \in {"owner", "busy", "conflict", "duplicate", "buried"} :
                 /\ Due(m, n) /\ pc' = [pc EXCEPT ![<<m, n>>] = told]
                 /\ push' = [push EXCEPT ![<<m, n>>] = "open"]
                 /\ told \in Done => EventSettled(<<m, n>>)'
            \/ \E d \in Delivery, told \in {"completed", "failed", "rejected", "lost"} :
                 /\ push' = push /\ pc[d] = "owner" /\ pc' = [pc EXCEPT ![d] = told]
                 /\ told \in Done => EventSettled(d)'
            \/ \E d \in Delivery, heard \in {"acked", "nacked"} :
                 /\ pc' = pc /\ push[d] = "open" /\ push' = [push EXCEPT ![d] = heard]
                 /\ heard = "acked" => pc[d] \in Answered
<1>1. CASE UNCHANGED vars \/ Tick
  BY <1>1 DEF vars, Tick, Claims!Tick
<1>2. ASSUME NEW m \in Message, NEW n \in 1 .. MaxDeliveries, Deliver(m, n)
      PROVE  /\ event' = event
             /\ \E told \in {"owner", "busy", "conflict", "duplicate", "buried"} :
                  /\ Due(m, n) /\ pc' = [pc EXCEPT ![<<m, n>>] = told]
                  /\ push' = [push EXCEPT ![<<m, n>>] = "open"]
                  /\ told \in Done => EventSettled(<<m, n>>)'
  <2>1. <<m, n>> \in Delivery /\ Claims!Claim(<<m, n>>)
    BY <1>2 DEF Deliver, Delivery
  <2>2. PICK told \in {"owner", "busy", "conflict", "duplicate", "buried"} :
           /\ pc' = [pc EXCEPT ![<<m, n>>] = told] /\ event' = event
           /\ told \in Done => EventSettled(<<m, n>>)'
    BY <2>1, ClaimTells
  <2>3. QED BY <2>2, <1>2 DEF Deliver
<1>3. ASSUME NEW d \in Delivery, Respond(d) \/ GiveUp(d)
      PROVE  /\ event' = event
             /\ \E heard \in {"acked", "nacked"} :
                  /\ pc' = pc /\ push[d] = "open" /\ push' = [push EXCEPT ![d] = heard]
                  /\ heard = "acked" => pc[d] \in Answered
  BY <1>3 DEF Respond, GiveUp
<1>4. ASSUME NEW d \in Delivery, Finish(d)
      PROVE  /\ event' = event
             /\ \E told \in {"completed", "failed", "rejected", "lost"} :
                  /\ push' = push /\ pc[d] = "owner" /\ pc' = [pc EXCEPT ![d] = told]
                  /\ told \in Done => EventSettled(d)'
  BY <1>4, FinishTells
<1>5. QED BY <1>1, <1>2, <1>3, <1>4 DEF Next

\* Deliveries are pushed in order, and a claim is made only by a pushed one.
LEMMA PushesStep ==
  ASSUME Claims!TypeOK, WorkerInv, [Next]_vars
  PROVE  Pushes'
<1> USE DEF Pushes
<1>0. /\ Pushes
      /\ pc \in [Delivery -> {"new"} \cup Claims!Acquired \cup Claims!TurnedAway]
      /\ MaxDeliveries \in Nat
  BY WorkerAssumption DEF WorkerInv, Claims!TypeOK
<1>1. CASE pc' = pc /\ push' = push
  BY <1>0, <1>1
<1>2. ASSUME NEW m \in Message, NEW n \in 1 .. MaxDeliveries,
             NEW told \in {"owner", "busy", "conflict", "duplicate", "buried"},
             Due(m, n), pc' = [pc EXCEPT ![<<m, n>>] = told],
             push' = [push EXCEPT ![<<m, n>>] = "open"]
      PROVE  Pushes'
  <2>1. <<m, n>> \in Delivery
    BY DEF Delivery
  <2>2. push' \in [Delivery -> {"unsent", "open", "acked", "nacked"}]
    BY <1>0, <1>2
  <2>3. \A d \in Delivery : push'[d] = "unsent" <=> pc'[d] = "new"
    BY <1>0, <1>2, <2>1
  <2>4. ASSUME NEW i \in Message, NEW j \in 2 .. MaxDeliveries, push'[<<i, j>>] # "unsent"
        PROVE  push'[<<i, j - 1>>] = "nacked"
    <3>1. <<i, j>> \in Delivery /\ <<i, j - 1>> \in Delivery /\ j > 1 /\ j # j - 1
      BY <1>0 DEF Delivery
    <3>2. push[<<i, j - 1>>] = "nacked"
      BY <1>0, <1>2, <2>1, <2>4, <3>1 DEF Due
    <3>3. <<i, j - 1>> # <<m, n>>
      BY <3>2, <1>2 DEF Due
    <3>4. QED BY <1>0, <1>2, <3>1, <3>2, <3>3
  <2>5. QED BY <2>2, <2>3, <2>4
<1>3. ASSUME NEW d \in Delivery, NEW told \in {"completed", "failed", "rejected", "lost"},
             push' = push, pc[d] = "owner", pc' = [pc EXCEPT ![d] = told]
      PROVE  Pushes'
  BY <1>0, <1>3
<1>4. ASSUME NEW d \in Delivery, NEW heard \in {"acked", "nacked"}, pc' = pc,
             push[d] = "open", push' = [push EXCEPT ![d] = heard]
      PROVE  Pushes'
  <2>1. push' \in [Delivery -> {"unsent", "open", "acked", "nacked"}]
    BY <1>0, <1>4
  <2>2. \A c \in Delivery : push'[c] = "unsent" <=> pc'[c] = "new"
    BY <1>0, <1>4
  <2>3. ASSUME NEW i \in Message, NEW j \in 2 .. MaxDeliveries, push'[<<i, j>>] # "unsent"
        PROVE  push'[<<i, j - 1>>] = "nacked"
    <3>1. <<i, j>> \in Delivery /\ <<i, j - 1>> \in Delivery
      BY <1>0 DEF Delivery
    <3>2. push[<<i, j - 1>>] = "nacked"
      BY <1>0, <1>4, <2>3, <3>1
    <3>3. QED BY <1>0, <1>4, <3>1, <3>2
  <2>4. QED BY <2>1, <2>2, <2>3
<1>5. QED BY <1>1, <1>2, <1>3, <1>4, PushMoves

\* Who was told of a settled event was told the truth, and only an answer is
\* acknowledged.
LEMMA ToldStep ==
  ASSUME Claims!TypeOK, WorkerInv, [Next]_vars
  PROVE  Told'
<1>0. /\ Pushes /\ Told
      /\ pc \in [Delivery -> {"new"} \cup Claims!Acquired \cup Claims!TurnedAway]
  BY DEF WorkerInv, Claims!TypeOK
<1>1. \A d \in Delivery : EventSettled(d) => EventSettled(d)'
  BY ToldStays
<1>2. event' = event
  BY PushMoves
<1>3. \A m \in Message, n \in 1 .. MaxDeliveries : event'[<<m, n>>] = event'[<<m, 1>>]
  BY <1>0, <1>2 DEF Told
<1>4. ASSUME NEW c \in Delivery
      PROVE  /\ pc'[c] \in Done => EventSettled(c)'
             /\ push'[c] = "acked" => pc'[c] \in Answered
  <2>0. /\ pc[c] \in Done => EventSettled(c)'
        /\ push[c] = "acked" => pc[c] \in Answered
        /\ push[c] = "unsent" <=> pc[c] = "new"
    BY <1>0, <1>1 DEF Told, Pushes
  <2>1. CASE pc' = pc /\ push' = push
    BY <2>0, <2>1
  <2>2. ASSUME NEW m \in Message, NEW n \in 1 .. MaxDeliveries,
               NEW told \in {"owner", "busy", "conflict", "duplicate", "buried"},
               Due(m, n), pc' = [pc EXCEPT ![<<m, n>>] = told],
               push' = [push EXCEPT ![<<m, n>>] = "open"],
               told \in Done => EventSettled(<<m, n>>)'
        PROVE  /\ pc'[c] \in Done => EventSettled(c)'
               /\ push'[c] = "acked" => pc'[c] \in Answered
    <3>1. CASE c = <<m, n>>
      BY <1>0, <2>2, <3>1 DEF Pushes
    <3>2. CASE c # <<m, n>>
      BY <1>0, <2>0, <2>2, <3>2 DEF Pushes
    <3>3. QED BY <3>1, <3>2
  <2>3. ASSUME NEW d \in Delivery, NEW told \in {"completed", "failed", "rejected", "lost"},
               push' = push, pc[d] = "owner", pc' = [pc EXCEPT ![d] = told],
               told \in Done => EventSettled(d)'
        PROVE  /\ pc'[c] \in Done => EventSettled(c)'
               /\ push'[c] = "acked" => pc'[c] \in Answered
    <3>1. CASE c = d
      BY <1>0, <2>0, <2>3, <3>1 DEF Answered
    <3>2. CASE c # d
      BY <1>0, <2>0, <2>3, <3>2
    <3>3. QED BY <3>1, <3>2
  <2>4. ASSUME NEW d \in Delivery, NEW heard \in {"acked", "nacked"}, pc' = pc,
               push' = [push EXCEPT ![d] = heard],
               heard = "acked" => pc[d] \in Answered
        PROVE  /\ pc'[c] \in Done => EventSettled(c)'
               /\ push'[c] = "acked" => pc'[c] \in Answered
    BY <1>0, <2>0, <2>4 DEF Pushes
  <2>5. QED BY <2>1, <2>2, <2>3, <2>4, PushMoves
<1>5. QED BY <1>3, <1>4 DEF Told

LEMMA WorkerInit == Init => WorkerInv
<1> SUFFICES ASSUME Init PROVE WorkerInv
  OBVIOUS
<1>1. /\ pc = [d \in Delivery |-> "new"] /\ push = [d \in Delivery |-> "unsent"]
      /\ \A m \in Message, n \in 1 .. MaxDeliveries : event[<<m, n>>] = event[<<m, 1>>]
  BY DEF Init, Claims!Init
<1>2. Pushes
  BY <1>1 DEF Pushes, Delivery
<1>3. Told
  BY <1>1 DEF Told, Done
<1>4. QED BY <1>2, <1>3 DEF WorkerInv

LEMMA WorkerInvariance == Spec => []WorkerInv
<1>1. Claims!TypeOK /\ WorkerInv /\ [Next]_vars => WorkerInv'
  BY PushesStep, ToldStep DEF WorkerInv
<1>2. QED BY <1>1, WorkerInit, ClaimsTyped, PTL DEF Spec

\* The pushes of a message follow one another, and each claims its event once.
THEOREM WorkerTypeCorrect == Spec => []TypeOK
<1>1. Claims!TypeOK /\ WorkerInv => TypeOK
  BY DEF WorkerInv, Pushes, TypeOK
<1>2. QED BY <1>1, ClaimsTyped, WorkerInvariance, PTL

\* Whatever dies, is lost or runs out of time, and however often a message is
\* pushed: process_event's answer has Pub/Sub forget a message only when its
\* event is settled, or on the word that another delivery works on it.
THEOREM NothingIsAckedAway == Spec => []AckedIsSettledOrBusy
<1>1. ASSUME WorkerInv PROVE AckedIsSettledOrBusy
  <2>1. ASSUME NEW m \in Message, NEW n \in 1 .. MaxDeliveries, push[<<m, n>>] = "acked",
               pc[<<m, n>>] # "busy"
        PROVE  IsSettled(m)
    <3>1. <<m, n>> \in Delivery
      BY DEF Delivery
    <3>2. pc[<<m, n>>] \in Done
      BY <1>1, <2>1, <3>1 DEF WorkerInv, Told, Answered, Done
    <3>3. EventSettled(<<m, n>>) /\ event[<<m, n>>] = event[<<m, 1>>]
      BY <1>1, <3>1, <3>2 DEF WorkerInv, Told
    <3>4. QED BY <3>3 DEF EventSettled, IsSettled, KeyOf
  <2>2. QED BY <2>1 DEF AckedIsSettledOrBusy, Acked, HeardBusy
<1>2. QED BY <1>1, WorkerInvariance, PTL
=============================================================================
