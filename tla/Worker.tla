------------------------------- MODULE Worker -------------------------------
(***************************************************************************)
(* app/worker.py and app/worker_http.py on top of EventClaims: Pub/Sub     *)
(* pushes a message, process_event_async claims its event, runs the        *)
(* workflow and settles the claim, and the response of /pubsub/push        *)
(* acknowledges the message or has it pushed again.                        *)
(*                                                                         *)
(* A delivery <<m, n>> is the n-th push of message m; it is one call of    *)
(* EventClaims.  The workflow itself is left to other modules: here it     *)
(* ends in Complete, in Fail, or not at all (a crash, an instance that is  *)
(* shut down), and the time it takes is the clock of EventClaims.          *)
(***************************************************************************)
EXTENDS Naturals, FiniteSets

CONSTANTS
  Message,       \* Pub/Sub messages; two may carry one event
  MaxDeliveries, \* --max-delivery-attempts of the push subscription
  Key, Fingerprint, None, LeaseSeconds, MaxAttempts, MaxTime

Delivery == Message \X (1 .. MaxDeliveries)

ASSUME WorkerAssumption ==
  /\ MaxDeliveries \in Nat \ {0}
  /\ LeaseSeconds \in Nat \ {0}
  /\ MaxAttempts \in Nat \ {0}
  /\ MaxTime \in Nat
  /\ None \notin Delivery
  /\ None \notin Fingerprint
  /\ IsFiniteSet(Message)

VARIABLES record, event, pc, deadline, now,  \* as in EventClaims
          push   \* push[d]: what Pub/Sub knows of delivery d

vars == <<record, event, pc, deadline, now, push>>

Claims == INSTANCE EventClaims WITH Call <- Delivery

Init ==
  /\ Claims!Init
  /\ \A m \in Message, n \in 1 .. MaxDeliveries : event[<<m, n>>] = event[<<m, 1>>]
  /\ push = [d \in Delivery |-> "unsent"]

Acked(m) == \E n \in 1 .. MaxDeliveries : push[<<m, n>>] = "acked"
\* Every push of m was refused or ran out of time: m goes to the dead-letter topic.
Forwarded(m) == push[<<m, MaxDeliveries>>] = "nacked"

\* The next push of m is due once the one before it was not acknowledged.
DueUnrefused(m, n) == push[<<m, n>>] = "unsent"
Due(m, n) == push[<<m, n>>] = "unsent" /\ (n > 1 => push[<<m, n - 1>>] = "nacked")

\* The handler is called, and begins by claiming the event.
Deliver(m, n) ==
  /\ Due(m, n)
  /\ Claims!Claim(<<m, n>>)
  /\ push' = [push EXCEPT ![<<m, n>>] = "open"]

\* process_event_async returned, with these outcomes; otherwise it raised.
AnsweredOrFailed == {"busy", "duplicate", "buried", "completed", "failed"}
Answered == {"busy", "duplicate", "buried", "completed"}

\* The response: 204 when process_event_async returned, an error when it raised.
Respond(d) ==
  /\ push[d] = "open"
  /\ pc[d] \notin {"new", "owner"}
  /\ push' = [push EXCEPT ![d] = IF pc[d] \in Answered THEN "acked" ELSE "nacked"]
  /\ UNCHANGED <<record, event, pc, deadline, now>>

\* Pub/Sub stops waiting for the response: the acknowledgement deadline passed,
\* or the connection or the instance was lost.  The handler may still be running.
GiveUp(d) ==
  /\ push[d] = "open"
  /\ push' = [push EXCEPT ![d] = "nacked"]
  /\ UNCHANGED <<record, event, pc, deadline, now>>

\* The workflow of an owner ends; the claim may have been lost meanwhile.
Finish(d) ==
  /\ \/ Claims!Complete(d)
     \/ \E terminal \in BOOLEAN : Claims!Fail(d, terminal)
     \/ Claims!Refused(d)
  /\ UNCHANGED push

Tick == Claims!Tick /\ UNCHANGED push

Next ==
  \/ Tick
  \/ \E m \in Message, n \in 1 .. MaxDeliveries : Deliver(m, n)
  \/ \E d \in Delivery : Respond(d) \/ GiveUp(d) \/ Finish(d)

\* Pub/Sub pushes what is due and waits for no response for ever.  Nothing is
\* assumed of the workflows: each may hang or die.
Fairness ==
  /\ \A m \in Message, n \in 1 .. MaxDeliveries : WF_vars(Deliver(m, n))
  /\ \A d \in Delivery : WF_vars(Respond(d) \/ GiveUp(d))

Spec == Init /\ [][Next]_vars /\ Fairness

-----------------------------------------------------------------------------
(* Properties *)

KeyOf(m) == event[<<m, 1>>].key
IsSettled(m) == record[KeyOf(m)].status \in Claims!Settled
HeardBusy(m) == \E n \in 1 .. MaxDeliveries : pc[<<m, n>>] = "busy"

\* Deliveries are pushed in order, a claim is made only by a pushed delivery,
\* and a message that was acknowledged or forwarded is pushed no more.
TypeOK ==
  /\ Claims!TypeOK
  /\ push \in [Delivery -> {"unsent", "open", "acked", "nacked"}]
  /\ \A d \in Delivery : push[d] = "unsent" <=> pc[d] = "new"
  /\ \A m \in Message, n \in 2 .. MaxDeliveries :
       push[<<m, n>>] # "unsent" => push[<<m, n - 1>>] = "nacked"

\* Pub/Sub is told to forget a message only when its event is settled, or on
\* the word that another delivery is working on it: no failure, conflict or
\* lost claim is ever acknowledged away.
AckedIsSettledOrBusy == \A m \in Message : Acked(m) => IsSettled(m) \/ HeardBusy(m)

\* A message none of whose deliveries ran into a live lease is pushed until its
\* event is settled or it is on the dead-letter topic, whatever dies on the way.
UndisturbedEventsSettle ==
  \A m \in Message : <>(IsSettled(m) \/ Forwarded(m) \/ HeardBusy(m))

\* "Claimed events use a bounded lease so abandoned work can be reclaimed":
\* a claim whose lease ran out has a message that Pub/Sub has not forgotten.
AbandonedWorkCanBeReclaimed ==
  \A k \in Key : (record[k].status = "claimed" /\ ~ Claims!LeaseLive(record[k])) =>
    \E m \in Message : KeyOf(m) = k /\ ~ Acked(m)
=============================================================================
