----------------------------- MODULE DeliveryDelay -----------------------------
(***************************************************************************)
(* One reported delivery delay, from its event to the message sent to the  *)
(* outside: DeliveryDelayEventExecutor runs the stages of TypedEventService *)
(* (start the run, assess, mark the request, open the risk, add the        *)
(* follow-up task, notify, complete), and NotificationService.deliver       *)
(* claims, sends and records the notification in a thread of its own, which *)
(* goes on when the workflow around it times out.  The event is delivered  *)
(* several times (EventClaims): a delivery may begin while an earlier one, *)
(* or the thread it left behind, is still at work.  Every transaction and   *)
(* the call of the provider are one action each.                            *)
(***************************************************************************)
EXTENDS Naturals

CONSTANTS
  MaxDeliveries,  \* event_claim_max_attempts
  MaxAttempts,    \* notification_max_attempts
  MaxPlan         \* bound: how often the schedule changes meanwhile

ASSUME DelayAssumption ==
  MaxDeliveries \in Nat \ {0} /\ MaxAttempts \in 1 .. 5 /\ MaxPlan \in Nat

Delivery == 1 .. MaxDeliveries
Plan == 0 .. MaxPlan
None == MaxPlan + 1

VARIABLES
  plan,      \* the version of the schedule the impact is computed from
  request,   \* whether the material request is marked as delayed
  risk,      \* the assessment recorded with the risk issue, or None
  followUp,  \* the assessment recorded with the follow-up task, or None
  run,       \* the status of the agent run
  note,      \* the notification's outbox message
  accepted,  \* whether the provider has taken the message
  enabled,   \* whether the configured provider is enabled
  firestore, \* whether the store is Firestore or the in-memory one
  begun,     \* deliveries of the event whose claim was acquired
  handled,   \* the outcome of the event: "open", "done" or "dead"
  flow,      \* flow[d]: the stage of the workflow of delivery d
  assessed,  \* assessed[d]: the assessment d holds in memory, or None
  thread,    \* thread[d]: where d's call of deliver is
  held       \* held[d]: message.attempts as that call last saw it

work == <<plan, request, risk, followUp>>
vars == <<work, run, note, accepted, enabled, firestore, begun, handled, flow, assessed, thread, held>>

Init ==
  /\ plan = 0 /\ request = "open" /\ risk = None /\ followUp = None
  /\ run = "none"
  /\ note = [status |-> "none", attempts |-> 0, token |-> 0, leased |-> FALSE,
             backoff |-> FALSE, payload |-> None]
  /\ accepted = FALSE /\ enabled \in BOOLEAN /\ firestore \in BOOLEAN
  /\ begun = 0 /\ handled = "open"
  /\ flow = [d \in Delivery |-> "idle"]
  /\ assessed = [d \in Delivery |-> None]
  /\ thread = [d \in Delivery |-> "idle"]
  /\ held = [d \in Delivery |-> 0]

-----------------------------------------------------------------------------
(* The workflow of one delivery *)

Go(d, stage) == flow' = [flow EXCEPT ![d] = stage]

\* The claim of the event is acquired for the next time.
Begin(d) ==
  /\ handled = "open" /\ begun = d - 1
  /\ begun' = d
  /\ Go(d, "start")
  /\ UNCHANGED <<work, run, note, accepted, enabled, firestore, handled, assessed, thread, held>>

\* _start_run: creates the run, resumes it, or retries it after a failure.
StartRun(d) ==
  /\ flow[d] = "start"
  /\ run' = IF run = "completed" THEN run ELSE "running"
  /\ Go(d, "assess")
  /\ UNCHANGED <<work, note, accepted, enabled, firestore, begun, handled, assessed, thread, held>>

\* retrieve_delivery_delay_context and assess_delivery_delay: the tasks are read
\* now, and what follows from them is used by every later stage.
Assess(d) ==
  /\ flow[d] = "assess"
  /\ assessed' = [assessed EXCEPT ![d] = plan]
  /\ Go(d, "mark")
  /\ UNCHANGED <<work, run, note, accepted, enabled, firestore, begun, handled, thread, held>>

MarkDelayed(d) ==
  /\ flow[d] = "mark"
  /\ request' = "delayed"
  /\ Go(d, "risk")
  /\ UNCHANGED <<plan, risk, followUp, run, note, accepted, enabled, firestore, begun, handled, assessed, thread, held>>

\* ActivityService.mutate: a mutation recorded before is replayed if it was the
\* same mutation, and is an idempotency conflict if it was not.
MatchesUnchecked(recorded, wanted) == TRUE
Matches(recorded, wanted) == recorded \in {None, wanted}

CreateRisk(d) ==
  /\ flow[d] = "risk"
  /\ IF Matches(risk, assessed[d])
       THEN risk' = (IF risk = None THEN assessed[d] ELSE risk) /\ Go(d, "followUp")
       ELSE UNCHANGED risk /\ Go(d, "failing")
  /\ UNCHANGED <<plan, request, followUp, run, note, accepted, enabled, firestore, begun, handled, assessed, thread, held>>

CreateFollowUp(d) ==
  /\ flow[d] = "followUp"
  /\ IF Matches(followUp, assessed[d])
       THEN followUp' = (IF followUp = None THEN assessed[d] ELSE followUp) /\ Go(d, "notify")
       ELSE UNCHANGED followUp /\ Go(d, "failing")
  /\ UNCHANGED <<plan, request, risk, run, note, accepted, enabled, firestore, begun, handled, assessed, thread, held>>

\* complete_delivery_delay, once deliver has returned.
CompleteRun(d) ==
  /\ flow[d] = "notify" /\ thread[d] = "returned"
  /\ run' = "completed"
  /\ Go(d, "finished")
  /\ UNCHANGED <<work, note, accepted, enabled, firestore, begun, handled, assessed, thread, held>>

\* deliver raises, a stage fails, or the workflow times out: a thread at work in
\* deliver is left behind. A failure to start or after the end fails no run.
Raise(d) ==
  /\ \/ flow[d] \in {"assess", "mark", "risk", "followUp", "notify"} /\ Go(d, "failing")
     \/ flow[d] \in {"start", "finished"} /\ Go(d, "failed")
  /\ UNCHANGED <<work, run, note, accepted, enabled, firestore, begun, handled, assessed, thread, held>>

FailedEvenCompleted == "failed"
Failed == IF run = "completed" THEN run ELSE "failed"

\* _fail_run
FailRun(d) ==
  /\ flow[d] = "failing"
  /\ run' = Failed
  /\ Go(d, "failed")
  /\ UNCHANGED <<work, note, accepted, enabled, firestore, begun, handled, assessed, thread, held>>

\* claims.complete or claims.fail, refused to a delivery that lost the claim.
Settle(d) ==
  /\ flow[d] \in {"finished", "failed"}
  /\ Go(d, "ended")
  /\ handled' = IF d # begun THEN handled
                ELSE IF flow[d] = "finished" THEN "done"
                ELSE IF d = MaxDeliveries THEN "dead" ELSE handled
  /\ UNCHANGED <<work, run, note, accepted, enabled, firestore, begun, assessed, thread, held>>

-----------------------------------------------------------------------------
(* NotificationService.deliver *)

Loop == {"claim", "send", "accepted", "transient", "permanent", "sleep"}
Step(d, place) == thread' = [thread EXCEPT ![d] = place]

\* Where the call goes on from a message with this status and so many attempts.
Onward(status, attempts) ==
  IF status \in {"completed", "skipped"} THEN "returned"
  ELSE IF attempts < MaxAttempts THEN "claim" ELSE "raised"

\* _queue: the message is stored once, and a stored one must say the same.
Queue(d) ==
  /\ flow[d] = "notify" /\ thread[d] = "idle"
  /\ note' = IF note.status # "none" THEN note
             ELSE [note EXCEPT !.status = IF enabled THEN "pending" ELSE "skipped",
                               !.payload = assessed[d]]
  /\ held' = [held EXCEPT ![d] = note.attempts]
  /\ Step(d, IF note'.payload = assessed[d] THEN Onward(note'.status, note.attempts) ELSE "raised")
  /\ UNCHANGED <<work, run, accepted, enabled, firestore, begun, handled, flow, assessed>>

Settled == {"completed", "skipped", "dead"}
Notification ==
  [status : {"none", "pending", "processing", "failed"} \cup Settled,
   attempts : Nat, token : Nat, leased : BOOLEAN, backoff : BOOLEAN,
   payload : Plan \cup {None}]
ClaimableInBackoff ==
  note.status \notin Settled /\ ~ (note.status = "processing" /\ note.leased)
Claimable ==
  /\ note.status \notin Settled
  /\ ~ (note.status = "processing" /\ note.leased)
  /\ ~ note.backoff

AttemptsKept == note.attempts
Attempts == note.attempts + 1

\* _claim: the token is as new as the attempt's number. A message that is not
\* claimed ends the call, and so does a store that fails. Firestore's client
\* refuses the claim: its activity is looked up after the message was saved.
Claim(d) ==
  /\ thread[d] = "claim"
  /\ \/ /\ Claimable /\ ~firestore
        /\ note' = [note EXCEPT !.status = "processing", !.attempts = Attempts,
                                !.token = Attempts, !.leased = TRUE]
        /\ held' = [held EXCEPT ![d] = Attempts]
        /\ Step(d, "send")
     \/ Claimable /\ firestore /\ Step(d, "readTooLate") /\ UNCHANGED <<note, held>>
     \/ /\ note.status \in {"completed", "skipped"}
        /\ Step(d, "returned")
        /\ UNCHANGED <<note, held>>
     \/ Step(d, "raised") /\ UNCHANGED <<note, held>>
  /\ UNCHANGED <<work, run, accepted, enabled, firestore, begun, handled, flow, assessed>>

\* The provider takes the message, or refuses it, or its answer is lost.
Send(d) ==
  /\ thread[d] = "send"
  /\ \/ accepted' = TRUE /\ Step(d, "accepted")
     \/ accepted' \in {accepted, TRUE} /\ Step(d, "transient")
     \/ accepted' \in {accepted, TRUE} /\ Step(d, "permanent")
  /\ UNCHANGED <<work, run, note, enabled, firestore, begun, handled, flow, assessed, held>>

OwnsAny(d) == TRUE
Owns(d) == note.token = held[d]

\* _record_success; when it fails, deliver records a permanent failure.
RecordSuccess(d) ==
  /\ thread[d] = "accepted"
  /\ \/ /\ Owns(d)
        /\ note' = [note EXCEPT !.status = "completed", !.token = 0, !.leased = FALSE]
        /\ Step(d, "returned")
     \/ UNCHANGED note /\ Step(d, "permanent")
  /\ UNCHANGED <<work, run, accepted, enabled, firestore, begun, handled, flow, assessed, held>>

\* _record_failure; when it fails, or the claim was lost, deliver raises.
RecordFailure(d) ==
  LET terminal == thread[d] = "permanent" \/ held[d] >= MaxAttempts IN
  /\ thread[d] \in {"transient", "permanent"}
  /\ \/ /\ Owns(d)
        /\ note' = [note EXCEPT !.status = IF terminal THEN "dead" ELSE "failed",
                                !.token = 0, !.leased = FALSE, !.backoff = ~ terminal]
        /\ Step(d, IF terminal THEN "raised" ELSE "sleep")
     \/ UNCHANGED note /\ Step(d, "raised")
  /\ UNCHANGED <<work, run, accepted, enabled, firestore, begun, handled, flow, assessed, held>>

\* The back-off this call has scheduled is over.
Wake(d) ==
  /\ thread[d] = "sleep"
  /\ ~ (note.backoff /\ note.attempts = held[d])
  /\ Step(d, Onward("failed", held[d]))
  /\ UNCHANGED <<work, run, note, accepted, enabled, firestore, begun, handled, flow, assessed, held>>

-----------------------------------------------------------------------------
(* Time, the schedule, and a worker that is lost *)

LeaseExpires ==
  /\ note.leased
  /\ note' = [note EXCEPT !.leased = FALSE]
  /\ UNCHANGED <<work, run, accepted, enabled, firestore, begun, handled, flow, assessed, thread, held>>

BackoffEnds ==
  /\ note.backoff
  /\ note' = [note EXCEPT !.backoff = FALSE]
  /\ UNCHANGED <<work, run, accepted, enabled, firestore, begun, handled, flow, assessed, thread, held>>

\* Someone edits the tasks.
ChangePlan ==
  /\ plan < MaxPlan
  /\ plan' = plan + 1
  /\ UNCHANGED <<request, risk, followUp, run, note, accepted, enabled, firestore, begun, handled, flow, assessed,
                 thread, held>>

Crash(d) ==
  /\ flow[d] \notin {"idle", "ended", "lost"} \/ thread[d] \in Loop
  /\ Go(d, "lost")
  /\ Step(d, IF thread[d] \in Loop THEN "lost" ELSE thread[d])
  /\ UNCHANGED <<work, run, note, accepted, enabled, firestore, begun, handled, assessed, held>>

-----------------------------------------------------------------------------
FlowStep(d) ==
  \/ Begin(d) \/ StartRun(d) \/ Assess(d) \/ MarkDelayed(d) \/ CreateRisk(d) \/ CreateFollowUp(d)
  \/ CompleteRun(d) \/ Raise(d) \/ FailRun(d) \/ Settle(d)
DeliverStep(d) == Claim(d) \/ Send(d) \/ RecordSuccess(d) \/ RecordFailure(d) \/ Wake(d)

Next ==
  \/ \E d \in Delivery : FlowStep(d) \/ Queue(d) \/ DeliverStep(d) \/ Crash(d)
  \/ LeaseExpires \/ BackoffEnds \/ ChangePlan

\* A thread in deliver is scheduled, the provider answers or times out, and
\* time passes; nothing is assumed of the workflow or of its deliveries.
Fairness == WF_vars(BackoffEnds) /\ \A d \in Delivery : WF_vars(DeliverStep(d))
Spec == Init /\ [][Next]_vars /\ Fairness

-----------------------------------------------------------------------------
(* Properties *)

TypeOK ==
  /\ plan \in Plan /\ request \in {"open", "delayed"}
  /\ risk \in Plan \cup {None} /\ followUp \in Plan \cup {None}
  /\ run \in {"none", "running", "failed", "completed"}
  /\ note \in Notification
  /\ note.token \in {0, note.attempts}
  /\ note.leased => note.status = "processing"
  /\ note.backoff => note.status = "failed"
  /\ accepted \in BOOLEAN /\ enabled \in BOOLEAN /\ firestore \in BOOLEAN
  /\ begun \in 0 .. MaxDeliveries /\ handled \in {"open", "done", "dead"}
  /\ flow \in [Delivery -> {"idle", "start", "assess", "mark", "risk", "followUp", "notify",
                            "finished", "failing", "failed", "ended", "lost"}]
  /\ assessed \in [Delivery -> Plan \cup {None}]
  /\ thread \in [Delivery -> Loop \cup {"idle", "returned", "raised", "readTooLate", "lost"}]
  /\ held \in [Delivery -> Nat]
  /\ \A d \in Delivery : held[d] <= note.attempts

\* The event is reported as handled only when its run is completed, and the run
\* is completed only when the request, the risk and the follow-up are on record
\* and the message was taken by the provider or there is none to send to: a
\* notification that failed for good prevents the run's success.
CompletedMeansNotified ==
  /\ handled = "done" => run = "completed"
  /\ run = "completed" =>
       /\ request = "delayed" /\ risk # None /\ followUp # None
       /\ note.status = "skipped" \/ (note.status = "completed" /\ accepted)

\* The risk, the follow-up and the message tell the same impact, whatever edits
\* of the schedule the redeliveries that wrote them have seen.
OneAssessment ==
  /\ followUp # None => followUp = risk
  /\ note.payload # None => note.payload = risk

\* A notification that was sent, skipped or dead-lettered stays so, whatever a
\* thread that lost its claim records afterwards.
OutcomeIsFinal == [][note.status \in Settled => note' = note]_vars

\* Every call of deliver that is not lost with its worker ends: the loop of
\* attempts and back-offs does not go round for ever.
DeliverEnds == \A d \in Delivery : thread[d] \in Loop ~> thread[d] \notin Loop

\* No transaction of a delivery looks something up after its first write, which
\* Firestore's client refuses (_queue says so, _claim does it).
ReadsBeforeWrites == \A d \in Delivery : thread[d] # "readTooLate"
=============================================================================
