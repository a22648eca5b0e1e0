---------------------------- MODULE ApprovalFlow ----------------------------
(***************************************************************************)
(* A daily site update whose run asks for purchase approvals, from the     *)
(* first request to the end of the run:                                    *)
(*   - SiteUpdateEventExecutor.execute and SiteUpdateExecutionStateService *)
(*     start the run, request the approvals and pause, finish or fail it;  *)
(*   - ApprovalService decides an approval and stores the decision event;  *)
(*   - SiteUpdateEventExecutor.resume_approved and                         *)
(*     ApprovalContinuationService carry the run on after the decision.    *)
(* Each event is processed under its own claim (EventClaims): its        *)
(* deliveries are numbered, the next begins when the claim of the one      *)
(* before was failed or its lease ran out, and only the last may settle.   *)
(* A worker whose lease ran out may be dead or may still be at work, so    *)
(* the deliveries of one event overlap, and those of different events run  *)
(* side by side.  Every transaction is one action; a worker may fail       *)
(* between any two, and one that takes no further step has died.           *)
(***************************************************************************)
EXTENDS Naturals, FiniteSets

CONSTANTS
  Approval,    \* the purchase approvals the update gives rise to, one a material
  MaxAttempts  \* event_claim_max_attempts

ASSUME FlowAssumption == MaxAttempts \in Nat \ {0} /\ IsFiniteSet(Approval)

Attempt == 1 .. MaxAttempts
Ended == {"completed", "waiting_for_approval", "waiting_for_clarification"}
Worker == Approval \X Attempt

VARIABLES
  approval,  \* approval[a]: the approval's status, "none" before it is requested
  request,   \* request[a]: the status of the material request linked to a
  outbox,    \* outbox[a]: the decision event of a: "none", "stored", "published"
  run,       \* the agent run's status; "rejected" is FAILED with APPROVAL_REJECTED
  site,      \* the site update's processing status
  tries,     \* deliveries of the site-update event
  settled,   \* the outcome of that event: "open", "done" or "dead"
  phase,     \* phase[t]: how far its delivery t is
  runAttempt, \* the last delivery that started the run, whose ADK session is the run's
  recorded,  \* recorded[s]: the delivery whose activity ended the update as s, or 0
  asked,     \* the deliveries whose ADK session holds a request for input
  output,    \* the deliveries whose ADK session holds a completed output
  attempts,  \* attempts[a]: deliveries of the decision event of a
  handled,   \* handled[a]: the outcome of that event: "open", "done" or "dead"
  at,        \* at[w]: how far delivery w of a decision event is
  session,   \* session[w]: the delivery whose ADK session w resumes, or 0
  executed   \* the approvals with an external_action.executed activity

decision == <<approval, request, outbox>>
update == <<tries, settled, phase, runAttempt, recorded, asked>>
claims == <<attempts, handled>>
vars == <<decision, run, site, update, output, claims, at, session, executed>>

Init ==
  /\ approval = [a \in Approval |-> "none"]
  /\ request = [a \in Approval |-> "none"]
  /\ outbox = [a \in Approval |-> "none"]
  /\ run = "queued" /\ site = "received"
  /\ tries = 0 /\ settled = "open" /\ phase = [t \in Attempt |-> "idle"]
  /\ runAttempt = 0 /\ recorded = [s \in Ended |-> 0] /\ asked = {} /\ output = {}
  /\ attempts = [a \in Approval |-> 0]
  /\ handled = [a \in Approval |-> "open"]
  /\ at = [w \in Worker |-> "idle"]
  /\ session = [w \in Worker |-> 0]
  /\ executed = {}

-----------------------------------------------------------------------------
(* The decision: ApprovalService *)

\* _apply_resolution: the decision, the linked request and the event that
\* announces it are one transaction, and a decided approval is not decided again.
Decide(a, verdict) ==
  /\ approval[a] = "pending"
  /\ approval' = [approval EXCEPT ![a] = verdict]
  /\ request' = [request EXCEPT ![a] =
       IF @ # "awaiting_approval" THEN @
       ELSE IF verdict = "approved" THEN "approved" ELSE "cancelled"]
  /\ outbox' = [outbox EXCEPT ![a] = "stored"]
  /\ UNCHANGED <<run, site, update, output, claims, at, session, executed>>

\* The decision event is published, by this request or by one sent again.
Publish(a) ==
  /\ outbox[a] = "stored"
  /\ outbox' = [outbox EXCEPT ![a] = "published"]
  /\ UNCHANGED <<approval, request, run, site, update, output, claims, at, session, executed>>

-----------------------------------------------------------------------------
(* The site-update event: SiteUpdateEventExecutor.execute *)

Replayed == site = run /\ run \in Ended
Disagree == ~ Replayed /\ (site \in Ended \/ run \in Ended)
InProgressOrPaused ==
  \/ site = "waiting_for_approval" /\ run = "waiting_for_approval"
  \/ site = "processing" /\ run = "running"
\* The statuses that _finish, _record_failure and the waits ask for.
InProgress == site = "processing" /\ run = "running"

GoOn(t, place) == phase' = [phase EXCEPT ![t] = place]

\* claims.fail, refused when a later delivery has taken the claim over: a
\* failure of the kind terminal, or of the last attempt, buries the event.
FailDelivery(t, terminal) ==
  /\ GoOn(t, "failed")
  /\ settled' = IF t = tries /\ (terminal \/ t = MaxAttempts) THEN "dead" ELSE settled
  /\ UNCHANGED <<decision, tries, runAttempt, recorded, asked, output, claims, at, session, executed>>

\* _record_failure: whoever fails, it is the run as it stands that is failed.
RecordFailure ==
  IF InProgress THEN site' = "failed" /\ run' = "failed" ELSE UNCHANGED <<site, run>>

\* The delivery's claim is acquired and its state is loaded: an update that has
\* ended is answered as it stands, and one that is half ended is refused.
Load(t) ==
  /\ settled = "open" /\ tries = t - 1
  /\ tries' = t
  /\ GoOn(t, IF Replayed THEN "returned" ELSE IF Disagree THEN "refused" ELSE "loaded")
  /\ UNCHANGED <<decision, run, site, settled, runAttempt, recorded, asked, output, claims, at,
                 session, executed>>
Refuse(t) == phase[t] = "refused" /\ FailDelivery(t, TRUE) /\ UNCHANGED <<site, run>>

\* The statuses from which start_attempt starts the run; a delivery that comes
\* after its successor is refused.
StartableEvenCompleted(t) ==
  /\ site \in {"received", "processing", "failed", "completed"}
  /\ run \in {"queued", "running", "failed", "rejected", "completed"}
  /\ t >= runAttempt
Startable(t) ==
  /\ site \in {"received", "processing", "failed"}
  /\ run \in {"queued", "running", "failed", "rejected"}
  /\ t >= runAttempt

\* start_attempt; InvalidSiteUpdateTransition is a terminal failure.
StartAttempt(t) ==
  /\ phase[t] = "loaded"
  /\ \/ /\ Startable(t)
        /\ site' = "processing" /\ run' = "running"
        /\ runAttempt' = t
        /\ GoOn(t, "started")
        /\ UNCHANGED <<decision, tries, settled, recorded, asked, output, claims, at, session, executed>>
     \/ ~ Startable(t) /\ RecordFailure /\ FailDelivery(t, TRUE)

\* evaluate_shortage: the request and its approval are created, or found as an
\* earlier attempt left them and a manager decided since.  An attempt evaluates
\* the materials its interpretation names, in one attempt these, in another those.
EvaluateShortage(t, a) ==
  /\ phase[t] \in {"started", "pending"}
  /\ approval' = [approval EXCEPT ![a] = IF @ = "none" THEN "pending" ELSE @]
  /\ request' = [request EXCEPT ![a] = IF @ = "none" THEN "awaiting_approval" ELSE @]
  /\ GoOn(t, IF approval'[a] = "pending" /\ request'[a] = "awaiting_approval" THEN "pending" ELSE phase[t])
  /\ UNCHANGED <<outbox, run, site, tries, settled, runAttempt, recorded, asked, output, claims, at,
                 session, executed>>

\* _transition: the run and the update end or pause as s.  The activity of each
\* ending has one key for all attempts but names the attempt: an ending that an
\* earlier one has recorded is an idempotency conflict.  Otherwise an update that
\* is not in progress is an InvalidSiteUpdateTransition, a terminal failure.
EndAttempt(t, s, place) ==
  \/ /\ recorded[s] = 0 /\ InProgress
     /\ site' = s /\ run' = s
     /\ recorded' = [recorded EXCEPT ![s] = t]
     /\ GoOn(t, place)
     /\ UNCHANGED <<decision, tries, settled, runAttempt, asked, output, claims, at, session, executed>>
  \/ recorded[s] = 0 /\ ~ InProgress /\ RecordFailure /\ FailDelivery(t, TRUE)
  \/ recorded[s] # 0 /\ RecordFailure /\ FailDelivery(t, FALSE)

\* wait_for_clarification, when a fact is ambiguous or a safety stop.
WaitForClarification(t) ==
  phase[t] \in {"started", "pending"} /\ EndAttempt(t, "waiting_for_clarification", "paused")

\* wait_for_approval, when an approval is left pending.
WaitForApproval(t) == phase[t] = "pending" /\ EndAttempt(t, "waiting_for_approval", "paused")

\* complete, when none is.
CompleteUpdate(t) == phase[t] = "started" /\ EndAttempt(t, "completed", "ended")

\* ADK persists the RequestInput of the paused workflow in the attempt's session.
RequestInput(t) ==
  /\ phase[t] = "paused"
  /\ asked' = asked \cup {t}
  /\ GoOn(t, "ended")
  /\ UNCHANGED <<decision, run, site, tries, settled, runAttempt, recorded, output, claims, at,
                 session, executed>>

\* The workflow fails or times out in any of its stages, up to the last event of
\* the ADK runner; the failure is recorded, or recording it fails too.
WorkflowFails(t) ==
  /\ phase[t] \in {"loaded", "started", "pending", "paused", "ended"}
  /\ RecordFailure \/ UNCHANGED <<site, run>>
  /\ FailDelivery(t, FALSE)

\* execute returns its output.
Return(t) ==
  /\ phase[t] = "ended"
  /\ GoOn(t, "returned")
  /\ UNCHANGED <<decision, run, site, tries, settled, runAttempt, recorded, asked, output, claims,
                 at, session, executed>>

\* claims.complete, refused when a later delivery has taken the claim over.
SettleUpdate(t) ==
  /\ phase[t] = "returned"
  /\ GoOn(t, "settled")
  /\ settled' = IF t = tries THEN "done" ELSE settled
  /\ UNCHANGED <<decision, run, site, tries, runAttempt, recorded, asked, output, claims,
                 at, session, executed>>

UpdateStep(t) ==
  \/ Load(t) \/ Refuse(t) \/ StartAttempt(t)
  \/ \E a \in Approval : EvaluateShortage(t, a)
  \/ WaitForApproval(t) \/ WaitForClarification(t) \/ CompleteUpdate(t)
  \/ RequestInput(t) \/ WorkflowFails(t) \/ Return(t) \/ SettleUpdate(t)

-----------------------------------------------------------------------------
(* The decision events: resume_approved and ApprovalContinuationService *)

Latest(w) == w[2] = attempts[w[1]]

\* The next delivery of the decision event acquires its claim: the one before
\* it failed, or died, or its lease ran out.
Begin(w) ==
  LET a == w[1] IN
  /\ outbox[a] = "published"
  /\ handled[a] = "open"
  /\ attempts[a] = w[2] - 1
  /\ attempts' = [attempts EXCEPT ![a] = w[2]]
  /\ at' = [at EXCEPT ![w] = approval[a]]
  /\ UNCHANGED <<decision, run, site, update, output, handled, session, executed>>

\* The worker raises; claims.fail counts, unless the claim was lost.
GiveUp(w) ==
  /\ at' = [at EXCEPT ![w] = "failed"]
  /\ handled' = IF Latest(w) /\ w[2] = MaxAttempts
                  THEN [handled EXCEPT ![w[1]] = "dead"] ELSE handled
  /\ UNCHANGED <<decision, run, site, update, output, attempts, session, executed>>

Go(w, place) == at' = [at EXCEPT ![w] = place]

Closed == run = "completed" /\ site = "completed"
PausedForApproval == run = "waiting_for_approval" /\ site = "waiting_for_approval"

\* _load_approved_site_update and the search of the run's ADK session.
AskedOrNot == PausedForApproval \/ InProgress
Asked == (PausedForApproval \/ InProgress) /\ runAttempt \in asked
LoadApproved(w) ==
  /\ at[w] = "approved"
  /\ \/ /\ Closed
        /\ Go(w, "finished")
        /\ UNCHANGED <<decision, run, site, update, output, claims, session, executed>>
     \/ /\ Asked
        /\ session' = [session EXCEPT ![w] = runAttempt]
        /\ Go(w, IF runAttempt \in output THEN "resumed" ELSE "found")
        /\ UNCHANGED <<decision, run, site, update, output, claims, executed>>
     \/ ~ Closed /\ ~ Asked /\ GiveUp(w)

ResumeRunOnly == run' = "running" /\ UNCHANGED site
Resume == run' = "running" /\ site' = "processing"

\* handle_approval_granted: resumes the run, or finds it resumed already.
HandleGranted(w) ==
  /\ at[w] = "found"
  /\ \/ /\ PausedForApproval
        /\ Resume
        /\ Go(w, "granted")
        /\ UNCHANGED <<decision, update, output, claims, session, executed>>
     \/ /\ run \in {"running", "completed"}
        /\ Go(w, "granted")
        /\ UNCHANGED <<decision, run, site, update, output, claims, session, executed>>
     \/ /\ ~ PausedForApproval /\ run \notin {"running", "completed"}
        /\ GiveUp(w)

\* ADK persists the output of the resumed workflow.
PersistOutput(w) ==
  /\ at[w] = "granted"
  /\ output' = output \cup {session[w]}
  /\ Go(w, "resumed")
  /\ UNCHANGED <<decision, run, site, update, claims, session, executed>>

CompletableAlways == TRUE
Completable == InProgress \/ run = "completed"

\* complete_approved_material_workflow
CompleteWorkflow(w) ==
  /\ at[w] = "resumed"
  /\ \/ /\ Completable /\ request[w[1]] = "approved"
        /\ run' = "completed"
        /\ site' = IF run = "running" THEN "completed" ELSE site
        /\ executed' = executed \cup {w[1]}
        /\ Go(w, "finished")
        /\ UNCHANGED <<decision, update, output, claims, session>>
     \/ ~ (Completable /\ request[w[1]] = "approved") /\ GiveUp(w)

RejectableEvenCompleted == run # "failed"
Rejectable == run \in {"waiting_for_approval", "running", "rejected"}

\* handle_approval_rejected: it closes the run, not the site update.
HandleRejected(w) ==
  LET a == w[1] IN
  /\ at[w] = "rejected"
  /\ \/ /\ Rejectable
        /\ request' = [request EXCEPT ![a] = "cancelled"]
        /\ run' = "rejected"
        /\ Go(w, "finished")
        /\ UNCHANGED <<approval, outbox, site, update, output, claims, session, executed>>
     \/ ~ Rejectable /\ GiveUp(w)

\* claims.complete, refused when a later delivery has taken the claim over.
Settle(w) ==
  /\ at[w] = "finished"
  /\ Go(w, "returned")
  /\ handled' = IF Latest(w) THEN [handled EXCEPT ![w[1]] = "done"] ELSE handled
  /\ UNCHANGED <<decision, run, site, update, output, attempts, session, executed>>

\* A timeout, an exception of ADK or of the store, before the claim is settled.
ContinuationFails(w) ==
  /\ at[w] \in {"approved", "found", "granted", "resumed", "rejected"}
  /\ GiveUp(w)

ContinuationStep(w) ==
  \/ Begin(w) \/ LoadApproved(w) \/ HandleGranted(w) \/ PersistOutput(w)
  \/ CompleteWorkflow(w) \/ HandleRejected(w) \/ Settle(w) \/ ContinuationFails(w)

Next ==
  \/ \E a \in Approval : \/ \E verdict \in {"approved", "rejected"} : Decide(a, verdict)
                         \/ Publish(a)
  \/ \E t \in Attempt : UpdateStep(t)
  \/ \E w \in Worker : ContinuationStep(w)

Spec == Init /\ [][Next]_vars

-----------------------------------------------------------------------------
(* Properties *)

TypeOK ==
  /\ approval \in [Approval -> {"none", "pending", "approved", "rejected"}]
  /\ request \in [Approval -> {"none", "awaiting_approval", "approved", "cancelled"}]
  /\ outbox \in [Approval -> {"none", "stored", "published"}]
  /\ run \in {"queued", "running", "failed", "rejected"} \cup Ended
  /\ site \in {"received", "processing", "failed"} \cup Ended
  /\ tries \in 0 .. MaxAttempts /\ settled \in {"open", "done", "dead"}
  /\ phase \in [Attempt -> {"idle", "loaded", "refused", "started", "pending", "paused", "ended",
                            "returned", "settled", "failed"}]
  /\ runAttempt \in 0 .. tries /\ recorded \in [Ended -> 0 .. tries]
  /\ asked \subseteq 1 .. tries /\ output \subseteq asked
  /\ attempts \in [Approval -> 0 .. MaxAttempts]
  /\ handled \in [Approval -> {"open", "done", "dead"}]
  /\ at \in [Worker -> {"idle", "approved", "rejected", "found", "granted", "resumed",
                        "finished", "returned", "failed"}]
  /\ session \in [Worker -> 0 .. MaxAttempts]
  /\ executed \subseteq Approval

\* The run and the site update it belongs to move together, whoever moves
\* them, save that a rejection closes the run and leaves the update behind.
RunAndSiteAgree ==
  \/ <<site, run>> \in {<<"received", "queued">>, <<"processing", "running">>}
  \/ site = run /\ run \in Ended \cup {"failed"}
  \/ run = "rejected" /\ site \in {"processing", "waiting_for_approval"}

\* An external action is on record only for a purchase a manager approved, whose
\* request stands, and only under a run that is completed: no crash, replay or
\* stale delivery gets ahead of the decision.
ExecutedWasGranted ==
  \A a \in executed : approval[a] = "approved" /\ request[a] = "approved" /\ run = "completed"

\* A grant is reported as handled only when its run has come to its end.
HandledGrantClosedTheRun ==
  \A a \in Approval : (handled[a] = "done" /\ approval[a] = "approved")
    => run = "completed" /\ site = "completed"

\* A completed run is never failed, rejected, paused or started again, by a
\* redelivered update, a late decision or a stale worker.
CompletedIsFinal == [][run = "completed" => run' = "completed" /\ site' = site]_vars

\* A run that waits for an approval is left alone until the event of a decision
\* is claimed: neither a stale attempt that fails or finishes, nor a redelivery
\* of the update, nor the decision itself moves it out of its waiting state.
PausedUntilDecided ==
  [][(run = "waiting_for_approval" /\ run' # run) =>
       \E a \in Approval : approval[a] \in {"approved", "rejected"} /\ attempts[a] > 0]_vars

\* "Rejection ... terminalizes the same logical run ... event redelivery cannot
\* execute the external action or terminal transition twice."
RejectedIsFinal == [][run = "rejected" => run' = "rejected"]_vars
=============================================================================
