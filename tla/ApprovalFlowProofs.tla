-------------------------- MODULE ApprovalFlowProofs --------------------------
(***************************************************************************)
(* Theorems about ApprovalFlow, for any number of approvals and of         *)
(* deliveries of each event.                                               *)
(***************************************************************************)
EXTENDS ApprovalFlow, TLAPS

-----------------------------------------------------------------------------
(* How the run moves *)

\* All the moves of a run and its update, whoever makes them: they are started,
\* ended, resumed or rejected, or neither moves.
RunMove ==
  \/ UNCHANGED <<run, site>>
  \/ \E t \in Attempt : Startable(t) /\ site' = "processing" /\ run' = "running"
  \/ InProgress /\ site' = run' /\ run' \in Ended \cup {"failed"}
  \/ PausedForApproval /\ Resume /\ \E w \in Worker : at[w] = "found"
  \/ Rejectable /\ run' = "rejected" /\ site' = site /\ \E w \in Worker : at[w] = "rejected"

\* Every step of the system makes one of these moves.
LEMMA EveryStepMoves == ASSUME [Next]_vars PROVE RunMove
<1>1. CASE UNCHANGED vars
  BY <1>1 DEF vars, RunMove
<1>2. ASSUME NEW a \in Approval, NEW verdict \in {"approved", "rejected"}, Decide(a, verdict)
      PROVE RunMove
  BY <1>2 DEF Decide, RunMove
<1>3. ASSUME NEW a \in Approval, Publish(a) PROVE RunMove
  BY <1>3 DEF Publish, RunMove
<1>4. ASSUME NEW t \in Attempt, UpdateStep(t) PROVE RunMove
  <2>1. CASE Load(t) \/ RequestInput(t) \/ Return(t) \/ SettleUpdate(t) \/ Refuse(t)
    BY <2>1 DEF Load, RequestInput, Return, SettleUpdate, Refuse, RunMove
  <2>2. CASE \E a \in Approval : EvaluateShortage(t, a)
    BY <2>2 DEF EvaluateShortage, RunMove
  <2>3. CASE StartAttempt(t)
    BY <2>3 DEF StartAttempt, RecordFailure, RunMove
  <2>4. ASSUME NEW s \in Ended, NEW place, EndAttempt(t, s, place) PROVE RunMove
    BY <2>4 DEF EndAttempt, RecordFailure, RunMove
  <2>5. CASE WaitForApproval(t) \/ WaitForClarification(t) \/ CompleteUpdate(t)
    BY <2>4, <2>5 DEF WaitForApproval, WaitForClarification, CompleteUpdate, Ended
  <2>6. CASE WorkflowFails(t)
    BY <2>6 DEF WorkflowFails, RecordFailure, RunMove
  <2>q. QED BY <1>4, <2>1, <2>2, <2>3, <2>5, <2>6 DEF UpdateStep
<1>5. ASSUME NEW w \in Worker, ContinuationStep(w) PROVE RunMove
  <2>1. CASE Begin(w) \/ LoadApproved(w) \/ PersistOutput(w) \/ Settle(w) \/ ContinuationFails(w)
    BY <2>1 DEF Begin, LoadApproved, PersistOutput, Settle, ContinuationFails, GiveUp, RunMove
  <2>2. CASE HandleGranted(w)
    BY <2>2 DEF HandleGranted, GiveUp, RunMove
  <2>3. CASE CompleteWorkflow(w)
    BY <2>3 DEF CompleteWorkflow, Completable, InProgress, GiveUp, Ended, RunMove
  <2>4. CASE HandleRejected(w)
    BY <2>4 DEF HandleRejected, GiveUp, RunMove
  <2>q. QED BY <1>5, <2>1, <2>2, <2>3, <2>4 DEF ContinuationStep
<1>q. QED BY <1>1, <1>2, <1>3, <1>4, <1>5 DEF Next

\* The run and the update move together.
LEMMA AgreeStep == ASSUME RunAndSiteAgree, [Next]_vars PROVE RunAndSiteAgree'
  BY EveryStepMoves DEF RunMove, RunAndSiteAgree, Startable, InProgress, PausedForApproval,
     Resume, Rejectable, Ended

\* A completed run is out of the reach of every move.
LEMMA CompletedStays ==
  ASSUME RunAndSiteAgree, run = "completed", [Next]_vars
  PROVE  run' = "completed" /\ site' = site
  BY EveryStepMoves DEF RunMove, Startable, InProgress, PausedForApproval, Rejectable

\* The run and the site update it belongs to never part, except that a
\* rejection closes the run alone.
THEOREM MoveTogether == Spec => []RunAndSiteAgree
<1>1. Init => RunAndSiteAgree
  BY DEF Init, RunAndSiteAgree
<1>2. RunAndSiteAgree /\ [Next]_vars => RunAndSiteAgree'
  BY AgreeStep
<1>q. QED BY <1>1, <1>2, PTL DEF Spec

\* No redelivery, late decision or stale worker moves a completed run.
THEOREM EndIsEnd == Spec => CompletedIsFinal
<1>1. RunAndSiteAgree /\ [Next]_vars
        => [run = "completed" => run' = "completed" /\ site' = site]_vars
  BY CompletedStays
<1>q. QED BY <1>1, MoveTogether, PTL DEF Spec, CompletedIsFinal
-----------------------------------------------------------------------------
(* The inductive invariant, by the part of the state it is about *)

Verdict == {"approved", "rejected"}
OnGrant == {"approved", "found", "granted", "resumed"}

\* An approval and its request are decided together, and only a decision is announced.
Decisions ==
  /\ approval \in [Approval -> {"none", "pending", "approved", "rejected"}]
  /\ request \in [Approval -> {"none", "awaiting_approval", "approved", "cancelled"}]
  /\ outbox \in [Approval -> {"none", "stored", "published"}]
  /\ \A a \in Approval :
       /\ outbox[a] # "none" => approval[a] \in Verdict
       /\ approval[a] = "none" <=> request[a] = "none"
       /\ approval[a] = "pending" => request[a] = "awaiting_approval"
       /\ approval[a] = "approved" <=> request[a] = "approved"

\* A delivery of the update that has begun is counted.
Updates ==
  /\ tries \in 0 .. MaxAttempts /\ settled \in {"open", "done", "dead"}
  /\ phase \in [Attempt -> {"idle", "loaded", "refused", "started", "pending", "paused", "ended",
                            "returned", "settled", "failed"}]
  /\ runAttempt \in 0 .. tries /\ recorded \in [Ended -> 0 .. tries]
  /\ asked \subseteq 1 .. tries /\ output \subseteq asked
  /\ \A t \in Attempt : phase[t] # "idle" => t <= tries

\* A delivery of a decision was begun under a claim, knows the decision, and
\* resumes a session that asked for it.
Workers ==
  /\ attempts \in [Approval -> 0 .. MaxAttempts]
  /\ handled \in [Approval -> {"open", "done", "dead"}]
  /\ at \in [Worker -> {"idle", "approved", "rejected", "found", "granted", "resumed",
                        "finished", "returned", "failed"}]
  /\ session \in [Worker -> 0 .. MaxAttempts]
  /\ executed \subseteq Approval
  /\ \A w \in Worker :
       /\ at[w] # "idle" => attempts[w[1]] > 0 /\ approval[w[1]] \in Verdict
       /\ at[w] \in {"found", "granted", "resumed"} => session[w] \in asked
       /\ at[w] \in OnGrant => approval[w[1]] = "approved"
       /\ at[w] = "rejected" => approval[w[1]] = "rejected"
  /\ \A a \in Approval : handled[a] = "done" => approval[a] \in Verdict

\* A delivery of a grant finishes only with the run.
Finished ==
  \A w \in Worker : at[w] = "finished" /\ approval[w[1]] = "approved" => Closed

IInv ==
  /\ RunAndSiteAgree /\ Decisions /\ Updates /\ Workers
  /\ Finished /\ ExecutedWasGranted /\ HandledGrantClosedTheRun

LEMMA WorkerParts == ASSUME NEW w \in Worker PROVE w[1] \in Approval /\ w[2] \in Attempt
  BY DEF Worker

LEMMA TypesOfParts == RunAndSiteAgree /\ Decisions /\ Updates /\ Workers => TypeOK
  BY DEF RunAndSiteAgree, Decisions, Updates, Workers, TypeOK, Ended

LEMMA InitIInv == Init => IInv
<1> SUFFICES ASSUME Init PROVE IInv
  OBVIOUS
<1> USE FlowAssumption DEF Init
<1>1. RunAndSiteAgree
  BY DEF RunAndSiteAgree
<1>2. Decisions
  BY DEF Decisions, Verdict
<1>3. Updates
  BY DEF Updates, Attempt, Ended
<1>4. Workers
  BY WorkerParts DEF Workers, OnGrant
<1>5. Finished /\ ExecutedWasGranted /\ HandledGrantClosedTheRun
  BY DEF Finished, ExecutedWasGranted, HandledGrantClosedTheRun
<1>q. QED BY <1>1, <1>2, <1>3, <1>4, <1>5 DEF IInv

-----------------------------------------------------------------------------
(* The decisions *)

\* The steps that touch a decision.
LEMMA DecisionMove ==
  ASSUME [Next]_vars
  PROVE  \/ UNCHANGED decision
         \/ \E a \in Approval, verdict \in Verdict : Decide(a, verdict)
         \/ \E a \in Approval : Publish(a)
         \/ \E t \in Attempt, a \in Approval : EvaluateShortage(t, a)
         \/ \E w \in Worker : HandleRejected(w)
<1> DEFINE Untouched == UNCHANGED decision
<1>1. CASE UNCHANGED vars
  BY <1>1 DEF vars
<1>2. ASSUME NEW t \in Attempt, UpdateStep(t), \A a \in Approval : ~ EvaluateShortage(t, a)
      PROVE  Untouched
  BY <1>2 DEF UpdateStep, Load, Refuse, StartAttempt, WaitForApproval, WaitForClarification,
     CompleteUpdate, EndAttempt, FailDelivery, RequestInput, WorkflowFails, Return, SettleUpdate
<1>3. ASSUME NEW w \in Worker, ContinuationStep(w), ~ HandleRejected(w) PROVE Untouched
  BY <1>3 DEF ContinuationStep, Begin, LoadApproved, HandleGranted, PersistOutput, CompleteWorkflow,
     Settle, ContinuationFails, GiveUp
<1>q. QED BY <1>1, <1>2, <1>3 DEF Next, Verdict

LEMMA DecisionsStep == ASSUME Decisions, Workers, [Next]_vars PROVE Decisions'
<1> USE DEF Decisions, Verdict
<1>1. CASE UNCHANGED decision
  BY <1>1 DEF decision
<1>2. ASSUME NEW a \in Approval, NEW verdict \in Verdict, Decide(a, verdict) PROVE Decisions'
  BY <1>2 DEF Decide
<1>3. ASSUME NEW a \in Approval, Publish(a) PROVE Decisions'
  BY <1>3 DEF Publish
<1>4. ASSUME NEW t \in Attempt, NEW a \in Approval, EvaluateShortage(t, a) PROVE Decisions'
  BY <1>4 DEF EvaluateShortage
<1>5. ASSUME NEW w \in Worker, HandleRejected(w) PROVE Decisions'
  <2>1. w[1] \in Approval /\ approval[w[1]] = "rejected"
    BY <1>5, WorkerParts DEF HandleRejected, Workers
  <2>2. \/ request' = [request EXCEPT ![w[1]] = "cancelled"] /\ UNCHANGED <<approval, outbox>>
        \/ UNCHANGED decision
    BY <1>5 DEF HandleRejected, GiveUp
  <2>q. QED BY <2>1, <2>2 DEF decision
<1>q. QED BY <1>1, <1>2, <1>3, <1>4, <1>5, DecisionMove

\* A decision is never taken back, nor is the request it settled.
LEMMA DecisionStays ==
  ASSUME Decisions, Workers, [Next]_vars, NEW a \in Approval, approval[a] \in Verdict
  PROVE  approval'[a] = approval[a]
<1> USE DEF Decisions, Verdict
<1>1. CASE UNCHANGED approval
  BY <1>1
<1>2. ASSUME NEW b \in Approval, NEW verdict \in Verdict, Decide(b, verdict)
      PROVE approval'[a] = approval[a]
  BY <1>2 DEF Decide
<1>3. ASSUME NEW t \in Attempt, NEW b \in Approval, EvaluateShortage(t, b)
      PROVE approval'[a] = approval[a]
  BY <1>3 DEF EvaluateShortage
<1>q. QED BY <1>1, <1>2, <1>3, DecisionMove DEF decision, Publish, HandleRejected, GiveUp

-----------------------------------------------------------------------------
(* The deliveries of the update *)

LEMMA UpdateMove ==
  ASSUME [Next]_vars
  PROVE  \/ UNCHANGED <<update, output>>
         \/ \E t \in Attempt : UpdateStep(t)
         \/ \E w \in Worker : PersistOutput(w)
<1>1. CASE UNCHANGED vars
  BY <1>1 DEF vars
<1>2. ASSUME NEW w \in Worker, ContinuationStep(w), ~ PersistOutput(w)
      PROVE  UNCHANGED <<update, output>>
  BY <1>2 DEF ContinuationStep, Begin, LoadApproved, HandleGranted, HandleRejected, CompleteWorkflow,
     Settle, ContinuationFails, GiveUp
<1>q. QED BY <1>1, <1>2 DEF Next, Decide, Publish

LEMMA UpdatesStep ==
  ASSUME Updates, Workers, [Next]_vars
  PROVE  Updates' /\ asked \subseteq asked'
<1> DEFINE Goal == Updates' /\ asked \subseteq asked'
<1> USE FlowAssumption DEF Updates, Attempt
<1>1. CASE UNCHANGED <<update, output>>
  BY <1>1 DEF update
<1>2. ASSUME NEW t \in Attempt, UpdateStep(t) PROVE Goal
  <2> USE DEF GoOn
  <2>1. CASE Load(t)
    BY <2>1 DEF Load
  <2>2. ASSUME NEW terminal \in BOOLEAN, FailDelivery(t, terminal), phase[t] # "idle" PROVE Goal
    BY <2>2 DEF FailDelivery
  <2>3. CASE Refuse(t)
    BY <2>2, <2>3 DEF Refuse
  <2>4. CASE StartAttempt(t)
    <3>1. CASE Startable(t)
      <4>1. /\ runAttempt' = t
            /\ phase' = [phase EXCEPT ![t] = "started"]
            /\ UNCHANGED <<tries, settled, recorded, asked, output>>
        BY <2>4, <3>1 DEF StartAttempt
      <4>2. t \in 0 .. tries
        BY <2>4 DEF StartAttempt
      <4>q. QED BY <4>1, <4>2
    <3>2. CASE FailDelivery(t, TRUE)
      BY <2>2, <2>4, <3>2 DEF StartAttempt
    <3>q. QED BY <2>4, <3>1, <3>2 DEF StartAttempt
  <2>5. ASSUME NEW a \in Approval, EvaluateShortage(t, a) PROVE Goal
    BY <2>5 DEF EvaluateShortage
  <2>6. ASSUME NEW s \in Ended, NEW place \in {"paused", "ended"}, EndAttempt(t, s, place),
               phase[t] # "idle"
        PROVE Goal
    <3>1. CASE recorded[s] = 0 /\ InProgress
      <4>1. /\ recorded' = [recorded EXCEPT ![s] = t]
            /\ phase' = [phase EXCEPT ![t] = place]
            /\ UNCHANGED <<tries, settled, runAttempt, asked, output>>
        BY <2>6, <3>1 DEF EndAttempt
      <4>2. t \in 0 .. tries
        BY <2>6
      <4>q. QED BY <4>1, <4>2, <2>6
    <3>2. CASE \E terminal \in BOOLEAN : FailDelivery(t, terminal)
      BY <2>2, <2>6, <3>2
    <3>q. QED BY <2>6, <3>1, <3>2 DEF EndAttempt
  <2>7. CASE WaitForApproval(t) \/ WaitForClarification(t) \/ CompleteUpdate(t)
    BY <2>6, <2>7 DEF WaitForApproval, WaitForClarification, CompleteUpdate, Ended
  <2>8. CASE RequestInput(t)
    BY <2>8 DEF RequestInput
  <2>9. CASE WorkflowFails(t)
    BY <2>2, <2>9 DEF WorkflowFails
  <2>10. CASE Return(t)
    BY <2>10 DEF Return
  <2>11. CASE SettleUpdate(t)
    BY <2>11 DEF SettleUpdate
  <2>q. QED BY <1>2, <2>1, <2>3, <2>4, <2>5, <2>7, <2>8, <2>9, <2>10, <2>11 DEF UpdateStep
<1>3. ASSUME NEW w \in Worker, PersistOutput(w) PROVE Goal
  BY <1>3 DEF PersistOutput, Workers, update
<1>q. QED BY <1>1, <1>2, <1>3, UpdateMove

-----------------------------------------------------------------------------
(* The deliveries of the decisions *)

LEMMA WorkerMove ==
  ASSUME [Next]_vars
  PROVE  \/ UNCHANGED <<claims, at, session, executed>>
         \/ \E w \in Worker : ContinuationStep(w)
<1>1. CASE UNCHANGED vars
  BY <1>1 DEF vars
<1>2. ASSUME NEW t \in Attempt, UpdateStep(t) PROVE UNCHANGED <<claims, at, session, executed>>
  BY <1>2 DEF UpdateStep, Load, Refuse, StartAttempt, EvaluateShortage, WaitForApproval,
     WaitForClarification, CompleteUpdate, EndAttempt, FailDelivery, RequestInput, WorkflowFails,
     Return, SettleUpdate
<1>q. QED BY <1>1, <1>2 DEF Next, Decide, Publish

LEMMA WorkersStep == ASSUME Decisions, Updates, Workers, [Next]_vars PROVE Workers'
<1>a. asked \subseteq asked'
  BY UpdatesStep
<1>b. \A a \in Approval : approval[a] \in Verdict => approval'[a] = approval[a]
  BY DecisionStays
<1> USE DEF Workers, Verdict, OnGrant
<1>1. CASE UNCHANGED <<claims, at, session, executed>>
  BY <1>1, <1>a, <1>b, WorkerParts DEF claims
<1>2. ASSUME NEW w \in Worker, ContinuationStep(w) PROVE Workers'
  <2> USE WorkerParts, <1>a, <1>b DEF Go, claims
  <2>1. CASE Begin(w)
    BY <2>1, FlowAssumption DEF Begin, Decisions, Attempt
  <2>2. ASSUME GiveUp(w), at[w] # "idle" PROVE Workers'
    BY <2>2 DEF GiveUp
  <2>3. CASE LoadApproved(w) /\ ~ GiveUp(w)
    BY <2>3, FlowAssumption DEF LoadApproved, Asked, Updates
  <2>4. CASE HandleGranted(w) /\ ~ GiveUp(w)
    BY <2>4 DEF HandleGranted
  <2>5. CASE PersistOutput(w)
    BY <2>5 DEF PersistOutput
  <2>6. CASE CompleteWorkflow(w) /\ ~ GiveUp(w)
    BY <2>6 DEF CompleteWorkflow
  <2>7. CASE HandleRejected(w) /\ ~ GiveUp(w)
    BY <2>7 DEF HandleRejected
  <2>8. CASE Settle(w)
    BY <2>8 DEF Settle
  <2>9. Begin(w) \/ at[w] # "idle"
    BY <1>2 DEF ContinuationStep, LoadApproved, HandleGranted, PersistOutput, CompleteWorkflow,
       HandleRejected, Settle, ContinuationFails
  <2>q. QED BY <1>2, <2>1, <2>2, <2>3, <2>4, <2>5, <2>6, <2>7, <2>8, <2>9
             DEF ContinuationStep, ContinuationFails
<1>q. QED BY <1>1, <1>2, WorkerMove

-----------------------------------------------------------------------------
(* The end of the run *)

LEMMA ClosingStep ==
  ASSUME IInv, [Next]_vars
  PROVE  Finished' /\ ExecutedWasGranted' /\ HandledGrantClosedTheRun'
<1>a. Closed => Closed'
  BY CompletedStays DEF IInv, Closed
<1>b. \A a \in Approval : approval[a] \in Verdict => approval'[a] = approval[a]
  BY DecisionStays DEF IInv
<1>c. Decisions' /\ Workers'
  BY DecisionsStep, WorkersStep DEF IInv
<1>d. run = "completed" => run' = "completed"
  BY CompletedStays DEF IInv
<1>1. ExecutedWasGranted'
  <2> SUFFICES ASSUME NEW a \in executed' PROVE approval'[a] = "approved" /\ run' = "completed"
    BY <1>c DEF ExecutedWasGranted, Decisions, Workers
  <2>1. CASE a \in executed
    BY <2>1, <1>b, <1>d DEF IInv, ExecutedWasGranted, Workers, Verdict
  <2>2. ASSUME NEW w \in Worker, CompleteWorkflow(w), a = w[1], a \notin executed
        PROVE approval'[a] = "approved" /\ run' = "completed"
    BY <2>2, <1>b, WorkerParts DEF CompleteWorkflow, GiveUp, IInv, Workers, OnGrant, Verdict
  <2>3. CASE a \notin executed
    <3>1. PICK w \in Worker : ContinuationStep(w)
      BY <2>3, WorkerMove
    <3>2. CompleteWorkflow(w) /\ a = w[1]
      BY <2>3, <3>1 DEF ContinuationStep, Begin, LoadApproved, HandleGranted, PersistOutput,
         CompleteWorkflow, HandleRejected, Settle, ContinuationFails, GiveUp
    <3>q. QED BY <2>2, <2>3, <3>2
  <2>q. QED BY <2>1, <2>3
<1>2. Finished'
  <2> SUFFICES ASSUME NEW v \in Worker, at'[v] = "finished", approval'[v[1]] = "approved"
               PROVE  Closed'
    BY DEF Finished
  <2>1. CASE at[v] = "finished"
    BY <2>1, <1>a, <1>b, WorkerParts DEF IInv, Finished, Workers
  <2>2. CASE at[v] # "finished"
    <3>1. PICK w \in Worker : ContinuationStep(w)
      BY <2>2, WorkerMove
    <3>2. v = w
      BY <2>2, <3>1 DEF ContinuationStep, Begin, LoadApproved, HandleGranted, PersistOutput,
         CompleteWorkflow, HandleRejected, Settle, ContinuationFails, GiveUp, Go, IInv, Workers
    <3>3. ~ GiveUp(w)
      BY <2>2, <3>2 DEF GiveUp, IInv, Workers
    <3>4. ~ Begin(w)
      BY <2>2, <3>2, WorkerParts DEF Begin, IInv, Workers, Decisions
    <3>5. ~ HandleGranted(w) /\ ~ PersistOutput(w) /\ ~ Settle(w)
      BY <2>2, <3>2, <3>3 DEF HandleGranted, PersistOutput, Settle, Go, IInv, Workers
    <3>6. CASE LoadApproved(w)
      BY <2>2, <3>2, <3>6, <3>3 DEF LoadApproved, Go, Closed, IInv, Workers
    <3>7. CASE CompleteWorkflow(w)
      BY <3>7, <3>3 DEF CompleteWorkflow, Completable, InProgress, Closed, IInv, RunAndSiteAgree
    <3>8. CASE HandleRejected(w)
      BY <2>2, <3>2, <3>8, <3>3, <1>b, WorkerParts DEF HandleRejected, IInv, Workers, Verdict
    <3>q. QED BY <3>1, <3>6, <3>7, <3>8, <3>3, <3>4, <3>5 DEF ContinuationStep, ContinuationFails
  <2>q. QED BY <2>1, <2>2
<1>3. HandledGrantClosedTheRun'
  <2> SUFFICES ASSUME NEW a \in Approval, handled'[a] = "done", approval'[a] = "approved"
               PROVE  Closed'
    BY DEF HandledGrantClosedTheRun, Closed
  <2>1. CASE handled[a] = "done"
    BY <2>1, <1>a, <1>b DEF IInv, HandledGrantClosedTheRun, Closed, Workers
  <2>2. CASE handled[a] # "done"
    <3>1. PICK w \in Worker : ContinuationStep(w)
      BY <2>2, WorkerMove DEF claims
    <3>2. Settle(w) /\ a = w[1]
      BY <2>2, <3>1, WorkerParts DEF ContinuationStep, Begin, LoadApproved, HandleGranted,
         PersistOutput, CompleteWorkflow, HandleRejected, Settle, ContinuationFails, GiveUp, claims,
         IInv, Workers
    <3>q. QED BY <3>2, <1>a DEF Settle, decision, IInv, Finished
  <2>q. QED BY <2>1, <2>2
<1>q. QED BY <1>1, <1>2, <1>3

\* The parts of the invariant hold together.
THEOREM Invariance == Spec => []IInv
<1>1. IInv /\ [Next]_vars => IInv'
  BY AgreeStep, DecisionsStep, UpdatesStep, WorkersStep, ClosingStep DEF IInv
<1>q. QED BY InitIInv, <1>1, PTL DEF Spec

\* The state is well formed, whoever overlaps with whom.
THEOREM TypeCorrect == Spec => []TypeOK
<1>1. IInv => TypeOK
  BY TypesOfParts DEF IInv
<1>q. QED BY <1>1, Invariance, PTL

\* No external action is on record without a standing decision and a completed run.
THEOREM ExecutedOnlyIfGranted == Spec => []ExecutedWasGranted
<1>1. IInv => ExecutedWasGranted
  BY DEF IInv
<1>q. QED BY <1>1, Invariance, PTL

\* A grant whose event was handled has seen its run to the end.
THEOREM GrantsClose == Spec => []HandledGrantClosedTheRun
<1>1. IInv => HandledGrantClosedTheRun
  BY DEF IInv
<1>q. QED BY <1>1, Invariance, PTL

\* Only the claimed event of a decision moves a run that waits for approval.
THEOREM PauseHolds == Spec => PausedUntilDecided
<1>1. ASSUME IInv, [Next]_vars, run = "waiting_for_approval", run' # run
      PROVE  \E a \in Approval : approval[a] \in {"approved", "rejected"} /\ attempts[a] > 0
  <2>1. \E w \in Worker : at[w] \in {"found", "rejected"}
    BY <1>1, EveryStepMoves DEF RunMove, Startable, InProgress
  <2>q. QED BY <1>1, <2>1, WorkerParts DEF IInv, Workers, Verdict
<1>2. IInv /\ [Next]_vars
        => [(run = "waiting_for_approval" /\ run' # run) =>
              \E a \in Approval : approval[a] \in {"approved", "rejected"} /\ attempts[a] > 0]_vars
  BY <1>1
<1>q. QED BY <1>2, Invariance, PTL DEF Spec, PausedUntilDecided
=============================================================================
