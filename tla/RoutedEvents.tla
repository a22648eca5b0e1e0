----------------------------- MODULE RoutedEvents -----------------------------
(***************************************************************************)
(* The events that TypedEventService.execute applies under                 *)
(* AdkEventExecutor: tasks completed, blocked or overdue, a shortage, a    *)
(* purchase to watch, the daily brief.  They share the run and the         *)
(* deliveries of DeliveryDelay; a route is the list of the transactions an *)
(* event asks for.  A delivery reads the tasks or the stock first, and     *)
(* works with what it read; what an earlier one has done is replayed.      *)
(* A shortage ends in a purchase request, whose approval is an event of    *)
(* its own, delivered as often and as freely as the first.                 *)
(***************************************************************************)
EXTENDS DeliveryDelay, Sequences

CONSTANT Enough   \* the versions of the stock that leave nothing to buy

ASSUME EnoughAssumption == Enough \subseteq Plan

VARIABLES
  kind,      \* the type of the event
  made,      \* made[s]: the version of the project step s was made for, or None
  watched,   \* whether the purchase that MATERIAL_REQUESTED names is decided
  asked,     \* whether a delivery has left its question in the ADK session
  approval,  \* the approval of the purchase request
  decider,   \* decider[w]: how far delivery w of the decision's event is
  executed   \* whether external_action.executed is recorded

purchase == <<watched, asked, approval, decider, executed>>
routed == <<kind, made, purchase>>
delivery == <<accepted, note, enabled, firestore, thread, held, request, risk, followUp>>
allVars == <<vars, routed>>

\* _execute_route: what each event does, in order. The first of "issue" and
\* "request" is made from what was read before; a message repeats what it says.
Route ==
  [TASK_COMPLETED |-> <<"completeTask">>,
   TASK_BLOCKED |-> <<"issue", "block", "blockAnother">>,
   TASK_BLOCKED_HIGH |-> <<"issue", "block", "blockAnother", "escalate">>,
   TASK_OVERDUE |-> <<"issue", "warn">>,
   DAILY_BRIEF_REQUESTED |-> <<"brief">>,
   MATERIAL_REQUESTED |-> <<"observe">>,
   MATERIAL_LOW |-> <<"request">>]

StepName == UNION {{Route[k][i] : i \in DOMAIN Route[k]} : k \in DOMAIN Route}
Kind == {"DELIVERY_DELAYED"} \cup DOMAIN Route
Steps == Route[kind]

\* A replay of these is compared with what is wanted now.
ComparedNever == {}
Compared == {"issue", "request"}

\* These carry the version of a task that was read before.
Versioned == {"completeTask", "block", "blockAnother"}

RoutedInit ==
  /\ Init
  /\ kind \in Kind
  /\ kind # "DELIVERY_DELAYED" => ~enabled /\ ~firestore   \* these send nothing
  /\ made = [s \in StepName |-> None]
  /\ watched \in (IF kind = "MATERIAL_REQUESTED" THEN BOOLEAN ELSE {FALSE})
  /\ asked = FALSE
  /\ approval = "none" /\ executed = FALSE
  /\ decider = [w \in Delivery |-> "idle"]

-----------------------------------------------------------------------------
(* A delivery of the event *)

\* The tasks are listed, or the material is resolved, outside of a transaction.
\* A shortage that is gone asks for nothing, whatever was asked for before.
ReadProject(d) ==
  /\ flow[d] = "assess"
  /\ assessed' = [assessed EXCEPT ![d] = plan]
  /\ Go(d, IF kind = "MATERIAL_LOW" /\ plan \in Enough THEN "closing" ELSE Steps[1])
  /\ UNCHANGED <<delivery, plan, run, begun, handled, routed>>

\* Whether the run has to wait: for the purchase it asked for, or for one that
\* it watches and that is not decided.
WaitsForWatched == kind = "MATERIAL_REQUESTED" /\ ~watched
Waits == kind = "MATERIAL_LOW" \/ (kind = "MATERIAL_REQUESTED" /\ ~watched)

After(s) ==
  LET i == CHOOSE i \in DOMAIN Steps : Steps[i] = s
  IN IF i < Len(Steps) THEN Steps[i + 1] ELSE IF Waits THEN "pausing" ELSE "closing"

\* One transaction of the route: made, replayed, or refused for a version or a
\* replay that differs.
MakeStep(d) ==
  LET s == flow[d]
      basis == IF s = "brief" THEN plan ELSE assessed[d]
      makes == made[s] = None /\ (s \in Versioned => plan = basis)
      replays == made[s] # None /\ (s \in Compared => Matches(made[s], basis))
  IN
  /\ s \in StepName
  /\ made' = IF makes THEN [made EXCEPT ![s] = basis] ELSE made
  /\ approval' = IF makes /\ s = "request" THEN "pending" ELSE approval
  /\ Go(d, IF makes \/ replays THEN After(s) ELSE "failing")
  /\ UNCHANGED <<delivery, plan, run, begun, handled, assessed, kind, watched, asked, decider, executed>>

\* _pause_for_approval, whatever has become of the run. The question is stored
\* in the ADK session when the call returns.
PauseRun(d) ==
  /\ flow[d] = "pausing"
  /\ run' = "waiting"
  /\ Go(d, "ask")
  /\ UNCHANGED <<delivery, plan, begun, handled, assessed, routed>>

Ask(d) ==
  /\ flow[d] = "ask"
  /\ asked' = TRUE
  /\ Go(d, "finished")
  /\ UNCHANGED <<delivery, plan, run, begun, handled, assessed, kind, made, watched, approval, decider, executed>>

CloseRun(d) ==
  /\ flow[d] = "closing"
  /\ run' = "completed"
  /\ Go(d, "finished")
  /\ UNCHANGED <<delivery, plan, begun, handled, assessed, routed>>

\* The store fails, or the workflow after it: a failure of the call itself no
\* longer fails the run.
Break(d) ==
  /\ \/ flow[d] \in StepName \cup {"pausing", "closing"} /\ Go(d, "failing")
     \/ flow[d] = "ask" /\ Go(d, "failed")
  /\ UNCHANGED <<delivery, plan, run, begun, handled, assessed, routed>>

-----------------------------------------------------------------------------
(* The purchase and its approval *)

\* The purchase that is watched is decided, by its own workflow.
WatchedDecided ==
  /\ kind = "MATERIAL_REQUESTED" /\ ~watched
  /\ watched' = TRUE
  /\ UNCHANGED <<vars, kind, made, asked, approval, decider, executed>>

Decide ==
  /\ approval = "pending"
  /\ approval' \in {"approved", "rejected"}
  /\ UNCHANGED <<vars, kind, made, watched, asked, decider, executed>>

At(w, place) == decider' = [decider EXCEPT ![w] = place]
Closed == {"done", "failed"}

\* The decision's event is claimed once more.
TakeDecision(w) ==
  /\ approval \in {"approved", "rejected"}
  /\ decider[w] = "idle" /\ (w > 1 => decider[w - 1] # "idle")
  /\ "done" \notin {decider[v] : v \in Delivery}
  /\ At(w, approval)
  /\ UNCHANGED <<vars, kind, made, watched, asked, approval, executed>>

ResumableRun == run \in {"waiting", "running", "completed"}

\* AdkEventExecutor.resume_approved: the session must hold the question, and
\* handle_approval_granted sets the run going again.
ResumeRun(w) ==
  /\ decider[w] = "approved"
  /\ IF asked /\ ResumableRun
       THEN run' = (IF run = "waiting" THEN "running" ELSE run) /\ At(w, "resumed")
       ELSE UNCHANGED run /\ At(w, "failed")
  /\ UNCHANGED <<work, delivery, begun, handled, flow, assessed, kind, made, watched, asked, approval, executed>>

\* complete_approved_material_workflow
ExecutePurchase(w) ==
  /\ decider[w] = "resumed"
  /\ IF run \in {"running", "completed"}
       THEN run' = "completed" /\ executed' = TRUE /\ At(w, "done")
       ELSE UNCHANGED <<run, executed>> /\ At(w, "failed")
  /\ UNCHANGED <<work, delivery, begun, handled, flow, assessed, kind, made, watched, asked, approval>>

\* handle_approval_rejected
RejectRun(w) ==
  /\ decider[w] = "rejected"
  /\ IF run \in {"waiting", "running", "rejected"}
       THEN run' = "rejected" /\ At(w, "done")
       ELSE UNCHANGED run /\ At(w, "failed")
  /\ UNCHANGED <<work, delivery, begun, handled, flow, assessed, kind, made, watched, asked, approval, executed>>

\* The worker of a decision fails or dies.
LoseDecider(w) ==
  /\ decider[w] \in {"approved", "rejected", "resumed"}
  /\ At(w, "failed")
  /\ UNCHANGED <<vars, kind, made, watched, asked, approval, executed>>

-----------------------------------------------------------------------------
RouteStep(d) ==
  \/ (Begin(d) \/ StartRun(d) \/ Raise(d) \/ FailRun(d) \/ Settle(d) \/ Crash(d)) /\ UNCHANGED routed
  \/ ReadProject(d) \/ MakeStep(d) \/ PauseRun(d) \/ Ask(d) \/ CloseRun(d) \/ Break(d)

DeciderStep(w) == TakeDecision(w) \/ ResumeRun(w) \/ ExecutePurchase(w) \/ RejectRun(w) \/ LoseDecider(w)

RoutedNext ==
  \/ kind = "DELIVERY_DELAYED" /\ Next /\ UNCHANGED routed
  \/ kind # "DELIVERY_DELAYED" /\ (\E d \in Delivery : RouteStep(d) \/ DeciderStep(d))
  \/ kind # "DELIVERY_DELAYED" /\ (Decide \/ WatchedDecided \/ (ChangePlan /\ UNCHANGED routed))

RoutedSpec == RoutedInit /\ [][RoutedNext]_allVars /\ Fairness

-----------------------------------------------------------------------------
(* Properties *)

\* The shape of the state. A run of these events waits, and is rejected.
RoutedTypeOK ==
  /\ kind \in Kind
  /\ IF kind = "DELIVERY_DELAYED" THEN TypeOK
     ELSE /\ run \in {"none", "running", "waiting", "failed", "rejected", "completed"}
          /\ plan \in Plan /\ assessed \in [Delivery -> Plan \cup {None}]
          /\ begun \in 0 .. MaxDeliveries /\ handled \in {"open", "done", "dead"}
          /\ flow \in [Delivery -> StepName \cup {"idle", "start", "assess", "pausing", "ask", "closing",
                                    "finished", "failing", "failed", "ended", "lost"}]
  /\ made \in [StepName -> Plan \cup {None}]
  /\ {watched, asked, executed} \subseteq BOOLEAN
  /\ approval \in {"none", "pending", "approved", "rejected"}
  /\ approval = "none" <=> made["request"] = None
  /\ decider \in [Delivery -> Closed \cup {"idle", "approved", "rejected", "resumed"}]

\* A run ends, and its event is handled, only when all that the event asks for
\* is on record; a shortage ends with the purchase that was approved or with a
\* stock that has been found sufficient (TypedEventService.execute, resume.py).
RouteIsDone ==
  LET enough == kind = "MATERIAL_LOW" /\ \E d \in Delivery : assessed[d] \in Enough
  IN /\ handled = "done" \/ run \in {"waiting", "completed"} =>
          enough \/ \A i \in DOMAIN Steps : made[Steps[i]] # None
     /\ kind = "MATERIAL_LOW" /\ run = "completed" => executed \/ enough
     /\ executed => approval = "approved"
HandledMeansDone == IF kind = "DELIVERY_DELAYED" THEN CompletedMeansNotified ELSE RouteIsDone

\* Whatever edits the deliveries that wrote them have seen, the records of one
\* event tell one story: the issue, the tasks it blocks and the warning of a
\* routed event, or the assessment of a delay.
OneStory ==
  IF kind = "DELIVERY_DELAYED" THEN OneAssessment
  ELSE \A i \in DOMAIN Steps : made[Steps[i]] \in {None, made[Steps[1]]}
=============================================================================
