-------------------------- MODULE RoutedEventsProofs --------------------------
(***************************************************************************)
(* Theorems about RoutedEvents and the delayed delivery it contains, for   *)
(* any number of deliveries and attempts, any edits of the project and any *)
(* stock.  The kind of the event is chosen once, so the invariant is that  *)
(* of the delay or that of the route.                                      *)
(***************************************************************************)
EXTENDS RoutedEvents, TLAPS

-----------------------------------------------------------------------------
(* A delayed delivery: the calls of deliver and the message *)

Delivered == note.status = "skipped" \/ (note.status = "completed" /\ accepted)

\* A token is held only while the message is being sent, so a message whose
\* outcome is recorded belongs to no call, whatever attempt the call is at.
Calls ==
  /\ note.token # 0 => note.status = "processing"
  /\ note.status = "completed" => accepted
  /\ \A d \in Delivery :
       /\ thread[d] \in {"send", "accepted", "transient", "permanent", "sleep"} => held[d] # 0
       /\ thread[d] = "accepted" => accepted
       /\ thread[d] = "returned" => Delivered

\* What a delivery has done by the stage it has reached. It works with what it
\* assessed, and goes past the risk only if the recorded one says the same.
Stages ==
  \A d \in Delivery :
    /\ flow[d] \in {"mark", "risk", "followUp", "notify"} => assessed[d] # None
    /\ flow[d] \in {"risk", "followUp", "notify"} => request = "delayed"
    /\ flow[d] \in {"followUp", "notify"} => risk = assessed[d]
    /\ flow[d] = "notify" => followUp = assessed[d]
    /\ flow[d] = "finished" => run = "completed"

\* TypeOK, in the part that the workflow writes and the part that deliver does.
WorkTyped ==
  /\ plan \in Plan /\ request \in {"open", "delayed"}
  /\ risk \in Plan \cup {None} /\ followUp \in Plan \cup {None}
  /\ run \in {"none", "running", "failed", "completed"}
  /\ begun \in 0 .. MaxDeliveries /\ handled \in {"open", "done", "dead"}
  /\ flow \in [Delivery -> {"idle", "start", "assess", "mark", "risk", "followUp", "notify",
                            "finished", "failing", "failed", "ended", "lost"}]
  /\ assessed \in [Delivery -> Plan \cup {None}]

Place == Loop \cup {"idle", "returned", "raised", "readTooLate", "lost"}
NoteTyped ==
  /\ note \in Notification
  /\ note.token \in {0, note.attempts}
  /\ note.leased => note.status = "processing"
  /\ note.backoff => note.status = "failed"
  /\ accepted \in BOOLEAN /\ enabled \in BOOLEAN /\ firestore \in BOOLEAN
  /\ thread \in [Delivery -> Place]
  /\ held \in [Delivery -> Nat]
  /\ \A d \in Delivery : held[d] <= note.attempts

LEMMA TypeParts == TypeOK <=> WorkTyped /\ NoteTyped
  BY DEF TypeOK, WorkTyped, NoteTyped, Place

NoteInv == NoteTyped /\ Calls
WorkInv == WorkTyped /\ Stages /\ CompletedMeansNotified /\ OneAssessment
DelayInv == NoteInv /\ WorkInv

LEMMA NoneIsNoPlan == None \notin Plan /\ 0 \in Plan /\ MaxAttempts \in Nat \ {0}
  BY DelayAssumption DEF None, Plan

LEMMA DelayInit == Init => DelayInv
<1> SUFFICES ASSUME Init PROVE DelayInv
  OBVIOUS
<1> USE NoneIsNoPlan, DelayAssumption
<1>1. WorkTyped
  BY DEF Init, WorkTyped
<1>2. note \in Notification
  BY DEF Init, Notification
<1>3. /\ note.token = 0 /\ note.attempts = 0 /\ note.leased = FALSE /\ note.backoff = FALSE
      /\ note.status = "none" /\ note.payload = None
  BY DEF Init
<1>6. thread \in [Delivery -> Place] /\ held \in [Delivery -> Nat]
      /\ \A d \in Delivery : held[d] <= note.attempts
  BY <1>3 DEF Init, Place
<1>7. NoteTyped
  BY <1>2, <1>3, <1>6 DEF Init, NoteTyped
<1>4. Calls /\ Stages /\ CompletedMeansNotified /\ OneAssessment
  BY <1>3 DEF Init, Calls, Stages, CompletedMeansNotified, OneAssessment
<1>5. QED BY <1>1, <1>4, <1>7 DEF DelayInv, NoteInv, WorkInv

\* A step of the workflow, or of deliver, leaves what the other writes alone.
NoteKept == UNCHANGED <<note, accepted, enabled, firestore, thread, held>>
WorkKept == UNCHANGED <<plan, request, risk, followUp, run, begun, handled, flow, assessed>>

LEMMA FlowStepKeepsNote ==
  ASSUME NEW d \in Delivery, FlowStep(d) PROVE NoteKept
  BY DEF FlowStep, Begin, StartRun, Assess, MarkDelayed, CreateRisk, CreateFollowUp,
     CompleteRun, Raise, FailRun, Settle, NoteKept

LEMMA DeliverStepKeepsWork ==
  ASSUME NEW d \in Delivery, Queue(d) \/ DeliverStep(d) PROVE WorkKept
  BY DEF DeliverStep, Queue, Claim, Send, RecordSuccess, RecordFailure, Wake, WorkKept, work

-----------------------------------------------------------------------------
(* The steps of deliver *)

\* A call of deliver moves as it writes; every one of its writes is one of
\* these: the message queued, claimed, completed, or failed by its owner.
LEMMA DeliverTypes ==
  ASSUME NoteInv, WorkTyped, NEW d \in Delivery, Queue(d) \/ DeliverStep(d)
  PROVE  NoteTyped'
<1> USE NoneIsNoPlan
<1>1. CASE Queue(d)
  <2>1. note' \in Notification
    <3>1. note \in Notification /\ assessed[d] \in Plan \cup {None}
      BY DEF NoteInv, NoteTyped, WorkTyped
    <3>2. note' = note \/ note' = [note EXCEPT !.status = IF enabled THEN "pending" ELSE "skipped",
                                               !.payload = assessed[d]]
      BY <1>1 DEF Queue
    <3>3. QED BY <3>1, <3>2 DEF Notification, Settled
  <2>2. /\ note'.token = note.token /\ note'.attempts = note.attempts
        /\ note'.leased = note.leased /\ note'.backoff = note.backoff
        /\ note.status # "none" => note'.status = note.status
    BY <1>1 DEF Queue, NoteInv, NoteTyped, Notification
  <2>3. thread' \in [Delivery -> Place]
    BY <1>1 DEF Queue, Step, Onward, NoteInv, NoteTyped, Place, Loop
  <2>4. held' \in [Delivery -> Nat] /\ \A c \in Delivery : held'[c] <= note'.attempts
    BY <1>1, <2>2 DEF Queue, NoteInv, NoteTyped, Notification
  <2>5. QED BY <1>1, <2>1, <2>2, <2>3, <2>4 DEF Queue, NoteInv, NoteTyped
<1>2. CASE Claim(d)
  <2>1. CASE note' = note /\ held' = held
    BY <1>2, <2>1 DEF Claim, Step, NoteInv, NoteTyped, Place, Loop
  <2>2. CASE /\ note' = [note EXCEPT !.status = "processing", !.attempts = Attempts,
                                     !.token = Attempts, !.leased = TRUE]
             /\ held' = [held EXCEPT ![d] = Attempts]
             /\ ~ note.backoff /\ Step(d, "send")
    <3>1. Attempts \in Nat /\ note.attempts \in Nat /\ Attempts = note.attempts + 1
      BY DEF Attempts, NoteInv, NoteTyped, Notification
    <3>2. /\ note' \in Notification /\ note'.token = Attempts /\ note'.attempts = Attempts
          /\ note'.status = "processing" /\ ~ note'.backoff
      BY <2>2, <3>1 DEF NoteInv, NoteTyped, Notification
    <3>3. thread' \in [Delivery -> Place]
      BY <2>2 DEF Step, NoteInv, NoteTyped, Place, Loop
    <3>4. held' \in [Delivery -> Nat] /\ \A c \in Delivery : held'[c] <= note'.attempts
      BY <2>2, <3>1, <3>2 DEF NoteInv, NoteTyped
    <3>5. QED BY <1>2, <3>2, <3>3, <3>4 DEF Claim, NoteInv, NoteTyped
  <2>3. QED BY <1>2, <2>1, <2>2 DEF Claim, Claimable
<1>3. CASE Send(d)
  BY <1>3 DEF Send, Step, NoteInv, NoteTyped, Place, Loop
<1>4. CASE RecordSuccess(d) \/ RecordFailure(d)
  <2>1. CASE note' = note
    BY <1>4, <2>1 DEF RecordSuccess, RecordFailure, Step, NoteInv, NoteTyped, Place, Loop
  <2>2. ASSUME NEW status \in {"completed", "dead", "failed"}, NEW backoff \in BOOLEAN,
               backoff => status = "failed",
               note' = [note EXCEPT !.status = status, !.token = 0, !.leased = FALSE,
                                    !.backoff = backoff]
        PROVE  NoteTyped'
    <3>1. /\ note' \in Notification /\ note'.token = 0 /\ ~ note'.leased
          /\ note'.status = status /\ note'.backoff = backoff /\ note'.attempts = note.attempts
      BY <2>2 DEF NoteInv, NoteTyped, Notification, Settled
    <3>2. thread' \in [Delivery -> Place]
      BY <1>4 DEF RecordSuccess, RecordFailure, Step, NoteInv, NoteTyped, Place, Loop
    <3>3. UNCHANGED <<accepted, enabled, firestore, held>>
      BY <1>4 DEF RecordSuccess, RecordFailure
    <3>4. QED BY <2>2, <3>1, <3>2, <3>3 DEF NoteInv, NoteTyped
  <2>3. CASE RecordSuccess(d) /\ note' # note
    <3>1. ~ note.backoff /\ note \in Notification
      BY <2>3 DEF RecordSuccess, Owns, NoteInv, NoteTyped, Calls
    <3>2. note' = [note EXCEPT !.status = "completed", !.token = 0, !.leased = FALSE,
                               !.backoff = FALSE]
      BY <2>3, <3>1 DEF RecordSuccess, Notification
    <3>3. QED BY <2>2, <3>2
  <2>4. CASE RecordFailure(d) /\ note' # note
    BY <2>2, <2>4 DEF RecordFailure
  <2>5. QED BY <1>4, <2>1, <2>3, <2>4
<1>5. CASE Wake(d)
  BY <1>5 DEF Wake, Onward, Step, NoteInv, NoteTyped, Place, Loop
<1>6. QED BY <1>1, <1>2, <1>3, <1>4, <1>5 DEF DeliverStep

\* What keeps Calls: only d moves, the provider's acceptance is not forgotten,
\* and a recorded outcome stays.
LEMMA CallsKept ==
  ASSUME NoteInv, NEW d \in Delivery, NEW place, thread' = [thread EXCEPT ![d] = place],
         \A c \in Delivery \ {d} : held'[c] = held[c],
         accepted => accepted',
         note.status \in Settled => note' = note,
         note'.token # 0 => note'.status = "processing",
         note'.status = "completed" => accepted',
         place \in {"send", "accepted", "transient", "permanent", "sleep"} => held'[d] # 0,
         place = "accepted" => accepted',
         place = "returned" => Delivered'
  PROVE  Calls'
<1>1. ASSUME NEW c \in Delivery
      PROVE  /\ thread'[c] \in {"send", "accepted", "transient", "permanent", "sleep"} => held'[c] # 0
             /\ thread'[c] = "accepted" => accepted'
             /\ thread'[c] = "returned" => Delivered'
  <2>1. CASE c = d
    BY <2>1 DEF NoteInv, NoteTyped
  <2>2. CASE c # d
    <3>1. thread'[c] = thread[c] /\ held'[c] = held[c]
      BY <2>2 DEF NoteInv, NoteTyped
    <3>2. Delivered => Delivered'
      BY DEF Delivered, Settled
    <3>3. QED BY <3>1, <3>2 DEF NoteInv, Calls
  <2>3. QED BY <2>1, <2>2
<1>2. QED BY <1>1 DEF Calls

\* A late or lost call does not write to a message whose outcome is recorded.
LEMMA DeliverCalls ==
  ASSUME NoteInv, NEW d \in Delivery, Queue(d) \/ DeliverStep(d)
  PROVE  /\ Calls'
         /\ note.status \in Settled => note' = note
<1> USE NoneIsNoPlan
<1>0. /\ thread \in [Delivery -> Place] /\ held \in [Delivery -> Nat] /\ note \in Notification
      /\ note.attempts \in Nat
      /\ note.token # 0 => note.status = "processing"
      /\ note.status = "completed" => accepted
      /\ thread[d] \in {"send", "accepted", "transient", "permanent", "sleep"} => held[d] # 0
      /\ thread[d] = "accepted" => accepted
  BY DEF NoteInv, NoteTyped, Notification, Calls
<1>1. CASE Queue(d)
  <2>1. /\ note.status # "none" => note' = note
        /\ note.status = "none" => note'.token = note.token /\ note'.status \in {"pending", "skipped"}
    BY <1>0, <1>1 DEF Queue, Notification
  <2>2. accepted' = accepted /\ \A c \in Delivery \ {d} : held'[c] = held[c]
    BY <1>0, <1>1 DEF Queue
  <2> DEFINE place == IF note'.payload = assessed[d] THEN Onward(note'.status, note.attempts)
                      ELSE "raised"
  <2>3. /\ thread' = [thread EXCEPT ![d] = place]
        /\ place \in {"returned", "claim", "raised"}
        /\ place = "returned" => note'.status \in {"completed", "skipped"}
    <3>1. thread' = [thread EXCEPT ![d] = place]
      BY <1>1 DEF Queue, Step
    <3>2. QED BY <3>1 DEF Onward
  <2> HIDE DEF place
  <2>4. place = "returned" => Delivered'
    BY <1>0, <2>1, <2>2, <2>3 DEF Delivered
  <2>5. note.status \in Settled => note' = note
    BY <2>1 DEF Settled
  <2>6. QED BY <1>0, <2>1, <2>2, <2>3, <2>4, <2>5, CallsKept
<1>2. CASE Claim(d)
  <2>1. CASE note' = note /\ held' = held
    <3>1. PICK place : /\ thread' = [thread EXCEPT ![d] = place]
                       /\ place \in {"returned", "readTooLate", "raised"}
                       /\ place = "returned" => note.status \in {"completed", "skipped"}
      <4>1. note' # [note EXCEPT !.status = "processing", !.attempts = Attempts,
                                 !.token = Attempts, !.leased = TRUE]
        <5>1. Attempts # note.attempts
          BY <1>0 DEF Attempts
        <5>2. [note EXCEPT !.status = "processing", !.attempts = Attempts,
                           !.token = Attempts, !.leased = TRUE].attempts = Attempts
          BY <1>0 DEF Notification
        <5>3. QED BY <2>1, <5>1, <5>2
      <4>2. QED BY <1>2, <4>1 DEF Claim, Step
    <3>2. accepted' = accepted
      BY <1>2 DEF Claim
    <3>3. place = "returned" => Delivered'
      BY <1>0, <2>1, <3>1, <3>2 DEF Delivered
    <3>4. QED BY <1>0, <2>1, <3>1, <3>2, <3>3, CallsKept
  <2>2. CASE /\ note' = [note EXCEPT !.status = "processing", !.attempts = Attempts,
                                     !.token = Attempts, !.leased = TRUE]
             /\ held' = [held EXCEPT ![d] = Attempts]
             /\ note.status \notin Settled /\ thread' = [thread EXCEPT ![d] = "send"]
    <3>1. Attempts # 0 /\ note'.status = "processing"
      BY <1>0, <2>2 DEF Attempts, Notification
    <3>2. accepted' = accepted
      BY <1>2 DEF Claim
    <3>3. \A c \in Delivery \ {d} : held'[c] = held[c]
      BY <1>0, <2>2
    <3>4. held'[d] # 0
      BY <1>0, <2>2, <3>1
    <3>5. QED BY <1>0, <2>2, <3>1, <3>2, <3>3, <3>4, CallsKept
  <2>3. QED BY <1>2, <2>1, <2>2 DEF Claim, Claimable, Step
<1>3. CASE Send(d)
  <2>1. PICK place \in {"accepted", "transient", "permanent"} :
           /\ thread' = [thread EXCEPT ![d] = place]
           /\ place = "accepted" => accepted'
           /\ accepted => accepted'
    <3>1. accepted \in BOOLEAN
      BY DEF NoteInv, NoteTyped
    <3>2. CASE accepted' = TRUE /\ Step(d, "accepted")
      BY <3>2 DEF Step
    <3>3. CASE accepted' \in {accepted, TRUE} /\ Step(d, "transient")
      BY <3>1, <3>3 DEF Step
    <3>4. CASE accepted' \in {accepted, TRUE} /\ Step(d, "permanent")
      BY <3>1, <3>4 DEF Step
    <3>5. QED BY <1>3, <3>2, <3>3, <3>4 DEF Send
  <2>2. note' = note /\ held' = held /\ held[d] # 0
    BY <1>0, <1>3 DEF Send
  <2>3. QED BY <1>0, <2>1, <2>2, CallsKept
<1>4. CASE RecordSuccess(d)
  <2>1. accepted' = accepted /\ held' = held /\ accepted /\ held[d] # 0
    BY <1>0, <1>4 DEF RecordSuccess
  <2>2. CASE Owns(d) /\ note' = [note EXCEPT !.status = "completed", !.token = 0, !.leased = FALSE]
               /\ thread' = [thread EXCEPT ![d] = "returned"]
    <3>1. note.status \notin Settled /\ note'.token = 0 /\ note'.status = "completed"
      BY <1>0, <2>1, <2>2 DEF Owns, Settled, Notification
    <3>2. Delivered'
      BY <2>1, <3>1 DEF Delivered
    <3>3. QED BY <2>1, <2>2, <3>1, <3>2, CallsKept
  <2>3. CASE note' = note /\ thread' = [thread EXCEPT ![d] = "permanent"]
    BY <1>0, <2>1, <2>3, CallsKept
  <2>4. QED BY <1>4, <2>2, <2>3 DEF RecordSuccess, Step
<1>5. CASE RecordFailure(d)
  <2>1. accepted' = accepted /\ held' = held /\ held[d] # 0
    BY <1>0, <1>5 DEF RecordFailure
  <2>2. ASSUME NEW status \in {"dead", "failed"}, NEW backoff, Owns(d),
               note' = [note EXCEPT !.status = status, !.token = 0, !.leased = FALSE,
                                    !.backoff = backoff],
               NEW place \in {"raised", "sleep"}, thread' = [thread EXCEPT ![d] = place]
        PROVE  Calls' /\ (note.status \in Settled => note' = note)
    <3>1. note.status \notin Settled /\ note'.token = 0 /\ note'.status # "completed"
      BY <1>0, <2>1, <2>2 DEF Owns, Settled, Notification
    <3>2. QED BY <2>1, <2>2, <3>1, CallsKept
  <2>3. CASE note' = note /\ thread' = [thread EXCEPT ![d] = "raised"]
    BY <1>0, <2>1, <2>3, CallsKept, ZenonT(60)
  <2>4. QED BY <1>5, <2>2, <2>3 DEF RecordFailure, Step
<1>6. CASE Wake(d)
  <2>1. PICK place \in {"claim", "raised"} : thread' = [thread EXCEPT ![d] = place]
    BY <1>6 DEF Wake, Step, Onward
  <2>2. note' = note /\ held' = held /\ accepted' = accepted
    BY <1>6 DEF Wake
  <2>3. QED BY <1>0, <2>1, <2>2, CallsKept
<1>7. QED BY <1>1, <1>2, <1>3, <1>4, <1>5, <1>6 DEF DeliverStep

-----------------------------------------------------------------------------
(* The steps of the workflow *)

LEMMA FlowTypes ==
  ASSUME WorkTyped, NEW d \in Delivery, FlowStep(d) PROVE WorkTyped'
<1>0. d \in 0 .. MaxDeliveries
  BY DelayAssumption DEF Delivery
<1>1. CASE Begin(d)
  BY <1>0, <1>1 DEF Begin, Go, WorkTyped, work
<1>2. CASE StartRun(d)
  BY <1>2 DEF StartRun, Go, WorkTyped, work
<1>3. CASE Assess(d)
  BY <1>3 DEF Assess, Go, WorkTyped, work
<1>4. CASE MarkDelayed(d)
  BY <1>4 DEF MarkDelayed, Go, WorkTyped
<1>5. CASE CreateRisk(d)
  BY <1>5 DEF CreateRisk, Go, WorkTyped
<1>6. CASE CreateFollowUp(d)
  BY <1>6 DEF CreateFollowUp, Go, WorkTyped
<1>7. CASE CompleteRun(d)
  BY <1>7 DEF CompleteRun, Go, WorkTyped, work
<1>8. CASE Raise(d)
  BY <1>8 DEF Raise, Go, WorkTyped, work
<1>9. CASE FailRun(d)
  BY <1>9 DEF FailRun, Failed, Go, WorkTyped, work
<1>10. CASE Settle(d)
  BY <1>10 DEF Settle, Go, WorkTyped, work
<1>11. QED BY <1>1, <1>2, <1>3, <1>4, <1>5, <1>6, <1>7, <1>8, <1>9, <1>10 DEF FlowStep

\* What a delivery that is not at work in this step has done, stays done.
LEMMA StagesKept ==
  ASSUME WorkInv, NEW d \in Delivery, NEW stage, flow' = [flow EXCEPT ![d] = stage],
         \A c \in Delivery \ {d} : assessed'[c] = assessed[c],
         request = "delayed" => request' = "delayed",
         risk # None => risk' = risk,
         followUp # None => followUp' = followUp,
         run = "completed" => run' = "completed",
         stage \in {"mark", "risk", "followUp", "notify"} => assessed'[d] # None,
         stage \in {"risk", "followUp", "notify"} => request' = "delayed",
         stage \in {"followUp", "notify"} => risk' = assessed'[d],
         stage = "notify" => followUp' = assessed'[d],
         stage = "finished" => run' = "completed"
  PROVE  Stages'
<1>1. ASSUME NEW c \in Delivery
      PROVE  /\ flow'[c] \in {"mark", "risk", "followUp", "notify"} => assessed'[c] # None
             /\ flow'[c] \in {"risk", "followUp", "notify"} => request' = "delayed"
             /\ flow'[c] \in {"followUp", "notify"} => risk' = assessed'[c]
             /\ flow'[c] = "notify" => followUp' = assessed'[c]
             /\ flow'[c] = "finished" => run' = "completed"
  <2>1. CASE c = d
    BY <2>1 DEF WorkInv, WorkTyped
  <2>2. CASE c # d
    <3>1. flow'[c] = flow[c] /\ assessed'[c] = assessed[c]
      BY <2>2 DEF WorkInv, WorkTyped
    <3>2. QED BY <3>1 DEF WorkInv, Stages
  <2>3. QED BY <2>1, <2>2
<1>2. None' = None
  BY DEF None
<1>3. QED BY <1>1, <1>2 DEF Stages

\* The workflow of one delivery goes on from what it has done, and completes
\* the run when deliver has told it that the message is sent or skipped.
LEMMA FlowStages ==
  ASSUME DelayInv, NEW d \in Delivery, FlowStep(d)
  PROVE  Stages' /\ CompletedMeansNotified' /\ OneAssessment'
<1>n. None' = None /\ None \notin Plan
  BY NoneIsNoPlan DEF None
<1>0. WorkInv /\ WorkTyped /\ Stages /\ CompletedMeansNotified /\ OneAssessment
  BY DEF DelayInv, WorkInv
<1>d. /\ flow[d] \in {"mark", "risk", "followUp", "notify"} => assessed[d] # None
      /\ flow[d] \in {"risk", "followUp", "notify"} => request = "delayed"
      /\ flow[d] \in {"followUp", "notify"} => risk = assessed[d]
      /\ flow[d] = "notify" => followUp = assessed[d]
      /\ flow[d] = "finished" => run = "completed"
      /\ flow[d] = "notify" /\ thread[d] = "returned" => Delivered
  BY <1>0 DEF Stages, DelayInv, NoteInv, Calls
<1>k. note' = note /\ accepted' = accepted
  BY FlowStepKeepsNote DEF NoteKept
<1>1. CASE UNCHANGED <<request, risk, followUp, handled>> /\ run' \in {"running", "failed"}
              /\ assessed' = assessed /\ run # "completed"
              /\ \E stage \in {"assess", "failed"} : Go(d, stage)
  <2>1. Stages'
    BY <1>0, <1>1, StagesKept DEF Go
  <2>2. QED BY <1>0, <1>1, <1>k, <1>n, <2>1 DEF CompletedMeansNotified, OneAssessment
<1>2. CASE /\ UNCHANGED <<request, risk, followUp, run, handled>>
           /\ assessed' = assessed
           /\ \E stage \in {"start", "assess", "failing", "failed"} : Go(d, stage)
  <2>1. Stages'
    BY <1>0, <1>2, StagesKept DEF Go
  <2>2. QED BY <1>0, <1>2, <1>k, <1>n, <2>1 DEF CompletedMeansNotified, OneAssessment
<1>3. CASE Begin(d) \/ Raise(d)
  BY <1>2, <1>3 DEF Begin, Raise, work
<1>4. CASE StartRun(d)
  <2>1. CASE run = "completed"
    BY <1>2, <1>4, <2>1 DEF StartRun, work
  <2>2. CASE run # "completed"
    BY <1>1, <1>4, <2>2 DEF StartRun, work
  <2>3. QED BY <2>1, <2>2
<1>5. CASE FailRun(d)
  <2>1. CASE run = "completed"
    BY <1>2, <1>5, <2>1 DEF FailRun, Failed, work
  <2>2. CASE run # "completed"
    BY <1>1, <1>5, <2>2 DEF FailRun, Failed, work
  <2>3. QED BY <2>1, <2>2
<1>6. CASE Assess(d)
  <2>1. UNCHANGED <<plan, request, risk, followUp, run, handled>>
    BY <1>6 DEF Assess, work
  <2>2. assessed'[d] # None /\ \A c \in Delivery \ {d} : assessed'[c] = assessed[c]
    BY <1>0, <1>6, <1>n DEF Assess, WorkTyped
  <2>3. Stages'
    BY <1>0, <1>6, <2>1, <2>2, StagesKept DEF Assess, Go
  <2>4. QED BY <1>0, <1>k, <1>n, <2>1, <2>3 DEF CompletedMeansNotified, OneAssessment
<1>7. CASE MarkDelayed(d)
  <2>1. UNCHANGED <<risk, followUp, run, handled, assessed>> /\ request' = "delayed"
    BY <1>7 DEF MarkDelayed
  <2>2. Stages'
    BY <1>0, <1>7, <1>d, <2>1, StagesKept DEF MarkDelayed, Go
  <2>3. QED BY <1>0, <1>k, <1>n, <2>1, <2>2 DEF CompletedMeansNotified, OneAssessment
<1>8. CASE CreateRisk(d)
  <2>1. UNCHANGED <<request, followUp, run, handled, assessed>>
    BY <1>8 DEF CreateRisk
  <2>2. CASE Matches(risk, assessed[d])
    <3>1. risk' = assessed[d] /\ Go(d, "followUp")
      BY <1>8, <2>2 DEF CreateRisk, Matches
    <3>2. risk # None => risk' = risk
      BY <2>2, <3>1 DEF Matches
    <3>3. Stages'
      BY <1>0, <1>8, <1>d, <2>1, <3>1, <3>2, StagesKept DEF CreateRisk, Go
    <3>4. risk = None => followUp = None /\ note.payload = None
      BY <1>0, <1>n DEF OneAssessment
    <3>5. QED BY <1>0, <1>d, <1>8, <1>k, <1>n, <2>1, <3>1, <3>2, <3>3, <3>4
              DEF CompletedMeansNotified, OneAssessment, CreateRisk
  <2>3. CASE ~ Matches(risk, assessed[d])
    BY <1>2, <1>8, <2>1, <2>3 DEF CreateRisk
  <2>4. QED BY <2>2, <2>3
<1>9. CASE CreateFollowUp(d)
  <2>1. UNCHANGED <<request, risk, run, handled, assessed>>
    BY <1>9 DEF CreateFollowUp
  <2>2. CASE Matches(followUp, assessed[d])
    <3>1. followUp' = assessed[d] /\ Go(d, "notify")
      BY <1>9, <2>2 DEF CreateFollowUp, Matches
    <3>2. followUp # None => followUp' = followUp
      BY <2>2, <3>1 DEF Matches
    <3>3. flow[d] = "followUp" /\ risk = assessed[d] /\ assessed[d] # None /\ request = "delayed"
      BY <1>9, <1>d DEF CreateFollowUp
    <3>4. Stages'
      BY <1>0, <2>1, <3>1, <3>2, <3>3, StagesKept DEF Go
    <3>5. QED BY <1>0, <1>k, <1>n, <2>1, <3>1, <3>2, <3>3, <3>4
              DEF CompletedMeansNotified, OneAssessment
  <2>3. CASE ~ Matches(followUp, assessed[d])
    BY <1>2, <1>9, <2>1, <2>3 DEF CreateFollowUp
  <2>4. QED BY <2>2, <2>3
<1>10. CASE CompleteRun(d)
  <2>1. UNCHANGED <<request, risk, followUp, handled, assessed>> /\ run' = "completed"
    BY <1>10 DEF CompleteRun, work
  <2>2. Stages'
    BY <1>0, <1>10, <2>1, StagesKept DEF CompleteRun, Go
  <2>3. Delivered /\ request = "delayed" /\ risk # None /\ followUp # None
    BY <1>10, <1>d DEF CompleteRun
  <2>4. QED BY <1>0, <1>k, <1>n, <2>1, <2>2, <2>3 DEF CompletedMeansNotified, OneAssessment, Delivered
<1>11. CASE Settle(d)
  <2>1. UNCHANGED <<request, risk, followUp, run, assessed>>
    BY <1>11 DEF Settle, work
  <2>2. handled' = "done" => handled = "done" \/ run = "completed"
    BY <1>11, <1>d DEF Settle
  <2>3. Stages'
    BY <1>0, <1>11, <2>1, StagesKept DEF Settle, Go
  <2>4. QED BY <1>0, <1>k, <1>n, <2>1, <2>2, <2>3 DEF CompletedMeansNotified, OneAssessment
<1>12. QED BY <1>3, <1>4, <1>5, <1>6, <1>7, <1>8, <1>9, <1>10, <1>11 DEF FlowStep

-----------------------------------------------------------------------------
(* The invariant of the delay *)

\* The message is queued with what the risk and the follow-up task record.
LEMMA DeliverKeepsWork ==
  ASSUME DelayInv, NEW d \in Delivery, Queue(d) \/ DeliverStep(d)
  PROVE  WorkInv'
<1>0. /\ WorkTyped /\ Stages /\ CompletedMeansNotified /\ OneAssessment
      /\ note \in Notification /\ accepted \in BOOLEAN
  BY DEF DelayInv, WorkInv, NoteInv, NoteTyped
<1>1. WorkKept
  BY DeliverStepKeepsWork
<1>2. WorkTyped'
  BY <1>0, <1>1 DEF WorkKept, WorkTyped
<1>3. Stages'
  BY <1>0, <1>1 DEF WorkKept, Stages
<1>4. accepted => accepted'
  BY <1>0 DEF DeliverStep, Queue, Claim, Send, RecordSuccess, RecordFailure, Wake
<1>5. note.status \in Settled => note' = note
  BY DeliverCalls DEF DelayInv
<1>6. CompletedMeansNotified'
  BY <1>0, <1>1, <1>4, <1>5 DEF WorkKept, CompletedMeansNotified, Settled
<1>7. note'.payload # note.payload => note'.payload = risk
  <2>1. CASE Queue(d)
    <3>1. CASE note.status = "none"
      <4>1. note'.payload = assessed[d] /\ flow[d] = "notify"
        BY <1>0, <2>1, <3>1 DEF Queue, Notification
      <4>2. QED BY <1>0, <4>1 DEF Stages
    <3>2. CASE note.status # "none"
      BY <2>1, <3>2 DEF Queue
    <3>3. QED BY <3>1, <3>2
  <2>2. CASE DeliverStep(d)
    BY <1>0, <2>2 DEF DeliverStep, Claim, Send, RecordSuccess, RecordFailure, Wake, Notification
  <2>3. QED BY <2>1, <2>2
<1>8. OneAssessment'
  BY <1>0, <1>1, <1>7 DEF WorkKept, OneAssessment
<1>9. QED BY <1>2, <1>3, <1>6, <1>8 DEF WorkInv

\* A worker dies in the workflow, in deliver, or in both.
LEMMA CrashKeeps ==
  ASSUME DelayInv, NEW d \in Delivery, Crash(d)
  PROVE  DelayInv'
<1>0. /\ WorkInv /\ NoteInv /\ WorkTyped /\ Stages /\ CompletedMeansNotified /\ OneAssessment
      /\ NoteTyped
  BY DEF DelayInv, WorkInv, NoteInv
<1>1. UNCHANGED <<plan, request, risk, followUp, run, note, accepted, enabled, firestore, begun,
                  handled, assessed, held>>
  BY DEF Crash, work
<1>2. WorkTyped'
  BY <1>0, <1>1 DEF Crash, Go, WorkTyped
<1>3. Stages'
  BY <1>0, <1>1, StagesKept DEF Crash, Go
<1>4. CompletedMeansNotified' /\ OneAssessment'
  BY <1>0, <1>1 DEF CompletedMeansNotified, OneAssessment
<1>5. NoteTyped'
  BY <1>0, <1>1 DEF Crash, Step, NoteTyped, Place, Loop
<1>6. Calls'
  <2>1. \A c \in Delivery : thread'[c] \in {thread[c], "lost"}
    BY <1>0 DEF Crash, Step, NoteTyped
  <2>2. QED BY <1>0, <1>1, <2>1 DEF NoteInv, Calls, Delivered
<1>7. QED BY <1>2, <1>3, <1>4, <1>5, <1>6 DEF DelayInv, WorkInv, NoteInv

\* Time passes, and others edit the tasks.
LEMMA TimeKeeps ==
  ASSUME DelayInv, LeaseExpires \/ BackoffEnds \/ ChangePlan
  PROVE  DelayInv' /\ (note.status \in Settled => note' = note)
<1>0. /\ WorkTyped /\ Stages /\ CompletedMeansNotified /\ OneAssessment /\ NoteTyped /\ Calls
      /\ note \in Notification
  BY DEF DelayInv, WorkInv, NoteInv, NoteTyped
<1>1. CASE LeaseExpires \/ BackoffEnds
  <2>1. WorkKept /\ UNCHANGED <<accepted, enabled, firestore, thread, held>>
    BY <1>1 DEF LeaseExpires, BackoffEnds, WorkKept, work
  <2>2. /\ note' \in Notification /\ note'.status = note.status /\ note'.attempts = note.attempts
        /\ note'.token = note.token /\ note'.payload = note.payload
        /\ note'.leased => note.leased
        /\ note'.backoff => note.backoff
    BY <1>0, <1>1 DEF LeaseExpires, BackoffEnds, Notification
  <2>3. NoteTyped'
    BY <1>0, <2>1, <2>2 DEF NoteTyped
  <2>4. Calls'
    BY <1>0, <2>1, <2>2 DEF Calls, Delivered
  <2>5. WorkTyped'
    BY <1>0, <2>1 DEF WorkKept, WorkTyped
  <2>6. Stages'
    BY <1>0, <2>1 DEF WorkKept, Stages
  <2>7. CompletedMeansNotified' /\ OneAssessment'
    BY <1>0, <2>1, <2>2 DEF WorkKept, CompletedMeansNotified, OneAssessment
  <2>8. note.status \notin Settled
    BY <1>0, <1>1 DEF LeaseExpires, BackoffEnds, NoteTyped, Settled
  <2>9. QED BY <2>3, <2>4, <2>5, <2>6, <2>7, <2>8 DEF DelayInv, WorkInv, NoteInv
<1>2. CASE ChangePlan
  <2>1. /\ UNCHANGED <<request, risk, followUp, run, begun, handled, flow, assessed>>
        /\ UNCHANGED <<note, accepted, enabled, firestore, thread, held>>
        /\ plan' = plan + 1 /\ plan < MaxPlan
    BY <1>2 DEF ChangePlan
  <2>2. plan' \in Plan
    BY <1>0, <2>1, DelayAssumption DEF WorkTyped, Plan
  <2>3. WorkTyped'
    BY <1>0, <2>1, <2>2 DEF WorkTyped
  <2>4. NoteTyped'
    BY <1>0, <2>1 DEF NoteTyped
  <2>5. Calls' /\ Stages' /\ CompletedMeansNotified' /\ OneAssessment'
    BY <1>0, <2>1 DEF Calls, Delivered, Stages, CompletedMeansNotified, OneAssessment
  <2>6. QED BY <2>1, <2>3, <2>4, <2>5 DEF DelayInv, WorkInv, NoteInv
<1>3. QED BY <1>1, <1>2

LEMMA DelayStep ==
  ASSUME DelayInv, Next
  PROVE  DelayInv' /\ (note.status \in Settled => note' = note)
<1>1. ASSUME NEW d \in Delivery, FlowStep(d)
      PROVE  DelayInv' /\ note' = note
  <2>1. NoteKept
    BY <1>1, FlowStepKeepsNote
  <2>2. NoteTyped'
    BY <2>1 DEF NoteKept, DelayInv, NoteInv, NoteTyped
  <2>3. Calls'
    BY <2>1 DEF NoteKept, DelayInv, NoteInv, Calls, Delivered
  <2>4. WorkTyped'
    BY <1>1, FlowTypes DEF DelayInv, WorkInv
  <2>5. Stages' /\ CompletedMeansNotified' /\ OneAssessment'
    BY <1>1, FlowStages
  <2>6. QED BY <2>1, <2>2, <2>3, <2>4, <2>5 DEF NoteKept, DelayInv, NoteInv, WorkInv
<1>2. ASSUME NEW d \in Delivery, Queue(d) \/ DeliverStep(d)
      PROVE  DelayInv' /\ (note.status \in Settled => note' = note)
  <2>1. NoteTyped'
    BY <1>2, DeliverTypes DEF DelayInv, WorkInv
  <2>2. QED BY <1>2, <2>1, DeliverCalls, DeliverKeepsWork DEF DelayInv, NoteInv
<1>3. ASSUME NEW d \in Delivery, Crash(d) PROVE DelayInv' /\ note' = note
  BY <1>3, CrashKeeps DEF Crash
<1>4. QED BY <1>1, <1>2, <1>3, TimeKeeps DEF Next

-----------------------------------------------------------------------------
(* The routes *)

Routes == {"TASK_COMPLETED", "TASK_BLOCKED", "TASK_BLOCKED_HIGH", "TASK_OVERDUE",
           "DAILY_BRIEF_REQUESTED", "MATERIAL_REQUESTED", "MATERIAL_LOW"}
StepNames == {"completeTask", "issue", "block", "blockAnother", "escalate", "warn",
              "brief", "observe", "request"}

LEMMA RouteDomain == DOMAIN Route = Routes
  BY DEF Route, Routes

\* No step is asked for twice; a route of several steps starts with an issue;
\* and only a shortage asks for a purchase.
LEMMA RouteShape ==
  ASSUME kind \in Routes
  PROVE  /\ Len(Steps) \in 1 .. 4 /\ DOMAIN Steps = 1 .. Len(Steps)
         /\ \A i \in DOMAIN Steps : Steps[i] \in StepNames
         /\ \A i, j \in DOMAIN Steps : Steps[i] = Steps[j] => i = j
         /\ Len(Steps) > 1 => Steps[1] = "issue"
         /\ \A i \in DOMAIN Steps : i > 1 => Steps[i] # "brief"
         /\ \A i \in DOMAIN Steps : Steps[i] = "request" <=> kind = "MATERIAL_LOW"
<1>1. CASE kind = "TASK_COMPLETED"
  <2>1. Steps = <<"completeTask">>
    BY <1>1 DEF Steps, Route
  <2>2. Len(Steps) = 1 /\ DOMAIN Steps = 1 .. 1
    BY <2>1
  <2>3. Steps[1] = "completeTask"
    BY <2>1
  <2>4. 1 .. 1 = {1}
    OBVIOUS
  <2>5. QED BY <1>1, <2>2, <2>3, <2>4 DEF StepNames
<1>2. CASE kind = "TASK_BLOCKED"
  <2>1. Steps = <<"issue", "block", "blockAnother">>
    BY <1>2 DEF Steps, Route
  <2>2. Len(Steps) = 3 /\ DOMAIN Steps = 1 .. 3
    BY <2>1
  <2>3. Steps[1] = "issue" /\ Steps[2] = "block" /\ Steps[3] = "blockAnother"
    BY <2>1
  <2>4. 1 .. 3 = {1, 2, 3}
    OBVIOUS
  <2>5. QED BY <1>2, <2>2, <2>3, <2>4 DEF StepNames
<1>3. CASE kind = "TASK_BLOCKED_HIGH"
  <2>1. Steps = <<"issue", "block", "blockAnother", "escalate">>
    BY <1>3 DEF Steps, Route
  <2>2. Len(Steps) = 4 /\ DOMAIN Steps = 1 .. 4
    BY <2>1
  <2>3. Steps[1] = "issue" /\ Steps[2] = "block" /\ Steps[3] = "blockAnother" /\ Steps[4] = "escalate"
    BY <2>1
  <2>4. 1 .. 4 = {1, 2, 3, 4}
    OBVIOUS
  <2>5. QED BY <1>3, <2>2, <2>3, <2>4 DEF StepNames
<1>4. CASE kind = "TASK_OVERDUE"
  <2>1. Steps = <<"issue", "warn">>
    BY <1>4 DEF Steps, Route
  <2>2. Len(Steps) = 2 /\ DOMAIN Steps = 1 .. 2
    BY <2>1
  <2>3. Steps[1] = "issue" /\ Steps[2] = "warn"
    BY <2>1
  <2>4. 1 .. 2 = {1, 2}
    OBVIOUS
  <2>5. QED BY <1>4, <2>2, <2>3, <2>4 DEF StepNames
<1>5. CASE kind = "DAILY_BRIEF_REQUESTED"
  <2>1. Steps = <<"brief">>
    BY <1>5 DEF Steps, Route
  <2>2. Len(Steps) = 1 /\ DOMAIN Steps = 1 .. 1
    BY <2>1
  <2>3. Steps[1] = "brief"
    BY <2>1
  <2>4. 1 .. 1 = {1}
    OBVIOUS
  <2>5. QED BY <1>5, <2>2, <2>3, <2>4 DEF StepNames
<1>6. CASE kind = "MATERIAL_REQUESTED"
  <2>1. Steps = <<"observe">>
    BY <1>6 DEF Steps, Route
  <2>2. Len(Steps) = 1 /\ DOMAIN Steps = 1 .. 1
    BY <2>1
  <2>3. Steps[1] = "observe"
    BY <2>1
  <2>4. 1 .. 1 = {1}
    OBVIOUS
  <2>5. QED BY <1>6, <2>2, <2>3, <2>4 DEF StepNames
<1>7. CASE kind = "MATERIAL_LOW"
  <2>1. Steps = <<"request">>
    BY <1>7 DEF Steps, Route
  <2>2. Len(Steps) = 1 /\ DOMAIN Steps = 1 .. 1
    BY <2>1
  <2>3. Steps[1] = "request"
    BY <2>1
  <2>4. 1 .. 1 = {1}
    OBVIOUS
  <2>5. QED BY <1>7, <2>2, <2>3, <2>4 DEF StepNames
<1>8. QED BY <1>1, <1>2, <1>3, <1>4, <1>5, <1>6, <1>7 DEF Routes

LEMMA StepNameIs == StepName = StepNames
<1>1. ASSUME NEW k \in Routes, NEW i \in DOMAIN Route[k] PROVE Route[k][i] \in StepNames
  BY <1>1 DEF Route, Routes, StepNames
<1>2. ASSUME NEW s \in StepNames PROVE \E k \in Routes : \E i \in DOMAIN Route[k] : Route[k][i] = s
  <2>1. /\ Route["TASK_COMPLETED"] = <<"completeTask">>
        /\ Route["TASK_BLOCKED_HIGH"] = <<"issue", "block", "blockAnother", "escalate">>
        /\ Route["TASK_OVERDUE"] = <<"issue", "warn">>
        /\ Route["DAILY_BRIEF_REQUESTED"] = <<"brief">>
        /\ Route["MATERIAL_REQUESTED"] = <<"observe">>
        /\ Route["MATERIAL_LOW"] = <<"request">>
    BY DEF Route
  <2>2. CASE s \in {"issue", "block", "blockAnother", "escalate"}
    BY <2>1, <2>2 DEF Routes
  <2>3. CASE s \notin {"issue", "block", "blockAnother", "escalate"}
    BY <2>1, <2>3 DEF Routes, StepNames
  <2>4. QED BY <2>2, <2>3
<1>3. QED BY <1>1, <1>2, RouteDomain DEF StepName

LEMMA AfterStep ==
  ASSUME kind \in Routes, NEW i \in DOMAIN Steps
  PROVE  After(Steps[i]) = IF i < Len(Steps) THEN Steps[i + 1]
                           ELSE IF Waits THEN "pausing" ELSE "closing"
<1> DEFINE P(j) == Steps[j] = Steps[i]
<1>1. \E j \in DOMAIN Steps : P(j)
  OBVIOUS
<1>2. (CHOOSE j \in DOMAIN Steps : P(j)) = i
  BY <1>1, RouteShape
<1>3. QED BY <1>2 DEF After

-----------------------------------------------------------------------------
(* The invariant of a routed event *)

\* RoutedTypeOK, in the part that the deliveries write and the part of the purchase.
RouteTyped ==
  /\ plan \in Plan
  /\ run \in {"none", "running", "waiting", "failed", "rejected", "completed"}
  /\ begun \in 0 .. MaxDeliveries /\ handled \in {"open", "done", "dead"}
  /\ flow \in [Delivery -> StepName \cup {"idle", "start", "assess", "pausing", "ask", "closing",
                                    "finished", "failing", "failed", "ended", "lost"}]
  /\ assessed \in [Delivery -> Plan \cup {None}]

PurchaseTyped ==
  /\ made \in [StepName -> Plan \cup {None}]
  /\ {watched, asked, executed} \subseteq BOOLEAN
  /\ approval \in {"none", "pending", "approved", "rejected"}
  /\ approval = "none" <=> made["request"] = None
  /\ decider \in [Delivery -> Closed \cup {"idle", "approved", "rejected", "resumed"}]

AllMade == \A i \in DOMAIN Steps : made[Steps[i]] # None
EnoughFound == kind = "MATERIAL_LOW" /\ \E d \in Delivery : assessed[d] \in Enough
IsDone == AllMade \/ EnoughFound

\* Delivery d makes step i of the route: it made or found the ones before, and
\* the first of them says what d has read.
AtStep(d, i) ==
  /\ flow[d] = Steps[i]
  /\ assessed[d] # None
  /\ i > 1 => made[Steps[1]] = assessed[d]
  /\ \A j \in DOMAIN Steps : j < i => made[Steps[j]] # None

\* A delivery reads the project once, and ends its run with all steps made, or
\* with a stock that leaves nothing to ask for.
RouteStages ==
  \A d \in Delivery :
    /\ begun < d => flow[d] \in {"idle", "lost"} /\ assessed[d] = None
    /\ flow[d] \in {"start", "assess"} => assessed[d] = None
    /\ flow[d] \in StepName => \E i \in DOMAIN Steps : AtStep(d, i)
    /\ flow[d] \in {"pausing", "ask"} => AllMade
    /\ flow[d] = "closing" => IsDone /\ (kind = "MATERIAL_LOW" => EnoughFound)
    /\ flow[d] = "finished" => IsDone

\* Only what the route asks for is made; a decision is handled as it was made.
Purchases ==
  /\ \A s \in StepName : made[s] # None => \E i \in DOMAIN Steps : s = Steps[i]
  /\ \A w \in Delivery : /\ decider[w] \in {"approved", "resumed"} => approval = "approved"
                         /\ decider[w] = "rejected" => approval = "rejected"

Story == \A i \in DOMAIN Steps : made[Steps[i]] \in {None, made[Steps[1]]}

RouteInv ==
  /\ kind \in Routes /\ RouteTyped /\ PurchaseTyped
  /\ RouteStages /\ Purchases /\ RouteIsDone /\ Story

LEMMA RouteIsDoneSays ==
  RouteIsDone <=> /\ handled = "done" \/ run \in {"waiting", "completed"} => IsDone
                  /\ kind = "MATERIAL_LOW" /\ run = "completed" => executed \/ EnoughFound
                  /\ executed => approval = "approved"
  BY DEF RouteIsDone, IsDone, EnoughFound, AllMade

LEMMA RouteInit == RoutedInit /\ kind # "DELIVERY_DELAYED" => RouteInv
<1> SUFFICES ASSUME RoutedInit, kind # "DELIVERY_DELAYED" PROVE RouteInv
  OBVIOUS
<1>1. kind \in Routes
  BY RouteDomain DEF RoutedInit, Kind
<1>2. /\ plan = 0 /\ run = "none" /\ begun = 0 /\ handled = "open"
      /\ flow = [d \in Delivery |-> "idle"] /\ assessed = [d \in Delivery |-> None]
      /\ made = [s \in StepName |-> None] /\ asked = FALSE /\ watched \in BOOLEAN
      /\ approval = "none" /\ executed = FALSE /\ decider = [w \in Delivery |-> "idle"]
  BY DEF RoutedInit, Init
<1>3. RouteTyped
  BY <1>2, NoneIsNoPlan, DelayAssumption DEF RouteTyped
<1>4. PurchaseTyped
  BY <1>2, StepNameIs DEF PurchaseTyped, StepNames
<1>5. /\ \A i \in DOMAIN Steps : Steps[i] \in StepName
      /\ "idle" \notin StepName
  BY <1>1, RouteShape, StepNameIs DEF StepNames
<1>6. RouteStages
  BY <1>2, <1>5 DEF RouteStages
<1>7. Purchases /\ Story
  BY <1>2, <1>5, RouteShape, <1>1 DEF Purchases, Story
<1>8. RouteIsDone
  BY <1>2, RouteIsDoneSays
<1>9. QED BY <1>1, <1>3, <1>4, <1>6, <1>7, <1>8 DEF RouteInv

\* What is made stays made, and what a delivery has read it has read for good:
\* so only the stage of the delivery that moves has to be looked at.
LEMMA RouteKept ==
  ASSUME RouteInv, NEW d \in Delivery, NEW stage, flow' = [flow EXCEPT ![d] = stage],
         kind' = kind, begun' \in Nat, begun <= begun',
         \A c \in Delivery \ {d} : assessed'[c] = assessed[c],
         assessed[d] \in Enough => assessed'[d] = assessed[d],
         \A s \in StepName : made[s] # None => made'[s] = made[s],
         begun' < d => stage \in {"idle", "lost"} /\ assessed'[d] = None,
         stage \in {"start", "assess"} => assessed'[d] = None,
         stage \in StepName => \E i \in DOMAIN Steps :
           /\ stage = Steps[i] /\ assessed'[d] # None
           /\ i > 1 => made'[Steps[1]] = assessed'[d]
           /\ \A j \in DOMAIN Steps : j < i => made'[Steps[j]] # None,
         stage \in {"pausing", "ask"} => AllMade',
         stage = "closing" => IsDone' /\ (kind = "MATERIAL_LOW" => EnoughFound'),
         stage = "finished" => IsDone'
  PROVE  RouteStages' /\ (IsDone => IsDone') /\ (EnoughFound => EnoughFound')
<1>0. /\ kind \in Routes /\ flow' \in [Delivery -> StepName \cup {stage} \cup {"idle", "start",
            "assess", "pausing", "ask", "closing", "finished", "failing", "failed", "ended", "lost"}]
      /\ begun \in Nat /\ RouteStages /\ Delivery \subseteq Nat
  BY DelayAssumption DEF RouteInv, RouteTyped, Delivery
<1>1. Steps' = Steps /\ StepName' = StepName /\ None' = None
  BY DEF Steps, StepName, Route, None
<1>2. \A i \in DOMAIN Steps : Steps[i] \in StepName
  BY <1>0, RouteShape, StepNameIs
<1>3. AllMade => AllMade'
  BY <1>1, <1>2 DEF AllMade
<1>4. EnoughFound => EnoughFound'
  BY DEF EnoughFound
<1>5. IsDone => IsDone'
  BY <1>3, <1>4 DEF IsDone
<1>6. ASSUME NEW c \in Delivery, NEW i \in DOMAIN Steps, AtStep(c, i), c # d
      PROVE  /\ flow'[c] = Steps[i] /\ assessed'[c] # None
             /\ i > 1 => made'[Steps[1]] = assessed'[c]
             /\ \A j \in DOMAIN Steps : j < i => made'[Steps[j]] # None
  <2>1. flow'[c] = flow[c] /\ assessed'[c] = assessed[c]
    BY <1>6 DEF RouteInv, RouteTyped
  <2>2. i > 1 => 1 \in DOMAIN Steps
    BY <1>0, RouteShape
  <2>3. i > 1 => made'[Steps[1]] = assessed'[c]
    BY <1>2, <1>6, <2>1, <2>2 DEF AtStep
  <2>4. \A j \in DOMAIN Steps : j < i => made'[Steps[j]] # None
    BY <1>2, <1>6 DEF AtStep
  <2>5. QED BY <1>6, <2>1, <2>3, <2>4 DEF AtStep
<1>7. ASSUME NEW c \in Delivery
      PROVE  /\ begun' < c => flow'[c] \in {"idle", "lost"} /\ assessed'[c] = None
             /\ flow'[c] \in {"start", "assess"} => assessed'[c] = None
             /\ flow'[c] \in StepName => \E i \in DOMAIN Steps :
                  /\ flow'[c] = Steps[i] /\ assessed'[c] # None
                  /\ i > 1 => made'[Steps[1]] = assessed'[c]
                  /\ \A j \in DOMAIN Steps : j < i => made'[Steps[j]] # None
             /\ flow'[c] \in {"pausing", "ask"} => AllMade'
             /\ flow'[c] = "closing" => IsDone' /\ (kind = "MATERIAL_LOW" => EnoughFound')
             /\ flow'[c] = "finished" => IsDone'
  <2>1. CASE c = d
    <3>1. flow'[d] = stage
      BY DEF RouteInv, RouteTyped
    <3>2. QED BY <2>1, <3>1
  <2>2. CASE c # d
    <3>1. flow'[c] = flow[c] /\ assessed'[c] = assessed[c]
      BY <2>2 DEF RouteInv, RouteTyped
    <3>2. begun' < c => begun < c
      BY <1>0
    <3>3. /\ begun < c => flow[c] \in {"idle", "lost"} /\ assessed[c] = None
          /\ flow[c] \in {"start", "assess"} => assessed[c] = None
          /\ flow[c] \in StepName => \E i \in DOMAIN Steps : AtStep(c, i)
          /\ flow[c] \in {"pausing", "ask"} => AllMade
          /\ flow[c] = "closing" => IsDone /\ (kind = "MATERIAL_LOW" => EnoughFound)
          /\ flow[c] = "finished" => IsDone
      BY <1>0 DEF RouteStages
    <3>4. flow[c] \in StepName => \E i \in DOMAIN Steps :
                  /\ flow'[c] = Steps[i] /\ assessed'[c] # None
                  /\ i > 1 => made'[Steps[1]] = assessed'[c]
                  /\ \A j \in DOMAIN Steps : j < i => made'[Steps[j]] # None
      BY <1>6, <2>2, <3>3
    <3>5. QED BY <1>3, <1>4, <1>5, <3>1, <3>2, <3>3, <3>4
  <2>3. QED BY <2>1, <2>2
<1>8. RouteStages'
  BY <1>1, <1>7 DEF RouteStages, AtStep
<1>9. QED BY <1>4, <1>5, <1>8

\* The steps that move no delivery of the event and make nothing.
LEMMA RouteIdle ==
  ASSUME RouteStages, UNCHANGED <<flow, kind, begun, assessed, made>>
  PROVE  RouteStages' /\ (IsDone => IsDone') /\ (EnoughFound => EnoughFound')
<1>1. Steps' = Steps /\ StepName' = StepName /\ None' = None
  BY DEF Steps, StepName, Route, None
<1>2. (IsDone <=> IsDone') /\ (EnoughFound <=> EnoughFound') /\ (AllMade <=> AllMade')
  BY <1>1 DEF IsDone, AllMade, EnoughFound
<1>3. QED BY <1>1, <1>2 DEF RouteStages, AtStep

LEMMA PurchaseKept ==
  ASSUME RouteInv, UNCHANGED <<kind, made, watched, approval, decider, executed>>,
         asked' \in BOOLEAN
  PROVE  kind' \in Routes /\ PurchaseTyped' /\ Purchases' /\ Story'
<1>0. PurchaseTyped /\ Purchases /\ Story /\ kind \in Routes
  BY DEF RouteInv
<1>1. Steps' = Steps /\ StepName' = StepName /\ None' = None
  BY DEF Steps, StepName, Route, None
<1>2. {watched, asked, executed}' \subseteq BOOLEAN
  BY <1>0 DEF PurchaseTyped
<1>3. PurchaseTyped'
  BY <1>0, <1>1, <1>2 DEF PurchaseTyped
<1>4. Purchases' /\ Story'
  BY <1>0, <1>1 DEF Purchases, Story
<1>5. QED BY <1>0, <1>3, <1>4

LEMMA RouteIsDoneNext ==
  RouteIsDone' <=>
    /\ handled' = "done" \/ run' \in {"waiting", "completed"} => IsDone'
    /\ kind' = "MATERIAL_LOW" /\ run' = "completed" => executed' \/ EnoughFound'
    /\ executed' => approval' = "approved"
  BY DEF RouteIsDone, IsDone, EnoughFound, AllMade

LEMMA RouteTypes ==
  ASSUME RouteTyped, kind \in Routes, NEW d \in Delivery, RouteStep(d), ~ MakeStep(d)
  PROVE  RouteTyped'
<1>0. d \in 0 .. MaxDeliveries /\ StepName' = StepName /\ None' = None
  BY DelayAssumption DEF Delivery, StepName, Route, None
<1>1. CASE Begin(d)
  BY <1>0, <1>1 DEF Begin, Go, RouteTyped, work
<1>2. CASE StartRun(d)
  BY <1>0, <1>2 DEF StartRun, Go, RouteTyped, work
<1>3. CASE Raise(d)
  BY <1>0, <1>3 DEF Raise, Go, RouteTyped, work
<1>4. CASE FailRun(d)
  BY <1>0, <1>4 DEF FailRun, Failed, Go, RouteTyped, work
<1>5. CASE Settle(d)
  BY <1>0, <1>5 DEF Settle, Go, RouteTyped, work
<1>6. CASE Crash(d)
  BY <1>0, <1>6 DEF Crash, Go, RouteTyped, work
<1>7. CASE ReadProject(d)
  <2>1. Steps[1] \in StepName
    BY RouteShape, StepNameIs
  <2>2. QED BY <1>0, <1>7, <2>1 DEF ReadProject, Go, RouteTyped
<1>9. CASE PauseRun(d)
  BY <1>0, <1>9 DEF PauseRun, Go, RouteTyped
<1>10. CASE Ask(d)
  BY <1>0, <1>10 DEF Ask, Go, RouteTyped
<1>11. CASE CloseRun(d)
  BY <1>0, <1>11 DEF CloseRun, Go, RouteTyped
<1>12. CASE Break(d)
  BY <1>0, <1>12 DEF Break, Go, RouteTyped
<1>13. QED BY <1>1, <1>2, <1>3, <1>4, <1>5, <1>6, <1>7, <1>9, <1>10, <1>11, <1>12
           DEF RouteStep

\* One transaction of the route: the step is made from what was read, found as
\* it is wanted, or refused; an issue is made or found as it was read.
LEMMA MakeFacts ==
  ASSUME RouteInv, NEW d \in Delivery, MakeStep(d)
  PROVE  \E i \in DOMAIN Steps, stage \in StepName \cup {"pausing", "closing", "failing"} :
           /\ AtStep(d, i) /\ flow' = [flow EXCEPT ![d] = stage]
           /\ stage # "failing" => stage = After(Steps[i])
           /\ made' \in [StepName -> Plan \cup {None}]
           /\ \A s \in StepName \ {Steps[i]} : made'[s] = made[s]
           /\ made[Steps[i]] # None => made'[Steps[i]] = made[Steps[i]]
           /\ made'[Steps[i]] # made[Steps[i]] /\ Len(Steps) > 1 => made'[Steps[i]] = assessed[d]
           /\ stage = "failing" => made' = made
           /\ stage # "failing" => made'[Steps[i]] # None
           /\ stage # "failing" /\ Len(Steps) > 1 /\ i = 1 => made'[Steps[1]] = assessed[d]
           /\ approval' = IF Steps[i] = "request" /\ made' # made THEN "pending" ELSE approval
<1>0. /\ kind \in Routes /\ RouteTyped /\ RouteStages /\ flow[d] \in StepName
  BY DEF MakeStep, RouteInv
<1>1. PICK i \in DOMAIN Steps : AtStep(d, i)
  BY <1>0 DEF RouteStages
<1> DEFINE s == flow[d]
           basis == IF s = "brief" THEN plan ELSE assessed[d]
           makes == made[s] = None /\ (s \in Versioned => plan = basis)
           replays == made[s] # None /\ (s \in Compared => Matches(made[s], basis))
           stage == IF makes \/ replays THEN After(s) ELSE "failing"
<1>2. /\ flow' = [flow EXCEPT ![d] = stage]
      /\ made' = (IF makes THEN [made EXCEPT ![s] = basis] ELSE made)
      /\ approval' = (IF makes /\ s = "request" THEN "pending" ELSE approval)
  BY DEF MakeStep, Go
<1>3. s = Steps[i] /\ assessed[d] \in Plan /\ plan \in Plan
  BY <1>0, <1>1 DEF AtStep, RouteTyped
<1>4. stage \in StepName \cup {"pausing", "closing", "failing"}
  <2>1. i < Len(Steps) => Steps[i + 1] \in StepName
    BY <1>0, RouteShape, StepNameIs
  <2>2. After(Steps[i]) \in StepName \cup {"pausing", "closing"}
    BY <1>0, <2>1, AfterStep
  <2>3. QED BY <1>3, <2>2
<1>5. basis \in Plan /\ (Len(Steps) > 1 => basis = assessed[d])
  <2>1. Len(Steps) > 1 => s # "brief"
    BY <1>0, <1>3, RouteShape
  <2>2. QED BY <1>3, <2>1
<1>6. replays /\ Len(Steps) > 1 /\ i = 1 => made[Steps[1]] = assessed[d]
  <2>1. Len(Steps) > 1 /\ i = 1 => s \in Compared /\ s = Steps[1]
    BY <1>0, <1>3, RouteShape DEF Compared
  <2>2. QED BY <2>1, <1>5 DEF Matches
<1> HIDE DEF basis
<1>7. makes => made[s] = None
  OBVIOUS
<1>8. replays => made[s] # None
  OBVIOUS
<1>9. ~ (makes \/ replays) => stage = "failing"
  OBVIOUS
<1>10. makes \/ replays => stage = After(s)
  OBVIOUS
<1>11. Steps[i] \in StepName /\ None \notin Plan
  BY <1>0, RouteShape, StepNameIs, NoneIsNoPlan
<1>12. made \in [StepName -> Plan \cup {None}]
  BY DEF RouteInv, PurchaseTyped
<1>13. CASE makes
  <2>1. "failing" # After(s)
    <3>1. i < Len(Steps) => Steps[i + 1] # "failing"
      BY <1>0, RouteShape DEF StepNames
    <3>2. QED BY <1>0, <1>3, <3>1, AfterStep
  <2>2. made' = [made EXCEPT ![s] = basis] /\ made[s] = None /\ stage = After(s)
    BY <1>2, <1>7, <1>10, <1>13
  <2>3. approval' = IF s = "request" THEN "pending" ELSE approval
    BY <1>2, <1>13
  <2> HIDE DEF makes, replays, stage
  <2>4. made' \in [StepName -> Plan \cup {None}] /\ made'[Steps[i]] = basis /\ made' # made
    BY <1>3, <1>5, <1>11, <1>12, <2>2
  <2>5. \A t \in StepName \ {Steps[i]} : made'[t] = made[t]
    BY <1>3, <1>12, <2>2
  <2>6. stage # "failing" /\ stage = After(Steps[i]) /\ basis # None
    BY <1>3, <1>5, <1>11, <2>1, <2>2
  <2>7. approval' = IF Steps[i] = "request" /\ made' # made THEN "pending" ELSE approval
    BY <1>3, <2>3, <2>4
  <2>8. made[Steps[i]] = None
    BY <1>3, <2>2
  <2>9. flow' = [flow EXCEPT ![d] = stage]
    BY <1>2
  <2> HIDE DEF s
  <2>10. QED BY <1>1, <1>4, <1>5, <2>4, <2>5, <2>6, <2>7, <2>8, <2>9
<1>14. CASE ~ makes
  <2>1. made' = made /\ approval' = approval
    BY <1>2, <1>14
  <2>2. stage # "failing" => replays
    BY <1>9, <1>14
  <2>9. flow' = [flow EXCEPT ![d] = stage]
    BY <1>2
  <2> HIDE DEF makes, replays, stage
  <2>3. stage # "failing" => stage = After(Steps[i])
    BY <2>2, <1>3, <1>10
  <2>4. stage # "failing" => made'[Steps[i]] # None
    BY <2>1, <2>2, <1>3, <1>8
  <2>5. stage # "failing" => (Len(Steps) > 1 /\ i = 1 => made'[Steps[1]] = assessed[d])
    BY <2>1, <2>2, <1>6
  <2>6. QED BY <1>1, <1>4, <1>12, <2>1, <2>3, <2>4, <2>5, <2>9
<1>15. QED BY <1>13, <1>14

LEMMA MakeKeeps ==
  ASSUME RouteInv, NEW d \in Delivery, MakeStep(d) PROVE RouteInv'
<1>0. /\ kind \in Routes /\ RouteTyped /\ RouteStages /\ PurchaseTyped /\ Purchases /\ Story
      /\ RouteIsDone
  BY DEF RouteInv
<1>1. /\ UNCHANGED <<plan, run, begun, handled, assessed, kind, watched, asked, decider, executed>>
      /\ flow[d] \in StepName
  BY DEF MakeStep, delivery
<1>2. PICK i \in DOMAIN Steps, stage \in StepName \cup {"pausing", "closing", "failing"} :
           /\ AtStep(d, i) /\ flow' = [flow EXCEPT ![d] = stage]
           /\ stage # "failing" => stage = After(Steps[i])
           /\ made' \in [StepName -> Plan \cup {None}]
           /\ \A s \in StepName \ {Steps[i]} : made'[s] = made[s]
           /\ made[Steps[i]] # None => made'[Steps[i]] = made[Steps[i]]
           /\ made'[Steps[i]] # made[Steps[i]] /\ Len(Steps) > 1 => made'[Steps[i]] = assessed[d]
           /\ stage = "failing" => made' = made
           /\ stage # "failing" => made'[Steps[i]] # None
           /\ stage # "failing" /\ Len(Steps) > 1 /\ i = 1 => made'[Steps[1]] = assessed[d]
           /\ approval' = IF Steps[i] = "request" /\ made' # made THEN "pending" ELSE approval
  BY MakeFacts
<1>3. /\ Steps' = Steps /\ StepName' = StepName /\ None' = None /\ None \notin Plan
      /\ \A j \in DOMAIN Steps : Steps[j] \in StepName
      /\ DOMAIN Steps = 1 .. Len(Steps) /\ Len(Steps) \in Nat /\ i \in 1 .. Len(Steps)
  <2>1. Steps' = Steps /\ StepName' = StepName /\ None' = None
    BY <1>1 DEF Steps, StepName, Route, None
  <2>2. /\ \A j \in DOMAIN Steps : Steps[j] \in StepName
        /\ DOMAIN Steps = 1 .. Len(Steps) /\ Len(Steps) \in Nat
    BY <1>0, RouteShape, StepNameIs
  <2>3. QED BY <2>1, <2>2, NoneIsNoPlan
<1>4. RouteTyped'
  BY <1>0, <1>1, <1>2, <1>3 DEF RouteTyped
<1>5. \A s \in StepName : made[s] # None => made'[s] = made[s]
  BY <1>2
<1>6. stage # "failing" => made'[Steps[i]] # None
  BY <1>2
<1>7. stage # "failing" /\ Len(Steps) > 1 => made'[Steps[1]] = assessed[d]
  <2>1. CASE i = 1
    BY <1>2, <2>1
  <2>2. CASE i > 1
    <3>1. 1 \in DOMAIN Steps /\ made[Steps[1]] = assessed[d] /\ assessed[d] # None
      BY <1>2, <1>3, <2>2 DEF AtStep
    <3>2. QED BY <1>3, <1>5, <3>1
  <2>3. QED BY <1>3, <2>1, <2>2
<1>8. stage # "failing" => \A j \in DOMAIN Steps : j <= i => made'[Steps[j]] # None
  <2>1. ASSUME NEW j \in DOMAIN Steps, j < i PROVE made'[Steps[j]] # None
    BY <1>2, <1>3, <1>5, <2>1 DEF AtStep
  <2>2. QED BY <1>3, <1>6, <2>1
<1>9. stage \in StepName => i < Len(Steps) /\ stage = Steps[i + 1]
  BY <1>0, <1>2, <1>3, AfterStep, StepNameIs DEF StepNames
<1>10. stage \in {"pausing", "closing"} => i = Len(Steps) /\ (kind = "MATERIAL_LOW" => stage = "pausing")
  <2>1. i < Len(Steps) => Steps[i + 1] \in StepName
    BY <1>3
  <2>2. "pausing" \notin StepName /\ "closing" \notin StepName
    BY StepNameIs DEF StepNames
  <2>3. QED BY <1>0, <1>2, <1>3, <2>1, <2>2, AfterStep DEF Waits
<1>11. stage \in {"pausing", "closing"} => AllMade'
  BY <1>3, <1>8, <1>10 DEF AllMade
<1>12. stage \in StepName => \E j \in DOMAIN Steps :
           /\ stage = Steps[j] /\ assessed'[d] # None
           /\ j > 1 => made'[Steps[1]] = assessed'[d]
           /\ \A k \in DOMAIN Steps : k < j => made'[Steps[k]] # None
  <2> SUFFICES ASSUME stage \in StepName
               PROVE  \E j \in DOMAIN Steps :
           /\ stage = Steps[j] /\ assessed'[d] # None
           /\ j > 1 => made'[Steps[1]] = assessed'[d]
           /\ \A k \in DOMAIN Steps : k < j => made'[Steps[k]] # None
    OBVIOUS
  <2>1. i + 1 \in DOMAIN Steps /\ stage = Steps[i + 1] /\ Len(Steps) > 1 /\ stage # "failing"
    BY <1>3, <1>9, StepNameIs DEF StepNames
  <2>2. assessed'[d] = assessed[d] /\ assessed[d] # None
    BY <1>1, <1>2 DEF AtStep
  <2>3. \A k \in DOMAIN Steps : k < i + 1 => made'[Steps[k]] # None
    BY <1>3, <1>8, <2>1
  <2>4. QED BY <1>7, <2>1, <2>2, <2>3
<1>13. ~ (begun < d) /\ begun \in Nat
  <2>1. flow[d] \notin {"idle", "lost"}
    BY <1>1, StepNameIs DEF StepNames
  <2>2. QED BY <1>0, <2>1, DelayAssumption DEF RouteStages, RouteTyped
<1>14. stage \notin {"start", "assess", "ask", "finished"}
  BY <1>2, StepNameIs DEF StepNames
<1>15. stage = "closing" => IsDone' /\ kind # "MATERIAL_LOW"
  BY <1>10, <1>11 DEF IsDone
<1>16. RouteStages' /\ (IsDone => IsDone') /\ (EnoughFound => EnoughFound')
  <2>1. /\ flow' = [flow EXCEPT ![d] = stage] /\ kind' = kind /\ begun' \in Nat /\ begun <= begun'
        /\ \A c \in Delivery \ {d} : assessed'[c] = assessed[c]
        /\ assessed[d] \in Enough => assessed'[d] = assessed[d]
        /\ begun' < d => stage \in {"idle", "lost"} /\ assessed'[d] = None
        /\ stage \in {"start", "assess"} => assessed'[d] = None
    BY <1>1, <1>2, <1>13, <1>14
  <2>2. /\ stage \in {"pausing", "ask"} => AllMade'
        /\ stage = "closing" => IsDone' /\ (kind = "MATERIAL_LOW" => EnoughFound')
        /\ stage = "finished" => IsDone'
    BY <1>11, <1>14, <1>15
  <2>3. QED BY <1>5, <1>12, <2>1, <2>2, RouteKept
<1>17. made' # made => made[Steps[i]] = None /\ made'[Steps[i]] # None
  <2>1. made \in [StepName -> Plan \cup {None}] /\ made' \in [StepName -> Plan \cup {None}]
    BY <1>0, <1>2 DEF PurchaseTyped
  <2>2. made'[Steps[i]] = made[Steps[i]] => \A s \in StepName : made'[s] = made[s]
    BY <1>2
  <2>3. made' # made => made'[Steps[i]] # made[Steps[i]]
    BY <2>1, <2>2
  <2>4. QED BY <1>2, <1>6, <2>3
<1>18. \A s \in StepName : s # Steps[i] => made'[s] = made[s]
  BY <1>2
<1>19. "request" \in StepName
  BY StepNameIs DEF StepNames
<1>20. PurchaseTyped'
  <2>1. {watched, asked, executed}' \subseteq BOOLEAN
    BY <1>0, <1>1 DEF PurchaseTyped
  <2>2. approval' = "none" <=> made'["request"] = None
    BY <1>0, <1>2, <1>3, <1>17, <1>18, <1>19 DEF PurchaseTyped
  <2>3. approval' \in {"none", "pending", "approved", "rejected"}
    BY <1>0, <1>2 DEF PurchaseTyped
  <2>4. decider' \in [Delivery -> Closed \cup {"idle", "approved", "rejected", "resumed"}]
    BY <1>0, <1>1 DEF PurchaseTyped
  <2>5. QED BY <1>2, <1>3, <2>1, <2>2, <2>3, <2>4 DEF PurchaseTyped
<1>21. approval # "none" => approval' = approval
  BY <1>0, <1>2, <1>17 DEF PurchaseTyped
<1>22. Purchases'
  <2>1. \A s \in StepName : made'[s] # None => \E j \in DOMAIN Steps : s = Steps[j]
    BY <1>0, <1>2, <1>18 DEF Purchases
  <2>2. \A w \in Delivery : /\ decider'[w] \in {"approved", "resumed"} => approval' = "approved"
                            /\ decider'[w] = "rejected" => approval' = "rejected"
    BY <1>0, <1>1, <1>21 DEF Purchases
  <2>3. QED BY <1>3, <2>1, <2>2 DEF Purchases
<1>23. Story'
  <2>1. ASSUME NEW j \in DOMAIN Steps PROVE made'[Steps[j]] \in {None, made'[Steps[1]]}
    <3>0. 1 \in DOMAIN Steps /\ made[Steps[j]] \in {None, made[Steps[1]]}
      BY <1>0, <1>3 DEF Story
    <3>1. CASE made' = made
      BY <3>0, <3>1
    <3>2. CASE made' # made /\ Steps[j] = Steps[i] /\ Len(Steps) > 1
      <4>1. stage # "failing" /\ made'[Steps[i]] # made[Steps[i]]
        BY <1>2, <1>17, <3>2
      <4>2. made'[Steps[i]] = assessed[d] /\ made'[Steps[1]] = assessed[d]
        BY <1>2, <1>7, <3>2, <4>1
      <4>3. QED BY <3>2, <4>2
    <3>3. CASE ~ (Len(Steps) > 1)
      BY <1>3, <3>3
    <3>4. CASE made' # made /\ Steps[j] # Steps[i]
      <4>1. made'[Steps[j]] = made[Steps[j]]
        BY <1>3, <1>18, <3>4
      <4>2. made[Steps[1]] # None => made'[Steps[1]] = made[Steps[1]]
        BY <1>3, <1>5, <3>0
      <4>3. QED BY <3>0, <4>1, <4>2
    <3>5. QED BY <3>1, <3>2, <3>3, <3>4
  <2>2. QED BY <1>3, <2>1 DEF Story
<1>24. RouteIsDone'
  BY <1>0, <1>1, <1>16, <1>21, RouteIsDoneSays, RouteIsDoneNext
<1>25. QED BY <1>0, <1>1, <1>4, <1>16, <1>20, <1>22, <1>23, <1>24 DEF RouteInv

\* The other steps of a delivery: each moves it to a stage that what is made,
\* and what it has read, allows.
LEMMA RouteFlowKeeps ==
  ASSUME RouteInv, NEW d \in Delivery, RouteStep(d), ~ MakeStep(d) PROVE RouteInv'
<1>0. /\ kind \in Routes /\ RouteTyped /\ RouteStages /\ PurchaseTyped /\ Purchases /\ Story
      /\ RouteIsDone
  BY DEF RouteInv
<1>1. UNCHANGED <<kind, made, watched, approval, decider, executed>> /\ asked' \in BOOLEAN
  BY <1>0 DEF RouteStep, ReadProject, PauseRun, Ask, CloseRun, Break, routed, purchase, PurchaseTyped
<1>2. RouteTyped'
  BY <1>0, RouteTypes
<1>3. kind' \in Routes /\ PurchaseTyped' /\ Purchases' /\ Story'
  BY <1>1, PurchaseKept
<1>4. Steps' = Steps /\ StepName' = StepName /\ None' = None /\ None \notin Plan
  BY <1>1, NoneIsNoPlan DEF Steps, StepName, Route, None
<1>s. /\ StepName = StepNames /\ Steps[1] \in StepName /\ 1 \in DOMAIN Steps
      /\ DOMAIN Steps = 1 .. Len(Steps)
  BY <1>0, RouteShape, StepNameIs
<1>d. /\ begun < d => flow[d] \in {"idle", "lost"} /\ assessed[d] = None
      /\ flow[d] \in {"start", "assess"} => assessed[d] = None
      /\ flow[d] \in {"pausing", "ask"} => AllMade
      /\ flow[d] = "closing" => IsDone /\ (kind = "MATERIAL_LOW" => EnoughFound)
      /\ flow[d] = "finished" => IsDone
      /\ begun \in Nat /\ begun' \in Nat /\ d \in Nat
  BY <1>0, <1>2, DelayAssumption DEF RouteStages, RouteTyped, Delivery
<1>e. /\ handled = "done" \/ run \in {"waiting", "completed"} => IsDone
      /\ kind = "MATERIAL_LOW" /\ run = "completed" => executed \/ EnoughFound
      /\ executed => approval = "approved"
  BY <1>0, RouteIsDoneSays
\* The steps that read nothing: what is done is what was done.
<1>5. ASSUME assessed' = assessed, begun <= begun',
             NEW stage \in {"start", "assess", "ask", "finished", "failing", "failed", "ended", "lost"},
             flow' = [flow EXCEPT ![d] = stage],
             begun' < d => stage = "lost",
             stage \in {"start", "assess"} => assessed[d] = None,
             stage = "ask" => AllMade, stage = "finished" => IsDone
      PROVE  RouteStages' /\ (IsDone' <=> IsDone) /\ (EnoughFound' <=> EnoughFound)
  <2>1. (AllMade' <=> AllMade) /\ (EnoughFound' <=> EnoughFound) /\ (IsDone' <=> IsDone)
    BY <1>1, <1>4, <1>5 DEF AllMade, IsDone, EnoughFound
  <2>2. stage \notin StepName
    BY <1>s DEF StepNames
  <2>3. begun' < d => stage \in {"idle", "lost"} /\ assessed'[d] = None
    BY <1>5, <1>d
  <2>4. RouteStages'
    BY <1>1, <1>5, <1>d, <2>1, <2>2, <2>3, RouteKept
  <2>5. QED BY <2>1, <2>4
<1>6. ASSUME RouteStages', IsDone => IsDone', EnoughFound => EnoughFound',
             handled' = "done" => handled = "done" \/ IsDone',
             run' \in {"waiting", "completed"} => run' = run \/ IsDone',
             run' = "completed" => run' = run \/ kind # "MATERIAL_LOW" \/ EnoughFound'
      PROVE  RouteInv'
  <2>1. RouteIsDone'
    BY <1>1, <1>6, <1>e, RouteIsDoneNext
  <2>2. QED BY <1>2, <1>3, <1>6, <2>1 DEF RouteInv
<1>7. CASE Begin(d)
  <2>1. begun < d /\ begun' = d /\ assessed' = assessed /\ handled' = handled /\ run' = run
        /\ flow' = [flow EXCEPT ![d] = "start"]
    BY <1>7, <1>d DEF Begin, Go
  <2>2. QED BY <1>5, <1>6, <1>d, <2>1
<1>8. CASE Raise(d) \/ FailRun(d) \/ Break(d)
  <2>1. PICK stage \in {"failing", "failed"} : flow' = [flow EXCEPT ![d] = stage]
    BY <1>8 DEF Raise, FailRun, Break, Go
  <2>2. /\ begun' = begun /\ assessed' = assessed /\ handled' = handled
        /\ run' \in {run, "failed"}
    BY <1>8 DEF Raise, FailRun, Failed, Break, work, delivery
  <2>3. ~ (begun < d)
    BY <1>8, <1>d, <1>s DEF Raise, FailRun, Break, StepNames
  <2>4. RouteStages' /\ (IsDone' <=> IsDone) /\ (EnoughFound' <=> EnoughFound)
    <3>1. begun <= begun' /\ ~ (begun' < d)
      BY <1>d, <2>2, <2>3
    <3>2. CASE stage = "failing"
      BY <1>5, <2>1, <2>2, <3>1, <3>2
    <3>3. CASE stage = "failed"
      BY <1>5, <2>1, <2>2, <3>1, <3>3
    <3>4. QED BY <3>2, <3>3
  <2>5. QED BY <1>6, <2>2, <2>4
<1>16. CASE StartRun(d)
  <2>1. /\ begun' = begun /\ assessed' = assessed /\ handled' = handled
        /\ flow' = [flow EXCEPT ![d] = "assess"] /\ flow[d] = "start"
        /\ run' \in {run, "running"}
    BY <1>16 DEF StartRun, Go, work
  <2>2. QED BY <1>5, <1>6, <1>d, <2>1
<1>9. CASE Settle(d)
  <2>1. /\ begun' = begun /\ assessed' = assessed /\ run' = run
        /\ flow' = [flow EXCEPT ![d] = "ended"] /\ flow[d] \in {"finished", "failed"}
        /\ handled' = "done" => handled = "done" \/ flow[d] = "finished"
    BY <1>9 DEF Settle, Go, work
  <2>2. QED BY <1>5, <1>6, <1>d, <2>1
<1>10. CASE Crash(d)
  <2>1. /\ begun' = begun /\ assessed' = assessed /\ run' = run /\ handled' = handled
        /\ flow' = [flow EXCEPT ![d] = "lost"]
    BY <1>10 DEF Crash, Go, work
  <2>2. QED BY <1>5, <1>6, <1>d, <2>1
<1>11. CASE ReadProject(d)
  <2>1. /\ begun' = begun /\ run' = run /\ handled' = handled /\ flow[d] = "assess"
        /\ assessed' = [assessed EXCEPT ![d] = plan]
    BY <1>11 DEF ReadProject
  <2>2. assessed'[d] \in Plan /\ assessed[d] \notin Enough /\ \A c \in Delivery \ {d} : assessed'[c] = assessed[c]
    BY <1>0, <1>4, <1>d, <2>1, EnoughAssumption DEF RouteTyped
  <2>7. /\ kind' = kind /\ begun' \in Nat /\ begun <= begun' /\ ~ (begun' < d)
        /\ \A c \in Delivery \ {d} : assessed'[c] = assessed[c]
        /\ assessed[d] \in Enough => assessed'[d] = assessed[d]
        /\ \A s \in StepName : made[s] # None => made'[s] = made[s]
    BY <1>1, <1>d, <2>1, <2>2
  <2>3. CASE kind = "MATERIAL_LOW" /\ plan \in Enough
    <3>1. flow' = [flow EXCEPT ![d] = "closing"]
      BY <1>11, <2>3 DEF ReadProject, Go
    <3>2. EnoughFound'
      BY <1>0, <1>1, <2>1, <2>3 DEF EnoughFound, RouteTyped
    <3>3. IsDone' /\ "closing" \notin StepName
      BY <3>2, <1>s DEF IsDone, StepNames
    <3>4. RouteStages' /\ (IsDone => IsDone') /\ (EnoughFound => EnoughFound')
      BY <2>7, <3>1, <3>2, <3>3, RouteKept
    <3>5. QED BY <1>6, <2>1, <3>4
  <2>4. CASE ~ (kind = "MATERIAL_LOW" /\ plan \in Enough)
    <3>1. flow' = [flow EXCEPT ![d] = Steps[1]]
      BY <1>11, <2>4 DEF ReadProject, Go
    <3>2. Steps[1] \notin {"start", "assess", "pausing", "ask", "closing", "finished"}
      BY <1>s DEF StepNames
    <3>3. \E i \in DOMAIN Steps :
            /\ Steps[1] = Steps[i] /\ assessed'[d] # None
            /\ i > 1 => made'[Steps[1]] = assessed'[d]
            /\ \A j \in DOMAIN Steps : j < i => made'[Steps[j]] # None
      <4>1. \A j \in DOMAIN Steps : ~ (j < 1)
        BY <1>0, <1>s, RouteShape
      <4>2. QED BY <1>s, <1>4, <2>2, <4>1
    <3>4. RouteStages' /\ (IsDone => IsDone') /\ (EnoughFound => EnoughFound')
      BY <2>7, <3>1, <3>2, <3>3, RouteKept
    <3>5. QED BY <1>6, <2>1, <3>4
  <2>5. QED BY <2>3, <2>4
<1>12. CASE PauseRun(d)
  <2>1. /\ begun' = begun /\ assessed' = assessed /\ run' = "waiting" /\ handled' = handled
        /\ flow' = [flow EXCEPT ![d] = "ask"] /\ flow[d] = "pausing"
    BY <1>12 DEF PauseRun, Go
  <2>2. QED BY <1>5, <1>6, <1>d, <2>1 DEF IsDone
<1>13. CASE Ask(d)
  <2>1. /\ begun' = begun /\ assessed' = assessed /\ run' = run /\ handled' = handled
        /\ flow' = [flow EXCEPT ![d] = "finished"] /\ flow[d] = "ask"
    BY <1>13 DEF Ask, Go
  <2>2. QED BY <1>5, <1>6, <1>d, <2>1 DEF IsDone
<1>14. CASE CloseRun(d)
  <2>1. /\ begun' = begun /\ assessed' = assessed /\ run' = "completed" /\ handled' = handled
        /\ flow' = [flow EXCEPT ![d] = "finished"] /\ flow[d] = "closing"
    BY <1>14 DEF CloseRun, Go
  <2>2. QED BY <1>5, <1>6, <1>d, <2>1 DEF IsDone
<1>15. QED BY <1>7, <1>8, <1>9, <1>10, <1>11, <1>12, <1>13, <1>14, <1>16 DEF RouteStep

\* The purchase: it is run and recorded only once it was asked for and approved.
LEMMA DeciderKeeps ==
  ASSUME RouteInv, NEW w \in Delivery, DeciderStep(w) PROVE RouteInv'
<1>0. /\ kind \in Routes /\ RouteTyped /\ RouteStages /\ PurchaseTyped /\ Purchases /\ Story
      /\ RouteIsDone
  BY DEF RouteInv
<1>1. UNCHANGED <<plan, begun, handled, flow, assessed, kind, made, watched, asked, approval>>
  BY DEF DeciderStep, TakeDecision, ResumeRun, ExecutePurchase, RejectRun, LoseDecider, vars, work
<1>4. Steps' = Steps /\ StepName' = StepName /\ None' = None
  BY <1>1 DEF Steps, StepName, Route, None
<1>5. RouteStages' /\ (IsDone => IsDone') /\ (EnoughFound => EnoughFound')
  BY <1>0, <1>1, RouteIdle
<1>e. /\ handled = "done" \/ run \in {"waiting", "completed"} => IsDone
      /\ kind = "MATERIAL_LOW" /\ run = "completed" => executed \/ EnoughFound
      /\ executed => approval = "approved"
  BY <1>0, RouteIsDoneSays
<1>6. ASSUME NEW place \in Closed \cup {"approved", "rejected", "resumed"},
             decider' = [decider EXCEPT ![w] = place],
             place \in {"approved", "resumed"} => approval = "approved",
             place = "rejected" => approval = "rejected",
             executed' \in {executed, TRUE}, executed' # executed => approval = "approved",
             run' \in {"running", "rejected", "completed"} \cup {run},
             run' = "completed" => run' = run \/ (executed' /\ IsDone)
      PROVE  RouteInv'
  <2>1. RouteTyped'
    BY <1>0, <1>1, <1>4, <1>6 DEF RouteTyped
  <2>2. {watched, asked, executed}' \subseteq BOOLEAN
    BY <1>0, <1>1, <1>6 DEF PurchaseTyped
  <2>3. decider' \in [Delivery -> Closed \cup {"idle", "approved", "rejected", "resumed"}]
    BY <1>0, <1>6 DEF PurchaseTyped
  <2>4. PurchaseTyped'
    BY <1>0, <1>1, <1>4, <2>2, <2>3 DEF PurchaseTyped
  <2>5. \A v \in Delivery : /\ decider'[v] \in {"approved", "resumed"} => approval' = "approved"
                            /\ decider'[v] = "rejected" => approval' = "rejected"
    BY <1>0, <1>1, <1>6 DEF PurchaseTyped, Purchases
  <2>6. Purchases'
    BY <1>0, <1>1, <1>4, <2>5 DEF Purchases
  <2>7. Story'
    BY <1>0, <1>1, <1>4 DEF Story
  <2>8. RouteIsDone'
    <3>1. executed => executed'
      BY <1>6
    <3>2. run' \in {"waiting", "completed"} => IsDone'
      BY <1>5, <1>6, <1>e
    <3>3. kind' = "MATERIAL_LOW" /\ run' = "completed" => executed' \/ EnoughFound'
      BY <1>1, <1>5, <1>6, <1>e, <3>1
    <3>4. executed' => approval' = "approved"
      BY <1>1, <1>6, <1>e
    <3>5. QED BY <1>1, <1>5, <1>e, <3>2, <3>3, <3>4, RouteIsDoneNext
  <2>9. QED BY <1>0, <1>1, <1>5, <2>1, <2>4, <2>6, <2>7, <2>8 DEF RouteInv
<1>d. /\ decider[w] \in {"approved", "resumed"} => approval = "approved"
      /\ decider[w] = "rejected" => approval = "rejected"
  BY <1>0 DEF Purchases
<1>7. CASE TakeDecision(w)
  BY <1>6, <1>7 DEF TakeDecision, At, vars
<1>8. CASE ResumeRun(w)
  <2>1. PICK place \in {"resumed", "failed"} :
           decider' = [decider EXCEPT ![w] = place] /\ run' \in {run, "running"}
    BY <1>8 DEF ResumeRun, At
  <2>2. approval = "approved" /\ executed' = executed
    BY <1>8, <1>d DEF ResumeRun
  <2>3. CASE place = "resumed"
    BY <1>6, <2>1, <2>2, <2>3
  <2>4. CASE place = "failed"
    BY <1>6, <2>1, <2>2, <2>4 DEF Closed
  <2>5. QED BY <2>1, <2>3, <2>4
<1>9. CASE ExecutePurchase(w)
  <2>1. approval = "approved"
    BY <1>9, <1>d DEF ExecutePurchase
  <2>2. made["request"] # None /\ "request" \in StepName
    BY <1>0, <2>1, StepNameIs DEF PurchaseTyped, StepNames
  <2>3. PICK i \in DOMAIN Steps : Steps[i] = "request"
    BY <1>0, <2>2 DEF Purchases
  <2>4. \A j \in DOMAIN Steps : Steps[j] = "request"
    BY <1>0, <2>3, RouteShape
  <2>5. IsDone
    BY <2>2, <2>4 DEF IsDone, AllMade
  <2>6. CASE run' = "completed" /\ executed' = TRUE /\ At(w, "done")
    BY <1>6, <2>1, <2>5, <2>6 DEF At, Closed
  <2>7. CASE run' = run /\ executed' = executed /\ At(w, "failed")
    BY <1>6, <2>7 DEF At, Closed
  <2>8. QED BY <1>9, <2>6, <2>7 DEF ExecutePurchase
<1>10. CASE RejectRun(w)
  <2>1. executed' = executed
    BY <1>10 DEF RejectRun
  <2>2. CASE run' = "rejected" /\ At(w, "done")
    BY <1>6, <2>1, <2>2 DEF At, Closed
  <2>3. CASE run' = run /\ At(w, "failed")
    BY <1>6, <2>1, <2>3 DEF At, Closed
  <2>4. QED BY <1>10, <2>2, <2>3 DEF RejectRun
<1>11. CASE LoseDecider(w)
  BY <1>6, <1>11 DEF LoseDecider, At, vars, Closed
<1>12. QED BY <1>7, <1>8, <1>9, <1>10, <1>11 DEF DeciderStep

\* The decisions of people, and edits of the project.
LEMMA OutsideKeeps ==
  ASSUME RouteInv, Decide \/ WatchedDecided \/ (ChangePlan /\ UNCHANGED routed)
  PROVE  RouteInv'
<1>0. /\ kind \in Routes /\ RouteTyped /\ RouteStages /\ PurchaseTyped /\ Purchases /\ Story
      /\ RouteIsDone
  BY DEF RouteInv
<1>1. /\ UNCHANGED <<run, begun, handled, flow, assessed, kind, made, asked, decider, executed>>
      /\ plan' \in Plan /\ watched' \in BOOLEAN
      /\ approval' = approval \/ (approval = "pending" /\ approval' \in {"approved", "rejected"})
  <2>1. ChangePlan => plan' \in Plan
    BY <1>0, DelayAssumption DEF ChangePlan, RouteTyped, Plan
  <2>2. CASE Decide
    BY <1>0, <2>2 DEF Decide, vars, work, RouteTyped, PurchaseTyped
  <2>3. CASE WatchedDecided
    BY <1>0, <2>3 DEF WatchedDecided, vars, work, RouteTyped, PurchaseTyped
  <2>4. CASE ChangePlan /\ UNCHANGED routed
    BY <1>0, <2>1, <2>4 DEF ChangePlan, routed, purchase, PurchaseTyped
  <2>5. QED BY <2>2, <2>3, <2>4
<1>4. Steps' = Steps /\ StepName' = StepName /\ None' = None
  BY <1>1 DEF Steps, StepName, Route, None
<1>5. RouteStages' /\ (IsDone => IsDone') /\ (EnoughFound => EnoughFound')
  BY <1>0, <1>1, RouteIdle
<1>6. RouteTyped'
  BY <1>0, <1>1, <1>4 DEF RouteTyped
<1>7. {watched, asked, executed}' \subseteq BOOLEAN
  BY <1>0, <1>1 DEF PurchaseTyped
<1>8. PurchaseTyped'
  BY <1>0, <1>1, <1>4, <1>7 DEF PurchaseTyped
<1>9. Purchases' /\ Story'
  BY <1>0, <1>1, <1>4 DEF Purchases, Story
<1>10. RouteIsDone'
  BY <1>0, <1>1, <1>5, RouteIsDoneSays, RouteIsDoneNext
<1>11. QED BY <1>0, <1>1, <1>5, <1>6, <1>8, <1>9, <1>10 DEF RouteInv

-----------------------------------------------------------------------------
(* The theorems *)

RoutedInv ==
  /\ kind \in Kind /\ PurchaseTyped
  /\ kind = "DELIVERY_DELAYED" => DelayInv
  /\ kind # "DELIVERY_DELAYED" => RouteInv

LEMMA RoutedInvInit == RoutedInit => RoutedInv
<1> SUFFICES ASSUME RoutedInit PROVE RoutedInv
  OBVIOUS
<1>1. PurchaseTyped
  <2>1. /\ made = [s \in StepName |-> None] /\ asked = FALSE /\ watched \in BOOLEAN
        /\ approval = "none" /\ executed = FALSE /\ decider = [w \in Delivery |-> "idle"]
    BY DEF RoutedInit
  <2>2. "request" \in StepName
    BY StepNameIs DEF StepNames
  <2>3. QED BY <2>1, <2>2 DEF PurchaseTyped
<1>2. QED BY <1>1, DelayInit, RouteInit DEF RoutedInv, RoutedInit

LEMMA RoutedStep ==
  ASSUME RoutedInv, [RoutedNext]_allVars
  PROVE  RoutedInv' /\ (note.status \in Settled /\ ~ UNCHANGED vars => note' = note)
<1>1. CASE UNCHANGED allVars
  <2>1. UNCHANGED <<plan, request, risk, followUp, run, note, accepted, enabled, firestore, begun,
                    handled, flow, assessed, thread, held>>
    BY <1>1 DEF allVars, vars, work
  <2>2. UNCHANGED <<kind, made, watched, asked, approval, decider, executed>>
    BY <1>1 DEF allVars, routed, purchase
  <2>3. PurchaseTyped' <=> PurchaseTyped
    BY <2>2 DEF PurchaseTyped, StepName, Route, None, Plan, Delivery, Closed
  <2>4. DelayInv => DelayInv'
    <3>1. WorkTyped => WorkTyped'
      BY <2>1 DEF WorkTyped
    <3>2. NoteTyped => NoteTyped'
      BY <2>1 DEF NoteTyped
    <3>3. Calls /\ Stages => Calls' /\ Stages'
      BY <2>1 DEF Calls, Stages, Delivered
    <3>4. CompletedMeansNotified /\ OneAssessment => CompletedMeansNotified' /\ OneAssessment'
      BY <2>1 DEF CompletedMeansNotified, OneAssessment
    <3>5. QED BY <3>1, <3>2, <3>3, <3>4 DEF DelayInv, NoteInv, WorkInv
  <2>5. RouteInv => RouteInv'
    <3>1. Steps' = Steps /\ StepName' = StepName /\ None' = None
      BY <2>2 DEF Steps, StepName, Route, None
    <3>2. RouteTyped => RouteTyped'
      BY <2>1, <3>1 DEF RouteTyped
    <3>3. RouteStages => RouteStages'
      BY <2>1, <2>2, RouteIdle
    <3>4. Purchases /\ Story => Purchases' /\ Story'
      BY <2>2, <3>1 DEF Purchases, Story
    <3>5. RouteIsDone => RouteIsDone'
      BY <2>1, <2>2, <3>1 DEF RouteIsDone
    <3>6. QED BY <2>2, <2>3, <3>2, <3>3, <3>4, <3>5 DEF RouteInv
  <2>6. QED BY <2>1, <2>2, <2>3, <2>4, <2>5 DEF RoutedInv
<1>2. CASE kind = "DELIVERY_DELAYED" /\ Next /\ UNCHANGED routed
  <2>1. UNCHANGED <<kind, made, watched, asked, approval, decider, executed>>
    BY <1>2 DEF routed, purchase
  <2>2. PurchaseTyped'
    BY <2>1 DEF PurchaseTyped, StepName, Route, None, Plan, Delivery, Closed, RoutedInv
  <2>3. QED BY <1>2, <2>1, <2>2, DelayStep DEF RoutedInv
<1>3. ASSUME kind # "DELIVERY_DELAYED", NEW d \in Delivery, RouteStep(d) \/ DeciderStep(d)
      PROVE  RoutedInv' /\ note' = note
  <2>1. RouteInv'
    BY <1>3, MakeKeeps, RouteFlowKeeps, DeciderKeeps DEF RoutedInv
  <2>2. note' = note
    BY <1>3 DEF RouteStep, DeciderStep, Begin, StartRun, Raise, FailRun, Settle, Crash, ReadProject,
       MakeStep, PauseRun, Ask, CloseRun, Break, TakeDecision, ResumeRun, ExecutePurchase,
       RejectRun, LoseDecider, delivery, vars
  <2>3. kind' = kind
    BY <1>3 DEF RouteStep, DeciderStep, routed, ReadProject,
       MakeStep, PauseRun, Ask, CloseRun, Break, TakeDecision, ResumeRun, ExecutePurchase,
       RejectRun, LoseDecider
  <2>4. QED BY <1>3, <2>1, <2>2, <2>3 DEF RoutedInv, RouteInv
<1>4. CASE kind # "DELIVERY_DELAYED" /\ (Decide \/ WatchedDecided \/ (ChangePlan /\ UNCHANGED routed))
  <2>1. RouteInv'
    BY <1>4, OutsideKeeps DEF RoutedInv
  <2>2. note' = note /\ kind' = kind
    BY <1>4 DEF Decide, WatchedDecided, ChangePlan, routed, vars
  <2>3. QED BY <1>4, <2>1, <2>2 DEF RoutedInv, RouteInv
<1>5. QED BY <1>1, <1>2, <1>3, <1>4 DEF RoutedNext

THEOREM RoutedInvariance == RoutedSpec => []RoutedInv
BY RoutedInvInit, RoutedStep, PTL DEF RoutedSpec

\* The records of an event, its run, its message and its deliveries are well
\* formed, whatever overlaps, breaks or is edited meanwhile.
THEOREM RoutedTypeCorrect == RoutedSpec => []RoutedTypeOK
<1>1. ASSUME RoutedInv PROVE RoutedTypeOK
  <2>1. kind = "DELIVERY_DELAYED" => TypeOK
    BY <1>1, TypeParts DEF RoutedInv, DelayInv, NoteInv, WorkInv
  <2>2. kind # "DELIVERY_DELAYED" => RouteTyped
    BY <1>1 DEF RoutedInv, RouteInv
  <2>3. QED BY <1>1, <2>1, <2>2 DEF RoutedTypeOK, RoutedInv, PurchaseTyped, RouteTyped
<1>2. QED BY <1>1, RoutedInvariance, PTL

\* An event is handled, and its run ends, only when all it asks for is on
\* record: for a delay, with the message taken by the provider or not wanted.
THEOREM HandledIsDone == RoutedSpec => []HandledMeansDone
<1>1. RoutedInv => HandledMeansDone
  BY DEF RoutedInv, DelayInv, WorkInv, RouteInv, HandledMeansDone
<1>2. QED BY <1>1, RoutedInvariance, PTL

\* The records of one event tell one story, although its deliveries may have
\* read different versions of the project.
THEOREM RecordsTellOneStory == RoutedSpec => []OneStory
<1>1. RoutedInv => OneStory
  BY DEF RoutedInv, DelayInv, WorkInv, RouteInv, OneStory, Story
<1>2. QED BY <1>1, RoutedInvariance, PTL

\* A message that was sent, skipped or given up is not written again, by any
\* thread that was left behind.
THEOREM OutcomeStays == RoutedSpec => OutcomeIsFinal
<1>1. RoutedInv /\ [RoutedNext]_allVars => [note.status \in Settled => note' = note]_vars
  BY RoutedStep
<1>2. QED BY <1>1, RoutedInvariance, PTL DEF RoutedSpec, OutcomeIsFinal
=============================================================================
