# A verification project for OG Foreman

OG Foreman keeps the records of construction projects. A site report, a late
delivery, a message or a manager's decision becomes a change of tasks, stock,
issues and purchase requests. Much of it runs through events: a worker receives
them through Pub/Sub, runs a workflow for each and stores what follows. Pub/Sub
delivers at least once, workers die and time out, managers decide and edit while
workflows run, and language models read one text in more than one way. The
system's promise is that every submission has one outcome all the same. This
project models the machinery that is to keep it, checks it with TLC on small
instances and proves what it can with TLAPS.

Paths below are relative to the repository. `PROJECT.json` maps each definition
of the modules to the lines it is translated from.

## Inventory

### Components, their state and their operations

| component | state it keeps | operations | modules |
|---|---|---|---|
| event claims, `app/services/event_claims.py` | `processed_events/{idempotency_key}`: status, fingerprint, claim token, lease, attempts, result | `claim`, `complete`, `fail`, each one transaction | `EventOnce`, `EventClaims` |
| worker and push endpoint, `app/worker.py`, `app/worker_http.py` | none of its own; Pub/Sub's delivery state | `process_event_async`: claim, route, run, settle; `pubsub_push`: answer | `Worker` |
| intake, `app/services/{site_update_intake,delivery_delay_intake,attachments}.py` | site update, run, event in the outbox; attachment records and the bucket | `submit`; `sign_upload`, `verify_upload` | `Intake` |
| transactional outbox, `app/services/outbox.py` | `outbox/{id}`: status, attempts, `processed_at`; audit activities | `queue`; `process`: claim, publish, complete or fail | `Outbox` |
| approvals, `app/services/approvals.py` | approval, linked material request, decision event in the outbox | `approve`, `reject`, publication of the event | `ApprovalFlow` |
| run lifecycle, `app/services/site_update_lifecycle.py`, `app/agents/site_update_execution.py` | agent run, site update, the ADK session of the run | `start_attempt`, `wait_for_approval`, `wait_for_clarification`, `complete`, `fail`; `resume_approved` | `ApprovalFlow` |
| approval continuation, `app/workflows/resume.py` | the run, its site update and its requests again | `handle_approval_granted`, `complete_approved_material_workflow`, `handle_approval_rejected` | `ApprovalFlow`, `RoutedEvents` |
| site-update application, `app/services/site_updates.py` | nothing of its own: an attempt's context in memory | one command per fact of a report, then the daily report | `SiteUpdateRun` |
| tasks, stock, requests, issues, reports, `app/services/{tasks,materials,material_requests,issues,reports}.py` | the project's records, the stock's ledger | idempotent commands with expected versions | `ProjectRecords` |
| activity ledger, `app/services/activity.py` | `activity/{hash of the idempotency key}` with a fingerprint of the mutation | `mutate`: perform once, replay, or conflict | an operator of every module that uses it |
| routed events, `app/services/routed_events.py`, `app/agents/event_execution.py` | agent run, issues, follow-up tasks, delayed or new requests | the routes of eight event types, the stages of the delivery delay | `DeliveryDelay`, `RoutedEvents` |
| notifications, `app/services/delivery_notifications.py` | the notification's outbox message: status, attempts, token, lease, back-off | `deliver`: queue, claim, send, record | `DeliveryDelay` |
| conversation, `app/api/v1/conversations.py`, `app/services/conversation_*.py` | memory with one slot for a proposal and one for a question, proposal claims | message, confirm, cancel; propose, apply, hand off, ask | `ConversationMemory`, `ConversationChanges`, `Conversation` |
| project import, `app/services/project_import*.py`, `app/services/project_sources.py` | source, import record with its draft, provenance | post, retry, extract, review, cancel, confirm, commit | `ImportPlan`, `ProjectImport` |
| stores, `app/repositories/` | entities with optimistic versions | `run_transaction`, `save` with an expected version | in every module |
| router, API, membership, adapters, observability, frontend | users and roles; nothing else the models need | request parsing, access checks, I/O | none |

### How they interact

- A service stores its state and an outbox message in one transaction. The
  request that did so then publishes the message (`OutboxService.process`).
- Pub/Sub pushes the event. `process_event_async` claims it, runs the workflow
  of its type in ADK under a timeout shorter than the lease, and completes or
  fails the claim. A normal return is answered 204, an exception with an error,
  which Pub/Sub retries up to five times before it dead-letters the message.
- A site update's workflow reads the project, sends its commands to the record
  services one transaction at a time, creates purchase requests with approvals
  and pauses. The decision is another event, with a claim of its own, whose
  worker resumes the run in the ADK session of the attempt that paused.
- The delivery-delay workflow sends a notification from a thread. The workflow's
  timeout does not stop the thread.
- The conversation changes the same records: at once, after a confirmation,
  after an approval, or by handing the message to the intake.
- An import compares its draft with the records three times (at the review, at
  the confirmation, in the commit) and then writes them in one transaction.

### What is hard, and what makes each component correct

Overlapping workers after a lease ran out, crashes between two transactions,
records that move in pairs, decisions that arrive early, callers that hold a
stale count or version, retries that work out anew what they already did, late
answers, redelivery after the end: the list with its lines is under `hazards` in
`PROJECT.json`. The correctness of each part, in a sentence:

- event claims: an event is settled once, by the call that holds its claim;
- worker: no message is acknowledged away;
- intake and outbox: a submission is stored once and whole; a success is true
  and is final, and the audit trail tells it;
- approvals and runs: no external action without a standing approval, a run
  and its site update end together, and an end is an end;
- records: the stock is explained by its ledger, deliveries add up to what was
  ordered, a task is completed after its dependencies, nobody's change is lost;
- site updates: a retry is recognised, the report names what is on record;
- routed events: an event is handled when all it asks for is done, its records
  tell one story, and a success means notified;
- conversation: what is said of a proposal is true, what is applied is what was
  reviewed, once, and a confirmation is decided;
- import: a reviewed draft is imported whole, only adds, and comes to an end.

## The modules

### EventOnce and EventClaims

`EventClaims` is `EventClaimService`. `record[k]` is the stored event; `pc[c]` is
how far the worker call `c` is and what it was told. Every operation is one
repository transaction, hence one action, with one disjunct of `Claim` for each
way `claim` can go. The random claim token is the identity of the call. A call
that dies takes no further step, so crashes need no action. A worker's clock is
the common variable `now`; skew between instances is not modelled.

`EventOnce` says what the records promise without leases, attempts and
fingerprints: a key is open until it is settled, once, completed only by its
holder, and who gave a key up never holds one again. `ImplementsOnce` is the
refinement.

### Worker

`Worker` instantiates `EventClaims` with the pushes of Pub/Sub as its calls: the
n-th push of message m is the call `<<m, n>>`. `Respond` is the HTTP answer of
`pubsub_push`, `GiveUp` is Pub/Sub's own timeout while the handler may still be
running. Workflows end in a settled claim or not at all.

### Outbox and Intake

`Outbox` is `OutboxService.process` with several callers at once. `SaveOutcome`
contains the one thing that keeps a late failure from undoing a success: the
validator of `OutboxMessage` refuses a status that disagrees with `processed_at`,
and the transaction rolls back. The audit activities carry the fields the ledger
compares on a replay. `firestore` chooses the store: where an audited message is
saved and its activity looked up afterwards, Firestore's client refuses
(`LateRead`).

`Intake` extends it with what comes before: the requests under one operation key
(`Submit`, with `Store`, `Replay` and `Refuse`), and the attachments an update
names. `audited` tells the two intakes apart, because only a delivery delay's
message carries an audit context. `verdicts[f]` are verifications that have
inspected the object and not yet saved; `Settle` is `_save_with_activity`, which
expects version 0.

### ApprovalFlow

One site update, its run, and the approvals it asks for. `phase[t]` is delivery t
of the site-update event (`UpdateStep`), `at[w]` a delivery of a decision event
(`ContinuationStep`). The deliveries of one event may overlap, as they do when a
worker outlives its lease, and all of them run beside those of other decisions.
`recorded` stands for the ledger's activities that end the update, whose keys the
attempts share; `asked` and `output` are what the ADK sessions of the attempts
hold. The claim of each event is reduced to what `EventClaims` establishes: its
deliveries are numbered and only the last may settle. That a worker can outlive
its lease although the workflow's timeout is shorter follows from the code: the
timeout takes effect at an await, the services' calls of the store are
synchronous, and an instance may be suspended.

### ProjectRecords and SiteUpdateRun

`ProjectRecords` is the state of a project and the commands on it. A command
carries its idempotency key, the part the activity ledger fingerprints, and the
version its sender has seen. `Perform` is `ActivityService.mutate` around the
command: `Fresh`, allowed (`Can`), recorded and done in one step; `Replays` and
`Refused` are its other outcomes. There is one `Can…` and one operator per command
of the services: task updates with status and percentage, details, creation and
follow-ups; creation, edit, adjustment, setting and delivery of a material with
the ledger entry (`Move`); purchase and shortage requests; issues; the projection
of an update into the daily report, and the edit of its summary.

`SiteUpdateRun` is an attempt of a site update: `Begin` reads the context and
works out the commands (`Plan`, from the interpretation, in the order of the
code; `First` and the rule about repeated materials are its `seen_…_ids`), `Send`, `Resend` and `Fails` are the three answers to the next one,
`Assess` reads the stock between two transactions, `Summarise` reads the tasks
for the report. An attempt may `Die` anywhere and the next starts over with a
context and an interpretation of its own. `UserReads` and `UserSends` are people
with one command each. `Setup` is the project as it was set up, and `IsReading`,
`IsRequest` and `IsProject` say what a report may be read as, what the commands of
people have passed, and how a project looks before anything happens to it.

### DeliveryDelay and RoutedEvents

`DeliveryDelay` is one delayed delivery. `flow[d]` is the workflow of delivery `d`
of the event, `thread[d]` its call of `NotificationService.deliver`. They separate
when the workflow raises: the thread goes on. An assessment is the version of the
schedule it was computed from, which is all that the replay checks tell apart.
Lease and back-off are flags that time may clear.

`RoutedEvents` extends it to all the events that the typed service applies. They
share the run and the life of a delivery; `Route` lists what each kind asks for,
`MakeStep` is one transaction of it with the ledger's replay (`Compared`) and the
expected version of a task (`Versioned`). A shortage ends in a purchase request:
its decision is an event of its own (`decider`), handled by `ResumeRun`,
`ExecutePurchase` and `RejectRun` beside redeliveries of the first event. `plan`
stands for the version of what the event reads, the tasks or the stock; one edit
counts for all of them.

### ConversationMemory, ConversationChanges and Conversation

The first has the store of a conversation and one operator pair (guard and
effect) per transaction of `ConversationMemory`; the second has what a reading of
a message turns into (`MutationKind`, `Policy`, `Route`) and the typed services'
effects; the third has the calls, cut wherever the code awaits a model or starts
another transaction. A message's reading is chosen anew whenever the code asks
the model. `seen` is what a call carries between its steps. Signatures and
attempt ids are left out (the module says why); versions of the memory and of
the records are kept, since the races are about them. `due` says that the proposal
in the slot is past its fifteen minutes; it is time that sets it, so that a copy of
the memory which is written back takes it over from the record.

An old proposal gives way to a new one after its claim is recorded as expired.
The expiry looks an activity up after it has created the claim, which Firestore
refuses, so that there the new message fails and the old proposal stays until
somebody cancels it; `Firestore` chooses the store. `conversation` runs on the
store in memory, where more can happen, `conversation_first` on Firestore, and
the theorems hold for both.

`ProposalLife` says what all this is for, on its own: one proposal at a time is
open or being confirmed, it is settled once, and the project is changed between its
reservation and its receipt. `Life` in `Conversation` is its instance: the state of
a proposal is its claim's outcome, or whether it is in the slot
(`ProposalState`), and the change is made when the activity under its key is
the confirmation's (`ConfirmedKeys`).

A manager's memory is created with version 0, and a reader of a memory that does
not exist yet has version 0 too: a citation that was read before the first proposal
is saved over it (`Fresh = TRUE`, `conversation_first`). And two confirmations of
one proposal hold the same reservation, so that the one that is refused may call
stale what the other has done since its refusal; this is why `OutcomeMatchesChange`
says nothing of a stale one.

### ImportPlan and ProjectImport

`ImportPlan` has the deterministic part as operators: normalization, each check
of the validator with its code, the plan's identities and its count of writes,
and the additive-only comparison. A name is a key and a spelling, which is what
matching tells apart. `ProjectImport` is the life of an import: a call is a
request on its way through the services, and every transaction of it is an
action. The draft a call carries is the one it read, which may be another than
the record holds by now. The commit writes everything and the provenance in one
transaction.

## The runs

| run | question | instance | distinct states |
|---|---|---|---|
| `event_claims` | is an event settled once, by its holder? | 4 calls, 1 key, 2 envelopes, lease 2, 2 attempts, clock to 5 | 8,368 |
| `worker` | is anything acknowledged away? | 2 messages with 3 pushes, 1 key, 2 envelopes, lease 1, clock to 2 | 267,864 |
| `worker_reclaim` | can abandoned work be reclaimed? **violated** | 1 message, lease 2 | |
| `outbox` | is a submission stored once and whole, and published truthfully? | 3 requests under one key, 2 bodies, 2 attachments, 2 errors, either store | 666,658 |
| `approval_flow` | do run, update, requests and actions agree? | 2 approvals, 2 overlapping deliveries of every event | 812,359 |
| `approval_rejection` | is a rejection final? **violated** | 1 approval | |
| `delivery_delay` | is an event handled when all it asks for is done, and told as one story? | 8 kinds of event, 2 deliveries, 2 edits, 2 attempts to notify, 2 deliveries of a decision | 463,296 |
| `delivery_store` | can a notification be claimed on Firestore? **violated** | the same, 1 edit | |
| `site_records` | do the records stay explained, true and complete? | 3 tasks in a chain, 2 materials, 1 order, 2 updates with 4 readings, 2 attempts, 1 of 11 commands of people or 2 deliveries of the order | 1,544,066 |
| `project_import` | is an import whole, additive and as reviewed, and does it end? | 2 imports, 2 requests at a time, 4 drafts, 2 extractions, 1 mishap | 341,449 |
| `conversation` | do proposals end truthfully, and are confirmations decided? | 2 messages with 7 readings, 2 requests at a time, 1 edit, 1 death, a memory from before | 339,794 |
| `conversation_first` | is a proposal never written over silently? **violated** | the same, no memory from before | |

`outbox` uses the symmetry of its callers; no property of it is a liveness
property. Deadlock checking is off in every run: an event that is settled, or a
behaviour that has used up its bounds, has nothing left to do.

What the properties of each passing run say:

- `event_claims`: `LeaseIsExclusive`, `AttemptsCountClaims`, `BuriedWithCause`,
  `OwnersAgreeOnEvent`, and `ImplementsOnce`, the refinement (`SettledIsFinal` is proved).
- `worker`: `AckedIsSettledOrBusy`: a message is only forgotten when its event is
  settled or in another delivery's hands; `UndisturbedEventsSettle`.
- `outbox`: `AnswersAreTrue` (a success means published; the audit trail has every
  claim once and the publication under the last), `IntakeIsWhole` (an update has
  the attachments it names, as they were announced, and no other; a repetition is
  known, save a delay sent without its time), `CompletedIsFinal`.
- `approval_flow`: see the theorems below, which state all six.
- `delivery_delay`: `HandledMeansDone`: a delay's success means that request,
  risk and follow-up are on record and the message was taken or is not to be
  sent; another event's end means that its whole route is on record, and a
  shortage ends with the granted purchase or with a stock found sufficient.
  `OneStory`: what the deliveries of one event write agrees, whatever was edited
  in between. `OutcomeIsFinal` and `DeliverEnds` are about the notification.
- `site_records`: `StockExplained` (every stock is the sum of its ledger entries
  and the balance of the last), `DeliveredAsOrdered`, `RetryIsRecognised` (an attempt is
  refused its own keys only when others changed the project, the report was read in
  another way, it names two blockers of one task, which are sent under one key, or
  it completes a task it also plans to go on with, which needs less material the
  second time), `CompletedAfterDependencies`, `ReportTellsTheTruth`, `NoChangeIsLost`.
- `project_import`: `ImportedWhole`, `AddsOnly`, `ReviewStands`, `ConfirmedEnds`.
- `conversation`: `ProposalsEndTruthfully` (a confirmed proposal has changed the
  project once, cancelled and expired ones have not; the change is the one reviewed;
  a reservation keeps its slot), `ReservationEnds`, and `ImplementsLife`, the refinement.

Each run has one type invariant besides. It states how fields of a record hang
together as well (a token marks a claimed record, a lease an extraction).

### Bounds

Every hazard these modules are about needs two actors of one kind (a worker and
its successor, two requests, two approvals), and a third where someone has to
come after both. Leases of one or two ticks expire or last at any point of a call;
two attempts make a first, a last and an exhausted one; four calls on one key let
a call come after the budget is spent. Keys, projects and conversations of
different managers do not interact, so one of each is enough. Three tasks in a
chain have a first, a middle and a last one; in `conversation` moving the second
affects two tasks, which is confirmed, and moving the first affects three, which
is more than `LargeImpact` and needs an approval. Three versions of the stock, of
which the second is enough, give a shortage that changes and one that goes away.
The two imports name one task in two spellings, and the first may be read as a
cyclic draft, one with an unknown unit or one with a blank name. Of the order of
three, two units are delivered and then the one that is still due, or two more,
which are refused because of the two before; either comes while the stock is
reported, and a person's version of it gets old.

`MaxTime`, `Call`, `Caller`, `MaxPlan`, `MaxStock`, `Occasions`, `MaxTurns`,
`MaxEdits`, `MaxMishaps` and `MaxVersion` bound the instance, as do the
`MaxAttempts` and `MaxDeliveries` of `SiteUpdateRun` and the `MaxAttempts` of
`ProjectImport`; the other constants are settings of the program.

### The four violations

Each is a disagreement between what a document or a comment promises and what
the code does; `findings` in `PROJECT.json` quotes both.

- `worker_reclaim`: a delivery that finds a live lease is acknowledged, and no
  message is left when the owner dies.
- `approval_rejection`: a redelivered site update restarts a run that a rejection
  has closed.
- `delivery_store`: `_claim` saves the notification and then looks its activity
  up, which Firestore's client refuses in one transaction; `OutboxService` does
  the same for events with an audit context. With the store of production they
  are not sent; with the in-memory one of the tests they are. The expiry of a
  proposal is refused there for the same reason (`Expirable`).
- `conversation_first`: a citation that was read before the manager's first memory
  was stored is saved over the proposal in it.

## Fairness

- `EventClaims`, `EventOnce`, `ApprovalFlow`, `SiteUpdateRun`: none; only safety
  is claimed.
- `Worker`: Pub/Sub pushes what is due, and waits for no answer for ever
  (`--ack-deadline`). Nothing is assumed of the workflows, which may hang.
- `Outbox`, `Intake`: a request that was begun is carried through unless its
  process dies, which stays possible at every point. No request has to come.
- `DeliveryDelay`, `RoutedEvents`: a thread in `deliver` is scheduled, the
  provider answers or times out (`notification_timeout_seconds`), and a back-off
  passes. A store that fails may end the call instead; a crash is possible and
  not fair.
- `ProjectImport`: a request that lives goes on, and the client that confirmed
  repeats the same confirmation while its import is neither imported nor failed
  (docs/API.md: decisions take a stable key, exact replay resumes). The repetition
  is strongly fair, since it needs a free slot for its request.
- `Conversation`: a request that is not cut off goes on, and the client that was
  not told how its confirmation ended sends it again with the version it was
  shown (`resolveProposal` in frontend/components/og-conversation.tsx keeps the
  proposal open after an error). Strongly fair for the same reason.

## What is proved

`EventClaimsProofs` proves, for every number of keys, calls and envelopes, every
lease, budget and clock that `ClaimsAssumption` admits:

| theorem | establishes |
|---|---|
| `TypeCorrect` | `TypeOK`: a token marks exactly the claimed records, a result the completed ones |
| `Exclusive` | `LeaseIsExclusive`: within its lease a claim is its owner's alone |
| `BuriedOnlyWithCause` | `BuriedWithCause`: dead-lettered means rejected or out of budget |
| `SameEnvelope` | `OwnersAgreeOnEvent`: all owners of a key had the same envelope |
| `OutcomeIsFinal` | `SettledIsFinal`: a settled record never changes |
| `Refinement` | `ImplementsOnce`: every step is a step of `EventOnce` or none |

The argument is one inductive invariant, `IInv`: the type invariant,
`LeaseIsExclusive`, `BuriedWithCause`, and `Agreement`. The last is the
strengthening. `OwnersAgreeOnEvent` relates two calls, and a step that makes a
call an owner says nothing of the others; what it does say is that the record
carries this call's fingerprint. So `Agreement` states that every call that ever
acquired a key agrees with the record, which is inductive because a record, once
there, never changes its fingerprint. It states as well that a stored record was
acquired by some call, which the refinement needs of a key that is buried, and
that the budget is never exceeded, which turns the "at least" of the code's test
into the "exactly" of `BuriedWithCause`. Each conjunct has a step lemma of its own,
`Invariance` puts them together, and the refinement has one lemma per kind of
step (`GrantRefines`, `ReleaseRefines`, `CompleteRefines`, `BuryRefines`).

`ApprovalFlowProofs` proves, for every number of approvals and of deliveries:

| theorem | establishes |
|---|---|
| `TypeCorrect` | `TypeOK` |
| `MoveTogether` | `RunAndSiteAgree`: the run and its update part only by a rejection |
| `EndIsEnd` | `CompletedIsFinal`: nothing moves a completed run |
| `ExecutedOnlyIfGranted` | `ExecutedWasGranted`: no external action without a standing approval |
| `GrantsClose` | `HandledGrantClosedTheRun`: a handled grant has seen its run to the end |
| `PauseHolds` | `PausedUntilDecided`: only a claimed decision ends a pause |

Here the steps are many and what they do to the run is little, so the proof
first sorts them: `EveryStepMoves` shows that each of the twenty kinds of step
makes one of five moves of the run (`RunMove`), and `RunAndSiteAgree` is inductive
over these alone; `EndIsEnd` needs nothing else. `DecisionMove`, `UpdateMove` and
`WorkerMove` sort the steps for the other parts of the state in the same way. The
inductive invariant adds what the deliveries know: one that carries a grant knows
that the approval is granted (`Workers`), which no step takes back
(`DecisionStays`); an approval and its request are decided together
(`Decisions`); a delivery of a grant that has finished saw the run closed
(`Finished`). Without them the last step of a continuation could be taken by a
delivery that nobody granted.

`AttemptsAreClaims` (`AttemptsCountClaims`) counts the `Claimants` of a key, the calls
that have acquired it: they are as many as its record has attempts, since a grant adds a
call that was new before to this set and no other step changes it.

`WorkerProofs` proves `WorkerTypeCorrect` and `NothingIsAckedAway`
(`AckedIsSettledOrBusy`) for every number of messages and pushes. It does not repeat
the claims: `EventClaimsProofs` is instantiated with the pushes as calls
(`DeliveriesAreCalls` shows its assumptions, `ClaimsSpec` that a behaviour of the
worker is one of its behaviours). What is added, `WorkerInv`, says that a push is sent
after the one before it was refused (`Pushes`), and that what a handler answers is true
(`Told`).

`IntakeProofs` proves, for every number of requests, bodies, attachments and errors:

| theorem | establishes |
|---|---|
| `IntakeTypeCorrect` | `IntakeTypeOK` |
| `SuccessIsTrue` | `AnswersAreTrue`: a success means published, and the audit trail tells each claim once |
| `StoredWhole` | `IntakeIsWhole`: stored with the attachments it names, a repetition is known |
| `PublishedIsPublished` | `CompletedIsFinal`: a late failure takes no publication back |

`IntakeIInv` adds three things to these. `Publications` counts the callers that have
claimed, which bounds the attempts, and says that nobody is past the publication
without one. `Findings` says that a verification under way found what the bucket
still holds; without it a late `Settle` could verify another object. `Answers` says
whose digest is stored, since a repetition is known by comparing digests.

`RoutedEventsProofs` proves, for every number of deliveries and attempts, any edits
and any stock:

| theorem | establishes |
|---|---|
| `RoutedTypeCorrect` | `RoutedTypeOK` |
| `HandledIsDone` | `HandledMeansDone`: the whole route is on record; a delay's success means notified |
| `RecordsTellOneStory` | `OneStory`: what the deliveries write agrees |
| `OutcomeStays` | `OutcomeIsFinal`: a notification's outcome never changes |

The kind of the event never changes, so `RoutedInv` is `DelayInv` for a delay and
`RouteInv` for the other kinds. `DelayInv` has a part for the workflow and one for the
calls of `deliver`, which write different variables. `Stages` says what a delivery
has done by the stage it is at, and that it got past the risk only if the recorded
assessment is its own: this makes the story one. `Calls` says that a token is held
only while a message is being sent, so that a thread which lost its claim can record
nothing over an outcome. `RouteInv` says the same of a route (`RouteStages`, `Story`), and
that a decision is handled as it was made (`Purchases`).

`SiteUpdateProofs` proves, for every set of tasks and materials and every dependency
between them, any reports and readings, any commands of people, any number of
overlapping attempts and any project to begin with:

| theorem | establishes |
|---|---|
| `RecordsTypeCorrect` | `TypeOK` |
| `StockIsExplained` | `StockExplained`: a stock is the sum of its entries, and the balance of the last |
| `DeliveriesAddUp` | `DeliveredAsOrdered`: the deliveries of a request sum up to what it has, never to more than was ordered |
| `CompletedInOrder` | `CompletedAfterDependencies` |
| `ReportIsTrue` | `ReportTellsTheTruth` |
| `WritesWhatItRead` | `NoChangeIsLost`: an attempt writes over what it has read and nothing else |
| `RetriesAreRecognised` | `RetryIsRecognised`: an attempt is not refused its own keys while nobody else interferes |

The invariant, `SiteUpdateInv`, has two parts. `RecordsInv` is about the records:
the ledger is finite and has the shape of its commands (`Ledger`); tasks, stock,
requests and issues are well formed (`TasksInv`, `StockInv`, `RequestsInv`,
`IssuesInv`); sums agree (`Summed`, `Latest`, `Fulfilled`); what the ledger tells is
there (`Recorded`). Each part is needed by another. Deliveries add up only because a
request's key is its own, and it is, because requests are made under the keys of
fresh commands. A report rests on what its attempt was told, hence on `Recorded`; and
that a completed task is still completed rests on the transitions, from which only a
person's reopening leads back. `AttemptsInv` is about the attempts: what they have to
send fits the project (`IsAttempt`, for which `PlanFits` goes through every list that
`Plan` makes), what they were told is in the ledger, and what they have read is still
there or has a smaller version than now (`Knows`, `SeenBefore`). The last is what
makes the check of the expected version enough for `NoChangeIsLost`.

The sums are folds over sets, and `Downstream` and the lists of `Plan` are recursive.
The library's induction theorems cannot be used, since they take an operator, but
induction can be stated about sets: `SetInduction` is well-founded induction over the
natural numbers for a set of numbers, and `TotalsLaw`, `BalanceGrows`, `BroughtGrows`,
`FlattenSeqType` and `DownstreamIsTasks` follow from it.

`RetriesAreRecognised` is about two attempts that computed their commands from two
states of the project, and is proved by comparing both with a third, the project as it
was set up (`Base`). `EnvOf` says, for the facts of a report alone, what each key of
the update stands for. `RetryInv` then says that as long as the project is `Quiet` (no
command of a person, nothing sent by another update, one reading of the report) and
the report `Plain` (no task blocked twice, none completed and gone on with), the
update is `Undisturbed`:

- `Settled`: tasks have moved only as the report says (`MovedTo`), every entry of the
  ledger is what its key stands for (`Canonical`) and its effect can be seen
  (`Effective`). A movement of stock is the exception: its size depends on what was
  there, so its entry only has to lead to the quantity the report states.
- `Underway`: what an attempt has read the report has moved since, if anything has
  (`MovedTo`, `ReadStock`); what it sent and has to send is meant by the report
  (`Meant`), in an order in which each command finds what it presupposes (`InTurn`: a
  warning comes after the follow-up of its blocker, a comparison after the movement),
  and nothing is left out (`Covered`).

A plan is taken apart into the commands of its facts (`PlanSet`, `PlanHas`), and
`MeantIsCanonical` shows for each kind that it has the one content, whatever context
it was made in. For the warning about what a blocker holds up this needs an induction:
the tasks behind an open task are the same in both contexts, because nothing is
completed before what it waits for (`DownstreamSame`). `NoConflict` then is one step
from `Settled`. That the report of the day is the same too needs everything to have
happened when it is written (`RisksTold`, `RequestsTold`, `ProgressTold`), which is what
`Covered` is for.

`ProjectImportProofs` proves, for every number of imports and requests, all texts,
drafts and reviews:

| theorem | establishes |
|---|---|
| `ImportTypeCorrect` | `TypeOK`, and with it the bound on the attempts |
| `ImportedWholeOrNot` | `ImportedWhole`: all of an import is in the project, with its provenance, or nothing |
| `ImportsOnlyAdd` | `AddsOnly`: nothing is changed, and no second record of a name comes |
| `ReviewedIsImported` | `ReviewStands`: the draft reviewed is the draft imported |

`ImportInv` says that a record fits its status (`Fits`: a lease belongs to an
extraction, a draft under review has no conflicts), that a call carries what its place
needs (`Carries`) and finds the source and record it is about (`Known`), that each
attempt beyond those asked for has cost a mishap (`Spent`), and `ImportedWhole` itself.
Most steps touch no record that stands (`Quiet`), so `ReviewStands` and `ImportedWhole`
have one real case, the commit; the identities of two imports differ, so a commit
does not touch what another import brought.

`ConversationProofs` proves, for every set of records and dependencies between them,
any messages with any readings, and every number of requests, edits and deaths:

| theorem | establishes |
|---|---|
| `ConversationInvariant` | the inductive invariant below |
| `ConversationTypes` | `TypeOK` |
| `OutcomesAreTrue` | `OutcomeMatchesChange` and `ChangedAsReviewed`, two parts of `ProposalsEndTruthfully` |
| `ProposalsEndTruthfullyHolds` | `ProposalsEndTruthfully`, if the manager's memory exists |
| `ConversationImplementsLife` | `ImplementsLife`, if it exists: every step is a step of `ProposalLife` or none |
| `SlotIsKept` | `NoSilentOverwrite`, if it exists |

The last three have the hypothesis `~Fresh`, and need it: `conversation_first` shows
what happens without. What is told of a proposal is true even then
(`OutcomesAreTrue`), because the activity and the claim are compared in the
transaction that applies the change, and the slot is not.

`ConversationInv` says three things beside the types. `ActsTell`: the new dates of a
message are applied by a confirmation or by an approval, never both, since either
needs the activity under the message's key to be its own kind; a confirmed activity
has a claim, and holds the versions that claim was made on. `SlotTells`: what is
being confirmed is in the slot. `CallsTell`: what a request carries is still good
for its next transaction. The last is where the work is. A copy of the memory that
can still be saved has the slot as it is now (`CopyTells`), because every write of
the slot moves the version; without it nothing keeps a citation from putting
an old proposal back. A request that writes a receipt has seen the change
(`ReceiptTells`), and a message does not propose again what has expired
meanwhile (`DueTells`). The proof first sorts the steps by what they do to the store:
`EveryStep` shows that every step makes one of ten moves (`StoreMove`) and each keeps
`StoreInv`, and that whatever others do, a call that stands still can go on
(`CallsKeep`). The refinement needs no more than the ten moves.

### Assumptions

The constants are constrained by the named `ASSUME`s, which TLC evaluates in the runs.
Sets that are counted or summed over are finite (calls, callers, approvals, messages,
tasks, materials); a limit is a natural number and a budget is not zero; `None` is
none of the values it stands beside. Of the environment they say: the language model
returns lists (pydantic validates them), with materials of a quantity not below zero
(`site_updates.py:510` leaves others out) and drafts without conflicts yet; a draft
that a person sends to review has passed the validation; commands of people have
passed the checks of their classes. `IsProject` demands of the project before the
first report that no task is completed before what it waits for, that no stock is
below zero and that the requests out have keys of their own and nothing delivered.
Of a material that the project does not have yet no task requires any and no minimum
is set: a requirement names a record of the project (`site_updates.py:846-871`), and a
material created from a report begins without a minimum (`site_updates.py:527-533`).
The theorems about the slot of a conversation have the hypothesis `~Fresh`: the
manager has talked to OG before, if only once.

### What only TLC checks

- Liveness: `UndisturbedEventsSettle`, `DeliverEnds`, `ConfirmedEnds`,
  `ReservationEnds`; it is out of the prover's reach. Every safety property that a
  passing run checks is proved.

None of the modules declares a RECURSIVE operator.

## What is not modelled, and why

- What a language model returns, and the matching of texts to records: a reading,
  a draft or a resolution is chosen freely from a small set.
- Calendar arithmetic, unit conversion, costs, suppliers, wording: data that none
  of the properties tells apart. Units and names appear where an import compares
  them, quantities where the ledger and the deliveries add them up.
- Retries inside the Firestore client: a transaction is one action, refused if an
  expected version is old.
- Authorization and membership: a lookup in front of every operation.
- The transcription of recordings and `persist_transcript`: they add a text to the
  update before it is read.
- The views (`app/services/reports.py`, enrichment of approvals), which only read;
  parsing, presentation, telemetry, evaluation and configuration.
- Project setup (`app/services/project_setup.py`), one transaction per form.

Some behaviours are in the models but no property rules them out, because no
document of the repository does: a shortage event that is delivered again sets a
completed run back to waiting; a shortage that is gone completes a run whose
request still waits for approval; a failed import can only be started again by
repeating its first confirmation; a projection replaces an edited summary; the
notifications that blocked and overdue tasks queue have no sender; the second of two
grants of one run finds the run closed and is handled without its external action; a
confirmation may be called stale after its repetition has moved the tasks; an attempt
whose key was taken by a differing one can never finish, and a report with two
blockers of one task, or one that plans to go on with what it completes, may take
its own. `hazards` has them at
their lines.

## Plan

Done: `EventOnce`, `EventClaims`, `Worker`, `Outbox`, `Intake`, `ApprovalFlow`,
`ProjectRecords` and `SiteUpdateRun`, `DeliveryDelay` and `RoutedEvents`,
`ImportPlan` and `ProjectImport`, the three modules of the conversation and
`ProposalLife`; the proofs of all safety properties of all of them.

Left, in this order:

1. An abstract specification of an import.
2. `SiteUpdateRun` composed with `ApprovalFlow`, which abstracts its commands.
3. Project setup.
