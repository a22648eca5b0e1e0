--------------------------- MODULE ProjectRecords ---------------------------
(***************************************************************************)
(* The records of one project and the commands that change them: tasks,    *)
(* stock with its ledger, purchase requests, issues, follow-ups and the    *)
(* daily report.  Every command goes through the activity ledger: it is    *)
(* performed and recorded in one transaction, recognised when it is sent   *)
(* again, and refused when its key is known for something else.            *)
(*                                                                         *)
(* A command is a record: key, its idempotency key; env, the part of it    *)
(* the ledger fingerprints (op, id, arg); expected, the version its sender *)
(* has read; at, when it happened; quantity, which no fingerprint covers.  *)
(***************************************************************************)
EXTENDS Integers, FiniteSets, SequencesExt

CONSTANTS
  Task,            \* tasks of the project
  Depends,         \* Depends[t]: the tasks t waits for
  Material,        \* materials, by name
  Reserved,        \* the reserved part of every stock
  MaxStock         \* bound: no command asks for more

ASSUME RecordsAssumption ==
  /\ IsFiniteSet(Task) /\ IsFiniteSet(Material)
  /\ Depends \in [Task -> SUBSET Task]
  /\ Reserved \in Nat /\ MaxStock \in Nat

VARIABLES
  activity,        \* the activity ledger: [key, env] records
  task,            \* task[t]: status, percent, start, end, version
  stock,           \* stock[m]: available, minimum, version
  entries,         \* the material ledger: [key, material, delta, balance, version]
  request,         \* purchase requests: [key, material, quantity, delivered, status]
  issue,           \* issues: [key, type, tasks, status, version]
  followUp,        \* follow-up tasks: [key, blocked, issue]
  report           \* the daily report

records == <<activity, task, stock, entries, request, issue, followUp, report>>

None == "none"
NoPercent == -1
Whole == 100
Statuses == {"absent", "proposed", "planned", "in_progress", "blocked", "completed", "cancelled"}

Never == -1      \* a date that is not set

(***************************************************************************)
(* The activity ledger.                                                    *)
(***************************************************************************)
Known(c) == \E a \in activity : a.key = c.key

Conflicts(c) == \E a \in activity : a.key = c.key /\ a.env # c.env

Fresh(c) == ~Known(c)

Record(c) == activity' = activity \cup {[key |-> c.key, env |-> c.env]}

(***************************************************************************)
(* Tasks.  A status change names its target or a percentage, or both.      *)
(***************************************************************************)
Transitions ==
  [absent |-> {}, proposed |-> {"planned", "cancelled"}, planned |-> {"in_progress", "blocked", "cancelled"},
   in_progress |-> {"blocked", "completed", "cancelled"},
   blocked |-> {"in_progress", "cancelled"}, completed |-> {}, cancelled |-> {}]

RequestsCompletion(arg) == arg.target = "completed" \/ arg.percent = Whole

Target(t, arg) ==
  IF RequestsCompletion(arg) THEN "completed"
  ELSE IF arg.target # None THEN arg.target
  ELSE IF arg.percent > 0 /\ task[t].status = "planned" THEN "in_progress"
  ELSE task[t].status

\* Mutant: the percentage of the command, whatever the status.
PercentAsGiven(t, arg) == arg.percent

Percent(t, arg) ==
  IF Target(t, arg) = "completed" THEN Whole
  ELSE IF arg.percent # NoPercent THEN arg.percent
  ELSE task[t].percent

MayMove(from, to, arg) ==
  \/ from = to
  \/ arg.human /\ from = "completed" /\ to = "in_progress"
  \/ ~arg.human /\ arg.reconciled /\ from = "planned" /\ to = "completed"
  \/ ~arg.human /\ to \in Transitions[from]

DependenciesDone(t) == \A d \in Depends[t] : task[d].status = "completed"

\* Mutant: the dependencies are not looked at.
CanUpdateTaskAnyOrder(c) ==
  LET t == c.env.id
      to == Target(t, c.env.arg)
  IN /\ task[t].status # "absent"
     /\ to # "cancelled"
     /\ c.env.arg.human => Percent(t, c.env.arg) < Whole
     /\ MayMove(task[t].status, to, c.env.arg)
     /\ task[t].version = c.expected

CanUpdateTask(c) ==
  LET t == c.env.id
      to == Target(t, c.env.arg)
  IN /\ task[t].status # "absent"
     /\ to # "cancelled"
     /\ to = "completed" => task[t].status # "blocked" /\ DependenciesDone(t)
                            /\ task[t].start <= c.at
     /\ c.env.arg.human => Percent(t, c.env.arg) < Whole
     /\ MayMove(task[t].status, to, c.env.arg)
     /\ task[t].version = c.expected

UpdateTask(c) ==
  LET t == c.env.id
      to == Target(t, c.env.arg)
  IN /\ task' = [task EXCEPT ![t] =
          [status |-> to,
           percent |-> Percent(t, c.env.arg),
           start |-> IF to = "in_progress" /\ @.start = Never THEN c.at ELSE @.start,
           end |-> CASE to = "completed" -> c.at
                     [] @.status = "completed" /\ to = "in_progress" -> Never
                     [] OTHER -> @.end,
           version |-> @.version + 1]]
     /\ UNCHANGED <<stock, entries, request, issue, followUp, report>>

\* Assignment, priority, due date or a note: one field this model does not hold.
CanUpdateDetails(c) ==
  task[c.env.id].status # "absent" /\ task[c.env.id].version = c.expected

UpdateDetails(c) ==
  /\ task' = [task EXCEPT ![c.env.id].version = @ + 1]
  /\ UNCHANGED <<stock, entries, request, issue, followUp, report>>

CreateTask(c) ==
  /\ task' = [task EXCEPT ![c.env.id] =
       [status |-> "planned", percent |-> 0, start |-> Never, end |-> Never, version |-> 0]]
  /\ UNCHANGED <<stock, entries, request, issue, followUp, report>>

\* The follow-up of a blocker: its issue and its blocked task must both be there.
CanFollowUp(c) ==
  /\ \E i \in issue : /\ i.key = c.env.arg.issue /\ i.type = "blocker"
                      /\ c.env.id \in i.tasks
  /\ task[c.env.id].status = "blocked"

FollowUp(c) ==
  /\ followUp' = followUp \cup {[key |-> c.key, blocked |-> c.env.id, issue |-> c.env.arg.issue]}
  /\ UNCHANGED <<task, stock, entries, request, issue, report>>

(***************************************************************************)
(* Materials.  Every movement of stock is an entry of the material ledger. *)
(***************************************************************************)
Exists(m) == stock[m].version # Never

\* Mutant: the entry takes the balance of before the movement.
MoveAfterEntry(c, m, delta) ==
  /\ stock' = [stock EXCEPT ![m].available = @ + delta, ![m].version = @ + 1]
  /\ entries' = entries \cup {[key |-> c.key, material |-> m, delta |-> delta,
                               balance |-> stock[m].available, version |-> stock[m].version + 1]}

\* The movement, and what the ledger says of it, in one transaction.
Move(c, m, delta) ==
  LET balance == stock[m].available + delta
  IN /\ stock' = [stock EXCEPT ![m].available = balance, ![m].version = @ + 1]
     /\ entries' = entries \cup {[key |-> c.key, material |-> m, delta |-> delta,
                                  balance |-> balance, version |-> stock[m].version + 1]}

CanAdjust(c) ==
  LET m == c.env.id
  IN /\ Exists(m)
     /\ stock[m].version = c.expected
     /\ stock[m].available + c.env.arg.delta >= Reserved

AdjustQuantity(c) ==
  /\ Move(c, c.env.id, c.env.arg.delta)
  /\ UNCHANGED <<task, request, issue, followUp, report>>

CanSet(c) ==
  LET m == c.env.id
  IN /\ Exists(m)
     /\ stock[m].version = c.expected
     /\ c.env.arg.quantity >= Reserved
     /\ c.env.arg.quantity # stock[m].available

SetQuantity(c) ==
  /\ Move(c, c.env.id, c.env.arg.quantity - stock[c.env.id].available)
  /\ UNCHANGED <<task, request, issue, followUp, report>>

\* The required quantity; a note only counts the version on.
CanUpdateMaterial(c) == Exists(c.env.id) /\ stock[c.env.id].version = c.expected

\* Mutant: the version is not counted on.
UpdateMaterialQuietly(c) ==
  /\ stock' = [stock EXCEPT ![c.env.id].minimum = c.env.arg.minimum]
  /\ UNCHANGED <<task, entries, request, issue, followUp, report>>

UpdateMaterial(c) ==
  /\ stock' = [stock EXCEPT ![c.env.id].minimum = c.env.arg.minimum, ![c.env.id].version = @ + 1]
  /\ UNCHANGED <<task, entries, request, issue, followUp, report>>

\* A name is used once in a project, whatever key it was created under.
CanCreateMaterial(c) == ~Exists(c.env.id)

CreateMaterial(c) ==
  LET m == c.env.id
  IN /\ stock' = [stock EXCEPT ![m] = [@ EXCEPT !.available = c.quantity, !.version = 0]]
     /\ entries' = IF c.quantity = 0 THEN entries
                   ELSE entries \cup {[key |-> c.key, material |-> m, delta |-> c.quantity,
                                       balance |-> c.quantity, version |-> 0]}
     /\ UNCHANGED <<task, request, issue, followUp, report>>

\* Mutant: what was delivered before is not counted.
CanDeliverAgain(c) ==
  /\ Exists(c.env.id) /\ stock[c.env.id].version = c.expected
  /\ \E r \in request :
       /\ r.key = c.env.arg.request /\ r.material = c.env.id
       /\ r.status \in {"confirmed", "delayed"}
       /\ c.env.arg.quantity <= r.quantity
       /\ c.env.arg.complete => r.delivered + c.env.arg.quantity = r.quantity

CanDeliver(c) ==
  /\ Exists(c.env.id) /\ stock[c.env.id].version = c.expected
  /\ \E r \in request :
       /\ r.key = c.env.arg.request /\ r.material = c.env.id
       /\ r.status \in {"confirmed", "delayed"}
       /\ r.delivered + c.env.arg.quantity <= r.quantity
       /\ c.env.arg.complete => r.delivered + c.env.arg.quantity = r.quantity

RecordDelivery(c) ==
  /\ Move(c, c.env.id, c.env.arg.quantity)
  /\ request' = {IF r.key = c.env.arg.request
                 THEN [r EXCEPT !.delivered = @ + c.env.arg.quantity,
                                !.status = IF c.env.arg.complete THEN "delivered" ELSE @]
                 ELSE r : r \in request}
  /\ UNCHANGED <<task, issue, followUp, report>>

\* A purchase that a user composed, or one for a shortage that was read before.
NewRequest(c) ==
  /\ request' = request \cup {[key |-> c.key, material |-> c.env.id, quantity |-> c.env.arg.quantity,
                               delivered |-> 0, status |-> "awaiting_approval"]}
  /\ UNCHANGED <<task, stock, entries, issue, followUp, report>>

CanPurchase(c) == Exists(c.env.id) /\ stock[c.env.id].version = c.expected

(***************************************************************************)
(* Issues and the daily report.                                            *)
(***************************************************************************)
CreateIssue(c) ==
  /\ issue' = issue \cup {[key |-> c.key, type |-> c.env.arg.type, tasks |-> c.env.arg.tasks,
                           status |-> "open", version |-> 0]}
  /\ UNCHANGED <<task, stock, entries, request, followUp, report>>

CanUpdateIssue(c) == \E i \in issue : i.key = c.env.id /\ i.version = c.expected

UpdateIssue(c) ==
  /\ issue' = {IF i.key = c.env.id THEN [i EXCEPT !.status = c.env.arg.status, !.version = @ + 1]
               ELSE i : i \in issue}
  /\ UNCHANGED <<task, stock, entries, request, followUp, report>>

\* The report is merged with what is new; only the tasks in progress are replaced.
ProjectReport(c) ==
  /\ report' = [completed |-> report.completed \cup c.env.arg.completed,
                risks |-> report.risks \cup c.env.arg.risks,
                requests |-> report.requests \cup c.env.arg.requests,
                progress |-> c.env.arg.progress,
                summary |-> "computed",
                version |-> report.version + 1]
  /\ UNCHANGED <<task, stock, entries, request, issue, followUp>>

CanEditLog(c) == report.version # Never /\ report.version = c.expected

EditLog(c) ==
  /\ report' = [report EXCEPT !.summary = "edited", !.version = @ + 1]
  /\ UNCHANGED <<task, stock, entries, request, issue, followUp>>

(***************************************************************************)
(* One command: performed, recognised or refused.                          *)
(***************************************************************************)
Can(c) ==
  CASE c.env.op \in {"progress", "complete"} -> CanUpdateTask(c)
    [] c.env.op = "details" -> CanUpdateDetails(c)
    [] c.env.op = "create_task" -> task[c.env.id].status = "absent"
    [] c.env.op = "follow_up" -> CanFollowUp(c)
    [] c.env.op = "adjust" -> CanAdjust(c)
    [] c.env.op = "set" -> CanSet(c)
    [] c.env.op = "material" -> CanUpdateMaterial(c)
    [] c.env.op = "create_material" -> CanCreateMaterial(c)
    [] c.env.op = "deliver" -> CanDeliver(c)
    [] c.env.op = "purchase" -> CanPurchase(c)
    [] c.env.op = "update_issue" -> CanUpdateIssue(c)
    [] c.env.op = "edit_log" -> CanEditLog(c)
    [] c.env.op \in {"issue", "shortage", "report"} -> TRUE

Do(c) ==
  \/ c.env.op \in {"progress", "complete"} /\ UpdateTask(c)
  \/ c.env.op = "details" /\ UpdateDetails(c)
  \/ c.env.op = "create_task" /\ CreateTask(c)
  \/ c.env.op = "follow_up" /\ FollowUp(c)
  \/ c.env.op = "adjust" /\ AdjustQuantity(c)
  \/ c.env.op = "set" /\ SetQuantity(c)
  \/ c.env.op = "material" /\ UpdateMaterial(c)
  \/ c.env.op = "create_material" /\ CreateMaterial(c)
  \/ c.env.op = "deliver" /\ RecordDelivery(c)
  \/ c.env.op \in {"purchase", "shortage"} /\ NewRequest(c)
  \/ c.env.op = "issue" /\ CreateIssue(c)
  \/ c.env.op = "update_issue" /\ UpdateIssue(c)
  \/ c.env.op = "report" /\ ProjectReport(c)
  \/ c.env.op = "edit_log" /\ EditLog(c)

Perform(c) == Fresh(c) /\ Can(c) /\ Record(c) /\ Do(c)

Replays(c) == Known(c) /\ ~Conflicts(c)

Refused(c) == Conflicts(c) \/ (Fresh(c) /\ ~Can(c))

\* A project as it was set up: its tasks, its stock with the opening entries of the
\* material ledger, and the requests that are out.
SetUp(tasks, stocks, requests) ==
  /\ activity = {}
  /\ task = tasks
  /\ stock = stocks
  /\ entries = {[key |-> <<"opening", m>>, material |-> m, delta |-> stocks[m].available,
                 balance |-> stocks[m].available, version |-> 0] :
                m \in {m \in Material : stocks[m].version # Never}}
  /\ request = requests
  /\ issue = {} /\ followUp = {}
  /\ report = [completed |-> {}, risks |-> {}, requests |-> {}, progress |-> {},
               summary |-> None, version |-> Never]

(***************************************************************************)
(* Properties.                                                             *)
(***************************************************************************)
TypeOK ==
  /\ \A t \in Task : /\ task[t].status \in Statuses
                     /\ task[t].percent \in 0..Whole
                     /\ task[t].status = "completed" => task[t].percent = Whole
                     /\ task[t].end # Never <=> task[t].status = "completed"
  /\ \A m \in Material : /\ stock[m].available \in Int
                         /\ Exists(m) => stock[m].available >= 0
  /\ \A i \in issue : i.tasks \subseteq Task
  /\ \A f \in followUp : \E i \in issue : i.key = f.issue /\ f.blocked \in i.tasks

\* Every unit in stock is accounted for: the balance is what the entries of the
\* material ledger sum up to, and what the last of them says (materials.py:610-632).
StockExplained ==
  \A m \in Material :
    LET mine == {e \in entries : e.material = m}
    IN Exists(m) =>
         /\ stock[m].available = FoldSet(LAMBDA e, n : e.delta + n, 0, mine)
         /\ \A e \in mine : (\A o \in mine : o.version <= e.version)
                              => e.balance = stock[m].available

\* What a purchase has received is what its deliveries brought (materials.py:533-579),
\* never more than was ordered, and all of it once it is closed.
DeliveredAsOrdered ==
  \A r \in request :
    LET brought == {a \in activity : a.env.op = "deliver" /\ a.env.arg.request = r.key}
    IN /\ r.delivered = FoldSet(LAMBDA a, n : a.env.arg.quantity + n, 0, brought)
       /\ r.delivered <= r.quantity
       /\ r.status = "delivered" => r.delivered = r.quantity
=============================================================================
