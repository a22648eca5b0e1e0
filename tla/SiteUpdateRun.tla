---------------------------- MODULE SiteUpdateRun ----------------------------
(***************************************************************************)
(* How a site update changes the records of its project.  An attempt reads *)
(* the project, has the report interpreted, and from both works out a list *)
(* of commands; it sends them one transaction at a time, reads the stock   *)
(* and the tasks again in between, and ends with the daily report.  It may *)
(* die or be refused after any of them; then the next attempt starts from  *)
(* the beginning, with a context and an interpretation of its own, under   *)
(* the same idempotency keys, perhaps while the last one is still at work. *)
(* Managers and the office change the same records meanwhile.              *)
(***************************************************************************)
EXTENDS ProjectRecords

CONSTANTS
  Update,          \* site updates
  MaxAttempts,     \* bound: deliveries of one update
  MaxDeliveries,   \* bound: deliveries of all of them
  Interpretations, \* Interpretations[u]: what the model may read out of u
  At,              \* At[u]: when u was submitted
  Needs,           \* Needs[m][t]: what task t requires of material m, 0 if nothing
  UserCommand,     \* UserCommand[i]: a command of a person, still without the version seen
  Occasions,       \* bound: which of those commands people may send in one behaviour
  Setup            \* the project as it was set up: its tasks, its stock, the requests out

(***************************************************************************)
(* What a report is read as: lists of facts.  A stock is a quantity of a   *)
(* material; which task a fact is about is resolved later.                 *)
(***************************************************************************)
IsList(s) == s \in Seq(ToSet(s))

IsReading(facts) ==
  /\ IsList(facts.safety) /\ IsList(facts.completed) /\ IsList(facts.issues)
  /\ IsList(facts.stock) /\ IsList(facts.focus)
  /\ \A f \in ToSet(facts.stock) : f.material \in Material /\ f.quantity \in Nat

\* What people may ask for, with arguments that pass the checks of their commands.
IsRequest(c) ==
  /\ c = [key |-> c.key, env |-> c.env, expected |-> c.expected, at |-> c.at, quantity |-> c.quantity]
  /\ c.env = [op |-> c.env.op, id |-> c.env.id, arg |-> c.env.arg]
  /\ c.at \in Nat
  /\ \/ /\ c.env.op = "progress" /\ c.env.id \in Task
        /\ c.env.arg.target \in Statuses \cup {None}
        /\ c.env.arg.percent \in {NoPercent} \cup 0..Whole
        /\ c.env.arg.human \in BOOLEAN /\ c.env.arg.reconciled \in BOOLEAN
     \/ c.env.op \in {"details", "create_task"} /\ c.env.id \in Task
     \/ c.env.op = "adjust" /\ c.env.id \in Material /\ c.env.arg.delta \in Int
     \/ c.env.op \in {"set", "purchase"} /\ c.env.id \in Material /\ c.env.arg.quantity \in Nat
     \/ c.env.op = "material" /\ c.env.id \in Material /\ c.env.arg.minimum \in Nat
     \/ c.env.op = "create_material" /\ c.env.id \in Material /\ c.quantity \in Nat
     \/ /\ c.env.op = "deliver" /\ c.env.id \in Material
        /\ c.env.arg.quantity \in Nat /\ c.env.arg.complete \in BOOLEAN
     \/ c.env.op \in {"update_issue", "edit_log"}

\* The tasks of a new project wait for each other in order, its stock is not below
\* zero, and nothing of what was ordered has come.
IsProject(p) ==
  /\ p.task \in [Task -> [status : Statuses, percent : 0..Whole, start : {Never} \cup Nat,
                          end : {Never} \cup Nat, version : Nat]]
  /\ \A t \in Task : /\ p.task[t].end # Never <=> p.task[t].status = "completed"
                     /\ p.task[t].status = "completed" =>
                          /\ p.task[t].percent = Whole
                          /\ \A d \in Depends[t] : p.task[d].status = "completed"
  /\ p.stock \in [Material -> [available : Nat, minimum : Nat, version : {Never, 0}]]
  /\ \A r \in p.request :
        /\ r \in [key : {r.key}, material : Material, quantity : Nat, delivered : {0},
                  status : {"awaiting_approval", "confirmed", "rejected", "delayed"}]
        /\ \A q \in p.request : q.key = r.key => q = r

\* A request of the project as it was set up is not one that a command will make, and
\* nothing is required yet of a material that the project does not have.
ASSUME SiteUpdateAssumption ==
  /\ At \in [Update -> Nat]
  /\ \A u \in Update : \A facts \in Interpretations[u] : IsReading(facts)
  /\ Needs \in [Material -> [Task -> Nat]]
  /\ \A i \in DOMAIN UserCommand : IsRequest(UserCommand[i])
  /\ IsProject(Setup)
  /\ \A r \in Setup.request :
        /\ \A i \in DOMAIN UserCommand : UserCommand[i].key # r.key
        /\ \A u \in Update, m \in Material : <<u, "shortage", m>> # r.key
  /\ \A m \in Material : Setup.stock[m].version = Never =>
        Setup.stock[m].minimum = 0 /\ \A t \in Task : Needs[m][t] = 0

VARIABLES
  attempt,         \* attempt[u][n]: the n-th attempt to process u
  user             \* user[i]: the version the sender of command i saw

vars == <<records, attempt, user>>

Idle == [pc |-> "idle", facts |-> None, seen |-> None, todo |-> <<>>, told |-> {}]

(***************************************************************************)
(* Routing and resolution: what the report says and the project knows.     *)
(* Names are resolved against the tasks that are not cancelled.            *)
(***************************************************************************)
Kept(s, Good(_)) == FlattenSeq([i \in DOMAIN s |-> IF Good(s[i]) THEN <<s[i]>> ELSE <<>>])

Stops(facts) == Kept(facts.safety, LAMBDA severity : severity \in {"high", "critical"})

Actionable(fs) == Kept(fs, LAMBDA f : f.sure)

Visible(seen) == {t \in Task : seen.task[t].status \notin {"absent", "cancelled"}}

Resolved(fs, seen) == Kept(fs, LAMBDA f : f.sure /\ f.task \in Visible(seen))

\* Of the facts about one task the first counts.
First(fs) ==
  FlattenSeq([i \in DOMAIN fs |-> IF \E j \in 1..i - 1 : fs[j].task = fs[i].task THEN <<>> ELSE <<fs[i]>>])

Terminal == {"completed", "cancelled"}

Focus(facts, seen) ==
  LET ts == {f.task : f \in ToSet(Resolved(facts.focus, seen))}
  IN {t \in ts : seen.task[t].status \notin Terminal}

\* What the blocked task holds up: all that waits for it and is not over.
Downstream(t, seen) ==
  LET Waiting(S) == {d \in Visible(seen) : seen.task[d].status \notin Terminal
                                           /\ Depends[d] \cap S # {}}
      reach[n \in 0..Cardinality(Task)] ==
        IF n = 0 THEN {t} ELSE reach[n - 1] \cup Waiting(reach[n - 1])
  IN reach[Cardinality(Task)] \ {t}

(***************************************************************************)
(* The commands that facts and context call for, in the order of their     *)
(* sending.  A step "assess" compares a reported stock with what is needed.*)
(***************************************************************************)
Command(u, scope, op, id, arg, expected) ==
  [key |-> <<u>> \o scope, env |-> [op |-> op, id |-> id, arg |-> arg],
   expected |-> expected, at |-> At[u], quantity |-> 0]

Completions(u, facts, seen) ==
  LET Complete(f) ==
        Command(u, <<"complete", f.task>>, "complete", f.task,
                [target |-> None, percent |-> Whole, human |-> FALSE, reconciled |-> TRUE,
                 evidence |-> f.evidence], seen.task[f.task].version)
      fs == First(Resolved(facts.completed, seen))
  IN [i \in DOMAIN fs |-> Complete(fs[i])]

IssueCommand(u, scope, type, tasks, evidence) ==
  Command(u, scope, "issue", <<>>, [type |-> type, tasks |-> tasks, evidence |-> evidence], 0)

\* A blocker stops its task, asks for a follow-up and warns of what depends on it.
Blocking(u, i, f, seen) ==
  LET t == f.task
      block == Command(u, <<"blocked", t>>, "progress", t,
                       [target |-> "blocked", percent |-> NoPercent, human |-> FALSE,
                        reconciled |-> FALSE, evidence |-> f.evidence], seen.task[t].version)
      followup == Command(u, <<"follow_up", i, t>>, "follow_up", t,
                          [issue |-> <<u, "issue", i, f.type>>], 0)
      risk == IssueCommand(u, <<"impact", i, t>>, "delay_risk", Downstream(t, seen), "impact")
  IN (IF seen.task[t].status \in {"planned", "in_progress"} THEN <<block>> ELSE <<>>)
     \o <<followup>>
     \o (IF Downstream(t, seen) # {} THEN <<risk>> ELSE <<>>)

Issues(u, facts, seen) ==
  LET fs == Actionable(facts.issues)
      Raise(i) ==
        LET f == fs[i]
            tasks == {f.task} \ {None}
            raise == IssueCommand(u, <<"issue", i, f.type>>, f.type, tasks, f.evidence)
        IN IF ~(tasks \subseteq Visible(seen)) THEN <<>>
           ELSE <<raise>> \o (IF f.type = "blocker" /\ tasks # {} THEN Blocking(u, i, f, seen) ELSE <<>>)
  IN FlattenSeq([i \in DOMAIN fs |-> Raise(i)])

\* The report states what is there; the command only moves the stock by the difference.
\* A material that the project knows is moved once, whatever else is said of it.
Materials(u, facts, seen) ==
  LET fs == Actionable(facts.stock)
      Repeated(i) == seen.stock[fs[i].material].version # Never
                     /\ \E j \in 1..i - 1 : fs[j].material = fs[i].material
      Stock(f) ==
        LET m == f.material
            delta == f.quantity - seen.stock[m].available
            create == [Command(u, <<"auto_create", m>>, "create_material", m, <<>>, 0)
                         EXCEPT !.quantity = f.quantity]
            adjust == Command(u, <<"reported_stock", m>>, "adjust", m,
                              [delta |-> delta, evidence |-> f.evidence], seen.stock[m].version)
        IN (IF seen.stock[m].version = Never THEN <<create>> ELSE IF delta # 0 THEN <<adjust>> ELSE <<>>)
           \o <<[env |-> [op |-> "assess", id |-> m], reported |-> f.quantity,
                 evidence |-> f.evidence, minimum |-> seen.stock[m].minimum]>>
  IN FlattenSeq([i \in DOMAIN fs |-> IF Repeated(i) THEN <<>> ELSE Stock(fs[i])])

SafetyIssues(u, facts) ==
  [i \in DOMAIN Stops(facts) |-> IssueCommand(u, <<"safety", i>>, "safety", {}, Stops(facts)[i])]

\* A safety stop leaves everything else to people.
Plan(u, facts, seen) ==
  IF Stops(facts) # <<>> THEN SafetyIssues(u, facts)
  ELSE Completions(u, facts, seen) \o Issues(u, facts, seen) \o Materials(u, facts, seen)

(***************************************************************************)
(* The attempts.                                                           *)
(***************************************************************************)
NotSent == -2

Init ==
  /\ SetUp(Setup.task, Setup.stock, Setup.request)
  /\ attempt = [u \in Update |-> [n \in 1..MaxAttempts |-> Idle]]
  /\ \E C \in Occasions :
       user = [i \in DOMAIN UserCommand |-> IF i \in C THEN Never ELSE NotSent]

Is(u, n, pc) == attempt[u][n].pc = pc

Goto(u, n, a) == attempt' = [attempt EXCEPT ![u][n] = a]

\* A later delivery finds the lease of the attempt before it settled or run out.
Begin(u, n) ==
  /\ Is(u, n, "idle")
  /\ Cardinality({a \in Update \X (1..MaxAttempts) : ~Is(a[1], a[2], "idle")}) < MaxDeliveries
  /\ n > 1 => attempt[u][n - 1].pc \notin {"idle", "done"}
  /\ \E facts \in Interpretations[u] :
       LET seen == [task |-> task, stock |-> stock]
       IN Goto(u, n, [pc |-> "working", facts |-> facts, seen |-> seen,
                      todo |-> Plan(u, facts, seen), told |-> {}])
  /\ UNCHANGED <<records, user>>

Current(u, n) == Head(attempt[u][n].todo)

\* After a movement of its stock the material is at hand as the transaction left it.
Onward(u, n) ==
  LET rest == Tail(attempt[u][n].todo)
  IN IF rest # <<>> /\ Head(rest).env.op = "assess" /\ Current(u, n).env.op # "assess"
     THEN <<[Head(rest) EXCEPT !.minimum = stock[Head(rest).env.id].minimum]>> \o Tail(rest)
     ELSE rest

Sending(u, n) ==
  Is(u, n, "working") /\ attempt[u][n].todo # <<>> /\ Current(u, n).env.op # "assess"

Advance(u, n) ==
  Goto(u, n, [attempt[u][n] EXCEPT !.todo = Onward(u, n), !.told = @ \cup {Current(u, n)}])

Send(u, n) ==
  /\ Sending(u, n)
  /\ Perform(Current(u, n))
  /\ Advance(u, n)
  /\ UNCHANGED user

Resend(u, n) ==
  /\ Sending(u, n)
  /\ Replays(Current(u, n))
  /\ Advance(u, n)
  /\ UNCHANGED <<records, user>>

\* Mutant: a refused command is skipped.
FailsSoftly(u, n) ==
  /\ Sending(u, n)
  /\ Refused(Current(u, n))
  /\ Advance(u, n)
  /\ UNCHANGED <<records, user>>

Fails(u, n) ==
  /\ Sending(u, n)
  /\ Refused(Current(u, n))
  /\ Goto(u, n, [attempt[u][n] EXCEPT !.pc = IF Conflicts(Current(u, n)) THEN "conflict" ELSE "refused"])
  /\ UNCHANGED <<records, user>>

\* Required by the tasks in focus, or else the minimum of the stock.
Required(m, focus, minimum) ==
  IF \E t \in Task : Needs[m][t] > 0
  THEN MapThenSumSet(LAMBDA t : Needs[m][t], focus)
  ELSE IF focus = {} THEN 0 ELSE minimum

AtRisk(m, focus) ==
  IF \E t \in Task : Needs[m][t] > 0 THEN {t \in focus : Needs[m][t] > 0} ELSE focus

\* The stock is read outside of the transaction that will create the request.
Assess(u, n) ==
  LET s == Current(u, n)
      m == s.env.id
      focus == Focus(attempt[u][n].facts, attempt[u][n].seen)
      need == Required(m, focus, s.minimum)
      net == IF stock[m].available > Reserved THEN stock[m].available - Reserved ELSE 0
      ask == Command(u, <<"shortage", m>>, "shortage", m,
                     [quantity |-> need - net, need |-> need, net |-> net,
                      evidence |-> s.evidence], 0)
      risks == SetToSeq({IssueCommand(u, <<"material_risk", m, t>>, "delay_risk", {t}, "stock")
                         : t \in AtRisk(m, focus)})
  IN /\ Is(u, n, "working") /\ attempt[u][n].todo # <<>> /\ s.env.op = "assess"
     /\ Goto(u, n, [attempt[u][n] EXCEPT
                      !.todo = (IF s.reported < need /\ net < need THEN <<ask>> \o risks ELSE <<>>)
                               \o Onward(u, n)])
     /\ UNCHANGED <<records, user>>

Told(u, n, op) == {c \in attempt[u][n].told : c.env.op = op}

\* Mutant: the tasks are those of the context the attempt began with.
SummariseSeen(u, n) ==
  LET report_ ==
        Command(u, <<"report">>, "report", <<>>,
          [completed |-> {c.env.id : c \in Told(u, n, "complete")},
           risks |-> {c.key : c \in Told(u, n, "issue")},
           requests |-> {c.key : c \in Told(u, n, "shortage")},
           focus |-> attempt[u][n].facts.focus,
           progress |-> {t \in Task : attempt[u][n].seen.task[t].status = "in_progress"}], 0)
  IN /\ Is(u, n, "working") /\ attempt[u][n].todo = <<>> /\ Told(u, n, "report") = {}
     /\ Goto(u, n, [attempt[u][n] EXCEPT !.todo = <<report_>>])
     /\ UNCHANGED <<records, user>>

\* All sent: which tasks are in progress now, for the report of the day.
Summarise(u, n) ==
  LET report_ ==
        Command(u, <<"report">>, "report", <<>>,
          [completed |-> {c.env.id : c \in Told(u, n, "complete")},
           risks |-> {c.key : c \in Told(u, n, "issue")},
           requests |-> {c.key : c \in Told(u, n, "shortage")},
           focus |-> attempt[u][n].facts.focus,
           progress |-> {t \in Task : task[t].status = "in_progress"}], 0)
  IN /\ Is(u, n, "working") /\ attempt[u][n].todo = <<>> /\ Told(u, n, "report") = {}
     /\ Goto(u, n, [attempt[u][n] EXCEPT !.todo = <<report_>>])
     /\ UNCHANGED <<records, user>>

Finish(u, n) ==
  /\ Is(u, n, "working") /\ attempt[u][n].todo = <<>> /\ Told(u, n, "report") # {}
  /\ Goto(u, n, [attempt[u][n] EXCEPT !.pc = "done"])
  /\ UNCHANGED <<records, user>>

Die(u, n) ==
  /\ Is(u, n, "working")
  /\ Goto(u, n, [attempt[u][n] EXCEPT !.pc = "dead"])
  /\ UNCHANGED <<records, user>>

(***************************************************************************)
(* People: a command carries the version its sender saw, and may be sent   *)
(* more than once.  A decision and a delay come from other workflows.      *)
(***************************************************************************)
VersionOf(c) ==
  CASE c.env.op \in {"progress", "details"} -> task[c.env.id].version
    [] c.env.op \in {"adjust", "set", "material", "deliver", "purchase"} -> stock[c.env.id].version
    [] c.env.op = "edit_log" -> report.version
    [] c.env.op = "update_issue" ->
         IF \E i \in issue : i.key = c.env.id
         THEN (CHOOSE i \in issue : i.key = c.env.id).version ELSE Never
    [] c.env.op \in {"create_task", "create_material"} -> 0

UserReads(i) ==
  /\ user[i] = Never /\ VersionOf(UserCommand[i]) # Never
  /\ user' = [user EXCEPT ![i] = VersionOf(UserCommand[i])]
  /\ UNCHANGED <<records, attempt>>

UserSends(i) ==
  /\ user[i] >= 0
  /\ Perform([UserCommand[i] EXCEPT !.expected = user[i]])
  /\ UNCHANGED <<attempt, user>>

Decided ==
  \E r \in request, status \in {"confirmed", "rejected", "delayed"} :
    /\ \/ r.status = "awaiting_approval" /\ status \in {"confirmed", "rejected"}
       \/ r.status = "confirmed" /\ status = "delayed"
    /\ request' = (request \ {r}) \cup {[r EXCEPT !.status = status]}
    /\ UNCHANGED <<activity, task, stock, entries, issue, followUp, report, attempt, user>>

AttemptStep(u, n) ==
  Begin(u, n) \/ Send(u, n) \/ Resend(u, n) \/ Fails(u, n) \/ Assess(u, n) \/ Summarise(u, n)
  \/ Finish(u, n)

Next ==
  \/ \E u \in Update, n \in 1..MaxAttempts : AttemptStep(u, n) \/ Die(u, n)
  \/ \E i \in DOMAIN UserCommand : UserReads(i) \/ UserSends(i)
  \/ Decided

Spec == Init /\ [][Next]_vars

(***************************************************************************)
(* Properties.                                                             *)
(***************************************************************************)
UserActed == \E i \in DOMAIN UserCommand : Known(UserCommand[i])

Reopened(t) ==
  \E a \in activity : a.env.op = "progress" /\ a.env.id = t /\ a.env.arg.human

\* Two blockers of one task would stop it twice, under one key.
BlockedTwice(facts) ==
  LET fs == Actionable(facts.issues)
      Blocks(i) == fs[i].type = "blocker" /\ fs[i].task # None
  IN \E i, j \in DOMAIN fs : i # j /\ Blocks(i) /\ Blocks(j) /\ fs[i].task = fs[j].task

\* A task reported as completed that is still to be worked on next: the attempt after
\* the one that completed it needs less material for what is next.
DoneAndNext(facts) ==
  \E f \in ToSet(Actionable(facts.completed)), g \in ToSet(Actionable(facts.focus)) :
    f.task = g.task

\* An attempt is only refused its own idempotency keys (activity.py:69-81) when
\* somebody else has changed the project meanwhile, the report was understood
\* in another way, it blocks a task twice, or completes a task and goes on with it:
\* apart from that, what a retry works out anew is what the attempt before it sent.
RetryIsRecognised ==
  \A u \in Update, n \in 1..MaxAttempts :
    Is(u, n, "conflict") =>
      \/ UserActed
      \/ BlockedTwice(attempt[u][n].facts) \/ DoneAndNext(attempt[u][n].facts)
      \/ \E v \in Update \ {u}, k \in 1..MaxAttempts : attempt[v][k].told # {}
      \/ \E k \in 1..MaxAttempts :
           attempt[u][k].pc # "idle" /\ attempt[u][k].facts # attempt[u][n].facts

\* A task is completed after all it depends on (tasks.py:611-620), whoever reports
\* it and in whatever order; only a person may reopen what others were built on.
CompletedAfterDependencies ==
  \A t \in Task : task[t].status = "completed" =>
    \A d \in Depends[t] : task[d].status = "completed" \/ Reopened(d)

\* The daily report (reports.py:303-368) names as completed what was completed, and
\* only risks and requests that are on record.
ReportTellsTheTruth ==
  /\ \A t \in report.completed : task[t].status = "completed" \/ Reopened(t)
  /\ report.risks \subseteq {i.key : i \in issue}
  /\ report.requests \subseteq {r.key : r \in request}

\* The state an attempt writes over is the state it has read (repository.save with
\* expected_version): nobody's change is lost, whatever order they come in.
NoChangeIsLost ==
  [][\A u \in Update, n \in 1..MaxAttempts :
       LET c == Current(u, n)
           seen == attempt[u][n].seen
       IN (Sending(u, n) /\ attempt'[u][n] # attempt[u][n] /\ Fresh(c)
             /\ c.key \in {a.key : a \in activity'}) =>
            /\ c.env.op \in {"progress", "complete"} => task[c.env.id] = seen.task[c.env.id]
            /\ c.env.op = "adjust" => stock[c.env.id] = seen.stock[c.env.id]]_vars
=============================================================================
