----------------------------- MODULE ImportPlan -----------------------------
(***************************************************************************)
(* The deterministic part of a project import (app/services/               *)
(* project_import_normalization.py, _validation.py, _plan.py, _diff.py and *)
(* the entities of project_import.py): what becomes of the draft a         *)
(* language model read out of a source, before anybody confirms it.        *)
(*                                                                         *)
(* A name or a unit is a pair <<key, spelling>>: two spellings of one key  *)
(* differ in case, spacing or punctuation only (for a unit, in the alias). *)
(* A name of key Blank has nothing but punctuation in it, a unit of key    *)
(* Unknown is in no table: normalising one raises.                         *)
(***************************************************************************)
EXTENDS Naturals, Sequences, FiniteSets, SequencesExt

CONSTANTS None, Blank, Unknown,
          MaxWrites  \* ProjectImportSafetyLimits.max_transaction_writes

ASSUME PlanAssumption == MaxWrites \in Nat

MatchKey(name) == name[1]
CanonicalUnit(unit) == <<unit[1], "canonical">>

\* A draft: sequences of records, as the extraction lists them.
Draft(title, phases, tasks, deps, materials, needs, milestones) ==
  [title |-> title, phases |-> phases, tasks |-> tasks, deps |-> deps, materials |-> materials,
   needs |-> needs, milestones |-> milestones, conflicts |-> {}]

\* The codes a conflict carries: what is wrong with the draft in itself, or the kind of item the
\* project has already (the operation that ends such a code is left out).
Codes ==
  {"DUPLICATE_TEMP_ID", "UNKNOWN_TASK_PHASE", "DUPLICATE_TASK_NAME", "COMPLETED_TASK_MISSING_DATE",
   "DUPLICATE_MILESTONE_TEMP_ID", "MILESTONE_MISSING_DATE", "DUPLICATE_DEPENDENCY", "UNKNOWN_PREDECESSOR",
   "UNKNOWN_SUCCESSOR", "SELF_DEPENDENCY", "DEPENDENCY_CYCLE", "DUPLICATE_MATERIAL_REQUIREMENT",
   "UNKNOWN_REQUIREMENT_TASK", "UNKNOWN_REQUIREMENT_MATERIAL", "MATERIAL_UNIT_MISMATCH",
   "TRANSACTION_WRITE_BUDGET_EXCEEDED", "CANONICAL_PHASE", "CANONICAL_TASK", "CANONICAL_DEPENDENCY",
   "CANONICAL_MATERIAL", "CANONICAL_REQUIREMENT"}

----------------------------------------------------------------------------
(* Between the model and the draft: units take their canonical spelling, an unknown one refuses all. *)

Normalizable(candidate) ==
  \A item \in ToSet(candidate.materials) \union ToSet(candidate.needs) : item.unit[1] # Unknown

WithCanonicalUnits(items) == [k \in DOMAIN items |-> [items[k] EXCEPT !.unit = CanonicalUnit(@)]]

Normalize(candidate) ==
  [candidate EXCEPT !.materials = WithCanonicalUnits(@), !.needs = WithCanonicalUnits(@)]

----------------------------------------------------------------------------
(* ProjectImportValidator: the codes of the conflicts a draft has in itself. *)

Ids(items) == [k \in DOMAIN items |-> items[k].id]
Names(items) == [k \in DOMAIN items |-> MatchKey(items[k].name)]
Repeats(s) == Cardinality(ToSet(s)) < Len(s)
When(code, condition) == IF condition THEN {code} ELSE {}

\* normalize_task_name_for_match raises for such a task, and the validation with it.
Unvalidatable(d) == \E t \in ToSet(d.tasks) : MatchKey(t.name) = Blank

UniqueIds(d) ==
  When("DUPLICATE_TEMP_ID", \E items \in {d.phases, d.tasks, d.materials} : Repeats(Ids(items)))

PhaseReferences(d) ==
  When("UNKNOWN_TASK_PHASE", \E t \in ToSet(d.tasks) : t.phase \notin ToSet(Ids(d.phases)) \union {None})

DuplicateTaskNames(d) == When("DUPLICATE_TASK_NAME", Repeats(Names(d.tasks)))

CompletionDates(d) ==
  When("COMPLETED_TASK_MISSING_DATE", \E t \in ToSet(d.tasks) : t.status = "completed" /\ t.completed = None)

Milestones(d) ==
  When("DUPLICATE_MILESTONE_TEMP_ID",
       Repeats(Ids(d.milestones)) \/ ToSet(Ids(d.milestones)) \intersect ToSet(Ids(d.tasks)) # {})
    \union When("MILESTONE_MISSING_DATE", \E m \in ToSet(d.milestones) : m.date = None)

\* What the depth-first visits find: some tasks each have a predecessor among themselves.
Cyclic(d) ==
  \E S \in (SUBSET ToSet(Ids(d.tasks))) \ {{}} : \A t \in S : \E p \in S \ {t} : [pred |-> p, succ |-> t] \in ToSet(d.deps)

Dependencies(d) ==
  LET tasks == ToSet(Ids(d.tasks))  edges == ToSet(d.deps) IN
  When("DUPLICATE_DEPENDENCY", Repeats(d.deps))
    \union When("UNKNOWN_PREDECESSOR", \E e \in edges : e.pred \notin tasks)
    \union When("UNKNOWN_SUCCESSOR", \E e \in edges : e.succ \notin tasks)
    \union When("SELF_DEPENDENCY", \E e \in edges : e.pred = e.succ)
    \union When("DEPENDENCY_CYCLE", Cyclic(d))

\* With two materials of one id the map of the code keeps the last.
MaterialOf(d, id) == d.materials[CHOOSE k \in DOMAIN d.materials :
  d.materials[k].id = id /\ \A j \in DOMAIN d.materials : d.materials[j].id = id => j <= k]

Requirements(d) ==
  LET known == {n \in ToSet(d.needs) : n.material \in ToSet(Ids(d.materials))} IN
  When("DUPLICATE_MATERIAL_REQUIREMENT", Repeats([k \in DOMAIN d.needs |-> <<d.needs[k].task, d.needs[k].material>>]))
    \union When("UNKNOWN_REQUIREMENT_TASK", \E n \in ToSet(d.needs) : n.task \notin ToSet(Ids(d.tasks)))
    \union When("UNKNOWN_REQUIREMENT_MATERIAL", known # ToSet(d.needs))
    \union When("MATERIAL_UNIT_MISMATCH",
                \E n \in known : CanonicalUnit(n.unit) # CanonicalUnit(MaterialOf(d, n.material).unit))

----------------------------------------------------------------------------
(* The plan: canonical identities, and the entities a commit creates. *)

CanonicalId(kind, i, id) == <<kind, i, id>>
DependencyId(pred, succ) == <<"dependency", pred, succ>>

\* The positions of the materials that come with some stock.
Opening(d) == {k \in DOMAIN d.materials : d.materials[k].onHand > 0}
ImportedPhases(d, i) == {[id |-> CanonicalId("phase", i, p.id), name |-> p.name] : p \in ToSet(d.phases)}
Predecessors(d, i, t) == {CanonicalId("task", i, e.pred) : e \in {x \in ToSet(d.deps) : x.succ = t}}
ImportedTasks(d, i) ==
  {[id |-> CanonicalId("task", i, t.id), name |-> t.name, status |-> t.status, deps |-> Predecessors(d, i, t.id),
    percent |-> IF t.status = "completed" THEN 100 ELSE 0] : t \in ToSet(d.tasks)}
ImportedMilestones(d, i) ==
  {[id |-> CanonicalId("task", i, m.id), name |-> m.name, status |-> "proposed", deps |-> {}, percent |-> 0] : m \in {x \in ToSet(d.milestones) : x.date # None}}
ImportedMaterials(d, i) ==
  {[id |-> CanonicalId("material", i, m.id), names |-> {MatchKey(m.name)}, unit |-> m.unit, available |-> m.onHand] :
    m \in ToSet(d.materials)}
ImportedLedger(d, i) ==
  {[id |-> CanonicalId("ledger", i, d.materials[k].id), material |-> CanonicalId("material", i, d.materials[k].id),
    delta |-> d.materials[k].onHand] : k \in Opening(d)}
ImportedNeeds(d, i) ==
  {[id |-> CanonicalId("requirement", i, <<n.task, n.material>>), task |-> CanonicalId("task", i, n.task),
    material |-> CanonicalId("material", i, n.material), quantity |-> n.quantity, unit |-> n.unit] :
    n \in ToSet(d.needs)}

EntityIds(d, i) ==
  {x.id : x \in ImportedPhases(d, i)} \union {x.id : x \in ImportedTasks(d, i) \union ImportedMilestones(d, i)}
    \union {x.id : x \in ImportedMaterials(d, i)} \union {x.id : x \in ImportedLedger(d, i)}
    \union {x.id : x \in ImportedNeeds(d, i)}
Provenance(d, i) ==
  EntityIds(d, i) \union {DependencyId(CanonicalId("task", i, e.pred), CanonicalId("task", i, e.succ)) : e \in ToSet(d.deps)}

\* The writes of a commit: a provenance each, the entities and the project, the activities, the import.
WriteCount(d) ==
  LET tasks == Len(d.tasks) + Len(d.milestones)
      entities == Len(d.phases) + tasks + Len(d.materials) + Cardinality(Opening(d)) + Len(d.needs)
  IN  (entities + Len(d.deps)) + (1 + entities) + (tasks + Len(d.deps) + Len(d.materials) + Len(d.needs) + 1) + 1

PlanSafety(d) == When("TRANSACTION_WRITE_BUDGET_EXCEEDED", WriteCount(d) > MaxWrites)

Conflicts(d) ==
  d.conflicts \union UniqueIds(d) \union PhaseReferences(d) \union DuplicateTaskNames(d) \union CompletionDates(d)
    \union Milestones(d) \union Dependencies(d) \union Requirements(d) \union PlanSafety(d)

----------------------------------------------------------------------------
(* The additive-only preflight: a draft against the records p of its project. *)

TaskMatches(name, p) == {t.id : t \in {x \in p.tasks : MatchKey(x.name) = MatchKey(name)}}
PhaseMatches(name, p) == {f.id : f \in {x \in p.phases : MatchKey(x.name) = MatchKey(name)}}
MaterialMatches(name, p) == {m.id : m \in {x \in p.materials : MatchKey(name) \in x.names}}

Identity(matches) ==
  CASE matches = {} -> "added" [] Cardinality(matches) > 1 -> "conflicted" [] OTHER -> "changed"

MaterialIdentity(m, p) ==
  LET matches == MaterialMatches(m.name, p) IN
  IF Identity(matches) = "changed" /\ \E x \in p.materials : x.id \in matches /\ x.unit # m.unit
  THEN "conflicted" ELSE Identity(matches)

\* A dependency or a requirement relates two items: both new, or both found once and related already.
Relation(first, second, related) ==
  CASE first = {} /\ second = {} -> "added"
    [] Cardinality(first) = 1 /\ Cardinality(second) = 1 /\ related -> "changed"
    [] OTHER -> "conflicted"

NameOf(items, id) == items[CHOOSE k \in DOMAIN items : items[k].id = id].name

DependencyDiff(e, d, p) ==
  LET first == TaskMatches(NameOf(d.tasks, e.pred), p)  second == TaskMatches(NameOf(d.tasks, e.succ), p)
  IN  Relation(first, second, \E t \in p.tasks : t.id \in second /\ first \subseteq t.deps)

RequirementDiff(n, d, p) ==
  LET first == TaskMatches(NameOf(d.tasks, n.task), p)  second == MaterialMatches(NameOf(d.materials, n.material), p)
      same == {x \in p.needs : x.task \in first /\ x.material \in second}
  IN  Relation(first, second, Cardinality(same) = 1)

\* A blank name makes the comparison raise.
Incomparable(d) ==
  \E x \in ToSet(d.phases) \union ToSet(d.tasks) \union ToSet(d.milestones) \union ToSet(d.materials) :
    MatchKey(x.name) = Blank

Differences(d, p) ==
  {<<"CANONICAL_PHASE", Identity(PhaseMatches(x.name, p))>> : x \in ToSet(d.phases)}
    \union {<<"CANONICAL_TASK", Identity(TaskMatches(x.name, p))>> : x \in ToSet(d.tasks) \union ToSet(d.milestones)}
    \union {<<"CANONICAL_DEPENDENCY", DependencyDiff(e, d, p)>> : e \in ToSet(d.deps)}
    \union {<<"CANONICAL_MATERIAL", MaterialIdentity(m, p)>> : m \in ToSet(d.materials)}
    \union {<<"CANONICAL_REQUIREMENT", RequirementDiff(n, d, p)>> : n \in ToSet(d.needs)}

Blocking(d, p) == {x[1] : x \in {y \in Differences(d, p) : y[2] # "added"}}
=============================================================================
