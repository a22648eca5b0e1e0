------------------------ MODULE ProjectImportProofs ------------------------
(***************************************************************************)
(* What is proved of the life of an import, for any imports, calls,        *)
(* clients, texts, answers of the language model and limits: its records   *)
(* are well formed, an import is in the project whole or not at all, it    *)
(* only adds, and what is under review is what is confirmed and imported.  *)
(***************************************************************************)
EXTENDS ProjectImport, FiniteSetTheorems, TLAPS

----------------------------------------------------------------------------
(* Drafts, their conflicts and the entities they become. *)

\* Normalising touches the materials and the needs of what the model read.
LEMMA NormalizedItems ==
  ASSUME NEW d \in Candidates
  PROVE  /\ Normalize(d).materials = WithCanonicalUnits(d.materials) /\ Normalize(d).needs = WithCanonicalUnits(d.needs)
         /\ Normalize(d) = [title |-> d.title, phases |-> d.phases, tasks |-> d.tasks, deps |-> d.deps,
                            materials |-> Normalize(d).materials, needs |-> Normalize(d).needs,
                            milestones |-> d.milestones, conflicts |-> {}]
<1>1. d = Draft(d.title, d.phases, d.tasks, d.deps, d.materials, d.needs, d.milestones)
  BY ImportAssumption
<1> DEFINE m == WithCanonicalUnits(d.materials)
           n == WithCanonicalUnits(d.needs)
<1>2. Normalize(d) = [d EXCEPT !.materials = m, !.needs = n]
  BY <1>1 DEF Normalize, Draft
<1> HIDE DEF m, n
<1>3. Normalize(d) = [title |-> d.title, phases |-> d.phases, tasks |-> d.tasks, deps |-> d.deps, materials |-> m,
                      needs |-> n, milestones |-> d.milestones, conflicts |-> {}]
  <2>1. d = [title |-> d.title, phases |-> d.phases, tasks |-> d.tasks, deps |-> d.deps, materials |-> d.materials,
             needs |-> d.needs, milestones |-> d.milestones, conflicts |-> {}]
    BY <1>1 DEF Draft
  <2> DEFINE half == [title |-> d.title, phases |-> d.phases, tasks |-> d.tasks, deps |-> d.deps, materials |-> m,
                      needs |-> d.needs, milestones |-> d.milestones, conflicts |-> {}]
  <2>2. [d EXCEPT !.materials = m] = half
    BY <2>1
  <2>3. Normalize(d) = [[d EXCEPT !.materials = m] EXCEPT !.needs = n]
    BY <1>2
  <2> QED
    BY <2>2, <2>3
<1> QED
  BY <1>3 DEF m, n

\* Normalising what the model read gives a draft.
LEMMA NormalizeIsDraft ==
  ASSUME NEW d \in Candidates
  PROVE  Normalize(d) \in Drafts /\ Normalize(d) # None
<1>1. /\ d.title \in {e.title : e \in Candidates} /\ d.phases \in {e.phases : e \in Candidates}
      /\ d.tasks \in {e.tasks : e \in Candidates} /\ d.deps \in {e.deps : e \in Candidates}
      /\ d.milestones \in {e.milestones : e \in Candidates}
  OBVIOUS
<1>2. /\ Normalize(d).materials \in {Normalize(e).materials : e \in Candidates}
      /\ Normalize(d).needs \in {Normalize(e).needs : e \in Candidates}
  OBVIOUS
<1>3. {} \in SUBSET Codes
  OBVIOUS
<1>4. Normalize(d) \in Drafts
  BY <1>1, <1>2, <1>3, NormalizedItems DEF Drafts
<1> QED
  BY <1>4, ImportAssumption

\* A draft keeps its shape when it is given conflicts.
LEMMA DraftShape ==
  ASSUME NEW d \in Drafts
  PROVE  /\ d.conflicts \subseteq Codes
         /\ d = [d EXCEPT !.conflicts = d.conflicts]
         /\ \A x \in SUBSET Codes : [d EXCEPT !.conflicts = x] \in Drafts /\ [d EXCEPT !.conflicts = x].conflicts = x
<1>1. d.conflicts \in SUBSET Codes /\ d = [d EXCEPT !.conflicts = d.conflicts]
  BY DEF Drafts
<1>2. ASSUME NEW x \in SUBSET Codes
      PROVE  [d EXCEPT !.conflicts = x] \in Drafts /\ [d EXCEPT !.conflicts = x].conflicts = x
  BY DEF Drafts
<1> QED
  BY <1>1, <1>2

\* What the validator finds is a set of codes.
LEMMA ConflictsAreCodes ==
  ASSUME NEW d \in Drafts
  PROVE  Conflicts(d) \subseteq Codes
<1>0. \A code, condition : When(code, condition) \subseteq {code}
  BY DEF When
<1>1. d.conflicts \subseteq Codes
  BY DraftShape
<1>2. UniqueIds(d) \subseteq Codes /\ PhaseReferences(d) \subseteq Codes /\ DuplicateTaskNames(d) \subseteq Codes
  BY DEF When, UniqueIds, PhaseReferences, DuplicateTaskNames, Codes
<1>3. CompletionDates(d) \subseteq Codes /\ Milestones(d) \subseteq Codes /\ PlanSafety(d) \subseteq Codes
  BY DEF When, CompletionDates, Milestones, PlanSafety, Codes
<1>4. Dependencies(d) \subseteq Codes
  BY DEF When, Dependencies, Codes
<1>5. Requirements(d) \subseteq Codes
  BY DEF When, Requirements, Codes
<1> QED
  BY <1>1, <1>2, <1>3, <1>4, <1>5 DEF Conflicts

\* So is what the comparison with the project finds.
LEMMA BlockingAreCodes ==
  ASSUME NEW d, NEW p
  PROVE  Blocking(d, p) \subseteq Codes
<1>1. \A x \in Differences(d, p) : x[1] \in Codes
  BY DEF Differences, Codes
<1> QED
  BY <1>1 DEF Blocking

\* A draft that passed its review has no conflict of any kind, and is stored as it was.
LEMMA PassedReview ==
  ASSUME NEW d \in Drafts
  PROVE  /\ ReviewConflicts(d) \in SUBSET Codes
         /\ ReviewConflicts(d) = {} => Conflicts(d) = {} /\ [d EXCEPT !.conflicts = {}] = d
<1>1. ReviewConflicts(d) \in SUBSET Codes
  BY ConflictsAreCodes, BlockingAreCodes DEF ReviewConflicts
<1>2. ASSUME ReviewConflicts(d) = {}
      PROVE  Conflicts(d) = {} /\ [d EXCEPT !.conflicts = {}] = d
  <2>1. Conflicts(d) = {}
    BY <1>2 DEF ReviewConflicts
  <2>2. d.conflicts = {}
    BY <2>1 DEF Conflicts
  <2> QED
    BY <2>1, <2>2, DraftShape
<1> QED
  BY <1>1, <1>2

\* What the model reads are sequences of items.
LEMMA ItemsAreSequences ==
  ASSUME NEW d \in Candidates
  PROVE  /\ d.phases \in Seq(ToSet(d.phases)) /\ d.tasks \in Seq(ToSet(d.tasks)) /\ d.deps \in Seq(ToSet(d.deps))
         /\ d.materials \in Seq(ToSet(d.materials)) /\ d.needs \in Seq(ToSet(d.needs))
         /\ d.milestones \in Seq(ToSet(d.milestones))
<1>1. \A items \in {d.phases, d.tasks, d.deps, d.materials, d.needs, d.milestones} : items \in Seq(ToSet(items))
  BY ImportAssumption
<1> QED
  BY <1>1

\* Any draft has a number of writes.
LEMMA WritesCounted ==
  ASSUME NEW d \in Drafts
  PROVE  WriteCount(d) \in Nat
<1>1. PICK a \in Candidates : d.phases = a.phases
  BY DEF Drafts
<1>2. PICK b \in Candidates : d.tasks = b.tasks
  BY DEF Drafts
<1>3. PICK e \in Candidates : d.deps = e.deps
  BY DEF Drafts
<1>4. PICK f \in Candidates : d.milestones = f.milestones
  BY DEF Drafts
<1>5. PICK g \in Candidates : d.materials = Normalize(g).materials
  BY DEF Drafts
<1>6. PICK h \in Candidates : d.needs = Normalize(h).needs
  BY DEF Drafts
<1>7. Len(d.phases) \in Nat /\ Len(d.tasks) \in Nat /\ Len(d.deps) \in Nat /\ Len(d.milestones) \in Nat
  <2>1. Len(d.phases) \in Nat
    <3>1. a.phases \in Seq(ToSet(a.phases))
      BY ItemsAreSequences
    <3> QED
      BY <1>1, <3>1
  <2>2. Len(d.tasks) \in Nat
    <3>1. b.tasks \in Seq(ToSet(b.tasks))
      BY ItemsAreSequences
    <3> QED
      BY <1>2, <3>1
  <2>3. Len(d.deps) \in Nat
    <3>1. e.deps \in Seq(ToSet(e.deps))
      BY ItemsAreSequences
    <3> QED
      BY <1>3, <3>1
  <2>4. Len(d.milestones) \in Nat
    <3>1. f.milestones \in Seq(ToSet(f.milestones))
      BY ItemsAreSequences
    <3> QED
      BY <1>4, <3>1
  <2> QED
    BY <2>1, <2>2, <2>3, <2>4
<1>8. /\ Len(d.materials) \in Nat /\ DOMAIN d.materials = 1 .. Len(d.materials)
  <2>1. g.materials \in Seq(ToSet(g.materials))
    BY ItemsAreSequences
  <2>2. d.materials = WithCanonicalUnits(g.materials)
    BY <1>5, NormalizedItems
  <2> QED
    BY <2>1, <2>2 DEF WithCanonicalUnits
<1>9. Len(d.needs) \in Nat
  <2>1. h.needs \in Seq(ToSet(h.needs))
    BY ItemsAreSequences
  <2>2. d.needs = WithCanonicalUnits(h.needs)
    BY <1>6, NormalizedItems
  <2> QED
    BY <2>1, <2>2 DEF WithCanonicalUnits
<1>10. Cardinality(Opening(d)) \in Nat
  <2>1. IsFiniteSet(DOMAIN d.materials)
    BY <1>8, FS_Interval
  <2> QED
    BY <2>1, FS_Subset, FS_CardinalityType DEF Opening
<1> DEFINE p == Len(d.phases)
           t == Len(d.tasks)
           q == Len(d.deps)
           s == Len(d.milestones)
           m == Len(d.materials)
           n == Len(d.needs)
           o == Cardinality(Opening(d))
<1>11. WriteCount(d) = ((p + (t + s) + m + o + n) + q) + (1 + (p + (t + s) + m + o + n)) + ((t + s) + q + m + n + 1) + 1
  BY DEF WriteCount
<1>12. p \in Nat /\ t \in Nat /\ q \in Nat /\ s \in Nat /\ m \in Nat /\ n \in Nat /\ o \in Nat
  BY <1>7, <1>8, <1>9, <1>10
<1> HIDE DEF p, t, q, s, m, n, o
<1> QED
  BY <1>11, <1>12

\* A draft without conflicts fits a transaction and names only predecessors it has.
LEMMA SoundDraft ==
  ASSUME NEW d \in Drafts, Conflicts(d) = {}
  PROVE  /\ d.conflicts = {}
         /\ WriteCount(d) <= MaxWrites
         /\ \A e \in ToSet(d.deps) : e.pred \in ToSet(Ids(d.tasks))
<1>1. d.conflicts = {} /\ PlanSafety(d) = {} /\ Dependencies(d) = {}
  BY DEF Conflicts
<1>2. WriteCount(d) <= MaxWrites
  BY <1>1, PlanAssumption, WritesCounted DEF PlanSafety, When
<1>3. ~(\E e \in ToSet(d.deps) : e.pred \notin ToSet(Ids(d.tasks)))
  BY <1>1, Zenon DEF Dependencies, When
<1> QED
  BY <1>1, <1>2, <1>3

\* What passes the preflight brings no task, milestone, phase or material of a name the project has.
LEMMA AdditiveIsNew ==
  ASSUME NEW d, NEW p, Additive(d, p)
  PROVE  /\ \A x \in ToSet(d.tasks) \union ToSet(d.milestones), t \in p.tasks : MatchKey(t.name) # MatchKey(x.name)
         /\ \A x \in ToSet(d.phases), f \in p.phases : MatchKey(f.name) # MatchKey(x.name)
         /\ \A x \in ToSet(d.materials), m \in p.materials : MatchKey(x.name) \notin m.names
<1>0. \A matches : Identity(matches) = "added" => matches = {}
  BY DEF Identity
<1>1. \A y \in Differences(d, p) : y[2] = "added"
  BY DEF Additive, Blocking
<1>2. ASSUME NEW x \in ToSet(d.tasks) \union ToSet(d.milestones), NEW t \in p.tasks
      PROVE  MatchKey(t.name) # MatchKey(x.name)
  <2>1. <<"CANONICAL_TASK", Identity(TaskMatches(x.name, p))>> \in Differences(d, p)
    BY DEF Differences
  <2>2. TaskMatches(x.name, p) = {}
    BY <1>0, <1>1, <2>1
  <2> QED
    BY <2>2 DEF TaskMatches
<1>3. ASSUME NEW x \in ToSet(d.phases), NEW f \in p.phases
      PROVE  MatchKey(f.name) # MatchKey(x.name)
  <2>1. <<"CANONICAL_PHASE", Identity(PhaseMatches(x.name, p))>> \in Differences(d, p)
    BY DEF Differences
  <2>2. PhaseMatches(x.name, p) = {}
    BY <1>0, <1>1, <2>1
  <2> QED
    BY <2>2 DEF PhaseMatches
<1>4. ASSUME NEW x \in ToSet(d.materials), NEW m \in p.materials
      PROVE  MatchKey(x.name) \notin m.names
  <2>1. <<"CANONICAL_MATERIAL", MaterialIdentity(x, p)>> \in Differences(d, p)
    BY DEF Differences
  <2>2. MaterialIdentity(x, p) = "added"
    BY <1>1, <2>1
  <2>3. MaterialMatches(x.name, p) = {}
    BY <1>0, <2>2 DEF MaterialIdentity
  <2> QED
    BY <2>3 DEF MaterialMatches
<1> QED
  BY <1>2, <1>3, <1>4

\* What an import brings carries its id.
LEMMA BroughtByImport ==
  ASSUME NEW d, NEW i, NEW j
  PROVE  LET brings == {ImportedPhases(d, i), ImportedTasks(d, i) \union ImportedMilestones(d, i),
                        ImportedMaterials(d, i), ImportedLedger(d, i), ImportedNeeds(d, i)}
         IN  \A new \in brings : Of(j, new) = IF j = i THEN new ELSE {}
<1>0. \A kind, id : Len(CanonicalId(kind, i, id)) = 3 /\ CanonicalId(kind, i, id)[2] = i
  BY DEF CanonicalId
<1>1. \A new : (\A x \in new : \E kind, id : x.id = CanonicalId(kind, i, id)) =>
                 Of(j, new) = IF j = i THEN new ELSE {}
  BY <1>0 DEF Of
<1>2. \A x \in ImportedPhases(d, i) : \E kind, id : x.id = CanonicalId(kind, i, id)
  BY DEF ImportedPhases
<1>3. \A x \in ImportedTasks(d, i) : \E kind, id : x.id = CanonicalId(kind, i, id)
  BY DEF ImportedTasks
<1>4. \A x \in ImportedMilestones(d, i) : \E kind, id : x.id = CanonicalId(kind, i, id)
  BY DEF ImportedMilestones
<1>5. \A x \in ImportedMaterials(d, i) : \E kind, id : x.id = CanonicalId(kind, i, id)
  BY DEF ImportedMaterials
<1>6. \A x \in ImportedLedger(d, i) : \E kind, id : x.id = CanonicalId(kind, i, id)
  BY DEF ImportedLedger
<1>7. \A x \in ImportedNeeds(d, i) : \E kind, id : x.id = CanonicalId(kind, i, id)
  <2> SUFFICES ASSUME NEW x \in ImportedNeeds(d, i)
               PROVE  \E kind, id : x.id = CanonicalId(kind, i, id)
    OBVIOUS
  <2>1. PICK n \in ToSet(d.needs) : x.id = CanonicalId("requirement", i, <<n.task, n.material>>)
    BY DEF ImportedNeeds
  <2> QED
    BY <2>1
<1> QED
  BY <1>1, <1>2, <1>3, <1>4, <1>5, <1>6, <1>7

\* Every predecessor of an imported task without conflicts is a task it brings.
LEMMA PredecessorsBrought ==
  ASSUME NEW d \in Drafts, NEW i, Conflicts(d) = {}
  PROVE  \A t \in ImportedTasks(d, i) : t.deps \subseteq {x.id : x \in ImportedTasks(d, i)}
<1>1. \A e \in ToSet(d.deps) : CanonicalId("task", i, e.pred) \in {x.id : x \in ImportedTasks(d, i)}
  <2> SUFFICES ASSUME NEW e \in ToSet(d.deps)
               PROVE  CanonicalId("task", i, e.pred) \in {x.id : x \in ImportedTasks(d, i)}
    OBVIOUS
  <2>1. e.pred \in ToSet(Ids(d.tasks))
    BY SoundDraft
  <2>2. PICK t \in ToSet(d.tasks) : t.id = e.pred
    BY <2>1 DEF ToSet, Ids
  <2> DEFINE new == [id |-> CanonicalId("task", i, t.id), name |-> t.name, status |-> t.status,
                     deps |-> Predecessors(d, i, t.id), percent |-> IF t.status = "completed" THEN 100 ELSE 0]
  <2>3. new \in ImportedTasks(d, i) /\ new.id = CanonicalId("task", i, t.id)
    BY DEF ImportedTasks
  <2> QED
    BY <2>2, <2>3
<1>2. ASSUME NEW t \in ImportedTasks(d, i)
      PROVE  t.deps \subseteq {CanonicalId("task", i, e.pred) : e \in ToSet(d.deps)}
  BY DEF ImportedTasks, Predecessors
<1> QED
  BY <1>1, <1>2

----------------------------------------------------------------------------
(* The inductive invariant. *)

CallSteps ==
  {"idle", "source", "upload", "claim", "retry", "extract", "store", "unread", "validate", "finish", "preflight",
   "decide", "start", "conflict", "commit", "failed"}
WithText == {"source", "upload", "claim", "retry", "extract"}
WithDraft == {"store", "finish"}
Works3 == {"extract", "store", "unread"}

CallRecord ==
  [at : CallSteps, import : Import \union {None}, client : Client \union {None}, version : Nat \union {None},
   attempt : Nat, draft : Drafts \union {None}, text : Texts \union {None}]

\* The statuses of an import whose draft has passed its review.
Standing == {"needs_review", "confirmed", "importing", "imported", "import_failed"}

Shapes ==
  /\ sources \in [Import -> Texts \union {None}]
  /\ imports \in [Import -> ImportRecord \union {None}]
  /\ calls \in [Call -> CallRecord]
  /\ mishaps \in 0 .. MaxMishaps

\* The fields of a record fit its status, and a draft that stands has no conflict.
Fits(r) ==
  /\ (r.lease # "none") <=> (r.status = "extracting")
  /\ (r.draft # None) <=> (r.status \notin {"uploaded", "extracting", "extraction_failed", "cancelled"})
  /\ r.status \in Standing => Conflicts(r.draft) = {}
  /\ r.decision = None <=> r.status \notin {"confirmed", "importing", "imported", "import_failed", "cancelled"}
  /\ r.status # "cancelled" /\ r.decision # None => r.decision[1] = "confirm"

RecordsFit == \A i \in Import : imports[i] # None => Fits(imports[i])

\* What a call carries fits where it stands.
Carries(k) ==
  /\ k.at # "idle" => k.import \in Import
  /\ k.at \in WithText => k.text \in Texts
  /\ k.at \in WithDraft => k.draft \in Drafts

CallsFit == \A c \in Call : Carries(calls[c])

\* A call finds the source and the record it is about.
Known ==
  /\ \A i \in Import : imports[i] # None => sources[i] # None
  /\ \A c \in Call : calls[c].at \notin {"idle", "source"} => sources[calls[c].import] # None
  /\ \A c \in Call : calls[c].at \notin {"idle", "source", "upload"} => imports[calls[c].import] # None

\* Every attempt beyond those that are asked for has cost a mishap, and so has the next one once
\* nobody works on the last.
Spent ==
  \A i \in Import : imports[i] # None =>
    /\ imports[i].attempt <= MaxAttempts + mishaps
    /\ imports[i].status = "extracting" =>
         \/ imports[i].attempt < MaxAttempts + mishaps
         \/ imports[i].lease = "live" /\ \E c \in Call :
              calls[c].at \in Works3 /\ calls[c].import = i /\ calls[c].attempt = imports[i].attempt

Base == Shapes /\ RecordsFit /\ CallsFit /\ Known

\* The project is a record of collections and a title.
ProjectShape ==
  project = [phases |-> project.phases, tasks |-> project.tasks, materials |-> project.materials,
             ledger |-> project.ledger, needs |-> project.needs, provenance |-> project.provenance, title |-> project.title]

ImportInv == Base /\ Spent /\ ProjectShape /\ ImportedWhole

\* What a step other than a commit does to a record: it leaves it alone, works on one that does not
\* stand, or moves one that stands without touching its draft or its decision.
Quiet ==
  \A i \in Import :
    \/ imports'[i] = imports[i]
    \/ /\ imports'[i] # None /\ imports'[i].status # "imported"
       /\ imports[i] # None => imports[i].status # "imported"
       /\ imports[i] # None /\ imports[i].status \in Standing =>
            \/ imports'[i].draft = imports[i].draft /\ imports[i].decision \in {None, imports'[i].decision}
            \/ imports'[i].status = "cancelled" /\ imports[i].status \in {"needs_review", "import_failed"}

----------------------------------------------------------------------------
(* How records and calls change. *)

LEMMA Numbers == MaxAttempts \in Nat /\ MaxMishaps \in Nat /\ MaxVersion \in Nat /\ MaxAttempts > 0
BY ImportAssumption

LEMMA Nothing ==
  /\ None \notin Drafts /\ None \notin Decisions /\ None \notin ImportRecord /\ None \notin Texts
<1>1. None \notin Texts
  BY ImportAssumption DEF Texts
<1> QED
  BY <1>1, ImportAssumption

\* A save stores the fields it is given under the next version.
LEMMA Saved ==
  ASSUME Shapes, RecordsFit, NEW i \in Import, imports[i] # None, NEW r \in ImportRecord, Fits(r), Save(i, r)
  PROVE  /\ imports' \in [Import -> ImportRecord \union {None}] /\ RecordsFit'
         /\ \A j \in Import : j # i => imports'[j] = imports[j]
         /\ imports'[i] # None /\ imports'[i].status = r.status /\ imports'[i].draft = r.draft
         /\ imports'[i].attempt = r.attempt /\ imports'[i].lease = r.lease /\ imports'[i].decision = r.decision
<1> DEFINE n == [r EXCEPT !.version = imports[i].version + 1]
<1>1. imports[i] \in ImportRecord /\ imports[i].version + 1 \in Nat
  BY DEF Shapes, ImportRecord
<1>2. n \in ImportRecord /\ n.status = r.status /\ n.draft = r.draft /\ n.attempt = r.attempt /\ n.lease = r.lease
      /\ n.decision = r.decision
  BY <1>1 DEF ImportRecord
<1>3. Fits(n)
  BY <1>2 DEF Fits
<1>4. imports' = [imports EXCEPT ![i] = n]
  BY DEF Save
<1> HIDE DEF n
<1>5. imports' \in [Import -> ImportRecord \union {None}] /\ imports'[i] = n /\ n # None
      /\ \A j \in Import : j # i => imports'[j] = imports[j]
  BY <1>2, <1>4, Nothing DEF Shapes
<1>6. RecordsFit'
  BY <1>3, <1>5 DEF RecordsFit
<1> QED
  BY <1>2, <1>5, <1>6

\* A call that ends leaves nothing behind.
LEMMA Ended ==
  ASSUME Shapes, CallsFit, NEW c \in Call, Ends(c)
  PROVE  /\ calls' \in [Call -> CallRecord] /\ CallsFit'
         /\ calls'[c].at = "idle" /\ \A e \in Call : e # c => calls'[e] = calls[e]
<1>1. Idle \in CallRecord /\ Carries(Idle) /\ Idle.at = "idle"
  BY DEF Idle, CallRecord, CallSteps, Carries, WithText, WithDraft
<1>2. calls' \in [Call -> CallRecord] /\ calls'[c] = Idle /\ \A e \in Call : e # c => calls'[e] = calls[e]
  BY <1>1 DEF Ends, Shapes
<1> QED
  BY <1>1, <1>2 DEF CallsFit

\* A call is replaced by one that is well formed.
LEMMA Replaced ==
  ASSUME Shapes, CallsFit, NEW c \in Call, NEW k \in CallRecord, Carries(k), calls' = [calls EXCEPT ![c] = k]
  PROVE  /\ calls' \in [Call -> CallRecord] /\ CallsFit'
         /\ calls'[c] = k /\ \A e \in Call : e # c => calls'[e] = calls[e]
<1>1. calls' \in [Call -> CallRecord] /\ calls'[c] = k /\ \A e \in Call : e # c => calls'[e] = calls[e]
  BY DEF Shapes
<1> QED
  BY <1>1 DEF CallsFit

\* A call that goes on keeps what it carries.
LEMMA Went ==
  ASSUME Shapes, CallsFit, NEW c \in Call, NEW step \in CallSteps, Goes(c, step), calls[c].at # "idle",
         step \in WithText => calls[c].at \in WithText, step \notin WithDraft
  PROVE  /\ calls' \in [Call -> CallRecord] /\ CallsFit'
         /\ calls'[c].at = step /\ calls'[c].import = calls[c].import /\ calls'[c].attempt = calls[c].attempt
         /\ \A e \in Call : e # c => calls'[e] = calls[e]
<1> DEFINE k == [calls[c] EXCEPT !.at = step]
<1>1. calls[c] \in CallRecord /\ Carries(calls[c])
  BY DEF Shapes, CallsFit
<1>2. k \in CallRecord /\ k.at = step /\ k.import = calls[c].import /\ k.attempt = calls[c].attempt /\ k.text = calls[c].text
  BY <1>1 DEF CallRecord
<1>3. Carries(k)
  BY <1>1, <1>2 DEF Carries
<1>4. calls' = [calls EXCEPT ![c] = k]
  BY DEF Goes, Shapes
<1> HIDE DEF k
<1> QED
  BY <1>2, <1>3, <1>4, Replaced

\* What every step but a commit and a new material does.
Keeps == Base' /\ Spent' /\ Quiet /\ project' = project

\* Where call c stands is about a source and a record that are there.
LEMMA KnownKept ==
  ASSUME Known, NEW c \in Call, \A e \in Call : e # c => calls'[e] = calls[e], CallsFit, CallsFit',
         \A i \in Import : sources[i] # None => sources'[i] # None,
         \A i \in Import : imports[i] # None => imports'[i] # None,
         \A i \in Import : imports'[i] # None => imports[i] # None \/ sources'[i] # None,
         calls'[c].at \notin {"idle", "source"} => sources'[calls'[c].import] # None,
         calls'[c].at \notin {"idle", "source", "upload"} => imports'[calls'[c].import] # None
  PROVE  Known'
<1>1. \A i \in Import : imports'[i] # None => sources'[i] # None
  BY DEF Known
<1>2. \A e \in Call : calls'[e].at \notin {"idle", "source"} => sources'[calls'[e].import] # None
  BY DEF Known, CallsFit, Carries
<1>3. \A e \in Call : calls'[e].at \notin {"idle", "source", "upload"} => imports'[calls'[e].import] # None
  BY DEF Known, CallsFit, Carries
<1> QED
  BY <1>1, <1>2, <1>3 DEF Known

\* A step that claims nothing and lets nobody off an extraction under way costs nothing.
LEMMA SpentStays ==
  ASSUME Shapes, Spent, mishaps' = mishaps, NEW c \in Call, \A e \in Call : e # c => calls'[e] = calls[e],
         \A j \in Import : imports'[j] # None =>
           \/ imports'[j].attempt = 0 /\ imports'[j].status # "extracting"
           \/ /\ imports[j] # None /\ imports'[j].attempt = imports[j].attempt
              /\ imports'[j].status = "extracting" => imports[j].status = "extracting" /\ imports'[j].lease = imports[j].lease,
         calls[c].at \in Works3 =>
           \/ calls'[c].at \in Works3 /\ calls'[c].import = calls[c].import /\ calls'[c].attempt = calls[c].attempt
           \/ ~(/\ imports'[calls[c].import].status = "extracting"
                /\ imports'[calls[c].import].attempt = calls[c].attempt)
  PROVE  Spent'
<1> SUFFICES ASSUME NEW j \in Import, imports'[j] # None
             PROVE  /\ imports'[j].attempt <= MaxAttempts + mishaps'
                    /\ imports'[j].status = "extracting" =>
                         \/ imports'[j].attempt < MaxAttempts + mishaps'
                         \/ imports'[j].lease = "live" /\ \E e \in Call :
                              calls'[e].at \in Works3 /\ calls'[e].import = j /\ calls'[e].attempt = imports'[j].attempt
  BY DEF Spent
<1>0. mishaps \in Nat
  BY Numbers DEF Shapes
<1>1. CASE imports'[j].attempt = 0 /\ imports'[j].status # "extracting"
  BY <1>0, <1>1, Numbers
<1>2. CASE /\ imports[j] # None /\ imports'[j].attempt = imports[j].attempt
           /\ imports'[j].status = "extracting" => imports[j].status = "extracting" /\ imports'[j].lease = imports[j].lease
  <2>1. imports'[j].attempt <= MaxAttempts + mishaps'
    BY <1>2 DEF Spent
  <2>2. ASSUME imports'[j].status = "extracting", ~(imports'[j].attempt < MaxAttempts + mishaps')
        PROVE  imports'[j].lease = "live" /\ \E e \in Call :
                 calls'[e].at \in Works3 /\ calls'[e].import = j /\ calls'[e].attempt = imports'[j].attempt
    <3>1. imports[j].lease = "live"
      BY <1>2, <2>2 DEF Spent
    <3>2. PICK e \in Call : calls[e].at \in Works3 /\ calls[e].import = j /\ calls[e].attempt = imports[j].attempt
      BY <1>2, <2>2 DEF Spent
    <3>3. calls'[e].at \in Works3 /\ calls'[e].import = j /\ calls'[e].attempt = imports'[j].attempt
      BY <1>2, <2>2, <3>2
    <3> QED
      BY <1>2, <2>2, <3>1, <3>3
  <2> QED
    BY <2>1, <2>2
<1> QED
  BY <1>1, <1>2

\* A step of call c that changes no record.
LEMMA CallMoves ==
  ASSUME ImportInv, NEW c \in Call, UNCHANGED <<imports, project, mishaps>>,
         sources' \in [Import -> Texts \union {None}], \A i \in Import : sources[i] # None => sources'[i] # None,
         calls' \in [Call -> CallRecord], CallsFit', \A e \in Call : e # c => calls'[e] = calls[e],
         calls'[c].at \notin {"idle", "source"} => sources'[calls'[c].import] # None,
         calls'[c].at \notin {"idle", "source", "upload"} => imports[calls'[c].import] # None,
         calls[c].at \in Works3 =>
           \/ calls'[c].at \in Works3 /\ calls'[c].import = calls[c].import /\ calls'[c].attempt = calls[c].attempt
           \/ ~(/\ imports[calls[c].import].status = "extracting"
                /\ imports[calls[c].import].attempt = calls[c].attempt)
  PROVE  Keeps
<1>1. Shapes /\ RecordsFit /\ CallsFit /\ Known /\ Spent
  BY DEF ImportInv, Base
<1>2. Shapes' /\ RecordsFit'
  BY <1>1 DEF Shapes, RecordsFit
<1>3. Known'
  BY <1>1, KnownKept
<1>4. Spent'
  BY <1>1, SpentStays
<1> QED
  BY <1>2, <1>3, <1>4 DEF Keeps, Base, Quiet

\* A step of call c that saves record i, and neither claims an extraction nor imports.
LEMMA RecordMoves ==
  ASSUME ImportInv, NEW c \in Call, NEW i \in Import, UNCHANGED <<sources, project, mishaps>>, imports[i] # None,
         imports' \in [Import -> ImportRecord \union {None}], RecordsFit',
         \A j \in Import : j # i => imports'[j] = imports[j],
         imports'[i] # None, imports'[i].attempt = imports[i].attempt, imports'[i].status \notin {"extracting", "imported"},
         imports[i].status # "imported",
         imports[i].status \in Standing =>
            \/ imports'[i].draft = imports[i].draft /\ imports[i].decision \in {None, imports'[i].decision}
            \/ imports'[i].status = "cancelled" /\ imports[i].status \in {"needs_review", "import_failed"},
         calls' \in [Call -> CallRecord], CallsFit', \A e \in Call : e # c => calls'[e] = calls[e],
         calls'[c].at \notin {"idle", "source"} => calls'[c].import = i,
         calls[c].at \in Works3 => calls[c].import = i \/ calls'[c] = calls[c]
  PROVE  Keeps
<1>1. Shapes /\ RecordsFit /\ CallsFit /\ Known /\ Spent
  BY DEF ImportInv, Base
<1>2. Shapes'
  BY <1>1 DEF Shapes
<1>3. sources[i] # None
  BY <1>1 DEF Known
<1>4. Known'
  BY <1>1, <1>3, KnownKept
<1>5. \A j \in Import : imports'[j] # None =>
        /\ imports[j] # None /\ imports'[j].attempt = imports[j].attempt
        /\ imports'[j].status = "extracting" => imports[j].status = "extracting" /\ imports'[j].lease = imports[j].lease
  OBVIOUS
<1>6. calls[c].at \in Works3 =>
        \/ calls'[c].at \in Works3 /\ calls'[c].import = calls[c].import /\ calls'[c].attempt = calls[c].attempt
        \/ ~(/\ imports'[calls[c].import].status = "extracting"
             /\ imports'[calls[c].import].attempt = calls[c].attempt)
  OBVIOUS
<1>7. Spent'
  BY <1>1, <1>5, <1>6, SpentStays
<1>8. Quiet
  BY DEF Quiet
<1> QED
  BY <1>2, <1>4, <1>7, <1>8 DEF Keeps, Base

\* What a call that has come to a record finds.
LEMMA Found ==
  ASSUME ImportInv, NEW c \in Call, calls[c].at \notin {"idle", "source", "upload"}
  PROVE  /\ Shapes /\ RecordsFit /\ CallsFit /\ Known
         /\ calls[c].import \in Import /\ Record(c) = imports[calls[c].import]
         /\ Record(c) # None /\ Record(c) \in ImportRecord /\ Fits(Record(c))
         /\ sources[calls[c].import] # None /\ sources \in [Import -> Texts \union {None}]
         /\ calls[c] \in CallRecord /\ Carries(calls[c])
<1>1. Shapes /\ RecordsFit /\ CallsFit /\ Known
  BY DEF ImportInv, Base
<1>2. calls[c].import \in Import /\ Record(c) # None /\ Carries(calls[c])
  BY <1>1 DEF CallsFit, Carries, Known, Record
<1>3. sources[calls[c].import] # None
  BY <1>1, <1>2 DEF Known, Record
<1> QED
  BY <1>1, <1>2, <1>3 DEF Shapes, RecordsFit, Record

\* A call that ends without a word changes nothing.
LEMMA EndsKeeps ==
  ASSUME ImportInv, NEW c \in Call, Ends(c), UNCHANGED <<sources, imports, project, mishaps>>,
         calls[c].at \in Works3 =>
           ~(/\ imports[calls[c].import].status = "extracting"
             /\ imports[calls[c].import].attempt = calls[c].attempt)
  PROVE  Keeps
<1>1. Shapes /\ CallsFit
  BY DEF ImportInv, Base
<1>2. /\ calls' \in [Call -> CallRecord] /\ CallsFit' /\ calls'[c].at = "idle"
      /\ \A e \in Call : e # c => calls'[e] = calls[e]
  BY <1>1, Ended
<1> QED
  BY <1>1, <1>2, CallMoves DEF Shapes

\* A call goes on to a step that works on no extraction, and no record changes.
LEMMA GoesKeeps ==
  ASSUME ImportInv, NEW c \in Call, NEW step \in CallSteps \ (WithText \union WithDraft), Goes(c, step),
         UNCHANGED <<sources, imports, project, mishaps>>,
         calls[c].at \notin {"idle", "source", "upload"} \union Works3
  PROVE  Keeps
<1>1. Shapes /\ CallsFit /\ sources[calls[c].import] # None /\ imports[calls[c].import] # None
  BY Found
<1>2. /\ calls' \in [Call -> CallRecord] /\ CallsFit' /\ calls'[c].import = calls[c].import
      /\ \A e \in Call : e # c => calls'[e] = calls[e]
  BY <1>1, Went
<1> QED
  BY <1>1, <1>2, CallMoves DEF Shapes

\* A call turns to the validation of what is stored.
LEMMA Turned ==
  ASSUME ImportInv, NEW c \in Call, calls[c].at \notin {"idle", "source", "upload"},
         NEW d, Validates(c) \/ (Finishes(c, d) /\ d \in Drafts)
  PROVE  /\ calls' \in [Call -> CallRecord] /\ CallsFit' /\ calls'[c].at \notin Works3
         /\ calls'[c].import = calls[c].import /\ \A e \in Call : e # c => calls'[e] = calls[e]
<1>0. Shapes /\ CallsFit /\ calls[c].import \in Import
  BY Found
<1>1. CASE Validates(c)
  <2> DEFINE k == [Idle EXCEPT !.at = "validate", !.import = calls[c].import]
  <2>1. k \in CallRecord /\ Carries(k) /\ k.at = "validate" /\ k.import = calls[c].import
    BY <1>0 DEF Idle, CallRecord, CallSteps, Carries, WithText, WithDraft
  <2>2. calls' = [calls EXCEPT ![c] = k]
    BY <1>1 DEF Validates
  <2> HIDE DEF k
  <2> QED
    BY <1>0, <2>1, <2>2, Replaced DEF Works3
<1>2. CASE Finishes(c, d) /\ d \in Drafts
  <2> DEFINE k == [Idle EXCEPT !.at = "finish", !.import = calls[c].import, !.draft = d]
  <2>1. k \in CallRecord /\ Carries(k) /\ k.at = "finish" /\ k.import = calls[c].import
    BY <1>0, <1>2 DEF Idle, CallRecord, CallSteps, Carries, WithText, WithDraft
  <2>2. calls' = [calls EXCEPT ![c] = k]
    BY <1>2 DEF Finishes
  <2> HIDE DEF k
  <2> QED
    BY <1>0, <2>1, <2>2, Replaced DEF Works3
<1> QED
  BY <1>1, <1>2

----------------------------------------------------------------------------
(* One lemma per action. *)

LEMMA PostKeeps ==
  ASSUME ImportInv, NEW c \in Call, NEW i \in Import, NEW t \in Text[i], Post(c, i, t)
  PROVE  Keeps
<1>0. Shapes /\ CallsFit
  BY DEF ImportInv, Base
<1> DEFINE k == [Idle EXCEPT !.at = "source", !.import = i, !.text = t]
<1>1. t \in Texts
  BY DEF Texts
<1>2. k \in CallRecord /\ Carries(k) /\ k.at = "source"
  BY <1>1 DEF Idle, CallRecord, CallSteps, Carries, WithText, WithDraft
<1>3. calls' = [calls EXCEPT ![c] = k] /\ UNCHANGED <<sources, imports, project, mishaps>>
  BY DEF Post, ReadOnly
<1> HIDE DEF k
<1>4. calls' \in [Call -> CallRecord] /\ CallsFit' /\ calls'[c].at = "source" /\ \A e \in Call : e # c => calls'[e] = calls[e]
  BY <1>0, <1>2, <1>3, Replaced
<1>5. calls[c].at = "idle" /\ "idle" \notin Works3
  BY DEF Post, Idle, Works3
<1> QED
  BY <1>0, <1>3, <1>4, <1>5, CallMoves DEF Shapes

LEMMA PersistSourceKeeps ==
  ASSUME ImportInv, NEW c \in Call, PersistSource(c)
  PROVE  Keeps
<1> DEFINE i == calls[c].import
<1>0. Shapes /\ CallsFit /\ Known
  BY DEF ImportInv, Base
<1>1. calls[c].at = "source" /\ i \in Import /\ calls[c].text \in Texts /\ calls[c].at \notin Works3
  BY <1>0 DEF PersistSource, CallsFit, Carries, WithText, Works3
<1>2. UNCHANGED <<imports, project, mishaps>>
  BY DEF PersistSource
<1>3. CASE sources[i] \in {None, calls[c].text}
  <2>1. sources' = [sources EXCEPT ![i] = calls[c].text] /\ Goes(c, "upload")
    BY <1>3 DEF PersistSource
  <2>2. /\ sources' \in [Import -> Texts \union {None}] /\ sources'[i] # None
        /\ \A j \in Import : sources[j] # None => sources'[j] # None
    BY <1>0, <1>1, <2>1, Nothing DEF Shapes
  <2>3. /\ calls' \in [Call -> CallRecord] /\ CallsFit' /\ calls'[c].at = "upload" /\ calls'[c].import = i
        /\ \A e \in Call : e # c => calls'[e] = calls[e]
    BY <1>0, <1>1, <2>1, Went DEF CallSteps, WithText, WithDraft
  <2> QED
    BY <1>1, <1>2, <2>2, <2>3, CallMoves
<1>4. CASE sources[i] \notin {None, calls[c].text}
  <2>1. UNCHANGED sources /\ Ends(c)
    BY <1>4 DEF PersistSource
  <2>2. /\ calls' \in [Call -> CallRecord] /\ CallsFit' /\ calls'[c].at = "idle"
        /\ \A e \in Call : e # c => calls'[e] = calls[e]
    BY <1>0, <2>1, Ended
  <2> QED
    BY <1>0, <1>1, <1>2, <2>1, <2>2, CallMoves DEF Shapes
<1> QED
  BY <1>3, <1>4

LEMMA EnsureUploadedKeeps ==
  ASSUME ImportInv, NEW c \in Call, EnsureUploaded(c)
  PROVE  Keeps
<1> DEFINE i == calls[c].import
<1>0. Shapes /\ RecordsFit /\ CallsFit /\ Known /\ Spent
  BY DEF ImportInv, Base
<1>1. calls[c].at = "upload" /\ i \in Import /\ calls[c].at \notin Works3 /\ sources[i] # None
  BY <1>0 DEF EnsureUploaded, CallsFit, Carries, Works3, Known
<1>2. UNCHANGED <<sources, project, mishaps>> /\ Goes(c, "claim")
  BY DEF EnsureUploaded
<1>3. /\ calls' \in [Call -> CallRecord] /\ CallsFit' /\ calls'[c].at = "claim" /\ calls'[c].import = i
      /\ \A e \in Call : e # c => calls'[e] = calls[e]
  BY <1>0, <1>1, <1>2, Went DEF CallSteps, WithText, WithDraft
<1>4. CASE imports[i] # None
  <2>1. imports' = imports
    BY <1>4 DEF EnsureUploaded
  <2> QED
    BY <1>0, <1>1, <1>2, <1>3, <1>4, <2>1, CallMoves DEF Shapes
<1>5. CASE imports[i] = None
  <2>1. imports' = [imports EXCEPT ![i] = Uploaded]
    BY <1>5 DEF EnsureUploaded
  <2>2. Uploaded \in ImportRecord /\ Fits(Uploaded) /\ Uploaded.attempt = 0 /\ Uploaded.status = "uploaded"
    BY DEF Uploaded, ImportRecord, Statuses, Fits, Standing
  <2>3. /\ imports' \in [Import -> ImportRecord \union {None}] /\ imports'[i] = Uploaded /\ Uploaded # None
        /\ \A j \in Import : j # i => imports'[j] = imports[j]
    BY <1>0, <1>1, <2>1, <2>2, Nothing DEF Shapes
  <2>4. RecordsFit'
    BY <1>0, <2>2, <2>3 DEF RecordsFit
  <2>5. Shapes'
    BY <1>0, <1>2, <1>3, <2>3 DEF Shapes
  <2>6. Known'
    BY <1>0, <1>1, <1>2, <1>3, <2>3, KnownKept
  <2>7. Spent'
    BY <1>0, <1>1, <1>2, <1>3, <2>2, <2>3, SpentStays
  <2>8. Quiet
    BY <1>5, <2>2, <2>3 DEF Quiet
  <2> QED
    BY <1>2, <1>3, <2>4, <2>5, <2>6, <2>7, <2>8 DEF Keeps, Base
<1> QED
  BY <1>4, <1>5

\* The claim of an extraction, first or repeated.
LEMMA ClaimsKeeps ==
  ASSUME ImportInv, NEW c \in Call, calls[c].at \in {"claim", "retry"}, Claims(c),
         UNCHANGED <<sources, project, mishaps>>,
         Claimable(Record(c)) \/ (Record(c).status \in {"extraction_failed", "validation_failed"} /\ Record(c).attempt < MaxAttempts)
  PROVE  Keeps
<1> DEFINE i == calls[c].import
           r == imports[i]
           n == [r EXCEPT !.status = "extracting", !.draft = None, !.attempt = @ + 1, !.lease = "live"]
           k == [calls[c] EXCEPT !.at = "extract", !.attempt = r.attempt + 1]
<1>0. Shapes /\ RecordsFit /\ CallsFit /\ Known /\ Spent
  BY DEF ImportInv, Base
<1>1. i \in Import /\ calls[c].at \notin Works3 /\ r # None /\ calls[c].text \in Texts /\ calls[c] \in CallRecord
  BY <1>0 DEF CallsFit, Carries, Works3, Known, WithText, Shapes
<1>2. r \in ImportRecord /\ Fits(r)
  BY <1>0, <1>1 DEF Shapes, RecordsFit
<1>3. n \in ImportRecord /\ n.status = "extracting" /\ n.draft = None /\ n.attempt = r.attempt + 1 /\ n.lease = "live"
      /\ n.decision = r.decision
  <2>1. r.attempt + 1 \in Nat /\ "extracting" \in Statuses /\ None \in Drafts \union {None} /\ "live" \in {"none", "live", "out"}
    BY <1>2 DEF ImportRecord, Statuses
  <2>2. n = [[[[r EXCEPT !.status = "extracting"] EXCEPT !.draft = None] EXCEPT !.attempt = r.attempt + 1] EXCEPT !.lease = "live"]
    BY <1>2 DEF ImportRecord
  <2> HIDE DEF n
  <2> QED
    BY <1>2, <2>1, <2>2 DEF ImportRecord
<1>4. r.status \in {"uploaded", "extracting", "extraction_failed", "validation_failed"}
  BY DEF Claimable, Record
<1>5. Fits(n)
  BY <1>2, <1>3, <1>4 DEF Fits, Standing
<1>6. Save(i, n) /\ calls' = [calls EXCEPT ![c] = k]
  BY DEF Claims, Record
<1>7. k \in CallRecord /\ Carries(k) /\ k.at = "extract" /\ k.import = i /\ k.attempt = r.attempt + 1
  <2>1. r.attempt + 1 \in Nat /\ "extract" \in CallSteps
    BY <1>2 DEF ImportRecord, CallSteps
  <2>2. k \in CallRecord /\ k.at = "extract" /\ k.import = i /\ k.attempt = r.attempt + 1 /\ k.text = calls[c].text
    BY <1>1, <2>1 DEF CallRecord
  <2> QED
    BY <1>1, <2>2 DEF Carries, WithDraft
<1> HIDE DEF n, k
<1>8. /\ imports' \in [Import -> ImportRecord \union {None}] /\ RecordsFit'
      /\ \A j \in Import : j # i => imports'[j] = imports[j]
      /\ imports'[i] # None /\ imports'[i].status = "extracting"
      /\ imports'[i].attempt = r.attempt + 1 /\ imports'[i].lease = "live"
  BY <1>0, <1>1, <1>3, <1>5, <1>6, Saved
<1>9. /\ calls' \in [Call -> CallRecord] /\ CallsFit' /\ calls'[c] = k
      /\ \A e \in Call : e # c => calls'[e] = calls[e]
  BY <1>0, <1>6, <1>7, Replaced
<1>10. Shapes'
  BY <1>0, <1>8, <1>9 DEF Shapes
<1>11. Known'
  <2>1. sources[i] # None
    BY <1>0, <1>1 DEF Known
  <2> QED
    BY <1>0, <1>1, <1>7, <1>8, <1>9, <2>1, KnownKept
<1>12. Quiet
  <2>1. r.status \notin Standing /\ r.status # "imported"
    BY <1>4 DEF Standing
  <2> QED
    BY <1>8, <2>1 DEF Quiet
<1>13. Spent'
  <2>0. mishaps \in Nat /\ r.attempt \in Nat
    BY <1>0, <1>2, Numbers DEF Shapes, ImportRecord
  <2>1. r.attempt < MaxAttempts + mishaps
    <3>1. CASE r.attempt < MaxAttempts
      BY <2>0, <3>1, Numbers
    <3>2. CASE r.status = "extracting" /\ r.lease = "out"
      BY <1>0, <1>1, <3>2 DEF Spent
    <3> QED
      BY <3>1, <3>2 DEF Claimable, Record
  <2>2. imports'[i].attempt <= MaxAttempts + mishaps
    BY <1>8, <2>0, <2>1, Numbers
  <2>3. calls'[c].at \in Works3 /\ calls'[c].import = i /\ calls'[c].attempt = imports'[i].attempt
    BY <1>7, <1>8, <1>9 DEF Works3
  <2>4. ASSUME NEW j \in Import, j # i, imports'[j] # None
        PROVE  /\ imports'[j].attempt <= MaxAttempts + mishaps
               /\ imports'[j].status = "extracting" =>
                    \/ imports'[j].attempt < MaxAttempts + mishaps
                    \/ imports'[j].lease = "live" /\ \E e \in Call :
                         calls'[e].at \in Works3 /\ calls'[e].import = j /\ calls'[e].attempt = imports'[j].attempt
    BY <1>0, <1>1, <1>8, <1>9, <2>4 DEF Spent
  <2> QED
    BY <1>8, <2>2, <2>3, <2>4 DEF Spent
<1> QED
  BY <1>8, <1>9, <1>10, <1>11, <1>12, <1>13 DEF Keeps, Base

LEMMA ClaimExtractionKeeps ==
  ASSUME ImportInv, NEW c \in Call, ClaimExtraction(c)
  PROVE  Keeps
<1>1. calls[c].at = "claim" /\ UNCHANGED <<sources, project, mishaps>>
  BY DEF ClaimExtraction
<1>2. /\ calls[c].at \notin {"idle", "source", "upload"} /\ calls[c].at \notin Works3
  BY <1>1 DEF Works3
<1>3. CASE Claimable(Record(c)) /\ Claims(c)
  BY <1>1, <1>3, ClaimsKeeps
<1>4. ASSUME UNCHANGED imports, NEW d, Validates(c) \/ (Finishes(c, d) /\ d \in Drafts)
      PROVE  Keeps
  <2>1. /\ calls' \in [Call -> CallRecord] /\ CallsFit' /\ calls'[c].import = calls[c].import
        /\ \A e \in Call : e # c => calls'[e] = calls[e]
    BY <1>2, <1>4, Turned
  <2>2. sources[calls[c].import] # None /\ imports[calls[c].import] # None /\ sources \in [Import -> Texts \union {None}]
    BY <1>2, Found
  <2> QED
    BY <1>1, <1>2, <1>4, <2>1, <2>2, CallMoves
<1>5. CASE Record(c).status = "draft" /\ Validates(c) /\ UNCHANGED imports
  BY <1>4, <1>5
<1>6. CASE Record(c).status = "validating" /\ Finishes(c, Record(c).draft) /\ UNCHANGED imports
  <2>1. Record(c).draft \in Drafts
    BY <1>2, <1>6, Found DEF Fits, ImportRecord
  <2> QED
    BY <1>4, <1>6, <2>1
<1>7. CASE Ends(c) /\ UNCHANGED imports
  BY <1>1, <1>2, <1>7, EndsKeeps
<1> QED
  BY <1>3, <1>5, <1>6, <1>7 DEF ClaimExtraction

LEMMA RetryKeeps ==
  ASSUME ImportInv, NEW c \in Call, NEW i \in Import, Retry(c, i)
  PROVE  Keeps
<1>0. Shapes /\ CallsFit /\ Known
  BY DEF ImportInv, Base
<1>1. imports[i] # None /\ imports[i] \in ImportRecord /\ sources[i] # None /\ sources[i] \in Texts
  BY <1>0 DEF Retry, Shapes, Known
<1> DEFINE k == [Idle EXCEPT !.at = "retry", !.import = i, !.version = imports[i].version, !.text = sources[i]]
<1>2. k \in CallRecord /\ Carries(k) /\ k.at = "retry" /\ k.import = i
  <2>1. imports[i].version \in Nat
    BY <1>1 DEF ImportRecord
  <2> QED
    BY <1>1, <2>1 DEF Idle, CallRecord, CallSteps, Carries, WithText, WithDraft
<1>3. calls' = [calls EXCEPT ![c] = k] /\ UNCHANGED <<sources, imports, project, mishaps>>
  BY DEF Retry, ReadOnly
<1> HIDE DEF k
<1>4. /\ calls' \in [Call -> CallRecord] /\ CallsFit' /\ calls'[c].at = "retry" /\ calls'[c].import = i
      /\ \A e \in Call : e # c => calls'[e] = calls[e]
  BY <1>0, <1>2, <1>3, Replaced
<1>5. calls[c].at \notin Works3
  BY DEF Retry, Idle, Works3
<1> QED
  BY <1>0, <1>1, <1>3, <1>4, <1>5, CallMoves DEF Shapes

LEMMA ClaimRetryKeeps ==
  ASSUME ImportInv, NEW c \in Call, ClaimRetry(c)
  PROVE  Keeps
<1>1. calls[c].at = "retry" /\ UNCHANGED <<sources, project, mishaps>> /\ calls[c].at \notin Works3
  BY DEF ClaimRetry, Works3
<1>2. CASE Retryable(Record(c)) /\ Record(c).attempt < MaxAttempts /\ Claims(c)
  BY <1>1, <1>2, ClaimsKeeps DEF Retryable
<1>3. CASE UNCHANGED imports /\ Ends(c)
  BY <1>1, <1>3, EndsKeeps
<1> QED
  BY <1>2, <1>3 DEF ClaimRetry

LEMMA ExtractKeeps ==
  ASSUME ImportInv, NEW c \in Call, Extract(c)
  PROVE  Keeps
<1>1. calls[c].at = "extract" /\ UNCHANGED <<sources, imports, project, mishaps>>
  BY DEF Extract, ReadOnly
<1>2. /\ Shapes /\ CallsFit /\ calls[c] \in CallRecord /\ Carries(calls[c]) /\ sources[calls[c].import] # None
      /\ imports[calls[c].import] # None
  BY <1>1, Found
<1>3. PICK d \in Answers[calls[c].text] : calls' = [calls EXCEPT ![c] =
         IF Normalizable(d) THEN [calls[c] EXCEPT !.at = "store", !.draft = Normalize(d), !.text = None]
         ELSE [calls[c] EXCEPT !.at = "unread"]]
  BY <1>2 DEF Extract, Shapes
<1>4. calls[c].text \in Texts
  BY <1>1, <1>2 DEF Carries, WithText
<1>5. d \in Candidates
  BY <1>4 DEF Candidates
<1> DEFINE k == IF Normalizable(d) THEN [calls[c] EXCEPT !.at = "store", !.draft = Normalize(d), !.text = None]
                ELSE [calls[c] EXCEPT !.at = "unread"]
<1>6. k \in CallRecord /\ Carries(k) /\ k.at \in Works3 /\ k.import = calls[c].import /\ k.attempt = calls[c].attempt
  <2>1. CASE Normalizable(d)
    <3>1. k = [[[calls[c] EXCEPT !.at = "store"] EXCEPT !.draft = Normalize(d)] EXCEPT !.text = None]
      BY <1>2, <2>1 DEF CallRecord
    <3>2. Normalize(d) \in Drafts /\ "store" \in CallSteps
      BY <1>5, NormalizeIsDraft DEF CallSteps
    <3> HIDE DEF k
    <3>3. k \in CallRecord /\ k.at = "store" /\ k.draft = Normalize(d) /\ k.import = calls[c].import /\ k.attempt = calls[c].attempt
      BY <1>2, <3>1, <3>2 DEF CallRecord
    <3> QED
      BY <1>1, <1>2, <3>2, <3>3 DEF Carries, WithText, Works3
  <2>2. CASE ~Normalizable(d)
    <3>1. k = [calls[c] EXCEPT !.at = "unread"] /\ "unread" \in CallSteps
      BY <2>2 DEF CallSteps
    <3> HIDE DEF k
    <3> QED
      BY <1>1, <1>2, <3>1 DEF Carries, WithText, WithDraft, Works3, CallRecord
  <2> QED
    BY <2>1, <2>2
<1>7. calls' = [calls EXCEPT ![c] = k]
  BY <1>3
<1> HIDE DEF k
<1>8. /\ calls' \in [Call -> CallRecord] /\ CallsFit' /\ calls'[c] = k
      /\ \A e \in Call : e # c => calls'[e] = calls[e]
  BY <1>2, <1>6, <1>7, Replaced
<1> QED
  BY <1>1, <1>2, <1>6, <1>8, CallMoves DEF Shapes

LEMMA StoreDraftKeeps ==
  ASSUME ImportInv, NEW c \in Call, StoreDraft(c)
  PROVE  Keeps
<1> DEFINE i == calls[c].import
           n == [Record(c) EXCEPT !.status = "draft", !.draft = calls[c].draft, !.lease = "none"]
<1>1. calls[c].at = "store" /\ UNCHANGED <<sources, project, mishaps>>
  BY DEF StoreDraft
<1>2. /\ Shapes /\ RecordsFit /\ i \in Import /\ Record(c) = imports[i] /\ Record(c) # None
      /\ Record(c) \in ImportRecord /\ Fits(Record(c)) /\ Carries(calls[c])
  BY <1>1, Found
<1>3. CASE Current(c)
  <2>1. Save(i, n) /\ Validates(c) /\ imports[i].status = "extracting"
    BY <1>2, <1>3 DEF StoreDraft, Current
  <2>2. calls[c].draft \in Drafts
    BY <1>1, <1>2 DEF Carries, WithDraft
  <2>3. n = [[[Record(c) EXCEPT !.status = "draft"] EXCEPT !.draft = calls[c].draft] EXCEPT !.lease = "none"]
    BY <1>2 DEF ImportRecord
  <2> HIDE DEF n
  <2>4. /\ n \in ImportRecord /\ n.status = "draft" /\ n.draft = calls[c].draft /\ n.lease = "none"
        /\ n.attempt = Record(c).attempt /\ n.decision = Record(c).decision
    BY <1>2, <2>2, <2>3 DEF ImportRecord, Statuses
  <2>5. Fits(n)
    BY <1>2, <2>1, <2>2, <2>4, Nothing DEF Fits, Standing
  <2>6. /\ imports' \in [Import -> ImportRecord \union {None}] /\ RecordsFit'
        /\ \A j \in Import : j # i => imports'[j] = imports[j]
        /\ imports'[i] # None /\ imports'[i].status = "draft" /\ imports'[i].attempt = imports[i].attempt
    BY <1>2, <2>1, <2>4, <2>5, Saved
  <2>7. /\ calls' \in [Call -> CallRecord] /\ CallsFit' /\ calls'[c].import = i
        /\ \A e \in Call : e # c => calls'[e] = calls[e]
    BY <1>1, <2>1, Turned
  <2> QED
    BY <1>1, <1>2, <2>1, <2>6, <2>7, RecordMoves DEF Standing
<1>4. CASE ~Current(c)
  <2>1. UNCHANGED imports /\ Ends(c)
    BY <1>4 DEF StoreDraft
  <2> QED
    BY <1>1, <1>4, <2>1, EndsKeeps DEF Current, Record
<1> QED
  BY <1>3, <1>4

\* A save that only changes the status, in a step that ends its call or takes it on.
LEMMA StatusMoves ==
  ASSUME ImportInv, NEW c \in Call, UNCHANGED <<sources, project, mishaps>>,
         calls[c].at \notin {"idle", "source", "upload"},
         NEW n \in ImportRecord, Fits(n), Save(calls[c].import, n),
         n.status \notin {"extracting", "imported"}, Record(c).status # "imported",
         n.attempt = Record(c).attempt,
         Record(c).status \in Standing => n.draft = Record(c).draft /\ Record(c).decision \in {None, n.decision},
         \/ Ends(c)
         \/ \E step \in CallSteps \ (WithText \union WithDraft) : Goes(c, step)
         \/ \E d \in Drafts : Finishes(c, d)
  PROVE  Keeps
<1> DEFINE i == calls[c].import
<1>1. /\ Shapes /\ RecordsFit /\ CallsFit /\ i \in Import /\ Record(c) = imports[i] /\ imports[i] # None
  BY Found
<1>2. /\ imports' \in [Import -> ImportRecord \union {None}] /\ RecordsFit'
      /\ \A j \in Import : j # i => imports'[j] = imports[j]
      /\ imports'[i] # None /\ imports'[i].status = n.status /\ imports'[i].attempt = n.attempt
      /\ imports'[i].draft = n.draft /\ imports'[i].decision = n.decision
  BY <1>1, Saved
<1> DEFINE Arrived == /\ calls' \in [Call -> CallRecord] /\ CallsFit' /\ \A e \in Call : e # c => calls'[e] = calls[e]
                      /\ calls'[c].at \notin {"idle", "source"} => calls'[c].import = i
<1>3. Arrived
  <2>1. CASE Ends(c)
    BY <1>1, <2>1, Ended
  <2>2. ASSUME NEW step \in CallSteps \ (WithText \union WithDraft), Goes(c, step)
        PROVE  Arrived
    BY <1>1, <2>2, Went
  <2>3. ASSUME NEW d \in Drafts, Finishes(c, d)
        PROVE  Arrived
    BY <2>3, Turned
  <2> QED
    BY <2>1, <2>2, <2>3
<1> QED
  BY <1>1, <1>2, <1>3, RecordMoves

LEMMA MarkExtractionFailedKeeps ==
  ASSUME ImportInv, NEW c \in Call, MarkExtractionFailed(c)
  PROVE  Keeps
<1> DEFINE n == [Record(c) EXCEPT !.status = "extraction_failed", !.lease = "none"]
<1>1. calls[c].at = "unread" /\ UNCHANGED <<sources, project, mishaps>> /\ Ends(c)
  BY DEF MarkExtractionFailed
<1>2. Record(c) \in ImportRecord /\ Fits(Record(c))
  BY <1>1, Found
<1>3. CASE Current(c)
  <2>1. Save(calls[c].import, n) /\ Record(c).status = "extracting"
    BY <1>3 DEF MarkExtractionFailed, Current
  <2>2. /\ n \in ImportRecord /\ n.status = "extraction_failed" /\ n.draft = Record(c).draft /\ n.lease = "none"
        /\ n.attempt = Record(c).attempt /\ n.decision = Record(c).decision
    BY <1>2 DEF ImportRecord, Statuses
  <2> HIDE DEF n
  <2>3. Fits(n)
    BY <1>2, <2>1, <2>2 DEF Fits, Standing
  <2> QED
    BY <1>1, <1>2, <2>1, <2>2, <2>3, StatusMoves DEF Standing
<1>4. CASE ~Current(c)
  <2>1. UNCHANGED imports
    BY <1>4 DEF MarkExtractionFailed
  <2> QED
    BY <1>1, <1>4, <2>1, EndsKeeps DEF Current, Record
<1> QED
  BY <1>3, <1>4

LEMMA StartValidationKeeps ==
  ASSUME ImportInv, NEW c \in Call, StartValidation(c)
  PROVE  Keeps
<1> DEFINE n == [Record(c) EXCEPT !.status = "validating"]
<1>1. calls[c].at = "validate" /\ UNCHANGED <<sources, project, mishaps>> /\ calls[c].at \notin Works3
  BY DEF StartValidation, Works3
<1>2. Record(c) \in ImportRecord /\ Fits(Record(c)) /\ imports[calls[c].import] # None /\ sources[calls[c].import] # None
      /\ sources \in [Import -> Texts \union {None}]
  BY <1>1, Found
<1>3. Record(c).status \in {"draft", "validating"} => Record(c).draft \in Drafts /\ Finishes(c, Record(c).draft)
  BY <1>2 DEF StartValidation, Fits, ImportRecord
<1>4. CASE Record(c).status = "draft"
  <2>1. Save(calls[c].import, n)
    BY <1>4 DEF StartValidation
  <2>2. /\ n \in ImportRecord /\ n.status = "validating" /\ n.draft = Record(c).draft /\ n.lease = Record(c).lease
        /\ n.attempt = Record(c).attempt /\ n.decision = Record(c).decision
    BY <1>2 DEF ImportRecord, Statuses
  <2> HIDE DEF n
  <2>3. Fits(n)
    BY <1>2, <1>4, <2>2 DEF Fits, Standing
  <2> QED
    BY <1>1, <1>3, <1>4, <2>1, <2>2, <2>3, StatusMoves DEF Standing
<1>5. CASE Record(c).status = "validating"
  <2>1. UNCHANGED imports
    BY <1>5 DEF StartValidation
  <2>2. /\ calls' \in [Call -> CallRecord] /\ CallsFit' /\ calls'[c].import = calls[c].import
        /\ \A e \in Call : e # c => calls'[e] = calls[e]
    BY <1>1, <1>3, <1>5, Turned
  <2> QED
    BY <1>1, <1>2, <2>1, <2>2, CallMoves
<1>6. CASE Record(c).status \notin {"draft", "validating"}
  BY <1>1, <1>6, EndsKeeps DEF StartValidation
<1> QED
  BY <1>4, <1>5, <1>6

LEMMA FinishValidationKeeps ==
  ASSUME ImportInv, NEW c \in Call, FinishValidation(c)
  PROVE  Keeps
<1> DEFINE d == calls[c].draft
           reviewed == [d EXCEPT !.conflicts = ReviewConflicts(d)]
           status == IF ReviewConflicts(d) = {} THEN "needs_review" ELSE "validation_failed"
           n == [Record(c) EXCEPT !.draft = reviewed, !.status = status]
<1>1. calls[c].at = "finish" /\ UNCHANGED <<sources, project, mishaps>> /\ Ends(c) /\ calls[c].at \notin Works3
  BY DEF FinishValidation, Works3
<1>2. Record(c) \in ImportRecord /\ Fits(Record(c)) /\ d \in Drafts
  <2>1. Record(c) \in ImportRecord /\ Fits(Record(c)) /\ Carries(calls[c])
    BY <1>1, Found
  <2> QED
    BY <1>1, <2>1 DEF Carries, WithDraft
<1>3. CASE Reviewing(c) /\ (Conflicts(d) = {} => ~Incomparable(d))
  <2>1. Save(calls[c].import, n) /\ Record(c).status = "validating"
    BY <1>3 DEF FinishValidation, Reviewing
  <2>2. reviewed \in Drafts /\ (status = "needs_review" => Conflicts(reviewed) = {})
    BY <1>2, DraftShape, PassedReview
  <2>3. status \in {"needs_review", "validation_failed"}
    OBVIOUS
  <2> HIDE DEF reviewed, status
  <2>4. /\ n \in ImportRecord /\ n.status = status /\ n.draft = reviewed /\ n.lease = Record(c).lease
        /\ n.attempt = Record(c).attempt /\ n.decision = Record(c).decision
    BY <1>2, <2>2, <2>3 DEF ImportRecord, Statuses
  <2> HIDE DEF n
  <2>5. Fits(n)
    BY <1>2, <2>1, <2>2, <2>3, <2>4, Nothing DEF Fits, Standing
  <2> QED
    BY <1>1, <2>1, <2>3, <2>4, <2>5, StatusMoves DEF Standing
<1>4. CASE ~(Reviewing(c) /\ (Conflicts(d) = {} => ~Incomparable(d)))
  BY <1>1, <1>4, EndsKeeps DEF FinishValidation
<1> QED
  BY <1>3, <1>4

LEMMA MarkValidationFailedKeeps ==
  ASSUME ImportInv, NEW c \in Call, MarkValidationFailed(c)
  PROVE  Keeps
<1> DEFINE n == [Record(c) EXCEPT !.status = "validation_failed"]
<1>1. calls[c].at = "finish" /\ UNCHANGED <<sources, project, mishaps>> /\ Ends(c) /\ calls[c].at \notin Works3
  BY DEF MarkValidationFailed, Works3
<1>2. Record(c) \in ImportRecord /\ Fits(Record(c))
  BY <1>1, Found
<1>3. CASE Reviewing(c)
  <2>1. Save(calls[c].import, n) /\ Record(c).status = "validating"
    BY <1>3 DEF MarkValidationFailed, Reviewing
  <2>2. /\ n \in ImportRecord /\ n.status = "validation_failed" /\ n.draft = Record(c).draft /\ n.lease = Record(c).lease
        /\ n.attempt = Record(c).attempt /\ n.decision = Record(c).decision
    BY <1>2 DEF ImportRecord, Statuses
  <2> HIDE DEF n
  <2>3. Fits(n)
    BY <1>2, <2>1, <2>2 DEF Fits, Standing
  <2> QED
    BY <1>1, <2>1, <2>2, <2>3, StatusMoves DEF Standing
<1>4. CASE ~Reviewing(c)
  BY <1>1, <1>4, EndsKeeps DEF MarkValidationFailed
<1> QED
  BY <1>3, <1>4

LEMMA CancelKeeps ==
  ASSUME ImportInv, NEW i \in Import, Cancel(i)
  PROVE  Keeps
<1> DEFINE r == imports[i]
           n == [r EXCEPT !.status = "cancelled", !.draft = None, !.lease = "none", !.decision = <<"cancel", None, r.version>>]
<1>0. Shapes /\ RecordsFit /\ CallsFit /\ Known /\ Spent
  BY DEF ImportInv, Base
<1>1. r # None /\ r.status \in Cancellable /\ Save(i, n) /\ UNCHANGED <<sources, project, calls, mishaps>>
  BY DEF Cancel
<1>2. r \in ImportRecord /\ Fits(r)
  BY <1>0, <1>1 DEF Shapes, RecordsFit
<1>3. <<"cancel", None, r.version>> \in Decisions
  BY <1>2 DEF Decisions, ImportRecord
<1>4. n = [[[[r EXCEPT !.status = "cancelled"] EXCEPT !.draft = None] EXCEPT !.lease = "none"]
             EXCEPT !.decision = <<"cancel", None, r.version>>]
  BY <1>2 DEF ImportRecord
<1> HIDE DEF n
<1>5. /\ n \in ImportRecord /\ n.status = "cancelled" /\ n.draft = None /\ n.lease = "none" /\ n.attempt = r.attempt
      /\ n.decision = <<"cancel", None, r.version>>
  BY <1>2, <1>3, <1>4 DEF ImportRecord, Statuses
<1>6. Fits(n)
  BY <1>3, <1>5, Nothing DEF Fits, Standing
<1>7. /\ imports' \in [Import -> ImportRecord \union {None}] /\ RecordsFit'
      /\ \A j \in Import : j # i => imports'[j] = imports[j]
      /\ imports'[i] # None /\ imports'[i].status = "cancelled" /\ imports'[i].attempt = r.attempt
  BY <1>0, <1>1, <1>5, <1>6, Saved
<1>8. Shapes' /\ CallsFit'
  BY <1>0, <1>1, <1>7 DEF Shapes, CallsFit
<1>9. Known'
  BY <1>0, <1>1, <1>7 DEF Known, CallsFit, Carries
<1>10. Spent'
  BY <1>0, <1>1, <1>7 DEF Spent
<1>11. Quiet
  BY <1>1, <1>7 DEF Quiet, Cancellable, Standing, Statuses
<1> QED
  BY <1>1, <1>7, <1>8, <1>9, <1>10, <1>11 DEF Keeps, Base

LEMMA ConfirmKeeps ==
  ASSUME ImportInv, NEW c \in Call, NEW i \in Import, NEW cl \in Client, Confirm(c, i, cl)
  PROVE  Keeps
<1>0. Shapes /\ RecordsFit /\ CallsFit /\ Known
  BY DEF ImportInv, Base
<1>1. imports[i] # None /\ imports[i] \in ImportRecord /\ Fits(imports[i]) /\ sources[i] # None
  BY <1>0 DEF Confirm, Shapes, RecordsFit, Known
<1>2. PICK v \in {imports[i].version} \union {w \in 0 .. imports[i].version : imports[i].decision = <<"confirm", cl, w>>} :
        calls' = [calls EXCEPT ![c] = [Idle EXCEPT !.at = "preflight", !.import = i, !.client = cl, !.version = v,
                                                   !.draft = imports[i].draft]]
  BY DEF Confirm
<1>3. v \in Nat /\ imports[i].draft \in Drafts \union {None}
  BY <1>1 DEF ImportRecord
<1> DEFINE k == [Idle EXCEPT !.at = "preflight", !.import = i, !.client = cl, !.version = v, !.draft = imports[i].draft]
<1>4. k \in CallRecord /\ Carries(k) /\ k.at = "preflight" /\ k.import = i
  BY <1>3 DEF Idle, CallRecord, CallSteps, Carries, WithText, WithDraft
<1>5. calls' = [calls EXCEPT ![c] = k] /\ UNCHANGED <<sources, imports, project, mishaps>>
  BY <1>2 DEF Confirm, ReadOnly
<1> HIDE DEF k
<1>6. /\ calls' \in [Call -> CallRecord] /\ CallsFit' /\ calls'[c].at = "preflight" /\ calls'[c].import = i
      /\ \A e \in Call : e # c => calls'[e] = calls[e]
  BY <1>0, <1>4, <1>5, Replaced
<1>7. calls[c].at \notin Works3
  BY DEF Confirm, Idle, Works3
<1> QED
  BY <1>0, <1>1, <1>5, <1>6, <1>7, CallMoves DEF Shapes

LEMMA PreflightKeeps ==
  ASSUME ImportInv, NEW c \in Call, Preflight(c)
  PROVE  Keeps
<1>1. calls[c].at = "preflight" /\ calls[c].at \notin Works3 /\ UNCHANGED <<sources, imports, project, mishaps>>
  BY DEF Preflight, ReadOnly, Works3
<1>2. CASE Ends(c)
  BY <1>1, <1>2, EndsKeeps
<1>3. CASE Goes(c, "decide")
  <2>1. "decide" \in CallSteps \ (WithText \union WithDraft)
    BY DEF CallSteps, WithText, WithDraft
  <2> QED
    BY <1>1, <1>3, <2>1, GoesKeeps
<1> QED
  BY <1>2, <1>3 DEF Preflight

LEMMA ReloadKeeps ==
  ASSUME ImportInv, NEW c \in Call, Reload(c)
  PROVE  Keeps
<1>1. calls[c].at = "conflict" /\ calls[c].at \notin Works3 /\ UNCHANGED <<sources, imports, project, mishaps>> /\ Ends(c)
  BY DEF Reload, ReadOnly, Works3
<1> QED
  BY <1>1, EndsKeeps

LEMMA ClaimConfirmationKeeps ==
  ASSUME ImportInv, NEW c \in Call, ClaimConfirmation(c)
  PROVE  Keeps
<1> DEFINE r == Record(c)
           n == [r EXCEPT !.status = "confirmed", !.decision = Mine(c)]
<1>1. calls[c].at = "decide" /\ UNCHANGED <<sources, project, mishaps>> /\ calls[c].at \notin Works3
  BY DEF ClaimConfirmation, Works3
<1>2. r \in ImportRecord /\ Fits(r) /\ calls[c] \in CallRecord
  BY <1>1, Found
<1>3. {"start", "conflict"} \subseteq CallSteps \ (WithText \union WithDraft)
  BY DEF CallSteps, WithText, WithDraft
<1>4. \/ UNCHANGED imports /\ Goes(c, "start")
      \/ r.status = "needs_review" /\ Save(calls[c].import, n) /\ Goes(c, "start")
      \/ UNCHANGED imports /\ Goes(c, "conflict")
      \/ UNCHANGED imports /\ Ends(c)
  BY DEF ClaimConfirmation
<1>5. CASE UNCHANGED imports /\ Goes(c, "start")
  BY <1>1, <1>3, <1>5, GoesKeeps
<1>6. CASE UNCHANGED imports /\ Goes(c, "conflict")
  BY <1>1, <1>3, <1>6, GoesKeeps
<1>7. CASE UNCHANGED imports /\ Ends(c)
  BY <1>1, <1>7, EndsKeeps
<1>8. CASE r.status = "needs_review" /\ Save(calls[c].import, n) /\ Goes(c, "start")
  <2>1. Mine(c) \in Decisions /\ Mine(c)[1] = "confirm"
    BY <1>2 DEF Mine, Decisions, CallRecord
  <2>2. /\ n \in ImportRecord /\ n.status = "confirmed" /\ n.draft = r.draft /\ n.lease = r.lease
        /\ n.attempt = r.attempt /\ n.decision = Mine(c)
    BY <1>2, <2>1 DEF ImportRecord, Statuses
  <2> HIDE DEF n
  <2>3. r.decision = None
    BY <1>2, <1>8 DEF Fits
  <2>4. Fits(n)
    BY <1>2, <1>8, <2>1, <2>2, Nothing DEF Fits, Standing
  <2>5. r.status \in Standing => n.draft = r.draft /\ r.decision \in {None, n.decision}
    BY <2>2, <2>3
  <2> HIDE DEF r
  <2> QED
    BY <1>1, <1>3, <1>8, <2>2, <2>4, <2>5, StatusMoves DEF r
<1> QED
  BY <1>4, <1>5, <1>6, <1>7, <1>8

LEMMA ClaimImportKeeps ==
  ASSUME ImportInv, NEW c \in Call, ClaimImport(c)
  PROVE  Keeps
<1> DEFINE r == Record(c)
           n == [r EXCEPT !.status = "importing"]
<1>1. calls[c].at = "start" /\ UNCHANGED <<sources, project, mishaps>> /\ calls[c].at \notin Works3
  BY DEF ClaimImport, Works3
<1>2. r \in ImportRecord /\ Fits(r)
  BY <1>1, Found
<1>3. {"commit", "conflict"} \subseteq CallSteps \ (WithText \union WithDraft)
  BY DEF CallSteps, WithText, WithDraft
<1>4. \/ r.status \in Startable /\ Save(calls[c].import, n) /\ Goes(c, "commit")
      \/ UNCHANGED imports /\ Goes(c, "commit")
      \/ UNCHANGED imports /\ Goes(c, "conflict")
      \/ UNCHANGED imports /\ Ends(c)
  BY DEF ClaimImport
<1>5. CASE UNCHANGED imports /\ Goes(c, "commit")
  BY <1>1, <1>3, <1>5, GoesKeeps
<1>6. CASE UNCHANGED imports /\ Goes(c, "conflict")
  BY <1>1, <1>3, <1>6, GoesKeeps
<1>7. CASE UNCHANGED imports /\ Ends(c)
  BY <1>1, <1>7, EndsKeeps
<1>8. CASE r.status \in Startable /\ Save(calls[c].import, n) /\ Goes(c, "commit")
  <2>1. /\ n \in ImportRecord /\ n.status = "importing" /\ n.draft = r.draft /\ n.lease = r.lease
        /\ n.attempt = r.attempt /\ n.decision = r.decision
    BY <1>2 DEF ImportRecord, Statuses
  <2> HIDE DEF n
  <2>2. Fits(n)
    BY <1>2, <1>8, <2>1 DEF Fits, Standing, Startable
  <2> QED
    BY <1>1, <1>3, <1>8, <2>1, <2>2, StatusMoves DEF Startable
<1> QED
  BY <1>4, <1>5, <1>6, <1>7, <1>8

LEMMA MarkImportFailedKeeps ==
  ASSUME ImportInv, NEW c \in Call, MarkImportFailed(c)
  PROVE  Keeps
<1> DEFINE r == Record(c)
           n == [r EXCEPT !.status = "import_failed"]
<1>1. calls[c].at = "failed" /\ UNCHANGED <<sources, project, mishaps>> /\ calls[c].at \notin Works3 /\ Ends(c)
  BY DEF MarkImportFailed, Works3
<1>2. r \in ImportRecord /\ Fits(r)
  BY <1>1, Found
<1>3. CASE r.status = "importing"
  <2>1. Save(calls[c].import, n)
    BY <1>3 DEF MarkImportFailed
  <2>2. /\ n \in ImportRecord /\ n.status = "import_failed" /\ n.draft = r.draft /\ n.lease = r.lease
        /\ n.attempt = r.attempt /\ n.decision = r.decision
    BY <1>2 DEF ImportRecord, Statuses
  <2> HIDE DEF n
  <2>3. Fits(n)
    BY <1>2, <1>3, <2>2 DEF Fits, Standing
  <2> QED
    BY <1>1, <1>3, <2>1, <2>2, <2>3, StatusMoves
<1>4. CASE r.status # "importing"
  BY <1>1, <1>4, EndsKeeps DEF MarkImportFailed
<1> QED
  BY <1>3, <1>4

\* A death or a failure pays for the attempt it may have left alone.
LEMMA MishapPays ==
  ASSUME Shapes, Spent, Mishap, \A j \in Import : imports'[j] # None =>
           imports[j] # None /\ imports'[j].attempt = imports[j].attempt
  PROVE  Spent' /\ mishaps' \in 0 .. MaxMishaps
<1>1. mishaps \in 0 .. MaxMishaps /\ mishaps' = mishaps + 1 /\ mishaps < MaxMishaps
  BY DEF Shapes, Mishap
<1>2. mishaps' \in 0 .. MaxMishaps
  BY <1>1, Numbers
<1>3. \A j \in Import : imports'[j] # None => imports'[j].attempt < MaxAttempts + mishaps'
  <2> SUFFICES ASSUME NEW j \in Import, imports'[j] # None
               PROVE  imports'[j].attempt < MaxAttempts + mishaps'
    OBVIOUS
  <2>1. imports[j].attempt <= MaxAttempts + mishaps
    BY DEF Spent
  <2>2. imports[j].attempt \in Nat
    BY DEF Shapes, ImportRecord
  <2> QED
    BY <1>1, <2>1, <2>2, Numbers
<1>4. \A j \in Import : imports'[j] # None => imports'[j].attempt <= MaxAttempts + mishaps'
  <2> SUFFICES ASSUME NEW j \in Import, imports'[j] # None
               PROVE  imports'[j].attempt <= MaxAttempts + mishaps'
    OBVIOUS
  <2>1. imports'[j].attempt \in Nat
    BY DEF Shapes, ImportRecord
  <2> QED
    BY <1>1, <1>3, <2>1, Numbers
<1> QED
  BY <1>2, <1>3, <1>4 DEF Spent

LEMMA DieKeeps ==
  ASSUME ImportInv, NEW c \in Call, Die(c)
  PROVE  Keeps
<1>0. Shapes /\ RecordsFit /\ CallsFit /\ Known /\ Spent
  BY DEF ImportInv, Base
<1>1. Mishap /\ Ends(c) /\ UNCHANGED <<sources, imports, project>>
  BY DEF Die
<1>2. /\ calls' \in [Call -> CallRecord] /\ CallsFit' /\ calls'[c].at = "idle"
      /\ \A e \in Call : e # c => calls'[e] = calls[e]
  BY <1>0, <1>1, Ended
<1>3. Spent' /\ mishaps' \in 0 .. MaxMishaps
  BY <1>0, <1>1, MishapPays
<1>4. Shapes' /\ RecordsFit'
  BY <1>0, <1>1, <1>2, <1>3 DEF Shapes, RecordsFit
<1>5. Known'
  BY <1>0, <1>1, <1>2, KnownKept
<1> QED
  BY <1>1, <1>2, <1>3, <1>4, <1>5 DEF Keeps, Base, Quiet

LEMMA CommitFailsKeeps ==
  ASSUME ImportInv, NEW c \in Call, CommitFails(c)
  PROVE  Keeps
<1>0. Shapes /\ RecordsFit /\ CallsFit /\ Known /\ Spent
  BY DEF ImportInv, Base
<1>1. calls[c].at = "commit" /\ Mishap /\ Goes(c, "failed") /\ UNCHANGED <<sources, imports, project>>
  BY DEF CommitFails
<1>2. /\ calls' \in [Call -> CallRecord] /\ CallsFit' /\ calls'[c].at = "failed" /\ calls'[c].import = calls[c].import
      /\ \A e \in Call : e # c => calls'[e] = calls[e]
  BY <1>0, <1>1, Went DEF CallSteps, WithText, WithDraft
<1>3. Spent' /\ mishaps' \in 0 .. MaxMishaps
  BY <1>0, <1>1, MishapPays
<1>4. Shapes' /\ RecordsFit'
  BY <1>0, <1>1, <1>2, <1>3 DEF Shapes, RecordsFit
<1>5. sources[calls[c].import] # None /\ imports[calls[c].import] # None
  BY <1>1, Found
<1>6. Known'
  BY <1>0, <1>1, <1>2, <1>5, KnownKept
<1> QED
  BY <1>1, <1>2, <1>3, <1>4, <1>6 DEF Keeps, Base, Quiet

LEMMA LeaseRunsOutKeeps ==
  ASSUME ImportInv, NEW i \in Import, LeaseRunsOut(i)
  PROVE  Keeps
<1> DEFINE r == imports[i]
           n == [r EXCEPT !.lease = "out"]
<1>0. Shapes /\ RecordsFit /\ CallsFit /\ Known /\ Spent
  BY DEF ImportInv, Base
<1>1. r # None /\ r.status = "extracting" /\ imports' = [imports EXCEPT ![i] = n] /\ UNCHANGED <<sources, project, calls>>
  BY <1>0 DEF LeaseRunsOut, Shapes
<1>2. r \in ImportRecord /\ Fits(r)
  BY <1>0, <1>1 DEF Shapes, RecordsFit
<1>3. /\ n \in ImportRecord /\ n.status = "extracting" /\ n.draft = r.draft /\ n.lease = "out"
      /\ n.attempt = r.attempt /\ n.decision = r.decision
  BY <1>1, <1>2 DEF ImportRecord
<1> HIDE DEF n
<1>4. Fits(n)
  BY <1>1, <1>2, <1>3 DEF Fits
<1>5. /\ imports' \in [Import -> ImportRecord \union {None}] /\ imports'[i] = n /\ n # None
      /\ \A j \in Import : j # i => imports'[j] = imports[j]
  BY <1>0, <1>1, <1>3, Nothing DEF Shapes
<1>6. Spent' /\ mishaps' \in 0 .. MaxMishaps
  <2>1. CASE Abandoned(i) /\ UNCHANGED mishaps
    <3>1. r.attempt < MaxAttempts + mishaps /\ r.attempt <= MaxAttempts + mishaps
      BY <1>0, <1>1, <2>1 DEF Spent, Abandoned, Works3
    <3> QED
      BY <1>0, <1>1, <1>3, <1>5, <2>1, <3>1 DEF Spent, Shapes
  <2>2. CASE Mishap
    BY <1>0, <1>1, <1>3, <1>5, <2>2, MishapPays
  <2> QED
    BY <2>1, <2>2 DEF LeaseRunsOut
<1>7. Shapes' /\ CallsFit'
  BY <1>0, <1>1, <1>5, <1>6 DEF Shapes, CallsFit
<1>8. RecordsFit'
  BY <1>0, <1>4, <1>5 DEF RecordsFit
<1>9. Known'
  BY <1>0, <1>1, <1>5 DEF Known, CallsFit, Carries
<1>10. Quiet
  BY <1>1, <1>3, <1>5 DEF Quiet, Standing
<1> QED
  BY <1>1, <1>6, <1>7, <1>8, <1>9, <1>10 DEF Keeps, Base

\* Every step of a call but the commit of an import.
LEMMA WorksKeep ==
  ASSUME ImportInv, NEW c \in Call, Works(c) \/ Die(c), ~Commit(c)
  PROVE  Keeps
BY PersistSourceKeeps, EnsureUploadedKeeps, ClaimExtractionKeeps, ClaimRetryKeeps, ExtractKeeps, StoreDraftKeeps,
   MarkExtractionFailedKeeps, StartValidationKeeps, FinishValidationKeeps, MarkValidationFailedKeeps, PreflightKeeps,
   ClaimConfirmationKeeps, ReloadKeeps, ClaimImportKeeps, CommitFailsKeeps, MarkImportFailedKeeps, DieKeeps
   DEF Works

\* A commit that goes through.
Imports(c) ==
  /\ calls[c].at = "commit" /\ Committing(c) /\ Additive(calls[c].draft, project)
  /\ project' = WithImport(project, calls[c].draft, calls[c].import)
  /\ Save(calls[c].import, [Record(c) EXCEPT !.status = "imported"])
  /\ Ends(c)
  /\ UNCHANGED <<sources, mishaps>>

LEMMA CommitSteps ==
  ASSUME ImportInv, NEW c \in Call, Commit(c)
  PROVE  Keeps \/ Imports(c)
<1>1. calls[c].at = "commit" /\ UNCHANGED <<sources, mishaps>> /\ calls[c].at \notin Works3
  BY DEF Commit, Works3
<1>2. CASE Goes(c, "failed") /\ UNCHANGED <<project, imports>>
  <2>1. "failed" \in CallSteps \ (WithText \union WithDraft)
    BY DEF CallSteps, WithText, WithDraft
  <2> QED
    BY <1>1, <1>2, <2>1, GoesKeeps
<1>3. CASE Ends(c) /\ UNCHANGED <<project, imports>>
  BY <1>1, <1>3, EndsKeeps
<1> QED
  BY <1>1, <1>2, <1>3 DEF Commit, Imports

\* What becomes of the records when a commit goes through.
LEMMA ImportsSaves ==
  ASSUME ImportInv, NEW c \in Call, Imports(c)
  PROVE  /\ Base' /\ Spent'
         /\ calls[c].import \in Import /\ imports[calls[c].import] # None
         /\ \A j \in Import : j # calls[c].import => imports'[j] = imports[j]
         /\ imports'[calls[c].import] # None /\ imports'[calls[c].import].status = "imported"
         /\ imports[calls[c].import].status = "importing"
         /\ imports[calls[c].import].draft = calls[c].draft /\ imports'[calls[c].import].draft = calls[c].draft
         /\ imports'[calls[c].import].decision = imports[calls[c].import].decision
         /\ calls[c].draft \in Drafts /\ Conflicts(calls[c].draft) = {}
<1> DEFINE i == calls[c].import
           r == Record(c)
           n == [r EXCEPT !.status = "imported"]
<1>1. /\ Shapes /\ RecordsFit /\ CallsFit /\ Known /\ i \in Import /\ r = imports[i]
      /\ r # None /\ r \in ImportRecord /\ Fits(r)
  BY Found DEF Imports
<1>2. r.status = "importing" /\ r.draft = calls[c].draft /\ Save(i, n) /\ Ends(c) /\ UNCHANGED <<sources, mishaps>>
  BY DEF Imports, Committing
<1>3. /\ n \in ImportRecord /\ n.status = "imported" /\ n.draft = r.draft /\ n.lease = r.lease
      /\ n.attempt = r.attempt /\ n.decision = r.decision
  BY <1>1 DEF ImportRecord, Statuses
<1> HIDE DEF n
<1>4. Fits(n)
  BY <1>1, <1>2, <1>3 DEF Fits, Standing
<1>5. /\ imports' \in [Import -> ImportRecord \union {None}] /\ RecordsFit'
      /\ \A j \in Import : j # i => imports'[j] = imports[j]
      /\ imports'[i] # None /\ imports'[i].status = "imported" /\ imports'[i].draft = r.draft
      /\ imports'[i].attempt = r.attempt /\ imports'[i].decision = r.decision
  BY <1>1, <1>2, <1>3, <1>4, Saved
<1>6. /\ calls' \in [Call -> CallRecord] /\ CallsFit' /\ calls'[c].at = "idle"
      /\ \A e \in Call : e # c => calls'[e] = calls[e]
  BY <1>1, <1>2, Ended
<1>7. Shapes'
  BY <1>1, <1>2, <1>5, <1>6 DEF Shapes
<1>8. Known'
  BY <1>1, <1>2, <1>5, <1>6, KnownKept
<1>9. Spent'
  <2>1. Spent /\ calls[c].at \notin Works3
    BY DEF ImportInv, Imports, Works3
  <2> QED
    BY <1>1, <1>2, <1>5, <1>6, <2>1, SpentStays
<1>10. calls[c].draft \in Drafts /\ Conflicts(calls[c].draft) = {}
  BY <1>1, <1>2 DEF Fits, Standing, ImportRecord
<1> QED
  BY <1>1, <1>2, <1>5, <1>6, <1>7, <1>8, <1>9, <1>10 DEF Base

----------------------------------------------------------------------------
(* An import is in the project whole or not at all. *)

\* What ImportedWhole says of one import.
Whole(i, r, p) ==
  LET whole == r # None /\ r.status = "imported" IN
  /\ Of(i, p.phases) = IF whole THEN ImportedPhases(r.draft, i) ELSE {}
  /\ Of(i, p.tasks) = IF whole THEN ImportedTasks(r.draft, i) \union ImportedMilestones(r.draft, i) ELSE {}
  /\ Of(i, p.materials) = IF whole THEN ImportedMaterials(r.draft, i) ELSE {}
  /\ Of(i, p.ledger) = IF whole THEN ImportedLedger(r.draft, i) ELSE {}
  /\ Of(i, p.needs) = IF whole THEN ImportedNeeds(r.draft, i) ELSE {}
  /\ whole => /\ EntityIds(r.draft, i) \subseteq p.provenance
              /\ WriteCount(r.draft) <= MaxWrites
              /\ \A t \in ImportedTasks(r.draft, i) : t.deps \subseteq {x.id : x \in p.tasks}

LEMMA WholeEach == ImportedWhole <=> \A i \in Import : Whole(i, imports[i], project)
BY DEF ImportedWhole, Whole

LEMMA WholeEachNext == ImportedWhole' <=> \A i \in Import : Whole(i, imports'[i], project')
BY DEF ImportedWhole, Whole

\* A record that is not imported may change as it likes.
LEMMA WholeKept ==
  ASSUME ImportedWhole, Quiet, project' = project
  PROVE  ImportedWhole'
<1> SUFFICES ASSUME NEW i \in Import
             PROVE  Whole(i, imports'[i], project')
  BY WholeEachNext
<1>1. Whole(i, imports[i], project)
  BY WholeEach
<1>2. CASE imports'[i] = imports[i]
  BY <1>1, <1>2
<1>3. CASE /\ imports'[i] # None /\ imports'[i].status # "imported"
           /\ imports[i] # None => imports[i].status # "imported"
  BY <1>1, <1>3 DEF Whole
<1> QED
  BY <1>2, <1>3 DEF Quiet

\* A commit brings all of its import, and nothing of another.
LEMMA ImportsWhole ==
  ASSUME ImportInv, NEW c \in Call, Imports(c)
  PROVE  ImportedWhole' /\ ProjectShape'
<1> DEFINE i == calls[c].import
           d == calls[c].draft
           p == project
           q == WithImport(p, d, i)
<1>0. project' = q
  BY DEF Imports
<1>1. /\ q.phases = p.phases \union ImportedPhases(d, i)
      /\ q.tasks = p.tasks \union (ImportedTasks(d, i) \union ImportedMilestones(d, i))
      /\ q.materials = p.materials \union ImportedMaterials(d, i) /\ q.ledger = p.ledger \union ImportedLedger(d, i)
      /\ q.needs = p.needs \union ImportedNeeds(d, i) /\ q.provenance = p.provenance \union Provenance(d, i)
  BY DEF WithImport
<1>2. ProjectShape'
  BY <1>0 DEF ProjectShape, WithImport
<1>3. /\ i \in Import /\ imports[i] # None /\ imports[i].status = "importing"
      /\ imports'[i] # None /\ imports'[i].status = "imported" /\ imports'[i].draft = d
      /\ d \in Drafts /\ Conflicts(d) = {} /\ \A j \in Import : j # i => imports'[j] = imports[j]
  BY ImportsSaves
<1>4. \A j \in Import : Whole(j, imports[j], p)
  BY WholeEach DEF ImportInv
<1>5. \A j \in Import :
        /\ Of(j, q.phases) = Of(j, p.phases) \union (IF j = i THEN ImportedPhases(d, i) ELSE {})
        /\ Of(j, q.tasks) = Of(j, p.tasks) \union (IF j = i THEN ImportedTasks(d, i) \union ImportedMilestones(d, i) ELSE {})
        /\ Of(j, q.materials) = Of(j, p.materials) \union (IF j = i THEN ImportedMaterials(d, i) ELSE {})
        /\ Of(j, q.ledger) = Of(j, p.ledger) \union (IF j = i THEN ImportedLedger(d, i) ELSE {})
        /\ Of(j, q.needs) = Of(j, p.needs) \union (IF j = i THEN ImportedNeeds(d, i) ELSE {})
  <2> SUFFICES ASSUME NEW j \in Import
               PROVE  /\ Of(j, q.phases) = Of(j, p.phases) \union (IF j = i THEN ImportedPhases(d, i) ELSE {})
                      /\ Of(j, q.tasks) = Of(j, p.tasks) \union (IF j = i THEN ImportedTasks(d, i) \union ImportedMilestones(d, i) ELSE {})
                      /\ Of(j, q.materials) = Of(j, p.materials) \union (IF j = i THEN ImportedMaterials(d, i) ELSE {})
                      /\ Of(j, q.ledger) = Of(j, p.ledger) \union (IF j = i THEN ImportedLedger(d, i) ELSE {})
                      /\ Of(j, q.needs) = Of(j, p.needs) \union (IF j = i THEN ImportedNeeds(d, i) ELSE {})
    OBVIOUS
  <2>1. /\ Of(j, ImportedPhases(d, i)) = IF j = i THEN ImportedPhases(d, i) ELSE {}
        /\ Of(j, ImportedTasks(d, i) \union ImportedMilestones(d, i))
             = IF j = i THEN ImportedTasks(d, i) \union ImportedMilestones(d, i) ELSE {}
        /\ Of(j, ImportedMaterials(d, i)) = IF j = i THEN ImportedMaterials(d, i) ELSE {}
        /\ Of(j, ImportedLedger(d, i)) = IF j = i THEN ImportedLedger(d, i) ELSE {}
        /\ Of(j, ImportedNeeds(d, i)) = IF j = i THEN ImportedNeeds(d, i) ELSE {}
    BY BroughtByImport
  <2>2. /\ Of(j, q.phases) = Of(j, p.phases) \union Of(j, ImportedPhases(d, i))
        /\ Of(j, q.tasks) = Of(j, p.tasks) \union Of(j, ImportedTasks(d, i) \union ImportedMilestones(d, i))
        /\ Of(j, q.materials) = Of(j, p.materials) \union Of(j, ImportedMaterials(d, i))
        /\ Of(j, q.ledger) = Of(j, p.ledger) \union Of(j, ImportedLedger(d, i))
        /\ Of(j, q.needs) = Of(j, p.needs) \union Of(j, ImportedNeeds(d, i))
    <3> HIDE DEF q
    <3> USE DEF Of
    <3>1. Of(j, q.phases) = Of(j, p.phases) \union Of(j, ImportedPhases(d, i))
      BY <1>1
    <3>2. Of(j, q.tasks) = Of(j, p.tasks) \union Of(j, ImportedTasks(d, i) \union ImportedMilestones(d, i))
      BY <1>1
    <3>3. Of(j, q.materials) = Of(j, p.materials) \union Of(j, ImportedMaterials(d, i))
      BY <1>1
    <3>4. Of(j, q.ledger) = Of(j, p.ledger) \union Of(j, ImportedLedger(d, i))
      BY <1>1
    <3>5. Of(j, q.needs) = Of(j, p.needs) \union Of(j, ImportedNeeds(d, i))
      BY <1>1
    <3> QED
      BY <3>1, <3>2, <3>3, <3>4, <3>5
  <2> HIDE DEF q
  <2> QED
    BY <2>1, <2>2
<1> HIDE DEF q
<1>6. ASSUME NEW j \in Import, j # i
      PROVE  Whole(j, imports'[j], q)
  <2>1. Whole(j, imports[j], p) /\ imports'[j] = imports[j]
    BY <1>3, <1>4, <1>6
  <2>2. /\ Of(j, q.phases) = Of(j, p.phases) /\ Of(j, q.tasks) = Of(j, p.tasks) /\ Of(j, q.materials) = Of(j, p.materials)
        /\ Of(j, q.ledger) = Of(j, p.ledger) /\ Of(j, q.needs) = Of(j, p.needs)
    <3>1. \A s, t : s \union (IF j = i THEN t ELSE {}) = s
      BY <1>6
    <3> HIDE DEF p, i, d
    <3>2. Of(j, q.phases) = Of(j, p.phases) /\ Of(j, q.tasks) = Of(j, p.tasks)
      BY <1>5, <3>1, ZenonT(60)
    <3>3. Of(j, q.materials) = Of(j, p.materials) /\ Of(j, q.ledger) = Of(j, p.ledger)
      BY <1>5, <3>1, ZenonT(60)
    <3>4. Of(j, q.needs) = Of(j, p.needs)
      BY <1>5, <3>1, ZenonT(60)
    <3> QED BY <3>2, <3>3, <3>4
  <2>3. p.provenance \subseteq q.provenance /\ {x.id : x \in p.tasks} \subseteq {x.id : x \in q.tasks}
    BY <1>1
  <2> QED
    BY <2>1, <2>2, <2>3 DEF Whole
<1>7. Whole(i, imports'[i], q)
  <2>1. Whole(i, imports[i], p)
    BY <1>3, <1>4
  <2>2. /\ Of(i, p.phases) = {} /\ Of(i, p.tasks) = {} /\ Of(i, p.materials) = {}
        /\ Of(i, p.ledger) = {} /\ Of(i, p.needs) = {}
    BY <1>3, <2>1 DEF Whole
  <2>3. /\ Of(i, q.phases) = ImportedPhases(d, i) /\ Of(i, q.tasks) = ImportedTasks(d, i) \union ImportedMilestones(d, i)
        /\ Of(i, q.materials) = ImportedMaterials(d, i) /\ Of(i, q.ledger) = ImportedLedger(d, i)
        /\ Of(i, q.needs) = ImportedNeeds(d, i)
    BY <1>3, <1>5, <2>2, ZenonT(60)
  <2>4. EntityIds(d, i) \subseteq q.provenance
    BY <1>1 DEF Provenance
  <2>5. WriteCount(d) <= MaxWrites
    BY <1>3, SoundDraft
  <2>6. \A t \in ImportedTasks(d, i) : t.deps \subseteq {x.id : x \in q.tasks}
    <3>1. {x.id : x \in ImportedTasks(d, i)} \subseteq {x.id : x \in q.tasks}
      BY <1>1
    <3> QED
      BY <1>3, <3>1, PredecessorsBrought
  <2> QED
    BY <1>3, <2>3, <2>4, <2>5, <2>6 DEF Whole
<1> QED
  BY <1>0, <1>2, <1>6, <1>7, WholeEachNext

\* A material somebody creates is nobody's import.
LEMMA CreateMaterialKeeps ==
  ASSUME ImportInv, NEW name \in NewMaterial, CreateMaterial(name)
  PROVE  ImportInv' /\ UNCHANGED imports
<1>1. UNCHANGED <<sources, imports, calls, mishaps>>
  BY DEF CreateMaterial
<1>2. Base' /\ Spent'
  BY <1>1 DEF ImportInv, Base, Shapes, RecordsFit, CallsFit, Known, Spent
<1> DEFINE new == {[id |-> <<"user", name>>, names |-> {MatchKey(name)}, unit |-> <<"bags", "canonical">>, available |-> 0]}
<1>3. project' = [project EXCEPT !.materials = project.materials \union new] /\ ProjectShape
  BY DEF CreateMaterial, ImportInv
<1>4. \A i \in Import : Of(i, new) = {}
  BY DEF Of
<1> HIDE DEF new
<1>5. /\ ProjectShape' /\ project'.materials = project.materials \union new
      /\ project'.phases = project.phases /\ project'.tasks = project.tasks /\ project'.ledger = project.ledger
      /\ project'.needs = project.needs /\ project'.provenance = project.provenance
  BY <1>3 DEF ProjectShape
<1>6. \A i \in Import : Of(i, project'.materials) = Of(i, project.materials)
  BY <1>4, <1>5 DEF Of
<1>7. ImportedWhole'
  BY <1>1, <1>5, <1>6 DEF ImportInv, ImportedWhole
<1> QED
  BY <1>1, <1>2, <1>5, <1>7 DEF ImportInv

----------------------------------------------------------------------------
(* The invariant holds initially and is kept. *)

LEMMA ReviewedIsCandidate == \A i \in Import : Reviewed[i] # None => Reviewed[i] \in Candidates
BY DEF Candidates

LEMMA ImportInitial ==
  ASSUME Init
  PROVE  ImportInv
<1> DEFINE R(i) == [Uploaded EXCEPT !.status = "needs_review", !.version = 4, !.attempt = 1, !.draft = Normalize(Reviewed[i])]
<1>1. ASSUME NEW i \in Import, Reviewed[i] # None
      PROVE  /\ R(i) \in ImportRecord /\ R(i).status = "needs_review" /\ R(i).attempt = 1 /\ Fits(R(i))
  <2>1. Reviewed[i] \in Candidates
    BY <1>1, ReviewedIsCandidate
  <2>2. Normalize(Reviewed[i]) \in Drafts /\ Normalize(Reviewed[i]) # None /\ Conflicts(Normalize(Reviewed[i])) = {}
    BY <1>1, <2>1, NormalizeIsDraft, ImportAssumption
  <2> DEFINE d == Normalize(Reviewed[i])
  <2> HIDE DEF d
  <2>3. R(i) = [[[[Uploaded EXCEPT !.status = "needs_review"] EXCEPT !.version = 4] EXCEPT !.attempt = 1] EXCEPT !.draft = d]
    BY DEF Uploaded, d
  <2>4. d \in Drafts /\ d # None /\ Conflicts(d) = {}
    BY <2>2 DEF d
  <2>5. Uploaded \in ImportRecord /\ Uploaded.lease = "none" /\ Uploaded.decision = None
    BY DEF Uploaded, ImportRecord, Statuses
  <2> HIDE DEF R
  <2>6. /\ R(i) \in ImportRecord /\ R(i).status = "needs_review" /\ R(i).attempt = 1 /\ R(i).draft = d
        /\ R(i).lease = "none" /\ R(i).decision = None
    <3> DEFINE u == [Uploaded EXCEPT !.status = "needs_review"]
               v == [u EXCEPT !.version = 4]
               w == [v EXCEPT !.attempt = 1]
    <3>1. u \in ImportRecord /\ u.status = "needs_review" /\ u.lease = "none" /\ u.decision = None
      BY <2>5 DEF ImportRecord, Statuses
    <3> HIDE DEF u
    <3>2. v \in ImportRecord /\ v.status = "needs_review" /\ v.lease = "none" /\ v.decision = None
      BY <3>1 DEF ImportRecord
    <3> HIDE DEF v
    <3>3. w \in ImportRecord /\ w.status = "needs_review" /\ w.lease = "none" /\ w.decision = None /\ w.attempt = 1
      BY <3>2 DEF ImportRecord
    <3>4. R(i) = [w EXCEPT !.draft = d]
      BY <2>3 DEF u, v
    <3> HIDE DEF w
    <3> QED
      BY <2>4, <3>3, <3>4 DEF ImportRecord
  <2> QED
    BY <2>4, <2>6 DEF Fits, Standing
<1>2. imports = [i \in Import |-> IF Reviewed[i] = None THEN None ELSE R(i)]
  BY DEF Init
<1> HIDE DEF R
<1>3. /\ imports \in [Import -> ImportRecord \union {None}]
      /\ \A i \in Import : imports[i] # None => Reviewed[i] # None /\ imports[i] = R(i)
  BY <1>1, <1>2
<1>4. sources \in [Import -> Texts \union {None}] /\ \A i \in Import : Reviewed[i] # None => sources[i] # None
  <2> DEFINE T(i) == CHOOSE t \in Text[i] : TRUE
  <2>1. \A i \in Import : T(i) \in Text[i]
    BY ImportAssumption
  <2>2. \A i \in Import : T(i) \in Texts /\ T(i) # None
    BY <2>1, Nothing DEF Texts
  <2>3. sources = [i \in Import |-> IF Reviewed[i] = None THEN None ELSE T(i)]
    BY DEF Init
  <2> HIDE DEF T
  <2> QED
    BY <2>2, <2>3
<1>5. calls \in [Call -> CallRecord] /\ \A c \in Call : calls[c].at = "idle" /\ Carries(calls[c])
  BY DEF Init, Idle, CallRecord, CallSteps, Carries, WithText, WithDraft
<1>6. mishaps = 0 /\ mishaps \in 0 .. MaxMishaps
  <2>1. mishaps = 0
    BY DEF Init
  <2> QED
    BY <2>1, Numbers
<1>7. Base
  BY <1>1, <1>3, <1>4, <1>5, <1>6 DEF Base, Shapes, RecordsFit, CallsFit, Known
<1>8. Spent
  BY <1>1, <1>3, <1>6, Numbers DEF Spent
<1>9. ProjectShape
  BY DEF Init, ProjectShape
<1>10. ImportedWhole
  <2>1. /\ project.phases = {} /\ project.tasks = {} /\ project.materials = {} /\ project.ledger = {} /\ project.needs = {}
    BY DEF Init
  <2>2. \A i \in Import : ~(imports[i] # None /\ imports[i].status = "imported")
    BY <1>1, <1>3
  <2> QED
    BY <2>1, <2>2 DEF ImportedWhole, Of
<1> QED
  BY <1>7, <1>8, <1>9, <1>10 DEF ImportInv

\* Every step keeps the records, brings an import in, or creates a material.
LEMMA ImportSteps ==
  ASSUME ImportInv, Next
  PROVE  \/ Keeps
         \/ \E c \in Call : Imports(c)
         \/ \E name \in NewMaterial : CreateMaterial(name)
<1>1. CASE \E c \in Call : Works(c) \/ Die(c)
  BY <1>1, WorksKeep, CommitSteps
<1>2. CASE \E c \in Call, i \in Import : \E t \in Text[i] : Post(c, i, t)
  BY <1>2, PostKeeps
<1>3. CASE \E c \in Call, i \in Import : Retry(c, i)
  BY <1>3, RetryKeeps
<1>4. CASE \E c \in Call, i \in Import, cl \in Client : Confirm(c, i, cl)
  BY <1>4, ConfirmKeeps
<1>5. CASE \E i \in Import : Cancel(i) \/ LeaseRunsOut(i)
  BY <1>5, CancelKeeps, LeaseRunsOutKeeps
<1> QED
  BY <1>1, <1>2, <1>3, <1>4, <1>5 DEF Next

LEMMA ImportStep ==
  ASSUME ImportInv, [Next]_vars
  PROVE  ImportInv'
<1>1. CASE UNCHANGED vars
  BY <1>1 DEF vars, ImportInv, Base, Shapes, RecordsFit, CallsFit, Known, Spent, ProjectShape, ImportedWhole
<1>2. CASE Keeps
  <2>1. ImportedWhole'
    BY <1>2, WholeKept DEF Keeps, ImportInv
  <2>2. ProjectShape'
    BY <1>2 DEF Keeps, ProjectShape, ImportInv
  <2> QED
    BY <1>2, <2>1, <2>2 DEF Keeps, ImportInv
<1>3. CASE \E c \in Call : Imports(c)
  BY <1>3, ImportsSaves, ImportsWhole DEF ImportInv
<1>4. CASE \E name \in NewMaterial : CreateMaterial(name)
  BY <1>4, CreateMaterialKeeps
<1> QED
  BY <1>1, <1>2, <1>3, <1>4, ImportSteps

\* The inductive invariant holds throughout: what records, calls and the project may look like.
THEOREM ImportInvariance == Spec => []ImportInv
BY ImportInitial, ImportStep, PTL DEF Spec

----------------------------------------------------------------------------
(* What follows from it. *)

LEMMA ImportTyped ==
  ASSUME ImportInv
  PROVE  TypeOK
<1>1. sources \in [Import -> Texts \union {None}] /\ mishaps \in 0 .. MaxMishaps
  BY DEF ImportInv, Base, Shapes
<1>2. ASSUME NEW i \in Import, imports[i] # None
      PROVE  /\ sources[i] # None
             /\ imports[i].status \in Statuses /\ imports[i].attempt \in 0 .. (MaxAttempts + MaxMishaps)
             /\ Fits(imports[i])
             /\ imports[i].status \in Standing => imports[i].draft.conflicts = {}
  <2>1. imports[i] \in ImportRecord /\ Fits(imports[i]) /\ sources[i] # None
    BY <1>2 DEF ImportInv, Base, Shapes, RecordsFit, Known
  <2>2. imports[i].attempt \in Nat /\ imports[i].attempt <= MaxAttempts + mishaps
    BY <1>2, <2>1 DEF ImportInv, Spent, ImportRecord
  <2>3. imports[i].attempt \in 0 .. (MaxAttempts + MaxMishaps)
    BY <1>1, <2>2, Numbers
  <2>4. imports[i].status \in Standing => imports[i].draft.conflicts = {}
    BY <2>1 DEF Fits, Conflicts
  <2> QED
    BY <2>1, <2>3, <2>4 DEF ImportRecord
<1> QED
  BY <1>1, <1>2 DEF TypeOK, Fits, Standing

\* The fields of every import fit its status, its extractions are no more than were asked for and
\* lost, and what stands after a review has no conflicts (transitions of ProjectImportStatus,
\* _claim_extraction_or_replay, _finish_validation).
THEOREM ImportTypeCorrect == Spec => []TypeOK
BY ImportInvariance, ImportTyped, PTL

\* No crash, retry, cancellation or second import leaves a part of an import in the project, and an
\* imported one is there with its provenance, its opening stock and all its predecessors, in one
\* transaction of legal size (_commit_import).
THEOREM ImportedWholeOrNot == Spec => []ImportedWhole
<1>1. ImportInv => ImportedWhole
  BY DEF ImportInv
<1> QED
  BY <1>1, ImportInvariance, PTL

LEMMA AddsOnlyStep ==
  ASSUME ImportInv, [Next]_vars, NEW i \in Import,
         imports[i] # None, imports'[i].status = "imported", imports[i].status # "imported"
  PROVE  /\ project.tasks \subseteq project'.tasks /\ project.materials \subseteq project'.materials
         /\ \A t \in project.tasks, n \in project'.tasks \ project.tasks : MatchKey(t.name) # MatchKey(n.name)
         /\ \A f \in project.phases, n \in project'.phases \ project.phases : MatchKey(f.name) # MatchKey(n.name)
         /\ \A m \in project.materials, n \in project'.materials \ project.materials : m.names \intersect n.names = {}
<1>1. PICK c \in Call : Imports(c)
  <2>1. ~(UNCHANGED vars)
    BY DEF vars
  <2>2. ~Keeps
    BY DEF Keeps, Quiet
  <2>3. ~(\E name \in NewMaterial : CreateMaterial(name))
    BY DEF CreateMaterial
  <2> QED
    BY <2>1, <2>2, <2>3, ImportSteps
<1> DEFINE d == calls[c].draft
           j == calls[c].import
           p == project
<1>2. Additive(d, p) /\ project' = WithImport(p, d, j)
  BY <1>1 DEF Imports
<1>3. /\ project'.tasks = p.tasks \union (ImportedTasks(d, j) \union ImportedMilestones(d, j))
      /\ project'.phases = p.phases \union ImportedPhases(d, j)
      /\ project'.materials = p.materials \union ImportedMaterials(d, j)
  BY <1>2 DEF WithImport
<1>4. \A n \in ImportedTasks(d, j) \union ImportedMilestones(d, j) :
        \E x \in ToSet(d.tasks) \union ToSet(d.milestones) : n.name = x.name
  BY DEF ImportedTasks, ImportedMilestones
<1>5. \A n \in ImportedPhases(d, j) : \E x \in ToSet(d.phases) : n.name = x.name
  BY DEF ImportedPhases
<1>6. \A n \in ImportedMaterials(d, j) : \E x \in ToSet(d.materials) : n.names = {MatchKey(x.name)}
  BY DEF ImportedMaterials
<1> HIDE DEF d, j, p
<1>7. /\ \A x \in ToSet(d.tasks) \union ToSet(d.milestones), t \in p.tasks : MatchKey(t.name) # MatchKey(x.name)
      /\ \A x \in ToSet(d.phases), f \in p.phases : MatchKey(f.name) # MatchKey(x.name)
      /\ \A x \in ToSet(d.materials), m \in p.materials : MatchKey(x.name) \notin m.names
  BY <1>2, AdditiveIsNew
<1>8. \A t \in p.tasks, n \in project'.tasks \ p.tasks : MatchKey(t.name) # MatchKey(n.name)
  BY <1>3, <1>4, <1>7
<1>9. \A f \in p.phases, n \in project'.phases \ p.phases : MatchKey(f.name) # MatchKey(n.name)
  BY <1>3, <1>5, <1>7
<1>10. \A m \in p.materials, n \in project'.materials \ p.materials : m.names \intersect n.names = {}
  BY <1>3, <1>6, <1>7
<1> QED
  BY <1>3, <1>8, <1>9, <1>10 DEF p

\* However long ago an import was reviewed and whatever came since, it changes nothing that was there
\* and brings no second task, phase or material of a name (blocking_conflicts in the commit).
THEOREM ImportsOnlyAdd == Spec => AddsOnly
<1>1. ImportInv /\ [Next]_vars =>
        [\A i \in Import :
           imports[i] # None /\ imports'[i].status = "imported" /\ imports[i].status # "imported" =>
             /\ project.tasks \subseteq project'.tasks /\ project.materials \subseteq project'.materials
             /\ \A t \in project.tasks, n \in project'.tasks \ project.tasks : MatchKey(t.name) # MatchKey(n.name)
             /\ \A f \in project.phases, n \in project'.phases \ project.phases : MatchKey(f.name) # MatchKey(n.name)
             /\ \A m \in project.materials, n \in project'.materials \ project.materials : m.names \intersect n.names = {}]_vars
  BY AddsOnlyStep
<1> QED
  BY <1>1, ImportInvariance, PTL DEF Spec, AddsOnly

LEMMA ReviewStandsStep ==
  ASSUME ImportInv, [Next]_vars, NEW i \in Import, imports[i] # None, imports[i].status \in Standing
  PROVE  \/ imports'[i].draft = imports[i].draft /\ imports[i].decision \in {None, imports'[i].decision}
         \/ imports'[i].status = "cancelled" /\ imports[i].status \in {"needs_review", "import_failed"}
<1>1. CASE UNCHANGED imports
  BY <1>1
<1>2. CASE Keeps
  BY <1>2 DEF Keeps, Quiet
<1>3. CASE \E c \in Call : Imports(c)
  BY <1>3, ImportsSaves
<1>4. CASE \E name \in NewMaterial : CreateMaterial(name)
  BY <1>4, <1>1 DEF CreateMaterial
<1> QED
  BY <1>1, <1>2, <1>3, <1>4, ImportSteps DEF vars

\* What was reviewed is what is confirmed, and what was confirmed is what is imported: no late answer of
\* the language model and no other manager replaces the draft or the decision (_store_draft,
\* _claim_confirmation, _commit_import).
THEOREM ReviewedIsImported == Spec => ReviewStands
<1>1. ImportInv /\ [Next]_vars =>
        [\A i \in Import :
           imports[i] # None /\ imports[i].status \in {"needs_review", "confirmed", "importing", "imported", "import_failed"} =>
             \/ imports'[i].draft = imports[i].draft /\ imports[i].decision \in {None, imports'[i].decision}
             \/ imports'[i].status = "cancelled" /\ imports[i].status \in {"needs_review", "import_failed"}]_vars
  BY ReviewStandsStep DEF Standing
<1> QED
  BY <1>1, ImportInvariance, PTL DEF Spec, ReviewStands
=============================================================================
