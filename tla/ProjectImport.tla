--------------------------- MODULE ProjectImport ---------------------------
(***************************************************************************)
(* The life of a project import (app/services/project_import_review.py,    *)
(* project_import.py, project_sources.py, app/api/v1/imports.py): a source *)
(* is stored, a language model reads a draft out of it, the draft is       *)
(* validated, a manager confirms or cancels it, and a confirmed draft      *)
(* becomes records of the project in one transaction.                      *)
(*                                                                         *)
(* A call is one request on its way through the services; every action is  *)
(* one transaction, or the answer of the language model.  Calls overlap,   *)
(* fail, die between any two steps or outlive the lease of their           *)
(* extraction (MaxMishaps in all), and are sent again.  The time of a lease *)
(* is abstracted to whether it has run out.  Every change of a record also *)
(* writes an activity under a key of its own; activities are left out.     *)
(***************************************************************************)
EXTENDS ImportPlan

CONSTANTS
  Import,       \* import ids: one per idempotency key of POST /imports, as is its source
  Call, Client, \* requests in flight; managers, each with a decision key per import
  Text,         \* Text[i]: the texts that are sent for import i
  Answers,      \* Answers[t]: the candidates the language model may read out of text t
  Reviewed,     \* Reviewed[i]: the draft of import i that is under review already, or None
  NewMaterial,  \* names of the materials people create meanwhile
  MaxAttempts, MaxMishaps, \* extractions of an import that are asked for; failures, deaths and late answers
  MaxVersion    \* a failed import is started again up to this version of its record

Statuses == {"uploaded", "extracting", "draft", "validating", "needs_review", "confirmed", "importing",
             "imported", "extraction_failed", "validation_failed", "import_failed", "cancelled"}

\* The drafts there may be: what was read and normalised, field by field, with what was found in it.
Texts == UNION {Text[i] : i \in Import}
Candidates == (UNION {Answers[t] : t \in Texts}) \union ({Reviewed[i] : i \in Import} \ {None})
Drafts ==
  [title : {d.title : d \in Candidates}, phases : {d.phases : d \in Candidates}, tasks : {d.tasks : d \in Candidates},
   deps : {d.deps : d \in Candidates}, materials : {Normalize(d).materials : d \in Candidates},
   needs : {Normalize(d).needs : d \in Candidates}, milestones : {d.milestones : d \in Candidates},
   conflicts : SUBSET Codes]

\* A decision on an import: what was decided, by whom, on the version they saw.
Decisions == {"confirm", "cancel"} \X (Client \union {None}) \X (Nat \union {None})

ImportRecord ==
  [status : Statuses, version : Nat, draft : Drafts \union {None}, attempt : Nat,
   lease : {"none", "live", "out"}, decision : Decisions \union {None}]

\* The language model answers with drafts that have no conflicts yet; what is under review has passed it.
ASSUME ImportAssumption ==
  /\ {MaxAttempts, MaxMishaps, MaxVersion} \subseteq Nat /\ MaxAttempts > 0
  /\ \A i \in Import : Text[i] # {} /\ None \notin Text[i]
  /\ \A d \in Candidates :
       /\ d = Draft(d.title, d.phases, d.tasks, d.deps, d.materials, d.needs, d.milestones)
       /\ \A items \in {d.phases, d.tasks, d.deps, d.materials, d.needs, d.milestones} : items \in Seq(ToSet(items))
  /\ \A i \in Import : Reviewed[i] # None => Conflicts(Normalize(Reviewed[i])) = {}
  /\ None \notin Drafts /\ None \notin Decisions /\ None \notin ImportRecord

VARIABLES
  sources,  \* sources[i]: the text stored for import i, or None
  imports,  \* imports[i]: the record of import i, or None
  project,  \* the canonical records of the project
  calls,    \* calls[c]: where the request of slot c stands
  mishaps   \* how many failures, deaths and late answers there were, bounded by MaxMishaps

vars == <<sources, imports, project, calls, mishaps>>

Idle == [at |-> "idle", import |-> None, client |-> None, version |-> None, attempt |-> 0, draft |-> None, text |-> None]

Uploaded == [status |-> "uploaded", version |-> 0, draft |-> None, attempt |-> 0, lease |-> "none", decision |-> None]

Init ==
  /\ sources = [i \in Import |-> IF Reviewed[i] = None THEN None ELSE CHOOSE t \in Text[i] : TRUE]
  /\ imports = [i \in Import |-> IF Reviewed[i] = None THEN None
                                 ELSE [Uploaded EXCEPT !.status = "needs_review", !.version = 4, !.attempt = 1,
                                                       !.draft = Normalize(Reviewed[i])]]
  /\ project = [phases |-> {}, tasks |-> {}, materials |-> {}, ledger |-> {}, needs |-> {}, provenance |-> {}, title |-> None]
  /\ calls = [c \in Call |-> Idle]
  /\ mishaps = 0

Record(c) == imports[calls[c].import]
Mine(c) == <<"confirm", calls[c].client, calls[c].version>>

\* A repository's save: the next version of record i with these fields.
Save(i, r) == imports' = [imports EXCEPT ![i] = [r EXCEPT !.version = imports[i].version + 1]]
Goes(c, step) == calls' = [calls EXCEPT ![c].at = step]
\* A call that has its draft stored forgets the rest; it validates the draft it reads in its transaction.
Validates(c) == calls' = [calls EXCEPT ![c] = [Idle EXCEPT !.at = "validate", !.import = calls[c].import]]
Finishes(c, d) == calls' = [calls EXCEPT ![c] = [Idle EXCEPT !.at = "finish", !.import = calls[c].import, !.draft = d]]
Ends(c) == calls' = [calls EXCEPT ![c] = Idle]
Mishap == mishaps < MaxMishaps /\ mishaps' = mishaps + 1
ReadOnly == UNCHANGED <<sources, imports, project, mishaps>>

----------------------------------------------------------------------------
(* POST /imports *)

\* A replay of an import that is past its extraction is answered with the record and changes nothing.
Post(c, i, t) ==
  /\ calls[c] = Idle
  /\ imports[i] # None => imports[i].status \in {"uploaded", "extracting", "extraction_failed", "draft", "validating"}
  /\ calls' = [calls EXCEPT ![c] = [Idle EXCEPT !.at = "source", !.import = i, !.text = t]]
  /\ ReadOnly

PersistSource(c) ==
  LET i == calls[c].import IN
  /\ calls[c].at = "source"
  /\ IF sources[i] \in {None, calls[c].text}
     THEN sources' = [sources EXCEPT ![i] = calls[c].text] /\ Goes(c, "upload")
     ELSE UNCHANGED sources /\ Ends(c)
  /\ UNCHANGED <<imports, project, mishaps>>

EnsureUploaded(c) ==
  LET i == calls[c].import IN
  /\ calls[c].at = "upload"
  /\ imports' = IF imports[i] # None THEN imports ELSE [imports EXCEPT ![i] = Uploaded]
  /\ Goes(c, "claim")
  /\ UNCHANGED <<sources, project, mishaps>>

\* The claim of an extraction: a new attempt with a lease of its own.
Claims(c) ==
  LET r == Record(c) IN
  /\ Save(calls[c].import, [r EXCEPT !.status = "extracting", !.draft = None, !.attempt = @ + 1, !.lease = "live"])
  /\ calls' = [calls EXCEPT ![c] = [@ EXCEPT !.at = "extract", !.attempt = r.attempt + 1]]

\* The first claim, another after a failure, or the takeover of an attempt whose lease has run out.
Claimable(r) ==
  \/ r.status = "extracting" /\ r.lease = "out"
  \/ r.status \in {"uploaded", "extraction_failed"} /\ r.attempt < MaxAttempts

ClaimExtraction(c) ==
  LET r == Record(c) IN
  /\ calls[c].at = "claim"
  /\ \/ Claimable(r) /\ Claims(c)
     \/ r.status = "draft" /\ Validates(c) /\ UNCHANGED imports
     \/ r.status = "validating" /\ Finishes(c, r.draft) /\ UNCHANGED imports
     \/ ~Claimable(r) /\ r.status \notin {"draft", "validating"} /\ Ends(c) /\ UNCHANGED imports
  /\ UNCHANGED <<sources, project, mishaps>>

----------------------------------------------------------------------------
(* POST /imports/{import_id}/retry *)

RetryableConflicts ==
  {"DEPENDENCY_CYCLE", "DUPLICATE_DEPENDENCY", "DUPLICATE_TEMP_ID", "SELF_DEPENDENCY", "UNKNOWN_PREDECESSOR",
   "UNKNOWN_REQUIREMENT_MATERIAL", "UNKNOWN_REQUIREMENT_TASK", "UNKNOWN_SUCCESSOR", "UNKNOWN_TASK_PHASE"}

\* A mutant of Retryable: any draft may be extracted anew, a reviewed one too.
RetryableEvenReviewed(r) == r.status \in {"extraction_failed", "validation_failed", "needs_review"}

Retryable(r) ==
  \/ r.status = "extraction_failed"
  \/ r.status = "validation_failed" /\ r.draft.conflicts # {} /\ r.draft.conflicts \subseteq RetryableConflicts

\* A client reads the import before it retries or confirms it, and sends the version it saw.
Retry(c, i) ==
  /\ calls[c] = Idle
  /\ imports[i] # None /\ Retryable(imports[i])
  /\ calls' = [calls EXCEPT ![c] = [Idle EXCEPT !.at = "retry", !.import = i, !.version = imports[i].version,
                                                !.text = sources[i]]]
  /\ ReadOnly

\* A stale version is refused; a replay of the last claim (its key names the version) changes nothing either.
ClaimRetry(c) ==
  LET r == Record(c) IN
  /\ calls[c].at = "retry"
  /\ IF r.version = calls[c].version /\ Retryable(r) /\ r.attempt < MaxAttempts
     THEN Claims(c)
     ELSE UNCHANGED imports /\ Ends(c)
  /\ UNCHANGED <<sources, project, mishaps>>

----------------------------------------------------------------------------
(* _extract_claimed_source and _validate_stored_draft *)

\* The language model answers with a candidate; one that cannot be normalised ends like a model or a
\* storage that raises.
Extract(c) ==
  /\ calls[c].at = "extract"
  /\ \E d \in Answers[calls[c].text] :
       calls' = [calls EXCEPT ![c] =
         IF Normalizable(d) THEN [@ EXCEPT !.at = "store", !.draft = Normalize(d), !.text = None]
         ELSE [@ EXCEPT !.at = "unread"]]
  /\ ReadOnly

\* A mutant of Current: the answer belongs to the last attempt, whatever was decided meanwhile.
CurrentEvenCancelled(c) == Record(c).attempt = calls[c].attempt

\* The record still stands at the attempt this call claimed.
Current(c) == Record(c).status = "extracting" /\ Record(c).attempt = calls[c].attempt

StoreDraft(c) ==
  /\ calls[c].at = "store"
  /\ IF Current(c)
     THEN /\ Save(calls[c].import, [Record(c) EXCEPT !.status = "draft", !.draft = calls[c].draft, !.lease = "none"])
          /\ Validates(c)
     ELSE UNCHANGED imports /\ Ends(c)
  /\ UNCHANGED <<sources, project, mishaps>>

MarkExtractionFailed(c) ==
  /\ calls[c].at = "unread"
  /\ IF Current(c) THEN Save(calls[c].import, [Record(c) EXCEPT !.status = "extraction_failed", !.lease = "none"])
     ELSE UNCHANGED imports
  /\ Ends(c)
  /\ UNCHANGED <<sources, project, mishaps>>

\* The call keeps the draft it read here, and validates that one.
StartValidation(c) ==
  /\ calls[c].at = "validate"
  /\ IF Record(c).status \in {"draft", "validating"}
     THEN Finishes(c, Record(c).draft)
     ELSE Ends(c)
  /\ IF Record(c).status = "draft" THEN Save(calls[c].import, [Record(c) EXCEPT !.status = "validating"])
     ELSE UNCHANGED imports
  /\ UNCHANGED <<sources, project, mishaps>>

\* The conflicts of the review: those of the draft, or else those with the project.
ReviewConflicts(d) == IF Conflicts(d) # {} THEN Conflicts(d) ELSE Blocking(d, project)

Reviewing(c) == Record(c).status = "validating"

\* The review is of the draft this call read, whatever the record holds by now.
FinishValidation(c) ==
  LET d == calls[c].draft IN
  /\ calls[c].at = "finish"
  /\ ~Unvalidatable(d)
  /\ IF Reviewing(c) /\ (Conflicts(d) = {} => ~Incomparable(d))
     THEN Save(calls[c].import, [Record(c) EXCEPT !.draft = [d EXCEPT !.conflicts = ReviewConflicts(d)],
                 !.status = IF ReviewConflicts(d) = {} THEN "needs_review" ELSE "validation_failed"])
     ELSE UNCHANGED imports
  /\ Ends(c)
  /\ UNCHANGED <<sources, project, mishaps>>

MarkValidationFailed(c) ==
  /\ calls[c].at = "finish"
  /\ Unvalidatable(calls[c].draft)
  /\ IF Reviewing(c) THEN Save(calls[c].import, [Record(c) EXCEPT !.status = "validation_failed"])
     ELSE UNCHANGED imports
  /\ Ends(c)
  /\ UNCHANGED <<sources, project, mishaps>>

----------------------------------------------------------------------------
(* POST /imports/{import_id}/cancel and /confirm *)

\* A mutant of Cancellable: only a cancelled import is beyond cancelling.
CancellableAnyTime == Statuses \ {"cancelled"}

Cancellable == Statuses \ {"confirmed", "importing", "imported", "cancelled"}

Cancel(i) ==
  /\ imports[i] # None /\ imports[i].status \in Cancellable
  /\ Save(i, [imports[i] EXCEPT !.status = "cancelled", !.draft = None, !.lease = "none",
                                !.decision = <<"cancel", None, imports[i].version>>])
  /\ UNCHANGED <<sources, project, calls, mishaps>>

\* A confirmation carries the version its client sees, or repeats the one it sent before.
Confirm(c, i, cl) ==
  /\ calls[c] = Idle
  /\ imports[i] # None
  /\ imports[i].status \in {"needs_review", "confirmed", "importing", "import_failed"}
  /\ \E v \in {imports[i].version} \union {w \in 0 .. imports[i].version : imports[i].decision = <<"confirm", cl, w>>} :
       calls' = [calls EXCEPT ![c] = [Idle EXCEPT !.at = "preflight", !.import = i, !.client = cl, !.version = v,
                                                  !.draft = imports[i].draft]]
  /\ ReadOnly

Preflight(c) ==
  /\ calls[c].at = "preflight"
  /\ IF Record(c).status = "needs_review" /\ Blocking(calls[c].draft, project) # {} THEN Ends(c) ELSE Goes(c, "decide")
  /\ ReadOnly

\* A confirmation that is not the one on record is a version conflict for its client.
ClaimConfirmation(c) ==
  LET r == Record(c) IN
  /\ calls[c].at = "decide"
  /\ CASE r.status \in {"confirmed", "importing", "import_failed"} /\ r.decision = Mine(c) ->
            UNCHANGED imports /\ Goes(c, "start")
       [] r.status = "needs_review" /\ r.version = calls[c].version /\ r.draft = calls[c].draft ->
            Save(calls[c].import, [r EXCEPT !.status = "confirmed", !.decision = Mine(c)]) /\ Goes(c, "start")
       [] r.status \in {"confirmed", "importing", "import_failed", "imported"} /\ r.decision # Mine(c) ->
            UNCHANGED imports /\ Goes(c, "conflict")
       [] OTHER -> UNCHANGED imports /\ Ends(c)
  /\ UNCHANGED <<sources, project, mishaps>>

\* A version conflict makes the client load the import anew.
Reload(c) == calls[c].at = "conflict" /\ Ends(c) /\ ReadOnly

Startable == {"confirmed", "import_failed"}

\* A mutant of Resumable: an import that is under way is nobody else's.
NotResumable == {}

Resumable == {"importing"}

ClaimImport(c) ==
  LET r == Record(c) IN
  /\ calls[c].at = "start"
  /\ CASE r.decision = Mine(c) /\ r.status \in Startable /\ (r.status = "import_failed" => r.version < MaxVersion) ->
            Save(calls[c].import, [r EXCEPT !.status = "importing"]) /\ Goes(c, "commit")
       [] r.decision = Mine(c) /\ r.status \in Resumable -> UNCHANGED imports /\ Goes(c, "commit")
       [] r.decision # Mine(c) -> UNCHANGED imports /\ Goes(c, "conflict")
       [] OTHER -> UNCHANGED imports /\ Ends(c)
  /\ UNCHANGED <<sources, project, mishaps>>

\* A project without phases, tasks and materials takes its metadata from its first import.
Initial(p) == p.phases = {} /\ p.tasks = {} /\ p.materials = {}

WithImport(p, d, i) ==
  [phases |-> p.phases \union ImportedPhases(d, i),
   tasks |-> p.tasks \union ImportedTasks(d, i) \union ImportedMilestones(d, i),
   materials |-> p.materials \union ImportedMaterials(d, i),
   ledger |-> p.ledger \union ImportedLedger(d, i),
   needs |-> p.needs \union ImportedNeeds(d, i),
   provenance |-> p.provenance \union Provenance(d, i),
   title |-> IF Initial(p) THEN d.title ELSE p.title]

\* A mutant of Additive: the review and the preflight before have compared already.
ReviewedAsAdditive(d, p) == TRUE

\* The preflight in the transaction of the commit itself.
Additive(d, p) == Blocking(d, p) = {}

Committing(c) == Record(c).status = "importing" /\ Record(c).decision = Mine(c) /\ Record(c).draft = calls[c].draft

\* One transaction: the project, all entities with their provenance, and the import.
Commit(c) ==
  LET i == calls[c].import  d == calls[c].draft IN
  /\ calls[c].at = "commit"
  /\ \/ /\ Committing(c) /\ Additive(d, project)
        /\ project' = WithImport(project, d, i)
        /\ Save(i, [Record(c) EXCEPT !.status = "imported"])
        /\ Ends(c)
     \/ Committing(c) /\ ~Additive(d, project) /\ Goes(c, "failed") /\ UNCHANGED <<project, imports>>
     \/ ~Committing(c) /\ Ends(c) /\ UNCHANGED <<project, imports>>
  /\ UNCHANGED <<sources, mishaps>>

\* Preparing the entities, or the store, raises.
CommitFails(c) ==
  /\ calls[c].at = "commit" /\ Mishap
  /\ Goes(c, "failed")
  /\ UNCHANGED <<sources, imports, project>>

MarkImportFailed(c) ==
  /\ calls[c].at = "failed"
  /\ IF Record(c).status = "importing" THEN Save(calls[c].import, [Record(c) EXCEPT !.status = "import_failed"])
     ELSE UNCHANGED imports
  /\ Ends(c)
  /\ UNCHANGED <<sources, project, mishaps>>

----------------------------------------------------------------------------
(* What happens meanwhile *)

Die(c) ==
  /\ calls[c] # Idle /\ Mishap
  /\ Ends(c)
  /\ UNCHANGED <<sources, imports, project>>

\* Nobody works on attempt n of import i any more, or its answer is late.
Abandoned(i) ==
  ~\E c \in Call : calls[c].at \in {"extract", "store", "unread"} /\ calls[c].import = i /\ calls[c].attempt = imports[i].attempt

LeaseRunsOut(i) ==
  /\ imports[i] # None /\ imports[i].status = "extracting" /\ imports[i].lease = "live"
  /\ imports' = [imports EXCEPT ![i].lease = "out"]
  /\ \/ Abandoned(i) /\ UNCHANGED mishaps
     \/ ~Abandoned(i) /\ Mishap
  /\ UNCHANGED <<sources, project, calls>>

\* Somebody creates a material, one of each name; tasks of a taken name are what imports bring each other.
CreateMaterial(name) ==
  /\ \A m \in project.materials : m.id # <<"user", name>>
  /\ project' = [project EXCEPT !.materials = @ \union
       {[id |-> <<"user", name>>, names |-> {MatchKey(name)}, unit |-> <<"bags", "canonical">>, available |-> 0]}]
  /\ UNCHANGED <<sources, imports, calls, mishaps>>

Works(c) ==
  \/ PersistSource(c) \/ EnsureUploaded(c) \/ ClaimExtraction(c) \/ ClaimRetry(c) \/ Extract(c) \/ StoreDraft(c)
  \/ MarkExtractionFailed(c) \/ StartValidation(c) \/ FinishValidation(c) \/ MarkValidationFailed(c)
  \/ Preflight(c) \/ ClaimConfirmation(c) \/ Reload(c) \/ ClaimImport(c) \/ Commit(c) \/ CommitFails(c) \/ MarkImportFailed(c)

Next ==
  \/ \E c \in Call, i \in Import : \E t \in Text[i] : Post(c, i, t)
  \/ \E c \in Call, i \in Import : Retry(c, i)
  \/ \E c \in Call, i \in Import, cl \in Client : Confirm(c, i, cl)
  \/ \E c \in Call : Works(c) \/ Die(c)
  \/ \E i \in Import : Cancel(i) \/ LeaseRunsOut(i)
  \/ \E name \in NewMaterial : CreateMaterial(name)

\* Whoever has confirmed sends the same confirmation again until it is answered with an outcome
\* (docs/API.md: decisions take a stable key, exact replay resumes), and a call that lives goes on.
Resend(i) ==
  /\ imports[i] # None
  /\ imports[i].status \in {"confirmed", "importing"}
  /\ \E c \in Call, cl \in Client :
       Confirm(c, i, cl) /\ calls'[c].version = imports[i].decision[3] /\ cl = imports[i].decision[2]

Spec ==
  /\ Init /\ [][Next]_vars
  /\ \A c \in Call : WF_vars(Works(c))
  /\ \A i \in Import : SF_vars(Resend(i))

----------------------------------------------------------------------------
(* What is checked *)

\* The fields of a record fit its status: a lease belongs to an extraction under way, a draft to what
\* comes after one, the conflicts of a draft to a failed validation, and a decision to what it led to.
TypeOK ==
  /\ sources \in [Import -> Texts \union {None}]
  /\ mishaps \in 0 .. MaxMishaps
  /\ \A i \in Import : imports[i] # None =>
       LET r == imports[i] IN
       /\ sources[i] # None
       /\ r.status \in Statuses /\ r.attempt \in 0 .. (MaxAttempts + MaxMishaps)
       /\ (r.lease # "none") <=> (r.status = "extracting")
       /\ (r.draft # None) <=> (r.status \notin {"uploaded", "extracting", "extraction_failed", "cancelled"})
       /\ r.status \in {"needs_review", "confirmed", "importing", "imported", "import_failed"} => r.draft.conflicts = {}
       /\ r.decision = None <=> r.status \notin {"confirmed", "importing", "imported", "import_failed", "cancelled"}
       /\ r.status # "cancelled" /\ r.decision # None => r.decision[1] = "confirm"

Of(i, records) == {x \in records : Len(x.id) = 3 /\ x.id[2] = i}

\* Nothing of an import is in the project unless it is imported, and then all of it is, each record
\* with its provenance and its opening entry: no crash, retry, cancellation or second import in
\* between leaves a part (API.md: canonical records are created only by successful confirmation).
ImportedWhole ==
  \A i \in Import :
    LET whole == imports[i] # None /\ imports[i].status = "imported"
        d == imports[i].draft
    IN  /\ Of(i, project.phases) = IF whole THEN ImportedPhases(d, i) ELSE {}
        /\ Of(i, project.tasks) = IF whole THEN ImportedTasks(d, i) \union ImportedMilestones(d, i) ELSE {}
        /\ Of(i, project.materials) = IF whole THEN ImportedMaterials(d, i) ELSE {}
        /\ Of(i, project.ledger) = IF whole THEN ImportedLedger(d, i) ELSE {}
        /\ Of(i, project.needs) = IF whole THEN ImportedNeeds(d, i) ELSE {}
        /\ whole => /\ EntityIds(d, i) \subseteq project.provenance
                    /\ WriteCount(d) <= MaxWrites
                    /\ \A t \in ImportedTasks(d, i) : t.deps \subseteq {x.id : x \in project.tasks}

\* An import adds: it neither changes what was there nor brings a second task, phase or material of a
\* name the project has at that moment, however long ago it was reviewed and whoever else has
\* imported or created one since (WORKFLOWS.md: additive-only conflict preflight).
AddsOnly ==
  [][\A i \in Import :
       imports[i] # None /\ imports'[i].status = "imported" /\ imports[i].status # "imported" =>
         /\ project.tasks \subseteq project'.tasks /\ project.materials \subseteq project'.materials
         /\ \A t \in project.tasks, n \in project'.tasks \ project.tasks : MatchKey(t.name) # MatchKey(n.name)
         /\ \A f \in project.phases, n \in project'.phases \ project.phases : MatchKey(f.name) # MatchKey(n.name)
         /\ \A m \in project.materials, n \in project'.materials \ project.materials : m.names \intersect n.names = {}]_vars

\* What is up for review is what is confirmed, and what is confirmed is what is imported: the draft
\* stands from its review on, until it is imported or thrown away, and so does the decision.
ReviewStands ==
  [][\A i \in Import :
       imports[i] # None /\ imports[i].status \in {"needs_review", "confirmed", "importing", "imported", "import_failed"} =>
         \/ imports'[i].draft = imports[i].draft /\ imports[i].decision \in {None, imports'[i].decision}
         \/ imports'[i].status = "cancelled" /\ imports[i].status \in {"needs_review", "import_failed"}]_vars

\* A confirmed import does not stay half-way: when its calls die and its client repeats the
\* confirmation it comes to its outcome, imported or failed.
ConfirmedEnds ==
  \A i \in Import :
    (imports[i] # None /\ imports[i].status \in {"confirmed", "importing"})
      ~> (imports[i] # None /\ imports[i].status \in {"imported", "import_failed", "cancelled"})
=============================================================================
