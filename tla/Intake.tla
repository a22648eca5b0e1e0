------------------------------- MODULE Intake -------------------------------
(***************************************************************************)
(* What an operator sends in and what becomes of it until its event is     *)
(* published: app/services/attachments.py, site_update_intake.py and       *)
(* delivery_delay_intake.py before OutboxService.process.  One operation   *)
(* key is followed; a client may use it again, with the body it sent       *)
(* before or another one.  Files are granted an upload, uploaded to the    *)
(* bucket, verified against what was announced, and linked to one update.  *)
(***************************************************************************)
EXTENDS Outbox

CONSTANTS
  File,    \* attachments of the project
  Body,    \* bodies the client may send under the key
  Files,   \* Files[b]: the attachments that body b names
  None

\* What the client sends, and what the activity that is recorded for it keeps:
\* timed says whether the client gives occurred_at.
Request == [body : Body, timed : BOOLEAN]
Submission == [request : Request, digest : [body : Body, at : Caller \cup {"given", "none"}]]

ASSUME IntakeAssumption ==
  /\ Files \in [Body -> SUBSET File]
  /\ None \notin Submission
  /\ None \notin {"this", "another"}

VARIABLES
  file,     \* file[f]: the attachment's record
  object,   \* object[f]: what the bucket holds at its path
  verdicts, \* verdicts[f]: what verifications that are under way have found
  stored,   \* the submission that was stored under the key, None before
  sent,     \* sent[c]: what request c sent, None before it
  answer    \* answer[c]: how its intake ended

intakeVars == <<file, object, verdicts, stored, sent, answer>>
allVars == <<vars, intakeVars>>

\* A site update's message is published without an audit context, a delivery
\* delay's with one.
SiteUpdate == ~audited
DeliveryDelay == audited

\* An attachment's record, which is saved once when it is verified and once when
\* it is linked.
Attachment ==
  {a \in [status : {"absent", "initiated", "verified", "rejected"},
          link : {None, "this", "another"}, version : {0, 1, 2}] :
     /\ a.version = 0 <=> a.status \in {"absent", "initiated"}
     /\ a.version = 2 <=> a.link # None
     /\ a.version = 2 => a.status = "verified"}

IntakeInit ==
  /\ Init
  /\ file = [f \in File |-> [status |-> "absent", link |-> None, version |-> 0]]
  /\ object = [f \in File |-> "none"]
  /\ verdicts = [f \in File |-> {}]
  /\ stored = None
  /\ sent = [c \in Caller |-> None]
  /\ answer = [c \in Caller |-> "none"]

-----------------------------------------------------------------------------
(***************************************************************************)
(* AttachmentService.                                                      *)
(***************************************************************************)

\* sign_upload: the first grant creates the record; a later one, or one that
\* lost the race to create it, finds the same contract and changes nothing.
SignUpload(f) ==
  /\ file[f].status = "absent"
  /\ file' = [file EXCEPT ![f].status = "initiated"]
  /\ UNCHANGED <<vars, object, verdicts, stored, sent, answer>>

\* The client uses its URL, which creates the object or does nothing.
Upload(f) ==
  /\ file[f].status # "absent" /\ object[f] = "none"
  /\ \E content \in {"as announced", "other"} : object' = [object EXCEPT ![f] = content]
  /\ UNCHANGED <<vars, file, verdicts, stored, sent, answer>>

\* inspect: a missing object or one that is not what was announced is rejected.
Found(f) == IF object[f] = "as announced" THEN "verified" ELSE "rejected"

\* verify_upload reads the record and inspects the object outside of the
\* transaction that saves its finding.
Inspect(f) ==
  /\ file[f].status = "initiated"
  /\ verdicts' = [verdicts EXCEPT ![f] = @ \cup {Found(f)}]
  /\ UNCHANGED <<vars, file, object, stored, sent, answer>>

\* Mutant: the finding is saved over whatever the record has become.
UncheckedVersion(f) == TRUE
\* _save_with_activity: the record is still as it was created.
Unsettled(f) == file[f].version = 0

\* The record as it was read, with the finding; where another verification was
\* first, its finding stands.
Settle(f, v) ==
  /\ v \in verdicts[f]
  /\ verdicts' = [verdicts EXCEPT ![f] = @ \ {v}]
  /\ file' = IF Unsettled(f)
             THEN [file EXCEPT ![f] = [status |-> v, link |-> None, version |-> @.version + 1]]
             ELSE file
  /\ UNCHANGED <<vars, object, stored, sent, answer>>

-----------------------------------------------------------------------------
(***************************************************************************)
(* The intake services.                                                    *)
(***************************************************************************)
\* input_digest: a site update's holds occurred_at as it was sent, a delivery
\* delay's the time of the call where none was.
Digest(c, r) ==
  [body |-> r.body,
   at |-> IF r.timed THEN "given" ELSE IF DeliveryDelay THEN c ELSE "none"]

\* Mutant: a linked attachment is taken over.
LinkableAgain(f) == file[f].status = "verified"
\* _persist_intake: verified and not linked to another update.
Linkable(f) == file[f].status = "verified" /\ file[f].link = None

Linked(fs, update) ==
  [f \in File |-> IF f \in fs THEN [file[f] EXCEPT !.link = update, !.version = @ + 1]
                  ELSE file[f]]

Named(r) == IF SiteUpdate THEN Files[r.body] ELSE {}

Answered(c, r, told) ==
  /\ sent' = [sent EXCEPT ![c] = r]
  /\ answer' = [answer EXCEPT ![c] = told]

\* submit's transaction: the activity that carries the digest, the update with
\* its run and links, and the message, all or none.
Store(c, r) ==
  /\ stored = None
  /\ \A f \in Named(r) : Linkable(f)
  /\ file' = Linked(Named(r), "this")
  /\ stored' = [request |-> r, digest |-> Digest(c, r)]
  /\ Answered(c, r, "accepted")

\* A repetition is known by its activity, and answered with what was stored.
Replay(c, r) ==
  /\ stored # None
  /\ Answered(c, r, IF stored.digest = Digest(c, r) THEN "accepted" ELSE "conflict")
  /\ UNCHANGED <<file, stored>>

\* An attachment is not at hand; or the material request, read before the
\* transaction, is not in a state in which a delivery can be late.
Refuse(c, r) ==
  /\ DeliveryDelay \/ (stored = None /\ \E f \in Named(r) : ~Linkable(f))
  /\ Answered(c, r, "refused")
  /\ UNCHANGED <<file, stored>>

Submit(c, r) ==
  /\ sent[c] = None
  /\ Store(c, r) \/ Replay(c, r) \/ Refuse(c, r)
  /\ UNCHANGED <<vars, object, verdicts>>

\* Another site update, under a key of its own, links the attachment.
LinkElsewhere(f) ==
  /\ Linkable(f)
  /\ file' = Linked({f}, "another")
  /\ UNCHANGED <<vars, object, verdicts, stored, sent, answer>>

\* What was accepted is published: the message is pending from Store on.
Publication(c) == answer[c] = "accepted" /\ Process(c) /\ UNCHANGED intakeVars

\* Only a site update has attachments: with a delivery delay they are left out.
IntakeNext ==
  \/ SiteUpdate /\ \E f \in File : SignUpload(f) \/ Upload(f) \/ Inspect(f) \/ LinkElsewhere(f)
                                 \/ \E v \in verdicts[f] : Settle(f, v)
  \/ \E c \in Caller : Publication(c) \/ \E r \in Request : Submit(c, r)

IntakeSpec == IntakeInit /\ [][IntakeNext]_allVars /\ Fairness

-----------------------------------------------------------------------------
(* Properties *)

\* The attachments, the submission and the answers are well formed: only a
\* verified attachment is linked, and it has been saved twice then.
IntakeTypeOK ==
  /\ TypeOK
  /\ file \in [File -> Attachment]
  /\ object \in [File -> {"none", "as announced", "other"}]
  /\ verdicts \in [File -> SUBSET {"verified", "rejected"}]
  /\ stored \in Submission \cup {None}
  /\ sent \in [Caller -> Request \cup {None}]
  /\ answer \in [Caller -> {"none", "accepted", "conflict", "refused"}]

\* A submission is stored whole or not at all: every attachment it names, and
\* no other, belongs to it for good and is what its sender announced, whoever
\* verifies or links it meanwhile (a verification's late finding included).
SubmissionIsWhole ==
  /\ {f \in File : file[f].link = "this"} = IF stored = None THEN {} ELSE Named(stored.request)
  /\ \A f \in File : file[f].link # None => object[f] = "as announced"
  /\ stored = None => status = "pending" /\ topic = {}

\* A repetition of what was stored is not taken for something else, where the
\* client says when it happened or sends a site update.
RepetitionIsKnown ==
  \A c \in Caller : answer[c] = "conflict" =>
    sent[c] # stored.request \/ (DeliveryDelay /\ ~sent[c].timed)

\* What an operator sends in is stored once and whole (_persist_intake,
\* ActivityService.mutate, verify_upload).
IntakeIsWhole == SubmissionIsWhole /\ RepetitionIsKnown
=============================================================================
