----------------------------- MODULE IntakeProofs -----------------------------
(***************************************************************************)
(* Theorems about Intake and the outbox message it stores, for any number  *)
(* of requests, bodies and attachments and any errors of the publisher.    *)
(***************************************************************************)
EXTENDS Intake, FiniteSetTheorems, TLAPS

\* The callers of process that have begun: each has claimed at most once.
Begun == {c \in Caller : pc[c] # "idle"}

\* What the message's record and its callers know of each other: the claims are
\* counted by their callers, and neither a completed message nor a caller that
\* got past its publication is without one.
Publications ==
  /\ audit \subseteq [phase : {"claim", "failure", "published"}, key : Nat, attempt : Nat,
                      code : ErrorCode \cup {NoError}]
  /\ attempts <= Cardinality(Begun)
  /\ (status = "completed" \/ \E c \in Caller : pc[c] \in {"published", "succeeded"})
       => topic # {}

\* A verification has found what the bucket holds.
Findings ==
  \A f \in File : /\ "verified" \in verdicts[f] => object[f] = "as announced"
                  /\ file[f].status = "verified" => object[f] = "as announced"
                  /\ file[f].status = "absent" => object[f] = "none"

\* Nothing is answered before something is stored, and the digest that is stored
\* is the one of the request that is stored.
Answers ==
  /\ \A c \in Caller : answer[c] \in {"accepted", "conflict"} => stored # None
  /\ \A c \in Caller : answer[c] = "conflict" => stored.digest # Digest(c, sent[c])
  /\ stored # None => \E c \in Caller : stored.digest = Digest(c, stored.request)

IInv == TypeOK /\ Publications /\ AuditTellsTheStory
IntakeIInv == IInv /\ IntakeTypeOK /\ Findings /\ Answers /\ SubmissionIsWhole

-----------------------------------------------------------------------------
(***************************************************************************)
(* The outbox message.                                                     *)
(***************************************************************************)

\* Every step of the intake is a step of the outbox or leaves it alone.
LEMMA IntakeStepsTheOutbox == [IntakeNext]_allVars => [Next]_vars
  BY DEF IntakeNext, allVars, Next, vars, SignUpload, Upload, Inspect, LinkElsewhere,
     Settle, Publication, Submit

\* A caller that begins is counted, and stays so.
LEMMA BegunGrows ==
  ASSUME NEW c \in Caller, Begun' = Begun \cup {c}
  PROVE  /\ Cardinality(Begun) \in Nat
         /\ Cardinality(Begun') = IF c \in Begun THEN Cardinality(Begun) ELSE Cardinality(Begun) + 1
         /\ Cardinality(Begun') <= Cardinality(Caller)
         /\ Cardinality(Caller) \in Nat
<1>1. Begun \in SUBSET Caller /\ Begun' \in SUBSET Caller
  BY DEF Begun
<1>2. IsFiniteSet(Begun) /\ IsFiniteSet(Begun') /\ Cardinality(Begun') <= Cardinality(Caller)
  BY <1>1, FS_Subset, OutboxAssumption
<1>3. Cardinality(Begun') = IF c \in Begun THEN Cardinality(Begun) ELSE Cardinality(Begun) + 1
  BY <1>2, FS_AddElement
<1>4. QED BY <1>2, <1>3, FS_CardinalityType, OutboxAssumption

\* The message and its callers stay well formed.
LEMMA TypeStep ==
  ASSUME IInv, NEW c \in Caller, Process(c)
  PROVE  TypeOK' /\ attempts' <= Cardinality(Begun')
<1>b. Begun' = Begun \cup {c} /\ (c \in Begun <=> pc[c] # "idle")
  BY DEF IInv, TypeOK, Begun, Process, AlreadyPublished, ClaimRefused, Crash, Publish, Raise,
     Claim, Fail, Complete, SaveOutcome
<1>1. ASSUME attempts' = attempts \/ (pc[c] = "idle" /\ attempts' = attempts + 1)
      PROVE  attempts' \in 0 .. Cardinality(Caller) /\ attempts' <= Cardinality(Begun')
  <2>1. /\ Cardinality(Begun) \in Nat
        /\ Cardinality(Begun') = IF c \in Begun THEN Cardinality(Begun) ELSE Cardinality(Begun) + 1
        /\ Cardinality(Begun') <= Cardinality(Caller)
        /\ Cardinality(Caller) \in Nat
    BY <1>b, BegunGrows, Zenon
  <2>2. attempts \in 0 .. Cardinality(Caller) /\ attempts <= Cardinality(Begun)
    BY DEF IInv, TypeOK, Publications
  <2>3. attempts \in Nat
    BY <2>1, <2>2
  <2>4. attempts' \in Nat /\ attempts' <= Cardinality(Begun') /\ attempts' <= Cardinality(Caller)
    BY <1>1, <1>b, <2>1, <2>2, <2>3
  <2>5. QED BY <2>1, <2>4
<1> USE DEF IInv, TypeOK
<1>2. CASE AlreadyPublished(c) \/ ClaimRefused(c) \/ Crash(c) \/ Publish(c)
  BY <1>2, <1>1 DEF AlreadyPublished, ClaimRefused, Crash, Publish
<1>3. CASE \E code \in ErrorCode : Raise(c, code)
  BY <1>3, <1>1 DEF Raise
<1>4. CASE Claim(c)
  BY <1>4, <1>1 DEF Claim, Claimable
<1>5. CASE Fail(c)
  BY <1>5, <1>1 DEF Fail, SaveOutcome, ValidSave
<1>6. CASE Complete(c)
  BY <1>6, <1>1 DEF Complete, SaveOutcome
<1>7. QED BY <1>2, <1>3, <1>4, <1>5, <1>6 DEF Process

\* The claims that the ledger holds, and the attempts it has a publication of.
ClaimKeys == {x.key : x \in {y \in audit : y.phase = "claim"}}
PublishedAttempts == {x.attempt : x \in {y \in audit : y.phase = "published"}}

LEMMA RecordAdds ==
  ASSUME NEW p, NEW k, NEW n, NEW e, audit' = audit \cup {Activity(p, k, n, e)}
  PROVE  /\ ClaimKeys' = ClaimKeys \cup IF p = "claim" THEN {k} ELSE {}
         /\ PublishedAttempts' = PublishedAttempts \cup IF p = "published" THEN {n} ELSE {}
<1> DEFINE a == Activity(p, k, n, e)
<1>1. a.phase = p /\ a.key = k /\ a.attempt = n
  BY DEF Activity
<1> HIDE DEF a
<1>2. audit' = audit \cup {a}
  BY DEF a
<1>3. {y \in audit' : y.phase = "claim"}
        = {y \in audit : y.phase = "claim"} \cup IF p = "claim" THEN {a} ELSE {}
  BY <1>1, <1>2
<1>4. {y \in audit' : y.phase = "published"}
        = {y \in audit : y.phase = "published"} \cup IF p = "published" THEN {a} ELSE {}
  BY <1>1, <1>2
<1>5. QED BY <1>1, <1>3, <1>4 DEF ClaimKeys, PublishedAttempts

\* A trail that holds the activities recorded so far.
Trail == SUBSET [phase : {"claim", "failure", "published"}, key : Nat, attempt : Nat,
                 code : ErrorCode \cup {NoError}]

LEMMA RecordedTrail ==
  ASSUME audit \in Trail, NEW p \in {"claim", "failure", "published"}, NEW k \in Nat,
         NEW n \in Nat, NEW e \in ErrorCode \cup {NoError}, NEW m \in Nat, NEW m2 \in Nat,
         audit' = Recorded(Activity(p, k, n, e)), m <= m2, n <= m2,
         audited => \A x \in audit : x.attempt <= m
  PROVE  audit' \in Trail /\ (audited => \A x \in audit' : x.attempt <= m2)
<1> DEFINE a == Activity(p, k, n, e)
<1>1. a.attempt = n /\ audit \cup {a} \in Trail
  BY DEF Activity, Trail
<1>2. \A x \in audit : x.attempt \in Nat
  BY DEF Trail
<1> HIDE DEF a
<1>3. audit' = IF audited THEN audit \cup {a} ELSE audit
  BY DEF Recorded, a
<1>4. QED BY <1>1, <1>2, <1>3

\* The audit trail goes on as it was told: nothing is added to it, or the
\* activity of what the caller did.
LEMMA LedgerStep ==
  ASSUME IInv, NEW c \in Caller, Process(c)
  PROVE  Publications' /\ AuditTellsTheStory'
<1>1. attempts' <= Cardinality(Begun')
  BY TypeStep
<1>i. attempts \in Nat /\ TypeOK
  <2>1. Cardinality(Caller) \in Nat
    BY FS_CardinalityType, OutboxAssumption
  <2>2. TypeOK /\ attempts \in 0 .. Cardinality(Caller)
    BY DEF IInv, TypeOK
  <2>3. QED BY <2>1, <2>2
<1>p. /\ audit \in Trail
      /\ (status = "completed" \/ \E d \in Caller : pc[d] \in {"published", "succeeded"})
           => topic # {}
  BY DEF IInv, Publications, Trail
<1>s. audited => /\ ClaimKeys = 1 .. attempts
                 /\ \A x \in audit : x.attempt <= attempts
                 /\ PublishedAttempts = IF status = "completed" THEN {attempts} ELSE {}
  BY DEF IInv, AuditTellsTheStory, ClaimKeys, PublishedAttempts
<1>t. SUFFICES
        /\ audit' \in Trail
        /\ (status' = "completed" \/ \E d \in Caller : pc'[d] \in {"published", "succeeded"})
             => topic' # {}
        /\ audited' => /\ ClaimKeys' = 1 .. attempts'
                       /\ \A x \in audit' : x.attempt <= attempts'
                       /\ PublishedAttempts' = IF status' = "completed" THEN {attempts'} ELSE {}
  BY <1>1, Zenon DEF Publications, AuditTellsTheStory, ClaimKeys, PublishedAttempts, Trail
<1>u. ASSUME UNCHANGED <<audit, audited, attempts, status>>
      PROVE  /\ audit' \in Trail
             /\ audited' => /\ ClaimKeys' = 1 .. attempts'
                            /\ \A x \in audit' : x.attempt <= attempts'
                            /\ PublishedAttempts' = IF status' = "completed" THEN {attempts'} ELSE {}
  BY <1>u, <1>p, <1>s DEF ClaimKeys, PublishedAttempts, Trail
<1>2. CASE AlreadyPublished(c) \/ ClaimRefused(c) \/ Crash(c) \/ Publish(c)
  BY <1>2, <1>u, <1>p, <1>i DEF AlreadyPublished, ClaimRefused, Crash, Publish, Claimable, TypeOK
<1>3. CASE \E code \in ErrorCode : Raise(c, code)
  BY <1>3, <1>u, <1>p, <1>i DEF Raise, TypeOK
<1>4. CASE UNCHANGED <<status, processed, attempts, audited, firestore, audit, topic, error>>
           /\ pc' = [pc EXCEPT ![c] = "rolled back"]
  BY <1>4, <1>u, <1>p, <1>i DEF TypeOK
<1>5. CASE Claim(c)
  <2>1. /\ attempts' = attempts + 1 /\ audited' = audited
        /\ audit' = Recorded(Activity("claim", attempts + 1, attempts + 1, NoError))
        /\ status # "completed" /\ status' # "completed" /\ topic' = topic
        /\ pc' = [pc EXCEPT ![c] = "publishing"]
    BY <1>5 DEF Claim, Claimable
  <2>2. audit' \in Trail /\ (audited => \A x \in audit' : x.attempt <= attempts')
    BY <1>i, <1>p, <1>s, <2>1, RecordedTrail
  <2>3. audited => /\ ClaimKeys' = ClaimKeys \cup {attempts + 1}
                   /\ PublishedAttempts' = PublishedAttempts
    <3>1. audited => audit' = audit \cup {Activity("claim", attempts + 1, attempts + 1, NoError)}
      BY <2>1 DEF Recorded
    <3>2. QED BY <3>1, RecordAdds
  <2>4. (1 .. attempts) \cup {attempts + 1} = 1 .. attempts'
    BY <1>i, <2>1
  <2>5. (\E d \in Caller : pc'[d] \in {"published", "succeeded"}) => topic' # {}
    BY <1>p, <1>i, <2>1 DEF TypeOK
  <2>6. QED BY <1>s, <2>1, <2>2, <2>3, <2>4, <2>5
<1>6. CASE Fail(c) /\ pc'[c] = "failed"
  <2>1. /\ attempts' = attempts /\ audited' = audited /\ topic' = topic
        /\ audit' = Recorded(Activity("failure", attempts, attempts, error[c]))
        /\ status # "completed" /\ status' # "completed" /\ error[c] \in ErrorCode \cup {NoError}
        /\ pc' = [pc EXCEPT ![c] = "failed"]
    BY <1>6, <1>i DEF Fail, SaveOutcome, ValidSave, TypeOK
  <2>2. audit' \in Trail /\ (audited => \A x \in audit' : x.attempt <= attempts')
    BY <1>i, <1>p, <1>s, <2>1, RecordedTrail
  <2>3. audited => /\ ClaimKeys' = ClaimKeys
                   /\ PublishedAttempts' = PublishedAttempts
    <3>1. audited => audit' = audit \cup {Activity("failure", attempts, attempts, error[c])}
      BY <2>1 DEF Recorded
    <3>2. QED BY <3>1, RecordAdds
  <2>4. (\E d \in Caller : pc'[d] \in {"published", "succeeded"}) => topic' # {}
    BY <1>p, <1>i, <2>1 DEF TypeOK
  <2>5. QED BY <1>s, <2>1, <2>2, <2>3, <2>4
<1>7. CASE Complete(c) /\ pc'[c] = "succeeded"
  <2>1. /\ attempts' = attempts /\ audited' = audited /\ topic' = topic
        /\ audit' = Recorded(Activity("published", 0, attempts, NoError))
        /\ status' = "completed" /\ pc[c] = "published" /\ pc' = [pc EXCEPT ![c] = "succeeded"]
    BY <1>7, <1>i DEF Complete, SaveOutcome, TypeOK
  <2>2. audit' \in Trail /\ (audited => \A x \in audit' : x.attempt <= attempts')
    BY <1>i, <1>p, <1>s, <2>1, RecordedTrail
  <2>3. audited => /\ ClaimKeys' = ClaimKeys
                   /\ PublishedAttempts' = PublishedAttempts \cup {attempts}
    <3>1. audited => audit' = audit \cup {Activity("published", 0, attempts, NoError)}
      BY <2>1 DEF Recorded
    <3>2. QED BY <3>1, RecordAdds
  <2>4. topic' # {}
    BY <1>p, <2>1
  <2>5. QED BY <1>s, <2>1, <2>2, <2>3, <2>4
<1>8. QED BY <1>2, <1>3, <1>4, <1>5, <1>6, <1>7, <1>i DEF Process, Fail, Complete, SaveOutcome, TypeOK

LEMMA OutboxStep == ASSUME IInv, [Next]_vars PROVE IInv'
<1>1. CASE UNCHANGED vars
  BY <1>1 DEF vars, Begun, IInv, TypeOK, Publications, AuditTellsTheStory
<1>2. CASE Next
  BY <1>2, TypeStep, LedgerStep DEF Next, IInv
<1>3. QED BY <1>1, <1>2

-----------------------------------------------------------------------------
(***************************************************************************)
(* The submission and its attachments.                                     *)
(***************************************************************************)

LEMMA Digests ==
  ASSUME NEW c \in Caller, NEW r \in Request
  PROVE  /\ [request |-> r, digest |-> Digest(c, r)] \in Submission
         /\ Named(r) \in SUBSET File
  BY IntakeAssumption DEF Digest, Submission, Request, Named

\* Where the client gives the time, or sends a site update, the digest tells
\* nothing but the request.
LEMMA DigestOfRequest ==
  ASSUME NEW c \in Caller, NEW d \in Caller, NEW r \in Request, SiteUpdate \/ r.timed
  PROVE  Digest(c, r) = Digest(d, r)
  BY DEF Digest, SiteUpdate, DeliveryDelay

LEMMA InitIntake == IntakeInit => IntakeIInv
<1> SUFFICES ASSUME IntakeInit PROVE IntakeIInv
  OBVIOUS
<1> USE DEF IntakeInit, Init
<1>1. Cardinality(Caller) \in Nat
  BY FS_CardinalityType, OutboxAssumption
<1>2. TypeOK
  <2>1. attempts \in 0 .. Cardinality(Caller)
    BY <1>1
  <2>2. QED BY <2>1 DEF TypeOK
<1>3. Begun = {} /\ Cardinality(Begun) = 0
  BY FS_EmptySet DEF Begun
<1>4. Publications
  BY <1>3 DEF Publications
<1>5. AuditTellsTheStory
  BY DEF AuditTellsTheStory
<1>6. IntakeTypeOK
  BY <1>2 DEF IntakeTypeOK, Attachment
<1>7. Findings /\ Answers
  BY DEF Findings, Answers
<1>8. SubmissionIsWhole
  BY IntakeAssumption DEF SubmissionIsWhole
<1>9. QED BY <1>2, <1>4, <1>5, <1>6, <1>7, <1>8 DEF IntakeIInv, IInv

\* What a verification, an upload and a link make of an attachment's record.
LEMMA AttachmentChanges ==
  ASSUME NEW a \in Attachment
  PROVE  /\ a.status = "absent" => [a EXCEPT !.status = "initiated"] \in Attachment /\ a.link = None
         /\ a.version = 0 => /\ a.link = None
                            /\ \A v \in {"verified", "rejected"} :
                                 [status |-> v, link |-> None, version |-> 1] \in Attachment
         /\ a.link # None => a.status = "verified"
         /\ a.status = "verified" /\ a.link = None =>
              /\ a.version + 1 = 2
              /\ \A u \in {"this", "another"} :
                   [a EXCEPT !.link = u, !.version = 2] \in Attachment
<1> USE DEF Attachment
<1>1. a.status = "absent" => [a EXCEPT !.status = "initiated"] \in Attachment /\ a.link = None
  OBVIOUS
<1>2. a.version = 0 => /\ a.link = None
                       /\ \A v \in {"verified", "rejected"} :
                            [status |-> v, link |-> None, version |-> 1] \in Attachment
  OBVIOUS
<1>3. a.link # None => a.status = "verified"
  OBVIOUS
<1>4. ASSUME a.status = "verified", a.link = None, NEW u \in {"this", "another"}
      PROVE  a.version + 1 = 2 /\ [a EXCEPT !.link = u, !.version = 2] \in Attachment
  <2>1. a.version = 1 /\ u # None
    BY <1>4, IntakeAssumption
  <2> DEFINE b == [a EXCEPT !.link = u, !.version = 2]
  <2>2. b.status = "verified" /\ b.link = u /\ b.version = 2
    BY <1>4
  <2>3. b \in [status : {"absent", "initiated", "verified", "rejected"},
              link : {None, "this", "another"}, version : {0, 1, 2}]
    BY <1>4
  <2> HIDE DEF b
  <2>4. b \in Attachment
    BY <2>1, <2>2, <2>3
  <2>5. QED BY <2>1, <2>4 DEF b
<1>5. QED BY <1>1, <1>2, <1>3, <1>4

\* A verification and an upload move no link, and another update takes only
\* what is verified and free: whichever comes first, the submission stays whole.
LEMMA AttachmentStep ==
  ASSUME IntakeIInv, TypeOK', NEW f \in File,
         \/ SignUpload(f) \/ Upload(f) \/ Inspect(f) \/ LinkElsewhere(f)
         \/ \E v \in verdicts[f] : Settle(f, v)
  PROVE  IntakeTypeOK' /\ Findings' /\ Answers' /\ SubmissionIsWhole'
<1>1. UNCHANGED <<stored, sent, answer, audited, status, topic>>
  BY DEF SignUpload, Upload, Inspect, LinkElsewhere, Settle, vars
<1>2. Answers'
  BY <1>1 DEF IntakeIInv, Answers, Digest, SiteUpdate, DeliveryDelay
<1>3. /\ IntakeTypeOK /\ SubmissionIsWhole
      /\ file \in [File -> Attachment]
      /\ object \in [File -> {"none", "as announced", "other"}]
      /\ verdicts \in [File -> SUBSET {"verified", "rejected"}]
  BY DEF IntakeIInv, IntakeTypeOK
<1>4. ASSUME NEW a \in Attachment, file' = [file EXCEPT ![f] = a],
             object' \in [File -> {"none", "as announced", "other"}],
             verdicts' \in [File -> SUBSET {"verified", "rejected"}],
             a.link = "this" <=> file[f].link = "this",
             a.link # None => object[f] = "as announced",
             \A g \in File : object[g] = "as announced" => object'[g] = "as announced"
      PROVE  IntakeTypeOK' /\ SubmissionIsWhole'
  <2>1. IntakeTypeOK'
    BY <1>1, <1>3, <1>4 DEF IntakeTypeOK
  <2>2. {g \in File : file'[g].link = "this"} = {g \in File : file[g].link = "this"}
    BY <1>3, <1>4
  <2>3. \A g \in File : file'[g].link # None => object'[g] = "as announced"
    BY <1>3, <1>4 DEF SubmissionIsWhole
  <2>4. SubmissionIsWhole'
    BY <1>1, <1>3, <2>2, <2>3 DEF SubmissionIsWhole, Named, SiteUpdate
  <2>5. QED BY <2>1, <2>4
<1>5. Findings /\ \A g \in File : file[g].link # None => object[g] = "as announced"
  BY DEF IntakeIInv, SubmissionIsWhole
<1>6. file[f] \in Attachment /\ file = [file EXCEPT ![f] = file[f]]
  BY <1>3
<1>7. CASE SignUpload(f)
  <2> DEFINE a == [file[f] EXCEPT !.status = "initiated"]
  <2>1. /\ a \in Attachment
        /\ file[f].status = "absent" /\ file[f].link = None
        /\ UNCHANGED <<object, verdicts>>
    BY <1>6, <1>7, AttachmentChanges DEF SignUpload
  <2>2. file' = [file EXCEPT ![f] = a]
    BY <1>3, <1>7 DEF SignUpload
  <2>3. a.link = None /\ a.status = "initiated"
    BY <1>6, <2>1 DEF Attachment
  <2> HIDE DEF a
  <2>4. Findings'
    BY <1>3, <1>5, <2>1, <2>2, <2>3 DEF Findings
  <2>5. QED BY <1>2, <1>3, <1>4, <2>1, <2>2, <2>3, <2>4
<1>8. CASE Upload(f)
  <2>1. /\ file' = file /\ verdicts' = verdicts /\ object[f] = "none" /\ file[f].status # "absent"
        /\ \E content \in {"as announced", "other"} : object' = [object EXCEPT ![f] = content]
    BY <1>8 DEF Upload
  <2>2. /\ object' \in [File -> {"none", "as announced", "other"}]
        /\ \A g \in File : object[g] = "as announced" => object'[g] = "as announced"
    BY <1>3, <2>1
  <2>3. Findings'
    BY <1>3, <1>5, <2>1 DEF Findings
  <2>4. QED BY <1>2, <1>3, <1>4, <1>5, <1>6, <2>1, <2>2, <2>3
<1>9. CASE Inspect(f)
  <2>1. /\ file' = file /\ object' = object
        /\ verdicts' = [verdicts EXCEPT ![f] = @ \cup {Found(f)}]
        /\ Found(f) \in {"verified", "rejected"}
        /\ Found(f) = "verified" => object[f] = "as announced"
    BY <1>9 DEF Inspect, Found
  <2>2. verdicts' \in [File -> SUBSET {"verified", "rejected"}]
    BY <1>3, <2>1
  <2>3. Findings'
    BY <1>3, <1>5, <2>1 DEF Findings
  <2>4. QED BY <1>2, <1>3, <1>4, <1>5, <1>6, <2>1, <2>2, <2>3
<1>10. CASE LinkElsewhere(f)
  <2> DEFINE a == [file[f] EXCEPT !.link = "another", !.version = 2]
  <2>1. /\ file[f].status = "verified" /\ file[f].link = None
        /\ UNCHANGED <<object, verdicts>>
    BY <1>10 DEF LinkElsewhere, Linkable
  <2>2. file[f].version + 1 = 2 /\ a \in Attachment
    BY <1>6, <2>1, AttachmentChanges
  <2>3. file' = [g \in File |-> IF g = f THEN [file[g] EXCEPT !.link = "another", !.version = @ + 1]
                                ELSE file[g]]
    BY <1>10 DEF LinkElsewhere, Linked
  <2>4. file' = [file EXCEPT ![f] = a]
    BY <1>3, <2>2, <2>3
  <2>5. a.link = "another" /\ a.status = "verified"
    BY <1>6, <2>1 DEF Attachment
  <2> HIDE DEF a
  <2>6. Findings'
    BY <1>3, <1>5, <2>1, <2>4, <2>5 DEF Findings
  <2>7. object[f] = "as announced"
    BY <1>5, <2>1 DEF Findings
  <2>8. QED BY <1>2, <1>3, <1>4, <2>1, <2>2, <2>4, <2>5, <2>6, <2>7, IntakeAssumption
<1>11. ASSUME NEW v \in verdicts[f], Settle(f, v)
       PROVE  IntakeTypeOK' /\ Findings' /\ SubmissionIsWhole'
  <2> DEFINE a == [status |-> v, link |-> None, version |-> 1]
  <2>1. /\ v \in {"verified", "rejected"}
        /\ verdicts' = [verdicts EXCEPT ![f] = @ \ {v}] /\ object' = object
        /\ verdicts' \in [File -> SUBSET {"verified", "rejected"}]
    BY <1>3, <1>11 DEF Settle
  <2>2. CASE file' = file
    <3>1. Findings'
      BY <1>3, <1>5, <2>1, <2>2 DEF Findings
    <3>2. QED BY <1>3, <1>4, <1>5, <1>6, <2>1, <2>2, <3>1
  <2>3. CASE file' # file
    <3>1. file[f].version = 0
      BY <1>11, <2>3 DEF Settle, Unsettled
    <3>2. file[f].link = None /\ a \in Attachment
      BY <1>6, <2>1, <3>1, AttachmentChanges
    <3>3. file' = [file EXCEPT ![f] = a]
      <4>1. file' = [file EXCEPT ![f] = [status |-> v, link |-> None, version |-> @.version + 1]]
        BY <1>11, <2>3 DEF Settle
      <4>2. file[f].version + 1 = 1
        BY <3>1
      <4>3. QED BY <1>3, <4>1, <4>2
    <3>4. a.link = None /\ (a.status = "verified" => object[f] = "as announced") /\ a.status # "absent"
      BY <1>5, <1>11, <2>1 DEF Findings
    <3> HIDE DEF a
    <3>5. Findings'
      BY <1>3, <1>5, <2>1, <3>3, <3>4 DEF Findings
    <3>6. QED BY <1>3, <1>4, <2>1, <3>2, <3>3, <3>4, <3>5, IntakeAssumption
  <2>4. QED BY <2>2, <2>3
<1>12. QED BY <1>2, <1>7, <1>8, <1>9, <1>10, <1>11

\* A submission is stored once, with all the attachments that it names.
LEMMA SubmitStep ==
  ASSUME IntakeIInv, TypeOK', NEW c \in Caller, NEW r \in Request, Submit(c, r)
  PROVE  IntakeTypeOK' /\ Findings' /\ Answers' /\ SubmissionIsWhole'
<1>1. UNCHANGED <<object, verdicts, audited, status, topic>>
  BY DEF Submit, vars
<1>2. \A d \in Caller, q \in Request : Digest(d, q)' = Digest(d, q) /\ Named(q)' = Named(q)
  BY <1>1 DEF Digest, SiteUpdate, DeliveryDelay, Named
<1>3. IntakeTypeOK /\ file \in [File -> Attachment] /\ Findings /\ Answers /\ SubmissionIsWhole
  BY DEF IntakeIInv, IntakeTypeOK
<1>4. /\ answer \in [Caller -> {"none", "accepted", "conflict", "refused"}]
      /\ stored \in Submission \cup {None}
      /\ sent \in [Caller -> Request \cup {None}] /\ sent' = [sent EXCEPT ![c] = r]
  BY <1>3 DEF IntakeTypeOK, Submit, Store, Replay, Refuse, Answered
<1>5. CASE Store(c, r)
  <2> DEFINE new == [request |-> r, digest |-> Digest(c, r)]
  <2>1. /\ new \in Submission /\ new # None /\ Named(r) \in SUBSET File
        /\ new.request = r /\ new.digest = Digest(c, r)
    BY Digests, IntakeAssumption
  <2> HIDE DEF new
  <2>2. /\ stored = None /\ stored' = new /\ answer' = [answer EXCEPT ![c] = "accepted"]
        /\ \A f \in Named(r) : file[f].status = "verified" /\ file[f].link = None
        /\ file' = [f \in File |-> IF f \in Named(r)
                                    THEN [file[f] EXCEPT !.link = "this", !.version = @ + 1]
                                    ELSE file[f]]
    BY <1>5 DEF Store, Linkable, Linked, Answered, new
  <2>3. /\ \A f \in Named(r) : /\ file'[f] \in Attachment
                               /\ file'[f].link = "this" /\ file'[f].status = "verified"
        /\ \A f \in File \ Named(r) : file'[f] = file[f]
    <3>1. ASSUME NEW f \in Named(r)
          PROVE  file'[f] \in Attachment /\ file'[f].link = "this" /\ file'[f].status = "verified"
      <4>1. f \in File /\ file[f] \in Attachment
        BY <1>3, <2>1
      <4>2. file[f].version + 1 = 2 /\ [file[f] EXCEPT !.link = "this", !.version = 2] \in Attachment
        BY <2>2, <4>1, AttachmentChanges
      <4>3. file'[f] = [file[f] EXCEPT !.link = "this", !.version = 2]
        BY <2>2, <4>1, <4>2
      <4>4. QED BY <2>2, <4>1, <4>2, <4>3 DEF Attachment
    <3>2. QED BY <2>2, <3>1
  <2>4. file' \in [File -> Attachment]
    BY <1>3, <2>1, <2>2, <2>3
  <2>f. Findings'
    BY <1>1, <1>3, <2>1, <2>2, <2>3 DEF Findings
  <2>5. IntakeTypeOK'
    BY <1>1, <1>3, <1>4, <2>1, <2>2, <2>4 DEF IntakeTypeOK
  <2>6. Answers'
    BY <1>2, <1>3, <1>4, <2>1, <2>2 DEF Answers
  <2>7. {f \in File : file'[f].link = "this"} = Named(r)
    BY <1>3, <2>1, <2>2, <2>3 DEF SubmissionIsWhole
  <2>8. \A f \in File : file'[f].link # None => object'[f] = "as announced"
    BY <1>1, <1>3, <2>1, <2>2, <2>3 DEF SubmissionIsWhole, Findings
  <2>9. SubmissionIsWhole'
    BY <1>1, <1>2, <2>1, <2>2, <2>7, <2>8 DEF SubmissionIsWhole
  <2>10. QED BY <2>f, <2>5, <2>6, <2>9
<1>6. CASE Replay(c, r) \/ Refuse(c, r)
  <2>1. /\ file' = file /\ stored' = stored
        /\ \/ answer' = [answer EXCEPT ![c] = "refused"]
           \/ /\ stored # None
              /\ answer' = [answer EXCEPT ![c] = IF stored.digest = Digest(c, r) THEN "accepted"
                                                ELSE "conflict"]
    BY <1>6 DEF Replay, Refuse, Answered
  <2>2. Findings'
    BY <1>1, <1>3, <2>1 DEF Findings
  <2>3. IntakeTypeOK'
    BY <1>1, <1>3, <1>4, <2>1, <2>2 DEF IntakeTypeOK
  <2>4. Answers'
    <3>1. stored # None => stored.request \in Request
      BY <1>4 DEF Submission
    <3>2. \A d \in Caller : \A q : Digest(d, q)' = Digest(d, q)
      BY <1>1 DEF Digest, SiteUpdate, DeliveryDelay
    <3>3. QED BY <1>3, <1>4, <2>1, <3>1, <3>2 DEF Answers
  <2>5. Named(stored.request)' = Named(stored.request)
    BY <1>1, <2>1 DEF Named, SiteUpdate
  <2>6. SubmissionIsWhole'
    BY <1>1, <1>3, <2>1, <2>5 DEF SubmissionIsWhole
  <2>7. QED BY <2>2, <2>3, <2>4, <2>6
<1>7. QED BY <1>5, <1>6 DEF Submit

-----------------------------------------------------------------------------
(***************************************************************************)
(* Theorems.                                                               *)
(***************************************************************************)

LEMMA IntakeStep == ASSUME IntakeIInv, [IntakeNext]_allVars PROVE IntakeIInv'
<1>1. IInv' /\ TypeOK'
  BY OutboxStep, IntakeStepsTheOutbox DEF IntakeIInv, IInv
<1>2. ASSUME UNCHANGED <<file, object, verdicts, stored, sent, answer, audited>>,
             stored = None => UNCHANGED <<status, topic>>
      PROVE  IntakeTypeOK' /\ Findings' /\ Answers' /\ SubmissionIsWhole'
  <2>1. IntakeTypeOK'
    BY <1>1, <1>2 DEF IntakeIInv, IntakeTypeOK
  <2>2. Findings' /\ Answers'
    BY <1>2 DEF IntakeIInv, Findings, Answers, Digest, SiteUpdate, DeliveryDelay
  <2>3. SubmissionIsWhole'
    BY <1>2 DEF IntakeIInv, SubmissionIsWhole, Named, SiteUpdate
  <2>4. QED BY <2>1, <2>2, <2>3
<1>3. CASE UNCHANGED allVars
  BY <1>1, <1>2, <1>3 DEF allVars, vars, intakeVars, IntakeIInv
<1>4. ASSUME NEW c \in Caller, Publication(c) PROVE IntakeIInv'
  <2>1. UNCHANGED <<file, object, verdicts, stored, sent, answer>> /\ stored # None
    BY <1>4 DEF Publication, intakeVars, IntakeIInv, Answers
  <2>2. audited' = audited
    BY <1>4 DEF Publication, Process, AlreadyPublished, Claim, ClaimRefused, Publish, Raise, Fail,
       Complete, SaveOutcome, Crash
  <2>3. QED BY <1>1, <1>2, <2>1, <2>2 DEF IntakeIInv
<1>5. CASE IntakeNext
  BY <1>1, <1>4, <1>5, AttachmentStep, SubmitStep DEF IntakeNext, IntakeIInv
<1>6. QED BY <1>3, <1>5

THEOREM IntakeInvariance == IntakeSpec => []IntakeIInv
<1>1. IntakeInit => IntakeIInv
  BY InitIntake
<1>2. QED BY <1>1, IntakeStep, PTL DEF IntakeSpec

\* The message, the attachments and the submission keep their types: processed_at
\* marks the completed message, and only a verified attachment is linked.
THEOREM IntakeTypeCorrect == IntakeSpec => []IntakeTypeOK
<1>1. IntakeIInv => IntakeTypeOK
  BY DEF IntakeIInv
<1>2. QED BY <1>1, IntakeInvariance, PTL

\* Whoever is told that the event is published is told the truth, and the audit
\* trail has every claim once and the publication under the last of them.
THEOREM SuccessIsTrue == IntakeSpec => []AnswersAreTrue
<1>1. IntakeIInv => AnswersAreTrue
  BY DEF IntakeIInv, IInv, Publications, AnswersAreTrue, SuccessMeansPublished
<1>2. QED BY <1>1, IntakeInvariance, PTL

\* A submission has the attachments it names, as they were announced, and a
\* repetition of it is known.
THEOREM StoredWhole == IntakeSpec => []IntakeIsWhole
<1>1. IntakeIInv => IntakeIsWhole
  <2> SUFFICES ASSUME IntakeIInv PROVE RepetitionIsKnown
    BY DEF IntakeIInv, IntakeIsWhole
  <2>1. SUFFICES ASSUME NEW c \in Caller, answer[c] = "conflict", sent[c] = stored.request
                 PROVE  DeliveryDelay /\ ~ sent[c].timed
    BY DEF RepetitionIsKnown
  <2>2. /\ stored # None /\ stored.digest # Digest(c, sent[c])
        /\ \E d \in Caller : stored.digest = Digest(d, stored.request)
    BY <2>1 DEF IntakeIInv, Answers
  <2>3. stored.request \in Request /\ audited \in BOOLEAN
    BY <2>2 DEF IntakeIInv, IInv, TypeOK, IntakeTypeOK, Submission
  <2>4. ~ (SiteUpdate \/ stored.request.timed)
    BY <2>1, <2>2, <2>3, DigestOfRequest
  <2>5. QED BY <2>1, <2>4 DEF SiteUpdate, DeliveryDelay
<1>2. QED BY <1>1, IntakeInvariance, PTL

\* Nothing takes a publication back, whoever fails or comes late.
THEOREM PublishedIsPublished == IntakeSpec => CompletedIsFinal
<1> DEFINE Final == /\ status' = "completed" /\ attempts' = attempts
                    /\ \A c \in Caller : pc[c] = "idle" => pc'[c] \in {"idle", "succeeded"}
<1>1. ASSUME IntakeIInv, [IntakeNext]_allVars PROVE [status = "completed" => Final]_vars
  <2>1. SUFFICES ASSUME status = "completed", NEW c \in Caller, Process(c) PROVE Final
    BY <1>1, IntakeStepsTheOutbox DEF Next
  <2>2. TypeOK /\ processed
    BY <1>1, <2>1 DEF IntakeIInv, IInv, TypeOK
  <2>3. QED BY <2>1, <2>2 DEF Process, AlreadyPublished, Claim, ClaimRefused, Claimable, Publish,
           Raise, Fail, Complete, SaveOutcome, ValidSave, Crash, TypeOK
<1>2. QED BY <1>1, IntakeInvariance, PTL DEF IntakeSpec, CompletedIsFinal
=============================================================================
