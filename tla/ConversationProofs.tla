---------------------------- MODULE ConversationProofs ----------------------------
(****************************************************************************)
(* Proofs about Conversation: its type invariant, that proposals end        *)
(* truthfully, and that it implements ProposalLife.                         *)
(*                                                                          *)
(* The invariant has three parts: what a call carries has the shape of the  *)
(* place it is at (CallOK); the activities, the claims and the history tell *)
(* one story, and so do the slot and the claims (ActsTell, SlotTells); what *)
(* a call carries between two transactions is still good for the next       *)
(* (CopyTells, DueTells, ReceiptTells).                                     *)
(****************************************************************************)
EXTENDS Conversation, TLAPS

\* A memory nobody has written is empty; a proposal is no younger than the
\* memory it is in.
MemoryOK(m) ==
    /\ m \in Memories
    /\ m.pending # None => m.pending.memory <= m.version
    /\ ~m.exists => m.version = 0 /\ m.pending = None

\* The three shapes of a call: a message, a request about a proposal, and one
\* that carries the proposal to its decision.
IsMessage(r) == r = [at |-> r.at, key |-> r.key, reading |-> r.reading, seen |-> r.seen,
                     clause |-> r.clause]
IsRequest(r) == r = [at |-> r.at, key |-> r.key, version |-> r.version]
IsDecision(r) == r = [at |-> r.at, key |-> r.key, version |-> r.version, seen |-> r.seen]

MessageOK(r) ==
    /\ r.at \in {"answer", "classify", "cite", "ask", "clear", "save", "saveAndAct", "look",
                 "evict", "interpret", "compose", "composeBatch", "remember", "recheck",
                 "apply", "purchase", "escalate", "submit"}
    /\ IsMessage(r)
    /\ r.key \in Key
    /\ r.at \in {"answer", "ask"} => r.seen \subseteq Reading
    /\ r.at \in {"save", "saveAndAct"} => MemoryOK(r.seen)
    /\ r.at = "remember" => r.seen \in Commands /\ r.seen.key = r.key
    /\ r.at \in {"answer", "classify", "clear", "saveAndAct", "look", "evict", "interpret"}
          => r.reading \in Reading \cup {None}
    /\ r.at \in {"compose", "composeBatch", "recheck", "apply", "purchase", "submit"}
          => r.reading \in Reading
    /\ r.at = "escalate" => r.reading \in [kind : {"largeMove"}, refs : Mentions]
    /\ r.clause \in 0 .. Clauses
    /\ r.clause # 0 => r.at = "apply" /\ r.clause <= Len(r.reading.refs)

RequestOK(r) ==
    /\ r.at \in {"due", "require", "cancel"}
    /\ IsRequest(r)
    /\ r.key \in Key /\ r.version \in Nat

DecisionOK(r) ==
    /\ r.at \in {"reserve", "dispatch", "lookup", "complete", "abort"}
    /\ IsDecision(r)
    /\ r.key \in Key /\ r.version \in Nat
    /\ r.seen \in Commands /\ r.seen.key = r.key

CallOK(r) == r = Idle \/ MessageOK(r) \/ RequestOK(r) \/ DecisionOK(r)

\* The activities, the claim and the history of one message.  Its new dates are
\* applied by a confirmation, when its own activity is the confirmed one, or by
\* an approval, when it is the large move that asked for it: never by both.
ActsTell ==
    \A k \in Key :
        /\ moved[k] = IF ConfirmedActivity(k) \/ acts[k][Approved] # None THEN 1 ELSE 0
        /\ acts[k][Approved] # None => /\ acts[k][0] # None /\ acts[k][0].kind = "largeMove"
                                       /\ acts[k][Approved].on = acts[k][0].on
        /\ ConfirmedActivity(k) => /\ Outcome(k) \in {"confirming", "confirmed", "stale"}
                                   /\ acts[k][0].on = claims[k].command.seen
        /\ Outcome(k) = "confirmed" => ConfirmedActivity(k)

SlotTells ==
    /\ MemoryOK(memory)
    /\ ~Fresh => memory.exists /\ ReservedKeepsTheSlot

\* A copy of the memory that can still be saved has the slot as it is now.
CopyTells(r) == r.at \in {"save", "saveAndAct"} =>
    /\ r.seen.exists => memory.exists
    /\ ~Fresh => r.seen.exists
    /\ r.seen.version <= memory.version
    /\ r.seen.exists /\ r.seen.version = memory.version => r.seen.pending = memory.pending

\* No message is about to propose again what is past its time.
DueTells(r) ==
    memory.due /\ r.at \in {"interpret", "compose", "remember"} => r.key # memory.pending.key

\* A call that writes the receipt has seen the change.
ReceiptTells(r) == r.at = "complete" => ConfirmedActivity(r.seen.key)

CallTells(r) == CallOK(r) /\ CopyTells(r) /\ DueTells(r) /\ ReceiptTells(r)

CallsTell ==
    /\ calls = [c \in Call |-> calls[c]]
    /\ \A c \in Call : CallTells(calls[c])

ConversationInv == TypeOK /\ ActsTell /\ SlotTells /\ CallsTell

-----------------------------------------------------------------------------
(****************************************************************************)
(* The records.                                                             *)
(****************************************************************************)

LEMMA NoneIsNothing ==
    /\ None \notin Nat /\ None \notin Key /\ None \notin Reading
    /\ None \notin Commands /\ None \notin Claims /\ None \notin Activities
BY MemoryAssumption, ConversationAssumption

\* The version a write leaves.
NextVersion == IF memory.exists THEN memory.version + 1 ELSE 0

\* What one EXCEPT leaves of a memory.
LEMMA OneField ==
    ASSUME NEW m \in Memories
    PROVE  /\ \A x \in BOOLEAN : LET n == [m EXCEPT !.exists = x] IN
                 /\ n \in Memories /\ n.exists = x /\ n.version = m.version
                 /\ n.pending = m.pending /\ n.due = m.due /\ n.question = m.question
           /\ \A x \in Nat : LET n == [m EXCEPT !.version = x] IN
                 /\ n \in Memories /\ n.exists = m.exists /\ n.version = x
                 /\ n.pending = m.pending /\ n.due = m.due /\ n.question = m.question
           /\ \A x \in Commands \cup {None} : LET n == [m EXCEPT !.pending = x] IN
                 /\ n \in Memories /\ n.exists = m.exists /\ n.version = m.version
                 /\ n.pending = x /\ n.due = m.due /\ n.question = m.question
           /\ \A x \in BOOLEAN : LET n == [m EXCEPT !.due = x] IN
                 /\ n \in Memories /\ n.exists = m.exists /\ n.version = m.version
                 /\ n.pending = m.pending /\ n.due = x /\ n.question = m.question
           /\ \A x \in SUBSET Reading : LET n == [m EXCEPT !.question = x] IN
                 /\ n \in Memories /\ n.exists = m.exists /\ n.version = m.version
                 /\ n.pending = m.pending /\ n.due = m.due /\ n.question = x
BY DEF Memories

\* What a write leaves in every field of the memory.
LEMMA WrittenFields ==
    ASSUME NEW m \in Memories, memory \in Memories
    PROVE  /\ Written(m) \in Memories /\ Written(m).exists = TRUE
           /\ Written(m).version = NextVersion /\ Written(m).pending = m.pending
           /\ Written(m).due = m.due /\ Written(m).question = m.question
<1> DEFINE half == [m EXCEPT !.exists = TRUE]
<1>1. NextVersion \in Nat  BY DEF NextVersion, Memories
<1>2. /\ half \in Memories /\ half.exists = TRUE /\ half.pending = m.pending
      /\ half.due = m.due /\ half.question = m.question
  BY OneField
<1>3. Written(m) = [half EXCEPT !.version = NextVersion]  BY DEF Written, NextVersion
<1> HIDE DEF half
<1> QED  BY <1>1, <1>2, <1>3, OneField

\* A written record with another slot.
LEMMA WithSlot ==
    ASSUME NEW m \in Memories, memory \in Memories, NEW p \in Commands \cup {None}, NEW d \in BOOLEAN
    PROVE  LET new == [[Written(m) EXCEPT !.pending = p] EXCEPT !.due = d] IN
           /\ new \in Memories /\ new.exists = TRUE /\ new.version = NextVersion
           /\ new.pending = p /\ new.due = d /\ new.question = m.question
<1> DEFINE written == Written(m)
           half == [written EXCEPT !.pending = p]
           new == [half EXCEPT !.due = d]
<1>1. /\ written \in Memories /\ written.exists = TRUE /\ written.version = NextVersion
      /\ written.question = m.question
  BY WrittenFields
<1> HIDE DEF written
<1>2. /\ half \in Memories /\ half.exists = TRUE /\ half.version = NextVersion
      /\ half.pending = p /\ half.question = m.question
  BY <1>1, OneField
<1> HIDE DEF half
<1>3. /\ new \in Memories /\ new.exists = TRUE /\ new.version = NextVersion
      /\ new.pending = p /\ new.due = d /\ new.question = m.question
  BY <1>2, OneField
<1> QED  BY <1>3 DEF written, half

LEMMA EmptiedFields ==
    ASSUME memory \in Memories
    PROVE  /\ Emptied \in Memories /\ Emptied.exists = TRUE /\ Emptied.version = NextVersion
           /\ Emptied.pending = None /\ Emptied.due = FALSE
<1> DEFINE new == [[Written(memory) EXCEPT !.pending = None] EXCEPT !.due = FALSE]
<1>1. Emptied = new  BY DEF Emptied
<1>2. /\ new \in Memories /\ new.exists = TRUE /\ new.version = NextVersion
      /\ new.pending = None /\ new.due = FALSE
  BY WithSlot, ZenonT(60)
<1> HIDE DEF new
<1> QED  BY <1>1, <1>2

LEMMA RememberedFields ==
    ASSUME memory \in Memories, NEW cmd \in Commands, Remembered(cmd)
    PROVE  /\ memory' \in Memories /\ memory'.exists = TRUE /\ memory'.version = NextVersion
           /\ memory'.pending = cmd /\ memory'.due = FALSE
<1> DEFINE new == [[Written(memory) EXCEPT !.pending = cmd] EXCEPT !.due = FALSE]
<1>1. memory' = new  BY DEF Remembered
<1>2. /\ new \in Memories /\ new.exists = TRUE /\ new.version = NextVersion
      /\ new.pending = cmd /\ new.due = FALSE
  BY WithSlot, ZenonT(60)
<1> HIDE DEF new
<1> QED  BY <1>1, <1>2

LEMMA SavedFields ==
    ASSUME NEW m \in Memories, memory \in Memories, Saved(m)
    PROVE  /\ memory' \in Memories /\ memory'.exists = TRUE /\ memory'.version = NextVersion
           /\ memory'.pending = m.pending
           /\ memory'.due = (memory.due /\ m.pending # None)
<1> DEFINE d == memory.due /\ m.pending # None
           written == Written(m)
           new == [written EXCEPT !.due = d]
<1>1. memory' = new  BY DEF Saved
<1>2. d \in BOOLEAN  OBVIOUS
<1> HIDE DEF d
<1>3. /\ written \in Memories /\ written.exists = TRUE /\ written.version = NextVersion
      /\ written.pending = m.pending
  BY WrittenFields
<1> HIDE DEF written
<1>4. /\ new \in Memories /\ new.exists = TRUE /\ new.version = NextVersion
      /\ new.pending = m.pending /\ new.due = d
  BY <1>2, <1>3, OneField
<1> HIDE DEF new
<1> QED  BY <1>1, <1>4 DEF d

\* How a claim tells the outcome.
LEMMA OutcomeTells ==
    ASSUME NEW k \in Key, claims \in [Key -> Claims \cup {None}]
    PROVE  /\ claims[k] = None <=> Outcome(k) = "none"
           /\ claims[k] # None => /\ claims[k] \in Claims
                                  /\ Outcome(k) = claims[k].outcome
                                  /\ Outcome(k) \in {"confirming", "confirmed", "stale",
                                                     "cancelled", "expired"}
BY DEF Outcome, Claims

\* What a claim that is put down for k is made of.
LEMMA ClaimedFields ==
    ASSUME NEW k \in Key, NEW outcome, NEW cmd \in Commands, NEW reviewed \in Nat \cup {None},
           outcome \in {"confirming", "cancelled", "expired"},
           claims \in [Key -> Claims \cup {None}],
           claims' = Claimed(k, outcome, cmd, reviewed)
    PROVE  /\ claims' \in [Key -> Claims \cup {None}]
           /\ claims'[k] # None /\ claims'[k].outcome = outcome /\ claims'[k].command = cmd
           /\ \A j \in Key : j # k => claims'[j] = claims[j]
<1> DEFINE new == [outcome |-> outcome, command |-> cmd, reviewed |-> reviewed]
<1>1. new \in Claims  BY DEF Claims
<1>2. claims' = [claims EXCEPT ![k] = new]  BY DEF Claimed
<1>3. new.outcome = outcome /\ new.command = cmd  OBVIOUS
<1> HIDE DEF new
<1>4. claims'[k] = new  BY <1>2
<1> QED  BY <1>1, <1>2, <1>3, <1>4, NoneIsNothing

-----------------------------------------------------------------------------
(****************************************************************************)
(* The store.  Whatever a call does, the store makes one of ten moves.      *)
(****************************************************************************)
Items == [Item -> [version : Nat, done : BOOLEAN]]

RecordsOK ==
    /\ claims \in [Key -> Claims \cup {None}]
    /\ \A k \in Key : claims[k] # None => claims[k].command.key = k
    /\ acts \in [Key -> [Slot -> Activities \cup {None}]]
    /\ items \in Items
    /\ moved \in [Key -> Nat]

SlotOK ==
    /\ MemoryOK(memory)
    /\ memory.pending # None => Outcome(memory.pending.key) \in {"none", "confirming"}
    /\ memory.due \in BOOLEAN /\ (memory.due => memory.pending # None)
    /\ ~Fresh => memory.exists /\ ReservedKeepsTheSlot

StoreInv == RecordsOK /\ SlotOK /\ ActsTell

LEMMA StoreInvIs ==
    /\ StoreInv <=> TypeOK /\ ActsTell /\ SlotTells
    /\ StoreInv' <=> (TypeOK /\ ActsTell /\ SlotTells)'
<1>1. StoreInv <=> TypeOK /\ ActsTell /\ SlotTells
  BY DEF StoreInv, RecordsOK, SlotOK, Items, TypeOK, SlotTells, MemoryOK, Memories
<1> QED  BY <1>1, PTL

\* A copy of the memory is written back.
SaveMove == \E m \in Memories :
    /\ MemoryOK(m) /\ (~Fresh => m.exists)
    /\ m.exists => memory.exists /\ m.pending = memory.pending
    /\ Saved(m)

ProposeMove == \E cmd \in Commands :
    /\ Rememberable(cmd) /\ (memory.due => cmd.key # memory.pending.key)
    /\ Remembered(cmd)

SettleMove == \E k \in Key, outcome \in {"cancelled", "expired"} :
    /\ Pending(k) /\ Outcome(k) = "none"
    /\ memory' = Emptied
    /\ claims' = Claimed(k, outcome, memory.pending, None)
    /\ UNCHANGED <<acts, items, moved>>

ReserveMove == \E cmd \in Commands, v \in Nat :
    /\ Outcome(cmd.key) = "none" /\ memory.pending = cmd
    /\ claims' = Claimed(cmd.key, "confirming", cmd, v)
    /\ UNCHANGED <<memory, acts, items, moved>>

EndMove == \E cmd \in Commands, outcome \in {"confirmed", "stale"} :
    /\ Endable(cmd) /\ (outcome = "confirmed" => ConfirmedActivity(cmd.key))
    /\ Ended(cmd, outcome)

DueMove ==
    /\ memory.pending # None
    /\ memory' = [memory EXCEPT !.due = TRUE]
    /\ UNCHANGED <<claims, acts, items, moved>>

ApplyMove == \E cmd \in Commands :
    Fenced(cmd) /\ acts[cmd.key][0] = None /\ Applicable(cmd) /\ Applied(cmd)

RecordMove == \E k \in Key, i \in 0 .. Clauses, a \in Activities :
    /\ acts[k][i] = None /\ a.kind # "confirmed"
    /\ acts' = [acts EXCEPT ![k][i] = a]
    /\ items' \in Items
    /\ UNCHANGED <<memory, claims, moved>>

ContinueMove == \E k \in Key : Continuable(k) /\ Continued(k)

EditMove == items' \in Items /\ UNCHANGED <<memory, claims, acts, moved>>

\* Only time makes the last.
CallMove ==
    \/ SaveMove \/ ProposeMove \/ SettleMove \/ ReserveMove \/ EndMove
    \/ ApplyMove \/ RecordMove \/ ContinueMove \/ EditMove
StoreMove == CallMove \/ DueMove

\* How a claim can go on: it is put down, or a reservation is decided.
ClaimsGoOn ==
    /\ claims' \in [Key -> Claims \cup {None}]
    /\ \A k \in Key :
        \/ claims'[k] = claims[k]
        \/ /\ claims[k] = None /\ claims'[k] # None
           /\ claims'[k].outcome \in {"confirming", "cancelled", "expired"}
           /\ claims'[k].command.key = k
        \/ /\ claims[k] # None /\ claims[k].outcome = "confirming" /\ claims'[k] # None
           /\ claims'[k].outcome \in {"confirmed", "stale"}
           /\ claims'[k].command = claims[k].command
           /\ claims'[k].outcome = "confirmed" => ConfirmedActivity(k)

\* A claim that goes on leaves the story of the activities true.
LEMMA ClaimsKeepActs ==
    ASSUME StoreInv, ClaimsGoOn, UNCHANGED <<acts, items, moved>>
    PROVE  RecordsOK' /\ ActsTell'
<1>1. RecordsOK'
  BY DEF StoreInv, RecordsOK, ClaimsGoOn
<1>2. ASSUME NEW k \in Key
      PROVE  /\ moved'[k] = IF ConfirmedActivity(k)' \/ acts'[k][Approved] # None THEN 1 ELSE 0
             /\ acts'[k][Approved] # None => /\ acts'[k][0] # None
                                             /\ acts'[k][0].kind = "largeMove"
                                             /\ acts'[k][Approved].on = acts'[k][0].on
             /\ ConfirmedActivity(k)' => /\ Outcome(k)' \in {"confirming", "confirmed", "stale"}
                                         /\ acts'[k][0].on = claims'[k].command.seen
             /\ Outcome(k)' = "confirmed" => ConfirmedActivity(k)'
  <2>1. ConfirmedActivity(k)' <=> ConfirmedActivity(k)  BY DEF ConfirmedActivity
  <2>2. /\ moved[k] = IF ConfirmedActivity(k) \/ acts[k][Approved] # None THEN 1 ELSE 0
        /\ acts[k][Approved] # None => /\ acts[k][0] # None /\ acts[k][0].kind = "largeMove"
                                       /\ acts[k][Approved].on = acts[k][0].on
        /\ ConfirmedActivity(k) => /\ Outcome(k) \in {"confirming", "confirmed", "stale"}
                                   /\ acts[k][0].on = claims[k].command.seen
        /\ Outcome(k) = "confirmed" => ConfirmedActivity(k)
    BY DEF StoreInv, ActsTell
  <2>3. Outcome(k)' = IF claims'[k] = None THEN "none" ELSE claims'[k].outcome  BY DEF Outcome
  <2>4. Outcome(k) = IF claims[k] = None THEN "none" ELSE claims[k].outcome  BY DEF Outcome
  <2>5. CASE claims'[k] = claims[k]  BY <2>1, <2>2, <2>3, <2>4, <2>5
  <2>6. CASE claims'[k] # claims[k]  BY <2>1, <2>2, <2>3, <2>4, <2>6 DEF ClaimsGoOn
  <2> QED  BY <2>5, <2>6
<1> QED  BY <1>1, <1>2 DEF ActsTell

LEMMA SaveKeeps == StoreInv /\ SaveMove => StoreInv'
<1> SUFFICES ASSUME StoreInv, SaveMove PROVE StoreInv'  OBVIOUS
<1>1. PICK m \in Memories : /\ MemoryOK(m) /\ (~Fresh => m.exists)
                            /\ m.exists => memory.exists /\ m.pending = memory.pending
                            /\ Saved(m)
  BY DEF SaveMove
<1>2. memory \in Memories  BY DEF StoreInv, SlotOK, MemoryOK
<1>3. /\ memory' \in Memories /\ memory'.exists = TRUE /\ memory'.version = NextVersion
      /\ memory'.pending = m.pending /\ memory'.due = (memory.due /\ m.pending # None)
  BY <1>1, <1>2, SavedFields
<1>4. UNCHANGED <<claims, acts, items, moved>>  BY <1>1 DEF Saved
<1>5. ClaimsGoOn  BY <1>4 DEF ClaimsGoOn, StoreInv, RecordsOK
<1>6. MemoryOK(memory)'
  <2>1. ASSUME m.pending # None  PROVE m.pending.memory <= NextVersion
    <3>1. m.exists /\ memory.exists /\ m.pending = memory.pending  BY <1>1, <2>1 DEF MemoryOK
    <3>2. memory.pending.memory <= memory.version /\ memory.version \in Nat
          /\ memory.pending.memory \in Nat
      BY <1>2, <2>1, <3>1 DEF StoreInv, SlotOK, MemoryOK, Memories, Commands
    <3> QED  BY <1>2, <3>1, <3>2 DEF NextVersion
  <2> QED  BY <1>3, <2>1 DEF MemoryOK
<1>7. m.pending # None => m.exists /\ memory.exists /\ m.pending = memory.pending
  BY <1>1 DEF MemoryOK
<1>8. memory'.pending # None => Outcome(memory.pending.key)' \in {"none", "confirming"}
  BY <1>3, <1>4, <1>7 DEF StoreInv, SlotOK, Outcome
<1>9. memory'.due \in BOOLEAN /\ (memory'.due => memory'.pending # None)  BY <1>3
<1>10. ~Fresh => memory'.exists /\ ReservedKeepsTheSlot'
  BY <1>1, <1>3, <1>4 DEF StoreInv, SlotOK, ReservedKeepsTheSlot, Outcome
<1>11. SlotOK'  BY <1>6, <1>8, <1>9, <1>10 DEF SlotOK
<1> QED  BY <1>4, <1>5, <1>11, ClaimsKeepActs DEF StoreInv

LEMMA ProposeKeeps == StoreInv /\ ProposeMove => StoreInv'
<1> SUFFICES ASSUME StoreInv, ProposeMove PROVE StoreInv'  OBVIOUS
<1>1. PICK cmd \in Commands : /\ Rememberable(cmd) /\ (memory.due => cmd.key # memory.pending.key)
                              /\ Remembered(cmd)
  BY DEF ProposeMove
<1>2. memory \in Memories  BY DEF StoreInv, SlotOK, MemoryOK
<1>3. /\ memory' \in Memories /\ memory'.exists = TRUE /\ memory'.version = NextVersion
      /\ memory'.pending = cmd /\ memory'.due = FALSE
  BY <1>1, <1>2, RememberedFields
<1>4. UNCHANGED <<acts, items, moved>>  BY <1>1 DEF Remembered
<1>5. cmd.key \in Key /\ cmd.memory \in Nat /\ cmd # None  BY NoneIsNothing DEF Commands
<1>6. claims \in [Key -> Claims \cup {None}]  BY DEF StoreInv, RecordsOK
<1>7. /\ Outcome(cmd.key) = "none" /\ claims[cmd.key] = None /\ memory.version = cmd.memory
      /\ memory.pending = None \/ Expirable
  BY <1>1, <1>5, <1>6, OutcomeTells DEF Rememberable
<1>8. ClaimsGoOn /\ claims'[cmd.key] = None
      /\ \A k \in Key : claims'[k] # None /\ claims'[k].outcome = "confirming"
            => claims'[k] = claims[k]
  <2>1. CASE memory.pending = None
    <3>1. claims' = claims  BY <1>1, <2>1 DEF Remembered
    <3> QED  BY <1>6, <1>7, <3>1 DEF ClaimsGoOn
  <2>2. CASE memory.pending # None
    <3> DEFINE old == memory.pending
    <3>1. /\ old \in Commands /\ old.key \in Key /\ old.key # cmd.key
          /\ Outcome(old.key) = "none" /\ claims[old.key] = None
      <4>1. old \in Commands /\ old.key \in Key  BY <1>2, <2>2 DEF Memories, Commands
      <4>2. Expirable  BY <1>7, <2>2
      <4>3. Outcome(old.key) = "none"
        BY <2>2, <4>2 DEF Expirable, StoreInv, SlotOK
      <4> QED  BY <1>1, <1>6, <4>1, <4>2, <4>3, OutcomeTells DEF Expirable
    <3>2. claims' = Claimed(old.key, "expired", old, None)
      BY <1>1, <2>2, <3>1 DEF Remembered, Expired
    <3>3. /\ claims' \in [Key -> Claims \cup {None}]
          /\ claims'[old.key] # None /\ claims'[old.key].outcome = "expired"
          /\ claims'[old.key].command = old
          /\ \A k \in Key : k # old.key => claims'[k] = claims[k]
      BY <1>6, <3>1, <3>2, ClaimedFields, ZenonT(60)
    <3> HIDE DEF old
    <3> QED  BY <1>5, <1>7, <3>1, <3>3 DEF ClaimsGoOn
  <2> QED  BY <2>1, <2>2
<1>9. MemoryOK(memory)'
  <2>1. cmd.memory <= NextVersion
    <3>1. ~memory.exists => memory.version = 0  BY DEF StoreInv, SlotOK, MemoryOK
    <3> QED  BY <1>2, <1>5, <1>7, <3>1 DEF NextVersion, Memories
  <2> QED  BY <1>3, <2>1 DEF MemoryOK
<1>10. memory'.pending # None => Outcome(memory.pending.key)' \in {"none", "confirming"}
  BY <1>3, <1>8 DEF Outcome
<1>11. ~Fresh => memory'.exists /\ ReservedKeepsTheSlot'
  <2> SUFFICES ASSUME ~Fresh, NEW k \in Key, Outcome(k)' = "confirming"
               PROVE  FALSE
    BY <1>3 DEF ReservedKeepsTheSlot
  <2>1. claims'[k] # None /\ claims'[k].outcome = "confirming"  BY DEF Outcome
  <2>2. claims[k] # None /\ Outcome(k) = "confirming"  BY <1>8, <2>1 DEF Outcome
  <2>3. memory.pending = claims[k].command  BY <2>2 DEF StoreInv, SlotOK, ReservedKeepsTheSlot
  <2>4. claims[k].command.key = k /\ claims[k].command \in Commands
    BY <1>6, <2>2 DEF StoreInv, RecordsOK, Claims
  <2> QED  BY <1>7, <2>2, <2>3, <2>4, NoneIsNothing DEF Expirable
<1>12. SlotOK'  BY <1>3, <1>9, <1>10, <1>11 DEF SlotOK
<1> QED  BY <1>4, <1>8, <1>12, ClaimsKeepActs DEF StoreInv

LEMMA SettleKeeps == StoreInv /\ SettleMove => StoreInv'
<1> SUFFICES ASSUME StoreInv, SettleMove PROVE StoreInv'  OBVIOUS
<1>1. PICK k \in Key, outcome \in {"cancelled", "expired"} :
          /\ Pending(k) /\ Outcome(k) = "none"
          /\ memory' = Emptied
          /\ claims' = Claimed(k, outcome, memory.pending, None)
          /\ UNCHANGED <<acts, items, moved>>
  BY DEF SettleMove
<1>2. memory \in Memories  BY DEF StoreInv, SlotOK, MemoryOK
<1>3. /\ memory' \in Memories /\ memory'.exists = TRUE /\ memory'.version = NextVersion
      /\ memory'.pending = None /\ memory'.due = FALSE
  BY <1>1, <1>2, EmptiedFields
<1>4. claims \in [Key -> Claims \cup {None}] /\ claims[k] = None
  BY <1>1, OutcomeTells DEF StoreInv, RecordsOK
<1>5. memory.pending \in Commands /\ memory.pending.key = k
  BY <1>1, <1>2 DEF Pending, Memories
<1>6. /\ claims' \in [Key -> Claims \cup {None}]
      /\ claims'[k] # None /\ claims'[k].outcome = outcome
      /\ claims'[k].command = memory.pending
      /\ \A j \in Key : j # k => claims'[j] = claims[j]
  <2> DEFINE old == memory.pending
  <2>1. old \in Commands /\ claims' = Claimed(k, outcome, old, None)  BY <1>1, <1>5
  <2> HIDE DEF old
  <2>2. None \in Nat \cup {None} /\ outcome \in {"confirming", "cancelled", "expired"}
    OBVIOUS
  <2>3. /\ claims' \in [Key -> Claims \cup {None}]
        /\ claims'[k] # None /\ claims'[k].outcome = outcome /\ claims'[k].command = old
        /\ \A j \in Key : j # k => claims'[j] = claims[j]
    BY <1>4, <2>1, <2>2, ClaimedFields
  <2> QED  BY <2>3 DEF old
<1>7. ClaimsGoOn  BY <1>4, <1>5, <1>6 DEF ClaimsGoOn
<1>8. MemoryOK(memory)'  BY <1>3 DEF MemoryOK
<1>9. ~Fresh => memory'.exists /\ ReservedKeepsTheSlot'
  <2> SUFFICES ASSUME ~Fresh, NEW j \in Key, Outcome(j)' = "confirming"
               PROVE  FALSE
    BY <1>3 DEF ReservedKeepsTheSlot
  <2>1. claims'[j] # None /\ claims'[j].outcome = "confirming"  BY DEF Outcome
  <2>2. j # k /\ claims[j] # None /\ Outcome(j) = "confirming"
    BY <1>1, <1>6, <2>1 DEF Outcome
  <2>3. memory.pending = claims[j].command  BY <2>2 DEF StoreInv, SlotOK, ReservedKeepsTheSlot
  <2>4. claims[j].command.key = j  BY <2>2 DEF StoreInv, RecordsOK
  <2> QED  BY <1>5, <2>2, <2>3, <2>4
<1>10. SlotOK'  BY <1>3, <1>8, <1>9 DEF SlotOK
<1> QED  BY <1>1, <1>7, <1>10, ClaimsKeepActs DEF StoreInv

LEMMA ReserveKeeps == StoreInv /\ ReserveMove => StoreInv'
<1> SUFFICES ASSUME StoreInv, ReserveMove PROVE StoreInv'  OBVIOUS
<1>1. PICK cmd \in Commands, v \in Nat :
          /\ Outcome(cmd.key) = "none" /\ memory.pending = cmd
          /\ claims' = Claimed(cmd.key, "confirming", cmd, v)
          /\ UNCHANGED <<memory, acts, items, moved>>
  BY DEF ReserveMove
<1>2. cmd.key \in Key /\ cmd # None  BY NoneIsNothing DEF Commands
<1>3. claims \in [Key -> Claims \cup {None}] /\ claims[cmd.key] = None
  BY <1>1, <1>2, OutcomeTells DEF StoreInv, RecordsOK
<1>4. /\ claims' \in [Key -> Claims \cup {None}]
      /\ claims'[cmd.key] # None /\ claims'[cmd.key].outcome = "confirming"
      /\ claims'[cmd.key].command = cmd
      /\ \A j \in Key : j # cmd.key => claims'[j] = claims[j]
  BY <1>1, <1>2, <1>3, ClaimedFields
<1>5. ClaimsGoOn  BY <1>3, <1>4 DEF ClaimsGoOn
<1>6. memory'.pending # None => Outcome(memory.pending.key)' \in {"none", "confirming"}
  BY <1>1, <1>4 DEF Outcome
<1>7. ~Fresh => ReservedKeepsTheSlot'
  <2> SUFFICES ASSUME ~Fresh, NEW j \in Key, Outcome(j)' = "confirming"
               PROVE  memory'.pending = claims'[j].command
    BY DEF ReservedKeepsTheSlot
  <2>1. CASE j = cmd.key  BY <1>1, <1>4, <2>1
  <2>2. CASE j # cmd.key
    <3>1. Outcome(j) = "confirming"  BY <1>4, <2>2 DEF Outcome
    <3> QED  BY <1>1, <1>4, <2>2, <3>1 DEF StoreInv, SlotOK, ReservedKeepsTheSlot
  <2> QED  BY <2>1, <2>2
<1>8. SlotOK'
  <2>1. MemoryOK(memory)'  BY <1>1 DEF StoreInv, SlotOK, MemoryOK
  <2> QED  BY <1>1, <1>6, <1>7, <2>1 DEF StoreInv, SlotOK
<1> QED  BY <1>1, <1>5, <1>8, ClaimsKeepActs DEF StoreInv

\* What a decision leaves of the claim.
LEMMA EndedFields ==
    ASSUME RecordsOK, NEW cmd \in Commands, Endable(cmd), NEW outcome \in {"confirmed", "stale"},
           Ended(cmd, outcome)
    PROVE  /\ claims' \in [Key -> Claims \cup {None}]
           /\ claims'[cmd.key] # None /\ claims'[cmd.key].outcome = outcome
           /\ claims'[cmd.key].command = claims[cmd.key].command
           /\ \A j \in Key : j # cmd.key => claims'[j] = claims[j]
<1> DEFINE old == claims[cmd.key]
           new == [old EXCEPT !.outcome = outcome]
<1>1. claims' = [claims EXCEPT ![cmd.key] = new]  BY DEF Ended
<1>2. cmd.key \in Key  BY DEF Commands
<1>3. old \in Claims
  <2>1. Outcome(cmd.key) = "confirming"  BY DEF Endable, Fenced
  <2> QED  BY <1>2, <2>1, OutcomeTells DEF RecordsOK
<1> HIDE DEF old
<1>4. new \in Claims /\ new.outcome = outcome /\ new.command = old.command  BY <1>3 DEF Claims
<1> HIDE DEF new
<1>5. claims'[cmd.key] = new  BY <1>1, <1>2 DEF RecordsOK
<1>6. claims'[cmd.key] # None  BY <1>4, <1>5, NoneIsNothing
<1>7. claims' \in [Key -> Claims \cup {None}]  BY <1>1, <1>2, <1>4 DEF RecordsOK
<1>8. \A j \in Key : j # cmd.key => claims'[j] = claims[j]  BY <1>1, <1>2 DEF RecordsOK
<1> QED  BY <1>4, <1>5, <1>6, <1>7, <1>8 DEF old

LEMMA EndKeeps == StoreInv /\ EndMove => StoreInv'
<1> SUFFICES ASSUME StoreInv, EndMove PROVE StoreInv'  OBVIOUS
<1>1. PICK cmd \in Commands, outcome \in {"confirmed", "stale"} :
          /\ Endable(cmd) /\ (outcome = "confirmed" => ConfirmedActivity(cmd.key))
          /\ Ended(cmd, outcome)
  BY DEF EndMove
<1>2. memory \in Memories /\ memory' = Emptied  BY <1>1 DEF StoreInv, SlotOK, MemoryOK, Ended
<1>3. /\ memory' \in Memories /\ memory'.exists = TRUE /\ memory'.version = NextVersion
      /\ memory'.pending = None /\ memory'.due = FALSE
  BY <1>2, EmptiedFields
<1>4. UNCHANGED <<acts, items, moved>>  BY <1>1 DEF Ended
<1>5. RecordsOK  BY DEF StoreInv
<1>6. /\ claims' \in [Key -> Claims \cup {None}]
      /\ claims'[cmd.key] # None /\ claims'[cmd.key].outcome = outcome
      /\ claims'[cmd.key].command = claims[cmd.key].command
      /\ \A j \in Key : j # cmd.key => claims'[j] = claims[j]
  BY <1>1, <1>5, EndedFields
<1>7. /\ memory.pending = cmd /\ cmd.key \in Key
      /\ claims[cmd.key] # None /\ claims[cmd.key].outcome = "confirming"
  BY <1>1 DEF Endable, Fenced, Outcome, Commands
<1>8. ClaimsGoOn  BY <1>1, <1>6, <1>7 DEF ClaimsGoOn
<1>9. ~Fresh => memory'.exists /\ ReservedKeepsTheSlot'
  <2> SUFFICES ASSUME ~Fresh, NEW j \in Key, Outcome(j)' = "confirming"
               PROVE  FALSE
    BY <1>3 DEF ReservedKeepsTheSlot
  <2>1. claims'[j] # None /\ claims'[j].outcome = "confirming"  BY DEF Outcome
  <2>2. j # cmd.key /\ claims[j] # None /\ Outcome(j) = "confirming"
    BY <1>6, <2>1 DEF Outcome
  <2>3. memory.pending = claims[j].command  BY <2>2 DEF StoreInv, SlotOK, ReservedKeepsTheSlot
  <2>4. claims[j].command.key = j  BY <2>2 DEF StoreInv, RecordsOK
  <2> QED  BY <1>7, <2>2, <2>3, <2>4
<1>10. MemoryOK(memory)'  BY <1>3 DEF MemoryOK
<1>11. SlotOK'  BY <1>3, <1>9, <1>10 DEF SlotOK
<1> QED  BY <1>4, <1>8, <1>11, ClaimsKeepActs DEF StoreInv

LEMMA DueKeeps == StoreInv /\ DueMove => StoreInv'
<1> SUFFICES ASSUME StoreInv, DueMove PROVE StoreInv'  OBVIOUS
<1>1. UNCHANGED <<claims, acts, items, moved>>  BY DEF DueMove
<1>2. memory \in Memories  BY DEF StoreInv, SlotOK, MemoryOK
<1>3. /\ memory' \in Memories /\ memory'.exists = memory.exists
      /\ memory'.version = memory.version /\ memory'.pending = memory.pending
      /\ memory'.due = TRUE
  BY <1>2, OneField DEF DueMove
<1>4. memory.pending # None  BY DEF DueMove
<1>5. ClaimsGoOn  BY <1>1 DEF ClaimsGoOn, StoreInv, RecordsOK
<1>6. MemoryOK(memory)'  BY <1>3 DEF StoreInv, SlotOK, MemoryOK
<1>7. Outcome(memory.pending.key)' = Outcome(memory.pending.key)  BY <1>1, <1>3 DEF Outcome
<1>8. ~Fresh => memory'.exists /\ ReservedKeepsTheSlot'
  BY <1>1, <1>3 DEF StoreInv, SlotOK, ReservedKeepsTheSlot, Outcome
<1>9. SlotOK'  BY <1>3, <1>4, <1>6, <1>7, <1>8 DEF StoreInv, SlotOK
<1> QED  BY <1>1, <1>5, <1>9, ClaimsKeepActs DEF StoreInv

\* The memory and the claims as they are: the slot is.
LEMMA SlotStays == SlotOK /\ UNCHANGED <<memory, claims>> => SlotOK'
<1> SUFFICES ASSUME SlotOK, UNCHANGED <<memory, claims>> PROVE SlotOK'  OBVIOUS
<1>1. MemoryOK(memory)'  BY DEF SlotOK, MemoryOK
<1>2. memory'.pending # None => Outcome(memory.pending.key)' \in {"none", "confirming"}
  BY DEF SlotOK, Outcome
<1>3. ~Fresh => memory'.exists /\ ReservedKeepsTheSlot'
  BY DEF SlotOK, ReservedKeepsTheSlot, Outcome
<1> QED  BY <1>1, <1>2, <1>3 DEF SlotOK

LEMMA OneActivity ==
    ASSUME RecordsOK, NEW k \in Key, NEW i \in Slot, NEW a \in Activities,
           acts' = [acts EXCEPT ![k][i] = a]
    PROVE  /\ acts' \in [Key -> [Slot -> Activities \cup {None}]]
           /\ acts'[k][i] = a /\ acts'[k][i] # None
           /\ \A j \in Slot : j # i => acts'[k][j] = acts[k][j]
           /\ \A l \in Key : l # k => acts'[l] = acts[l]
<1> DEFINE old == acts[k]
           new == [old EXCEPT ![i] = a]
<1>1. acts' = [acts EXCEPT ![k] = new]  OBVIOUS
<1>2. old \in [Slot -> Activities \cup {None}]  BY DEF RecordsOK
<1> HIDE DEF old
<1>3. /\ new \in [Slot -> Activities \cup {None}] /\ new[i] = a
      /\ \A j \in Slot : j # i => new[j] = old[j]
  BY <1>2
<1> HIDE DEF new
<1>4. /\ acts' \in [Key -> [Slot -> Activities \cup {None}]] /\ acts'[k] = new
      /\ \A l \in Key : l # k => acts'[l] = acts[l]
  BY <1>1, <1>3 DEF RecordsOK
<1> QED  BY <1>3, <1>4, NoneIsNothing DEF old

LEMMA VersionsSeen == items \in Items => \A S : Versions(S) \in Seen
BY DEF Versions, Seen, Items

LEMMA BumpedItems == items \in Items => \A S : Bumped(S) \in Items
BY DEF Bumped, Items

\* What ActsTell says of one message.
ActTells(k) ==
    /\ moved[k] = IF ConfirmedActivity(k) \/ acts[k][Approved] # None THEN 1 ELSE 0
    /\ acts[k][Approved] # None => /\ acts[k][0] # None /\ acts[k][0].kind = "largeMove"
                                   /\ acts[k][Approved].on = acts[k][0].on
    /\ ConfirmedActivity(k) => /\ Outcome(k) \in {"confirming", "confirmed", "stale"}
                               /\ acts[k][0].on = claims[k].command.seen
    /\ Outcome(k) = "confirmed" => ConfirmedActivity(k)

LEMMA ActsTellIs == ActsTell <=> \A k \in Key : ActTells(k)
BY DEF ActsTell, ActTells

LEMMA ActStays ==
    ASSUME NEW k \in Key, ActTells(k), acts'[k] = acts[k], moved'[k] = moved[k],
           UNCHANGED claims
    PROVE  ActTells(k)'
<1>1. ConfirmedActivity(k)' <=> ConfirmedActivity(k)  BY DEF ConfirmedActivity
<1>2. Outcome(k)' = Outcome(k)  BY DEF Outcome
<1> QED  BY <1>1, <1>2 DEF ActTells

LEMMA SlotNumbers == 0 \in Slot /\ Approved \in Slot /\ Approved \notin 0 .. Clauses
BY DEF Slot, Approved, Clauses

LEMMA ApplyKeeps == StoreInv /\ ApplyMove => StoreInv'
<1> SUFFICES ASSUME StoreInv, ApplyMove PROVE StoreInv'  OBVIOUS
<1>1. PICK cmd \in Commands :
          Fenced(cmd) /\ acts[cmd.key][0] = None /\ Applicable(cmd) /\ Applied(cmd)
  BY DEF ApplyMove
<1> DEFINE k == cmd.key
           a == [kind |-> "confirmed", item |-> cmd.task, on |-> Proposed(cmd.task)]
<1>2. k \in Key /\ cmd.task \in Item /\ cmd.seen \in Seen  BY DEF Commands
<1>3. RecordsOK /\ items \in Items  BY DEF StoreInv, RecordsOK
<1>4. a.on = cmd.seen /\ a.kind = "confirmed"
  BY <1>1 DEF Applicable, Current, Proposed
<1>5. a \in Activities
  BY <1>2, <1>4 DEF Activities
<1>6. /\ acts' = [acts EXCEPT ![k][0] = a] /\ moved' = [moved EXCEPT ![k] = @ + 1]
      /\ items' = Bumped(Covered(cmd.seen)) /\ UNCHANGED <<memory, claims>>
  BY <1>1 DEF Applied
<1>7. acts[k][0] = None /\ Outcome(k) = "confirming" /\ claims[k].command = cmd
  BY <1>1 DEF Fenced
<1> HIDE DEF k, a
<1>8. /\ acts' \in [Key -> [Slot -> Activities \cup {None}]]
      /\ acts'[k][0] = a /\ acts'[k][0] # None
      /\ \A j \in Slot : j # 0 => acts'[k][j] = acts[k][j]
      /\ \A l \in Key : l # k => acts'[l] = acts[l]
  BY <1>2, <1>3, <1>5, <1>6, SlotNumbers, OneActivity
<1>9. items' \in Items  BY <1>3, <1>6, BumpedItems
<1>10. /\ moved' \in [Key -> Nat] /\ moved'[k] = moved[k] + 1
       /\ \A l \in Key : l # k => moved'[l] = moved[l]
  BY <1>2, <1>3, <1>6 DEF RecordsOK
<1>11. RecordsOK'  BY <1>3, <1>6, <1>8, <1>9, <1>10 DEF RecordsOK
<1>12. ActTells(k)'
  <2>1. ActTells(k)  BY <1>2, ActsTellIs DEF StoreInv
  <2>2. ~ConfirmedActivity(k) /\ acts[k][Approved] = None
    BY <1>7, <2>1 DEF ActTells, ConfirmedActivity
  <2>3. moved[k] = 0  BY <2>1, <2>2 DEF ActTells
  <2>4. acts'[k][Approved] = None
    BY <1>8, <2>2, SlotNumbers DEF Approved, Clauses
  <2>5. ConfirmedActivity(k)'  BY <1>4, <1>8 DEF ConfirmedActivity
  <2>6. Outcome(k)' = "confirming" /\ claims'[k].command = cmd  BY <1>6, <1>7 DEF Outcome
  <2> QED  BY <1>4, <1>8, <1>10, <2>3, <2>4, <2>5, <2>6 DEF ActTells
<1>13. ActsTell'
  <2>1. \A l \in Key : l # k => ActTells(l)'
    BY <1>6, <1>8, <1>10, ActStays, ActsTellIs DEF StoreInv
  <2> QED  BY <1>12, <2>1, ActsTellIs DEF ActsTell, ActTells
<1>14. SlotOK'  BY <1>6, SlotStays DEF StoreInv
<1> QED  BY <1>11, <1>13, <1>14 DEF StoreInv

LEMMA RecordKeeps == StoreInv /\ RecordMove => StoreInv'
<1> SUFFICES ASSUME StoreInv, RecordMove PROVE StoreInv'  OBVIOUS
<1>1. PICK k \in Key, i \in 0 .. Clauses, a \in Activities :
          /\ acts[k][i] = None /\ a.kind # "confirmed"
          /\ acts' = [acts EXCEPT ![k][i] = a]
          /\ items' \in Items
          /\ UNCHANGED <<memory, claims, moved>>
  BY DEF RecordMove
<1>2. RecordsOK /\ i \in Slot /\ i # Approved  BY DEF StoreInv, Slot, Approved, Clauses
<1>3. /\ acts' \in [Key -> [Slot -> Activities \cup {None}]]
      /\ acts'[k][i] = a /\ acts'[k][i] # None
      /\ \A j \in Slot : j # i => acts'[k][j] = acts[k][j]
      /\ \A l \in Key : l # k => acts'[l] = acts[l]
  BY <1>1, <1>2, OneActivity
<1>4. RecordsOK'  BY <1>1, <1>2, <1>3 DEF RecordsOK
<1>5. ActTells(k)'
  <2>1. ActTells(k)  BY ActsTellIs DEF StoreInv
  <2>2. acts'[k][Approved] = acts[k][Approved]  BY <1>2, <1>3, SlotNumbers
  <2>3. Outcome(k)' = Outcome(k) /\ claims'[k] = claims[k] /\ moved'[k] = moved[k]
    BY <1>1 DEF Outcome
  <2>4. CASE i = 0
    <3>1. ~ConfirmedActivity(k) /\ acts[k][Approved] = None /\ ~ConfirmedActivity(k)'
      BY <1>1, <1>3, <2>1, <2>4 DEF ActTells, ConfirmedActivity
    <3> QED  BY <2>1, <2>2, <2>3, <3>1 DEF ActTells
  <2>5. CASE i # 0
    <3>1. acts'[k][0] = acts[k][0]  BY <1>3, <2>5, SlotNumbers
    <3>2. ConfirmedActivity(k)' <=> ConfirmedActivity(k)  BY <3>1 DEF ConfirmedActivity
    <3> QED  BY <2>1, <2>2, <2>3, <3>1, <3>2 DEF ActTells
  <2> QED  BY <2>4, <2>5
<1>6. \A l \in Key : l # k => ActTells(l)'
  BY <1>1, <1>3, ActStays, ActsTellIs DEF StoreInv
<1>7. ActsTell'  BY <1>5, <1>6 DEF ActsTell, ActTells
<1>8. SlotOK'  BY <1>1, SlotStays DEF StoreInv
<1> QED  BY <1>4, <1>7, <1>8 DEF StoreInv

LEMMA ContinueKeeps == StoreInv /\ ContinueMove => StoreInv'
<1> SUFFICES ASSUME StoreInv, ContinueMove PROVE StoreInv'  OBVIOUS
<1>1. PICK k \in Key : Continuable(k) /\ Continued(k)  BY DEF ContinueMove
<1>2. RecordsOK /\ items \in Items  BY DEF StoreInv, RecordsOK
<1> DEFINE old == acts[k][0]
           a == Activity("approved", old.item, old.on)
<1>3. old \in Activities /\ old.kind = "largeMove" /\ acts[k][Approved] = None
  BY <1>1, <1>2, SlotNumbers DEF Continuable, RecordsOK
<1>4. /\ acts' = [acts EXCEPT ![k][Approved] = a] /\ moved' = [moved EXCEPT ![k] = @ + 1]
      /\ items' = Bumped(Covered(old.on)) /\ UNCHANGED <<memory, claims>>
  BY <1>1 DEF Continued
<1>5. old # None /\ acts[k][0] = old  BY <1>3, NoneIsNothing
<1> HIDE DEF old
<1>6. a \in Activities /\ a.on = old.on  BY <1>3 DEF Activity, Activities
<1> HIDE DEF a
<1>7. /\ acts' \in [Key -> [Slot -> Activities \cup {None}]]
      /\ acts'[k][Approved] = a /\ acts'[k][Approved] # None
      /\ \A j \in Slot : j # Approved => acts'[k][j] = acts[k][j]
      /\ \A l \in Key : l # k => acts'[l] = acts[l]
  BY <1>2, <1>4, <1>6, SlotNumbers, OneActivity
<1>8. acts'[k][0] = old
  BY <1>5, <1>7, SlotNumbers DEF Approved, Clauses
<1>9. items' \in Items  BY <1>2, <1>4, BumpedItems
<1>10. /\ moved' \in [Key -> Nat] /\ moved'[k] = moved[k] + 1
       /\ \A l \in Key : l # k => moved'[l] = moved[l]
  BY <1>2, <1>4 DEF RecordsOK
<1>11. RecordsOK'  BY <1>2, <1>4, <1>7, <1>9, <1>10 DEF RecordsOK
<1>12. ActTells(k)'
  <2>1. ActTells(k)  BY ActsTellIs DEF StoreInv
  <2>2. ~ConfirmedActivity(k) /\ ~ConfirmedActivity(k)'
    BY <1>3, <1>5, <1>8 DEF ConfirmedActivity
  <2>3. Outcome(k)' = Outcome(k)  BY <1>4 DEF Outcome
  <2>4. moved[k] = 0  BY <1>3, <2>1, <2>2 DEF ActTells
  <2> QED  BY <1>3, <1>5, <1>6, <1>7, <1>8, <1>10, <2>1, <2>2, <2>3, <2>4 DEF ActTells
<1>13. \A l \in Key : l # k => ActTells(l)'
  BY <1>4, <1>7, <1>10, ActStays, ActsTellIs DEF StoreInv
<1>14. ActsTell'  BY <1>12, <1>13 DEF ActsTell, ActTells
<1>15. SlotOK'  BY <1>4, SlotStays DEF StoreInv
<1> QED  BY <1>11, <1>14, <1>15 DEF StoreInv

LEMMA EditKeeps == StoreInv /\ EditMove => StoreInv'
<1> SUFFICES ASSUME StoreInv, EditMove PROVE StoreInv'  OBVIOUS
<1>1. items' \in Items /\ UNCHANGED <<memory, claims, acts, moved>>  BY DEF EditMove
<1>2. RecordsOK'  BY <1>1 DEF StoreInv, RecordsOK
<1>3. \A l \in Key : ActTells(l)'
  BY <1>1, ActStays, ActsTellIs DEF StoreInv
<1>4. ActsTell'  BY <1>3 DEF ActsTell, ActTells
<1>5. SlotOK'  BY <1>1, SlotStays DEF StoreInv
<1> QED  BY <1>2, <1>4, <1>5 DEF StoreInv

LEMMA NothingKeeps == StoreInv /\ UNCHANGED store => StoreInv'
<1> SUFFICES ASSUME StoreInv, UNCHANGED store PROVE StoreInv'  OBVIOUS
<1>1. UNCHANGED <<memory, claims, acts, items, moved>>  BY DEF store
<1>2. EditMove  BY <1>1 DEF EditMove, StoreInv, RecordsOK
<1> QED  BY <1>2, EditKeeps

LEMMA StoreKeeps == StoreInv /\ (StoreMove \/ UNCHANGED store) => StoreInv'
BY SaveKeeps, ProposeKeeps, SettleKeeps, ReserveKeeps, EndKeeps, DueKeeps, ApplyKeeps,
   RecordKeeps, ContinueKeeps, EditKeeps, NothingKeeps
   DEF StoreMove, CallMove

-----------------------------------------------------------------------------
(****************************************************************************)
(* The calls.                                                               *)
(****************************************************************************)

MessagePlaces == {"answer", "classify", "cite", "ask", "clear", "save", "saveAndAct", "look",
                  "evict", "interpret", "compose", "composeBatch", "remember", "recheck",
                  "apply", "purchase", "escalate", "submit"}

\* The place tells the shape.
LEMMA PlaceTells ==
    ASSUME NEW r, CallOK(r)
    PROVE  /\ r.at \in MessagePlaces => MessageOK(r)
           /\ r.at \in {"due", "require", "cancel"} => RequestOK(r)
           /\ r.at \in {"reserve", "dispatch", "lookup", "complete", "abort"} => DecisionOK(r)
BY DEF CallOK, MessageOK, RequestOK, DecisionOK, Idle, MessagePlaces

\* What the store does to what the calls know of it.
MemoryGoesOn ==
    /\ memory.exists => memory'.exists
    /\ memory.version <= memory'.version
    /\ memory.exists /\ memory'.version = memory.version => memory'.pending = memory.pending
DueGoesOn == memory'.due => memory.due /\ memory'.pending = memory.pending
ConfirmedGoOn == \A k \in Key : ConfirmedActivity(k) => ConfirmedActivity(k)'

LEMMA WritingGoesOn ==
    ASSUME SlotOK, memory'.exists = TRUE, memory'.version = NextVersion
    PROVE  MemoryGoesOn
BY DEF SlotOK, MemoryOK, Memories, NextVersion, MemoryGoesOn

LEMMA StayingGoesOn ==
    ASSUME SlotOK, UNCHANGED memory
    PROVE  MemoryGoesOn /\ DueGoesOn
BY DEF SlotOK, MemoryOK, Memories, MemoryGoesOn, DueGoesOn

LEMMA ActivitiesGoOn ==
    ASSUME RecordsOK, NEW k \in Key, NEW i \in Slot, NEW a \in Activities,
           acts[k][i] = None, acts' = [acts EXCEPT ![k][i] = a]
    PROVE  ConfirmedGoOn
<1> SUFFICES ASSUME NEW l \in Key, ConfirmedActivity(l)  PROVE ConfirmedActivity(l)'
  BY DEF ConfirmedGoOn
<1>1. /\ \A j \in Slot : j # i => acts'[k][j] = acts[k][j]
      /\ \A m \in Key : m # k => acts'[m] = acts[m]
  BY OneActivity
<1>2. l # k \/ i # 0  BY DEF ConfirmedActivity
<1> QED  BY <1>1, <1>2, SlotNumbers DEF ConfirmedActivity

LEMMA CallMoveGoesOn ==
    ASSUME StoreInv, CallMove \/ UNCHANGED store
    PROVE  MemoryGoesOn /\ DueGoesOn /\ ConfirmedGoOn
<1>1. SlotOK /\ RecordsOK /\ memory \in Memories  BY DEF StoreInv, SlotOK, MemoryOK
<1>2. UNCHANGED acts => ConfirmedGoOn  BY DEF ConfirmedGoOn, ConfirmedActivity
<1>3. CASE SaveMove
  <2>1. PICK m \in Memories : /\ MemoryOK(m) /\ (~Fresh => m.exists)
                              /\ m.exists => memory.exists /\ m.pending = memory.pending
                              /\ Saved(m)
    BY <1>3 DEF SaveMove
  <2>2. /\ memory'.exists = TRUE /\ memory'.version = NextVersion
        /\ memory'.pending = m.pending /\ memory'.due = (memory.due /\ m.pending # None)
    BY <1>1, <2>1, SavedFields
  <2>3. UNCHANGED acts  BY <2>1 DEF Saved
  <2>4. DueGoesOn  BY <2>1, <2>2 DEF DueGoesOn, MemoryOK
  <2> QED  BY <1>1, <1>2, <2>2, <2>3, <2>4, WritingGoesOn
<1>4. CASE ProposeMove
  <2>1. PICK cmd \in Commands : Remembered(cmd)  BY <1>4 DEF ProposeMove
  <2>2. memory'.exists = TRUE /\ memory'.version = NextVersion /\ memory'.due = FALSE
    BY <1>1, <2>1, RememberedFields
  <2>3. UNCHANGED acts  BY <2>1 DEF Remembered
  <2> QED  BY <1>1, <1>2, <2>2, <2>3, WritingGoesOn DEF DueGoesOn
<1>5. CASE SettleMove \/ EndMove
  <2>1. memory' = Emptied /\ UNCHANGED acts  BY <1>5 DEF SettleMove, EndMove, Ended
  <2>2. memory'.exists = TRUE /\ memory'.version = NextVersion /\ memory'.due = FALSE
    BY <1>1, <2>1, EmptiedFields
  <2> QED  BY <1>1, <1>2, <2>1, <2>2, WritingGoesOn DEF DueGoesOn
<1>6. CASE ReserveMove \/ EditMove \/ UNCHANGED store
  <2>1. UNCHANGED <<memory, acts>>  BY <1>6 DEF ReserveMove, EditMove, store
  <2> QED  BY <1>1, <1>2, <2>1, StayingGoesOn
<1>7. CASE ApplyMove
  <2>1. PICK cmd \in Commands : acts[cmd.key][0] = None /\ Applicable(cmd) /\ Applied(cmd)
    BY <1>7 DEF ApplyMove
  <2> DEFINE a == [kind |-> "confirmed", item |-> cmd.task, on |-> Proposed(cmd.task)]
  <2>2. a \in Activities /\ cmd.key \in Key
    BY <1>1, VersionsSeen DEF Activities, Commands, RecordsOK, Proposed
  <2>3. acts' = [acts EXCEPT ![cmd.key][0] = a] /\ UNCHANGED memory  BY <2>1 DEF Applied
  <2> HIDE DEF a
  <2>4. ConfirmedGoOn  BY <1>1, <2>1, <2>2, <2>3, SlotNumbers, ActivitiesGoOn
  <2> QED  BY <1>1, <2>3, <2>4, StayingGoesOn
<1>8. CASE RecordMove
  <2>1. PICK k \in Key, i \in 0 .. Clauses, a \in Activities :
            acts[k][i] = None /\ acts' = [acts EXCEPT ![k][i] = a] /\ UNCHANGED memory
    BY <1>8 DEF RecordMove
  <2>2. i \in Slot  BY DEF Slot, Approved, Clauses
  <2>3. ConfirmedGoOn  BY <1>1, <2>1, <2>2, ActivitiesGoOn
  <2> QED  BY <1>1, <2>1, <2>3, StayingGoesOn
<1>9. CASE ContinueMove
  <2>1. PICK k \in Key : Continuable(k) /\ Continued(k)  BY <1>9 DEF ContinueMove
  <2> DEFINE a == Activity("approved", acts[k][0].item, acts[k][0].on)
  <2>2. acts[k][0] \in Activities /\ acts[k][Approved] = None
    BY <1>1, <2>1, SlotNumbers DEF Continuable, RecordsOK
  <2>3. a \in Activities  BY <2>2 DEF Activity, Activities
  <2>4. acts' = [acts EXCEPT ![k][Approved] = a] /\ UNCHANGED memory  BY <2>1 DEF Continued
  <2> HIDE DEF a
  <2>5. ConfirmedGoOn  BY <1>1, <2>2, <2>3, <2>4, SlotNumbers, ActivitiesGoOn
  <2> QED  BY <1>1, <2>4, <2>5, StayingGoesOn
<1> QED  BY <1>3, <1>4, <1>5, <1>6, <1>7, <1>8, <1>9 DEF CallMove

\* What a call knows stays true as long as it does nothing.
LEMMA CallStays ==
    ASSUME StoreInv, MemoryGoesOn, DueGoesOn, ConfirmedGoOn, StoreInv', NEW r, CallTells(r)
    PROVE  CallTells(r)'
<1>1. CallOK(r)'  BY DEF CallTells
<1>2. CopyTells(r)'
  <2> SUFFICES ASSUME r.at \in {"save", "saveAndAct"}
               PROVE  /\ r.seen.exists => memory'.exists
                      /\ ~Fresh => r.seen.exists
                      /\ r.seen.version <= memory'.version
                      /\ r.seen.exists /\ r.seen.version = memory'.version
                            => r.seen.pending = memory'.pending
    BY DEF CopyTells
  <2>1. r.seen.version \in Nat
    BY PlaceTells DEF CallTells, MessageOK, MessagePlaces, MemoryOK, Memories
  <2>2. memory.version \in Nat /\ memory'.version \in Nat
    BY DEF StoreInv, SlotOK, MemoryOK, Memories
  <2> QED  BY <2>1, <2>2 DEF CallTells, CopyTells, MemoryGoesOn
<1>3. DueTells(r)'  BY DEF CallTells, DueTells, DueGoesOn
<1>4. ReceiptTells(r)'
  <2> SUFFICES ASSUME r.at = "complete"  PROVE ConfirmedActivity(r.seen.key)'
    BY DEF ReceiptTells
  <2>1. r.seen.key \in Key  BY PlaceTells DEF CallTells, DecisionOK
  <2> QED  BY <2>1 DEF CallTells, ReceiptTells, ConfirmedGoOn
<1> QED  BY <1>1, <1>2, <1>3, <1>4 DEF CallTells

\* A step of one call: the store moves or does not, and what the call knows
\* then is true.
CallStep(c) ==
    /\ CallMove \/ UNCHANGED store
    /\ \E r : calls' = [calls EXCEPT ![c] = r] /\ CallTells(r)'

LEMMA SameCall ==
    ASSUME NEW r, NEW d \in Call, calls'[d] = r, CallTells(r)'
    PROVE  CallTells(calls[d])'
BY DEF CallTells, CallOK, MessageOK, RequestOK, DecisionOK, CopyTells, DueTells, ReceiptTells,
       IsMessage, IsRequest, IsDecision

LEMMA CallsKeep == ASSUME ConversationInv, NEW c \in Call, CallStep(c)  PROVE ConversationInv'
<1>1. StoreInv  BY StoreInvIs DEF ConversationInv
<1>2. StoreInv'  BY <1>1, StoreKeeps DEF CallStep, StoreMove
<1>3. MemoryGoesOn /\ DueGoesOn /\ ConfirmedGoOn  BY <1>1, CallMoveGoesOn DEF CallStep
<1>4. PICK r : calls' = [calls EXCEPT ![c] = r] /\ CallTells(r)'  BY DEF CallStep
<1>5. calls' = [d \in Call |-> calls'[d]]  BY <1>4 DEF ConversationInv, CallsTell
<1>6. ASSUME NEW d \in Call  PROVE CallTells(calls[d])'
  <2>1. CASE d = c
    <3>1. calls'[d] = r  BY <1>4, <2>1 DEF ConversationInv, CallsTell
    <3> QED  BY <1>4, <3>1, SameCall
  <2>2. CASE d # c
    <3> PICK s : s = calls[d]  OBVIOUS
    <3>1. calls'[d] = s  BY <1>4, <2>2 DEF ConversationInv, CallsTell
    <3>2. CallTells(s)  BY DEF ConversationInv, CallsTell
    <3>3. CallTells(s)'  BY <1>1, <1>2, <1>3, <3>2, CallStays
    <3> QED  BY <3>1, <3>3, SameCall
  <2> QED  BY <2>1, <2>2
<1>7. CallsTell'  BY <1>5, <1>6 DEF CallsTell
<1> QED  BY <1>2, <1>7, StoreInvIs DEF ConversationInv

LEMMA IdleTells == CallTells(Idle) /\ CallTells(Idle)'
BY DEF CallTells, CallOK, CopyTells, DueTells, ReceiptTells, Idle

\* A call that ends.
LEMMA EndStep ==
    ASSUME NEW c \in Call, CallMove \/ UNCHANGED store, End(c)
    PROVE  CallStep(c)
BY IdleTells DEF CallStep, End, Go

\* A call that only reads.
LEMMA QuietStep ==
    ASSUME NEW c \in Call, NEW r, CallTells(r), UNCHANGED store, Go(c, r)
    PROVE  CallStep(c)
<1>1. UNCHANGED <<memory, acts>>  BY DEF store
<1>2. CallTells(r)'
  BY <1>1 DEF CallTells, CallOK, MessageOK, RequestOK, DecisionOK, CopyTells, DueTells,
              ReceiptTells, ConfirmedActivity, IsMessage, IsRequest, IsDecision
<1> QED  BY <1>2 DEF CallStep, Go

\* A message that knows nothing of the store.
LEMMA PlainMessage ==
    ASSUME NEW r, MessageOK(r), r.at \notin {"save", "saveAndAct", "interpret", "compose", "remember"}
    PROVE  CallTells(r) /\ CallTells(r)'
<1>1. r.at # "complete"  BY DEF MessageOK
<1>2. CallOK(r) /\ CopyTells(r) /\ DueTells(r) /\ ReceiptTells(r)
  BY <1>1 DEF CallOK, CopyTells, DueTells, ReceiptTells
<1>3. CallOK(r)' /\ CopyTells(r)' /\ DueTells(r)' /\ ReceiptTells(r)'
  BY <1>1 DEF CallOK, CopyTells, DueTells, ReceiptTells
<1> QED  BY <1>2, <1>3 DEF CallTells

LEMMA ReadingIs ==
    ASSUME NEW r \in Reading
    PROVE  /\ r.kind \in Kind /\ r.refs \in Mentions
           /\ Len(r.refs) \in 1 .. Clauses
           /\ \A i \in 1 .. Len(r.refs) : r.refs[i] \in Item
           /\ Subject(r) \in Item
           /\ \A x \in Kind : [r EXCEPT !.kind = x] \in Reading
           /\ [r EXCEPT !.kind = "largeMove"] \in [kind : {"largeMove"}, refs : Mentions]
<1>1. r.kind \in Kind /\ r.refs \in Mentions  BY DEF Reading
<1>2. PICK n \in 1 .. Clauses : r.refs \in [1 .. n -> Item]  BY <1>1 DEF Mentions
<1>3. n \in Nat /\ n >= 1  BY <1>2 DEF Clauses
<1>4. Len(r.refs) = n  BY <1>2, <1>3
<1> QED  BY <1>1, <1>2, <1>3, <1>4 DEF Subject, Reading, Clauses

LEMMA MeaningsAre == ASSUME NEW r \in Reading  PROVE Meanings(r) \subseteq Reading
<1>1. "stock" \in Kind /\ "purchase" \in Kind  BY DEF Kind
<1>2. [r EXCEPT !.kind = "stock"] \in Reading /\ [r EXCEPT !.kind = "purchase"] \in Reading
  BY <1>1, ReadingIs
<1> QED  BY <1>2 DEF Meanings

LEMMA RouteIs == ASSUME NEW r  PROVE Route(r) \in {"cite", "submit", "ask", "look"}
BY DEF Route

LEMMA MessageStep ==
    ASSUME ConversationInv, NEW c \in Call, NEW k \in Key, Message(c, k)
    PROVE  CallStep(c)
<1> DEFINE r == [at |-> IF memory.question = {} THEN "classify" ELSE "answer", key |-> k,
                 reading |-> None, seen |-> memory.question, clause |-> 0]
<1>1. memory.question \subseteq Reading  BY DEF ConversationInv, TypeOK, Memories
<1>2. MessageOK(r)
  <2>1. IsMessage(r)  BY DEF IsMessage
  <2> QED  BY <1>1, <2>1 DEF MessageOK, Clauses
<1>3. r.at \in {"classify", "answer"}  OBVIOUS
<1>4. Go(c, r) /\ UNCHANGED store  BY DEF Message
<1> HIDE DEF r
<1>5. CallTells(r)  BY <1>2, <1>3, PlainMessage
<1> QED  BY <1>4, <1>5, QuietStep

LEMMA AnswerStep ==
    ASSUME ConversationInv, NEW c \in Call, Answer(c)
    PROVE  CallStep(c)
<1>0. PICK r : r = calls[c]  OBVIOUS
<1>1. r.at = "answer" /\ CallTells(r)  BY <1>0 DEF Answer, In, ConversationInv, CallsTell
<1>2. MessageOK(r) /\ IsMessage(r)  BY <1>1, PlaceTells DEF MessagePlaces, MessageOK, CallTells
<1>3. UNCHANGED store  BY DEF Answer
<1>4. CASE \E x \in r.seen : Go(c, [r EXCEPT !.at = "clear", !.reading = x])
  <2>1. PICK x \in r.seen : Go(c, [r EXCEPT !.at = "clear", !.reading = x])  BY <1>4
  <2>2. PICK n : n = [r EXCEPT !.at = "clear", !.reading = x]  OBVIOUS
  <2>3. MessageOK(n) /\ n.at = "clear"  BY <1>1, <1>2, <2>1, <2>2 DEF MessageOK, IsMessage
  <2>4. CallTells(n)  BY <2>3, PlainMessage
  <2> QED  BY <1>3, <2>1, <2>2, <2>4, QuietStep
<1>5. CASE Go(c, [r EXCEPT !.at = "clear"])
  <2>1. PICK n : n = [r EXCEPT !.at = "clear"]  OBVIOUS
  <2>2. MessageOK(n) /\ n.at = "clear"  BY <1>1, <1>2, <2>1 DEF MessageOK, IsMessage
  <2>3. CallTells(n)  BY <2>2, PlainMessage
  <2> QED  BY <1>3, <1>5, <2>1, <2>3, QuietStep
<1>6. CASE End(c)  BY <1>3, <1>6, EndStep
<1> QED  BY <1>0, <1>4, <1>5, <1>6 DEF Answer, Move

LEMMA ClassifyStep ==
    ASSUME ConversationInv, NEW c \in Call, Classify(c)
    PROVE  CallStep(c)
<1>0. PICK r : r = calls[c]  OBVIOUS
<1>1. r.at = "classify" /\ CallTells(r)  BY <1>0 DEF Classify, In, ConversationInv, CallsTell
<1>2. MessageOK(r) /\ IsMessage(r)  BY <1>1, PlaceTells DEF MessagePlaces, MessageOK, CallTells
<1>3. UNCHANGED store  BY DEF Classify
<1>4. ASSUME NEW m \in Meaning[r.key],
             Go(c, [r EXCEPT !.at = Route(m), !.reading = IF Route(m) = "submit" THEN m ELSE None,
                             !.seen = IF Route(m) = "ask" THEN Meanings(m) ELSE {}])
      PROVE  CallStep(c)
  <2>1. m \in Reading  BY <1>2, ConversationAssumption DEF MessageOK
  <2>2. PICK at : at = Route(m)  OBVIOUS
  <2>3. PICK reading : reading = IF at = "submit" THEN m ELSE None  OBVIOUS
  <2>4. PICK seen : seen = IF at = "ask" THEN Meanings(m) ELSE {}  OBVIOUS
  <2>5. PICK n : n = [r EXCEPT !.at = at, !.reading = reading, !.seen = seen]  OBVIOUS
  <2>6. Go(c, n)  BY <1>4, <2>2, <2>3, <2>4, <2>5
  <2>7. at \in {"cite", "submit", "ask", "look"}  BY <2>2, RouteIs
  <2>8. /\ reading \in Reading \cup {None} /\ (at = "submit" => reading \in Reading)
        /\ seen \subseteq Reading
    BY <2>1, <2>3, <2>4, MeaningsAre
  <2>9. MessageOK(n) /\ n.at = at
    BY <1>1, <1>2, <2>5, <2>7, <2>8 DEF MessageOK, IsMessage
  <2>10. CallTells(n)  BY <2>7, <2>9, PlainMessage
  <2> QED  BY <1>3, <2>6, <2>10, QuietStep
<1>5. CASE End(c)  BY <1>3, <1>5, EndStep
<1> QED  BY <1>0, <1>4, <1>5 DEF Classify

LEMMA MessageHere ==
    ASSUME ConversationInv, NEW c \in Call, NEW r, r = calls[c], r.at \in MessagePlaces
    PROVE  MessageOK(r) /\ IsMessage(r) /\ CallTells(r)
BY PlaceTells DEF ConversationInv, CallsTell, CallTells, MessageOK

\* What the small services make of the memory they have read.
LEMMA CopyIs ==
    ASSUME StoreInv, NEW m, m = memory \/ \E q \in SUBSET Reading : m = [memory EXCEPT !.question = q]
    PROVE  /\ MemoryOK(m) /\ m.exists = memory.exists /\ m.version = memory.version
           /\ m.pending = memory.pending
<1>1. MemoryOK(memory) /\ memory \in Memories  BY DEF StoreInv, SlotOK, MemoryOK
<1>2. PICK old : old = memory  OBVIOUS
<1>3. /\ m \in Memories /\ m.exists = old.exists /\ m.version = old.version
      /\ m.pending = old.pending
  <2>1. CASE m = old  BY <1>1, <1>2, <2>1
  <2>2. ASSUME NEW q \in SUBSET Reading, m = [old EXCEPT !.question = q]
        PROVE  /\ m \in Memories /\ m.exists = old.exists /\ m.version = old.version
               /\ m.pending = old.pending
    BY <1>1, <1>2, <2>2 DEF Memories
  <2> QED  BY <1>2, <2>1, <2>2
<1> QED  BY <1>1, <1>2, <1>3 DEF MemoryOK

LEMMA AfterClearingStep ==
    ASSUME NEW c \in Call, NEW r, r = calls[c], MessageOK(r), IsMessage(r),
           r.at \in {"clear", "saveAndAct"}, CallMove \/ UNCHANGED store, AfterClearing(c)
    PROVE  CallStep(c)
<1>1. CASE End(c)  BY <1>1, EndStep
<1>2. CASE Move(c, "look")
  <2>1. PICK n : n = [r EXCEPT !.at = "look"]  OBVIOUS
  <2>2. MessageOK(n) /\ n.at = "look"  BY <2>1 DEF MessageOK, IsMessage
  <2>3. CallTells(n)'  BY <2>2, PlainMessage
  <2> QED  BY <1>2, <2>1, <2>3 DEF Move, Go, CallStep
<1> QED  BY <1>1, <1>2 DEF AfterClearing

LEMMA LoadStep ==
    ASSUME ConversationInv, NEW c \in Call, Load(c)
    PROVE  CallStep(c)
<1>0. PICK r : r = calls[c]  OBVIOUS
<1>1. r.at \in {"cite", "ask", "clear"}  BY <1>0 DEF Load, In
<1>2. MessageOK(r) /\ IsMessage(r)  BY <1>0, <1>1, MessageHere DEF MessagePlaces
<1>3. UNCHANGED store  BY DEF Load
<1>4. StoreInv  BY StoreInvIs DEF ConversationInv
<1>5. PICK new : new = CASE In(c, {"cite"})  -> WithCitation
                         [] In(c, {"ask"})   -> WithQuestion(calls[c].seen)
                         [] In(c, {"clear"}) -> WithoutQuestion
  OBVIOUS
<1>6. new = memory \/ \E q \in SUBSET Reading : new = [memory EXCEPT !.question = q]
  <2>1. CASE r.at = "cite"  BY <1>0, <1>5, <2>1 DEF In, WithCitation
  <2>2. CASE r.at = "ask"
    <3>1. r.seen \in SUBSET Reading  BY <1>2, <2>2 DEF MessageOK
    <3> QED  BY <1>0, <1>5, <2>2, <3>1 DEF In, WithQuestion
  <2>3. CASE r.at = "clear"  BY <1>0, <1>5, <2>3 DEF In, WithoutQuestion
  <2> QED  BY <1>1, <2>1, <2>2, <2>3
<1>7. /\ MemoryOK(new) /\ new.exists = memory.exists /\ new.version = memory.version
      /\ new.pending = memory.pending
  BY <1>4, <1>6, CopyIs
<1>8. CASE r.at = "clear" /\ AfterClearing(c)
  BY <1>0, <1>2, <1>3, <1>8, AfterClearingStep
<1>9. CASE End(c)  BY <1>3, <1>9, EndStep
<1>10. CASE Go(c, [r EXCEPT !.at = IF r.at = "clear" THEN "saveAndAct" ELSE "save", !.seen = new])
  <2>1. PICK at : at = IF r.at = "clear" THEN "saveAndAct" ELSE "save"  OBVIOUS
  <2>2. PICK n : n = [r EXCEPT !.at = at, !.seen = new]  OBVIOUS
  <2>3. Go(c, n)  BY <1>10, <2>1, <2>2
  <2>4. MessageOK(n) /\ n.at \in {"save", "saveAndAct"} /\ n.seen = new
    BY <1>1, <1>2, <1>7, <2>1, <2>2 DEF MessageOK, IsMessage
  <2>5. CopyTells(n)
    BY <1>4, <1>7, <2>4 DEF CopyTells, StoreInv, SlotOK, MemoryOK, Memories
  <2>6. CallTells(n)  BY <2>4, <2>5 DEF CallTells, CallOK, DueTells, ReceiptTells
  <2> QED  BY <1>3, <2>3, <2>6, QuietStep
<1> QED  BY <1>0, <1>5, <1>8, <1>9, <1>10 DEF Load, In

LEMMA SaveStep ==
    ASSUME ConversationInv, NEW c \in Call, Save(c)
    PROVE  CallStep(c)
<1>0. PICK r : r = calls[c]  OBVIOUS
<1>1. r.at \in {"save", "saveAndAct"}  BY <1>0 DEF Save, In
<1>2. MessageOK(r) /\ IsMessage(r) /\ CallTells(r)
  BY <1>0, <1>1, MessageHere DEF MessagePlaces
<1>3. CASE Saveable(r.seen) /\ Saved(r.seen)
  <2>1. MemoryOK(r.seen) /\ r.seen \in Memories  BY <1>1, <1>2 DEF MessageOK, MemoryOK
  <2>2. CopyTells(r)  BY <1>2 DEF CallTells
  <2>3. r.seen.exists => memory.exists /\ r.seen.pending = memory.pending
    BY <1>1, <1>3, <2>2 DEF CopyTells, Saveable
  <2>4. SaveMove  BY <1>1, <1>3, <2>1, <2>2, <2>3 DEF SaveMove, CopyTells
  <2>5. CallMove  BY <2>4 DEF CallMove
  <2>6. CASE End(c)  BY <2>5, <2>6, EndStep
  <2>7. CASE r.at = "saveAndAct" /\ AfterClearing(c)
    BY <1>0, <1>2, <2>5, <2>7, AfterClearingStep
  <2> QED  BY <1>0, <1>1, <1>3, <2>6, <2>7 DEF Save, Try, In
<1>4. CASE UNCHANGED store /\ End(c)  BY <1>4, EndStep
<1> QED  BY <1>0, <1>3, <1>4 DEF Save, Try

LEMMA LookStep ==
    ASSUME ConversationInv, NEW c \in Call, Look(c)
    PROVE  CallStep(c)
<1>0. PICK r : r = calls[c]  OBVIOUS
<1>1. r.at = "look"  BY <1>0 DEF Look, In
<1>2. MessageOK(r) /\ IsMessage(r)  BY <1>0, <1>1, MessageHere DEF MessagePlaces
<1>3. UNCHANGED store  BY DEF Look
<1>4. CASE End(c)  BY <1>3, <1>4, EndStep
<1>5. ASSUME NEW s, Go(c, [r EXCEPT !.at = "evict", !.seen = s])  PROVE CallStep(c)
  <2>1. PICK n : n = [r EXCEPT !.at = "evict", !.seen = s]  OBVIOUS
  <2>2. MessageOK(n) /\ n.at = "evict"  BY <1>1, <1>2, <2>1 DEF MessageOK, IsMessage
  <2>3. CallTells(n)  BY <2>2, PlainMessage
  <2> QED  BY <1>3, <1>5, <2>1, <2>3, QuietStep
<1>6. CASE ~(memory.pending # None /\ memory.due) /\ Go(c, [r EXCEPT !.at = "interpret"])
  <2>1. PICK n : n = [r EXCEPT !.at = "interpret"]  OBVIOUS
  <2>2. MessageOK(n) /\ n.at = "interpret"  BY <1>1, <1>2, <2>1 DEF MessageOK, IsMessage
  <2>3. ~memory.due  BY <1>6 DEF ConversationInv, TypeOK
  <2>4. CallTells(n)
    BY <2>2, <2>3 DEF CallTells, CallOK, CopyTells, DueTells, ReceiptTells
  <2> QED  BY <1>3, <1>6, <2>1, <2>4, QuietStep
<1> QED  BY <1>0, <1>4, <1>5, <1>6 DEF Look, Move

\* The slot is emptied and its proposal claimed.
LEMMA SettleStep ==
    ASSUME ConversationInv, NEW k, NEW v, NEW outcome \in {"cancelled", "expired"},
           Pending(k), Outcome(k) = "none", memory' = Emptied,
           claims' = Claimed(k, outcome, memory.pending, None), UNCHANGED <<acts, items, moved>>
    PROVE  CallMove /\ memory'.due = FALSE
<1>1. memory \in Memories  BY DEF ConversationInv, TypeOK
<1>2. k \in Key  BY <1>1 DEF Pending, Memories, Commands
<1>3. SettleMove  BY <1>2 DEF SettleMove
<1>4. memory'.due = FALSE  BY <1>1, EmptiedFields
<1> QED  BY <1>3, <1>4 DEF CallMove

LEMMA EvictStep ==
    ASSUME ConversationInv, NEW c \in Call, Evict(c)
    PROVE  CallStep(c)
<1>0. PICK r : r = calls[c]  OBVIOUS
<1>1. r.at = "evict"  BY <1>0 DEF Evict, In
<1>2. MessageOK(r) /\ IsMessage(r)  BY <1>0, <1>1, MessageHere DEF MessagePlaces
<1>3. CASE /\ Clearable(r.seen.key, r.seen.version) /\ Cleared(r.seen.key)
           /\ Go(c, [r EXCEPT !.at = "interpret"])
  <2>1. CallMove /\ memory'.due = FALSE  BY <1>3, SettleStep DEF Clearable, Cleared
  <2>2. PICK n : n = [r EXCEPT !.at = "interpret"]  OBVIOUS
  <2>3. MessageOK(n) /\ n.at = "interpret"  BY <1>1, <1>2, <2>2 DEF MessageOK, IsMessage
  <2>4. CallOK(n)' /\ CopyTells(n)' /\ DueTells(n)' /\ ReceiptTells(n)'
    BY <2>1, <2>3 DEF CallOK, CopyTells, DueTells, ReceiptTells
  <2> QED  BY <1>3, <2>1, <2>2, <2>4 DEF CallStep, CallTells, Go
<1>4. CASE UNCHANGED store /\ End(c)  BY <1>4, EndStep
<1> QED  BY <1>0, <1>3, <1>4 DEF Evict, Try, Move

LEMMA InterpretStep ==
    ASSUME ConversationInv, NEW c \in Call, Interpret(c)
    PROVE  CallStep(c)
<1>0. PICK r : r = calls[c]  OBVIOUS
<1>1. r.at = "interpret"  BY <1>0 DEF Interpret, In
<1>2. MessageOK(r) /\ IsMessage(r) /\ CallTells(r)
  BY <1>0, <1>1, MessageHere DEF MessagePlaces
<1>3. UNCHANGED store  BY DEF Interpret
<1>4. CASE End(c)  BY <1>3, <1>4, EndStep
<1>5. ASSUME NEW m \in IF r.reading # None THEN {r.reading}
                       ELSE {m \in Meaning[r.key] : Route(m) = "look"},
             Go(c, [r EXCEPT !.at = IF m.kind = "batch" THEN "composeBatch" ELSE "compose",
                             !.reading = m])
      PROVE  CallStep(c)
  <2>1. m \in Reading
    BY <1>1, <1>2, ConversationAssumption DEF MessageOK
  <2>2. PICK at : at = IF m.kind = "batch" THEN "composeBatch" ELSE "compose"  OBVIOUS
  <2>3. PICK n : n = [r EXCEPT !.at = at, !.reading = m]  OBVIOUS
  <2>4. MessageOK(n) /\ n.at \in {"composeBatch", "compose"} /\ n.key = r.key
    BY <1>1, <1>2, <2>1, <2>2, <2>3 DEF MessageOK, IsMessage
  <2>5. DueTells(n)  BY <1>1, <1>2, <2>4 DEF CallTells, DueTells
  <2>6. CallTells(n)  BY <2>4, <2>5 DEF CallTells, CallOK, CopyTells, ReceiptTells
  <2> QED  BY <1>3, <1>5, <2>2, <2>3, <2>6, QuietStep
<1> QED  BY <1>0, <1>4, <1>5 DEF Interpret

LEMMA KindsAre ==
    ASSUME NEW r \in Reading
    PROVE  /\ MutationKind(r) \in Kind \cup {"reopen", "largeMove"}
           /\ Policy(MutationKind(r)) = "confirmFirst" => MutationKind(r) \in {"move", "reopen"}
           /\ Policy(MutationKind(r)) = "atOnce" => MutationKind(r) \in Kind
<1>1. r.kind \in Kind /\ "change" \in Kind /\ "move" \in Kind  BY ReadingIs DEF Kind, TaskKind
<1>2. MutationKind(r) \in Kind \cup {"reopen", "largeMove"}  BY <1>1 DEF MutationKind
<1>3. ASSUME NEW k
      PROVE  /\ Policy(k) = "confirmFirst" => k \in {"move", "reopen"}
             /\ Policy(k) = "atOnce" => k \notin {"reopen", "largeMove"}
  BY DEF Policy
<1> QED  BY <1>2, <1>3

\* A change is bound to what was read and sent where its class belongs.
LEMMA BoundStep ==
    ASSUME ConversationInv, NEW c \in Call, NEW r, r = calls[c], r.at \in {"compose", "composeBatch"},
           UNCHANGED store, NEW kind, NEW place, Bound(c, kind, place),
           \/ kind \in Kind /\ place \in {"apply", "purchase", "recheck"}
           \/ kind = "largeMove" /\ place = "escalate"
    PROVE  CallStep(c)
<1>1. MessageOK(r) /\ IsMessage(r)  BY MessageHere DEF MessagePlaces
<1>2. r.reading \in Reading  BY <1>1 DEF MessageOK
<1>3. PICK s : s = Observed(kind, r.reading)  OBVIOUS
<1>4. PICK bound : bound = [r.reading EXCEPT !.kind = kind]  OBVIOUS
<1>5. PICK n : n = [r EXCEPT !.at = place, !.reading.kind = kind, !.seen = s]  OBVIOUS
<1>6. Go(c, n)  BY <1>3, <1>5 DEF Bound
<1>7. n = [at |-> place, key |-> r.key, reading |-> bound, seen |-> s, clause |-> r.clause]
  BY <1>1, <1>4, <1>5 DEF IsMessage
<1>8. /\ kind \in Kind => bound \in Reading
      /\ kind = "largeMove" => bound \in [kind : {"largeMove"}, refs : Mentions]
  BY <1>2, <1>4, ReadingIs
<1>9. MessageOK(n) /\ n.at = place  BY <1>1, <1>7, <1>8 DEF MessageOK, IsMessage
<1>10. CallTells(n)  BY <1>9, PlainMessage
<1> QED  BY <1>6, <1>10, QuietStep

LEMMA CommandIs ==
    ASSUME StoreInv, NEW k \in Key, NEW kind \in {"move", "reopen"}, NEW t \in Item
    PROVE  Command(k, kind, t) \in Commands /\ Command(k, kind, t).key = k
<1>1. memory.version \in Nat /\ items \in Items
  BY DEF StoreInv, SlotOK, MemoryOK, Memories, RecordsOK
<1>2. (IF kind = "move" THEN Proposed(t) ELSE Versions({t})) \in Seen
  BY <1>1, VersionsSeen DEF Proposed
<1> QED  BY <1>1, <1>2 DEF Command, Commands

LEMMA ComposeStep ==
    ASSUME ConversationInv, NEW c \in Call, Compose(c)
    PROVE  CallStep(c)
<1>0. PICK r : r = calls[c]  OBVIOUS
<1>1. r.at = "compose"  BY <1>0 DEF Compose, In
<1>2. MessageOK(r) /\ IsMessage(r) /\ CallTells(r)
  BY <1>0, <1>1, MessageHere DEF MessagePlaces
<1>3. UNCHANGED store /\ StoreInv  BY StoreInvIs DEF Compose, ConversationInv
<1>4. r.reading \in Reading /\ r.key \in Key  BY <1>1, <1>2 DEF MessageOK
<1>5. PICK kind : kind = MutationKind(r.reading)  OBVIOUS
<1>6. CASE End(c)  BY <1>3, <1>6, EndStep
<1>7. CASE /\ Policy(kind) = "confirmFirst"
           /\ Go(c, [r EXCEPT !.at = "remember", !.seen = Command(r.key, kind, Subject(r.reading))])
  <2>1. PICK cmd : cmd = Command(r.key, kind, Subject(r.reading))  OBVIOUS
  <2>2. cmd \in Commands /\ cmd.key = r.key
    <3>1. kind \in {"move", "reopen"} /\ Subject(r.reading) \in Item
      BY <1>4, <1>5, <1>7, KindsAre, ReadingIs
    <3> QED  BY <1>3, <1>4, <2>1, <3>1, CommandIs
  <2>3. PICK n : n = [r EXCEPT !.at = "remember", !.seen = cmd]  OBVIOUS
  <2>4. MessageOK(n) /\ n.at = "remember" /\ n.key = r.key
    BY <1>1, <1>2, <2>2, <2>3 DEF MessageOK, IsMessage
  <2>5. DueTells(n)  BY <1>1, <1>2, <2>4 DEF CallTells, DueTells
  <2>6. CallTells(n)  BY <2>4, <2>5 DEF CallTells, CallOK, CopyTells, ReceiptTells
  <2> QED  BY <1>3, <1>7, <2>1, <2>3, <2>6, QuietStep
<1>8. CASE Policy(kind) = "atOnce" /\ Bound(c, kind, "apply")
  BY <1>0, <1>1, <1>3, <1>4, <1>5, <1>8, KindsAre, BoundStep
<1>9. CASE kind = "purchase" /\ Bound(c, kind, "purchase")
  BY <1>0, <1>1, <1>3, <1>9, BoundStep DEF Kind
<1>10. CASE kind = "largeMove" /\ Bound(c, kind, "escalate")
  BY <1>0, <1>1, <1>3, <1>10, BoundStep
<1> QED  BY <1>0, <1>5, <1>6, <1>7, <1>8, <1>9, <1>10 DEF Compose, Unresolved, Invalid

LEMMA ComposeBatchStep ==
    ASSUME ConversationInv, NEW c \in Call, ComposeBatch(c)
    PROVE  CallStep(c)
<1>0. PICK r : r = calls[c]  OBVIOUS
<1>1. r.at = "composeBatch"  BY <1>0 DEF ComposeBatch, In
<1>2. MessageOK(r) /\ IsMessage(r)  BY <1>0, <1>1, MessageHere DEF MessagePlaces
<1>3. UNCHANGED store  BY DEF ComposeBatch
<1>4. CASE End(c)  BY <1>3, <1>4, EndStep
<1>5. CASE Bound(c, "batch", "recheck")
  BY <1>0, <1>1, <1>3, <1>5, BoundStep DEF Kind, TaskKind
<1>6. CASE Go(c, [r EXCEPT !.at = "ask", !.seen = {r.reading}])
  <2>1. PICK n : n = [r EXCEPT !.at = "ask", !.seen = {r.reading}]  OBVIOUS
  <2>2. MessageOK(n) /\ n.at = "ask"  BY <1>1, <1>2, <2>1 DEF MessageOK, IsMessage
  <2>3. CallTells(n)  BY <2>2, PlainMessage
  <2> QED  BY <1>3, <1>6, <2>1, <2>3, QuietStep
<1> QED  BY <1>0, <1>4, <1>5, <1>6 DEF ComposeBatch, Invalid

LEMMA RememberStep ==
    ASSUME ConversationInv, NEW c \in Call, Remember(c)
    PROVE  CallStep(c)
<1>0. PICK r : r = calls[c]  OBVIOUS
<1>1. r.at = "remember"  BY <1>0 DEF Remember, In
<1>2. MessageOK(r) /\ CallTells(r)  BY <1>0, <1>1, MessageHere DEF MessagePlaces
<1>3. CASE Rememberable(r.seen) /\ Remembered(r.seen) /\ End(c)
  <2>1. r.seen \in Commands /\ r.seen.key = r.key  BY <1>1, <1>2 DEF MessageOK
  <2>2. memory.due => r.seen.key # memory.pending.key
    BY <1>1, <1>2, <2>1 DEF CallTells, DueTells
  <2>3. ProposeMove  BY <1>3, <2>1, <2>2 DEF ProposeMove
  <2> QED  BY <1>3, <2>3, EndStep DEF CallMove
<1>4. CASE UNCHANGED store /\ End(c)  BY <1>4, EndStep
<1> QED  BY <1>0, <1>3, <1>4 DEF Remember, Try

LEMMA RecheckStep ==
    ASSUME ConversationInv, NEW c \in Call, Recheck(c)
    PROVE  CallStep(c)
<1>0. PICK r : r = calls[c]  OBVIOUS
<1>1. r.at = "recheck"  BY <1>0 DEF Recheck, In
<1>2. MessageOK(r) /\ IsMessage(r)  BY <1>0, <1>1, MessageHere DEF MessagePlaces
<1>3. UNCHANGED store  BY DEF Recheck
<1>4. CASE End(c)  BY <1>3, <1>4, EndStep
<1>5. CASE Go(c, [r EXCEPT !.at = "apply", !.clause = 1])
  <2>1. PICK n : n = [r EXCEPT !.at = "apply", !.clause = 1]  OBVIOUS
  <2>2. r.reading \in Reading  BY <1>1, <1>2 DEF MessageOK
  <2>3. Len(r.reading.refs) \in 1 .. Clauses  BY <2>2, ReadingIs
  <2>4. n = [at |-> "apply", key |-> r.key, reading |-> r.reading, seen |-> r.seen, clause |-> 1]
    BY <1>2, <2>1 DEF IsMessage
  <2>5. /\ IsMessage(n) /\ n.at = "apply" /\ n.key \in Key /\ n.reading = r.reading
        /\ n.clause = 1
    BY <1>2, <2>4 DEF MessageOK, IsMessage
  <2>6. PICK last : last = Len(r.reading.refs)  OBVIOUS
  <2>7. last \in 1 .. Clauses  BY <2>3, <2>6
  <2>8. 1 <= last /\ 1 \in 0 .. Clauses  BY <2>7 DEF Clauses
  <2>9. MessageOK(n)  BY <2>2, <2>5, <2>6, <2>8 DEF MessageOK
  <2>10. CallTells(n)  BY <2>5, <2>9, PlainMessage
  <2> QED  BY <1>3, <1>5, <2>1, <2>10, QuietStep
<1> QED  BY <1>0, <1>4, <1>5 DEF Recheck

-----------------------------------------------------------------------------
(****************************************************************************)
(* What a message changes.                                                  *)
(****************************************************************************)
LEMMA ChangesAre ==
    ASSUME items \in Items, NEW kind, NEW t \in Item
    PROVE  Changed(kind, t) \in Items
<1>1. Bumped({t}) \in Items  BY BumpedItems
<1>2. [items EXCEPT ![t] = [version |-> @.version + 1, done |-> TRUE]] \in Items
  BY DEF Items
<1>3. IssueChanged(kind, t) \in Items
  <2>1. PICK d : d = IF kind = "resolve" THEN TRUE ELSE items[t].done  OBVIOUS
  <2>2. d \in BOOLEAN  BY <2>1 DEF Items
  <2>3. items[t].version + 1 \in Nat  BY DEF Items
  <2>4. [items EXCEPT ![t] = [version |-> items[t].version + 1, done |-> d]] \in Items
    BY <2>2, <2>3 DEF Items
  <2> QED  BY <2>1, <2>4 DEF IssueChanged
<1>4. TaskChanged(kind, t) \in Items  BY <1>1, <1>2 DEF TaskChanged
<1> QED  BY <1>1, <1>3, <1>4 DEF Changed, StockChanged

\* ActivityService.mutate either records the activity or changes nothing.
LEMMA MutatedMoves ==
    ASSUME NEW k \in Key, NEW i \in 0 .. Clauses, NEW kind \in Kind \cup {"largeMove"},
           NEW t \in Item, NEW on \in Seen, NEW effect \in Items,
           Mutated(k, i, Activity(kind, t, on), effect)
    PROVE  CallMove \/ UNCHANGED store
<1>1. PICK a : a = Activity(kind, t, on)  OBVIOUS
<1>2. a \in Activities /\ a.kind # "confirmed"
  BY <1>1 DEF Activity, Activities, Kind, TaskKind
<1>3. CASE acts[k][i] = None /\ Recorded(k, i, a, effect)
  <2>1. RecordMove  BY <1>2, <1>3 DEF Recorded, RecordMove
  <2> QED  BY <2>1 DEF CallMove
<1> QED  BY <1>1, <1>3 DEF Mutated

LEMMA ApplyChangeStep ==
    ASSUME ConversationInv, NEW c \in Call, ApplyChange(c)
    PROVE  CallStep(c)
<1>0. PICK r : r = calls[c]  OBVIOUS
<1>1. r.at = "apply"  BY <1>0 DEF ApplyChange, In
<1>2. MessageOK(r)  BY <1>0, <1>1, MessageHere DEF MessagePlaces
<1>3. r.reading \in Reading /\ r.key \in Key  BY <1>1, <1>2 DEF MessageOK
<1>4. items \in Items  BY DEF ConversationInv, TypeOK, Items
<1>5. PICK kind, t : kind = r.reading.kind /\ t = Subject(r.reading)  OBVIOUS
<1>6. kind \in Kind /\ t \in Item  BY <1>3, <1>5, ReadingIs
<1>7. CASE Mutated(r.key, 0, Activity(kind, t, Versions({t})), Changed(kind, t)) /\ End(c)
  <2>1. Changed(kind, t) \in Items /\ Versions({t}) \in Seen /\ 0 \in 0 .. Clauses
    BY <1>4, <1>6, ChangesAre, VersionsSeen DEF Clauses
  <2>2. CallMove \/ UNCHANGED store  BY <1>3, <1>6, <1>7, <2>1, MutatedMoves
  <2> QED  BY <1>7, <2>2, EndStep
<1>8. CASE UNCHANGED store /\ End(c)  BY <1>8, EndStep
<1> QED  BY <1>0, <1>5, <1>7, <1>8 DEF ApplyChange, Routine, Try

LEMMA ApplyClauseStep ==
    ASSUME ConversationInv, NEW c \in Call, ApplyClause(c)
    PROVE  CallStep(c)
<1>0. PICK r : r = calls[c]  OBVIOUS
<1>1. r.at = "apply" /\ r.clause > 0  BY <1>0 DEF ApplyClause, In
<1>2. MessageOK(r) /\ IsMessage(r)  BY <1>0, <1>1, MessageHere DEF MessagePlaces
<1>3. /\ r.reading \in Reading /\ r.key \in Key
      /\ r.clause \in 1 .. Clauses /\ r.clause <= Len(r.reading.refs)
  BY <1>1, <1>2 DEF MessageOK, Clauses
<1>4. items \in Items  BY DEF ConversationInv, TypeOK, Items
<1>5. PICK i, t : i = r.clause /\ t = r.reading.refs[i]  OBVIOUS
<1>6. PICK last : last = Len(r.reading.refs)  OBVIOUS
<1>7. last \in 1 .. Clauses /\ i \in 1 .. last
  <2>1. last \in 1 .. Clauses  BY <1>3, <1>6, ReadingIs
  <2>2. i \in 1 .. Clauses /\ i <= last  BY <1>3, <1>5, <1>6
  <2> QED  BY <2>1, <2>2 DEF Clauses
<1>8. t \in Item  BY <1>3, <1>5, <1>6, <1>7, ReadingIs
<1>9. CASE UNCHANGED store /\ End(c)  BY <1>9, EndStep
<1>10. CASE /\ Mutated(r.key, i, Activity("change", t, Versions({t})), Changed("change", t))
            /\ IF i < last THEN Go(c, [r EXCEPT !.clause = r.clause + 1])
               ELSE End(c)
  <2>1. /\ Changed("change", t) \in Items /\ Versions({t}) \in Seen /\ i \in 0 .. Clauses
        /\ "change" \in Kind
    BY <1>4, <1>7, <1>8, ChangesAre, VersionsSeen DEF Clauses, Kind, TaskKind
  <2>2. CallMove \/ UNCHANGED store  BY <1>3, <1>8, <1>10, <2>1, MutatedMoves
  <2>3. CASE End(c)  BY <2>2, <2>3, EndStep
  <2>4. CASE i < last /\ Go(c, [r EXCEPT !.clause = r.clause + 1])
    <3>1. PICK n : n = [r EXCEPT !.clause = r.clause + 1]  OBVIOUS
    <3>2. n = [at |-> r.at, key |-> r.key, reading |-> r.reading, seen |-> r.seen,
               clause |-> r.clause + 1]
      BY <1>2, <3>1 DEF IsMessage
    <3>3. r.clause + 1 \in 0 .. Clauses /\ r.clause + 1 <= Len(r.reading.refs)
      <4>1. i + 1 \in 0 .. Clauses /\ i + 1 <= last  BY <1>7, <2>4 DEF Clauses
      <4> QED  BY <1>5, <1>6, <4>1
    <3>4. MessageOK(n) /\ n.at = "apply"  BY <1>1, <1>2, <3>2, <3>3 DEF MessageOK, IsMessage
    <3>5. CallTells(n)'  BY <3>4, PlainMessage
    <3> QED  BY <2>2, <2>4, <3>1, <3>5 DEF CallStep, Go
  <2> QED  BY <1>10, <2>3, <2>4
<1> QED  BY <1>0, <1>5, <1>6, <1>9, <1>10 DEF ApplyClause, Routine, Try

LEMMA HandoffStep ==
    ASSUME ConversationInv, NEW c \in Call, calls[c].key \in Key,
           NEW kind \in Kind \cup {"largeMove"}, NEW t \in Item, NEW on \in Seen, NEW allowed,
           Handoff(c, Activity(kind, t, on), allowed)
    PROVE  CallStep(c)
<1>1. items \in Items /\ 0 \in 0 .. Clauses
  BY DEF ConversationInv, TypeOK, Items, Clauses
<1>2. CASE Mutated(calls[c].key, 0, Activity(kind, t, on), items) /\ End(c)
  <2>1. CallMove \/ UNCHANGED store  BY <1>1, <1>2, MutatedMoves
  <2> QED  BY <1>2, <2>1, EndStep
<1>3. CASE UNCHANGED store /\ End(c)  BY <1>3, EndStep
<1> QED  BY <1>2, <1>3 DEF Handoff, Try

LEMMA HandoffSteps ==
    ASSUME ConversationInv, NEW c \in Call, PreparePurchase(c) \/ Escalate(c) \/ Submit(c)
    PROVE  CallStep(c)
<1>0. PICK r : r = calls[c]  OBVIOUS
<1>1. r.at \in {"purchase", "escalate", "submit"}
  BY <1>0 DEF PreparePurchase, Escalate, Submit, In
<1>2. MessageOK(r)  BY <1>0, <1>1, MessageHere DEF MessagePlaces
<1>3. PICK t : t = Subject(r.reading)  OBVIOUS
<1>4. r.reading.refs \in Mentions  BY <1>1, <1>2 DEF MessageOK, Reading
<1>5. t \in Item
  <2>1. PICK n \in 1 .. Clauses : r.reading.refs \in [1 .. n -> Item]  BY <1>4 DEF Mentions
  <2> QED  BY <1>3, <2>1 DEF Subject, Clauses
<1>6. /\ calls[c].key \in Key /\ \A S : Versions(S) \in Seen
      /\ "purchase" \in Kind /\ "update" \in Kind
  BY <1>0, <1>2, VersionsSeen DEF MessageOK, ConversationInv, TypeOK, Items, Kind
<1>7. CASE \E allowed : Handoff(c, Activity("purchase", t, Versions({t})), allowed)
  BY <1>5, <1>6, <1>7, HandoffStep
<1>8. CASE Handoff(c, Activity("largeMove", t, Versions(Affected(t))), TRUE)
  BY <1>5, <1>6, <1>8, HandoffStep
<1>9. CASE Handoff(c, Activity("update", t, Versions({})), TRUE)
  BY <1>5, <1>6, <1>9, HandoffStep
<1>10. CASE UNCHANGED store /\ End(c)  BY <1>10, EndStep
<1> QED  BY <1>0, <1>3, <1>7, <1>8, <1>9, <1>10 DEF PreparePurchase, Escalate, Submit, Proposed, store

-----------------------------------------------------------------------------
(****************************************************************************)
(* What a request about a proposal does.                                    *)
(****************************************************************************)

LEMMA RequestHere ==
    ASSUME ConversationInv, NEW c \in Call, NEW r, r = calls[c], r.at \in {"due", "require", "cancel"}
    PROVE  RequestOK(r) /\ IsRequest(r)
BY PlaceTells DEF ConversationInv, CallsTell, CallTells, RequestOK

LEMMA DecisionHere ==
    ASSUME ConversationInv, NEW c \in Call, NEW r, r = calls[c],
           r.at \in {"reserve", "dispatch", "lookup", "complete", "abort"}
    PROVE  /\ DecisionOK(r) /\ IsDecision(r) /\ CallTells(r)
           /\ r.seen \in Commands /\ r.seen.key \in Key
BY PlaceTells DEF ConversationInv, CallsTell, CallTells, DecisionOK, Commands

LEMMA PlainRequest ==
    ASSUME NEW r, RequestOK(r)
    PROVE  CallTells(r)
BY DEF RequestOK, CallTells, CallOK, CopyTells, DueTells, ReceiptTells

LEMMA PlainDecision ==
    ASSUME NEW r, DecisionOK(r)
    PROVE  /\ r.at # "complete" \/ ConfirmedActivity(r.seen.key) => CallTells(r)
           /\ r.at # "complete" \/ ConfirmedActivity(r.seen.key)' => CallTells(r)'
<1>1. CopyTells(r) /\ DueTells(r) /\ CallOK(r)
  BY DEF DecisionOK, CopyTells, DueTells, CallOK
<1>2. CopyTells(r)' /\ DueTells(r)' /\ CallOK(r)'
  BY DEF DecisionOK, CopyTells, DueTells, CallOK
<1> QED  BY <1>1, <1>2 DEF CallTells, ReceiptTells

LEMMA ShownIs == ASSUME ConversationInv, NEW v \in Shown  PROVE v \in Nat
<1>1. /\ memory.version \in Nat
      /\ memory.pending # None => memory.pending.memory \in Nat
  BY DEF ConversationInv, TypeOK, Memories, Commands
<1> QED  BY <1>1 DEF Shown

\* The proposal in the slot.
LEMMA PendingIs ==
    ASSUME ConversationInv, NEW k, Pending(k)
    PROVE  memory.pending \in Commands /\ memory.pending.key = k /\ k \in Key
BY DEF ConversationInv, TypeOK, Memories, Commands, Pending

LEMMA ConfirmStep ==
    ASSUME ConversationInv, NEW c \in Call, NEW k \in Key, NEW v \in Shown, Confirm(c, k, v)
    PROVE  CallStep(c)
<1>1. v \in Nat /\ UNCHANGED store  BY ShownIs DEF Confirm
<1>2. CASE Go(c, [at |-> "due", key |-> k, version |-> v])
  <2>1. PICK n : n = [at |-> "due", key |-> k, version |-> v]  OBVIOUS
  <2>2. RequestOK(n)  BY <1>1, <2>1 DEF RequestOK, IsRequest
  <2> QED  BY <1>1, <1>2, <2>1, <2>2, PlainRequest, QuietStep
<1>3. CASE /\ Pending(k)
           /\ Go(c, [at |-> "dispatch", key |-> k, version |-> v, seen |-> memory.pending])
  <2>1. PICK n : n = [at |-> "dispatch", key |-> k, version |-> v, seen |-> memory.pending]
    OBVIOUS
  <2>2. DecisionOK(n) /\ n.at = "dispatch"
    BY <1>1, <1>3, <2>1, PendingIs DEF DecisionOK, IsDecision
  <2>3. CallTells(n)  BY <2>2, PlainDecision
  <2> QED  BY <1>1, <1>3, <2>1, <2>3, QuietStep
<1> QED  BY <1>2, <1>3 DEF Confirm, Resumable

LEMMA CancelStep ==
    ASSUME ConversationInv, NEW c \in Call, NEW k \in Key, NEW v \in Shown, Cancel(c, k, v)
    PROVE  CallStep(c)
<1>1. v \in Nat /\ UNCHANGED store  BY ShownIs DEF Cancel
<1>2. PICK n : n = [at |-> "cancel", key |-> k, version |-> v]  OBVIOUS
<1>3. RequestOK(n)  BY <1>1, <1>2 DEF RequestOK, IsRequest
<1> QED  BY <1>1, <1>2, <1>3, PlainRequest, QuietStep DEF Cancel

LEMMA DueStep ==
    ASSUME ConversationInv, NEW c \in Call, Due(c)
    PROVE  CallStep(c)
<1>0. PICK r : r = calls[c]  OBVIOUS
<1>1. r.at = "due"  BY <1>0 DEF Due, In
<1>2. RequestOK(r) /\ IsRequest(r)  BY <1>0, <1>1, RequestHere
<1>3. CASE /\ Pending(r.key) /\ Expirable
           /\ memory' = Emptied /\ claims' = Expired /\ UNCHANGED <<acts, items, moved>>
           /\ End(c)
  <2>1. memory.pending.key = r.key  BY <1>3, PendingIs
  <2>2. Outcome(r.key) = "none"
    BY <1>3, <2>1 DEF Expirable, ConversationInv, TypeOK
  <2>3. claims' = Claimed(r.key, "expired", memory.pending, None)
    BY <1>3, <2>1, <2>2 DEF Expired
  <2>4. CallMove  BY <1>3, <2>2, <2>3, SettleStep
  <2> QED  BY <1>3, <2>4, EndStep
<1>4. CASE UNCHANGED store /\ End(c)  BY <1>4, EndStep
<1>5. CASE UNCHANGED store /\ Go(c, [r EXCEPT !.at = "require"])
  <2>1. PICK n : n = [r EXCEPT !.at = "require"]  OBVIOUS
  <2>2. RequestOK(n)  BY <1>2, <2>1 DEF RequestOK, IsRequest
  <2> QED  BY <1>5, <2>1, <2>2, PlainRequest, QuietStep
<1> QED  BY <1>0, <1>3, <1>4, <1>5 DEF Due, Try, Move

LEMMA RequireStep ==
    ASSUME ConversationInv, NEW c \in Call, Require(c)
    PROVE  CallStep(c)
<1>0. PICK r : r = calls[c]  OBVIOUS
<1>1. r.at = "require"  BY <1>0 DEF Require, In
<1>2. RequestOK(r)  BY <1>0, <1>1, RequestHere
<1>3. UNCHANGED store  BY DEF Require
<1>4. CASE End(c)  BY <1>3, <1>4, EndStep
<1>5. CASE /\ Pending(r.key)
           /\ Go(c, [at |-> "reserve", key |-> r.key, version |-> r.version, seen |-> memory.pending])
  <2>1. PICK n : n = [at |-> "reserve", key |-> r.key, version |-> r.version,
                      seen |-> memory.pending]
    OBVIOUS
  <2>2. DecisionOK(n) /\ n.at = "reserve"
    BY <1>2, <1>5, <2>1, PendingIs DEF RequestOK, DecisionOK, IsDecision
  <2>3. CallTells(n)  BY <2>2, PlainDecision
  <2> QED  BY <1>3, <1>5, <2>1, <2>3, QuietStep
<1> QED  BY <1>0, <1>4, <1>5 DEF Require

\* A request that carries the proposal to another place.
LEMMA CarryStep ==
    ASSUME NEW c \in Call, NEW r, r = calls[c], DecisionOK(r), IsDecision(r),
           CallMove \/ UNCHANGED store, NEW place \in {"dispatch", "lookup", "complete", "abort"},
           place = "complete" => ConfirmedActivity(r.seen.key)', Move(c, place)
    PROVE  CallStep(c)
<1>1. PICK n : n = [r EXCEPT !.at = place]  OBVIOUS
<1>2. DecisionOK(n) /\ n.at = place /\ n.seen = r.seen
  BY <1>1 DEF DecisionOK, IsDecision
<1>3. CallTells(n)'
  <2>1. CASE place = "complete"
    <3>1. ConfirmedActivity(n.seen.key)'  BY <1>2, <2>1 DEF ConfirmedActivity
    <3> QED  BY <1>2, <3>1, PlainDecision
  <2>2. CASE place # "complete"  BY <1>2, <2>2, PlainDecision
  <2> QED  BY <2>1, <2>2
<1> QED  BY <1>1, <1>3 DEF CallStep, Move, Go

LEMMA ReserveStep ==
    ASSUME ConversationInv, NEW c \in Call, Reserve(c)
    PROVE  CallStep(c)
<1>0. PICK r : r = calls[c]  OBVIOUS
<1>1. r.at = "reserve"  BY <1>0 DEF Reserve, In
<1>2. /\ DecisionOK(r) /\ IsDecision(r) /\ r.seen \in Commands /\ r.seen.key \in Key
  BY <1>0, <1>1, DecisionHere
<1>3. r.version \in Nat /\ claims \in [Key -> Claims \cup {None}]
  BY <1>2 DEF DecisionOK, ConversationInv, TypeOK
<1>4. CASE UNCHANGED store /\ End(c)  BY <1>4, EndStep
<1>5. CASE /\ Reservable(r.seen, r.version) /\ Reserved(r.seen, r.version) /\ Move(c, "dispatch")
  <2>1. CASE claims[r.seen.key] = None
    <3>1. Outcome(r.seen.key) = "none"  BY <2>1 DEF Outcome
    <3>2. /\ memory.pending = r.seen
          /\ claims' = Claimed(r.seen.key, "confirming", r.seen, r.version)
          /\ UNCHANGED <<memory, acts, items, moved>>
      BY <1>5, <2>1, <3>1 DEF Reservable, Reserved
    <3>3. CallMove  BY <1>2, <1>3, <3>1, <3>2 DEF ReserveMove, CallMove
    <3> QED  BY <1>0, <1>2, <1>5, <3>3, CarryStep
  <2>2. CASE claims[r.seen.key] # None
    <3>1. UNCHANGED store  BY <1>5, <2>2 DEF Reserved, store
    <3> QED  BY <1>0, <1>2, <1>5, <3>1, CarryStep
  <2> QED  BY <2>1, <2>2
<1> QED  BY <1>0, <1>4, <1>5 DEF Reserve, Try

LEMMA DispatchStep ==
    ASSUME ConversationInv, NEW c \in Call, Dispatch(c)
    PROVE  CallStep(c)
<1>0. PICK r : r = calls[c]  OBVIOUS
<1>1. r.at = "dispatch"  BY <1>0 DEF Dispatch, In
<1>2. /\ DecisionOK(r) /\ IsDecision(r) /\ r.seen \in Commands /\ r.seen.key \in Key
  BY <1>0, <1>1, DecisionHere
<1>3. PICK cmd : cmd = r.seen  OBVIOUS
<1>4. CASE /\ Fenced(cmd) /\ acts[cmd.key][0] = None /\ Applicable(cmd) /\ Applied(cmd)
           /\ Move(c, "complete")
  <2>1. ApplyMove  BY <1>2, <1>3, <1>4 DEF ApplyMove
  <2> DEFINE a == [kind |-> "confirmed", item |-> cmd.task, on |-> Proposed(cmd.task)]
  <2>2. acts' = [acts EXCEPT ![cmd.key][0] = a]  BY <1>4 DEF Applied
  <2>3. a.kind = "confirmed"  OBVIOUS
  <2>4. a \in Activities
    BY <1>2, <1>3, VersionsSeen DEF Activities, Commands, ConversationInv, TypeOK, Items, Proposed
  <2>5. RecordsOK  BY StoreInvIs DEF ConversationInv, StoreInv
  <2> HIDE DEF a
  <2>6. acts'[cmd.key][0] = a /\ acts'[cmd.key][0] # None
    <3>1. PICK k : k = cmd.key  OBVIOUS
    <3>2. k \in Key /\ 0 \in Slot  BY <1>2, <1>3, <3>1, SlotNumbers
    <3>3. acts' = [acts EXCEPT ![k][0] = a]  BY <2>2, <3>1
    <3>4. acts'[k][0] = a /\ acts'[k][0] # None  BY <2>4, <2>5, <3>2, <3>3, OneActivity
    <3> QED  BY <3>1, <3>4
  <2>7. ConfirmedActivity(r.seen.key)'  BY <1>3, <2>3, <2>6 DEF ConfirmedActivity
  <2> QED  BY <1>0, <1>2, <1>4, <2>1, <2>7, CarryStep DEF CallMove
<1>5. CASE UNCHANGED store /\ Move(c, IF ConfirmedActivity(cmd.key) THEN "complete" ELSE "abort")
  <2>1. ConfirmedActivity(cmd.key) => ConfirmedActivity(r.seen.key)'
    BY <1>3, <1>5 DEF ConfirmedActivity, store
  <2> QED  BY <1>0, <1>2, <1>5, <2>1, CarryStep
<1>6. CASE UNCHANGED store /\ Move(c, "lookup")  BY <1>0, <1>2, <1>6, CarryStep
<1> QED  BY <1>0, <1>3, <1>4, <1>5, <1>6 DEF Dispatch

LEMMA LookupStep ==
    ASSUME ConversationInv, NEW c \in Call, Lookup(c)
    PROVE  CallStep(c)
<1>0. PICK r : r = calls[c]  OBVIOUS
<1>1. r.at = "lookup"  BY <1>0 DEF Lookup, In
<1>2. DecisionOK(r) /\ IsDecision(r)  BY <1>0, <1>1, DecisionHere
<1>3. UNCHANGED store  BY DEF Lookup
<1>4. ConfirmedActivity(r.seen.key) => ConfirmedActivity(r.seen.key)'
  BY <1>3 DEF ConfirmedActivity, store
<1> QED  BY <1>0, <1>2, <1>3, <1>4, CarryStep DEF Lookup

LEMMA FinishStep ==
    ASSUME ConversationInv, NEW c \in Call, Finish(c)
    PROVE  CallStep(c)
<1>0. PICK r : r = calls[c]  OBVIOUS
<1>1. r.at \in {"complete", "abort"}  BY <1>0 DEF Finish, In
<1>2. CallTells(r) /\ r.seen \in Commands  BY <1>0, <1>1, DecisionHere
<1>3. PICK outcome : outcome = IF r.at = "complete" THEN "confirmed" ELSE "stale"  OBVIOUS
<1>4. CASE Endable(r.seen) /\ Ended(r.seen, outcome) /\ End(c)
  <2>1. outcome = "confirmed" => ConfirmedActivity(r.seen.key)
    BY <1>1, <1>2, <1>3 DEF CallTells, ReceiptTells
  <2>2. outcome \in {"confirmed", "stale"}  BY <1>3
  <2>3. EndMove  BY <1>2, <1>4, <2>1, <2>2 DEF EndMove
  <2> QED  BY <1>4, <2>3, EndStep DEF CallMove
<1>5. CASE UNCHANGED store /\ End(c)  BY <1>5, EndStep
<1> QED  BY <1>0, <1>1, <1>3, <1>4, <1>5 DEF Finish, Try, In

LEMMA ClearProposalStep ==
    ASSUME ConversationInv, NEW c \in Call, ClearProposal(c)
    PROVE  CallStep(c)
<1>0. PICK r : r = calls[c]  OBVIOUS
<1>1. CASE Clearable(r.key, r.version) /\ Cleared(r.key) /\ End(c)
  <2>1. CallMove  BY <1>1, SettleStep DEF Clearable, Cleared
  <2> QED  BY <1>1, <2>1, EndStep
<1>2. CASE UNCHANGED store /\ End(c)  BY <1>2, EndStep
<1> QED  BY <1>0, <1>1, <1>2 DEF ClearProposal, Try

-----------------------------------------------------------------------------
(****************************************************************************)
(* Every step.                                                              *)
(****************************************************************************)

LEMMA StepSteps ==
    ASSUME ConversationInv, NEW c \in Call, Step(c)
    PROVE  CallStep(c)
BY AnswerStep, ClassifyStep, LoadStep, SaveStep, LookStep, EvictStep, InterpretStep, ComposeStep,
   ComposeBatchStep, RememberStep, RecheckStep, ApplyChangeStep, ApplyClauseStep, HandoffSteps,
   DueStep, RequireStep, ReserveStep, DispatchStep, LookupStep, FinishStep, ClearProposalStep
   DEF Step

\* What happens around the calls.
Around ==
    /\ UNCHANGED calls
    /\ CallMove \/ UNCHANGED store \/ Expire

LEMMA AroundSteps ==
    ASSUME ConversationInv,
           (\E k \in Key : ContinueApproved(k)) \/ (\E t \in Item : Edit(t)) \/ Expire \/ UNCHANGED vars
    PROVE  Around
<1>1. ASSUME NEW k \in Key, ContinueApproved(k)  PROVE Around
  <2>1. ContinueMove /\ UNCHANGED calls  BY <1>1 DEF ContinueApproved, ContinueMove
  <2> QED  BY <2>1 DEF Around, CallMove
<1>2. ASSUME NEW t \in Item, Edit(t)  PROVE Around
  <2>1. PICK d \in BOOLEAN : items' = [items EXCEPT ![t] = [version |-> @.version + 1, done |-> d]]
    BY <1>2 DEF Edit
  <2>2. items' \in Items  BY <2>1 DEF ConversationInv, TypeOK, Items
  <2>3. EditMove /\ UNCHANGED calls  BY <1>2, <2>2 DEF Edit, EditMove
  <2> QED  BY <2>3 DEF Around, CallMove
<1>3. CASE Expire  BY <1>3 DEF Around, Expire
<1>4. CASE UNCHANGED vars  BY <1>4 DEF Around, vars
<1> QED  BY <1>1, <1>2, <1>3, <1>4

LEMMA ExpireIsDue == Expire => DueMove /\ UNCHANGED calls
BY DEF Expire, DueMove

LEMMA AroundKeeps == ASSUME ConversationInv, Around  PROVE ConversationInv'
<1>1. StoreInv  BY StoreInvIs DEF ConversationInv
<1>2. StoreInv'  BY <1>1, StoreKeeps, ExpireIsDue DEF Around, StoreMove
<1>3. UNCHANGED calls  BY DEF Around
<1>4. ASSUME NEW d \in Call  PROVE CallTells(calls[d])'
  <2> PICK s : s = calls[d]  OBVIOUS
  <2>1. calls'[d] = s /\ CallTells(s)  BY <1>3 DEF ConversationInv, CallsTell
  <2>2. CASE CallMove \/ UNCHANGED store
    <3>1. CallTells(s)'  BY <1>1, <1>2, <2>1, <2>2, CallMoveGoesOn, CallStays
    <3> QED  BY <2>1, <3>1, SameCall
  <2>3. CASE Expire
    <3>1. PICK old : old = memory  OBVIOUS
    <3>2. old \in Memories  BY <3>1 DEF ConversationInv, TypeOK
    <3>3. memory' = [old EXCEPT !.due = TRUE] /\ UNCHANGED acts  BY <2>3, <3>1 DEF Expire
    <3>4. memory'.exists = old.exists /\ memory'.version = old.version
          /\ memory'.pending = old.pending
      BY <3>2, <3>3 DEF Memories
    <3>5. CallOK(s)'  BY <2>1 DEF CallTells
    <3>6. CopyTells(s)'  BY <2>1, <3>1, <3>4 DEF CallTells, CopyTells
    <3>7. ReceiptTells(s)'
      BY <2>1, <3>3 DEF CallTells, ReceiptTells, ConfirmedActivity
    <3>8. DueTells(s)'
      <4> SUFFICES ASSUME s.at \in {"interpret", "compose", "remember"}
                   PROVE  s.key # memory.pending.key
        BY <3>1, <3>4 DEF DueTells
      <4>1. calls[d] # Idle  BY DEF Idle
      <4> QED  BY <2>3, <4>1 DEF Expire, In
    <3>9. CallTells(s)'  BY <3>5, <3>6, <3>7, <3>8 DEF CallTells
    <3> QED  BY <2>1, <3>9, SameCall
  <2> QED  BY <2>2, <2>3 DEF Around
<1>5. calls' = [d \in Call |-> calls'[d]]  BY <1>3 DEF ConversationInv, CallsTell
<1>6. CallsTell'  BY <1>4, <1>5 DEF CallsTell
<1> QED  BY <1>2, <1>6, StoreInvIs DEF ConversationInv

LEMMA EveryStep ==
    ASSUME ConversationInv, [Next]_vars
    PROVE  (\E c \in Call : CallStep(c)) \/ Around
<1>1. ASSUME NEW c \in Call, NEW k \in Key, Message(c, k)  PROVE \E d \in Call : CallStep(d)
  BY <1>1, MessageStep
<1>2. ASSUME NEW c \in Call, NEW k \in Key, NEW v \in Shown, Confirm(c, k, v) \/ Cancel(c, k, v)
      PROVE  \E d \in Call : CallStep(d)
  BY <1>2, ConfirmStep, CancelStep
<1>3. ASSUME NEW c \in Call, Step(c)  PROVE \E d \in Call : CallStep(d)
  BY <1>3, StepSteps
<1>4. ASSUME NEW c \in Call, Die(c)  PROVE \E d \in Call : CallStep(d)
  BY <1>4, EndStep DEF Die
<1> QED  BY <1>1, <1>2, <1>3, <1>4, AroundSteps DEF Next

LEMMA ConversationInvInit == Init => ConversationInv
<1> SUFFICES ASSUME Init PROVE ConversationInv  OBVIOUS
<1>1. /\ memory = [exists |-> ~Fresh, version |-> 0, pending |-> None, due |-> FALSE,
                   question |-> {}]
      /\ claims = [k \in Key |-> None]
      /\ acts = [k \in Key |-> [i \in Slot |-> None]]
      /\ items = [t \in Item |-> [version |-> 0, done |-> FALSE]]
      /\ moved = [k \in Key |-> 0]
      /\ calls = [c \in Call |-> Idle]
  BY DEF Init
<1>2. MemoryOK(memory) /\ memory.due = FALSE /\ memory.pending = None /\ (~Fresh => memory.exists)
  BY <1>1, MemoryAssumption DEF MemoryOK, Memories
<1>3. \A k \in Key : /\ Outcome(k) = "none" /\ ~ConfirmedActivity(k)
                     /\ acts[k][Approved] = None /\ moved[k] = 0
  BY <1>1, SlotNumbers DEF Outcome, ConfirmedActivity
<1>4. RecordsOK
  BY <1>1 DEF RecordsOK, Items
<1>5. SlotOK  BY <1>2, <1>3 DEF SlotOK, ReservedKeepsTheSlot
<1>6. ActsTell  BY <1>3 DEF ActsTell
<1>7. CallsTell  BY <1>1, IdleTells DEF CallsTell
<1> QED  BY <1>4, <1>5, <1>6, <1>7, StoreInvIs DEF StoreInv, ConversationInv

LEMMA ConversationInvStep == ConversationInv /\ [Next]_vars => ConversationInv'
BY EveryStep, CallsKeep, AroundKeeps

\* The invariant of the conversation, for any keys, records, readings and number
\* of calls, whether the manager has talked to OG before or not.
THEOREM ConversationInvariant == Spec => []ConversationInv
BY ConversationInvInit, ConversationInvStep, PTL DEF Spec

\* Every record keeps its shape, the slot holds what is unclaimed or being
\* confirmed, and only what is in the slot can be past its time.
THEOREM ConversationTypes == Spec => []TypeOK
BY ConversationInvariant, PTL DEF ConversationInv

LEMMA OutcomeTold == ConversationInv => OutcomeMatchesChange
<1> SUFFICES ASSUME ConversationInv, NEW k \in Key
             PROVE  /\ moved[k] <= 1
                    /\ Outcome(k) = "confirmed" => moved[k] = 1
                    /\ Outcome(k) \in {"none", "cancelled", "expired"} /\ moved[k] = 1
                          => acts[k][Approved] # None
  BY DEF OutcomeMatchesChange
<1>1. ActTells(k)  BY ActsTellIs DEF ConversationInv
<1> QED  BY <1>1 DEF ActTells

LEMMA ChangeTold == ConversationInv => ChangedAsReviewed
<1> SUFFICES ASSUME ConversationInv, NEW k \in Key, moved[k] > 0
             PROVE  \/ /\ acts[k][0] # None /\ acts[k][0].kind = "confirmed"
                       /\ claims[k] # None /\ acts[k][0].on = claims[k].command.seen
                    \/ acts[k][Approved] # None /\ acts[k][Approved].on = acts[k][0].on
  BY DEF ChangedAsReviewed
<1>1. ActTells(k)  BY ActsTellIs DEF ConversationInv
<1>2. CASE ConfirmedActivity(k)
  BY <1>1, <1>2 DEF ActTells, ConfirmedActivity, Outcome
<1>3. CASE ~ConfirmedActivity(k)
  <2>1. acts[k][Approved] # None  BY <1>1, <1>3 DEF ActTells
  <2> QED  BY <1>1, <2>1 DEF ActTells
<1> QED  BY <1>2, <1>3

\* A manager who is told that a proposal was confirmed, was cancelled or has
\* expired is told what happened to the project, and what was changed is what was
\* shown, at the versions that were shown: in every interleaving of messages,
\* confirmations, cancellations, edits and deaths (conversation_confirmation.py).
THEOREM OutcomesAreTrue == Spec => [](OutcomeMatchesChange /\ ChangedAsReviewed)
BY ConversationInvariant, OutcomeTold, ChangeTold, PTL

\* Where the manager's memory exists, a proposal that is being confirmed keeps
\* the slot too, so that its reservation can be decided.  (A copy made before the
\* first write has the version this write leaves: conversation_memory.py:138-141.)
THEOREM ProposalsEndTruthfullyHolds == ~Fresh => (Spec => []ProposalsEndTruthfully)
<1>1. ~Fresh /\ ConversationInv => ProposalsEndTruthfully
  BY OutcomeTold, ChangeTold DEF ConversationInv, SlotTells, ProposalsEndTruthfully
<1> SUFFICES ASSUME ~Fresh  PROVE Spec => []ProposalsEndTruthfully  OBVIOUS
<1>2. ConversationInv => ProposalsEndTruthfully  BY <1>1
<1> QED  BY <1>2, ConversationInvariant, PTL

-----------------------------------------------------------------------------
(****************************************************************************)
(* ProposalLife.                                                            *)
(****************************************************************************)

\* How one proposal ends is read from its claim and the slot.
StateOf(k) == IF claims[k] # None THEN claims[k].outcome
              ELSE IF Pending(k) THEN "open" ELSE "none"

LEMMA StatesAre ==
    /\ ProposalState = [k \in Key |-> StateOf(k)]
    /\ ProposalState' = [k \in Key |-> StateOf(k)']
BY DEF ProposalState, StateOf

LEMMA LifeStays ==
    ASSUME \A k \in Key : StateOf(k)' = StateOf(k),
           \A k \in Key : ConfirmedActivity(k)' <=> ConfirmedActivity(k)
    PROVE  UNCHANGED Life!vars
<1>1. ProposalState' = ProposalState  BY StatesAre
<1>2. ConfirmedKeys' = ConfirmedKeys  BY DEF ConfirmedKeys
<1> QED  BY <1>1, <1>2 DEF Life!vars

\* One proposal is settled.
LEMMA LifeSettles ==
    ASSUME NEW k \in Key, NEW from, NEW to, StateOf(k) = from, StateOf(k)' = to,
           \A j \in Key : j # k => StateOf(j)' = StateOf(j), UNCHANGED acts
    PROVE  Life!Settle(k, from, to)
<1>1. ConfirmedKeys' = ConfirmedKeys  BY DEF ConfirmedKeys, ConfirmedActivity
<1>2. ProposalState[k] = from  BY StatesAre
<1>3. ProposalState' = [ProposalState EXCEPT ![k] = to]  BY StatesAre
<1> QED  BY <1>1, <1>2, <1>3 DEF Life!Settle

LEMMA ProposeLives ==
    ASSUME ~Fresh, StoreInv, ProposeMove
    PROVE  Life!Next
<1>1. PICK cmd \in Commands : /\ Rememberable(cmd) /\ (memory.due => cmd.key # memory.pending.key)
                              /\ Remembered(cmd)
  BY DEF ProposeMove
<1>2. memory \in Memories /\ claims \in [Key -> Claims \cup {None}]
  BY DEF StoreInv, SlotOK, MemoryOK, RecordsOK
<1>3. memory'.pending = cmd  BY <1>1, <1>2, RememberedFields
<1>4. PICK k : k = cmd.key  OBVIOUS
<1>5. k \in Key /\ cmd # None  BY <1>4, NoneIsNothing DEF Commands
<1>6. claims[k] = None  BY <1>1, <1>2, <1>4, <1>5, OutcomeTells DEF Rememberable
<1>7. memory.pending = None \/ Expirable  BY <1>1 DEF Rememberable
<1>8. UNCHANGED acts  BY <1>1 DEF Remembered
<1>9. ASSUME NEW j \in Key, StateOf(j) = "confirming"  PROVE FALSE
  <2>1. Outcome(j) = "confirming"  BY <1>9 DEF StateOf, Outcome
  <2>2. memory.pending = claims[j].command /\ claims[j] \in Claims
    BY <1>2, <2>1, OutcomeTells DEF StoreInv, SlotOK, ReservedKeepsTheSlot
  <2>3. claims[j].command.key = j /\ claims[j].command # None
    BY <2>1, <2>2, NoneIsNothing DEF StoreInv, RecordsOK, Outcome, Claims
  <2> QED  BY <1>7, <2>1, <2>2, <2>3 DEF Expirable
<1>10. StateOf(k) = "none"
  <2>1. ~Pending(k)  BY <1>1, <1>4, <1>7 DEF Expirable, Pending
  <2> QED  BY <1>6, <2>1 DEF StateOf
<1>11. ASSUME NEW j \in Key
       PROVE  StateOf(j)' = IF j = k THEN "open" ELSE IF StateOf(j) = "open" THEN "expired"
                                                      ELSE StateOf(j)
  <2>1. Pending(j)' <=> j = k  BY <1>3, <1>4, <1>5 DEF Pending
  <2>2. CASE memory.pending = None
    <3>1. claims' = claims  BY <1>1, <2>2 DEF Remembered
    <3>2. ~Pending(j)  BY <2>2 DEF Pending
    <3>3. claims[j] # None => claims[j].outcome # "open"  BY <1>2 DEF Claims
    <3> QED  BY <1>6, <2>1, <3>1, <3>2, <3>3 DEF StateOf
  <2>3. CASE memory.pending # None
    <3> PICK old : old = memory.pending  OBVIOUS
    <3>1. /\ old \in Commands /\ old.key \in Key /\ old.key # k
          /\ Outcome(old.key) = "none"
      <4>1. old \in Commands /\ old.key \in Key  BY <1>2, <2>3 DEF Memories, Commands
      <4>2. Expirable  BY <1>7, <2>3
      <4> QED  BY <1>1, <1>4, <2>3, <4>1, <4>2 DEF Expirable, StoreInv, SlotOK
    <3>2. claims[old.key] = None  BY <1>2, <3>1, OutcomeTells
    <3>3. claims' = Claimed(old.key, "expired", old, None)
      BY <1>1, <2>3, <3>1 DEF Remembered, Expired
    <3>4. None \in Nat \cup {None} /\ "expired" \in {"confirming", "cancelled", "expired"}
      OBVIOUS
    <3>5. /\ claims'[old.key] # None /\ claims'[old.key].outcome = "expired"
          /\ \A l \in Key : l # old.key => claims'[l] = claims[l]
      BY <1>2, <3>1, <3>3, <3>4, ClaimedFields
    <3>6. Pending(j) <=> j = old.key  BY <2>3 DEF Pending
    <3>7. claims[j] # None => claims[j].outcome # "open"  BY <1>2 DEF Claims
    <3> QED  BY <1>6, <2>1, <3>1, <3>2, <3>5, <3>6, <3>7 DEF StateOf
  <2> QED  BY <2>2, <2>3
<1>12. ConfirmedKeys' = ConfirmedKeys  BY <1>8 DEF ConfirmedKeys, ConfirmedActivity
<1>13. ProposalState[k] = "none" /\ \A j \in Key : ProposalState[j] # "confirming"
  BY <1>5, <1>9, <1>10, StatesAre
<1>14. ProposalState' = [j \in Key |-> IF j = k THEN "open"
                             ELSE IF ProposalState[j] = "open" THEN "expired" ELSE ProposalState[j]]
  BY <1>11, StatesAre
<1>15. Life!Propose(k)  BY <1>12, <1>13, <1>14 DEF Life!Propose
<1> QED  BY <1>5, <1>15 DEF Life!Next

LEMMA SettleLives ==
    ASSUME StoreInv, SettleMove
    PROVE  Life!Next
<1>1. PICK k \in Key, outcome \in {"cancelled", "expired"} :
          /\ Pending(k) /\ Outcome(k) = "none"
          /\ memory' = Emptied
          /\ claims' = Claimed(k, outcome, memory.pending, None)
          /\ UNCHANGED <<acts, items, moved>>
  BY DEF SettleMove
<1>2. memory \in Memories /\ claims \in [Key -> Claims \cup {None}]
  BY DEF StoreInv, SlotOK, MemoryOK, RecordsOK
<1>3. memory'.pending = None  BY <1>1, <1>2, EmptiedFields
<1>4. PICK old : old = memory.pending  OBVIOUS
<1>5. old \in Commands /\ old.key = k  BY <1>1, <1>2, <1>4 DEF Pending, Memories
<1>6. None \in Nat \cup {None} /\ outcome \in {"confirming", "cancelled", "expired"}
  OBVIOUS
<1>7. /\ claims'[k] # None /\ claims'[k].outcome = outcome
      /\ \A j \in Key : j # k => claims'[j] = claims[j]
  BY <1>1, <1>2, <1>4, <1>5, <1>6, ClaimedFields
<1>8. claims[k] = None  BY <1>1, <1>2, OutcomeTells
<1>9. StateOf(k) = "open" /\ StateOf(k)' = outcome  BY <1>1, <1>7, <1>8 DEF StateOf
<1>10. ASSUME NEW j \in Key, j # k  PROVE StateOf(j)' = StateOf(j)
  <2>1. ~Pending(j) /\ ~Pending(j)'  BY <1>3, <1>4, <1>5, <1>10 DEF Pending
  <2> QED  BY <1>7, <1>10, <2>1 DEF StateOf
<1>11. Life!Settle(k, "open", outcome)  BY <1>1, <1>9, <1>10, LifeSettles
<1> QED  BY <1>11 DEF Life!Next, Life!Cancel, Life!Expire

LEMMA ReserveLives ==
    ASSUME StoreInv, ReserveMove
    PROVE  Life!Next
<1>1. PICK cmd \in Commands, v \in Nat :
          /\ Outcome(cmd.key) = "none" /\ memory.pending = cmd
          /\ claims' = Claimed(cmd.key, "confirming", cmd, v)
          /\ UNCHANGED <<memory, acts, items, moved>>
  BY DEF ReserveMove
<1>2. PICK k : k = cmd.key  OBVIOUS
<1>3. k \in Key /\ cmd # None  BY <1>2, NoneIsNothing DEF Commands
<1>4. claims \in [Key -> Claims \cup {None}] /\ claims[k] = None
  BY <1>1, <1>2, <1>3, OutcomeTells DEF StoreInv, RecordsOK
<1>5. v \in Nat \cup {None} /\ "confirming" \in {"confirming", "cancelled", "expired"}
  OBVIOUS
<1>6. /\ claims'[k] # None /\ claims'[k].outcome = "confirming"
      /\ \A j \in Key : j # k => claims'[j] = claims[j]
  BY <1>1, <1>2, <1>3, <1>4, <1>5, ClaimedFields
<1>7. StateOf(k) = "open" /\ StateOf(k)' = "confirming"
  BY <1>1, <1>2, <1>3, <1>4, <1>6 DEF StateOf, Pending
<1>8. \A j \in Key : j # k => StateOf(j)' = StateOf(j)
  BY <1>1, <1>6 DEF StateOf, Pending
<1>9. Life!Settle(k, "open", "confirming")  BY <1>1, <1>3, <1>7, <1>8, LifeSettles
<1> QED  BY <1>3, <1>9 DEF Life!Next, Life!Reserve

LEMMA EndLives ==
    ASSUME StoreInv, EndMove
    PROVE  Life!Next
<1>1. PICK cmd \in Commands, outcome \in {"confirmed", "stale"} :
          /\ Endable(cmd) /\ (outcome = "confirmed" => ConfirmedActivity(cmd.key))
          /\ Ended(cmd, outcome)
  BY DEF EndMove
<1>2. memory \in Memories /\ memory' = Emptied /\ UNCHANGED acts
  BY <1>1 DEF StoreInv, SlotOK, MemoryOK, Ended
<1>3. memory'.pending = None  BY <1>2, EmptiedFields
<1>4. PICK k : k = cmd.key  OBVIOUS
<1>5. k \in Key /\ memory.pending = cmd
  BY <1>1, <1>4 DEF Endable, Commands
<1>6. /\ claims'[k] # None /\ claims'[k].outcome = outcome
      /\ \A j \in Key : j # k => claims'[j] = claims[j]
  BY <1>1, <1>4, EndedFields DEF StoreInv
<1>7. claims[k] # None /\ claims[k].outcome = "confirming"
  BY <1>1, <1>4 DEF Endable, Fenced, Outcome
<1>8. StateOf(k) = "confirming" /\ StateOf(k)' = outcome  BY <1>6, <1>7 DEF StateOf
<1>9. ASSUME NEW j \in Key, j # k  PROVE StateOf(j)' = StateOf(j)
  <2>1. ~Pending(j) /\ ~Pending(j)'  BY <1>3, <1>4, <1>5, <1>9 DEF Pending
  <2> QED  BY <1>6, <1>9, <2>1 DEF StateOf
<1>10. Life!Settle(k, "confirming", outcome)  BY <1>2, <1>5, <1>8, <1>9, LifeSettles
<1>11. outcome = "confirmed" => k \in ConfirmedKeys  BY <1>1, <1>4, <1>5 DEF ConfirmedKeys
<1> QED  BY <1>5, <1>10, <1>11 DEF Life!Next, Life!Confirm, Life!Refuse

LEMMA ApplyLives ==
    ASSUME StoreInv, ApplyMove
    PROVE  Life!Next
<1>1. PICK cmd \in Commands :
          Fenced(cmd) /\ acts[cmd.key][0] = None /\ Applicable(cmd) /\ Applied(cmd)
  BY DEF ApplyMove
<1>2. PICK k : k = cmd.key  OBVIOUS
<1> DEFINE a == [kind |-> "confirmed", item |-> cmd.task, on |-> Proposed(cmd.task)]
<1>3. k \in Key  BY <1>2 DEF Commands
<1>4. a \in Activities
  BY VersionsSeen DEF Activities, Commands, StoreInv, RecordsOK, Proposed
<1>5. a.kind = "confirmed"  OBVIOUS
<1>6. acts' = [acts EXCEPT ![k][0] = a] /\ UNCHANGED <<memory, claims>>
  BY <1>1, <1>2 DEF Applied
<1> HIDE DEF a
<1>7. acts'[k][0] = a /\ acts'[k][0] # None /\ \A l \in Key : l # k => acts'[l] = acts[l]
  BY <1>3, <1>4, <1>6, SlotNumbers, OneActivity DEF StoreInv
<1>8. /\ ~ConfirmedActivity(k) /\ ConfirmedActivity(k)'
      /\ \A l \in Key : l # k => (ConfirmedActivity(l)' <=> ConfirmedActivity(l))
  BY <1>1, <1>2, <1>5, <1>7 DEF ConfirmedActivity
<1>9. k \notin ConfirmedKeys /\ ConfirmedKeys' = ConfirmedKeys \cup {k}
  BY <1>3, <1>8 DEF ConfirmedKeys
<1>10. ProposalState' = ProposalState  BY <1>6, StatesAre DEF StateOf, Pending
<1>11. ProposalState[k] = "confirming"
  BY <1>1, <1>2, <1>3, StatesAre DEF Fenced, Outcome, StateOf
<1>12. Life!Change(k)  BY <1>9, <1>10, <1>11 DEF Life!Change
<1> QED  BY <1>3, <1>12 DEF Life!Next

LEMMA OthersLive ==
    ASSUME ~Fresh, StoreInv,
           SaveMove \/ DueMove \/ RecordMove \/ ContinueMove \/ EditMove \/ UNCHANGED store
    PROVE  UNCHANGED Life!vars
<1>1. RecordsOK /\ memory \in Memories  BY DEF StoreInv, SlotOK, MemoryOK
<1>2. CASE UNCHANGED <<claims, acts>> /\ memory'.pending = memory.pending
  <2>1. \A k \in Key : StateOf(k)' = StateOf(k)  BY <1>2 DEF StateOf, Pending
  <2>2. \A k \in Key : ConfirmedActivity(k)' <=> ConfirmedActivity(k)
    BY <1>2 DEF ConfirmedActivity
  <2> QED  BY <2>1, <2>2, LifeStays
<1>3. CASE SaveMove
  <2>1. PICK m \in Memories : /\ MemoryOK(m) /\ (~Fresh => m.exists)
                              /\ m.exists => memory.exists /\ m.pending = memory.pending
                              /\ Saved(m)
    BY <1>3 DEF SaveMove
  <2>2. memory'.pending = m.pending  BY <1>1, <2>1, SavedFields
  <2>3. UNCHANGED <<claims, acts>>  BY <2>1 DEF Saved
  <2> QED  BY <1>2, <2>1, <2>2, <2>3
<1>4. CASE DueMove
  <2>1. memory'.pending = memory.pending  BY <1>1, <1>4, OneField DEF DueMove
  <2> QED  BY <1>2, <1>4, <2>1 DEF DueMove
<1>5. CASE EditMove \/ UNCHANGED store  BY <1>2, <1>5 DEF EditMove, store
<1>6. CASE UNCHANGED <<memory, claims>> /\ \A k \in Key : ConfirmedActivity(k)' <=> ConfirmedActivity(k)
  <2>1. \A k \in Key : StateOf(k)' = StateOf(k)  BY <1>6 DEF StateOf, Pending
  <2> QED  BY <1>6, <2>1, LifeStays
<1>7. CASE RecordMove
  <2>1. PICK k \in Key, i \in 0 .. Clauses, a \in Activities :
            /\ acts[k][i] = None /\ a.kind # "confirmed"
            /\ acts' = [acts EXCEPT ![k][i] = a] /\ UNCHANGED <<memory, claims>>
    BY <1>7 DEF RecordMove
  <2>2. i \in Slot  BY DEF Slot, Approved, Clauses
  <2>3. /\ acts'[k][i] = a
        /\ \A j \in Slot : j # i => acts'[k][j] = acts[k][j]
        /\ \A l \in Key : l # k => acts'[l] = acts[l]
    <3>1. acts' = [acts EXCEPT ![k][i] = a]  BY <2>1
    <3>. QED BY <1>1, <2>2, <3>1, OneActivity
  <2>4. \A l \in Key : ConfirmedActivity(l)' <=> ConfirmedActivity(l)
    BY <2>1, <2>3, SlotNumbers DEF ConfirmedActivity
  <2> QED  BY <1>6, <2>1, <2>4
<1>8. CASE ContinueMove
  <2>1. PICK k \in Key : Continuable(k) /\ Continued(k)  BY <1>8 DEF ContinueMove
  <2>2. PICK a : a = Activity("approved", acts[k][0].item, acts[k][0].on)  OBVIOUS
  <2>3. acts[k][0] \in Activities
    BY <1>1, <2>1, SlotNumbers DEF Continuable, RecordsOK
  <2>4. a \in Activities  BY <2>2, <2>3 DEF Activity, Activities
  <2>5. acts' = [acts EXCEPT ![k][Approved] = a] /\ UNCHANGED <<memory, claims>>
    BY <2>1, <2>2 DEF Continued
  <2>6. /\ \A j \in Slot : j # Approved => acts'[k][j] = acts[k][j]
        /\ \A l \in Key : l # k => acts'[l] = acts[l]
    BY <1>1, <2>4, <2>5, SlotNumbers, OneActivity
  <2>7. \A l \in Key : acts'[l][0] = acts[l][0]
    BY <2>6, SlotNumbers DEF Approved, Clauses
  <2> QED  BY <1>6, <2>5, <2>7 DEF ConfirmedActivity
<1> QED  BY <1>3, <1>4, <1>5, <1>7, <1>8

LEMMA LifeSteps ==
    ASSUME ~Fresh, ConversationInv, [Next]_vars
    PROVE  [Life!Next]_(Life!vars)
<1>1. StoreInv  BY StoreInvIs DEF ConversationInv
<1>2. CallMove \/ DueMove \/ UNCHANGED store
  BY EveryStep, ExpireIsDue DEF CallStep, Around
<1> QED  BY <1>1, <1>2, ProposeLives, SettleLives, ReserveLives, EndLives, ApplyLives, OthersLive
            DEF CallMove

LEMMA LifeInit == Init => Life!Init
<1> SUFFICES ASSUME Init PROVE Life!Init  OBVIOUS
<1>1. memory.pending = None  BY DEF Init
<1>2. \A k \in Key : claims[k] = None /\ acts[k][0] = None  BY SlotNumbers DEF Init
<1>3. \A k \in Key : StateOf(k) = "none" /\ ~ConfirmedActivity(k)
  BY <1>1, <1>2 DEF StateOf, Pending, ConfirmedActivity
<1> QED  BY <1>3, StatesAre DEF Life!Init, ConfirmedKeys

\* The conversation, where the manager's memory exists, implements the life of a
\* proposal: one at a time is open or reserved, the project is changed between a
\* reservation and its receipt, and how a proposal was settled is final.
THEOREM ConversationImplementsLife == ~Fresh => (Spec => ImplementsLife)
<1> SUFFICES ASSUME ~Fresh  PROVE Spec => ImplementsLife  OBVIOUS
<1>1. ConversationInv /\ [Next]_vars => [Life!Next]_(Life!vars)  BY LifeSteps
<1> QED  BY <1>1, LifeInit, ConversationInvariant, PTL DEF Spec, ImplementsLife, Life!Spec

LEMMA SlotIsNotOverwritten ==
    ASSUME ~Fresh, ConversationInv, [Next]_vars, NEW k \in Key, Pending(k),
           memory'.pending # memory.pending
    PROVE  Outcome(k)' \in {"confirmed", "stale", "cancelled", "expired"}
<1>1. StoreInv /\ memory \in Memories /\ claims \in [Key -> Claims \cup {None}]
  BY StoreInvIs DEF ConversationInv, TypeOK
<1>2. CallMove \/ DueMove \/ UNCHANGED store
  BY EveryStep, ExpireIsDue DEF CallStep, Around
<1>3. PICK old : old = memory.pending  OBVIOUS
<1>4. old \in Commands /\ old.key = k /\ None \in Nat \cup {None}  BY <1>3, PendingIs
<1>5. CASE ProposeMove
  <2>1. PICK cmd \in Commands : Rememberable(cmd) /\ Remembered(cmd)  BY <1>5 DEF ProposeMove
  <2>2. Outcome(k) = "none"
    BY <1>3, <1>4, <2>1, NoneIsNothing DEF Rememberable, Expirable, ConversationInv, TypeOK
  <2>3. claims' = Claimed(k, "expired", old, None)
    BY <1>3, <1>4, <2>1, <2>2, NoneIsNothing DEF Remembered, Expired
  <2>4. claims'[k] # None /\ claims'[k].outcome = "expired"
    BY <1>1, <1>4, <2>3, ClaimedFields
  <2> QED  BY <2>4 DEF Outcome
<1>6. CASE SettleMove
  <2>1. PICK outcome \in {"cancelled", "expired"} : claims' = Claimed(k, outcome, old, None)
    BY <1>3, <1>4, <1>6 DEF SettleMove, Pending
  <2>2. claims'[k] # None /\ claims'[k].outcome = outcome
    BY <1>1, <1>4, <2>1, ClaimedFields
  <2> QED  BY <2>2 DEF Outcome
<1>7. CASE EndMove
  <2>1. PICK cmd \in Commands, outcome \in {"confirmed", "stale"} : Endable(cmd) /\ Ended(cmd, outcome)
    BY <1>7 DEF EndMove
  <2>2. cmd = old  BY <1>3, <2>1 DEF Endable
  <2>3. claims'[k] # None /\ claims'[k].outcome = outcome
    BY <1>1, <1>4, <2>1, <2>2, EndedFields DEF StoreInv
  <2> QED  BY <2>3 DEF Outcome
<1>8. CASE SaveMove
  <2>1. PICK m \in Memories : /\ MemoryOK(m) /\ (~Fresh => m.exists)
                              /\ m.exists => memory.exists /\ m.pending = memory.pending
                              /\ Saved(m)
    BY <1>8 DEF SaveMove
  <2>2. memory'.pending = m.pending  BY <1>1, <2>1, SavedFields
  <2> QED  BY <2>1, <2>2
<1>9. CASE DueMove  BY <1>1, <1>9, OneField DEF DueMove
<1>10. CASE ReserveMove \/ ApplyMove \/ RecordMove \/ ContinueMove \/ EditMove \/ UNCHANGED store
  BY <1>10 DEF ReserveMove, ApplyMove, Applied, RecordMove, ContinueMove, Continued, EditMove, store
<1> QED  BY <1>2, <1>5, <1>6, <1>7, <1>8, <1>9, <1>10 DEF CallMove

\* Where the manager's memory exists, a proposal leaves the slot only when it is
\* settled: no copy of the memory that is written back (remember_reference,
\* remember_pending, clear_active_clarification) takes its place.
THEOREM SlotIsKept == ~Fresh => (Spec => NoSilentOverwrite)
<1> SUFFICES ASSUME ~Fresh  PROVE Spec => NoSilentOverwrite  OBVIOUS
<1>1. ConversationInv /\ [Next]_vars =>
         [\A k \in Key : Pending(k) /\ memory'.pending # memory.pending
              => Outcome(k)' \in {"confirmed", "stale", "cancelled", "expired"}]_vars
  BY SlotIsNotOverwritten
<1> QED  BY <1>1, ConversationInvariant, PTL DEF Spec, NoSilentOverwrite

=============================================================================
