---------------------- MODULE SlashingProtectionProofs ----------------------
(***************************************************************************)
(* Proofs about attestation slashing protection, for every number of       *)
(* epochs, every set of attestations and every sequence of requests:       *)
(*   - calls that do not overlap never let a double vote pass, whatever is *)
(*     imported and wherever the process crashes;                          *)
(*   - without crashes and contradictory imports, the min and max spans    *)
(*     are exact and no surround vote passes;                              *)
(*   - the validator store signs one attestation data for a target epoch.  *)
(***************************************************************************)
EXTENDS SlashingProtection, TLAPS

OneSigner == \A s, t \in Signers : s = t

\* The type of a call, as TypeOK has it.
CallType == [pc : {"idle", "surrounding", "surrounded", "bound", "insert", "minSpan",
                   "maxSpan", "importSpans"},
             att : Attestations \union {None},
             todo : SUBSET Attestations, file : SUBSET Attestations]

-----------------------------------------------------------------------------
(* The span updates of MinMaxSurround. *)

WellFormed(a) == a.source \in Epochs /\ a.target \in Epochs /\ a.source <= a.target

\* updateMinSpan writes the entries that the attestation calls for, only brings
\* targets nearer, and keeps the order that its early break relies on.
LEMMA UpdateMinSpanLemma ==
    ASSUME NEW span \in [Epochs -> Nat], MinMonotone(span), NEW a, WellFormed(a)
    PROVE  LET new == UpdateMinSpan(span, a)
           IN /\ new \in [Epochs -> Nat]
              /\ MinCovers(new, a)
              /\ \A e \in Epochs : span[e] > 0 => new[e] > 0 /\ new[e] <= span[e]
              /\ \A e \in Epochs : new[e] = span[e] \/ (e < a.source /\ new[e] = a.target - e)
              /\ MinMonotone(new)
<1> DEFINE new == UpdateMinSpan(span, a)
           writes(e) == /\ e < a.source
                        /\ \A k \in e..(a.source - 1) : span[k] = 0 \/ a.target - k < span[k]
<1> USE MaxEpochAssumption DEF Epochs, WellFormed
<1>1. new = [e \in Epochs |-> IF writes(e) THEN a.target - e ELSE span[e]]
  BY DEF UpdateMinSpan
<1>2. \A e \in Epochs : new[e] = IF writes(e) THEN a.target - e ELSE span[e]
  BY <1>1
<1>3. \A e \in Epochs : writes(e) => e < a.source /\ (span[e] > 0 => a.target - e < span[e])
  <2> SUFFICES ASSUME NEW e \in Epochs, writes(e)
               PROVE  e < a.source /\ (span[e] > 0 => a.target - e < span[e])
    OBVIOUS
  <2>1. e < a.source /\ e \in Int /\ a.source \in Int OBVIOUS
  <2>2. e \in e..(a.source - 1) BY <2>1
  <2>3. span[e] = 0 \/ a.target - e < span[e] BY <2>2
  <2> QED BY <2>1, <2>3
<1>4. \A e \in Epochs : e < a.source /\ ~writes(e) => span[e] > 0 /\ e + span[e] <= a.target
  <2> SUFFICES ASSUME NEW e \in Epochs, e < a.source, ~writes(e)
               PROVE  span[e] > 0 /\ e + span[e] <= a.target
    OBVIOUS
  <2>1. PICK k \in e..(a.source - 1) : ~(span[k] = 0 \/ a.target - k < span[k]) OBVIOUS
  <2> HIDE DEF writes
  <2>2. /\ k \in Epochs /\ k \in Int /\ e \in Int /\ a.target \in Int
        /\ span[k] \in Nat /\ span[e] \in Nat
    BY SMTT(30)
  <2>3. span[k] > 0 /\ k + span[k] <= a.target BY <2>1, <2>2, SMTT(30)
  <2>4. CASE k = e BY <2>3, <2>4
  <2>5. CASE e < k BY <2>2, <2>3, <2>5, SMTT(30) DEF MinMonotone
  <2> QED BY <2>1, <2>4, <2>5
<1> HIDE DEF new, writes
<1>5. new \in [Epochs -> Nat]
  <2>1. \A e \in Epochs : (IF writes(e) THEN a.target - e ELSE span[e]) \in Nat BY <1>3
  <2> QED BY <1>1, <2>1
<1>6. MinCovers(new, a) BY <1>2, <1>3, <1>4, SMTT(30) DEF MinCovers
<1>7. \A e \in Epochs : span[e] > 0 => new[e] > 0 /\ new[e] <= span[e] BY <1>2, <1>3, SMTT(30)
<1>8. \A e \in Epochs : new[e] = span[e] \/ (e < a.source /\ new[e] = a.target - e) BY <1>2, <1>3
<1>9. MinMonotone(new)
  <2> SUFFICES ASSUME NEW e \in Epochs, NEW k \in Epochs, e < k, new[k] > 0
               PROVE  new[e] > 0 /\ e + new[e] <= k + new[k]
    BY DEF MinMonotone
  <2>1. CASE new[k] = span[k]
    <3>1. span[e] > 0 /\ e + span[e] <= k + span[k] BY <2>1 DEF MinMonotone
    <3> QED BY <2>1, <3>1, <1>5, <1>7, SMTT(30)
  <2>2. CASE k < a.source /\ new[k] = a.target - k
    BY <2>2, <1>6, SMTT(30) DEF MinCovers
  <2> QED BY <2>1, <2>2, <1>8
<1> QED BY <1>5, <1>6, <1>7, <1>8, <1>9 DEF new

\* updateMaxSpan likewise, towards farther targets.
LEMMA UpdateMaxSpanLemma ==
    ASSUME NEW span \in [Epochs -> Nat], MaxMonotone(span), NEW a, WellFormed(a)
    PROVE  LET new == UpdateMaxSpan(span, a)
           IN /\ new \in [Epochs -> Nat]
              /\ MaxCovers(new, a)
              /\ \A e \in Epochs : new[e] >= span[e]
              /\ \A e \in Epochs : new[e] = span[e] \/ (a.source < e /\ e < a.target /\ new[e] = a.target - e)
              /\ MaxMonotone(new)
<1> DEFINE new == UpdateMaxSpan(span, a)
           writes(e) == /\ a.source < e /\ e < a.target
                        /\ \A k \in (a.source + 1)..e : span[k] = 0 \/ a.target - k > span[k]
<1> USE MaxEpochAssumption DEF Epochs, WellFormed
<1>1. new = [e \in Epochs |-> IF writes(e) THEN a.target - e ELSE span[e]]
  BY DEF UpdateMaxSpan
<1>2. \A e \in Epochs : new[e] = IF writes(e) THEN a.target - e ELSE span[e]
  BY <1>1
<1>3. \A e \in Epochs : writes(e) => /\ a.source < e /\ e < a.target
                                     /\ a.target - e >= span[e]
  <2> SUFFICES ASSUME NEW e \in Epochs, writes(e)
               PROVE  a.source < e /\ e < a.target /\ a.target - e >= span[e]
    OBVIOUS
  <2>1. a.source < e /\ e < a.target /\ e \in Int /\ a.source \in Int /\ a.target \in Int OBVIOUS
  <2>2. e \in (a.source + 1)..e BY <2>1
  <2>3. span[e] = 0 \/ a.target - e > span[e] BY <2>2
  <2> QED BY <2>1, <2>3
<1>4. \A e \in Epochs : a.source < e /\ e < a.target /\ ~writes(e) => e + span[e] >= a.target
  <2> SUFFICES ASSUME NEW e \in Epochs, a.source < e, e < a.target, ~writes(e)
               PROVE  e + span[e] >= a.target
    OBVIOUS
  <2>1. PICK k \in (a.source + 1)..e : ~(span[k] = 0 \/ a.target - k > span[k]) OBVIOUS
  <2> HIDE DEF writes
  <2>2. /\ k \in Epochs /\ k \in Int /\ e \in Int /\ a.target \in Int
        /\ span[k] \in Nat /\ span[e] \in Nat
    BY SMTT(30)
  <2>3. span[k] > 0 /\ k + span[k] >= a.target BY <2>1, <2>2, SMTT(30)
  <2>4. CASE k = e BY <2>3, <2>4
  <2>5. CASE k < e
    <3>1. e < k + span[k] BY <2>2, <2>3, SMTT(30)
    <3>2. e + span[e] >= k + span[k] BY <2>2, <2>3, <2>5, <3>1, SMTT(30) DEF MaxMonotone
    <3> QED BY <2>2, <2>3, <3>2, SMTT(30)
  <2> QED BY <2>1, <2>4, <2>5
<1> HIDE DEF new, writes
<1>5. new \in [Epochs -> Nat]
  <2>1. \A e \in Epochs : (IF writes(e) THEN a.target - e ELSE span[e]) \in Nat BY <1>3
  <2> QED BY <1>1, <2>1
<1>6. MaxCovers(new, a) BY <1>2, <1>3, <1>4, SMTT(30) DEF MaxCovers
<1>7. \A e \in Epochs : new[e] >= span[e] BY <1>2, <1>3, SMTT(30)
<1>8. \A e \in Epochs : new[e] = span[e] \/ (a.source < e /\ e < a.target /\ new[e] = a.target - e)
  BY <1>2, <1>3
<1>9. MaxMonotone(new)
  <2> SUFFICES ASSUME NEW e \in Epochs, NEW k \in Epochs, e < k, new[e] > 0, k < e + new[e]
               PROVE  k + new[k] >= e + new[e]
    BY DEF MaxMonotone
  <2>1. CASE new[e] = span[e]
    <3>1. k + span[k] >= e + span[e] BY <2>1 DEF MaxMonotone
    <3> QED BY <2>1, <3>1, <1>5, <1>7, SMTT(30)
  <2>2. CASE a.source < e /\ e < a.target /\ new[e] = a.target - e
    <3>1. a.source < k /\ k < a.target BY <2>2, SMTT(30)
    <3> QED BY <2>2, <3>1, <1>6 DEF MaxCovers
  <2> QED BY <2>1, <2>2, <1>8
<1> QED BY <1>5, <1>6, <1>7, <1>8, <1>9 DEF new

\* The span updates write natural numbers.
LEMMA UpdateTypes ==
    ASSUME NEW span \in [Epochs -> Nat], NEW a, WellFormed(a)
    PROVE  UpdateMinSpan(span, a) \in [Epochs -> Nat] /\ UpdateMaxSpan(span, a) \in [Epochs -> Nat]
<1> USE MaxEpochAssumption DEF Epochs, WellFormed
<1>1. \A e \in Epochs : e < a.target => a.target - e \in Nat OBVIOUS
<1>2. \A e \in Epochs : span[e] \in Nat OBVIOUS
<1>3. UpdateMinSpan(span, a) \in [Epochs -> Nat] BY <1>1, <1>2, SMTT(30) DEF UpdateMinSpan
<1>4. UpdateMaxSpan(span, a) \in [Epochs -> Nat] BY <1>1, <1>2 DEF UpdateMaxSpan
<1> QED BY <1>3, <1>4

\* Attestations have epochs in range, and the placeholder is not one of them.
LEMMA AttestationFacts ==
    /\ None \notin Attestations
    /\ \A a \in Attestations : a.source \in Epochs /\ a.target \in Epochs /\ a.root \in Nat
    /\ Requests \subseteq Attestations
    /\ \A file \in ImportFiles : file \subseteq Attestations
BY AttestationsAssumption DEF Attestations, None

-----------------------------------------------------------------------------
(* The records: what double votes are found with. *)

\* An empty database satisfies the invariant of the records.
LEMMA InitRecordInv == Init => RecordInv
<1> SUFFICES ASSUME Init PROVE RecordInv OBVIOUS
<1>1. TypeOK
  BY MaxEpochAssumption, EnvironmentAssumption DEF Init, TypeOK, Idle
<1>2. RecordsFiled /\ HistoryRecorded BY DEF Init, RecordsFiled, HistoryRecorded, History
<1>3. CallsMatchRecords BY DEF Init, CallsMatchRecords, Idle, Checking, Inserting
<1> QED BY <1>1, <1>2, <1>3 DEF RecordInv

\* What a call does that only reads: it goes on, or it ends with an error.
LEMMA ReadStep ==
    ASSUME RecordInv, NEW s \in Signers, op[s].pc \in Checking,
           NEW pc \in Checking, GoTo(s, pc) \/ Reject(s),
           UNCHANGED <<db, imported, crashes>>
    PROVE  RecordInv'
<1>1. /\ op' = [op EXCEPT ![s].pc = pc] \/ op' = [op EXCEPT ![s] = Idle]
      /\ UNCHANGED <<byTarget, minSpan, maxSpan, lowerBound, signed, imported, crashes>>
  BY DEF GoTo, Reject, db
<1>2. TypeOK'
  BY <1>1, SMTT(30) DEF RecordInv, TypeOK, Idle, Checking
<1>3. RecordsFiled' /\ HistoryRecorded' BY <1>1 DEF RecordInv, RecordsFiled, HistoryRecorded, History
<1>4. CallsMatchRecords'
  BY <1>1 DEF RecordInv, CallsMatchRecords, TypeOK, Idle, Checking, Inserting
<1> QED BY <1>2, <1>3, <1>4 DEF RecordInv

\* checkAttestation's first read keeps it, and if it lets an attestation pass at
\* once, that attestation is the one on record.
LEMMA CheckTargetRecords ==
    ASSUME RecordInv, NEW s \in Signers, NEW a \in Requests, CheckTarget(s, a)
    PROVE  /\ RecordInv'
           /\ signed' = signed \/ (byTarget[a.target] = a /\ signed' = signed \union {a})
<1> USE AttestationFacts DEF RecordInv
<1>1. a \in Attestations /\ a.target \in Epochs /\ a # None /\ a.source <= a.target
  BY DEF CheckTarget
<1>2. UNCHANGED <<byTarget, minSpan, maxSpan, lowerBound, imported, crashes>>
  BY DEF CheckTarget, db
<1>3. CASE byTarget[a.target] = None
  <2>1. /\ op' = [op EXCEPT ![s] = [pc |-> "surrounding", att |-> a, todo |-> {}, file |-> {}]]
        /\ UNCHANGED signed
    BY <1>3 DEF CheckTarget, SameTargetStatus
  <2>2. TypeOK'
    <3>1. op' \in [Signers -> CallType] BY <1>1, <2>1 DEF TypeOK, CallType
    <3> QED BY <1>2, <2>1, <3>1 DEF TypeOK, CallType
  <2>3. RecordsFiled' /\ HistoryRecorded' BY <1>2, <2>1 DEF RecordsFiled, HistoryRecorded, History
  <2>4. CallsMatchRecords'
    BY <1>1, <1>2, <1>3, <2>1 DEF CallsMatchRecords, TypeOK, Checking, Inserting
  <2> QED BY <2>1, <2>2, <2>3, <2>4
<1>4. CASE byTarget[a.target] # None
  <2>1. /\ op' = [op EXCEPT ![s] = Idle]
        /\ signed' = signed \/ (/\ IsEqualNonZeroRoot(byTarget[a.target].root, a.root)
                                /\ signed' = signed \union {a})
    BY <1>4 DEF CheckTarget, SameTargetStatus, Accept, Reject
  <2>2. byTarget[a.target] \in Attestations BY <1>1, <1>4 DEF TypeOK
  <2>3. signed' = signed \/ (byTarget[a.target] = a /\ signed' = signed \union {a})
    BY <1>1, <2>1, <2>2, RootsAssumption DEF IsEqualNonZeroRoot
  <2>4. TypeOK' BY <1>1, <1>2, <2>1 DEF TypeOK, Idle
  <2>5. RecordsFiled'
    <3> SUFFICES ASSUME NEW t \in Epochs, byTarget[t] # None, NEW b \in History', b.target = t
                 PROVE  byTarget[t] \in History'
      BY <1>2 DEF RecordsFiled
    <3>1. b \in History \/ (b = a /\ byTarget[t] = a /\ a \in signed') BY <1>2, <2>3 DEF History
    <3>2. History \subseteq History' BY <1>2, <2>3 DEF History
    <3> QED BY <3>1, <3>2 DEF RecordsFiled, History
  <2>6. HistoryRecorded' BY <1>2, <1>4, <2>3 DEF HistoryRecorded, History
  <2>7. CallsMatchRecords' BY <1>2, <2>1 DEF CallsMatchRecords, TypeOK, Idle, Checking, Inserting
  <2> QED BY <2>3, <2>4, <2>5, <2>6, <2>7
<1> QED BY <1>3, <1>4

\* insertAttestation files the attestation under a target that had no record.
LEMMA InsertByTargetRecords ==
    ASSUME OneSigner, RecordInv, NEW s \in Signers, InsertByTarget(s)
    PROVE  RecordInv'
<1> USE AttestationFacts DEF RecordInv
<1> DEFINE a == op[s].att
<1>1. /\ op[s].pc = "insert"
      /\ byTarget' = [byTarget EXCEPT ![a.target] = a]
      /\ op' = [op EXCEPT ![s].pc = "minSpan"]
      /\ UNCHANGED <<minSpan, maxSpan, lowerBound, signed, imported, crashes>>
  BY DEF InsertByTarget, GoTo
<1>2. a # None /\ a.source <= a.target /\ byTarget[a.target] = None
  BY <1>1 DEF CallsMatchRecords, Checking
<1>3. a \in Attestations /\ a.target \in Epochs BY <1>2 DEF TypeOK
<1>4. TypeOK' BY <1>1, <1>3 DEF TypeOK
<1>5. \A b \in History : b.target # a.target BY <1>2 DEF HistoryRecorded
<1>6. History' = History BY <1>1 DEF History
<1>7. RecordsFiled' BY <1>1, <1>2, <1>3, <1>5, <1>6 DEF RecordsFiled, TypeOK
<1>8. HistoryRecorded'
  <2> SUFFICES ASSUME NEW b \in History PROVE byTarget'[b.target] # None
    BY <1>6 DEF HistoryRecorded
  <2>1. b.target \in Epochs BY DEF History, TypeOK
  <2> QED BY <1>1, <1>5, <2>1 DEF HistoryRecorded, TypeOK
<1>9. CallsMatchRecords'
  BY <1>1, <1>2, <1>3 DEF CallsMatchRecords, OneSigner, TypeOK, Checking, Inserting
<1> QED BY <1>4, <1>7, <1>8, <1>9

\* The span writes leave the records alone; what passes at the end is on record.
LEMMA InsertSpansRecords ==
    ASSUME RecordInv, NEW s \in Signers, InsertMinSpan(s) \/ InsertMaxSpan(s)
    PROVE  /\ RecordInv'
           /\ \/ signed' = signed
              \/ byTarget[op[s].att.target] = op[s].att /\ signed' = signed \union {op[s].att}
<1> USE AttestationFacts DEF RecordInv
<1> DEFINE a == op[s].att
<1>1. op[s].pc \in Inserting BY DEF InsertMinSpan, InsertMaxSpan, Inserting
<1>2. a # None /\ a.source <= a.target /\ byTarget[a.target] = a
  BY <1>1 DEF CallsMatchRecords
<1>3. a \in Attestations /\ WellFormed(a) BY <1>2 DEF TypeOK, WellFormed
<1>4. /\ UpdateMinSpan(minSpan, a) \in [Epochs -> Nat]
      /\ UpdateMaxSpan(maxSpan, a) \in [Epochs -> Nat]
  BY <1>3, UpdateTypes DEF TypeOK
<1>5. /\ UNCHANGED <<byTarget, lowerBound, imported, crashes>>
      /\ minSpan' = minSpan \/ minSpan' = UpdateMinSpan(minSpan, a)
      /\ maxSpan' = maxSpan \/ maxSpan' = UpdateMaxSpan(maxSpan, a)
      /\ op' = [op EXCEPT ![s].pc = "maxSpan"] \/ op' = [op EXCEPT ![s] = Idle]
      /\ signed' = signed \/ signed' = signed \union {a}
  BY DEF InsertMinSpan, InsertMaxSpan, GoTo, Reject, Accept
<1> HIDE DEF a
<1>6. TypeOK'
  <2>1. op' \in [Signers -> CallType] BY <1>5, SMTT(30) DEF TypeOK, CallType, Idle
  <2>2. minSpan' \in [Epochs -> Nat] /\ maxSpan' \in [Epochs -> Nat] BY <1>4, <1>5 DEF TypeOK
  <2>3. signed' \subseteq Attestations BY <1>3, <1>5 DEF TypeOK
  <2> QED BY <1>5, <2>1, <2>2, <2>3 DEF TypeOK, CallType
<1>7. RecordsFiled'
  <2> SUFFICES ASSUME NEW t \in Epochs, byTarget[t] # None, NEW b \in History', b.target = t
               PROVE  byTarget[t] \in History'
    BY <1>5 DEF RecordsFiled
  <2>1. b \in History \/ (b = a /\ byTarget[t] = a /\ a \in signed') BY <1>2, <1>5 DEF History
  <2>2. History \subseteq History' BY <1>5 DEF History
  <2> QED BY <2>1, <2>2 DEF RecordsFiled, History
<1>8. HistoryRecorded' BY <1>2, <1>5 DEF HistoryRecorded, History
<1>9. CallsMatchRecords'
  BY <1>1, <1>5 DEF CallsMatchRecords, TypeOK, Idle, Checking, Inserting
<1> QED BY <1>2, <1>5, <1>6, <1>7, <1>8, <1>9 DEF a

\* importAttestations files every target of the file anew, and the file is history.
LEMMA ImportByTargetRecords ==
    ASSUME RecordInv, NEW s \in Signers, NEW file \in ImportFiles, ImportByTarget(s, file)
    PROVE  RecordInv' /\ signed' = signed
<1> USE AttestationFacts DEF RecordInv
<1> DEFINE targets == {a.target : a \in file}
<1>1. /\ op = [t \in Signers |-> Idle]
      /\ op' = [op EXCEPT ![s] = [pc |-> "importSpans", att |-> None, todo |-> file, file |-> file]]
      /\ imported' = imported \union file
      /\ UNCHANGED <<minSpan, maxSpan, lowerBound, signed, crashes>>
  BY DEF ImportByTarget
<1>2. PICK last \in [targets -> file] :
        /\ \A t \in targets : last[t].target = t
        /\ byTarget' = [t \in Epochs |-> IF t \in targets THEN last[t] ELSE byTarget[t]]
  BY DEF ImportByTarget
<1>3. /\ file \subseteq Attestations
      /\ \A a \in file : a # None /\ a.source <= a.target
  BY FilesAssumption
<1>4. \A t \in targets : last[t] \in file /\ last[t] # None /\ last[t].target = t
  BY <1>2, <1>3
<1>5. \A a \in file : a.target \in targets OBVIOUS
<1> HIDE DEF targets
<1>6. TypeOK'
  <2>1. op' \in [Signers -> CallType] BY <1>1, <1>3 DEF TypeOK, CallType
  <2>2. byTarget' \in [Epochs -> Attestations \union {None}] BY <1>2, <1>3, <1>4 DEF TypeOK
  <2>3. imported' \subseteq Attestations BY <1>1, <1>3 DEF TypeOK
  <2> QED BY <1>1, <2>1, <2>2, <2>3 DEF TypeOK, CallType
<1>7. History' = History \union file BY <1>1 DEF History
<1>8. RecordsFiled'
  <2> SUFFICES ASSUME NEW t \in Epochs, byTarget'[t] # None
               PROVE  /\ byTarget'[t].target = t /\ byTarget'[t].source <= t
                      /\ \A a \in History' : a.target = t => byTarget'[t] \in History'
    BY DEF RecordsFiled
  <2>1. CASE t \in targets
    <3>1. byTarget'[t] = last[t] BY <1>2, <2>1
    <3>2. last[t] \in file /\ last[t].target = t /\ last[t].source <= t BY <1>3, <1>4, <2>1
    <3> QED BY <1>7, <3>1, <3>2
  <2>2. CASE t \notin targets
    <3>1. byTarget'[t] = byTarget[t] BY <1>2, <2>2
    <3>2. \A a \in History' : a.target = t => a \in History BY <1>5, <1>7, <2>2
    <3> QED BY <1>7, <3>1, <3>2 DEF RecordsFiled
  <2> QED BY <2>1, <2>2
<1>9. HistoryRecorded'
  <2> SUFFICES ASSUME NEW a \in History' PROVE byTarget'[a.target] # None
    BY DEF HistoryRecorded
  <2>1. a.target \in Epochs BY <1>6 DEF History, TypeOK
  <2>2. CASE a.target \in targets BY <1>2, <1>4, <2>1, <2>2
  <2>3. CASE a.target \notin targets
    <3>1. a \in History BY <1>5, <1>7, <2>3
    <3> QED BY <1>2, <2>1, <2>3, <3>1 DEF HistoryRecorded
  <2> QED BY <2>2, <2>3
<1>10. CallsMatchRecords'
  <2> SUFFICES ASSUME NEW t \in Signers
               PROVE  /\ op'[t].pc \notin Checking \union Inserting
                      /\ op'[t].pc = "importSpans" => op'[t].todo = file
    BY <1>3 DEF CallsMatchRecords
  <2> QED BY <1>1 DEF Idle, Checking, Inserting
<1> QED BY <1>1, <1>6, <1>8, <1>9, <1>10

\* Whatever only moves calls and spans, and leaves no call with work, keeps it.
LEMMA ImportSpansRecords ==
    ASSUME RecordInv, NEW s \in Signers, NEW a, ImportSpans(s, a)
    PROVE  RecordInv' /\ signed' = signed
<1> USE AttestationFacts DEF RecordInv
<1>1. /\ op[s].pc = "importSpans" /\ a \in op[s].todo
      /\ UNCHANGED <<byTarget, lowerBound, signed, imported, crashes>>
      /\ minSpan' = minSpan \/ minSpan' = UpdateMinSpan(minSpan, a)
      /\ maxSpan' = maxSpan \/ maxSpan' = UpdateMaxSpan(maxSpan, a)
      /\ op' = [op EXCEPT ![s].todo = @ \ {a}] \/ op' = [op EXCEPT ![s] = Idle]
  BY DEF ImportSpans
<1>2. a \in Attestations /\ a.source <= a.target BY <1>1 DEF CallsMatchRecords, TypeOK
<1>3. /\ UpdateMinSpan(minSpan, a) \in [Epochs -> Nat]
      /\ UpdateMaxSpan(maxSpan, a) \in [Epochs -> Nat]
  BY <1>2, UpdateTypes DEF TypeOK, WellFormed
<1>4. TypeOK'
  <2>1. op' \in [Signers -> CallType] BY <1>1, SMTT(30) DEF TypeOK, CallType, Idle
  <2>2. minSpan' \in [Epochs -> Nat] /\ maxSpan' \in [Epochs -> Nat] BY <1>1, <1>3 DEF TypeOK
  <2> QED BY <1>1, <2>1, <2>2 DEF TypeOK, CallType
<1>5. RecordsFiled' /\ HistoryRecorded' BY <1>1 DEF RecordsFiled, HistoryRecorded, History
<1>6. CallsMatchRecords'
  BY <1>1 DEF CallsMatchRecords, TypeOK, Idle, Checking, Inserting
<1> QED BY <1>1, <1>4, <1>5, <1>6

\* The lower bound of a file is that of attestations in it.
LEMMA ImportLowerBoundRecords ==
    ASSUME RecordInv, NEW s \in Signers, ImportLowerBound(s)
    PROVE  RecordInv' /\ signed' = signed
<1> USE AttestationFacts DEF RecordInv
<1>1. /\ op' = [op EXCEPT ![s] = Idle]
      /\ UNCHANGED <<byTarget, minSpan, maxSpan, signed, imported, crashes>>
  BY DEF ImportLowerBound
<1>2. lowerBound' \in [minSourceEpoch : Epochs, minTargetEpoch : Epochs] \union {NoBound}
  <2>1. CASE op[s].file = {} BY <2>1 DEF ImportLowerBound, TypeOK
  <2>2. CASE op[s].file # {}
    <3>1. PICK a, b \in op[s].file :
            lowerBound' = [minSourceEpoch |-> a.source, minTargetEpoch |-> b.target]
      BY <2>2 DEF ImportLowerBound
    <3>2. a \in Attestations /\ b \in Attestations BY DEF TypeOK
    <3>3. a.source \in Epochs /\ b.target \in Epochs BY <3>2
    <3> QED BY <3>1, <3>3
  <2> QED BY <2>1, <2>2
<1>3. TypeOK'
  <2>1. op' \in [Signers -> CallType] BY <1>1 DEF TypeOK, CallType, Idle
  <2> QED BY <1>1, <1>2, <2>1 DEF TypeOK, CallType
<1>4. RecordsFiled' /\ HistoryRecorded' BY <1>1 DEF RecordsFiled, HistoryRecorded, History
<1>5. CallsMatchRecords'
  BY <1>1 DEF CallsMatchRecords, TypeOK, Idle, Checking, Inserting
<1> QED BY <1>1, <1>3, <1>4, <1>5

\* A crash ends every call and nothing else.
LEMMA CrashRecords ==
    ASSUME RecordInv, Crash
    PROVE  RecordInv' /\ signed' = signed
<1> USE AttestationFacts DEF RecordInv
<1>1. /\ op' = [s \in Signers |-> Idle] /\ crashes < MaxCrashes /\ crashes' = crashes + 1
      /\ UNCHANGED <<byTarget, minSpan, maxSpan, lowerBound, signed, imported>>
  BY DEF Crash, db
<1>2. TypeOK'
  <2>1. op' \in [Signers -> CallType] BY <1>1 DEF CallType, Idle
  <2>2. crashes' \in 0..MaxCrashes BY <1>1, EnvironmentAssumption DEF TypeOK
  <2> QED BY <1>1, <2>1, <2>2 DEF TypeOK, CallType
<1>3. RecordsFiled' /\ HistoryRecorded' BY <1>1 DEF RecordsFiled, HistoryRecorded, History
<1>4. CallsMatchRecords' BY <1>1 DEF CallsMatchRecords, Idle, Checking, Inserting
<1> QED BY <1>1, <1>2, <1>3, <1>4

\* Every step keeps the invariant of the records, and what a step lets pass is on
\* record for its target.
LEMMA NextRecordInv ==
    ASSUME OneSigner, RecordInv, [Next]_svars
    PROVE  /\ RecordInv'
           /\ \A a \in signed' \ signed : byTarget[a.target] = a
<1>1. CASE \E s \in Signers, a \in Requests : CheckTarget(s, a)
  <2>1. PICK s \in Signers, a \in Requests : CheckTarget(s, a) BY <1>1
  <2> QED BY <2>1, CheckTargetRecords
<1>2. CASE \E s \in Signers : Proceed(s)
  <2>1. PICK s \in Signers : Proceed(s) BY <1>2
  <2>2. CASE CheckSurrounding(s)
    <3>1. /\ op[s].pc \in Checking /\ UNCHANGED <<db, imported, crashes>>
          /\ GoTo(s, "surrounded") \/ Reject(s)
      BY <2>2 DEF CheckSurrounding, Checking
    <3>2. "surrounded" \in Checking BY DEF Checking
    <3>3. RecordInv' BY <3>1, <3>2, ReadStep
    <3> QED BY <3>1, <3>3 DEF GoTo, Reject
  <2>3. CASE CheckSurrounded(s)
    <3>1. /\ op[s].pc \in Checking /\ UNCHANGED <<db, imported, crashes>>
          /\ GoTo(s, "bound") \/ Reject(s)
      BY <2>3 DEF CheckSurrounded, Checking
    <3>2. "bound" \in Checking BY DEF Checking
    <3>3. RecordInv' BY <3>1, <3>2, ReadStep
    <3> QED BY <3>1, <3>3 DEF GoTo, Reject
  <2>4. CASE CheckLowerBound(s)
    <3>1. /\ op[s].pc \in Checking /\ UNCHANGED <<db, imported, crashes>>
          /\ GoTo(s, "insert") \/ Reject(s)
      BY <2>4 DEF CheckLowerBound, Checking
    <3>2. "insert" \in Checking BY DEF Checking
    <3>3. RecordInv' BY <3>1, <3>2, ReadStep
    <3> QED BY <3>1, <3>3 DEF GoTo, Reject
  <2>5. CASE InsertByTarget(s)
    BY <2>5, InsertByTargetRecords DEF InsertByTarget, GoTo
  <2>6. CASE InsertMinSpan(s) \/ InsertMaxSpan(s)
    BY <2>6, InsertSpansRecords
  <2>7. CASE \E file \in ImportFiles : ImportByTarget(s, file)
    BY <2>7, ImportByTargetRecords
  <2>8. CASE \E a \in op[s].todo : ImportSpans(s, a)
    BY <2>8, ImportSpansRecords
  <2>9. CASE ImportLowerBound(s)
    BY <2>9, ImportLowerBoundRecords
  <2> QED BY <2>1, <2>2, <2>3, <2>4, <2>5, <2>6, <2>7, <2>8, <2>9 DEF Proceed
<1>3. CASE Crash BY <1>3, CrashRecords
<1>4. CASE UNCHANGED svars
  <2>1. UNCHANGED <<byTarget, minSpan, maxSpan, lowerBound, op, signed, imported, crashes>>
    BY <1>4 DEF svars
  <2>2. TypeOK' BY <2>1 DEF RecordInv, TypeOK
  <2>3. RecordsFiled' /\ HistoryRecorded' /\ CallsMatchRecords'
    BY <2>1 DEF RecordInv, RecordsFiled, HistoryRecorded, CallsMatchRecords, History
  <2> QED BY <2>1, <2>2, <2>3 DEF RecordInv
<1> QED BY <1>1, <1>2, <1>3, <1>4 DEF Next

\* The repositories of the slashing protection service always have their types,
\* and whatever was signed or imported has a record for its target.
THEOREM RecordsKept == ASSUME OneSigner PROVE Spec => [](TypeOK /\ HistoryRecorded)
<1>1. Init => RecordInv BY InitRecordInv
<1>2. RecordInv /\ [Next]_svars => RecordInv' BY NextRecordInv
<1>3. RecordInv => TypeOK /\ HistoryRecorded BY DEF RecordInv
<1> QED BY <1>1, <1>2, <1>3, PTL DEF Spec

\* checkAndInsertAttestation never lets a double vote pass when calls follow each
\* other: with any files imported, and any number of crashes at any point.
THEOREM NoDoubleVotePasses == ASSUME OneSigner PROVE Spec => NeverDoubleVotes
<1> DEFINE NewVotes == \A a \in signed' \ History, b \in History : ~DoubleVote(a, b)
<1>1. Init => RecordInv BY InitRecordInv
<1>2. RecordInv /\ [Next]_svars => RecordInv' BY NextRecordInv
<1>3. RecordInv /\ [Next]_svars => [NewVotes]_svars
  <2> SUFFICES ASSUME RecordInv, [Next]_svars, NEW a \in signed' \ History, NEW b \in History
               PROVE  ~DoubleVote(a, b)
    OBVIOUS
  <2>1. byTarget[a.target] = a BY NextRecordInv DEF History
  <2>2. RecordInv' BY NextRecordInv
  <2>3. a \in Attestations BY <2>2 DEF RecordInv, TypeOK
  <2>4. a.target \in Epochs /\ a # None BY <2>3, AttestationFacts
  <2>5. a.target = b.target => a \in History BY <2>1, <2>4 DEF RecordInv, RecordsFiled
  <2> QED BY <2>5 DEF DoubleVote
<1> QED BY <1>1, <1>2, <1>3, PTL DEF Spec, NeverDoubleVotes

-----------------------------------------------------------------------------
(* The spans: what surround votes are found with. *)

\* An attestation that passes assertNotSurrounding surrounds nothing that the
\* spans cover.
LEMMA SurroundingIsFound ==
    ASSUME NEW span \in [Epochs -> Nat], NEW a, WellFormed(a), NotSurrounding(span, a),
           NEW b, WellFormed(b), MinCovers(span, b)
    PROVE  ~Surrounds(a, b)
BY MaxEpochAssumption, SMTT(30) DEF WellFormed, Epochs, Surrounds, NotSurrounding, MinCovers

\* An attestation that surrounds no record passes assertNotSurrounding, when every
\* entry stands for a record.
LEMMA NoSurroundingIsImagined ==
    ASSUME NEW span \in [Epochs -> Nat], NEW a, WellFormed(a),
           NEW R, \A b \in R : ~Surrounds(a, b) /\ WellFormed(b),
           \A e \in Epochs : span[e] > 0 => \E b \in R : b.source > e /\ b.target = e + span[e]
    PROVE  NotSurrounding(span, a)
<1> USE MaxEpochAssumption DEF WellFormed, Epochs, Surrounds, NotSurrounding
<1> SUFFICES ASSUME span[a.source] > 0, span[a.source] < a.target - a.source PROVE FALSE OBVIOUS
<1>1. PICK b \in R : b.source > a.source /\ b.target = a.source + span[a.source] OBVIOUS
<1> QED BY <1>1

\* An attestation that passes assertNotSurrounded is inside nothing that the spans
\* cover.
LEMMA SurroundedIsFound ==
    ASSUME NEW span \in [Epochs -> Nat], NEW a, WellFormed(a), NotSurrounded(span, a),
           NEW b, WellFormed(b), MaxCovers(span, b)
    PROVE  ~Surrounds(b, a)
<1> SUFFICES ASSUME b.source < a.source, a.target < b.target PROVE FALSE BY DEF Surrounds
<1> USE MaxEpochAssumption DEF WellFormed, Epochs
<1>1. a.source + span[a.source] >= b.target BY SMTT(30) DEF MaxCovers
<1>2. span[a.source] \in Nat /\ a.source \in Nat /\ a.target \in Nat /\ b.target \in Nat OBVIOUS
<1>3. span[a.source] > 0 /\ span[a.source] > a.target - a.source BY <1>1, <1>2
<1> QED BY <1>3 DEF NotSurrounded

\* An attestation inside no record passes assertNotSurrounded, when every entry
\* stands for a record.
LEMMA NoSurroundedIsImagined ==
    ASSUME NEW span \in [Epochs -> Nat], NEW a, WellFormed(a),
           NEW R, \A b \in R : ~Surrounds(b, a) /\ WellFormed(b),
           \A e \in Epochs : span[e] > 0 => \E b \in R : b.source < e /\ b.target = e + span[e]
    PROVE  NotSurrounded(span, a)
<1> USE MaxEpochAssumption DEF WellFormed, Epochs, Surrounds, NotSurrounded
<1> SUFFICES ASSUME span[a.source] > 0, span[a.source] > a.target - a.source PROVE FALSE OBVIOUS
<1>1. PICK b \in R : b.source < a.source /\ b.target = a.source + span[a.source] OBVIOUS
<1> QED BY <1>1

\* What the proofs about the spans add to RecordInv.
SpanPart ==
    /\ MinSpanInv /\ MaxSpanInv
    /\ NoSurroundRecorded /\ HistoryIsRecorded /\ RecordedIsHistory /\ CallsHaveChecked

NothingPending == \A b : ~Pending(b, Inserting) /\ ~Pending(b, {"minSpan"})

\* What is on record is an attestation filed under its target.
LEMMA RecordedFacts ==
    ASSUME RecordInv
    PROVE  \A b \in Recorded : /\ b \in Attestations /\ WellFormed(b)
                               /\ byTarget[b.target] = b
<1> SUFFICES ASSUME NEW b \in Recorded
             PROVE  b \in Attestations /\ WellFormed(b) /\ byTarget[b.target] = b
  OBVIOUS
<1>1. PICK t \in Epochs : b = byTarget[t] /\ b # None BY DEF Recorded
<1>2. b \in Attestations /\ b.target = t /\ b.source <= t
  BY <1>1 DEF RecordInv, TypeOK, RecordsFiled
<1> QED BY <1>1, <1>2, AttestationFacts DEF WellFormed

\* With one signer, what is pending is what its call is about.
LEMMA PendingOfCall ==
    ASSUME OneSigner, NEW s \in Signers, NEW b, NEW pcs
    PROVE  Pending(b, pcs) <=> \/ op[s].pc \in pcs /\ op[s].att = b
                               \/ op[s].pc = "importSpans" /\ b \in op[s].todo
<1>1. \A t \in Signers : t = s BY DEF OneSigner
<1> QED BY <1>1 DEF Pending

\* A step that leaves records and spans alone, with nothing pending before, keeps
\* the invariant as long as the history stays on record.
LEMMA RecordsStay ==
    ASSUME SpanPart, NothingPending, UNCHANGED db,
           History \subseteq History', History' \subseteq Recorded, CallsHaveChecked'
    PROVE  SpanPart'
<1>1. UNCHANGED <<byTarget, minSpan, maxSpan>> /\ Recorded' = Recorded BY DEF db, Recorded
<1>2. MinSpanInv'
  <2>1. \A a \in Recorded : MinCovers(minSpan, a) BY DEF SpanPart, MinSpanInv, NothingPending
  <2> QED BY <1>1, <2>1 DEF SpanPart, MinSpanInv
<1>3. MaxSpanInv'
  <2>1. \A a \in Recorded : MaxCovers(maxSpan, a) BY DEF SpanPart, MaxSpanInv, NothingPending
  <2> QED BY <1>1, <2>1 DEF SpanPart, MaxSpanInv
<1>4. NoSurroundRecorded' BY <1>1 DEF SpanPart, NoSurroundRecorded
<1>5. HistoryIsRecorded' BY <1>1 DEF HistoryIsRecorded
<1>6. RecordedIsHistory' BY <1>1 DEF SpanPart, RecordedIsHistory, NothingPending
<1> QED BY <1>2, <1>3, <1>4, <1>5, <1>6 DEF SpanPart

\* A call that is not in the span writes, and not importing, has nothing pending.
LEMMA ReaderHasNothingPending ==
    ASSUME OneSigner, NEW s \in Signers, op[s].pc \in Checking \union {"idle"}
    PROVE  NothingPending
<1>1. op[s].pc # "importSpans" /\ op[s].pc \notin Inserting /\ op[s].pc \notin {"minSpan"}
  BY DEF Checking, Inserting
<1> QED BY <1>1, PendingOfCall DEF NothingPending

\* The first read of checkAttestation keeps it.
LEMMA CheckTargetSpans ==
    ASSUME OneSigner, RecordInv, SpanPart, NEW s \in Signers, NEW a \in Requests, CheckTarget(s, a)
    PROVE  SpanPart'
<1>1. op[s].pc \in Checking \union {"idle"} /\ UNCHANGED db /\ UNCHANGED imported
  BY DEF CheckTarget
<1>2. NothingPending BY <1>1, ReaderHasNothingPending
<1>3. History \subseteq History' /\ History' \subseteq Recorded
  <2>1. signed' = signed \/ (byTarget[a.target] = a /\ signed' = signed \union {a})
    BY CheckTargetRecords
  <2>2. a.target \in Epochs /\ a # None BY AttestationFacts
  <2>3. byTarget[a.target] = a => a \in Recorded BY <2>2 DEF Recorded
  <2> QED BY <1>1, <2>1, <2>3 DEF History, SpanPart, HistoryIsRecorded
<1>4. CallsHaveChecked'
  <2>1. \A t \in Signers : op'[t].pc \in {"idle", "surrounding"}
    <3>1. \/ op' = [op EXCEPT ![s] = [pc |-> "surrounding", att |-> a, todo |-> {}, file |-> {}]]
          \/ op' = [op EXCEPT ![s] = Idle]
      BY DEF CheckTarget, Accept, Reject
    <3> QED BY <3>1 DEF OneSigner, Idle, RecordInv, TypeOK
  <2> QED BY <2>1 DEF CallsHaveChecked
<1> QED BY <1>1, <1>2, <1>3, <1>4, RecordsStay

\* The other reads keep it, and leave the call with what they have found out.
LEMMA ReadSpans ==
    ASSUME OneSigner, RecordInv, SpanPart, NEW s \in Signers,
           CheckSurrounding(s) \/ CheckSurrounded(s) \/ CheckLowerBound(s)
    PROVE  SpanPart'
<1> DEFINE a == op[s].att
<1>1. /\ op[s].pc \in Checking /\ UNCHANGED db /\ UNCHANGED imported /\ UNCHANGED signed
  BY DEF CheckSurrounding, CheckSurrounded, CheckLowerBound, Checking, GoTo, Reject
<1>2. NothingPending BY <1>1, ReaderHasNothingPending
<1>3. History \subseteq History' /\ History' \subseteq Recorded
  BY <1>1 DEF History, SpanPart, HistoryIsRecorded
<1>4. a \in Attestations /\ WellFormed(a)
  BY <1>1, AttestationFacts DEF RecordInv, CallsMatchRecords, TypeOK, WellFormed
<1>5. /\ minSpan \in [Epochs -> Nat] /\ maxSpan \in [Epochs -> Nat] /\ op \in [Signers -> CallType]
      /\ \A b \in Recorded : MinCovers(minSpan, b) /\ MaxCovers(maxSpan, b) /\ WellFormed(b)
  BY <1>2, RecordedFacts
     DEF RecordInv, TypeOK, SpanPart, MinSpanInv, MaxSpanInv, NothingPending, CallType
<1>6. Recorded' = Recorded BY <1>1 DEF db, Recorded
<1>7. CallsHaveChecked'
  <2>1. SUFFICES
          /\ op'[s].pc \in {"surrounded", "bound", "insert"} =>
                \A b \in Recorded : ~Surrounds(op'[s].att, b)
          /\ op'[s].pc \in {"bound", "insert"} => \A b \in Recorded : ~Surrounds(b, op'[s].att)
          /\ op'[s].pc # "importSpans"
    BY <1>6 DEF CallsHaveChecked, OneSigner
  <2>2. CASE op' = [op EXCEPT ![s] = Idle] BY <1>5, <2>2 DEF Idle
  <2>3. CASE CheckSurrounding(s) /\ op' # [op EXCEPT ![s] = Idle]
    <3>1. NotSurrounding(minSpan, a) /\ op' = [op EXCEPT ![s].pc = "surrounded"]
      BY <2>3 DEF CheckSurrounding, GoTo, Reject
    <3>2. op'[s].pc = "surrounded" /\ op'[s].att = a BY <1>5, <3>1 DEF CallType
    <3>3. \A b \in Recorded : ~Surrounds(a, b) BY <1>4, <1>5, <3>1, SurroundingIsFound
    <3> QED BY <3>2, <3>3
  <2>4. CASE CheckSurrounded(s) /\ op' # [op EXCEPT ![s] = Idle]
    <3>1. /\ op[s].pc = "surrounded" /\ NotSurrounded(maxSpan, a)
          /\ op' = [op EXCEPT ![s].pc = "bound"]
      BY <2>4 DEF CheckSurrounded, GoTo, Reject
    <3>2. op'[s].pc = "bound" /\ op'[s].att = a BY <1>5, <3>1 DEF CallType
    <3>3. \A b \in Recorded : ~Surrounds(b, a) BY <1>4, <1>5, <3>1, SurroundedIsFound
    <3>4. \A b \in Recorded : ~Surrounds(a, b) BY <3>1 DEF SpanPart, CallsHaveChecked
    <3> QED BY <3>2, <3>3, <3>4
  <2>5. CASE CheckLowerBound(s) /\ op' # [op EXCEPT ![s] = Idle]
    <3>1. op[s].pc = "bound" /\ op' = [op EXCEPT ![s].pc = "insert"]
      BY <2>5 DEF CheckLowerBound, GoTo, Reject
    <3>2. op'[s].pc = "insert" /\ op'[s].att = a BY <1>5, <3>1 DEF CallType
    <3>3. \A b \in Recorded : ~Surrounds(a, b) /\ ~Surrounds(b, a)
      BY <3>1 DEF SpanPart, CallsHaveChecked
    <3> QED BY <3>2, <3>3
  <2> QED BY <2>2, <2>3, <2>4, <2>5
<1> QED BY <1>1, <1>2, <1>3, <1>7, RecordsStay

\* insertAttestation's first write adds a record that surrounds nothing and is
\* inside nothing; its spans are pending.
LEMMA InsertByTargetSpans ==
    ASSUME OneSigner, RecordInv, SpanPart, NEW s \in Signers, InsertByTarget(s)
    PROVE  SpanPart'
<1>0. PICK a : a = op[s].att OBVIOUS
<1>1. /\ op[s].pc = "insert" /\ op' = [op EXCEPT ![s].pc = "minSpan"]
      /\ byTarget' = [byTarget EXCEPT ![a.target] = a]
      /\ UNCHANGED <<minSpan, maxSpan, signed, imported>>
  BY <1>0 DEF InsertByTarget, GoTo
<1>2. NothingPending BY <1>1, ReaderHasNothingPending DEF Checking
<1>3. a \in Attestations /\ a # None /\ WellFormed(a) /\ byTarget[a.target] = None
  BY <1>0, <1>1, AttestationFacts DEF RecordInv, CallsMatchRecords, TypeOK, WellFormed, Checking
<1>4. Recorded' = Recorded \union {a}
  <2>1. a.target \in Epochs BY <1>3 DEF WellFormed
  <2> QED BY <1>1, <1>3, <2>1 DEF Recorded, RecordInv, TypeOK
<1>5. op'[s].pc = "minSpan" /\ op'[s].att = a BY <1>0, <1>1 DEF RecordInv, TypeOK
<1>6. Pending(a, {"minSpan"})' /\ Pending(a, Inserting)' BY <1>5 DEF Pending, Inserting
<1>7. History' = History BY <1>1 DEF History
<1>8. MinSpanInv'
  <2>1. \A b \in Recorded : MinCovers(minSpan, b) BY <1>2 DEF SpanPart, MinSpanInv, NothingPending
  <2>2. \A b \in Recorded' : MinCovers(minSpan, b) \/ b = a BY <1>4, <2>1
  <2>3. ASSUME NEW e \in Epochs, minSpan[e] > 0
        PROVE  \E b \in Recorded' : b.source > e /\ b.target = e + minSpan[e]
    BY <1>4, <2>3 DEF SpanPart, MinSpanInv
  <2>4. MinMonotone(minSpan) BY DEF SpanPart, MinSpanInv
  <2> QED BY <1>1, <1>6, <2>2, <2>3, <2>4 DEF MinSpanInv
<1>9. MaxSpanInv'
  <2>1. \A b \in Recorded : MaxCovers(maxSpan, b) BY <1>2 DEF SpanPart, MaxSpanInv, NothingPending
  <2>2. \A b \in Recorded' : MaxCovers(maxSpan, b) \/ b = a BY <1>4, <2>1
  <2>3. ASSUME NEW e \in Epochs, maxSpan[e] > 0
        PROVE  \E b \in Recorded' : b.source < e /\ b.target = e + maxSpan[e]
    BY <1>4, <2>3 DEF SpanPart, MaxSpanInv
  <2>4. MaxMonotone(maxSpan) BY DEF SpanPart, MaxSpanInv
  <2> QED BY <1>1, <1>6, <2>2, <2>3, <2>4 DEF MaxSpanInv
<1>10. NoSurroundRecorded'
  <2>1. \A b \in Recorded : ~Surrounds(a, b) /\ ~Surrounds(b, a)
    BY <1>0, <1>1 DEF SpanPart, CallsHaveChecked
  <2>2. ~Surrounds(a, a) BY <1>3, MaxEpochAssumption DEF Surrounds, WellFormed, Epochs
  <2> QED BY <1>4, <2>1, <2>2 DEF SpanPart, NoSurroundRecorded
<1>11. HistoryIsRecorded' BY <1>4, <1>7 DEF SpanPart, HistoryIsRecorded
<1>12. RecordedIsHistory' BY <1>2, <1>4, <1>6, <1>7 DEF SpanPart, RecordedIsHistory, NothingPending
<1>13. CallsHaveChecked'
  <2>1. \A t \in Signers : op'[t].pc = "minSpan" BY <1>5 DEF OneSigner
  <2> QED BY <2>1 DEF CallsHaveChecked
<1> QED BY <1>8, <1>9, <1>10, <1>11, <1>12, <1>13 DEF SpanPart

\* A record passes both span checks: the second check in the insertion of spans
\* never fails.
LEMMA RecordsPass ==
    ASSUME RecordInv, SpanPart, NEW a \in Recorded
    PROVE  NotSurrounding(minSpan, a) /\ NotSurrounded(maxSpan, a)
<1>1. /\ minSpan \in [Epochs -> Nat] /\ maxSpan \in [Epochs -> Nat] /\ WellFormed(a)
      /\ \A b \in Recorded : WellFormed(b) /\ ~Surrounds(a, b) /\ ~Surrounds(b, a)
  BY RecordedFacts DEF RecordInv, TypeOK, SpanPart, NoSurroundRecorded
<1>2. NotSurrounding(minSpan, a)
  BY <1>1, NoSurroundingIsImagined DEF SpanPart, MinSpanInv
<1>3. NotSurrounded(maxSpan, a)
  BY <1>1, NoSurroundedIsImagined DEF SpanPart, MaxSpanInv
<1> QED BY <1>2, <1>3

\* updateMinSpan for a record makes the spans right for that record and keeps them
\* right for the others.
LEMMA MinSpanWrite ==
    ASSUME RecordInv, SpanPart, NEW a \in Recorded, UNCHANGED byTarget,
           minSpan' = UpdateMinSpan(minSpan, a),
           \A b \in Recorded \ {a} : Pending(b, {"minSpan"}) => Pending(b, {"minSpan"})'
    PROVE  MinSpanInv'
<1>0. PICK new : new = minSpan' OBVIOUS
<1>1. Recorded' = Recorded BY DEF Recorded
<1>2. WellFormed(a) /\ \A b \in Recorded : WellFormed(b) BY RecordedFacts
<1>3. minSpan \in [Epochs -> Nat] /\ MinMonotone(minSpan) BY DEF RecordInv, TypeOK, SpanPart, MinSpanInv
<1>4. /\ new \in [Epochs -> Nat] /\ MinCovers(new, a) /\ MinMonotone(new)
      /\ \A e \in Epochs : minSpan[e] > 0 => new[e] > 0 /\ new[e] <= minSpan[e]
      /\ \A e \in Epochs : new[e] = minSpan[e] \/ (e < a.source /\ new[e] = a.target - e)
  BY <1>0, <1>2, <1>3, UpdateMinSpanLemma
<1> USE MaxEpochAssumption DEF Epochs, WellFormed
<1>5. ASSUME NEW e \in Epochs, new[e] > 0
      PROVE  \E b \in Recorded : b.source > e /\ b.target = e + new[e]
  <2>1. CASE new[e] = minSpan[e] BY <1>5, <2>1 DEF SpanPart, MinSpanInv
  <2>2. CASE e < a.source /\ new[e] = a.target - e
    <3>1. a.source > e /\ a.target = e + new[e] BY <1>2, <2>2
    <3> QED BY <3>1
  <2> QED BY <1>4, <2>1, <2>2
<1>6. ASSUME NEW b \in Recorded, MinCovers(minSpan, b)
      PROVE  MinCovers(new, b)
  <2> SUFFICES ASSUME NEW e \in Epochs, e < b.source PROVE new[e] > 0 /\ e + new[e] <= b.target
    BY DEF MinCovers
  <2>1. minSpan[e] > 0 /\ e + minSpan[e] <= b.target BY <1>6 DEF MinCovers
  <2>2. new[e] > 0 /\ new[e] <= minSpan[e] BY <1>4, <2>1
  <2>3. e \in Int /\ minSpan[e] \in Int /\ new[e] \in Int /\ b.target \in Int
    BY <1>2, <1>3, <1>4, SMTT(30)
  <2> QED BY <2>1, <2>2, <2>3
<1>7. \A b \in Recorded : MinCovers(new, b) \/ Pending(b, {"minSpan"})'
  BY <1>4, <1>6 DEF SpanPart, MinSpanInv
<1> QED BY <1>0, <1>1, <1>4, <1>5, <1>7 DEF MinSpanInv

\* updateMaxSpan does so too.
LEMMA MaxSpanWrite ==
    ASSUME RecordInv, SpanPart, NEW a \in Recorded, UNCHANGED byTarget,
           maxSpan' = UpdateMaxSpan(maxSpan, a),
           \A b \in Recorded \ {a} : Pending(b, Inserting) => Pending(b, Inserting)'
    PROVE  MaxSpanInv'
<1>0. PICK new : new = maxSpan' OBVIOUS
<1>1. Recorded' = Recorded BY DEF Recorded
<1>2. WellFormed(a) /\ \A b \in Recorded : WellFormed(b) BY RecordedFacts
<1>3. maxSpan \in [Epochs -> Nat] /\ MaxMonotone(maxSpan) BY DEF RecordInv, TypeOK, SpanPart, MaxSpanInv
<1>4. /\ new \in [Epochs -> Nat] /\ MaxCovers(new, a) /\ MaxMonotone(new)
      /\ \A e \in Epochs : new[e] >= maxSpan[e]
      /\ \A e \in Epochs : new[e] = maxSpan[e] \/ (a.source < e /\ e < a.target /\ new[e] = a.target - e)
  BY <1>0, <1>2, <1>3, UpdateMaxSpanLemma
<1> USE MaxEpochAssumption DEF Epochs, WellFormed
<1>5. ASSUME NEW e \in Epochs, new[e] > 0
      PROVE  \E b \in Recorded : b.source < e /\ b.target = e + new[e]
  <2>1. CASE new[e] = maxSpan[e] BY <1>5, <2>1 DEF SpanPart, MaxSpanInv
  <2>2. CASE a.source < e /\ e < a.target /\ new[e] = a.target - e
    <3>1. a.source < e /\ a.target = e + new[e] BY <1>2, <2>2
    <3> QED BY <3>1
  <2> QED BY <1>4, <2>1, <2>2
<1>6. ASSUME NEW b \in Recorded, MaxCovers(maxSpan, b)
      PROVE  MaxCovers(new, b)
  <2> SUFFICES ASSUME NEW e \in Epochs, b.source < e, e < b.target PROVE e + new[e] >= b.target
    BY DEF MaxCovers
  <2>1. e + maxSpan[e] >= b.target BY <1>6 DEF MaxCovers
  <2>2. new[e] >= maxSpan[e] BY <1>4
  <2>3. e \in Int /\ maxSpan[e] \in Int /\ new[e] \in Int /\ b.target \in Int BY <1>2, <1>3, <1>4, SMTT(30)
  <2> QED BY <2>1, <2>2, <2>3
<1>7. \A b \in Recorded : MaxCovers(new, b) \/ Pending(b, Inserting)'
  BY <1>4, <1>6 DEF SpanPart, MaxSpanInv
<1> QED BY <1>0, <1>1, <1>4, <1>5, <1>7 DEF MaxSpanInv

\* The first half of MinMaxSurround.insertAttestation keeps it.
LEMMA InsertMinSpanSpans ==
    ASSUME OneSigner, RecordInv, SpanPart, NEW s \in Signers, InsertMinSpan(s)
    PROVE  SpanPart'
<1>0. PICK a : a = op[s].att OBVIOUS
<1>1. op[s].pc = "minSpan" /\ UNCHANGED <<byTarget, maxSpan, imported>>
  BY DEF InsertMinSpan
<1>2. a \in Recorded
  BY <1>0, <1>1, AttestationFacts DEF RecordInv, CallsMatchRecords, Inserting, TypeOK, Recorded
<1>3. minSpan' = UpdateMinSpan(minSpan, a) /\ op' = [op EXCEPT ![s].pc = "maxSpan"] /\ UNCHANGED signed
  BY <1>0, <1>2, RecordsPass DEF InsertMinSpan, GoTo
<1>4. op'[s].pc = "maxSpan" /\ op'[s].att = a BY <1>0, <1>3 DEF RecordInv, TypeOK
<1>5. \A b, pcs : Pending(b, pcs) <=> "minSpan" \in pcs /\ b = a
  BY <1>0, <1>1, PendingOfCall
<1>6. Pending(a, Inserting)' BY <1>4 DEF Pending, Inserting
<1>7. Recorded' = Recorded /\ History' = History BY <1>1, <1>3 DEF Recorded, History
<1>8. MinSpanInv'
  BY <1>1, <1>2, <1>3, <1>5, MinSpanWrite
<1>9. MaxSpanInv'
  <2>1. \A b \in Recorded : MaxCovers(maxSpan, b) \/ b = a BY <1>5 DEF SpanPart, MaxSpanInv
  <2>2. MaxMonotone(maxSpan) BY DEF SpanPart, MaxSpanInv
  <2> QED BY <1>1, <1>6, <1>7, <2>1, <2>2 DEF SpanPart, MaxSpanInv
<1>10. NoSurroundRecorded' /\ HistoryIsRecorded'
  BY <1>7 DEF SpanPart, NoSurroundRecorded, HistoryIsRecorded
<1>11. RecordedIsHistory' BY <1>5, <1>6, <1>7 DEF SpanPart, RecordedIsHistory
<1>12. CallsHaveChecked'
  <2>1. \A t \in Signers : op'[t].pc = "maxSpan" BY <1>4 DEF OneSigner
  <2> QED BY <2>1 DEF CallsHaveChecked
<1> QED BY <1>8, <1>9, <1>10, <1>11, <1>12 DEF SpanPart

\* The second half keeps it; what it lets pass is on record and no longer pending.
LEMMA InsertMaxSpanSpans ==
    ASSUME OneSigner, RecordInv, SpanPart, NEW s \in Signers, InsertMaxSpan(s)
    PROVE  SpanPart'
<1>0. PICK a : a = op[s].att OBVIOUS
<1>1. op[s].pc = "maxSpan" /\ UNCHANGED <<byTarget, minSpan, imported>>
  BY DEF InsertMaxSpan
<1>2. a \in Recorded
  BY <1>0, <1>1, AttestationFacts DEF RecordInv, CallsMatchRecords, Inserting, TypeOK, Recorded
<1>3. /\ maxSpan' = UpdateMaxSpan(maxSpan, a) /\ op' = [op EXCEPT ![s] = Idle]
      /\ signed' = signed \union {a}
  BY <1>0, <1>2, RecordsPass DEF InsertMaxSpan, Accept
<1>4. \A t \in Signers : op'[t] = Idle BY <1>3 DEF RecordInv, TypeOK, OneSigner
<1>5. \A b, pcs : Pending(b, pcs) <=> "maxSpan" \in pcs /\ b = a
  BY <1>0, <1>1, PendingOfCall
<1>6. Recorded' = Recorded /\ History' = History \union {a} BY <1>1, <1>3 DEF Recorded, History
<1>7. MinSpanInv'
  <2>1. \A b \in Recorded : MinCovers(minSpan, b) BY <1>5 DEF SpanPart, MinSpanInv
  <2> QED BY <1>1, <1>6, <2>1 DEF SpanPart, MinSpanInv
<1>8. MaxSpanInv' BY <1>1, <1>2, <1>3, <1>5, MaxSpanWrite
<1>9. NoSurroundRecorded' /\ HistoryIsRecorded'
  BY <1>2, <1>6 DEF SpanPart, NoSurroundRecorded, HistoryIsRecorded
<1>10. RecordedIsHistory' BY <1>5, <1>6 DEF SpanPart, RecordedIsHistory
<1>11. CallsHaveChecked' BY <1>4 DEF CallsHaveChecked, Idle
<1> QED BY <1>7, <1>8, <1>9, <1>10, <1>11 DEF SpanPart

\* importAttestations of an honest history only adds records, none of which
\* surrounds another; their spans are pending.
LEMMA ImportByTargetSpans ==
    ASSUME OneSigner, ~AnyImport, RecordInv, SpanPart,
           NEW s \in Signers, NEW file \in ImportFiles, ImportByTarget(s, file)
    PROVE  SpanPart'
<1> DEFINE targets == {a.target : a \in file}
<1>1. /\ op = [t \in Signers |-> Idle] /\ HonestHistory(file)
      /\ op' = [op EXCEPT ![s] = [pc |-> "importSpans", att |-> None, todo |-> file, file |-> file]]
      /\ imported' = imported \union file
      /\ UNCHANGED <<minSpan, maxSpan, signed>>
  BY DEF ImportByTarget
<1>2. PICK last \in [targets -> file] :
        /\ \A t \in targets : last[t].target = t
        /\ byTarget' = [t \in Epochs |-> IF t \in targets THEN last[t] ELSE byTarget[t]]
  BY DEF ImportByTarget
<1>3. NothingPending
  <2>1. op[s].pc \in Checking \union {"idle"} BY <1>1 DEF Idle
  <2> QED BY <2>1, ReaderHasNothingPending
<1>4. Recorded \subseteq History BY <1>3 DEF SpanPart, RecordedIsHistory, NothingPending
<1>5. \A a, b \in file \union History : a.target = b.target => a = b
  BY <1>1 DEF HonestHistory, Slashable, DoubleVote, History
<1>6. file \subseteq Attestations /\ \A a \in file : a # None /\ a.target \in Epochs BY AttestationFacts
<1>7. Recorded' = Recorded \union file
  <2>1. \A a \in file : byTarget'[a.target] = a BY <1>2, <1>5, <1>6
  <2>2. \A b \in Recorded : byTarget'[b.target] = b /\ b.target \in Epochs /\ b # None
    <3> SUFFICES ASSUME NEW b \in Recorded
                 PROVE  byTarget'[b.target] = b /\ b.target \in Epochs /\ b # None
      OBVIOUS
    <3>1. byTarget[b.target] = b /\ b.target \in Epochs /\ b # None
      BY RecordedFacts DEF WellFormed, Recorded
    <3>2. CASE b.target \in targets
      <4>1. last[b.target] \in file /\ last[b.target].target = b.target BY <1>2, <3>2
      <4>2. last[b.target] = b BY <1>4, <1>5, <4>1
      <4> QED BY <1>2, <3>1, <3>2, <4>2
    <3>3. CASE b.target \notin targets BY <1>2, <3>1, <3>3
    <3> QED BY <3>1, <3>2, <3>3
  <2>3. \A t \in Epochs : byTarget'[t] \in file \/ byTarget'[t] = byTarget[t] BY <1>2
  <2> HIDE DEF targets
  <2>4. Recorded' \subseteq Recorded \union file BY <2>3 DEF Recorded
  <2>5. Recorded \union file \subseteq Recorded' BY <1>6, <2>1, <2>2 DEF Recorded
  <2> QED BY <2>4, <2>5
<1> HIDE DEF targets
<1>8. op'[s].pc = "importSpans" /\ op'[s].todo = file BY <1>1
<1>9. \A a \in file : \A pcs : Pending(a, pcs)' BY <1>8 DEF Pending
<1>10. History' = History \union file BY <1>1 DEF History
<1>11. MinSpanInv'
  <2>1. \A b \in Recorded' : MinCovers(minSpan, b) \/ b \in file
    BY <1>3, <1>7 DEF SpanPart, MinSpanInv, NothingPending
  <2>2. ASSUME NEW e \in Epochs, minSpan[e] > 0
        PROVE  \E b \in Recorded' : b.source > e /\ b.target = e + minSpan[e]
    BY <1>7, <2>2 DEF SpanPart, MinSpanInv
  <2>3. MinMonotone(minSpan) BY DEF SpanPart, MinSpanInv
  <2> QED BY <1>1, <1>9, <2>1, <2>2, <2>3 DEF MinSpanInv
<1>12. MaxSpanInv'
  <2>1. \A b \in Recorded' : MaxCovers(maxSpan, b) \/ b \in file
    BY <1>3, <1>7 DEF SpanPart, MaxSpanInv, NothingPending
  <2>2. ASSUME NEW e \in Epochs, maxSpan[e] > 0
        PROVE  \E b \in Recorded' : b.source < e /\ b.target = e + maxSpan[e]
    BY <1>7, <2>2 DEF SpanPart, MaxSpanInv
  <2>3. MaxMonotone(maxSpan) BY DEF SpanPart, MaxSpanInv
  <2> QED BY <1>1, <1>9, <2>1, <2>2, <2>3 DEF MaxSpanInv
<1>13. NoSurroundRecorded'
  <2>1. \A a, b \in file \union History : ~Surrounds(a, b)
    BY <1>1 DEF HonestHistory, Slashable, History
  <2> QED BY <1>4, <1>7, <2>1 DEF NoSurroundRecorded
<1>14. HistoryIsRecorded' BY <1>7, <1>10 DEF SpanPart, HistoryIsRecorded
<1>15. RecordedIsHistory' BY <1>4, <1>7, <1>10 DEF RecordedIsHistory
<1>16. CallsHaveChecked'
  <2>1. \A t \in Signers : op'[t].pc = "importSpans" /\ op'[t].todo = file BY <1>8 DEF OneSigner
  <2> QED BY <1>1, <1>7, <2>1 DEF CallsHaveChecked
<1> QED BY <1>11, <1>12, <1>13, <1>14, <1>15, <1>16 DEF SpanPart

\* The span insertion of an import keeps it, and never fails.
LEMMA ImportSpansSpans ==
    ASSUME OneSigner, RecordInv, SpanPart, NEW s \in Signers, NEW a, ImportSpans(s, a)
    PROVE  SpanPart'
<1>1. /\ op[s].pc = "importSpans" /\ a \in op[s].todo
      /\ UNCHANGED <<byTarget, signed, imported>>
  BY DEF ImportSpans
<1>2. op[s].todo \subseteq Recorded \intersect imported BY <1>1 DEF SpanPart, CallsHaveChecked
<1>3. /\ minSpan' = UpdateMinSpan(minSpan, a) /\ maxSpan' = UpdateMaxSpan(maxSpan, a)
      /\ op' = [op EXCEPT ![s].todo = @ \ {a}]
  BY <1>1, <1>2, RecordsPass DEF ImportSpans
<1>4. op'[s].pc = "importSpans" /\ op'[s].todo = op[s].todo \ {a} BY <1>1, <1>3 DEF RecordInv, TypeOK
<1>5. /\ \A b : Pending(b, {"minSpan"}) <=> b \in op[s].todo
      /\ \A b : Pending(b, Inserting) <=> b \in op[s].todo
  BY <1>1, PendingOfCall DEF Inserting
<1>6. \A b \in op[s].todo \ {a} : Pending(b, {"minSpan"})' /\ Pending(b, Inserting)'
  BY <1>4 DEF Pending
<1>7. Recorded' = Recorded /\ History' = History BY <1>1 DEF Recorded, History
<1>8. MinSpanInv' BY <1>1, <1>2, <1>3, <1>5, <1>6, MinSpanWrite
<1>9. MaxSpanInv' BY <1>1, <1>2, <1>3, <1>5, <1>6, MaxSpanWrite
<1>10. NoSurroundRecorded' /\ HistoryIsRecorded'
  BY <1>7 DEF SpanPart, NoSurroundRecorded, HistoryIsRecorded
<1>11. RecordedIsHistory'
  <2>1. \A b \in op[s].todo : b \in History BY <1>1 DEF SpanPart, CallsHaveChecked, History
  <2> QED BY <1>5, <1>7, <2>1 DEF SpanPart, RecordedIsHistory
<1>12. CallsHaveChecked'
  <2>1. \A t \in Signers : op'[t].pc = "importSpans" /\ op'[t].todo \subseteq op[s].todo
    BY <1>4 DEF OneSigner
  <2> QED BY <1>1, <1>2, <1>7, <2>1 DEF CallsHaveChecked
<1> QED BY <1>8, <1>9, <1>10, <1>11, <1>12 DEF SpanPart

\* The end of an import has no spans left to write.
LEMMA ImportLowerBoundSpans ==
    ASSUME OneSigner, RecordInv, SpanPart, NEW s \in Signers, ImportLowerBound(s)
    PROVE  SpanPart'
<1>1. /\ op[s].pc = "importSpans" /\ op[s].todo = {} /\ op' = [op EXCEPT ![s] = Idle]
      /\ UNCHANGED <<byTarget, minSpan, maxSpan, signed, imported>>
  BY DEF ImportLowerBound
<1>2. NothingPending BY <1>1, PendingOfCall DEF NothingPending, Inserting
<1>3. Recorded' = Recorded /\ History' = History BY <1>1 DEF Recorded, History
<1>4. MinSpanInv'
  <2>1. \A a \in Recorded : MinCovers(minSpan, a) BY <1>2 DEF SpanPart, MinSpanInv, NothingPending
  <2> QED BY <1>1, <1>3, <2>1 DEF SpanPart, MinSpanInv
<1>5. MaxSpanInv'
  <2>1. \A a \in Recorded : MaxCovers(maxSpan, a) BY <1>2 DEF SpanPart, MaxSpanInv, NothingPending
  <2> QED BY <1>1, <1>3, <2>1 DEF SpanPart, MaxSpanInv
<1>6. NoSurroundRecorded' /\ HistoryIsRecorded' /\ RecordedIsHistory'
  BY <1>2, <1>3 DEF SpanPart, NoSurroundRecorded, HistoryIsRecorded, RecordedIsHistory, NothingPending
<1>7. CallsHaveChecked'
  <2>1. \A t \in Signers : op'[t] = Idle BY <1>1 DEF RecordInv, TypeOK, OneSigner
  <2> QED BY <2>1 DEF CallsHaveChecked, Idle
<1> QED BY <1>4, <1>5, <1>6, <1>7 DEF SpanPart

\* An empty database has no spans and needs none.
LEMMA InitSpanInv == Init => SpanInv
<1> SUFFICES ASSUME Init PROVE SpanPart BY InitRecordInv DEF SpanInv, SpanPart
<1>1. Recorded = {} /\ History = {} BY DEF Init, Recorded, History
<1>2. MinSpanInv /\ MaxSpanInv
  BY <1>1 DEF Init, MinSpanInv, MaxSpanInv, MinMonotone, MaxMonotone
<1>3. CallsHaveChecked BY DEF Init, CallsHaveChecked, Idle
<1> QED BY <1>1, <1>2, <1>3 DEF SpanPart, NoSurroundRecorded, HistoryIsRecorded, RecordedIsHistory

\* Without contradictory imports every step but a crash keeps the invariant.
LEMMA NextSpanInv ==
    ASSUME OneSigner, ~AnyImport, crashes' = 0, SpanInv, [Next]_svars
    PROVE  SpanInv'
<1>0. RecordInv /\ SpanPart BY DEF SpanInv, SpanPart
<1>1. CASE \E s \in Signers, a \in Requests : CheckTarget(s, a)
  <2>1. PICK s \in Signers, a \in Requests : CheckTarget(s, a) BY <1>1
  <2> QED BY <1>0, <2>1, CheckTargetSpans, NextRecordInv DEF SpanInv, SpanPart
<1>2. CASE \E s \in Signers : Proceed(s)
  <2> SUFFICES SpanPart' BY <1>0, NextRecordInv DEF SpanInv, SpanPart
  <2>1. PICK s \in Signers : Proceed(s) BY <1>2
  <2>2. CASE CheckSurrounding(s) \/ CheckSurrounded(s) \/ CheckLowerBound(s)
    BY <1>0, <2>2, ReadSpans
  <2>3. CASE InsertByTarget(s) BY <1>0, <2>3, InsertByTargetSpans
  <2>4. CASE InsertMinSpan(s) BY <1>0, <2>4, InsertMinSpanSpans
  <2>5. CASE InsertMaxSpan(s) BY <1>0, <2>5, InsertMaxSpanSpans
  <2>6. CASE \E file \in ImportFiles : ImportByTarget(s, file) BY <1>0, <2>6, ImportByTargetSpans
  <2>7. CASE \E a \in op[s].todo : ImportSpans(s, a) BY <1>0, <2>7, ImportSpansSpans
  <2>8. CASE ImportLowerBound(s) BY <1>0, <2>8, ImportLowerBoundSpans
  <2> QED BY <2>1, <2>2, <2>3, <2>4, <2>5, <2>6, <2>7, <2>8 DEF Proceed
<1>3. CASE Crash
  <2>1. crashes' = crashes + 1 /\ crashes \in Nat
    BY <1>0, <1>3, EnvironmentAssumption DEF Crash, RecordInv, TypeOK
  <2> QED BY <2>1
<1>4. CASE UNCHANGED svars
  <2>1. UNCHANGED <<byTarget, minSpan, maxSpan, op, signed, imported>> BY <1>4 DEF svars
  <2>2. Recorded' = Recorded /\ History' = History BY <2>1 DEF Recorded, History
  <2>3. \A b, pcs : Pending(b, pcs)' <=> Pending(b, pcs) BY <2>1 DEF Pending
  <2>4. MinSpanInv' BY <1>0, <2>1, <2>2, <2>3 DEF SpanPart, MinSpanInv
  <2>5. MaxSpanInv' BY <1>0, <2>1, <2>2, <2>3 DEF SpanPart, MaxSpanInv
  <2>6. NoSurroundRecorded' /\ HistoryIsRecorded' /\ RecordedIsHistory' /\ CallsHaveChecked'
    BY <1>0, <2>1, <2>2, <2>3
    DEF SpanPart, NoSurroundRecorded, HistoryIsRecorded, RecordedIsHistory, CallsHaveChecked
  <2> QED BY <1>0, <2>4, <2>5, <2>6, NextRecordInv DEF SpanInv, SpanPart
<1> QED BY <1>1, <1>2, <1>3, <1>4 DEF Next

\* The least element of a set of integers.
LEMMA MinIs ==
    ASSUME NEW S \in SUBSET Int, NEW m \in S, \A x \in S : m <= x
    PROVE  Min(S) = m
<1>1. \E x \in S : \A y \in S : x <= y OBVIOUS
<1>2. Min(S) \in S /\ \A y \in S : Min(S) <= y BY <1>1, Zenon DEF Min
<1>3. PICK k : k = Min(S) OBVIOUS
<1>4. k \in S /\ k \in Int /\ m \in Int BY <1>2, <1>3
<1>5. k <= m /\ m <= k BY <1>2, <1>3, <1>4
<1> QED BY <1>3, <1>4, <1>5

\* And the greatest.
LEMMA MaxIs ==
    ASSUME NEW S \in SUBSET Int, NEW m \in S, \A x \in S : m >= x
    PROVE  Max(S) = m
<1>1. \E x \in S : \A y \in S : x >= y OBVIOUS
<1>2. Max(S) \in S /\ \A y \in S : Max(S) >= y BY <1>1, Zenon DEF Max
<1>3. PICK k : k = Max(S) OBVIOUS
<1>4. k \in S /\ k \in Int /\ m \in Int BY <1>2, <1>3
<1>5. k <= m /\ m <= k BY <1>2, <1>3, <1>4
<1> QED BY <1>3, <1>4, <1>5

\* When no call is under way, both spans are what a search through all records
\* would find.
LEMMA SpansExact == SpanInv => SpansAreExact
<1> SUFFICES ASSUME SpanInv, Quiet, NEW e \in Epochs
             PROVE  LET later == {a.target : a \in {b \in Recorded : b.source > e}}
                        around == {a.target : a \in {b \in Recorded : b.source < e /\ e < b.target}}
                    IN /\ minSpan[e] = (IF later = {} THEN 0 ELSE Min(later) - e)
                       /\ maxSpan[e] = (IF around = {} THEN 0 ELSE Max(around) - e)
  BY DEF SpansAreExact
<1> DEFINE later == {a.target : a \in {b \in Recorded : b.source > e}}
           around == {a.target : a \in {b \in Recorded : b.source < e /\ e < b.target}}
<1>1. RecordInv /\ SpanPart BY DEF SpanInv, SpanPart
<1>2. \A b, pcs : "idle" \notin pcs => ~Pending(b, pcs) BY DEF Quiet, Pending, Idle
<1>3. /\ \A b \in Recorded : MinCovers(minSpan, b) /\ MaxCovers(maxSpan, b)
      /\ \A b \in Recorded : WellFormed(b)
  BY <1>1, <1>2, RecordedFacts DEF SpanPart, MinSpanInv, MaxSpanInv, Inserting
<1>4. minSpan[e] \in Nat /\ maxSpan[e] \in Nat /\ e \in Nat
  BY <1>1, MaxEpochAssumption DEF RecordInv, TypeOK, Epochs
<1>5. later \subseteq Int /\ around \subseteq Int
  BY <1>3, MaxEpochAssumption DEF WellFormed, Epochs
<1>6. minSpan[e] = (IF later = {} THEN 0 ELSE Min(later) - e)
  <2>1. CASE minSpan[e] = 0
    <3>1. \A b \in Recorded : ~(b.source > e)
      BY <1>3, <2>1, MaxEpochAssumption DEF MinCovers, WellFormed, Epochs
    <3> QED BY <2>1, <3>1
  <2>2. CASE minSpan[e] > 0
    <3>1. PICK b \in Recorded : b.source > e /\ b.target = e + minSpan[e]
      BY <1>1, <2>2 DEF SpanPart, MinSpanInv
    <3>2. e + minSpan[e] \in later BY <3>1
    <3>3. \A t \in later : e + minSpan[e] <= t
      BY <1>3, MaxEpochAssumption DEF MinCovers, WellFormed, Epochs
    <3> HIDE DEF later
    <3>4. Min(later) = e + minSpan[e] BY <1>5, <3>2, <3>3, MinIs
    <3> QED BY <1>4, <3>2, <3>4
  <2> HIDE DEF later
  <2> QED BY <1>4, <2>1, <2>2
<1>7. maxSpan[e] = (IF around = {} THEN 0 ELSE Max(around) - e)
  <2>1. CASE maxSpan[e] = 0
    <3>1. \A b \in Recorded : ~(b.source < e /\ e < b.target)
      BY <1>3, <1>4, <2>1, MaxEpochAssumption DEF MaxCovers, WellFormed, Epochs
    <3> QED BY <2>1, <3>1
  <2>2. CASE maxSpan[e] > 0
    <3>1. PICK b \in Recorded : b.source < e /\ b.target = e + maxSpan[e]
      BY <1>1, <2>2 DEF SpanPart, MaxSpanInv
    <3>2. e + maxSpan[e] \in around BY <1>4, <2>2, <3>1
    <3>3. \A t \in around : e + maxSpan[e] >= t
      BY <1>3, MaxEpochAssumption DEF MaxCovers, WellFormed, Epochs
    <3> HIDE DEF around
    <3>4. Max(around) = e + maxSpan[e] BY <1>5, <3>2, <3>3, MaxIs
    <3> QED BY <1>4, <3>2, <3>4
  <2> HIDE DEF around
  <2> QED BY <1>4, <2>1, <2>2
<1> QED BY <1>6, <1>7

\* A crash is never undone.
LEMMA CrashesStay ==
    ASSUME RecordInv, [Next]_svars, crashes' = 0
    PROVE  crashes = 0
<1>1. crashes \in Nat BY EnvironmentAssumption DEF RecordInv, TypeOK
<1>2. CASE \E s \in Signers, a \in Requests : CheckTarget(s, a) BY <1>2 DEF CheckTarget
<1>3. CASE \E s \in Signers : Proceed(s)
  BY <1>3 DEF Proceed, CheckSurrounding, CheckSurrounded, CheckLowerBound, InsertByTarget,
              InsertMinSpan, InsertMaxSpan, ImportByTarget, ImportSpans, ImportLowerBound
<1>4. CASE Crash BY <1>1, <1>4 DEF Crash
<1>5. CASE UNCHANGED svars BY <1>5 DEF svars
<1> QED BY <1>2, <1>3, <1>4, <1>5 DEF Next

\* Until the first crash the spans and the records are in step.
SpanInvUntilCrash == RecordInv /\ (crashes = 0 => SpanInv)

LEMMA SpanInvUntilCrashHolds ==
    ASSUME OneSigner, ~AnyImport
    PROVE  Spec => []SpanInvUntilCrash
<1>1. Init => SpanInvUntilCrash BY InitSpanInv, InitRecordInv DEF SpanInvUntilCrash
<1>2. SpanInvUntilCrash /\ [Next]_svars => SpanInvUntilCrash'
  <2> SUFFICES ASSUME SpanInvUntilCrash, [Next]_svars PROVE SpanInvUntilCrash'
    OBVIOUS
  <2>1. RecordInv' BY NextRecordInv DEF SpanInvUntilCrash
  <2>2. ASSUME crashes' = 0 PROVE SpanInv'
    <3>1. SpanInv BY <2>2, CrashesStay DEF SpanInvUntilCrash
    <3> QED BY <2>2, <3>1, NextSpanInv
  <2> QED BY <2>1, <2>2 DEF SpanInvUntilCrash
<1> QED BY <1>1, <1>2, PTL DEF Spec

\* The spans that updateMinSpan and updateMaxSpan keep are exact whenever no call is
\* under way, after any sequence of requests and honest imports without a crash.
THEOREM SpansStayExact ==
    ASSUME OneSigner, ~AnyImport
    PROVE  Spec => []SpansAreExact
<1>1. SpanInvUntilCrash => SpansAreExact
  <2>1. crashes = 0 \/ SpansAreExact BY DEF SpansAreExact
  <2> QED BY <2>1, SpansExact DEF SpanInvUntilCrash
<1> QED BY <1>1, SpanInvUntilCrashHolds, PTL

\* checkAndInsertAttestation lets no surround vote pass when calls follow each
\* other, until a crash or a contradictory import comes between.
THEOREM NoSurroundVotePasses ==
    ASSUME OneSigner, ~AnyImport
    PROVE  Spec => []NoSurroundVote
<1>1. SpanInvUntilCrash => NoSurroundVote
  BY DEF SpanInvUntilCrash, SpanInv, NoSurroundRecorded, HistoryIsRecorded, NoSurroundVote
<1> QED BY <1>1, SpanInvUntilCrashHolds, PTL

-----------------------------------------------------------------------------
(* The validator store, on top of the service. *)

\* Attestation data is what the service is asked about, and a signing root is the
\* hash of its data.
DataOfRequests ==
    /\ \A d \in Data : Excerpt(d) \in Requests
    /\ \A d, e \in Data : d.root = e.root => d = e

\* The history holds one attestation for a target.
HistoryVotesOnce == \A a, b \in History : ~DoubleVote(a, b)

\* A step of the store is one of the service, or does not concern it.
LEMMA StoreStepIsServiceStep ==
    ASSUME DataOfRequests, [StoreNext]_vars PROVE [Next]_svars
<1>1. CASE \E s \in Signers, data \in Data : SignAttestation(s, data)
  BY <1>1 DEF DataOfRequests, SignAttestation, Next
<1>2. CASE (\E s \in Signers : Proceed(s)) \/ Crash BY <1>2 DEF Next
<1>3. CASE Tick BY <1>3 DEF Tick
<1>4. CASE UNCHANGED vars BY <1>4 DEF vars
<1> QED BY <1>1, <1>2, <1>3, <1>4 DEF StoreNext

\* Only an import adds to the imported history, and then it signs nothing.
LEMMA ImportsAreHonest ==
    ASSUME ~AnyImport, [Next]_svars
    PROVE  \/ UNCHANGED imported
           \/ /\ UNCHANGED signed
              /\ \E file \in ImportFiles : HonestHistory(file) /\ imported' = imported \union file
<1>1. CASE \E s \in Signers, a \in Requests : CheckTarget(s, a) BY <1>1 DEF CheckTarget
<1>2. CASE \E s \in Signers : Proceed(s)
  <2>1. PICK s \in Signers : Proceed(s) BY <1>2
  <2>2. CASE \E file \in ImportFiles : ImportByTarget(s, file) BY <2>2 DEF ImportByTarget
  <2>3. CASE ~\E file \in ImportFiles : ImportByTarget(s, file)
    BY <2>1, <2>3 DEF Proceed, CheckSurrounding, CheckSurrounded, CheckLowerBound, InsertByTarget,
        InsertMinSpan, InsertMaxSpan, ImportSpans, ImportLowerBound
  <2> QED BY <2>2, <2>3
<1>3. CASE Crash BY <1>3 DEF Crash
<1>4. CASE UNCHANGED svars BY <1>4 DEF svars
<1> QED BY <1>1, <1>2, <1>3, <1>4 DEF Next

\* A step adds an attestation to the history only if the history has none for its
\* target, or that very one.
LEMMA HistoryStaysSingle ==
    ASSUME OneSigner, ~AnyImport, RecordInv, HistoryVotesOnce, [Next]_svars
    PROVE  HistoryVotesOnce'
<1>1. RecordInv' /\ \A a \in signed' \ signed : byTarget[a.target] = a BY NextRecordInv
<1>2. CASE UNCHANGED imported
  <2> SUFFICES ASSUME NEW a \in History', NEW b \in History', a.target = b.target PROVE a = b
    BY DEF HistoryVotesOnce, DoubleVote
  <2>1. \A d \in History' : d \in History \/ byTarget[d.target] = d BY <1>1, <1>2 DEF History
  <2>2. \A d \in History' : d.target \in Epochs /\ d # None
    BY <1>1, AttestationFacts DEF RecordInv, TypeOK, History
  <2>3. \A d \in History', e \in History : byTarget[d.target] = d /\ e.target = d.target => d \in History
    BY <2>2 DEF RecordInv, RecordsFiled
  <2> QED BY <2>1, <2>3 DEF HistoryVotesOnce, DoubleVote
<1>3. CASE ~UNCHANGED imported
  <2>1. PICK file \in ImportFiles : HonestHistory(file) /\ imported' = imported \union file /\ UNCHANGED signed
    BY <1>3, ImportsAreHonest
  <2> QED BY <2>1 DEF HistoryVotesOnce, History, HonestHistory, Slashable
<1> QED BY <1>2, <1>3

\* signAttestation signs one attestation for a target epoch at most: for any
\* attestation data, any sequence of requests, any honest imports and any number of
\* crashes, as long as calls for the key follow each other.
THEOREM StoreSignsOncePerTarget ==
    ASSUME OneSigner, ~AnyImport, DataOfRequests PROVE StoreSpec => []OneAttestationPerTarget
<1> DEFINE Inv == RecordInv /\ HistoryVotesOnce
<1>1. StoreInit => Inv
  BY InitRecordInv DEF StoreInit, Init, HistoryVotesOnce, History
<1>2. Inv /\ [StoreNext]_vars => Inv'
  BY StoreStepIsServiceStep, NextRecordInv, HistoryStaysSingle
<1>3. Inv => OneAttestationPerTarget
  <2> SUFFICES ASSUME Inv, NEW d \in SignedData, NEW e \in SignedData, d.target = e.target PROVE d = e
    BY DEF OneAttestationPerTarget, DoubleVote
  <2>1. Excerpt(d) \in History /\ Excerpt(e) \in History BY DEF SignedData, History
  <2>2. Excerpt(d).target = Excerpt(e).target BY DEF Excerpt
  <2>3. Excerpt(d) = Excerpt(e) BY <2>1, <2>2 DEF HistoryVotesOnce, DoubleVote
  <2>4. d.root = e.root BY <2>3 DEF Excerpt
  <2> QED BY <2>4 DEF DataOfRequests, SignedData
<1> QED BY <1>1, <1>2, <1>3, PTL DEF StoreSpec
=============================================================================
