------------------------- MODULE SlashingProtection -------------------------
(***************************************************************************)
(* Slashing protection for the attestations of one validator key, from     *)
(* packages/validator/src/slashingProtection/attestation/service.ts.       *)
(*                                                                         *)
(* checkAndInsertAttestation awaits the database again and again, so every *)
(* read and every write is an action.  The two span updates read and write *)
(* one repository each, and are one action each.  What the database holds  *)
(* survives a crash; the calls under way do not.                           *)
(*                                                                         *)
(* Signers are the callers that may be inside the service at a time.  The  *)
(* service takes no lock: with one signer calls follow each other, with    *)
(* two they interleave.                                                    *)
(*                                                                         *)
(* Spec is the service under any requests.  StoreSpec is signAttestation   *)
(* of services/validatorStore.ts on top of it: what the store signs is the *)
(* attestation data, what it shows to the service is an excerpt of it.     *)
(***************************************************************************)
EXTENDS Integers, FiniteSets, FiniteSetsExt

CONSTANTS
    MaxEpoch,      \* bound: the last epoch that is attested
    Requests,      \* attestations callers may ask for: [source, target, root]
    ImportFiles,   \* sets of attestations that interchange files may hold
    ZERO_ROOT,     \* the signing root of an attestation that comes without one
    Signers,
    MaxCrashes,    \* bound: how often the process may crash
    AnyImport,     \* whether an imported file may contradict what was signed
    Data           \* attestation data the beacon node may offer the store: [source, target,
                   \* root], one for a root; Requests has their excerpts

Epochs == 0..MaxEpoch
Attestations == Requests \union UNION ImportFiles
None == [source |-> 0, target |-> 0, root |-> -1]
NoBound == [minSourceEpoch |-> -1, minTargetEpoch |-> -1]

ASSUME MaxEpochAssumption == MaxEpoch \in Nat
ASSUME AttestationsAssumption ==
    Attestations \subseteq [source : Epochs, target : Epochs, root : Nat]
ASSUME FilesAssumption ==
    \A file \in ImportFiles : IsFiniteSet(file) /\ \A a \in file : a.source <= a.target
\* A signing root is the hash of the data it stands for.
ASSUME RootsAssumption ==
    \A a, b \in Attestations : a.root = b.root /\ a.root # ZERO_ROOT => a = b
ASSUME EnvironmentAssumption == MaxCrashes \in Nat /\ AnyImport \in BOOLEAN

VARIABLES
    byTarget,     \* attestationByTarget: the attestation recorded for a target epoch
    minSpan,      \* minMaxSurround.store.minSpan
    maxSpan,      \* minMaxSurround.store.maxSpan
    lowerBound,   \* attestationLowerBound
    op,           \* the call each signer is in: where it stands and for what
    signed,       \* attestations the service has let pass
    imported,     \* attestations of imported files: signed elsewhere
    crashes,      \* number of crashes so far
    currentEpoch  \* the clock of the validator store

db == <<byTarget, minSpan, maxSpan, lowerBound>>
svars == <<byTarget, minSpan, maxSpan, lowerBound, op, signed, imported, crashes>>
vars == <<svars, currentEpoch>>

Idle == [pc |-> "idle", att |-> None, todo |-> {}, file |-> {}]

\* Reference: the two slashing conditions of attestations.
Surrounds(a, b) == a.source < b.source /\ b.target < a.target
DoubleVote(a, b) == a.target = b.target /\ a # b
Slashable(a, b) == DoubleVote(a, b) \/ Surrounds(a, b) \/ Surrounds(b, a)

Init ==
    /\ byTarget = [t \in Epochs |-> None]
    /\ minSpan = [e \in Epochs |-> 0]
    /\ maxSpan = [e \in Epochs |-> 0]
    /\ lowerBound = NoBound
    /\ op = [s \in Signers |-> Idle]
    /\ signed = {}
    /\ imported = {}
    /\ crashes = 0

-----------------------------------------------------------------------------
(***************************************************************************)
(* Surround-vote detection, slashingProtection/minMaxSurround.  minSpan[e] *)
(* is the distance from e to the nearest target among recorded             *)
(* attestations whose source is after e, maxSpan[e] the distance to the    *)
(* farthest target among those whose source is before e; 0 stands for no   *)
(* entry.  The lookback of the code is unlimited.                          *)
(***************************************************************************)

\* assertNotSurrounding: no recorded attestation lies strictly inside a.
NotSurrounding(spans, a) ==
    ~(spans[a.source] > 0 /\ spans[a.source] < a.target - a.source)

\* assertNotSurrounded: no recorded attestation lies strictly around a.
NotSurrounded(spans, a) ==
    ~(spans[a.source] > 0 /\ spans[a.source] > a.target - a.source)

\* updateMinSpan: from the epoch before the source downwards, until an entry is
\* already as near.
UpdateMinSpan(spans, a) ==
    [e \in Epochs |->
        IF /\ e < a.source
           /\ \A k \in e..(a.source - 1) : spans[k] = 0 \/ a.target - k < spans[k]
        THEN a.target - e ELSE spans[e]]

\* Mutant: an entry is kept although the new target is farther.
MaxSpanKeepsFirst(spans, a) ==
    [e \in Epochs |-> IF a.source < e /\ e < a.target /\ spans[e] = 0
                      THEN a.target - e ELSE spans[e]]

\* updateMaxSpan: from the epoch after the source upwards to the target, until
\* an entry is already as far.
UpdateMaxSpan(spans, a) ==
    [e \in Epochs |->
        IF /\ a.source < e
           /\ e < a.target
           /\ \A k \in (a.source + 1)..e : spans[k] = 0 \/ a.target - k > spans[k]
        THEN a.target - e ELSE spans[e]]

-----------------------------------------------------------------------------
\* The call of s goes on to pc, ends with an error, or ends well.
GoTo(s, pc) == op' = [op EXCEPT ![s].pc = pc] /\ UNCHANGED signed
Reject(s) == op' = [op EXCEPT ![s] = Idle] /\ UNCHANGED signed
Accept(s, a) == op' = [op EXCEPT ![s] = Idle] /\ signed' = signed \union {a}

\* isEqualNonZeroRoot: a missing signing root is equal to none.
IsEqualNonZeroRoot(r1, r2) == r1 # ZERO_ROOT /\ r2 # ZERO_ROOT /\ r1 = r2

\* Mutant: an attestation for the same target passes whatever its root.
AnyTwinIsSame(a) == IF byTarget[a.target] = None THEN "OK" ELSE "SAME_DATA"

\* The verdict on the attestation that is recorded for the same target.
SameTargetStatus(a) ==
    IF byTarget[a.target] = None THEN "OK"
    ELSE IF IsEqualNonZeroRoot(byTarget[a.target].root, a.root) THEN "SAME_DATA"
    ELSE "DOUBLE_VOTE"

\* checkAttestation up to the answer of attestationByTarget.get.
CheckTarget(s, a) ==
    /\ op[s].pc = "idle"
    /\ a.source <= a.target
    /\ CASE SameTargetStatus(a) = "SAME_DATA" -> Accept(s, a)
         [] SameTargetStatus(a) = "DOUBLE_VOTE" -> Reject(s)
         [] OTHER -> /\ op' = [op EXCEPT ![s] =
                                 [pc |-> "surrounding", att |-> a, todo |-> {}, file |-> {}]]
                     /\ UNCHANGED signed
    /\ UNCHANGED <<db, imported, crashes>>

\* assertNoSurround, its first read.
CheckSurrounding(s) ==
    /\ op[s].pc = "surrounding"
    /\ IF NotSurrounding(minSpan, op[s].att) THEN GoTo(s, "surrounded") ELSE Reject(s)
    /\ UNCHANGED <<db, imported, crashes>>

\* assertNoSurround, its second read.
CheckSurrounded(s) ==
    /\ op[s].pc = "surrounded"
    /\ IF NotSurrounded(maxSpan, op[s].att) THEN GoTo(s, "bound") ELSE Reject(s)
    /\ UNCHANGED <<db, imported, crashes>>

\* The lower bound that an import has left.
AboveLowerBound(a) ==
    lowerBound # NoBound =>
        a.source >= lowerBound.minSourceEpoch /\ a.target > lowerBound.minTargetEpoch

CheckLowerBound(s) ==
    /\ op[s].pc = "bound"
    /\ IF AboveLowerBound(op[s].att) THEN GoTo(s, "insert") ELSE Reject(s)
    /\ UNCHANGED <<db, imported, crashes>>

\* insertAttestation, its first write.
InsertByTarget(s) ==
    /\ op[s].pc = "insert"
    /\ byTarget' = [byTarget EXCEPT ![op[s].att.target] = op[s].att]
    /\ GoTo(s, "minSpan")
    /\ UNCHANGED <<minSpan, maxSpan, lowerBound, imported, crashes>>

\* MinMaxSurround.insertAttestation, first half: it checks again.
InsertMinSpan(s) ==
    /\ op[s].pc = "minSpan"
    /\ IF NotSurrounding(minSpan, op[s].att)
       THEN minSpan' = UpdateMinSpan(minSpan, op[s].att) /\ GoTo(s, "maxSpan")
       ELSE UNCHANGED minSpan /\ Reject(s)
    /\ UNCHANGED <<byTarget, maxSpan, lowerBound, imported, crashes>>

\* Second half; the caller may now sign.
InsertMaxSpan(s) ==
    /\ op[s].pc = "maxSpan"
    /\ IF NotSurrounded(maxSpan, op[s].att)
       THEN maxSpan' = UpdateMaxSpan(maxSpan, op[s].att) /\ Accept(s, op[s].att)
       ELSE UNCHANGED maxSpan /\ Reject(s)
    /\ UNCHANGED <<byTarget, minSpan, lowerBound, imported, crashes>>

-----------------------------------------------------------------------------
\* A file that is the history of a validator that never broke the rules.
HonestHistory(file) ==
    \A a, b \in file \union signed \union imported : ~Slashable(a, b)

\* importAttestations, run from the command line while nothing is signed: all
\* attestations of the file are recorded by target.  If the file holds two for
\* one target, the last one stays.
ImportByTarget(s, file) ==
    /\ op = [t \in Signers |-> Idle]
    /\ AnyImport \/ HonestHistory(file)
    /\ LET targets == {a.target : a \in file}
       IN \E last \in [targets -> file] :
            /\ \A t \in targets : last[t].target = t
            /\ byTarget' = [t \in Epochs |-> IF t \in targets THEN last[t] ELSE byTarget[t]]
    /\ op' = [op EXCEPT ![s] = [pc |-> "importSpans", att |-> None, todo |-> file, file |-> file]]
    /\ imported' = imported \union file
    /\ UNCHANGED <<minSpan, maxSpan, lowerBound, signed, crashes>>

\* Then the spans are inserted one attestation after the other; an attestation
\* that surrounds or is surrounded ends the import.
ImportSpans(s, a) ==
    /\ op[s].pc = "importSpans"
    /\ a \in op[s].todo
    /\ minSpan' = IF NotSurrounding(minSpan, a) THEN UpdateMinSpan(minSpan, a) ELSE minSpan
    /\ IF NotSurrounding(minSpan, a) /\ NotSurrounded(maxSpan, a)
       THEN /\ maxSpan' = UpdateMaxSpan(maxSpan, a)
            /\ op' = [op EXCEPT ![s].todo = @ \ {a}]
       ELSE /\ UNCHANGED maxSpan
            /\ op' = [op EXCEPT ![s] = Idle]
    /\ UNCHANGED <<byTarget, lowerBound, signed, imported, crashes>>

\* And at last the lower bound is replaced by that of the file, unless it is empty.
ImportLowerBound(s) ==
    /\ op[s].pc = "importSpans"
    /\ op[s].todo = {}
    /\ IF op[s].file = {} THEN UNCHANGED lowerBound
       ELSE \E a, b \in op[s].file :
              /\ \A d \in op[s].file : a.source <= d.source /\ b.target <= d.target
              /\ lowerBound' = [minSourceEpoch |-> a.source, minTargetEpoch |-> b.target]
    /\ op' = [op EXCEPT ![s] = Idle]
    /\ UNCHANGED <<byTarget, minSpan, maxSpan, signed, imported, crashes>>

\* The process ends between two accesses to the database.
Crash ==
    /\ crashes < MaxCrashes
    /\ op # [s \in Signers |-> Idle]
    /\ crashes' = crashes + 1
    /\ op' = [s \in Signers |-> Idle]
    /\ UNCHANGED <<db, signed, imported>>

\* What happens to a call once it is in the service.
Proceed(s) ==
    \/ CheckSurrounding(s)
    \/ CheckSurrounded(s)
    \/ CheckLowerBound(s)
    \/ InsertByTarget(s)
    \/ InsertMinSpan(s)
    \/ InsertMaxSpan(s)
    \/ \E file \in ImportFiles : ImportByTarget(s, file)
    \/ \E a \in op[s].todo : ImportSpans(s, a)
    \/ ImportLowerBound(s)

Next ==
    \/ \E s \in Signers, a \in Requests : CheckTarget(s, a)
    \/ \E s \in Signers : Proceed(s)
    \/ Crash

Spec == Init /\ [][Next]_svars

-----------------------------------------------------------------------------
(* The validator store. *)

\* The excerpt: the source epoch is filled in from data.target.
Excerpt(data) == [source |-> data.target, target |-> data.target, root |-> data.root]

StoreInit == Init /\ currentEpoch = 0

\* Mutant: signing roots are not compared, so that whatever has a record for its target
\* passes for the attestation on record.
SignWithoutRoot(s, data) ==
    /\ data.target <= currentEpoch
    /\ IF op[s].pc = "idle" /\ byTarget[data.target] # None
       THEN Accept(s, Excerpt(data)) /\ UNCHANGED <<db, imported, crashes>>
       ELSE CheckTarget(s, Excerpt(data))
    /\ UNCHANGED currentEpoch

\* signAttestation: targets after the current epoch are refused, then the
\* service decides.
SignAttestation(s, data) ==
    /\ data.target <= currentEpoch
    /\ CheckTarget(s, Excerpt(data))
    /\ UNCHANGED currentEpoch

\* External: the clock of the validator client.
Tick ==
    /\ currentEpoch < MaxEpoch
    /\ currentEpoch' = currentEpoch + 1
    /\ UNCHANGED svars

StoreNext ==
    \/ \E s \in Signers, data \in Data : SignAttestation(s, data)
    \/ (\E s \in Signers : Proceed(s)) /\ UNCHANGED currentEpoch
    \/ Crash /\ UNCHANGED currentEpoch
    \/ Tick

StoreSpec == StoreInit /\ [][StoreNext]_vars

-----------------------------------------------------------------------------
Recorded == {byTarget[t] : t \in Epochs} \ {None}
Quiet == op = [s \in Signers |-> Idle]
History == signed \union imported

\* The repositories, the calls under way and the history have their types.
TypeOK ==
    /\ byTarget \in [Epochs -> Attestations \union {None}]
    /\ minSpan \in [Epochs -> Nat]
    /\ maxSpan \in [Epochs -> Nat]
    /\ lowerBound \in [minSourceEpoch : Epochs, minTargetEpoch : Epochs] \union {NoBound}
    /\ op \in [Signers -> [pc : {"idle", "surrounding", "surrounded", "bound", "insert", "minSpan",
                                 "maxSpan", "importSpans"},
                           att : Attestations \union {None},
                           todo : SUBSET Attestations, file : SUBSET Attestations]]
    /\ signed \subseteq Attestations
    /\ imported \subseteq Attestations
    /\ crashes \in 0..MaxCrashes

\* The spans that updateMinSpan and updateMaxSpan keep with early breaks are, in
\* whatever order attestations come, what a search through all recorded
\* attestations would find: no surround vote is missed and none is imagined, as
\* long as no crash has cut an insertion in two.
SpansAreExact ==
    Quiet /\ crashes = 0 => \A e \in Epochs :
        LET later == {a.target : a \in {b \in Recorded : b.source > e}}
            around == {a.target : a \in {b \in Recorded : b.source < e /\ e < b.target}}
        IN /\ minSpan[e] = (IF later = {} THEN 0 ELSE Min(later) - e)
           /\ maxSpan[e] = (IF around = {} THEN 0 ELSE Max(around) - e)

\* The service never lets pass a second attestation for the target of one that
\* was signed or imported before, whatever files were imported and wherever the
\* process crashed.
NeverDoubleVotes ==
    [][\A a \in signed' \ History, b \in History : ~DoubleVote(a, b)]_svars

\* "Check an attestation for slash safety": what is let pass neither surrounds nor
\* is surrounded by anything signed or imported before, until a crash comes
\* between the record of an attestation and its spans.
NoSurroundVote == crashes = 0 => \A a, b \in History : ~Surrounds(a, b)

SignedData == {d \in Data : Excerpt(d) \in signed}

\* The store signs one attestation for a target epoch at most, through crashes
\* and repeated requests.
OneAttestationPerTarget == \A d, e \in SignedData : ~DoubleVote(d, e)

\* signAttestation is behind "checkAndInsertAttestation" so that what it signs is
\* safe: no attestation it signs surrounds another.
SignedDataNeverSurround == \A d, e \in SignedData : ~Surrounds(d, e)

-----------------------------------------------------------------------------
(* What the sources say and the model refutes, see README.md. *)

\* "Interchange format allows for attestations without signing_root, then assume
\* root is equal."
UnknownRootIsEqual ==
    \A a \in Requests :
        a.source <= a.target /\ byTarget[a.target] # None /\ byTarget[a.target].root = ZERO_ROOT
            => SameTargetStatus(a) = "SAME_DATA"

\* "Pre-compute spans for all attestations": after an import the service lets no
\* attestation pass that surrounds, or is surrounded by, an imported one.
ImportedAreProtected ==
    [][\A a \in signed' \ History, b \in imported : ~Surrounds(a, b) /\ ~Surrounds(b, a)]_svars

-----------------------------------------------------------------------------
(* The inductive invariants of SlashingProtectionProofs, for one signer. *)

Checking == {"surrounding", "surrounded", "bound", "insert"}
Inserting == {"minSpan", "maxSpan"}

\* A record is filed under its target and is well formed; whatever was signed or
\* imported has a record for its target; a record is part of the history, or the
\* history has nothing for its target.
RecordsFiled ==
    \A t \in Epochs : byTarget[t] # None =>
        /\ byTarget[t].target = t /\ byTarget[t].source <= t
        /\ \A a \in History : a.target = t => byTarget[t] \in History
HistoryRecorded == \A a \in History : byTarget[a.target] # None

\* Where a call stands says what is on record for its target.
CallsMatchRecords ==
    \A s \in Signers :
        /\ op[s].pc \in Checking \union Inserting => op[s].att # None /\ op[s].att.source <= op[s].att.target
        /\ op[s].pc \in Checking => byTarget[op[s].att.target] = None
        /\ op[s].pc \in Inserting => byTarget[op[s].att.target] = op[s].att
        /\ op[s].pc = "importSpans" => \A a \in op[s].todo : a.source <= a.target

RecordInv == TypeOK /\ RecordsFiled /\ HistoryRecorded /\ CallsMatchRecords

\* Attestations whose spans are still to be written.
Pending(a, pcs) ==
    \E s \in Signers : \/ op[s].pc \in pcs /\ op[s].att = a
                       \/ op[s].pc = "importSpans" /\ a \in op[s].todo

\* What makes it right to stop at the first entry that is near, or far, enough.
MinMonotone(span) ==
    \A e, k \in Epochs : e < k /\ span[k] > 0 => span[e] > 0 /\ e + span[e] <= k + span[k]
MaxMonotone(span) ==
    \A e, k \in Epochs : e < k /\ span[e] > 0 /\ k < e + span[e] => k + span[k] >= e + span[e]

\* The entries that an attestation calls for.
MinCovers(span, a) ==
    \A e \in Epochs : e < a.source => span[e] > 0 /\ e + span[e] <= a.target
MaxCovers(span, a) ==
    \A e \in Epochs : a.source < e /\ e < a.target => e + span[e] >= a.target

\* Entries stand for records, and records have their entries.
MinSpanInv ==
    /\ MinMonotone(minSpan)
    /\ \A e \in Epochs : minSpan[e] > 0 =>
          \E a \in Recorded : a.source > e /\ a.target = e + minSpan[e]
    /\ \A a \in Recorded : MinCovers(minSpan, a) \/ Pending(a, {"minSpan"})
MaxSpanInv ==
    /\ MaxMonotone(maxSpan)
    /\ \A e \in Epochs : maxSpan[e] > 0 =>
          \E a \in Recorded : a.source < e /\ a.target = e + maxSpan[e]
    /\ \A a \in Recorded : MaxCovers(maxSpan, a) \/ Pending(a, Inserting)

\* No record surrounds another; the history is on record, and a record that is not
\* history is being inserted; calls have found out what they checked.
NoSurroundRecorded == \A a, b \in Recorded : ~Surrounds(a, b)
HistoryIsRecorded == History \subseteq Recorded
RecordedIsHistory == \A a \in Recorded : a \in History \/ Pending(a, Inserting)
CallsHaveChecked ==
    \A s \in Signers :
        /\ op[s].pc \in {"surrounded", "bound", "insert"} =>
              \A b \in Recorded : ~Surrounds(op[s].att, b)
        /\ op[s].pc \in {"bound", "insert"} => \A b \in Recorded : ~Surrounds(b, op[s].att)
        /\ op[s].pc = "importSpans" => op[s].todo \subseteq Recorded \intersect imported

SpanInv ==
    /\ RecordInv /\ MinSpanInv /\ MaxSpanInv
    /\ NoSurroundRecorded /\ HistoryIsRecorded /\ RecordedIsHistory /\ CallsHaveChecked

-----------------------------------------------------------------------------
(* The instance TLC checks: the service under every order of requests, with  *)
(* imports and a crash ("service"), and the validator store on top of it     *)
(* ("store").                                                                *)

VARIABLE part

allVars == <<part, vars>>

\* An attestation and its signing root, numbered by its data; twin tells apart
\* attestations that differ in their head only.
Att(s, t, twin) == [source |-> s, target |-> t, root |-> 1 + twin + 2 * (t + (MaxEpoch + 1) * s)]
WithoutRoot(s, t) == [source |-> s, target |-> t, root |-> ZERO_ROOT]

\* Every attestation up to MaxEpoch; those for the last target, and one that the store
\* asks for, in two versions.
AllRequests ==
    {Att(s, t, 0) : s, t \in Epochs} \union {Att(s, MaxEpoch, 1) : s \in Epochs} \union {Att(3, 3, 1)}

\* Histories that no rule forbids.
HonestFiles == {{}, {Att(1, 2, 0)}, {Att(0, 1, 0), WithoutRoot(1, 3)}}

\* The store: attestation data up to epoch 3, with the signing roots that the excerpts have
\* among the requests; two for the last target, one of which surrounds the one for target 2.
Offered(s, t, twin) == [source |-> s, target |-> t, root |-> Att(t, t, twin).root]
StoreData == {Offered(0, 1, 0), Offered(1, 2, 0), Offered(0, 3, 0), Offered(2, 3, 1)}

MCInit == StoreInit /\ part \in {"service", "store"}

MCNext ==
    \/ part = "service" /\ Next /\ UNCHANGED <<part, currentEpoch>>
    \/ part = "store" /\ StoreNext /\ UNCHANGED part

MCSpec == MCInit /\ [][MCNext]_allVars

\* The store alone.
MCStoreSpec == MCInit /\ part = "store" /\ [][MCNext]_allVars
=============================================================================
