----------------------------- MODULE Interchange -----------------------------
(***************************************************************************)
(* Moving validator keys between two machines with an interchange file,     *)
(* from packages/validator/src/slashingProtection: the repositories, the    *)
(* export and import of SlashingProtection, the file formats 4 and 5, and   *)
(* the two commands of the command line that use them.                      *)
(*                                                                         *)
(* One machine signs at a time.  Its slashing protection is the one of      *)
(* BlockProtection and SlashingProtection, where its steps interleave; here *)
(* a request is one step.  Every write of an import is a step, and it may   *)
(* be cut short between two of them.  A file of an earlier move may be      *)
(* imported again, also on the machine that signs.                          *)
(*                                                                         *)
(* The spans are kept as the attestations they were computed from, one set  *)
(* for each of the two repositories of DistanceStoreRepository.             *)
(***************************************************************************)
EXTENDS Integers, FiniteSets

CONSTANTS
  Machines,
  BlockRequests,   \* blocks to sign: [key, slot, root]
  AttRequests,     \* attestations to sign: [key, source, target, root]
  OldFiles,        \* files of another client: their blocks and attestations
  ZERO_ROOT,
  Networks,        \* genesis validators roots of the beacon nodes asked
  MaxMoves,        \* bound: how often the keys move
  MaxCrashes       \* bound: how often an import is cut short

VARIABLES
  db,         \* what each machine's database holds
  active,     \* the machine that signs, or Nowhere while the keys move
  file,       \* the interchange file last written, or NoFile
  older,      \* the files before it
  importing,  \* the import under way, or NoImport: see ImportCmd
  past,       \* history: what another client signed, by its file
  signed,     \* history: all blocks and attestations the machines signed
  shown,      \* history: the attestations as their services recorded them
  moves,
  crashes

vars == <<db, active, file, older, importing, past, signed, shown, moves, crashes>>

Nowhere == "nowhere"
NoFile == [metadata |-> [version |-> 0]]
NoImport == [machine |-> Nowhere]
NoBound == [minSourceEpoch |-> -1, minTargetEpoch |-> -1]

Keys == {b.key : b \in BlockRequests} \union {a.key : a \in AttRequests}

EmptyDb == [blockBySlot |-> {}, byTarget |-> {}, minSpan |-> {}, maxSpan |-> {},
            lowerBound |-> [k \in Keys |-> NoBound]]

OfKey(S, k) == {x \in S : x.key = k}

-----------------------------------------------------------------------------
(* The repositories: one entry for a key and a slot or a target epoch.      *)

\* BlockBySlotRepository.set: a batch in one write, later entries win.
SetBlocks(stored, blocks) ==
  {b \in stored : \A c \in blocks : <<c.key, c.slot>> # <<b.key, b.slot>>} \union blocks

\* AttestationByTargetRepository.set
SetAttestations(stored, atts) ==
  {a \in stored : \A c \in atts : <<c.key, c.target>> # <<a.key, a.target>>} \union atts

\* AttestationByTargetRepository.getAll
GetAllAttestations(m, k) == OfKey(db[m].byTarget, k)

\* BlockBySlotRepository.getAll
GetAllBlocks(m, k) == OfKey(db[m].blockBySlot, k)

\* Mutant: only keys that have proposed a block are listed.
KeysThatProposed(m) == {b.key : b \in db[m].blockBySlot}

\* listPubkeys of both repositories: each scans the keys of the whole database, where
\* spans and bounds are of keys that have attestations.
ListPubkeys(m) == {x.key : x \in db[m].blockBySlot \union db[m].byTarget}

-----------------------------------------------------------------------------
(* The file.  A zero signing root is left out, and read back as zero.       *)

ToOptional(root) == IF root = ZERO_ROOT THEN "absent" ELSE root
FromOptional(hex) == IF hex = "absent" THEN ZERO_ROOT ELSE hex

SerializedRecords(S) == {[x EXCEPT !.root = ToOptional(x.root)] : x \in S}
ParsedRecords(S) == {[x EXCEPT !.root = FromOptional(x.root)] : x \in S}

\* The data of formats 4 and 5 is the same.
SerializedData(data) ==
  {[d EXCEPT !.signedBlocks = SerializedRecords(d.signedBlocks),
             !.signedAttestations = SerializedRecords(d.signedAttestations)] : d \in data}

ParsedData(data) ==
  {[d EXCEPT !.signedBlocks = ParsedRecords(d.signedBlocks),
             !.signedAttestations = ParsedRecords(d.signedAttestations)] : d \in data}

\* serializeInterchange, for the two supported versions
SerializeInterchange(data, root, version) ==
  [metadata |-> [version |-> version, genesisValidatorsRoot |-> root,
                 format |-> IF version = 4 THEN "complete" ELSE "none"],
   data |-> SerializedData(data)]

\* parseInterchange throws for any other format, version or network.
ParseAccepts(f, expectedRoot) ==
  /\ \/ f.metadata.version = 5 /\ f.metadata.format = "none"
     \/ f.metadata.version = 4 /\ f.metadata.format = "complete"
  /\ f.metadata.genesisValidatorsRoot = expectedRoot

\* exportInterchange
ExportedData(m) ==
  {[key |-> k, signedBlocks |-> GetAllBlocks(m, k),
    signedAttestations |-> GetAllAttestations(m, k)] : k \in ListPubkeys(m)}

-----------------------------------------------------------------------------
(* What a machine signs.                                                    *)

IsEqualNonZeroRoot(r, s) == r = s /\ r # ZERO_ROOT

Surrounds(a, b) == a.source < b.source /\ b.target < a.target

CheckBlockProposal(m, b) ==
  LET sameSlot == {c \in GetAllBlocks(m, b.key) : c.slot = b.slot}
  IN  IF sameSlot # {}
      THEN IF \E c \in sameSlot : IsEqualNonZeroRoot(c.root, b.root) THEN "SAME_DATA" ELSE "ERROR"
      ELSE IF /\ GetAllBlocks(m, b.key) # {}
              /\ \A c \in GetAllBlocks(m, b.key) : b.slot <= c.slot
           THEN "ERROR" ELSE "OK"

\* minMaxSurround: assertNotSurrounding reads the min spans, assertNotSurrounded the max spans
NotSurrounding(m, a) == \A c \in OfKey(db[m].minSpan, a.key) : ~Surrounds(a, c)
NotSurrounded(m, a) == \A c \in OfKey(db[m].maxSpan, a.key) : ~Surrounds(c, a)

CheckAttestation(m, a) ==
  LET sameTarget == {c \in GetAllAttestations(m, a.key) : c.target = a.target}
      bound == db[m].lowerBound[a.key]
  IN  IF a.source > a.target THEN "ERROR"
      ELSE IF sameTarget # {}
      THEN IF \E c \in sameTarget : IsEqualNonZeroRoot(c.root, a.root) THEN "SAME_DATA" ELSE "ERROR"
      ELSE IF /\ NotSurrounding(m, a) /\ NotSurrounded(m, a)
              /\ bound # NoBound =>
                   a.source >= bound.minSourceEpoch /\ a.target > bound.minTargetEpoch
           THEN "OK" ELSE "ERROR"

\* The validator client runs on m, and no import command does.
Running(m) == active = m /\ importing = NoImport

\* signBlock: checkAndInsertBlockProposal, and the block is signed
SignBlock(m, b) ==
  /\ Running(m)
  /\ \E status \in {CheckBlockProposal(m, b)} :
       /\ status # "ERROR"
       /\ db' = IF status = "SAME_DATA" THEN db
                ELSE [db EXCEPT ![m].blockBySlot = SetBlocks(@, {b})]
  /\ signed' = signed \union {b}
  /\ UNCHANGED <<active, file, older, importing, past, shown, moves, crashes>>

\* What signAttestation shows to slashing protection: the target for the source.
ShownAttestation(a) == [a EXCEPT !.source = a.target]

\* signAttestation: checkAndInsertAttestation, and the attestation is signed
SignAttestation(m, a) ==
  /\ Running(m)
  /\ \E att \in {ShownAttestation(a)} : \E status \in {CheckAttestation(m, att)} :
       \/ status = "SAME_DATA" /\ UNCHANGED <<db, shown>>
       \/ /\ status = "OK"
          /\ db' = [db EXCEPT ![m].byTarget = SetAttestations(@, {att}),
                              ![m].minSpan = @ \union {att},
                              ![m].maxSpan = @ \union {att}]
          /\ shown' = shown \union {att}
  /\ signed' = signed \union {a}
  /\ UNCHANGED <<active, file, older, importing, past, moves, crashes>>

-----------------------------------------------------------------------------
(* The commands.                                                            *)

\* The export command, with the validator client stopped for good.
ExportCmd(m, root, version) ==
  /\ Running(m)
  /\ moves < MaxMoves
  /\ file' = SerializeInterchange(ExportedData(m), root, version)
  /\ older' = older \union {file}
  /\ active' = Nowhere
  /\ moves' = moves + 1
  /\ UNCHANGED <<db, importing, past, signed, shown, crashes>>

\* The import command, of the last file or an older one, on a machine to take the keys
\* or on the one that has them, with its client stopped meanwhile: a file that is not
\* accepted changes nothing and may be tried again against another beacon node.
\* left: the validators of the file not imported; entry: the one under way, with what
\* is written next and the attestations left that have no spans (half: only the min span).
ImportCmd(m, f, expectedRoot) ==
  /\ active \in {Nowhere, m} /\ importing = NoImport
  /\ ParseAccepts(f, expectedRoot)
  /\ importing' = [machine |-> m, data |-> ParsedData(f.data), left |-> ParsedData(f.data),
                   entry |-> {}, step |-> "blocks", spans |-> {}, half |-> {}]
  /\ UNCHANGED <<db, active, file, older, past, signed, shown, moves, crashes>>

\* importInterchange, the next validator: importBlocks
ImportBlocks(d) ==
  /\ importing.step = "blocks"
  /\ db' = [db EXCEPT ![importing.machine].blockBySlot = SetBlocks(@, d.signedBlocks)]
  /\ importing' = [importing EXCEPT !.entry = {d}, !.step = "records"]
  /\ UNCHANGED <<active, file, older, past, signed, shown, moves, crashes>>

\* importAttestations: first all records in a batch
ImportRecords(d) ==
  /\ importing.step = "records"
  /\ db' = [db EXCEPT ![importing.machine].byTarget = SetAttestations(@, d.signedAttestations)]
  /\ importing' = [importing EXCEPT !.step = "spans", !.spans = d.signedAttestations, !.half = {}]
  /\ UNCHANGED <<active, file, older, past, signed, shown, moves, crashes>>

\* Then the spans of one attestation after the other: updateMinSpan,
ImportMinSpan(a) ==
  /\ importing.half = {}
  /\ NotSurrounding(importing.machine, a)
  /\ db' = [db EXCEPT ![importing.machine].minSpan = @ \union {a}]
  /\ importing' = [importing EXCEPT !.half = {a}]
  /\ UNCHANGED <<active, file, older, past, signed, shown, moves, crashes>>

\* updateMaxSpan.
ImportMaxSpan(a) ==
  /\ a \in importing.half
  /\ NotSurrounded(importing.machine, a)
  /\ db' = [db EXCEPT ![importing.machine].maxSpan = @ \union {a}]
  /\ importing' = [importing EXCEPT !.half = {}, !.spans = @ \ {a}]
  /\ UNCHANGED <<active, file, older, past, signed, shown, moves, crashes>>

\* A SurroundAttestationError of either ends the import; what is written stays.
ImportRefused(a) ==
  /\ \/ importing.half = {} /\ ~NotSurrounding(importing.machine, a)
     \/ a \in importing.half /\ ~NotSurrounded(importing.machine, a)
  /\ importing' = NoImport
  /\ UNCHANGED <<db, active, file, older, past, signed, shown, moves, crashes>>

\* Last the lower bound of the file, whatever bound there was; no attestation, no bound.
ImportLowerBound(d) ==
  LET atts == d.signedAttestations
      minEpoch(S) == CHOOSE e \in S : \A f \in S : e <= f
  IN  /\ importing.step = "spans" /\ importing.spans = {}
      /\ db' = [db EXCEPT ![importing.machine].lowerBound[d.key] =
                   IF atts = {} THEN @
                   ELSE [minSourceEpoch |-> minEpoch({a.source : a \in atts}),
                         minTargetEpoch |-> minEpoch({a.target : a \in atts})]]
      /\ importing' = [importing EXCEPT !.entry = {}, !.step = "blocks", !.left = @ \ {d}]
      /\ UNCHANGED <<active, file, older, past, signed, shown, moves, crashes>>

\* "Import completed successfully": a machine that has the last file may sign.
ImportDone ==
  /\ importing.left = {}
  /\ active' = IF importing.data = ParsedData(file.data) THEN importing.machine ELSE active
  /\ importing' = NoImport
  /\ UNCHANGED <<db, file, older, past, signed, shown, moves, crashes>>

\* The command is stopped between two writes; it can be run again.
ImportCut ==
  /\ crashes < MaxCrashes
  /\ crashes' = crashes + 1
  /\ importing' = NoImport
  /\ UNCHANGED <<db, active, file, older, past, signed, shown, moves>>

ImportStep ==
  /\ importing # NoImport
  /\ \/ \E d \in importing.left : ImportBlocks(d)
     \/ \E d \in importing.entry : ImportRecords(d) \/ ImportLowerBound(d)
     \/ \E a \in importing.spans : ImportMinSpan(a) \/ ImportMaxSpan(a) \/ ImportRefused(a)
     \/ ImportDone
     \/ ImportCut

\* The keys start on a machine, or come from another client with its file.
Init ==
  /\ db = [m \in Machines |-> EmptyDb]
  /\ importing = NoImport
  /\ older = {} /\ signed = {} /\ shown = {}
  /\ moves = 0 /\ crashes = 0
  /\ \/ active \in Machines /\ file = NoFile /\ past = {}
     \/ /\ active = Nowhere
        /\ \E old \in OldFiles, root \in Networks, version \in {4, 5} :
             /\ file = SerializeInterchange(old, root, version)
             /\ past = UNION {d.signedBlocks \union d.signedAttestations : d \in old}

Next ==
  \/ \E m \in Machines, b \in BlockRequests : SignBlock(m, b)
  \/ \E m \in Machines, a \in AttRequests : SignAttestation(m, a)
  \/ \E m \in Machines, root \in Networks, version \in {4, 5} : ExportCmd(m, root, version)
  \/ \E m \in Machines, f \in older \union {file}, root \in Networks : ImportCmd(m, f, root)
  \/ ImportStep

Spec == Init /\ [][Next]_vars

-----------------------------------------------------------------------------
(* Properties                                                               *)

IsBlock(x) == "slot" \in DOMAIN x

\* Two different messages of a key for one slot or one target epoch.
Doubled(x, y) ==
  /\ x.key = y.key
  /\ IsBlock(x) = IsBlock(y)
  /\ IF IsBlock(x) THEN x.slot = y.slot /\ x.root # y.root
     ELSE x.target = y.target /\ x # y

\* However often the keys are moved, whichever files are imported, again and on which
\* machine, and wherever an import is cut short or refused: the machines together never
\* sign a second block for a slot or a second attestation for a target epoch, counting
\* what the other client signed; and no attestation that their services recorded surrounds
\* one recorded or imported elsewhere.  (What the services are shown hides the source
\* epoch that is signed, so that surround votes of the signed attestations are possible:
\* SlashingProtection.tla.)
MovedKeysStaySafe ==
  /\ \A x \in signed, y \in signed \union past : ~Doubled(x, y)
  /\ \A a \in shown, c \in shown \union {x \in past : ~IsBlock(x)} :
       a.key = c.key => ~Surrounds(a, c) /\ ~Surrounds(c, a)
=============================================================================
