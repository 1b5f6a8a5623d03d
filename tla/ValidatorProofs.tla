--------------------------- MODULE ValidatorProofs ---------------------------
(***************************************************************************)
(* Proofs about the validator client, in the composition of MCValidator.tla *)
(* and for every value of the constants of each component.                  *)
(*                                                                         *)
(* Block slashing protection never lets two blocks of one slot be signed,   *)
(* for any number of slots, blocks, imports, crashes and callers, unless    *)
(* two calls for that slot overlapped between check and insertion.          *)
(*                                                                         *)
(* Keys moved between machines with interchange files never sign two blocks *)
(* for a slot or two attestations for a target: for any machines, messages  *)
(* and files, any number of moves, files imported again or late, and        *)
(* imports that are cut short between any two writes.                       *)
(*                                                                         *)
(* The tasks of a slot and the duties services keep their promises, for any *)
(* keys, chains, re-orgs and failures.                                      *)
(***************************************************************************)
EXTENDS MCValidator, Sequences, FiniteSets, TLAPS

-----------------------------------------------------------------------------
(* Block slashing protection. *)

\* The initial database is empty, and nothing is signed.
LEMMA InitInv == Init => Inv
BY SlotsAssumption, RootsAssumption, CrashesAssumption
   DEF Init, Inv, TypeOK, SignedIsRecorded, RecordIsHistory, CallsAgree, Idle, History, Slots, None

\* Every step of the service keeps the invariant, however calls overlap.
LEMMA NextInv ==
    ASSUME Inv, [Next]_vars
    PROVE  Inv'
<1> USE SlotsAssumption, RootsAssumption, CrashesAssumption DEF Inv, None
<1>1. ASSUME NEW s \in Signers, NEW root \in Roots, CheckSameSlot(s, root)
      PROVE Inv'
  <2> DEFINE slot == SlotOf[root]
  <2>0. slot \in Slots /\ UNCHANGED <<blockBySlot, currentSlot, signed, imported, crashes>>
    BY <1>1 DEF CheckSameSlot
  <2>1. CASE blockBySlot[slot] = None
    <3>1. /\ op' = [op EXCEPT ![s] = [pc |-> "first", root |-> root]]
          /\ overlapped' = overlapped \union IF Overlaps(root) THEN {slot} ELSE {}
      BY <1>1, <2>1 DEF CheckSameSlot, Enter
    <3>2. TypeOK' BY <2>0, <3>1 DEF TypeOK
    <3>3. SignedIsRecorded'
      BY <2>0, <3>1 DEF SignedIsRecorded, TypeOK, History
    <3>4. RecordIsHistory' BY <2>0, <3>1 DEF RecordIsHistory, History
    <3>5. CallsAgree'
      <4> SUFFICES ASSUME NEW t \in Signers, op'[t].pc # "idle"
                   PROVE  /\ op'[t].root \in Roots
                          /\ SlotOf[op'[t].root] \notin overlapped' =>
                               /\ Checking(t)' => /\ blockBySlot[SlotOf[op'[t].root]] \in {None, op'[t].root}
                                                  /\ ~\E u \in Signers : /\ Checking(u)'
                                                                         /\ op'[u].root # op'[t].root
                                                                         /\ SlotOf[op'[u].root] = SlotOf[op'[t].root]
                               /\ op'[t].pc = "sign" => blockBySlot[SlotOf[op'[t].root]] = op'[t].root
        BY <2>0 DEF CallsAgree, Overlaps
      <4>1. \A u \in Signers : u # s => op'[u] = op[u] /\ Checking(u)' = Checking(u)
        BY <3>1 DEF TypeOK, Checking
      <4>2. op'[s] = [pc |-> "first", root |-> root] BY <3>1 DEF TypeOK
      <4>3. CASE t = s
        <5>1. slot \notin overlapped' => ~Overlaps(root) BY <3>1
        <5> QED BY <2>1, <4>1, <4>2, <4>3, <5>1 DEF Overlaps
      <4>4. CASE t # s
        <5>1. overlapped \subseteq overlapped' BY <3>1
        <5>2. Checking(t) /\ op[t].root # root /\ SlotOf[op[t].root] = slot => slot \in overlapped'
          BY <3>1 DEF Overlaps
        <5> QED BY <4>1, <4>2, <4>4, <5>1, <5>2 DEF CallsAgree, Overlaps
      <4> QED BY <4>3, <4>4
    <3> QED BY <3>2, <3>3, <3>4, <3>5
  <2>2. CASE blockBySlot[slot] # None
    <3>1. /\ \/ op' = [op EXCEPT ![s] = Idle]
             \/ /\ op' = [op EXCEPT ![s] = [pc |-> "sign", root |-> root]]
                /\ blockBySlot[slot] = root
          /\ overlapped' = overlapped
      BY <1>1, <2>2 DEF CheckSameSlot, Enter, End, IsEqualNonZeroRoot
    <3>2. TypeOK' BY <2>0, <3>1 DEF TypeOK, Idle
    <3>3. SignedIsRecorded'
      <4>1. \A t \in Signers : t # s => op'[t] = op[t] BY <3>1 DEF TypeOK
      <4>2. op'[s] = Idle \/ op'[s] = [pc |-> "sign", root |-> root] BY <3>1 DEF TypeOK
      <4>3. op'[s].pc = "sign" => op'[s].root = root BY <4>2 DEF Idle
      <4>4. \A t \in Signers : op'[t].pc = "sign" => blockBySlot[SlotOf[op'[t].root]] # None
        BY <2>2, <4>1, <4>3 DEF SignedIsRecorded
      <4> QED BY <2>0, <4>4 DEF SignedIsRecorded, History
    <3>4. RecordIsHistory' BY <2>0, <3>1 DEF RecordIsHistory, History
    <3>5. CallsAgree' BY <2>0, <3>1 DEF CallsAgree, TypeOK, Idle, Checking, Overlaps
    <3> QED BY <3>2, <3>3, <3>4, <3>5
  <2> QED BY <2>1, <2>2
<1>2. ASSUME NEW s \in Signers, CheckFirst(s)
      PROVE Inv'
  <2>1. /\ op' = [op EXCEPT ![s] = Idle] \/ op' = [op EXCEPT ![s] = [op[s] EXCEPT !.pc = "insert"]]
        /\ op[s].pc = "first"
        /\ UNCHANGED <<blockBySlot, currentSlot, signed, imported, overlapped, crashes>>
    BY <1>2 DEF CheckFirst
  <2>2. TypeOK' BY <2>1 DEF TypeOK, Idle
  <2>3. SignedIsRecorded' /\ RecordIsHistory'
    BY <2>1 DEF SignedIsRecorded, RecordIsHistory, TypeOK, History, Idle
  <2>4. CallsAgree' BY <2>1 DEF CallsAgree, TypeOK, Idle, Checking, Overlaps
  <2> QED BY <2>2, <2>3, <2>4
<1>3. ASSUME NEW s \in Signers, InsertBlockProposal(s)
      PROVE Inv'
  <2> DEFINE root == op[s].root
  <2>1. /\ op[s].pc = "insert"
        /\ blockBySlot' = [blockBySlot EXCEPT ![SlotOf[root]] = root]
        /\ op' = [op EXCEPT ![s] = [pc |-> "sign", root |-> root]]
        /\ UNCHANGED <<currentSlot, signed, imported, overlapped, crashes>>
    BY <1>3 DEF InsertBlockProposal, Enter
  <2>2. root \in Roots /\ SlotOf[root] \in Slots /\ root # None BY <2>1 DEF CallsAgree
  <2>3. SlotOf[root] \notin overlapped =>
            /\ blockBySlot[SlotOf[root]] \in {None, root}
            /\ ~Overlaps(root)
    BY <2>1 DEF CallsAgree, Checking
  <2>4. op[s] = [pc |-> "insert", root |-> root] /\ Checking(s) BY <2>1 DEF TypeOK, Checking
  <2> HIDE DEF root
  <2>5. TypeOK' BY <2>1, <2>2 DEF TypeOK
  <2>6. SignedIsRecorded' BY <2>1, <2>2 DEF SignedIsRecorded, TypeOK, History, Blocks
  <2>7. RecordIsHistory'
    BY <2>1, <2>2, <2>3 DEF RecordIsHistory, SignedIsRecorded, TypeOK, History
  <2>8. CallsAgree'
    <3> SUFFICES ASSUME NEW t \in Signers, op'[t].pc # "idle"
                 PROVE  /\ op'[t].root \in Roots
                        /\ SlotOf[op'[t].root] \notin overlapped =>
                             /\ Checking(t)' => /\ blockBySlot'[SlotOf[op'[t].root]] \in {None, op'[t].root}
                                                /\ ~Overlaps(op[t].root)'
                             /\ op'[t].pc = "sign" => blockBySlot'[SlotOf[op'[t].root]] = op'[t].root
      BY <2>1 DEF CallsAgree, Overlaps
    <3>1. \A u \in Signers : u # s => op'[u] = op[u] /\ Checking(u)' = Checking(u)
      BY <2>1 DEF TypeOK, Checking
    <3>2. op'[s] = [pc |-> "sign", root |-> root] /\ ~Checking(s)' BY <2>1 DEF TypeOK, Checking
    <3>3. CASE t = s BY <2>1, <2>2, <3>2, <3>3 DEF TypeOK
    <3>4. CASE t # s
      <4>1. op[t].root \in Roots /\ SlotOf[op[t].root] \in Slots BY <3>1, <3>4 DEF CallsAgree
      <4>2. CASE SlotOf[op[t].root] # SlotOf[root]
        <5>1. blockBySlot'[SlotOf[op[t].root]] = blockBySlot[SlotOf[op[t].root]]
          BY <2>1, <4>1, <4>2 DEF TypeOK
        <5> QED BY <3>1, <3>2, <3>4, <4>1, <5>1 DEF CallsAgree, Overlaps
      <4>3. CASE SlotOf[op[t].root] = SlotOf[root]
        <5>1. blockBySlot'[SlotOf[root]] = root BY <2>1, <2>2 DEF TypeOK
        <5>2. CASE SlotOf[root] \in overlapped BY <3>1, <3>4, <4>1, <4>3, <5>2
        <5>3. CASE SlotOf[root] \notin overlapped
          <6>1. Checking(t) => op[t].root = root BY <2>3, <5>3, <4>3 DEF Overlaps
          <6>2. op[t].pc = "sign" => op[t].root = root
            BY <2>2, <2>3, <5>3, <4>1, <4>3, <3>1, <3>4 DEF CallsAgree, SignedIsRecorded
          <6>3. Checking(t) => ~Overlaps(op[t].root)'
            BY <2>3, <5>3, <6>1, <3>1, <3>2 DEF Overlaps
          <6> QED BY <3>1, <3>4, <4>1, <4>3, <5>1, <6>1, <6>2, <6>3
        <5> QED BY <5>2, <5>3
      <4> QED BY <4>2, <4>3
    <3> QED BY <3>3, <3>4
  <2> QED BY <2>5, <2>6, <2>7, <2>8
<1>4. ASSUME NEW s \in Signers, SignBlock(s)
      PROVE Inv'
  <2> DEFINE root == op[s].root
  <2>1. /\ op[s].pc = "sign"
        /\ signed' = signed \union {Proposal(root)}
        /\ op' = [op EXCEPT ![s] = Idle]
        /\ UNCHANGED <<blockBySlot, currentSlot, imported, overlapped, crashes>>
    BY <1>4 DEF SignBlock, End
  <2>2. root \in Roots /\ SlotOf[root] \in Slots BY <2>1 DEF CallsAgree
  <2>3. /\ blockBySlot[SlotOf[root]] # None
        /\ SlotOf[root] \notin overlapped => blockBySlot[SlotOf[root]] = root
    BY <2>1 DEF CallsAgree, SignedIsRecorded
  <2> HIDE DEF root
  <2>4. Proposal(root) \in Blocks BY <2>2 DEF Proposal, Blocks
  <2>5. TypeOK' BY <2>1, <2>4 DEF TypeOK, Idle
  <2>6. SignedIsRecorded'
    BY <2>1, <2>2, <2>3 DEF SignedIsRecorded, TypeOK, History, Proposal, Idle
  <2>7. RecordIsHistory'
    BY <2>1, <2>2, <2>3 DEF RecordIsHistory, History, Proposal
  <2>8. CallsAgree' BY <2>1 DEF CallsAgree, TypeOK, Idle, Checking, Overlaps
  <2> QED BY <2>5, <2>6, <2>7, <2>8
<1>5. ASSUME NEW file \in ImportFiles, ImportBlocks(file)
      PROVE Inv'
  <2> DEFINE rootAt(slot) == (CHOOSE b \in file : b.slot = slot).root
  <2>1. /\ blockBySlot' = [slot \in Slots |-> IF \E b \in file : b.slot = slot THEN rootAt(slot)
                                              ELSE blockBySlot[slot]]
        /\ imported' = imported \union file
        /\ op = [s \in Signers |-> Idle]
        /\ UNCHANGED <<op, currentSlot, signed, overlapped, crashes>>
    BY <1>5 DEF ImportBlocks
  <2>2. file \subseteq Blocks BY FilesAssumption
  <2>3. \A slot \in Slots : (\E b \in file : b.slot = slot) =>
            /\ [slot |-> slot, root |-> rootAt(slot)] \in file
            /\ rootAt(slot) \in Roots \union {ZERO_ROOT}
    BY <2>2 DEF Blocks
  <2> HIDE DEF rootAt
  <2>4. TypeOK' BY <2>1, <2>2, <2>3 DEF TypeOK
  <2>5. SignedIsRecorded'
    <3>0. \A s \in Signers : op'[s].pc # "sign" BY <2>1 DEF Idle
    <3> SUFFICES ASSUME NEW b \in History' PROVE blockBySlot'[b.slot] # None
      BY <3>0 DEF SignedIsRecorded
    <3>1. b \in History \/ b \in file BY <2>1 DEF History
    <3>2. b.slot \in Slots BY <3>1, <2>2 DEF History, TypeOK, Blocks
    <3>3. CASE \E d \in file : d.slot = b.slot
      <4>1. blockBySlot'[b.slot] = rootAt(b.slot) BY <2>1, <3>2, <3>3
      <4>2. rootAt(b.slot) \in Nat BY <2>3, <3>2, <3>3
      <4> QED BY <4>1, <4>2
    <3>4. CASE ~\E d \in file : d.slot = b.slot
      <4>1. b \in History BY <3>1, <3>4
      <4>2. blockBySlot'[b.slot] = blockBySlot[b.slot] BY <2>1, <3>2, <3>4
      <4> QED BY <4>1, <4>2 DEF SignedIsRecorded
    <3> QED BY <3>3, <3>4
  <2>6. RecordIsHistory' BY <2>1, <2>3 DEF RecordIsHistory, History
  <2>7. CallsAgree' BY <2>1 DEF CallsAgree, Idle
  <2> QED BY <2>4, <2>5, <2>6, <2>7
<1>6. ASSUME Tick
      PROVE Inv'
  BY <1>6 DEF Tick, TypeOK, SignedIsRecorded, RecordIsHistory, CallsAgree, History, Slots, Checking,
     Overlaps
<1>7. ASSUME Crash
      PROVE Inv'
  BY <1>7 DEF Crash, TypeOK, SignedIsRecorded, RecordIsHistory, CallsAgree, History, Idle
<1>8. ASSUME UNCHANGED vars
      PROVE Inv'
  BY <1>8 DEF vars, TypeOK, SignedIsRecorded, RecordIsHistory, CallsAgree, History, Checking, Overlaps
<1> QED BY <1>1, <1>2, <1>3, <1>4, <1>5, <1>6, <1>7, <1>8 DEF Next

\* What the database of checkBlockProposal holds is well typed, and whatever was
\* signed or imported is on record when the process starts again, for any number
\* of callers at a time.
THEOREM RecordSafe == Spec => [](TypeOK /\ SignedIsRecorded)
<1>1. Spec => []Inv BY InitInv, NextInv, PTL DEF Spec
<1>2. Inv => TypeOK /\ SignedIsRecorded BY DEF Inv
<1> QED BY <1>1, <1>2, PTL

\* A step of the service signs no second block for a slot without an overlap.
LEMMA NextSignsOnce ==
    ASSUME Inv, [Next]_vars
    PROVE  \A b \in signed' \ History, d \in History : b.slot = d.slot => b.slot \in overlapped
<1> SUFFICES ASSUME NEW b \in signed' \ History, NEW d \in History, b.slot = d.slot
             PROVE  b.slot \in overlapped
  OBVIOUS
<1>1. PICK s \in Signers : SignBlock(s)
  <2>1. signed' # signed BY DEF History
  <2> QED BY <2>1 DEF Next, vars, CheckSameSlot, CheckFirst, InsertBlockProposal, ImportBlocks, Tick, Crash
<1>2. b = Proposal(op[s].root)
  BY <1>1 DEF SignBlock, History
<1>3. op[s].root \in Roots /\ SlotOf[op[s].root] \in Slots
  BY <1>1, SlotsAssumption DEF SignBlock, Inv, CallsAgree
<1>4. SlotOf[op[s].root] \notin overlapped => blockBySlot[SlotOf[op[s].root]] = op[s].root
  BY <1>1 DEF SignBlock, Inv, CallsAgree
<1> QED BY <1>2, <1>3, <1>4 DEF Inv, RecordIsHistory, Proposal

\* signBlock never signs two different blocks for one slot, whatever is imported,
\* repeated or interrupted and for any number of callers, unless two calls for that
\* slot overlapped between the check and the insertion.
THEOREM NoDoubleProposal == Spec => NeverDoubleProposes
<1>1. Spec => []Inv BY InitInv, NextInv, PTL DEF Spec
<1>2. Inv /\ [Next]_vars =>
        [\A b \in signed' \ History, d \in History : b.slot = d.slot => b.slot \in overlapped]_vars
  BY NextSignsOnce
<1> QED BY <1>1, <1>2, PTL DEF Spec, NeverDoubleProposes

-----------------------------------------------------------------------------
(* The interchange of keys, in the registers that MCValidator.tla gives it. *)

db == r1
active == r2
file == r3
older == r4
importing == r5
past == r6
everSigned == r7
shown == r8
moves == r9
cuts == r10

USE DEF db, active, file, older, importing, past, everSigned, shown, moves, cuts

(***************************************************************************)
(* What is assumed of the constants.                                        *)
(***************************************************************************)

Messages(data) == UNION {d.signedBlocks \union d.signedAttestations : d \in data}

AllMessages == BlockRequests \union AttRequests \union UNION {Messages(old) : old \in OldFiles}

PubKeys == {x.key : x \in AllMessages}
SigningRoots == {x.root : x \in AllMessages}

BlockMessages == [key : PubKeys, slot : Nat, root : SigningRoots]
AttMessages == [key : PubKeys, source : Nat, target : Nat, root : SigningRoots]

\* A record of the file: a validator and its own messages.
Entries == [key : PubKeys, signedBlocks : SUBSET BlockMessages, signedAttestations : SUBSET AttMessages]

\* A signing root is a hash: no text that stands for a missing one, not the zero root when it
\* is computed, and the same for two attestations of a key only if they are the same attestation.
MessagesAssumption ==
  /\ BlockRequests \subseteq BlockMessages
  /\ AttRequests \subseteq AttMessages
  /\ "absent" \notin SigningRoots
  /\ \A a \in AttRequests : a.root # UnknownRoot
  /\ \A a \in AttRequests, c \in AllMessages \intersect AttMessages :
       a.key = c.key /\ a.root = c.root => a = c

\* A file of another client has one block for a slot and one attestation for a target epoch.
\* Its attestations may surround each other.
OldFilesAssumption ==
  \A old \in OldFiles :
    /\ old \subseteq Entries
    /\ \A x, y \in Messages(old) : ~Inter!Doubled(x, y)

MachinesAssumption == Inter!Nowhere \notin Machines

InterchangeConstants == MessagesAssumption /\ OldFilesAssumption /\ MachinesAssumption

-----------------------------------------------------------------------------
(***************************************************************************)
(* The inductive invariant.                                                 *)
(***************************************************************************)

\* The blocks signed anywhere, and the attestations as they were recorded anywhere.
BlocksKnown == (everSigned \union past) \intersect BlockMessages
RecordsKnown == shown \union (past \intersect AttMessages)

SignedIsTyped ==
  /\ everSigned \subseteq BlockRequests \union AttRequests
  /\ past \subseteq BlockMessages \union AttMessages
  /\ past \subseteq AllMessages
  /\ shown \subseteq AttMessages

\* There is one block for a slot and one recorded attestation for a target, so that
\* writing a record again replaces nothing.
OneRecord ==
  /\ \A b, c \in BlocksKnown : b.key = c.key /\ b.slot = c.slot => b = c
  /\ \A a, c \in RecordsKnown : a.key = c.key /\ a.target = c.target => a = c

\* A signed attestation has a record with its signing root.
SignedHasRecord ==
  \A a \in everSigned \intersect AttMessages : \E c \in RecordsKnown :
    c.key = a.key /\ c.target = a.target /\ c.root = a.root

NoSurroundShown ==
  \A a \in shown, c \in RecordsKnown :
    a.key = c.key => ~Inter!Surrounds(a, c) /\ ~Inter!Surrounds(c, a)

Repositories == {"blockBySlot", "byTarget", "minSpan", "maxSpan", "lowerBound"}

\* A database has its repositories and holds only what is known.
DbHoldsKnown ==
  /\ DOMAIN db = Machines
  /\ \A m \in Machines :
       /\ DOMAIN db[m] = Repositories
       /\ db[m].blockBySlot \subseteq BlocksKnown
       /\ db[m].byTarget \subseteq RecordsKnown

\* A machine has blocks, and attestations with both spans.
HasBlocks(m, blocks) == blocks \subseteq db[m].blockBySlot
HasAttestations(m, atts) ==
  atts \subseteq db[m].byTarget /\ atts \subseteq db[m].minSpan /\ atts \subseteq db[m].maxSpan

\* The machine that signs knows all that was signed anywhere.
ActiveKnowsAll ==
  active \in Machines => HasBlocks(active, BlocksKnown) /\ HasAttestations(active, RecordsKnown)

IsTrue(d) == d \in Entries /\ d.signedBlocks \subseteq BlocksKnown /\ d.signedAttestations \subseteq RecordsKnown

\* No file says what was not signed.
FilesAreTrue ==
  \A f \in older \union {file} : f # Inter!NoFile => \A d \in Inter!ParsedData(f.data) : IsTrue(d)

\* While the keys move the last file says all of it.
FileSaysAll ==
  active \notin Machines =>
    /\ active = Inter!Nowhere
    /\ file # Inter!NoFile
    /\ BlocksKnown \union RecordsKnown \subseteq Messages(Inter!ParsedData(file.data))

\* What an import has done with is in the database of its machine.
ImportIsExact ==
  importing # Inter!NoImport =>
    /\ DOMAIN importing = {"machine", "data", "left", "entry", "step", "spans", "half"}
    /\ importing.machine \in Machines
    /\ active \in {Inter!Nowhere, importing.machine}
    /\ \A d \in importing.data : IsTrue(d)
    /\ importing.entry \subseteq importing.left /\ importing.left \subseteq importing.data
    /\ \A d, e \in importing.entry : d = e
    /\ importing.half \subseteq importing.spans
    /\ importing.half \subseteq db[importing.machine].minSpan
    /\ \A d \in importing.data \ importing.left :
         HasBlocks(importing.machine, d.signedBlocks) /\ HasAttestations(importing.machine, d.signedAttestations)
    /\ \A d \in importing.entry :
         /\ importing.step # "blocks" => HasBlocks(importing.machine, d.signedBlocks)
         /\ importing.step = "spans" =>
              /\ d.signedAttestations \subseteq db[importing.machine].byTarget
              /\ HasAttestations(importing.machine, d.signedAttestations \ importing.spans)

InterchangeInv ==
  /\ SignedIsTyped
  /\ OneRecord
  /\ SignedHasRecord
  /\ NoSurroundShown
  /\ DbHoldsKnown
  /\ ActiveKnowsAll
  /\ FilesAreTrue
  /\ FileSaysAll
  /\ ImportIsExact

-----------------------------------------------------------------------------
(***************************************************************************)
(* The file says what it is made of.                                        *)
(***************************************************************************)

LEMMA RecordsRoundTrip ==
  ASSUME MessagesAssumption, NEW S,
         S \subseteq BlockMessages \/ S \subseteq AttMessages
  PROVE  Inter!ParsedRecords(Inter!SerializedRecords(S)) = S
<1> DEFINE ser(x) == [x EXCEPT !.root = Inter!ToOptional(x.root)]
           par(x) == [x EXCEPT !.root = Inter!FromOptional(x.root)]
<1>1. ASSUME NEW x \in S PROVE par(ser(x)) = x
  <2>1. x.root \in SigningRoots /\ x.root # "absent"
    BY DEF MessagesAssumption, BlockMessages, AttMessages
  <2>2. Inter!FromOptional(Inter!ToOptional(x.root)) = x.root
    BY <2>1 DEF Inter!FromOptional, Inter!ToOptional
  <2>3. CASE S \subseteq BlockMessages BY <2>2, <2>3 DEF BlockMessages
  <2>4. CASE S \subseteq AttMessages BY <2>2, <2>4 DEF AttMessages
  <2> QED BY <2>3, <2>4
<1>2. Inter!ParsedRecords(Inter!SerializedRecords(S)) = {par(y) : y \in {ser(x) : x \in S}}
  BY DEF Inter!ParsedRecords, Inter!SerializedRecords
<1> HIDE DEF ser, par
<1> QED BY <1>1, <1>2

\* Parsing what was serialized, with either version, gives the data back: the
\* zero roots that are left out come back as zero roots.
LEMMA DataRoundTrip ==
  ASSUME MessagesAssumption, NEW data \in SUBSET Entries
  PROVE  Inter!ParsedData(Inter!SerializedData(data)) = data
<1> DEFINE ser(d) == [d EXCEPT !.signedBlocks = Inter!SerializedRecords(d.signedBlocks),
                               !.signedAttestations = Inter!SerializedRecords(d.signedAttestations)]
           par(d) == [d EXCEPT !.signedBlocks = Inter!ParsedRecords(d.signedBlocks),
                               !.signedAttestations = Inter!ParsedRecords(d.signedAttestations)]
<1>1. ASSUME NEW d \in data PROVE par(ser(d)) = d
  <2>1. d \in Entries OBVIOUS
  <2>2. /\ Inter!ParsedRecords(Inter!SerializedRecords(d.signedBlocks)) = d.signedBlocks
        /\ Inter!ParsedRecords(Inter!SerializedRecords(d.signedAttestations)) = d.signedAttestations
    BY <2>1, RecordsRoundTrip DEF Entries
  <2> QED BY <2>1, <2>2 DEF Entries
<1>2. Inter!ParsedData(Inter!SerializedData(data)) = {par(y) : y \in {ser(d) : d \in data}}
  BY DEF Inter!ParsedData, Inter!SerializedData
<1> HIDE DEF ser, par
<1> QED BY <1>1, <1>2

\* A written file is a file, and says what was given.
LEMMA FileRoundTrip ==
  ASSUME MessagesAssumption, NEW data \in SUBSET Entries, NEW root, NEW version \in {4, 5}
  PROVE  /\ Inter!SerializeInterchange(data, root, version) # Inter!NoFile
         /\ Inter!ParsedData(Inter!SerializeInterchange(data, root, version).data) = data
BY DataRoundTrip DEF Inter!SerializeInterchange, Inter!NoFile

\* A file that is accepted is one.
LEMMA AcceptedIsFile ==
  ASSUME NEW f, NEW root, Inter!ParseAccepts(f, root)
  PROVE  f # Inter!NoFile
BY DEF Inter!ParseAccepts, Inter!NoFile

-----------------------------------------------------------------------------
(***************************************************************************)
(* Writing what is known replaces nothing.                                  *)
(***************************************************************************)

LEMMA SetBlocksAdds ==
  ASSUME OneRecord, NEW S \in SUBSET BlocksKnown, NEW T \in SUBSET BlocksKnown
  PROVE  Inter!SetBlocks(S, T) = S \union T
<1>1. \A b \in S, c \in T : <<c.key, c.slot>> = <<b.key, b.slot>> => b = c
  BY DEF OneRecord
<1> QED BY <1>1 DEF Inter!SetBlocks

LEMMA SetAttestationsAdds ==
  ASSUME OneRecord, NEW S \in SUBSET RecordsKnown, NEW T \in SUBSET RecordsKnown
  PROVE  Inter!SetAttestations(S, T) = S \union T
<1>1. \A b \in S, c \in T : <<c.key, c.target>> = <<b.key, b.target>> => b = c
  BY DEF OneRecord
<1> QED BY <1>1 DEF Inter!SetAttestations

LEMMA BlocksAreNotAttestations ==
  /\ \A b \in BlockMessages : Inter!IsBlock(b) /\ b \notin AttMessages
  /\ \A a \in AttMessages : ~Inter!IsBlock(a) /\ a \notin BlockMessages
BY DEF Inter!IsBlock, BlockMessages, AttMessages

-----------------------------------------------------------------------------
(***************************************************************************)
(* The steps.                                                               *)
(***************************************************************************)

LEMMA InterchangeInit ==
  ASSUME InterchangeConstants, Inter!Init
  PROVE  InterchangeInv
<1> USE DEF InterchangeConstants
<1>1. DbHoldsKnown BY DEF Inter!Init, DbHoldsKnown, Inter!EmptyDb, Repositories
<1>2. ImportIsExact BY DEF Inter!Init, ImportIsExact
<1>3. everSigned = {} /\ shown = {} /\ older = {} BY DEF Inter!Init
<1>4. SignedHasRecord /\ NoSurroundShown BY <1>3 DEF SignedHasRecord, NoSurroundShown
<1>5. CASE active \in Machines /\ file = Inter!NoFile /\ past = {}
  <2>1. BlocksKnown = {} /\ RecordsKnown = {} BY <1>3, <1>5 DEF BlocksKnown, RecordsKnown
  <2>2. SignedIsTyped /\ OneRecord BY <1>3, <1>5, <2>1 DEF SignedIsTyped, OneRecord
  <2>3. ActiveKnowsAll BY <2>1 DEF ActiveKnowsAll, HasBlocks, HasAttestations
  <2>4. FilesAreTrue /\ FileSaysAll BY <1>3, <1>5 DEF FilesAreTrue, FileSaysAll
  <2> QED BY <1>1, <1>2, <1>4, <2>2, <2>3, <2>4 DEF InterchangeInv
<1>6. CASE /\ active = Inter!Nowhere
           /\ \E old \in OldFiles, root \in Networks, version \in {4, 5} :
                /\ file = Inter!SerializeInterchange(old, root, version)
                /\ past = UNION {d.signedBlocks \union d.signedAttestations : d \in old}
  <2>1. PICK old \in OldFiles, root \in Networks, version \in {4, 5} :
                /\ file = Inter!SerializeInterchange(old, root, version)
                /\ past = Messages(old)
    BY <1>6 DEF Messages
  <2>2. old \subseteq Entries /\ \A x, y \in past : ~Inter!Doubled(x, y)
    BY <2>1 DEF OldFilesAssumption
  <2>3. Inter!ParsedData(file.data) = old /\ file # Inter!NoFile
    BY <2>1, <2>2, FileRoundTrip
  <2>4. /\ \A d \in old : d.signedBlocks \subseteq past /\ d.signedAttestations \subseteq past
        /\ past \subseteq BlockMessages \union AttMessages
        /\ past \subseteq AllMessages
    BY <2>1, <2>2 DEF Messages, Entries, AllMessages
  <2>5. BlocksKnown = past \intersect BlockMessages /\ RecordsKnown = past \intersect AttMessages
    BY <1>3 DEF BlocksKnown, RecordsKnown
  <2>6. SignedIsTyped BY <1>3, <2>4 DEF SignedIsTyped
  <2>7. OneRecord
    <3>1. \A b, c \in BlocksKnown : b.key = c.key /\ b.slot = c.slot => b = c
      <4> SUFFICES ASSUME NEW b \in BlocksKnown, NEW c \in BlocksKnown, b.key = c.key, b.slot = c.slot
                   PROVE  b = c
        OBVIOUS
      <4>1. b \in BlockMessages /\ c \in BlockMessages /\ ~Inter!Doubled(b, c) BY <2>2, <2>5
      <4>2. b.root = c.root BY <4>1 DEF Inter!Doubled, Inter!IsBlock, BlockMessages
      <4> QED BY <4>1, <4>2 DEF BlockMessages
    <3>2. \A a, c \in RecordsKnown : a.key = c.key /\ a.target = c.target => a = c
      <4> SUFFICES ASSUME NEW a \in RecordsKnown, NEW c \in RecordsKnown, a.key = c.key, a.target = c.target
                   PROVE  a = c
        OBVIOUS
      <4>1. a \in AttMessages /\ c \in AttMessages /\ ~Inter!Doubled(a, c) BY <2>2, <2>5
      <4> QED BY <4>1 DEF Inter!Doubled, Inter!IsBlock, AttMessages
    <3> QED BY <3>1, <3>2 DEF OneRecord
  <2>8. ActiveKnowsAll BY <1>6 DEF ActiveKnowsAll, MachinesAssumption
  <2>9. \A d \in old : IsTrue(d) BY <2>2, <2>4, <2>5 DEF IsTrue, Entries
  <2>10. FilesAreTrue BY <1>3, <2>3, <2>9 DEF FilesAreTrue
  <2>11. FileSaysAll BY <1>6, <2>1, <2>3, <2>5 DEF FileSaysAll
  <2> QED BY <1>1, <1>2, <1>4, <2>6, <2>7, <2>8, <2>10, <2>11 DEF InterchangeInv
<1> QED BY <1>5, <1>6 DEF Inter!Init

\* More is known; nothing that was true of the files and the databases gets false.
LEMMA KnownGrows ==
  ASSUME InterchangeInv, BlocksKnown \subseteq BlocksKnown', RecordsKnown \subseteq RecordsKnown',
         importing = Inter!NoImport, active \in Machines, UNCHANGED <<active, file, older, importing>>
  PROVE  FilesAreTrue' /\ FileSaysAll' /\ ImportIsExact'
<1>1. \A d : IsTrue(d) => IsTrue(d)' BY DEF IsTrue
<1>2. \A f \in older \union {file} : f # Inter!NoFile => \A d \in Inter!ParsedData(f.data) : IsTrue(d)
  BY DEF InterchangeInv, FilesAreTrue
<1>3. FilesAreTrue' BY <1>1, <1>2 DEF FilesAreTrue
<1> QED BY <1>3 DEF FileSaysAll, ImportIsExact

LEMMA BlockIsSafe ==
  ASSUME InterchangeConstants, NEW m \in Machines, NEW b \in BlockRequests,
         InterchangeInv, Inter!SignBlock(m, b)
  PROVE  InterchangeInv'
<1> USE DEF InterchangeConstants
<1>1. b \in BlockMessages BY DEF MessagesAssumption
<1>2. /\ active = m /\ importing = Inter!NoImport /\ everSigned' = everSigned \union {b}
      /\ UNCHANGED <<active, file, older, importing, past, shown>>
      /\ Inter!CheckBlockProposal(m, b) # "ERROR"
      /\ db' = IF Inter!CheckBlockProposal(m, b) = "SAME_DATA" THEN db
               ELSE [db EXCEPT ![m].blockBySlot = Inter!SetBlocks(@, {b})]
  BY DEF Inter!SignBlock, Inter!Running
<1>3. /\ BlocksKnown' = BlocksKnown \union {b}
      /\ RecordsKnown' = RecordsKnown
      /\ (everSigned \intersect AttMessages)' = everSigned \intersect AttMessages
  BY <1>1, <1>2, BlocksAreNotAttestations DEF BlocksKnown, RecordsKnown
<1>4. db[m].blockBySlot = BlocksKnown
  BY <1>2 DEF InterchangeInv, ActiveKnowsAll, HasBlocks, DbHoldsKnown
<1>5. \A c \in BlocksKnown : c.key = b.key /\ c.slot = b.slot => c = b
  <2> SUFFICES ASSUME NEW c \in BlocksKnown, c.key = b.key, c.slot = b.slot PROVE c = b
    OBVIOUS
  <2>1. \E e \in BlocksKnown : e.key = b.key /\ e.slot = b.slot /\ e.root = b.root
    BY <1>2, <1>4 DEF Inter!CheckBlockProposal, Inter!IsEqualNonZeroRoot, Inter!GetAllBlocks, Inter!OfKey
  <2>2. b \in BlocksKnown BY <1>1, <2>1 DEF BlocksKnown, BlockMessages
  <2> QED BY <2>2 DEF InterchangeInv, OneRecord
<1>6. \/ db' = db /\ b \in BlocksKnown
      \/ db' = [db EXCEPT ![m].blockBySlot = db[m].blockBySlot \union {b}]
  <2>1. CASE Inter!CheckBlockProposal(m, b) = "SAME_DATA"
    <3>1. \E e \in BlocksKnown : e.key = b.key /\ e.slot = b.slot /\ e.root = b.root
      BY <1>4, <2>1 DEF Inter!CheckBlockProposal, Inter!IsEqualNonZeroRoot, Inter!GetAllBlocks, Inter!OfKey
    <3> QED BY <1>2, <1>5, <2>1, <3>1
  <2>2. CASE Inter!CheckBlockProposal(m, b) # "SAME_DATA"
    <3>1. Inter!SetBlocks(db[m].blockBySlot, {b}) = db[m].blockBySlot \union {b}
      BY <1>4, <1>5 DEF Inter!SetBlocks
    <3> QED BY <1>2, <2>2, <3>1
  <2> QED BY <2>1, <2>2
<1>7. /\ DOMAIN db' = Machines
      /\ \A n \in Machines : n # m => db'[n] = db[n]
      /\ DOMAIN db'[m] = Repositories
      /\ db'[m].blockBySlot = BlocksKnown'
      /\ db'[m].byTarget = db[m].byTarget
      /\ db'[m].minSpan = db[m].minSpan
      /\ db'[m].maxSpan = db[m].maxSpan
  BY <1>3, <1>4, <1>6 DEF InterchangeInv, DbHoldsKnown, Repositories
<1>8. DbHoldsKnown' BY <1>3, <1>7 DEF InterchangeInv, DbHoldsKnown
<1>9. ActiveKnowsAll' BY <1>2, <1>3, <1>7 DEF InterchangeInv, ActiveKnowsAll, HasBlocks, HasAttestations
<1>10. OneRecord' BY <1>3, <1>5 DEF InterchangeInv, OneRecord
<1>11. SignedIsTyped' BY <1>2 DEF InterchangeInv, SignedIsTyped
<1>12. SignedHasRecord' BY <1>3 DEF InterchangeInv, SignedHasRecord
<1>13. NoSurroundShown' BY <1>2, <1>3 DEF InterchangeInv, NoSurroundShown
<1>14. FilesAreTrue' /\ FileSaysAll' /\ ImportIsExact' BY <1>2, <1>3, KnownGrows
<1> QED BY <1>8, <1>9, <1>10, <1>11, <1>12, <1>13, <1>14 DEF InterchangeInv

LEMMA AttestationIsSafe ==
  ASSUME InterchangeConstants, NEW m \in Machines, NEW a \in AttRequests,
         InterchangeInv, Inter!SignAttestation(m, a)
  PROVE  InterchangeInv'
<1> USE DEF InterchangeConstants
<1> DEFINE att == Inter!ShownAttestation(a)
<1>1. a \in AttMessages BY DEF MessagesAssumption
<1>2. /\ att \in AttMessages /\ att.key = a.key /\ att.target = a.target /\ att.root = a.root
      /\ att.source = att.target
  BY <1>1 DEF Inter!ShownAttestation, AttMessages
<1>3. /\ active = m /\ importing = Inter!NoImport /\ everSigned' = everSigned \union {a}
      /\ UNCHANGED <<active, file, older, importing, past>>
      /\ \/ Inter!CheckAttestation(m, att) = "SAME_DATA" /\ UNCHANGED <<db, shown>>
         \/ /\ Inter!CheckAttestation(m, att) = "OK"
            /\ db' = [db EXCEPT ![m].byTarget = Inter!SetAttestations(@, {att}),
                                ![m].minSpan = @ \union {att},
                                ![m].maxSpan = @ \union {att}]
            /\ shown' = shown \union {att}
  BY DEF Inter!SignAttestation, Inter!Running
<1> HIDE DEF att
<1>4. BlocksKnown' = BlocksKnown
  BY <1>1, <1>3, BlocksAreNotAttestations DEF BlocksKnown
<1>5. /\ db[m].byTarget = RecordsKnown
      /\ RecordsKnown \subseteq db[m].minSpan /\ RecordsKnown \subseteq db[m].maxSpan
      /\ DOMAIN db = Machines /\ DOMAIN db[m] = Repositories
  BY <1>3 DEF InterchangeInv, ActiveKnowsAll, HasAttestations, DbHoldsKnown
<1>6. SignedIsTyped' BY <1>2, <1>3 DEF InterchangeInv, SignedIsTyped
<1>7. CASE Inter!CheckAttestation(m, att) = "SAME_DATA" /\ UNCHANGED <<db, shown>>
  <2>1. RecordsKnown' = RecordsKnown BY <1>3, <1>7 DEF RecordsKnown
  <2>2. \E c \in RecordsKnown : c.key = a.key /\ c.target = a.target /\ c.root = a.root
    BY <1>2, <1>5, <1>7
       DEF Inter!CheckAttestation, Inter!IsEqualNonZeroRoot, Inter!GetAllAttestations, Inter!OfKey
  <2>3. SignedHasRecord' BY <1>3, <2>1, <2>2 DEF InterchangeInv, SignedHasRecord
  <2>4. FilesAreTrue' /\ FileSaysAll' /\ ImportIsExact' BY <1>3, <1>4, <2>1, KnownGrows
  <2>5. OneRecord' /\ NoSurroundShown'
    BY <1>4, <1>7, <2>1 DEF InterchangeInv, OneRecord, NoSurroundShown
  <2>6. DbHoldsKnown' /\ ActiveKnowsAll'
    BY <1>3, <1>4, <1>7, <2>1 DEF InterchangeInv, DbHoldsKnown, ActiveKnowsAll, HasBlocks, HasAttestations
  <2> QED BY <1>6, <2>3, <2>4, <2>5, <2>6 DEF InterchangeInv
<1>8. CASE /\ Inter!CheckAttestation(m, att) = "OK"
           /\ db' = [db EXCEPT ![m].byTarget = Inter!SetAttestations(@, {att}),
                               ![m].minSpan = @ \union {att},
                               ![m].maxSpan = @ \union {att}]
           /\ shown' = shown \union {att}
  <2>1. /\ \A c \in Inter!GetAllAttestations(m, att.key) : c.target # att.target
        /\ Inter!NotSurrounding(m, att) /\ Inter!NotSurrounded(m, att)
    BY <1>8 DEF Inter!CheckAttestation
  <2>2. \A c \in RecordsKnown : c.key = att.key => c.target # att.target
    BY <1>5, <2>1 DEF Inter!GetAllAttestations, Inter!OfKey
  <2>3. \A c \in RecordsKnown : c.key = att.key => ~Inter!Surrounds(att, c) /\ ~Inter!Surrounds(c, att)
    BY <1>5, <2>1 DEF Inter!NotSurrounding, Inter!NotSurrounded, Inter!OfKey
  <2>4. RecordsKnown' = RecordsKnown \union {att} BY <1>3, <1>8 DEF RecordsKnown
  <2>5. Inter!SetAttestations(db[m].byTarget, {att}) = db[m].byTarget \union {att}
    BY <1>5, <2>2 DEF Inter!SetAttestations
  <2>6. /\ DOMAIN db' = Machines
        /\ \A n \in Machines : n # m => db'[n] = db[n]
        /\ DOMAIN db'[m] = Repositories
        /\ db'[m].blockBySlot = db[m].blockBySlot
        /\ db'[m].byTarget = db[m].byTarget \union {att}
        /\ db'[m].minSpan = db[m].minSpan \union {att}
        /\ db'[m].maxSpan = db[m].maxSpan \union {att}
    BY <1>5, <1>8, <2>5 DEF Repositories
  <2>7. DbHoldsKnown' BY <1>4, <2>4, <2>6 DEF InterchangeInv, DbHoldsKnown
  <2>8. ActiveKnowsAll'
    BY <1>3, <1>4, <1>5, <2>4, <2>6 DEF InterchangeInv, ActiveKnowsAll, HasBlocks, HasAttestations
  <2>9. OneRecord' BY <1>4, <2>2, <2>4 DEF InterchangeInv, OneRecord
  <2>10. SignedHasRecord' BY <1>2, <1>3, <2>4 DEF InterchangeInv, SignedHasRecord
  <2>11. NoSurroundShown'
    <3>1. ~Inter!Surrounds(att, att) BY <1>2 DEF Inter!Surrounds, AttMessages
    <3>2. \A c \in shown : c \in RecordsKnown BY DEF RecordsKnown
    <3> QED BY <1>8, <2>3, <2>4, <3>1, <3>2 DEF InterchangeInv, NoSurroundShown
  <2>12. FilesAreTrue' /\ FileSaysAll' /\ ImportIsExact' BY <1>3, <1>4, <2>4, KnownGrows
  <2> QED BY <1>6, <2>7, <2>8, <2>9, <2>10, <2>11, <2>12 DEF InterchangeInv
<1> QED BY <1>3, <1>7, <1>8

\* The history of what was signed and recorded does not change.
HistoryKept == UNCHANGED <<past, everSigned, shown>>

LEMMA HistoryStays ==
  ASSUME InterchangeInv, HistoryKept
  PROVE  /\ BlocksKnown' = BlocksKnown /\ RecordsKnown' = RecordsKnown
         /\ SignedIsTyped' /\ OneRecord' /\ SignedHasRecord' /\ NoSurroundShown'
         /\ \A d : IsTrue(d)' = IsTrue(d)
<1>1. BlocksKnown' = BlocksKnown /\ RecordsKnown' = RecordsKnown
  BY DEF HistoryKept, BlocksKnown, RecordsKnown
<1>2. SignedIsTyped' /\ OneRecord'
  BY <1>1 DEF HistoryKept, InterchangeInv, SignedIsTyped, OneRecord
<1>3. SignedHasRecord' /\ NoSurroundShown'
  BY <1>1 DEF HistoryKept, InterchangeInv, SignedHasRecord, NoSurroundShown
<1>4. \A d : IsTrue(d)' = IsTrue(d) BY <1>1 DEF IsTrue
<1> QED BY <1>1, <1>2, <1>3, <1>4

LEMMA ExportIsSafe ==
  ASSUME InterchangeConstants, InterchangeInv,
         NEW m \in Machines, NEW root, NEW version \in {4, 5}, Inter!ExportCmd(m, root, version)
  PROVE  InterchangeInv'
<1> USE DEF InterchangeConstants
<1>1. /\ active = m /\ importing = Inter!NoImport /\ active' = Inter!Nowhere
      /\ UNCHANGED <<db, importing>> /\ HistoryKept
      /\ file' = Inter!SerializeInterchange(Inter!ExportedData(m), root, version)
      /\ older' = older \union {file}
  BY DEF Inter!ExportCmd, Inter!Running, HistoryKept
<1>2. /\ BlocksKnown' = BlocksKnown /\ RecordsKnown' = RecordsKnown
      /\ SignedIsTyped' /\ OneRecord' /\ SignedHasRecord' /\ NoSurroundShown'
      /\ \A d : IsTrue(d)' = IsTrue(d)
  BY <1>1, HistoryStays
<1>3. db[m].blockBySlot = BlocksKnown /\ db[m].byTarget = RecordsKnown
  BY <1>1 DEF InterchangeInv, ActiveKnowsAll, HasBlocks, HasAttestations, DbHoldsKnown
<1>4. BlocksKnown \subseteq BlockMessages /\ RecordsKnown \subseteq AttMessages
  BY DEF InterchangeInv, SignedIsTyped, BlocksKnown, RecordsKnown
<1>5. Inter!ListPubkeys(m) \subseteq PubKeys
  BY <1>3, <1>4 DEF Inter!ListPubkeys, BlockMessages, AttMessages
<1>6. \A d \in Inter!ExportedData(m) : IsTrue(d)
  BY <1>3, <1>4, <1>5
     DEF Inter!ExportedData, IsTrue, Entries, Inter!GetAllBlocks, Inter!GetAllAttestations, Inter!OfKey
<1>7. Inter!ExportedData(m) \subseteq Entries BY <1>6 DEF IsTrue
<1>8. Inter!ParsedData(file'.data) = Inter!ExportedData(m) /\ file' # Inter!NoFile
  BY <1>1, <1>7, FileRoundTrip
<1>9. BlocksKnown \union RecordsKnown \subseteq Messages(Inter!ExportedData(m))
  <2> SUFFICES ASSUME NEW x \in BlocksKnown \union RecordsKnown
               PROVE  x \in Messages(Inter!ExportedData(m))
    OBVIOUS
  <2> DEFINE d == [key |-> x.key, signedBlocks |-> Inter!GetAllBlocks(m, x.key),
                   signedAttestations |-> Inter!GetAllAttestations(m, x.key)]
  <2>1. x.key \in Inter!ListPubkeys(m) BY <1>3 DEF Inter!ListPubkeys
  <2>2. d \in Inter!ExportedData(m) BY <2>1 DEF Inter!ExportedData
  <2>3. x \in d.signedBlocks \union d.signedAttestations
    BY <1>3 DEF Inter!GetAllBlocks, Inter!GetAllAttestations, Inter!OfKey
  <2> HIDE DEF d
  <2> QED BY <2>2, <2>3 DEF Messages
<1>10. FileSaysAll' BY <1>1, <1>2, <1>8, <1>9 DEF FileSaysAll
<1>11. FilesAreTrue'
  <2> SUFFICES ASSUME NEW f \in older' \union {file'}, f # Inter!NoFile, NEW d \in Inter!ParsedData(f.data)
               PROVE  IsTrue(d)
    BY <1>2 DEF FilesAreTrue
  <2>1. CASE f = file' BY <1>6, <1>8, <2>1
  <2>2. CASE f \in older \union {file} BY <2>2 DEF InterchangeInv, FilesAreTrue
  <2> QED BY <1>1, <2>1, <2>2
<1>12. ImportIsExact' /\ ActiveKnowsAll'
  BY <1>1 DEF ImportIsExact, ActiveKnowsAll, MachinesAssumption
<1>13. DbHoldsKnown' BY <1>1, <1>2 DEF InterchangeInv, DbHoldsKnown
<1> QED BY <1>2, <1>10, <1>11, <1>12, <1>13 DEF InterchangeInv

\* A database grows, by what is known; the files and the keys stay.
DbGrows ==
  /\ HistoryKept /\ UNCHANGED <<active, file, older>>
  /\ DOMAIN db' = Machines
  /\ \A n \in Machines :
       /\ DOMAIN db'[n] = Repositories
       /\ db[n].blockBySlot \subseteq db'[n].blockBySlot /\ db'[n].blockBySlot \subseteq BlocksKnown
       /\ db[n].byTarget \subseteq db'[n].byTarget /\ db'[n].byTarget \subseteq RecordsKnown
       /\ db[n].minSpan \subseteq db'[n].minSpan
       /\ db[n].maxSpan \subseteq db'[n].maxSpan

LEMMA DbGrowth ==
  ASSUME InterchangeInv, DbGrows, ImportIsExact'
  PROVE  InterchangeInv'
<1>1. /\ BlocksKnown' = BlocksKnown /\ RecordsKnown' = RecordsKnown
      /\ SignedIsTyped' /\ OneRecord' /\ SignedHasRecord' /\ NoSurroundShown'
      /\ \A d : IsTrue(d)' = IsTrue(d)
  BY HistoryStays DEF DbGrows
<1>2. DbHoldsKnown' BY <1>1 DEF DbGrows, DbHoldsKnown
<1>3. ActiveKnowsAll'
  BY <1>1 DEF InterchangeInv, DbGrows, ActiveKnowsAll, HasBlocks, HasAttestations
<1>4. FilesAreTrue' BY <1>1 DEF InterchangeInv, DbGrows, FilesAreTrue
<1>5. FileSaysAll' BY <1>1 DEF InterchangeInv, DbGrows, FileSaysAll
<1> QED BY <1>1, <1>2, <1>3, <1>4, <1>5 DEF InterchangeInv

\* Nothing is lost where a database grows.
LEMMA GrowthKeeps ==
  ASSUME DbGrows, NEW m \in Machines
  PROVE  /\ \A S : HasBlocks(m, S) => HasBlocks(m, S)'
         /\ \A S : HasAttestations(m, S) => HasAttestations(m, S)'
BY DEF DbGrows, HasBlocks, HasAttestations

\* The import ends, by its end, an error or a signal; or it begins.
LEMMA ImportEnds ==
  ASSUME InterchangeInv, UNCHANGED <<db, active, file, older>>, HistoryKept, importing' = Inter!NoImport
  PROVE  InterchangeInv'
<1>1. DbGrows BY DEF DbGrows, InterchangeInv, DbHoldsKnown
<1>2. ImportIsExact' BY DEF ImportIsExact
<1> QED BY <1>1, <1>2, DbGrowth

LEMMA ImportStarts ==
  ASSUME InterchangeConstants, InterchangeInv, NEW m \in Machines, NEW f \in older \union {file},
         NEW root, Inter!ImportCmd(m, f, root)
  PROVE  InterchangeInv'
<1>1. /\ active \in {Inter!Nowhere, m} /\ UNCHANGED <<db, active, file, older>> /\ HistoryKept
      /\ importing' = [machine |-> m, data |-> Inter!ParsedData(f.data), left |-> Inter!ParsedData(f.data),
                       entry |-> {}, step |-> "blocks", spans |-> {}, half |-> {}]
  BY DEF Inter!ImportCmd, HistoryKept
<1>2. f # Inter!NoFile BY AcceptedIsFile DEF Inter!ImportCmd
<1>3. \A d \in Inter!ParsedData(f.data) : IsTrue(d) BY <1>2 DEF InterchangeInv, FilesAreTrue
<1>4. \A d : IsTrue(d)' = IsTrue(d) BY <1>1, HistoryStays
<1>5. DbGrows BY <1>1 DEF DbGrows, InterchangeInv, DbHoldsKnown
<1>6. ImportIsExact' BY <1>1, <1>3, <1>4 DEF ImportIsExact
<1> QED BY <1>5, <1>6, DbGrowth

\* The parts of ImportIsExact that a write keeps, whatever it is of.
LEMMA ImportFrame ==
  ASSUME InterchangeInv, importing # Inter!NoImport, DbGrows,
         importing'.machine = importing.machine, importing'.data = importing.data
  PROVE  /\ importing.machine \in Machines
         /\ active' \in {Inter!Nowhere, importing.machine}
         /\ \A d \in importing.data : IsTrue(d)'
         /\ \A d \in importing.data \ importing.left :
              /\ HasBlocks(importing.machine, d.signedBlocks)'
              /\ HasAttestations(importing.machine, d.signedAttestations)'
<1>1. /\ importing.machine \in Machines
      /\ active \in {Inter!Nowhere, importing.machine}
      /\ \A d \in importing.data : IsTrue(d)
      /\ \A d \in importing.data \ importing.left :
           HasBlocks(importing.machine, d.signedBlocks) /\ HasAttestations(importing.machine, d.signedAttestations)
  BY DEF InterchangeInv, ImportIsExact
<1>2. \A d : IsTrue(d)' = IsTrue(d) BY HistoryStays DEF DbGrows
<1> QED BY <1>1, <1>2, GrowthKeeps DEF DbGrows, HasBlocks, HasAttestations

\* Every field of an import under way.
Fields == {"machine", "data", "left", "entry", "step", "spans", "half"}

LEMMA ImportBlocksIsSafe ==
  ASSUME InterchangeConstants, InterchangeInv, importing # Inter!NoImport,
         NEW d \in importing.left, Inter!ImportBlocks(d)
  PROVE  InterchangeInv'
<1>1. PICK m \in Machines : m = importing.machine BY DEF InterchangeInv, ImportIsExact
<1>2. /\ DOMAIN importing = Fields /\ d \in importing.data
      /\ importing.left \subseteq importing.data
      /\ importing.half \subseteq importing.spans /\ importing.half \subseteq db[m].minSpan
      /\ IsTrue(d)
  BY <1>1 DEF InterchangeInv, ImportIsExact, Fields
<1>3. /\ db' = [db EXCEPT ![m].blockBySlot = Inter!SetBlocks(db[m].blockBySlot, d.signedBlocks)]
      /\ importing' = [importing EXCEPT !.entry = {d}, !.step = "records"]
      /\ UNCHANGED <<active, file, older>> /\ HistoryKept
  BY <1>1 DEF Inter!ImportBlocks, HistoryKept
<1>4. Inter!SetBlocks(db[m].blockBySlot, d.signedBlocks) = db[m].blockBySlot \union d.signedBlocks
  BY <1>2, SetBlocksAdds DEF InterchangeInv, DbHoldsKnown, IsTrue
<1>5. /\ DOMAIN db' = Machines
      /\ \A n \in Machines : n # m => db'[n] = db[n]
      /\ DOMAIN db'[m] = Repositories
      /\ db'[m].blockBySlot = db[m].blockBySlot \union d.signedBlocks
      /\ db'[m].byTarget = db[m].byTarget
      /\ db'[m].minSpan = db[m].minSpan
      /\ db'[m].maxSpan = db[m].maxSpan
  BY <1>3, <1>4 DEF InterchangeInv, DbHoldsKnown, Repositories
<1>6. DbGrows BY <1>2, <1>3, <1>5 DEF DbGrows, InterchangeInv, DbHoldsKnown, IsTrue
<1>7. /\ DOMAIN importing' = Fields
      /\ importing'.machine = m /\ importing'.data = importing.data /\ importing'.left = importing.left
      /\ importing'.entry = {d} /\ importing'.step = "records"
      /\ importing'.spans = importing.spans /\ importing'.half = importing.half
  BY <1>1, <1>2, <1>3 DEF Fields
<1>8. /\ active' \in {Inter!Nowhere, m}
      /\ \A e \in importing.data : IsTrue(e)'
      /\ \A e \in importing.data \ importing.left :
           HasBlocks(m, e.signedBlocks)' /\ HasAttestations(m, e.signedAttestations)'
  BY <1>1, <1>6, <1>7, ImportFrame DEF HasBlocks, HasAttestations
<1>9. HasBlocks(m, d.signedBlocks)' BY <1>5 DEF HasBlocks
<1>10. ImportIsExact'
  BY <1>2, <1>5, <1>7, <1>8, <1>9 DEF ImportIsExact, Fields, HasBlocks, HasAttestations
<1> QED BY <1>6, <1>10, DbGrowth

LEMMA ImportRecordsIsSafe ==
  ASSUME InterchangeConstants, InterchangeInv, importing # Inter!NoImport,
         NEW d \in importing.entry, Inter!ImportRecords(d)
  PROVE  InterchangeInv'
<1>1. PICK m \in Machines : m = importing.machine BY DEF InterchangeInv, ImportIsExact
<1>2. /\ DOMAIN importing = Fields /\ d \in importing.data
      /\ importing.entry = {d} /\ importing.entry \subseteq importing.left
      /\ importing.left \subseteq importing.data
      /\ IsTrue(d)
      /\ importing.step = "records" /\ HasBlocks(m, d.signedBlocks)
  BY <1>1 DEF InterchangeInv, ImportIsExact, Fields, Inter!ImportRecords
<1>3. /\ db' = [db EXCEPT ![m].byTarget = Inter!SetAttestations(db[m].byTarget, d.signedAttestations)]
      /\ importing' = [importing EXCEPT !.step = "spans", !.spans = d.signedAttestations, !.half = {}]
      /\ UNCHANGED <<active, file, older>> /\ HistoryKept
  BY <1>1 DEF Inter!ImportRecords, HistoryKept
<1>4. Inter!SetAttestations(db[m].byTarget, d.signedAttestations) = db[m].byTarget \union d.signedAttestations
  BY <1>2, SetAttestationsAdds DEF InterchangeInv, DbHoldsKnown, IsTrue
<1>5. /\ DOMAIN db' = Machines
      /\ \A n \in Machines : n # m => db'[n] = db[n]
      /\ DOMAIN db'[m] = Repositories
      /\ db'[m].blockBySlot = db[m].blockBySlot
      /\ db'[m].byTarget = db[m].byTarget \union d.signedAttestations
      /\ db'[m].minSpan = db[m].minSpan
      /\ db'[m].maxSpan = db[m].maxSpan
  BY <1>3, <1>4 DEF InterchangeInv, DbHoldsKnown, Repositories
<1>6. DbGrows BY <1>2, <1>3, <1>5 DEF DbGrows, InterchangeInv, DbHoldsKnown, IsTrue
<1>7. /\ DOMAIN importing' = Fields
      /\ importing'.machine = m /\ importing'.data = importing.data /\ importing'.left = importing.left
      /\ importing'.entry = {d} /\ importing'.step = "spans"
      /\ importing'.spans = d.signedAttestations /\ importing'.half = {}
  BY <1>1, <1>2, <1>3 DEF Fields
<1>8. /\ active' \in {Inter!Nowhere, m}
      /\ \A e \in importing.data : IsTrue(e)'
      /\ \A e \in importing.data \ importing.left :
           HasBlocks(m, e.signedBlocks)' /\ HasAttestations(m, e.signedAttestations)'
  BY <1>1, <1>6, <1>7, ImportFrame DEF HasBlocks, HasAttestations
<1>9. /\ HasBlocks(m, d.signedBlocks)' /\ d.signedAttestations \subseteq db'[m].byTarget
      /\ HasAttestations(m, d.signedAttestations \ d.signedAttestations)'
  BY <1>2, <1>5 DEF HasBlocks, HasAttestations
<1>10. ImportIsExact'
  BY <1>2, <1>5, <1>7, <1>8, <1>9 DEF ImportIsExact, Fields, HasBlocks, HasAttestations
<1> QED BY <1>6, <1>10, DbGrowth

LEMMA ImportSpanIsSafe ==
  ASSUME InterchangeConstants, InterchangeInv, importing # Inter!NoImport,
         NEW a \in importing.spans, Inter!ImportMinSpan(a) \/ Inter!ImportMaxSpan(a)
  PROVE  InterchangeInv'
<1>1. PICK m \in Machines : m = importing.machine BY DEF InterchangeInv, ImportIsExact
<1>2. /\ DOMAIN importing = Fields
      /\ importing.entry \subseteq importing.left /\ importing.left \subseteq importing.data
      /\ \A d, e \in importing.entry : d = e
      /\ importing.half \subseteq importing.spans /\ importing.half \subseteq db[m].minSpan
  BY <1>1 DEF InterchangeInv, ImportIsExact, Fields
<1>3. ASSUME NEW d \in importing.entry
      PROVE  /\ importing.step # "blocks" => HasBlocks(m, d.signedBlocks)
             /\ importing.step = "spans" =>
                  /\ d.signedAttestations \subseteq db[m].byTarget
                  /\ HasAttestations(m, d.signedAttestations \ importing.spans)
  BY <1>1 DEF InterchangeInv, ImportIsExact
<1>4. UNCHANGED <<active, file, older>> /\ HistoryKept
  BY DEF Inter!ImportMinSpan, Inter!ImportMaxSpan, HistoryKept
<1>5. CASE Inter!ImportMinSpan(a)
  <2>1. /\ db' = [db EXCEPT ![m].minSpan = db[m].minSpan \union {a}]
        /\ importing' = [importing EXCEPT !.half = {a}]
    BY <1>1, <1>5 DEF Inter!ImportMinSpan
  <2>2. /\ DOMAIN db' = Machines
        /\ \A n \in Machines : n # m => db'[n] = db[n]
        /\ DOMAIN db'[m] = Repositories
        /\ db'[m].blockBySlot = db[m].blockBySlot
        /\ db'[m].byTarget = db[m].byTarget
        /\ db'[m].minSpan = db[m].minSpan \union {a}
        /\ db'[m].maxSpan = db[m].maxSpan
    BY <2>1 DEF InterchangeInv, DbHoldsKnown, Repositories
  <2>3. DbGrows BY <1>4, <2>2 DEF DbGrows, InterchangeInv, DbHoldsKnown
  <2>4. /\ DOMAIN importing' = Fields
        /\ importing'.machine = m /\ importing'.data = importing.data /\ importing'.left = importing.left
        /\ importing'.entry = importing.entry /\ importing'.step = importing.step
        /\ importing'.spans = importing.spans /\ importing'.half = {a}
    BY <1>1, <1>2, <2>1 DEF Fields
  <2>5. /\ active' \in {Inter!Nowhere, m}
        /\ \A e \in importing.data : IsTrue(e)'
        /\ \A e \in importing.data \ importing.left :
             HasBlocks(m, e.signedBlocks)' /\ HasAttestations(m, e.signedAttestations)'
    BY <1>1, <2>3, <2>4, ImportFrame DEF HasBlocks, HasAttestations
  <2>6. \A d \in importing.entry :
          /\ importing.step # "blocks" => HasBlocks(m, d.signedBlocks)'
          /\ importing.step = "spans" =>
               /\ d.signedAttestations \subseteq db'[m].byTarget
               /\ HasAttestations(m, d.signedAttestations \ importing.spans)'
    BY <1>3, <2>2, <2>4 DEF HasBlocks, HasAttestations
  <2>7. ImportIsExact'
    BY <1>2, <2>2, <2>4, <2>5, <2>6 DEF ImportIsExact, Fields, HasBlocks, HasAttestations
  <2> QED BY <2>3, <2>7, DbGrowth
<1>6. CASE Inter!ImportMaxSpan(a)
  <2>1. /\ db' = [db EXCEPT ![m].maxSpan = db[m].maxSpan \union {a}]
        /\ importing' = [importing EXCEPT !.half = {}, !.spans = importing.spans \ {a}]
        /\ a \in db[m].minSpan
    BY <1>1, <1>2, <1>6 DEF Inter!ImportMaxSpan
  <2>2. /\ DOMAIN db' = Machines
        /\ \A n \in Machines : n # m => db'[n] = db[n]
        /\ DOMAIN db'[m] = Repositories
        /\ db'[m].blockBySlot = db[m].blockBySlot
        /\ db'[m].byTarget = db[m].byTarget
        /\ db'[m].minSpan = db[m].minSpan
        /\ db'[m].maxSpan = db[m].maxSpan \union {a}
    BY <2>1 DEF InterchangeInv, DbHoldsKnown, Repositories
  <2>3. DbGrows BY <1>4, <2>2 DEF DbGrows, InterchangeInv, DbHoldsKnown
  <2>4. /\ DOMAIN importing' = Fields
        /\ importing'.machine = m /\ importing'.data = importing.data /\ importing'.left = importing.left
        /\ importing'.entry = importing.entry /\ importing'.step = importing.step
        /\ importing'.spans = importing.spans \ {a} /\ importing'.half = {}
    BY <1>1, <1>2, <2>1 DEF Fields
  <2>5. /\ active' \in {Inter!Nowhere, m}
        /\ \A e \in importing.data : IsTrue(e)'
        /\ \A e \in importing.data \ importing.left :
             HasBlocks(m, e.signedBlocks)' /\ HasAttestations(m, e.signedAttestations)'
    BY <1>1, <2>3, <2>4, ImportFrame DEF HasBlocks, HasAttestations
  <2>6. ASSUME NEW d \in importing.entry
        PROVE  /\ importing.step # "blocks" => d.signedBlocks \subseteq db'[m].blockBySlot
               /\ importing.step = "spans" =>
                    /\ d.signedAttestations \subseteq db'[m].byTarget
                    /\ d.signedAttestations \ (importing.spans \ {a}) \subseteq db'[m].byTarget
                    /\ d.signedAttestations \ (importing.spans \ {a}) \subseteq db'[m].minSpan
                    /\ d.signedAttestations \ (importing.spans \ {a}) \subseteq db'[m].maxSpan
    BY <1>3, <2>1, <2>2 DEF HasBlocks, HasAttestations
  <2>7. ImportIsExact'
    BY <1>2, <2>2, <2>4, <2>5, <2>6 DEF ImportIsExact, Fields, HasBlocks, HasAttestations
  <2> QED BY <2>3, <2>7, DbGrowth
<1> QED BY <1>5, <1>6

LEMMA ImportLowerBoundIsSafe ==
  ASSUME InterchangeConstants, InterchangeInv, importing # Inter!NoImport,
         NEW d \in importing.entry, Inter!ImportLowerBound(d)
  PROVE  InterchangeInv'
<1>1. PICK m \in Machines : m = importing.machine BY DEF InterchangeInv, ImportIsExact
<1>2. /\ DOMAIN importing = Fields /\ importing.step = "spans" /\ importing.spans = {}
      /\ importing.entry \subseteq importing.left /\ importing.left \subseteq importing.data
      /\ importing.half = {}
      /\ HasBlocks(m, d.signedBlocks) /\ HasAttestations(m, d.signedAttestations \ importing.spans)
  BY <1>1 DEF InterchangeInv, ImportIsExact, Fields, Inter!ImportLowerBound
<1>3. PICK bounds : db' = [db EXCEPT ![m].lowerBound = bounds]
  <2>1. \E bound : db' = [db EXCEPT ![m].lowerBound[d.key] = bound]
    BY <1>1 DEF Inter!ImportLowerBound
  <2>2. PICK bound : db' = [db EXCEPT ![m].lowerBound[d.key] = bound] BY <2>1
  <2>3. db' = [db EXCEPT ![m].lowerBound = [db[m].lowerBound EXCEPT ![d.key] = bound]] BY <2>2
  <2> QED BY <2>3
<1>4. /\ importing' = [importing EXCEPT !.entry = {}, !.step = "blocks", !.left = importing.left \ {d}]
      /\ UNCHANGED <<active, file, older>> /\ HistoryKept
  BY DEF Inter!ImportLowerBound, HistoryKept
<1>5. /\ DOMAIN db' = Machines
      /\ \A n \in Machines : n # m => db'[n] = db[n]
      /\ DOMAIN db'[m] = Repositories
      /\ db'[m].blockBySlot = db[m].blockBySlot
      /\ db'[m].byTarget = db[m].byTarget
      /\ db'[m].minSpan = db[m].minSpan
      /\ db'[m].maxSpan = db[m].maxSpan
  BY <1>3 DEF InterchangeInv, DbHoldsKnown, Repositories
<1>6. DbGrows BY <1>4, <1>5 DEF DbGrows, InterchangeInv, DbHoldsKnown
<1>7. /\ DOMAIN importing' = Fields
      /\ importing'.machine = m /\ importing'.data = importing.data /\ importing'.left = importing.left \ {d}
      /\ importing'.entry = {} /\ importing'.step = "blocks"
      /\ importing'.spans = importing.spans /\ importing'.half = {}
  BY <1>1, <1>2, <1>4 DEF Fields
<1>8. /\ active' \in {Inter!Nowhere, m}
      /\ \A e \in importing.data : IsTrue(e)'
      /\ \A e \in importing.data \ importing.left :
           HasBlocks(m, e.signedBlocks)' /\ HasAttestations(m, e.signedAttestations)'
  BY <1>1, <1>6, <1>7, ImportFrame DEF HasBlocks, HasAttestations
<1>9. HasBlocks(m, d.signedBlocks)' /\ HasAttestations(m, d.signedAttestations)'
  BY <1>2, <1>5 DEF HasBlocks, HasAttestations
<1>10. \A e \in importing'.data \ importing'.left :
         HasBlocks(m, e.signedBlocks)' /\ HasAttestations(m, e.signedAttestations)'
  BY <1>7, <1>8, <1>9
<1>11. ImportIsExact'
  BY <1>2, <1>5, <1>7, <1>8, <1>10 DEF ImportIsExact, Fields, HasBlocks, HasAttestations
<1> QED BY <1>6, <1>11, DbGrowth

\* The machine that has imported the last file knows all that was signed.
LEMMA ImportDoneIsSafe ==
  ASSUME InterchangeConstants, InterchangeInv, importing # Inter!NoImport, Inter!ImportDone
  PROVE  InterchangeInv'
<1>1. PICK m \in Machines : m = importing.machine BY DEF InterchangeInv, ImportIsExact
<1>2. /\ importing.left = {} /\ importing' = Inter!NoImport /\ UNCHANGED <<db, file, older>> /\ HistoryKept
      /\ active' = IF importing.data = Inter!ParsedData(file.data) THEN m ELSE active
  BY <1>1 DEF Inter!ImportDone, HistoryKept
<1>3. CASE active' = active BY <1>2, <1>3, ImportEnds
<1>4. CASE active' # active
  <2>1. active = Inter!Nowhere /\ active' = m /\ importing.data = Inter!ParsedData(file.data)
    BY <1>1, <1>2, <1>4 DEF InterchangeInv, ImportIsExact
  <2>2. \A d \in importing.data :
          /\ d \in Entries
          /\ HasBlocks(m, d.signedBlocks) /\ HasAttestations(m, d.signedAttestations)
    BY <1>1, <1>2 DEF InterchangeInv, ImportIsExact, IsTrue
  <2>3. BlocksKnown \union RecordsKnown \subseteq Messages(importing.data)
    BY <2>1 DEF InterchangeInv, FileSaysAll, InterchangeConstants, MachinesAssumption
  <2>4. BlocksKnown \subseteq BlockMessages /\ RecordsKnown \subseteq AttMessages
    BY DEF InterchangeInv, SignedIsTyped, BlocksKnown, RecordsKnown
  <2>5. HasBlocks(m, BlocksKnown) /\ HasAttestations(m, RecordsKnown)
    BY <2>2, <2>3, <2>4, BlocksAreNotAttestations DEF Messages, Entries, HasBlocks, HasAttestations
  <2>6. /\ BlocksKnown' = BlocksKnown /\ RecordsKnown' = RecordsKnown
        /\ SignedIsTyped' /\ OneRecord' /\ SignedHasRecord' /\ NoSurroundShown'
        /\ \A d : IsTrue(d)' = IsTrue(d)
    BY <1>2, HistoryStays
  <2>7. ActiveKnowsAll' BY <1>2, <2>1, <2>5, <2>6 DEF ActiveKnowsAll, HasBlocks, HasAttestations
  <2>8. DbHoldsKnown' BY <1>2, <2>6 DEF InterchangeInv, DbHoldsKnown
  <2>9. FilesAreTrue' BY <1>2, <2>6 DEF InterchangeInv, FilesAreTrue
  <2>10. FileSaysAll' /\ ImportIsExact' BY <1>2, <2>1 DEF FileSaysAll, ImportIsExact
  <2> QED BY <2>6, <2>7, <2>8, <2>9, <2>10 DEF InterchangeInv
<1> QED BY <1>3, <1>4

LEMMA InterchangeNext ==
  ASSUME InterchangeConstants, InterchangeInv, [Inter!Next]_Inter!vars
  PROVE  InterchangeInv'
<1>1. CASE UNCHANGED Inter!vars
  <2>1. UNCHANGED <<db, active, file, older, importing, past, everSigned, shown>>
    BY <1>1 DEF Inter!vars
  <2>2. DbGrows BY <2>1 DEF DbGrows, HistoryKept, InterchangeInv, DbHoldsKnown
  <2>3. \A d : IsTrue(d)' = IsTrue(d) BY <2>2, HistoryStays DEF DbGrows
  <2>4. ImportIsExact' BY <2>1, <2>3 DEF InterchangeInv, ImportIsExact, HasBlocks, HasAttestations
  <2> QED BY <2>2, <2>4, DbGrowth
<1>2. ASSUME importing # Inter!NoImport, Inter!ImportCut \/ \E a \in importing.spans : Inter!ImportRefused(a)
      PROVE  InterchangeInv'
  BY <1>2, ImportEnds DEF Inter!ImportCut, Inter!ImportRefused, HistoryKept
<1>3. CASE Inter!ImportStep
  BY <1>2, <1>3, ImportBlocksIsSafe, ImportRecordsIsSafe, ImportSpanIsSafe, ImportLowerBoundIsSafe,
     ImportDoneIsSafe
     DEF Inter!ImportStep
<1> QED BY <1>1, <1>3, BlockIsSafe, AttestationIsSafe, ExportIsSafe, ImportStarts DEF Inter!Next

\* The invariant gives the property: a second message for a slot or a target would have
\* the record of the first, and its signing root.
LEMMA KnownIsSafe ==
  ASSUME InterchangeConstants, InterchangeInv
  PROVE  Inter!MovedKeysStaySafe
<1> USE DEF InterchangeConstants
<1>1. ASSUME NEW x \in everSigned, NEW y \in everSigned \union past, Inter!Doubled(x, y)
      PROVE  FALSE
  <2>1. x \in BlockMessages \union AttMessages /\ y \in BlockMessages \union AttMessages
    BY DEF InterchangeInv, SignedIsTyped, MessagesAssumption
  <2>2. CASE x \in BlockMessages
    <3>1. y \in BlockMessages BY <1>1, <2>1, <2>2, BlocksAreNotAttestations DEF Inter!Doubled
    <3>2. x.key = y.key /\ x.slot = y.slot /\ x.root # y.root
      BY <1>1, <2>2, BlocksAreNotAttestations DEF Inter!Doubled
    <3>3. x \in BlocksKnown /\ y \in BlocksKnown BY <2>2, <3>1 DEF BlocksKnown
    <3> QED BY <3>2, <3>3 DEF InterchangeInv, OneRecord
  <2>3. CASE x \in AttMessages
    <3>1. y \in AttMessages BY <1>1, <2>1, <2>3, BlocksAreNotAttestations DEF Inter!Doubled
    <3>2. x.key = y.key /\ x.target = y.target /\ x # y
      BY <1>1, <2>3, BlocksAreNotAttestations DEF Inter!Doubled
    <3>3. PICK c \in RecordsKnown : c.key = x.key /\ c.target = x.target /\ c.root = x.root
      BY <2>3 DEF InterchangeInv, SignedHasRecord
    <3>4. PICK e \in RecordsKnown : e.key = y.key /\ e.target = y.target /\ e.root = y.root
      BY <3>1 DEF InterchangeInv, SignedHasRecord, RecordsKnown
    <3>5. x.root = y.root BY <3>2, <3>3, <3>4 DEF InterchangeInv, OneRecord
    <3>6. x \in AttRequests
      BY <2>3, BlocksAreNotAttestations DEF InterchangeInv, SignedIsTyped, MessagesAssumption
    <3>7. y \in AllMessages
      BY DEF InterchangeInv, SignedIsTyped, AllMessages
    <3> QED BY <3>1, <3>2, <3>5, <3>6, <3>7 DEF MessagesAssumption
  <2> QED BY <2>1, <2>2, <2>3
<1>2. {x \in past : ~Inter!IsBlock(x)} = past \intersect AttMessages
  BY BlocksAreNotAttestations DEF InterchangeInv, SignedIsTyped
<1> QED BY <1>1, <1>2 DEF Inter!MovedKeysStaySafe, InterchangeInv, NoSurroundShown, RecordsKnown

\* Wherever keys are moved, however often, whichever files are imported, again or late,
\* and wherever an import is cut short or refused, the machines together never sign two
\* blocks for a slot or two attestations for a target epoch, and their services record no
\* attestation that surrounds another's (exportInterchange, importInterchange and the
\* checks of SlashingProtectionBlockService and SlashingProtectionAttestationService).
THEOREM MovedKeysNeverDoubleSign ==
  ASSUME InterchangeConstants
  PROVE  MCSpec => []MovedKeysStaySafe
<1> DEFINE I == part = "interchange" => InterchangeInv
<1>1. MCInit => I BY InterchangeInit DEF MCInit
<1>2. I /\ [MCNext]_allVars => I'
  <2> SUFFICES ASSUME I, [MCNext]_allVars, part' = "interchange" PROVE InterchangeInv' OBVIOUS
  <2>1. part = "interchange" BY DEF MCNext, allVars
  <2>2. CASE UNCHANGED allVars
    <3>1. UNCHANGED Inter!vars BY <2>2 DEF allVars, registers, Inter!vars
    <3> QED BY <2>1, <3>1, InterchangeNext
  <2>3. CASE MCNext
    <3>1. Inter!Next BY <2>1, <2>3 DEF MCNext
    <3> QED BY <2>1, <3>1, InterchangeNext
  <2> QED BY <2>2, <2>3
<1>3. I => MovedKeysStaySafe BY KnownIsSafe DEF MovedKeysStaySafe
<1> QED BY <1>1, <1>2, <1>3, PTL DEF MCSpec

-----------------------------------------------------------------------------
(***************************************************************************)
(* The tasks of a slot and the duties services.  Each has its own state.    *)
(***************************************************************************)

now == r1
fork == r2
reorgs == r3
proposers == r4
attDuties == r5
head == r6
task == r7
producing == r8
notified == r9
answered == r10
attested == r11

epoch == r1
nodeFork == r2
nodeReorgs == r3
onChain == r4
indices == r5
poll == r6
dutiesOfKey == r7
syncDuties == r8
service == r9
lastAnswer == r10
failures == r11

USE DEF now, fork, reorgs, proposers, attDuties, head, task, producing, notified, answered, attested,
        epoch, nodeFork, nodeReorgs, onChain, indices, poll, dutiesOfKey, syncDuties, service,
        lastAnswer, failures

\* Epochs have slots, and no chain is named like a missing answer.
TaskConstants ==
  /\ SLOTS_PER_EPOCH \in Nat \ {0} /\ LastSlot \in Nat
  /\ NoRoot \notin Forks

\* Slots map to epochs that are kept.
LEMMA EpochOfSlot ==
  ASSUME TaskConstants, NEW slot \in Tasks!Slots
  PROVE  Tasks!ComputeEpochAtSlot(slot) \in Tasks!Epochs
<1> DEFINE n == SLOTS_PER_EPOCH
           p == slot \div n
           q == LastSlot \div n
<1>1. n \in Nat /\ n > 0 /\ slot \in Nat /\ slot <= LastSlot /\ LastSlot \in Nat
  BY DEF TaskConstants, Tasks!Slots
<1>2. p \in Nat /\ q \in Nat /\ n * p <= slot /\ LastSlot < n * q + n
  BY <1>1
<1> HIDE DEF n, p, q
<1>3. p <= q
  <2> SUFFICES ASSUME p > q PROVE FALSE BY <1>2
  <2>1. p >= q + 1 BY <1>2
  <2>2. n * p >= n * (q + 1) BY <1>1, <1>2, <2>1
  <2>3. n * (q + 1) = n * q + n BY <1>1, <1>2
  <2>4. n * p \in Nat /\ n * q \in Nat BY <1>1, <1>2
  <2> QED BY <1>1, <1>2, <2>2, <2>3, <2>4
<1> QED BY <1>2, <1>3 DEF n, p, q, Tasks!ComputeEpochAtSlot, Tasks!Epochs

TaskOK ==
  /\ now \in Nat
  /\ fork \in Forks
  /\ DOMAIN task = Tasks!Tasks
  /\ \A t \in Tasks!Tasks :
       /\ DOMAIN task[t] = {"pc", "slot", "wake", "duties"}
       /\ task[t].slot \in Tasks!Slots
       /\ task[t].wake \in Int
  /\ DOMAIN notified = Tasks!Slots
  /\ DOMAIN proposers = Tasks!Epochs
  /\ \A e \in Tasks!Epochs : proposers[e] \in Forks \union {NoRoot}
  /\ answered.root # NoRoot => answered.root \in Forks /\ answered.slot \in Tasks!Slots

\* The attestation task stands before, in or after the last slot attested for.
AttestedBefore ==
  LET t == task["attestation"]
  IN  /\ attested \in Seq(Tasks!Slots)
      /\ t.pc \in {"run", "third"} => \A i \in DOMAIN attested : attested[i] < t.slot
      /\ t.pc = "twoThirds" => \A i \in DOMAIN attested : attested[i] <= t.slot
      /\ t.pc = "sleep" =>
           /\ t.wake % Tasks!Ticks = 0
           /\ \A i \in DOMAIN attested : Tasks!Ticks * attested[i] < t.wake

\* The proposers the block task was told of first stay told; the duties kept for
\* the epoch of the last answer are that answer.
PollingIsExact ==
  /\ task["block"].pc = "poll" => task["block"].duties \subseteq notified[task["block"].slot]
  /\ answered.root # NoRoot => proposers[Tasks!ComputeEpochAtSlot(answered.slot)] = answered.root

TaskInv ==
  /\ TaskOK
  /\ AttestedBefore
  /\ PollingIsExact
  /\ Tasks!AttestsEachSlotOnce
  /\ Tasks!NoProposalMissed

LEMMA TaskInit ==
  ASSUME TaskConstants, Tasks!Init
  PROVE  TaskInv
<1> USE DEF Tasks!Init
<1>1. TaskOK BY DEF TaskOK, TaskConstants, Tasks!Slots
<1>2. attested = <<>> /\ DOMAIN attested = {} OBVIOUS
<1>3. AttestedBefore
  <2>1. task["attestation"].pc \in {"run", "off"} BY DEF Tasks!Tasks
  <2> QED BY <1>2, <2>1 DEF AttestedBefore
<1>4. PollingIsExact BY DEF PollingIsExact, Tasks!Tasks
<1>5. Tasks!AttestsEachSlotOnce /\ Tasks!NoProposalMissed
  BY <1>2 DEF Tasks!AttestsEachSlotOnce, Tasks!NoProposalMissed
<1> QED BY <1>1, <1>3, <1>4, <1>5 DEF TaskInv

\* A step of another task leaves what is attested and the attestation task alone.
LEMMA AttestationFrame ==
  ASSUME TaskInv, attested' = attested, task'["attestation"] = task["attestation"]
  PROVE  AttestedBefore' /\ Tasks!AttestsEachSlotOnce'
BY DEF TaskInv, AttestedBefore, Tasks!AttestsEachSlotOnce

LEMMA BlockFrame ==
  ASSUME TaskInv, UNCHANGED <<proposers, notified, answered>>, task'["block"] = task["block"]
  PROVE  PollingIsExact' /\ Tasks!NoProposalMissed'
BY DEF TaskInv, PollingIsExact, Tasks!NoProposalMissed, Tasks!ComputeEpochAtSlot

\* The time until which a loop sleeps is the start of the next slot.
LEMMA NextSlotStarts ==
  ASSUME now \in Nat
  PROVE  /\ Tasks!TimeOfNext \in Nat /\ Tasks!TimeOfNext % Tasks!Ticks = 0
         /\ \A s \in Nat : Tasks!Ticks * s <= now => Tasks!Ticks * s < Tasks!TimeOfNext
BY DEF Tasks!TimeOfNext, Tasks!Ticks

LEMMA WakeKeeps ==
  ASSUME TaskConstants, TaskInv, NEW t \in Tasks!Tasks, Tasks!Wake(t)
  PROVE  TaskInv'
<1> DEFINE s == Tasks!GetCurrentSlotAround
<1>1. /\ task[t].pc = "sleep" /\ now >= task[t].wake - 1 /\ s \in Tasks!Slots
      /\ task' = [task EXCEPT ![t] = [task[t] EXCEPT !.pc = "run", !.slot = s]]
      /\ UNCHANGED <<now, fork, proposers, notified, answered, attested>>
  BY DEF Tasks!Wake, Tasks!At
<1>2. /\ DOMAIN task' = Tasks!Tasks
      /\ DOMAIN task[t] = {"pc", "slot", "wake", "duties"}
      /\ \A u \in Tasks!Tasks : u # t => task'[u] = task[u]
      /\ task'[t] = [task[t] EXCEPT !.pc = "run", !.slot = s]
  BY <1>1 DEF TaskInv, TaskOK
<1>3. /\ DOMAIN task'[t] = {"pc", "slot", "wake", "duties"}
      /\ task'[t].pc = "run" /\ task'[t].slot = s
      /\ task'[t].wake = task[t].wake /\ task'[t].duties = task[t].duties
  BY <1>2
<1>4. TaskOK' BY <1>1, <1>2, <1>3 DEF TaskInv, TaskOK
<1>5. PollingIsExact' /\ Tasks!NoProposalMissed'
  <2>1. CASE t # "block" BY <1>1, <1>2, <2>1, BlockFrame DEF Tasks!Tasks
  <2>2. CASE t = "block"
    BY <1>1, <1>3, <2>2
       DEF TaskInv, PollingIsExact, Tasks!NoProposalMissed, Tasks!ComputeEpochAtSlot
  <2> QED BY <2>1, <2>2
<1>6. AttestedBefore' /\ Tasks!AttestsEachSlotOnce'
  <2>1. CASE t # "attestation" BY <1>1, <1>2, <2>1, AttestationFrame DEF Tasks!Tasks
  <2>2. CASE t = "attestation"
    <3>1. /\ task[t].wake % Tasks!Ticks = 0 /\ attested \in Seq(Tasks!Slots)
          /\ \A i \in DOMAIN attested : Tasks!Ticks * attested[i] < task[t].wake
      BY <1>1, <2>2 DEF TaskInv, AttestedBefore
    <3>2. ASSUME NEW i \in DOMAIN attested PROVE attested[i] < s
      <4>1. attested[i] \in Nat /\ now \in Nat /\ task[t].wake \in Int
        <5>1. attested[i] \in Tasks!Slots BY <3>1
        <5> QED BY <5>1, <1>1 DEF TaskInv, TaskOK, Tasks!Slots
      <4>2. 4 * attested[i] < task[t].wake /\ task[t].wake % 4 = 0
        BY <3>1 DEF Tasks!Ticks
      <4>3. s = (now + 2) \div 4 BY DEF Tasks!GetCurrentSlotAround, Tasks!Ticks
      <4> QED BY <1>1, <4>1, <4>2, <4>3
    <3>3. AttestedBefore' BY <1>1, <1>3, <2>2, <3>1, <3>2 DEF AttestedBefore
    <3>4. Tasks!AttestsEachSlotOnce' BY <1>1 DEF TaskInv, Tasks!AttestsEachSlotOnce
    <3> QED BY <3>3, <3>4
  <2> QED BY <2>1, <2>2
<1> QED BY <1>4, <1>5, <1>6 DEF TaskInv

\* A proposer that the duties kept for a slot name is among those to notify.
LEMMA ProposerIsNotified ==
  ASSUME TaskConstants, NEW ps, NEW slot, NEW root \in Forks,
         ps[Tasks!ComputeEpochAtSlot(slot)] = root
  PROVE  Proposer[root][slot] \in Tasks!GetBlockProposersAtSlot(ps, slot) \union {NoKey}
BY DEF Tasks!GetBlockProposersAtSlot, TaskConstants

LEMMA BlockDutiesTaskKeeps ==
  ASSUME TaskConstants, TaskInv, Tasks!BlockDutiesTask
  PROVE  TaskInv'
<1> DEFINE t == task["block"]
           initial == Tasks!GetBlockProposersAtSlot(proposers, t.slot)
<1>1. /\ notified' = [notified EXCEPT ![t.slot] = initial]
      /\ task' = [task EXCEPT !["block"] = [t EXCEPT !.pc = "poll", !.wake = now, !.duties = initial]]
      /\ UNCHANGED <<now, fork, proposers, answered, attested>>
  BY DEF Tasks!BlockDutiesTask
<1>2. /\ t.slot \in Tasks!Slots /\ DOMAIN notified = Tasks!Slots /\ now \in Int
      /\ DOMAIN t = {"pc", "slot", "wake", "duties"} /\ DOMAIN task = Tasks!Tasks
      /\ "block" \in Tasks!Tasks
  BY DEF TaskInv, TaskOK, Tasks!Tasks
<1> HIDE DEF initial
<1>3. /\ DOMAIN task' = Tasks!Tasks
      /\ \A u \in Tasks!Tasks : u # "block" => task'[u] = task[u]
      /\ DOMAIN task'["block"] = {"pc", "slot", "wake", "duties"}
      /\ task'["block"].pc = "poll" /\ task'["block"].slot = t.slot
      /\ task'["block"].wake = now /\ task'["block"].duties = initial
  BY <1>1, <1>2
<1>4. TaskOK' BY <1>1, <1>2, <1>3 DEF TaskInv, TaskOK
<1>5. AttestedBefore' /\ Tasks!AttestsEachSlotOnce'
  BY <1>1, <1>3, AttestationFrame DEF Tasks!Tasks
<1>6. PollingIsExact'
  <2>1. notified'[t.slot] = initial BY <1>1, <1>2
  <2> QED BY <1>1, <1>3, <2>1 DEF TaskInv, PollingIsExact, Tasks!ComputeEpochAtSlot
<1>7. Tasks!NoProposalMissed'
  <2> SUFFICES ASSUME answered.root # NoRoot
               PROVE  Proposer[answered.root][answered.slot]
                        \in notified'[answered.slot] \union {NoKey}
    BY <1>1 DEF Tasks!NoProposalMissed
  <2>1. answered.root \in Forks /\ answered.slot \in Tasks!Slots BY DEF TaskInv, TaskOK
  <2>2. CASE answered.slot # t.slot
    BY <1>1, <1>2, <2>1, <2>2 DEF TaskInv, Tasks!NoProposalMissed
  <2>3. CASE answered.slot = t.slot
    <3>1. proposers[Tasks!ComputeEpochAtSlot(t.slot)] = answered.root
      BY <2>3 DEF TaskInv, PollingIsExact
    <3>2. Proposer[answered.root][t.slot] \in initial \union {NoKey}
      BY <2>1, <3>1, ProposerIsNotified DEF initial
    <3> QED BY <1>1, <1>2, <2>3, <3>2
  <2> QED BY <2>2, <2>3
<1> QED BY <1>4, <1>5, <1>6, <1>7 DEF TaskInv

\* A task that returns sleeps until the next slot, and keeps its slot.
LEMMA SleepKeeps ==
  ASSUME TaskInv, NEW t \in Tasks!Tasks, Tasks!Sleep(t)
  PROVE  /\ DOMAIN task' = Tasks!Tasks
         /\ \A u \in Tasks!Tasks : u # t => task'[u] = task[u]
         /\ DOMAIN task'[t] = {"pc", "slot", "wake", "duties"}
         /\ task'[t].pc = "sleep" /\ task'[t].slot = task[t].slot
         /\ task'[t].wake = Tasks!TimeOfNext
         /\ task'[t].duties = task[t].duties
BY DEF Tasks!Sleep, TaskInv, TaskOK

LEMMA PruneKeeps ==
  ASSUME TaskConstants, NEW ds, NEW slot \in Tasks!Slots,
         \A e \in Tasks!Epochs : ds[e] \in Forks \union {NoRoot}
  PROVE  LET p == Tasks!PruneOldDuties(ds, Tasks!ComputeEpochAtSlot(slot))
         IN  /\ DOMAIN p = Tasks!Epochs
             /\ \A e \in Tasks!Epochs : p[e] \in Forks \union {NoRoot}
             /\ p[Tasks!ComputeEpochAtSlot(slot)] = ds[Tasks!ComputeEpochAtSlot(slot)]
<1>1. Tasks!ComputeEpochAtSlot(slot) \in Tasks!Epochs BY EpochOfSlot
<1>2. Tasks!Epochs \subseteq Nat BY DEF Tasks!Epochs
<1> DEFINE n == Tasks!ComputeEpochAtSlot(slot)
<1> HIDE DEF n
<1>3. Tasks!PruneOldDuties(ds, n)
        = [e \in Tasks!Epochs |-> IF e + 2 < n THEN NoRoot ELSE ds[e]]
  BY DEF Tasks!PruneOldDuties, Tasks!HISTORICAL_DUTIES_EPOCHS
<1>4. n \in Tasks!Epochs /\ ~(n + 2 < n)
  <2>1. n \in Tasks!Epochs BY <1>1 DEF n
  <2>2. n \in Nat BY <1>2, <2>1
  <2> QED BY <2>1, <2>2
<1>5. Tasks!PruneOldDuties(ds, n)[n] = ds[n] BY <1>3, <1>4
<1>6. DOMAIN Tasks!PruneOldDuties(ds, n) = Tasks!Epochs BY <1>3
<1>7. \A e \in Tasks!Epochs : Tasks!PruneOldDuties(ds, n)[e] \in Forks \union {NoRoot} BY <1>3
<1> QED BY <1>5, <1>6, <1>7 DEF n

LEMMA PollKeeps ==
  ASSUME TaskConstants, TaskInv, Tasks!PollBeaconProposers
  PROVE  TaskInv'
<1> DEFINE t == task["block"]
           e == Tasks!ComputeEpochAtSlot(t.slot)
           polled == [proposers EXCEPT ![e] = fork]
           named == Tasks!GetBlockProposersAtSlot(polled, t.slot)
<1>1. /\ t.pc = "poll" /\ Tasks!Sleep("block")
      /\ proposers' = Tasks!PruneOldDuties(polled, e)
      /\ notified' = [notified EXCEPT ![t.slot] = notified[t.slot] \union (named \ t.duties)]
      /\ answered' = [slot |-> t.slot, root |-> fork]
      /\ UNCHANGED <<now, fork, attested>>
  BY DEF Tasks!PollBeaconProposers, Tasks!At, Tasks!DifferenceHex
<1>2. /\ t.slot \in Tasks!Slots /\ DOMAIN notified = Tasks!Slots /\ now \in Nat
      /\ fork \in Forks /\ DOMAIN proposers = Tasks!Epochs
      /\ \A f \in Tasks!Epochs : proposers[f] \in Forks \union {NoRoot}
      /\ "block" \in Tasks!Tasks
      /\ t.duties \subseteq notified[t.slot]
  BY <1>1 DEF TaskInv, TaskOK, PollingIsExact, Tasks!Tasks
<1>3. e \in Tasks!Epochs BY <1>2, EpochOfSlot
<1>4. polled[e] = fork /\ \A f \in Tasks!Epochs : polled[f] \in Forks \union {NoRoot}
  BY <1>2, <1>3
<1>5. /\ DOMAIN proposers' = Tasks!Epochs /\ proposers'[e] = fork
      /\ \A f \in Tasks!Epochs : proposers'[f] \in Forks \union {NoRoot}
  <2> HIDE DEF polled
  <2> QED BY <1>1, <1>2, <1>4, PruneKeeps
<1>6. Proposer[fork][t.slot] \in named \union {NoKey}
  BY <1>2, <1>4, ProposerIsNotified
<1> HIDE DEF named, polled, e
<1>7. DOMAIN notified' = Tasks!Slots
      /\ notified'[t.slot] = notified[t.slot] \union (named \ t.duties)
  BY <1>1, <1>2
<1>8. Tasks!TimeOfNext \in Nat BY <1>2, NextSlotStarts
<1>9. TaskOK' BY <1>1, <1>2, <1>5, <1>7, <1>8, SleepKeeps DEF TaskInv, TaskOK
<1>10. AttestedBefore' /\ Tasks!AttestsEachSlotOnce'
  BY <1>1, <1>2, SleepKeeps, AttestationFrame DEF Tasks!Tasks
<1>11. answered'.slot = t.slot /\ answered'.root = fork /\ task'["block"].pc = "sleep"
  BY <1>1, <1>2, SleepKeeps
<1>12. PollingIsExact' BY <1>5, <1>11 DEF PollingIsExact, e, Tasks!ComputeEpochAtSlot
<1>13. Tasks!NoProposalMissed'
  BY <1>2, <1>6, <1>7, <1>11 DEF Tasks!NoProposalMissed
<1> QED BY <1>9, <1>10, <1>12, <1>13 DEF TaskInv

LEMMA PollFailsKeeps ==
  ASSUME TaskConstants, TaskInv, Tasks!PollBeaconProposersFails
  PROVE  TaskInv'
<1> DEFINE t == task["block"]
<1>1. /\ Tasks!Sleep("block") /\ "block" \in Tasks!Tasks
      /\ proposers' = Tasks!PruneOldDuties(proposers, Tasks!ComputeEpochAtSlot(t.slot))
      /\ answered' = [slot |-> 0, root |-> NoRoot]
      /\ UNCHANGED <<now, fork, notified, attested>>
  BY DEF Tasks!PollBeaconProposersFails, Tasks!Tasks
<1>2. /\ t.slot \in Tasks!Slots /\ now \in Nat
      /\ \A f \in Tasks!Epochs : proposers[f] \in Forks \union {NoRoot}
  BY <1>1 DEF TaskInv, TaskOK
<1>3. /\ DOMAIN proposers' = Tasks!Epochs
      /\ \A f \in Tasks!Epochs : proposers'[f] \in Forks \union {NoRoot}
  BY <1>1, <1>2, PruneKeeps
<1>4. Tasks!TimeOfNext \in Nat BY <1>2, NextSlotStarts
<1>5. TaskOK' BY <1>1, <1>2, <1>3, <1>4, SleepKeeps DEF TaskInv, TaskOK
<1>6. AttestedBefore' /\ Tasks!AttestsEachSlotOnce'
  BY <1>1, SleepKeeps, AttestationFrame DEF Tasks!Tasks
<1>7. PollingIsExact' /\ Tasks!NoProposalMissed'
  BY <1>1, SleepKeeps DEF PollingIsExact, Tasks!NoProposalMissed
<1> QED BY <1>5, <1>6, <1>7 DEF TaskInv

LEMMA RunAttestationKeeps ==
  ASSUME TaskConstants, TaskInv, Tasks!RunAttestationTasks
  PROVE  TaskInv'
<1> DEFINE t == task["attestation"]
           found == Tasks!GetDutiesAtSlot(t.slot)
<1>1. /\ t.pc = "run" /\ "attestation" \in Tasks!Tasks /\ "block" \in Tasks!Tasks
      /\ task' = [task EXCEPT !["attestation"] = [t EXCEPT !.pc = "third", !.duties = found]]
      /\ UNCHANGED <<now, fork, proposers, notified, answered, attested>>
  BY DEF Tasks!RunAttestationTasks, Tasks!Running, Tasks!Tasks
<1> HIDE DEF found
<1>2. /\ DOMAIN task' = Tasks!Tasks
      /\ \A u \in Tasks!Tasks : u # "attestation" => task'[u] = task[u]
      /\ DOMAIN task'["attestation"] = {"pc", "slot", "wake", "duties"}
      /\ task'["attestation"].pc = "third" /\ task'["attestation"].slot = t.slot
      /\ task'["attestation"].wake = t.wake
  BY <1>1 DEF TaskInv, TaskOK
<1>3. TaskOK' BY <1>1, <1>2 DEF TaskInv, TaskOK
<1>4. PollingIsExact' /\ Tasks!NoProposalMissed' BY <1>1, <1>2, BlockFrame
<1>5. AttestedBefore' /\ Tasks!AttestsEachSlotOnce'
  BY <1>1, <1>2 DEF TaskInv, AttestedBefore, Tasks!AttestsEachSlotOnce
<1> QED BY <1>3, <1>4, <1>5 DEF TaskInv

\* The attestation task returns in or after its slot: the loop sleeps past it.
LEMMA AttestationSleeps ==
  ASSUME TaskConstants, TaskInv, Tasks!Sleep("attestation"),
         task["attestation"].pc \in {"third", "twoThirds"},
         now >= Tasks!SlotThird(task["attestation"].slot, 1),
         UNCHANGED <<now, fork, proposers, notified, answered, attested>>
  PROVE  TaskInv'
<1> DEFINE t == task["attestation"]
<1>1. /\ "attestation" \in Tasks!Tasks /\ "block" \in Tasks!Tasks
      /\ now \in Nat /\ t.slot \in Tasks!Slots /\ t.slot \in Nat
  BY DEF TaskInv, TaskOK, Tasks!Tasks, Tasks!Slots
<1>2. 4 * t.slot <= now BY <1>1 DEF Tasks!SlotThird, Tasks!Ticks
<1>3. /\ DOMAIN task' = Tasks!Tasks
      /\ \A u \in Tasks!Tasks : u # "attestation" => task'[u] = task[u]
      /\ DOMAIN task'["attestation"] = {"pc", "slot", "wake", "duties"}
      /\ task'["attestation"].pc = "sleep" /\ task'["attestation"].slot = t.slot
      /\ task'["attestation"].wake = Tasks!TimeOfNext
  BY <1>1, SleepKeeps
<1>4. /\ Tasks!TimeOfNext \in Nat /\ Tasks!TimeOfNext % 4 = 0
      /\ \A s \in Nat : 4 * s <= now => 4 * s < Tasks!TimeOfNext
  BY <1>1, NextSlotStarts DEF Tasks!Ticks
<1>5. TaskOK' BY <1>1, <1>3, <1>4 DEF TaskInv, TaskOK
<1>6. PollingIsExact' /\ Tasks!NoProposalMissed' BY <1>1, <1>3, BlockFrame
<1>7. ASSUME NEW i \in DOMAIN attested PROVE 4 * attested[i] < Tasks!TimeOfNext
  <2>1. attested[i] \in Tasks!Slots /\ attested[i] <= t.slot
    <3>1. attested[i] \in Tasks!Slots BY DEF TaskInv, AttestedBefore
    <3>2. attested[i] < t.slot \/ attested[i] <= t.slot BY DEF TaskInv, AttestedBefore
    <3> QED BY <1>1, <3>1, <3>2 DEF Tasks!Slots
  <2>2. attested[i] \in Nat BY <2>1 DEF Tasks!Slots
  <2>3. 4 * attested[i] <= now BY <1>1, <1>2, <2>1, <2>2
  <2> QED BY <1>4, <2>2, <2>3
<1>8. AttestedBefore' BY <1>3, <1>4, <1>7 DEF TaskInv, AttestedBefore, Tasks!Ticks
<1>9. Tasks!AttestsEachSlotOnce' BY DEF TaskInv, Tasks!AttestsEachSlotOnce
<1> QED BY <1>5, <1>6, <1>8, <1>9 DEF TaskInv

LEMMA ProduceAttestationsKeeps ==
  ASSUME TaskConstants, TaskInv, NEW groups, Tasks!ProduceAndPublishAttestations(groups)
  PROVE  TaskInv'
<1> DEFINE t == task["attestation"]
<1>1. /\ t.pc = "third" /\ now >= Tasks!SlotThird(t.slot, 1)
      /\ "attestation" \in Tasks!Tasks /\ "block" \in Tasks!Tasks
      /\ UNCHANGED <<now, fork, proposers, notified, answered>>
  BY DEF Tasks!ProduceAndPublishAttestations, Tasks!At, Tasks!Tasks
<1>2. CASE groups = {}
  BY <1>1, <1>2, AttestationSleeps DEF Tasks!ProduceAndPublishAttestations
<1>3. CASE groups # {}
  <2>1. /\ attested' = Append(attested, t.slot)
        /\ task' = [task EXCEPT !["attestation"] = [t EXCEPT !.pc = "twoThirds", !.duties = groups]]
    BY <1>3 DEF Tasks!ProduceAndPublishAttestations
  <2>2. /\ DOMAIN task' = Tasks!Tasks
        /\ \A u \in Tasks!Tasks : u # "attestation" => task'[u] = task[u]
        /\ DOMAIN task'["attestation"] = {"pc", "slot", "wake", "duties"}
        /\ task'["attestation"].pc = "twoThirds" /\ task'["attestation"].slot = t.slot
        /\ task'["attestation"].wake = t.wake
    BY <1>1, <2>1 DEF TaskInv, TaskOK
  <2>3. TaskOK' BY <1>1, <2>2 DEF TaskInv, TaskOK
  <2>4. PollingIsExact' /\ Tasks!NoProposalMissed' BY <1>1, <2>2, BlockFrame
  <2>5. /\ attested \in Seq(Tasks!Slots) /\ t.slot \in Tasks!Slots
        /\ \A i \in DOMAIN attested : attested[i] < t.slot
    BY <1>1 DEF TaskInv, TaskOK, AttestedBefore
  <2>6. /\ attested' \in Seq(Tasks!Slots)
        /\ DOMAIN attested = 1..Len(attested) /\ DOMAIN attested' = 1..(Len(attested) + 1)
        /\ Len(attested) \in Nat
        /\ \A i \in 1..Len(attested) : attested'[i] = attested[i]
        /\ attested'[Len(attested) + 1] = t.slot
    BY <2>1, <2>5
  <2>7. Tasks!Slots \subseteq Nat BY DEF Tasks!Slots
  <2>8. \A i \in DOMAIN attested' : attested'[i] <= t.slot
    <3> SUFFICES ASSUME NEW i \in 1..(Len(attested) + 1) PROVE attested'[i] <= t.slot
      BY <2>6
    <3>1. t.slot \in Nat BY <2>5, <2>7
    <3>2. CASE i \in 1..Len(attested)
      <4>1. attested[i] \in Tasks!Slots BY <2>5, <3>2
      <4>2. attested[i] \in Nat BY <2>7, <4>1
      <4>3. attested[i] < t.slot BY <2>5, <2>6, <3>2
      <4> QED BY <2>6, <3>1, <3>2, <4>2, <4>3
    <3>3. CASE i = Len(attested) + 1 BY <2>6, <3>1, <3>3
    <3> QED BY <2>6, <3>2, <3>3
  <2>9. AttestedBefore' BY <2>2, <2>6, <2>8 DEF AttestedBefore
  <2>10. Tasks!AttestsEachSlotOnce'
    <3> SUFFICES ASSUME NEW i \in DOMAIN attested', NEW j \in DOMAIN attested', i < j
                 PROVE  attested'[i] < attested'[j]
      BY DEF Tasks!AttestsEachSlotOnce
    <3>1. i \in 1..Len(attested) BY <2>6
    <3>2. CASE j \in 1..Len(attested)
      BY <2>6, <3>1, <3>2 DEF TaskInv, Tasks!AttestsEachSlotOnce
    <3>3. CASE j = Len(attested) + 1 BY <2>5, <2>6, <3>1, <3>3
    <3> QED BY <2>6, <3>2, <3>3
  <2> QED BY <2>3, <2>4, <2>9, <2>10 DEF TaskInv
<1> QED BY <1>2, <1>3

LEMMA AggregatesKeeps ==
  ASSUME TaskConstants, TaskInv, Tasks!ProduceAndPublishAggregates
  PROVE  TaskInv'
<1>1. /\ task["attestation"].pc = "twoThirds" /\ Tasks!Sleep("attestation")
      /\ now >= Tasks!SlotThird(task["attestation"].slot, 2)
      /\ UNCHANGED <<now, fork, proposers, notified, answered, attested>>
  BY DEF Tasks!ProduceAndPublishAggregates, Tasks!At
<1>2. now \in Nat /\ task["attestation"].slot \in Nat
  BY DEF TaskInv, TaskOK, Tasks!Tasks, Tasks!Slots
<1>3. now >= Tasks!SlotThird(task["attestation"].slot, 1)
  BY <1>1, <1>2 DEF Tasks!SlotThird, Tasks!Ticks
<1> QED BY <1>1, <1>3, AttestationSleeps

\* The sync committee task shares nothing with the others but the time.
LEMMA SyncCommitteeKeeps ==
  ASSUME TaskConstants, TaskInv,
         \/ Tasks!RunSyncCommitteeTasks \/ Tasks!ProduceAndPublishSyncCommittees
         \/ Tasks!GetBlockRootFails \/ Tasks!ProduceAndPublishContributions
  PROVE  TaskInv'
<1> DEFINE u == "syncCommittee"
<1>1. /\ "attestation" \in Tasks!Tasks /\ "block" \in Tasks!Tasks /\ u \in Tasks!Tasks
      /\ UNCHANGED <<now, fork, proposers, notified, answered, attested>>
  BY DEF Tasks!RunSyncCommitteeTasks, Tasks!ProduceAndPublishSyncCommittees,
         Tasks!GetBlockRootFails, Tasks!ProduceAndPublishContributions, Tasks!Tasks
<1>2. \/ Tasks!Sleep(u)
      \/ task' = [task EXCEPT ![u] = [task[u] EXCEPT !.pc = "third"]]
      \/ \E root : task' = [task EXCEPT ![u] = [task[u] EXCEPT !.pc = "twoThirds", !.duties = {root}]]
  BY DEF Tasks!RunSyncCommitteeTasks, Tasks!ProduceAndPublishSyncCommittees,
         Tasks!GetBlockRootFails, Tasks!ProduceAndPublishContributions
<1>3. Tasks!TimeOfNext \in Nat BY NextSlotStarts DEF TaskInv, TaskOK
<1>4. /\ DOMAIN task' = Tasks!Tasks
      /\ \A v \in Tasks!Tasks : v # u => task'[v] = task[v]
      /\ DOMAIN task'[u] = {"pc", "slot", "wake", "duties"}
      /\ task'[u].slot = task[u].slot
      /\ task'[u].wake \in Int
  <2>1. DOMAIN task[u] = {"pc", "slot", "wake", "duties"} /\ task[u].wake \in Int
        /\ DOMAIN task = Tasks!Tasks
    BY <1>1 DEF TaskInv, TaskOK
  <2>2. CASE Tasks!Sleep(u) BY <1>1, <1>3, <2>2, SleepKeeps
  <2>3. CASE task' = [task EXCEPT ![u] = [task[u] EXCEPT !.pc = "third"]]
    BY <1>1, <2>1, <2>3
  <2>4. ASSUME NEW root,
               task' = [task EXCEPT ![u] = [task[u] EXCEPT !.pc = "twoThirds", !.duties = {root}]]
        PROVE  /\ DOMAIN task' = Tasks!Tasks
               /\ \A v \in Tasks!Tasks : v # u => task'[v] = task[v]
               /\ DOMAIN task'[u] = {"pc", "slot", "wake", "duties"}
               /\ task'[u].slot = task[u].slot
               /\ task'[u].wake \in Int
    BY <1>1, <2>1, <2>4
  <2> QED BY <1>2, <2>2, <2>3, <2>4
<1>5. TaskOK' BY <1>1, <1>4 DEF TaskInv, TaskOK
<1>6. AttestedBefore' /\ Tasks!AttestsEachSlotOnce' BY <1>1, <1>4, AttestationFrame
<1>7. PollingIsExact' /\ Tasks!NoProposalMissed' BY <1>1, <1>4, BlockFrame
<1> QED BY <1>5, <1>6, <1>7 DEF TaskInv

LEMMA TaskNext ==
  ASSUME TaskConstants, TaskInv, [Tasks!Next]_Tasks!vars
  PROVE  TaskInv'
<1>1. ASSUME task' = task, UNCHANGED <<proposers, notified, answered, attested>>,
             now' \in Nat, fork' \in Forks
      PROVE  TaskInv'
  <2>1. TaskOK' BY <1>1 DEF TaskInv, TaskOK
  <2> QED BY <1>1, <2>1, AttestationFrame, BlockFrame DEF TaskInv
<1>2. now \in Nat /\ fork \in Forks BY DEF TaskInv, TaskOK
<1>3. ASSUME NEW slot \in Tasks!Slots, NEW k \in Validators, Tasks!CreateAndPublishBlock(slot, k)
      PROVE  TaskInv'
  BY <1>1, <1>2, <1>3 DEF Tasks!CreateAndPublishBlock
<1>4. ASSUME NEW slot \in Tasks!Slots, Tasks!OnHeadUpdate(slot) PROVE TaskInv'
  BY <1>1, <1>2, <1>4 DEF Tasks!OnHeadUpdate
<1>5. ASSUME NEW k \in Validators, NEW e \in Tasks!Epochs, Tasks!PollAttesters(k, e) PROVE TaskInv'
  BY <1>1, <1>2, <1>5 DEF Tasks!PollAttesters
<1>6. CASE Tasks!Tick BY <1>1, <1>2, <1>6 DEF Tasks!Tick
<1>7. CASE Tasks!Reorg BY <1>1, <1>2, <1>7 DEF Tasks!Reorg
<1>8. CASE UNCHANGED Tasks!vars BY <1>1, <1>2, <1>8 DEF Tasks!vars
<1> QED
  BY <1>3, <1>4, <1>5, <1>6, <1>7, <1>8, WakeKeeps, BlockDutiesTaskKeeps, PollKeeps,
     PollFailsKeeps, RunAttestationKeeps, ProduceAttestationsKeeps, AggregatesKeeps,
     SyncCommitteeKeeps DEF Tasks!Next

-----------------------------------------------------------------------------
(***************************************************************************)
(* The duties services.                                                     *)
(***************************************************************************)

DutyConstants ==
  /\ EPOCHS_PER_SYNC_COMMITTEE_PERIOD \in Nat \ {0} /\ MaxEpoch \in Nat
  /\ NoRoot \notin Forks

BranchStates == [pc : {"done", "indices", "current", "next", "subscribe"}, keys : SUBSET Validators]

ServiceStates ==
  [on : BOOLEAN, epoch : -1..MaxEpoch, failed : BOOLEAN, expected : SUBSET Validators,
   branch : [Duties!Branches -> BranchStates]]

DutyTypes ==
  /\ epoch \in 0..MaxEpoch
  /\ nodeFork \in Forks
  /\ indices \subseteq Validators
  /\ poll \in [on : BOOLEAN, left : SUBSET Validators, found : SUBSET Validators]
  /\ dutiesOfKey \in [Validators -> [Duties!Epochs -> Forks \union {NoRoot}]]
  /\ lastAnswer \in [Validators -> [Duties!Epochs -> Forks \union {NoRoot}]]
  /\ syncDuties \in [Duties!Periods -> [Validators -> Forks \union {NoRoot}]]
  /\ service \in [Duties!Services -> ServiceStates]

\* A branch asks only for keys whose index is known, and only once its task has an epoch.
BranchesAreKnown ==
  /\ poll.found \subseteq indices
  /\ \A svc \in Duties!Services :
       /\ service[svc].on => service[svc].epoch >= 0
       /\ \A b \in Duties!Branches :
            /\ service[svc].branch[b].keys \subseteq indices
            /\ service[svc].branch[b].pc # "done" => service[svc].epoch >= 0

\* The attester duties of a key are there, or a branch is still to ask for them.
AttesterCovered(k, ahead) ==
  LET t == service["attester"]
  IN  \/ dutiesOfKey[k][t.epoch + ahead] # NoRoot
      \/ \E b \in Duties!Branches :
           /\ k \in t.branch[b].keys
           /\ t.branch[b].pc = "current" \/ (t.branch[b].pc = "next" /\ ahead = 1)

SyncCovered(k) ==
  LET t == service["syncCommittee"]
      period == Duties!ComputeSyncPeriodAtEpoch(t.epoch)
  IN  \/ \E f \in Forks : k \notin Member[f][period]
      \/ syncDuties[period][k] # NoRoot
      \/ \E b \in Duties!Branches : k \in t.branch[b].keys /\ t.branch[b].pc = "current"

\* While a task waits for the shared promise, a key with an index is covered or
\* among those the promise will hand over; afterwards the expected keys are covered.
AttesterServed ==
  LET t == service["attester"]
  IN  t.on /\ ~t.failed =>
        /\ Duties!Waiting("attester") =>
             /\ poll.on
             /\ \A k \in indices, a \in {0, 1} : AttesterCovered(k, a) \/ k \in poll.found
        /\ ~Duties!Waiting("attester") => \A k \in t.expected, a \in {0, 1} : AttesterCovered(k, a)

SyncServed ==
  LET t == service["syncCommittee"]
  IN  t.on /\ ~t.failed =>
        /\ Duties!Waiting("syncCommittee") =>
             /\ poll.on
             /\ \A k \in indices : SyncCovered(k) \/ k \in poll.found
        /\ ~Duties!Waiting("syncCommittee") => \A k \in t.expected : SyncCovered(k)

DutyInv ==
  /\ DutyTypes
  /\ BranchesAreKnown
  /\ Duties!DutiesAreLatestAnswer
  /\ AttesterServed
  /\ SyncServed

LEMMA DutyInit ==
  ASSUME DutyConstants, Duties!Init
  PROVE  DutyInv
<1> USE DEF Duties!Init
<1>1. service \in [Duties!Services -> ServiceStates]
  BY DEF ServiceStates, BranchStates, Duties!Done, DutyConstants
<1>2. DutyTypes
  <2>1. epoch \in 0..MaxEpoch BY DEF DutyConstants
  <2>2. poll \in [on : BOOLEAN, left : SUBSET Validators, found : SUBSET Validators]
    BY DEF Duties!NoPoll
  <2>3. /\ dutiesOfKey \in [Validators -> [Duties!Epochs -> Forks \union {NoRoot}]]
        /\ lastAnswer \in [Validators -> [Duties!Epochs -> Forks \union {NoRoot}]]
        /\ syncDuties \in [Duties!Periods -> [Validators -> Forks \union {NoRoot}]]
        /\ nodeFork \in Forks /\ indices \subseteq Validators
    OBVIOUS
  <2> QED BY <1>1, <2>1, <2>2, <2>3 DEF DutyTypes
<1>3. BranchesAreKnown BY DEF BranchesAreKnown, Duties!NoPoll, Duties!Done
<1>4. Duties!DutiesAreLatestAnswer BY DEF Duties!DutiesAreLatestAnswer
<1>5. AttesterServed /\ SyncServed BY DEF AttesterServed, SyncServed, Duties!Services
<1> QED BY <1>2, <1>3, <1>4, <1>5 DEF DutyInv

\* Epochs and periods that are asked for are kept.
LEMMA AskedEpochs ==
  ASSUME DutyConstants, NEW e \in 0..MaxEpoch
  PROVE  /\ e \in Duties!Epochs /\ e + 1 \in Duties!Epochs
         /\ e + EPOCHS_PER_SYNC_COMMITTEE_PERIOD \in Duties!Epochs
         /\ Duties!ComputeSyncPeriodAtEpoch(e) \in Duties!Periods
         /\ Duties!ComputeSyncPeriodAtEpoch(e + EPOCHS_PER_SYNC_COMMITTEE_PERIOD) \in Duties!Periods
<1>1. /\ e \in Duties!Epochs /\ e + 1 \in Duties!Epochs
      /\ e + EPOCHS_PER_SYNC_COMMITTEE_PERIOD \in Duties!Epochs
  BY DEF DutyConstants, Duties!Epochs
<1> QED BY <1>1 DEF Duties!Periods

\* What is there stays there, and a poll hands over the keys it adds: the
\* attester service is served as before.
LEMMA AttesterFrame ==
  ASSUME DutyConstants, DutyInv, service'["attester"] = service["attester"],
         \A k \in Validators, e \in Duties!Epochs :
            dutiesOfKey[k][e] # NoRoot => dutiesOfKey'[k][e] # NoRoot,
         Duties!Waiting("attester") /\ poll.on =>
            poll'.on /\ poll.found \subseteq poll'.found /\ indices' \subseteq indices \union poll'.found
  PROVE  AttesterServed'
<1> DEFINE t == service["attester"]
<1>1. t \in ServiceStates BY DEF DutyInv, DutyTypes, Duties!Services
<1> SUFFICES ASSUME t.on, ~t.failed
             PROVE  AttesterServed'
  BY DEF AttesterServed
<1>2. t.epoch \in 0..MaxEpoch
  BY <1>1 DEF DutyInv, BranchesAreKnown, ServiceStates, Duties!Services, DutyConstants
<1>3. ASSUME NEW k \in Validators, NEW a \in {0, 1}, AttesterCovered(k, a)
      PROVE  AttesterCovered(k, a)'
  <2>1. t.epoch + a \in Duties!Epochs
    <3>1. t.epoch + 0 = t.epoch BY <1>2 DEF DutyConstants
    <3> QED BY <1>2, <3>1, AskedEpochs
  <2> QED BY <1>3, <2>1 DEF AttesterCovered
<1>4. Duties!Waiting("attester")' <=> Duties!Waiting("attester")
  BY DEF Duties!Waiting, Duties!Branch
<1>5. indices \subseteq Validators /\ t.expected \subseteq Validators
  BY <1>1 DEF DutyInv, DutyTypes, ServiceStates
<1>6. CASE Duties!Waiting("attester")
  <2>1. poll.on /\ \A k \in indices, a \in {0, 1} : AttesterCovered(k, a) \/ k \in poll.found
    BY <1>6 DEF DutyInv, AttesterServed
  <2> QED BY <1>3, <1>4, <1>5, <1>6, <2>1 DEF AttesterServed
<1>7. CASE ~Duties!Waiting("attester")
  <2>1. \A k \in t.expected, a \in {0, 1} : AttesterCovered(k, a)
    BY <1>7 DEF DutyInv, AttesterServed
  <2> QED BY <1>3, <1>4, <1>5, <1>7, <2>1 DEF AttesterServed
<1> QED BY <1>6, <1>7

LEMMA SyncFrame ==
  ASSUME DutyConstants, DutyInv, service'["syncCommittee"] = service["syncCommittee"],
         \A p \in Duties!Periods, k \in Validators :
            syncDuties[p][k] # NoRoot => syncDuties'[p][k] # NoRoot,
         Duties!Waiting("syncCommittee") /\ poll.on =>
            poll'.on /\ poll.found \subseteq poll'.found /\ indices' \subseteq indices \union poll'.found
  PROVE  SyncServed'
<1> DEFINE t == service["syncCommittee"]
<1>1. t \in ServiceStates BY DEF DutyInv, DutyTypes, Duties!Services
<1> SUFFICES ASSUME t.on, ~t.failed
             PROVE  SyncServed'
  BY DEF SyncServed
<1>2. t.epoch \in 0..MaxEpoch
  BY <1>1 DEF DutyInv, BranchesAreKnown, ServiceStates, Duties!Services, DutyConstants
<1>3. ASSUME NEW k \in Validators, SyncCovered(k)
      PROVE  SyncCovered(k)'
  <2>1. Duties!ComputeSyncPeriodAtEpoch(t.epoch) \in Duties!Periods BY <1>2, AskedEpochs
  <2>2. Duties!ComputeSyncPeriodAtEpoch(service["syncCommittee"].epoch)'
          = Duties!ComputeSyncPeriodAtEpoch(t.epoch)
    BY DEF Duties!ComputeSyncPeriodAtEpoch
  <2> QED BY <1>3, <2>1, <2>2 DEF SyncCovered
<1>4. Duties!Waiting("syncCommittee")' <=> Duties!Waiting("syncCommittee")
  BY DEF Duties!Waiting, Duties!Branch
<1>5. indices \subseteq Validators /\ t.expected \subseteq Validators
  BY <1>1 DEF DutyInv, DutyTypes, ServiceStates
<1>6. CASE Duties!Waiting("syncCommittee")
  <2>1. poll.on /\ \A k \in indices : SyncCovered(k) \/ k \in poll.found
    BY <1>6 DEF DutyInv, SyncServed
  <2> QED BY <1>3, <1>4, <1>5, <1>6, <2>1 DEF SyncServed
<1>7. CASE ~Duties!Waiting("syncCommittee")
  <2>1. \A k \in t.expected : SyncCovered(k)
    BY <1>7 DEF DutyInv, SyncServed
  <2> QED BY <1>3, <1>4, <1>5, <1>7, <2>1 DEF SyncServed
<1> QED BY <1>6, <1>7

\* The poll and the tasks that a step starts or ends are of their types.
LEMMA PollForType ==
  ASSUME NEW keys \in SUBSET Validators
  PROVE  /\ Duties!PollFor(keys) \in BranchStates
         /\ Duties!PollFor(keys).keys = keys
         /\ Duties!PollFor(keys).pc = IF keys = {} THEN "done" ELSE "current"
BY DEF Duties!PollFor, Duties!Done, BranchStates

LEMMA RunDutiesTasksKeeps ==
  ASSUME DutyConstants, DutyInv, NEW svc \in Duties!Services, Duties!RunDutiesTasks(svc)
  PROVE  DutyInv'
<1> DEFINE known == Duties!PollFor(indices)
           new == [pc |-> "indices", keys |-> {}]
           t == [on |-> TRUE, epoch |-> epoch, failed |-> FALSE, expected |-> {},
                 branch |-> [known |-> known, new |-> new]]
<1>1. /\ service' = [service EXCEPT ![svc] = t]
      /\ poll' = IF poll.on THEN poll ELSE [on |-> TRUE, left |-> Validators \ indices, found |-> {}]
      /\ UNCHANGED <<epoch, nodeFork, indices, dutiesOfKey, syncDuties, lastAnswer>>
  BY DEF Duties!RunDutiesTasks
<1>2. /\ known \in BranchStates /\ known.keys = indices
      /\ known.pc = IF indices = {} THEN "done" ELSE "current"
  BY PollForType DEF DutyInv, DutyTypes
<1> HIDE DEF known
<1>3. t.branch \in [Duties!Branches -> BranchStates]
      /\ t.branch["known"] = known /\ t.branch["new"] = new
  BY <1>2 DEF Duties!Branches, BranchStates
<1>4. t \in ServiceStates
  <2>1. epoch \in -1..MaxEpoch BY DEF DutyInv, DutyTypes, DutyConstants
  <2> QED BY <1>3, <2>1 DEF ServiceStates
<1>5. /\ t.on /\ t.epoch = epoch /\ ~t.failed /\ t.expected = {} /\ epoch >= 0
  BY DEF DutyInv, DutyTypes, DutyConstants
<1> HIDE DEF t
<1>6. /\ service' \in [Duties!Services -> ServiceStates]
      /\ service'[svc] = t
      /\ \A u \in Duties!Services : u # svc => service'[u] = service[u]
  BY <1>1, <1>4 DEF DutyInv, DutyTypes
<1>7. /\ poll' \in [on : BOOLEAN, left : SUBSET Validators, found : SUBSET Validators]
      /\ poll'.on /\ poll'.found \subseteq indices
      /\ poll.on => poll' = poll
  BY <1>1 DEF DutyInv, DutyTypes, BranchesAreKnown
<1>8. DutyTypes' BY <1>1, <1>6, <1>7 DEF DutyInv, DutyTypes
<1>9. BranchesAreKnown'
  <2>1. \A b \in Duties!Branches : t.branch[b].keys \subseteq indices
    BY <1>2, <1>3 DEF Duties!Branches
  <2> QED BY <1>1, <1>5, <1>6, <1>7, <2>1 DEF DutyInv, BranchesAreKnown
<1>10. Duties!DutiesAreLatestAnswer' BY <1>1 DEF DutyInv, Duties!DutiesAreLatestAnswer
<1>11. AttesterServed'
  <2>1. CASE svc # "attester" BY <1>1, <1>6, <1>7, <2>1, AttesterFrame DEF Duties!Services
  <2>2. CASE svc = "attester"
    <3>1. Duties!Waiting("attester")'
      BY <1>3, <1>6, <2>2 DEF Duties!Waiting, Duties!Branch
    <3>2. \A k \in indices, a \in {0, 1} : AttesterCovered(k, a)'
      BY <1>2, <1>3, <1>6, <2>2 DEF AttesterCovered, Duties!Branches
    <3> QED BY <1>1, <1>7, <3>1, <3>2 DEF AttesterServed
  <2> QED BY <2>1, <2>2
<1>12. SyncServed'
  <2>1. CASE svc # "syncCommittee" BY <1>1, <1>6, <1>7, <2>1, SyncFrame DEF Duties!Services
  <2>2. CASE svc = "syncCommittee"
    <3>1. Duties!Waiting("syncCommittee")'
      BY <1>3, <1>6, <2>2 DEF Duties!Waiting, Duties!Branch
    <3>2. \A k \in indices : SyncCovered(k)'
      BY <1>2, <1>3, <1>6, <2>2 DEF SyncCovered, Duties!Branches
    <3> QED BY <1>1, <1>7, <3>1, <3>2 DEF SyncServed
  <2> QED BY <2>1, <2>2
<1> QED BY <1>8, <1>9, <1>10, <1>11, <1>12 DEF DutyInv

LEMMA FetchIndicesKeeps ==
  ASSUME DutyConstants, DutyInv, NEW k \in Validators, Duties!FetchValidatorIndices(k)
  PROVE  DutyInv'
<1> DEFINE got == {k} \intersect onChain
<1>1. /\ poll.on /\ indices' = indices \union got
      /\ poll' = [poll EXCEPT !.left = poll.left \ {k}, !.found = poll.found \union got]
      /\ UNCHANGED <<epoch, nodeFork, dutiesOfKey, syncDuties, service, lastAnswer>>
  BY DEF Duties!FetchValidatorIndices
<1>2. got \subseteq Validators OBVIOUS
<1> HIDE DEF got
<1>3. /\ poll' \in [on : BOOLEAN, left : SUBSET Validators, found : SUBSET Validators]
      /\ poll'.on /\ poll'.found = poll.found \union got
  BY <1>1, <1>2 DEF DutyInv, DutyTypes
<1>4. DutyTypes' BY <1>1, <1>2, <1>3 DEF DutyInv, DutyTypes
<1>5. BranchesAreKnown' BY <1>1, <1>3 DEF DutyInv, BranchesAreKnown
<1>6. Duties!DutiesAreLatestAnswer' BY <1>1 DEF DutyInv, Duties!DutiesAreLatestAnswer
<1>7. AttesterServed' BY <1>1, <1>3, AttesterFrame
<1>8. SyncServed' BY <1>1, <1>3, SyncFrame
<1> QED BY <1>4, <1>5, <1>6, <1>7, <1>8 DEF DutyInv

LEMMA ResolvesKeeps ==
  ASSUME DutyConstants, DutyInv, Duties!PollValidatorIndicesResolves
  PROVE  DutyInv'
<1> DEFINE new == Duties!PollFor(poll.found)
<1>1. /\ poll' = Duties!NoPoll
      /\ service' = [svc \in Duties!Services |->
            IF Duties!Waiting(svc)
            THEN [service[svc] EXCEPT !.branch["new"] = new, !.expected = indices]
            ELSE service[svc]]
      /\ UNCHANGED <<epoch, nodeFork, indices, dutiesOfKey, syncDuties, lastAnswer>>
  BY DEF Duties!PollValidatorIndicesResolves, Duties!NewIndices
<1>2. /\ new \in BranchStates /\ new.keys = poll.found
      /\ new.pc = IF poll.found = {} THEN "done" ELSE "current"
  BY PollForType DEF DutyInv, DutyTypes
<1> HIDE DEF new
<1>3. ASSUME NEW svc \in Duties!Services, Duties!Waiting(svc)
      PROVE  /\ service'[svc] \in ServiceStates
             /\ service'[svc].on = service[svc].on /\ service'[svc].failed = service[svc].failed
             /\ service'[svc].epoch = service[svc].epoch /\ service'[svc].expected = indices
             /\ service'[svc].branch["new"] = new
             /\ service'[svc].branch["known"] = service[svc].branch["known"]
             /\ service[svc].branch["new"].pc = "indices"
  <2>1. service[svc] \in ServiceStates /\ indices \subseteq Validators
    BY DEF DutyInv, DutyTypes
  <2>2. service'[svc] = [service[svc] EXCEPT !.branch["new"] = new, !.expected = indices]
    BY <1>1, <1>3
  <2>3. service[svc].branch["new"].pc = "indices" BY <1>3 DEF Duties!Waiting, Duties!Branch
  <2>4. service[svc].branch \in [Duties!Branches -> BranchStates] BY <2>1 DEF ServiceStates
  <2>5. [service[svc].branch EXCEPT !["new"] = new] \in [Duties!Branches -> BranchStates] BY <1>2, <2>4
  <2>6. service'[svc] = [on |-> service[svc].on, epoch |-> service[svc].epoch,
                         failed |-> service[svc].failed, expected |-> indices,
                         branch |-> [service[svc].branch EXCEPT !["new"] = new]]
    BY <2>1, <2>2 DEF ServiceStates
  <2>7. service'[svc] \in ServiceStates BY <2>1, <2>5, <2>6 DEF ServiceStates
  <2> QED BY <2>3, <2>4, <2>6, <2>7 DEF Duties!Branches
<1>4. ASSUME NEW svc \in Duties!Services, ~Duties!Waiting(svc)
      PROVE  service'[svc] = service[svc]
  BY <1>1, <1>4
<1>5. service' \in [Duties!Services -> ServiceStates]
  <2>1. \A svc \in Duties!Services : service'[svc] \in ServiceStates
    BY <1>3, <1>4 DEF DutyInv, DutyTypes
  <2> QED BY <1>1, <2>1
<1>6. DutyTypes' BY <1>1, <1>5 DEF DutyInv, DutyTypes, Duties!NoPoll
<1>7. BranchesAreKnown'
  <2>1. poll'.found = {} BY <1>1 DEF Duties!NoPoll
  <2>2. ASSUME NEW svc \in Duties!Services
        PROVE  /\ service'[svc].on => service'[svc].epoch >= 0
               /\ \A b \in Duties!Branches :
                    /\ service'[svc].branch[b].keys \subseteq indices
                    /\ service'[svc].branch[b].pc # "done" => service'[svc].epoch >= 0
    <3>1. CASE Duties!Waiting(svc)
      BY <1>2, <1>3, <3>1 DEF DutyInv, BranchesAreKnown, Duties!Branches
    <3>2. CASE ~Duties!Waiting(svc) BY <1>4, <3>2 DEF DutyInv, BranchesAreKnown
    <3> QED BY <3>1, <3>2
  <2> QED BY <1>1, <2>1, <2>2 DEF BranchesAreKnown
<1>8. Duties!DutiesAreLatestAnswer' BY <1>1 DEF DutyInv, Duties!DutiesAreLatestAnswer
<1>9. AttesterServed'
  <2>1. CASE ~Duties!Waiting("attester")
    BY <1>1, <1>4, <2>1, AttesterFrame DEF Duties!Services
  <2>2. CASE Duties!Waiting("attester")
    <3> SUFFICES ASSUME service["attester"].on, ~service["attester"].failed
                 PROVE  AttesterServed'
      BY <1>3, <2>2 DEF AttesterServed, Duties!Services
    <3>1. \A k \in indices, a \in {0, 1} : AttesterCovered(k, a) \/ k \in poll.found
      BY <2>2 DEF DutyInv, AttesterServed
    <3>2. ASSUME NEW k \in indices, NEW a \in {0, 1} PROVE AttesterCovered(k, a)'
      <4>1. CASE k \in poll.found
        BY <1>2, <1>3, <2>2, <4>1 DEF AttesterCovered, Duties!Services, Duties!Branches
      <4>2. CASE AttesterCovered(k, a)
        BY <1>1, <1>3, <2>2, <4>2, ZenonT(90) DEF AttesterCovered, Duties!Services, Duties!Branches
      <4> QED BY <3>1, <4>1, <4>2
    <3>3. ~Duties!Waiting("attester")'
      BY <1>2, <1>3, <2>2 DEF Duties!Waiting, Duties!Branch, Duties!Services
    <3>4. service'["attester"].expected = indices BY <1>3, <2>2 DEF Duties!Services
    <3> QED BY <3>2, <3>3, <3>4 DEF AttesterServed
  <2> QED BY <2>1, <2>2
<1>10. SyncServed'
  <2>1. CASE ~Duties!Waiting("syncCommittee")
    BY <1>1, <1>4, <2>1, SyncFrame DEF Duties!Services
  <2>2. CASE Duties!Waiting("syncCommittee")
    <3> SUFFICES ASSUME service["syncCommittee"].on, ~service["syncCommittee"].failed
                 PROVE  SyncServed'
      BY <1>3, <2>2 DEF SyncServed, Duties!Services
    <3>1. \A k \in indices : SyncCovered(k) \/ k \in poll.found
      BY <2>2 DEF DutyInv, SyncServed
    <3>2. ASSUME NEW k \in indices PROVE SyncCovered(k)'
      <4>1. CASE k \in poll.found
        BY <1>2, <1>3, <2>2, <4>1 DEF SyncCovered, Duties!Services, Duties!Branches
      <4>2. CASE SyncCovered(k)
        BY <1>1, <1>3, <2>2, <4>2, ZenonT(90)
           DEF SyncCovered, Duties!Services, Duties!Branches, Duties!ComputeSyncPeriodAtEpoch
      <4> QED BY <3>1, <4>1, <4>2
    <3>3. ~Duties!Waiting("syncCommittee")'
      BY <1>2, <1>3, <2>2 DEF Duties!Waiting, Duties!Branch, Duties!Services
    <3>4. service'["syncCommittee"].expected = indices BY <1>3, <2>2 DEF Duties!Services
    <3> QED BY <3>2, <3>3, <3>4 DEF SyncServed
  <2> QED BY <2>1, <2>2
<1> QED BY <1>6, <1>7, <1>8, <1>9, <1>10 DEF DutyInv

LEMMA RejectsKeeps ==
  ASSUME DutyConstants, DutyInv, Duties!PollValidatorIndicesRejects
  PROVE  DutyInv'
<1>1. /\ poll' = Duties!NoPoll
      /\ service' = [svc \in Duties!Services |->
            IF Duties!Waiting(svc)
            THEN [service[svc] EXCEPT !.branch["new"] = Duties!Done, !.failed = TRUE]
            ELSE service[svc]]
      /\ UNCHANGED <<epoch, nodeFork, indices, dutiesOfKey, syncDuties, lastAnswer>>
  BY DEF Duties!PollValidatorIndicesRejects
<1>2. Duties!Done \in BranchStates /\ Duties!Done.keys = {} /\ Duties!Done.pc = "done"
  BY DEF Duties!Done, BranchStates
<1>3. ASSUME NEW svc \in Duties!Services, Duties!Waiting(svc)
      PROVE  /\ service'[svc] \in ServiceStates
             /\ service'[svc].on = service[svc].on /\ service'[svc].failed = TRUE
             /\ service'[svc].epoch = service[svc].epoch
             /\ service'[svc].branch["new"] = Duties!Done
             /\ service'[svc].branch["known"] = service[svc].branch["known"]
  <2>1. service[svc] \in ServiceStates BY DEF DutyInv, DutyTypes
  <2>2. service'[svc] = [service[svc] EXCEPT !.branch["new"] = Duties!Done, !.failed = TRUE]
    BY <1>1, <1>3
  <2>3. service[svc].branch \in [Duties!Branches -> BranchStates] BY <2>1 DEF ServiceStates
  <2> DEFINE done == Duties!Done
             branches == [service[svc].branch EXCEPT !["new"] = done]
  <2> HIDE DEF done
  <2>4. /\ branches \in [Duties!Branches -> BranchStates]
        /\ branches["new"] = done /\ branches["known"] = service[svc].branch["known"]
    BY <1>2, <2>3 DEF Duties!Branches, done
  <2>5. service'[svc] = [service[svc] EXCEPT !.branch = branches, !.failed = TRUE]
    BY <2>1, <2>2 DEF ServiceStates, done
  <2> HIDE DEF branches
  <2> QED BY <2>1, <2>4, <2>5 DEF ServiceStates, done
<1>4. ASSUME NEW svc \in Duties!Services, ~Duties!Waiting(svc)
      PROVE  service'[svc] = service[svc]
  BY <1>1, <1>4
<1>5. service' \in [Duties!Services -> ServiceStates]
  <2>1. \A svc \in Duties!Services : service'[svc] \in ServiceStates
    BY <1>3, <1>4 DEF DutyInv, DutyTypes
  <2> QED BY <1>1, <2>1
<1>6. DutyTypes' BY <1>1, <1>5 DEF DutyInv, DutyTypes, Duties!NoPoll
<1>7. BranchesAreKnown'
  <2>1. poll'.found = {} BY <1>1 DEF Duties!NoPoll
  <2>2. ASSUME NEW svc \in Duties!Services
        PROVE  /\ service'[svc].on => service'[svc].epoch >= 0
               /\ \A b \in Duties!Branches :
                    /\ service'[svc].branch[b].keys \subseteq indices
                    /\ service'[svc].branch[b].pc # "done" => service'[svc].epoch >= 0
    <3>1. CASE Duties!Waiting(svc)
      BY <1>2, <1>3, <3>1 DEF DutyInv, BranchesAreKnown, Duties!Branches
    <3>2. CASE ~Duties!Waiting(svc) BY <1>4, <3>2 DEF DutyInv, BranchesAreKnown
    <3> QED BY <3>1, <3>2
  <2> QED BY <1>1, <2>1, <2>2 DEF BranchesAreKnown
<1>8. Duties!DutiesAreLatestAnswer' BY <1>1 DEF DutyInv, Duties!DutiesAreLatestAnswer
<1>9. AttesterServed'
  <2>1. CASE ~Duties!Waiting("attester")
    BY <1>1, <1>4, <2>1, AttesterFrame DEF Duties!Services
  <2>2. CASE Duties!Waiting("attester")
    BY <1>3, <2>2 DEF AttesterServed, Duties!Services
  <2> QED BY <2>1, <2>2
<1>10. SyncServed'
  <2>1. CASE ~Duties!Waiting("syncCommittee")
    BY <1>1, <1>4, <2>1, SyncFrame DEF Duties!Services
  <2>2. CASE Duties!Waiting("syncCommittee")
    BY <1>3, <2>2 DEF SyncServed, Duties!Services
  <2> QED BY <2>1, <2>2
<1> QED BY <1>6, <1>7, <1>8, <1>9, <1>10 DEF DutyInv

\* A branch goes from the current to the next epoch and on to its subscriptions.
LEMMA AdvanceType ==
  ASSUME DutyInv, NEW svc \in Duties!Services, NEW b \in Duties!Branches,
         service[svc].branch[b].pc \in {"current", "next"}
  PROVE  /\ Duties!Advance(svc, b) \in [Duties!Branches -> BranchStates]
         /\ Duties!Advance(svc, b)[b].keys = service[svc].branch[b].keys
         /\ Duties!Advance(svc, b)[b].pc
              = IF service[svc].branch[b].pc = "current" THEN "next" ELSE "subscribe"
         /\ \A c \in Duties!Branches : c # b => Duties!Advance(svc, b)[c] = service[svc].branch[c]
<1>1. service[svc].branch \in [Duties!Branches -> BranchStates]
  BY DEF DutyInv, DutyTypes, ServiceStates
<1>2. Duties!Advance(svc, b) = [service[svc].branch EXCEPT ![b].pc =
         IF service[svc].branch[b].pc = "current" THEN "next" ELSE "subscribe"]
  BY DEF Duties!Advance
<1> QED BY <1>1, <1>2 DEF BranchStates

\* A step of a branch that does not touch the poll leaves all types as they are.
LEMMA BranchStep ==
  ASSUME DutyInv, NEW svc \in Duties!Services, NEW b \in Duties!Branches,
         indices' = indices, poll' = poll,
         NEW t \in ServiceStates, service' = [service EXCEPT ![svc] = t],
         t.on => service[svc].on, t.epoch = service[svc].epoch,
         \A c \in Duties!Branches : c # b => t.branch[c] = service[svc].branch[c],
         t.branch[b].keys \subseteq service[svc].branch[b].keys,
         service[svc].branch[b].pc = "done" => t.branch[b].pc = "done"
  PROVE  /\ service' \in [Duties!Services -> ServiceStates] /\ BranchesAreKnown'
         /\ service'[svc] = t /\ \A u \in Duties!Services : u # svc => service'[u] = service[u]
<1>1. service \in [Duties!Services -> ServiceStates] BY DEF DutyInv, DutyTypes
<1>2. /\ service' \in [Duties!Services -> ServiceStates]
      /\ service'[svc] = t /\ \A u \in Duties!Services : u # svc => service'[u] = service[u]
  BY <1>1
<1>3. ASSUME NEW u \in Duties!Services
      PROVE  /\ service'[u].on => service'[u].epoch >= 0
             /\ \A c \in Duties!Branches :
                  /\ service'[u].branch[c].keys \subseteq indices
                  /\ service'[u].branch[c].pc # "done" => service'[u].epoch >= 0
  <2>1. CASE u # svc BY <1>2, <2>1 DEF DutyInv, BranchesAreKnown
  <2>2. CASE u = svc BY <1>2, <2>2 DEF DutyInv, BranchesAreKnown
  <2> QED BY <2>1, <2>2
<1> QED BY <1>2, <1>3 DEF DutyInv, BranchesAreKnown

LEMMA PollAttestersKeeps ==
  ASSUME DutyConstants, DutyInv, NEW b \in Duties!Branches, Duties!PollBeaconAttestersForEpoch(b)
  PROVE  DutyInv'
<1> DEFINE t == service["attester"]
           e == Duties!PolledEpoch("attester", b)
           keys == t.branch[b].keys
<1>1. /\ t.branch[b].pc \in {"current", "next"}
      /\ dutiesOfKey' = [k \in Validators |->
            IF k \in keys /\ Duties!IsDutyUpdate(dutiesOfKey[k][e], nodeFork)
            THEN [dutiesOfKey[k] EXCEPT ![e] = nodeFork] ELSE dutiesOfKey[k]]
      /\ lastAnswer' = [k \in Validators |->
            IF k \in keys THEN [lastAnswer[k] EXCEPT ![e] = nodeFork] ELSE lastAnswer[k]]
      /\ service' = [service EXCEPT !["attester"].branch = Duties!Advance("attester", b)]
      /\ UNCHANGED <<epoch, nodeFork, indices, poll, syncDuties>>
  BY DEF Duties!PollBeaconAttestersForEpoch, Duties!Branch
<1>2. /\ "attester" \in Duties!Services /\ "syncCommittee" \in Duties!Services
      /\ t \in ServiceStates /\ nodeFork \in Forks \union {NoRoot} /\ nodeFork # NoRoot
      /\ dutiesOfKey \in [Validators -> [Duties!Epochs -> Forks \union {NoRoot}]]
      /\ lastAnswer \in [Validators -> [Duties!Epochs -> Forks \union {NoRoot}]]
  BY DEF DutyInv, DutyTypes, Duties!Services, DutyConstants
<1> DEFINE adv == Duties!Advance("attester", b)
           u == [t EXCEPT !.branch = adv]
<1>3. service' = [service EXCEPT !["attester"] = u]
  BY <1>1, <1>2 DEF DutyInv, DutyTypes
<1>4. /\ adv \in [Duties!Branches -> BranchStates] /\ adv[b].keys = keys
      /\ adv[b].pc = IF t.branch[b].pc = "current" THEN "next" ELSE "subscribe"
      /\ \A c \in Duties!Branches : c # b => adv[c] = t.branch[c]
  BY <1>1, <1>2, AdvanceType
<1> HIDE DEF adv
<1>5. /\ u \in ServiceStates /\ u.branch = adv /\ u.on = t.on
      /\ u.failed = t.failed /\ u.epoch = t.epoch /\ u.expected = t.expected
  BY <1>2, <1>4 DEF ServiceStates
<1> HIDE DEF u
<1>6. /\ service' \in [Duties!Services -> ServiceStates] /\ BranchesAreKnown'
      /\ service'["attester"] = u /\ service'["syncCommittee"] = service["syncCommittee"]
  <2>1. PICK v \in ServiceStates : v = u BY <1>5
  <2>2. service' = [service EXCEPT !["attester"] = v] BY <1>3, <2>1
  <2>3. /\ v.on => t.on
        /\ v.epoch = t.epoch
        /\ \A c \in Duties!Branches : c # b => v.branch[c] = t.branch[c]
        /\ v.branch[b].keys \subseteq t.branch[b].keys
        /\ t.branch[b].pc = "done" => v.branch[b].pc = "done"
    BY <1>1, <1>4, <1>5, <2>1
  <2>4. indices' = indices /\ poll' = poll BY <1>1
  <2>5. /\ service' \in [Duties!Services -> ServiceStates] /\ BranchesAreKnown'
        /\ service'["attester"] = v
        /\ \A w \in Duties!Services : w # "attester" => service'[w] = service[w]
    BY <1>2, <2>1, <2>2, <2>3, <2>4, BranchStep, ZenonT(90)
  <2> QED BY <1>2, <2>1, <2>5
<1>7. t.epoch \in 0..MaxEpoch
  BY <1>1, <1>2 DEF DutyInv, BranchesAreKnown, ServiceStates, DutyConstants
<1>8. e = (IF t.branch[b].pc = "current" THEN t.epoch ELSE t.epoch + 1) /\ e \in Duties!Epochs
  <2>1. e = t.epoch + (IF t.branch[b].pc = "current" THEN 0 ELSE 1)
    BY DEF Duties!PolledEpoch, Duties!Branch
  <2>2. e = IF t.branch[b].pc = "current" THEN t.epoch ELSE t.epoch + 1
    BY <1>7, <2>1 DEF DutyConstants
  <2> QED BY <1>7, <2>2, AskedEpochs
<1> HIDE DEF e
<1>9. \A k \in Validators, f \in Duties!Epochs :
        /\ dutiesOfKey'[k][f] = IF k \in keys /\ f = e THEN nodeFork ELSE dutiesOfKey[k][f]
        /\ lastAnswer'[k][f] = IF k \in keys /\ f = e THEN nodeFork ELSE lastAnswer[k][f]
  BY <1>1, <1>2, <1>8 DEF Duties!IsDutyUpdate
<1>10. /\ dutiesOfKey' \in [Validators -> [Duties!Epochs -> Forks \union {NoRoot}]]
       /\ lastAnswer' \in [Validators -> [Duties!Epochs -> Forks \union {NoRoot}]]
  BY <1>1, <1>2, <1>8
<1>11. DutyTypes' BY <1>1, <1>6, <1>10 DEF DutyInv, DutyTypes
<1>12. Duties!DutiesAreLatestAnswer' BY <1>9 DEF DutyInv, Duties!DutiesAreLatestAnswer
<1>13. SyncServed' BY <1>1, <1>6, SyncFrame
<1>14. ASSUME NEW k \in Validators, NEW a \in {0, 1}, AttesterCovered(k, a)
       PROVE  AttesterCovered(k, a)'
  <2>1. t.epoch + a \in Duties!Epochs
    <3>1. t.epoch + 0 = t.epoch BY <1>7 DEF DutyConstants
    <3> QED BY <1>7, <3>1, AskedEpochs
  <2>2. CASE dutiesOfKey[k][t.epoch + a] # NoRoot
    BY <1>2, <1>5, <1>6, <1>9, <2>1, <2>2 DEF AttesterCovered
  <2>3. ASSUME NEW c \in Duties!Branches, c # b, k \in t.branch[c].keys,
               t.branch[c].pc = "current" \/ (t.branch[c].pc = "next" /\ a = 1)
        PROVE  AttesterCovered(k, a)'
    BY <1>4, <1>5, <1>6, <2>3 DEF AttesterCovered
  <2>4. ASSUME k \in keys, t.branch[b].pc = "current" \/ (t.branch[b].pc = "next" /\ a = 1)
        PROVE  AttesterCovered(k, a)'
    <3>1. CASE e = t.epoch + a
      BY <1>2, <1>5, <1>6, <1>9, <2>1, <2>4, <3>1 DEF AttesterCovered
    <3>2. CASE e # t.epoch + a
      <4>1. t.branch[b].pc = "current" /\ a = 1
        BY <1>7, <1>8, <2>4, <3>2 DEF DutyConstants
      <4>2. k \in adv[b].keys /\ adv[b].pc = "next" BY <1>4, <2>4, <4>1
      <4> QED BY <1>5, <1>6, <4>1, <4>2 DEF AttesterCovered
    <3> QED BY <3>1, <3>2
  <2> QED BY <1>14, <2>2, <2>3, <2>4 DEF AttesterCovered
<1>15. Duties!Waiting("attester")' <=> Duties!Waiting("attester")
  <2>1. Duties!Waiting("attester") <=> t.branch["new"].pc = "indices"
    BY DEF Duties!Waiting, Duties!Branch
  <2>2. Duties!Waiting("attester")' <=> adv["new"].pc = "indices"
    BY <1>5, <1>6 DEF Duties!Waiting, Duties!Branch
  <2>3. adv["new"].pc = "indices" <=> t.branch["new"].pc = "indices"
    BY <1>1, <1>4 DEF Duties!Branches
  <2> QED BY <2>1, <2>2, <2>3
<1>16. AttesterServed'
  <2>1. indices \subseteq Validators /\ t.expected \subseteq Validators
    BY <1>2 DEF DutyInv, DutyTypes, ServiceStates
  <2>2. CASE t.on /\ ~t.failed /\ Duties!Waiting("attester")
    <3>1. poll.on /\ \A k \in indices, a \in {0, 1} : AttesterCovered(k, a) \/ k \in poll.found
      BY <2>2 DEF DutyInv, AttesterServed
    <3> QED BY <1>1, <1>5, <1>6, <1>14, <1>15, <2>1, <2>2, <3>1 DEF AttesterServed
  <2>3. CASE t.on /\ ~t.failed /\ ~Duties!Waiting("attester")
    <3>1. \A k \in t.expected, a \in {0, 1} : AttesterCovered(k, a)
      BY <2>3 DEF DutyInv, AttesterServed
    <3> QED BY <1>5, <1>6, <1>14, <1>15, <2>1, <2>3, <3>1 DEF AttesterServed
  <2>4. CASE ~(t.on /\ ~t.failed) BY <1>5, <1>6, <2>4 DEF AttesterServed
  <2> QED BY <2>2, <2>3, <2>4
<1> QED BY <1>6, <1>11, <1>12, <1>13, <1>16 DEF DutyInv

LEMMA PollSyncKeeps ==
  ASSUME DutyConstants, DutyInv, NEW b \in Duties!Branches, Duties!PollSyncCommitteesForEpoch(b)
  PROVE  DutyInv'
<1> DEFINE t == service["syncCommittee"]
           period == Duties!ComputeSyncPeriodAtEpoch(Duties!PolledEpoch("syncCommittee", b))
           keys == t.branch[b].keys
           members == keys \intersect Member[nodeFork][period] \intersect indices
           adv == Duties!Advance("syncCommittee", b)
           u == [t EXCEPT !.branch = adv]
<1>1. /\ t.branch[b].pc \in {"current", "next"}
      /\ syncDuties' = [syncDuties EXCEPT ![period] = [k \in Validators |->
                           IF k \in members THEN nodeFork ELSE syncDuties[period][k]]]
      /\ service' = [service EXCEPT !["syncCommittee"].branch = adv]
      /\ UNCHANGED <<epoch, nodeFork, indices, poll, dutiesOfKey, lastAnswer>>
  BY DEF Duties!PollSyncCommitteesForEpoch, Duties!Branch
<1>2. /\ "attester" \in Duties!Services /\ "syncCommittee" \in Duties!Services
      /\ t \in ServiceStates /\ nodeFork \in Forks /\ nodeFork # NoRoot
      /\ syncDuties \in [Duties!Periods -> [Validators -> Forks \union {NoRoot}]]
      /\ keys \subseteq indices
  BY DEF DutyInv, DutyTypes, BranchesAreKnown, Duties!Services, DutyConstants
<1>3. /\ adv \in [Duties!Branches -> BranchStates] /\ adv[b].keys = keys
      /\ adv[b].pc = IF t.branch[b].pc = "current" THEN "next" ELSE "subscribe"
      /\ \A c \in Duties!Branches : c # b => adv[c] = t.branch[c]
  BY <1>1, <1>2, AdvanceType
<1>4. service' = [service EXCEPT !["syncCommittee"] = u]
  BY <1>1, <1>2 DEF DutyInv, DutyTypes
<1> HIDE DEF adv
<1>5. /\ u \in ServiceStates /\ u.branch = adv /\ u.on = t.on
      /\ u.failed = t.failed /\ u.epoch = t.epoch /\ u.expected = t.expected
  BY <1>2, <1>3 DEF ServiceStates
<1> HIDE DEF u
<1>6. /\ service' \in [Duties!Services -> ServiceStates] /\ BranchesAreKnown'
      /\ service'["syncCommittee"] = u /\ service'["attester"] = service["attester"]
  <2>1. PICK v \in ServiceStates : v = u BY <1>5
  <2>2. service' = [service EXCEPT !["syncCommittee"] = v] BY <1>4, <2>1
  <2>3. /\ v.on => t.on
        /\ v.epoch = t.epoch
        /\ \A c \in Duties!Branches : c # b => v.branch[c] = t.branch[c]
        /\ v.branch[b].keys \subseteq t.branch[b].keys
        /\ t.branch[b].pc = "done" => v.branch[b].pc = "done"
    BY <1>1, <1>3, <1>5, <2>1
  <2>4. indices' = indices /\ poll' = poll BY <1>1
  <2>5. /\ service' \in [Duties!Services -> ServiceStates] /\ BranchesAreKnown'
        /\ service'["syncCommittee"] = v
        /\ \A w \in Duties!Services : w # "syncCommittee" => service'[w] = service[w]
    BY <1>2, <2>1, <2>2, <2>3, <2>4, BranchStep, ZenonT(90)
  <2> QED BY <1>2, <2>1, <2>5
<1>7. t.epoch \in 0..MaxEpoch
  BY <1>1, <1>2 DEF DutyInv, BranchesAreKnown, ServiceStates, DutyConstants
<1> DEFINE asked == Duties!PolledEpoch("syncCommittee", b)
<1>8. /\ period \in Duties!Periods
      /\ t.branch[b].pc = "current" => period = Duties!ComputeSyncPeriodAtEpoch(t.epoch)
  <2>1. asked = t.epoch + (IF t.branch[b].pc = "current" THEN 0 ELSE EPOCHS_PER_SYNC_COMMITTEE_PERIOD)
    BY DEF Duties!PolledEpoch, Duties!Branch
  <2>2. asked = IF t.branch[b].pc = "current" THEN t.epoch
                ELSE t.epoch + EPOCHS_PER_SYNC_COMMITTEE_PERIOD
    BY <1>7, <2>1 DEF DutyConstants
  <2> HIDE DEF asked
  <2>3. period = Duties!ComputeSyncPeriodAtEpoch(asked) BY DEF asked
  <2> HIDE DEF period
  <2>4. CASE t.branch[b].pc = "current" BY <1>7, <2>2, <2>3, <2>4, AskedEpochs
  <2>5. CASE t.branch[b].pc # "current" BY <1>7, <2>2, <2>3, <2>5, AskedEpochs
  <2> QED BY <2>4, <2>5
<1> HIDE DEF period, members
<1>9. /\ syncDuties' \in [Duties!Periods -> [Validators -> Forks \union {NoRoot}]]
      /\ \A p \in Duties!Periods, k \in Validators : syncDuties'[p][k] =
            IF p = period /\ k \in members THEN nodeFork ELSE syncDuties[p][k]
  BY <1>1, <1>2, <1>8
<1>10. DutyTypes' BY <1>1, <1>6, <1>9 DEF DutyInv, DutyTypes
<1>11. Duties!DutiesAreLatestAnswer' BY <1>1 DEF DutyInv, Duties!DutiesAreLatestAnswer
<1>12. AttesterServed' BY <1>1, <1>6, AttesterFrame
<1> DEFINE mine == Duties!ComputeSyncPeriodAtEpoch(t.epoch)
<1>13. mine \in Duties!Periods BY <1>7, AskedEpochs
<1>14. Duties!ComputeSyncPeriodAtEpoch(service["syncCommittee"].epoch)' = mine
  BY <1>5, <1>6 DEF Duties!ComputeSyncPeriodAtEpoch
<1> HIDE DEF mine
<1>15. ASSUME NEW k \in Validators, SyncCovered(k)
       PROVE  SyncCovered(k)'
  <2> DEFINE always == \A f \in Forks : k \in Member[f][mine]
  <2>1. \/ ~always
        \/ syncDuties[mine][k] # NoRoot
        \/ \E c \in Duties!Branches : k \in t.branch[c].keys /\ t.branch[c].pc = "current"
    BY <1>15 DEF SyncCovered, mine
  <2>2. (\/ ~always
         \/ syncDuties'[mine][k] # NoRoot
         \/ \E c \in Duties!Branches : k \in u.branch[c].keys /\ u.branch[c].pc = "current")
        => SyncCovered(k)'
    BY <1>6, <1>14 DEF SyncCovered
  <2>3. CASE ~always BY <2>2, <2>3
  <2>4. CASE syncDuties[mine][k] # NoRoot BY <1>2, <1>9, <1>13, <2>2, <2>4
  <2>5. ASSUME NEW c \in Duties!Branches, c # b, k \in t.branch[c].keys, t.branch[c].pc = "current"
        PROVE  SyncCovered(k)'
    BY <1>3, <1>5, <2>2, <2>5
  <2>6. ASSUME k \in keys, t.branch[b].pc = "current", always
        PROVE  SyncCovered(k)'
    <3>1. period = mine BY <1>8, <2>6 DEF mine
    <3>2. k \in members BY <1>2, <2>6, <3>1 DEF members
    <3> QED BY <1>2, <1>9, <1>13, <2>2, <3>1, <3>2
  <2> QED BY <2>1, <2>3, <2>4, <2>5, <2>6
<1>16. Duties!Waiting("syncCommittee")' <=> Duties!Waiting("syncCommittee")
  <2>1. Duties!Waiting("syncCommittee") <=> t.branch["new"].pc = "indices"
    BY DEF Duties!Waiting, Duties!Branch
  <2>2. Duties!Waiting("syncCommittee")' <=> adv["new"].pc = "indices"
    BY <1>5, <1>6 DEF Duties!Waiting, Duties!Branch
  <2>3. adv["new"].pc = "indices" <=> t.branch["new"].pc = "indices"
    BY <1>1, <1>3 DEF Duties!Branches
  <2> QED BY <2>1, <2>2, <2>3
<1>17. SyncServed'
  <2>1. indices \subseteq Validators /\ t.expected \subseteq Validators
    BY <1>2 DEF DutyInv, DutyTypes, ServiceStates
  <2>2. CASE t.on /\ ~t.failed /\ Duties!Waiting("syncCommittee")
    <3>1. poll.on /\ \A k \in indices : SyncCovered(k) \/ k \in poll.found
      BY <2>2 DEF DutyInv, SyncServed
    <3> QED BY <1>1, <1>5, <1>6, <1>15, <1>16, <2>1, <2>2, <3>1 DEF SyncServed
  <2>3. CASE t.on /\ ~t.failed /\ ~Duties!Waiting("syncCommittee")
    <3>1. \A k \in t.expected : SyncCovered(k)
      BY <2>3 DEF DutyInv, SyncServed
    <3> QED BY <1>5, <1>6, <1>15, <1>16, <2>1, <2>3, <3>1 DEF SyncServed
  <2>4. CASE ~(t.on /\ ~t.failed) BY <1>5, <1>6, <2>4 DEF SyncServed
  <2> QED BY <2>2, <2>3, <2>4
<1> QED BY <1>6, <1>10, <1>11, <1>12, <1>17 DEF DutyInv

\* A request that fails, or the end of a branch, asks nothing more of the task.
LEMMA BranchEnds ==
  ASSUME DutyConstants, DutyInv, NEW svc \in Duties!Services, NEW b \in Duties!Branches,
         NEW t \in ServiceStates, service' = [service EXCEPT ![svc] = t],
         epoch' = epoch, nodeFork' = nodeFork, indices' = indices, poll' = poll,
         dutiesOfKey' = dutiesOfKey, syncDuties' = syncDuties, lastAnswer' = lastAnswer,
         t.on => service[svc].on, t.epoch = service[svc].epoch,
         t.expected = service[svc].expected,
         \A c \in Duties!Branches : c # b => t.branch[c] = service[svc].branch[c],
         t.branch[b].keys \subseteq service[svc].branch[b].keys,
         service[svc].branch[b].pc = "done" => t.branch[b].pc = "done",
         t.failed \/ (/\ service[svc].branch[b].pc = "subscribe" /\ t.branch[b].pc = "done"
                      /\ ~service[svc].failed)
  PROVE  DutyInv'
<1>1. /\ service' \in [Duties!Services -> ServiceStates] /\ BranchesAreKnown'
      /\ service'[svc] = t /\ \A u \in Duties!Services : u # svc => service'[u] = service[u]
  BY BranchStep, ZenonT(40)
<1>2. DutyTypes' BY <1>1 DEF DutyInv, DutyTypes
<1>3. Duties!DutiesAreLatestAnswer' BY DEF DutyInv, Duties!DutiesAreLatestAnswer
<1>4. AttesterServed'
  <2>1. CASE svc # "attester" BY <1>1, <2>1, AttesterFrame DEF Duties!Services
  <2>2. CASE svc = "attester" /\ t.failed BY <1>1, <2>2 DEF AttesterServed
  <2>3. CASE /\ svc = "attester" /\ service[svc].branch[b].pc = "subscribe"
             /\ t.branch[b].pc = "done" /\ ~service[svc].failed
    <3>1. Duties!Waiting("attester")' <=> Duties!Waiting("attester")
      <4>1. (t.branch["new"].pc = "indices") <=> (service["attester"].branch["new"].pc = "indices")
        BY <2>3 DEF Duties!Branches
      <4> QED BY <1>1, <2>3, <4>1 DEF Duties!Waiting, Duties!Branch
    <3>2. \A k, a : AttesterCovered(k, a) => AttesterCovered(k, a)'
      BY <1>1, <2>3 DEF AttesterCovered
    <3> QED BY <1>1, <2>3, <3>1, <3>2 DEF DutyInv, AttesterServed
  <2> QED BY <2>1, <2>2, <2>3
<1>5. SyncServed'
  <2>1. CASE svc # "syncCommittee" BY <1>1, <2>1, SyncFrame DEF Duties!Services
  <2>2. CASE svc = "syncCommittee" /\ t.failed BY <1>1, <2>2 DEF SyncServed
  <2>3. CASE /\ svc = "syncCommittee" /\ service[svc].branch[b].pc = "subscribe"
             /\ t.branch[b].pc = "done" /\ ~service[svc].failed
    <3>1. Duties!Waiting("syncCommittee")' <=> Duties!Waiting("syncCommittee")
      <4>1. (t.branch["new"].pc = "indices") <=> (service["syncCommittee"].branch["new"].pc = "indices")
        BY <2>3 DEF Duties!Branches
      <4> QED BY <1>1, <2>3, <4>1 DEF Duties!Waiting, Duties!Branch
    <3>2. Duties!ComputeSyncPeriodAtEpoch(service["syncCommittee"].epoch)'
            = Duties!ComputeSyncPeriodAtEpoch(service["syncCommittee"].epoch)
      BY <1>1, <2>3 DEF Duties!ComputeSyncPeriodAtEpoch
    <3>3. \A k : SyncCovered(k) => SyncCovered(k)'
      BY <1>1, <2>3, <3>2 DEF SyncCovered
    <3> QED BY <1>1, <2>3, <3>1, <3>3 DEF DutyInv, SyncServed
  <2> QED BY <2>1, <2>2, <2>3
<1> QED BY <1>1, <1>2, <1>3, <1>4, <1>5 DEF DutyInv

LEMMA PollFailsIsKept ==
  ASSUME DutyConstants, DutyInv, NEW svc \in Duties!Services, NEW b \in Duties!Branches,
         Duties!PollDutiesFails(svc, b)
  PROVE  DutyInv'
<1> DEFINE adv == Duties!Advance(svc, b)
           u == [service[svc] EXCEPT !.branch = adv, !.failed = TRUE]
<1>1. /\ service[svc].branch[b].pc \in {"current", "next"}
      /\ service' = [service EXCEPT ![svc].branch = adv, ![svc].failed = TRUE]
      /\ UNCHANGED <<epoch, nodeFork, indices, poll, dutiesOfKey, syncDuties, lastAnswer>>
  BY DEF Duties!PollDutiesFails, Duties!Branch
<1>2. service[svc] \in ServiceStates BY DEF DutyInv, DutyTypes
<1>3. /\ adv \in [Duties!Branches -> BranchStates] /\ adv[b].keys = service[svc].branch[b].keys
      /\ \A c \in Duties!Branches : c # b => adv[c] = service[svc].branch[c]
  BY <1>1, AdvanceType
<1> HIDE DEF adv
<1>4. service' = [service EXCEPT ![svc] = u] BY <1>1, <1>2 DEF DutyInv, DutyTypes, ServiceStates
<1>5. /\ u \in ServiceStates /\ u.branch = adv /\ (u.on => service[svc].on) /\ u.failed = TRUE
      /\ u.epoch = service[svc].epoch /\ u.expected = service[svc].expected
  BY <1>2, <1>3 DEF ServiceStates
<1> HIDE DEF u
<1>6. PICK v \in ServiceStates : v = u BY <1>5
<1>7. service' = [service EXCEPT ![svc] = v] BY <1>4, <1>6
<1>8. /\ v.on => service[svc].on
      /\ v.epoch = service[svc].epoch /\ v.expected = service[svc].expected /\ v.failed
      /\ \A c \in Duties!Branches : c # b => v.branch[c] = service[svc].branch[c]
      /\ v.branch[b].keys \subseteq service[svc].branch[b].keys
      /\ service[svc].branch[b].pc = "done" => v.branch[b].pc = "done"
  BY <1>1, <1>3, <1>5, <1>6
<1>9. /\ epoch' = epoch /\ nodeFork' = nodeFork /\ indices' = indices /\ poll' = poll
      /\ dutiesOfKey' = dutiesOfKey /\ syncDuties' = syncDuties /\ lastAnswer' = lastAnswer
  BY <1>1
<1> QED BY <1>6, <1>7, <1>8, <1>9, BranchEnds

LEMMA EndBranchKeeps ==
  ASSUME DutyConstants, DutyInv, NEW svc \in Duties!Services, NEW b \in Duties!Branches,
         Duties!EndBranch(svc, b)
  PROVE  DutyInv'
<1> DEFINE done == Duties!Done
           branches == [service[svc].branch EXCEPT ![b] = done]
           u == [service[svc] EXCEPT !.branch = branches]
<1>1. /\ service[svc].branch[b].pc = "subscribe"
      /\ service' = [service EXCEPT ![svc].branch[b] = done]
      /\ UNCHANGED <<epoch, nodeFork, indices, poll, dutiesOfKey, syncDuties, lastAnswer>>
  BY DEF Duties!EndBranch, Duties!Branch
<1>2. /\ service[svc] \in ServiceStates
      /\ service[svc].branch \in [Duties!Branches -> BranchStates]
  BY DEF DutyInv, DutyTypes, ServiceStates
<1>3. done \in BranchStates /\ done.keys = {} /\ done.pc = "done"
  BY DEF Duties!Done, BranchStates
<1> HIDE DEF done
<1>4. /\ branches \in [Duties!Branches -> BranchStates] /\ branches[b] = done
      /\ \A c \in Duties!Branches : c # b => branches[c] = service[svc].branch[c]
  BY <1>2, <1>3
<1>5. service' = [service EXCEPT ![svc] = u] BY <1>1, <1>2 DEF DutyInv, DutyTypes, ServiceStates
<1> HIDE DEF branches
<1>6. /\ u \in ServiceStates /\ u.branch = branches /\ u.on = service[svc].on
      /\ u.failed = service[svc].failed
      /\ u.epoch = service[svc].epoch /\ u.expected = service[svc].expected
  BY <1>2, <1>4 DEF ServiceStates
<1> HIDE DEF u
<1>7. PICK v \in ServiceStates : v = u BY <1>6
<1>8. service' = [service EXCEPT ![svc] = v] BY <1>5, <1>7
<1>9. /\ v.on => service[svc].on
      /\ v.epoch = service[svc].epoch /\ v.expected = service[svc].expected
      /\ v.failed \/ ~service[svc].failed
      /\ \A c \in Duties!Branches : c # b => v.branch[c] = service[svc].branch[c]
      /\ v.branch[b].keys \subseteq service[svc].branch[b].keys
      /\ v.branch[b].pc = "done"
  BY <1>3, <1>4, <1>6, <1>7
<1>10. /\ epoch' = epoch /\ nodeFork' = nodeFork /\ indices' = indices /\ poll' = poll
       /\ dutiesOfKey' = dutiesOfKey /\ syncDuties' = syncDuties /\ lastAnswer' = lastAnswer
       /\ service[svc].branch[b].pc = "subscribe"
  BY <1>1
<1>11. CASE v.failed BY <1>7, <1>8, <1>9, <1>10, <1>11, BranchEnds
<1>12. CASE ~service[svc].failed BY <1>7, <1>8, <1>9, <1>10, <1>12, BranchEnds
<1> QED BY <1>9, <1>11, <1>12

LEMMA PruneDutiesKeeps ==
  ASSUME DutyConstants, DutyInv, NEW svc \in Duties!Services, Duties!PruneOldDuties(svc)
  PROVE  DutyInv'
<1> DEFINE t == service[svc]
           u == [t EXCEPT !.on = FALSE]
<1>1. /\ service' = [service EXCEPT ![svc].on = FALSE]
      /\ UNCHANGED <<epoch, nodeFork, indices, poll, lastAnswer>>
      /\ svc = "attester" =>
           /\ syncDuties' = syncDuties
           /\ dutiesOfKey' = [k \in Validators |-> [e \in Duties!Epochs |->
                 IF e + Duties!HISTORICAL_DUTIES_EPOCHS < t.epoch THEN NoRoot ELSE dutiesOfKey[k][e]]]
      /\ svc # "attester" =>
           /\ dutiesOfKey' = dutiesOfKey
           /\ syncDuties' = [p \in Duties!Periods |->
                 IF p + Duties!HISTORICAL_DUTIES_PERIODS < Duties!ComputeSyncPeriodAtEpoch(t.epoch)
                 THEN [k \in Validators |-> NoRoot] ELSE syncDuties[p]]
  BY DEF Duties!PruneOldDuties
<1>2. t \in ServiceStates BY DEF DutyInv, DutyTypes
<1>3. /\ u \in ServiceStates /\ u.on = FALSE /\ u.branch = t.branch /\ u.epoch = t.epoch
      /\ service' = [service EXCEPT ![svc] = u]
  BY <1>1, <1>2 DEF ServiceStates, DutyInv, DutyTypes
<1> HIDE DEF u
<1>4. /\ service' \in [Duties!Services -> ServiceStates]
      /\ service'[svc] = u /\ \A w \in Duties!Services : w # svc => service'[w] = service[w]
  BY <1>3 DEF DutyInv, DutyTypes
<1>5. BranchesAreKnown'
  <2>1. ASSUME NEW w \in Duties!Services
        PROVE  /\ service'[w].on => service'[w].epoch >= 0
               /\ \A c \in Duties!Branches :
                    /\ service'[w].branch[c].keys \subseteq indices
                    /\ service'[w].branch[c].pc # "done" => service'[w].epoch >= 0
    <3>1. CASE w # svc BY <1>4, <3>1 DEF DutyInv, BranchesAreKnown
    <3>2. CASE w = svc BY <1>3, <1>4, <3>2 DEF DutyInv, BranchesAreKnown
    <3> QED BY <3>1, <3>2
  <2> QED BY <1>1, <2>1 DEF DutyInv, BranchesAreKnown
<1>6. CASE svc = "attester"
  <2>1. \A k \in Validators, e \in Duties!Epochs : dutiesOfKey'[k][e] \in {NoRoot, dutiesOfKey[k][e]}
    BY <1>1, <1>6
  <2>2. dutiesOfKey' \in [Validators -> [Duties!Epochs -> Forks \union {NoRoot}]]
    BY <1>1, <1>6 DEF DutyInv, DutyTypes
  <2>3. DutyTypes' BY <1>1, <1>4, <1>6, <2>2 DEF DutyInv, DutyTypes
  <2>4. Duties!DutiesAreLatestAnswer' BY <1>1, <2>1 DEF DutyInv, Duties!DutiesAreLatestAnswer
  <2>5. AttesterServed' BY <1>3, <1>4, <1>6 DEF AttesterServed
  <2>6. SyncServed' BY <1>1, <1>4, <1>6, SyncFrame DEF Duties!Services
  <2> QED BY <1>5, <2>3, <2>4, <2>5, <2>6 DEF DutyInv
<1>7. CASE svc # "attester"
  <2>1. svc = "syncCommittee" BY <1>7 DEF Duties!Services
  <2>2. syncDuties' \in [Duties!Periods -> [Validators -> Forks \union {NoRoot}]]
    BY <1>1, <1>7 DEF DutyInv, DutyTypes
  <2>3. DutyTypes' BY <1>1, <1>4, <1>7, <2>2 DEF DutyInv, DutyTypes
  <2>4. Duties!DutiesAreLatestAnswer' BY <1>1, <1>7 DEF DutyInv, Duties!DutiesAreLatestAnswer
  <2>5. SyncServed' BY <1>3, <1>4, <2>1 DEF SyncServed
  <2>6. AttesterServed' BY <1>1, <1>4, <1>7, AttesterFrame DEF Duties!Services
  <2> QED BY <1>5, <2>3, <2>4, <2>5, <2>6 DEF DutyInv
<1> QED BY <1>6, <1>7

LEMMA DutyNext ==
  ASSUME DutyConstants, DutyInv, [Duties!Next]_Duties!vars
  PROVE  DutyInv'
<1>1. ASSUME UNCHANGED <<indices, poll, dutiesOfKey, syncDuties, service, lastAnswer>>,
             epoch' \in 0..MaxEpoch, nodeFork' \in Forks
      PROVE  DutyInv'
  <2>1. DutyTypes' /\ BranchesAreKnown' /\ Duties!DutiesAreLatestAnswer'
    BY <1>1 DEF DutyInv, DutyTypes, BranchesAreKnown, Duties!DutiesAreLatestAnswer
  <2>2. AttesterServed' /\ SyncServed' BY <1>1, AttesterFrame, SyncFrame
  <2> QED BY <2>1, <2>2 DEF DutyInv
<1>2. epoch \in 0..MaxEpoch /\ nodeFork \in Forks BY DEF DutyInv, DutyTypes
<1>3. CASE Duties!NewEpoch
  <2>1. epoch' \in 0..MaxEpoch BY <1>2, <1>3 DEF Duties!NewEpoch, DutyConstants
  <2> QED BY <1>1, <1>2, <1>3, <2>1 DEF Duties!NewEpoch
<1>4. CASE Duties!Reorg BY <1>1, <1>2, <1>4 DEF Duties!Reorg
<1>5. ASSUME NEW k \in Validators, Duties!DepositProcessed(k) PROVE DutyInv'
  BY <1>1, <1>2, <1>5 DEF Duties!DepositProcessed
<1>6. CASE UNCHANGED Duties!vars BY <1>1, <1>2, <1>6 DEF Duties!vars
<1>7. ASSUME NEW b \in Duties!Branches, Duties!SubscribeCommittees(b) \/ Duties!SubscribeSyncSubnets(b)
      PROVE DutyInv'
  BY <1>7, EndBranchKeeps DEF Duties!SubscribeCommittees, Duties!SubscribeSyncSubnets, Duties!Services
<1> QED
  BY <1>3, <1>4, <1>5, <1>6, <1>7, RunDutiesTasksKeeps, FetchIndicesKeeps, ResolvesKeeps, RejectsKeeps,
     PollAttestersKeeps, PollSyncKeeps, PollFailsIsKept, PruneDutiesKeeps DEF Duties!Next

\* A task that has ended with all its requests answered has nothing left to ask.
LEMMA DutiesAreThere ==
  ASSUME DutyConstants, DutyInv
  PROVE  Duties!NoKeyWithoutDuties
<1>1. ASSUME NEW k \in Duties!Expected("attester"), NEW a \in {0, 1}
      PROVE  dutiesOfKey[k][service["attester"].epoch + a] # NoRoot
  <2>1. /\ service["attester"].on /\ ~service["attester"].failed
        /\ \A b \in Duties!Branches : service["attester"].branch[b].pc = "done"
        /\ k \in service["attester"].expected
    BY <1>1 DEF Duties!Expected, Duties!Branch, Duties!Done
  <2>2. ~Duties!Waiting("attester") BY <2>1 DEF Duties!Waiting, Duties!Branch, Duties!Branches
  <2>3. AttesterCovered(k, a) BY <2>1, <2>2 DEF DutyInv, AttesterServed
  <2> QED BY <2>1, <2>3 DEF AttesterCovered
<1>2. ASSUME NEW k \in Duties!Expected("syncCommittee"),
             \A f \in Forks :
               k \in Member[f][Duties!ComputeSyncPeriodAtEpoch(service["syncCommittee"].epoch)]
      PROVE  syncDuties[Duties!ComputeSyncPeriodAtEpoch(service["syncCommittee"].epoch)][k] # NoRoot
  <2>1. /\ service["syncCommittee"].on /\ ~service["syncCommittee"].failed
        /\ \A b \in Duties!Branches : service["syncCommittee"].branch[b].pc = "done"
        /\ k \in service["syncCommittee"].expected
    BY <1>2 DEF Duties!Expected, Duties!Branch, Duties!Done
  <2>2. ~Duties!Waiting("syncCommittee") BY <2>1 DEF Duties!Waiting, Duties!Branch, Duties!Branches
  <2>3. SyncCovered(k) BY <2>1, <2>2 DEF DutyInv, SyncServed
  <2> QED BY <1>2, <2>1, <2>3 DEF SyncCovered
<1> QED BY <1>1, <1>2 DEF Duties!NoKeyWithoutDuties

-----------------------------------------------------------------------------
\* Attestations are made for each slot once and in order although the timers of
\* runAtMostEvery fire early or late; the proposer an answer names is notified
\* although the duties change with it; the duties kept are those of the last
\* answer; and no key with an index falls between the two branches of a duties
\* task and the promise that it shares with the other service.  For any keys,
\* chains, lengths of an epoch and of a period, re-orgs and failures.
THEOREM ClientServesDuties ==
  ASSUME TaskConstants, DutyConstants
  PROVE  MCSpec => []DutiesAreServed
<1> DEFINE I == (part = "tasks" => TaskInv) /\ (part = "duties" => DutyInv)
<1>1. MCInit => I BY TaskInit, DutyInit DEF MCInit
<1>2. I /\ [MCNext]_allVars => I'
  <2> SUFFICES ASSUME I, [MCNext]_allVars PROVE I' OBVIOUS
  <2>1. ASSUME part' = "tasks" PROVE TaskInv'
    <3>1. part = "tasks" BY <2>1 DEF MCNext, allVars
    <3>2. CASE UNCHANGED allVars
      <4>1. UNCHANGED Tasks!vars BY <3>2 DEF allVars, registers, Tasks!vars
      <4> QED BY <3>1, <4>1, TaskNext
    <3>3. CASE MCNext
      <4>1. Tasks!Next BY <3>1, <3>3 DEF MCNext
      <4> QED BY <3>1, <4>1, TaskNext
    <3> QED BY <3>2, <3>3
  <2>2. ASSUME part' = "duties" PROVE DutyInv'
    <3>1. part = "duties" BY <2>2 DEF MCNext, allVars
    <3>2. CASE UNCHANGED allVars
      <4>1. UNCHANGED Duties!vars BY <3>2 DEF allVars, registers, Duties!vars
      <4> QED BY <3>1, <4>1, DutyNext
    <3>3. CASE MCNext
      <4>1. Duties!Next BY <3>1, <3>3 DEF MCNext
      <4> QED BY <3>1, <4>1, DutyNext
    <3> QED BY <3>2, <3>3
  <2> QED BY <2>1, <2>2
<1>3. I => DutiesAreServed
  BY DutiesAreThere DEF TaskInv, DutyInv, DutiesAreServed
<1> QED BY <1>1, <1>2, <1>3, PTL DEF MCSpec
=============================================================================
