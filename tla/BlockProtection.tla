-------------------------- MODULE BlockProtection ---------------------------
(***************************************************************************)
(* Slashing protection for the block proposals of one validator key, from  *)
(* packages/validator/src/slashingProtection/block/service.ts, with the    *)
(* caller signBlock of services/validatorStore.ts.                         *)
(*                                                                         *)
(* Every access to the database is an action, and so is the signature that *)
(* follows; calls are lost in a crash, the database is not.  Signers are   *)
(* the callers that may be inside the service at a time: block production  *)
(* is not awaited, so two may be, and the service takes no lock.           *)
(***************************************************************************)
EXTENDS Integers

CONSTANTS
    MaxSlot,       \* bound: the last slot
    Roots,         \* signing roots of the blocks; one root stands for one block
    SlotOf,        \* SlotOf[r] is the slot of the block with signing root r
    ZERO_ROOT,     \* the signing root of an imported block that comes without one
    ImportFiles,   \* sets of blocks that interchange files may hold: [slot, root]
    Signers,
    MaxCrashes     \* bound: how often the process may crash

Slots == 0..MaxSlot
Blocks == [slot : Slots, root : Roots \union {ZERO_ROOT}]
None == -1

ASSUME SlotsAssumption == MaxSlot \in Nat /\ SlotOf \in [Roots -> Slots]
ASSUME RootsAssumption == Roots \union {ZERO_ROOT} \subseteq Nat /\ ZERO_ROOT \notin Roots
ASSUME FilesAssumption ==
    \A file \in ImportFiles :
        /\ file \subseteq Blocks
        /\ \A b \in file : b.root # ZERO_ROOT => b.slot = SlotOf[b.root]
        /\ \A b, d \in file : b.slot = d.slot => b = d
ASSUME CrashesAssumption == MaxCrashes \in Nat

VARIABLES
    blockBySlot,   \* signing root of the proposal recorded for a slot
    op,            \* the call each signer is in
    currentSlot,   \* the clock of the validator client
    signed,        \* proposals signed
    imported,      \* proposals of imported files
    overlapped,    \* history: slots for which two calls with different blocks found
                   \* no proposal, both before either had recorded its own
    crashes

vars == <<blockBySlot, op, currentSlot, signed, imported, overlapped, crashes>>

Idle == [pc |-> "idle", root |-> ZERO_ROOT]

\* What signBlock shows to the service.
Proposal(root) == [slot |-> SlotOf[root], root |-> root]

History == signed \union imported

Init ==
    /\ blockBySlot = [slot \in Slots |-> None]
    /\ op = [s \in Signers |-> Idle]
    /\ currentSlot = 0
    /\ signed = {}
    /\ imported = {}
    /\ overlapped = {}
    /\ crashes = 0

-----------------------------------------------------------------------------
Enter(s, pc, root) == op' = [op EXCEPT ![s] = [pc |-> pc, root |-> root]]
End(s) == op' = [op EXCEPT ![s] = Idle]

\* A call that has found no proposal for the slot of its block, and recorded none.
Checking(s) == op[s].pc \in {"first", "insert"}

\* Mutant: a recorded proposal without a root passes for the same block.
UnknownRootMatches(r1, r2) == r1 = ZERO_ROOT \/ r1 = r2

\* isEqualNonZeroRoot
IsEqualNonZeroRoot(r1, r2) == r1 # ZERO_ROOT /\ r2 # ZERO_ROOT /\ r1 = r2

\* A call for another block of the slot is between its check and its insertion.
Overlaps(root) ==
    \E t \in Signers : Checking(t) /\ op[t].root # root /\ SlotOf[op[t].root] = SlotOf[root]

\* signBlock, and checkBlockProposal up to the answer of blockBySlot.get: a block
\* of a later slot than the clock's is refused, a repeated block is signed again,
\* another block for the same slot is refused.
CheckSameSlot(s, root) ==
    LET same == blockBySlot[SlotOf[root]]
    IN /\ op[s].pc = "idle"
       /\ SlotOf[root] <= currentSlot
       /\ CASE same = None -> Enter(s, "first", root)
            [] same # None /\ IsEqualNonZeroRoot(same, root) -> Enter(s, "sign", root)
            [] OTHER -> End(s)
       /\ overlapped' = overlapped \union
                          IF same = None /\ Overlaps(root) THEN {SlotOf[root]} ELSE {}
       /\ UNCHANGED <<blockBySlot, currentSlot, signed, imported, crashes>>

\* checkBlockProposal, its second read: no block at or before the first recorded.
CheckFirst(s) ==
    LET recorded == {slot \in Slots : blockBySlot[slot] # None}
    IN /\ op[s].pc = "first"
       /\ op' = [op EXCEPT ![s] = IF \E min \in recorded : /\ \A slot \in recorded : min <= slot
                                                           /\ SlotOf[op[s].root] <= min
                                  THEN Idle ELSE [@ EXCEPT !.pc = "insert"]]
       /\ UNCHANGED <<blockBySlot, currentSlot, signed, imported, overlapped, crashes>>

\* insertBlockProposal: blockBySlot.set, whatever is there by now.
InsertBlockProposal(s) ==
    /\ op[s].pc = "insert"
    /\ blockBySlot' = [blockBySlot EXCEPT ![SlotOf[op[s].root]] = op[s].root]
    /\ Enter(s, "sign", op[s].root)
    /\ UNCHANGED <<currentSlot, signed, imported, overlapped, crashes>>

\* signBlock, after checkAndInsertBlockProposal: the signature.
SignBlock(s) ==
    /\ op[s].pc = "sign"
    /\ signed' = signed \union {Proposal(op[s].root)}
    /\ End(s)
    /\ UNCHANGED <<blockBySlot, currentSlot, imported, overlapped, crashes>>

\* importBlocks, while nothing is signed.
ImportBlocks(file) ==
    /\ op = [s \in Signers |-> Idle]
    /\ blockBySlot' = [slot \in Slots |->
                         IF \E b \in file : b.slot = slot
                         THEN (CHOOSE b \in file : b.slot = slot).root ELSE blockBySlot[slot]]
    /\ imported' = imported \union file
    /\ UNCHANGED <<op, currentSlot, signed, overlapped, crashes>>

\* External: the clock, and the end of the process.
Tick ==
    /\ currentSlot < MaxSlot
    /\ currentSlot' = currentSlot + 1
    /\ UNCHANGED <<blockBySlot, op, signed, imported, overlapped, crashes>>

Crash ==
    /\ crashes < MaxCrashes
    /\ op # [s \in Signers |-> Idle]
    /\ crashes' = crashes + 1
    /\ op' = [s \in Signers |-> Idle]
    /\ UNCHANGED <<blockBySlot, currentSlot, signed, imported, overlapped>>

Next ==
    \/ \E s \in Signers, root \in Roots : CheckSameSlot(s, root)
    \/ \E s \in Signers : CheckFirst(s)
    \/ \E s \in Signers : InsertBlockProposal(s)
    \/ \E s \in Signers : SignBlock(s)
    \/ \E file \in ImportFiles : ImportBlocks(file)
    \/ Tick
    \/ Crash

Spec == Init /\ [][Next]_vars

-----------------------------------------------------------------------------
\* The repository, the calls under way and the history have their types.
TypeOK ==
    /\ blockBySlot \in [Slots -> Roots \union {ZERO_ROOT, None}]
    /\ op \in [Signers -> [pc : {"idle", "first", "insert", "sign"}, root : Roots \union {ZERO_ROOT}]]
    /\ currentSlot \in Slots
    /\ signed \subseteq Blocks
    /\ imported \subseteq Blocks
    /\ overlapped \subseteq Slots
    /\ crashes \in 0..MaxCrashes

\* signBlock never signs a second block for a slot that it, or an imported file,
\* has a proposal for: not after a crash before or after the record, an import
\* that replaces records, a repeated request, or a call for another slot in
\* between.  The only way to two is two calls with different blocks of the slot
\* that both looked before either recorded, which the missing lock of
\* checkAndInsertBlockProposal allows.
NeverDoubleProposes ==
    [][\A b \in signed' \ History, d \in History : b.slot = d.slot => b.slot \in overlapped]_vars

\* What is signed, and what is about to be, is on record, so that a restart
\* knows it: for every proposal signed or imported the database has one for that
\* slot, however calls overlap.
SignedIsRecorded ==
    /\ \A b \in History : blockBySlot[b.slot] # None
    /\ \A s \in Signers : op[s].pc = "sign" => blockBySlot[SlotOf[op[s].root]] # None

\* Unless calls overlapped, a recorded signing root is that of a proposal signed or
\* imported for the slot, or nothing was (a crash came before the signature).
RecordIsHistory ==
    \A slot \in Slots \ overlapped : blockBySlot[slot] \in Roots =>
        \/ [slot |-> slot, root |-> blockBySlot[slot]] \in History
        \/ \A d \in History : d.slot # slot

\* Unless calls overlapped, one between check and insertion is for a slot that has
\* no record but of the same block, and one that is to sign has recorded its block.
CallsAgree ==
    \A s \in Signers : op[s].pc # "idle" =>
        /\ op[s].root \in Roots
        /\ SlotOf[op[s].root] \notin overlapped =>
             /\ Checking(s) => /\ blockBySlot[SlotOf[op[s].root]] \in {None, op[s].root}
                              /\ ~Overlaps(op[s].root)
             /\ op[s].pc = "sign" => blockBySlot[SlotOf[op[s].root]] = op[s].root

\* The inductive invariant.
Inv == TypeOK /\ SignedIsRecorded /\ RecordIsHistory /\ CallsAgree
=============================================================================
