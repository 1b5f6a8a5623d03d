---------------------------- MODULE ValidatorApi ----------------------------
(***************************************************************************)
(* What the node answers its validators (api/impl/validator/index.ts and   *)
(* chain/factory): duties of an epoch, attestation data and blocks to      *)
(* sign.  A request looks at the sync state, may wait for a slot to start, *)
(* takes the head, waits for a state of it, and answers; meanwhile the     *)
(* clock ticks, blocks come, and the head moves between branches.          *)
(*                                                                         *)
(* Blocks are numbered; block 1 is the genesis block.  A state is named by *)
(* its last block and its slot.                                            *)
(***************************************************************************)
EXTENDS Integers, Sequences, FiniteSets, FiniteSetsExt

CONSTANTS
    SLOTS_PER_EPOCH,
    SYNC_TOLERANCE_EPOCHS,
    MaxSlot,
    MaxBlocks,
    MaxAnswers  \* bound on the answers kept, which are of one kind

VARIABLES
    slot,       \* the clock
    tree,       \* sequence of blocks [slot, parent]
    head,
    request,    \* the request in flight
    answers     \* what was answered

vars == <<slot, tree, head, request, answers>>

GENESIS == 1
ZeroHash == 0
SignedGenesisRoot == -1     \* the hash of the signed genesis block, which is not its root

EpochAt(s) == s \div SLOTS_PER_EPOCH
StartSlot(e) == e * SLOTS_PER_EPOCH
CurrentEpoch == EpochAt(slot)

\* The blocks of a chain, and the last of them that is not after a slot (getBlockRootAtSlot).
Chain(b) ==
    LET chain[c \in 1..Len(tree)] == IF c = GENESIS THEN {c} ELSE {c} \cup chain[tree[c].parent] IN chain[b]
BlockRootAtSlot(b, s) == CHOOSE c \in Chain(b) : tree[c].slot <= s /\ \A d \in Chain(b) : tree[d].slot <= s => tree[d].slot <= tree[c].slot

---------------------------------------------------------------------------
(* What a state decides.                                                   *)

\* The block that decides the committees of an epoch: the last one before the epoch before.
DecidesCommittees(b, e) == BlockRootAtSlot(b, Max({StartSlot(e - 1) - 1, 0}))
\* The block that decides the proposers of an epoch: the last one before the epoch.
DecidesProposers(b, e) == BlockRootAtSlot(b, Max({StartSlot(e) - 1, 0}))

\* proposerShufflingDecisionRoot; null stands for the genesis block.
ProposerShufflingDecisionRoot(state) ==
    LET decision == Max({StartSlot(EpochAt(state.slot)) - 1, 0})
    IN  IF state.slot = decision THEN ZeroHash ELSE BlockRootAtSlot(state.block, decision)

\* attesterShufflingDecisionEpoch
AttesterShufflingDecisionEpoch(state, e) ==
    LET current == EpochAt(state.slot)
        previous == Max({current - 1, 0})
    IN  CASE e = current + 1 -> current
          [] e = current -> previous
          [] e = current - 1 -> Max({previous - 1, 0})

\* attesterShufflingDecisionRoot
AttesterShufflingDecisionRoot(state, e) ==
    LET decision == Max({StartSlot(AttesterShufflingDecisionEpoch(state, e)) - 1, 0})
    IN  IF state.slot = decision THEN ZeroHash ELSE BlockRootAtSlot(state.block, decision)

\* getGenesisBlockRoot: of the signed block, when the database has it.
OrGenesis(root) == IF root = ZeroHash THEN SignedGenesisRoot ELSE root

---------------------------------------------------------------------------
(* Requests.                                                               *)

Idle == [kind |-> "none"]
IsEpochKind(kind) == kind \in {"proposer", "attester"}

\* notWhileSyncing, with or without a chain of the range sync running: a node without running chain is synced when its head is near the clock
\* and stalled otherwise.
NotWhileSyncing(syncing) ==
    \/ slot < SLOTS_PER_EPOCH
    \/ slot - tree[head].slot <= IF syncing THEN SYNC_TOLERANCE_EPOCHS * SLOTS_PER_EPOCH ELSE SLOTS_PER_EPOCH

\* produceBlock, produceAttestationData, getProposerDuties, getAttesterDuties up to the wait
\* for a slot that is about to start.  (waitForSlot, waitForNextClosestEpoch)
Request(kind, at) ==
    /\ request = Idle /\ \E syncing \in BOOLEAN : NotWhileSyncing(syncing)
    /\ Cardinality(answers) < MaxAnswers /\ \A a \in answers : a.kind = kind /\ IsEpochKind(kind)
    /\ at \in IF IsEpochKind(kind) THEN 0..(CurrentEpoch + 2) ELSE {slot, slot + 1}
    /\ request' = [kind |-> kind, at |-> at, step |-> "slot"]
    /\ UNCHANGED <<slot, tree, head, answers>>

\* Whether the wait is over.  Waits for a slot further away are not made.
WaitedFor(r) ==
    CASE r.kind \in {"block", "attestation"} -> r.at <= slot
      [] r.kind = "proposer" -> StartSlot(r.at) <= slot \/ slot + 1 < StartSlot(r.at)
      [] r.kind = "attester" -> TRUE

\* getHeadStateAtCurrentEpoch, or getBlockSlotState of the head at the slot asked for.
StateSlot(r) == IF IsEpochKind(r.kind) THEN Max({StartSlot(CurrentEpoch), tree[head].slot}) ELSE r.at

\* The head is taken, and its state asked for; there is no state before the block.
TakeHead ==
    /\ request # Idle /\ request.step = "slot" /\ WaitedFor(request)
    /\ IF \/ request.kind = "attester" /\ request.at > CurrentEpoch + 1
          \/ StateSlot(request) < tree[head].slot
       THEN request' = Idle
       ELSE request' = [kind |-> request.kind, at |-> request.at, step |-> "state", root |-> head,
                        state |-> [block |-> head, slot |-> StateSlot(request)]]
    /\ UNCHANGED <<slot, tree, head, answers>>

\* Mutant: the head is read again when the state is there.
AssembleWithLatestHead(r) ==
    [kind |-> "attestation", slot |-> r.at, beaconBlockRoot |-> head,
     target |-> IF StartSlot(EpochAt(r.state.slot)) = r.state.slot THEN head
                ELSE BlockRootAtSlot(r.state.block, StartSlot(EpochAt(r.state.slot)))]

\* assembleAttestationData; the source goes with the state.
AssembleAttestationData(r) ==
    [kind |-> "attestation", slot |-> r.at, beaconBlockRoot |-> r.root,
     target |-> IF StartSlot(EpochAt(r.state.slot)) = r.state.slot THEN r.root
                ELSE BlockRootAtSlot(r.state.block, StartSlot(EpochAt(r.state.slot)))]

\* assembleBlock: the proposer is the one of the state.
AssembleBlock(r) ==
    [kind |-> "block", slot |-> r.at, parent |-> r.root, proposerBy |-> DecidesProposers(r.state.block, EpochAt(r.state.slot))]

\* getProposerDuties; getBeaconProposer throws for an epoch that is not the state's.
ProposerDuties(r) ==
    IF r.at # EpochAt(r.state.slot) THEN {}
    ELSE {[kind |-> "proposer", epoch |-> r.at, by |-> DecidesProposers(r.state.block, r.at),
           dependentRoot |-> OrGenesis(ProposerShufflingDecisionRoot(r.state))]}

\* getAttesterDuties; the state has the shufflings of three epochs.
AttesterDuties(r) ==
    LET current == EpochAt(r.state.slot)
    IN  IF r.at \notin {Max({current - 1, 0}), current, current + 1} THEN {}
        ELSE {[kind |-> "attester", epoch |-> r.at, by |-> DecidesCommittees(r.state.block, r.at),
               dependentRoot |-> OrGenesis(AttesterShufflingDecisionRoot(r.state, r.at))]}

Answer ==
    /\ request # Idle /\ request.step = "state" /\ request' = Idle
    /\ answers' = answers \cup
        CASE request.kind = "attestation" -> {AssembleAttestationData(request)}
          [] request.kind = "block" -> {AssembleBlock(request)}
          [] request.kind = "proposer" -> ProposerDuties(request)
          [] request.kind = "attester" -> AttesterDuties(request)
    /\ UNCHANGED <<slot, tree, head>>

---------------------------------------------------------------------------
(* The chain.                                                              *)

Tick ==
    /\ slot < MaxSlot /\ slot' = slot + 1
    /\ UNCHANGED <<tree, head, request, answers>>

\* A block of the current slot is imported; the head becomes that block or stays.
ImportBlock(parent) ==
    /\ Len(tree) < MaxBlocks /\ tree[parent].slot < slot
    /\ tree' = Append(tree, [slot |-> slot, parent |-> parent])
    /\ head' \in {head, Len(tree) + 1}
    /\ UNCHANGED <<slot, request, answers>>

\* Votes move the head.
MoveHead(b) == head' = b /\ b # head /\ UNCHANGED <<slot, tree, request, answers>>

Init ==
    /\ slot = 0 /\ tree = <<[slot |-> 0, parent |-> 0]>> /\ head = GENESIS
    /\ request = Idle /\ answers = {}

Next ==
    \/ Tick
    \/ \E b \in 1..Len(tree) : ImportBlock(b) \/ MoveHead(b)
    \/ \E kind \in {"block", "attestation", "proposer", "attester"}, at \in 0..(MaxSlot + 1) : Request(kind, at)
    \/ TakeHead \/ Answer

Spec == Init /\ [][Next]_vars

---------------------------------------------------------------------------
\* What is answered belongs to one branch, though the head moves while the state is made: the
\* target of an attestation is the block of its head at the start of its epoch, and the
\* proposer of a block is the one its parent's chain gives its slot.
AnswersAreCoherent ==
    \A a \in answers :
        /\ a.kind = "attestation" => a.target = BlockRootAtSlot(a.beaconBlockRoot, StartSlot(EpochAt(a.slot)))
        /\ a.kind = "block" => a.proposerBy = DecidesProposers(a.parent, EpochAt(a.slot))

\* Validators keep duties until the dependent root changes: two answers for an epoch with the
\* same dependent root are the same duties, on whatever branches and in whatever epochs they
\* were asked for.
DependentRootDecides ==
    \A a, b \in answers :
        (a.kind \in {"proposer", "attester"} /\ b.kind = a.kind /\ a.epoch = b.epoch /\ a.dependentRoot = b.dependentRoot)
            => a.by = b.by
=============================================================================
