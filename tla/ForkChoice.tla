----------------------------- MODULE ForkChoice -----------------------------
(***************************************************************************)
(* The fork choice of packages/fork-choice/src/forkChoice as the chain     *)
(* drives it: block imports (runStateTransition), attestations of imported *)
(* blocks, clock slots, replays of known blocks by the state regenerator,  *)
(* and the pruning that follows a finalized checkpoint.                    *)
(*                                                                         *)
(* fc holds the fields of the ForkChoice object and of its store.  All of  *)
(* its methods are synchronous, so each is an operator from fc to fc, and  *)
(* one callback of the event loop is one action.                           *)
(*                                                                         *)
(* The first part is the block DAG of packages/fork-choice/src/protoArray: *)
(* an array of nodes in insertion order with parent, best-child and        *)
(* best-descendant links, and a map from block roots to positions.  The    *)
(* class is modelled as operators on its fields, kept in a record pa with  *)
(* fields nodes, indices, justifiedEpoch and finalizedEpoch.  Positions    *)
(* start at 1, and 0 stands for undefined.  Roots are numbers, ordered as  *)
(* the code orders their hex strings; the zero hash is root 0.             *)
(***************************************************************************)
EXTENDS Integers, Sequences, FiniteSets, FiniteSetsExt, SequencesExt, Justification, TLC

-----------------------------------------------------------------------------
(* The proto array. *)

HEX_ZERO_HASH == 0
Undefined == 0

\* A ?? B
OrElse(a, b) == IF a # Undefined THEN a ELSE b

HasBlock(pa, root) == root \in DOMAIN pa.indices
IndexOf(pa, root) == IF HasBlock(pa, root) THEN pa.indices[root] ELSE Undefined
GetNode(pa, root) == pa.nodes[pa.indices[root]]

-----------------------------------------------------------------------------
\* Any node with a different justified or finalized epoch is not viable.
NodeIsViableForHead(pa, node) ==
    /\ node.justifiedEpoch = pa.justifiedEpoch \/ pa.justifiedEpoch = 0
    /\ node.finalizedEpoch = pa.finalizedEpoch \/ pa.finalizedEpoch = 0

NodeLeadsToViableHead(pa, node) ==
    \/ /\ node.bestDescendant # Undefined
       /\ NodeIsViableForHead(pa, pa.nodes[node.bestDescendant])
    \/ NodeIsViableForHead(pa, node)

\* Look at parent p with respect to its child c, and update its best child and
\* best descendant.
MaybeUpdateBestChildAndDescendant(pa, p, c) ==
    LET parent == pa.nodes[p]
        child == pa.nodes[c]
        best == pa.nodes[parent.bestChild]
        leads == NodeLeadsToViableHead(pa, child)
        bestLeads == NodeLeadsToViableHead(pa, best)
        wins == \/ leads /\ ~bestLeads
                \/ /\ leads = bestLeads
                   /\ \/ child.weight > best.weight
                      \/ child.weight = best.weight /\ child.blockRoot >= best.blockRoot
        changeTo(newBest, newDescendant) ==
            [pa EXCEPT !.nodes[p].bestChild = newBest, !.nodes[p].bestDescendant = newDescendant]
        changeToChild == changeTo(c, OrElse(child.bestDescendant, c))
        changeToNull == changeTo(Undefined, Undefined)
    IN CASE parent.bestChild = c         -> IF leads THEN changeToChild ELSE changeToNull
         [] parent.bestChild = Undefined -> IF leads THEN changeToChild ELSE pa
         [] OTHER                        -> IF wins THEN changeToChild ELSE pa

\* The position i and its ancestors, youngest first: the order in which
\* iterateNodes and the loop of onBlock visit them.
AncestorIndices(pa, i) ==
    LET up[k \in 1..Len(pa.nodes)] ==
          IF pa.nodes[k].parent = Undefined THEN <<k>> ELSE <<k>> \o up[pa.nodes[k].parent]
    IN up[i]

\* The block at the end of the array, and in the map.
AppendNode(pa, block) ==
    LET i == Len(pa.nodes) + 1
        node == [blockRoot |-> block.blockRoot, slot |-> block.slot,
                 parentRoot |-> block.parentRoot, targetRoot |-> block.targetRoot,
                 justifiedEpoch |-> block.justifiedEpoch,
                 finalizedEpoch |-> block.finalizedEpoch,
                 parent |-> IndexOf(pa, block.parentRoot), weight |-> 0,
                 bestChild |-> Undefined, bestDescendant |-> Undefined]
    IN [pa EXCEPT !.nodes = Append(@, node),
                  !.indices = [r \in DOMAIN @ \union {block.blockRoot} |->
                                 IF r = block.blockRoot THEN i ELSE @[r]]]

\* The loop of onBlock: the links of every node of the line after the first, each with
\* respect to the one before.
RevisitLinks(pa, line) ==
    LET visited[k \in 0..(Len(line) - 1)] ==
          IF k = 0 THEN pa
          ELSE MaybeUpdateBestChildAndDescendant(visited[k - 1], line[k + 1], line[k])
    IN visited[Len(line) - 1]

\* onBlock: append the block, then revisit the links of all its ancestors.
ProtoOnBlock(pa, block) ==
    IF HasBlock(pa, block.blockRoot)
    THEN pa
    ELSE LET added == AppendNode(pa, block)
         IN RevisitLinks(added, AncestorIndices(added, Len(added.nodes)))

\* initialize: the array that holds the anchor block only.
ProtoInitialize(anchor) ==
    ProtoOnBlock([nodes |-> <<>>, indices |-> <<>>,
                  justifiedEpoch |-> anchor.justifiedEpoch,
                  finalizedEpoch |-> anchor.finalizedEpoch], anchor)

-----------------------------------------------------------------------------
\* Mutant: a changed vote is added to its new block but not taken from the old.
DeltasForgetOldVote(indices, votes, oldBalances, newBalances) ==
    [i \in 1..Cardinality(DOMAIN indices) |->
        MapThenSumSet(LAMBDA v : IF /\ votes[v].currentRoot # votes[v].nextRoot
                                    /\ votes[v].nextRoot \in DOMAIN indices
                                    /\ indices[votes[v].nextRoot] = i
                                 THEN newBalances[v] ELSE 0,
                      DOMAIN votes)]

\* computeDeltas: the change of weight of every position, from the votes that
\* moved and the balances that changed.  A root outside the map is ignored.
ComputeDeltas(indices, votes, oldBalances, newBalances) ==
    LET counts(v) == \/ votes[v].currentRoot # votes[v].nextRoot
                     \/ oldBalances[v] # newBalances[v]
        votesFor(root, i) == root \in DOMAIN indices /\ indices[root] = i
        deltaOf(v, i) == IF counts(v)
                         THEN   (IF votesFor(votes[v].nextRoot, i) THEN newBalances[v] ELSE 0)
                              - (IF votesFor(votes[v].currentRoot, i) THEN oldBalances[v] ELSE 0)
                         ELSE 0
    IN [i \in 1..Cardinality(DOMAIN indices) |->
          MapThenSumSet(LAMBDA v : deltaOf(v, i), DOMAIN votes)]

\* computeDeltas' side effect on the votes.
VotesApplied(votes) == [v \in DOMAIN votes |-> [votes[v] EXCEPT !.currentRoot = votes[v].nextRoot]]

\* A step of applyScoreChanges: add the node's delta to its weight, pass it on to its
\* parent, and at once update the parent's links.
ScoreNode(acc, i) ==
    LET node == acc.pa.nodes[i]
        p == node.parent
        weighed == [acc.pa EXCEPT !.nodes[i].weight = @ + acc.deltas[i]]
    IN IF node.blockRoot = HEX_ZERO_HASH THEN acc
       ELSE IF p = Undefined THEN [pa |-> weighed, deltas |-> acc.deltas]
       ELSE [pa |-> MaybeUpdateBestChildAndDescendant(weighed, p, i),
             deltas |-> [acc.deltas EXCEPT ![p] = @ + acc.deltas[i]]]

\* applyScoreChanges: one pass from the last node to the first.  The epochs are
\* taken over when the justified epoch differs; the code's second test compares
\* finalizedEpoch with itself.
ApplyScoreChanges(pa, deltas, justifiedEpoch, finalizedEpoch) ==
    LET start == IF justifiedEpoch # pa.justifiedEpoch
                 THEN [pa EXCEPT !.justifiedEpoch = justifiedEpoch,
                                 !.finalizedEpoch = finalizedEpoch]
                 ELSE pa
        n == Len(pa.nodes)
        passed[k \in 0..n] ==
          IF k = 0 THEN [pa |-> start, deltas |-> deltas]
          ELSE ScoreNode(passed[k - 1], n + 1 - k)
    IN passed[n].pa

\* findHead: the best descendant of the justified block, or 0 when the code
\* throws: the justified root is unknown, or the best node is not viable.
FindHead(pa, justifiedRoot) ==
    IF ~HasBlock(pa, justifiedRoot)
    THEN Undefined
    ELSE LET best == pa.nodes[OrElse(GetNode(pa, justifiedRoot).bestDescendant,
                                     pa.indices[justifiedRoot])]
         IN IF NodeIsViableForHead(pa, best) THEN best.blockRoot ELSE Undefined

\* maybePrune with the default threshold of 0: drop every node before the
\* finalized one and shift all positions.  An unknown root throws.
MaybePrune(pa, finalizedRoot) ==
    IF ~HasBlock(pa, finalizedRoot)
    THEN pa
    ELSE LET f == pa.indices[finalizedRoot]
             kept == {r \in DOMAIN pa.indices : pa.indices[r] >= f}
             shift(i) == IF i < f THEN Undefined ELSE i - f + 1
         IN [pa EXCEPT !.indices = [r \in kept |-> pa.indices[r] - f + 1],
                       !.nodes = [i \in 1..(Len(pa.nodes) - f + 1) |-> [pa.nodes[i + f - 1] EXCEPT
                            !.parent = shift(@),
                            !.bestChild = shift(@),
                            !.bestDescendant = shift(@)]]]

\* Mutant: the walk stops one slot too early.
StopsAtAncestorSlot(pa, ancestorRoot, descendantRoot) ==
    /\ HasBlock(pa, ancestorRoot)
    /\ HasBlock(pa, descendantRoot)
    /\ LET line == AncestorIndices(pa, pa.indices[descendantRoot])
       IN \E k \in 1..Len(line) :
             /\ pa.nodes[line[k]].blockRoot = ancestorRoot
             /\ \A m \in 1..k : pa.nodes[line[m]].slot > GetNode(pa, ancestorRoot).slot

\* isDescendant: walk up from descendantRoot until the ancestor's slot is passed.
IsDescendant(pa, ancestorRoot, descendantRoot) ==
    /\ HasBlock(pa, ancestorRoot)
    /\ HasBlock(pa, descendantRoot)
    /\ LET line == AncestorIndices(pa, pa.indices[descendantRoot])
           slotOf(k) == pa.nodes[line[k]].slot
       IN \E k \in 1..Len(line) :
             /\ pa.nodes[line[k]].blockRoot = ancestorRoot
             /\ \A m \in 1..k : slotOf(m) >= GetNode(pa, ancestorRoot).slot

-----------------------------------------------------------------------------
(* The fork choice. *)

CONSTANTS
    Roots,             \* roots of the blocks that may be imported (numbers > GenesisRoot)
    Validators,        \* validators whose attestations are tracked
    SlotsPerEpoch,     \* SLOTS_PER_EPOCH
    SafeSlots,         \* SAFE_SLOTS_TO_UPDATE_JUSTIFIED
    BlockSlots,        \* bound: BlockSlots[r] is the set of slots block r may be proposed in
    AttestationSlots,  \* bound: the slots validators attest in
    MaxSlot,           \* bound: the clock stops here
    EffectiveBalances  \* EffectiveBalances[e][v]: balance of v in a checkpoint state of epoch e

GenesisRoot == 1
Slots == 0..MaxSlot

ComputeEpochAtSlot(slot) == slot \div SlotsPerEpoch
ComputeStartSlotAtEpoch(epoch) == epoch * SlotsPerEpoch
Epochs == 0..ComputeEpochAtSlot(MaxSlot)

ASSUME RootsAssumption == Roots \subseteq Nat \ {HEX_ZERO_HASH, GenesisRoot}
ASSUME SlotsAssumption ==
    /\ SlotsPerEpoch \in Nat \ {0}
    /\ SafeSlots \in Nat
    /\ MaxSlot \in Nat
    /\ BlockSlots \in [Roots -> SUBSET Slots]
    /\ AttestationSlots \subseteq Slots
ASSUME BalancesAssumption == EffectiveBalances \in [Epochs -> [Validators -> Nat]]

VARIABLES
    fc,            \* the ForkChoice object
    states,        \* external: the post state of every imported block
    toPrune        \* finalized checkpoints whose archiving task has not pruned yet

vars == <<fc, states, toPrune>>

\* A validator that never voted.
NoVote == [currentRoot |-> HEX_ZERO_HASH, nextRoot |-> HEX_ZERO_HASH, nextEpoch |-> -1]

\* The empty balances array of runStateTransition: reading past its end gives 0.
NoBalances == [v \in Validators |-> 0]

-----------------------------------------------------------------------------
(* What the other components ask of the fork choice. *)

\* isDescendantOfFinalized, and hasBlock and getBlock, which tell a block only of the
\* finalized chain (0 stands for null).
IsDescendantOfFinalized(f, root) == IsDescendant(f.protoArray, f.finalizedCheckpoint.root, root)
GetBlock(f, root) ==
    IF HasBlock(f.protoArray, root) /\ IsDescendantOfFinalized(f, root) THEN root ELSE Undefined

\* They throw where these are 0.
GetJustifiedBlock(f) == GetBlock(f, f.justifiedCheckpoint.root)
GetFinalizedBlock(f) == GetBlock(f, f.finalizedCheckpoint.root)

-----------------------------------------------------------------------------
\* getAncestor: the block of root's chain at the given slot, 0 when it throws.
GetAncestor(pa, root, slot) ==
    IF ~HasBlock(pa, root) THEN Undefined
    ELSE IF GetNode(pa, root).slot <= slot THEN root
    ELSE LET line == AncestorIndices(pa, pa.indices[root])
             older == {k \in 1..Len(line) : pa.nodes[line[k]].slot <= slot}
         IN IF older = {} THEN Undefined ELSE pa.nodes[line[Min(older)]].blockRoot

UpdateJustified(f, checkpoint, balances) ==
    [f EXCEPT !.synced = FALSE,
              !.justifiedBalances = balances,
              !.justifiedCheckpoint = checkpoint]

UpdateBestJustified(f, checkpoint, balances) ==
    [f EXCEPT !.bestJustifiedBalances = balances,
              !.bestJustifiedCheckpoint = checkpoint]

\* updateHead: apply the pending votes unless synced, then follow the links.
\* When findHead throws the applied changes stay and the cached head is kept.
UpdateHead(f) ==
    LET deltas == ComputeDeltas(f.protoArray.indices, f.votes,
                                f.justifiedBalances, f.justifiedBalances)
        applied == IF f.synced THEN f
                   ELSE [f EXCEPT !.protoArray = ApplyScoreChanges(@, deltas,
                                                     f.justifiedCheckpoint.epoch,
                                                     f.finalizedCheckpoint.epoch),
                                  !.votes = VotesApplied(@),
                                  !.synced = TRUE]
        root == FindHead(applied.protoArray, f.justifiedCheckpoint.root)
    IN [applied EXCEPT !.head = IF root = Undefined THEN @ ELSE root]

\* shouldUpdateJustifiedCheckpoint, for a state at this slot: TRUE or FALSE, or
\* "throw" for ATTEMPT_TO_REVERT_JUSTIFICATION and for a failing getAncestor.
ShouldUpdateJustifiedCheckpoint(f, slot, justified) ==
    LET justifiedSlot == ComputeStartSlotAtEpoch(f.justifiedCheckpoint.epoch)
        ancestor == GetAncestor(f.protoArray, justified.root, justifiedSlot)
    IN CASE f.currentSlot % SlotsPerEpoch < SafeSlots -> "yes"
         [] OTHER ->
            CASE justifiedSlot >= slot -> "throw"
              [] OTHER ->
                 IF ComputeEpochAtSlot(slot) < ComputeEpochAtSlot(f.currentSlot) THEN "yes"
                 ELSE IF ancestor = Undefined THEN "throw"
                 ELSE IF ancestor = f.justifiedCheckpoint.root THEN "yes" ELSE "no"

\* The checks at the top of onBlock; a block that fails one is dropped.
AcceptsBlock(f, block) ==
    LET finalizedSlot == ComputeStartSlotAtEpoch(f.finalizedCheckpoint.epoch)
    IN /\ HasBlock(f.protoArray, block.parentRoot)
       /\ block.slot <= f.currentSlot
       /\ block.slot > finalizedSlot
       /\ GetAncestor(f.protoArray, block.parentRoot, finalizedSlot) = f.finalizedCheckpoint.root

\* Mutant: any other finalized checkpoint is taken over.
FinalizesAnything(f, state) == state.finalized # f.finalizedCheckpoint

\* onBlock's test for a new finalized checkpoint.
Finalizes(f, state) == state.finalized.epoch > f.finalizedCheckpoint.epoch

\* onBlock after its checks.  The ancestor test that follows a new finalized
\* checkpoint uses the start slot of the previous one, as the code does.  A throw
\* half way leaves the checkpoints set so far and the block unknown.
OnBlock(f, block, state, balances) ==
    LET finalizedSlot == ComputeStartSlotAtEpoch(f.finalizedCheckpoint.epoch)
        justified == state.currentJustified
        higher == justified.epoch > f.justifiedCheckpoint.epoch
        withBest == IF higher /\ justified.epoch > f.bestJustifiedCheckpoint.epoch
                    THEN UpdateBestJustified(f, justified, balances) ELSE f
        should == IF higher
                  THEN ShouldUpdateJustifiedCheckpoint(withBest, block.slot, justified) ELSE "no"
        finalizes == Finalizes(f, state)
        withFinalized == IF finalizes
                         THEN [withBest EXCEPT !.finalizedCheckpoint = state.finalized]
                         ELSE withBest
        ancestor == GetAncestor(f.protoArray, f.justifiedCheckpoint.root, finalizedSlot)
        update == \/ should = "yes"
                  \/ finalizes /\ (higher \/ ancestor # state.finalized.root)
        withJustified == IF update THEN UpdateJustified(withFinalized, justified, balances)
                         ELSE withFinalized
    IN IF should = "throw" THEN withBest
       ELSE IF finalizes /\ ~higher /\ ancestor = Undefined THEN withFinalized
       ELSE [withJustified EXCEPT !.protoArray = ProtoOnBlock(@, block)]

\* addLatestMessage: a later target epoch replaces the vote.
LatestMessage(votes, a) ==
    IF a.targetEpoch > votes[a.validator].nextEpoch
    THEN [votes EXCEPT ![a.validator].nextRoot = a.root, ![a.validator].nextEpoch = a.targetEpoch]
    ELSE votes
AddLatestMessage(f, a) == [f EXCEPT !.synced = FALSE, !.votes = LatestMessage(@, a)]

\* validateOnAttestation for an attestation a of one validator.
ValidateOnAttestation(f, a) ==
    LET epochNow == ComputeEpochAtSlot(f.currentSlot)
        node == GetNode(f.protoArray, a.root)
    IN /\ a.targetEpoch <= epochNow
       /\ a.targetEpoch + 1 >= epochNow
       /\ a.targetEpoch = ComputeEpochAtSlot(a.slot)
       /\ f.currentSlot >= a.slot + 1
       /\ HasBlock(f.protoArray, a.targetRoot)
       /\ HasBlock(f.protoArray, a.root)
       /\ a.targetRoot = (IF a.targetEpoch > ComputeEpochAtSlot(node.slot)
                          THEN a.root ELSE node.targetRoot)
       /\ node.slot <= a.slot

\* onAttestation, past its validation.
OnAttestation(f, a) ==
    IF a.slot < f.currentSlot
    THEN AddLatestMessage(f, a)
    ELSE [f EXCEPT !.queuedAttestations = @ \union {a}]

\* onTick: a new slot, and at the start of an epoch the best justified
\* checkpoint takes over.
OnTick(f) ==
    LET ticked == [f EXCEPT !.currentSlot = @ + 1]
    IN IF /\ ticked.currentSlot % SlotsPerEpoch = 0
          /\ f.bestJustifiedCheckpoint.epoch > f.justifiedCheckpoint.epoch
       THEN UpdateJustified(ticked, f.bestJustifiedCheckpoint, f.bestJustifiedBalances)
       ELSE ticked

\* The attestations of past slots count, in some order.
ProcessAttestationQueue(f) ==
    LET due == {a \in f.queuedAttestations : a.slot <= f.currentSlot}
    IN [f EXCEPT !.queuedAttestations = @ \ due,
                 !.synced = @ /\ due = {},
                 !.votes = FoldLeft(LatestMessage, @, SetToSeq(due))]

-----------------------------------------------------------------------------
\* processSlots: the epochs from that of the pre state up to this one end, one after
\* the other.  Only the first can see new attestations, and targets of the current
\* epoch only once a block after the epoch's first slot has included them.
EpochsEnded(pre, epoch, prevTarget, currTarget) ==
    LET preEpoch == ComputeEpochAtSlot(pre.slot)
        ended[k \in 0..(epoch - preEpoch)] ==
          IF k = 0 THEN pre
          ELSE ProcessJustificationAndFinalization(ended[k - 1], preEpoch + k - 1,
                 IF k = 1 THEN prevTarget ELSE k = 2 /\ currTarget,
                 k = 1 /\ currTarget)
    IN ended[epoch - preEpoch]

\* stateTransition: the post state of a block at this slot on top of parent.
PostState(root, parent, slot, prevTarget, currTarget) ==
    LET epoch == ComputeEpochAtSlot(slot)
    IN [EpochsEnded(states[parent], epoch, prevTarget, currTarget) EXCEPT
           !.slot = slot,
           !.parentRoot = parent,
           !.blockRoots = [e \in Epochs |->
              IF e < epoch \/ (e = epoch /\ slot # ComputeStartSlotAtEpoch(epoch)) THEN @[e] ELSE root]]

\* External: the states a state transition produces; that justification and
\* finalization keep to this is the subject of the theorems of StateProofs.
BeaconState(state) ==
    /\ state.currentJustified.epoch \in Epochs
    /\ state.finalized.epoch \in Epochs
    /\ state.finalized.epoch <= state.currentJustified.epoch

\* External: what less than a third of slashable stake guarantees.  Two
\* checkpoints justified for one epoch are equal, and what is justified later
\* than a finalized checkpoint descends from it.
AccountablySafe(s, t) ==
    /\ s.currentJustified.epoch = t.currentJustified.epoch => s.currentJustified = t.currentJustified
    /\ 0 < t.finalized.epoch /\ t.finalized.epoch < s.currentJustified.epoch =>
         states[s.currentJustified.root].blockRoots[t.finalized.epoch] = t.finalized.root

\* The block as onBlock hands it to the proto array.
ProtoBlock(root, state) ==
    [blockRoot |-> root, slot |-> state.slot, parentRoot |-> state.parentRoot,
     targetRoot |-> state.blockRoots[ComputeEpochAtSlot(state.slot)],
     justifiedEpoch |-> state.currentJustified.epoch, finalizedEpoch |-> state.finalized.epoch]

\* getHeads: the nodes without a best child.
GetHeads(f) ==
    {f.protoArray.nodes[i].blockRoot :
       i \in {k \in 1..Len(f.protoArray.nodes) : f.protoArray.nodes[k].bestChild = Undefined}}

\* The balances runStateTransition passes on: those of the justified checkpoint
\* state when it is newer than the store's, otherwise an empty array.
JustifiedBalances(f, state) ==
    IF state.currentJustified.epoch > f.justifiedCheckpoint.epoch
    THEN EffectiveBalances[state.currentJustified.epoch]
    ELSE NoBalances

\* The genesis block is its own anchor, with the checkpoints at its root.
Init ==
    LET stub == GenesisState(GenesisRoot, Epochs)
        genesis == [slot |-> 0, parentRoot |-> HEX_ZERO_HASH,
                    previousJustified |-> stub.previousJustified,
                    currentJustified |-> stub.currentJustified, finalized |-> stub.finalized,
                    bits |-> stub.bits, blockRoots |-> stub.blockRoots]
    IN /\ states = [r \in {GenesisRoot} |-> genesis]
       /\ toPrune = {}
       /\ fc = UpdateHead(
               [currentSlot |-> 0,
                justifiedCheckpoint |-> Checkpoint(GENESIS_EPOCH, GenesisRoot),
                bestJustifiedCheckpoint |-> Checkpoint(GENESIS_EPOCH, GenesisRoot),
                finalizedCheckpoint |-> Checkpoint(GENESIS_EPOCH, GenesisRoot),
                justifiedBalances |-> EffectiveBalances[0],
                bestJustifiedBalances |-> EffectiveBalances[0],
                votes |-> [v \in Validators |-> NoVote],
                queuedAttestations |-> {},
                synced |-> FALSE,
                head |-> Undefined,
                protoArray |-> ProtoInitialize(ProtoBlock(GenesisRoot, genesis))])

\* Setting the store's finalized checkpoint emits forkChoiceFinalized, which
\* queues an archiving task.
EmitFinalized(f) ==
    toPrune' = IF f.finalizedCheckpoint # fc.finalizedCheckpoint
               THEN toPrune \union {f.finalizedCheckpoint} ELSE toPrune

\* stateCache.add: the state of a new block is kept with the others.
WithState(st, root, state) ==
    [r \in DOMAIN st \union {root} |-> IF r = root THEN state ELSE st[r]]

\* runStateTransition for a new block: onBlock and then updateHead, in one turn.
ImportBlock(root, parent, slot, prevTarget, currTarget) ==
    LET state == PostState(root, parent, slot, prevTarget, currTarget)
        block == ProtoBlock(root, state)
        result == OnBlock(fc, block, state, JustifiedBalances(fc, state))
        imported == HasBlock(result.protoArray, root)
    IN /\ root \notin DOMAIN states
       /\ slot > states[parent].slot
       /\ currTarget => states[parent].slot % SlotsPerEpoch # 0
       /\ BeaconState(state)
       /\ \A r \in DOMAIN states : AccountablySafe(state, states[r]) /\ AccountablySafe(states[r], state)
       /\ AcceptsBlock(fc, block)
       /\ fc' = IF imported THEN UpdateHead(result) ELSE result
       /\ states' = IF imported THEN WithState(states, root, state) ELSE states
       /\ EmitFinalized(result)

\* The regenerator runs a known block again with reprocess set: onBlock without
\* updateHead.
ReplayBlock(root) ==
    LET block == ProtoBlock(root, states[root])
        result == OnBlock(fc, block, states[root], JustifiedBalances(fc, states[root]))
    IN /\ AcceptsBlock(fc, block)
       /\ fc' = result
       /\ EmitFinalized(result)
       /\ UNCHANGED states

\* onAttestation for an attestation of an imported block.
ImportAttestation(v, slot, root) ==
    LET epoch == ComputeEpochAtSlot(slot)
        a == [validator |-> v, slot |-> slot, root |-> root, targetEpoch |-> epoch,
              targetRoot |-> states[root].blockRoots[epoch]]
    IN /\ ValidateOnAttestation(fc, a)
       /\ fc' = OnAttestation(fc, a)
       /\ UNCHANGED <<states, toPrune>>

\* onClockSlot: the clock emits every slot, so updateTime ticks once.
UpdateTime ==
    /\ fc.currentSlot < MaxSlot
    /\ fc' = ProcessAttestationQueue(OnTick(fc))
    /\ UNCHANGED <<states, toPrune>>

\* The end of an archiving task: prune the fork choice at its checkpoint.  Tasks
\* of several finalized checkpoints may end in any order.
Prune(checkpoint) ==
    /\ fc' = [fc EXCEPT !.protoArray = MaybePrune(@, checkpoint.root)]
    /\ toPrune' = toPrune \ {checkpoint}
    /\ UNCHANGED states

Next ==
    \/ \E root \in Roots : \E parent \in DOMAIN states, slot \in BlockSlots[root],
                            prevTarget, currTarget \in BOOLEAN :
          ImportBlock(root, parent, slot, prevTarget, currTarget)
    \/ \E root \in DOMAIN states \ {GenesisRoot} : ReplayBlock(root)
    \/ \E v \in Validators, slot \in AttestationSlots, root \in DOMAIN states :
          ImportAttestation(v, slot, root)
    \/ UpdateTime
    \/ \E checkpoint \in toPrune : Prune(checkpoint)

Spec == Init /\ [][Next]_vars

-----------------------------------------------------------------------------
pArray == fc.protoArray
Known == DOMAIN pArray.indices

\* Reference: the descendants of a known block, itself included, by the parent
\* roots alone.
Children(r) == {c \in Known : GetNode(pArray, c).parentRoot = r}
DescendsIn(pa, c, r) ==
    LET line[k \in 1..Len(pa.nodes)] ==
          LET node == pa.nodes[k]
          IN {node.blockRoot} \union
               (IF HasBlock(pa, node.parentRoot) THEN line[pa.indices[node.parentRoot]] ELSE {})
    IN HasBlock(pa, c) /\ r \in line[pa.indices[c]]
DescendsFrom(c, r) == DescendsIn(pArray, c, r)

\* Reference: the weight of a block is the balance of the validators whose
\* applied vote is for the block or one of its descendants.
VoteWeight(r) ==
    MapThenSumSet(LAMBDA v : IF DescendsFrom(fc.votes[v].currentRoot, r)
                             THEN fc.justifiedBalances[v] ELSE 0, Validators)

\* Reference: LMD-GHOST.  From r, follow the heaviest child that leads to a viable
\* head, the greater root on a tie.
Ghost(viable(_)) ==
    LET leads(r) == \E d \in Known : DescendsFrom(d, r) /\ viable(d)
        heavier(a, b) == \/ VoteWeight(a) > VoteWeight(b)
                         \/ VoteWeight(a) = VoteWeight(b) /\ a >= b
        walk[k \in 1..Len(pArray.nodes)] ==
            LET r == pArray.nodes[k].blockRoot
                candidates == {c \in Children(r) : leads(c)}
            IN IF candidates = {} THEN r
               ELSE walk[pArray.indices[CHOOSE a \in candidates :
                                          \A b \in candidates : heavier(a, b)]]
    IN walk[pArray.indices[fc.justifiedCheckpoint.root]]

Viable(r) == NodeIsViableForHead(pArray, GetNode(pArray, r))

-----------------------------------------------------------------------------
Checkpoints == [epoch : Epochs, root : Roots \union {GenesisRoot}]
KnownOrNone == 0..Len(pArray.nodes)

\* The fields of the ForkChoice object and of its proto array have their types.
TypeOK ==
    /\ fc.currentSlot \in Slots
    /\ {fc.justifiedCheckpoint, fc.bestJustifiedCheckpoint, fc.finalizedCheckpoint} \subseteq Checkpoints
    /\ fc.justifiedBalances \in [Validators -> Nat]
    /\ fc.bestJustifiedBalances \in [Validators -> Nat]
    /\ fc.votes \in [Validators -> [currentRoot : Roots \union {HEX_ZERO_HASH, GenesisRoot},
                                    nextRoot : Roots \union {HEX_ZERO_HASH, GenesisRoot},
                                    nextEpoch : Epochs \union {-1}]]
    /\ fc.synced \in BOOLEAN
    /\ fc.head \in Roots \union {GenesisRoot}
    /\ \A i \in 1..Len(pArray.nodes) :
          /\ {pArray.nodes[i].parent, pArray.nodes[i].bestChild, pArray.nodes[i].bestDescendant}
                \subseteq KnownOrNone
          /\ pArray.nodes[i].weight \in Int
    /\ toPrune \subseteq Checkpoints

\* The proto array is a forest in array form whatever is imported and pruned: the
\* map and the array name the same blocks, and a node comes after its parent (the
\* order applyScoreChanges relies on), which is the node of its parent root.
ArraySound ==
    /\ Known = {pArray.nodes[i].blockRoot : i \in 1..Len(pArray.nodes)}
    /\ \A i \in 1..Len(pArray.nodes) :
          LET node == pArray.nodes[i]
          IN /\ pArray.indices[node.blockRoot] = i
             /\ node.parent = IndexOf(pArray, node.parentRoot)
             /\ node.parent < i

\* Links are to real relatives: the best child is a child, and the best descendant
\* the end of the chain of best children.
LinksSound ==
    \A i \in 1..Len(pArray.nodes) :
        LET node == pArray.nodes[i]
            best == pArray.nodes[node.bestChild]
        IN /\ node.bestChild # Undefined => best.parent = i
           /\ node.bestDescendant = (IF node.bestChild = Undefined THEN Undefined
                                     ELSE OrElse(best.bestDescendant, node.bestChild))

\* isDescendant and getAncestor, which stop their walk by slots, agree with the
\* parent roots through forks and pruning: the ancestor at a slot is the youngest
\* of the block's line that is not after it.
AncestryAgrees ==
    /\ \A a, b \in Known : IsDescendant(pArray, a, b) <=> DescendsFrom(b, a)
    /\ \A b \in Known, slot \in Slots :
          LET older == {a \in Known : DescendsFrom(b, a) /\ GetNode(pArray, a).slot <= slot}
              ancestor == GetAncestor(pArray, b, slot)
          IN IF older = {} THEN ancestor = Undefined
             ELSE /\ ancestor \in older
                  /\ \A a \in older : GetNode(pArray, a).slot <= GetNode(pArray, ancestor).slot

\* After updateHead every weight is the sum of the balances that voted for the
\* block or its descendants: deltas are neither lost nor applied twice over
\* moved votes, new blocks, justified epochs and pruned ancestors.
WeightsAreVotes ==
    fc.synced => \A r \in Known : GetNode(pArray, r).weight = VoteWeight(r)

\* One more pass over the proto array, with no new votes, leads findHead to the
\* LMD-GHOST head: whatever links an updateHead leaves, they are not wrong for
\* good.
NextPassFindsGhostHead ==
    fc.synced /\ (\E r \in Known : DescendsFrom(r, fc.justifiedCheckpoint.root) /\ Viable(r)) =>
        LET zero == [i \in 1..Len(pArray.nodes) |-> 0]
            again == ApplyScoreChanges(pArray, zero, pArray.justifiedEpoch, pArray.finalizedEpoch)
        IN FindHead(again, fc.justifiedCheckpoint.root) = Ghost(Viable)

\* getJustifiedBlock and getFinalizedBlock never throw: the justified, the best justified
\* (which the next epoch may install) and the finalized block stay in the proto
\* array through finalization and pruning, and the justified block descends from
\* the finalized one.
CheckpointBlocksKnown ==
    /\ GetFinalizedBlock(fc) # Undefined /\ GetJustifiedBlock(fc) # Undefined
    /\ fc.bestJustifiedCheckpoint.epoch > fc.justifiedCheckpoint.epoch =>
         fc.bestJustifiedCheckpoint.root \in Known
    /\ DescendsFrom(fc.justifiedCheckpoint.root, fc.finalizedCheckpoint.root)

\* The cached head is a block the proto array still knows, below the finalized
\* block.
HeadKnown == DescendsFrom(fc.head, fc.finalizedCheckpoint.root)

\* The best justified checkpoint is never behind the justified one, which is
\* never behind the finalized one.
CheckpointOrder ==
    /\ fc.justifiedCheckpoint.epoch <= fc.bestJustifiedCheckpoint.epoch
    /\ fc.finalizedCheckpoint.epoch <= fc.justifiedCheckpoint.epoch

\* Through forks, replays, finalization and late pruning the store stays sound:
\* getJustifiedBlock and getFinalizedBlock never throw, nor does findHead for want of
\* the justified block, and the slot-bounded walks of isDescendant and getAncestor
\* agree with the parent roots.
StoreIsSound == ArraySound /\ AncestryAgrees /\ CheckpointBlocksKnown /\ CheckpointOrder

\* Finality: the finalized checkpoint only moves to a later epoch, on the chain
\* of the one before.
FinalityOnlyExtends ==
    [][fc'.finalizedCheckpoint # fc.finalizedCheckpoint =>
         /\ fc'.finalizedCheckpoint.epoch > fc.finalizedCheckpoint.epoch
         /\ DescendsFrom(fc'.finalizedCheckpoint.root, fc.finalizedCheckpoint.root)]_vars

-----------------------------------------------------------------------------
(* What the sources say and the model refutes, see README.md. *)

\* get_head: the head that updateHead caches is the LMD-GHOST head.
HeadIsGhost ==
    fc.synced /\ (\E r \in Known : DescendsFrom(r, fc.justifiedCheckpoint.root) /\ Viable(r)) =>
        FindHead(pArray, fc.justifiedCheckpoint.root) = Ghost(Viable)

\* "This should be the balances of the state at fcStore.justifiedCheckpoint."
BalancesAreJustified ==
    fc.justifiedBalances = EffectiveBalances[fc.justifiedCheckpoint.epoch]

\* "the invariant is implied": the justified checkpoint is not reverted while
\* it is on the finalized chain.
JustificationNotReverted ==
    [][fc'.justifiedCheckpoint.epoch < fc.justifiedCheckpoint.epoch =>
         ~DescendsFrom(fc.justifiedCheckpoint.root, fc'.finalizedCheckpoint.root)]_vars

\* "Any node that has a different finalized or justified epoch should not be
\* viable for the head": a head found by updateHead has the store's epochs.
HeadHasStoreEpochs ==
    fc.synced /\ FindHead(pArray, fc.justifiedCheckpoint.root) = fc.head =>
        LET node == GetNode(pArray, fc.head)
        IN /\ fc.justifiedCheckpoint.epoch \in {0, node.justifiedEpoch}
           /\ fc.finalizedCheckpoint.epoch \in {0, node.finalizedEpoch}

\* "Queuing of attestations from the current slot": an attestation of the current
\* slot to a known block passes validation, to be queued.
CurrentSlotAttestationsQueued ==
    \A v \in Validators, r \in Known :
        LET epoch == ComputeEpochAtSlot(fc.currentSlot)
            a == [validator |-> v, slot |-> fc.currentSlot, root |-> r, targetEpoch |-> epoch,
                  targetRoot |-> states[r].blockRoots[epoch]]
        IN a.targetRoot \in Known => ValidateOnAttestation(fc, a)

\* "Retrieves all possible chain heads (leaves of fork choice tree)."
HeadsAreLeaves == GetHeads(fc) = {r \in Known : Children(r) = {}}
=============================================================================
