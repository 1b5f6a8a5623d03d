------------------------------ MODULE MCState -------------------------------
(***************************************************************************)
(* The beacon state: finality, the validator registry, the chain of cached *)
(* states, participation and rewards, the cached vectors, and the          *)
(* committees.  A behaviour is about one of them: "part" says which.       *)
(*                                                                         *)
(* Finality is specified here: the life of one beacon state through the    *)
(* epochs.  At the end of every epoch processJustificationAndFinalization  *)
(* runs, with whatever share of the stake attested to the two targets it   *)
(* looks at; history records every checkpoint that was ever justified, so  *)
(* that the justification bits can be compared with what they stand for.   *)
(* The other parts are instances, on the registers r1, r2, ..., in the     *)
(* order of their declarations.                                            *)
(***************************************************************************)
EXTENDS Justification, TLC

CONSTANTS
    Roots,     \* block roots; the zero hash is not one of them
    MaxEpoch   \* bound: the last epoch that is entered

ASSUME RootsAssumption == Roots \subseteq Nat \ {0}
ASSUME MaxEpochAssumption == MaxEpoch \in Nat

VARIABLES
    epoch,    \* the current epoch of the state
    state,    \* the fields of the beacon state
    history   \* the checkpoints justified so far

vars == <<epoch, state, history>>

Epochs == 0..MaxEpoch
Checkpoints == [epoch : Epochs, root : Roots \union {0}]

Init ==
    /\ epoch = GENESIS_EPOCH
    /\ \E genesisRoot \in Roots : state = GenesisState(genesisRoot, Epochs)
    /\ history = {Checkpoint(GENESIS_EPOCH, 0)}

\* The checkpoints that two thirds of the stake justify at the end of the epoch.
JustifiedNow(prevTarget, currTarget) ==
    {c \in Checkpoints :
        /\ epoch > GENESIS_EPOCH + 1
        /\ (prevTarget /\ c.epoch = epoch - 1) \/ (currTarget /\ c.epoch = epoch)
        /\ c.root = state.blockRoots[c.epoch]}

\* processEpoch ends the current epoch, and root is the block root that the
\* next epoch starts with.
EndEpoch(prevTarget, currTarget, root) ==
    LET processed == ProcessJustificationAndFinalization(state, epoch, prevTarget, currTarget)
    IN /\ epoch < MaxEpoch
       /\ epoch' = epoch + 1
       /\ state' = [processed EXCEPT !.blockRoots =
                      [e \in Epochs |-> IF e <= epoch THEN @[e] ELSE root]]
       /\ history' = history \union JustifiedNow(prevTarget, currTarget)

Next == \E prevTarget, currTarget \in BOOLEAN, root \in Roots : EndEpoch(prevTarget, currTarget, root)

Spec == Init /\ [][Next]_vars

-----------------------------------------------------------------------------
\* The fields of the beacon state that justification reads and writes have
\* their types.
TypeOK ==
    /\ epoch \in Epochs
    /\ state \in [previousJustified : Checkpoints, currentJustified : Checkpoints,
                  finalized : Checkpoints, bits : SUBSET (1..4),
                  blockRoots : [Epochs -> Roots]]
    /\ history \subseteq Checkpoints

\* The three checkpoints of a state stand in order, behind the current epoch,
\* whatever targets are reached: finalized, previous justified, current justified.
CheckpointsOrdered ==
    /\ state.finalized.epoch <= state.previousJustified.epoch
    /\ state.previousJustified.epoch <= state.currentJustified.epoch
    /\ state.currentJustified.epoch > GENESIS_EPOCH => state.currentJustified.epoch < epoch

\* The rule of Casper FFG behind the bit arithmetic: the epoch right after
\* a finalized checkpoint was justified as well.
FinalizedHasJustifiedChild ==
    state.finalized.epoch > GENESIS_EPOCH =>
        \E c \in history : c.epoch = state.finalized.epoch + 1

\* The checkpoints of the state were all justified, and an epoch is justified
\* with one root only, the block the chain started the epoch with, although it
\* may be justified twice (as the current and again as the previous epoch).
JustifiedOnChain ==
    /\ {state.previousJustified, state.currentJustified, state.finalized} \subseteq history
    /\ \A c \in history : c.epoch > GENESIS_EPOCH =>
          c.epoch < epoch /\ c.root = state.blockRoots[c.epoch]

\* A beacon state never gives up a finalized checkpoint, and its justified
\* checkpoint never moves back.
EpochsOnlyGrow ==
    [][/\ state'.finalized.epoch >= state.finalized.epoch
       /\ state'.finalized # state.finalized => state'.finalized.epoch > state.finalized.epoch
       /\ state'.currentJustified.epoch >= state.currentJustified.epoch]_vars

\* What a justification bit stands for: bit i is set only if the epoch i epochs
\* back was justified with the root that is on the chain.
BitsAreHistory ==
    \A i \in state.bits :
        /\ epoch - i > GENESIS_EPOCH
        /\ Checkpoint(epoch - i, state.blockRoots[epoch - i]) \in history

-----------------------------------------------------------------------------
(* The parts. *)

CONSTANTS
    \* Participation
    ValidatorCount, Eff, Duty, SlashedSets, SlotsPerEpoch, SqrtSlots, AltairEpoch,
    BaseRewardFactor, BaseRewardsPerEpoch, ProposerQuotient, InactivityQuotient, MinEpochsToLeak,
    Weight, Denominator, ScoreBias, ScoreRecovery, LastEpoch, MaxIncluded,
    \* CachedState
    Values, Statuses, MaxValidators, MaxStates, MaxWrites

VARIABLES part, r1, r2, r3, r4, r5, r6, r7, r8, r9, r10, r11

registers == <<r1, r2, r3, r4, r5, r6, r7, r8, r9, r10, r11>>
allVars == <<part, vars, registers>>

-----------------------------------------------------------------------------
\* Values for the constants of participation: two validators, the second with less at stake.
Balances == <<3, 2>>
DutySlots == <<0, 1>>
FlagWeights == "source" :> 14 @@ "target" :> 26 @@ "head" :> 14

\* Two new validators around an invalid deposit for a known key; a double vote that catches two and a
\* surround vote that catches one; the third validator proposes, the first may miss an epoch.
Deposits == << [key |-> 9, amount |-> 8, valid |-> TRUE], [key |-> 1, amount |-> 4, valid |-> FALSE],
               [key |-> 8, amount |-> 8, valid |-> TRUE] >>
Slashings ==
  { [data1 |-> [source |-> 0, target |-> 1, root |-> "a"], indices1 |-> {1, 2},
     data2 |-> [source |-> 0, target |-> 1, root |-> "b"], indices2 |-> {1, 2, 3}],
    [data1 |-> [source |-> 0, target |-> 3, root |-> "a"], indices1 |-> {2, 3},
     data2 |-> [source |-> 1, target |-> 2, root |-> "a"], indices2 |-> {3}] }

Reg == INSTANCE Registry WITH
    Genesis <- 3, DepositLog <- Deposits, MaxDeposits <- 2, AttesterSlashings <- Slashings,
    MinChurn <- 1, ChurnQuotient <- 4, Lookahead <- 1, SlashVector <- 4, WithdrawDelay <- 1,
    ShardPeriod <- 2, Increment <- 4, MaxEff <- 8, Ejection <- 4, SlashQuotient <- 4,
    WhistleQuotient <- 16, PropQuotient <- 2, SlashMultiplier <- 1, Penalty <- 5,
    MaxEpoch <- 4, Proposers <- {3}, Absent <- {{1}},
    vals <- r1, bal <- r2, slashings <- r3, epoch <- r4, fin <- r5, eth1 <- r6, block <- r7,
    cache <- r8, ctx <- r9, hits <- r10, over <- r11

\* Two deposits of new keys around a top-up; the altair fork and a sync committee period lie
\* within reach of the longest gap.
ST == INSTANCE StateTransition WITH
    GenesisKeys <- <<1, 2>>, DepositKeys <- <<3, 1, 4>>, SlotsPerEpoch <- 2,
    HistoricalRoots <- 4, HistoricalVector <- 4, SeedLookahead <- 1, ActivationDelay <- 2,
    SyncPeriod <- 2, AltairEpoch <- 2, MaxStates <- 4, MaxMaps <- 3, Gaps <- {1, 2, 5},
    states <- r1, maps <- r2

Part == INSTANCE Participation WITH
    MaxEpoch <- LastEpoch,
    slot <- r1, fork <- r2, fin <- r3, pending <- r4, part <- r5, scores <- r6, slashed <- r7,
    deltas <- r8, history <- r9

\* As the presets have it: an attestation is included later than its slot, balances and
\* rewards are natural numbers, and a leak takes away four base rewards at least.
ASSUME ParticipationAssumption ==
    /\ ValidatorCount \in Nat /\ Eff \in [1..ValidatorCount -> Nat] /\ Duty \in [1..ValidatorCount -> Nat]
    /\ SlotsPerEpoch \in Nat \ {0} /\ LastEpoch \in Nat /\ MinEpochsToLeak \in Nat
    /\ BaseRewardFactor \in Nat /\ BaseRewardsPerEpoch \in Nat \ 0..3
    /\ ProposerQuotient \in Nat \ {0} /\ InactivityQuotient \in Nat \ {0}
    /\ Weight \in [{"source", "target", "head"} -> Nat] /\ Denominator \in Nat \ {0}
    /\ ScoreBias \in Nat \ {0} /\ ScoreRecovery \in Nat

Cached == INSTANCE CachedState WITH states <- r1, heap <- r2, work <- r3, writes <- r4

\* A participation status has the three flags of altair.
ASSUME StatusesAssumption == Statuses \subseteq SUBSET Cached!TIMELY_FLAGS

Com == INSTANCE Committees WITH
    ActiveSets <- {{}, {3}, {0, 2}, {1, 2, 4}, {0, 1, 3, 5}, {0, 1, 2, 4, 6}},
    SHUFFLE_ROUND_COUNT <- 2, BYTE_BITS <- 2, HASH_BITS <- 4, SLOTS_PER_EPOCH <- 2,
    MAX_COMMITTEES_PER_SLOT <- 2, TARGET_COMMITTEE_SIZE <- 1,
    activeIndices <- r1, shuffling <- r2, round <- r3, committees <- r4, rounds <- r5,
    attestation <- r6

-----------------------------------------------------------------------------
Off5 == r5 = 0 /\ r6 = 0
Off7 == r7 = 0 /\ r8 = 0 /\ r9 = 0 /\ r10 = 0 /\ r11 = 0
FirstInit == Init /\ \A r \in Roots : state.blockRoots[0] <= r

MCInit ==
    \/ part = "finality" /\ Init /\ r1 = 0 /\ r2 = 0 /\ r3 = 0 /\ r4 = 0 /\ Off5 /\ Off7
    \/ part = "registry" /\ Reg!Init /\ FirstInit
    \/ part = "transition" /\ ST!Init /\ FirstInit /\ r3 = 0 /\ r4 = 0 /\ Off5 /\ Off7
    \/ part = "participation" /\ Part!Init /\ FirstInit /\ r10 = 0 /\ r11 = 0
    \/ part = "cached" /\ Cached!Init /\ FirstInit /\ Off5 /\ Off7
    \/ part = "committees" /\ Com!Init /\ FirstInit /\ Off7

MCNext ==
    \/ part = "finality" /\ Next /\ UNCHANGED <<part, registers>>
    \/ part = "registry" /\ Reg!Next /\ UNCHANGED <<part, vars>>
    \/ part = "transition" /\ ST!Next /\ UNCHANGED <<part, vars, r3, r4, r5, r6, r7, r8, r9, r10, r11>>
    \/ part = "participation" /\ Part!Next /\ UNCHANGED <<part, vars, r10, r11>>
    \/ part = "cached" /\ Cached!Next /\ UNCHANGED <<part, vars, r5, r6, r7, r8, r9, r10, r11>>
    \/ part = "committees" /\ Com!Next /\ UNCHANGED <<part, vars, r7, r8, r9, r10, r11>>

MCSpec == MCInit /\ [][MCNext]_allVars

-----------------------------------------------------------------------------

\* StateTransition: on every fork the shared pubkey caches resolve a state's own keys, the carried
\* epoch context is what loading the state anew would compute, and block roots are the ancestors.
CachesFollowTheState ==
    part = "transition" => ST!PubkeysResolve /\ ST!CachesAsLoaded /\ ST!RootsAreAncestors

\* Participation: what the state holds for the previous and the current epoch is what the
\* attestations in the blocks earn, also across the altair fork.
CreditIsKept == part = "participation" => Part!CreditIsKept

\* Participation: in a leak nobody gains, slashed or silent validators never gain, and out of a
\* leak a full attester never loses ("take away max rewards if we're not finalizing").
RewardsAreFair == [][part = "participation" => Part!FairStep]_allVars

\* CachedState: every list of every cached state reads the same from the vector as from the tree,
\* whatever transitions have run on clones that share the vectors.
VectorsMatchTrees == part = "cached" => Cached!VectorsMatchTrees

\* Committees: the in-place shuffle is the specification's one-index-at-a-time shuffle, and every
\* active validator has exactly one seat, found again from the bits of an attestation.
CommitteesAreExact == part = "committees" => Com!ShuffleIsSpecified /\ Com!DutiesAreExact
=============================================================================
