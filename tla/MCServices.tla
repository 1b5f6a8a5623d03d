----------------------------- MODULE MCServices -----------------------------
(* The services around the chain, for TLC: the database, state               *)
(* regeneration, the light client server, the validator API, gossip          *)
(* validation, the attestation pool, the subnet services, the tracker of     *)
(* eth1 deposits and the genesis builder.  A behaviour is about one of them: *)
(* "part" says which.  The database keeps its own variables; the others use  *)
(* the registers r1, r2, ..., in the order of their declarations.            *)
EXTENDS Database

VARIABLES part, r1, r2, r3, r4, r5, r6, r7, r8, r9, r10, r11, r12, r13, r14

from4 == <<r4, r5, r6, r7, r8, r9, r10, r11, r12, r13, r14>>
from5 == <<r5, r6, r7, r8, r9, r10, r11, r12, r13, r14>>
from6 == <<r6, r7, r8, r9, r10, r11, r12, r13, r14>>
from8 == <<r8, r9, r10, r11, r12, r13, r14>>
from10 == <<r10, r11, r12, r13, r14>>
from11 == <<r11, r12, r13, r14>>
from12 == <<r12, r13, r14>>
registers == <<r1, r2, r3, from4>>
allVars == <<part, vars, registers>>

-----------------------------------------------------------------------------
\* Two neighbouring buckets of two ids.
IdOfValue == [v \in Values |-> v - 1]

\* A chain of five blocks and a fork of one, two slots an epoch, each epoch's first slot skipped
\* on the chain.  A checkpoint is finalized within two epochs of its justification, and
\* MAX_EPOCHS is above that, as it is in the code.
Cp(root, epoch) == [root |-> root, epoch |-> epoch]
ChainParent == <<0, 1, 2, 3, 4, 1>>
ChainSlot == [b \in 0..6 |-> <<0, 1, 3, 5, 7, 9, 2>>[b + 1]]
ChainJust == [b \in 1..6 |-> IF b = 4 THEN Cp(2, 2) ELSE IF b = 5 THEN Cp(3, 3) ELSE Cp(0, 0)]
ChainFin == [b \in 1..6 |-> IF b = 5 THEN Cp(2, 2) ELSE Cp(0, 0)]
StateRequests ==
    LET Ask(kind, root, slot) == [kind |-> kind, root |-> root, slot |-> slot]
    IN {Ask("state", 2, 3), Ask("checkpoint", 6, 4), Ask("blockSlot", 3, 7), Ask("blockSlot", 4, 8),
        Ask("blockSlot", 3, 5)}

Reg == INSTANCE Regen WITH
    Roots <- 1..6, Genesis <- 0, Parent <- ChainParent, Slot <- ChainSlot, Just <- ChainJust,
    Fin <- ChainFin, SLOTS_PER_EPOCH <- 2, MAX_STATES <- 2, MAX_EPOCHS <- 3,
    MAX_BLOCKS_TO_REPLAY <- 10, REGEN_QUEUE_MAX_LEN <- 1, Requests <- StateRequests,
    known <- r1, head <- r2, justified <- r3, finalized <- r4, hot <- r5, states <- r6,
    cps <- r7, epochIndex <- r8, pruneDue <- r9, task <- r10, moved <- r11, queue <- r12,
    job <- r13, answer <- r14

\* The light client: two sync committee periods of five slots, with an update of a finalized
\* header in each; the second slot of the first period and the first of the second may be empty.
CONSTANTS SLOTS_PER_EPOCH, EPOCHS_PER_SYNC_COMMITTEE_PERIOD, SYNC_COMMITTEE_SIZE, PREV_DATA_MAX_SIZE,
    WsPeriod, BitCounts, MayBeEmpty, MayStall, LastLightSlot, MaxHandlers, MaxFinalizing

ASSUME LightClientAssumption ==
    /\ SLOTS_PER_EPOCH \in Nat \ {0} /\ EPOCHS_PER_SYNC_COMMITTEE_PERIOD \in Nat \ {0}
    /\ WsPeriod \in Nat /\ BitCounts \subseteq Nat

LC == INSTANCE LightClient WITH
    MaxSlot <- LastLightSlot,
    slot <- r1, finalizedIn <- r2, toFinalize <- r3, prevHeadData <- r4,
    finalizedCheckpoint <- r5, bestUpdate <- r6, latestFinalized <- r7, handlers <- r8,
    initProof <- r9, committeeProofs <- r10, client <- r11

\* The validator API and the subnets: two slots an epoch.
CONSTANTS SlotsPerEpoch, SYNC_TOLERANCE_EPOCHS, LastApiSlot, MaxBlocks, MaxAnswers

Api == INSTANCE ValidatorApi WITH
    SLOTS_PER_EPOCH <- SlotsPerEpoch, MaxSlot <- LastApiSlot,
    slot <- r1, tree <- r2, head <- r3, request <- r4, answers <- r5

\* Gossip: batches of two messages of one kind from one validator, for the same and for
\* different periods, sound and flawed, and of three of which the API submits one or two.
CONSTANTS Batches, MaxConcurrency, MaxTime

Msg(kind, slot, subnet, via, flaw, id) ==
    [kind |-> kind, validator |-> 1, subnet |-> subnet, slot |-> slot, block |-> 0, flaw |-> flaw,
     id |-> id, via |-> via]
Flaws == [attestation |-> {"targetEpoch", "bits", "targetRoot", "committee", "signature"},
          aggregate |-> {"targetEpoch", "selection", "signature"},
          syncMessage |-> {"subnet", "signature"}, contribution |-> {"selection", "signature"},
          block |-> {"proposer"}, exit |-> {"operation"}, proposerSlashing |-> {"signature"},
          attesterSlashing |-> {"operation"}]
SoundMsg(kind, slot, via, id) == Msg(kind, slot, 1, via, "none", id)
AllBatches ==
    {{SoundMsg(k, 1, "gossip", 1), SoundMsg(k, s, "gossip", 2)} : k \in DOMAIN Flaws, s \in {1, 2}}
        \union UNION {{{SoundMsg(k, 1, "gossip", 1), Msg(k, 1, 1, "gossip", f, 2)} : f \in Flaws[k]} : k \in DOMAIN Flaws}
        \union {{SoundMsg(k, 1, "gossip", 1), Msg(k, 1, 2, "gossip", "none", 2), SoundMsg(k, 1, "gossip", 3)} : k \in {"syncMessage", "contribution"}}
        \union {{SoundMsg(k, 1, "gossip", 1), SoundMsg(k, 1, v, 2), SoundMsg(k, 1, "api", 3)} :
                  k \in {"attestation", "aggregate", "contribution"}, v \in {"gossip", "api"}}

QueueOpts == [k \in DOMAIN Flaws |-> IF k \in {"attestation", "aggregate"} THEN 2 ELSE 1]

Gossip == INSTANCE GossipValidation WITH
    Messages <- UNION Batches,
    now <- r1, batch <- r2, stage <- r3, seen <- r4, known <- r5, finalized <- r6, received <- r7

\* The attestation pool: three members that sign for two roots in two slots.
CONSTANTS Members, DataRoots, Items, MAX_PER_SLOT, SLOTS_RETAINED, FirstSlot, LastSlot

Pool == INSTANCE OpPools WITH
    Roots <- DataRoots, MaxSlot <- LastSlot,
    clockSlot <- r1, pool <- r2, lowestPermissibleSlot <- r3, added <- r4

\* The altair fork lies in the middle; the genesis epoch is before its lookahead.
CONSTANTS AttSubnets, SyncSubnets, Validators, EPOCHS_PER_RANDOM_SUBNET_SUBSCRIPTION,
    RANDOM_SUBNETS_PER_VALIDATOR, LAST_SEEN_VALIDATOR_TIMEOUT, ALTAIR_FORK_EPOCH,
    FORK_EPOCH_LOOKAHEAD, DutyLookahead, LastSubnetSlot

Sub == INSTANCE Subnets WITH
    SLOTS_PER_EPOCH <- SlotsPerEpoch, MaxSlot <- LastSubnetSlot,
    slot <- r1, net <- r2, synced <- r3

\* Two deposits in one block and one two blocks later; as on the networks the client follows, a
\* block's number is above the indexes of its deposits.
Eth1 == INSTANCE Eth1Deposits WITH
    DepositBlock <- <<3, 3, 5>>, DeployBlock <- 3, MaxBlock <- 5, MAX_BLOCKS_PER_LOG_QUERY <- 2,
    MAX_BLOCKS_PER_BLOCK_QUERY <- 2, MAX_DEPOSITS <- 1, VotingPeriod <- 2, CandidateRange <- 2,
    remote <- r1, step <- r2, follow <- r3, last <- r4, fetched <- r5, roots <- r6,
    events <- r7, eth1Data <- r8, state <- r9, proposal <- r10

\* Enough validators at block 3, which is too early; a later deposit comes after the first block
\* that qualifies.
Gen == INSTANCE GenesisBuilder WITH
    DepositBlock <- <<1, 1, 3, 7>>, DeployBlock <- 1, MaxBlock <- 8, GenesisBlock <- 6,
    MIN_GENESIS_ACTIVE_VALIDATOR_COUNT <- 3, MaxBlocksPerPoll <- 2, MaxRestarts <- 3,
    remote <- r1, phase <- r2, from <- r3, to <- r4, batches <- r5, builder <- r6,
    resumed <- r7, saved <- r8, restarts <- r9

-----------------------------------------------------------------------------
Off12 == r12 = 0 /\ r13 = 0 /\ r14 = 0
Off11 == r11 = 0 /\ Off12
Off10 == r10 = 0 /\ Off11
Off8 == r8 = 0 /\ r9 = 0 /\ Off10
Off6 == r6 = 0 /\ r7 = 0 /\ Off8
Off5 == r5 = 0 /\ Off6
Off4 == r4 = 0 /\ Off5

MCInit ==
    /\ Init
    /\ \/ part = "database" /\ r1 = 0 /\ r2 = 0 /\ r3 = 0 /\ Off4
       \/ part = "regen" /\ Reg!Init
       \/ part = "lightclient" /\ LC!Init /\ Off12
       \/ part = "api" /\ Api!Init /\ Off6
       \/ part = "gossip" /\ Gossip!Init /\ Off8
       \/ part = "pool" /\ Pool!Init /\ Off5
       \/ part = "subnets" /\ Sub!Init /\ Off4
       \/ part = "eth1" /\ Eth1!Init /\ Off11
       \/ part = "genesis" /\ Gen!Init /\ Off10

MCNext ==
    \/ part = "database" /\ Next /\ UNCHANGED <<part, registers>>
    \/ part = "regen" /\ Reg!Next /\ UNCHANGED <<part, vars>>
    \/ part = "lightclient" /\ LC!Next /\ UNCHANGED <<part, vars, from12>>
    \/ part = "api" /\ Api!Next /\ UNCHANGED <<part, vars, from6>>
    \/ part = "gossip" /\ Gossip!Next /\ UNCHANGED <<part, vars, from8>>
    \/ part = "pool" /\ Pool!Next /\ UNCHANGED <<part, vars, from5>>
    \/ part = "subnets" /\ Sub!Next /\ UNCHANGED <<part, vars, from4>>
    \/ part = "eth1" /\ Eth1!Next /\ UNCHANGED <<part, vars, from11>>
    \/ part = "genesis" /\ Gen!Next /\ UNCHANGED <<part, vars, from10>>

MCSpec == MCInit /\ [][MCNext]_allVars

\* The tracker of deposits alone.
Eth1Spec == MCInit /\ part = "eth1" /\ [][MCNext]_allVars

-----------------------------------------------------------------------------
\* Regen: an answer is the state that was asked for, from whichever cache entry the replay
\* started, and the state of the finalized checkpoint is cached when the tasks look for it.
AnswersAreExact == part = "regen" => Reg!AnswersAreExact /\ Reg!FinalizedStateCached

\* LightClient: an update the server offers passes the client's checks, if somebody signed it
\* and its proof is of the state of its own header (see CheckpointStateIsOfBlock for those of
\* a later state), and the client's committees are those of the periods of its header and the
\* one after.
ServedIsAccepted == part = "lightclient" => LC!ServedIsAccepted /\ LC!CommitteesMatchHeader

\* ValidatorApi: attestation data is of one chain although the head moves while the answer is
\* put together, and two duty answers with one dependent root have the same duties.
AnswersAreCoherent == part = "api" => Api!AnswersAreCoherent /\ Api!DependentRootDecides

\* GossipValidation: of the messages for one slot or epoch of a validator at most one is accepted
\* although they are validated at the same time, and no sound block is dropped.
AcceptedOnce == part = "gossip" => Gossip!AcceptedOnce /\ Gossip!NoBlockDropped

\* OpPools: an aggregate of the attestation pool has the bits of exactly the signatures in it.
AggregatesAreSigned == part = "pool" => Pool!AggregatesAreSigned

\* Subnets: every attestation and sync committee topic is of an active fork and held by a service
\* that will drop it, but for topics of the old fork once the transition has ended, and the ENR
\* tells the long-lived subnets.
NoTopicLeak == part = "subnets" => Sub!NoTopicLeak /\ Sub!EnrIsCurrent

\* Eth1Deposits and GenesisBuilder: stored eth1 data counts the deposits up to its block, a
\* proposal has the deposits its state demands, and genesis has the deposits up to its block,
\* however polls, failures and restarts cut the range.
DepositsAreExact ==
    /\ part = "eth1" => Eth1!Eth1DataIsExact /\ Eth1!ProposalIsValid
    /\ part = "genesis" => Gen!GenesisIsExact

\* Eth1Deposits: db/repositories/depositEvent.ts says events are "Removed when included on chain or
\* old": a deposit that is known and still to be included has its event between updates.
PendingDepositsKept == part = "eth1" => Eth1!PendingDepositsKept
=============================================================================
