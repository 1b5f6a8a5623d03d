--------------------------- MODULE GenesisBuilder ---------------------------
(***************************************************************************)
(* Building the genesis state from the deposit contract                    *)
(* (chain/genesis/genesis.ts, eth1/stream.ts, chain/initState.ts): deposits*)
(* are streamed until there are enough validators, then deposits and       *)
(* blocks until one is late enough.  Progress is written to the database   *)
(* when the builder fails, and restored when the node starts again.        *)
(*                                                                         *)
(* Deposit i, of 0, 1, ..., is in eth1 block DepositBlock[i + 1] and makes *)
(* one active validator.  Block b has time b; its genesis time is late     *)
(* enough from GenesisBlock on.                                            *)
(***************************************************************************)
EXTENDS Integers, Sequences, FiniteSets, FiniteSetsExt, SequencesExt

CONSTANTS
    DepositBlock, DeployBlock,
    MaxBlock,               \* bound on the eth1 chain
    GenesisBlock,           \* MIN_GENESIS_TIME less GENESIS_DELAY
    MIN_GENESIS_ACTIVE_VALIDATOR_COUNT,
    MaxBlocksPerPoll,
    MaxRestarts

VARIABLES
    remote,         \* the eth1 block at follow distance
    phase,          \* "deposits", "blocks", "found"; "failing", "putTree", "putLast" as progress is written; "down"
    from, to,       \* the range of the stream's next query
    batches,        \* what the stream has still to yield: [events, block]
    builder,        \* state: deposits applied; tree: deposits pushed; cache; last (-1 for null)
    resumed,        \* the builder was given a pending status
    saved,          \* the database: state, tree, and last (-1 for none)
    restarts

vars == <<remote, phase, from, to, batches, builder, resumed, saved, restarts>>

Deposits == 0..(Len(DepositBlock) - 1)
BlockOf(i) == DepositBlock[i + 1]
EventsIn(a, b) == SetToSortSeq({i \in Deposits : BlockOf(i) \in a..b}, <)
Firsts(n) == [k \in 1..n |-> k - 1]

---------------------------------------------------------------------------
(* The state.                                                              *)

\* processDeposit's Merkle branch: the deposit is the next one, and its root is in the tree
\* at that place.
AcceptsDeposit(b, i) == i = Len(b.state) /\ Len(b.tree) > i /\ b.tree[i + 1] = i

\* applyDeposits: the events not seen before go to the tree, then to the state.
Pushed(b, new) ==
    [b EXCEPT !.cache = @ \cup ToSet(new), !.tree = @ \o new]

Applied(b, new) == [b EXCEPT !.state = @ \o new]

ApplyDeposits(b, events) ==
    LET new == SelectSeq(events, LAMBDA i : i \notin b.cache) IN Applied(Pushed(b, new), new)

\* Each deposit is accepted on top of those before it.
DepositsAccepted(b, events) ==
    LET new == SelectSeq(events, LAMBDA i : i \notin b.cache)
        before(k) == Applied(Pushed(b, new), SubSeq(new, 1, k - 1))
    IN  \A k \in DOMAIN new : AcceptsDeposit(before(k), new[k])

IsValidGenesisValidators(b) == Len(b.state) >= MIN_GENESIS_ACTIVE_VALIDATOR_COUNT
IsValidGenesisState(b, block) == block >= GenesisBlock /\ IsValidGenesisValidators(b)

---------------------------------------------------------------------------
(* The two streams.                                                        *)

\* groupDepositEventsByBlock
GroupDepositEventsByBlock(events) ==
    LET blocks == SetToSortSeq({BlockOf(i) : i \in ToSet(events)}, <)
    IN  [k \in DOMAIN blocks |-> [events |-> SelectSeq(events, LAMBDA i : BlockOf(i) = blocks[k]), block |-> blocks[k]]]

\* Phase 1: one turn of getDepositsStream.
GetDepositsStream ==
    /\ phase = "deposits" /\ batches = <<>>
    /\ LET toBlock == Min({remote, from + MaxBlocksPerPoll}) IN
       /\ batches' = GroupDepositEventsByBlock(EventsIn(from, toBlock))
       /\ from' = toBlock
    /\ UNCHANGED <<remote, phase, to, builder, resumed, saved, restarts>>

\* waitForGenesisValidators takes a batch.
WaitForGenesisValidators ==
    /\ phase = "deposits" /\ batches # <<>>
    /\ LET batch == Head(batches)
           next == [ApplyDeposits(builder, batch.events) EXCEPT !.last = batch.block]
           start == Min({Max({batch.block, DeployBlock}), remote})
       IN  /\ DepositsAccepted(builder, batch.events)
           /\ builder' = next
           /\ IF IsValidGenesisValidators(next)
              THEN phase' = "blocks" /\ batches' = <<>> /\ from' = start /\ to' = start
              ELSE batches' = Tail(batches) /\ UNCHANGED <<phase, from, to>>
    /\ UNCHANGED <<remote, resumed, saved, restarts>>

\* optimizeNextBlockDiffForGenesis: halfway to the block that is late enough.
OptimizeNextBlockDiff(block) ==
    IF GenesisBlock - block <= 2 THEN 1 ELSE Max({1, (GenesisBlock - block) \div 2})

\* Phase 2: one turn of getDepositsAndBlockStreamForGenesis and of waitForGenesis.
WaitForGenesis ==
    /\ phase = "blocks" /\ DepositsAccepted(builder, EventsIn(from, to))
    /\ LET next == [ApplyDeposits(builder, EventsIn(from, to)) EXCEPT !.last = to] IN
       /\ builder' = next
       /\ IF IsValidGenesisState(next, to)
          THEN phase' = "found" /\ UNCHANGED <<from, to>>
          ELSE /\ from' = to /\ UNCHANGED phase
               /\ to' = Min({remote, to + Min({OptimizeNextBlockDiff(to), MaxBlocksPerPoll})})
    /\ UNCHANGED <<remote, batches, resumed, saved, restarts>>

\* A deposit is refused: the builder throws with the tree it has pushed to.
RefuseDeposits ==
    LET events == IF phase = "blocks" THEN EventsIn(from, to) ELSE Head(batches).events
        new == SelectSeq(events, LAMBDA i : i \notin builder.cache)
    IN  /\ phase = "blocks" \/ (phase = "deposits" /\ batches # <<>>)
        /\ ~DepositsAccepted(builder, events)
        /\ builder' = Pushed(builder, new) /\ phase' = "failing"
        /\ UNCHANGED <<remote, from, to, batches, resumed, saved, restarts>>

---------------------------------------------------------------------------
(* Failure, and the restart.                                               *)

\* The provider fails or the node is stopped, while the stream awaits.
Fail ==
    /\ (phase = "deposits" /\ batches = <<>>) \/ phase = "blocks"
    /\ phase' = "failing"
    /\ UNCHANGED <<remote, from, to, batches, builder, resumed, saved, restarts>>

\* The three writes of initStateFromEth1, when a block was processed; the roots of the
\* tree are written one by one over those that are there.
PutState ==
    /\ phase = "failing"
    /\ IF builder.last = -1 THEN phase' = "down" /\ UNCHANGED saved
       ELSE phase' = "putTree" /\ saved' = [saved EXCEPT !.state = builder.state]
    /\ UNCHANGED <<remote, from, to, batches, builder, resumed, restarts>>

PutTree ==
    /\ phase = "putTree" /\ phase' = "putLast"
    /\ saved' = [saved EXCEPT !.tree = builder.tree \o SubSeq(@, Len(builder.tree) + 1, Len(@))]
    /\ UNCHANGED <<remote, from, to, batches, builder, resumed, restarts>>

PutLast ==
    /\ phase = "putLast" /\ phase' = "down"
    /\ saved' = [saved EXCEPT !.last = builder.last]
    /\ UNCHANGED <<remote, from, to, batches, builder, resumed, restarts>>

Crash ==
    /\ phase \notin {"found", "down"} /\ phase' = "down"
    /\ UNCHANGED <<remote, from, to, batches, builder, resumed, saved, restarts>>

Fresh == [state |-> <<>>, tree |-> <<>>, cache |-> {}, last |-> -1]

\* A new builder; with a pending status it begins after the last block, knowing no index.
Start ==
    /\ phase = "down" /\ restarts < MaxRestarts /\ restarts' = restarts + 1
    /\ phase' = "deposits" /\ batches' = <<>> /\ to' = 0
    /\ resumed' = (saved.last # -1)
    /\ IF resumed'
       THEN /\ builder' = [state |-> saved.state, tree |-> saved.tree, cache |-> {}, last |-> -1]
            /\ from' = Max({saved.last + 1, DeployBlock})
       ELSE builder' = Fresh /\ from' = DeployBlock
    /\ UNCHANGED <<remote, saved>>

Eth1Advances ==
    /\ remote < MaxBlock /\ remote' = remote + 1
    /\ UNCHANGED <<phase, from, to, batches, builder, resumed, saved, restarts>>

---------------------------------------------------------------------------
Init ==
    /\ remote = DeployBlock /\ phase = "deposits" /\ from = DeployBlock /\ to = 0 /\ batches = <<>>
    /\ builder = Fresh /\ resumed = FALSE /\ restarts = 0
    /\ saved = [state |-> <<>>, tree |-> <<>>, last |-> -1]

Next ==
    \/ GetDepositsStream \/ WaitForGenesisValidators \/ WaitForGenesis \/ RefuseDeposits
    \/ Fail \/ PutState \/ PutTree \/ PutLast \/ Crash \/ Start \/ Eth1Advances

Spec == Init /\ [][Next]_vars

---------------------------------------------------------------------------
CountAt(b) == Cardinality({i \in Deposits : BlockOf(i) <= b})
Qualifies(b) == b >= GenesisBlock /\ CountAt(b) >= MIN_GENESIS_ACTIVE_VALIDATOR_COUNT

\* Every node must build the same genesis state.  What is found has each deposit up to the
\* genesis block once and in order, although ranges of the streams overlap, the provider
\* may be behind a restored status, and the three writes of a status may be cut short;
\* and a builder that was not restored finds the first block that qualifies.
GenesisIsExact ==
    phase = "found" =>
        /\ builder.state = Firsts(CountAt(builder.last)) /\ builder.tree = builder.state
        /\ ~resumed => \A b \in DeployBlock..(builder.last - 1) : ~Qualifies(b)

-----------------------------------------------------------------------------
(* What the sources say and the model refutes, see README.md. *)

\* genesis.ts:30 says of a pending status "Use to restore pending progress": a builder that
\* goes on from one finds the first block that qualifies as well.
GenesisIsFirst ==
    phase = "found" => \A b \in DeployBlock..(builder.last - 1) : ~Qualifies(b)
=============================================================================
