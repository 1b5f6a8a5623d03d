---------------------------- MODULE Eth1Deposits ----------------------------
(***************************************************************************)
(* How the node follows the deposit contract (eth1/), and what it proposes *)
(* of it.  A loop of updates fetches deposit events and block headers up   *)
(* to the follow distance, writes them to the database, and infers from    *)
(* the events how many deposits there were at each block; block production *)
(* votes for such a block and includes the deposits that are due.          *)
(*                                                                         *)
(* Deposit i is in eth1 block DepositBlock[i + 1].  An eth1Data is its     *)
(* block number: the deposit count and root follow from it.  The provider  *)
(* may lag behind what it said before, and the node may crash between two  *)
(* writes.                                                                 *)
(***************************************************************************)
EXTENDS Integers, Sequences, FiniteSets, FiniteSetsExt, SequencesExt

CONSTANTS
    DepositBlock, DeployBlock,
    MaxBlock,           \* bound on the eth1 chain
    MAX_BLOCKS_PER_LOG_QUERY, MAX_BLOCKS_PER_BLOCK_QUERY,
    MAX_DEPOSITS,
    VotingPeriod,       \* slots of an eth1 voting period
    CandidateRange      \* eth1 blocks in the window of candidates

VARIABLES
    remote,         \* the block at follow distance, as the provider says it
    step,           \* what the update loop awaits
    follow,         \* remote as this update has read it
    last,           \* lastProcessedDepositBlockNumber; 0 for null
    fetched,        \* the deposits, or the blocks, a query has returned
    roots,          \* db.depositDataRoot: number of roots, also the length of the tree
    events,         \* db.depositEvent: indexes
    eth1Data,       \* db.eth1Data: depositCount by block number
    state,          \* the head state: block of its eth1Data, votes, eth1DepositIndex
    proposal        \* the last proposal on the head state: its vote and deposits

db == <<roots, events, eth1Data>>
vars == <<remote, step, follow, last, fetched, db, state, proposal>>

Deposits == 0..(Len(DepositBlock) - 1)
BlockOf(i) == DepositBlock[i + 1]
CountAt(b) == Cardinality({i \in Deposits : BlockOf(i) <= b})
None == [vote |-> 0, deposits |-> {}, for |-> [data |-> 0, votes |-> <<>>, index |-> 0]]

---------------------------------------------------------------------------
(* The update loop.                                                        *)

GetFromBlockToFetch(lastCached) == Max({IF lastCached = 0 THEN 0 ELSE lastCached + 1, DeployBlock})

\* getLastProcessedDepositBlockNumber
LastProcessed ==
    IF last # 0 THEN last ELSE IF events = {} THEN 0 ELSE BlockOf(Max(events))

Update ==
    /\ step = "idle"
    /\ follow' = remote /\ step' = "getDepositEvents"
    /\ UNCHANGED <<remote, last, fetched, db, state, proposal>>

DepositsTo == Min({follow, GetFromBlockToFetch(LastProcessed) + MAX_BLOCKS_PER_LOG_QUERY - 1})

\* The events come, and are refused unless they continue those of the database.
GetDepositEvents ==
    LET from == GetFromBlockToFetch(LastProcessed)
        new == {i \in Deposits : BlockOf(i) \in from..DepositsTo}
    IN  /\ step = "getDepositEvents"
        /\ last' = LastProcessed
        /\ IF new # {} /\ events # {} /\ Min(new) # Max(events) + 1
           THEN step' = "idle" /\ fetched' = {}
           ELSE step' = "putRoots" /\ fetched' = new
        /\ UNCHANGED <<remote, follow, db, state, proposal>>

PutRoots ==
    /\ step = "putRoots" /\ step' = "putEvents"
    /\ roots' = Max({roots} \cup {i + 1 : i \in fetched})
    /\ UNCHANGED <<remote, follow, last, fetched, events, eth1Data, state, proposal>>

PutEvents ==
    /\ step = "putEvents" /\ step' = "getBlocks"
    /\ events' = events \cup fetched
    /\ last' = DepositsTo /\ fetched' = {}
    /\ UNCHANGED <<remote, follow, roots, eth1Data, state, proposal>>

HighestCached == Max({0} \cup DOMAIN eth1Data)

\* updateBlockCache, up to its query.
GetBlocks ==
    LET from == Max({GetFromBlockToFetch(HighestCached), BlockOf(Min(events))})
        to == Min({follow, from + MAX_BLOCKS_PER_BLOCK_QUERY - 1, LastProcessed})
    IN  /\ step = "getBlocks"
        /\ last' = LastProcessed
        /\ IF events = {} \/ LastProcessed = 0
           THEN step' = "idle" /\ fetched' = {}
           ELSE step' = "putBlocks" /\ fetched' = from..to
        /\ UNCHANGED <<remote, follow, db, state, proposal>>

\* Mutant: an earlier event of a block replaces the one found first.
DepositsOverwritten(from, to) ==
    LET upTo == {i \in events : i <= to /\ BlockOf(i) <= to}
    IN  {i \in upTo : \A j \in upTo : BlockOf(j) = BlockOf(i) => j >= i}

\* getDepositsByBlockNumber: the last event of each block of the range, and one below it.
\* The stream's bound compares indexes with a block number.
DepositsByBlockNumber(from, to) ==
    LET upTo == {i \in events : i <= to /\ BlockOf(i) <= to}
        lasts == {i \in upTo : \A j \in upTo : BlockOf(j) = BlockOf(i) => j <= i}
    IN  {i \in lasts : BlockOf(i) >= from \/ \A j \in lasts : BlockOf(j) < from => j <= i}

\* getEth1DataForBlocks, and the write; it throws when a block has no event at or below it.
PutBlocks ==
    LET known == DepositsByBlockNumber(Min(fetched), Max(fetched))
        below(b) == {i \in known : BlockOf(i) <= b}
    IN  /\ step = "putBlocks" /\ step' = "idle" /\ fetched' = {}
        /\ IF fetched = {} \/ (\E b \in fetched : below(b) = {}) \/ (\E i \in known : i >= roots)
           THEN UNCHANGED eth1Data
           ELSE eth1Data' = [b \in DOMAIN eth1Data \cup fetched |->
                                IF b \in fetched THEN Max(below(b)) + 1 ELSE eth1Data[b]]
        /\ UNCHANGED <<remote, follow, last, roots, events, state, proposal>>

\* The provider fails: the loop starts again.
UpdateFails ==
    /\ step \in {"getDepositEvents", "putBlocks"} /\ step' = "idle" /\ fetched' = {}
    /\ UNCHANGED <<remote, follow, last, db, state, proposal>>

Restart ==
    /\ step' = "idle" /\ last' = 0 /\ fetched' = {} /\ follow' = 0
    /\ UNCHANGED <<remote, db, state, proposal>>

Eth1Advances(b) ==
    /\ b \in {remote - 1, remote + 1} \cap DeployBlock..MaxBlock /\ remote' = b
    /\ UNCHANGED <<step, follow, last, fetched, db, state, proposal>>

---------------------------------------------------------------------------
(* The head state and what is proposed on it.                              *)

\* The eth1Data that a block with this vote leaves in the state; getNewEth1Data.
NewEth1Data(s, vote) ==
    IF 2 * (Len(SelectSeq(s.votes, LAMBDA v : v = vote)) + 1) > VotingPeriod THEN vote ELSE s.data

DepositsDue(data, index) == {i \in Deposits : index <= i /\ i < Min({CountAt(data), index + MAX_DEPOSITS})}

\* A block is imported: processEth1Data, the deposits, the reset of the votes at the end of
\* the period, and deleteOld of the events up to the count its vote names.
ImportBlock(vote) ==
    /\ vote \in {state.data} \cup DeployBlock..remote /\ CountAt(vote) >= CountAt(state.data)
    /\ LET data == NewEth1Data(state, vote)
           votes == Append(state.votes, vote)
       IN  state' = [data |-> data, votes |-> IF Len(votes) = VotingPeriod THEN <<>> ELSE votes,
                     index |-> state.index + Cardinality(DepositsDue(data, state.index))]
    /\ events' = {i \in events : i >= CountAt(vote)}
    /\ proposal' = None
    /\ UNCHANGED <<remote, step, follow, last, fetched, roots, eth1Data>>

\* pickEth1Vote over the candidates whose window ends at block hi.
PickEth1Vote(hi) ==
    LET consider == {b \in DOMAIN eth1Data : b \in (hi - CandidateRange + 1)..hi
                                             /\ eth1Data[b] >= CountAt(state.data)}
        valid == SelectSeq(state.votes, LAMBDA v : v \in consider)
        times(v) == Len(SelectSeq(valid, LAMBDA w : w = v))
        first(v) == Min({i \in DOMAIN valid : valid[i] = v})
        frequent == {v \in ToSet(valid) : \A w \in ToSet(valid) : times(w) <= times(v)}
    IN  IF valid # <<>> THEN CHOOSE v \in frequent : \A w \in frequent : first(w) <= first(v)
        ELSE IF consider # {} THEN Max(consider) ELSE state.data

DataForDeposits(s, vote) == NewEth1Data(s, vote)

\* getEth1DataAndDeposits.  Votes are never taken back, so it is as if done when the
\* deposit events are read; it throws when they are not all there.
GetEth1DataAndDeposits(hi) ==
    LET vote == PickEth1Vote(hi)
        data == DataForDeposits(state, vote)
        found == DepositsDue(data, state.index) \cap events
    IN  /\ hi \in DeployBlock..MaxBlock
        /\ CountAt(data) >= state.index /\ CountAt(data) <= roots
        /\ found = DepositsDue(data, state.index)
        /\ proposal' = [vote |-> vote, deposits |-> found, for |-> state]
        /\ UNCHANGED <<remote, step, follow, last, fetched, db, state>>

---------------------------------------------------------------------------
Init ==
    /\ remote = DeployBlock /\ step = "idle" /\ follow = 0 /\ last = 0 /\ fetched = {}
    /\ roots = 0 /\ events = {} /\ eth1Data = [b \in {} |-> 0]
    /\ state = [data |-> 0, votes |-> <<>>, index |-> 0] /\ proposal = None

Next ==
    \/ Update \/ GetDepositEvents \/ PutRoots \/ PutEvents \/ GetBlocks \/ PutBlocks
    \/ UpdateFails \/ Restart
    \/ \E b \in DeployBlock..MaxBlock : Eth1Advances(b) \/ GetEth1DataAndDeposits(b)
    \/ \E vote \in 0..MaxBlock : ImportBlock(vote)

Spec == Init /\ [][Next]_vars

---------------------------------------------------------------------------
\* The deposit count this node would vote for at a block is the contract's, although it
\* is only inferred from the events at hand: after crashes between the writes, with a
\* provider that goes back, and with events deleted under the updates.
Eth1DataIsExact == \A b \in DOMAIN eth1Data : eth1Data[b] = CountAt(b)

\* What is proposed includes the deposits that the state transition will demand once it
\* has counted the block's own vote (processOperations rejects any other number).
ProposalIsValid ==
    proposal.deposits = DepositsDue(NewEth1Data(proposal.for, proposal.vote), proposal.for.index)

\* db/repositories/depositEvent.ts says events are "Removed when included on chain or old":
\* a deposit whose root is known and that is still to be included has its event, except
\* while an update is writing.
PendingDepositsKept ==
    step = "idle" /\ last # 0 => \A i \in Deposits : state.index <= i /\ BlockOf(i) <= last => i \in events
=============================================================================
