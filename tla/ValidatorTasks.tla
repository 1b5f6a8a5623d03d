--------------------------- MODULE ValidatorTasks ---------------------------
(***************************************************************************)
(* The tasks the validator client runs every slot                          *)
(* (packages/validator/src/services/block.ts, blockDuties.ts,              *)
(* attestation.ts, syncCommittee.ts, chainHeaderTracker.ts), each in a     *)
(* loop of the clock (util/clock.ts): run, then sleep until the next slot. *)
(*                                                                         *)
(* Time is counted in quarters of a slot: its start, one third, two        *)
(* thirds, and the last instant, in which a timer set for the next slot    *)
(* may already fire.  Timers also fire late, and the beacon node may       *)
(* change its chain between two requests.                                  *)
(***************************************************************************)
EXTENDS Integers, Sequences, FiniteSets

CONSTANTS
    Keys,            \* the keys of the validator store
    Forks,           \* dependent roots: chains the beacon node may be on
    Proposer,        \* Proposer[f][slot]: the proposer of the slot, if it is local
    AttesterSlot,    \* AttesterSlot[f][epoch][key]: the slot of the key's duty
    SLOTS_PER_EPOCH,
    ALTAIR_FORK_EPOCH,
    NoKey, NoRoot,
    TaskSets,        \* the tasks that run in a behaviour: they share only time and the node
    MaxSlot,         \* bound: the last slot
    MaxCalls,        \* bound: createAndPublishBlock calls under way for a slot and key
    MaxReorgs        \* bound: how often the beacon node changes its chain

Ticks == 4
HISTORICAL_DUTIES_EPOCHS == 2
GENESIS_SLOT == 0
Slots == 0..MaxSlot
Epochs == 0..(MaxSlot \div SLOTS_PER_EPOCH)
Tasks == {"block", "attestation", "syncCommittee"}

VARIABLES
    now,
    fork,        \* the chain the beacon node is on
    reorgs,
    proposers,   \* BlockDutiesService.proposers: the dependent root per epoch
    attDuties,   \* dutiesByEpochByIndex: the dependent root per epoch
    head,        \* ChainHeaderTracker: slot of the head, NoRoot before the first event
    task,        \* per task: [pc, slot, wake, duties]
    producing,   \* how many createAndPublishBlock calls are under way for a slot and key
    notified,    \* proposers the last run for a slot was told of
    answered,    \* duties answer of the last successful run of the block task
    attested     \* slots attested for, in order

vars == <<now, fork, reorgs, proposers, attDuties, head, task, producing,
          notified, answered, attested>>

ComputeEpochAtSlot(slot) == slot \div SLOTS_PER_EPOCH
CurrentEpoch == ComputeEpochAtSlot(now \div Ticks)

-----------------------------------------------------------------------------
\* Mutant: the slot after a sleep is rounded down.
GetCurrentSlot == now \div Ticks

\* getCurrentSlotAround: the nearest slot, so that an early timer counts for it.
GetCurrentSlotAround == (now + 2) \div Ticks

\* msToSlotFraction
SlotThird(slot, thirds) == Ticks * slot + thirds

\* timeUntilNext: the start of the slot after the present one.
TimeOfNext == Ticks * ((now \div Ticks) + 1)

\* runAtMostEvery: the task has returned, its loop sleeps until the next slot.
Sleep(t) == task' = [task EXCEPT ![t] = [@ EXCEPT !.pc = "sleep", !.wake = TimeOfNext]]

Running(t) == task[t].pc = "run"
At(t, pc) == task[t].pc = pc

\* runAtMostEvery: the timer fires, at the earliest an instant before the slot.
Wake(t) ==
    /\ At(t, "sleep")
    /\ now >= task[t].wake - 1
    /\ GetCurrentSlotAround \in Slots
    /\ task' = [task EXCEPT ![t] = [@ EXCEPT !.pc = "run", !.slot = GetCurrentSlotAround]]
    /\ UNCHANGED <<now, fork, reorgs, proposers, attDuties, head, producing, notified, answered, attested>>

-----------------------------------------------------------------------------
\* getblockProposersAtSlot
GetBlockProposersAtSlot(ps, slot) ==
    LET root == ps[ComputeEpochAtSlot(slot)]
    IN {Proposer[root][slot] : f \in {root} \ {NoRoot}} \ {NoKey}

\* differenceHex
DifferenceHex(prev, next) == next \ prev

\* notifyBlockProductionFn: one createAndPublishBlock per proposer, not awaited; an
\* earlier one for the slot and key may still be under way.
NotifyBlockProduction(slot, keys) ==
    /\ \A k \in keys : producing[slot][k] < MaxCalls
    /\ producing' = IF slot <= GENESIS_SLOT THEN producing
                    ELSE [producing EXCEPT ![slot] = [k \in Keys |-> IF k \in keys THEN @[k] + 1 ELSE @[k]]]

\* runBlockDutiesTask, pollBeaconProposersAndNotify up to its request.
BlockDutiesTask ==
    LET t == task["block"]
        initial == GetBlockProposersAtSlot(proposers, t.slot)
    IN /\ Running("block")
       /\ NotifyBlockProduction(t.slot, initial)
       /\ notified' = [notified EXCEPT ![t.slot] = initial]
       /\ task' = [task EXCEPT !["block"] = [@ EXCEPT !.pc = "poll", !.wake = now, !.duties = initial]]
       /\ UNCHANGED <<now, fork, reorgs, proposers, attDuties, head, answered, attested>>

\* pruneOldDuties
PruneOldDuties(ds, epoch) ==
    [e \in Epochs |-> IF e + HISTORICAL_DUTIES_EPOCHS < epoch THEN NoRoot ELSE ds[e]]

\* pollBeaconProposers: the answer replaces the duties of the epoch; proposers
\* that were not notified yet are notified now.
PollBeaconProposers ==
    LET t == task["block"]
        epoch == ComputeEpochAtSlot(t.slot)
        polled == [proposers EXCEPT ![epoch] = fork]
        additional == DifferenceHex(t.duties, GetBlockProposersAtSlot(polled, t.slot))
    IN /\ At("block", "poll")
       /\ proposers' = PruneOldDuties(polled, epoch)
       /\ NotifyBlockProduction(t.slot, additional)
       /\ notified' = [notified EXCEPT ![t.slot] = @ \union additional]
       /\ answered' = [slot |-> t.slot, root |-> fork]
       /\ Sleep("block")
       /\ UNCHANGED <<now, fork, reorgs, attDuties, head, attested>>

\* The request fails: runBlockDutiesTask logs and prunes.
PollBeaconProposersFails ==
    /\ At("block", "poll")
    /\ proposers' = PruneOldDuties(proposers, ComputeEpochAtSlot(task["block"].slot))
    /\ answered' = [slot |-> 0, root |-> NoRoot]
    /\ Sleep("block")
    /\ UNCHANGED <<now, fork, reorgs, attDuties, head, producing, notified, attested>>

\* createAndPublishBlock: signRandao, produceBlock, signBlock, publishBlock; a
\* failure of any of them is logged and ends the call as well.
CreateAndPublishBlock(slot, k) ==
    /\ producing[slot][k] > 0
    /\ producing' = [producing EXCEPT ![slot][k] = @ - 1]
    /\ UNCHANGED <<now, fork, reorgs, proposers, attDuties, head, task, notified, answered, attested>>

-----------------------------------------------------------------------------
\* getDutiesAtSlot of AttestationDutiesService
GetDutiesAtSlot(slot) ==
    LET epoch == ComputeEpochAtSlot(slot)
    IN {k \in Keys : /\ attDuties[k][epoch] # NoRoot
                     /\ AttesterSlot[attDuties[k][epoch]][epoch][k] = slot}

\* runAttestationTasks up to the sleep that ends a third into the slot.
RunAttestationTasks ==
    /\ Running("attestation")
    /\ task' = [task EXCEPT !["attestation"] = [@ EXCEPT !.pc = "third", 
                                           !.duties = GetDutiesAtSlot(task["attestation"].slot)]]
    /\ UNCHANGED <<now, fork, reorgs, proposers, attDuties, head, producing, notified, answered, attested>>

\* produceAndPublishAttestations; groups is the committees whose attestation data
\* arrives, the others are logged and done.
ProduceAndPublishAttestations(groups) ==
    LET t == task["attestation"]
    IN /\ At("attestation", "third")
       /\ now >= SlotThird(t.slot, 1)
       /\ groups \subseteq t.duties
       /\ IF groups = {}
          THEN Sleep("attestation") /\ UNCHANGED attested
          ELSE /\ attested' = Append(attested, t.slot)
               /\ task' = [task EXCEPT !["attestation"] = [@ EXCEPT !.pc = "twoThirds", !.duties = groups]]
       /\ UNCHANGED <<now, fork, reorgs, proposers, attDuties, head, producing, notified, answered>>

\* produceAndPublishAggregates, for the aggregators among the duties.
ProduceAndPublishAggregates ==
    /\ At("attestation", "twoThirds")
    /\ now >= SlotThird(task["attestation"].slot, 2)
    /\ Sleep("attestation")
    /\ UNCHANGED <<now, fork, reorgs, proposers, attDuties, head, producing, notified, answered, attested>>

-----------------------------------------------------------------------------
\* getCurrentChainHead; without an answer the node is asked for its head.
GetCurrentChainHead(slot) == IF head # NoRoot /\ slot >= head THEN head ELSE NoRoot

\* runSyncCommitteeTasks up to the sleep: before the fork, or without duties in the
\* period (ValidatorDuties), there is nothing to do.
RunSyncCommitteeTasks ==
    LET t == task["syncCommittee"]
    IN /\ Running("syncCommittee")
       /\ \/ Sleep("syncCommittee")
          \/ /\ ComputeEpochAtSlot(t.slot) >= ALTAIR_FORK_EPOCH
             /\ task' = [task EXCEPT !["syncCommittee"] = [@ EXCEPT !.pc = "third"]]
       /\ UNCHANGED <<now, fork, reorgs, proposers, attDuties, head, producing, notified, answered, attested>>

\* produceAndPublishSyncCommittees: the messages of all duties sign one root.
ProduceAndPublishSyncCommittees ==
    LET t == task["syncCommittee"]
        tracked == GetCurrentChainHead(t.slot)
    IN /\ At("syncCommittee", "third")
       /\ now >= SlotThird(t.slot, 1)
       /\ \E root \in IF tracked # NoRoot THEN {tracked} ELSE 0..(now \div Ticks) :
             task' = [task EXCEPT !["syncCommittee"] = [@ EXCEPT !.pc = "twoThirds", !.duties = {root}]]
       /\ UNCHANGED <<now, fork, reorgs, proposers, attDuties, head, producing, notified, answered, attested>>

\* The head request fails: the run ends.
GetBlockRootFails ==
    /\ At("syncCommittee", "third")
    /\ now >= SlotThird(task["syncCommittee"].slot, 1)
    /\ GetCurrentChainHead(task["syncCommittee"].slot) = NoRoot
    /\ Sleep("syncCommittee")
    /\ UNCHANGED <<now, fork, reorgs, proposers, attDuties, head, producing, notified, answered, attested>>

\* produceAndPublishAggregates of SyncCommitteeService: contributions for the root
\* the messages signed.
ProduceAndPublishContributions ==
    /\ At("syncCommittee", "twoThirds")
    /\ now >= SlotThird(task["syncCommittee"].slot, 2)
    /\ Sleep("syncCommittee")
    /\ UNCHANGED <<now, fork, reorgs, proposers, attDuties, head, producing, notified, answered, attested>>

\* onHeadUpdate: the event stream reports a new head.
OnHeadUpdate(slot) ==
    /\ ~At("syncCommittee", "off")
    /\ slot <= now \div Ticks
    /\ head' = slot
    /\ UNCHANGED <<now, fork, reorgs, proposers, attDuties, task, producing, notified, answered, attested>>

-----------------------------------------------------------------------------
\* AttestationDutiesService has polled an epoch for a key (module ValidatorDuties).
PollAttesters(k, epoch) ==
    /\ ~At("attestation", "off")
    /\ epoch \in {CurrentEpoch, CurrentEpoch + 1} \intersect Epochs
    /\ attDuties[k][epoch] # fork
    /\ attDuties' = [attDuties EXCEPT ![k] = PruneOldDuties([@ EXCEPT ![epoch] = fork], CurrentEpoch)]
    /\ UNCHANGED <<now, fork, reorgs, proposers, head, task, producing, notified, answered, attested>>

\* External: time passes; a request is answered or times out within a slot.
Tick ==
    /\ now < Ticks * MaxSlot + 3
    /\ At("block", "poll") => now < task["block"].wake + Ticks
    /\ now' = now + 1
    /\ UNCHANGED <<fork, reorgs, proposers, attDuties, head, task, producing, notified, answered, attested>>

\* External: the beacon node changes its chain.
Reorg ==
    /\ reorgs < MaxReorgs
    /\ reorgs' = reorgs + 1
    /\ fork' \in Forks \ {fork}
    /\ UNCHANGED <<now, proposers, attDuties, head, task, producing, notified, answered, attested>>

\* Validator.start: every loop runs its task at once.
Init ==
    /\ now = 0
    /\ fork \in Forks
    /\ reorgs = 0
    /\ proposers = [e \in Epochs |-> NoRoot]
    /\ attDuties = [k \in Keys |-> [e \in Epochs |-> NoRoot]]
    /\ head = NoRoot
    /\ \E on \in TaskSets :
          task = [t \in Tasks |-> [pc |-> IF t \in on THEN "run" ELSE "off", slot |-> 0, wake |-> 0, duties |-> {}]]
    /\ producing = [s \in Slots |-> [k \in Keys |-> 0]]
    /\ notified = [s \in Slots |-> {}]
    /\ answered = [slot |-> 0, root |-> NoRoot]
    /\ attested = <<>>

Next ==
    \/ \E t \in Tasks : Wake(t)
    \/ BlockDutiesTask
    \/ PollBeaconProposers
    \/ PollBeaconProposersFails
    \/ \E slot \in Slots, k \in Keys : CreateAndPublishBlock(slot, k)
    \/ RunAttestationTasks
    \/ \E groups \in SUBSET Keys : ProduceAndPublishAttestations(groups)
    \/ ProduceAndPublishAggregates
    \/ RunSyncCommitteeTasks
    \/ ProduceAndPublishSyncCommittees
    \/ GetBlockRootFails
    \/ ProduceAndPublishContributions
    \/ \E slot \in Slots : OnHeadUpdate(slot)
    \/ \E k \in Keys, e \in Epochs : PollAttesters(k, e)
    \/ Tick
    \/ Reorg

Spec == Init /\ [][Next]_vars

-----------------------------------------------------------------------------
\* Attestations are made for each slot once and in slot order, although timers
\* fire early or late, requests are slow and duties are replaced by a re-org: what
\* keeps the clock's loop from running a slot twice is the wait inside the task.
AttestsEachSlotOnce ==
    \A i, j \in DOMAIN attested : i < j => attested[i] < attested[j]

\* "We won't miss a block if the duties for the current slot happen to change with
\* this poll" (blockDuties.ts): once the poll of a slot is answered, the proposer
\* the answer names has been notified.
NoProposalMissed ==
    answered.root # NoRoot =>
        Proposer[answered.root][answered.slot] \in notified[answered.slot] \union {NoKey}
=============================================================================
