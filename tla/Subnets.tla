------------------------------ MODULE Subnets ------------------------------
(***************************************************************************)
(* Which gossip topics a node is subscribed to: the attestation subnets    *)
(* (subnets/attnetsService.ts), the sync committee subnets                 *)
(* (subnets/syncnetsService.ts), the core topics and the fork transition   *)
(* (network.ts, forks.ts), and what its ENR advertises (metadata.ts).      *)
(*                                                                         *)
(* One clock tick runs every listener of clockSlot and clockEpoch in the   *)
(* order they were registered, so each step passes the services' state,    *)
(* a record, from one listener to the next.  Which random subnets are      *)
(* taken and for how long is drawn: such an operator gives a set of        *)
(* outcomes.                                                               *)
(***************************************************************************)
EXTENDS Integers, FiniteSets, FiniteSetsExt

CONSTANTS
    AttSubnets,         \* 0..ATTESTATION_SUBNET_COUNT-1
    SyncSubnets,        \* 0..SYNC_COMMITTEE_SUBNET_COUNT-1
    Validators,
    SLOTS_PER_EPOCH, EPOCHS_PER_RANDOM_SUBNET_SUBSCRIPTION, RANDOM_SUBNETS_PER_VALIDATOR,
    LAST_SEEN_VALIDATOR_TIMEOUT,
    ALTAIR_FORK_EPOCH,
    FORK_EPOCH_LOOKAHEAD,
    DutyLookahead,      \* how many slots ahead a committee duty is subscribed
    MaxSlot             \* bound: the last slot

VARIABLES
    slot,       \* clock.currentSlot
    net,        \* the services' maps, the topics they subscribed, and the ENR
    synced      \* the sync has subscribed the core topics

vars == <<slot, net, synced>>

Forks == {"phase0", "altair"}
EpochOf(s) == s \div SLOTS_PER_EPOCH
EmptyMap == [s \in {} |-> 0]

---------------------------------------------------------------------------
(* SubnetMap (peers/utils/subnetMap.ts): a subnet and the last slot it is  *)
(* needed.  An entry that has run out stays until getExpired is called.    *)

Request(map, s, toSlot) ==
    [x \in DOMAIN map \cup {s} |->
        IF x # s THEN map[x] ELSE IF s \in DOMAIN map THEN Max({map[s], toSlot}) ELSE toSlot]
IsActiveAtSlot(map, s, at) == s \in DOMAIN map /\ map[s] >= at
GetActive(map, at) == {s \in DOMAIN map : map[s] >= at}
GetExpired(map, at) == {s \in DOMAIN map : map[s] < at}
Without(map, gone) == [s \in DOMAIN map \ gone |-> map[s]]

---------------------------------------------------------------------------
(* forks.ts.                                                               *)

GetActiveForks(epoch) ==
    IF epoch < ALTAIR_FORK_EPOCH - FORK_EPOCH_LOOKAHEAD THEN {"phase0"}
    ELSE IF epoch > ALTAIR_FORK_EPOCH + FORK_EPOCH_LOOKAHEAD THEN {"altair"}
    ELSE Forks

CurrentFork(epoch) == IF epoch < ALTAIR_FORK_EPOCH THEN "phase0" ELSE "altair"

Topics(type, subnets, forks) == {type} \X subnets \X forks

---------------------------------------------------------------------------
(* attnetsService.ts.                                                      *)

\* subscribeToSubnets: a subnet in either map is taken to be subscribed already.
SubscribeToSubnets(n, subnets, at) ==
    LET new == subnets \ (DOMAIN n.committee \cup DOMAIN n.random)
    IN  [n EXCEPT !.topics = @ \cup Topics("att", new, GetActiveForks(EpochOf(at)))]

\* unsubscribeSubnets: unless one of the maps still needs it at this slot.
UnsubscribeSubnets(n, subnets, at) ==
    LET unused == {s \in subnets : ~IsActiveAtSlot(n.committee, s, at) /\ ~IsActiveAtSlot(n.random, s, at)}
    IN  [n EXCEPT !.topics = @ \ Topics("att", unused, GetActiveForks(EpochOf(at)))]

\* updateMetadata: the setter of attnets also counts the sequence number up (not modelled).
UpdateMetadata(n) == [n EXCEPT !.attnets = DOMAIN n.random]

TargetRandomSubnetCount(n) ==
    Min({Cardinality(DOMAIN n.known) * RANDOM_SUBNETS_PER_VALIDATOR, Cardinality(AttSubnets)})

RandomSubscriptionSlotLens ==
    {SLOTS_PER_EPOCH * EPOCHS_PER_RANDOM_SUBNET_SUBSCRIPTION,
     2 * SLOTS_PER_EPOCH * EPOCHS_PER_RANDOM_SUBNET_SUBSCRIPTION}

WithRandom(n, new, len, at) ==
    [SubscribeToSubnets(n, new, at) EXCEPT
        !.random = [s \in DOMAIN @ \cup new |-> IF s \in new THEN at + len ELSE @[s]]]

\* rebalanceRandomSubnets: as many random subnets as the known validators ask for.
RebalanceRandomSubnets(n, at) ==
    LET diff == TargetRandomSubnetCount(n) - Cardinality(DOMAIN n.random)
        available == AttSubnets \ GetActive(n.random, at)
        active == GetActive(n.random, at)
    IN  IF diff > 0
        THEN UNION {{UpdateMetadata(WithRandom(n, new, len, at)) : len \in RandomSubscriptionSlotLens} :
                new \in {x \in SUBSET available : Cardinality(x) = Min({diff, Cardinality(available)})}}
        ELSE IF diff < 0
        THEN {UpdateMetadata(UnsubscribeSubnets([n EXCEPT !.random = Without(@, gone)], gone, at)) :
                gone \in {x \in SUBSET active : Cardinality(x) = Min({-diff, Cardinality(active)})}}
        ELSE {n}

\* onSlot.
UnsubscribeExpiredCommitteeSubnets(n, at) ==
    LET expired == GetExpired(n.committee, at)
    IN  UnsubscribeSubnets([n EXCEPT !.committee = Without(@, expired)], expired, at)

\* Mutant: the expired random subnets are dropped from the map only.
ForgetExpiredRandomSubnets(n, at) ==
    RebalanceRandomSubnets([n EXCEPT !.random = Without(@, GetExpired(@, at))], at)

\* onEpoch, first half.
UnsubscribeExpiredRandomSubnets(n, at) ==
    LET expired == GetExpired(n.random, at)
    IN  RebalanceRandomSubnets(UnsubscribeSubnets([n EXCEPT !.random = Without(@, expired)], expired, at), at)

\* onEpoch, second half: validators that have not been heard of for a while.
PruneExpiredKnownValidators(n, at) ==
    LET gone == {v \in DOMAIN n.known : at > n.known[v] + LAST_SEEN_VALIDATOR_TIMEOUT}
    IN  IF gone = {} THEN {n} ELSE RebalanceRandomSubnets([n EXCEPT !.known = Without(@, gone)], at)

AttnetsOnEpoch(n, at) ==
    UNION {PruneExpiredKnownValidators(m, at) : m \in UnsubscribeExpiredRandomSubnets(n, at)}

\* addCommitteeSubscriptions: the validator client announces a duty of v.  (The map
\* committeeSubnets, which only tells the peer manager where to look for peers, is its
\* constant Subnets.)
AddCommitteeSubscription(v, s, at, isAggregator) ==
    /\ LET n0 == [net EXCEPT !.known = Request(@, v, slot)]
           n1 == IF isAggregator
                 THEN [SubscribeToSubnets(n0, {s}, slot) EXCEPT !.committee = Request(@, s, at)]
                 ELSE n0
       IN  net' \in IF v \in DOMAIN net.known THEN {n1} ELSE RebalanceRandomSubnets(n1, slot)
    /\ UNCHANGED <<slot, synced>>

---------------------------------------------------------------------------
(* syncnetsService.ts: there are no random subnets, and the ENR shows the  *)
(* committee subnets; it is brought up to date when one is added.          *)

AddSyncSubscription(s, to) ==
    /\ EpochOf(slot) >= ALTAIR_FORK_EPOCH - 1
    /\ net' = [net EXCEPT
         !.topics = @ \cup Topics("sync", {s} \ DOMAIN net.sync, GetActiveForks(EpochOf(slot))),
         !.sync = Request(@, s, to),
         !.syncnets = DOMAIN net.sync \cup {s}]
    /\ UNCHANGED <<slot, synced>>

SyncnetsOnEpoch(n, at) ==
    LET expired == GetExpired(n.sync, at)
    IN  [n EXCEPT !.sync = Without(@, expired),
                  !.topics = @ \ Topics("sync", expired, GetActiveForks(EpochOf(at)))]

---------------------------------------------------------------------------
(* network.ts.                                                             *)

\* Two epochs before the fork the random subnets' topics are subscribed for it (altair
\* is the first fork with sync subnets), two after it every subnet's old topic is given up.
SubscribeSubnetsToNextFork(n, fork) == [n EXCEPT !.topics = @ \cup Topics("att", DOMAIN n.random, {fork})]
UnsubscribeSubnetsFromPrevFork(n, fork) == [n EXCEPT !.topics = @ \ Topics("att", AttSubnets, {fork})]

\* onEpoch: with the subnets', the core topics, if the node has any.
NetworkOnEpoch(n, epoch) ==
    IF epoch = ALTAIR_FORK_EPOCH - FORK_EPOCH_LOOKAHEAD
    THEN SubscribeSubnetsToNextFork([n EXCEPT !.core = IF @ # {} THEN @ \cup {"altair"} ELSE @], "altair")
    ELSE IF epoch = ALTAIR_FORK_EPOCH + FORK_EPOCH_LOOKAHEAD
    THEN UnsubscribeSubnetsFromPrevFork([n EXCEPT !.core = @ \ {"phase0"}], "phase0")
    ELSE n

\* subscribeGossipCoreTopics, when the sync has caught up: the forks of the head's epoch.
SubscribeGossipCoreTopics(headSlot) ==
    /\ ~synced
    /\ synced' = TRUE
    /\ net' = [net EXCEPT !.core = @ \cup GetActiveForks(EpochOf(headSlot))]
    /\ UNCHANGED slot

UnsubscribeGossipCoreTopics ==
    /\ synced
    /\ synced' = FALSE
    /\ net' = [net EXCEPT !.core = {}]
    /\ UNCHANGED slot

\* A new slot: clockSlot's listener, then at an epoch's first slot clockEpoch's.
Tick ==
    /\ slot < MaxSlot
    /\ slot' = slot + 1
    /\ LET n == UnsubscribeExpiredCommitteeSubnets(net, slot + 1)
           epoch == EpochOf(slot + 1)
       IN  net' \in IF (slot + 1) % SLOTS_PER_EPOCH # 0 THEN {n}
                    ELSE {SyncnetsOnEpoch(m, slot + 1) : m \in AttnetsOnEpoch(NetworkOnEpoch(n, epoch), slot + 1)}
    /\ UNCHANGED synced

---------------------------------------------------------------------------
Init ==
    /\ slot = 0 /\ synced = FALSE
    /\ net = [committee |-> EmptyMap, random |-> EmptyMap, known |-> EmptyMap,
              sync |-> EmptyMap, topics |-> {}, core |-> {}, attnets |-> {}, syncnets |-> {}]

Next ==
    \/ Tick
    \/ \E v \in Validators, s \in AttSubnets, at \in slot..(slot + DutyLookahead), agg \in BOOLEAN :
         AddCommitteeSubscription(v, s, at, agg)
    \/ \E s \in SyncSubnets, to \in slot..(slot + DutyLookahead) : AddSyncSubscription(s, to)
    \/ \E back \in {0, Min({SLOTS_PER_EPOCH, slot})} : SubscribeGossipCoreTopics(slot - back)
    \/ UnsubscribeGossipCoreTopics

Spec == Init /\ [][Next]_vars

---------------------------------------------------------------------------
\* A subnet's topic is of a fork that is active at this epoch, both around the fork, and
\* an attestation duty, a random subscription or a sync committee duty holds it: no
\* sequence of overlapping subscriptions, expiries and rebalances across the fork leaves
\* the node forwarding a subnet for nobody.  What is left over once the transition has
\* ended are topics of the old fork (see OldForkIsDropped).
NoTopicLeak ==
    LET epoch == EpochOf(slot)
        LeftOver(f) == f = "phase0" /\ epoch > ALTAIR_FORK_EPOCH + FORK_EPOCH_LOOKAHEAD
        IsHeld(s, f, holders) == (f \in GetActiveForks(epoch) /\ s \in holders) \/ LeftOver(f)
    IN  /\ \A s \in AttSubnets, f \in Forks :
             <<"att", s, f>> \in net.topics => IsHeld(s, f, DOMAIN net.committee \cup DOMAIN net.random)
        /\ \A s \in SyncSubnets, f \in Forks :
             <<"sync", s, f>> \in net.topics => IsHeld(s, f, DOMAIN net.sync)

\* The ENR advertises exactly the random subnets, however they were gained and lost.
EnrIsCurrent == net.attnets = DOMAIN net.random

-----------------------------------------------------------------------------
(* What the sources say and the model refutes, see README.md. *)

\* forks.ts:6 "Remove all subscriptions N epochs after the fork".  An attestation topic
\* that is subscribed in epoch fork + 2, after the old topics were given up, and a sync
\* committee topic of phase0 are of the old fork and stay.
OldForkIsDropped ==
    EpochOf(slot) > ALTAIR_FORK_EPOCH + FORK_EPOCH_LOOKAHEAD => \A t \in net.topics : t[3] # "phase0"

\* attnetsService.ts:36 says of both maps "If a value exists for `SubscriptionId` it
\* means that gossip subscription is active in network.gossip".
HeldIsSubscribed ==
    \A s \in DOMAIN net.committee \cup DOMAIN net.random :
        <<"att", s, CurrentFork(EpochOf(slot))>> \in net.topics
=============================================================================
