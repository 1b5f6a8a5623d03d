------------------------------ MODULE RangeSync -----------------------------
(***************************************************************************)
(* The sync of the node as a whole (sync/sync.ts, sync/range/range.ts):    *)
(* peers are put in a chain by the status they sent, one chain to a        *)
(* finalized checkpoint and one to a head; chains are started, stopped and *)
(* removed as peers come and go and chains end, and gossip is turned on    *)
(* once the head is near the clock.                                        *)
(*                                                                         *)
(* A sync chain is here what SyncChain promises: while it has peers it     *)
(* imports blocks up to its target, or fails.  All peers are on one        *)
(* network whose clock stands still: a block is known when its slot is not *)
(* above the head.                                                         *)
(***************************************************************************)
EXTENDS Integers, Sequences, FiniteSets, FiniteSetsExt

CONSTANTS
    Peers,
    HeadOf,         \* HeadOf[p]: the head slot of p
    Steady,         \* peers that stay connected from some time on
    CurrentSlot,
    SLOTS_PER_EPOCH,
    MaxFailures     \* bound on the failures of chains

VARIABLES
    headSlot,       \* the local head
    connected,
    chains,         \* chains[t] for type t: its status and its peers with their targets
    toStatus,       \* peers whose status is asked for
    removed,        \* a chain was removed before its end, which it has yet to report
    gossip,         \* subscribed to the core topics
    failures

vars == <<headSlot, connected, chains, toStatus, removed, gossip, failures>>

slotImportTolerance == SLOTS_PER_EPOCH
Types == {"Finalized", "Head"}

\* The network finalizes two epochs behind the head.
FinalizedEpoch(slot) == Max({0, (slot \div SLOTS_PER_EPOCH) - 2})
FinalizedSlot(slot) == FinalizedEpoch(slot) * SLOTS_PER_EPOCH
HasBlock(slot) == slot <= headSlot

---------------------------------------------------------------------------
(* What a peer is to us.                                                   *)

\* getPeerSyncType
PeerSyncType(remote) ==
    LET near == remote \in (headSlot - slotImportTolerance)..(headSlot + slotImportTolerance)
        localEpoch == FinalizedEpoch(headSlot)
    IN  CASE FinalizedEpoch(remote) < localEpoch -> "Behind"
          [] FinalizedEpoch(remote) > localEpoch ->
               IF (localEpoch + 1 = FinalizedEpoch(remote) /\ near) \/ HasBlock(remote) THEN "FullySynced" ELSE "Advanced"
          [] OTHER ->
               IF remote < headSlot - slotImportTolerance THEN "Behind"
               ELSE IF remote > headSlot + slotImportTolerance /\ ~HasBlock(remote) THEN "Advanced" ELSE "FullySynced"

\* getRangeSyncType
RangeSyncType(remote) ==
    IF FinalizedEpoch(remote) > FinalizedEpoch(headSlot) /\ ~HasBlock(FinalizedSlot(remote))
    THEN "Finalized" ELSE "Head"

TargetOf(remote) == IF RangeSyncType(remote) = "Finalized" THEN FinalizedSlot(remote) ELSE remote

---------------------------------------------------------------------------
(* Chains.                                                                 *)

\* The peerset of a chain keeps the order in which its peers came.
NoChain == [status |-> "none", peerset |-> <<>>]
PeersOf(chain) == {chain.peerset[i].peer : i \in DOMAIN chain.peerset}
Without(chain, p) == [chain EXCEPT !.peerset = SelectSeq(@, LAMBDA e : e.peer # p)]
With(chain, p, slot) ==
    [chain EXCEPT !.peerset =
        IF p \in PeersOf(chain) THEN [i \in DOMAIN @ |-> IF @[i].peer = p THEN [peer |-> p, slot |-> slot] ELSE @[i]]
        ELSE Append(@, [peer |-> p, slot |-> slot])]

\* computeMostCommonTarget: the first of those that most peers have.
HasTarget(chain) == chain.peerset # <<>>
TargetSlot(chain) ==
    LET times(i) == Cardinality({j \in DOMAIN chain.peerset : chain.peerset[j].slot = chain.peerset[i].slot})
        most == Max({times(i) : i \in DOMAIN chain.peerset})
    IN  chain.peerset[Min({i \in DOMAIN chain.peerset : times(i) = most})].slot

\* Mutant: a chain is not removed for want of peers.
ShouldRemoveButEmpty(chain) ==
    \/ chain.status \in {"Synced", "Error"}
    \/ HasTarget(chain) /\ (TargetSlot(chain) < FinalizedSlot(headSlot) \/ HasBlock(TargetSlot(chain)))

ShouldRemoveChain(chain) ==
    \/ chain.status \in {"Synced", "Error"}
    \/ PeersOf(chain) = {}
    \/ HasTarget(chain) /\ (TargetSlot(chain) < FinalizedSlot(headSlot) \/ HasBlock(TargetSlot(chain)))

\* updateChains, with one chain of each type: the finalized one goes first.
UpdateChains(cs) ==
    LET toStart == IF cs["Finalized"].status # "none" THEN "Finalized" ELSE "Head"
    IN  IF cs[toStart].status = "Stopped" THEN [cs EXCEPT ![toStart].status = "Syncing"] ELSE cs

\* update: chains that are over go, and the peers they leave are asked for their status.
Update(cs, asked, ending) ==
    \E over \in {{t \in Types : cs[t].status # "none" /\ ShouldRemoveChain(cs[t])}} :
        /\ \E left \in {[t \in Types |-> IF t \in over THEN NoChain ELSE cs[t]]} : chains' = UpdateChains(left)
        /\ toStatus' = asked \cup UNION {PeersOf(cs[t]) : t \in over}
        /\ removed' = (ending \/ \E t \in over : cs[t].status \notin {"Synced", "Error"})

\* addPeerOrCreateChain
AddPeerOrCreateChain(cs, p, type) ==
    LET chain == IF cs[type].status = "none" THEN [NoChain EXCEPT !.status = "Stopped"] ELSE cs[type]
    IN  [cs EXCEPT ![type] = With(chain, p, TargetOf(HeadOf[p]))]

---------------------------------------------------------------------------
(* BeaconSync.                                                             *)

IsSynced(head, peers) == head >= CurrentSlot - slotImportTolerance /\ peers # {}

\* updateSyncState
UpdateSyncState(head, peers) ==
    gossip' = IF IsSynced(head, peers) THEN TRUE
              ELSE IF CurrentSlot - head > 2 * slotImportTolerance THEN FALSE ELSE gossip

\* addPeer, when a status of p arrives: its first, or one that is asked for again.
AddPeer(p) ==
    /\ connected' = connected \cup {p}
    /\ IF PeerSyncType(HeadOf[p]) = "Advanced"
       THEN LET type == RangeSyncType(HeadOf[p])
                left == IF type = "Head" THEN [t \in Types |-> Without(chains[t], p)] ELSE chains
            IN  \E cs \in {AddPeerOrCreateChain(left, p, type)} : Update(cs, toStatus \ {p}, removed)
       ELSE toStatus' = toStatus \ {p} /\ UNCHANGED <<chains, removed>>
    /\ UpdateSyncState(headSlot, connected')
    /\ UNCHANGED <<headSlot, failures>>

\* removePeer: the chains lose the peer, and nothing else is looked at.
RemovePeer(p) ==
    /\ p \in connected /\ connected' = connected \ {p} /\ toStatus' = toStatus \ {p}
    /\ chains' = [t \in Types |-> Without(chains[t], p)]
    /\ UNCHANGED <<headSlot, removed, gossip, failures>>

\* A chain that syncs imports a block on the way to its target.
ChainImports(t) ==
    /\ chains[t].status = "Syncing"
    /\ HasTarget(chains[t]) /\ headSlot < TargetSlot(chains[t])
    /\ headSlot' = headSlot + 1
    /\ UNCHANGED <<connected, chains, toStatus, removed, gossip, failures>>

\* onSyncChainEnd, of a chain that is at its target or has failed.
ChainEnds(t) ==
    /\ chains[t].status = "Syncing"
    /\ \/ /\ HasTarget(chains[t]) /\ TargetSlot(chains[t]) <= headSlot
          /\ \E cs \in {[chains EXCEPT ![t].status = "Synced"]} : Update(cs, toStatus, removed)
          /\ UNCHANGED failures
       \/ /\ failures < MaxFailures /\ failures' = failures + 1
          /\ \E cs \in {[chains EXCEPT ![t].status = "Error"]} : Update(cs, toStatus, removed)
    /\ UpdateSyncState(headSlot, connected)
    /\ UNCHANGED <<headSlot, connected>>

\* onSyncChainEnd, of a chain that was removed before its end: its loop is thrown out of.
RemovedChainEnds ==
    /\ removed /\ Update(chains, toStatus, FALSE)
    /\ UpdateSyncState(headSlot, connected)
    /\ UNCHANGED <<headSlot, connected, failures>>

OnClockEpoch ==
    /\ UpdateSyncState(headSlot, connected)
    /\ UNCHANGED <<headSlot, connected, chains, toStatus, removed, failures>>

---------------------------------------------------------------------------
Init ==
    /\ headSlot = 0 /\ connected = {} /\ chains = [Finalized |-> NoChain, Head |-> NoChain]
    /\ toStatus = {} /\ removed = FALSE /\ gossip = FALSE /\ failures = 0

Next ==
    \/ \E p \in Peers : AddPeer(p) \/ RemovePeer(p)
    \/ \E t \in Types : ChainImports(t) \/ ChainEnds(t)
    \/ RemovedChainEnds
    \/ OnClockEpoch

\* Every peer sends its status again on a timer (peerManager.ts), chains go on, the clock
\* ticks, and the steady peers are not lost for ever.
Fairness ==
    /\ \A p \in Steady : WF_vars(AddPeer(p)) /\ SF_vars(AddPeer(p) /\ p \notin connected)
    /\ \A t \in Types : WF_vars(ChainImports(t)) /\ WF_vars(ChainEnds(t))
    /\ WF_vars(OnClockEpoch) /\ WF_vars(RemovedChainEnds)

Spec == Init /\ [][Next]_vars /\ Fairness

---------------------------------------------------------------------------
\* A node with a peer at the head of the network gets there and turns gossip on, however
\* other peers come and go, leaving chains without peers that block the start of others,
\* and however often chains fail, as long as that ends.
EventuallySynced ==
    <>[](\A p \in Steady : p \in connected) => <>(IsSynced(headSlot, connected) /\ gossip)
=============================================================================
