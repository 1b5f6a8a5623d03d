------------------------------- MODULE MCSync -------------------------------
(* Syncing, for TLC: one chain of batches with honest peers ("ends") and     *)
(* with a peer that may send wrong blocks ("order"), the choice of chains by *)
(* RangeSync and BeaconSync, and the peer manager.  A behaviour is about one *)
(* of them: "part" says which.  The chain keeps its own variables, the       *)
(* others use the registers r1, r2, ..., in the order of declarations.       *)
EXTENDS SyncChain

VARIABLES part, r1, r2, r3, r4, r5, r6, r7, r8, r9, r10, r11, r12, r13

from8 == <<r8, r9, r10, r11, r12, r13>>
registers == <<r1, r2, r3, r4, r5, r6, r7, from8>>
allVars == <<part, vars, registers>>

-----------------------------------------------------------------------------
CONSTANTS q1, q2, q3, ahead, behind

\* The peers that join the chain in each of its parts.
PeersOf == [ends |-> {q1, q2}, order |-> {q1, q3}]

\* A peer at the head of the network that stays, and one on the way there that comes and goes.
Ranged == INSTANCE RangeSync WITH
    Peers <- {ahead, behind}, HeadOf <- [p \in {ahead, behind} |-> IF p = ahead THEN 10 ELSE 8],
    Steady <- {ahead}, CurrentSlot <- 10, SLOTS_PER_EPOCH <- 2, MaxFailures <- 2,
    headSlot <- r1, connected <- r2, chains <- r3, toStatus <- r4, removed <- r5, gossip <- r6,
    failures <- r7

\* The peer manager: one peer that connects up to three times and misbehaves once, on our chain
\* or on another.
CONSTANTS
    Remotes, Subnets, targetPeers, maxPeers, Statuses, local, Actions, MIN_SCORE,
    MIN_SCORE_BEFORE_BAN, MIN_SCORE_BEFORE_DISCONNECT, MaxBehaviour, MaxConnects

PeerStatuses == {
    [forkDigest |-> "ours", headSlot |-> 5, finalizedEpoch |-> 1, finalizedRoot |-> "a"],
    [forkDigest |-> "ours", headSlot |-> 5, finalizedEpoch |-> 2, finalizedRoot |-> "c"]}
LocalStatus == [forkDigest |-> "ours", currentSlot |-> 5, finalizedEpoch |-> 2, finalizedRoot |-> "b",
                roots |-> [e \in 0..1 |-> "a"]]
ScoreActions == [Fatal |-> -200, LowToleranceError |-> -30]
MinScore == -100
BanScore == -50
DisconnectScore == -20

Man == INSTANCE PeerManager WITH
    Peers <- Remotes,
    open <- r1, closing <- r2, dialing <- r3, timers <- r4, asked <- r5, remote <- r6,
    metadata <- r7, score <- r8, lastUpdate <- r9, queries <- r10, syncPeers <- r11,
    behaviour <- r12, connects <- r13

-----------------------------------------------------------------------------
Off8 == r8 = 0 /\ r9 = 0 /\ r10 = 0 /\ r11 = 0 /\ r12 = 0 /\ r13 = 0
FirstInit == Init /\ c.peerset = [p \in {q1} |-> c.target]

MCInit ==
    \/ /\ part \in {"ends", "order"} /\ Init /\ DOMAIN c.peerset \subseteq PeersOf[part]
       /\ r1 = 0 /\ r2 = 0 /\ r3 = 0 /\ r4 = 0 /\ r5 = 0 /\ r6 = 0 /\ r7 = 0 /\ Off8
    \/ part = "range" /\ Ranged!Init /\ FirstInit /\ Off8
    \/ part = "peers" /\ Man!Init /\ FirstInit

Ends(A) == part = "ends" /\ A /\ UNCHANGED <<part, registers>>
Ranging(A) == part = "range" /\ A /\ UNCHANGED <<part, vars, from8>>
Peer(A) == part = "peers" /\ A /\ UNCHANGED <<part, vars>>

MCNext ==
    \/ /\ part \in {"ends", "order"} /\ Next /\ DOMAIN c'.peerset \subseteq PeersOf[part]
       /\ UNCHANGED <<part, registers>>
    \/ Ranging(Ranged!Next)
    \/ Peer(Man!Next)

\* The fairness of SyncChain, RangeSync and PeerManager, each in its own part.
MCFairness ==
    /\ WF_allVars(Ends(\E r \in requests : DownloadSucceeds(r) \/ DownloadFails(r)))
    /\ WF_allVars(Ends(\E e \in Epochs(c) : ProcessSucceeds(e) \/ ProcessFails(e)))
    /\ WF_allVars(Ends(LoopTurn)) /\ WF_allVars(Ends(LoopFails)) /\ WF_allVars(Ends(OnSyncChainEnd))
    /\ WF_allVars(Ranging(Ranged!AddPeer(ahead)))
    /\ SF_allVars(Ranging(Ranged!AddPeer(ahead) /\ ahead \notin r2))
    /\ \A t \in {"Finalized", "Head"} :
          WF_allVars(Ranging(Ranged!ChainImports(t))) /\ WF_allVars(Ranging(Ranged!ChainEnds(t)))
    /\ WF_allVars(Ranging(Ranged!OnClockEpoch)) /\ WF_allVars(Ranging(Ranged!RemovedChainEnds))
    /\ WF_allVars(Peer(Man!Heartbeat)) /\ WF_allVars(Peer(Man!GoodbyeAndDisconnect(q1)))
    /\ \A d \in {"inbound", "outbound"} : WF_allVars(Peer(Man!ConnectionClosed(q1, d)))

MCSpec == MCInit /\ [][MCNext]_allVars /\ MCFairness

-----------------------------------------------------------------------------
\* SyncChain's SyncEnds, with honest peers.
HonestSyncEnds == part = "ends" => SyncEnds

\* RangeSync: while a peer that is at the head of the network stays connected, the node gets
\* there and subscribes to gossip, whatever chains fail and whoever else comes and goes.
EventuallySynced ==
    <>[](part = "range" => ahead \in r2) => <>(part = "range" => Ranged!IsSynced(r1, r2) /\ r6)

\* PeerManager: the sync counts only on peers that have a connection.
SyncPeersAreConnected == part = "peers" => Man!SyncPeersAreConnected

\* PeerManager: a peer whose score calls for it is disconnected, or its score recovers.
LowScoresLeave ==
    (part = "peers" /\ Man!GetScoreState(q1) # "Healthy")
        ~> (part = "peers" /\ (r1[q1] = {} \/ Man!GetScoreState(q1) = "Healthy"))
=============================================================================
