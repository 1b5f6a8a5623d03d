---------------------------- MODULE PeerManager ----------------------------
(***************************************************************************)
(* The peer manager of packages/lodestar/src/network/peers: connections    *)
(* reported by libp2p, the PING and STATUS timers, the requests that wait  *)
(* for a remote answer, the scores, the heartbeat that disconnects and     *)
(* dials peers, discovery, and the peers it has reported to the sync.      *)
(*                                                                         *)
(* Everything runs on one thread, but a request, a dial and a hang-up end  *)
(* in a later step, and the connection they were started for may be gone   *)
(* (or another one open) by then.  libp2p itself is external: it keeps the *)
(* connections of a peer and calls the two handlers.                       *)
(***************************************************************************)
EXTENDS Integers, FiniteSets, FiniteSetsExt

CONSTANTS
    Peers,              \* the remote peers
    Subnets,            \* the subnets with an active duty of this node
    targetPeers, maxPeers,
    Statuses,           \* the Status messages a peer may send
    local,              \* our own Status, with the clock's slot and the block roots
                        \* of our chain by epoch
    Actions,            \* PeerAction -> what it adds to the score
    MIN_SCORE, MIN_SCORE_BEFORE_BAN, MIN_SCORE_BEFORE_DISCONNECT,
    MaxBehaviour,       \* bound: how often peers misbehave or change their metadata
    MaxConnects         \* bound: how many connections are opened

VARIABLES
    open,       \* connectionManager.connections with status "open", by peer: their directions
    closing,    \* connections being closed, by peer: their directions
    dialing,    \* peers with a libp2p.dial() under way
    timers,     \* the peers with a timer in peersToStatus, peersToPingInbound, peersToPingOutbound
    asked,      \* <<kind, peer>> requests that wait for their answer
    remote,     \* what each peer would answer to METADATA: [seq, subnets]
    metadata,   \* peerMetadata.metadata, [seq |-> 0 ...] when nothing is stored
    score,      \* rpcScore
    lastUpdate, \* rpcScoreLastUpdate: "none", "future" (banned), "past"
    queries,    \* subnets whose discoverSubnetPeers() has still to read the cached ENRs
    syncPeers,  \* peers for which the last event emitted was peerConnected
    behaviour,  \* bounded by MaxBehaviour
    connects    \* bounded by MaxConnects

connVars == <<open, closing, dialing, connects>>
scoreVars == <<score, lastUpdate>>
vars == <<connVars, timers, asked, remote, metadata, scoreVars, queries, syncPeers, behaviour>>

Directions == {"inbound", "outbound"}
Timers == {"status", "pingInbound", "pingOutbound"}
Kinds == {"status", "ping", "metadata", "goodbye"}
NoMetadata == [seq |-> 0, subnets |-> {}]

---------------------------------------------------------------------------
(* Scores (score.ts).  The decay halves the score once per step.           *)

ScoreToState(s) ==
    CASE s <= MIN_SCORE_BEFORE_BAN -> "Banned"
      [] s > MIN_SCORE_BEFORE_BAN /\ s <= MIN_SCORE_BEFORE_DISCONNECT -> "Disconnected"
      [] OTHER -> "Healthy"

GetScoreState(p) == ScoreToState(score[p])

DecayScore(p) ==
    IF lastUpdate[p] = "past" THEN 0 - ((0 - score[p]) \div 2) ELSE score[p]

\* PeerRpcScoreStore.add.  Nothing sets lastUpdate before the first ban, so that
\* until then the time since the last update is zero and the score does not decay.
ApplyAction(p, action) ==
    LET new == Max({DecayScore(p) + Actions[action], MIN_SCORE})
    IN  /\ score' = [score EXCEPT ![p] = new]
        /\ lastUpdate' = [lastUpdate EXCEPT ![p] =
             IF ScoreToState(score[p]) # "Banned" /\ ScoreToState(new) = "Banned"
             THEN "future" ELSE @]

---------------------------------------------------------------------------
(* assertPeerRelevance: whether a STATUS lets us work with the peer.  The  *)
(* block root at an epoch the head state no longer holds cannot be read:   *)
(* that throws as well, and the caller treats every error alike.           *)

FUTURE_SLOT_TOLERANCE == 1
ZeroRoot == "zero"

AssertPeerRelevance(status) ==
    /\ status.forkDigest = local.forkDigest
    /\ status.headSlot - local.currentSlot <= FUTURE_SLOT_TOLERANCE
    /\ ~(status.finalizedEpoch = 0 /\ status.finalizedRoot # ZeroRoot)
    /\ (/\ status.finalizedEpoch <= local.finalizedEpoch
        /\ status.finalizedRoot # ZeroRoot
        /\ local.finalizedRoot # ZeroRoot)
       => /\ status.finalizedEpoch \in DOMAIN local.roots
          /\ status.finalizedRoot = IF status.finalizedEpoch = local.finalizedEpoch
                                    THEN local.finalizedRoot
                                    ELSE local.roots[status.finalizedEpoch]

---------------------------------------------------------------------------
(* Timers (peerMapDelay.ts) and the requests they send.                    *)

Connected == {p \in Peers : open[p] # {}}

\* requestNow() and requestAfter() put a peer in the map; delete() takes it out.
Requested(t, k, p) == [t EXCEPT ![k] = @ \cup {p}]
Deleted(t, ks, p) == [k \in Timers |-> IF k \in ks THEN t[k] \ {p} ELSE t[k]]

\* pingAndStatusTimeouts(): every timer that has run out is restarted and its request
\* is sent.  `now' are the peers whose timers requestNow() has made due; any other
\* timer may have run out as well.
PingAndStatusTimeouts(t, statusNow, pingNow) ==
    /\ timers' = t
    /\ \E e \in SUBSET t["status"], f \in SUBSET (t["pingInbound"] \cup t["pingOutbound"]) :
         /\ statusNow \subseteq e /\ pingNow \subseteq f
         /\ asked' = asked \cup ({"status"} \X e) \cup ({"ping"} \X f)

CheckTimeouts ==
    /\ PingAndStatusTimeouts(timers, {}, {})
    /\ UNCHANGED <<connVars, remote, metadata, scoreVars, queries, syncPeers, behaviour>>

\* The sync has reached a target and wants to know the peers' new status.
ReStatusPeers(ps) ==
    /\ ps \subseteq syncPeers /\ ps # {}
    /\ PingAndStatusTimeouts([timers EXCEPT !["status"] = @ \cup ps], ps, {})
    /\ UNCHANGED <<connVars, remote, metadata, scoreVars, queries, syncPeers, behaviour>>

---------------------------------------------------------------------------
(* libp2p connections.                                                     *)

\* A connection is open: the outbound one asks for STATUS and PING at once, the
\* inbound one is expected to be asked first.
OnLibp2pPeerConnect(p, d) ==
    /\ d \notin open[p] \cup closing[p]
    /\ d = "outbound" => p \in dialing
    /\ connects < MaxConnects /\ connects' = connects + 1
    /\ open' = [open EXCEPT ![p] = @ \cup {d}]
    /\ dialing' = IF d = "outbound" THEN dialing \ {p} ELSE dialing
    /\ IF d = "outbound"
       THEN PingAndStatusTimeouts(
              Deleted(Requested(Requested(timers, "status", p), "pingOutbound", p), {"pingInbound"}, p), {p}, {p})
       ELSE PingAndStatusTimeouts(
              Deleted(Requested(Requested(timers, "status", p), "pingInbound", p), {"pingOutbound"}, p), {}, {})
    /\ UNCHANGED <<closing, remote, metadata, scoreVars, queries, syncPeers, behaviour>>

\* The last connection of the peer has ended: its timers go, and the sync is told.
OnLibp2pPeerDisconnect(p) ==
    /\ timers' = Deleted(timers, Timers, p)
    /\ syncPeers' = syncPeers \ {p}

\* A connection of p is closed; libp2p calls the handler once none is left.
ConnectionClosed(p, d) ==
    /\ d \in closing[p]
    /\ closing' = [closing EXCEPT ![p] = @ \ {d}]
    /\ IF open[p] \cup closing[p] = {d}
       THEN OnLibp2pPeerDisconnect(p)
       ELSE UNCHANGED <<timers, syncPeers>>
    /\ UNCHANGED <<connects, open, dialing, asked, remote, metadata, scoreVars, queries, behaviour>>

\* disconnect(): libp2p.hangUp() starts to close every connection of the peer.
HangUp(p) ==
    /\ closing' = [closing EXCEPT ![p] = @ \cup open[p]]
    /\ open' = [open EXCEPT ![p] = {}]

\* The remote end, or the network, ends the connections.
RemoteCloses(p) ==
    /\ open[p] # {}
    /\ HangUp(p)
    /\ UNCHANGED <<connects, dialing, timers, asked, remote, metadata, scoreVars, queries, syncPeers, behaviour>>

DialFails(p) ==
    /\ p \in dialing
    /\ dialing' = dialing \ {p}
    /\ UNCHANGED <<connects, open, closing, timers, asked, remote, metadata, scoreVars, queries, syncPeers, behaviour>>

---------------------------------------------------------------------------
(* Answers to our requests, and requests of the peers.                     *)

\* Mutant: the status of a peer that has disconnected is reported as well.
OnStatusOfAnyone(p, status) ==
    /\ timers' = Requested(timers, "status", p)
    /\ syncPeers' = IF AssertPeerRelevance(status) THEN syncPeers \cup {p} ELSE syncPeers
    /\ asked' = (asked \ {<<"status", p>>}) \cup (IF AssertPeerRelevance(status) THEN {} ELSE {<<"goodbye", p>>})

\* onStatus: a peer that is not relevant is sent GOODBYE.  A relevant one is
\* reported to the sync, if it still is connected.
OnStatus(p, status) ==
    /\ timers' = Requested(timers, "status", p)
    /\ IF AssertPeerRelevance(status)
       THEN /\ syncPeers' = IF open[p] # {} THEN syncPeers \cup {p} ELSE syncPeers
            /\ asked' = asked \ {<<"status", p>>}
       ELSE /\ asked' = (asked \ {<<"status", p>>}) \cup {<<"goodbye", p>>}
            /\ UNCHANGED syncPeers

\* The peer's answer to our STATUS request, or its own request.  The answer may
\* arrive when the connection is gone.
Status(p, status) ==
    /\ <<"status", p>> \in asked \/ open[p] # {}
    /\ OnStatus(p, status)
    /\ UNCHANGED <<connVars, remote, metadata, scoreVars, queries, behaviour>>

\* onPing: the sequence number is newer than the metadata we hold.
Ping(p) ==
    /\ <<"ping", p>> \in asked \/ open[p] # {}
    /\ asked' = (asked \ {<<"ping", p>>})
                \cup (IF metadata[p].seq < remote[p].seq THEN {<<"metadata", p>>} ELSE {})
    /\ UNCHANGED <<connVars, timers, remote, metadata, scoreVars, queries, syncPeers, behaviour>>

OnMetadata(p) ==
    /\ <<"metadata", p>> \in asked
    /\ metadata' = [metadata EXCEPT ![p] = remote[p]]
    /\ asked' = asked \ {<<"metadata", p>>}
    /\ UNCHANGED <<connVars, timers, remote, scoreVars, queries, syncPeers, behaviour>>

\* The peer says GOODBYE: hang up.
OnGoodbye(p) ==
    /\ open[p] # {}
    /\ HangUp(p)
    /\ UNCHANGED <<connects, dialing, timers, asked, remote, metadata, scoreVars, queries, syncPeers, behaviour>>

\* Our GOODBYE was answered or failed: either way, hang up (the finally block).
GoodbyeAndDisconnect(p) ==
    /\ <<"goodbye", p>> \in asked
    /\ asked' = asked \ {<<"goodbye", p>>}
    /\ HangUp(p)
    /\ UNCHANGED <<connects, dialing, timers, remote, metadata, scoreVars, queries, syncPeers, behaviour>>

\* A request fails; the req/resp layer may lower the score (onOutgoingReqRespError).
RequestFails(k, p) ==
    /\ k # "goodbye" /\ <<k, p>> \in asked
    /\ asked' = asked \ {<<k, p>>}
    /\ \/ UNCHANGED <<scoreVars, behaviour>>
       \/ /\ behaviour < MaxBehaviour /\ behaviour' = behaviour + 1
          /\ \E a \in DOMAIN Actions : ApplyAction(p, a)
    /\ UNCHANGED <<connVars, timers, remote, metadata, queries, syncPeers>>

\* The sync reports a peer that sent wrong blocks.
ReportPeer(p) ==
    /\ p \in syncPeers
    /\ behaviour < MaxBehaviour /\ behaviour' = behaviour + 1
    /\ \E a \in DOMAIN Actions : ApplyAction(p, a)
    /\ UNCHANGED <<connVars, timers, asked, remote, metadata, queries, syncPeers>>

\* The ban's minimum duration has passed.
BanTimePasses(p) ==
    /\ lastUpdate[p] = "future"
    /\ lastUpdate' = [lastUpdate EXCEPT ![p] = "past"]
    /\ UNCHANGED <<connVars, timers, asked, remote, metadata, score, queries, syncPeers, behaviour>>

\* A peer joins or leaves subnets.
RemoteMetadata(p) ==
    /\ behaviour < MaxBehaviour /\ behaviour' = behaviour + 1
    /\ \E s \in SUBSET Subnets : remote' = [remote EXCEPT ![p] = [seq |-> @.seq + 1, subnets |-> s]]
    /\ UNCHANGED <<connVars, timers, asked, metadata, scoreVars, queries, syncPeers>>

---------------------------------------------------------------------------
(* The heartbeat.                                                          *)

\* prioritizePeers: of the connected peers without a duty, the worst ones, as many
\* as there are too many of all.  Ties are broken at random.
PeersToDisconnect(connected) ==
    LET free == {p \in connected : metadata[p].subnets \cap Subnets = {}}
        excess == Cardinality(connected) - targetPeers
    IN  IF excess <= 0 THEN {{}}
        ELSE {w \in SUBSET free :
                /\ Cardinality(w) = Min({excess, Cardinality(free)})
                /\ \A p \in w, q \in free \ w : score[p] <= score[q]}

TargetPeersPerSubnet == Min({6, Max({1, maxPeers \div Max({Cardinality(Subnets), 1})})})

Discv5Queries(connected) ==
    {s \in Subnets : Cardinality({p \in connected : s \in metadata[p].subnets}) < TargetPeersPerSubnet}

\* peersDiscovered: which of the found peers are dialed.  Dials that earlier calls
\* have under way are not counted.
PeersDialed(found) ==
    {d \in SUBSET {p \in found : open[p] = {} /\ GetScoreState(p) = "Healthy"} :
        Cardinality(Connected) + Cardinality(d) <= Max({maxPeers, Cardinality(Connected)})}

Largest(sets) == {d \in sets : \A e \in sets : Cardinality(e) <= Cardinality(d)}

\* discoverPeers: at most `n' stored peers that are not connected.
DiscoverPeers(n) ==
    IF n <= 0 THEN {{}}
    ELSE UNION {Largest(PeersDialed(f)) : f \in {f \in SUBSET (Peers \ Connected) : Cardinality(f) <= n}}

\* Mutant: only peers that were banned are disconnected, not those below the first threshold.
HeartbeatToleratesLowScores ==
    LET healthy == {p \in Connected : GetScoreState(p) # "Banned"}
    IN  /\ \E w \in PeersToDisconnect(healthy) :
             asked' = asked \cup ({"goodbye"} \X ((Connected \ healthy) \cup w))
        /\ \E d \in DiscoverPeers(targetPeers - Cardinality(healthy)) : dialing' = dialing \cup d
        /\ queries' = queries \cup Discv5Queries(healthy)
        /\ UNCHANGED <<connects, open, closing, timers, remote, metadata, scoreVars, syncPeers, behaviour>>

Heartbeat ==
    LET healthy == {p \in Connected : GetScoreState(p) = "Healthy"}
    IN  /\ \E w \in PeersToDisconnect(healthy) :
             asked' = asked \cup ({"goodbye"} \X ((Connected \ healthy) \cup w))
        /\ \E d \in DiscoverPeers(targetPeers - Cardinality(healthy)) : dialing' = dialing \cup d
        /\ queries' = queries \cup Discv5Queries(healthy)
        /\ UNCHANGED <<connects, open, closing, timers, remote, metadata, scoreVars, syncPeers, behaviour>>

\* discoverSubnetPeers, resumed after the ENRs of a subnet were read.
DiscoverSubnetPeers(s) ==
    /\ s \in queries
    /\ queries' = queries \ {s}
    /\ \E found \in SUBSET Peers : \E d \in Largest(PeersDialed(found)) : dialing' = dialing \cup d
    /\ UNCHANGED <<connects, open, closing, timers, asked, remote, metadata, scoreVars, syncPeers, behaviour>>

---------------------------------------------------------------------------
Init ==
    /\ open = [p \in Peers |-> {}] /\ closing = open /\ dialing = {} /\ connects = 0
    /\ timers = [k \in Timers |-> {}]
    /\ asked = {} /\ queries = {} /\ syncPeers = {}
    /\ \E f \in [Peers -> SUBSET Subnets] : remote = [p \in Peers |-> [seq |-> 1, subnets |-> f[p]]]
    /\ metadata = [p \in Peers |-> NoMetadata]
    /\ score = [p \in Peers |-> 0] /\ lastUpdate = [p \in Peers |-> "none"]
    /\ behaviour = 0

Next ==
    \/ CheckTimeouts \/ Heartbeat
    \/ \E p \in Peers :
         \/ RemoteCloses(p) \/ DialFails(p) \/ Ping(p) \/ OnMetadata(p) \/ OnGoodbye(p)
         \/ GoodbyeAndDisconnect(p) \/ ReportPeer(p) \/ BanTimePasses(p) \/ RemoteMetadata(p)
         \/ \E d \in Directions : OnLibp2pPeerConnect(p, d) \/ ConnectionClosed(p, d)
         \/ \E k \in Kinds : RequestFails(k, p)
         \/ \E s \in Statuses : Status(p, s)
    \/ \E ps \in SUBSET Peers : ReStatusPeers(ps)
    \/ \E s \in Subnets : DiscoverSubnetPeers(s)

\* The heartbeat runs on an interval; a request ends by its answer or its timeout,
\* and libp2p ends the close it has started.
Fairness ==
    /\ WF_vars(Heartbeat)
    /\ \A p \in Peers : WF_vars(GoodbyeAndDisconnect(p))
    /\ \A p \in Peers, d \in Directions : WF_vars(ConnectionClosed(p, d))

Spec == Init /\ [][Next]_vars /\ Fairness

---------------------------------------------------------------------------
\* The sync works with a peer only while libp2p holds a connection of it: an answer
\* that comes late never revives a peer that is gone, which nothing would remove again.
SyncPeersAreConnected == \A p \in syncPeers : open[p] \cup closing[p] # {}

\* A peer whose score has fallen too low does not stay connected: the heartbeat ends
\* its connections, or its score recovers.
LowScoresLeave ==
    \A p \in Peers : (GetScoreState(p) # "Healthy") ~> (open[p] = {} \/ GetScoreState(p) = "Healthy")
=============================================================================
