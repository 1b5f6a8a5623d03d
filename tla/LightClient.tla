---------------------------- MODULE LightClient ----------------------------
(***************************************************************************)
(* Light client support: LightClientUpdater and LightClientIniter of the   *)
(* node, which compute updates and initial proofs as blocks are imported   *)
(* and checkpoints are finalized, and a Lightclient that starts from a     *)
(* finalized checkpoint and follows the updates it is served.              *)
(*                                                                         *)
(* There is one chain.  A block is named by its slot, a state by the block *)
(* it follows and its own slot, a sync committee by the period it serves.  *)
(* A proof is what it was taken from: it is valid for a state root when it *)
(* was taken from the state with that root.                                *)
(***************************************************************************)
EXTENDS Integers, FiniteSets, FiniteSetsExt

CONSTANTS
    SLOTS_PER_EPOCH,
    EPOCHS_PER_SYNC_COMMITTEE_PERIOD,
    SYNC_COMMITTEE_SIZE,
    PREV_DATA_MAX_SIZE,
    WsPeriod,           \* computeWeakSubjectivityPeriod, in epochs
    BitCounts,          \* numbers of participants of a sync aggregate
    MayBeEmpty,         \* slots that may be without block
    MayStall,           \* slots whose block may finalize less than it could
    MaxSlot,
    MaxHandlers,        \* bound on the block handlers in flight
    MaxFinalizing       \* bound on the finalized epochs whose handler has not run

VARIABLES
    slot,               \* the clock
    finalizedIn,        \* finalizedIn[b]: epoch finalized in the state after block b
    toFinalize,         \* epochs finalized in the fork choice whose handler has not run
    prevHeadData,       \* blocks whose data is cached, in the order of the chain
    finalizedCheckpoint,\* db: epoch -> [header, state]: block, and state its proofs are of
    bestUpdate,         \* db: period -> update
    latestFinalized,    \* db: update
    handlers,           \* onHead handlers in flight
    initProof,          \* db: epoch -> block
    committeeProofs,    \* db: periods
    client              \* the light client

serverVars == <<finalizedIn, toFinalize, prevHeadData, finalizedCheckpoint, bestUpdate, latestFinalized,
                handlers, initProof, committeeProofs>>
vars == <<slot, serverVars, client>>

None == [none |-> TRUE]
NoMap == [k \in {} |-> None]
Put(map, k, v) == [x \in DOMAIN map \cup {k} |-> IF x = k THEN v ELSE map[x]]

SyncPeriodAtEpoch(e) == e \div EPOCHS_PER_SYNC_COMMITTEE_PERIOD
SyncPeriodAtSlot(s) == SyncPeriodAtEpoch(s \div SLOTS_PER_EPOCH)

Blocks == DOMAIN finalizedIn
BlockAt(s) == Max({b \in Blocks : b <= s})
CheckpointBlock(e) == BlockAt(e * SLOTS_PER_EPOCH)
NextCommitteeOf(state) == SyncPeriodAtSlot(state.at) + 1

---------------------------------------------------------------------------
(* LightClientUpdater.                                                     *)

IsFinalizedUpdate(u) == u.finalityHeader # 0

IsBetterUpdate(prev, new) ==
    CASE IsFinalizedUpdate(new) /\ ~IsFinalizedUpdate(prev) -> TRUE
      [] ~IsFinalizedUpdate(new) /\ IsFinalizedUpdate(prev) -> FALSE
      [] OTHER -> new.bits >= prev.bits

IsLatestBestFinalizedUpdate(prev, new) ==
    \/ new.finalityHeader > prev.finalityHeader
    \/ new.finalityHeader = prev.finalityHeader /\ new.bits >= prev.bits

FinalizedUpdate(h) ==
    LET data == finalizedCheckpoint[finalizedIn[h.attested]]
    IN  [header |-> data.header, nextOf |-> data.state, finalityHeader |-> h.attested, bits |-> h.bits, signedAt |-> h.slot]

NonFinalizedUpdate(h) ==
    [header |-> h.attested, nextOf |-> [block |-> h.attested, at |-> h.attested], finalityHeader |-> 0,
     bits |-> h.bits, signedAt |-> h.slot]

\* Mutant: the committee that signs may be of a later period than the header.
HasFinalizedUpdateOfAnyPeriod(h) == finalizedIn[h.attested] \in DOMAIN finalizedCheckpoint

HasFinalizedUpdate(h) ==
    /\ finalizedIn[h.attested] \in DOMAIN finalizedCheckpoint
    /\ SyncPeriodAtSlot(FinalizedUpdate(h).header) = SyncPeriodAtSlot(h.slot)

\* onHead up to its first wait: the data of the block is cached, and a handler goes on if
\* the block its aggregate attests to is cached.
OnHead(b, bits, blocks) ==
    LET attested == Max({c \in blocks : c < b})
        cached == prevHeadData \cup {b}
    IN  IF attested \in prevHeadData
        THEN /\ handlers' = handlers \cup {[slot |-> b, attested |-> attested, bits |-> bits, step |-> "finalized", prev |-> None]}
             /\ prevHeadData' = IF Cardinality(cached) > PREV_DATA_MAX_SIZE THEN cached \ {Min(cached)} ELSE cached
        ELSE prevHeadData' = cached /\ UNCHANGED handlers

Goes(h, step, prev) == handlers' = (handlers \ {h}) \cup {[h EXCEPT !.step = step, !.prev = prev]}
BestOf(period) == IF period \in DOMAIN bestUpdate THEN bestUpdate[period] ELSE None
PutBest(period, prev, new) ==
    bestUpdate' = IF prev = None \/ IsBetterUpdate(prev, new) THEN Put(bestUpdate, period, new) ELSE bestUpdate

\* persistBestFinalizedUpdate, up to the read of the update it may replace.
ReadFinalized(h) ==
    /\ h.step = "finalized"
    /\ Goes(h, IF HasFinalizedUpdate(h) THEN "putFinalized" ELSE "nonFinalized", BestOf(SyncPeriodAtSlot(h.slot)))
    /\ UNCHANGED <<slot, finalizedIn, toFinalize, prevHeadData, finalizedCheckpoint, bestUpdate, latestFinalized,
                   initProof, committeeProofs, client>>

\* persistBestFinalizedUpdate, from there on.
PutFinalized(h) ==
    /\ h.step = "putFinalized"
    /\ LET new == FinalizedUpdate(h)
       IN  /\ PutBest(SyncPeriodAtSlot(new.header), h.prev, new)
           /\ latestFinalized' = IF latestFinalized = None \/ IsLatestBestFinalizedUpdate(latestFinalized, new)
                                 THEN new ELSE latestFinalized
    \* the update of the attested header is of the same period and is left out
    /\ handlers' = handlers \ {h}
    /\ UNCHANGED <<slot, finalizedIn, toFinalize, prevHeadData, finalizedCheckpoint, initProof, committeeProofs, client>>

\* persistBestNonFinalizedUpdate; the latest such update is read by no client.
PutNonFinalized(h) ==
    /\ h.step = "nonFinalized"
    /\ IF SyncPeriodAtSlot(h.attested) = SyncPeriodAtSlot(h.slot)
       THEN PutBest(SyncPeriodAtSlot(h.attested), h.prev, NonFinalizedUpdate(h))
       ELSE UNCHANGED bestUpdate
    /\ handlers' = handlers \ {h}
    /\ UNCHANGED <<slot, finalizedIn, toFinalize, prevHeadData, finalizedCheckpoint, latestFinalized,
                   initProof, committeeProofs, client>>

---------------------------------------------------------------------------
(* Blocks and finality.                                                    *)

Newest(s) == (s \div SLOTS_PER_EPOCH) - 2

\* A block is imported: its state finalizes the epoch two epochs back, or nothing new.
ImportBlock(bits) ==
    /\ slot < MaxSlot /\ slot' = slot + 1
    /\ Cardinality(handlers) < MaxHandlers /\ Cardinality(toFinalize) < MaxFinalizing
    /\ LET before == finalizedIn[BlockAt(slot)]
           stalls == IF slot + 1 \in MayStall THEN {before} ELSE {}
       IN  \E e \in {Max({before, Newest(slot + 1)})} \cup stalls :
             /\ finalizedIn' = Put(finalizedIn, slot + 1, e)
             /\ toFinalize' = toFinalize \cup ({e} \ {before})
    /\ OnHead(slot + 1, bits, Blocks)
    /\ UNCHANGED <<finalizedCheckpoint, bestUpdate, latestFinalized, initProof, committeeProofs, client>>

\* A slot without block.
SkipSlot ==
    /\ slot < MaxSlot /\ slot' = slot + 1
    /\ slot + 1 \in MayBeEmpty
    /\ UNCHANGED <<serverVars, client>>

\* LightClientUpdater.onFinalized, called with the block of the checkpoint and the state of
\* the checkpoint, which is later than the block's when slots were skipped.
StoreCheckpoint(e) ==
    finalizedCheckpoint' = Put(finalizedCheckpoint, e,
        [header |-> CheckpointBlock(e), state |-> [block |-> CheckpointBlock(e), at |-> e * SLOTS_PER_EPOCH]])

\* LightClientIniter.onFinalized, which takes the state of the block.
StoreInitProof(e) ==
    LET block == CheckpointBlock(e)
        period == SyncPeriodAtSlot(block)
        wsEpoch == Max({0, (block \div SLOTS_PER_EPOCH) - WsPeriod})
    IN  /\ initProof' = Put([f \in {g \in DOMAIN initProof : g >= wsEpoch} |-> initProof[f]], e, block)
        /\ committeeProofs' = {p \in committeeProofs : p >= SyncPeriodAtEpoch(wsEpoch)} \cup {period, period + 1}

\* onForkChoiceFinalized
OnFinalized(e) ==
    /\ e \in toFinalize /\ toFinalize' = toFinalize \ {e}
    /\ StoreCheckpoint(e) /\ StoreInitProof(e)
    /\ UNCHANGED <<slot, finalizedIn, prevHeadData, bestUpdate, latestFinalized, handlers, client>>

\* getInitProofByEpoch: the state proof with the committee proofs put back in.
GetInitProofByEpoch(e) ==
    LET period == SyncPeriodAtEpoch(e)
    IN  IF e \in DOMAIN initProof /\ {period, period + 1} \subseteq committeeProofs
        THEN [block |-> initProof[e], current |-> period, next |-> period + 1] ELSE None

\* createTreeBackedFromProof: the proof is one of the state root of the header.
IsValidInitProof(proof, header) ==
    proof # None /\ proof = [block |-> header, current |-> SyncPeriodAtSlot(header), next |-> SyncPeriodAtSlot(header) + 1]

---------------------------------------------------------------------------
(* Lightclient.                                                            *)

Snapshot(header, current, next) == [header |-> header, current |-> current, next |-> next]

\* initializeFromCheckpoint, with the checkpoint of a finalized epoch.
InitializeFromCheckpoint(e) ==
    /\ client = None /\ e \in DOMAIN initProof
    /\ IsValidInitProof(GetInitProofByEpoch(e), CheckpointBlock(e))
    /\ LET proof == GetInitProofByEpoch(e)
       IN  client' = [snapshot |-> Snapshot(CheckpointBlock(e), proof.current, proof.next), best |-> NoMap]
    /\ UNCHANGED <<slot, serverVars>>

\* validateLightClientUpdate
ValidateLightClientUpdate(snapshot, u) ==
    LET snapshotPeriod == SyncPeriodAtSlot(snapshot.header)
        updatePeriod == SyncPeriodAtSlot(u.header)
    IN  /\ updatePeriod \in {snapshotPeriod, snapshotPeriod + 1}
        /\ IsFinalizedUpdate(u) => /\ CheckpointBlock(finalizedIn[u.finalityHeader]) = u.header
                                   /\ SyncPeriodAtSlot(u.finalityHeader) = updatePeriod
        /\ u.nextOf = [block |-> u.header, at |-> u.header]
        /\ u.bits > 0
        /\ (IF updatePeriod > snapshotPeriod THEN snapshot.next ELSE snapshot.current) = SyncPeriodAtSlot(u.signedAt)

\* applyLightClientUpdate
ApplyLightClientUpdate(snapshot, u) ==
    IF SyncPeriodAtSlot(u.header) = SyncPeriodAtSlot(snapshot.header) + 1
    THEN Snapshot(u.header, snapshot.next, NextCommitteeOf(u.nextOf))
    ELSE [snapshot EXCEPT !.header = u.header]

Removed(map, k) == [x \in DOMAIN map \ {k} |-> map[x]]

\* processLightClientUpdate; a refused update leaves the client as it is.
ProcessLightClientUpdate(c, u) ==
    LET period == SyncPeriodAtSlot(u.header)
        better == period \notin DOMAIN c.best \/ u.bits >= c.best[period].bits
        best == IF better THEN Put(c.best, period, u) ELSE c.best
        old == SyncPeriodAtSlot(c.snapshot.header)
    IN  IF ~ValidateLightClientUpdate(c.snapshot, u) THEN c
        ELSE IF u.bits * 3 >= SYNC_COMMITTEE_SIZE * 2 /\ IsFinalizedUpdate(u)
        THEN [c EXCEPT !.snapshot = ApplyLightClientUpdate(@, u), !.best = Removed(best, period)]
        ELSE IF slot > c.snapshot.header + (SLOTS_PER_EPOCH * EPOCHS_PER_SYNC_COMMITTEE_PERIOD) /\ old \in DOMAIN best
        THEN [c EXCEPT !.snapshot = ApplyLightClientUpdate(@, best[old]), !.best = Removed(best, old)]
        ELSE [c EXCEPT !.best = best]

\* sync: one of the best updates of the periods from the client's on, in their order.
Sync ==
    /\ client # None
    /\ \E p \in DOMAIN bestUpdate :
        /\ p \in SyncPeriodAtSlot(client.snapshot.header)..SyncPeriodAtSlot(slot)
        /\ client' = ProcessLightClientUpdate(client, bestUpdate[p])
    /\ UNCHANGED <<slot, serverVars>>

\* syncToLatest
SyncToLatest ==
    /\ client # None /\ latestFinalized # None
    /\ client' = ProcessLightClientUpdate(client, latestFinalized)
    /\ UNCHANGED <<slot, serverVars>>

---------------------------------------------------------------------------
Init ==
    /\ slot = 0 /\ finalizedIn = Put(NoMap, 0, 0) /\ toFinalize = {}
    /\ prevHeadData = {} /\ finalizedCheckpoint = NoMap /\ bestUpdate = NoMap /\ latestFinalized = None
    /\ handlers = {} /\ initProof = NoMap /\ committeeProofs = {} /\ client = None

Next ==
    \/ \E bits \in BitCounts : ImportBlock(bits)
    \/ SkipSlot
    \/ \E e \in toFinalize : OnFinalized(e)
    \/ \E h \in handlers : ReadFinalized(h) \/ PutFinalized(h) \/ PutNonFinalized(h)
    \/ \E e \in DOMAIN initProof : InitializeFromCheckpoint(e)
    \/ Sync \/ SyncToLatest

Spec == Init /\ [][Next]_vars

---------------------------------------------------------------------------
Served == {bestUpdate[p] : p \in DOMAIN bestUpdate} \cup ({latestFinalized} \ {None})

\* "Expects the block from `checkpoint.root` and the post state of the block"
\* (LightClientUpdater.ts).  Not so when the first slot of the epoch is empty.
CheckpointStateIsOfBlock ==
    \A e \in DOMAIN finalizedCheckpoint :
        finalizedCheckpoint[e].state = [block |-> finalizedCheckpoint[e].header, at |-> finalizedCheckpoint[e].header]

\* What the node serves a client can use: a client with the committees of its period takes
\* the update of that period and of the next, if anyone signed it and its committee is from
\* the state of its block, whatever was signed across the end of a period and however late
\* checkpoints are handled; and every checkpoint handled has a proof to start from that
\* matches its block, unless empty slots put the two in different periods.
ServedIsAccepted ==
    /\ \A u \in Served : u.bits > 0 /\ u.nextOf.at = u.header =>
        LET p == SyncPeriodAtSlot(u.header) IN
        \A q \in {p - 1, p} : q >= 0 =>
            ValidateLightClientUpdate(Snapshot(q * SLOTS_PER_EPOCH * EPOCHS_PER_SYNC_COMMITTEE_PERIOD, q, q + 1), u)
    /\ \A e \in DOMAIN initProof :
        SyncPeriodAtSlot(CheckpointBlock(e)) = SyncPeriodAtEpoch(e) =>
            IsValidInitProof(GetInitProofByEpoch(e), CheckpointBlock(e))

\* The client always knows the committees that serve in the period of its header and in the
\* next, through finalized updates and forced ones, best updates and latest ones.
CommitteesMatchHeader ==
    client # None =>
        LET p == SyncPeriodAtSlot(client.snapshot.header)
        IN  client.snapshot.current = p /\ client.snapshot.next = p + 1
=============================================================================
