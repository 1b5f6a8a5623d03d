-------------------------- MODULE GossipValidation --------------------------
(***************************************************************************)
(* Validation of gossip messages: packages/lodestar/src/chain/validation,  *)
(* the seen caches (chain/seenCache), the handlers of network/gossip with  *)
(* their queues, and the clock (chain/clock/LocalClock.ts) they ask.       *)
(*                                                                         *)
(* A validation is suspended while it waits for a state, the database or   *)
(* the signature, and others run meanwhile.  Messages from gossip wait in  *)
(* a queue that bounds how many of a kind are validated at a time; those   *)
(* that the HTTP API submits are validated by the same functions, all at   *)
(* once (its sync committee messages have their signature verified and     *)
(* nothing else, and are no messages here).  What is wrong with a message, *)
(* if anything, is its field flaw, named for the check that finds it.      *)
(***************************************************************************)
EXTENDS Integers, FiniteSets

CONSTANTS
    Messages,        \* [kind, validator, subnet, slot, block, flaw, id, via], via "gossip" or "api"
    Batches,         \* sets of messages that arrive in a behaviour
    SLOTS_PER_EPOCH,
    MaxConcurrency,  \* gossipQueueOpts: validations of a kind at a time
    MaxTime          \* bound: the last instant

TicksPerSlot == 3         \* an instant is a third of a slot
GOSSIP_CLOCK_DISPARITY == 1
MAX_EPOCHS == 3
MAX_SLOTS_IN_CACHE == 3   \* SeenSyncCommitteeMessages
MAX_SLOTS_IN_CONTRIBUTION_CACHE == 8

VARIABLES
    now,
    batch,
    stage,       \* stage of the validation of each message, or its outcome
    seen,        \* seen caches and, for ByDatabase, the database: a set of SeenKeys
    known,       \* blocks the fork choice has, and blocks in the database
    finalized,   \* the finalized slot
    received     \* blocks handed to the block processor

vars == <<now, batch, stage, seen, known, finalized, received>>

Outcomes == {"accept", "ignore", "reject"}
EpochOf(slot) == slot \div SLOTS_PER_EPOCH
CurrentSlot == now \div TicksPerSlot
CurrentEpoch == EpochOf(CurrentSlot)
AtLeast(a, b) == IF a < b THEN b ELSE a
ByEpoch == {"attestation", "aggregate"}
BySlot == {"syncMessage", "contribution"}
ByDatabase == {"exit", "proposerSlashing", "attesterSlashing"}

\* The keys of the caches: the target epoch and the validator; the slot, the subnet
\* and the validator; in the database the validator alone.
PeriodOf(m) ==
    CASE m.kind \in ByEpoch -> EpochOf(m.slot) [] m.kind \in ByDatabase -> 0 [] OTHER -> m.slot
SeenKey(m) ==
    [kind |-> m.kind, period |-> PeriodOf(m), validator |-> m.validator,
     subnet |-> IF m.kind \in BySlot THEN m.subnet ELSE 0]
IsKnown(m) == SeenKey(m) \in seen

-----------------------------------------------------------------------------
\* slotWithTolerance: the tolerance is added to the genesis time.
SlotWithTolerance(tolerance) == (now - tolerance) \div TicksPerSlot

CurrentSlotWithGossipDisparity == (now + GOSSIP_CLOCK_DISPARITY) \div TicksPerSlot

\* isCurrentSlotGivenGossipDisparity
IsCurrentSlotGivenGossipDisparity(slot) ==
    \/ slot = CurrentSlot
    \/ now % TicksPerSlot = TicksPerSlot - 1 /\ slot = CurrentSlot + 1
    \/ now % TicksPerSlot = 0 /\ slot = CurrentSlot - 1

\* verifyPropagationSlotRange
VerifyPropagationSlotRange(slot) ==
    /\ slot >= AtLeast(SlotWithTolerance(-GOSSIP_CLOCK_DISPARITY) - SLOTS_PER_EPOCH, 0)
    /\ slot <= SlotWithTolerance(GOSSIP_CLOCK_DISPARITY)

\* verifyHeadBlockAndTargetRoot: the outcome, or "ok".
VerifyHeadBlockAndTargetRoot(m) ==
    IF m.block \notin known THEN "ignore" ELSE IF m.flaw = "targetRoot" THEN "reject" ELSE "ok"

\* SeenAttesters.lowestPermissibleEpoch
LowestPermissibleEpoch == AtLeast(CurrentEpoch - MAX_EPOCHS, 0)

-----------------------------------------------------------------------------
\* The checks of a validation up to its first wait, in their order.
\* validateGossipAttestation
AttestationEarly(m) ==
    IF m.flaw = "targetEpoch" THEN "reject"
    ELSE IF ~VerifyPropagationSlotRange(m.slot) THEN "ignore"
    ELSE IF m.flaw = "bits" THEN "reject"
    ELSE VerifyHeadBlockAndTargetRoot(m)

\* validateGossipAggregateAndProof
AggregateEarly(m) ==
    IF m.flaw = "targetEpoch" THEN "reject"
    ELSE IF ~VerifyPropagationSlotRange(m.slot) \/ IsKnown(m) THEN "ignore"
    ELSE VerifyHeadBlockAndTargetRoot(m)

\* validateGossipSyncCommitteeExceptSig
SyncCommitteeExceptSig(m) ==
    IF ~IsCurrentSlotGivenGossipDisparity(m.slot) THEN "ignore"
    ELSE IF m.flaw \in {"subnet", "committee"} THEN "reject" ELSE "ok"

\* validateGossipSyncCommittee
SyncMessageEarly(m) ==
    IF SyncCommitteeExceptSig(m) # "ok" THEN SyncCommitteeExceptSig(m)
    ELSE IF IsKnown(m) THEN "ignore" ELSE "ok"

\* validateSyncCommitteeGossipContributionAndProof
ContributionEarly(m) ==
    IF SyncMessageEarly(m) # "ok" THEN SyncMessageEarly(m)
    ELSE IF m.flaw = "selection" THEN "reject" ELSE "ok"

\* validateGossipBlock
BlockEarly(m) ==
    IF m.slot <= finalized THEN "ignore"
    ELSE IF CurrentSlotWithGossipDisparity < m.slot THEN "future" ELSE "ok"

Early(m) ==
    CASE m.kind = "attestation" -> AttestationEarly(m)
      [] m.kind = "aggregate" -> AggregateEarly(m)
      [] m.kind = "syncMessage" -> SyncMessageEarly(m)
      [] m.kind = "contribution" -> ContributionEarly(m)
      [] m.kind = "block" -> BlockEarly(m)
      [] OTHER -> "ok"

\* What a validation waits for first: a state or the database, or the signature.
FirstWait(m) == IF m.kind \in BySlot THEN "signature" ELSE "state"

\* The beacon_block handler: a block without a parent, and one ahead of the clock,
\* is handed on although it is not propagated.
HandedOn(m, outcome) ==
    IF m.kind = "block" /\ outcome \in {"accept", "future", "parentUnknown"} THEN {m} ELSE {}

End(m, outcome) ==
    /\ stage' = [stage EXCEPT ![m] = IF outcome \in Outcomes THEN outcome ELSE "ignore"]
    /\ received' = received \union HandedOn(m, outcome)

\* The validations of a kind that its gossip queue has under way.
Running(kind) ==
    {o \in batch : o.kind = kind /\ o.via = "gossip" /\ stage[o] \in {"state", "signature"}}

\* wrapWithQueue: a message is taken from the queue of its kind and checked; one that
\* the API submits does not wait.
Validate(m) ==
    /\ stage[m] = "queued"
    /\ m.via = "gossip" => Cardinality(Running(m.kind)) < MaxConcurrency[m.kind]
    /\ IF Early(m) = "ok"
       THEN stage' = [stage EXCEPT ![m] = FirstWait(m)] /\ UNCHANGED received
       ELSE End(m, Early(m))
    /\ UNCHANGED <<now, batch, seen, known, finalized>>

\* The checks after the state has come.
Middle(m) ==
    CASE m.kind = "attestation" ->
            IF m.flaw = "committee" \/ (m.flaw = "subnet" /\ m.via = "gossip") THEN "reject"
            ELSE IF IsKnown(m) THEN "ignore" ELSE "ok"
      [] m.kind = "aggregate" -> IF m.flaw \in {"committee", "selection"} THEN "reject" ELSE "ok"
      [] m.kind = "block" -> IF m.id \in known THEN "ignore"
                             ELSE IF m.block \notin known THEN "parentUnknown" ELSE "ok"
      [] m.kind \in ByDatabase -> IF IsKnown(m) THEN "ignore"
                                  ELSE IF m.flaw = "operation" THEN "reject" ELSE "ok"

\* getCheckpointState, getBlockSlotState or the database answers.
StateReady(m) ==
    /\ stage[m] = "state"
    /\ IF Middle(m) = "ok"
       THEN stage' = [stage EXCEPT ![m] = "signature"] /\ UNCHANGED received
       ELSE End(m, Middle(m))
    /\ UNCHANGED <<now, batch, seen, known, finalized>>

\* The state cannot be had: attestations are rejected, blocks wait for a parent.
StateMissing(m) ==
    /\ stage[m] = "state"
    /\ m.kind \in ByEpoch \union {"block", "exit"}
    /\ End(m, CASE m.kind \in ByEpoch -> "reject" [] m.kind = "block" -> "parentUnknown" [] OTHER -> "ignore")
    /\ UNCHANGED <<now, batch, seen, known, finalized>>

\* Mutant: the cache is not asked again once the signature is verified.
LateWithoutSecondLook(m) ==
    IF m.flaw \in {"signature", "proposer"} THEN "reject" ELSE "accept"

\* The checks after the signature: attestations are looked up again.
Late(m) ==
    IF m.flaw \in {"signature", "proposer"} THEN "reject"
    ELSE IF m.kind \in ByEpoch /\ (IsKnown(m) \/ PeriodOf(m) < LowestPermissibleEpoch) THEN "ignore"
    ELSE "accept"

\* The signature is verified; the message is marked as seen and handled.
SignatureVerified(m) ==
    /\ stage[m] = "signature"
    /\ End(m, Late(m))
    /\ seen' = IF Late(m) = "accept" /\ m.kind # "block" THEN seen \union {SeenKey(m)} ELSE seen
    /\ UNCHANGED <<now, batch, known, finalized>>

-----------------------------------------------------------------------------
\* prune of SeenAttesters and SeenSyncCommitteeMessages, by the clock
Pruned(s, slot) ==
    {x \in s : /\ x.kind \in ByEpoch => x.period >= AtLeast(EpochOf(slot) - MAX_EPOCHS, 0)
               /\ x.kind = "syncMessage" => x.period >= slot - MAX_SLOTS_IN_CACHE}

\* onForkChoiceHead: SeenContributionAndProof is pruned by the slot of a new head.
NewHead(headSlot) ==
    /\ seen' = {x \in seen : x.kind = "contribution" =>
                               x.period >= headSlot - MAX_SLOTS_IN_CONTRIBUTION_CACHE}
    /\ UNCHANGED <<now, batch, stage, known, finalized, received>>

\* onNextSlot: time passes, on a new slot the other caches are pruned.
Tick ==
    /\ now < MaxTime
    /\ now' = now + 1
    /\ seen' = IF now' % TicksPerSlot = 0 THEN Pruned(seen, now' \div TicksPerSlot) ELSE seen
    /\ UNCHANGED <<batch, stage, known, finalized, received>>

\* External: a block is imported, here the one that the messages are about.
ImportBlock(b) ==
    /\ b \notin known
    /\ known' = known \union {b}
    /\ UNCHANGED <<now, batch, stage, seen, finalized, received>>

\* External: the chain finalizes a slot.  Bound: only blocks ask for it, and beyond
\* their slots it makes no difference.
Finalize ==
    /\ \E m \in batch : m.kind = "block" /\ finalized < m.slot
    /\ finalized + 1 < CurrentSlot
    /\ finalized' = finalized + 1
    /\ UNCHANGED <<now, batch, stage, seen, known, received>>

Init ==
    /\ now = 0
    /\ batch \in Batches
    /\ stage = [m \in Messages |-> IF m \in batch THEN "queued" ELSE "absent"]
    /\ seen = {}
    /\ known \in SUBSET {m.block : m \in batch}
    /\ finalized = 0
    /\ received = {}

Next ==
    \/ \E m \in batch : Validate(m)
    \/ \E m \in batch : StateReady(m)
    \/ \E m \in batch : StateMissing(m)
    \/ \E m \in batch : SignatureVerified(m)
    \/ \E m \in batch : ImportBlock(m.block)
    \/ \E headSlot \in 0..CurrentSlot : NewHead(headSlot)
    \/ Finalize
    \/ Tick

Spec == Init /\ [][Next]_vars

-----------------------------------------------------------------------------
\* Of the attestations and of the aggregates of a validator for one epoch at most one
\* is let through, from gossip and from the API together; of its sync committee
\* messages and contributions for one slot and subnet at most one from gossip.  This
\* holds however long the verification takes and although the caches forget: two that
\* wait for their signatures at the same time, or one that ends after the cache was
\* pruned.  Contributions that the API submits may be let through more than once: they
\* are validated at once and not looked up again after the signature.
AcceptedOnce ==
    \A m, o \in batch : m # o /\ SeenKey(m) = SeenKey(o) /\ stage[m] = "accept" /\ stage[o] = "accept" =>
        /\ m.kind \notin ByEpoch
        /\ m.kind \in BySlot => "api" \in {m.via, o.via}

\* A sound block newer than the finalized slot is handed to the block processor
\* unless the node has it already, also when it comes before its slot or parent.
NoBlockDropped ==
    \A m \in batch : m.kind = "block" /\ m.flaw = "none" /\ m.slot > finalized /\ stage[m] \in Outcomes =>
        m \in received \/ m.id \in known

-----------------------------------------------------------------------------
(* What the sources say and the model refutes, see README.md. *)

\* The comment of slotWithTolerance, "Returns the slot if the internal clock were
\* advanced": an attestation of the current slot is never ignored as one of the
\* future.
CurrentSlotIsPermissible == CurrentSlot <= SlotWithTolerance(GOSSIP_CLOCK_DISPARITY)
=============================================================================
