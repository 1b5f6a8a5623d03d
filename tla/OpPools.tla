------------------------------ MODULE OpPools -------------------------------
(***************************************************************************)
(* The pools that aggregate signatures by what they sign                   *)
(* (packages/lodestar/src/chain/opPools): attestations and sync committee  *)
(* messages, which come one signature at a time, and sync committee        *)
(* contributions, which come with the signatures of several members.       *)
(*                                                                         *)
(* An aggregate is its bits and, for each member, how often its signature  *)
(* is part of the aggregate signature.                                     *)
(***************************************************************************)
EXTENDS Integers, FiniteSets, FiniteSetsExt

CONSTANTS
    Members,         \* positions in the committee
    Roots,           \* what is signed
    Items,           \* sets of members whose signatures come together
    MAX_PER_SLOT,    \* aggregates per slot
    SLOTS_RETAINED,
    FirstSlot,       \* the slot at which the node starts
    MaxSlot          \* bound: the last slot, below 100

Slots == 0..MaxSlot

VARIABLES
    clockSlot,
    pool,                    \* aggregates by slot, root
    lowestPermissibleSlot,
    added                    \* slot and root of what was added

vars == <<clockSlot, pool, lowestPermissibleSlot, added>>

NoAggregate == [bits |-> {}, signatures |-> [i \in Members |-> 0]]
SlotsIn(p) == {s \in Slots : \E r \in Roots : p[s][r] # NoAggregate}

-----------------------------------------------------------------------------
\* attestationToAggregate, signatureToAggregate, contributionToAggregate
ToAggregate(item) == [bits |-> item, signatures |-> [i \in Members |-> IF i \in item THEN 1 ELSE 0]]

\* Mutant: a signature that is known is aggregated again.
AggregateAlways(aggregate, item) ==
    [bits |-> aggregate.bits \union item,
     signatures |-> [i \in Members |-> aggregate.signatures[i] + (IF i \in item THEN 1 ELSE 0)]]

\* aggregateAttestationInto, aggregateSignatureInto, aggregateContributionInto: the
\* bits are set one by one until a known one is met; the signature is added only
\* if none is.
AggregateInto(aggregate, item) ==
    LET known == item \intersect aggregate.bits
    IN IF known = {}
       THEN [bits |-> aggregate.bits \union item,
             signatures |-> [i \in Members |-> aggregate.signatures[i] + (IF i \in item THEN 1 ELSE 0)]]
       ELSE [aggregate EXCEPT !.bits = @ \union {i \in item : i < Min(known)}]

\* add: too old and too many are refused.
Add(slot, root, item) ==
    /\ slot <= clockSlot
    /\ slot >= lowestPermissibleSlot
    /\ Cardinality({r \in Roots : pool[slot][r] # NoAggregate}) < MAX_PER_SLOT
    /\ pool' = [pool EXCEPT ![slot][root] =
                  IF @ = NoAggregate THEN ToAggregate(item) ELSE AggregateInto(@, item)]
    /\ added' = added \union {<<slot, root>>}
    /\ UNCHANGED <<clockSlot, lowestPermissibleSlot>>

\* Array.sort without a comparison orders numbers by their decimal strings.
SortKey(slot) == IF slot < 10 THEN 20 * slot - 1 ELSE 2 * slot

\* pruneBySlot: with more slots than are retained, all but the last in that order
\* are deleted.
PruneBySlot(p) ==
    LET slots == SlotsIn(p)
        kept == {s \in slots : Cardinality({t \in slots : SortKey(t) > SortKey(s)}) < SLOTS_RETAINED}
    IN [s \in Slots |-> IF s \in slots \ kept THEN [r \in Roots |-> NoAggregate] ELSE p[s]]

\* A new slot: onClockSlot, onForkChoiceHead call prune.
Prune ==
    /\ clockSlot < MaxSlot
    /\ clockSlot' = clockSlot + 1
    /\ pool' = PruneBySlot(pool)
    /\ lowestPermissibleSlot' = Max({clockSlot' - SLOTS_RETAINED, 0})
    /\ UNCHANGED added

Init ==
    /\ clockSlot = FirstSlot
    /\ pool = [s \in Slots |-> [r \in Roots |-> NoAggregate]]
    /\ lowestPermissibleSlot = Max({FirstSlot - SLOTS_RETAINED, 0})
    /\ added = {}

Next ==
    \/ \E slot \in Slots, root \in Roots, item \in Items : Add(slot, root, item)
    \/ Prune

Spec == Init /\ [][Next]_vars

-----------------------------------------------------------------------------
\* An aggregate names the members whose signatures it holds, each once: otherwise
\* its signature does not verify and what is built from it is invalid.
AggregatesAreSigned ==
    \A slot \in Slots, root \in Roots : \A i \in Members :
        pool[slot][root].signatures[i] = IF i \in pool[slot][root].bits THEN 1 ELSE 0

\* "Prune a Map indexed by slot to keep the most recent slots, up to slotsRetained"
\* (opPools/utils.ts): what was added for one of the last slots is still there.
KeepsMostRecent ==
    \A a \in added : a[1] > clockSlot - SLOTS_RETAINED => pool[a[1]][a[2]] # NoAggregate
=============================================================================
