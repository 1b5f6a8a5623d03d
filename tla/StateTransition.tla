-------------------------- MODULE StateTransition --------------------------
(***************************************************************************)
(* Cached beacon states on several forks of the chain.  A block's state is *)
(* a clone of its parent's, dialled to the block's slot (with the epoch    *)
(* transitions, the rotation of the epoch context and the altair upgrade   *)
(* on the way) and then changed by the block.  What is cached beside the   *)
(* state (shufflings one epoch ahead, sync committees by validator index,  *)
(* block roots) is copied with it; the public key caches are not: every    *)
(* clone shares the maps of its ancestor, whatever fork it is on.          *)
(*                                                                         *)
(* A block root is the number of the state it leads to, a RANDAO mix the   *)
(* set of the blocks mixed in, a seed is an epoch and a mix.               *)
(***************************************************************************)
EXTENDS Integers, Sequences, FiniteSets, SequencesExt

CONSTANTS
  GenesisKeys,   \* keys of the genesis validators, a sequence
  DepositKeys,   \* the deposit log, a sequence of keys: a known key is a top-up
  SlotsPerEpoch, HistoricalRoots, HistoricalVector,
  SeedLookahead, \* MIN_SEED_LOOKAHEAD
  ActivationDelay, SyncPeriod, AltairEpoch,
  MaxStates, MaxMaps, Gaps \* bounds: states, pubkey maps, slots from a block to its parent

VARIABLES
  states, \* every cached state so far; states[b] is the one block b leads to
  maps    \* the shared caches: [index (key -> index), key (index -> key)]

vars == <<states, maps>>

ComputeEpochAtSlot(slot) == slot \div SlotsPerEpoch
AtLeast(a, b) == IF a > b THEN a ELSE b

Active(s, epoch) == {i \in 1..Len(s.vals) : s.vals[i].act <= epoch}
GetRandaoMix(s, epoch) == s.mixes[epoch % HistoricalVector]
GetSeed(s, epoch) ==
  [epoch |-> epoch, mix |-> GetRandaoMix(s, epoch + HistoricalVector - SeedLookahead - 1)]

\* the members of a shuffling and the seed that orders them
ComputeEpochShuffling(s, epoch) == [epoch |-> epoch, seed |-> GetSeed(s, epoch), active |-> Active(s, epoch)]

\* What the seed picks; any function of the seed and the active set will do.
GetNextSyncCommittee(s) ==
  LET epoch  == ComputeEpochAtSlot(s.slot) + 1
      active == SetToSortSeq(Active(s, epoch), <)
      at(k)  == active[((Cardinality(GetSeed(s, epoch).mix) + k) % Len(active)) + 1]
  IN  << s.vals[at(1)].key, s.vals[at(2)].key >>

-----------------------------------------------------------------------------
(* Public key caches: addPubkey overwrites, syncPubkeys appends what is missing. *)
AddPubkey(m, key, i) == [index |-> (key :> i) @@ m.index, key |-> (i :> key) @@ m.key]
SyncPubkeys(s) ==
  FoldLeft(LAMBDA m, i : AddPubkey(m, s.vals[i].key, i), [index |-> <<>>, key |-> <<>>],
           [i \in 1..Len(s.vals) |-> i])

\* keys that the map does not know are skipped
ConvertToIndexedSyncCommittee(committee, m) ==
  LET known == SelectSeq(committee, LAMBDA k : k \in DOMAIN m.index)
  IN  [i \in 1..Len(known) |-> m.index[known[i]]]

Indexed(s, m) == [cur |-> ConvertToIndexedSyncCommittee(s.sync.cur, m),
                  next |-> ConvertToIndexedSyncCommittee(s.sync.next, m)]

\* createEpochContext: what a state loaded from its bytes is given
CreateEpochContext(s) ==
  LET e == ComputeEpochAtSlot(s.slot)
  IN  [previous |-> ComputeEpochShuffling(s, AtLeast(e - 1, 0)),
       current |-> ComputeEpochShuffling(s, e), next |-> ComputeEpochShuffling(s, e + 1)]

-----------------------------------------------------------------------------
(* The steps below work on a pair: the state and the shared caches. *)

ProcessSlot(s) == [s EXCEPT !.roots[s.slot % HistoricalRoots] = s.header]

ProcessRandaoMixesReset(s) ==
  LET e == ComputeEpochAtSlot(s.slot)
  IN  [s EXCEPT !.mixes[(e + 1) % HistoricalVector] = GetRandaoMix(s, e)]

RotateSyncCommittee(s, m) ==
  LET next == GetNextSyncCommittee(s)
  IN  [s EXCEPT !.sync = [cur |-> s.sync.next, next |-> next],
                !.indexed = [cur |-> s.indexed.next, next |-> ConvertToIndexedSyncCommittee(next, m)]]

ProcessSyncCommitteeUpdates(s, m) ==
  IF s.fork = "altair" /\ (ComputeEpochAtSlot(s.slot) + 1) % SyncPeriod = 0
  THEN RotateSyncCommittee(s, m) ELSE s

RotateEpochs(s) ==
  [s EXCEPT !.ctx = [previous |-> s.ctx.current, current |-> s.ctx.next,
                     next |-> ComputeEpochShuffling(s, s.ctx.next.epoch + 1)]]

\* upgradeState builds the caches anew: a fresh public key map, both committees the same
UpgradeState(s, ms) ==
  LET c  == GetNextSyncCommittee(s)
      s1 == [s EXCEPT !.fork = "altair", !.sync = [cur |-> c, next |-> c], !.map = Len(ms) + 1]
      m  == SyncPubkeys(s1)
  IN  << [s1 EXCEPT !.ctx = CreateEpochContext(s1), !.indexed = Indexed(s1, m)], Append(ms, m) >>

ProcessEpoch(s, ms) ==
  LET s1 == ProcessSyncCommitteeUpdates(ProcessRandaoMixesReset(s), ms[s.map])
      s2 == RotateEpochs([s1 EXCEPT !.slot = @ + 1])
      e  == ComputeEpochAtSlot(s2.slot)
  IN  IF e = AltairEpoch /\ e > 0 THEN UpgradeState(s2, ms) ELSE <<s2, ms>>

\* one turn of the loop of processSlots
NextSlot(sm, k) ==
  LET s == ProcessSlot(sm[1])
  IN  IF (s.slot + 1) % SlotsPerEpoch = 0 THEN ProcessEpoch(s, sm[2])
      ELSE << [s EXCEPT !.slot = @ + 1], sm[2] >>

ProcessSlots(s, ms, n) == FoldLeft(NextSlot, <<s, ms>>, [k \in 1..n |-> k])

\* Mutant: a cached key is taken for a validator of this state.
IsUncachedKey(s, m, key) == key \notin DOMAIN m.index

\* A key cached for a later state of another fork is not a validator of this one.
IsNewValidator(s, m, key) == key \notin DOMAIN m.index \/ m.index[key] > Len(s.vals)

ProcessDeposit(sm) ==
  LET s   == sm[1]
      key == DepositKeys[s.deposits + 1]
      s1  == [s EXCEPT !.deposits = @ + 1]
      act == ComputeEpochAtSlot(s.slot) + ActivationDelay
  IN  IF IsNewValidator(s, sm[2][s.map], key)
      THEN << [s1 EXCEPT !.vals = Append(@, [key |-> key, act |-> act])],
              [sm[2] EXCEPT ![s.map] = AddPubkey(@, key, Len(s.vals) + 1)] >>
      ELSE << s1, sm[2] >>

\* header, RANDAO reveal and the deposits of block b
ProcessBlock(sm, b, deposit) ==
  LET s  == sm[1]
      s1 == [s EXCEPT !.header = b, !.parent = s.header,
                      !.mixes[ComputeEpochAtSlot(s.slot) % HistoricalVector] = @ \cup {b}]
  IN  IF deposit THEN ProcessDeposit(<<s1, sm[2]>>) ELSE <<s1, sm[2]>>

-----------------------------------------------------------------------------
GenesisState ==
  LET s == [slot |-> 0, fork |-> IF AltairEpoch = 0 THEN "altair" ELSE "phase0",
            header |-> 1, parent |-> 0, deposits |-> 0, map |-> 1,
            vals |-> [i \in 1..Len(GenesisKeys) |-> [key |-> GenesisKeys[i], act |-> 0]],
            mixes |-> [k \in 0..HistoricalVector - 1 |-> {}],
            roots |-> [k \in 0..HistoricalRoots - 1 |-> 0],
            sync |-> [cur |-> <<>>, next |-> <<>>], indexed |-> [cur |-> <<>>, next |-> <<>>]]
  IN  s @@ [ctx |-> CreateEpochContext(s)]

Init ==
  /\ states = << GenesisState >>
  /\ maps = << SyncPubkeys(GenesisState) >>

\* stateTransition: clone, dial, apply; a block must be newer than its parent
ImportBlock(p, gap, deposit) ==
  LET result == ProcessBlock(ProcessSlots(states[p], maps, gap), Len(states) + 1, deposit)
  IN  /\ Len(states) < MaxStates
      /\ deposit => states[p].deposits < Len(DepositKeys)
      /\ states' = Append(states, result[1])
      /\ maps' = result[2]

\* createCachedBeaconState of a state read back from the database, as after a restart
LoadState(p) ==
  LET m == SyncPubkeys(states[p])
      s == states[p]
  IN  /\ Len(maps) < MaxMaps
      /\ maps' = Append(maps, m)
      /\ states' = [states EXCEPT ![p] = [s EXCEPT !.map = Len(maps) + 1, !.ctx = CreateEpochContext(s),
                                                   !.indexed = Indexed(s, m)]]

Next ==
  \/ \E p \in 1..Len(states), gap \in Gaps, deposit \in BOOLEAN : ImportBlock(p, gap, deposit)
  \/ \E p \in 1..Len(states) : LoadState(p)

Spec == Init /\ [][Next]_vars

-----------------------------------------------------------------------------
\* The keys a state's validators must have: the valid deposits so far, without repetitions.
KeysOf(n) ==
  FoldLeft(LAMBDA seq, k : IF Contains(seq, k) THEN seq ELSE Append(seq, k),
           GenesisKeys, SubSeq(DepositKeys, 1, n))

\* Whatever forks have been processed before, and in whatever order, a deposit makes a validator
\* of a new key and only of a new key, and the shared caches resolve every validator of every state.
PubkeysResolve ==
  \A b \in 1..Len(states) :
    LET s == states[b] m == maps[s.map]
    IN  /\ [i \in 1..Len(s.vals) |-> s.vals[i].key] = KeysOf(s.deposits)
        /\ \A i \in 1..Len(s.vals) : m.index[s.vals[i].key] = i /\ m.key[i] = s.vals[i].key

\* What is cached beside a state is what a fresh load of the same state would compute: the three
\* shufflings with their seeds, and the indices of both sync committees.
CachesAsLoaded ==
  \A b \in 1..Len(states) :
    LET s == states[b]
    IN  s.ctx = CreateEpochContext(s) /\ s.indexed = Indexed(s, SyncPubkeys(s))

\* The ancestor of block b that was the head of its chain at a slot.
Ancestor[b \in 0..MaxStates, slot \in 0..MaxStates * 8] ==
  IF b <= 1 \/ states[b].slot <= slot THEN b ELSE Ancestor[states[b].parent, slot]

\* A block root read from the ring, within the window the assertion of getBlockRootAtSlot allows,
\* is the root of the block that was latest at that slot on the state's own chain.
RootsAreAncestors ==
  \A b \in 1..Len(states) : \A slot \in 0..states[b].slot - 1 :
    LET s == states[b]
    IN  s.slot <= slot + HistoricalRoots => s.roots[slot % HistoricalRoots] = Ancestor[b, slot]
=============================================================================
