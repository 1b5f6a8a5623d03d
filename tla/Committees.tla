----------------------------- MODULE Committees -----------------------------
(***************************************************************************)
(* The committees of an epoch: the in-place list shuffle of                 *)
(* util/shuffle.ts, the slicing of epochShuffling.ts, the lookups of        *)
(* EpochContext, and the bit fields of util/aggregationBits.ts that name    *)
(* the members that voted.  Lists and bit fields are functions from 0, as   *)
(* arrays are.  The hash is external: each round takes a pivot and a bit    *)
(* for every position as they come.  A byte has BYTE_BITS bits and a hash   *)
(* HASH_BITS, so that short lists cross both boundaries.                    *)
(***************************************************************************)
EXTENDS Integers, FiniteSets, SequencesExt

CONSTANTS
  ActiveSets,               \* the sets of active validator indices tried
  SHUFFLE_ROUND_COUNT,
  BYTE_BITS,                \* 8 in the code
  HASH_BITS,                \* 256 in the code, a multiple of BYTE_BITS
  SLOTS_PER_EPOCH,
  MAX_COMMITTEES_PER_SLOT,
  TARGET_COMMITTEE_SIZE

VARIABLES
  activeIndices,  \* the active indices in registry order
  shuffling,      \* the copy that unshuffleList works on in place
  round,          \* the round unshuffleList does next, -1 after the last
  committees,     \* the committees by slot and index, <<>> until sliced
  rounds,         \* what the seed's hashes say: round -> its pivot and bits
  attestation     \* the last attestation looked at, or NoAttestation

vars == <<activeIndices, shuffling, committees, round, rounds, attestation>>

NoAttestation == [slot |-> -1]

Indices(n) == 0 .. n - 1
Length(list) == Cardinality(DOMAIN list)

\* A set of indices as the zero-based list in ascending order.
Listed(S) ==
  LET s == SetToSortSeq(S, LAMBDA a, b : a < b)
  IN  [i \in Indices(Len(s)) |-> s[i + 1]]

-----------------------------------------------------------------------------
(* util/shuffle.ts, one round at a time.  The loops hold on to the hash of  *)
(* the last chunk they entered and to the last byte they took from it.      *)

\* The bit at position j of the byte held.
HeldBit(bits, byte, j) ==
  LET p == byte.chunk * HASH_BITS + byte.at * BYTE_BITS + (j % BYTE_BITS)
  IN  p \in DOMAIN bits /\ bits[p]

Swapped(input, i, j) == [input EXCEPT ![i] = input[j], ![j] = input[i]]

\* Mutant: a new hash is taken, but the byte of the old one is kept.
StepKeepsByte(bits, l, i, j) ==
  LET source == IF j % HASH_BITS = HASH_BITS - 1 THEN j \div HASH_BITS
                ELSE l.source
  IN  [l EXCEPT !.source = source,
                !.input = IF HeldBit(bits, l.byteV, j)
                          THEN Swapped(l.input, i, j) ELSE l.input]

\* step(): the pair i, j with j the larger, on the loop's state l.
Step(bits, l, i, j) ==
  LET source == IF j % HASH_BITS = HASH_BITS - 1 THEN j \div HASH_BITS
                ELSE l.source
      byteV == IF j % BYTE_BITS = BYTE_BITS - 1
               THEN [chunk |-> source, at |-> (j % HASH_BITS) \div BYTE_BITS]
               ELSE l.byteV
  IN  [input |-> IF HeldBit(bits, byteV, j)
                 THEN Swapped(l.input, i, j) ELSE l.input,
       source |-> source, byteV |-> byteV]

\* One of the two loops: i runs up from first to below mirror, j down from last.
MirrorLoop(bits, input, first, mirror, last) ==
  LET entered == [input |-> input, source |-> last \div HASH_BITS,
                  byteV |-> [chunk |-> last \div HASH_BITS,
                             at |-> (last % HASH_BITS) \div BYTE_BITS]]
      Pair(l, k) == Step(bits, l, first + k, last - k)
  IN  FoldLeft(Pair, entered,
               [k \in 1 .. (mirror - first) |-> k - 1]).input

\* A round: the part up to the pivot, then the part after it.
InnerShuffleRound(input, pivot, bits) ==
  LET listSize == Length(input)
      left == MirrorLoop(bits, input, 0, (pivot + 1) \div 2, pivot)
  IN  MirrorLoop(bits, left, pivot + 1, (pivot + listSize + 1) \div 2,
                 listSize - 1)

\* computeShuffledIndex: where one index goes, round by round.
ComputeShuffledIndex(index, indexCount) ==
  LET Permute(permuted, i) ==
        LET flip == (rounds[i].pivot + indexCount - permuted) % indexCount
            position == IF permuted > flip THEN permuted ELSE flip
        IN  IF rounds[i].bits[position] THEN flip ELSE permuted
  IN  FoldLeft(Permute, index, [k \in 1 .. SHUFFLE_ROUND_COUNT |-> k - 1])

-----------------------------------------------------------------------------
(* allForks/util/epochShuffling.ts                                         *)

ComputeCommitteeCount(activeValidatorCount) ==
  LET perSlot == (activeValidatorCount \div SLOTS_PER_EPOCH)
                   \div TARGET_COMMITTEE_SIZE
      capped == IF perSlot < MAX_COMMITTEES_PER_SLOT THEN perSlot
                ELSE MAX_COMMITTEES_PER_SLOT
  IN  IF capped < 1 THEN 1 ELSE capped

CommitteesPerSlot == ComputeCommitteeCount(Length(activeIndices))

\* sliceCommittee
SliceCommittee(list, slot, committeeIndex) ==
  LET count == Length(activeIndices)
      committeeCount == CommitteesPerSlot * SLOTS_PER_EPOCH
      index == slot * CommitteesPerSlot + committeeIndex
      startOffset == (count * index) \div committeeCount
      endOffset == (count * (index + 1)) \div committeeCount
  IN  [k \in Indices(endOffset - startOffset) |-> list[startOffset + k]]

\* The committees are sliced once the list is shuffled.
SlicedCommittees(list) ==
  [s \in Indices(SLOTS_PER_EPOCH) |->
     [i \in Indices(CommitteesPerSlot) |-> SliceCommittee(list, s, i)]]

\* computeEpochShuffling begins: the active validators are listed and copied.
ComputeEpochShuffling ==
  /\ activeIndices \in {Listed(S) : S \in ActiveSets}
  /\ shuffling = activeIndices
  /\ committees = <<>>

-----------------------------------------------------------------------------
(* util/aggregationBits.ts: a tree-backed bit field is read as bytes.       *)

\* bitsToUint8Array: the bytes of a bit field, the first bit the lowest.
BitsToUint8Array(bits) ==
  LET n == Length(bits)
      BitValue(p) == IF p \in DOMAIN bits /\ bits[p] THEN 1 ELSE 0
  IN  [b \in Indices((n + BYTE_BITS - 1) \div BYTE_BITS) |->
         FoldLeft(LAMBDA acc, k : 2 * acc + BitValue(b * BYTE_BITS + k), 0,
                  [k \in 1 .. BYTE_BITS |-> BYTE_BITS - k])]

\* getUint8ByteToBitBooleanArray: the bits of a byte's value, lowest first.
GetUint8ByteToBitBooleanArray(byte) ==
  [j \in Indices(BYTE_BITS) |-> (byte \div (2 ^ j)) % 2 = 1]

\* Where the bytes of a bit field have a bit set.
SetPositions(bytes) ==
  {p \in Indices(Length(bytes) * BYTE_BITS) :
     GetUint8ByteToBitBooleanArray(bytes[p \div BYTE_BITS])[p % BYTE_BITS]}

\* zipIndexesTreeBacked: the members whose bit is set.
ZipIndexesTreeBacked(indexes, bits) ==
  {indexes[p] : p \in DOMAIN indexes \cap SetPositions(BitsToUint8Array(bits))}

\* zipIndexes of a bit field that is a plain array
ZipIndexes(indexes, bits) == {indexes[p] : p \in {q \in DOMAIN indexes : bits[q]}}

\* getSingleBitIndex, which throws unless exactly one bit is set.
GetSingleBitIndex(bits) ==
  LET positions == SetPositions(BitsToUint8Array(bits))
  IN  IF Cardinality(positions) = 1 THEN CHOOSE p \in positions : TRUE ELSE -1

-----------------------------------------------------------------------------
(* The lookups of EpochContext, for the slots of this epoch.                *)

EpochSlots == Indices(SLOTS_PER_EPOCH)
CommitteeIndices == Indices(CommitteesPerSlot)

\* getBeaconCommittee
GetBeaconCommittee(slot, index) == committees[slot][index]

\* getIndexedAttestation: the sorted indices of the members that attested.
GetIndexedAttestation(slot, index, bits) ==
  Listed(ZipIndexesTreeBacked(GetBeaconCommittee(slot, index), bits))

\* getCommitteeAssignments: a duty for each place a requested validator has.
GetCommitteeAssignments(requested) ==
  LET duty(s, i, j) ==
        [validatorIndex |-> GetBeaconCommittee(s, i)[j], slot |-> s,
         committeeIndex |-> i, validatorCommitteeIndex |-> j,
         committeeLength |-> Length(GetBeaconCommittee(s, i)),
         committeesAtSlot |-> CommitteesPerSlot]
  IN  {duty(t[1], t[2], t[3]) :
         t \in {t \in EpochSlots \X CommitteeIndices \X Indices(Length(activeIndices)) :
                 /\ t[3] \in DOMAIN GetBeaconCommittee(t[1], t[2])
                 /\ GetBeaconCommittee(t[1], t[2])[t[3]] \in requested}}

\* getCommitteeAssignment: the first committee, by slot and index, it is in.
GetCommitteeAssignment(validatorIndex) ==
  LET places == {p \in EpochSlots \X CommitteeIndices :
                   \E j \in DOMAIN GetBeaconCommittee(p[1], p[2]) :
                     GetBeaconCommittee(p[1], p[2])[j] = validatorIndex}
      first == CHOOSE p \in places :
                 \A q \in places : p[1] * CommitteesPerSlot + p[2]
                                     <= q[1] * CommitteesPerSlot + q[2]
  IN  IF places = {} THEN NoAttestation
      ELSE [slot |-> first[1], committeeIndex |-> first[2]]

-----------------------------------------------------------------------------
Init ==
  /\ ComputeEpochShuffling
  /\ round = SHUFFLE_ROUND_COUNT - 1
  /\ rounds = <<>>
  /\ attestation = NoAttestation

\* The next round of unshuffleList, which starts at the last one.
UnshuffleRound ==
  /\ round >= 0
  /\ LET n == Length(activeIndices) IN
     \E pivot \in Indices(IF n = 0 THEN 1 ELSE n), bits \in [Indices(n) -> BOOLEAN] :
       /\ shuffling' = IF n <= 1 THEN shuffling
                       ELSE InnerShuffleRound(shuffling, pivot, bits)
       /\ committees' = IF round = 0 THEN SlicedCommittees(shuffling') ELSE committees
       /\ rounds' = [r \in round .. (SHUFFLE_ROUND_COUNT - 1) |->
                       IF r = round THEN [pivot |-> pivot, bits |-> bits]
                       ELSE rounds[r]]
  /\ round' = round - 1
  /\ UNCHANGED <<activeIndices, attestation>>

\* A validator looks up its duty, sets its bit and the node reads it back.
Attest ==
  /\ round < 0 /\ attestation = NoAttestation
  /\ \E duty \in GetCommitteeAssignments({activeIndices[k] : k \in DOMAIN activeIndices}) :
       LET bits == [p \in Indices(duty.committeeLength) |->
                      p = duty.validatorCommitteeIndex]
       IN  attestation' = [duty |-> duty, single |-> GetSingleBitIndex(bits),
                           slot |-> duty.slot,
                           indexed |-> GetIndexedAttestation(duty.slot, duty.committeeIndex, bits)]
  /\ UNCHANGED <<activeIndices, shuffling, committees, round, rounds>>

Next == UnshuffleRound \/ Attest

Spec == Init /\ [][Next]_vars

-----------------------------------------------------------------------------
(* Properties                                                               *)

\* The in-place shuffle, with its cached hash and byte, puts at every place
\* the validator that computeShuffledIndex sends there: the list every node
\* computes is the specification's, whatever the hashes are.
ShuffleIsSpecified ==
  round < 0 =>
    \A i \in DOMAIN activeIndices :
      shuffling[i] = activeIndices[IF Length(activeIndices) <= 1 THEN i
                                   ELSE ComputeShuffledIndex(i, Length(activeIndices))]

\* Every active validator has exactly one duty in the epoch, both lookups of
\* EpochContext agree on it, the bit that the duty names is read back as this
\* validator and no other, and a bit field names the same members whether it
\* is a tree or an array.
DutiesAreExact ==
  /\ round < 0 /\ attestation = NoAttestation =>   \* Attest leaves the committees alone
       /\ \A k \in DOMAIN activeIndices :
            LET v == activeIndices[k]
                duties == GetCommitteeAssignments({v})
            IN  /\ Cardinality(duties) = 1
                /\ \A d \in duties :
                     GetCommitteeAssignment(v) = [slot |-> d.slot,
                                                  committeeIndex |-> d.committeeIndex]
       /\ \A s \in EpochSlots : \A i \in CommitteeIndices :
            \A bits \in [DOMAIN GetBeaconCommittee(s, i) -> BOOLEAN] :
              ZipIndexesTreeBacked(GetBeaconCommittee(s, i), bits)
                = ZipIndexes(GetBeaconCommittee(s, i), bits)
  /\ attestation # NoAttestation =>
       /\ attestation.indexed = (0 :> attestation.duty.validatorIndex)
       /\ attestation.single = attestation.duty.validatorCommitteeIndex
=============================================================================
