----------------------------- MODULE SyncProofs -----------------------------
(***************************************************************************)
(* Proofs about syncing, for every number of peers, epochs, attempts and   *)
(* batches and every order of events.                                      *)
(***************************************************************************)
EXTENDS MCSync, FiniteSetTheorems, WellFoundedInduction, TLAPS

-----------------------------------------------------------------------------
(* Sets of naturals. *)

\* Every non-empty set of naturals has a least element.
LEMMA NatHasLeast ==
    ASSUME NEW T \in SUBSET Nat, T # {}
    PROVE  \E x \in T : \A y \in T : x <= y
<1>1. PICK x \in T : \A y \in T : <<y, x>> \notin OpToRel(<, Nat)
  BY NatLessThanWellFounded, WFMin
<1>2. \A y \in T : ~(y < x) BY <1>1 DEF OpToRel
<1> QED BY <1>2

\* Every non-empty finite set of naturals has a greatest element.
LEMMA FiniteHasGreatest ==
    ASSUME NEW S \in SUBSET Nat, IsFiniteSet(S), S # {}
    PROVE  \E x \in S : \A y \in S : y <= x
<1> DEFINE Bad == {n \in Nat : \E U \in SUBSET S : /\ U # {} /\ Cardinality(U) = n
                                                   /\ ~\E x \in U : \A y \in U : y <= x}
<1> SUFFICES ASSUME Bad # {} PROVE FALSE
  <2>1. Cardinality(S) \in Nat BY FS_CardinalityType
  <2> QED BY <2>1
<1>1. PICK n \in Bad : \A k \in Bad : n <= k BY NatHasLeast
<1>2. PICK U \in SUBSET S : /\ U # {} /\ Cardinality(U) = n
                            /\ ~\E x \in U : \A y \in U : y <= x
  OBVIOUS
<1>3. PICK x \in U : TRUE BY <1>2
<1>4. IsFiniteSet(U) BY FS_Subset
<1> DEFINE V == U \ {x}
<1>5. IsFiniteSet(V) /\ Cardinality(V) = n - 1 BY <1>2, <1>3, <1>4, FS_RemoveElement
<1>6. Cardinality(V) \in Nat BY <1>5, FS_CardinalityType
<1>7. CASE V = {} BY <1>2, <1>3, <1>7
<1>8. CASE V # {}
  <2>1. n - 1 \notin Bad BY <1>1, <1>5, <1>6
  <2>2. PICK m \in V : \A y \in V : y <= m BY <1>5, <1>6, <1>8, <2>1
  <2>3. CASE m <= x BY <1>2, <1>3, <2>2, <2>3
  <2>4. CASE ~(m <= x) BY <1>2, <1>3, <2>2, <2>4
  <2> QED BY <2>3, <2>4
<1> QED BY <1>7, <1>8

\* Max and Min, for sets that have one.
LEMMA GreatestIsMax ==
    ASSUME NEW S \in SUBSET Nat, IsFiniteSet(S), S # {}
    PROVE  Max(S) \in S /\ \A y \in S : y <= Max(S)
BY FiniteHasGreatest DEF Max

LEMMA LeastIsMin ==
    ASSUME NEW S \in SUBSET Nat, S # {}
    PROVE  Min(S) \in S /\ \A y \in S : Min(S) <= y
BY NatHasLeast DEF Min

-----------------------------------------------------------------------------
(* The chain of batches. *)

ChainStatuses == {"Stopped", "Syncing", "Synced", "Error"}
BlockSets == {"full", "short", "empty", "bad", None}
BatchType ==
    [status : BatchStatus, peer : Peers \union {None}, blocks : BlockSets,
     failedDownloadAttempts : Seq(Peers \union {None}),
     failedProcessingAttempts : Seq([peer : Peers \union {None}, blocks : BlockSets])]
PeerMaps == UNION {[P -> Targets] : P \in SUBSET Peers}
BatchMaps == UNION {[E -> BatchType] : E \in {E \in SUBSET Nat : IsFiniteSet(E)}}
ChainType ==
    [status : ChainStatuses, startEpoch : Nat, validatedEpochs : Nat, target : Targets \union {NoTarget},
     peerset : PeerMaps, batches : BatchMaps]

\* Batches lie one after the other from the start of the chain.
Linked(ch) ==
    /\ \A e \in Epochs(ch) : e = ch.startEpoch \/ e - EPOCHS_PER_BATCH \in Epochs(ch)
    /\ \A e \in Epochs(ch) : e >= ch.startEpoch
    /\ \A e, f \in Epochs(ch) : e < f => e + EPOCHS_PER_BATCH <= f

\* A typed chain: its batches are a function on a finite set of epochs.
LEMMA ChainFacts ==
    ASSUME NEW ch \in ChainType
    PROVE  /\ Epochs(ch) \in SUBSET Nat /\ IsFiniteSet(Epochs(ch))
           /\ ch.batches \in [Epochs(ch) -> BatchType]
           /\ ch.peerset \in [DOMAIN ch.peerset -> Targets]
           /\ DOMAIN ch.peerset \in SUBSET Peers
<1>1. PICK E \in {E \in SUBSET Nat : IsFiniteSet(E)} : ch.batches \in [E -> BatchType]
  BY DEF ChainType, BatchMaps
<1>2. PICK P \in SUBSET Peers : ch.peerset \in [P -> Targets] BY DEF ChainType, PeerMaps
<1> QED BY <1>1, <1>2 DEF Epochs

\* toBeDownloadedStartEpoch is the start of the chain, or follows its last batch.
LEMMA NextEpochFacts ==
    ASSUME NEW ch \in ChainType, Linked(ch)
    PROVE  /\ ToBeDownloadedStartEpoch(ch) \in Nat
           /\ ToBeDownloadedStartEpoch(ch) >= ch.startEpoch
           /\ \/ ToBeDownloadedStartEpoch(ch) = ch.startEpoch
              \/ ToBeDownloadedStartEpoch(ch) - EPOCHS_PER_BATCH \in Epochs(ch)
           /\ \A e \in Epochs(ch) : e + EPOCHS_PER_BATCH <= ToBeDownloadedStartEpoch(ch)
<1>1. CASE Epochs(ch) = {} BY <1>1 DEF ToBeDownloadedStartEpoch, ChainType
<1>2. CASE Epochs(ch) # {}
  <2>1. Max(Epochs(ch)) \in Epochs(ch) /\ \A y \in Epochs(ch) : y <= Max(Epochs(ch))
    BY <1>2, ChainFacts, GreatestIsMax
  <2>2. Epochs(ch) \subseteq Nat /\ EPOCHS_PER_BATCH \in Nat /\ ch.startEpoch \in Nat
    BY ChainFacts, EpochsAssumption DEF ChainType
  <2>3. ToBeDownloadedStartEpoch(ch) = Max(Epochs(ch)) + EPOCHS_PER_BATCH
    BY <1>2 DEF ToBeDownloadedStartEpoch
  <2> QED BY <2>1, <2>2, <2>3 DEF Linked
<1> QED BY <1>1, <1>2

\* includeNextBatch adds a run of epochs that goes on where the batches end.
LEMMA IncludedFacts ==
    ASSUME NEW ch \in ChainType, Linked(ch), NEW n \in Nat
    PROVE  LET A == IncludedEpochs(ch, n)
           IN  /\ A \in SUBSET Nat /\ IsFiniteSet(A)
               /\ \A e \in A : \/ e = ToBeDownloadedStartEpoch(ch)
                               \/ e - EPOCHS_PER_BATCH \in A
               /\ \A e \in A : e >= ToBeDownloadedStartEpoch(ch)
               /\ \A e, f \in A : e < f => e + EPOCHS_PER_BATCH <= f
<1> DEFINE first == ToBeDownloadedStartEpoch(ch)
           E == EPOCHS_PER_BATCH
           epoch(k) == first + k * E
           buffered == Cardinality(WithStatus(ch, {"Downloading", "AwaitingProcessing"}))
           ok(k) == /\ buffered + k <= BATCH_BUFFER_SIZE
                    /\ ch.target # NoTarget => ComputeStartSlotAtEpoch(epoch(k)) + 1 <= ch.target
                    /\ epoch(k) \notin Epochs(ch)
           A == IncludedEpochs(ch, n)
<1>1. A = {epoch(k) : k \in {k \in 0..(n - 1) : ok(k)}} BY DEF IncludedEpochs
<1>2. /\ first \in Nat /\ E \in Nat \ {0} /\ SLOTS_PER_EPOCH \in Nat \ {0}
      /\ ch.target # NoTarget => ch.target \in Nat
      /\ \A e \in Epochs(ch) : e < first /\ e \in Nat
  <2>1. E \in Nat \ {0} /\ SLOTS_PER_EPOCH \in Nat \ {0} /\ Targets \subseteq Nat BY EpochsAssumption
  <2>2. Epochs(ch) \subseteq Nat BY ChainFacts
  <2>3. first \in Nat /\ \A e \in Epochs(ch) : e + E <= first BY NextEpochFacts
  <2>4. ch.target # NoTarget => ch.target \in Nat BY <2>1 DEF ChainType
  <2> HIDE DEF first, E
  <2> QED BY <2>1, <2>2, <2>3, <2>4
<1>3. buffered \in Nat
  <2>1. IsFiniteSet(WithStatus(ch, {"Downloading", "AwaitingProcessing"}))
    BY ChainFacts, FS_Subset DEF WithStatus
  <2> QED BY <2>1, FS_CardinalityType
<1> HIDE DEF first, E, buffered, A
<1>4. \A k \in Nat : epoch(k) \in Nat /\ epoch(k) >= first BY <1>2
<1>5. \A j, k \in Nat : j < k => epoch(j) + E <= epoch(k)
  <2> SUFFICES ASSUME NEW j \in Nat, NEW k \in Nat, j < k PROVE j * E + E <= k * E
    BY <1>2
  <2>1. (k - j - 1) * E >= 0 BY <1>2
  <2>2. (k - j - 1) * E = k * E - j * E - E BY <1>2
  <2> QED BY <1>2, <2>1, <2>2
<1>6. \A k \in Nat : k > 0 => epoch(k) - E = epoch(k - 1) BY <1>2
<1>7. \A k \in Nat : k > 0 /\ ok(k) => ok(k - 1)
  <2> SUFFICES ASSUME NEW k \in Nat, k > 0, ok(k) PROVE ok(k - 1) OBVIOUS
  <2>0. k - 1 \in Nat /\ BATCH_BUFFER_SIZE \in Nat BY EpochsAssumption
  <2>1. epoch(k - 1) \in Nat /\ epoch(k) \in Nat /\ epoch(k - 1) <= epoch(k)
    BY <1>2, <1>4, <1>6, <2>0
  <2>2. epoch(k - 1) \notin Epochs(ch) BY <1>2, <1>4, <2>0, <2>1
  <2>3. ComputeStartSlotAtEpoch(epoch(k - 1)) <= ComputeStartSlotAtEpoch(epoch(k))
    <3> DEFINE x == epoch(k - 1)
               y == epoch(k)
    <3>1. x \in Nat /\ y \in Nat /\ x <= y BY <2>1
    <3> HIDE DEF x, y
    <3>2. x * SLOTS_PER_EPOCH <= y * SLOTS_PER_EPOCH BY <1>2, <3>1
    <3> QED BY <3>2 DEF x, y, ComputeStartSlotAtEpoch
  <2>4. /\ ComputeStartSlotAtEpoch(epoch(k - 1)) \in Nat
        /\ ComputeStartSlotAtEpoch(epoch(k)) \in Nat
    BY <1>2, <2>1 DEF ComputeStartSlotAtEpoch
  <2> HIDE DEF epoch
  <2> QED BY <1>2, <1>3, <2>0, <2>2, <2>3, <2>4
<1> HIDE DEF ok
<1>8. A \in SUBSET Nat BY <1>1, <1>4
<1>9. \A e \in A : e >= first BY <1>1, <1>4
<1>10. \A e \in A : e = first \/ e - E \in A
  <2> SUFFICES ASSUME NEW k \in 0..(n - 1), ok(k) PROVE epoch(k) = first \/ epoch(k) - E \in A
    BY <1>1
  <2>1. CASE k = 0 BY <1>2, <2>1
  <2>2. CASE k > 0
    <3>1. k - 1 \in 0..(n - 1) /\ ok(k - 1) BY <1>7, <2>2
    <3>2. epoch(k - 1) \in A BY <1>1, <3>1
    <3> QED BY <1>6, <2>2, <3>2
  <2> QED BY <2>1, <2>2
<1>11. \A e, f \in A : e < f => e + E <= f
  <2> SUFFICES ASSUME NEW j \in 0..(n - 1), NEW k \in 0..(n - 1), epoch(j) < epoch(k)
               PROVE  epoch(j) + E <= epoch(k)
    BY <1>1
  <2>1. j < k
    <3> SUFFICES ASSUME ~(j < k) PROVE FALSE OBVIOUS
    <3>1. k = j \/ epoch(k) + E <= epoch(j) BY <1>5
    <3> HIDE DEF epoch
    <3> QED BY <1>2, <1>4, <3>1
  <2> QED BY <1>5, <2>1
<1>12. IsFiniteSet(A)
  <2>1. \A e \in A : e <= epoch(n)
    <3> SUFFICES ASSUME NEW k \in 0..(n - 1) PROVE epoch(k) <= epoch(n) BY <1>1
    <3>1. epoch(k) + E <= epoch(n) BY <1>5
    <3> HIDE DEF epoch
    <3> QED BY <1>2, <1>4, <3>1
  <2>2. epoch(n) \in Nat BY <1>4
  <2> QED BY <1>8, <2>1, <2>2, FS_BoundedSetOfNaturals
<1> QED BY <1>8, <1>9, <1>10, <1>11, <1>12 DEF A, first, E

\* validateBatchesStatus without counting: what precedes a batch that is, or has been,
\* processed has been processed.
Ranked(ch) ==
    \A e, f \in Epochs(ch) : e < f /\ ch.batches[f].status \in {"AwaitingValidation", "Processing"} =>
        ch.batches[e].status = "AwaitingValidation"

\* Only epochs with blocks have their blocks; a stopped chain is at its start.
BlocksAreServed(ch) == \A e \in Epochs(ch) : ch.batches[e].blocks = "full" => e \in WithBlocks
StoppedIsEmpty(ch) == ch.status = "Stopped" => Epochs(ch) = {} /\ ch.startEpoch = 0

ChainOK(ch) == ch \in ChainType /\ Linked(ch) /\ BlocksAreServed(ch) /\ StoppedIsEmpty(ch)

\* RequestsMatchBatches for a chain and a set of requests.
Matched(ch, reqs) ==
    /\ \A r \in reqs : /\ r.epoch \in Epochs(ch)
                       /\ ch.batches[r.epoch].status = "Downloading"
                       /\ ch.batches[r.epoch].peer = r.peer
    /\ \A e \in WithStatus(ch, {"Downloading"}) :
          \/ \E r \in reqs : r.epoch = e
          \/ Len(ch.batches[e].failedDownloadAttempts) > MAX_BATCH_DOWNLOAD_ATTEMPTS

Requests == [epoch : Nat, peer : Peers]

\* What requestBatches may do to a chain: send batches that await download, and add
\* batches that are sent at once.
Requested(ch, new) ==
    /\ new \in ChainType /\ Linked(new)
    /\ new.status = ch.status /\ new.startEpoch = ch.startEpoch
    /\ new.target = ch.target /\ new.peerset = ch.peerset
    /\ Epochs(ch) \subseteq Epochs(new)
    /\ \A e \in Epochs(ch) : ch.batches[e].status # "AwaitingDownload" => new.batches[e] = ch.batches[e]
    /\ \A e \in Epochs(ch) : ch.batches[e].status = "AwaitingDownload" =>
          /\ new.batches[e].status \in {"AwaitingDownload", "Downloading"}
          /\ new.batches[e].blocks = ch.batches[e].blocks
          /\ new.batches[e].status = "Downloading" => new.batches[e].peer \in Peers
    /\ \A e \in Epochs(new) \ Epochs(ch) :
          /\ new.batches[e].status = "Downloading" /\ new.batches[e].blocks = None
          /\ new.batches[e].peer \in Peers
          /\ \A k \in Epochs(ch) : k < e
    /\ ch.status # "Syncing" => new = ch

LEMMA RequestBatchesLemma ==
    ASSUME NEW ch \in ChainType, Linked(ch), NEW new \in RequestBatches(ch)
    PROVE  Requested(ch, new)
<1>1. CASE ch.status # "Syncing" \/ DOMAIN ch.peerset = {}
  <2>1. new = ch BY <1>1 DEF RequestBatches
  <2> QED BY <2>1 DEF Requested
<1>2. CASE ch.status = "Syncing" /\ DOMAIN ch.peerset # {}
  <2> DEFINE waiting == WithStatus(ch, {"AwaitingDownload"})
             idle == IdlePeers(ch)
  <2>1. PICK f \in [waiting -> DOMAIN ch.peerset] :
          \E g \in Injection(IncludedEpochs(RetryBatches(ch, f), Cardinality(idle)), idle) :
            new = AddBatches(RetryBatches(ch, f), g)
    BY <1>2 DEF RequestBatches
  <2> DEFINE d == RetryBatches(ch, f)
             A == IncludedEpochs(d, Cardinality(idle))
  <2>2. PICK g \in [A -> idle] : new = AddBatches(d, g)
    BY <2>1 DEF Injection
  <2>3. idle \subseteq DOMAIN ch.peerset /\ idle \subseteq Peers /\ Cardinality(idle) \in Nat
    <3>1. idle \subseteq DOMAIN ch.peerset BY DEF IdlePeers
    <3>2. idle \in SUBSET Peers BY <3>1, ChainFacts
    <3> QED BY <3>1, <3>2, PeersAssumption, FS_Subset, FS_CardinalityType
  <2>4. d.batches = [e \in Epochs(ch) |->
                       IF e \in waiting THEN StartDownloading(ch.batches[e], f[e]) ELSE ch.batches[e]]
    BY DEF ChainType, RetryBatches
  <2>5. Epochs(d) = Epochs(ch) BY <2>4 DEF Epochs
  <2>6. \A e \in Epochs(ch) : d.batches[e] \in BatchType
    <3> SUFFICES ASSUME NEW e \in Epochs(ch) PROVE d.batches[e] \in BatchType OBVIOUS
    <3>1. ch.batches[e] \in BatchType BY ChainFacts
    <3>2. e \in waiting => f[e] \in Peers BY ChainFacts
    <3>3. e \in waiting => StartDownloading(ch.batches[e], f[e]) \in BatchType
      BY <3>1, <3>2 DEF StartDownloading, BatchType, BatchStatus
    <3> HIDE DEF waiting, d
    <3> QED BY <2>4, <3>1, <3>3
  <2>7. d.batches \in BatchMaps
    <3>1. d.batches \in [Epochs(ch) -> BatchType] BY <2>4, <2>6
    <3> QED BY <3>1, ChainFacts DEF BatchMaps
  <2>8. /\ d \in ChainType /\ d.status = ch.status /\ d.startEpoch = ch.startEpoch /\ d.target = ch.target
        /\ d.peerset = ch.peerset
    BY <2>7 DEF ChainType, RetryBatches
  <2>9. Linked(d) BY <2>5, <2>8 DEF Linked
  <2> HIDE DEF d
  <2> DEFINE E == EPOCHS_PER_BATCH
             next == ToBeDownloadedStartEpoch(d)
  <2>10. /\ A \in SUBSET Nat /\ IsFiniteSet(A)
         /\ \A e \in A : e = next \/ e - E \in A
         /\ \A e \in A : e >= next
         /\ \A e, k \in A : e < k => e + E <= k
    BY <2>3, <2>8, <2>9, IncludedFacts DEF d
  <2>11. /\ next \in Nat /\ next >= ch.startEpoch
         /\ next = ch.startEpoch \/ next - E \in Epochs(ch)
         /\ \A e \in Epochs(ch) : e + E <= next
    BY <2>5, <2>8, <2>9, NextEpochFacts
  <2> HIDE DEF A, next
  <2>12. E \in Nat \ {0} /\ Epochs(ch) \in SUBSET Nat /\ ch.startEpoch \in Nat
    BY EpochsAssumption, ChainFacts DEF ChainType
  <2> HIDE DEF E
  <2>13. \A e \in A, k \in Epochs(ch) : k < e /\ k + E <= e BY <2>10, <2>11, <2>12
  <2>14. new.batches = [e \in Epochs(ch) \union A |->
                          IF e \in A THEN StartDownloading(NewBatch, g[e]) ELSE d.batches[e]]
    BY <2>2, <2>5, <2>8 DEF ChainType, AddBatches
  <2>15. Epochs(new) = Epochs(ch) \union A BY <2>14 DEF Epochs
  <2>16. /\ new.status = ch.status /\ new.startEpoch = ch.startEpoch /\ new.target = ch.target
         /\ new.peerset = ch.peerset
    BY <2>2, <2>8 DEF ChainType, AddBatches
  <2>17. \A e \in A : g[e] \in Peers BY <2>2, <2>3
  <2>18. NewBatch \in BatchType /\ NewBatch.blocks = None
    BY DEF NewBatch, BatchType, BatchStatus, BlockSets
  <2>19. \A e \in A : /\ StartDownloading(NewBatch, g[e]) \in BatchType
                      /\ StartDownloading(NewBatch, g[e]).status = "Downloading"
                      /\ StartDownloading(NewBatch, g[e]).peer = g[e]
                      /\ StartDownloading(NewBatch, g[e]).blocks = None
    BY <2>17, <2>18 DEF StartDownloading, BatchType, BatchStatus
  <2>20. new \in ChainType
    <3>1. new.batches \in [Epochs(new) -> BatchType] BY <2>6, <2>14, <2>15, <2>19
    <3>2. Epochs(new) \in SUBSET Nat BY <2>10, <2>12, <2>15
    <3>3. IsFiniteSet(Epochs(new))
      <4>1. IsFiniteSet(Epochs(ch)) BY ChainFacts
      <4>2. IsFiniteSet(A) BY <2>10
      <4>3. IsFiniteSet(Epochs(ch) \cup A) BY <4>1, <4>2, FS_Union
      <4> QED BY <2>15, <4>3
    <3>4. new.batches \in BatchMaps BY <3>1, <3>2, <3>3 DEF BatchMaps
    <3> QED BY <2>2, <2>8, <3>4 DEF ChainType, AddBatches
  <2>21. Linked(new)
    <3>1. \A e \in Epochs(new) : e = new.startEpoch \/ e - E \in Epochs(new)
      <4>1. ASSUME NEW e \in Epochs(ch) PROVE e = new.startEpoch \/ e - E \in Epochs(new)
        BY <2>15, <2>16 DEF Linked, E
      <4>2. ASSUME NEW e \in A PROVE e = new.startEpoch \/ e - E \in Epochs(new)
        BY <2>10, <2>11, <2>15, <2>16
      <4> QED BY <2>15, <4>1, <4>2
    <3>2. \A e \in Epochs(new) : e >= new.startEpoch
      <4>1. \A e \in Epochs(ch) : e >= ch.startEpoch BY DEF Linked
      <4>2. \A e \in A : e >= ch.startEpoch BY <2>10, <2>11, <2>12
      <4> QED BY <2>15, <2>16, <4>1, <4>2
    <3>3. \A e, k \in Epochs(new) : e < k => e + E <= k
      <4>1. \A e, k \in Epochs(ch) : e < k => e + E <= k BY DEF Linked, E
      <4>2. \A e \in A, k \in Epochs(ch) : ~(e < k) BY <2>10, <2>12, <2>13
      <4> QED BY <2>10, <2>13, <2>15, <4>1, <4>2
    <3> QED BY <3>1, <3>2, <3>3 DEF Linked, E
  <2>22. \A e \in Epochs(ch) : e \notin A /\ new.batches[e] = d.batches[e]
    BY <2>12, <2>13, <2>14
  <2>23. \A e \in Epochs(ch) : ch.batches[e].status # "AwaitingDownload" => new.batches[e] = ch.batches[e]
    BY <2>4, <2>22 DEF WithStatus
  <2>24. \A e \in Epochs(ch) : ch.batches[e].status = "AwaitingDownload" =>
          /\ new.batches[e].status \in {"AwaitingDownload", "Downloading"}
          /\ new.batches[e].blocks = ch.batches[e].blocks
          /\ new.batches[e].status = "Downloading" => new.batches[e].peer \in Peers
    <3> SUFFICES ASSUME NEW e \in Epochs(ch), ch.batches[e].status = "AwaitingDownload"
                 PROVE  /\ new.batches[e].status = "Downloading"
                        /\ new.batches[e].blocks = ch.batches[e].blocks
                        /\ new.batches[e].peer \in Peers
      OBVIOUS
    <3>1. e \in waiting BY DEF WithStatus
    <3>2. f[e] \in Peers BY <3>1, ChainFacts
    <3>3. new.batches[e] = StartDownloading(ch.batches[e], f[e]) BY <2>4, <2>22, <3>1
    <3>4. ch.batches[e] \in BatchType BY ChainFacts
    <3> QED BY <3>2, <3>3, <3>4 DEF StartDownloading, BatchType
  <2>25. \A e \in Epochs(new) \ Epochs(ch) :
          /\ new.batches[e].status = "Downloading" /\ new.batches[e].blocks = None
          /\ new.batches[e].peer \in Peers
          /\ \A k \in Epochs(ch) : k < e
    BY <2>13, <2>14, <2>15, <2>17, <2>19
  <2> QED BY <1>2, <2>15, <2>16, <2>20, <2>21, <2>23, <2>24, <2>25 DEF Requested
<1> QED BY <1>1, <1>2

IsProcessing(ch) == WithStatus(ch, {"Processing"}) # {}

\* requestBatches keeps a chain in order, and every batch it sends has its request.
LEMMA RequestedKeeps ==
    ASSUME NEW ch, ChainOK(ch), NEW reqs \in SUBSET Requests, Matched(ch, reqs), NEW new, Requested(ch, new)
    PROVE  /\ ChainOK(new)
           /\ reqs \union Sent(ch, new) \in SUBSET Requests
           /\ Matched(new, reqs \union Sent(ch, new))
           /\ Ranked(ch) => Ranked(new)
           /\ IsProcessing(new) <=> IsProcessing(ch)
<1>1. /\ ch \in ChainType /\ new \in ChainType /\ Linked(new) /\ Epochs(ch) \subseteq Epochs(new)
      /\ Epochs(new) \subseteq Nat
  BY ChainFacts DEF ChainOK, Requested
<1>2. \A e \in Epochs(new) : \/ e \in Epochs(ch) /\ new.batches[e] = ch.batches[e]
                             \/ /\ new.batches[e].status \in {"AwaitingDownload", "Downloading"}
                                /\ e \in Epochs(ch) => ch.batches[e].status = "AwaitingDownload"
  BY DEF Requested
<1>3. ChainOK(new)
  <2>1. BlocksAreServed(new)
    <3> SUFFICES ASSUME NEW e \in Epochs(new), new.batches[e].blocks = "full" PROVE e \in WithBlocks
      BY DEF BlocksAreServed
    <3>1. e \in Epochs(ch) BY DEF Requested, None
    <3>2. ch.batches[e].blocks = "full" BY <3>1 DEF Requested
    <3> QED BY <3>1, <3>2 DEF ChainOK, BlocksAreServed
  <2>2. StoppedIsEmpty(new) BY DEF StoppedIsEmpty, ChainOK, Requested
  <2> QED BY <1>1, <2>1, <2>2 DEF ChainOK
<1>4. Sent(ch, new) \in SUBSET Requests
  <2> SUFFICES ASSUME NEW e \in WithStatus(new, {"Downloading"}), e \notin WithStatus(ch, {"Downloading"})
               PROVE  e \in Nat /\ new.batches[e].peer \in Peers
    BY DEF Sent, Requests
  <2>1. e \in Epochs(new) /\ new.batches[e].status = "Downloading" BY DEF WithStatus
  <2>2. CASE e \in Epochs(ch)
    <3>1. ch.batches[e].status = "AwaitingDownload" BY <1>2, <2>1, <2>2 DEF WithStatus
    <3> QED BY <1>1, <2>1, <2>2, <3>1 DEF Requested
  <2>3. CASE e \notin Epochs(ch) BY <1>1, <2>1, <2>3 DEF Requested
  <2> QED BY <2>2, <2>3
<1>5. Matched(new, reqs \union Sent(ch, new))
  <2>1. ASSUME NEW r \in reqs
        PROVE  /\ r.epoch \in Epochs(new) /\ new.batches[r.epoch].status = "Downloading"
               /\ new.batches[r.epoch].peer = r.peer
    <3>1. /\ r.epoch \in Epochs(ch) /\ ch.batches[r.epoch].status = "Downloading"
          /\ ch.batches[r.epoch].peer = r.peer
      BY DEF Matched
    <3> QED BY <3>1 DEF Requested
  <2>2. ASSUME NEW r \in Sent(ch, new)
        PROVE  /\ r.epoch \in Epochs(new) /\ new.batches[r.epoch].status = "Downloading"
               /\ new.batches[r.epoch].peer = r.peer
    BY DEF Sent, WithStatus
  <2>3. ASSUME NEW e \in WithStatus(new, {"Downloading"})
        PROVE  \/ \E r \in reqs \union Sent(ch, new) : r.epoch = e
               \/ Len(new.batches[e].failedDownloadAttempts) > MAX_BATCH_DOWNLOAD_ATTEMPTS
    <3>1. CASE e \in WithStatus(ch, {"Downloading"})
      <4>1. e \in Epochs(ch) /\ new.batches[e] = ch.batches[e] BY <3>1 DEF WithStatus, Requested
      <4> QED BY <3>1, <4>1 DEF Matched
    <3>2. CASE e \notin WithStatus(ch, {"Downloading"})
      <4>1. [epoch |-> e, peer |-> new.batches[e].peer] \in Sent(ch, new) BY <3>2 DEF Sent
      <4> QED BY <4>1
    <3> QED BY <3>1, <3>2
  <2> QED BY <2>1, <2>2, <2>3 DEF Matched
<1>6. ASSUME Ranked(ch) PROVE Ranked(new)
  <2> SUFFICES ASSUME NEW e \in Epochs(new), NEW f \in Epochs(new), e < f,
                      new.batches[f].status \in {"AwaitingValidation", "Processing"}
               PROVE  new.batches[e].status = "AwaitingValidation"
    BY DEF Ranked
  <2>1. f \in Epochs(ch) /\ new.batches[f] = ch.batches[f] BY <1>2
  <2>2. e \in Epochs(ch)
    <3> SUFFICES ASSUME e \notin Epochs(ch) PROVE FALSE OBVIOUS
    <3>1. f < e BY <2>1 DEF Requested
    <3> QED BY <1>1, <3>1
  <2>3. ch.batches[e].status = "AwaitingValidation" BY <1>6, <2>1, <2>2 DEF Ranked
  <2> QED BY <2>2, <2>3 DEF Requested
<1>7. IsProcessing(new) <=> IsProcessing(ch)
  <2>1. ASSUME NEW e \in WithStatus(new, {"Processing"}) PROVE e \in WithStatus(ch, {"Processing"})
    BY <1>2 DEF WithStatus
  <2>2. ASSUME NEW e \in WithStatus(ch, {"Processing"}) PROVE e \in WithStatus(new, {"Processing"})
    BY DEF WithStatus, Requested
  <2> QED BY <2>1, <2>2 DEF IsProcessing
<1> QED BY <1>3, <1>4, <1>5, <1>6, <1>7

\* A batch of the chain is replaced.
LEMMA SetBatchFacts ==
    ASSUME NEW ch \in ChainType, NEW e \in Epochs(ch), NEW b \in BatchType
    PROVE  LET new == SetBatch(ch, e, b)
           IN  /\ new \in ChainType /\ Epochs(new) = Epochs(ch)
               /\ new.status = ch.status /\ new.startEpoch = ch.startEpoch
               /\ new.target = ch.target /\ new.peerset = ch.peerset
               /\ new.batches[e] = b
               /\ \A k \in Epochs(ch) : k # e => new.batches[k] = ch.batches[k]
               /\ Linked(ch) => Linked(new)
<1> DEFINE new == SetBatch(ch, e, b)
           B == [k \in Epochs(ch) \union {e} |-> IF k = e THEN b ELSE ch.batches[k]]
<1>1. B \in [Epochs(ch) -> BatchType] BY ChainFacts
<1>2. B \in BatchMaps BY <1>1, ChainFacts DEF BatchMaps
<1>3. new = [ch EXCEPT !.batches = B] BY DEF SetBatch
<1>4. /\ new \in ChainType /\ new.status = ch.status /\ new.startEpoch = ch.startEpoch
      /\ new.target = ch.target /\ new.peerset = ch.peerset /\ new.batches = B
  <2> HIDE DEF B
  <2> QED BY <1>2, <1>3 DEF ChainType
<1>5. Epochs(new) = Epochs(ch) BY <1>1, <1>4 DEF Epochs
<1>6. new.batches[e] = b /\ \A k \in Epochs(ch) : k # e => new.batches[k] = ch.batches[k] BY <1>4
<1>7. Linked(ch) => Linked(new) BY <1>4, <1>5 DEF Linked
<1> QED BY <1>4, <1>5, <1>6, <1>7

-----------------------------------------------------------------------------
(* The loop of sync(). *)

Over == {"failing", "ended", "done"}
Errors == {None, "ABORTED", "MAX_DOWNLOAD_ATTEMPTS", "MAX_PROCESSING_ATTEMPTS"}
LoopType == [loop : {"waiting", "resumed", "processing"} \union Over, triggered : BOOLEAN, error : Errors]
Exhausted(i) == i.error = "MAX_PROCESSING_ATTEMPTS"

\* What the chain, its loop and its requests owe each other.  Batches are out of
\* order only once a batch has failed too often, and then the loop is over.
SyncInv ==
    /\ ChainOK(c)
    /\ requests \in SUBSET Requests /\ Matched(c, requests)
    /\ it \in LoopType
    /\ known \in SUBSET WithBlocks
    /\ ValidatedIsImported
    /\ ~Exhausted(it) => Ranked(c) /\ ((it.loop = "processing") <=> IsProcessing(c))
    /\ Exhausted(it) => it.loop \in Over

\* The loop is triggered or ended without touching the batch it processes.
LoopKept(i, j) ==
    /\ j \in LoopType
    /\ (j.loop = "processing") <=> (i.loop = "processing")
    /\ Exhausted(j) <=> Exhausted(i)
    /\ Exhausted(j) => j.loop \in Over

LEMMA TriggerKeepsLoop ==
    ASSUME NEW i \in LoopType, Exhausted(i) => i.loop \in Over
    PROVE  /\ LoopKept(i, i) /\ LoopKept(i, Trigger(i))
           /\ \A err \in {"ABORTED", "MAX_DOWNLOAD_ATTEMPTS"} : LoopKept(i, End(i, err))
           /\ i.loop = "ended" => LoopKept(i, [i EXCEPT !.loop = "done"])
<1>1. LoopKept(i, i) BY DEF LoopKept
<1>2. LoopKept(i, Trigger(i)) BY DEF LoopKept, Trigger, LoopType, Exhausted, Running, Over
<1>3. \A err \in {"ABORTED", "MAX_DOWNLOAD_ATTEMPTS"} : LoopKept(i, End(i, err))
  BY DEF LoopKept, End, LoopType, Exhausted, Running, Over, Errors
<1>4. i.loop = "ended" => LoopKept(i, [i EXCEPT !.loop = "done"])
  BY DEF LoopKept, LoopType, Exhausted, Over
<1> QED BY <1>1, <1>2, <1>3, <1>4

\* The loop as the batches of chain ch allow it to be.
LoopFits(ch, i) ==
    /\ i \in LoopType
    /\ ~Exhausted(i) => Ranked(ch) /\ ((i.loop = "processing") <=> IsProcessing(ch))
    /\ Exhausted(i) => i.loop \in Over

LEMMA KeptLoopFits ==
    ASSUME SyncInv, NEW ch, Ranked(c) => Ranked(ch), IsProcessing(ch) <=> IsProcessing(c),
           NEW j, LoopKept(it, j)
    PROVE  LoopFits(ch, j)
BY DEF SyncInv, LoopFits, LoopKept

\* A step that leaves a chain in order.
LEMMA Settled ==
    ASSUME ChainOK(c'), requests' \in SUBSET Requests, Matched(c', requests'), LoopFits(c', it'),
           known' \in SUBSET WithBlocks, \A e \in WithBlocks : e < c'.startEpoch => e \in known'
    PROVE  SyncInv'
<1>1. ValidatedIsImported' BY DEF ValidatedIsImported
<1>2. ChainOK(c)' /\ Matched(c, requests)' /\ (Ranked(c') => Ranked(c)') /\ (IsProcessing(c)' <=> IsProcessing(c'))
  BY
     DEF ChainOK, Linked, BlocksAreServed, StoppedIsEmpty, Matched, WithStatus, Epochs, Ranked,
     IsProcessing
<1>3. it' \in LoopType /\ (Exhausted(it)' => it'.loop \in Over) BY DEF LoopFits, Exhausted
<1>4. ~Exhausted(it)' => Ranked(c') /\ ((it'.loop = "processing") <=> IsProcessing(c'))
  BY DEF LoopFits, Exhausted
<1> QED BY <1>1, <1>2, <1>3, <1>4 DEF SyncInv

\* A step that leaves a chain in order, and then requests batches.
LEMMA StepKeeps ==
    ASSUME NEW ch, ChainOK(ch), NEW reqs \in SUBSET Requests, Matched(ch, reqs), LoopFits(ch, it'),
           c' \in RequestBatches(ch), requests' = reqs \union Sent(ch, c'),
           known' \in SUBSET WithBlocks, \A e \in WithBlocks : e < ch.startEpoch => e \in known'
    PROVE  SyncInv'
<1>1. Requested(ch, c') BY RequestBatchesLemma DEF ChainOK
<1>2. /\ ChainOK(c') /\ requests' \in SUBSET Requests /\ Matched(c', requests')
      /\ Ranked(ch) => Ranked(c')
      /\ IsProcessing(c') <=> IsProcessing(ch)
  BY <1>1, RequestedKeeps
<1>3. LoopFits(c', it') BY <1>2 DEF LoopFits
<1>4. \A e \in WithBlocks : e < c'.startEpoch => e \in known' BY <1>1 DEF Requested
<1> QED BY <1>2, <1>3, <1>4, Settled

\* Requests stay matched while the batches that are being downloaded stay the same.
LEMMA MatchedStays ==
    ASSUME NEW ch, NEW new, NEW reqs, Matched(ch, reqs),
           \A e \in Epochs(new) : new.batches[e].status = "Downloading" =>
               e \in Epochs(ch) /\ new.batches[e] = ch.batches[e],
           \A e \in Epochs(ch) : ch.batches[e].status = "Downloading" =>
               e \in Epochs(new) /\ new.batches[e] = ch.batches[e]
    PROVE  Matched(new, reqs)
<1>1. ASSUME NEW r \in reqs
      PROVE  /\ r.epoch \in Epochs(new) /\ new.batches[r.epoch].status = "Downloading"
             /\ new.batches[r.epoch].peer = r.peer
  <2>1. /\ r.epoch \in Epochs(ch) /\ ch.batches[r.epoch].status = "Downloading"
        /\ ch.batches[r.epoch].peer = r.peer
    BY DEF Matched
  <2> QED BY <2>1
<1>2. ASSUME NEW e \in WithStatus(new, {"Downloading"})
      PROVE  \/ \E r \in reqs : r.epoch = e
             \/ Len(new.batches[e].failedDownloadAttempts) > MAX_BATCH_DOWNLOAD_ATTEMPTS
  <2>1. e \in WithStatus(ch, {"Downloading"}) /\ new.batches[e] = ch.batches[e] BY DEF WithStatus
  <2> QED BY <2>1 DEF Matched
<1> QED BY <1>1, <1>2 DEF Matched

\* advanceChain drops the batches before the new start.
LEMMA AdvanceFacts ==
    ASSUME NEW ch, ChainOK(ch), ch.status # "Stopped", NEW start \in Nat, start >= ch.startEpoch,
           start \in Epochs(ch) \/ start = ch.startEpoch \/ Epochs(ch) = {}
    PROVE  LET new == AdvanceChain(ch, start)
           IN  /\ ChainOK(new) /\ new.startEpoch = start /\ new.status = ch.status
               /\ Epochs(new) = {e \in Epochs(ch) : e >= start}
               /\ \A e \in Epochs(new) : new.batches[e] = ch.batches[e]
               /\ new.target = ch.target /\ new.peerset = ch.peerset
<1> DEFINE new == AdvanceChain(ch, start)
           dropped == {e \in Epochs(ch) : e < start}
           B == [e \in Epochs(ch) \ dropped |-> ch.batches[e]]
<1>1. /\ ch \in ChainType /\ Linked(ch) /\ Epochs(ch) \in SUBSET Nat /\ IsFiniteSet(Epochs(ch))
      /\ ch.batches \in [Epochs(ch) -> BatchType] /\ ch.startEpoch \in Nat
  BY ChainFacts DEF ChainOK, ChainType
<1>2. start \in Nat /\ start >= ch.startEpoch OBVIOUS
<1>3. EPOCHS_PER_BATCH \in Nat \ {0} BY EpochsAssumption
<1>4. CASE start <= ch.startEpoch
  <2>1. new = ch /\ start = ch.startEpoch BY <1>1, <1>2, <1>4 DEF AdvanceChain
  <2>2. \A e \in Epochs(ch) : e >= start BY <1>1, <2>1 DEF Linked
  <2> QED BY <2>1, <2>2
<1>5. CASE ~(start <= ch.startEpoch)
  <2>1. start \in Epochs(ch) \/ Epochs(ch) = {} BY <1>1, <1>5
  <2>2. new = [ch EXCEPT !.batches = B,
                         !.validatedEpochs = @ + EPOCHS_PER_BATCH * Cardinality(dropped),
                         !.startEpoch = start]
    BY <1>5 DEF AdvanceChain
  <2>3. B \in BatchMaps
    <3>1. Epochs(ch) \ dropped \in SUBSET Nat /\ IsFiniteSet(Epochs(ch) \ dropped)
      <4>1. Epochs(ch) \ dropped \in SUBSET Epochs(ch) OBVIOUS
      <4> QED BY <1>1, <4>1, FS_Subset
    <3>2. B \in [Epochs(ch) \ dropped -> BatchType] BY <1>1
    <3> QED BY <3>1, <3>2 DEF BatchMaps
  <2>4. ch.validatedEpochs + EPOCHS_PER_BATCH * Cardinality(dropped) \in Nat
    <3>1. dropped \in SUBSET Epochs(ch) OBVIOUS
    <3>2. IsFiniteSet(dropped) BY <1>1, <3>1, FS_Subset
    <3>3. Cardinality(dropped) \in Nat BY <3>2, FS_CardinalityType
    <3>4. EPOCHS_PER_BATCH * Cardinality(dropped) \in Nat BY <1>3, <3>3
    <3>5. ch.validatedEpochs \in Nat BY <1>1 DEF ChainType
    <3> HIDE DEF dropped
    <3> QED BY <3>4, <3>5
  <2> DEFINE validated == ch.validatedEpochs + EPOCHS_PER_BATCH * Cardinality(dropped)
  <2>5. /\ new \in ChainType /\ new.startEpoch = start /\ new.status = ch.status /\ new.batches = B
        /\ new.target = ch.target /\ new.peerset = ch.peerset
    <3> HIDE DEF B, dropped
    <3>1. new = [ch EXCEPT !.batches = B, !.validatedEpochs = validated, !.startEpoch = start]
      BY <2>2, <1>1 DEF ChainType
    <3> HIDE DEF validated, new
    <3> QED BY <1>1, <1>2, <2>3, <2>4, <3>1 DEF ChainType, validated
  <2>6. Epochs(new) = {e \in Epochs(ch) : e >= start}
    <3>1. Epochs(new) = Epochs(ch) \ dropped BY <2>5 DEF Epochs
    <3> HIDE DEF new
    <3> QED BY <1>1, <1>2, <3>1
  <2>7. \A e \in Epochs(new) : new.batches[e] = ch.batches[e] BY <1>1, <1>2, <2>5, <2>6
  <2> HIDE DEF new
  <2>8. Linked(new)
    <3>1. ASSUME NEW e \in Epochs(new) PROVE e = start \/ e - EPOCHS_PER_BATCH \in Epochs(new)
      <4>1. e \in Epochs(ch) /\ e >= start BY <2>6
      <4>2. CASE e > start
        <5>1. start + EPOCHS_PER_BATCH <= e BY <1>1, <1>2, <2>1, <4>1, <4>2 DEF Linked
        <5>2. e # ch.startEpoch BY <1>1, <1>2, <4>1, <4>2
        <5>3. e - EPOCHS_PER_BATCH \in Epochs(ch) BY <1>1, <4>1, <5>2 DEF Linked
        <5> QED BY <1>1, <1>2, <1>3, <2>6, <5>1, <5>3
      <4> QED BY <1>1, <1>2, <4>1, <4>2
    <3>2. \A e, f \in Epochs(new) : e < f => e + EPOCHS_PER_BATCH <= f BY <1>1, <2>6 DEF Linked
    <3> QED BY <2>5, <2>6, <3>1, <3>2 DEF Linked
  <2>9. BlocksAreServed(new) /\ StoppedIsEmpty(new)
    BY <2>5, <2>6, <2>7 DEF BlocksAreServed, StoppedIsEmpty, ChainOK
  <2> QED BY <2>5, <2>6, <2>7, <2>8, <2>9 DEF ChainOK, new
<1> QED BY <1>4, <1>5

-----------------------------------------------------------------------------
(* RangeSync and its chain. *)

\* The start of a chain is aligned down to a batch: what is before it is finalized.
LEMMA AlignedStart ==
    ASSUME NEW f \in Nat, NEW e \in WithBlocks, e < (f \div EPOCHS_PER_BATCH) * EPOCHS_PER_BATCH
    PROVE  e + EPOCHS_PER_BATCH <= f
<1> DEFINE E == EPOCHS_PER_BATCH
           q == e \div E
           r == f \div E
<1>1. E \in Nat \ {0} /\ e \in Nat /\ e % E = 0 BY EpochsAssumption
<1>2. q \in Nat /\ r \in Nat /\ e = q * E /\ r * E <= f
  <2> HIDE DEF E
  <2>1. e = E * (e \div E) + (e % E) /\ e \div E \in Nat BY <1>1
  <2>2. f = E * (f \div E) + (f % E) /\ f \div E \in Nat /\ f % E \in Nat BY <1>1
  <2> QED BY <1>1, <2>1, <2>2
<1>3. q * E < r * E BY <1>2
<1> HIDE DEF E, q, r
<1>4. q < r
  <2> SUFFICES ASSUME r <= q PROVE FALSE BY <1>2
  <2>1. (q - r) * E >= 0 BY <1>1, <1>2
  <2>2. (q - r) * E = q * E - r * E BY <1>1, <1>2
  <2>3. q * E \in Nat /\ r * E \in Nat BY <1>1, <1>2
  <2> QED BY <1>3, <2>1, <2>2, <2>3
<1>5. (r - q - 1) * E >= 0 BY <1>1, <1>2, <1>4
<1>6. (r - q - 1) * E = r * E - q * E - E BY <1>1, <1>2
<1>7. q * E \in Nat /\ r * E \in Nat BY <1>1, <1>2
<1>8. e + E <= r * E BY <1>1, <1>2, <1>5, <1>6, <1>7
<1> QED BY <1>1, <1>2, <1>7, <1>8 DEF E

\* Starting a stopped chain: it has no batches, so nothing but the start moves.
LEMMA StartKeeps ==
    ASSUME SyncInv, NEW ch, ChainOK(ch), ch.status = "Stopped", NEW i, NEW sent,
           requests \union sent \in SUBSET Requests, Matched(ch, requests \union sent),
           LoopFits(ch, Trigger(i)), StartSyncing(ch, i, sent)
    PROVE  SyncInv'
<1>1. PICK f \in FinalizedEpochs :
        LET aligned == ch.startEpoch + ((f - ch.startEpoch) \div EPOCHS_PER_BATCH) * EPOCHS_PER_BATCH
            advanced == AdvanceChain([ch EXCEPT !.status = "Syncing"], aligned)
        IN /\ c' \in RequestBatches(advanced)
           /\ requests' = requests \union sent \union Sent(ch, c')
           /\ it' = Trigger(i)
           /\ known' = known \union {e \in WithBlocks : e + EPOCHS_PER_BATCH <= f}
  BY DEF StartSyncing
<1>2. Epochs(ch) = {} /\ ch.startEpoch = 0 /\ ch \in ChainType BY DEF ChainOK, StoppedIsEmpty
<1> DEFINE aligned == (f \div EPOCHS_PER_BATCH) * EPOCHS_PER_BATCH
           syncing == [ch EXCEPT !.status = "Syncing"]
           advanced == AdvanceChain(syncing, aligned)
<1>3. f \in Nat /\ EPOCHS_PER_BATCH \in Nat \ {0} BY EpochsAssumption
<1>4. aligned \in Nat BY <1>3
<1>5. ch.startEpoch + ((f - ch.startEpoch) \div EPOCHS_PER_BATCH) * EPOCHS_PER_BATCH = aligned
  BY <1>2, <1>3
<1>6. c' \in RequestBatches(advanced) /\ requests' = (requests \union sent) \union Sent(ch, c')
  BY <1>1, <1>5
<1>7. /\ syncing \in ChainType /\ syncing.status = "Syncing" /\ syncing.startEpoch = 0
      /\ syncing.batches = ch.batches
  BY <1>2 DEF ChainType, ChainStatuses
<1>8. Epochs(syncing) = {} BY <1>2, <1>7 DEF Epochs
<1>9. ChainOK(syncing) BY <1>7, <1>8 DEF ChainOK, Linked, BlocksAreServed, StoppedIsEmpty
<1> HIDE DEF aligned, syncing
<1>10. ChainOK(advanced) /\ advanced.startEpoch = aligned /\ Epochs(advanced) = {}
  BY <1>4, <1>7, <1>8, <1>9, AdvanceFacts
<1> HIDE DEF advanced
<1>11. Matched(advanced, requests \union sent) BY <1>2, <1>10, MatchedStays
<1>12. LoopFits(advanced, it')
  <2>1. Ranked(advanced) /\ ~IsProcessing(advanced) /\ ~IsProcessing(ch)
    BY <1>2, <1>10 DEF Ranked, IsProcessing, WithStatus
  <2> QED BY <1>1, <2>1 DEF LoopFits
<1>13. Sent(ch, c') = Sent(advanced, c') BY <1>2, <1>10 DEF Sent, WithStatus
<1>14. known' \in SUBSET WithBlocks /\ \A e \in WithBlocks : e < aligned => e \in known'
  BY <1>1, <1>3, AlignedStart DEF SyncInv, aligned
<1> QED BY <1>6, <1>10, <1>11, <1>12, <1>13, <1>14, StepKeeps

\* RangeSync.update keeps a chain in order.
LEMMA UpdateKeeps ==
    ASSUME SyncInv, NEW ch, ChainOK(ch), NEW i, NEW sent,
           requests \union sent \in SUBSET Requests, Matched(ch, requests \union sent),
           Ranked(c) => Ranked(ch), IsProcessing(ch) <=> IsProcessing(c),
           ch.startEpoch = c.startEpoch, LoopKept(it, i), Update(ch, i, sent)
    PROVE  SyncInv'
<1>1. i \in LoopType /\ (Exhausted(i) => i.loop \in Over) BY DEF LoopKept
<1>2. /\ LoopKept(it, i) /\ LoopKept(it, Trigger(i)) /\ LoopKept(it, End(i, "ABORTED"))
  <2>1. LoopKept(i, Trigger(i)) /\ LoopKept(i, End(i, "ABORTED")) BY <1>1, TriggerKeepsLoop
  <2> QED BY <2>1 DEF LoopKept
<1>3. LoopFits(ch, i) /\ LoopFits(ch, Trigger(i)) /\ LoopFits(ch, End(i, "ABORTED"))
  BY <1>2, KeptLoopFits
<1>4. known \in SUBSET WithBlocks /\ \A e \in WithBlocks : e < ch.startEpoch => e \in known
  BY DEF SyncInv, ValidatedIsImported
<1>5. CASE c' = ch /\ it' \in {i, End(i, "ABORTED")} /\ requests' = requests \union sent /\ UNCHANGED known
  BY <1>3, <1>4, <1>5, Settled
<1>6. CASE ch.status = "Stopped" /\ StartSyncing(ch, i, sent) BY <1>3, <1>6, StartKeeps
<1> QED BY <1>5, <1>6 DEF Update

\* computeTarget picks one of the announced targets, if there is one.
LEMMA TargetType ==
    ASSUME NEW peerset \in PeerMaps, NEW target \in ComputeTarget(peerset)
    PROVE  target \in Targets \union {NoTarget}
<1>1. PICK P \in SUBSET Peers : peerset \in [P -> Targets] BY DEF PeerMaps
<1> QED BY <1>1 DEF ComputeTarget

\* Peers come and go without a change of the batches.
LEMMA PeersetFacts ==
    ASSUME NEW ch, ChainOK(ch), NEW peerset \in PeerMaps, NEW target \in Targets \union {NoTarget}
    PROVE  LET new == [ch EXCEPT !.peerset = peerset, !.target = target]
           IN  /\ ChainOK(new) /\ new.batches = ch.batches /\ Epochs(new) = Epochs(ch)
               /\ new.status = ch.status /\ new.startEpoch = ch.startEpoch
               /\ Ranked(new) <=> Ranked(ch)
               /\ IsProcessing(new) <=> IsProcessing(ch)
               /\ \A reqs : Matched(ch, reqs) => Matched(new, reqs)
               /\ \A other : Sent(ch, other) = Sent(new, other)
<1> DEFINE new == [ch EXCEPT !.peerset = peerset, !.target = target]
<1>1. /\ new \in ChainType /\ new.batches = ch.batches /\ new.status = ch.status
      /\ new.startEpoch = ch.startEpoch
  BY DEF ChainOK, ChainType
<1> HIDE DEF new
<1>2. Epochs(new) = Epochs(ch) BY <1>1 DEF Epochs
<1>3. \A s : WithStatus(new, s) = WithStatus(ch, s) BY <1>1, <1>2 DEF WithStatus
<1>4. ChainOK(new) BY <1>1, <1>2 DEF ChainOK, Linked, BlocksAreServed, StoppedIsEmpty
<1>5. Ranked(new) <=> Ranked(ch) BY <1>1, <1>2 DEF Ranked
<1>6. IsProcessing(new) <=> IsProcessing(ch) BY <1>3 DEF IsProcessing
<1>7. \A reqs : Matched(ch, reqs) => Matched(new, reqs) BY <1>1, <1>2, <1>3 DEF Matched
<1>8. \A other : Sent(ch, other) = Sent(new, other) BY <1>3 DEF Sent
<1> QED BY <1>1, <1>2, <1>4, <1>5, <1>6, <1>7, <1>8 DEF new

LEMMA AddPeerKeeps ==
    ASSUME SyncInv, NEW p \in Peers, NEW t \in Targets, AddPeer(p, t)
    PROVE  SyncInv'
<1> DEFINE peerset == [q \in DOMAIN c.peerset \union {p} |-> IF q = p THEN t ELSE c.peerset[q]]
<1>1. PICK target \in ComputeTarget(peerset) :
        \E new \in RequestBatches([c EXCEPT !.peerset = peerset, !.target = target]) :
           Update(new, it, Sent(c, new))
  BY DEF AddPeer
<1> DEFINE ch == [c EXCEPT !.peerset = peerset, !.target = target]
<1>2. PICK new \in RequestBatches(ch) : Update(new, it, Sent(c, new)) BY <1>1
<1>3. ChainOK(c) /\ requests \in SUBSET Requests /\ Matched(c, requests) BY DEF SyncInv
<1>4. peerset \in PeerMaps
  <2>1. DOMAIN c.peerset \in SUBSET Peers /\ c.peerset \in [DOMAIN c.peerset -> Targets]
    BY <1>3, ChainFacts DEF ChainOK
  <2>2. peerset \in [DOMAIN c.peerset \union {p} -> Targets] /\ DOMAIN c.peerset \union {p} \in SUBSET Peers
    BY <2>1
  <2> HIDE DEF peerset
  <2> QED BY <2>2 DEF PeerMaps
<1> HIDE DEF peerset
<1>5. target \in Targets \union {NoTarget} BY <1>1, <1>4, TargetType
<1>6. /\ ChainOK(ch) /\ ch.startEpoch = c.startEpoch
      /\ Ranked(ch) <=> Ranked(c)
      /\ IsProcessing(ch) <=> IsProcessing(c)
      /\ Matched(ch, requests)
      /\ \A other : Sent(c, other) = Sent(ch, other)
  <2> HIDE DEF ch
  <2>1. /\ ChainOK(ch) /\ ch.startEpoch = c.startEpoch
        /\ Ranked(ch) <=> Ranked(c)
        /\ IsProcessing(ch) <=> IsProcessing(c)
        /\ \A reqs : Matched(c, reqs) => Matched(ch, reqs)
        /\ \A other : Sent(c, other) = Sent(ch, other)
    BY <1>3, <1>4, <1>5, PeersetFacts, ZenonT(40) DEF ch
  <2> QED BY <1>3, <2>1
<1> HIDE DEF ch
<1>7. Requested(ch, new) BY <1>2, <1>6, RequestBatchesLemma DEF ChainOK
<1>8. /\ ChainOK(new) /\ requests \union Sent(c, new) \in SUBSET Requests
      /\ Matched(new, requests \union Sent(c, new))
      /\ Ranked(ch) => Ranked(new)
      /\ IsProcessing(new) <=> IsProcessing(ch)
  <2>1. Sent(c, new) = Sent(ch, new) BY <1>6
  <2> QED BY <1>3, <1>6, <1>7, <2>1, RequestedKeeps
<1>9. new.startEpoch = c.startEpoch BY <1>6, <1>7 DEF Requested
<1>10. LoopKept(it, it) BY TriggerKeepsLoop DEF SyncInv
<1> QED BY <1>2, <1>6, <1>8, <1>9, <1>10, UpdateKeeps

LEMMA RemovePeerKeeps ==
    ASSUME SyncInv, NEW p \in Peers, RemovePeer(p)
    PROVE  SyncInv'
<1> DEFINE peerset == [q \in DOMAIN c.peerset \ {p} |-> c.peerset[q]]
<1>1. PICK target \in ComputeTarget(peerset) : c' = [c EXCEPT !.peerset = peerset, !.target = target]
  BY DEF RemovePeer
<1>2. ChainOK(c) /\ requests \in SUBSET Requests /\ Matched(c, requests) BY DEF SyncInv
<1>3. peerset \in PeerMaps
  <2>1. DOMAIN c.peerset \in SUBSET Peers /\ c.peerset \in [DOMAIN c.peerset -> Targets]
    BY <1>2, ChainFacts DEF ChainOK
  <2>2. peerset \in [DOMAIN c.peerset \ {p} -> Targets] /\ DOMAIN c.peerset \ {p} \in SUBSET Peers
    BY <2>1
  <2> HIDE DEF peerset
  <2> QED BY <2>2 DEF PeerMaps
<1> HIDE DEF peerset
<1>4. target \in Targets \union {NoTarget} BY <1>1, <1>3, TargetType
<1>5. /\ ChainOK(c') /\ c'.startEpoch = c.startEpoch
      /\ Ranked(c') <=> Ranked(c)
      /\ IsProcessing(c') <=> IsProcessing(c)
      /\ Matched(c', requests)
  BY <1>1, <1>2, <1>3, <1>4, PeersetFacts, ZenonT(40)
<1>6. LoopKept(it, it) BY TriggerKeepsLoop DEF SyncInv
<1>7. LoopFits(c', it) BY <1>5, <1>6, KeptLoopFits
<1>8. UNCHANGED <<it, requests, known>> BY DEF RemovePeer
<1> QED BY <1>2, <1>5, <1>7, <1>8, Settled DEF SyncInv, ValidatedIsImported

LEMMA OtherChainUpdatesKeeps ==
    ASSUME SyncInv, OtherChainUpdates
    PROVE  SyncInv'
<1>1. requests \union {} = requests OBVIOUS
<1>2. LoopKept(it, it) BY TriggerKeepsLoop DEF SyncInv
<1> QED BY <1>1, <1>2, UpdateKeeps DEF OtherChainUpdates, SyncInv

LEMMA OnSyncChainEndKeeps ==
    ASSUME SyncInv, OnSyncChainEnd
    PROVE  SyncInv'
<1> DEFINE done == [it EXCEPT !.loop = "done"]
<1>1. requests \union {} = requests OBVIOUS
<1>2. LoopKept(it, done) BY TriggerKeepsLoop DEF SyncInv, OnSyncChainEnd
<1>3. CASE removed
  <2>1. it' = done /\ UNCHANGED <<c, requests, known>> BY <1>3 DEF OnSyncChainEnd
  <2>2. LoopFits(c, done) BY <1>2, KeptLoopFits
  <2> QED BY <2>1, <2>2, Settled DEF SyncInv, ValidatedIsImported
<1>4. CASE ~removed
  <2>1. Update(c, done, {}) BY <1>4 DEF OnSyncChainEnd
  <2> QED BY <1>1, <1>2, <2>1, UpdateKeeps DEF SyncInv
<1> QED BY <1>3, <1>4

-----------------------------------------------------------------------------
(* Downloads. *)

\* The answer to a request replaces its batch, and no other request is for it.
LEMMA AnswerKeeps ==
    ASSUME SyncInv, NEW r \in requests, NEW b \in BatchType,
           b.status \notin {"AwaitingValidation", "Processing"},
           b.blocks = "full" => r.epoch \in WithBlocks,
           b.status = "Downloading" => Len(b.failedDownloadAttempts) > MAX_BATCH_DOWNLOAD_ATTEMPTS
    PROVE  LET got == SetBatch(c, r.epoch, b)
           IN  /\ ChainOK(got) /\ got.startEpoch = c.startEpoch
               /\ Matched(got, requests \ {r})
               /\ Ranked(c) => Ranked(got)
               /\ IsProcessing(got) <=> IsProcessing(c)
<1> DEFINE got == SetBatch(c, r.epoch, b)
           e == r.epoch
<1>1. ChainOK(c) /\ c \in ChainType /\ Linked(c) /\ requests \in SUBSET Requests /\ Matched(c, requests)
  BY DEF SyncInv, ChainOK
<1>2. e \in Epochs(c) /\ c.batches[e].status = "Downloading" /\ c.batches[e].peer = r.peer
  BY <1>1 DEF Matched
<1> HIDE DEF e
<1>3. /\ got \in ChainType /\ Epochs(got) = Epochs(c) /\ got.status = c.status
      /\ got.startEpoch = c.startEpoch /\ got.batches[e] = b
      /\ \A k \in Epochs(c) : k # e => got.batches[k] = c.batches[k]
      /\ Linked(got)
  BY <1>1, <1>2, SetBatchFacts DEF e
<1> HIDE DEF got
<1>4. ChainOK(got)
  <2>1. BlocksAreServed(got)
    BY <1>1, <1>3 DEF BlocksAreServed, ChainOK, e
  <2>2. StoppedIsEmpty(got) BY <1>1, <1>3 DEF StoppedIsEmpty, ChainOK
  <2> QED BY <1>3, <2>1, <2>2 DEF ChainOK
<1>5. Matched(got, requests \ {r})
  <2>1. ASSUME NEW q \in requests \ {r}
        PROVE  /\ q.epoch \in Epochs(got) /\ got.batches[q.epoch].status = "Downloading"
               /\ got.batches[q.epoch].peer = q.peer
    <3>1. /\ q.epoch \in Epochs(c) /\ c.batches[q.epoch].status = "Downloading"
          /\ c.batches[q.epoch].peer = q.peer
      BY <1>1 DEF Matched
    <3>2. q.epoch # e
      <4> SUFFICES ASSUME q.epoch = r.epoch PROVE FALSE BY DEF e
      <4>1. q.peer = r.peer BY <1>2, <3>1 DEF e
      <4>2. q \in Requests /\ r \in Requests BY <1>1
      <4> QED BY <4>1, <4>2 DEF Requests
    <3> QED BY <1>3, <3>1, <3>2
  <2>2. ASSUME NEW k \in WithStatus(got, {"Downloading"})
        PROVE  \/ \E q \in requests \ {r} : q.epoch = k
               \/ Len(got.batches[k].failedDownloadAttempts) > MAX_BATCH_DOWNLOAD_ATTEMPTS
    <3>1. CASE k = e BY <1>3, <3>1 DEF WithStatus
    <3>2. CASE k # e
      <4>1. k \in WithStatus(c, {"Downloading"}) /\ got.batches[k] = c.batches[k]
        BY <1>3, <3>2 DEF WithStatus
      <4> QED BY <1>1, <3>2, <4>1 DEF Matched, e
    <3> QED BY <3>1, <3>2
  <2> QED BY <2>1, <2>2 DEF Matched
<1>6. Ranked(c) => Ranked(got)
  BY <1>2, <1>3 DEF Ranked
<1>7. IsProcessing(got) <=> IsProcessing(c)
  <2>1. \A k : k \in WithStatus(got, {"Processing"}) <=> k \in WithStatus(c, {"Processing"})
    BY <1>2, <1>3 DEF WithStatus
  <2> QED BY <2>1 DEF IsProcessing
<1> QED BY <1>3, <1>4, <1>5, <1>6, <1>7 DEF got

LEMMA DownloadSucceedsKeeps ==
    ASSUME SyncInv, NEW r \in requests, DownloadSucceeds(r)
    PROVE  SyncInv'
<1>1. PICK blocks \in Served(r.peer, r.epoch) :
        LET got == SetBatch(c, r.epoch, DownloadingSuccess(c.batches[r.epoch], blocks))
        IN c' \in RequestBatches(got) /\ requests' = (requests \ {r}) \union Sent(got, c')
  BY DEF DownloadSucceeds
<1> DEFINE b == DownloadingSuccess(c.batches[r.epoch], blocks)
           got == SetBatch(c, r.epoch, b)
<1>2. c.batches[r.epoch] \in BatchType /\ c.batches[r.epoch].status = "Downloading"
  BY ChainFacts DEF SyncInv, ChainOK, Matched
<1>3. blocks \in BlockSets /\ (blocks = "full" => r.epoch \in WithBlocks)
  BY DEF Served, Canonical, BlockSets
<1>4. b \in BatchType /\ b.status = "AwaitingProcessing" /\ b.blocks = blocks
  BY <1>2, <1>3 DEF DownloadingSuccess, BatchType, BatchStatus
<1>5. c' \in RequestBatches(got) /\ requests' = (requests \ {r}) \union Sent(got, c') BY <1>1
<1> HIDE DEF b
<1>6. /\ ChainOK(got) /\ got.startEpoch = c.startEpoch
      /\ Matched(got, requests \ {r})
      /\ Ranked(c) => Ranked(got)
      /\ IsProcessing(got) <=> IsProcessing(c)
  BY <1>3, <1>4, AnswerKeeps
<1> HIDE DEF got
<1>7. LoopKept(it, it') BY TriggerKeepsLoop DEF SyncInv, DownloadSucceeds
<1>8. LoopFits(got, it') BY <1>6, <1>7, KeptLoopFits
<1>9. UNCHANGED known /\ known \in SUBSET WithBlocks /\ requests \ {r} \in SUBSET Requests
  BY DEF DownloadSucceeds, SyncInv
<1>10. \A e \in WithBlocks : e < got.startEpoch => e \in known'
  BY <1>6, <1>9 DEF SyncInv, ValidatedIsImported
<1> QED BY <1>5, <1>6, <1>8, <1>9, <1>10, StepKeeps

\* A batch that fails to download is to be downloaded again, or has failed too often.
LEMMA DownloadingErrorFacts ==
    ASSUME NEW b \in BatchType, b.status = "Downloading"
    PROVE  LET new == DownloadingError(b)
           IN  /\ new \in BatchType /\ new.blocks = b.blocks
               /\ new.status \in {"AwaitingDownload", "Downloading"}
               /\ new.status = "Downloading" => Len(new.failedDownloadAttempts) > MAX_BATCH_DOWNLOAD_ATTEMPTS
<1> DEFINE tried == Append(b.failedDownloadAttempts, b.peer)
<1>1. /\ tried \in Seq(Peers \union {None}) /\ Len(tried) = Len(b.failedDownloadAttempts) + 1
      /\ Len(b.failedDownloadAttempts) \in Nat /\ MAX_BATCH_DOWNLOAD_ATTEMPTS \in Nat
  BY AttemptsAssumption DEF BatchType
<1> HIDE DEF tried
<1>2. DownloadingError(b) = IF DownloadAttemptsLeft(b)
        THEN [b EXCEPT !.failedDownloadAttempts = tried, !.status = "AwaitingDownload", !.peer = None]
        ELSE [b EXCEPT !.failedDownloadAttempts = tried]
  BY DEF DownloadingError, BatchType, tried
<1>3. CASE DownloadAttemptsLeft(b)
  <2>1. DownloadingError(b) =
          [b EXCEPT !.failedDownloadAttempts = tried, !.status = "AwaitingDownload", !.peer = None]
    BY <1>2, <1>3
  <2> QED BY <1>1, <2>1 DEF BatchType, BatchStatus
<1>4. CASE ~DownloadAttemptsLeft(b)
  <2>1. DownloadingError(b) = [b EXCEPT !.failedDownloadAttempts = tried] BY <1>2, <1>4
  <2>2. Len(tried) > MAX_BATCH_DOWNLOAD_ATTEMPTS BY <1>1, <1>4 DEF DownloadAttemptsLeft
  <2> QED BY <1>1, <2>1, <2>2 DEF BatchType, BatchStatus
<1> QED BY <1>3, <1>4

LEMMA DownloadFailsKeeps ==
    ASSUME SyncInv, NEW r \in requests, DownloadFails(r)
    PROVE  SyncInv'
<1> DEFINE b == DownloadingError(c.batches[r.epoch])
           got == SetBatch(c, r.epoch, b)
<1>1. c' \in RequestBatches(got) /\ requests' = (requests \ {r}) \union Sent(got, c')
  BY DEF DownloadFails
<1>2. /\ r.epoch \in Epochs(c) /\ c.batches[r.epoch] \in BatchType
      /\ c.batches[r.epoch].status = "Downloading"
      /\ c.batches[r.epoch].blocks = "full" => r.epoch \in WithBlocks
  BY ChainFacts DEF SyncInv, ChainOK, Matched, BlocksAreServed
<1>3. /\ b \in BatchType /\ b.blocks = c.batches[r.epoch].blocks
      /\ b.status \in {"AwaitingDownload", "Downloading"}
      /\ b.status = "Downloading" => Len(b.failedDownloadAttempts) > MAX_BATCH_DOWNLOAD_ATTEMPTS
  BY <1>2, DownloadingErrorFacts
<1> HIDE DEF b
<1>4. /\ ChainOK(got) /\ got.startEpoch = c.startEpoch
      /\ Matched(got, requests \ {r})
      /\ Ranked(c) => Ranked(got)
      /\ IsProcessing(got) <=> IsProcessing(c)
  BY <1>2, <1>3, AnswerKeeps
<1> HIDE DEF got
<1>5. LoopKept(it, it')
  <2>1. it' = it \/ it' = End(it, "MAX_DOWNLOAD_ATTEMPTS") BY DEF DownloadFails
  <2> QED BY <2>1, TriggerKeepsLoop DEF SyncInv
<1>6. LoopFits(got, it') BY <1>4, <1>5, KeptLoopFits
<1>7. UNCHANGED known /\ known \in SUBSET WithBlocks /\ requests \ {r} \in SUBSET Requests
  BY DEF DownloadFails, SyncInv
<1>8. \A e \in WithBlocks : e < got.startEpoch => e \in known'
  BY <1>4, <1>7 DEF SyncInv, ValidatedIsImported
<1> QED BY <1>1, <1>4, <1>6, <1>7, <1>8, StepKeeps

-----------------------------------------------------------------------------
(* Processing. *)

\* validateBatchesStatus accepts batches in order: no two of them are processed.
LEMMA RankedIsValid ==
    ASSUME NEW ch \in ChainType, Ranked(ch)
    PROVE  BatchesStatusValid(ch)
<1> DEFINE rank(e) == CASE ch.batches[e].status = "AwaitingValidation" -> 0
                        [] ch.batches[e].status = "Processing" -> 1
                        [] OTHER -> 2
           P == WithStatus(ch, {"Processing"})
<1>1. \A e, f \in Epochs(ch) : e < f => rank(e) <= rank(f)
  <2> SUFFICES ASSUME NEW e \in Epochs(ch), NEW f \in Epochs(ch), e < f PROVE rank(e) <= rank(f)
    OBVIOUS
  <2>1. CASE ch.batches[f].status \in {"AwaitingValidation", "Processing"}
    <3>1. rank(e) = 0 BY <2>1 DEF Ranked
    <3>2. rank(f) \in {0, 1} BY <2>1
    <3> QED BY <3>1, <3>2
  <2>2. CASE ch.batches[f].status \notin {"AwaitingValidation", "Processing"}
    <3>1. rank(f) = 2 BY <2>2
    <3>2. rank(e) \in {0, 1, 2} OBVIOUS
    <3> QED BY <3>1, <3>2
  <2> QED BY <2>1, <2>2
<1>2. \A e, f \in P : e = f
  <2>1. P \subseteq Nat BY ChainFacts DEF WithStatus
  <2> SUFFICES ASSUME NEW e \in P, NEW f \in P, e < f PROVE FALSE
    <3> HIDE DEF P
    <3> QED BY <2>1
  <2> QED BY DEF Ranked, WithStatus
<1>3. Cardinality(P) <= 1
  <2>1. CASE P = {} BY <2>1, FS_EmptySet
  <2>2. CASE P # {}
    <3>1. PICK x : P = {x} BY <1>2, <2>2
    <3>2. Cardinality(P) = 1 BY <3>1, FS_Singleton
    <3> QED BY <3>2
  <2> QED BY <2>1, <2>2
<1> HIDE DEF P
<1> QED BY <1>1, <1>3 DEF BatchesStatusValid, P

\* The next turn of the loop, when no batch is being processed any more.
LEMMA NextTurnFits ==
    ASSUME NEW i \in LoopType, ~Exhausted(i), NEW ch, Ranked(ch), ~IsProcessing(ch)
    PROVE  LoopFits(ch, NextIteration(i)) /\ LoopFits(ch, NextIteration(Trigger(i)))
<1>1. ASSUME NEW j \in LoopType, ~Exhausted(j) PROVE LoopFits(ch, NextIteration(j))
  <2>1. /\ NextIteration(j) \in LoopType /\ NextIteration(j).loop # "processing"
        /\ ~Exhausted(NextIteration(j))
    BY <1>1 DEF NextIteration, LoopType, Exhausted, Over
  <2> QED BY <2>1 DEF LoopFits
<1>2. Trigger(i) \in LoopType /\ ~Exhausted(Trigger(i))
  BY TriggerKeepsLoop DEF LoopKept
<1> QED BY <1>1, <1>2

LEMMA LoopTurnKeeps ==
    ASSUME SyncInv, LoopTurn
    PROVE  SyncInv'
<1>1. /\ ChainOK(c) /\ c \in ChainType /\ Linked(c) /\ requests \in SUBSET Requests /\ Matched(c, requests)
      /\ it \in LoopType /\ it.loop = "resumed" /\ known \in SUBSET WithBlocks
      /\ \A e \in WithBlocks : e < c.startEpoch => e \in known
      /\ UNCHANGED <<requests, known>>
  BY DEF SyncInv, ChainOK, LoopTurn, ValidatedIsImported
<1>2. ~Exhausted(it) /\ Ranked(c) /\ ~IsProcessing(c)
  BY <1>1 DEF SyncInv, Over
<1>3. BatchesStatusValid(c) BY <1>1, <1>2, RankedIsValid
<1>4. CASE it' = NextIteration(it) /\ UNCHANGED c
  <2>1. LoopFits(c', it') BY <1>1, <1>2, <1>4, NextTurnFits
  <2> QED BY <1>1, <1>4, <2>1, Settled
<1>5. CASE it' = [it EXCEPT !.loop = "ended"] /\ c' = [c EXCEPT !.status = "Synced"]
  <2>1. c' \in ChainType /\ c'.status = "Synced" /\ c'.batches = c.batches /\ c'.startEpoch = c.startEpoch
    BY <1>1, <1>5 DEF ChainType, ChainStatuses
  <2>2. Epochs(c') = Epochs(c) BY <2>1 DEF Epochs
  <2>3. ChainOK(c') BY <1>1, <2>1, <2>2 DEF ChainOK, Linked, BlocksAreServed, StoppedIsEmpty
  <2>4. Matched(c', requests) BY <1>1, <2>1, <2>2, MatchedStays
  <2>5. Ranked(c') /\ ~IsProcessing(c') BY <1>2, <2>1, <2>2 DEF Ranked, IsProcessing, WithStatus
  <2>6. LoopFits(c', it')
    <3>1. it' \in LoopType /\ it'.loop = "ended" BY <1>1, <1>5 DEF LoopType, Over
    <3> QED BY <2>5, <3>1 DEF LoopFits, Over
  <2> QED BY <1>1, <2>1, <2>3, <2>4, <2>6, Settled
<1>6. ASSUME NEW e \in GetNextBatchToProcess(c), c' = SetBatch(c, e, StartProcessing(c.batches[e])),
             it' = [it EXCEPT !.loop = "processing"]
      PROVE  SyncInv'
  <2> DEFINE rest == Epochs(c) \ WithStatus(c, {"AwaitingValidation"})
             b == StartProcessing(c.batches[e])
  <2>1. e \in rest /\ c.batches[e].status = "AwaitingProcessing" /\ e = Min(rest)
    BY <1>6 DEF GetNextBatchToProcess
  <2>2. e \in Epochs(c) /\ c.batches[e] \in BatchType BY <1>1, <2>1, ChainFacts
  <2>3. \A k \in Epochs(c) : k < e => c.batches[k].status = "AwaitingValidation"
    <3>1. rest \in SUBSET Nat BY <1>1, ChainFacts
    <3>2. \A k \in rest : e <= k BY <2>1, <3>1, LeastIsMin
    <3>3. Epochs(c) \subseteq Nat BY <1>1, ChainFacts
    <3>4. \A k \in Epochs(c) : c.batches[k].status # "AwaitingValidation" => k \in rest
      BY DEF WithStatus
    <3> HIDE DEF rest
    <3> QED BY <2>2, <3>2, <3>3, <3>4
  <2>4. b \in BatchType /\ b.status = "Processing" /\ b.blocks = c.batches[e].blocks
    BY <2>2 DEF StartProcessing, BatchType, BatchStatus
  <2> HIDE DEF b
  <2>5. /\ c' \in ChainType /\ Epochs(c') = Epochs(c) /\ c'.status = c.status
        /\ c'.startEpoch = c.startEpoch /\ c'.batches[e] = b
        /\ \A k \in Epochs(c) : k # e => c'.batches[k] = c.batches[k]
        /\ Linked(c')
    <3>1. c' = SetBatch(c, e, b) BY <1>6 DEF b
    <3> QED BY <1>1, <2>2, <2>4, <3>1, SetBatchFacts
  <2>6. BlocksAreServed(c') BY <1>1, <2>2, <2>4, <2>5 DEF BlocksAreServed, ChainOK
  <2>7. ChainOK(c') BY <1>1, <2>5, <2>6 DEF ChainOK, StoppedIsEmpty
  <2>8. Matched(c', requests) BY <1>1, <2>1, <2>4, <2>5, MatchedStays
  <2>9. Ranked(c')
    <3> SUFFICES ASSUME NEW k \in Epochs(c), NEW f \in Epochs(c), k < f,
                        c'.batches[f].status \in {"AwaitingValidation", "Processing"}
                 PROVE  c'.batches[k].status = "AwaitingValidation"
      BY <2>5 DEF Ranked
    <3>1. CASE f = e
      <4>1. k # e BY <1>1, <3>1, ChainFacts
      <4> QED BY <2>3, <2>5, <3>1, <4>1
    <3>2. CASE f # e
      <4>1. c.batches[k].status = "AwaitingValidation" BY <1>2, <2>5, <3>2 DEF Ranked
      <4> QED BY <2>1, <2>5, <4>1
    <3> QED BY <3>1, <3>2
  <2>10. IsProcessing(c') BY <2>2, <2>4, <2>5 DEF IsProcessing, WithStatus
  <2>11. LoopFits(c', it')
    <3>1. it' \in LoopType /\ it'.loop = "processing" /\ it'.error = it.error
      BY <1>1, <1>6 DEF LoopType
    <3> QED BY <1>2, <2>9, <2>10, <3>1 DEF LoopFits, Exhausted
  <2> QED BY <1>1, <2>5, <2>7, <2>8, <2>11, Settled
<1> QED BY <1>3, <1>4, <1>5, <1>6 DEF LoopTurn

\* While a batch is processed, those before it have been and those after it have not.
LEMMA ProcessingFacts ==
    ASSUME SyncInv, it.loop = "processing", NEW e \in WithStatus(c, {"Processing"})
    PROVE  /\ ChainOK(c) /\ c \in ChainType /\ Linked(c) /\ c.status # "Stopped"
           /\ requests \in SUBSET Requests /\ Matched(c, requests)
           /\ it \in LoopType /\ ~Exhausted(it)
           /\ e \in Epochs(c) /\ c.batches[e].status = "Processing" /\ c.batches[e] \in BatchType
           /\ Epochs(c) \subseteq Nat /\ e \in Nat
           /\ e >= c.startEpoch
           /\ \A k \in Epochs(c) : k < e => c.batches[k].status = "AwaitingValidation"
           /\ \A k \in Epochs(c) : k > e => c.batches[k].status \notin {"AwaitingValidation", "Processing"}
           /\ known \in SUBSET WithBlocks
           /\ \A k \in WithBlocks : k < c.startEpoch => k \in known
<1>1. ChainOK(c) /\ c \in ChainType /\ Linked(c) /\ requests \in SUBSET Requests /\ Matched(c, requests)
  BY DEF SyncInv, ChainOK
<1>2. it \in LoopType /\ ~Exhausted(it) /\ Ranked(c) BY DEF SyncInv, Over
<1>3. /\ e \in Epochs(c) /\ c.batches[e].status = "Processing" /\ c.batches[e] \in BatchType
      /\ Epochs(c) \subseteq Nat /\ e \in Nat
  BY <1>1, ChainFacts DEF WithStatus
<1>4. c.status # "Stopped" BY <1>1, <1>3 DEF ChainOK, StoppedIsEmpty
<1>5. e >= c.startEpoch BY <1>1, <1>3 DEF Linked
<1>6. \A k \in Epochs(c) : k < e => c.batches[k].status = "AwaitingValidation" BY <1>2, <1>3 DEF Ranked
<1>7. \A k \in Epochs(c) : k > e => c.batches[k].status \notin {"AwaitingValidation", "Processing"}
  BY <1>2, <1>3 DEF Ranked
<1>8. known \in SUBSET WithBlocks /\ \A k \in WithBlocks : k < c.startEpoch => k \in known
  BY DEF SyncInv, ValidatedIsImported
<1> QED BY <1>1, <1>2, <1>3, <1>4, <1>5, <1>6, <1>7, <1>8

LEMMA ProcessSucceedsKeeps ==
    ASSUME SyncInv, NEW e \in Epochs(c), ProcessSucceeds(e)
    PROVE  SyncInv'
<1> DEFINE blocks == c.batches[e].blocks
           b == ProcessingSuccess(c.batches[e])
           done == SetBatch(c, e, b)
           advanced == IF blocks = "empty" THEN done ELSE AdvanceChain(done, e)
<1>1. it.loop = "processing" /\ e \in WithStatus(c, {"Processing"}) BY DEF ProcessSucceeds
<1>2. /\ ChainOK(c) /\ c \in ChainType /\ Linked(c) /\ c.status # "Stopped"
      /\ requests \in SUBSET Requests /\ Matched(c, requests)
      /\ it \in LoopType /\ ~Exhausted(it)
      /\ c.batches[e].status = "Processing" /\ c.batches[e] \in BatchType
      /\ Epochs(c) \subseteq Nat /\ e \in Nat
      /\ e >= c.startEpoch
      /\ \A k \in Epochs(c) : k < e => c.batches[k].status = "AwaitingValidation"
      /\ \A k \in Epochs(c) : k > e => c.batches[k].status \notin {"AwaitingValidation", "Processing"}
      /\ known \in SUBSET WithBlocks
      /\ \A k \in WithBlocks : k < c.startEpoch => k \in known
  BY <1>1, ProcessingFacts
<1>3. b \in BatchType /\ b.status = "AwaitingValidation" /\ b.blocks = blocks
  BY <1>2 DEF ProcessingSuccess, BatchType, BatchStatus
<1> HIDE DEF b
<1>4. /\ done \in ChainType /\ Epochs(done) = Epochs(c) /\ done.status = c.status
      /\ done.startEpoch = c.startEpoch /\ done.batches[e] = b
      /\ \A k \in Epochs(c) : k # e => done.batches[k] = c.batches[k]
      /\ Linked(done)
  BY <1>2, <1>3, SetBatchFacts
<1> HIDE DEF done
<1>5. ChainOK(done)
  <2>1. BlocksAreServed(done) BY <1>2, <1>3, <1>4 DEF BlocksAreServed, ChainOK
  <2> QED BY <1>2, <1>4, <2>1 DEF ChainOK, StoppedIsEmpty
<1>6. ~AdvanceThrows(done, e) BY <1>2, <1>4 DEF AdvanceThrows
<1>7. /\ c' \in RequestBatches(advanced) /\ requests' = requests \union Sent(advanced, c')
      /\ it' = NextIteration(Trigger(it))
      /\ known' = IF blocks = "full" THEN known \union {e} ELSE known
  BY <1>6 DEF ProcessSucceeds, done, b
<1>8. blocks # "empty" => Connected(e)
  <2>1. "success" \in Results(e, blocks) BY DEF ProcessSucceeds
  <2> QED BY <2>1 DEF Results
<1>9. /\ ChainOK(advanced) /\ Epochs(advanced) \subseteq Epochs(c)
      /\ \A k \in Epochs(c) : k >= e => k \in Epochs(advanced)
      /\ \A k \in Epochs(advanced) : advanced.batches[k] = done.batches[k]
      /\ blocks = "empty" => advanced.startEpoch = c.startEpoch
      /\ blocks # "empty" => advanced.startEpoch = e
  <2>1. CASE blocks = "empty" BY <1>4, <1>5, <2>1
  <2>2. CASE blocks # "empty"
    <3>1. advanced = AdvanceChain(done, e) BY <2>2
    <3> HIDE DEF advanced
    <3> QED BY <1>2, <1>4, <1>5, <2>2, <3>1, AdvanceFacts
  <2> QED BY <2>1, <2>2
<1> HIDE DEF advanced
<1>10. Matched(advanced, requests)
  <2>1. \A k \in Epochs(advanced) : advanced.batches[k].status = "Downloading" =>
           k \in Epochs(c) /\ advanced.batches[k] = c.batches[k]
    BY <1>3, <1>4, <1>9
  <2>2. \A k \in Epochs(c) : c.batches[k].status = "Downloading" =>
           k \in Epochs(advanced) /\ advanced.batches[k] = c.batches[k]
    BY <1>2, <1>4, <1>9
  <2> QED BY <1>2, <2>1, <2>2, MatchedStays
<1>11. Ranked(advanced) /\ ~IsProcessing(advanced)
  <2>1. \A k \in Epochs(advanced) : k <= e => advanced.batches[k].status = "AwaitingValidation"
    BY <1>2, <1>3, <1>4, <1>9
  <2>2. \A k \in Epochs(advanced) : k > e => advanced.batches[k].status \notin {"AwaitingValidation", "Processing"}
    BY <1>2, <1>4, <1>9
  <2> QED BY <1>2, <1>9, <2>1, <2>2 DEF Ranked, IsProcessing, WithStatus
<1>12. LoopFits(advanced, it') BY <1>2, <1>7, <1>11, NextTurnFits
<1>13. known' \in SUBSET WithBlocks
  BY <1>2, <1>7 DEF ChainOK, BlocksAreServed
<1>14. \A k \in WithBlocks : k < advanced.startEpoch => k \in known'
  BY <1>2, <1>7, <1>8, <1>9 DEF Connected
<1> QED BY <1>2, <1>7, <1>9, <1>10, <1>12, <1>13, <1>14, StepKeeps

\* A batch that fails to be processed is to be downloaded again, or has failed too often.
LEMMA ProcessingErrorFacts ==
    ASSUME NEW b \in BatchType
    PROVE  LET new == OnProcessingError(b)
           IN  /\ new \in BatchType /\ new.blocks \in {b.blocks, None}
               /\ ProcessingAttemptsLeft(b) => new.status = "AwaitingDownload"
               /\ ~ProcessingAttemptsLeft(b) => new.status = b.status
<1> DEFINE attempts == Append(b.failedProcessingAttempts, [peer |-> b.peer, blocks |-> b.blocks])
<1>1. attempts \in Seq([peer : Peers \union {None}, blocks : BlockSets]) BY DEF BatchType
<1> HIDE DEF attempts
<1>2. OnProcessingError(b) = IF ProcessingAttemptsLeft(b)
        THEN [b EXCEPT !.failedProcessingAttempts = attempts, !.status = "AwaitingDownload",
                       !.peer = None, !.blocks = None]
        ELSE [b EXCEPT !.failedProcessingAttempts = attempts]
  BY DEF OnProcessingError, BatchType, attempts
<1>3. CASE ProcessingAttemptsLeft(b)
  <2>1. OnProcessingError(b) = [b EXCEPT !.failedProcessingAttempts = attempts,
                                 !.status = "AwaitingDownload", !.peer = None, !.blocks = None]
    BY <1>2, <1>3
  <2> QED BY <1>1, <1>3, <2>1 DEF BatchType, BatchStatus, BlockSets
<1>4. CASE ~ProcessingAttemptsLeft(b)
  <2>1. OnProcessingError(b) = [b EXCEPT !.failedProcessingAttempts = attempts] BY <1>2, <1>4
  <2> QED BY <1>1, <1>4, <2>1 DEF BatchType
<1> QED BY <1>3, <1>4

\* Batches that are not being downloaded fail to be processed.
LEMMA RetriedFacts ==
    ASSUME NEW ch, ChainOK(ch), NEW R \in SUBSET Epochs(ch)
    PROVE  LET new == [ch EXCEPT !.batches = [k \in DOMAIN @ |->
                         IF k \in R THEN OnProcessingError(@[k]) ELSE @[k]]]
           IN  /\ ChainOK(new) /\ Epochs(new) = Epochs(ch) /\ new.startEpoch = ch.startEpoch
               /\ \A k \in Epochs(ch) \ R : new.batches[k] = ch.batches[k]
               /\ \A k \in R : new.batches[k] = OnProcessingError(ch.batches[k])
<1> DEFINE B == [k \in Epochs(ch) |-> IF k \in R THEN OnProcessingError(ch.batches[k]) ELSE ch.batches[k]]
           new == [ch EXCEPT !.batches = [k \in DOMAIN @ |->
                     IF k \in R THEN OnProcessingError(@[k]) ELSE @[k]]]
<1>1. ch \in ChainType /\ Linked(ch) /\ BlocksAreServed(ch) /\ StoppedIsEmpty(ch) BY DEF ChainOK
<1>2. \A k \in Epochs(ch) : ch.batches[k] \in BatchType BY <1>1, ChainFacts
<1>3. \A k \in R : /\ OnProcessingError(ch.batches[k]) \in BatchType
                   /\ OnProcessingError(ch.batches[k]).blocks \in {ch.batches[k].blocks, None}
  BY <1>2, ProcessingErrorFacts
<1>4. B \in [Epochs(ch) -> BatchType] BY <1>2, <1>3
<1>5. B \in BatchMaps BY <1>1, <1>4, ChainFacts DEF BatchMaps
<1>6. new = [ch EXCEPT !.batches = B] BY <1>1 DEF Epochs, ChainType
<1> HIDE DEF new
<1>7. /\ new \in ChainType /\ new.batches = B /\ new.status = ch.status
      /\ new.startEpoch = ch.startEpoch
  <2> HIDE DEF B
  <2> QED BY <1>1, <1>5, <1>6 DEF ChainType
<1>8. Epochs(new) = Epochs(ch) BY <1>4, <1>7 DEF Epochs
<1>9. /\ \A k \in Epochs(ch) \ R : new.batches[k] = ch.batches[k]
      /\ \A k \in R : new.batches[k] = OnProcessingError(ch.batches[k])
  BY <1>7
<1>10. BlocksAreServed(new) BY <1>1, <1>3, <1>8, <1>9 DEF BlocksAreServed, None
<1>11. Linked(new) /\ StoppedIsEmpty(new) BY <1>1, <1>7, <1>8 DEF Linked, StoppedIsEmpty
<1> QED BY <1>7, <1>8, <1>9, <1>10, <1>11 DEF ChainOK, new

LEMMA ProcessFailsKeeps ==
    ASSUME SyncInv, NEW e \in Epochs(c), ProcessFails(e)
    PROVE  SyncInv'
<1> DEFINE b == OnProcessingError(c.batches[e])
           failed == SetBatch(c, e, b)
           advance(result) == IF result = "someImported" THEN AdvanceChain(failed, e) ELSE failed
           prev(ch) == {k \in Epochs(ch) : k < e}
           spent(ch) == {k \in prev(ch) : ~ProcessingAttemptsLeft(ch.batches[k])}
           retry(ch) == {k \in prev(ch) : spent(ch) = {} \/ k <= Min(spent(ch))}
           drop(ch) == [ch EXCEPT !.batches = [k \in DOMAIN @ |->
                          IF k \in retry(ch) THEN OnProcessingError(@[k]) ELSE @[k]]]
           Fail(ch, err) == /\ c' = ch
                            /\ it' = [it EXCEPT !.loop = "failing", !.error = err]
                            /\ UNCHANGED <<requests, reports>>
<1>1. it.loop = "processing" /\ e \in WithStatus(c, {"Processing"}) /\ UNCHANGED known
  BY DEF ProcessFails
<1>2. /\ ChainOK(c) /\ c \in ChainType /\ Linked(c) /\ c.status # "Stopped"
      /\ requests \in SUBSET Requests /\ Matched(c, requests)
      /\ it \in LoopType /\ ~Exhausted(it)
      /\ c.batches[e].status = "Processing" /\ c.batches[e] \in BatchType
      /\ Epochs(c) \subseteq Nat /\ e \in Nat
      /\ e >= c.startEpoch
      /\ \A k \in Epochs(c) : k < e => c.batches[k].status = "AwaitingValidation"
      /\ \A k \in Epochs(c) : k > e => c.batches[k].status \notin {"AwaitingValidation", "Processing"}
      /\ known \in SUBSET WithBlocks
      /\ \A k \in WithBlocks : k < c.startEpoch => k \in known
  BY <1>1, ProcessingFacts
<1>3. /\ b \in BatchType /\ b.blocks \in {c.batches[e].blocks, None}
      /\ ProcessingAttemptsLeft(c.batches[e]) => b.status = "AwaitingDownload"
      /\ ~ProcessingAttemptsLeft(c.batches[e]) => b.status = "Processing"
  BY <1>2, ProcessingErrorFacts
<1> DEFINE Outcome(result, ch) ==
             CASE ~ProcessingAttemptsLeft(c.batches[e]) -> Fail(failed, "MAX_PROCESSING_ATTEMPTS")
               [] OTHER ->
                  CASE result = "someImported" /\ AdvanceThrows(failed, e) -> Fail(failed, "WRONG_STATUS")
                    [] OTHER ->
                       IF \E k \in prev(ch) : ch.batches[k].status # "AwaitingValidation"
                       THEN Fail(drop(ch), "WRONG_STATUS")
                       ELSE IF spent(ch) # {} THEN Fail(drop(ch), "MAX_PROCESSING_ATTEMPTS")
                       ELSE /\ \E new \in RequestBatches(drop(ch)) :
                                 c' = new /\ requests' = requests \union Sent(drop(ch), new)
                            /\ it' = NextIteration(it)
                            /\ reports' = IF result = "someImported"
                                          THEN reports \union AdvanceReports(failed, e) ELSE reports
<1>4. PICK result \in Results(e, c.batches[e].blocks) \ {"success"} : Outcome(result, advance(result))
  BY DEF ProcessFails
<1> HIDE DEF b
<1>5. /\ failed \in ChainType /\ Epochs(failed) = Epochs(c) /\ failed.status = c.status
      /\ failed.startEpoch = c.startEpoch /\ failed.batches[e] = b
      /\ \A k \in Epochs(c) : k # e => failed.batches[k] = c.batches[k]
      /\ Linked(failed)
  BY <1>2, <1>3, SetBatchFacts
<1> HIDE DEF failed
<1>6. ChainOK(failed)
  <2>1. BlocksAreServed(failed) BY <1>2, <1>3, <1>5 DEF BlocksAreServed, ChainOK, None
  <2> QED BY <1>2, <1>5, <2>1 DEF ChainOK, StoppedIsEmpty
<1>7. ASSUME it' = [it EXCEPT !.loop = "failing", !.error = "MAX_PROCESSING_ATTEMPTS"], NEW ch
      PROVE  LoopFits(ch, it')
  <2>1. it' \in LoopType /\ it'.loop = "failing" /\ it'.error = "MAX_PROCESSING_ATTEMPTS"
    BY <1>2, <1>7 DEF LoopType, Over, Errors
  <2> QED BY <2>1 DEF LoopFits, Exhausted, Over
<1>8. CASE ~ProcessingAttemptsLeft(c.batches[e])
  <2>1. Fail(failed, "MAX_PROCESSING_ATTEMPTS") BY <1>4, <1>8
  <2>2. Matched(failed, requests)
    <3>1. b.status = "Processing" BY <1>3, <1>8
    <3> QED BY <1>2, <1>5, <3>1, MatchedStays
  <2>3. LoopFits(failed, it') BY <1>7, <2>1
  <2> QED BY <1>1, <1>2, <1>5, <1>6, <2>1, <2>2, <2>3, Settled
<1>9. CASE ProcessingAttemptsLeft(c.batches[e])
  <2> DEFINE ch == advance(result)
             new == drop(ch)
  <2>1. b.status = "AwaitingDownload" BY <1>3, <1>9
  <2>2. /\ ChainOK(ch) /\ Epochs(ch) \subseteq Epochs(c)
        /\ \A k \in Epochs(c) : k >= e => k \in Epochs(ch)
        /\ \A k \in Epochs(ch) : ch.batches[k] = failed.batches[k]
        /\ result # "someImported" => ch.startEpoch = c.startEpoch
        /\ result = "someImported" => ch.startEpoch = e
    <3>1. CASE result = "someImported"
      <4>1. ch = AdvanceChain(failed, e) BY <3>1
      <4> HIDE DEF ch
      <4> QED BY <1>2, <1>5, <1>6, <3>1, <4>1, AdvanceFacts
    <3>2. CASE result # "someImported" BY <1>5, <1>6, <3>2
    <3> QED BY <3>1, <3>2
  <2>3. result = "someImported" => Connected(e) BY <1>4 DEF Results
  <2>4. ~AdvanceThrows(failed, e) BY <1>2, <1>5 DEF AdvanceThrows
  <2> HIDE DEF advance
  <2>5. \A k \in prev(ch) : ch.batches[k].status = "AwaitingValidation" BY <1>2, <1>5, <2>2
  <2>6. \/ spent(ch) # {} /\ Fail(new, "MAX_PROCESSING_ATTEMPTS")
        \/ /\ spent(ch) = {}
           /\ c' \in RequestBatches(new) /\ requests' = requests \union Sent(new, c')
           /\ it' = NextIteration(it)
    BY <1>4, <1>9, <2>4, <2>5
  <2> DEFINE R == retry(ch)
  <2>7. R \in SUBSET Epochs(ch) /\ \A k \in R : k < e OBVIOUS
  <2>8. spent(ch) = {} => \A k \in Epochs(ch) : k < e => k \in R /\ ProcessingAttemptsLeft(ch.batches[k])
    OBVIOUS
  <2> HIDE DEF R, ch
  <2>9. /\ ChainOK(new) /\ Epochs(new) = Epochs(ch) /\ new.startEpoch = ch.startEpoch
        /\ \A k \in Epochs(ch) \ R : new.batches[k] = ch.batches[k]
        /\ \A k \in R : new.batches[k] = OnProcessingError(ch.batches[k])
    <3>1. new = [ch EXCEPT !.batches = [k \in DOMAIN @ |->
                   IF k \in R THEN OnProcessingError(@[k]) ELSE @[k]]]
      BY DEF R
    <3> HIDE DEF drop
    <3> QED BY <2>2, <2>7, <3>1, RetriedFacts
  <2> HIDE DEF new
  <2>10. \A k \in R : /\ ProcessingAttemptsLeft(ch.batches[k]) => new.batches[k].status = "AwaitingDownload"
                      /\ ~ProcessingAttemptsLeft(ch.batches[k]) => new.batches[k].status = "AwaitingValidation"
    <3> SUFFICES ASSUME NEW k \in R
                 PROVE  /\ ProcessingAttemptsLeft(ch.batches[k]) => new.batches[k].status = "AwaitingDownload"
                        /\ ~ProcessingAttemptsLeft(ch.batches[k]) => new.batches[k].status = "AwaitingValidation"
      OBVIOUS
    <3>1. k \in Epochs(ch) /\ ch.batches[k].status = "AwaitingValidation" BY <2>5, <2>7
    <3>2. ch.batches[k] \in BatchType BY <2>2, <3>1, ChainFacts DEF ChainOK
    <3> QED BY <2>9, <3>1, <3>2, ProcessingErrorFacts
  <2>11. Matched(new, requests)
    <3>1. \A k \in Epochs(new) : new.batches[k].status = "Downloading" =>
             k \in Epochs(c) /\ new.batches[k] = c.batches[k]
      BY <1>5, <2>1, <2>2, <2>9, <2>10
    <3>2. \A k \in Epochs(c) : c.batches[k].status = "Downloading" =>
             k \in Epochs(new) /\ new.batches[k] = c.batches[k]
      <4> SUFFICES ASSUME NEW k \in Epochs(c), c.batches[k].status = "Downloading"
                   PROVE  k \in Epochs(new) /\ new.batches[k] = c.batches[k]
        OBVIOUS
      <4>1. k \in Nat /\ k > e BY <1>2
      <4>2. k \in Epochs(ch) /\ k \notin R BY <1>2, <2>2, <2>7, <4>1
      <4> QED BY <1>2, <1>5, <2>2, <2>9, <4>1, <4>2
    <3> QED BY <1>2, <3>1, <3>2, MatchedStays
  <2>12. known' \in SUBSET WithBlocks /\ \A k \in WithBlocks : k < new.startEpoch => k \in known'
    BY <1>1, <1>2, <2>2, <2>3, <2>9 DEF Connected
  <2>13. CASE spent(ch) # {} /\ Fail(new, "MAX_PROCESSING_ATTEMPTS")
    <3>1. LoopFits(new, it') BY <1>7, <2>13
    <3> QED BY <1>2, <2>9, <2>11, <2>12, <2>13, <3>1, Settled
  <2>14. CASE /\ spent(ch) = {}
              /\ c' \in RequestBatches(new) /\ requests' = requests \union Sent(new, c')
              /\ it' = NextIteration(it)
    <3>1. \A k \in Epochs(ch) : k < e => new.batches[k].status = "AwaitingDownload"
      BY <2>8, <2>10, <2>14
    <3>2. \A k \in Epochs(ch) : k >= e => new.batches[k].status \notin {"AwaitingValidation", "Processing"}
      <4> SUFFICES ASSUME NEW k \in Epochs(ch), k >= e
                   PROVE  new.batches[k].status \notin {"AwaitingValidation", "Processing"}
        OBVIOUS
      <4>1. k \in Nat /\ k \notin R BY <1>2, <2>2, <2>7
      <4>2. new.batches[k] = failed.batches[k] BY <2>2, <2>9, <4>1
      <4> QED BY <1>2, <1>5, <2>1, <2>2, <4>1, <4>2
    <3>3. \A k \in Epochs(new) : new.batches[k].status \notin {"AwaitingValidation", "Processing"}
      BY <1>2, <2>2, <2>9, <3>1, <3>2
    <3>4. Ranked(new) /\ ~IsProcessing(new) BY <3>3 DEF Ranked, IsProcessing, WithStatus
    <3>5. LoopFits(new, it') BY <1>2, <2>14, <3>4, NextTurnFits
    <3> QED BY <1>2, <2>9, <2>11, <2>12, <2>14, <3>5, StepKeeps
  <2> QED BY <2>6, <2>13, <2>14
<1> QED BY <1>8, <1>9

LEMMA LoopFailsKeeps ==
    ASSUME SyncInv, LoopFails
    PROVE  SyncInv'
<1>1. /\ ChainOK(c) /\ c \in ChainType /\ requests \in SUBSET Requests /\ Matched(c, requests)
      /\ it \in LoopType /\ it.loop = "failing" /\ known \in SUBSET WithBlocks
      /\ it' = [it EXCEPT !.loop = "ended"] /\ UNCHANGED <<requests, known>>
      /\ \A e \in WithBlocks : e < c.startEpoch => e \in known
  BY DEF SyncInv, ChainOK, LoopFails, ValidatedIsImported
<1>2. c' = c \/ c' = [c EXCEPT !.status = "Error"] BY DEF LoopFails
<1>3. /\ c' \in ChainType /\ c'.status \in {c.status, "Error"} /\ c'.batches = c.batches
      /\ c'.startEpoch = c.startEpoch
  BY <1>1, <1>2 DEF ChainType, ChainStatuses
<1>4. Epochs(c') = Epochs(c) BY <1>3 DEF Epochs
<1>5. ChainOK(c') BY <1>1, <1>3, <1>4 DEF ChainOK, Linked, BlocksAreServed, StoppedIsEmpty
<1>6. Matched(c', requests) BY <1>1, <1>3, <1>4, MatchedStays
<1>7. (Ranked(c) => Ranked(c')) /\ (IsProcessing(c') <=> IsProcessing(c))
  BY <1>3, <1>4 DEF Ranked, IsProcessing, WithStatus
<1>8. LoopKept(it, it') BY <1>1 DEF LoopKept, LoopType, Exhausted, Over
<1>9. LoopFits(c', it') BY <1>7, <1>8, KeptLoopFits
<1> QED BY <1>1, <1>3, <1>5, <1>6, <1>9, Settled

LEMMA StutterKeepsSync ==
    ASSUME SyncInv, UNCHANGED vars
    PROVE  SyncInv'
<1>1. LoopKept(it, it) BY TriggerKeepsLoop DEF SyncInv
<1>2. LoopFits(c, it) BY <1>1, KeptLoopFits
<1>3. UNCHANGED <<c, it, requests, known>> BY DEF vars
<1> QED BY <1>2, <1>3, Settled DEF SyncInv, ValidatedIsImported

-----------------------------------------------------------------------------
LEMMA SoundFromInv == SyncInv => ChainIsSound
<1> SUFFICES ASSUME SyncInv PROVE ChainIsSound OBVIOUS
<1>1. /\ ChainOK(c) /\ c \in ChainType /\ Linked(c) /\ requests \in SUBSET Requests
      /\ Matched(c, requests) /\ it \in LoopType
  BY DEF SyncInv, ChainOK
<1>2. TypeOK
  <2>1. /\ DOMAIN c.peerset \subseteq Peers
        /\ \A e \in Epochs(c) : c.batches[e] \in BatchType
    BY <1>1, ChainFacts
  <2>2. \A e \in Epochs(c) : c.batches[e].status \in BatchStatus /\ c.batches[e].peer \in Peers \union {None}
    BY <2>1 DEF BatchType
  <2>3. /\ c.status \in {"Stopped", "Syncing", "Synced", "Error"}
        /\ c.startEpoch \in Nat /\ c.validatedEpochs \in Nat
        /\ c.target \in Targets \union {NoTarget}
    BY <1>1 DEF ChainType, ChainStatuses
  <2>4. /\ it.loop \in {"waiting", "resumed", "failing", "processing", "ended", "done"}
        /\ it.triggered \in BOOLEAN
    BY <1>1 DEF LoopType, Over
  <2>5. known \subseteq WithBlocks /\ requests \subseteq [epoch : Nat, peer : Peers]
    BY <1>1 DEF SyncInv, Requests
  <2> QED BY <2>1, <2>2, <2>3, <2>4, <2>5 DEF TypeOK
<1>3. BatchesInOrder
  <2>1. \A e \in Epochs(c) : e = c.startEpoch \/ e - EPOCHS_PER_BATCH \in Epochs(c) BY <1>1 DEF Linked
  <2>2. \A e \in Epochs(c) : e >= c.startEpoch BY <1>1 DEF Linked
  <2>3. ASSUME it.error # "MAX_PROCESSING_ATTEMPTS"
        PROVE  BatchesStatusValid(c) /\ ((it.loop = "processing") <=> (WithStatus(c, {"Processing"}) # {}))
    <3>1. Ranked(c) /\ ((it.loop = "processing") <=> IsProcessing(c)) BY <2>3 DEF SyncInv, Exhausted
    <3> QED BY <1>1, <3>1, RankedIsValid DEF IsProcessing
  <2> QED BY <2>1, <2>2, <2>3 DEF BatchesInOrder
<1>4. RequestsMatchBatches BY <1>1 DEF Matched, RequestsMatchBatches
<1>5. NeverWrongStatus BY <1>1 DEF NeverWrongStatus, LoopType, Errors, None
<1>6. ValidatedIsImported BY DEF SyncInv
<1> QED BY <1>2, <1>3, <1>4, <1>5, <1>6 DEF ChainIsSound

LEMMA InitKeepsSync == Init => SyncInv
<1> SUFFICES ASSUME Init PROVE SyncInv OBVIOUS
<1>1. PICK p \in Peers, t \in Targets :
        c = [status |-> "Stopped", startEpoch |-> 0, validatedEpochs |-> 0, target |-> t,
             peerset |-> [q \in {p} |-> t], batches |-> <<>>]
  BY DEF Init
<1>2. [q \in {p} |-> t] \in PeerMaps
  <2>1. [q \in {p} |-> t] \in [{p} -> Targets] /\ {p} \in SUBSET Peers OBVIOUS
  <2> QED BY <2>1 DEF PeerMaps
<1>3. c.batches = <<>> /\ DOMAIN c.batches = {} BY <1>1
<1>4. c.batches \in BatchMaps
  <2>1. c.batches = [k \in {} |-> c.batches[k]] BY <1>3
  <2>2. c.batches \in [{} -> BatchType] BY <2>1
  <2>3. {} \in {E \in SUBSET Nat : IsFiniteSet(E)} BY FS_EmptySet
  <2> QED BY <2>2, <2>3 DEF BatchMaps
<1>5. c \in ChainType /\ c.startEpoch = 0
  <2>1. c = [status |-> "Stopped", startEpoch |-> 0, validatedEpochs |-> 0, target |-> t,
             peerset |-> [q \in {p} |-> t], batches |-> c.batches]
    BY <1>1, <1>3
  <2> QED BY <1>1, <1>2, <1>4 DEF ChainType, ChainStatuses
<1>6. Epochs(c) = {} BY <1>3 DEF Epochs
<1>7. ChainOK(c) BY <1>5, <1>6 DEF ChainOK, Linked, BlocksAreServed, StoppedIsEmpty
<1>8. requests = {} /\ known = {} /\ it = [loop |-> "waiting", triggered |-> FALSE, error |-> None]
  BY DEF Init
<1>9. Matched(c, requests) BY <1>6, <1>8 DEF Matched, WithStatus
<1>10. it \in LoopType /\ it.loop = "waiting" /\ ~Exhausted(it)
  BY <1>8 DEF LoopType, Errors, Exhausted, None
<1>11. Ranked(c) /\ ~IsProcessing(c) BY <1>6 DEF Ranked, IsProcessing, WithStatus
<1>12. ValidatedIsImported BY <1>5, EpochsAssumption DEF ValidatedIsImported
<1> QED BY <1>7, <1>8, <1>9, <1>10, <1>11, <1>12 DEF SyncInv

\* However peers come, go, answer late, fail or send wrong blocks, and however often
\* RangeSync updates the chain meanwhile: batches stay in order and without gaps, every
\* request under way has its one batch, what is taken as validated is imported, and
\* the batch state machine is never driven out of order.
THEOREM ChainStaysSound == Spec => []ChainIsSound
<1>1. Init => SyncInv BY InitKeepsSync
<1>2. SyncInv /\ [Next]_vars => SyncInv'
  <2> SUFFICES ASSUME SyncInv, [Next]_vars PROVE SyncInv' OBVIOUS
  <2>1. ASSUME NEW p \in Peers, NEW t \in Targets, AddPeer(p, t) PROVE SyncInv' BY <2>1, AddPeerKeeps
  <2>2. ASSUME NEW p \in Peers, RemovePeer(p) PROVE SyncInv' BY <2>2, RemovePeerKeeps
  <2>3. CASE OtherChainUpdates BY <2>3, OtherChainUpdatesKeeps
  <2>4. ASSUME NEW r \in requests, DownloadSucceeds(r) PROVE SyncInv' BY <2>4, DownloadSucceedsKeeps
  <2>5. ASSUME NEW r \in requests, DownloadFails(r) PROVE SyncInv' BY <2>5, DownloadFailsKeeps
  <2>6. CASE LoopTurn BY <2>6, LoopTurnKeeps
  <2>7. ASSUME NEW e \in Epochs(c), ProcessSucceeds(e) PROVE SyncInv' BY <2>7, ProcessSucceedsKeeps
  <2>8. ASSUME NEW e \in Epochs(c), ProcessFails(e) PROVE SyncInv' BY <2>8, ProcessFailsKeeps
  <2>9. CASE LoopFails BY <2>9, LoopFailsKeeps
  <2>10. CASE OnSyncChainEnd BY <2>10, OnSyncChainEndKeeps
  <2>11. CASE UNCHANGED vars BY <2>11, StutterKeepsSync
  <2> QED BY <2>1, <2>2, <2>3, <2>4, <2>5, <2>6, <2>7, <2>8, <2>9, <2>10, <2>11 DEF Next
<1>3. SyncInv => ChainIsSound BY SoundFromInv
<1> QED BY <1>1, <1>2, <1>3, PTL DEF Spec

-----------------------------------------------------------------------------
(* The peer manager, in the registers that MCSync.tla gives it. *)

open == r1
closing == r2
syncPeers == r11

USE DEF open, closing, syncPeers

\* The peers of the sync are peers, and each of their connections is open or closing.
ConnectionsInv ==
    /\ open \in [Remotes -> SUBSET Man!Directions]
    /\ closing \in [Remotes -> SUBSET Man!Directions]
    /\ syncPeers \subseteq Remotes
    /\ Man!SyncPeersAreConnected

\* libp2p keeps a connection among the closing ones until it is closed.
LEMMA HangUpKeepsConnections ==
    ASSUME ConnectionsInv, NEW p \in Remotes, Man!HangUp(p), UNCHANGED syncPeers
    PROVE  ConnectionsInv'
BY DEF ConnectionsInv, Man!SyncPeersAreConnected, Man!HangUp

\* What touches neither connections nor the peers of the sync.
LEMMA OtherStepsKeepConnections ==
    ASSUME ConnectionsInv, UNCHANGED <<open, closing, syncPeers>>
    PROVE  ConnectionsInv'
BY DEF ConnectionsInv, Man!SyncPeersAreConnected

LEMMA PeersConnectFirst == Man!Init => ConnectionsInv
BY DEF Man!Init, ConnectionsInv, Man!SyncPeersAreConnected

LEMMA PeerManagerKeepsConnections ==
    ASSUME ConnectionsInv, [Man!Next]_(Man!vars)
    PROVE  ConnectionsInv'
<1>1. CASE Man!CheckTimeouts \/ Man!Heartbeat \/ \E s \in Subnets : Man!DiscoverSubnetPeers(s)
  BY <1>1, OtherStepsKeepConnections
     DEF Man!CheckTimeouts, Man!Heartbeat, Man!DiscoverSubnetPeers, Man!connVars
<1>2. ASSUME NEW p \in Remotes,
             Man!DialFails(p) \/ Man!Ping(p) \/ Man!OnMetadata(p) \/ Man!ReportPeer(p)
               \/ Man!BanTimePasses(p) \/ Man!RemoteMetadata(p) \/ \E k \in Man!Kinds : Man!RequestFails(k, p)
      PROVE  ConnectionsInv'
  BY <1>2, OtherStepsKeepConnections
     DEF Man!DialFails, Man!Ping, Man!OnMetadata, Man!ReportPeer, Man!BanTimePasses,
         Man!RemoteMetadata, Man!RequestFails, Man!connVars
<1>3. ASSUME NEW p \in Remotes, Man!RemoteCloses(p) \/ Man!OnGoodbye(p) \/ Man!GoodbyeAndDisconnect(p)
      PROVE  ConnectionsInv'
  BY <1>3, HangUpKeepsConnections DEF Man!RemoteCloses, Man!OnGoodbye, Man!GoodbyeAndDisconnect
<1>4. ASSUME NEW p \in Remotes, NEW d \in Man!Directions, Man!OnLibp2pPeerConnect(p, d)
      PROVE  ConnectionsInv'
  BY <1>4 DEF Man!OnLibp2pPeerConnect, ConnectionsInv, Man!SyncPeersAreConnected
<1>5. ASSUME NEW p \in Remotes, NEW d \in Man!Directions, Man!ConnectionClosed(p, d)
      PROVE  ConnectionsInv'
  BY <1>5
     DEF Man!ConnectionClosed, Man!OnLibp2pPeerDisconnect, ConnectionsInv, Man!SyncPeersAreConnected
<1>6. ASSUME NEW p \in Remotes, NEW s \in Statuses, Man!Status(p, s) PROVE ConnectionsInv'
  BY <1>6 DEF Man!Status, Man!OnStatus, Man!connVars, ConnectionsInv, Man!SyncPeersAreConnected
<1>7. ASSUME NEW ps \in SUBSET Remotes, Man!ReStatusPeers(ps) PROVE ConnectionsInv'
  BY <1>7, OtherStepsKeepConnections DEF Man!ReStatusPeers, Man!connVars
<1>8. CASE UNCHANGED Man!vars
  BY <1>8, OtherStepsKeepConnections DEF Man!vars, Man!connVars
<1> QED BY <1>1, <1>2, <1>3, <1>4, <1>5, <1>6, <1>7, <1>8 DEF Man!Next

\* Whatever order connections, statuses, goodbyes and heartbeats come in, and however
\* late the answers are, the sync counts only on peers that libp2p has a connection to
\* (peerManager.ts).
THEOREM SyncPeersStayConnected == MCSpec => []SyncPeersAreConnected
<1> DEFINE Inv == part = "peers" => ConnectionsInv
<1>1. MCInit => Inv BY PeersConnectFirst DEF MCInit
<1>2. Inv /\ [MCNext]_allVars => Inv'
  <2> SUFFICES ASSUME Inv, [MCNext]_allVars, part' = "peers" PROVE ConnectionsInv' OBVIOUS
  <2>1. part = "peers" BY DEF MCNext, Ends, Ranging, Peer, allVars
  <2>2. CASE UNCHANGED allVars
    <3>1. UNCHANGED Man!vars
      BY <2>2 DEF allVars, registers, from8, Man!vars, Man!connVars, Man!scoreVars
    <3> QED BY <2>1, <3>1, PeerManagerKeepsConnections
  <2>3. CASE MCNext
    <3>1. Man!Next BY <2>1, <2>3 DEF MCNext, Ends, Ranging, Peer
    <3> QED BY <2>1, <3>1, PeerManagerKeepsConnections
  <2> QED BY <2>2, <2>3
<1>3. Inv => SyncPeersAreConnected BY DEF ConnectionsInv, SyncPeersAreConnected
<1> QED BY <1>1, <1>2, <1>3, PTL DEF MCSpec
=============================================================================
