----------------------------- MODULE SyncChain ------------------------------
(***************************************************************************)
(* A chain of range sync, packages/lodestar/src/sync/range/chain.ts, with  *)
(* its batches, batch.ts, and the part of RangeSync that drives it.  Batches of blocks are downloaded *)
(* in parallel from the peers of the chain and processed in order.         *)
(*                                                                         *)
(* c holds the fields of the SyncChain object.  it is the ItTrigger and    *)
(* the loop of sync() that iterates over it.  Each action is one callback  *)
(* of the event loop, from one await to the next.                          *)
(*                                                                         *)
(* Peers outside Faulty send the blocks of the canonical chain.  A faulty  *)
(* peer may leave out the last blocks of a batch ("short"), leave out all  *)
(* of them ("empty") or send an invalid block ("bad").                     *)
(***************************************************************************)
EXTENDS Integers, Sequences, FiniteSets, FiniteSetsExt, SequencesExt

CONSTANTS
    MAX_BATCH_DOWNLOAD_ATTEMPTS,
    MAX_BATCH_PROCESSING_ATTEMPTS,
    Peers,
    Faulty,             \* the peers that may send wrong blocks
    Targets,            \* the target slots peers may announce
    WithBlocks,         \* start epochs of the batches that have blocks; the others are skip slots
    SLOTS_PER_EPOCH,
    EPOCHS_PER_BATCH,
    BATCH_BUFFER_SIZE,
    FinalizedEpochs     \* bound: local finalized epochs when the chain is started

NoTarget == -1
None == "none"

ASSUME AttemptsAssumption ==
    {MAX_BATCH_DOWNLOAD_ATTEMPTS, MAX_BATCH_PROCESSING_ATTEMPTS} \subseteq Nat

ASSUME PeersAssumption == Faulty \subseteq Peers /\ None \notin Peers /\ IsFiniteSet(Peers)
ASSUME EpochsAssumption ==
    /\ {SLOTS_PER_EPOCH, EPOCHS_PER_BATCH} \subseteq Nat \ {0}
    /\ BATCH_BUFFER_SIZE \in Nat
    /\ WithBlocks \subseteq Nat /\ FinalizedEpochs \subseteq Nat
    /\ \A e \in WithBlocks : e % EPOCHS_PER_BATCH = 0
    /\ Targets \subseteq Nat

VARIABLES
    c,         \* the SyncChain object
    it,        \* batchProcessor and the loop of sync()
    requests,  \* downloads under way: [epoch, peer]
    removed,   \* RangeSync has dropped the chain
    known,     \* external: the batches whose blocks are all in the fork choice
    reports    \* reportPeer calls: [peer, why]

vars == <<c, it, requests, removed, known, reports>>

ComputeStartSlotAtEpoch(epoch) == epoch * SLOTS_PER_EPOCH

-----------------------------------------------------------------------------
(***************************************************************************)
(* Batches.  peer and blocks hold what the state of the batch carries in   *)
(* the code (the peer asked, the blocks it sent, or the attempt made of    *)
(* both); the hash of an attempt is its blocks.                            *)
(***************************************************************************)
BatchStatus == {"AwaitingDownload", "Downloading", "AwaitingProcessing", "Processing",
                "AwaitingValidation"}

NewBatch == [status |-> "AwaitingDownload", peer |-> None, blocks |-> None,
             failedDownloadAttempts |-> <<>>, failedProcessingAttempts |-> <<>>]

GetFailedPeers(b) ==
    LET downloads == b.failedDownloadAttempts
        attempts == b.failedProcessingAttempts
    IN {downloads[i] : i \in 1..Len(downloads)} \union {attempts[i].peer : i \in 1..Len(attempts)}

StartDownloading(b, peer) == [b EXCEPT !.status = "Downloading", !.peer = peer]

DownloadingSuccess(b, blocks) == [b EXCEPT !.status = "AwaitingProcessing", !.blocks = blocks]

\* A batch that fails once too often throws, and stays in its status.
DownloadAttemptsLeft(b) == Len(b.failedDownloadAttempts) < MAX_BATCH_DOWNLOAD_ATTEMPTS

DownloadingError(b) ==
    LET failed == [b EXCEPT !.failedDownloadAttempts = Append(@, b.peer)]
    IN IF DownloadAttemptsLeft(b)
       THEN [failed EXCEPT !.status = "AwaitingDownload", !.peer = None] ELSE failed

StartProcessing(b) == [b EXCEPT !.status = "Processing"]

ProcessingSuccess(b) == [b EXCEPT !.status = "AwaitingValidation"]

ProcessingAttemptsLeft(b) == Len(b.failedProcessingAttempts) < MAX_BATCH_PROCESSING_ATTEMPTS

\* onProcessingError, for processingError and validationError.
OnProcessingError(b) ==
    LET failed == [b EXCEPT !.failedProcessingAttempts =
                              Append(@, [peer |-> b.peer, blocks |-> b.blocks])]
    IN IF ProcessingAttemptsLeft(b)
       THEN [failed EXCEPT !.status = "AwaitingDownload", !.peer = None, !.blocks = None]
       ELSE failed

-----------------------------------------------------------------------------
\* ItTrigger.  loop says where the for-await loop of sync() is: waiting in
\* next(), resumed with a value, failing with the error, processing a batch,
\* ended (sync() has returned, onEnd is due) or done.
Running == {"resumed", "processing"}

Trigger(i) ==
    CASE i.loop = "waiting" -> [i EXCEPT !.loop = "resumed"]
      [] i.loop \in Running -> [i EXCEPT !.triggered = TRUE]
      [] OTHER -> i

End(i, err) ==
    CASE i.loop = "waiting" -> [i EXCEPT !.loop = "failing", !.error = err]
      [] i.loop \in Running -> [i EXCEPT !.error = err]
      [] OTHER -> i

\* Mutant: a trigger that came while the loop was busy is lost.
NextIterationForgets(i) == [i EXCEPT !.loop = IF i.error # None THEN "failing" ELSE "waiting", !.triggered = FALSE]

NextIteration(i) ==
    CASE i.error # None -> [i EXCEPT !.loop = "failing"]
      [] i.error = None /\ i.triggered -> [i EXCEPT !.loop = "resumed", !.triggered = FALSE]
      [] OTHER -> [i EXCEPT !.loop = "waiting"]

-----------------------------------------------------------------------------
Epochs(ch) == DOMAIN ch.batches
WithStatus(ch, statuses) == {e \in Epochs(ch) : ch.batches[e].status \in statuses}
SetBatch(ch, e, b) == [ch EXCEPT !.batches = [k \in Epochs(ch) \union {e} |->
                                                IF k = e THEN b ELSE ch.batches[k]]]

\* getNextBatchToProcess: the first batch that does not await validation, if it
\* is downloaded.
GetNextBatchToProcess(ch) ==
    LET rest == Epochs(ch) \ WithStatus(ch, {"AwaitingValidation"})
    IN {e \in rest : ch.batches[e].status = "AwaitingProcessing" /\ e = Min(rest)}

ToBeProcessedStartEpoch(ch) ==
    LET processed == WithStatus(ch, {"AwaitingValidation"})
    IN IF processed = {} THEN ch.startEpoch ELSE Max(processed) + EPOCHS_PER_BATCH

ToBeDownloadedStartEpoch(ch) ==
    IF Epochs(ch) = {} THEN ch.startEpoch ELSE Max(Epochs(ch)) + EPOCHS_PER_BATCH

\* validateBatchesStatus: [AwaitingValidation]* [Processing]? [the others]*
BatchesStatusValid(ch) ==
    LET rank(e) == CASE ch.batches[e].status = "AwaitingValidation" -> 0
                     [] ch.batches[e].status = "Processing" -> 1
                     [] OTHER -> 2
    IN /\ \A e, f \in Epochs(ch) : e < f => rank(e) <= rank(f)
       /\ Cardinality(WithStatus(ch, {"Processing"})) <= 1

\* computeTarget: a target as common as any; which one wins a tie depends on
\* the order in which the peers came.
ComputeTarget(peerset) ==
    LET count(t) == Cardinality({p \in DOMAIN peerset : peerset[p] = t})
        announced == {peerset[p] : p \in DOMAIN peerset}
    IN IF announced = {} THEN {NoTarget}
       ELSE {t \in announced : \A u \in announced : count(u) <= count(t)}

\* The peers of the chain that the balancer may pick for a batch: those that did
\* not fail it first, then the least busy; ties are shuffled.
ActiveRequests(ch, p) == Cardinality({e \in WithStatus(ch, {"Downloading"}) : ch.batches[e].peer = p})

BestPeersToRetryBatch(ch, e) ==
    LET peers == DOMAIN ch.peerset
        fresh == peers \ GetFailedPeers(ch.batches[e])
        candidates == IF fresh = {} THEN peers ELSE fresh
    IN {p \in candidates : \A q \in candidates : ActiveRequests(ch, p) <= ActiveRequests(ch, q)}

IdlePeers(ch) == {p \in DOMAIN ch.peerset : ActiveRequests(ch, p) = 0}

\* includeNextBatch, called for one of n idle peers after the other until it adds
\* nothing: the epochs of the batches that are added, from the next one on.
IncludedEpochs(ch, n) ==
    LET epoch(k) == ToBeDownloadedStartEpoch(ch) + k * EPOCHS_PER_BATCH
        buffered == Cardinality(WithStatus(ch, {"Downloading", "AwaitingProcessing"}))
    IN {epoch(k) : k \in {k \in 0..(n - 1) :
          /\ buffered + k <= BATCH_BUFFER_SIZE
          /\ ch.target # NoTarget => ComputeStartSlotAtEpoch(epoch(k)) + 1 <= ch.target
          /\ epoch(k) \notin Epochs(ch)}}

\* sendBatch up to its await, for batches that were downloaded before and for new ones.
RetryBatches(ch, peerOf) ==
    [ch EXCEPT !.batches = [e \in Epochs(ch) |->
        IF e \in DOMAIN peerOf THEN StartDownloading(ch.batches[e], peerOf[e]) ELSE ch.batches[e]]]
AddBatches(ch, peerOf) ==
    [ch EXCEPT !.batches = [e \in Epochs(ch) \union DOMAIN peerOf |->
        IF e \in DOMAIN peerOf THEN StartDownloading(NewBatch, peerOf[e]) ELSE ch.batches[e]]]

\* requestBatches: every batch that awaits download is sent to a best peer, then
\* idle peers, each at most once and in a random order, get the new batches.  The
\* balancer counts the requests of before.
RequestBatches(ch) ==
    LET waiting == WithStatus(ch, {"AwaitingDownload"})
        idle == IdlePeers(ch)
        retried == {RetryBatches(ch, f) : f \in {f \in [waiting -> DOMAIN ch.peerset] :
                       \A e \in waiting : f[e] \in BestPeersToRetryBatch(ch, e)}}
    IN IF ch.status # "Syncing" \/ DOMAIN ch.peerset = {} THEN {ch}
       ELSE UNION {{AddBatches(d, g) : g \in Injection(IncludedEpochs(d, Cardinality(idle)), idle)} :
                     d \in retried}

\* The requests that triggerBatchDownloader sent between two states of the chain.
Sent(old, new) ==
    {[epoch |-> e, peer |-> new.batches[e].peer] :
       e \in {k \in WithStatus(new, {"Downloading"}) : k \notin WithStatus(old, {"Downloading"})}}

\* Mutant: the batch that imported a block is taken as validated too.
AdvancePastBatch(ch, newStartEpoch) ==
    [ch EXCEPT !.batches = [e \in {k \in Epochs(ch) : k > newStartEpoch} |-> ch.batches[e]],
               !.startEpoch = newStartEpoch + EPOCHS_PER_BATCH]

\* advanceChain: drop the batches before newStartEpoch.
AdvanceChain(ch, newStartEpoch) ==
    LET dropped == {e \in Epochs(ch) : e < newStartEpoch}
    IN IF newStartEpoch <= ch.startEpoch THEN ch
       ELSE [ch EXCEPT !.batches = [e \in Epochs(ch) \ dropped |-> ch.batches[e]],
                       !.validatedEpochs = @ + EPOCHS_PER_BATCH * Cardinality(dropped),
                       !.startEpoch = newStartEpoch]

\* advanceChain throws when a dropped batch was not processed.
AdvanceThrows(ch, newStartEpoch) ==
    /\ newStartEpoch > ch.startEpoch
    /\ \E e \in Epochs(ch) : e < newStartEpoch /\ ch.batches[e].status # "AwaitingValidation"

\* The peers advanceChain reports: their attempt differs from the last one.
AdvanceReports(ch, newStartEpoch) ==
    IF newStartEpoch <= ch.startEpoch THEN {}
    ELSE UNION {LET b == ch.batches[e]
                    attempts == b.failedProcessingAttempts
                IN {[peer |-> attempts[i].peer, why |-> "InvalidBatch"] : i \in 
                      {k \in 1..Len(attempts) : attempts[k].blocks # b.blocks}} :
                  e \in {k \in Epochs(ch) : k < newStartEpoch}}

-----------------------------------------------------------------------------
\* External: the blocks of a batch that a peer may send.
Canonical(e) == IF e \in WithBlocks THEN "full" ELSE "empty"
Served(p, e) == {Canonical(e)} \union (IF p \notin Faulty THEN {}
                                      ELSE IF e \in WithBlocks THEN {"short", "empty", "bad"}
                                      ELSE {"bad"})

\* processChainSegment: blocks are imported if the blocks before them are known;
\* known blocks are skipped.
Connected(e) == \A k \in WithBlocks : k < e => k \in known

Results(e, blocks) ==
    CASE blocks = "empty" -> {"success"}
      [] blocks \in {"full", "short"} -> IF Connected(e) THEN {"success"} ELSE {"error"}
      [] OTHER -> IF Connected(e) THEN {"error", "someImported"} ELSE {"error"}

-----------------------------------------------------------------------------
\* RangeSync creates the chain for its first peer.
Init ==
    /\ \E p \in Peers, t \in Targets :
         c = [status |-> "Stopped", startEpoch |-> 0, validatedEpochs |-> 0, target |-> t,
              peerset |-> [q \in {p} |-> t], batches |-> <<>>]
    /\ it = [loop |-> "waiting", triggered |-> FALSE, error |-> None]
    /\ requests = {}
    /\ removed = FALSE
    /\ known = {}
    /\ reports = {}

\* startSyncing of a stopped chain, which has no batches yet.
StartSyncing(ch, i, sent) ==
    \E f \in FinalizedEpochs :
       LET aligned == ch.startEpoch + ((f - ch.startEpoch) \div EPOCHS_PER_BATCH) * EPOCHS_PER_BATCH
           advanced == AdvanceChain([ch EXCEPT !.status = "Syncing"], aligned)
       IN \E new \in RequestBatches(advanced) :
            /\ c' = new
            /\ requests' = requests \union sent \union Sent(ch, new)
            /\ it' = Trigger(i)
            /\ known' = known \union {e \in WithBlocks : e + EPOCHS_PER_BATCH <= f}

\* forkChoice.hasBlock of the target: it is imported once all blocks up to it are.
TargetKnown(ch) == \A e \in WithBlocks : ComputeStartSlotAtEpoch(e) < ch.target => e \in known

\* RangeSync.update for this chain, after ch, i and sent: drop it if it has ended,
\* has no peers or is outdated (our chain, which may also grow by gossip, has the
\* target), or start it unless another chain goes first.
Update(ch, i, sent) ==
    LET ended == ch.status \in {"Error", "Synced"} \/ DOMAIN ch.peerset = {} \/ TargetKnown(ch)
    IN \/ /\ ended \/ ch.target # NoTarget
          /\ removed' = TRUE
          /\ c' = ch
          /\ it' = End(i, "ABORTED")
          /\ requests' = requests \union sent
          /\ UNCHANGED known
       \/ /\ ~ended
          /\ c' = ch
          /\ it' = i
          /\ requests' = requests \union sent
          /\ UNCHANGED <<removed, known>>
       \/ /\ ~ended /\ ch.status = "Stopped"
          /\ StartSyncing(ch, i, sent)
          /\ UNCHANGED removed

\* RangeSync.addPeer: the peer joins the chain, and the chains are updated.
AddPeer(p, t) ==
    /\ ~removed
    /\ LET peerset == [q \in DOMAIN c.peerset \union {p} |-> IF q = p THEN t ELSE c.peerset[q]]
       IN \E target \in ComputeTarget(peerset) :
            \E new \in RequestBatches([c EXCEPT !.peerset = peerset, !.target = target]) :
               Update(new, it, Sent(c, new))
    /\ UNCHANGED reports

\* RangeSync.removePeer.
RemovePeer(p) ==
    /\ ~removed
    /\ p \in DOMAIN c.peerset
    /\ LET peerset == [q \in DOMAIN c.peerset \ {p} |-> c.peerset[q]]
       IN \E target \in ComputeTarget(peerset) :
            c' = [c EXCEPT !.peerset = peerset, !.target = target]
    /\ UNCHANGED <<it, requests, removed, known, reports>>

\* RangeSync.update when a peer joins or leaves another chain, or that chain ends.
OtherChainUpdates ==
    /\ ~removed
    /\ Update(c, it, {})
    /\ UNCHANGED reports

\* sendBatch after its await, on success and on failure.
DownloadSucceeds(r) ==
    /\ r \in requests
    /\ \E blocks \in Served(r.peer, r.epoch) :
         LET got == SetBatch(c, r.epoch, DownloadingSuccess(c.batches[r.epoch], blocks))
         IN \E new \in RequestBatches(got) :
              /\ c' = new
              /\ requests' = (requests \ {r}) \union Sent(got, new)
    /\ it' = Trigger(it)
    /\ UNCHANGED <<removed, known, reports>>

DownloadFails(r) ==
    /\ r \in requests
    /\ LET b == c.batches[r.epoch]
           failed == SetBatch(c, r.epoch, DownloadingError(b))
       IN /\ \E new \in RequestBatches(failed) :
               /\ c' = new
               /\ requests' = (requests \ {r}) \union Sent(failed, new)
          /\ it' = IF DownloadAttemptsLeft(b) THEN it ELSE End(it, "MAX_DOWNLOAD_ATTEMPTS")
    /\ UNCHANGED <<removed, known, reports>>

\* One turn of the loop of sync(): finish, process the next batch, or wait.
TargetReached == c.target # NoTarget /\ ComputeStartSlotAtEpoch(ToBeProcessedStartEpoch(c)) >= c.target

LoopTurn ==
    /\ it.loop = "resumed"
    /\ CASE c.status # "Syncing" -> it' = NextIteration(it) /\ UNCHANGED c
         [] c.status = "Syncing" /\ ~BatchesStatusValid(c) ->
              it' = [it EXCEPT !.loop = "failing", !.error = "INVALID_STATUS"] /\ UNCHANGED c
         [] c.status = "Syncing" /\ BatchesStatusValid(c) /\ TargetReached ->
              it' = [it EXCEPT !.loop = "ended"] /\ c' = [c EXCEPT !.status = "Synced"]
         [] OTHER ->
              IF GetNextBatchToProcess(c) = {} THEN it' = NextIteration(it) /\ UNCHANGED c
              ELSE \E e \in GetNextBatchToProcess(c) :
                     /\ c' = SetBatch(c, e, StartProcessing(c.batches[e]))
                     /\ it' = [it EXCEPT !.loop = "processing"]
    /\ UNCHANGED <<requests, removed, known, reports>>

\* processBatch after its await, when all blocks were processed.  It triggers the
\* next turn, and the turn begins as soon as the batch is done.
ProcessSucceeds(e) ==
    /\ it.loop = "processing"
    /\ e \in WithStatus(c, {"Processing"})
    /\ "success" \in Results(e, c.batches[e].blocks)
    /\ LET blocks == c.batches[e].blocks
           done == SetBatch(c, e, ProcessingSuccess(c.batches[e]))
           advanced == IF blocks = "empty" THEN done ELSE AdvanceChain(done, e)
       IN IF blocks # "empty" /\ AdvanceThrows(done, e)
          THEN /\ c' = done
               /\ it' = [it EXCEPT !.loop = "failing", !.error = "WRONG_STATUS"]
               /\ UNCHANGED <<requests, reports>>
          ELSE /\ \E new \in RequestBatches(advanced) :
                    c' = new /\ requests' = requests \union Sent(advanced, new)
               /\ it' = NextIteration(Trigger(it))
               /\ reports' = IF blocks = "empty" THEN reports
                             ELSE reports \union AdvanceReports(done, e)
    /\ known' = IF c.batches[e].blocks = "full" THEN known \union {e} ELSE known
    /\ UNCHANGED removed

\* processBatch after its await, on an error: the batch and all batches before it
\* are downloaded again, unless one has failed too often.
ProcessFails(e) ==
    /\ it.loop = "processing"
    /\ e \in WithStatus(c, {"Processing"})
    /\ \E result \in Results(e, c.batches[e].blocks) \ {"success"} :
         LET failed == SetBatch(c, e, OnProcessingError(c.batches[e]))
             advanced == IF result = "someImported" THEN AdvanceChain(failed, e) ELSE failed
             previous == {k \in Epochs(advanced) : k < e}
             exhausted == {k \in previous : ~ProcessingAttemptsLeft(advanced.batches[k])}
             retried == {k \in previous : exhausted = {} \/ k <= Min(exhausted)}
             dropped == [advanced EXCEPT !.batches = [k \in DOMAIN @ |->
                           IF k \in retried THEN OnProcessingError(@[k]) ELSE @[k]]]
             fail(ch, err) == /\ c' = ch
                              /\ it' = [it EXCEPT !.loop = "failing", !.error = err]
                              /\ UNCHANGED <<requests, reports>>
         IN CASE ~ProcessingAttemptsLeft(c.batches[e]) -> fail(failed, "MAX_PROCESSING_ATTEMPTS")
              [] OTHER ->
                 CASE result = "someImported" /\ AdvanceThrows(failed, e) -> fail(failed, "WRONG_STATUS")
                   [] OTHER ->
                      IF \E k \in previous : advanced.batches[k].status # "AwaitingValidation"
                      THEN fail(dropped, "WRONG_STATUS")
                      ELSE IF exhausted # {} THEN fail(dropped, "MAX_PROCESSING_ATTEMPTS")
                      ELSE /\ \E new \in RequestBatches(dropped) :
                                c' = new /\ requests' = requests \union Sent(dropped, new)
                           /\ it' = NextIteration(it)
                           /\ reports' = IF result = "someImported"
                                         THEN reports \union AdvanceReports(failed, e) ELSE reports
    /\ UNCHANGED <<removed, known>>

\* The catch block of sync().  An abort leaves the status as it is.
LoopFails ==
    /\ it.loop = "failing"
    /\ it' = [it EXCEPT !.loop = "ended"]
    /\ c' = IF it.error = "ABORTED" THEN c ELSE [c EXCEPT !.status = "Error"]
    /\ reports' = reports \union
         {[peer |-> p, why |-> it.error] : p \in {q \in DOMAIN c.peerset : it.error = "MAX_PROCESSING_ATTEMPTS"}}
    /\ UNCHANGED <<requests, removed, known>>

\* onEnd: RangeSync updates its chains.
OnSyncChainEnd ==
    /\ it.loop = "ended"
    /\ IF removed THEN it' = [it EXCEPT !.loop = "done"] /\ UNCHANGED <<c, requests, removed, known>>
       ELSE Update(c, [it EXCEPT !.loop = "done"], {})
    /\ UNCHANGED reports

Next ==
    \/ \E p \in Peers, t \in Targets : AddPeer(p, t)
    \/ \E p \in Peers : RemovePeer(p)
    \/ OtherChainUpdates
    \/ \E r \in requests : DownloadSucceeds(r)
    \/ \E r \in requests : DownloadFails(r)
    \/ LoopTurn
    \/ \E e \in Epochs(c) : ProcessSucceeds(e)
    \/ \E e \in Epochs(c) : ProcessFails(e)
    \/ LoopFails
    \/ OnSyncChainEnd

\* Requests end or time out, segments get processed, and the event loop runs every
\* callback that is due.  Nothing is assumed of peers or of other chains.
Fairness ==
    /\ WF_vars(\E r \in requests : DownloadSucceeds(r) \/ DownloadFails(r))
    /\ WF_vars(\E e \in Epochs(c) : ProcessSucceeds(e) \/ ProcessFails(e))
    /\ WF_vars(LoopTurn)
    /\ WF_vars(LoopFails)
    /\ WF_vars(OnSyncChainEnd)

Spec == Init /\ [][Next]_vars /\ Fairness

-----------------------------------------------------------------------------
\* The fields of the chain, of its trigger and of its batches have their types.
TypeOK ==
    /\ c.status \in {"Stopped", "Syncing", "Synced", "Error"}
    /\ c.startEpoch \in Nat /\ c.validatedEpochs \in Nat
    /\ c.target \in Targets \union {NoTarget}
    /\ DOMAIN c.peerset \subseteq Peers
    /\ \A e \in Epochs(c) : /\ c.batches[e].status \in BatchStatus
                            /\ c.batches[e].peer \in Peers \union {None}
    /\ it.loop \in {"waiting", "resumed", "failing", "processing", "ended", "done"}
    /\ it.triggered \in BOOLEAN
    /\ requests \subseteq [epoch : Nat, peer : Peers]
    /\ known \subseteq WithBlocks

\* "Sorted map of batches": they follow each other without gaps from startEpoch,
\* statuses in the order validateBatchesStatus asks for, and exactly one is being
\* processed while the loop is in processBatch.
BatchesInOrder ==
    /\ \A e \in Epochs(c) : e = c.startEpoch \/ e - EPOCHS_PER_BATCH \in Epochs(c)
    /\ \A e \in Epochs(c) : e >= c.startEpoch
    /\ it.error # "MAX_PROCESSING_ATTEMPTS" =>
         /\ BatchesStatusValid(c)
         /\ (it.loop = "processing") <=> (WithStatus(c, {"Processing"}) # {})

\* Every request under way is for a batch that is being downloaded from that peer,
\* one request per batch, and a batch that is being downloaded has its request
\* unless it has failed for good: no answer is dropped or applied twice.
RequestsMatchBatches ==
    /\ \A r \in requests : /\ r.epoch \in Epochs(c)
                            /\ c.batches[r.epoch].status = "Downloading"
                            /\ c.batches[r.epoch].peer = r.peer
    /\ \A e \in WithStatus(c, {"Downloading"}) :
          \/ \E r \in requests : r.epoch = e
          \/ Len(c.batches[e].failedDownloadAttempts) > MAX_BATCH_DOWNLOAD_ATTEMPTS

\* "The start of the chain segment. Any epoch previous to this one has been
\* validated": whatever faulty peers send, the blocks before startEpoch are all
\* imported.
ValidatedIsImported == \A e \in WithBlocks : e < c.startEpoch => e \in known

\* The batch state machine is never driven out of order.
NeverWrongStatus == it.error \notin {"WRONG_STATUS", "INVALID_STATUS"}

\* Batches stay in order without gap or overlap, a request under way has its batch,
\* what counts as validated is imported, and no batch is asked for what its status
\* does not allow (the code throws WrongStatus).
ChainIsSound ==
    TypeOK /\ BatchesInOrder /\ RequestsMatchBatches /\ ValidatedIsImported /\ NeverWrongStatus

\* A chain that is syncing and keeps having peers ends: it is synced, has failed,
\* or RangeSync drops it.
SyncEnds ==
    (c.status = "Syncing" /\ DOMAIN c.peerset # {})
        ~> (c.status # "Syncing" \/ DOMAIN c.peerset = {} \/ removed)

-----------------------------------------------------------------------------
(* What the sources say and the model refutes, see README.md. *)

\* "Will resolve when initial sync completes i.e. when it successfully processes a
\* epoch >= than this chain targetEpoch."
ResolvesAtTarget ==
    (c.status = "Syncing" /\ TargetReached) ~> (c.status # "Syncing" \/ ~TargetReached \/ removed)

\* "Permanently remove this chain": a removed chain asks no peer for more blocks.
RemovedChainIsQuiet == [][removed => requests' \subseteq requests]_vars

\* "Only request batches up to the buffer size limit."
BufferLimit ==
    Cardinality(WithStatus(c, {"Downloading", "AwaitingProcessing"})) <= BATCH_BUFFER_SIZE

\* "The last batch attempt is right, all others are wrong": no peer that only sends
\* the blocks of the canonical chain is reported for an invalid batch.
OnlyFaultyReported == \A r \in reports : r.why = "InvalidBatch" => r.peer \in Faulty
=============================================================================
