------------------------------ MODULE Archiver ------------------------------
(***************************************************************************)
(* Where a beacon node keeps the blocks and states of its chain: the tasks *)
(* that move what is finalized to the archive                              *)
(* (packages/lodestar/src/tasks), the repositories of blocks and states    *)
(* (db/repositories) and the restart from the last archived state          *)
(* (chain/initState.ts).                                                   *)
(*                                                                         *)
(* A block is imported at once, its record is written later.  The event of *)
(* a finalized checkpoint reaches the tasks later still, and two events    *)
(* may come in either order.  Tasks run one at a time, one action per      *)
(* access to the database; the process may end between any two of them.    *)
(*                                                                         *)
(* Left to chance: which checkpoint the post state of a block finalizes,   *)
(* and whether the state of a checkpoint is still cached when a task       *)
(* wants it (the checkpoint state cache evicts old epochs).                *)
(***************************************************************************)
EXTENDS Integers, Sequences, FiniteSets, FiniteSetsExt, SequencesExt

CONSTANTS
    Roots,           \* block roots other than the root of genesis
    Genesis,
    Parent,          \* Parent[r]: the parent root of block r
    Slot,            \* Slot[r]
    SLOTS_PER_EPOCH,
    BATCH_SIZE,      \* blocks that ArchiveBlocksTask moves at a time
    MAX_LENGTH,      \* tasks that may wait
    PERSIST_STATE_EVERY_EPOCHS,
    PERSIST_TEMP_STATE_EVERY_EPOCHS,
    MaxRestarts      \* bound: how often the process ends and starts again

AllRoots == Roots \union {Genesis}

VARIABLES
    nodes,       \* protoArray.nodes: roots in the order of their insertion
    fin,         \* the finalized checkpoint of the fork choice, [epoch, root]
    writing,     \* blocks whose record is being written
    hot,         \* db.block
    archive,     \* db.blockArchive
    stateDb,     \* db.stateArchive: the checkpoints whose state it holds
    announced,   \* finalized checkpoints whose event has not reached the tasks
    queue,       \* the tasks that wait: finalized checkpoints
    task,        \* the task that runs: what it does next, for which checkpoint, the blocks to move
    failed,      \* a task was refused or has ended early since the process started
    stopping,    \* TasksService.stop has been called
    stopStates,  \* history: the checkpoints whose state stop has archived
    restarts

db == <<hot, archive, stateDb>>
stop == <<stopping, stopStates>>
vars == <<nodes, fin, writing, db, announced, queue, task, failed, stop, restarts>>

-----------------------------------------------------------------------------
EpochOf(r) == Slot[r] \div SLOTS_PER_EPOCH
StartSlot(epoch) == epoch * SLOTS_PER_EPOCH
Checkpoint(epoch, root) == [epoch |-> epoch, root |-> root]

\* r and the blocks before it.
Lineage[r \in AllRoots] == IF r = Genesis THEN {r} ELSE {r} \union Lineage[Parent[r]]

\* External: the checkpoint of an epoch on the chain of r.
CheckpointOf(r, epoch) ==
    LET before == {b \in Lineage[r] : Slot[b] <= StartSlot(epoch)}
    IN Checkpoint(epoch, CHOOSE b \in before : \A d \in before : Slot[d] <= Slot[b])

NoTask == [at |-> "idle", cp |-> Checkpoint(0, Genesis), todo |-> <<>>]

Init ==
    LET genesis == Checkpoint(0, Genesis)
    IN /\ nodes = <<Genesis>> /\ fin = genesis
       /\ writing = {} /\ hot = {Genesis} /\ archive = {Genesis} /\ stateDb = {genesis}
       /\ announced = {} /\ queue = <<>> /\ task = NoTask /\ failed = FALSE
       /\ stopping = FALSE /\ stopStates = {}
       /\ restarts = 0

-----------------------------------------------------------------------------
(* The proto array, as far as the tasks look at it. *)

Known == Range(nodes)
IndexOf(r) == CHOOSE i \in 1..Len(nodes) : nodes[i] = r

\* r and its ancestors, the newest first, as far as the parents are known.
IterateNodes(r) ==
    LET up[x \in AllRoots] ==
          IF x # Genesis /\ Parent[x] \in Known THEN <<x>> \o up[Parent[x]] ELSE <<x>>
    IN IF r \in Known THEN up[r] ELSE <<>>

\* Mutant: the first one is left out as well.
WithoutFinalized(r) ==
    LET line == IterateNodes(r) IN SubSeq(line, 2, Len(line) - 1)

\* All but the last one, which is taken for the block finalized before.
IterateBlockSummaries(r) ==
    LET line == IterateNodes(r) IN SubSeq(line, 1, Len(line) - 1)

\* Mutant: blocks inserted after r count as well.
AllNonAncestors(r) == Known \ Range(IterateNodes(r))

\* What was inserted between two ancestors of r, or between the first node and the
\* oldest ancestor.
IterateNonAncestors(r) ==
    IF r \notin Known THEN {}
    ELSE {nodes[i] : i \in 2..IndexOf(r)} \ Range(IterateNodes(r))

-----------------------------------------------------------------------------
\* onBlock of the fork choice: the checkpoints that the post state of r may finalize.  The epoch after
\* a finalized one has been justified, so that two epochs have passed.
Finalizable(r) ==
    {CheckpointOf(r, e) : e \in (fin.epoch + 1)..(EpochOf(r) - 2)}

\* A block on the finalized chain enters the fork choice, and its record goes to the
\* database.  A new finalized checkpoint is announced.
ImportBlock(r, newFin) ==
    /\ r \notin Known /\ Parent[r] \in Known
    /\ fin.root \in Lineage[r] /\ Slot[r] > StartSlot(fin.epoch)
    /\ nodes' = Append(nodes, r)
    /\ writing' = writing \union {r}
    /\ fin' = newFin
    /\ announced' = IF newFin = fin THEN announced ELSE announced \union {newFin}
    /\ UNCHANGED <<db, queue, task, failed, stop, restarts>>

\* db.block.add has returned.
BlockWritten(r) ==
    /\ r \in writing
    /\ writing' = writing \ {r}
    /\ hot' = hot \union {r}
    /\ UNCHANGED <<nodes, fin, archive, stateDb, announced, queue, task, failed, stop, restarts>>

-----------------------------------------------------------------------------
(* The tasks. *)

\* The chain has handled the event of cp, and passes it on.  A full queue refuses the
\* task, and a service that stops no longer listens.
OnFinalizedCheckpoint(cp) ==
    /\ cp \in announced
    /\ announced' = announced \ {cp}
    /\ IF ~stopping /\ Len(queue) < MAX_LENGTH
       THEN queue' = Append(queue, cp) /\ UNCHANGED failed
       ELSE failed' = TRUE /\ UNCHANGED queue
    /\ UNCHANGED <<nodes, fin, writing, db, task, stop, restarts>>

\* processFinalizedCheckpoint, and ArchiveBlocksTask.run: the blocks to move.
StartTask ==
    /\ task = NoTask /\ queue # <<>>
    /\ queue' = Tail(queue)
    /\ task' = [at |-> "blocks", cp |-> Head(queue), todo |-> IterateBlockSummaries(Head(queue).root)]
    /\ UNCHANGED <<nodes, fin, writing, db, announced, failed, stop, restarts>>

Chunk == SubSeq(task.todo, 1, IF Len(task.todo) < BATCH_SIZE THEN Len(task.todo) ELSE BATCH_SIZE)

\* processCanonicalBlocks has read a chunk.  A block that is not there ends the task.
ReadChunk ==
    /\ task.at = "blocks" /\ task.todo # <<>>
    /\ IF Range(Chunk) \subseteq hot
       THEN task' = [task EXCEPT !.at = "move"] /\ UNCHANGED failed
       ELSE task' = NoTask /\ failed' = TRUE
    /\ UNCHANGED <<nodes, fin, writing, db, announced, queue, stop, restarts>>

ChunkDone == [task EXCEPT !.at = "blocks", !.todo = SubSeq(@, Len(Chunk) + 1, Len(@))]

\* The chunk is put into the archive and deleted, in whatever order.
PutChunk ==
    /\ task.at \in {"move", "deleted"}
    /\ archive' = archive \union Range(Chunk)
    /\ task' = IF task.at = "deleted" THEN ChunkDone ELSE [task EXCEPT !.at = "put"]
    /\ UNCHANGED <<nodes, fin, writing, hot, stateDb, announced, queue, failed, stop, restarts>>

DeleteChunk ==
    /\ task.at \in {"move", "put"}
    /\ hot' = hot \ Range(Chunk)
    /\ task' = IF task.at = "put" THEN ChunkDone ELSE [task EXCEPT !.at = "deleted"]
    /\ UNCHANGED <<nodes, fin, writing, archive, stateDb, announced, queue, failed, stop, restarts>>

DeleteNonCanonicalBlocks ==
    /\ task.at = "blocks" /\ task.todo = <<>>
    /\ hot' = hot \ IterateNonAncestors(task.cp.root)
    /\ task' = [task EXCEPT !.at = "state"]
    /\ UNCHANGED <<nodes, fin, writing, archive, stateDb, announced, queue, failed, stop, restarts>>

LastStoredEpoch == Max({cp.epoch : cp \in stateDb})

\* A state is filed under its slot, and takes the place of another one there.
Stored(cp) == {c \in stateDb : c.epoch # cp.epoch} \union {cp}

\* maybeArchiveState: the state is archived if the last one is old enough.  If it is
\* no longer cached, the task ends.
MaybeArchiveState(cached) ==
    LET due == task.cp.epoch - LastStoredEpoch > PERSIST_TEMP_STATE_EVERY_EPOCHS
    IN /\ task.at = "state"
       /\ stateDb' = IF due /\ cached THEN Stored(task.cp) ELSE stateDb
       /\ failed' = (failed \/ (due /\ ~cached))
       /\ task' = IF ~due THEN [task EXCEPT !.at = "prune"]
                  ELSE IF cached THEN [task EXCEPT !.at = "oldStates"] ELSE NoTask
       /\ UNCHANGED <<nodes, fin, writing, hot, archive, announced, queue, stop, restarts>>

\* Of the keys of an interval, all but the first.
ComputeEpochsToDelete(keys) ==
    {k \in keys : \E j \in keys :
        j < k /\ j \div PERSIST_STATE_EVERY_EPOCHS = k \div PERSIST_STATE_EVERY_EPOCHS}

\* The keys of the repository are slots; maybeArchiveState takes them for epochs.
DeleteOldStates ==
    LET key(cp) == StartSlot(cp.epoch)
        interval == (task.cp.epoch \div PERSIST_STATE_EVERY_EPOCHS) - 1
        from == Max({0, interval * PERSIST_STATE_EVERY_EPOCHS})
        stored == {k \in {key(cp) : cp \in stateDb} : from <= k /\ k < task.cp.epoch}
    IN /\ task.at = "oldStates"
       /\ stateDb' = {cp \in stateDb : key(cp) \notin ComputeEpochsToDelete(stored)}
       /\ task' = [task EXCEPT !.at = "prune"]
       /\ UNCHANGED <<nodes, fin, writing, hot, archive, announced, queue, failed, stop, restarts>>

\* The end of the task: the fork choice drops what was inserted before the finalized
\* block, and refuses a root that it does not know.
PruneForkChoice ==
    /\ task.at = "prune"
    /\ nodes' = IF task.cp.root \in Known THEN SubSeq(nodes, IndexOf(task.cp.root), Len(nodes)) ELSE nodes
    /\ task' = NoTask
    /\ UNCHANGED <<fin, writing, db, announced, queue, failed, stop, restarts>>

-----------------------------------------------------------------------------
\* TasksService.stop archives the finalized state, if it is cached, whatever the tasks
\* have still to do.  They go on until the process ends.
Stop(cached) ==
    /\ ~stopping /\ restarts < MaxRestarts
    /\ stopping' = TRUE
    /\ IF cached THEN stateDb' = Stored(fin) /\ stopStates' = stopStates \union {fin}
       ELSE UNCHANGED <<stateDb, stopStates>>
    /\ UNCHANGED <<nodes, fin, writing, hot, archive, announced, queue, task, failed, restarts>>

LastState == CHOOSE cp \in stateDb : cp.epoch = LastStoredEpoch

\* The process ends, stopped or not, and the next one starts from the last state of the
\* database: its block is the only one of the fork choice.
Restart ==
    /\ restarts < MaxRestarts
    /\ restarts' = restarts + 1
    /\ nodes' = <<LastState.root>> /\ fin' = LastState
    /\ writing' = {} /\ announced' = {} /\ queue' = <<>> /\ task' = NoTask
    /\ failed' = FALSE /\ stopping' = FALSE
    /\ UNCHANGED <<db, stopStates>>

TaskStep ==
    \/ StartTask \/ ReadChunk \/ PutChunk \/ DeleteChunk \/ DeleteNonCanonicalBlocks
    \/ \E cached \in BOOLEAN : MaybeArchiveState(cached)
    \/ DeleteOldStates \/ PruneForkChoice

Next ==
    \/ \E r \in Roots : \E newFin \in {fin} \union Finalizable(r) : ImportBlock(r, newFin)
    \/ \E r \in Roots : BlockWritten(r)
    \/ \E cp \in announced : OnFinalizedCheckpoint(cp)
    \/ TaskStep
    \/ \E cached \in BOOLEAN : Stop(cached)
    \/ Restart

\* Writes return, handlers of events end, and the queue runs its jobs.  Nothing makes
\* blocks arrive or the process end.
Fairness ==
    /\ \A r \in Roots : WF_vars(BlockWritten(r))
    /\ WF_vars(\E cp \in announced : OnFinalizedCheckpoint(cp))
    /\ WF_vars(TaskStep)

Spec == Init /\ [][Next]_vars /\ Fairness

-----------------------------------------------------------------------------
Checkpoints == [epoch : Nat, root : AllRoots]

\* Types: the fork choice holds known roots once each, the last finalized block among them.
TypeOK ==
    /\ nodes \in Seq(AllRoots) /\ IsInjective(nodes) /\ fin \in Checkpoints /\ fin.root \in Known
    /\ writing \subseteq Roots /\ hot \subseteq AllRoots /\ archive \subseteq AllRoots
    /\ stateDb \subseteq Checkpoints /\ announced \subseteq Checkpoints
    /\ queue \in Seq(Checkpoints) /\ Len(queue) <= MAX_LENGTH
    /\ task \in [at : {"idle", "blocks", "move", "put", "deleted", "state", "oldStates", "prune"},
                 cp : Checkpoints, todo : Seq(AllRoots)]
    /\ {failed, stopping} \subseteq BOOLEAN
    /\ stopStates \subseteq Checkpoints /\ restarts \in 0..MaxRestarts

\* A node can always restart from what its tasks have stored: under every archived
\* state, the archive holds each block of its chain, back to genesis or to a state that
\* was archived by stop and not by a task.  This is what "should be after
\* ArchiveBlocksTask to handle restart cleanly" (tasks/index.ts) is about: it has to
\* hold whenever the process ends, a chunk half moved included.
ArchiveIsComplete ==
    LET bases == {Checkpoint(0, Genesis)} \union stopStates
    IN \A cp \in stateDb : \E base \in bases :
          /\ base.root \in Lineage[cp.root]
          /\ Lineage[cp.root] \ Lineage[base.root] \subseteq archive

\* While the process runs, no block between the first one of the fork choice and the
\* finalized one is gone: it is being written, in one of the two repositories, or in
\* the memory of the task that moves it.
NothingFinalizedLost ==
    LET moving == IF task.at \in {"put", "deleted"} THEN Range(Chunk) ELSE {}
    IN \A r \in Range(IterateBlockSummaries(fin.root)) : r \in writing \union hot \union archive \union moving

\* The block of the finalized checkpoint is archived in the end, in whatever order
\* events and tasks come and also after a restart, unless a task is refused or ends
\* early, or stop archived a state of that block ahead of the tasks.
ArchivedOrExcused == fin.root \in archive \/ failed \/ \E cp \in stopStates : cp.root = fin.root
FinalizedIsArchived == []<>ArchivedOrExcused

-----------------------------------------------------------------------------
(* What the sources say and the model refutes, see README.md. *)

\* "Each run should move all finalized blocks to blockArhive db to make it consistent to
\* stateArchive": every archived state has the blocks of its chain in the archive.
ArchiveMatchesStates == \A cp \in stateDb : Lineage[cp.root] \subseteq archive

\* "the next run should not reprocess finalzied block of this run": a task that starts
\* is not given a block that has been moved.
NothingMovedTwice ==
    task.at = "blocks" => Range(task.todo) \intersect archive \subseteq hot \union writing

\* "These states will be pruned once a new state is persisted": after the pruning one
\* state of an interval is left, besides the last.
TempStatesPruned ==
    task.at = "prune" => \A c, d \in {cp \in stateDb : cp.epoch < LastStoredEpoch} :
        c.epoch \div PERSIST_STATE_EVERY_EPOCHS = d.epoch \div PERSIST_STATE_EVERY_EPOCHS => c = d
=============================================================================
