---------------------------- MODULE BlockImport -----------------------------
(***************************************************************************)
(* How a block gets into the fork choice: the block processor and its      *)
(* queue, the pool of blocks that cannot be processed yet, the chain's     *)
(* event handlers and the search for unknown ancestors                     *)
(* (packages/lodestar/src/chain/blocks, chain/eventHandlers.ts and         *)
(* sync/sync.ts).                                                          *)
(*                                                                         *)
(* The queue runs one job at a time, and a job awaits between its steps.   *)
(* The handlers of the events it emits run beside it: they await the       *)
(* database and the network, each answer comes at a time of its own, and   *)
(* what a handler awaits is an element of the bag calls.                   *)
(***************************************************************************)
EXTENDS Integers, Sequences, FiniteSets, Bags

CONSTANTS
    Roots,          \* block roots other than the root of genesis, as numbers
    Genesis,
    Parent,         \* Parent[r]: the parent root of block r
    Slot,           \* Slot[r]
    BadTransition,  \* blocks whose state transition fails
    BadSignature,   \* blocks with an invalid signature
    Segments,       \* the lists of blocks that range sync may ask to process
    SlotsPerEpoch,
    InitSlot,       \* the slot in which the node starts
    MaxSlot,        \* bound of the clock
    MaxReceptions,  \* bound: how many blocks and segments come from outside
    MaxFailures,    \* bound: how many times no peer has a block that is asked for
    MaxLength       \* maxLength of the processor's queue

AllRoots == Roots \union {Genesis}

ASSUME TreeAssumption ==
    /\ Parent \in [Roots -> AllRoots] /\ Slot \in [AllRoots -> Nat]
    /\ Slot[Genesis] = 0 /\ \A r \in Roots : Slot[Parent[r]] < Slot[r]
ASSUME SegmentsAssumption == Segments \subseteq Seq(Roots)
ASSUME BoundsAssumption ==
    /\ SlotsPerEpoch \in Nat \ {0} /\ MaxLength \in Nat
    /\ InitSlot \in Nat /\ MaxSlot \in Nat /\ InitSlot <= MaxSlot

VARIABLES
    known,       \* blocks in the fork choice
    finalized,   \* [root, slot]: the finalized checkpoint, with its start slot
    clock,       \* clock.currentSlot
    blocks,      \* pendingBlocks.blocks
    byParent,    \* pendingBlocks.blocksByParent: the blocks filed there
    bySlot,      \* pendingBlocks.blocksBySlot: the blocks filed there
    dbPending,   \* db.pendingBlock
    queue,       \* the jobs that wait: [kind, blocks]
    job,         \* the job that runs: [kind, at, todo, done, pre]
    calls,       \* what handlers await: a bag of [at, root]
    received,    \* blocks received from gossip or the API
    receptions,  \* number of blocks and segments that came from outside
    failures,    \* number of searches that no peer could answer
    excused      \* blocks dropped by a full queue, missed by a read, or not found

pool == <<blocks, byParent, bySlot>>
inputs == <<received, receptions, failures>>
vars == <<known, finalized, clock, pool, dbPending, queue, job, calls, inputs, excused>>

NoJob == [kind |-> "none", at |-> "idle", todo |-> <<>>, done |-> {}, pre |-> Genesis]

Init ==
    /\ known = {Genesis} /\ finalized = [root |-> Genesis, slot |-> 0]
    /\ clock = InitSlot
    /\ blocks = {} /\ byParent = {} /\ bySlot = {} /\ dbPending = {}
    /\ queue = <<>> /\ job = NoJob /\ calls = EmptyBag
    /\ received = {} /\ receptions = 0 /\ failures = 0
    /\ excused = {}

-----------------------------------------------------------------------------
(* The tree of blocks. *)

EpochOf(slot) == slot \div SlotsPerEpoch

\* r and the blocks before it.
Lineage(r) ==
    LET up[x \in AllRoots] == IF x = Genesis THEN {x} ELSE {x} \union up[Parent[x]] IN up[r]

\* forkChoice.hasBlock: the block is known and on the finalized chain.
HasBlock(r) == r \in known /\ finalized.root \in Lineage(r)

\* forkChoice.onBlock takes a block of a known parent on the finalized chain.
ForkChoiceAccepts(r) ==
    Parent[r] \in known /\ Slot[r] > finalized.slot /\ finalized.root \in Lineage(r)

-----------------------------------------------------------------------------
(* The pool of pending blocks. *)

AddByParent(r) ==
    /\ blocks' = blocks \union {r}
    /\ byParent' = byParent \union {r}
    /\ UNCHANGED bySlot

AddBySlot(r) ==
    /\ blocks' = blocks \union {r}
    /\ bySlot' = bySlot \union {r}
    /\ UNCHANGED byParent

RemoveBlock(r) ==
    /\ blocks' = blocks \ {r}
    /\ byParent' = byParent \ {r}
    /\ bySlot' = bySlot \ {r}

GetByParent(r) == {c \in byParent : Parent[c] = r}
GetBySlot(slot) == {r \in bySlot : Slot[r] <= slot}

\* The first ancestor that is not in the pool.
GetMissingAncestor(r) ==
    LET up[x \in AllRoots] == IF x \in blocks THEN up[Parent[x]] ELSE x IN up[r]

-----------------------------------------------------------------------------
(* Awaited calls and the queue. *)

Call(at, r) == [at |-> at, root |-> r]
Awaited(at, r) == BagIn(Call(at, r), calls)
Calls(at, roots) == SetToBag({Call(at, r) : r \in roots})
Return(at, r) == calls (-) SetToBag({Call(at, r)})

\* processingRoots: the roots that onUnknownBlockRoot is looking for.
ProcessingRoots == {r \in AllRoots : Awaited("fetching", r)}

\* jobQueue.push: a full queue rejects, and nobody tries again.
Push(kind, list) ==
    IF Len(queue) + 1 > MaxLength
    THEN UNCHANGED queue /\ excused' = excused \union {list[i] : i \in DOMAIN list}
    ELSE queue' = Append(queue, [kind |-> kind, blocks |-> list]) /\ UNCHANGED excused

\* receiveBlock, from gossip and from the API.
ReceiveBlock(r) ==
    /\ receptions < MaxReceptions
    /\ receptions' = receptions + 1
    /\ received' = received \union {r}
    /\ Push("block", <<r>>)
    /\ UNCHANGED <<known, finalized, clock, pool, dbPending, job, calls, failures>>

\* processChainSegment, from range sync.
ReceiveSegment(list) ==
    /\ receptions < MaxReceptions
    /\ receptions' = receptions + 1
    /\ Push("segment", list)
    /\ UNCHANGED <<known, finalized, clock, pool, dbPending, job, calls, received, failures>>

-----------------------------------------------------------------------------
(* The block processor. *)

\* validateBlock, in the order of its checks.
ValidateBlock(r) ==
    CASE HasBlock(r) -> "BLOCK_IS_ALREADY_KNOWN"
      [] ~HasBlock(r) /\ Slot[r] <= finalized.slot -> "WOULD_REVERT_FINALIZED_SLOT"
      [] ~HasBlock(r) /\ Slot[r] > finalized.slot /\ Slot[r] > clock -> "FUTURE_SLOT"
      [] OTHER -> "OK"

\* onErrorBlock: blocks that may become valid go to the pool at once and to the
\* database in time.
OnErrorBlock(r, code) ==
    /\ CASE code = "FUTURE_SLOT" -> AddBySlot(r)
         [] code = "PARENT_UNKNOWN" -> AddByParent(r)
         [] OTHER -> UNCHANGED pool
    /\ calls' = CASE code = "FUTURE_SLOT" -> calls (+) Calls("storingFuture", {r})
                  [] code = "PARENT_UNKNOWN" -> calls (+) Calls("storingOrphan", {r})
                  [] OTHER -> calls

\* validateBlock, and then processBlock's test for the parent.
ErrorCode(r) ==
    IF ValidateBlock(r) = "OK" /\ ~HasBlock(Parent[r]) THEN "PARENT_UNKNOWN" ELSE ValidateBlock(r)

\* processBlockJob up to its first await.
ProcessBlockJob ==
    /\ job = NoJob /\ queue # <<>> /\ Head(queue).kind = "block"
    /\ queue' = Tail(queue)
    /\ LET r == Head(queue).blocks[1]
       IN IF ErrorCode(r) = "OK"
          THEN /\ job' = [kind |-> "block", at |-> "preState", todo |-> <<r>>, done |-> {}, pre |-> Genesis]
               /\ UNCHANGED <<pool, calls>>
          ELSE OnErrorBlock(r, ErrorCode(r)) /\ UNCHANGED job
    /\ UNCHANGED <<known, finalized, clock, dbPending, inputs, excused>>

Linear(list) ==
    \A i \in 1..Len(list) - 1 :
        Parent[list[i + 1]] = list[i] /\ Slot[list[i]] < Slot[list[i + 1]]

\* The blocks of a segment that are left to process, after each turn of the loop:
\* those that are not known and not finalized.
RelevantBlocks(list) ==
    LET pushed[i \in 0..Len(list)] ==
          CASE i = 0 -> <<>>
            [] i > 0 /\ ValidateBlock(list[i]) = "OK" -> Append(pushed[i - 1], list[i])
            [] OTHER -> pushed[i - 1]
    IN pushed[Len(list)]

\* Mutant: the links between the blocks of a segment are not looked at.
AnySegment(list) ==
    IF \E i \in 1..Len(list) : ValidateBlock(list[i]) = "FUTURE_SLOT" THEN <<>> ELSE RelevantBlocks(list)

\* None if the segment is not a chain or reaches into the future.
FilteredChainSegment(list) ==
    IF ~Linear(list) \/ \E i \in 1..Len(list) : ValidateBlock(list[i]) = "FUTURE_SLOT" THEN <<>>
    ELSE RelevantBlocks(list)

\* processChainSegmentJob up to its first await.
ProcessChainSegmentJob ==
    /\ job = NoJob /\ queue # <<>> /\ Head(queue).kind = "segment"
    /\ queue' = Tail(queue)
    /\ LET list == FilteredChainSegment(Head(queue).blocks)
       IN IF list # <<>> /\ HasBlock(Parent[Head(list)])
          THEN job' = [kind |-> "segment", at |-> "preState", todo |-> list, done |-> {}, pre |-> Genesis]
          ELSE UNCHANGED job
    /\ UNCHANGED <<known, finalized, clock, pool, dbPending, calls, inputs, excused>>

\* regen.getPreState for the first block of an epoch; it fails without its parent.
GetPreState ==
    /\ job.at = "preState"
    /\ IF HasBlock(Parent[Head(job.todo)])
       THEN job' = [job EXCEPT !.at = "run", !.pre = Parent[Head(job.todo)]]
       ELSE job' = NoJob
    /\ UNCHANGED <<known, finalized, clock, pool, dbPending, queue, calls, inputs, excused>>

\* One turn of the loop in processBlocksInEpoch: runStateTransition puts the block
\* into the fork choice and emits it, and onBlock starts to store it.
RunStateTransition ==
    /\ job.at = "run"
    /\ LET r == Head(job.todo)
           rest == Tail(job.todo)
       IN IF r \in BadTransition \/ ~ForkChoiceAccepts(r)
          THEN job' = NoJob /\ UNCHANGED <<known, calls>>
          ELSE /\ known' = known \union {r}
               /\ calls' = calls (+) Calls("importing", {r})
               /\ job' = [job EXCEPT !.todo = rest, !.done = @ \union {r}, !.pre = r,
                                     !.at = IF rest # <<>> /\ EpochOf(Slot[Head(rest)]) = EpochOf(Slot[r])
                                            THEN "run" ELSE "verify"]
    /\ UNCHANGED <<finalized, clock, pool, dbPending, queue, inputs, excused>>

\* The signatures of the blocks of this epoch, after their state transitions.
VerifySignatures ==
    /\ job.at = "verify"
    /\ job' = IF job.done \intersect BadSignature # {} \/ job.todo = <<>>
              THEN NoJob
              ELSE [job EXCEPT !.at = "preState", !.done = {}]
    /\ UNCHANGED <<known, finalized, clock, pool, dbPending, queue, calls, inputs, excused>>

-----------------------------------------------------------------------------
(* The event handlers. *)

\* db.pendingBlock.add has returned for a block of a future slot.
FutureBlockStored(r) ==
    /\ Awaited("storingFuture", r)
    /\ dbPending' = dbPending \union {r}
    /\ calls' = Return("storingFuture", r)
    /\ UNCHANGED <<known, finalized, clock, pool, queue, job, inputs, excused>>

\* It has returned for a block of an unknown parent: the event goes on to
\* onUnknownBlockRoot, which looks for the missing ancestor unless a search for
\* it is under way.
OrphanStored(r) ==
    /\ Awaited("storingOrphan", r)
    /\ dbPending' = dbPending \union {r}
    /\ LET missing == GetMissingAncestor(r)
       IN calls' = IF missing \in ProcessingRoots
                   THEN Return("storingOrphan", r)
                   ELSE Return("storingOrphan", r) (+) Calls("fetching", {missing})
    /\ UNCHANGED <<known, finalized, clock, pool, queue, job, inputs, excused>>

\* fetchUnknownBlockRoot found the block with a peer.  Genesis is no answer: the
\* processor refuses it.
FetchSucceeds(r) ==
    /\ Awaited("fetching", r)
    /\ calls' = Return("fetching", r)
    /\ IF r = Genesis THEN UNCHANGED <<queue, excused>> ELSE Push("block", <<r>>)
    /\ UNCHANGED <<known, finalized, clock, pool, dbPending, job, inputs>>

\* No peer has it; the search is given up.
FetchFails(r) ==
    /\ Awaited("fetching", r)
    /\ failures < MaxFailures
    /\ failures' = failures + 1
    /\ calls' = Return("fetching", r)
    /\ excused' = excused \union {r}
    /\ UNCHANGED <<known, finalized, clock, pool, dbPending, queue, job, received, receptions>>

\* Mutant: onBlock wakes up the blocks of the slot instead of the children.
OnBlockBySlot(r) ==
    /\ Awaited("importing", r)
    /\ calls' = Return("importing", r) (+) Calls("reading", GetBySlot(Slot[r]))
    /\ UNCHANGED <<known, finalized, clock, pool, dbPending, queue, job, inputs, excused>>

\* onBlock after its writes to the database: the pending children are read.
OnBlock(r) ==
    /\ Awaited("importing", r)
    /\ calls' = Return("importing", r) (+) Calls("reading", GetByParent(r))
    /\ UNCHANGED <<known, finalized, clock, pool, dbPending, queue, job, inputs, excused>>

\* onClockSlot: the pending blocks of this and of earlier slots are read.
OnClockSlot ==
    /\ clock < MaxSlot
    /\ clock' = clock + 1
    /\ calls' = calls (+) Calls("reading", GetBySlot(clock + 1))
    /\ UNCHANGED <<known, finalized, pool, dbPending, queue, job, inputs, excused>>

\* db.pendingBlock.get has returned: a block that is there leaves the pool, a block
\* whose record is not written yet stays in it, and is read again only by a later
\* slot.
PendingBlockRead(r) ==
    /\ Awaited("reading", r)
    /\ IF r \in dbPending
       THEN /\ RemoveBlock(r)
            /\ calls' = Return("reading", r) (+) Calls("deleting", {r})
            /\ UNCHANGED excused
       ELSE /\ calls' = Return("reading", r)
            /\ excused' = IF r \in bySlot /\ clock < MaxSlot THEN excused ELSE excused \union {r}
            /\ UNCHANGED pool
    /\ UNCHANGED <<known, finalized, clock, dbPending, queue, job, inputs>>

\* db.pendingBlock.delete has returned: the block is processed.
PendingBlockDeleted(r) ==
    /\ Awaited("deleting", r)
    /\ dbPending' = dbPending \ {r}
    /\ calls' = Return("deleting", r)
    /\ Push("block", <<r>>)
    /\ UNCHANGED <<known, finalized, clock, pool, job, inputs>>

-----------------------------------------------------------------------------
(* What fork choice and archiver do to the tree, see ForkChoice and Archiver. *)

\* The first slot of the epoch whose checkpoint r may be.
CheckpointSlot(r) == ((Slot[r] + SlotsPerEpoch - 1) \div SlotsPerEpoch) * SlotsPerEpoch

\* A block two epochs later finalizes r.
Finalize(r) ==
    /\ r \in known /\ finalized.root \in Lineage(r)
    /\ CheckpointSlot(r) > finalized.slot
    /\ \E d \in known : r \in Lineage(d) /\ EpochOf(Slot[d]) >= EpochOf(CheckpointSlot(r)) + 2
    /\ finalized' = [root |-> r, slot |-> CheckpointSlot(r)]
    /\ UNCHANGED <<known, clock, pool, dbPending, queue, job, calls, inputs, excused>>

\* The archiver prunes what does not descend from the finalized block.
Prune ==
    /\ known' = {r \in known : finalized.root \in Lineage(r)}
    /\ known' # known
    /\ UNCHANGED <<finalized, clock, pool, dbPending, queue, job, calls, inputs, excused>>

-----------------------------------------------------------------------------
Next ==
    \/ \E r \in Roots : ReceiveBlock(r)
    \/ \E list \in Segments : ReceiveSegment(list)
    \/ ProcessBlockJob \/ ProcessChainSegmentJob
    \/ GetPreState \/ RunStateTransition \/ VerifySignatures
    \/ \E r \in AllRoots : FetchSucceeds(r) \/ FetchFails(r)
    \/ \E r \in Roots : FutureBlockStored(r) \/ OrphanStored(r) \/ OnBlock(r)
    \/ \E r \in Roots : PendingBlockRead(r) \/ PendingBlockDeleted(r)
    \/ OnClockSlot
    \/ \E r \in Roots : Finalize(r)
    \/ Prune

\* The queue runs its jobs, the database and the network answer, and the clock
\* goes on.  Nothing says that blocks are received, finalized or pruned.
Fairness ==
    /\ WF_vars(ProcessBlockJob) /\ WF_vars(ProcessChainSegmentJob)
    /\ WF_vars(GetPreState) /\ WF_vars(RunStateTransition) /\ WF_vars(VerifySignatures)
    /\ WF_vars(OnClockSlot)
    /\ \A r \in AllRoots : WF_vars(FetchSucceeds(r) \/ FetchFails(r))
    /\ \A r \in Roots : /\ WF_vars(FutureBlockStored(r)) /\ WF_vars(OrphanStored(r))
                        /\ WF_vars(OnBlock(r)) /\ WF_vars(PendingBlockRead(r))
                        /\ WF_vars(PendingBlockDeleted(r))

Spec == Init /\ [][Next]_vars /\ Fairness

-----------------------------------------------------------------------------
\* Fork choice, pool, database, queue, job and awaited calls have their types.
TypeOK ==
    /\ known \subseteq AllRoots
    /\ finalized \in [root : AllRoots, slot : Nat]
    /\ clock \in InitSlot..MaxSlot
    /\ blocks \subseteq Roots /\ byParent \subseteq Roots /\ bySlot \subseteq Roots
    /\ dbPending \subseteq Roots
    /\ queue \in Seq([kind : {"block", "segment"}, blocks : Seq(Roots)]) /\ Len(queue) <= MaxLength
    /\ job.at \in {"idle", "preState", "run", "verify"}
    /\ \A c \in DOMAIN calls : c.root \in AllRoots

\* The three maps of the pool agree: what is in one of the indexes has its
\* metadata, and the other way round, whatever removals and additions overlap.
PoolIndexesAgree == blocks = byParent \union bySlot

\* The state transition of a block starts from the post state of its parent,
\* although processChainSegmentJob drops blocks from the middle of a segment and
\* the fork choice is pruned between two epochs of it.
RunsOnParentState == job.at = "run" => job.pre = Parent[Head(job.todo)]

\* Every block of the fork choice descends from the finalized block or is about to
\* be pruned, and its parents up to there are in the fork choice too.
TreeIsConnected ==
    \A r \in known : finalized.root \in Lineage(r) => Lineage(r) \ Lineage(finalized.root) \subseteq known

\* Every state transition starts from the post state of the block's parent, however
\* segments, finalization and pruning interleave; the pool's indexes and the tree
\* stay whole.
ImportIsSound == TypeOK /\ PoolIndexesAgree /\ RunsOnParentState /\ TreeIsConnected

\* A block that was received, is valid and comes in time is imported in the end:
\* out of order, in a future slot or without its ancestors.  Excused are blocks
\* with an ancestor that no peer had, that a full queue dropped or that a read
\* of the database missed, and blocks that are finalized away.
Importable(r) == Lineage(r) \intersect (BadTransition \union BadSignature) = {} /\ Slot[r] <= MaxSlot
GivenUp(r) ==
    \/ Lineage(r) \intersect excused # {}
    \/ Slot[r] <= finalized.slot
    \/ finalized.root \notin Lineage(r)
ReceivedIsImported ==
    []<>(\A r \in received : Importable(r) => r \in known \/ GivenUp(r))

-----------------------------------------------------------------------------
(* What the sources say and the model refutes, see README.md. *)

\* "forkChoice update, in the case of a valid block": when no job runs, the fork
\* choice holds no block that processBlockJob refused.
OnlyValidBlocks == job = NoJob => known \intersect (BadTransition \union BadSignature) = {}
=============================================================================
