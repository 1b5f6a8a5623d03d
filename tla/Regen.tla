------------------------------- MODULE Regen --------------------------------
(***************************************************************************)
(* Where beacon states come from: the two state caches (chain/stateCache), *)
(* the queue of state regenerations (chain/regen), the part of a block's   *)
(* import that fills the caches (chain/blocks/stateTransition.ts), and the *)
(* tasks that prune them when a checkpoint is processed or finalized       *)
(* (tasks/index.ts).                                                       *)
(*                                                                         *)
(* A state is the pair of the last block applied and the slot it has been  *)
(* advanced to; the post state of block b is <<b, Slot[b]>>, which also    *)
(* stands for its state root.  A regeneration awaits between the blocks it *)
(* replays, and anything else may happen there.                            *)
(***************************************************************************)
EXTENDS Integers, Sequences, FiniteSets, FiniteSetsExt, SequencesExt

CONSTANTS
    Roots, Genesis, Parent, Slot,   \* the tree of blocks
    Just, Fin,          \* the checkpoints justified and finalized in a block's post state
    SLOTS_PER_EPOCH,
    MAX_STATES, MAX_EPOCHS, MAX_BLOCKS_TO_REPLAY,
    REGEN_QUEUE_MAX_LEN,
    Requests            \* what is asked for besides the pre states of blocks to import

VARIABLES
    known,      \* the blocks of the fork choice
    head,       \* the head block
    justified, finalized,   \* the checkpoints of the fork choice, [root, epoch]
    hot,        \* db.block
    states,     \* the state cache: states in the order of their insertion
    cps,        \* the checkpoint state cache: the checkpoints it has a state for
    epochIndex, \* its epochs in the order of their insertion
    pruneDue,   \* the checkpoint event has not reached the tasks yet
    task,       \* finalized checkpoints whose task has not ended
    moved,      \* the first of them has its blocks archived
    queue, job, \* the regeneration requests that wait, and the one that runs
    answer      \* the last answer given

forkChoice == <<known, head, justified, finalized>>
caches == <<states, cps, epochIndex, pruneDue>>
tasks == <<task, moved>>
vars == <<forkChoice, hot, caches, tasks, queue, job, answer>>

AllRoots == Roots \cup {Genesis}
EpochOf(slot) == slot \div SLOTS_PER_EPOCH
StartSlot(epoch) == epoch * SLOTS_PER_EPOCH
PostState(b) == <<b, Slot[b]>>
Checkpoint(r, e) == [root |-> r, epoch |-> e]

Request(kind, r, slot) == [kind |-> kind, root |-> r, slot |-> slot]
None == Request("none", Genesis, 0)
Idle == [req |-> None, todo |-> <<>>, state |-> PostState(Genesis)]
Failed == <<Genesis, -1>>

Lineage(b) ==
    LET up[x \in AllRoots] == IF x = Genesis THEN {x} ELSE {x} \cup up[Parent[x]] IN up[b]

---------------------------------------------------------------------------
(* The caches.                                                             *)

AddState(seq, s) == IF s \in ToSet(seq) THEN seq ELSE Append(seq, s)


\* stateCache.prune: from the front, but never the head's state.
PruneStates(seq, headState) ==
    LET surplus == Max({Len(seq) - MAX_STATES, 0})
    IN  SelectSeq(SubSeq(seq, 1, surplus), LAMBDA s : s = headState) \o SubSeq(seq, surplus + 1, Len(seq))

\* Mutant: the epoch asked for does not bound the search.
GetLatestOfAll(r, epoch) ==
    LET epochs == {cp.epoch : cp \in {c \in cps : c.root = r}}
    IN  IF epochs = {} THEN Failed ELSE <<r, StartSlot(Max(epochs))>>

\* checkpointStateCache.getLatest: Failed stands for null.
GetLatest(r, epoch) ==
    LET epochs == {cp.epoch : cp \in {c \in cps : c.root = r /\ c.epoch <= epoch}}
    IN  IF epochs = {} THEN Failed ELSE <<r, StartSlot(Max(epochs))>>

\* The checkpoint events of the checkpoints new: chain.onCheckpoint adds the states, the
\* tasks hear of it later.
OnCheckpoints(new) ==
    /\ cps' = cps \cup new
    /\ epochIndex' = epochIndex \o SetToSortSeq({cp.epoch : cp \in new} \ ToSet(epochIndex), <)
    /\ pruneDue' = (pruneDue \/ new # {})

\* tasks.onCheckpoint.  The epochs of the finalized and the justified checkpoint stay, and
\* the MAX_EPOCHS epochs that came last.
PruneOnCheckpoint ==
    /\ pruneDue
    /\ LET others == SelectSeq(epochIndex, LAMBDA e : e \notin {finalized.epoch, justified.epoch})
           gone == ToSet(SubSeq(others, 1, Len(others) - MAX_EPOCHS))
       IN  /\ cps' = {cp \in cps : cp.epoch \notin gone}
           /\ epochIndex' = SelectSeq(epochIndex, LAMBDA e : e \notin gone)
    /\ states' = PruneStates(states, PostState(head))
    /\ pruneDue' = FALSE
    /\ UNCHANGED <<forkChoice, hot, tasks, queue, job, answer>>

---------------------------------------------------------------------------
(* The task of a finalized checkpoint: its blocks go to the archive, then  *)
(* the caches and the fork choice lose what is before it.                  *)

ArchiveBlocks ==
    /\ task # <<>> /\ ~moved
    /\ moved' = TRUE
    /\ hot' = {b \in hot : b \notin Lineage(Head(task).root)
                           /\ (b \in known => Head(task).root \in Lineage(b))}
    /\ UNCHANGED <<forkChoice, caches, task, queue, job, answer>>

PruneFinalized ==
    /\ task # <<>> /\ moved
    /\ LET cp == Head(task) IN
       /\ cps' = {c \in cps : c.epoch >= cp.epoch}
       /\ epochIndex' = SelectSeq(epochIndex, LAMBDA e : e >= cp.epoch)
       /\ states' = SelectSeq(states, LAMBDA s : EpochOf(s[2]) >= cp.epoch)
       /\ known' = {b \in known : cp.root \in Lineage(b)}
    /\ task' = Tail(task) /\ moved' = FALSE
    /\ UNCHANGED <<head, justified, finalized, hot, pruneDue, queue, job, answer>>

---------------------------------------------------------------------------
(* Requests.  Those the caches can answer never wait.                      *)

Cached(req) ==
    CASE req.kind = "preState" ->
           LET p == Parent[req.root]
               latest == IF EpochOf(Slot[p]) < EpochOf(Slot[req.root])
                         THEN GetLatest(p, EpochOf(Slot[req.root])) ELSE Failed
           IN  IF latest # Failed THEN latest
               ELSE IF PostState(p) \in ToSet(states) THEN PostState(p) ELSE Failed
      [] req.kind = "checkpoint" ->
           IF Checkpoint(req.root, EpochOf(req.slot)) \in cps THEN <<req.root, req.slot>> ELSE Failed
      [] req.kind = "state" ->
           IF PostState(req.root) \in ToSet(states) THEN PostState(req.root) ELSE Failed
      [] OTHER -> Failed

Answer(req, state) == answer' = [req |-> req, state |-> state]

Ask(req) ==
    /\ IF req.kind = "preState" /\ Parent[req.root] \notin known
       THEN Answer(req, Failed) /\ UNCHANGED queue
       ELSE IF Cached(req) # Failed
       THEN Answer(req, Cached(req)) /\ UNCHANGED queue
       ELSE IF Len(queue) = REGEN_QUEUE_MAX_LEN
       THEN Answer(req, Failed) /\ UNCHANGED queue
       ELSE queue' = Append(queue, req) /\ UNCHANGED answer
    /\ UNCHANGED <<forkChoice, hot, caches, tasks, job>>

---------------------------------------------------------------------------
(* regen.ts.                                                               *)

\* The state of a block is wanted as it is: getState, not getBlockSlotState.
OfBlock(req) ==
    \/ req.kind = "state"
    \/ req.kind = "preState" /\ EpochOf(Slot[Parent[req.root]]) = EpochOf(Slot[req.root])

\* The block whose state is wanted, and the slot it is wanted at.
Wanted(req) ==
    IF req.kind # "preState" THEN <<req.root, req.slot>>
    ELSE IF OfBlock(req) THEN PostState(Parent[req.root])
    ELSE <<Parent[req.root], StartSlot(EpochOf(Slot[req.root]))>>

\* forkChoice.iterateBlockSummaries: the last block of the walk is left out.
IterateBlockSummaries(b) ==
    LET line == SetToSortSeq(Lineage(b) \cap known, LAMBDA x, y : Slot[x] > Slot[y])
    IN  IF b \notin known THEN <<>> ELSE SubSeq(line, 1, Len(line) - 1)

\* The state that getState starts from at ancestor b, the block after it being next.
Seed(b, next) ==
    IF PostState(b) \in ToSet(states) THEN PostState(b)
    ELSE GetLatest(b, EpochOf(Slot[next] - 1))

\* getState: the seed and the blocks to replay on it, lowest first.
ReplayOf(b) ==
    LET walk == IterateBlockSummaries(Parent[b])
        next(i) == IF i = 1 THEN b ELSE walk[i - 1]
        seeded == {i \in DOMAIN walk : Seed(walk[i], next(i)) # Failed}
    IN  IF PostState(b) \in ToSet(states) THEN [state |-> PostState(b), todo |-> <<>>]
        ELSE IF b \notin known \/ b = Genesis \/ seeded = {} THEN [state |-> Failed, todo |-> <<>>]
        ELSE LET i == Min(seeded) IN
             IF i > MAX_BLOCKS_TO_REPLAY THEN [state |-> Failed, todo |-> <<>>]
             ELSE [state |-> Seed(walk[i], next(i)),
                   todo |-> Append(Reverse(SubSeq(walk, 1, i - 1)), b)]

\* The job starts: everything up to its first await.
StartJob ==
    /\ job = Idle /\ queue # <<>>
    /\ queue' = Tail(queue)
    /\ LET req == Head(queue)
           b == Wanted(req)[1]
           latest == GetLatest(b, EpochOf(Wanted(req)[2]))
           plan == IF ~OfBlock(req) /\ latest # Failed
                   THEN [state |-> latest, todo |-> <<>>] ELSE ReplayOf(b)
       IN  IF b \notin known \/ Wanted(req)[2] < Slot[b] \/ plan.state = Failed
           THEN Answer(req, Failed) /\ UNCHANGED job
           ELSE job' = [req |-> req, todo |-> plan.todo, state |-> plan.state] /\ UNCHANGED answer
    /\ UNCHANGED <<forkChoice, hot, caches, tasks>>

\* The checkpoints that lie between state s and slot.
CheckpointsTo(s, slot) ==
    {Checkpoint(s[1], e) : e \in (EpochOf(s[2]) + 1)..EpochOf(slot)}

\* runStateTransition's: not when the block is the first of its epoch.
PassedCheckpoints(s, b) ==
    IF Slot[b] = StartSlot(EpochOf(Slot[b])) THEN {} ELSE CheckpointsTo(s, Slot[b])

\* The balances of a newly justified checkpoint are taken from its cached state.
HasJustifiedState(b, pre) ==
    Just[b].epoch > justified.epoch => Just[b] \in cps \cup PassedCheckpoints(pre, b)

\* forkChoice.onBlock, called again for every block that is replayed.
ForkChoiceAccepts(b) ==
    /\ Parent[b] \in known /\ Slot[b] > StartSlot(finalized.epoch)
    /\ finalized.root \in Lineage(Parent[b])

ReplayBlock ==
    /\ job # Idle /\ job.todo # <<>>
    /\ LET b == Head(job.todo) IN
       IF b \in hot /\ job.state[2] <= Slot[b] /\ HasJustifiedState(b, job.state) /\ ForkChoiceAccepts(b)
       THEN /\ OnCheckpoints(PassedCheckpoints(job.state, b))
            /\ job' = [job EXCEPT !.todo = Tail(@), !.state = PostState(b)]
            /\ UNCHANGED <<states, answer>>
       ELSE Answer(job.req, Failed) /\ job' = Idle /\ UNCHANGED caches
    /\ UNCHANGED <<forkChoice, hot, tasks, queue>>

\* processSlotsByCheckpoint up to the wanted slot, and the answer.
FinishJob ==
    /\ job # Idle /\ job.todo = <<>>
    /\ OnCheckpoints(CheckpointsTo(job.state, Wanted(job.req)[2]))
    /\ Answer(job.req, <<job.state[1], Max({job.state[2], Wanted(job.req)[2]})>>)
    /\ job' = Idle
    /\ UNCHANGED <<forkChoice, hot, states, tasks, queue>>

---------------------------------------------------------------------------
(* A block is imported on the pre state its request was answered with      *)
(* (runStateTransition, chain.onBlock).  The new head is any leaf of the   *)
(* finalized chain; a conflicting justified checkpoint may be put off.     *)

ImportBlock(b) ==
    /\ b \notin known /\ answer.req.kind = "preState" /\ answer.req.root = b /\ answer.state # Failed
    /\ HasJustifiedState(b, answer.state) /\ ForkChoiceAccepts(b)
    /\ answer' = [req |-> None, state |-> Failed]
    /\ known' = known \cup {b}
    /\ OnCheckpoints(PassedCheckpoints(answer.state, b)
                     \cup {cp \in {Checkpoint(b, EpochOf(Slot[b]))} : Slot[b] % SLOTS_PER_EPOCH = 0})
    /\ states' = AddState(states, PostState(b))
    /\ justified' \in IF Just[b].epoch > justified.epoch
                      THEN {Just[b]} \cup {j \in {justified} : j.root \notin Lineage(Just[b].root)} ELSE {justified}
    /\ finalized' = IF Fin[b].epoch > finalized.epoch THEN Fin[b] ELSE finalized
    /\ task' = IF finalized' # finalized THEN Append(task, finalized') ELSE task
    /\ head' \in {h \in known' : finalized'.root \in Lineage(h) /\ \A c \in known' : c # h => h \notin Lineage(c)}
    /\ hot' = hot \cup {b}
    /\ UNCHANGED <<moved, queue, job>>

---------------------------------------------------------------------------
Init ==
    /\ known = {Genesis} /\ head = Genesis
    /\ justified = Checkpoint(Genesis, 0) /\ finalized = Checkpoint(Genesis, 0)
    /\ hot = {Genesis}
    /\ states = <<PostState(Genesis)>> /\ cps = {Checkpoint(Genesis, 0)} /\ epochIndex = <<0>>
    /\ pruneDue = FALSE /\ task = <<>> /\ moved = FALSE
    /\ queue = <<>> /\ job = Idle /\ answer = [req |-> None, state |-> Failed]

Next ==
    \/ \E b \in Roots \ known : Ask(Request("preState", b, Slot[b]))
    \/ \E req \in Requests : req.root \in known /\ Ask(req)
    \/ StartJob \/ ReplayBlock \/ FinishJob
    \/ \E b \in Roots : ImportBlock(b)
    \/ PruneOnCheckpoint \/ ArchiveBlocks \/ PruneFinalized

Spec == Init /\ [][Next]_vars

---------------------------------------------------------------------------
\* Every answer is a state of what was asked for, whatever was cached, pruned, archived or
\* finalized while the request waited and blocks were replayed: the exact state of a
\* block, of a block at a slot, of a checkpoint; for a block, a state of its parent's
\* chain from which the block's slot can still be reached.
AnswersAreExact ==
    answer.state # Failed =>
        IF answer.req.kind = "preState"
        THEN answer.state[1] = Parent[answer.req.root] /\ answer.state[2] \in Slot[Parent[answer.req.root]]..Slot[answer.req.root]
        ELSE answer.state = <<answer.req.root, answer.req.slot>>

\* The state of the finalized checkpoint is in the checkpoint cache: the archiver takes it
\* from there (archiveStates.ts), and a restart begins with it.
FinalizedStateCached == finalized \in cps

-----------------------------------------------------------------------------
(* What the sources say and the model refutes, see README.md. *)

\* stateTransition.ts:97 says of the state of a justified checkpoint "it should always have
\* epochBalances there bc it's a checkpoint state": no block is refused for want of it.
JustifiedStateCached ==
    answer.req.kind = "preState" /\ answer.state # Failed /\ ForkChoiceAccepts(answer.req.root)
        => HasJustifiedState(answer.req.root, answer.state)
=============================================================================
