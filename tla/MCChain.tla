------------------------------ MODULE MCChain -------------------------------
(* What happens to blocks, for TLC: their import, the archiving of the       *)
(* finalized ones, and the production of new ones from the pool of           *)
(* operations.  A behaviour is about one of these: "part" says which.  Block *)
(* import keeps its own variables; the other two use the registers r1, r2,   *)
(* ..., in the order of their declarations.                                  *)
EXTENDS BlockImport

CONSTANTS
    ArchiveRoots, ArchiveGenesis, ArchiveParent, ArchiveSlot,    \* the tree of the archiver
    BATCH_SIZE, MaxTasks, PERSIST_STATE_EVERY_EPOCHS, PERSIST_TEMP_STATE_EVERY_EPOCHS, MaxRestarts,
    v1, v2, v3,
    PoolOperations  \* the operations of block production

VARIABLES part, r1, r2, r3, r4, r5, r6, r7, r8, r9, r10, r11, r12, r13

registers == <<r1, r2, r3, r4, r5, r6, r7, r8, r9, r10, r11, r12, r13>>
late == <<r8, r9, r10, r11, r12, r13>>
allVars == <<part, vars, registers>>

-----------------------------------------------------------------------------
(***************************************************************************)
(* Block import.  Epochs have two slots.                                   *)
(*                                                                         *)
(*     0@0 --- 1@1 --- 2@2 --- 3@3 ------- 4@6                             *)
(*       \               \                                                 *)
(*        5@3             6@5                                              *)
(*                                                                         *)
(* The signature of 5 is invalid, and so is the state transition of 6.     *)
(***************************************************************************)
Chain == [r \in Roots |-> CASE r = 5 -> 0 [] r = 6 -> 2 [] OTHER -> r - 1]
Slots == [r \in AllRoots |-> CASE r = 4 -> 6 [] r = 5 -> 3 [] r = 6 -> 5 [] OTHER -> r]

\* The canonical chain, a piece of it, and one that is not a chain.
Lists == {<<1, 2, 3>>, <<2, 3, 4>>, <<1, 2, 5>>}

\* Archiving: a chain 1 .. 3 with empty slots, and a fork 4 on 1.
ForkedChain == [r \in ArchiveRoots |-> IF r = 4 THEN 1 ELSE r - 1]
ForkedSlots ==
    [r \in ArchiveRoots \union {ArchiveGenesis} |-> CASE r = 2 -> 6 [] r = 3 -> 10 [] r = 4 -> 3 [] OTHER -> r]

Arch == INSTANCE Archiver WITH
    Roots <- ArchiveRoots, Genesis <- ArchiveGenesis, Parent <- ArchiveParent, Slot <- ArchiveSlot,
    SLOTS_PER_EPOCH <- SlotsPerEpoch, MAX_LENGTH <- MaxTasks,
    nodes <- r1, fin <- r2, writing <- r3, hot <- r4, archive <- r5, stateDb <- r6,
    announced <- r7, queue <- r8, task <- r9, failed <- r10, stopping <- r11,
    stopStates <- r12, restarts <- r13

\* Production: two attester slashings that overlap, of which the second mentions all the
\* validators of the first, and the exit of a validator of both; and a single slashing.
Op(kind, id, validators, indices) == [kind |-> kind, id |-> id, validators |-> validators, indices |-> indices]
SomeOperations ==
    { Op("attesterSlashing", 1, {v1, v2}, {v1, v2}), Op("attesterSlashing", 2, {v2, v3}, {v1, v2, v3}),
      Op("voluntaryExit", 3, {v2}, {v2}) }
OneSlashing == { Op("attesterSlashing", 1, {v2}, {v2}) }

Prod == INSTANCE BlockProduction WITH
    Operations <- PoolOperations, MaxBlocks <- 2,
    chain <- r1, pool <- r2, validating <- r3, blocks <- r4, removing <- r5,
    assembling <- r6, stored <- r7

-----------------------------------------------------------------------------
Off8 == r8 = 0 /\ r9 = 0 /\ r10 = 0 /\ r11 = 0 /\ r12 = 0 /\ r13 = 0

MCInit ==
    /\ Init
    /\ \/ /\ part = "import" /\ r1 = 0 /\ r2 = 0 /\ r3 = 0 /\ r4 = 0 /\ r5 = 0 /\ r6 = 0 /\ r7 = 0
          /\ Off8
       \/ part = "archiver" /\ Arch!Init
       \/ part = "production" /\ Prod!Init /\ Off8

MCNext ==
    \/ part = "import" /\ Next /\ UNCHANGED <<part, registers>>
    \/ part = "archiver" /\ Arch!Next /\ UNCHANGED <<part, vars>>
    \/ part = "production" /\ Prod!Next /\ UNCHANGED <<part, vars, late>>

\* The fairness of BlockImport, Archiver and BlockProduction, each in its own part.
Import(A) == part = "import" /\ A /\ UNCHANGED <<part, registers>>
Archive(A) == part = "archiver" /\ A /\ UNCHANGED <<part, vars>>
Produce(A) == part = "production" /\ A /\ UNCHANGED <<part, vars, late>>

MCFairness ==
    /\ WF_allVars(Import(ProcessBlockJob)) /\ WF_allVars(Import(ProcessChainSegmentJob))
    /\ WF_allVars(Import(GetPreState)) /\ WF_allVars(Import(RunStateTransition))
    /\ WF_allVars(Import(VerifySignatures)) /\ WF_allVars(Import(OnClockSlot))
    /\ \A r \in AllRoots : WF_allVars(Import(FetchSucceeds(r) \/ FetchFails(r)))
    /\ \A r \in Roots :
          /\ WF_allVars(Import(FutureBlockStored(r))) /\ WF_allVars(Import(OrphanStored(r)))
          /\ WF_allVars(Import(OnBlock(r))) /\ WF_allVars(Import(PendingBlockRead(r)))
          /\ WF_allVars(Import(PendingBlockDeleted(r)))
    /\ \A r \in ArchiveRoots : WF_allVars(Archive(Arch!BlockWritten(r)))
    /\ WF_allVars(Archive(\E cp \in r7 : Arch!OnFinalizedCheckpoint(cp)))
    /\ WF_allVars(Archive(Arch!TaskStep))
    /\ \A n \in 1..2 : WF_allVars(Produce(Prod!ProcessBlockOperations(n)))
    /\ \A op \in PoolOperations : WF_allVars(Produce(Prod!Store(op)))

MCSpec == MCInit /\ [][MCNext]_allVars /\ MCFairness

\* Production alone.
ProductionSpec == MCInit /\ part = "production" /\ [][MCNext]_allVars /\ MCFairness

-----------------------------------------------------------------------------
\* Archiver: below an archived state the archive has every block of its chain, back to genesis or
\* to a state that stop archived ahead of the tasks, and a finalized block is never in neither
\* database nor being moved, through every order of events, tasks and a restart.
ArchiveIsComplete ==
    part = "archiver" => Arch!TypeOK /\ Arch!ArchiveIsComplete /\ Arch!NothingFinalizedLost

\* Archiver: the block of the finalized checkpoint is archived in the end, unless a task is refused
\* or ends early, or stop archived a state of that block ahead of the tasks.
FinalizedIsArchived == []<>(part = "archiver" => Arch!ArchivedOrExcused)

\* BlockProduction: an operation the node has stored is in the pool, under its key, until a block
\* it imported has slashed or exited its validators.
OperationsAreKept == part = "production" => Prod!NoOperationLost

\* BlockProduction: the node can always produce a block again: an operation that is on chain and
\* makes a block fail does not stay in the pool ("Removed when included on chain or old").
ProductionRecovers == []<>(part = "production" => Prod!CanProduce)
=============================================================================
