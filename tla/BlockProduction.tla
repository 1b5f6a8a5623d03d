-------------------------- MODULE BlockProduction ---------------------------
(***************************************************************************)
(* Block production with the operations the node has collected: slashings  *)
(* and exits come by gossip and the API (chain/validation, beacon/pool),   *)
(* are kept in the database, go into the blocks the node assembles         *)
(* (chain/factory/block), and are removed when a block with them has been  *)
(* imported, on whatever branch (BeaconDb.processBlockOperations).         *)
(*                                                                         *)
(* An operation is [kind, id, validators, indices]: the validators it      *)
(* slashes or exits, and for an attester slashing all the indices of its   *)
(* two attestations.  Signatures and the conditions that do not depend on  *)
(* the state hold; MAX_ATTESTER_SLASHINGS and the like are never reached.  *)
(***************************************************************************)
EXTENDS Integers, Sequences, FiniteSets

CONSTANTS
    Operations,
    MaxBlocks

VARIABLES
    chain,      \* operations of the blocks of the head's branch, from the first to the head
    pool,       \* db: operations
    validating, \* operations that passed the checks on the head state and have their
                \* signatures verified
    blocks,     \* the operations of every block imported, in the order of import
    removing,   \* blocks (their number) whose operations are yet to be removed
    assembling, \* <<the branch of the block that is being assembled>>, or none
    stored      \* history: operations this node has stored

vars == <<chain, pool, validating, blocks, removing, assembling, stored>>

None == <<>>
OfKind(ops, kind) == {op \in ops : op.kind = kind}
Slashings(ops) == OfKind(ops, "proposerSlashing") \cup OfKind(ops, "attesterSlashing")
ValidatorsOf(ops) == UNION {op.validators : op \in ops}

---------------------------------------------------------------------------
(* The state transition, as far as operations go.                          *)

AppliedBy(branch) == UNION {branch[i] : i \in 1..Len(branch)}
SlashedBy(ops) == ValidatorsOf(Slashings(ops))

\* processProposerSlashing, processAttesterSlashing (one that slashes nobody is an error) and
\* processVoluntaryExit, in this order; a slashed validator has its exit initiated.
ProcessOperations(applied, ops) ==
    LET proposers == OfKind(ops, "proposerSlashing")
        before(op) == SlashedBy(applied) \cup ValidatorsOf(proposers)
                      \cup ValidatorsOf({a \in OfKind(ops, "attesterSlashing") : a.id < op.id})
        exits == OfKind(ops, "voluntaryExit")
        exiting == SlashedBy(applied) \cup SlashedBy(ops) \cup ValidatorsOf(OfKind(applied, "voluntaryExit"))
    IN  /\ \A op \in proposers : op.validators \cap SlashedBy(applied) = {}
        /\ \A p, q \in proposers : p # q => p.validators # q.validators
        /\ \A op \in OfKind(ops, "attesterSlashing") : ~(op.validators \subseteq before(op))
        /\ \A op \in exits : op.validators \cap exiting = {}
        /\ \A p, q \in exits : p # q => p.validators # q.validators

---------------------------------------------------------------------------
(* The repositories: exits and proposer slashings have the key of their    *)
(* validator, attester slashings that of their root.                       *)

GetId(op) == IF op.kind = "attesterSlashing" THEN <<op.kind, op.id>> ELSE <<op.kind, op.validators>>

\* has of the exits and proposer slashings; hasAll of the attester slashings, which looks at
\* all the indices of the two attestations of a stored one, also those it does not slash.
AlreadyExists(op) == op.validators \subseteq UNION {p.indices : p \in OfKind(pool, op.kind)}

\* Mutant: everything that concerns a validator of the block goes.
RemovedWithValidators(ops) == {op \in pool : op.validators \cap ValidatorsOf(ops) = {}}
\* The pool without what has the key of one of ops.
RemovedFromPool(ops) == {op \in pool : \A x \in ops : GetId(x) # GetId(op)}

---------------------------------------------------------------------------
(* Operations come in.                                                     *)

\* validateGossipProposerSlashing
ProposerSlashingIsValid(op) == op.validators \cap SlashedBy(AppliedBy(chain)) = {}
\* validateGossipAttesterSlashing, which does not look at who is slashed already.
AttesterSlashingIsValid(op) == op.validators # {}
\* validateGossipVoluntaryExit
VoluntaryExitIsValid(op) == op.validators \cap ValidatorsOf(AppliedBy(chain)) = {}

\* The validations, up to the wait for the signatures.
Validate(op) ==
    /\ ~AlreadyExists(op)
    /\ CASE op.kind = "proposerSlashing" -> ProposerSlashingIsValid(op)
         [] op.kind = "attesterSlashing" -> AttesterSlashingIsValid(op)
         [] op.kind = "voluntaryExit" -> VoluntaryExitIsValid(op)
    /\ validating' = validating \cup {op}
    /\ UNCHANGED <<chain, pool, blocks, removing, assembling, stored>>

\* submitPoolAttesterSlashing, submitPoolProposerSlashing, submitPoolVoluntaryExit and the
\* gossip handlers: what is valid is stored under its key.
Store(op) ==
    /\ op \in validating /\ validating' = validating \ {op}
    /\ pool' = RemovedFromPool({op}) \cup {op} /\ stored' = stored \cup {op}
    /\ UNCHANGED <<chain, blocks, removing, assembling>>

---------------------------------------------------------------------------
(* Blocks.                                                                 *)

\* A block with these operations is imported, and becomes the head or does not.
Imported(branch, ops) ==
    /\ blocks' = Append(blocks, ops) /\ removing' = removing \cup {Len(blocks) + 1}
    /\ chain' \in {chain, Append(branch, ops)}

\* A block of another node on a block of the head's branch, with operations that its state takes.
ImportBlock(n, ops) ==
    LET branch == SubSeq(chain, 1, n)
    IN  /\ n <= Len(chain) /\ Len(blocks) < MaxBlocks
        /\ ProcessOperations(AppliedBy(branch), ops) /\ Imported(branch, ops)
        /\ UNCHANGED <<pool, validating, assembling, stored>>

\* processBlockOperations, when the block has been processed.
ProcessBlockOperations(n) ==
    /\ n \in removing /\ removing' = removing \ {n} /\ pool' = RemovedFromPool(blocks[n])
    /\ UNCHANGED <<chain, validating, blocks, assembling, stored>>

\* assembleBlock takes the head and its state.
StartAssembleBlock ==
    /\ assembling = None /\ assembling' = <<chain>> /\ Len(blocks) < MaxBlocks
    /\ UNCHANGED <<chain, pool, validating, blocks, removing, stored>>

\* assembleBody and computeNewStateRoot: all of the pool goes in, and an operation the state
\* does not take fails the block; what succeeds is signed and comes back as a block.
AssembleBlock ==
    /\ assembling # None /\ assembling' = None
    /\ IF ProcessOperations(AppliedBy(assembling[1]), pool) /\ Len(blocks) < MaxBlocks
       THEN Imported(assembling[1], pool)
       ELSE UNCHANGED <<chain, blocks, removing>>
    /\ UNCHANGED <<pool, validating, stored>>

---------------------------------------------------------------------------
Init ==
    /\ chain = <<>> /\ pool = {} /\ validating = {} /\ blocks = <<>> /\ removing = {}
    /\ assembling = None /\ stored = {}

Next ==
    \/ \E op \in Operations : Validate(op) \/ Store(op)
    \/ \E n \in 0..MaxBlocks, ops \in SUBSET Operations : ImportBlock(n, ops)
    \/ \E n \in 1..MaxBlocks : ProcessBlockOperations(n)
    \/ StartAssembleBlock \/ AssembleBlock

\* The handler of an imported block and the verification of a signature end.
Fairness ==
    /\ \A n \in 1..MaxBlocks : WF_vars(ProcessBlockOperations(n))
    /\ \A op \in Operations : WF_vars(Store(op))

Spec == Init /\ [][Next]_vars /\ Fairness

---------------------------------------------------------------------------
\* The operations in the pool can all be applied in a block on the head: none of them is on
\* chain already ("Removed when included on chain or old", db/repositories).
CanProduce == ProcessOperations(AppliedBy(chain), pool)

\* What an operation is for has been done by a block the node imported, on some branch.
Served(op) ==
    LET done == {blocks[i] : i \in 1..Len(blocks)}
    IN  IF op.kind = "voluntaryExit" THEN op.validators \subseteq ValidatorsOf(UNION done)
        ELSE op.validators \subseteq SlashedBy(UNION done)

\* An operation the node has stored waits in the pool, or another of the same key does, until
\* an imported block has slashed or exited its validators: the keys under which operations are
\* stored and removed never let one take away another that slashes someone else.
NoOperationLost == \A op \in stored : Served(op) \/ \E p \in pool : GetId(p) = GetId(op)
=============================================================================
