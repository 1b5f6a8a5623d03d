---------------------------- MODULE Justification ----------------------------
(***************************************************************************)
(* Casper FFG justification and finalization in the beacon state, from     *)
(* packages/beacon-state-transition/src/allForks/epoch/                    *)
(* processJustificationAndFinalization.ts.                                 *)
(*                                                                         *)
(* Of a beacon state the model keeps the two justified checkpoints, the    *)
(* finalized checkpoint, the block root at the start of every epoch, and   *)
(* the justification bits as the set of those of 1..4 that are set, 1 for  *)
(* the most recent epoch.                                                  *)
(***************************************************************************)
EXTENDS Integers, Sequences

GENESIS_EPOCH == 0

Checkpoint(e, r) == [epoch |-> e, root |-> r]

\* The genesis state: its checkpoints have the zero hash as a stub root.
GenesisState(genesisRoot, epochs) ==
    [previousJustified |-> Checkpoint(GENESIS_EPOCH, 0),
     currentJustified |-> Checkpoint(GENESIS_EPOCH, 0),
     finalized |-> Checkpoint(GENESIS_EPOCH, 0),
     bits |-> {},
     blockRoots |-> [e \in epochs |-> genesisRoot]]

\* Mutant: whatever is justified is finalized at once.
FinalizesAtOnce(state, currentEpoch, prevTarget, currTarget) ==
    IF currentEpoch <= GENESIS_EPOCH + 1 \/ ~currTarget THEN state
    ELSE LET justified == Checkpoint(currentEpoch, state.blockRoots[currentEpoch])
         IN [state EXCEPT !.previousJustified = justified,
                          !.currentJustified = justified,
                          !.finalized = justified]

\* Mutant: the previous epoch is off by one, and a late target moves back the
\* justified checkpoint.
PreviousEpochOffByOne(state, currentEpoch, prevTarget, currTarget) ==
    IF currentEpoch <= GENESIS_EPOCH + 1 THEN state
    ELSE [state EXCEPT !.currentJustified =
            IF currTarget THEN Checkpoint(currentEpoch, state.blockRoots[currentEpoch])
            ELSE IF prevTarget THEN Checkpoint(currentEpoch - 2, state.blockRoots[currentEpoch - 2])
            ELSE @]

\* processJustificationAndFinalization at the end of currentEpoch.  prevTarget
\* and currTarget say whether two thirds of the stake attested to the target
\* of the previous and of the current epoch.
ProcessJustificationAndFinalization(state, currentEpoch, prevTarget, currTarget) ==
    IF currentEpoch <= GENESIS_EPOCH + 1
    THEN state
    ELSE LET oldPrevious == state.previousJustified
             oldCurrent == state.currentJustified
             bits == {i \in 1..4 : \/ i = 1 /\ currTarget
                                   \/ i = 2 /\ prevTarget
                                   \/ i - 1 \in state.bits}
             justified ==
                 IF currTarget THEN Checkpoint(currentEpoch, state.blockRoots[currentEpoch])
                 ELSE IF prevTarget
                 THEN Checkpoint(currentEpoch - 1, state.blockRoots[currentEpoch - 1])
                 ELSE oldCurrent
             fromCurrent == \/ {1, 2, 3} \subseteq bits /\ oldCurrent.epoch + 2 = currentEpoch
                            \/ {1, 2} \subseteq bits /\ oldCurrent.epoch + 1 = currentEpoch
             fromPrevious == \/ {2, 3, 4} \subseteq bits /\ oldPrevious.epoch + 3 = currentEpoch
                             \/ {2, 3} \subseteq bits /\ oldPrevious.epoch + 2 = currentEpoch
         IN [state EXCEPT !.previousJustified = oldCurrent,
                          !.currentJustified = justified,
                          !.bits = bits,
                          !.finalized = IF fromCurrent THEN oldCurrent
                                        ELSE IF fromPrevious THEN oldPrevious
                                        ELSE @]
=============================================================================
