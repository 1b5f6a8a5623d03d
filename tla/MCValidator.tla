---------------------------- MODULE MCValidator -----------------------------
(* The validator client for TLC: block slashing protection, the interchange  *)
(* of its database between machines, the tasks that run every slot, and the  *)
(* services that keep the duties.  A behaviour is about one of them: "part"  *)
(* says which.  Block protection keeps its own variables; the others use the *)
(* registers r1, r2, ..., in the order of their declarations.                *)
EXTENDS BlockProtection

CONSTANTS k1, k2, fa, fb

VARIABLES part, r1, r2, r3, r4, r5, r6, r7, r8, r9, r10, r11

registers == <<r1, r2, r3, r4, r5, r6, r7, r8, r9, r10, r11>>
allVars == <<part, vars, registers>>

-----------------------------------------------------------------------------
\* Block protection: two blocks for every slot; a file with and one without a signing root.
TwoPerSlot == [r \in Roots |-> (r - 1) \div 2]
Files == {{[slot |-> 1, root |-> 3], [slot |-> 2, root |-> ZERO_ROOT]}, {[slot |-> 1, root |-> 4]}}

\* Interchange: a key that proposes and attests, and one that only attests.  The files of another
\* client have no signing roots; in one an attestation surrounds another, which ends its import.
CONSTANTS Machines, BlockRequests, AttRequests, OldFiles, UnknownRoot, Networks, MaxMoves, MaxCuts

Block(s, r) == [key |-> "proposer", slot |-> s, root |-> r]
Att(k, s, t, r) == [key |-> k, source |-> s, target |-> t, root |-> r]
OldFile(atts) == {[key |-> "proposer", signedBlocks |-> {Block(1, "zero")}, signedAttestations |-> atts]}

BlocksToSign == {Block(1, "r1"), Block(1, "r2")}
AttsToSign == {Att("proposer", 1, 2, "r1"), Att("attester", 1, 2, "r3"), Att("attester", 1, 2, "r4")}
FilesToImport == {OldFile({Att("proposer", 0, 3, "zero")}),
                  OldFile({Att("proposer", 0, 3, "zero"), Att("proposer", 1, 2, "zero")})}

Inter == INSTANCE Interchange WITH
    ZERO_ROOT <- UnknownRoot, MaxCrashes <- MaxCuts,
    db <- r1, active <- r2, file <- r3, older <- r4, importing <- r5, past <- r6, signed <- r7,
    shown <- r8, moves <- r9, crashes <- r10

\* The chains of the beacon node, for the tasks and the duties services.
CONSTANTS Validators, Forks, NoKey, NoRoot

\* Tasks: two chains that give a slot to different proposers and a key different duties.
CONSTANTS Proposer, AttesterSlot, SLOTS_PER_EPOCH, TASKS_FORK_EPOCH, TaskSets, LastSlot, TaskReorgs,
          MaxCalls

ProposerOf == [f \in {fa, fb} |-> [s \in 0..3 |->
    IF f = fa THEN k1 ELSE IF s = 1 THEN NoKey ELSE k2]]
AttestsAt == [f \in {fa, fb} |-> [e \in 0..2 |-> [k \in {k1, k2} |->
    2 * e + (IF (f = fa) = (k = k1) THEN 0 ELSE 1)]]]

Tasks == INSTANCE ValidatorTasks WITH
    Keys <- Validators, ALTAIR_FORK_EPOCH <- TASKS_FORK_EPOCH, MaxSlot <- LastSlot,
    MaxReorgs <- TaskReorgs,
    now <- r1, fork <- r2, reorgs <- r3, proposers <- r4, attDuties <- r5, head <- r6,
    task <- r7, producing <- r8, notified <- r9, answered <- r10, attested <- r11

\* Duties: two chains; the second key is in the sync committee on one of them only.
CONSTANTS Member, EPOCHS_PER_SYNC_COMMITTEE_PERIOD, DUTIES_FORK_EPOCH, MaxEpoch, DutyReorgs,
          MaxFailures

MemberOf == [f \in {fa, fb} |-> [p \in 0..3 |-> IF f = fa THEN {k1, k2} ELSE {k1}]]

Duties == INSTANCE ValidatorDuties WITH
    Keys <- Validators, ALTAIR_FORK_EPOCH <- DUTIES_FORK_EPOCH, MaxReorgs <- DutyReorgs,
    epoch <- r1, fork <- r2, reorgs <- r3, onChain <- r4, indices <- r5, poll <- r6,
    attDuties <- r7, syncDuties <- r8, task <- r9, answered <- r10, failures <- r11

-----------------------------------------------------------------------------
MCInit ==
    /\ Init
    /\ \/ /\ part = "blocks"
          /\ r1 = 0 /\ r2 = 0 /\ r3 = 0 /\ r4 = 0 /\ r5 = 0 /\ r6 = 0 /\ r7 = 0 /\ r8 = 0 /\ r9 = 0
          /\ r10 = 0 /\ r11 = 0
       \/ part = "interchange" /\ Inter!Init /\ r11 = 0
       \/ part = "tasks" /\ Tasks!Init
       \/ part = "duties" /\ Duties!Init

MCNext ==
    \/ part = "blocks" /\ Next /\ UNCHANGED <<part, registers>>
    \/ part = "interchange" /\ Inter!Next /\ UNCHANGED <<part, vars, r11>>
    \/ part = "tasks" /\ Tasks!Next /\ UNCHANGED <<part, vars>>
    \/ part = "duties" /\ Duties!Next /\ UNCHANGED <<part, vars>>

MCSpec == MCInit /\ [][MCNext]_allVars

-----------------------------------------------------------------------------
\* Interchange: wherever the keys were moved, whichever files were imported, and with an import cut
\* short or refused, the machines together sign no second block for a slot and no second attestation
\* for a target, and their services record no attestation that surrounds another's.
MovedKeysStaySafe == part = "interchange" => Inter!MovedKeysStaySafe

\* ValidatorTasks and ValidatorDuties: the attestation task serves each slot once, and in order,
\* however its timers and answers come; a proposer of the last duties answer is told of its slot;
\* the duties kept are those of the last answer, and a key with a known index has its duties asked.
DutiesAreServed ==
    /\ part = "tasks" => Tasks!AttestsEachSlotOnce /\ Tasks!NoProposalMissed
    /\ part = "duties" => Duties!DutiesAreLatestAnswer /\ Duties!NoKeyWithoutDuties
=============================================================================
