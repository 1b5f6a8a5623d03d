---------------------------- MODULE MCForkChoice ----------------------------
(* Two instances of the fork choice for TLC.  "finality": a chain over five  *)
(* epochs with forks, where blocks justify, finalize and are pruned, and     *)
(* nobody's attestations are tracked.  "votes": four blocks around an epoch  *)
(* boundary and two validators who move their votes; it uses the registers.  *)
EXTENDS ForkChoice

CONSTANT Voters   \* the validators of the "votes" instance

VARIABLES part, r1, r2, r3

registers == <<r1, r2, r3>>
allVars == <<part, vars, registers>>

VoterSymmetry == Permutations(Voters)

\* When the blocks of "finality" are proposed.
LateSlots == [r \in Roots |-> CASE r = 2 -> {4} [] r = 3 -> {5} [] r = 4 -> {7} [] r = 5 -> {9} [] OTHER -> {10}]
NoBalance == [e \in Epochs |-> <<>>]

\* "votes": two blocks compete in slot 3; every validator has one unit of stake.
VoteSlots == [r \in 2..5 |-> CASE r < 4 -> {3} [] r = 4 -> {5} [] OTHER -> {6}]
FlatBalances == [e \in 0..3 |-> [v \in Voters |-> 1]]

Votes == INSTANCE ForkChoice WITH
    Roots <- 2..5, Validators <- Voters, SlotsPerEpoch <- 2, SafeSlots <- 1,
    BlockSlots <- VoteSlots, AttestationSlots <- {3, 5}, MaxSlot <- 6,
    EffectiveBalances <- FlatBalances,
    fc <- r1, states <- r2, toPrune <- r3

MCInit ==
    \/ part = "finality" /\ Init /\ r1 = 0 /\ r2 = 0 /\ r3 = 0
    \/ part = "votes" /\ Votes!Init /\ Init

MCNext ==
    \/ part = "finality" /\ Next /\ UNCHANGED <<part, registers>>
    \/ part = "votes" /\ Votes!Next /\ UNCHANGED <<part, vars>>

MCSpec == MCInit /\ [][MCNext]_allVars

-----------------------------------------------------------------------------
\* After updateHead every weight is the sum of the balances that voted for the block or its
\* descendants, whatever votes moved, and one more pass leads findHead to the LMD-GHOST head
\* (WeightsAreVotes, NextPassFindsGhostHead); over forks, finalization and pruning the best
\* child and descendant links stay links to real relatives (LinksSound), and the cached head is
\* a known block below the finalized one (HeadKnown).
HeadIsHeaviest ==
    /\ part = "votes" => Votes!WeightsAreVotes /\ Votes!NextPassFindsGhostHead
    /\ TypeOK /\ LinksSound /\ HeadKnown
=============================================================================
