--------------------------- MODULE Participation ---------------------------
(***************************************************************************)
(* Attestations in blocks, the participation the state remembers, and the  *)
(* rewards, penalties and inactivity scores of the epoch transition, in    *)
(* phase0 (lists of pending attestations), in altair (flags per validator) *)
(* and across the upgrade that turns the one into the other.               *)
(*                                                                         *)
(* An attestation is abstracted to who made it and whether it voted for    *)
(* the target and the head the chain has; effective balances are constant, *)
(* counted in increments, and every validator is active.                   *)
(***************************************************************************)
EXTENDS Integers, Sequences, FiniteSets, FiniteSetsExt

CONSTANTS
  ValidatorCount,     \* validators are 1, 2, ...
  Eff,                \* effective balance of each, in increments
  Duty,               \* the slot of the epoch in which each attests
  SlashedSets,        \* the sets of slashed validators to start from
  SlotsPerEpoch, SqrtSlots, AltairEpoch,
  BaseRewardFactor, BaseRewardsPerEpoch, ProposerQuotient, InactivityQuotient, MinEpochsToLeak,
  Weight, Denominator, ScoreBias, ScoreRecovery,
  MaxEpoch, MaxIncluded \* bounds: last epoch, attestations of a validator and epoch in blocks

Validators == 1..ValidatorCount
Flags == {"source", "target", "head"}

VARIABLES
  slot, fork, fin,
  pending,  \* phase0: [prev, cur] sets of pending attestations
  part,     \* altair: [prev, cur] flags of each validator
  scores,   \* altair: inactivityScores
  slashed,
  deltas,   \* what the last epoch transition did: [rewards, penalties, proposing]
  history   \* history: every attestation put in a block

vars == <<slot, fork, fin, pending, part, scores, slashed, deltas, history>>

epoch == slot \div SlotsPerEpoch
prevEpoch == IF epoch = 0 THEN 0 ELSE epoch - 1
NoFlags == [v \in Validators |-> {}]
Zero == [v \in Validators |-> 0]
AtLeast(a, b) == IF a > b THEN a ELSE b
SumOfFlags(of(_)) == of("source") + of("target") + of("head")

\* The effective balances of the validators in S, added up in the order of the registry.
Stake(S) ==
  LET upTo[n \in 0..ValidatorCount] ==
        IF n = 0 THEN 0 ELSE upTo[n - 1] + (IF n \in S THEN Eff[n] ELSE 0)
  IN  upTo[ValidatorCount]

-----------------------------------------------------------------------------
(* Blocks. *)

\* getAttestationParticipationStatus: the flags an attestation earns in altair
GetAttestationParticipationStatus(a) ==
  (IF a.delay <= SqrtSlots THEN {"source"} ELSE {})
  \cup (IF a.target /\ a.delay <= SlotsPerEpoch THEN {"target"} ELSE {})
  \cup (IF a.target /\ a.head /\ a.delay = 1 THEN {"head"} ELSE {})

\* validateAttestation: the inclusion window, and a target of the current or the previous epoch
ValidateAttestation(s, e) ==
  /\ e \in {prevEpoch, epoch}
  /\ s + 1 <= slot /\ slot <= s + SlotsPerEpoch

ProcessAttestation(v, e, target, head) ==
  LET s == e * SlotsPerEpoch + Duty[v]
      a == [v |-> v, epoch |-> e, delay |-> slot - s, target |-> target, head |-> head]
      which == IF e = epoch THEN "cur" ELSE "prev"
  IN  /\ ValidateAttestation(s, e)
      /\ a \notin history
      /\ Cardinality({h \in history : h.v = v /\ h.epoch = e}) < MaxIncluded
      /\ history' = history \cup {a}
      /\ \/ /\ fork = "phase0"
            /\ pending' = [pending EXCEPT ![which] = @ \cup {a}]
            /\ UNCHANGED part
         \/ /\ fork = "altair"
            /\ part' = [part EXCEPT ![which][v] = @ \cup GetAttestationParticipationStatus(a)]
            /\ UNCHANGED pending
      /\ UNCHANGED <<slot, fork, fin, scores, slashed, deltas>>

-----------------------------------------------------------------------------
(* The epoch transition: attester statuses, inactivity scores, deltas. *)

\* statusProcessEpoch on one list
PendingFlags(atts, v) ==
  LET mine == {a \in atts : a.v = v}
  IN  (IF mine # {} THEN {"source"} ELSE {})
      \cup (IF \E a \in mine : a.target THEN {"target"} ELSE {})
      \cup (IF \E a \in mine : a.target /\ a.head THEN {"head"} ELSE {})

InclusionDelay(atts, v) == Min({a.delay : a \in {b \in atts : b.v = v}})

\* the flags of the previous epoch, whichever way the fork keeps them
PrevFlags ==
  IF fork = "phase0" THEN [v \in Validators |-> PendingFlags(pending.prev, v)] ELSE part.prev

\* Mutant: a slashed validator's flags count.
MarkedSlashedToo(flags, v, flag) == flag \in flags[v]

\* hasMarkers with FLAG_UNSLASHED, on the flags the transition computed
Marked(flags, v, flag) == v \notin slashed /\ flag \in flags[v]
UnslashedStake(flags, flag) == AtLeast(1, Stake({v \in Validators : Marked(flags, v, flag)}))
TotalStake == AtLeast(1, Stake(Validators))
IntSqrt(n) == CHOOSE r \in 0..n : r * r <= n /\ (r + 1) * (r + 1) > n

IsInInactivityLeak(finalized) == prevEpoch - finalized > MinEpochsToLeak

\* processInactivityUpdates
InactivityScore(finalized, v) ==
  LET moved == IF Marked(PrevFlags, v, "target") THEN scores[v] - Min({1, scores[v]})
               ELSE scores[v] + ScoreBias
  IN  IF IsInInactivityLeak(finalized) THEN moved ELSE moved - Min({ScoreRecovery, moved})

\* phase0 getAttestationDeltas; proposing is the part of the rewards for including others
BaseReward(v) == ((Eff[v] * BaseRewardFactor) \div IntSqrt(TotalStake)) \div BaseRewardsPerEpoch
ProposerReward(v) == BaseReward(v) \div ProposerQuotient

CheckpointReward(flags, v, flag, leak) ==
  IF ~Marked(flags, v, flag) THEN 0
  ELSE IF leak THEN BaseReward(v) ELSE (BaseReward(v) * UnslashedStake(flags, flag)) \div TotalStake

GetAttestationDeltas(finalized) ==
  LET leak  == IsInInactivityLeak(finalized)
      flags == PrevFlags
      inclusion(v) == IF ~Marked(flags, v, "source") THEN 0
                      ELSE (BaseReward(v) - ProposerReward(v)) \div InclusionDelay(pending.prev, v)
      missed(v) == SumOfFlags(LAMBDA f : IF Marked(flags, v, f) THEN 0 ELSE BaseReward(v))
      leaked(v) == BaseReward(v) * BaseRewardsPerEpoch - ProposerReward(v)
                   + IF Marked(flags, v, "target") THEN 0
                     ELSE (Eff[v] * (prevEpoch - finalized)) \div InactivityQuotient
  IN  [rewards |-> [v \in Validators |-> 
          inclusion(v) + SumOfFlags(LAMBDA f : CheckpointReward(flags, v, f, leak))],
       penalties |-> [v \in Validators |-> missed(v) + IF leak THEN leaked(v) ELSE 0],
       proposing |-> MapThenSumSet(ProposerReward, {v \in Validators : Marked(flags, v, "source")})]

\* altair getFlagIndexDeltas and getInactivityPenaltyDeltas, one flag and one validator at a time
BaseRewardPerIncrement == BaseRewardFactor \div IntSqrt(TotalStake)
AltairBaseReward(v) == Eff[v] * BaseRewardPerIncrement
FlagReward(flags, v, f, leak) ==
  IF ~Marked(flags, v, f) \/ leak THEN 0
  ELSE (AltairBaseReward(v) * Weight[f] * UnslashedStake(flags, f)) \div (TotalStake * Denominator)
FlagPenalty(flags, v, f) ==
  IF Marked(flags, v, f) \/ f = "head" THEN 0 ELSE (AltairBaseReward(v) * Weight[f]) \div Denominator
InactivityPenalty(flags, v, score) ==
  IF Marked(flags, v, "target") THEN 0 ELSE (Eff[v] * score) \div (ScoreBias * InactivityQuotient)

\* getRewardsPenaltiesDeltas, with the scores processInactivityUpdates has just written
GetRewardsPenaltiesDeltas(finalized) ==
  LET leak  == IsInInactivityLeak(finalized)
      flags == PrevFlags
  IN  [rewards |-> [v \in Validators |-> SumOfFlags(LAMBDA f : FlagReward(flags, v, f, leak))],
       penalties |-> [v \in Validators |->
          SumOfFlags(LAMBDA f : FlagPenalty(flags, v, f))
          + InactivityPenalty(flags, v, InactivityScore(finalized, v))],
       proposing |-> 0]

\* Mutant: only the attestations with a matching head are carried over.
TranslateHeads(atts) ==
  [v \in Validators |-> UNION {GetAttestationParticipationStatus(a) : a \in {b \in atts : b.v = v /\ b.head}}]

\* translateParticipation: pending attestations become flags
TranslateParticipation(atts) ==
  [v \in Validators |-> UNION {GetAttestationParticipationStatus(a) : a \in {b \in atts : b.v = v}}]

\* the epoch transition of the fork, then the upgrade when the next epoch is the fork's
ProcessEpoch(finalized) ==
  /\ finalized \in {fin, AtLeast(fin, prevEpoch - 1)} /\ fin' = finalized
  /\ deltas' = IF epoch = 0 THEN [rewards |-> Zero, penalties |-> Zero, proposing |-> 0]
               ELSE IF fork = "phase0" THEN GetAttestationDeltas(finalized)
               ELSE GetRewardsPenaltiesDeltas(finalized)
  /\ scores' = IF fork = "altair" /\ epoch > 0
               THEN [v \in Validators |-> InactivityScore(finalized, v)] ELSE scores
  /\ IF fork = "phase0"
     THEN IF epoch + 1 = AltairEpoch
          THEN /\ fork' = "altair"
               /\ pending' = [prev |-> {}, cur |-> {}]
               /\ part' = [prev |-> TranslateParticipation(pending.cur), cur |-> NoFlags]
          ELSE /\ pending' = [prev |-> pending.cur, cur |-> {}]
               /\ UNCHANGED <<fork, part>>
     ELSE /\ part' = [prev |-> part.cur, cur |-> NoFlags]
          /\ UNCHANGED <<fork, pending>>

NextSlot(finalized) ==
  /\ slot + 1 < (MaxEpoch + 1) * SlotsPerEpoch
  /\ slot' = slot + 1
  /\ \/ (slot + 1) % SlotsPerEpoch # 0 /\ finalized = fin
        /\ UNCHANGED <<fork, fin, pending, part, scores, deltas>>
     \/ (slot + 1) % SlotsPerEpoch = 0 /\ ProcessEpoch(finalized)
  /\ history' = {h \in history : h.epoch + 1 >= slot' \div SlotsPerEpoch}
  /\ UNCHANGED slashed

Init ==
  /\ slot = 0 /\ fork = "phase0" /\ fin = 0
  /\ pending = [prev |-> {}, cur |-> {}] /\ part = [prev |-> NoFlags, cur |-> NoFlags]
  /\ scores = Zero /\ slashed \in SlashedSets
  /\ deltas = [rewards |-> Zero, penalties |-> Zero, proposing |-> 0] /\ history = {}

Next ==
  \/ \E v \in Validators, e \in 0..MaxEpoch, target, head \in BOOLEAN : ProcessAttestation(v, e, target, head)
  \/ \E finalized \in 0..MaxEpoch : NextSlot(finalized)

Spec == Init /\ [][Next]_vars

-----------------------------------------------------------------------------
Earned(v, e) ==
  LET mine == {h \in history : h.v = v /\ h.epoch = e}
  IN  IF fork = "phase0" THEN PendingFlags(mine, v)
      ELSE UNION {GetAttestationParticipationStatus(h) : h \in mine}

\* No credit is lost or invented on the way to the epoch transition: what the state holds for the
\* previous and the current epoch is what the attestations in the blocks earn, also for epochs
\* that were attested in phase0 lists and are paid from altair flags.
CreditIsKept ==
  \A v \in Validators :
    /\ epoch > 0 => PrevFlags[v] = Earned(v, prevEpoch)
    /\ (IF fork = "phase0" THEN PendingFlags(pending.cur, v) ELSE part.cur[v]) = Earned(v, epoch)

\* "take away max rewards if we're not finalizing": in a leak nobody gains by attesting, and a
\* slashed or silent validator never gains; out of a leak a full attester never loses.
Net(d, v) == d.rewards[v] - d.penalties[v]
FairStep ==
  slot' \div SlotsPerEpoch > epoch /\ epoch > 0 =>
    \A v \in Validators :
      /\ prevEpoch - fin' > MinEpochsToLeak => Net(deltas', v) <= 0
      /\ v \in slashed \/ PrevFlags[v] = {} => Net(deltas', v) <= 0
      /\ prevEpoch - fin' <= MinEpochsToLeak /\ v \notin slashed /\ PrevFlags[v] = Flags
           => Net(deltas', v) >= 0
=============================================================================
