------------------------------ MODULE Registry ------------------------------
(***************************************************************************)
(* The validator registry of the beacon state, as the block operations and *)
(* the epoch transition of beacon-state-transition change it: deposits,    *)
(* the activation queue, the exit queue with its per-block cache,          *)
(* slashings and their two penalties, ejections, effective balances, and   *)
(* the active sets the epoch context caches ahead of time.                 *)
(*                                                                         *)
(* Balances are counted in units with Increment units to one effective     *)
(* balance increment.  Signatures, merkle proofs and the attestation       *)
(* rewards are abstract: an operation with a bad signature is not offered, *)
(* the rewards of an epoch are a choice of the validators that are         *)
(* penalised (Participation.tla computes them).                            *)
(***************************************************************************)
EXTENDS Integers, Sequences, FiniteSets, SequencesExt

CONSTANTS
  Genesis,           \* number of validators at genesis, all active
  DepositLog,        \* the deposit contract's log: <<[key, amount, valid], ...>>
  MaxDeposits,       \* MAX_DEPOSITS
  AttesterSlashings, \* the attester slashings blocks may carry
  MinChurn, ChurnQuotient, Lookahead, SlashVector, WithdrawDelay, ShardPeriod,
  Increment, MaxEff, Ejection, SlashQuotient, WhistleQuotient, PropQuotient,
  SlashMultiplier,   \* PROPORTIONAL_SLASHING_MULTIPLIER
  Penalty,           \* what an epoch of bad attestations costs here
  Proposers,         \* bound: who proposes the blocks of the model
  Absent,            \* bound: the sets of validators that miss an epoch
  MaxEpoch           \* bound: the last epoch

VARIABLES
  vals,     \* state.validators
  bal,      \* state.balances
  slashings,\* state.slashings, a ring of SlashVector sums
  epoch,    \* the current epoch
  fin,      \* state.finalizedCheckpoint.epoch
  eth1,     \* [count |-> eth1Data.depositCount, index |-> eth1DepositIndex]
  block,    \* the block in progress: [stage, proposer, due]
  cache,    \* blockProcess.validatorExitCache
  ctx,      \* active sets of the previous, current and next shuffling
  hits,     \* history: how often each validator met its correlation penalty
  over      \* history: epochs that were full when a block's scan of the exit queue gave them

vars == <<vals, bal, slashings, epoch, fin, eth1, block, cache, ctx, hits, over>>

FarFuture == MaxEpoch + 100
Indices(vs) == 1..Len(vs)
AtMost(a, b) == IF a < b THEN a ELSE b
AtLeast(a, b) == IF a > b THEN a ELSE b

\* A validator record, as processDeposit pushes it.
NewValidator(key, amount) ==
  [key |-> key, elig |-> FarFuture, act |-> FarFuture, exit |-> FarFuture, wd |-> FarFuture,
   slashed |-> FALSE, eff |-> AtMost(amount - (amount % Increment), MaxEff)]

IsActiveValidator(v, e) == v.act <= e /\ e < v.exit
IsSlashableValidator(v, e) == ~v.slashed /\ v.act <= e /\ e < v.wd
GetActiveValidatorIndices(vs, e) == {i \in Indices(vs) : IsActiveValidator(vs[i], e)}
ComputeActivationExitEpoch(e) == e + 1 + Lookahead
GetChurnLimit(n) == AtLeast(MinChurn, n \div ChurnQuotient)
SumEff(vs, S) == FoldSet(LAMBDA i, acc : vs[i].eff + acc, 0, S)
TotalBalance(vs, S) == AtLeast(Increment, SumEff(vs, S))

DecreaseBalance(b, i, d) == [b EXCEPT ![i] = IF d > @ THEN 0 ELSE @ - d]
IncreaseBalance(b, i, d) == [b EXCEPT ![i] = @ + d]

-----------------------------------------------------------------------------
(***************************************************************************)
(* The exit queue.  The first exit of a block scans the registry: the loop *)
(* restarts its count at 0 when it meets a later exit epoch, so the first  *)
(* validator that exits beyond the starting epoch is not counted.  Later   *)
(* exits of the same block go on from the cached epoch and count.          *)
(***************************************************************************)
NoCache == [epoch |-> 0, churn |-> 0, limit |-> 0]

ScanExitQueue(vs, e, limit) ==
  LET start == ComputeActivationExitEpoch(e)
      end   == Max({start} \cup ({vs[i].exit : i \in Indices(vs)} \ {FarFuture}))
      count == Cardinality({i \in Indices(vs) : vs[i].exit = end})
      churn == IF end > start THEN count - 1 ELSE count
  IN  IF churn >= limit THEN [epoch |-> end + 1, churn |-> 1, limit |-> limit]
                        ELSE [epoch |-> end, churn |-> churn, limit |-> limit]

ContinueExitQueue(c) ==
  IF c.churn + 1 >= c.limit THEN [c EXCEPT !.epoch = @ + 1, !.churn = 0]
                            ELSE [c EXCEPT !.churn = @ + 1]

\* initiateValidatorExit on <<validators, exit cache>>
InitiateValidatorExit(vc, i) ==
  LET vs == vc[1]
      c  == IF vc[2] = NoCache
            THEN ScanExitQueue(vs, epoch, GetChurnLimit(Cardinality(ctx.current)))
            ELSE ContinueExitQueue(vc[2])
  IN  IF vs[i].exit # FarFuture THEN vc
      ELSE << [vs EXCEPT ![i].exit = c.epoch, ![i].wd = c.epoch + WithdrawDelay], c >>

\* The epoch that the first scan of this block gave, when it was full.
ExitingAt(e) == {i \in Indices(vals) : vals[i].exit = e}
Overfilled(after) ==
  LET limit == GetChurnLimit(Cardinality(ctx.current))
      e == ScanExitQueue(vals, epoch, limit).epoch
  IN  {x \in {e} : cache = NoCache /\ after # NoCache /\ Cardinality(ExitingAt(e)) >= limit}

\* slashValidatorAllForks on [vals, cache, bal, slashings]; the whistleblower is the proposer
SlashValidator(s, i) ==
  LET vc     == InitiateValidatorExit(<<s.vals, s.cache>>, i)
      eff    == vc[1][i].eff
      whistle == eff \div WhistleQuotient
      prop   == whistle \div PropQuotient
      b1     == DecreaseBalance(s.bal, i, eff \div SlashQuotient)
      b2     == IncreaseBalance(b1, block.proposer, prop)
  IN  [vals  |-> [vc[1] EXCEPT ![i].slashed = TRUE,
                               ![i].wd = AtLeast(@, epoch + SlashVector)],
       cache |-> vc[2],
       bal   |-> IncreaseBalance(b2, block.proposer, whistle - prop),
       slashings |-> [s.slashings EXCEPT ![epoch % SlashVector] = @ + eff]]

Ascending(S) == SetToSortSeq(S, <)

SlashAll(S) ==
  FoldLeft(SlashValidator,
           [vals |-> vals, cache |-> cache, bal |-> bal, slashings |-> slashings],
           Ascending(S))

-----------------------------------------------------------------------------
(***************************************************************************)
(* A block: header, eth1 data, then the operations in the fixed order of   *)
(* processOperations.  stage is the list being processed: 1 proposer       *)
(* slashings, 2 attester slashings, 3 deposits, 4 voluntary exits.         *)
(***************************************************************************)
Stage(k) == block.stage <= k /\ (k > 3 => block.due = 0)

\* processBlockHeader accepts the proposer, processEth1Data may raise the deposit count, and
\* processOperations fixes how many deposits the block must carry.
NewBlock(p, count) ==
  /\ block.due = 0
  /\ p \in ctx.current /\ ~vals[p].slashed
  /\ count \in eth1.count..Len(DepositLog)
  /\ eth1' = [eth1 EXCEPT !.count = count]
  /\ block' = [stage |-> 1, proposer |-> p, due |-> AtMost(MaxDeposits, count - eth1.index)]
  /\ block' # block \/ eth1' # eth1 \/ cache # NoCache
  /\ cache' = NoCache
  /\ UNCHANGED <<vals, bal, slashings, epoch, fin, ctx, hits, over>>

Slash(S, stage) ==
  LET s == SlashAll(S)
  IN  /\ vals' = s.vals /\ cache' = s.cache /\ bal' = s.bal /\ slashings' = s.slashings
      /\ block' = [block EXCEPT !.stage = stage]
      /\ over' = over \cup Overfilled(s.cache)
      /\ UNCHANGED <<epoch, fin, eth1, ctx, hits>>

\* two different headers of one proposer for one slot
ProposerSlashing(i) ==
  /\ Stage(1)
  /\ IsSlashableValidator(vals[i], epoch)
  /\ Slash({i}, 1)

IsSlashableAttestationData(d1, d2) ==
  \/ d1 # d2 /\ d1.target = d2.target
  \/ d1.source < d2.source /\ d2.target < d1.target

IsValidIndexedAttestation(indices) == indices # {} /\ indices \subseteq Indices(vals)

AttesterSlashing(a) ==
  LET both == {i \in a.indices1 \cap a.indices2 : IsSlashableValidator(vals[i], epoch)}
  IN  /\ Stage(2)
      /\ IsSlashableAttestationData(a.data1, a.data2)
      /\ IsValidIndexedAttestation(a.indices1) /\ IsValidIndexedAttestation(a.indices2)
      /\ both # {}
      /\ Slash(both, 2)

\* A deposit for an unknown key with a bad signature is consumed and ignored.
Deposit ==
  LET d     == DepositLog[eth1.index + 1]
      known == {i \in Indices(vals) : vals[i].key = d.key}
      new   == known = {} /\ d.valid
  IN  /\ Stage(3) /\ block.due > 0
      /\ eth1' = [eth1 EXCEPT !.index = @ + 1]
      /\ block' = [block EXCEPT !.stage = 3, !.due = @ - 1]
      /\ vals' = IF new THEN Append(vals, NewValidator(d.key, d.amount)) ELSE vals
      /\ hits' = IF new THEN Append(hits, 0) ELSE hits
      /\ bal' = IF new THEN Append(bal, d.amount)
                ELSE [i \in DOMAIN bal |-> IF i \in known THEN bal[i] + d.amount ELSE bal[i]]
      /\ UNCHANGED <<slashings, epoch, fin, cache, ctx, over>>

VoluntaryExit(i, e) ==
  LET vc == InitiateValidatorExit(<<vals, cache>>, i)
  IN  /\ Stage(4)
      /\ IsActiveValidator(vals[i], epoch)
      /\ vals[i].exit = FarFuture
      /\ epoch >= e
      /\ epoch >= vals[i].act + ShardPeriod
      /\ vals' = vc[1] /\ cache' = vc[2]
      /\ block' = [block EXCEPT !.stage = 4]
      /\ over' = over \cup Overfilled(vc[2])
      /\ UNCHANGED <<bal, slashings, epoch, fin, eth1, ctx, hits>>

-----------------------------------------------------------------------------
(***************************************************************************)
(* The epoch transition works on what prepareEpochProcessState collected   *)
(* before any of it: `vals` here, the updated registry below.              *)
(***************************************************************************)
IndicesToSlash == {i \in Indices(vals) : vals[i].slashed /\ vals[i].wd = epoch + SlashVector \div 2}
IndicesToEject == {i \in ctx.current : vals[i].exit = FarFuture /\ vals[i].eff <= Ejection}
IndicesToSetActivationEligibility == {i \in Indices(vals) : vals[i].elig = FarFuture /\ vals[i].eff = MaxEff}

IndicesToMaybeActivate ==
  SetToSortSeq({i \in Indices(vals) : vals[i].act = FarFuture /\ vals[i].elig <= epoch},
               LAMBDA i, j : vals[i].elig < vals[j].elig \/ (vals[i].elig = vals[j].elig /\ i < j))

ProcessExitQueue(limit) ==
  LET end   == Max({ComputeActivationExitEpoch(epoch)}
                   \cup ({vals[i].exit : i \in Indices(vals)} \ {FarFuture}))
      churn == Cardinality({i \in Indices(vals) : vals[i].exit = end})
  IN  IF churn >= limit THEN [epoch |-> end + 1, churn |-> 0, limit |-> limit]
                        ELSE [epoch |-> end, churn |-> churn, limit |-> limit]

Eject(vc, i) ==
  LET c == vc[2]
  IN  << [vc[1] EXCEPT ![i].exit = c.epoch, ![i].wd = c.epoch + WithdrawDelay],
         IF c.churn + 1 >= c.limit THEN [c EXCEPT !.epoch = @ + 1, !.churn = 0]
                                   ELSE [c EXCEPT !.churn = @ + 1] >>

\* the activations of this epoch: the head of the queue whose place is finalized
Activated(limit, finality) ==
  LET queue == SubSeq(IndicesToMaybeActivate, 1, AtMost(limit, Len(IndicesToMaybeActivate)))
  IN  {queue[k] : k \in {k \in 1..Len(queue) :
                           \A m \in 1..k : vals[queue[m]].elig <= finality}}

ProcessRegistryUpdates(finality) ==
  LET limit   == GetChurnLimit(Cardinality(GetActiveValidatorIndices(vals, epoch)))
      ejected == FoldLeft(Eject, <<vals, ProcessExitQueue(limit)>>, Ascending(IndicesToEject))[1]
      active  == Activated(limit, finality)
  IN  [i \in DOMAIN vals |->
        [ejected[i] EXCEPT
           !.elig = IF i \in IndicesToSetActivationEligibility THEN epoch + 1 ELSE @,
           !.act = IF i \in active THEN ComputeActivationExitEpoch(epoch) ELSE @]]

ProcessSlashings(b) ==
  LET total    == TotalBalance(vals, GetActiveValidatorIndices(vals, epoch))
      sum      == MapThenSumSet(LAMBDA k : slashings[k], DOMAIN slashings)
      adjusted == AtMost(sum * SlashMultiplier, total)
      penalty(i) == (((vals[i].eff \div Increment) * adjusted) \div total) * Increment
  IN  [i \in DOMAIN b |-> IF i \in IndicesToSlash THEN AtLeast(0, b[i] - penalty(i)) ELSE b[i]]

\* the balances are those before ProcessSlashings
ProcessEffectiveBalanceUpdates(vs, b) ==
  LET hysteresis == Increment \div 4
      far(i) == b[i] + hysteresis < vals[i].eff \/ vals[i].eff + 5 * hysteresis < b[i]
  IN  [i \in DOMAIN vs |->
        IF far(i) THEN [vs[i] EXCEPT !.eff = AtMost(b[i] - (b[i] % Increment), MaxEff)] ELSE vs[i]]

ProcessRewardsAndPenalties(bad) ==
  [i \in DOMAIN bal |-> IF epoch > 0 /\ i \in bad THEN AtLeast(0, bal[i] - Penalty) ELSE bal[i]]

RotateEpochs(vs) ==
  [previous |-> ctx.current, current |-> ctx.next,
   next |-> GetActiveValidatorIndices(vs, epoch + 2)]

\* processEpoch, state.slot++ and rotateEpochs; finality advances to at most the previous epoch
ProcessEpoch(bad, finality) ==
  LET b  == ProcessRewardsAndPenalties(bad)
      vs == ProcessEffectiveBalanceUpdates(ProcessRegistryUpdates(finality), b)
  IN  /\ block.due = 0 /\ epoch < MaxEpoch
      /\ finality \in {fin} \cup {AtLeast(fin, epoch - 1)}
      /\ vals' = vs
      /\ bal' = ProcessSlashings(b)
      /\ slashings' = [slashings EXCEPT ![(epoch + 1) % SlashVector] = 0]
      /\ hits' = [i \in DOMAIN hits |-> IF i \in IndicesToSlash THEN hits[i] + 1 ELSE hits[i]]
      /\ ctx' = RotateEpochs(vs)
      /\ epoch' = epoch + 1 /\ fin' = finality
      /\ cache' = NoCache /\ block' = [block EXCEPT !.stage = 5]
      /\ UNCHANGED <<eth1, over>>

-----------------------------------------------------------------------------
Init ==
  /\ vals = [i \in 1..Genesis |-> [NewValidator(i, MaxEff) EXCEPT !.elig = 0, !.act = 0]]
  /\ bal = [i \in 1..Genesis |-> MaxEff]
  /\ slashings = [k \in 0..SlashVector - 1 |-> 0]
  /\ epoch = 0 /\ fin = 0
  /\ eth1 = [count |-> 0, index |-> 0]
  /\ block = [stage |-> 5, proposer |-> 1, due |-> 0]
  /\ cache = NoCache
  /\ ctx = [previous |-> 1..Genesis, current |-> 1..Genesis, next |-> 1..Genesis]
  /\ hits = [i \in 1..Genesis |-> 0]
  /\ over = {}

Next ==
  \/ \E p \in Proposers, count \in 0..Len(DepositLog) : NewBlock(p, count)
  \/ \E i \in Indices(vals) : ProposerSlashing(i)
  \/ \E a \in AttesterSlashings : AttesterSlashing(a)
  \/ Deposit
  \/ \E i \in Indices(vals) : VoluntaryExit(i, 0)
  \/ \E bad \in Absent, finality \in 0..MaxEpoch : ProcessEpoch(bad, finality)

Spec == Init /\ [][Next]_vars

-----------------------------------------------------------------------------
\* The active sets cached one epoch ahead are the ones the registry gives when the epoch comes:
\* no exit, slashing, ejection or activation reaches an epoch whose shuffling is already cached.
ShufflingCacheFresh ==
  /\ ctx.previous = GetActiveValidatorIndices(vals, AtLeast(0, epoch - 1))
  /\ ctx.current = GetActiveValidatorIndices(vals, epoch)
  /\ ctx.next = GetActiveValidatorIndices(vals, epoch + 1)

\* An epoch lets out no more validators than the churn limit, whatever mix of blocks, slashings
\* and ejections filled the queue; the one exception is an epoch that was full when the first
\* exit of a block scanned the registry (initiateValidatorExit counts one too few there), and
\* that epoch lets out one more.
ExitQueueBounded ==
  \A e \in {vals[i].exit : i \in Indices(vals)} \ {FarFuture} :
     Cardinality(ExitingAt(e)) <= GetChurnLimit(Len(vals)) + Cardinality(over \cap {e})

\* A slashed validator meets the correlation penalty exactly once before it can withdraw.
SlashedPenalisedOnce ==
  \A i \in Indices(vals) :
     /\ hits[i] <= 1
     /\ vals[i].slashed /\ epoch >= vals[i].wd => hits[i] = 1

\* Validators are activated in the order in which they became eligible (those of one epoch in
\* the order of their indices), only after the epoch of their eligibility is finalized, and
\* after genesis no more in an epoch than the churn limit.
ActivationInOrder ==
  LET precedes(i, j) == vals[i].elig < vals[j].elig \/ (vals[i].elig = vals[j].elig /\ i < j)
  IN  /\ \A i \in Indices(vals) : vals[i].act # FarFuture => vals[i].elig <= fin
      /\ \A i, j \in Indices(vals) : precedes(i, j) => vals[i].act <= vals[j].act
      /\ \A i \in Indices(vals) :
            vals[i].act \notin {0, FarFuture} =>
              Cardinality({j \in Indices(vals) : vals[j].act = vals[i].act}) <= GetChurnLimit(Len(vals))
=============================================================================
