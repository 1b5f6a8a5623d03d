-------------------------- MODULE ValidatorDuties ---------------------------
(***************************************************************************)
(* How the validator client learns its duties: the indices service and the *)
(* attester and sync committee duties services                             *)
(* (packages/validator/src/services/indices.ts, attestationDuties.ts,      *)
(* syncCommitteeDuties.ts).                                                *)
(*                                                                         *)
(* Both services run a task every epoch: one branch polls for the keys     *)
(* whose index is known, another waits for new indices, which both         *)
(* services get from one shared promise, and polls for those.  Requests    *)
(* fail, and the node changes its chain between two of them.               *)
(***************************************************************************)
EXTENDS Integers, FiniteSets

CONSTANTS
    Keys,            \* the keys of the validator store
    Forks,           \* dependent roots: chains the beacon node may be on
    Member,          \* Member[f][period]: the keys in the sync committee
    EPOCHS_PER_SYNC_COMMITTEE_PERIOD,
    ALTAIR_FORK_EPOCH,
    NoRoot,
    MaxEpoch,        \* bound: the last epoch
    MaxReorgs,       \* bound: how often the beacon node changes its chain
    MaxFailures      \* bound: how many requests fail

HISTORICAL_DUTIES_EPOCHS == 2
HISTORICAL_DUTIES_PERIODS == 2
ALTAIR_FORK_LOOKAHEAD_EPOCHS == 1
Services == {"attester", "syncCommittee"}
Branches == {"known", "new"}
Epochs == 0..(MaxEpoch + EPOCHS_PER_SYNC_COMMITTEE_PERIOD)
ComputeSyncPeriodAtEpoch(epoch) == epoch \div EPOCHS_PER_SYNC_COMMITTEE_PERIOD
Periods == {ComputeSyncPeriodAtEpoch(e) : e \in Epochs}

VARIABLES
    epoch,        \* the clock
    fork, reorgs, \* the chain the beacon node is on
    onChain,      \* keys the beacon node has validators for
    indices,      \* IndicesService: keys whose index is known
    poll,         \* pollValidatorIndicesPromise: [on, left, found]
    attDuties,    \* dutiesByEpochByIndex: dependent root per key and epoch
    syncDuties,   \* dutiesByIndexByPeriod: dependent root per period and key
    task,         \* per service: [on, epoch, failed, expected, branch]
    answered,     \* the dependent root of the last answer for a key and epoch
    failures

vars == <<epoch, fork, reorgs, onChain, indices, poll, attDuties, syncDuties, task, answered, failures>>

Done == [pc |-> "done", keys |-> {}]
NoPoll == [on |-> FALSE, left |-> {}, found |-> {}]

Branch(svc, b) == task[svc].branch[b]
Waiting(svc) == Branch(svc, "new").pc = "indices"

\* pollBeaconAttesters, pollSyncCommittees: nothing is asked for no keys.
PollFor(keys) == IF keys = {} THEN Done ELSE [pc |-> "current", keys |-> keys]

-----------------------------------------------------------------------------
\* runDutiesTasks of a service; pollValidatorIndices starts a poll unless one is
\* under way.
RunDutiesTasks(svc) ==
    /\ ~task[svc].on
    /\ task[svc].epoch < epoch
    /\ svc = "syncCommittee" => epoch >= ALTAIR_FORK_EPOCH - ALTAIR_FORK_LOOKAHEAD_EPOCHS
    /\ task' = [task EXCEPT ![svc] =
                  [on |-> TRUE, epoch |-> epoch, failed |-> FALSE, expected |-> {},
                   branch |-> [known |-> PollFor(indices), new |-> [pc |-> "indices", keys |-> {}]]]]
    /\ poll' = IF poll.on THEN poll ELSE [on |-> TRUE, left |-> Keys \ indices, found |-> {}]
    /\ UNCHANGED <<epoch, fork, reorgs, onChain, indices, attDuties, syncDuties, answered, failures>>

\* fetchValidatorIndices for the next batch of pollValidatorIndicesInternal.
FetchValidatorIndices(k) ==
    /\ poll.on
    /\ k \in poll.left
    /\ indices' = indices \union ({k} \intersect onChain)
    /\ poll' = [poll EXCEPT !.left = @ \ {k}, !.found = @ \union ({k} \intersect onChain)]
    /\ UNCHANGED <<epoch, fork, reorgs, onChain, attDuties, syncDuties, task, answered, failures>>

\* The new indices that the promise gives to a service.
NewIndices(svc) == poll.found

\* The promise resolves for every service that waits for it.
PollValidatorIndicesResolves ==
    /\ poll.on /\ poll.left = {}
    /\ poll' = NoPoll
    /\ task' = [svc \in Services |->
                  IF Waiting(svc)
                  THEN [task[svc] EXCEPT !.branch["new"] = PollFor(NewIndices(svc)), !.expected = indices]
                  ELSE task[svc]]
    /\ UNCHANGED <<epoch, fork, reorgs, onChain, indices, attDuties, syncDuties, answered, failures>>

\* A batch fails: the promise rejects, the indices of earlier batches stay.
PollValidatorIndicesRejects ==
    /\ poll.on /\ poll.left # {}
    /\ failures < MaxFailures
    /\ failures' = failures + 1
    /\ poll' = NoPoll
    /\ task' = [svc \in Services |->
                  IF Waiting(svc) THEN [task[svc] EXCEPT !.branch["new"] = Done, !.failed = TRUE]
                  ELSE task[svc]]
    /\ UNCHANGED <<epoch, fork, reorgs, onChain, indices, attDuties, syncDuties, answered>>

\* The branch goes on from the current to the next epoch or period, then pushes
\* subscriptions.
Advance(svc, b) ==
    [task[svc].branch EXCEPT ![b].pc = CASE @ = "current" -> "next" [] @ = "next" -> "subscribe"]

\* The epoch a branch asks for.
PolledEpoch(svc, b) ==
    task[svc].epoch + (IF Branch(svc, b).pc = "current" THEN 0
                       ELSE IF svc = "attester" THEN 1 ELSE EPOCHS_PER_SYNC_COMMITTEE_PERIOD)

\* pollBeaconAttestersForEpoch: no prior duty, or the dependent root has changed.
IsDutyUpdate(prior, root) == prior = NoRoot \/ prior # root

\* pollBeaconAttestersForEpoch
PollBeaconAttestersForEpoch(b) ==
    LET e == PolledEpoch("attester", b)
        keys == Branch("attester", b).keys
    IN /\ Branch("attester", b).pc \in {"current", "next"}
       /\ attDuties' = [k \in Keys |->
             IF k \in keys /\ IsDutyUpdate(attDuties[k][e], fork) THEN [attDuties[k] EXCEPT ![e] = fork]
             ELSE attDuties[k]]
       /\ answered' = [k \in Keys |-> IF k \in keys THEN [answered[k] EXCEPT ![e] = fork] ELSE answered[k]]
       /\ task' = [task EXCEPT !["attester"].branch = Advance("attester", b)]
       /\ UNCHANGED <<epoch, fork, reorgs, onChain, indices, poll, syncDuties, failures>>

\* pollSyncCommitteesForEpoch: the answer holds the members among the keys, and
\* overwrites what is known.
PollSyncCommitteesForEpoch(b) ==
    LET period == ComputeSyncPeriodAtEpoch(PolledEpoch("syncCommittee", b))
        keys == Branch("syncCommittee", b).keys \intersect Member[fork][period]
    IN /\ Branch("syncCommittee", b).pc \in {"current", "next"}
       /\ syncDuties' = [syncDuties EXCEPT ![period] = [k \in Keys |->
                            IF k \in keys \intersect indices THEN fork ELSE @[k]]]
       /\ task' = [task EXCEPT !["syncCommittee"].branch = Advance("syncCommittee", b)]
       /\ UNCHANGED <<epoch, fork, reorgs, onChain, indices, poll, attDuties, answered, failures>>

\* The duties request fails: it is logged, and the branch goes on.
PollDutiesFails(svc, b) ==
    /\ Branch(svc, b).pc \in {"current", "next"}
    /\ failures < MaxFailures
    /\ failures' = failures + 1
    /\ task' = [task EXCEPT ![svc].branch = Advance(svc, b), ![svc].failed = TRUE]
    /\ UNCHANGED <<epoch, fork, reorgs, onChain, indices, poll, attDuties, syncDuties, answered>>

EndBranch(svc, b) ==
    /\ Branch(svc, b).pc = "subscribe"
    /\ task' = [task EXCEPT ![svc].branch[b] = Done]
    /\ UNCHANGED <<epoch, fork, reorgs, onChain, indices, poll, attDuties, syncDuties, answered, failures>>

\* prepareBeaconCommitteeSubnet, prepareSyncCommitteeSubnets: the node is asked to
\* subscribe for the duties at hand; a failure ends the branch as well.
SubscribeCommittees(b) == EndBranch("attester", b)
SubscribeSyncSubnets(b) == EndBranch("syncCommittee", b)

\* pruneOldDuties, after both branches.
PruneOldDuties(svc) ==
    LET t == task[svc]
    IN /\ t.on
       /\ \A b \in Branches : t.branch[b] = Done
       /\ task' = [task EXCEPT ![svc].on = FALSE]
       /\ IF svc = "attester"
          THEN /\ attDuties' = [k \in Keys |-> [e \in Epochs |->
                     IF e + HISTORICAL_DUTIES_EPOCHS < t.epoch THEN NoRoot ELSE attDuties[k][e]]]
               /\ UNCHANGED syncDuties
          ELSE /\ syncDuties' = [p \in Periods |->
                     IF p + HISTORICAL_DUTIES_PERIODS < ComputeSyncPeriodAtEpoch(t.epoch)
                     THEN [k \in Keys |-> NoRoot] ELSE syncDuties[p]]
               /\ UNCHANGED attDuties
       /\ UNCHANGED <<epoch, fork, reorgs, onChain, indices, poll, answered, failures>>

\* External: a new epoch, a re-org, a validator whose deposit is processed.
NewEpoch ==
    /\ epoch < MaxEpoch
    /\ epoch' = epoch + 1
    /\ UNCHANGED <<fork, reorgs, onChain, indices, poll, attDuties, syncDuties, task, answered, failures>>

Reorg ==
    /\ reorgs < MaxReorgs
    /\ reorgs' = reorgs + 1
    /\ fork' \in Forks \ {fork}
    /\ UNCHANGED <<epoch, onChain, indices, poll, attDuties, syncDuties, task, answered, failures>>

DepositProcessed(k) ==
    /\ k \notin onChain
    /\ onChain' = onChain \union {k}
    /\ UNCHANGED <<epoch, fork, reorgs, indices, poll, attDuties, syncDuties, task, answered, failures>>

Init ==
    /\ epoch = 0
    /\ fork \in Forks
    /\ reorgs = 0
    /\ onChain \in SUBSET Keys
    /\ indices = {}
    /\ poll = NoPoll
    /\ attDuties = [k \in Keys |-> [e \in Epochs |-> NoRoot]]
    /\ syncDuties = [p \in Periods |-> [k \in Keys |-> NoRoot]]
    /\ task = [svc \in Services |-> [on |-> FALSE, epoch |-> -1, failed |-> FALSE, expected |-> {},
                                     branch |-> [b \in Branches |-> Done]]]
    /\ answered = [k \in Keys |-> [e \in Epochs |-> NoRoot]]
    /\ failures = 0

Next ==
    \/ \E svc \in Services : RunDutiesTasks(svc)
    \/ \E k \in Keys : FetchValidatorIndices(k)
    \/ PollValidatorIndicesResolves
    \/ PollValidatorIndicesRejects
    \/ \E b \in Branches : PollBeaconAttestersForEpoch(b)
    \/ \E b \in Branches : PollSyncCommitteesForEpoch(b)
    \/ \E svc \in Services, b \in Branches : PollDutiesFails(svc, b)
    \/ \E b \in Branches : SubscribeCommittees(b)
    \/ \E b \in Branches : SubscribeSyncSubnets(b)
    \/ \E svc \in Services : PruneOldDuties(svc)
    \/ NewEpoch
    \/ Reorg
    \/ \E k \in Keys : DepositProcessed(k)

Spec == Init /\ [][Next]_vars

-----------------------------------------------------------------------------
\* The attester duties kept for a key and epoch are those of the last answer of
\* the beacon node for them: a re-org between two polls is taken over, whichever
\* branch has polled.
DutiesAreLatestAnswer ==
    \A k \in Keys, e \in Epochs : attDuties[k][e] \in {NoRoot, answered[k][e]}

\* The keys a task must have duties for when it ends and no request of it failed.
Expected(svc) ==
    IF task[svc].on /\ ~task[svc].failed /\ (\A b \in Branches : Branch(svc, b) = Done)
    THEN task[svc].expected ELSE {}

\* When the task of an epoch ends and no request of it failed, every key whose
\* index was known once the new indices had arrived has its duties: for the epoch
\* and the next, and for the sync committee period if it is in the committee on
\* every chain.  None falls between the two branches of a task and the promise
\* that it shares with the other service.
NoKeyWithoutDuties ==
    /\ \A k \in Expected("attester"), ahead \in {0, 1} :
          attDuties[k][task["attester"].epoch + ahead] # NoRoot
    /\ LET period == ComputeSyncPeriodAtEpoch(task["syncCommittee"].epoch)
       IN \A k \in Expected("syncCommittee") :
             (\A f \in Forks : k \in Member[f][period]) => syncDuties[period][k] # NoRoot
=============================================================================
