------------------------------ MODULE JobQueue ------------------------------
(***************************************************************************)
(* The asynchronous job queue of packages/lodestar/src/util/queue/index.ts *)
(* that serialises block imports, state regeneration, archiving tasks and  *)
(* gossip validation.                                                      *)
(*                                                                         *)
(* Node.js runs one callback at a time, so every piece of code between two *)
(* awaits is one atomic action here.  A call of push schedules one runJob  *)
(* with setTimeout; a runJob that has taken a job runs it to completion,   *)
(* may yield to the macro queue, and then calls runJob once more.          *)
(***************************************************************************)
EXTENDS Integers, Sequences, FiniteSets

CONSTANTS
    Jobs,            \* the jobs callers may push, each at most once
    MaxLength,       \* opts.maxLength
    MaxConcurrency   \* opts.maxConcurrency

ASSUME JobsAssumption == IsFiniteSet(Jobs)
ASSUME MaxLengthAssumption == MaxLength \in Nat \ {0}
ASSUME MaxConcurrencyAssumption == MaxConcurrency \in Nat \ {0}

VARIABLES
    type,         \* opts.type, given to the constructor
    jobs,         \* this.jobs: the jobs accepted and not yet started
    runningJobs,  \* this.runningJobs
    slot,         \* where each job stands in runJob: "none", "running", "yielding"
    promise,      \* the promise push returned: "none", "pending", "resolved", "rejected"
    timers,       \* number of setTimeout(this.runJob, 0) that have not fired
    aborted       \* opts.signal.aborted

vars == <<type, jobs, runningJobs, slot, promise, timers, aborted>>

Init ==
    /\ type \in {"FIFO", "LIFO"}
    /\ jobs = <<>>
    /\ runningJobs = 0
    /\ slot = [j \in Jobs |-> "none"]
    /\ promise = [j \in Jobs |-> "none"]
    /\ timers = 0
    /\ aborted = FALSE

-----------------------------------------------------------------------------
\* What runJob takes out of the array: pop() for LIFO, shift() for FIFO.
NextJob == IF type = "LIFO" THEN jobs[Len(jobs)] ELSE Head(jobs)

RestOfJobs == IF type = "LIFO" THEN SubSeq(jobs, 1, Len(jobs) - 1) ELSE Tail(jobs)

\* The synchronous prefix of runJob, up to the await on the job, entered with
\* slots s and running counter n.
RunJob(s, n) ==
    IF aborted \/ n >= MaxConcurrency \/ jobs = <<>>
    THEN /\ slot' = s
         /\ runningJobs' = n
         /\ UNCHANGED jobs
    ELSE /\ slot' = [s EXCEPT ![NextJob] = "running"]
         /\ runningJobs' = n + 1
         /\ jobs' = RestOfJobs

\* push throws: the queue is aborted, or it is a full FIFO queue.
PushRejected(j) ==
    /\ promise[j] = "none"
    /\ aborted \/ (Len(jobs) + 1 > MaxLength /\ type = "FIFO")
    /\ promise' = [promise EXCEPT ![j] = "rejected"]
    /\ UNCHANGED <<type, jobs, runningJobs, slot, timers, aborted>>

\* push enqueues.  A full LIFO queue drops its oldest job, whose promise is
\* left as it is.
PushAccepted(j) ==
    /\ promise[j] = "none"
    /\ ~aborted
    /\ Len(jobs) + 1 > MaxLength => type = "LIFO"
    /\ jobs' = Append(IF Len(jobs) + 1 > MaxLength THEN Tail(jobs) ELSE jobs, j)
    /\ promise' = [promise EXCEPT ![j] = "pending"]
    /\ timers' = timers + 1
    /\ UNCHANGED <<type, runningJobs, slot, aborted>>

\* A setTimeout callback: runJob is entered from the macro queue.
TimerFires ==
    /\ timers > 0
    /\ timers' = timers - 1
    /\ RunJob(slot, runningJobs)
    /\ UNCHANGED <<type, promise, aborted>>

\* Math.max(0, this.runningJobs - 1)
Decremented == IF runningJobs - 1 > 0 THEN runningJobs - 1 ELSE 0

\* Mutant: a job that throws releases its slot but runJob is not called again.
FinishJobNoRerun(j, outcome) ==
    /\ slot[j] = "running"
    /\ promise' = [promise EXCEPT ![j] = outcome]
    /\ slot' = [slot EXCEPT ![j] = "none"]
    /\ runningJobs' = Decremented
    /\ UNCHANGED <<type, jobs, timers, aborted>>

\* The job's promise settles, the slot is released and runJob is called again,
\* with no yield in between: the job threw, or the last yield was recent.
FinishJob(j, outcome) ==
    /\ slot[j] = "running"
    /\ promise' = [promise EXCEPT ![j] = outcome]
    /\ RunJob([slot EXCEPT ![j] = "none"], Decremented)
    /\ UNCHANGED <<type, timers, aborted>>

\* The job resolved and runJob awaits sleep(0), still holding its slot.
YieldAfterJob(j) ==
    /\ slot[j] = "running"
    /\ promise' = [promise EXCEPT ![j] = "resolved"]
    /\ slot' = [slot EXCEPT ![j] = "yielding"]
    /\ UNCHANGED <<type, jobs, runningJobs, timers, aborted>>

\* The sleep(0) is over: release the slot and call runJob again.
ResumeAfterYield(j) ==
    /\ slot[j] = "yielding"
    /\ RunJob([slot EXCEPT ![j] = "none"], Decremented)
    /\ UNCHANGED <<type, promise, timers, aborted>>

\* Mutant: abort empties the array without rejecting its jobs.
AbortForgetsJobs ==
    /\ ~aborted
    /\ aborted' = TRUE
    /\ jobs' = <<>>
    /\ UNCHANGED <<type, promise, runningJobs, slot, timers>>

\* The abort signal: abortAllJobs rejects every job that has not started.
AbortAllJobs ==
    /\ ~aborted
    /\ aborted' = TRUE
    /\ jobs' = <<>>
    /\ promise' = [j \in Jobs |->
                     IF \E i \in 1..Len(jobs) : jobs[i] = j THEN "rejected" ELSE promise[j]]
    /\ UNCHANGED <<type, runningJobs, slot, timers>>

Next ==
    \/ \E j \in Jobs : PushRejected(j)
    \/ \E j \in Jobs : PushAccepted(j)
    \/ TimerFires
    \/ \E j \in Jobs, outcome \in {"resolved", "rejected"} : FinishJob(j, outcome)
    \/ \E j \in Jobs : YieldAfterJob(j)
    \/ \E j \in Jobs : ResumeAfterYield(j)
    \/ AbortAllJobs

\* Node's event loop fires every timer and resumes every await; a job is an
\* async function that is assumed to return or throw.
Fairness ==
    /\ WF_vars(TimerFires)
    /\ \A j \in Jobs : WF_vars(\E outcome \in {"resolved", "rejected"} : FinishJob(j, outcome))
    /\ \A j \in Jobs : WF_vars(ResumeAfterYield(j))

Spec == Init /\ [][Next]_vars /\ Fairness

-----------------------------------------------------------------------------
\* Every variable of the queue has its type: queue contents, counter, slots,
\* promises, pending timers and the abort flag of index.ts.
TypeOK ==
    /\ type \in {"FIFO", "LIFO"}
    /\ jobs \in Seq(Jobs)
    /\ runningJobs \in Nat
    /\ slot \in [Jobs -> {"none", "running", "yielding"}]
    /\ promise \in [Jobs -> {"none", "pending", "resolved", "rejected"}]
    /\ timers \in Nat
    /\ aborted \in BOOLEAN

\* The jobs runJob is working on.
Held == {j \in Jobs : slot[j] # "none"}

\* runJob's counter counts exactly the slots held, through yields, failures and
\* aborts, and never exceeds opts.maxConcurrency; the array respects maxLength.
ConcurrencyBound ==
    /\ runningJobs = Cardinality(Held)
    /\ runningJobs <= MaxConcurrency
    /\ Len(jobs) <= MaxLength

\* No lost wake-up: whenever a job waits and a slot is free, as many runJob
\* calls are scheduled as there are waiting jobs (push's setTimeout, since the
\* tail call of runJob refills the slot it frees).
NoLostWakeup == runningJobs < MaxConcurrency => timers >= Len(jobs)

\* A job is in one place at a time: waiting jobs have a pending promise and no
\* slot, no job is queued twice, a running job has a pending promise, one that
\* yields has been answered, and an aborted queue holds no job.
SinglePlace ==
    /\ aborted => jobs = <<>>
    /\ \A i \in 1..Len(jobs) : promise[jobs[i]] = "pending" /\ slot[jobs[i]] = "none"
    /\ \A i, k \in 1..Len(jobs) : jobs[i] = jobs[k] => i = k
    /\ \A j \in Jobs : /\ slot[j] = "running" => promise[j] = "pending"
                       /\ slot[j] = "yielding" => promise[j] = "resolved"

\* A promise settles once: runJob, push and abortAllJobs never settle a promise
\* that was already resolved or rejected differently.
SettledForGood ==
    [][\A j \in Jobs : promise[j] \in {"resolved", "rejected"} => promise'[j] = promise[j]]_vars

\* In a FIFO queue, and through aborts, every accepted job's caller gets an
\* answer: the promise returned by push is eventually resolved or rejected.
EveryJobSettles ==
    \A j \in Jobs :
        type = "FIFO" /\ promise[j] = "pending" ~> promise[j] \in {"resolved", "rejected"}
=============================================================================
