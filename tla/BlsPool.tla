------------------------------ MODULE BlsPool -------------------------------
(***************************************************************************)
(* The pool of threads that verify signatures (chain/bls/multithread).  A  *)
(* request is split into chunks, chunks of several requests are packed     *)
(* into one message to a worker, and the array of results that comes back  *)
(* is dealt out again by position.  Every look for work is a zero timer:   *)
(* timers counts those that have not fired.                                *)
(*                                                                         *)
(* A signature set is what its verification would say.                     *)
(***************************************************************************)
EXTENDS Integers, Sequences, FiniteSets, SequencesExt, Folds

CONSTANTS
    Requests,       \* the calls of verifySignatureSets
    Sets,           \* Sets[r]: the signature sets of call r, "valid", "invalid" or "malformed"
    Workers,        \* 1..poolSize
    MAX_SIGNATURE_SETS_PER_JOB

VARIABLES
    jobs,       \* the chunks that wait, [req, index, sets]: whose, the how many-th, its signature sets
    workers,    \* workers[w].code, and the package it works on
    timers,     \* runJob timers set and not fired
    aborted,
    left,       \* left[r]: the chunks of r that have no result, by index
    outcome     \* outcome[r]: "none" before the call; "pending", or "pendingFalse" once a chunk was
                \* not valid; then "true", "false" or "error"

vars == <<jobs, workers, timers, aborted, left, outcome>>

Status(code) == [code |-> code, package |-> <<>>]

\* A worker's verdict on a chunk (verifySignatureSetsMaybeBatch).
VerifySignatureSetsMaybeBatch(sets) ==
    IF sets = <<>> \/ "malformed" \in ToSet(sets) THEN "error"
    ELSE IF ToSet(sets) = {"valid"} THEN "true" ELSE "false"

\* Mutant: the last chunk, when it is not a full one, is cut off.
ChunkifyWholeChunks(arr) ==
    LET count == Len(arr) \div MAX_SIGNATURE_SETS_PER_JOB
        per == Len(arr) \div count
    IN  IF count <= 1 THEN <<arr>> ELSE [i \in 1..count |-> SubSeq(arr, (i - 1) * per + 1, i * per)]

\* chunkifyMaximizeChunkSize: few chunks, of about the same size.
ChunkifyMaximizeChunkSize(arr) ==
    LET count == Len(arr) \div MAX_SIGNATURE_SETS_PER_JOB
        per == (Len(arr) + count - 1) \div count
        chunks == (Len(arr) + per - 1) \div per
    IN  IF count <= 1 THEN <<arr>>
        ELSE [i \in 1..chunks |-> SubSeq(arr, (i - 1) * per + 1, IF i = chunks THEN Len(arr) ELSE i * per)]

\* prepareWork: as many jobs as it takes to reach the number of signatures.
TotalSigs(n) == FoldSeq(LAMBDA job, sum : sum + Len(job.sets), 0, SubSeq(jobs, 1, n))
PackageLength ==
    LET enough(n) == n = Len(jobs) \/ TotalSigs(n) >= MAX_SIGNATURE_SETS_PER_JOB
    IN  CHOOSE n \in 1..Len(jobs) : enough(n) /\ \A k \in 1..(n - 1) : ~enough(k)

---------------------------------------------------------------------------
(* What becomes of a call when some of its chunks are resolved, each to    *)
(* what verdict says: Promise.all ends with the first rejection, and with  *)
(* every chunk's result otherwise.                                         *)

Settle(done, verdict) ==
    LET of(r) == {job \in ToSet(done) : job.req = r}
        verdicts(r) == {verdict[job] : job \in of(r)}
    IN  /\ left' = [r \in Requests |-> left[r] \ {job.index : job \in of(r)}]
        /\ outcome' = [r \in Requests |->
               IF outcome[r] \notin {"pending", "pendingFalse"} THEN outcome[r]
               ELSE IF "error" \in verdicts(r) THEN "error"
               ELSE LET bad == outcome[r] = "pendingFalse" \/ "false" \in verdicts(r)
                    IN  IF left'[r] = {} THEN (IF bad THEN "false" ELSE "true")
                        ELSE IF bad THEN "pendingFalse" ELSE "pending"]

\* verifySignatureSets: the jobs of a call.
JobsOf(r) ==
    LET chunks == ChunkifyMaximizeChunkSize(Sets[r])
    IN  [i \in DOMAIN chunks |-> [req |-> r, index |-> i, sets |-> chunks[i]]]

QueueBlsWork(r) ==
    /\ outcome[r] = "none"
    /\ IF aborted \/ \A w \in Workers : workers[w].code = "initializationError"
       THEN outcome' = [outcome EXCEPT ![r] = "error"] /\ UNCHANGED <<jobs, left, timers>>
       ELSE /\ jobs' = jobs \o JobsOf(r)
            /\ left' = [left EXCEPT ![r] = DOMAIN JobsOf(r)]
            /\ timers' = timers + Len(JobsOf(r))
            /\ outcome' = [outcome EXCEPT ![r] = "pending"]
    /\ UNCHANGED <<workers, aborted>>

WorkerInitialized(w) ==
    /\ workers[w].code = "initializing"
    /\ \/ workers' = [workers EXCEPT ![w] = Status("idle")] /\ timers' = timers + 1
       \/ workers' = [workers EXCEPT ![w] = Status("initializationError")] /\ UNCHANGED timers
    /\ UNCHANGED <<jobs, aborted, left, outcome>>

\* A timer fires: the first idle worker gets a package, if there is work.
RunJob ==
    /\ timers > 0 /\ timers' = timers - 1
    /\ LET idle == {w \in Workers : workers[w].code = "idle"} IN
       IF aborted \/ idle = {} \/ jobs = <<>>
       THEN UNCHANGED <<jobs, workers>>
       ELSE LET w == CHOOSE x \in idle : \A y \in idle : x <= y IN
            /\ workers' = [workers EXCEPT ![w] = [code |-> "running", package |-> SubSeq(jobs, 1, PackageLength)]]
            /\ jobs' = SubSeq(jobs, PackageLength + 1, Len(jobs))
    /\ UNCHANGED <<aborted, left, outcome>>

\* The worker's message comes back, or the communication fails; a worker that was
\* terminated may do the second or never answer.
RunJobEnd(w, ok) ==
    /\ workers[w].code = "running" /\ (ok => ~aborted)
    /\ Settle(workers[w].package,
              [job \in ToSet(workers[w].package) |->
                 IF ok THEN VerifySignatureSetsMaybeBatch(job.sets) ELSE "error"])
    /\ workers' = [workers EXCEPT ![w] = Status("idle")]
    /\ timers' = timers + 1
    /\ UNCHANGED <<jobs, aborted>>

Abort ==
    /\ ~aborted /\ aborted' = TRUE
    /\ Settle(jobs, [job \in ToSet(jobs) |-> "error"])
    /\ jobs' = <<>>
    /\ UNCHANGED <<workers, timers>>

---------------------------------------------------------------------------
Init ==
    /\ jobs = <<>> /\ timers = 0 /\ aborted = FALSE
    /\ workers = [w \in Workers |-> Status("initializing")]
    /\ left = [r \in Requests |-> {}] /\ outcome = [r \in Requests |-> "none"]

Next ==
    \/ \E r \in Requests : QueueBlsWork(r)
    \/ \E w \in Workers : WorkerInitialized(w)
    \/ RunJob
    \/ \E w \in Workers, ok \in BOOLEAN : RunJobEnd(w, ok)
    \/ Abort

Spec == Init /\ [][Next]_vars

---------------------------------------------------------------------------
\* A call resolves to true only when each of its signature sets is valid, and to false
\* only when one is not, however it was split, packed with the chunks of other calls, and
\* however the worker's results came back.
VerdictsAreTrue ==
    \A r \in Requests :
        /\ outcome[r] = "true" => ToSet(Sets[r]) = {"valid"}
        /\ outcome[r] = "false" => "invalid" \in ToSet(Sets[r])

\* No work waits beside an idle worker with no timer to bring them together: runJob is
\* called for every job and by every worker that becomes idle, and each call takes only
\* one package.
NoWorkForgotten ==
    timers = 0 /\ ~aborted /\ (\E w \in Workers : workers[w].code = "idle") => jobs = <<>>
=============================================================================
