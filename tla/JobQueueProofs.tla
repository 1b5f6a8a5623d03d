--------------------------- MODULE JobQueueProofs ---------------------------
(***************************************************************************)
(* Proofs, for every set of jobs, queue length and concurrency, that the   *)
(* job queue keeps its concurrency bound and never loses a wake-up; and,   *)
(* for every set of calls and workers and every size of a job, that the    *)
(* pool of BLS workers answers each call truly and forgets no work; and,   *)
(* for every chain and every request, that a requester accepts what a      *)
(* responder running this code sends.                                      *)
(***************************************************************************)
EXTENDS MCQueues, FiniteSetTheorems, SequenceTheorems, WellFoundedInduction, TLAPS

USE JobsAssumption, MaxLengthAssumption, MaxConcurrencyAssumption

\* SubSeq(s, 1, n) is the prefix of s of length n.
LEMMA FrontProperties ==
    ASSUME NEW S, NEW s \in Seq(S), NEW n \in Nat, n <= Len(s)
    PROVE  /\ SubSeq(s, 1, n) \in Seq(S)
           /\ Len(SubSeq(s, 1, n)) = n
           /\ \A i \in 1..n : SubSeq(s, 1, n)[i] = s[i]
<1>1. \A i \in 1..n : s[i] \in S
  OBVIOUS
<1>2. SubSeq(s, 1, n) \in Seq(S)
  BY <1>1, SubSeqProperties, SMT
<1>3. Len(SubSeq(s, 1, n)) = IF 1 <= n THEN n - 1 + 1 ELSE 0
  BY <1>1, SubSeqProperties, SMT
<1>4. \A i \in 1..n - 1 + 1 : SubSeq(s, 1, n)[i] = s[1 + i - 1]
  BY <1>1, SubSeqProperties, SMT
<1>5. QED
  BY <1>2, <1>3, <1>4

\* The array operations of runJob: what is taken is an element of the queue,
\* what is left is the queue without one of its ends.
LEMMA TakeJob ==
    ASSUME TypeOK, jobs # <<>>
    PROVE  /\ NextJob \in Jobs
           /\ RestOfJobs \in Seq(Jobs)
           /\ Len(RestOfJobs) = Len(jobs) - 1
           /\ \E k \in {1, Len(jobs)}, d \in {0, 1} :
                /\ NextJob = jobs[k]
                /\ \A i \in 1..Len(RestOfJobs) :
                     i + d \in 1..Len(jobs) /\ i + d # k /\ RestOfJobs[i] = jobs[i + d]
<1>1. Len(jobs) \in Nat /\ Len(jobs) > 0 /\ jobs \in Seq(Jobs)
  BY DEF TypeOK
<1>2. CASE type = "LIFO"
  <2>1. /\ NextJob = jobs[Len(jobs)]
        /\ RestOfJobs = SubSeq(jobs, 1, Len(jobs) - 1)
    BY <1>2 DEF NextJob, RestOfJobs
  <2>2. /\ RestOfJobs \in Seq(Jobs)
        /\ Len(RestOfJobs) = Len(jobs) - 1
        /\ \A i \in 1..Len(jobs) - 1 : RestOfJobs[i] = jobs[i]
    <3> DEFINE n == Len(jobs) - 1
    <3>1. n \in Nat /\ n <= Len(jobs)
      BY <1>1
    <3> HIDE DEF n
    <3>2. /\ SubSeq(jobs, 1, n) \in Seq(Jobs)
          /\ Len(SubSeq(jobs, 1, n)) = n
          /\ \A i \in 1..n : SubSeq(jobs, 1, n)[i] = jobs[i]
      BY <1>1, <3>1, FrontProperties
    <3>3. RestOfJobs = SubSeq(jobs, 1, n)
      BY <2>1 DEF n
    <3>4. QED
      BY <3>2, <3>3, Zenon DEF n
  <2>3. NextJob \in Jobs
    BY <1>1, <2>1
  <2>4. \A i \in 1..Len(RestOfJobs) :
           i + 0 \in 1..Len(jobs) /\ i + 0 # Len(jobs) /\ RestOfJobs[i] = jobs[i + 0]
    BY <1>1, <2>2
  <2>5. QED
    BY <2>1, <2>2, <2>3, <2>4
<1>3. CASE type # "LIFO"
  <2>1. NextJob = Head(jobs) /\ RestOfJobs = Tail(jobs)
    BY <1>3 DEF NextJob, RestOfJobs
  <2>2. /\ RestOfJobs \in Seq(Jobs)
        /\ Len(RestOfJobs) = Len(jobs) - 1
        /\ \A i \in 1..Len(jobs) - 1 : RestOfJobs[i] = jobs[i + 1]
    BY <1>1, <2>1
  <2>3. NextJob \in Jobs /\ NextJob = jobs[1]
    BY <1>1, <2>1
  <2>4. \A i \in 1..Len(RestOfJobs) :
           i + 1 \in 1..Len(jobs) /\ i + 1 # 1 /\ RestOfJobs[i] = jobs[i + 1]
    BY <1>1, <2>2
  <2>5. QED
    BY <2>1, <2>2, <2>3, <2>4
<1>4. QED
  BY <1>2, <1>3

\* The type invariant of the queue is inductive.
LEMMA TypeStep == TypeOK /\ [Next]_vars => TypeOK'
<1> SUFFICES ASSUME TypeOK, [Next]_vars PROVE TypeOK'
  OBVIOUS
<1> USE DEF TypeOK
<1>0. Decremented \in Nat
  BY DEF Decremented
<1>r. ASSUME NEW s \in [Jobs -> {"none", "running", "yielding"}], NEW n \in Nat, RunJob(s, n)
      PROVE  /\ jobs' \in Seq(Jobs)
             /\ runningJobs' \in Nat
             /\ slot' \in [Jobs -> {"none", "running", "yielding"}]
  BY <1>r, TakeJob DEF RunJob
<1>1. ASSUME NEW j \in Jobs, PushRejected(j) PROVE TypeOK'
  BY <1>1 DEF PushRejected
<1>2. ASSUME NEW j \in Jobs, PushAccepted(j) PROVE TypeOK'
  <2>1. (IF Len(jobs) + 1 > MaxLength THEN Tail(jobs) ELSE jobs) \in Seq(Jobs)
    <3>1. Len(jobs) + 1 > MaxLength => jobs # <<>>
      OBVIOUS
    <3>2. QED
      BY <3>1
  <2>2. QED
    BY <1>2, <2>1 DEF PushAccepted
<1>3. ASSUME TimerFires PROVE TypeOK'
  BY <1>3, <1>r DEF TimerFires
<1>4. ASSUME NEW j \in Jobs, NEW outcome \in {"resolved", "rejected"}, FinishJob(j, outcome)
      PROVE  TypeOK'
  <2>1. [slot EXCEPT ![j] = "none"] \in [Jobs -> {"none", "running", "yielding"}]
    OBVIOUS
  <2>2. QED
    BY <1>0, <1>4, <1>r, <2>1 DEF FinishJob
<1>5. ASSUME NEW j \in Jobs, YieldAfterJob(j) PROVE TypeOK'
  BY <1>5 DEF YieldAfterJob
<1>6. ASSUME NEW j \in Jobs, ResumeAfterYield(j) PROVE TypeOK'
  <2>1. [slot EXCEPT ![j] = "none"] \in [Jobs -> {"none", "running", "yielding"}]
    OBVIOUS
  <2>2. QED
    BY <1>0, <1>6, <1>r, <2>1 DEF ResumeAfterYield
<1>7. ASSUME AbortAllJobs PROVE TypeOK'
  BY <1>7 DEF AbortAllJobs
<1>8. CASE UNCHANGED vars
  BY <1>8 DEF vars
<1>9. QED
  BY <1>1, <1>2, <1>3, <1>4, <1>5, <1>6, <1>7, <1>8 DEF Next

\* Type correctness of the queue: Spec keeps TypeOK for every value of the
\* constants.
THEOREM TypeCorrect == Spec => []TypeOK
<1>1. Init => TypeOK
  <2> SUFFICES ASSUME Init PROVE TypeOK
    OBVIOUS
  <2>1. aborted \in BOOLEAN
    BY Zenon DEF Init
  <2>2. QED
    BY <2>1, EmptySeq DEF Init, TypeOK
<1>2. QED
  BY <1>1, TypeStep, PTL DEF Spec

-----------------------------------------------------------------------------
\* The jobs that hold a slot in the slot function s.
HeldIn(s) == {j \in Jobs : s[j] # "none"}

SlotFunction == [Jobs -> {"none", "running", "yielding"}]

\* Setting one slot adds or removes one held job.
LEMMA HeldUpdate ==
    ASSUME NEW s \in SlotFunction, NEW j \in Jobs
    PROVE  /\ IsFiniteSet(HeldIn(s))
           /\ Cardinality(HeldIn(s)) \in Nat
           /\ s[j] = "none" =>
                Cardinality(HeldIn([s EXCEPT ![j] = "running"])) = Cardinality(HeldIn(s)) + 1
           /\ s[j] # "none" =>
                /\ Cardinality(HeldIn(s)) > 0
                /\ Cardinality(HeldIn([s EXCEPT ![j] = "none"])) = Cardinality(HeldIn(s)) - 1
                /\ HeldIn([s EXCEPT ![j] = "yielding"]) = HeldIn(s)
<1>1. IsFiniteSet(HeldIn(s))
  BY FS_Subset DEF HeldIn
<1>2. Cardinality(HeldIn(s)) \in Nat
  BY <1>1, FS_CardinalityType
<1>3. ASSUME s[j] = "none"
      PROVE  Cardinality(HeldIn([s EXCEPT ![j] = "running"])) = Cardinality(HeldIn(s)) + 1
  <2>1. HeldIn([s EXCEPT ![j] = "running"]) = HeldIn(s) \union {j} /\ j \notin HeldIn(s)
    BY <1>3 DEF HeldIn, SlotFunction
  <2>2. QED
    BY <1>1, <2>1, FS_AddElement
<1>4. ASSUME s[j] # "none"
      PROVE  /\ Cardinality(HeldIn(s)) > 0
             /\ Cardinality(HeldIn([s EXCEPT ![j] = "none"])) = Cardinality(HeldIn(s)) - 1
             /\ HeldIn([s EXCEPT ![j] = "yielding"]) = HeldIn(s)
  <2>1. HeldIn([s EXCEPT ![j] = "none"]) = HeldIn(s) \ {j} /\ j \in HeldIn(s)
    BY <1>4 DEF HeldIn, SlotFunction
  <2>2. Cardinality(HeldIn(s) \ {j}) = Cardinality(HeldIn(s)) - 1 /\ IsFiniteSet(HeldIn(s) \ {j})
    BY <1>1, <2>1, FS_RemoveElement
  <2>3. Cardinality(HeldIn(s) \ {j}) \in Nat
    BY <2>2, FS_CardinalityType
  <2>4. HeldIn([s EXCEPT ![j] = "yielding"]) = HeldIn(s)
    BY <1>4 DEF HeldIn, SlotFunction
  <2>5. /\ Cardinality(HeldIn(s)) > 0
        /\ Cardinality(HeldIn(s) \ {j}) = Cardinality(HeldIn(s)) - 1
    <3> DEFINE c == Cardinality(HeldIn(s))
               d == Cardinality(HeldIn(s) \ {j})
    <3>1. c \in Nat /\ d \in Nat /\ d = c - 1
      BY <1>2, <2>2, <2>3
    <3> HIDE DEF c, d
    <3>2. c > 0 /\ d = c - 1
      BY <3>1
    <3>3. QED
      BY <3>2 DEF c, d
  <2>6. QED
    BY <2>1, <2>4, <2>5, Zenon
<1>5. QED
  BY <1>1, <1>2, <1>3, <1>4

\* The inductive invariant: what the runs check of the queue, together.
QueueInv == TypeOK /\ ConcurrencyBound /\ NoLostWakeup /\ SinglePlace

\* A call of runJob keeps the invariant when it is entered with a counter that
\* counts the slots of s, and with a timer for every waiting job or a slot that
\* was just freed.
LEMMA RunJobStep ==
    ASSUME TypeOK, SinglePlace, Len(jobs) <= MaxLength,
           NEW s \in SlotFunction, NEW n \in Nat, NEW t \in Nat,
           n = Cardinality(HeldIn(s)), n <= MaxConcurrency,
           n + 1 < MaxConcurrency => t + 1 >= Len(jobs),
           \A i \in 1..Len(jobs) : s[jobs[i]] = "none",
           RunJob(s, n), timers' = t, UNCHANGED aborted
    PROVE  /\ ConcurrencyBound'
           /\ NoLostWakeup'
           /\ \A i \in 1..Len(jobs') :
                \E k \in 1..Len(jobs) : jobs'[i] = jobs[k] /\ slot'[jobs'[i]] = "none"
           /\ \A i, k \in 1..Len(jobs') : jobs'[i] = jobs'[k] => i = k
           /\ \A j \in Jobs : slot'[j] # "none" =>
                \/ slot'[j] = s[j]
                \/ slot'[j] = "running" /\ \E k \in 1..Len(jobs) : jobs[k] = j
           /\ aborted' => jobs' = <<>>
<1>0. Held' = HeldIn(slot')
  BY DEF Held, HeldIn
<1>1. CASE aborted \/ n >= MaxConcurrency \/ jobs = <<>>
  <2>1. slot' = s /\ runningJobs' = n /\ jobs' = jobs
    BY <1>1 DEF RunJob
  <2>2. Len(jobs) \in Nat /\ (n < MaxConcurrency => Len(jobs) = 0)
    BY <1>1 DEF TypeOK, SinglePlace
  <2>3. ConcurrencyBound'
    BY <1>0, <2>1 DEF ConcurrencyBound
  <2>4. NoLostWakeup'
    BY <2>1, <2>2 DEF NoLostWakeup
  <2>5. QED
    BY <2>1, <2>3, <2>4 DEF SinglePlace
<1>2. CASE ~(aborted \/ n >= MaxConcurrency \/ jobs = <<>>)
  <2>1. /\ slot' = [s EXCEPT ![NextJob] = "running"]
        /\ runningJobs' = n + 1
        /\ jobs' = RestOfJobs
        /\ jobs # <<>>
        /\ n < MaxConcurrency
    BY <1>2 DEF RunJob
  <2>2. PICK k \in {1, Len(jobs)}, d \in {0, 1} :
          /\ NextJob = jobs[k]
          /\ \A i \in 1..Len(RestOfJobs) :
               i + d \in 1..Len(jobs) /\ i + d # k /\ RestOfJobs[i] = jobs[i + d]
    BY <2>1, TakeJob
  <2>3. NextJob \in Jobs /\ RestOfJobs \in Seq(Jobs) /\ Len(RestOfJobs) = Len(jobs) - 1
    BY <2>1, TakeJob
  <2>4. Len(jobs) \in Nat /\ Len(jobs) > 0 /\ k \in 1..Len(jobs)
    BY <2>1 DEF TypeOK
  <2>5. s[NextJob] = "none"
    BY <2>2, <2>4
  <2>6. Cardinality(Held') = n + 1
    BY <1>0, <2>1, <2>3, <2>5, HeldUpdate
  <2>7. ConcurrencyBound'
    BY <2>1, <2>3, <2>4, <2>6 DEF ConcurrencyBound
  <2>8. NoLostWakeup'
    BY <2>1, <2>3, <2>4 DEF NoLostWakeup
  <2>9. \A i \in 1..Len(jobs') : jobs'[i] # NextJob
    BY <2>1, <2>2, <2>4 DEF SinglePlace
  <2>10. \A i \in 1..Len(jobs') :
            \E m \in 1..Len(jobs) : jobs'[i] = jobs[m] /\ slot'[jobs'[i]] = "none"
    BY <2>1, <2>2, <2>9, SMTT(30) DEF SlotFunction, TypeOK
  <2>11. \A i, m \in 1..Len(jobs') : jobs'[i] = jobs'[m] => i = m
    <3> SUFFICES ASSUME NEW i \in 1..Len(RestOfJobs), NEW m \in 1..Len(RestOfJobs),
                        RestOfJobs[i] = RestOfJobs[m]
                 PROVE  i = m
      BY <2>1
    <3>1. i \in Int /\ m \in Int /\ d \in Int
      BY <2>3, <2>4
    <3>2. i + d \in 1..Len(jobs) /\ m + d \in 1..Len(jobs) /\ jobs[i + d] = jobs[m + d]
      BY <2>2, Zenon
    <3>3. i + d = m + d
      BY <3>2 DEF SinglePlace
    <3>4. QED
      BY <3>1, <3>3
  <2>12. \A j \in Jobs : slot'[j] # "none" =>
            slot'[j] = s[j] \/ (slot'[j] = "running" /\ \E m \in 1..Len(jobs) : jobs[m] = j)
    BY <2>1, <2>2, <2>3, <2>4 DEF SlotFunction
  <2>13. QED
    BY <1>2, <2>7, <2>8, <2>10, <2>11, <2>12
<1>3. QED
  BY <1>1, <1>2

\* Releasing the slot of j and calling runJob again keeps the invariant: this
\* is how a job ends, at once or after its yield.
LEMMA ReleaseStep ==
    ASSUME QueueInv, NEW j \in Jobs, slot[j] # "none",
           RunJob([slot EXCEPT ![j] = "none"], Decremented), UNCHANGED <<type, timers, aborted>>,
           promise' \in [Jobs -> {"none", "pending", "resolved", "rejected"}],
           \A k \in Jobs : k # j => promise'[k] = promise[k]
    PROVE  ConcurrencyBound' /\ NoLostWakeup' /\ SinglePlace'
<1> DEFINE s == [slot EXCEPT ![j] = "none"]
           n == Decremented
<1>1. TypeOK /\ ConcurrencyBound /\ NoLostWakeup /\ SinglePlace
  BY DEF QueueInv
<1>2. slot \in SlotFunction /\ s \in SlotFunction
  BY <1>1 DEF TypeOK, SlotFunction
<1>3. Held = HeldIn(slot)
  BY DEF Held, HeldIn
<1>4. /\ runningJobs > 0
      /\ Cardinality(HeldIn(s)) = runningJobs - 1
      /\ runningJobs \in Nat
      /\ runningJobs <= MaxConcurrency
  BY <1>1, <1>2, <1>3, HeldUpdate DEF ConcurrencyBound, TypeOK
<1>5. n \in Nat /\ n = Cardinality(HeldIn(s)) /\ n <= MaxConcurrency /\ n + 1 = runningJobs
  BY <1>4 DEF Decremented
<1>6. timers \in Nat /\ Len(jobs) \in Nat /\ Len(jobs) <= MaxLength
  BY <1>1 DEF TypeOK, ConcurrencyBound
<1>7. n + 1 < MaxConcurrency => timers + 1 >= Len(jobs)
  BY <1>1, <1>5, <1>6 DEF NoLostWakeup
<1>8. \A i \in 1..Len(jobs) : jobs[i] \in Jobs /\ jobs[i] # j /\ s[jobs[i]] = "none"
  BY <1>1 DEF TypeOK, SinglePlace
<1>9. RunJob(s, n) /\ timers' = timers /\ UNCHANGED aborted
  OBVIOUS
<1> HIDE DEF s, n
<1>10. /\ ConcurrencyBound'
       /\ NoLostWakeup'
       /\ \A i \in 1..Len(jobs') :
            \E k \in 1..Len(jobs) : jobs'[i] = jobs[k] /\ slot'[jobs'[i]] = "none"
       /\ \A i, k \in 1..Len(jobs') : jobs'[i] = jobs'[k] => i = k
       /\ \A m \in Jobs : slot'[m] # "none" =>
            slot'[m] = s[m] \/ (slot'[m] = "running" /\ \E k \in 1..Len(jobs) : jobs[k] = m)
       /\ aborted' => jobs' = <<>>
  BY <1>1, <1>2, <1>5, <1>6, <1>7, <1>8, <1>9, RunJobStep
<1>11. \A i \in 1..Len(jobs') : promise'[jobs'[i]] = "pending" /\ slot'[jobs'[i]] = "none"
  <2> SUFFICES ASSUME NEW i \in 1..Len(jobs')
               PROVE  promise'[jobs'[i]] = "pending" /\ slot'[jobs'[i]] = "none"
    OBVIOUS
  <2>1. PICK k \in 1..Len(jobs) : jobs'[i] = jobs[k] /\ slot'[jobs'[i]] = "none"
    BY <1>10
  <2>2. promise[jobs[k]] = "pending" /\ jobs[k] \in Jobs /\ jobs[k] # j
    BY <1>1, <1>8 DEF SinglePlace
  <2>3. QED
    BY <2>1, <2>2
<1>12. ASSUME NEW m \in Jobs
       PROVE  /\ slot'[m] = "running" => promise'[m] = "pending"
              /\ slot'[m] = "yielding" => promise'[m] = "resolved"
  <2>1. CASE slot'[m] = "none"
    BY <2>1
  <2>2. CASE slot'[m] = s[m]
    BY <1>1, <2>2 DEF s, SinglePlace, TypeOK
  <2>3. CASE slot'[m] = "running" /\ \E k \in 1..Len(jobs) : jobs[k] = m
    BY <1>1, <1>8, <2>3 DEF SinglePlace
  <2>4. QED
    BY <1>10, <2>1, <2>2, <2>3
<1>13. QED
  BY <1>10, <1>11, <1>12 DEF SinglePlace

\* QueueInv is inductive: one step per operation of the queue.
LEMMA QueueStep == QueueInv /\ [Next]_vars => QueueInv'
<1> SUFFICES ASSUME QueueInv, [Next]_vars
             PROVE  ConcurrencyBound' /\ NoLostWakeup' /\ SinglePlace'
  BY TypeStep DEF QueueInv
<1>0. TypeOK /\ ConcurrencyBound /\ NoLostWakeup /\ SinglePlace
  BY DEF QueueInv
<1>t. Len(jobs) \in Nat /\ timers \in Nat /\ runningJobs \in Nat /\ jobs \in Seq(Jobs)
  BY <1>0 DEF TypeOK
<1>h. ASSUME slot' = slot PROVE Held' = Held
  BY <1>h DEF Held
<1>1. ASSUME NEW j \in Jobs, PushRejected(j)
      PROVE  ConcurrencyBound' /\ NoLostWakeup' /\ SinglePlace'
  <2>1. /\ UNCHANGED <<type, jobs, runningJobs, slot, timers, aborted>>
        /\ promise[j] = "none"
        /\ \A k \in Jobs : promise'[k] = promise[k] \/ k = j
    BY <1>0, <1>1 DEF PushRejected, TypeOK
  <2>2. SinglePlace'
    BY <1>0, <2>1 DEF SinglePlace, TypeOK
  <2>3. QED
    BY <1>0, <1>h, <2>1, <2>2 DEF ConcurrencyBound, NoLostWakeup
<1>2. ASSUME NEW j \in Jobs, PushAccepted(j)
      PROVE  ConcurrencyBound' /\ NoLostWakeup' /\ SinglePlace'
  <2> DEFINE kept == IF Len(jobs) + 1 > MaxLength THEN Tail(jobs) ELSE jobs
  <2>1. /\ jobs' = Append(kept, j)
        /\ UNCHANGED <<type, runningJobs, slot, aborted>>
        /\ timers' = timers + 1
        /\ promise[j] = "none"
        /\ ~aborted
        /\ promise' = [promise EXCEPT ![j] = "pending"]
    BY <1>2 DEF PushAccepted
  <2>2. \E d \in {0, 1} :
          /\ kept \in Seq(Jobs)
          /\ Len(kept) = Len(jobs) - d
          /\ Len(kept) + 1 <= MaxLength
          /\ \A i \in 1..Len(kept) : i + d \in 1..Len(jobs) /\ kept[i] = jobs[i + d]
    <3>1. CASE Len(jobs) + 1 > MaxLength
      <4>1. Len(jobs) > 0 /\ Len(jobs) = MaxLength
        BY <1>0, <1>t, <3>1 DEF ConcurrencyBound
      <4>2. kept \in Seq(Jobs) /\ Len(kept) = Len(jobs) - 1
            /\ \A i \in 1..Len(kept) : i + 1 \in 1..Len(jobs) /\ kept[i] = jobs[i + 1]
        BY <1>t, <3>1, <4>1
      <4>3. QED
        BY <1>t, <4>1, <4>2
    <3>2. CASE ~(Len(jobs) + 1 > MaxLength)
      BY <1>t, <3>2
    <3>3. QED
      BY <3>1, <3>2
  <2> HIDE DEF kept
  <2>3. PICK d \in {0, 1} :
          /\ kept \in Seq(Jobs)
          /\ Len(kept) = Len(jobs) - d
          /\ Len(kept) + 1 <= MaxLength
          /\ \A i \in 1..Len(kept) : i + d \in 1..Len(jobs) /\ kept[i] = jobs[i + d]
    BY <2>2
  <2>4. /\ Len(kept) \in Nat
        /\ Len(jobs') = Len(kept) + 1
        /\ \A i \in 1..Len(kept) : jobs'[i] = kept[i]
        /\ jobs'[Len(kept) + 1] = j
    BY <2>1, <2>3
  <2>5. ConcurrencyBound'
    BY <1>0, <1>h, <2>1, <2>3, <2>4 DEF ConcurrencyBound
  <2>6. NoLostWakeup'
    BY <1>0, <1>t, <2>1, <2>3, <2>4 DEF NoLostWakeup
  <2>7. \A i \in 1..Len(kept) : /\ kept[i] \in Jobs
                                /\ kept[i] # j
                                /\ promise[kept[i]] = "pending"
                                /\ slot[kept[i]] = "none"
    <3> SUFFICES ASSUME NEW i \in 1..Len(kept)
                 PROVE  /\ kept[i] \in Jobs
                        /\ kept[i] # j
                        /\ promise[kept[i]] = "pending"
                        /\ slot[kept[i]] = "none"
      OBVIOUS
    <3>1. kept[i] \in Jobs
      BY <2>3
    <3>2. i + d \in 1..Len(jobs) /\ kept[i] = jobs[i + d]
      BY <2>3, Zenon
    <3>3. promise[kept[i]] = "pending" /\ slot[kept[i]] = "none"
      BY <1>0, <3>2 DEF SinglePlace
    <3>4. QED
      BY <2>1, <3>1, <3>3
  <2>8. slot[j] = "none"
    BY <1>0, <2>1 DEF SinglePlace, TypeOK
  <2>9. \A i \in 1..Len(jobs') : promise'[jobs'[i]] = "pending" /\ slot'[jobs'[i]] = "none"
    <3> SUFFICES ASSUME NEW i \in 1..Len(jobs')
                 PROVE  promise'[jobs'[i]] = "pending" /\ slot'[jobs'[i]] = "none"
      OBVIOUS
    <3>1. CASE i = Len(kept) + 1
      BY <1>0, <2>1, <2>4, <2>8, <3>1 DEF TypeOK
    <3>2. CASE i \in 1..Len(kept)
      BY <1>0, <2>1, <2>4, <2>7, <3>2 DEF TypeOK
    <3>3. QED
      BY <2>4, <3>1, <3>2
  <2>10. \A i, m \in 1..Len(kept) : kept[i] = kept[m] => i = m
    <3> SUFFICES ASSUME NEW i \in 1..Len(kept), NEW m \in 1..Len(kept), kept[i] = kept[m]
                 PROVE  i = m
      OBVIOUS
    <3>1. i + d \in 1..Len(jobs) /\ m + d \in 1..Len(jobs) /\ jobs[i + d] = jobs[m + d]
      BY <2>3, Zenon
    <3>2. i + d = m + d
      BY <1>0, <3>1 DEF SinglePlace
    <3>3. i \in Int /\ m \in Int /\ d \in Int
      BY <2>4
    <3>4. QED
      BY <3>2, <3>3
  <2>11. \A i, m \in 1..Len(jobs') : jobs'[i] = jobs'[m] => i = m
    BY <2>4, <2>7, <2>10
  <2>12. \A k \in Jobs : /\ slot'[k] = "running" => promise'[k] = "pending"
                         /\ slot'[k] = "yielding" => promise'[k] = "resolved"
    BY <1>0, <2>1, <2>8 DEF SinglePlace, TypeOK
  <2>13. QED
    BY <2>1, <2>5, <2>6, <2>9, <2>11, <2>12 DEF SinglePlace
<1>3. ASSUME TimerFires
      PROVE  ConcurrencyBound' /\ NoLostWakeup' /\ SinglePlace'
  <2> DEFINE t == timers - 1
  <2>1. /\ t \in Nat
        /\ timers' = t
        /\ t + 1 = timers
        /\ RunJob(slot, runningJobs)
        /\ UNCHANGED <<type, promise, aborted>>
    BY <1>3, <1>t DEF TimerFires
  <2>2. slot \in SlotFunction /\ Held = HeldIn(slot)
    BY <1>0 DEF TypeOK, SlotFunction, Held, HeldIn
  <2>3. runningJobs + 1 < MaxConcurrency => t + 1 >= Len(jobs)
    BY <1>0, <1>t, <2>1 DEF NoLostWakeup
  <2>4. \A i \in 1..Len(jobs) : jobs[i] \in Jobs /\ slot[jobs[i]] = "none"
    BY <1>0 DEF SinglePlace, TypeOK
  <2>5. Len(jobs) <= MaxLength /\ runningJobs = Cardinality(HeldIn(slot))
        /\ runningJobs <= MaxConcurrency
    BY <1>0, <2>2 DEF ConcurrencyBound
  <2> HIDE DEF t
  <2>6. /\ ConcurrencyBound'
        /\ NoLostWakeup'
        /\ \A i \in 1..Len(jobs') :
             \E k \in 1..Len(jobs) : jobs'[i] = jobs[k] /\ slot'[jobs'[i]] = "none"
        /\ \A i, k \in 1..Len(jobs') : jobs'[i] = jobs'[k] => i = k
        /\ \A m \in Jobs : slot'[m] # "none" =>
             slot'[m] = slot[m] \/ (slot'[m] = "running" /\ \E k \in 1..Len(jobs) : jobs[k] = m)
        /\ aborted' => jobs' = <<>>
    BY <1>0, <1>t, <2>1, <2>2, <2>3, <2>4, <2>5, RunJobStep
  <2>7. \A i \in 1..Len(jobs') : promise'[jobs'[i]] = "pending" /\ slot'[jobs'[i]] = "none"
    BY <1>0, <2>1, <2>6 DEF SinglePlace
  <2>8. ASSUME NEW m \in Jobs
        PROVE  /\ slot'[m] = "running" => promise'[m] = "pending"
               /\ slot'[m] = "yielding" => promise'[m] = "resolved"
    <3>1. CASE slot'[m] = "none"
      BY <3>1
    <3>2. CASE slot'[m] = slot[m]
      BY <1>0, <2>1, <3>2 DEF SinglePlace
    <3>3. CASE slot'[m] = "running" /\ \E k \in 1..Len(jobs) : jobs[k] = m
      BY <1>0, <2>1, <3>3 DEF SinglePlace
    <3>4. QED
      BY <2>6, <3>1, <3>2, <3>3
  <2>9. QED
    BY <2>6, <2>7, <2>8 DEF SinglePlace
<1>4. ASSUME NEW j \in Jobs, NEW outcome \in {"resolved", "rejected"}, FinishJob(j, outcome)
      PROVE  ConcurrencyBound' /\ NoLostWakeup' /\ SinglePlace'
  <2>1. /\ slot[j] # "none"
        /\ RunJob([slot EXCEPT ![j] = "none"], Decremented)
        /\ UNCHANGED <<type, timers, aborted>>
        /\ promise' \in [Jobs -> {"none", "pending", "resolved", "rejected"}]
        /\ \A k \in Jobs : k # j => promise'[k] = promise[k]
    BY <1>0, <1>4 DEF FinishJob, TypeOK
  <2>2. QED
    BY <2>1, ReleaseStep
<1>5. ASSUME NEW j \in Jobs, YieldAfterJob(j)
      PROVE  ConcurrencyBound' /\ NoLostWakeup' /\ SinglePlace'
  <2>1. /\ slot[j] = "running"
        /\ promise' = [promise EXCEPT ![j] = "resolved"]
        /\ slot' = [slot EXCEPT ![j] = "yielding"]
        /\ UNCHANGED <<type, jobs, runningJobs, timers, aborted>>
    BY <1>5 DEF YieldAfterJob
  <2>2. Held' = Held
    BY <1>0, <2>1 DEF Held, TypeOK
  <2>3. SinglePlace'
    BY <1>0, <2>1 DEF SinglePlace, TypeOK
  <2>4. QED
    BY <1>0, <2>1, <2>2, <2>3 DEF ConcurrencyBound, NoLostWakeup
<1>6. ASSUME NEW j \in Jobs, ResumeAfterYield(j)
      PROVE  ConcurrencyBound' /\ NoLostWakeup' /\ SinglePlace'
  <2>1. /\ slot[j] # "none"
        /\ RunJob([slot EXCEPT ![j] = "none"], Decremented)
        /\ UNCHANGED <<type, timers, aborted>>
        /\ promise' = promise
    BY <1>6 DEF ResumeAfterYield
  <2>2. QED
    BY <1>0, <2>1, ReleaseStep DEF TypeOK
<1>7. ASSUME AbortAllJobs
      PROVE  ConcurrencyBound' /\ NoLostWakeup' /\ SinglePlace'
  <2>1. /\ jobs' = <<>>
        /\ UNCHANGED <<type, runningJobs, slot, timers>>
        /\ \A k \in Jobs : promise'[k] = promise[k] \/ \E i \in 1..Len(jobs) : jobs[i] = k
    BY <1>7 DEF AbortAllJobs
  <2>2. Len(jobs') = 0
    BY <2>1
  <2>3. SinglePlace'
    BY <1>0, <2>1, <2>2 DEF SinglePlace, TypeOK
  <2>4. QED
    BY <1>0, <1>h, <1>t, <2>1, <2>2, <2>3 DEF ConcurrencyBound, NoLostWakeup
<1>8. CASE UNCHANGED vars
  BY <1>0, <1>8 DEF vars, Held, ConcurrencyBound, NoLostWakeup, SinglePlace
<1>9. QED
  BY <1>1, <1>2, <1>3, <1>4, <1>5, <1>6, <1>7, <1>8 DEF Next

\* The initial state of the queue satisfies the inductive invariant.
LEMMA QueueInit == Init => QueueInv
<1> SUFFICES ASSUME Init PROVE QueueInv
  OBVIOUS
<1>1. TypeOK
  <2>1. aborted \in BOOLEAN
    BY Zenon DEF Init
  <2>2. QED
    BY <2>1, EmptySeq DEF Init, TypeOK
<1>2. Held = {}
  BY DEF Init, Held
<1>3. Cardinality(Held) = 0
  BY <1>2, FS_EmptySet
<1>4. QED
  BY <1>1, <1>3 DEF Init, QueueInv, ConcurrencyBound, NoLostWakeup, SinglePlace

\* The safety of the job queue, for every set of jobs, length, concurrency and
\* discipline: runJob never exceeds maxConcurrency, a waiting job always has a
\* runJob call coming to it, and no job is in two places.
THEOREM QueueSafe == Spec => [](ConcurrencyBound /\ NoLostWakeup /\ SinglePlace)
<1>1. Init => QueueInv
  BY QueueInit
<1>2. QueueInv => ConcurrencyBound /\ NoLostWakeup /\ SinglePlace
  BY DEF QueueInv
<1>3. QED
  BY <1>1, <1>2, QueueStep, PTL DEF Spec

\* A promise settles once: no operation of the queue changes the answer a
\* caller of push already has.
THEOREM SettlesOnce == Spec => SettledForGood
<1>1. QueueInv /\ [Next]_vars =>
        [\A j \in Jobs : promise[j] \in {"resolved", "rejected"} => promise'[j] = promise[j]]_vars
  <2> SUFFICES ASSUME QueueInv, Next, NEW j \in Jobs, promise[j] \in {"resolved", "rejected"}
               PROVE  promise'[j] = promise[j]
    OBVIOUS
  <2> USE DEF QueueInv, TypeOK, SinglePlace
  <2>1. ASSUME NEW k \in Jobs, PushRejected(k) \/ PushAccepted(k) PROVE promise'[j] = promise[j]
    BY <2>1 DEF PushRejected, PushAccepted
  <2>2. ASSUME TimerFires PROVE promise'[j] = promise[j]
    BY <2>2 DEF TimerFires
  <2>3. ASSUME NEW k \in Jobs, NEW outcome \in {"resolved", "rejected"}, FinishJob(k, outcome)
        PROVE  promise'[j] = promise[j]
    BY <2>3 DEF FinishJob
  <2>4. ASSUME NEW k \in Jobs, YieldAfterJob(k) \/ ResumeAfterYield(k)
        PROVE  promise'[j] = promise[j]
    BY <2>4 DEF YieldAfterJob, ResumeAfterYield
  <2>5. ASSUME AbortAllJobs PROVE promise'[j] = promise[j]
    BY <2>5 DEF AbortAllJobs
  <2>6. QED
    BY <2>1, <2>2, <2>3, <2>4, <2>5 DEF Next
<1>2. QED
  BY <1>1, QueueInit, QueueStep, PTL DEF Spec, SettledForGood

-----------------------------------------------------------------------------
(***************************************************************************)
(* The pool of BLS workers.  First how a call is split.                    *)
(***************************************************************************)

Verdicts == {"valid", "invalid", "malformed"}

\* Finitely many workers, which are numbered; a job has room for a set.
BlsConstants ==
    /\ BlsWorkers \subseteq Nat /\ IsFiniteSet(BlsWorkers)
    /\ SetsPerJob \in Nat \ {0}
    /\ SetsOf \in [Calls -> Seq(Verdicts)]

Elements(s) == {s[i] : i \in 1 .. Len(s)}

\* The elements of a piece of a sequence.
LEMMA PieceElements ==
    ASSUME NEW S, NEW s \in Seq(S), NEW a \in Nat \ {0}, NEW b \in Nat, b <= Len(s)
    PROVE  LET p == SubSeq(s, a, b)
           IN  /\ p \in Seq(S) /\ Elements(p) \subseteq Elements(s)
               /\ \A k \in a .. b : s[k] \in Elements(p)
<1> DEFINE p == SubSeq(s, a, b)
<1>1. p \in Seq(S) /\ Len(p) = (IF a <= b THEN b - a + 1 ELSE 0) OBVIOUS
<1>2. \A i \in 1 .. Len(p) : p[i] = s[a + i - 1] BY <1>1
<1> HIDE DEF p
<1>3. \A i \in 1 .. Len(p) : a + i - 1 \in 1 .. Len(s) BY <1>1
<1>4. Elements(p) \subseteq Elements(s) BY <1>2, <1>3 DEF Elements
<1>5. ASSUME NEW k \in a .. b PROVE s[k] \in Elements(p)
  <2>1. k - a + 1 \in 1 .. Len(p) /\ a + (k - a + 1) - 1 = k BY <1>1
  <2>2. p[k - a + 1] = s[k] BY <1>2, <2>1
  <2> QED BY <2>1, <2>2 DEF Elements
<1> QED BY <1>1, <1>4, <1>5 DEF p

\* Division rounds down.
LEMMA DivisionFacts ==
    ASSUME NEW a \in Nat, NEW n \in Nat \ {0}
    PROVE  a \div n \in Nat /\ n * (a \div n) <= a /\ a < n * (a \div n) + n
OBVIOUS

\* Multiples grow.
LEMMA MultiplesGrow ==
    ASSUME NEW n \in Nat, NEW a \in Nat, NEW b \in Nat, a <= b
    PROVE  n * a \in Nat /\ n * b \in Nat /\ n * a <= n * b
<1>1. PICK c \in Nat : b = a + c
  <2>1. b - a \in Nat /\ b = a + (b - a) OBVIOUS
  <2> QED BY <2>1
<1>2. n * b = n * a + n * c BY <1>1
<1>3. n * c \in Nat OBVIOUS
<1> QED BY <1>2, <1>3

\* chunkifyMaximizeChunkSize: the chunks have all the sets of the call, and no others.
LEMMA ChunksCover ==
    ASSUME BlsConstants, NEW arr \in Seq(Verdicts)
    PROVE  LET c == Bls!ChunkifyMaximizeChunkSize(arr)
           IN  /\ c \in Seq(Seq(Verdicts)) /\ Len(c) >= 1
               /\ \A i \in 1 .. Len(c) : Elements(c[i]) \subseteq Elements(arr)
               /\ \A k \in 1 .. Len(arr) : \E i \in 1 .. Len(c) : arr[k] \in Elements(c[i])
<1> DEFINE c == Bls!ChunkifyMaximizeChunkSize(arr)
           n == Len(arr)
           count == n \div SetsPerJob
           per == (n + count - 1) \div count
           chunks == (n + per - 1) \div per
<1>1. n \in Nat /\ SetsPerJob \in Nat \ {0} /\ count \in Nat /\ SetsPerJob * count <= n
  <2>1. n \in Nat /\ SetsPerJob \in Nat \ {0} BY DEF BlsConstants
  <2> QED BY <2>1, DivisionFacts
<1>2. CASE count <= 1
  <2>1. c = <<arr>> BY <1>2 DEF Bls!ChunkifyMaximizeChunkSize
  <2>2. Len(c) = 1 /\ c[1] = arr /\ c \in Seq(Seq(Verdicts)) BY <2>1
  <2>3. \A k \in 1 .. n : arr[k] \in Elements(arr) BY DEF Elements
  <2> HIDE DEF c
  <2> QED BY <2>2, <2>3 DEF c
<1>3. CASE count > 1
  <2>1. c = [i \in 1 .. chunks |-> SubSeq(arr, (i - 1) * per + 1, IF i = chunks THEN n ELSE i * per)]
    <3>1. ~(count <= 1) BY <1>1, <1>3
    <3> QED BY <3>1 DEF Bls!ChunkifyMaximizeChunkSize
  <2> HIDE DEF c, count
  <2>2. n >= 2
    <3>1. SetsPerJob * count >= count BY <1>1
    <3> QED BY <1>1, <1>3, <3>1
  <2>3. per \in Nat \ {0}
    <3>1. n + count - 1 \in Nat /\ n + count - 1 >= count BY <1>1, <1>3, <2>2
    <3>2. per \in Nat /\ n + count - 1 < count * per + count
      <4>1. count \in Nat \ {0} BY <1>1, <1>3
      <4> QED BY <3>1, <4>1, DivisionFacts
    <3> HIDE DEF per
    <3>3. per # 0
      <4> SUFFICES ASSUME per = 0 PROVE FALSE OBVIOUS
      <4>1. count * per = 0 BY <1>1
      <4> QED BY <1>1, <3>1, <3>2, <4>1
    <3> QED BY <3>2, <3>3
  <2> HIDE DEF per
  <2>4. chunks \in Nat /\ per * chunks <= n + per - 1 /\ n + per - 1 < per * chunks + per
    <3>1. n + per - 1 \in Nat BY <1>1, <2>3
    <3> QED BY <2>3, <3>1, DivisionFacts
  <2> HIDE DEF chunks
  <2>5. chunks >= 1
    <3> SUFFICES ASSUME chunks = 0 PROVE FALSE BY <2>4
    <3>1. per * chunks = 0 BY <2>3
    <3> QED BY <1>1, <2>2, <2>3, <2>4, <3>1
  <2>6. \A i \in 1 .. chunks : (i - 1) * per + 1 \in Nat \ {0} BY <2>3, <2>4
  <2>7. ASSUME NEW i \in 1 .. chunks, i # chunks PROVE i * per \in Nat /\ i * per <= n
    <3>1. i \in Nat /\ chunks - 1 \in Nat /\ i <= chunks - 1 BY <2>4, <2>5, <2>7
    <3>2. per * i \in Nat /\ per * i <= per * (chunks - 1) BY <2>3, <3>1, MultiplesGrow
    <3>3. per * (chunks - 1) = per * chunks - per /\ i * per = per * i BY <2>3, <2>4, <3>1
    <3> QED BY <1>1, <2>3, <2>4, <3>2, <3>3
  <2> DEFINE to(i) == IF i = chunks THEN n ELSE i * per
  <2>8. \A i \in 1 .. chunks : to(i) \in Nat /\ to(i) <= n BY <1>1, <2>7
  <2>9. ASSUME NEW i \in 1 .. chunks
        PROVE  /\ c[i] \in Seq(Verdicts) /\ Elements(c[i]) \subseteq Elements(arr)
               /\ \A k \in ((i - 1) * per + 1) .. to(i) : arr[k] \in Elements(c[i])
    <3>1. c[i] = SubSeq(arr, (i - 1) * per + 1, to(i)) BY <2>1
    <3>2. (i - 1) * per + 1 \in Nat \ {0} /\ to(i) \in Nat /\ to(i) <= Len(arr) BY <2>6, <2>8
    <3> HIDE DEF to
    <3> QED BY <3>1, <3>2, PieceElements, SMTT(30)
  <2>10. c \in Seq(Seq(Verdicts)) /\ Len(c) = chunks
    <3>1. c = [i \in 1 .. chunks |-> c[i]] BY <2>1
    <3>2. \A i \in 1 .. chunks : c[i] \in Seq(Verdicts) BY <2>9
    <3> HIDE DEF c, chunks
    <3> QED BY <2>4, <3>1, <3>2, SMTT(30)
  <2>11. ASSUME NEW k \in 1 .. n PROVE \E i \in 1 .. chunks : arr[k] \in Elements(c[i])
    <3> DEFINE q == (k - 1) \div per
    <3>1. q \in Nat /\ per * q <= k - 1 /\ k - 1 < per * q + per
      <4>1. k - 1 \in Nat BY <1>1
      <4> QED BY <2>3, <4>1, DivisionFacts
    <3> HIDE DEF q
    <3>2. CASE q + 1 < chunks
      <4>1. q + 1 \in 1 .. chunks /\ q + 1 # chunks BY <2>4, <3>1, <3>2
      <4>2. ((q + 1) - 1) * per = per * q /\ (q + 1) * per = per * q + per BY <2>3, <3>1
      <4>3. per * q \in Nat BY <2>3, <3>1
      <4>4. k \in (((q + 1) - 1) * per + 1) .. to(q + 1) BY <1>1, <2>3, <3>1, <4>1, <4>2, <4>3
      <4> QED BY <2>9, <4>1, <4>4
    <3>3. CASE ~(q + 1 < chunks)
      <4>1. chunks - 1 \in Nat /\ chunks - 1 <= q BY <2>4, <2>5, <3>1, <3>3
      <4>2. per * (chunks - 1) \in Nat /\ per * (chunks - 1) <= per * q /\ per * q \in Nat
        BY <2>3, <3>1, <4>1, MultiplesGrow
      <4>3. (chunks - 1) * per = per * (chunks - 1) BY <2>3, <4>1
      <4>4. chunks \in 1 .. chunks BY <2>4, <2>5
      <4>5. k \in ((chunks - 1) * per + 1) .. to(chunks) BY <1>1, <3>1, <4>2, <4>3
      <4> QED BY <2>9, <4>4, <4>5
    <3> QED BY <3>2, <3>3
  <2> QED BY <2>5, <2>9, <2>10, <2>11 DEF c
<1> QED BY <1>1, <1>2, <1>3

-----------------------------------------------------------------------------
(* The pool's state, in its registers. *)

waiting == r1
pool == r2
due == r3
closed == r4
left == r5
result == r6

USE DEF waiting, pool, due, closed, left, result

Parts(r) == Bls!ChunkifyMaximizeChunkSize(SetsOf[r])
Says(r, i) == Bls!VerifySignatureSetsMaybeBatch(Parts(r)[i])
Places(r) == 1 .. Len(Parts(r))
Part(r, i) == [req |-> r, index |-> i, sets |-> Parts(r)[i]]
AllParts == UNION {{Part(r, i) : i \in Places(r)} : r \in Calls}
Codes == {"initializing", "initializationError", "idle", "running"}
IdleWorkers == {w \in BlsWorkers : pool[w].code = "idle"}

BlsTypeOK ==
    /\ waiting \in Seq(AllParts)
    /\ pool \in [BlsWorkers -> [code : Codes, package : Seq(AllParts)]]
    /\ due \in Nat /\ closed \in BOOLEAN
    /\ DOMAIN left = Calls /\ DOMAIN result = Calls

\* What is settled of a call that is not done was valid; a call that will be false has a chunk
\* that is.
ResultsAreExact ==
    \A r \in Calls :
        /\ result[r] = "pending" => \A i \in Places(r) \ left[r] : Says(r, i) = "true"
        /\ result[r] = "pendingFalse" => \E i \in Places(r) : Says(r, i) = "false"

\* Nothing waits once the pool is closed.
ClosedIsEmpty == closed => waiting = <<>>

\* There is a timer for each idle worker, or for each chunk that waits.
TimersSuffice == Cardinality(IdleWorkers) <= due \/ Len(waiting) <= due

BlsInv == BlsTypeOK /\ ResultsAreExact /\ Bls!VerdictsAreTrue /\ ClosedIsEmpty /\ TimersSuffice

\* The two ways to write the elements of a sequence.
LEMMA ToSetIsElements == ASSUME NEW S, NEW s \in Seq(S) PROVE Bls!ToSet(s) = Elements(s)
BY DEF Bls!ToSet, Elements

\* A call that is split is split in chunks of its own.
LEMMA PartsFacts ==
    ASSUME BlsConstants, NEW r \in Calls
    PROVE  /\ SetsOf[r] \in Seq(Verdicts)
           /\ Parts(r) \in Seq(Seq(Verdicts)) /\ Len(Parts(r)) \in Nat /\ Len(Parts(r)) >= 1
           /\ \A i \in Places(r) : Elements(Parts(r)[i]) \subseteq Elements(SetsOf[r])
           /\ \A k \in 1 .. Len(SetsOf[r]) : \E i \in Places(r) : SetsOf[r][k] \in Elements(Parts(r)[i])
<1>1. SetsOf[r] \in Seq(Verdicts) BY DEF BlsConstants
<1> DEFINE c == Bls!ChunkifyMaximizeChunkSize(SetsOf[r])
<1>2. /\ c \in Seq(Seq(Verdicts)) /\ Len(c) >= 1
      /\ \A i \in 1 .. Len(c) : Elements(c[i]) \subseteq Elements(SetsOf[r])
      /\ \A k \in 1 .. Len(SetsOf[r]) : \E i \in 1 .. Len(c) : SetsOf[r][k] \in Elements(c[i])
  BY <1>1, ChunksCover, Zenon
<1>3. Parts(r) = c BY DEF Parts
<1> HIDE DEF c
<1>4. Len(c) \in Nat BY <1>2
<1> QED BY <1>1, <1>2, <1>3, <1>4 DEF Places

\* What a worker says of a chunk.
LEMMA VerdictOfPart ==
    ASSUME BlsConstants, NEW r \in Calls, NEW i \in Places(r)
    PROVE  /\ Says(r, i) \in {"true", "false", "error"}
           /\ Says(r, i) = "true" => Elements(Parts(r)[i]) = {"valid"}
           /\ Says(r, i) = "false" => "invalid" \in Elements(Parts(r)[i])
<1> DEFINE s == Parts(r)[i]
<1>1. s \in Seq(Verdicts) BY PartsFacts DEF Places
<1>2. Bls!ToSet(s) = Elements(s) BY <1>1, ToSetIsElements
<1>3. s # <<>> => Elements(s) # {}
  <2>1. s # <<>> => 1 \in 1 .. Len(s) BY <1>1
  <2> QED BY <2>1 DEF Elements
<1>4. Elements(s) \subseteq Verdicts BY <1>1 DEF Elements
<1> HIDE DEF s
<1>5. Says(r, i) = IF s = <<>> \/ "malformed" \in Elements(s) THEN "error"
                   ELSE IF Elements(s) = {"valid"} THEN "true" ELSE "false"
  BY <1>2 DEF Says, s, Bls!VerifySignatureSetsMaybeBatch
<1>6. Says(r, i) = "false" => "invalid" \in Elements(s) BY <1>3, <1>4, <1>5 DEF Verdicts
<1> QED BY <1>5, <1>6 DEF s

\* All chunks valid, all sets valid; one chunk not, one set not.
LEMMA VerdictOfCall ==
    ASSUME BlsConstants, NEW r \in Calls
    PROVE  /\ (\A i \in Places(r) : Says(r, i) = "true") => Bls!ToSet(SetsOf[r]) = {"valid"}
           /\ (\E i \in Places(r) : Says(r, i) = "false") => "invalid" \in Bls!ToSet(SetsOf[r])
<1>1. Bls!ToSet(SetsOf[r]) = Elements(SetsOf[r]) BY PartsFacts, ToSetIsElements
<1>2. ASSUME \A i \in Places(r) : Says(r, i) = "true" PROVE Elements(SetsOf[r]) = {"valid"}
  <2>1. \A i \in Places(r) : Elements(Parts(r)[i]) = {"valid"} BY <1>2, VerdictOfPart
  <2>2. 1 \in Places(r) BY PartsFacts DEF Places
  <2>3. "valid" \in Elements(SetsOf[r]) BY <2>1, <2>2, PartsFacts
  <2>4. ASSUME NEW k \in 1 .. Len(SetsOf[r]) PROVE SetsOf[r][k] = "valid"
    <3>1. PICK i \in Places(r) : SetsOf[r][k] \in Elements(Parts(r)[i]) BY PartsFacts
    <3>2. Elements(Parts(r)[i]) = {"valid"} BY <2>1
    <3> QED BY <3>1, <3>2, Zenon
  <2> QED BY <2>3, <2>4 DEF Elements
<1>3. ASSUME NEW i \in Places(r), Says(r, i) = "false" PROVE "invalid" \in Elements(SetsOf[r])
  BY <1>3, VerdictOfPart, PartsFacts
<1> QED BY <1>1, <1>2, <1>3

\* The jobs of a call.
LEMMA JobsFacts ==
    ASSUME BlsConstants, NEW r \in Calls
    PROVE  /\ Bls!JobsOf(r) \in Seq(AllParts) /\ Len(Bls!JobsOf(r)) = Len(Parts(r))
           /\ DOMAIN Bls!JobsOf(r) = Places(r)
<1>1. DOMAIN Parts(r) = Places(r) BY PartsFacts DEF Places
<1>2. Bls!JobsOf(r) = [i \in Places(r) |-> Part(r, i)] BY <1>1 DEF Bls!JobsOf, Parts, Part
<1>3. \A i \in Places(r) : Part(r, i) \in AllParts BY DEF AllParts
<1> HIDE DEF Places, Part, AllParts, Parts
<1> DEFINE n == Len(Parts(r))
<1>4. n \in Nat /\ Places(r) = 1 .. n BY PartsFacts DEF Places
<1> HIDE DEF n
<1>5. Bls!JobsOf(r) \in [1 .. n -> AllParts] BY <1>2, <1>3, <1>4
<1>6. Bls!JobsOf(r) \in Seq(AllParts) /\ Len(Bls!JobsOf(r)) = n BY <1>4, <1>5
<1> QED BY <1>2, <1>6 DEF n

\* Settling chunks keeps the results exact: done are chunks, and verdict says of each what a
\* worker would, or that it failed.
LEMMA SettleKeeps ==
    ASSUME BlsConstants, BlsInv, NEW done \in Seq(AllParts), NEW verdict,
           \A r \in Calls : \A i \in Places(r) :
               Part(r, i) \in Bls!ToSet(done) => verdict[Part(r, i)] \in {Says(r, i), "error"},
           Bls!Settle(done, verdict)
    PROVE  DOMAIN left' = Calls /\ DOMAIN result' = Calls /\ ResultsAreExact' /\ Bls!VerdictsAreTrue'
<1> DEFINE of(r) == {job \in Bls!ToSet(done) : job.req = r}
           verdicts(r) == {verdict[job] : job \in of(r)}
           bad(r) == result[r] = "pendingFalse" \/ "false" \in verdicts(r)
<1>1. /\ left' = [r \in Calls |-> left[r] \ {job.index : job \in of(r)}]
      /\ result' = [r \in Calls |->
            IF result[r] \notin {"pending", "pendingFalse"} THEN result[r]
            ELSE IF "error" \in verdicts(r) THEN "error"
            ELSE IF left'[r] = {} THEN (IF bad(r) THEN "false" ELSE "true")
            ELSE IF bad(r) THEN "pendingFalse" ELSE "pending"]
  BY DEF Bls!Settle
<1>2. ASSUME NEW r \in Calls, NEW job \in of(r)
      PROVE  /\ job.index \in Places(r) /\ verdict[job] \in {Says(r, job.index), "error"}
  <2>1. job \in Elements(done) BY ToSetIsElements
  <2>2. job \in AllParts BY <2>1 DEF Elements
  <2>3. PICK x \in Calls : \E i \in Places(x) : job = Part(x, i) BY <2>2 DEF AllParts
  <2>4. PICK i \in Places(x) : job = Part(x, i) BY <2>3
  <2>5. x = r /\ job.index = i BY <2>4 DEF Part
  <2> QED BY <2>4, <2>5
<1> DEFINE gone(r) == {job.index : job \in of(r)}
<1>3. ASSUME NEW r \in Calls, result[r] \in {"pending", "pendingFalse"}, "error" \notin verdicts(r)
      PROVE  /\ bad(r) => \E i \in Places(r) : Says(r, i) = "false"
             /\ ~bad(r) => \A i \in Places(r) \ left'[r] : Says(r, i) = "true"
  <2>1. \A job \in of(r) : verdict[job] = Says(r, job.index) /\ job.index \in Places(r)
    <3> HIDE DEF of
    <3> QED BY <1>2, <1>3
  <2>2. ASSUME bad(r) PROVE \E i \in Places(r) : Says(r, i) = "false"
    <3>1. CASE result[r] = "pendingFalse" BY <3>1 DEF BlsInv, ResultsAreExact
    <3>2. CASE "false" \in verdicts(r)
      <4> HIDE DEF of
      <4> QED BY <2>1, <3>2
    <3> QED BY <2>2, <3>1, <3>2
  <2>3. ASSUME ~bad(r), NEW i \in Places(r) \ left'[r] PROVE Says(r, i) = "true"
    <3>1. result[r] = "pending" /\ "false" \notin verdicts(r) BY <1>3, <2>3
    <3>2. i \notin left[r] \/ i \in gone(r)
      <4> HIDE DEF of
      <4> QED BY <1>1, <2>3
    <3>3. CASE i \notin left[r] BY <3>1, <3>3 DEF BlsInv, ResultsAreExact
    <3>4. CASE i \in gone(r)
      <4> HIDE DEF of
      <4>1. PICK job \in of(r) : job.index = i BY <3>4
      <4>2. verdict[job] = Says(r, i) /\ verdict[job] \in verdicts(r) BY <2>1, <4>1
      <4>3. Says(r, i) \in {"true", "false", "error"} BY VerdictOfPart
      <4> QED BY <1>3, <3>1, <4>2, <4>3
    <3> QED BY <3>2, <3>3, <3>4
  <2> QED BY <2>2, <2>3
<1> HIDE DEF of, verdicts, bad
<1>4. DOMAIN left' = Calls /\ DOMAIN result' = Calls BY <1>1
<1>5. ASSUME NEW r \in Calls
      PROVE  /\ result'[r] = "pending" => \A i \in Places(r) \ left'[r] : Says(r, i) = "true"
             /\ result'[r] = "pendingFalse" => \E i \in Places(r) : Says(r, i) = "false"
             /\ result'[r] = "true" => Bls!ToSet(SetsOf[r]) = {"valid"}
             /\ result'[r] = "false" => "invalid" \in Bls!ToSet(SetsOf[r])
  <2>1. CASE result[r] \notin {"pending", "pendingFalse"}
    <3>1. result'[r] = result[r] BY <1>1, <2>1
    <3>2. /\ result[r] = "true" => Bls!ToSet(SetsOf[r]) = {"valid"}
          /\ result[r] = "false" => "invalid" \in Bls!ToSet(SetsOf[r])
      BY DEF BlsInv, Bls!VerdictsAreTrue
    <3> QED BY <2>1, <3>1, <3>2
  <2>2. CASE result[r] \in {"pending", "pendingFalse"} /\ "error" \in verdicts(r) BY <1>1, <2>2
  <2>3. CASE result[r] \in {"pending", "pendingFalse"} /\ "error" \notin verdicts(r)
    <3>1. result'[r] = IF left'[r] = {} THEN (IF bad(r) THEN "false" ELSE "true")
                       ELSE IF bad(r) THEN "pendingFalse" ELSE "pending"
      BY <1>1, <2>3
    <3>2. CASE bad(r)
      <4>1. \E i \in Places(r) : Says(r, i) = "false" BY <1>3, <2>3, <3>2
      <4> QED BY <3>1, <3>2, <4>1, VerdictOfCall
    <3>3. CASE ~bad(r)
      <4>1. \A i \in Places(r) \ left'[r] : Says(r, i) = "true" BY <1>3, <2>3, <3>3
      <4>2. left'[r] = {} => Bls!ToSet(SetsOf[r]) = {"valid"} BY <4>1, VerdictOfCall
      <4> QED BY <3>1, <3>3, <4>1, <4>2
    <3> QED BY <3>2, <3>3
  <2> QED BY <2>1, <2>2, <2>3
<1>6. ResultsAreExact' BY <1>5 DEF ResultsAreExact
<1>7. Bls!VerdictsAreTrue' BY <1>5 DEF Bls!VerdictsAreTrue
<1> QED BY <1>4, <1>6, <1>7

\* The idle workers are finitely many; one more has one more, one less one less.
LEMMA IdleCount ==
    ASSUME BlsConstants, BlsTypeOK
    PROVE  /\ IsFiniteSet(IdleWorkers) /\ Cardinality(IdleWorkers) \in Nat
           /\ Cardinality(IdleWorkers) = 0 <=> IdleWorkers = {}
           /\ \A w : Cardinality(IdleWorkers \cup {w}) \in Nat
                     /\ Cardinality(IdleWorkers \cup {w}) <= Cardinality(IdleWorkers) + 1
           /\ \A w \in IdleWorkers : Cardinality(IdleWorkers \ {w}) \in Nat
                     /\ Cardinality(IdleWorkers \ {w}) = Cardinality(IdleWorkers) - 1
<1>1. IsFiniteSet(IdleWorkers)
  <2>1. IdleWorkers \subseteq BlsWorkers /\ IsFiniteSet(BlsWorkers) BY DEF IdleWorkers, BlsConstants
  <2> QED BY <2>1, FS_Subset
<1> DEFINE I == IdleWorkers
<1>2. IsFiniteSet(I) BY <1>1
<1> HIDE DEF I
<1>3. Cardinality(I) \in Nat /\ (Cardinality(I) = 0 <=> I = {}) BY <1>2, FS_CardinalityType, FS_EmptySet
<1>4. ASSUME NEW w PROVE Cardinality(I \cup {w}) \in Nat /\ Cardinality(I \cup {w}) <= Cardinality(I) + 1
  <2>1. /\ IsFiniteSet(I \cup {w})
        /\ Cardinality(I \cup {w}) = (IF w \in I THEN Cardinality(I) ELSE Cardinality(I) + 1)
    BY <1>2, FS_AddElement
  <2> QED BY <1>3, <2>1
<1>5. ASSUME NEW w \in I PROVE Cardinality(I \ {w}) \in Nat /\ Cardinality(I \ {w}) = Cardinality(I) - 1
  <2>1. /\ IsFiniteSet(I \ {w})
        /\ Cardinality(I \ {w}) = (IF w \in I THEN Cardinality(I) - 1 ELSE Cardinality(I))
    BY <1>2, FS_RemoveElement
  <2>2. Cardinality(I \ {w}) \in Nat BY <2>1, FS_CardinalityType
  <2> QED BY <2>1, <2>2
<1> QED BY <1>2, <1>3, <1>4, <1>5 DEF I

\* A worker that becomes idle brings a timer.
LEMMA IdleBringsTimer ==
    ASSUME BlsConstants, BlsInv, NEW w \in BlsWorkers, waiting' = waiting, due' = due + 1,
           pool' = [pool EXCEPT ![w] = Bls!Status("idle")]
    PROVE  pool' \in [BlsWorkers -> [code : Codes, package : Seq(AllParts)]] /\ due' \in Nat /\ TimersSuffice'
<1>1. BlsTypeOK /\ TimersSuffice BY DEF BlsInv
<1>2. pool' \in [BlsWorkers -> [code : Codes, package : Seq(AllParts)]] /\ due' \in Nat
  <2>1. Bls!Status("idle") \in [code : Codes, package : Seq(AllParts)] BY DEF Bls!Status, Codes
  <2> QED BY <1>1, <2>1 DEF BlsTypeOK
<1>3. IdleWorkers' = IdleWorkers \cup {w}
  <2>1. \A x \in BlsWorkers : pool'[x].code = IF x = w THEN "idle" ELSE pool[x].code
    BY <1>1 DEF BlsTypeOK, Bls!Status
  <2> QED BY <2>1 DEF IdleWorkers
<1>4. /\ Cardinality(IdleWorkers) \in Nat /\ Cardinality(IdleWorkers') \in Nat
      /\ Cardinality(IdleWorkers') <= Cardinality(IdleWorkers) + 1
  BY <1>1, <1>3, IdleCount
<1>5. Len(waiting) \in Nat /\ due \in Nat BY <1>1 DEF BlsTypeOK
<1>6. Cardinality(IdleWorkers') <= due' \/ Len(waiting') <= due' BY <1>1, <1>4, <1>5 DEF TimersSuffice
<1> QED BY <1>2, <1>6 DEF TimersSuffice

LEMMA InitKeepsBls == ASSUME BlsConstants, Bls!Init PROVE BlsInv
<1> USE DEF Bls!Init
<1>1. BlsTypeOK
  <2>1. Bls!Status("initializing") \in [code : Codes, package : Seq(AllParts)] BY DEF Bls!Status, Codes
  <2>2. <<>> \in Seq(AllParts) OBVIOUS
  <2>3. pool \in [BlsWorkers -> [code : Codes, package : Seq(AllParts)]]
    <3> HIDE DEF Bls!Init
    <3>1. pool = [w \in BlsWorkers |-> Bls!Status("initializing")] BY DEF Bls!Init
    <3> QED BY <2>1, <3>1
  <2>4. waiting = <<>> /\ due = 0 /\ closed = FALSE /\ DOMAIN left = Calls /\ DOMAIN result = Calls OBVIOUS
  <2> HIDE DEF Bls!Init
  <2> QED BY <2>2, <2>3, <2>4 DEF BlsTypeOK
<1>2. ResultsAreExact /\ Bls!VerdictsAreTrue /\ ClosedIsEmpty
  BY DEF ResultsAreExact, Bls!VerdictsAreTrue, ClosedIsEmpty
<1>3. TimersSuffice BY DEF TimersSuffice
<1> QED BY <1>1, <1>2, <1>3 DEF BlsInv

LEMMA QueueKeepsBls ==
    ASSUME BlsConstants, BlsInv, NEW r \in Calls, Bls!QueueBlsWork(r) PROVE BlsInv'
<1>1. BlsTypeOK /\ ResultsAreExact /\ Bls!VerdictsAreTrue /\ ClosedIsEmpty /\ TimersSuffice
  BY DEF BlsInv
<1>2. /\ pool' = pool /\ closed' = closed /\ result[r] = "none" BY DEF Bls!QueueBlsWork
<1>3. IdleWorkers' = IdleWorkers BY <1>2 DEF IdleWorkers
<1>4. CASE /\ result' = [result EXCEPT ![r] = "error"]
           /\ waiting' = waiting /\ left' = left /\ due' = due
  <2>1. BlsTypeOK' BY <1>1, <1>2, <1>4 DEF BlsTypeOK
  <2>2. \A x \in Calls : result'[x] = IF x = r THEN "error" ELSE result[x] BY <1>1, <1>4 DEF BlsTypeOK
  <2>3. ResultsAreExact' BY <1>1, <1>4, <2>2 DEF ResultsAreExact
  <2>4. Bls!VerdictsAreTrue' BY <1>1, <2>2 DEF Bls!VerdictsAreTrue
  <2>5. ClosedIsEmpty' BY <1>1, <1>2, <1>4 DEF ClosedIsEmpty
  <2>6. TimersSuffice' BY <1>1, <1>3, <1>4 DEF TimersSuffice
  <2> QED BY <2>1, <2>3, <2>4, <2>5, <2>6 DEF BlsInv
<1>5. CASE /\ ~closed /\ waiting' = waiting \o Bls!JobsOf(r)
           /\ left' = [left EXCEPT ![r] = DOMAIN Bls!JobsOf(r)]
           /\ due' = due + Len(Bls!JobsOf(r)) /\ result' = [result EXCEPT ![r] = "pending"]
  <2> DEFINE J == Bls!JobsOf(r)
  <2>1. J \in Seq(AllParts) /\ DOMAIN J = Places(r) BY JobsFacts
  <2>2. waiting' = waiting \o J /\ due' = due + Len(J) /\ left' = [left EXCEPT ![r] = DOMAIN J] BY <1>5
  <2> HIDE DEF J
  <2>3. waiting \in Seq(AllParts) /\ due \in Nat BY <1>1 DEF BlsTypeOK
  <2>4. waiting' \in Seq(AllParts) /\ due' \in Nat /\ Len(waiting') = Len(waiting) + Len(J) /\ Len(J) \in Nat
        /\ Len(waiting) \in Nat
    BY <2>1, <2>2, <2>3
  <2>5. DOMAIN left' = Calls /\ DOMAIN result' = Calls BY <1>1, <1>5 DEF BlsTypeOK
  <2>6. BlsTypeOK' BY <1>1, <1>2, <2>4, <2>5 DEF BlsTypeOK
  <2>7. \A x \in Calls : result'[x] = IF x = r THEN "pending" ELSE result[x] BY <1>1, <1>5 DEF BlsTypeOK
  <2>8. \A x \in Calls : left'[x] = IF x = r THEN Places(r) ELSE left[x]
    BY <1>1, <2>1, <2>2 DEF BlsTypeOK
  <2>9. ResultsAreExact'
    <3> SUFFICES ASSUME NEW x \in Calls
                 PROVE  /\ result'[x] = "pending" => \A i \in Places(x) \ left'[x] : Says(x, i) = "true"
                        /\ result'[x] = "pendingFalse" => \E i \in Places(x) : Says(x, i) = "false"
      BY DEF ResultsAreExact
    <3>1. CASE x = r BY <2>7, <2>8, <3>1
    <3>2. CASE x # r BY <1>1, <2>7, <2>8, <3>2 DEF ResultsAreExact
    <3> QED BY <3>1, <3>2
  <2>10. Bls!VerdictsAreTrue' BY <1>1, <2>7 DEF Bls!VerdictsAreTrue
  <2>11. ClosedIsEmpty' BY <1>2, <1>5 DEF ClosedIsEmpty
  <2>12. Cardinality(IdleWorkers) \in Nat BY <1>1, IdleCount
  <2>13. Cardinality(IdleWorkers) <= due' \/ Len(waiting') <= due'
    BY <1>1, <2>2, <2>3, <2>4, <2>12 DEF TimersSuffice
  <2>14. TimersSuffice' BY <1>3, <2>13 DEF TimersSuffice
  <2> QED BY <2>6, <2>9, <2>10, <2>11, <2>14 DEF BlsInv
<1> QED BY <1>4, <1>5 DEF Bls!QueueBlsWork

LEMMA WorkerKeepsBls ==
    ASSUME BlsConstants, BlsInv, NEW w \in BlsWorkers, Bls!WorkerInitialized(w) PROVE BlsInv'
<1>1. BlsTypeOK /\ ResultsAreExact /\ Bls!VerdictsAreTrue /\ ClosedIsEmpty /\ TimersSuffice
  BY DEF BlsInv
<1>2. waiting' = waiting /\ closed' = closed /\ left' = left /\ result' = result
  BY DEF Bls!WorkerInitialized
<1>3. ResultsAreExact' BY <1>1, <1>2 DEF ResultsAreExact
<1>4. Bls!VerdictsAreTrue' BY <1>1, <1>2 DEF Bls!VerdictsAreTrue
<1>5. ClosedIsEmpty' BY <1>1, <1>2 DEF ClosedIsEmpty
<1>6. CASE pool' = [pool EXCEPT ![w] = Bls!Status("idle")] /\ due' = due + 1
  <2>1. pool' \in [BlsWorkers -> [code : Codes, package : Seq(AllParts)]] /\ due' \in Nat /\ TimersSuffice'
    BY <1>2, <1>6, IdleBringsTimer
  <2>2. BlsTypeOK' BY <1>1, <1>2, <2>1 DEF BlsTypeOK
  <2> QED BY <1>3, <1>4, <1>5, <2>1, <2>2 DEF BlsInv
<1>7. CASE pool' = [pool EXCEPT ![w] = Bls!Status("initializationError")] /\ due' = due
  <2>1. Bls!Status("initializationError") \in [code : Codes, package : Seq(AllParts)]
    BY DEF Bls!Status, Codes
  <2>2. BlsTypeOK' BY <1>1, <1>2, <1>7, <2>1 DEF BlsTypeOK
  <2>3. \A x \in BlsWorkers : pool'[x].code = IF x = w THEN "initializationError" ELSE pool[x].code
    BY <1>1, <1>7 DEF BlsTypeOK, Bls!Status
  <2>4. pool[w].code # "idle" BY DEF Bls!WorkerInitialized
  <2>5. IdleWorkers' = IdleWorkers BY <2>3, <2>4 DEF IdleWorkers
  <2>6. TimersSuffice' BY <1>1, <1>2, <1>7, <2>5 DEF TimersSuffice
  <2> QED BY <1>3, <1>4, <1>5, <2>2, <2>6 DEF BlsInv
<1> QED BY <1>6, <1>7 DEF Bls!WorkerInitialized

\* Of a set of numbers one is the least.
LEMMA LeastOf ==
    ASSUME NEW T \in SUBSET Nat, T # {}
    PROVE  \E x \in T : \A y \in T : x <= y
<1>1. PICK x \in T : \A y \in T : <<y, x>> \notin OpToRel(<, Nat)
  BY NatLessThanWellFounded, WFMin
<1>2. \A y \in T : ~(y < x) BY <1>1 DEF OpToRel
<1> QED BY <1>2

\* prepareWork takes a job, and no more than there are.
LEMMA PackageFacts ==
    ASSUME BlsTypeOK, waiting # <<>>
    PROVE  Bls!PackageLength \in 1 .. Len(waiting)
<1> DEFINE enough(n) == n = Len(waiting) \/ Bls!TotalSigs(n) >= SetsPerJob
<1>1. Len(waiting) \in 1 .. Len(waiting) BY DEF BlsTypeOK
<1>2. Bls!PackageLength = CHOOSE n \in 1 .. Len(waiting) : enough(n) /\ \A k \in 1 .. (n - 1) : ~enough(k)
  BY DEF Bls!PackageLength
<1>3. enough(Len(waiting)) OBVIOUS
<1> HIDE DEF enough
<1> DEFINE T == {n \in 1 .. Len(waiting) : enough(n)}
<1>4. T \in SUBSET Nat /\ T # {} BY <1>1, <1>3
<1> HIDE DEF T
<1>5. PICK n \in T : \A y \in T : n <= y BY <1>4, LeastOf
<1>6. n \in 1 .. Len(waiting) /\ enough(n) BY <1>5 DEF T
<1>7. \A k \in 1 .. (n - 1) : ~enough(k)
  <2> SUFFICES ASSUME NEW k \in 1 .. (n - 1), enough(k) PROVE FALSE OBVIOUS
  <2>1. Len(waiting) \in Nat BY <1>1
  <2>2. k \in 1 .. Len(waiting) /\ ~(n <= k) BY <1>6, <2>1
  <2> QED BY <1>5, <2>2 DEF T
<1>8. \E m \in 1 .. Len(waiting) : enough(m) /\ \A k \in 1 .. (m - 1) : ~enough(k) BY <1>6, <1>7
<1> QED BY <1>2, <1>8

\* A package is the front of the queue, and the rest stays.
LEMMA PackageOfJobs ==
    ASSUME NEW S, NEW s \in Seq(S), NEW n \in 1 .. Len(s)
    PROVE  /\ SubSeq(s, 1, n) \in Seq(S)
           /\ SubSeq(s, n + 1, Len(s)) \in Seq(S) /\ Len(SubSeq(s, n + 1, Len(s))) = Len(s) - n
OBVIOUS

LEMMA RunKeepsBls ==
    ASSUME BlsConstants, BlsInv, Bls!RunJob PROVE BlsInv'
<1>1. BlsTypeOK /\ ResultsAreExact /\ Bls!VerdictsAreTrue /\ ClosedIsEmpty /\ TimersSuffice
  BY DEF BlsInv
<1>2. closed' = closed /\ left' = left /\ result' = result /\ due > 0 /\ due' = due - 1
  BY DEF Bls!RunJob
<1>3. ResultsAreExact' BY <1>1, <1>2 DEF ResultsAreExact
<1>4. Bls!VerdictsAreTrue' BY <1>1, <1>2 DEF Bls!VerdictsAreTrue
<1>5. due \in Nat /\ due' \in Nat /\ waiting \in Seq(AllParts) /\ Len(waiting) \in Nat
  BY <1>1, <1>2 DEF BlsTypeOK
<1>6. Cardinality(IdleWorkers) \in Nat /\ (IdleWorkers = {} => Cardinality(IdleWorkers) = 0)
  BY <1>1, IdleCount
<1>7. CASE (closed \/ IdleWorkers = {} \/ waiting = <<>>) /\ waiting' = waiting /\ pool' = pool
  <2>1. BlsTypeOK' BY <1>1, <1>2, <1>5, <1>7 DEF BlsTypeOK
  <2>2. ClosedIsEmpty' BY <1>1, <1>2, <1>7 DEF ClosedIsEmpty
  <2>3. IdleWorkers' = IdleWorkers BY <1>7 DEF IdleWorkers
  <2>4. waiting = <<>> \/ IdleWorkers = {} BY <1>1, <1>7 DEF ClosedIsEmpty
  <2>5. Cardinality(IdleWorkers) <= due' \/ Len(waiting) <= due' BY <1>5, <1>6, <2>4
  <2>6. TimersSuffice' BY <1>7, <2>3, <2>5 DEF TimersSuffice
  <2> QED BY <1>3, <1>4, <2>1, <2>2, <2>6 DEF BlsInv
<1>8. CASE ~closed /\ IdleWorkers # {} /\ waiting # <<>>
  <2> DEFINE first == CHOOSE x \in IdleWorkers : \A y \in IdleWorkers : x <= y
  <2>1. first \in IdleWorkers
    <3>1. IdleWorkers \in SUBSET Nat BY DEF IdleWorkers, BlsConstants
    <3>2. \E x \in IdleWorkers : \A y \in IdleWorkers : x <= y BY <1>8, <3>1, LeastOf
    <3> QED BY <3>2
  <2>2. PICK n : n = Bls!PackageLength OBVIOUS
  <2>3. n \in 1 .. Len(waiting) BY <1>1, <1>8, <2>2, PackageFacts
  <2>4. /\ pool' = [pool EXCEPT ![first] = [code |-> "running", package |-> SubSeq(waiting, 1, n)]]
        /\ waiting' = SubSeq(waiting, n + 1, Len(waiting))
    BY <1>8, <2>2 DEF Bls!RunJob, IdleWorkers
  <2> HIDE DEF first
  <2>5. PICK w \in BlsWorkers : w = first /\ w \in IdleWorkers BY <2>1 DEF IdleWorkers
  <2>6. /\ SubSeq(waiting, 1, n) \in Seq(AllParts)
        /\ waiting' \in Seq(AllParts) /\ Len(waiting') = Len(waiting) - n
    BY <1>5, <2>3, <2>4, PackageOfJobs
  <2>7. PICK p \in Seq(AllParts) : p = SubSeq(waiting, 1, n) BY <2>6
  <2>8. pool' = [pool EXCEPT ![w] = [code |-> "running", package |-> p]] BY <2>4, <2>5, <2>7
  <2>9. pool' \in [BlsWorkers -> [code : Codes, package : Seq(AllParts)]]
    <3>1. [code |-> "running", package |-> p] \in [code : Codes, package : Seq(AllParts)] BY DEF Codes
    <3> QED BY <1>1, <2>8, <3>1 DEF BlsTypeOK
  <2>10. BlsTypeOK' BY <1>1, <1>2, <1>5, <2>6, <2>9 DEF BlsTypeOK
  <2>11. ClosedIsEmpty' BY <1>2, <1>8 DEF ClosedIsEmpty
  <2>12. IdleWorkers' = IdleWorkers \ {w}
    <3>1. \A x \in BlsWorkers : pool'[x].code = IF x = w THEN "running" ELSE pool[x].code
      BY <1>1, <2>8 DEF BlsTypeOK
    <3> QED BY <3>1 DEF IdleWorkers
  <2>13. Cardinality(IdleWorkers') = Cardinality(IdleWorkers) - 1 BY <1>1, <2>5, <2>12, IdleCount
  <2>14. Cardinality(IdleWorkers') <= due' \/ Len(waiting') <= due'
    BY <1>1, <1>2, <1>5, <1>6, <2>3, <2>6, <2>13 DEF TimersSuffice
  <2>15. TimersSuffice' BY <2>14 DEF TimersSuffice
  <2> QED BY <1>3, <1>4, <2>10, <2>11, <2>15 DEF BlsInv
<1> QED BY <1>7, <1>8 DEF Bls!RunJob, IdleWorkers

LEMMA EndKeepsBls ==
    ASSUME BlsConstants, BlsInv, NEW w \in BlsWorkers, NEW ok \in BOOLEAN, Bls!RunJobEnd(w, ok) PROVE BlsInv'
<1>1. BlsTypeOK /\ ClosedIsEmpty BY DEF BlsInv
<1>2. /\ waiting' = waiting /\ closed' = closed /\ due' = due + 1
      /\ pool' = [pool EXCEPT ![w] = Bls!Status("idle")]
  BY DEF Bls!RunJobEnd
<1>3. PICK p \in Seq(AllParts) : p = pool[w].package BY <1>1 DEF BlsTypeOK
<1> DEFINE verdict == [job \in Bls!ToSet(p) |->
                         IF ok THEN Bls!VerifySignatureSetsMaybeBatch(job.sets) ELSE "error"]
<1>4. Bls!Settle(p, verdict) BY <1>3 DEF Bls!RunJobEnd
<1>5. ASSUME NEW r \in Calls, NEW i \in Places(r), Part(r, i) \in Bls!ToSet(p)
      PROVE  verdict[Part(r, i)] \in {Says(r, i), "error"}
  <2>1. Part(r, i).sets = Parts(r)[i] BY DEF Part
  <2> QED BY <1>5, <2>1 DEF Says
<1> HIDE DEF verdict
<1>6. DOMAIN left' = Calls /\ DOMAIN result' = Calls /\ ResultsAreExact' /\ Bls!VerdictsAreTrue'
  BY <1>4, <1>5, SettleKeeps
<1>7. pool' \in [BlsWorkers -> [code : Codes, package : Seq(AllParts)]] /\ due' \in Nat /\ TimersSuffice'
  BY <1>2, IdleBringsTimer
<1>8. BlsTypeOK' BY <1>1, <1>2, <1>6, <1>7 DEF BlsTypeOK
<1>9. ClosedIsEmpty' BY <1>1, <1>2 DEF ClosedIsEmpty
<1> QED BY <1>6, <1>7, <1>8, <1>9 DEF BlsInv

LEMMA AbortKeepsBls ==
    ASSUME BlsConstants, BlsInv, Bls!Abort PROVE BlsInv'
<1>1. BlsTypeOK BY DEF BlsInv
<1>2. waiting' = <<>> /\ closed' = TRUE /\ due' = due /\ pool' = pool BY DEF Bls!Abort
<1> DEFINE verdict == [job \in Bls!ToSet(waiting) |-> "error"]
<1>3. Bls!Settle(waiting, verdict) BY DEF Bls!Abort
<1>4. \A r \in Calls : \A i \in Places(r) :
          Part(r, i) \in Bls!ToSet(waiting) => verdict[Part(r, i)] \in {Says(r, i), "error"}
  OBVIOUS
<1>5. waiting \in Seq(AllParts) /\ due \in Nat BY <1>1 DEF BlsTypeOK
<1> HIDE DEF verdict
<1>6. DOMAIN left' = Calls /\ DOMAIN result' = Calls /\ ResultsAreExact' /\ Bls!VerdictsAreTrue'
  BY <1>3, <1>4, <1>5, SettleKeeps
<1>7. waiting' \in Seq(AllParts) /\ Len(waiting') = 0 BY <1>2
<1>8. BlsTypeOK' BY <1>1, <1>2, <1>6, <1>7 DEF BlsTypeOK
<1>9. ClosedIsEmpty' BY <1>2 DEF ClosedIsEmpty
<1>10. TimersSuffice' BY <1>2, <1>5, <1>7 DEF TimersSuffice
<1> QED BY <1>6, <1>8, <1>9, <1>10 DEF BlsInv

\* The invariant of the pool keeps work from being forgotten.
LEMMA BlsInvSuffices ==
    ASSUME BlsConstants, BlsInv PROVE Bls!VerdictsAreTrue /\ Bls!NoWorkForgotten
<1>1. Bls!VerdictsAreTrue BY DEF BlsInv
<1>2. Bls!NoWorkForgotten
  <2> SUFFICES ASSUME due = 0, NEW w \in BlsWorkers, pool[w].code = "idle" PROVE waiting = <<>>
    BY DEF Bls!NoWorkForgotten
  <2>1. BlsTypeOK /\ TimersSuffice BY DEF BlsInv
  <2>2. IdleWorkers # {} BY DEF IdleWorkers
  <2>3. Cardinality(IdleWorkers) \in Nat /\ Cardinality(IdleWorkers) # 0 BY <2>1, <2>2, IdleCount
  <2>4. waiting \in Seq(AllParts) /\ Len(waiting) \in Nat BY <2>1 DEF BlsTypeOK
  <2>5. Len(waiting) = 0 BY <2>1, <2>3, <2>4 DEF TimersSuffice
  <2> QED BY <2>4, <2>5
<1> QED BY <1>1, <1>2

\* For any calls of verifySignatureSets, any workers and any size of a job: a call resolves to
\* what its signature sets say, and no work waits beside an idle worker.
THEOREM BlsStaysTrue == ASSUME BlsConstants PROVE MCSpec => []BlsVerdictsAreTrue
<1> DEFINE Inv == part = "bls" => BlsInv
<1>1. MCInit => Inv
  <2> SUFFICES ASSUME MCInit, part = "bls" PROVE BlsInv OBVIOUS
  <2>1. Bls!Init BY DEF MCInit
  <2> QED BY <2>1, InitKeepsBls
<1>2. Inv /\ [MCNext]_allVars => Inv'
  <2> SUFFICES ASSUME Inv, [MCNext]_allVars, part' = "bls" PROVE BlsInv' OBVIOUS
  <2>1. part = "bls" /\ BlsInv BY DEF MCNext, allVars
  <2>2. ASSUME Bls!Next PROVE BlsInv'
    <3>1. ASSUME NEW r \in Calls, Bls!QueueBlsWork(r) PROVE BlsInv' BY <2>1, <3>1, QueueKeepsBls
    <3>2. ASSUME NEW w \in BlsWorkers, Bls!WorkerInitialized(w) PROVE BlsInv'
      BY <2>1, <3>2, WorkerKeepsBls
    <3>3. ASSUME Bls!RunJob PROVE BlsInv' BY <2>1, <3>3, RunKeepsBls
    <3>4. ASSUME NEW w \in BlsWorkers, NEW ok \in BOOLEAN, Bls!RunJobEnd(w, ok) PROVE BlsInv'
      BY <2>1, <3>4, EndKeepsBls
    <3>5. ASSUME Bls!Abort PROVE BlsInv' BY <2>1, <3>5, AbortKeepsBls
    <3> QED BY <2>2, <3>1, <3>2, <3>3, <3>4, <3>5 DEF Bls!Next
  <2>3. ASSUME UNCHANGED allVars PROVE BlsInv'
    <3>1. UNCHANGED <<r1, r2, r3, r4, r5, r6>> BY <2>3 DEF allVars, registers
    <3>2. BlsTypeOK' BY <2>1, <3>1 DEF BlsInv, BlsTypeOK
    <3>3. ResultsAreExact' BY <2>1, <3>1 DEF BlsInv, ResultsAreExact
    <3>4. Bls!VerdictsAreTrue' BY <2>1, <3>1 DEF BlsInv, Bls!VerdictsAreTrue
    <3>5. ClosedIsEmpty' BY <2>1, <3>1 DEF BlsInv, ClosedIsEmpty
    <3>6. IdleWorkers' = IdleWorkers BY <3>1 DEF IdleWorkers
    <3>7. TimersSuffice' BY <2>1, <3>1, <3>6 DEF BlsInv, TimersSuffice
    <3> QED BY <3>2, <3>3, <3>4, <3>5, <3>7 DEF BlsInv
  <2> QED BY <2>1, <2>2, <2>3 DEF MCNext
<1>3. Inv => BlsVerdictsAreTrue BY BlsInvSuffices DEF BlsVerdictsAreTrue
<1> QED BY <1>1, <1>2, <1>3, PTL DEF MCSpec

-----------------------------------------------------------------------------
(* Req/resp: an honest answer is accepted. *)

\* A request q for blocks, its limit and its end.
ForBlocks(q) == q.method \notin RR!SingleResponse
Ranged(q) == q.method = "beacon_blocks_by_range"
Valid(q) == q.step >= 1 /\ q.count >= 1
Limit(q) ==
    CASE Ranged(q) -> q.count
      [] q.method = "beacon_blocks_by_root" -> Cardinality(q.roots)
      [] OTHER -> 1
Upper(q) == q.start + ((IF q.count > MaxRequestBlocks THEN MaxRequestBlocks ELSE q.count) * q.step)

\* A block that the request asks for, and the order that a range asks for.
Due(q, s) ==
    /\ s \in ChainSlots
    /\ Ranged(q) => Valid(q) /\ s >= q.start /\ s < Upper(q) /\ (s - q.start) % q.step = 0
    /\ q.method = "beacon_blocks_by_root" => s \in q.roots
After(q, s, t) == Ranged(q) => s + q.step <= t

\* How many pieces of the next chunk have been read, and the places of the payloads.
PiecesRead(next) == IF next = "result" THEN 0 ELSE IF next = "context" THEN 1 ELSE 2
Payload(next, j) == (j + PiecesRead(next)) % 3 = 0

Pieces == [status : {"SUCCESS", "INVALID_REQUEST", "SERVER_ERROR", "RESOURCE_UNAVAILABLE"}, slot : Nat]
DbFields == {"archive", "index", "hot", "forkChoice", "moving"}

\* The blocks read: due, in order, and as long as the requester reads fewer than it may get.
InOrder(q, got) ==
    /\ got \in Seq(ChainSlots)
    /\ \A i \in 1..Len(got) : Due(q, got[i])
    /\ \A i \in 1..(Len(got) - 1) : After(q, got[i], got[i + 1])

\* Block s comes after every one read and under way.
Follows(q, next, got, wire, s) ==
    /\ \A j \in 1..Len(wire) : Payload(next, j) => After(q, wire[j].slot, s)
    /\ Len(got) > 0 => After(q, got[Len(got)], s)

\* The three pieces of block s have been written behind the others.
Longer(wire, s, w) ==
    /\ w \in Seq(Pieces) /\ Len(w) = Len(wire) + 3
    /\ \A j \in 1..Len(wire) : w[j] = wire[j]
    /\ \A j \in (Len(wire) + 1)..(Len(wire) + 3) : w[j] = [status |-> "SUCCESS", slot |-> s]

\* The pieces under way are those of blocks that are due, in order, after the ones read.
OnTheWire(q, next, got, wire) ==
    /\ \A j \in 1..Len(wire) : wire[j].status = "SUCCESS" /\ Due(q, wire[j].slot)
    /\ \A i, j \in 1..Len(wire) :
          i < j /\ Payload(next, i) /\ Payload(next, j) => After(q, wire[i].slot, wire[j].slot)
    /\ Len(got) > 0 => \A j \in 1..Len(wire) : Payload(next, j) => After(q, got[Len(got)], wire[j].slot)

\* What the responder has still to look up or to send comes after what it has sent.
StillToSend(q, next, got, server, wire) ==
    /\ server.phase # "done" => (Len(wire) + PiecesRead(next)) % 3 = 0
    /\ server.phase \in {"archive", "recent", "blocks"} =>
          /\ Ranged(q) /\ Valid(q)
          /\ \A s \in server.todo : Due(q, s) /\ Follows(q, next, got, wire, s)
          /\ server.last = 0 => wire = <<>> /\ Len(got) = 0
          /\ server.last # 0 => /\ Due(q, server.last)
                               /\ \A s \in Nat : server.last + q.step <= s => Follows(q, next, got, wire, s)
    /\ server.phase = "roots" => q.method = "beacon_blocks_by_root" /\ server.todo \subseteq q.roots

\* The only piece is an error, and it is read as such.
OnlyError(next, server, wire) ==
    Len(wire) = 1 /\ wire[1].status # "SUCCESS" /\ next = "result" /\ server.phase = "done"

\* While the requester reads.
Reading(q, next, got, server, wire) ==
    /\ InOrder(q, got)
    /\ Len(got) < Limit(q) \/ Limit(q) = 0
    /\ OnTheWire(q, next, got, wire) \/ OnlyError(next, server, wire)
    /\ StillToSend(q, next, got, server, wire)

BlocksInv ==
    /\ r2.got \in Seq(ChainSlots) /\ Len(r2.got) <= Limit(r1)
    /\ r3.phase \in {"idle", "decode"} => r4 = <<>> /\ r2.next = "result" /\ r2.got = <<>> /\ r3.last = 0
    /\ r2.phase \in {"dial", "write"} => r3.phase = "idle"
    /\ r2.phase # "done" => Reading(r1, r2.next, r2.got, r3, r4)

BaseInv ==
    /\ r1 \in Asked
    /\ DOMAIN r2 = {"phase", "next", "firstByte", "got", "result", "penalty"}
    /\ r2.phase \in {"dial", "write", "read", "done"} /\ r2.next \in {"result", "context", "payload"}
    /\ DOMAIN r3 = {"phase", "todo", "last"} /\ r3.todo \subseteq Nat /\ r3.last \in Nat
    /\ r4 \in Seq(Pieces)
    /\ DOMAIN r7 = DbFields \cup {"pending"} /\ \A f \in DbFields : r7[f] \subseteq ChainSlots
    /\ r2.result # "BLOCKS_BY_RANGE_ERROR"

RRInv == BaseInv /\ (ForBlocks(r1) => BlocksInv)

RRTyped == part = "reqresp" => RRInv

\* Two different slots of the same stride are a step apart.
LEMMA StridesApart ==
    ASSUME NEW step \in Nat \ {0}, NEW x \in Nat, NEW y \in Nat, x % step = 0, y % step = 0, x < y
    PROVE  x + step <= y
<1>1. x = step * (x \div step) /\ y = step * (y \div step) /\ x \div step \in Nat /\ y \div step \in Nat
  BY DivisionFacts
<1> DEFINE a == x \div step
           b == y \div step
<1>2. a \in Nat /\ b \in Nat /\ x = step * a /\ y = step * b BY <1>1
<1> HIDE DEF a, b
<1>3. a < b
  <2>1. SUFFICES ASSUME b <= a PROVE FALSE BY <1>2
  <2>2. step * b <= step * a BY <1>2, <2>1
  <2> QED BY <1>2, <2>2
<1>4. step * (a + 1) <= step * b BY <1>2, <1>3
<1>5. step * (a + 1) = step * a + step BY <1>2
<1> QED BY <1>2, <1>4, <1>5

\* What a request is.
LEMMA RequestFacts ==
    ASSUME NEW q \in Asked
    PROVE  /\ q.start \in Nat /\ q.count \in Nat /\ q.step \in Nat /\ Limit(q) \in Nat
           /\ Upper(q) \in Nat /\ Upper(q) <= q.start + (q.count * q.step)
           /\ \A s : ForBlocks(q) /\ Due(q, s) => Limit(q) > 0 /\ s \in Nat \ {0}
<1>1. /\ ChainSlots \subseteq Nat \ {0} /\ MaxRequestBlocks \in Nat
      /\ q.start \in Nat /\ q.count \in Nat /\ q.step \in Nat /\ q.roots \subseteq Nat /\ IsFiniteSet(q.roots)
  BY RequestsAssumption
<1>2. Cardinality(q.roots) \in Nat BY <1>1, FS_CardinalityType
<1>3. Limit(q) \in Nat BY <1>1, <1>2 DEF Limit
<1>4. Upper(q) \in Nat /\ Upper(q) <= q.start + (q.count * q.step)
  <2> DEFINE n == IF q.count > MaxRequestBlocks THEN MaxRequestBlocks ELSE q.count
  <2>1. n \in Nat /\ n <= q.count BY <1>1
  <2>2. Upper(q) = q.start + (n * q.step) BY DEF Upper
  <2> HIDE DEF n
  <2>3. n * q.step \in Nat /\ n * q.step <= q.count * q.step BY <1>1, <2>1
  <2>4. q.count * q.step \in Nat BY <1>1
  <2> QED BY <1>1, <2>2, <2>3, <2>4
<1>5. ASSUME NEW s, Due(q, s) PROVE Limit(q) > 0 /\ s \in Nat \ {0}
  <2>1. s \in Nat \ {0} BY <1>1, <1>5 DEF Due
  <2>2. CASE Ranged(q)
    <3>1. Limit(q) = q.count BY <2>2 DEF Limit, Ranged
    <3> QED BY <1>1, <1>5, <2>1, <2>2, <3>1 DEF Due, Valid
  <2>3. CASE ~Ranged(q) /\ q.method = "beacon_blocks_by_root"
    <3>1. Limit(q) = Cardinality(q.roots) BY <2>3 DEF Limit
    <3>2. s \in q.roots BY <1>5, <2>3 DEF Due
    <3>3. Cardinality(q.roots) # 0 BY <1>1, <3>2, FS_EmptySet
    <3> QED BY <1>2, <2>1, <3>1, <3>3
  <2>4. CASE ~Ranged(q) /\ q.method # "beacon_blocks_by_root"
    <3>1. Limit(q) = 1 BY <2>4 DEF Limit
    <3> QED BY <2>1, <3>1
  <2> QED BY <2>2, <2>3, <2>4
<1> QED BY <1>1, <1>3, <1>4, <1>5

\* Of two slots that are due, the later one is a step later.
LEMMA DueApart ==
    ASSUME NEW q \in Asked, NEW s, NEW t, Due(q, s), Due(q, t), s < t
    PROVE  After(q, s, t)
<1> SUFFICES ASSUME Ranged(q) PROVE s + q.step <= t BY DEF After
<1>1. q.start \in Nat /\ q.step \in Nat \ {0} /\ s \in Nat /\ t \in Nat
  BY RequestFacts, RequestsAssumption DEF Due, Valid
<1>2. s - q.start \in Nat /\ t - q.start \in Nat /\ (s - q.start) % q.step = 0 /\ (t - q.start) % q.step = 0
  BY <1>1 DEF Due
<1>3. s - q.start < t - q.start BY <1>1
<1>4. (s - q.start) + q.step <= t - q.start BY <1>1, <1>2, <1>3, StridesApart
<1> QED BY <1>1, <1>4

\* Counting in threes.
LEMMA Threes == \A m \in Nat : m % 3 = 0 => (m + 1) % 3 = 1 /\ (m + 2) % 3 = 2 /\ (m + 3) % 3 = 0
OBVIOUS

\* The blocks of a chunk of three pieces.
LEMMA ChunkWritten ==
    ASSUME NEW wire \in Seq(Pieces), NEW s \in Nat, ForBlocks(r1)
    PROVE  Longer(wire, s, wire \o RR!Chunk(s))
<1>0. PICK w : w = wire \o RR!Chunk(s) OBVIOUS
<1> DEFINE p == [status |-> "SUCCESS", slot |-> s]
           one == <<p>>
           two == one \o one
           c == two \o one
<1>1. p \in Pieces BY DEF Pieces
<1>2. RR!Piece("SUCCESS", s) = p BY DEF RR!Piece
<1>3. RR!Chunk(s) = c BY <1>2 DEF RR!Chunk, RR!HasContextBytes, ForBlocks
<1> HIDE DEF p
<1>4. one \in Seq(Pieces) /\ Len(one) = 1 /\ one[1] = p BY <1>1
<1> HIDE DEF one
<1>5. two \in Seq(Pieces) /\ Len(two) = 2 /\ \A j \in 1..2 : two[j] = p
  <2>1. /\ two \in Seq(Pieces) /\ Len(two) = Len(one) + Len(one)
        /\ \A j \in 1..(Len(one) + Len(one)) : two[j] = IF j <= Len(one) THEN one[j] ELSE one[j - Len(one)]
    BY <1>4, ConcatProperties
  <2> HIDE DEF two
  <2>2. \A j \in 1..2 : j = 1 \/ j = 2 OBVIOUS
  <2> QED BY <1>4, <2>1, <2>2
<1> HIDE DEF two
<1>6. c \in Seq(Pieces) /\ Len(c) = 3 /\ \A j \in 1..3 : c[j] = p
  <2>1. /\ c \in Seq(Pieces) /\ Len(c) = Len(two) + Len(one)
        /\ \A j \in 1..(Len(two) + Len(one)) : c[j] = IF j <= Len(two) THEN two[j] ELSE one[j - Len(two)]
    BY <1>4, <1>5, ConcatProperties
  <2> HIDE DEF c
  <2>2. \A j \in 1..3 : j = 1 \/ j = 2 \/ j = 3 OBVIOUS
  <2> QED BY <1>4, <1>5, <2>1, <2>2
<1> HIDE DEF c
<1>7. /\ w \in Seq(Pieces) /\ Len(w) = Len(wire) + Len(c)
      /\ \A j \in 1..(Len(wire) + Len(c)) : w[j] = IF j <= Len(wire) THEN wire[j] ELSE c[j - Len(wire)]
  <2>1. w = wire \o c BY <1>0, <1>3
  <2>2. /\ wire \o c \in Seq(Pieces) /\ Len(wire \o c) = Len(wire) + Len(c)
        /\ \A j \in 1..(Len(wire) + Len(c)) : (wire \o c)[j] = IF j <= Len(wire) THEN wire[j] ELSE c[j - Len(wire)]
    BY <1>6, ConcatProperties
  <2> QED BY <2>1, <2>2, Zenon
<1>8. Len(wire) \in Nat OBVIOUS
<1>9. ASSUME NEW j \in (Len(wire) + 1)..(Len(wire) + 3) PROVE w[j] = p
  <2>1. j \in 1..(Len(wire) + Len(c)) /\ ~(j <= Len(wire)) /\ j - Len(wire) \in 1..3 BY <1>6, <1>8
  <2> QED BY <1>6, <1>7, <2>1
<1>10. ASSUME NEW j \in 1..Len(wire) PROVE w[j] = wire[j]
  <2>1. j \in 1..(Len(wire) + Len(c)) /\ j <= Len(wire) BY <1>6, <1>8
  <2> QED BY <1>7, <2>1
<1>11. Longer(wire, s, w) BY <1>6, <1>7, <1>9, <1>10 DEF p, Longer
<1> QED BY <1>0, <1>11

\* The three places behind the n-th.
LEMMA ThreePlaces == \A n \in Nat : \A j \in (n + 1)..(n + 3) : j = n + 1 \/ j = n + 2 \/ j = n + 3
OBVIOUS

\* A block is written behind the others.
LEMMA WriteKeepsReading ==
    ASSUME NEW q \in Asked, NEW next \in {"result", "context", "payload"}, NEW got, NEW wire \in Seq(Pieces),
           NEW s, Due(q, s), OnTheWire(q, next, got, wire), Follows(q, next, got, wire, s),
           (Len(wire) + PiecesRead(next)) % 3 = 0,
           NEW w, Longer(wire, s, w)
    PROVE  /\ OnTheWire(q, next, got, w)
           /\ (Len(w) + PiecesRead(next)) % 3 = 0
           /\ \A t : Follows(q, next, got, wire, t) /\ After(q, s, t) => Follows(q, next, got, w, t)
<1>0. /\ w \in Seq(Pieces) /\ Len(w) = Len(wire) + 3 /\ \A j \in 1..Len(wire) : w[j] = wire[j]
      /\ \A j \in (Len(wire) + 1)..(Len(wire) + 3) : w[j] = [status |-> "SUCCESS", slot |-> s]
  BY DEF Longer
<1>1. Len(wire) \in Nat /\ Len(w) \in Nat /\ PiecesRead(next) \in {0, 1, 2} BY <1>0 DEF PiecesRead
<1>2. \A j \in 1..Len(w) : j \in 1..Len(wire) \/ j \in (Len(wire) + 1)..(Len(wire) + 3) BY <1>0, <1>1
<1>3. \A j \in (Len(wire) + 1)..(Len(wire) + 3) : w[j].status = "SUCCESS" /\ w[j].slot = s BY <1>0
<1>4. \A j \in 1..Len(w) : w[j].status = "SUCCESS" /\ Due(q, w[j].slot)
  BY <1>0, <1>2, <1>3 DEF OnTheWire
<1>5. \A j \in (Len(wire) + 1)..(Len(wire) + 3) : Payload(next, j) => j = Len(wire) + 3
  <2> TAKE j \in (Len(wire) + 1)..(Len(wire) + 3)
  <2> DEFINE m == Len(wire) + PiecesRead(next)
  <2>1. m \in Nat /\ m % 3 = 0 BY <1>1
  <2>2. (m + 1) % 3 = 1 /\ (m + 2) % 3 = 2 BY <2>1, Threes
  <2>3. CASE j = Len(wire) + 1
    <3>1. j + PiecesRead(next) = m + 1 BY <1>1, <2>3
    <3> QED BY <2>2, <3>1 DEF Payload
  <2>4. CASE j = Len(wire) + 2
    <3>1. j + PiecesRead(next) = m + 2 BY <1>1, <2>4
    <3> QED BY <2>2, <3>1 DEF Payload
  <2>5. j = Len(wire) + 1 \/ j = Len(wire) + 2 \/ j = Len(wire) + 3 BY <1>1, ThreePlaces
  <2> QED BY <2>3, <2>4, <2>5
<1>6. \A j \in 1..Len(w) : Payload(next, j) =>
          (j \in 1..Len(wire) /\ w[j] = wire[j]) \/ (j = Len(wire) + 3 /\ w[j].slot = s)
  BY <1>0, <1>2, <1>3, <1>5
<1>7. ASSUME NEW i \in 1..Len(w), NEW j \in 1..Len(w), i < j, Payload(next, i), Payload(next, j)
      PROVE  After(q, w[i].slot, w[j].slot)
  <2>1. CASE i \in 1..Len(wire) /\ w[i] = wire[i] /\ j \in 1..Len(wire) /\ w[j] = wire[j]
    BY <1>7, <2>1 DEF OnTheWire
  <2>2. CASE i \in 1..Len(wire) /\ w[i] = wire[i] /\ w[j].slot = s
    BY <1>7, <2>2 DEF Follows
  <2>3. i # Len(wire) + 3 BY <1>0, <1>1, <1>7
  <2> QED BY <1>6, <1>7, <2>1, <2>2, <2>3
<1>8. Len(got) > 0 => \A j \in 1..Len(w) : Payload(next, j) => After(q, got[Len(got)], w[j].slot)
  BY <1>6 DEF OnTheWire, Follows
<1>9. OnTheWire(q, next, got, w) BY <1>4, <1>7, <1>8 DEF OnTheWire
<1>10. ASSUME NEW t, Follows(q, next, got, wire, t), After(q, s, t) PROVE Follows(q, next, got, w, t)
  BY <1>6, <1>10 DEF Follows
<1>11. (Len(w) + PiecesRead(next)) % 3 = 0
  <2>1. Len(wire) + PiecesRead(next) \in Nat BY <1>1
  <2>2. ((Len(wire) + PiecesRead(next)) + 3) % 3 = 0 BY <2>1, Threes
  <2>3. Len(w) + PiecesRead(next) = (Len(wire) + PiecesRead(next)) + 3 BY <1>0, <1>1
  <2> QED BY <2>2, <2>3
<1> QED BY <1>9, <1>10, <1>11

\* A piece is read that is not the last of its chunk.
LEMMA ReadKeepsReading ==
    ASSUME NEW q \in Asked, NEW got, NEW wire \in Seq(Pieces), wire # <<>>, NEW server,
           NEW next \in {"result", "context"}, NEW then,
           then = IF next = "result" THEN "context" ELSE "payload",
           Reading(q, next, got, server, wire), OnTheWire(q, next, got, wire)
    PROVE  Reading(q, then, got, server, Tail(wire))
<1> DEFINE w == Tail(wire)
<1>1. /\ w \in Seq(Pieces) /\ Len(wire) \in Nat /\ Len(w) = Len(wire) - 1 /\ Len(w) \in Nat
      /\ \A j \in 1..Len(w) : w[j] = wire[j + 1] /\ j + 1 \in 1..Len(wire)
  OBVIOUS
<1>2. PiecesRead(then) = PiecesRead(next) + 1 /\ PiecesRead(next) \in {0, 1} BY DEF PiecesRead
<1>3. \A j \in 1..Len(w) : Payload(then, j) <=> Payload(next, j + 1)
  BY <1>1, <1>2 DEF Payload
<1> HIDE DEF w
<1>4. OnTheWire(q, then, got, w)
  <2>1. \A j \in 1..Len(w) : w[j].status = "SUCCESS" /\ Due(q, w[j].slot) BY <1>1 DEF OnTheWire
  <2>2. ASSUME NEW i \in 1..Len(w), NEW j \in 1..Len(w), i < j, Payload(then, i), Payload(then, j)
        PROVE  After(q, w[i].slot, w[j].slot)
    <3>1. i + 1 \in 1..Len(wire) /\ j + 1 \in 1..Len(wire) /\ i + 1 < j + 1 BY <1>1, <2>2
    <3>2. Payload(next, i + 1) /\ Payload(next, j + 1) BY <1>3, <2>2
    <3>3. After(q, wire[i + 1].slot, wire[j + 1].slot) BY <3>1, <3>2 DEF OnTheWire
    <3> QED BY <1>1, <3>3
  <2>3. Len(got) > 0 => \A j \in 1..Len(w) : Payload(then, j) => After(q, got[Len(got)], w[j].slot)
    BY <1>1, <1>3 DEF OnTheWire
  <2> QED BY <2>1, <2>2, <2>3 DEF OnTheWire
<1>5. \A t : Follows(q, next, got, wire, t) => Follows(q, then, got, w, t)
  BY <1>1, <1>3 DEF Follows
<1>6. StillToSend(q, then, got, server, w)
  <2>1. server.phase # "done" => (Len(w) + PiecesRead(then)) % 3 = 0
    BY <1>1, <1>2 DEF Reading, StillToSend
  <2>2. server.phase \in {"archive", "recent", "blocks"} => server.last # 0
    BY DEF Reading, StillToSend
  <2> QED BY <1>5, <2>1, <2>2 DEF Reading, StillToSend
<1> QED BY <1>4, <1>6 DEF Reading, w

\* The payload of a block is read.
LEMMA BlockRead ==
    ASSUME NEW q \in Asked, ForBlocks(q), NEW got, NEW wire \in Seq(Pieces), wire # <<>>, NEW server, server.last \in Nat,
           Reading(q, "payload", got, server, wire), NEW blocks, blocks = Append(got, wire[1].slot)
    PROVE  /\ InOrder(q, blocks) /\ Len(blocks) <= Limit(q) /\ blocks \in Seq(ChainSlots)
           /\ Len(blocks) < Limit(q) => Reading(q, "result", blocks, server, Tail(wire))
<1> DEFINE w == Tail(wire)
           s == wire[1].slot
<1>1. /\ w \in Seq(Pieces) /\ Len(wire) \in Nat /\ Len(w) = Len(wire) - 1 /\ Len(w) \in Nat /\ 1 \in 1..Len(wire)
      /\ \A j \in 1..Len(w) : w[j] = wire[j + 1] /\ j + 1 \in 1..Len(wire) /\ 1 < j + 1
  OBVIOUS
<1>2. InOrder(q, got) /\ OnTheWire(q, "payload", got, wire) BY DEF Reading, OnlyError
<1>3. Payload("payload", 1) /\ \A j \in 1..Len(w) : Payload("result", j) <=> Payload("payload", j + 1)
  BY <1>1 DEF Payload, PiecesRead
<1>4. Due(q, s) /\ s \in ChainSlots BY <1>1, <1>2 DEF OnTheWire, Due
<1>5. got \in Seq(ChainSlots) /\ Len(got) \in Nat BY <1>2 DEF InOrder
<1>6. Limit(q) \in Nat /\ Len(got) < Limit(q) BY <1>4, <1>5, RequestFacts DEF Reading
<1>7. Len(got) > 0 => After(q, got[Len(got)], s) BY <1>1, <1>2, <1>3 DEF OnTheWire
<1>8. \A j \in 1..Len(w) : Payload("result", j) => After(q, s, w[j].slot)
  BY <1>1, <1>2, <1>3 DEF OnTheWire
<1> HIDE DEF w, s
<1>9. /\ blocks \in Seq(ChainSlots) /\ Len(blocks) = Len(got) + 1 /\ blocks[Len(got) + 1] = s
      /\ \A i \in 1..Len(got) : blocks[i] = got[i]
  <2>1. blocks = Append(got, s) BY DEF s
  <2> QED BY <1>4, <1>5, <2>1
<1>10. InOrder(q, blocks)
  <2>1. \A i \in 1..Len(blocks) : Due(q, blocks[i])
    <3> TAKE i \in 1..Len(blocks)
    <3>1. i = Len(got) + 1 \/ i \in 1..Len(got) BY <1>5, <1>9
    <3> QED BY <1>2, <1>4, <1>9, <3>1 DEF InOrder
  <2>2. \A i \in 1..(Len(blocks) - 1) : After(q, blocks[i], blocks[i + 1])
    <3> TAKE i \in 1..(Len(blocks) - 1)
    <3>1. i \in 1..Len(got) BY <1>5, <1>9
    <3>2. CASE i = Len(got) BY <1>5, <1>7, <1>9, <3>1, <3>2
    <3>3. CASE i # Len(got)
      <4>1. i \in 1..(Len(got) - 1) /\ i + 1 \in 1..Len(got) BY <1>5, <3>1, <3>3
      <4> QED BY <1>2, <1>9, <3>1, <4>1 DEF InOrder
    <3> QED BY <3>2, <3>3
  <2> QED BY <1>9, <2>1, <2>2 DEF InOrder
<1>11. OnTheWire(q, "result", blocks, w)
  <2>1. \A j \in 1..Len(w) : w[j].status = "SUCCESS" /\ Due(q, w[j].slot) BY <1>1, <1>2 DEF OnTheWire
  <2>2. ASSUME NEW i \in 1..Len(w), NEW j \in 1..Len(w), i < j, Payload("result", i), Payload("result", j)
        PROVE  After(q, w[i].slot, w[j].slot)
    <3>1. i + 1 \in 1..Len(wire) /\ j + 1 \in 1..Len(wire) /\ i + 1 < j + 1 BY <1>1, <2>2
    <3>2. Payload("payload", i + 1) /\ Payload("payload", j + 1) BY <1>3, <2>2
    <3>3. After(q, wire[i + 1].slot, wire[j + 1].slot) BY <1>2, <3>1, <3>2 DEF OnTheWire
    <3> QED BY <1>1, <3>3
  <2>3. \A j \in 1..Len(w) : Payload("result", j) => After(q, blocks[Len(blocks)], w[j].slot)
    BY <1>8, <1>9
  <2> QED BY <2>1, <2>2, <2>3 DEF OnTheWire
<1>12. \A t : Follows(q, "payload", got, wire, t) => Follows(q, "result", blocks, w, t)
  <2> SUFFICES ASSUME NEW t, Follows(q, "payload", got, wire, t) PROVE Follows(q, "result", blocks, w, t) OBVIOUS
  <2>1. After(q, s, t) BY <1>1, <1>3 DEF Follows, s
  <2>2. \A j \in 1..Len(w) : Payload("result", j) => After(q, w[j].slot, t) BY <1>1, <1>3 DEF Follows
  <2> QED BY <1>9, <2>1, <2>2 DEF Follows
<1>13. StillToSend(q, "result", blocks, server, w)
  <2>0. StillToSend(q, "payload", got, server, wire) BY DEF Reading
  <2>1. server.phase # "done" => (Len(w) + PiecesRead("result")) % 3 = 0
    BY <1>1, <2>0 DEF StillToSend, PiecesRead
  <2>2. server.phase \in {"archive", "recent", "blocks"} => server.last # 0 BY <2>0 DEF StillToSend
  <2> QED BY <1>12, <2>0, <2>1, <2>2 DEF StillToSend
<1> QED BY <1>5, <1>6, <1>9, <1>10, <1>11, <1>13 DEF Reading, w

\* What has been read passes the requester's own check.
LEMMA InOrderIsAccepted ==
    ASSUME r1 \in Asked, NEW blocks, InOrder(r1, blocks), Len(blocks) <= Limit(r1), Ranged(r1)
    PROVE  RR!AssertSequentialBlocksInRange(blocks)
<1> DEFINE n == Len(blocks)
<1>1. blocks \in Seq(ChainSlots) /\ n \in Nat BY DEF InOrder
<1>2. Limit(r1) = r1.count BY DEF Limit, Ranged
<1>3. /\ r1.start \in Nat /\ r1.count \in Nat /\ r1.step \in Nat /\ r1.count * r1.step \in Nat
      /\ Upper(r1) \in Nat /\ Upper(r1) <= r1.start + (r1.count * r1.step)
  BY RequestFacts
<1>4. \A i \in 1..n : blocks[i] \in Nat /\ blocks[i] >= r1.start /\ blocks[i] < Upper(r1)
  BY <1>1, RequestsAssumption DEF InOrder, Due
<1>5. \A i \in 1..(n - 1) : blocks[i] + r1.step <= blocks[i + 1] BY DEF InOrder, After
<1>6. n > 0 => 1 \in 1..n /\ n \in 1..n BY <1>1
<1> HIDE DEF n
<1>7. n > 0 => blocks[1] >= r1.start /\ blocks[n] <= r1.start + (r1.count * r1.step) - 1
  <2> DEFINE m == r1.count * r1.step
  <2> HIDE DEF m
  <2>1. m \in Nat /\ Upper(r1) <= r1.start + m BY <1>3 DEF m
  <2>2. n > 0 => blocks[1] >= r1.start /\ blocks[n] <= r1.start + m - 1
    <3> SUFFICES ASSUME n > 0 PROVE blocks[1] >= r1.start /\ blocks[n] <= r1.start + m - 1
      OBVIOUS
    <3>1. blocks[1] >= r1.start BY <1>4, <1>6
    <3>2. blocks[n] \in Nat /\ blocks[n] < Upper(r1) BY <1>4, <1>6
    <3>3. \A x, u, a \in Nat : x < u /\ u <= a + m => x <= a + m - 1 BY <2>1
    <3>4. blocks[n] <= r1.start + m - 1 BY <1>3, <2>1, <3>2, <3>3
    <3> QED BY <3>1, <3>4
  <2> QED BY <2>2 DEF m
<1> QED BY <1>2, <1>5, <1>7 DEF n, RR!AssertSequentialBlocksInRange

\* What the model calls the limit and the ends of a request.
LEMMA RequestNames ==
    ASSUME r1 \in Asked
    PROVE  /\ RR!MaxResponses = Limit(r1) /\ RR!UpperSlot = Upper(r1) /\ (RR!ValidRange <=> Valid(r1))
           /\ (r1.method \in RR!SingleResponse <=> ~ForBlocks(r1)) /\ (RR!HasContextBytes <=> ForBlocks(r1))
           /\ Ranged(r1) => ForBlocks(r1)
<1>1. r1.start \in Nat BY RequestFacts
<1>2. RR!MaxResponses = Limit(r1) BY DEF RR!MaxResponses, Limit, Ranged
<1>3. RR!UpperSlot = Upper(r1) BY DEF RR!UpperSlot, RR!Count, Upper
<1>4. RR!ValidRange <=> Valid(r1) BY <1>1 DEF RR!ValidRange, Valid
<1>5. (r1.method \in RR!SingleResponse <=> ~ForBlocks(r1)) /\ (RR!HasContextBytes <=> ForBlocks(r1))
  BY DEF ForBlocks, RR!HasContextBytes
<1>6. Ranged(r1) => ForBlocks(r1) BY DEF Ranged, ForBlocks, RR!SingleResponse
<1> QED BY <1>2, <1>3, <1>4, <1>5, <1>6

\* A request that is over, with an error.
LEMMA RequestSettles ==
    ASSUME RRInv, NEW code, RR!Settle(code), code # "BLOCKS_BY_RANGE_ERROR", r1' = r1,
           r3' = r3,
           r4' \in Seq(Pieces), r4 = <<>> => r4' = <<>>, r7' = r7
    PROVE  RRInv'
<1>1. r2' = [r2 EXCEPT !.phase = "done", !.result = code, !.penalty = RR!OnOutgoingReqRespError(code)]
  BY DEF RR!Settle
<1>2. DOMAIN r2 = {"phase", "next", "firstByte", "got", "result", "penalty"} BY DEF RRInv, BaseInv
<1> DEFINE penalty == RR!OnOutgoingReqRespError(code)
<1>3. /\ DOMAIN r2' = DOMAIN r2 /\ r2'.phase = "done" /\ r2'.result = code /\ r2'.got = r2.got /\ r2'.next = r2.next
  <2> HIDE DEF penalty
  <2>1. r2' = [r2 EXCEPT !.phase = "done", !.result = code, !.penalty = penalty] BY <1>1 DEF penalty
  <2> QED BY <1>2, <2>1
<1>4. r3'.phase = r3.phase OBVIOUS
<1>5. BaseInv' BY <1>2, <1>3 DEF RRInv, BaseInv
<1>6. ForBlocks(r1) => BlocksInv' BY <1>3, <1>4 DEF RRInv, BlocksInv
<1> QED BY <1>5, <1>6 DEF RRInv

\* The requester has what it wants.
LEMMA CollectedKeeps ==
    ASSUME RRInv, NEW blocks, RR!Collected(blocks), UNCHANGED <<r1, r3, r7>>, r4' \in Seq(Pieces),
           r3.phase \in {"idle", "decode"} => r4' = <<>> /\ blocks = <<>>,
           ForBlocks(r1) => InOrder(r1, blocks) /\ Len(blocks) <= Limit(r1)
    PROVE  RRInv'
<1>1. r1 \in Asked /\ DOMAIN r2 = {"phase", "next", "firstByte", "got", "result", "penalty"}
  BY DEF RRInv, BaseInv
<1>2. CASE ~ForBlocks(r1)
  <2>1. \E code \in {"EMPTY_RESPONSE", "ok"} : RR!Settle(code)
    BY <1>1, <1>2, RequestNames DEF RR!Collected
  <2>2. PICK code \in {"EMPTY_RESPONSE", "ok"} : RR!Settle(code) BY <2>1
  <2>3. r2' = [r2 EXCEPT !.phase = "done", !.result = code, !.penalty = RR!OnOutgoingReqRespError(code)]
    BY <2>2 DEF RR!Settle
  <2> DEFINE penalty == RR!OnOutgoingReqRespError(code)
  <2>4. DOMAIN r2' = DOMAIN r2 /\ r2'.phase = "done" /\ r2'.result = code /\ r2'.next = r2.next
    <3> HIDE DEF penalty
    <3>1. r2' = [r2 EXCEPT !.phase = "done", !.result = code, !.penalty = penalty] BY <2>3 DEF penalty
    <3> QED BY <1>1, <3>1
  <2>5. code # "BLOCKS_BY_RANGE_ERROR" OBVIOUS
  <2> QED BY <1>1, <1>2, <2>4, <2>5 DEF RRInv, BaseInv
<1>3. CASE ForBlocks(r1)
  <2>1. ~(r1.method = "beacon_blocks_by_range" /\ ~RR!AssertSequentialBlocksInRange(blocks))
    BY <1>1, <1>3, InOrderIsAccepted DEF Ranged
  <2>2. r2' = [r2 EXCEPT !.phase = "done", !.got = blocks, !.result = "ok"]
    BY <1>1, <1>3, <2>1, RequestNames DEF RR!Collected
  <2>3. DOMAIN r2' = DOMAIN r2 /\ r2'.phase = "done" /\ r2'.result = "ok" /\ r2'.next = r2.next /\ r2'.got = blocks
    BY <1>1, <2>2
  <2>4. BaseInv' BY <1>1, <2>3 DEF RRInv, BaseInv
  <2>5. blocks \in Seq(ChainSlots) /\ Len(blocks) <= Limit(r1) BY <1>3 DEF InOrder
  <2>6. BlocksInv' BY <1>3, <2>3, <2>5 DEF RRInv, BlocksInv
  <2> QED BY <2>4, <2>6 DEF RRInv
<1> QED BY <1>2, <1>3

LEMMA DialKeeps == ASSUME RRInv, RR!Dial PROVE RRInv'
<1>1. UNCHANGED <<r1, r3, r4, r5, r6, r7>> BY DEF RR!Dial
<1>2. CASE \E code \in {"DIAL_TIMEOUT", "DIAL_ERROR"} : RR!Settle(code)
  <2>1. PICK code \in {"DIAL_TIMEOUT", "DIAL_ERROR"} : RR!Settle(code) BY <1>2
  <2>2. code # "BLOCKS_BY_RANGE_ERROR" /\ r4' \in Seq(Pieces) BY <1>1 DEF RRInv, BaseInv
  <2> QED BY <1>1, <2>1, <2>2, RequestSettles
<1>3. CASE r2' = [r2 EXCEPT !.phase = "write"]
  <2>1. /\ DOMAIN r2' = DOMAIN r2 /\ r2'.phase = "write" /\ r2'.result = r2.result /\ r2'.next = r2.next
        /\ r2'.got = r2.got
    BY <1>3 DEF RRInv, BaseInv
  <2>2. r2.phase = "dial" BY DEF RR!Dial
  <2>3. BaseInv' BY <1>1, <2>1 DEF RRInv, BaseInv
  <2>4. ForBlocks(r1) => BlocksInv' BY <1>1, <2>1, <2>2 DEF RRInv, BlocksInv
  <2> QED BY <1>1, <2>3, <2>4 DEF RRInv
<1> QED BY <1>2, <1>3 DEF RR!Dial

LEMMA WriteRequestKeeps == ASSUME RRInv, RR!WriteRequest PROVE RRInv'
<1>1. UNCHANGED <<r1, r4, r5, r6, r7>> /\ r2.phase = "write" BY DEF RR!WriteRequest
<1>2. CASE r3' = r3 /\ \E code \in {"REQUEST_TIMEOUT", "REQUEST_ERROR"} : RR!Settle(code)
  <2>1. PICK code \in {"REQUEST_TIMEOUT", "REQUEST_ERROR"} : RR!Settle(code) BY <1>2
  <2>2. code # "BLOCKS_BY_RANGE_ERROR" /\ r4' \in Seq(Pieces) BY <1>1 DEF RRInv, BaseInv
  <2> QED BY <1>1, <1>2, <2>1, <2>2, RequestSettles
<1>3. CASE r2' = [r2 EXCEPT !.phase = "read"] /\ r3' = [r3 EXCEPT !.phase = "decode"]
  <2>1. /\ DOMAIN r2' = DOMAIN r2 /\ r2'.phase = "read" /\ r2'.result = r2.result /\ r2'.next = r2.next
        /\ r2'.got = r2.got
    BY <1>3 DEF RRInv, BaseInv
  <2>2. DOMAIN r3' = DOMAIN r3 /\ r3'.phase = "decode" /\ r3'.todo = r3.todo /\ r3'.last = r3.last
    BY <1>3 DEF RRInv, BaseInv
  <2>3. BaseInv' BY <1>1, <2>1, <2>2 DEF RRInv, BaseInv
  <2>4. ASSUME ForBlocks(r1) PROVE BlocksInv'
    <3>1. r3.phase = "idle" /\ r4 = <<>> /\ r2.next = "result" /\ r2.got = <<>>
      BY <1>1, <2>4 DEF RRInv, BlocksInv
    <3>2. Reading(r1, r2.next, r2.got, r3, r4) BY <1>1, <2>4 DEF RRInv, BlocksInv
    <3>3. Reading(r1, r2.next, r2.got, r3', r4)
      BY <2>2, <3>1, <3>2 DEF Reading, StillToSend, OnlyError
    <3> QED BY <1>1, <2>1, <2>2, <2>4, <3>1, <3>3 DEF RRInv, BlocksInv
  <2> QED BY <1>1, <2>3, <2>4 DEF RRInv
<1> QED BY <1>2, <1>3 DEF RR!WriteRequest

LEMMA ReadTimeoutKeeps == ASSUME RRInv, RR!ReadTimeout PROVE RRInv'
<1>1. UNCHANGED <<r1, r3, r4, r5, r6, r7>> BY DEF RR!ReadTimeout
<1>2. PICK code \in {"TTFB_TIMEOUT", "RESP_TIMEOUT", "RESPONSE_TIMEOUT"} : RR!Settle(code)
  BY DEF RR!ReadTimeout
<1>3. code # "BLOCKS_BY_RANGE_ERROR" /\ r4' \in Seq(Pieces) BY <1>1 DEF RRInv, BaseInv
<1> QED BY <1>1, <1>2, <1>3, RequestSettles

LEMMA ReadEndKeeps == ASSUME RRInv, RR!ReadEnd PROVE RRInv'
<1>1. UNCHANGED <<r1, r3, r4, r5, r6, r7>> /\ r2.phase = "read" /\ r4 = <<>> BY DEF RR!ReadEnd
<1>2. r4' \in Seq(Pieces) BY <1>1 DEF RRInv, BaseInv
<1>3. CASE RR!Settle("SOURCE_ABORTED") BY <1>1, <1>2, <1>3, RequestSettles
<1>4. CASE RR!Collected(r2.got)
  <2>1. ForBlocks(r1) => InOrder(r1, r2.got) /\ Len(r2.got) <= Limit(r1)
    BY <1>1 DEF RRInv, BlocksInv, Reading
  <2>2. CASE ForBlocks(r1)
    <3>1. r3.phase \in {"idle", "decode"} => r4' = <<>> /\ r2.got = <<>>
      BY <1>1, <2>2 DEF RRInv, BlocksInv
    <3> QED BY <1>1, <1>2, <1>4, <2>1, <3>1, CollectedKeeps
  <2>3. CASE ~ForBlocks(r1)
    <3>1. r1 \in Asked BY DEF RRInv, BaseInv
    <3>2. PICK code \in {"EMPTY_RESPONSE", "ok"} : RR!Settle(code)
      BY <1>4, <2>3, <3>1, RequestNames DEF RR!Collected
    <3>3. code # "BLOCKS_BY_RANGE_ERROR" OBVIOUS
    <3> QED BY <1>1, <1>2, <3>2, <3>3, RequestSettles
  <2> QED BY <2>2, <2>3
<1> QED BY <1>3, <1>4 DEF RR!ReadEnd

LEMMA ReadPieceKeeps == ASSUME RRInv, RR!ReadPiece PROVE RRInv'
<1>1. /\ UNCHANGED <<r1, r3, r5, r6, r7>> /\ r2.phase = "read" /\ r4 # <<>> /\ r4' = Tail(r4)
  BY DEF RR!ReadPiece
<1>2. /\ r1 \in Asked /\ DOMAIN r2 = {"phase", "next", "firstByte", "got", "result", "penalty"}
      /\ r2.next \in {"result", "context", "payload"} /\ r4 \in Seq(Pieces) /\ r3.last \in Nat
  BY DEF RRInv, BaseInv
<1>3. r4' \in Seq(Pieces) /\ Head(r4) = r4[1] /\ 1 \in 1..Len(r4) /\ r4[1] \in Pieces BY <1>1, <1>2
<1> DEFINE piece == r4[1]
           blocks == Append(r2.got, piece.slot)
<1>4. CASE r2.next = "result" /\ piece.status # "SUCCESS"
  <2>1. RR!Settle(RR!StatusError(piece.status)) BY <1>3, <1>4 DEF RR!ReadPiece
  <2>2. RR!StatusError(piece.status) # "BLOCKS_BY_RANGE_ERROR" BY DEF RR!StatusError
  <2> QED BY <1>1, <1>3, <2>1, <2>2, RequestSettles
<1>5. CASE r2.next \in {"result", "context"} /\ (r2.next = "result" => piece.status = "SUCCESS")
  <2> DEFINE then == IF r2.next = "result" THEN (IF RR!HasContextBytes THEN "context" ELSE "payload") ELSE "payload"
  <2>1. r2' = [r2 EXCEPT !.firstByte = TRUE, !.next = then] \/ r2' = [r2 EXCEPT !.next = then]
    BY <1>3, <1>5 DEF RR!ReadPiece
  <2>2. /\ DOMAIN r2' = DOMAIN r2 /\ r2'.phase = "read" /\ r2'.result = r2.result /\ r2'.next = then
        /\ r2'.got = r2.got
    <3> HIDE DEF then
    <3> QED BY <1>1, <1>2, <2>1
  <2>3. BaseInv' BY <1>1, <1>3, <2>2 DEF RRInv, BaseInv
  <2>4. ASSUME ForBlocks(r1) PROVE BlocksInv'
    <3>1. then = IF r2.next = "result" THEN "context" ELSE "payload" BY <1>2, <2>4, RequestNames
    <3>2. Reading(r1, r2.next, r2.got, r3, r4) BY <1>1, <2>4 DEF RRInv, BlocksInv
    <3>3. OnTheWire(r1, r2.next, r2.got, r4) BY <1>3, <1>5, <3>2 DEF Reading, OnlyError
    <3> HIDE DEF then
    <3>4. Reading(r1, then, r2.got, r3, Tail(r4))
      BY <1>1, <1>2, <1>5, <3>1, <3>2, <3>3, ReadKeepsReading
    <3>5. r3.phase \notin {"idle", "decode"} BY <1>1, <2>4 DEF RRInv, BlocksInv
    <3> QED BY <1>1, <2>2, <2>4, <3>4, <3>5 DEF RRInv, BlocksInv
  <2> QED BY <1>1, <2>3, <2>4 DEF RRInv
<1>6. CASE r2.next = "payload"
  <2>1. IF r1.method \in RR!SingleResponse \/ Len(blocks) >= RR!MaxResponses
        THEN RR!Collected(blocks) ELSE r2' = [r2 EXCEPT !.got = blocks, !.next = "result"]
    BY <1>3, <1>6 DEF RR!ReadPiece
  <2>2. CASE ~ForBlocks(r1)
    <3>1. RR!Collected(blocks) BY <1>2, <2>1, <2>2, RequestNames
    <3>2. PICK code \in {"EMPTY_RESPONSE", "ok"} : RR!Settle(code)
      BY <1>2, <2>2, <3>1, RequestNames DEF RR!Collected
    <3>3. code # "BLOCKS_BY_RANGE_ERROR" OBVIOUS
    <3> QED BY <1>1, <1>3, <3>2, <3>3, RequestSettles
  <2>3. CASE ForBlocks(r1)
    <3>1. Reading(r1, "payload", r2.got, r3, r4) BY <1>1, <1>6, <2>3 DEF RRInv, BlocksInv
    <3>2. PICK b : b = blocks OBVIOUS
    <3>3. /\ InOrder(r1, b) /\ Len(b) <= Limit(r1) /\ b \in Seq(ChainSlots)
          /\ Len(b) < Limit(r1) => Reading(r1, "result", b, r3, Tail(r4))
      BY <1>1, <1>2, <2>3, <3>1, <3>2, BlockRead
    <3>4. r3.phase \notin {"idle", "decode"} BY <1>1, <2>3 DEF RRInv, BlocksInv
    <3>5. CASE RR!Collected(b) BY <1>1, <1>3, <3>3, <3>4, <3>5, CollectedKeeps
    <3>6. CASE Len(b) < Limit(r1) /\ r2' = [r2 EXCEPT !.got = b, !.next = "result"]
      <4>1. /\ DOMAIN r2' = DOMAIN r2 /\ r2'.phase = "read" /\ r2'.result = r2.result /\ r2'.next = "result"
            /\ r2'.got = b
        BY <1>1, <1>2, <3>6
      <4>2. BaseInv' BY <1>1, <1>3, <4>1 DEF RRInv, BaseInv
      <4>3. BlocksInv' BY <1>1, <2>3, <3>3, <3>4, <3>6, <4>1 DEF RRInv, BlocksInv
      <4> QED BY <4>2, <4>3 DEF RRInv
    <3>7. RR!MaxResponses = Limit(r1) /\ Limit(r1) \in Nat /\ r1.method \notin RR!SingleResponse /\ Len(b) \in Nat
      BY <1>2, <2>3, <3>3, RequestNames, RequestFacts
    <3> HIDE DEF blocks
    <3> QED BY <2>1, <3>2, <3>5, <3>6, <3>7
  <2> QED BY <2>2, <2>3
<1> QED BY <1>2, <1>4, <1>5, <1>6

\* A chunk is a sequence of pieces, whatever the method.
LEMMA ChunkType ==
    ASSUME NEW wire \in Seq(Pieces), NEW s \in Nat
    PROVE  wire \o RR!Chunk(s) \in Seq(Pieces)
<1> DEFINE p == RR!Piece("SUCCESS", s)
           middle == IF RR!HasContextBytes THEN <<p>> ELSE <<>>
<1>1. p \in Pieces BY DEF Pieces, RR!Piece
<1>2. RR!Chunk(s) = <<p>> \o middle \o <<p>> BY DEF RR!Chunk
<1> HIDE DEF p
<1>3. middle \in Seq(Pieces) BY <1>1
<1> HIDE DEF middle
<1>4. RR!Chunk(s) \in Seq(Pieces) BY <1>1, <1>2, <1>3
<1> QED BY <1>4

\* What comes after all the blocks still does at a later slot.
LEMMA FollowsLater ==
    ASSUME NEW q \in Asked, NEW next, NEW got \in Seq(ChainSlots), NEW wire \in Seq(Pieces), NEW s \in Nat, NEW t \in Nat,
           s <= t, Follows(q, next, got, wire, s)
    PROVE  Follows(q, next, got, wire, t)
<1>1. q.step \in Nat BY RequestFacts
<1>2. \A j \in 1..Len(wire) : wire[j].slot \in Nat
  <2>1. \A j \in 1..Len(wire) : wire[j] \in Pieces OBVIOUS
  <2> QED BY <2>1 DEF Pieces
<1>3. Len(got) > 0 => got[Len(got)] \in Nat
  <2>1. Len(got) > 0 => Len(got) \in 1..Len(got) OBVIOUS
  <2>2. ChainSlots \subseteq Nat BY RequestsAssumption
  <2>3. Len(got) > 0 => got[Len(got)] \in ChainSlots BY <2>1, ElementOfSeq
  <2> QED BY <2>2, <2>3
<1>4. \A u \in Nat : After(q, u, s) => After(q, u, t) BY <1>1 DEF After
<1> QED BY <1>2, <1>3, <1>4 DEF Follows

\* The first of the blocks that are left is sent.
LEMMA SentKeepsReading ==
    ASSUME NEW q \in Asked, ForBlocks(q), NEW next \in {"result", "context", "payload"}, NEW got, NEW server,
           NEW wire \in Seq(Pieces), Reading(q, next, got, server, wire),
           server.phase \in {"archive", "blocks"}, server.todo \subseteq Nat,
           NEW s \in server.todo, \A t \in server.todo : s <= t,
           NEW w, Longer(wire, s, w),
           NEW after, after.phase = server.phase, after.todo = server.todo \ {s}, after.last = s
    PROVE  Reading(q, next, got, after, w)
<1>1. StillToSend(q, next, got, server, wire) /\ OnTheWire(q, next, got, wire) /\ InOrder(q, got)
  BY DEF Reading, OnlyError
<1>2. /\ Ranged(q) /\ Valid(q) /\ Due(q, s) /\ Follows(q, next, got, wire, s)
      /\ (Len(wire) + PiecesRead(next)) % 3 = 0
      /\ \A t \in server.todo : Due(q, t) /\ Follows(q, next, got, wire, t)
  BY <1>1 DEF StillToSend
<1>3. /\ OnTheWire(q, next, got, w)
      /\ (Len(w) + PiecesRead(next)) % 3 = 0
      /\ \A t : Follows(q, next, got, wire, t) /\ After(q, s, t) => Follows(q, next, got, w, t)
  BY <1>1, <1>2, WriteKeepsReading
<1>4. s \in Nat \ {0} BY <1>2, RequestFacts
<1>5. \A t \in server.todo \ {s} : Due(q, t) /\ Follows(q, next, got, w, t)
  <2> TAKE t \in server.todo \ {s}
  <2>1. s < t BY <1>4
  <2>2. After(q, s, t) BY <1>2, <2>1, DueApart
  <2> QED BY <1>2, <1>3, <2>2
<1>6. \A t \in Nat : s + q.step <= t => Follows(q, next, got, w, t)
  <2> SUFFICES ASSUME NEW t \in Nat, s + q.step <= t PROVE Follows(q, next, got, w, t) OBVIOUS
  <2>1. q.step \in Nat BY RequestFacts
  <2>2. s <= t BY <1>4, <2>1
  <2>3. Follows(q, next, got, wire, t) BY <1>1, <1>2, <1>4, <2>2, FollowsLater DEF InOrder
  <2>4. After(q, s, t) BY DEF After
  <2> QED BY <1>3, <2>3, <2>4
<1>7. after.phase \notin {"roots", "done"} BY DEF Reading
<1>8. StillToSend(q, next, got, after, w) BY <1>2, <1>3, <1>4, <1>5, <1>6, <1>7 DEF StillToSend
<1> QED BY <1>3, <1>8 DEF Reading

\* A step of the responder that keeps what the requester relies on.
LEMMA ServerStepKeeps ==
    ASSUME RRInv, UNCHANGED <<r1, r2, r7>>, r3.phase # "idle", r3'.phase \notin {"idle", "decode"},
           DOMAIN r3' = {"phase", "todo", "last"}, r3'.todo \subseteq Nat, r3'.last \in Nat, r4' \in Seq(Pieces),
           ForBlocks(r1) /\ Reading(r1, r2.next, r2.got, r3, r4) => Reading(r1, r2.next, r2.got, r3', r4')
    PROVE  RRInv'
<1>1. BaseInv' BY DEF RRInv, BaseInv
<1>2. ForBlocks(r1) => BlocksInv' BY DEF RRInv, BlocksInv
<1> QED BY <1>1, <1>2 DEF RRInv

\* The responder answers with an error, before any block.
LEMMA FailKeeps ==
    ASSUME RRInv, UNCHANGED <<r1, r2, r7>>, r3.phase \notin {"idle", "done"},
           NEW status \in {"INVALID_REQUEST", "SERVER_ERROR", "RESOURCE_UNAVAILABLE"}, RR!Fail(status),
           ForBlocks(r1) /\ Reading(r1, r2.next, r2.got, r3, r4) => r4 = <<>>
    PROVE  RRInv'
<1>1. DOMAIN r3 = {"phase", "todo", "last"} /\ r3.todo \subseteq Nat /\ r3.last \in Nat /\ r4 \in Seq(Pieces)
      /\ r2.next \in {"result", "context", "payload"}
  BY DEF RRInv, BaseInv
<1>2. r3' = [r3 EXCEPT !.phase = "done"] /\ r4' = Append(r4, RR!Piece(status, 0)) BY DEF RR!Fail
<1>3. DOMAIN r3' = DOMAIN r3 /\ r3'.phase = "done" /\ r3'.todo = r3.todo /\ r3'.last = r3.last
  BY <1>1, <1>2
<1>4. RR!Piece(status, 0) \in Pieces /\ RR!Piece(status, 0).status = status BY DEF RR!Piece, Pieces
<1>5. r4' \in Seq(Pieces) BY <1>1, <1>2, <1>4
<1>6. ASSUME ForBlocks(r1), Reading(r1, r2.next, r2.got, r3, r4) PROVE Reading(r1, r2.next, r2.got, r3', r4')
  <2>1. r4 = <<>> /\ Len(r4) = 0 BY <1>6
  <2>2. r2.next = "result" BY <1>1, <1>6, <2>1 DEF Reading, StillToSend, PiecesRead
  <2>3. Len(r4') = 1 /\ r4'[1] = RR!Piece(status, 0) BY <1>2, <2>1
  <2>4. OnlyError(r2.next, r3', r4') BY <1>3, <1>4, <2>2, <2>3 DEF OnlyError
  <2>5. StillToSend(r1, r2.next, r2.got, r3', r4') BY <1>3 DEF StillToSend
  <2> QED BY <1>6, <2>4, <2>5 DEF Reading
<1> QED BY <1>1, <1>3, <1>5, <1>6, ServerStepKeeps

\* Blocks are on the wire, and the responder only goes on to another phase.
LEMMA PhaseKeepsReading ==
    ASSUME NEW q, NEW next, NEW got, NEW server, NEW wire, Reading(q, next, got, server, wire),
           server.phase # "done", NEW after, after.phase = "finish"
    PROVE  Reading(q, next, got, after, wire)
BY DEF Reading, OnlyError, StillToSend

\* The responder's record and the wire.
LEMMA ServerFacts ==
    ASSUME RRInv
    PROVE  /\ r1 \in Asked /\ DOMAIN r3 = {"phase", "todo", "last"} /\ r3.todo \subseteq Nat /\ r3.last \in Nat
           /\ r4 \in Seq(Pieces) /\ r2.next \in {"result", "context", "payload"}
           /\ r7.archive \subseteq ChainSlots /\ r7.index \subseteq ChainSlots /\ r7.hot \subseteq ChainSlots
           /\ r7.forkChoice \subseteq ChainSlots /\ r7.moving \subseteq ChainSlots /\ ChainSlots \subseteq Nat
BY RequestsAssumption DEF RRInv, BaseInv, DbFields

LEMMA DecodeRequestKeeps == ASSUME RRInv, RR!DecodeRequest PROVE RRInv'
<1>1. UNCHANGED <<r1, r2, r7>> /\ r3.phase = "decode" BY DEF RR!DecodeRequest
<1>2. /\ r1 \in Asked /\ DOMAIN r3 = {"phase", "todo", "last"} /\ r3.todo \subseteq Nat /\ r3.last \in Nat
      /\ r4 \in Seq(Pieces) /\ r7.archive \subseteq ChainSlots /\ ChainSlots \subseteq Nat
  BY ServerFacts
<1>3. ForBlocks(r1) => r4 = <<>> /\ r2.next = "result" /\ r2.got = <<>> BY <1>1 DEF RRInv, BlocksInv
<1>4. CASE \E status \in {"SERVER_ERROR", "INVALID_REQUEST"} : RR!Fail(status)
  <2>1. PICK status \in {"SERVER_ERROR", "INVALID_REQUEST"} : RR!Fail(status) BY <1>4
  <2> QED BY <1>1, <1>3, <2>1, FailKeeps
<1>5. CASE /\ r1.method \in RR!SingleResponse /\ r3' = [r3 EXCEPT !.phase = "finish"] /\ r4' = r4 \o RR!Chunk(0)
  <2>1. DOMAIN r3' = DOMAIN r3 /\ r3'.phase = "finish" /\ r3'.todo = r3.todo /\ r3'.last = r3.last
    BY <1>2, <1>5
  <2>2. r4' \in Seq(Pieces) BY <1>2, <1>5, ChunkType
  <2>3. ~ForBlocks(r1) BY <1>2, <1>5, RequestNames
  <2> QED BY <1>1, <1>2, <2>1, <2>2, <2>3, ServerStepKeeps
<1>6. CASE /\ r1.method = "beacon_blocks_by_range" /\ RR!ValidRange /\ r4' = r4
           /\ r3' = [r3 EXCEPT !.phase = "archive",
                       !.todo = {s \in r7.archive : s >= r1.start /\ s < RR!UpperSlot /\ RR!InStep(s)}]
  <2> DEFINE todo == {s \in r7.archive : s >= r1.start /\ s < RR!UpperSlot /\ RR!InStep(s)}
  <2>1. Ranged(r1) /\ Valid(r1) /\ RR!UpperSlot = Upper(r1) BY <1>2, <1>6, RequestNames DEF Ranged
  <2>2. todo \subseteq Nat /\ \A s \in todo : Due(r1, s)
    BY <1>2, <2>1 DEF Due, Ranged, RR!InStep
  <2>3. r3' = [r3 EXCEPT !.phase = "archive", !.todo = todo] BY <1>6
  <2> HIDE DEF todo
  <2>4. DOMAIN r3' = DOMAIN r3 /\ r3'.phase = "archive" /\ r3'.todo = todo /\ r3'.last = r3.last
    BY <1>2, <2>3
  <2>5. r3.last = 0 BY <1>1, <1>2, <2>1, RequestNames DEF RRInv, BlocksInv
  <2>6. ASSUME ForBlocks(r1), Reading(r1, r2.next, r2.got, r3, r4) PROVE Reading(r1, r2.next, r2.got, r3', r4')
    <3>1. r4 = <<>> /\ Len(r4) = 0 /\ r2.next = "result" /\ r2.got = <<>> /\ Len(r2.got) = 0
      BY <1>3, <2>6
    <3>2. \A s : Follows(r1, r2.next, r2.got, r4, s) BY <3>1 DEF Follows
    <3>3. r3'.phase # "roots" BY <2>4
    <3>4. OnTheWire(r1, r2.next, r2.got, r4) BY <3>1 DEF OnTheWire
    <3>5. (Len(r4) + PiecesRead(r2.next)) % 3 = 0 BY <1>1, <2>6 DEF Reading, StillToSend
    <3>6. StillToSend(r1, r2.next, r2.got, r3', r4)
      BY <2>1, <2>2, <2>4, <2>5, <3>1, <3>2, <3>3, <3>5 DEF StillToSend
    <3> QED BY <1>6, <2>6, <3>4, <3>6 DEF Reading
  <2> QED BY <1>1, <1>2, <1>6, <2>2, <2>4, <2>6, ServerStepKeeps
<1>7. CASE /\ r1.method = "beacon_blocks_by_root" /\ r4' = r4
           /\ r3' = [r3 EXCEPT !.phase = "roots", !.todo = r1.roots]
  <2>1. DOMAIN r3' = DOMAIN r3 /\ r3'.phase = "roots" /\ r3'.todo = r1.roots /\ r3'.last = r3.last
    BY <1>2, <1>7
  <2>2. r1.roots \subseteq Nat BY <1>2, RequestsAssumption
  <2>3. ASSUME Reading(r1, r2.next, r2.got, r3, r4) PROVE Reading(r1, r2.next, r2.got, r3', r4')
    BY <1>1, <1>7, <2>1, <2>3 DEF Reading, OnlyError, StillToSend
  <2> QED BY <1>1, <1>2, <1>7, <2>1, <2>2, <2>3, ServerStepKeeps
<1> QED BY <1>4, <1>5, <1>6, <1>7 DEF RR!DecodeRequest

\* The archive's blocks, and those of the hot database, are sent in order.
LEMMA SendLowestKeeps ==
    ASSUME RRInv, UNCHANGED <<r1, r2, r7>>, r3.phase \in {"archive", "blocks"}, r3.todo # {}, RR!SendLowest
    PROVE  RRInv'
<1>1. /\ r1 \in Asked /\ DOMAIN r3 = {"phase", "todo", "last"} /\ r3.todo \subseteq Nat /\ r3.last \in Nat
      /\ r4 \in Seq(Pieces) /\ r2.next \in {"result", "context", "payload"}
  BY ServerFacts
<1>2. PICK s : s = RR!Lowest(r3.todo) OBVIOUS
<1>3. s \in r3.todo /\ \A t \in r3.todo : s <= t
  <2>1. \E x \in r3.todo : \A t \in r3.todo : x <= t BY <1>1, LeastOf
  <2> QED BY <1>2, <2>1 DEF RR!Lowest
<1>4. r4' = r4 \o RR!Chunk(s) /\ r3' = [r3 EXCEPT !.todo = r3.todo \ {s}, !.last = s]
  BY <1>2 DEF RR!SendLowest
<1>5. DOMAIN r3' = DOMAIN r3 /\ r3'.phase = r3.phase /\ r3'.todo = r3.todo \ {s} /\ r3'.last = s
  BY <1>1, <1>4
<1>6. s \in Nat BY <1>1, <1>3
<1>7. r4' \in Seq(Pieces) BY <1>1, <1>4, <1>6, ChunkType
<1>8. ASSUME ForBlocks(r1), Reading(r1, r2.next, r2.got, r3, r4) PROVE Reading(r1, r2.next, r2.got, r3', r4')
  <2>1. PICK w : w = r4' OBVIOUS
  <2>0. w = r4 \o RR!Chunk(s) BY <1>4, <2>1, Zenon
  <2>2. Longer(r4, s, w)
    <3>1. Longer(r4, s, r4 \o RR!Chunk(s)) BY <1>1, <1>6, <1>8, ChunkWritten
    <3> QED BY <2>0, <3>1, Zenon
  <2>3. PICK after : after = r3' OBVIOUS
  <2>4. after.phase = r3.phase /\ after.todo = r3.todo \ {s} /\ after.last = s BY <1>5, <2>3
  <2>5. Reading(r1, r2.next, r2.got, after, w) BY <1>1, <1>3, <1>8, <2>2, <2>4, SentKeepsReading
  <2> QED BY <2>1, <2>3, <2>5
<1> QED BY <1>1, <1>5, <1>6, <1>7, <1>8, ServerStepKeeps

LEMMA StreamArchiveKeeps == ASSUME RRInv, RR!StreamArchive PROVE RRInv'
<1>1. UNCHANGED <<r1, r2, r7>> /\ r3.phase = "archive" BY DEF RR!StreamArchive
<1>2. /\ r1 \in Asked /\ DOMAIN r3 = {"phase", "todo", "last"} /\ r3.todo \subseteq Nat /\ r3.last \in Nat
      /\ r4 \in Seq(Pieces) /\ r7.forkChoice \subseteq ChainSlots /\ ChainSlots \subseteq Nat
  BY ServerFacts
<1>3. CASE r3.todo # {} /\ RR!SendLowest BY <1>1, <1>3, SendLowestKeeps
<1>4. CASE r4' = r4 /\ r3' = [r3 EXCEPT !.phase = "recent", !.todo = RR!RecentSlots(r3.last) \cap r7.forkChoice]
  <2> DEFINE todo == RR!RecentSlots(r3.last) \cap r7.forkChoice
  <2>1. todo \subseteq Nat BY <1>2
  <2>2. r3' = [r3 EXCEPT !.phase = "recent", !.todo = todo] BY <1>4
  <2> HIDE DEF todo
  <2>3. DOMAIN r3' = DOMAIN r3 /\ r3'.phase = "recent" /\ r3'.todo = todo /\ r3'.last = r3.last
    BY <1>2, <2>2
  <2>4. ASSUME ForBlocks(r1), Reading(r1, r2.next, r2.got, r3, r4) PROVE Reading(r1, r2.next, r2.got, r3', r4')
    <3>1. /\ OnTheWire(r1, r2.next, r2.got, r4) /\ StillToSend(r1, r2.next, r2.got, r3, r4)
      BY <1>1, <2>4 DEF Reading, OnlyError
    <3>2. /\ Ranged(r1) /\ Valid(r1) /\ (Len(r4) + PiecesRead(r2.next)) % 3 = 0
          /\ r3.last = 0 => r4 = <<>> /\ Len(r2.got) = 0
          /\ r3.last # 0 => /\ Due(r1, r3.last)
                            /\ \A s \in Nat : r3.last + r1.step <= s => Follows(r1, r2.next, r2.got, r4, s)
      BY <1>1, <3>1 DEF StillToSend
    <3>3. r1.start \in Nat /\ r1.step \in Nat /\ Upper(r1) \in Nat /\ RR!UpperSlot = Upper(r1)
      BY <1>2, RequestFacts, RequestNames
    <3>4. ASSUME NEW s \in todo PROVE Due(r1, s) /\ Follows(r1, r2.next, r2.got, r4, s)
      <4>1. /\ s \in ChainSlots /\ s \in Nat /\ s <= Upper(r1) - 1 /\ (s - r1.start) % r1.step = 0
            /\ s >= IF r3.last = 0 THEN r1.start ELSE r3.last + r1.step
        BY <1>2, <3>3 DEF todo, RR!RecentSlots, RR!InStep
      <4>2. s >= r1.start /\ s < Upper(r1)
        <5>1. r3.last # 0 => r3.last >= r1.start BY <3>2 DEF Due
        <5> QED BY <1>2, <3>3, <4>1, <5>1
      <4>3. r1.method # "beacon_blocks_by_root" BY <3>2 DEF Ranged
      <4>4. Due(r1, s) BY <3>2, <4>1, <4>2, <4>3 DEF Due
      <4>5. CASE r3.last = 0
        <5>1. Len(r4) = 0 /\ Len(r2.got) = 0 BY <3>2, <4>5
        <5> QED BY <4>4, <5>1 DEF Follows
      <4>6. CASE r3.last # 0 BY <3>2, <4>1, <4>4, <4>6
      <4> QED BY <4>5, <4>6
    <3>5. StillToSend(r1, r2.next, r2.got, r3', r4) BY <2>3, <3>2, <3>4 DEF StillToSend
    <3> QED BY <1>4, <2>4, <3>1, <3>5 DEF Reading
  <2> QED BY <1>1, <1>2, <1>4, <2>1, <2>3, <2>4, ServerStepKeeps
<1> QED BY <1>3, <1>4 DEF RR!StreamArchive

LEMMA InjectRecentBlocksKeeps == ASSUME RRInv, RR!InjectRecentBlocks PROVE RRInv'
<1>1. UNCHANGED <<r1, r2, r7>> /\ r3.phase = "recent" BY DEF RR!InjectRecentBlocks
<1>2. /\ r1 \in Asked /\ DOMAIN r3 = {"phase", "todo", "last"} /\ r3.todo \subseteq Nat /\ r3.last \in Nat
      /\ r4 \in Seq(Pieces)
  BY ServerFacts
<1>3. CASE r3.last = 0 /\ RR!Fail("RESOURCE_UNAVAILABLE")
  <2>1. ForBlocks(r1) /\ Reading(r1, r2.next, r2.got, r3, r4) => r4 = <<>>
    BY <1>1, <1>3 DEF Reading, StillToSend
  <2> QED BY <1>1, <1>3, <2>1, FailKeeps
<1>4. CASE r4' = r4 /\ r3' = [r3 EXCEPT !.phase = "blocks", !.todo = r3.todo \cap r7.hot]
  <2>1. DOMAIN r3' = DOMAIN r3 /\ r3'.phase = "blocks" /\ r3'.todo = r3.todo \cap r7.hot /\ r3'.last = r3.last
    BY <1>2, <1>4
  <2>2. ASSUME Reading(r1, r2.next, r2.got, r3, r4) PROVE Reading(r1, r2.next, r2.got, r3', r4')
    BY <1>1, <1>4, <2>1, <2>2 DEF Reading, OnlyError, StillToSend
  <2> QED BY <1>1, <1>2, <1>4, <2>1, <2>2, ServerStepKeeps
<1> QED BY <1>3, <1>4 DEF RR!InjectRecentBlocks

LEMMA YieldBlockKeeps == ASSUME RRInv, RR!YieldBlock PROVE RRInv'
<1>1. UNCHANGED <<r1, r2, r7>> /\ r3.phase = "blocks" BY DEF RR!YieldBlock
<1>2. /\ DOMAIN r3 = {"phase", "todo", "last"} /\ r3.todo \subseteq Nat /\ r3.last \in Nat /\ r4 \in Seq(Pieces)
  BY ServerFacts
<1>3. CASE r3.todo # {} /\ RR!SendLowest BY <1>1, <1>3, SendLowestKeeps
<1>4. CASE r4' = r4 /\ r3' = [r3 EXCEPT !.phase = "finish"]
  <2>1. DOMAIN r3' = DOMAIN r3 /\ r3'.phase = "finish" /\ r3'.todo = r3.todo /\ r3'.last = r3.last
    BY <1>2, <1>4
  <2>2. ASSUME Reading(r1, r2.next, r2.got, r3, r4) PROVE Reading(r1, r2.next, r2.got, r3', r4')
    BY <1>1, <1>4, <2>1, <2>2, PhaseKeepsReading
  <2> QED BY <1>1, <1>2, <1>4, <2>1, <2>2, ServerStepKeeps
<1> QED BY <1>3, <1>4 DEF RR!YieldBlock

LEMMA ServeRootKeeps == ASSUME RRInv, RR!ServeRoot PROVE RRInv'
<1>1. UNCHANGED <<r1, r2, r7>> /\ r3.phase = "roots" BY DEF RR!ServeRoot
<1>2. /\ r1 \in Asked /\ DOMAIN r3 = {"phase", "todo", "last"} /\ r3.todo \subseteq Nat /\ r3.last \in Nat
      /\ r4 \in Seq(Pieces) /\ r7.hot \subseteq ChainSlots /\ r7.archive \subseteq ChainSlots
      /\ r2.next \in {"result", "context", "payload"}
  BY ServerFacts
<1>3. CASE r4' = r4 /\ r3' = [r3 EXCEPT !.phase = "finish"]
  <2>1. DOMAIN r3' = DOMAIN r3 /\ r3'.phase = "finish" /\ r3'.todo = r3.todo /\ r3'.last = r3.last
    BY <1>2, <1>3
  <2>2. ASSUME Reading(r1, r2.next, r2.got, r3, r4) PROVE Reading(r1, r2.next, r2.got, r3', r4')
    BY <1>1, <1>3, <2>1, <2>2, PhaseKeepsReading
  <2> QED BY <1>1, <1>2, <1>3, <2>1, <2>2, ServerStepKeeps
<1>4. ASSUME NEW s \in r3.todo, r3' = [r3 EXCEPT !.todo = r3.todo \ {s}],
             r4' = IF s \in r7.forkChoice \cap r7.hot \/ s \in r7.index \cap r7.archive
                   THEN r4 \o RR!Chunk(s) ELSE r4
      PROVE  RRInv'
  <2>1. DOMAIN r3' = DOMAIN r3 /\ r3'.phase = "roots" /\ r3'.todo = r3.todo \ {s} /\ r3'.last = r3.last
    BY <1>1, <1>2, <1>4
  <2>2. s \in Nat BY <1>2
  <2>3. r4' \in Seq(Pieces) BY <1>2, <1>4, <2>2, ChunkType
  <2>4. ASSUME ForBlocks(r1), Reading(r1, r2.next, r2.got, r3, r4) PROVE Reading(r1, r2.next, r2.got, r3', r4')
    <3>1. /\ OnTheWire(r1, r2.next, r2.got, r4) /\ (Len(r4) + PiecesRead(r2.next)) % 3 = 0
          /\ r1.method = "beacon_blocks_by_root" /\ r3.todo \subseteq r1.roots
      BY <1>1, <2>4 DEF Reading, OnlyError, StillToSend
    <3>2. CASE r4' = r4 BY <2>1, <2>4, <3>1, <3>2 DEF Reading, StillToSend
    <3>3. CASE s \in ChainSlots /\ r4' = r4 \o RR!Chunk(s)
      <4>1. PICK w : w = r4' OBVIOUS
      <4>0. w = r4 \o RR!Chunk(s) BY <3>3, <4>1, Zenon
      <4>2. Longer(r4, s, w)
        <5>1. Longer(r4, s, r4 \o RR!Chunk(s)) BY <1>2, <2>2, <2>4, ChunkWritten
        <5> QED BY <4>0, <5>1, Zenon
      <4>3. Due(r1, s) BY <1>4, <3>1, <3>3 DEF Due, Ranged
      <4>4. Follows(r1, r2.next, r2.got, r4, s) BY <3>1 DEF Follows, After, Ranged
      <4>5. OnTheWire(r1, r2.next, r2.got, w) /\ (Len(w) + PiecesRead(r2.next)) % 3 = 0
        BY <1>2, <3>1, <4>2, <4>3, <4>4, WriteKeepsReading
      <4>6. StillToSend(r1, r2.next, r2.got, r3', w) BY <2>1, <3>1, <4>5 DEF StillToSend
      <4> QED BY <2>4, <4>1, <4>5, <4>6 DEF Reading
    <3> QED BY <1>2, <1>4, <3>2, <3>3
  <2> QED BY <1>1, <1>2, <2>1, <2>3, <2>4, ServerStepKeeps
<1> QED BY <1>1, <1>3, <1>4 DEF RR!ServeRoot

LEMMA FinishRequestKeeps == ASSUME RRInv, RR!FinishRequest PROVE RRInv'
<1>1. UNCHANGED <<r1, r2, r4, r7>> /\ r3.phase = "finish" /\ r3' = [r3 EXCEPT !.phase = "done"]
  BY DEF RR!FinishRequest, RR!Finish
<1>2. /\ DOMAIN r3 = {"phase", "todo", "last"} /\ r3.todo \subseteq Nat /\ r3.last \in Nat /\ r4 \in Seq(Pieces)
  BY ServerFacts
<1>3. DOMAIN r3' = DOMAIN r3 /\ r3'.phase = "done" /\ r3'.todo = r3.todo /\ r3'.last = r3.last
  BY <1>1, <1>2
<1>4. ASSUME Reading(r1, r2.next, r2.got, r3, r4) PROVE Reading(r1, r2.next, r2.got, r3', r4')
  BY <1>1, <1>3, <1>4 DEF Reading, OnlyError, StillToSend
<1> QED BY <1>1, <1>2, <1>3, <1>4, ServerStepKeeps

LEMMA DisconnectKeeps == ASSUME RRInv, RR!Disconnect PROVE RRInv'
<1>1. /\ UNCHANGED <<r1, r2, r7>> /\ r2.phase = "read" /\ r3' = [r3 EXCEPT !.phase = "done"]
      /\ \E n \in 0..Len(r4) : r4' = SubSeq(r4, 1, n)
  BY DEF RR!Disconnect
<1>2. PICK n \in 0..Len(r4) : r4' = SubSeq(r4, 1, n) BY <1>1
<1>3. /\ DOMAIN r3 = {"phase", "todo", "last"} /\ r3.todo \subseteq Nat /\ r3.last \in Nat /\ r4 \in Seq(Pieces)
  BY ServerFacts
<1>4. DOMAIN r3' = DOMAIN r3 /\ r3'.phase = "done" /\ r3'.todo = r3.todo /\ r3'.last = r3.last
  BY <1>1, <1>3
<1>5. r4' \in Seq(Pieces) /\ Len(r4') = n /\ n <= Len(r4) /\ \A j \in 1..n : r4'[j] = r4[j] /\ j \in 1..Len(r4)
  BY <1>2, <1>3
<1>6. BaseInv' BY <1>1, <1>3, <1>4, <1>5 DEF RRInv, BaseInv
<1>7. ASSUME ForBlocks(r1) PROVE BlocksInv'
  <2>1. Reading(r1, r2.next, r2.got, r3, r4) BY <1>1, <1>7 DEF RRInv, BlocksInv
  <2>2. StillToSend(r1, r2.next, r2.got, r3', r4') BY <1>4 DEF StillToSend
  <2>3. CASE OnTheWire(r1, r2.next, r2.got, r4)
    <3>1. OnTheWire(r1, r2.next, r2.got, r4') BY <1>5, <2>3 DEF OnTheWire
    <3> QED BY <1>1, <1>4, <1>7, <2>1, <2>2, <3>1 DEF RRInv, BlocksInv, Reading
  <2>4. CASE OnlyError(r2.next, r3, r4)
    <3>1. n = 0 \/ n = 1 BY <1>2, <2>4 DEF OnlyError
    <3>2. CASE n = 0
      <4>1. OnTheWire(r1, r2.next, r2.got, r4') BY <1>5, <3>2 DEF OnTheWire
      <4> QED BY <1>1, <1>4, <1>7, <2>1, <2>2, <4>1 DEF RRInv, BlocksInv, Reading
    <3>3. CASE n = 1
      <4>1. OnlyError(r2.next, r3', r4') BY <1>4, <1>5, <2>4, <3>3 DEF OnlyError
      <4> QED BY <1>1, <1>4, <1>7, <2>1, <2>2, <4>1 DEF RRInv, BlocksInv, Reading
    <3> QED BY <3>1, <3>2, <3>3
  <2> QED BY <2>1, <2>3, <2>4 DEF Reading
<1> QED BY <1>1, <1>6, <1>7 DEF RRInv

LEMMA MoveKeeps ==
    ASSUME RRInv, UNCHANGED <<r1, r2, r3, r4>>, DOMAIN r7' = DOMAIN r7,
           r7'.archive \subseteq ChainSlots, r7'.index \subseteq ChainSlots, r7'.hot \subseteq ChainSlots,
           r7'.forkChoice \subseteq ChainSlots, r7'.moving \subseteq ChainSlots
    PROVE  RRInv'
<1>1. BaseInv' BY DEF RRInv, BaseInv, DbFields
<1>2. ForBlocks(r1) => BlocksInv' BY DEF RRInv, BlocksInv
<1> QED BY <1>1, <1>2 DEF RRInv

LEMMA FinalizeKeeps == ASSUME RRInv, NEW s, RR!Finalize(s) PROVE RRInv'
<1> DEFINE moving == {t \in r7.hot : t <= s}
           pending == {"put", "index", "delete", "prune"}
<1>1. UNCHANGED <<r1, r2, r3, r4>> /\ r7' = [r7 EXCEPT !.moving = moving, !.pending = pending]
  BY DEF RR!Finalize
<1>2. /\ r7.archive \subseteq ChainSlots /\ r7.index \subseteq ChainSlots /\ r7.hot \subseteq ChainSlots
      /\ r7.forkChoice \subseteq ChainSlots
  BY ServerFacts
<1>3. DOMAIN r7 = {"archive", "index", "hot", "forkChoice", "moving", "pending"}
  BY DEF RRInv, BaseInv, DbFields
<1>4. moving \subseteq ChainSlots BY <1>2
<1> HIDE DEF moving, pending
<1>5. /\ DOMAIN r7' = DOMAIN r7 /\ r7'.archive = r7.archive /\ r7'.index = r7.index /\ r7'.hot = r7.hot
      /\ r7'.forkChoice = r7.forkChoice /\ r7'.moving = moving
  BY <1>1, <1>3
<1> QED BY <1>1, <1>2, <1>4, <1>5, MoveKeeps

LEMMA MoveBlocksKeeps == ASSUME RRInv, NEW step, RR!MoveBlocks(step) PROVE RRInv'
<1> DEFINE last == {t \in r7.moving : \A u \in r7.moving : u <= t}
           remaining == r7.pending \ {step}
           moving == IF remaining = {} THEN {} ELSE r7.moving
           archive == IF step = "put" THEN r7.archive \cup r7.moving ELSE r7.archive
           index == IF step = "index" THEN r7.index \cup r7.moving ELSE r7.index
           hot == IF step = "delete" THEN r7.hot \ r7.moving ELSE r7.hot
           forkChoice == IF step = "prune" THEN (r7.forkChoice \ r7.moving) \cup last ELSE r7.forkChoice
<1>1. /\ UNCHANGED <<r1, r2, r3, r4>>
      /\ r7' = [r7 EXCEPT !.pending = remaining, !.moving = moving, !.archive = archive, !.index = index, !.hot = hot,
                          !.forkChoice = forkChoice]
  BY DEF RR!MoveBlocks
<1>2. /\ r7.archive \subseteq ChainSlots /\ r7.index \subseteq ChainSlots /\ r7.hot \subseteq ChainSlots
      /\ r7.forkChoice \subseteq ChainSlots /\ r7.moving \subseteq ChainSlots
  BY ServerFacts
<1>3. DOMAIN r7 = {"archive", "index", "hot", "forkChoice", "moving", "pending"}
  BY DEF RRInv, BaseInv, DbFields
<1>4. /\ moving \subseteq ChainSlots /\ archive \subseteq ChainSlots /\ index \subseteq ChainSlots
      /\ hot \subseteq ChainSlots /\ forkChoice \subseteq ChainSlots
  BY <1>2
<1> HIDE DEF remaining, moving, archive, index, hot, forkChoice
<1>5. /\ DOMAIN r7' = DOMAIN r7 /\ r7'.archive = archive /\ r7'.index = index /\ r7'.hot = hot
      /\ r7'.forkChoice = forkChoice /\ r7'.moving = moving
  BY <1>1, <1>3
<1> QED BY <1>1, <1>4, <1>5, MoveKeeps

LEMMA RRInit == ASSUME RR!Init PROVE RRInv
<1>1. /\ r1 \in Asked /\ r4 = <<>>
      /\ r2 = [phase |-> "dial", next |-> "result", firstByte |-> FALSE,
               got |-> <<>>, result |-> "none", penalty |-> "none"]
      /\ r3 = [phase |-> "idle", todo |-> {}, last |-> 0]
  BY DEF RR!Init
<1>2. PICK fin \in {0} \cup ChainSlots :
         r7 = [archive |-> {s \in ChainSlots : s <= fin}, index |-> {s \in ChainSlots : s <= fin},
               hot |-> {s \in ChainSlots : s > fin}, forkChoice |-> {s \in ChainSlots : s >= fin},
               moving |-> {}, pending |-> {}]
  BY DEF RR!Init
<1>3. /\ DOMAIN r7 = DbFields \cup {"pending"} /\ r7.archive \subseteq ChainSlots /\ r7.index \subseteq ChainSlots
      /\ r7.hot \subseteq ChainSlots /\ r7.forkChoice \subseteq ChainSlots /\ r7.moving \subseteq ChainSlots
  BY <1>2 DEF DbFields
<1>4. \A f \in DbFields : r7[f] \subseteq ChainSlots BY <1>3 DEF DbFields
<1>5. BaseInv BY <1>1, <1>3, <1>4 DEF BaseInv
<1>6. ASSUME ForBlocks(r1) PROVE BlocksInv
  <2>1. Limit(r1) \in Nat BY <1>1, RequestFacts
  <2>2. /\ r2.phase = "dial" /\ r2.next = "result" /\ r2.got = <<>> /\ Len(r2.got) = 0 /\ Len(r4) = 0
        /\ r3.phase = "idle" /\ r3.last = 0 /\ r2.got \in Seq(ChainSlots)
    BY <1>1
  <2>3. InOrder(r1, r2.got) BY <2>2 DEF InOrder
  <2>4. OnTheWire(r1, r2.next, r2.got, r4) BY <2>2 DEF OnTheWire
  <2>5. StillToSend(r1, r2.next, r2.got, r3, r4)
    <3>1. (Len(r4) + PiecesRead(r2.next)) % 3 = 0 BY <2>2 DEF PiecesRead
    <3> QED BY <2>2, <3>1 DEF StillToSend
  <2>6. Reading(r1, r2.next, r2.got, r3, r4) BY <2>1, <2>2, <2>3, <2>4, <2>5 DEF Reading
  <2> QED BY <1>1, <2>1, <2>2, <2>6 DEF BlocksInv
<1> QED BY <1>5, <1>6 DEF RRInv

LEMMA RRStep == ASSUME RRInv, RR!Next PROVE RRInv'
<1>1. CASE RR!Dial \/ RR!WriteRequest \/ RR!ReadPiece \/ RR!ReadEnd \/ RR!ReadTimeout
  BY <1>1, DialKeeps, WriteRequestKeeps, ReadPieceKeeps, ReadEndKeeps, ReadTimeoutKeeps
<1>2. CASE RR!DecodeRequest \/ RR!StreamArchive \/ RR!InjectRecentBlocks \/ RR!YieldBlock
  BY <1>2, DecodeRequestKeeps, StreamArchiveKeeps, InjectRecentBlocksKeeps, YieldBlockKeeps
<1>3. CASE RR!ServeRoot \/ RR!FinishRequest \/ RR!Disconnect
  BY <1>3, ServeRootKeeps, FinishRequestKeeps, DisconnectKeeps
<1>4. CASE \E s \in ChainSlots : RR!Finalize(s) BY <1>4, FinalizeKeeps
<1>5. CASE \E step \in {"put", "index", "delete", "prune"} : RR!MoveBlocks(step)
  BY <1>5, MoveBlocksKeeps
<1> QED BY <1>1, <1>2, <1>3, <1>4, <1>5 DEF RR!Next

\* What the inductive invariant says of an answer.
LEMMA RRInvAnswers == ASSUME RRInv PROVE RR!HonestAnswerAccepted
<1>1. r1 \in Asked /\ r2.result # "BLOCKS_BY_RANGE_ERROR" BY DEF RRInv, BaseInv
<1>2. ASSUME r1.method \notin RR!SingleResponse
      PROVE  Len(r2.got) <= RR!MaxResponses /\ RR!ToSet(r2.got) \subseteq ChainSlots
  <2>1. r2.got \in Seq(ChainSlots) /\ Len(r2.got) <= Limit(r1) BY <1>2 DEF RRInv, BlocksInv, ForBlocks
  <2>2. \A i \in 1..Len(r2.got) : r2.got[i] \in ChainSlots BY <2>1
  <2>3. RR!ToSet(r2.got) \subseteq ChainSlots BY <2>2 DEF RR!ToSet
  <2> QED BY <1>1, <2>1, <2>3, RequestNames
<1> QED BY <1>1, <1>2 DEF RR!HonestAnswerAccepted

\* A responder whose finality moves while it reads its blocks, that fails or loses the
\* connection at any point, sends what the requester accepts: the blocks of the archive
\* and those of the fork choice, joined, never fail assertSequentialBlocksInRange.
THEOREM AnswersStayAccepted == MCSpec => []HonestAnswerAccepted
<1>1. MCInit => RRTyped BY RRInit DEF MCInit, RRTyped
<1>2. RRTyped /\ [MCNext]_allVars => RRTyped'
  <2> SUFFICES ASSUME RRTyped, [MCNext]_allVars, part' = "reqresp" PROVE RRInv' BY DEF RRTyped
  <2>1. CASE part = "reqresp" /\ RR!Next BY <2>1, RRStep DEF RRTyped
  <2>2. CASE UNCHANGED allVars
    <3>1. RRInv /\ UNCHANGED <<r1, r2, r3, r4, r7>> BY <2>2 DEF RRTyped, allVars, registers
    <3> QED BY <3>1 DEF RRInv, BaseInv, BlocksInv
  <2> QED BY <2>1, <2>2 DEF MCNext
<1>3. RRTyped => HonestAnswerAccepted BY RRInvAnswers DEF RRTyped, HonestAnswerAccepted
<1> QED BY <1>1, <1>2, <1>3, PTL DEF MCSpec
=============================================================================
