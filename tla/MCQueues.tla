------------------------------ MODULE MCQueues ------------------------------
(* The node's queues for TLC: the job queue, the pool of BLS workers and   *)
(* one request over req/resp.  A behaviour is about one of them: "part"    *)
(* says which.  The job queue keeps its own variables; the other two use   *)
(* the registers r1, r2, ..., in the order of their declarations.          *)
EXTENDS JobQueue

CONSTANTS
    Calls, SetsOf, BlsWorkers, SetsPerJob,    \* the calls of the BLS pool and its sizes
    ChainSlots, Asked, MaxRequestBlocks       \* the responder's blocks, the requests, and their limit

\* A block is not the genesis block, and a request is what its SSZ type holds.
ASSUME RequestsAssumption ==
    /\ ChainSlots \subseteq Nat \ {0} /\ MaxRequestBlocks \in Nat
    /\ \A r \in Asked : /\ r.start \in Nat /\ r.count \in Nat /\ r.step \in Nat
                       /\ r.roots \subseteq Nat /\ IsFiniteSet(r.roots)

VARIABLES part, r1, r2, r3, r4, r5, r6, r7

registers == <<r1, r2, r3, r4, r5, r6, r7>>
allVars == <<part, vars, registers>>

\* Calls of one to five signature sets, two sets to a job: the largest call is split
\* unevenly and the small ones share a package.
FourCalls == <<<<"valid", "valid", "valid", "valid", "invalid">>, <<"valid">>,
               <<"malformed">>, <<"valid", "valid", "valid", "valid">>>>

Bls == INSTANCE BlsPool WITH
    Requests <- Calls, Sets <- SetsOf, Workers <- BlsWorkers, MAX_SIGNATURE_SETS_PER_JOB <- SetsPerJob,
    jobs <- r1, workers <- r2, timers <- r3, aborted <- r4, left <- r5, outcome <- r6

\* The slots that have a block: two gaps, one of them at the start.
BlockSlots == {1, 3, 4, 5}
Range3(start, count, step) ==
    [method |-> "beacon_blocks_by_range", start |-> start, count |-> count, step |-> step, roots |-> {}]
Other(method, roots) == [method |-> method, start |-> 0, count |-> 0, step |-> 1, roots |-> roots]
AllRequests ==
    {Range3(1, 3, 1), Range3(1, 4, 2), Range3(2, 0, 1), Range3(6, 2, 1),
     Other("beacon_blocks_by_root", {1, 3}), Other("status", {}), Other("ping", {})}

RR == INSTANCE ReqResp WITH
    Slots <- ChainSlots, Requests <- Asked, MAX_REQUEST_BLOCKS <- MaxRequestBlocks,
    req <- r1, client <- r2, server <- r3, wire <- r4, ended <- r5, events <- r6, db <- r7

MCInit ==
    \/ part = "queue" /\ Init /\ r1 = 0 /\ r2 = 0 /\ r3 = 0 /\ r4 = 0 /\ r5 = 0 /\ r6 = 0 /\ r7 = 0
    \/ part = "bls" /\ Bls!Init /\ r7 = 0 /\ Init /\ type = "FIFO"
    \/ part = "reqresp" /\ RR!Init /\ Init /\ type = "FIFO"

MCNext ==
    \/ part = "queue" /\ Next /\ UNCHANGED <<part, registers>>
    \/ part = "bls" /\ Bls!Next /\ UNCHANGED <<part, vars, r7>>
    \/ part = "reqresp" /\ RR!Next /\ UNCHANGED <<part, vars>>

\* The fairness of JobQueue and ReqResp, each in its own part.
MCFairness ==
    /\ WF_allVars(part = "queue" /\ TimerFires /\ UNCHANGED <<part, registers>>)
    /\ \A j \in Jobs :
          /\ WF_allVars(part = "queue" /\ ResumeAfterYield(j) /\ UNCHANGED <<part, registers>>)
          /\ WF_allVars(/\ part = "queue"
                        /\ \E outcome \in {"resolved", "rejected"} : FinishJob(j, outcome)
                        /\ UNCHANGED <<part, registers>>)
    /\ WF_allVars(part = "reqresp" /\ RR!Dial /\ UNCHANGED <<part, vars>>)
    /\ WF_allVars(part = "reqresp" /\ RR!WriteRequest /\ UNCHANGED <<part, vars>>)
    /\ WF_allVars(part = "reqresp" /\ RR!ReadTimeout /\ UNCHANGED <<part, vars>>)

\* BlsPool's VerdictsAreTrue and NoWorkForgotten: a call's answer is the conjunction of its
\* signature sets, and no work waits beside an idle worker.
BlsVerdictsAreTrue == part = "bls" => Bls!VerdictsAreTrue /\ Bls!NoWorkForgotten

\* ReqResp's HonestAnswerAccepted: the answer of a responder whose finality moves while it
\* reads its blocks is accepted by the requester.
HonestAnswerAccepted == part = "reqresp" => RR!HonestAnswerAccepted

\* ReqResp's RequestEnds: every request ends, however little the responder does.
RequestEnds == part = "reqresp" ~> (part = "reqresp" /\ r2.phase = "done")

MCSpec == MCInit /\ [][MCNext]_allVars /\ MCFairness
=============================================================================
