---------------------------- MODULE ChainProofs -----------------------------
(***************************************************************************)
(* Proofs about what happens to blocks: their import, for every list of    *)
(* segments and every order of events, and the archiving of the finalized  *)
(* ones, for every order of events, tasks and restarts.  Both for every    *)
(* tree of blocks.                                                         *)
(***************************************************************************)
EXTENDS MCChain, SequenceTheorems, WellFoundedInduction, TLAPS

-----------------------------------------------------------------------------
(***************************************************************************)
(* Trees of blocks: roots R on a genesis G, with parents P and slots S.    *)
(* The lineage of a block is a recursive function: a function that solves  *)
(* its equation has to be shown before the equation can be used.           *)
(***************************************************************************)
IsTree(R, G, P, S) ==
    /\ S[G] = 0 /\ \A r \in R \union {G} : S[r] \in Nat
    /\ \A r \in R : P[r] \in R \union {G} /\ S[P[r]] < S[r]

IsLineage(R, G, P, L) == L = [x \in R \union {G} |-> IF x = G THEN {x} ELSE {x} \union L[P[x]]]

LeastSet(R, G, P, x) ==
    {y \in R \union {G} : \A T \in SUBSET (R \union {G}) :
        x \in T /\ (\A z \in T \ {G} : P[z] \in T) => y \in T}

\* The genesis block is none of the others.
LEMMA GenesisApart ==
    ASSUME NEW R, NEW G, NEW P, NEW S, IsTree(R, G, P, S)
    PROVE  G \notin R
<1> SUFFICES ASSUME G \in R PROVE FALSE OBVIOUS
<1>1. S[P[G]] \in Nat /\ S[P[G]] < 0 BY DEF IsTree
<1> QED BY <1>1

\* The least set with x and the parents of its members solves the equation.
LEMMA LeastSetEquation ==
    ASSUME NEW R, NEW G, NEW P, NEW S, IsTree(R, G, P, S), NEW x \in R \union {G}
    PROVE  LeastSet(R, G, P, x) = IF x = G THEN {x} ELSE {x} \union LeastSet(R, G, P, P[x])
<1> DEFINE All == R \union {G}
           Least(y) == LeastSet(R, G, P, y)
<1>0. G \notin R /\ \A r \in R : P[r] \in All BY GenesisApart DEF IsTree
<1>1. CASE x = G
  <2>1. {x} \in SUBSET All OBVIOUS
  <2>2. Least(x) \subseteq {x} BY <1>1, <2>1 DEF LeastSet
  <2>3. x \in Least(x) BY DEF LeastSet
  <2> QED BY <1>1, <2>2, <2>3
<1>2. CASE x # G
  <2> DEFINE up == Least(P[x])
  <2>1. x \in R /\ P[x] \in All BY <1>0, <1>2
  <2>2. P[x] \in up BY <2>1 DEF LeastSet
  <2>3. ASSUME NEW z \in up, z # G PROVE P[z] \in up
    <3>1. z \in All BY DEF LeastSet
    <3>2. P[z] \in All BY <1>0, <2>3, <3>1
    <3>3. ASSUME NEW T \in SUBSET All, P[x] \in T, \A y \in T \ {G} : P[y] \in T
          PROVE  P[z] \in T
      <4>1. z \in T BY <3>3 DEF LeastSet
      <4> QED BY <2>3, <3>3, <4>1
    <3> QED BY <3>2, <3>3 DEF LeastSet
  <2>4. up \in SUBSET All BY DEF LeastSet
  <2> HIDE DEF up
  <2>5. Least(x) \subseteq {x} \union up
    <3>1. {x} \union up \in SUBSET All BY <2>4
    <3>2. \A z \in ({x} \union up) \ {G} : P[z] \in {x} \union up BY <2>2, <2>3
    <3> QED BY <3>1, <3>2 DEF LeastSet
  <2>6. x \in Least(x) BY DEF LeastSet
  <2>7. up \subseteq Least(x)
    <3> SUFFICES ASSUME NEW y \in up, NEW T \in SUBSET All, x \in T,
                        \A z \in T \ {G} : P[z] \in T
                 PROVE  y \in T
      BY <2>4 DEF LeastSet
    <3>1. P[x] \in T BY <1>2
    <3> QED BY <3>1 DEF up, LeastSet
  <2> QED BY <1>2, <2>5, <2>6, <2>7 DEF up
<1> QED BY <1>1, <1>2

\* There is a function that solves the equation.
LEMMA LineageExists ==
    ASSUME NEW R, NEW G, NEW P, NEW S, IsTree(R, G, P, S)
    PROVE  \E L : IsLineage(R, G, P, L)
<1> DEFINE All == R \union {G}
           f == [x \in All |-> LeastSet(R, G, P, x)]
           h == [x \in All |-> IF x = G THEN {x} ELSE {x} \union f[P[x]]]
<1>1. G \notin R BY GenesisApart
<1>2. \A r \in R : P[r] \in All BY DEF IsTree
<1>3. \A x \in All : f[x] = h[x]
  <2> SUFFICES ASSUME NEW x \in All
               PROVE  LeastSet(R, G, P, x) = IF x = G THEN {x} ELSE {x} \union f[P[x]]
    OBVIOUS
  <2>1. x # G => f[P[x]] = LeastSet(R, G, P, P[x]) BY <1>2
  <2>2. LeastSet(R, G, P, x) = IF x = G THEN {x} ELSE {x} \union LeastSet(R, G, P, P[x])
    BY LeastSetEquation
  <2> QED BY <2>1, <2>2
<1>4. f = h BY <1>3
<1>5. IsLineage(R, G, P, f) BY <1>4 DEF IsLineage
<1> QED BY <1>5

\* Every non-empty set of blocks has one of lowest slot.
LEMMA LowestBlock ==
    ASSUME NEW B, B # {}, NEW S, \A r \in B : S[r] \in Nat
    PROVE  \E r \in B : \A x \in B : S[r] <= S[x]
<1> DEFINE T == {S[r] : r \in B}
<1>1. T \in SUBSET Nat /\ T # {} OBVIOUS
<1>2. PICK s \in T : \A y \in T : <<y, s>> \notin OpToRel(<, Nat)
  BY <1>1, NatLessThanWellFounded, WFMin
<1>3. \A y \in T : ~(y < s) BY <1>1, <1>2 DEF OpToRel
<1>4. PICK r \in B : S[r] = s BY <1>2
<1>5. \A x \in B : S[x] \in T OBVIOUS
<1> HIDE DEF T
<1>6. \A y \in T : s <= y BY <1>1, <1>3
<1> QED BY <1>4, <1>5, <1>6

\* A lineage is a chain of blocks from genesis on, of rising slots, and so are its pieces.
LineageFacts(R, G, P, S, L) ==
    /\ L[G] = {G} /\ \A r \in R : L[r] = {r} \union L[P[r]]
    /\ \A r \in R \union {G} : L[r] \in SUBSET (R \union {G}) /\ r \in L[r] /\ G \in L[r]
    /\ \A r \in R \union {G} : \A x \in L[r] :
          L[x] \subseteq L[r] /\ S[x] <= S[r] /\ (x # r => S[x] < S[r])
    /\ \A r \in R \union {G} : \A x, y \in L[r] : x \in L[y] \/ y \in L[x]

\* Every function that solves the equation has these facts, by least counterexample.
LEMMA LineageIsChain ==
    ASSUME NEW R, NEW G, NEW P, NEW S, IsTree(R, G, P, S), NEW L, IsLineage(R, G, P, L)
    PROVE  LineageFacts(R, G, P, S, L)
<1> DEFINE All == R \union {G}
<1>1. G \notin R BY GenesisApart
<1>2. /\ \A r \in R : P[r] \in All /\ S[P[r]] < S[r]
      /\ \A r \in All : S[r] \in Nat
  BY DEF IsTree
<1>3. L[G] = {G} /\ \A r \in R : L[r] = {r} \union L[P[r]] BY <1>1 DEF IsLineage
<1> DEFINE Good(r) == /\ L[r] \in SUBSET All /\ r \in L[r] /\ G \in L[r]
                      /\ \A x \in L[r] : L[x] \subseteq L[r] /\ S[x] <= S[r] /\ (x # r => S[x] < S[r])
                      /\ \A x, y \in L[r] : x \in L[y] \/ y \in L[x]
           Bad == {r \in All : ~Good(r)}
<1>4. Bad = {}
  <2> SUFFICES ASSUME Bad # {} PROVE FALSE OBVIOUS
  <2>1. \A r \in Bad : S[r] \in Nat BY <1>2
  <2>2. PICK r \in Bad : \A x \in Bad : S[r] <= S[x]
    <3> HIDE DEF Bad
    <3> QED BY <2>1, LowestBlock
  <2>3. r \in All /\ ~Good(r) OBVIOUS
  <2>4. r # G
    <3> SUFFICES ASSUME r = G PROVE FALSE OBVIOUS
    <3>1. S[G] \in Nat BY <1>2
    <3> QED BY <1>3, <2>3, <3>1
  <2> DEFINE p == P[r]
  <2>5. r \in R /\ p \in All /\ S[p] < S[r] /\ S[p] \in Nat /\ S[r] \in Nat /\ L[r] = {r} \union L[p]
    BY <1>2, <1>3, <2>3, <2>4
  <2> HIDE DEF p
  <2>6. p \notin Bad
    <3> HIDE DEF Bad
    <3> QED BY <2>2, <2>5
  <2>7. Good(p) BY <2>5, <2>6
  <2>8. \A x \in L[p] : S[x] < S[r]
    <3> SUFFICES ASSUME NEW x \in L[p] PROVE S[x] < S[r] OBVIOUS
    <3>1. S[x] \in Nat /\ S[x] <= S[p] BY <1>2, <2>7
    <3> QED BY <2>5, <3>1
  <2>9. \A x \in L[r] : L[x] \subseteq L[r] /\ S[x] <= S[r] /\ (x # r => S[x] < S[r])
    <3> SUFFICES ASSUME NEW x \in L[r]
                 PROVE  L[x] \subseteq L[r] /\ S[x] <= S[r] /\ (x # r => S[x] < S[r])
      OBVIOUS
    <3>1. CASE x = r BY <2>5, <3>1
    <3>2. CASE x \in L[p]
      <4>1. L[x] \subseteq L[r] BY <2>5, <2>7, <3>2
      <4>2. S[x] < S[r] /\ S[x] \in Nat BY <1>2, <2>7, <2>8, <3>2
      <4> QED BY <2>5, <4>1, <4>2
    <3> QED BY <2>5, <3>1, <3>2
  <2>10. \A x, y \in L[r] : x \in L[y] \/ y \in L[x] BY <2>5, <2>7
  <2> QED BY <2>3, <2>5, <2>7, <2>9, <2>10
<1>5. \A r \in All : Good(r) BY <1>4
<1> QED BY <1>3, <1>5 DEF LineageFacts

-----------------------------------------------------------------------------
(***************************************************************************)
(* Block import.  First its tree of blocks.                                *)
(***************************************************************************)

\* TreeAssumption says that it is one.
LEMMA BlockTree == IsTree(Roots, Genesis, Parent, Slot)
BY TreeAssumption DEF IsTree, AllRoots

\* Parents are earlier blocks of the tree, and genesis has none.
LEMMA TreeFacts ==
    /\ Genesis \notin Roots /\ Slot[Genesis] = 0
    /\ \A r \in AllRoots : Slot[r] \in Nat
    /\ \A r \in Roots : Parent[r] \in AllRoots /\ Slot[Parent[r]] < Slot[r]
<1>1. Genesis \notin Roots BY BlockTree, GenesisApart
<1> QED BY <1>1, BlockTree DEF IsTree, AllRoots

\* Its lineages are those of a tree.
LEMMA BlockLineage ==
    \E L : LineageFacts(Roots, Genesis, Parent, Slot, L) /\ \A r : Lineage(r) = L[r]
<1> DEFINE L == CHOOSE f : IsLineage(Roots, Genesis, Parent, f)
<1>1. \A r : Lineage(r) = L[r] BY DEF Lineage, IsLineage, AllRoots
<1>2. IsLineage(Roots, Genesis, Parent, L) BY BlockTree, LineageExists
<1> HIDE DEF L
<1>3. LineageFacts(Roots, Genesis, Parent, Slot, L) BY <1>2, BlockTree, LineageIsChain
<1> QED BY <1>1, <1>3

\* What the lineage of a block is.
LEMMA LineageEquation ==
    /\ Lineage(Genesis) = {Genesis}
    /\ \A r \in Roots : Lineage(r) = {r} \union Lineage(Parent[r])
BY BlockLineage DEF LineageFacts

\* A lineage has only blocks of the tree, its own block first.
LEMMA LineageType ==
    \A r \in AllRoots : Lineage(r) \in SUBSET AllRoots /\ r \in Lineage(r)
BY BlockLineage DEF LineageFacts, AllRoots

\* The lineage of an ancestor is part of the lineage, and slots go up along it.
LEMMA LineageTransitive ==
    \A r \in AllRoots : \A x \in Lineage(r) :
        Lineage(x) \subseteq Lineage(r) /\ Slot[x] <= Slot[r] /\ (x # r => Slot[x] < Slot[r])
BY BlockLineage DEF LineageFacts, AllRoots

\* A lineage is a chain.
LEMMA LineageLinear ==
    \A r \in AllRoots : \A x, y \in Lineage(r) : x \in Lineage(y) \/ y \in Lineage(x)
BY BlockLineage DEF LineageFacts, AllRoots

\* Blocks that are in each other's lineage are one.
LEMMA LineageAntisymmetric ==
    ASSUME NEW x \in AllRoots, NEW y \in AllRoots, x \in Lineage(y), y \in Lineage(x)
    PROVE  x = y
<1> SUFFICES ASSUME x # y PROVE FALSE OBVIOUS
<1>1. Slot[x] < Slot[y] /\ Slot[y] < Slot[x] BY LineageTransitive
<1>2. Slot[x] \in Nat /\ Slot[y] \in Nat BY TreeFacts
<1> QED BY <1>1, <1>2

\* getMissingAncestor comes to an end, in a block of the tree.
LEMMA MissingAncestorType ==
    ASSUME blocks \in SUBSET Roots, NEW r \in AllRoots
    PROVE  GetMissingAncestor(r) \in AllRoots
<1> DEFINE Solves(f) == f = [x \in AllRoots |-> IF x \in blocks THEN f[Parent[x]] ELSE x]
           M == CHOOSE f : Solves(f)
           Out(x) == {z \in Lineage(x) : z \notin blocks}
           Next1(x) == CHOOSE y \in Out(x) : \A z \in Out(x) : z \in Lineage(y)
           f0 == [x \in AllRoots |-> Next1(x)]
<1>1. GetMissingAncestor(r) = M[r] BY DEF GetMissingAncestor
<1>2. ASSUME NEW x \in AllRoots PROVE f0[x] = IF x \in blocks THEN f0[Parent[x]] ELSE x
  <2>1. CASE x \in blocks
    <3>1. x \in Roots /\ Parent[x] \in AllRoots BY <2>1, TreeFacts
    <3>2. Out(x) = Out(Parent[x]) BY <2>1, <3>1, LineageEquation
    <3>3. Next1(x) = Next1(Parent[x]) BY <3>2
    <3> HIDE DEF Next1
    <3> QED BY <2>1, <3>1, <3>3
  <2>2. CASE x \notin blocks
    <3>1. x \in Out(x) /\ \A z \in Out(x) : z \in Lineage(x) BY <2>2, LineageType
    <3>2. Next1(x) \in Out(x) /\ \A z \in Out(x) : z \in Lineage(Next1(x)) BY <3>1
    <3> HIDE DEF Next1
    <3>3. Next1(x) \in Lineage(x) /\ x \in Lineage(Next1(x)) BY <3>1, <3>2
    <3>4. Next1(x) \in AllRoots BY <3>3, LineageType
    <3>5. Next1(x) = x BY <3>3, <3>4, LineageAntisymmetric
    <3> QED BY <2>2, <3>5
  <2> QED BY <2>1, <2>2
<1>3. Solves(f0)
  <2> HIDE DEF Next1
  <2> QED BY <1>2
<1>4. Solves(M)
  <2> HIDE DEF f0
  <2> QED BY <1>3
<1> HIDE DEF M
<1>5. \A x \in AllRoots : M[x] = IF x \in blocks THEN M[Parent[x]] ELSE x BY <1>4
<1> DEFINE Bad == {x \in AllRoots : M[x] \notin AllRoots}
<1>6. Bad = {}
  <2> SUFFICES ASSUME Bad # {} PROVE FALSE OBVIOUS
  <2>1. PICK x \in Bad : \A y \in Bad : Slot[x] <= Slot[y] BY LowestBlock, TreeFacts
  <2>2. x \in blocks /\ M[x] = M[Parent[x]] BY <1>5, <2>1
  <2>3. Parent[x] \in AllRoots /\ Slot[Parent[x]] < Slot[x] /\ Slot[Parent[x]] \in Nat /\ Slot[x] \in Nat
    BY <2>2, TreeFacts DEF AllRoots
  <2> QED BY <2>1, <2>2, <2>3
<1> QED BY <1>1, <1>6

-----------------------------------------------------------------------------
(***************************************************************************)
(* The inductive invariant, in parts that each speak of few variables.     *)
(***************************************************************************)
QueuedJobs ==
    {j \in [kind : {"block", "segment"}, blocks : Seq(Roots)] : j.kind = "block" => j.blocks # <<>>}
QueueInv == queue \in Seq(QueuedJobs) /\ Len(queue) <= MaxLength

PoolInv == /\ blocks \in SUBSET Roots /\ byParent \in SUBSET Roots /\ bySlot \in SUBSET Roots
           /\ dbPending \in SUBSET Roots
           /\ PoolIndexesAgree

RootsOf(bag) == \A call \in DOMAIN bag : call.root \in AllRoots
CallsInv == RootsOf(calls)
ClockInv == clock \in InitSlot..MaxSlot

\* What is finalized stays connected, and above its slot a known block has a known parent.
TreeInv ==
    /\ known \in SUBSET AllRoots
    /\ finalized \in [root : AllRoots, slot : Nat]
    /\ Slot[finalized.root] <= finalized.slot
    /\ \A r \in known : Slot[r] > finalized.slot => Parent[r] \in known
    /\ TreeIsConnected

\* A job runs a chain of blocks, each on the state of the one before it.
JobInv ==
    /\ job \in [kind : {"none", "block", "segment"}, at : {"idle", "preState", "run", "verify"},
                todo : Seq(Roots), done : SUBSET Roots, pre : AllRoots]
    /\ Linear(job.todo)
    /\ job.at \in {"preState", "run"} => job.todo # <<>>
    /\ RunsOnParentState

ImportInv == QueueInv /\ PoolInv /\ CallsInv /\ ClockInv /\ TreeInv /\ JobInv

-----------------------------------------------------------------------------
(* The parts, one by one. *)

\* A job that is pushed, or dropped from a full queue, keeps the queue typed.
LEMMA PushKeepsQueue ==
    ASSUME QueueInv, NEW kind \in {"block", "segment"}, NEW list \in Seq(Roots),
           kind = "block" => list # <<>>, Push(kind, list)
    PROVE  QueueInv'
<1>1. [kind |-> kind, blocks |-> list] \in QueuedJobs BY DEF QueuedJobs
<1>2. CASE UNCHANGED queue BY <1>2 DEF QueueInv
<1>3. CASE Len(queue) + 1 <= MaxLength /\ queue' = Append(queue, [kind |-> kind, blocks |-> list])
  BY <1>1, <1>3, BoundsAssumption DEF QueueInv
<1>4. Len(queue) \in Nat /\ MaxLength \in Nat BY BoundsAssumption DEF QueueInv
<1> QED BY <1>2, <1>3, <1>4 DEF Push

\* No step breaks the queue of jobs.
LEMMA QueueKept == ASSUME ImportInv, [Next]_vars PROVE QueueInv'
<1>1. QueueInv BY DEF ImportInv
<1>2. ASSUME NEW r \in AllRoots, r \in Roots, Push("block", <<r>>) PROVE QueueInv'
  <2>1. <<r>> \in Seq(Roots) /\ <<r>> # <<>> BY <1>2
  <2> QED BY <1>1, <1>2, <2>1, PushKeepsQueue
<1>3. ASSUME NEW r \in Roots, ReceiveBlock(r) PROVE QueueInv' BY <1>2, <1>3 DEF ReceiveBlock, AllRoots
<1>4. ASSUME NEW list \in Segments, ReceiveSegment(list) PROVE QueueInv'
  <2>1. list \in Seq(Roots) /\ Push("segment", list) BY <1>4, SegmentsAssumption DEF ReceiveSegment
  <2> QED BY <1>1, <2>1, PushKeepsQueue
<1>5. CASE queue # <<>> /\ queue' = Tail(queue)
  <2>1. Tail(queue) \in Seq(QueuedJobs) /\ Len(Tail(queue)) = Len(queue) - 1 /\ Len(queue) \in Nat
    BY <1>1, <1>5 DEF QueueInv
  <2> QED BY <1>1, <1>5, <2>1, BoundsAssumption DEF QueueInv
<1>6. ASSUME NEW r \in AllRoots, FetchSucceeds(r) PROVE QueueInv'
  <2>1. UNCHANGED queue \/ (r \in Roots /\ Push("block", <<r>>)) BY <1>6 DEF FetchSucceeds, AllRoots
  <2> QED BY <1>1, <1>2, <2>1 DEF QueueInv
<1>7. ASSUME NEW r \in Roots, PendingBlockDeleted(r) PROVE QueueInv'
  BY <1>2, <1>7 DEF PendingBlockDeleted, AllRoots
<1>8. CASE UNCHANGED queue BY <1>1, <1>8 DEF QueueInv
<1>9. ProcessBlockJob \/ ProcessChainSegmentJob => queue # <<>> /\ queue' = Tail(queue)
  BY DEF ProcessBlockJob, ProcessChainSegmentJob
<1>10. ASSUME NEW r \in AllRoots,
              \/ GetPreState \/ RunStateTransition \/ VerifySignatures \/ FetchFails(r)
              \/ FutureBlockStored(r) \/ OrphanStored(r) \/ OnBlock(r) \/ PendingBlockRead(r)
              \/ OnClockSlot \/ Finalize(r) \/ Prune \/ UNCHANGED vars
       PROVE  UNCHANGED queue
  BY <1>10 DEF GetPreState, RunStateTransition, VerifySignatures, FetchFails, FutureBlockStored,
       OrphanStored, OnBlock, PendingBlockRead, OnClockSlot, Finalize, Prune, vars
<1> QED BY <1>3, <1>4, <1>5, <1>6, <1>7, <1>8, <1>9, <1>10 DEF Next, AllRoots

\* No step makes the indexes of the block pool disagree.
LEMMA PoolKept == ASSUME ImportInv, [Next]_vars PROVE PoolInv'
<1>1. PoolInv BY DEF ImportInv
<1>2. ASSUME NEW r \in Roots, NEW code, OnErrorBlock(r, code), UNCHANGED dbPending PROVE PoolInv'
  BY <1>1, <1>2 DEF OnErrorBlock, AddBySlot, AddByParent, PoolInv, PoolIndexesAgree, pool
<1>3. CASE ProcessBlockJob
  <2>1. Head(queue) \in QueuedJobs BY <1>3 DEF ProcessBlockJob, ImportInv, QueueInv
  <2>2. Head(queue).blocks[1] \in Roots BY <1>3, <2>1 DEF ProcessBlockJob, QueuedJobs
  <2>3. UNCHANGED dbPending /\ (UNCHANGED pool \/ \E code : OnErrorBlock(Head(queue).blocks[1], code))
    BY <1>3 DEF ProcessBlockJob
  <2> QED BY <1>1, <1>2, <2>2, <2>3 DEF PoolInv, PoolIndexesAgree, pool
<1>4. ASSUME NEW r \in Roots, FutureBlockStored(r) \/ OrphanStored(r) \/ PendingBlockDeleted(r) PROVE PoolInv'
  BY <1>1, <1>4
     DEF FutureBlockStored, OrphanStored, PendingBlockDeleted, PoolInv, PoolIndexesAgree, pool
<1>5. ASSUME NEW r \in Roots, PendingBlockRead(r) PROVE PoolInv'
  BY <1>1, <1>5 DEF PendingBlockRead, RemoveBlock, PoolInv, PoolIndexesAgree, pool
<1>6. CASE UNCHANGED <<pool, dbPending>> BY <1>1, <1>6 DEF PoolInv, PoolIndexesAgree, pool
<1>7. ASSUME NEW r \in AllRoots, NEW list,
             \/ ReceiveBlock(r) \/ ReceiveSegment(list) \/ ProcessChainSegmentJob
             \/ GetPreState \/ RunStateTransition \/ VerifySignatures \/ FetchSucceeds(r) \/ FetchFails(r)
             \/ OnBlock(r) \/ OnClockSlot \/ Finalize(r) \/ Prune \/ UNCHANGED vars
      PROVE  UNCHANGED <<pool, dbPending>>
  BY <1>7 DEF ReceiveBlock, ReceiveSegment, ProcessChainSegmentJob, GetPreState, RunStateTransition,
       VerifySignatures, FetchSucceeds, FetchFails, OnBlock, OnClockSlot, Finalize, Prune, vars
<1> QED BY <1>3, <1>4, <1>5, <1>6, <1>7 DEF Next, AllRoots

\* What handlers come to await, and what returns.
LEMMA CallsMade ==
    ASSUME NEW bag, RootsOf(bag), NEW at, NEW R \in SUBSET AllRoots
    PROVE  RootsOf(bag (+) Calls(at, R))
<1>1. DOMAIN (bag (+) Calls(at, R)) = DOMAIN bag \union {Call(at, r) : r \in R}
  BY DEF (+), Calls, SetToBag
<1>2. \A r \in R : Call(at, r).root \in AllRoots BY DEF Call
<1> QED BY <1>1, <1>2 DEF RootsOf

\* A call that returns leaves only calls about roots of the tree.
LEMMA CallReturned ==
    ASSUME RootsOf(calls), NEW at, NEW r
    PROVE  RootsOf(Return(at, r))
BY DEF Return, (-), RootsOf

\* No step makes a call about anything but a block of the tree.
LEMMA CallsKept == ASSUME ImportInv, [Next]_vars PROVE CallsInv'
<1>1. RootsOf(calls) BY DEF ImportInv, CallsInv
<1>2. CASE ProcessBlockJob
  <2>1. Head(queue) \in QueuedJobs BY <1>2 DEF ProcessBlockJob, ImportInv, QueueInv
  <2>2. {Head(queue).blocks[1]} \in SUBSET AllRoots
    BY <1>2, <2>1 DEF ProcessBlockJob, QueuedJobs, AllRoots
  <2>3. \/ UNCHANGED calls
        \/ \E at : calls' = calls (+) Calls(at, {Head(queue).blocks[1]})
    BY <1>2 DEF ProcessBlockJob, OnErrorBlock
  <2> QED BY <1>1, <2>2, <2>3, CallsMade DEF CallsInv, RootsOf
<1>3. ASSUME NEW r \in AllRoots,
             \/ FutureBlockStored(r) \/ FetchSucceeds(r) \/ FetchFails(r) \/ PendingBlockDeleted(r)
      PROVE  CallsInv'
  <2>1. \E at : calls' = Return(at, r)
    BY <1>3 DEF FutureBlockStored, FetchSucceeds, FetchFails, PendingBlockDeleted
  <2> QED BY <1>1, <2>1, CallReturned DEF CallsInv, RootsOf
<1>4. ASSUME NEW r \in Roots, OrphanStored(r) PROVE CallsInv'
  <2>1. GetMissingAncestor(r) \in AllRoots
    BY MissingAncestorType DEF ImportInv, PoolInv, AllRoots
  <2>2. RootsOf(Return("storingOrphan", r)) BY <1>1, CallReturned
  <2>3. {GetMissingAncestor(r)} \in SUBSET AllRoots BY <2>1
  <2>4. \/ calls' = Return("storingOrphan", r)
        \/ calls' = Return("storingOrphan", r) (+) Calls("fetching", {GetMissingAncestor(r)})
    BY <1>4 DEF OrphanStored
  <2>5. RootsOf(Return("storingOrphan", r) (+) Calls("fetching", {GetMissingAncestor(r)}))
    BY <2>2, <2>3, CallsMade
  <2> QED BY <2>2, <2>4, <2>5 DEF CallsInv, RootsOf
<1>5. ASSUME NEW r \in Roots, OnBlock(r) PROVE CallsInv'
  <2>1. RootsOf(Return("importing", r)) BY <1>1, CallReturned
  <2>2. GetByParent(r) \in SUBSET AllRoots BY DEF GetByParent, ImportInv, PoolInv, AllRoots
  <2>3. RootsOf(Return("importing", r) (+) Calls("reading", GetByParent(r))) BY <2>1, <2>2, CallsMade
  <2> QED BY <1>5, <2>3 DEF OnBlock, CallsInv, RootsOf
<1>6. ASSUME NEW r \in Roots, PendingBlockRead(r) PROVE CallsInv'
  <2>1. RootsOf(Return("reading", r)) BY <1>1, CallReturned
  <2>2. {r} \in SUBSET AllRoots BY DEF AllRoots
  <2>3. RootsOf(Return("reading", r) (+) Calls("deleting", {r})) BY <2>1, <2>2, CallsMade
  <2> QED BY <1>6, <2>1, <2>3 DEF PendingBlockRead, CallsInv, RootsOf
<1>7. CASE OnClockSlot
  <2>1. GetBySlot(clock + 1) \in SUBSET AllRoots BY DEF GetBySlot, ImportInv, PoolInv, AllRoots
  <2>2. RootsOf(calls (+) Calls("reading", GetBySlot(clock + 1))) BY <1>1, <2>1, CallsMade
  <2> QED BY <1>7, <2>2 DEF OnClockSlot, CallsInv, RootsOf
<1>8. CASE RunStateTransition
  <2>1. Head(job.todo) \in Roots BY <1>8 DEF RunStateTransition, ImportInv, JobInv
  <2>2. {Head(job.todo)} \in SUBSET AllRoots BY <2>1 DEF AllRoots
  <2>3. RootsOf(calls (+) Calls("importing", {Head(job.todo)})) BY <1>1, <2>2, CallsMade
  <2> QED BY <1>1, <1>8, <2>3 DEF RunStateTransition, CallsInv, RootsOf
<1>9. CASE UNCHANGED calls BY <1>1, <1>9 DEF CallsInv, RootsOf
<1>10. ASSUME NEW r \in AllRoots, NEW list,
             \/ ReceiveBlock(r) \/ ReceiveSegment(list) \/ ProcessChainSegmentJob
             \/ GetPreState \/ VerifySignatures \/ Finalize(r) \/ Prune \/ UNCHANGED vars
      PROVE  UNCHANGED calls
  BY <1>10 DEF ReceiveBlock, ReceiveSegment, ProcessChainSegmentJob, GetPreState,
       VerifySignatures, Finalize, Prune, vars
<1> QED BY <1>2, <1>3, <1>4, <1>5, <1>6, <1>7, <1>8, <1>9, <1>10 DEF Next, AllRoots

\* The clock stays within its bounds.
LEMMA ClockKept == ASSUME ImportInv, [Next]_vars PROVE ClockInv'
<1>1. ClockInv BY DEF ImportInv
<1>2. CASE OnClockSlot BY <1>1, <1>2, BoundsAssumption DEF OnClockSlot, ClockInv
<1>3. CASE UNCHANGED clock BY <1>1, <1>3 DEF ClockInv
<1>4. ASSUME NEW r \in AllRoots, NEW list,
             \/ ReceiveBlock(r) \/ ReceiveSegment(list) \/ ProcessBlockJob \/ ProcessChainSegmentJob
             \/ GetPreState \/ RunStateTransition \/ VerifySignatures \/ FetchSucceeds(r) \/ FetchFails(r)
             \/ FutureBlockStored(r) \/ OrphanStored(r) \/ OnBlock(r) \/ PendingBlockRead(r)
             \/ PendingBlockDeleted(r) \/ Finalize(r) \/ Prune \/ UNCHANGED vars
      PROVE  UNCHANGED clock
  BY <1>4 DEF ReceiveBlock, ReceiveSegment, ProcessBlockJob, ProcessChainSegmentJob, GetPreState,
       RunStateTransition, VerifySignatures, FetchSucceeds, FetchFails, FutureBlockStored, OrphanStored,
       OnBlock, PendingBlockRead, PendingBlockDeleted, Finalize, Prune, vars
<1> QED BY <1>2, <1>3, <1>4 DEF Next, AllRoots

\* A checkpoint's slot is not before its block.
LEMMA CheckpointSlotFacts ==
    ASSUME NEW r \in AllRoots
    PROVE  CheckpointSlot(r) \in Nat /\ Slot[r] <= CheckpointSlot(r)
<1> DEFINE s == Slot[r]
           E == SlotsPerEpoch
           q == (s + E - 1) \div E
<1>1. s \in Nat /\ E \in Nat \ {0} BY TreeFacts, BoundsAssumption
<1>2. CheckpointSlot(r) = q * E BY DEF CheckpointSlot
<1> HIDE DEF s, E
<1>3. s + E - 1 \in Nat BY <1>1
<1>4. q \in Nat /\ s + E - 1 = E * q + ((s + E - 1) % E) /\ (s + E - 1) % E \in 0..(E - 1) BY <1>1, <1>3
<1> HIDE DEF q
<1>5. q * E = E * q /\ E * q \in Nat BY <1>1, <1>4
<1> QED BY <1>1, <1>2, <1>4, <1>5 DEF s

\* onBlock: a block whose parent is known joins what is connected.
LEMMA ImportKeepsTree ==
    ASSUME TreeInv, NEW r \in Roots, ForkChoiceAccepts(r), known' = known \union {r}, UNCHANGED finalized
    PROVE  TreeInv'
<1>1. /\ Parent[r] \in known /\ finalized.root \in Lineage(r) /\ finalized.root \in AllRoots
      /\ known \subseteq AllRoots
  BY DEF ForkChoiceAccepts, TreeInv
<1>2. known' \in SUBSET AllRoots BY <1>1 DEF AllRoots
<1>3. \A x \in known' : Slot[x] > finalized.slot => Parent[x] \in known' BY <1>1 DEF TreeInv
<1>4. ASSUME NEW x \in known', finalized.root \in Lineage(x)
      PROVE  Lineage(x) \ Lineage(finalized.root) \subseteq known'
  <2>1. CASE x \in known BY <1>4, <2>1 DEF TreeInv, TreeIsConnected
  <2>2. CASE x = r
    <3>1. Lineage(r) = {r} \union Lineage(Parent[r]) BY LineageEquation
    <3>2. CASE finalized.root = r BY <2>2, <3>2
    <3>3. CASE finalized.root # r
      <4>1. finalized.root \in Lineage(Parent[r]) BY <1>1, <3>1, <3>3
      <4>2. Lineage(Parent[r]) \ Lineage(finalized.root) \subseteq known
        BY <1>1, <4>1 DEF TreeInv, TreeIsConnected
      <4> QED BY <2>2, <3>1, <4>2
    <3> QED BY <3>2, <3>3
  <2> QED BY <2>1, <2>2
<1>5. TreeIsConnected'
  <2>1. \A x : Lineage(x)' = Lineage(x) BY DEF Lineage
  <2> QED BY <1>4, <2>1 DEF TreeIsConnected
<1> QED BY <1>2, <1>3, <1>5 DEF TreeInv

\* A later finalized checkpoint on the same chain keeps its descendants connected.
LEMMA FinalizeKeepsTree ==
    ASSUME TreeInv, NEW r \in Roots, Finalize(r)
    PROVE  TreeInv'
<1>1. /\ known \subseteq AllRoots /\ finalized \in [root : AllRoots, slot : Nat]
      /\ r \in known /\ finalized.root \in Lineage(r) /\ CheckpointSlot(r) > finalized.slot
      /\ finalized' = [root |-> r, slot |-> CheckpointSlot(r)] /\ UNCHANGED known
  BY DEF TreeInv, Finalize
<1>2. CheckpointSlot(r) \in Nat /\ Slot[r] <= CheckpointSlot(r) BY CheckpointSlotFacts DEF AllRoots
<1>3. finalized' \in [root : AllRoots, slot : Nat] /\ finalized'.root = r /\ finalized'.slot = CheckpointSlot(r)
  BY <1>1, <1>2 DEF AllRoots
<1>4. \A x \in known : Slot[x] > CheckpointSlot(r) => Parent[x] \in known
  BY <1>1, <1>2, TreeFacts DEF TreeInv
<1>5. ASSUME NEW x \in known, r \in Lineage(x) PROVE Lineage(x) \ Lineage(r) \subseteq known
  <2>1. x \in AllRoots /\ r \in AllRoots BY <1>1
  <2>2. Lineage(r) \subseteq Lineage(x) /\ Lineage(finalized.root) \subseteq Lineage(r)
    BY <1>1, <1>5, <2>1, LineageTransitive
  <2>3. Lineage(x) \ Lineage(finalized.root) \subseteq known BY <1>1, <2>2 DEF TreeInv, TreeIsConnected
  <2> QED BY <2>2, <2>3
<1>6. TreeIsConnected'
  <2>1. \A x : Lineage(x)' = Lineage(x) BY DEF Lineage
  <2>2. (finalized.root)' = r BY <1>3
  <2>3. ASSUME NEW x \in known', r \in Lineage(x) PROVE Lineage(x) \ Lineage(r) \subseteq known'
    BY <1>1, <1>5, <2>3
  <2>4. Lineage(finalized.root)' = Lineage(r) BY <2>2 DEF Lineage
  <2> QED BY <2>1, <2>2, <2>3, <2>4 DEF TreeIsConnected
<1> QED BY <1>1, <1>2, <1>3, <1>4, <1>6 DEF TreeInv

\* Pruning drops nothing between the finalized block and its descendants.
LEMMA PruneKeepsTree ==
    ASSUME TreeInv, Prune
    PROVE  TreeInv'
<1>1. /\ known \subseteq AllRoots /\ finalized \in [root : AllRoots, slot : Nat]
      /\ Slot[finalized.root] <= finalized.slot
      /\ known' = {r \in known : finalized.root \in Lineage(r)} /\ UNCHANGED finalized
  BY DEF TreeInv, Prune
<1>2. ASSUME NEW r \in known', Slot[r] > finalized.slot PROVE Parent[r] \in known'
  <2>1. r \in known /\ finalized.root \in Lineage(r) /\ Parent[r] \in known BY <1>1, <1>2 DEF TreeInv
  <2>2. r # finalized.root BY <1>1, <1>2, TreeFacts
  <2>3. r \in Roots BY <1>1, <2>1, <2>2, LineageEquation DEF AllRoots
  <2>4. finalized.root \in Lineage(Parent[r]) BY <2>1, <2>2, <2>3, LineageEquation
  <2> QED BY <1>1, <2>1, <2>4
<1>3. ASSUME NEW x \in known' PROVE Lineage(x) \ Lineage(finalized.root) \subseteq known'
  <2> SUFFICES ASSUME NEW y \in Lineage(x), y \notin Lineage(finalized.root) PROVE y \in known' OBVIOUS
  <2>1. x \in known /\ x \in AllRoots /\ finalized.root \in Lineage(x) BY <1>1
  <2>2. y \in known BY <2>1 DEF TreeInv, TreeIsConnected
  <2>3. finalized.root \in Lineage(y) BY <2>1, LineageLinear
  <2> QED BY <1>1, <2>2, <2>3
<1>4. TreeIsConnected'
  <2>1. \A x : Lineage(x)' = Lineage(x) BY DEF Lineage
  <2>2. Lineage(finalized.root)' = Lineage(finalized.root) BY <1>1 DEF Lineage
  <2> QED BY <1>1, <1>3, <2>1, <2>2 DEF TreeIsConnected
<1> QED BY <1>1, <1>2, <1>4 DEF TreeInv

\* No step disconnects the fork choice.
LEMMA TreeKept == ASSUME ImportInv, [Next]_vars PROVE TreeInv'
<1>1. TreeInv BY DEF ImportInv
<1>2. CASE UNCHANGED <<known, finalized>>
  <2>1. TreeIsConnected'
    <3>1. \A x : Lineage(x)' = Lineage(x) BY DEF Lineage
    <3>2. Lineage(finalized.root)' = Lineage(finalized.root) BY <1>2 DEF Lineage
    <3> QED BY <1>1, <1>2, <3>1, <3>2 DEF TreeInv, TreeIsConnected
  <2> QED BY <1>1, <1>2, <2>1 DEF TreeInv
<1>3. CASE RunStateTransition
  <2>1. Head(job.todo) \in Roots BY <1>3 DEF RunStateTransition, ImportInv, JobInv
  <2>2. \/ UNCHANGED <<known, finalized>>
        \/ /\ ForkChoiceAccepts(Head(job.todo)) /\ known' = known \union {Head(job.todo)}
           /\ UNCHANGED finalized
    BY <1>3 DEF RunStateTransition
  <2> QED BY <1>1, <1>2, <2>1, <2>2, ImportKeepsTree
<1>4. ASSUME NEW r \in Roots, Finalize(r) PROVE TreeInv' BY <1>1, <1>4, FinalizeKeepsTree
<1>5. CASE Prune BY <1>1, <1>5, PruneKeepsTree
<1>6. ASSUME NEW r \in AllRoots, NEW list,
             \/ ReceiveBlock(r) \/ ReceiveSegment(list) \/ ProcessBlockJob \/ ProcessChainSegmentJob
             \/ GetPreState \/ VerifySignatures \/ FetchSucceeds(r) \/ FetchFails(r)
             \/ FutureBlockStored(r) \/ OrphanStored(r) \/ OnBlock(r) \/ PendingBlockRead(r)
             \/ PendingBlockDeleted(r) \/ OnClockSlot \/ UNCHANGED vars
      PROVE  UNCHANGED <<known, finalized>>
  BY <1>6 DEF ReceiveBlock, ReceiveSegment, ProcessBlockJob, ProcessChainSegmentJob, GetPreState,
       VerifySignatures, FetchSucceeds, FetchFails, FutureBlockStored, OrphanStored,
       OnBlock, PendingBlockRead, PendingBlockDeleted, OnClockSlot, vars
<1> QED BY <1>2, <1>3, <1>4, <1>5, <1>6 DEF Next, AllRoots

-----------------------------------------------------------------------------
(* The filter of a segment, and the job. *)

Pushed(f, i, list) ==
    CASE i = 0 -> <<>>
      [] i > 0 /\ ValidateBlock(list[i]) = "OK" -> Append(f[i - 1], list[i])
      [] OTHER -> f[i - 1]

\* The loop over a segment has a result after every turn.
LEMMA LoopHasResult ==
    ASSUME NEW list
    PROVE  \A n \in Nat : \E f : f = [i \in 0..n |-> Pushed(f, i, list)]
<1> DEFINE Bad == {n \in Nat : ~\E f : f = [i \in 0..n |-> Pushed(f, i, list)]}
<1> SUFFICES ASSUME Bad # {} PROVE FALSE OBVIOUS
<1>1. PICK n \in Bad : \A m \in Bad : <<m, n>> \notin OpToRel(<, Nat)
  BY NatLessThanWellFounded, WFMin
<1>2. \A m \in Bad : ~(m < n) BY <1>1 DEF OpToRel
<1>3. CASE n = 0
  <2> DEFINE f == [i \in 0..0 |-> <<>>]
  <2>1. f = [i \in 0..n |-> Pushed(f, i, list)] BY <1>3 DEF Pushed
  <2> QED BY <2>1
<1>4. CASE n > 0
  <2>1. n - 1 \in Nat /\ n - 1 \notin Bad BY <1>2, <1>4
  <2>2. PICK g : g = [i \in 0..(n - 1) |-> Pushed(g, i, list)] BY <2>1
  <2> DEFINE f == [i \in 0..n |-> IF i = n THEN Pushed(g, n, list) ELSE g[i]]
  <2>3. ASSUME NEW i \in 0..n PROVE f[i] = Pushed(f, i, list)
    <3>1. i # 0 => f[i - 1] = g[i - 1] BY <1>4
    <3>2. Pushed(f, i, list) = Pushed(g, i, list)
      <4> HIDE DEF f
      <4> QED BY <3>1 DEF Pushed
    <3>3. i # n => g[i] = Pushed(g, i, list) BY <2>2
    <3> HIDE DEF Pushed
    <3> QED BY <3>2, <3>3
  <2>4. f = [i \in 0..n |-> Pushed(f, i, list)]
    <3> DEFINE h == [i \in 0..n |-> Pushed(f, i, list)]
    <3>1. \A i \in 0..n : f[i] = h[i]
      <4> HIDE DEF f
      <4> QED BY <2>3
    <3>2. DOMAIN f = 0..n /\ DOMAIN h = 0..n OBVIOUS
    <3> QED BY <3>1, <3>2
  <2> HIDE DEF f
  <2> QED BY <2>4
<1> QED BY <1>3, <1>4

\* In a chain of blocks whose slots are past, a block after a relevant one is relevant.
LEMMA RelevantGoesOn ==
    ASSUME TreeInv, ClockInv, NEW list \in Seq(Roots), Linear(list), NEW i \in 1..(Len(list) - 1),
           ValidateBlock(list[i]) = "OK", ValidateBlock(list[i + 1]) # "FUTURE_SLOT"
    PROVE  ValidateBlock(list[i + 1]) = "OK"
<1> DEFINE r == list[i]
           d == list[i + 1]
<1>1. r \in Roots /\ d \in Roots /\ Parent[d] = r /\ Slot[r] < Slot[d] BY DEF Linear
<1>2. Slot[r] \in Nat /\ Slot[d] \in Nat /\ finalized.slot \in Nat /\ clock \in Nat
  BY <1>1, TreeFacts, BoundsAssumption DEF TreeInv, AllRoots, ClockInv
<1>3. ~HasBlock(r) /\ Slot[r] > finalized.slot BY <1>2 DEF ValidateBlock
<1>4. ~HasBlock(d) /\ Slot[d] > finalized.slot
  <2>1. Slot[d] > finalized.slot BY <1>1, <1>2, <1>3
  <2>2. finalized.root # d BY <1>2, <2>1 DEF TreeInv
  <2>3. finalized.root \in Lineage(d) => finalized.root \in Lineage(r) BY <1>1, <2>2, LineageEquation
  <2>4. d \in known => r \in known BY <1>1, <2>1 DEF TreeInv
  <2> QED BY <1>3, <2>1, <2>3, <2>4 DEF HasBlock
<1> QED BY <1>2, <1>4 DEF ValidateBlock

\* What processChainSegmentJob leaves of a segment is a chain of blocks.
LEMMA FilteredIsLinear ==
    ASSUME TreeInv, ClockInv, NEW list \in Seq(Roots)
    PROVE  FilteredChainSegment(list) \in Seq(Roots) /\ Linear(FilteredChainSegment(list))
<1>1. CASE ~Linear(list) \/ \E i \in 1..Len(list) : ValidateBlock(list[i]) = "FUTURE_SLOT"
  <2>1. FilteredChainSegment(list) = <<>> BY <1>1 DEF FilteredChainSegment
  <2>2. <<>> \in Seq(Roots) /\ Linear(<<>>) BY DEF Linear
  <2> QED BY <2>1, <2>2
<1>2. CASE Linear(list) /\ \A i \in 1..Len(list) : ValidateBlock(list[i]) # "FUTURE_SLOT"
  <2> DEFINE N == Len(list)
             Solves(f) == f = [i \in 0..N |-> Pushed(f, i, list)]
             F == CHOOSE f : Solves(f)
             Good(i) == /\ F[i] \in Seq(Roots) /\ Linear(F[i])
                        /\ F[i] # <<>> => /\ F[i][Len(F[i])] = list[i]
                                          /\ i > 0 /\ ValidateBlock(list[i]) = "OK"
  <2>1. N \in Nat OBVIOUS
  <2>2. FilteredChainSegment(list) = F[N]
    BY <1>2 DEF FilteredChainSegment, RelevantBlocks, Pushed
  <2>3. Solves(F) BY <2>1, LoopHasResult
  <2> HIDE DEF F, N
  <2>4. \A i \in 0..N : F[i] = Pushed(F, i, list) BY <2>3
  <2> DEFINE Bad == {i \in 0..N : ~Good(i)}
  <2>5. Bad = {}
    <3> SUFFICES ASSUME Bad # {} PROVE FALSE OBVIOUS
    <3>1. Bad \in SUBSET Nat BY <2>1
    <3>2. PICK i \in Bad : \A m \in Bad : <<m, i>> \notin OpToRel(<, Nat)
      <4> HIDE DEF Bad
      <4> QED BY <3>1, NatLessThanWellFounded, WFMin
    <3>3. \A m \in Bad : ~(m < i) BY <3>1, <3>2 DEF OpToRel
    <3>4. i \in 0..N /\ ~Good(i) OBVIOUS
    <3>5. i # 0
      <4> SUFFICES ASSUME i = 0 PROVE Good(0) BY <3>4
      <4>1. F[0] = <<>> BY <2>1, <2>4 DEF Pushed
      <4> QED BY <4>1 DEF Linear
    <3>6. i - 1 \in 0..N /\ i \in 1..N BY <2>1, <3>4, <3>5
    <3>7. Good(i - 1) BY <3>3, <3>4, <3>6
    <3>8. list[i] \in Roots BY <3>6 DEF N
    <3> DEFINE G == F[i - 1]
    <3>9. /\ G \in Seq(Roots) /\ Linear(G)
          /\ G # <<>> => G[Len(G)] = list[i - 1] /\ i - 1 > 0 /\ ValidateBlock(list[i - 1]) = "OK"
      BY <3>7
    <3> HIDE DEF G
    <3>10. CASE ValidateBlock(list[i]) = "OK"
      <4>0. F[i] = Pushed(F, i, list) /\ i > 0 BY <2>1, <2>4, <3>4, <3>6
      <4>1. F[i] = Append(G, list[i]) BY <3>10, <4>0 DEF Pushed, G
      <4>2. /\ F[i] \in Seq(Roots) /\ Len(F[i]) = Len(G) + 1 /\ F[i][Len(F[i])] = list[i]
            /\ \A k \in 1..Len(G) : F[i][k] = G[k]
            /\ Len(G) \in Nat
        BY <3>8, <3>9, <4>1
      <4>3. Linear(F[i])
        <5> SUFFICES ASSUME NEW k \in 1..(Len(F[i]) - 1)
                     PROVE  Parent[F[i][k + 1]] = F[i][k] /\ Slot[F[i][k]] < Slot[F[i][k + 1]]
          BY DEF Linear
        <5>1. CASE k < Len(G)
          <6>0. k \in 1..(Len(G) - 1) /\ k \in 1..Len(G) /\ k + 1 \in 1..Len(G) BY <4>2, <5>1, SMTT(30)
          <6>1. F[i][k] = G[k] /\ F[i][k + 1] = G[k + 1] BY <4>2, <6>0
          <6> QED BY <3>9, <6>0, <6>1 DEF Linear
        <5>2. CASE k = Len(G)
          <6>1. G # <<>> /\ F[i][k] = G[Len(G)] /\ F[i][k + 1] = list[i] BY <4>2, <5>2
          <6>2. F[i][k] = list[i - 1] /\ i - 1 > 0 BY <3>9, <6>1
          <6>3. i - 1 \in 1..(Len(list) - 1) /\ (i - 1) + 1 = i BY <3>6, <6>2 DEF N
          <6>4. Parent[list[i]] = list[i - 1] /\ Slot[list[i - 1]] < Slot[list[i]]
            BY <1>2, <6>3 DEF Linear
          <6> QED BY <6>1, <6>2, <6>4
        <5> QED BY <4>2, <5>1, <5>2
      <4> QED BY <3>4, <3>6, <3>10, <4>2, <4>3
    <3>11. CASE ValidateBlock(list[i]) # "OK"
      <4>1. F[i] = G BY <2>4, <3>4, <3>5, <3>6, <3>11 DEF Pushed, G
      <4>2. G = <<>>
        <5> SUFFICES ASSUME G # <<>> PROVE FALSE OBVIOUS
        <5>1. i - 1 \in 1..(Len(list) - 1) /\ (i - 1) + 1 = i BY <3>6, <3>9 DEF N
        <5>2. ValidateBlock(list[(i - 1) + 1]) # "FUTURE_SLOT" BY <1>2, <3>6, <5>1 DEF N
        <5>3. ValidateBlock(list[(i - 1) + 1]) = "OK" BY <1>2, <3>9, <5>1, <5>2, RelevantGoesOn
        <5> QED BY <3>11, <5>1, <5>3
      <4> QED BY <3>4, <3>9, <4>1, <4>2
    <3> QED BY <3>10, <3>11
  <2>6. Good(N) BY <2>1, <2>5
  <2> QED BY <2>2, <2>6
<1> QED BY <1>1, <1>2

\* Without its first block, a chain is still one.
LEMMA TailIsLinear ==
    ASSUME NEW list \in Seq(Roots), list # <<>>, Linear(list)
    PROVE  /\ Tail(list) \in Seq(Roots) /\ Linear(Tail(list))
           /\ Tail(list) # <<>> => Parent[Head(Tail(list))] = Head(list)
<1>1. /\ Tail(list) \in Seq(Roots) /\ Len(Tail(list)) = Len(list) - 1 /\ Len(list) \in Nat
      /\ \A i \in 1..Len(Tail(list)) : Tail(list)[i] = list[i + 1]
  OBVIOUS
<1>2. ASSUME NEW i \in 1..(Len(Tail(list)) - 1)
      PROVE  /\ Parent[Tail(list)[i + 1]] = Tail(list)[i]
             /\ Slot[Tail(list)[i]] < Slot[Tail(list)[i + 1]]
  <2>1. i + 1 \in 1..(Len(list) - 1) /\ Tail(list)[i] = list[i + 1] /\ Tail(list)[i + 1] = list[(i + 1) + 1]
    BY <1>1
  <2> QED BY <2>1 DEF Linear
<1>3. ASSUME Tail(list) # <<>> PROVE Parent[Head(Tail(list))] = Head(list)
  <2>1. Len(Tail(list)) > 0 BY <1>1, <1>3
  <2>2. Head(Tail(list)) = list[2] /\ Head(list) = list[1] /\ 1 \in 1..(Len(list) - 1) BY <1>1, <2>1
  <2>3. Parent[list[1 + 1]] = list[1] BY <2>2 DEF Linear
  <2> QED BY <2>2, <2>3
<1> QED BY <1>1, <1>2, <1>3 DEF Linear

\* A processor without a job runs nothing.
LEMMA NoJobIsFine == ASSUME job' = NoJob PROVE JobInv'
<1>1. <<>> \in Seq(Roots) /\ Linear(<<>>) BY DEF Linear
<1> QED BY <1>1 DEF NoJob, JobInv, RunsOnParentState, Linear, AllRoots

\* No step makes a job run a block on another state than that of its parent.
LEMMA JobKept == ASSUME ImportInv, [Next]_vars PROVE JobInv'
<1>1. JobInv BY DEF ImportInv
<1>2. CASE UNCHANGED job BY <1>1, <1>2 DEF JobInv, RunsOnParentState, Linear
<1>3. ASSUME NEW kind \in {"block", "segment"}, NEW list \in Seq(Roots), Linear(list), list # <<>>,
             job' = [kind |-> kind, at |-> "preState", todo |-> list, done |-> {}, pre |-> Genesis]
      PROVE  JobInv'
  BY <1>3 DEF JobInv, RunsOnParentState, Linear, AllRoots
<1>4. CASE ProcessBlockJob
  <2>1. Head(queue) \in QueuedJobs BY <1>4 DEF ProcessBlockJob, ImportInv, QueueInv
  <2> DEFINE r == Head(queue).blocks[1]
  <2>2. r \in Roots BY <1>4, <2>1 DEF ProcessBlockJob, QueuedJobs
  <2>3. \/ UNCHANGED job
        \/ job' = [kind |-> "block", at |-> "preState", todo |-> <<r>>, done |-> {}, pre |-> Genesis]
    BY <1>4 DEF ProcessBlockJob
  <2>4. <<r>> \in Seq(Roots) /\ Linear(<<r>>) /\ <<r>> # <<>> BY <2>2 DEF Linear
  <2> QED BY <1>2, <1>3, <2>3, <2>4
<1>5. CASE ProcessChainSegmentJob
  <2>1. Head(queue) \in QueuedJobs BY <1>5 DEF ProcessChainSegmentJob, ImportInv, QueueInv
  <2> DEFINE list == FilteredChainSegment(Head(queue).blocks)
  <2>2. Head(queue).blocks \in Seq(Roots) BY <2>1 DEF QueuedJobs
  <2>3. list \in Seq(Roots) /\ Linear(list) BY <2>2, FilteredIsLinear DEF ImportInv
  <2>4. \/ UNCHANGED job
        \/ /\ list # <<>>
           /\ job' = [kind |-> "segment", at |-> "preState", todo |-> list, done |-> {}, pre |-> Genesis]
    BY <1>5 DEF ProcessChainSegmentJob
  <2> QED BY <1>2, <1>3, <2>3, <2>4
<1>6. CASE GetPreState
  <2>1. job.at = "preState" /\ job.todo # <<>> /\ job.todo \in Seq(Roots)
    BY <1>1, <1>6 DEF GetPreState, JobInv
  <2>2. Parent[Head(job.todo)] \in AllRoots BY <2>1, TreeFacts
  <2>3. job' = NoJob \/ job' = [job EXCEPT !.at = "run", !.pre = Parent[Head(job.todo)]]
    BY <1>6 DEF GetPreState
  <2>4. CASE job' = [job EXCEPT !.at = "run", !.pre = Parent[Head(job.todo)]]
    BY <1>1, <2>1, <2>2, <2>4 DEF JobInv, RunsOnParentState, Linear
  <2> QED BY <2>3, <2>4, NoJobIsFine
<1>7. CASE RunStateTransition
  <2> DEFINE r == Head(job.todo)
             rest == Tail(job.todo)
  <2>1. job.at = "run" /\ job.todo # <<>> /\ job.todo \in Seq(Roots) /\ Linear(job.todo)
    BY <1>1, <1>7 DEF RunStateTransition, JobInv
  <2>2. r \in Roots BY <2>1
  <2>3. rest \in Seq(Roots) /\ Linear(rest) /\ (rest # <<>> => Parent[Head(rest)] = r)
    BY <2>1, TailIsLinear
  <2>4. \/ job' = NoJob
        \/ \E at \in {"run", "verify"} :
             /\ at = "run" => rest # <<>>
             /\ job' = [job EXCEPT !.todo = rest, !.done = @ \union {r}, !.pre = r, !.at = at]
    BY <1>7 DEF RunStateTransition
  <2> HIDE DEF r, rest
  <2>5. ASSUME NEW at \in {"run", "verify"}, at = "run" => rest # <<>>,
               job' = [job EXCEPT !.todo = rest, !.done = @ \union {r}, !.pre = r, !.at = at]
        PROVE  JobInv'
    <3>1. /\ job'.at = at /\ job'.todo = rest /\ job'.pre = r
          /\ job' \in [kind : {"none", "block", "segment"}, at : {"idle", "preState", "run", "verify"},
                       todo : Seq(Roots), done : SUBSET Roots, pre : AllRoots]
      BY <1>1, <2>2, <2>3, <2>5 DEF JobInv, AllRoots
    <3> QED BY <2>3, <2>5, <3>1 DEF JobInv, RunsOnParentState, Linear
  <2> QED BY <2>4, <2>5, NoJobIsFine
<1>8. CASE VerifySignatures
  <2>1. job' = NoJob \/ (job.todo # <<>> /\ job' = [job EXCEPT !.at = "preState", !.done = {}])
    BY <1>8 DEF VerifySignatures
  <2>2. CASE job.todo # <<>> /\ job' = [job EXCEPT !.at = "preState", !.done = {}]
    BY <1>1, <2>2 DEF JobInv, RunsOnParentState, Linear
  <2> QED BY <2>1, <2>2, NoJobIsFine
<1>9. ASSUME NEW r \in AllRoots, NEW list,
             \/ ReceiveBlock(r) \/ ReceiveSegment(list) \/ FetchSucceeds(r) \/ FetchFails(r)
             \/ FutureBlockStored(r) \/ OrphanStored(r) \/ OnBlock(r) \/ PendingBlockRead(r)
             \/ PendingBlockDeleted(r) \/ OnClockSlot \/ Finalize(r) \/ Prune \/ UNCHANGED vars
      PROVE  UNCHANGED job
  BY <1>9 DEF ReceiveBlock, ReceiveSegment, FetchSucceeds, FetchFails, FutureBlockStored, OrphanStored,
       OnBlock, PendingBlockRead, PendingBlockDeleted, OnClockSlot, Finalize, Prune, vars
<1> QED BY <1>2, <1>4, <1>5, <1>6, <1>7, <1>8, <1>9 DEF Next, AllRoots

-----------------------------------------------------------------------------
\* The invariant holds at the start.
LEMMA InitIsImportable == Init => ImportInv
<1> SUFFICES ASSUME Init PROVE ImportInv OBVIOUS
<1>1. QueueInv BY BoundsAssumption DEF Init, QueueInv
<1>2. PoolInv BY DEF Init, PoolInv, PoolIndexesAgree
<1>3. CallsInv BY DEF Init, CallsInv, RootsOf, EmptyBag, SetToBag
<1>4. ClockInv BY BoundsAssumption DEF Init, ClockInv
<1>5. TreeInv BY TreeFacts, LineageEquation DEF Init, TreeInv, TreeIsConnected, AllRoots
<1>6. JobInv
  <2>1. <<>> \in Seq(Roots) /\ Linear(<<>>) BY DEF Linear
  <2> QED BY <2>1 DEF Init, NoJob, JobInv, RunsOnParentState, AllRoots
<1> QED BY <1>1, <1>2, <1>3, <1>4, <1>5, <1>6 DEF ImportInv

\* The invariant implies the property.
LEMMA SoundImport == ImportInv => ImportIsSound
<1> SUFFICES ASSUME ImportInv PROVE ImportIsSound OBVIOUS
<1>1. queue \in Seq([kind : {"block", "segment"}, blocks : Seq(Roots)])
  <2>1. QueuedJobs \subseteq [kind : {"block", "segment"}, blocks : Seq(Roots)] BY DEF QueuedJobs
  <2>2. queue \in Seq(QueuedJobs) BY DEF ImportInv, QueueInv
  <2> QED BY <2>1, <2>2, SeqMonotonic, Zenon
<1>2. TypeOK
  BY <1>1 DEF TypeOK, ImportInv, QueueInv, PoolInv, CallsInv, RootsOf, ClockInv, TreeInv, JobInv
<1> QED BY <1>2 DEF ImportIsSound, ImportInv, PoolInv, TreeInv, JobInv

\* Whatever order blocks, segments, handlers, finalization and pruning come in: every
\* state transition runs on the post state of the block's parent, although blocks are
\* dropped from a segment; the indexes of the pool agree; and the fork choice has every
\* block between the finalized one and those that descend from it.
THEOREM ImportStaysSound == Spec => []ImportIsSound
<1>1. Init => ImportInv BY InitIsImportable
<1>2. ImportInv /\ [Next]_vars => ImportInv'
  BY QueueKept, PoolKept, CallsKept, ClockKept, TreeKept, JobKept DEF ImportInv
<1>3. ImportInv => ImportIsSound BY SoundImport
<1> QED BY <1>1, <1>2, <1>3, PTL DEF Spec

-----------------------------------------------------------------------------
(***************************************************************************)
(* The archiver.  First what its operators say of a tree of blocks, of the *)
(* nodes n of a fork choice and of a finalized checkpoint f.               *)
(***************************************************************************)

\* A tree of blocks, and sizes that make sense.
ArchiveConstants ==
    /\ IsTree(ArchiveRoots, ArchiveGenesis, ArchiveParent, ArchiveSlot)
    /\ BATCH_SIZE \in Nat \ {0}
    /\ MaxTasks \in Nat /\ MaxRestarts \in Nat

Tree == ArchiveRoots \union {ArchiveGenesis}
Line(r) == Arch!Lineage[r]
SlotOf(r) == ArchiveSlot[r]
Held(n) == {n[i] : i \in 1 .. Len(n)}

\* The archive a has the blocks of r down to genesis, or to one of the states ss that stop
\* has archived.
CompleteIn(a, ss, r) ==
    \E base \in {Arch!Checkpoint(0, ArchiveGenesis)} \union ss :
        base.root \in Line(r) /\ Line(r) \ Line(base.root) \subseteq a

\* The fork choice has the blocks of r down to its first.
JoinedIn(n, r) == r \in Held(n) /\ n[1] \in Line(r) /\ Line(r) \ Line(n[1]) \subseteq Held(n)

OnTime(cp) == SlotOf(cp.root) <= Arch!StartSlot(cp.epoch)

\* Nodes are there once each, ancestors first, and without gaps around the finalized block.
GoodNodes(n, f) ==
    /\ n \in Seq(Tree) /\ Len(n) >= 1
    /\ \A i, j \in 1 .. Len(n) : n[i] = n[j] => i = j
    /\ \A i, j \in 1 .. Len(n) : n[i] \in Line(n[j]) => i <= j
    /\ \A z \in Held(n) : f.root \in Line(z) => Line(z) \ Line(f.root) \subseteq Held(n)
    /\ f \in [epoch : Nat, root : Tree] /\ OnTime(f) /\ JoinedIn(n, f.root)

\* The rules of lineages, for this tree.
LEMMA LineRules ==
    ASSUME ArchiveConstants
    PROVE  /\ \A r \in Tree : SlotOf(r) \in Nat /\ Line(r) \in SUBSET Tree /\ r \in Line(r) /\ ArchiveGenesis \in Line(r)
           /\ SlotOf(ArchiveGenesis) = 0 /\ Line(ArchiveGenesis) = {ArchiveGenesis}
           /\ \A r \in ArchiveRoots : /\ r # ArchiveGenesis /\ Line(r) = {r} \union Line(ArchiveParent[r])
                                      /\ ArchiveParent[r] \in Tree /\ SlotOf(ArchiveParent[r]) < SlotOf(r)
           /\ \A r \in Tree : \A x \in Line(r) :
                x \in Tree /\ Line(x) \subseteq Line(r) /\ SlotOf(x) <= SlotOf(r) /\ (x # r => SlotOf(x) < SlotOf(r))
           /\ \A r \in Tree : \A x, y \in Line(r) : x \in Line(y) \/ y \in Line(x)
<1> DEFINE R == ArchiveRoots
           G == ArchiveGenesis
           P == ArchiveParent
           S == ArchiveSlot
<1>1. IsTree(R, G, P, S) BY DEF ArchiveConstants
<1>2. Arch!Lineage = CHOOSE L : IsLineage(R, G, P, L) BY DEF Arch!Lineage, IsLineage, Arch!AllRoots
<1>3. \E L : IsLineage(R, G, P, L) BY <1>1, LineageExists
<1>4. IsLineage(R, G, P, Arch!Lineage) BY <1>2, <1>3
<1>5. LineageFacts(R, G, P, S, Arch!Lineage) BY <1>1, <1>4, LineageIsChain
<1>6. G \notin R BY <1>1, GenesisApart
<1>7. /\ S[G] = 0 /\ \A r \in R \union {G} : S[r] \in Nat
      /\ \A r \in R : P[r] \in R \union {G} /\ S[P[r]] < S[r]
  BY <1>1 DEF IsTree
<1>8. \A r \in Tree : SlotOf(r) \in Nat /\ Line(r) \in SUBSET Tree /\ r \in Line(r) /\ G \in Line(r)
  BY <1>5, <1>7 DEF LineageFacts, Tree, Line, SlotOf
<1>9. SlotOf(G) = 0 /\ Line(G) = {G} BY <1>5, <1>7 DEF LineageFacts, Line, SlotOf
<1>10. \A r \in R : /\ r # G /\ Line(r) = {r} \union Line(P[r])
                    /\ P[r] \in Tree /\ SlotOf(P[r]) < SlotOf(r)
  BY <1>5, <1>6, <1>7 DEF LineageFacts, Tree, Line, SlotOf
<1>11. \A r \in Tree : \A x \in Line(r) :
         Line(x) \subseteq Line(r) /\ SlotOf(x) <= SlotOf(r) /\ (x # r => SlotOf(x) < SlotOf(r))
  BY <1>5 DEF LineageFacts, Tree, Line, SlotOf
<1>12. \A r \in Tree : \A x, y \in Line(r) : x \in Line(y) \/ y \in Line(x)
  BY <1>5 DEF LineageFacts, Tree, Line
<1>13. \A r \in Tree : \A x \in Line(r) : x \in Tree BY <1>8
<1> QED BY <1>8, <1>9, <1>10, <1>11, <1>12, <1>13

\* Blocks in each other's lineage are one.
LEMMA LineAntisymmetric ==
    ASSUME ArchiveConstants, NEW x \in Tree, NEW y \in Tree, x \in Line(y), y \in Line(x)
    PROVE  x = y
<1>1. SlotOf(x) <= SlotOf(y) /\ SlotOf(y) <= SlotOf(x) /\ (x # y => SlotOf(x) < SlotOf(y))
      /\ SlotOf(x) \in Nat /\ SlotOf(y) \in Nat
  BY LineRules
<1> QED BY <1>1

\* Epochs start one after the other.
LEMMA EpochsRise ==
    ASSUME ArchiveConstants, NEW d \in Nat, NEW e \in Nat, d <= e
    PROVE  Arch!StartSlot(d) \in Nat /\ Arch!StartSlot(e) \in Nat /\ Arch!StartSlot(d) <= Arch!StartSlot(e)
<1> DEFINE n == SlotsPerEpoch
<1>1. n \in Nat BY BoundsAssumption
<1> HIDE DEF n
<1>2. d * n \in Nat /\ e * n \in Nat BY <1>1
<1>3. (e - d) * n >= 0 /\ (e - d) * n = e * n - d * n BY <1>1
<1> QED BY <1>2, <1>3 DEF Arch!StartSlot, n

\* The checkpoint of an epoch is the last block of the chain that is not after its start.
LEMMA CheckpointFacts ==
    ASSUME ArchiveConstants, NEW r \in Tree, NEW e \in Nat
    PROVE  LET cp == Arch!CheckpointOf(r, e)
           IN  /\ cp \in [epoch : Nat, root : Tree] /\ cp.epoch = e /\ cp.root \in Line(r) /\ OnTime(cp)
               /\ \A d \in Line(r) : SlotOf(d) <= Arch!StartSlot(e) => SlotOf(d) <= SlotOf(cp.root)
<1> DEFINE s == Arch!StartSlot(e)
           early == {b \in Line(r) : SlotOf(b) <= s}
           gap == [b \in Tree |-> s - SlotOf(b)]
<1>1. s \in Nat
  <2>1. e <= e OBVIOUS
  <2> QED BY <2>1, EpochsRise
<1> HIDE DEF s
<1>2. early \subseteq Tree /\ early # {} /\ \A b \in early : SlotOf(b) \in Nat
  <2>1. ArchiveGenesis \in early BY <1>1, LineRules
  <2> QED BY <2>1, LineRules
<1>3. \A b \in early : gap[b] \in Nat /\ gap[b] = s - SlotOf(b)
  <2> SUFFICES ASSUME NEW b \in early PROVE s - SlotOf(b) \in Nat BY <1>2
  <2>1. SlotOf(b) <= s BY DEF early
  <2> QED BY <1>1, <1>2, <2>1
<1> HIDE DEF gap, early
<1>4. PICK b \in early : \A d \in early : gap[b] <= gap[d] BY <1>2, <1>3, LowestBlock
<1>5. \A d \in early : SlotOf(d) <= SlotOf(b)
  <2> SUFFICES ASSUME NEW d \in early PROVE SlotOf(d) <= SlotOf(b) OBVIOUS
  <2>1. gap[b] <= gap[d] BY <1>4
  <2> QED BY <1>1, <1>2, <1>3, <2>1
<1> DEFINE c == CHOOSE c \in early : \A d \in early : SlotOf(d) <= SlotOf(c)
<1>6. c \in early /\ \A d \in early : SlotOf(d) <= SlotOf(c) BY <1>5
<1>7. Arch!CheckpointOf(r, e) = [epoch |-> e, root |-> c]
  BY DEF Arch!CheckpointOf, Arch!Checkpoint, Line, SlotOf, s, early
<1> HIDE DEF c
<1>8. c \in Line(r) /\ SlotOf(c) <= s /\ c \in Tree BY <1>2, <1>6 DEF early
<1>9. \A d \in Line(r) : SlotOf(d) <= s => SlotOf(d) <= SlotOf(c) BY <1>6 DEF early
<1> QED BY <1>7, <1>8, <1>9 DEF OnTime, s


\* What is held of a sequence of nodes.
LEMMA HeldFacts ==
    ASSUME NEW n \in Seq(Tree)
    PROVE  /\ Held(n) \in SUBSET Tree /\ Arch!Range(n) = Held(n)
           /\ \A i \in 1 .. Len(n) : n[i] \in Held(n) /\ n[i] \in Tree
BY DEF Held, Arch!Range

\* The parent of the first node is not there.
LEMMA FirstHasNoParent ==
    ASSUME ArchiveConstants, NEW n, NEW f, GoodNodes(n, f), n[1] # ArchiveGenesis
    PROVE  ArchiveParent[n[1]] \notin Held(n)
<1> DEFINE p == ArchiveParent[n[1]]
<1>1. n \in Seq(Tree) /\ 1 \in 1 .. Len(n) /\ \A i, j \in 1 .. Len(n) : n[i] \in Line(n[j]) => i <= j
  BY DEF GoodNodes
<1>2. n[1] \in ArchiveRoots BY <1>1, HeldFacts DEF Tree
<1>3. p \in Tree /\ SlotOf(p) < SlotOf(n[1]) /\ Line(n[1]) = {n[1]} \union Line(p) /\ p \in Line(p)
      /\ SlotOf(p) \in Nat /\ SlotOf(n[1]) \in Nat
  BY <1>1, <1>2, LineRules DEF Tree
<1> HIDE DEF p
<1> SUFFICES ASSUME p \in Held(n) PROVE FALSE BY DEF p
<1>4. PICK i \in 1 .. Len(n) : n[i] = p BY DEF Held
<1>5. i <= 1 BY <1>1, <1>3, <1>4
<1>6. i = 1 BY <1>5
<1> QED BY <1>3, <1>4, <1>6

\* A node that is an ancestor of the first one is the first one.
LEMMA FirstIsOldest ==
    ASSUME ArchiveConstants, NEW n, NEW f, GoodNodes(n, f), NEW x \in Held(n), x \in Line(n[1])
    PROVE  x = n[1]
<1>1. 1 \in 1 .. Len(n) /\ \A i, j \in 1 .. Len(n) : n[i] \in Line(n[j]) => i <= j BY DEF GoodNodes
<1>2. PICK i \in 1 .. Len(n) : n[i] = x BY DEF Held
<1>3. i <= 1 BY <1>1, <1>2
<1> QED BY <1>2, <1>3

\* A block that comes to the finalized chain keeps the nodes in order, also when it finalizes
\* a later checkpoint of its chain.
LEMMA AppendKeepsNodes ==
    ASSUME ArchiveConstants, NEW n, NEW f, GoodNodes(n, f),
           NEW r \in ArchiveRoots, r \notin Held(n), ArchiveParent[r] \in Held(n),
           f.root \in Line(r), SlotOf(r) > Arch!StartSlot(f.epoch),
           NEW c, c = f \/ \E e \in Nat : e > f.epoch /\ c = Arch!CheckpointOf(r, e)
    PROVE  LET m == Append(n, r)
           IN  /\ m \in Seq(Tree) /\ m[1] = n[1] /\ Held(m) = Held(n) \union {r}
               /\ GoodNodes(m, c)
               /\ f.epoch <= c.epoch /\ f.root \in Line(c.root)
               /\ \A x : JoinedIn(n, x) => JoinedIn(m, x)
               /\ \A x \in Tree : c.root \in Line(x) \/ x \in Line(c.root) => f.root \in Line(x) \/ x \in Line(f.root)
<1> DEFINE m == Append(n, r)
           p == ArchiveParent[r]
<1>1. /\ n \in Seq(Tree) /\ Len(n) >= 1 /\ Len(n) \in Nat
      /\ \A i, j \in 1 .. Len(n) : n[i] = n[j] => i = j
      /\ \A i, j \in 1 .. Len(n) : n[i] \in Line(n[j]) => i <= j
      /\ \A z \in Held(n) : f.root \in Line(z) => Line(z) \ Line(f.root) \subseteq Held(n)
      /\ f \in [epoch : Nat, root : Tree] /\ OnTime(f) /\ JoinedIn(n, f.root)
      /\ f.epoch \in Nat /\ f.root \in Tree
  BY DEF GoodNodes
<1>2. r \in Tree /\ r # ArchiveGenesis /\ p \in Tree /\ Line(r) = {r} \union Line(p)
  BY LineRules DEF Tree
<1>3. /\ m \in Seq(Tree) /\ Len(m) = Len(n) + 1 /\ m[Len(n) + 1] = r
      /\ \A i \in 1 .. Len(n) : m[i] = n[i]
  BY <1>1, <1>2
<1> HIDE DEF m
<1>4. Held(m) = Held(n) \union {r}
  <2>1. ASSUME NEW x \in Held(m) PROVE x \in Held(n) \union {r}
    <3>1. PICK i \in 1 .. Len(m) : m[i] = x BY DEF Held
    <3>2. CASE i \in 1 .. Len(n) BY <1>3, <3>1, <3>2 DEF Held
    <3>3. CASE i = Len(n) + 1 BY <1>3, <3>1, <3>3
    <3> QED BY <1>1, <1>3, <3>2, <3>3
  <2>2. ASSUME NEW x \in Held(n) PROVE x \in Held(m)
    <3>1. PICK i \in 1 .. Len(n) : n[i] = x BY DEF Held
    <3>2. i \in 1 .. Len(m) /\ m[i] = x BY <1>1, <1>3, <3>1
    <3> QED BY <3>2 DEF Held
  <2>3. r \in Held(m)
    <3>1. Len(n) + 1 \in 1 .. Len(m) BY <1>1, <1>3
    <3> QED BY <1>3, <3>1 DEF Held
  <2> QED BY <2>1, <2>2, <2>3
<1>5. m[1] = n[1] BY <1>1, <1>3
<1>6. f.root # r /\ r \notin Line(f.root) /\ f.root \in Line(p)
  <2>1. SlotOf(f.root) <= Arch!StartSlot(f.epoch) BY <1>1 DEF OnTime
  <2>2. SlotOf(f.root) \in Nat /\ SlotOf(r) \in Nat BY <1>1, <1>2, LineRules
  <2>3. Arch!StartSlot(f.epoch) \in Nat
    <3>1. f.epoch <= f.epoch BY <1>1
    <3> QED BY <1>1, <3>1, EpochsRise
  <2>4. SlotOf(f.root) < SlotOf(r) BY <2>1, <2>2, <2>3
  <2>5. r \in Line(f.root) => SlotOf(r) <= SlotOf(f.root) BY <1>1, LineRules
  <2> QED BY <1>2, <2>2, <2>4, <2>5
\* The new block is nobody's ancestor.
<1>7. \A z \in Held(n) : r \notin Line(z)
  <2> SUFFICES ASSUME NEW z \in Held(n), r \in Line(z) PROVE FALSE OBVIOUS
  <2>1. z \in Tree BY <1>1, HeldFacts
  <2>2. f.root \in Line(z) BY <2>1, LineRules
  <2>3. r \in Line(z) \ Line(f.root) BY <1>6
  <2> QED BY <1>1, <2>2, <2>3
<1>8. \A i, j \in 1 .. Len(m) : m[i] = m[j] => i = j
  <2> SUFFICES ASSUME NEW i \in 1 .. Len(m), NEW j \in 1 .. Len(m), m[i] = m[j] PROVE i = j OBVIOUS
  <2>1. \A k \in 1 .. Len(n) : m[k] # r BY <1>3 DEF Held
  <2>2. (i \in 1 .. Len(n) \/ i = Len(n) + 1) /\ (j \in 1 .. Len(n) \/ j = Len(n) + 1) BY <1>1, <1>3
  <2> QED BY <1>1, <1>3, <2>1, <2>2
<1>9. \A i, j \in 1 .. Len(m) : m[i] \in Line(m[j]) => i <= j
  <2> SUFFICES ASSUME NEW i \in 1 .. Len(m), NEW j \in 1 .. Len(m), m[i] \in Line(m[j]) PROVE i <= j OBVIOUS
  <2>1. CASE j = Len(n) + 1 BY <1>1, <1>3, <2>1
  <2>2. CASE j \in 1 .. Len(n)
    <3>1. m[j] = n[j] /\ n[j] \in Held(n) BY <1>3, <2>2 DEF Held
    <3>2. m[i] # r BY <1>7, <3>1
    <3>3. i \in 1 .. Len(n) BY <1>1, <1>3, <3>2
    <3> QED BY <1>1, <1>3, <2>2, <3>1, <3>3
  <2> QED BY <1>1, <1>3, <2>1, <2>2
<1>10. \A x : JoinedIn(n, x) => JoinedIn(m, x) BY <1>4, <1>5 DEF JoinedIn
<1>11. /\ c \in [epoch : Nat, root : Tree] /\ OnTime(c) /\ c.root \in Line(r) /\ c.root \in Tree
       /\ f.epoch <= c.epoch /\ f.root \in Line(c.root)
  <2>1. CASE c = f BY <1>1, <2>1, LineRules
  <2>2. ASSUME NEW e \in Nat, e > f.epoch, c = Arch!CheckpointOf(r, e)
        PROVE  /\ c \in [epoch : Nat, root : Tree] /\ OnTime(c) /\ c.root \in Line(r) /\ c.root \in Tree
               /\ f.epoch <= c.epoch /\ f.root \in Line(c.root)
    <3>1. /\ c \in [epoch : Nat, root : Tree] /\ c.epoch = e /\ c.root \in Line(r) /\ OnTime(c)
          /\ \A d \in Line(r) : SlotOf(d) <= Arch!StartSlot(e) => SlotOf(d) <= SlotOf(c.root)
      BY <1>2, <2>2, CheckpointFacts
    <3>2. f.epoch <= e BY <1>1, <2>2
    <3>3. SlotOf(f.root) <= Arch!StartSlot(e)
      <4>1. SlotOf(f.root) <= Arch!StartSlot(f.epoch) BY <1>1 DEF OnTime
      <4>2. Arch!StartSlot(f.epoch) \in Nat /\ Arch!StartSlot(e) \in Nat
            /\ Arch!StartSlot(f.epoch) <= Arch!StartSlot(e)
        BY <1>1, <3>2, EpochsRise
      <4>3. SlotOf(f.root) \in Nat BY <1>1, LineRules
      <4> QED BY <4>1, <4>2, <4>3
    <3>4. SlotOf(f.root) <= SlotOf(c.root) BY <3>1, <3>3
    <3>5. f.root \in Line(c.root)
      <4> SUFFICES ASSUME f.root \notin Line(c.root) PROVE FALSE OBVIOUS
      <4>1. c.root \in Line(f.root) /\ c.root # f.root BY <1>1, <1>2, <3>1, LineRules
      <4>2. SlotOf(c.root) < SlotOf(f.root) /\ SlotOf(c.root) \in Nat /\ SlotOf(f.root) \in Nat
        BY <1>1, <3>1, <4>1, LineRules
      <4> QED BY <3>4, <4>2
    <3> QED BY <3>1, <3>2, <3>5
  <2> QED BY <2>1, <2>2
<1>12. Line(r) \ Line(n[1]) \subseteq Held(m) /\ n[1] \in Line(r) /\ n[1] \in Line(c.root)
  <2>1. n[1] \in Line(f.root) /\ Line(f.root) \ Line(n[1]) \subseteq Held(n) BY <1>1 DEF JoinedIn
  <2>2. Line(p) \ Line(f.root) \subseteq Held(n) BY <1>1, <1>6
  <2>3. n[1] \in Line(c.root) BY <1>11, <2>1, LineRules
  <2> QED BY <1>2, <1>4, <1>6, <2>1, <2>2, <2>3, LineRules
<1>13. JoinedIn(m, c.root)
  <2>1. Line(c.root) \subseteq Line(r) BY <1>2, <1>11, LineRules
  <2>2. c.root \in Held(m)
    <3>1. CASE c.root \in Line(n[1])
      <4>1. n[1] \in Tree /\ n[1] \in Held(n) BY <1>1, HeldFacts
      <4>2. c.root = n[1] BY <1>11, <1>12, <3>1, <4>1, LineAntisymmetric
      <4> QED BY <1>4, <4>1, <4>2
    <3>2. CASE c.root \notin Line(n[1]) BY <1>11, <1>12, <3>2
    <3> QED BY <3>1, <3>2
  <2> QED BY <1>5, <1>12, <2>1, <2>2 DEF JoinedIn
<1>14. \A z \in Held(m) : c.root \in Line(z) => Line(z) \ Line(c.root) \subseteq Held(m)
  <2> SUFFICES ASSUME NEW z \in Held(m), c.root \in Line(z) PROVE Line(z) \ Line(c.root) \subseteq Held(m)
    OBVIOUS
  <2>1. z \in Tree BY <1>3, HeldFacts
  <2>2. f.root \in Line(z) /\ Line(f.root) \subseteq Line(c.root) BY <1>11, <2>1, LineRules
  <2>3. CASE z \in Held(n) BY <1>1, <1>4, <2>2, <2>3
  <2>4. CASE z = r
    <3>1. Line(p) \ Line(f.root) \subseteq Held(n) BY <1>1, <1>6
    <3> QED BY <1>2, <1>4, <2>2, <2>4, <3>1
  <2> QED BY <1>4, <2>3, <2>4
<1>15. \A x \in Tree : c.root \in Line(x) \/ x \in Line(c.root) => f.root \in Line(x) \/ x \in Line(f.root)
  BY <1>11, LineRules
<1>16. GoodNodes(m, c)
  <2>1. Len(m) >= 1 BY <1>1, <1>3
  <2> QED BY <1>3, <1>8, <1>9, <1>11, <1>13, <1>14, <2>1 DEF GoodNodes
<1> QED BY <1>3, <1>4, <1>5, <1>10, <1>11, <1>15, <1>16 DEF m


\* Pruning at an ancestor of the finalized block keeps the nodes in order, and all that
\* descend from it.
LEMMA PruneKeepsNodes ==
    ASSUME ArchiveConstants, NEW n, NEW f, GoodNodes(n, f),
           NEW k \in 1 .. Len(n), n[k] \in Line(f.root)
    PROVE  LET m == SubSeq(n, k, Len(n))
           IN  /\ m[1] = n[k] /\ Held(m) \subseteq Held(n) /\ GoodNodes(m, f)
               /\ \A x \in Held(n) : n[k] \in Line(x) => x \in Held(m)
               /\ \A x \in Held(m) : x # n[k] => x # n[1]
               /\ \A x : JoinedIn(n, x) /\ n[k] \in Line(x) => JoinedIn(m, x)
<1> DEFINE m == SubSeq(n, k, Len(n))
           p == n[k]
<1>1. /\ n \in Seq(Tree) /\ Len(n) >= 1 /\ Len(n) \in Nat
      /\ \A i, j \in 1 .. Len(n) : n[i] = n[j] => i = j
      /\ \A i, j \in 1 .. Len(n) : n[i] \in Line(n[j]) => i <= j
      /\ \A z \in Held(n) : f.root \in Line(z) => Line(z) \ Line(f.root) \subseteq Held(n)
      /\ f \in [epoch : Nat, root : Tree] /\ OnTime(f) /\ JoinedIn(n, f.root) /\ f.root \in Tree
  BY DEF GoodNodes
<1>2. p \in Tree /\ p \in Held(n) BY <1>1, HeldFacts
<1>3. /\ m \in Seq(Tree) /\ Len(m) = Len(n) - k + 1
      /\ \A i \in 1 .. Len(m) : m[i] = n[i + k - 1] /\ i + k - 1 \in 1 .. Len(n)
  <2>1. m \in Seq(Tree) /\ Len(m) = Len(n) - k + 1 BY <1>1
  <2>2. ASSUME NEW i \in 1 .. Len(m) PROVE m[i] = n[i + k - 1] /\ i + k - 1 \in 1 .. Len(n)
    <3>1. i \in 1 .. (Len(n) - k + 1) BY <2>1
    <3>2. i + k - 1 \in 1 .. Len(n) BY <1>1, <3>1
    <3>3. m[i] = n[k + i - 1] BY <1>1, <3>1
    <3> QED BY <3>2, <3>3
  <2> QED BY <2>1, <2>2
<1> HIDE DEF m
<1>4. Len(m) >= 1 /\ Len(m) \in Nat /\ m[1] = p
  <2>1. Len(m) >= 1 /\ Len(m) \in Nat BY <1>1, <1>3
  <2>2. 1 \in 1 .. Len(m) /\ 1 + k - 1 = k BY <2>1
  <2> QED BY <1>3, <2>1, <2>2
<1>5. Held(m) \subseteq Held(n) BY <1>3 DEF Held
<1>6. \A x \in Held(n) : p \in Line(x) => x \in Held(m)
  <2> SUFFICES ASSUME NEW x \in Held(n), p \in Line(x) PROVE x \in Held(m) OBVIOUS
  <2>1. PICK j \in 1 .. Len(n) : n[j] = x BY DEF Held
  <2>2. k <= j BY <1>1, <2>1
  <2>3. j - k + 1 \in 1 .. Len(m) /\ (j - k + 1) + k - 1 = j BY <1>1, <1>3, <2>2
  <2>4. m[j - k + 1] = x BY <1>3, <2>1, <2>3
  <2> QED BY <2>3, <2>4 DEF Held
<1>7. \A x : JoinedIn(n, x) /\ p \in Line(x) => JoinedIn(m, x)
  <2> SUFFICES ASSUME NEW x, JoinedIn(n, x), p \in Line(x) PROVE JoinedIn(m, x) OBVIOUS
  <2>1. x \in Held(n) /\ n[1] \in Line(x) /\ Line(x) \ Line(n[1]) \subseteq Held(n) BY DEF JoinedIn
  <2>2. x \in Tree /\ n[1] \in Tree BY <1>1, <2>1, HeldFacts
  <2>3. x \in Held(m) BY <1>6, <2>1
  <2>4. ASSUME NEW y \in Line(x) \ Line(p) PROVE y \in Held(m)
    <3>1. y \in Tree /\ p \in Line(y) BY <1>2, <2>2, <2>4, LineRules
    <3>2. y \notin Line(n[1])
      <4> SUFFICES ASSUME y \in Line(n[1]) PROVE FALSE OBVIOUS
      <4>1. p \in Line(n[1]) BY <2>2, <3>1, LineRules
      <4>2. p = n[1] BY <1>2, <4>1, FirstIsOldest
      <4> QED BY <2>4, <4>2
    <3>3. y \in Held(n) BY <2>1, <2>4, <3>2
    <3> QED BY <1>6, <3>1, <3>3
  <2> QED BY <1>4, <2>3, <2>4 DEF JoinedIn
<1>8. JoinedIn(m, f.root) BY <1>1, <1>7
<1>9. \A i, j \in 1 .. Len(m) : m[i] = m[j] => i = j
  <2> SUFFICES ASSUME NEW i \in 1 .. Len(m), NEW j \in 1 .. Len(m), m[i] = m[j] PROVE i = j OBVIOUS
  <2>1. /\ n[i + k - 1] = n[j + k - 1]
        /\ i + k - 1 \in 1 .. Len(n) /\ j + k - 1 \in 1 .. Len(n)
    BY <1>3
  <2>2. i + k - 1 = j + k - 1 BY <1>1, <2>1
  <2> QED BY <2>2
<1>10. \A i, j \in 1 .. Len(m) : m[i] \in Line(m[j]) => i <= j
  <2> SUFFICES ASSUME NEW i \in 1 .. Len(m), NEW j \in 1 .. Len(m), m[i] \in Line(m[j]) PROVE i <= j OBVIOUS
  <2>1. i + k - 1 <= j + k - 1 BY <1>1, <1>3
  <2> QED BY <2>1
<1>11. \A z \in Held(m) : f.root \in Line(z) => Line(z) \ Line(f.root) \subseteq Held(m)
  <2> SUFFICES ASSUME NEW z \in Held(m), f.root \in Line(z), NEW x \in Line(z) \ Line(f.root) PROVE x \in Held(m)
    OBVIOUS
  <2>1. z \in Tree /\ z \in Held(n) BY <1>1, <1>5, HeldFacts
  <2>2. x \in Held(n) /\ x \in Tree /\ f.root \in Line(x) BY <1>1, <2>1, LineRules
  <2>3. p \in Line(x) BY <2>2, LineRules
  <2> QED BY <1>6, <2>2, <2>3
<1>12. \A x \in Held(m) : x # p => x # n[1]
  <2> SUFFICES ASSUME NEW x \in Held(m), x # p, x = n[1] PROVE FALSE OBVIOUS
  <2>1. PICK i \in 1 .. Len(m) : m[i] = x BY DEF Held
  <2>2. n[i + k - 1] = n[1] /\ i + k - 1 \in 1 .. Len(n) /\ 1 \in 1 .. Len(n) BY <1>1, <1>3, <2>1
  <2>3. i + k - 1 = 1 BY <1>1, <2>2
  <2>4. i = 1 BY <2>3
  <2> QED BY <1>4, <2>1, <2>4
<1>13. GoodNodes(m, f) BY <1>1, <1>3, <1>4, <1>8, <1>9, <1>10, <1>11 DEF GoodNodes
<1> QED BY <1>4, <1>5, <1>6, <1>7, <1>12, <1>13 DEF m

\* A fork choice of one node, as after a start.
LEMMA OneNodeIsGood ==
    ASSUME ArchiveConstants, NEW f \in [epoch : Nat, root : Tree], OnTime(f)
    PROVE  GoodNodes(<<f.root>>, f) /\ Held(<<f.root>>) = {f.root}
<1> DEFINE n == <<f.root>>
<1>1. n \in Seq(Tree) /\ Len(n) = 1 /\ n[1] = f.root /\ f.root \in Tree OBVIOUS
<1> HIDE DEF n
<1>2. Held(n) = {f.root} BY <1>1 DEF Held
<1>3. f.root \in Line(f.root) BY <1>1, LineRules
<1>4. JoinedIn(n, f.root) BY <1>1, <1>2, <1>3 DEF JoinedIn
<1>5. GoodNodes(n, f) BY <1>1, <1>2, <1>4 DEF GoodNodes
<1> QED BY <1>2, <1>5 DEF n

\* The walk to the ancestors that are in K.
UpStep(K, u, x) ==
    IF x # ArchiveGenesis /\ ArchiveParent[x] \in K THEN <<x>> \o u[ArchiveParent[x]] ELSE <<x>>
Below(s) == {x \in Tree : SlotOf(x) < s}
UpTo(K, s, u) == u = [x \in Below(s) |-> UpStep(K, u, x)]
UpOf(K) == CHOOSE u : u = [x \in Tree |-> UpStep(K, u, x)]

\* The walks from the blocks below a slot agree with those from the blocks below a later one.
LEMMA WalksAgree ==
    ASSUME ArchiveConstants, NEW K, NEW s \in Nat, NEW t \in Nat, NEW u, NEW v, UpTo(K, s, u), UpTo(K, t, v),
           s <= t, NEW x \in Below(s)
    PROVE  u[x] = v[x]
<1> DEFINE Bad == {y \in Below(s) : u[y] # v[y]}
<1>1. \A y \in Below(s) : y \in Tree /\ SlotOf(y) \in Nat /\ SlotOf(y) < s /\ y \in Below(t)
  <2> SUFFICES ASSUME NEW y \in Below(s)
               PROVE  y \in Tree /\ SlotOf(y) \in Nat /\ SlotOf(y) < s /\ y \in Below(t)
    OBVIOUS
  <2>1. y \in Tree /\ SlotOf(y) < s BY DEF Below
  <2>2. SlotOf(y) \in Nat BY <2>1, LineRules
  <2>3. SlotOf(y) < t BY <2>1, <2>2
  <2> QED BY <2>1, <2>2, <2>3 DEF Below
<1> SUFFICES ASSUME Bad # {} PROVE FALSE OBVIOUS
<1>2. \A y \in Bad : ArchiveSlot[y] \in Nat BY <1>1 DEF SlotOf
<1>3. PICK y \in Bad : \A z \in Bad : ArchiveSlot[y] <= ArchiveSlot[z]
  <2> HIDE DEF Bad
  <2> QED BY <1>2, LowestBlock
<1>4. y \in Below(s) /\ u[y] # v[y] OBVIOUS
<1>5. u[y] = UpStep(K, u, y) /\ v[y] = UpStep(K, v, y) BY <1>1, <1>4 DEF UpTo
<1> DEFINE p == ArchiveParent[y]
<1>6. y # ArchiveGenesis /\ p \in K /\ u[p] # v[p] BY <1>4, <1>5 DEF UpStep
<1>7. p \in Below(s) /\ SlotOf(p) < SlotOf(y) /\ SlotOf(p) \in Nat
  <2>1. y \in Tree /\ y \in ArchiveRoots /\ SlotOf(y) < s /\ SlotOf(y) \in Nat
    BY <1>1, <1>4, <1>6 DEF Tree
  <2>2. p \in Tree /\ SlotOf(p) < SlotOf(y) BY <2>1, LineRules
  <2>3. SlotOf(p) \in Nat BY <2>2, LineRules
  <2>4. SlotOf(p) < s BY <2>1, <2>2, <2>3
  <2> QED BY <2>2, <2>3, <2>4 DEF Below
<1> HIDE DEF p
<1>8. p \in Bad BY <1>6, <1>7
<1>9. SlotOf(y) <= SlotOf(p) /\ SlotOf(y) \in Nat BY <1>1, <1>3, <1>4, <1>8 DEF SlotOf
<1> QED BY <1>7, <1>9


\* The recursion of IterateNodes has a solution.
LEMMA WalksExist ==
    ASSUME ArchiveConstants, NEW K
    PROVE  \A x \in Tree : UpOf(K)[x] = UpStep(K, UpOf(K), x)
<1> DEFINE Some(s) == \E u : UpTo(K, s, u)
           Bad == {s \in Nat : ~Some(s)}
<1>1. Bad = {}
  <2> SUFFICES ASSUME Bad # {} PROVE FALSE OBVIOUS
  <2> DEFINE id == [s \in Nat |-> s]
  <2>1. \A s \in Bad : id[s] \in Nat OBVIOUS
  <2>2. PICK s \in Bad : \A t \in Bad : id[s] <= id[t]
    <3> HIDE DEF Bad, id
    <3> QED BY <2>1, LowestBlock
  <2>3. s \in Nat /\ ~Some(s) /\ \A t \in Bad : s <= t BY <2>2
  <2>4. s # 0
    <3> SUFFICES ASSUME s = 0 PROVE Some(s) BY <2>3
    <3>1. Below(s) = {} BY LineRules DEF Below
    <3>2. UpTo(K, s, [x \in {} |-> <<>>]) BY <3>1 DEF UpTo
    <3> QED BY <3>2
  <2>5. s - 1 \in Nat /\ s - 1 \notin Bad
    <3> HIDE DEF Bad
    <3> QED BY <2>3, <2>4
  <2>6. PICK u : UpTo(K, s - 1, u) BY <2>5
  <2> DEFINE v == [x \in Below(s) |-> IF x \in Below(s - 1) THEN u[x] ELSE UpStep(K, u, x)]
  <2>7. ASSUME NEW x \in Below(s) PROVE v[x] = UpStep(K, u, x) /\ UpStep(K, v, x) = UpStep(K, u, x)
    <3>1. v[x] = UpStep(K, u, x) BY <2>6 DEF UpTo
    <3>2. ASSUME x # ArchiveGenesis
          PROVE  ArchiveParent[x] \in Below(s - 1) /\ ArchiveParent[x] \in Below(s)
      <4>1. x \in Tree /\ x \in ArchiveRoots /\ SlotOf(x) < s /\ SlotOf(x) \in Nat
        BY <3>2, LineRules DEF Below, Tree
      <4>2. ArchiveParent[x] \in Tree /\ SlotOf(ArchiveParent[x]) < SlotOf(x) /\ SlotOf(ArchiveParent[x]) \in Nat
        BY <4>1, LineRules
      <4>3. SlotOf(ArchiveParent[x]) < s - 1 /\ SlotOf(ArchiveParent[x]) < s BY <2>3, <4>1, <4>2
      <4> QED BY <4>2, <4>3 DEF Below
    <3>3. x # ArchiveGenesis => v[ArchiveParent[x]] = u[ArchiveParent[x]] BY <3>2
    <3> HIDE DEF v
    <3> QED BY <3>1, <3>3 DEF UpStep
  <2>8. v = [x \in Below(s) |-> UpStep(K, v, x)]
    <3> DEFINE w == [x \in Below(s) |-> UpStep(K, v, x)]
    <3>1. v = [x \in Below(s) |-> v[x]] OBVIOUS
    <3> HIDE DEF v
    <3>2. [x \in Below(s) |-> v[x]] = w BY <2>7
    <3> QED BY <3>1, <3>2
  <2> HIDE DEF v
  <2>9. Some(s) BY <2>8 DEF UpTo
  <2> QED BY <2>3, <2>9
<1>2. \A s \in Nat : Some(s) BY <1>1
<1> DEFINE Walk(s) == CHOOSE u : UpTo(K, s, u)
           whole == [x \in Tree |-> Walk(SlotOf(x) + 1)[x]]
<1>3. \A s \in Nat : UpTo(K, s, Walk(s)) BY <1>2
<1> HIDE DEF Walk
<1>4. ASSUME NEW x \in Tree PROVE whole[x] = UpStep(K, whole, x)
  <2> DEFINE s == SlotOf(x) + 1
             u == Walk(s)
             p == ArchiveParent[x]
  <2>1. SlotOf(x) \in Nat /\ s \in Nat /\ x \in Below(s) /\ UpTo(K, s, u)
    <3>1. SlotOf(x) \in Nat BY LineRules
    <3> QED BY <1>3, <3>1 DEF Below
  <2>2. u[x] = UpStep(K, u, x) BY <2>1 DEF UpTo
  <2>3. ASSUME x # ArchiveGenesis PROVE u[p] = whole[p]
    <3>1. x \in ArchiveRoots BY <2>3 DEF Tree
    <3>2. p \in Tree /\ SlotOf(p) < SlotOf(x) /\ SlotOf(p) \in Nat BY <3>1, LineRules
    <3> DEFINE t == SlotOf(p) + 1
    <3>3. t \in Nat /\ t <= s /\ p \in Below(t) /\ UpTo(K, t, Walk(t)) BY <1>3, <2>1, <3>2 DEF Below
    <3>4. ASSUME NEW v, NEW w, UpTo(K, t, v), UpTo(K, s, w) PROVE v[p] = w[p]
      <4> HIDE DEF s, t, p
      <4> QED BY <2>1, <3>3, <3>4, WalksAgree
    <3>5. Walk(t)[p] = u[p] BY <2>1, <3>3, <3>4
    <3> QED BY <3>2, <3>5
  <2>4. whole[x] = u[x] OBVIOUS
  <2> HIDE DEF whole, u
  <2> QED BY <2>2, <2>3, <2>4 DEF UpStep
<1>5. whole = [x \in Tree |-> UpStep(K, whole, x)]
  <2>1. whole = [x \in Tree |-> whole[x]] OBVIOUS
  <2> HIDE DEF whole
  <2> QED BY <1>4, <2>1
<1>6. UpOf(K) = [x \in Tree |-> UpStep(K, UpOf(K), x)]
  <2> HIDE DEF whole
  <2> QED BY <1>5 DEF UpOf
<1> QED BY <1>6

\* From a node that is joined to the first one, the walk goes through the blocks between
\* them and ends at the first.
LEMMA WalkIsLineage ==
    ASSUME ArchiveConstants, NEW n, NEW f, GoodNodes(n, f), NEW x, JoinedIn(n, x)
    PROVE  LET u == UpOf(Held(n))[x]
           IN  /\ u \in Seq(Tree) /\ Len(u) >= 1 /\ u[Len(u)] = n[1]
               /\ \A y : (\E i \in 1 .. (Len(u) - 1) : u[i] = y) <=> y \in Line(x) \ Line(n[1])
<1> DEFINE K == Held(n)
           U(y) == UpOf(K)[y]
           Good(z) == /\ U(z) \in Seq(Tree) /\ Len(U(z)) >= 1 /\ U(z)[Len(U(z))] = n[1]
                      /\ \A y : (\E i \in 1 .. (Len(U(z)) - 1) : U(z)[i] = y) <=> y \in Line(z) \ Line(n[1])
           Bad == {z \in Tree : JoinedIn(n, z) /\ ~Good(z)}
<1>1. n \in Seq(Tree) /\ n[1] \in K /\ n[1] \in Tree /\ K \subseteq Tree
  <2>1. n \in Seq(Tree) /\ 1 \in 1 .. Len(n) BY DEF GoodNodes
  <2> QED BY <2>1, HeldFacts
<1>2. \A z \in Tree : U(z) = UpStep(K, UpOf(K), z) BY WalksExist
<1>3. Bad = {}
  <2> SUFFICES ASSUME Bad # {} PROVE FALSE OBVIOUS
  <2>1. \A z \in Bad : ArchiveSlot[z] \in Nat BY LineRules DEF SlotOf
  <2>2. PICK z \in Bad : \A y \in Bad : ArchiveSlot[z] <= ArchiveSlot[y]
    <3> HIDE DEF Bad
    <3> QED BY <2>1, LowestBlock
  <2>3. z \in Tree /\ JoinedIn(n, z) /\ ~Good(z) OBVIOUS
  <2>4. z \in K /\ n[1] \in Line(z) /\ Line(z) \ Line(n[1]) \subseteq K BY <2>3 DEF JoinedIn
  <2>5. CASE z = n[1]
    <3>1. z = ArchiveGenesis \/ ArchiveParent[z] \notin K BY <2>5, FirstHasNoParent
    <3>2. U(z) = <<z>> BY <1>2, <2>3, <3>1 DEF UpStep
    <3> HIDE DEF U
    <3>3. U(z) \in Seq(Tree) /\ Len(U(z)) = 1 /\ U(z)[1] = n[1] BY <2>3, <2>5, <3>2
    <3> QED BY <2>3, <2>5, <3>3
  <2>6. CASE z # n[1]
    <3> DEFINE p == ArchiveParent[z]
    <3>1. z # ArchiveGenesis
      <4> SUFFICES ASSUME z = ArchiveGenesis PROVE FALSE OBVIOUS
      <4>1. Line(z) = {ArchiveGenesis} BY LineRules
      <4> QED BY <2>4, <2>6, <4>1
    <3>2. /\ z \in ArchiveRoots /\ p \in Tree /\ Line(z) = {z} \union Line(p) /\ SlotOf(p) < SlotOf(z)
          /\ SlotOf(p) \in Nat /\ SlotOf(z) \in Nat /\ p \in Line(p)
      BY <2>3, <3>1, LineRules DEF Tree
    <3>3. n[1] \in Line(p) BY <2>4, <2>6, <3>2
    <3>4. p \in K
      <4>1. CASE p \in Line(n[1])
        <5>1. p = n[1] BY <1>1, <3>2, <3>3, <4>1, LineAntisymmetric
        <5> QED BY <1>1, <5>1
      <4>2. CASE p \notin Line(n[1]) BY <2>4, <3>2, <4>2
      <4> QED BY <4>1, <4>2
    <3>5. JoinedIn(n, p) BY <2>4, <3>2, <3>3, <3>4 DEF JoinedIn
    <3>6. p \notin Bad
      <4> SUFFICES ASSUME p \in Bad PROVE FALSE OBVIOUS
      <4>1. SlotOf(z) <= SlotOf(p)
        <5> HIDE DEF Bad
        <5> QED BY <2>2 DEF SlotOf
      <4> QED BY <3>2, <4>1
    <3>7. Good(p) BY <3>2, <3>5, <3>6
    <3>8. U(z) = <<z>> \o U(p) BY <1>2, <2>3, <3>1, <3>4 DEF UpStep
    <3>9. z \notin Line(n[1]) /\ z \notin Line(p)
      <4>1. z \in Line(n[1]) => z = n[1] BY <1>1, <2>3, <2>4, LineAntisymmetric
      <4>2. z \in Line(p) => SlotOf(z) <= SlotOf(p) BY <3>2, LineRules
      <4> QED BY <2>6, <3>2, <4>1, <4>2
    <3> HIDE DEF U, p
    <3> DEFINE a == U(z)
               b == U(p)
    <3>10. b \in Seq(Tree) /\ Len(b) >= 1 /\ Len(b) \in Nat /\ b[Len(b)] = n[1] BY <3>7
    <3>11. /\ a \in Seq(Tree) /\ Len(a) = Len(b) + 1 /\ a[1] = z
           /\ \A i \in 1 .. Len(b) : a[i + 1] = b[i]
      BY <2>3, <3>8, <3>10
    <3>12. Len(a) >= 1 /\ a[Len(a)] = n[1] BY <3>10, <3>11
    <3>13. ASSUME NEW i \in 1 .. (Len(a) - 1) PROVE a[i] \in Line(z) \ Line(n[1])
      <4>1. CASE i = 1 BY <3>2, <3>9, <3>11, <4>1
      <4>2. CASE i # 1
        <5>1. i - 1 \in 1 .. (Len(b) - 1) /\ i - 1 \in 1 .. Len(b) /\ (i - 1) + 1 = i
          BY <3>10, <3>11, <4>2
        <5>2. a[i] = b[i - 1] BY <3>11, <5>1
        <5>3. b[i - 1] \in Line(p) \ Line(n[1]) BY <3>7, <5>1
        <5> QED BY <3>2, <5>2, <5>3
      <4> QED BY <4>1, <4>2
    <3>14. ASSUME NEW y \in Line(z) \ Line(n[1]) PROVE \E i \in 1 .. (Len(a) - 1) : a[i] = y
      <4>1. CASE y = z
        <5>1. 1 \in 1 .. (Len(a) - 1) BY <3>10, <3>11
        <5> QED BY <3>11, <4>1, <5>1
      <4>2. CASE y # z
        <5>1. y \in Line(p) \ Line(n[1]) BY <3>2, <4>2
        <5>2. PICK i \in 1 .. (Len(b) - 1) : b[i] = y BY <3>7, <5>1
        <5>3. i + 1 \in 1 .. (Len(a) - 1) /\ i \in 1 .. Len(b) BY <3>10, <3>11
        <5> QED BY <3>11, <5>2, <5>3
      <4> QED BY <4>1, <4>2
    <3>15. \A y : (\E i \in 1 .. (Len(a) - 1) : a[i] = y) <=> y \in Line(z) \ Line(n[1]) BY <3>13, <3>14
    <3>16. Good(z) BY <3>11, <3>12, <3>15
    <3> QED BY <2>3, <3>16
  <2> QED BY <2>5, <2>6
<1>4. x \in Tree BY <1>1 DEF JoinedIn
<1>5. Good(x) BY <1>3, <1>4
<1> QED BY <1>5


-----------------------------------------------------------------------------
(* The archiver's state, in its registers. *)

nodes == r1
fin == r2
writing == r3
hot == r4
archive == r5
stateDb == r6
announced == r7
waiting == r8
task == r9
stopStates == r12

USE DEF nodes, fin, writing, hot, archive, stateDb, announced, waiting, task, stopStates

Complete(r) == CompleteIn(archive, stopStates, r)

\* A finalized checkpoint that is yet to be archived: its blocks are in the fork choice, or a
\* later one has taken them along.
Pending(cp) ==
    /\ OnTime(cp) /\ cp.epoch <= fin.epoch /\ cp.root \in Line(fin.root)
    /\ JoinedIn(nodes, cp.root) \/ (cp.root \notin Held(nodes) /\ Complete(cp.root))

NodesInv == GoodNodes(nodes, fin) /\ Complete(nodes[1])

StatesInv ==
    /\ stateDb # {}
    /\ \A cp \in stateDb : OnTime(cp) /\ cp.epoch <= fin.epoch /\ Complete(cp.root)

TasksInv ==
    /\ \A cp \in announced : Pending(cp)
    /\ \A i \in 1 .. Len(waiting) : Pending(waiting[i])

\* The blocks of the task are archived or on its list.
TaskInv ==
    task # Arch!NoTask =>
        /\ Pending(task.cp)
        /\ task.cp.root \in Held(nodes) =>
             Line(task.cp.root) \ Line(nodes[1]) \subseteq archive \union Held(task.todo)
        /\ task.at = "put" => Held(Arch!Chunk) \subseteq archive
        /\ task.at \in {"state", "oldStates", "prune"} => task.todo = <<>>

Moving == IF task.at \in {"put", "deleted"} THEN Held(Arch!Chunk) ELSE {}

\* The blocks of the fork choice around the finalized one are somewhere.
KeptInv ==
    \A x \in Held(nodes) \ {nodes[1]} :
        fin.root \in Line(x) \/ x \in Line(fin.root) => x \in writing \union hot \union archive \union Moving

ArchiveInv == Arch!TypeOK /\ NodesInv /\ StatesInv /\ TasksInv /\ TaskInv /\ KeptInv

CheckpointSet == [epoch : Nat, root : Tree]
TaskSet == [at : {"idle", "blocks", "move", "put", "deleted", "state", "oldStates", "prune"},
            cp : CheckpointSet, todo : Seq(Tree)]

\* The types, in the words of these proofs.
LEMMA ArchiveTypes ==
    ASSUME ArchiveConstants
    PROVE  Arch!TypeOK <=>
              /\ nodes \in Seq(Tree) /\ (\A i, j \in 1 .. Len(nodes) : nodes[i] = nodes[j] => i = j)
              /\ fin \in CheckpointSet /\ fin.root \in Held(nodes)
              /\ writing \subseteq ArchiveRoots /\ hot \subseteq Tree /\ archive \subseteq Tree
              /\ stateDb \subseteq CheckpointSet /\ announced \subseteq CheckpointSet
              /\ waiting \in Seq(CheckpointSet) /\ Len(waiting) <= MaxTasks
              /\ task \in TaskSet /\ r10 \in BOOLEAN /\ r11 \in BOOLEAN
              /\ stopStates \subseteq CheckpointSet /\ r13 \in 0 .. MaxRestarts
<1>1. Arch!AllRoots = Tree BY DEF Arch!AllRoots, Tree
<1>2. Arch!Checkpoints = CheckpointSet BY <1>1 DEF Arch!Checkpoints, CheckpointSet
<1>3. Arch!Known = Arch!Range(nodes) BY DEF Arch!Known
<1>4. ASSUME nodes \in Seq(Tree)
      PROVE  /\ Arch!Range(nodes) = Held(nodes)
             /\ Arch!IsInjective(nodes) <=> \A i, j \in 1 .. Len(nodes) : nodes[i] = nodes[j] => i = j
  BY <1>4, HeldFacts DEF Arch!IsInjective
<1> QED BY <1>1, <1>2, <1>3, <1>4 DEF Arch!TypeOK, TaskSet

\* What is archived stays, and so does completeness.
LEMMA CompleteGrows ==
    ASSUME NEW a, NEW b, NEW s, NEW t, a \subseteq b, s \subseteq t, NEW r, CompleteIn(a, s, r)
    PROVE  CompleteIn(b, t, r)
BY DEF CompleteIn

\* From a complete block on, the blocks in the archive make their descendant complete.
LEMMA CompleteAbove ==
    ASSUME ArchiveConstants, NEW a, NEW ss \in SUBSET CheckpointSet, NEW first \in Tree, CompleteIn(a, ss, first),
           NEW r \in Tree, first \in Line(r), Line(r) \ Line(first) \subseteq a
    PROVE  CompleteIn(a, ss, r)
<1>1. PICK base \in {Arch!Checkpoint(0, ArchiveGenesis)} \union ss :
        base.root \in Line(first) /\ Line(first) \ Line(base.root) \subseteq a
  BY DEF CompleteIn
<1>2. Line(first) \subseteq Line(r) BY LineRules
<1>3. base.root \in Line(r) /\ Line(r) \ Line(base.root) \subseteq a BY <1>1, <1>2
<1> QED BY <1>3 DEF CompleteIn

\* A chunk is the beginning of the list, and the rest of it is what remains.
LEMMA ChunkFacts ==
    ASSUME ArchiveConstants, task \in TaskSet
    PROVE  /\ Arch!Chunk \in Seq(Tree) /\ Arch!Range(Arch!Chunk) = Held(Arch!Chunk) /\ Held(Arch!Chunk) \subseteq Tree
           /\ Arch!ChunkDone \in TaskSet /\ Arch!ChunkDone.cp = task.cp /\ Arch!ChunkDone.at = "blocks"
           /\ Held(task.todo) \subseteq Held(Arch!Chunk) \union Held(Arch!ChunkDone.todo)
<1> DEFINE t == task.todo
           k == IF Len(t) < BATCH_SIZE THEN Len(t) ELSE BATCH_SIZE
           c == SubSeq(t, 1, k)
           d == SubSeq(t, k + 1, Len(t))
<1>1. t \in Seq(Tree) /\ Len(t) \in Nat /\ k \in 0 .. Len(t) /\ task.cp \in CheckpointSet
  BY DEF TaskSet, ArchiveConstants
<1>2. Arch!Chunk = c BY DEF Arch!Chunk
<1> HIDE DEF k, t
<1>3. c \in Seq(Tree) /\ Len(c) = k /\ \A i \in 1 .. k : c[i] = t[i]
  <2>1. c \in Seq(Tree) /\ Len(c) = k BY <1>1
  <2>2. \A i \in 1 .. k : c[i] = t[i] BY <1>1
  <2> QED BY <2>1, <2>2
<1>4. d \in Seq(Tree) /\ Len(d) = Len(t) - k /\ \A i \in 1 .. (Len(t) - k) : d[i] = t[i + k]
  <2>1. d \in Seq(Tree) /\ Len(d) = Len(t) - k BY <1>1
  <2>2. ASSUME NEW i \in 1 .. (Len(t) - k) PROVE d[i] = t[i + k]
    <3>1. d[i] = t[(k + 1) + i - 1] /\ (k + 1) + i - 1 = i + k BY <1>1
    <3> QED BY <3>1
  <2> QED BY <2>1, <2>2
<1>5. Arch!ChunkDone = [task EXCEPT !.at = "blocks", !.todo = d]
  BY <1>2, <1>3 DEF Arch!ChunkDone, t
<1>6. Arch!ChunkDone \in TaskSet /\ Arch!ChunkDone.cp = task.cp /\ Arch!ChunkDone.at = "blocks"
      /\ Arch!ChunkDone.todo = d
  <2> HIDE DEF d
  <2> QED BY <1>4, <1>5 DEF TaskSet
<1>7. ASSUME NEW x \in Held(t) PROVE x \in Held(c) \union Held(d)
  <2>1. PICK i \in 1 .. Len(t) : t[i] = x BY <1>7 DEF Held
  <2>2. CASE i <= k
    <3>1. i \in 1 .. Len(c) /\ c[i] = x BY <1>1, <1>3, <2>1, <2>2
    <3> QED BY <3>1 DEF Held
  <2>3. CASE i > k
    <3>1. i - k \in 1 .. (Len(t) - k) /\ (i - k) + k = i BY <1>1, <2>3
    <3>2. i - k \in 1 .. Len(d) /\ d[i - k] = x BY <1>4, <2>1, <3>1
    <3> QED BY <3>2 DEF Held
  <2> QED BY <1>1, <2>2, <2>3
<1> HIDE DEF c, d
<1>8. c \in Seq(Tree) /\ Arch!Range(c) = Held(c) /\ Held(c) \subseteq Tree BY <1>3, HeldFacts
<1> QED BY <1>2, <1>6, <1>7, <1>8 DEF t

\* The list of a task whose checkpoint is in the fork choice.
LEMMA SummariesFacts ==
    ASSUME ArchiveConstants, NodesInv, NEW r \in Tree, r \notin Held(nodes) \/ JoinedIn(nodes, r)
    PROVE  /\ Arch!IterateBlockSummaries(r) \in Seq(Tree)
           /\ r \notin Held(nodes) => Held(Arch!IterateBlockSummaries(r)) = {} /\ Arch!IterateNonAncestors(r) = {}
           /\ JoinedIn(nodes, r) =>
                /\ Held(Arch!IterateBlockSummaries(r)) = Line(r) \ Line(nodes[1])
                /\ Arch!Range(Arch!IterateBlockSummaries(r)) = Line(r) \ Line(nodes[1])
                /\ Arch!Range(Arch!IterateNodes(r)) = (Line(r) \ Line(nodes[1])) \union {nodes[1]}
<1> DEFINE K == Held(nodes)
           u == UpOf(K)[r]
<1>1. nodes \in Seq(Tree) /\ GoodNodes(nodes, fin) BY DEF NodesInv, GoodNodes
<1>2. Arch!Known = K BY <1>1, HeldFacts DEF Arch!Known
<1>3. Arch!IterateNodes(r) = IF r \in K THEN u ELSE <<>>
  BY <1>2 DEF Arch!IterateNodes, UpOf, UpStep, Arch!AllRoots, Tree
<1> HIDE DEF K, u
<1>4. CASE r \notin K
  <2>1. Arch!IterateNodes(r) = <<>> BY <1>3, <1>4
  <2>2. Arch!IterateBlockSummaries(r) = SubSeq(<<>>, 1, -1) BY <2>1 DEF Arch!IterateBlockSummaries
  <2>3. SubSeq(<<>>, 1, -1) = <<>> OBVIOUS
  <2>4. Arch!IterateBlockSummaries(r) = <<>> BY <2>2, <2>3
  <2>5. Held(<<>>) = {} BY DEF Held
  <2>6. ~JoinedIn(nodes, r) BY <1>4 DEF JoinedIn, K
  <2>7. Arch!IterateNonAncestors(r) = {} BY <1>2, <1>4 DEF Arch!IterateNonAncestors
  <2> QED BY <2>4, <2>5, <2>6, <2>7
<1>5. CASE JoinedIn(nodes, r)
  <2>1. r \in K BY <1>5 DEF JoinedIn, K
  <2>2. /\ u \in Seq(Tree) /\ Len(u) >= 1 /\ Len(u) \in Nat /\ u[Len(u)] = nodes[1]
        /\ \A y : (\E i \in 1 .. (Len(u) - 1) : u[i] = y) <=> y \in Line(r) \ Line(nodes[1])
    BY <1>1, <1>5, WalkIsLineage DEF u, K
  <2> DEFINE v == SubSeq(u, 1, Len(u) - 1)
  <2>3. Arch!IterateNodes(r) = u /\ Arch!IterateBlockSummaries(r) = v
    BY <1>3, <2>1 DEF Arch!IterateBlockSummaries
  <2>4. v \in Seq(Tree) /\ Len(v) = Len(u) - 1 /\ \A i \in 1 .. (Len(u) - 1) : v[i] = u[i]
    <3> DEFINE k == Len(u) - 1
    <3>1. k \in 0 .. Len(u) BY <2>2
    <3> HIDE DEF k
    <3>2. SubSeq(u, 1, k) \in Seq(Tree) /\ Len(SubSeq(u, 1, k)) = k BY <2>2, <3>1
    <3>3. \A i \in 1 .. k : SubSeq(u, 1, k)[i] = u[i] BY <2>2, <3>1
    <3> QED BY <3>2, <3>3 DEF k
  <2> HIDE DEF v
  <2>5. Held(v) = Line(r) \ Line(nodes[1]) BY <2>2, <2>4 DEF Held
  <2>6. Held(u) = (Line(r) \ Line(nodes[1])) \union {nodes[1]}
    <3>1. ASSUME NEW x \in Held(u) PROVE x \in (Line(r) \ Line(nodes[1])) \union {nodes[1]}
      <4>1. PICK i \in 1 .. Len(u) : u[i] = x BY DEF Held
      <4>2. i = Len(u) \/ i \in 1 .. (Len(u) - 1) BY <2>2
      <4> QED BY <2>2, <4>1, <4>2
    <3>2. ASSUME NEW x \in Line(r) \ Line(nodes[1]) PROVE x \in Held(u)
      <4>1. PICK i \in 1 .. (Len(u) - 1) : u[i] = x BY <2>2
      <4>2. i \in 1 .. Len(u) BY <2>2
      <4> QED BY <4>1, <4>2 DEF Held
    <3>3. nodes[1] \in Held(u)
      <4>1. Len(u) \in 1 .. Len(u) BY <2>2
      <4> QED BY <2>2, <4>1 DEF Held
    <3> QED BY <3>1, <3>2, <3>3
  <2>7. Arch!Range(u) = Held(u) /\ Arch!Range(v) = Held(v) BY <2>2, <2>4, HeldFacts
  <2> QED BY <2>1, <2>3, <2>4, <2>5, <2>6, <2>7 DEF K
<1> QED BY <1>4, <1>5 DEF K


-----------------------------------------------------------------------------
(* The steps that leave the fork choice alone. *)

\* What is pending stays so.
LEMMA QuietKeepsNodes ==
    ASSUME NodesInv, nodes' = nodes, fin' = fin, archive \subseteq archive', stopStates \subseteq stopStates'
    PROVE  /\ NodesInv'
           /\ \A r : Complete(r) => Complete(r)'
           /\ \A cp : Pending(cp) => Pending(cp)'
<1>1. \A r : CompleteIn(archive, stopStates, r) => CompleteIn(archive', stopStates', r) BY CompleteGrows
<1>2. \A r : Complete(r) => Complete(r)' BY <1>1 DEF Complete
<1>3. NodesInv' BY <1>1 DEF NodesInv, Complete
<1>4. \A cp : Pending(cp) => Pending(cp)' BY <1>1 DEF Pending, Complete
<1> QED BY <1>2, <1>3, <1>4

\* A block that was being written is in the database.
LEMMA BlockWrittenKeeps ==
    ASSUME ArchiveConstants, ArchiveInv, NEW r \in ArchiveRoots, Arch!BlockWritten(r)
    PROVE  ArchiveInv'
<1>1. /\ r \in writing /\ writing' = writing \ {r} /\ hot' = hot \union {r}
      /\ UNCHANGED <<nodes, fin, archive, stateDb, announced, waiting, task, r10, r11, stopStates, r13>>
  BY DEF Arch!BlockWritten, Arch!stop
<1>2. /\ NodesInv' /\ (\A x : Complete(x) => Complete(x)') /\ (\A cp : Pending(cp) => Pending(cp)')
  BY <1>1, QuietKeepsNodes DEF ArchiveInv
<1>3. Arch!TypeOK' BY <1>1 DEF ArchiveInv, Arch!TypeOK, Arch!AllRoots, Arch!Known
<1>4. StatesInv' BY <1>1, <1>2 DEF ArchiveInv, StatesInv
<1>5. TasksInv' BY <1>1, <1>2 DEF ArchiveInv, TasksInv
<1>6. Arch!Chunk' = Arch!Chunk BY <1>1 DEF Arch!Chunk
<1>7. TaskInv' BY <1>1, <1>2, <1>6 DEF ArchiveInv, TaskInv, Arch!NoTask, Arch!Checkpoint
<1>8. KeptInv' BY <1>1, <1>6 DEF ArchiveInv, KeptInv, Moving
<1> QED BY <1>2, <1>3, <1>4, <1>5, <1>7, <1>8 DEF ArchiveInv

\* An event that reaches the tasks becomes a task, or is refused.
LEMMA OnFinalizedKeeps ==
    ASSUME ArchiveConstants, ArchiveInv, NEW cp \in announced, Arch!OnFinalizedCheckpoint(cp)
    PROVE  ArchiveInv'
<1>1. /\ announced' = announced \ {cp}
      /\ \/ Len(waiting) < MaxTasks /\ waiting' = Append(waiting, cp) /\ UNCHANGED r10
         \/ r10' = TRUE /\ UNCHANGED waiting
      /\ UNCHANGED <<nodes, fin, writing, hot, archive, stateDb, task, r11, stopStates, r13>>
  BY DEF Arch!OnFinalizedCheckpoint, Arch!stop, Arch!db
<1>2. /\ NodesInv' /\ (\A x : Complete(x) => Complete(x)') /\ (\A c : Pending(c) => Pending(c)')
  BY <1>1, QuietKeepsNodes DEF ArchiveInv
<1>0. waiting \in Seq(CheckpointSet) /\ Len(waiting) \in Nat /\ cp \in CheckpointSet /\ MaxTasks \in Nat
      /\ Len(waiting) <= MaxTasks
  BY ArchiveTypes DEF ArchiveInv, ArchiveConstants
<1>3. /\ waiting' \in Seq(CheckpointSet) /\ Len(waiting') <= MaxTasks
      /\ \A i \in 1 .. Len(waiting') : waiting'[i] = cp \/ \E j \in 1 .. Len(waiting) : waiting'[i] = waiting[j]
  <2>1. CASE Len(waiting) < MaxTasks /\ waiting' = Append(waiting, cp) BY <1>0, <2>1
  <2>2. CASE waiting' = waiting BY <1>0, <2>2
  <2> QED BY <1>1, <2>1, <2>2
<1>4. Arch!TypeOK'
  <2>1. announced' \subseteq Arch!Checkpoints /\ waiting' \in Seq(Arch!Checkpoints) /\ r10' \in BOOLEAN
    BY <1>1, <1>3 DEF ArchiveInv, Arch!TypeOK, Arch!Checkpoints, CheckpointSet, Arch!AllRoots, Tree
  <2> QED BY <1>1, <1>3, <2>1 DEF ArchiveInv, Arch!TypeOK, Arch!AllRoots, Arch!Known, Arch!Checkpoints
<1>5. StatesInv' BY <1>1, <1>2 DEF ArchiveInv, StatesInv
<1>6. TasksInv' BY <1>1, <1>2, <1>3 DEF ArchiveInv, TasksInv
<1>7. Arch!Chunk' = Arch!Chunk BY <1>1 DEF Arch!Chunk
<1>8. TaskInv' BY <1>1, <1>2, <1>7 DEF ArchiveInv, TaskInv, Arch!NoTask, Arch!Checkpoint
<1>9. KeptInv' BY <1>1, <1>7 DEF ArchiveInv, KeptInv, Moving
<1> QED BY <1>2, <1>4, <1>5, <1>6, <1>8, <1>9 DEF ArchiveInv


\* Types, for the steps of the tasks.
LEMMA TaskTypes ==
    ASSUME ArchiveConstants, ArchiveInv, nodes' = nodes, fin' = fin, writing' = writing, announced' = announced,
           hot' \subseteq Tree, archive' \subseteq Tree, stateDb' \subseteq CheckpointSet,
           waiting' \in Seq(CheckpointSet), Len(waiting') <= MaxTasks, task' \in TaskSet,
           r10' \in BOOLEAN, r11' \in BOOLEAN, stopStates' \subseteq CheckpointSet, r13' = r13
    PROVE  Arch!TypeOK'
<1>1. Arch!AllRoots = Tree /\ Arch!Checkpoints = CheckpointSet
  BY DEF Arch!AllRoots, Tree, Arch!Checkpoints, CheckpointSet
<1> QED BY <1>1 DEF ArchiveInv, Arch!TypeOK, Arch!Known, TaskSet

\* The list of a new task has the blocks down to the first of the fork choice.
LEMMA StartTaskKeeps ==
    ASSUME ArchiveConstants, ArchiveInv, Arch!StartTask
    PROVE  ArchiveInv'
<1>0. PICK cp : cp = waiting[1] OBVIOUS
<1> DEFINE todo == Arch!IterateBlockSummaries(cp.root)
<1>1. /\ task = Arch!NoTask /\ waiting # <<>> /\ waiting' = Tail(waiting)
      /\ task' = [at |-> "blocks", cp |-> cp, todo |-> todo]
      /\ UNCHANGED <<nodes, fin, writing, hot, archive, stateDb, announced, r10, r11, stopStates, r13>>
  BY <1>0 DEF Arch!StartTask, Arch!stop, Arch!db
<1>2. waiting \in Seq(CheckpointSet) /\ Len(waiting) \in Nat /\ Len(waiting) <= MaxTasks
      /\ hot \subseteq Tree /\ archive \subseteq Tree /\ stateDb \subseteq CheckpointSet
      /\ r10 \in BOOLEAN /\ r11 \in BOOLEAN /\ stopStates \subseteq CheckpointSet /\ MaxTasks \in Nat
  BY ArchiveTypes DEF ArchiveInv, ArchiveConstants
<1>3. /\ 1 \in 1 .. Len(waiting) /\ cp \in CheckpointSet /\ cp.root \in Tree
      /\ waiting' \in Seq(CheckpointSet) /\ Len(waiting') = Len(waiting) - 1
      /\ \A i \in 1 .. Len(waiting') : waiting'[i] = waiting[i + 1] /\ i + 1 \in 1 .. Len(waiting)
  <2>1. 1 \in 1 .. Len(waiting) BY <1>1, <1>2
  <2>0. cp \in CheckpointSet BY <1>0, <1>2, <2>1
  <2>2. cp \in CheckpointSet /\ cp.root \in Tree BY <2>0 DEF CheckpointSet
  <2>3. waiting' \in Seq(CheckpointSet) /\ Len(waiting') = Len(waiting) - 1 BY <1>1, <1>2
  <2>4. ASSUME NEW i \in 1 .. Len(waiting') PROVE waiting'[i] = waiting[i + 1] /\ i + 1 \in 1 .. Len(waiting)
    BY <1>1, <1>2, <2>3
  <2> QED BY <2>1, <2>2, <2>3, <2>4
<1>4. Pending(cp) BY <1>0, <1>3 DEF ArchiveInv, TasksInv
<1>5. cp.root \notin Held(nodes) \/ JoinedIn(nodes, cp.root) BY <1>4 DEF Pending
<1>6. NodesInv BY DEF ArchiveInv
<1>7. /\ todo \in Seq(Tree)
      /\ JoinedIn(nodes, cp.root) => Held(todo) = Line(cp.root) \ Line(nodes[1])
  BY <1>3, <1>5, <1>6, SummariesFacts
<1> HIDE DEF todo
<1>8. task' \in TaskSet BY <1>1, <1>3, <1>7 DEF TaskSet
<1>9. /\ NodesInv' /\ (\A x : Complete(x) => Complete(x)') /\ (\A c : Pending(c) => Pending(c)')
  BY <1>1, <1>6, QuietKeepsNodes
<1>10. Arch!TypeOK'
  <2>1. Len(waiting') <= MaxTasks BY <1>2, <1>3
  <2> QED BY <1>1, <1>2, <1>3, <1>8, <2>1, TaskTypes
<1>11. StatesInv' BY <1>1, <1>9 DEF ArchiveInv, StatesInv
<1>12. TasksInv'
  <2>1. \A c \in announced' : Pending(c)' BY <1>1, <1>9 DEF ArchiveInv, TasksInv
  <2>2. \A j \in 1 .. Len(waiting) : Pending(waiting[j]) BY DEF ArchiveInv, TasksInv
  <2>3. ASSUME NEW i \in 1 .. Len(waiting') PROVE Pending(waiting[i + 1]) /\ waiting'[i] = waiting[i + 1]
    BY <1>3, <2>2
  <2>4. \A i \in 1 .. Len(waiting') : \E c : c = waiting'[i] /\ Pending(c)' BY <1>9, <2>3
  <2> QED BY <2>1, <2>4 DEF TasksInv, Pending
<1>13. TaskInv'
  <2>1. Pending(cp)' BY <1>4, <1>9
  <2>2. task'.cp = cp /\ task'.at = "blocks" /\ task'.todo = todo BY <1>1
  <2>3. cp.root \in Held(nodes) => Line(cp.root) \ Line(nodes[1]) \subseteq Held(todo) BY <1>5, <1>7
  <2> QED BY <1>1, <2>1, <2>2, <2>3 DEF TaskInv, Pending
<1>14. KeptInv'
  <2>1. task.at = "idle" /\ task'.at = "blocks" BY <1>1 DEF Arch!NoTask
  <2> QED BY <1>1, <2>1 DEF ArchiveInv, KeptInv, Moving
<1> QED BY <1>9, <1>10, <1>11, <1>12, <1>13, <1>14 DEF ArchiveInv


\* A step of a task in which the fork choice, the events and the queue stay.
LEMMA TaskStepKeeps ==
    ASSUME ArchiveConstants, ArchiveInv,
           nodes' = nodes, fin' = fin, writing' = writing, announced' = announced, waiting' = waiting,
           r11' \in {r11, TRUE}, r13' = r13, r10' \in BOOLEAN, stopStates \subseteq stopStates', stopStates' \subseteq CheckpointSet,
           hot' \subseteq Tree, archive \subseteq archive', archive' \subseteq Tree,
           stateDb' \subseteq CheckpointSet, stateDb' # {},
           \A cp \in stateDb' : cp \in stateDb \/ (OnTime(cp) /\ cp.epoch <= fin.epoch /\ Complete(cp.root)'),
           task' \in TaskSet, TaskInv', KeptInv'
    PROVE  ArchiveInv'
<1>1. /\ NodesInv' /\ (\A x : Complete(x) => Complete(x)') /\ (\A c : Pending(c) => Pending(c)')
  BY QuietKeepsNodes DEF ArchiveInv
<1>2. Arch!TypeOK'
  <2>1. waiting \in Seq(CheckpointSet) /\ Len(waiting) <= MaxTasks /\ r11 \in BOOLEAN
    BY ArchiveTypes DEF ArchiveInv
  <2> QED BY <2>1, TaskTypes
<1>3. StatesInv'
  <2>1. \A cp \in stateDb' : OnTime(cp) /\ cp.epoch <= fin.epoch /\ Complete(cp.root)'
    BY <1>1 DEF ArchiveInv, StatesInv
  <2> QED BY <2>1 DEF StatesInv
<1>4. TasksInv' BY <1>1 DEF ArchiveInv, TasksInv
<1> QED BY <1>1, <1>2, <1>3, <1>4 DEF ArchiveInv

\* What the steps below need of the state before.
LEMMA BeforeTaskStep ==
    ASSUME ArchiveConstants, ArchiveInv
    PROVE  /\ hot \subseteq Tree /\ archive \subseteq Tree /\ stateDb \subseteq CheckpointSet /\ stateDb # {}
           /\ r10 \in BOOLEAN /\ stopStates \subseteq CheckpointSet /\ task \in TaskSet /\ fin \in CheckpointSet
           /\ Arch!NoTask \in TaskSet /\ task.cp \in CheckpointSet /\ task.cp.root \in Tree /\ task.cp.epoch \in Nat
           /\ (task.at # "idle" => task # Arch!NoTask)
           /\ nodes[1] \in Tree /\ Held(nodes) \subseteq Tree /\ nodes[1] \in Held(nodes)
<1>1. /\ hot \subseteq Tree /\ archive \subseteq Tree /\ stateDb \subseteq CheckpointSet
      /\ r10 \in BOOLEAN /\ stopStates \subseteq CheckpointSet /\ task \in TaskSet /\ fin \in CheckpointSet
  BY ArchiveTypes DEF ArchiveInv
<1>2. stateDb # {} BY DEF ArchiveInv, StatesInv
<1>3. Arch!NoTask \in TaskSet BY DEF Arch!NoTask, Arch!Checkpoint, TaskSet, CheckpointSet, Tree
<1>4. task.cp \in CheckpointSet BY <1>1 DEF TaskSet
<1>5. task.cp.root \in Tree /\ task.cp.epoch \in Nat BY <1>4 DEF CheckpointSet
<1>6. task.at # "idle" => task # Arch!NoTask BY DEF Arch!NoTask
<1>7. nodes \in Seq(Tree) /\ 1 \in 1 .. Len(nodes) BY DEF ArchiveInv, NodesInv, GoodNodes
<1>8. nodes[1] \in Tree /\ Held(nodes) \subseteq Tree /\ nodes[1] \in Held(nodes) BY <1>7, HeldFacts
<1> QED BY <1>1, <1>2, <1>3, <1>4, <1>5, <1>6, <1>8

\* A task that is over has nothing to keep.
LEMMA NoTaskIsFine == ASSUME task' = Arch!NoTask PROVE TaskInv'
BY DEF TaskInv, Arch!NoTask, Arch!Checkpoint

\* A chunk was read, or the task ends because a block is not there.
LEMMA ReadChunkKeeps ==
    ASSUME ArchiveConstants, ArchiveInv, Arch!ReadChunk
    PROVE  ArchiveInv'
<1>1. /\ task.at = "blocks"
      /\ \/ task' = [task EXCEPT !.at = "move"] /\ UNCHANGED r10
         \/ task' = Arch!NoTask /\ r10' = TRUE
      /\ UNCHANGED <<nodes, fin, writing, hot, archive, stateDb, announced, waiting, r11, stopStates, r13>>
  BY DEF Arch!ReadChunk, Arch!stop, Arch!db
<1>2. task \in TaskSet /\ task # Arch!NoTask /\ Arch!NoTask \in TaskSet /\ r10 \in BOOLEAN
      /\ hot \subseteq Tree /\ archive \subseteq Tree /\ stateDb \subseteq CheckpointSet /\ stateDb # {}
      /\ stopStates \subseteq CheckpointSet
  BY <1>1, BeforeTaskStep
<1>3. /\ NodesInv' /\ \A c : Pending(c) => Pending(c)' BY <1>1, QuietKeepsNodes DEF ArchiveInv
<1>4. task' \in TaskSet /\ r10' \in BOOLEAN BY <1>1, <1>2 DEF TaskSet
<1>5. TaskInv'
  <2>1. CASE task' = [task EXCEPT !.at = "move"]
    <3>1. task'.cp = task.cp /\ task'.todo = task.todo /\ task'.at = "move" BY <1>2, <2>1 DEF TaskSet
    <3>2. Pending(task.cp) /\ (task.cp.root \in Held(nodes) =>
             Line(task.cp.root) \ Line(nodes[1]) \subseteq archive \union Held(task.todo))
      BY <1>2 DEF ArchiveInv, TaskInv
    <3>3. \A c : c = task.cp => Pending(c)' BY <1>3, <3>2
    <3> QED BY <1>1, <3>1, <3>2, <3>3 DEF TaskInv, Pending
  <2>2. CASE task' = Arch!NoTask BY <2>2, NoTaskIsFine
  <2> QED BY <1>1, <2>1, <2>2
<1>6. KeptInv'
  <2>1. task'.at \in {"move", "idle"} BY <1>1, <1>2 DEF TaskSet, Arch!NoTask
  <2> QED BY <1>1, <2>1 DEF ArchiveInv, KeptInv, Moving
<1> QED BY <1>1, <1>2, <1>4, <1>5, <1>6, TaskStepKeeps


\* A task goes on: what was on its list is archived or still there.
LEMMA TaskGoesOn ==
    ASSUME ArchiveInv, task # Arch!NoTask, nodes' = nodes, fin' = fin,
           archive \subseteq archive', stopStates \subseteq stopStates', task'.cp = task.cp,
           Held(task.todo) \subseteq archive' \union Held(task'.todo),
           task'.at = "put" => Held(Arch!Chunk)' \subseteq archive',
           task'.at \in {"state", "oldStates", "prune"} => task'.todo = <<>>
    PROVE  TaskInv'
<1>1. \A c : Pending(c) => Pending(c)' BY QuietKeepsNodes DEF ArchiveInv
<1>2. Pending(task.cp) /\ (task.cp.root \in Held(nodes) =>
         Line(task.cp.root) \ Line(nodes[1]) \subseteq archive \union Held(task.todo))
  BY DEF ArchiveInv, TaskInv
<1>3. \A c : c = task.cp => Pending(c)' BY <1>1, <1>2
<1>4. Pending(task.cp)' BY <1>3 DEF Pending
<1>5. (task.cp.root \in Held(nodes) =>
         Line(task.cp.root) \ Line(nodes[1]) \subseteq archive \union Held(task.todo))'
  BY <1>2 
<1> QED BY <1>4, <1>5 DEF TaskInv

\* A chunk goes to the archive.
LEMMA PutChunkKeeps ==
    ASSUME ArchiveConstants, ArchiveInv, Arch!PutChunk
    PROVE  ArchiveInv'
<1> DEFINE chunk == Arch!Range(Arch!Chunk)
<1>1. /\ task.at \in {"move", "deleted"} /\ archive' = archive \union chunk
      /\ \/ task.at = "deleted" /\ task' = Arch!ChunkDone
         \/ task.at = "move" /\ task' = [task EXCEPT !.at = "put"]
      /\ UNCHANGED <<nodes, fin, writing, hot, stateDb, announced, waiting, r10, r11, stopStates, r13>>
  BY DEF Arch!PutChunk, Arch!stop
<1>2. task \in TaskSet /\ task # Arch!NoTask /\ r10 \in BOOLEAN
      /\ hot \subseteq Tree /\ archive \subseteq Tree /\ stateDb \subseteq CheckpointSet /\ stateDb # {}
      /\ stopStates \subseteq CheckpointSet
  BY <1>1, BeforeTaskStep
<1>3. /\ chunk = Held(Arch!Chunk) /\ chunk \subseteq Tree
      /\ Arch!ChunkDone \in TaskSet /\ Arch!ChunkDone.cp = task.cp /\ Arch!ChunkDone.at = "blocks"
      /\ Held(task.todo) \subseteq chunk \union Held(Arch!ChunkDone.todo)
  BY <1>2, ChunkFacts
<1> HIDE DEF chunk
<1>4. task.at = "move" => task' \in TaskSet /\ task'.cp = task.cp /\ task'.todo = task.todo /\ task'.at = "put"
  BY <1>1, <1>2 DEF TaskSet
<1>5. task.at = "move" => Held(Arch!Chunk)' = chunk BY <1>3, <1>4 DEF Arch!Chunk, Held
<1>6. task' \in TaskSet /\ TaskInv'
  <2>1. CASE task.at = "move" BY <1>1, <1>2, <1>4, <1>5, <2>1, TaskGoesOn
  <2>2. CASE task.at = "deleted" BY <1>1, <1>2, <1>3, <2>2, TaskGoesOn
  <2> QED BY <1>1, <2>1, <2>2
<1>7. KeptInv'
  <2>1. Moving \subseteq archive' BY <1>1, <1>3 DEF Moving
  <2> QED BY <1>1, <2>1 DEF ArchiveInv, KeptInv
<1>8. archive \subseteq archive' /\ archive' \subseteq Tree BY <1>1, <1>2, <1>3
<1> QED BY <1>1, <1>2, <1>6, <1>7, <1>8, TaskStepKeeps

\* A chunk leaves the database of blocks: the archive has it, or the task still does.
LEMMA DeleteChunkKeeps ==
    ASSUME ArchiveConstants, ArchiveInv, Arch!DeleteChunk
    PROVE  ArchiveInv'
<1> DEFINE chunk == Arch!Range(Arch!Chunk)
<1>1. /\ task.at \in {"move", "put"} /\ hot' = hot \ chunk
      /\ \/ task.at = "put" /\ task' = Arch!ChunkDone
         \/ task.at = "move" /\ task' = [task EXCEPT !.at = "deleted"]
      /\ UNCHANGED <<nodes, fin, writing, archive, stateDb, announced, waiting, r10, r11, stopStates, r13>>
  BY DEF Arch!DeleteChunk, Arch!stop
<1>2. task \in TaskSet /\ task # Arch!NoTask /\ r10 \in BOOLEAN
      /\ hot \subseteq Tree /\ archive \subseteq Tree /\ stateDb \subseteq CheckpointSet /\ stateDb # {}
      /\ stopStates \subseteq CheckpointSet
  BY <1>1, BeforeTaskStep
<1>3. /\ chunk = Held(Arch!Chunk) /\ chunk \subseteq Tree
      /\ Arch!ChunkDone \in TaskSet /\ Arch!ChunkDone.cp = task.cp /\ Arch!ChunkDone.at = "blocks"
      /\ Held(task.todo) \subseteq chunk \union Held(Arch!ChunkDone.todo)
  BY <1>2, ChunkFacts
<1> HIDE DEF chunk
<1>4. task.at = "move" => task' \in TaskSet /\ task'.cp = task.cp /\ task'.todo = task.todo /\ task'.at = "deleted"
  BY <1>1, <1>2 DEF TaskSet
<1>5. task.at = "move" => Held(Arch!Chunk)' = chunk BY <1>3, <1>4 DEF Arch!Chunk, Held
<1>6. task.at = "put" => chunk \subseteq archive BY <1>2, <1>3 DEF ArchiveInv, TaskInv
<1>7. task' \in TaskSet /\ TaskInv'
  <2>1. CASE task.at = "move" BY <1>1, <1>2, <1>4, <1>5, <2>1, TaskGoesOn
  <2>2. CASE task.at = "put" BY <1>1, <1>2, <1>3, <1>6, <2>2, TaskGoesOn
  <2> QED BY <1>1, <2>1, <2>2
<1>8. KeptInv'
  <2>1. chunk \union Moving \subseteq archive' \union Moving'
    <3>1. CASE task.at = "move" BY <1>4, <1>5, <3>1 DEF Moving
    <3>2. CASE task.at = "put" BY <1>1, <1>3, <1>6, <3>2 DEF Moving
    <3> QED BY <1>1, <3>1, <3>2
  <2> QED BY <1>1, <2>1 DEF ArchiveInv, KeptInv
<1>9. archive \subseteq archive' /\ hot' \subseteq Tree BY <1>1, <1>2
<1> QED BY <1>1, <1>2, <1>7, <1>8, <1>9, TaskStepKeeps


\* Where a node is.
LEMMA IndexFacts ==
    ASSUME NEW r \in Held(nodes)
    PROVE  Arch!IndexOf(r) \in 1 .. Len(nodes) /\ nodes[Arch!IndexOf(r)] = r
BY DEF Held, Arch!IndexOf

\* What is deleted as non-canonical is on another branch than the finalized block.
LEMMA DeleteNonCanonicalKeeps ==
    ASSUME ArchiveConstants, ArchiveInv, Arch!DeleteNonCanonicalBlocks
    PROVE  ArchiveInv'
<1>0. PICK r : r = task.cp.root OBVIOUS
<1> DEFINE gone == Arch!IterateNonAncestors(r)
<1>1. /\ task.at = "blocks" /\ task.todo = <<>> /\ hot' = hot \ gone
      /\ task' = [task EXCEPT !.at = "state"]
      /\ UNCHANGED <<nodes, fin, writing, archive, stateDb, announced, waiting, r10, r11, stopStates, r13>>
  BY <1>0 DEF Arch!DeleteNonCanonicalBlocks, Arch!stop
<1>2. /\ task \in TaskSet /\ task # Arch!NoTask /\ r10 \in BOOLEAN /\ r \in Tree /\ fin \in CheckpointSet
      /\ hot \subseteq Tree /\ archive \subseteq Tree /\ stateDb \subseteq CheckpointSet /\ stateDb # {}
      /\ stopStates \subseteq CheckpointSet /\ Held(nodes) \subseteq Tree
  BY <1>0, <1>1, BeforeTaskStep
<1>3. task' \in TaskSet /\ task'.cp = task.cp /\ task'.todo = task.todo /\ task'.at = "state"
  BY <1>1, <1>2 DEF TaskSet
<1>4. TaskInv' BY <1>1, <1>2, <1>3, TaskGoesOn
<1>5. /\ GoodNodes(nodes, fin) /\ r \in Line(fin.root) /\ fin.root \in Tree
      /\ JoinedIn(nodes, r) \/ r \notin Held(nodes)
  BY <1>0, <1>2 DEF ArchiveInv, NodesInv, TaskInv, Pending, CheckpointSet
\* A block around the finalized one that was inserted before r is an ancestor of r.
<1>6. ASSUME NEW x \in Held(nodes), x # nodes[1], fin.root \in Line(x) \/ x \in Line(fin.root)
      PROVE  x \notin gone
  <2> SUFFICES ASSUME x \in gone PROVE FALSE OBVIOUS
  <2>1. r \in Held(nodes) /\ JoinedIn(nodes, r)
    <3>1. r \notin Held(nodes) => gone = {} BY <1>2, SummariesFacts DEF ArchiveInv
    <3> QED BY <1>5, <3>1
  <2>2. Arch!Known = Held(nodes) BY HeldFacts, <1>5 DEF Arch!Known, GoodNodes
  <2>3. Arch!Range(Arch!IterateNodes(r)) = (Line(r) \ Line(nodes[1])) \union {nodes[1]}
    BY <1>2, <2>1, SummariesFacts DEF ArchiveInv
  <2>4. PICK i \in 2 .. Arch!IndexOf(r) : x = nodes[i] BY <2>1, <2>2 DEF Arch!IterateNonAncestors
  <2>5. x \notin Line(r) \/ x \in Line(nodes[1]) BY <2>1, <2>2, <2>3 DEF Arch!IterateNonAncestors
  <2>6. x \notin Line(r) BY <1>5, <1>6, <2>5, FirstIsOldest
  <2>7. r \in Line(x)
    <3>1. CASE fin.root \in Line(x) BY <1>2, <1>5, <3>1, LineRules
    <3>2. CASE x \in Line(fin.root) BY <1>5, <2>6, <3>2, LineRules
    <3> QED BY <1>6, <3>1, <3>2
  <2>8. Arch!IndexOf(r) \in 1 .. Len(nodes) /\ nodes[Arch!IndexOf(r)] = r BY <2>1, IndexFacts
  <2>9. Len(nodes) \in Nat /\ \A k, j \in 1 .. Len(nodes) : nodes[k] \in Line(nodes[j]) => k <= j
    BY <1>5 DEF GoodNodes
  <2> DEFINE k == Arch!IndexOf(r)
  <2> HIDE DEF k
  <2>10. i \in 1 .. Len(nodes) /\ k \in 1 .. Len(nodes) /\ i <= k BY <2>4, <2>8, <2>9 DEF k
  <2>11. nodes[k] \in Line(nodes[i]) BY <2>4, <2>7, <2>8 DEF k
  <2>12. k <= i BY <2>9, <2>10, <2>11
  <2>13. i = k BY <2>9, <2>10, <2>12
  <2>14. x = r BY <2>4, <2>8, <2>13 DEF k
  <2> QED BY <1>2, <2>6, <2>14, LineRules
<1> HIDE DEF gone
<1>7. KeptInv'
  <2>1. Moving = {} BY <1>1 DEF Moving
  <2> QED BY <1>1, <1>6, <2>1 DEF ArchiveInv, KeptInv
<1>8. hot' \subseteq Tree BY <1>1, <1>2
<1> QED BY <1>1, <1>2, <1>3, <1>4, <1>7, <1>8, TaskStepKeeps

\* When the list of a task is done, the blocks of its checkpoint are archived.
LEMMA TaskIsDone ==
    ASSUME ArchiveConstants, ArchiveInv, task # Arch!NoTask, task.todo = <<>>
    PROVE  Complete(task.cp.root)
<1>0. PICK r : r = task.cp.root OBVIOUS
<1>1. r \in Tree /\ stopStates \in SUBSET CheckpointSet /\ nodes[1] \in Tree BY <1>0, BeforeTaskStep
<1>2. Held(task.todo) = {} BY DEF Held
<1>3. CASE JoinedIn(nodes, r)
  <2>1. nodes[1] \in Line(r) /\ r \in Held(nodes) BY <1>3 DEF JoinedIn
  <2>2. Line(r) \ Line(nodes[1]) \subseteq archive BY <1>0, <1>2, <2>1 DEF ArchiveInv, TaskInv
  <2>3. CompleteIn(archive, stopStates, nodes[1]) BY DEF ArchiveInv, NodesInv, Complete
  <2> QED BY <1>0, <1>1, <2>1, <2>2, <2>3, CompleteAbove DEF Complete
<1>4. CASE Complete(r) BY <1>0, <1>4 DEF Complete
<1> QED BY <1>0, <1>3, <1>4 DEF ArchiveInv, TaskInv, Pending

\* A state is archived after the blocks of its chain.
LEMMA MaybeArchiveStateKeeps ==
    ASSUME ArchiveConstants, ArchiveInv, NEW cached \in BOOLEAN, Arch!MaybeArchiveState(cached)
    PROVE  ArchiveInv'
<1>1. /\ task.at = "state"
      /\ stateDb' = stateDb \/ stateDb' = {c \in stateDb : c.epoch # task.cp.epoch} \union {task.cp}
      /\ r10' = TRUE \/ r10' = r10
      /\ \/ task' = [task EXCEPT !.at = "prune"]
         \/ task' = [task EXCEPT !.at = "oldStates"]
         \/ task' = Arch!NoTask
      /\ UNCHANGED <<nodes, fin, writing, hot, archive, announced, waiting, r11, stopStates, r13>>
  <2>1. r10 \in BOOLEAN BY BeforeTaskStep
  <2> QED BY <2>1 DEF Arch!MaybeArchiveState, Arch!stop, Arch!Stored
<1>2. /\ task \in TaskSet /\ task # Arch!NoTask /\ r10 \in BOOLEAN /\ task.cp \in CheckpointSet
      /\ hot \subseteq Tree /\ archive \subseteq Tree /\ stateDb \subseteq CheckpointSet /\ stateDb # {}
      /\ stopStates \subseteq CheckpointSet /\ Arch!NoTask \in TaskSet
  BY <1>1, BeforeTaskStep
<1>3. task.todo = <<>> /\ Pending(task.cp) BY <1>1, <1>2 DEF ArchiveInv, TaskInv
<1>4. Complete(task.cp.root) BY <1>2, <1>3, TaskIsDone
<1>5. \A c \in stateDb' : c \in stateDb \/ (OnTime(c) /\ c.epoch <= fin.epoch /\ Complete(c.root)')
  <2>1. \A r : Complete(r) => Complete(r)' BY <1>1, QuietKeepsNodes DEF ArchiveInv
  <2>2. PICK cp : cp = task.cp OBVIOUS
  <2>3. OnTime(cp) /\ cp.epoch <= fin.epoch /\ Complete(cp.root)' BY <1>3, <1>4, <2>1, <2>2 DEF Pending
  <2>4. \A c \in stateDb' : c \in stateDb \/ c = cp BY <1>1, <2>2
  <2> QED BY <2>3, <2>4
<1>6. stateDb' \subseteq CheckpointSet /\ stateDb' # {} BY <1>1, <1>2
<1>7. task' \in TaskSet /\ TaskInv' /\ task'.at \notin {"put", "deleted"}
  <2>1. CASE task' = Arch!NoTask
    <3>1. task'.at = "idle" BY <2>1 DEF Arch!NoTask
    <3> QED BY <1>2, <2>1, <3>1, NoTaskIsFine
  <2>2. CASE task' # Arch!NoTask
    <3>1. task' \in TaskSet /\ task'.cp = task.cp /\ task'.todo = task.todo /\ task'.at \in {"oldStates", "prune"}
      BY <1>1, <1>2, <2>2 DEF TaskSet
    <3> QED BY <1>1, <1>2, <1>3, <3>1, TaskGoesOn
  <2> QED BY <2>1, <2>2
<1>8. KeptInv'
  <2>1. Moving = {} /\ Moving' = {} BY <1>1, <1>7 DEF Moving
  <2> QED BY <1>1, <2>1 DEF ArchiveInv, KeptInv
<1>9. r10' \in BOOLEAN BY <1>1, <1>2
<1> QED BY <1>1, <1>2, <1>5, <1>6, <1>7, <1>8, <1>9, TaskStepKeeps


\* Of the old states at least one stays, so that there is one to restart from.
LEMMA DeleteOldStatesKeeps ==
    ASSUME ArchiveConstants, ArchiveInv, Arch!DeleteOldStates
    PROVE  ArchiveInv'
<1> DEFINE key(c) == Arch!StartSlot(c.epoch)
<1>1. /\ task.at = "oldStates" /\ task' = [task EXCEPT !.at = "prune"]
      /\ UNCHANGED <<nodes, fin, writing, hot, archive, announced, waiting, r10, r11, stopStates, r13>>
  BY DEF Arch!DeleteOldStates, Arch!stop
<1>2. /\ task \in TaskSet /\ task # Arch!NoTask /\ r10 \in BOOLEAN
      /\ hot \subseteq Tree /\ archive \subseteq Tree /\ stateDb \subseteq CheckpointSet /\ stateDb # {}
      /\ stopStates \subseteq CheckpointSet
  BY <1>1, BeforeTaskStep
\* The state of the lowest key is not deleted.
<1>3. PICK keys : /\ keys \subseteq {key(c) : c \in stateDb}
                  /\ stateDb' = {c \in stateDb : key(c) \notin Arch!ComputeEpochsToDelete(keys)}
  BY DEF Arch!DeleteOldStates
<1>4. stateDb' # {}
  <2> DEFINE slot == [c \in stateDb |-> key(c)]
  <2>1. \A c \in stateDb : c.epoch \in Nat BY <1>2 DEF CheckpointSet
  <2>2. \A c \in stateDb : key(c) \in Nat BY <2>1, EpochsRise
  <2> HIDE DEF key
  <2>3. PICK c \in stateDb : \A d \in stateDb : slot[c] <= slot[d] BY <1>2, <2>2, LowestBlock
  <2>4. \A d \in stateDb : key(c) <= key(d) BY <2>3
  <2>5. \A j \in keys : ~(j < key(c)) BY <1>3, <2>2, <2>4
  <2>6. key(c) \notin Arch!ComputeEpochsToDelete(keys) BY <2>5 DEF Arch!ComputeEpochsToDelete
  <2> QED BY <1>3, <2>6
<1>5. stateDb' \subseteq stateDb BY <1>3
<1>6. task' \in TaskSet /\ task'.cp = task.cp /\ task'.todo = task.todo /\ task'.at = "prune"
  BY <1>1, <1>2 DEF TaskSet
<1>7. task.todo = <<>> BY <1>1, <1>2 DEF ArchiveInv, TaskInv
<1>8. TaskInv' BY <1>1, <1>2, <1>6, <1>7, TaskGoesOn
<1>9. KeptInv'
  <2>1. Moving = {} /\ Moving' = {} BY <1>1, <1>6 DEF Moving
  <2> QED BY <1>1, <2>1 DEF ArchiveInv, KeptInv
<1>10. stateDb' \subseteq CheckpointSet BY <1>2, <1>5
<1> QED BY <1>1, <1>2, <1>4, <1>5, <1>6, <1>8, <1>9, <1>10, TaskStepKeeps

\* The finalized state that stop archives is the base of what comes after it.
LEMMA StopKeeps ==
    ASSUME ArchiveConstants, ArchiveInv, NEW cached \in BOOLEAN, Arch!Stop(cached)
    PROVE  ArchiveInv'
<1>1. /\ r11' = TRUE
      /\ \/ /\ stateDb' = {c \in stateDb : c.epoch # fin.epoch} \union {fin}
            /\ stopStates' = stopStates \union {fin}
         \/ UNCHANGED <<stateDb, stopStates>>
      /\ UNCHANGED <<nodes, fin, writing, hot, archive, announced, waiting, task, r10, r13>>
  BY DEF Arch!Stop, Arch!Stored
<1>2. /\ task \in TaskSet /\ r10 \in BOOLEAN /\ fin \in CheckpointSet
      /\ hot \subseteq Tree /\ archive \subseteq Tree /\ stateDb \subseteq CheckpointSet /\ stateDb # {}
      /\ stopStates \subseteq CheckpointSet
  BY BeforeTaskStep
<1>3. stopStates \subseteq stopStates' /\ stopStates' \subseteq CheckpointSet
      /\ stateDb' \subseteq CheckpointSet /\ stateDb' # {}
  BY <1>1, <1>2
<1>4. \A c \in stateDb' : c \in stateDb \/ (OnTime(c) /\ c.epoch <= fin.epoch /\ Complete(c.root)')
  <2>1. PICK f : f = fin OBVIOUS
  <2>2. f.root \in Tree /\ f.epoch \in Nat BY <1>2, <2>1 DEF CheckpointSet
  <2>3. OnTime(f) /\ f.epoch <= fin.epoch BY <2>1, <2>2 DEF ArchiveInv, NodesInv, GoodNodes
  <2>4. f.root \in Line(f.root) BY <2>2, LineRules
  <2>5. f \in stopStates' => Complete(f.root)' BY <2>4 DEF Complete, CompleteIn
  <2> QED BY <1>1, <2>1, <2>3, <2>5
<1>5. Arch!Chunk' = Arch!Chunk /\ Moving' = Moving BY <1>1 DEF Arch!Chunk, Moving
<1>6. TaskInv'
  <2>1. CASE task = Arch!NoTask
    <3>1. task' = Arch!NoTask BY <1>1, <2>1
    <3> QED BY <3>1, NoTaskIsFine
  <2>2. CASE task # Arch!NoTask
    <3>1. task.at = "put" => Held(Arch!Chunk) \subseteq archive BY <2>2 DEF ArchiveInv, TaskInv
    <3>2. task.at \in {"state", "oldStates", "prune"} => task.todo = <<>>
      BY <2>2 DEF ArchiveInv, TaskInv
    <3> QED BY <1>1, <1>3, <1>5, <2>2, <3>1, <3>2, TaskGoesOn
  <2> QED BY <2>1, <2>2
<1>7. KeptInv' BY <1>1, <1>5 DEF ArchiveInv, KeptInv
<1> QED BY <1>1, <1>2, <1>3, <1>4, <1>6, <1>7, TaskStepKeeps


-----------------------------------------------------------------------------
(* The steps that change the fork choice. *)

\* The types of the next state, from those of its parts.
LEMMA TypesNext ==
    ASSUME ArchiveConstants, GoodNodes(nodes, fin)', writing' \subseteq ArchiveRoots, hot' \subseteq Tree,
           archive' \subseteq Tree, stateDb' \subseteq CheckpointSet, announced' \subseteq CheckpointSet,
           waiting' \in Seq(CheckpointSet), Len(waiting') <= MaxTasks, task' \in TaskSet,
           r10' \in BOOLEAN, r11' \in BOOLEAN, stopStates' \subseteq CheckpointSet, r13' \in 0 .. MaxRestarts
    PROVE  Arch!TypeOK'
<1>1. Arch!AllRoots = Tree /\ Arch!Checkpoints = CheckpointSet
  BY DEF Arch!AllRoots, Tree, Arch!Checkpoints, CheckpointSet
<1>2. /\ nodes' \in Seq(Tree) /\ (\A i, j \in 1 .. Len(nodes') : nodes'[i] = nodes'[j] => i = j)
      /\ fin' \in CheckpointSet /\ fin'.root \in Held(nodes')
  BY DEF GoodNodes, JoinedIn, CheckpointSet
<1>3. Arch!Range(nodes') = Held(nodes') BY <1>2, HeldFacts
<1>4. Arch!IsInjective(nodes') BY <1>2 DEF Arch!IsInjective
<1> QED BY <1>1, <1>2, <1>3, <1>4 DEF Arch!TypeOK, Arch!Known, TaskSet

\* A block comes to the fork choice and may finalize a checkpoint.
LEMMA ImportKeeps ==
    ASSUME ArchiveConstants, ArchiveInv, NEW r \in ArchiveRoots,
           NEW newFin \in {fin} \union Arch!Finalizable(r), Arch!ImportBlock(r, newFin)
    PROVE  ArchiveInv'
<1>1. /\ nodes' = Append(nodes, r) /\ writing' = writing \union {r} /\ fin' = newFin
      /\ announced' \subseteq announced \union {newFin}
      /\ UNCHANGED <<hot, archive, stateDb, waiting, task, r10, r11, stopStates, r13>>
  BY DEF Arch!ImportBlock, Arch!db, Arch!stop
<1>2. GoodNodes(nodes, fin) /\ nodes \in Seq(Tree) /\ fin \in CheckpointSet /\ fin.epoch \in Nat /\ fin.root \in Tree
  BY DEF ArchiveInv, NodesInv, GoodNodes, CheckpointSet
<1>3. Arch!Known = Held(nodes) BY <1>2, HeldFacts DEF Arch!Known
<1>4. /\ r \notin Held(nodes) /\ ArchiveParent[r] \in Held(nodes)
      /\ fin.root \in Line(r) /\ SlotOf(r) > Arch!StartSlot(fin.epoch)
  BY <1>3 DEF Arch!ImportBlock, Line, SlotOf
<1>5. newFin = fin \/ \E e \in Nat : e > fin.epoch /\ newFin = Arch!CheckpointOf(r, e)
  <2>1. SUFFICES ASSUME newFin \in Arch!Finalizable(r) PROVE \E e \in Nat : e > fin.epoch /\ newFin = Arch!CheckpointOf(r, e)
    OBVIOUS
  <2>2. PICK e \in (fin.epoch + 1) .. (Arch!EpochOf(r) - 2) : newFin = Arch!CheckpointOf(r, e)
    BY <2>1 DEF Arch!Finalizable
  <2>3. e \in Nat /\ e > fin.epoch BY <1>2
  <2> QED BY <2>2, <2>3
<1>6. PICK n, f, m, c : n = nodes /\ f = fin /\ m = nodes' /\ c = fin' OBVIOUS
<1>7. /\ m \in Seq(Tree) /\ m[1] = n[1] /\ Held(m) = Held(n) \union {r}
      /\ GoodNodes(m, c)
      /\ f.epoch <= c.epoch /\ f.root \in Line(c.root)
      /\ \A x : JoinedIn(n, x) => JoinedIn(m, x)
      /\ \A x \in Tree : c.root \in Line(x) \/ x \in Line(c.root) => f.root \in Line(x) \/ x \in Line(f.root)
  <2>1. m = Append(n, r) /\ c = newFin BY <1>1, <1>6
  <2> QED BY <1>2, <1>4, <1>5, <1>6, <2>1, AppendKeepsNodes
<1>8. c \in CheckpointSet /\ c.epoch \in Nat /\ c.root \in Tree BY <1>7 DEF GoodNodes, CheckpointSet
<1>9. \A x : Complete(x)' <=> Complete(x) BY <1>1 DEF Complete
\* A checkpoint that is yet to be archived is older than the new block.
<1>10. ASSUME NEW cp \in CheckpointSet, Pending(cp)
       PROVE  Pending(cp)' /\ cp.root # r
  <2>1. /\ OnTime(cp) /\ cp.epoch <= f.epoch /\ cp.root \in Line(f.root)
        /\ JoinedIn(n, cp.root) \/ (cp.root \notin Held(n) /\ Complete(cp.root))
    BY <1>6, <1>10 DEF Pending
  <2>2. cp.epoch \in Nat /\ cp.root \in Tree /\ f.epoch \in Nat BY <1>2, <1>6 DEF CheckpointSet
  <2>3. cp.root # r
    <3>1. Arch!StartSlot(cp.epoch) \in Nat /\ Arch!StartSlot(f.epoch) \in Nat /\ Arch!StartSlot(cp.epoch) <= Arch!StartSlot(f.epoch)
      BY <2>1, <2>2, EpochsRise
    <3>2. SlotOf(cp.root) \in Nat /\ SlotOf(r) \in Nat BY <2>2, LineRules DEF Tree
    <3>3. SlotOf(cp.root) <= Arch!StartSlot(cp.epoch) BY <2>1 DEF OnTime
    <3>4. SlotOf(cp.root) < SlotOf(r) BY <1>4, <1>6, <3>1, <3>2, <3>3
    <3> QED BY <3>2, <3>4
  <2>4. cp.epoch <= c.epoch BY <1>7, <1>8, <2>1, <2>2
  <2>5. cp.root \in Line(c.root) BY <1>7, <1>8, <2>1, LineRules
  <2>6. JoinedIn(m, cp.root) \/ (cp.root \notin Held(m) /\ Complete(cp.root)') BY <1>7, <1>9, <2>1, <2>3
  <2> QED BY <1>6, <2>1, <2>3, <2>4, <2>5, <2>6 DEF Pending
<1>11. Pending(c)'
  <2>1. OnTime(c) /\ JoinedIn(m, c.root) BY <1>7 DEF GoodNodes
  <2>2. c.root \in Line(c.root) /\ c.epoch <= c.epoch BY <1>8, LineRules
  <2> QED BY <1>6, <2>1, <2>2 DEF Pending
<1>12. /\ writing \subseteq ArchiveRoots /\ hot \subseteq Tree /\ archive \subseteq Tree /\ announced \subseteq CheckpointSet
       /\ stateDb \subseteq CheckpointSet /\ waiting \in Seq(CheckpointSet) /\ Len(waiting) <= MaxTasks
       /\ task \in TaskSet /\ r10 \in BOOLEAN /\ r11 \in BOOLEAN /\ stopStates \subseteq CheckpointSet
       /\ r13 \in 0 .. MaxRestarts /\ task.cp \in CheckpointSet /\ nodes[1] \in Tree /\ Held(nodes) \subseteq Tree
  BY ArchiveTypes, BeforeTaskStep DEF ArchiveInv
<1>13. NodesInv'
  <2>1. Complete(nodes[1]) BY DEF ArchiveInv, NodesInv
  <2>2. CompleteIn(archive, stopStates, m[1]) BY <1>6, <1>7, <2>1 DEF Complete
  <2> QED BY <1>1, <1>6, <1>7, <2>2 DEF NodesInv, Complete
<1>14. Arch!TypeOK'
  <2>1. announced' \subseteq CheckpointSet BY <1>1, <1>6, <1>8, <1>12
  <2> QED BY <1>1, <1>6, <1>7, <1>12, <2>1, TypesNext
<1>15. StatesInv'
  <2>1. \A cp \in stateDb : cp.epoch \in Nat BY <1>12 DEF CheckpointSet
  <2>2. \A cp \in stateDb : OnTime(cp) /\ cp.epoch <= f.epoch /\ Complete(cp.root)
    BY <1>6 DEF ArchiveInv, StatesInv
  <2>3. \A cp \in stateDb : cp.epoch <= c.epoch /\ Complete(cp.root)'
    BY <1>2, <1>6, <1>7, <1>8, <1>9, <2>1, <2>2
  <2>4. stateDb # {} BY DEF ArchiveInv, StatesInv
  <2> QED BY <1>1, <1>6, <2>2, <2>3, <2>4 DEF StatesInv
<1>16. TasksInv'
  <2>1. \A cp \in announced : Pending(cp)' BY <1>10, <1>12 DEF ArchiveInv, TasksInv
  <2>2. ASSUME NEW i \in 1 .. Len(waiting) PROVE \E cp : cp = waiting[i] /\ Pending(cp)'
    <3>1. waiting[i] \in CheckpointSet BY <1>12
    <3>2. Pending(waiting[i]) BY DEF ArchiveInv, TasksInv
    <3> QED BY <1>10, <3>1, <3>2
  <2>3. \A cp \in announced' : cp \in announced \/ cp = c BY <1>1, <1>6
  <2>4. \A cp \in announced' : Pending(cp)' BY <1>11, <2>1, <2>3
  <2>5. \A i \in 1 .. Len(waiting) : Pending(waiting[i])' BY <1>1, <2>2 DEF Pending
  <2> QED BY <1>1, <2>4, <2>5 DEF TasksInv
<1>17. Arch!Chunk' = Arch!Chunk /\ Moving' = Moving BY <1>1 DEF Arch!Chunk, Moving
<1>18. TaskInv'
  <2>1. SUFFICES ASSUME task' # Arch!NoTask' PROVE TaskInv' BY DEF TaskInv
  <2>2. task # Arch!NoTask BY <1>1, <2>1 DEF Arch!NoTask, Arch!Checkpoint
  <2>3. PICK cp : cp = task.cp OBVIOUS
  <2>4. Pending(cp) BY <2>2, <2>3 DEF ArchiveInv, TaskInv
  <2>5. Pending(cp)' /\ cp.root # r BY <1>10, <1>12, <2>3, <2>4
  <2>6. Pending(task.cp)' BY <1>1, <2>3, <2>5 DEF Pending
  <2>7. cp.root \in Held(n) => Line(cp.root) \ Line(n[1]) \subseteq archive \union Held(task.todo)
    BY <1>6, <2>2, <2>3 DEF ArchiveInv, TaskInv
  <2>8. cp.root \in Held(m) => Line(cp.root) \ Line(m[1]) \subseteq archive \union Held(task.todo)
    BY <1>7, <2>5, <2>7
  <2>9. /\ task.at = "put" => Held(Arch!Chunk) \subseteq archive
        /\ task.at \in {"state", "oldStates", "prune"} => task.todo = <<>>
    BY <2>2 DEF ArchiveInv, TaskInv
  <2> QED BY <1>1, <1>6, <1>17, <2>3, <2>6, <2>8, <2>9 DEF TaskInv
<1>19. KeptInv'
  <2>1. ASSUME NEW x \in Held(m) \ {m[1]}, c.root \in Line(x) \/ x \in Line(c.root)
        PROVE  x \in writing' \union hot \union archive \union Moving
    <3>1. CASE x = r BY <1>1, <3>1
    <3>2. CASE x # r
      <4>1. x \in Held(n) \ {n[1]} /\ x \in Tree BY <1>6, <1>7, <1>12, <2>1, <3>2
      <4>2. f.root \in Line(x) \/ x \in Line(f.root) BY <1>7, <2>1, <4>1
      <4>3. x \in writing \union hot \union archive \union Moving
        BY <1>6, <4>1, <4>2 DEF ArchiveInv, KeptInv
      <4> QED BY <1>1, <4>3
    <3> QED BY <3>1, <3>2
  <2> QED BY <1>1, <1>6, <1>17, <2>1 DEF KeptInv
<1> QED BY <1>13, <1>14, <1>15, <1>16, <1>18, <1>19 DEF ArchiveInv


\* The fork choice is pruned at the checkpoint of a task, in whatever order tasks come.
LEMMA PruneKeeps ==
    ASSUME ArchiveConstants, ArchiveInv, Arch!PruneForkChoice
    PROVE  ArchiveInv'
<1>0. PICK p, n, f : p = task.cp.root /\ n = nodes /\ f = fin OBVIOUS
<1>1. /\ task.at = "prune" /\ task' = Arch!NoTask
      /\ nodes' = IF p \in Arch!Known THEN SubSeq(n, Arch!IndexOf(p), Len(n)) ELSE n
      /\ UNCHANGED <<fin, writing, hot, archive, stateDb, announced, waiting, r10, r11, stopStates, r13>>
  BY <1>0 DEF Arch!PruneForkChoice, Arch!db, Arch!stop
<1>2. /\ writing \subseteq ArchiveRoots /\ hot \subseteq Tree /\ archive \subseteq Tree /\ announced \subseteq CheckpointSet
      /\ stateDb \subseteq CheckpointSet /\ waiting \in Seq(CheckpointSet) /\ Len(waiting) <= MaxTasks
      /\ task \in TaskSet /\ r10 \in BOOLEAN /\ r11 \in BOOLEAN /\ stopStates \subseteq CheckpointSet
      /\ r13 \in 0 .. MaxRestarts /\ task # Arch!NoTask /\ Arch!NoTask \in TaskSet /\ stateDb # {}
      /\ n[1] \in Tree /\ Held(n) \subseteq Tree /\ p \in Tree /\ f \in CheckpointSet
  BY <1>0, <1>1, ArchiveTypes, BeforeTaskStep DEF ArchiveInv
<1>3. task.todo = <<>> /\ Pending(task.cp) BY <1>1, <1>2 DEF ArchiveInv, TaskInv
<1>4. Complete(p) BY <1>0, <1>2, <1>3, TaskIsDone
<1>5. GoodNodes(n, f) /\ Arch!Known = Held(n) /\ n \in Seq(Tree)
  <2>1. GoodNodes(n, f) /\ n \in Seq(Tree) BY <1>0 DEF ArchiveInv, NodesInv, GoodNodes
  <2> QED BY <1>0, <2>1, HeldFacts DEF Arch!Known
<1>6. Moving = {} /\ Moving' = {} BY <1>1 DEF Moving, Arch!NoTask
<1>7. TaskInv' BY <1>1, NoTaskIsFine
<1>8. CASE p \notin Held(n)
  <2>1. nodes' = nodes BY <1>0, <1>1, <1>5, <1>8
  <2>2. KeptInv' BY <1>1, <1>6, <2>1 DEF ArchiveInv, KeptInv
  <2>3. task' \in TaskSet BY <1>1, <1>2
  <2> QED BY <1>1, <1>2, <1>7, <2>1, <2>2, <2>3, TaskStepKeeps
<1>9. CASE p \in Held(n)
  <2>1. PICK k \in 1 .. Len(n) : n[k] = p /\ nodes' = SubSeq(n, k, Len(n))
    BY <1>0, <1>1, <1>5, <1>9, IndexFacts
  <2>2. p \in Line(f.root) /\ f.root \in Tree BY <1>0, <1>2, <1>3 DEF Pending, CheckpointSet
  <2>3. PICK m : m = nodes' OBVIOUS
  <2>4. /\ m[1] = p /\ Held(m) \subseteq Held(n) /\ GoodNodes(m, f)
        /\ \A x \in Held(m) : x # p => x # n[1]
        /\ \A x : JoinedIn(n, x) /\ p \in Line(x) => JoinedIn(m, x)
    BY <1>5, <2>1, <2>2, <2>3, PruneKeepsNodes
  <2>5. \A x : Complete(x)' <=> Complete(x) BY <1>1 DEF Complete
  <2>6. Line(p) \ Line(n[1]) \subseteq archive
    <3>1. Held(task.todo) = {} BY <1>3 DEF Held
    <3> QED BY <1>0, <1>2, <1>9, <3>1 DEF ArchiveInv, TaskInv
\* A checkpoint before the pruned one goes with it, and its blocks are archived.
  <2>7. ASSUME NEW c \in CheckpointSet, Pending(c) PROVE Pending(c)'
    <3>1. /\ OnTime(c) /\ c.epoch <= f.epoch /\ c.root \in Line(f.root) /\ c.root \in Tree
          /\ JoinedIn(n, c.root) \/ (c.root \notin Held(n) /\ Complete(c.root))
      BY <1>0, <2>7 DEF Pending, CheckpointSet
    <3>2. JoinedIn(m, c.root) \/ (c.root \notin Held(m) /\ Complete(c.root))
      <4>1. CASE c.root \notin Held(n) BY <2>4, <3>1, <4>1 DEF JoinedIn
      <4>2. CASE JoinedIn(n, c.root) /\ p \in Line(c.root) BY <2>4, <4>2
      <4>3. CASE JoinedIn(n, c.root) /\ p \notin Line(c.root)
        <5>1. c.root \in Line(p) /\ Line(c.root) \subseteq Line(p) BY <1>2, <2>2, <3>1, <4>3, LineRules
        <5>2. c.root # p BY <1>2, <4>3, LineRules
        <5>3. c.root \notin Held(m) BY <2>4, <5>1, <5>2, FirstIsOldest
        <5>4. n[1] \in Line(c.root) BY <4>3 DEF JoinedIn
        <5>5. CompleteIn(archive, stopStates, n[1]) BY <1>0 DEF ArchiveInv, NodesInv, Complete
        <5>6. Complete(c.root) BY <1>2, <2>6, <3>1, <5>1, <5>4, <5>5, CompleteAbove DEF Complete
        <5> QED BY <5>3, <5>6
      <4> QED BY <3>1, <4>1, <4>2, <4>3
    <3> QED BY <1>0, <1>1, <2>3, <2>5, <3>1, <3>2 DEF Pending
  <2>8. NodesInv'
    <3>1. CompleteIn(archive, stopStates, m[1]) BY <1>4, <2>4 DEF Complete
    <3> QED BY <1>0, <1>1, <2>3, <2>4, <3>1 DEF NodesInv, Complete
  <2>9. Arch!TypeOK'
    <3>1. task' \in TaskSet /\ GoodNodes(nodes, fin)' BY <1>1, <1>2, <2>8 DEF NodesInv
    <3> QED BY <1>1, <1>2, <3>1, TypesNext
  <2>10. StatesInv' BY <1>1, <2>5 DEF ArchiveInv, StatesInv
  <2>11. TasksInv'
    <3>1. \A cp \in announced : Pending(cp)' BY <1>2, <2>7 DEF ArchiveInv, TasksInv
    <3>2. ASSUME NEW i \in 1 .. Len(waiting) PROVE \E cp : cp = waiting[i] /\ Pending(cp)'
      <4>1. waiting[i] \in CheckpointSet BY <1>2
      <4>2. Pending(waiting[i]) BY DEF ArchiveInv, TasksInv
      <4> QED BY <2>7, <4>1, <4>2
    <3>3. \A i \in 1 .. Len(waiting) : Pending(waiting[i])' BY <1>1, <3>2 DEF Pending
    <3> QED BY <1>1, <3>1, <3>3 DEF TasksInv
  <2>12. KeptInv'
    <3>1. \A x \in Held(m) \ {m[1]} : x \in Held(n) \ {n[1]} BY <2>4
    <3>2. \A x \in Held(n) \ {n[1]} : f.root \in Line(x) \/ x \in Line(f.root) => x \in writing \union hot \union archive
      BY <1>0, <1>6 DEF ArchiveInv, KeptInv
    <3> QED BY <1>0, <1>1, <2>3, <3>1, <3>2 DEF KeptInv
  <2> QED BY <1>7, <2>8, <2>9, <2>10, <2>11, <2>12 DEF ArchiveInv
<1> QED BY <1>8, <1>9

\* A fresh start from a stored state, the first one included.
LEMMA StartIsGood ==
    ASSUME ArchiveConstants, NEW f \in CheckpointSet, OnTime(f), Complete(f.root)',
           nodes' = <<f.root>>, fin' = f, writing' = {}, announced' = {}, waiting' = <<>>, task' = Arch!NoTask,
           hot' \subseteq Tree, archive' \subseteq Tree, stateDb' \subseteq CheckpointSet, stateDb' # {},
           stopStates' \subseteq CheckpointSet, r10' \in BOOLEAN, r11' \in BOOLEAN, r13' \in 0 .. MaxRestarts,
           \A c \in stateDb' : OnTime(c) /\ c.epoch <= f.epoch /\ Complete(c.root)'
    PROVE  ArchiveInv'
<1>1. PICK n : n = nodes' OBVIOUS
<1>2. GoodNodes(n, f) /\ Held(n) = {f.root} /\ n[1] = f.root BY <1>1, OneNodeIsGood DEF CheckpointSet
<1>3. NodesInv' BY <1>1, <1>2 DEF NodesInv, Complete
<1>4. Arch!TypeOK'
  <2>1. Arch!NoTask \in TaskSet BY DEF Arch!NoTask, Arch!Checkpoint, TaskSet, CheckpointSet, Tree
  <2>2. GoodNodes(nodes, fin)' BY <1>3 DEF NodesInv
  <2>3. MaxTasks \in Nat BY DEF ArchiveConstants
  <2>4. waiting' \in Seq(CheckpointSet) /\ Len(waiting') = 0 OBVIOUS
  <2>5. Len(waiting') <= MaxTasks BY <2>3, <2>4
  <2> QED BY <2>1, <2>2, <2>4, <2>5, TypesNext
<1>5. StatesInv' BY DEF StatesInv
<1>6. TasksInv'
  <2>1. Len(waiting') = 0 OBVIOUS
  <2> QED BY <2>1 DEF TasksInv
<1>7. TaskInv' BY NoTaskIsFine
<1>8. KeptInv' BY <1>1, <1>2 DEF KeptInv
<1> QED BY <1>3, <1>4, <1>5, <1>6, <1>7, <1>8 DEF ArchiveInv

\* The last state is one of those stored, and none is later.
LEMMA LastStateFacts ==
    ASSUME ArchiveConstants, ArchiveInv
    PROVE  Arch!LastState \in stateDb /\ \A c \in stateDb : c.epoch <= Arch!LastState.epoch
<1> DEFINE e == fin.epoch
           gap == [c \in stateDb |-> e - c.epoch]
           epochs == {c.epoch : c \in stateDb}
<1>1. stateDb \subseteq CheckpointSet /\ stateDb # {} /\ e \in Nat BY BeforeTaskStep DEF CheckpointSet
<1>2. \A c \in stateDb : c.epoch \in Nat /\ c.epoch <= e
  BY <1>1 DEF ArchiveInv, StatesInv, CheckpointSet
<1>3. \A c \in stateDb : gap[c] \in Nat BY <1>1, <1>2
<1>4. PICK c \in stateDb : \A d \in stateDb : gap[c] <= gap[d]
  <2> HIDE DEF gap
  <2> QED BY <1>1, <1>3, LowestBlock
<1>5. \A d \in stateDb : d.epoch <= c.epoch BY <1>1, <1>2, <1>4
<1>6. c.epoch \in epochs /\ \A x \in epochs : x <= c.epoch /\ x \in Nat BY <1>2, <1>5
<1>7. Arch!Max(epochs) = CHOOSE x \in epochs : \A y \in epochs : x >= y BY DEF Arch!Max
<1>8. Arch!LastStoredEpoch \in epochs /\ \A x \in epochs : x <= Arch!LastStoredEpoch
  <2>1. \E x \in epochs : \A y \in epochs : x >= y BY <1>6
  <2> QED BY <1>6, <1>7, <2>1 DEF Arch!LastStoredEpoch
<1>9. \E d \in stateDb : d.epoch = Arch!LastStoredEpoch BY <1>8
<1>10. Arch!LastState \in stateDb /\ Arch!LastState.epoch = Arch!LastStoredEpoch
  BY <1>9 DEF Arch!LastState
<1> QED BY <1>8, <1>10

\* The process ends at any point, and starts again from the last stored state.
LEMMA RestartKeeps ==
    ASSUME ArchiveConstants, ArchiveInv, Arch!Restart
    PROVE  ArchiveInv'
<1>1. PICK f : f = Arch!LastState OBVIOUS
<1>2. /\ r13 < MaxRestarts /\ r13' = r13 + 1 /\ nodes' = <<f.root>> /\ fin' = f
      /\ writing' = {} /\ announced' = {} /\ waiting' = <<>> /\ task' = Arch!NoTask
      /\ r10' = FALSE /\ r11' = FALSE /\ UNCHANGED <<hot, archive, stateDb, stopStates>>
  BY <1>1 DEF Arch!Restart, Arch!db
<1>3. f \in stateDb /\ \A c \in stateDb : c.epoch <= f.epoch BY <1>1, LastStateFacts
<1>4. \A x : Complete(x) => Complete(x)' BY <1>2 DEF Complete
<1>5. \A c \in stateDb : OnTime(c) /\ c.epoch <= f.epoch /\ Complete(c.root)'
  BY <1>3, <1>4 DEF ArchiveInv, StatesInv
<1>6. /\ hot \subseteq Tree /\ archive \subseteq Tree /\ stateDb \subseteq CheckpointSet /\ stateDb # {}
      /\ stopStates \subseteq CheckpointSet
  BY BeforeTaskStep
<1>7. r13' \in 0 .. MaxRestarts
  <2>1. r13 \in 0 .. MaxRestarts /\ MaxRestarts \in Nat BY ArchiveTypes DEF ArchiveInv, ArchiveConstants
  <2> QED BY <1>2, <2>1
<1> QED BY <1>2, <1>3, <1>5, <1>6, <1>7, StartIsGood


-----------------------------------------------------------------------------
\* The invariant holds at the start.
LEMMA ArchiveStarts == ASSUME ArchiveConstants, Arch!Init PROVE ArchiveInv
<1>1. PICK g : g = Arch!Checkpoint(0, ArchiveGenesis) OBVIOUS
<1>2. /\ nodes = <<ArchiveGenesis>> /\ fin = g /\ writing = {} /\ hot = {ArchiveGenesis} /\ archive = {ArchiveGenesis}
      /\ stateDb = {g} /\ announced = {} /\ waiting = <<>> /\ task = Arch!NoTask /\ r10 = FALSE /\ r11 = FALSE
      /\ stopStates = {} /\ r13 = 0
  BY <1>1 DEF Arch!Init
<1>3. g \in CheckpointSet /\ g.root = ArchiveGenesis /\ g.epoch = 0 /\ ArchiveGenesis \in Tree
  BY <1>1 DEF Arch!Checkpoint, CheckpointSet, Tree
<1>4. OnTime(g)
  <2>1. SlotOf(ArchiveGenesis) = 0 BY LineRules
  <2>2. Arch!StartSlot(0) \in Nat BY EpochsRise
  <2> QED BY <1>3, <2>1, <2>2 DEF OnTime
<1>5. GoodNodes(<<ArchiveGenesis>>, g) /\ Held(<<ArchiveGenesis>>) = {ArchiveGenesis}
  BY <1>3, <1>4, OneNodeIsGood DEF CheckpointSet
<1>6. CompleteIn(archive, stopStates, ArchiveGenesis) BY <1>1, <1>3, LineRules DEF CompleteIn
<1>7. NodesInv BY <1>2, <1>5, <1>6 DEF NodesInv, Complete
<1>8. Arch!TypeOK
  <2>1. Arch!NoTask \in TaskSet BY DEF Arch!NoTask, Arch!Checkpoint, TaskSet, CheckpointSet, Tree
  <2>2. /\ nodes \in Seq(Tree) /\ (\A i, j \in 1 .. Len(nodes) : nodes[i] = nodes[j] => i = j)
        /\ fin \in CheckpointSet /\ fin.root \in Held(nodes)
    BY <1>2, <1>3, <1>5 DEF GoodNodes
  <2>3. MaxTasks \in Nat /\ MaxRestarts \in Nat BY DEF ArchiveConstants
  <2>4. waiting \in Seq(CheckpointSet) /\ Len(waiting) = 0 BY <1>2
  <2>5. Len(waiting) <= MaxTasks /\ r13 \in 0 .. MaxRestarts BY <1>2, <2>3, <2>4
  <2> QED BY <1>2, <1>3, <2>1, <2>2, <2>4, <2>5, ArchiveTypes
<1>9. StatesInv BY <1>2, <1>3, <1>4, <1>6 DEF StatesInv, Complete
<1>10. TasksInv
  <2>1. Len(waiting) = 0 BY <1>2
  <2> QED BY <1>2, <2>1 DEF TasksInv
<1>11. TaskInv BY <1>2 DEF TaskInv
<1>12. KeptInv BY <1>2, <1>5 DEF KeptInv
<1> QED BY <1>7, <1>8, <1>9, <1>10, <1>11, <1>12 DEF ArchiveInv

\* Every step of the archiver keeps the invariant.
LEMMA ArchiveKept ==
    ASSUME ArchiveConstants, ArchiveInv, Arch!Next
    PROVE  ArchiveInv'
<1>1. CASE \E r \in ArchiveRoots : \E newFin \in {fin} \union Arch!Finalizable(r) : Arch!ImportBlock(r, newFin)
  BY <1>1, ImportKeeps
<1>2. CASE \E r \in ArchiveRoots : Arch!BlockWritten(r) BY <1>2, BlockWrittenKeeps
<1>3. CASE \E cp \in announced : Arch!OnFinalizedCheckpoint(cp) BY <1>3, OnFinalizedKeeps
<1>4. CASE Arch!TaskStep
  <2>1. CASE Arch!StartTask BY <2>1, StartTaskKeeps
  <2>2. CASE Arch!ReadChunk BY <2>2, ReadChunkKeeps
  <2>3. CASE Arch!PutChunk BY <2>3, PutChunkKeeps
  <2>4. CASE Arch!DeleteChunk BY <2>4, DeleteChunkKeeps
  <2>5. CASE Arch!DeleteNonCanonicalBlocks BY <2>5, DeleteNonCanonicalKeeps
  <2>6. CASE \E cached \in BOOLEAN : Arch!MaybeArchiveState(cached) BY <2>6, MaybeArchiveStateKeeps
  <2>7. CASE Arch!DeleteOldStates BY <2>7, DeleteOldStatesKeeps
  <2>8. CASE Arch!PruneForkChoice BY <2>8, PruneKeeps
  <2> QED BY <1>4, <2>1, <2>2, <2>3, <2>4, <2>5, <2>6, <2>7, <2>8 DEF Arch!TaskStep
<1>5. CASE \E cached \in BOOLEAN : Arch!Stop(cached) BY <1>5, StopKeeps
<1>6. CASE Arch!Restart BY <1>6, RestartKeeps
<1> QED BY <1>1, <1>2, <1>3, <1>4, <1>5, <1>6 DEF Arch!Next

\* The parts of ArchiveIsComplete that are invariants of the archiver follow.
LEMMA ArchiveIsGood ==
    ASSUME ArchiveConstants, ArchiveInv
    PROVE  Arch!TypeOK /\ Arch!ArchiveIsComplete /\ Arch!NothingFinalizedLost
<1>1. Arch!TypeOK BY DEF ArchiveInv
<1>2. Arch!ArchiveIsComplete
  BY DEF ArchiveInv, StatesInv, Complete, CompleteIn, Line, Arch!ArchiveIsComplete
<1>3. Arch!NothingFinalizedLost
  <2>1. /\ task \in TaskSet /\ fin.root \in Tree /\ nodes[1] \in Tree /\ Held(nodes) \subseteq Tree
    BY BeforeTaskStep DEF CheckpointSet
  <2>2. Arch!Range(Arch!Chunk) = Held(Arch!Chunk) BY <2>1, ChunkFacts
  <2>3. JoinedIn(nodes, fin.root) BY DEF ArchiveInv, NodesInv, GoodNodes
  <2>4. Arch!Range(Arch!IterateBlockSummaries(fin.root)) = Line(fin.root) \ Line(nodes[1])
    BY <2>1, <2>3, SummariesFacts DEF ArchiveInv
  <2>5. ASSUME NEW x \in Line(fin.root) \ Line(nodes[1])
        PROVE  x \in writing \union hot \union archive \union Moving
    <3>1. x \in Held(nodes) BY <2>3 DEF JoinedIn
    <3>2. x # nodes[1] BY <2>1, LineRules
    <3> QED BY <3>1, <3>2 DEF ArchiveInv, KeptInv
  <2> QED BY <2>2, <2>4, <2>5 DEF Moving, Arch!NothingFinalizedLost
<1> QED BY <1>1, <1>2, <1>3

\* Whenever the process ends, a chunk half moved included, it can start again from what is
\* stored: under every archived state the archive has the blocks of its chain, back to genesis or
\* to a state that stop archived ahead of the tasks; and while it runs no block up to the finalized
\* one is lost on the way.  For any tree of blocks, sizes of chunks and queues, orders of events and
\* restarts.
THEOREM ArchiveStaysComplete == ASSUME ArchiveConstants PROVE MCSpec => []ArchiveIsComplete
<1> DEFINE Inv == part = "archiver" => ArchiveInv
<1>1. MCInit => Inv BY ArchiveStarts DEF MCInit
<1>2. Inv /\ [MCNext]_allVars => Inv'
  <2> SUFFICES ASSUME Inv, [MCNext]_allVars, part' = "archiver" PROVE ArchiveInv' OBVIOUS
  <2>1. part = "archiver" BY DEF MCNext, allVars
  <2>2. CASE UNCHANGED allVars
    <3>1. UNCHANGED registers BY <2>2 DEF allVars
    <3>2. UNCHANGED <<nodes, fin, writing, hot, archive, stateDb, announced, waiting, task, r10, r11, stopStates, r13>>
      BY <3>1 DEF registers
    <3>3. /\ NodesInv' /\ (\A x : Complete(x) => Complete(x)') /\ (\A c : Pending(c) => Pending(c)')
      BY <2>1, <3>2, QuietKeepsNodes DEF ArchiveInv
    <3>4. Arch!TypeOK' BY <2>1, <3>2 DEF ArchiveInv, Arch!TypeOK, Arch!AllRoots, Arch!Known
    <3>5. StatesInv' BY <2>1, <3>2, <3>3 DEF ArchiveInv, StatesInv
    <3>6. TasksInv' BY <2>1, <3>2, <3>3 DEF ArchiveInv, TasksInv
    <3>7. Arch!Chunk' = Arch!Chunk BY <3>2 DEF Arch!Chunk
    <3>8. TaskInv' BY <2>1, <3>2, <3>3, <3>7 DEF ArchiveInv, TaskInv, Arch!NoTask, Arch!Checkpoint
    <3>9. KeptInv' BY <2>1, <3>2, <3>7 DEF ArchiveInv, KeptInv, Moving
    <3> QED BY <3>3, <3>4, <3>5, <3>6, <3>8, <3>9 DEF ArchiveInv
  <2>3. CASE MCNext
    <3>1. Arch!Next BY <2>1, <2>3 DEF MCNext
    <3> QED BY <2>1, <3>1, ArchiveKept
  <2> QED BY <2>2, <2>3
<1>3. Inv => ArchiveIsComplete BY ArchiveIsGood DEF ArchiveIsComplete
<1> QED BY <1>1, <1>2, <1>3, PTL DEF MCSpec
=============================================================================
