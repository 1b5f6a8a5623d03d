-------------------------- MODULE ForkChoiceProofs --------------------------
(***************************************************************************)
(* Proofs about the fork choice, for every tree of blocks:                 *)
(*   - the finalized checkpoint only moves down the chain of the one       *)
(*     before, whatever is imported, replayed and pruned;                  *)
(*   - the proto array stays a forest in which the walks by slots tell the *)
(*     ancestry, and the checkpoints of the store keep their blocks.       *)
(***************************************************************************)
EXTENDS ForkChoice, WellFoundedInduction, TLAPS

-----------------------------------------------------------------------------
(* The proto array as a forest. *)

ArrayFields == {"nodes", "indices", "justifiedEpoch", "finalizedEpoch"}
NodeFields == {"blockRoot", "slot", "parentRoot", "targetRoot", "justifiedEpoch", "finalizedEpoch",
               "parent", "weight", "bestChild", "bestDescendant"}

IsList(s) == \E S : s \in Seq(S)

\* The map and the array name the same blocks, and a node comes after the node of its
\* parent root.
Forest(pa) ==
    /\ DOMAIN pa = ArrayFields
    /\ IsList(pa.nodes)
    /\ pa.indices \in [DOMAIN pa.indices -> 1..Len(pa.nodes)]
    /\ \A r \in DOMAIN pa.indices : GetNode(pa, r).blockRoot = r
    /\ \A i \in 1..Len(pa.nodes) :
          /\ DOMAIN pa.nodes[i] = NodeFields
          /\ HasBlock(pa, pa.nodes[i].blockRoot) /\ pa.indices[pa.nodes[i].blockRoot] = i
          /\ pa.nodes[i].parent = IndexOf(pa, pa.nodes[i].parentRoot)
          /\ pa.nodes[i].parent < i

ParentRootIn(pa, c) == GetNode(pa, c).parentRoot

\* A set of numbers has a least one.
LEMMA NatHasLeast ==
    ASSUME NEW T \in SUBSET Nat, T # {}
    PROVE  \E x \in T : \A y \in T : x <= y
<1>1. PICK x \in T : \A y \in T : <<y, x>> \notin OpToRel(<, Nat)
  BY NatLessThanWellFounded, WFMin
<1>2. \A y \in T : ~(y < x) BY <1>1 DEF OpToRel
<1> QED BY <1>2

\* What a forest has, block by block.
LEMMA ForestFacts ==
    ASSUME NEW pa, Forest(pa)
    PROVE  /\ Len(pa.nodes) \in Nat /\ DOMAIN pa.nodes = 1..Len(pa.nodes)
           /\ \A r \in DOMAIN pa.indices : /\ pa.indices[r] \in 1..Len(pa.nodes)
                                           /\ pa.nodes[pa.indices[r]].blockRoot = r
           /\ \A r \in DOMAIN pa.indices :
                 ParentRootIn(pa, r) \in DOMAIN pa.indices =>
                     pa.indices[ParentRootIn(pa, r)] < pa.indices[r]
<1>1. PICK S : pa.nodes \in Seq(S) BY DEF Forest, IsList
<1>2. Len(pa.nodes) \in Nat /\ DOMAIN pa.nodes = 1..Len(pa.nodes) BY <1>1
<1>3. ASSUME NEW r \in DOMAIN pa.indices
      PROVE  pa.indices[r] \in 1..Len(pa.nodes) /\ pa.nodes[pa.indices[r]].blockRoot = r
  BY <1>3 DEF Forest, GetNode
<1>4. ASSUME NEW r \in DOMAIN pa.indices, ParentRootIn(pa, r) \in DOMAIN pa.indices
      PROVE  pa.indices[ParentRootIn(pa, r)] < pa.indices[r]
  <2> DEFINE i == pa.indices[r]
  <2>1. i \in 1..Len(pa.nodes) BY <1>3
  <2>2. pa.nodes[i].parent = IndexOf(pa, pa.nodes[i].parentRoot) /\ pa.nodes[i].parent < i
    BY <2>1 DEF Forest
  <2> QED BY <1>4, <2>2 DEF IndexOf, HasBlock, ParentRootIn, GetNode
<1> QED BY <1>2, <1>3, <1>4

\* The recursion of DescendsIn.
IsLine(pa, line) ==
    line = [k \in 1..Len(pa.nodes) |->
              {pa.nodes[k].blockRoot} \union
                (IF HasBlock(pa, pa.nodes[k].parentRoot) THEN line[pa.indices[pa.nodes[k].parentRoot]]
                 ELSE {})]

\* It has a solution: r is in the line of the positions in the least set that has those of r
\* and the children of its own.
LEMMA LineExists ==
    ASSUME NEW pa, Forest(pa)
    PROVE  \E line : IsLine(pa, line)
<1> DEFINE N == 1..Len(pa.nodes)
           Blocks == DOMAIN pa.indices
           Has(k) == HasBlock(pa, pa.nodes[k].parentRoot)
           Above(k) == pa.indices[pa.nodes[k].parentRoot]
           Closed(r, T) == /\ \A k \in N : pa.nodes[k].blockRoot = r => k \in T
                           /\ \A k \in N : Has(k) /\ Above(k) \in T => k \in T
           Least(r) == {k \in N : \A T \in SUBSET N : Closed(r, T) => k \in T}
           line == [k \in N |-> {r \in Blocks : k \in Least(r)}]
           step == [k \in N |-> {pa.nodes[k].blockRoot} \union (IF Has(k) THEN line[Above(k)] ELSE {})]
<1>1. /\ \A k \in N : Has(k) => Above(k) \in N
      /\ \A k \in N : pa.nodes[k].blockRoot \in Blocks
  BY ForestFacts DEF HasBlock, Forest
<1>2. \A r : Closed(r, Least(r)) BY Zenon
<1>3. ASSUME NEW r, NEW k \in Least(r), pa.nodes[k].blockRoot # r, ~(Has(k) /\ Above(k) \in Least(r))
      PROVE  FALSE
  <2> DEFINE T == Least(r) \ {k}
  <2>1. T \in SUBSET N OBVIOUS
  <2>2. \A j \in N : pa.nodes[j].blockRoot = r => j \in T BY <1>2, <1>3
  <2>3. \A j \in N : Has(j) /\ Above(j) \in T => j \in T
    <3> SUFFICES ASSUME NEW j \in N, Has(j), Above(j) \in T PROVE j \in T
      OBVIOUS
    <3>1. j \in Least(r) BY <1>2
    <3>2. j # k BY <1>3
    <3> QED BY <3>1, <3>2
  <2>4. k \in T BY <2>1, <2>2, <2>3
  <2> QED BY <2>4
<1>4. ASSUME NEW k \in N PROVE line[k] = step[k]
  <2>1. \A r : k \in Least(r) <=> (pa.nodes[k].blockRoot = r \/ (Has(k) /\ Above(k) \in Least(r)))
    <3> SUFFICES ASSUME NEW r
                 PROVE  k \in Least(r) <=> (pa.nodes[k].blockRoot = r \/ (Has(k) /\ Above(k) \in Least(r)))
      OBVIOUS
    <3>1. Closed(r, Least(r)) BY <1>2
    <3>2. k \in Least(r) => (pa.nodes[k].blockRoot = r \/ (Has(k) /\ Above(k) \in Least(r))) BY <1>3
    <3>3. (pa.nodes[k].blockRoot = r \/ (Has(k) /\ Above(k) \in Least(r))) => k \in Least(r)
      <4> HIDE DEF Least
      <4> QED BY <3>1
    <3> QED BY <3>2, <3>3
  <2>2. line[k] = {r \in Blocks : k \in Least(r)} OBVIOUS
  <2>3. Has(k) => line[Above(k)] = {r \in Blocks : Above(k) \in Least(r)} BY <1>1
  <2>4. step[k] = {pa.nodes[k].blockRoot} \union (IF Has(k) THEN line[Above(k)] ELSE {}) OBVIOUS
  <2>5. pa.nodes[k].blockRoot \in Blocks BY <1>1
  <2> HIDE DEF Least, line, step, Has, Above, Blocks
  <2> QED BY <2>1, <2>2, <2>3, <2>4, <2>5
<1>5. line = [k \in N |-> line[k]] /\ step = [k \in N |-> step[k]] OBVIOUS
<1>6. line = step
  <2> HIDE DEF line, step, N
  <2> QED BY <1>4, <1>5
<1> QED BY <1>6 DEF IsLine

\* A known block descends from itself and from what its parent descends from, and from
\* nothing else.
LEMMA DescendsByParents ==
    ASSUME NEW pa, Forest(pa), NEW c \in DOMAIN pa.indices, NEW r
    PROVE  DescendsIn(pa, c, r) <=> \/ c = r
                                    \/ /\ ParentRootIn(pa, c) \in DOMAIN pa.indices
                                       /\ DescendsIn(pa, ParentRootIn(pa, c), r)
<1> DEFINE line == CHOOSE l : IsLine(pa, l)
<1>1. IsLine(pa, line) BY LineExists
<1>2. \A x : DescendsIn(pa, x, r) <=> x \in DOMAIN pa.indices /\ r \in line[pa.indices[x]]
  BY DEF DescendsIn, IsLine, HasBlock
<1> HIDE DEF line
<1> DEFINE k == pa.indices[c]
<1>3. k \in 1..Len(pa.nodes) /\ pa.nodes[k].blockRoot = c BY ForestFacts
<1>4. line[k] = {pa.nodes[k].blockRoot} \union
                  (IF HasBlock(pa, pa.nodes[k].parentRoot) THEN line[pa.indices[pa.nodes[k].parentRoot]]
                   ELSE {})
  BY <1>1, <1>3 DEF IsLine
<1> QED BY <1>2, <1>3, <1>4 DEF ParentRootIn, GetNode, HasBlock

\* What a block descends from is known, and not after it in the array.
LEMMA DescendsUpwards ==
    ASSUME NEW pa, Forest(pa), NEW b, NEW a, DescendsIn(pa, b, a)
    PROVE  a \in DOMAIN pa.indices /\ b \in DOMAIN pa.indices /\ pa.indices[a] <= pa.indices[b]
<1> DEFINE Good(c) == a \in DOMAIN pa.indices /\ pa.indices[a] <= pa.indices[c]
           Bad == {c \in DOMAIN pa.indices : DescendsIn(pa, c, a) /\ ~Good(c)}
           At == {pa.indices[c] : c \in Bad}
<1>1. \A c \in DOMAIN pa.indices : pa.indices[c] \in Nat BY ForestFacts
<1>2. ASSUME Bad # {} PROVE FALSE
  <2>1. At \in SUBSET Nat /\ At # {} BY <1>1, <1>2
  <2>2. PICK i \in At : \A j \in At : i <= j
    <3> HIDE DEF At
    <3> QED BY <2>1, NatHasLeast
  <2>3. PICK c \in Bad : pa.indices[c] = i OBVIOUS
  <2>4. c \in DOMAIN pa.indices /\ DescendsIn(pa, c, a) /\ ~Good(c) OBVIOUS
  <2>5. c # a BY <1>1, <2>4
  <2> DEFINE p == ParentRootIn(pa, c)
  <2>6. p \in DOMAIN pa.indices /\ DescendsIn(pa, p, a) BY <2>4, <2>5, DescendsByParents
  <2>7. pa.indices[p] < pa.indices[c] BY <2>4, <2>6, ForestFacts
  <2>8. pa.indices[p] \in Nat /\ pa.indices[c] \in Nat BY <1>1, <2>4, <2>6
  <2>9. p \notin Bad
    <3> SUFFICES ASSUME p \in Bad PROVE FALSE OBVIOUS
    <3>1. pa.indices[p] \in At OBVIOUS
    <3>2. i <= pa.indices[p] BY <2>2, <3>1
    <3> QED BY <2>3, <2>7, <2>8, <3>2
  <2>10. Good(p) BY <2>6, <2>9
  <2>11. a \in DOMAIN pa.indices /\ pa.indices[a] <= pa.indices[p] /\ pa.indices[a] \in Nat
    BY <1>1, <2>10
  <2>12. Good(c) BY <2>7, <2>8, <2>11
  <2> QED BY <2>4, <2>12
<1>3. b \in DOMAIN pa.indices BY DEF DescendsIn, HasBlock
<1>4. Good(b) BY <1>2, <1>3
<1> QED BY <1>3, <1>4

-----------------------------------------------------------------------------
(* The walks by positions. *)

\* The recursion of AncestorIndices, on the first m positions.
IsAncestry(pa, m, up) ==
    up = [k \in 1..m |-> IF pa.nodes[k].parent = Undefined THEN <<k>> ELSE <<k>> \o up[pa.nodes[k].parent]]

LEMMA AncestryExists ==
    ASSUME NEW pa, Forest(pa)
    PROVE  \E up : IsAncestry(pa, Len(pa.nodes), up)
<1> DEFINE n == Len(pa.nodes)
           P(k) == pa.nodes[k].parent
           Bad == {m \in 0..n : ~\E up : IsAncestry(pa, m, up)}
<1>1. n \in Nat BY ForestFacts
<1>2. \A k \in 1..n : P(k) \in 0..(k - 1)
  <2> SUFFICES ASSUME NEW k \in 1..n PROVE P(k) \in 0..(k - 1) OBVIOUS
  <2>1. P(k) = IndexOf(pa, pa.nodes[k].parentRoot) /\ P(k) < k BY DEF Forest
  <2>2. P(k) \in Nat BY <2>1, ForestFacts DEF IndexOf, HasBlock, Undefined
  <2> QED BY <2>1, <2>2
<1>3. ASSUME Bad # {} PROVE FALSE
  <2>1. Bad \in SUBSET Nat BY <1>1
  <2>2. PICK m \in Bad : \A j \in Bad : m <= j
    <3> HIDE DEF Bad
    <3> QED BY <1>3, <2>1, NatHasLeast
  <2>3. m \in 0..n /\ ~\E up : IsAncestry(pa, m, up) BY <2>2
  <2>4. m # 0
    <3> DEFINE e == [k \in 1..0 |-> <<>>]
               h == [k \in 1..0 |-> IF P(k) = Undefined THEN <<k>> ELSE <<k>> \o e[P(k)]]
    <3>1. e = h OBVIOUS
    <3>2. IsAncestry(pa, 0, e) BY <3>1 DEF IsAncestry
    <3> QED BY <2>3, <3>2
  <2>5. m - 1 \in 0..n /\ m - 1 \notin Bad
    <3> HIDE DEF Bad
    <3> QED BY <1>1, <2>2, <2>3, <2>4
  <2>6. PICK u : IsAncestry(pa, m - 1, u) BY <2>5
  <2> DEFINE last == IF P(m) = Undefined THEN <<m>> ELSE <<m>> \o u[P(m)]
             w == [k \in 1..m |-> IF k = m THEN last ELSE u[k]]
             h == [k \in 1..m |-> IF P(k) = Undefined THEN <<k>> ELSE <<k>> \o w[P(k)]]
  <2>7. \A k \in 1..(m - 1) : u[k] = IF P(k) = Undefined THEN <<k>> ELSE <<k>> \o u[P(k)]
    BY <2>6 DEF IsAncestry
  <2>8. \A k \in 1..m : P(k) # Undefined => P(k) \in 1..m /\ P(k) # m /\ P(k) \in 1..(k - 1)
    <3> SUFFICES ASSUME NEW k \in 1..m, P(k) # Undefined
                 PROVE  P(k) \in 1..m /\ P(k) # m /\ P(k) \in 1..(k - 1)
      OBVIOUS
    <3>1. P(k) \in 0..(k - 1) BY <1>1, <1>2, <2>3
    <3> HIDE DEF P
    <3> QED BY <1>1, <2>3, <3>1 DEF Undefined
  <2>9. \A k \in 1..m : P(k) # Undefined => w[P(k)] = u[P(k)] BY <2>8
  <2>10. \A k \in 1..m : w[k] = h[k]
    <3> SUFFICES ASSUME NEW k \in 1..m PROVE w[k] = h[k] OBVIOUS
    <3>1. h[k] = IF P(k) = Undefined THEN <<k>> ELSE <<k>> \o u[P(k)] BY <2>9, SMTT(30)
    <3>2. CASE k = m BY <3>1, <3>2
    <3>3. CASE k # m
      <4>1. k \in 1..(m - 1) BY <1>1, <2>3, <3>3
      <4>2. w[k] = u[k] BY <3>3
      <4> HIDE DEF w, h
      <4> QED BY <2>7, <3>1, <4>1, <4>2
    <3> QED BY <3>2, <3>3
  <2>11. w = [k \in 1..m |-> w[k]] /\ h = [k \in 1..m |-> h[k]] OBVIOUS
  <2>12. w = h
    <3> HIDE DEF w, h
    <3> QED BY <2>10, <2>11
  <2>13. IsAncestry(pa, m, w) BY <2>12 DEF IsAncestry
  <2> QED BY <2>3, <2>13
<1>4. n \in 0..n BY <1>1
<1> QED BY <1>3, <1>4

\* The walk up from a position passes what its block descends from, and ends.
WalkIsUp(pa, i, line) ==
    /\ line \in Seq(1..Len(pa.nodes)) /\ Len(line) # 0
    /\ \A k \in 1..Len(line) :
          DescendsIn(pa, pa.nodes[i].blockRoot, pa.nodes[line[k]].blockRoot)

LEMMA AncestorsAreUp ==
    ASSUME NEW pa, Forest(pa), NEW i0 \in 1..Len(pa.nodes)
    PROVE  WalkIsUp(pa, i0, AncestorIndices(pa, i0))
<1> DEFINE n == Len(pa.nodes)
           up == CHOOSE u : IsAncestry(pa, n, u)
           Bad == {i \in 1..n : ~WalkIsUp(pa, i, up[i])}
<1>1. IsAncestry(pa, n, up) BY AncestryExists
<1>2. AncestorIndices(pa, i0) = up[i0] BY DEF AncestorIndices, IsAncestry
<1> HIDE DEF up
<1>3. n \in Nat BY ForestFacts
<1>4. ASSUME Bad # {} PROVE FALSE
  <2>1. Bad \in SUBSET Nat BY <1>3
  <2>2. PICK i \in Bad : \A j \in Bad : i <= j
    <3> HIDE DEF Bad
    <3> QED BY <1>4, <2>1, NatHasLeast
  <2>3. i \in 1..n /\ ~WalkIsUp(pa, i, up[i]) OBVIOUS
  <2> DEFINE p == pa.nodes[i].parent
             c == pa.nodes[i].blockRoot
  <2>4. up[i] = IF p = Undefined THEN <<i>> ELSE <<i>> \o up[p]
    BY <1>1, <2>3 DEF IsAncestry
  <2>5. /\ c \in DOMAIN pa.indices /\ pa.indices[c] = i
        /\ p = IndexOf(pa, pa.nodes[i].parentRoot) /\ p < i
    BY <2>3 DEF Forest, HasBlock
  <2>6. DescendsIn(pa, c, c) BY <2>5, DescendsByParents
  <2>7. CASE p = Undefined
    <3>1. up[i] = <<i>> BY <2>4, <2>7
    <3>2. <<i>> \in Seq(1..n) /\ Len(<<i>>) = 1 /\ <<i>>[1] = i BY <2>3
    <3>3. \A k \in 1..Len(<<i>>) : DescendsIn(pa, c, pa.nodes[<<i>>[k]].blockRoot) BY <2>6, <3>2
    <3>4. WalkIsUp(pa, i, <<i>>) BY <3>2, <3>3 DEF WalkIsUp
    <3> QED BY <2>3, <3>1, <3>4
  <2>8. CASE p # Undefined
    <3> DEFINE r == pa.nodes[i].parentRoot
               t == up[p]
               l == <<i>> \o t
    <3>1. r \in DOMAIN pa.indices /\ p = pa.indices[r] BY <2>5, <2>8 DEF IndexOf, HasBlock
    <3>2. p \in 1..n /\ pa.nodes[p].blockRoot = r BY <3>1, ForestFacts
    <3>3. WalkIsUp(pa, p, t)
      <4>1. p \notin Bad BY <2>2, <2>3, <2>5, <3>2, <1>3
      <4> QED BY <3>2, <4>1
    <3>4. ParentRootIn(pa, c) = r BY <2>5 DEF ParentRootIn, GetNode
    <3>5. \A x : DescendsIn(pa, r, x) => DescendsIn(pa, c, x) BY <2>5, <3>1, <3>4, DescendsByParents
    <3>6. t \in Seq(1..n) /\ \A k \in 1..Len(t) : DescendsIn(pa, c, pa.nodes[t[k]].blockRoot)
      BY <3>2, <3>3, <3>5 DEF WalkIsUp
    <3>7. /\ l \in Seq(1..n) /\ Len(l) = Len(t) + 1 /\ Len(t) \in Nat /\ l[1] = i
          /\ \A k \in 1..Len(l) : k # 1 => l[k] = t[k - 1] /\ k - 1 \in 1..Len(t)
      <4> HIDE DEF t
      <4> QED BY <2>3, <3>6
    <3>8. \A k \in 1..Len(l) : DescendsIn(pa, c, pa.nodes[l[k]].blockRoot)
      <4> SUFFICES ASSUME NEW k \in 1..Len(l) PROVE DescendsIn(pa, c, pa.nodes[l[k]].blockRoot) OBVIOUS
      <4> HIDE DEF l, t
      <4>1. CASE k = 1 BY <2>6, <3>7, <4>1
      <4>2. CASE k # 1 BY <3>6, <3>7, <4>2
      <4> QED BY <4>1, <4>2
    <3>9. Len(l) # 0
      <4> HIDE DEF l, t
      <4> QED BY <3>7
    <3>10. WalkIsUp(pa, i, l) BY <3>7, <3>8, <3>9 DEF WalkIsUp
    <3> QED BY <2>3, <2>4, <2>8, <3>10
  <2> QED BY <2>7, <2>8
<1> QED BY <1>2, <1>4

\* getAncestor answers with a block of the root's line that is not after the slot.
LEMMA AncestorIsUp ==
    ASSUME NEW pa, Forest(pa), NEW root, NEW slot, NEW a, a # Undefined,
           GetAncestor(pa, root, slot) = a
    PROVE  DescendsIn(pa, root, a) /\ GetNode(pa, a).slot <= slot
<1>1. root \in DOMAIN pa.indices BY DEF GetAncestor, HasBlock
<1>2. CASE GetNode(pa, root).slot <= slot
  <2>1. a = root BY <1>1, <1>2 DEF GetAncestor, HasBlock
  <2>2. DescendsIn(pa, root, root) BY <1>1, DescendsByParents
  <2> QED BY <1>2, <2>1, <2>2
<1>3. CASE ~(GetNode(pa, root).slot <= slot)
  <2> DEFINE i == pa.indices[root]
             line == AncestorIndices(pa, i)
             older == {k \in 1..Len(line) : pa.nodes[line[k]].slot <= slot}
  <2>1. a = IF older = {} THEN Undefined ELSE pa.nodes[line[Min(older)]].blockRoot
    BY <1>1, <1>3 DEF GetAncestor, HasBlock
  <2>2. i \in 1..Len(pa.nodes) /\ pa.nodes[i].blockRoot = root BY <1>1, ForestFacts
  <2>3. WalkIsUp(pa, i, line) BY <2>2, AncestorsAreUp
  <2>4. older # {} BY <2>1
  <2>5. older \in SUBSET Nat OBVIOUS
  <2>6. Min(older) \in older
    <3> HIDE DEF older
    <3>1. PICK x \in older : \A y \in older : x <= y BY <2>4, <2>5, NatHasLeast
    <3> QED BY <3>1 DEF Min
  <2> DEFINE k == Min(older)
  <2>7. k \in 1..Len(line) /\ pa.nodes[line[k]].slot <= slot BY <2>6
  <2>8. line[k] \in 1..Len(pa.nodes)
    <3> HIDE DEF line, k
    <3> QED BY <2>3, <2>7 DEF WalkIsUp
  <2>9. a = pa.nodes[line[k]].blockRoot BY <2>1, <2>4
  <2>10. DescendsIn(pa, root, a) BY <2>2, <2>3, <2>7, <2>9 DEF WalkIsUp
  <2>11. pa.indices[a] = line[k] BY <2>8, <2>9 DEF Forest
  <2> QED BY <2>7, <2>10, <2>11 DEF GetNode
<1> QED BY <1>2, <1>3

-----------------------------------------------------------------------------
(* Two arrays with the same parents. *)

\* Blocks K that have the same parents in both arrays descend from one of them in both, when no
\* walk to it leaves them.
LEMMA DescendsAgree ==
    ASSUME NEW pa, Forest(pa), NEW q, Forest(q),
           NEW K, K \subseteq DOMAIN pa.indices, K \subseteq DOMAIN q.indices, NEW a \in K,
           \A c \in K : ParentRootIn(q, c) = ParentRootIn(pa, c),
           \A c \in K : c # a /\ DescendsIn(pa, c, a) => ParentRootIn(pa, c) \in K,
           \A c \in K : c # a /\ DescendsIn(q, c, a) => ParentRootIn(q, c) \in K
    PROVE  \A b \in K : DescendsIn(pa, b, a) <=> DescendsIn(q, b, a)
<1> DEFINE Bad == {c \in K : ~(DescendsIn(pa, c, a) <=> DescendsIn(q, c, a))}
           At == {pa.indices[c] : c \in Bad}
<1>1. \A c \in K : pa.indices[c] \in Nat BY ForestFacts
<1>2. ASSUME Bad # {} PROVE FALSE
  <2>1. At \in SUBSET Nat /\ At # {} BY <1>1, <1>2
  <2>2. PICK i \in At : \A j \in At : i <= j
    <3> HIDE DEF At
    <3> QED BY <2>1, NatHasLeast
  <2>3. PICK c \in Bad : pa.indices[c] = i OBVIOUS
  <2>4. c \in K /\ ~(DescendsIn(pa, c, a) <=> DescendsIn(q, c, a)) OBVIOUS
  <2> DEFINE p == ParentRootIn(pa, c)
  <2>5. DescendsIn(pa, c, a) <=> (c = a \/ (p \in DOMAIN pa.indices /\ DescendsIn(pa, p, a)))
    BY <2>4, DescendsByParents
  <2>6. DescendsIn(q, c, a) <=> (c = a \/ (p \in DOMAIN q.indices /\ DescendsIn(q, p, a)))
    BY <2>4, DescendsByParents
  <2>7. c # a BY <2>4, <2>5, <2>6
  <2>8. p \in K BY <2>4, <2>7
  <2>9. ~(DescendsIn(pa, p, a) <=> DescendsIn(q, p, a)) BY <2>4, <2>5, <2>6, <2>7, <2>8
  <2>10. p \in Bad BY <2>8, <2>9
  <2>11. i <= pa.indices[p] BY <2>2, <2>10
  <2>12. pa.indices[p] < pa.indices[c] BY <2>4, <2>8, ForestFacts
  <2>13. pa.indices[p] \in Nat /\ pa.indices[c] \in Nat BY <1>1, <2>4, <2>8
  <2> QED BY <2>3, <2>11, <2>12, <2>13
<1> QED BY <1>2

\* The arrays hold the same blocks: only weights and best links may differ.
SameBlocks(q, pa) ==
    /\ DOMAIN q = DOMAIN pa /\ q.indices = pa.indices
    /\ IsList(q.nodes) /\ Len(q.nodes) = Len(pa.nodes)
    /\ \A i \in 1..Len(pa.nodes) :
          /\ DOMAIN q.nodes[i] = DOMAIN pa.nodes[i]
          /\ q.nodes[i].blockRoot = pa.nodes[i].blockRoot /\ q.nodes[i].slot = pa.nodes[i].slot
          /\ q.nodes[i].parentRoot = pa.nodes[i].parentRoot /\ q.nodes[i].parent = pa.nodes[i].parent

\* Nothing that matters of a block differs then.
SameView(q, pa) ==
    /\ Forest(q) /\ DOMAIN q.indices = DOMAIN pa.indices
    /\ \A r \in DOMAIN pa.indices : /\ GetNode(q, r).slot = GetNode(pa, r).slot
                                    /\ ParentRootIn(q, r) = ParentRootIn(pa, r)
    /\ \A b \in DOMAIN pa.indices, a \in DOMAIN pa.indices : DescendsIn(q, b, a) <=> DescendsIn(pa, b, a)

LEMMA SameBlocksSameView ==
    ASSUME NEW pa, Forest(pa), NEW q, SameBlocks(q, pa)
    PROVE  SameView(q, pa)
<1>1. q.indices = pa.indices /\ Len(q.nodes) = Len(pa.nodes) BY DEF SameBlocks
<1>2. \A r \in DOMAIN pa.indices : pa.indices[r] \in 1..Len(pa.nodes) BY ForestFacts
<1>3. \A r \in DOMAIN pa.indices : /\ GetNode(q, r).slot = GetNode(pa, r).slot
                                   /\ ParentRootIn(q, r) = ParentRootIn(pa, r)
                                   /\ GetNode(q, r).blockRoot = GetNode(pa, r).blockRoot
  BY <1>1, <1>2 DEF SameBlocks, GetNode, ParentRootIn
<1>4. Forest(q)
  <2>1. DOMAIN q = ArrayFields /\ IsList(q.nodes) BY DEF SameBlocks, Forest
  <2>2. \A r \in DOMAIN q.indices : GetNode(q, r).blockRoot = r BY <1>1, <1>3 DEF Forest
  <2>3. ASSUME NEW i \in 1..Len(q.nodes)
        PROVE  /\ DOMAIN q.nodes[i] = NodeFields
               /\ HasBlock(q, q.nodes[i].blockRoot) /\ q.indices[q.nodes[i].blockRoot] = i
               /\ q.nodes[i].parent = IndexOf(q, q.nodes[i].parentRoot)
               /\ q.nodes[i].parent < i
    <3>1. /\ DOMAIN pa.nodes[i] = NodeFields
          /\ HasBlock(pa, pa.nodes[i].blockRoot) /\ pa.indices[pa.nodes[i].blockRoot] = i
          /\ pa.nodes[i].parent = IndexOf(pa, pa.nodes[i].parentRoot)
          /\ pa.nodes[i].parent < i
      BY <1>1 DEF Forest
    <3>2. /\ DOMAIN q.nodes[i] = DOMAIN pa.nodes[i]
          /\ q.nodes[i].blockRoot = pa.nodes[i].blockRoot
          /\ q.nodes[i].parentRoot = pa.nodes[i].parentRoot /\ q.nodes[i].parent = pa.nodes[i].parent
      BY <1>1 DEF SameBlocks
    <3> QED BY <1>1, <3>1, <3>2 DEF HasBlock, IndexOf
  <2>4. q.indices \in [DOMAIN q.indices -> 1..Len(q.nodes)] BY <1>1 DEF Forest
  <2> QED BY <2>1, <2>2, <2>3, <2>4 DEF Forest
<1>5. ASSUME NEW a \in DOMAIN pa.indices
      PROVE  \A b \in DOMAIN pa.indices : DescendsIn(pa, b, a) <=> DescendsIn(q, b, a)
  <2> DEFINE K == DOMAIN pa.indices
  <2>1. \A c \in K : c # a /\ DescendsIn(pa, c, a) => ParentRootIn(pa, c) \in K BY DescendsByParents
  <2>2. \A c \in K : c # a /\ DescendsIn(q, c, a) => ParentRootIn(q, c) \in K
    BY <1>1, <1>4, DescendsByParents
  <2>3. K \subseteq DOMAIN pa.indices /\ K \subseteq DOMAIN q.indices /\ a \in K BY <1>1
  <2>4. \A c \in K : ParentRootIn(q, c) = ParentRootIn(pa, c) BY <1>3
  <2> HIDE DEF K
  <2>5. \A b \in K : DescendsIn(pa, b, a) <=> DescendsIn(q, b, a)
    BY <1>4, <2>1, <2>2, <2>3, <2>4, DescendsAgree
  <2> QED BY <2>5 DEF K
<1> QED BY <1>1, <1>3, <1>4, <1>5 DEF SameView

LEMMA SameBlocksRefl ==
    ASSUME NEW pa, Forest(pa) PROVE SameBlocks(pa, pa)
<1> QED BY DEF SameBlocks, Forest

LEMMA SameBlocksTrans ==
    ASSUME NEW p, NEW q, NEW r, SameBlocks(r, q), SameBlocks(q, p) PROVE SameBlocks(r, p)
<1> QED BY DEF SameBlocks

-----------------------------------------------------------------------------
(* What the operations of the proto array leave alone. *)

LEMMA NodesAreList ==
    ASSUME NEW s, IsList(s), NEW t, t = [i \in DOMAIN s |-> t[i]]
    PROVE  IsList(t) /\ Len(t) = Len(s)
<1>1. PICK S : s \in Seq(S) BY DEF IsList
<1>2. Len(s) \in Nat /\ DOMAIN s = 1..Len(s) BY <1>1
<1> DEFINE T == {t[i] : i \in 1..Len(s)}
           n == Len(s)
<1>3. t \in [1..n -> T] BY <1>2
<1> HIDE DEF T, n
<1>4. n \in Nat BY <1>2 DEF n
<1>5. t \in Seq(T) /\ Len(t) = n BY <1>3, <1>4
<1> QED BY <1>5 DEF IsList, n

LEMMA ChangeKeepsBlocks ==
    ASSUME NEW pa, Forest(pa), NEW p, NEW x, NEW y
    PROVE  SameBlocks([pa EXCEPT !.nodes[p].bestChild = x, !.nodes[p].bestDescendant = y], pa)
<1> DEFINE q == [pa EXCEPT !.nodes[p].bestChild = x, !.nodes[p].bestDescendant = y]
           node(i) == [[pa.nodes[i] EXCEPT !.bestChild = x] EXCEPT !.bestDescendant = y]
           t == [i \in DOMAIN pa.nodes |-> IF i = p THEN node(i) ELSE pa.nodes[i]]
<1>1. DOMAIN pa = ArrayFields /\ "nodes" \in DOMAIN pa /\ "indices" \in DOMAIN pa
  BY DEF Forest, ArrayFields
<1>2. DOMAIN q = DOMAIN pa /\ q.indices = pa.indices BY <1>1
<1>3. q.nodes = t
  <2> DEFINE q1 == [pa EXCEPT !.nodes[p].bestChild = x]
             t1 == [i \in DOMAIN pa.nodes |-> IF i = p THEN [pa.nodes[i] EXCEPT !.bestChild = x] ELSE pa.nodes[i]]
  <2>1. q1.nodes = [pa.nodes EXCEPT ![p] = [pa.nodes[p] EXCEPT !.bestChild = x]] /\ DOMAIN q1 = DOMAIN pa
    BY <1>1
  <2>2. q1.nodes = t1 BY <2>1
  <2>3. q = [q1 EXCEPT !.nodes[p].bestDescendant = y] OBVIOUS
  <2>4. q.nodes = [q1.nodes EXCEPT ![p] = [q1.nodes[p] EXCEPT !.bestDescendant = y]]
    BY <1>1, <2>1, <2>3
  <2>5. q.nodes = [t1 EXCEPT ![p] = [t1[p] EXCEPT !.bestDescendant = y]] BY <2>2, <2>4
  <2> HIDE DEF q, q1
  <2> QED BY <2>5
<1>4. IsList(pa.nodes) /\ DOMAIN pa.nodes = 1..Len(pa.nodes) BY ForestFacts DEF Forest
<1>5. IsList(q.nodes) /\ Len(q.nodes) = Len(pa.nodes)
  <2>1. t = [i \in DOMAIN pa.nodes |-> t[i]] OBVIOUS
  <2> HIDE DEF t, q
  <2> QED BY <1>3, <1>4, <2>1, NodesAreList
<1>6. ASSUME NEW i \in 1..Len(pa.nodes)
      PROVE  /\ DOMAIN q.nodes[i] = DOMAIN pa.nodes[i]
             /\ q.nodes[i].blockRoot = pa.nodes[i].blockRoot /\ q.nodes[i].slot = pa.nodes[i].slot
             /\ q.nodes[i].parentRoot = pa.nodes[i].parentRoot /\ q.nodes[i].parent = pa.nodes[i].parent
  <2>1. DOMAIN pa.nodes[i] = NodeFields BY DEF Forest
  <2>2. q.nodes[i] = IF i = p THEN node(i) ELSE pa.nodes[i] BY <1>3, <1>4
  <2>3. /\ DOMAIN node(i) = NodeFields
        /\ node(i).blockRoot = pa.nodes[i].blockRoot /\ node(i).slot = pa.nodes[i].slot
        /\ node(i).parentRoot = pa.nodes[i].parentRoot /\ node(i).parent = pa.nodes[i].parent
    BY <2>1 DEF NodeFields
  <2> HIDE DEF q, node
  <2> QED BY <2>1, <2>2, <2>3
<1> HIDE DEF q
<1>7. SameBlocks(q, pa) BY <1>2, <1>5, <1>6 DEF SameBlocks
<1> QED BY <1>7 DEF q

LEMMA WeighingKeepsBlocks ==
    ASSUME NEW pa, Forest(pa), NEW p, NEW d
    PROVE  SameBlocks([pa EXCEPT !.nodes[p].weight = @ + d], pa)
<1> DEFINE q == [pa EXCEPT !.nodes[p].weight = @ + d]
           node(i) == [pa.nodes[i] EXCEPT !.weight = @ + d]
           t == [i \in DOMAIN pa.nodes |-> IF i = p THEN node(i) ELSE pa.nodes[i]]
<1>1. DOMAIN pa = ArrayFields /\ "nodes" \in DOMAIN pa /\ "indices" \in DOMAIN pa
  BY DEF Forest, ArrayFields
<1>2. DOMAIN q = DOMAIN pa /\ q.indices = pa.indices BY <1>1
<1>3. q.nodes = t
  <2>1. q.nodes = [pa.nodes EXCEPT ![p] = [pa.nodes[p] EXCEPT !.weight = @ + d]] BY <1>1
  <2> HIDE DEF q
  <2> QED BY <2>1
<1>4. IsList(pa.nodes) /\ DOMAIN pa.nodes = 1..Len(pa.nodes) BY ForestFacts DEF Forest
<1>5. IsList(q.nodes) /\ Len(q.nodes) = Len(pa.nodes)
  <2>1. t = [i \in DOMAIN pa.nodes |-> t[i]] OBVIOUS
  <2> HIDE DEF t, q
  <2> QED BY <1>3, <1>4, <2>1, NodesAreList
<1>6. ASSUME NEW i \in 1..Len(pa.nodes)
      PROVE  /\ DOMAIN q.nodes[i] = DOMAIN pa.nodes[i]
             /\ q.nodes[i].blockRoot = pa.nodes[i].blockRoot /\ q.nodes[i].slot = pa.nodes[i].slot
             /\ q.nodes[i].parentRoot = pa.nodes[i].parentRoot /\ q.nodes[i].parent = pa.nodes[i].parent
  <2>1. DOMAIN pa.nodes[i] = NodeFields BY DEF Forest
  <2>2. q.nodes[i] = IF i = p THEN node(i) ELSE pa.nodes[i] BY <1>3, <1>4
  <2>3. /\ DOMAIN node(i) = NodeFields
        /\ node(i).blockRoot = pa.nodes[i].blockRoot /\ node(i).slot = pa.nodes[i].slot
        /\ node(i).parentRoot = pa.nodes[i].parentRoot /\ node(i).parent = pa.nodes[i].parent
    BY <2>1 DEF NodeFields
  <2> HIDE DEF q, node
  <2> QED BY <2>1, <2>2, <2>3
<1> HIDE DEF q
<1>7. SameBlocks(q, pa) BY <1>2, <1>5, <1>6 DEF SameBlocks
<1> QED BY <1>7 DEF q

LEMMA LinksKeepBlocks ==
    ASSUME NEW pa, Forest(pa), NEW p, NEW c
    PROVE  SameBlocks(MaybeUpdateBestChildAndDescendant(pa, p, c), pa)
<1> DEFINE Change(x, y) == [pa EXCEPT !.nodes[p].bestChild = x, !.nodes[p].bestDescendant = y]
           R == MaybeUpdateBestChildAndDescendant(pa, p, c)
<1>1. R = pa \/ \E x, y : R = Change(x, y)
  <2> DEFINE toChild == Change(c, OrElse(pa.nodes[c].bestDescendant, c))
             toNull == Change(Undefined, Undefined)
  <2>1. R = pa \/ R = toChild \/ R = toNull
    BY DEF MaybeUpdateBestChildAndDescendant
  <2> QED BY <2>1
<1>2. \A x, y : SameBlocks(Change(x, y), pa) BY ChangeKeepsBlocks
<1>3. SameBlocks(pa, pa) BY SameBlocksRefl
<1> HIDE DEF R, Change
<1>4. SameBlocks(R, pa) BY <1>1, <1>2, <1>3
<1> QED BY <1>4 DEF R

\* The recursion of RevisitLinks, on its first m turns.
IsVisit(pa, line, m, v) ==
    v = [k \in 0..m |-> IF k = 0 THEN pa ELSE MaybeUpdateBestChildAndDescendant(v[k - 1], line[k + 1], line[k])]

LEMMA VisitExists ==
    ASSUME NEW pa, NEW line, NEW n \in Nat
    PROVE  \E v : IsVisit(pa, line, n, v)
<1> DEFINE Step(x, k) == MaybeUpdateBestChildAndDescendant(x, line[k + 1], line[k])
           Bad == {m \in 0..n : ~\E v : IsVisit(pa, line, m, v)}
<1>1. ASSUME Bad # {} PROVE FALSE
  <2>1. Bad \in SUBSET Nat OBVIOUS
  <2>2. PICK m \in Bad : \A j \in Bad : m <= j
    <3> HIDE DEF Bad
    <3> QED BY <1>1, <2>1, NatHasLeast
  <2>3. m \in 0..n /\ ~\E v : IsVisit(pa, line, m, v) BY <2>2
  <2>4. m # 0
    <3> DEFINE e == [k \in 0..0 |-> pa]
               h == [k \in 0..0 |-> IF k = 0 THEN pa ELSE Step(e[k - 1], k)]
    <3>1. \A k \in 0..0 : k = 0 OBVIOUS
    <3> HIDE DEF Step
    <3>2. e = h BY <3>1
    <3>3. IsVisit(pa, line, 0, e) BY <3>2 DEF IsVisit, Step
    <3> QED BY <2>3, <3>3
  <2>5. m - 1 \in 0..n /\ m - 1 \notin Bad /\ m \in Nat
    <3> HIDE DEF Bad
    <3> QED BY <2>2, <2>3, <2>4
  <2>6. PICK u : IsVisit(pa, line, m - 1, u) BY <2>5
  <2> DEFINE w == [k \in 0..m |-> IF k = m THEN Step(u[m - 1], m) ELSE u[k]]
             h == [k \in 0..m |-> IF k = 0 THEN pa ELSE Step(w[k - 1], k)]
  <2>7. \A k \in 0..(m - 1) : u[k] = IF k = 0 THEN pa ELSE Step(u[k - 1], k)
    BY <2>6 DEF IsVisit
  <2> HIDE DEF Step
  <2>8. \A k \in 0..m : w[k] = h[k]
    <3> SUFFICES ASSUME NEW k \in 0..m PROVE w[k] = h[k] OBVIOUS
    <3>1. CASE k = m
      <4>1. w[k - 1] = u[k - 1] BY <2>4, <2>5, <3>1
      <4> QED BY <2>4, <3>1, <4>1
    <3>2. CASE k # m
      <4>1. k \in 0..(m - 1) BY <2>5, <3>2
      <4>2. w[k] = u[k] BY <3>2
      <4>3. k # 0 => w[k - 1] = u[k - 1] BY <2>5, <4>1
      <4>4. h[k] = IF k = 0 THEN pa ELSE Step(w[k - 1], k) OBVIOUS
      <4> HIDE DEF w, h
      <4> QED BY <2>7, <4>1, <4>2, <4>3, <4>4
    <3> QED BY <3>1, <3>2
  <2>9. w = [k \in 0..m |-> w[k]] /\ h = [k \in 0..m |-> h[k]] OBVIOUS
  <2>10. w = h
    <3> HIDE DEF w, h
    <3> QED BY <2>8, <2>9
  <2>11. IsVisit(pa, line, m, w) BY <2>10 DEF IsVisit, Step
  <2> QED BY <2>3, <2>11
<1>2. n \in 0..n OBVIOUS
<1> QED BY <1>1, <1>2

LEMMA RevisitKeepsBlocks ==
    ASSUME NEW pa, Forest(pa), NEW line, Len(line) \in Nat \ {0}
    PROVE  SameBlocks(RevisitLinks(pa, line), pa)
<1> DEFINE n == Len(line) - 1
           v == CHOOSE u : IsVisit(pa, line, n, u)
           Bad == {k \in 0..n : ~SameBlocks(v[k], pa)}
<1>1. n \in Nat OBVIOUS
<1>2. IsVisit(pa, line, n, v) BY <1>1, VisitExists
<1>3. RevisitLinks(pa, line) = v[n] BY DEF RevisitLinks, IsVisit
<1> HIDE DEF v, n
<1>4. \A k \in 0..n : v[k] = IF k = 0 THEN pa
                             ELSE MaybeUpdateBestChildAndDescendant(v[k - 1], line[k + 1], line[k])
  BY <1>2 DEF IsVisit
<1>5. ASSUME Bad # {} PROVE FALSE
  <2>1. Bad \in SUBSET Nat OBVIOUS
  <2>2. PICK k \in Bad : \A j \in Bad : k <= j
    <3> HIDE DEF Bad
    <3> QED BY <1>5, <2>1, NatHasLeast
  <2>3. k \in 0..n /\ ~SameBlocks(v[k], pa) OBVIOUS
  <2>4. k # 0
    <3>1. SameBlocks(pa, pa) BY SameBlocksRefl
    <3> QED BY <1>4, <2>3, <3>1
  <2>5. k - 1 \in 0..n /\ k - 1 \notin Bad
    <3> HIDE DEF Bad
    <3> QED BY <1>1, <2>2, <2>3, <2>4
  <2>6. SameBlocks(v[k - 1], pa) BY <2>5
  <2>7. Forest(v[k - 1]) BY <2>6, SameBlocksSameView DEF SameView
  <2>8. v[k] = MaybeUpdateBestChildAndDescendant(v[k - 1], line[k + 1], line[k]) BY <1>4, <2>3, <2>4
  <2>9. SameBlocks(v[k], v[k - 1])
    <3>1. SameBlocks(MaybeUpdateBestChildAndDescendant(v[k - 1], line[k + 1], line[k]), v[k - 1])
      BY <2>7, LinksKeepBlocks
    <3> QED BY <2>8, <3>1
  <2>10. SameBlocks(v[k], pa) BY <2>6, <2>9, SameBlocksTrans
  <2> QED BY <2>3, <2>10
<1>6. n \in 0..n BY <1>1
<1> QED BY <1>3, <1>5, <1>6

\* The recursion of applyScoreChanges, on its first m nodes.
IsPass(start, len, m, v) ==
    v = [k \in 0..m |-> IF k = 0 THEN start ELSE ScoreNode(v[k - 1], len + 1 - k)]

LEMMA PassExists ==
    ASSUME NEW start, NEW len, NEW n \in Nat
    PROVE  \E v : IsPass(start, len, n, v)
<1> DEFINE Step(x, k) == ScoreNode(x, len + 1 - k)
           Bad == {m \in 0..n : ~\E v : IsPass(start, len, m, v)}
<1>1. ASSUME Bad # {} PROVE FALSE
  <2>1. Bad \in SUBSET Nat OBVIOUS
  <2>2. PICK m \in Bad : \A j \in Bad : m <= j
    <3> HIDE DEF Bad
    <3> QED BY <1>1, <2>1, NatHasLeast
  <2>3. m \in 0..n /\ ~\E v : IsPass(start, len, m, v) BY <2>2
  <2>4. m # 0
    <3> DEFINE e == [k \in 0..0 |-> start]
               h == [k \in 0..0 |-> IF k = 0 THEN start ELSE Step(e[k - 1], k)]
    <3>1. \A k \in 0..0 : k = 0 OBVIOUS
    <3> HIDE DEF Step
    <3>2. e = h BY <3>1
    <3>3. IsPass(start, len, 0, e) BY <3>2 DEF IsPass, Step
    <3> QED BY <2>3, <3>3
  <2>5. m - 1 \in 0..n /\ m - 1 \notin Bad /\ m \in Nat
    <3> HIDE DEF Bad
    <3> QED BY <2>2, <2>3, <2>4
  <2>6. PICK u : IsPass(start, len, m - 1, u) BY <2>5
  <2> DEFINE w == [k \in 0..m |-> IF k = m THEN Step(u[m - 1], m) ELSE u[k]]
             h == [k \in 0..m |-> IF k = 0 THEN start ELSE Step(w[k - 1], k)]
  <2>7. \A k \in 0..(m - 1) : u[k] = IF k = 0 THEN start ELSE Step(u[k - 1], k)
    BY <2>6 DEF IsPass
  <2> HIDE DEF Step
  <2>8. \A k \in 0..m : w[k] = h[k]
    <3> SUFFICES ASSUME NEW k \in 0..m PROVE w[k] = h[k] OBVIOUS
    <3>1. CASE k = m
      <4>1. w[k - 1] = u[k - 1] BY <2>4, <2>5, <3>1
      <4> QED BY <2>4, <3>1, <4>1
    <3>2. CASE k # m
      <4>1. k \in 0..(m - 1) BY <2>5, <3>2
      <4>2. w[k] = u[k] BY <3>2
      <4>3. k # 0 => w[k - 1] = u[k - 1] BY <2>5, <4>1
      <4>4. h[k] = IF k = 0 THEN start ELSE Step(w[k - 1], k) OBVIOUS
      <4> HIDE DEF w, h
      <4> QED BY <2>7, <4>1, <4>2, <4>3, <4>4
    <3> QED BY <3>1, <3>2
  <2>9. w = [k \in 0..m |-> w[k]] /\ h = [k \in 0..m |-> h[k]] OBVIOUS
  <2>10. w = h
    <3> HIDE DEF w, h
    <3> QED BY <2>8, <2>9
  <2>11. IsPass(start, len, m, w) BY <2>10 DEF IsPass, Step
  <2> QED BY <2>3, <2>11
<1>2. n \in 0..n OBVIOUS
<1> QED BY <1>1, <1>2

LEMMA ScoringKeepsBlocks ==
    ASSUME NEW pa, Forest(pa), NEW acc, SameBlocks(acc.pa, pa), NEW i
    PROVE  SameBlocks(ScoreNode(acc, i).pa, pa)
<1> DEFINE p == acc.pa.nodes[i].parent
           w == [acc.pa EXCEPT !.nodes[i].weight = @ + acc.deltas[i]]
           R == ScoreNode(acc, i).pa
<1>1. R \in {acc.pa, w, MaybeUpdateBestChildAndDescendant(w, p, i)} BY DEF ScoreNode
<1>2. Forest(acc.pa) BY SameBlocksSameView DEF SameView
<1>3. SameBlocks(w, acc.pa) BY <1>2, WeighingKeepsBlocks
<1>4. SameBlocks(w, pa) BY <1>3, SameBlocksTrans
<1> HIDE DEF w, R
<1>5. Forest(w) BY <1>4, SameBlocksSameView DEF SameView
<1>6. SameBlocks(MaybeUpdateBestChildAndDescendant(w, p, i), w) BY <1>5, LinksKeepBlocks
<1>7. SameBlocks(MaybeUpdateBestChildAndDescendant(w, p, i), pa) BY <1>4, <1>6, SameBlocksTrans
<1>8. SameBlocks(R, pa) BY <1>1, <1>4, <1>7
<1> QED BY <1>8 DEF R

LEMMA ScoresKeepBlocks ==
    ASSUME NEW pa, Forest(pa), NEW deltas, NEW j, NEW f
    PROVE  SameBlocks(ApplyScoreChanges(pa, deltas, j, f), pa)
<1> DEFINE s == IF j # pa.justifiedEpoch
                THEN [pa EXCEPT !.justifiedEpoch = j, !.finalizedEpoch = f] ELSE pa
           start == [pa |-> s, deltas |-> deltas]
           n == Len(pa.nodes)
           v == CHOOSE u : IsPass(start, n, n, u)
           Bad == {k \in 0..n : ~SameBlocks(v[k].pa, pa)}
<1>1. n \in Nat BY ForestFacts
<1>2. IsPass(start, n, n, v) BY <1>1, PassExists
<1>3. ApplyScoreChanges(pa, deltas, j, f) = v[n].pa BY DEF ApplyScoreChanges, IsPass
<1>4. SameBlocks(start.pa, pa)
  <2>1. SameBlocks(pa, pa) BY SameBlocksRefl
  <2>2. DOMAIN s = DOMAIN pa /\ s.indices = pa.indices /\ s.nodes = pa.nodes
    BY DEF Forest, ArrayFields
  <2> HIDE DEF s
  <2>3. SameBlocks(s, pa) BY <2>1, <2>2 DEF SameBlocks
  <2> QED BY <2>3
<1> HIDE DEF v, n, start
<1>5. \A k \in 0..n : v[k] = IF k = 0 THEN start ELSE ScoreNode(v[k - 1], n + 1 - k)
  BY <1>2 DEF IsPass
<1>6. ASSUME Bad # {} PROVE FALSE
  <2>1. Bad \in SUBSET Nat OBVIOUS
  <2>2. PICK k \in Bad : \A i \in Bad : k <= i
    <3> HIDE DEF Bad
    <3> QED BY <1>6, <2>1, NatHasLeast
  <2>3. k \in 0..n /\ ~SameBlocks(v[k].pa, pa) OBVIOUS
  <2>4. k # 0 BY <1>4, <1>5, <2>3
  <2>5. k - 1 \in 0..n /\ k - 1 \notin Bad
    <3> HIDE DEF Bad
    <3> QED BY <1>1, <2>2, <2>3, <2>4
  <2>6. SameBlocks(v[k - 1].pa, pa) BY <2>5
  <2>7. v[k] = ScoreNode(v[k - 1], n + 1 - k) BY <1>5, <2>3, <2>4
  <2>8. SameBlocks(ScoreNode(v[k - 1], n + 1 - k).pa, pa) BY <2>6, ScoringKeepsBlocks
  <2> QED BY <2>3, <2>7, <2>8
<1>7. n \in 0..n BY <1>1
<1> QED BY <1>3, <1>6, <1>7

-----------------------------------------------------------------------------
(* A block is appended. *)

\* The array with one block more: the others keep their places, and the new one has the
\* given slot and parent.
Extends(q, pa, root, slot, parentRoot) ==
    /\ Forest(q) /\ DOMAIN q.indices = DOMAIN pa.indices \union {root}
    /\ \A r \in DOMAIN pa.indices : /\ GetNode(q, r).slot = GetNode(pa, r).slot
                                    /\ ParentRootIn(q, r) = ParentRootIn(pa, r)
    /\ GetNode(q, root).slot = slot /\ ParentRootIn(q, root) = parentRoot
    /\ \A b \in DOMAIN pa.indices, a \in DOMAIN pa.indices : DescendsIn(q, b, a) <=> DescendsIn(pa, b, a)
    /\ \A b \in DOMAIN pa.indices : ~DescendsIn(q, b, root)

LEMMA AppendExtends ==
    ASSUME NEW pa, Forest(pa), NEW block, ~HasBlock(pa, block.blockRoot),
           \A r \in DOMAIN pa.indices : ParentRootIn(pa, r) # block.blockRoot,
           block.parentRoot # block.blockRoot
    PROVE  Extends(AppendNode(pa, block), pa, block.blockRoot, block.slot, block.parentRoot)
<1> DEFINE q == AppendNode(pa, block)
           root == block.blockRoot
           n == Len(pa.nodes)
           node == [blockRoot |-> block.blockRoot, slot |-> block.slot,
                    parentRoot |-> block.parentRoot, targetRoot |-> block.targetRoot,
                    justifiedEpoch |-> block.justifiedEpoch,
                    finalizedEpoch |-> block.finalizedEpoch,
                    parent |-> IndexOf(pa, block.parentRoot), weight |-> 0,
                    bestChild |-> Undefined, bestDescendant |-> Undefined]
<1>1. n \in Nat /\ DOMAIN pa.nodes = 1..n /\ \A r \in DOMAIN pa.indices : pa.indices[r] \in 1..n
  BY ForestFacts
<1>2. /\ DOMAIN q = ArrayFields /\ q.nodes = Append(pa.nodes, node)
      /\ q.indices = [r \in DOMAIN pa.indices \union {root} |-> IF r = root THEN n + 1 ELSE pa.indices[r]]
  BY DEF AppendNode, Forest, ArrayFields
<1>3. /\ IsList(q.nodes) /\ Len(q.nodes) = n + 1
      /\ \A k \in 1..n : q.nodes[k] = pa.nodes[k]
      /\ q.nodes[n + 1] = node
  <2>1. PICK S : pa.nodes \in Seq(S) BY DEF Forest, IsList
  <2> DEFINE T == S \union {node}
  <2>2. pa.nodes \in Seq(T) /\ node \in T
    <3> HIDE DEF node
    <3> QED BY <2>1
  <2> HIDE DEF T, node, q
  <2>3. q.nodes \in Seq(T) /\ Len(q.nodes) = n + 1 BY <1>2, <2>2
  <2>4. \A k \in 1..n : q.nodes[k] = pa.nodes[k] BY <1>2, <2>2
  <2>5. q.nodes[n + 1] = node BY <1>2, <2>2
  <2> QED BY <2>3, <2>4, <2>5 DEF IsList
<1>4. /\ DOMAIN q.indices = DOMAIN pa.indices \union {root} /\ q.indices[root] = n + 1
      /\ \A r \in DOMAIN pa.indices : r # root /\ q.indices[r] = pa.indices[r] /\ q.indices[r] \in 1..n
  <2>1. root \notin DOMAIN pa.indices BY DEF HasBlock
  <2> HIDE DEF q
  <2> QED BY <1>1, <1>2, <2>1
<1>5. /\ DOMAIN node = NodeFields /\ node.blockRoot = root /\ node.slot = block.slot
      /\ node.parentRoot = block.parentRoot /\ node.parent = IndexOf(pa, block.parentRoot)
  BY DEF NodeFields
<1> HIDE DEF q, node
<1>6. ASSUME NEW x, x # root PROVE IndexOf(q, x) = IndexOf(pa, x)
  BY <1>4, <1>6 DEF IndexOf, HasBlock
<1>7. IndexOf(pa, block.parentRoot) \in 0..n
  BY <1>1 DEF IndexOf, HasBlock, Undefined
<1>8. \A r \in DOMAIN pa.indices : GetNode(q, r) = GetNode(pa, r) BY <1>3, <1>4 DEF GetNode
<1>9. GetNode(q, root) = node BY <1>3, <1>4 DEF GetNode
<1>10. Forest(q)
  <2>1. q.indices \in [DOMAIN q.indices -> 1..Len(q.nodes)]
    <3>1. q.indices = [r \in DOMAIN q.indices |-> q.indices[r]] BY <1>2
    <3>2. \A r \in DOMAIN q.indices : q.indices[r] \in 1..(n + 1) BY <1>1, <1>4
    <3> QED BY <1>3, <3>1, <3>2
  <2>2. \A r \in DOMAIN q.indices : GetNode(q, r).blockRoot = r
    BY <1>4, <1>5, <1>8, <1>9 DEF Forest
  <2>3. ASSUME NEW i \in 1..Len(q.nodes)
        PROVE  /\ DOMAIN q.nodes[i] = NodeFields
               /\ HasBlock(q, q.nodes[i].blockRoot) /\ q.indices[q.nodes[i].blockRoot] = i
               /\ q.nodes[i].parent = IndexOf(q, q.nodes[i].parentRoot)
               /\ q.nodes[i].parent < i
    <3>1. CASE i = n + 1
      <4>1. q.nodes[i] = node BY <1>3, <3>1
      <4>2. IndexOf(q, block.parentRoot) = IndexOf(pa, block.parentRoot) BY <1>6
      <4>3. IndexOf(pa, block.parentRoot) < i BY <1>1, <1>7, <3>1
      <4> QED BY <1>4, <1>5, <3>1, <4>1, <4>2, <4>3 DEF HasBlock
    <3>2. CASE i # n + 1
      <4>1. i \in 1..n BY <1>1, <1>3, <3>2
      <4>2. /\ q.nodes[i] = pa.nodes[i]
            /\ DOMAIN pa.nodes[i] = NodeFields
            /\ HasBlock(pa, pa.nodes[i].blockRoot) /\ pa.indices[pa.nodes[i].blockRoot] = i
            /\ pa.nodes[i].parent = IndexOf(pa, pa.nodes[i].parentRoot)
            /\ pa.nodes[i].parent < i
        BY <1>3, <4>1 DEF Forest
      <4>3. pa.nodes[i].parentRoot # root
        <5>1. ParentRootIn(pa, pa.nodes[i].blockRoot) = pa.nodes[i].parentRoot
          BY <4>2 DEF ParentRootIn, GetNode
        <5> QED BY <4>2, <5>1 DEF HasBlock
      <4>4. IndexOf(q, pa.nodes[i].parentRoot) = IndexOf(pa, pa.nodes[i].parentRoot) BY <1>6, <4>3
      <4> QED BY <1>4, <4>2, <4>4 DEF HasBlock
    <3> QED BY <3>1, <3>2
  <2> QED BY <1>2, <1>3, <2>1, <2>2, <2>3 DEF Forest
<1>11. \A r \in DOMAIN pa.indices : /\ GetNode(q, r).slot = GetNode(pa, r).slot
                                    /\ ParentRootIn(q, r) = ParentRootIn(pa, r)
  BY <1>8 DEF ParentRootIn
<1>12. ASSUME NEW a \in DOMAIN pa.indices
       PROVE  \A b \in DOMAIN pa.indices : DescendsIn(pa, b, a) <=> DescendsIn(q, b, a)
  <2> DEFINE K == DOMAIN pa.indices
  <2>1. \A c \in K : c # a /\ DescendsIn(pa, c, a) => ParentRootIn(pa, c) \in K BY DescendsByParents
  <2>2. ASSUME NEW c \in K, c # a, DescendsIn(q, c, a) PROVE ParentRootIn(q, c) \in K
    <3>1. ParentRootIn(q, c) \in DOMAIN q.indices BY <1>4, <1>10, <2>2, DescendsByParents
    <3>2. ParentRootIn(q, c) # root BY <1>11, <2>2
    <3> QED BY <1>4, <3>1, <3>2
  <2>3. K \subseteq DOMAIN pa.indices /\ K \subseteq DOMAIN q.indices /\ a \in K BY <1>4
  <2>4. \A c \in K : ParentRootIn(q, c) = ParentRootIn(pa, c) BY <1>11
  <2> HIDE DEF K
  <2>5. \A b \in K : DescendsIn(pa, b, a) <=> DescendsIn(q, b, a)
    BY <1>10, <2>1, <2>2, <2>3, <2>4, DescendsAgree
  <2> QED BY <2>5 DEF K
<1>13. ASSUME NEW b \in DOMAIN pa.indices, DescendsIn(q, b, root) PROVE FALSE
  <2>1. q.indices[root] <= q.indices[b] BY <1>10, <1>13, DescendsUpwards
  <2>2. q.indices[root] = n + 1 /\ q.indices[b] \in 1..n BY <1>4
  <2> QED BY <1>1, <2>1, <2>2
<1>14. GetNode(q, root).slot = block.slot /\ ParentRootIn(q, root) = block.parentRoot
  BY <1>5, <1>9 DEF ParentRootIn
<1>15. Extends(q, pa, root, block.slot, block.parentRoot)
  BY <1>4, <1>10, <1>11, <1>12, <1>13, <1>14 DEF Extends
<1> QED BY <1>15 DEF q

\* onBlock of the proto array.
LEMMA OnBlockExtends ==
    ASSUME NEW pa, Forest(pa), NEW block, ~HasBlock(pa, block.blockRoot),
           \A r \in DOMAIN pa.indices : ParentRootIn(pa, r) # block.blockRoot,
           block.parentRoot # block.blockRoot
    PROVE  Extends(ProtoOnBlock(pa, block), pa, block.blockRoot, block.slot, block.parentRoot)
<1> DEFINE added == AppendNode(pa, block)
           n == Len(added.nodes)
           line == AncestorIndices(added, n)
           q == RevisitLinks(added, line)
           root == block.blockRoot
<1>1. ProtoOnBlock(pa, block) = q BY DEF ProtoOnBlock
<1>2. Extends(added, pa, root, block.slot, block.parentRoot) BY AppendExtends
<1> HIDE DEF added
<1>3. Forest(added) BY <1>2 DEF Extends
<1>4. n \in Nat /\ root \in DOMAIN added.indices /\ added.indices[root] \in 1..n
  BY <1>2, <1>3, ForestFacts DEF Extends
<1>5. n \in 1..Len(added.nodes) BY <1>4
<1>6. WalkIsUp(added, n, line) BY <1>3, <1>5, AncestorsAreUp
<1>7. Len(line) \in Nat \ {0}
  <2> HIDE DEF line, n
  <2> QED BY <1>6 DEF WalkIsUp
<1>8. SameView(q, added)
  <2> HIDE DEF line, n
  <2>1. SameBlocks(q, added) BY <1>3, <1>7, RevisitKeepsBlocks
  <2> QED BY <1>3, <2>1, SameBlocksSameView
<1> HIDE DEF q, root
<1>9. /\ Forest(q) /\ DOMAIN q.indices = DOMAIN pa.indices \union {root}
      /\ root \in DOMAIN added.indices /\ DOMAIN pa.indices \subseteq DOMAIN added.indices
  BY <1>2, <1>8 DEF SameView, Extends
<1>10. Extends(q, pa, root, block.slot, block.parentRoot)
  BY <1>2, <1>8, <1>9 DEF SameView, Extends
<1> QED BY <1>1, <1>10 DEF root

-----------------------------------------------------------------------------
(* The array is pruned. *)

\* What is left: with a block its children and so all its descendants, as they were.
LeftOf(q, pa) ==
    /\ Forest(q) /\ DOMAIN q.indices \subseteq DOMAIN pa.indices
    /\ \A r \in DOMAIN q.indices : /\ GetNode(q, r).slot = GetNode(pa, r).slot
                                   /\ ParentRootIn(q, r) = ParentRootIn(pa, r)
    /\ \A r \in DOMAIN pa.indices : ParentRootIn(pa, r) \in DOMAIN q.indices => r \in DOMAIN q.indices
    /\ \A b \in DOMAIN pa.indices, a \in DOMAIN q.indices :
          DescendsIn(pa, b, a) <=> b \in DOMAIN q.indices /\ DescendsIn(q, b, a)

LEMMA PruneLeaves ==
    ASSUME NEW pa, Forest(pa), NEW fr
    PROVE  LeftOf(MaybePrune(pa, fr), pa)
<1>1. CASE ~HasBlock(pa, fr)
  <2>1. MaybePrune(pa, fr) = pa BY <1>1 DEF MaybePrune
  <2>2. LeftOf(pa, pa) BY DEF LeftOf
  <2> QED BY <2>1, <2>2
<1>2. CASE HasBlock(pa, fr)
  <2> DEFINE q == MaybePrune(pa, fr)
             f == pa.indices[fr]
             n == Len(pa.nodes)
             m == n - f + 1
             kept == {r \in DOMAIN pa.indices : pa.indices[r] >= f}
             shift(i) == IF i < f THEN Undefined ELSE i - f + 1
             node(i) == [pa.nodes[i + f - 1] EXCEPT !.parent = shift(@), !.bestChild = shift(@),
                                                    !.bestDescendant = shift(@)]
             new == [i \in 1..m |-> node(i)]
  <2>1. /\ n \in Nat /\ DOMAIN pa.nodes = 1..n /\ f \in 1..n
        /\ \A r \in DOMAIN pa.indices : pa.indices[r] \in 1..n
    BY <1>2, ForestFacts DEF HasBlock
  <2>2. DOMAIN q = ArrayFields /\ q.nodes = new /\ q.indices = [r \in kept |-> pa.indices[r] - f + 1]
    <3>1. q = [pa EXCEPT !.indices = [r \in kept |-> pa.indices[r] - f + 1], !.nodes = new]
      BY <1>2 DEF MaybePrune
    <3>2. DOMAIN pa = ArrayFields BY DEF Forest
    <3> HIDE DEF q, kept, new, f
    <3> QED BY <3>1, <3>2 DEF ArrayFields
  <2>3. ASSUME NEW i \in 1..m
        PROVE  /\ i + f - 1 \in 1..n
               /\ DOMAIN node(i) = NodeFields
               /\ node(i).blockRoot = pa.nodes[i + f - 1].blockRoot
               /\ node(i).slot = pa.nodes[i + f - 1].slot
               /\ node(i).parentRoot = pa.nodes[i + f - 1].parentRoot
               /\ node(i).parent = shift(pa.nodes[i + f - 1].parent)
    <3>1. i + f - 1 \in 1..n
      <4> HIDE DEF f, n
      <4> QED BY <2>1
    <3>2. DOMAIN pa.nodes[i + f - 1] = NodeFields BY <3>1 DEF Forest
    <3> HIDE DEF shift
    <3> QED BY <3>1, <3>2 DEF NodeFields
  <2>4. IsList(q.nodes) /\ Len(q.nodes) = m /\ m \in Nat
    <3> DEFINE T == {node(i) : i \in 1..m}
    <3>1. m \in Nat
      <4> HIDE DEF f, n
      <4> QED BY <2>1
    <3>2. new \in [1..m -> T] OBVIOUS
    <3> HIDE DEF new, T, m, q
    <3>3. new \in Seq(T) /\ Len(new) = m BY <3>1, <3>2
    <3> QED BY <2>2, <3>1, <3>3 DEF IsList
  <2>5. \A i \in 1..m : q.nodes[i] = node(i) BY <2>2
  <2>6. DOMAIN q.indices = kept /\ \A r \in kept : q.indices[r] = pa.indices[r] - f + 1 BY <2>2
  <2>7. \A r \in kept : /\ r \in DOMAIN pa.indices /\ q.indices[r] \in 1..m
                        /\ q.indices[r] + f - 1 = pa.indices[r]
    <3> SUFFICES ASSUME NEW r \in kept
                 PROVE  /\ r \in DOMAIN pa.indices /\ q.indices[r] \in 1..m
                        /\ q.indices[r] + f - 1 = pa.indices[r]
      OBVIOUS
    <3>1. r \in DOMAIN pa.indices /\ pa.indices[r] >= f /\ pa.indices[r] \in 1..n BY <2>1
    <3>2. q.indices[r] = pa.indices[r] - f + 1 BY <2>6
    <3> HIDE DEF f, n, q
    <3> QED BY <2>1, <3>1, <3>2
  <2> HIDE DEF q, node, new
  <2>8. ASSUME NEW r \in kept
        PROVE  /\ GetNode(q, r).slot = GetNode(pa, r).slot
               /\ ParentRootIn(q, r) = ParentRootIn(pa, r)
               /\ GetNode(q, r).blockRoot = r
    <3>1. GetNode(q, r) = node(q.indices[r]) BY <2>5, <2>7 DEF GetNode
    <3>2. GetNode(pa, r) = pa.nodes[q.indices[r] + f - 1] BY <2>7 DEF GetNode
    <3>3. GetNode(pa, r).blockRoot = r BY <2>7 DEF Forest
    <3> QED BY <2>3, <2>7, <3>1, <3>2, <3>3 DEF ParentRootIn
  <2>9. Forest(q)
    <3>1. q.indices \in [DOMAIN q.indices -> 1..Len(q.nodes)]
      <4>1. q.indices = [r \in kept |-> q.indices[r]] BY <2>2
      <4> HIDE DEF kept, m
      <4> QED BY <2>4, <2>6, <2>7, <4>1
    <3>2. \A r \in DOMAIN q.indices : GetNode(q, r).blockRoot = r BY <2>6, <2>8
    <3>3. ASSUME NEW i \in 1..Len(q.nodes)
          PROVE  /\ DOMAIN q.nodes[i] = NodeFields
                 /\ HasBlock(q, q.nodes[i].blockRoot) /\ q.indices[q.nodes[i].blockRoot] = i
                 /\ q.nodes[i].parent = IndexOf(q, q.nodes[i].parentRoot)
                 /\ q.nodes[i].parent < i
      <4> DEFINE k == i + f - 1
                 r == pa.nodes[k].blockRoot
                 x == pa.nodes[k].parentRoot
      <4>1. i \in 1..m BY <2>4
      <4>2. q.nodes[i] = node(i) /\ k \in 1..n BY <2>3, <2>5, <4>1
      <4>3. /\ r \in DOMAIN pa.indices /\ pa.indices[r] = k
            /\ pa.nodes[k].parent = IndexOf(pa, x) /\ pa.nodes[k].parent < k
        BY <4>2 DEF Forest, HasBlock
      <4>4. r \in kept /\ q.indices[r] = i
        <5>1. k >= f /\ k - f + 1 = i
          <6> HIDE DEF f
          <6> QED BY <2>1, <4>1
        <5> HIDE DEF k
        <5> QED BY <2>6, <4>3, <5>1
      <4>5. IndexOf(q, x) = shift(IndexOf(pa, x))
        <5>1. CASE x \notin DOMAIN pa.indices
          <6>1. IndexOf(pa, x) = 0 BY <5>1 DEF IndexOf, HasBlock, Undefined
          <6>2. IndexOf(q, x) = 0 BY <2>6, <5>1 DEF IndexOf, HasBlock, Undefined
          <6>3. 0 < f BY <2>1
          <6> QED BY <6>1, <6>2, <6>3 DEF Undefined
        <5>2. CASE x \in DOMAIN pa.indices
          <6>1. IndexOf(pa, x) = pa.indices[x] /\ pa.indices[x] \in 1..n
            BY <2>1, <5>2 DEF IndexOf, HasBlock
          <6>2. CASE pa.indices[x] >= f
            <7>1. IndexOf(q, x) = pa.indices[x] - f + 1 BY <2>6, <5>2, <6>2 DEF IndexOf, HasBlock
            <7>2. ~(pa.indices[x] < f)
              <8> HIDE DEF f
              <8> QED BY <2>1, <6>1, <6>2
            <7> QED BY <6>1, <7>1, <7>2
          <6>3. CASE ~(pa.indices[x] >= f)
            <7>1. IndexOf(q, x) = Undefined BY <2>6, <6>3 DEF IndexOf, HasBlock
            <7>2. pa.indices[x] < f
              <8> HIDE DEF f
              <8> QED BY <2>1, <6>1, <6>3
            <7> QED BY <6>1, <7>1, <7>2
          <6> QED BY <6>2, <6>3
        <5> QED BY <5>1, <5>2
      <4>6. q.nodes[i].parent = IndexOf(q, x) BY <2>3, <4>1, <4>2, <4>3, <4>5
      <4>7. shift(pa.nodes[k].parent) < i
        <5> DEFINE p == pa.nodes[k].parent
        <5>1. p \in Nat BY <2>1, <4>3, SMTT(30) DEF IndexOf, HasBlock, Undefined
        <5>2. p < k BY <4>3
        <5> HIDE DEF f, p
        <5>3. (IF p < f THEN Undefined ELSE p - f + 1) < i BY <2>1, <4>1, <5>1, <5>2 DEF Undefined
        <5> QED BY <5>3 DEF p, f
      <4>8. q.nodes[i].parent < i BY <4>3, <4>5, <4>6, <4>7
      <4>9. DOMAIN q.nodes[i] = NodeFields /\ q.nodes[i].blockRoot = r /\ q.nodes[i].parentRoot = x
        BY <2>3, <4>1, <4>2
      <4> HIDE DEF r, x
      <4> QED BY <2>6, <4>4, <4>6, <4>8, <4>9 DEF HasBlock
    <3> QED BY <2>2, <2>4, <3>1, <3>2, <3>3 DEF Forest
  <2>10. ASSUME NEW r \in DOMAIN pa.indices, ParentRootIn(pa, r) \in kept PROVE r \in kept
    <3>1. pa.indices[ParentRootIn(pa, r)] < pa.indices[r] BY <2>7, <2>10, ForestFacts
    <3>2. pa.indices[ParentRootIn(pa, r)] >= f BY <2>10
    <3>3. pa.indices[ParentRootIn(pa, r)] \in Nat /\ pa.indices[r] \in Nat BY <2>1, <2>10
    <3>4. pa.indices[r] >= f
      <4> HIDE DEF f
      <4> QED BY <2>1, <3>1, <3>2, <3>3
    <3> QED BY <3>4
  <2>11. ASSUME NEW b \in DOMAIN pa.indices, NEW a \in kept, DescendsIn(pa, b, a) PROVE b \in kept
    <3>1. pa.indices[a] <= pa.indices[b] BY <2>11, DescendsUpwards
    <3>2. pa.indices[a] >= f /\ pa.indices[a] \in Nat /\ pa.indices[b] \in Nat BY <2>1
    <3>3. pa.indices[b] >= f
      <4> HIDE DEF f
      <4> QED BY <2>1, <3>1, <3>2
    <3> QED BY <3>3
  <2>12. ASSUME NEW a \in kept
         PROVE  \A b \in kept : DescendsIn(pa, b, a) <=> DescendsIn(q, b, a)
    <3>1. \A c \in kept : c # a /\ DescendsIn(pa, c, a) => ParentRootIn(pa, c) \in kept
      <4> SUFFICES ASSUME NEW c \in kept, c # a, DescendsIn(pa, c, a) PROVE ParentRootIn(pa, c) \in kept
        OBVIOUS
      <4>1. c \in DOMAIN pa.indices BY <2>7
      <4>2. ParentRootIn(pa, c) \in DOMAIN pa.indices /\ DescendsIn(pa, ParentRootIn(pa, c), a)
        BY <4>1, DescendsByParents
      <4> HIDE DEF kept
      <4> QED BY <2>11, <4>2
    <3>2. \A c \in kept : c # a /\ DescendsIn(q, c, a) => ParentRootIn(q, c) \in kept
      <4> HIDE DEF kept
      <4> QED BY <2>6, <2>9, DescendsByParents
    <3>3. kept \subseteq DOMAIN pa.indices /\ kept \subseteq DOMAIN q.indices BY <2>6
    <3>4. \A c \in kept : ParentRootIn(q, c) = ParentRootIn(pa, c) BY <2>8
    <3> HIDE DEF kept
    <3> QED BY <2>9, <3>1, <3>2, <3>3, <3>4, DescendsAgree
  <2>13. kept \subseteq DOMAIN pa.indices OBVIOUS
  <2> HIDE DEF kept
  <2>14. LeftOf(q, pa)
    BY <2>6, <2>8, <2>9, <2>10, <2>11, <2>12, <2>13 DEF LeftOf
  <2> QED BY <2>14 DEF q
<1> QED BY <1>1, <1>2

-----------------------------------------------------------------------------
(* The states of blocks. *)

StateFields == {"slot", "parentRoot", "previousJustified", "currentJustified", "finalized", "bits", "blockRoots"}

\* The checkpoints of a state are genesis or earlier blocks of its own chain.
CheckpointsBefore(s, epoch) ==
    \A c \in {s.previousJustified, s.currentJustified, s.finalized} :
        c.epoch \in Nat /\ (c.epoch = 0 \/ (c.epoch < epoch /\ c.root = s.blockRoots[c.epoch]))

StateBefore(s, roots, epoch) ==
    DOMAIN s = StateFields /\ s.blockRoots = roots /\ CheckpointsBefore(s, epoch)

LEMMA JustificationKeepsChain ==
    ASSUME NEW s, NEW roots, NEW epoch \in Nat, StateBefore(s, roots, epoch), NEW pt, NEW ct
    PROVE  StateBefore(ProcessJustificationAndFinalization(s, epoch, pt, ct), roots, epoch + 1)
<1> DEFINE R == ProcessJustificationAndFinalization(s, epoch, pt, ct)
           at(e) == Checkpoint(e, roots[e])
           Old == {s.previousJustified, s.currentJustified, s.finalized}
           Fine(c) == c.epoch \in Nat /\ (c.epoch = 0 \/ (c.epoch < epoch + 1 /\ c.root = roots[c.epoch]))
<1>1. DOMAIN s = StateFields /\ s.blockRoots = roots BY DEF StateBefore
<1>2. \A c \in Old : Fine(c) BY DEF StateBefore, CheckpointsBefore
<1>3. CASE epoch <= GENESIS_EPOCH + 1
  <2>1. R = s BY <1>3 DEF ProcessJustificationAndFinalization
  <2> QED BY <1>1, <1>2, <2>1 DEF StateBefore, CheckpointsBefore
<1>4. CASE ~(epoch <= GENESIS_EPOCH + 1)
  <2>1. epoch - 1 \in Nat BY <1>4 DEF GENESIS_EPOCH
  <2>2. Fine(at(epoch)) /\ Fine(at(epoch - 1)) BY <2>1 DEF Checkpoint
  <2>3. \E p, j, b, f : /\ R = [s EXCEPT !.previousJustified = p, !.currentJustified = j,
                                         !.bits = b, !.finalized = f]
                        /\ p \in Old /\ f \in Old /\ j \in Old \union {at(epoch), at(epoch - 1)}
    <3> DEFINE oldP == s.previousJustified
               oldC == s.currentJustified
               bits == {i \in 1..4 : \/ i = 1 /\ ct
                                     \/ i = 2 /\ pt
                                     \/ i - 1 \in s.bits}
               just == IF ct THEN Checkpoint(epoch, s.blockRoots[epoch])
                       ELSE IF pt THEN Checkpoint(epoch - 1, s.blockRoots[epoch - 1]) ELSE oldC
               fromC == \/ {1, 2, 3} \subseteq bits /\ oldC.epoch + 2 = epoch
                        \/ {1, 2} \subseteq bits /\ oldC.epoch + 1 = epoch
               fromP == \/ {2, 3, 4} \subseteq bits /\ oldP.epoch + 3 = epoch
                        \/ {2, 3} \subseteq bits /\ oldP.epoch + 2 = epoch
               fin == IF fromC THEN oldC ELSE IF fromP THEN oldP ELSE s.finalized
    <3>1. R = [s EXCEPT !.previousJustified = oldC, !.currentJustified = just, !.bits = bits,
                        !.finalized = IF fromC THEN oldC ELSE IF fromP THEN oldP ELSE @]
      BY <1>4 DEF ProcessJustificationAndFinalization
    <3>2. just \in Old \union {at(epoch), at(epoch - 1)} BY <1>1
    <3>3. fin \in Old
      <4> HIDE DEF fromC, fromP
      <4> QED OBVIOUS
    <3> HIDE DEF just, bits, fromC, fromP
    <3>4. R = [s EXCEPT !.previousJustified = oldC, !.currentJustified = just, !.bits = bits,
                        !.finalized = fin]
      BY <1>1, <3>1 DEF StateFields
    <3>5. oldC \in Old OBVIOUS
    <3> HIDE DEF fin, R, Old
    <3> QED BY <3>2, <3>3, <3>4, <3>5
  <2>4. PICK p, j, b, f : /\ R = [s EXCEPT !.previousJustified = p, !.currentJustified = j,
                                           !.bits = b, !.finalized = f]
                          /\ p \in Old /\ f \in Old /\ j \in Old \union {at(epoch), at(epoch - 1)}
    BY <2>3
  <2>5. Fine(p) /\ Fine(f) /\ Fine(j)
    <3> HIDE DEF Fine, Old, at
    <3> QED BY <1>2, <2>2, <2>4
  <2>6. /\ DOMAIN R = StateFields /\ R.blockRoots = roots
        /\ R.previousJustified = p /\ R.currentJustified = j /\ R.finalized = f
    <3> HIDE DEF R
    <3> QED BY <1>1, <2>4 DEF StateFields
  <2> HIDE DEF R
  <2>7. CheckpointsBefore(R, epoch + 1) BY <2>5, <2>6 DEF CheckpointsBefore
  <2>8. StateBefore(R, roots, epoch + 1) BY <2>6, <2>7 DEF StateBefore
  <2> QED BY <2>8 DEF R
<1> QED BY <1>3, <1>4

\* The recursion of EpochsEnded, on its first m epochs.
IsEnding(pre, pe, pt, ct, m, v) ==
    v = [k \in 0..m |-> IF k = 0 THEN pre ELSE ProcessJustificationAndFinalization(v[k - 1], pe + k - 1, IF k = 1 THEN pt ELSE k = 2 /\ ct, k = 1 /\ ct)]

LEMMA EndingExists ==
    ASSUME NEW pre, NEW pe, NEW pt, NEW ct, NEW n \in Nat
    PROVE  \E v : IsEnding(pre, pe, pt, ct, n, v)
<1> DEFINE Step(x, k) == ProcessJustificationAndFinalization(x, pe + k - 1, IF k = 1 THEN pt ELSE k = 2 /\ ct, k = 1 /\ ct)
           Bad == {m \in 0..n : ~\E v : IsEnding(pre, pe, pt, ct, m, v)}
<1>1. ASSUME Bad # {} PROVE FALSE
  <2>1. Bad \in SUBSET Nat OBVIOUS
  <2>2. PICK m \in Bad : \A j \in Bad : m <= j
    <3> HIDE DEF Bad
    <3> QED BY <1>1, <2>1, NatHasLeast
  <2>3. m \in 0..n /\ ~\E v : IsEnding(pre, pe, pt, ct, m, v) BY <2>2
  <2>4. m # 0
    <3> DEFINE e == [k \in 0..0 |-> pre]
               h == [k \in 0..0 |-> IF k = 0 THEN pre ELSE Step(e[k - 1], k)]
    <3>1. \A k \in 0..0 : k = 0 OBVIOUS
    <3> HIDE DEF Step
    <3>2. e = h BY <3>1
    <3>3. IsEnding(pre, pe, pt, ct, 0, e) BY <3>2 DEF IsEnding, Step
    <3> QED BY <2>3, <3>3
  <2>5. m - 1 \in 0..n /\ m - 1 \notin Bad /\ m \in Nat
    <3> HIDE DEF Bad
    <3> QED BY <2>2, <2>3, <2>4
  <2>6. PICK u : IsEnding(pre, pe, pt, ct, m - 1, u) BY <2>5
  <2> DEFINE w == [k \in 0..m |-> IF k = m THEN Step(u[m - 1], m) ELSE u[k]]
             h == [k \in 0..m |-> IF k = 0 THEN pre ELSE Step(w[k - 1], k)]
  <2>7. \A k \in 0..(m - 1) : u[k] = IF k = 0 THEN pre ELSE Step(u[k - 1], k)
    BY <2>6 DEF IsEnding
  <2> HIDE DEF Step
  <2>8. \A k \in 0..m : w[k] = h[k]
    <3> SUFFICES ASSUME NEW k \in 0..m PROVE w[k] = h[k] OBVIOUS
    <3>1. CASE k = m
      <4>1. w[k - 1] = u[k - 1] BY <2>4, <2>5, <3>1
      <4> QED BY <2>4, <3>1, <4>1
    <3>2. CASE k # m
      <4>1. k \in 0..(m - 1) BY <2>5, <3>2
      <4>2. w[k] = u[k] BY <3>2
      <4>3. k # 0 => w[k - 1] = u[k - 1] BY <2>5, <4>1
      <4>4. h[k] = IF k = 0 THEN pre ELSE Step(w[k - 1], k) OBVIOUS
      <4> HIDE DEF w, h
      <4> QED BY <2>7, <4>1, <4>2, <4>3, <4>4
    <3> QED BY <3>1, <3>2
  <2>9. w = [k \in 0..m |-> w[k]] /\ h = [k \in 0..m |-> h[k]] OBVIOUS
  <2>10. w = h
    <3> HIDE DEF w, h
    <3> QED BY <2>8, <2>9
  <2>11. IsEnding(pre, pe, pt, ct, m, w) BY <2>10 DEF IsEnding, Step
  <2> QED BY <2>3, <2>11
<1>2. n \in 0..n OBVIOUS
<1> QED BY <1>1, <1>2

LEMMA EndedKeepsChain ==
    ASSUME NEW pre, NEW epoch \in Nat, ComputeEpochAtSlot(pre.slot) \in 0..epoch, NEW pt, NEW ct,
           StateBefore(pre, pre.blockRoots, ComputeEpochAtSlot(pre.slot))
    PROVE  StateBefore(EpochsEnded(pre, epoch, pt, ct), pre.blockRoots, epoch)
<1> DEFINE pe == ComputeEpochAtSlot(pre.slot)
           n == epoch - pe
           roots == pre.blockRoots
           v == CHOOSE u : IsEnding(pre, pe, pt, ct, n, u)
           Bad == {k \in 0..n : ~StateBefore(v[k], roots, pe + k)}
<1>1. n \in Nat /\ pe \in Nat OBVIOUS
<1>2. IsEnding(pre, pe, pt, ct, n, v) BY <1>1, EndingExists
<1>3. EpochsEnded(pre, epoch, pt, ct) = v[n] BY DEF EpochsEnded, IsEnding
<1>0. pe + n = epoch OBVIOUS
<1>8. StateBefore(pre, roots, pe) OBVIOUS
<1> HIDE DEF v, n, pe, roots
<1>4. \A k \in 0..n : v[k] = IF k = 0 THEN pre
            ELSE ProcessJustificationAndFinalization(v[k - 1], pe + k - 1,
                   IF k = 1 THEN pt ELSE k = 2 /\ ct, k = 1 /\ ct)
  BY <1>2 DEF IsEnding
<1>5. ASSUME Bad # {} PROVE FALSE
  <2>1. Bad \in SUBSET Nat OBVIOUS
  <2>2. PICK k \in Bad : \A i \in Bad : k <= i
    <3> HIDE DEF Bad
    <3> QED BY <1>5, <2>1, NatHasLeast
  <2>3. k \in 0..n /\ ~StateBefore(v[k], roots, pe + k) OBVIOUS
  <2>4. k # 0
    <3> SUFFICES ASSUME k = 0 PROVE FALSE OBVIOUS
    <3>1. v[k] = pre /\ pe + k = pe BY <1>1, <1>4, <2>3
    <3> QED BY <1>8, <2>3, <3>1
  <2>5. k - 1 \in 0..n /\ k - 1 \notin Bad
    <3> HIDE DEF Bad
    <3> QED BY <1>1, <2>2, <2>3, <2>4
  <2> DEFINE e == pe + k - 1
             b1 == IF k = 1 THEN pt ELSE k = 2 /\ ct
             b2 == k = 1 /\ ct
  <2>6. e \in Nat /\ pe + (k - 1) = e /\ e + 1 = pe + k BY <1>1, <2>3, <2>4
  <2>7. StateBefore(v[k - 1], roots, e) BY <2>5, <2>6
  <2>8. v[k] = ProcessJustificationAndFinalization(v[k - 1], e, b1, b2) BY <1>4, <2>3, <2>4
  <2> HIDE DEF e, b1, b2
  <2>9. StateBefore(ProcessJustificationAndFinalization(v[k - 1], e, b1, b2), roots, e + 1)
    BY <2>6, <2>7, JustificationKeepsChain
  <2> QED BY <2>3, <2>6, <2>8, <2>9
<1>6. n \in 0..n BY <1>1
<1>7. StateBefore(v[n], roots, pe + n) BY <1>5, <1>6
<1> QED BY <1>0, <1>3, <1>7 DEF roots

-----------------------------------------------------------------------------
(* Slots and epochs. *)

\* Division rounds down and is monotone.
LEMMA EpochsGrow ==
    ASSUME NEW a \in Nat, NEW b \in Nat, a <= b
    PROVE  /\ ComputeEpochAtSlot(a) \in Nat /\ ComputeEpochAtSlot(b) \in Nat
           /\ ComputeEpochAtSlot(a) <= ComputeEpochAtSlot(b)
<1> DEFINE n == SlotsPerEpoch
           q == a \div n
           r == b \div n
<1>0. n \in Nat \ {0} BY SlotsAssumption
<1> HIDE DEF n
<1>1. q \in Int /\ r \in Int BY <1>0
<1>2. n * q <= a /\ a < n * q + n BY <1>0
<1>3. n * r <= b /\ b < n * r + n BY <1>0
<1> HIDE DEF q, r
<1>4. q >= 0 /\ r >= 0
  <2>1. ASSUME NEW z \in Int, z <= -1 PROVE n * z + n <= 0 BY <1>0, <2>1
  <2> QED BY <1>0, <1>1, <1>2, <1>3, <2>1
<1>5. q <= r
  <2> SUFFICES ASSUME r + 1 <= q PROVE FALSE BY <1>1
  <2>1. PICK c \in Nat : q = r + 1 + c
    <3>1. q - r - 1 \in Nat /\ q = r + 1 + (q - r - 1) BY <1>1
    <3> QED BY <3>1
  <2>2. n * q = n * r + n + n * c BY <1>0, <1>1, <2>1
  <2>3. n * c >= 0 /\ n * q \in Int /\ n * r \in Int /\ n * c \in Int BY <1>0, <1>1
  <2> QED BY <1>0, <1>2, <1>3, <2>2, <2>3
<1> QED BY <1>1, <1>4, <1>5 DEF ComputeEpochAtSlot, n, q, r

\* A slot up to the start of an epoch is in an earlier epoch, or is that start.
LEMMA UpToStart ==
    ASSUME NEW s \in Nat, NEW e \in Nat, s <= ComputeStartSlotAtEpoch(e)
    PROVE  /\ ComputeEpochAtSlot(s) <= e
           /\ ComputeEpochAtSlot(s) = e => s = ComputeStartSlotAtEpoch(e)
<1> DEFINE n == SlotsPerEpoch
           q == s \div n
<1>0. n \in Nat \ {0} BY SlotsAssumption
<1>1. q \in Nat BY EpochsGrow DEF ComputeEpochAtSlot
<1>2. ComputeStartSlotAtEpoch(e) = n * e BY <1>0 DEF ComputeStartSlotAtEpoch
<1> HIDE DEF n
<1>3. n * q <= s BY <1>0
<1> HIDE DEF q
<1>4. q <= e
  <2> SUFFICES ASSUME e + 1 <= q PROVE FALSE BY <1>1
  <2>1. PICK c \in Nat : q = e + 1 + c
    <3>1. q - e - 1 \in Nat /\ q = e + 1 + (q - e - 1) BY <1>1
    <3> QED BY <3>1
  <2>2. n * q = n * e + n + n * c BY <1>0, <1>1, <2>1
  <2>3. n * c >= 0 /\ n * q \in Int /\ n * e \in Int /\ n * c \in Int BY <1>0, <1>1
  <2> QED BY <1>0, <1>2, <1>3, <2>2, <2>3
<1>5. q = e => s = n * e
  <2> SUFFICES ASSUME q = e PROVE s = n * e OBVIOUS
  <2>1. n * e <= s /\ s <= n * e /\ n * e \in Int BY <1>0, <1>2, <1>3
  <2> QED BY <2>1
<1> QED BY <1>2, <1>4, <1>5 DEF ComputeEpochAtSlot, q, n

LEMMA StartsGrow ==
    ASSUME NEW a \in Nat, NEW b \in Nat, a <= b
    PROVE  /\ ComputeStartSlotAtEpoch(a) \in Nat /\ ComputeStartSlotAtEpoch(b) \in Nat
           /\ ComputeStartSlotAtEpoch(a) <= ComputeStartSlotAtEpoch(b)
<1> DEFINE n == SlotsPerEpoch
<1>0. n \in Nat BY SlotsAssumption
<1> HIDE DEF n
<1>1. PICK c \in Nat : b = a + c
  <2>1. b - a \in Nat /\ b = a + (b - a) OBVIOUS
  <2> QED BY <2>1
<1>2. b * n = a * n + c * n BY <1>0, <1>1
<1>3. a * n \in Nat /\ b * n \in Nat /\ c * n \in Nat BY <1>0
<1>4. a * n <= b * n BY <1>2, <1>3
<1> QED BY <1>3, <1>4 DEF ComputeStartSlotAtEpoch, n

LEMMA EpochsAreNat == Epochs \subseteq Nat BY DEF Epochs

\* A slot is after the starts of earlier epochs and before those of later ones.
LEMMA BeforeStart ==
    ASSUME NEW s \in Nat, NEW e \in Nat
    PROVE  /\ ComputeEpochAtSlot(s) < e => s <= ComputeStartSlotAtEpoch(e)
           /\ e < ComputeEpochAtSlot(s) => ComputeStartSlotAtEpoch(e) < s
<1> DEFINE n == SlotsPerEpoch
           q == s \div n
<1>0. n \in Nat \ {0} BY SlotsAssumption
<1>1. q \in Nat BY EpochsGrow DEF ComputeEpochAtSlot
<1>2. ComputeStartSlotAtEpoch(e) = n * e BY <1>0 DEF ComputeStartSlotAtEpoch
<1> HIDE DEF n
<1>3. n * q <= s /\ s < n * q + n BY <1>0
<1> HIDE DEF q
<1>4. ASSUME q < e PROVE s <= n * e
  <2>1. PICK c \in Nat : e = q + 1 + c
    <3>1. e - q - 1 \in Nat /\ e = q + 1 + (e - q - 1) BY <1>1, <1>4
    <3> QED BY <3>1
  <2>2. n * e = n * q + n + n * c BY <1>0, <1>1, <2>1
  <2>3. n * c >= 0 /\ n * q \in Int /\ n * e \in Int /\ n * c \in Int BY <1>0, <1>1
  <2> QED BY <1>0, <1>3, <2>2, <2>3
<1>5. ASSUME e < q PROVE n * e < s
  <2>1. PICK c \in Nat : q = e + 1 + c
    <3>1. q - e - 1 \in Nat /\ q = e + 1 + (q - e - 1) BY <1>1, <1>5
    <3> QED BY <3>1
  <2>2. n * q = n * e + n + n * c BY <1>0, <1>1, <2>1
  <2>3. n * c >= 0 /\ n * q \in Int /\ n * e \in Int /\ n * c \in Int BY <1>0, <1>1
  <2> QED BY <1>0, <1>3, <2>2, <2>3
<1> QED BY <1>2, <1>4, <1>5 DEF ComputeEpochAtSlot, q, n

LEMMA SlotsAreInEpochs ==
    ASSUME NEW slot \in Slots
    PROVE  slot \in Nat /\ ComputeEpochAtSlot(slot) \in Epochs /\ Epochs \subseteq Nat
<1>1. slot \in Nat /\ MaxSlot \in Nat /\ slot <= MaxSlot BY SlotsAssumption DEF Slots
<1>2. /\ ComputeEpochAtSlot(slot) \in Nat /\ ComputeEpochAtSlot(MaxSlot) \in Nat
      /\ ComputeEpochAtSlot(slot) <= ComputeEpochAtSlot(MaxSlot)
  BY <1>1, EpochsGrow
<1> HIDE DEF ComputeEpochAtSlot
<1> QED BY <1>1, <1>2 DEF Epochs

-----------------------------------------------------------------------------
(* The post state of a block on its parent's. *)

\* s is the state after block root at this slot on top of parent, whose state is pre: what the
\* block adds to the chain's roots are those from its own slot on.
PostOf(s, pre, root, parent, slot) ==
    /\ DOMAIN s = StateFields /\ s.slot = slot /\ s.parentRoot = parent
    /\ CheckpointsBefore(s, ComputeEpochAtSlot(slot))
    /\ \A e \in Epochs : e < ComputeEpochAtSlot(slot) => s.blockRoots[e] = pre.blockRoots[e]
    /\ \A e \in Epochs : \/ s.blockRoots[e] = pre.blockRoots[e]
                         \/ s.blockRoots[e] = root /\ slot <= ComputeStartSlotAtEpoch(e)
    /\ \A e \in Epochs : slot <= ComputeStartSlotAtEpoch(e) => s.blockRoots[e] = root

LEMMA PostStateIsPost ==
    ASSUME NEW root, NEW parent, NEW slot \in Slots, NEW pt, NEW ct,
           states[parent].slot \in Nat, slot > states[parent].slot,
           DOMAIN states[parent] = StateFields,
           CheckpointsBefore(states[parent], ComputeEpochAtSlot(states[parent].slot))
    PROVE  PostOf(PostState(root, parent, slot, pt, ct), states[parent], root, parent, slot)
<1> DEFINE pre == states[parent]
           epoch == ComputeEpochAtSlot(slot)
           t == EpochsEnded(pre, epoch, pt, ct)
           keeps(e) == e < epoch \/ (e = epoch /\ slot # ComputeStartSlotAtEpoch(epoch))
           br == [e \in Epochs |-> IF keeps(e) THEN t.blockRoots[e] ELSE root]
           s == PostState(root, parent, slot, pt, ct)
<1>1. slot \in Nat /\ epoch \in Epochs /\ Epochs \subseteq Nat BY SlotsAreInEpochs
<1>2. ComputeEpochAtSlot(pre.slot) \in 0..epoch
  <2>1. ComputeEpochAtSlot(pre.slot) \in Nat /\ ComputeEpochAtSlot(pre.slot) <= epoch
    BY <1>1, EpochsGrow
  <2> HIDE DEF epoch
  <2> QED BY <1>1, <2>1
<1>3. StateBefore(pre, pre.blockRoots, ComputeEpochAtSlot(pre.slot)) BY DEF StateBefore
<1>4. StateBefore(t, pre.blockRoots, epoch)
  <2> HIDE DEF epoch, pre
  <2> QED BY <1>1, <1>2, <1>3, EndedKeepsChain
<1>5. DOMAIN t = StateFields /\ t.blockRoots = pre.blockRoots /\ CheckpointsBefore(t, epoch)
  BY <1>4 DEF StateBefore
<1>6. s = [t EXCEPT !.slot = slot, !.parentRoot = parent, !.blockRoots = br] BY DEF PostState
<1> HIDE DEF s, t, pre
<1>7. /\ DOMAIN s = StateFields /\ s.slot = slot /\ s.parentRoot = parent
      /\ s.previousJustified = t.previousJustified /\ s.currentJustified = t.currentJustified
      /\ s.finalized = t.finalized /\ s.blockRoots = br
  <2> HIDE DEF br
  <2> QED BY <1>5, <1>6 DEF StateFields
<1>8. \A e \in Epochs : s.blockRoots[e] = IF keeps(e) THEN pre.blockRoots[e] ELSE root BY <1>5, <1>7
<1>9. \A e \in Epochs : e < epoch => s.blockRoots[e] = pre.blockRoots[e] BY <1>8
<1>10. \A e \in Epochs : slot <= ComputeStartSlotAtEpoch(e) => s.blockRoots[e] = root
  <2> SUFFICES ASSUME NEW e \in Epochs, slot <= ComputeStartSlotAtEpoch(e)
               PROVE  s.blockRoots[e] = root
    OBVIOUS
  <2>1. epoch <= e /\ (epoch = e => slot = ComputeStartSlotAtEpoch(e)) BY <1>1, UpToStart
  <2>2. epoch \in Nat /\ e \in Nat BY <1>1
  <2>3. ~keeps(e)
    <3> HIDE DEF epoch
    <3> QED BY <2>1, <2>2
  <2> QED BY <1>8, <2>3
<1>11. \A e \in Epochs : \/ s.blockRoots[e] = pre.blockRoots[e]
                         \/ s.blockRoots[e] = root /\ slot <= ComputeStartSlotAtEpoch(e)
  <2> SUFFICES ASSUME NEW e \in Epochs, ~keeps(e) PROVE slot <= ComputeStartSlotAtEpoch(e)
    BY <1>8
  <2>1. epoch \in Nat /\ e \in Nat BY <1>1
  <2>2. epoch < e \/ (e = epoch /\ slot = ComputeStartSlotAtEpoch(e))
    <3> HIDE DEF epoch
    <3> QED BY <2>1
  <2>3. epoch < e => slot <= ComputeStartSlotAtEpoch(e) BY <1>1, <2>1, BeforeStart
  <2> QED BY <1>1, <2>2, <2>3
<1>12. CheckpointsBefore(s, epoch)
  <2> SUFFICES ASSUME NEW c \in {t.previousJustified, t.currentJustified, t.finalized}
               PROVE  c.epoch \in Nat /\ (c.epoch = 0 \/ (c.epoch < epoch /\ c.root = s.blockRoots[c.epoch]))
    BY <1>7 DEF CheckpointsBefore
  <2>1. c.epoch \in Nat /\ (c.epoch = 0 \/ (c.epoch < epoch /\ c.root = pre.blockRoots[c.epoch]))
    BY <1>5 DEF CheckpointsBefore
  <2>2. c.epoch < epoch => c.epoch \in Epochs
    <3>1. epoch \in 0..ComputeEpochAtSlot(MaxSlot) BY <1>1 DEF Epochs
    <3>2. ComputeEpochAtSlot(MaxSlot) \in Nat BY SlotsAssumption, EpochsGrow
    <3> HIDE DEF epoch
    <3> QED BY <2>1, <3>1, <3>2 DEF Epochs
  <2> QED BY <1>9, <2>1, <2>2
<1>13. PostOf(s, pre, root, parent, slot)
  BY <1>7, <1>9, <1>10, <1>11, <1>12 DEF PostOf
<1> QED BY <1>13 DEF s, pre

-----------------------------------------------------------------------------
(* The states and the proto array together. *)

\* Every imported block's state follows its parent's.
ChainState(st, r) ==
    /\ r \in Roots \union {GenesisRoot}
    /\ DOMAIN st[r] = StateFields /\ st[r].slot \in Nat /\ st[r].finalized.epoch \in Epochs
    /\ CheckpointsBefore(st[r], ComputeEpochAtSlot(st[r].slot))
    /\ st[r].parentRoot \in DOMAIN st \union {HEX_ZERO_HASH}
    /\ r # GenesisRoot =>
         /\ st[r].parentRoot \in DOMAIN st
         /\ \A e \in Epochs : e < ComputeEpochAtSlot(st[r].slot) =>
               st[r].blockRoots[e] = st[st[r].parentRoot].blockRoots[e]

ChainStates(st) == \A r \in DOMAIN st : ChainState(st, r)

\* Where a chain passes a block, its roots of later epochs descend from that block.
RootsOnChain(pa, st) ==
    \A b \in DOMAIN pa.indices, a \in DOMAIN pa.indices, e \in Epochs :
        DescendsIn(pa, b, a) /\ st[a].slot <= ComputeStartSlotAtEpoch(e) =>
            DescendsIn(pa, st[b].blockRoots[e], a)

\* The proto array holds imported blocks, and with a block all that was imported on top of it.
Tree(pa, st) ==
    /\ Forest(pa)
    /\ \A r \in DOMAIN pa.indices : /\ r \in DOMAIN st
                                    /\ GetNode(pa, r).slot = st[r].slot
                                    /\ ParentRootIn(pa, r) = st[r].parentRoot
    /\ \A r \in DOMAIN st : st[r].parentRoot \in DOMAIN pa.indices => r \in DOMAIN pa.indices
    /\ RootsOnChain(pa, st)

LEMMA TreeSeenTheSame ==
    ASSUME NEW pa, NEW st, Tree(pa, st), NEW q, SameView(q, pa)
    PROVE  Tree(q, st)
<1>1. /\ Forest(q) /\ DOMAIN q.indices = DOMAIN pa.indices
      /\ \A r \in DOMAIN pa.indices : /\ GetNode(q, r).slot = GetNode(pa, r).slot
                                      /\ ParentRootIn(q, r) = ParentRootIn(pa, r)
  BY DEF SameView
<1>2. \A b \in DOMAIN pa.indices, a \in DOMAIN pa.indices : DescendsIn(q, b, a) <=> DescendsIn(pa, b, a)
  BY DEF SameView
<1>3. RootsOnChain(q, st)
  <2> SUFFICES ASSUME NEW b \in DOMAIN pa.indices, NEW a \in DOMAIN pa.indices, NEW e \in Epochs,
                      DescendsIn(q, b, a), st[a].slot <= ComputeStartSlotAtEpoch(e)
               PROVE  DescendsIn(q, st[b].blockRoots[e], a)
    BY <1>1 DEF RootsOnChain
  <2>1. DescendsIn(pa, st[b].blockRoots[e], a) BY <1>2 DEF Tree, RootsOnChain
  <2>2. st[b].blockRoots[e] \in DOMAIN pa.indices BY <2>1, DescendsUpwards DEF Tree
  <2> QED BY <1>2, <2>1, <2>2
<1> QED BY <1>1, <1>3 DEF Tree

LEMMA TreePruned ==
    ASSUME NEW pa, NEW st, Tree(pa, st), NEW q, LeftOf(q, pa)
    PROVE  Tree(q, st)
<1>1. /\ Forest(q) /\ DOMAIN q.indices \subseteq DOMAIN pa.indices
      /\ \A r \in DOMAIN q.indices : /\ GetNode(q, r).slot = GetNode(pa, r).slot
                                     /\ ParentRootIn(q, r) = ParentRootIn(pa, r)
  BY DEF LeftOf
<1>2. \A b \in DOMAIN pa.indices, a \in DOMAIN q.indices :
          DescendsIn(pa, b, a) <=> b \in DOMAIN q.indices /\ DescendsIn(q, b, a)
  BY DEF LeftOf
<1>3. RootsOnChain(q, st)
  <2> SUFFICES ASSUME NEW b \in DOMAIN q.indices, NEW a \in DOMAIN q.indices, NEW e \in Epochs,
                      DescendsIn(q, b, a), st[a].slot <= ComputeStartSlotAtEpoch(e)
               PROVE  DescendsIn(q, st[b].blockRoots[e], a)
    BY <1>1 DEF RootsOnChain
  <2>0. a \in DOMAIN pa.indices /\ b \in DOMAIN pa.indices BY <1>1
  <2>3. DescendsIn(pa, b, a) BY <1>2, <2>0
  <2>1. DescendsIn(pa, st[b].blockRoots[e], a) BY <2>0, <2>3 DEF Tree, RootsOnChain
  <2>2. st[b].blockRoots[e] \in DOMAIN pa.indices BY <2>1, DescendsUpwards DEF Tree
  <2> QED BY <1>2, <2>1, <2>2
<1>4. \A r \in DOMAIN q.indices : /\ r \in DOMAIN st
                                  /\ GetNode(q, r).slot = st[r].slot
                                  /\ ParentRootIn(q, r) = st[r].parentRoot
  BY <1>1 DEF Tree
<1>5. ASSUME NEW r \in DOMAIN st, st[r].parentRoot \in DOMAIN q.indices PROVE r \in DOMAIN q.indices
  <2>1. r \in DOMAIN pa.indices BY <1>1, <1>5 DEF Tree
  <2>2. ParentRootIn(pa, r) = st[r].parentRoot BY <2>1 DEF Tree
  <2> QED BY <1>5, <2>1, <2>2 DEF LeftOf
<1> QED BY <1>1, <1>3, <1>4, <1>5 DEF Tree

LEMMA StatesGrow ==
    ASSUME NEW st, ChainStates(st), NEW root \in Roots, root \notin DOMAIN st,
           NEW parent \in DOMAIN st, NEW slot \in Nat, NEW s,
           PostOf(s, st[parent], root, parent, slot), s.finalized.epoch \in Epochs
    PROVE  ChainStates(WithState(st, root, s))
<1> DEFINE t == WithState(st, root, s)
<1>1. /\ DOMAIN t = DOMAIN st \union {root} /\ t[root] = s
      /\ \A r \in DOMAIN st : t[r] = st[r]
  BY DEF WithState
<1> HIDE DEF t
<1>2. /\ DOMAIN s = StateFields /\ s.slot = slot /\ s.parentRoot = parent
      /\ CheckpointsBefore(s, ComputeEpochAtSlot(slot))
      /\ \A e \in Epochs : e < ComputeEpochAtSlot(slot) => s.blockRoots[e] = st[parent].blockRoots[e]
  BY DEF PostOf
<1>3. ChainState(t, root)
  <2>1. t[t[root].parentRoot] = st[parent] /\ parent \in DOMAIN t BY <1>1, <1>2
  <2> QED BY <1>1, <1>2, <2>1 DEF ChainState
<1>4. ASSUME NEW r \in DOMAIN st PROVE ChainState(t, r)
  <2>1. ChainState(st, r) BY DEF ChainStates
  <2>2. t[r] = st[r] /\ DOMAIN st \subseteq DOMAIN t BY <1>1
  <2>3. st[r].parentRoot \in DOMAIN st => t[st[r].parentRoot] = st[st[r].parentRoot] BY <1>1
  <2> QED BY <2>1, <2>2, <2>3 DEF ChainState
<1>5. ChainStates(t) BY <1>1, <1>3, <1>4 DEF ChainStates
<1> QED BY <1>5 DEF t

LEMMA TreeGrows ==
    ASSUME NEW st, ChainStates(st), NEW pa, Tree(pa, st), NEW root, root \notin DOMAIN st,
           root # HEX_ZERO_HASH,
           NEW parent \in DOMAIN pa.indices, NEW slot \in Nat, NEW s,
           PostOf(s, st[parent], root, parent, slot), NEW q, Extends(q, pa, root, slot, parent)
    PROVE  Tree(q, WithState(st, root, s))
<1> DEFINE t == WithState(st, root, s)
           Known0 == DOMAIN pa.indices
<1>1. /\ DOMAIN t = DOMAIN st \union {root} /\ t[root] = s
      /\ \A r \in DOMAIN st : t[r] = st[r]
  BY DEF WithState
<1> HIDE DEF t
<1>2. /\ s.slot = slot /\ s.parentRoot = parent
      /\ \A e \in Epochs : s.blockRoots[e] = root \/ s.blockRoots[e] = st[parent].blockRoots[e]
      /\ \A e \in Epochs : slot <= ComputeStartSlotAtEpoch(e) => s.blockRoots[e] = root
  BY DEF PostOf
<1>3. /\ Forest(q) /\ DOMAIN q.indices = Known0 \union {root}
      /\ \A r \in Known0 : /\ GetNode(q, r).slot = GetNode(pa, r).slot
                           /\ ParentRootIn(q, r) = ParentRootIn(pa, r)
      /\ GetNode(q, root).slot = slot /\ ParentRootIn(q, root) = parent
  BY DEF Extends
<1>4. \A b \in Known0, a \in Known0 : DescendsIn(q, b, a) <=> DescendsIn(pa, b, a) BY DEF Extends
<1>5. \A b \in Known0 : ~DescendsIn(q, b, root) BY DEF Extends
<1>6. /\ Forest(pa) /\ RootsOnChain(pa, st)
      /\ \A r \in Known0 : /\ r \in DOMAIN st /\ r # root
                           /\ GetNode(pa, r).slot = st[r].slot /\ ParentRootIn(pa, r) = st[r].parentRoot
      /\ \A r \in DOMAIN st : st[r].parentRoot \in Known0 => r \in Known0
  BY DEF Tree
<1> HIDE DEF Known0
<1>0. parent \in Known0 BY DEF Known0
<1>7. ASSUME NEW r \in DOMAIN q.indices
      PROVE  r \in DOMAIN t /\ GetNode(q, r).slot = t[r].slot /\ ParentRootIn(q, r) = t[r].parentRoot
  <2>1. CASE r = root BY <1>1, <1>2, <1>3, <2>1
  <2>2. CASE r \in Known0 BY <1>1, <1>3, <1>6, <2>2
  <2> QED BY <1>3, <2>1, <2>2
<1>8. ASSUME NEW r \in DOMAIN t, t[r].parentRoot \in DOMAIN q.indices PROVE r \in DOMAIN q.indices
  <2>1. CASE r = root BY <1>3, <2>1
  <2>2. CASE r # root
    <3>1. r \in DOMAIN st /\ t[r] = st[r] BY <1>1, <2>2
    <3>2. st[r].parentRoot # root BY <3>1 DEF ChainStates, ChainState
    <3>3. st[r].parentRoot \in Known0 BY <1>3, <1>8, <3>1, <3>2
    <3> QED BY <1>3, <1>6, <3>1, <3>3
  <2> QED BY <2>1, <2>2
<1>9. \A e \in Epochs : \A b \in Known0, a \in Known0 :
          DescendsIn(q, b, a) /\ st[a].slot <= ComputeStartSlotAtEpoch(e) =>
            DescendsIn(q, st[b].blockRoots[e], a)
  <2> SUFFICES ASSUME NEW e \in Epochs, NEW b \in Known0, NEW a \in Known0,
                      DescendsIn(q, b, a), st[a].slot <= ComputeStartSlotAtEpoch(e)
               PROVE  DescendsIn(q, st[b].blockRoots[e], a)
    OBVIOUS
  <2>1. DescendsIn(pa, b, a) BY <1>4
  <2>2. DescendsIn(pa, st[b].blockRoots[e], a) BY <1>6, <2>1 DEF RootsOnChain, Known0
  <2>3. st[b].blockRoots[e] \in Known0 BY <1>6, <2>2, DescendsUpwards DEF Known0
  <2> QED BY <1>4, <2>2, <2>3
<1>10. ASSUME NEW b \in DOMAIN q.indices, NEW a \in DOMAIN q.indices, NEW e \in Epochs,
              DescendsIn(q, b, a), t[a].slot <= ComputeStartSlotAtEpoch(e)
       PROVE  DescendsIn(q, t[b].blockRoots[e], a)
  <2>1. CASE a = root
    <3>1. b = root BY <1>3, <1>5, <1>10, <2>1
    <3>2. t[b].blockRoots[e] = root BY <1>1, <1>2, <1>10, <2>1, <3>1
    <3> QED BY <1>10, <2>1, <3>1, <3>2
  <2>2. CASE a # root /\ b # root
    <3>1. a \in Known0 /\ b \in Known0 BY <1>3, <2>2
    <3>2. t[a] = st[a] /\ t[b] = st[b] BY <1>1, <1>6, <3>1
    <3> QED BY <1>9, <1>10, <3>1, <3>2
  <2>3. CASE a # root /\ b = root
    <3>1. a \in Known0 /\ t[a] = st[a] /\ t[b] = s BY <1>1, <1>3, <1>6, <2>3
    <3>2. DescendsIn(q, parent, a) BY <1>3, <1>10, <2>3, DescendsByParents
    <3>3. DescendsIn(q, st[parent].blockRoots[e], a) BY <1>0, <1>9, <1>10, <3>1, <3>2
    <3>4. s.blockRoots[e] = root \/ s.blockRoots[e] = st[parent].blockRoots[e] BY <1>2
    <3>5. DescendsIn(q, root, a) BY <1>10, <2>3
    <3> QED BY <3>1, <3>3, <3>4, <3>5
  <2> QED BY <2>1, <2>2, <2>3
<1>11. RootsOnChain(q, t) BY <1>10 DEF RootsOnChain
<1>12. Tree(q, t) BY <1>3, <1>7, <1>8, <1>11 DEF Tree
<1> QED BY <1>12 DEF t

\* The later checkpoints of a state whose chain passes the finalized block descend from that block.
LEMMA CheckpointOnChain ==
    ASSUME NEW pa, NEW st, ChainStates(st), Tree(pa, st), NEW fin, fin.epoch \in Nat, fin.root # Undefined,
           NEW parent, GetAncestor(pa, parent, ComputeStartSlotAtEpoch(fin.epoch)) = fin.root,
           NEW c, c.epoch \in Epochs, c.epoch > fin.epoch, c.root = st[parent].blockRoots[c.epoch]
    PROVE  DescendsIn(pa, c.root, fin.root)
<1> DEFINE e == c.epoch
<1>1. Forest(pa) BY DEF Tree
<1>2. DescendsIn(pa, parent, fin.root) /\ GetNode(pa, fin.root).slot <= ComputeStartSlotAtEpoch(fin.epoch)
  BY <1>1, AncestorIsUp
<1>3. fin.root \in DOMAIN pa.indices /\ parent \in DOMAIN pa.indices BY <1>1, <1>2, DescendsUpwards
<1>4. GetNode(pa, fin.root).slot = st[fin.root].slot BY <1>3 DEF Tree
<1>5. e \in Nat /\ c.root = st[parent].blockRoots[e] BY EpochsAreNat
<1>8. fin.epoch <= e BY <1>5
<1>9. /\ ComputeStartSlotAtEpoch(fin.epoch) \in Nat /\ ComputeStartSlotAtEpoch(e) \in Nat
      /\ ComputeStartSlotAtEpoch(fin.epoch) <= ComputeStartSlotAtEpoch(e)
  BY <1>5, <1>8, StartsGrow
<1>10. st[fin.root].slot \in Nat BY <1>3 DEF Tree, ChainStates, ChainState
<1>11. st[fin.root].slot <= ComputeStartSlotAtEpoch(e) BY <1>2, <1>4, <1>9, <1>10
<1> HIDE DEF e
<1>12. e \in Epochs BY DEF e
<1> QED BY <1>2, <1>3, <1>5, <1>11, <1>12 DEF Tree, RootsOnChain

-----------------------------------------------------------------------------
(* The methods of the fork choice. *)

StoreFields == {"currentSlot", "justifiedCheckpoint", "bestJustifiedCheckpoint", "finalizedCheckpoint",
                "justifiedBalances", "bestJustifiedBalances", "votes", "queuedAttestations",
                "synced", "head", "protoArray"}

\* g differs from f in neither the finalized checkpoint nor the proto array.
Keeps(g, f) ==
    /\ DOMAIN g = StoreFields
    /\ g.finalizedCheckpoint = f.finalizedCheckpoint /\ g.protoArray = f.protoArray

\* Nor in the justified checkpoints.
KeepsJustified(g, f) ==
    /\ g.justifiedCheckpoint = f.justifiedCheckpoint
    /\ g.bestJustifiedCheckpoint = f.bestJustifiedCheckpoint

LEMMA BestJustifiedKeeps ==
    ASSUME NEW f, DOMAIN f = StoreFields, NEW c, NEW b
    PROVE  Keeps(UpdateBestJustified(f, c, b), f)
BY DEF UpdateBestJustified, Keeps, StoreFields

LEMMA JustifiedKeeps ==
    ASSUME NEW f, DOMAIN f = StoreFields, NEW c, NEW b
    PROVE  Keeps(UpdateJustified(f, c, b), f)
BY DEF UpdateJustified, Keeps, StoreFields

LEMMA TickKeeps ==
    ASSUME NEW f, DOMAIN f = StoreFields
    PROVE  Keeps(OnTick(f), f)
<1> DEFINE t == [f EXCEPT !.currentSlot = @ + 1]
<1>1. Keeps(t, f) BY DEF Keeps, StoreFields
<1>2. OnTick(f) \in {t, UpdateJustified(t, f.bestJustifiedCheckpoint, f.bestJustifiedBalances)}
  BY DEF OnTick
<1> HIDE DEF t
<1>3. Keeps(UpdateJustified(t, f.bestJustifiedCheckpoint, f.bestJustifiedBalances), t)
  BY <1>1, JustifiedKeeps DEF Keeps
<1> QED BY <1>1, <1>2, <1>3 DEF Keeps

LEMMA QueueKeeps ==
    ASSUME NEW f, DOMAIN f = StoreFields
    PROVE  Keeps(ProcessAttestationQueue(f), f) /\ KeepsJustified(ProcessAttestationQueue(f), f)
<1> DEFINE g == ProcessAttestationQueue(f)
<1>1. \E x, y, z : g = [f EXCEPT !.queuedAttestations = x, !.synced = y, !.votes = z]
  <2> DEFINE due == {a \in f.queuedAttestations : a.slot <= f.currentSlot}
             x == f.queuedAttestations \ due
             y == f.synced /\ due = {}
             z == FoldLeft(LatestMessage, f.votes, SetToSeq(due))
  <2>1. g = [f EXCEPT !.queuedAttestations = x, !.synced = y, !.votes = z]
    BY DEF ProcessAttestationQueue, StoreFields
  <2> HIDE DEF x, y, z, g
  <2> QED BY <2>1
<1>2. PICK x, y, z : g = [f EXCEPT !.queuedAttestations = x, !.synced = y, !.votes = z] BY <1>1
<1> HIDE DEF g
<1>3. Keeps(g, f) /\ KeepsJustified(g, f) BY <1>2 DEF Keeps, KeepsJustified, StoreFields
<1> QED BY <1>3 DEF g

LEMMA AttestationKeeps ==
    ASSUME NEW f, DOMAIN f = StoreFields, NEW a
    PROVE  Keeps(OnAttestation(f, a), f) /\ KeepsJustified(OnAttestation(f, a), f)
<1> DEFINE added == AddLatestMessage(f, a)
           queued == [f EXCEPT !.queuedAttestations = @ \union {a}]
<1>1. Keeps(added, f) /\ KeepsJustified(added, f)
  BY DEF AddLatestMessage, Keeps, KeepsJustified, StoreFields
<1>2. Keeps(queued, f) /\ KeepsJustified(queued, f) BY DEF Keeps, KeepsJustified, StoreFields
<1> QED BY <1>1, <1>2 DEF OnAttestation

LEMMA HeadKeepsBlocks ==
    ASSUME NEW f, DOMAIN f = StoreFields, Forest(f.protoArray)
    PROVE  /\ DOMAIN UpdateHead(f) = StoreFields
           /\ UpdateHead(f).finalizedCheckpoint = f.finalizedCheckpoint
           /\ KeepsJustified(UpdateHead(f), f)
           /\ SameBlocks(UpdateHead(f).protoArray, f.protoArray)
<1> DEFINE deltas == ComputeDeltas(f.protoArray.indices, f.votes, f.justifiedBalances, f.justifiedBalances)
           scored == ApplyScoreChanges(f.protoArray, deltas, f.justifiedCheckpoint.epoch,
                                       f.finalizedCheckpoint.epoch)
           voted == VotesApplied(f.votes)
           applied == [f EXCEPT !.protoArray = scored, !.votes = voted, !.synced = TRUE]
           g == UpdateHead(f)
<1>1. SameBlocks(scored, f.protoArray)
  <2> HIDE DEF deltas
  <2> QED BY ScoresKeepBlocks
<1>2. \E h : g = [IF f.synced THEN f ELSE applied EXCEPT !.head = h]
  <2> DEFINE start == IF f.synced THEN f ELSE applied
             found == FindHead(start.protoArray, f.justifiedCheckpoint.root)
             h == IF found = Undefined THEN start.head ELSE found
  <2>1. g = [start EXCEPT !.head = h] BY DEF UpdateHead, StoreFields
  <2> HIDE DEF h, g
  <2> QED BY <2>1
<1>3. PICK h : g = [IF f.synced THEN f ELSE applied EXCEPT !.head = h] BY <1>2
<1> HIDE DEF g, scored, voted, deltas
<1>4. /\ DOMAIN applied = StoreFields /\ applied.finalizedCheckpoint = f.finalizedCheckpoint
      /\ KeepsJustified(applied, f) /\ applied.protoArray = scored
  BY DEF StoreFields, KeepsJustified
<1> HIDE DEF applied
<1>5. CASE f.synced
  <2>1. g = [f EXCEPT !.head = h] BY <1>3, <1>5
  <2>2. /\ DOMAIN g = StoreFields /\ g.finalizedCheckpoint = f.finalizedCheckpoint
        /\ KeepsJustified(g, f) /\ g.protoArray = f.protoArray
    BY <2>1 DEF StoreFields, KeepsJustified
  <2>3. SameBlocks(g.protoArray, f.protoArray) BY <2>2, SameBlocksRefl
  <2> QED BY <2>2, <2>3 DEF g
<1>6. CASE ~f.synced
  <2>1. g = [applied EXCEPT !.head = h] BY <1>3, <1>6
  <2>2. /\ DOMAIN g = StoreFields /\ g.finalizedCheckpoint = f.finalizedCheckpoint
        /\ KeepsJustified(g, f) /\ g.protoArray = scored
    BY <1>4, <2>1 DEF StoreFields, KeepsJustified
  <2> QED BY <1>1, <2>2 DEF g
<1> QED BY <1>5, <1>6

\* onBlock adds the block or leaves the array, and finalizes what the state does or nothing.
LEMMA OnBlockOutcomes ==
    ASSUME NEW f, DOMAIN f = StoreFields, NEW block, NEW state, NEW balances
    PROVE  /\ DOMAIN OnBlock(f, block, state, balances) = StoreFields
           /\ \/ OnBlock(f, block, state, balances).finalizedCheckpoint = f.finalizedCheckpoint
              \/ /\ state.finalized.epoch > f.finalizedCheckpoint.epoch
                 /\ OnBlock(f, block, state, balances).finalizedCheckpoint = state.finalized
           /\ \/ OnBlock(f, block, state, balances).protoArray = f.protoArray
              \/ OnBlock(f, block, state, balances).protoArray = ProtoOnBlock(f.protoArray, block)
<1> DEFINE g == OnBlock(f, block, state, balances)
           just == state.currentJustified
           best == UpdateBestJustified(f, just, balances)
           FinSet(x) == [x EXCEPT !.finalizedCheckpoint = state.finalized]
           JustSet(x) == UpdateJustified(x, just, balances)
           Added(x) == [x EXCEPT !.protoArray = ProtoOnBlock(x.protoArray, block)]
           A == {f, best}
           B == A \union (IF Finalizes(f, state) THEN {FinSet(x) : x \in A} ELSE {})
           C == B \union {JustSet(x) : x \in B}
           Good(x) == /\ DOMAIN x = StoreFields /\ x.protoArray = f.protoArray
                      /\ \/ x.finalizedCheckpoint = f.finalizedCheckpoint
                         \/ /\ state.finalized.epoch > f.finalizedCheckpoint.epoch
                            /\ x.finalizedCheckpoint = state.finalized
<1>1. g \in B \union {Added(x) : x \in C}
  <2> DEFINE finalizedSlot == ComputeStartSlotAtEpoch(f.finalizedCheckpoint.epoch)
             higher == just.epoch > f.justifiedCheckpoint.epoch
             withBest == IF higher /\ just.epoch > f.bestJustifiedCheckpoint.epoch THEN best ELSE f
             should == IF higher THEN ShouldUpdateJustifiedCheckpoint(withBest, block.slot, just) ELSE "no"
             finalizes == Finalizes(f, state)
             withFinalized == IF finalizes THEN FinSet(withBest) ELSE withBest
             ancestor == GetAncestor(f.protoArray, f.justifiedCheckpoint.root, finalizedSlot)
             update == \/ should = "yes"
                       \/ finalizes /\ (higher \/ ancestor # state.finalized.root)
             withJustified == IF update THEN JustSet(withFinalized) ELSE withFinalized
  <2>1. g = IF should = "throw" THEN withBest
            ELSE IF finalizes /\ ~higher /\ ancestor = Undefined THEN withFinalized
            ELSE Added(withJustified)
    BY DEF OnBlock
  <2>2. withBest \in A
    <3> HIDE DEF best, higher
    <3> QED OBVIOUS
  <2> HIDE DEF withBest
  <2>3. withFinalized \in B
    <3> HIDE DEF FinSet, A
    <3> QED BY <2>2
  <2> HIDE DEF withFinalized
  <2>4. withJustified \in C
    <3> HIDE DEF JustSet, B, update
    <3> QED BY <2>3
  <2>5. withBest \in B
    <3> HIDE DEF FinSet, A
    <3> QED BY <2>2
  <2> HIDE DEF withJustified, should, finalizes, higher, ancestor, Added, B, C, g
  <2> QED BY <2>1, <2>3, <2>4, <2>5
<1>2. \A x \in A : Good(x) /\ x.finalizedCheckpoint = f.finalizedCheckpoint
  <2>1. Keeps(best, f) BY BestJustifiedKeeps
  <2> HIDE DEF best
  <2> QED BY <2>1 DEF Keeps
<1>3. \A x \in B : Good(x)
  <2>1. ASSUME NEW x, Good(x), Finalizes(f, state) PROVE Good(FinSet(x))
    <3>1. state.finalized.epoch > f.finalizedCheckpoint.epoch BY <2>1 DEF Finalizes
    <3> QED BY <2>1, <3>1 DEF StoreFields
  <2> HIDE DEF Good, FinSet, A
  <2> QED BY <1>2, <2>1
<1>4. \A x \in C : Good(x)
  <2>1. ASSUME NEW x, Good(x) PROVE Good(JustSet(x))
    <3>1. Keeps(JustSet(x), x) BY <2>1, JustifiedKeeps
    <3> HIDE DEF JustSet
    <3> QED BY <2>1, <3>1 DEF Keeps
  <2> HIDE DEF Good, JustSet, B
  <2> QED BY <1>3, <2>1
<1>5. ASSUME NEW x, Good(x)
      PROVE  /\ DOMAIN Added(x) = StoreFields /\ Added(x).finalizedCheckpoint = x.finalizedCheckpoint
             /\ Added(x).protoArray = ProtoOnBlock(f.protoArray, block)
  BY <1>5 DEF StoreFields
<1>6. CASE g \in B
  <2>1. Good(g) BY <1>3, <1>6
  <2> QED BY <2>1
<1>7. CASE g \in {Added(x) : x \in C}
  <2>1. PICK x \in C : g = Added(x) BY <1>7
  <2>2. Good(x) BY <1>4, <2>1
  <2>3. /\ DOMAIN g = StoreFields /\ g.finalizedCheckpoint = x.finalizedCheckpoint
        /\ g.protoArray = ProtoOnBlock(f.protoArray, block)
    <3> HIDE DEF Added, Good, g, C
    <3> QED BY <1>5, <2>1, <2>2
  <2> HIDE DEF g, Added, C
  <2>4. \/ x.finalizedCheckpoint = f.finalizedCheckpoint
        \/ /\ state.finalized.epoch > f.finalizedCheckpoint.epoch
           /\ x.finalizedCheckpoint = state.finalized
    BY <2>2
  <2> QED BY <2>3, <2>4 DEF g
<1> HIDE DEF g, B, C, Added
<1> QED BY <1>1, <1>6, <1>7

-----------------------------------------------------------------------------
(* Finality. *)

Store(f, st) ==
    /\ DOMAIN f = StoreFields
    /\ f.finalizedCheckpoint.epoch \in Nat /\ f.finalizedCheckpoint.root # Undefined
    /\ Tree(f.protoArray, st)

\* The inductive invariant.
ChainInv == ChainStates(states) /\ Store(fc, states)

\* What the store has finalized moves only up its chain.
Moves(g, f) ==
    g.finalizedCheckpoint # f.finalizedCheckpoint =>
        /\ g.finalizedCheckpoint.epoch > f.finalizedCheckpoint.epoch
        /\ DescendsIn(f.protoArray, g.finalizedCheckpoint.root, f.finalizedCheckpoint.root)

\* The roots of known blocks are not the zero hash.
LEMMA KnownIsRoot ==
    ASSUME NEW pa, NEW st, ChainStates(st), Tree(pa, st), NEW r \in DOMAIN pa.indices
    PROVE  r # Undefined
<1>1. r \in Roots \union {GenesisRoot} BY DEF Tree, ChainStates, ChainState
<1> QED BY <1>1, RootsAssumption DEF Undefined, HEX_ZERO_HASH, GenesisRoot

\* onBlock for a block on the finalized chain, with a state that follows its parent's.
LEMMA OnBlockMoves ==
    ASSUME NEW f, NEW st, ChainStates(st), Store(f, st), NEW block, AcceptsBlock(f, block),
           NEW s, NEW balances, NEW n, s.finalized.epoch \in Epochs, CheckpointsBefore(s, n),
           \A e \in Epochs : e < n => s.blockRoots[e] = st[block.parentRoot].blockRoots[e]
    PROVE  /\ Moves(OnBlock(f, block, s, balances), f)
           /\ OnBlock(f, block, s, balances).finalizedCheckpoint.epoch \in Nat
           /\ OnBlock(f, block, s, balances).finalizedCheckpoint.root # Undefined
<1> DEFINE g == OnBlock(f, block, s, balances)
           fin == f.finalizedCheckpoint
<1>1. /\ DOMAIN f = StoreFields /\ fin.epoch \in Nat /\ fin.root # Undefined
      /\ Tree(f.protoArray, st)
  BY DEF Store
<1>2. \/ g.finalizedCheckpoint = fin
      \/ s.finalized.epoch > fin.epoch /\ g.finalizedCheckpoint = s.finalized
  BY <1>1, OnBlockOutcomes
<1> HIDE DEF g
<1>3. CASE g.finalizedCheckpoint = fin
  <2>1. Moves(g, f) BY <1>3 DEF Moves
  <2> QED BY <1>1, <1>3, <2>1 DEF g
<1>4. CASE s.finalized.epoch > fin.epoch /\ g.finalizedCheckpoint = s.finalized
  <2>1. GetAncestor(f.protoArray, block.parentRoot, ComputeStartSlotAtEpoch(fin.epoch)) = fin.root
    BY DEF AcceptsBlock
  <2> HIDE DEF fin
  <2>2. DescendsIn(f.protoArray, s.finalized.root, fin.root)
    <3> DEFINE pa == f.protoArray
               parent == block.parentRoot
               c == s.finalized
    <3>1. Tree(pa, st) /\ GetAncestor(pa, parent, ComputeStartSlotAtEpoch(fin.epoch)) = fin.root
      BY <1>1, <2>1
    <3>2. \A e \in Epochs : e < n => s.blockRoots[e] = st[parent].blockRoots[e] OBVIOUS
    <3>3. fin.epoch \in Nat /\ fin.root # Undefined /\ s.finalized.epoch > fin.epoch BY <1>1, <1>4
    <3>4. c.epoch \in Epochs /\ c.epoch > fin.epoch BY <3>3
    <3>5. c.root = st[parent].blockRoots[c.epoch]
      <4>1. c.epoch \in Nat /\ (c.epoch = 0 \/ (c.epoch < n /\ c.root = s.blockRoots[c.epoch]))
        BY DEF CheckpointsBefore
      <4> QED BY <3>2, <3>3, <3>4, <4>1
    <3> HIDE DEF pa, parent, c
    <3>6. DescendsIn(pa, c.root, fin.root) BY <3>1, <3>2, <3>3, <3>4, <3>5, CheckpointOnChain
    <3> QED BY <3>6 DEF pa, c
  <2>3. s.finalized.root \in DOMAIN f.protoArray.indices
    BY <1>1, <2>2, DescendsUpwards DEF Tree
  <2>4. s.finalized.root # Undefined BY <1>1, <2>3, KnownIsRoot
  <2>5. s.finalized.epoch \in Nat BY DEF CheckpointsBefore
  <2>6. Moves(g, f) BY <1>4, <2>2 DEF Moves, fin
  <2> QED BY <1>4, <2>4, <2>5, <2>6 DEF g
<1> QED BY <1>2, <1>3, <1>4

LEMMA HeadKeepsStore ==
    ASSUME NEW f, NEW st, Store(f, st)
    PROVE  Store(UpdateHead(f), st) /\ UpdateHead(f).finalizedCheckpoint = f.finalizedCheckpoint
<1>1. DOMAIN f = StoreFields /\ Tree(f.protoArray, st) /\ Forest(f.protoArray) BY DEF Store, Tree
<1> DEFINE g == UpdateHead(f)
<1>2. /\ DOMAIN g = StoreFields /\ g.finalizedCheckpoint = f.finalizedCheckpoint
      /\ SameBlocks(g.protoArray, f.protoArray)
  BY <1>1, HeadKeepsBlocks
<1> HIDE DEF g
<1>3. Tree(g.protoArray, st) BY <1>1, <1>2, SameBlocksSameView, TreeSeenTheSame
<1>4. Store(g, st) BY <1>2, <1>3 DEF Store
<1> QED BY <1>2, <1>4 DEF g

LEMMA ImportIsSafe ==
    ASSUME ChainInv, NEW root \in Roots, NEW parent \in DOMAIN states, NEW slot \in BlockSlots[root],
           NEW pt, NEW ct, ImportBlock(root, parent, slot, pt, ct)
    PROVE  ChainInv' /\ Moves(fc', fc)
<1> DEFINE s == PostState(root, parent, slot, pt, ct)
           block == ProtoBlock(root, s)
           balances == JustifiedBalances(fc, s)
           g == OnBlock(fc, block, s, balances)
           pa == fc.protoArray
           epoch == ComputeEpochAtSlot(slot)
<1>1. /\ root \notin DOMAIN states /\ slot > states[parent].slot /\ BeaconState(s)
      /\ AcceptsBlock(fc, block)
      /\ fc' = IF HasBlock(g.protoArray, root) THEN UpdateHead(g) ELSE g
      /\ states' = IF HasBlock(g.protoArray, root) THEN WithState(states, root, s) ELSE states
  BY DEF ImportBlock
<1>2. slot \in Slots BY SlotsAssumption
<1>3. slot \in Nat BY <1>2, SlotsAreInEpochs
<1>4. ChainStates(states) /\ ChainState(states, parent) BY DEF ChainInv, ChainStates
<1>5. PostOf(s, states[parent], root, parent, slot)
  <2> HIDE DEF s
  <2> QED BY <1>1, <1>2, <1>4, PostStateIsPost DEF ChainState, s
<1>6. s.finalized.epoch \in Epochs BY <1>1 DEF BeaconState
<1> HIDE DEF s
<1>7. /\ s.slot = slot /\ s.parentRoot = parent /\ CheckpointsBefore(s, epoch)
      /\ \A e \in Epochs : e < epoch => s.blockRoots[e] = states[parent].blockRoots[e]
  BY <1>5 DEF PostOf
<1>8. block.blockRoot = root /\ block.slot = slot /\ block.parentRoot = parent BY <1>7 DEF ProtoBlock
<1> HIDE DEF block, balances
<1>9. parent \in DOMAIN pa.indices BY <1>1, <1>8 DEF AcceptsBlock, HasBlock
<1>10. /\ Store(fc, states) /\ DOMAIN fc = StoreFields /\ Tree(pa, states) /\ Forest(pa)
  BY DEF ChainInv, Store, Tree
<1> HIDE DEF epoch
<1>11. /\ Moves(g, fc) /\ g.finalizedCheckpoint.epoch \in Nat /\ g.finalizedCheckpoint.root # Undefined
  BY <1>1, <1>4, <1>6, <1>7, <1>8, <1>10, OnBlockMoves
<1>12. DOMAIN g = StoreFields /\ (g.protoArray = pa \/ g.protoArray = ProtoOnBlock(pa, block))
  BY <1>10, OnBlockOutcomes
<1>13. ~HasBlock(pa, root) BY <1>1, <1>10 DEF Tree, HasBlock
<1>14. root # HEX_ZERO_HASH BY RootsAssumption
<1>15. \A r \in DOMAIN pa.indices : ParentRootIn(pa, r) # root
  <2> SUFFICES ASSUME NEW r \in DOMAIN pa.indices PROVE ParentRootIn(pa, r) # root OBVIOUS
  <2>1. r \in DOMAIN states /\ ParentRootIn(pa, r) = states[r].parentRoot BY <1>10 DEF Tree
  <2>2. states[r].parentRoot \in DOMAIN states \union {HEX_ZERO_HASH}
    BY <1>4, <2>1 DEF ChainStates, ChainState
  <2> QED BY <1>1, <1>14, <2>1, <2>2
<1>16. parent # root BY <1>1
<1>17. Extends(ProtoOnBlock(pa, block), pa, root, slot, parent)
  BY <1>8, <1>10, <1>13, <1>15, <1>16, OnBlockExtends
<1> HIDE DEF g
<1>18. CASE HasBlock(g.protoArray, root)
  <2>1. g.protoArray = ProtoOnBlock(pa, block) BY <1>12, <1>13, <1>18
  <2>2. Tree(g.protoArray, WithState(states, root, s))
    BY <1>1, <1>3, <1>4, <1>5, <1>9, <1>10, <1>14, <1>17, <2>1, TreeGrows
  <2>3. ChainStates(WithState(states, root, s)) BY <1>1, <1>3, <1>4, <1>5, <1>6, StatesGrow
  <2>4. Store(g, WithState(states, root, s)) BY <1>11, <1>12, <2>2 DEF Store
  <2>5. fc' = UpdateHead(g) /\ states' = WithState(states, root, s) BY <1>1, <1>18
  <2>6. Store(fc', states') /\ fc'.finalizedCheckpoint = g.finalizedCheckpoint
    BY <2>4, <2>5, HeadKeepsStore
  <2>7. Moves(fc', fc) BY <1>11, <2>6 DEF Moves
  <2> QED BY <2>3, <2>5, <2>6, <2>7 DEF ChainInv
<1>19. CASE ~HasBlock(g.protoArray, root)
  <2>1. root \in DOMAIN ProtoOnBlock(pa, block).indices BY <1>17 DEF Extends
  <2>2. g.protoArray = pa BY <1>12, <1>19, <2>1 DEF HasBlock
  <2>3. fc' = g /\ states' = states BY <1>1, <1>19
  <2>4. Store(g, states) BY <1>10, <1>11, <1>12, <2>2 DEF Store
  <2> QED BY <1>4, <1>11, <2>3, <2>4 DEF ChainInv
<1> QED BY <1>18, <1>19

LEMMA ReplayIsSafe ==
    ASSUME ChainInv, NEW root \in DOMAIN states \ {GenesisRoot}, ReplayBlock(root)
    PROVE  ChainInv' /\ Moves(fc', fc)
<1> DEFINE s == states[root]
           block == ProtoBlock(root, s)
           balances == JustifiedBalances(fc, s)
           g == OnBlock(fc, block, s, balances)
           pa == fc.protoArray
           epoch == ComputeEpochAtSlot(s.slot)
<1>1. AcceptsBlock(fc, block) /\ fc' = g /\ states' = states BY DEF ReplayBlock
<1>2. ChainStates(states) /\ ChainState(states, root) BY DEF ChainInv, ChainStates
<1>3. /\ s.finalized.epoch \in Epochs /\ CheckpointsBefore(s, epoch)
      /\ \A e \in Epochs : e < epoch => s.blockRoots[e] = states[s.parentRoot].blockRoots[e]
  BY <1>2 DEF ChainState
<1>4. block.blockRoot = root /\ block.parentRoot = s.parentRoot BY DEF ProtoBlock
<1> HIDE DEF block, balances
<1>5. s.parentRoot \in DOMAIN pa.indices BY <1>1, <1>4 DEF AcceptsBlock, HasBlock
<1>6. Store(fc, states) /\ DOMAIN fc = StoreFields /\ Tree(pa, states) BY DEF ChainInv, Store
<1>7. HasBlock(pa, root) BY <1>5, <1>6 DEF Tree, HasBlock
<1>8. ProtoOnBlock(pa, block) = pa BY <1>4, <1>7 DEF ProtoOnBlock
<1> HIDE DEF epoch, s
<1>9. /\ Moves(g, fc) /\ g.finalizedCheckpoint.epoch \in Nat /\ g.finalizedCheckpoint.root # Undefined
  BY <1>1, <1>2, <1>3, <1>4, <1>6, OnBlockMoves
<1>10. DOMAIN g = StoreFields /\ g.protoArray = pa BY <1>6, <1>8, OnBlockOutcomes
<1> HIDE DEF g
<1>11. Store(g, states) BY <1>6, <1>9, <1>10 DEF Store
<1> QED BY <1>1, <1>2, <1>9, <1>11 DEF ChainInv

\* Attestations and clock slots touch neither the blocks nor the finalized checkpoint.
LEMMA KeepingIsSafe ==
    ASSUME ChainInv, Keeps(fc', fc), UNCHANGED states
    PROVE  ChainInv' /\ Moves(fc', fc)
<1>1. Store(fc', states) BY DEF ChainInv, Store, Keeps
<1>2. Moves(fc', fc) BY DEF Moves, Keeps
<1> QED BY <1>1, <1>2 DEF ChainInv

LEMMA PruneIsSafe ==
    ASSUME ChainInv, NEW checkpoint, Prune(checkpoint)
    PROVE  ChainInv' /\ Moves(fc', fc)
<1> DEFINE q == MaybePrune(fc.protoArray, checkpoint.root)
<1>1. DOMAIN fc = StoreFields /\ Tree(fc.protoArray, states) /\ Forest(fc.protoArray)
  BY DEF ChainInv, Store, Tree
<1>2. fc' = [fc EXCEPT !.protoArray = q] /\ states' = states BY DEF Prune
<1>3. Tree(q, states)
  <2>1. LeftOf(q, fc.protoArray) BY <1>1, PruneLeaves
  <2> HIDE DEF q
  <2> QED BY <1>1, <2>1, TreePruned
<1> HIDE DEF q
<1>4. DOMAIN fc' = StoreFields /\ fc'.finalizedCheckpoint = fc.finalizedCheckpoint /\ fc'.protoArray = q
  BY <1>1, <1>2 DEF StoreFields
<1>5. Store(fc', states) BY <1>3, <1>4 DEF ChainInv, Store
<1>6. Moves(fc', fc) BY <1>4 DEF Moves
<1> QED BY <1>2, <1>5, <1>6 DEF ChainInv

LEMMA NextIsSafe ==
    ASSUME ChainInv, [Next]_vars
    PROVE  ChainInv' /\ Moves(fc', fc)
<1>1. ASSUME NEW root \in Roots, NEW parent \in DOMAIN states, NEW slot \in BlockSlots[root],
             NEW pt \in BOOLEAN, NEW ct \in BOOLEAN, ImportBlock(root, parent, slot, pt, ct)
      PROVE  ChainInv' /\ Moves(fc', fc)
  BY <1>1, ImportIsSafe
<1>2. ASSUME NEW root \in DOMAIN states \ {GenesisRoot}, ReplayBlock(root)
      PROVE  ChainInv' /\ Moves(fc', fc)
  BY <1>2, ReplayIsSafe
<1>0. DOMAIN fc = StoreFields BY DEF ChainInv, Store
<1>3. ASSUME NEW v, NEW slot, NEW root, ImportAttestation(v, slot, root)
      PROVE  ChainInv' /\ Moves(fc', fc)
  <2>1. PICK a : fc' = OnAttestation(fc, a) /\ UNCHANGED states BY <1>3 DEF ImportAttestation
  <2>2. Keeps(fc', fc) BY <1>0, <2>1, AttestationKeeps
  <2> QED BY <2>1, <2>2, KeepingIsSafe
<1>4. CASE UpdateTime
  <2>1. fc' = ProcessAttestationQueue(OnTick(fc)) /\ UNCHANGED states BY <1>4 DEF UpdateTime
  <2>2. Keeps(OnTick(fc), fc) BY <1>0, TickKeeps
  <2>3. Keeps(ProcessAttestationQueue(OnTick(fc)), OnTick(fc)) BY <2>2, QueueKeeps DEF Keeps
  <2>4. Keeps(fc', fc) BY <2>1, <2>2, <2>3 DEF Keeps
  <2> QED BY <2>1, <2>4, KeepingIsSafe
<1>5. ASSUME NEW checkpoint \in toPrune, Prune(checkpoint) PROVE ChainInv' /\ Moves(fc', fc)
  BY <1>5, PruneIsSafe
<1>6. CASE UNCHANGED vars
  <2>1. fc' = fc /\ UNCHANGED states BY <1>6 DEF vars
  <2>2. Keeps(fc', fc) BY <1>0, <2>1 DEF Keeps
  <2> QED BY <2>1, <2>2, KeepingIsSafe
<1> QED BY <1>1, <1>2, <1>3, <1>4, <1>5, <1>6 DEF Next

\* At genesis there is its block, and all checkpoints are at it.
AtGenesis ==
    /\ DOMAIN states = {GenesisRoot} /\ toPrune = {}
    /\ LET genesis == states[GenesisRoot]
       IN /\ genesis.slot = 0 /\ genesis.parentRoot = HEX_ZERO_HASH
          /\ genesis.currentJustified.epoch = 0 /\ genesis.finalized.epoch = 0
          /\ \A e \in Epochs : genesis.blockRoots[e] = GenesisRoot
    /\ GenesisRoot \in DOMAIN fc.protoArray.indices
    /\ fc.finalizedCheckpoint.epoch = 0 /\ fc.finalizedCheckpoint.root = GenesisRoot
    /\ fc.justifiedCheckpoint = fc.finalizedCheckpoint
    /\ fc.bestJustifiedCheckpoint = fc.finalizedCheckpoint

LEMMA InitIsChain ==
    ASSUME Init PROVE ChainInv /\ AtGenesis
<1> DEFINE stub == GenesisState(GenesisRoot, Epochs)
           genesis == [slot |-> 0, parentRoot |-> HEX_ZERO_HASH,
                       previousJustified |-> stub.previousJustified,
                       currentJustified |-> stub.currentJustified, finalized |-> stub.finalized,
                       bits |-> stub.bits, blockRoots |-> stub.blockRoots]
           block == ProtoBlock(GenesisRoot, genesis)
           pa == ProtoInitialize(block)
           none == [nodes |-> <<>>, indices |-> <<>>, justifiedEpoch |-> block.justifiedEpoch,
                    finalizedEpoch |-> block.finalizedEpoch]
           at == Checkpoint(GENESIS_EPOCH, GenesisRoot)
           f == [currentSlot |-> 0, justifiedCheckpoint |-> at, bestJustifiedCheckpoint |-> at,
                 finalizedCheckpoint |-> at,
                 justifiedBalances |-> EffectiveBalances[0], bestJustifiedBalances |-> EffectiveBalances[0],
                 votes |-> [v \in Validators |-> NoVote], queuedAttestations |-> {},
                 synced |-> FALSE, head |-> Undefined, protoArray |-> pa]
<1>1. states = [r \in {GenesisRoot} |-> genesis] /\ fc = UpdateHead(f) /\ toPrune = {} BY DEF Init
<1>2. DOMAIN states = {GenesisRoot} /\ states[GenesisRoot] = genesis BY <1>1
<1>3. /\ DOMAIN genesis = StateFields /\ genesis.slot = 0 /\ genesis.parentRoot = 0
      /\ genesis.previousJustified = Checkpoint(0, 0) /\ genesis.currentJustified = Checkpoint(0, 0)
      /\ genesis.finalized = Checkpoint(0, 0)
      /\ genesis.blockRoots = [e \in Epochs |-> GenesisRoot]
  BY DEF GenesisState, GENESIS_EPOCH, HEX_ZERO_HASH, StateFields
<1>4. block.blockRoot = GenesisRoot /\ block.slot = 0 /\ block.parentRoot = 0
  BY <1>3 DEF ProtoBlock
<1>5. 0 \in Slots BY SlotsAssumption DEF Slots
<1>6. 0 \in Epochs
  <2>1. ComputeEpochAtSlot(MaxSlot) \in Nat BY SlotsAssumption, EpochsGrow
  <2> QED BY <2>1 DEF Epochs
<1> HIDE DEF genesis, block
<1>7. ChainStates(states)
  <2>1. Checkpoint(0, 0).epoch = 0 BY DEF Checkpoint
  <2>2. CheckpointsBefore(genesis, ComputeEpochAtSlot(0)) BY <1>3, <2>1 DEF CheckpointsBefore
  <2> QED BY <1>2, <1>3, <1>6, <2>1, <2>2 DEF ChainStates, ChainState, HEX_ZERO_HASH
<1>8. Forest(none) /\ DOMAIN none.indices = {}
  <2>1. DOMAIN none = ArrayFields /\ none.nodes = <<>> /\ none.indices = <<>> BY DEF ArrayFields
  <2> HIDE DEF none
  <2>2. IsList(none.nodes) BY <2>1 DEF IsList
  <2>3. Len(none.nodes) = 0 /\ DOMAIN none.indices = {} BY <2>1
  <2>4. none.indices \in [DOMAIN none.indices -> 1..Len(none.nodes)] BY <2>1, <2>3
  <2> QED BY <2>1, <2>2, <2>3, <2>4 DEF Forest
<1>9. Extends(pa, none, GenesisRoot, 0, 0)
  <2>1. pa = ProtoOnBlock(none, block) BY DEF ProtoInitialize
  <2> HIDE DEF none, pa
  <2>2. ~HasBlock(none, block.blockRoot) BY <1>8 DEF HasBlock
  <2>3. block.parentRoot # block.blockRoot BY <1>4 DEF GenesisRoot
  <2>4. Extends(ProtoOnBlock(none, block), none, block.blockRoot, block.slot, block.parentRoot)
    BY <1>8, <2>2, <2>3, OnBlockExtends
  <2> QED BY <1>4, <2>1, <2>4
<1> HIDE DEF pa, none
<1>10. /\ Forest(pa) /\ DOMAIN pa.indices = {GenesisRoot}
       /\ GetNode(pa, GenesisRoot).slot = 0 /\ ParentRootIn(pa, GenesisRoot) = 0
  BY <1>8, <1>9 DEF Extends
<1>11. DescendsIn(pa, GenesisRoot, GenesisRoot) BY <1>10, DescendsByParents
<1>12. RootsOnChain(pa, states) BY <1>2, <1>3, <1>10, <1>11 DEF RootsOnChain
<1>13. Tree(pa, states) BY <1>2, <1>3, <1>10, <1>12 DEF Tree
<1>14. /\ DOMAIN f = StoreFields /\ f.finalizedCheckpoint = at /\ f.protoArray = pa
       /\ f.justifiedCheckpoint = at /\ f.bestJustifiedCheckpoint = at
  BY DEF StoreFields
<1>15. at.epoch = 0 /\ at.root = 1 /\ GenesisRoot = 1 BY DEF Checkpoint, GENESIS_EPOCH, GenesisRoot
<1> HIDE DEF f, at
<1>16. Store(f, states) BY <1>13, <1>14, <1>15 DEF Store, Undefined
<1>17. Store(fc, states) BY <1>1, <1>16, HeadKeepsStore
<1>18. /\ fc.finalizedCheckpoint = at /\ KeepsJustified(fc, f) /\ SameBlocks(fc.protoArray, pa)
  <2>1. Forest(f.protoArray) BY <1>10, <1>14
  <2> QED BY <1>1, <1>14, <2>1, HeadKeepsBlocks
<1>19. GenesisRoot \in DOMAIN fc.protoArray.indices
  <2>1. SameView(fc.protoArray, pa) BY <1>10, <1>18, SameBlocksSameView
  <2> QED BY <1>10, <2>1 DEF SameView
<1>20. AtGenesis
  <2>1. Checkpoint(0, 0).epoch = 0 BY DEF Checkpoint
  <2>2. fc.justifiedCheckpoint = at /\ fc.bestJustifiedCheckpoint = at
    BY <1>14, <1>18 DEF KeepsJustified
  <2>3. \A e \in Epochs : genesis.blockRoots[e] = GenesisRoot BY <1>3
  <2> QED BY <1>1, <1>2, <1>3, <1>15, <1>18, <1>19, <2>1, <2>2, <2>3 DEF AtGenesis, HEX_ZERO_HASH
<1> QED BY <1>7, <1>17, <1>20 DEF ChainInv

\* Finality: whatever blocks, forks, replays and prunings come, in whatever order, onBlock moves
\* the store's finalized checkpoint only to a later epoch and to a block that descends from the
\* finalized one.  The argument needs no bound on slashable stake: the checks at the top of
\* onBlock and the array that never loses a descendant of a block it keeps are enough.
THEOREM FinalityNeverForks == Spec => FinalityOnlyExtends
<1>1. Init => ChainInv BY InitIsChain
<1>2. ChainInv /\ [Next]_vars => ChainInv' BY NextIsSafe
<1>3. ChainInv /\ [Next]_vars =>
        [fc'.finalizedCheckpoint # fc.finalizedCheckpoint =>
           /\ fc'.finalizedCheckpoint.epoch > fc.finalizedCheckpoint.epoch
           /\ DescendsFrom(fc'.finalizedCheckpoint.root, fc.finalizedCheckpoint.root)]_vars
  BY NextIsSafe DEF Moves, DescendsFrom, pArray
<1> QED BY <1>1, <1>2, <1>3, PTL DEF Spec, FinalityOnlyExtends

-----------------------------------------------------------------------------
(* Ancestry by slots. *)

\* Blocks are younger than their parents.
Ageing(pa) ==
    \A i \in 1..Len(pa.nodes) :
        /\ pa.nodes[i].slot \in Nat
        /\ pa.nodes[i].parent # Undefined => pa.nodes[pa.nodes[i].parent].slot < pa.nodes[i].slot

\* The walk up from a position starts there, passes all that its block descends from, and only gets
\* older.
WalkIsWhole(pa, i, line) ==
    /\ line \in Seq(1..Len(pa.nodes)) /\ Len(line) # 0 /\ line[1] = i
    /\ \A k \in 1..Len(line) : \A m \in 1..Len(line) :
          k < m => pa.nodes[line[m]].slot < pa.nodes[line[k]].slot
    /\ \A a : DescendsIn(pa, pa.nodes[i].blockRoot, a) =>
          \E k \in 1..Len(line) : pa.nodes[line[k]].blockRoot = a

\* What putting an element before a sequence does to its positions.
LEMMA PrependFacts ==
    ASSUME NEW S, NEW x \in S, NEW t \in Seq(S)
    PROVE  /\ <<x>> \o t \in Seq(S) /\ Len(<<x>> \o t) = Len(t) + 1 /\ Len(t) \in Nat
           /\ (<<x>> \o t)[1] = x
           /\ \A k \in 1..Len(t) + 1 : k # 1 => (<<x>> \o t)[k] = t[k - 1] /\ k - 1 \in 1..Len(t)
           /\ \A k \in 1..Len(t) : k + 1 \in 1..Len(t) + 1 /\ (<<x>> \o t)[k + 1] = t[k]
<1>1. Len(t) \in Nat OBVIOUS
<1>2. <<x>> \in Seq(S) /\ Len(<<x>>) = 1 /\ <<x>>[1] = x OBVIOUS
<1>3. <<x>> \o t \in Seq(S) /\ Len(<<x>> \o t) = Len(t) + 1 BY <1>1, <1>2
<1>4. (<<x>> \o t)[1] = x BY <1>1, <1>2
<1>5. ASSUME NEW k \in 1..Len(t) + 1, k # 1
      PROVE  (<<x>> \o t)[k] = t[k - 1] /\ k - 1 \in 1..Len(t)
  BY <1>1, <1>2, <1>5
<1>6. ASSUME NEW k \in 1..Len(t)
      PROVE  k + 1 \in 1..Len(t) + 1 /\ (<<x>> \o t)[k + 1] = t[k]
  <2>1. k + 1 \in 1..Len(t) + 1 /\ k + 1 # 1 /\ (k + 1) - 1 = k BY <1>1
  <2> QED BY <1>5, <2>1
<1> QED BY <1>1, <1>3, <1>4, <1>5, <1>6

\* The order of the slots is transitive.
LEMMA LessIsTransitive ==
    ASSUME NEW x \in Nat, NEW y \in Nat, NEW z \in Nat, x < y, y < z
    PROVE  x < z
OBVIOUS

\* The walk the store makes up from a node is whole: by the least position where it would not be.
LEMMA AncestorsAreWhole ==
    ASSUME NEW pa, Forest(pa), Ageing(pa), NEW i0 \in 1..Len(pa.nodes)
    PROVE  WalkIsWhole(pa, i0, AncestorIndices(pa, i0))
<1> DEFINE n == Len(pa.nodes)
           up == CHOOSE u : IsAncestry(pa, n, u)
           Bad == {i \in 1..n : ~WalkIsWhole(pa, i, up[i])}
<1>1. IsAncestry(pa, n, up) BY AncestryExists
<1>2. AncestorIndices(pa, i0) = up[i0] BY DEF AncestorIndices, IsAncestry
<1> HIDE DEF up
<1>3. n \in Nat BY ForestFacts
<1>4. ASSUME Bad # {} PROVE FALSE
  <2>1. Bad \in SUBSET Nat BY <1>3
  <2>2. PICK i \in Bad : \A j \in Bad : i <= j
    <3> HIDE DEF Bad
    <3> QED BY <1>4, <2>1, NatHasLeast
  <2>3. i \in 1..n /\ ~WalkIsWhole(pa, i, up[i]) OBVIOUS
  <2> DEFINE p == pa.nodes[i].parent
             c == pa.nodes[i].blockRoot
             r == pa.nodes[i].parentRoot
  <2>4. up[i] = IF p = Undefined THEN <<i>> ELSE <<i>> \o up[p]
    BY <1>1, <2>3 DEF IsAncestry
  <2>5. /\ c \in DOMAIN pa.indices /\ pa.indices[c] = i
        /\ p = IndexOf(pa, r) /\ p < i
    BY <2>3 DEF Forest, HasBlock
  <2>6. ParentRootIn(pa, c) = r BY <2>5 DEF ParentRootIn, GetNode
  <2>7. CASE p = Undefined
    <3>1. up[i] = <<i>> BY <2>4, <2>7
    <3>2. <<i>> \in Seq(1..n) /\ Len(<<i>>) = 1 /\ <<i>>[1] = i BY <2>3
    <3>3. r \notin DOMAIN pa.indices
      <4> SUFFICES ASSUME r \in DOMAIN pa.indices PROVE FALSE OBVIOUS
      <4>1. pa.indices[r] \in 1..n BY ForestFacts
      <4>2. p = pa.indices[r] BY <2>5 DEF IndexOf, HasBlock
      <4> QED BY <1>3, <2>7, <4>1, <4>2 DEF Undefined
    <3>4. \A a : DescendsIn(pa, c, a) => a = c BY <2>5, <2>6, <3>3, DescendsByParents
    <3>5. \A a : DescendsIn(pa, c, a) => \E k \in 1..Len(<<i>>) : pa.nodes[<<i>>[k]].blockRoot = a
      <4> SUFFICES ASSUME NEW a, DescendsIn(pa, c, a)
                   PROVE  \E k \in 1..Len(<<i>>) : pa.nodes[<<i>>[k]].blockRoot = a
        OBVIOUS
      <4>1. pa.nodes[<<i>>[1]].blockRoot = a /\ 1 \in 1..Len(<<i>>) BY <3>2, <3>4
      <4> QED BY <4>1
    <3>6. ASSUME NEW k \in 1..Len(<<i>>), NEW m \in 1..Len(<<i>>)
          PROVE  ~(k < m)
      BY <3>2
    <3>7. WalkIsWhole(pa, i, <<i>>)
      <4> DEFINE line == <<i>>
      <4>1. line \in Seq(1..Len(pa.nodes)) /\ Len(line) # 0 /\ line[1] = i BY <3>2
      <4>2. \A k \in 1..Len(line) : \A m \in 1..Len(line) : ~(k < m) BY <3>6
      <4>3. \A a : DescendsIn(pa, c, a) => \E k \in 1..Len(line) : pa.nodes[line[k]].blockRoot = a BY <3>5
      <4> HIDE DEF line
      <4>4. WalkIsWhole(pa, i, line) BY <4>1, <4>2, <4>3 DEF WalkIsWhole
      <4> QED BY <4>4 DEF line
    <3> QED BY <2>3, <3>1, <3>7
  <2>8. CASE p # Undefined
    <3> DEFINE t == up[p]
               l == <<i>> \o t
    <3>1. r \in DOMAIN pa.indices /\ p = pa.indices[r] BY <2>5, <2>8 DEF IndexOf, HasBlock
    <3>2. p \in 1..n /\ pa.nodes[p].blockRoot = r BY <3>1, ForestFacts
    <3>3. WalkIsWhole(pa, p, t)
      <4>1. p \notin Bad BY <2>2, <2>3, <2>5, <3>2, <1>3
      <4> QED BY <3>2, <4>1
    <3>4. /\ t \in Seq(1..n) /\ Len(t) # 0 /\ t[1] = p
          /\ \A k \in 1..Len(t) : \A m \in 1..Len(t) :
                k < m => pa.nodes[t[m]].slot < pa.nodes[t[k]].slot
      BY <3>3 DEF WalkIsWhole
    <3>5. /\ l \in Seq(1..n) /\ Len(l) = Len(t) + 1 /\ Len(t) \in Nat /\ l[1] = i
          /\ \A k \in 1..Len(l) : k # 1 => l[k] = t[k - 1] /\ k - 1 \in 1..Len(t)
          /\ \A k \in 1..Len(t) : k + 1 \in 1..Len(l) /\ l[k + 1] = t[k]
      <4> HIDE DEF t
      <4>1. i \in 1..n /\ t \in Seq(1..n) BY <2>3, <3>4
      <4> HIDE DEF n
      <4> QED BY <4>1, PrependFacts
    <3>6. pa.nodes[p].slot < pa.nodes[i].slot /\ pa.nodes[p].slot \in Nat /\ pa.nodes[i].slot \in Nat
      BY <2>3, <2>8, <3>2 DEF Ageing
    <3>7. \A k \in 1..Len(t) : t[k] \in 1..n /\ pa.nodes[t[k]].slot \in Nat
      <4> HIDE DEF t
      <4>1. \A k \in 1..Len(t) : t[k] \in 1..n BY <3>4
      <4> QED BY <4>1 DEF Ageing
    <3>8. \A k \in 1..Len(t) : pa.nodes[t[k]].slot < pa.nodes[i].slot
      <4> SUFFICES ASSUME NEW k \in 1..Len(t) PROVE pa.nodes[t[k]].slot < pa.nodes[i].slot OBVIOUS
      <4> HIDE DEF t
      <4>1. k = 1 \/ (1 < k /\ 1 \in 1..Len(t)) BY <3>5
      <4>2. CASE k = 1 BY <3>4, <3>6, <4>2
      <4>3. CASE 1 < k /\ 1 \in 1..Len(t)
        <5>1. pa.nodes[t[k]].slot < pa.nodes[p].slot BY <3>4, <4>3
        <5>2. pa.nodes[t[k]].slot \in Nat BY <3>7
        <5> QED BY <3>6, <5>1, <5>2, LessIsTransitive
      <4> QED BY <4>1, <4>2, <4>3
    <3> HIDE DEF l, t
    <3>9. ASSUME NEW k \in 1..Len(l), NEW m \in 1..Len(l), k < m
          PROVE  pa.nodes[l[m]].slot < pa.nodes[l[k]].slot
      <4>1. m # 1 /\ l[m] = t[m - 1] /\ m - 1 \in 1..Len(t) BY <3>5, <3>9, SMTT(30)
      <4>2. CASE k = 1 BY <3>5, <3>8, <4>1, <4>2
      <4>3. CASE k # 1
        <5>1. l[k] = t[k - 1] /\ k - 1 \in 1..Len(t) BY <3>5, <4>3
        <5>2. k - 1 < m - 1 BY <3>9
        <5> QED BY <3>4, <4>1, <5>1, <5>2
      <4> QED BY <4>2, <4>3
    <3>10. ASSUME NEW a, DescendsIn(pa, c, a)
           PROVE  \E k \in 1..Len(l) : pa.nodes[l[k]].blockRoot = a
      <4>1. a = c \/ DescendsIn(pa, r, a) BY <2>5, <2>6, <3>10, DescendsByParents
      <4>2. CASE a = c
        <5>1. 1 \in 1..Len(l) /\ pa.nodes[l[1]].blockRoot = a BY <3>5, <4>2
        <5> QED BY <5>1
      <4>3. CASE DescendsIn(pa, r, a)
        <5>1. PICK k \in 1..Len(t) : pa.nodes[t[k]].blockRoot = a BY <3>2, <3>3, <4>3 DEF WalkIsWhole
        <5>2. k + 1 \in 1..Len(l) /\ l[k + 1] = t[k] BY <3>5
        <5> QED BY <5>1, <5>2
      <4> QED BY <4>1, <4>2, <4>3
    <3>11. Len(l) # 0 BY <3>5
    <3>12. WalkIsWhole(pa, i, l) BY <3>5, <3>9, <3>10, <3>11 DEF WalkIsWhole
    <3> QED BY <2>3, <2>4, <2>8, <3>12 DEF l, t
  <2> QED BY <2>7, <2>8
<1> QED BY <1>2, <1>4

\* Both walks of a known block, with the slots of what they pass.
LEMMA WalkOfBlock ==
    ASSUME NEW pa, Forest(pa), Ageing(pa), NEW b \in DOMAIN pa.indices
    PROVE  /\ WalkIsWhole(pa, pa.indices[b], AncestorIndices(pa, pa.indices[b]))
           /\ WalkIsUp(pa, pa.indices[b], AncestorIndices(pa, pa.indices[b]))
           /\ pa.nodes[pa.indices[b]].blockRoot = b
           /\ \A i \in 1..Len(pa.nodes) : /\ pa.nodes[i].blockRoot \in DOMAIN pa.indices
                                          /\ GetNode(pa, pa.nodes[i].blockRoot) = pa.nodes[i]
                                          /\ pa.nodes[i].slot \in Nat
<1>1. pa.indices[b] \in 1..Len(pa.nodes) /\ pa.nodes[pa.indices[b]].blockRoot = b BY ForestFacts
<1>2. \A i \in 1..Len(pa.nodes) : /\ pa.nodes[i].blockRoot \in DOMAIN pa.indices
                                  /\ GetNode(pa, pa.nodes[i].blockRoot) = pa.nodes[i]
                                  /\ pa.nodes[i].slot \in Nat
  BY DEF Forest, Ageing, HasBlock, GetNode
<1> QED BY <1>1, <1>2, AncestorsAreUp, AncestorsAreWhole

\* isDescendant, which stops at the ancestor's slot, follows the parent roots.
LEMMA DescendantByParents ==
    ASSUME NEW pa, Forest(pa), Ageing(pa), NEW a \in DOMAIN pa.indices, NEW b \in DOMAIN pa.indices
    PROVE  IsDescendant(pa, a, b) <=> DescendsIn(pa, b, a)
<1> DEFINE i == pa.indices[b]
           line == AncestorIndices(pa, i)
<1>1. /\ WalkIsWhole(pa, i, line) /\ WalkIsUp(pa, i, line) /\ pa.nodes[i].blockRoot = b
      /\ \A j \in 1..Len(pa.nodes) : /\ pa.nodes[j].blockRoot \in DOMAIN pa.indices
                                     /\ GetNode(pa, pa.nodes[j].blockRoot) = pa.nodes[j]
                                     /\ pa.nodes[j].slot \in Nat
  BY WalkOfBlock
<1>2. IsDescendant(pa, a, b) <=>
        \E k \in 1..Len(line) : /\ pa.nodes[line[k]].blockRoot = a
                                /\ \A m \in 1..k : pa.nodes[line[m]].slot >= GetNode(pa, a).slot
  BY DEF IsDescendant, HasBlock
<1> HIDE DEF line
<1>3. line \in Seq(1..Len(pa.nodes)) /\ Len(line) \in Nat BY <1>1 DEF WalkIsUp
<1>4. \A k \in 1..Len(line) : line[k] \in 1..Len(pa.nodes) BY <1>3
<1>5. ASSUME IsDescendant(pa, a, b) PROVE DescendsIn(pa, b, a)
  <2>1. PICK k \in 1..Len(line) : pa.nodes[line[k]].blockRoot = a BY <1>2, <1>5
  <2> HIDE DEF i
  <2> QED BY <1>1, <2>1 DEF WalkIsUp
<1>6. ASSUME DescendsIn(pa, b, a) PROVE IsDescendant(pa, a, b)
  <2> HIDE DEF i
  <2>1. PICK k \in 1..Len(line) : pa.nodes[line[k]].blockRoot = a BY <1>1, <1>6 DEF WalkIsWhole
  <2>2. GetNode(pa, a).slot = pa.nodes[line[k]].slot BY <1>1, <1>4, <2>1
  <2>3. \A m \in 1..k : pa.nodes[line[m]].slot >= pa.nodes[line[k]].slot
    <3> SUFFICES ASSUME NEW m \in 1..k PROVE pa.nodes[line[m]].slot >= pa.nodes[line[k]].slot OBVIOUS
    <3>1. m \in 1..Len(line) /\ (m = k \/ m < k) BY <1>3, <2>1
    <3>2. pa.nodes[line[m]].slot \in Nat /\ pa.nodes[line[k]].slot \in Nat BY <1>1, <1>4, <2>1, <3>1
    <3>3. m < k => pa.nodes[line[k]].slot < pa.nodes[line[m]].slot BY <1>1, <2>1, <3>1 DEF WalkIsWhole
    <3> QED BY <3>1, <3>2, <3>3
  <2> QED BY <1>2, <2>1, <2>2, <2>3
<1> QED BY <1>5, <1>6

\* A block is not before what it descends from.
LEMMA DescendantsAreYounger ==
    ASSUME NEW pa, Forest(pa), Ageing(pa), NEW a, NEW b, DescendsIn(pa, b, a)
    PROVE  /\ GetNode(pa, a).slot \in Nat /\ GetNode(pa, b).slot \in Nat
           /\ GetNode(pa, a).slot <= GetNode(pa, b).slot
<1>0. a \in DOMAIN pa.indices /\ b \in DOMAIN pa.indices BY DescendsUpwards
<1> DEFINE i == pa.indices[b]
           line == AncestorIndices(pa, i)
<1>1. /\ WalkIsWhole(pa, i, line) /\ pa.nodes[i].blockRoot = b
      /\ \A j \in 1..Len(pa.nodes) : /\ GetNode(pa, pa.nodes[j].blockRoot) = pa.nodes[j]
                                     /\ pa.nodes[j].slot \in Nat
  BY <1>0, WalkOfBlock
<1>2. GetNode(pa, b) = pa.nodes[i] /\ i \in 1..Len(pa.nodes) BY <1>0, ForestFacts DEF GetNode
<1> HIDE DEF line, i
<1>3. line \in Seq(1..Len(pa.nodes)) /\ Len(line) \in Nat /\ line[1] = i BY <1>1 DEF WalkIsWhole
<1>4. \A k \in 1..Len(line) : line[k] \in 1..Len(pa.nodes) BY <1>3
<1>5. PICK k \in 1..Len(line) : pa.nodes[line[k]].blockRoot = a BY <1>1 DEF WalkIsWhole
<1>6. GetNode(pa, a) = pa.nodes[line[k]] BY <1>1, <1>4, <1>5
<1>7. GetNode(pa, a).slot \in Nat /\ GetNode(pa, b).slot \in Nat BY <1>1, <1>2, <1>4, <1>5, <1>6
<1>8. 1 \in 1..Len(line) /\ (k = 1 \/ 1 < k) BY <1>3, <1>5
<1>9. 1 < k => pa.nodes[line[k]].slot < pa.nodes[i].slot BY <1>1, <1>3, <1>5, <1>8 DEF WalkIsWhole
<1>10. k = 1 => GetNode(pa, a) = GetNode(pa, b) BY <1>2, <1>3, <1>6
<1> QED BY <1>2, <1>6, <1>7, <1>8, <1>9, <1>10

\* The blocks of b's line that are not after the slot.
OlderIn(pa, b, slot) == {a \in DOMAIN pa.indices : DescendsIn(pa, b, a) /\ GetNode(pa, a).slot <= slot}

\* getAncestor answers with the youngest block of the line that is not after the slot.
LEMMA AncestorIsYoungest ==
    ASSUME NEW pa, Forest(pa), Ageing(pa), Undefined \notin DOMAIN pa.indices,
           NEW b \in DOMAIN pa.indices, NEW slot \in Nat
    PROVE  IF OlderIn(pa, b, slot) = {} THEN GetAncestor(pa, b, slot) = Undefined
           ELSE /\ GetAncestor(pa, b, slot) \in OlderIn(pa, b, slot)
                /\ \A a \in OlderIn(pa, b, slot) :
                      GetNode(pa, a).slot <= GetNode(pa, GetAncestor(pa, b, slot)).slot
<1> DEFINE i == pa.indices[b]
           line == AncestorIndices(pa, i)
           older == {k \in 1..Len(line) : pa.nodes[line[k]].slot <= slot}
           x == GetAncestor(pa, b, slot)
           Older == OlderIn(pa, b, slot)
<1>1. /\ WalkIsWhole(pa, i, line) /\ WalkIsUp(pa, i, line) /\ pa.nodes[i].blockRoot = b
      /\ \A j \in 1..Len(pa.nodes) : /\ pa.nodes[j].blockRoot \in DOMAIN pa.indices
                                     /\ GetNode(pa, pa.nodes[j].blockRoot) = pa.nodes[j]
                                     /\ pa.nodes[j].slot \in Nat
  BY WalkOfBlock
<1>2. x = IF GetNode(pa, b).slot <= slot THEN b
          ELSE IF older = {} THEN Undefined ELSE pa.nodes[line[Min(older)]].blockRoot
  BY DEF GetAncestor, HasBlock
<1>3. GetNode(pa, b) = pa.nodes[i] /\ i \in 1..Len(pa.nodes) BY ForestFacts DEF GetNode
<1> HIDE DEF line, i
<1>4. line \in Seq(1..Len(pa.nodes)) /\ Len(line) \in Nat /\ Len(line) # 0 /\ line[1] = i
  BY <1>1 DEF WalkIsWhole
<1>5. \A k \in 1..Len(line) : line[k] \in 1..Len(pa.nodes) BY <1>4
<1>6. ASSUME NEW a \in Older
      PROVE  /\ \E k \in older : pa.nodes[line[k]].blockRoot = a
             /\ GetNode(pa, a).slot \in Nat /\ GetNode(pa, a).slot <= GetNode(pa, b).slot
  <2>1. DescendsIn(pa, b, a) /\ GetNode(pa, a).slot <= slot BY <1>6 DEF OlderIn
  <2>2. PICK k \in 1..Len(line) : pa.nodes[line[k]].blockRoot = a BY <1>1, <2>1 DEF WalkIsWhole
  <2>3. GetNode(pa, a) = pa.nodes[line[k]] BY <1>1, <1>5, <2>2
  <2>4. k \in older BY <2>1, <2>2, <2>3
  <2>5. GetNode(pa, a).slot \in Nat /\ GetNode(pa, a).slot <= GetNode(pa, b).slot
    BY <2>1, DescendantsAreYounger
  <2> HIDE DEF older
  <2> QED BY <2>2, <2>4, <2>5
<1>7. \A k \in older : pa.nodes[line[k]].blockRoot \in Older
  <2> SUFFICES ASSUME NEW k \in older PROVE pa.nodes[line[k]].blockRoot \in Older OBVIOUS
  <2>1. k \in 1..Len(line) /\ pa.nodes[line[k]].slot <= slot /\ line[k] \in 1..Len(pa.nodes) BY <1>5
  <2>2. DescendsIn(pa, b, pa.nodes[line[k]].blockRoot) BY <1>1, <2>1 DEF WalkIsUp
  <2> HIDE DEF older
  <2> QED BY <1>1, <2>1, <2>2 DEF OlderIn
<1>8. CASE GetNode(pa, b).slot <= slot
  <2>1. x = b BY <1>2, <1>8
  <2>2. DescendsIn(pa, b, b) BY DescendsByParents
  <2>3. b \in Older BY <1>8, <2>2 DEF OlderIn
  <2> HIDE DEF Older, x
  <2> QED BY <1>6, <2>1, <2>3 DEF Older, x
<1>9. CASE ~(GetNode(pa, b).slot <= slot) /\ older = {}
  <2>1. x = Undefined BY <1>2, <1>9
  <2>2. Older = {}
    <3> HIDE DEF Older, older
    <3> QED BY <1>6, <1>9
  <2> QED BY <2>1, <2>2
<1>10. CASE ~(GetNode(pa, b).slot <= slot) /\ older # {}
  <2> DEFINE k == Min(older)
  <2>1. older \in SUBSET Nat OBVIOUS
  <2>2. k \in older /\ \A m \in older : k <= m
    <3> HIDE DEF older
    <3>1. PICK y \in older : \A z \in older : y <= z BY <1>10, <2>1, NatHasLeast
    <3> QED BY <3>1 DEF Min
  <2>3. x = pa.nodes[line[k]].blockRoot BY <1>2, <1>10
  <2> HIDE DEF k, x
  <2>4. k \in 1..Len(line) /\ line[k] \in 1..Len(pa.nodes) BY <1>5, <2>2
  <2>5. x \in Older BY <1>7, <2>2, <2>3
  <2>6. ASSUME NEW a \in Older PROVE GetNode(pa, a).slot <= GetNode(pa, x).slot
    <3>1. PICK m \in older : pa.nodes[line[m]].blockRoot = a BY <1>6
    <3>2. m \in 1..Len(line) /\ line[m] \in 1..Len(pa.nodes) BY <1>5, <3>1
    <3>3. GetNode(pa, a) = pa.nodes[line[m]] /\ GetNode(pa, x) = pa.nodes[line[k]]
      BY <1>1, <2>3, <2>4, <3>1, <3>2
    <3>4. k <= m BY <2>2, <3>1
    <3>5. m = k \/ k < m BY <2>4, <3>2, <3>4
    <3>6. k < m => pa.nodes[line[m]].slot < pa.nodes[line[k]].slot
      BY <1>1, <2>4, <3>2 DEF WalkIsWhole
    <3>7. pa.nodes[line[m]].slot \in Nat /\ pa.nodes[line[k]].slot \in Nat BY <1>1, <2>4, <3>2
    <3> QED BY <3>3, <3>5, <3>6, <3>7
  <2>7. Older # {} BY <2>5
  <2> HIDE DEF Older
  <2> QED BY <2>5, <2>6, <2>7 DEF Older, x
<1> QED BY <1>8, <1>9, <1>10

-----------------------------------------------------------------------------
(* The states of a chain, in more detail. *)

\* A block is after its parent, and the root its chain has for an epoch is that of an imported
\* block not after the epoch's start.
ChainSlot(st, r) ==
    /\ st[r].currentJustified.epoch \in Epochs
    /\ r = GenesisRoot => st[r].parentRoot = HEX_ZERO_HASH
    /\ r # GenesisRoot => st[st[r].parentRoot].slot < st[r].slot
    /\ \A e \in Epochs : /\ st[r].blockRoots[e] \in DOMAIN st
                         /\ st[st[r].blockRoots[e]].slot <= ComputeStartSlotAtEpoch(e)

ChainSlots(st) == \A r \in DOMAIN st : ChainSlot(st, r)

\* The roots of a block's chain that the array holds are ancestors of the block.
RootsUp(pa, st) ==
    \A b \in DOMAIN pa.indices, e \in Epochs :
        st[b].blockRoots[e] \in DOMAIN pa.indices => DescendsIn(pa, b, st[b].blockRoots[e])

LEMMA SlotsGrow ==
    ASSUME NEW st, ChainStates(st), ChainSlots(st), NEW root \in Roots, root \notin DOMAIN st,
           NEW parent \in DOMAIN st, NEW slot \in Nat, slot > st[parent].slot, NEW s,
           PostOf(s, st[parent], root, parent, slot), s.currentJustified.epoch \in Epochs
    PROVE  ChainSlots(WithState(st, root, s))
<1> DEFINE t == WithState(st, root, s)
<1>1. /\ DOMAIN t = DOMAIN st \union {root} /\ t[root] = s
      /\ \A r \in DOMAIN st : t[r] = st[r]
  BY DEF WithState
<1> HIDE DEF t
<1>2. /\ s.slot = slot /\ s.parentRoot = parent
      /\ \A e \in Epochs : \/ s.blockRoots[e] = st[parent].blockRoots[e]
                           \/ s.blockRoots[e] = root /\ slot <= ComputeStartSlotAtEpoch(e)
  BY DEF PostOf
<1>3. \A r \in DOMAIN st : \A e \in Epochs :
         /\ st[r].blockRoots[e] \in DOMAIN st
         /\ st[st[r].blockRoots[e]].slot <= ComputeStartSlotAtEpoch(e)
  BY DEF ChainSlots, ChainSlot
<1>4. ChainSlot(t, root)
  <2>1. root # GenesisRoot BY RootsAssumption
  <2>2. t[t[root].parentRoot].slot < t[root].slot
    <3>1. t[root].parentRoot = parent /\ t[parent] = st[parent] /\ t[root].slot = slot BY <1>1, <1>2
    <3>2. st[parent].slot \in Nat BY DEF ChainStates, ChainState
    <3> QED BY <3>1, <3>2
  <2>3. ASSUME NEW e \in Epochs
        PROVE  t[root].blockRoots[e] \in DOMAIN t /\ t[t[root].blockRoots[e]].slot <= ComputeStartSlotAtEpoch(e)
    <3>1. CASE s.blockRoots[e] = st[parent].blockRoots[e]
      <4> DEFINE x == st[parent].blockRoots[e]
      <4>1. x \in DOMAIN st /\ st[x].slot <= ComputeStartSlotAtEpoch(e) BY <1>3
      <4>2. t[root].blockRoots[e] = x BY <1>1, <3>1
      <4> HIDE DEF x
      <4>3. t[x] = st[x] /\ x \in DOMAIN t BY <1>1, <4>1
      <4> QED BY <4>1, <4>2, <4>3
    <3>2. CASE s.blockRoots[e] = root /\ slot <= ComputeStartSlotAtEpoch(e)
      BY <1>1, <1>2, <3>2
    <3> QED BY <1>2, <3>1, <3>2
  <2> QED BY <1>1, <2>1, <2>2, <2>3 DEF ChainSlot
<1>5. ASSUME NEW r \in DOMAIN st PROVE ChainSlot(t, r)
  <2>1. ChainSlot(st, r) /\ ChainState(st, r) BY DEF ChainSlots, ChainStates
  <2>2. t[r] = st[r] BY <1>1
  <2>3. r # GenesisRoot => t[st[r].parentRoot] = st[st[r].parentRoot] BY <1>1, <2>1 DEF ChainState
  <2>4. ASSUME NEW e \in Epochs
        PROVE  st[r].blockRoots[e] \in DOMAIN t /\ t[st[r].blockRoots[e]].slot <= ComputeStartSlotAtEpoch(e)
    <3> DEFINE x == st[r].blockRoots[e]
    <3>1. x \in DOMAIN st /\ st[x].slot <= ComputeStartSlotAtEpoch(e) BY <1>3
    <3> HIDE DEF x
    <3>2. t[x] = st[x] /\ x \in DOMAIN t BY <1>1, <3>1
    <3>3. x \in DOMAIN t /\ t[x].slot <= ComputeStartSlotAtEpoch(e) BY <3>1, <3>2
    <3> QED BY <3>3 DEF x
  <2> QED BY <2>1, <2>2, <2>3, <2>4 DEF ChainSlot
<1>6. ChainSlots(t) BY <1>1, <1>4, <1>5 DEF ChainSlots
<1> QED BY <1>6 DEF t

LEMMA TreeAges ==
    ASSUME NEW pa, NEW st, ChainStates(st), ChainSlots(st), Tree(pa, st)
    PROVE  Forest(pa) /\ Ageing(pa) /\ Undefined \notin DOMAIN pa.indices
<1>1. Forest(pa) BY DEF Tree
<1>2. Undefined \notin DOMAIN pa.indices BY KnownIsRoot
<1>3. ASSUME NEW i \in 1..Len(pa.nodes)
      PROVE  /\ pa.nodes[i].slot \in Nat
             /\ pa.nodes[i].parent # Undefined => pa.nodes[pa.nodes[i].parent].slot < pa.nodes[i].slot
  <2> DEFINE r == pa.nodes[i].blockRoot
             x == pa.nodes[i].parentRoot
  <2>1. /\ r \in DOMAIN pa.indices /\ pa.indices[r] = i
        /\ pa.nodes[i].parent = IndexOf(pa, x)
    BY <1>1 DEF Forest, HasBlock
  <2>2. GetNode(pa, r) = pa.nodes[i] /\ ParentRootIn(pa, r) = x BY <2>1 DEF GetNode, ParentRootIn
  <2> HIDE DEF r, x
  <2>3. r \in DOMAIN st /\ pa.nodes[i].slot = st[r].slot /\ x = st[r].parentRoot BY <2>1, <2>2 DEF Tree
  <2>4. st[r].slot \in Nat BY <2>3 DEF ChainStates, ChainState
  <2>5. ASSUME pa.nodes[i].parent # Undefined PROVE pa.nodes[pa.nodes[i].parent].slot < pa.nodes[i].slot
    <3>1. x \in DOMAIN pa.indices /\ pa.nodes[i].parent = pa.indices[x]
      BY <2>1, <2>5 DEF IndexOf, HasBlock
    <3>2. pa.nodes[pa.nodes[i].parent].slot = st[x].slot BY <3>1 DEF Tree, GetNode
    <3>3. r # GenesisRoot
      <4>1. x # HEX_ZERO_HASH BY <1>2, <3>1 DEF HEX_ZERO_HASH, Undefined
      <4> QED BY <2>3, <4>1 DEF ChainSlots, ChainSlot
    <3>4. st[x].slot < st[r].slot BY <2>3, <3>3 DEF ChainSlots, ChainSlot
    <3> QED BY <2>3, <3>2, <3>4
  <2> QED BY <2>3, <2>4, <2>5
<1> QED BY <1>1, <1>2, <1>3 DEF Ageing

LEMMA DescendsTransitive ==
    ASSUME NEW pa, Forest(pa), NEW a, NEW b, DescendsIn(pa, b, a), NEW c0, DescendsIn(pa, c0, b)
    PROVE  DescendsIn(pa, c0, a)
<1> DEFINE Bad == {c \in DOMAIN pa.indices : DescendsIn(pa, c, b) /\ ~DescendsIn(pa, c, a)}
           At == {pa.indices[c] : c \in Bad}
<1>1. \A c \in DOMAIN pa.indices : pa.indices[c] \in Nat BY ForestFacts
<1>2. ASSUME Bad # {} PROVE FALSE
  <2>1. At \in SUBSET Nat /\ At # {} BY <1>1, <1>2
  <2>2. PICK i \in At : \A j \in At : i <= j
    <3> HIDE DEF At
    <3> QED BY <2>1, NatHasLeast
  <2>3. PICK c \in Bad : i = pa.indices[c] OBVIOUS
  <2>4. c \in DOMAIN pa.indices /\ DescendsIn(pa, c, b) /\ ~DescendsIn(pa, c, a) BY <2>3
  <2>5. c # b BY <2>4
  <2> DEFINE p == ParentRootIn(pa, c)
  <2>6. p \in DOMAIN pa.indices /\ DescendsIn(pa, p, b) BY <2>4, <2>5, DescendsByParents
  <2>7. pa.indices[p] < pa.indices[c] BY <2>4, <2>6, ForestFacts
  <2>8. ~DescendsIn(pa, p, a) BY <2>4, <2>6, DescendsByParents
  <2> HIDE DEF p
  <2>9. pa.indices[p] \in At BY <2>6, <2>8
  <2>10. i <= pa.indices[p] BY <2>2, <2>9
  <2> HIDE DEF At, Bad
  <2> QED BY <1>1, <2>3, <2>4, <2>6, <2>7, <2>10
<1>3. c0 \in DOMAIN pa.indices BY DescendsUpwards
<1> QED BY <1>2, <1>3

\* Whatever descends in pa does so in q.
Follows(q, pa) == \A b, a : DescendsIn(pa, b, a) => DescendsIn(q, b, a)

LEMMA SameViewFollows ==
    ASSUME NEW pa, Forest(pa), NEW q, SameView(q, pa)
    PROVE  Follows(q, pa)
BY DescendsUpwards DEF SameView, Follows

LEMMA ExtendsFollows ==
    ASSUME NEW pa, Forest(pa), NEW q, NEW root, NEW slot, NEW parent, Extends(q, pa, root, slot, parent)
    PROVE  Follows(q, pa)
BY DescendsUpwards DEF Extends, Follows

LEMMA RootsUpSeenTheSame ==
    ASSUME NEW pa, NEW st, RootsUp(pa, st), NEW q, SameView(q, pa)
    PROVE  RootsUp(q, st)
BY DEF RootsUp, SameView

LEMMA RootsUpPruned ==
    ASSUME NEW pa, NEW st, RootsUp(pa, st), NEW q, LeftOf(q, pa)
    PROVE  RootsUp(q, st)
<1> SUFFICES ASSUME NEW b \in DOMAIN q.indices, NEW e \in Epochs, st[b].blockRoots[e] \in DOMAIN q.indices
             PROVE  DescendsIn(q, b, st[b].blockRoots[e])
  BY DEF RootsUp
<1> DEFINE x == st[b].blockRoots[e]
<1>1. b \in DOMAIN pa.indices /\ x \in DOMAIN pa.indices /\ x \in DOMAIN q.indices BY DEF LeftOf
<1>2. DescendsIn(pa, b, x) BY <1>1 DEF RootsUp
<1> HIDE DEF x
<1>3. DescendsIn(q, b, x) BY <1>1, <1>2 DEF LeftOf
<1> QED BY <1>3 DEF x

LEMMA RootsUpGrows ==
    ASSUME NEW st, ChainSlots(st), NEW pa, Tree(pa, st), RootsUp(pa, st), NEW root, root \notin DOMAIN st,
           NEW parent \in DOMAIN pa.indices, NEW slot, NEW s,
           PostOf(s, st[parent], root, parent, slot), NEW q, Extends(q, pa, root, slot, parent)
    PROVE  RootsUp(q, WithState(st, root, s))
<1> DEFINE t == WithState(st, root, s)
<1>1. /\ DOMAIN t = DOMAIN st \union {root} /\ t[root] = s
      /\ \A r \in DOMAIN st : t[r] = st[r]
  BY DEF WithState
<1> HIDE DEF t
<1>2. \A e \in Epochs : s.blockRoots[e] = root \/ s.blockRoots[e] = st[parent].blockRoots[e]
  BY DEF PostOf
<1>3. Forest(q) /\ DOMAIN q.indices = DOMAIN pa.indices \union {root} /\ ParentRootIn(q, root) = parent
  BY DEF Extends
<1>4. Forest(pa) /\ \A r \in DOMAIN pa.indices : r \in DOMAIN st BY DEF Tree
<1>5. Follows(q, pa) BY <1>4, ExtendsFollows
<1>6. ASSUME NEW b \in DOMAIN pa.indices, NEW e \in Epochs, st[b].blockRoots[e] \in DOMAIN q.indices
      PROVE  DescendsIn(q, b, st[b].blockRoots[e])
  <2>1. st[b].blockRoots[e] \in DOMAIN st BY <1>4 DEF ChainSlots, ChainSlot
  <2>2. st[b].blockRoots[e] \in DOMAIN pa.indices BY <1>3, <1>6, <2>1
  <2>3. DescendsIn(pa, b, st[b].blockRoots[e]) BY <2>2 DEF RootsUp
  <2> QED BY <1>5, <2>3 DEF Follows
<1>7. ASSUME NEW b \in DOMAIN q.indices, NEW e \in Epochs, t[b].blockRoots[e] \in DOMAIN q.indices
      PROVE  DescendsIn(q, b, t[b].blockRoots[e])
  <2>1. CASE b = root
    <3>1. CASE s.blockRoots[e] = root
      <4>1. DescendsIn(q, root, root) BY <1>3, DescendsByParents
      <4> QED BY <1>1, <2>1, <3>1, <4>1
    <3>2. CASE s.blockRoots[e] = st[parent].blockRoots[e]
      <4>1. t[b].blockRoots[e] = st[parent].blockRoots[e] BY <1>1, <2>1, <3>2
      <4>2. DescendsIn(q, parent, t[b].blockRoots[e]) BY <1>6, <1>7, <4>1
      <4>3. root \in DOMAIN q.indices /\ parent \in DOMAIN q.indices BY <1>3
      <4> QED BY <1>3, <2>1, <4>2, <4>3, DescendsByParents
    <3> QED BY <1>2, <3>1, <3>2
  <2>2. CASE b # root
    <3>1. b \in DOMAIN pa.indices /\ t[b] = st[b] BY <1>1, <1>3, <1>4, <2>2
    <3> QED BY <1>6, <1>7, <3>1
  <2> QED BY <2>1, <2>2
<1>8. RootsUp(q, t) BY <1>7 DEF RootsUp
<1> QED BY <1>8 DEF t

LEMMA PruneKeepsItsRoot ==
    ASSUME NEW pa, Forest(pa), NEW fr \in DOMAIN pa.indices
    PROVE  fr \in DOMAIN MaybePrune(pa, fr).indices
<1> DEFINE f == pa.indices[fr]
           kept == {r \in DOMAIN pa.indices : pa.indices[r] >= f}
           q == MaybePrune(pa, fr)
<1>1. f \in Nat BY ForestFacts
<1>2. DOMAIN pa = ArrayFields BY DEF Forest
<1>3. q.indices = [r \in kept |-> pa.indices[r] - f + 1] BY <1>2 DEF MaybePrune, HasBlock, ArrayFields
<1>4. f >= f
  <2> HIDE DEF f
  <2> QED BY <1>1
<1>5. fr \in kept BY <1>4
<1> HIDE DEF kept, q
<1>6. fr \in DOMAIN q.indices BY <1>3, <1>5
<1> QED BY <1>6 DEF q

-----------------------------------------------------------------------------
(* The checkpoints of the store. *)

\* F, J and B are the finalized, the justified and the best justified checkpoint.  The last
\* two are on the finalized chain, and an imported block's state has the last.  No imported
\* block's state has finalized more than the store.
CheckpointsAt(F, J, B, pa, st) ==
    /\ F.epoch \in Nat /\ J.epoch \in Nat /\ B.epoch \in Nat
    /\ F.epoch <= J.epoch /\ J.epoch <= B.epoch
    /\ DescendsIn(pa, J.root, F.root)
    /\ st[F.root].slot <= ComputeStartSlotAtEpoch(F.epoch)
    /\ B.epoch > F.epoch => /\ DescendsIn(pa, B.root, F.root)
                            /\ \E w \in DOMAIN st : st[w].currentJustified = B
    /\ \A r \in DOMAIN st : st[r].finalized.epoch <= F.epoch

\* What is still to be pruned was finalized before.
PrunedBelow(tasks, F, pa, st) ==
    \A c \in tasks : /\ c.root \in DOMAIN st
                     /\ c.root \in DOMAIN pa.indices => DescendsIn(pa, F.root, c.root)

\* The parts of onBlock.
Higher(f, s) == s.currentJustified.epoch > f.justifiedCheckpoint.epoch
Better(f, s) == Higher(f, s) /\ s.currentJustified.epoch > f.bestJustifiedCheckpoint.epoch
WithBest(f, s, balances) ==
    IF Better(f, s) THEN UpdateBestJustified(f, s.currentJustified, balances) ELSE f
Should(f, block, s, balances) ==
    IF Higher(f, s)
    THEN ShouldUpdateJustifiedCheckpoint(WithBest(f, s, balances), block.slot, s.currentJustified)
    ELSE "no"
AtFinalizedSlot(f) ==
    GetAncestor(f.protoArray, f.justifiedCheckpoint.root,
                ComputeStartSlotAtEpoch(f.finalizedCheckpoint.epoch))

\* What onBlock does when it does not throw.
TakesOver(g, f, block, s) ==
    /\ DOMAIN g = StoreFields
    /\ g.protoArray = ProtoOnBlock(f.protoArray, block)
    /\ g.finalizedCheckpoint = IF Finalizes(f, s) THEN s.finalized ELSE f.finalizedCheckpoint
    /\ \/ g.justifiedCheckpoint = s.currentJustified /\ (Higher(f, s) \/ Finalizes(f, s))
       \/ /\ g.justifiedCheckpoint = f.justifiedCheckpoint
          /\ Finalizes(f, s) => ~Higher(f, s) /\ AtFinalizedSlot(f) = s.finalized.root
    /\ g.bestJustifiedCheckpoint = IF Better(f, s) THEN s.currentJustified ELSE f.bestJustifiedCheckpoint

LEMMA OnBlockTakesOver ==
    ASSUME NEW f, DOMAIN f = StoreFields, NEW block, NEW s, NEW balances,
           Should(f, block, s, balances) # "throw", AtFinalizedSlot(f) # Undefined
    PROVE  TakesOver(OnBlock(f, block, s, balances), f, block, s)
<1> DEFINE g == OnBlock(f, block, s, balances)
           cj == s.currentJustified
           withBest == WithBest(f, s, balances)
           should == Should(f, block, s, balances)
           withFinalized == IF Finalizes(f, s) THEN [withBest EXCEPT !.finalizedCheckpoint = s.finalized]
                            ELSE withBest
           update == \/ should = "yes"
                     \/ Finalizes(f, s) /\ (Higher(f, s) \/ AtFinalizedSlot(f) # s.finalized.root)
           withJustified == IF update THEN UpdateJustified(withFinalized, cj, balances) ELSE withFinalized
<1>1. g = IF should = "throw" THEN withBest
          ELSE IF Finalizes(f, s) /\ ~Higher(f, s) /\ AtFinalizedSlot(f) = Undefined THEN withFinalized
          ELSE [withJustified EXCEPT !.protoArray = ProtoOnBlock(withJustified.protoArray, block)]
  BY DEF OnBlock, Should, WithBest, Better, Higher, AtFinalizedSlot
<1>2. g = [withJustified EXCEPT !.protoArray = ProtoOnBlock(withJustified.protoArray, block)]
  <2> HIDE DEF g, withJustified, withFinalized, withBest
  <2> QED BY <1>1
<1>3. should # "no" => Higher(f, s) BY DEF Should
<1>4. /\ DOMAIN withBest = StoreFields /\ withBest.protoArray = f.protoArray
      /\ withBest.finalizedCheckpoint = f.finalizedCheckpoint
      /\ withBest.justifiedCheckpoint = f.justifiedCheckpoint
      /\ withBest.bestJustifiedCheckpoint = IF Better(f, s) THEN cj ELSE f.bestJustifiedCheckpoint
  BY DEF WithBest, UpdateBestJustified, StoreFields
<1> HIDE DEF withBest, should, g, cj
<1>5. /\ DOMAIN withFinalized = StoreFields /\ withFinalized.protoArray = f.protoArray
      /\ withFinalized.finalizedCheckpoint = IF Finalizes(f, s) THEN s.finalized ELSE f.finalizedCheckpoint
      /\ withFinalized.justifiedCheckpoint = f.justifiedCheckpoint
      /\ withFinalized.bestJustifiedCheckpoint = IF Better(f, s) THEN cj ELSE f.bestJustifiedCheckpoint
  BY <1>4 DEF StoreFields
<1> HIDE DEF withFinalized
<1>6. /\ DOMAIN withJustified = StoreFields /\ withJustified.protoArray = f.protoArray
      /\ withJustified.finalizedCheckpoint = withFinalized.finalizedCheckpoint
      /\ withJustified.justifiedCheckpoint = IF update THEN cj ELSE f.justifiedCheckpoint
      /\ withJustified.bestJustifiedCheckpoint = withFinalized.bestJustifiedCheckpoint
  <2> HIDE DEF update
  <2> QED BY <1>5 DEF UpdateJustified, StoreFields
<1> HIDE DEF withJustified
<1>7. /\ DOMAIN g = StoreFields /\ g.protoArray = ProtoOnBlock(f.protoArray, block)
      /\ g.finalizedCheckpoint = withFinalized.finalizedCheckpoint
      /\ g.justifiedCheckpoint = IF update THEN cj ELSE f.justifiedCheckpoint
      /\ g.bestJustifiedCheckpoint = withFinalized.bestJustifiedCheckpoint
  <2> HIDE DEF update
  <2> QED BY <1>2, <1>6 DEF StoreFields
<1>8. \/ g.justifiedCheckpoint = cj /\ (Higher(f, s) \/ Finalizes(f, s))
      \/ /\ g.justifiedCheckpoint = f.justifiedCheckpoint
         /\ Finalizes(f, s) => ~Higher(f, s) /\ AtFinalizedSlot(f) = s.finalized.root
  <2>1. CASE update
    <3>1. g.justifiedCheckpoint = cj
      <4> HIDE DEF update
      <4> QED BY <1>7, <2>1
    <3>2. Higher(f, s) \/ Finalizes(f, s) BY <1>3, <2>1
    <3> QED BY <3>1, <3>2
  <2>2. CASE ~update
    <3>1. g.justifiedCheckpoint = f.justifiedCheckpoint
      <4> HIDE DEF update
      <4> QED BY <1>7, <2>2
    <3>2. Finalizes(f, s) => ~Higher(f, s) /\ AtFinalizedSlot(f) = s.finalized.root BY <2>2
    <3> QED BY <3>1, <3>2
  <2> QED BY <2>1, <2>2
<1> HIDE DEF update
<1>9. TakesOver(g, f, block, s) BY <1>5, <1>7, <1>8 DEF TakesOver, cj
<1> QED BY <1>9 DEF g

\* An ancestor at a slot exists when some block of the line is not after the slot.
LEMMA AncestorFound ==
    ASSUME NEW pa, Forest(pa), Ageing(pa), Undefined \notin DOMAIN pa.indices,
           NEW a, NEW b, DescendsIn(pa, b, a), NEW slot \in Nat, GetNode(pa, a).slot <= slot
    PROVE  GetAncestor(pa, b, slot) # Undefined
<1>1. a \in DOMAIN pa.indices /\ b \in DOMAIN pa.indices BY DescendsUpwards
<1>2. a \in OlderIn(pa, b, slot) BY <1>1 DEF OlderIn
<1>3. GetAncestor(pa, b, slot) \in OlderIn(pa, b, slot) BY <1>1, <1>2, AncestorIsYoungest
<1>4. GetAncestor(pa, b, slot) \in DOMAIN pa.indices BY <1>3 DEF OlderIn
<1> QED BY <1>4

\* s is a state at this slot whose chain is that of parent.
StateOn(s, parent, slot, st) ==
    /\ slot \in Nat /\ s.finalized.epoch \in Epochs /\ s.currentJustified.epoch \in Epochs
    /\ CheckpointsBefore(s, ComputeEpochAtSlot(slot))
    /\ \A e \in Epochs : e < ComputeEpochAtSlot(slot) => s.blockRoots[e] = st[parent].blockRoots[e]

LEMMA StateOnChain ==
    ASSUME NEW s, NEW parent, NEW slot, NEW st, StateOn(s, parent, slot, st)
    PROVE  /\ s.finalized.epoch \in Nat /\ s.currentJustified.epoch \in Nat
           /\ s.finalized.epoch # 0 => s.finalized.root = st[parent].blockRoots[s.finalized.epoch]
           /\ s.currentJustified.epoch # 0 =>
                 /\ s.currentJustified.epoch < ComputeEpochAtSlot(slot)
                 /\ s.currentJustified.root = st[parent].blockRoots[s.currentJustified.epoch]
<1> DEFINE n == ComputeEpochAtSlot(slot)
           F == s.finalized
           J == s.currentJustified
<1>1. F.epoch \in Nat /\ (F.epoch = 0 \/ (F.epoch < n /\ F.root = s.blockRoots[F.epoch]))
  BY DEF StateOn, CheckpointsBefore
<1>2. J.epoch \in Nat /\ (J.epoch = 0 \/ (J.epoch < n /\ J.root = s.blockRoots[J.epoch]))
  BY DEF StateOn, CheckpointsBefore
<1>3. F.epoch \in Epochs /\ J.epoch \in Epochs BY DEF StateOn
<1>4. \A e \in Epochs : e < n => s.blockRoots[e] = st[parent].blockRoots[e] BY DEF StateOn
<1> HIDE DEF F, J, n
<1>5. F.epoch # 0 => F.root = st[parent].blockRoots[F.epoch] BY <1>1, <1>3, <1>4
<1>6. J.epoch # 0 => J.epoch < n /\ J.root = st[parent].blockRoots[J.epoch] BY <1>2, <1>3, <1>4
<1> QED BY <1>1, <1>2, <1>5, <1>6 DEF F, J, n

\* onBlock does not throw past its checks.
LEMMA OnBlockDoesNotThrow ==
    ASSUME NEW f, NEW st, ChainStates(st), ChainSlots(st), Store(f, st),
           CheckpointsAt(f.finalizedCheckpoint, f.justifiedCheckpoint, f.bestJustifiedCheckpoint,
                         f.protoArray, st),
           NEW block, AcceptsBlock(f, block), NEW s, StateOn(s, block.parentRoot, block.slot, st),
           NEW balances
    PROVE  Should(f, block, s, balances) # "throw" /\ AtFinalizedSlot(f) # Undefined
<1> DEFINE F == f.finalizedCheckpoint
           J == f.justifiedCheckpoint
           cj == s.currentJustified
           pa == f.protoArray
           jslot == ComputeStartSlotAtEpoch(J.epoch)
<1>1. /\ F.epoch \in Nat /\ J.epoch \in Nat /\ F.epoch <= J.epoch
      /\ DescendsIn(pa, J.root, F.root) /\ st[F.root].slot <= ComputeStartSlotAtEpoch(F.epoch)
  BY DEF CheckpointsAt
<1>2. DOMAIN f = StoreFields /\ F.root # Undefined /\ Tree(pa, st) BY DEF Store
<1> HIDE DEF F, J, pa
<1>3. Forest(pa) /\ Ageing(pa) /\ Undefined \notin DOMAIN pa.indices BY <1>2, TreeAges
<1>4. F.root \in DOMAIN pa.indices BY <1>1, <1>3, DescendsUpwards
<1>5. GetNode(pa, F.root).slot = st[F.root].slot /\ st[F.root].slot \in Nat
  BY <1>2, <1>4 DEF Tree, ChainStates, ChainState
<1>6. /\ ComputeStartSlotAtEpoch(F.epoch) \in Nat /\ jslot \in Nat
      /\ ComputeStartSlotAtEpoch(F.epoch) <= jslot
  BY <1>1, StartsGrow
<1>7. AtFinalizedSlot(f) # Undefined
  <2>1. GetAncestor(pa, J.root, ComputeStartSlotAtEpoch(F.epoch)) # Undefined
    BY <1>1, <1>3, <1>5, <1>6, AncestorFound
  <2> QED BY <2>1 DEF AtFinalizedSlot, pa, J, F
<1>8. ASSUME Higher(f, s) PROVE Should(f, block, s, balances) # "throw"
  <2> DEFINE h == WithBest(f, s, balances)
  <2>1. h.justifiedCheckpoint = J /\ h.protoArray = pa
    BY <1>2 DEF WithBest, UpdateBestJustified, StoreFields, J, pa
  <2>2. cj.epoch > J.epoch BY <1>8 DEF Higher, J
  <2>3. cj.epoch \in Nat /\ (cj.epoch # 0 => /\ cj.epoch < ComputeEpochAtSlot(block.slot)
                                             /\ cj.root = st[block.parentRoot].blockRoots[cj.epoch])
    BY StateOnChain
  <2>4. cj.epoch \in Epochs /\ block.slot \in Nat BY DEF StateOn
  <2>5. GetAncestor(pa, block.parentRoot, ComputeStartSlotAtEpoch(F.epoch)) = F.root
    BY DEF AcceptsBlock, pa, F
  <2>6. ComputeEpochAtSlot(block.slot) \in Nat BY <2>4, EpochsGrow
  <2> DEFINE parent == block.parentRoot
             slot == block.slot
  <2> HIDE DEF cj, h, parent, slot
  <2>7. cj.epoch > F.epoch /\ cj.epoch # 0 /\ J.epoch < ComputeEpochAtSlot(slot)
    BY <1>1, <2>2, <2>3, <2>6 DEF slot
  <2>8. cj.root = st[parent].blockRoots[cj.epoch] BY <2>3, <2>7 DEF parent
  <2>9. DescendsIn(pa, cj.root, F.root)
    BY <1>1, <1>2, <2>4, <2>5, <2>7, <2>8, CheckpointOnChain DEF parent
  <2>10. st[F.root].slot <= jslot
    <3> HIDE DEF jslot
    <3> QED BY <1>1, <1>5, <1>6
  <2>11. GetAncestor(pa, cj.root, jslot) # Undefined
    <3> HIDE DEF jslot
    <3> QED BY <1>3, <1>5, <1>6, <2>9, <2>10, AncestorFound
  <2>12. ~(jslot >= slot)
    <3>1. jslot < slot BY <1>1, <2>4, <2>7, BeforeStart DEF slot
    <3>2. slot \in Nat BY <2>4 DEF slot
    <3> HIDE DEF jslot
    <3> QED BY <1>6, <3>1, <3>2
  <2>13. ShouldUpdateJustifiedCheckpoint(h, slot, cj) \in {"yes", "no"}
    BY <2>1, <2>11, <2>12 DEF ShouldUpdateJustifiedCheckpoint
  <2>14. Should(f, block, s, balances) = ShouldUpdateJustifiedCheckpoint(h, slot, cj)
    BY <1>8 DEF Should, h, slot, cj
  <2> QED BY <2>13, <2>14
<1>9. ~Higher(f, s) => Should(f, block, s, balances) = "no" BY DEF Should
<1> QED BY <1>7, <1>8, <1>9

\* External: no imported state justified a chain without what s finalizes.
FinalSafe(s, st) ==
    \A w \in DOMAIN st :
        0 < s.finalized.epoch /\ s.finalized.epoch < st[w].currentJustified.epoch =>
            st[st[w].currentJustified.root].blockRoots[s.finalized.epoch] = s.finalized.root

\* The checkpoints after onBlock with state s, before the block's state is kept.
MovedTo(F, J, B, s, pa, st) ==
    /\ F.epoch \in Nat /\ J.epoch \in Nat /\ B.epoch \in Nat
    /\ F.epoch <= J.epoch /\ J.epoch <= B.epoch
    /\ DescendsIn(pa, J.root, F.root)
    /\ st[F.root].slot <= ComputeStartSlotAtEpoch(F.epoch)
    /\ B.epoch > F.epoch => /\ DescendsIn(pa, B.root, F.root)
                            /\ B = s.currentJustified \/ \E w \in DOMAIN st : st[w].currentJustified = B
    /\ s.finalized.epoch <= F.epoch
    /\ \A r \in DOMAIN st : st[r].finalized.epoch <= F.epoch

\* What a state finalizes anew: a block on the chain of its parent, from which what it justified
\* and the store's best justified checkpoint descend.
LEMMA NewlyFinalized ==
    ASSUME NEW pa, NEW st, ChainStates(st), ChainSlots(st), Tree(pa, st), RootsUp(pa, st),
           NEW F, NEW J, NEW B, CheckpointsAt(F, J, B, pa, st), F.root # Undefined,
           NEW parent, GetAncestor(pa, parent, ComputeStartSlotAtEpoch(F.epoch)) = F.root,
           NEW s, NEW slot, StateOn(s, parent, slot, st), s.finalized.epoch > F.epoch,
           s.finalized.epoch <= s.currentJustified.epoch, FinalSafe(s, st)
    PROVE  /\ DescendsIn(pa, s.finalized.root, F.root)
           /\ st[s.finalized.root].slot <= ComputeStartSlotAtEpoch(s.finalized.epoch)
           /\ DescendsIn(pa, s.currentJustified.root, s.finalized.root)
           /\ B.epoch > s.finalized.epoch => DescendsIn(pa, B.root, s.finalized.root)
<1> DEFINE N == s.finalized
           cj == s.currentJustified
<1>1. /\ N.epoch \in Nat /\ cj.epoch \in Nat
      /\ N.epoch # 0 => N.root = st[parent].blockRoots[N.epoch]
      /\ cj.epoch # 0 => cj.root = st[parent].blockRoots[cj.epoch]
  BY StateOnChain
<1>2. N.epoch \in Epochs /\ cj.epoch \in Epochs BY DEF StateOn
<1>3. N.epoch > F.epoch /\ N.epoch <= cj.epoch /\ F.epoch \in Nat BY DEF CheckpointsAt
<1> HIDE DEF N, cj
<1>4. N.epoch # 0 /\ cj.epoch # 0 BY <1>1, <1>3
<1>5. Forest(pa) BY DEF Tree
<1>6. DescendsIn(pa, N.root, F.root) BY <1>1, <1>2, <1>3, <1>4, CheckpointOnChain
<1>7. DescendsIn(pa, parent, F.root) BY <1>5, AncestorIsUp
<1>8. parent \in DOMAIN pa.indices /\ N.root \in DOMAIN pa.indices BY <1>5, <1>6, <1>7, DescendsUpwards
<1>9. parent \in DOMAIN st /\ N.root \in DOMAIN st BY <1>8 DEF Tree
<1>10. st[N.root].slot <= ComputeStartSlotAtEpoch(N.epoch)
  BY <1>1, <1>2, <1>4, <1>9 DEF ChainSlots, ChainSlot
<1>11. DescendsIn(pa, parent, N.root) BY <1>1, <1>2, <1>4, <1>8 DEF RootsUp
<1>12. st[N.root].slot <= ComputeStartSlotAtEpoch(cj.epoch)
  <2>1. /\ ComputeStartSlotAtEpoch(N.epoch) \in Nat /\ ComputeStartSlotAtEpoch(cj.epoch) \in Nat
        /\ ComputeStartSlotAtEpoch(N.epoch) <= ComputeStartSlotAtEpoch(cj.epoch)
    BY <1>1, <1>3, StartsGrow
  <2>2. st[N.root].slot \in Nat BY <1>9 DEF ChainStates, ChainState
  <2> QED BY <1>10, <2>1, <2>2
<1>13. DescendsIn(pa, cj.root, N.root)
  BY <1>1, <1>2, <1>4, <1>8, <1>11, <1>12 DEF Tree, RootsOnChain
<1>14. ASSUME B.epoch > N.epoch PROVE DescendsIn(pa, B.root, N.root)
  <2>1. B.epoch \in Nat BY DEF CheckpointsAt
  <2>2. B.epoch > F.epoch BY <1>1, <1>3, <1>14, <2>1
  <2>3. DescendsIn(pa, B.root, F.root) /\ \E w \in DOMAIN st : st[w].currentJustified = B
    BY <2>2 DEF CheckpointsAt
  <2>4. PICK w \in DOMAIN st : st[w].currentJustified = B BY <2>3
  <2>5. 0 < N.epoch /\ N.epoch < B.epoch BY <1>1, <1>4, <1>14, <2>1
  <2>6. st[B.root].blockRoots[N.epoch] = N.root BY <2>4, <2>5 DEF FinalSafe, N
  <2>7. B.root \in DOMAIN pa.indices BY <1>5, <2>3, DescendsUpwards
  <2> QED BY <1>2, <1>8, <2>6, <2>7 DEF RootsUp
<1> QED BY <1>6, <1>10, <1>13, <1>14 DEF N, cj

LEMMA OnBlockCheckpoints ==
    ASSUME NEW f, NEW st, ChainStates(st), ChainSlots(st), Store(f, st), RootsUp(f.protoArray, st),
           CheckpointsAt(f.finalizedCheckpoint, f.justifiedCheckpoint, f.bestJustifiedCheckpoint,
                         f.protoArray, st),
           NEW block, AcceptsBlock(f, block), NEW s, StateOn(s, block.parentRoot, block.slot, st),
           Finalizes(f, s) => s.finalized.epoch <= s.currentJustified.epoch /\ FinalSafe(s, st),
           NEW g, TakesOver(g, f, block, s)
    PROVE  MovedTo(g.finalizedCheckpoint, g.justifiedCheckpoint, g.bestJustifiedCheckpoint, s,
                   f.protoArray, st)
<1> DEFINE F == f.finalizedCheckpoint
           J == f.justifiedCheckpoint
           B == f.bestJustifiedCheckpoint
           F2 == g.finalizedCheckpoint
           J2 == g.justifiedCheckpoint
           B2 == g.bestJustifiedCheckpoint
           N == s.finalized
           cj == s.currentJustified
           pa == f.protoArray
           parent == block.parentRoot
           slot == block.slot
<1>1. CheckpointsAt(F, J, B, pa, st) /\ StateOn(s, parent, slot, st) /\ RootsUp(pa, st) OBVIOUS
<1>2. /\ F2 = IF Finalizes(f, s) THEN N ELSE F
      /\ \/ J2 = cj /\ (Higher(f, s) \/ Finalizes(f, s))
         \/ J2 = J /\ (Finalizes(f, s) => ~Higher(f, s) /\ AtFinalizedSlot(f) = N.root)
      /\ B2 = IF Better(f, s) THEN cj ELSE B
  BY DEF TakesOver
<1>3. /\ Finalizes(f, s) <=> N.epoch > F.epoch
      /\ Higher(f, s) <=> cj.epoch > J.epoch
      /\ Better(f, s) <=> Higher(f, s) /\ cj.epoch > B.epoch
  BY DEF Finalizes, Higher, Better
<1>4. GetAncestor(pa, parent, ComputeStartSlotAtEpoch(F.epoch)) = F.root BY DEF AcceptsBlock
<1>5. AtFinalizedSlot(f) = GetAncestor(pa, J.root, ComputeStartSlotAtEpoch(F.epoch))
  BY DEF AtFinalizedSlot
<1>6. F.root # Undefined /\ Tree(pa, st) BY DEF Store
<1>7. /\ N.epoch \in Nat /\ cj.epoch \in Nat
      /\ cj.epoch # 0 => cj.root = st[parent].blockRoots[cj.epoch]
  BY StateOnChain
<1>8. N.epoch \in Epochs /\ cj.epoch \in Epochs BY DEF StateOn
<1>9. Finalizes(f, s) => N.epoch <= cj.epoch /\ FinalSafe(s, st) OBVIOUS
<1>10. MovedTo(F2, J2, B2, s, pa, st)
  <2> HIDE DEF F, J, B, F2, J2, B2, pa, parent, slot
  <2>1. /\ F.epoch \in Nat /\ J.epoch \in Nat /\ B.epoch \in Nat
        /\ F.epoch <= J.epoch /\ J.epoch <= B.epoch
        /\ DescendsIn(pa, J.root, F.root) /\ st[F.root].slot <= ComputeStartSlotAtEpoch(F.epoch)
        /\ \A r \in DOMAIN st : st[r].finalized.epoch <= F.epoch
    BY <1>1 DEF CheckpointsAt
  <2>2. B.epoch > F.epoch => DescendsIn(pa, B.root, F.root) /\ \E w \in DOMAIN st : st[w].currentJustified = B
    BY <1>1 DEF CheckpointsAt
  <2>3. Forest(pa) BY <1>6 DEF Tree
  <2>4. CASE ~Finalizes(f, s)
    <3> HIDE DEF N, cj
    <3>1. F2 = F /\ N.epoch <= F.epoch BY <1>2, <1>3, <1>7, <2>1, <2>4
    <3>2. cj.epoch > J.epoch => DescendsIn(pa, cj.root, F.root)
      <4> SUFFICES ASSUME cj.epoch > J.epoch PROVE DescendsIn(pa, cj.root, F.root) OBVIOUS
      <4>1. cj.epoch > F.epoch /\ cj.epoch # 0 BY <1>7, <2>1
      <4>2. cj.root = st[parent].blockRoots[cj.epoch] BY <1>7, <4>1
      <4> QED BY <1>4, <1>6, <1>8, <2>1, <4>1, <4>2, CheckpointOnChain
    <3>3. (J2 = cj /\ cj.epoch > J.epoch) \/ J2 = J BY <1>2, <1>3, <2>4
    <3>4. (B2 = cj /\ cj.epoch > J.epoch /\ cj.epoch > B.epoch) \/ (B2 = B /\ ~(cj.epoch > J.epoch /\ cj.epoch > B.epoch))
      BY <1>2, <1>3
    <3>5. J2.epoch \in Nat /\ B2.epoch \in Nat BY <1>7, <2>1, <3>3, <3>4
    <3>6. F.epoch <= J2.epoch BY <1>7, <2>1, <3>3
    <3>7. J2.epoch <= B2.epoch BY <1>7, <2>1, <3>3, <3>4
    <3>8. DescendsIn(pa, J2.root, F.root) BY <2>1, <3>2, <3>3
    <3>9. B2.epoch > F.epoch => /\ DescendsIn(pa, B2.root, F.root)
                                /\ B2 = cj \/ \E w \in DOMAIN st : st[w].currentJustified = B2
      BY <2>2, <3>2, <3>4
    <3> QED BY <2>1, <3>1, <3>5, <3>6, <3>7, <3>8, <3>9 DEF MovedTo, N, cj
  <2>5. CASE Finalizes(f, s)
    <3>1. F2 = N /\ N.epoch > F.epoch BY <1>2, <1>3, <2>5
    <3>2. N.epoch <= cj.epoch /\ FinalSafe(s, st) BY <1>9, <2>5
    <3>3. /\ DescendsIn(pa, N.root, F.root) /\ st[N.root].slot <= ComputeStartSlotAtEpoch(N.epoch)
          /\ DescendsIn(pa, cj.root, N.root)
          /\ B.epoch > N.epoch => DescendsIn(pa, B.root, N.root)
      BY <1>1, <1>4, <1>6, <3>1, <3>2, NewlyFinalized
    <3> HIDE DEF N, cj
    <3>4. J2 = cj \/ (J2 = J /\ ~(cj.epoch > J.epoch) /\ AtFinalizedSlot(f) = N.root)
      BY <1>2, <1>3, <2>5
    <3>5. (B2 = cj /\ cj.epoch > B.epoch) \/ (B2 = B /\ ~(cj.epoch > J.epoch /\ cj.epoch > B.epoch))
      BY <1>2, <1>3
    <3>6. J2.epoch \in Nat /\ B2.epoch \in Nat BY <1>7, <2>1, <3>4, <3>5
    <3>7. N.epoch <= J2.epoch BY <1>7, <2>1, <3>2, <3>4
    <3>8. J2.epoch <= B2.epoch BY <1>7, <2>1, <3>4, <3>5
    <3>9. DescendsIn(pa, J2.root, N.root)
      <4>1. CASE J2 = cj BY <3>3, <4>1
      <4>2. CASE J2 = J /\ AtFinalizedSlot(f) = N.root
        <5>1. N.root # Undefined
          <6>1. N.root \in DOMAIN pa.indices BY <2>3, <3>3, DescendsUpwards
          <6> QED BY <1>6, <6>1, KnownIsRoot
        <5>2. GetAncestor(pa, J.root, ComputeStartSlotAtEpoch(F.epoch)) = N.root BY <1>5, <4>2
        <5> QED BY <2>3, <4>2, <5>1, <5>2, AncestorIsUp
      <4> QED BY <3>4, <4>1, <4>2
    <3>10. B2.epoch > N.epoch => /\ DescendsIn(pa, B2.root, N.root)
                                 /\ B2 = cj \/ \E w \in DOMAIN st : st[w].currentJustified = B2
      <4> SUFFICES ASSUME B2.epoch > N.epoch
                   PROVE  /\ DescendsIn(pa, B2.root, N.root)
                          /\ B2 = cj \/ \E w \in DOMAIN st : st[w].currentJustified = B2
        OBVIOUS
      <4>1. CASE B2 = cj BY <3>3, <4>1
      <4>2. CASE B2 = B
        <5>1. B.epoch > N.epoch /\ B.epoch > F.epoch BY <1>7, <2>1, <3>1, <4>2
        <5> QED BY <2>2, <3>3, <4>2, <5>1
      <4> QED BY <3>5, <4>1, <4>2
    <3>11. \A r \in DOMAIN st : st[r].finalized.epoch <= N.epoch
      <4> SUFFICES ASSUME NEW r \in DOMAIN st PROVE st[r].finalized.epoch <= N.epoch OBVIOUS
      <4>1. st[r].finalized.epoch <= F.epoch BY <2>1
      <4>2. st[r].finalized.epoch \in Nat BY EpochsAreNat DEF ChainStates, ChainState
      <4> QED BY <1>7, <2>1, <3>1, <4>1, <4>2
    <3>12. N.epoch <= N.epoch BY <1>7
    <3> QED BY <1>7, <3>1, <3>3, <3>6, <3>7, <3>8, <3>9, <3>10, <3>11, <3>12 DEF MovedTo, N, cj
  <2> QED BY <2>4, <2>5
<1> QED BY <1>10

-----------------------------------------------------------------------------
(* Steps of the store. *)

\* The second inductive invariant.
Sound(f, tasks, st) ==
    /\ ChainStates(st) /\ Store(f, st) /\ ChainSlots(st) /\ RootsUp(f.protoArray, st)
    /\ CheckpointsAt(f.finalizedCheckpoint, f.justifiedCheckpoint, f.bestJustifiedCheckpoint,
                     f.protoArray, st)
    /\ PrunedBelow(tasks, f.finalizedCheckpoint, f.protoArray, st)

SoundInv == Sound(fc, toPrune, states)

LEMMA CheckpointsWithState ==
    ASSUME NEW F, NEW J, NEW B, NEW s, NEW pa, NEW st, MovedTo(F, J, B, s, pa, st),
           F.root \in DOMAIN st, NEW root, root \notin DOMAIN st, NEW q, Follows(q, pa)
    PROVE  CheckpointsAt(F, J, B, q, WithState(st, root, s))
<1> DEFINE t == WithState(st, root, s)
<1>1. /\ DOMAIN t = DOMAIN st \union {root} /\ t[root] = s
      /\ \A r \in DOMAIN st : t[r] = st[r]
  BY DEF WithState
<1> HIDE DEF t
<1>2. /\ F.epoch \in Nat /\ J.epoch \in Nat /\ B.epoch \in Nat
      /\ F.epoch <= J.epoch /\ J.epoch <= B.epoch
      /\ DescendsIn(q, J.root, F.root)
  BY DEF MovedTo, Follows
<1>3. t[F.root].slot <= ComputeStartSlotAtEpoch(F.epoch) BY <1>1 DEF MovedTo
<1>4. ASSUME B.epoch > F.epoch
      PROVE  DescendsIn(q, B.root, F.root) /\ \E w \in DOMAIN t : t[w].currentJustified = B
  <2>1. DescendsIn(q, B.root, F.root) BY <1>4 DEF MovedTo, Follows
  <2>2. B = s.currentJustified \/ \E w \in DOMAIN st : st[w].currentJustified = B BY <1>4 DEF MovedTo
  <2>3. \E w \in DOMAIN t : t[w].currentJustified = B BY <1>1, <2>2
  <2> QED BY <2>1, <2>3
<1>5. \A r \in DOMAIN t : t[r].finalized.epoch <= F.epoch BY <1>1 DEF MovedTo
<1>6. CheckpointsAt(F, J, B, q, t) BY <1>2, <1>3, <1>4, <1>5 DEF CheckpointsAt
<1> QED BY <1>6 DEF t

LEMMA CheckpointsWithoutState ==
    ASSUME NEW F, NEW J, NEW B, NEW st, NEW root \in DOMAIN st, NEW pa,
           MovedTo(F, J, B, st[root], pa, st)
    PROVE  CheckpointsAt(F, J, B, pa, st)
BY DEF MovedTo, CheckpointsAt

LEMMA CheckpointsFollow ==
    ASSUME NEW F, NEW J, NEW B, NEW st, NEW pa, CheckpointsAt(F, J, B, pa, st), NEW q, Follows(q, pa)
    PROVE  CheckpointsAt(F, J, B, q, st)
BY DEF CheckpointsAt, Follows

\* The tasks stay below the finalized block as it moves up.
LEMMA PrunedBelowMoved ==
    ASSUME NEW tasks, NEW F, NEW pa, NEW st, PrunedBelow(tasks, F, pa, st), Forest(pa),
           NEW G, G = F \/ DescendsIn(pa, G.root, F.root), G.root \in DOMAIN st,
           NEW q, Forest(q), Follows(q, pa), NEW t, DOMAIN st \subseteq DOMAIN t,
           \A r \in DOMAIN q.indices : r \in DOMAIN st => r \in DOMAIN pa.indices,
           NEW more, more \subseteq tasks \union {G}
    PROVE  PrunedBelow(more, G, q, t)
<1>1. ASSUME NEW c \in tasks, c.root \in DOMAIN q.indices PROVE DescendsIn(q, G.root, c.root)
  <2>1. c.root \in DOMAIN st BY DEF PrunedBelow
  <2>2. DescendsIn(pa, F.root, c.root) BY <1>1, <2>1 DEF PrunedBelow
  <2>3. DescendsIn(pa, G.root, c.root) BY <2>2, DescendsTransitive
  <2> QED BY <2>3 DEF Follows
<1>2. G.root \in DOMAIN q.indices => DescendsIn(q, G.root, G.root) BY DescendsByParents
<1>3. \A c \in tasks : c.root \in DOMAIN t BY DEF PrunedBelow
<1> QED BY <1>1, <1>2, <1>3 DEF PrunedBelow

LEMMA HeadKeepsSound ==
    ASSUME NEW f, NEW tasks, NEW st, Sound(f, tasks, st)
    PROVE  Sound(UpdateHead(f), tasks, st)
<1> DEFINE g == UpdateHead(f)
           q == g.protoArray
           pa == f.protoArray
<1>1. /\ ChainStates(st) /\ Store(f, st) /\ ChainSlots(st) /\ RootsUp(pa, st)
      /\ CheckpointsAt(f.finalizedCheckpoint, f.justifiedCheckpoint, f.bestJustifiedCheckpoint, pa, st)
      /\ PrunedBelow(tasks, f.finalizedCheckpoint, pa, st)
  BY DEF Sound
<1>2. DOMAIN f = StoreFields /\ Tree(pa, st) /\ Forest(pa) BY <1>1 DEF Store, Tree
<1>3. /\ g.finalizedCheckpoint = f.finalizedCheckpoint /\ KeepsJustified(g, f)
      /\ SameBlocks(q, pa) /\ Store(g, st)
  BY <1>1, <1>2, HeadKeepsBlocks, HeadKeepsStore
<1> HIDE DEF g
<1>4. /\ g.justifiedCheckpoint = f.justifiedCheckpoint
      /\ g.bestJustifiedCheckpoint = f.bestJustifiedCheckpoint
  BY <1>3 DEF KeepsJustified
<1>5. SameView(q, pa) BY <1>2, <1>3, SameBlocksSameView
<1>6. Follows(q, pa) BY <1>2, <1>5, SameViewFollows
<1>7. RootsUp(q, st) BY <1>1, <1>5, RootsUpSeenTheSame
<1>8. CheckpointsAt(f.finalizedCheckpoint, f.justifiedCheckpoint, f.bestJustifiedCheckpoint, q, st)
  BY <1>1, <1>6, CheckpointsFollow
<1>9. DOMAIN q.indices = DOMAIN pa.indices BY <1>5 DEF SameView
<1>10. PrunedBelow(tasks, f.finalizedCheckpoint, q, st) BY <1>1, <1>6, <1>9 DEF PrunedBelow, Follows
<1>11. Sound(g, tasks, st) BY <1>1, <1>3, <1>4, <1>7, <1>8, <1>10 DEF Sound
<1> QED BY <1>11 DEF g

\* onBlock for a block with a state on its parent's chain, which finalizes only what is safe.
LEMMA OnBlockIsSound ==
    ASSUME NEW f, NEW tasks, NEW st, Sound(f, tasks, st), NEW block, AcceptsBlock(f, block),
           NEW s, StateOn(s, block.parentRoot, block.slot, st),
           Finalizes(f, s) => s.finalized.epoch <= s.currentJustified.epoch /\ FinalSafe(s, st),
           NEW balances, NEW g, g = OnBlock(f, block, s, balances)
    PROVE  /\ g.protoArray = ProtoOnBlock(f.protoArray, block)
           /\ MovedTo(g.finalizedCheckpoint, g.justifiedCheckpoint, g.bestJustifiedCheckpoint, s,
                      f.protoArray, st)
           /\ ~Finalizes(f, s) => g.finalizedCheckpoint = f.finalizedCheckpoint
<1>1. /\ ChainStates(st) /\ Store(f, st) /\ ChainSlots(st) /\ RootsUp(f.protoArray, st)
      /\ CheckpointsAt(f.finalizedCheckpoint, f.justifiedCheckpoint, f.bestJustifiedCheckpoint,
                       f.protoArray, st)
  BY DEF Sound
<1>2. DOMAIN f = StoreFields BY <1>1 DEF Store
<1>3. Should(f, block, s, balances) # "throw" /\ AtFinalizedSlot(f) # Undefined
  BY <1>1, OnBlockDoesNotThrow
<1>4. TakesOver(g, f, block, s) BY <1>2, <1>3, OnBlockTakesOver
<1>5. MovedTo(g.finalizedCheckpoint, g.justifiedCheckpoint, g.bestJustifiedCheckpoint, s, f.protoArray, st)
  BY <1>1, <1>4, OnBlockCheckpoints
<1>6. g.protoArray = ProtoOnBlock(f.protoArray, block) /\ (~Finalizes(f, s) => g.finalizedCheckpoint = f.finalizedCheckpoint)
  BY <1>4 DEF TakesOver
<1> QED BY <1>5, <1>6

LEMMA ImportIsSound ==
    ASSUME SoundInv, NEW root \in Roots, NEW parent \in DOMAIN states, NEW slot \in BlockSlots[root],
           NEW pt, NEW ct, ImportBlock(root, parent, slot, pt, ct)
    PROVE  SoundInv'
<1> DEFINE s == PostState(root, parent, slot, pt, ct)
           block == ProtoBlock(root, s)
           balances == JustifiedBalances(fc, s)
           g == OnBlock(fc, block, s, balances)
           pa == fc.protoArray
           q == ProtoOnBlock(pa, block)
           t == WithState(states, root, s)
           more == IF g.finalizedCheckpoint # fc.finalizedCheckpoint
                   THEN toPrune \union {g.finalizedCheckpoint} ELSE toPrune
           epoch == ComputeEpochAtSlot(slot)
<1>1. /\ root \notin DOMAIN states /\ slot > states[parent].slot /\ BeaconState(s)
      /\ \A w \in DOMAIN states : AccountablySafe(states[w], s)
      /\ AcceptsBlock(fc, block)
      /\ fc' = IF HasBlock(g.protoArray, root) THEN UpdateHead(g) ELSE g
      /\ states' = IF HasBlock(g.protoArray, root) THEN WithState(states, root, s) ELSE states
      /\ toPrune' = more
  BY DEF ImportBlock, EmitFinalized
<1>2. slot \in Slots BY SlotsAssumption
<1>3. slot \in Nat BY <1>2, SlotsAreInEpochs
<1>4. /\ ChainStates(states) /\ ChainState(states, parent) /\ Store(fc, states) /\ ChainSlots(states)
      /\ RootsUp(pa, states) /\ PrunedBelow(toPrune, fc.finalizedCheckpoint, pa, states)
  BY DEF SoundInv, Sound, ChainStates
<1>5. PostOf(s, states[parent], root, parent, slot)
  <2> HIDE DEF s
  <2> QED BY <1>1, <1>2, <1>4, PostStateIsPost DEF ChainState, s
<1>6. /\ s.finalized.epoch \in Epochs /\ s.currentJustified.epoch \in Epochs
      /\ s.finalized.epoch <= s.currentJustified.epoch
  BY <1>1 DEF BeaconState
<1>7. FinalSafe(s, states) BY <1>1 DEF AccountablySafe, FinalSafe
<1> HIDE DEF s
<1>8. /\ s.slot = slot /\ s.parentRoot = parent /\ CheckpointsBefore(s, epoch)
      /\ \A e \in Epochs : e < epoch => s.blockRoots[e] = states[parent].blockRoots[e]
  BY <1>5 DEF PostOf
<1>9. block.blockRoot = root /\ block.slot = slot /\ block.parentRoot = parent BY <1>8 DEF ProtoBlock
<1> HIDE DEF block, balances
<1>10. parent \in DOMAIN pa.indices BY <1>1, <1>9 DEF AcceptsBlock, HasBlock
<1>11. Tree(pa, states) /\ Forest(pa) /\ DOMAIN fc = StoreFields BY <1>4 DEF Store, Tree
<1>12. StateOn(s, block.parentRoot, block.slot, states) BY <1>3, <1>6, <1>8, <1>9 DEF StateOn
<1> HIDE DEF g
<1>13. /\ g.protoArray = q
       /\ MovedTo(g.finalizedCheckpoint, g.justifiedCheckpoint, g.bestJustifiedCheckpoint, s, pa, states)
  <2> HIDE DEF q, pa
  <2> QED BY <1>1, <1>6, <1>7, <1>12, OnBlockIsSound DEF SoundInv, q, pa, g
<1>14. ~HasBlock(pa, root) BY <1>1, <1>11 DEF Tree, HasBlock
<1>15. root # HEX_ZERO_HASH BY RootsAssumption
<1>16. \A r \in DOMAIN pa.indices : ParentRootIn(pa, r) # root
  <2> SUFFICES ASSUME NEW r \in DOMAIN pa.indices PROVE ParentRootIn(pa, r) # root OBVIOUS
  <2>1. r \in DOMAIN states /\ ParentRootIn(pa, r) = states[r].parentRoot BY <1>11 DEF Tree
  <2>2. states[r].parentRoot \in DOMAIN states \union {HEX_ZERO_HASH}
    BY <1>4, <2>1 DEF ChainStates, ChainState
  <2> QED BY <1>1, <1>15, <2>1, <2>2
<1>17. Extends(q, pa, root, slot, parent)
  <2>1. parent # root BY <1>1
  <2> QED BY <1>9, <1>11, <1>14, <1>16, <2>1, OnBlockExtends
<1> HIDE DEF q, epoch
<1>18. fc' = UpdateHead(g) /\ states' = t /\ toPrune' = more
  <2>1. HasBlock(g.protoArray, root) BY <1>13, <1>17 DEF Extends, HasBlock
  <2> QED BY <1>1, <2>1
<1>19. ChainStates(t) /\ ChainSlots(t) BY <1>1, <1>3, <1>4, <1>5, <1>6, StatesGrow, SlotsGrow
<1>20. Tree(q, t) BY <1>1, <1>3, <1>4, <1>5, <1>10, <1>11, <1>15, <1>17, TreeGrows
<1>21. RootsUp(q, t) BY <1>1, <1>4, <1>5, <1>10, <1>11, <1>17, RootsUpGrows
<1>22. Follows(q, pa) BY <1>11, <1>17, ExtendsFollows
<1>23. /\ Moves(g, fc) /\ DOMAIN g = StoreFields
       /\ g.finalizedCheckpoint.epoch \in Nat /\ g.finalizedCheckpoint.root # Undefined
  BY <1>1, <1>4, <1>6, <1>8, <1>9, <1>11, OnBlockMoves, OnBlockOutcomes DEF g
<1>24. Store(g, t) BY <1>13, <1>20, <1>23 DEF Store
<1>25. g.finalizedCheckpoint.root \in DOMAIN states
  <2>1. DescendsIn(pa, g.justifiedCheckpoint.root, g.finalizedCheckpoint.root) BY <1>13 DEF MovedTo
  <2>2. g.finalizedCheckpoint.root \in DOMAIN pa.indices BY <1>11, <2>1, DescendsUpwards
  <2> QED BY <1>11, <2>2 DEF Tree
<1>26. CheckpointsAt(g.finalizedCheckpoint, g.justifiedCheckpoint, g.bestJustifiedCheckpoint, q, t)
  BY <1>1, <1>13, <1>22, <1>25, CheckpointsWithState
<1>27. PrunedBelow(more, g.finalizedCheckpoint, q, t)
  <2>1. more \subseteq toPrune \union {g.finalizedCheckpoint} OBVIOUS
  <2>2. Forest(q) /\ DOMAIN q.indices = DOMAIN pa.indices \union {root} BY <1>17 DEF Extends
  <2>3. DOMAIN states \subseteq DOMAIN t BY DEF WithState
  <2>4. \A r \in DOMAIN q.indices : r \in DOMAIN states => r \in DOMAIN pa.indices BY <1>1, <2>2
  <2>5. \/ g.finalizedCheckpoint = fc.finalizedCheckpoint
        \/ DescendsIn(pa, g.finalizedCheckpoint.root, fc.finalizedCheckpoint.root)
    BY <1>23 DEF Moves
  <2> HIDE DEF more, t, pa
  <2> QED BY <1>4, <1>11, <1>22, <1>25, <2>1, <2>2, <2>3, <2>4, <2>5, PrunedBelowMoved
<1> HIDE DEF t, more
<1>28. Sound(g, more, t) BY <1>13, <1>19, <1>21, <1>24, <1>26, <1>27 DEF Sound
<1>29. Sound(UpdateHead(g), more, t) BY <1>28, HeadKeepsSound
<1> QED BY <1>18, <1>29 DEF SoundInv

\* A block that is run again finalizes nothing: its state did when it was imported.
LEMMA ReplayIsSound ==
    ASSUME SoundInv, NEW root \in DOMAIN states \ {GenesisRoot}, ReplayBlock(root)
    PROVE  SoundInv'
<1> DEFINE s == states[root]
           block == ProtoBlock(root, s)
           balances == JustifiedBalances(fc, s)
           g == OnBlock(fc, block, s, balances)
           pa == fc.protoArray
           F == fc.finalizedCheckpoint
           epoch == ComputeEpochAtSlot(s.slot)
<1>1. /\ AcceptsBlock(fc, block) /\ fc' = g /\ states' = states
      /\ toPrune' = IF g.finalizedCheckpoint # F THEN toPrune \union {g.finalizedCheckpoint} ELSE toPrune
  BY DEF ReplayBlock, EmitFinalized
<1>2. /\ ChainStates(states) /\ ChainState(states, root) /\ Store(fc, states) /\ ChainSlots(states)
      /\ ChainSlot(states, root) /\ RootsUp(pa, states) /\ PrunedBelow(toPrune, F, pa, states)
      /\ CheckpointsAt(F, fc.justifiedCheckpoint, fc.bestJustifiedCheckpoint, pa, states)
  BY DEF SoundInv, Sound, ChainStates, ChainSlots
<1>3. /\ s.finalized.epoch \in Epochs /\ s.currentJustified.epoch \in Epochs
      /\ s.slot \in Nat /\ CheckpointsBefore(s, epoch)
      /\ \A e \in Epochs : e < epoch => s.blockRoots[e] = states[s.parentRoot].blockRoots[e]
  BY <1>2 DEF ChainState, ChainSlot
<1>4. ~Finalizes(fc, s)
  <2>1. s.finalized.epoch <= F.epoch /\ F.epoch \in Nat BY <1>2 DEF CheckpointsAt
  <2>2. s.finalized.epoch \in Nat BY <1>3, EpochsAreNat
  <2> QED BY <2>1, <2>2 DEF Finalizes
<1>5. block.blockRoot = root /\ block.parentRoot = s.parentRoot /\ block.slot = s.slot BY DEF ProtoBlock
<1>6. StateOn(s, block.parentRoot, block.slot, states) BY <1>3, <1>5 DEF StateOn
<1> HIDE DEF block, balances
<1>7. Tree(pa, states) /\ DOMAIN fc = StoreFields BY <1>2 DEF Store
<1>8. HasBlock(pa, root)
  <2>1. s.parentRoot \in DOMAIN pa.indices BY <1>1, <1>5 DEF AcceptsBlock, HasBlock
  <2> QED BY <1>7, <2>1 DEF Tree, HasBlock
<1>9. ProtoOnBlock(pa, block) = pa BY <1>5, <1>8 DEF ProtoOnBlock
<1> HIDE DEF g
<1>10. /\ g.protoArray = pa /\ g.finalizedCheckpoint = F
       /\ MovedTo(g.finalizedCheckpoint, g.justifiedCheckpoint, g.bestJustifiedCheckpoint, s, pa, states)
  <2> HIDE DEF s
  <2> QED BY <1>1, <1>4, <1>6, <1>9, OnBlockIsSound DEF SoundInv, g
<1>11. CheckpointsAt(g.finalizedCheckpoint, g.justifiedCheckpoint, g.bestJustifiedCheckpoint, pa, states)
  BY <1>10, CheckpointsWithoutState
<1>12. Store(g, states)
  <2>1. DOMAIN g = StoreFields BY <1>7, OnBlockOutcomes DEF g
  <2> QED BY <1>2, <1>10, <2>1 DEF Store
<1>13. Sound(g, toPrune, states) BY <1>2, <1>10, <1>11, <1>12 DEF Sound
<1>14. toPrune' = toPrune BY <1>1, <1>10
<1> QED BY <1>1, <1>13, <1>14 DEF SoundInv

\* A tick leaves the justified checkpoint or installs the best, which is on the finalized chain.
LEMMA TickCheckpoints ==
    ASSUME NEW f, DOMAIN f = StoreFields
    PROVE  /\ OnTick(f).bestJustifiedCheckpoint = f.bestJustifiedCheckpoint
           /\ \/ OnTick(f).justifiedCheckpoint = f.justifiedCheckpoint
              \/ /\ f.bestJustifiedCheckpoint.epoch > f.justifiedCheckpoint.epoch
                 /\ OnTick(f).justifiedCheckpoint = f.bestJustifiedCheckpoint
<1> DEFINE t == [f EXCEPT !.currentSlot = @ + 1]
           u == UpdateJustified(t, f.bestJustifiedCheckpoint, f.bestJustifiedBalances)
<1>1. OnTick(f) = t \/ (OnTick(f) = u /\ f.bestJustifiedCheckpoint.epoch > f.justifiedCheckpoint.epoch)
  BY DEF OnTick
<1>2. /\ DOMAIN t = StoreFields /\ t.bestJustifiedCheckpoint = f.bestJustifiedCheckpoint
      /\ t.justifiedCheckpoint = f.justifiedCheckpoint
  BY DEF StoreFields
<1> HIDE DEF t
<1>3. /\ u.bestJustifiedCheckpoint = f.bestJustifiedCheckpoint
      /\ u.justifiedCheckpoint = f.bestJustifiedCheckpoint
  BY <1>2 DEF UpdateJustified, StoreFields
<1> QED BY <1>1, <1>2, <1>3

\* A step that keeps the array and the finalized and best justified checkpoints, and keeps the
\* justified one or installs the best.
LEMMA KeepingIsSound ==
    ASSUME SoundInv, Keeps(fc', fc), UNCHANGED <<states, toPrune>>,
           fc'.bestJustifiedCheckpoint = fc.bestJustifiedCheckpoint,
           \/ fc'.justifiedCheckpoint = fc.justifiedCheckpoint
           \/ /\ fc.bestJustifiedCheckpoint.epoch > fc.justifiedCheckpoint.epoch
              /\ fc'.justifiedCheckpoint = fc.bestJustifiedCheckpoint
    PROVE  SoundInv'
<1> DEFINE F == fc.finalizedCheckpoint
           J == fc.justifiedCheckpoint
           B == fc.bestJustifiedCheckpoint
           pa == fc.protoArray
           K == fc'.justifiedCheckpoint
<1>1. /\ ChainStates(states) /\ Store(fc, states) /\ ChainSlots(states) /\ RootsUp(pa, states)
      /\ CheckpointsAt(F, J, B, pa, states) /\ PrunedBelow(toPrune, F, pa, states)
  BY DEF SoundInv, Sound
<1>2. /\ fc'.finalizedCheckpoint = F /\ fc'.protoArray = pa /\ DOMAIN fc' = StoreFields
      /\ fc'.bestJustifiedCheckpoint = B /\ states' = states /\ toPrune' = toPrune
  BY DEF Keeps
<1>3. K = J \/ (B.epoch > J.epoch /\ K = B) OBVIOUS
<1>4. Store(fc', states) BY <1>1, <1>2 DEF Store
<1>5. CheckpointsAt(F, K, B, pa, states)
  <2> HIDE DEF F, J, B, pa, K
  <2>1. CASE K = J BY <1>1, <2>1
  <2>2. CASE B.epoch > J.epoch /\ K = B
    <3>1. /\ F.epoch \in Nat /\ J.epoch \in Nat /\ B.epoch \in Nat
          /\ F.epoch <= J.epoch /\ J.epoch <= B.epoch
      BY <1>1 DEF CheckpointsAt
    <3>2. B.epoch > F.epoch /\ F.epoch <= B.epoch /\ B.epoch <= B.epoch BY <2>2, <3>1
    <3> QED BY <1>1, <2>2, <3>1, <3>2 DEF CheckpointsAt
  <2> QED BY <1>3, <2>1, <2>2
<1>6. Sound(fc', toPrune, states) BY <1>1, <1>2, <1>4, <1>5 DEF Sound
<1> QED BY <1>2, <1>6 DEF SoundInv

\* A task prunes at what was finalized, so the checkpoints of now stay.
LEMMA PruneIsSound ==
    ASSUME SoundInv, NEW checkpoint \in toPrune, Prune(checkpoint)
    PROVE  SoundInv'
<1> DEFINE F == fc.finalizedCheckpoint
           J == fc.justifiedCheckpoint
           B == fc.bestJustifiedCheckpoint
           pa == fc.protoArray
           fr == checkpoint.root
           q == MaybePrune(pa, fr)
           less == toPrune \ {checkpoint}
<1>1. /\ ChainStates(states) /\ Store(fc, states) /\ ChainSlots(states) /\ RootsUp(pa, states)
      /\ CheckpointsAt(F, J, B, pa, states) /\ PrunedBelow(toPrune, F, pa, states)
  BY DEF SoundInv, Sound
<1>2. DOMAIN fc = StoreFields /\ Tree(pa, states) /\ Forest(pa) BY <1>1 DEF Store, Tree
<1>3. fc' = [fc EXCEPT !.protoArray = q] /\ states' = states /\ toPrune' = less BY DEF Prune
<1>4. LeftOf(q, pa) BY <1>2, PruneLeaves
<1>5. fr \in DOMAIN pa.indices => fr \in DOMAIN q.indices BY <1>2, PruneKeepsItsRoot
<1>6. fr \notin DOMAIN pa.indices => q = pa BY DEF MaybePrune, HasBlock
<1> HIDE DEF q
<1>7. /\ DOMAIN fc' = StoreFields /\ fc'.protoArray = q /\ fc'.finalizedCheckpoint = F
      /\ fc'.justifiedCheckpoint = J /\ fc'.bestJustifiedCheckpoint = B
  BY <1>2, <1>3 DEF StoreFields
<1> HIDE DEF F, J, B, pa, fr
<1>8. Tree(q, states) /\ RootsUp(q, states) BY <1>1, <1>2, <1>4, TreePruned, RootsUpPruned
<1>9. F.root \in DOMAIN q.indices
  <2>1. F.root \in DOMAIN pa.indices BY <1>1, <1>2, DescendsUpwards DEF CheckpointsAt
  <2>2. CASE fr \in DOMAIN pa.indices
    <3>1. DescendsIn(pa, F.root, fr) BY <1>1, <2>2 DEF PrunedBelow, fr
    <3> QED BY <1>4, <1>5, <2>1, <2>2, <3>1 DEF LeftOf
  <2>3. CASE fr \notin DOMAIN pa.indices BY <1>6, <2>1, <2>3
  <2> QED BY <2>2, <2>3
<1>10. \A b : DescendsIn(pa, b, F.root) => DescendsIn(q, b, F.root)
  <2> SUFFICES ASSUME NEW b, DescendsIn(pa, b, F.root) PROVE DescendsIn(q, b, F.root) OBVIOUS
  <2>1. b \in DOMAIN pa.indices BY <1>2, DescendsUpwards
  <2> QED BY <1>4, <1>9, <2>1 DEF LeftOf
<1>11. CheckpointsAt(F, J, B, q, states) BY <1>1, <1>10 DEF CheckpointsAt
<1>12. PrunedBelow(less, F, q, states)
  <2> SUFFICES ASSUME NEW c \in less
               PROVE  /\ c.root \in DOMAIN states
                      /\ c.root \in DOMAIN q.indices => DescendsIn(q, F.root, c.root)
    BY DEF PrunedBelow
  <2>1. c.root \in DOMAIN states BY <1>1 DEF PrunedBelow
  <2>2. ASSUME c.root \in DOMAIN q.indices PROVE DescendsIn(q, F.root, c.root)
    <3>1. c.root \in DOMAIN pa.indices /\ F.root \in DOMAIN pa.indices BY <1>4, <1>9, <2>2 DEF LeftOf
    <3>2. DescendsIn(pa, F.root, c.root) BY <1>1, <3>1 DEF PrunedBelow
    <3> QED BY <1>4, <2>2, <3>1, <3>2 DEF LeftOf
  <2> QED BY <2>1, <2>2
<1>13. Store(fc', states) BY <1>1, <1>7, <1>8 DEF Store, F
<1>14. Sound(fc', less, states) BY <1>1, <1>7, <1>8, <1>11, <1>12, <1>13 DEF Sound
<1> QED BY <1>3, <1>14 DEF SoundInv

LEMMA NextIsSound ==
    ASSUME SoundInv, [Next]_vars
    PROVE  SoundInv'
<1>0. DOMAIN fc = StoreFields BY DEF SoundInv, Sound, Store
<1>1. ASSUME NEW root \in Roots, NEW parent \in DOMAIN states, NEW slot \in BlockSlots[root],
             NEW pt \in BOOLEAN, NEW ct \in BOOLEAN, ImportBlock(root, parent, slot, pt, ct)
      PROVE  SoundInv'
  BY <1>1, ImportIsSound
<1>2. ASSUME NEW root \in DOMAIN states \ {GenesisRoot}, ReplayBlock(root) PROVE SoundInv'
  BY <1>2, ReplayIsSound
<1>3. ASSUME NEW v, NEW slot, NEW root, ImportAttestation(v, slot, root) PROVE SoundInv'
  <2>1. PICK a : fc' = OnAttestation(fc, a) /\ UNCHANGED <<states, toPrune>>
    BY <1>3 DEF ImportAttestation
  <2>2. Keeps(fc', fc) /\ KeepsJustified(fc', fc) BY <1>0, <2>1, AttestationKeeps
  <2> QED BY <2>1, <2>2, KeepingIsSound DEF KeepsJustified
<1>4. CASE UpdateTime
  <2> DEFINE t == OnTick(fc)
  <2>1. fc' = ProcessAttestationQueue(t) /\ UNCHANGED <<states, toPrune>> BY <1>4 DEF UpdateTime
  <2>2. Keeps(t, fc) BY <1>0, TickKeeps
  <2>3. /\ t.bestJustifiedCheckpoint = fc.bestJustifiedCheckpoint
        /\ \/ t.justifiedCheckpoint = fc.justifiedCheckpoint
           \/ /\ fc.bestJustifiedCheckpoint.epoch > fc.justifiedCheckpoint.epoch
              /\ t.justifiedCheckpoint = fc.bestJustifiedCheckpoint
    BY <1>0, TickCheckpoints
  <2> HIDE DEF t
  <2>4. DOMAIN t = StoreFields BY <2>2 DEF Keeps
  <2>5. Keeps(fc', t) /\ KeepsJustified(fc', t) BY <2>1, <2>4, QueueKeeps
  <2>6. /\ fc'.justifiedCheckpoint = t.justifiedCheckpoint
        /\ fc'.bestJustifiedCheckpoint = t.bestJustifiedCheckpoint
    BY <2>5 DEF KeepsJustified
  <2>7. Keeps(fc', fc) BY <2>2, <2>5 DEF Keeps
  <2> QED BY <2>1, <2>3, <2>6, <2>7, KeepingIsSound
<1>5. ASSUME NEW checkpoint \in toPrune, Prune(checkpoint) PROVE SoundInv'
  BY <1>5, PruneIsSound
<1>6. CASE UNCHANGED vars
  <2>1. fc' = fc /\ UNCHANGED <<states, toPrune>> BY <1>6 DEF vars
  <2>2. Keeps(fc', fc) BY <1>0, <2>1 DEF Keeps
  <2> QED BY <2>1, <2>2, KeepingIsSound
<1> QED BY <1>1, <1>2, <1>3, <1>4, <1>5, <1>6 DEF Next

LEMMA InitIsSound ==
    ASSUME Init PROVE SoundInv
<1> DEFINE pa == fc.protoArray
           F == fc.finalizedCheckpoint
<1>1. ChainStates(states) /\ Store(fc, states) /\ AtGenesis BY InitIsChain DEF ChainInv
<1>2. Tree(pa, states) /\ Forest(pa) BY <1>1 DEF Store, Tree
<1>3. /\ DOMAIN states = {GenesisRoot} /\ toPrune = {}
      /\ states[GenesisRoot].slot = 0 /\ states[GenesisRoot].parentRoot = HEX_ZERO_HASH
      /\ states[GenesisRoot].currentJustified.epoch = 0 /\ states[GenesisRoot].finalized.epoch = 0
      /\ \A e \in Epochs : states[GenesisRoot].blockRoots[e] = GenesisRoot
  BY <1>1 DEF AtGenesis
<1>4. /\ GenesisRoot \in DOMAIN pa.indices
      /\ F.epoch = 0 /\ F.root = GenesisRoot
      /\ fc.justifiedCheckpoint = F /\ fc.bestJustifiedCheckpoint = F
  BY <1>1 DEF AtGenesis
<1>5. DescendsIn(pa, GenesisRoot, GenesisRoot) BY <1>2, <1>4, DescendsByParents
<1>6. \A e \in Epochs : ComputeStartSlotAtEpoch(e) \in Nat /\ 0 <= ComputeStartSlotAtEpoch(e)
  <2> SUFFICES ASSUME NEW e \in Epochs PROVE ComputeStartSlotAtEpoch(e) \in Nat OBVIOUS
  <2> QED BY EpochsAreNat, SlotsAssumption, StartsGrow
<1>7. 0 \in Epochs
  <2>1. ComputeEpochAtSlot(MaxSlot) \in Nat BY SlotsAssumption, EpochsGrow
  <2> QED BY <2>1 DEF Epochs
<1>8. ChainSlots(states) BY <1>3, <1>6, <1>7 DEF ChainSlots, ChainSlot
<1>9. RootsUp(pa, states)
  <2>1. \A b \in DOMAIN pa.indices : b = GenesisRoot BY <1>2, <1>3 DEF Tree
  <2> QED BY <1>3, <1>5, <2>1 DEF RootsUp
<1>10. CheckpointsAt(F, F, F, pa, states)
  <2>1. states[F.root].slot <= ComputeStartSlotAtEpoch(F.epoch) BY <1>3, <1>4, <1>6, <1>7
  <2> QED BY <1>3, <1>4, <1>5, <2>1 DEF CheckpointsAt
<1>11. PrunedBelow(toPrune, F, pa, states) BY <1>3 DEF PrunedBelow
<1> QED BY <1>1, <1>4, <1>8, <1>9, <1>10, <1>11 DEF SoundInv, Sound

-----------------------------------------------------------------------------
(* What the invariant says of the store. *)

LEMMA SoundIsSound ==
    ASSUME SoundInv PROVE StoreIsSound
<1> DEFINE pa == fc.protoArray
           F == fc.finalizedCheckpoint
           J == fc.justifiedCheckpoint
           B == fc.bestJustifiedCheckpoint
<1>1. /\ ChainStates(states) /\ ChainSlots(states) /\ Tree(pa, states)
      /\ CheckpointsAt(F, J, B, pa, states)
  BY DEF SoundInv, Sound, Store
<1>2. Forest(pa) /\ Ageing(pa) /\ Undefined \notin DOMAIN pa.indices BY <1>1, TreeAges
<1>3. pArray = pa /\ Known = DOMAIN pa.indices BY DEF pArray, Known
<1>4. ArraySound
  <2>1. \A i \in 1..Len(pa.nodes) :
          /\ pa.nodes[i].blockRoot \in DOMAIN pa.indices /\ pa.indices[pa.nodes[i].blockRoot] = i
          /\ pa.nodes[i].parent = IndexOf(pa, pa.nodes[i].parentRoot)
          /\ pa.nodes[i].parent < i
    BY <1>2 DEF Forest, HasBlock
  <2>2. \A r \in DOMAIN pa.indices : pa.indices[r] \in 1..Len(pa.nodes) /\ pa.nodes[pa.indices[r]].blockRoot = r
    BY <1>2, ForestFacts
  <2> HIDE DEF pa
  <2>3. DOMAIN pa.indices = {pa.nodes[i].blockRoot : i \in 1..Len(pa.nodes)} BY <2>1, <2>2
  <2> QED BY <1>3, <2>1, <2>3 DEF ArraySound
<1>5. AncestryAgrees
  <2>1. \A a, b \in DOMAIN pa.indices : IsDescendant(pa, a, b) <=> DescendsIn(pa, b, a)
    BY <1>2, DescendantByParents
  <2>2. ASSUME NEW b \in DOMAIN pa.indices, NEW slot \in Slots
        PROVE  IF OlderIn(pa, b, slot) = {} THEN GetAncestor(pa, b, slot) = Undefined
               ELSE /\ GetAncestor(pa, b, slot) \in OlderIn(pa, b, slot)
                    /\ \A a \in OlderIn(pa, b, slot) :
                          GetNode(pa, a).slot <= GetNode(pa, GetAncestor(pa, b, slot)).slot
    <3>1. slot \in Nat BY SlotsAssumption DEF Slots
    <3> QED BY <1>2, <3>1, AncestorIsYoungest
  <2> HIDE DEF pa
  <2> QED BY <1>3, <2>1, <2>2 DEF AncestryAgrees, DescendsFrom, OlderIn
<1> HIDE DEF F, J, B
<1>6. /\ F.epoch \in Nat /\ J.epoch \in Nat /\ F.epoch <= J.epoch /\ J.epoch <= B.epoch
      /\ B.epoch \in Nat /\ DescendsIn(pa, J.root, F.root)
      /\ B.epoch > F.epoch => DescendsIn(pa, B.root, F.root)
  BY <1>1 DEF CheckpointsAt
<1>7. F.root \in DOMAIN pa.indices /\ J.root \in DOMAIN pa.indices BY <1>2, <1>6, DescendsUpwards
<1>8. CheckpointOrder BY <1>6 DEF CheckpointOrder, F, J, B
<1>9. GetBlock(fc, F.root) = F.root /\ GetBlock(fc, J.root) = J.root
  <2>1. DescendsIn(pa, F.root, F.root) BY <1>2, <1>7, DescendsByParents
  <2>2. IsDescendant(pa, F.root, F.root) /\ IsDescendant(pa, F.root, J.root)
    BY <1>2, <1>6, <1>7, <2>1, DescendantByParents
  <2> QED BY <1>7, <2>2 DEF GetBlock, HasBlock, IsDescendantOfFinalized, F
<1>10. CheckpointBlocksKnown
  <2>1. GetFinalizedBlock(fc) # Undefined /\ GetJustifiedBlock(fc) # Undefined
    BY <1>2, <1>7, <1>9 DEF GetFinalizedBlock, GetJustifiedBlock, F, J
  <2>2. B.epoch > J.epoch => B.root \in DOMAIN pa.indices
    <3> SUFFICES ASSUME B.epoch > J.epoch PROVE B.root \in DOMAIN pa.indices OBVIOUS
    <3>1. B.epoch > F.epoch BY <1>6
    <3>2. DescendsIn(pa, B.root, F.root) BY <1>6, <3>1
    <3> QED BY <1>2, <3>2, DescendsUpwards
  <2> QED BY <1>3, <1>6, <2>1, <2>2 DEF CheckpointBlocksKnown, DescendsFrom, F, J, B
<1> QED BY <1>4, <1>5, <1>8, <1>10 DEF StoreIsSound

\* Through any imports, forks, replays, clock slots and prunings, in any order, the array stays a
\* forest in which isDescendant and getAncestor tell the ancestry of the parent roots; the
\* finalized, the justified and the best justified block stay in it, the justified one below the
\* finalized one; and their epochs keep their order, although onBlock compares the justified
\* chain with the start slot of the previous finalized epoch and tasks prune late.
THEOREM StoreStaysSound == Spec => []StoreIsSound
<1>1. Init => SoundInv BY InitIsSound
<1>2. SoundInv /\ [Next]_vars => SoundInv' BY NextIsSound
<1>3. SoundInv => StoreIsSound BY SoundIsSound
<1> QED BY <1>1, <1>2, <1>3, PTL DEF Spec
=============================================================================
