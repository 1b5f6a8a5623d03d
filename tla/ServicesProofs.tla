--------------------------- MODULE ServicesProofs ---------------------------
(***************************************************************************)
(* Proofs about the services around the chain, in the composition of       *)
(* MCServices.tla, for every value of the constants of the component:      *)
(*   - the repositories on the shared store implement maps of their own;   *)
(*   - gossip validation lets through one message of a validator for a     *)
(*     slot or epoch, and drops no sound block;                            *)
(*   - the aggregates of the operation pools have the bits of their        *)
(*     signatures;                                                         *)
(*   - no attestation subnet's topic stays subscribed for nobody, and the  *)
(*     ENR tells the random subnets;                                       *)
(*   - what the validator API answers belongs to one branch, and duties    *)
(*     are named by what decides them;                                     *)
(*   - what the light client server offers, a light client accepts.        *)
(***************************************************************************)
EXTENDS MCServices, FiniteSetTheorems, WellFoundedInduction, TLAPS

-----------------------------------------------------------------------------
(* Lists of ids in their order. *)

IsAscending(s, S) ==
    s \in [1 .. Cardinality(S) -> S] /\ \A i, j \in DOMAIN s : i < j => s[i] < s[j]
Ascending(S) ==
    CHOOSE s \in [1 .. Cardinality(S) -> S] : \A i, j \in DOMAIN s : i < j => s[i] < s[j]

\* A set of numbers has a least one.
LEMMA NatHasLeast ==
    ASSUME NEW T \in SUBSET Nat, T # {}
    PROVE  \E x \in T : \A y \in T : x <= y
<1>1. PICK x \in T : \A y \in T : <<y, x>> \notin OpToRel(<, Nat)
  BY NatLessThanWellFounded, WFMin
<1>2. \A y \in T : ~(y < x) BY <1>1 DEF OpToRel
<1> QED BY <1>2

\* A finite set of numbers can be listed in order: every number at its rank.
LEMMA AscendingExists ==
    ASSUME NEW S \in SUBSET Nat, IsFiniteSet(S)
    PROVE  \E s : IsAscending(s, S)
<1> DEFINE n == Cardinality(S)
           Upto(x) == {y \in S : y <= x}
           rank == [x \in S |-> Cardinality(Upto(x))]
<1>1. n \in Nat BY FS_CardinalityType
<1>0. \A x \in S : x \in Nat OBVIOUS
<1>2. \A x \in S : IsFiniteSet(Upto(x)) /\ Cardinality(Upto(x)) \in Nat /\ Cardinality(Upto(x)) <= n
                   /\ Cardinality(Upto(x)) # 0
  <2> SUFFICES ASSUME NEW x \in S
               PROVE  IsFiniteSet(Upto(x)) /\ Cardinality(Upto(x)) \in Nat /\ Cardinality(Upto(x)) <= n
                      /\ Cardinality(Upto(x)) # 0
    OBVIOUS
  <2>1. Upto(x) \in SUBSET S /\ x \in Upto(x) OBVIOUS
  <2>2. IsFiniteSet(Upto(x)) /\ Cardinality(Upto(x)) <= n BY <2>1, FS_Subset
  <2>3. Cardinality(Upto(x)) \in Nat BY <2>2, FS_CardinalityType
  <2>4. Cardinality(Upto(x)) # 0 BY <2>1, <2>2, FS_EmptySet
  <2> QED BY <2>2, <2>3, <2>4
<1>3. \A x, y \in S : x < y => rank[x] < rank[y]
  <2> SUFFICES ASSUME NEW x \in S, NEW y \in S, x < y PROVE Cardinality(Upto(x)) < Cardinality(Upto(y))
    OBVIOUS
  <2>1. Upto(x) \in SUBSET Upto(y) /\ y \in Upto(y) /\ y \notin Upto(x)
    <3>1. x \in Nat /\ y \in Nat BY <1>0
    <3>2. y <= y /\ ~(y <= x) BY <3>1
    <3>3. ASSUME NEW z \in Upto(x) PROVE z \in Upto(y) BY <1>0, <3>1, <3>3
    <3> QED BY <3>2, <3>3
  <2>2. Cardinality(Upto(x)) <= Cardinality(Upto(y)) /\ Cardinality(Upto(x)) # Cardinality(Upto(y))
    BY <1>2, <2>1, FS_Subset
  <2> QED BY <1>2, <2>2
<1>4. rank \in [S -> 1..n] BY <1>1, <1>2
<1>5. \A x, y \in S : rank[x] = rank[y] => x = y
  <2> SUFFICES ASSUME NEW x \in S, NEW y \in S, x # y PROVE rank[x] # rank[y] OBVIOUS
  <2>1. x < y \/ y < x BY <1>0
  <2>2. rank[x] \in Nat /\ rank[y] \in Nat BY <1>2
  <2> QED BY <1>3, <2>1, <2>2
<1>6. rank \in Surjection(S, 1..n)
  <2>1. rank \in Injection(S, 1..n)
    <3> HIDE DEF rank, n
    <3> QED BY <1>4, <1>5 DEF Injection, IsInjective
  <2>2. IsFiniteSet(1..n) /\ Cardinality(1..n) = n BY <1>1, FS_Interval
  <2> QED BY <2>1, <2>2, FS_Injection
<1> DEFINE s == [k \in 1..n |-> CHOOSE x \in S : rank[x] = k]
<1> HIDE DEF rank
<1>7. \A k \in 1..n : s[k] \in S /\ rank[s[k]] = k BY <1>6 DEF Surjection
<1>8. \A i, j \in 1..n : i < j => s[i] < s[j]
  <2> SUFFICES ASSUME NEW i \in 1..n, NEW j \in 1..n, i < j, ~(s[i] < s[j]) PROVE FALSE OBVIOUS
  <2>1. s[i] \in S /\ s[j] \in S /\ rank[s[i]] = i /\ rank[s[j]] = j BY <1>7
  <2>2. s[j] < s[i] \/ s[j] = s[i]
    <3>1. s[i] \in Nat /\ s[j] \in Nat BY <1>0, <2>1
    <3> HIDE DEF s
    <3> QED BY <3>1
  <2>3. CASE s[j] = s[i] BY <2>1, <2>3, <1>1
  <2>4. CASE s[j] < s[i]
    <3> HIDE DEF s
    <3>1. rank[s[j]] < rank[s[i]] BY <2>1, <2>4, <1>3
    <3> QED BY <2>1, <3>1, <1>1
  <2> QED BY <2>2, <2>3, <2>4
<1>9. s \in [1..n -> S] BY <1>7
<1>10. IsAscending(s, S)
  <2>1. DOMAIN s = 1..n OBVIOUS
  <2> HIDE DEF s
  <2> QED BY <1>8, <1>9, <2>1 DEF IsAscending
<1> QED BY <1>10

\* There is one such list: where two lists first differ, one of them misses a number.
LEMMA AscendingUnique ==
    ASSUME NEW S \in SUBSET Nat, IsFiniteSet(S), NEW s, NEW t, IsAscending(s, S), IsAscending(t, S)
    PROVE  s = t
<1> DEFINE n == Cardinality(S)
<1>1. n \in Nat /\ IsFiniteSet(1..n) /\ Cardinality(1..n) = n BY FS_CardinalityType, FS_Interval
<1>2. ASSUME NEW f, IsAscending(f, S)
      PROVE  \A x \in S : \E k \in 1..n : f[k] = x
  <2>1. f \in [1..n -> S] /\ \A i, j \in 1..n : i < j => f[i] < f[j] BY <1>2 DEF IsAscending
  <2>2. \A i, j \in 1..n : f[i] = f[j] => i = j
    <3> SUFFICES ASSUME NEW i \in 1..n, NEW j \in 1..n, i # j PROVE f[i] # f[j] OBVIOUS
    <3>1. i < j \/ j < i BY <1>1
    <3>2. f[i] \in Nat /\ f[j] \in Nat BY <2>1
    <3> QED BY <2>1, <3>1, <3>2
  <2>3. f \in Injection(1..n, S)
    <3> HIDE DEF n
    <3> QED BY <2>1, <2>2 DEF Injection, IsInjective
  <2>4. f \in Surjection(1..n, S) BY <1>1, <2>3, FS_Injection
  <2> QED BY <2>4 DEF Surjection
<1>3. s \in [1..n -> S] /\ \A i, j \in 1..n : i < j => s[i] < s[j] BY DEF IsAscending
<1>4. t \in [1..n -> S] /\ \A i, j \in 1..n : i < j => t[i] < t[j] BY DEF IsAscending
<1> DEFINE Differ == {k \in 1..n : s[k] # t[k]}
<1>0. \A k \in 1..n : s[k] \in Nat /\ t[k] \in Nat BY <1>3, <1>4
<1> SUFFICES ASSUME Differ # {} PROVE FALSE
  <2> HIDE DEF n
  <2>1. ASSUME \A k \in 1..n : s[k] = t[k] PROVE s = t
    <3>1. s = [k \in 1..n |-> s[k]] /\ t = [k \in 1..n |-> t[k]] BY <1>3, <1>4
    <3>2. [k \in 1..n |-> s[k]] = [k \in 1..n |-> t[k]] BY <2>1
    <3> QED BY <3>1, <3>2
  <2> QED BY <2>1
<1>5. Differ \in SUBSET Nat BY <1>1
<1>6. PICK i \in Differ : \A j \in Differ : i <= j BY <1>5, NatHasLeast
<1>7. i \in 1..n /\ s[i] # t[i] /\ s[i] \in S /\ t[i] \in S /\ \A j \in 1..n : j < i => s[j] = t[j]
  BY <1>1, <1>3, <1>4, <1>6
<1>7a. s[i] \in Nat /\ t[i] \in Nat BY <1>0, <1>7
<1> HIDE DEF n, Differ
<1>8. CASE s[i] < t[i]
  <2>1. PICK j \in 1..n : t[j] = s[i] BY <1>2, <1>7
  <2>2. CASE j < i BY <1>0, <1>7a, <1>1, <1>3, <1>7, <2>1, <2>2
  <2>3. CASE i < j BY <1>0, <1>7a, <1>1, <1>4, <1>7, <1>8, <2>1, <2>3
  <2> QED BY <1>1, <1>7, <1>7a, <1>0, <2>1, <2>2, <2>3
<1>9. CASE t[i] < s[i]
  <2>1. PICK j \in 1..n : s[j] = t[i] BY <1>2, <1>7
  <2>2. CASE j < i BY <1>0, <1>7a, <1>1, <1>4, <1>7, <2>1, <2>2
  <2>3. CASE i < j BY <1>0, <1>7a, <1>1, <1>3, <1>7, <1>9, <2>1, <2>3
  <2> QED BY <1>1, <1>7, <1>7a, <1>0, <2>1, <2>2, <2>3
<1> QED BY <1>7, <1>7a, <1>8, <1>9

\* So the list that CHOOSE picks is the one.
LEMMA AscendingIsIt ==
    ASSUME NEW S \in SUBSET Nat, IsFiniteSet(S)
    PROVE  /\ IsAscending(Ascending(S), S)
           /\ \A s : IsAscending(s, S) => s = Ascending(S)
<1>1. IsAscending(Ascending(S), S) BY AscendingExists DEF IsAscending, Ascending
<1> QED BY <1>1, AscendingUnique

-----------------------------------------------------------------------------
(* The repositories on the shared store. *)

CallRecords == [op : {"write"}, repo : Repos, puts : Maps, deleted : SUBSET Ids]
                 \union [op : {"read", "stream"}, repo : Repos, opts : Options]

\* Ids are finite in number (32 bytes or 8) and ordered like their bytes; the missing
\* value is none of the others.
DatabaseConstants ==
    /\ Repos \subseteq Int
    /\ Ids \subseteq Nat /\ IsFiniteSet(Ids)
    /\ IdOf \in [Values -> Ids]
    /\ Nothing \notin Ids \union (Int \X Int) \union CallRecords

\* Every key of the shared store is one of a repository and an id.
KeysInBuckets ==
    /\ DOMAIN store \subseteq Repos \X Ids
    /\ \A k \in DOMAIN store : store[k] \in Values

\* A set of ids and their keys in a bucket are listed alike.
LEMMA KeysInOrder ==
    ASSUME NEW S \in SUBSET Nat, IsFiniteSet(S), NEW r \in Int
    PROVE  /\ Cardinality({EncodeKey(r, i) : i \in S}) = Cardinality(S)
           /\ InOrder({EncodeKey(r, i) : i \in S})
                = [k \in 1 .. Cardinality(S) |-> EncodeKey(r, Ascending(S)[k])]
<1> DEFINE K == {EncodeKey(r, i) : i \in S}
           n == Cardinality(S)
           up == [k \in 1 .. n |-> EncodeKey(r, Ascending(S)[k])]
           Good(s) == s \in [1 .. n -> K] /\ \A i, j \in DOMAIN s : i < j => Before(s[i], s[j])
<1>1. Cardinality(K) = n
  <2> DEFINE f == [i \in S |-> EncodeKey(r, i)]
  <2>1. f \in Surjection(S, K) BY DEF Surjection
  <2>2. f \in Injection(S, K) BY DEF Injection, IsInjective, EncodeKey
  <2> QED BY <2>1, <2>2, FS_Surjection
<1>2. IsAscending(Ascending(S), S) /\ \A s : IsAscending(s, S) => s = Ascending(S) BY AscendingIsIt
<1>3. Ascending(S) \in [1 .. n -> S] /\ \A i, j \in 1 .. n : i < j => Ascending(S)[i] < Ascending(S)[j]
  BY <1>2 DEF IsAscending
<1> HIDE DEF n
<1>4. Good(up)
  <2>1. up \in [1 .. n -> K] BY <1>3
  <2>2. ASSUME NEW i \in 1 .. n, NEW j \in 1 .. n, i < j PROVE Before(up[i], up[j])
    BY <1>3, <2>2 DEF Before, EncodeKey
  <2> QED BY <2>1, <2>2
<1>5. ASSUME NEW s, Good(s) PROVE s = up
  <2> DEFINE ids == [k \in 1 .. n |-> s[k][2]]
  <2>1. \A k \in 1 .. n : s[k] = EncodeKey(r, ids[k]) /\ ids[k] \in S
    BY <1>5 DEF EncodeKey
  <2>2. \A i, j \in 1 .. n : i < j => ids[i] < ids[j]
    BY <1>5, <2>1 DEF Before, EncodeKey
  <2>3. IsAscending(ids, S)
    <3>1. ids \in [1 .. n -> S] BY <2>1
    <3> QED BY <2>2, <3>1 DEF IsAscending, n
  <2>4. ids = Ascending(S) BY <1>2, <2>3
  <2> HIDE DEF ids
  <2>5. \A k \in 1 .. n : s[k] = up[k] BY <2>1, <2>4
  <2>6. s = [k \in 1 .. n |-> s[k]] /\ DOMAIN up = 1 .. n BY <1>5
  <2>7. [k \in 1 .. n |-> s[k]] = up BY <2>5
  <2> QED BY <2>6, <2>7
<1>6. InOrder(K) = CHOOSE s \in [1 .. n -> K] : \A i, j \in DOMAIN s : i < j => Before(s[i], s[j])
  BY <1>1 DEF InOrder
<1>7. InOrder(K) = up
  <2> HIDE DEF up, K
  <2>1. Good(InOrder(K)) BY <1>4, <1>6
  <2> QED BY <1>5, <2>1
<1> QED BY <1>1, <1>7 DEF n

\* The abstract specification's own copies of these operators are the same.
LEMMA SameOperators ==
    /\ \A S : Abstract!Ascending(S) = Ascending(S)
    /\ \A s : Abstract!Reverse(s) = Reverse(s)
<1>1. \A S : Abstract!Cardinality(S) = Cardinality(S) BY DEF Cardinality, Abstract!Cardinality
<1>2. \A S : Abstract!Ascending(S) = Ascending(S) BY <1>1 DEF Abstract!Ascending, Ascending
<1>3. \A s : Abstract!Reverse(s) = Reverse(s) BY DEF Abstract!Reverse, Reverse
<1> QED BY <1>2, <1>3

\* A read within the bounds of dbFilterOptions finds the keys of the repository's own ids,
\* as the options ask for them.
LEMMA SameSelection ==
    ASSUME DatabaseConstants, KeysInBuckets, NEW r \in Repos, NEW opts \in Options
    PROVE  LET bounds == DbFilterOptions(r, opts)
           IN  {k \in DOMAIN store :
                 /\ bounds.gte # Nothing => ~Before(k, bounds.gte)
                 /\ bounds.gt # Nothing => Before(bounds.gt, k)
                 /\ bounds.lt # Nothing => Before(k, bounds.lt)
                 /\ bounds.lte # Nothing => ~Before(bounds.lte, k)}
               = {EncodeKey(r, i) : i \in Abstract!Selected(EntriesOf(r), opts)}
<1> DEFINE bounds == DbFilterOptions(r, opts)
           In(k) == /\ bounds.gte # Nothing => ~Before(k, bounds.gte)
                    /\ bounds.gt # Nothing => Before(bounds.gt, k)
                    /\ bounds.lt # Nothing => Before(k, bounds.lt)
                    /\ bounds.lte # Nothing => ~Before(bounds.lte, k)
<1>1. /\ r \in Int /\ Ids \subseteq Nat /\ Nothing \notin Ids
      /\ \A b, i \in Int : <<b, i>> # Nothing
  BY DEF DatabaseConstants
<1>2. /\ opts.gt \in Ids \union {Nothing} /\ opts.gte \in Ids \union {Nothing}
      /\ opts.lt \in Ids \union {Nothing} /\ opts.lte \in Ids \union {Nothing}
      /\ opts.gt = Nothing \/ opts.gte = Nothing
      /\ opts.lt = Nothing \/ opts.lte = Nothing
  BY DEF Options, Bounds
<1>3. ASSUME NEW b \in Repos, NEW i \in Ids
      PROVE  In(<<b, i>>) <=>
               /\ b = r
               /\ opts.gt # Nothing => i > opts.gt
               /\ opts.gt = Nothing /\ opts.gte # Nothing => i >= opts.gte
               /\ opts.lt # Nothing => i < opts.lt
               /\ opts.lt = Nothing /\ opts.lte # Nothing => i <= opts.lte
  <2>0. b \in Int /\ i \in Nat BY <1>1, <1>3 DEF DatabaseConstants
  <2>1. bounds.gte = IF opts.gt # Nothing THEN Nothing
                     ELSE IF opts.gte # Nothing THEN <<r, opts.gte>> ELSE <<r, -1>>
    BY DEF DbFilterOptions, EncodeKey, Empty
  <2>2. bounds.gt = IF opts.gt # Nothing THEN <<r, opts.gt>> ELSE Nothing
    BY DEF DbFilterOptions, EncodeKey
  <2>3. bounds.lt = IF opts.lt # Nothing THEN <<r, opts.lt>>
                    ELSE IF opts.lte # Nothing THEN Nothing ELSE <<r + 1, -1>>
    BY DEF DbFilterOptions, EncodeKey, Empty
  <2>4. bounds.lte = IF opts.lt = Nothing /\ opts.lte # Nothing THEN <<r, opts.lte>> ELSE Nothing
    BY DEF DbFilterOptions, EncodeKey
  <2> HIDE DEF bounds
  <2> DEFINE Low == /\ bounds.gte # Nothing => ~Before(<<b, i>>, bounds.gte)
                    /\ bounds.gt # Nothing => Before(bounds.gt, <<b, i>>)
             High == /\ bounds.lt # Nothing => Before(<<b, i>>, bounds.lt)
                     /\ bounds.lte # Nothing => ~Before(bounds.lte, <<b, i>>)
  <2>5. Low <=> \/ b > r
                \/ /\ b = r
                   /\ opts.gt # Nothing => i > opts.gt
                   /\ opts.gt = Nothing /\ opts.gte # Nothing => i >= opts.gte
    <3>1. CASE opts.gt # Nothing
      <4>1. opts.gt \in Nat
        <5>1. opts.gt \in Ids BY <1>2, <3>1
        <5> QED BY <5>1 DEF DatabaseConstants
      <4>2. bounds.gt = <<r, opts.gt>> /\ bounds.gte = Nothing /\ bounds.gt # Nothing
        BY <1>1, <2>1, <2>2, <3>1, <4>1
      <4>3. Low <=> Before(<<r, opts.gt>>, <<b, i>>) BY <4>2
      <4> QED BY <1>1, <2>0, <3>1, <4>1, <4>3 DEF Before
    <3>2. CASE opts.gt = Nothing /\ opts.gte # Nothing
      <4>1. opts.gte \in Nat
        <5>1. opts.gte \in Ids BY <1>2, <3>2
        <5> QED BY <5>1 DEF DatabaseConstants
      <4>2. bounds.gte = <<r, opts.gte>> /\ bounds.gt = Nothing /\ bounds.gte # Nothing
        BY <1>1, <2>1, <2>2, <3>2, <4>1
      <4>3. Low <=> ~Before(<<b, i>>, <<r, opts.gte>>) BY <4>2
      <4> QED BY <1>1, <2>0, <3>2, <4>1, <4>3 DEF Before
    <3>3. CASE opts.gt = Nothing /\ opts.gte = Nothing
      <4>1. bounds.gte = <<r, -1>> /\ bounds.gt = Nothing /\ bounds.gte # Nothing
        BY <1>1, <2>1, <2>2, <3>3
      <4>2. Low <=> ~Before(<<b, i>>, <<r, -1>>) BY <4>1
      <4> QED BY <1>1, <2>0, <3>3, <4>2 DEF Before
    <3> QED BY <3>1, <3>2, <3>3
  <2>6. High <=> \/ b < r
                 \/ /\ b = r
                    /\ opts.lt # Nothing => i < opts.lt
                    /\ opts.lt = Nothing /\ opts.lte # Nothing => i <= opts.lte
    <3>1. CASE opts.lt # Nothing
      <4>1. opts.lt \in Nat
        <5>1. opts.lt \in Ids BY <1>2, <3>1
        <5> QED BY <5>1 DEF DatabaseConstants
      <4>2. bounds.lt = <<r, opts.lt>> /\ bounds.lte = Nothing /\ bounds.lt # Nothing
        BY <1>1, <2>3, <2>4, <3>1, <4>1
      <4>3. High <=> Before(<<b, i>>, <<r, opts.lt>>) BY <4>2
      <4> QED BY <1>1, <2>0, <3>1, <4>1, <4>3 DEF Before
    <3>2. CASE opts.lt = Nothing /\ opts.lte # Nothing
      <4>1. opts.lte \in Nat
        <5>1. opts.lte \in Ids BY <1>2, <3>2
        <5> QED BY <5>1 DEF DatabaseConstants
      <4>2. bounds.lte = <<r, opts.lte>> /\ bounds.lt = Nothing /\ bounds.lte # Nothing
        BY <1>1, <2>3, <2>4, <3>2, <4>1
      <4>3. High <=> ~Before(<<r, opts.lte>>, <<b, i>>) BY <4>2
      <4> QED BY <1>1, <2>0, <3>2, <4>1, <4>3 DEF Before
    <3>3. CASE opts.lt = Nothing /\ opts.lte = Nothing
      <4>1. bounds.lt = <<r + 1, -1>> /\ bounds.lte = Nothing /\ bounds.lt # Nothing
        BY <1>1, <2>3, <2>4, <3>3
      <4>2. High <=> Before(<<b, i>>, <<r + 1, -1>>) BY <4>1
      <4> QED BY <1>1, <2>0, <3>3, <4>2 DEF Before
    <3> QED BY <3>1, <3>2, <3>3
  <2>7. In(<<b, i>>) <=> Low /\ High OBVIOUS
  <2> HIDE DEF Low, High, In
  <2> QED BY <1>1, <2>0, <2>5, <2>6, <2>7
<1>4. \A i \in Ids : i \in Abstract!Selected(EntriesOf(r), opts) <=>
               /\ <<r, i>> \in DOMAIN store
               /\ opts.gt # Nothing => i > opts.gt
               /\ opts.gt = Nothing /\ opts.gte # Nothing => i >= opts.gte
               /\ opts.lt # Nothing => i < opts.lt
               /\ opts.lt = Nothing /\ opts.lte # Nothing => i <= opts.lte
  <2>1. DOMAIN EntriesOf(r) = {id \in Ids : <<r, id>> \in DOMAIN store} BY DEF EntriesOf, EncodeKey
  <2> QED BY <1>2, <2>1 DEF Abstract!Selected
<1>5. Abstract!Selected(EntriesOf(r), opts) \subseteq Ids BY DEF Abstract!Selected, EntriesOf
<1> HIDE DEF In, bounds
<1>6. ASSUME NEW k \in DOMAIN store, In(k)
      PROVE  k \in {EncodeKey(r, i) : i \in Abstract!Selected(EntriesOf(r), opts)}
  <2>1. PICK b \in Repos, i \in Ids : k = <<b, i>> BY <1>6 DEF KeysInBuckets
  <2>2. b = r /\ i \in Abstract!Selected(EntriesOf(r), opts) BY <1>3, <1>4, <1>6, <2>1
  <2> QED BY <2>1, <2>2 DEF EncodeKey
<1>7. ASSUME NEW i \in Abstract!Selected(EntriesOf(r), opts)
      PROVE  EncodeKey(r, i) \in DOMAIN store /\ In(EncodeKey(r, i))
  BY <1>3, <1>4, <1>5, <1>7 DEF EncodeKey
<1>8. {k \in DOMAIN store : In(k)} = {EncodeKey(r, i) : i \in Abstract!Selected(EntriesOf(r), opts)}
  BY <1>6, <1>7
<1> QED BY <1>8 DEF In, bounds

\* What the options let through is a finite set of numbers.
LEMMA SelectedIsFinite ==
    ASSUME DatabaseConstants, NEW r \in Repos, NEW opts
    PROVE  /\ Abstract!Selected(EntriesOf(r), opts) \in SUBSET Ids
           /\ Abstract!Selected(EntriesOf(r), opts) \in SUBSET Nat
           /\ IsFiniteSet(Abstract!Selected(EntriesOf(r), opts))
<1>1. Abstract!Selected(EntriesOf(r), opts) \in SUBSET Ids BY DEF Abstract!Selected, EntriesOf
<1> QED BY <1>1, FS_Subset DEF DatabaseConstants

\* The iterator yields what the repository's own map would list.
LEMMA SameListing ==
    ASSUME DatabaseConstants, KeysInBuckets, NEW r \in Repos, NEW opts \in Options
    PROVE  Iterator(DbFilterOptions(r, opts)) = Abstract!Listing(EntriesOf(r), opts)
<1> DEFINE sel == Abstract!Selected(EntriesOf(r), opts)
           n == Cardinality(sel)
           bounds == DbFilterOptions(r, opts)
           keys == {k \in DOMAIN store :
                      /\ bounds.gte # Nothing => ~Before(k, bounds.gte)
                      /\ bounds.gt # Nothing => Before(bounds.gt, k)
                      /\ bounds.lt # Nothing => Before(k, bounds.lt)
                      /\ bounds.lte # Nothing => ~Before(bounds.lte, k)}
           asc == Ascending(sel)
           byKey == [k \in 1 .. n |-> EncodeKey(r, asc[k])]
           ordered == IF opts.reverse THEN Reverse(byKey) ELSE byKey
           ids == IF opts.reverse THEN Reverse(asc) ELSE asc
<1>1. r \in Int BY DEF DatabaseConstants
<1>2. sel \in SUBSET Ids /\ sel \in SUBSET Nat /\ IsFiniteSet(sel) /\ n \in Nat
  BY SelectedIsFinite, FS_CardinalityType
<1>3. keys = {EncodeKey(r, i) : i \in sel} BY SameSelection
<1>4. InOrder(keys) = byKey BY <1>1, <1>2, <1>3, KeysInOrder
<1>5. asc \in [1 .. n -> sel] BY <1>2, AscendingIsIt DEF IsAscending
<1>6. Len(asc) = n /\ Len(byKey) = n
  BY <1>2, <1>5
<1>7. bounds.reverse = opts.reverse /\ bounds.limit = opts.limit BY DEF DbFilterOptions
<1>8. sel \subseteq DOMAIN EntriesOf(r) /\ \A i \in sel : EntriesOf(r)[i] = store[EncodeKey(r, i)]
  BY DEF Abstract!Selected, EntriesOf
<1> DEFINE m == IF opts.limit # Nothing /\ opts.limit < n THEN opts.limit ELSE n
<1>9. Iterator(bounds) = LET p == IF bounds.limit # Nothing /\ bounds.limit < Len(ordered)
                                  THEN bounds.limit ELSE Len(ordered)
                         IN  [i \in 1 .. p |-> [key |-> DecodeKey(ordered[i]), value |-> store[ordered[i]]]]
  <2> HIDE DEF byKey
  <2> QED BY <1>4, <1>7 DEF Iterator
<1>10. Abstract!Listing(EntriesOf(r), opts)
         = LET p == IF opts.limit # Nothing /\ opts.limit < Len(ids) THEN opts.limit ELSE Len(ids)
           IN  [i \in 1 .. p |-> [key |-> ids[i], value |-> EntriesOf(r)[ids[i]]]]
  BY SameOperators DEF Abstract!Listing
<1> HIDE DEF sel, n, asc
<1>11. DOMAIN byKey = 1 .. n /\ DOMAIN asc = 1 .. n BY <1>5
<1>12. Len(ordered) = n /\ Len(ids) = n
  <2>1. CASE opts.reverse BY <1>2, <1>6, <2>1 DEF Reverse
  <2>2. CASE ~opts.reverse BY <1>6, <2>2
  <2> QED BY <2>1, <2>2
<1>13. ASSUME NEW i \in 1 .. n PROVE ids[i] \in sel /\ ordered[i] = EncodeKey(r, ids[i])
  <2>1. CASE opts.reverse
    <3>1. n - i + 1 \in 1 .. n BY <1>2, <1>13
    <3>2. ids[i] = asc[n - i + 1] /\ ordered[i] = byKey[n - i + 1] BY <1>6, <1>13, <2>1 DEF Reverse
    <3> QED BY <1>5, <3>1, <3>2
  <2>2. CASE ~opts.reverse BY <1>5, <1>13, <2>2
  <2> QED BY <2>1, <2>2
<1> HIDE DEF ordered, ids
<1>14. m \in Int /\ m <= n
  <2>1. opts.limit \in {1, Nothing} BY DEF Options
  <2> QED BY <1>2, <2>1
<1>15. \A i \in 1 .. m : i \in 1 .. n BY <1>2, <1>14
<1>16. \A i \in 1 .. m : DecodeKey(ordered[i]) = ids[i] /\ store[ordered[i]] = EntriesOf(r)[ids[i]]
  BY <1>8, <1>13, <1>15, SMTT(30) DEF DecodeKey, EncodeKey
<1>17. Iterator(bounds) = [i \in 1 .. m |-> [key |-> DecodeKey(ordered[i]), value |-> store[ordered[i]]]]
  BY <1>7, <1>9, <1>12
<1>18. Abstract!Listing(EntriesOf(r), opts) = [i \in 1 .. m |-> [key |-> ids[i], value |-> EntriesOf(r)[ids[i]]]]
  BY <1>10, <1>12
<1> HIDE DEF m, bounds
<1> QED BY <1>16, <1>17, <1>18 DEF bounds

\* A batch of puts writes the ids of its own repository, and no other.
LEMMA BatchPutIsWrite ==
    ASSUME DatabaseConstants, KeysInBuckets, NEW r \in Repos, NEW items \in Maps, BatchPut(r, items)
    PROVE  KeysInBuckets' /\ Abstract!Call
<1> DEFINE batch == [k \in {EncodeKey(r, id) : id \in DOMAIN items} |-> items[DecodeKey(k)]]
<1>1. DOMAIN items \subseteq Ids /\ \A id \in DOMAIN items : items[id] \in Values BY DEF Maps
<1>2. /\ call = Nothing /\ UNCHANGED <<answer, stream>>
      /\ call' = [op |-> "write", repo |-> r, puts |-> items, deleted |-> {}]
      /\ store' = [k \in DOMAIN store \union DOMAIN batch |->
                     IF k \in DOMAIN batch THEN batch[k] ELSE store[k]]
  BY DEF BatchPut, Writes, BatchPutItems
<1>3. \A q \in Repos, i \in Ids : /\ <<q, i>> \in DOMAIN batch <=> q = r /\ i \in DOMAIN items
                                  /\ <<q, i>> \in DOMAIN batch => batch[<<q, i>>] = items[i]
  BY <1>1 DEF EncodeKey, DecodeKey
<1>4. DOMAIN batch \subseteq Repos \X Ids BY <1>1 DEF EncodeKey
<1>5. \A k \in DOMAIN batch : batch[k] \in Values BY <1>1 DEF EncodeKey, DecodeKey
<1> HIDE DEF batch
<1>6. KeysInBuckets' BY <1>2, <1>4, <1>5 DEF KeysInBuckets
<1>7. \A q \in Repos, i \in Ids : /\ <<q, i>> \in DOMAIN store' <=> <<q, i>> \in DOMAIN store \/ (q = r /\ i \in DOMAIN items)
                                  /\ <<q, i>> \in DOMAIN store' =>
                                       store'[<<q, i>>] = IF q = r /\ i \in DOMAIN items THEN items[i] ELSE store[<<q, i>>]
  BY <1>2, <1>3
<1>8. \A q \in Repos : q # r => EntriesOf(q)' = EntriesOf(q)
  BY <1>7 DEF EntriesOf, EncodeKey
<1>9. EntriesOf(r)' = [i \in DOMAIN EntriesOf(r) \union DOMAIN items |->
                         IF i \in DOMAIN items THEN items[i] ELSE EntriesOf(r)[i]]
  BY <1>1, <1>7 DEF EntriesOf, EncodeKey
<1>10. call' # Nothing
  <2>1. call' \in CallRecords BY <1>2 DEF CallRecords
  <2> QED BY <2>1 DEF DatabaseConstants
<1>11. Abstract!Write(call')
  <2>1. call'.op = "write" /\ call'.repo = r /\ call'.puts = items /\ call'.deleted = {} BY <1>2
  <2>2. [q \in Repos |-> EntriesOf(q)'] = [[q \in Repos |-> EntriesOf(q)] EXCEPT ![r] =
          [i \in (DOMAIN @ \ {}) \union DOMAIN items |-> IF i \in DOMAIN items THEN items[i] ELSE @[i]]]
    BY <1>8, <1>9, ZenonT(40)
  <2> QED BY <1>2, <2>1, <2>2 DEF Abstract!Write
<1> QED BY <1>2, <1>6, <1>10, <1>11 DEF Abstract!Call

\* So does a batch of deletions.
LEMMA BatchDeleteIsWrite ==
    ASSUME DatabaseConstants, KeysInBuckets, NEW r \in Repos, NEW ids \in SUBSET Ids, BatchDelete(r, ids)
    PROVE  KeysInBuckets' /\ Abstract!Call
<1>2. /\ call = Nothing /\ UNCHANGED <<answer, stream>>
      /\ call' = [op |-> "write", repo |-> r, puts |-> EmptyMap, deleted |-> ids]
      /\ store' = [k \in DOMAIN store \ {EncodeKey(r, id) : id \in ids} |-> store[k]]
  BY DEF BatchDelete, Writes, BatchDeleteKeys
<1>6. KeysInBuckets' BY <1>2 DEF KeysInBuckets
<1>7. \A q \in Repos, i \in Ids : /\ <<q, i>> \in DOMAIN store' <=> <<q, i>> \in DOMAIN store /\ ~(q = r /\ i \in ids)
                                  /\ <<q, i>> \in DOMAIN store' => store'[<<q, i>>] = store[<<q, i>>]
  BY <1>2 DEF EncodeKey
<1>8. \A q \in Repos : q # r => EntriesOf(q)' = EntriesOf(q)
  BY <1>7 DEF EntriesOf, EncodeKey
<1>9. EntriesOf(r)' = [i \in DOMAIN EntriesOf(r) \ ids |-> EntriesOf(r)[i]]
  BY <1>7 DEF EntriesOf, EncodeKey
<1>10. call' # Nothing
  <2>1. EmptyMap \in [{} -> Values] BY DEF EmptyMap
  <2>2. EmptyMap \in Maps BY <2>1 DEF Maps
  <2>3. call' \in CallRecords BY <1>2, <2>2 DEF CallRecords
  <2> QED BY <2>3 DEF DatabaseConstants
<1>11. Abstract!Write(call')
  <2>1. call'.op = "write" /\ call'.repo = r /\ call'.puts = EmptyMap /\ call'.deleted = ids BY <1>2
  <2>2. DOMAIN EmptyMap = {} BY DEF EmptyMap
  <2>3. [q \in Repos |-> EntriesOf(q)'] = [[q \in Repos |-> EntriesOf(q)] EXCEPT ![r] =
          [i \in (DOMAIN @ \ ids) \union DOMAIN EmptyMap |-> IF i \in DOMAIN EmptyMap THEN EmptyMap[i] ELSE @[i]]]
    BY <1>8, <1>9, <2>2, ZenonT(40)
  <2> QED BY <1>2, <2>1, <2>3 DEF Abstract!Write
<1> QED BY <1>2, <1>6, <1>10, <1>11 DEF Abstract!Call

\* What a read with filter options answers, at once or as a stream.
LEMMA EntriesIsRead ==
    ASSUME DatabaseConstants, KeysInBuckets, NEW r \in Repos, NEW opts \in Options,
           Entries(r, opts) \/ EntriesStream(r, opts)
    PROVE  KeysInBuckets' /\ Abstract!Call
<1>1. /\ call = Nothing /\ store' = store
      /\ \/ /\ call' = [op |-> "read", repo |-> r, opts |-> opts] /\ stream' = stream
            /\ answer' = Iterator(DbFilterOptions(r, opts))
         \/ /\ call' = [op |-> "stream", repo |-> r, opts |-> opts] /\ answer' = answer
            /\ stream' = Iterator(DbFilterOptions(r, opts))
  BY DEF Entries, EntriesStream, Reads
<1>2. Iterator(DbFilterOptions(r, opts)) = Abstract!Listing(EntriesOf(r), opts) BY SameListing
<1>3. KeysInBuckets' BY <1>1 DEF KeysInBuckets
<1>4. [q \in Repos |-> EntriesOf(q)]' = [q \in Repos |-> EntriesOf(q)] BY <1>1 DEF EntriesOf
<1>5. call' # Nothing
  <2>1. call' \in CallRecords BY <1>1 DEF CallRecords
  <2> QED BY <2>1 DEF DatabaseConstants
<1>6. Abstract!Read(call') \/ Abstract!Open(call')
  <2>1. call'.repo = r /\ call'.opts = opts /\ [q \in Repos |-> EntriesOf(q)][r] = EntriesOf(r) BY <1>1
  <2>2. CASE stream' = stream /\ call'.op = "read" /\ answer' = Iterator(DbFilterOptions(r, opts))
    BY <1>2, <1>4, <2>1, <2>2 DEF Abstract!Read
  <2>3. CASE answer' = answer /\ call'.op = "stream" /\ stream' = Iterator(DbFilterOptions(r, opts))
    BY <1>2, <1>4, <2>1, <2>3 DEF Abstract!Open
  <2> QED BY <1>1, <2>2, <2>3
<1> QED BY <1>1, <1>3, <1>5, <1>6 DEF Abstract!Call

\* A lookup by id is the listing between that id and itself.
LEMMA GetIsRead ==
    ASSUME DatabaseConstants, KeysInBuckets, NEW r \in Repos, NEW id \in Ids, Get(r, id)
    PROVE  KeysInBuckets' /\ Abstract!Call
<1> DEFINE opts == [NoOptions EXCEPT !.gte = id, !.lte = id]
           sel == Abstract!Selected(EntriesOf(r), opts)
           found == IF EncodeKey(r, id) \in DOMAIN store
                    THEN <<[key |-> id, value |-> store[EncodeKey(r, id)]]>> ELSE <<>>
<1>1. /\ call = Nothing /\ store' = store /\ stream' = stream
      /\ call' = [op |-> "read", repo |-> r, opts |-> opts]
      /\ answer' = found
  BY DEF Get, Reads
<1>2. id \in Nat /\ Ids \subseteq Nat /\ Nothing \notin Ids BY DEF DatabaseConstants
<1>3. /\ opts.gt = Nothing /\ opts.lt = Nothing /\ opts.gte = id /\ opts.lte = id
      /\ opts.reverse = FALSE /\ opts.limit = Nothing
  BY DEF NoOptions
<1>4. opts \in Options BY <1>2 DEF Options, NoOptions, Bounds
<1> HIDE DEF opts
<1>5. sel = IF EncodeKey(r, id) \in DOMAIN store THEN {id} ELSE {}
  <2>1. DOMAIN EntriesOf(r) = {i \in Ids : EncodeKey(r, i) \in DOMAIN store} BY DEF EntriesOf
  <2>2. \A i \in Ids : i <= id /\ i >= id <=> i = id BY <1>2
  <2>3. sel = {i \in DOMAIN EntriesOf(r) : i <= id /\ i >= id} BY <1>2, <1>3 DEF Abstract!Selected
  <2> QED BY <2>1, <2>2, <2>3
<1>6. Abstract!Listing(EntriesOf(r), opts)
         = [k \in 1 .. Len(Ascending(sel)) |-> [key |-> Ascending(sel)[k],
                                               value |-> EntriesOf(r)[Ascending(sel)[k]]]]
  BY <1>3, SameOperators DEF Abstract!Listing
<1>7. sel \in SUBSET Nat /\ IsFiniteSet(sel) BY SelectedIsFinite
<1>8. Ascending(sel) \in [1 .. Cardinality(sel) -> sel] BY <1>7, AscendingIsIt DEF IsAscending
<1>9. Abstract!Listing(EntriesOf(r), opts) = found
  <2>1. CASE EncodeKey(r, id) \in DOMAIN store
    <3>1. sel = {id} /\ Cardinality(sel) = 1 BY <1>5, <2>1, FS_Singleton
    <3>2. EntriesOf(r)[id] = store[EncodeKey(r, id)] BY <2>1 DEF EntriesOf
    <3> HIDE DEF sel
    <3>3. Len(Ascending(sel)) = 1 /\ Ascending(sel)[1] = id BY <1>8, <3>1
    <3>4. Abstract!Listing(EntriesOf(r), opts) = [k \in 1 .. 1 |-> [key |-> id, value |-> store[EncodeKey(r, id)]]]
      BY <1>6, <3>2, <3>3
    <3>5. \A x : <<x>> = [k \in 1 .. 1 |-> x] OBVIOUS
    <3> QED BY <2>1, <3>4, <3>5
  <2>2. CASE EncodeKey(r, id) \notin DOMAIN store
    <3>1. sel = {} /\ Cardinality(sel) = 0 BY <1>5, <2>2, FS_EmptySet
    <3> HIDE DEF sel
    <3>2. Len(Ascending(sel)) = 0 BY <1>8, <3>1
    <3>3. Abstract!Listing(EntriesOf(r), opts) = <<>> BY <1>6, <3>2
    <3> QED BY <2>2, <3>3
  <2> QED BY <2>1, <2>2
<1> HIDE DEF found
<1>10. KeysInBuckets' BY <1>1 DEF KeysInBuckets
<1>11. [q \in Repos |-> EntriesOf(q)]' = [q \in Repos |-> EntriesOf(q)] BY <1>1 DEF EntriesOf
<1>12. call' # Nothing
  <2>1. call' \in CallRecords BY <1>1, <1>4 DEF CallRecords
  <2> QED BY <2>1 DEF DatabaseConstants
<1>13. Abstract!Read(call')
  <2>1. call'.op = "read" /\ call'.repo = r /\ call'.opts = opts /\ [q \in Repos |-> EntriesOf(q)][r] = EntriesOf(r)
    BY <1>1
  <2> QED BY <1>1, <1>9, <1>11, <2>1 DEF Abstract!Read
<1> QED BY <1>1, <1>10, <1>12, <1>13 DEF Abstract!Call

\* Every method of a repository is one call of the abstract specification.
LEMMA OperationIsCall ==
    ASSUME DatabaseConstants, KeysInBuckets, NEW r \in Repos, Operation(r)
    PROVE  KeysInBuckets' /\ Abstract!Call
<1>1. ASSUME NEW id \in Ids, NEW value \in Values PROVE [i \in {id} |-> value] \in Maps
  <2>1. [i \in {id} |-> value] \in [{id} -> Values] /\ {id} \in SUBSET Ids OBVIOUS
  <2> QED BY <2>1 DEF Maps
<1>2. ASSUME NEW values \in Adds
      PROVE  /\ [id \in {IdOf[v] : v \in values} |-> CHOOSE v \in values : IdOf[v] = id] \in Maps
             /\ {IdOf[v] : v \in values} \in SUBSET Ids
  <2> DEFINE ids == {IdOf[v] : v \in values}
             map == [id \in ids |-> CHOOSE v \in values : IdOf[v] = id]
  <2>1. values \subseteq Values BY DEF Adds
  <2>2. ids \in SUBSET Ids BY <2>1 DEF DatabaseConstants
  <2>3. \A id \in ids : map[id] \in Values BY <2>1
  <2>4. map \in [ids -> Values] BY <2>3
  <2> HIDE DEF map, ids
  <2>5. map \in Maps BY <2>2, <2>4 DEF Maps
  <2> QED BY <2>2, <2>5 DEF map, ids
<1>3. ASSUME NEW id \in Ids, NEW value \in Values, Put(r, id, value) PROVE KeysInBuckets' /\ Abstract!Call
  BY <1>1, <1>3, BatchPutIsWrite DEF Put
<1>4. ASSUME NEW id \in Ids, Delete(r, id) PROVE KeysInBuckets' /\ Abstract!Call
  BY <1>4, BatchDeleteIsWrite DEF Delete
<1>5. ASSUME NEW value \in Values, Add(r, value) \/ RemoveValue(r, value) PROVE KeysInBuckets' /\ Abstract!Call
  BY <1>3, <1>4, <1>5 DEF Add, RemoveValue, DatabaseConstants
<1>6. ASSUME NEW values \in Adds, BatchAdd(r, values) PROVE KeysInBuckets' /\ Abstract!Call
  BY <1>2, <1>6, BatchPutIsWrite DEF BatchAdd
<1>7. ASSUME NEW values \in Adds, BatchRemove(r, values) PROVE KeysInBuckets' /\ Abstract!Call
  BY <1>2, <1>7, BatchDeleteIsWrite DEF BatchRemove
<1>8. ASSUME NEW opts \in Options, Entries(r, opts) \/ EntriesStream(r, opts) PROVE KeysInBuckets' /\ Abstract!Call
  BY <1>8, EntriesIsRead
<1>9. CASE FirstEntry(r) \/ LastEntry(r)
  <2>1. /\ [NoOptions EXCEPT !.limit = 1] \in Options
        /\ [NoOptions EXCEPT !.limit = 1, !.reverse = TRUE] \in Options
    BY DEF NoOptions, Options, Bounds
  <2> QED BY <1>9, <2>1, EntriesIsRead DEF FirstEntry, LastEntry
<1> QED
  BY <1>3, <1>4, <1>5, <1>6, <1>7, <1>8, <1>9, GetIsRead, BatchPutIsWrite, BatchDeleteIsWrite
     DEF Operation

\* So is every step, or it is none.
LEMMA NextIsAbstract ==
    ASSUME DatabaseConstants, KeysInBuckets, [Next]_vars
    PROVE  KeysInBuckets' /\ [Abstract!ANext]_Abstract!avars
<1>1. ASSUME NEW r \in Repos, Operation(r) PROVE KeysInBuckets' /\ [Abstract!ANext]_Abstract!avars
  BY <1>1, OperationIsCall DEF Abstract!ANext
<1>2. ASSUME store' = store PROVE /\ KeysInBuckets'
                                  /\ [q \in Repos |-> EntriesOf(q)]' = [q \in Repos |-> EntriesOf(q)]
  BY <1>2 DEF KeysInBuckets, EntriesOf
<1>3. CASE StreamNext
  <2>1. Abstract!Advance BY <1>2, <1>3 DEF StreamNext, Abstract!Advance
  <2> QED BY <1>2, <1>3, <2>1 DEF StreamNext, Abstract!ANext
<1>4. CASE ReturnAnswer
  <2>1. Abstract!Return BY <1>2, <1>4 DEF ReturnAnswer, Abstract!Return
  <2> QED BY <1>2, <1>4, <2>1 DEF ReturnAnswer, Abstract!ANext
<1>5. CASE UNCHANGED vars BY <1>2, <1>5 DEF vars, Abstract!avars
<1> QED BY <1>1, <1>3, <1>4, <1>5 DEF Next

\* The repositories of abstractRepository.ts, on one LevelDB and behind the bounds of
\* dbFilterOptions, implement separate maps: a read or stream with any filter options
\* finds the ids of its own bucket, all of them and in order, and a write changes no
\* other bucket, for any buckets, ids and values.
THEOREM DatabaseIsRepositories == ASSUME DatabaseConstants PROVE Spec => RefinesRepositories
<1>1. Init => KeysInBuckets BY DEF Init, KeysInBuckets
<1>2. Init => Abstract!AInit
  <2> SUFFICES ASSUME Init PROVE Abstract!AInit OBVIOUS
  <2>1. \A r \in Repos : EntriesOf(r) = Abstract!EmptyMap BY DEF Init, EntriesOf, Abstract!EmptyMap
  <2> QED BY <2>1 DEF Init, Abstract!AInit
<1>3. KeysInBuckets /\ [Next]_vars => KeysInBuckets' /\ [Abstract!ANext]_Abstract!avars
  BY NextIsAbstract
<1> QED BY <1>1, <1>2, <1>3, PTL DEF Spec, RefinesRepositories, Abstract!ASpec

-----------------------------------------------------------------------------
(* Gossip validation, in the registers that MCServices.tla gives it. *)

now == r1
batch == r2
stage == r3
seen == r4
known == r5
finalized == r6
received == r7
Messages == UNION Batches

USE DEF now, batch, stage, seen, known, finalized, received, Messages

\* Gossip and the API bring messages of these kinds; the validations of the sync
\* committee messages and contributions from gossip follow each other (gossipQueueOpts
\* gives them no maxConcurrency, and that of a JobQueue is 1).
GossipConstants ==
    /\ SLOTS_PER_EPOCH \in Nat \ {0}
    /\ \A m \in Messages :
         /\ m.kind \in Gossip!ByEpoch \union Gossip!BySlot \union Gossip!ByDatabase \union {"block"}
         /\ m.slot \in Nat
         /\ m.via \in {"gossip", "api"}
    /\ \A b \in Batches : b \subseteq Messages /\ IsFiniteSet(b)
    /\ \A k \in Gossip!BySlot : MaxConcurrency[k] = 1

Waits == {"state", "signature"}
FromGossip(m, o) == m.via = "gossip" /\ o.via = "gossip"

GossipTypeOK ==
    /\ now \in Nat /\ finalized \in Nat
    /\ batch \in Batches
    /\ stage \in [Messages -> Gossip!Outcomes \union Waits \union {"queued", "absent"}]
    /\ received \subseteq batch

\* What is let through stays in the cache until its period is too old to be let
\* through again.
AcceptedIsRemembered ==
    \A m \in batch : stage[m] = "accept" =>
        /\ m.kind \in Gossip!ByEpoch => Gossip!IsKnown(m) \/ Gossip!PeriodOf(m) < Gossip!LowestPermissibleEpoch
        /\ m.kind \in Gossip!BySlot => Gossip!IsKnown(m) \/ m.slot < Gossip!CurrentSlot - Gossip!MAX_SLOTS_IN_CACHE

\* A sync committee message or contribution from gossip that is being verified is the
\* only one of its kind, and none with its key has been let through.
VerifiedAlone ==
    \A m, o \in batch : m.kind \in Gossip!BySlot /\ stage[m] \in Waits =>
        /\ stage[m] = "signature"
        /\ FromGossip(m, o) /\ o.kind = m.kind /\ stage[o] \in Waits => o = m
        /\ FromGossip(m, o) /\ Gossip!SeenKey(m) = Gossip!SeenKey(o) => stage[o] # "accept"

GossipInv ==
    GossipTypeOK /\ AcceptedIsRemembered /\ VerifiedAlone /\ Gossip!AcceptedOnce /\ Gossip!NoBlockDropped

\* The keys of messages do not change.
LEMMA Rigid ==
    /\ \A m : Gossip!SeenKey(m)' = Gossip!SeenKey(m)
    /\ \A m : Gossip!PeriodOf(m)' = Gossip!PeriodOf(m)
BY DEF Gossip!SeenKey, Gossip!PeriodOf, Gossip!EpochOf

\* Messages with one key are of one kind, validator, period and subnet.
LEMMA KeyFields ==
    ASSUME NEW m, NEW o, Gossip!SeenKey(m) = Gossip!SeenKey(o)
    PROVE  m.kind = o.kind /\ Gossip!PeriodOf(m) = Gossip!PeriodOf(o)
BY DEF Gossip!SeenKey

\* Division rounds down and is monotone.
LEMMA DivisionMonotone ==
    ASSUME NEW a \in Nat, NEW b \in Nat, a <= b, NEW n \in Nat \ {0}
    PROVE  a \div n \in Nat /\ b \div n \in Nat /\ a \div n <= b \div n
<1> DEFINE q == a \div n
           r == b \div n
<1>1. q \in Int /\ r \in Int OBVIOUS
<1>2. n * q <= a /\ a < n * q + n OBVIOUS
<1>3. n * r <= b /\ b < n * r + n OBVIOUS
<1> HIDE DEF q, r
<1>4. q >= 0 /\ r >= 0
  <2>1. ASSUME NEW z \in Int, z <= -1 PROVE n * z + n <= 0 BY <2>1
  <2> QED BY <1>1, <1>2, <1>3, <2>1
<1>5. q <= r
  <2>1. SUFFICES ASSUME q >= r + 1 PROVE FALSE BY <1>1
  <2>2. n * (q - r - 1) >= 0 BY <1>1, <2>1
  <2>3. n * (q - r - 1) = n * q - n * r - n BY <1>1
  <2> QED BY <1>1, <1>2, <1>3, <2>2, <2>3
<1> QED BY <1>1, <1>4, <1>5 DEF q, r

\* Epochs and slots are natural numbers, and the thresholds only rise.
LEMMA ClockFacts ==
    ASSUME GossipConstants, GossipTypeOK
    PROVE  /\ Gossip!CurrentSlot \in Nat /\ Gossip!LowestPermissibleEpoch \in Nat
           /\ \A m \in Messages : Gossip!PeriodOf(m) \in Nat
           /\ now' = now + 1 => /\ Gossip!CurrentSlot' \in Nat /\ Gossip!CurrentSlot <= Gossip!CurrentSlot'
                               /\ Gossip!CurrentSlot' = now' \div Gossip!TicksPerSlot
                               /\ Gossip!LowestPermissibleEpoch' \in Nat
                               /\ Gossip!LowestPermissibleEpoch <= Gossip!LowestPermissibleEpoch'
<1>1. Gossip!CurrentSlot \in Nat BY DEF GossipTypeOK, Gossip!CurrentSlot, Gossip!TicksPerSlot
<1>2. now' = now + 1 => Gossip!CurrentSlot' \in Nat /\ Gossip!CurrentSlot <= Gossip!CurrentSlot' /\ Gossip!CurrentSlot' = now' \div Gossip!TicksPerSlot
  BY DEF GossipTypeOK, Gossip!CurrentSlot, Gossip!TicksPerSlot
<1>3. \A m \in Messages : Gossip!EpochOf(m.slot) \in Nat
  BY DivisionMonotone DEF GossipConstants, Gossip!EpochOf
<1>4. Gossip!EpochOf(Gossip!CurrentSlot) \in Nat
  BY <1>1, DivisionMonotone DEF GossipConstants, Gossip!EpochOf
<1>5. now' = now + 1 => Gossip!EpochOf(Gossip!CurrentSlot') \in Nat /\ Gossip!EpochOf(Gossip!CurrentSlot) <= Gossip!EpochOf(Gossip!CurrentSlot')
  BY <1>1, <1>2, DivisionMonotone DEF GossipConstants, Gossip!EpochOf
<1>6. \A m \in Messages : Gossip!PeriodOf(m) \in Nat
  BY <1>3 DEF Gossip!PeriodOf, Gossip!ByEpoch, Gossip!ByDatabase, GossipConstants
<1>7. Gossip!LowestPermissibleEpoch \in Nat
  BY <1>4 DEF Gossip!LowestPermissibleEpoch, Gossip!CurrentEpoch, Gossip!AtLeast, Gossip!MAX_EPOCHS
<1>8. now' = now + 1 => Gossip!LowestPermissibleEpoch' \in Nat /\ Gossip!LowestPermissibleEpoch <= Gossip!LowestPermissibleEpoch'
  BY <1>4, <1>5
     DEF Gossip!LowestPermissibleEpoch, Gossip!CurrentEpoch, Gossip!AtLeast, Gossip!MAX_EPOCHS
<1> QED BY <1>1, <1>2, <1>6, <1>7, <1>8

\* A message that is let go, or that goes on to wait although it is of a kind whose
\* validations overlap.
LEMMA LetGo ==
    ASSUME GossipConstants, GossipInv, NEW m \in batch, stage[m] # "accept",
           NEW x \in {"ignore", "reject", "state", "signature"},
           x \in Waits => m.kind \notin Gossip!BySlot,
           stage' = [stage EXCEPT ![m] = x], UNCHANGED <<now, batch, seen>>
    PROVE  AcceptedIsRemembered' /\ VerifiedAlone' /\ Gossip!AcceptedOnce'
<1>1. \A o \in batch : stage'[o] = IF o = m THEN x ELSE stage[o]
  BY DEF GossipInv, GossipTypeOK, GossipConstants
<1>2. AcceptedIsRemembered'
  BY <1>1, Rigid
     DEF GossipInv, AcceptedIsRemembered, Gossip!IsKnown, Gossip!LowestPermissibleEpoch,
         Gossip!CurrentEpoch, Gossip!CurrentSlot
<1>3. VerifiedAlone' BY <1>1, Rigid DEF GossipInv, VerifiedAlone, Waits
<1>4. Gossip!AcceptedOnce' BY <1>1, Rigid DEF GossipInv, Gossip!AcceptedOnce
<1> QED BY <1>2, <1>3, <1>4

\* End for an outcome other than accept.
LEMMA EndIsTyped ==
    ASSUME GossipConstants, GossipInv, NEW m \in batch, NEW x, Gossip!End(m, x), UNCHANGED <<now, batch, finalized>>
    PROVE  /\ GossipTypeOK'
           /\ \E y \in Gossip!Outcomes : /\ y = (IF x \in Gossip!Outcomes THEN x ELSE "ignore")
                                  /\ stage' = [stage EXCEPT ![m] = y]
<1>1. PICK y \in Gossip!Outcomes : y = (IF x \in Gossip!Outcomes THEN x ELSE "ignore") /\ stage' = [stage EXCEPT ![m] = y]
  BY DEF Gossip!End, Gossip!Outcomes
<1>2. received' \subseteq batch BY DEF Gossip!End, Gossip!HandedOn, GossipInv, GossipTypeOK
<1>3. GossipTypeOK' BY <1>1, <1>2 DEF GossipInv, GossipTypeOK
<1> QED BY <1>1, <1>3

\* The early checks decide on one of these.
LEMMA EarlyVerdicts ==
    ASSUME NEW m PROVE Gossip!Early(m) \in {"ok", "ignore", "reject", "future"}
BY
   DEF Gossip!Early, Gossip!AttestationEarly, Gossip!AggregateEarly, Gossip!SyncMessageEarly,
   Gossip!SyncCommitteeExceptSig, Gossip!ContributionEarly,
       Gossip!BlockEarly, Gossip!VerifyHeadBlockAndTargetRoot

\* wrapWithQueue and the early checks keep the invariant.
LEMMA ValidateKeeps ==
    ASSUME GossipConstants, GossipInv, NEW m \in batch, Gossip!Validate(m)
    PROVE  GossipInv'
<1>1. stage[m] = "queued" /\ UNCHANGED <<now, batch, seen, known, finalized>> BY DEF Gossip!Validate
<1>2. m \in Messages BY DEF GossipConstants, GossipInv, GossipTypeOK
<1>3. CASE Gossip!Early(m) = "ok"
  <2>1. stage' = [stage EXCEPT ![m] = Gossip!FirstWait(m)] /\ UNCHANGED received
    BY <1>3 DEF Gossip!Validate
  <2>2. Gossip!FirstWait(m) \in Waits BY DEF Gossip!FirstWait, Waits
  <2>3. GossipTypeOK' BY <1>1, <2>1, <2>2 DEF GossipInv, GossipTypeOK
  <2>4. \A o \in batch : stage'[o] = IF o = m THEN Gossip!FirstWait(m) ELSE stage[o]
    BY <1>2, <2>1 DEF GossipInv, GossipTypeOK, GossipConstants
  <2>5. Gossip!NoBlockDropped'
    BY <1>1, <2>1, <2>2, <2>4 DEF GossipInv, Gossip!NoBlockDropped, Waits, Gossip!Outcomes
  <2>6. CASE m.kind \notin Gossip!BySlot
    <3>1. AcceptedIsRemembered' /\ VerifiedAlone' /\ Gossip!AcceptedOnce'
      BY <1>1, <2>1, <2>2, <2>6, LetGo DEF Waits
    <3> QED BY <2>3, <2>5, <3>1 DEF GossipInv
  <2>7. CASE m.kind \in Gossip!BySlot
    <3>1. Gossip!FirstWait(m) = "signature" BY <2>7 DEF Gossip!FirstWait
    <3>2. ~Gossip!IsKnown(m) /\ Gossip!IsCurrentSlotGivenGossipDisparity(m.slot)
      BY <1>3, <2>7
         DEF Gossip!Early, Gossip!SyncMessageEarly, Gossip!ContributionEarly,
         Gossip!SyncCommitteeExceptSig, Gossip!BySlot
    <3>3. m.slot >= Gossip!CurrentSlot - 1
      BY <1>2, <3>2, ClockFacts DEF Gossip!IsCurrentSlotGivenGossipDisparity, GossipConstants, GossipInv
    <3>4. \A o \in batch : Gossip!SeenKey(m) = Gossip!SeenKey(o) => stage[o] # "accept"
      <4> SUFFICES ASSUME NEW o \in batch, Gossip!SeenKey(m) = Gossip!SeenKey(o), stage[o] = "accept"
                   PROVE  FALSE
        OBVIOUS
      <4>1. ~Gossip!IsKnown(o) /\ o.kind \in Gossip!BySlot BY <2>7, <3>2, KeyFields DEF Gossip!IsKnown
      <4>2. o.slot = m.slot
        BY <2>7, <4>1, KeyFields DEF Gossip!PeriodOf, Gossip!ByEpoch, Gossip!BySlot, Gossip!ByDatabase
      <4>3. o.slot < Gossip!CurrentSlot - Gossip!MAX_SLOTS_IN_CACHE
        BY <4>1 DEF GossipInv, AcceptedIsRemembered
      <4> QED
        BY <1>2, <3>3, <4>2, <4>3, ClockFacts DEF Gossip!MAX_SLOTS_IN_CACHE, GossipConstants, GossipInv
    <3>5. m.via = "gossip" => \A o \in batch : o.kind = m.kind /\ o.via = "gossip" => stage[o] \notin Waits
      <4> SUFFICES ASSUME m.via = "gossip"
                   PROVE  \A o \in batch : o.kind = m.kind /\ o.via = "gossip" => stage[o] \notin Waits
        OBVIOUS
      <4> DEFINE busy == Gossip!Running(m.kind)
      <4>0. Gossip!Cardinality(busy) = Cardinality(busy) BY DEF Cardinality, Gossip!Cardinality
      <4>1. Cardinality(busy) < 1
        <5> HIDE DEF Cardinality, Gossip!Cardinality
        <5> QED BY <2>7, <4>0 DEF Gossip!Validate, GossipConstants
      <4>2. IsFiniteSet(busy)
        BY FS_Subset DEF GossipConstants, GossipInv, GossipTypeOK, Gossip!Running
      <4>3. Cardinality(busy) \in Nat BY <4>2, FS_CardinalityType
      <4>4. Cardinality(busy) = 0 BY <4>1, <4>3
      <4>5. busy = {} BY <4>2, <4>4, FS_EmptySet
      <4> QED BY <4>5 DEF Waits, Gossip!Running
    <3>6. AcceptedIsRemembered'
      BY <1>1, <2>4, <3>1, Rigid
         DEF GossipInv, AcceptedIsRemembered, Gossip!IsKnown, Gossip!LowestPermissibleEpoch,
             Gossip!CurrentEpoch, Gossip!CurrentSlot
    <3>7. VerifiedAlone'
      <4> SUFFICES ASSUME NEW a \in batch, NEW o \in batch, a.kind \in Gossip!BySlot, stage'[a] \in Waits
                   PROVE  /\ stage'[a] = "signature"
                          /\ FromGossip(a, o) /\ o.kind = a.kind /\ stage'[o] \in Waits => o = a
                          /\ FromGossip(a, o) /\ Gossip!SeenKey(a) = Gossip!SeenKey(o) => stage'[o] # "accept"
        BY <1>1, Rigid DEF VerifiedAlone
      <4>1. CASE a = m
        BY <2>4, <3>1, <3>4, <3>5, <4>1 DEF FromGossip
      <4>2. CASE a # m
        BY <2>4, <3>1, <3>5, <4>2 DEF GossipInv, VerifiedAlone, FromGossip
      <4> QED BY <4>1, <4>2
    <3>8. Gossip!AcceptedOnce'
      BY <1>1, <2>4, <3>1, Rigid DEF GossipInv, Gossip!AcceptedOnce
    <3> QED BY <2>3, <2>5, <3>6, <3>7, <3>8 DEF GossipInv
  <2> QED BY <2>6, <2>7
<1>4. CASE Gossip!Early(m) # "ok"
  <2>1. Gossip!End(m, Gossip!Early(m)) BY <1>4 DEF Gossip!Validate
  <2>2. Gossip!Early(m) \in {"ignore", "reject", "future"} BY <1>4, EarlyVerdicts
  <2>3. PICK y \in {"ignore", "reject"} : stage' = [stage EXCEPT ![m] = y]
    BY <1>1, <2>1, <2>2, EndIsTyped DEF Gossip!Outcomes
  <2>4. GossipTypeOK' BY <1>1, <2>1, EndIsTyped
  <2>5. AcceptedIsRemembered' /\ VerifiedAlone' /\ Gossip!AcceptedOnce'
    BY <1>1, <2>3, LetGo DEF Waits
  <2>6. Gossip!NoBlockDropped'
    <3>1. \A o \in batch : o # m => stage'[o] = stage[o]
      BY <2>3 DEF GossipInv, GossipTypeOK, GossipConstants
    <3>2. received \subseteq received' BY <2>1 DEF Gossip!End
    <3>3. m.kind = "block" /\ m.slot > finalized => m \in received'
      BY <1>2, <1>4, <2>1
         DEF Gossip!Early, Gossip!BlockEarly, Gossip!End, Gossip!HandedOn, GossipConstants,
         GossipInv, GossipTypeOK
    <3> QED BY <1>1, <3>1, <3>2, <3>3 DEF GossipInv, Gossip!NoBlockDropped
  <2> QED BY <2>4, <2>5, <2>6 DEF GossipInv
<1> QED BY <1>3, <1>4

\* The answer of the state or the database, or its absence, keeps the invariant.
LEMMA StateKeeps ==
    ASSUME GossipConstants, GossipInv, NEW m \in batch, Gossip!StateReady(m) \/ Gossip!StateMissing(m)
    PROVE  GossipInv'
<1>1. stage[m] = "state" /\ UNCHANGED <<now, batch, seen, known, finalized>>
  BY DEF Gossip!StateReady, Gossip!StateMissing
<1>2. m \in Messages BY DEF GossipConstants, GossipInv, GossipTypeOK
<1>3. m.kind \notin Gossip!BySlot BY <1>1 DEF GossipInv, VerifiedAlone, Waits
<1>4. m.kind \in Gossip!ByEpoch \union Gossip!ByDatabase \union {"block"}
  BY <1>2, <1>3 DEF GossipConstants
<1>5. Gossip!Middle(m) \in {"ok", "ignore", "reject", "parentUnknown"}
  BY <1>4 DEF Gossip!Middle, Gossip!ByEpoch, Gossip!ByDatabase
<1>6. CASE stage' = [stage EXCEPT ![m] = "signature"] /\ UNCHANGED received
  <2>1. \A o \in batch : stage'[o] = IF o = m THEN "signature" ELSE stage[o]
    BY <1>6 DEF GossipInv, GossipTypeOK, GossipConstants
  <2>2. GossipTypeOK' BY <1>1, <1>6 DEF GossipInv, GossipTypeOK, Waits
  <2>3. AcceptedIsRemembered' /\ VerifiedAlone' /\ Gossip!AcceptedOnce' BY <1>1, <1>3, <1>6, LetGo
  <2>4. Gossip!NoBlockDropped' BY <1>1, <1>6, <2>1 DEF GossipInv, Gossip!NoBlockDropped, Gossip!Outcomes
  <2> QED BY <2>2, <2>3, <2>4 DEF GossipInv
<1>7. ASSUME NEW x \in {"ignore", "reject", "parentUnknown"}, Gossip!End(m, x),
             m.kind = "block" => x = "parentUnknown" \/ m.id \in known
      PROVE  GossipInv'
  <2>1. PICK y \in {"ignore", "reject"} : stage' = [stage EXCEPT ![m] = y]
    BY <1>1, <1>7, EndIsTyped DEF Gossip!Outcomes
  <2>2. GossipTypeOK' BY <1>1, <1>7, EndIsTyped
  <2>3. AcceptedIsRemembered' /\ VerifiedAlone' /\ Gossip!AcceptedOnce' BY <1>1, <2>1, LetGo DEF Waits
  <2>4. \A o \in batch : o # m => stage'[o] = stage[o]
    BY <2>1 DEF GossipInv, GossipTypeOK, GossipConstants
  <2>5. received \subseteq received' BY <1>7 DEF Gossip!End
  <2>6. m.kind = "block" => m \in received' \/ m.id \in known BY <1>7 DEF Gossip!End, Gossip!HandedOn
  <2>7. Gossip!NoBlockDropped' BY <1>1, <2>4, <2>5, <2>6 DEF GossipInv, Gossip!NoBlockDropped
  <2> QED BY <2>2, <2>3, <2>7 DEF GossipInv
<1>8. CASE Gossip!StateReady(m) /\ Gossip!Middle(m) = "ok" BY <1>6, <1>8 DEF Gossip!StateReady
<1>9. CASE Gossip!StateReady(m) /\ Gossip!Middle(m) # "ok"
  <2>1. Gossip!End(m, Gossip!Middle(m)) BY <1>9 DEF Gossip!StateReady
  <2>2. m.kind = "block" => Gossip!Middle(m) = "parentUnknown" \/ m.id \in known
    BY <1>9 DEF Gossip!Middle, Gossip!ByEpoch, Gossip!ByDatabase
  <2> QED BY <1>5, <1>7, <1>9, <2>1, <2>2
<1>10. CASE Gossip!StateMissing(m)
  <2> DEFINE x == CASE m.kind \in Gossip!ByEpoch -> "reject" [] m.kind = "block" -> "parentUnknown" [] OTHER -> "ignore"
  <2>1. Gossip!End(m, x) BY <1>10 DEF Gossip!StateMissing
  <2>2. x \in {"ignore", "reject", "parentUnknown"} /\ (m.kind = "block" => x = "parentUnknown")
    BY DEF Gossip!ByEpoch
  <2> HIDE DEF x
  <2> QED BY <1>7, <2>1, <2>2
<1> QED BY <1>8, <1>9, <1>10

\* The end of a validation: what is let through is marked in the same step.
LEMMA SignatureKeeps ==
    ASSUME GossipConstants, GossipInv, NEW m \in batch, Gossip!SignatureVerified(m)
    PROVE  GossipInv'
<1>1. stage[m] = "signature" /\ UNCHANGED <<now, batch, known, finalized>> /\ Gossip!End(m, Gossip!Late(m))
  BY DEF Gossip!SignatureVerified
<1>2. m \in Messages BY DEF GossipConstants, GossipInv, GossipTypeOK
<1>3. Gossip!Late(m) \in Gossip!Outcomes BY DEF Gossip!Late, Gossip!Outcomes
<1>4. stage' = [stage EXCEPT ![m] = Gossip!Late(m)] BY <1>1, <1>3 DEF Gossip!End
<1>5. \A o \in batch : stage'[o] = IF o = m THEN Gossip!Late(m) ELSE stage[o]
  BY <1>4 DEF GossipInv, GossipTypeOK, GossipConstants
<1>6. GossipTypeOK' BY <1>1, EndIsTyped
<1>7. Gossip!NoBlockDropped'
  <2>1. received \subseteq received' BY <1>1 DEF Gossip!End
  <2>2. m.kind = "block" /\ m.flaw = "none" => m \in received'
    <3>1. m.kind = "block" /\ m.flaw = "none" => Gossip!Late(m) = "accept"
      BY DEF Gossip!Late, Gossip!ByEpoch
    <3> QED BY <1>1, <3>1 DEF Gossip!End, Gossip!HandedOn
  <2> QED BY <1>1, <1>5, <2>1, <2>2 DEF GossipInv, Gossip!NoBlockDropped
<1>8. CASE Gossip!Late(m) # "accept"
  <2>1. UNCHANGED seen BY <1>8 DEF Gossip!SignatureVerified
  <2>2. Gossip!Late(m) \in {"ignore", "reject"} BY <1>3, <1>8 DEF Gossip!Outcomes
  <2>3. AcceptedIsRemembered' /\ VerifiedAlone' /\ Gossip!AcceptedOnce'
    BY <1>1, <1>4, <2>1, <2>2, LetGo DEF Waits
  <2> QED BY <1>6, <1>7, <2>3 DEF GossipInv
<1>9. CASE Gossip!Late(m) = "accept"
  <2>1. seen \subseteq seen' /\ (m.kind # "block" => Gossip!SeenKey(m) \in seen')
    BY <1>9 DEF Gossip!SignatureVerified
  <2>2. m.kind \in Gossip!ByEpoch => ~Gossip!IsKnown(m) /\ ~(Gossip!PeriodOf(m) < Gossip!LowestPermissibleEpoch)
    BY <1>9 DEF Gossip!Late
  <2>3. \A o \in batch :
          Gossip!SeenKey(m) = Gossip!SeenKey(o) /\ (m.kind \in Gossip!ByEpoch \/ (m.kind \in Gossip!BySlot /\ FromGossip(m, o))) =>
            stage[o] # "accept"
    <3> SUFFICES ASSUME NEW o \in batch, Gossip!SeenKey(m) = Gossip!SeenKey(o), stage[o] = "accept",
                        m.kind \in Gossip!ByEpoch \/ (m.kind \in Gossip!BySlot /\ FromGossip(m, o))
                 PROVE  FALSE
      OBVIOUS
    <3>1. CASE m.kind \in Gossip!ByEpoch
      <4>1. o.kind \in Gossip!ByEpoch /\ ~Gossip!IsKnown(o) BY <2>2, <3>1, KeyFields DEF Gossip!IsKnown
      <4>2. Gossip!PeriodOf(o) < Gossip!LowestPermissibleEpoch
        BY <4>1 DEF GossipInv, AcceptedIsRemembered
      <4> QED BY <2>2, <3>1, <4>2, KeyFields
    <3>2. CASE m.kind \in Gossip!BySlot /\ FromGossip(m, o)
      BY <1>1, <3>2 DEF GossipInv, VerifiedAlone, Waits
    <3> QED BY <3>1, <3>2
  <2>4. AcceptedIsRemembered'
    <3> SUFFICES ASSUME NEW o \in batch, stage'[o] = "accept"
                 PROVE  /\ o.kind \in Gossip!ByEpoch => Gossip!IsKnown(o)' \/ Gossip!PeriodOf(o) < Gossip!LowestPermissibleEpoch
                        /\ o.kind \in Gossip!BySlot => Gossip!IsKnown(o)' \/ o.slot < Gossip!CurrentSlot - Gossip!MAX_SLOTS_IN_CACHE
      BY <1>1, Rigid
         DEF AcceptedIsRemembered, Gossip!LowestPermissibleEpoch, Gossip!CurrentEpoch, Gossip!CurrentSlot
    <3>1. CASE o = m BY <2>1, <3>1, Rigid DEF Gossip!IsKnown, Gossip!ByEpoch, Gossip!BySlot
    <3>2. CASE o # m
      <4>1. Gossip!IsKnown(o) => Gossip!IsKnown(o)' BY <2>1, Rigid DEF Gossip!IsKnown
      <4>2. stage[o] = "accept" BY <1>5, <3>2
      <4> QED BY <4>1, <4>2 DEF GossipInv, AcceptedIsRemembered
    <3> QED BY <3>1, <3>2
  <2>5. VerifiedAlone'
    <3> SUFFICES ASSUME NEW a \in batch, NEW o \in batch, a.kind \in Gossip!BySlot, stage'[a] \in Waits
                 PROVE  /\ stage'[a] = "signature"
                        /\ FromGossip(a, o) /\ o.kind = a.kind /\ stage'[o] \in Waits => o = a
                        /\ FromGossip(a, o) /\ Gossip!SeenKey(a) = Gossip!SeenKey(o) => stage'[o] # "accept"
      BY <1>1, Rigid DEF VerifiedAlone
    <3>1. a # m /\ stage[a] \in Waits BY <1>5, <1>9 DEF Waits
    <3>2. FromGossip(a, m) => a.kind # m.kind BY <1>1, <3>1 DEF GossipInv, VerifiedAlone, Waits, FromGossip
    <3>3. CASE o = m BY <1>5, <1>9, <3>1, <3>2, <3>3, KeyFields DEF GossipInv, VerifiedAlone, Waits
    <3>4. CASE o # m BY <1>5, <3>1, <3>4 DEF GossipInv, VerifiedAlone
    <3> QED BY <3>3, <3>4
  <2>6. Gossip!AcceptedOnce'
    <3> SUFFICES ASSUME NEW a \in batch, NEW o \in batch, a # o, Gossip!SeenKey(a) = Gossip!SeenKey(o),
                        stage'[a] = "accept", stage'[o] = "accept"
                 PROVE  a.kind \notin Gossip!ByEpoch /\ (a.kind \in Gossip!BySlot => "api" \in {a.via, o.via})
      BY <1>1, Rigid DEF Gossip!AcceptedOnce
    <3>0. a \in Messages /\ o \in Messages BY DEF GossipConstants, GossipInv, GossipTypeOK
    <3>1. CASE a = m BY <1>5, <2>3, <3>0, <3>1 DEF FromGossip, GossipConstants
    <3>2. CASE o = m BY <1>5, <2>3, <3>0, <3>2, KeyFields DEF FromGossip, GossipConstants
    <3>3. CASE a # m /\ o # m BY <1>5, <3>3 DEF GossipInv, Gossip!AcceptedOnce
    <3> QED BY <3>1, <3>2, <3>3
  <2> QED BY <1>6, <1>7, <2>4, <2>5, <2>6 DEF GossipInv
<1> QED BY <1>8, <1>9

\* The caches forget only what is too old to be let through.
LEMMA TickKeeps ==
    ASSUME GossipConstants, GossipInv, Gossip!Tick
    PROVE  GossipInv'
<1>1. now' = now + 1 /\ UNCHANGED <<batch, stage, known, finalized, received>> BY DEF Gossip!Tick
<1>2. GossipTypeOK' BY <1>1 DEF GossipInv, GossipTypeOK
<1>3. batch \subseteq Messages BY DEF GossipConstants, GossipInv, GossipTypeOK
<1>4. VerifiedAlone' /\ Gossip!AcceptedOnce' /\ Gossip!NoBlockDropped'
  BY <1>1, Rigid DEF GossipInv, VerifiedAlone, Gossip!AcceptedOnce, Gossip!NoBlockDropped
<1>5. AcceptedIsRemembered'
  <2> SUFFICES ASSUME NEW m \in batch, stage[m] = "accept"
               PROVE  /\ m.kind \in Gossip!ByEpoch => Gossip!IsKnown(m)' \/ Gossip!PeriodOf(m) < Gossip!LowestPermissibleEpoch'
                      /\ m.kind \in Gossip!BySlot => Gossip!IsKnown(m)' \/ m.slot < Gossip!CurrentSlot' - Gossip!MAX_SLOTS_IN_CACHE
    BY <1>1, Rigid DEF AcceptedIsRemembered
  <2> DEFINE entry == Gossip!SeenKey(m)
  <2>0. entry.kind = m.kind /\ entry.period = Gossip!PeriodOf(m) BY DEF Gossip!SeenKey
  <2>1. (Gossip!IsKnown(m) => entry \in seen) /\ (entry \in seen' => Gossip!IsKnown(m)')
    BY Rigid DEF Gossip!IsKnown
  <2> HIDE DEF entry
  <2>2. /\ Gossip!CurrentSlot \in Nat /\ Gossip!CurrentSlot' \in Nat /\ Gossip!CurrentSlot <= Gossip!CurrentSlot'
        /\ Gossip!LowestPermissibleEpoch \in Nat /\ Gossip!LowestPermissibleEpoch' \in Nat
        /\ Gossip!LowestPermissibleEpoch <= Gossip!LowestPermissibleEpoch' /\ Gossip!PeriodOf(m) \in Nat
    BY <1>1, <1>3, ClockFacts DEF GossipInv
  <2>3. m.slot \in Nat BY <1>3 DEF GossipConstants
  <2>4. entry \in seen /\ entry \notin seen' => entry \notin Gossip!Pruned(seen, Gossip!CurrentSlot')
    BY <1>1, ClockFacts DEF Gossip!Tick, Gossip!CurrentSlot, GossipInv
  <2>5. CASE m.kind \in Gossip!ByEpoch
    <3>1. m.kind # "syncMessage" /\ m.kind # "contribution" BY <2>5 DEF Gossip!ByEpoch
    <3>2. entry \in seen /\ Gossip!PeriodOf(m) >= Gossip!LowestPermissibleEpoch' => entry \in Gossip!Pruned(seen, Gossip!CurrentSlot')
      BY <2>0, <3>1 DEF Gossip!Pruned, Gossip!LowestPermissibleEpoch, Gossip!CurrentEpoch
    <3>3. m.kind \notin Gossip!BySlot BY <2>5 DEF Gossip!ByEpoch, Gossip!BySlot
    <3>4. Gossip!IsKnown(m) \/ Gossip!PeriodOf(m) < Gossip!LowestPermissibleEpoch
      BY <2>5 DEF GossipInv, AcceptedIsRemembered
    <3>5. entry \in seen' \/ Gossip!PeriodOf(m) < Gossip!LowestPermissibleEpoch'
      BY <2>1, <2>2, <2>4, <3>2, <3>4
    <3> QED BY <2>1, <3>3, <3>5
  <2>6. CASE m.kind \in Gossip!BySlot
    <3>1. m.kind \notin Gossip!ByEpoch /\ Gossip!PeriodOf(m) = m.slot
      BY <2>6 DEF Gossip!ByEpoch, Gossip!BySlot, Gossip!ByDatabase, Gossip!PeriodOf
    <3>2. entry \in seen /\ m.slot >= Gossip!CurrentSlot' - Gossip!MAX_SLOTS_IN_CACHE => entry \in Gossip!Pruned(seen, Gossip!CurrentSlot')
      BY <2>0, <2>2, <2>3, <3>1 DEF Gossip!Pruned, Gossip!MAX_SLOTS_IN_CACHE
    <3>3. Gossip!IsKnown(m) \/ m.slot < Gossip!CurrentSlot - Gossip!MAX_SLOTS_IN_CACHE
      BY <2>6 DEF GossipInv, AcceptedIsRemembered
    <3>4. entry \in seen' \/ m.slot < Gossip!CurrentSlot' - Gossip!MAX_SLOTS_IN_CACHE
      BY <2>1, <2>2, <2>3, <2>4, <3>2, <3>3 DEF Gossip!MAX_SLOTS_IN_CACHE
    <3> QED BY <2>1, <3>1, <3>4
  <2>7. CASE m.kind \notin Gossip!ByEpoch \union Gossip!BySlot BY <2>7
  <2> QED BY <2>5, <2>6, <2>7
<1> QED BY <1>2, <1>4, <1>5 DEF GossipInv

\* A new head is not after the current slot, so that the contributions it makes the
\* cache forget are too old.
LEMMA NewHeadKeeps ==
    ASSUME GossipConstants, GossipInv, NEW headSlot \in 0..Gossip!CurrentSlot, Gossip!NewHead(headSlot)
    PROVE  GossipInv'
<1>1. UNCHANGED <<now, batch, stage, known, finalized, received>> BY DEF Gossip!NewHead
<1>2. GossipTypeOK' BY <1>1 DEF GossipInv, GossipTypeOK
<1>3. VerifiedAlone' /\ Gossip!AcceptedOnce' /\ Gossip!NoBlockDropped'
  BY <1>1, Rigid DEF GossipInv, VerifiedAlone, Gossip!AcceptedOnce, Gossip!NoBlockDropped
<1>4. AcceptedIsRemembered'
  <2> SUFFICES ASSUME NEW m \in batch, stage[m] = "accept"
               PROVE  /\ m.kind \in Gossip!ByEpoch => Gossip!IsKnown(m)' \/ Gossip!PeriodOf(m) < Gossip!LowestPermissibleEpoch
                      /\ m.kind \in Gossip!BySlot => Gossip!IsKnown(m)' \/ m.slot < Gossip!CurrentSlot - Gossip!MAX_SLOTS_IN_CACHE
    BY <1>1, Rigid
       DEF AcceptedIsRemembered, Gossip!LowestPermissibleEpoch, Gossip!CurrentEpoch, Gossip!CurrentSlot
  <2>1. m.slot \in Nat /\ Gossip!CurrentSlot \in Nat /\ headSlot \in Nat /\ headSlot <= Gossip!CurrentSlot
    BY ClockFacts DEF GossipConstants, GossipInv, GossipTypeOK
  <2>2. Gossip!SeenKey(m).kind = m.kind /\ Gossip!SeenKey(m).period = Gossip!PeriodOf(m) BY DEF Gossip!SeenKey
  <2>3. m.kind = "contribution" => Gossip!PeriodOf(m) = m.slot
    BY DEF Gossip!PeriodOf, Gossip!ByEpoch, Gossip!ByDatabase
  <2>4. Gossip!IsKnown(m) => Gossip!IsKnown(m)' \/ (m.kind = "contribution" /\ m.slot < headSlot - 8)
    BY <2>1, <2>2, <2>3, Rigid DEF Gossip!NewHead, Gossip!IsKnown, Gossip!MAX_SLOTS_IN_CONTRIBUTION_CACHE
  <2>5. m.slot < headSlot - 8 => m.slot < Gossip!CurrentSlot - Gossip!MAX_SLOTS_IN_CACHE
    BY <2>1 DEF Gossip!MAX_SLOTS_IN_CACHE
  <2>6. m.kind = "contribution" => m.kind \notin Gossip!ByEpoch BY DEF Gossip!ByEpoch
  <2> QED BY <2>4, <2>5, <2>6 DEF GossipInv, AcceptedIsRemembered
<1> QED BY <1>2, <1>3, <1>4 DEF GossipInv

\* Imports and finalization keep the invariant.
LEMMA ChainKeeps ==
    ASSUME GossipConstants, GossipInv, (\E b : Gossip!ImportBlock(b)) \/ Gossip!Finalize \/ UNCHANGED Gossip!vars
    PROVE  GossipInv'
<1>1. /\ UNCHANGED <<now, batch, stage, seen, received>>
      /\ known \subseteq known'
      /\ finalized' \in Nat /\ finalized' >= finalized
  BY DEF Gossip!ImportBlock, Gossip!Finalize, Gossip!vars, GossipInv, GossipTypeOK
<1>2. batch \subseteq Messages BY DEF GossipConstants, GossipInv, GossipTypeOK
<1>3. GossipTypeOK' BY <1>1 DEF GossipInv, GossipTypeOK
<1>4. AcceptedIsRemembered' /\ VerifiedAlone' /\ Gossip!AcceptedOnce'
  BY <1>1, Rigid
     DEF GossipInv, AcceptedIsRemembered, VerifiedAlone, Gossip!AcceptedOnce, Gossip!IsKnown,
         Gossip!LowestPermissibleEpoch, Gossip!CurrentEpoch, Gossip!CurrentSlot
<1>5. \A m \in batch : m.slot > finalized' => m.slot > finalized
  BY <1>1, <1>2 DEF GossipConstants, GossipInv, GossipTypeOK
<1>6. Gossip!NoBlockDropped' BY <1>1, <1>5 DEF GossipInv, Gossip!NoBlockDropped
<1> QED BY <1>3, <1>4, <1>6 DEF GossipInv

LEMMA GossipStarts ==
    ASSUME GossipConstants, Gossip!Init
    PROVE  GossipInv
<1>1. batch \subseteq Messages BY DEF Gossip!Init, GossipConstants
<1>2. \A m \in batch : stage[m] = "queued" BY <1>1 DEF Gossip!Init
<1>3. GossipTypeOK BY DEF Gossip!Init, GossipTypeOK
<1>4. AcceptedIsRemembered /\ VerifiedAlone /\ Gossip!AcceptedOnce /\ Gossip!NoBlockDropped
  BY <1>2
     DEF AcceptedIsRemembered, VerifiedAlone, Gossip!AcceptedOnce, Gossip!NoBlockDropped, Waits,
     Gossip!Outcomes
<1> QED BY <1>3, <1>4 DEF GossipInv

LEMMA GossipKeeps ==
    ASSUME GossipConstants, GossipInv, [Gossip!Next]_Gossip!vars
    PROVE  GossipInv'
BY ValidateKeeps, StateKeeps, SignatureKeeps, TickKeeps, NewHeadKeeps, ChainKeeps DEF Gossip!Next

\* However many messages come from gossip and from the API, whatever is wrong with them
\* and however their validations interleave with the clock, the chain and each other:
\* at most one attestation and one aggregate of a validator is let through for an epoch,
\* at most one sync committee message and one contribution from gossip for a slot and
\* subnet, and no sound block is dropped.
THEOREM GossipAcceptsOnce == ASSUME GossipConstants PROVE MCSpec => []AcceptedOnce
<1> DEFINE Inv == part = "gossip" => GossipInv
<1>1. MCInit => Inv BY GossipStarts DEF MCInit
<1>2. Inv /\ [MCNext]_allVars => Inv'
  <2> SUFFICES ASSUME Inv, [MCNext]_allVars, part' = "gossip" PROVE GossipInv' OBVIOUS
  <2>1. part = "gossip" BY DEF MCNext, allVars
  <2>2. CASE UNCHANGED allVars
    <3>1. UNCHANGED Gossip!vars BY <2>2 DEF allVars, registers, from4, Gossip!vars
    <3> QED BY <2>1, <3>1, GossipKeeps
  <2>3. CASE MCNext
    <3>1. Gossip!Next BY <2>1, <2>3 DEF MCNext
    <3> QED BY <2>1, <3>1, GossipKeeps
  <2> QED BY <2>2, <2>3
<1>3. Inv => AcceptedOnce BY DEF GossipInv, AcceptedOnce
<1> QED BY <1>1, <1>2, <1>3, PTL DEF MCSpec

-----------------------------------------------------------------------------
(* The pools that aggregate signatures, in their registers. *)

pool == r2

USE DEF pool

\* Attestations and sync committee messages come with one signature each.
SingleSignatures == Members \subseteq Nat /\ \A item \in Items : \E i \in Members : item = {i}

Aggregates == [bits : SUBSET Members, signatures : [Members -> Nat]]
Exact(a) == \A i \in Members : a.signatures[i] = IF i \in a.bits THEN 1 ELSE 0

PoolInv ==
    /\ pool \in [Pool!Slots -> [DataRoots -> Aggregates]]
    /\ \A slot \in Pool!Slots, root \in DataRoots : Exact(pool[slot][root])

\* Adding one signature to an aggregate, or making one of it, keeps its bits exact.
LEMMA AggregatesStayExact ==
    ASSUME SingleSignatures, NEW a \in Aggregates, Exact(a), NEW item \in Items
    PROVE  /\ Pool!ToAggregate(item) \in Aggregates /\ Exact(Pool!ToAggregate(item))
           /\ Pool!AggregateInto(a, item) \in Aggregates /\ Exact(Pool!AggregateInto(a, item))
           /\ Pool!NoAggregate \in Aggregates /\ Exact(Pool!NoAggregate)
<1>1. PICK i \in Members : item = {i} BY DEF SingleSignatures
<1>2. Pool!ToAggregate(item) \in Aggregates /\ Exact(Pool!ToAggregate(item))
  BY <1>1 DEF Pool!ToAggregate, Aggregates, Exact
<1>3. Pool!NoAggregate \in Aggregates /\ Exact(Pool!NoAggregate)
  BY DEF Pool!NoAggregate, Aggregates, Exact
<1>4. CASE i \notin a.bits
  <2>1. Pool!AggregateInto(a, item) =
          [bits |-> a.bits \union {i},
           signatures |-> [j \in Members |-> a.signatures[j] + (IF j = i THEN 1 ELSE 0)]]
    BY <1>1, <1>4 DEF Pool!AggregateInto
  <2>2. Pool!AggregateInto(a, item) \in Aggregates
    <3>1. \A j \in Members : a.signatures[j] + (IF j = i THEN 1 ELSE 0) \in Nat BY DEF Aggregates
    <3>2. a.bits \union {i} \in SUBSET Members BY DEF Aggregates
    <3> QED BY <2>1, <3>1, <3>2 DEF Aggregates
  <2>3. Exact(Pool!AggregateInto(a, item)) BY <1>4, <2>1 DEF Exact, Aggregates
  <2> QED BY <1>2, <1>3, <2>2, <2>3
<1>5. CASE i \in a.bits
  <2>1. item \intersect a.bits = {i} BY <1>1, <1>5
  <2>2. i \in Nat BY DEF SingleSignatures
  <2>3. Pool!Min({i}) = i BY <2>2 DEF Pool!Min
  <2>4. {j \in item : j < Pool!Min({i})} = {} BY <1>1, <2>2, <2>3
  <2>5. Pool!AggregateInto(a, item) = [a EXCEPT !.bits = @ \union {}]
    BY <2>1, <2>4 DEF Pool!AggregateInto
  <2>6. Pool!AggregateInto(a, item) = a BY <2>5 DEF Aggregates
  <2> QED BY <1>2, <1>3, <2>6
<1> QED BY <1>4, <1>5

LEMMA NoAggregateIsExact == Pool!NoAggregate \in Aggregates /\ Exact(Pool!NoAggregate)
BY DEF Pool!NoAggregate, Aggregates, Exact

LEMMA PoolStarts == Pool!Init => PoolInv
BY NoAggregateIsExact DEF Pool!Init, PoolInv

LEMMA PoolKeeps ==
    ASSUME SingleSignatures, PoolInv, [Pool!Next]_(Pool!vars)
    PROVE  PoolInv'
<1>0. Pool!NoAggregate \in Aggregates /\ Exact(Pool!NoAggregate) BY NoAggregateIsExact
<1>1. ASSUME NEW slot \in Pool!Slots, NEW root \in DataRoots, NEW item \in Items, Pool!Add(slot, root, item)
      PROVE  PoolInv'
  <2> DEFINE old == pool[slot][root]
             new == IF old = Pool!NoAggregate THEN Pool!ToAggregate(item) ELSE Pool!AggregateInto(old, item)
  <2>1. old \in Aggregates /\ Exact(old) BY DEF PoolInv
  <2>2. new \in Aggregates /\ Exact(new) BY <2>1, AggregatesStayExact
  <2>3. pool' = [pool EXCEPT ![slot][root] = new] BY <1>1 DEF Pool!Add
  <2> HIDE DEF new, old
  <2> QED BY <2>2, <2>3 DEF PoolInv
<1>2. CASE Pool!Prune
  <2>1. pool' = Pool!PruneBySlot(pool) BY <1>2 DEF Pool!Prune
  <2>2. \A s \in Pool!Slots : pool'[s] = pool[s] \/ pool'[s] = [r \in DataRoots |-> Pool!NoAggregate]
    BY <2>1 DEF Pool!PruneBySlot
  <2>3. pool' \in [Pool!Slots -> [DataRoots -> Aggregates]]
    <3>1. \A s \in Pool!Slots : pool'[s] \in [DataRoots -> Aggregates]
      BY <1>0, <2>2 DEF PoolInv
    <3>2. pool' = [s \in Pool!Slots |-> pool'[s]] BY <2>1 DEF Pool!PruneBySlot
    <3> QED BY <3>1, <3>2
  <2> QED BY <1>0, <2>2, <2>3 DEF PoolInv
<1>3. CASE UNCHANGED Pool!vars BY <1>3 DEF Pool!vars, PoolInv
<1> QED BY <1>1, <1>2, <1>3 DEF Pool!Next

\* An aggregate of the attestation pool or of the sync committee message pool has the
\* bits of exactly the signatures that are in it, each once: whatever is added, as
\* often as it comes, and whatever is pruned between.
THEOREM PoolAggregatesAreSigned == ASSUME SingleSignatures PROVE MCSpec => []AggregatesAreSigned
<1> DEFINE Inv == part = "pool" => PoolInv
<1>1. MCInit => Inv BY PoolStarts DEF MCInit
<1>2. Inv /\ [MCNext]_allVars => Inv'
  <2> SUFFICES ASSUME Inv, [MCNext]_allVars, part' = "pool" PROVE PoolInv' OBVIOUS
  <2>1. part = "pool" BY DEF MCNext, allVars
  <2>2. CASE UNCHANGED allVars
    <3>1. UNCHANGED Pool!vars BY <2>2 DEF allVars, registers, from4, Pool!vars
    <3> QED BY <2>1, <3>1, PoolKeeps
  <2>3. CASE MCNext
    <3>1. Pool!Next BY <2>1, <2>3 DEF MCNext
    <3> QED BY <2>1, <3>1, PoolKeeps
  <2> QED BY <2>2, <2>3
<1>3. Inv => AggregatesAreSigned
  BY DEF PoolInv, Exact, Pool!AggregatesAreSigned, AggregatesAreSigned
<1> QED BY <1>1, <1>2, <1>3, PTL DEF MCSpec

-----------------------------------------------------------------------------
(* The subnet services, in their registers. *)

net == r2

USE DEF net

\* Subnets and validators are finite in number; the periods are natural numbers.
SubnetConstants ==
    /\ SlotsPerEpoch \in Nat \ {0} /\ ALTAIR_FORK_EPOCH \in Nat /\ FORK_EPOCH_LOOKAHEAD \in Nat
    /\ EPOCHS_PER_RANDOM_SUBNET_SUBSCRIPTION \in Nat /\ RANDOM_SUBNETS_PER_VALIDATOR \in Nat
    /\ LAST_SEEN_VALIDATOR_TIMEOUT \in Nat /\ DutyLookahead \in Nat
    /\ IsFiniteSet(AttSubnets) /\ IsFiniteSet(Validators)

\* The services' state.
MapsOf(S) == UNION {[D -> Nat] : D \in SUBSET S}
Nets == [committee : MapsOf(AttSubnets), random : MapsOf(AttSubnets), known : MapsOf(Validators),
         sync : MapsOf(SyncSubnets),
         topics : SUBSET ({"att", "sync"} \X (AttSubnets \union SyncSubnets) \X Sub!Forks),
         core : SUBSET Sub!Forks, attnets : SUBSET AttSubnets, syncnets : SUBSET SyncSubnets]

Held(n) == DOMAIN n.committee \union DOMAIN n.random

\* A topic of the fork before the one that long has begun may be left over; none is of a
\* fork still far ahead.
LeftOver(f, epoch) == f = "phase0" /\ epoch > ALTAIR_FORK_EPOCH + FORK_EPOCH_LOOKAHEAD
NotAhead(f, epoch) == f = "altair" => epoch >= ALTAIR_FORK_EPOCH - FORK_EPOCH_LOOKAHEAD

\* Any other attestation topic is held by a map, or by one of the subnets X that are being
\* given up, and any other sync committee topic by the map of the sync committee subnets.
AttHeld(n, epoch, X) ==
    \A s \in AttSubnets, f \in Sub!Forks : <<"att", s, f>> \in n.topics =>
        (s \in Held(n) \union X \/ LeftOver(f, epoch)) /\ NotAhead(f, epoch)
SyncHeld(n, epoch) ==
    \A s \in SyncSubnets, f \in Sub!Forks : <<"sync", s, f>> \in n.topics =>
        (s \in DOMAIN n.sync \/ LeftOver(f, epoch)) /\ NotAhead(f, epoch)
CleanUpTo(n, epoch, X) == AttHeld(n, epoch, X) /\ SyncHeld(n, epoch)

\* There are not more random subnets than the known validators ask for, and the ENR has them.
Few(n) == Cardinality(DOMAIN n.random) <= Sub!TargetRandomSubnetCount(n)
Advertised(n) == n.attnets = DOMAIN n.random
NoneExpired(n, at) == \A s \in DOMAIN n.random : n.random[s] >= at

SubnetInv ==
    /\ r1 \in Nat
    /\ net \in Nets
    /\ CleanUpTo(net, Sub!EpochOf(r1), {})
    /\ Few(net)
    /\ Advertised(net)

\* The operators of the component's own module.
LEMMA SubnetOperators ==
    /\ \A S : Sub!Cardinality(S) = Cardinality(S)
    /\ \A a, b \in Int : /\ Sub!Min({a, b}) = IF a <= b THEN a ELSE b
                         /\ Sub!Max({a, b}) = IF a <= b THEN b ELSE a
<1>1. \A S : Sub!Cardinality(S) = Cardinality(S) BY DEF Cardinality, Sub!Cardinality
<1>2. ASSUME NEW a \in Int, NEW b \in Int
      PROVE  /\ Sub!Min({a, b}) = IF a <= b THEN a ELSE b
             /\ Sub!Max({a, b}) = IF a <= b THEN b ELSE a
  BY DEF Sub!Min, Sub!Max
<1> QED BY <1>1, <1>2

\* A map of a finite set has a finite domain.
LEMMA MapFacts ==
    ASSUME NEW S, NEW m \in MapsOf(S)
    PROVE  /\ DOMAIN m \in SUBSET S /\ \A x \in DOMAIN m : m[x] \in Nat
           /\ m \in [DOMAIN m -> Nat]
           /\ IsFiniteSet(S) => IsFiniteSet(DOMAIN m) /\ Cardinality(DOMAIN m) \in Nat
           /\ \A gone : Sub!Without(m, gone) \in MapsOf(S) /\ DOMAIN Sub!Without(m, gone) = DOMAIN m \ gone
<1>1. PICK D \in SUBSET S : m \in [D -> Nat] BY DEF MapsOf
<1>2. DOMAIN m = D BY <1>1
<1>3. IsFiniteSet(S) => IsFiniteSet(DOMAIN m) /\ Cardinality(DOMAIN m) \in Nat
  BY <1>2, FS_Subset, FS_CardinalityType
<1>4. ASSUME NEW gone
      PROVE  Sub!Without(m, gone) \in MapsOf(S) /\ DOMAIN Sub!Without(m, gone) = DOMAIN m \ gone
  <2>1. Sub!Without(m, gone) \in [D \ gone -> Nat] BY <1>1, <1>2 DEF Sub!Without
  <2> QED BY <1>2, <2>1 DEF MapsOf
<1> QED BY <1>1, <1>2, <1>3, <1>4

\* More known validators ask for no fewer random subnets.
LEMMA TargetFacts ==
    ASSUME SubnetConstants, NEW n \in Nets
    PROVE  /\ Cardinality(DOMAIN n.random) \in Nat /\ IsFiniteSet(DOMAIN n.random)
           /\ Sub!TargetRandomSubnetCount(n) \in Nat
           /\ \A m \in Nets : DOMAIN n.known \subseteq DOMAIN m.known =>
                Sub!TargetRandomSubnetCount(n) <= Sub!TargetRandomSubnetCount(m)
           /\ \A m \in Nets : DOMAIN n.known = DOMAIN m.known =>
                Sub!TargetRandomSubnetCount(n) = Sub!TargetRandomSubnetCount(m)
<1> DEFINE R == RANDOM_SUBNETS_PER_VALIDATOR
           K(m) == Cardinality(DOMAIN m.known)
           A == Cardinality(AttSubnets)
<1>1. \A m \in Nets : K(m) \in Nat /\ IsFiniteSet(DOMAIN m.known) /\ Cardinality(DOMAIN m.random) \in Nat /\ IsFiniteSet(DOMAIN m.random)
  BY MapFacts DEF Nets, SubnetConstants
<1>2. A \in Nat /\ R \in Nat BY FS_CardinalityType DEF SubnetConstants
<1>3. \A a, b \in Nat : a * b \in Nat OBVIOUS
<1>4. \A m \in Nets : Sub!TargetRandomSubnetCount(m) = IF K(m) * R <= A THEN K(m) * R ELSE A
  BY <1>1, <1>2, <1>3, SubnetOperators DEF Sub!TargetRandomSubnetCount
<1>5. \A a, b \in Nat : a <= b => a * R <= b * R
  <2> SUFFICES ASSUME NEW a \in Nat, NEW b \in Nat, a <= b PROVE a * R <= b * R OBVIOUS
  <2>1. (b - a) * R >= 0 BY <1>2
  <2>2. (b - a) * R = b * R - a * R BY <1>2
  <2>3. a * R \in Nat /\ b * R \in Nat BY <1>2
  <2> QED BY <2>1, <2>2, <2>3
<1>6. ASSUME NEW m \in Nets, DOMAIN n.known \subseteq DOMAIN m.known PROVE K(n) <= K(m)
  BY <1>1, <1>6, FS_Subset
<1> HIDE DEF K, R, A
<1>7. \A m \in Nets : K(m) * R \in Nat BY <1>1, <1>2, <1>3
<1>8. Sub!TargetRandomSubnetCount(n) \in Nat BY <1>2, <1>4, <1>7
<1>9. ASSUME NEW m \in Nets, DOMAIN n.known \subseteq DOMAIN m.known
      PROVE  Sub!TargetRandomSubnetCount(n) <= Sub!TargetRandomSubnetCount(m)
  <2>1. K(n) * R <= K(m) * R BY <1>1, <1>5, <1>6, <1>9
  <2> QED BY <1>2, <1>4, <1>7, <2>1
<1>10. ASSUME NEW m \in Nets, DOMAIN n.known = DOMAIN m.known
       PROVE  Sub!TargetRandomSubnetCount(n) = Sub!TargetRandomSubnetCount(m)
  BY <1>4, <1>10 DEF K
<1> QED BY <1>1, <1>8, <1>9, <1>10

\* Which forks' topics a subnet has (getActiveForks).
LEMMA ForkFacts ==
    ASSUME SubnetConstants, NEW epoch \in Nat
    PROVE  /\ Sub!GetActiveForks(epoch) \in SUBSET Sub!Forks
           /\ "altair" \in Sub!GetActiveForks(epoch) <=> epoch >= ALTAIR_FORK_EPOCH - FORK_EPOCH_LOOKAHEAD
           /\ "phase0" \in Sub!GetActiveForks(epoch) <=> epoch <= ALTAIR_FORK_EPOCH + FORK_EPOCH_LOOKAHEAD
BY DEF SubnetConstants, Sub!GetActiveForks, Sub!Forks

\* Epochs only rise.
LEMMA EpochFacts ==
    ASSUME SubnetConstants, NEW at \in Nat
    PROVE  Sub!EpochOf(at) \in Nat /\ Sub!EpochOf(at + 1) \in Nat /\ Sub!EpochOf(at) <= Sub!EpochOf(at + 1)
BY DivisionMonotone DEF SubnetConstants, Sub!EpochOf

\* The services' state with other topics, or with other entries of one map.
LEMMA NetFacts ==
    ASSUME NEW n \in Nets
    PROVE  /\ \A t \in SUBSET ({"att", "sync"} \X (AttSubnets \union SyncSubnets) \X Sub!Forks) :
                [n EXCEPT !.topics = t] \in Nets
           /\ \A m \in MapsOf(AttSubnets) : [n EXCEPT !.random = m] \in Nets /\ [n EXCEPT !.committee = m] \in Nets
           /\ \A m \in MapsOf(Validators) : [n EXCEPT !.known = m] \in Nets
           /\ \A S \in SUBSET AttSubnets : [n EXCEPT !.attnets = S] \in Nets
           /\ \A S \in SUBSET Sub!Forks : [n EXCEPT !.core = S] \in Nets
           /\ n.random \in MapsOf(AttSubnets) /\ n.committee \in MapsOf(AttSubnets)
           /\ n.known \in MapsOf(Validators) /\ n.sync \in MapsOf(SyncSubnets)
           /\ n.topics \in SUBSET ({"att", "sync"} \X (AttSubnets \union SyncSubnets) \X Sub!Forks)
           /\ Held(n) \in SUBSET AttSubnets
<1>1. /\ n.random \in MapsOf(AttSubnets) /\ n.committee \in MapsOf(AttSubnets)
      /\ n.known \in MapsOf(Validators) /\ n.sync \in MapsOf(SyncSubnets)
      /\ n.topics \in SUBSET ({"att", "sync"} \X (AttSubnets \union SyncSubnets) \X Sub!Forks)
  BY DEF Nets
<1>2. Held(n) \in SUBSET AttSubnets BY <1>1, MapFacts DEF Held
<1>3. \A t \in SUBSET ({"att", "sync"} \X (AttSubnets \union SyncSubnets) \X Sub!Forks) :
        [n EXCEPT !.topics = t] \in Nets
  BY DEF Nets
<1>4. \A m \in MapsOf(AttSubnets) : [n EXCEPT !.random = m] \in Nets /\ [n EXCEPT !.committee = m] \in Nets
  BY DEF Nets
<1>5. \A m \in MapsOf(Validators) : [n EXCEPT !.known = m] \in Nets BY DEF Nets
<1>6. \A S \in SUBSET AttSubnets : [n EXCEPT !.attnets = S] \in Nets BY DEF Nets
<1>7. \A S \in SUBSET Sub!Forks : [n EXCEPT !.core = S] \in Nets BY DEF Nets
<1> QED BY <1>1, <1>2, <1>3, <1>4, <1>5, <1>6, <1>7

SameButTopics(n, m) ==
    /\ m.committee = n.committee /\ m.random = n.random /\ m.known = n.known
    /\ m.sync = n.sync /\ m.attnets = n.attnets /\ m.core = n.core /\ m.syncnets = n.syncnets

\* What leaves the sync committee subnets alone keeps what is said of them.
LEMMA SameSyncnets ==
    ASSUME NEW n, NEW m, m.sync = n.sync,
           \A s \in SyncSubnets, f \in Sub!Forks : <<"sync", s, f>> \in m.topics => <<"sync", s, f>> \in n.topics
    PROVE  \A epoch : SyncHeld(n, epoch) => SyncHeld(m, epoch)
BY DEF SyncHeld

\* subscribeToSubnets adds topics of the subnets it is given.
LEMMA SubscribeFacts ==
    ASSUME SubnetConstants, NEW n \in Nets, NEW S \in SUBSET AttSubnets, NEW at \in Nat, NEW X,
           CleanUpTo(n, Sub!EpochOf(at), X)
    PROVE  /\ Sub!SubscribeToSubnets(n, S, at) \in Nets
           /\ SameButTopics(n, Sub!SubscribeToSubnets(n, S, at))
           /\ CleanUpTo(Sub!SubscribeToSubnets(n, S, at), Sub!EpochOf(at), X \union S)
<1> DEFINE m == Sub!SubscribeToSubnets(n, S, at)
           forks == Sub!GetActiveForks(Sub!EpochOf(at))
           new == S \ Held(n)
           t == n.topics \union ({"att"} \X new \X forks)
<1>1. m = [n EXCEPT !.topics = t] BY DEF Sub!SubscribeToSubnets, Sub!Topics, Held
<1>2. /\ forks \in SUBSET Sub!Forks
      /\ "altair" \in forks => Sub!EpochOf(at) >= ALTAIR_FORK_EPOCH - FORK_EPOCH_LOOKAHEAD
  BY ForkFacts, EpochFacts
<1>3. t \in SUBSET ({"att", "sync"} \X (AttSubnets \union SyncSubnets) \X Sub!Forks)
  <2> HIDE DEF forks, new
  <2>1. new \in SUBSET AttSubnets BY DEF new
  <2> QED BY <1>2, <2>1, NetFacts
<1>4. m \in Nets BY <1>1, <1>3, NetFacts
<1>5. SameButTopics(n, m) /\ m.topics = t BY <1>1 DEF SameButTopics, Nets
<1>6. Held(m) = Held(n) BY <1>5 DEF SameButTopics, Held
<1>7. AttHeld(m, Sub!EpochOf(at), X \union S)
  <2> SUFFICES ASSUME NEW s \in AttSubnets, NEW f \in Sub!Forks, <<"att", s, f>> \in m.topics
               PROVE  /\ s \in Held(n) \union (X \union S) \/ LeftOver(f, Sub!EpochOf(at))
                      /\ NotAhead(f, Sub!EpochOf(at))
    BY <1>6 DEF AttHeld
  <2> HIDE DEF m, forks
  <2>1. CASE <<"att", s, f>> \in n.topics BY <2>1 DEF CleanUpTo, AttHeld
  <2>2. CASE s \in new /\ f \in forks BY <1>2, <2>2 DEF NotAhead
  <2> QED BY <1>5, <2>1, <2>2
<1>8. SyncHeld(m, Sub!EpochOf(at))
  <2>1. \A s, f : <<"sync", s, f>> \in t => <<"sync", s, f>> \in n.topics OBVIOUS
  <2> HIDE DEF m, t
  <2> QED BY <1>5, <2>1, SameSyncnets DEF SameButTopics, CleanUpTo
<1> QED BY <1>4, <1>5, <1>7, <1>8 DEF CleanUpTo

\* unsubscribeSubnets: the subnets it is given are held again by a map, or given up.
LEMMA UnsubscribeFacts ==
    ASSUME SubnetConstants, NEW n \in Nets, NEW S \in SUBSET AttSubnets, NEW at \in Nat,
           CleanUpTo(n, Sub!EpochOf(at), S)
    PROVE  /\ Sub!UnsubscribeSubnets(n, S, at) \in Nets
           /\ SameButTopics(n, Sub!UnsubscribeSubnets(n, S, at))
           /\ CleanUpTo(Sub!UnsubscribeSubnets(n, S, at), Sub!EpochOf(at), {})
<1> DEFINE m == Sub!UnsubscribeSubnets(n, S, at)
           forks == Sub!GetActiveForks(Sub!EpochOf(at))
           unused == {s \in S : ~Sub!IsActiveAtSlot(n.committee, s, at) /\ ~Sub!IsActiveAtSlot(n.random, s, at)}
           t == n.topics \ ({"att"} \X unused \X forks)
<1>1. m = [n EXCEPT !.topics = t] BY DEF Sub!UnsubscribeSubnets, Sub!Topics
<1>2. /\ Sub!EpochOf(at) \in Nat
      /\ "altair" \notin forks => ~(Sub!EpochOf(at) >= ALTAIR_FORK_EPOCH - FORK_EPOCH_LOOKAHEAD)
      /\ "phase0" \notin forks => Sub!EpochOf(at) > ALTAIR_FORK_EPOCH + FORK_EPOCH_LOOKAHEAD
  <2>1. Sub!EpochOf(at) \in Nat BY EpochFacts
  <2>2. ~(Sub!EpochOf(at) <= ALTAIR_FORK_EPOCH + FORK_EPOCH_LOOKAHEAD)
           => Sub!EpochOf(at) > ALTAIR_FORK_EPOCH + FORK_EPOCH_LOOKAHEAD
    BY <2>1 DEF SubnetConstants
  <2> QED BY <2>1, <2>2, ForkFacts
<1>3. t \in SUBSET ({"att", "sync"} \X (AttSubnets \union SyncSubnets) \X Sub!Forks) BY NetFacts
<1>4. m \in Nets BY <1>1, <1>3, NetFacts
<1>5. SameButTopics(n, m) /\ m.topics = t BY <1>1 DEF SameButTopics, Nets
<1>6. Held(m) = Held(n) BY <1>5 DEF SameButTopics, Held
<1>7. AttHeld(m, Sub!EpochOf(at), {})
  <2> SUFFICES ASSUME NEW s \in AttSubnets, NEW f \in Sub!Forks, <<"att", s, f>> \in m.topics
               PROVE  (s \in Held(n) \/ LeftOver(f, Sub!EpochOf(at))) /\ NotAhead(f, Sub!EpochOf(at))
    BY <1>6 DEF AttHeld
  <2>1. S \ unused \subseteq Held(n) BY DEF Held, Sub!IsActiveAtSlot
  <2>2. <<"att", s, f>> \in n.topics /\ ~(s \in unused /\ f \in forks) BY <1>5
  <2> HIDE DEF m, forks, unused
  <2>3. CASE s \in Held(n) BY <2>2, <2>3 DEF CleanUpTo, AttHeld
  <2>4. CASE s \notin Held(n) /\ s \in S
    <3>1. f \notin forks BY <2>1, <2>2, <2>4
    <3> QED BY <1>2, <2>2, <3>1 DEF CleanUpTo, AttHeld, LeftOver, NotAhead, Sub!Forks
  <2>5. CASE s \notin Held(n) /\ s \notin S BY <2>2, <2>5 DEF CleanUpTo, AttHeld
  <2> QED BY <2>3, <2>4, <2>5
<1>8. SyncHeld(m, Sub!EpochOf(at))
  <2>1. \A s, f : <<"sync", s, f>> \in t => <<"sync", s, f>> \in n.topics OBVIOUS
  <2> HIDE DEF m, t
  <2> QED BY <1>5, <2>1, SameSyncnets DEF SameButTopics, CleanUpTo
<1> QED BY <1>4, <1>5, <1>7, <1>8 DEF CleanUpTo

\* Taking random subnets.
LEMMA WithRandomFacts ==
    ASSUME SubnetConstants, NEW n \in Nets, NEW at \in Nat, CleanUpTo(n, Sub!EpochOf(at), {}),
           NEW new \in SUBSET AttSubnets, NEW len \in Nat
    PROVE  LET m == Sub!WithRandom(n, new, len, at)
           IN  /\ m \in Nets /\ m.known = n.known
               /\ DOMAIN m.random = DOMAIN n.random \union new
               /\ CleanUpTo(m, Sub!EpochOf(at), {})
               /\ NoneExpired(n, at) => NoneExpired(m, at)
<1> DEFINE k == Sub!SubscribeToSubnets(n, new, at)
           random == [s \in DOMAIN n.random \union new |-> IF s \in new THEN at + len ELSE n.random[s]]
           m == Sub!WithRandom(n, new, len, at)
<1>1. k \in Nets /\ SameButTopics(n, k) /\ CleanUpTo(k, Sub!EpochOf(at), new)
  <2>1. CleanUpTo(k, Sub!EpochOf(at), {} \union new) BY SubscribeFacts
  <2> QED BY <2>1, SubscribeFacts
<1>2. m = [k EXCEPT !.random = random]
  <2>1. k.random = n.random BY <1>1 DEF SameButTopics
  <2> HIDE DEF k
  <2> QED BY <2>1 DEF Sub!WithRandom, k
<1>3. random \in MapsOf(AttSubnets) /\ DOMAIN random = DOMAIN n.random \union new
  <2>1. DOMAIN n.random \in SUBSET AttSubnets /\ \A s \in DOMAIN n.random : n.random[s] \in Nat
    BY NetFacts, MapFacts
  <2>2. random \in [DOMAIN n.random \union new -> Nat] BY <2>1
  <2>3. DOMAIN n.random \union new \in SUBSET AttSubnets BY <2>1
  <2> HIDE DEF random
  <2> QED BY <2>2, <2>3 DEF MapsOf
<1>4. m \in Nets
  <2> HIDE DEF k, random, m
  <2> QED BY <1>1, <1>2, <1>3, NetFacts
<1>5. /\ m.known = n.known /\ m.random = random /\ m.topics = k.topics /\ m.committee = n.committee
      /\ m.sync = k.sync
  BY <1>1, <1>2 DEF Nets, SameButTopics
<1>6. Held(m) = Held(k) \union new
  BY <1>1, <1>3, <1>5 DEF Held, SameButTopics
<1>7. CleanUpTo(m, Sub!EpochOf(at), {})
  <2> HIDE DEF k, m
  <2>1. AttHeld(m, Sub!EpochOf(at), {}) BY <1>1, <1>5, <1>6 DEF CleanUpTo, AttHeld
  <2> QED BY <1>1, <1>5, <2>1, SameSyncnets DEF CleanUpTo
<1>8. NoneExpired(n, at) => NoneExpired(m, at) BY <1>3, <1>5 DEF NoneExpired
<1> QED BY <1>3, <1>4, <1>5, <1>7, <1>8

\* Giving up entries of the random map.
LEMMA WithoutRandomFacts ==
    ASSUME SubnetConstants, NEW n \in Nets, NEW at \in Nat, CleanUpTo(n, Sub!EpochOf(at), {}),
           NEW gone \in SUBSET AttSubnets
    PROVE  LET m == Sub!UnsubscribeSubnets([n EXCEPT !.random = Sub!Without(@, gone)], gone, at)
           IN  /\ m \in Nets /\ m.known = n.known /\ m.attnets = n.attnets
               /\ DOMAIN m.random = DOMAIN n.random \ gone
               /\ \A s \in DOMAIN m.random : m.random[s] = n.random[s]
               /\ CleanUpTo(m, Sub!EpochOf(at), {})
<1> DEFINE k == [n EXCEPT !.random = Sub!Without(@, gone)]
           m == Sub!UnsubscribeSubnets(k, gone, at)
<1>1. Sub!Without(n.random, gone) \in MapsOf(AttSubnets) /\ DOMAIN Sub!Without(n.random, gone) = DOMAIN n.random \ gone
  <2>1. n.random \in MapsOf(AttSubnets) BY NetFacts
  <2> QED BY <2>1, MapFacts
<1>2. k \in Nets BY <1>1, NetFacts
<1>3. /\ k.random = Sub!Without(n.random, gone) /\ k.committee = n.committee /\ k.known = n.known
      /\ k.topics = n.topics /\ k.attnets = n.attnets /\ k.sync = n.sync
  BY DEF Nets
<1>4. Held(n) \subseteq Held(k) \union gone BY <1>1, <1>3 DEF Held
<1> HIDE DEF k
<1>5. CleanUpTo(k, Sub!EpochOf(at), gone)
  <2>1. AttHeld(k, Sub!EpochOf(at), gone) BY <1>3, <1>4 DEF CleanUpTo, AttHeld
  <2> QED BY <1>3, <2>1, SameSyncnets DEF CleanUpTo
<1>6. m \in Nets /\ SameButTopics(k, m) /\ CleanUpTo(m, Sub!EpochOf(at), {})
  BY <1>2, <1>5, UnsubscribeFacts
<1>7. m.known = n.known /\ m.attnets = n.attnets /\ m.random = Sub!Without(n.random, gone)
  BY <1>3, <1>6 DEF SameButTopics
<1>8. \A s \in DOMAIN n.random \ gone : Sub!Without(n.random, gone)[s] = n.random[s] BY DEF Sub!Without
<1> QED BY <1>1, <1>6, <1>7, <1>8 DEF k

\* updateMetadata brings the ENR up to date and changes nothing else.
LEMMA MetadataFacts ==
    ASSUME NEW n \in Nets, NEW at
    PROVE  LET m == Sub!UpdateMetadata(n)
           IN  /\ m \in Nets /\ m.known = n.known /\ m.random = n.random /\ Advertised(m)
               /\ \A epoch, X : CleanUpTo(n, epoch, X) => CleanUpTo(m, epoch, X)
               /\ NoneExpired(n, at) => NoneExpired(m, at)
<1> DEFINE m == Sub!UpdateMetadata(n)
<1>1. DOMAIN n.random \in SUBSET AttSubnets BY NetFacts, MapFacts
<1>2. m \in Nets BY <1>1, NetFacts DEF Sub!UpdateMetadata
<1>3. m.known = n.known /\ m.random = n.random /\ m.topics = n.topics /\ m.committee = n.committee
      /\ m.attnets = DOMAIN n.random /\ m.sync = n.sync
  BY DEF Nets, Sub!UpdateMetadata
<1> HIDE DEF m
<1>4. \A epoch, X : CleanUpTo(n, epoch, X) => CleanUpTo(m, epoch, X)
  <2>1. \A epoch, X : AttHeld(n, epoch, X) => AttHeld(m, epoch, X) BY <1>3 DEF AttHeld, Held
  <2> QED BY <1>3, <2>1, SameSyncnets DEF CleanUpTo
<1> QED BY <1>2, <1>3, <1>4 DEF Advertised, NoneExpired, m

\* rebalanceRandomSubnets, of a state whose ENR is right or has to change, and in which a subnet
\* is given up only when none has run out.
LEMMA RebalanceFacts ==
    ASSUME SubnetConstants, NEW n \in Nets, NEW at \in Nat, CleanUpTo(n, Sub!EpochOf(at), {}),
           Advertised(n) \/ Cardinality(DOMAIN n.random) # Sub!TargetRandomSubnetCount(n),
           Few(n) \/ NoneExpired(n, at),
           NEW m \in Sub!RebalanceRandomSubnets(n, at)
    PROVE  /\ m \in Nets /\ m.known = n.known
           /\ CleanUpTo(m, Sub!EpochOf(at), {}) /\ Few(m) /\ Advertised(m)
           /\ NoneExpired(n, at) => NoneExpired(m, at)
<1> DEFINE R == DOMAIN n.random
           target == Sub!TargetRandomSubnetCount(n)
           diff == target - Cardinality(R)
           active == Sub!GetActive(n.random, at)
           available == AttSubnets \ active
<1>1. Cardinality(R) \in Nat /\ IsFiniteSet(R) /\ target \in Nat /\ R \in SUBSET AttSubnets
  BY TargetFacts, NetFacts, MapFacts
<1>2. IsFiniteSet(AttSubnets) BY DEF SubnetConstants
<1>3. active \in SUBSET R /\ available \in SUBSET AttSubnets BY DEF Sub!GetActive
<1>4. \A S \in SUBSET AttSubnets : IsFiniteSet(S) /\ Cardinality(S) \in Nat
  BY <1>2, FS_Subset, FS_CardinalityType
<1>5. ASSUME NEW k \in Nets, k.known = n.known PROVE Sub!TargetRandomSubnetCount(k) = target
  BY <1>5, TargetFacts
<1> HIDE DEF R, target, active, available
<1>6. diff \in Int BY <1>1
<1>7. CASE diff > 0
  <2>1. PICK new \in SUBSET available, len \in Sub!RandomSubscriptionSlotLens :
          /\ Cardinality(new) = Sub!Min({diff, Cardinality(available)})
          /\ m = Sub!UpdateMetadata(Sub!WithRandom(n, new, len, at))
    <3>1. m \in UNION {{Sub!UpdateMetadata(Sub!WithRandom(n, new, len, at)) : len \in Sub!RandomSubscriptionSlotLens} :
                new \in {x \in SUBSET available : Cardinality(x) = Sub!Min({diff, Cardinality(available)})}}
      BY <1>7, SubnetOperators DEF Sub!RebalanceRandomSubnets, R, target, active, available
    <3> QED BY <3>1
  <2>2. new \in SUBSET AttSubnets BY <1>3
  <2>3. len \in Nat
    <3>1. \A a, b \in Nat : a * b \in Nat OBVIOUS
    <3>2. SlotsPerEpoch \in Nat /\ EPOCHS_PER_RANDOM_SUBNET_SUBSCRIPTION \in Nat BY DEF SubnetConstants
    <3> QED BY <3>1, <3>2 DEF Sub!RandomSubscriptionSlotLens
  <2> DEFINE k == Sub!WithRandom(n, new, len, at)
  <2>4. /\ k \in Nets /\ k.known = n.known /\ DOMAIN k.random = R \union new
        /\ CleanUpTo(k, Sub!EpochOf(at), {}) /\ (NoneExpired(n, at) => NoneExpired(k, at))
    BY <2>2, <2>3, WithRandomFacts DEF R
  <2> HIDE DEF k
  <2>5. /\ m \in Nets /\ m.known = k.known /\ m.random = k.random /\ Advertised(m)
        /\ CleanUpTo(m, Sub!EpochOf(at), {}) /\ (NoneExpired(k, at) => NoneExpired(m, at))
    BY <2>1, <2>4, MetadataFacts DEF k
  <2>6. Cardinality(new) <= diff
    BY <1>3, <1>4, <1>6, <2>1, <2>2, SubnetOperators
  <2>7. Cardinality(R \union new) <= Cardinality(R) + Cardinality(new)
    <3>1. Cardinality(R \union new) = Cardinality(R) + Cardinality(new) - Cardinality(R \intersect new)
      BY <1>1, <1>4, <2>2, FS_Union
    <3>2. Cardinality(R \intersect new) \in Nat BY <1>4, <2>2
    <3> QED BY <1>1, <1>4, <2>2, <3>1, <3>2
  <2>8. Sub!TargetRandomSubnetCount(m) = target BY <1>5, <2>4, <2>5
  <2>9. Cardinality(R \union new) <= target
    BY <1>1, <1>4, <2>2, <2>6, <2>7
  <2>10. Few(m) BY <2>4, <2>5, <2>8, <2>9 DEF Few
  <2> QED BY <2>4, <2>5, <2>10
<1>8. CASE diff < 0
  <2>1. PICK gone \in SUBSET active :
          /\ Cardinality(gone) = Sub!Min({-diff, Cardinality(active)})
          /\ m = Sub!UpdateMetadata(Sub!UnsubscribeSubnets([n EXCEPT !.random = Sub!Without(@, gone)], gone, at))
    BY <1>6, <1>8, SubnetOperators DEF Sub!RebalanceRandomSubnets, R, target, active, available
  <2>2. gone \in SUBSET AttSubnets BY <1>1, <1>3
  <2> DEFINE k == Sub!UnsubscribeSubnets([n EXCEPT !.random = Sub!Without(@, gone)], gone, at)
  <2>4. /\ k \in Nets /\ k.known = n.known /\ DOMAIN k.random = R \ gone
        /\ CleanUpTo(k, Sub!EpochOf(at), {})
        /\ \A s \in DOMAIN k.random : k.random[s] = n.random[s]
    BY <2>2, WithoutRandomFacts DEF R
  <2> HIDE DEF k
  <2>5. /\ m \in Nets /\ m.known = k.known /\ m.random = k.random /\ Advertised(m)
        /\ CleanUpTo(m, Sub!EpochOf(at), {}) /\ (NoneExpired(k, at) => NoneExpired(m, at))
    BY <2>1, <2>4, MetadataFacts DEF k
  <2>6. NoneExpired(n, at) BY <1>1, <1>8 DEF Few, R, target
  <2>7. active = R BY <2>6 DEF active, R, Sub!GetActive, NoneExpired
  <2>8. Cardinality(gone) = -diff
    <3>1. -diff <= Cardinality(R) BY <1>1
    <3> QED BY <1>1, <1>6, <2>1, <2>7, <3>1, SubnetOperators
  <2>9. Cardinality(R \ gone) = target
    <3>1. Cardinality(R \ gone) = Cardinality(R) - Cardinality(R \intersect gone) BY <1>1, FS_Difference
    <3>2. R \intersect gone = gone BY <2>7
    <3>3. Cardinality(R \intersect gone) = -diff BY <2>8, <3>2
    <3> QED BY <1>1, <3>1, <3>3
  <2>10. Few(m)
    <3>1. Sub!TargetRandomSubnetCount(m) = target /\ DOMAIN m.random = R \ gone BY <1>5, <2>4, <2>5
    <3>2. target <= target BY <1>1
    <3> QED BY <2>9, <3>1, <3>2 DEF Few
  <2>11. NoneExpired(k, at) BY <2>4, <2>6 DEF NoneExpired, R
  <2> QED BY <2>4, <2>5, <2>10, <2>11
<1>9. CASE diff = 0
  <2>1. m = n
    BY <1>9, SubnetOperators DEF Sub!RebalanceRandomSubnets, R, target
  <2>2. Cardinality(R) = target BY <1>1, <1>9
  <2>3. Few(n) /\ Advertised(n) BY <1>1, <2>2 DEF Few, R, target
  <2> QED BY <2>1, <2>3
<1> QED BY <1>6, <1>7, <1>8, <1>9

\* Adding to a map never takes from it (SubnetMap.request).
LEMMA RequestFacts ==
    ASSUME NEW S, NEW m \in MapsOf(S), NEW x \in S, NEW to \in Nat
    PROVE  /\ Sub!Request(m, x, to) \in MapsOf(S)
           /\ DOMAIN Sub!Request(m, x, to) = DOMAIN m \union {x}
<1>1. DOMAIN m \in SUBSET S /\ \A y \in DOMAIN m : m[y] \in Nat BY MapFacts
<1>2. ASSUME NEW y \in DOMAIN m PROVE Sub!Max({m[y], to}) \in Nat
  <2>1. m[y] \in Nat BY <1>1
  <2>2. Sub!Max({m[y], to}) = IF m[y] <= to THEN to ELSE m[y] BY <2>1, SubnetOperators
  <2> QED BY <2>1, <2>2
<1>3. Sub!Request(m, x, to) \in [DOMAIN m \union {x} -> Nat] BY <1>1, <1>2 DEF Sub!Request
<1>4. DOMAIN m \union {x} \in SUBSET S BY <1>1
<1> QED BY <1>3, <1>4 DEF MapsOf

\* addCommitteeSubscriptions.
LEMMA CommitteeKeeps ==
    ASSUME SubnetConstants, SubnetInv, NEW v \in Validators, NEW s \in AttSubnets,
           NEW at \in r1 .. (r1 + DutyLookahead), NEW agg \in BOOLEAN,
           Sub!AddCommitteeSubscription(v, s, at, agg)
    PROVE  SubnetInv'
<1> DEFINE epoch == Sub!EpochOf(r1)
           n0 == [net EXCEPT !.known = Sub!Request(net.known, v, r1)]
           k == Sub!SubscribeToSubnets(n0, {s}, r1)
           n1 == IF agg THEN [k EXCEPT !.committee = Sub!Request(k.committee, s, at)] ELSE n0
<1>1. /\ r1' = r1 /\ r1 \in Nat /\ net \in Nets /\ at \in Nat
      /\ CleanUpTo(net, epoch, {}) /\ Few(net) /\ Advertised(net)
  BY DEF SubnetInv, SubnetConstants, Sub!AddCommitteeSubscription
<1>2. net' \in IF v \in DOMAIN net.known THEN {n1} ELSE Sub!RebalanceRandomSubnets(n1, r1)
  BY Zenon DEF Sub!AddCommitteeSubscription
<1>3. /\ n0 \in Nets /\ DOMAIN net.known \subseteq DOMAIN n0.known
      /\ n0.random = net.random /\ n0.committee = net.committee /\ n0.topics = net.topics
      /\ n0.attnets = net.attnets /\ n0.sync = net.sync
  <2>1. net.known \in MapsOf(Validators) BY <1>1, NetFacts
  <2>2. /\ Sub!Request(net.known, v, r1) \in MapsOf(Validators)
        /\ DOMAIN Sub!Request(net.known, v, r1) = DOMAIN net.known \union {v}
    <3>1. \A m \in MapsOf(Validators), to \in Nat :
            /\ Sub!Request(m, v, to) \in MapsOf(Validators)
            /\ DOMAIN Sub!Request(m, v, to) = DOMAIN m \union {v}
      BY RequestFacts, ZenonT(40)
    <3> QED BY <1>1, <2>1, <3>1
  <2>3. n0 \in Nets BY <1>1, <2>2, NetFacts
  <2> QED BY <1>1, <2>2, <2>3 DEF Nets
<1> HIDE DEF n0
<1>4. CleanUpTo(n0, epoch, {})
  <2>1. AttHeld(n0, epoch, {}) BY <1>1, <1>3 DEF CleanUpTo, AttHeld, Held
  <2> QED BY <1>1, <1>3, <2>1, SameSyncnets DEF CleanUpTo
<1>5. /\ n1 \in Nets /\ n1.known = n0.known /\ n1.random = n0.random /\ n1.attnets = n0.attnets
      /\ CleanUpTo(n1, epoch, {})
  <2>1. CASE ~agg BY <1>3, <1>4, <2>1
  <2>2. CASE agg
    <3>1. k \in Nets /\ SameButTopics(n0, k) /\ CleanUpTo(k, epoch, {} \union {s})
      BY <1>1, <1>3, <1>4, SubscribeFacts
    <3> HIDE DEF k
    <3>2. k.committee \in MapsOf(AttSubnets) BY <3>1, NetFacts
    <3>3. /\ Sub!Request(k.committee, s, at) \in MapsOf(AttSubnets)
          /\ DOMAIN Sub!Request(k.committee, s, at) = DOMAIN k.committee \union {s}
      <4>1. \A m \in MapsOf(AttSubnets), to \in Nat :
              /\ Sub!Request(m, s, to) \in MapsOf(AttSubnets)
              /\ DOMAIN Sub!Request(m, s, to) = DOMAIN m \union {s}
        BY RequestFacts, ZenonT(40)
      <4> QED BY <1>1, <3>2, <4>1
    <3> DEFINE c == Sub!Request(k.committee, s, at)
    <3> HIDE DEF c
    <3>4. n1 = [k EXCEPT !.committee = c] BY <2>2 DEF c
    <3>5. n1 \in Nets
      <4>1. c \in MapsOf(AttSubnets) BY <3>3 DEF c
      <4> HIDE DEF n1
      <4> QED BY <3>1, <3>4, <4>1, NetFacts
    <3>6. /\ n1.committee = c /\ n1.random = k.random /\ n1.known = k.known
          /\ n1.topics = k.topics /\ n1.attnets = k.attnets /\ n1.sync = k.sync
      BY <3>1, <3>4 DEF Nets
    <3> HIDE DEF n1
    <3>7. Held(n1) = Held(k) \union {s} BY <3>3, <3>6 DEF Held, c
    <3>8. CleanUpTo(n1, epoch, {})
      <4>1. AttHeld(n1, epoch, {}) BY <3>1, <3>6, <3>7 DEF CleanUpTo, AttHeld
      <4> QED BY <3>1, <3>6, <4>1, SameSyncnets DEF CleanUpTo
    <3> QED BY <3>1, <3>5, <3>6, <3>8 DEF SameButTopics
  <2> QED BY <2>1, <2>2
<1> HIDE DEF n1
<1>6. Few(n1) /\ Advertised(n1)
  <2>1. /\ Sub!TargetRandomSubnetCount(net) \in Nat /\ Sub!TargetRandomSubnetCount(n1) \in Nat
        /\ Sub!TargetRandomSubnetCount(net) <= Sub!TargetRandomSubnetCount(n1)
        /\ Cardinality(DOMAIN net.random) \in Nat
    BY <1>1, <1>3, <1>5, TargetFacts
  <2> QED BY <1>1, <1>3, <1>5, <2>1 DEF Few, Advertised
<1>7. net' \in Nets /\ CleanUpTo(net', epoch, {}) /\ Few(net') /\ Advertised(net')
  <2>1. CASE v \in DOMAIN net.known BY <1>2, <1>5, <1>6, <2>1
  <2>2. CASE v \notin DOMAIN net.known
    <3>1. net' \in Sub!RebalanceRandomSubnets(n1, r1) BY <1>2, <2>2
    <3> HIDE DEF net
    <3> QED BY <1>1, <1>5, <1>6, <3>1, RebalanceFacts
  <2> QED BY <2>1, <2>2
<1> QED BY <1>1, <1>7 DEF SubnetInv

\* What leaves the attestation subnets alone keeps what is said of them.
LEMMA SameAttnets ==
    ASSUME NEW n \in Nets, NEW m, m \in Nets, m.committee = n.committee, m.random = n.random, m.known = n.known,
           m.attnets = n.attnets,
           \A s \in AttSubnets, f \in Sub!Forks : <<"att", s, f>> \in m.topics => <<"att", s, f>> \in n.topics
    PROVE  /\ \A epoch, X : AttHeld(n, epoch, X) => AttHeld(m, epoch, X)
           /\ Few(n) => Few(m)
           /\ Advertised(n) => Advertised(m)
           /\ \A at : NoneExpired(n, at) => NoneExpired(m, at)
BY DEF AttHeld, Held, Few, Advertised, NoneExpired, Sub!TargetRandomSubnetCount

\* The sync committee subnets and the core topics.
LEMMA OtherTopicsKeep ==
    ASSUME SubnetConstants, SubnetInv,
           \/ \E s \in SyncSubnets, to \in r1 .. (r1 + DutyLookahead) : Sub!AddSyncSubscription(s, to)
           \/ \E headSlot \in Nat : Sub!SubscribeGossipCoreTopics(headSlot)
           \/ Sub!UnsubscribeGossipCoreTopics
    PROVE  SubnetInv'
<1>1. r1 \in Nat /\ net \in Nets /\ CleanUpTo(net, Sub!EpochOf(r1), {}) /\ Few(net) /\ Advertised(net)
  BY DEF SubnetInv
<1>2. ASSUME NEW s \in SyncSubnets, NEW to \in r1 .. (r1 + DutyLookahead), Sub!AddSyncSubscription(s, to)
      PROVE  SubnetInv'
  <2> DEFINE t == net.topics \union Sub!Topics("sync", {s} \ DOMAIN net.sync, Sub!GetActiveForks(Sub!EpochOf(r1)))
             m == Sub!Request(net.sync, s, to)
             y == DOMAIN net.sync \union {s}
  <2>1. r1' = r1 /\ net' = [net EXCEPT !.topics = t, !.sync = m, !.syncnets = y]
    BY <1>2 DEF Sub!AddSyncSubscription
  <2>2. net.sync \in MapsOf(SyncSubnets) /\ to \in Nat BY <1>1, NetFacts DEF SubnetConstants
  <2>3. m \in MapsOf(SyncSubnets) /\ DOMAIN m = DOMAIN net.sync \union {s} /\ y \in SUBSET SyncSubnets
    <3>1. \A n \in MapsOf(SyncSubnets) : DOMAIN n \in SUBSET SyncSubnets BY MapFacts
    <3>2. \A n \in MapsOf(SyncSubnets), at \in Nat :
            /\ Sub!Request(n, s, at) \in MapsOf(SyncSubnets)
            /\ DOMAIN Sub!Request(n, s, at) = DOMAIN n \union {s}
      BY RequestFacts
    <3>3. m \in MapsOf(SyncSubnets) /\ DOMAIN m = DOMAIN net.sync \union {s} BY <2>2, <3>2
    <3>4. y \in SUBSET SyncSubnets BY <2>2, <3>1
    <3> QED BY <3>3, <3>4
  <2>4. Sub!GetActiveForks(Sub!EpochOf(r1)) \in SUBSET Sub!Forks BY <1>1, EpochFacts, ForkFacts
  <2>5. t \in SUBSET ({"att", "sync"} \X (AttSubnets \union SyncSubnets) \X Sub!Forks)
    BY <1>1, <2>4, NetFacts DEF Sub!Topics
  <2>6. \A x \in AttSubnets, f \in Sub!Forks : <<"att", x, f>> \in t => <<"att", x, f>> \in net.topics
    BY DEF Sub!Topics
  <2> HIDE DEF t, m, y
  <2>7. net' \in Nets BY <1>1, <2>1, <2>3, <2>5 DEF Nets
  <2>8. /\ net'.committee = net.committee /\ net'.random = net.random /\ net'.known = net.known
        /\ net'.attnets = net.attnets /\ net'.topics = t /\ DOMAIN net'.sync = DOMAIN net.sync \union {s}
    BY <1>1, <2>1, <2>3 DEF Nets
  <2>9. AttHeld(net', Sub!EpochOf(r1), {}) /\ Few(net') /\ Advertised(net')
    <3> HIDE DEF net
    <3> QED BY <1>1, <2>6, <2>7, <2>8, SameAttnets DEF CleanUpTo
  <2>10. SyncHeld(net', Sub!EpochOf(r1))
    <3> SUFFICES ASSUME NEW x \in SyncSubnets, NEW f \in Sub!Forks, <<"sync", x, f>> \in t
                 PROVE  (x \in DOMAIN net.sync \union {s} \/ LeftOver(f, Sub!EpochOf(r1))) /\ NotAhead(f, Sub!EpochOf(r1))
      BY <2>8 DEF SyncHeld
    <3>1. CASE <<"sync", x, f>> \in net.topics BY <1>1, <3>1 DEF CleanUpTo, SyncHeld
    <3>2. CASE x = s /\ f \in Sub!GetActiveForks(Sub!EpochOf(r1))
      BY <1>1, <3>2, EpochFacts, ForkFacts DEF NotAhead
    <3> QED BY <3>1, <3>2 DEF t, Sub!Topics
  <2> QED BY <1>1, <2>1, <2>7, <2>9, <2>10 DEF SubnetInv, CleanUpTo
<1>3. ASSUME NEW core \in SUBSET Sub!Forks, net' = [net EXCEPT !.core = core], r1' = r1
      PROVE  SubnetInv'
  <2>1. net' \in Nets BY <1>1, <1>3, NetFacts
  <2>2. /\ net'.committee = net.committee /\ net'.random = net.random /\ net'.known = net.known
        /\ net'.attnets = net.attnets /\ net'.topics = net.topics /\ net'.sync = net.sync
    BY <1>1, <1>3 DEF Nets
  <2>3. CleanUpTo(net', Sub!EpochOf(r1), {}) /\ Few(net') /\ Advertised(net')
    <3> HIDE DEF net
    <3> QED BY <1>1, <2>1, <2>2, SameAttnets, SameSyncnets DEF CleanUpTo
  <2> QED BY <1>1, <1>3, <2>1, <2>3 DEF SubnetInv
<1>4. ASSUME NEW headSlot \in Nat, Sub!SubscribeGossipCoreTopics(headSlot) PROVE SubnetInv'
  <2> DEFINE core == net.core \union Sub!GetActiveForks(Sub!EpochOf(headSlot))
  <2>1. core \in SUBSET Sub!Forks BY <1>1, EpochFacts, ForkFacts DEF Nets
  <2>2. net' = [net EXCEPT !.core = core] /\ r1' = r1 BY <1>4 DEF Sub!SubscribeGossipCoreTopics
  <2> HIDE DEF core
  <2> QED BY <1>3, <2>1, <2>2
<1>5. CASE Sub!UnsubscribeGossipCoreTopics BY <1>3, <1>5 DEF Sub!UnsubscribeGossipCoreTopics
<1> QED BY <1>2, <1>4, <1>5

\* The listeners of clockEpoch: network.ts, attnetsService.ts and syncnetsService.ts.
LEMMA EpochKeeps ==
    ASSUME SubnetConstants, NEW n \in Nets, NEW at \in Nat,
           CleanUpTo(n, Sub!EpochOf(at), {}), Few(n), Advertised(n),
           NEW b \in Sub!AttnetsOnEpoch(Sub!NetworkOnEpoch(n, Sub!EpochOf(at)), at)
    PROVE  LET m == Sub!SyncnetsOnEpoch(b, at)
           IN  m \in Nets /\ CleanUpTo(m, Sub!EpochOf(at), {}) /\ Few(m) /\ Advertised(m)
<1> DEFINE epoch == Sub!EpochOf(at)
           n1 == Sub!NetworkOnEpoch(n, epoch)
           expired == Sub!GetExpired(n1.random, at)
           n2 == Sub!UnsubscribeSubnets([n1 EXCEPT !.random = Sub!Without(@, expired)], expired, at)
           Sound(m) == m \in Nets /\ CleanUpTo(m, epoch, {}) /\ Few(m) /\ Advertised(m)
<1>1. Sound(n1)
  <2>1. CASE epoch = ALTAIR_FORK_EPOCH - FORK_EPOCH_LOOKAHEAD
    <3> DEFINE k == [n EXCEPT !.core = IF @ # {} THEN @ \union {"altair"} ELSE @]
               t == k.topics \union Sub!Topics("att", DOMAIN k.random, {"altair"})
    <3>1. n1 = [k EXCEPT !.topics = t]
      BY <2>1, Zenon DEF Sub!NetworkOnEpoch, Sub!SubscribeSubnetsToNextFork
    <3>2. (IF n.core # {} THEN n.core \union {"altair"} ELSE n.core) \in SUBSET Sub!Forks
      BY DEF Nets, Sub!Forks
    <3>3. k \in Nets BY <3>2, NetFacts
    <3>4. /\ k.topics = n.topics /\ k.random = n.random /\ k.committee = n.committee
          /\ k.known = n.known /\ k.attnets = n.attnets /\ k.sync = n.sync
      BY DEF Nets
    <3> HIDE DEF k
    <3>5. DOMAIN k.random \in SUBSET AttSubnets BY <3>3, NetFacts, MapFacts
    <3>6. t \in SUBSET ({"att", "sync"} \X (AttSubnets \union SyncSubnets) \X Sub!Forks)
      BY <3>3, <3>5, NetFacts DEF Sub!Topics, Sub!Forks
    <3>7. \A s, f : <<"att", s, f>> \in t =>
             <<"att", s, f>> \in n.topics \/ (s \in DOMAIN n.random /\ f = "altair")
      BY <3>4 DEF Sub!Topics
    <3>13. \A s, f : <<"sync", s, f>> \in t => <<"sync", s, f>> \in n.topics BY <3>4 DEF Sub!Topics
    <3> HIDE DEF t
    <3>8. n1 \in Nets BY <3>1, <3>3, <3>6, NetFacts
    <3>9. /\ n1.topics = t /\ n1.random = n.random /\ n1.committee = n.committee
          /\ n1.known = n.known /\ n1.attnets = n.attnets /\ n1.sync = n.sync
      BY <3>1, <3>3, <3>4 DEF Nets
    <3> HIDE DEF n1
    <3>10. Few(n1) /\ Advertised(n1) BY <3>9 DEF Few, Advertised, Sub!TargetRandomSubnetCount
    <3>11. epoch >= ALTAIR_FORK_EPOCH - FORK_EPOCH_LOOKAHEAD BY <2>1 DEF SubnetConstants
    <3>12. CleanUpTo(n1, epoch, {})
      <4>1. AttHeld(n1, epoch, {}) BY <3>7, <3>9, <3>11 DEF CleanUpTo, AttHeld, NotAhead, Held
      <4> QED BY <3>13, <3>9, <4>1, SameSyncnets DEF CleanUpTo
    <3> QED BY <3>8, <3>10, <3>12
  <2>2. CASE epoch # ALTAIR_FORK_EPOCH - FORK_EPOCH_LOOKAHEAD /\ epoch = ALTAIR_FORK_EPOCH + FORK_EPOCH_LOOKAHEAD
    <3> DEFINE k == [n EXCEPT !.core = @ \ {"phase0"}]
               t == k.topics \ Sub!Topics("att", AttSubnets, {"phase0"})
    <3>1. n1 = [k EXCEPT !.topics = t]
      BY <2>2, Zenon DEF Sub!NetworkOnEpoch, Sub!UnsubscribeSubnetsFromPrevFork
    <3>2. (n.core \ {"phase0"}) \in SUBSET Sub!Forks BY DEF Nets
    <3>3. k \in Nets BY <3>2, NetFacts
    <3>4. /\ k.topics = n.topics /\ k.random = n.random /\ k.committee = n.committee
          /\ k.known = n.known /\ k.attnets = n.attnets /\ k.sync = n.sync
      BY DEF Nets
    <3> HIDE DEF k
    <3>5. t \in SUBSET ({"att", "sync"} \X (AttSubnets \union SyncSubnets) \X Sub!Forks)
      BY <3>3, NetFacts
    <3>6. t \subseteq n.topics BY <3>4
    <3> HIDE DEF t
    <3>7. n1 \in Nets BY <3>1, <3>3, <3>5, NetFacts
    <3>8. /\ n1.topics = t /\ n1.random = n.random /\ n1.committee = n.committee
          /\ n1.known = n.known /\ n1.attnets = n.attnets /\ n1.sync = n.sync
      BY <3>1, <3>3, <3>4 DEF Nets
    <3> HIDE DEF n1
    <3> QED BY <3>6, <3>7, <3>8, SameAttnets, SameSyncnets DEF CleanUpTo
  <2>3. CASE epoch # ALTAIR_FORK_EPOCH - FORK_EPOCH_LOOKAHEAD /\ epoch # ALTAIR_FORK_EPOCH + FORK_EPOCH_LOOKAHEAD
    <3>1. n1 = n BY <2>3 DEF Sub!NetworkOnEpoch
    <3> QED BY <3>1
  <2> QED BY <2>1, <2>2, <2>3
<1>2. PICK c \in Sub!RebalanceRandomSubnets(n2, at) : b \in Sub!PruneExpiredKnownValidators(c, at)
  BY DEF Sub!AttnetsOnEpoch, Sub!UnsubscribeExpiredRandomSubnets
<1> HIDE DEF n1
<1>3. expired \in SUBSET AttSubnets /\ expired \subseteq DOMAIN n1.random
  <2>1. DOMAIN n1.random \in SUBSET AttSubnets BY <1>1, NetFacts, MapFacts
  <2> QED BY <2>1 DEF Sub!GetExpired
<1>4. /\ n2 \in Nets /\ n2.known = n1.known /\ n2.attnets = n1.attnets
      /\ DOMAIN n2.random = DOMAIN n1.random \ expired
      /\ \A s \in DOMAIN n2.random : n2.random[s] = n1.random[s]
      /\ CleanUpTo(n2, epoch, {})
  <2> HIDE DEF expired
  <2> QED BY <1>1, <1>3, WithoutRandomFacts
<1>5. NoneExpired(n2, at)
  <2> SUFFICES ASSUME NEW s \in DOMAIN n2.random PROVE n2.random[s] >= at BY DEF NoneExpired
  <2>1. n1.random[s] \in Nat BY <1>1, <1>4, NetFacts, MapFacts
  <2>2. ~(n1.random[s] < at) BY <1>4 DEF Sub!GetExpired
  <2>3. n2.random[s] = n1.random[s] BY <1>4
  <2> QED BY <2>1, <2>2, <2>3
<1> HIDE DEF n2
<1>6. Advertised(n2) \/ Cardinality(DOMAIN n2.random) # Sub!TargetRandomSubnetCount(n2)
  <2>1. CASE expired = {} BY <1>1, <1>4, <2>1 DEF Advertised
  <2>2. CASE expired # {}
    <3> HIDE DEF expired
    <3>1. /\ Cardinality(DOMAIN n1.random) \in Nat /\ IsFiniteSet(DOMAIN n1.random)
          /\ Cardinality(DOMAIN n2.random) \in Nat
          /\ Sub!TargetRandomSubnetCount(n2) = Sub!TargetRandomSubnetCount(n1)
          /\ Sub!TargetRandomSubnetCount(n1) \in Nat
      BY <1>1, <1>4, TargetFacts
    <3>2. /\ Cardinality(DOMAIN n2.random) <= Cardinality(DOMAIN n1.random)
          /\ Cardinality(DOMAIN n2.random) # Cardinality(DOMAIN n1.random)
      BY <1>3, <1>4, <2>2, <3>1, FS_Subset
    <3>3. Cardinality(DOMAIN n1.random) <= Sub!TargetRandomSubnetCount(n1) BY <1>1 DEF Few
    <3> QED BY <3>1, <3>2, <3>3
  <2> QED BY <2>1, <2>2
<1>7. Sound(c) /\ NoneExpired(c, at) BY <1>2, <1>4, <1>5, <1>6, RebalanceFacts
<1>8. Sound(b)
  <2> DEFINE gone == {v \in DOMAIN c.known : at > c.known[v] + LAST_SEEN_VALIDATOR_TIMEOUT}
             k == [c EXCEPT !.known = Sub!Without(@, gone)]
  <2>1. CASE gone = {}
    <3>1. b = c BY <1>2, <2>1 DEF Sub!PruneExpiredKnownValidators
    <3> QED BY <1>7, <3>1
  <2>2. CASE gone # {}
    <3>1. b \in Sub!RebalanceRandomSubnets(k, at) BY <1>2, <2>2 DEF Sub!PruneExpiredKnownValidators
    <3> HIDE DEF gone
    <3>2. c.known \in MapsOf(Validators) BY <1>7, NetFacts
    <3>3. Sub!Without(c.known, gone) \in MapsOf(Validators) BY <3>2, MapFacts
    <3>4. k \in Nets BY <1>7, <3>3, NetFacts
    <3>5. /\ k.random = c.random /\ k.committee = c.committee /\ k.topics = c.topics /\ k.attnets = c.attnets
          /\ k.sync = c.sync
      BY <1>7 DEF Nets
    <3> HIDE DEF k
    <3>6. CleanUpTo(k, epoch, {}) /\ Advertised(k) /\ NoneExpired(k, at)
      <4>1. AttHeld(k, epoch, {}) BY <1>7, <3>5 DEF CleanUpTo, AttHeld, Held
      <4>2. SyncHeld(k, epoch) BY <1>7, <3>5, SameSyncnets DEF CleanUpTo
      <4> QED BY <1>7, <3>5, <4>1, <4>2 DEF CleanUpTo, Advertised, NoneExpired
    <3> QED BY <3>1, <3>4, <3>6, RebalanceFacts
  <2> QED BY <2>1, <2>2
<1>9. Sound(Sub!SyncnetsOnEpoch(b, at))
  <2> DEFINE gone == Sub!GetExpired(b.sync, at)
             t == b.topics \ Sub!Topics("sync", gone, Sub!GetActiveForks(Sub!EpochOf(at)))
             m == Sub!SyncnetsOnEpoch(b, at)
             left == Sub!Without(b.sync, gone)
  <2>1. m = [b EXCEPT !.sync = left, !.topics = t] BY DEF Sub!SyncnetsOnEpoch
  <2>2. b.sync \in MapsOf(SyncSubnets) BY <1>8, NetFacts
  <2>3. left \in MapsOf(SyncSubnets) /\ DOMAIN left = DOMAIN b.sync \ gone BY <2>2, MapFacts
  <2>4. t \in SUBSET ({"att", "sync"} \X (AttSubnets \union SyncSubnets) \X Sub!Forks) /\ t \subseteq b.topics
    BY <1>8, NetFacts
  <2> HIDE DEF t, left, m
  <2>5. m \in Nets BY <1>8, <2>1, <2>3, <2>4 DEF Nets
  <2>6. /\ m.committee = b.committee /\ m.random = b.random /\ m.known = b.known
        /\ m.attnets = b.attnets /\ m.topics = t /\ m.sync = left
    BY <1>8, <2>1 DEF Nets
  <2>7. AttHeld(m, epoch, {}) /\ Few(m) /\ Advertised(m) BY <1>8, <2>4, <2>5, <2>6, SameAttnets DEF CleanUpTo
  <2>8. SyncHeld(m, epoch)
    <3> SUFFICES ASSUME NEW s \in SyncSubnets, NEW f \in Sub!Forks, <<"sync", s, f>> \in t
                 PROVE  (s \in DOMAIN left \/ LeftOver(f, epoch)) /\ NotAhead(f, epoch)
      BY <2>6 DEF SyncHeld
    <3>1. (s \in DOMAIN b.sync \/ LeftOver(f, epoch)) /\ NotAhead(f, epoch)
      BY <1>8, <2>4 DEF CleanUpTo, SyncHeld
    <3>2. s \in gone => f \notin Sub!GetActiveForks(epoch) BY DEF t, Sub!Topics
    <3>3. epoch \in Nat BY EpochFacts
    <3>4. /\ "altair" \notin Sub!GetActiveForks(epoch) => ~(epoch >= ALTAIR_FORK_EPOCH - FORK_EPOCH_LOOKAHEAD)
          /\ "phase0" \notin Sub!GetActiveForks(epoch) => epoch > ALTAIR_FORK_EPOCH + FORK_EPOCH_LOOKAHEAD
      <4>1. ~(epoch <= ALTAIR_FORK_EPOCH + FORK_EPOCH_LOOKAHEAD) => epoch > ALTAIR_FORK_EPOCH + FORK_EPOCH_LOOKAHEAD
        BY <3>3 DEF SubnetConstants
      <4> QED BY <3>3, <4>1, ForkFacts
    <3> HIDE DEF epoch, gone
    <3>5. CASE s \in gone BY <3>1, <3>2, <3>4, <3>5 DEF LeftOver, NotAhead, Sub!Forks
    <3>6. CASE s \notin gone BY <2>3, <3>1, <3>6
    <3> QED BY <3>5, <3>6
  <2> QED BY <2>5, <2>7, <2>8 DEF m, CleanUpTo
<1> QED BY <1>9

\* A new slot: what was held stays clean in a later epoch.
LEMMA SubnetTickKeeps ==
    ASSUME SubnetConstants, SubnetInv, Sub!Tick
    PROVE  SubnetInv'
<1> DEFINE at == r1 + 1
           epoch == Sub!EpochOf(at)
           expired == Sub!GetExpired(net.committee, at)
           k == [net EXCEPT !.committee = Sub!Without(@, expired)]
           n == Sub!UnsubscribeSubnets(k, expired, at)
           Sound(m) == m \in Nets /\ CleanUpTo(m, epoch, {}) /\ Few(m) /\ Advertised(m)
<1>1. r1 \in Nat /\ net \in Nets /\ CleanUpTo(net, Sub!EpochOf(r1), {}) /\ Few(net) /\ Advertised(net)
  BY DEF SubnetInv
<1>2. /\ r1' = at /\ at \in Nat
      /\ net' \in IF at % SlotsPerEpoch # 0 THEN {n}
                  ELSE {Sub!SyncnetsOnEpoch(m, at) : m \in Sub!AttnetsOnEpoch(Sub!NetworkOnEpoch(n, epoch), at)}
  BY <1>1 DEF Sub!Tick, Sub!UnsubscribeExpiredCommitteeSubnets
<1>3. CleanUpTo(net, epoch, {})
  <2>1. Sub!EpochOf(r1) \in Nat /\ epoch \in Nat /\ Sub!EpochOf(r1) <= epoch BY <1>1, EpochFacts
  <2>2. /\ Sub!EpochOf(r1) > ALTAIR_FORK_EPOCH + FORK_EPOCH_LOOKAHEAD
             => epoch > ALTAIR_FORK_EPOCH + FORK_EPOCH_LOOKAHEAD
        /\ Sub!EpochOf(r1) >= ALTAIR_FORK_EPOCH - FORK_EPOCH_LOOKAHEAD
             => epoch >= ALTAIR_FORK_EPOCH - FORK_EPOCH_LOOKAHEAD
    <3> HIDE DEF epoch
    <3> QED BY <2>1 DEF SubnetConstants
  <2> HIDE DEF epoch
  <2>3. AttHeld(net, epoch, {}) BY <1>1, <2>2 DEF CleanUpTo, AttHeld, LeftOver, NotAhead
  <2>4. SyncHeld(net, epoch) BY <1>1, <2>2 DEF CleanUpTo, SyncHeld, LeftOver, NotAhead
  <2> QED BY <2>3, <2>4 DEF CleanUpTo
<1>4. Sound(n)
  <2>1. net.committee \in MapsOf(AttSubnets) BY <1>1, NetFacts
  <2>2. /\ Sub!Without(net.committee, expired) \in MapsOf(AttSubnets)
        /\ DOMAIN Sub!Without(net.committee, expired) = DOMAIN net.committee \ expired
        /\ DOMAIN net.committee \in SUBSET AttSubnets
    <3>1. \A m \in MapsOf(AttSubnets) : \A gone :
            /\ Sub!Without(m, gone) \in MapsOf(AttSubnets)
            /\ DOMAIN Sub!Without(m, gone) = DOMAIN m \ gone
            /\ DOMAIN m \in SUBSET AttSubnets
      BY MapFacts
    <3> HIDE DEF expired
    <3> QED BY <2>1, <3>1
  <2>3. expired \in SUBSET AttSubnets BY <2>2 DEF Sub!GetExpired
  <2> HIDE DEF expired, epoch, at
  <2>4. k \in Nets BY <1>1, <2>2, NetFacts
  <2>5. /\ k.committee = Sub!Without(net.committee, expired) /\ k.random = net.random
        /\ k.known = net.known /\ k.topics = net.topics /\ k.attnets = net.attnets /\ k.sync = net.sync
    BY <1>1 DEF Nets
  <2> HIDE DEF k
  <2>6. Held(net) \subseteq Held(k) \union expired BY <2>2, <2>5 DEF Held
  <2>7. CleanUpTo(k, epoch, expired)
    <3>1. AttHeld(k, epoch, expired) BY <1>3, <2>5, <2>6 DEF CleanUpTo, AttHeld
    <3> QED BY <1>3, <2>5, <3>1, SameSyncnets DEF CleanUpTo
  <2>8. n \in Nets /\ SameButTopics(k, n) /\ CleanUpTo(n, epoch, {})
    BY <1>2, <2>3, <2>4, <2>7, UnsubscribeFacts DEF epoch
  <2> HIDE DEF n
  <2>9. Few(n) /\ Advertised(n)
    BY <1>1, <2>5, <2>8 DEF SameButTopics, Few, Advertised, Sub!TargetRandomSubnetCount
  <2> QED BY <2>8, <2>9
<1> HIDE DEF n
<1>5. Sound(net')
  <2>1. CASE at % SlotsPerEpoch # 0 BY <1>2, <1>4, <2>1
  <2>2. CASE ~(at % SlotsPerEpoch # 0)
    <3>1. PICK b \in Sub!AttnetsOnEpoch(Sub!NetworkOnEpoch(n, epoch), at) : net' = Sub!SyncnetsOnEpoch(b, at)
      BY <1>2, <2>2
    <3> HIDE DEF at
    <3>2. Sound(Sub!SyncnetsOnEpoch(b, at)) BY <1>2, <1>4, EpochKeeps
    <3> QED BY <3>1, <3>2
  <2> QED BY <2>1, <2>2
<1> QED BY <1>2, <1>5 DEF SubnetInv

\* Every step of the services.
LEMMA SubnetsKeep ==
    ASSUME SubnetConstants, SubnetInv, [Sub!Next]_(Sub!vars)
    PROVE  SubnetInv'
<1>1. CASE Sub!Tick BY <1>1, SubnetTickKeeps
<1>2. ASSUME NEW v \in Validators, NEW s \in AttSubnets, NEW at \in r1 .. (r1 + DutyLookahead), NEW agg \in BOOLEAN,
             Sub!AddCommitteeSubscription(v, s, at, agg)
      PROVE  SubnetInv'
  BY <1>2, CommitteeKeeps
<1>3. ASSUME NEW s \in SyncSubnets, NEW to \in r1 .. (r1 + DutyLookahead), Sub!AddSyncSubscription(s, to)
      PROVE  SubnetInv'
  BY <1>3, OtherTopicsKeep
<1>4. ASSUME NEW back \in {0, Sub!Min({SlotsPerEpoch, r1})}, Sub!SubscribeGossipCoreTopics(r1 - back)
      PROVE  SubnetInv'
  <2>1. r1 \in Nat /\ SlotsPerEpoch \in Nat BY DEF SubnetInv, SubnetConstants
  <2>2. Sub!Min({SlotsPerEpoch, r1}) = IF SlotsPerEpoch <= r1 THEN SlotsPerEpoch ELSE r1
    BY <2>1, SubnetOperators
  <2>3. r1 - back \in Nat BY <2>1, <2>2
  <2> QED BY <1>4, <2>3, OtherTopicsKeep
<1>5. CASE Sub!UnsubscribeGossipCoreTopics BY <1>5, OtherTopicsKeep
<1>6. CASE UNCHANGED Sub!vars BY <1>6 DEF Sub!vars, SubnetInv
<1> QED BY <1>1, <1>2, <1>3, <1>4, <1>5, <1>6 DEF Sub!Next

\* Nothing is subscribed at the start.
LEMMA SubnetsStart == ASSUME SubnetConstants, Sub!Init PROVE SubnetInv
<1>1. r1 = 0 /\ net = [committee |-> Sub!EmptyMap, random |-> Sub!EmptyMap, known |-> Sub!EmptyMap,
                       sync |-> Sub!EmptyMap, topics |-> {}, core |-> {}, attnets |-> {}, syncnets |-> {}]
  BY DEF Sub!Init
<1>2. \A S : Sub!EmptyMap \in MapsOf(S) /\ DOMAIN Sub!EmptyMap = {}
  <2>1. Sub!EmptyMap \in [{} -> Nat] BY DEF Sub!EmptyMap
  <2> QED BY <2>1 DEF MapsOf
<1>3. net \in Nets BY <1>1, <1>2 DEF Nets
<1>4. CleanUpTo(net, Sub!EpochOf(r1), {}) BY <1>1 DEF CleanUpTo, AttHeld, SyncHeld
<1>5. Few(net) /\ Advertised(net)
  <2>1. Sub!TargetRandomSubnetCount(net) \in Nat BY <1>3, TargetFacts
  <2>2. DOMAIN net.random = {} /\ net.attnets = {} BY <1>1, <1>2
  <2> HIDE DEF net
  <2> QED BY <2>1, <2>2, FS_EmptySet DEF Few, Advertised
<1> QED BY <1>1, <1>3, <1>4, <1>5 DEF SubnetInv

\* attnetsService.ts, syncnetsService.ts and network.ts leave no topic of an attestation or sync
\* committee subnet subscribed that is of a fork not active at the time or that no duty or random
\* subscription holds, but for topics of the old fork once the transition has ended, and the ENR
\* has exactly the random subnets: for any subnets, validators, duties and clock, before, around
\* and after the fork.
THEOREM NoTopicIsLeaked == ASSUME SubnetConstants PROVE MCSpec => []NoTopicLeak
<1> DEFINE Inv == part = "subnets" => SubnetInv
<1>1. MCInit => Inv BY SubnetsStart DEF MCInit
<1>2. Inv /\ [MCNext]_allVars => Inv'
  <2> SUFFICES ASSUME Inv, [MCNext]_allVars, part' = "subnets" PROVE SubnetInv' OBVIOUS
  <2>1. part = "subnets" BY DEF MCNext, allVars
  <2>2. CASE UNCHANGED allVars
    <3>1. UNCHANGED Sub!vars BY <2>2 DEF allVars, registers, Sub!vars
    <3> QED BY <2>1, <3>1, SubnetsKeep
  <2>3. CASE MCNext
    <3>1. Sub!Next BY <2>1, <2>3 DEF MCNext
    <3> QED BY <2>1, <3>1, SubnetsKeep
  <2> QED BY <2>2, <2>3
<1>3. Inv => NoTopicLeak
  <2> SUFFICES ASSUME SubnetInv PROVE Sub!NoTopicLeak /\ Sub!EnrIsCurrent BY DEF NoTopicLeak
  <2>1. r1 \in Nat /\ CleanUpTo(net, Sub!EpochOf(r1), {}) /\ Advertised(net) BY DEF SubnetInv
  <2>2. ASSUME NEW f \in Sub!Forks, NotAhead(f, Sub!EpochOf(r1))
        PROVE  LeftOver(f, Sub!EpochOf(r1)) \/ f \in Sub!GetActiveForks(Sub!EpochOf(r1))
    <3> DEFINE epoch == Sub!EpochOf(r1)
    <3>1. epoch \in Nat BY <2>1, EpochFacts
    <3>2. /\ epoch >= ALTAIR_FORK_EPOCH - FORK_EPOCH_LOOKAHEAD => "altair" \in Sub!GetActiveForks(epoch)
          /\ epoch <= ALTAIR_FORK_EPOCH + FORK_EPOCH_LOOKAHEAD => "phase0" \in Sub!GetActiveForks(epoch)
      BY <3>1, ForkFacts
    <3> HIDE DEF epoch
    <3>3. epoch <= ALTAIR_FORK_EPOCH + FORK_EPOCH_LOOKAHEAD \/ epoch > ALTAIR_FORK_EPOCH + FORK_EPOCH_LOOKAHEAD
      BY <3>1 DEF SubnetConstants
    <3> QED BY <2>2, <3>2, <3>3 DEF LeftOver, NotAhead, Sub!Forks, epoch
  <2>3. ASSUME NEW s \in AttSubnets, NEW f \in Sub!Forks, <<"att", s, f>> \in net.topics
        PROVE  \/ f \in Sub!GetActiveForks(Sub!EpochOf(r1)) /\ s \in DOMAIN net.committee \union DOMAIN net.random
               \/ LeftOver(f, Sub!EpochOf(r1))
    BY <2>1, <2>2, <2>3 DEF CleanUpTo, AttHeld, Held
  <2>4. ASSUME NEW s \in SyncSubnets, NEW f \in Sub!Forks, <<"sync", s, f>> \in net.topics
        PROVE  \/ f \in Sub!GetActiveForks(Sub!EpochOf(r1)) /\ s \in DOMAIN net.sync
               \/ LeftOver(f, Sub!EpochOf(r1))
    BY <2>1, <2>2, <2>4 DEF CleanUpTo, SyncHeld
  <2> QED BY <2>1, <2>3, <2>4 DEF Sub!NoTopicLeak, Sub!EnrIsCurrent, Advertised, LeftOver
<1> QED BY <1>1, <1>2, <1>3, PTL DEF MCSpec

-----------------------------------------------------------------------------
(* The validator API.  A tree of blocks t, and the blocks on the way from    *)
(* the genesis block, 1, to each of them.                                    *)

\* Block 1 is the genesis block, at slot 0; a parent is older than its child, in the list and by slot.
ValidTree(t) ==
    /\ Len(t) \in Nat \ {0} /\ DOMAIN t = 1 .. Len(t)
    /\ \A c \in 1 .. Len(t) : t[c].slot \in Nat
    /\ t[1].slot = 0
    /\ \A c \in 2 .. Len(t) : t[c].parent \in 1 .. (c - 1) /\ t[t[c].parent].slot < t[c].slot

\* The recursion of the model's Chain, and its solution.
Way(t, f, c) == IF c = 1 THEN {c} ELSE {c} \union f[t[c].parent]
Ways(t, f) == f = [c \in 1 .. Len(t) |-> Way(t, f, c)]
WaysOf(t) == CHOOSE f : Ways(t, f)

\* The last block on the way to b that is not after slot s.
IsLast(t, b, s, c) ==
    c \in WaysOf(t)[b] /\ t[c].slot <= s /\ \A d \in WaysOf(t)[b] : t[d].slot <= s => t[d].slot <= t[c].slot
LastOf(t, b, s) ==
    CHOOSE c \in WaysOf(t)[b] : t[c].slot <= s /\ \A d \in WaysOf(t)[b] : t[d].slot <= s => t[d].slot <= t[c].slot

\* The recursion that gives the ways has a solution: a shortest piece of the tree that
\* had none would extend a piece that has one.
LEMMA WaysExist ==
    ASSUME NEW t, ValidTree(t)
    PROVE  Ways(t, WaysOf(t))
<1> DEFINE Some(n) == \E f : f = [c \in 1 .. n |-> Way(t, f, c)]
           Bad == {n \in Nat : n <= Len(t) /\ ~Some(n)}
<1>1. Len(t) \in Nat \ {0} BY DEF ValidTree
<1>2. Bad = {}
  <2> SUFFICES ASSUME Bad # {} PROVE FALSE OBVIOUS
  <2>1. Bad \in SUBSET Nat OBVIOUS
  <2>2. PICK n \in Bad : \A m \in Bad : n <= m
    <3> HIDE DEF Bad
    <3> QED BY <2>1, NatHasLeast
  <2>3. n \in Nat /\ n <= Len(t) /\ ~Some(n) OBVIOUS
  <2>4. n # 0
    <3> SUFFICES ASSUME n = 0 PROVE Some(n) BY <2>3
    <3> DEFINE e == [c \in 1 .. n |-> {}]
    <3>1. 1 .. n = {} OBVIOUS
    <3>2. e = [c \in 1 .. n |-> Way(t, e, c)] BY <3>1
    <3> QED BY <3>2
  <2>5. n - 1 \in Nat /\ n - 1 <= Len(t) /\ n \in 1 .. Len(t) BY <1>1, <2>3, <2>4
  <2>6. Some(n - 1)
    <3> SUFFICES ASSUME ~Some(n - 1) PROVE FALSE OBVIOUS
    <3>1. n - 1 \in Bad BY <2>5
    <3> HIDE DEF Bad
    <3> QED BY <2>2, <2>3, <3>1
  <2>7. PICK g : g = [c \in 1 .. (n - 1) |-> Way(t, g, c)] BY <2>6
  <2> DEFINE f == [c \in 1 .. n |-> IF c = n THEN Way(t, g, c) ELSE g[c]]
  <2>8. \A c \in 1 .. n : c # 1 => t[c].parent \in 1 .. (n - 1) /\ t[c].parent \in 1 .. n /\ t[c].parent # n
    <3> SUFFICES ASSUME NEW c \in 1 .. n, c # 1
                 PROVE  t[c].parent \in 1 .. (n - 1) /\ t[c].parent \in 1 .. n /\ t[c].parent # n
      OBVIOUS
    <3>1. c \in 2 .. Len(t) BY <1>1, <2>3
    <3>2. t[c].parent \in 1 .. (c - 1) BY <3>1 DEF ValidTree
    <3> QED BY <2>3, <3>2
  <2>9. \A c \in 1 .. n : Way(t, f, c) = Way(t, g, c)
    BY <2>8 DEF Way
  <2>10. \A c \in 1 .. n : f[c] = Way(t, g, c)
    <3> SUFFICES ASSUME NEW c \in 1 .. n, c # n PROVE g[c] = Way(t, g, c) OBVIOUS
    <3>1. c \in 1 .. (n - 1) BY <2>3
    <3> QED BY <2>7, <3>1
  <2>11. f = [c \in 1 .. n |-> Way(t, f, c)]
    <3> DEFINE h == [c \in 1 .. n |-> Way(t, f, c)]
    <3>1. \A c \in 1 .. n : f[c] = h[c]
      <4> HIDE DEF f
      <4> QED BY <2>9, <2>10
    <3>2. f = [c \in 1 .. n |-> f[c]] OBVIOUS
    <3> HIDE DEF f
    <3>3. [c \in 1 .. n |-> f[c]] = h BY <3>1
    <3> QED BY <3>2, <3>3
  <2> HIDE DEF f
  <2>12. Some(n) BY <2>11
  <2> QED BY <2>3, <2>12
<1>3. Some(Len(t)) BY <1>1, <1>2
<1>4. \E f : Ways(t, f) BY <1>3 DEF Ways
<1> QED BY <1>4 DEF WaysOf

\* One step of the recursion.
LEMMA WayFacts ==
    ASSUME NEW t, ValidTree(t), NEW c \in 1 .. Len(t)
    PROVE  /\ WaysOf(t)[c] = IF c = 1 THEN {1} ELSE {c} \union WaysOf(t)[t[c].parent]
           /\ c # 1 => /\ t[c].parent \in 1 .. Len(t) /\ t[c].parent < c
                       /\ t[c].parent \in Nat /\ t[t[c].parent].slot < t[c].slot
<1>1. Ways(t, WaysOf(t)) BY WaysExist
<1>2. WaysOf(t)[c] = Way(t, WaysOf(t), c) BY <1>1 DEF Ways
<1>3. ASSUME c # 1 PROVE c \in 2 .. Len(t) BY <1>3 DEF ValidTree
<1>4. ASSUME c # 1
      PROVE  /\ t[c].parent \in 1 .. Len(t) /\ t[c].parent < c
             /\ t[c].parent \in Nat /\ t[t[c].parent].slot < t[c].slot
  <2>1. t[c].parent \in 1 .. (c - 1) /\ t[t[c].parent].slot < t[c].slot /\ Len(t) \in Nat
    BY <1>3, <1>4 DEF ValidTree
  <2> QED BY <2>1
<1> QED BY <1>2, <1>4 DEF Way

\* The way to a block starts at genesis, ends at the block, and its slots rise.
LEMMA WaysRise ==
    ASSUME NEW t, ValidTree(t), NEW b \in 1 .. Len(t)
    PROVE  /\ WaysOf(t)[b] \in SUBSET (1 .. Len(t)) /\ b \in WaysOf(t)[b] /\ 1 \in WaysOf(t)[b]
           /\ \A c \in WaysOf(t)[b] : /\ c # b => t[c].slot < t[b].slot
                                      /\ c # 1 => t[c].slot > 0
           /\ \A c, d \in WaysOf(t)[b] : t[c].slot = t[d].slot => c = d
<1> DEFINE W(x) == WaysOf(t)[x]
           Good(x) == /\ W(x) \in SUBSET (1 .. Len(t)) /\ x \in W(x) /\ 1 \in W(x)
                      /\ \A c \in W(x) : /\ c # x => t[c].slot < t[x].slot
                                         /\ c # 1 => t[c].slot > 0
                      /\ \A c, d \in W(x) : t[c].slot = t[d].slot => c = d
           Bad == {x \in 1 .. Len(t) : ~Good(x)}
<1>1. Len(t) \in Nat \ {0} /\ t[1].slot = 0 /\ \A c \in 1 .. Len(t) : t[c].slot \in Nat BY DEF ValidTree
<1>2. Bad = {}
  <2> SUFFICES ASSUME Bad # {} PROVE FALSE OBVIOUS
  <2>1. Bad \in SUBSET Nat BY <1>1
  <2>2. PICK x \in Bad : \A y \in Bad : x <= y
    <3> HIDE DEF Bad
    <3> QED BY <2>1, NatHasLeast
  <2>3. x \in 1 .. Len(t) /\ ~Good(x) OBVIOUS
  <2>4. CASE x = 1
    <3>1. W(x) = {1} BY <2>3, <2>4, WayFacts
    <3> QED BY <1>1, <2>3, <2>4, <3>1
  <2>5. CASE x # 1
    <3> DEFINE p == t[x].parent
    <3>1. W(x) = {x} \union W(p) /\ p \in 1 .. Len(t) /\ p \in Nat /\ p < x /\ t[p].slot < t[x].slot
      BY <2>3, <2>5, WayFacts
    <3> HIDE DEF p
    <3>2. p \notin Bad
      <4> HIDE DEF Bad
      <4> QED BY <1>1, <2>2, <2>3, <3>1
    <3>3. Good(p) BY <3>1, <3>2
    <3> HIDE DEF W
    <3>4. \A c \in W(p) : t[c].slot < t[x].slot
      <4> SUFFICES ASSUME NEW c \in W(p) PROVE t[c].slot < t[x].slot OBVIOUS
      <4>1. c = p \/ t[c].slot < t[p].slot BY <3>3
      <4>2. t[c].slot \in Nat /\ t[p].slot \in Nat /\ t[x].slot \in Nat BY <1>1, <2>3, <3>1, <3>3
      <4> QED BY <3>1, <4>1, <4>2, SMTT(30)
    <3>5. t[x].slot > 0
      <4>1. t[p].slot \in Nat /\ t[x].slot \in Nat BY <1>1, <2>3, <3>1
      <4> QED BY <3>1, <4>1
    <3>6. \A c \in W(x) : /\ c # x => t[c].slot < t[x].slot
                          /\ c # 1 => t[c].slot > 0
      BY <3>1, <3>3, <3>4, <3>5
    <3>7. \A c \in W(p) : t[c].slot # t[x].slot
      <4> SUFFICES ASSUME NEW c \in W(p) PROVE t[c].slot # t[x].slot OBVIOUS
      <4>1. t[c].slot \in Nat /\ t[x].slot \in Nat BY <1>1, <2>3, <3>3
      <4> QED BY <3>4, <4>1
    <3>8. \A c, d \in W(x) : t[c].slot = t[d].slot => c = d BY <3>1, <3>3, <3>7
    <3> QED BY <2>3, <3>1, <3>3, <3>6, <3>8
  <2> QED BY <2>4, <2>5
<1>3. Good(b) BY <1>2
<1> QED BY <1>3

\* A longer tree has the same ways.
LEMMA WaysStay ==
    ASSUME NEW t, NEW u, ValidTree(t), ValidTree(u), Len(t) <= Len(u),
           \A c \in 1 .. Len(t) : u[c] = t[c],
           NEW b \in 1 .. Len(t)
    PROVE  WaysOf(u)[b] = WaysOf(t)[b]
<1> DEFINE Bad == {x \in 1 .. Len(t) : WaysOf(u)[x] # WaysOf(t)[x]}
<1>1. Len(t) \in Nat \ {0} /\ Len(u) \in Nat \ {0} BY DEF ValidTree
<1>2. Bad = {}
  <2> SUFFICES ASSUME Bad # {} PROVE FALSE OBVIOUS
  <2>1. Bad \in SUBSET Nat BY <1>1
  <2>2. PICK x \in Bad : \A y \in Bad : x <= y
    <3> HIDE DEF Bad
    <3> QED BY <2>1, NatHasLeast
  <2>3. x \in 1 .. Len(t) /\ x \in 1 .. Len(u) /\ WaysOf(u)[x] # WaysOf(t)[x] BY <1>1
  <2>4. x # 1
    <3>1. WaysOf(u)[1] = {1} /\ WaysOf(t)[1] = {1}
      <4>1. 1 \in 1 .. Len(t) /\ 1 \in 1 .. Len(u) BY <1>1
      <4>2. WaysOf(u)[1] = {1} BY <4>1, WayFacts
      <4>3. WaysOf(t)[1] = {1} BY <4>1, WayFacts
      <4> QED BY <4>2, <4>3
    <3> QED BY <2>3, <3>1
  <2>5. /\ WaysOf(t)[x] = {x} \union WaysOf(t)[t[x].parent]
        /\ t[x].parent \in 1 .. Len(t) /\ t[x].parent < x /\ t[x].parent \in Nat
    BY <2>3, <2>4, WayFacts
  <2>6. WaysOf(u)[x] = {x} \union WaysOf(u)[t[x].parent]
    <3>1. u[x] = t[x] BY <2>3
    <3>2. WaysOf(u)[x] = {x} \union WaysOf(u)[u[x].parent] BY <2>3, <2>4, WayFacts
    <3> QED BY <3>1, <3>2
  <2>7. t[x].parent \notin Bad
    <3> HIDE DEF Bad
    <3> QED BY <1>1, <2>2, <2>3, <2>5
  <2> QED BY <2>3, <2>5, <2>6, <2>7
<1> QED BY <1>2

\* There is one last block that is not after a slot.
LEMMA LastIsIt ==
    ASSUME NEW t, ValidTree(t), NEW b \in 1 .. Len(t), NEW s \in Nat
    PROVE  /\ IsLast(t, b, s, LastOf(t, b, s))
           /\ \A c : IsLast(t, b, s, c) => c = LastOf(t, b, s)
           /\ LastOf(t, b, s) \in 1 .. Len(t)
           /\ t[b].slot <= s => LastOf(t, b, s) = b
           /\ s = 0 => LastOf(t, b, s) = 1
<1> DEFINE W == WaysOf(t)[b]
           Early == {c \in W : t[c].slot <= s}
           Gaps == {s - t[c].slot : c \in Early}
<1>1. /\ W \in SUBSET (1 .. Len(t)) /\ b \in W /\ 1 \in W
      /\ \A c \in W : (c # b => t[c].slot < t[b].slot) /\ (c # 1 => t[c].slot > 0)
      /\ \A c, d \in W : t[c].slot = t[d].slot => c = d
  BY WaysRise
<1>2. /\ Len(t) \in Nat \ {0} /\ t[1].slot = 0 /\ \A c \in 1 .. Len(t) : t[c].slot \in Nat
  BY DEF ValidTree
<1> HIDE DEF W
<1>3. \A c \in W : t[c].slot \in Nat /\ c \in 1 .. Len(t) BY <1>1, <1>2
<1>4. Gaps \in SUBSET Nat BY <1>3
<1>5. Gaps # {}
  <2>1. 1 \in Early BY <1>1, <1>2
  <2> QED BY <2>1
<1>6. PICK g \in Gaps : \A h \in Gaps : g <= h
  <2> HIDE DEF Gaps
  <2> QED BY <1>4, <1>5, NatHasLeast
<1>7. PICK c \in Early : g = s - t[c].slot BY <1>6
<1>8. IsLast(t, b, s, c)
  <2>1. ASSUME NEW d \in W, t[d].slot <= s PROVE t[d].slot <= t[c].slot
    <3>1. s - t[d].slot \in Gaps BY <2>1
    <3>2. s - t[c].slot <= s - t[d].slot BY <1>6, <1>7, <3>1
    <3> QED BY <1>3, <1>7, <2>1, <3>2, SMTT(30)
  <2> QED BY <1>7, <2>1 DEF IsLast, W
<1>9. IsLast(t, b, s, LastOf(t, b, s)) BY <1>8 DEF IsLast, LastOf
<1>10. ASSUME NEW d, IsLast(t, b, s, d), NEW e, IsLast(t, b, s, e) PROVE d = e
  <2>1. d \in W /\ e \in W /\ t[d].slot <= t[e].slot /\ t[e].slot <= t[d].slot BY <1>10 DEF IsLast, W
  <2>2. t[d].slot = t[e].slot BY <1>3, <2>1, SMTT(30)
  <2> QED BY <1>1, <2>1, <2>2
<1>11. ASSUME t[b].slot <= s PROVE IsLast(t, b, s, b)
  <2>1. ASSUME NEW d \in W PROVE t[d].slot <= t[b].slot
    <3>1. d = b \/ t[d].slot < t[b].slot BY <1>1
    <3>2. t[d].slot \in Nat /\ t[b].slot \in Nat BY <1>1, <1>3
    <3> QED BY <3>1, <3>2
  <2> QED BY <1>1, <1>11, <2>1 DEF IsLast, W
<1>12. ASSUME s = 0 PROVE LastOf(t, b, s) = 1
  <2>1. LastOf(t, b, s) \in W /\ t[LastOf(t, b, s)].slot <= 0 BY <1>9, <1>12 DEF IsLast, W
  <2>2. ~(t[LastOf(t, b, s)].slot > 0) BY <1>3, <2>1
  <2> QED BY <1>1, <2>1, <2>2
<1>13. LastOf(t, b, s) \in 1 .. Len(t) BY <1>3, <1>9 DEF IsLast, W
<1> QED BY <1>9, <1>10, <1>11, <1>12, <1>13

\* It stays the last when the tree grows.
LEMMA LastStays ==
    ASSUME NEW t, NEW u, ValidTree(t), ValidTree(u), Len(t) <= Len(u),
           \A c \in 1 .. Len(t) : u[c] = t[c],
           NEW b \in 1 .. Len(t), NEW s \in Nat
    PROVE  LastOf(u, b, s) = LastOf(t, b, s)
<1>1. WaysOf(u)[b] = WaysOf(t)[b] BY WaysStay
<1>2. WaysOf(t)[b] \in SUBSET (1 .. Len(t)) BY WaysRise
<1>3. IsLast(t, b, s, LastOf(t, b, s)) BY LastIsIt
<1>4. IsLast(u, b, s, LastOf(t, b, s)) BY <1>1, <1>2, <1>3 DEF IsLast
<1>5. b \in 1 .. Len(u) BY DEF ValidTree
<1> QED BY <1>4, <1>5, LastIsIt

-----------------------------------------------------------------------------
(* The requests, in the API's registers. *)

tree == r2
head == r3
request == r4
answers == r5

USE DEF tree, head, request, answers

\* Any length of an epoch, and any number of slots.
ApiConstants == SlotsPerEpoch \in Nat \ {0} /\ LastApiSlot \in Nat

\* The requests while they wait for their slot, and once they have taken a head.
Kinds == {"block", "attestation", "proposer", "attester"}
Blocks == [slot : Nat, parent : Nat]
Waiting == [kind : Kinds, at : Nat, step : {"slot"}]
WithState == [kind : Kinds, at : Nat, step : {"state"}, root : Nat, state : [block : Nat, slot : Nat]]

\* The state a request works on is the one of the head it took, at the slot it asked for.
RequestSound(t, r) ==
    /\ r.root \in 1 .. Len(t) /\ r.state.block = r.root
    /\ t[r.root].slot <= r.state.slot
    /\ ~Api!IsEpochKind(r.kind) => r.state.slot = r.at

\* Duties are named by the block that decides them, the genesis block by the other name too.
AnswerSound(a) ==
    \/ /\ a.kind = "attestation" /\ a.slot \in Nat /\ a.beaconBlockRoot \in 1 .. Len(tree)
       /\ a.target = LastOf(tree, a.beaconBlockRoot, Api!StartSlot(Api!EpochAt(a.slot)))
    \/ /\ a.kind = "block" /\ a.slot \in Nat /\ a.parent \in 1 .. Len(tree)
       /\ a.proposerBy = Api!DecidesProposers(a.parent, Api!EpochAt(a.slot))
    \/ /\ a.kind \in {"proposer", "attester"} /\ a.by \in Nat \ {0}
       /\ \/ a.dependentRoot = a.by
          \/ a.dependentRoot = Api!SignedGenesisRoot /\ a.by = 1

\* The inductive invariant.
ApiInv ==
    /\ r1 \in Nat
    /\ tree \in Seq(Blocks) /\ ValidTree(tree)
    /\ head \in 1 .. Len(tree)
    /\ request \in {Api!Idle} \union Waiting \union WithState
    /\ request \in WithState => RequestSound(tree, request)
    /\ \A a \in answers : AnswerSound(a)

\* Slots and epochs.
LEMMA EpochStarts ==
    ASSUME ApiConstants, NEW s \in Nat
    PROVE  /\ Api!EpochAt(s) \in Nat /\ Api!StartSlot(Api!EpochAt(s)) \in Nat
           /\ Api!StartSlot(Api!EpochAt(s)) <= s
           /\ \A e \in Nat : e <= Api!EpochAt(s) => Api!StartSlot(e) \in Nat /\ Api!StartSlot(e) <= s
<1> DEFINE n == SlotsPerEpoch
           q == s \div n
<1>1. n \in Nat \ {0} BY DEF ApiConstants
<1>2. q \in Nat BY <1>1, DivisionMonotone
<1>3. n * q <= s BY <1>1
<1> HIDE DEF q, n
<1>4. \A e \in Nat : e * n \in Nat BY <1>1
<1>5. q * n <= s /\ q * n \in Nat BY <1>1, <1>2, <1>3
<1>6. ASSUME NEW e \in Nat, e <= q PROVE e * n <= s
  <2>1. (q - e) * n >= 0 BY <1>1, <1>2, <1>6
  <2>2. (q - e) * n = q * n - e * n BY <1>1, <1>2
  <2> QED BY <1>4, <1>5, <2>1, <2>2
<1> QED BY <1>2, <1>4, <1>5, <1>6 DEF q, n, Api!EpochAt, Api!StartSlot

\* The instance's copies of library operators.
LEMMA ApiOperators ==
    /\ \A a, b \in Int : Api!Max({a, b}) = IF a <= b THEN b ELSE a
    /\ \A S : Api!Cardinality(S) = Cardinality(S)
<1>1. \A a, b \in Int : Api!Max({a, b}) = IF a <= b THEN b ELSE a BY DEF Api!Max
<1>2. \A S : Api!Cardinality(S) = Cardinality(S) BY DEF Cardinality, Api!Cardinality
<1> QED BY <1>1, <1>2

\* getBlockRootAtSlot finds the last block of the branch.
LEMMA RootIsLast ==
    /\ \A b, s : Api!BlockRootAtSlot(b, s) = LastOf(tree, b, s)
    /\ \A b, s : Api!BlockRootAtSlot(b, s)' = LastOf(tree', b, s)
<1>1. \A b : Api!Chain(b) = WaysOf(tree)[b]
  BY DEF Api!Chain, Api!GENESIS, WaysOf, Ways, Way
<1>2. \A b, s : Api!BlockRootAtSlot(b, s) = LastOf(tree, b, s)
  BY <1>1, Zenon DEF Api!BlockRootAtSlot, LastOf
<1>3. \A b : Api!Chain(b)' = WaysOf(tree')[b]
  BY DEF Api!Chain, Api!GENESIS, WaysOf, Ways, Way
<1>4. \A b, s : Api!BlockRootAtSlot(b, s)' = LastOf(tree', b, s)
  BY <1>3, Zenon DEF Api!BlockRootAtSlot, LastOf
<1> QED BY <1>2, <1>4

\* The slot that decides an epoch's proposers is a slot of its own.
LEMMA DecisionSlot ==
    ASSUME ApiConstants, NEW e \in Int
    PROVE  Api!Max({Api!StartSlot(e) - 1, 0}) \in Nat
<1>1. Api!StartSlot(e) \in Int BY DEF ApiConstants, Api!StartSlot
<1> QED BY <1>1, ApiOperators

\* What was answered stays true when the tree grows.
LEMMA AnswersStay ==
    ASSUME ApiConstants, ApiInv, ValidTree(tree'), Len(tree) <= Len(tree'),
           \A c \in 1 .. Len(tree) : tree'[c] = tree[c]
    PROVE  /\ \A a : AnswerSound(a) => AnswerSound(a)'
           /\ \A r : RequestSound(tree, r) => RequestSound(tree', r)
<1>1. ValidTree(tree) /\ Len(tree) \in Nat /\ Len(tree') \in Nat BY DEF ApiInv, ValidTree
<1>2. 1 .. Len(tree) \subseteq 1 .. Len(tree') BY <1>1
<1>3. \A b \in 1 .. Len(tree), s \in Nat : LastOf(tree', b, s) = LastOf(tree, b, s)
  BY <1>1, LastStays
<1>4. \A r : RequestSound(tree, r) => RequestSound(tree', r) BY <1>2 DEF RequestSound, Api!IsEpochKind
<1>5. ASSUME NEW a, AnswerSound(a) PROVE AnswerSound(a)'
  <2>1. CASE /\ a.kind = "attestation" /\ a.slot \in Nat /\ a.beaconBlockRoot \in 1 .. Len(tree)
             /\ a.target = LastOf(tree, a.beaconBlockRoot, Api!StartSlot(Api!EpochAt(a.slot)))
    <3>1. Api!StartSlot(Api!EpochAt(a.slot)) \in Nat BY <2>1, EpochStarts
    <3>2. LastOf(tree', a.beaconBlockRoot, Api!StartSlot(Api!EpochAt(a.slot))) = a.target
      BY <1>3, <2>1, <3>1
    <3> QED BY <1>2, <2>1, <3>2 DEF AnswerSound, Api!StartSlot, Api!EpochAt
  <2>2. CASE /\ a.kind = "block" /\ a.slot \in Nat /\ a.parent \in 1 .. Len(tree)
             /\ a.proposerBy = Api!DecidesProposers(a.parent, Api!EpochAt(a.slot))
    <3> DEFINE s == Api!Max({Api!StartSlot(Api!EpochAt(a.slot)) - 1, 0})
    <3>1. s \in Nat
      <4>1. Api!EpochAt(a.slot) \in Nat BY <2>2, EpochStarts
      <4> QED BY <4>1, DecisionSlot
    <3>2. LastOf(tree', a.parent, s) = LastOf(tree, a.parent, s) BY <1>3, <2>2, <3>1
    <3>3. Api!DecidesProposers(a.parent, Api!EpochAt(a.slot)) = LastOf(tree, a.parent, s)
      BY RootIsLast DEF Api!DecidesProposers
    <3>4. Api!DecidesProposers(a.parent, Api!EpochAt(a.slot))' = LastOf(tree', a.parent, s)
      BY RootIsLast DEF Api!DecidesProposers, Api!StartSlot, Api!EpochAt
    <3> HIDE DEF s
    <3> QED BY <1>2, <2>2, <3>2, <3>3, <3>4 DEF AnswerSound
  <2>3. CASE /\ a.kind \in {"proposer", "attester"} /\ a.by \in Nat \ {0}
             /\ a.dependentRoot = a.by \/ (a.dependentRoot = Api!SignedGenesisRoot /\ a.by = 1)
    BY <2>3 DEF AnswerSound, Api!SignedGenesisRoot
  <2> QED BY <1>5, <2>1, <2>2, <2>3 DEF AnswerSound
<1> QED BY <1>4, <1>5

\* The three answers are sound when their request is.
LEMMA AnswerIsSound ==
    ASSUME ApiConstants, ApiInv, request \in WithState,
           NEW a \in CASE request.kind = "attestation" -> {Api!AssembleAttestationData(request)}
                       [] request.kind = "block" -> {Api!AssembleBlock(request)}
                       [] request.kind = "proposer" -> Api!ProposerDuties(request)
                       [] request.kind = "attester" -> Api!AttesterDuties(request)
    PROVE  AnswerSound(a)
<1> DEFINE r == request
           t == tree
           b == request.root
           s == request.state.slot
           current == Api!EpochAt(s)
<1>1. ValidTree(t) /\ RequestSound(t, r) BY DEF ApiInv
<1>2. /\ b \in 1 .. Len(t) /\ request.state.block = b /\ t[b].slot <= s
      /\ ~Api!IsEpochKind(request.kind) => s = request.at
  BY <1>1 DEF RequestSound
<1>3. request.kind \in Kinds /\ request.at \in Nat /\ s \in Nat BY DEF WithState
<1>4. /\ current \in Nat /\ Api!StartSlot(current) \in Nat /\ Api!StartSlot(current) <= s
      /\ \A e \in Nat : e <= current => Api!StartSlot(e) \in Nat /\ Api!StartSlot(e) <= s
  BY <1>3, EpochStarts
<1>5. \A x \in Nat : /\ LastOf(t, b, x) \in Nat \ {0} /\ (x = 0 => LastOf(t, b, x) = 1)
                     /\ t[b].slot <= x => LastOf(t, b, x) = b
  <2>1. Len(t) \in Nat BY <1>1 DEF ValidTree
  <2>2. ASSUME NEW x \in Nat PROVE /\ LastOf(t, b, x) \in 1 .. Len(t) /\ (x = 0 => LastOf(t, b, x) = 1)
                                   /\ t[b].slot <= x => LastOf(t, b, x) = b
    BY <1>1, <1>2, LastIsIt
  <2> QED BY <2>1, <2>2
<1>6. CASE request.kind = "attestation"
  <2>1. a = Api!AssembleAttestationData(request) BY <1>6
  <2>2. s = request.at BY <1>2, <1>6 DEF Api!IsEpochKind
  <2>3. /\ a.kind = "attestation" /\ a.slot = s /\ a.beaconBlockRoot = b
        /\ a.target = IF Api!StartSlot(current) = s THEN b ELSE LastOf(t, b, Api!StartSlot(current))
    BY <1>2, <2>1, <2>2, RootIsLast DEF Api!AssembleAttestationData
  <2>4. a.target = LastOf(t, b, Api!StartSlot(current))
    <3>1. CASE Api!StartSlot(current) = s BY <1>2, <1>3, <1>5, <2>3, <3>1
    <3>2. CASE Api!StartSlot(current) # s BY <2>3, <3>2
    <3> QED BY <3>1, <3>2
  <2> QED BY <1>2, <1>3, <2>3, <2>4 DEF AnswerSound
<1>7. CASE request.kind = "block"
  <2>1. a = Api!AssembleBlock(request) BY <1>7
  <2>2. s = request.at BY <1>2, <1>7 DEF Api!IsEpochKind
  <2>3. a.kind = "block" /\ a.slot = s /\ a.parent = b /\ a.proposerBy = Api!DecidesProposers(b, current)
    BY <1>2, <2>1, <2>2 DEF Api!AssembleBlock
  <2> QED BY <1>2, <1>3, <2>3 DEF AnswerSound
<1>8. ASSUME NEW d \in Nat, d <= s, a.kind \in {"proposer", "attester"}, a.by = LastOf(t, b, d),
             s = d => d = 0,
             a.dependentRoot = Api!OrGenesis(IF s = d THEN Api!ZeroHash ELSE LastOf(t, b, d))
      PROVE  AnswerSound(a)
  <2>1. a.by \in Nat \ {0} BY <1>5, <1>8
  <2>2. CASE s = d
    <3>1. a.dependentRoot = Api!SignedGenesisRoot BY <1>8, <2>2 DEF Api!OrGenesis, Api!ZeroHash
    <3>2. a.by = 1 BY <1>5, <1>8, <2>2
    <3> QED BY <1>8, <2>1, <3>1, <3>2 DEF AnswerSound
  <2>3. CASE s # d
    <3>1. a.dependentRoot = a.by BY <1>8, <2>1, <2>3 DEF Api!OrGenesis, Api!ZeroHash
    <3> QED BY <1>8, <2>1, <3>1 DEF AnswerSound
  <2> QED BY <2>2, <2>3
<1>9. \A e \in Nat : e <= current =>
        LET d == Api!Max({Api!StartSlot(e) - 1, 0}) IN d \in Nat /\ d <= s /\ (s = d => d = 0)
  <2> SUFFICES ASSUME NEW e \in Nat, e <= current
               PROVE  LET d == Api!Max({Api!StartSlot(e) - 1, 0}) IN d \in Nat /\ d <= s /\ (s = d => d = 0)
    OBVIOUS
  <2>1. Api!StartSlot(e) \in Nat /\ Api!StartSlot(e) <= s BY <1>4
  <2>2. Api!Max({Api!StartSlot(e) - 1, 0}) = IF Api!StartSlot(e) - 1 <= 0 THEN 0 ELSE Api!StartSlot(e) - 1
    BY <2>1, ApiOperators
  <2> QED BY <1>3, <2>1, <2>2
<1>10. CASE request.kind = "proposer"
  <2> DEFINE d == Api!Max({Api!StartSlot(current) - 1, 0})
  <2>1. a \in Api!ProposerDuties(request) BY <1>10
  <2>2. request.at = current BY <2>1 DEF Api!ProposerDuties
  <2>3. /\ a.kind = "proposer" /\ a.by = LastOf(t, b, d)
        /\ a.dependentRoot = Api!OrGenesis(IF s = d THEN Api!ZeroHash ELSE LastOf(t, b, d))
    BY <1>2, <2>1, <2>2, RootIsLast
       DEF Api!ProposerDuties, Api!DecidesProposers, Api!ProposerShufflingDecisionRoot
  <2>4. d \in Nat /\ d <= s /\ (s = d => d = 0)
    <3>1. current <= current BY <1>4
    <3> QED BY <1>4, <1>9, <3>1
  <2> HIDE DEF d
  <2> QED BY <1>8, <2>3, <2>4
<1>11. CASE request.kind = "attester"
  <2> DEFINE e == request.at
             de == Api!AttesterShufflingDecisionEpoch(request.state, e)
             d == Api!Max({Api!StartSlot(de) - 1, 0})
  <2>1. a \in Api!AttesterDuties(request) BY <1>11
  <2>2. e \in {Api!Max({current - 1, 0}), current, current + 1} BY <2>1 DEF Api!AttesterDuties
  <2>3. /\ a.kind = "attester" /\ a.by = LastOf(t, b, Api!Max({Api!StartSlot(e - 1) - 1, 0}))
        /\ a.dependentRoot = Api!OrGenesis(IF s = d THEN Api!ZeroHash ELSE LastOf(t, b, d))
    BY <1>2, <2>1, <2>2, RootIsLast
       DEF Api!AttesterDuties, Api!DecidesCommittees, Api!AttesterShufflingDecisionRoot
  <2>4. \A x \in Nat : Api!Max({x - 1, 0}) = IF x = 0 THEN 0 ELSE x - 1
    <3> SUFFICES ASSUME NEW x \in Nat PROVE Api!Max({x - 1, 0}) = IF x = 0 THEN 0 ELSE x - 1 OBVIOUS
    <3>1. Api!Max({x - 1, 0}) = IF x - 1 <= 0 THEN 0 ELSE x - 1 BY ApiOperators
    <3> QED BY <3>1
  <2>5. e \in Nat /\ (e = current + 1 \/ e = current \/ (current # 0 /\ e = current - 1))
    BY <1>3, <1>4, <2>2, <2>4
  <2>6. de = IF e = 0 THEN 0 ELSE e - 1
    <3>1. CASE e = current + 1
      <4>1. de = current BY <1>4, <3>1 DEF Api!AttesterShufflingDecisionEpoch
      <4> QED BY <1>4, <3>1, <4>1
    <3>2. CASE e = current
      <4>1. de = Api!Max({current - 1, 0}) BY <1>4, <3>2 DEF Api!AttesterShufflingDecisionEpoch
      <4> QED BY <1>4, <2>4, <3>2, <4>1
    <3>3. CASE current # 0 /\ e = current - 1
      <4>1. de = Api!Max({Api!Max({current - 1, 0}) - 1, 0})
        BY <1>4, <3>3 DEF Api!AttesterShufflingDecisionEpoch
      <4>2. Api!Max({current - 1, 0}) = e BY <1>4, <2>4, <3>3
      <4>3. Api!Max({e - 1, 0}) = IF e = 0 THEN 0 ELSE e - 1 BY <2>4, <2>5
      <4> QED BY <4>1, <4>2, <4>3
    <3> QED BY <2>5, <3>1, <3>2, <3>3
  <2>7. de \in Nat /\ de <= current BY <1>4, <2>5, <2>6
  <2>8. d \in Nat /\ d <= s /\ (s = d => d = 0) BY <1>9, <2>7
  <2>9. Api!Max({Api!StartSlot(e - 1) - 1, 0}) = d
    <3>1. CASE e # 0 BY <2>6, <3>1
    <3>2. CASE e = 0
      <4>1. de = 0 BY <2>6, <3>2
      <4>2. Api!StartSlot(0) = 0 /\ Api!StartSlot(-1) = -SlotsPerEpoch
        BY DEF Api!StartSlot, ApiConstants
      <4>3. Api!StartSlot(e - 1) - 1 = -SlotsPerEpoch - 1 /\ Api!StartSlot(de) - 1 = -1
        BY <3>2, <4>1, <4>2
      <4>4. ASSUME NEW x \in Int, x <= 0 PROVE Api!Max({x, 0}) = 0
        <5>1. Api!Max({x, 0}) = IF x <= 0 THEN 0 ELSE x BY ApiOperators
        <5> QED BY <4>4, <5>1
      <4>5. -SlotsPerEpoch - 1 \in Int /\ -SlotsPerEpoch - 1 <= 0 BY DEF ApiConstants
      <4>6. Api!Max({-SlotsPerEpoch - 1, 0}) = 0 /\ Api!Max({-1, 0}) = 0 BY <4>4, <4>5
      <4> QED BY <4>3, <4>6
    <3> QED BY <3>1, <3>2
  <2> HIDE DEF d
  <2> QED BY <1>8, <2>3, <2>8, <2>9
<1> QED BY <1>3, <1>6, <1>7, <1>10, <1>11 DEF Kinds

\* Every step of the API and of the chain under it.
LEMMA ApiKeeps ==
    ASSUME ApiConstants, ApiInv, [Api!Next]_(Api!vars)
    PROVE  ApiInv'
<1> DEFINE Same == ValidTree(tree') /\ tree' = tree
<1>0. /\ r1 \in Nat /\ tree \in Seq(Blocks) /\ ValidTree(tree) /\ head \in 1 .. Len(tree) /\ Len(tree) \in Nat
      /\ request \in {Api!Idle} \union Waiting \union WithState
  BY DEF ApiInv, ValidTree
<1>1. ASSUME tree' = tree
      PROVE  /\ \A a : AnswerSound(a) => AnswerSound(a)'
             /\ \A r : RequestSound(tree, r) => RequestSound(tree', r)
  <2>1. ValidTree(tree') /\ Len(tree) <= Len(tree') /\ \A c \in 1 .. Len(tree) : tree'[c] = tree[c]
    BY <1>0, <1>1
  <2> QED BY <2>1, AnswersStay
<1>2. CASE Api!Tick \/ UNCHANGED Api!vars \/ \E b \in 1 .. Len(tree) : Api!MoveHead(b)
  <2>1. /\ tree' = tree /\ request' = request /\ answers' = answers /\ r1' \in Nat
        /\ head' \in 1 .. Len(tree)
    BY <1>0, <1>2 DEF Api!Tick, Api!MoveHead, Api!vars
  <2>2. \A a \in answers' : AnswerSound(a)' BY <1>1, <2>1 DEF ApiInv
  <2>3. request' \in WithState => RequestSound(tree', request') BY <1>1, <2>1 DEF ApiInv
  <2> QED BY <1>0, <2>1, <2>2, <2>3 DEF ApiInv
<1>3. ASSUME NEW p \in 1 .. Len(tree), Api!ImportBlock(p) PROVE ApiInv'
  <2> DEFINE new == [slot |-> r1, parent |-> p]
  <2>1. /\ tree' = Append(tree, new) /\ tree[p].slot < r1 /\ head' \in {head, Len(tree) + 1}
        /\ r1' = r1 /\ request' = request /\ answers' = answers
    BY <1>3 DEF Api!ImportBlock
  <2>2. new \in Blocks BY <1>0 DEF Blocks
  <2>3. /\ tree' \in Seq(Blocks) /\ Len(tree') = Len(tree) + 1 /\ tree'[Len(tree) + 1] = new
        /\ \A c \in 1 .. Len(tree) : tree'[c] = tree[c]
        /\ DOMAIN tree' = 1 .. (Len(tree) + 1)
    <3> HIDE DEF new
    <3> QED BY <1>0, <2>1, <2>2
  <2>4. ValidTree(tree')
    <3> DEFINE t == tree
               u == tree'
               n == Len(tree)
    <3>0. n \in Nat \ {0} /\ t[1].slot = 0 /\ \A c \in 1 .. n : t[c].slot \in Nat BY <1>0 DEF ValidTree
    <3>1. Len(u) \in Nat \ {0} /\ DOMAIN u = 1 .. Len(u) BY <1>0, <2>3
    <3>2. ASSUME NEW c \in 1 .. Len(u) PROVE u[c].slot \in Nat
      <4>1. CASE c \in 1 .. n BY <2>3, <3>0, <4>1
      <4>2. CASE c = n + 1 BY <1>0, <2>3, <4>2
      <4> QED BY <2>3, <3>0, <4>1, <4>2
    <3>3. u[1].slot = 0 BY <2>3, <3>0
    <3>4. ASSUME NEW c \in 2 .. Len(u) PROVE u[c].parent \in 1 .. (c - 1) /\ u[u[c].parent].slot < u[c].slot
      <4>1. CASE c \in 2 .. n
        <5>1. t[c].parent \in 1 .. (c - 1) /\ t[t[c].parent].slot < t[c].slot
          BY <1>0, <4>1 DEF ValidTree
        <5>2. c \in 1 .. n /\ t[c].parent \in 1 .. n BY <3>0, <4>1, <5>1
        <5>3. u[c] = t[c] /\ u[t[c].parent] = t[t[c].parent] BY <2>3, <5>2
        <5> QED BY <5>1, <5>3
      <4>2. CASE c = n + 1
        <5>1. u[c].parent = p /\ u[c].slot = r1 /\ u[p] = t[p] BY <2>3, <4>2
        <5> QED BY <2>1, <3>0, <4>2, <5>1
      <4> QED BY <2>3, <3>0, <4>1, <4>2
    <3> QED BY <3>1, <3>2, <3>3, <3>4 DEF ValidTree
  <2>5. Len(tree) <= Len(tree') BY <1>0, <2>3
  <2>6. /\ \A a : AnswerSound(a) => AnswerSound(a)'
        /\ \A r : RequestSound(tree, r) => RequestSound(tree', r)
    BY <2>3, <2>4, <2>5, AnswersStay
  <2>7. \A a \in answers' : AnswerSound(a)' BY <2>1, <2>6 DEF ApiInv
  <2>8. request' \in WithState => RequestSound(tree', request') BY <2>1, <2>6 DEF ApiInv
  <2>9. head' \in 1 .. Len(tree') BY <1>0, <2>1, <2>3
  <2> QED BY <1>0, <2>1, <2>3, <2>4, <2>7, <2>8, <2>9 DEF ApiInv
<1>4. ASSUME NEW kind \in Kinds, NEW at \in 0 .. (LastApiSlot + 1), Api!Request(kind, at) PROVE ApiInv'
  <2>1. /\ request' = [kind |-> kind, at |-> at, step |-> "slot"]
        /\ r1' = r1 /\ tree' = tree /\ head' = head /\ answers' = answers
    BY <1>4 DEF Api!Request
  <2>2. request' \in Waiting BY <2>1 DEF Waiting, ApiConstants
  <2>3. request' \notin WithState BY <2>1 DEF WithState
  <2>4. \A a \in answers' : AnswerSound(a)' BY <1>1, <2>1 DEF ApiInv
  <2> QED BY <1>0, <2>1, <2>2, <2>3, <2>4 DEF ApiInv
<1>5. CASE Api!TakeHead
  <2>1. /\ r1' = r1 /\ tree' = tree /\ head' = head /\ answers' = answers
        /\ request # Api!Idle /\ request.step = "slot"
    BY <1>5 DEF Api!TakeHead
  <2>2. request \in Waiting BY <1>0, <2>1 DEF WithState
  <2>3. \A a \in answers' : AnswerSound(a)' BY <1>1, <2>1 DEF ApiInv
  <2>4. CASE request' = Api!Idle
    <3>1. Api!Idle \notin WithState BY DEF Api!Idle, WithState, Kinds
    <3> QED BY <1>0, <2>1, <2>3, <2>4, <3>1 DEF ApiInv
  <2>5. CASE request' # Api!Idle
    <3> DEFINE s == Api!StateSlot(request)
    <3>1. /\ request' = [kind |-> request.kind, at |-> request.at, step |-> "state", root |-> head,
                         state |-> [block |-> head, slot |-> s]]
          /\ ~(s < tree[head].slot)
      BY <1>5, <2>5 DEF Api!TakeHead
    <3>2. tree[head].slot \in Nat BY <1>0 DEF ValidTree
    <3>3. s \in Nat /\ (~Api!IsEpochKind(request.kind) => s = request.at)
      <4>1. Api!StartSlot(Api!CurrentEpoch) \in Nat BY <1>0, EpochStarts DEF Api!CurrentEpoch
      <4>2. Api!Max({Api!StartSlot(Api!CurrentEpoch), tree[head].slot}) \in Nat
        BY <3>2, <4>1, ApiOperators
      <4>3. request.at \in Nat BY <2>2 DEF Waiting
      <4> QED BY <4>2, <4>3 DEF Api!StateSlot
    <3> HIDE DEF s
    <3>4. request' \in WithState
      <4>1. request.kind \in Kinds /\ request.at \in Nat /\ head \in Nat BY <1>0, <2>2 DEF Waiting
      <4> QED BY <3>1, <3>3, <4>1 DEF WithState
    <3>5. RequestSound(tree, request')
      <4>1. request'.root = head /\ request'.state.block = head /\ request'.state.slot = s
            /\ request'.kind = request.kind /\ request'.at = request.at
        BY <3>1
      <4>2. tree[head].slot <= s BY <3>1, <3>2, <3>3
      <4> QED BY <1>0, <3>3, <4>1, <4>2 DEF RequestSound
    <3>6. RequestSound(tree', request') BY <1>1, <2>1, <3>5
    <3> QED BY <1>0, <2>1, <2>3, <3>4, <3>6 DEF ApiInv
  <2> QED BY <2>4, <2>5
<1>6. CASE Api!Answer
  <2> DEFINE new == CASE request.kind = "attestation" -> {Api!AssembleAttestationData(request)}
                      [] request.kind = "block" -> {Api!AssembleBlock(request)}
                      [] request.kind = "proposer" -> Api!ProposerDuties(request)
                      [] request.kind = "attester" -> Api!AttesterDuties(request)
  <2>1. /\ r1' = r1 /\ tree' = tree /\ head' = head /\ request' = Api!Idle
        /\ request # Api!Idle /\ request.step = "state" /\ answers' = answers \union new
    BY <1>6 DEF Api!Answer
  <2>2. request \in WithState BY <1>0, <2>1 DEF Waiting
  <2>3. \A a \in new : AnswerSound(a) BY <2>2, AnswerIsSound
  <2> HIDE DEF new
  <2>4. \A a \in answers' : AnswerSound(a)' BY <1>1, <2>1, <2>3 DEF ApiInv
  <2>5. Api!Idle \notin WithState BY DEF Api!Idle, WithState, Kinds
  <2> QED BY <1>0, <2>1, <2>4, <2>5 DEF ApiInv
<1> QED BY <1>2, <1>3, <1>4, <1>5, <1>6 DEF Api!Next, Kinds

\* The API starts sound.
LEMMA ApiStarts == ASSUME Api!Init PROVE ApiInv
<1>1. /\ r1 = 0 /\ tree = <<[slot |-> 0, parent |-> 0]>> /\ head = 1 /\ request = Api!Idle /\ answers = {}
  BY DEF Api!Init, Api!GENESIS
<1>2. tree \in Seq(Blocks) /\ Len(tree) = 1 /\ tree[1].slot = 0 /\ DOMAIN tree = 1 .. 1
  BY <1>1 DEF Blocks
<1>3. ValidTree(tree) BY <1>2 DEF ValidTree
<1>4. Api!Idle \notin WithState BY DEF Api!Idle, WithState, Kinds
<1> QED BY <1>1, <1>2, <1>3, <1>4 DEF ApiInv

\* What api/impl/validator answers belongs to one branch, although the head moves while the
\* state is made: the target of attestation data is its head's block at the start of the epoch,
\* a block's proposer is the one of its parent's chain, and two duty answers of an epoch with
\* one dependent root are the same; for any trees, heads, epochs and requests.
THEOREM AnswersStayCoherent == ASSUME ApiConstants PROVE MCSpec => []AnswersAreCoherent
<1> DEFINE Inv == part = "api" => ApiInv
<1>1. MCInit => Inv BY ApiStarts DEF MCInit
<1>2. Inv /\ [MCNext]_allVars => Inv'
  <2> SUFFICES ASSUME Inv, [MCNext]_allVars, part' = "api" PROVE ApiInv' OBVIOUS
  <2>1. part = "api" BY DEF MCNext, allVars
  <2>2. CASE UNCHANGED allVars
    <3>1. UNCHANGED Api!vars BY <2>2 DEF allVars, registers, from4, Api!vars
    <3> QED BY <2>1, <3>1, ApiKeeps
  <2>3. CASE MCNext
    <3>1. Api!Next BY <2>1, <2>3 DEF MCNext
    <3> QED BY <2>1, <3>1, ApiKeeps
  <2> QED BY <2>2, <2>3
<1>3. Inv => AnswersAreCoherent
  <2> SUFFICES ASSUME ApiInv PROVE Api!AnswersAreCoherent /\ Api!DependentRootDecides
    BY DEF AnswersAreCoherent
  <2>1. \A a \in answers : AnswerSound(a) BY DEF ApiInv
  <2>2. Api!AnswersAreCoherent BY <2>1, RootIsLast DEF AnswerSound, Api!AnswersAreCoherent
  <2>3. Api!DependentRootDecides
    BY <2>1 DEF AnswerSound, Api!DependentRootDecides, Api!SignedGenesisRoot
  <2> QED BY <2>2, <2>3
<1> QED BY <1>1, <1>2, <1>3, PTL DEF MCSpec

-----------------------------------------------------------------------------
(* Light client: what the server offers, a client accepts. *)

Period(s) == LC!SyncPeriodAtSlot(s)
PeriodOfEpoch(e) == LC!SyncPeriodAtEpoch(e)

\* The blocks up to slot n, with the epoch each finalizes.
ChainOK(fin, n) ==
    /\ n \in Nat /\ DOMAIN fin \subseteq 0..n /\ 0 \in DOMAIN fin /\ fin[0] = 0
    /\ \A b \in DOMAIN fin : fin[b] \in Nat /\ fin[b] * SLOTS_PER_EPOCH <= b

\* The last block up to slot s, and the block of a checkpoint.
Latest(fin, s) == CHOOSE x \in {b \in DOMAIN fin : b <= s} : \A y \in {b \in DOMAIN fin : b <= s} : x >= y
CheckpointAt(fin, e) == Latest(fin, e * SLOTS_PER_EPOCH)

\* An update that the client's checks accept, if anyone signed it and its state is its block's.
Good(fin, u) ==
    /\ u.header \in Nat /\ u.bits \in Nat /\ Period(u.header) = Period(u.signedAt)
    /\ u.nextOf.at = u.header => u.nextOf = [block |-> u.header, at |-> u.header]
    /\ u.finalityHeader # 0 => /\ u.finalityHeader \in DOMAIN fin
                               /\ CheckpointAt(fin, fin[u.finalityHeader]) = u.header
                               /\ Period(u.finalityHeader) = Period(u.header)

\* An epoch whose first slot is past.
Past(e, n) == e \in Nat \ {0} /\ e * SLOTS_PER_EPOCH <= n

\* A block handler, and the data of a finalized checkpoint.
HandlerOK(fin, stored, h) ==
    /\ DOMAIN h = {"slot", "attested", "bits", "step", "prev"}
    /\ h.slot \in Nat /\ h.attested \in DOMAIN fin /\ h.attested <= h.slot /\ h.bits \in Nat
    /\ h.step = "putFinalized" => /\ fin[h.attested] \in DOMAIN stored
                                  /\ Period(CheckpointAt(fin, fin[h.attested])) = Period(h.slot)
StoredOK(fin, n, stored) ==
    \A e \in DOMAIN stored :
        /\ Past(e, n)
        /\ stored[e] = [header |-> CheckpointAt(fin, e),
                        state |-> [block |-> CheckpointAt(fin, e), at |-> e * SLOTS_PER_EPOCH]]

\* The proofs that a client can start from.
ProofsOK(fin, n, proofs, periods) ==
    /\ periods \subseteq Nat
    /\ \A e \in DOMAIN proofs :
         /\ Past(e, n) /\ proofs[e] = CheckpointAt(fin, e)
         /\ Period(CheckpointAt(fin, e)) = PeriodOfEpoch(e) => {PeriodOfEpoch(e), PeriodOfEpoch(e) + 1} \subseteq periods

\* A client, with the committees of its header's period and of the next.
SnapshotOK(s) ==
    /\ DOMAIN s = {"header", "current", "next"} /\ s.header \in Nat
    /\ s.current = Period(s.header) /\ s.next = Period(s.header) + 1
ClientOK(c) ==
    c # LC!None =>
        /\ DOMAIN c = {"snapshot", "best"} /\ SnapshotOK(c.snapshot)
        /\ \A p \in DOMAIN c.best : c.best[p].header \in Nat /\ Period(c.best[p].header) = p

LightInv ==
    /\ ChainOK(r2, r1)
    /\ \A e \in r3 : Past(e, r1)
    /\ StoredOK(r2, r1, r5)
    /\ \A p \in DOMAIN r6 : Good(r2, r6[p])
    /\ r7 # LC!None => Good(r2, r7)
    /\ \A h \in r8 : HandlerOK(r2, r5, h)
    /\ ProofsOK(r2, r1, r9, r10)
    /\ ClientOK(r11)

\* The last block up to a slot exists, and is not changed by a later block.
LEMMA LatestFacts ==
    ASSUME NEW fin, NEW n, ChainOK(fin, n), NEW s \in Nat
    PROVE  Latest(fin, s) \in DOMAIN fin /\ Latest(fin, s) \in Nat /\ Latest(fin, s) <= s /\ Latest(fin, s) <= n
<1> DEFINE T == {b \in DOMAIN fin : b <= s}
           Above == {x \in 0 .. n : \A y \in T : x >= y}
<1>1. n \in Nat /\ T \subseteq 0 .. n /\ 0 \in T BY DEF ChainOK
<1>2. n \in Above BY <1>1
<1>3. PICK x \in Above : \A y \in Above : x <= y
  <2>1. Above \in SUBSET Nat BY <1>1
  <2> HIDE DEF Above
  <2> QED BY <1>2, <2>1, NatHasLeast
<1>4. x \in T
  <2>1. SUFFICES ASSUME x \notin T PROVE FALSE OBVIOUS
  <2>2. \A y \in T : x > y BY <1>1, <1>3, <2>1
  <2>3. x \in Nat /\ x > 0 BY <1>1, <1>3, <2>2
  <2>4. x - 1 \in Above BY <1>1, <1>3, <2>2, <2>3
  <2> QED BY <1>3, <2>3, <2>4
<1>5. \E z \in T : \A y \in T : z >= y BY <1>3, <1>4
<1>6. Latest(fin, s) \in T BY <1>5 DEF Latest
<1> QED BY <1>1, <1>6

LEMMA LatestStays ==
    ASSUME NEW fin, NEW n, ChainOK(fin, n), NEW e, NEW s \in Nat, s <= n
    PROVE  Latest(LC!Put(fin, n + 1, e), s) = Latest(fin, s)
<1>1. n \in Nat /\ DOMAIN fin \subseteq 0 .. n BY DEF ChainOK
<1>2. DOMAIN LC!Put(fin, n + 1, e) = DOMAIN fin \cup {n + 1} BY DEF LC!Put
<1>3. {b \in DOMAIN LC!Put(fin, n + 1, e) : b <= s} = {b \in DOMAIN fin : b <= s} BY <1>1, <1>2
<1> QED BY <1>3, Zenon DEF Latest

\* The same of the block of a checkpoint.
LEMMA CheckpointFacts ==
    ASSUME NEW fin, NEW n, ChainOK(fin, n), NEW e \in Nat
    PROVE  /\ CheckpointAt(fin, e) \in DOMAIN fin /\ CheckpointAt(fin, e) \in Nat
           /\ CheckpointAt(fin, e) <= e * SLOTS_PER_EPOCH /\ e * SLOTS_PER_EPOCH \in Nat
<1>1. e * SLOTS_PER_EPOCH \in Nat BY LightClientAssumption
<1> QED BY <1>1, LatestFacts DEF CheckpointAt

LEMMA CheckpointStays ==
    ASSUME NEW fin, NEW n, ChainOK(fin, n), NEW e, NEW f \in Nat, f * SLOTS_PER_EPOCH <= n
    PROVE  CheckpointAt(LC!Put(fin, n + 1, e), f) = CheckpointAt(fin, f)
<1>1. f * SLOTS_PER_EPOCH \in Nat BY LightClientAssumption
<1> QED BY <1>1, LatestStays DEF CheckpointAt

\* Later slots and epochs are not of earlier periods; a period starts at a multiple of its length.
LEMMA PeriodOfEpochMonotone ==
    ASSUME NEW a \in Nat, NEW b \in Nat, a <= b
    PROVE  PeriodOfEpoch(a) \in Nat /\ PeriodOfEpoch(b) \in Nat /\ PeriodOfEpoch(a) <= PeriodOfEpoch(b)
BY LightClientAssumption, DivisionMonotone DEF PeriodOfEpoch, LC!SyncPeriodAtEpoch

LEMMA PeriodMonotone ==
    ASSUME NEW a \in Nat, NEW b \in Nat, a <= b
    PROVE  Period(a) \in Nat /\ Period(b) \in Nat /\ Period(a) <= Period(b)
<1>1. /\ a \div SLOTS_PER_EPOCH \in Nat /\ b \div SLOTS_PER_EPOCH \in Nat
      /\ a \div SLOTS_PER_EPOCH <= b \div SLOTS_PER_EPOCH
  BY LightClientAssumption, DivisionMonotone
<1> QED BY <1>1, PeriodOfEpochMonotone DEF Period, PeriodOfEpoch, LC!SyncPeriodAtSlot

LEMMA DivisionExact ==
    ASSUME NEW q \in Nat, NEW n \in Nat \ {0}
    PROVE  (q * n) \div n = q
<1> DEFINE a == q * n
           d == a \div n
<1>1. a \in Nat OBVIOUS
<1>2. d \in Int /\ n * d <= a /\ a < n * d + n
  <2> HIDE DEF a
  <2> QED BY <1>1
<1>3. a = n * q OBVIOUS
<1> HIDE DEF a, d
<1>4. ~(d > q)
  <2>1. SUFFICES ASSUME d >= q + 1 PROVE FALSE BY <1>2
  <2>2. n * (d - q - 1) >= 0 BY <1>2, <2>1
  <2>3. n * (d - q - 1) = n * d - n * q - n BY <1>2
  <2> QED BY <1>1, <1>2, <1>3, <2>2, <2>3
<1>5. ~(d < q)
  <2>1. SUFFICES ASSUME q >= d + 1 PROVE FALSE BY <1>2
  <2>2. n * (q - d - 1) >= 0 BY <1>2, <2>1
  <2>3. n * (q - d - 1) = n * q - n * d - n BY <1>2
  <2> QED BY <1>1, <1>2, <1>3, <2>2, <2>3
<1> QED BY <1>2, <1>4, <1>5 DEF d, a

LEMMA PeriodStart ==
    ASSUME NEW q \in Nat
    PROVE  Period(q * SLOTS_PER_EPOCH * EPOCHS_PER_SYNC_COMMITTEE_PERIOD) = q
<1>0. SLOTS_PER_EPOCH \in Nat \ {0} /\ EPOCHS_PER_SYNC_COMMITTEE_PERIOD \in Nat \ {0}
  BY LightClientAssumption
<1> DEFINE m == q * EPOCHS_PER_SYNC_COMMITTEE_PERIOD
<1>1. m \in Nat BY <1>0
<1>2. q * SLOTS_PER_EPOCH * EPOCHS_PER_SYNC_COMMITTEE_PERIOD = m * SLOTS_PER_EPOCH BY <1>0
<1>3. m \div EPOCHS_PER_SYNC_COMMITTEE_PERIOD = q BY <1>0, DivisionExact
<1> HIDE DEF m
<1>4. (m * SLOTS_PER_EPOCH) \div SLOTS_PER_EPOCH = m BY <1>0, <1>1, DivisionExact
<1> QED BY <1>2, <1>3, <1>4 DEF Period, LC!SyncPeriodAtSlot, LC!SyncPeriodAtEpoch

\* A new block leaves what was known of the chain as it was.
LEMMA GoodStays ==
    ASSUME NEW fin, NEW n, ChainOK(fin, n), NEW e, NEW u, Good(fin, u)
    PROVE  Good(LC!Put(fin, n + 1, e), u)
<1>1. ASSUME u.finalityHeader # 0
      PROVE  /\ u.finalityHeader \in DOMAIN LC!Put(fin, n + 1, e)
             /\ CheckpointAt(LC!Put(fin, n + 1, e), LC!Put(fin, n + 1, e)[u.finalityHeader]) = u.header
  <2> DEFINE f == u.finalityHeader
             new == LC!Put(fin, n + 1, e)
  <2>1. f \in DOMAIN fin /\ CheckpointAt(fin, fin[f]) = u.header BY <1>1 DEF Good
  <2>2. n \in Nat /\ f \in 0 .. n /\ fin[f] \in Nat /\ fin[f] * SLOTS_PER_EPOCH <= f BY <2>1 DEF ChainOK
  <2>3. new[f] = fin[f] /\ f \in DOMAIN new BY <2>1, <2>2 DEF LC!Put
  <2>4. fin[f] * SLOTS_PER_EPOCH <= n
    <3>1. fin[f] * SLOTS_PER_EPOCH \in Nat BY <2>2, LightClientAssumption
    <3> QED BY <2>2, <3>1
  <2>5. CheckpointAt(new, fin[f]) = CheckpointAt(fin, fin[f]) BY <2>2, <2>4, CheckpointStays
  <2> QED BY <2>1, <2>3, <2>5
<1> QED BY <1>1 DEF Good

LEMMA StoredStays ==
    ASSUME NEW fin, NEW n, ChainOK(fin, n), NEW e, NEW stored, StoredOK(fin, n, stored)
    PROVE  StoredOK(LC!Put(fin, n + 1, e), n + 1, stored)
<1>1. n \in Nat BY DEF ChainOK
<1>2. ASSUME NEW f, Past(f, n)
      PROVE  Past(f, n + 1) /\ CheckpointAt(LC!Put(fin, n + 1, e), f) = CheckpointAt(fin, f)
  <2>1. f * SLOTS_PER_EPOCH \in Nat BY <1>2, LightClientAssumption DEF Past
  <2> QED BY <1>1, <1>2, <2>1, CheckpointStays DEF Past
<1> QED BY <1>2 DEF StoredOK

LEMMA ProofsStay ==
    ASSUME NEW fin, NEW n, ChainOK(fin, n), NEW e, NEW proofs, NEW periods, ProofsOK(fin, n, proofs, periods)
    PROVE  ProofsOK(LC!Put(fin, n + 1, e), n + 1, proofs, periods)
<1>1. n \in Nat BY DEF ChainOK
<1>2. ASSUME NEW f, Past(f, n)
      PROVE  Past(f, n + 1) /\ CheckpointAt(LC!Put(fin, n + 1, e), f) = CheckpointAt(fin, f)
  <2>1. f * SLOTS_PER_EPOCH \in Nat BY <1>2, LightClientAssumption DEF Past
  <2> QED BY <1>1, <1>2, <2>1, CheckpointStays DEF Past
<1> QED BY <1>2 DEF ProofsOK

LEMMA HandlerStays ==
    ASSUME NEW fin, NEW n, ChainOK(fin, n), NEW e, NEW stored, NEW h, HandlerOK(fin, stored, h)
    PROVE  HandlerOK(LC!Put(fin, n + 1, e), stored, h)
<1> DEFINE new == LC!Put(fin, n + 1, e)
           b == h.attested
<1>1. b \in DOMAIN fin BY DEF HandlerOK
<1>2. n \in Nat /\ b \in 0 .. n /\ fin[b] \in Nat /\ fin[b] * SLOTS_PER_EPOCH <= b BY <1>1 DEF ChainOK
<1>3. new[b] = fin[b] /\ b \in DOMAIN new BY <1>1, <1>2 DEF LC!Put
<1>4. fin[b] * SLOTS_PER_EPOCH <= n
  <2>1. fin[b] * SLOTS_PER_EPOCH \in Nat BY <1>2, LightClientAssumption
  <2> QED BY <1>2, <2>1
<1>5. CheckpointAt(new, fin[b]) = CheckpointAt(fin, fin[b]) BY <1>2, <1>4, CheckpointStays
<1> HIDE DEF new
<1>6. HandlerOK(new, stored, h) BY <1>3, <1>5 DEF HandlerOK
<1> QED BY <1>6 DEF new

\* What an imported block finalizes began before it.
LEMMA FinalizedIsPast ==
    ASSUME NEW fin, NEW n, ChainOK(fin, n), NEW before, before = fin[Latest(fin, n)],
           NEW e \in {LC!Max({before, ((n + 1) \div SLOTS_PER_EPOCH) - 2}), before}
    PROVE  e \in Nat /\ e * SLOTS_PER_EPOCH <= n + 1 /\ (e # before => Past(e, n + 1))
<1>1. n \in Nat BY DEF ChainOK
<1>2. Latest(fin, n) \in DOMAIN fin /\ Latest(fin, n) <= n /\ Latest(fin, n) \in Nat
  BY <1>1, LatestFacts
<1>3. before \in Nat /\ before * SLOTS_PER_EPOCH <= Latest(fin, n) BY <1>2 DEF ChainOK
<1> DEFINE d == (n + 1) \div SLOTS_PER_EPOCH
<1>4. d \in Int /\ SLOTS_PER_EPOCH * d <= n + 1 BY <1>1, LightClientAssumption
<1> HIDE DEF d
<1>5. e \in {d - 2, before} /\ (e # before => e > before)
  <2> DEFINE S == {before, d - 2}
  <2>1. \E x \in S : \A y \in S : x >= y BY <1>3, <1>4
  <2>2. LC!Max(S) \in S /\ \A y \in S : LC!Max(S) >= y
    <3> HIDE DEF S
    <3> QED BY <2>1 DEF LC!Max
  <2>3. LC!Max(S) \in Int BY <1>3, <1>4, <2>2
  <2>4. e \in {LC!Max(S), before} BY DEF d
  <2> QED BY <1>3, <1>4, <2>2, <2>3, <2>4
<1>6. before * SLOTS_PER_EPOCH <= n + 1
  <2>1. before * SLOTS_PER_EPOCH \in Nat BY <1>3, LightClientAssumption
  <2> QED BY <1>1, <1>2, <1>3, <2>1
<1>7. CASE e = before BY <1>3, <1>6, <1>7
<1>8. CASE e # before
  <2>1. e = d - 2 /\ e > before BY <1>5, <1>8
  <2>2. e \in Nat \ {0} BY <1>3, <1>4, <2>1
  <2>3. e * SLOTS_PER_EPOCH = SLOTS_PER_EPOCH * d - 2 * SLOTS_PER_EPOCH
    BY <1>4, <2>1, LightClientAssumption
  <2>4. SLOTS_PER_EPOCH * d \in Int /\ e * SLOTS_PER_EPOCH \in Int BY <1>4, <2>2, LightClientAssumption
  <2>5. e * SLOTS_PER_EPOCH <= n + 1 BY <1>1, <1>4, <2>3, <2>4, LightClientAssumption
  <2> QED BY <2>2, <2>5 DEF Past
<1> QED BY <1>7, <1>8

\* A block is imported.
LEMMA ImportKeeps ==
    ASSUME LightInv, NEW bits \in BitCounts, LC!ImportBlock(bits)
    PROVE  LightInv'
<1> DEFINE before == r2[Latest(r2, r1)]
<1>0. ChainOK(r2, r1) /\ r1 \in Nat BY DEF LightInv, ChainOK
<1>1. PICK e : /\ e \in {LC!Max({before, ((r1 + 1) \div SLOTS_PER_EPOCH) - 2}), before}
               /\ r2' = LC!Put(r2, r1 + 1, e) /\ r3' = r3 \cup ({e} \ {before})
  BY DEF LC!ImportBlock, LC!BlockAt, LC!Blocks, LC!Newest, Latest, LC!Max
<1>2. /\ r1' = r1 + 1 /\ r5' = r5 /\ r6' = r6 /\ r7' = r7 /\ r9' = r9 /\ r10' = r10 /\ r11' = r11
      /\ LC!OnHead(r1 + 1, bits, DOMAIN r2)
  BY DEF LC!ImportBlock, LC!Blocks
<1>3. e \in Nat /\ e * SLOTS_PER_EPOCH <= r1 + 1 /\ (e # before => Past(e, r1 + 1))
  BY <1>0, <1>1, FinalizedIsPast
<1>4. ChainOK(r2', r1')
  <2>1. DOMAIN r2' = DOMAIN r2 \cup {r1 + 1} /\ \A b \in DOMAIN r2' : r2'[b] = IF b = r1 + 1 THEN e ELSE r2[b]
    BY <1>1 DEF LC!Put
  <2> QED BY <1>0, <1>2, <1>3, <2>1 DEF ChainOK
<1>5. \A f \in r3' : Past(f, r1')
  <2>1. ASSUME NEW f \in r3 PROVE Past(f, r1 + 1)
    <3>1. Past(f, r1) BY DEF LightInv
    <3>2. f * SLOTS_PER_EPOCH \in Nat BY <3>1, LightClientAssumption DEF Past
    <3> QED BY <1>0, <3>1, <3>2 DEF Past
  <2> QED BY <1>1, <1>2, <1>3, <2>1
<1>6. StoredOK(r2', r1', r5') BY <1>0, <1>1, <1>2, StoredStays DEF LightInv
<1>7. \A p \in DOMAIN r6' : Good(r2', r6'[p]) BY <1>0, <1>1, <1>2, GoodStays DEF LightInv
<1>8. r7' # LC!None => Good(r2', r7') BY <1>0, <1>1, <1>2, GoodStays DEF LightInv
<1>9. ProofsOK(r2', r1', r9', r10') BY <1>0, <1>1, <1>2, ProofsStay DEF LightInv
<1>10. \A h \in r8' : HandlerOK(r2', r5', h)
  <2> DEFINE attested == LC!Max({c \in DOMAIN r2 : c < r1 + 1})
             new == [slot |-> r1 + 1, attested |-> attested, bits |-> bits, step |-> "finalized", prev |-> LC!None]
  <2>1. r8' \subseteq r8 \cup {new} BY <1>2 DEF LC!OnHead
  <2>2. \A h \in r8 : HandlerOK(r2', r5', h) BY <1>0, <1>1, <1>2, HandlerStays DEF LightInv
  <2>3. attested = Latest(r2, r1)
    <3>1. {c \in DOMAIN r2 : c < r1 + 1} = {c \in DOMAIN r2 : c <= r1} BY <1>0 DEF ChainOK
    <3> QED BY <3>1, Zenon DEF Latest, LC!Max
  <2>4. attested \in DOMAIN r2 /\ attested <= r1 /\ attested \in Nat BY <1>0, <2>3, LatestFacts
  <2>5. attested \in DOMAIN r2' BY <1>1, <2>4 DEF LC!Put
  <2> HIDE DEF attested
  <2>6. HandlerOK(r2', r5', new) BY <1>0, <2>4, <2>5, LightClientAssumption DEF HandlerOK
  <2> QED BY <2>1, <2>2, <2>6
<1>11. ClientOK(r11') BY <1>2 DEF LightInv
<1> QED BY <1>4, <1>5, <1>6, <1>7, <1>8, <1>9, <1>10, <1>11 DEF LightInv

\* A slot without block.
LEMMA SkipKeeps ==
    ASSUME LightInv, LC!SkipSlot
    PROVE  LightInv'
<1>1. /\ r1' = r1 + 1 /\ r2' = r2 /\ r3' = r3 /\ r5' = r5 /\ r6' = r6 /\ r7' = r7 /\ r8' = r8
      /\ r9' = r9 /\ r10' = r10 /\ r11' = r11
  BY DEF LC!SkipSlot, LC!serverVars
<1>2. ChainOK(r2, r1) /\ r1 \in Nat BY DEF LightInv, ChainOK
<1>3. ASSUME NEW f, Past(f, r1) PROVE Past(f, r1 + 1)
  <2>1. f * SLOTS_PER_EPOCH \in Nat BY <1>3, LightClientAssumption DEF Past
  <2> QED BY <1>2, <1>3, <2>1 DEF Past
<1>4. ChainOK(r2, r1 + 1) BY <1>2 DEF ChainOK
<1>5. StoredOK(r2, r1 + 1, r5) BY <1>3 DEF LightInv, StoredOK
<1>6. ProofsOK(r2, r1 + 1, r9, r10) BY <1>3 DEF LightInv, ProofsOK
<1>7. \A e \in r3 : Past(e, r1 + 1) BY <1>3 DEF LightInv
<1> QED BY <1>1, <1>4, <1>5, <1>6, <1>7 DEF LightInv

\* A finalized checkpoint is handled: its data is stored, and the proofs older than the weak
\* subjectivity period are pruned.
LEMMA FinalizedKeeps ==
    ASSUME LightInv, NEW e \in r3, LC!OnFinalized(e)
    PROVE  LightInv'
<1> DEFINE block == CheckpointAt(r2, e)
           period == Period(block)
           ws == LC!Max({0, (block \div SLOTS_PER_EPOCH) - WsPeriod})
<1>0. ChainOK(r2, r1) /\ Past(e, r1) /\ e \in Nat BY DEF LightInv, Past
<1>1. block = LC!CheckpointBlock(e)
  BY DEF LC!CheckpointBlock, LC!BlockAt, LC!Blocks, LC!Max, CheckpointAt, Latest
<1>2. block \in Nat BY <1>0, CheckpointFacts
<1>3. /\ r1' = r1 /\ r2' = r2 /\ r3' = r3 \ {e} /\ r6' = r6 /\ r7' = r7 /\ r8' = r8 /\ r11' = r11
      /\ r5' = LC!Put(r5, e, [header |-> block, state |-> [block |-> block, at |-> e * SLOTS_PER_EPOCH]])
      /\ r9' = LC!Put([f \in {g \in DOMAIN r9 : g >= ws} |-> r9[f]], e, block)
      /\ r10' = {p \in r10 : p >= PeriodOfEpoch(ws)} \cup {period, period + 1}
  BY <1>1 DEF LC!OnFinalized, LC!StoreCheckpoint, LC!StoreInitProof, Period, PeriodOfEpoch
<1>4. ws \in Nat
  <2> DEFINE d == (block \div SLOTS_PER_EPOCH) - WsPeriod
  <2>1. block \div SLOTS_PER_EPOCH \in Nat BY <1>2, LightClientAssumption, DivisionMonotone
  <2>2. d \in Int BY <2>1, LightClientAssumption
  <2> HIDE DEF d
  <2> DEFINE S == {0, d}
  <2>3. \E x \in S : \A y \in S : x >= y BY <2>2
  <2>4. S \subseteq Int /\ 0 \in S BY <2>2
  <2>5. LC!Max(S) \in S /\ LC!Max(S) >= 0
    <3> HIDE DEF S
    <3> QED BY <2>3, <2>4 DEF LC!Max
  <2>6. LC!Max(S) \in Nat BY <2>4, <2>5
  <2> QED BY <2>6 DEF d
<1>5. period \in Nat BY <1>2, PeriodMonotone
<1> HIDE DEF block, period, ws
<1>6. DOMAIN r5' = DOMAIN r5 \cup {e} /\ \A f \in DOMAIN r5' : f # e => r5'[f] = r5[f]
  BY <1>3 DEF LC!Put
<1>7. r5'[e] = [header |-> block, state |-> [block |-> block, at |-> e * SLOTS_PER_EPOCH]]
  BY <1>3 DEF LC!Put
<1>8. StoredOK(r2', r1', r5')
  <2>1. ASSUME NEW f \in DOMAIN r5'
        PROVE  /\ Past(f, r1)
               /\ r5'[f] = [header |-> CheckpointAt(r2, f),
                            state |-> [block |-> CheckpointAt(r2, f), at |-> f * SLOTS_PER_EPOCH]]
    <3>1. CASE f = e BY <1>0, <1>7, <3>1 DEF block
    <3>2. CASE f # e BY <1>6, <3>2 DEF LightInv, StoredOK
    <3> QED BY <3>1, <3>2
  <2> QED BY <1>3, <2>1 DEF StoredOK
<1>9. \A h \in r8' : HandlerOK(r2', r5', h)
  <2>1. DOMAIN r5 \subseteq DOMAIN r5' BY <1>6
  <2> QED BY <1>3, <2>1 DEF LightInv, HandlerOK
<1>10. ProofsOK(r2', r1', r9', r10')
  <2>0. r10 \subseteq Nat BY DEF LightInv, ProofsOK
  <2>1. r10' \subseteq Nat
    <3>1. r10' \subseteq r10 \cup {period, period + 1} BY <1>3
    <3> QED BY <1>5, <2>0, <3>1
  <2>2. /\ DOMAIN r9' = {g \in DOMAIN r9 : g >= ws} \cup {e} /\ r9'[e] = block
        /\ \A f \in DOMAIN r9' : f # e => r9'[f] = r9[f]
    BY <1>3 DEF LC!Put
  <2>3. ASSUME NEW f \in DOMAIN r9'
        PROVE  /\ Past(f, r1) /\ r9'[f] = CheckpointAt(r2, f)
               /\ Period(CheckpointAt(r2, f)) = PeriodOfEpoch(f) =>
                    {PeriodOfEpoch(f), PeriodOfEpoch(f) + 1} \subseteq r10'
    <3>1. CASE f = e BY <1>0, <1>3, <2>2, <3>1 DEF block, period
    <3>2. CASE f # e
      <4>1. f \in DOMAIN r9 /\ f >= ws /\ r9'[f] = r9[f] BY <2>2, <3>2
      <4>2. Past(f, r1) /\ r9[f] = CheckpointAt(r2, f) BY <4>1 DEF LightInv, ProofsOK
      <4>3. ASSUME Period(CheckpointAt(r2, f)) = PeriodOfEpoch(f)
            PROVE  {PeriodOfEpoch(f), PeriodOfEpoch(f) + 1} \subseteq r10'
        <5>1. {PeriodOfEpoch(f), PeriodOfEpoch(f) + 1} \subseteq r10
          BY <4>1, <4>3 DEF LightInv, ProofsOK
        <5>2. f \in Nat BY <4>2 DEF Past
        <5>3. PeriodOfEpoch(ws) \in Nat /\ PeriodOfEpoch(f) \in Nat /\ PeriodOfEpoch(ws) <= PeriodOfEpoch(f)
          BY <1>4, <4>1, <5>2, PeriodOfEpochMonotone
        <5> QED BY <1>3, <5>1, <5>3
      <4> QED BY <4>1, <4>2, <4>3
    <3> QED BY <3>1, <3>2
  <2> QED BY <1>3, <2>1, <2>3 DEF ProofsOK
<1> QED BY <1>3, <1>8, <1>9, <1>10 DEF LightInv

\* The handler of a block reads what is stored.
LEMMA ReadKeeps ==
    ASSUME LightInv, NEW h \in r8, LC!ReadFinalized(h)
    PROVE  LightInv'
<1> DEFINE step == IF LC!HasFinalizedUpdate(h) THEN "putFinalized" ELSE "nonFinalized"
           prev == LC!BestOf(LC!SyncPeriodAtSlot(h.slot))
           new == [h EXCEPT !.step = step, !.prev = prev]
<1>1. /\ r1' = r1 /\ r2' = r2 /\ r3' = r3 /\ r5' = r5 /\ r6' = r6 /\ r7' = r7 /\ r9' = r9 /\ r10' = r10
      /\ r11' = r11 /\ r8' = (r8 \ {h}) \cup {new}
  BY DEF LC!ReadFinalized, LC!Goes
<1>2. HandlerOK(r2, r5, h) BY DEF LightInv
<1>3. /\ DOMAIN new = {"slot", "attested", "bits", "step", "prev"} /\ new.slot = h.slot
      /\ new.attested = h.attested /\ new.bits = h.bits /\ new.step = step
  <2> HIDE DEF step, prev
  <2> QED BY <1>2 DEF HandlerOK
<1>4. step = "putFinalized" => /\ r2[h.attested] \in DOMAIN r5
                               /\ Period(CheckpointAt(r2, r2[h.attested])) = Period(h.slot)
  <2>1. SUFFICES ASSUME LC!HasFinalizedUpdate(h)
                 PROVE  /\ r2[h.attested] \in DOMAIN r5
                        /\ Period(CheckpointAt(r2, r2[h.attested])) = Period(h.slot)
    OBVIOUS
  <2>2. r2[h.attested] \in DOMAIN r5 /\ Period(r5[r2[h.attested]].header) = Period(h.slot)
    BY <2>1 DEF LC!HasFinalizedUpdate, LC!FinalizedUpdate, Period
  <2>3. r5[r2[h.attested]].header = CheckpointAt(r2, r2[h.attested]) BY <2>2 DEF LightInv, StoredOK
  <2> QED BY <2>2, <2>3
<1> HIDE DEF step, new
<1>5. HandlerOK(r2, r5, new) BY <1>2, <1>3, <1>4 DEF HandlerOK
<1> QED BY <1>1, <1>5 DEF LightInv

\* The best update of a period stays one of the accepted.
LEMMA PutKeepsGood ==
    ASSUME NEW fin, NEW best, \A p \in DOMAIN best : Good(fin, best[p]), NEW period, NEW u, Good(fin, u)
    PROVE  \A p \in DOMAIN LC!Put(best, period, u) : Good(fin, LC!Put(best, period, u)[p])
BY DEF LC!Put

LEMMA PutFinalizedKeeps ==
    ASSUME LightInv, NEW h \in r8, LC!PutFinalized(h)
    PROVE  LightInv'
<1> DEFINE e == r2[h.attested]
           header == CheckpointAt(r2, e)
           new == LC!FinalizedUpdate(h)
<1>0. ChainOK(r2, r1) BY DEF LightInv
<1>1. /\ r1' = r1 /\ r2' = r2 /\ r3' = r3 /\ r5' = r5 /\ r9' = r9 /\ r10' = r10 /\ r11' = r11
      /\ r8' = r8 \ {h} /\ r7' \in {r7, new} /\ h.step = "putFinalized"
      /\ r6' \in {r6, LC!Put(r6, LC!SyncPeriodAtSlot(new.header), new)}
  BY DEF LC!PutFinalized, LC!PutBest
<1>2. HandlerOK(r2, r5, h) BY DEF LightInv
<1>3. /\ h.slot \in Nat /\ h.attested \in DOMAIN r2 /\ h.attested <= h.slot /\ h.bits \in Nat
      /\ e \in DOMAIN r5 /\ Period(header) = Period(h.slot)
  BY <1>1, <1>2 DEF HandlerOK
<1>4. r5[e] = [header |-> header, state |-> [block |-> header, at |-> e * SLOTS_PER_EPOCH]]
  BY <1>3 DEF LightInv, StoredOK
<1>5. new = [header |-> header, nextOf |-> [block |-> header, at |-> e * SLOTS_PER_EPOCH],
             finalityHeader |-> h.attested, bits |-> h.bits, signedAt |-> h.slot]
  <2> HIDE DEF header
  <2> QED BY <1>4 DEF LC!FinalizedUpdate
<1>6. h.attested \in Nat /\ e \in Nat /\ e * SLOTS_PER_EPOCH <= h.attested BY <1>0, <1>3 DEF ChainOK
<1>7. header \in Nat /\ header <= e * SLOTS_PER_EPOCH /\ e * SLOTS_PER_EPOCH \in Nat
  BY <1>0, <1>6, CheckpointFacts
<1> HIDE DEF header, new, e
<1>8. Period(h.attested) = Period(header)
  <2>1. header <= h.attested BY <1>6, <1>7
  <2>2. Period(header) <= Period(h.attested) /\ Period(header) \in Nat /\ Period(h.attested) \in Nat
    BY <1>6, <1>7, <2>1, PeriodMonotone
  <2>3. Period(h.attested) <= Period(h.slot) BY <1>3, <1>6, PeriodMonotone
  <2> QED BY <1>3, <2>2, <2>3
<1>9. Good(r2, new)
  <2>1. /\ new.header = header /\ new.bits = h.bits /\ new.signedAt = h.slot /\ new.finalityHeader = h.attested
        /\ new.nextOf = [block |-> header, at |-> e * SLOTS_PER_EPOCH]
    BY <1>5
  <2>2. new.nextOf.at = new.header => new.nextOf = [block |-> new.header, at |-> new.header] BY <2>1
  <2>3. CheckpointAt(r2, r2[new.finalityHeader]) = new.header BY <2>1 DEF header, e
  <2> QED BY <1>3, <1>7, <1>8, <2>1, <2>2, <2>3 DEF Good
<1>10. \A p \in DOMAIN r6' : Good(r2, r6'[p])
  <2>1. \A p \in DOMAIN r6 : Good(r2, r6[p]) BY DEF LightInv
  <2> QED BY <1>1, <1>9, <2>1, PutKeepsGood
<1>11. r7' # LC!None => Good(r2, r7') BY <1>1, <1>9 DEF LightInv
<1> QED BY <1>1, <1>10, <1>11 DEF LightInv

LEMMA PutNonFinalizedKeeps ==
    ASSUME LightInv, NEW h \in r8, LC!PutNonFinalized(h)
    PROVE  LightInv'
<1> DEFINE new == LC!NonFinalizedUpdate(h)
           put == LC!Put(r6, LC!SyncPeriodAtSlot(h.attested), new)
<1>1. /\ r1' = r1 /\ r2' = r2 /\ r3' = r3 /\ r5' = r5 /\ r7' = r7 /\ r9' = r9 /\ r10' = r10 /\ r11' = r11
      /\ r8' = r8 \ {h}
      /\ r6' = r6 \/ (r6' = put /\ Period(h.attested) = Period(h.slot))
  BY DEF LC!PutNonFinalized, LC!PutBest, Period
<1>2. HandlerOK(r2, r5, h) /\ ChainOK(r2, r1) BY DEF LightInv
<1>3. h.attested \in Nat /\ h.bits \in Nat BY <1>2 DEF HandlerOK, ChainOK
<1>4. /\ new.header = h.attested /\ new.bits = h.bits /\ new.signedAt = h.slot /\ new.finalityHeader = 0
      /\ new.nextOf = [block |-> h.attested, at |-> h.attested]
  BY DEF LC!NonFinalizedUpdate
<1> HIDE DEF new
<1>5. Period(h.attested) = Period(h.slot) => Good(r2, new) BY <1>3, <1>4 DEF Good
<1>6. \A p \in DOMAIN r6' : Good(r2, r6'[p])
  <2>1. \A p \in DOMAIN r6 : Good(r2, r6[p]) BY DEF LightInv
  <2> QED BY <1>1, <1>5, <2>1, PutKeepsGood
<1> QED BY <1>1, <1>6 DEF LightInv

\* A client starts from a proof, and takes an update or not.
LEMMA StartKeeps ==
    ASSUME LightInv, NEW e \in DOMAIN r9, LC!InitializeFromCheckpoint(e)
    PROVE  LightInv'
<1> DEFINE header == LC!CheckpointBlock(e)
           proof == LC!GetInitProofByEpoch(e)
<1>0. header \in Nat
  <2>1. header = CheckpointAt(r2, e)
    BY DEF LC!CheckpointBlock, LC!BlockAt, LC!Blocks, LC!Max, CheckpointAt, Latest
  <2>2. ChainOK(r2, r1) /\ e \in Nat BY DEF LightInv, ProofsOK, Past
  <2> QED BY <2>1, <2>2, CheckpointFacts
<1>1. /\ r1' = r1 /\ r2' = r2 /\ r3' = r3 /\ r5' = r5 /\ r6' = r6 /\ r7' = r7 /\ r8' = r8
      /\ r9' = r9 /\ r10' = r10
      /\ r11' = [snapshot |-> [header |-> header, current |-> proof.current, next |-> proof.next], best |-> LC!NoMap]
      /\ proof = [block |-> header, current |-> Period(header), next |-> Period(header) + 1]
  BY DEF LC!InitializeFromCheckpoint, LC!serverVars, LC!Snapshot, LC!IsValidInitProof, Period
<1> HIDE DEF header, proof
<1>2. ClientOK(r11')
  <2>1. r11'.best = LC!NoMap /\ r11'.snapshot = [header |-> header, current |-> proof.current, next |-> proof.next]
        /\ DOMAIN r11' = {"snapshot", "best"}
    BY <1>1
  <2>2. proof.current = Period(header) /\ proof.next = Period(header) + 1 BY <1>1
  <2>3. SnapshotOK(r11'.snapshot) BY <1>0, <2>1, <2>2 DEF SnapshotOK
  <2>4. DOMAIN LC!NoMap = {} BY DEF LC!NoMap
  <2> QED BY <2>1, <2>3, <2>4 DEF ClientOK
<1> QED BY <1>1, <1>2 DEF LightInv

LEMMA ProcessKeeps ==
    ASSUME NEW c, c # LC!None, ClientOK(c), NEW u, u.header \in Nat
    PROVE  ClientOK(LC!ProcessLightClientUpdate(c, u))
<1> DEFINE s == c.snapshot
           period == Period(u.header)
           old == Period(s.header)
           better == period \notin DOMAIN c.best \/ u.bits >= c.best[period].bits
           best == IF better THEN LC!Put(c.best, period, u) ELSE c.best
<1>1. /\ DOMAIN c = {"snapshot", "best"} /\ DOMAIN s = {"header", "current", "next"}
      /\ s.current = old /\ s.next = old + 1 
      /\ s.header \in Nat /\ \A p \in DOMAIN c.best : c.best[p].header \in Nat /\ Period(c.best[p].header) = p
  BY DEF ClientOK, SnapshotOK
<1>2. \A p \in DOMAIN best : best[p].header \in Nat /\ Period(best[p].header) = p BY <1>1 DEF LC!Put
<1>3. /\ DOMAIN LC!Removed(best, period) \subseteq DOMAIN best /\ DOMAIN LC!Removed(best, old) \subseteq DOMAIN best
      /\ \A p \in DOMAIN LC!Removed(best, period) : LC!Removed(best, period)[p] = best[p]
      /\ \A p \in DOMAIN LC!Removed(best, old) : LC!Removed(best, old)[p] = best[p]
  <2> HIDE DEF best
  <2> QED BY DEF LC!Removed
<1> DEFINE applied == [c EXCEPT !.snapshot = LC!ApplyLightClientUpdate(s, u), !.best = LC!Removed(best, period)]
           forced == [c EXCEPT !.snapshot = LC!ApplyLightClientUpdate(s, best[old]), !.best = LC!Removed(best, old)]
           kept == [c EXCEPT !.best = best]
           result == LC!ProcessLightClientUpdate(c, u)
<1>4. \/ result = c
      \/ result = applied /\ LC!ValidateLightClientUpdate(s, u)
      \/ result = forced /\ old \in DOMAIN best
      \/ result = kept
  <2> DEFINE apply == u.bits * 3 >= SYNC_COMMITTEE_SIZE * 2 /\ LC!IsFinalizedUpdate(u)
             force == /\ r1 > s.header + (SLOTS_PER_EPOCH * EPOCHS_PER_SYNC_COMMITTEE_PERIOD)
                      /\ old \in DOMAIN best
  <2>1. result = IF ~LC!ValidateLightClientUpdate(s, u) THEN c
                 ELSE IF apply THEN applied ELSE IF force THEN forced ELSE kept
    BY Zenon DEF LC!ProcessLightClientUpdate, Period
  <2>2. force => old \in DOMAIN best OBVIOUS
  <2> HIDE DEF applied, forced, kept, apply, force, result, best, better
  <2> QED BY <2>1, <2>2
<1> HIDE DEF best, better
<1>5. ASSUME NEW t, SnapshotOK(t), NEW b, \A p \in DOMAIN b : b[p].header \in Nat /\ Period(b[p].header) = p,
             NEW d, DOMAIN d = {"snapshot", "best"}, d.snapshot = t, d.best = b
      PROVE  ClientOK(d)
  BY <1>5 DEF ClientOK
<1>6. CASE result = applied /\ LC!ValidateLightClientUpdate(s, u)
  <2>1. period \in {old, old + 1} /\ u.nextOf.at = u.header
    BY <1>6 DEF LC!ValidateLightClientUpdate, Period
  <2> DEFINE t == LC!ApplyLightClientUpdate(s, u)
  <2>2. SnapshotOK(t)
    <3>1. CASE period = old + 1
      <4>1. t = [header |-> u.header, current |-> s.next, next |-> Period(u.header) + 1]
        BY <2>1, <3>1 DEF LC!ApplyLightClientUpdate, LC!Snapshot, LC!NextCommitteeOf, Period
      <4> HIDE DEF t
      <4> QED BY <1>1, <3>1, <4>1 DEF SnapshotOK
    <3>2. CASE period # old + 1
      <4>1. t = [s EXCEPT !.header = u.header] BY <3>2 DEF LC!ApplyLightClientUpdate, Period
      <4> HIDE DEF t
      <4>2. DOMAIN t = {"header", "current", "next"} /\ t.header = u.header /\ t.current = s.current /\ t.next = s.next
        BY <1>1, <4>1
      <4> QED BY <1>1, <2>1, <3>2, <4>2 DEF SnapshotOK
    <3> QED BY <3>1, <3>2
  <2> HIDE DEF t
  <2>3. DOMAIN applied = {"snapshot", "best"} /\ applied.snapshot = t /\ applied.best = LC!Removed(best, period)
    BY <1>1 DEF t
  <2>4. \A p \in DOMAIN applied.best : applied.best[p].header \in Nat /\ Period(applied.best[p].header) = p
    BY <1>2, <1>3, <2>3
  <2> HIDE DEF applied
  <2>5. ClientOK(applied) BY <1>5, <2>2, <2>3, <2>4
  <2> QED BY <1>6, <2>5
<1>7. CASE result = forced /\ old \in DOMAIN best
  <2> DEFINE v == best[old]
             t == LC!ApplyLightClientUpdate(s, v)
  <2>1. v.header \in Nat /\ Period(v.header) = old BY <1>2, <1>7
  <2>2. old # old + 1
    <3>1. old \in Nat BY <1>1, PeriodMonotone
    <3> QED BY <3>1
  <2>3. SnapshotOK(t)
    <3>1. t = [s EXCEPT !.header = v.header] BY <2>1, <2>2 DEF LC!ApplyLightClientUpdate, Period
    <3> HIDE DEF t, v
    <3>2. DOMAIN t = {"header", "current", "next"} /\ t.header = v.header /\ t.current = s.current /\ t.next = s.next
      BY <1>1, <3>1
    <3> QED BY <1>1, <2>1, <3>2 DEF SnapshotOK
  <2> HIDE DEF t
  <2>4. DOMAIN forced = {"snapshot", "best"} /\ forced.snapshot = t /\ forced.best = LC!Removed(best, old)
    BY <1>1 DEF t
  <2>5. \A p \in DOMAIN forced.best : forced.best[p].header \in Nat /\ Period(forced.best[p].header) = p
    BY <1>2, <1>3, <2>4
  <2> HIDE DEF forced
  <2>6. ClientOK(forced) BY <1>5, <2>3, <2>4, <2>5
  <2> QED BY <1>7, <2>6
<1>8. CASE result = kept
  <2>1. DOMAIN kept = {"snapshot", "best"} /\ kept.snapshot = s /\ kept.best = best BY <1>1
  <2>2. SnapshotOK(s) BY DEF ClientOK
  <2> HIDE DEF kept, s
  <2>3. ClientOK(kept) BY <1>2, <1>5, <2>1, <2>2
  <2> QED BY <1>8, <2>3
<1> QED BY <1>4, <1>6, <1>7, <1>8

\* Every step keeps the invariant, and it holds at first.
LEMMA LightKeeps == ASSUME LightInv, [LC!Next]_(LC!vars) PROVE LightInv'
<1>1. CASE UNCHANGED LC!vars BY <1>1 DEF LC!vars, LC!serverVars, LightInv
<1>2. ASSUME NEW u, Good(r2, u), r11 # LC!None, r11' = LC!ProcessLightClientUpdate(r11, u), UNCHANGED <<r1, LC!serverVars>>
      PROVE  LightInv'
  <2>1. ClientOK(r11') BY <1>2, ProcessKeeps DEF LightInv, Good
  <2> QED BY <1>2, <2>1 DEF LC!serverVars, LightInv
<1>3. CASE LC!Sync BY <1>2, <1>3 DEF LC!Sync, LightInv
<1>4. CASE LC!SyncToLatest BY <1>2, <1>4 DEF LC!SyncToLatest, LightInv
<1> QED BY <1>1, <1>3, <1>4, ImportKeeps, SkipKeeps, FinalizedKeeps, ReadKeeps, PutFinalizedKeeps,
           PutNonFinalizedKeeps, StartKeeps DEF LC!Next

LEMMA LightStarts == ASSUME LC!Init PROVE LightInv
<1>1. /\ r1 = 0 /\ r2 = LC!Put(LC!NoMap, 0, 0) /\ r3 = {} /\ r5 = LC!NoMap /\ r6 = LC!NoMap /\ r7 = LC!None
      /\ r8 = {} /\ r9 = LC!NoMap /\ r10 = {} /\ r11 = LC!None
  BY DEF LC!Init
<1>2. DOMAIN LC!NoMap = {} BY DEF LC!NoMap
<1>3. DOMAIN r2 = {0} /\ r2[0] = 0 BY <1>1, <1>2 DEF LC!Put
<1>4. ChainOK(r2, r1)
  <2>1. 0 * SLOTS_PER_EPOCH = 0 BY LightClientAssumption
  <2> QED BY <1>1, <1>3, <2>1 DEF ChainOK
<1> QED BY <1>1, <1>2, <1>4 DEF LightInv, StoredOK, ProofsOK, ClientOK

\* What the invariant says of a client of the period of an update or of the one before it.
LEMMA GoodIsAccepted ==
    ASSUME LightInv, NEW u, Good(r2, u), u.bits > 0, u.nextOf.at = u.header,
           NEW q \in Nat, Period(u.header) \in {q, q + 1}
    PROVE  LC!ValidateLightClientUpdate(
             LC!Snapshot(q * SLOTS_PER_EPOCH * EPOCHS_PER_SYNC_COMMITTEE_PERIOD, q, q + 1), u)
<1> DEFINE s == LC!Snapshot(q * SLOTS_PER_EPOCH * EPOCHS_PER_SYNC_COMMITTEE_PERIOD, q, q + 1)
<1>1. s.header = q * SLOTS_PER_EPOCH * EPOCHS_PER_SYNC_COMMITTEE_PERIOD /\ s.current = q /\ s.next = q + 1
  BY DEF LC!Snapshot
<1>2. Period(s.header) = q BY <1>1, PeriodStart
<1> HIDE DEF s
<1>3. LC!IsFinalizedUpdate(u) => /\ LC!CheckpointBlock(r2[u.finalityHeader]) = u.header
                                 /\ Period(u.finalityHeader) = Period(u.header)
  BY
     DEF Good, LC!IsFinalizedUpdate, LC!CheckpointBlock, LC!BlockAt, LC!Blocks, LC!Max, CheckpointAt,
     Latest
<1>4. u.nextOf = [block |-> u.header, at |-> u.header] /\ Period(u.header) = Period(u.signedAt)
  BY DEF Good
<1>5. LC!ValidateLightClientUpdate(s, u)
  BY <1>1, <1>2, <1>3, <1>4 DEF LC!ValidateLightClientUpdate, Period
<1> QED BY <1>5 DEF s

\* What the light client server offers, a client accepts, and a client knows the committees of
\* its header's period and of the next: an update is of the period of the committee that signed
\* it, its finality proof is one of its header, and the proof of a checkpoint keeps the
\* committees it needs; for any lengths of epochs and periods, empty slots, finality that
\* stalls, participation, and orders in which blocks and checkpoints are handled.
THEOREM ServedStaysAccepted == MCSpec => []ServedIsAccepted
<1> DEFINE Inv == part = "lightclient" => LightInv
<1>1. MCInit => Inv BY LightStarts DEF MCInit
<1>2. Inv /\ [MCNext]_allVars => Inv'
  <2> SUFFICES ASSUME Inv, [MCNext]_allVars, part' = "lightclient" PROVE LightInv' OBVIOUS
  <2>1. part = "lightclient" BY DEF MCNext, allVars
  <2>2. CASE UNCHANGED allVars
    <3>1. UNCHANGED LC!vars BY <2>2 DEF allVars, registers, from4, LC!vars, LC!serverVars
    <3> QED BY <2>1, <3>1, LightKeeps
  <2>3. CASE MCNext
    <3>1. LC!Next BY <2>1, <2>3 DEF MCNext
    <3> QED BY <2>1, <3>1, LightKeeps
  <2> QED BY <2>2, <2>3
<1>3. Inv => ServedIsAccepted
  <2> SUFFICES ASSUME LightInv PROVE LC!ServedIsAccepted /\ LC!CommitteesMatchHeader
    BY DEF ServedIsAccepted
  <2>1. ASSUME NEW u \in LC!Served, u.bits > 0, u.nextOf.at = u.header,
               NEW q \in {LC!SyncPeriodAtSlot(u.header) - 1, LC!SyncPeriodAtSlot(u.header)}, q >= 0
        PROVE  LC!ValidateLightClientUpdate(
                 LC!Snapshot(q * SLOTS_PER_EPOCH * EPOCHS_PER_SYNC_COMMITTEE_PERIOD, q, q + 1), u)
    <3>1. Good(r2, u) BY DEF LC!Served, LightInv
    <3>2. Period(u.header) \in Nat BY <3>1, PeriodMonotone DEF Good
    <3>3. q \in Nat /\ Period(u.header) \in {q, q + 1} BY <2>1, <3>2 DEF Period
    <3> QED BY <2>1, <3>1, <3>3, GoodIsAccepted
  <2>2. ASSUME NEW e \in DOMAIN r9, LC!SyncPeriodAtSlot(LC!CheckpointBlock(e)) = LC!SyncPeriodAtEpoch(e)
        PROVE  LC!IsValidInitProof(LC!GetInitProofByEpoch(e), LC!CheckpointBlock(e))
    <3> DEFINE b == LC!CheckpointBlock(e)
    <3>1. b = CheckpointAt(r2, e)
      BY DEF LC!CheckpointBlock, LC!BlockAt, LC!Blocks, LC!Max, CheckpointAt, Latest
    <3>2. Period(b) = PeriodOfEpoch(e) BY <2>2 DEF Period, PeriodOfEpoch
    <3>3. r9[e] = b /\ {PeriodOfEpoch(e), PeriodOfEpoch(e) + 1} \subseteq r10
      BY <3>1, <3>2 DEF LightInv, ProofsOK
    <3> HIDE DEF b
    <3>4. LC!GetInitProofByEpoch(e) = [block |-> b, current |-> Period(b), next |-> Period(b) + 1]
      BY <3>2, <3>3 DEF LC!GetInitProofByEpoch, PeriodOfEpoch
    <3>5. LC!IsValidInitProof(LC!GetInitProofByEpoch(e), b)
      <4>1. LC!GetInitProofByEpoch(e) # LC!None BY <3>4 DEF LC!None
      <4> QED BY <3>4, <4>1 DEF LC!IsValidInitProof, Period
    <3> QED BY <3>5 DEF b
  <2>3. LC!ServedIsAccepted BY <2>1, <2>2 DEF LC!ServedIsAccepted
  <2>4. LC!CommitteesMatchHeader
    BY DEF LightInv, ClientOK, SnapshotOK, LC!CommitteesMatchHeader, Period
  <2> QED BY <2>3, <2>4
<1> QED BY <1>1, <1>2, <1>3, PTL DEF MCSpec
=============================================================================
