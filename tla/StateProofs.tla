---------------------------- MODULE StateProofs -----------------------------
(***************************************************************************)
(* Proofs about the beacon state, for every value of the constants:        *)
(* finality; participation and rewards; the cached vectors.                *)
(***************************************************************************)
EXTENDS MCState, SequenceTheorems, WellFoundedInduction, TLAPS

-----------------------------------------------------------------------------
(* Finality. *)

\* The inductive invariant.
Inv ==
    /\ TypeOK
    /\ CheckpointsOrdered
    /\ FinalizedHasJustifiedChild
    /\ JustifiedOnChain
    /\ BitsAreHistory

(* Inv is inductive, for every number of epochs and every set of roots. *)

\* The genesis state satisfies the invariant.
LEMMA InitInv == Init => Inv
  <1> SUFFICES ASSUME Init PROVE Inv
    OBVIOUS
  <1> USE RootsAssumption, MaxEpochAssumption DEF GENESIS_EPOCH, Checkpoint
  <1>1. PICK genesisRoot \in Roots : state = GenesisState(genesisRoot, Epochs)
    BY DEF Init
  <1>2. epoch = 0 /\ history = {[epoch |-> 0, root |-> 0]}
    BY DEF Init
  <1>3. [epoch |-> 0, root |-> 0] \in Checkpoints
    BY DEF Checkpoints, Epochs
  <1>4. TypeOK
    BY <1>1, <1>2, <1>3 DEF TypeOK, GenesisState, Epochs
  <1> QED
    BY <1>1, <1>2, <1>4 DEF Inv, CheckpointsOrdered, FinalizedHasJustifiedChild,
       JustifiedOnChain, BitsAreHistory, GenesisState

\* The end of an epoch preserves the invariant, and moves no checkpoint back.
LEMMA EndEpochStep ==
  ASSUME Inv, NEW prevTarget \in BOOLEAN, NEW currTarget \in BOOLEAN, NEW root \in Roots,
         EndEpoch(prevTarget, currTarget, root)
  PROVE  /\ Inv'
         /\ state'.finalized.epoch >= state.finalized.epoch
         /\ state'.finalized # state.finalized => state'.finalized.epoch > state.finalized.epoch
         /\ state'.currentJustified.epoch >= state.currentJustified.epoch
  <1> DEFINE P == ProcessJustificationAndFinalization(state, epoch, prevTarget, currTarget)
             roots == [e \in Epochs |-> IF e <= epoch THEN state.blockRoots[e] ELSE root]
             now == JustifiedNow(prevTarget, currTarget)
             at(e) == Checkpoint(e, state.blockRoots[e])
             justified == IF currTarget THEN at(epoch)
                          ELSE IF prevTarget THEN at(epoch - 1) ELSE state.currentJustified
             bits == {i \in 1..4 : \/ i = 1 /\ currTarget
                                   \/ i = 2 /\ prevTarget
                                   \/ i - 1 \in state.bits}
  <1> USE RootsAssumption, MaxEpochAssumption DEF GENESIS_EPOCH
  <1>1. /\ epoch \in Nat /\ epoch < MaxEpoch /\ epoch' = epoch + 1
        /\ epoch \in Epochs /\ epoch + 1 \in Epochs
    BY DEF EndEpoch, Inv, TypeOK, Epochs
  <1>2. history' = history \union now
    BY DEF EndEpoch
  <1>3. /\ state.previousJustified \in Checkpoints /\ state.currentJustified \in Checkpoints
        /\ state.finalized \in Checkpoints /\ state.bits \subseteq 1..4
        /\ state.blockRoots \in [Epochs -> Roots] /\ history \subseteq Checkpoints
    BY DEF Inv, TypeOK
  <1>4. \A c \in Checkpoints : c.epoch \in Nat /\ c.epoch \in Epochs
    BY DEF Checkpoints, Epochs
  <1>5. \A e \in Epochs : at(e) \in Checkpoints /\ at(e).epoch = e /\ at(e).root = state.blockRoots[e]
    BY <1>3 DEF Checkpoint, Checkpoints
  <1>6. roots \in [Epochs -> Roots] /\ \A e \in Epochs : e <= epoch => roots[e] = state.blockRoots[e]
    BY <1>3
  <1>7. \A c \in history : c.epoch > 0 => c.epoch < epoch /\ c.root = state.blockRoots[c.epoch]
    BY DEF Inv, JustifiedOnChain
  <1>8. {state.previousJustified, state.currentJustified, state.finalized} \subseteq history
    BY DEF Inv, JustifiedOnChain
  <1>9. /\ state.finalized.epoch <= state.previousJustified.epoch
        /\ state.previousJustified.epoch <= state.currentJustified.epoch
    BY DEF Inv, CheckpointsOrdered
  <1>10. \A i \in state.bits : epoch - i > 0 /\ at(epoch - i) \in history
    BY DEF Inv, BitsAreHistory
  <1>11. \A c \in now : /\ c \in Checkpoints /\ epoch > 1
                        /\ (prevTarget /\ c.epoch = epoch - 1) \/ (currTarget /\ c.epoch = epoch)
                        /\ c.root = state.blockRoots[c.epoch]
    BY DEF JustifiedNow
  <1>12. /\ epoch > 1 /\ prevTarget => at(epoch - 1) \in now
         /\ epoch > 1 /\ currTarget => at(epoch) \in now
    <2>1. epoch > 1 => epoch - 1 \in Epochs
      BY <1>1 DEF Epochs
    <2> QED BY <1>1, <1>5, <2>1 DEF JustifiedNow
  <1>13. history' \subseteq Checkpoints /\ history \subseteq history'
    BY <1>2, <1>3, <1>11
  <1>14. \A c \in history' : c.epoch > 0 => c.epoch < epoch + 1 /\ c.root = roots[c.epoch]
    <2>1. ASSUME NEW c \in history', c.epoch > 0
          PROVE  c.epoch < epoch + 1 /\ c.root = state.blockRoots[c.epoch]
      <3> HIDE DEF now, roots
      <3>1. c.epoch \in Nat
        BY <1>13, <1>4
      <3>2. CASE c \in history
        BY <3>1, <3>2, <2>1, <1>1, <1>7
      <3>3. CASE c \in now
        BY <3>1, <3>3, <1>1, <1>11
      <3> QED BY <1>2, <3>2, <3>3
    <2> HIDE DEF roots
    <2> QED BY <2>1, <1>1, <1>4, <1>6, <1>13
  <1>15. CASE epoch <= 1
    <2>1. state' = [state EXCEPT !.blockRoots = roots]
      BY <1>15 DEF EndEpoch, ProcessJustificationAndFinalization
    <2>2. history' = history
      BY <1>2, <1>11, <1>15, <1>1
    <2> HIDE DEF roots, now
    <2>3. /\ state'.previousJustified = state.previousJustified
          /\ state'.currentJustified = state.currentJustified
          /\ state'.finalized = state.finalized /\ state'.bits = state.bits
          /\ state'.blockRoots = roots
      BY <2>1 DEF Inv, TypeOK
    <2>4. TypeOK'
      BY <1>1, <1>3, <1>6, <2>1, <2>2 DEF Inv, TypeOK
    <2>5. state.bits = {}
      <3>1. \A i \in state.bits : i \in 1..4 /\ epoch - i > 0
        BY <1>3, <1>10
      <3> QED BY <3>1, <1>1, <1>15
    <2>6. CheckpointsOrdered'
      BY <1>1, <1>3, <1>4, <1>9, <2>3 DEF Inv, CheckpointsOrdered
    <2>7. FinalizedHasJustifiedChild'
      BY <2>2, <2>3 DEF Inv, FinalizedHasJustifiedChild
    <2>8. JustifiedOnChain'
      BY <1>1, <1>8, <1>14, <2>2, <2>3 DEF JustifiedOnChain
    <2>9. BitsAreHistory'
      BY <2>3, <2>5 DEF BitsAreHistory
    <2> QED
      BY <1>3, <1>4, <2>3, <2>4, <2>6, <2>7, <2>8, <2>9 DEF Inv
  <1>16. CASE epoch > 1
    <2> DEFINE oldPrevious == state.previousJustified
               oldCurrent == state.currentJustified
               fromCurrent == \/ {1, 2, 3} \subseteq bits /\ oldCurrent.epoch + 2 = epoch
                              \/ {1, 2} \subseteq bits /\ oldCurrent.epoch + 1 = epoch
               fromPrevious == \/ {2, 3, 4} \subseteq bits /\ oldPrevious.epoch + 3 = epoch
                               \/ {2, 3} \subseteq bits /\ oldPrevious.epoch + 2 = epoch
               finalized == IF fromCurrent THEN oldCurrent
                            ELSE IF fromPrevious THEN oldPrevious ELSE state.finalized
    <2>1. P = [state EXCEPT !.previousJustified = oldCurrent, !.currentJustified = justified,
                            !.bits = bits, !.finalized = finalized]
      BY <1>16, <1>1 DEF ProcessJustificationAndFinalization
    <2>2. state' = [P EXCEPT !.blockRoots = roots]
      <3>1. P.blockRoots = state.blockRoots
        BY <2>1 DEF Inv, TypeOK
      <3> QED BY <3>1 DEF EndEpoch
    <2>3. state' = [previousJustified |-> oldCurrent, currentJustified |-> justified,
                    finalized |-> finalized, bits |-> bits, blockRoots |-> roots]
      <3> HIDE DEF P, roots, bits, justified, finalized
      <3> QED BY <2>1, <2>2 DEF Inv, TypeOK
    <2>4. epoch - 1 \in Epochs
      BY <1>1, <1>16 DEF Epochs
    <2>5. /\ justified \in history' /\ oldCurrent.epoch <= justified.epoch
          /\ justified.epoch > 0 => justified.epoch < epoch + 1
      <3> HIDE DEF now
      <3>1. oldCurrent \in history /\ oldCurrent.epoch \in Nat
            /\ (oldCurrent.epoch > 0 => oldCurrent.epoch < epoch)
        BY <1>3, <1>4, <1>7, <1>8
      <3>2. CASE currTarget
        BY <3>1, <3>2, <1>1, <1>2, <1>5, <1>12, <1>16
      <3>3. CASE ~currTarget /\ prevTarget
        BY <3>1, <3>3, <1>1, <1>2, <1>5, <1>12, <1>16, <2>4
      <3>4. CASE ~currTarget /\ ~prevTarget
        BY <3>1, <3>4, <1>1, <1>2
      <3> QED BY <3>2, <3>3, <3>4
    <2>6. \A i \in bits : i \in 1..4 /\ epoch + 1 - i > 0 /\ at(epoch + 1 - i) \in history'
      <3> SUFFICES ASSUME NEW i \in bits
                   PROVE  i \in 1..4 /\ epoch + 1 - i > 0 /\ at(epoch + 1 - i) \in history'
        OBVIOUS
      <3> HIDE DEF now, at
      <3>1. CASE i = 1 /\ currTarget
        BY <3>1, <1>1, <1>2, <1>12, <1>16
      <3>2. CASE i = 2 /\ prevTarget
        BY <3>2, <1>1, <1>2, <1>12, <1>16
      <3>3. CASE i \in 1..4 /\ i - 1 \in state.bits
        <4>1. epoch - (i - 1) = epoch + 1 - i
          BY <3>3, <1>1
        <4> QED BY <3>3, <4>1, <1>1, <1>10, <1>13
      <3> QED BY <3>1, <3>2, <3>3
    <2>7. \/ finalized = state.finalized
          \/ /\ finalized \in {oldPrevious, oldCurrent} /\ finalized.epoch > 0
             /\ \E c \in history' : c.epoch = finalized.epoch + 1
      <3>1. oldCurrent.epoch \in Nat /\ oldPrevious.epoch \in Nat
        BY <1>3, <1>4
      <3>2. \A i \in bits : /\ epoch + 1 - i > 0
                            /\ \E c \in history' : c.epoch = epoch + 1 - i
        <4> SUFFICES ASSUME NEW i \in bits
                     PROVE  epoch + 1 - i > 0 /\ \E c \in history' : c.epoch = epoch + 1 - i
          OBVIOUS
        <4> HIDE DEF bits
        <4>1. i \in 1..4 /\ epoch + 1 - i > 0 /\ at(epoch + 1 - i) \in history'
          BY <2>6
        <4>2. at(epoch + 1 - i).epoch = epoch + 1 - i
          BY DEF Checkpoint
        <4> QED BY <4>1, <4>2
      <3> HIDE DEF bits
      <3>3. CASE fromCurrent
        <4>1. finalized = oldCurrent
          BY <3>3
        <4>2. CASE {1, 2, 3} \subseteq bits /\ oldCurrent.epoch + 2 = epoch
          BY <4>1, <4>2, <3>1, <3>2, <1>1
        <4>3. CASE {1, 2} \subseteq bits /\ oldCurrent.epoch + 1 = epoch
          BY <4>1, <4>3, <3>1, <3>2, <1>1
        <4> QED BY <3>3, <4>2, <4>3
      <3>4. CASE ~fromCurrent /\ fromPrevious
        <4>1. finalized = oldPrevious
          BY <3>4
        <4>2. CASE {2, 3, 4} \subseteq bits /\ oldPrevious.epoch + 3 = epoch
          BY <4>1, <4>2, <3>1, <3>2, <1>1
        <4>3. CASE {2, 3} \subseteq bits /\ oldPrevious.epoch + 2 = epoch
          BY <4>1, <4>3, <3>1, <3>2, <1>1
        <4> QED BY <3>4, <4>2, <4>3
      <3> QED BY <3>3, <3>4
    <2> HIDE DEF bits, justified, finalized, roots, now
    <2>8. /\ state'.previousJustified = oldCurrent /\ state'.currentJustified = justified
          /\ state'.finalized = finalized /\ state'.bits = bits /\ state'.blockRoots = roots
      BY <2>3
    <2>9. finalized \in history /\ finalized.epoch \in Nat /\ justified.epoch \in Nat
      BY <1>3, <1>4, <1>8, <1>13, <2>5, <2>7
    <2>10. TypeOK'
      <3>1. bits \subseteq 1..4
        BY <2>6
      <3> QED BY <1>1, <1>3, <1>6, <1>13, <2>3, <2>5, <2>9, <3>1 DEF TypeOK
    <2>11. finalized.epoch <= oldCurrent.epoch /\ finalized.epoch >= state.finalized.epoch
      BY <1>3, <1>4, <1>9, <2>7
    <2>12. CheckpointsOrdered'
      BY <1>1, <2>5, <2>8, <2>11 DEF CheckpointsOrdered
    <2>13. FinalizedHasJustifiedChild'
      BY <1>13, <2>7, <2>8 DEF Inv, FinalizedHasJustifiedChild
    <2>14. JustifiedOnChain'
      BY <1>1, <1>8, <1>13, <1>14, <2>5, <2>8, <2>9 DEF JustifiedOnChain
    <2>15. BitsAreHistory'
      <3>1. \A i \in bits : /\ epoch' - i > 0
                            /\ Checkpoint(epoch' - i, roots[epoch' - i]) \in history'
        <4> SUFFICES ASSUME NEW i \in bits
                     PROVE  /\ epoch' - i > 0
                            /\ Checkpoint(epoch' - i, roots[epoch' - i]) \in history'
          OBVIOUS
        <4>1. i \in 1..4 /\ epoch + 1 - i > 0 /\ at(epoch + 1 - i) \in history'
          BY <2>6
        <4>2. epoch' - i = epoch + 1 - i /\ epoch + 1 - i \in Epochs /\ epoch + 1 - i <= epoch
          BY <4>1, <1>1 DEF Epochs
        <4> QED BY <4>1, <4>2, <1>6
      <3> QED BY <3>1, <2>8 DEF BitsAreHistory
    <2>16. finalized # state.finalized => finalized.epoch > state.finalized.epoch
      <3> SUFFICES ASSUME finalized # state.finalized, finalized.epoch = state.finalized.epoch
                   PROVE  FALSE
        BY <1>3, <1>4, <2>9, <2>11
      <3>1. finalized.epoch > 0
        BY <2>7
      <3>2. finalized.root = state.finalized.root
        BY <3>1, <1>7, <1>8, <2>9
      <3>3. finalized \in Checkpoints /\ state.finalized \in Checkpoints
        BY <1>3, <2>9
      <3> QED BY <3>2, <3>3 DEF Checkpoints
    <2> QED
      BY <2>5, <2>8, <2>10, <2>11, <2>12, <2>13, <2>14, <2>15, <2>16 DEF Inv
  <1> QED
    BY <1>1, <1>15, <1>16

\* The invariant is inductive: EndEpoch is the only action of the model.
LEMMA InvStep == Inv /\ [Next]_vars => Inv'
  <1> SUFFICES ASSUME Inv, [Next]_vars PROVE Inv'
    OBVIOUS
  <1>1. CASE Next
    BY <1>1, EndEpochStep DEF Next
  <1>2. CASE UNCHANGED vars
    BY <1>2 DEF vars, Inv, TypeOK, CheckpointsOrdered, FinalizedHasJustifiedChild,
       JustifiedOnChain, BitsAreHistory
  <1> QED BY <1>1, <1>2

\* Every reachable beacon state satisfies the invariant.
LEMMA Invariance == Spec => []Inv
  BY InitInv, InvStep, PTL DEF Spec

\* Justification keeps the checkpoints of the state well-formed.
THEOREM TypeCorrect == Spec => []TypeOK
  <1>1. Inv => TypeOK
    BY DEF Inv
  <1> QED BY <1>1, Invariance, PTL

\* For every history of attestations: the checkpoints stand in order behind the
\* current epoch, they were justified on the chain, the epoch after a finalized
\* one was justified, and the bits mean what they stand for.
THEOREM FinalitySafe ==
    Spec => [](CheckpointsOrdered /\ FinalizedHasJustifiedChild /\ JustifiedOnChain /\ BitsAreHistory)
  <1>1. Inv => CheckpointsOrdered /\ FinalizedHasJustifiedChild /\ JustifiedOnChain /\ BitsAreHistory
    BY DEF Inv
  <1> QED BY <1>1, Invariance, PTL

\* No beacon state gives up a finalized checkpoint or moves back a justified one.
THEOREM FinalityNeverReverts == Spec => EpochsOnlyGrow
  <1> DEFINE Grows == /\ state'.finalized.epoch >= state.finalized.epoch
                      /\ state'.finalized # state.finalized =>
                           state'.finalized.epoch > state.finalized.epoch
                      /\ state'.currentJustified.epoch >= state.currentJustified.epoch
  <1>1. Inv /\ [Next]_vars => [Grows]_vars
    <2> SUFFICES ASSUME Inv, Next PROVE Grows
      OBVIOUS
    <2> QED BY EndEpochStep DEF Next
  <1> QED BY <1>1, Invariance, PTL DEF Spec, EpochsOnlyGrow

-----------------------------------------------------------------------------
(* Participation: arithmetic of rewards and penalties. *)

\* The epoch of the next slot.
LEMMA NextEpoch ==
    ASSUME NEW a \in Nat, NEW s \in Nat \ {0}
    PROVE  /\ a \div s \in Nat /\ (a + 1) \div s \in Nat
           /\ (a + 1) % s # 0 => (a + 1) \div s = a \div s
           /\ (a + 1) % s = 0 => (a + 1) \div s = a \div s + 1
<1> DEFINE q == a \div s
           p == (a + 1) \div s
<1>1. q \in Nat /\ p \in Nat /\ s * q <= a /\ a < s * (q + 1) /\ s * p <= a + 1 /\ a + 1 < s * (p + 1)
  OBVIOUS
<1>2. (a + 1) % s = (a + 1) - s * p OBVIOUS
<1> HIDE DEF q, p
<1>3. p >= q
  <2> SUFFICES ASSUME p + 1 <= q PROVE FALSE BY <1>1
  <2>1. s * (p + 1) <= s * q BY <1>1
  <2> QED BY <1>1, <2>1
<1>4. p <= q + 1
  <2> SUFFICES ASSUME p >= q + 2 PROVE FALSE BY <1>1
  <2>1. s * (q + 2) <= s * p /\ s * (q + 2) = s * (q + 1) + s BY <1>1
  <2> QED BY <1>1, <2>1
<1>5. p = q \/ p = q + 1 BY <1>1, <1>3, <1>4
<1>6. p = q => (a + 1) - s * p # 0 BY <1>1
<1>7. p = q + 1 => (a + 1) - s * p = 0 BY <1>1
<1> QED BY <1>1, <1>2, <1>5, <1>6, <1>7 DEF p, q

\* A quotient of natural numbers is a natural number, at most the dividend.
LEMMA Quotient ==
    ASSUME NEW a \in Nat, NEW b \in Nat \ {0}
    PROVE  a \div b \in Nat /\ a \div b <= a
<1> DEFINE q == a \div b
<1>1. q \in Nat /\ b * q <= a OBVIOUS
<1> HIDE DEF q
<1>2. q <= b * q BY <1>1
<1> QED BY <1>1, <1>2 DEF q

LEMMA Product == ASSUME NEW a \in Nat, NEW b \in Nat PROVE a * b \in Nat
OBVIOUS

\* A set of natural numbers that is not empty has a least element.
LEMMA LeastOf ==
    ASSUME NEW T \in SUBSET Nat, T # {}
    PROVE  \E x \in T : \A y \in T : x <= y
<1>1. PICK x \in T : \A y \in T : <<y, x>> \notin OpToRel(<, Nat)
  BY NatLessThanWellFounded, WFMin
<1>2. \A y \in T : ~(y < x) BY <1>1 DEF OpToRel
<1> QED BY <1>2

\* integerSquareRoot of a positive number is positive.
LEMMA SquareRoot ==
    ASSUME NEW n \in Nat \ {0}
    PROVE  Part!IntSqrt(n) \in Nat \ {0}
<1> DEFINE T == {r \in Nat : (r + 1) * (r + 1) > n}
<1>1. n \in T
  <2>1. (n + 1) * (n + 1) >= n + 1 OBVIOUS
  <2> QED BY <2>1
<1>2. PICK r \in T : \A y \in T : r <= y BY <1>1, LeastOf
<1>3. r * r <= n
  <2>1. CASE r = 0 BY <2>1
  <2>2. CASE r > 0
    <3>1. r - 1 \in Nat /\ r - 1 \notin T BY <1>2, <2>2
    <3> QED BY <3>1
  <2> QED BY <2>1, <2>2, <1>2
<1>4. r \in 0..n
  <2>1. r <= r * r BY <1>2
  <2> QED BY <1>2, <1>3, <2>1
<1> DEFINE sqrt == Part!IntSqrt(n)
<1>5. sqrt \in 0..n /\ (sqrt + 1) * (sqrt + 1) > n BY <1>2, <1>3, <1>4 DEF Part!IntSqrt
<1> HIDE DEF sqrt
<1>6. sqrt # 0 BY <1>5
<1> QED BY <1>5, <1>6 DEF sqrt

Added(f, n, S) == IF n = 0 THEN 0 ELSE f[n - 1] + (IF n \in S THEN Eff[n] ELSE 0)

\* The loop over the registry has a result after every validator.
LEMMA SumHasResult ==
    ASSUME NEW S
    PROVE  \A n \in 0..ValidatorCount : \E f : f = [i \in 0..n |-> Added(f, i, S)]
<1> DEFINE Bad == {n \in 0..ValidatorCount : ~\E f : f = [i \in 0..n |-> Added(f, i, S)]}
<1> SUFFICES ASSUME Bad # {} PROVE FALSE OBVIOUS
<1>0. ValidatorCount \in Nat BY ParticipationAssumption
<1>1. PICK n \in Bad : \A m \in Bad : n <= m
  <2>1. Bad \in SUBSET Nat BY <1>0
  <2> HIDE DEF Bad
  <2> QED BY <2>1, LeastOf
<1>2. n \in 0..ValidatorCount /\ n \in Nat BY <1>0
<1>3. CASE n = 0
  <2> DEFINE f == [i \in 0..0 |-> 0]
  <2>1. f = [i \in 0..n |-> Added(f, i, S)] BY <1>3 DEF Added
  <2> QED BY <2>1
<1>4. CASE n > 0
  <2>1. n - 1 \in 0..ValidatorCount /\ n - 1 \notin Bad BY <1>0, <1>1, <1>2, <1>4
  <2>2. PICK g : g = [i \in 0..(n - 1) |-> Added(g, i, S)] BY <2>1
  <2> DEFINE f == [i \in 0..n |-> IF i = n THEN Added(g, n, S) ELSE g[i]]
  <2>3. ASSUME NEW i \in 0..n PROVE f[i] = Added(f, i, S)
    <3>1. i # 0 => f[i - 1] = g[i - 1] BY <1>2, <1>4
    <3>2. Added(f, i, S) = Added(g, i, S)
      <4> HIDE DEF f
      <4> QED BY <3>1 DEF Added
    <3>3. i # n => g[i] = Added(g, i, S) BY <1>2, <2>2
    <3> HIDE DEF Added
    <3> QED BY <3>2, <3>3
  <2>4. f = [i \in 0..n |-> Added(f, i, S)]
    <3> DEFINE h == [i \in 0..n |-> Added(f, i, S)]
    <3>1. \A i \in 0..n : f[i] = h[i]
      <4> HIDE DEF f
      <4> QED BY <2>3
    <3>2. DOMAIN f = 0..n /\ DOMAIN h = 0..n OBVIOUS
    <3> QED BY <3>1, <3>2
  <2> HIDE DEF f
  <2> QED BY <2>4, <1>2
<1> QED BY <1>2, <1>3, <1>4

\* The stake of a set of validators is a natural number.
LEMMA StakeIsNat == ASSUME NEW S PROVE Part!Stake(S) \in Nat
<1> DEFINE N == ValidatorCount
           Solves(f) == f = [i \in 0..N |-> Added(f, i, S)]
           F == CHOOSE f : Solves(f)
           Bad == {i \in 0..N : F[i] \notin Nat}
<1>0. N \in Nat /\ \A i \in 1..N : Eff[i] \in Nat BY ParticipationAssumption
<1>1. Part!Stake(S) = F[N] BY DEF Part!Stake, Added
<1>2. Solves(F)
  <2>1. \E f : Solves(f) BY <1>0, SumHasResult
  <2> QED BY <2>1
<1> HIDE DEF F
<1>3. \A i \in 0..N : F[i] = Added(F, i, S) BY <1>2
<1>4. Bad = {}
  <2> SUFFICES ASSUME Bad # {} PROVE FALSE OBVIOUS
  <2>1. PICK i \in Bad : \A m \in Bad : i <= m
    <3>1. Bad \in SUBSET Nat BY <1>0
    <3> HIDE DEF Bad
    <3> QED BY <3>1, LeastOf
  <2>2. i # 0 BY <1>0, <1>3 DEF Added
  <2>3. i - 1 \in 0..N /\ i \in 1..N /\ i - 1 \notin Bad BY <1>0, <2>1, <2>2
  <2>4. F[i - 1] \in Nat /\ Eff[i] \in Nat BY <1>0, <2>3
  <2>5. F[i] = Added(F, i, S) BY <1>3, <2>3
  <2> QED BY <2>2, <2>4, <2>5 DEF Added
<1> QED BY <1>0, <1>1, <1>4

\* The sums that rewards are divided by are positive.
LEMMA StakesArePositive ==
    ASSUME NEW flags, NEW flag
    PROVE  Part!TotalStake \in Nat \ {0} /\ Part!UnslashedStake(flags, flag) \in Nat \ {0}
<1>1. \A S : Part!Stake(S) \in Nat BY StakeIsNat
<1> QED BY <1>1 DEF Part!TotalStake, Part!UnslashedStake, Part!AtLeast

\* The base rewards of phase0, and the proposer's share, which is a part of it.
LEMMA BaseRewards ==
    ASSUME NEW v \in Part!Validators
    PROVE  /\ Part!BaseReward(v) \in Nat /\ Part!ProposerReward(v) \in Nat
           /\ Part!ProposerReward(v) <= Part!BaseReward(v)
<1> DEFINE root == Part!IntSqrt(Part!TotalStake)
           whole == (Eff[v] * BaseRewardFactor) \div root
<1>1. root \in Nat \ {0} BY StakesArePositive, SquareRoot
<1>2. Eff[v] \in Nat /\ BaseRewardFactor \in Nat /\ BaseRewardsPerEpoch \in Nat \ {0} /\ ProposerQuotient \in Nat \ {0}
  BY ParticipationAssumption DEF Part!Validators
<1>3. Eff[v] * BaseRewardFactor \in Nat BY <1>2, Product
<1>4. whole \in Nat BY <1>1, <1>3, Quotient
<1>5. Part!BaseReward(v) = whole \div BaseRewardsPerEpoch BY DEF Part!BaseReward
<1> HIDE DEF whole
<1>6. Part!BaseReward(v) \in Nat BY <1>2, <1>4, <1>5, Quotient
<1>7. Part!ProposerReward(v) = Part!BaseReward(v) \div ProposerQuotient BY DEF Part!ProposerReward
<1> QED BY <1>2, <1>6, <1>7, Quotient

\* The reward for a flag in phase0: none without the flag, at most a base reward in a leak.
LEMMA CheckpointRewards ==
    ASSUME NEW v \in Part!Validators, NEW flags, NEW flag, NEW leak \in BOOLEAN
    PROVE  /\ Part!CheckpointReward(flags, v, flag, leak) \in Nat
           /\ ~Part!Marked(flags, v, flag) => Part!CheckpointReward(flags, v, flag, leak) = 0
           /\ leak => Part!CheckpointReward(flags, v, flag, leak) <= Part!BaseReward(v)
<1> DEFINE B == Part!BaseReward(v)
           U == Part!UnslashedStake(flags, flag)
           T == Part!TotalStake
           M == Part!Marked(flags, v, flag)
<1>1. B \in Nat BY BaseRewards
<1>2. U \in Nat /\ T \in Nat \ {0} BY StakesArePositive
<1>3. Part!CheckpointReward(flags, v, flag, leak) = IF ~M THEN 0 ELSE IF leak THEN B ELSE (B * U) \div T
  BY DEF Part!CheckpointReward
<1> HIDE DEF B, U, T, M
<1>4. (B * U) \div T \in Nat BY <1>1, <1>2, Product, Quotient
<1> QED BY <1>1, <1>3, <1>4 DEF M, B

Attested(v) == Part!Marked(Part!PrevFlags, v, "source")

Fair(finalized, d, v) ==
    /\ Part!IsInInactivityLeak(finalized) => Part!Net(d, v) <= 0
    /\ v \in r7 \/ Part!PrevFlags[v] = {} => Part!Net(d, v) <= 0
    /\ ~Part!IsInInactivityLeak(finalized) /\ v \notin r7 /\ Part!PrevFlags[v] = Part!Flags => Part!Net(d, v) >= 0

\* What the flags of the last three cases mean for the markers.
LEMMA Markers ==
    ASSUME NEW v \in Part!Validators, NEW f \in Part!Flags
    PROVE  /\ v \in r7 \/ Part!PrevFlags[v] = {} => ~Part!Marked(Part!PrevFlags, v, f)
           /\ v \notin r7 /\ Part!PrevFlags[v] = Part!Flags => Part!Marked(Part!PrevFlags, v, f)
BY DEF Part!Marked

\* Rewards and penalties of phase0 are fair.
LEMMA PhaseZeroIsFair ==
    ASSUME NEW finalized \in Nat, NEW v \in Part!Validators, r1 \in Nat,
           Attested(v) => Part!InclusionDelay(r4.prev, v) \in Nat \ {0}
    PROVE  Fair(finalized, Part!GetAttestationDeltas(finalized), v)
<1> DEFINE leak == Part!IsInInactivityLeak(finalized)
           flags == Part!PrevFlags
           B == Part!BaseReward(v)
           P == Part!ProposerReward(v)
           c(f) == Part!CheckpointReward(flags, v, f, leak)
           M(f) == Part!Marked(flags, v, f)
           m(f) == IF M(f) THEN 0 ELSE B
           delay == Part!InclusionDelay(r4.prev, v)
           inclusion == IF ~M("source") THEN 0 ELSE (B - P) \div delay
           inactive == (Eff[v] * (Part!prevEpoch - finalized)) \div InactivityQuotient
           leaked == B * BaseRewardsPerEpoch - P + IF M("target") THEN 0 ELSE inactive
           d == Part!GetAttestationDeltas(finalized)
<1>1. d.rewards[v] = inclusion + (c("source") + c("target") + c("head"))
  BY DEF Part!GetAttestationDeltas, Part!SumOfFlags
<1>2. d.penalties[v] = (m("source") + m("target") + m("head")) + IF leak THEN leaked ELSE 0
  BY DEF Part!GetAttestationDeltas, Part!SumOfFlags
<1>3. B \in Nat /\ P \in Nat /\ P <= B BY BaseRewards
<1>4. leak \in BOOLEAN BY DEF Part!IsInInactivityLeak
<1>5. \A f : c(f) \in Nat /\ (~M(f) => c(f) = 0) /\ (leak => c(f) <= B) BY <1>4, CheckpointRewards
<1>6. inclusion \in Nat /\ inclusion <= B - P /\ (~M("source") => inclusion = 0)
  <2>1. CASE M("source")
    <3>1. delay \in Nat \ {0} /\ B - P \in Nat BY <1>3, <2>1 DEF Attested
    <3> HIDE DEF delay, B, P, M
    <3> QED BY <2>1, <3>1, Quotient
  <2>2. CASE ~M("source")
    <3> HIDE DEF B, P, M, delay
    <3> QED BY <1>3, <2>2
  <2> QED BY <2>1, <2>2
<1>7. leak => inactive \in Nat
  <2> SUFFICES ASSUME leak PROVE inactive \in Nat OBVIOUS
  <2>0. Part!prevEpoch \in Int
    <3>1. Part!epoch \in Nat BY ParticipationAssumption, NextEpoch DEF Part!epoch
    <3> QED BY <3>1 DEF Part!prevEpoch
  <2>1. Part!prevEpoch - finalized \in Nat BY <2>0, ParticipationAssumption DEF Part!IsInInactivityLeak
  <2>2. Eff[v] \in Nat /\ InactivityQuotient \in Nat \ {0}
    BY ParticipationAssumption DEF Part!Validators
  <2> DEFINE g == Part!prevEpoch - finalized
  <2> HIDE DEF g
  <2>3. Eff[v] * g \in Nat BY <2>1, <2>2, Product DEF g
  <2> QED BY <2>2, <2>3, Quotient DEF g
<1>8. leak => leaked >= 4 * B - P /\ leaked \in Int
  <2> SUFFICES ASSUME leak PROVE leaked >= 4 * B - P /\ leaked \in Int OBVIOUS
  <2>1. BaseRewardsPerEpoch \in Nat /\ BaseRewardsPerEpoch >= 4 BY ParticipationAssumption
  <2>2. inactive \in Nat BY <1>7
  <2> HIDE DEF inactive, B, P, M
  <2>3. B * BaseRewardsPerEpoch >= 4 * B /\ B * BaseRewardsPerEpoch \in Nat BY <1>3, <2>1
  <2> QED BY <1>3, <2>2, <2>3
<1>9. /\ v \in r7 \/ flags[v] = {} => ~M("source") /\ ~M("target") /\ ~M("head")
      /\ v \notin r7 /\ flags[v] = Part!Flags => M("source") /\ M("target") /\ M("head")
  BY Markers DEF Part!Flags
<1>10. Part!Net(d, v) = d.rewards[v] - d.penalties[v] BY DEF Part!Net
<1>11. /\ leak => Part!Net(d, v) <= 0
       /\ v \in r7 \/ flags[v] = {} => Part!Net(d, v) <= 0
       /\ ~leak /\ v \notin r7 /\ flags[v] = Part!Flags => Part!Net(d, v) >= 0
  <2> HIDE DEF leak, flags, B, P, c, M, inclusion, leaked, d
  <2>1. c("source") \in Nat /\ c("target") \in Nat /\ c("head") \in Nat BY <1>5
  <2>2. m("source") \in Nat /\ m("target") \in Nat /\ m("head") \in Nat BY <1>3
  <2>3. \A f : c(f) + m(f) <= B \/ ~leak BY <1>3, <1>5
  <2> HIDE DEF m
  <2>4. ASSUME leak PROVE Part!Net(d, v) <= 0
    BY <1>1, <1>2, <1>3, <1>5, <1>6, <1>8, <1>10, <2>1, <2>2, <2>4
  <2>5. ASSUME v \in r7 \/ flags[v] = {} PROVE Part!Net(d, v) <= 0
    <3>1. d.rewards[v] = 0 BY <1>1, <1>5, <1>6, <1>9, <2>5
    <3>2. d.penalties[v] >= 0 /\ d.penalties[v] \in Int BY <1>2, <1>3, <1>8, <2>2
    <3> QED BY <1>10, <3>1, <3>2
  <2>6. ASSUME ~leak, v \notin r7 /\ flags[v] = Part!Flags PROVE Part!Net(d, v) >= 0
    <3>1. d.penalties[v] = 0 BY <1>2, <1>9, <2>6 DEF m
    <3> QED BY <1>1, <1>6, <1>10, <2>1, <3>1
  <2> QED BY <2>4, <2>5, <2>6
<1> QED BY <1>11 DEF Fair

\* An inactivity score never falls below zero.
LEMMA ScoreIsNat ==
    ASSUME NEW finalized, NEW v \in Part!Validators, r6 \in [Part!Validators -> Nat]
    PROVE  Part!InactivityScore(finalized, v) \in Nat
<1> DEFINE moved == IF Part!Marked(Part!PrevFlags, v, "target") THEN r6[v] - Part!Min({1, r6[v]})
                    ELSE r6[v] + ScoreBias
<1>0. r6[v] \in Nat /\ ScoreBias \in Nat /\ ScoreRecovery \in Nat BY ParticipationAssumption
<1>1. ASSUME NEW a \in Nat, NEW b \in Nat PROVE a - Part!Min({b, a}) \in Nat
  <2>1. \E x \in {b, a} : \A y \in {b, a} : x <= y BY LeastOf
  <2>2. Part!Min({b, a}) \in {b, a} /\ \A y \in {b, a} : Part!Min({b, a}) <= y BY <2>1 DEF Part!Min
  <2> QED BY <2>2
<1>2. moved \in Nat
  <2> DEFINE less == r6[v] - Part!Min({1, r6[v]})
  <2>1. less \in Nat BY <1>0, <1>1
  <2> HIDE DEF less
  <2> QED BY <1>0, <2>1 DEF less
<1>3. Part!InactivityScore(finalized, v) = IF Part!IsInInactivityLeak(finalized) THEN moved ELSE moved - Part!Min({ScoreRecovery, moved})
  BY DEF Part!InactivityScore
<1> HIDE DEF moved
<1>4. moved - Part!Min({ScoreRecovery, moved}) \in Nat BY <1>0, <1>1, <1>2
<1> QED BY <1>2, <1>3, <1>4

\* Rewards and penalties of altair are fair.
LEMMA AltairIsFair ==
    ASSUME NEW finalized \in Nat, NEW v \in Part!Validators, r6 \in [Part!Validators -> Nat]
    PROVE  Fair(finalized, Part!GetRewardsPenaltiesDeltas(finalized), v)
<1> DEFINE leak == Part!IsInInactivityLeak(finalized)
           flags == Part!PrevFlags
           B == Part!AltairBaseReward(v)
           T == Part!TotalStake
           M(f) == Part!Marked(flags, v, f)
           r(f) == Part!FlagReward(flags, v, f, leak)
           p(f) == Part!FlagPenalty(flags, v, f)
           score == Part!InactivityScore(finalized, v)
           i == Part!InactivityPenalty(flags, v, score)
           d == Part!GetRewardsPenaltiesDeltas(finalized)
<1>1. d.rewards[v] = r("source") + r("target") + r("head")
  BY DEF Part!GetRewardsPenaltiesDeltas, Part!SumOfFlags
<1>2. d.penalties[v] = (p("source") + p("target") + p("head")) + i
  BY DEF Part!GetRewardsPenaltiesDeltas, Part!SumOfFlags
<1>3. B \in Nat
  <2>1. Part!IntSqrt(T) \in Nat \ {0} BY StakesArePositive, SquareRoot
  <2>2. Part!BaseRewardPerIncrement \in Nat
    BY <2>1, ParticipationAssumption, Quotient DEF Part!BaseRewardPerIncrement
  <2>3. Eff[v] \in Nat BY ParticipationAssumption DEF Part!Validators
  <2> QED BY <2>2, <2>3, Product DEF Part!AltairBaseReward
<1>4. ASSUME NEW f \in Part!Flags
      PROVE  r(f) \in Nat /\ (~M(f) \/ leak => r(f) = 0) /\ p(f) \in Nat /\ (M(f) => p(f) = 0)
  <2> DEFINE U == Part!UnslashedStake(flags, f)
             W == Weight[f]
  <2>1. U \in Nat /\ T \in Nat \ {0} BY StakesArePositive
  <2>2. W \in Nat /\ Denominator \in Nat \ {0} BY ParticipationAssumption DEF Part!Flags
  <2>3. r(f) = IF ~M(f) \/ leak THEN 0 ELSE (B * W * U) \div (T * Denominator) BY DEF Part!FlagReward
  <2>4. p(f) = IF M(f) \/ f = "head" THEN 0 ELSE (B * W) \div Denominator BY DEF Part!FlagPenalty
  <2> HIDE DEF leak, M, B, T, W, U, r, p
  <2>5. B * W \in Nat BY <1>3, <2>2, Product
  <2>6. B * W * U \in Nat BY <2>1, <2>5, Product
  <2>7. T * Denominator \in Nat \ {0} BY <2>1, <2>2
  <2>8. (B * W * U) \div (T * Denominator) \in Nat BY <2>6, <2>7, Quotient
  <2>9. (B * W) \div Denominator \in Nat BY <2>2, <2>5, Quotient
  <2> QED BY <2>3, <2>4, <2>8, <2>9
<1>5. i \in Nat /\ (M("target") => i = 0)
  <2>1. Eff[v] \in Nat /\ ScoreBias \in Nat \ {0} /\ InactivityQuotient \in Nat \ {0}
    BY ParticipationAssumption DEF Part!Validators
  <2>2. score \in Nat BY ScoreIsNat
  <2>3. i = IF M("target") THEN 0 ELSE (Eff[v] * score) \div (ScoreBias * InactivityQuotient)
    BY DEF Part!InactivityPenalty
  <2> HIDE DEF score, M, i
  <2>4. Eff[v] * score \in Nat /\ ScoreBias * InactivityQuotient \in Nat \ {0} BY <2>1, <2>2
  <2>5. (Eff[v] * score) \div (ScoreBias * InactivityQuotient) \in Nat BY <2>4, Quotient
  <2> QED BY <2>3, <2>5
<1>6. /\ v \in r7 \/ flags[v] = {} => ~M("source") /\ ~M("target") /\ ~M("head")
      /\ v \notin r7 /\ flags[v] = Part!Flags => M("source") /\ M("target") /\ M("head")
  BY Markers DEF Part!Flags
<1>7. Part!Net(d, v) = d.rewards[v] - d.penalties[v] BY DEF Part!Net
<1>8. "source" \in Part!Flags /\ "target" \in Part!Flags /\ "head" \in Part!Flags BY DEF Part!Flags
<1>9. /\ leak => Part!Net(d, v) <= 0
      /\ v \in r7 \/ flags[v] = {} => Part!Net(d, v) <= 0
      /\ ~leak /\ v \notin r7 /\ flags[v] = Part!Flags => Part!Net(d, v) >= 0
  <2> HIDE DEF leak, flags, r, p, M, i, d
  <2>1. r("source") \in Nat /\ r("target") \in Nat /\ r("head") \in Nat BY <1>4, <1>8
  <2>2. p("source") \in Nat /\ p("target") \in Nat /\ p("head") \in Nat BY <1>4, <1>8
  <2>3. ASSUME leak \/ v \in r7 \/ flags[v] = {} PROVE Part!Net(d, v) <= 0
    <3>1. r("source") = 0 /\ r("target") = 0 /\ r("head") = 0 BY <1>4, <1>6, <1>8, <2>3
    <3> QED BY <1>1, <1>2, <1>5, <1>7, <2>2, <3>1
  <2>4. ASSUME v \notin r7 /\ flags[v] = Part!Flags PROVE Part!Net(d, v) >= 0
    <3>1. p("source") = 0 /\ p("target") = 0 /\ p("head") = 0 /\ i = 0 BY <1>4, <1>5, <1>6, <1>8, <2>4
    <3> QED BY <1>1, <1>2, <1>7, <2>1, <3>1
  <2> QED BY <2>3, <2>4
<1> QED BY <1>9 DEF Fair

-----------------------------------------------------------------------------
(* Participation: what the state holds is what the attestations of blocks earn. *)

InEpoch(e) == {h \in r9 : h.epoch = e}
Credited(e) ==
    [v \in Part!Validators |->
        UNION {Part!GetAttestationParticipationStatus(h) : h \in {h \in r9 : h.v = v /\ h.epoch = e}}]

\* The inductive invariant: the lists of phase0 are the attestations of the epoch, the flags of
\* altair what they earn.
PartInv ==
    /\ r1 \in Nat /\ r2 \in {"phase0", "altair"} /\ r3 \in Nat /\ r6 \in [Part!Validators -> Nat]
    /\ \A h \in r9 : h.epoch \in Nat /\ h.epoch <= Part!epoch /\ h.delay \in Nat \ {0}
    /\ r2 = "phase0" => r4 = [prev |-> IF Part!epoch = 0 THEN {} ELSE InEpoch(Part!epoch - 1),
                              cur |-> InEpoch(Part!epoch)]
    /\ r2 = "altair" => Part!epoch > 0 /\ r5 = [prev |-> Credited(Part!epoch - 1), cur |-> Credited(Part!epoch)]

PartTyped == part = "participation" => PartInv

\* Epochs are natural numbers.
LEMMA EpochIsNat == ASSUME r1 \in Nat PROVE Part!epoch \in Nat
BY ParticipationAssumption, NextEpoch DEF Part!epoch

\* The invariant holds in the genesis state.
LEMMA PartInit == Part!Init => PartInv
<1> SUFFICES ASSUME Part!Init PROVE PartInv OBVIOUS
<1>1. r1 = 0 /\ r2 = "phase0" /\ r3 = 0 /\ r9 = {} /\ r4 = [prev |-> {}, cur |-> {}] /\ r6 = Part!Zero
  BY DEF Part!Init
<1>2. Part!epoch = 0 BY <1>1, ParticipationAssumption DEF Part!epoch
<1>3. r6 \in [Part!Validators -> Nat] BY <1>1 DEF Part!Zero
<1> QED BY <1>1, <1>2, <1>3 DEF PartInv, InEpoch

\* The invariant gives the property.
LEMMA PartKeepsCredit == PartInv => Part!CreditIsKept
<1> SUFFICES ASSUME PartInv, NEW v \in Part!Validators
             PROVE  /\ Part!epoch > 0 => Part!PrevFlags[v] = Part!Earned(v, Part!prevEpoch)
                    /\ (IF r2 = "phase0" THEN Part!PendingFlags(r4.cur, v) ELSE r5.cur[v]) = Part!Earned(v, Part!epoch)
  BY DEF Part!CreditIsKept
<1> DEFINE E == Part!epoch
<1>1. E \in Nat BY EpochIsNat DEF PartInv
<1>2. E > 0 => Part!prevEpoch = E - 1 BY <1>1 DEF Part!prevEpoch
<1>3. ASSUME NEW e PROVE Part!PendingFlags({h \in r9 : h.v = v /\ h.epoch = e}, v) = Part!PendingFlags(InEpoch(e), v)
  <2>1. {a \in {h \in r9 : h.v = v /\ h.epoch = e} : a.v = v} = {a \in InEpoch(e) : a.v = v}
    BY DEF InEpoch
  <2> QED BY <2>1 DEF Part!PendingFlags
<1>4. CASE r2 = "phase0"
  <2>1. r4.cur = InEpoch(E) /\ (E > 0 => r4.prev = InEpoch(E - 1)) BY <1>1, <1>4 DEF PartInv
  <2>2. E > 0 => Part!PrevFlags[v] = Part!PendingFlags(InEpoch(E - 1), v)
    BY <1>4, <2>1 DEF Part!PrevFlags
  <2>3. \A e : Part!Earned(v, e) = Part!PendingFlags(InEpoch(e), v) BY <1>3, <1>4 DEF Part!Earned
  <2> QED BY <1>2, <1>4, <2>1, <2>2, <2>3
<1>5. CASE r2 = "altair"
  <2>1. r5.cur = Credited(E) /\ r5.prev = Credited(E - 1) /\ E > 0 BY <1>1, <1>5 DEF PartInv
  <2>2. Part!PrevFlags = r5.prev BY <1>5 DEF Part!PrevFlags
  <2>3. \A e : Part!Earned(v, e) = Credited(e)[v] BY <1>5 DEF Part!Earned, Credited
  <2> QED BY <1>2, <1>5, <2>1, <2>2, <2>3
<1> QED BY <1>4, <1>5 DEF PartInv

\* An attestation in a block is credited to its validator and epoch.
LEMMA AttestationStep ==
    ASSUME PartInv, NEW v \in Part!Validators, NEW e \in 0..LastEpoch,
           NEW target \in BOOLEAN, NEW head \in BOOLEAN, Part!ProcessAttestation(v, e, target, head)
    PROVE  PartInv'
<1>0. PICK E : E = Part!epoch OBVIOUS
<1> DEFINE s == e * SlotsPerEpoch + Duty[v]
           a == [v |-> v, epoch |-> e, delay |-> r1 - s, target |-> target, head |-> head]
           which == IF e = E THEN "cur" ELSE "prev"
<1>1. E \in Nat /\ e \in Nat BY <1>0, EpochIsNat, ParticipationAssumption DEF PartInv
<1>2. Part!ValidateAttestation(s, e) /\ r9' = r9 \cup {a} /\ UNCHANGED <<r1, r2, r3, r6>>
  BY DEF Part!ProcessAttestation
<1>3. Part!epoch' = E BY <1>0, <1>2 DEF Part!epoch
<1>4. s \in Nat
  <2>1. Duty[v] \in Nat /\ SlotsPerEpoch \in Nat BY ParticipationAssumption DEF Part!Validators
  <2> QED BY <1>1, <2>1, Product
<1>5. e \in {Part!prevEpoch, E} /\ s + 1 <= r1 BY <1>0, <1>2 DEF Part!ValidateAttestation
<1>6. e <= E /\ (e = E \/ (E > 0 /\ e = E - 1)) BY <1>0, <1>1, <1>5 DEF Part!prevEpoch
<1>7. a.epoch = e /\ a.v = v /\ a.delay \in Nat \ {0}
  <2>1. r1 - s \in Nat \ {0} BY <1>4, <1>5 DEF PartInv
  <2> HIDE DEF s
  <2> QED BY <2>1
<1>8. r2 = "phase0" => r4' = [r4 EXCEPT ![which] = @ \cup {a}] BY <1>0 DEF Part!ProcessAttestation
<1>9. r2 = "altair" => r5' = [r5 EXCEPT ![which][v] = @ \cup Part!GetAttestationParticipationStatus(a)]
  BY <1>0 DEF Part!ProcessAttestation
<1> HIDE DEF a, s
<1>10. \A x : InEpoch(x)' = IF x = e THEN InEpoch(x) \cup {a} ELSE InEpoch(x) BY <1>2, <1>7 DEF InEpoch
<1>11. \A x : Credited(x)' = IF x = e THEN [Credited(x) EXCEPT ![v] = @ \cup Part!GetAttestationParticipationStatus(a)]
                             ELSE Credited(x)
  <2> TAKE x
  <2> DEFINE mine(w) == {h \in r9 : h.v = w /\ h.epoch = x}
  <2> DEFINE G(h) == Part!GetAttestationParticipationStatus(h)
  <2>0. Credited(x) = [w \in Part!Validators |-> UNION {G(h) : h \in mine(w)}] BY DEF Credited
  <2>1. Credited(x)' = [w \in Part!Validators |-> UNION {G(h) : h \in {h \in r9' : h.v = w /\ h.epoch = x}}]
    BY DEF Credited, Part!GetAttestationParticipationStatus, Part!Validators
  <2>2. \A w : {h \in r9' : h.v = w /\ h.epoch = x} = IF w = v /\ x = e THEN mine(w) \cup {a} ELSE mine(w)
    BY <1>2, <1>7
  <2> HIDE DEF G, mine
  <2> DEFINE sum(T) == UNION {G(h) : h \in T}
  <2>3. sum(mine(v) \cup {a}) = sum(mine(v)) \cup G(a)
    <3>1. \A T, y : y \in sum(T) <=> \E h \in T : y \in G(h) OBVIOUS
    <3> HIDE DEF sum
    <3> QED BY <3>1
  <2>4. Credited(x)' = [w \in Part!Validators |-> IF w = v /\ x = e THEN Credited(x)[v] \cup G(a) ELSE Credited(x)[w]]
    <3>1. Credited(x) = [w \in Part!Validators |-> sum(mine(w))] BY <2>0
    <3>2. Credited(x)' = [w \in Part!Validators |-> sum(IF w = v /\ x = e THEN mine(w) \cup {a} ELSE mine(w))]
      BY <2>1, <2>2
    <3> HIDE DEF sum
    <3> QED BY <2>3, <3>1, <3>2
  <2> QED BY <2>0, <2>4 DEF G
<1>12. r2 = "phase0" => r4' = [prev |-> IF E = 0 THEN {} ELSE InEpoch(E - 1)', cur |-> InEpoch(E)']
  <2> SUFFICES ASSUME r2 = "phase0" PROVE r4' = [prev |-> IF E = 0 THEN {} ELSE InEpoch(E - 1)', cur |-> InEpoch(E)'] OBVIOUS
  <2>1. r4 = [prev |-> IF E = 0 THEN {} ELSE InEpoch(E - 1), cur |-> InEpoch(E)] BY <1>0 DEF PartInv
  <2>2. CASE e = E
    <3>1. r4' = [prev |-> IF E = 0 THEN {} ELSE InEpoch(E - 1), cur |-> InEpoch(E) \cup {a}]
      BY <1>8, <2>1, <2>2
    <3> QED BY <1>1, <1>10, <2>2, <3>1
  <2>3. CASE e # E
    <3>1. r4' = [prev |-> InEpoch(E - 1) \cup {a}, cur |-> InEpoch(E)] BY <1>1, <1>6, <1>8, <2>1, <2>3
    <3> QED BY <1>1, <1>6, <1>10, <2>3, <3>1
  <2> QED BY <2>2, <2>3
<1>13. r2 = "altair" => r5' = [prev |-> Credited(E - 1)', cur |-> Credited(E)']
  <2> SUFFICES ASSUME r2 = "altair" PROVE r5' = [prev |-> Credited(E - 1)', cur |-> Credited(E)'] OBVIOUS
  <2> DEFINE G == Part!GetAttestationParticipationStatus(a)
             add(f) == [f EXCEPT ![v] = @ \cup G]
  <2>1. r5 = [prev |-> Credited(E - 1), cur |-> Credited(E)] BY <1>0 DEF PartInv
  <2>2. r5' = [r5 EXCEPT ![which] = add(@)] BY <1>9
  <2>3. \A x : Credited(x)' = IF x = e THEN add(Credited(x)) ELSE Credited(x) BY <1>11
  <2> HIDE DEF add, G
  <2>4. CASE e = E
    <3>1. r5' = [prev |-> Credited(E - 1), cur |-> add(Credited(E))] BY <2>1, <2>2, <2>4
    <3> QED BY <1>1, <2>3, <2>4, <3>1
  <2>5. CASE e # E
    <3>1. r5' = [prev |-> add(Credited(E - 1)), cur |-> Credited(E)] BY <2>1, <2>2, <2>5
    <3> QED BY <1>1, <1>6, <2>3, <2>5, <3>1
  <2> QED BY <2>4, <2>5
<1>14. \A h \in r9' : h.epoch \in Nat /\ h.epoch <= E /\ h.delay \in Nat \ {0}
  BY <1>0, <1>1, <1>2, <1>6, <1>7 DEF PartInv
<1>15. InEpoch(Part!epoch)' = InEpoch(E)' /\ InEpoch(Part!epoch - 1)' = InEpoch(E - 1)'
  BY <1>3 DEF InEpoch
<1>16. Credited(Part!epoch)' = Credited(E)' /\ Credited(Part!epoch - 1)' = Credited(E - 1)'
  BY <1>3 DEF Credited
<1>17. (r6 \in [Part!Validators -> Nat])' BY <1>2 DEF PartInv, Part!Validators
<1> QED BY <1>0, <1>2, <1>3, <1>12, <1>13, <1>14, <1>15, <1>16, <1>17 DEF PartInv

\* The next slot, and the end of the epoch with the upgrade, carry the credit over.
LEMMA SlotStep ==
    ASSUME PartInv, NEW finalized \in 0..LastEpoch, Part!NextSlot(finalized)
    PROVE  PartInv'
<1>0. PICK E : E = Part!epoch OBVIOUS
<1>1. E \in Nat /\ finalized \in Nat BY <1>0, EpochIsNat, ParticipationAssumption DEF PartInv
<1>2. r1 \in Nat /\ r1' = r1 + 1 /\ r9' = {h \in r9 : h.epoch + 1 >= Part!epoch'}
  BY DEF Part!NextSlot, Part!epoch, PartInv
<1>3. \A h \in r9 : h.epoch \in Nat /\ h.epoch <= E /\ h.delay \in Nat \ {0} BY <1>0 DEF PartInv
<1>4. CASE (r1 + 1) % SlotsPerEpoch # 0
  <2>1. Part!epoch' = E BY <1>0, <1>2, <1>4, ParticipationAssumption, NextEpoch DEF Part!epoch
  <2>2. UNCHANGED <<r2, r4, r5, r6>> /\ r3' \in Nat BY <1>4 DEF Part!NextSlot, PartInv
  <2>3. r9' = {h \in r9 : h.epoch + 1 >= E} BY <1>2, <2>1
  <2>4. ASSUME NEW x \in {E - 1, E} PROVE \A h \in r9 : h.epoch = x => h \in r9' BY <1>1, <2>3
  <2>5. ASSUME NEW x \in {E - 1, E} PROVE InEpoch(x)' = InEpoch(x) BY <2>3, <2>4 DEF InEpoch
  <2>6. ASSUME NEW x \in {E - 1, E} PROVE Credited(x)' = Credited(x)
    <3>1. \A w : {h \in r9' : h.v = w /\ h.epoch = x} = {h \in r9 : h.v = w /\ h.epoch = x}
      BY <2>3, <2>4
    <3> QED BY <3>1 DEF Credited, Part!GetAttestationParticipationStatus, Part!Validators
  <2>7. /\ InEpoch(Part!epoch)' = InEpoch(E)' /\ InEpoch(Part!epoch - 1)' = InEpoch(E - 1)'
        /\ Credited(Part!epoch)' = Credited(E)' /\ Credited(Part!epoch - 1)' = Credited(E - 1)'
    BY <2>1 DEF InEpoch, Credited
  <2>8. \A h \in r9' : h.epoch \in Nat /\ h.epoch <= E /\ h.delay \in Nat \ {0} BY <1>3, <2>3
  <2>9. (r6 \in [Part!Validators -> Nat])' BY <2>2 DEF PartInv, Part!Validators
  <2>10. r2 = "phase0" => r4' = [prev |-> IF E = 0 THEN {} ELSE InEpoch(E - 1)', cur |-> InEpoch(E)']
    BY <1>0, <2>2, <2>5 DEF PartInv
  <2>11. r2 = "altair" => E > 0 /\ r5' = [prev |-> Credited(E - 1)', cur |-> Credited(E)']
    BY <1>0, <2>2, <2>6 DEF PartInv
  <2>12. r1' \in Nat /\ r2' \in {"phase0", "altair"} BY <1>2, <2>2 DEF PartInv
  <2> QED BY <2>1, <2>2, <2>7, <2>8, <2>9, <2>10, <2>11, <2>12 DEF PartInv
<1>5. CASE (r1 + 1) % SlotsPerEpoch = 0
  <2>1. Part!epoch' = E + 1 BY <1>0, <1>2, <1>5, ParticipationAssumption, NextEpoch DEF Part!epoch
  <2>2. Part!ProcessEpoch(finalized) BY <1>5 DEF Part!NextSlot
  <2>3. r9' = {h \in r9 : h.epoch = E} BY <1>1, <1>2, <1>3, <2>1
  <2>4. InEpoch(E)' = InEpoch(E) /\ InEpoch(E + 1)' = {} BY <1>1, <2>3 DEF InEpoch
  <2>5. Credited(E)' = Credited(E) /\ Credited(E + 1)' = Part!NoFlags
    <3>1. \A w : {h \in r9' : h.v = w /\ h.epoch = E} = {h \in r9 : h.v = w /\ h.epoch = E} BY <2>3
    <3>2. \A w : {h \in r9' : h.v = w /\ h.epoch = E + 1} = {} BY <1>1, <2>3
    <3>3. Credited(E)' = Credited(E)
      BY <3>1 DEF Credited, Part!GetAttestationParticipationStatus, Part!Validators
    <3>4. Credited(E + 1)' = [w \in Part!Validators |->
            UNION {Part!GetAttestationParticipationStatus(h) : h \in {h \in r9' : h.v = w /\ h.epoch = E + 1}}]
      BY DEF Credited, Part!GetAttestationParticipationStatus, Part!Validators
    <3>5. UNION {Part!GetAttestationParticipationStatus(h) : h \in {}} = {} OBVIOUS
    <3> QED BY <3>2, <3>3, <3>4, <3>5 DEF Part!NoFlags
  <2>6. /\ InEpoch(Part!epoch)' = InEpoch(E + 1)' /\ InEpoch(Part!epoch - 1)' = InEpoch(E)'
        /\ Credited(Part!epoch)' = Credited(E + 1)' /\ Credited(Part!epoch - 1)' = Credited(E)'
    <3>1. Part!epoch' = E + 1 /\ Part!epoch' - 1 = E BY <1>1, <2>1
    <3> QED BY <3>1 DEF InEpoch, Credited
  <2>7. \A h \in r9' : h.epoch \in Nat /\ h.epoch <= E + 1 /\ h.delay \in Nat \ {0} BY <1>1, <1>3, <2>3
  <2>8. (r6 \in [Part!Validators -> Nat])'
    <3>1. r6' = r6 \/ r6' = [v \in Part!Validators |-> Part!InactivityScore(finalized, v)]
      BY <2>2 DEF Part!ProcessEpoch
    <3>2. r6 \in [Part!Validators -> Nat] BY DEF PartInv
    <3>3. \A v \in Part!Validators : Part!InactivityScore(finalized, v) \in Nat BY <3>2, ScoreIsNat
    <3>4. r6' \in [Part!Validators -> Nat] BY <3>1, <3>2, <3>3
    <3> QED BY <3>4 DEF Part!Validators
  <2>9. r2 = "phase0" => r4 .cur = InEpoch(E) BY <1>0 DEF PartInv
  <2>10. r2 = "altair" => r5.cur = Credited(E) BY <1>0 DEF PartInv
  <2>11. Part!TranslateParticipation(InEpoch(E)) = Credited(E)
    <3>1. \A w : {b \in InEpoch(E) : b.v = w} = {h \in r9 : h.v = w /\ h.epoch = E} BY DEF InEpoch
    <3> QED BY <3>1 DEF Part!TranslateParticipation, Credited
  <2>12. r1' \in Nat /\ r3' \in Nat BY <1>1, <1>2, <2>2 DEF Part!ProcessEpoch
  <2>13. CASE r2 = "phase0" /\ r2' = "phase0"
    <3>1. r4' = [prev |-> InEpoch(E), cur |-> {}] BY <2>2, <2>9, <2>13 DEF Part!ProcessEpoch
    <3>2. E + 1 # 0 BY <1>1
    <3> QED BY <2>1, <2>4, <2>6, <2>7, <2>8, <2>12, <2>13, <3>1, <3>2 DEF PartInv
  <2>14. CASE r2 = "phase0" /\ r2' # "phase0"
    <3>1. r2' = "altair" /\ r5' = [prev |-> Credited(E), cur |-> Part!NoFlags]
      BY <2>2, <2>9, <2>11, <2>14 DEF Part!ProcessEpoch
    <3>2. E + 1 > 0 BY <1>1
    <3> QED BY <2>1, <2>5, <2>6, <2>7, <2>8, <2>12, <3>1, <3>2 DEF PartInv
  <2>15. CASE r2 = "altair"
    <3>1. r2' = "altair" /\ r5' = [prev |-> Credited(E), cur |-> Part!NoFlags]
      BY <2>2, <2>10, <2>15 DEF Part!ProcessEpoch
    <3>2. E + 1 > 0 BY <1>1
    <3> QED BY <2>1, <2>5, <2>6, <2>7, <2>8, <2>12, <3>1, <3>2 DEF PartInv
  <2> QED BY <2>13, <2>14, <2>15 DEF PartInv
<1> QED BY <1>4, <1>5

\* An epoch transition is fair to every validator.
LEMMA EpochIsFair ==
    ASSUME PartInv, NEW finalized \in 0..LastEpoch, Part!NextSlot(finalized)
    PROVE  Part!FairStep
<1>1. r1 \in Nat /\ finalized \in Nat /\ r6 \in [Part!Validators -> Nat] /\ r1' = r1 + 1
  BY ParticipationAssumption DEF PartInv, Part!NextSlot
<1> SUFFICES ASSUME r1' \div SlotsPerEpoch > Part!epoch, Part!epoch > 0, NEW v \in Part!Validators
             PROVE  /\ Part!prevEpoch - r3' > MinEpochsToLeak => Part!Net(r8', v) <= 0
                    /\ v \in r7 \/ Part!PrevFlags[v] = {} => Part!Net(r8', v) <= 0
                    /\ Part!prevEpoch - r3' <= MinEpochsToLeak /\ v \notin r7 /\ Part!PrevFlags[v] = Part!Flags
                         => Part!Net(r8', v) >= 0
  BY DEF Part!FairStep
<1>2. (r1 + 1) % SlotsPerEpoch = 0
  <2>1. SlotsPerEpoch \in Nat \ {0} BY ParticipationAssumption
  <2>2. r1 \div SlotsPerEpoch \in Nat /\ (r1 + 1) \div SlotsPerEpoch > r1 \div SlotsPerEpoch
    BY <1>1, <2>1, NextEpoch DEF Part!epoch
  <2>3. (r1 + 1) % SlotsPerEpoch # 0 => (r1 + 1) \div SlotsPerEpoch = r1 \div SlotsPerEpoch
    BY <1>1, <2>1, NextEpoch
  <2> QED BY <2>2, <2>3
<1>3. Part!ProcessEpoch(finalized) BY <1>2 DEF Part!NextSlot
<1>4. Part!epoch \in Nat /\ Part!prevEpoch \in Int /\ MinEpochsToLeak \in Nat
  BY <1>1, EpochIsNat, ParticipationAssumption DEF Part!prevEpoch
<1>5. r3' = finalized BY <1>3 DEF Part!ProcessEpoch
<1>6. CASE r2 = "phase0"
  <2>1. r8' = Part!GetAttestationDeltas(finalized) BY <1>3, <1>4, <1>6 DEF Part!ProcessEpoch
  <2>2. ASSUME Attested(v) PROVE Part!InclusionDelay(r4.prev, v) \in Nat \ {0}
    <3> DEFINE mine == {b \in r4.prev : b.v = v}
               D == {b.delay : b \in mine}
    <3>1. r4.prev = InEpoch(Part!epoch - 1) BY <1>4, <1>6 DEF PartInv
    <3>2. D \subseteq Nat \ {0} BY <3>1 DEF PartInv, InEpoch
    <3>3. mine # {} BY <1>6, <2>2 DEF Attested, Part!Marked, Part!PrevFlags, Part!PendingFlags
    <3>4. D # {} BY <3>3
    <3>5. Part!InclusionDelay(r4.prev, v) = Part!Min(D) BY DEF Part!InclusionDelay
    <3> HIDE DEF D
    <3>6. \E x \in D : \A y \in D : x <= y BY <3>2, <3>4, LeastOf
    <3>7. Part!Min(D) \in D BY <3>6 DEF Part!Min
    <3> QED BY <3>2, <3>5, <3>7
  <2>3. Fair(finalized, r8', v) BY <1>1, <2>1, <2>2, PhaseZeroIsFair
  <2> QED BY <1>4, <1>5, <2>3 DEF Fair, Part!IsInInactivityLeak
<1>7. CASE r2 # "phase0"
  <2>1. r8' = Part!GetRewardsPenaltiesDeltas(finalized) BY <1>3, <1>4, <1>7 DEF Part!ProcessEpoch
  <2>2. Fair(finalized, r8', v) BY <1>1, <2>1, AltairIsFair
  <2> QED BY <1>4, <1>5, <2>2 DEF Fair, Part!IsInInactivityLeak
<1> QED BY <1>6, <1>7

\* The invariant is inductive in every part's behaviours, and transitions are fair.
LEMMA PartStep == PartTyped /\ [MCNext]_allVars => PartTyped' /\ [part = "participation" => Part!FairStep]_allVars
<1> SUFFICES ASSUME PartTyped, [MCNext]_allVars, part' = "participation" \/ part = "participation"
             PROVE  PartTyped' /\ [part = "participation" => Part!FairStep]_allVars
  BY DEF PartTyped
<1>1. CASE UNCHANGED allVars
  BY <1>1 DEF allVars, registers, PartTyped, PartInv, Part!epoch, InEpoch, Credited,
     Part!GetAttestationParticipationStatus, Part!Validators
<1>2. CASE MCNext
  <2>1. part = "participation" /\ part' = "participation" /\ Part!Next BY <1>2 DEF MCNext
  <2>2. PartInv BY <2>1 DEF PartTyped
  <2>3. ASSUME NEW v \in Part!Validators, NEW e \in 0..LastEpoch, NEW target \in BOOLEAN, NEW head \in BOOLEAN,
               Part!ProcessAttestation(v, e, target, head)
        PROVE  PartInv' /\ Part!FairStep
    <3>1. r1' = r1 BY <2>3 DEF Part!ProcessAttestation
    <3>2. Part!epoch \in Nat BY <2>2, EpochIsNat DEF PartInv
    <3>3. Part!FairStep BY <3>1, <3>2 DEF Part!FairStep, Part!epoch
    <3> QED BY <2>2, <2>3, <3>3, AttestationStep
  <2>4. ASSUME NEW finalized \in 0..LastEpoch, Part!NextSlot(finalized) PROVE PartInv' /\ Part!FairStep
    BY <2>2, <2>4, SlotStep, EpochIsFair
  <2>5. PartInv' /\ Part!FairStep BY <2>1, <2>3, <2>4 DEF Part!Next
  <2> QED BY <2>1, <2>5 DEF PartTyped
<1> QED BY <1>1, <1>2

LEMMA PartInvariance == MCSpec => []PartTyped
<1>1. MCInit => PartTyped BY PartInit DEF MCInit, PartTyped
<1> QED BY <1>1, PartStep, PTL DEF MCSpec

\* No credit for an attestation is lost or invented on the way to the epoch transition that pays
\* it, whatever blocks include, for any validators, in both forks and across the upgrade.
THEOREM CreditStaysKept == MCSpec => []CreditIsKept
<1>1. PartTyped => CreditIsKept BY PartKeepsCredit DEF PartTyped, CreditIsKept
<1> QED BY <1>1, PartInvariance, PTL

\* In a leak nobody gains, slashed and silent validators never gain, and out of a leak a full
\* attester never loses, for any balances, stakes, weights and quotients.
THEOREM RewardsStayFair == MCSpec => RewardsAreFair
<1>1. PartTyped /\ [MCNext]_allVars => [part = "participation" => Part!FairStep]_allVars BY PartStep
<1> QED BY <1>1, PartInvariance, PTL DEF MCSpec, RewardsAreFair

-----------------------------------------------------------------------------
(* The cached vectors. *)

Elements == Values \cup Nat
Entries == Elements \cup SUBSET Cached!TIMELY_FLAGS
Vectors == [transient : BOOLEAN, data : Seq(Entries)]
CachedStates == [fork : {"phase0", "altair"}, tree : [Cached!Lists -> Seq(Elements)], vec : [Cached!Lists -> Nat]]

\* What an entry of the list's vector may be.
EntryOf(l) == IF l \in Cached!Participation THEN SUBSET Cached!TIMELY_FLAGS ELSE Elements

\* The lists of a state, on a heap of vectors: each has a vector of its own, which reads as the tree.
Sound(s, h) ==
    /\ s \in CachedStates /\ h \in Seq(Vectors)
    /\ \A l \in Cached!Lists : s.vec[l] \in 1..Len(h)
    /\ \A l, k \in Cached!Lists : s.vec[l] = s.vec[k] => l = k
    /\ \A l \in Cached!TreeLists(s) :
          /\ Len(h[s.vec[l]].data) = Len(s.tree[l])
          /\ \A i \in 1..Len(s.tree[l]) : h[s.vec[l]].data[i] = Cached!InVector(l, s.tree[l][i])

\* The lists of a state in its tree have one length.
Even(s) == \A l \in Cached!TreeLists(s) : Len(s.tree[l]) = Len(s.tree["validators"])

\* From s on h to t on g, no vector of another state has been touched or taken.
Apart(s, h, t, g) ==
    /\ Len(h) <= Len(g)
    /\ \A r \in 1..Len(h) : (\A l \in Cached!Lists : s.vec[l] # r) => g[r] = h[r]
    /\ \A l \in Cached!Lists : t.vec[l] > Len(h) \/ \E k \in Cached!Lists : t.vec[l] = s.vec[k]

CachedInv ==
    /\ r1 \in Seq(CachedStates) /\ r2 \in Seq(Vectors)
    /\ r3 = 0 \/ (r3 = Len(r1) /\ r3 > 1)
    /\ \A b \in 1..Len(r1) : Sound(r1[b], r2) /\ Even(r1[b])
    /\ \A b, c \in 1..Len(r1) : \A l, k \in Cached!Lists : r1[b].vec[l] = r1[c].vec[k] => b = c

CachedTyped == part = "cached" => CachedInv

\* The five lists and their places.
LEMMA ListsAndPlaces ==
    /\ Cached!Lists = {"validators", "balances", "previous", "current", "inactivity"}
    /\ \A l \in Cached!Lists : Cached!Position(l) \in 1..5 /\ Cached!Order[Cached!Position(l)] = l
    /\ \A k \in 1..5 : Cached!Order[k] \in Cached!Lists
<1>1. Len(Cached!Order) = 5 /\ DOMAIN Cached!Order = 1..5 BY DEF Cached!Order
<1>2. /\ Cached!Order[1] = "validators" /\ Cached!Order[2] = "balances" /\ Cached!Order[3] = "previous"
      /\ Cached!Order[4] = "current" /\ Cached!Order[5] = "inactivity"
  BY DEF Cached!Order
<1>3. Cached!Lists = {Cached!Order[k] : k \in 1..5} BY <1>1 DEF Cached!Lists, Cached!ToSet
<1>4. \A k \in 1..5 : k = 1 \/ k = 2 \/ k = 3 \/ k = 4 \/ k = 5 OBVIOUS
<1>5. Cached!Lists = {"validators", "balances", "previous", "current", "inactivity"} BY <1>2, <1>3, <1>4
<1>6. ASSUME NEW l \in Cached!Lists PROVE Cached!Position(l) \in 1..5 /\ Cached!Order[Cached!Position(l)] = l
  <2>1. \E k \in DOMAIN Cached!Order : Cached!Order[k] = l BY <1>1, <1>3
  <2> QED BY <1>1, <2>1 DEF Cached!Position
<1> QED BY <1>3, <1>5, <1>6

\* A byte of participation flags reads back as the status it was made from.
LEMMA FlagsRoundTrip ==
    ASSUME NEW status \in SUBSET Cached!TIMELY_FLAGS
    PROVE  /\ Cached!ToParticipationFlags(status) \in Nat
           /\ Cached!FromParticipationFlags(Cached!ToParticipationFlags(status)) = status
<1> DEFINE a == IF 1 \in status THEN 1 ELSE 0
           b == IF 2 \in status THEN 2 ELSE 0
           c == IF 4 \in status THEN 4 ELSE 0
<1>1. Cached!ToParticipationFlags(status) = a + b + c
  BY DEF Cached!ToParticipationFlags, Cached!TIMELY_SOURCE, Cached!TIMELY_TARGET, Cached!TIMELY_HEAD
<1>2. Cached!TIMELY_FLAGS = {1, 2, 4}
  BY DEF Cached!TIMELY_FLAGS, Cached!TIMELY_SOURCE, Cached!TIMELY_TARGET, Cached!TIMELY_HEAD
<1>3. /\ ((a + b + c) \div 1) % 2 = 1 <=> 1 \in status
      /\ ((a + b + c) \div 2) % 2 = 1 <=> 2 \in status
      /\ ((a + b + c) \div 4) % 2 = 1 <=> 4 \in status
  OBVIOUS
<1>4. Cached!FromParticipationFlags(a + b + c) = status
  <2> HIDE DEF a, b, c
  <2> QED BY <1>2, <1>3 DEF Cached!FromParticipationFlags
<1> QED BY <1>1, <1>4

\* What the tree holds for an entry, and how it reads.
LEMMA EntriesReadBack ==
    ASSUME NEW l, NEW x \in EntryOf(l)
    PROVE  /\ Cached!InTree(l, x) \in Elements /\ x \in Entries
           /\ Cached!InVector(l, Cached!InTree(l, x)) = x
BY FlagsRoundTrip DEF EntryOf, Cached!InTree, Cached!InVector, Elements, Entries

\* What a list reads from the tree is an entry of its vector.
LEMMA ReadIsEntry ==
    ASSUME NEW l, NEW y \in Elements
    PROVE  Cached!InVector(l, y) \in EntryOf(l)
BY DEF EntryOf, Cached!InVector, Cached!FromParticipationFlags

-----------------------------------------------------------------------------
\* A write through a reference, in place or into a new vector.
LEMMA HeapAfterWrite ==
    ASSUME NEW h \in Seq(Vectors), NEW ref \in 1..Len(h), NEW d \in Seq(Entries)
    PROVE  /\ Cached!HeapAfter(h, ref, d) \in Seq(Vectors)
           /\ Len(h) <= Len(Cached!HeapAfter(h, ref, d))
           /\ Cached!RefAfter(h, ref) \in 1..Len(Cached!HeapAfter(h, ref, d))
           /\ Cached!RefAfter(h, ref) = ref \/ Cached!RefAfter(h, ref) = Len(h) + 1
           /\ Cached!HeapAfter(h, ref, d)[Cached!RefAfter(h, ref)].data = d
           /\ \A r \in 1..Len(h) : r # ref => Cached!HeapAfter(h, ref, d)[r] = h[r]
<1> DEFINE v == [transient |-> h[ref].transient, data |-> d]
           w == Cached!Vector(FALSE, d)
<1>1. h[ref] \in Vectors /\ v \in Vectors /\ w \in Vectors /\ v.data = d /\ w.data = d
  <2>1. h[ref] \in Vectors BY ElementOfSeq
  <2>2. h[ref].transient \in BOOLEAN BY <2>1 DEF Vectors
  <2>3. v \in Vectors BY <2>2 DEF Vectors
  <2>4. w \in Vectors BY DEF Vectors, Cached!Vector
  <2> QED BY <2>1, <2>3, <2>4 DEF Cached!Vector
<1>2. CASE h[ref].transient
  <2>1. [h EXCEPT ![ref].data = d] = [h EXCEPT ![ref] = v] BY <1>1 DEF Vectors
  <2>2. Cached!HeapAfter(h, ref, d) = [h EXCEPT ![ref] = v] /\ Cached!RefAfter(h, ref) = ref
    BY <1>2, <2>1 DEF Cached!HeapAfter, Cached!RefAfter
  <2> HIDE DEF v
  <2> QED BY <1>1, <2>2
<1>3. CASE ~h[ref].transient
  <2>1. Cached!HeapAfter(h, ref, d) = Append(h, w) /\ Cached!RefAfter(h, ref) = Len(h) + 1
    BY <1>3 DEF Cached!HeapAfter, Cached!RefAfter
  <2> HIDE DEF w
  <2> QED BY <1>1, <2>1
<1> QED BY <1>2, <1>3

\* From s on h to t on g, list l has been written, in its vector and in its tree.
Written(s, h, l, t, g) ==
    /\ t \in CachedStates /\ t.fork = s.fork /\ g \in Seq(Vectors) /\ Len(h) <= Len(g)
    /\ t.vec[l] \in 1..Len(g) /\ (t.vec[l] = s.vec[l] \/ t.vec[l] > Len(h))
    /\ \A k \in Cached!Lists \ {l} : t.tree[k] = s.tree[k] /\ t.vec[k] = s.vec[k]
    /\ \A r \in 1..Len(h) : r # s.vec[l] => g[r] = h[r]
    /\ l \in Cached!TreeLists(s) =>
          /\ Len(g[t.vec[l]].data) = Len(t.tree[l])
          /\ \A i \in 1..Len(t.tree[l]) : g[t.vec[l]].data[i] = Cached!InVector(l, t.tree[l][i])

\* A list written in both of its backings leaves the state sound and the other states alone.
LEMMA WriteKeepsSound ==
    ASSUME NEW s, NEW h, Sound(s, h), NEW l \in Cached!Lists, NEW t, NEW g, Written(s, h, l, t, g)
    PROVE  Sound(t, g) /\ Apart(s, h, t, g) /\ Cached!TreeLists(t) = Cached!TreeLists(s)
<1>1. s \in CachedStates /\ h \in Seq(Vectors)
      /\ (\A k \in Cached!Lists : s.vec[k] \in 1..Len(h))
      /\ (\A k, m \in Cached!Lists : s.vec[m] = s.vec[k] => m = k)
      /\ \A k \in Cached!TreeLists(s) :
          /\ Len(h[s.vec[k]].data) = Len(s.tree[k])
          /\ \A i \in 1..Len(s.tree[k]) : h[s.vec[k]].data[i] = Cached!InVector(k, s.tree[k][i])
  BY DEF Sound
<1>2. Cached!TreeLists(t) = Cached!TreeLists(s) BY DEF Cached!TreeLists, Written
<1>3. Cached!TreeLists(s) \subseteq Cached!Lists BY ListsAndPlaces DEF Cached!TreeLists
<1>4. \A k \in Cached!Lists \ {l} : t.tree[k] = s.tree[k] /\ t.vec[k] = s.vec[k] BY DEF Written
<1>5. \A k \in Cached!Lists \ {l} : g[t.vec[k]] = h[s.vec[k]] BY <1>1, <1>4 DEF Written
<1>6. Sound(t, g)
  <2>1. \A k \in Cached!Lists : t.vec[k] \in 1..Len(g) BY <1>1, <1>4 DEF Written
  <2>2. ASSUME NEW k \in Cached!Lists, NEW m \in Cached!Lists, t.vec[m] = t.vec[k] PROVE m = k
    BY <1>1, <1>4, <2>2 DEF Written
  <2>3. ASSUME NEW k \in Cached!TreeLists(s)
        PROVE  /\ Len(g[t.vec[k]].data) = Len(t.tree[k])
               /\ \A i \in 1..Len(t.tree[k]) : g[t.vec[k]].data[i] = Cached!InVector(k, t.tree[k][i])
    <3>1. CASE k = l BY <3>1 DEF Written
    <3>2. CASE k # l
      <4>1. k \in Cached!Lists \ {l} BY <1>3, <3>2
      <4>2. t.tree[k] = s.tree[k] /\ g[t.vec[k]] = h[s.vec[k]] BY <1>4, <1>5, <4>1
      <4> QED BY <1>1, <4>2
    <3> QED BY <3>1, <3>2
  <2> QED BY <1>2, <2>1, <2>2, <2>3 DEF Sound, Written
<1>7. Apart(s, h, t, g)
  BY <1>1, <1>4 DEF Apart, Written
<1> QED BY <1>2, <1>6, <1>7

\* A list written in both of its backings.
LEMMA WriteBothKeepsSound ==
    ASSUME NEW c, Sound(c.state, c.heap), NEW l \in Cached!Lists, NEW d \in Seq(Entries), NEW tr \in Seq(Elements),
           l \in Cached!TreeLists(c.state) => Len(d) = Len(tr) /\ \A i \in 1..Len(tr) : d[i] = Cached!InVector(l, tr[i]),
           NEW sh, sh = Cached!WriteBoth(c, l, d, tr)
    PROVE  /\ Sound(sh.state, sh.heap) /\ Apart(c.state, c.heap, sh.state, sh.heap)
           /\ Cached!TreeLists(sh.state) = Cached!TreeLists(c.state)
           /\ l \in Cached!TreeLists(c.state) => sh.state.tree[l] = tr
           /\ \A k \in Cached!Lists \ {l} : sh.state.tree[k] = c.state.tree[k]
<1> DEFINE s == c.state
           h == c.heap
           ref == s.vec[l]
           list == IF l \in Cached!TreeLists(s) THEN tr ELSE s.tree[l]
           t == [fork |-> s.fork, tree |-> [s.tree EXCEPT ![l] = list],
                 vec |-> [s.vec EXCEPT ![l] = Cached!RefAfter(h, ref)]]
           g == Cached!HeapAfter(h, ref, d)
<1>1. s \in CachedStates /\ h \in Seq(Vectors) /\ ref \in 1..Len(h) BY DEF Sound
<1>2. s.tree \in [Cached!Lists -> Seq(Elements)] /\ list \in Seq(Elements) BY <1>1 DEF CachedStates
<1>3. sh.heap = g BY DEF Cached!WriteBoth
<1>4. sh.state = t
  <2>1. CASE l \in Cached!TreeLists(s) BY <1>1, <1>2, <2>1 DEF Cached!WriteBoth, CachedStates
  <2>2. CASE l \notin Cached!TreeLists(s) BY <1>1, <1>2, <2>2 DEF Cached!WriteBoth, CachedStates
  <2> QED BY <2>1, <2>2
<1>5. /\ g \in Seq(Vectors) /\ Len(h) <= Len(g) /\ Cached!RefAfter(h, ref) \in 1..Len(g)
      /\ Cached!RefAfter(h, ref) = ref \/ Cached!RefAfter(h, ref) > Len(h)
      /\ g[Cached!RefAfter(h, ref)].data = d /\ \A r \in 1..Len(h) : r # ref => g[r] = h[r]
  <2> HIDE DEF ref
  <2>1. /\ g \in Seq(Vectors) /\ Len(h) <= Len(g) /\ Cached!RefAfter(h, ref) \in 1..Len(g)
        /\ Cached!RefAfter(h, ref) = ref \/ Cached!RefAfter(h, ref) = Len(h) + 1
        /\ g[Cached!RefAfter(h, ref)].data = d /\ \A r \in 1..Len(h) : r # ref => g[r] = h[r]
    BY <1>1, HeapAfterWrite, ZenonT(40)
  <2>2. Len(h) + 1 > Len(h) BY <1>1
  <2> QED BY <2>1, <2>2
<1>6. /\ t \in CachedStates /\ t.fork = s.fork
      /\ t.tree[l] = list /\ t.vec[l] = Cached!RefAfter(h, ref)
      /\ \A k \in Cached!Lists \ {l} : t.tree[k] = s.tree[k] /\ t.vec[k] = s.vec[k]
  <2>1. s.fork \in {"phase0", "altair"} /\ s.vec \in [Cached!Lists -> Nat] BY <1>1 DEF CachedStates
  <2>2. Cached!RefAfter(h, ref) \in Nat
    <3> HIDE DEF g, ref
    <3> QED BY <1>5
  <2> HIDE DEF list
  <2> QED BY <1>2, <2>1, <2>2 DEF CachedStates
<1>7. l \in Cached!TreeLists(s) => list = tr OBVIOUS
<1> HIDE DEF t, g, list
<1>8. Written(s, h, l, t, g) BY <1>5, <1>6, <1>7 DEF Written
<1> QED BY <1>3, <1>4, <1>6, <1>7, <1>8, WriteKeepsSound

\* set and setStatus of a list that is in the tree.
LEMMA SetElementKeepsSound ==
    ASSUME NEW c, Sound(c.state, c.heap), NEW l \in Cached!TreeLists(c.state), NEW x \in EntryOf(l),
           NEW i \in 1..Len(c.heap[c.state.vec[l]].data), NEW sh,
           sh = Cached!SetElement(c, l, i, x)
    PROVE  /\ Sound(sh.state, sh.heap) /\ Apart(c.state, c.heap, sh.state, sh.heap)
           /\ Cached!TreeLists(sh.state) = Cached!TreeLists(c.state)
           /\ \A k \in Cached!Lists : Len(sh.state.tree[k]) = Len(c.state.tree[k])
<1> DEFINE s == c.state
           h == c.heap
           old == h[s.vec[l]].data
           d == [old EXCEPT ![i] = x]
           tr == [s.tree[l] EXCEPT ![i] = Cached!InTree(l, x)]
<1>1. l \in Cached!Lists BY ListsAndPlaces DEF Cached!TreeLists
<1>2. s \in CachedStates /\ h \in Seq(Vectors) /\ s.vec[l] \in 1..Len(h)
      /\ Len(old) = Len(s.tree[l])
      /\ \A j \in 1..Len(s.tree[l]) : old[j] = Cached!InVector(l, s.tree[l][j])
  BY <1>1 DEF Sound
<1>3. s.tree[l] \in Seq(Elements) BY <1>1, <1>2 DEF CachedStates
<1>4. old \in Seq(Entries)
  <2>1. h[s.vec[l]] \in Vectors BY <1>2, ElementOfSeq
  <2> QED BY <2>1 DEF Vectors
<1>5. Cached!InTree(l, x) \in Elements /\ x \in Entries /\ Cached!InVector(l, Cached!InTree(l, x)) = x
  BY EntriesReadBack
<1>6. d \in Seq(Entries) /\ Len(d) = Len(old) /\ d[i] = x
      /\ \A j \in 1..Len(d) : j # i => d[j] = old[j]
  <2>1. i \in 1..Len(old) OBVIOUS
  <2> HIDE DEF old
  <2> QED BY <1>4, <1>5, <2>1
<1>7. tr \in Seq(Elements) /\ Len(tr) = Len(s.tree[l]) /\ tr[i] = Cached!InTree(l, x)
      /\ \A j \in 1..Len(tr) : j # i => tr[j] = s.tree[l][j]
  BY <1>2, <1>3, <1>5, SMTT(20)
<1>8. Len(d) = Len(tr) /\ \A j \in 1..Len(tr) : d[j] = Cached!InVector(l, tr[j])
  <2> HIDE DEF d, tr, old
  <2> QED BY <1>2, <1>5, <1>6, <1>7
<1>9. sh = Cached!SetElement(c, l, i, x) OBVIOUS
<1>10. sh = Cached!WriteBoth(c, l, d, tr) BY <1>9, Zenon DEF Cached!SetElement, Cached!DataIn
<1> HIDE DEF d, tr
<1>11. /\ Sound(sh.state, sh.heap) /\ Apart(s, h, sh.state, sh.heap)
       /\ Cached!TreeLists(sh.state) = Cached!TreeLists(s)
       /\ sh.state.tree[l] = tr
       /\ \A k \in Cached!Lists \ {l} : sh.state.tree[k] = s.tree[k]
  BY <1>1, <1>6, <1>7, <1>8, <1>10, WriteBothKeepsSound
<1> QED BY <1>7, <1>11

\* From c to sh, list l has grown by one, in the tree if it is there.
Grown(c, l, sh) ==
    /\ Sound(sh.state, sh.heap) /\ Apart(c.state, c.heap, sh.state, sh.heap)
    /\ Cached!TreeLists(sh.state) = Cached!TreeLists(c.state)
    /\ l \in Cached!TreeLists(c.state) => Len(sh.state.tree[l]) = Len(c.state.tree[l]) + 1
    /\ \A k \in Cached!Lists \ {l} : sh.state.tree[k] = c.state.tree[k]

\* push and pushStatus.
LEMMA PushKeepsSound ==
    ASSUME NEW c, Sound(c.state, c.heap), NEW l \in Cached!Lists, NEW x \in EntryOf(l), NEW sh,
           sh = Cached!Push(c, l, x)
    PROVE  Grown(c, l, sh)
<1> DEFINE s == c.state
           h == c.heap
           old == h[s.vec[l]].data
           list == s.tree[l]
           y == Cached!InTree(l, x)
           d == Append(old, x)
           tr == Append(list, y)
<1>1. /\ s \in CachedStates /\ h \in Seq(Vectors) /\ s.vec[l] \in 1..Len(h)
      /\ l \in Cached!TreeLists(s) =>
            Len(old) = Len(list) /\ \A j \in 1..Len(list) : old[j] = Cached!InVector(l, list[j])
  BY DEF Sound
<1>2. list \in Seq(Elements) BY <1>1 DEF CachedStates
<1>3. old \in Seq(Entries)
  <2>1. h[s.vec[l]] \in Vectors BY <1>1, ElementOfSeq
  <2> QED BY <2>1 DEF Vectors
<1>4. y \in Elements /\ x \in Entries /\ Cached!InVector(l, y) = x
  BY EntriesReadBack
<1>5. sh = Cached!Push(c, l, x) OBVIOUS
<1>6. sh = Cached!WriteBoth(c, l, d, tr) BY <1>5, Zenon DEF Cached!Push, Cached!DataIn
<1>7. l \in Cached!TreeLists(s) => Len(s.tree[l]) = Len(list) OBVIOUS
<1> HIDE DEF old, list, y
<1>8. /\ d \in Seq(Entries) /\ Len(d) = Len(old) + 1 /\ d[Len(old) + 1] = x
      /\ \A j \in 1..Len(old) : d[j] = old[j]
  BY <1>3, <1>4
<1>9. /\ tr \in Seq(Elements) /\ Len(tr) = Len(list) + 1 /\ tr[Len(list) + 1] = y
      /\ \A j \in 1..Len(list) : tr[j] = list[j]
  BY <1>2, <1>4
<1>10. l \in Cached!TreeLists(s) => Len(d) = Len(tr) /\ \A j \in 1..Len(tr) : d[j] = Cached!InVector(l, tr[j])
  <2> HAVE l \in Cached!TreeLists(s)
  <2>1. Len(d) = Len(tr) BY <1>1, <1>8, <1>9
  <2>2. Len(list) \in Nat BY <1>2
  <2> HIDE DEF d, tr
  <2>3. \A j \in 1..Len(tr) : j = Len(list) + 1 \/ j \in 1..Len(list)
    BY <1>9, <2>2
  <2> QED BY <1>1, <1>4, <1>8, <1>9, <2>1, <2>3
<1> HIDE DEF d, tr
<1>11. /\ Sound(sh.state, sh.heap) /\ Apart(s, h, sh.state, sh.heap)
       /\ Cached!TreeLists(sh.state) = Cached!TreeLists(s)
       /\ l \in Cached!TreeLists(s) => sh.state.tree[l] = tr
       /\ \A k \in Cached!Lists \ {l} : sh.state.tree[k] = s.tree[k]
  BY <1>6, <1>8, <1>9, <1>10, WriteBothKeepsSound
<1> QED BY <1>7, <1>9, <1>11 DEF Grown

\* updateAll of the balances, with as many of them.
LEMMA UpdateAllKeepsSound ==
    ASSUME NEW s, NEW h, Sound(s, h), NEW balances \in Seq(Elements), NEW sh,
           sh = Cached!UpdateAll([state |-> s, heap |-> h], balances)
    PROVE  /\ Sound(sh.state, sh.heap) /\ Apart(s, h, sh.state, sh.heap)
           /\ Cached!TreeLists(sh.state) = Cached!TreeLists(s)
           /\ sh.state.tree["balances"] = balances
           /\ \A k \in Cached!Lists \ {"balances"} : sh.state.tree[k] = s.tree[k]
<1> DEFINE l == "balances"
           w == Cached!Vector(FALSE, balances)
           g == Append(h, w)
           t == [fork |-> s.fork, tree |-> [s.tree EXCEPT ![l] = balances], vec |-> [s.vec EXCEPT ![l] = Len(h) + 1]]
<1>1. l \in Cached!Lists BY ListsAndPlaces
<1>2. s \in CachedStates /\ h \in Seq(Vectors) /\ s.vec[l] \in 1..Len(h) BY <1>1 DEF Sound
<1>3. balances \in Seq(Entries) BY DEF Entries
<1>4. w \in Vectors /\ w.data = balances BY <1>3 DEF Vectors, Cached!Vector
<1>5. sh.state = t /\ sh.heap = g BY <1>1, <1>2 DEF Cached!UpdateAll, CachedStates
<1>6. g \in Seq(Vectors) /\ Len(g) = Len(h) + 1 /\ g[Len(h) + 1] = w /\ \A r \in 1..Len(h) : g[r] = h[r]
  <2> HIDE DEF w
  <2> QED BY <1>2, <1>4
<1>7. \A i \in 1..Len(balances) : balances[i] = Cached!InVector(l, balances[i])
  BY DEF Cached!InVector, Cached!Participation
<1>8. Len(h) + 1 \in 1..Len(g) /\ Len(h) + 1 > Len(h) /\ Len(h) <= Len(g) BY <1>2, <1>6
<1>9. g[Len(h) + 1].data = balances BY <1>4, <1>6
<1>10. /\ t \in CachedStates /\ t.fork = s.fork /\ t.tree[l] = balances /\ t.vec[l] = Len(h) + 1
       /\ \A k \in Cached!Lists \ {l} : t.tree[k] = s.tree[k] /\ t.vec[k] = s.vec[k]
  BY <1>1, <1>2 DEF CachedStates
<1> HIDE DEF t, g, w, l
<1>11. Written(s, h, l, t, g) BY <1>6, <1>7, <1>8, <1>9, <1>10 DEF Written
<1> QED BY <1>1, <1>5, <1>10, <1>11, WriteKeepsSound DEF l

\* What two writes leave alone, one after the other.
LEMMA ApartTwice ==
    ASSUME NEW s, NEW h, NEW t, NEW g, NEW u, NEW f, Sound(s, h), Sound(t, g), Sound(u, f),
           Apart(s, h, t, g), Apart(t, g, u, f)
    PROVE  Apart(s, h, u, f)
<1>1. Len(h) \in Nat /\ Len(g) \in Nat /\ Len(f) \in Nat BY DEF Sound
<1>2. \A l \in Cached!Lists : s.vec[l] \in Nat /\ t.vec[l] \in Nat /\ u.vec[l] \in Nat BY DEF Sound
<1>3. Len(h) <= Len(f) BY <1>1 DEF Apart
<1>4. ASSUME NEW r \in 1..Len(h), \A l \in Cached!Lists : s.vec[l] # r PROVE f[r] = h[r]
  <2>1. g[r] = h[r] BY <1>4 DEF Apart
  <2>2. \A l \in Cached!Lists : t.vec[l] # r BY <1>1, <1>2, <1>4 DEF Apart
  <2>3. r \in 1..Len(g) BY <1>1 DEF Apart
  <2> QED BY <2>1, <2>2, <2>3 DEF Apart
<1>5. ASSUME NEW l \in Cached!Lists PROVE u.vec[l] > Len(h) \/ \E k \in Cached!Lists : u.vec[l] = s.vec[k]
  <2>1. CASE u.vec[l] > Len(g) BY <1>1, <1>2, <2>1 DEF Apart
  <2>2. CASE \E k \in Cached!Lists : u.vec[l] = t.vec[k]
    <3>1. PICK k \in Cached!Lists : u.vec[l] = t.vec[k] BY <2>2
    <3>2. t.vec[k] > Len(h) \/ \E m \in Cached!Lists : t.vec[k] = s.vec[m] BY DEF Apart
    <3> QED BY <3>1, <3>2
  <2> QED BY <2>1, <2>2 DEF Apart
<1> QED BY <1>3, <1>4, <1>5 DEF Apart

\* Five vectors more, behind those that are there.
LEMMA FiveMore ==
    ASSUME NEW h \in Seq(Vectors), NEW five \in [1..5 -> Vectors]
    PROVE  /\ h \o five \in Seq(Vectors) /\ Len(h \o five) = Len(h) + 5
           /\ \A r \in 1..Len(h) : (h \o five)[r] = h[r]
           /\ \A k \in 1..5 : (h \o five)[Len(h) + k] = five[k]
<1>1. five \in Seq(Vectors) /\ Len(five) = 5
  <2>1. five \in UNION {[1..n -> Vectors] : n \in Nat} BY Zenon
  <2>2. five \in Seq(Vectors) BY <2>1, SeqDef, Zenon
  <2>3. DOMAIN five = 1..Len(five) /\ Len(five) \in Nat BY <2>2, LenProperties
  <2>4. 1..5 = 1..Len(five) BY <2>3
  <2> HIDE DEF Vectors
  <2> QED BY <2>2, <2>3, <2>4
<1>2. h \o five \in Seq(Vectors) /\ Len(h \o five) = Len(h) + 5
  <2>1. h \o five \in Seq(Vectors) /\ Len(h \o five) = Len(h) + Len(five) BY <1>1, ConcatProperties
  <2> QED BY <1>1, <2>1
<1>3. \A r \in 1..(Len(h) + 5) : (h \o five)[r] = IF r <= Len(h) THEN h[r] ELSE five[r - Len(h)]
  <2>1. \A r \in 1..(Len(h) + Len(five)) : (h \o five)[r] = IF r <= Len(h) THEN h[r] ELSE five[r - Len(h)]
    BY <1>1, ConcatProperties
  <2> QED BY <1>1, <2>1, Zenon
<1>4. \A r \in 1..Len(h) : (h \o five)[r] = h[r]
  <2> TAKE r \in 1..Len(h)
  <2>1. Len(h) \in Nat OBVIOUS
  <2>2. r \in 1..(Len(h) + 5) /\ r <= Len(h) BY <2>1
  <2> QED BY <1>3, <2>2
<1>5. \A k \in 1..5 : (h \o five)[Len(h) + k] = five[k]
  <2> TAKE k \in 1..5
  <2>1. Len(h) \in Nat OBVIOUS
  <2>2. Len(h) + k \in 1..(Len(h) + 5) /\ ~(Len(h) + k <= Len(h)) /\ (Len(h) + k) - Len(h) = k BY <2>1
  <2> QED BY <1>3, <2>2
<1> QED BY <1>2, <1>4, <1>5

\* The vectors that createCachedBeaconState builds.
LEMMA LoadedIsSound ==
    ASSUME NEW s \in CachedStates, NEW h \in Seq(Vectors), NEW sh, sh = Cached!Loaded(s, h)
    PROVE  /\ Sound(sh.state, sh.heap)
           /\ Len(h) <= Len(sh.heap) /\ \A r \in 1..Len(h) : sh.heap[r] = h[r]
           /\ \A l \in Cached!Lists : sh.state.vec[l] > Len(h)
           /\ sh.state.tree = s.tree /\ Cached!TreeLists(sh.state) = Cached!TreeLists(s)
<1> DEFINE five == [k \in 1..5 |-> Cached!Vector(FALSE, Cached!VectorsOf(s)[Cached!Order[k]])]
           g == h \o five
           vec == [l \in Cached!Lists |-> Len(h) + Cached!Position(l)]
           t == [fork |-> s.fork, tree |-> s.tree, vec |-> vec]
<1>1. s.fork \in {"phase0", "altair"} /\ s.tree \in [Cached!Lists -> Seq(Elements)] BY DEF CachedStates
<1>2. Cached!TreeLists(s) \subseteq Cached!Lists BY ListsAndPlaces DEF Cached!TreeLists
<1>3. ASSUME NEW l \in Cached!Lists PROVE Cached!VectorsOf(s)[l] \in Seq(Entries)
  <2>1. CASE l \in Cached!TreeLists(s)
    <3>1. Cached!VectorsOf(s)[l] = [i \in 1..Len(s.tree[l]) |-> Cached!InVector(l, s.tree[l][i])]
      BY <2>1 DEF Cached!VectorsOf
    <3>2. \A i \in 1..Len(s.tree[l]) : s.tree[l][i] \in Elements BY <1>1
    <3>3. \A i \in 1..Len(s.tree[l]) : Cached!InVector(l, s.tree[l][i]) \in Entries
      BY <3>2, ReadIsEntry DEF EntryOf, Entries
    <3>4. Len(s.tree[l]) \in Nat BY <1>1
    <3> QED BY <3>1, <3>3, <3>4
  <2>2. CASE l \notin Cached!TreeLists(s)
    <3>1. Cached!VectorsOf(s)[l] = [i \in 1..Len(s.tree["validators"]) |-> {}] \/ Cached!VectorsOf(s)[l] = <<>>
      BY <2>2 DEF Cached!VectorsOf
    <3>2. Len(s.tree["validators"]) \in Nat BY <1>1, ListsAndPlaces
    <3>3. {} \in Entries BY DEF Entries
    <3>4. [i \in 1..Len(s.tree["validators"]) |-> {}] \in Seq(Entries) BY <3>2, <3>3
    <3>5. <<>> \in Seq(Entries) BY EmptySeq
    <3> QED BY <3>1, <3>4, <3>5
  <2> QED BY <2>1, <2>2
<1>4. five \in [1..5 -> Vectors]
  <2> SUFFICES ASSUME NEW k \in 1..5 PROVE Cached!Vector(FALSE, Cached!VectorsOf(s)[Cached!Order[k]]) \in Vectors OBVIOUS
  <2>1. Cached!VectorsOf(s)[Cached!Order[k]] \in Seq(Entries) BY <1>3, ListsAndPlaces
  <2> QED BY <2>1 DEF Cached!Vector, Vectors
<1>5. /\ g \in Seq(Vectors) /\ Len(g) = Len(h) + 5
      /\ \A r \in 1..Len(h) : g[r] = h[r]
      /\ \A k \in 1..5 : g[Len(h) + k] = five[k]
  <2> HIDE DEF five
  <2> QED BY <1>4, FiveMore
<1>6. sh.state = t /\ sh.heap = g
  <2>1. sh.heap = g BY Zenon DEF Cached!Loaded
  <2>2. sh.state = [s EXCEPT !.vec = vec] BY DEF Cached!Loaded
  <2> QED BY <2>1, <2>2 DEF CachedStates
<1>7. Len(h) \in Nat OBVIOUS
<1>8. \A l \in Cached!Lists : vec[l] = Len(h) + Cached!Position(l) /\ Cached!Position(l) \in 1..5
  BY ListsAndPlaces
<1>9. t \in CachedStates
  <2>1. vec \in [Cached!Lists -> Nat] BY <1>7, ListsAndPlaces, SMTT(30)
  <2> HIDE DEF vec
  <2> QED BY <1>1, <2>1 DEF CachedStates
<1>10. t.fork = s.fork /\ t.tree = s.tree /\ t.vec = vec OBVIOUS
<1>11. Cached!TreeLists(t) = Cached!TreeLists(s) BY DEF Cached!TreeLists
<1>12. \A l \in Cached!Lists : g[vec[l]].data = Cached!VectorsOf(s)[l]
  <2> TAKE l \in Cached!Lists
  <2>1. Cached!Position(l) \in 1..5 /\ Cached!Order[Cached!Position(l)] = l BY ListsAndPlaces
  <2>2. five[Cached!Position(l)].data = Cached!VectorsOf(s)[l] BY <2>1 DEF Cached!Vector
  <2> HIDE DEF five, g
  <2> QED BY <1>5, <1>8, <2>1, <2>2
<1> HIDE DEF five, g, vec, t
<1>13. \A l \in Cached!Lists : vec[l] \in 1..Len(g) /\ vec[l] > Len(h) BY <1>5, <1>7, <1>8, SMTT(30)
<1>14. \A l, k \in Cached!Lists : vec[l] = vec[k] => l = k
  <2> SUFFICES ASSUME NEW l \in Cached!Lists, NEW k \in Cached!Lists, vec[l] = vec[k] PROVE l = k OBVIOUS
  <2>1. Cached!Position(l) = Cached!Position(k) BY <1>7, <1>8
  <2> QED BY <2>1, ListsAndPlaces
<1>15. \A l \in Cached!TreeLists(s) :
          /\ Len(g[vec[l]].data) = Len(s.tree[l])
          /\ \A i \in 1..Len(s.tree[l]) : g[vec[l]].data[i] = Cached!InVector(l, s.tree[l][i])
  <2> TAKE l \in Cached!TreeLists(s)
  <2>1. l \in Cached!Lists BY <1>2
  <2>2. Cached!VectorsOf(s)[l] = [i \in 1..Len(s.tree[l]) |-> Cached!InVector(l, s.tree[l][i])]
    BY <2>1 DEF Cached!VectorsOf
  <2>3. Len(s.tree[l]) \in Nat BY <1>1, <2>1
  <2> QED BY <1>12, <2>1, <2>2, <2>3
<1>16. Sound(t, g) BY <1>5, <1>9, <1>10, <1>11, <1>13, <1>14, <1>15 DEF Sound
<1> QED BY <1>5, <1>6, <1>7, <1>10, <1>11, <1>13, <1>16

-----------------------------------------------------------------------------
\* The state of a transition becomes another one that is sound, and takes no vector from the others.
LEMMA BecomesKeepsInv ==
    ASSUME CachedInv, r3 # 0, NEW sh, Cached!Becomes(sh),
           Sound(sh.state, sh.heap), Even(sh.state), Apart(r1[r3], r2, sh.state, sh.heap)
    PROVE  CachedInv'
<1>1. /\ r1 \in Seq(CachedStates) /\ r2 \in Seq(Vectors) /\ r3 = Len(r1) /\ r3 > 1 /\ r3 \in 1..Len(r1)
      /\ \A b \in 1..Len(r1) : Sound(r1[b], r2) /\ Even(r1[b])
      /\ \A b, c \in 1..Len(r1) : \A l, k \in Cached!Lists : r1[b].vec[l] = r1[c].vec[k] => b = c
  BY DEF CachedInv
<1>2. r1' = [r1 EXCEPT ![r3] = sh.state] /\ r2' = sh.heap /\ r3' = r3 BY DEF Cached!Becomes
<1>3. sh.state \in CachedStates /\ sh.heap \in Seq(Vectors) BY DEF Sound
<1>4. /\ r1' \in Seq(CachedStates) /\ Len(r1') = Len(r1) /\ r1'[r3] = sh.state
      /\ \A b \in 1..Len(r1) : b # r3 => r1'[b] = r1[b]
  BY <1>1, <1>2, <1>3
<1>5. \A b \in 1..Len(r1) : \A l \in Cached!Lists : r1[b].vec[l] \in 1..Len(r2) BY <1>1 DEF Sound
<1>6. \A b \in 1..Len(r1) : b # r3 => \A l \in Cached!Lists : r2'[r1[b].vec[l]] = r2[r1[b].vec[l]]
  BY <1>1, <1>2, <1>5, SMTT(30) DEF Apart
<1>7. Len(r2) \in Nat /\ Len(r2') \in Nat /\ Len(r2) <= Len(r2') BY <1>1, <1>2, <1>3 DEF Apart
<1>8. ASSUME NEW b \in 1..Len(r1), b # r3 PROVE Sound(r1[b], r2')
  <2>1. Sound(r1[b], r2) BY <1>1
  <2>2. Cached!TreeLists(r1[b]) \subseteq Cached!Lists BY ListsAndPlaces DEF Cached!TreeLists
  <2>3. \A l \in Cached!Lists : r2'[r1[b].vec[l]] = r2[r1[b].vec[l]] BY <1>6, <1>8
  <2>4. \A l \in Cached!Lists : r1[b].vec[l] \in 1..Len(r2') BY <1>5, <1>7
  <2>5. \A l \in Cached!TreeLists(r1[b]) :
          /\ Len(r2'[r1[b].vec[l]].data) = Len(r1[b].tree[l])
          /\ \A i \in 1..Len(r1[b].tree[l]) : r2'[r1[b].vec[l]].data[i] = Cached!InVector(l, r1[b].tree[l][i])
    <3> TAKE l \in Cached!TreeLists(r1[b])
    <3>1. r2'[r1[b].vec[l]] = r2[r1[b].vec[l]] BY <2>2, <2>3
    <3> QED BY <2>1, <3>1, SMTT(20) DEF Sound
  <2> QED BY <1>2, <1>3, <2>1, <2>4, <2>5 DEF Sound
<1>9. \A b \in 1..Len(r1') : Sound(r1'[b], r2') /\ Even(r1'[b])
  BY <1>1, <1>2, <1>4, <1>8
<1>10. ASSUME NEW b \in 1..Len(r1), b # r3, NEW l \in Cached!Lists, NEW k \in Cached!Lists
       PROVE  r1[b].vec[l] # sh.state.vec[k]
  <2>1. r1[b].vec[l] \in 1..Len(r2) BY <1>5
  <2>2. \A m \in Cached!Lists : r1[b].vec[l] # r1[r3].vec[m] BY <1>1, <1>10
  <2> QED BY <1>7, <2>1, <2>2 DEF Apart
<1>11. \A b, c \in 1..Len(r1') : \A l, k \in Cached!Lists : r1'[b].vec[l] = r1'[c].vec[k] => b = c
  <2> SUFFICES ASSUME NEW b \in 1..Len(r1), NEW c \in 1..Len(r1), NEW l \in Cached!Lists, NEW k \in Cached!Lists,
                      r1'[b].vec[l] = r1'[c].vec[k]
               PROVE  b = c
    BY <1>4
  <2>1. CASE b # r3 /\ c # r3 BY <1>1, <1>4, <2>1
  <2>2. CASE b = r3 /\ c # r3 BY <1>4, <1>10, <2>2
  <2>3. CASE b # r3 /\ c = r3 BY <1>4, <1>10, <2>3
  <2> QED BY <2>1, <2>2, <2>3
<1> QED BY <1>1, <1>2, <1>3, <1>4, <1>9, <1>11 DEF CachedInv

\* What the state of a transition is.
LEMMA CurrentIsSound ==
    ASSUME CachedInv, r3 # 0
    PROVE  /\ Cached!Current.state = r1[r3] /\ Cached!Current.heap = r2
           /\ Sound(r1[r3], r2) /\ Even(r1[r3])
           /\ \A l \in Cached!Lists : Cached!Data(r1[r3], l) = r2[r1[r3].vec[l]].data
           /\ {"validators", "balances"} \subseteq Cached!TreeLists(r1[r3])
           /\ r1[r3].fork = "altair" => Cached!TreeLists(r1[r3]) = Cached!Lists
<1>1. r3 \in 1..Len(r1) BY DEF CachedInv
<1>2. Cached!Current.state = r1[r3] /\ Cached!Current.heap = r2 BY DEF Cached!Current
<1>3. {"validators", "balances"} \subseteq Cached!TreeLists(r1[r3])
  BY ListsAndPlaces DEF Cached!TreeLists
<1>4. r1[r3].fork = "altair" => Cached!TreeLists(r1[r3]) = Cached!Lists BY DEF Cached!TreeLists
<1> QED BY <1>1, <1>2, <1>3, <1>4 DEF CachedInv, Cached!Data

\* One element of a list that is in the tree.
LEMMA SetElementKeepsInv ==
    ASSUME CachedInv, r3 # 0, NEW l \in Cached!TreeLists(r1[r3]), NEW x \in EntryOf(l),
           NEW i \in Nat \ {0}, i <= Len(Cached!Data(r1[r3], l)),
           Cached!Becomes(Cached!SetElement(Cached!Current, l, i, x))
    PROVE  CachedInv'
<1>1. PICK sh : sh = Cached!SetElement(Cached!Current, l, i, x) OBVIOUS
<1>2. l \in Cached!Lists BY ListsAndPlaces DEF Cached!TreeLists
<1>3. /\ Cached!Current.state = r1[r3] /\ Cached!Current.heap = r2 /\ Sound(r1[r3], r2) /\ Even(r1[r3])
      /\ Cached!Data(r1[r3], l) = r2[r1[r3].vec[l]].data
  BY <1>2, CurrentIsSound
<1>4. i \in 1..Len(r2[r1[r3].vec[l]].data)
  <2>1. r2[r1[r3].vec[l]] \in Vectors BY <1>2, <1>3, ElementOfSeq DEF Sound
  <2>2. Len(r2[r1[r3].vec[l]].data) \in Nat BY <2>1 DEF Vectors
  <2> QED BY <1>3, <2>2
<1>5. /\ Sound(sh.state, sh.heap) /\ Apart(r1[r3], r2, sh.state, sh.heap)
      /\ Cached!TreeLists(sh.state) = Cached!TreeLists(r1[r3])
      /\ \A k \in Cached!Lists : Len(sh.state.tree[k]) = Len(r1[r3].tree[k])
  BY <1>1, <1>3, <1>4, SetElementKeepsSound, SMTT(30)
<1>6. Even(sh.state)
  <2>1. Cached!TreeLists(r1[r3]) \subseteq Cached!Lists /\ "validators" \in Cached!Lists
    BY ListsAndPlaces DEF Cached!TreeLists
  <2> QED BY <1>3, <1>5, <2>1 DEF Even
<1> QED BY <1>1, <1>5, <1>6, BecomesKeepsInv

\* increaseBalance, validators.update, setStatus and processInactivityUpdates.
LEMMA SetsKeepInv ==
    ASSUME CachedInv, NEW i \in 1..MaxValidators,
           \/ \E x \in Values : Cached!SetBalance(i, x) \/ Cached!UpdateValidator(i, x) \/ Cached!SetInactivityScore(i, x)
           \/ \E l \in Cached!Participation, status \in Statuses : Cached!SetStatus(l, i, status)
    PROVE  CachedInv'
<1>1. i \in Nat \ {0} BY DEF CachedInv
<1>2. \A x \in Values : x \in EntryOf("balances") /\ x \in EntryOf("validators") /\ x \in EntryOf("inactivity")
  BY DEF EntryOf, Elements, Cached!Participation
<1>3. CASE \E x \in Values : Cached!SetBalance(i, x)
  <2>1. PICK x \in Values : Cached!SetBalance(i, x) BY <1>3
  <2>2. r3 # 0 /\ "balances" \in Cached!TreeLists(r1[r3]) BY <2>1, CurrentIsSound DEF Cached!SetBalance
  <2> QED BY <1>1, <1>2, <2>1, <2>2, SetElementKeepsInv DEF Cached!SetBalance
<1>4. CASE \E x \in Values : Cached!UpdateValidator(i, x)
  <2>1. PICK x \in Values : Cached!UpdateValidator(i, x) BY <1>4
  <2>2. r3 # 0 /\ "validators" \in Cached!TreeLists(r1[r3])
    BY <2>1, CurrentIsSound DEF Cached!UpdateValidator
  <2> QED BY <1>1, <1>2, <2>1, <2>2, SetElementKeepsInv DEF Cached!UpdateValidator
<1>5. CASE \E x \in Values : Cached!SetInactivityScore(i, x)
  <2>1. PICK x \in Values : Cached!SetInactivityScore(i, x) BY <1>5
  <2>2. r3 # 0 /\ "inactivity" \in Cached!TreeLists(r1[r3])
    BY <2>1, CurrentIsSound, ListsAndPlaces DEF Cached!SetInactivityScore
  <2> QED BY <1>1, <1>2, <2>1, <2>2, SetElementKeepsInv DEF Cached!SetInactivityScore
<1>6. CASE \E l \in Cached!Participation, status \in Statuses : Cached!SetStatus(l, i, status)
  <2>1. PICK l \in Cached!Participation, status \in Statuses : Cached!SetStatus(l, i, status) BY <1>6
  <2>2. r3 # 0 /\ l \in Cached!TreeLists(r1[r3]) /\ l \in Cached!Lists
    BY <2>1, CurrentIsSound, ListsAndPlaces DEF Cached!SetStatus, Cached!Participation
  <2>3. /\ i <= Len(Cached!Data(r1[r3], l)) /\ Cached!Data(r1[r3], l) = r2[r1[r3].vec[l]].data
        /\ Sound(r1[r3], r2)
    BY <2>1, <2>2, CurrentIsSound DEF Cached!SetStatus
  <2>4. i \in 1..Len(r1[r3].tree[l]) /\ r1[r3].tree[l] \in Seq(Elements)
    <3>1. r1[r3] \in CachedStates /\ Len(r2[r1[r3].vec[l]].data) = Len(r1[r3].tree[l])
      BY <2>2, <2>3 DEF Sound
    <3>2. r1[r3].tree[l] \in Seq(Elements) BY <2>2, <3>1 DEF CachedStates
    <3> QED BY <1>1, <2>3, <3>1, <3>2
  <2>5. Cached!Get(r1[r3], l, i) \in EntryOf(l)
    <3>1. Cached!Get(r1[r3], l, i) = Cached!InVector(l, r1[r3].tree[l][i])
      BY <2>2, <2>3, <2>4 DEF Sound, Cached!Get
    <3> QED BY <2>4, <3>1, ReadIsEntry, ElementOfSeq
  <2>6. Cached!Get(r1[r3], l, i) \cup status \in EntryOf(l) BY <2>5, StatusesAssumption DEF EntryOf
  <2> QED BY <1>1, <2>1, <2>2, <2>3, <2>6, SetElementKeepsInv DEF Cached!SetStatus
<1> QED BY <1>3, <1>4, <1>5, <1>6

\* processRewardsAndPenalties.
LEMMA UpdateAllBalancesKeepsInv ==
    ASSUME CachedInv, NEW x \in Values, Cached!UpdateAllBalances(x)
    PROVE  CachedInv'
<1> DEFINE n == Len(Cached!Data(r1[r3], "balances"))
           balances == [i \in 1..n |-> x]
<1>1. r3 # 0 BY DEF Cached!UpdateAllBalances
<1>2. /\ Cached!Current = [state |-> r1[r3], heap |-> r2] /\ Sound(r1[r3], r2) /\ Even(r1[r3])
      /\ Cached!Data(r1[r3], "balances") = r2[r1[r3].vec["balances"]].data
      /\ "balances" \in Cached!TreeLists(r1[r3])
  BY <1>1, CurrentIsSound, ListsAndPlaces DEF Cached!Current
<1>3. n = Len(r1[r3].tree["balances"]) BY <1>2 DEF Sound
<1>4. n \in Nat /\ n = Len(r1[r3].tree["validators"])
  <2>1. r1[r3].tree["balances"] \in Seq(Elements) BY <1>2, ListsAndPlaces DEF Sound, CachedStates
  <2> QED BY <1>2, <1>3, <2>1 DEF Even
<1>5. PICK sh : sh = Cached!UpdateAll(Cached!Current, balances) OBVIOUS
<1>6. Cached!Becomes(sh) BY <1>5 DEF Cached!UpdateAllBalances
<1> HIDE DEF n
<1>7. balances \in Seq(Elements) /\ Len(balances) = n BY <1>4 DEF Elements
<1> HIDE DEF balances
<1>8. /\ Sound(sh.state, sh.heap) /\ Apart(r1[r3], r2, sh.state, sh.heap)
      /\ Cached!TreeLists(sh.state) = Cached!TreeLists(r1[r3])
      /\ sh.state.tree["balances"] = balances
      /\ \A k \in Cached!Lists \ {"balances"} : sh.state.tree[k] = r1[r3].tree[k]
  BY <1>2, <1>5, <1>7, UpdateAllKeepsSound
<1>9. Even(sh.state)
  <2>1. Cached!TreeLists(r1[r3]) \subseteq Cached!Lists /\ "validators" \in Cached!Lists
    BY ListsAndPlaces DEF Cached!TreeLists
  <2> QED BY <1>2, <1>4, <1>7, <1>8, <2>1 DEF Even
<1> QED BY <1>1, <1>6, <1>8, <1>9, BecomesKeepsInv

\* processDeposit of a new validator.
LEMMA ProcessDepositKeepsInv ==
    ASSUME CachedInv, NEW x \in Values, Cached!ProcessDeposit(x)
    PROVE  CachedInv'
<1>1. r3 # 0 BY DEF Cached!ProcessDeposit
<1>2. PICK c : c = Cached!Current OBVIOUS
<1>3. PICK c1 : c1 = Cached!Push(c, "validators", x) OBVIOUS
<1>4. PICK c2 : c2 = Cached!Push(c1, "balances", x) OBVIOUS
<1>5. PICK c3 : c3 = Cached!Push(c2, "previous", {}) OBVIOUS
<1>6. PICK c4 : c4 = Cached!Push(c3, "current", {}) OBVIOUS
<1>7. PICK c5 : c5 = Cached!Push(c4, "inactivity", 0) OBVIOUS
<1>8. Cached!Becomes(IF r1[r3].fork = "altair" THEN c5 ELSE c4)
  BY <1>2, <1>3, <1>4, <1>5, <1>6, <1>7 DEF Cached!ProcessDeposit
<1>9. /\ c.state = r1[r3] /\ c.heap = r2 /\ Sound(c.state, c.heap) /\ Even(c.state)
  BY <1>1, <1>2, CurrentIsSound
<1>10. /\ x \in EntryOf("balances") /\ x \in EntryOf("validators") /\ 0 \in EntryOf("inactivity")
       /\ {} \in EntryOf("previous") /\ {} \in EntryOf("current")
  BY DEF EntryOf, Elements, Cached!Participation
<1>11. Cached!Lists = {"validators", "balances", "previous", "current", "inactivity"} BY ListsAndPlaces
<1>11a. /\ "validators" \in Cached!Lists /\ "balances" \in Cached!Lists /\ "previous" \in Cached!Lists
       /\ "current" \in Cached!Lists /\ "inactivity" \in Cached!Lists
  BY <1>11
<1>12. /\ Sound(c1.state, c1.heap) /\ Apart(c.state, c.heap, c1.state, c1.heap)
       /\ Cached!TreeLists(c1.state) = Cached!TreeLists(c.state)
       /\ "validators" \in Cached!TreeLists(c.state) => Len(c1.state.tree["validators"]) = Len(c.state.tree["validators"]) + 1
       /\ \A k \in Cached!Lists \ {"validators"} : c1.state.tree[k] = c.state.tree[k]
  <2>1. Grown(c, "validators", c1) BY <1>3, <1>10, <1>11a, <1>9, PushKeepsSound
  <2> QED BY <2>1 DEF Grown
<1>13. /\ Sound(c2.state, c2.heap) /\ Apart(c1.state, c1.heap, c2.state, c2.heap)
       /\ Cached!TreeLists(c2.state) = Cached!TreeLists(c.state)
       /\ "balances" \in Cached!TreeLists(c.state) => Len(c2.state.tree["balances"]) = Len(c1.state.tree["balances"]) + 1
       /\ \A k \in Cached!Lists \ {"balances"} : c2.state.tree[k] = c1.state.tree[k]
  <2>1. Grown(c1, "balances", c2) BY <1>4, <1>10, <1>11a, <1>12, PushKeepsSound
  <2> QED BY <2>1, <1>12 DEF Grown
<1>14. /\ Sound(c3.state, c3.heap) /\ Apart(c2.state, c2.heap, c3.state, c3.heap)
       /\ Cached!TreeLists(c3.state) = Cached!TreeLists(c.state)
       /\ "previous" \in Cached!TreeLists(c.state) => Len(c3.state.tree["previous"]) = Len(c2.state.tree["previous"]) + 1
       /\ \A k \in Cached!Lists \ {"previous"} : c3.state.tree[k] = c2.state.tree[k]
  <2>1. Grown(c2, "previous", c3) BY <1>5, <1>10, <1>11a, <1>13, PushKeepsSound
  <2> QED BY <2>1, <1>13 DEF Grown
<1>15. /\ Sound(c4.state, c4.heap) /\ Apart(c3.state, c3.heap, c4.state, c4.heap)
       /\ Cached!TreeLists(c4.state) = Cached!TreeLists(c.state)
       /\ "current" \in Cached!TreeLists(c.state) => Len(c4.state.tree["current"]) = Len(c3.state.tree["current"]) + 1
       /\ \A k \in Cached!Lists \ {"current"} : c4.state.tree[k] = c3.state.tree[k]
  <2>1. Grown(c3, "current", c4) BY <1>6, <1>10, <1>11a, <1>14, PushKeepsSound
  <2> QED BY <2>1, <1>14 DEF Grown
<1>16. /\ Sound(c5.state, c5.heap) /\ Apart(c4.state, c4.heap, c5.state, c5.heap)
       /\ Cached!TreeLists(c5.state) = Cached!TreeLists(c.state)
       /\ "inactivity" \in Cached!TreeLists(c.state) => Len(c5.state.tree["inactivity"]) = Len(c4.state.tree["inactivity"]) + 1
       /\ \A k \in Cached!Lists \ {"inactivity"} : c5.state.tree[k] = c4.state.tree[k]
  <2>1. Grown(c4, "inactivity", c5) BY <1>7, <1>10, <1>11a, <1>15, PushKeepsSound
  <2> QED BY <2>1, <1>15 DEF Grown
<1>17. Apart(c.state, c.heap, c2.state, c2.heap) BY <1>9, <1>12, <1>13, ApartTwice
<1>18. Apart(c.state, c.heap, c3.state, c3.heap) BY <1>9, <1>13, <1>14, <1>17, ApartTwice
<1>19. Apart(c.state, c.heap, c4.state, c4.heap) BY <1>9, <1>14, <1>15, <1>18, ApartTwice
<1>20. Apart(c.state, c.heap, c5.state, c5.heap) BY <1>9, <1>15, <1>16, <1>19, ApartTwice
<1>21. \A l \in Cached!TreeLists(c.state) : Len(c.state.tree[l]) = Len(c.state.tree["validators"])
  BY <1>9 DEF Even
<1>22. /\ "validators" \in Cached!TreeLists(c.state) /\ "balances" \in Cached!TreeLists(c.state)
       /\ r1[r3].fork # "altair" => Cached!TreeLists(c.state) = {"validators", "balances"}
  <2>1. r1[r3].fork \in {"phase0", "altair"} BY <1>9 DEF Sound, CachedStates
  <2> QED BY <1>9, <1>11, <2>1 DEF Cached!TreeLists
<1>23. CASE r1[r3].fork = "altair"
  <2>1. Cached!TreeLists(c.state) = Cached!Lists BY <1>9, <1>23 DEF Cached!TreeLists
  <2>2. \A l \in Cached!Lists : Len(c5.state.tree[l]) = Len(c.state.tree["validators"]) + 1
    <3>1. /\ c5.state.tree["validators"] = c1.state.tree["validators"]
          /\ c5.state.tree["balances"] = c2.state.tree["balances"] /\ c1.state.tree["balances"] = c.state.tree["balances"]
          /\ c5.state.tree["previous"] = c3.state.tree["previous"] /\ c2.state.tree["previous"] = c.state.tree["previous"]
          /\ c5.state.tree["current"] = c4.state.tree["current"] /\ c3.state.tree["current"] = c.state.tree["current"]
          /\ c4.state.tree["inactivity"] = c.state.tree["inactivity"]
      BY <1>12, <1>13, <1>14, <1>15, <1>16, <1>11a
    <3>2. \A l \in Cached!Lists : Len(c.state.tree[l]) = Len(c.state.tree["validators"]) BY <1>21, <2>1
    <3>3. /\ Len(c1.state.tree["validators"]) = Len(c.state.tree["validators"]) + 1
          /\ Len(c2.state.tree["balances"]) = Len(c1.state.tree["balances"]) + 1
          /\ Len(c3.state.tree["previous"]) = Len(c2.state.tree["previous"]) + 1
          /\ Len(c4.state.tree["current"]) = Len(c3.state.tree["current"]) + 1
          /\ Len(c5.state.tree["inactivity"]) = Len(c4.state.tree["inactivity"]) + 1
      BY <1>12, <1>13, <1>14, <1>15, <1>16, <1>11a, <2>1
    <3>4. /\ Len(c5.state.tree["validators"]) = Len(c.state.tree["validators"]) + 1
          /\ Len(c5.state.tree["balances"]) = Len(c.state.tree["validators"]) + 1
          /\ Len(c5.state.tree["previous"]) = Len(c.state.tree["validators"]) + 1
          /\ Len(c5.state.tree["current"]) = Len(c.state.tree["validators"]) + 1
          /\ Len(c5.state.tree["inactivity"]) = Len(c.state.tree["validators"]) + 1
      BY <1>11a, <3>1, <3>2, <3>3, Zenon
    <3> QED BY <1>11, <3>4
  <2>3. Even(c5.state) BY <1>11, <1>16, <2>1, <2>2 DEF Even
  <2> QED BY <1>1, <1>8, <1>9, <1>16, <1>20, <1>23, <2>3, BecomesKeepsInv
<1>24. CASE r1[r3].fork # "altair"
  <2>1. \A l \in {"validators", "balances"} : Len(c4.state.tree[l]) = Len(c.state.tree["validators"]) + 1
    <3>1. /\ c4.state.tree["validators"] = c1.state.tree["validators"]
          /\ c4.state.tree["balances"] = c2.state.tree["balances"] /\ c1.state.tree["balances"] = c.state.tree["balances"]
      BY <1>12, <1>13, <1>14, <1>15, <1>11a
    <3>2. /\ Len(c1.state.tree["validators"]) = Len(c.state.tree["validators"]) + 1
          /\ Len(c2.state.tree["balances"]) = Len(c1.state.tree["balances"]) + 1
      BY <1>12, <1>13, <1>22
    <3>3. Len(c.state.tree["balances"]) = Len(c.state.tree["validators"]) BY <1>21, <1>22
    <3> QED BY <3>1, <3>2, <3>3, Zenon
  <2>2. Even(c4.state) BY <1>15, <1>22, <1>24, <2>1 DEF Even
  <2> QED BY <1>1, <1>8, <1>9, <1>15, <1>19, <1>24, <2>2, BecomesKeepsInv
<1> QED BY <1>23, <1>24

\* processParticipationFlagUpdates: the previous epoch takes over the vector of the current one.
LEMMA EndOfEpochKeepsInv ==
    ASSUME CachedInv, Cached!EndOfEpoch
    PROVE  CachedInv'
<1> DEFINE s == r1[r3]
           d == r2[s.vec["current"]].data
           n == Len(Cached!Data(s, "validators"))
           none == Cached!Vector(FALSE, [i \in 1..n |-> {}])
           g == Append(r2, none)
           prev == [i \in 1..Len(d) |-> Cached!InTree("previous", d[i])]
           cur == [i \in 1..n |-> Cached!InTree("current", {})]
           t == [fork |-> s.fork, tree |-> [s.tree EXCEPT !["previous"] = prev, !["current"] = cur],
                 vec |-> [s.vec EXCEPT !["previous"] = s.vec["current"], !["current"] = Len(r2) + 1]]
<1>1. r3 # 0 /\ s.fork = "altair" BY DEF Cached!EndOfEpoch
<1>2. /\ Sound(s, r2) /\ Even(s) /\ Cached!TreeLists(s) = Cached!Lists
      /\ Cached!Data(s, "validators") = r2[s.vec["validators"]].data
  BY <1>1, CurrentIsSound, ListsAndPlaces
<1>3. /\ "validators" \in Cached!Lists /\ "balances" \in Cached!Lists /\ "previous" \in Cached!Lists
      /\ "current" \in Cached!Lists /\ "inactivity" \in Cached!Lists
  BY ListsAndPlaces
<1>4. /\ s \in CachedStates /\ r2 \in Seq(Vectors)
      /\ (\A l \in Cached!Lists : s.vec[l] \in 1..Len(r2))
      /\ (\A l, k \in Cached!Lists : s.vec[l] = s.vec[k] => l = k)
      /\ \A l \in Cached!Lists :
            /\ Len(r2[s.vec[l]].data) = Len(s.tree[l])
            /\ \A i \in 1..Len(s.tree[l]) : r2[s.vec[l]].data[i] = Cached!InVector(l, s.tree[l][i])
  BY <1>2 DEF Sound
<1>5. s.tree \in [Cached!Lists -> Seq(Elements)] /\ s.vec \in [Cached!Lists -> Nat]
  BY <1>4 DEF CachedStates
<1>6. \A l \in Cached!Lists : Len(s.tree[l]) = Len(s.tree["validators"]) BY <1>2 DEF Even
<1>7. n \in Nat /\ n = Len(s.tree["validators"]) /\ Len(d) = n
  <2>1. n = Len(s.tree["validators"]) BY <1>2, <1>3, <1>4
  <2>2. Len(d) = Len(s.tree["current"]) BY <1>3, <1>4
  <2>3. s.tree["validators"] \in Seq(Elements) BY <1>3, <1>5
  <2> QED BY <1>3, <1>6, <2>1, <2>2, <2>3
<1>8. \A i \in 1..n : d[i] \in SUBSET Cached!TIMELY_FLAGS
  <2> TAKE i \in 1..n
  <2>1. Len(s.tree["current"]) = n BY <1>3, <1>6, <1>7
  <2>2. s.tree["current"][i] \in Elements BY <1>3, <1>5, <2>1, ElementOfSeq
  <2>3. d[i] = Cached!InVector("current", s.tree["current"][i]) BY <1>3, <1>4, <2>1
  <2> QED BY <2>2, <2>3, ReadIsEntry DEF EntryOf, Cached!Participation
<1>9. PICK sh : sh = Cached!ProcessParticipationFlagUpdates(Cached!Current, n) OBVIOUS
<1>10. Cached!Becomes(sh) BY <1>9 DEF Cached!EndOfEpoch
<1>11. sh.state = t /\ sh.heap = g
  <2> DEFINE c == Cached!Current
             rot == Cached!UpdateAllStatus(c, "previous", c.state.vec["current"])
             c2 == [rot EXCEPT !.heap = Append(rot.heap, none)]
  <2>1. c.state = s /\ c.heap = r2 BY <1>1, CurrentIsSound
  <2>2. sh = Cached!UpdateAllStatus(c2, "current", Len(Append(rot.heap, none)))
    BY <1>9, Zenon DEF Cached!ProcessParticipationFlagUpdates
  <2> HIDE DEF none, c
  <2>3. rot.heap = r2 /\ DOMAIN rot = {"state", "heap"} BY <2>1 DEF Cached!UpdateAllStatus
  <2>4. rot.state = [s EXCEPT !.vec["previous"] = s.vec["current"], !.tree["previous"] = prev]
    BY <1>2, <1>3, <2>1 DEF Cached!UpdateAllStatus
  <2>5. c2.state = rot.state /\ c2.heap = g BY <2>3
  <2>6. Len(Append(rot.heap, none)) = Len(r2) + 1 /\ g[Len(r2) + 1] = none BY <1>4, <2>3
  <2>7. none.data = [i \in 1..n |-> {}] /\ Len(none.data) = n BY <1>7 DEF none, Cached!Vector
  <2>8. Cached!TreeLists(rot.state) = Cached!Lists
    <3>1. rot.state.fork = "altair" BY <1>1, <1>4, <2>4 DEF CachedStates
    <3> HIDE DEF rot
    <3> QED BY <3>1 DEF Cached!TreeLists
  <2> HIDE DEF rot, c2, g, prev
  <2>9. sh.heap = g BY <2>2, <2>5 DEF Cached!UpdateAllStatus
  <2>10. sh.state = [rot.state EXCEPT !.vec["current"] = Len(r2) + 1,
                                      !.tree["current"] = [i \in 1..Len(none.data) |-> Cached!InTree("current", none.data[i])]]
    BY <1>3, <2>2, <2>5, <2>6, <2>8 DEF Cached!UpdateAllStatus
  <2>11. [i \in 1..Len(none.data) |-> Cached!InTree("current", none.data[i])] = cur BY <2>7
  <2> HIDE DEF cur
  <2> QED BY <1>3, <1>4, <1>5, <2>4, <2>9, <2>10, <2>11 DEF CachedStates
<1>12. /\ Len(prev) = n /\ Len(cur) = n /\ prev \in Seq(Elements) /\ cur \in Seq(Elements)
       /\ \A i \in 1..n : d[i] = Cached!InVector("previous", prev[i])
       /\ \A i \in 1..n : Cached!InVector("current", cur[i]) = {}
  <2>1. \A i \in 1..n : /\ Cached!InTree("previous", d[i]) \in Elements
                        /\ Cached!InVector("previous", Cached!InTree("previous", d[i])) = d[i]
    BY <1>8, EntriesReadBack DEF EntryOf, Cached!Participation
  <2>2. Cached!InTree("current", {}) \in Elements /\ Cached!InVector("current", Cached!InTree("current", {})) = {}
    BY EntriesReadBack DEF EntryOf, Cached!Participation
  <2> HIDE DEF d, n
  <2> QED BY <1>7, <2>1, <2>2
<1>13. g \in Seq(Vectors) /\ Len(g) = Len(r2) + 1 /\ g[Len(r2) + 1] = none /\ \A r \in 1..Len(r2) : g[r] = r2[r]
  <2>1. none \in Vectors
    <3>1. {} \in Entries BY DEF Entries
    <3>2. [i \in 1..n |-> {}] \in Seq(Entries) BY <1>7, <3>1
    <3> QED BY <3>2 DEF Cached!Vector, Vectors
  <2> HIDE DEF none
  <2> QED BY <1>4, <2>1
<1>14. none.data = [i \in 1..n |-> {}] /\ Len(none.data) = n BY <1>7 DEF Cached!Vector
<1> HIDE DEF prev, cur, none, g, n
<1>15. /\ t.fork = s.fork /\ t.vec["previous"] = s.vec["current"] /\ t.vec["current"] = Len(r2) + 1
       /\ t.tree["previous"] = prev /\ t.tree["current"] = cur
       /\ \A l \in Cached!Lists \ {"previous", "current"} : t.vec[l] = s.vec[l] /\ t.tree[l] = s.tree[l]
  BY <1>3, <1>5
<1>16. t \in CachedStates
  <2>1. s.fork \in {"phase0", "altair"} /\ Len(r2) \in Nat BY <1>4 DEF CachedStates
  <2>2. [s.tree EXCEPT !["previous"] = prev, !["current"] = cur] \in [Cached!Lists -> Seq(Elements)]
    BY <1>3, <1>5, <1>12
  <2>3. [s.vec EXCEPT !["previous"] = s.vec["current"], !["current"] = Len(r2) + 1] \in [Cached!Lists -> Nat]
    <3>1. s.vec["current"] \in Nat BY <1>3, <1>5
    <3>2. [s.vec EXCEPT !["previous"] = s.vec["current"]] \in [Cached!Lists -> Nat] BY <1>5, <3>1
    <3> HIDE DEF s
    <3> QED BY <1>3, <2>1, <3>2
  <2> QED BY <2>1, <2>2, <2>3 DEF CachedStates
<1>17. Cached!TreeLists(t) = Cached!Lists BY <1>1, <1>15 DEF Cached!TreeLists
<1> HIDE DEF t
<1>18. \A l \in Cached!Lists : t.vec[l] \in 1..Len(g) /\ (t.vec[l] = Len(r2) + 1 \/ \E k \in Cached!Lists : t.vec[l] = s.vec[k])
  <2> TAKE l \in Cached!Lists
  <2>1. Len(r2) \in Nat BY <1>4
  <2>2. CASE l = "current" BY <1>13, <1>15, <2>1, <2>2
  <2>3. CASE l = "previous" BY <1>3, <1>4, <1>13, <1>15, <2>1, <2>3
  <2>4. CASE l \notin {"current", "previous"} BY <1>4, <1>13, <1>15, <2>1, <2>4
  <2> QED BY <2>2, <2>3, <2>4
<1>19. \A l, k \in Cached!Lists : t.vec[l] = t.vec[k] => l = k
  <2> SUFFICES ASSUME NEW l \in Cached!Lists, NEW k \in Cached!Lists, t.vec[l] = t.vec[k] PROVE l = k OBVIOUS
  <2>1. Len(r2) \in Nat /\ \A m \in Cached!Lists : s.vec[m] # Len(r2) + 1 BY <1>4
  <2>2. CASE l = "current"
    <3>1. CASE k = "previous" BY <1>3, <1>15, <2>1, <2>2, <3>1
    <3>2. CASE k \notin {"previous", "current"} BY <1>15, <2>1, <2>2, <3>2
    <3> QED BY <2>2, <3>1, <3>2
  <2>3. CASE l = "previous"
    <3>1. CASE k = "current" BY <1>3, <1>15, <2>1, <2>3, <3>1
    <3>2. CASE k \notin {"previous", "current"} BY <1>3, <1>4, <1>15, <2>3, <3>2
    <3> QED BY <2>3, <3>1, <3>2
  <2>4. CASE l \notin {"previous", "current"}
    <3>1. CASE k = "current" BY <1>15, <2>1, <2>4, <3>1
    <3>2. CASE k = "previous" BY <1>3, <1>4, <1>15, <2>4, <3>2
    <3>3. CASE k \notin {"previous", "current"} BY <1>4, <1>15, <2>4, <3>3
    <3> QED BY <3>1, <3>2, <3>3
  <2> QED BY <2>2, <2>3, <2>4
<1>20. \A l \in Cached!Lists :
          /\ Len(g[t.vec[l]].data) = Len(t.tree[l]) /\ Len(t.tree[l]) = n
          /\ \A i \in 1..Len(t.tree[l]) : g[t.vec[l]].data[i] = Cached!InVector(l, t.tree[l][i])
  <2> TAKE l \in Cached!Lists
  <2>1. CASE l = "current" BY <1>12, <1>13, <1>14, <1>15, <2>1
  <2>2. CASE l = "previous"
    <3>1. g[t.vec[l]].data = d /\ t.tree[l] = prev BY <1>3, <1>4, <1>13, <1>15, <2>2
    <3> HIDE DEF d
    <3> QED BY <1>7, <1>12, <2>2, <3>1
  <2>3. CASE l \notin {"current", "previous"}
    <3>1. g[t.vec[l]] = r2[s.vec[l]] /\ t.tree[l] = s.tree[l] BY <1>4, <1>13, <1>15, <2>3
    <3>2. Len(s.tree[l]) = n BY <1>6, <1>7
    <3> QED BY <1>4, <3>1, <3>2, SMTT(30)
  <2> QED BY <2>1, <2>2, <2>3
<1>21. Sound(t, g) BY <1>13, <1>16, <1>17, <1>18, <1>19, <1>20 DEF Sound
<1>22. Even(t) BY <1>3, <1>17, <1>20 DEF Even
<1>23. Apart(s, r2, t, g)
  <2>1. Len(r2) \in Nat BY <1>4
  <2>2. \A l \in Cached!Lists : t.vec[l] > Len(r2) \/ \E k \in Cached!Lists : t.vec[l] = s.vec[k]
    BY <1>18, <2>1
  <2>3. Len(r2) <= Len(g) BY <1>13, <2>1
  <2> QED BY <1>13, <2>2, <2>3 DEF Apart
<1> QED BY <1>1, <1>10, <1>11, <1>21, <1>22, <1>23, BecomesKeepsInv

\* upgradeState.
LEMMA UpgradeStateKeepsInv ==
    ASSUME CachedInv, Cached!UpgradeState
    PROVE  CachedInv'
<1> DEFINE s == r1[r3]
           zeros == [i \in 1..Len(s.tree["validators"]) |-> 0]
           tree == [s.tree EXCEPT !["previous"] = zeros, !["current"] = zeros, !["inactivity"] = zeros]
           u == [fork |-> "altair", tree |-> tree, vec |-> s.vec]
<1>1. r3 # 0 BY DEF Cached!UpgradeState
<1>2. /\ Sound(s, r2) /\ Even(s) /\ "balances" \in Cached!TreeLists(s) BY <1>1, CurrentIsSound
<1>3. /\ "validators" \in Cached!Lists /\ "balances" \in Cached!Lists /\ "previous" \in Cached!Lists
      /\ "current" \in Cached!Lists /\ "inactivity" \in Cached!Lists
  BY ListsAndPlaces
<1>4. s \in CachedStates /\ r2 \in Seq(Vectors) BY <1>2 DEF Sound
<1>5. s.tree \in [Cached!Lists -> Seq(Elements)] /\ s.vec \in [Cached!Lists -> Nat]
  BY <1>4 DEF CachedStates
<1>6. zeros \in Seq(Elements) /\ Len(zeros) = Len(s.tree["validators"])
  <2>0. s.tree["validators"] \in Seq(Elements) BY <1>3, <1>5
  <2>1. Len(s.tree["validators"]) \in Nat BY <2>0
  <2>2. 0 \in Elements BY DEF Elements
  <2> QED BY <2>1, <2>2
<1>7. [s EXCEPT !.fork = "altair", !.tree["previous"] = zeros, !.tree["current"] = zeros, !.tree["inactivity"] = zeros] = u
  <2> DEFINE u0 == [fork |-> "altair", tree |-> s.tree, vec |-> s.vec]
             u1 == [fork |-> "altair", tree |-> [s.tree EXCEPT !["previous"] = zeros], vec |-> s.vec]
             u2 == [fork |-> "altair", tree |-> [s.tree EXCEPT !["previous"] = zeros, !["current"] = zeros], vec |-> s.vec]
  <2> HIDE DEF zeros
  <2>1. [s EXCEPT !.fork = "altair"] = u0 BY <1>4 DEF CachedStates
  <2>2. [u0 EXCEPT !.tree["previous"] = zeros] = u1 OBVIOUS
  <2>3. [u1 EXCEPT !.tree["current"] = zeros] = u2 OBVIOUS
  <2>4. [u2 EXCEPT !.tree["inactivity"] = zeros] = u OBVIOUS
  <2> HIDE DEF u0, u1, u2, u
  <2> QED BY <2>1, <2>2, <2>3, <2>4
<1>8. PICK sh : sh = Cached!Loaded(u, r2) OBVIOUS
<1>9. Cached!Becomes(sh) BY <1>7, <1>8 DEF Cached!UpgradeState
<1> HIDE DEF zeros
<1>10. /\ tree["validators"] = s.tree["validators"] /\ tree["balances"] = s.tree["balances"]
       /\ tree["previous"] = zeros /\ tree["current"] = zeros /\ tree["inactivity"] = zeros
       /\ tree \in [Cached!Lists -> Seq(Elements)]
  BY <1>3, <1>5, <1>6
<1>11. u \in CachedStates BY <1>5, <1>10 DEF CachedStates
<1>12. u.tree = tree OBVIOUS
<1> HIDE DEF u, tree
<1>13. /\ Sound(sh.state, sh.heap)
       /\ Len(r2) <= Len(sh.heap) /\ \A r \in 1..Len(r2) : sh.heap[r] = r2[r]
       /\ \A l \in Cached!Lists : sh.state.vec[l] > Len(r2)
       /\ sh.state.tree = tree
  BY <1>4, <1>8, <1>11, <1>12, LoadedIsSound
<1>14. Apart(s, r2, sh.state, sh.heap) BY <1>13 DEF Apart
<1>15. Even(sh.state)
  <2>1. Len(s.tree["balances"]) = Len(s.tree["validators"]) BY <1>2 DEF Even
  <2>2. \A l \in Cached!Lists : Len(tree[l]) = Len(tree["validators"])
    BY <1>6, <1>10, <2>1, ListsAndPlaces
  <2>3. Cached!TreeLists(sh.state) \subseteq Cached!Lists BY ListsAndPlaces DEF Cached!TreeLists
  <2> QED BY <1>13, <2>2, <2>3 DEF Even
<1> QED BY <1>1, <1>9, <1>13, <1>14, <1>15, BecomesKeepsInv

\* The clone that a transition begins with.
LEMMA CloneKeepsInv ==
    ASSUME CachedInv, NEW p \in 1..Len(r1), Cached!Clone(p)
    PROVE  CachedInv'
<1> DEFINE s == r1[p]
           copy(l) == Cached!Vector(r2[s.vec[l]].transient \/ l # "inactivity", Cached!Data(s, l))
           five == [k \in 1..5 |-> copy(Cached!Order[k])]
           g == r2 \o five
           vec == [l \in Cached!Lists |-> Len(r2) + Cached!Position(l)]
           t == [fork |-> s.fork, tree |-> s.tree, vec |-> vec]
<1>1. /\ r1 \in Seq(CachedStates) /\ r2 \in Seq(Vectors) /\ Len(r1) \in Nat /\ Len(r2) \in Nat
      /\ (\A b \in 1..Len(r1) : Sound(r1[b], r2) /\ Even(r1[b]))
      /\ \A b, c \in 1..Len(r1) : \A l, k \in Cached!Lists : r1[b].vec[l] = r1[c].vec[k] => b = c
  BY DEF CachedInv
<1>2. Sound(s, r2) /\ Even(s) /\ s \in CachedStates BY <1>1 DEF Sound
<1>3. \A l \in Cached!Lists : s.vec[l] \in 1..Len(r2) /\ r2[s.vec[l]] \in Vectors
  BY <1>1, <1>2, ElementOfSeq DEF Sound
<1>4. \A l \in Cached!Lists : copy(l) \in Vectors /\ copy(l).data = r2[s.vec[l]].data
  <2> TAKE l \in Cached!Lists
  <2>1. r2[s.vec[l]].data \in Seq(Entries) /\ r2[s.vec[l]].transient \in BOOLEAN BY <1>3 DEF Vectors
  <2>2. (r2[s.vec[l]].transient \/ l # "inactivity") \in BOOLEAN OBVIOUS
  <2> QED BY <2>1, <2>2 DEF Cached!Vector, Cached!Data, Vectors
<1>5. five \in [1..5 -> Vectors] BY <1>4, ListsAndPlaces
<1>6. r1' = Append(r1, t) /\ r2' = g /\ r3' = Len(r1) + 1
  <2>1. Cached!CloneVectors(s).heap = g /\ Cached!CloneVectors(s).vec = vec BY DEF Cached!CloneVectors
  <2>2. [s EXCEPT !.vec = vec] = t BY <1>2 DEF CachedStates
  <2> QED BY <2>1, <2>2 DEF Cached!Clone
<1> HIDE DEF copy
<1>7. \A l \in Cached!Lists : five[Cached!Position(l)].data = r2[s.vec[l]].data
  BY <1>4, ListsAndPlaces
<1> HIDE DEF five
<1>8. /\ g \in Seq(Vectors) /\ Len(g) = Len(r2) + 5
      /\ \A r \in 1..Len(r2) : g[r] = r2[r]
      /\ \A k \in 1..5 : g[Len(r2) + k] = five[k]
  BY <1>1, <1>5, FiveMore
<1>9. \A l \in Cached!Lists : vec[l] = Len(r2) + Cached!Position(l) /\ Cached!Position(l) \in 1..5
  BY ListsAndPlaces
<1>10. t \in CachedStates /\ t.tree = s.tree /\ t.vec = vec /\ Cached!TreeLists(t) = Cached!TreeLists(s)
  <2>1. vec \in [Cached!Lists -> Nat]
    <3>1. \A l \in Cached!Lists : Len(r2) + Cached!Position(l) \in Nat
      <4> TAKE l \in Cached!Lists
      <4>1. Cached!Position(l) \in 1..5 BY <1>9
      <4> QED BY <1>1, <4>1
    <3> QED BY <3>1
  <2> HIDE DEF vec
  <2> QED BY <1>2, <2>1 DEF CachedStates, Cached!TreeLists
<1> HIDE DEF g, vec, t
<1>11. \A l \in Cached!Lists : g[vec[l]].data = r2[s.vec[l]].data
  <2> TAKE l \in Cached!Lists
  <2>1. vec[l] = Len(r2) + Cached!Position(l) /\ Cached!Position(l) \in 1..5 BY <1>9
  <2>2. g[vec[l]] = five[Cached!Position(l)] BY <1>8, <2>1
  <2> QED BY <1>7, <2>2
<1>12. \A l \in Cached!Lists : vec[l] \in 1..Len(g) /\ vec[l] > Len(r2)
  <2> TAKE l \in Cached!Lists
  <2>1. vec[l] = Len(r2) + Cached!Position(l) /\ Cached!Position(l) \in 1..5 BY <1>9
  <2>2. Len(r2) \in Nat /\ Len(g) = Len(r2) + 5 BY <1>1, <1>8
  <2> QED BY <2>1, <2>2
<1>13. \A l, k \in Cached!Lists : vec[l] = vec[k] => l = k
  <2> SUFFICES ASSUME NEW l \in Cached!Lists, NEW k \in Cached!Lists, vec[l] = vec[k] PROVE l = k OBVIOUS
  <2>1. Cached!Position(l) = Cached!Position(k) BY <1>1, <1>9, SMTT(30)
  <2> QED BY <2>1, ListsAndPlaces
<1>14. Sound(t, g)
  <2>1. Cached!TreeLists(s) \subseteq Cached!Lists BY ListsAndPlaces DEF Cached!TreeLists
  <2>2. \A l \in Cached!TreeLists(s) :
          /\ Len(g[vec[l]].data) = Len(s.tree[l])
          /\ \A i \in 1..Len(s.tree[l]) : g[vec[l]].data[i] = Cached!InVector(l, s.tree[l][i])
    <3> TAKE l \in Cached!TreeLists(s)
    <3>1. g[vec[l]].data = r2[s.vec[l]].data BY <1>11, <2>1
    <3> QED BY <1>2, <3>1 DEF Sound
  <2> QED BY <1>8, <1>10, <1>12, <1>13, <2>2 DEF Sound
<1>15. Even(t) BY <1>2, <1>10 DEF Even
<1>16. /\ r1' \in Seq(CachedStates) /\ Len(r1') = Len(r1) + 1 /\ r1'[Len(r1) + 1] = t
       /\ \A b \in 1..Len(r1) : r1'[b] = r1[b]
  BY <1>1, <1>6, <1>10
<1>17. ASSUME NEW b \in 1..Len(r1) PROVE Sound(r1[b], g)
  <2>1. Sound(r1[b], r2) BY <1>1
  <2>2. Cached!TreeLists(r1[b]) \subseteq Cached!Lists BY ListsAndPlaces DEF Cached!TreeLists
  <2>3. \A l \in Cached!Lists : r1[b].vec[l] \in 1..Len(r2) BY <2>1 DEF Sound
  <2>4. \A l \in Cached!Lists : r1[b].vec[l] \in 1..Len(g) /\ g[r1[b].vec[l]] = r2[r1[b].vec[l]]
    <3> TAKE l \in Cached!Lists
    <3>1. r1[b].vec[l] \in 1..Len(r2) BY <2>3
    <3>2. g[r1[b].vec[l]] = r2[r1[b].vec[l]] BY <1>8, <3>1
    <3>3. Len(g) = Len(r2) + 5 /\ Len(r2) \in Nat BY <1>1, <1>8
    <3>4. r1[b].vec[l] \in 1..Len(g) BY <3>1, <3>3
    <3> QED BY <3>2, <3>4
  <2>5. \A l \in Cached!TreeLists(r1[b]) :
          /\ Len(g[r1[b].vec[l]].data) = Len(r1[b].tree[l])
          /\ \A i \in 1..Len(r1[b].tree[l]) : g[r1[b].vec[l]].data[i] = Cached!InVector(l, r1[b].tree[l][i])
    <3> TAKE l \in Cached!TreeLists(r1[b])
    <3>1. g[r1[b].vec[l]] = r2[r1[b].vec[l]] BY <2>2, <2>4
    <3> QED BY <2>1, <3>1 DEF Sound
  <2> QED BY <1>8, <2>1, <2>4, <2>5 DEF Sound
<1>18. \A b \in 1..Len(r1') : b = Len(r1) + 1 \/ b \in 1..Len(r1) BY <1>1, <1>16
<1>19. \A b \in 1..Len(r1') : Sound(r1'[b], r2') /\ Even(r1'[b])
  BY <1>1, <1>6, <1>14, <1>15, <1>16, <1>17, <1>18
<1>20. \A b \in 1..Len(r1) : \A l \in Cached!Lists : r1[b].vec[l] \in Nat /\ r1[b].vec[l] <= Len(r2)
  BY <1>1 DEF Sound
<1>21. \A l \in Cached!Lists : t.vec[l] \in Nat /\ t.vec[l] > Len(r2) BY <1>10, <1>12
<1>22. \A b, c \in 1..Len(r1') : \A l, k \in Cached!Lists : r1'[b].vec[l] = r1'[c].vec[k] => b = c
  <2> SUFFICES ASSUME NEW b \in 1..Len(r1'), NEW c \in 1..Len(r1'), NEW l \in Cached!Lists, NEW k \in Cached!Lists,
                      r1'[b].vec[l] = r1'[c].vec[k]
               PROVE  b = c
    OBVIOUS
  <2>1. CASE b \in 1..Len(r1) /\ c \in 1..Len(r1) BY <1>1, <1>16, <2>1
  <2>2. CASE b = Len(r1) + 1 /\ c \in 1..Len(r1) BY <1>1, <1>16, <1>20, <1>21, <2>2
  <2>3. CASE b \in 1..Len(r1) /\ c = Len(r1) + 1 BY <1>1, <1>16, <1>20, <1>21, <2>3
  <2> QED BY <1>18, <2>1, <2>2, <2>3
<1>23. r3' = Len(r1') /\ r3' > 1 BY <1>1, <1>6, <1>16
<1> QED BY <1>6, <1>8, <1>16, <1>19, <1>22, <1>23 DEF CachedInv

\* setStateCachesAsPersistent: the vectors read as before.
LEMMA PersistentKeepsInv ==
    ASSUME CachedInv, Cached!SetStateCachesAsPersistent
    PROVE  CachedInv'
<1> DEFINE ends(r) == \E l \in {"validators", "balances", "previous"} : r1[r3].vec[l] = r
           made(r) == IF ends(r) THEN Cached!Vector(FALSE, r2[r].data) ELSE r2[r]
<1>1. /\ r1 \in Seq(CachedStates) /\ r2 \in Seq(Vectors)
      /\ \A b \in 1..Len(r1) : Sound(r1[b], r2) /\ Even(r1[b])
      /\ \A b, c \in 1..Len(r1) : \A l, k \in Cached!Lists : r1[b].vec[l] = r1[c].vec[k] => b = c
  BY DEF CachedInv
<1>2. r2' = [r \in DOMAIN r2 |-> made(r)] /\ r3' = 0 /\ r1' = r1
  BY DEF Cached!SetStateCachesAsPersistent
<1>3. DOMAIN r2 = 1..Len(r2) /\ Len(r2) \in Nat BY <1>1
<1>4. \A r \in 1..Len(r2) : made(r) \in Vectors /\ made(r).data = r2[r].data
  <2> TAKE r \in 1..Len(r2)
  <2>1. r2[r] \in Vectors BY <1>1, ElementOfSeq
  <2>2. r2[r].data \in Seq(Entries) BY <2>1 DEF Vectors
  <2>3. Cached!Vector(FALSE, r2[r].data) \in Vectors /\ Cached!Vector(FALSE, r2[r].data).data = r2[r].data
    BY <2>2 DEF Cached!Vector, Vectors
  <2> QED BY <2>1, <2>3
<1> HIDE DEF made
<1>5. /\ r2' \in Seq(Vectors) /\ Len(r2') = Len(r2)
      /\ \A r \in 1..Len(r2) : r2'[r].data = r2[r].data
  <2>1. r2' = [r \in 1..Len(r2) |-> made(r)] BY <1>2, <1>3
  <2>2. r2' \in Seq(Vectors) BY <1>3, <1>4, <2>1
  <2>3. Len(r2') = Len(r2) BY <1>3, <2>1
  <2> QED BY <1>4, <2>1, <2>2, <2>3
<1>6. ASSUME NEW b \in 1..Len(r1) PROVE Sound(r1[b], r2')
  <2>1. Sound(r1[b], r2) BY <1>1
  <2>2. Cached!TreeLists(r1[b]) \subseteq Cached!Lists BY ListsAndPlaces DEF Cached!TreeLists
  <2>3. \A l \in Cached!Lists : r1[b].vec[l] \in 1..Len(r2) BY <2>1 DEF Sound
  <2>4. \A l \in Cached!TreeLists(r1[b]) :
          /\ Len(r2'[r1[b].vec[l]].data) = Len(r1[b].tree[l])
          /\ \A i \in 1..Len(r1[b].tree[l]) : r2'[r1[b].vec[l]].data[i] = Cached!InVector(l, r1[b].tree[l][i])
    <3> TAKE l \in Cached!TreeLists(r1[b])
    <3>1. r2'[r1[b].vec[l]].data = r2[r1[b].vec[l]].data BY <1>5, <2>2, <2>3
    <3> QED BY <2>1, <3>1 DEF Sound
  <2> QED BY <1>5, <2>1, <2>3, <2>4 DEF Sound
<1> QED BY <1>1, <1>2, <1>5, <1>6 DEF CachedInv

\* A bounded set of natural numbers that is not empty has its Max.
LEMMA GreatestOf ==
    ASSUME NEW n \in Nat, NEW T \in SUBSET (0..n), T # {}
    PROVE  Cached!Max(T) \in T /\ \A y \in T : y <= Cached!Max(T)
<1> DEFINE U == {n - y : y \in T}
<1>1. U \in SUBSET Nat /\ U # {}
  <2>1. \A y \in T : n - y \in Nat OBVIOUS
  <2>2. PICK y \in T : TRUE OBVIOUS
  <2>3. n - y \in U OBVIOUS
  <2> QED BY <2>1, <2>3
<1>2. PICK u \in U : \A v \in U : u <= v BY <1>1, LeastOf
<1>3. PICK x \in T : u = n - x OBVIOUS
<1>4. \A y \in T : n - x <= n - y BY <1>2, <1>3
<1>5. \A y \in T : x >= y BY <1>4
<1>6. \E z \in T : \A y \in T : z >= y BY <1>5
<1>7. Cached!Max(T) \in T /\ \A y \in T : Cached!Max(T) >= y BY <1>6 DEF Cached!Max
<1>8. Cached!Max(T) \in 0..n BY <1>7
<1> QED BY <1>7, <1>8

\* A transition that throws leaves the states that were there before it.
LEMMA ThrowsKeepsInv ==
    ASSUME CachedInv, Cached!TransitionThrows
    PROVE  CachedInv'
<1> DEFINE T == UNION {{r1[b].vec[l] : l \in Cached!Lists} : b \in 1..(r3 - 1)}
           m == Cached!Max(T)
<1>1. /\ r1 \in Seq(CachedStates) /\ r2 \in Seq(Vectors) /\ Len(r2) \in Nat
      /\ r3 = Len(r1) /\ r3 > 1 /\ r3 \in Nat
      /\ (\A b \in 1..Len(r1) : Sound(r1[b], r2) /\ Even(r1[b]))
      /\ \A b, c \in 1..Len(r1) : \A l, k \in Cached!Lists : r1[b].vec[l] = r1[c].vec[k] => b = c
  BY DEF CachedInv, Cached!TransitionThrows
<1>2. r1' = SubSeq(r1, 1, r3 - 1) /\ r2' = SubSeq(r2, 1, m) /\ r3' = 0 BY DEF Cached!TransitionThrows
<1>3. \A b \in 1..(r3 - 1) : \A l \in Cached!Lists : r1[b].vec[l] \in T /\ r1[b].vec[l] \in 1..Len(r2)
  <2> TAKE b \in 1..(r3 - 1)
  <2> TAKE l \in Cached!Lists
  <2>1. b \in 1..Len(r1) BY <1>1
  <2>2. r1[b].vec[l] \in T OBVIOUS
  <2> QED BY <1>1, <2>1, <2>2 DEF Sound
<1>4. T \in SUBSET (0..Len(r2)) /\ T # {}
  <2>1. \A y \in T : \E b \in 1..(r3 - 1) : \E l \in Cached!Lists : y = r1[b].vec[l] OBVIOUS
  <2>2. 1 \in 1..(r3 - 1) /\ "validators" \in Cached!Lists BY <1>1, ListsAndPlaces
  <2>3. r1[1].vec["validators"] \in T BY <1>3, <2>2
  <2> HIDE DEF T
  <2>4. \A y \in T : y \in 1..Len(r2) BY <1>3, <2>1
  <2>5. \A y \in T : y \in 0..Len(r2) BY <1>1, <2>4
  <2> QED BY <2>3, <2>5
<1>5. m \in T /\ \A y \in T : y <= m
  <2> HIDE DEF T
  <2> QED BY <1>1, <1>4, GreatestOf
<1>6. m \in 0..Len(r2) BY <1>4, <1>5
<1> HIDE DEF T, m
<1>7. /\ r1' \in Seq(CachedStates) /\ Len(r1') = r3 - 1
      /\ \A b \in 1..(r3 - 1) : r1'[b] = r1[b] /\ b \in 1..Len(r1)
  <2>1. \A b \in 1..(r3 - 1) : b \in 1..Len(r1) /\ r1[b] \in CachedStates BY <1>1, ElementOfSeq
  <2> QED BY <1>1, <1>2, <2>1, SubSeqProperties
<1>8. /\ r2' \in Seq(Vectors) /\ Len(r2') = m
      /\ \A r \in 1..m : r2'[r] = r2[r]
  <2>1. \A r \in 1..m : r \in 1..Len(r2) /\ r2[r] \in Vectors BY <1>1, <1>6, ElementOfSeq
  <2> QED BY <1>1, <1>2, <1>6, <2>1, SubSeqProperties
<1>9. ASSUME NEW b \in 1..(r3 - 1) PROVE Sound(r1[b], r2')
  <2>1. Sound(r1[b], r2) BY <1>1, <1>7
  <2>2. Cached!TreeLists(r1[b]) \subseteq Cached!Lists BY ListsAndPlaces DEF Cached!TreeLists
  <2>3. \A l \in Cached!Lists : r1[b].vec[l] \in 1..m BY <1>3, <1>5, <1>6
  <2>4. \A l \in Cached!TreeLists(r1[b]) :
          /\ Len(r2'[r1[b].vec[l]].data) = Len(r1[b].tree[l])
          /\ \A i \in 1..Len(r1[b].tree[l]) : r2'[r1[b].vec[l]].data[i] = Cached!InVector(l, r1[b].tree[l][i])
    <3> TAKE l \in Cached!TreeLists(r1[b])
    <3>1. r2'[r1[b].vec[l]] = r2[r1[b].vec[l]] BY <1>8, <2>2, <2>3
    <3> QED BY <2>1, <3>1 DEF Sound
  <2> QED BY <1>8, <2>1, <2>3, <2>4 DEF Sound
<1>10. \A b \in 1..Len(r1') : Sound(r1'[b], r2') /\ Even(r1'[b]) BY <1>1, <1>7, <1>9
<1>11. \A b, c \in 1..Len(r1') : \A l, k \in Cached!Lists : r1'[b].vec[l] = r1'[c].vec[k] => b = c
  BY <1>1, <1>7
<1> QED BY <1>2, <1>7, <1>8, <1>10, <1>11 DEF CachedInv

LEMMA CachedInit == ASSUME Cached!Init PROVE CachedInv
<1>1. PICK fork \in {"phase0", "altair"} :
        LET zeros == IF fork = "altair" THEN <<0>> ELSE <<>>
            s == [fork |-> fork, vec |-> [l \in Cached!Lists |-> 0],
                  tree |-> [l \in Cached!Lists |-> IF l \in {"validators", "balances"} THEN <<0>> ELSE zeros]]
        IN  /\ r1 = <<Cached!Loaded(s, <<>>).state>> /\ r2 = Cached!Loaded(s, <<>>).heap
            /\ r3 = 0
  BY Zenon DEF Cached!Init
<1> DEFINE zeros == IF fork = "altair" THEN <<0>> ELSE <<>>
           tree == [l \in Cached!Lists |-> IF l \in {"validators", "balances"} THEN <<0>> ELSE zeros]
           s == [fork |-> fork, vec |-> [l \in Cached!Lists |-> 0], tree |-> tree]
<1>2. PICK sh : sh = Cached!Loaded(s, <<>>) OBVIOUS
<1>3. r1 = <<sh.state>> /\ r2 = sh.heap /\ r3 = 0 BY <1>1, <1>2, Zenon
<1>4. <<0>> \in Seq(Elements) /\ <<>> \in Seq(Elements) /\ Len(<<0>>) = 1 BY DEF Elements
<1>5. s \in CachedStates
  <2>1. tree \in [Cached!Lists -> Seq(Elements)] BY <1>4
  <2> HIDE DEF tree
  <2> QED BY <2>1 DEF CachedStates
<1>6. s.tree = tree /\ s.fork = fork OBVIOUS
<1>7. \A l \in Cached!TreeLists(s) : Len(tree[l]) = 1 /\ l \in Cached!Lists
  BY <1>4, <1>6, ListsAndPlaces DEF Cached!TreeLists
<1>8. "validators" \in Cached!TreeLists(s) BY ListsAndPlaces DEF Cached!TreeLists
<1> HIDE DEF s, tree
<1>9. <<>> \in Seq(Vectors) OBVIOUS
<1>10. Sound(sh.state, sh.heap) /\ sh.state.tree = tree /\ Cached!TreeLists(sh.state) = Cached!TreeLists(s)
  BY <1>2, <1>5, <1>6, <1>9, LoadedIsSound
<1>11. Even(sh.state) BY <1>7, <1>8, <1>10 DEF Even
<1>12. sh.state \in CachedStates /\ sh.heap \in Seq(Vectors) BY <1>10 DEF Sound
<1>13. r1 \in Seq(CachedStates) /\ Len(r1) = 1 /\ r1[1] = sh.state BY <1>3, <1>12
<1>14. \A b \in 1..Len(r1) : b = 1 BY <1>13
<1> QED BY <1>3, <1>10, <1>11, <1>12, <1>13, <1>14 DEF CachedInv

LEMMA CachedStep == ASSUME CachedInv, Cached!Next PROVE CachedInv'
<1>1. CASE \E p \in 1..Len(r1) : Cached!Clone(p) BY <1>1, CloneKeepsInv
<1>2. CASE \E i \in 1..MaxValidators, x \in Values :
             Cached!SetBalance(i, x) \/ Cached!UpdateValidator(i, x) \/ Cached!SetInactivityScore(i, x)
  BY <1>2, SetsKeepInv
<1>3. CASE \E l \in Cached!Participation, i \in 1..MaxValidators, status \in Statuses : Cached!SetStatus(l, i, status)
  BY <1>3, SetsKeepInv
<1>4. CASE \E x \in Values : Cached!UpdateAllBalances(x) \/ Cached!ProcessDeposit(x)
  BY <1>4, UpdateAllBalancesKeepsInv, ProcessDepositKeepsInv
<1>5. CASE Cached!EndOfEpoch BY <1>5, EndOfEpochKeepsInv
<1>6. CASE Cached!UpgradeState BY <1>6, UpgradeStateKeepsInv
<1>7. CASE Cached!SetStateCachesAsPersistent BY <1>7, PersistentKeepsInv
<1>8. CASE Cached!TransitionThrows BY <1>8, ThrowsKeepsInv
<1> QED BY <1>1, <1>2, <1>3, <1>4, <1>5, <1>6, <1>7, <1>8, Zenon DEF Cached!Next

\* What the invariant says of the vectors.
LEMMA CachedInvMatches == ASSUME CachedInv PROVE Cached!VectorsMatchTrees
<1> SUFFICES ASSUME NEW b \in 1..Len(r1)
             PROVE  /\ \A l \in Cached!TreeLists(r1[b]) : Cached!Data(r1[b], l) = Cached!VectorsOf(r1[b])[l]
                    /\ \A l \in Cached!TreeLists(r1[b]) : Len(r1[b].tree[l]) = Len(r1[b].tree["validators"])
  BY DEF Cached!VectorsMatchTrees
<1>1. Sound(r1[b], r2) /\ Even(r1[b]) BY DEF CachedInv
<1>2. ASSUME NEW l \in Cached!TreeLists(r1[b]) PROVE Cached!Data(r1[b], l) = Cached!VectorsOf(r1[b])[l]
  <2> DEFINE list == r1[b].tree[l]
             read(i) == Cached!InVector(l, list[i])
             d == r2[r1[b].vec[l]].data
  <2>1. l \in Cached!Lists BY ListsAndPlaces DEF Cached!TreeLists
  <2>2. Cached!VectorsOf(r1[b])[l] = [i \in 1..Len(list) |-> read(i)] BY <2>1 DEF Cached!VectorsOf
  <2>3. Cached!Data(r1[b], l) = d BY DEF Cached!Data
  <2>4. Len(d) = Len(list) /\ \A i \in 1..Len(list) : d[i] = read(i) BY <1>1 DEF Sound
  <2>5. d \in Seq(Entries)
    <3>1. r2[r1[b].vec[l]] \in Vectors BY <1>1, <2>1, ElementOfSeq DEF Sound
    <3> QED BY <3>1 DEF Vectors
  <2> HIDE DEF d, read, list
  <2> QED BY <2>2, <2>3, <2>4, <2>5
<1> QED BY <1>1, <1>2 DEF Even

\* The cached lists of every state read as its merkle tree, for any values, statuses and bounds.
THEOREM VectorsStayTrue == MCSpec => []VectorsMatchTrees
<1>1. ASSUME MCInit PROVE CachedTyped
  BY <1>1, CachedInit DEF MCInit, CachedTyped
<1>2. ASSUME CachedTyped, [MCNext]_allVars PROVE CachedTyped'
  <2>1. CASE part = "cached" /\ Cached!Next /\ UNCHANGED <<part, vars, r5, r6, r7, r8, r9, r10, r11>>
    BY <1>2, <2>1, CachedStep DEF CachedTyped
  <2>2. CASE part # "cached" /\ part' = part BY <2>2 DEF CachedTyped
  <2>3. CASE UNCHANGED allVars
    <3>1. UNCHANGED <<part, r1, r2, r3, r4>> BY <2>3 DEF allVars, registers
    <3> QED BY <1>2, <3>1 DEF CachedTyped, CachedInv
  <2> QED BY <1>2, <2>1, <2>2, <2>3 DEF MCNext
<1>3. CachedTyped => VectorsMatchTrees BY CachedInvMatches DEF CachedTyped, VectorsMatchTrees
<1> QED BY <1>1, <1>2, <1>3, PTL DEF MCSpec
=============================================================================
