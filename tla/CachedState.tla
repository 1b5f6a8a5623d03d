---------------------------- MODULE CachedState ----------------------------
(***************************************************************************)
(* The lists of a CachedBeaconState.  Each list of the state (validators,  *)
(* balances, participation of the previous and the current epoch,          *)
(* inactivity scores) is kept twice: in the merkle tree, and in a vector   *)
(* that reads are served from.  The cached list classes write both.        *)
(*                                                                         *)
(* The vectors (@chainsafe/persistent-ts, external) are objects on a heap: *)
(* a persistent vector is never changed, a write makes another one; a      *)
(* transient vector is changed in place, whoever else points to it.  A     *)
(* state transition works on a clone of a cached state with its vectors    *)
(* made transient, and turns them back when it ends.                       *)
(***************************************************************************)
EXTENDS Integers, Sequences, FiniteSets, FiniteSetsExt, SequencesExt

CONSTANTS
  Values,          \* balances, inactivity scores and validator records, as numbers with 0
  Statuses,        \* participation statuses, subsets of TIMELY_FLAGS
  MaxValidators, MaxStates, MaxWrites  \* bounds: list length, states ever made, writes of a transition

TIMELY_SOURCE == 1
TIMELY_TARGET == 2
TIMELY_HEAD == 4
TIMELY_FLAGS == {TIMELY_SOURCE, TIMELY_TARGET, TIMELY_HEAD}

Order == <<"validators", "balances", "previous", "current", "inactivity">>
Lists == ToSet(Order)
Position(l) == CHOOSE k \in DOMAIN Order : Order[k] = l
Participation == {"previous", "current"}

VARIABLES
  states, \* the cached states made so far: [fork, tree, vec]
  heap,   \* the vectors: [transient, data]
  work,   \* the state a transition is working on, 0 if none
  writes  \* how many writes it has done

vars == <<states, heap, work, writes>>

\* toParticipationFlags and fromParticipationFlags: the tree holds a byte, the vector a record of booleans.
ToParticipationFlags(status) ==
  LET flag(f) == IF f \in status THEN f ELSE 0
  IN  flag(TIMELY_SOURCE) + flag(TIMELY_TARGET) + flag(TIMELY_HEAD)
FromParticipationFlags(flags) == {f \in TIMELY_FLAGS : (flags \div f) % 2 = 1}

InTree(l, x) == IF l \in Participation THEN ToParticipationFlags(x) ELSE x
InVector(l, x) == IF l \in Participation THEN FromParticipationFlags(x) ELSE x

\* phase0 states have no participation and no inactivity scores in their tree.
TreeLists(s) == IF s.fork = "phase0" THEN {"validators", "balances"} ELSE Lists

-----------------------------------------------------------------------------
(* External: the vectors. *)
Vector(transient, data) == [transient |-> transient, data |-> data]
Data(s, l) == heap[s.vec[l]].data

\* a write through a reference: in place for a transient vector, otherwise into a new one
HeapAfter(h, ref, data) ==
  IF h[ref].transient THEN [h EXCEPT ![ref].data = data] ELSE Append(h, Vector(FALSE, data))
RefAfter(h, ref) == IF h[ref].transient THEN ref ELSE Len(h) + 1

-----------------------------------------------------------------------------
\* The cached lists read from the vector.
Get(s, l, i) == Data(s, l)[i]

\* a list is written in both backings: its vector, and the tree if the list is there
WriteBoth(sh, l, data, list) ==
  LET s == sh.state
  IN  [state |-> [s EXCEPT !.vec[l] = RefAfter(sh.heap, s.vec[l]),
                           !.tree[l] = IF l \in TreeLists(s) THEN list ELSE @],
       heap |-> HeapAfter(sh.heap, s.vec[l], data)]

DataIn(sh, l) == sh.heap[sh.state.vec[l]].data

\* set and setStatus: one element
SetElement(sh, l, i, x) ==
  WriteBoth(sh, l, [DataIn(sh, l) EXCEPT ![i] = x], [sh.state.tree[l] EXCEPT ![i] = InTree(l, x)])

\* push and pushStatus
Push(sh, l, x) == WriteBoth(sh, l, Append(DataIn(sh, l), x), Append(sh.state.tree[l], InTree(l, x)))

\* updateAllStatus: the vector given is taken over as it is, the tree is built from it
UpdateAllStatus(sh, l, ref) ==
  LET s == sh.state
      data == sh.heap[ref].data
  IN  [state |-> [s EXCEPT !.vec[l] = ref,
                           !.tree[l] = IF l \in TreeLists(s)
                                       THEN [i \in 1..Len(data) |-> InTree(l, data[i])] ELSE @],
       heap |-> sh.heap]

\* updateAll: the balances as one typed array
UpdateAll(sh, balances) ==
  [state |-> [sh.state EXCEPT !.vec["balances"] = Len(sh.heap) + 1, !.tree["balances"] = balances],
   heap |-> Append(sh.heap, Vector(FALSE, balances))]

-----------------------------------------------------------------------------
\* clone and setStateCachesAsTransient: the vector of list l in the clone.  The clone of
\* a transient vector is a copy; the inactivity scores are left persistent.
CloneVectors(s) ==
  LET copy(l) == Vector(heap[s.vec[l]].transient \/ l # "inactivity", Data(s, l))
  IN  [heap |-> heap \o [k \in 1..5 |-> copy(Order[k])],
       vec |-> [l \in Lists |-> Len(heap) + Position(l)]]

\* stateTransition and processSlots begin with a clone of a cached state.
Clone(p) ==
  /\ work = 0 /\ Len(states) < MaxStates
  /\ LET c == CloneVectors(states[p])
     IN  heap' = c.heap /\ states' = Append(states, [states[p] EXCEPT !.vec = c.vec])
  /\ work' = Len(states) + 1 /\ writes' = 0

Current == [state |-> states[work], heap |-> heap]
Becomes(sh) ==
  /\ work # 0 /\ writes < MaxWrites /\ writes' = writes + 1
  /\ states' = [states EXCEPT ![work] = sh.state] /\ heap' = sh.heap
  /\ UNCHANGED work

\* increaseBalance and decreaseBalance
SetBalance(i, x) == work # 0 /\ i <= Len(Data(states[work], "balances")) /\ Becomes(SetElement(Current, "balances", i, x))

\* validators.update, as a slashing, an exit or an activation does
UpdateValidator(i, x) ==
  work # 0 /\ i <= Len(Data(states[work], "validators")) /\ Becomes(SetElement(Current, "validators", i, x))

\* processAttestation and translateParticipation: flags are only added
SetStatus(l, i, status) ==
  /\ work # 0 /\ states[work].fork = "altair" /\ i <= Len(Data(states[work], l))
  /\ Becomes(SetElement(Current, l, i, Get(states[work], l, i) \cup status))

\* processInactivityUpdates
SetInactivityScore(i, x) ==
  /\ work # 0 /\ states[work].fork = "altair" /\ i <= Len(Data(states[work], "inactivity"))
  /\ Becomes(SetElement(Current, "inactivity", i, x))

\* processRewardsAndPenalties
UpdateAllBalances(x) ==
  work # 0 /\ Becomes(UpdateAll(Current, [i \in 1..Len(Data(states[work], "balances")) |-> x]))

\* processDeposit of a new validator: every list grows
ProcessDeposit(x) ==
  /\ work # 0 /\ Len(Data(states[work], "validators")) < MaxValidators
  /\ LET grown == Push(Push(Push(Push(Current, "validators", x), "balances", x), "previous", {}), "current", {})
     IN  Becomes(IF states[work].fork = "altair" THEN Push(grown, "inactivity", 0) ELSE grown)

\* Mutant: the current epoch's flags are cleared one by one after the previous list took the vector over.
RotateInPlace(sh, n) ==
  FoldLeft(LAMBDA c, i : SetElement(c, "current", i, {}),
           UpdateAllStatus(sh, "previous", sh.state.vec["current"]), [i \in 1..n |-> i])

\* processParticipationFlagUpdates: the previous epoch takes over the vector of the
\* current one, which starts with a new vector of no flags.
ProcessParticipationFlagUpdates(sh, n) ==
  LET rotated == UpdateAllStatus(sh, "previous", sh.state.vec["current"])
      heapWithNone == Append(rotated.heap, Vector(FALSE, [i \in 1..n |-> {}]))
  IN  UpdateAllStatus([rotated EXCEPT !.heap = heapWithNone], "current", Len(heapWithNone))

EndOfEpoch ==
  /\ work # 0 /\ states[work].fork = "altair"
  /\ Becomes(ProcessParticipationFlagUpdates(Current, Len(Data(states[work], "validators"))))

\* createCachedBeaconState: the vectors of a state that comes as a tree
VectorsOf(s) ==
  [l \in Lists |->
     IF l \in TreeLists(s) THEN [i \in 1..Len(s.tree[l]) |-> InVector(l, s.tree[l][i])]
     ELSE IF l \in Participation THEN [i \in 1..Len(s.tree["validators"]) |-> {}] ELSE <<>>]

Loaded(s, h) ==
  [state |-> [s EXCEPT !.vec = [l \in Lists |-> Len(h) + Position(l)]],
   heap |-> h \o [k \in 1..5 |-> Vector(FALSE, VectorsOf(s)[Order[k]])]]

\* upgradeState: new lists in the tree, and caches built from it
UpgradeState ==
  /\ work # 0 /\ states[work].fork = "phase0"
  /\ LET s == states[work]
         zeros == [i \in 1..Len(s.tree["validators"]) |-> 0]
     IN  Becomes(Loaded([s EXCEPT !.fork = "altair", !.tree["previous"] = zeros, !.tree["current"] = zeros,
                                  !.tree["inactivity"] = zeros], heap))

\* setStateCachesAsPersistent, at the end of a transition; the current epoch's participation
\* and the inactivity scores stay as they are.
SetStateCachesAsPersistent ==
  /\ work # 0
  /\ heap' = [r \in DOMAIN heap |->
                IF \E l \in {"validators", "balances", "previous"} : states[work].vec[l] = r
                THEN Vector(FALSE, heap[r].data) ELSE heap[r]]
  /\ work' = 0 /\ writes' = 0 /\ UNCHANGED states

\* A transition that throws (an invalid block) leaves its clone to the garbage collector.
TransitionThrows ==
  /\ work # 0 /\ work' = 0 /\ writes' = 0
  /\ states' = SubSeq(states, 1, work - 1)
  /\ heap' = SubSeq(heap, 1, Max(UNION {{states[b].vec[l] : l \in Lists} : b \in 1..(work - 1)}))

Init ==
  \E fork \in {"phase0", "altair"} :
    LET zeros == IF fork = "altair" THEN <<0>> ELSE <<>>
        s == [fork |-> fork, vec |-> [l \in Lists |-> 0],
              tree |-> [l \in Lists |-> IF l \in {"validators", "balances"} THEN <<0>> ELSE zeros]]
    IN  /\ states = <<Loaded(s, <<>>).state>> /\ heap = Loaded(s, <<>>).heap
        /\ work = 0 /\ writes = 0

Next ==
  \/ \E p \in 1..Len(states) : Clone(p)
  \/ \E i \in 1..MaxValidators, x \in Values : SetBalance(i, x) \/ UpdateValidator(i, x) \/ SetInactivityScore(i, x)
  \/ \E l \in Participation, i \in 1..MaxValidators, status \in Statuses : SetStatus(l, i, status)
  \/ \E x \in Values : UpdateAllBalances(x) \/ ProcessDeposit(x)
  \/ EndOfEpoch \/ UpgradeState \/ SetStateCachesAsPersistent \/ TransitionThrows

Spec == Init /\ [][Next]_vars

-----------------------------------------------------------------------------
\* Whatever transitions have run on whatever clones, every list of every cached state reads the
\* same from its vector as from its merkle tree, and the lists of an altair state are as long as
\* its registry (createCachedBeaconState of the same tree would build the same vectors).
VectorsMatchTrees ==
  \A b \in 1..Len(states) :
    LET s == states[b]
    IN  /\ \A l \in TreeLists(s) : Data(s, l) = VectorsOf(s)[l]
        /\ \A l \in TreeLists(s) : Len(s.tree[l]) = Len(s.tree["validators"])
=============================================================================
