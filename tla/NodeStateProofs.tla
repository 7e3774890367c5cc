--------------------------- MODULE NodeStateProofs ---------------------------
(* What StateFor and Taint promise, for every spec and every node.         *)
EXTENDS NodeState, FiniteSetTheorems, WellFoundedInduction, NaturalsInduction, TLAPS

\* A nonempty set of naturals has a least element, which Min returns.
LEMMA MinIsMember ==
  ASSUME NEW S \in SUBSET Nat, S # {}
  PROVE  Min(S) \in S
<1> DEFINE R == {ss \in Nat \X Nat : ss[1] < ss[2]}
<1>1. IsWellFoundedOn(R, Nat)
  BY NatLessThanWellFounded, Zenon DEF OpToRel
<1>2. PICK x \in S : \A y \in S : ~(<<y, x>> \in R)
  BY <1>1, WFMin, Zenon
<1>3. ASSUME NEW y \in S PROVE x =< y
  <2>1. y < x => <<y, x>> \in R
    OBVIOUS
  <2> HIDE DEF R
  <2>2. ~(y < x)
    BY <2>1, <1>2
  <2> QED
    BY <2>2
<1> QED
  BY <1>3, ZenonT(60) DEF Min

\* The first match is a position of the list, or 0.
LEMMA FirstMatchInRange ==
  ASSUME NEW entries, Len(entries) \in Nat, NEW labels
  PROVE  FirstMatch(entries, labels) \in 0..Len(entries)
<1> DEFINE I == {i \in 1..Len(entries) : selectorMatches(entries[i].sel, labels)}
<1>1. FirstMatch(entries, labels) = IF I # {} THEN Min(I) ELSE 0
  BY DEF FirstMatch, SelectInSeq
<1>2. I # {} => Min(I) \in I
  BY MinIsMember, SMTT(60)
<1> QED
  BY <1>1, <1>2

\* A count that passed validation is not clamped.
LEMMA ClampKeeps ==
  ASSUME NEW hi \in Nat, NEW n \in 0..hi
  PROVE  Clamp(n, hi) = n
BY DEF Clamp

\* How a member of NodeStates is put together.
LEMMA StateRecord ==
  ASSUME NEW spec, NEW b \in DeclaredBusy(spec), NEW f \in DeclaredFaults(spec)
  PROVE  [busy |-> b, faulted |-> f.gpus, effect |-> f.effect, xid |-> f.xid] \in NodeStates(spec)
BY DEF NodeStates

\* A declaration that passes both validations gives every node a state its entries
\* declare: BusyGPUs and StateFor take one entry's numbers as they are.
LEMMA StateForInRange ==
  ASSUME NEW spec, Wellformed(spec), ValidateOccupancy(spec), ValidateFaults(spec),
         NEW labels
  PROVE  StateFor(spec, labels) \in NodeStates(spec)
<1> DEFINE i == FirstMatch(spec.occupancy, labels)
           j == FirstMatch(spec.faults, labels)
           f == spec.faults[j]
<1>1. i \in 0..Len(spec.occupancy) /\ j \in 0..Len(spec.faults)
  BY FirstMatchInRange DEF Wellformed
<1>2. BusyGPUs(spec, labels) \in DeclaredBusy(spec)
  <2>1. BusyGPUs(spec, labels) = IF i = 0 THEN 0 ELSE Clamp(spec.occupancy[i].busy, spec.gpus)
    BY DEF BusyGPUs
  <2> HIDE DEF i, j
  <2>2. CASE i = 0
    BY <2>1, <2>2 DEF DeclaredBusy
  <2>3. CASE i # 0
    <3>1. i \in 1..Len(spec.occupancy)
      BY <1>1, <2>3 DEF Wellformed
    <3>2. spec.occupancy[i].busy \in 0..spec.gpus
      BY <3>1, Zenon DEF ValidateOccupancy
    <3>3. BusyGPUs(spec, labels) = spec.occupancy[i].busy
      BY <2>1, <2>3, <3>2, ClampKeeps DEF Wellformed
    <3>4. spec.occupancy[i].busy \in DeclaredBusy(spec)
      BY <3>1, Zenon DEF DeclaredBusy
    <3> QED
      BY <3>3, <3>4
  <2> QED
    BY <2>2, <2>3
<1>3. CASE j = 0
  <2>1. StateFor(spec, labels) = [busy |-> BusyGPUs(spec, labels), faulted |-> NoFault.gpus,
                                  effect |-> NoFault.effect, xid |-> NoFault.xid]
    BY <1>3 DEF StateFor, NoFault
  <2>2. NoFault \in DeclaredFaults(spec)
    BY Zenon DEF DeclaredFaults
  <2> QED
    BY <1>2, <2>1, <2>2, StateRecord
<1>4. CASE j # 0
  <2>1. StateFor(spec, labels) = [busy    |-> BusyGPUs(spec, labels),
                                  faulted |-> Clamp(f.gpus, spec.gpus),
                                  effect  |-> IF f.effect = "" THEN "Evict" ELSE f.effect,
                                  xid     |-> f.xid]
    BY <1>4 DEF StateFor
  <2> HIDE DEF i, j
  <2>2. j \in 1..Len(spec.faults)
    BY <1>1, <1>4 DEF Wellformed
  <2>3. f.gpus \in 0..spec.gpus
    BY <2>2, Zenon DEF ValidateFaults
  <2>4. FaultOf(f) \in DeclaredFaults(spec)
    BY <2>2, Zenon DEF DeclaredFaults
  <2> HIDE DEF f
  <2>5. Clamp(f.gpus, spec.gpus) = f.gpus
    BY <2>3, ClampKeeps DEF Wellformed
  <2>6. StateFor(spec, labels) = [busy |-> BusyGPUs(spec, labels), faulted |-> FaultOf(f).gpus,
                                  effect |-> FaultOf(f).effect, xid |-> FaultOf(f).xid]
    BY <2>1, <2>5, ZenonT(60) DEF FaultOf
  <2> QED
    BY <1>2, <2>4, <2>6, StateRecord
<1> QED
  BY <1>3, <1>4

\* No more cards of a node are busy, or have failed, than it has.
LEMMA StateBounded ==
  ASSUME NEW spec, Wellformed(spec), ValidateOccupancy(spec), ValidateFaults(spec), NEW labels
  PROVE  /\ StateFor(spec, labels).busy \in 0..spec.gpus
         /\ StateFor(spec, labels).faulted \in 0..spec.gpus
<1> DEFINE i == FirstMatch(spec.occupancy, labels)
           j == FirstMatch(spec.faults, labels)
<1>1. i \in 0..Len(spec.occupancy) /\ j \in 0..Len(spec.faults)
  BY FirstMatchInRange DEF Wellformed
<1>2. StateFor(spec, labels).busy = IF i = 0 THEN 0 ELSE Clamp(spec.occupancy[i].busy, spec.gpus)
  BY DEF StateFor, BusyGPUs
<1>3. StateFor(spec, labels).faulted = IF j = 0 THEN 0 ELSE Clamp(spec.faults[j].gpus, spec.gpus)
  BY DEF StateFor
<1> HIDE DEF i, j
<1>4. i # 0 => spec.occupancy[i].busy \in 0..spec.gpus
  BY <1>1 DEF ValidateOccupancy, Wellformed
<1>5. j # 0 => spec.faults[j].gpus \in 0..spec.gpus
  <2>1. j # 0 => j \in 1..Len(spec.faults)
    BY <1>1 DEF Wellformed
  <2> QED
    BY <2>1, Zenon DEF ValidateFaults
<1>6. spec.gpus \in Nat
  BY DEF Wellformed
<1> QED
  BY <1>2, <1>3, <1>4, <1>5, <1>6, ClampKeeps

\* The DRA taints and the legacy allocatable agree for a node of any size: the
\* GPUs that carry no taint are exactly the top gpus - Unavailable ones, the
\* number NodeAllocatable scales a node's resources by.
THEOREM UntaintedCount ==
  ASSUME NEW gpus \in Nat, NEW state,
         state.busy \in 0..gpus, state.faulted \in 0..gpus
  PROVE  Cardinality({g \in 0..(gpus - 1) : Taint(state, g) = NoTaint})
           = gpus - Unavailable(state)
<1> DEFINE u == Unavailable(state)
           free == {g \in 0..(gpus - 1) : Taint(state, g) = NoTaint}
<1>1. u \in 0..gpus
  BY DEF Unavailable
<1>2. ASSUME NEW g \in 0..(gpus - 1) PROVE Taint(state, g) = NoTaint <=> u =< g
  <2>1. FaultedTaint(state.effect, state.xid).key # NoTaint.key
    BY DEF FaultedTaint, NoTaint
  <2>2. OccupiedTaint.key # NoTaint.key
    BY DEF OccupiedTaint, NoTaint
  <2>3. FaultedTaint(state.effect, state.xid) # NoTaint /\ OccupiedTaint # NoTaint
    BY <2>1, <2>2
  <2>4. g < state.faulted => Taint(state, g) = FaultedTaint(state.effect, state.xid)
    BY DEF Taint, IsFaulted, IsOccupied
  <2>5. (~(g < state.faulted) /\ g < state.busy) => Taint(state, g) = OccupiedTaint
    BY DEF Taint, IsFaulted, IsOccupied
  <2>6. (~(g < state.faulted) /\ ~(g < state.busy)) => Taint(state, g) = NoTaint
    BY DEF Taint, IsFaulted, IsOccupied
  <2> QED
    BY <2>3, <2>4, <2>5, <2>6 DEF Unavailable
<1> DEFINE top == gpus - 1
<1>3. free = u..top
  BY <1>1, <1>2
<1>4. u \in Int /\ top \in Int /\ (IF u > top THEN 0 ELSE top - u + 1) = gpus - u
  BY <1>1
<1> HIDE DEF u, top, free
<1>5. Cardinality(u..top) = IF u > top THEN 0 ELSE top - u + 1
  BY <1>4, FS_Interval, Zenon
<1>6. Cardinality(free) = gpus - u
  BY <1>3, <1>4, <1>5, Zenon
<1> QED
  BY <1>6 DEF u, free
=============================================================================
