----------------------------- MODULE PoolContract -----------------------------
(***************************************************************************)
(* What the operator promises to whoever reads a GPUPool (kubectl, the     *)
(* wait of `ghostgpu up`, `ghostgpu status`): how a pool object may        *)
(* change.  Users create, update and delete it; the operator writes only   *)
(* its status, and either reports what it has published or says why it     *)
(* refuses.  How the operator gets there is left out: no caches, no queue, *)
(* no slices, no nodes, no partly done work.  GPUPoolController implements *)
(* this specification (module PoolRefinement), and Up is built on it.      *)
(***************************************************************************)
EXTENDS Naturals, PoolObject, TLAPS

CONSTANTS
  Pools,       \* names of pools
  PoolSpecs,   \* specs users may apply
  Cards,       \* [PoolSpecs -> Nat]: GPUs on one node
  PerNode,     \* [PoolSpecs -> SUBSET Nat]: devices one node may carry, a number for
               \* each model with which the spec passes every check
  Refusals,    \* [PoolSpecs -> sets of reasons]: what the checks may answer instead
  None         \* an absent object

VARIABLES pools, uids

vars == <<pools, uids>>

Init ==
  /\ pools \in [Pools -> {NewPool(1, spec) : spec \in PoolSpecs} \cup {None}]
  /\ uids = [p \in Pools |-> 1]

Create(p, spec) ==
  /\ pools[p] = None
  /\ uids' = [uids EXCEPT ![p] = @ + 1]
  /\ pools' = [pools EXCEPT ![p] = NewPool(uids'[p], spec)]

Update(p, spec) ==
  /\ pools[p] # None
  /\ pools[p].spec # spec
  /\ pools' = [pools EXCEPT ![p].spec = spec, ![p].gen = @ + 1]
  /\ UNCHANGED uids

Delete(p) ==
  /\ pools[p] # None
  /\ pools' = [pools EXCEPT ![p] = None]
  /\ UNCHANGED uids

\* The counts are those of whole nodes, each carrying what this spec means with one
\* model, and no more busy or failed cards than there are.
CountsAreOf(spec, st) ==
  /\ \E d \in PerNode[spec] : st.devices = st.matched * d
  /\ st.occupied <= st.matched * Cards[spec]
  /\ st.faulted <= st.matched * Cards[spec]

\* A status that tells the truth about the spec the object has now.
Truthful(obj, st) ==
  /\ DOMAIN st = DOMAIN NewStatus
  /\ st.obs = obj.gen
  /\ st.ready /\ st.reason = "Reconciled" /\ st.condGen = obj.gen
  /\ st.matched \in Nat
  /\ CountsAreOf(obj.spec, st)

Report(p, st) ==
  /\ pools[p] # None
  /\ Truthful(pools[p], st)
  /\ pools' = [pools EXCEPT ![p].status = st]
  /\ UNCHANGED uids

\* A refusal leaves the counts and the generation they were observed at alone.
Refuse(p, reason) ==
  /\ pools[p] # None
  /\ pools' = [pools EXCEPT ![p].status.ready = FALSE, ![p].status.reason = reason,
                            ![p].status.condGen = pools[p].gen]
  /\ UNCHANGED uids

Next ==
  \E p \in Pools :
    \/ \E spec \in PoolSpecs : Create(p, spec) \/ Update(p, spec)
    \/ Delete(p)
    \/ pools[p] # None /\ \E reason \in Refusals[pools[p].spec] : Refuse(p, reason)
    \/ pools'[p] # None /\ Report(p, pools'[p].status)

Spec == Init /\ [][Next]_vars

-----------------------------------------------------------------------------
(* What a reader may conclude.                                             *)

\* A status whose observedGeneration is the current generation describes the spec
\* the object has now, whatever updates, refusals, deletions and re-creations came
\* between: this is what the wait of `ghostgpu up` relies on.
ObservedIsTruthful ==
  \A p \in Pools : (pools[p] # None /\ pools[p].status.obs = pools[p].gen) =>
    CountsAreOf(pools[p].spec, pools[p].status)

\* No status claims a generation yet to come, so an update cannot make the claim
\* of an older one current.
ClaimsThePast(o) ==
  /\ DOMAIN o = DOMAIN NewPool(1, 1)
  /\ DOMAIN o.status = DOMAIN NewStatus
  /\ o.gen \in Nat /\ o.status.obs \in Nat /\ o.status.obs <= o.gen
  /\ o.status.obs = o.gen => CountsAreOf(o.spec, o.status)

\* The inductive invariant.
ObservedIsPast ==
  /\ DOMAIN pools = Pools
  /\ \A p \in Pools : pools[p] # None => ClaimsThePast(pools[p])

\* A new pool has observed nothing.
LEMMA FreshPool ==
  ASSUME NEW uid, NEW spec PROVE ClaimsThePast(NewPool(uid, spec))
<1>1. /\ NewPool(uid, spec).gen = 1 /\ NewPool(uid, spec).status = NewStatus
      /\ DOMAIN NewPool(uid, spec) = DOMAIN NewPool(1, 1)
  BY DEF NewPool
<1>2. NewStatus.obs = 0
  BY DEF NewStatus
<1> QED
  BY <1>1, <1>2 DEF ClaimsThePast

\* One object changes at a time.
LEMMA OneObject ==
  ASSUME ObservedIsPast, NEW p \in Pools, NEW o, ClaimsThePast(o) \/ o = None,
         pools' = [pools EXCEPT ![p] = o]
  PROVE  ObservedIsPast'
<1>1. DOMAIN pools' = Pools
  BY DEF ObservedIsPast
<1>2. ASSUME NEW q \in Pools, pools'[q] # None PROVE ClaimsThePast(pools'[q])
  BY <1>2 DEF ObservedIsPast
<1>3. \A q \in Pools : ClaimsThePast(pools[q])' <=> ClaimsThePast(pools'[q])
  BY DEF ClaimsThePast, CountsAreOf
<1> QED
  BY <1>1, <1>2, <1>3 DEF ObservedIsPast

\* A new spec starts a generation no status has observed.
LEMMA UpdateKeeps ==
  ASSUME NEW o, ClaimsThePast(o), NEW spec
  PROVE  ClaimsThePast([o EXCEPT !.spec = spec, !.gen = @ + 1])
BY DEF ClaimsThePast, NewPool

\* A refusal leaves counts and observed generation alone.
LEMMA RefuseKeeps ==
  ASSUME NEW o, ClaimsThePast(o), NEW reason
  PROVE  ClaimsThePast([o EXCEPT !.status.ready = FALSE, !.status.reason = reason,
                                 !.status.condGen = o.gen])
<1> DEFINE st  == [o.status EXCEPT !.ready = FALSE, !.reason = reason, !.condGen = o.gen]
           new == [o EXCEPT !.status = st]
<1>1. /\ DOMAIN st = DOMAIN NewStatus
      /\ st.obs = o.status.obs /\ st.devices = o.status.devices /\ st.matched = o.status.matched
      /\ st.occupied = o.status.occupied /\ st.faulted = o.status.faulted
  BY DEF ClaimsThePast, NewStatus
<1> HIDE DEF st
<1>2. DOMAIN new = DOMAIN o /\ new.status = st /\ new.gen = o.gen /\ new.spec = o.spec
  BY DEF ClaimsThePast, NewPool
<1> HIDE DEF new
<1>3. ClaimsThePast(new)
  BY <1>1, <1>2 DEF ClaimsThePast, CountsAreOf
<1>4. new = [o EXCEPT !.status.ready = FALSE, !.status.reason = reason,
                      !.status.condGen = o.gen]
  BY ZenonT(60) DEF new, st, ClaimsThePast, NewPool
<1> QED
  BY <1>3, <1>4

\* A truthful report does not claim more than its counts.
LEMMA ReportKeeps ==
  ASSUME NEW o, ClaimsThePast(o), NEW st, Truthful(o, st)
  PROVE  ClaimsThePast([o EXCEPT !.status = st])
BY DEF ClaimsThePast, Truthful, CountsAreOf, NewPool

\* Each step of the contract keeps the invariant.
LEMMA NextObserved ==
  ASSUME ObservedIsPast, [Next]_vars PROVE ObservedIsPast'
<1>1. CASE UNCHANGED vars
  BY <1>1 DEF ObservedIsPast, ClaimsThePast, CountsAreOf, vars
<1>2. ASSUME NEW p \in Pools, NEW spec \in PoolSpecs, Create(p, spec) PROVE ObservedIsPast'
  BY <1>2, FreshPool, OneObject, ZenonT(60) DEF Create
<1>3. ASSUME NEW p \in Pools, NEW spec \in PoolSpecs, Update(p, spec) PROVE ObservedIsPast'
  <2>1. pools' = [pools EXCEPT ![p] = [pools[p] EXCEPT !.spec = spec, !.gen = @ + 1]]
    BY <1>3 DEF Update, ObservedIsPast, ClaimsThePast, NewPool
  <2> QED
    BY <1>3, <2>1, UpdateKeeps, OneObject, ZenonT(60) DEF Update, ObservedIsPast
<1>4. ASSUME NEW p \in Pools, Delete(p) PROVE ObservedIsPast'
  BY <1>4, OneObject, ZenonT(60) DEF Delete
<1>5. ASSUME NEW p \in Pools, NEW reason, Refuse(p, reason) PROVE ObservedIsPast'
  <2> DEFINE new == [pools[p] EXCEPT !.status.ready = FALSE, !.status.reason = reason,
                                     !.status.condGen = pools[p].gen]
  <2>1. pools' = [pools EXCEPT ![p] = new]
    BY <1>5, ZenonT(60) DEF Refuse, ObservedIsPast, ClaimsThePast, NewPool, NewStatus
  <2>2. ClaimsThePast(pools[p])
    BY <1>5 DEF Refuse, ObservedIsPast
  <2>3. ClaimsThePast(new)
    BY <2>2, RefuseKeeps, ZenonT(60)
  <2> HIDE DEF new
  <2> QED
    BY <2>1, <2>3, OneObject, ZenonT(60)
<1>6. ASSUME NEW p \in Pools, NEW st, Report(p, st) PROVE ObservedIsPast'
  BY <1>6, ReportKeeps, OneObject DEF Report, ObservedIsPast
<1> QED
  BY <1>1, <1>2, <1>3, <1>4, <1>5, <1>6 DEF Next

\* Whoever keeps the contract shows its readers no stale or partial count under
\* the current generation.
THEOREM ContractIsTruthful == Spec => []ObservedIsTruthful
<1>1. Init => ObservedIsPast
  BY FreshPool DEF Init, ObservedIsPast
<1>2. ObservedIsPast => ObservedIsTruthful
  BY DEF ObservedIsPast, ObservedIsTruthful, ClaimsThePast
<1> QED
  BY <1>1, <1>2, NextObserved, PTL DEF Spec
=============================================================================
