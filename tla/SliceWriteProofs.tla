-------------------------- MODULE SliceWriteProofs --------------------------
(***************************************************************************)
(* Where the reconciler publishes, for any pools, nodes and bounds: a      *)
(* slice names the node it was built for, and that node came through the   *)
(* loop, which starts with IsSimulatedNode.                                *)
(***************************************************************************)
EXTENDS NodeWriteProofs, PoolRefinementProofs

\* The inductive invariant: what is about to be applied has passed the gate too.
BuiltForSimulated ==
  /\ SlicesOnSimulated
  /\ work.pc = "slices" => \A i \in DOMAIN work.apply : ~NeverSimulated(work.apply[i].node)

\* A turn of the loop builds slices for its own node.
LEMMA StartNodePlaced ==
  ASSUME TypeOK, LoopOnSimulated, NEW n \in Nodes, StartNode(n)
  PROVE  \A i \in DOMAIN work'.apply : ~NeverSimulated(work'.apply[i].node)
<1> DEFINE state == StateFor(work.obj.spec, work.todo[n].labels)
           want  == DesiredSlices(work.pool, work.obj.spec, work.model, n, state)
<1>1. work.pc = "loop" /\ n \in DOMAIN work.todo
  BY ZenonT(60) DEF StartNode
<1>2. work'.apply = want
  BY SMTT(60) DEF StartNode, TypeOK, WorkOK, Idle
<1>3. Buildable(work.obj.spec, work.model)
  BY <1>1, PastChecks, SMTT(60)
<1> HIDE DEF state
<1>4. ForNode(want, n)
  BY <1>3, OwnNode, ZenonT(60)
<1> HIDE DEF want
<1>5. ~NeverSimulated(n)
  BY <1>1, SMTT(60) DEF LoopOnSimulated
<1> QED
  BY <1>2, <1>4, <1>5, ZenonT(60) DEF ForNode

\* Writing a slice for a node that may be simulated, or removing any slice.
LEMMA SlicePlaced ==
  ASSUME SlicesOK(slices), SlicesOnSimulated, NEW s, NEW o,
         o = None \/ ~NeverSimulated(o.slice.node),
         slices' = [slices EXCEPT ![s] = o]
  PROVE  SlicesOnSimulated'
<1>1. \A t \in SliceNames : slices'[t] = slices[t] \/ slices'[t] = o
  BY SMTT(60) DEF SlicesOK
<1>2. \A t \in SliceNames : slices'[t] # None => ~NeverSimulated(slices'[t].slice.node)
  BY <1>1, ZenonT(60) DEF SlicesOnSimulated
<1> QED
  BY <1>2, ZenonT(60) DEF SlicesOnSimulated, NeverSimulated

\* The worker applies what it built.
LEMMA WorkerPlaced ==
  ASSUME TypeOK, LoopOnSimulated, BuiltForSimulated, Worker PROVE BuiltForSimulated'
<1>1. SlicesOK(slices) /\ SlicesOnSimulated
  BY ZenonT(60) DEF TypeOK, BuiltForSimulated
<1>2. SlicesOnSimulated'
  <2>1. CASE ApplySlice
    <3>1. work.pc = "slices"
      BY <2>1, ZenonT(60) DEF ApplySlice
    <3>2. CASE UNCHANGED slices
      BY <1>1, <3>2, ZenonT(60) DEF SlicesOnSimulated, NeverSimulated
    <3>3. ASSUME NEW i \in DOMAIN work.apply,
                 slices' = [slices EXCEPT ![work.apply[i].name] =
                   [slice |-> work.apply[i], owner |-> work.pool, uid |-> work.obj.uid]]
          PROVE  SlicesOnSimulated'
      <4> DEFINE o == [slice |-> work.apply[i], owner |-> work.pool, uid |-> work.obj.uid]
      <4>1. ~NeverSimulated(work.apply[i].node)
        BY <3>1, ZenonT(60) DEF BuiltForSimulated
      <4>2. o.slice = work.apply[i]
        OBVIOUS
      <4>3. slices' = [slices EXCEPT ![work.apply[i].name] = o]
        BY <3>3, ZenonT(60)
      <4> HIDE DEF o
      <4> QED
        BY <1>1, <4>1, <4>2, <4>3, SlicePlaced, ZenonT(60)
    <3> QED
      BY <2>1, <3>2, <3>3, ApplySliceWrites, ZenonT(60)
  <2>2. CASE \E s \in SliceNames : DeleteStale(s)
    BY <1>1, <2>2, SlicePlaced, ZenonT(60) DEF DeleteStale
  <2>3. CASE UNCHANGED slices
    BY <1>1, <2>3, ZenonT(60) DEF SlicesOnSimulated, NeverSimulated
  <2> QED
    BY <2>1, <2>2, <2>3, WorkerSlices, ZenonT(60)
<1>3. ASSUME work'.pc = "slices"
      PROVE  \A i \in DOMAIN work'.apply : ~NeverSimulated(work'.apply[i].node)
  <2>1. CASE ApplySlice
    <3>1. work.pc = "slices"
      BY <2>1, ZenonT(60) DEF ApplySlice
    <3>2. work'.apply = work.apply
      BY <1>3, <2>1, ApplySliceWrites, SMTT(60)
    <3> QED
      BY <3>1, <3>2, ZenonT(60) DEF BuiltForSimulated
  <2> QED
    BY <1>3, <2>1, ApplyingStep, StartNodePlaced, ZenonT(60)
<1> QED
  BY <1>2, <1>3, ZenonT(60) DEF BuiltForSimulated, NeverSimulated

\* Nobody but the worker publishes.
LEMMA OthersPlaced ==
  ASSUME TypeOK, BuiltForSimulated, APIFailure \/ Cluster \/ Users \/ Sync \/ Restart
  PROVE  BuiltForSimulated'
<1>1. UNCHANGED work \/ work' = Idle
  BY ZenonT(60)
     DEF APIFailure, Requeue, Restart, Sync, SyncPool, SyncNode, SyncModel, SyncSlice,
         Cluster, Resync, GarbageCollect, Users, DeletePool, CreatePool, UpdatePool,
         DeleteNode, CreateNode, ChangeNode, SetModel, DropSlice, Change
<1>2. UNCHANGED slices \/ \E s \in SliceNames : slices' = [slices EXCEPT ![s] = None]
  BY ZenonT(60)
     DEF APIFailure, Restart, Sync, SyncPool, SyncNode, SyncModel, SyncSlice,
         Cluster, Resync, GarbageCollect, Users, DeletePool, CreatePool, UpdatePool,
         DeleteNode, CreateNode, ChangeNode, SetModel, DropSlice, api
<1>3. SlicesOnSimulated'
  BY <1>2, SlicePlaced, ZenonT(60) DEF TypeOK, BuiltForSimulated, SlicesOnSimulated, NeverSimulated
<1>4. work' = Idle => work'.pc # "slices"
  BY SMTT(60) DEF Idle
<1> QED
  BY <1>1, <1>3, <1>4, ZenonT(60) DEF BuiltForSimulated, NeverSimulated

\* A node that never has the kwok annotation is never offered to the scheduler by
\* a slice, whatever selectors match it and however stale the node list.
THEOREM RealNodesUnpublished == Spec => []SlicesOnSimulated
<1>1. Init => BuiltForSimulated
  <2>1. Init => work.pc = "idle"
    BY DEF Init, Idle
  <2>2. Init => \A s \in SliceNames : slices[s] = None
    BY DEF Init
  <2> QED
    BY <2>1, <2>2, ZenonT(60) DEF BuiltForSimulated, SlicesOnSimulated
<1>2. TypeOK /\ LoopOnSimulated /\ BuiltForSimulated /\ [Next]_vars => BuiltForSimulated'
  <2> SUFFICES ASSUME TypeOK, LoopOnSimulated, BuiltForSimulated, [Next]_vars
               PROVE  BuiltForSimulated'
    OBVIOUS
  <2>1. CASE UNCHANGED vars
    BY <2>1, ZenonT(60) DEF vars, BuiltForSimulated, SlicesOnSimulated, NeverSimulated
  <2> QED
    BY <2>1, WorkerPlaced, OthersPlaced, SMTT(60) DEF Next
<1>3. BuiltForSimulated => SlicesOnSimulated
  BY DEF BuiltForSimulated
<1> QED
  BY <1>1, <1>2, <1>3, TypeCorrect, LoopStaysOnSimulated, PTL DEF Spec
=============================================================================
