--------------------------- MODULE NodeWriteProofs ---------------------------
(***************************************************************************)
(* What the reconciler may do to Nodes, for any pools, nodes and bounds:   *)
(* it writes only where the kwok annotation can be (internal/safety), and  *)
(* there it touches nothing but its own resources and labels.              *)
(***************************************************************************)
EXTENDS GPUPoolControllerProofs

\* A patch computed from a stale copy leaves every key alone on which the copy
\* and the wanted object agree.
LEMMA MergePatchKeeps ==
  ASSUME NEW have, NEW from, NEW to, NEW k,
         (k \in DOMAIN from) <=> (k \in DOMAIN to),
         k \in DOMAIN from => from[k] = to[k]
  PROVE  /\ k \in DOMAIN MergePatch(have, from, to) <=> k \in DOMAIN have
         /\ k \in DOMAIN have => MergePatch(have, from, to)[k] = have[k]
BY DEF MergePatch

\* applyGPUResources changes managed resources only,
LEMMA ResourcesScoped ==
  ASSUME NEW have, NEW from, NEW want, \A r \in DOMAIN want : managesResource(r),
         NEW r, ~managesResource(r)
  PROVE  LET new == MergePatch(have, from, applyGPUResources(from, want))
         IN  /\ r \in DOMAIN new <=> r \in DOMAIN have
             /\ r \in DOMAIN have => new[r] = have[r]
<1> DEFINE to == applyGPUResources(from, want)
<1>1. (r \in DOMAIN from) <=> (r \in DOMAIN to)
  BY DEF applyGPUResources, Overlay
<1>2. r \in DOMAIN from => from[r] = to[r]
  BY DEF applyGPUResources, Overlay
<1> HIDE DEF to
<1>3. LET new == MergePatch(have, from, to)
      IN  /\ r \in DOMAIN new <=> r \in DOMAIN have
          /\ r \in DOMAIN have => new[r] = have[r]
  BY <1>1, <1>2, MergePatchKeeps, SMTT(60)
<1> QED
  BY <1>3 DEF to

\* and the label patch changes wanted labels only.
LEMMA LabelsScoped ==
  ASSUME NEW have, NEW from, NEW want, NEW k, k \notin DOMAIN want
  PROVE  LET new == MergePatch(have, from, Overlay(from, want))
         IN  /\ k \in DOMAIN new <=> k \in DOMAIN have
             /\ k \in DOMAIN have => new[k] = have[k]
<1> DEFINE to == Overlay(from, want)
<1>1. (k \in DOMAIN from) <=> (k \in DOMAIN to)
  BY DEF Overlay
<1>2. k \in DOMAIN from => from[k] = to[k]
  BY DEF Overlay
<1> HIDE DEF to
<1>3. LET new == MergePatch(have, from, to)
      IN  /\ k \in DOMAIN new <=> k \in DOMAIN have
          /\ k \in DOMAIN have => new[k] = have[k]
  BY <1>1, <1>2, MergePatchKeeps, SMTT(60)
<1> QED
  BY <1>3 DEF to

\* NodeResources and NodeAllocatable name managed resources only,
LEMMA WantedManaged ==
  ASSUME NEW spec, NEW table, NEW gpus, NEW r \in DOMAIN nodeResourcesFor(spec, table, gpus)
  PROVE  managesResource(r)
<1> DEFINE perCard(p) == IF spec.partition = << >> THEN MaxInstances(p, table)
                         ELSE CountOf(spec.partition, p.name)
           offered == {i \in 1..Len(table.profiles) : perCard(table.profiles[i]) > 0}
<1>1. r = GPUResource \/ \E i \in offered : r = MIGResource(table.profiles[i].name)
  BY DEF nodeResourcesFor
<1> HIDE DEF offered
<1> QED
  BY <1>1, SMTT(60) DEF GPUResource, MIGResource, managesResource

\* and NodeLabels GFD labels only.
LEMMA WantedLabels ==
  ASSUME NEW spec, NEW model PROVE DOMAIN NodeLabels(spec, model) \subseteq GFDKeys
BY SMTT(60) DEF NodeLabels, GFDKeys

-----------------------------------------------------------------------------
(* The two node writes.                                                    *)

\* What PatchResources does to the nodes.
LEMMA ResourceWrite ==
  ASSUME TypeOK, PatchResources
  PROVE  \/ UNCHANGED nodes
         \/ /\ work.node \in DOMAIN work.todo
            /\ nodes[work.node] # None
            /\ \E fc, fa, wc, wa :
                 /\ \A r \in DOMAIN wc : managesResource(r)
                 /\ \A r \in DOMAIN wa : managesResource(r)
                 /\ nodes' = [nodes EXCEPT ![work.node] = [nodes[work.node] EXCEPT
                      !.capacity = MergePatch(@, fc, applyGPUResources(fc, wc)),
                      !.allocatable = MergePatch(@, fa, applyGPUResources(fa, wa))]]
<1> DEFINE node  == work.todo[work.node]
           table == baseTable(work.model)
           wc == NodeResources(work.obj.spec, table)
           wa == NodeAllocatable(work.obj.spec, table, StateFor(work.obj.spec, node.labels))
<1>1. \/ UNCHANGED nodes
      \/ /\ nodes[work.node] # None
         /\ nodes' = [nodes EXCEPT ![work.node] = [nodes[work.node] EXCEPT
              !.capacity = MergePatch(@, node.capacity, applyGPUResources(node.capacity, wc)),
              !.allocatable = MergePatch(@, node.allocatable,
                                         applyGPUResources(node.allocatable, wa))]]
  BY DEF PatchResources
<1>2. /\ \A r \in DOMAIN wc : managesResource(r)
      /\ \A r \in DOMAIN wa : managesResource(r)
  BY WantedManaged, SMTT(60) DEF NodeResources, NodeAllocatable
<1>3. work.node \in DOMAIN work.todo
  BY DEF PatchResources, TypeOK, WorkOK
<1> HIDE DEF node, wc, wa
<1> QED
  BY <1>1, <1>2, <1>3, ZenonT(60)

\* What PatchLabels does to the nodes.
LEMMA LabelWrite ==
  ASSUME TypeOK, PatchLabels
  PROVE  \/ UNCHANGED nodes
         \/ /\ work.node \in DOMAIN work.todo
            /\ nodes[work.node] # None
            /\ \E from, want :
                 /\ DOMAIN want \subseteq GFDKeys
                 /\ nodes' = [nodes EXCEPT ![work.node] = [nodes[work.node] EXCEPT
                      !.labels = MergePatch(@, from, Overlay(from, want))]]
<1> DEFINE node == work.todo[work.node]
           want == NodeLabels(work.obj.spec, work.model)
<1>1. \/ UNCHANGED nodes
      \/ /\ nodes[work.node] # None
         /\ nodes' = [nodes EXCEPT ![work.node] = [nodes[work.node] EXCEPT
              !.labels = MergePatch(@, node.labels, Overlay(node.labels, want))]]
  BY DEF PatchLabels
<1>2. DOMAIN want \subseteq GFDKeys
  BY WantedLabels
<1>3. work.node \in DOMAIN work.todo
  BY SMTT(60) DEF PatchLabels, TypeOK, WorkOK
<1> HIDE DEF node, want
<1> QED
  BY <1>1, <1>2, <1>3, SMTT(60)

\* No other step of a reconcile writes a node.
LEMMA WorkerNodes == ASSUME Worker PROVE UNCHANGED nodes \/ PatchResources \/ PatchLabels
BY ZenonT(60) DEF Worker, Begin, ReportInvalid, StartNode, ApplySlice, ListStale, DeleteStale,
       Report, api

\* Both writes are scoped.
LEMMA ScopedStep ==
  ASSUME TypeOK, Worker, NEW n \in Nodes, nodes'[n] # nodes[n]
  PROVE  /\ n = work.node /\ n \in DOMAIN work.todo
         /\ nodes[n] # None /\ ScopedWrite(nodes[n], nodes'[n])
<1>1. CASE PatchResources
  <2>1. PICK fc, fa, wc, wa :
          /\ \A r \in DOMAIN wc : managesResource(r)
          /\ \A r \in DOMAIN wa : managesResource(r)
          /\ nodes' = [nodes EXCEPT ![work.node] = [nodes[work.node] EXCEPT
               !.capacity = MergePatch(@, fc, applyGPUResources(fc, wc)),
               !.allocatable = MergePatch(@, fa, applyGPUResources(fa, wa))]]
    BY <1>1, ResourceWrite, ZenonT(60)
  <2>2. work.node \in DOMAIN work.todo /\ nodes[work.node] # None
    BY <1>1, ResourceWrite, ZenonT(60)
  <2>3. n = work.node /\ IsNode(n, nodes[n])
    BY <2>1, <2>2, SMTT(60) DEF TypeOK, NodesOK
  <2> DEFINE c == MergePatch(nodes[n].capacity, fc, applyGPUResources(fc, wc))
             a == MergePatch(nodes[n].allocatable, fa, applyGPUResources(fa, wa))
  <2>4. /\ nodes'[n].capacity = c /\ nodes'[n].allocatable = a
        /\ nodes'[n].labels = nodes[n].labels /\ nodes'[n].simulated = nodes[n].simulated
    BY <2>1, <2>3, SMTT(60) DEF TypeOK, NodesOK, IsNode
  <2>5. \A r : ~managesResource(r) =>
          /\ r \in DOMAIN c <=> r \in DOMAIN nodes[n].capacity
          /\ r \in DOMAIN nodes[n].capacity => c[r] = nodes[n].capacity[r]
    BY <2>1, ResourcesScoped, SMTT(60)
  <2>6. \A r : ~managesResource(r) =>
          /\ r \in DOMAIN a <=> r \in DOMAIN nodes[n].allocatable
          /\ r \in DOMAIN nodes[n].allocatable => a[r] = nodes[n].allocatable[r]
    BY <2>1, ResourcesScoped, SMTT(60)
  <2> HIDE DEF c, a
  <2>7. ScopedWrite(nodes[n], nodes'[n])
    BY <2>4, <2>5, <2>6, SMTT(60) DEF ScopedWrite, Managed
  <2> QED
    BY <2>2, <2>3, <2>7, SMTT(60)
<1>2. CASE PatchLabels
  <2>1. PICK from, want :
          /\ DOMAIN want \subseteq GFDKeys
          /\ nodes' = [nodes EXCEPT ![work.node] = [nodes[work.node] EXCEPT
               !.labels = MergePatch(@, from, Overlay(from, want))]]
    BY <1>2, LabelWrite, SMTT(60)
  <2>2. work.node \in DOMAIN work.todo /\ nodes[work.node] # None
    BY <1>2, LabelWrite, SMTT(60)
  <2>3. n = work.node /\ IsNode(n, nodes[n])
    BY <2>1, <2>2, SMTT(60) DEF TypeOK, NodesOK
  <2> DEFINE l == MergePatch(nodes[n].labels, from, Overlay(from, want))
  <2>4. /\ nodes'[n].labels = l /\ nodes'[n].simulated = nodes[n].simulated
        /\ nodes'[n].capacity = nodes[n].capacity
        /\ nodes'[n].allocatable = nodes[n].allocatable
    BY <2>1, <2>3, SMTT(60) DEF TypeOK, NodesOK, IsNode
  <2>5. \A k : k \notin GFDKeys =>
          /\ k \in DOMAIN l <=> k \in DOMAIN nodes[n].labels
          /\ k \in DOMAIN nodes[n].labels => l[k] = nodes[n].labels[k]
    BY <2>1, LabelsScoped, SMTT(60)
  <2> HIDE DEF l
  <2>6. ScopedWrite(nodes[n], nodes'[n])
    BY <2>4, <2>5 DEF ScopedWrite
  <2> QED
    BY <2>2, <2>3, <2>6
<1> QED
  BY <1>1, <1>2, WorkerNodes, SMTT(60)

\* A reconcile touches its own resources and labels only, even when its patch
\* lands on a node that has changed or been replaced since it was read.
THEOREM NodeWritesSafe == Spec => NodeWritesAreScoped
<1>1. TypeOK /\ [Next]_vars =>
        [Worker => \A n \in Nodes : nodes'[n] # nodes[n] =>
           nodes[n] # None /\ ScopedWrite(nodes[n], nodes'[n])]_vars
  BY ScopedStep
<1> QED
  BY <1>1, InitType, NextType, PTL DEF Spec, NodeWritesAreScoped

-----------------------------------------------------------------------------
(* Only simulated nodes.  Reconcile filters the nodes it lists with        *)
(* IsSimulatedNode, so no node that never carries the annotation is ever   *)
(* in the loop, however stale the list.                                    *)

\* The inductive invariant behind SimulatedOnly.
LoopOnSimulated ==
  /\ SimulatedOnly
  /\ \A n \in DOMAIN work.todo : ~NeverSimulated(n)

\* A node ghostgpu has not written to.
Untouched(o) ==
  /\ Managed(o.capacity) = {} /\ Managed(o.allocatable) = {}
  /\ DOMAIN o.labels \cap GFDKeys = {}

\* A new node is one.
LEMMA NewNodeUntouched ==
  ASSUME NEW n \in Nodes, NEW shape \in NodeShapes[n] PROVE Untouched(NewNode(shape))
<1>1. DOMAIN NewNode(shape).capacity = {CPU} /\ DOMAIN NewNode(shape).allocatable = {CPU}
  BY DEF NewNode
<1>2. ~managesResource(CPU)
  BY DEF CPU, managesResource
<1>3. DOMAIN NewNode(shape).labels \cap GFDKeys = {}
  BY ShapesAssumption DEF NewNode
<1> QED
  BY <1>1, <1>2, <1>3, SMTT(60) DEF Untouched, Managed

\* A reconcile takes into its loop only nodes its cache shows as simulated.
LEMMA WorkerLoop ==
  ASSUME TypeOK, LoopOnSimulated, Worker PROVE \A n \in DOMAIN work'.todo : ~NeverSimulated(n)
<1>1. ASSUME NEW p \in Pools, Begin(p) PROVE \A n \in DOMAIN work'.todo : ~NeverSimulated(n)
  <2>1. work'.todo = << >> \/ work'.todo = [n \in Matched(cPools[p].spec) |-> cNodes[n]]
    BY <1>1 DEF Begin, Idle
  <2>2. \A n \in Matched(cPools[p].spec) : ~NeverSimulated(n)
    BY DEF Matched, TypeOK, NodesOK, IsNode, NeverSimulated
  <2> QED
    BY <2>1, <2>2, SMTT(60)
<1>2. ASSUME NEW q, Requeue(q) PROVE work'.todo = << >>
  BY <1>2 DEF Requeue, Idle
<1>3. ASSUME NEW status, WriteStatus(status) PROVE work'.todo = << >>
  BY <1>2, <1>3, SMTT(60) DEF WriteStatus, Idle
<1>4. ASSUME NEW n \in Nodes, StartNode(n) PROVE DOMAIN work'.todo = DOMAIN work.todo
  BY <1>4 DEF StartNode, TypeOK, WorkOK, Idle
<1>5. ASSUME ApplySlice PROVE work'.todo = << >> \/ DOMAIN work'.todo = DOMAIN work.todo
  <2>1. \/ Requeue(work.pool)
        \/ work' = [work EXCEPT !.next = @ + 1, !.live = @ \cup {work.apply[work.next].name},
                                !.devices = @ + Len(work.apply[work.next].devices)]
    BY <1>5, ZenonT(60) DEF ApplySlice
  <2>2. ~Requeue(work.pool) => DOMAIN work'.todo = DOMAIN work.todo
    BY <2>1, ZenonT(60) DEF TypeOK, WorkOK, Idle
  <2> QED
    BY <1>2, <2>2, SMTT(60)
<1>6. ASSUME PatchResources PROVE work'.todo = << >> \/ DOMAIN work'.todo = DOMAIN work.todo
  <2>1. \/ work' = [work EXCEPT !.pc = "labels"]
        \/ Requeue(work.pool)
        \/ \E o : work' = [work EXCEPT !.pc = "labels", !.todo[work.node] = o]
    BY <1>6, PatchResourcesEffect, Zenon
  <2>2. work' = [work EXCEPT !.pc = "labels"] => work'.todo = work.todo
    BY DEF TypeOK, WorkOK, Idle
  <2>3. ASSUME NEW o, work' = [work EXCEPT !.pc = "labels", !.todo[work.node] = o]
        PROVE  DOMAIN work'.todo = DOMAIN work.todo
    <3>1. work'.todo = [work.todo EXCEPT ![work.node] = o]
      BY <2>3 DEF TypeOK, WorkOK, Idle
    <3> QED
      BY <3>1
  <2> QED
    BY <1>2, <2>1, <2>2, <2>3, ZenonT(60)
<1>7. ASSUME PatchLabels PROVE work'.todo = << >> \/ DOMAIN work'.todo \subseteq DOMAIN work.todo
  <2>1. work' = NodeDone \/ Requeue(work.pool)
    BY <1>7 DEF PatchLabels
  <2>2. work' = NodeDone => DOMAIN work'.todo \subseteq DOMAIN work.todo
    BY DEF NodeDone, TypeOK, WorkOK, Idle
  <2> QED
    BY <1>2, <2>1, <2>2, SMTT(60)
<1>8. ASSUME ListStale PROVE DOMAIN work'.todo = DOMAIN work.todo
  BY <1>8 DEF ListStale, TypeOK, WorkOK, Idle
<1>9. ASSUME NEW s \in SliceNames, DeleteStale(s) PROVE DOMAIN work'.todo = DOMAIN work.todo
  BY <1>9 DEF DeleteStale, TypeOK, WorkOK, Idle
<1>10. \/ \E p \in Pools : Begin(p)
       \/ work'.todo = << >> \/ DOMAIN work'.todo \subseteq DOMAIN work.todo
  BY <1>3, <1>4, <1>5, <1>6, <1>7, <1>8, <1>9, ZenonT(60) DEF Worker, ReportInvalid, Report
<1> QED
  BY <1>1, <1>10, SMTT(60) DEF LoopOnSimulated

\* The worker keeps the invariant: the node it writes is one of its loop.
LEMMA WorkerSimulated ==
  ASSUME TypeOK, LoopOnSimulated, Worker PROVE LoopOnSimulated'
<1>1. \A n \in Nodes : NeverSimulated(n) => nodes'[n] = nodes[n]
  BY ScopedStep, SMTT(60) DEF LoopOnSimulated
<1>2. SimulatedOnly'
  BY <1>1 DEF LoopOnSimulated, SimulatedOnly, NeverSimulated
<1> QED
  BY <1>2, WorkerLoop DEF LoopOnSimulated, NeverSimulated

\* Users make nodes without managed resources and without GFD labels.
LEMMA UsersSimulated ==
  ASSUME TypeOK, LoopOnSimulated, Users PROVE LoopOnSimulated'
<1> USE DEF Change
<1>1. UNCHANGED work
  BY ZenonT(60) DEF Users, DeletePool, CreatePool, UpdatePool, DeleteNode, CreateNode, ChangeNode,
         SetModel, DropSlice
<1>2. ASSUME NEW n \in Nodes, NEW shape \in NodeShapes[n], CreateNode(n, shape)
      PROVE  SimulatedOnly'
  BY <1>2, NewNodeUntouched, ZenonT(60)
     DEF CreateNode, TypeOK, NodesOK, LoopOnSimulated, SimulatedOnly, NeverSimulated, Untouched
<1>3. ASSUME NEW n \in Nodes, NEW shape \in NodeShapes[n], ChangeNode(n, shape)
      PROVE  SimulatedOnly'
  <2> DEFINE kept == [k \in DOMAIN nodes[n].labels \cap GFDKeys |-> nodes[n].labels[k]]
             o    == nodes'[n]
  <2>1. /\ \A m \in Nodes : m # n => nodes'[m] = nodes[m]
        /\ nodes[n] # None
        /\ o.capacity = nodes[n].capacity /\ o.allocatable = nodes[n].allocatable
        /\ o.labels = Overlay(kept, shape.labels)
    BY <1>3, SMTT(60) DEF ChangeNode, TypeOK, NodesOK, IsNode
  <2>2. NeverSimulated(n) => Untouched(nodes[n])
    BY <2>1 DEF LoopOnSimulated, SimulatedOnly, Untouched
  <2>3. Untouched(nodes[n]) => DOMAIN o.labels \cap GFDKeys = {}
    BY <2>1, ShapesAssumption, SMTT(60) DEF Overlay, Untouched
  <2>4. NeverSimulated(n) => Untouched(o)
    BY <2>1, <2>2, <2>3, ZenonT(60) DEF Untouched
  <2> HIDE DEF kept
  <2> QED
    BY <2>1, <2>4, SMTT(60) DEF LoopOnSimulated, SimulatedOnly, NeverSimulated, Untouched
<1>4. ASSUME NEW n \in Nodes, DeleteNode(n) PROVE SimulatedOnly'
  BY <1>4, SMTT(60) DEF DeleteNode, TypeOK, NodesOK, LoopOnSimulated, SimulatedOnly, NeverSimulated
<1>5. ASSUME UNCHANGED nodes PROVE SimulatedOnly'
  BY <1>5, SMTT(60) DEF LoopOnSimulated, SimulatedOnly, NeverSimulated
<1>6. SimulatedOnly'
  BY <1>2, <1>3, <1>4, <1>5, ZenonT(60)
     DEF Users, DeletePool, CreatePool, UpdatePool, SetModel, DropSlice
<1> QED
  BY <1>1, <1>6, SMTT(60) DEF LoopOnSimulated, NeverSimulated

\* The invariant holds of every behaviour.
LEMMA LoopStaysOnSimulated == Spec => []LoopOnSimulated
<1>1. Init => LoopOnSimulated
  <2> SUFFICES ASSUME Init PROVE LoopOnSimulated
    OBVIOUS
  <2>1. \A n \in Nodes : nodes[n] # None => Untouched(nodes[n])
    BY StartAssumption, NewNodeUntouched, SMTT(60) DEF Init
  <2>2. SimulatedOnly
    BY <2>1, SMTT(60) DEF SimulatedOnly, Untouched
  <2>3. DOMAIN work.todo = {}
    BY DEF Init, Idle
  <2> QED
    BY <2>2, <2>3, SMTT(60) DEF LoopOnSimulated
<1>2. TypeOK /\ LoopOnSimulated /\ [Next]_vars => LoopOnSimulated'
  <2> SUFFICES ASSUME TypeOK, LoopOnSimulated, [Next]_vars PROVE LoopOnSimulated'
    OBVIOUS
  <2>1. CASE UNCHANGED nodes /\ (UNCHANGED work \/ work' = Idle)
    <3>1. SimulatedOnly'
      BY <2>1, SMTT(60) DEF LoopOnSimulated, SimulatedOnly, NeverSimulated
    <3>2. DOMAIN work'.todo = {} \/ DOMAIN work'.todo = DOMAIN work.todo
      BY <2>1, SMTT(60) DEF Idle
    <3> QED
      BY <3>1, <3>2, SMTT(60) DEF LoopOnSimulated, NeverSimulated
  <2>2. CASE UNCHANGED vars
    BY <2>1, <2>2, SMTT(60) DEF vars
  <2>3. CASE APIFailure \/ Cluster \/ Sync \/ Restart
    BY <2>1, <2>3, SMTT(60) DEF APIFailure, Requeue, Cluster, Resync, GarbageCollect, Sync, SyncPool,
       SyncNode, SyncModel, SyncSlice, Restart, api
  <2> QED
    BY <2>2, <2>3, WorkerSimulated, UsersSimulated, SMTT(60) DEF Next
<1> QED
  BY <1>1, <1>2, InitType, NextType, PTL DEF Spec

\* A node that never has the kwok annotation never gets a managed resource or a
\* GFD label, whatever pool selectors match it and however stale the node list.
THEOREM RealNodesUntouched == Spec => []SimulatedOnly
<1>1. LoopOnSimulated => SimulatedOnly
  BY DEF LoopOnSimulated
<1> QED
  BY <1>1, LoopStaysOnSimulated, PTL
=============================================================================
