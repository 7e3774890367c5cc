----------------------- MODULE GPUPoolControllerProofs -----------------------
(***************************************************************************)
(* Safety of the reconciler for any pools, nodes, models and bounds.  Each *)
(* theorem is an inductive invariant: the type invariant first, then the   *)
(* ones that rest on it.                                                   *)
(***************************************************************************)
EXTENDS GPUPoolController, NodeStateProofs

\* How the tables of objects keep their shape when one entry is written.
LEMMA SetPool ==
  ASSUME NEW f, PoolsOK(f), NEW p, NEW v, v = None \/ IsPool(v)
  PROVE  PoolsOK([f EXCEPT ![p] = v])
BY DEF PoolsOK

\* The same for nodes, each of which keeps to the shapes it may have,
LEMMA SetNode ==
  ASSUME NEW f, NodesOK(f), NEW n, NEW v, v = None \/ IsNode(n, v)
  PROVE  NodesOK([f EXCEPT ![n] = v])
BY DEF NodesOK

\* and for slices, each of which some pool owns.
LEMMA SetSlice ==
  ASSUME NEW f, SlicesOK(f), NEW s, NEW v, v = None \/ v.owner \in Pools
  PROVE  SlicesOK([f EXCEPT ![s] = v])
BY DEF SlicesOK

\* Between reconciles the work record is in order.
LEMMA IdleOK == ASSUME work' = Idle PROVE WorkOK'
BY DEF Idle, WorkOK

\* Only a model that exists passes the checks.
LEMMA VerdictModel ==
  ASSUME NEW spec, NEW model, Verdict(spec, model) = "Reconciled"
  PROVE  model # None
BY DEF Verdict

\* The cluster the manager starts on has the right shape.
LEMMA InitType == Init => TypeOK
<1> SUFFICES ASSUME Init PROVE TypeOK
  OBVIOUS
<1>1. PoolsOK(pools)
  <2>1. \A spec \in PoolSpecs : IsPool(NewPool(1, spec))
    BY DEF IsPool, NewPool
  <2> QED
    BY <2>1, StartAssumption DEF Init, PoolsOK
<1>2. NodesOK(nodes)
  BY StartAssumption DEF Init, NodesOK, IsNode, NewNode
<1>3. ModelsOK(models)
  BY StartAssumption DEF Init, ModelsOK
<1>4. SlicesOK(slices)
  BY DEF Init, SlicesOK
<1>5. WorkOK
  BY DEF Init, WorkOK, Idle
<1> QED
  BY <1>1, <1>2, <1>3, <1>4, <1>5, SMTT(60) DEF Init, TypeOK

-----------------------------------------------------------------------------
(* The steps of a reconcile keep the type invariant.                       *)

\* Begin takes its snapshot from well-formed caches, and stops unless the
\* declaration passes the checks.
LEMMA BeginType ==
  ASSUME TypeOK, NEW p \in Pools, Begin(p) PROVE TypeOK'
<1> DEFINE obj   == cPools[p]
           model == cModels[obj.spec.model]
           base  == [Idle EXCEPT !.pool = p, !.obj = obj, !.model = model]
           todo  == [n \in Matched(obj.spec) |-> cNodes[n]]
<1>1. WorkOK'
  <2>1. CASE obj = None
    BY <2>1, IdleOK DEF Begin
  <2>2. CASE obj # None /\ Verdict(obj.spec, model) # "Reconciled"
    <3>1. work' = [base EXCEPT !.pc = "report"]
      BY <2>2 DEF Begin, Admitted
    <3>2. IsPool(obj)
      BY <2>2 DEF TypeOK, PoolsOK
    <3> HIDE DEF obj, model
    <3> QED
      BY <3>1, <3>2, <2>2, SMTT(60) DEF WorkOK, Idle
  <2>3. CASE obj # None /\ Verdict(obj.spec, model) = "Reconciled"
    <3>1. work' = [base EXCEPT !.pc = "loop", !.todo = todo]
      BY <2>3 DEF Begin, Admitted
    <3>2. IsPool(obj)
      BY <2>3 DEF TypeOK, PoolsOK
    <3>3. obj.spec.model \in Models
      BY <3>2, SpecsAssumption DEF IsPool
    <3>4. model \in ModelSpecs
      BY <2>3, <3>3, VerdictModel, SMTT(60) DEF TypeOK, ModelsOK
    <3>5. DOMAIN todo \subseteq Nodes /\ \A n \in DOMAIN todo : IsNode(n, todo[n])
      BY DEF TypeOK, NodesOK, Matched
    <3> HIDE DEF obj, model, todo
    <3> QED
      BY <3>1, <3>2, <3>4, <3>5, <2>3, SMTT(60) DEF WorkOK, Idle
  <2> QED
    BY <2>1, <2>2, <2>3, SMTT(60)
<1> QED
  BY <1>1 DEF TypeOK, Begin, api, caches, bounds

\* A status write keeps the pool's shape, or puts the pool back in the queue.
LEMMA WriteStatusType ==
  ASSUME TypeOK, NEW status, DOMAIN status = DOMAIN NewStatus, work.pc # "idle",
         WriteStatus(status)
  PROVE  PoolsOK(pools)' /\ WorkOK' /\ (queue \subseteq Pools)'
<1>1. WorkOK'
  BY IdleOK DEF WriteStatus, Requeue
<1>2. (queue \subseteq Pools)'
  BY DEF WriteStatus, Requeue, TypeOK, WorkOK
<1>3. PoolsOK(pools)'
  <2>1. CASE pools[work.pool] = work.obj
    <3> DEFINE o == [pools[work.pool] EXCEPT !.status = status]
    <3>1. pools' = [pools EXCEPT ![work.pool] = o]
      BY <2>1 DEF WriteStatus
    <3>2. IsPool(o)
      BY <2>1 DEF TypeOK, WorkOK, IsPool
    <3> HIDE DEF o
    <3>3. PoolsOK([pools EXCEPT ![work.pool] = o])
      BY <3>2, SetPool DEF TypeOK
    <3> QED
      BY <3>1, <3>3 DEF PoolsOK
  <2>2. CASE pools[work.pool] # work.obj
    BY <2>2 DEF WriteStatus, TypeOK, PoolsOK
  <2> QED
    BY <2>1, <2>2
<1> QED
  BY <1>1, <1>2, <1>3, SMTT(60)

\* Putting the current pool back in the queue and stopping.
LEMMA RequeueType ==
  ASSUME TypeOK, work.pc # "idle", Requeue(work.pool)
  PROVE  WorkOK' /\ (queue \subseteq Pools)'
BY IdleOK DEF Requeue, TypeOK, WorkOK

\* A turn of the loop starts on a node of the snapshot.
LEMMA StartNodeType ==
  ASSUME TypeOK, NEW n \in Nodes, StartNode(n) PROVE TypeOK'
<1>1. WorkOK'
  BY SMTT(60) DEF StartNode, TypeOK, WorkOK, Idle
<1> QED
  BY <1>1 DEF StartNode, TypeOK, api, caches, bounds

\* A slice is written with the reconciled pool as its owner, or not at all.
LEMMA ApplySliceType ==
  ASSUME TypeOK, ApplySlice PROVE TypeOK'
<1> DEFINE desired == work.apply[work.next]
           owned   == [slice |-> desired, owner |-> work.pool, uid |-> work.obj.uid]
<1>1. \/ /\ slices' = slices \/ slices' = [slices EXCEPT ![desired.name] = owned]
         /\ queue' = queue
         /\ work' = [work EXCEPT !.next = @ + 1, !.live = @ \cup {desired.name},
                                 !.devices = @ + Len(desired.devices)]
      \/ Requeue(work.pool) /\ UNCHANGED slices
  BY ZenonT(60) DEF ApplySlice
<1>2. work.pc = "slices" /\ work.pool \in Pools
  BY ZenonT(60) DEF ApplySlice, TypeOK, WorkOK
<1>3. SlicesOK(slices)'
  <2>1. owned.owner \in Pools
    BY <1>2
  <2> HIDE DEF owned, desired
  <2>2. SlicesOK([slices EXCEPT ![desired.name] = owned])
    BY <2>1, SetSlice, SMTT(60) DEF TypeOK
  <2> QED
    BY <1>1, <2>2 DEF TypeOK, SlicesOK
<1>4. WorkOK' /\ (queue \subseteq Pools)'
  <2> HIDE DEF owned, desired
  <2>1. CASE Requeue(work.pool)
    BY <2>1, <1>2, RequeueType
  <2>2. CASE ~Requeue(work.pool)
    BY <2>2, <1>1, ZenonT(60) DEF TypeOK, WorkOK, Idle
  <2> QED
    BY <2>1, <2>2
<1> QED
  BY <1>3, <1>4, ZenonT(60) DEF ApplySlice, TypeOK, caches, bounds

\* What PatchResources may do: nothing, stop, or write the two resource lists of
\* one node and keep the answer.
LEMMA PatchResourcesEffect ==
  ASSUME PatchResources
  PROVE  \/ work' = [work EXCEPT !.pc = "labels"] /\ UNCHANGED <<nodes, queue>>
         \/ Requeue(work.pool) /\ UNCHANGED nodes
         \/ \E c, a :
              LET answer == [nodes[work.node] EXCEPT !.capacity = c, !.allocatable = a]
              IN  /\ nodes[work.node] # None
                  /\ nodes' = [nodes EXCEPT ![work.node] = answer]
                  /\ work' = [work EXCEPT !.pc = "labels", !.todo[work.node] = answer]
                  /\ UNCHANGED queue
BY ZenonT(60) DEF PatchResources

\* A patched node still is the node it was: same fields, same annotation.
LEMMA PatchResourcesType ==
  ASSUME TypeOK, PatchResources PROVE TypeOK'
<1>1. work.pc = "slices" /\ work.node \in DOMAIN work.todo /\ work.node \in Nodes
  BY SMTT(60) DEF PatchResources, TypeOK, WorkOK
<1>3. NodesOK(nodes)' /\ WorkOK' /\ (queue \subseteq Pools)'
  <2>1. CASE work' = [work EXCEPT !.pc = "labels"] /\ UNCHANGED <<nodes, queue>>
    BY <1>1, <2>1, SMTT(60) DEF TypeOK, NodesOK, WorkOK, Idle
  <2>2. CASE Requeue(work.pool) /\ UNCHANGED nodes
    BY <1>1, <2>2, RequeueType, SMTT(60) DEF TypeOK, NodesOK
  <2>3. ASSUME NEW c, NEW a, nodes[work.node] # None,
               nodes' = [nodes EXCEPT ![work.node] =
                           [nodes[work.node] EXCEPT !.capacity = c, !.allocatable = a]],
               work' = [work EXCEPT !.pc = "labels", !.todo[work.node] =
                           [nodes[work.node] EXCEPT !.capacity = c, !.allocatable = a]],
               UNCHANGED queue
        PROVE  NodesOK(nodes)' /\ WorkOK' /\ (queue \subseteq Pools)'
    <3> DEFINE answer == [nodes[work.node] EXCEPT !.capacity = c, !.allocatable = a]
    <3>1. IsNode(work.node, answer)
      BY <1>1, <2>3, SMTT(60) DEF TypeOK, NodesOK, IsNode
    <3>2. nodes' = [nodes EXCEPT ![work.node] = answer]
      BY <2>3
    <3>3. work' = [work EXCEPT !.pc = "labels", !.todo[work.node] = answer]
      BY <2>3
    <3> HIDE DEF answer
    <3>4. NodesOK([nodes EXCEPT ![work.node] = answer])
      BY <3>1, SetNode, SMTT(60) DEF TypeOK
    <3>5. WorkOK'
      BY <1>1, <3>1, <3>3, SMTT(60) DEF TypeOK, WorkOK, Idle
    <3> QED
      BY <2>3, <3>2, <3>4, <3>5, SMTT(60) DEF TypeOK, NodesOK
  <2> QED
    BY PatchResourcesEffect, <2>1, <2>2, <2>3, ZenonT(60)
<1> QED
  BY <1>3, SMTT(60) DEF PatchResources, TypeOK, caches, bounds

\* A label patch ends the node's turn and leaves the rest of the node alone.
LEMMA PatchLabelsType ==
  ASSUME TypeOK, PatchLabels PROVE TypeOK'
<1>1. work.pc = "labels" /\ work.node \in Nodes
  BY DEF PatchLabels, TypeOK, WorkOK
<1>2. ASSUME work' = NodeDone PROVE WorkOK'
  BY <1>1, <1>2, SMTT(60) DEF NodeDone, TypeOK, WorkOK, Idle
<1>3. \/ work' = NodeDone /\ UNCHANGED <<nodes, queue>>
      \/ Requeue(work.pool) /\ UNCHANGED nodes
      \/ \E l : /\ nodes[work.node] # None
                /\ nodes' = [nodes EXCEPT ![work.node].labels = l]
                /\ work' = NodeDone
                /\ UNCHANGED queue
  BY DEF PatchLabels
<1>4. NodesOK(nodes)' /\ WorkOK' /\ (queue \subseteq Pools)'
  <2>1. CASE work' = NodeDone /\ UNCHANGED <<nodes, queue>>
    BY <1>2, <2>1 DEF TypeOK, NodesOK
  <2>2. CASE Requeue(work.pool) /\ UNCHANGED nodes
    BY <1>1, <2>2, RequeueType, SMTT(60) DEF TypeOK, NodesOK
  <2>3. ASSUME NEW l, nodes[work.node] # None,
               nodes' = [nodes EXCEPT ![work.node].labels = l],
               work' = NodeDone, UNCHANGED queue
        PROVE  NodesOK(nodes)' /\ WorkOK' /\ (queue \subseteq Pools)'
    <3> DEFINE o == [nodes[work.node] EXCEPT !.labels = l]
    <3>1. IsNode(work.node, o)
      BY <1>1, <2>3, SMTT(60) DEF TypeOK, NodesOK, IsNode
    <3>2. nodes' = [nodes EXCEPT ![work.node] = o]
      BY <2>3, SMTT(60)
    <3> HIDE DEF o
    <3>3. NodesOK([nodes EXCEPT ![work.node] = o])
      BY <3>1, SetNode DEF TypeOK
    <3> QED
      BY <1>2, <2>3, <3>2, <3>3, SMTT(60) DEF TypeOK, NodesOK
  <2> QED
    BY <1>3, <2>1, <2>2, <2>3, ZenonT(60)
<1> QED
  BY <1>4 DEF PatchLabels, TypeOK, caches, bounds

\* pruneSlices lists names of slices that exist in the cache, and deletes them.
LEMMA PruneType ==
  ASSUME TypeOK, ListStale \/ \E s \in SliceNames : DeleteStale(s) PROVE TypeOK'
<1>1. CASE ListStale
  <2>1. WorkOK'
    BY <1>1 DEF ListStale, Stale, TypeOK, WorkOK, Idle
  <2> QED
    BY <1>1, <2>1, SMTT(60) DEF ListStale, TypeOK, api, caches, bounds
<1>2. ASSUME NEW s \in SliceNames, DeleteStale(s) PROVE TypeOK'
  <2>1. WorkOK'
    BY <1>2, SMTT(60) DEF DeleteStale, TypeOK, WorkOK, Idle
  <2>2. SlicesOK(slices)'
    BY <1>2, SMTT(60) DEF DeleteStale, TypeOK, SlicesOK
  <2> QED
    BY <1>2, <2>1, <2>2, SMTT(60) DEF DeleteStale, TypeOK, caches, bounds
<1> QED
  BY <1>1, <1>2, SMTT(60)

\* A status that is written has the fields it had.
LEMMA StatusFields ==
  ASSUME NEW status, NEW ready, NEW reason
  PROVE  DOMAIN setReady(status, ready, reason) = DOMAIN status
BY DEF setReady

\* Both ends of Reconcile are a status write.
LEMMA StatusType ==
  ASSUME TypeOK, ReportInvalid \/ Report PROVE TypeOK'
<1>1. work.pc # "idle"
  BY Zenon DEF ReportInvalid, Report
<1>2. DOMAIN work.obj.status = DOMAIN NewStatus
  BY <1>1 DEF TypeOK, WorkOK, IsPool
<1>3. DOMAIN Counts = DOMAIN NewStatus
  BY <1>2 DEF Counts
<1>4. PICK status : WriteStatus(status) /\ DOMAIN status = DOMAIN NewStatus
  <2>1. CASE ReportInvalid
    <3> DEFINE st == setReady(work.obj.status, FALSE, Verdict(work.obj.spec, work.model))
    <3>1. WriteStatus(st)
      BY <2>1, Zenon DEF ReportInvalid
    <3>2. DOMAIN st = DOMAIN NewStatus
      BY <1>2, StatusFields, Zenon
    <3> QED
      BY <3>1, <3>2, Zenon
  <2>2. CASE Report
    <3> DEFINE st == setReady(Counts, TRUE, "Reconciled")
    <3>1. WriteStatus(st)
      BY <2>2, Zenon DEF Report
    <3>2. DOMAIN st = DOMAIN NewStatus
      BY <1>3, StatusFields, Zenon
    <3> QED
      BY <3>1, <3>2, Zenon
  <2> QED
    BY <2>1, <2>2
<1>5. PoolsOK(pools)' /\ WorkOK' /\ (queue \subseteq Pools)'
  BY <1>1, <1>4, WriteStatusType
<1> QED
  BY <1>5, Zenon DEF ReportInvalid, Report, TypeOK, caches, bounds

\* Every step of a reconcile.
LEMMA WorkerType ==
  ASSUME TypeOK, Worker PROVE TypeOK'
BY BeginType, StatusType, StartNodeType, ApplySliceType, PatchResourcesType,
   PatchLabelsType, PruneType DEF Worker

-----------------------------------------------------------------------------
(* So do failures, the cluster and users.                                  *)

\* A failure or a restart drops the reconcile and keeps every object.
LEMMA FailureType ==
  ASSUME TypeOK, APIFailure \/ Restart PROVE TypeOK'
<1>1. CASE APIFailure
  <2>1. WorkOK' /\ (queue \subseteq Pools)'
    BY <1>1, RequeueType, SMTT(60) DEF APIFailure
  <2> QED
    BY <1>1, <2>1, SMTT(60) DEF APIFailure, TypeOK, api, caches
<1>2. CASE Restart
  BY <1>2, IdleOK, SMTT(60) DEF Restart, TypeOK, api, PoolsOK, NodesOK, SlicesOK, ModelsOK
<1> QED
  BY <1>1, <1>2, SMTT(60)

\* A cache entry becomes the object it stands for.
LEMMA SyncType ==
  ASSUME TypeOK, Sync PROVE TypeOK'
<1> USE DEF api, bounds
<1>0. ASSUME UNCHANGED work PROVE WorkOK'
  BY <1>0, SMTT(60) DEF TypeOK, WorkOK
<1>1. ASSUME NEW p \in Pools, SyncPool(p) PROVE TypeOK'
  <2>1. PoolsOK([cPools EXCEPT ![p] = pools[p]])
    BY SetPool, SMTT(60) DEF TypeOK, PoolsOK
  <2> QED
    BY <1>0, <1>1, <2>1, SMTT(60) DEF SyncPool, TypeOK, PoolsOK
<1>2. ASSUME NEW n \in Nodes, SyncNode(n) PROVE TypeOK'
  <2>1. NodesOK([cNodes EXCEPT ![n] = nodes[n]])
    BY SetNode, SMTT(60) DEF TypeOK, NodesOK
  <2> QED
    BY <1>0, <1>2, <2>1, SMTT(60) DEF SyncNode, poolsForNode, TypeOK, NodesOK
<1>3. ASSUME NEW m \in Models, SyncModel(m) PROVE TypeOK'
  BY <1>0, <1>3, SMTT(60) DEF SyncModel, TypeOK, ModelsOK
<1>4. ASSUME NEW s \in SliceNames, SyncSlice(s) PROVE TypeOK'
  <2>1. SlicesOK([cSlices EXCEPT ![s] = slices[s]])
    BY SetSlice DEF TypeOK, SlicesOK
  <2> QED
    BY <1>0, <1>4, <2>1, SMTT(60) DEF SyncSlice, TypeOK, SlicesOK
<1> QED
  BY <1>1, <1>2, <1>3, <1>4, SMTT(60) DEF Sync

\* The resync and the garbage collector write no object but a slice's absence.
LEMMA ClusterType ==
  ASSUME TypeOK, Cluster PROVE TypeOK'
<1>0. ASSUME UNCHANGED work PROVE WorkOK'
  BY <1>0 DEF TypeOK, WorkOK
<1>1. ASSUME NEW p \in Pools, Resync(p) PROVE TypeOK'
  BY <1>0, <1>1, SMTT(60) DEF Resync, TypeOK, api, caches, bounds
<1>2. ASSUME NEW s \in SliceNames, GarbageCollect(s) PROVE TypeOK'
  BY <1>0, <1>2, SMTT(60) DEF GarbageCollect, TypeOK, SlicesOK, caches, bounds
<1> QED
  BY <1>1, <1>2, SMTT(60) DEF Cluster

\* What users may do keeps objects within the specs and shapes assumed.
LEMMA UsersType ==
  ASSUME TypeOK, Users PROVE TypeOK'
<1> USE DEF Change, caches
<1>0. ASSUME UNCHANGED work PROVE WorkOK'
  BY <1>0 DEF TypeOK, WorkOK
<1>1. ASSUME NEW p \in Pools, DeletePool(p) PROVE TypeOK'
  BY <1>0, <1>1, SMTT(60) DEF DeletePool, TypeOK, PoolsOK
<1>2. ASSUME NEW p \in Pools, NEW spec \in PoolSpecs, CreatePool(p, spec) PROVE TypeOK'
  <2>1. uids' \in [Pools -> Nat]
    BY <1>2, SMTT(60) DEF CreatePool, TypeOK
  <2>2. IsPool(NewPool(uids'[p], spec))
    BY <2>1, SMTT(60) DEF IsPool, NewPool
  <2>3. PoolsOK([pools EXCEPT ![p] = NewPool(uids'[p], spec)])
    BY <2>2, SetPool, SMTT(60) DEF TypeOK
  <2>4. PoolsOK(pools)'
    BY <1>2, <2>3, SMTT(60) DEF CreatePool, PoolsOK
  <2> QED
    BY <1>0, <1>2, <2>1, <2>4, SMTT(60) DEF CreatePool, TypeOK
<1>3. ASSUME NEW p \in Pools, NEW spec \in PoolSpecs, UpdatePool(p, spec) PROVE TypeOK'
  <2> DEFINE o == [pools[p] EXCEPT !.spec = spec, !.gen = @ + 1]
  <2>1. IsPool(o)
    BY <1>3, SMTT(60) DEF UpdatePool, TypeOK, PoolsOK, IsPool
  <2>2. pools' = [pools EXCEPT ![p] = o]
    BY <1>3, SMTT(60) DEF UpdatePool, TypeOK, PoolsOK, IsPool
  <2> HIDE DEF o
  <2>3. PoolsOK([pools EXCEPT ![p] = o])
    BY <2>1, SetPool, SMTT(60) DEF TypeOK
  <2>4. PoolsOK(pools)'
    BY <2>2, <2>3, SMTT(60) DEF PoolsOK
  <2> QED
    BY <1>0, <1>3, <2>4, SMTT(60) DEF UpdatePool, TypeOK
<1>4. ASSUME NEW n \in Nodes, DeleteNode(n) PROVE TypeOK'
  BY <1>0, <1>4, SMTT(60) DEF DeleteNode, TypeOK, NodesOK
<1>5. ASSUME NEW n \in Nodes, NEW shape \in NodeShapes[n], CreateNode(n, shape) PROVE TypeOK'
  <2>1. IsNode(n, NewNode(shape))
    BY SMTT(60) DEF IsNode, NewNode
  <2>2. NodesOK([nodes EXCEPT ![n] = NewNode(shape)])
    BY <2>1, SetNode, SMTT(60) DEF TypeOK
  <2> QED
    BY <1>0, <1>5, <2>2, SMTT(60) DEF CreateNode, TypeOK, NodesOK
<1>6. ASSUME NEW n \in Nodes, NEW shape \in NodeShapes[n], ChangeNode(n, shape) PROVE TypeOK'
  <2>1. PICK l : nodes' = [nodes EXCEPT ![n].simulated = shape.simulated, ![n].labels = l]
    BY <1>6, SMTT(60) DEF ChangeNode
  <2> DEFINE o == [nodes[n] EXCEPT !.simulated = shape.simulated, !.labels = l]
  <2>2. IsNode(n, o)
    BY <1>6, SMTT(60) DEF ChangeNode, TypeOK, NodesOK, IsNode
  <2>3. nodes' = [nodes EXCEPT ![n] = o]
    BY <1>6, <2>1, ZenonT(60) DEF ChangeNode, TypeOK, NodesOK, IsNode
  <2> HIDE DEF o
  <2>4. NodesOK([nodes EXCEPT ![n] = o])
    BY <2>2, SetNode, SMTT(60) DEF TypeOK
  <2>5. NodesOK(nodes)'
    BY <2>3, <2>4, SMTT(60) DEF NodesOK
  <2> QED
    BY <1>0, <1>6, <2>5, SMTT(60) DEF ChangeNode, TypeOK
<1>7. ASSUME NEW m \in Models, NEW spec \in ModelSpecs \cup {None}, SetModel(m, spec) PROVE TypeOK'
  BY <1>0, <1>7, SMTT(60) DEF SetModel, TypeOK, ModelsOK
<1>8. ASSUME NEW s \in SliceNames, DropSlice(s) PROVE TypeOK'
  BY <1>0, <1>8, SMTT(60) DEF DropSlice, TypeOK, SlicesOK
<1> QED
  BY <1>1, <1>2, <1>3, <1>4, <1>5, <1>6, <1>7, <1>8, SMTT(60) DEF Users

\* Every step keeps the type invariant.
LEMMA NextType == TypeOK /\ [Next]_vars => TypeOK'
<1> SUFFICES ASSUME TypeOK, [Next]_vars PROVE TypeOK'
  BY SMTT(60)
<1>1. CASE UNCHANGED vars
  BY <1>1, ZenonT(60) DEF vars, TypeOK, PoolsOK, NodesOK, ModelsOK, SlicesOK, WorkOK
<1> QED
  BY <1>1, WorkerType, FailureType, ClusterType, UsersType, SyncType, SMTT(60) DEF Next

\* Whatever users, the cluster and failures do, objects and caches keep their
\* shape, and a reconcile past its checks works from a pool in its snapshot, on
\* a declaration that passed them, and on nodes of that snapshot.
THEOREM TypeCorrect == Spec => []TypeOK
BY InitType, NextType, PTL DEF Spec

-----------------------------------------------------------------------------
(* Ownership.  A slice may be deleted and made again while the cache still *)
(* shows the old one, but only one worker makes slices, and it makes one   *)
(* only where its cache shows none: so a cached slice, however stale, has  *)
(* the owner the live one has.  That is why deleting by name is safe.      *)

\* The inductive invariant behind ForeignSlicesUntouched.
OwnersKnown ==
  /\ \A s \in SliceNames : (cSlices[s] # None /\ slices[s] # None) =>
                              cSlices[s].owner = slices[s].owner
  /\ work.pc = "prune" => \A s \in work.del : slices[s] # None => slices[s].owner = work.pool

\* What one ApplySlice may do to the slices: nothing, make one where none is
\* cached, or rewrite one that the cache and the server agree the pool owns.
LEMMA ApplySliceEffect ==
  ASSUME TypeOK, ApplySlice
  PROVE  \/ UNCHANGED slices
         \/ \E name, o : /\ slices' = [slices EXCEPT ![name] = o]
                         /\ o.owner = work.pool
                         /\ \/ cSlices[name] = None /\ slices[name] = None
                            \/ slices[name] = cSlices[name] /\ slices[name].owner = work.pool
<1> DEFINE desired == work.apply[work.next]
           name    == desired.name
           o       == [slice |-> desired, owner |-> work.pool, uid |-> work.obj.uid]
<1>1. \/ UNCHANGED slices
      \/ /\ slices' = [slices EXCEPT ![name] = o]
         /\ \/ cSlices[name] = None /\ slices[name] = None
            \/ slices[name] = cSlices[name] /\ cSlices[name].owner = work.pool
  BY ZenonT(60) DEF ApplySlice
<1>2. o.owner = work.pool
  BY SMTT(60)
<1> HIDE DEF name, o
<1> QED
  BY <1>1, <1>2, SMTT(60)

\* No step of a reconcile other than these two writes a slice.
LEMMA WorkerSlices ==
  ASSUME Worker PROVE UNCHANGED slices \/ ApplySlice \/ \E s \in SliceNames : DeleteStale(s)
BY ZenonT(60)
   DEF Worker, Begin, ReportInvalid, StartNode, PatchResources, PatchLabels, ListStale,
       Report, api

\* A reconcile leaves the slices of other pools alone in one step.
LEMMA ForeignStep ==
  ASSUME TypeOK, OwnersKnown, Worker, NEW s \in SliceNames
  PROVE  slices'[s] = slices[s] \/ slices[s] = None \/ slices[s].owner = work.pool
<1>1. CASE ApplySlice
  BY <1>1, ApplySliceEffect, SMTT(60) DEF TypeOK, SlicesOK
<1>2. CASE \E t \in SliceNames : DeleteStale(t)
  BY <1>2, SMTT(60) DEF DeleteStale, OwnersKnown, TypeOK, SlicesOK
<1> QED
  BY <1>1, <1>2, WorkerSlices, SMTT(60)

\* The worker keeps caches as they are.
LEMMA WorkerCaches == ASSUME Worker PROVE UNCHANGED caches
BY ZenonT(60)
   DEF Worker, Begin, ReportInvalid, StartNode, ApplySlice, PatchResources, PatchLabels,
       ListStale, DeleteStale, Report

\* A step of a reconcile that is pruning afterwards listed or deleted.
LEMMA PruningStep ==
  ASSUME TypeOK, Worker, work'.pc = "prune"
  PROVE  ListStale \/ \E s \in SliceNames : DeleteStale(s)
<1>1. ASSUME NEW p \in Pools, Begin(p) PROVE FALSE
  BY <1>1, SMTT(60) DEF Begin, Idle
<1>2. ASSUME NEW q, Requeue(q) PROVE FALSE
  BY <1>2, SMTT(60) DEF Requeue, Idle
<1>3. ASSUME NEW status, WriteStatus(status) PROVE FALSE
  BY <1>2, <1>3, SMTT(60) DEF WriteStatus, Idle
<1>4. ASSUME NEW n \in Nodes, StartNode(n) PROVE FALSE
  BY <1>4, SMTT(60) DEF StartNode, TypeOK, WorkOK, Idle
<1>5. ASSUME ApplySlice PROVE FALSE
  BY <1>2, <1>5, ZenonT(60) DEF ApplySlice, TypeOK, WorkOK, Idle
<1>6. ASSUME PatchResources PROVE FALSE
  BY <1>2, <1>6, PatchResourcesEffect, ZenonT(60) DEF TypeOK, WorkOK, Idle
<1>7. ASSUME PatchLabels PROVE FALSE
  BY <1>2, <1>7, ZenonT(60) DEF PatchLabels, NodeDone, TypeOK, WorkOK, Idle
<1> QED
  BY <1>1, <1>3, <1>4, <1>5, <1>6, <1>7, ZenonT(60) DEF Worker, ReportInvalid, Report

\* The worker keeps the ownership invariant.
LEMMA WorkerOwners ==
  ASSUME TypeOK, OwnersKnown, Worker PROVE OwnersKnown'
<1>1. \A s \in SliceNames : (cSlices'[s] # None /\ slices'[s] # None) =>
                               cSlices'[s].owner = slices'[s].owner
  <2>0. cSlices' = cSlices
    BY WorkerCaches, SMTT(60) DEF caches
  <2>1. CASE ApplySlice
    BY <2>0, <2>1, ApplySliceEffect, SMTT(60) DEF OwnersKnown, TypeOK, SlicesOK
  <2>2. CASE \E t \in SliceNames : DeleteStale(t)
    BY <2>0, <2>2, SMTT(60) DEF DeleteStale, OwnersKnown, TypeOK, SlicesOK
  <2> QED
    BY <2>0, <2>1, <2>2, WorkerSlices, SMTT(60) DEF OwnersKnown
<1>2. ASSUME work'.pc = "prune"
      PROVE  \A s \in work'.del : slices'[s] # None => slices'[s].owner = work'.pool
  <2>1. CASE ListStale
    BY <2>1, SMTT(60) DEF ListStale, Stale, OwnersKnown, TypeOK, WorkOK, Idle, api
  <2>2. CASE \E t \in SliceNames : DeleteStale(t)
    BY <2>2, SMTT(60) DEF DeleteStale, OwnersKnown, TypeOK, WorkOK, SlicesOK, Idle
  <2> QED
    BY <1>2, <2>1, <2>2, PruningStep, SMTT(60)
<1> QED
  BY <1>1, <1>2 DEF OwnersKnown

\* Caches catch up with the server one slice at a time.
LEMMA SyncOwners ==
  ASSUME TypeOK, OwnersKnown, Sync PROVE OwnersKnown'
<1>1. UNCHANGED <<slices, work>>
  BY SMTT(60) DEF Sync, SyncPool, SyncNode, SyncModel, SyncSlice, api
<1>2. UNCHANGED cSlices \/ \E s \in SliceNames : cSlices' = [cSlices EXCEPT ![s] = slices[s]]
  BY SMTT(60) DEF Sync, SyncPool, SyncNode, SyncModel, SyncSlice
<1> QED
  BY <1>1, <1>2, SMTT(60) DEF OwnersKnown, TypeOK, SlicesOK

\* Nobody but the worker makes a slice.
LEMMA OthersOwners ==
  ASSUME TypeOK, OwnersKnown, APIFailure \/ Cluster \/ Users PROVE OwnersKnown'
<1>1. CASE APIFailure
  BY <1>1, SMTT(60) DEF APIFailure, Requeue, Idle, OwnersKnown, api, caches
<1>2. CASE Cluster \/ Users
  <2>1. UNCHANGED <<cSlices, work>>
    BY <1>2, ZenonT(60)
       DEF Cluster, Resync, GarbageCollect, Users, DeletePool, CreatePool, UpdatePool,
       DeleteNode, CreateNode, ChangeNode, SetModel, DropSlice, Change, caches
  <2>2. UNCHANGED slices \/ \E s \in SliceNames : slices' = [slices EXCEPT ![s] = None]
    BY <1>2, ZenonT(60)
       DEF Cluster, Resync, GarbageCollect, Users, DeletePool, CreatePool, UpdatePool,
       DeleteNode, CreateNode, ChangeNode, SetModel, DropSlice, api
  <2> QED
    BY <2>1, <2>2, ZenonT(60) DEF OwnersKnown, TypeOK, SlicesOK, WorkOK
<1> QED
  BY <1>1, <1>2, SMTT(60)

\* The ownership invariant is inductive.
LEMMA NextOwners == TypeOK /\ OwnersKnown /\ [Next]_vars => OwnersKnown'
<1> SUFFICES ASSUME TypeOK, OwnersKnown, [Next]_vars PROVE OwnersKnown'
  BY SMTT(60)
<1>1. CASE UNCHANGED vars
  BY <1>1, SMTT(60) DEF vars, OwnersKnown
<1>2. CASE Restart
  BY <1>2, SMTT(60) DEF Restart, OwnersKnown, Idle, api
<1> QED
  BY <1>1, <1>2, WorkerOwners, OthersOwners, SyncOwners, SMTT(60) DEF Next

\* A reconcile never overwrites or deletes a slice another pool controls: for
\* any names, however they collide, and however stale its caches are.
THEOREM ForeignSlicesSafe == Spec => ForeignSlicesUntouched
<1>1. Init => OwnersKnown
  BY DEF Init, OwnersKnown, Idle
<1>2. TypeOK /\ OwnersKnown /\ [Next]_vars =>
        [Worker => \A s \in SliceNames :
           slices'[s] = slices[s] \/ slices[s] = None \/ slices[s].owner = work.pool]_vars
  BY ForeignStep, SMTT(60)
<1> QED
  BY <1>1, <1>2, InitType, NextType, NextOwners, PTL DEF Spec, ForeignSlicesUntouched

-----------------------------------------------------------------------------
(* Publication.  The slices a turn of the loop is about to apply were      *)
(* built for a declaration that passed every check, so what it publishes,  *)
(* one slice at a time and in spite of failures, was asked for.            *)

\* The inductive invariant behind PublishedIsDeclared.
DesiredIsDeclared ==
  /\ PublishedIsDeclared
  /\ work.pc = "slices" =>
       \A i \in DOMAIN work.apply : [owner |-> work.pool, slice |-> work.apply[i]] \in Declared

\* A declaration that passes the checks has occupancy and faults within bounds.
LEMMA VerdictChecks ==
  ASSUME NEW spec, NEW model, Verdict(spec, model) = "Reconciled"
  PROVE  ValidateOccupancy(spec) /\ ValidateFaults(spec)
BY SMTT(60) DEF Verdict

\* Every slice built for a checked declaration is one of Declared.
LEMMA BuiltIsDeclared ==
  ASSUME NEW p \in Pools, NEW n \in Nodes, NEW spec \in PoolSpecs, NEW model \in ModelSpecs,
         Verdict(spec, model) = "Reconciled", NEW labels,
         NEW i \in DOMAIN DesiredSlices(p, spec, model, n, StateFor(spec, labels))
  PROVE  [owner |-> p, slice |-> DesiredSlices(p, spec, model, n, StateFor(spec, labels))[i]]
           \in Declared
<1> DEFINE state == StateFor(spec, labels)
           d     == <<spec, model>>
           built == DesiredSlices(p, spec, model, n, state)
<1>1. state \in NodeStates(spec)
  BY SpecsAssumption, StateForInRange, VerdictChecks, SMTT(60)
<1>2. d \in ValidDeclarations /\ d[1] = spec /\ d[2] = model
  BY SMTT(60) DEF ValidDeclarations
<1>3. built[i] \in ToSet(DesiredSlices(p, d[1], d[2], n, state))
  BY <1>2, SMTT(60) DEF ToSet
<1>4. state \in NodeStates(d[1])
  BY <1>1, <1>2, SMTT(60)
<1> HIDE DEF state, d, built
<1>5. [owner |-> p, slice |-> built[i]] \in DeclaredBy(p, n, d)
  BY <1>3, <1>4, SMTT(60) DEF DeclaredBy
<1>6. [owner |-> p, slice |-> built[i]] \in Declared
  BY <1>2, <1>5, SMTT(60) DEF Declared
<1> QED
  BY <1>6, SMTT(60) DEF built, state

\* The slices of a turn of the loop are declared ones.
LEMMA StartNodeDeclared ==
  ASSUME TypeOK, NEW n \in Nodes, StartNode(n)
  PROVE  \A i \in DOMAIN work'.apply : [owner |-> work'.pool, slice |-> work'.apply[i]] \in Declared
<1> DEFINE state == StateFor(work.obj.spec, work.todo[n].labels)
<1>1. /\ work'.apply = DesiredSlices(work.pool, work.obj.spec, work.model, n, state)
      /\ work'.pool = work.pool
  BY SMTT(60) DEF StartNode, TypeOK, WorkOK, Idle
<1>2. /\ work.pool \in Pools /\ work.obj.spec \in PoolSpecs /\ work.model \in ModelSpecs
      /\ Verdict(work.obj.spec, work.model) = "Reconciled"
  BY SMTT(60) DEF StartNode, TypeOK, WorkOK, IsPool
<1> QED
  BY <1>1, <1>2, BuiltIsDeclared, SMTT(60)

\* What ApplySlice writes is what it was given, under its own name.
LEMMA ApplySliceWrites ==
  ASSUME TypeOK, ApplySlice
  PROVE  /\ \/ UNCHANGED slices
            \/ \E i \in DOMAIN work.apply :
                 slices' = [slices EXCEPT ![work.apply[i].name] =
                              [slice |-> work.apply[i], owner |-> work.pool, uid |-> work.obj.uid]]
         /\ \/ work'.apply = work.apply /\ work'.pool = work.pool
            \/ work'.pc = "idle"
<1>1. \/ UNCHANGED slices
      \/ slices' = [slices EXCEPT ![work.apply[work.next].name] =
                      [slice |-> work.apply[work.next], owner |-> work.pool, uid |-> work.obj.uid]]
  BY ZenonT(60) DEF ApplySlice
<1>2. \/ Requeue(work.pool)
      \/ work' = [work EXCEPT !.next = @ + 1, !.live = @ \cup {work.apply[work.next].name},
                              !.devices = @ + Len(work.apply[work.next].devices)]
  BY ZenonT(60) DEF ApplySlice
<1>3. work.next \in DOMAIN work.apply
  BY ZenonT(60) DEF ApplySlice
<1>4. Requeue(work.pool) => work'.pc = "idle"
  BY SMTT(60) DEF Requeue, Idle
<1>5. ~Requeue(work.pool) => work'.apply = work.apply /\ work'.pool = work.pool
  BY <1>2, ZenonT(60) DEF TypeOK, WorkOK, Idle
<1> QED
  BY <1>1, <1>3, <1>4, <1>5, SMTT(60)

\* A step of a reconcile that is applying slices afterwards.
LEMMA ApplyingStep ==
  ASSUME TypeOK, Worker, work'.pc = "slices"
  PROVE  ApplySlice \/ \E n \in Nodes : StartNode(n)
<1>1. ASSUME NEW p \in Pools, Begin(p) PROVE FALSE
  BY <1>1, SMTT(60) DEF Begin, Idle
<1>2. ASSUME NEW q, Requeue(q) PROVE FALSE
  BY <1>2, SMTT(60) DEF Requeue, Idle
<1>3. ASSUME NEW status, WriteStatus(status) PROVE FALSE
  BY <1>2, <1>3, SMTT(60) DEF WriteStatus, Idle
<1>4. ASSUME PatchResources PROVE FALSE
  BY <1>2, <1>4, PatchResourcesEffect, ZenonT(60) DEF TypeOK, WorkOK, Idle
<1>5. ASSUME PatchLabels PROVE FALSE
  BY <1>2, <1>5, ZenonT(60) DEF PatchLabels, NodeDone, TypeOK, WorkOK, Idle
<1>6. ASSUME ListStale PROVE FALSE
  BY <1>6 DEF ListStale, TypeOK, WorkOK, Idle
<1>7. ASSUME NEW s \in SliceNames, DeleteStale(s) PROVE FALSE
  BY <1>7, SMTT(60) DEF DeleteStale, TypeOK, WorkOK, Idle
<1> QED
  BY <1>1, <1>3, <1>4, <1>5, <1>6, <1>7, ZenonT(60) DEF Worker, ReportInvalid, Report

\* Writing a declared slice under its own name keeps PublishedIsDeclared.
LEMMA PublishSlice ==
  ASSUME SlicesOK(slices), PublishedIsDeclared, NEW p, NEW w, NEW uid,
         [owner |-> p, slice |-> w] \in Declared,
         slices' = [slices EXCEPT ![w.name] = [slice |-> w, owner |-> p, uid |-> uid]]
  PROVE  PublishedIsDeclared'
BY SMTT(60) DEF SlicesOK, PublishedIsDeclared

\* So does removing one.
LEMMA UnpublishSlice ==
  ASSUME SlicesOK(slices), PublishedIsDeclared, NEW s, slices' = [slices EXCEPT ![s] = None]
  PROVE  PublishedIsDeclared'
BY SMTT(60) DEF SlicesOK, PublishedIsDeclared

\* The worker keeps the publication invariant.
LEMMA WorkerDeclared ==
  ASSUME TypeOK, DesiredIsDeclared, Worker PROVE DesiredIsDeclared'
<1>1. PublishedIsDeclared'
  <2>1. CASE ApplySlice
    <3>1. work.pc = "slices"
      BY <2>1, ZenonT(60) DEF ApplySlice
    <3>2. CASE UNCHANGED slices
      BY <3>2, SMTT(60) DEF DesiredIsDeclared, PublishedIsDeclared
    <3>3. ASSUME NEW i \in DOMAIN work.apply,
                 slices' = [slices EXCEPT ![work.apply[i].name] =
                   [slice |-> work.apply[i], owner |-> work.pool, uid |-> work.obj.uid]]
          PROVE  PublishedIsDeclared'
      <4>1. [owner |-> work.pool, slice |-> work.apply[i]] \in Declared
        BY <3>1, SMTT(60) DEF DesiredIsDeclared
      <4>2. SlicesOK(slices) /\ PublishedIsDeclared
        BY SMTT(60) DEF TypeOK, DesiredIsDeclared
      <4> QED
        BY <3>3, <4>1, <4>2, PublishSlice, ZenonT(60)
    <3> QED
      BY <2>1, <3>2, <3>3, ApplySliceWrites, ZenonT(60)
  <2>2. CASE \E s \in SliceNames : DeleteStale(s)
    BY <2>2, UnpublishSlice, ZenonT(60) DEF DeleteStale, TypeOK, DesiredIsDeclared
  <2> QED
    BY <2>1, <2>2, WorkerSlices, ZenonT(60) DEF DesiredIsDeclared, PublishedIsDeclared
<1>2. ASSUME work'.pc = "slices"
      PROVE  \A i \in DOMAIN work'.apply :
               [owner |-> work'.pool, slice |-> work'.apply[i]] \in Declared
  <2>1. CASE ApplySlice
    <3>1. work.pc = "slices"
      BY <2>1, ZenonT(60) DEF ApplySlice
    <3> QED
      BY <1>2, <2>1, <3>1, ApplySliceWrites, SMTT(60) DEF DesiredIsDeclared
  <2> QED
    BY <1>2, <2>1, ApplyingStep, StartNodeDeclared, ZenonT(60)
<1> QED
  BY <1>1, <1>2, SMTT(60) DEF DesiredIsDeclared

\* Nobody but the worker publishes.
LEMMA OthersDeclared ==
  ASSUME TypeOK, DesiredIsDeclared, APIFailure \/ Cluster \/ Users \/ Sync \/ Restart
  PROVE  DesiredIsDeclared'
<1>1. CASE APIFailure \/ Restart
  <2>1. UNCHANGED slices
    BY <1>1, ZenonT(60) DEF APIFailure, Restart, api
  <2>2. work' = Idle
    BY <1>1, ZenonT(60) DEF APIFailure, Requeue, Restart
  <2>3. work'.pc # "slices"
    BY <2>2, SMTT(60) DEF Idle
  <2>4. PublishedIsDeclared'
    BY <2>1, SMTT(60) DEF DesiredIsDeclared, PublishedIsDeclared
  <2> QED
    BY <2>3, <2>4, SMTT(60) DEF DesiredIsDeclared
<1>2. CASE Sync
  <2>1. UNCHANGED <<slices, work>>
    BY <1>2, ZenonT(60) DEF Sync, SyncPool, SyncNode, SyncModel, SyncSlice, api
  <2> QED
    BY <2>1, SMTT(60) DEF DesiredIsDeclared, PublishedIsDeclared
<1>3. CASE Cluster \/ Users
  <2>1. UNCHANGED work
    BY <1>3, ZenonT(60)
       DEF Cluster, Resync, GarbageCollect, Users, DeletePool, CreatePool, UpdatePool,
       DeleteNode, CreateNode, ChangeNode, SetModel, DropSlice, Change
  <2>2. UNCHANGED slices \/ \E s \in SliceNames : slices' = [slices EXCEPT ![s] = None]
    BY <1>3, ZenonT(60)
       DEF Cluster, Resync, GarbageCollect, Users, DeletePool, CreatePool, UpdatePool,
       DeleteNode, CreateNode, ChangeNode, SetModel, DropSlice, api
  <2>3. PublishedIsDeclared'
    BY <2>2, UnpublishSlice, ZenonT(60) DEF TypeOK, DesiredIsDeclared, PublishedIsDeclared
  <2> QED
    BY <2>1, <2>3, SMTT(60) DEF DesiredIsDeclared
<1> QED
  BY <1>1, <1>2, <1>3, SMTT(60)

\* Every published slice is one the builders make for its owner and its node from
\* a declaration that passed every check of Reconcile, and sits under its own
\* name: whatever changes, fails or is stale while slices are applied.
THEOREM PublicationSound == Spec => []PublishedIsDeclared
<1>1. Init => DesiredIsDeclared
  <2>1. Init => work.pc = "idle"
    BY DEF Init, Idle
  <2>2. Init => \A s \in SliceNames : slices[s] = None
    BY DEF Init
  <2> QED
    BY <2>1, <2>2, ZenonT(60) DEF DesiredIsDeclared, PublishedIsDeclared
<1>2. TypeOK /\ DesiredIsDeclared /\ [Next]_vars => DesiredIsDeclared'
  <2> SUFFICES ASSUME TypeOK, DesiredIsDeclared, [Next]_vars PROVE DesiredIsDeclared'
    OBVIOUS
  <2>1. CASE UNCHANGED vars
    BY <2>1, ZenonT(60) DEF vars, DesiredIsDeclared, PublishedIsDeclared
  <2> QED
    BY <2>1, WorkerDeclared, OthersDeclared DEF Next
<1>3. DesiredIsDeclared => PublishedIsDeclared
  BY DEF DesiredIsDeclared
<1> QED
  BY <1>1, <1>2, <1>3, InitType, NextType, PTL DEF Spec

=============================================================================
