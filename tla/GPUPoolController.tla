-------------------------- MODULE GPUPoolController --------------------------
(***************************************************************************)
(* The GPUPool reconciler (internal/controller/gpupool_controller.go) with *)
(* the parts of the cluster it runs against: the API server's objects, the *)
(* informer caches every read goes to, the work queue, the garbage         *)
(* collector, and users who change pools, models and nodes at any time.    *)
(*                                                                         *)
(* One reconcile is a sequence of steps, each ending in at most one API    *)
(* write; everything else may happen between two of them.  A read from a   *)
(* cache is taken together with the step that follows it: caches lag       *)
(* independently of each other, so the same combinations of versions are   *)
(* seen.                                                                   *)
(***************************************************************************)
EXTENDS Fleet, PoolObject

CONSTANTS
  Pools, Nodes,    \* names, as sequences of dash-separated words
  Models,          \* names of GPUModels
  PoolSpecs,       \* pool specs users may apply
  ModelSpecs,      \* model specs users may apply
  NodeShapes,      \* [Nodes -> sets of [simulated, labels]]: what a node may be
  Start,           \* [pools, models, nodes]: what exists when the manager starts
  Events,          \* kinds of change: "pool" "spec" "node" "model" "slice",
                   \* and "resync", the informers' periodic resync
  MaxChanges,      \* bound on changes made by users
  MaxFailures      \* bound on failed API calls and manager restarts

ASSUME SpecsAssumption == \A s \in PoolSpecs : Wellformed(s) /\ s.model \in Models

\* A layout is a list: it has a length.
ASSUME LayoutsAssumption ==
  \A spec \in PoolSpecs, model \in ModelSpecs :
    (spec.mig /\ Verdict(spec, model) = "Reconciled") =>
      Len(Instances(spec, baseTable(model))) \in Nat

ASSUME StartAssumption ==
  /\ Start.pools \in [Pools -> PoolSpecs \cup {None}]
  /\ Start.models \in [Models -> ModelSpecs \cup {None}]
  /\ \A n \in Nodes : Start.nodes[n] \in NodeShapes[n] \cup {None}

\* The label keys NodeLabels writes; users label nodes with others.
GFDKeys == {"present", "product", "memory", "compute", "count", "migCapable", "migStrategy"}

ASSUME ShapesAssumption ==
  \A n \in Nodes : \A shape \in NodeShapes[n] : DOMAIN shape.labels \cap GFDKeys = {}

VARIABLES
  pools, models, nodes, slices,         \* the API server
  cPools, cModels, cNodes, cSlices,     \* the informer caches
  events,                               \* watch events not yet delivered
  queue,                                \* the work queue: pools to reconcile
  work,                                 \* the reconcile in progress
  uids,                                 \* incarnations of each pool so far
  changes, failures                     \* how much of each bound is used

api    == <<pools, models, nodes, slices>>
caches == <<cPools, cModels, cNodes, cSlices>>
bounds == <<uids, changes, failures>>
vars   == <<pools, models, nodes, slices, cPools, cModels, cNodes, cSlices,
            events, queue, work, uids, changes, failures>>

-----------------------------------------------------------------------------
(* Objects.  A node is [simulated, labels, capacity, allocatable], a slice *)
(* [slice, owner, uid]: its content, the pool its label and controller     *)
(* reference name, and that pool's uid.  Every node has a resource         *)
(* ghostgpu does not manage.                                               *)

CPU == <<"cpu">>

NewNode(shape) == [simulated |-> shape.simulated, labels |-> shape.labels,
                   capacity |-> [r \in {CPU} |-> 1], allocatable |-> [r \in {CPU} |-> 1]]

ValidDeclarations == {d \in PoolSpecs \X ModelSpecs : Verdict(d[1], d[2]) = "Reconciled"}

\* Every slice, with its owner, that a valid declaration asks for.
DeclaredBy(p, n, d) ==
  UNION {{[owner |-> p, slice |-> s] : s \in ToSet(DesiredSlices(p, d[1], d[2], n, state))} :
           state \in NodeStates(d[1])}

Declared == UNION {DeclaredBy(p, n, d) : p \in Pools, n \in Nodes, d \in ValidDeclarations}

SliceNames == {d.slice.name : d \in Declared}

-----------------------------------------------------------------------------
(* The reconcile in progress.                                              *)

Idle == [pc |-> "idle", pool |-> None, obj |-> None, model |-> None, todo |-> << >>,
         node |-> None, apply |-> << >>, next |-> 1, live |-> {}, del |-> {},
         matched |-> 0, devices |-> 0, occupied |-> 0, faulted |-> 0]

NoEvents == [pools |-> {}, nodes |-> {}, slices |-> {}]

\* The manager has just started: caches are filled and nothing is published yet.
Init ==
  /\ pools   = [p \in Pools |-> IF Start.pools[p] = None THEN None
                                ELSE NewPool(1, Start.pools[p])]
  /\ models  = Start.models
  /\ nodes   = [n \in Nodes |-> IF Start.nodes[n] = None THEN None
                                ELSE NewNode(Start.nodes[n])]
  /\ slices  = [s \in SliceNames |-> None]
  /\ cPools = pools /\ cModels = models /\ cNodes = nodes /\ cSlices = slices
  /\ events  = NoEvents
  /\ queue   = {p \in Pools : pools[p] # None}
  /\ work    = Idle
  /\ uids    = [p \in Pools |-> 1]
  /\ changes = 0
  /\ failures = 0

\* Faulty variant: the error is swallowed instead of returned.
Swallow(p) == work' = Idle /\ UNCHANGED queue

Requeue(p) == work' = Idle /\ queue' = queue \cup {p}

\* client.MatchingLabels: unlike selectorMatches, the key must be present.
Listed(selector, labels) ==
  \A key \in DOMAIN selector : key \in DOMAIN labels /\ labels[key] = selector[key]

\* Faulty variant: no IsSimulatedNode check.
MatchedAny(spec) ==
  {n \in Nodes : cNodes[n] # None /\ Listed(spec.selector, cNodes[n].labels)}

\* The nodes the loop works on: those the List returns that are simulated.
Matched(spec) ==
  {n \in Nodes : /\ cNodes[n] # None
                 /\ Listed(spec.selector, cNodes[n].labels)
                 /\ cNodes[n].simulated}

\* Faulty variant: only the model is looked at.
ModelFound(spec, model) == model # None

\* No check of Reconcile returns early.
Admitted(spec, model) == Verdict(spec, model) = "Reconciled"

\* The head of Reconcile: the pool, its model, the checks and the node list.
Begin(p) ==
  /\ work.pc = "idle"
  /\ p \in queue
  /\ queue' = queue \ {p}
  /\ LET obj   == cPools[p]
         model == cModels[obj.spec.model]
         base  == [Idle EXCEPT !.pool = p, !.obj = obj, !.model = model]
     IN  work' = IF obj = None THEN Idle
                 ELSE IF ~Admitted(obj.spec, model)
                 THEN [base EXCEPT !.pc = "report"]
                 ELSE [base EXCEPT !.pc = "loop",
                                   !.todo = [n \in Matched(obj.spec) |-> cNodes[n]]]
  /\ UNCHANGED <<api, caches, bounds>>

\* Faulty variant: a status patch without the resource version.
WriteStatusUnlocked(status) ==
  IF pools[work.pool] # None
  THEN /\ pools' = [pools EXCEPT ![work.pool].status = status]
       /\ work' = Idle
       /\ UNCHANGED queue
  ELSE Requeue(work.pool) /\ UNCHANGED pools

\* Status().Update carries the resource version the cached pool had, so it
\* fails when the pool is gone or has changed since.
WriteStatus(status) ==
  IF pools[work.pool] = work.obj
  THEN /\ pools' = [pools EXCEPT ![work.pool].status = status]
       /\ work' = Idle
       /\ UNCHANGED queue
  ELSE Requeue(work.pool) /\ UNCHANGED pools

setReady(status, ready, reason) ==
  [status EXCEPT !.ready = ready, !.reason = reason, !.condGen = work.obj.gen]

ReportInvalid ==
  /\ work.pc = "report"
  /\ WriteStatus(setReady(work.obj.status, FALSE, Verdict(work.obj.spec, work.model)))
  /\ UNCHANGED <<models, nodes, slices, caches, bounds>>

StartNode(n) ==
  /\ work.pc = "loop"
  /\ n \in DOMAIN work.todo
  /\ LET state == StateFor(work.obj.spec, work.todo[n].labels)
     IN  work' = [work EXCEPT !.pc = "slices", !.node = n, !.next = 1,
                              !.apply = DesiredSlices(work.pool, work.obj.spec, work.model, n, state),
                              !.matched = @ + 1,
                              !.occupied = @ + state.busy,
                              !.faulted = @ + state.faulted]
  /\ UNCHANGED <<api, caches, queue, bounds>>

\* CreateOrUpdate writes nothing when the mutated copy equals the cached one.
Same(cached, owned) == cached = owned

\* CreateOrUpdate of one slice.  An update is refused by SetControllerReference
\* when another pool controls the slice, by the API server when the cached copy
\* is out of date or when it would move the slice to another node.
ApplySlice ==
  /\ work.pc = "slices"
  /\ work.next \in DOMAIN work.apply
  /\ LET desired == work.apply[work.next]
         name    == desired.name
         owned   == [slice |-> desired, owner |-> work.pool, uid |-> work.obj.uid]
         cached  == cSlices[name]
         create  == cached = None /\ slices[name] = None
         same    == Same(cached, owned)
         update  == /\ cached # None /\ ~same
                    /\ cached.owner = work.pool
                    /\ cached.slice.node = desired.node
                    /\ slices[name] = cached
     IN  IF create \/ same \/ update
         THEN /\ slices' = IF same THEN slices ELSE [slices EXCEPT ![name] = owned]
              /\ work' = [work EXCEPT !.next = @ + 1, !.live = @ \cup {name},
                                      !.devices = @ + Len(desired.devices)]
              /\ UNCHANGED queue
         ELSE Requeue(work.pool) /\ UNCHANGED slices
  /\ UNCHANGED <<pools, models, nodes, caches, bounds>>

\* A JSON merge patch: the server applies to its object the difference between
\* the copy the client read and the copy it wants.
MergePatch(have, from, to) ==
  LET touched(k) == \/ (k \in DOMAIN from) # (k \in DOMAIN to)
                    \/ k \in DOMAIN from /\ k \in DOMAIN to /\ from[k] # to[k]
      keys == {k \in DOMAIN have \cup DOMAIN to :
                 IF touched(k) THEN k \in DOMAIN to ELSE k \in DOMAIN have}
  IN  [k \in keys |-> IF touched(k) THEN to[k] ELSE have[k]]

resourcesMatch(have, want) ==
  /\ \A r \in DOMAIN want : r \in DOMAIN have /\ have[r] = want[r]
  /\ \A r \in DOMAIN have : managesResource(r) => r \in DOMAIN want

Overlay(base, top) ==
  [k \in DOMAIN base \cup DOMAIN top |-> IF k \in DOMAIN top THEN top[k] ELSE base[k]]

\* Faulty variant: the resource list is replaced.
ReplaceResources(list, want) == want

applyGPUResources(list, want) ==
  Overlay([r \in {q \in DOMAIN list : ~managesResource(q)} |-> list[r]], want)

labelsMatch(have, desired) ==
  \A k \in DOMAIN desired : k \in DOMAIN have /\ have[k] = desired[k]

\* First half of reconcileNode.  The patch carries no resource version; the
\* node the second half compares labels with is the server's answer.
PatchResources ==
  /\ work.pc = "slices"
  /\ work.next \notin DOMAIN work.apply
  /\ LET node        == work.todo[work.node]
         table       == baseTable(work.model)
         capacity    == NodeResources(work.obj.spec, table)
         allocatable == NodeAllocatable(work.obj.spec, table,
                                        StateFor(work.obj.spec, node.labels))
         have        == nodes[work.node]
         answer      == [have EXCEPT
           !.capacity    = MergePatch(@, node.capacity, applyGPUResources(node.capacity, capacity)),
           !.allocatable = MergePatch(@, node.allocatable,
                                      applyGPUResources(node.allocatable, allocatable))]
         skip        == \/ ~work.obj.spec.ext
                        \/ /\ resourcesMatch(node.capacity, capacity)
                           /\ resourcesMatch(node.allocatable, allocatable)
     IN  IF skip
         THEN work' = [work EXCEPT !.pc = "labels"] /\ UNCHANGED <<nodes, queue>>
         ELSE IF have = None
         THEN Requeue(work.pool) /\ UNCHANGED nodes
         ELSE /\ nodes' = [nodes EXCEPT ![work.node] = answer]
              /\ work' = [work EXCEPT !.pc = "labels", !.todo[work.node] = answer]
              /\ UNCHANGED queue
  /\ UNCHANGED <<pools, models, slices, caches, bounds>>

NodeDone ==
  [work EXCEPT !.pc = "loop", !.node = None, !.apply = << >>, !.next = 1,
               !.todo = [n \in DOMAIN work.todo \ {work.node} |-> work.todo[n]]]

\* Second half of reconcileNode, and the end of this node's turn of the loop.
PatchLabels ==
  /\ work.pc = "labels"
  /\ LET node    == work.todo[work.node]
         desired == NodeLabels(work.obj.spec, work.model)
     IN  IF labelsMatch(node.labels, desired)
         THEN work' = NodeDone /\ UNCHANGED <<nodes, queue>>
         ELSE IF nodes[work.node] = None
         THEN Requeue(work.pool) /\ UNCHANGED nodes
         ELSE /\ nodes' = [nodes EXCEPT ![work.node].labels =
                             MergePatch(@, node.labels, Overlay(node.labels, desired))]
              /\ work' = NodeDone
              /\ UNCHANGED queue
  /\ UNCHANGED <<pools, models, slices, caches, bounds>>

\* Faulty variant: slices are listed without the pool's label.
Unlabelled == {s \in SliceNames : cSlices[s] # None} \ work.live

Stale == {s \in SliceNames : cSlices[s] # None /\ cSlices[s].owner = work.pool} \ work.live

\* pruneSlices lists the cached slices that carry the pool's label.
ListStale ==
  /\ work.pc = "loop"
  /\ DOMAIN work.todo = {}
  /\ work' = [work EXCEPT !.pc = "prune", !.del = Stale]
  /\ UNCHANGED <<api, caches, queue, bounds>>

\* A delete by name, with no precondition; a missing slice is not an error.
DeleteStale(s) ==
  /\ work.pc = "prune"
  /\ s \in work.del
  /\ slices' = [slices EXCEPT ![s] = None]
  /\ work' = [work EXCEPT !.del = @ \ {s}]
  /\ UNCHANGED <<pools, models, nodes, caches, queue, bounds>>

\* What the loop added up.
Counts ==
  [work.obj.status EXCEPT
     !.obs      = work.obj.gen,
     !.matched  = work.matched,
     !.devices  = work.devices,
     !.occupied = work.occupied,
     !.faulted  = work.faulted,
     !.profiles = IF work.obj.spec.mig THEN Len(baseTable(work.model).profiles) ELSE 0]

\* The tail of Reconcile.
Report ==
  /\ work.pc = "prune"
  /\ work.del = {}
  /\ WriteStatus(setReady(Counts, TRUE, "Reconciled"))
  /\ UNCHANGED <<models, nodes, slices, caches, bounds>>

\* An API call fails; a write that took effect although its caller saw an
\* error is the write followed by a failure at the next step.
APIFailure ==
  /\ work.pc \in {"report", "slices", "labels", "prune"}
  /\ failures < MaxFailures
  /\ failures' = failures + 1
  /\ Requeue(work.pool)
  /\ UNCHANGED <<api, caches, uids, changes>>

\* The manager dies and comes back: it lists everything before it works.
Restart ==
  /\ failures < MaxFailures
  /\ failures' = failures + 1
  /\ cPools' = pools /\ cModels' = models /\ cNodes' = nodes /\ cSlices' = slices
  /\ events' = NoEvents
  /\ queue' = {p \in Pools : pools[p] # None}
  /\ work' = Idle
  /\ UNCHANGED <<api, uids, changes>>

Worker ==
  \/ \E p \in Pools : Begin(p)
  \/ ReportInvalid
  \/ \E n \in Nodes : StartNode(n)
  \/ ApplySlice
  \/ PatchResources
  \/ PatchLabels
  \/ ListStale
  \/ \E s \in SliceNames : DeleteStale(s)
  \/ Report

-----------------------------------------------------------------------------
(* Watch events, as SetupWithManager wires them.  Every write is an event, *)
(* kept per object until its informer delivers it; events of one object    *)
(* that pile up are delivered together.  A slice's event is for the pool   *)
(* that controls it, before or after.                                      *)

Notify ==
  events' =
    [pools  |-> events.pools \cup {p \in Pools : pools'[p] # pools[p]},
     nodes  |-> events.nodes \cup {n \in Nodes : nodes'[n] # nodes[n]},
     slices |-> events.slices \cup
                  {sp \in SliceNames \X Pools :
                     LET s == sp[1]
                     IN  /\ slices'[s] # slices[s]
                         /\ \E o \in {slices[s], slices'[s]} \ {None} : o.owner = sp[2]}]

SyncPool(p) ==
  /\ p \in events.pools
  /\ events' = [events EXCEPT !.pools = @ \ {p}]
  /\ cPools' = [cPools EXCEPT ![p] = pools[p]]
  /\ queue' = queue \cup {p}
  /\ UNCHANGED <<api, cModels, cNodes, cSlices, work, bounds>>

\* Faulty variant: only pools that already counted nodes are woken.
poolsWithNodes == {p \in Pools : cPools[p] # None /\ cPools[p].status.matched > 0}

poolsForNode == {p \in Pools : cPools[p] # None}

SyncNode(n) ==
  /\ n \in events.nodes
  /\ events' = [events EXCEPT !.nodes = @ \ {n}]
  /\ cNodes' = [cNodes EXCEPT ![n] = nodes[n]]
  /\ queue' = queue \cup poolsForNode
  /\ UNCHANGED <<api, cPools, cModels, cSlices, work, bounds>>

\* Owns(ResourceSlice).
SyncSlice(s) ==
  LET owners == {p \in Pools : <<s, p>> \in events.slices}
  IN  /\ owners # {}
      /\ events' = [events EXCEPT !.slices = @ \ ({s} \X Pools)]
      /\ cSlices' = [cSlices EXCEPT ![s] = slices[s]]
      /\ queue' = queue \cup owners
      /\ UNCHANGED <<api, cPools, cModels, cNodes, work, bounds>>

\* GPUModels are read through a cache but no event of theirs is watched.
SyncModel(m) ==
  /\ cModels[m] # models[m]
  /\ cModels' = [cModels EXCEPT ![m] = models[m]]
  /\ UNCHANGED <<api, cPools, cNodes, cSlices, events, queue, work, bounds>>

Sync ==
  \/ \E p \in Pools : SyncPool(p)
  \/ \E n \in Nodes : SyncNode(n)
  \/ \E m \in Models : SyncModel(m)
  \/ \E s \in SliceNames : SyncSlice(s)

Resync(p) ==
  /\ "resync" \in Events
  /\ cPools[p] # None
  /\ queue' = queue \cup {p}
  /\ UNCHANGED <<api, caches, work, bounds>>

\* The uid in the controller reference is not that of a living pool.
Orphaned(o) == pools[o.owner] # None => pools[o.owner].uid # o.uid

GarbageCollect(s) ==
  /\ slices[s] # None
  /\ Orphaned(slices[s])
  /\ slices' = [slices EXCEPT ![s] = None]
  /\ UNCHANGED <<pools, models, nodes, caches, queue, work, bounds>>

-----------------------------------------------------------------------------
(* Users.                                                                  *)

Change(kind) ==
  /\ kind \in Events
  /\ changes < MaxChanges
  /\ changes' = changes + 1
  /\ UNCHANGED <<caches, queue, work, failures>>

CreatePool(p, spec) ==
  /\ Change("pool")
  /\ pools[p] = None
  /\ uids' = [uids EXCEPT ![p] = @ + 1]
  /\ pools' = [pools EXCEPT ![p] = NewPool(uids'[p], spec)]
  /\ UNCHANGED <<models, nodes, slices>>

UpdatePool(p, spec) ==
  /\ Change("spec")
  /\ pools[p] # None
  /\ pools[p].spec # spec
  /\ pools' = [pools EXCEPT ![p].spec = spec, ![p].gen = @ + 1]
  /\ UNCHANGED <<models, nodes, slices, uids>>

DeletePool(p) ==
  /\ Change("pool")
  /\ pools[p] # None
  /\ pools' = [pools EXCEPT ![p] = None]
  /\ UNCHANGED <<models, nodes, slices, uids>>

CreateNode(n, shape) ==
  /\ Change("node")
  /\ nodes[n] = None
  /\ nodes' = [nodes EXCEPT ![n] = NewNode(shape)]
  /\ UNCHANGED <<pools, models, slices, uids>>

\* Labels and annotation change in place; what ghostgpu wrote stays.
ChangeNode(n, shape) ==
  /\ Change("node")
  /\ nodes[n] # None
  /\ LET kept == [k \in DOMAIN nodes[n].labels \cap GFDKeys |-> nodes[n].labels[k]]
     IN  nodes' = [nodes EXCEPT ![n].simulated = shape.simulated,
                                ![n].labels = Overlay(kept, shape.labels)]
  /\ nodes' # nodes
  /\ UNCHANGED <<pools, models, slices, uids>>

DeleteNode(n) ==
  /\ Change("node")
  /\ nodes[n] # None
  /\ nodes' = [nodes EXCEPT ![n] = None]
  /\ UNCHANGED <<pools, models, slices, uids>>

SetModel(m, spec) ==
  /\ Change("model")
  /\ models[m] # spec
  /\ models' = [models EXCEPT ![m] = spec]
  /\ UNCHANGED <<pools, nodes, slices, uids>>

\* Someone deletes a slice by hand.
DropSlice(s) ==
  /\ Change("slice")
  /\ slices[s] # None
  /\ slices' = [slices EXCEPT ![s] = None]
  /\ UNCHANGED <<pools, models, nodes, uids>>

Users ==
  \/ \E p \in Pools : DeletePool(p)
  \/ \E p \in Pools, spec \in PoolSpecs : CreatePool(p, spec) \/ UpdatePool(p, spec)
  \/ \E n \in Nodes : DeleteNode(n)
  \/ \E n \in Nodes : \E shape \in NodeShapes[n] : CreateNode(n, shape) \/ ChangeNode(n, shape)
  \/ \E m \in Models, spec \in ModelSpecs \cup {None} : SetModel(m, spec)
  \/ \E s \in SliceNames : DropSlice(s)

Cluster ==
  \/ \E p \in Pools : Resync(p)
  \/ \E s \in SliceNames : GarbageCollect(s)

Next ==
  \/ (Worker \/ APIFailure \/ Cluster \/ Users) /\ Notify
  \/ Sync
  \/ Restart

Spec == Init /\ [][Next]_vars

\* Weak fairness of the steps that follow Begin, with the condition that enables
\* them written out: some step is possible whenever a reconcile is in progress.
WorkerRuns == []<>(work.pc = "idle") \/ []<><<Worker>>_vars

\* The queue is first-in first-out, so a queued pool gets its turn however often
\* others are queued again; each of the four informers delivers its events in
\* order; the garbage collector runs.  Users and Resync owe nothing.
Fairness ==
  /\ WorkerRuns
  /\ \A p \in Pools : SF_vars(Begin(p) /\ Notify)
  /\ \A p \in Pools : WF_vars(SyncPool(p))
  /\ \A n \in Nodes : WF_vars(SyncNode(n))
  /\ \A m \in Models : WF_vars(SyncModel(m))
  /\ WF_vars(\E s \in SliceNames : SyncSlice(s))
  /\ WF_vars((\E s \in SliceNames : GarbageCollect(s)) /\ Notify)

FairSpec == Spec /\ Fairness

\* The informers' resync, ten hours apart by default, does come.  It is counted on
\* only where a model has changed, so that every other change has to get through
\* by its watch.
ResyncSpec ==
  /\ FairSpec
  /\ [](models = Start.models) \/ \A p \in Pools : WF_vars(Resync(p) /\ Notify)

-----------------------------------------------------------------------------
(* Properties.                                                             *)

IsPool(o) ==
  /\ DOMAIN o = {"uid", "gen", "spec", "status"}
  /\ o.uid \in Nat /\ o.gen \in Nat /\ o.spec \in PoolSpecs
  /\ DOMAIN o.status = DOMAIN NewStatus

IsNode(n, o) ==
  /\ DOMAIN o = {"simulated", "labels", "capacity", "allocatable"}
  /\ \E shape \in NodeShapes[n] : o.simulated = shape.simulated

PoolsOK(f)  == DOMAIN f = Pools /\ \A p \in Pools : f[p] # None => IsPool(f[p])
NodesOK(f)  == DOMAIN f = Nodes /\ \A n \in Nodes : f[n] # None => IsNode(n, f[n])
ModelsOK(f) == f \in [Models -> ModelSpecs \cup {None}]
SlicesOK(f) == DOMAIN f = SliceNames /\ \A s \in SliceNames : f[s] # None => f[s].owner \in Pools

WorkOK ==
  /\ DOMAIN work = DOMAIN Idle
  /\ work.pc \in {"idle", "report", "loop", "slices", "labels", "prune"}
  /\ work.pc # "idle" => work.pool \in Pools /\ work.obj # None /\ IsPool(work.obj)
  /\ work.pc \in {"loop", "slices", "labels", "prune"} =>
       /\ work.model \in ModelSpecs
       /\ Verdict(work.obj.spec, work.model) = "Reconciled"
  /\ DOMAIN work.todo \subseteq Nodes
  /\ \A n \in DOMAIN work.todo : IsNode(n, work.todo[n])
  /\ work.pc \in {"slices", "labels"} => work.node \in DOMAIN work.todo
  /\ work.del \subseteq SliceNames

\* Objects and cached copies have their shape, and the reconcile in progress
\* works from a pool that exists in its snapshot, on a declaration that passed
\* every check, and on nodes of that snapshot.
TypeOK ==
  /\ PoolsOK(pools) /\ ModelsOK(models) /\ NodesOK(nodes) /\ SlicesOK(slices)
  /\ PoolsOK(cPools) /\ ModelsOK(cModels) /\ NodesOK(cNodes) /\ SlicesOK(cSlices)
  /\ queue \subseteq Pools
  /\ uids \in [Pools -> Nat]
  /\ WorkOK

\* A reconcile of one pool never overwrites and never deletes a slice another
\* pool controls, although names collide ("a" on "b-c", "a-b" on "c"), reads are
\* stale and pruneSlices deletes by name with no precondition.
ForeignSlicesUntouched ==
  [][Worker => \A s \in SliceNames :
                 slices'[s] = slices[s] \/ slices[s] = None \/ slices[s].owner = work.pool]_vars

\* Whatever is published was asked for: every slice is one that the builders
\* make for its owner and its node from a declaration that passed every check of
\* Reconcile, and it sits under its own name.
PublishedIsDeclared ==
  \A s \in SliceNames : slices[s] # None =>
    /\ slices[s].slice.name = s
    /\ [owner |-> slices[s].owner, slice |-> slices[s].slice] \in Declared

Managed(list) == {r \in DOMAIN list : managesResource(r)}

NeverSimulated(n) == \A shape \in NodeShapes[n] : ~shape.simulated

\* ghostgpu writes only to simulated nodes: a node that never has the kwok
\* annotation has no managed resource and no GFD label, whatever selects it.
SimulatedOnly ==
  \A n \in Nodes : (NeverSimulated(n) /\ nodes[n] # None) =>
    /\ Managed(nodes[n].capacity) = {} /\ Managed(nodes[n].allocatable) = {}
    /\ DOMAIN nodes[n].labels \cap GFDKeys = {}

\* Nor is such a node ever offered to the scheduler by a slice.
SlicesOnSimulated ==
  \A s \in SliceNames : slices[s] # None => ~NeverSimulated(slices[s].slice.node)

\* old and new differ at most in managed resources and GFD labels.
ScopedWrite(old, new) ==
  /\ \A field \in {"capacity", "allocatable"} :
       /\ DOMAIN new[field] \ Managed(new[field]) = DOMAIN old[field] \ Managed(old[field])
       /\ \A r \in DOMAIN old[field] \ Managed(old[field]) : new[field][r] = old[field][r]
  /\ DOMAIN new.labels \ GFDKeys = DOMAIN old.labels \ GFDKeys
  /\ \A k \in DOMAIN old.labels \ GFDKeys : new.labels[k] = old.labels[k]
  /\ new.simulated = old.simulated

\* On the nodes it does write to, a reconcile touches its own resources and its
\* own labels only, even when it patches a node that has changed, or has been
\* replaced, since it was read; and it never brings a deleted node back.
NodeWritesAreScoped ==
  [][Worker => \A n \in Nodes : nodes'[n] # nodes[n] =>
                 nodes[n] # None /\ ScopedWrite(nodes[n], nodes'[n])]_vars

\* A status whose observedGeneration is current describes the current spec: it
\* counts what this spec, with some model that passes the checks, publishes on
\* each matched node, although other specs, restarts, a deletion and a
\* re-creation of the pool may have come between.
StatusFaithful ==
  \A p \in Pools : (pools[p] # None /\ pools[p].status.obs = pools[p].gen) =>
    \E model \in ModelSpecs :
      LET spec == pools[p].spec
          st   == pools[p].status
      IN  /\ Verdict(spec, model) = "Reconciled"
          /\ st.devices = st.matched * DevicesPerNode(spec, model)
          /\ st.occupied <= st.matched * spec.gpus
          /\ st.faulted <= st.matched * spec.gpus

\* The nodes pool p ought to be published on.
Targets(p) ==
  {n \in Nodes : /\ nodes[n] # None
                 /\ Listed(pools[p].spec.selector, nodes[n].labels)
                 /\ nodes[n].simulated}

StateOf(p, n) == StateFor(pools[p].spec, nodes[n].labels)

\* Slices, nodes and status are what the pool's current spec and model ask for.
Settled(p) ==
  LET spec  == pools[p].spec
      model == models[spec.model]
      table == baseTable(model)
      want  == UNION {ToSet(DesiredSlices(p, spec, model, n, StateOf(p, n))) : n \in Targets(p)}
      st    == pools[p].status
  IN  IF pools[p] = None THEN \A s \in SliceNames : slices[s] = None \/ slices[s].owner # p
      ELSE IF Verdict(spec, model) # "Reconciled"
      THEN ~st.ready /\ st.reason = Verdict(spec, model) /\ st.condGen = pools[p].gen
      ELSE /\ {s \in SliceNames : slices[s] # None /\ slices[s].owner = p} = {w.name : w \in want}
           /\ \A w \in want : slices[w.name] = [slice |-> w, owner |-> p, uid |-> pools[p].uid]
           /\ \A n \in Targets(p) :
                /\ spec.ext =>
                     /\ resourcesMatch(nodes[n].capacity, NodeResources(spec, table))
                     /\ resourcesMatch(nodes[n].allocatable,
                                       NodeAllocatable(spec, table, StateOf(p, n)))
                /\ labelsMatch(nodes[n].labels, NodeLabels(spec, model))
           /\ st.ready /\ st.obs = pools[p].gen /\ st.condGen = pools[p].gen
           /\ st.matched = Cardinality(Targets(p))
           /\ st.devices = MapThenSumSet(LAMBDA w : Len(w.devices), want)
           /\ st.occupied = MapThenSumSet(LAMBDA n : StateOf(p, n).busy, Targets(p))
           /\ st.faulted = MapThenSumSet(LAMBDA n : StateOf(p, n).faulted, Targets(p))

\* Once users stop changing things, every pool settles and stays settled, from
\* whatever mixture of stale caches, half-applied reconciles, failures and
\* restarts the changes left behind.
Convergence == <>[](\A p \in Pools : Settled(p))

-----------------------------------------------------------------------------
(* What a comment says, and the code does not quite keep.                  *)

\* managesResource: a resource ghostgpu advertised goes away again once no pool
\* advertises it on the node.
ResourcesRetracted ==
  <>[](\A n \in Nodes :
         (nodes[n] # None /\ \A p \in Pools : pools[p] # None => n \notin Targets(p)) =>
           Managed(nodes[n].capacity) = {})

=============================================================================
