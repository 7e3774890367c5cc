------------------------ MODULE PoolRefinementProofs ------------------------
(***************************************************************************)
(* The reconciler implements PoolContract, for any pools, nodes, models    *)
(* and bounds.  What has to be shown is that the counts a reconcile adds   *)
(* up, one slice and one node at a time, are those of whole nodes when it  *)
(* comes to report them.                                                   *)
(***************************************************************************)
EXTENDS PoolRefinement, GPUPoolControllerProofs, FleetProofs

\* A declaration that passed the checks can be built.
LEMMA DeclaredBuildable ==
  ASSUME NEW spec \in PoolSpecs, NEW model \in ModelSpecs, Verdict(spec, model) = "Reconciled"
  PROVE  Buildable(spec, model) /\ spec.gpus \in Nat
BY SpecsAssumption, LayoutsAssumption, SMTT(60) DEF Wellformed, Buildable, MIGCount

-----------------------------------------------------------------------------
(* The counts.                                                             *)

\* The inductive invariant behind the refinement.
Counted ==
  /\ work.pc = "report" => /\ work.model \in ModelSpecs \cup {None}
                           /\ Verdict(work.obj.spec, work.model) # "Reconciled"
  /\ work.pc \in {"loop", "slices", "labels", "prune"} =>
       CardsBounded(work.matched, work.occupied, work.faulted, work.obj.spec.gpus)
  /\ work.pc \in {"loop", "labels", "prune"} =>
       work.devices = work.matched * DevicesPerNode(work.obj.spec, work.model)
  /\ work.pc = "slices" =>
       Applying(work.obj.spec, work.model, work.apply, work.next, work.matched, work.devices)

\* What is known of a reconcile that passed the checks.
LEMMA PastChecks ==
  ASSUME TypeOK, work.pc \in {"loop", "slices", "labels", "prune"}
  PROVE  /\ work.obj.spec \in PoolSpecs /\ work.model \in ModelSpecs
         /\ Verdict(work.obj.spec, work.model) = "Reconciled"
         /\ Buildable(work.obj.spec, work.model)
         /\ work.obj.spec.gpus \in Nat
<1>1. /\ work.obj.spec \in PoolSpecs /\ work.model \in ModelSpecs
      /\ Verdict(work.obj.spec, work.model) = "Reconciled"
  BY DEF TypeOK, WorkOK, IsPool
<1> QED
  BY <1>1, DeclaredBuildable, SMTT(60)

\* Nothing is counted between reconciles.
LEMMA IdleCounted == ASSUME work' = Idle PROVE Counted'
<1>1. work'.pc = "idle"
  BY DEF Idle
<1> QED
  BY <1>1 DEF Counted

\* A reconcile starts with no node.
LEMMA BeginCounted ==
  ASSUME TypeOK, NEW p \in Pools, Begin(p) PROVE Counted'
<1> DEFINE obj   == cPools[p]
           model == cModels[obj.spec.model]
           base  == [Idle EXCEPT !.pool = p, !.obj = obj, !.model = model]
           todo  == [n \in Matched(obj.spec) |-> cNodes[n]]
<1>1. CASE obj = None
  BY <1>1, IdleCounted, SMTT(60) DEF Begin
<1>2. obj # None => obj.spec \in PoolSpecs /\ model \in ModelSpecs \cup {None}
  <2>1. obj # None => obj.spec \in PoolSpecs /\ obj.spec.model \in Models
    BY SpecsAssumption, SMTT(60) DEF TypeOK, PoolsOK, IsPool
  <2> QED
    BY <2>1, SMTT(60) DEF TypeOK, ModelsOK
<1>3. CASE obj # None /\ Verdict(obj.spec, model) # "Reconciled"
  <2>1. work' = [base EXCEPT !.pc = "report"]
    BY <1>3, SMTT(60) DEF Begin, Admitted
  <2> HIDE DEF obj, model
  <2>2. work'.pc = "report" /\ work'.obj = obj /\ work'.model = model
    BY <2>1, SMTT(60) DEF Idle
  <2> QED
    BY <1>2, <1>3, <2>2, SMTT(60) DEF Counted
<1>4. CASE obj # None /\ Verdict(obj.spec, model) = "Reconciled"
  <2>1. work' = [base EXCEPT !.pc = "loop", !.todo = todo]
    BY <1>4, SMTT(60) DEF Begin, Admitted
  <2>2. model \in ModelSpecs
    BY <1>2, <1>4, VerdictModel, SMTT(60)
  <2>3. Buildable(obj.spec, model) /\ obj.spec.gpus \in Nat
    BY <1>2, <1>4, <2>2, DeclaredBuildable, SMTT(60)
  <2> HIDE DEF obj, model, todo
  <2>4. /\ work'.pc = "loop" /\ work'.obj = obj /\ work'.model = model
        /\ work'.matched = 0 /\ work'.occupied = 0 /\ work'.faulted = 0 /\ work'.devices = 0
    BY <2>1, SMTT(60) DEF Idle
  <2>5. CardsBounded(0, 0, 0, obj.spec.gpus)
    BY <2>3, SMTT(60) DEF CardsBounded
  <2>6. 0 = 0 * DevicesPerNode(obj.spec, model)
    <3>1. DevicesPerNode(obj.spec, model) \in Nat
      BY <2>3, CarriedEnds, SMTT(60)
    <3> QED
      BY <3>1, SMTT(60)
  <2> QED
    BY <2>4, <2>5, <2>6, SMTT(60) DEF Counted
<1> QED
  BY <1>1, <1>3, <1>4, SMTT(60)

\* A node's turn adds the node and its busy and failed cards.
LEMMA StartNodeCounted ==
  ASSUME TypeOK, Counted, NEW n \in Nodes, StartNode(n) PROVE Counted'
<1> DEFINE spec  == work.obj.spec
           state == StateFor(spec, work.todo[n].labels)
           want  == DesiredSlices(work.pool, spec, work.model, n, state)
<1>1. /\ work'.pc = "slices" /\ work'.obj = work.obj /\ work'.model = work.model
      /\ work'.apply = want /\ work'.next = 1 /\ work'.devices = work.devices
      /\ work'.matched = work.matched + 1
      /\ work'.occupied = work.occupied + state.busy
      /\ work'.faulted = work.faulted + state.faulted
  <2>1. work' = [work EXCEPT !.pc = "slices", !.node = n, !.next = 1, !.apply = want,
                             !.matched = @ + 1, !.occupied = @ + state.busy,
                             !.faulted = @ + state.faulted]
    BY DEF StartNode
  <2> HIDE DEF want, state
  <2> QED
    BY <2>1, SMTT(60) DEF TypeOK, WorkOK, Idle
<1>2. work.pc = "loop"
  BY DEF StartNode
<1>3. /\ spec \in PoolSpecs /\ Verdict(spec, work.model) = "Reconciled"
      /\ Buildable(spec, work.model) /\ spec.gpus \in Nat
  BY <1>2, PastChecks, SMTT(60)
<1>4. state.busy \in 0..spec.gpus /\ state.faulted \in 0..spec.gpus
  BY <1>3, SpecsAssumption, VerdictChecks, StateBounded, SMTT(60)
<1>5. /\ CardsBounded(work.matched, work.occupied, work.faulted, spec.gpus)
      /\ work.devices = work.matched * DevicesPerNode(spec, work.model)
  BY <1>2, SMTT(60) DEF Counted
<1> HIDE DEF state, spec
<1>6. CardsBounded(work.matched + 1, work.occupied + state.busy, work.faulted + state.faulted,
                   spec.gpus)
  BY <1>3, <1>4, <1>5, OneMoreNode, SMTT(60)
<1>7. Applying(spec, work.model, want, 1, work.matched + 1, work.devices)
  BY <1>3, <1>5, ApplyingStarts, SMTT(60) DEF CardsBounded
<1> HIDE DEF want
<1> QED
  BY <1>1, <1>6, <1>7, SMTT(60) DEF Counted, spec

\* Going back to the queue forgets the counts.
LEMMA RequeueCounted == ASSUME NEW p, Requeue(p) PROVE Counted'
BY IdleCounted, SMTT(60) DEF Requeue

\* A slice adds its devices.
LEMMA ApplySliceCounted ==
  ASSUME TypeOK, Counted, ApplySlice PROVE Counted'
<1> DEFINE len == Len(work.apply[work.next].devices)
<1>1. \/ Requeue(work.pool)
      \/ work' = [work EXCEPT !.next = @ + 1, !.live = @ \cup {work.apply[work.next].name},
                              !.devices = @ + len]
  BY ZenonT(60) DEF ApplySlice
<1>2. work.pc = "slices" /\ work.next \in DOMAIN work.apply
  BY ZenonT(60) DEF ApplySlice
<1>3. Buildable(work.obj.spec, work.model)
  BY <1>2, PastChecks, SMTT(60)
<1>4. /\ CardsBounded(work.matched, work.occupied, work.faulted, work.obj.spec.gpus)
      /\ Applying(work.obj.spec, work.model, work.apply, work.next, work.matched, work.devices)
  BY <1>2, SMTT(60) DEF Counted
<1>5. work.matched \in Nat
  BY <1>4, SMTT(60) DEF CardsBounded
<1>6. Applying(work.obj.spec, work.model, work.apply, work.next + 1, work.matched,
               work.devices + len)
  BY <1>2, <1>3, <1>4, <1>5, ApplyingGoesOn, SMTT(60)
<1> HIDE DEF len
<1>7. CASE Requeue(work.pool)
  BY <1>7, RequeueCounted, SMTT(60)
<1>8. CASE ~Requeue(work.pool)
  <2>1. /\ work'.pc = "slices" /\ work'.obj = work.obj /\ work'.model = work.model
        /\ work'.apply = work.apply /\ work'.next = work.next + 1
        /\ work'.devices = work.devices + len /\ work'.matched = work.matched
        /\ work'.occupied = work.occupied /\ work'.faulted = work.faulted
    BY <1>1, <1>2, <1>8, ZenonT(60) DEF TypeOK, WorkOK, Idle
  <2> QED
    BY <1>4, <1>6, <2>1, SMTT(60) DEF Counted
<1> QED
  BY <1>7, <1>8, SMTT(60)

\* After the last slice the node is complete.
LEMMA PatchResourcesCounted ==
  ASSUME TypeOK, Counted, PatchResources PROVE Counted'
<1>1. work.pc = "slices" /\ work.next \notin DOMAIN work.apply
  BY ZenonT(60) DEF PatchResources
<1>2. Buildable(work.obj.spec, work.model)
  BY <1>1, PastChecks, SMTT(60)
<1>3. /\ CardsBounded(work.matched, work.occupied, work.faulted, work.obj.spec.gpus)
      /\ Applying(work.obj.spec, work.model, work.apply, work.next, work.matched, work.devices)
  BY <1>1, SMTT(60) DEF Counted
<1>4. work.matched \in Nat
  BY <1>3 DEF CardsBounded
<1>5. work.devices = work.matched * DevicesPerNode(work.obj.spec, work.model)
  BY <1>1, <1>2, <1>3, <1>4, ApplyingEnds, SMTT(60)
<1>6. \/ Requeue(work.pool)
      \/ work' = [work EXCEPT !.pc = "labels"]
      \/ \E o : work' = [work EXCEPT !.pc = "labels", !.todo[work.node] = o]
  BY PatchResourcesEffect, ZenonT(60)
<1>7. CASE ~Requeue(work.pool)
  <2>1. /\ work'.pc = "labels" /\ work'.obj = work.obj /\ work'.model = work.model
        /\ work'.devices = work.devices /\ work'.matched = work.matched
        /\ work'.occupied = work.occupied /\ work'.faulted = work.faulted
    <3>1. CASE work' = [work EXCEPT !.pc = "labels"]
      BY <3>1, SMTT(60) DEF TypeOK, WorkOK, Idle
    <3>2. ASSUME NEW o, work' = [work EXCEPT !.pc = "labels", !.todo[work.node] = o]
          PROVE  /\ work'.pc = "labels" /\ work'.obj = work.obj /\ work'.model = work.model
                 /\ work'.devices = work.devices /\ work'.matched = work.matched
                 /\ work'.occupied = work.occupied /\ work'.faulted = work.faulted
      BY <3>2, SMTT(60) DEF TypeOK, WorkOK, Idle
    <3> QED
      BY <1>6, <1>7, <3>1, <3>2, ZenonT(60)
  <2> QED
    BY <1>3, <1>5, <2>1, SMTT(60) DEF Counted
<1> QED
  BY <1>7, RequeueCounted, SMTT(60)

\* Labels, pruning and the way back to the loop count nothing.
LEMMA OtherStepsCounted ==
  ASSUME TypeOK, Counted, PatchLabels \/ ListStale \/ \E s \in SliceNames : DeleteStale(s)
  PROVE  Counted'
<1>1. \/ Requeue(work.pool)
      \/ /\ work.pc \in {"loop", "labels", "prune"} /\ work'.pc \in {"loop", "prune"}
         /\ work'.obj = work.obj /\ work'.model = work.model
         /\ work'.devices = work.devices /\ work'.matched = work.matched
         /\ work'.occupied = work.occupied /\ work'.faulted = work.faulted
  <2>1. CASE PatchLabels
    <3>1. work.pc = "labels" /\ (work' = NodeDone \/ Requeue(work.pool))
      BY <2>1, ZenonT(60) DEF PatchLabels
    <3> QED
      BY <3>1, ZenonT(60) DEF NodeDone, TypeOK, WorkOK, Idle
  <2>2. CASE ListStale
    BY <2>2, SMTT(60) DEF ListStale, TypeOK, WorkOK, Idle
  <2>3. ASSUME NEW s \in SliceNames, DeleteStale(s)
        PROVE  /\ work.pc = "prune" /\ work'.pc = "prune"
               /\ work'.obj = work.obj /\ work'.model = work.model
               /\ work'.devices = work.devices /\ work'.matched = work.matched
               /\ work'.occupied = work.occupied /\ work'.faulted = work.faulted
    BY <2>3, SMTT(60) DEF DeleteStale, TypeOK, WorkOK, Idle
  <2> QED
    BY <2>1, <2>2, <2>3, SMTT(60)
<1>2. CASE ~Requeue(work.pool)
  BY <1>1, <1>2, SMTT(60) DEF Counted
<1> QED
  BY <1>2, RequeueCounted, SMTT(60)

\* A status write ends the reconcile.
LEMMA StatusCounted ==
  ASSUME ReportInvalid \/ Report PROVE Counted'
<1>1. work' = Idle
  BY ZenonT(60) DEF ReportInvalid, Report, WriteStatus, Requeue
<1> QED
  BY <1>1, IdleCounted, SMTT(60)

\* The invariant is inductive.
LEMMA NextCounted == TypeOK /\ Counted /\ [Next]_vars => Counted'
<1> SUFFICES ASSUME TypeOK, Counted, [Next]_vars PROVE Counted'
  OBVIOUS
<1>1. CASE UNCHANGED work
  BY <1>1, SMTT(60) DEF Counted
<1>2. CASE Worker
  BY <1>2, BeginCounted, StatusCounted, StartNodeCounted, ApplySliceCounted,
     PatchResourcesCounted, OtherStepsCounted, ZenonT(60) DEF Worker
<1>3. CASE APIFailure \/ Restart
  BY <1>3, IdleCounted, SMTT(60) DEF APIFailure, Requeue, Restart
<1>4. Cluster \/ Users \/ Sync \/ UNCHANGED vars => UNCHANGED work
  BY ZenonT(60)
     DEF Cluster, Resync, GarbageCollect, Users, DeletePool, CreatePool, UpdatePool,
         DeleteNode, CreateNode, ChangeNode, SetModel, DropSlice, Change,
         Sync, SyncPool, SyncNode, SyncModel, SyncSlice, vars
<1> QED
  BY <1>1, <1>2, <1>3, <1>4, ZenonT(60) DEF Next

\* Both specifications speak of the same objects.
LEMMA SameObjects ==
  /\ Contract!NewStatus = NewStatus
  /\ \A uid, spec : Contract!NewPool(uid, spec) = NewPool(uid, spec)
BY Zenon DEF NewStatus, NewPool, Contract!NewStatus, Contract!NewPool

\* The reconciler starts where the contract starts.
LEMMA InitRefines == Init => Contract!Init
<1> SUFFICES ASSUME Init PROVE Contract!Init
  OBVIOUS
<1>1. \A p \in Pools : pools[p] \in {NewPool(1, spec) : spec \in PoolSpecs} \cup {None}
  <2> TAKE p \in Pools
  <2>1. pools[p] = IF Start.pools[p] = None THEN None ELSE NewPool(1, Start.pools[p])
    BY DEF Init
  <2>2. Start.pools[p] # None => Start.pools[p] \in PoolSpecs
    BY StartAssumption, SMTT(60)
  <2> QED
    BY <2>1, <2>2, ZenonT(60)
<1>2. pools = [p \in Pools |-> pools[p]] /\ uids = [p \in Pools |-> 1]
  BY DEF Init
<1>3. pools \in [Pools -> {NewPool(1, spec) : spec \in PoolSpecs} \cup {None}]
  BY <1>1, <1>2, ZenonT(60)
<1> QED
  BY <1>2, <1>3, SameObjects, ZenonT(60) DEF Contract!Init

-----------------------------------------------------------------------------
(* Every step of the reconciler is one the contract allows.                *)

\* A status write finds the object it was computed from, or does nothing.
LEMMA WrittenStatus ==
  ASSUME TypeOK, work.pc # "idle", NEW status, WriteStatus(status)
  PROVE  /\ work.pool \in Pools
         /\ \/ UNCHANGED pools
            \/ /\ pools[work.pool] = work.obj /\ work.obj # None /\ IsPool(work.obj)
               /\ pools' = [pools EXCEPT ![work.pool].status = status]
BY DEF WriteStatus, TypeOK, WorkOK

\* An object whose new value is None has been deleted as far as a reader can tell.
LEMMA ReadAsDeleted ==
  ASSUME TypeOK, NEW p \in Pools, pools[p] # None, NEW o, pools' = [pools EXCEPT ![p] = o],
         UNCHANGED uids, pools'[p] = None
  PROVE  Contract!Delete(p)
<1>1. o = None
  BY DEF TypeOK, PoolsOK
<1> QED
  BY <1>1, SMTT(60) DEF Contract!Delete

\* Early returns of Reconcile are refusals.
LEMMA InvalidRefines ==
  ASSUME TypeOK, Counted, ReportInvalid PROVE [Contract!Next]_(Contract!vars)
<1> DEFINE p == work.pool
           reason == Verdict(work.obj.spec, work.model)
           st == setReady(work.obj.status, FALSE, reason)
<1>1. work.pc = "report" /\ WriteStatus(st) /\ UNCHANGED uids
  BY ZenonT(60) DEF ReportInvalid, bounds
<1>2. /\ p \in Pools
      /\ \/ UNCHANGED pools
         \/ /\ pools[p] = work.obj /\ work.obj # None /\ IsPool(work.obj)
            /\ pools' = [pools EXCEPT ![p].status = st]
  BY <1>1, WrittenStatus, ZenonT(60)
<1>3. CASE UNCHANGED pools
  BY <1>1, <1>3, SMTT(60) DEF Contract!vars
<1>4. CASE ~UNCHANGED pools
  <2>1. /\ pools[p] = work.obj /\ work.obj # None /\ IsPool(work.obj)
        /\ pools' = [pools EXCEPT ![p].status = st]
    BY <1>2, <1>4, SMTT(60)
  <2>2. reason \in MayRefuse[pools[p].spec]
    BY <1>1, <2>1, SMTT(60) DEF Counted, MayRefuse, IsPool
  <2> HIDE DEF reason
  <2>3. st = [pools[p].status EXCEPT !.ready = FALSE, !.reason = reason,
                                     !.condGen = pools[p].gen]
    BY <2>1, SMTT(60) DEF setReady
  <2>4. pools' = [pools EXCEPT ![p].status.ready = FALSE, ![p].status.reason = reason,
                               ![p].status.condGen = pools[p].gen]
    BY <1>2, <2>1, <2>3, ZenonT(60) DEF TypeOK, PoolsOK, IsPool, NewStatus
  <2>5. Contract!Refuse(p, reason)
    BY <1>1, <2>1, <2>4, ZenonT(60) DEF Contract!Refuse
  <2> QED
    BY <1>2, <2>1, <2>2, <2>5, ZenonT(60) DEF Contract!Next
<1> QED
  BY <1>3, <1>4, SMTT(60)

\* What the loop added up is the truth about the spec it worked from.
LEMMA CountsTruthful ==
  ASSUME TypeOK, Counted, work.pc = "prune"
  PROVE  Contract!Truthful(work.obj, setReady(Counts, TRUE, "Reconciled"))
<1> DEFINE st == setReady(Counts, TRUE, "Reconciled")
           spec == work.obj.spec
<1>1. spec \in PoolSpecs /\ work.model \in ModelSpecs /\ Verdict(spec, work.model) = "Reconciled"
  BY PastChecks, SMTT(60)
<1>2. DOMAIN work.obj.status = DOMAIN NewStatus
  BY SMTT(60) DEF TypeOK, WorkOK, IsPool
<1>3. DOMAIN st = DOMAIN NewStatus
  BY <1>2, ZenonT(60) DEF setReady, Counts
<1>4. /\ st.obs = work.obj.gen /\ st.ready = TRUE /\ st.reason = "Reconciled"
      /\ st.condGen = work.obj.gen /\ st.matched = work.matched /\ st.devices = work.devices
      /\ st.occupied = work.occupied /\ st.faulted = work.faulted
  BY <1>2, SMTT(60) DEF setReady, Counts, NewStatus
<1> HIDE DEF st
<1>5. /\ CardsBounded(work.matched, work.occupied, work.faulted, spec.gpus)
      /\ work.devices = work.matched * DevicesPerNode(spec, work.model)
  BY SMTT(60) DEF Counted
<1>6. work.matched \in Nat /\ work.occupied <= work.matched * spec.gpus
      /\ work.faulted <= work.matched * spec.gpus
  BY <1>5, SMTT(60) DEF CardsBounded
<1>7. DevicesPerNode(spec, work.model) \in MayCarry[spec]
  BY <1>1, SMTT(60) DEF MayCarry, ValidModels
<1>8. Contract!CountsAreOf(spec, st)
  <2>1. [s \in PoolSpecs |-> s.gpus][spec] = spec.gpus
    BY <1>1, SMTT(60)
  <2>2. \E d \in MayCarry[spec] : st.devices = st.matched * d
    BY <1>4, <1>5, <1>7, ZenonT(60)
  <2>3. st.occupied <= st.matched * spec.gpus /\ st.faulted <= st.matched * spec.gpus
    BY <1>4, <1>6, ZenonT(60)
  <2> QED
    BY <2>1, <2>2, <2>3, ZenonT(60) DEF Contract!CountsAreOf
<1>9. Contract!Truthful(work.obj, st)
  BY <1>3, <1>4, <1>6, <1>8, SameObjects, ZenonT(60) DEF Contract!Truthful
<1> QED
  BY <1>9, ZenonT(60) DEF st

\* The end of Reconcile is a report.
LEMMA ReportRefines ==
  ASSUME TypeOK, Counted, Report PROVE [Contract!Next]_(Contract!vars)
<1> DEFINE p == work.pool
           st == setReady(Counts, TRUE, "Reconciled")
<1>1. work.pc = "prune" /\ WriteStatus(st) /\ UNCHANGED uids
  BY ZenonT(60) DEF Report, bounds
<1>2. Contract!Truthful(work.obj, st)
  BY <1>1, CountsTruthful, ZenonT(60)
<1> HIDE DEF st
<1>3. /\ p \in Pools
      /\ \/ UNCHANGED pools
         \/ /\ pools[p] = work.obj /\ work.obj # None /\ IsPool(work.obj)
            /\ pools' = [pools EXCEPT ![p].status = st]
  BY <1>1, WrittenStatus, SMTT(60)
<1>4. CASE UNCHANGED pools
  BY <1>1, <1>4, SMTT(60) DEF Contract!vars
<1>5. CASE ~UNCHANGED pools
  <2>1. /\ pools[p] = work.obj /\ work.obj # None /\ IsPool(work.obj)
        /\ pools' = [pools EXCEPT ![p].status = st]
    BY <1>3, <1>5, SMTT(60)
  <2>2. CASE pools'[p] = None
    <3>1. pools' = [pools EXCEPT ![p] = [pools[p] EXCEPT !.status = st]]
      BY <2>1, SMTT(60)
    <3>2. Contract!Delete(p)
      BY <1>1, <1>3, <2>1, <2>2, <3>1, ReadAsDeleted, ZenonT(60)
    <3> QED
      BY <1>3, <3>2, SMTT(60) DEF Contract!Next
  <2>3. CASE pools'[p] # None
    <3>1. pools'[p].status = st
      BY <1>3, <2>1, SMTT(60) DEF TypeOK, PoolsOK, IsPool
    <3>2. Contract!Report(p, pools'[p].status)
      BY <1>1, <1>2, <2>1, <3>1, ZenonT(60) DEF Contract!Report
    <3> QED
      BY <1>3, <2>3, <3>2, SMTT(60) DEF Contract!Next
  <2> QED
    BY <2>2, <2>3, SMTT(60)
<1> QED
  BY <1>4, <1>5

\* Everything else the worker does leaves the pool objects alone.
LEMMA WorkerPools ==
  ASSUME Worker PROVE UNCHANGED <<pools, uids>> \/ ReportInvalid \/ Report
BY ZenonT(60)
   DEF Worker, Begin, StartNode, ApplySlice, PatchResources, PatchLabels, ListStale,
       DeleteStale, api, bounds

\* What users do to pools is what the contract lets them do.
LEMMA UsersRefine == ASSUME Users PROVE [Contract!Next]_(Contract!vars)
<1>1. ASSUME NEW p \in Pools, DeletePool(p) PROVE Contract!Next
  <2>1. Contract!Delete(p)
    BY <1>1, SMTT(60) DEF DeletePool, Contract!Delete
  <2> QED
    BY <2>1, SMTT(60) DEF Contract!Next
<1>2. ASSUME NEW p \in Pools, NEW spec \in PoolSpecs, CreatePool(p, spec) PROVE Contract!Next
  <2>1. Contract!Create(p, spec)
    <3>1. pools[p] = None /\ uids' = [uids EXCEPT ![p] = @ + 1]
      BY <1>2, ZenonT(60) DEF CreatePool
    <3>2. pools' = [pools EXCEPT ![p] = NewPool(uids'[p], spec)]
      BY <1>2, ZenonT(60) DEF CreatePool
    <3> QED
      BY <3>1, <3>2, SameObjects, ZenonT(60) DEF Contract!Create
  <2> QED
    BY <2>1, SMTT(60) DEF Contract!Next
<1>3. ASSUME NEW p \in Pools, NEW spec \in PoolSpecs, UpdatePool(p, spec) PROVE Contract!Next
  <2>1. Contract!Update(p, spec)
    BY <1>3, SMTT(60) DEF UpdatePool, Contract!Update
  <2> QED
    BY <2>1, SMTT(60) DEF Contract!Next
<1>4. \/ \E p \in Pools : DeletePool(p)
      \/ \E p \in Pools, spec \in PoolSpecs : CreatePool(p, spec) \/ UpdatePool(p, spec)
      \/ UNCHANGED <<pools, uids>>
  BY ZenonT(60) DEF Users, DeleteNode, CreateNode, ChangeNode, SetModel, DropSlice
<1> QED
  BY <1>1, <1>2, <1>3, <1>4, SMTT(60) DEF Contract!vars

\* A step of the whole system.
LEMMA NextRefines ==
  ASSUME TypeOK, Counted, [Next]_vars PROVE [Contract!Next]_(Contract!vars)
<1>1. CASE UNCHANGED <<pools, uids>>
  BY <1>1, SMTT(60) DEF Contract!vars
<1>2. APIFailure \/ Cluster \/ Sync \/ Restart \/ UNCHANGED vars => UNCHANGED <<pools, uids>>
  BY ZenonT(60)
     DEF APIFailure, Cluster, Resync, GarbageCollect, Sync, SyncPool, SyncNode, SyncModel,
         SyncSlice, Restart, api, bounds, vars
<1>3. Worker => UNCHANGED <<pools, uids>> \/ ReportInvalid \/ Report
  BY WorkerPools, SMTT(60)
<1>4. CASE ReportInvalid
  BY <1>4, InvalidRefines, SMTT(60)
<1>5. CASE Report
  BY <1>5, ReportRefines
<1>6. CASE Users
  BY <1>6, UsersRefine, SMTT(60)
<1> QED
  BY <1>1, <1>2, <1>3, <1>4, <1>5, <1>6, ZenonT(60) DEF Next

\* The reconciler, with its caches, queue, failures and restarts, implements the
\* contract of the pool object.
THEOREM ContractKept == Spec => KeepsContract
<1>1. Init => Counted
  <2>1. Init => work.pc = "idle"
    BY SMTT(60) DEF Init, Idle
  <2> QED
    BY <2>1, SMTT(60) DEF Counted
<1>2. TypeOK /\ Counted /\ [Next]_vars => [Contract!Next]_(Contract!vars)
  BY NextRefines, SMTT(60)
<1> QED
  BY <1>1, <1>2, InitRefines, NextCounted, TypeCorrect, PTL DEF Spec, KeepsContract, Contract!Spec

\* So a status that has observed the current generation describes the current spec.
THEOREM StatusIsFaithful == Spec => []StatusFaithful
<1>1. TypeOK /\ Contract!ObservedIsTruthful => StatusFaithful
  <2> SUFFICES ASSUME TypeOK, Contract!ObservedIsTruthful,
                      NEW p \in Pools, pools[p] # None, pools[p].status.obs = pools[p].gen
               PROVE  \E model \in ModelSpecs :
                        /\ Verdict(pools[p].spec, model) = "Reconciled"
                        /\ pools[p].status.devices =
                             pools[p].status.matched * DevicesPerNode(pools[p].spec, model)
                        /\ pools[p].status.occupied <= pools[p].status.matched * pools[p].spec.gpus
                        /\ pools[p].status.faulted <= pools[p].status.matched * pools[p].spec.gpus
    BY ZenonT(60) DEF StatusFaithful
  <2> DEFINE spec == pools[p].spec
  <2>1. spec \in PoolSpecs
    BY SMTT(60) DEF TypeOK, PoolsOK, IsPool
  <2>2. Contract!CountsAreOf(spec, pools[p].status)
    BY ZenonT(60) DEF Contract!ObservedIsTruthful
  <2>3. PICK model \in ModelSpecs :
          /\ Verdict(spec, model) = "Reconciled"
          /\ pools[p].status.devices = pools[p].status.matched * DevicesPerNode(spec, model)
    BY <2>1, <2>2, ZenonT(60) DEF Contract!CountsAreOf, MayCarry, ValidModels
  <2>4. /\ pools[p].status.occupied <= pools[p].status.matched * spec.gpus
        /\ pools[p].status.faulted <= pools[p].status.matched * spec.gpus
    BY <2>1, <2>2, SMTT(60) DEF Contract!CountsAreOf
  <2> QED
    BY <2>3, <2>4, ZenonT(60)
<1>2. KeepsContract => []Contract!ObservedIsTruthful
  BY Contract!ContractIsTruthful, SMTT(60) DEF KeepsContract
<1> QED
  BY <1>1, <1>2, ContractKept, TypeCorrect, PTL
=============================================================================
