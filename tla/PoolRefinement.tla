---------------------------- MODULE PoolRefinement ----------------------------
(***************************************************************************)
(* The reconciler, seen through the pool objects alone, implements         *)
(* PoolContract.  The mapping is the identity on pools and uids; what a    *)
(* spec may mean is computed with the builders and checks of Fleet.        *)
(***************************************************************************)
EXTENDS GPUPoolController

ValidModels(spec) == {m \in ModelSpecs : Verdict(spec, m) = "Reconciled"}

MayCarry == [spec \in PoolSpecs |-> {DevicesPerNode(spec, m) : m \in ValidModels(spec)}]

MayRefuse ==
  [spec \in PoolSpecs |-> {Verdict(spec, m) : m \in ModelSpecs \cup {None}} \ {"Reconciled"}]

Contract ==
  INSTANCE PoolContract WITH Cards    <- [spec \in PoolSpecs |-> spec.gpus],
                             PerNode  <- MayCarry,
                             Refusals <- MayRefuse

\* Whatever caches, failed calls, restarts and concurrent changes do to a
\* reconcile, a pool object only ever changes as PoolContract says: a status that
\* claims the current generation is written in one step, for the spec the object
\* has at that step, and with counts that are whole nodes of that spec.
KeepsContract == Contract!Spec
=============================================================================
