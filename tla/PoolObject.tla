------------------------------ MODULE PoolObject ------------------------------
(***************************************************************************)
(* A GPUPool object of the API server: [uid, gen, spec, status].  gen is   *)
(* metadata.generation, which counts changes of the spec; status.obs is    *)
(* status.observedGeneration; ready, reason and condGen are the Ready      *)
(* condition.                                                              *)
(***************************************************************************)

NewStatus == [obs |-> 0, matched |-> 0, devices |-> 0, occupied |-> 0, faulted |-> 0,
              profiles |-> 0, ready |-> FALSE, reason |-> "", condGen |-> 0]

NewPool(uid, spec) == [uid |-> uid, gen |-> 1, spec |-> spec, status |-> NewStatus]
=============================================================================
