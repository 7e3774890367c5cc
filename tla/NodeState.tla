------------------------------ MODULE NodeState ------------------------------
(***************************************************************************)
(* What a GPUPool declares about the GPUs of one node: how many are busy   *)
(* (internal/gpu/occupancy.go) and how many have failed                    *)
(* (internal/gpu/faults.go).  Everything here is a function of the pool's  *)
(* spec and of the node's labels.                                          *)
(*                                                                         *)
(* A label map is a function from keys to values.  An occupancy entry is   *)
(* [sel, busy], a fault entry [sel, gpus, effect, xid]; both lists are     *)
(* sequences because the first match wins.  spec.gpus is GPUsPerNode.      *)
(***************************************************************************)
EXTENDS Integers, SequencesExt

\* A Go map lookup: a missing key reads as the empty string.
Lookup(labels, key) == IF key \in DOMAIN labels THEN labels[key] ELSE ""

\* An empty selector matches every node; a selector asking for "" also
\* matches a node that lacks the key.
selectorMatches(sel, labels) ==
  \A key \in DOMAIN sel : Lookup(labels, key) = sel[key]

Clamp(n, hi) == IF n < 0 THEN 0 ELSE IF n > hi THEN hi ELSE n

\* Position of the first entry that selects the node, 0 when none does.
FirstMatch(entries, labels) ==
  SelectInSeq(entries, LAMBDA e : selectorMatches(e.sel, labels))

BusyGPUs(spec, labels) ==
  LET i == FirstMatch(spec.occupancy, labels)
  IN  IF i = 0 THEN 0 ELSE Clamp(spec.occupancy[i].busy, spec.gpus)

StateFor(spec, labels) ==
  LET i == FirstMatch(spec.faults, labels)
      f == spec.faults[i]
  IN  IF i = 0
      THEN [busy |-> BusyGPUs(spec, labels), faulted |-> 0, effect |-> "", xid |-> 0]
      ELSE [busy    |-> BusyGPUs(spec, labels),
            faulted |-> Clamp(f.gpus, spec.gpus),
            effect  |-> IF f.effect = "" THEN "Evict" ELSE f.effect,
            xid     |-> f.xid]

\* The states the entries of a validated spec can give a node: a busy count and a
\* fault, each declared by one entry or by none.
DeclaredBusy(spec) == {0} \cup {spec.occupancy[i].busy : i \in 1..Len(spec.occupancy)}

FaultOf(entry) ==
  [gpus |-> entry.gpus, effect |-> IF entry.effect = "" THEN "Evict" ELSE entry.effect,
   xid |-> entry.xid]

NoFault == [gpus |-> 0, effect |-> "", xid |-> 0]

DeclaredFaults(spec) == {NoFault} \cup {FaultOf(spec.faults[i]) : i \in 1..Len(spec.faults)}

NodeStates(spec) ==
  {[busy |-> b, faulted |-> f.gpus, effect |-> f.effect, xid |-> f.xid] :
     b \in DeclaredBusy(spec), f \in DeclaredFaults(spec)}

\* Faulty variant: busy and failed cards counted as if they were different ones.
UnavailableSum(state) == state.busy + state.faulted

\* The larger of the two, not their sum: both count the same cards from 0 up.
Unavailable(state) ==
  IF state.busy > state.faulted THEN state.busy ELSE state.faulted

IsFaulted(state, index) == index < state.faulted

IsOccupied(state, index) == ~IsFaulted(state, index) /\ index < state.busy

-----------------------------------------------------------------------------
(* Device taints.  value is the XID a faulted taint carries, 0 for the     *)
(* "unspecified" that faultValue writes when no positive XID is declared.  *)

faultValue(xid) == IF xid <= 0 THEN 0 ELSE xid

NoTaint == [key |-> "none", value |-> 0, effect |-> "None"]

OccupiedTaint == [key |-> "occupied", value |-> 0, effect |-> "NoSchedule"]

FaultedTaint(effect, xid) ==
  [key    |-> "faulted",
   value  |-> faultValue(xid),
   effect |-> IF effect = "Unschedulable" THEN "NoSchedule" ELSE "NoExecute"]

Taint(state, index) ==
  CASE IsFaulted(state, index)  -> FaultedTaint(state.effect, state.xid)
    [] IsOccupied(state, index) -> OccupiedTaint
    [] OTHER                    -> NoTaint

-----------------------------------------------------------------------------
(* The two validations Reconcile runs before it publishes anything.        *)

ValidateOccupancy(spec) ==
  \A i \in 1..Len(spec.occupancy) : spec.occupancy[i].busy \in 0..spec.gpus

ValidateFaults(spec) ==
  \A i \in 1..Len(spec.faults) :
    /\ spec.faults[i].gpus \in 0..spec.gpus
    /\ spec.faults[i].effect \in {"", "Evict", "Unschedulable"}

\* What the CRD schema guarantees of the numbers and lists used here.
Wellformed(spec) ==
  /\ spec.gpus \in Nat
  /\ Len(spec.occupancy) \in Nat
  /\ Len(spec.faults) \in Nat

=============================================================================
