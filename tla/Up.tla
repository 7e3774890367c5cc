---------------------------------- MODULE Up ----------------------------------
(***************************************************************************)
(* `ghostgpu up` against a cluster (internal/cli/apply.go and runUp):      *)
(* several people run it for one fleet name, each run a sequence of API    *)
(* calls that reads the GPUModel, writes it, reads the GPUPool, writes it, *)
(* and then polls the pool's status until a deadline.  The operator is not *)
(* modelled again: it changes the pool as PoolContract says, which         *)
(* GPUPoolController implements.                                           *)
(*                                                                         *)
(* A stored model is [gen, spec], a stored pool an object of PoolObject;   *)
(* generation and status stand for the resourceVersion of both.            *)
(***************************************************************************)
EXTENDS Manifests, PoolObject

CONSTANTS
  Clients,      \* people at their terminals
  Runs,         \* command lines: [flags, dry, wait]
  PoolName,
  MaxRuns,      \* bound on runs of `up`
  MaxMatched,   \* bound on the nodes that match
  MaxFailures,  \* bound on failed API calls
  MaxDeletes    \* bound on pools deleted by hand

VARIABLES
  model,        \* the stored GPUModel, or None
  pools, uids,  \* the stored GPUPool, and its incarnations
  clients,      \* the run of each client
  used          \* how much of each bound is used, and every model spec stored so far

vars == <<model, pools, uids, clients, used>>

Applied == {r.flags : r \in {s \in Runs : Accepts(s.flags)}}

AppliedModels == {ModelOf(f) : f \in Applied}

AppliedPools == {PoolOf(f) : f \in Applied}

Contract ==
  INSTANCE PoolContract WITH
    Pools     <- {PoolName},
    PoolSpecs <- AppliedPools,
    Cards     <- [spec \in AppliedPools |-> spec.gpus],
    PerNode   <- [spec \in AppliedPools |->
                    {DevicesPerNode(spec, m) :
                       m \in {n \in AppliedModels : Verdict(spec, n) = "Reconciled"}}],
    Refusals  <- [spec \in AppliedPools |->
                    {Verdict(spec, m) : m \in AppliedModels \cup {None}} \ {"Reconciled"}]

\* alone: no other run has overlapped with this one or followed it.
Quiet == [pc |-> "idle", flags |-> None, wait |-> FALSE, seen |-> None, applied |-> None,
          read |-> None, expired |-> FALSE, alone |-> FALSE]

Ended == {"idle", "refused", "rendered", "failed", "applied", "reported", "timedout", "unread"}

Init ==
  /\ model = None
  /\ pools = [p \in {PoolName} |-> None]
  /\ uids = [p \in {PoolName} |-> 1]
  /\ clients = [c \in Clients |-> Quiet]
  /\ used = [runs |-> 0, failures |-> 0, deletes |-> 0, models |-> {}]

Goto(c, pc) == clients' = [clients EXCEPT ![c].pc = pc]

\* runUp up to the first API call.
Start(c, run) ==
  /\ clients[c].pc \in Ended
  /\ used.runs < MaxRuns
  /\ used' = [used EXCEPT !.runs = @ + 1]
  /\ LET pc == IF ~Accepts(run.flags) THEN "refused"
               ELSE IF run.dry THEN "rendered" ELSE "getModel"
         alone == \A d \in Clients : clients[d].pc \in Ended
     IN  clients' = [d \in Clients |->
                       IF d = c THEN [Quiet EXCEPT !.pc = pc, !.flags = run.flags,
                                                   !.wait = run.wait, !.alone = alone]
                       ELSE [clients[d] EXCEPT !.alone = FALSE]]
  /\ UNCHANGED <<model, pools, uids>>

GetModel(c) ==
  /\ clients[c].pc = "getModel"
  /\ clients' = [clients EXCEPT ![c].pc = "putModel", ![c].seen = model]
  /\ UNCHANGED <<model, pools, uids, used>>

\* Create when the Get found nothing, else Update with the version that was read;
\* AlreadyExists and Conflict end the run.  An update that changes nothing keeps
\* the generation.
PutModel(c) ==
  /\ clients[c].pc = "putModel"
  /\ LET spec == ModelOf(clients[c].flags)
     IN  IF model # clients[c].seen
         THEN Goto(c, "failed") /\ UNCHANGED <<model, used>>
         ELSE /\ model' = IF model = None THEN [gen |-> 1, spec |-> spec]
                          ELSE IF model.spec = spec THEN model
                          ELSE [gen |-> model.gen + 1, spec |-> spec]
              /\ used' = [used EXCEPT !.models = @ \cup {spec}]
              /\ clients' = [clients EXCEPT ![c].pc = "getPool", ![c].seen = None]
  /\ UNCHANGED <<pools, uids>>

GetPool(c) ==
  /\ clients[c].pc = "getPool"
  /\ clients' = [clients EXCEPT ![c].pc = "putPool", ![c].seen = pools[PoolName]]
  /\ UNCHANGED <<model, pools, uids, used>>

\* Faulty variant: an object that exists is left alone.
CreateOnly(spec) ==
  IF pools[PoolName] = None THEN Contract!Create(PoolName, spec) ELSE UNCHANGED <<pools, uids>>

StorePool(spec) ==
  IF pools[PoolName] = None THEN Contract!Create(PoolName, spec)
  ELSE IF pools[PoolName].spec = spec THEN UNCHANGED <<pools, uids>>
  ELSE Contract!Update(PoolName, spec)

\* Of the object a successful write returns, its identity is kept.
PutPool(c) ==
  /\ clients[c].pc = "putPool"
  /\ IF pools[PoolName] # clients[c].seen
     THEN Goto(c, "failed") /\ UNCHANGED <<pools, uids>>
     ELSE /\ StorePool(PoolOf(clients[c].flags))
          /\ clients' = [clients EXCEPT ![c].pc = IF clients[c].wait THEN "poll" ELSE "applied",
                                        ![c].seen = None,
                                        ![c].applied = [uid |-> pools'[PoolName].uid,
                                                        gen |-> pools'[PoolName].gen]]
  /\ UNCHANGED <<model, used>>

\* Faulty variant: any devices will do.
AnyDevices(pool) == pool.status.devices > 0

Reconciled(pool) == pool.status.obs >= pool.gen /\ pool.status.devices > 0

\* Faulty variant: a pool that is gone is waited for past the deadline.
GivesUpOnPool(c) == clients[c].expired /\ pools[PoolName] # None

GivesUp(c) == clients[c].expired

\* One turn of WaitForPool's loop; a Get past the deadline returns nothing.  Of what
\* is read only the pool that ends the wait is kept: reportPool drops the last
\* report of a wait that timed out.
Poll(c) ==
  LET pool == pools[PoolName]
      done == ~clients[c].expired /\ pool # None /\ Reconciled(pool)
  IN  /\ clients[c].pc = "poll"
      /\ clients' = [clients EXCEPT
           ![c].read = IF done THEN pool ELSE None,
           ![c].pc   = IF done THEN "reported" ELSE IF GivesUp(c) THEN "timedout" ELSE @]
      /\ UNCHANGED <<model, pools, uids, used>>

\* The context of reportPool is done.
Expire(c) ==
  /\ clients[c].pc = "poll" /\ ~clients[c].expired
  /\ clients' = [clients EXCEPT ![c].expired = TRUE]
  /\ UNCHANGED <<model, pools, uids, used>>

\* An API call fails.  Apply returns the error; reportPool only prints it.
APIFailure(c) ==
  /\ clients[c].pc \notin Ended
  /\ used.failures < MaxFailures
  /\ used' = [used EXCEPT !.failures = @ + 1]
  /\ Goto(c, IF clients[c].pc = "poll" THEN "unread" ELSE "failed")
  /\ UNCHANGED <<model, pools, uids>>

Step(c) == GetModel(c) \/ PutModel(c) \/ GetPool(c) \/ PutPool(c) \/ Poll(c)

-----------------------------------------------------------------------------
(* The rest of the cluster.  The operator's copy of the model may be any   *)
(* that has been stored.                                                   *)

OperatorReports ==
  /\ pools[PoolName] # None
  /\ \E m \in used.models, matched \in 0..MaxMatched :
       LET spec == pools[PoolName].spec
           gen  == pools[PoolName].gen
       IN  /\ Verdict(spec, m) = "Reconciled"
           /\ Contract!Report(PoolName,
                [obs |-> gen, matched |-> matched, devices |-> matched * DevicesPerNode(spec, m),
                 occupied |-> matched * StateFor(spec, << >>).busy, faulted |-> 0,
                 profiles |-> IF spec.mig THEN Len(baseTable(m).profiles) ELSE 0,
                 ready |-> TRUE, reason |-> "Reconciled", condGen |-> gen])
  /\ UNCHANGED <<model, clients, used>>

OperatorRefuses ==
  /\ pools[PoolName] # None
  /\ \E m \in used.models :
       LET verdict == Verdict(pools[PoolName].spec, m)
       IN  verdict # "Reconciled" /\ Contract!Refuse(PoolName, verdict)
  /\ UNCHANGED <<model, clients, used>>

DeletePool ==
  /\ used.deletes < MaxDeletes
  /\ used' = [used EXCEPT !.deletes = @ + 1]
  /\ Contract!Delete(PoolName)
  /\ UNCHANGED <<model, clients>>

Next ==
  \/ \E c \in Clients : (\E run \in Runs : Start(c, run)) \/ Step(c) \/ Expire(c) \/ APIFailure(c)
  \/ OperatorReports
  \/ OperatorRefuses
  \/ DeletePool

Spec == Init /\ [][Next]_vars

\* A run makes its calls, and its timer fires; nothing is asked of the operator.
FairSpec == Spec /\ \A c \in Clients : WF_vars(Step(c)) /\ WF_vars(Expire(c))

-----------------------------------------------------------------------------
\* A run that nobody overlaps puts its own flags in place, model and pool, no
\* matter what earlier runs, failed half-way or not, have left behind.
RerunTakesEffect ==
  \A c \in Clients :
    (clients[c].alone /\ clients[c].pc \in {"applied", "poll", "reported", "timedout", "unread"}) =>
      /\ model.spec = ModelOf(clients[c].flags)
      /\ pools[PoolName] # None => pools[PoolName].spec = PoolOf(clients[c].flags)

\* "simulating N GPUs across M nodes" counts what the pool spec of this run
\* publishes, never what an earlier spec did, unless someone has changed the pool
\* again before it was read.
ReportIsOfItsSpec ==
  \A c \in Clients : clients[c].pc = "reported" =>
    LET mine == clients[c].applied
        read == clients[c].read
    IN  (read.uid = mine.uid /\ read.gen = mine.gen) =>
          \E m \in AppliedModels :
            LET each == DevicesPerNode(PoolOf(clients[c].flags), m)
            IN  read.status.devices = read.status.matched * each /\ each > 0

\* Every run ends: the operator may be missing, refuse the pool, match no node, or
\* the pool may be deleted under the wait.
UpEnds == \A c \in Clients : (clients[c].pc \notin Ended) ~> (clients[c].pc \in Ended)

-----------------------------------------------------------------------------
\* WaitForPool: on a re-apply the count reported is not the one from before it.
\* The count is that of the pool and of the model this run has applied.
ReportedIsApplied ==
  \A c \in Clients : (clients[c].pc = "reported" /\ clients[c].alone) =>
    LET status == clients[c].read.status
    IN  status.devices = status.matched * DevicesPerNode(PoolOf(clients[c].flags),
                                                         ModelOf(clients[c].flags))
=============================================================================
