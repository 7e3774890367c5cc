----------------------------- MODULE StatusReport -----------------------------
(***************************************************************************)
(* `ghostgpu status`: the command lists pools, then slices, then claims,   *)
(* and derives its tables from the three lists (internal/cli/status.go),   *)
(* while the controller publishes, users change pools and the scheduler    *)
(* allocates.                                                              *)
(*                                                                         *)
(* Each pool is published on a node of its own; devices of two nodes have  *)
(* the same names.  A claim is None until it is allocated, then [driver,   *)
(* key, pod]; a device's key is its node, which names its DRA pool, and    *)
(* its name.                                                               *)
(***************************************************************************)
EXTENDS Fleet

CONSTANTS
  Home,         \* the node of each pool, a function
  PoolSpecs,    \* the specs users may apply to each pool, a function
  Model,        \* the GPUModel all of them name
  Start,        \* the spec each pool starts with, a function
  Claims, Pods,
  MaxChanges    \* bound on what users and the scheduler do

VARIABLES
  pools,        \* None or [spec, devices]: devices is status.devicesPublished
  slices,       \* the slices that carry each pool's label
  claims,
  reading,      \* the command at work: what it has listed
  report,       \* the lists of the report just printed, else None
  changes

Pools == DOMAIN Home
vars  == <<pools, slices, claims, reading, report, changes>>

-----------------------------------------------------------------------------
(* The tables, functions of the lists r = [pools, slices, claims].         *)

KeyOf(node, d) == <<node, <<d.gpu, d.profile, d.ordinal>>>>

\* Allocated ghostgpu devices and who holds them: None when nobody reserved
\* the claim yet, which still is an allocation.
indexAllocations(list) ==
  LET mine == {c \in DOMAIN list : list[c] # None /\ list[c].driver = "ghostgpu"}
  IN  [k \in {list[c].key : c \in mine} |->
         list[CHOOSE c \in mine : list[c].key = k].pod]

hasTaint(d, key) == d.taint.key = key
isFaulted(d)  == hasTaint(d, "faulted")
isOccupied(d) == hasTaint(d, "occupied")

\* One row per published device.
describeDevices(r) ==
  LET held == indexAllocations(r.claims)
      row(p, s, d) == [pool      |-> p,
                       slice     |-> s.name,
                       node      |-> s.node,
                       device    |-> d,
                       allocated |-> KeyOf(s.node, d) \in DOMAIN held,
                       pod       |-> IF KeyOf(s.node, d) \in DOMAIN held
                                     THEN held[KeyOf(s.node, d)] ELSE None]
  IN  UNION {UNION {{row(p, s, d) : d \in ToSet(s.devices)} : s \in r.slices[p]} : p \in Pools}

\* The STATUS column of RenderDevices.
RowStatus(row) ==
  CASE row.allocated                                  -> "allocated"
    [] ~row.allocated /\ isFaulted(row.device)        -> "faulted"
    [] ~row.allocated /\ ~isFaulted(row.device)
                      /\ isOccupied(row.device)       -> "occupied"
    [] OTHER                                          -> "free"

\* Faulty variant: the DRA pool is left out of the key.
poolOfName(r, key) ==
  {p \in Pools : \E s \in r.slices[p] : \E d \in ToSet(s.devices) : KeyOf(s.node, d)[2] = key[2]}

\* The pool whose slices publish a key, as a set of at most one.
poolOf(r, key) ==
  {p \in Pools : \E s \in r.slices[p] : \E d \in ToSet(s.devices) : KeyOf(s.node, d) = key}

\* The row of one pool.  DEVICES comes from the pool's status, the rest is
\* counted.
summarisePools(r, p) ==
  LET mine == UNION {ToSet(s.devices) \X {s.name} : s \in r.slices[p]}
  IN  [devices   |-> r.pools[p].devices,
       allocated |-> Cardinality({k \in DOMAIN indexAllocations(r.claims) : p \in poolOf(r, k)}),
       faulted   |-> Cardinality({x \in mine : isFaulted(x[1])}),
       occupied  |-> Cardinality({x \in mine : ~isFaulted(x[1]) /\ isOccupied(x[1])})]

\* Faulty variant: failed devices are not subtracted.
FreeWithFaulted(r, p) ==
  LET row  == summarisePools(r, p)
      left == row.devices - row.allocated - row.occupied
  IN  IF left < 0 THEN 0 ELSE left

\* The FREE column of RenderPools.
Free(r, p) ==
  LET row  == summarisePools(r, p)
      left == row.devices - row.allocated - row.occupied - row.faulted
  IN  IF left < 0 THEN 0 ELSE left

\* Faulty variant: every published instance draws on its card.
UsedByAll(r, node, gpu) ==
  {row \in describeDevices(r) : /\ row.node = node
                                /\ row.device.gpu = gpu
                                /\ row.device.profile # WholeGPU}

\* The rows that draw on the counter set of one card.
UsedBy(r, node, gpu) ==
  {row \in describeDevices(r) : /\ row.allocated
                                /\ row.node = node
                                /\ row.device.gpu = gpu
                                /\ row.device.profile # WholeGPU}

SlicesOf(d) == ProfileNamed(baseTable(Model), d.profile).slices

describeGPUs(r) ==
  LET slicesUsed(row) == SlicesOf(row.device)
      memUsed(row)    == row.device.mem
      budget(s, c)    == LET used == UsedBy(r, s.node, c.gpu)
                         IN  [node |-> s.node, gpu |-> c.gpu,
                              usedSlices |-> MapThenSumSet(slicesUsed, used),
                              usedMem    |-> MapThenSumSet(memUsed, used),
                              slices     |-> c.slices,
                              mem        |-> c.mem]
  IN  UNION {UNION {{budget(s, c) : c \in s.counters} : s \in r.slices[p]} : p \in Pools}

-----------------------------------------------------------------------------
(* The cluster.                                                            *)

NoReading == [pc |-> "pools", pools |-> None, slices |-> None]

WantedBy(p, spec) == DesiredSlices(p, spec, Model, Home[p], StateFor(spec, << >>))

DeviceCount(published) == MapThenSumSet(LAMBDA s : Len(s.devices), published)

\* The pools are reconciled when the story begins.
Init ==
  /\ slices = [p \in Pools |-> ToSet(WantedBy(p, Start[p]))]
  /\ pools = [p \in Pools |-> [spec |-> Start[p], devices |-> DeviceCount(slices[p])]]
  /\ claims = [c \in Claims |-> None]
  /\ reading = NoReading
  /\ report = None
  /\ changes = 0

Valid(p) == pools[p] # None /\ Verdict(pools[p].spec, Model) = "Reconciled"

\* The controller, or the garbage collector once the pool is gone.
Publish(p) ==
  /\ \E have \in IF pools[p] = None THEN {slices[p] \ {s} : s \in slices[p]}
                 ELSE IF Valid(p) THEN ReconcileSteps(WantedBy(p, pools[p].spec), slices[p])
                 ELSE {} :
       slices' = [slices EXCEPT ![p] = have]
  /\ UNCHANGED <<pools, claims, reading, changes>>

\* The reconcile's last step.
WriteStatus(p) ==
  /\ Valid(p)
  /\ slices[p] = ToSet(WantedBy(p, pools[p].spec))
  /\ pools[p].devices # DeviceCount(slices[p])
  /\ pools' = [pools EXCEPT ![p].devices = DeviceCount(slices[p])]
  /\ UNCHANGED <<slices, claims, reading, changes>>

Change ==
  /\ changes < MaxChanges
  /\ changes' = changes + 1
  /\ UNCHANGED <<slices, reading>>

Declare(p, spec) ==
  /\ Change
  /\ pools[p] # None => pools[p].spec # spec
  /\ pools' = [pools EXCEPT ![p] = IF @ = None THEN [spec |-> spec, devices |-> 0]
                                   ELSE [@ EXCEPT !.spec = spec]]
  /\ UNCHANGED claims

DeletePool(p) ==
  /\ Change
  /\ pools[p] # None
  /\ pools' = [pools EXCEPT ![p] = None]
  /\ UNCHANGED claims

HeldKeys == DOMAIN indexAllocations(claims)

\* The devices held on one card, as far as they are published.
HeldOn(p, gpu) ==
  {d \in UNION {ToSet(s.devices) : s \in slices[p]} : d.gpu = gpu /\ KeyOf(Home[p], d) \in HeldKeys}

\* What the counters of the DRA API allow.
Fits(p, d) ==
  LET all == HeldOn(p, d.gpu) \cup {d}
  IN  d.profile # WholeGPU => /\ MapThenSumSet(LAMBDA e : e.mem, all) <= baseTable(Model).mem
                              /\ MapThenSumSet(SlicesOf, all) <= baseTable(Model).slices

\* The scheduler gives a claim a device that is free, untainted and fits; one of
\* another driver may have the same name in a DRA pool of the same name.
Allocate(c, p, driver) ==
  /\ Change
  /\ claims[c] = None
  /\ \E d \in UNION {ToSet(s.devices) : s \in slices[p]} :
       /\ driver = "ghostgpu" =>
            d.taint = NoTaint /\ KeyOf(Home[p], d) \notin HeldKeys /\ Fits(p, d)
       /\ claims' = [claims EXCEPT ![c] =
                       [driver |-> driver, key |-> KeyOf(Home[p], d), pod |-> None]]
  /\ UNCHANGED pools

Reserve(c, pod) ==
  /\ Change
  /\ claims[c] # None
  /\ claims[c].pod = None
  /\ claims' = [claims EXCEPT ![c].pod = pod]
  /\ UNCHANGED pools

Release(c) ==
  /\ Change
  /\ claims[c] # None
  /\ claims' = [claims EXCEPT ![c] = None]
  /\ UNCHANGED pools

-----------------------------------------------------------------------------
(* runStatus: three lists straight from the API server, one after the      *)
(* other; an error ends the command without a report.                      *)

ListPools ==
  /\ reading.pc = "pools"
  /\ reading' = [pc |-> "slices", pools |-> pools, slices |-> None]
  /\ UNCHANGED <<pools, slices, claims, changes>>

ListSlices ==
  /\ reading.pc = "slices"
  /\ reading' = [reading EXCEPT !.pc = "claims", !.slices = slices]
  /\ UNCHANGED <<pools, slices, claims, changes>>

ListClaims ==
  /\ reading.pc = "claims"
  /\ report' = [pools |-> reading.pools, slices |-> reading.slices, claims |-> claims]
  /\ reading' = NoReading
  /\ UNCHANGED <<pools, slices, claims, changes>>

ListFails ==
  /\ reading.pc # "pools"
  /\ reading' = NoReading
  /\ UNCHANGED <<pools, slices, claims, changes>>

Others ==
  \/ \E p \in Pools : Publish(p) \/ WriteStatus(p) \/ DeletePool(p)
  \/ \E p \in Pools : \E spec \in PoolSpecs[p] : Declare(p, spec)
  \/ \E c \in Claims, p \in Pools, driver \in {"ghostgpu", "other"} : Allocate(c, p, driver)
  \/ \E c \in Claims, pod \in Pods : Reserve(c, pod)
  \/ \E c \in Claims : Release(c)

Next ==
  \/ (Others \/ ListPools \/ ListSlices \/ ListFails) /\ report' = None
  \/ ListClaims

Spec == Init /\ [][Next]_vars

-----------------------------------------------------------------------------
(* Properties.                                                             *)

RowsOf(r, p) == {row \in describeDevices(r) : row.pool = p}

\* Halfway through the replacement of a layout that needs several device slices, a
\* device may be in an old slice and in a new one.
ListedTwice(published) ==
  \E s, t \in published : /\ s # t
                          /\ \E d \in ToSet(s.devices), e \in ToSet(t.devices) :
                               KeyOf(s.node, d) = KeyOf(t.node, e)

\* The budget view shows what the scheduler has given out of a card: if nothing was
\* published for the pool since its slices were listed, a card's used slices and
\* memory are those of the devices held on it now, although claims came and went
\* since, other nodes have devices of the same names, and layouts, whole cards
\* included, replace one another under their holders.  While a device is listed
\* twice the view may count it twice; even then it shows no room that is not there
\* (describeGPUs).
BudgetShowsHolders ==
  report # None =>
    \A p \in {q \in Pools : report.slices[q] = slices[q]} :
      \A b \in {x \in describeGPUs(report) : x.node = Home[p]} :
        LET held == {d \in HeldOn(p, b.gpu) : d.profile # WholeGPU}
            heldSlices == MapThenSumSet(SlicesOf, held)
            heldMem    == MapThenSumSet(LAMBDA d : d.mem, held)
        IN  /\ b.usedSlices >= heldSlices /\ b.usedMem >= heldMem
            /\ ~ListedTwice(slices[p]) => b.usedSlices = heldSlices /\ b.usedMem = heldMem

\* The pool table counts every device the device table shows as allocated, and
\* counts it once, also while the device table shows it once for an old slice and
\* once for a new one: the count starts from the claims and the rows from the
\* slices, names repeat across nodes, pools disappear, other drivers' claims use the
\* same names (summarisePools against describeDevices).
SummaryAgreesWithRows ==
  report # None =>
    \A p \in {q \in Pools : report.pools[q] # None} :
      summarisePools(report, p).allocated =
        Cardinality({KeyOf(row.node, row.device) : row \in {x \in RowsOf(report, p) : x.allocated}})

\* The lists show pool p reconciled: its slices are what its spec asks for and
\* its status counts them.
Reconciled(r, p) ==
  /\ r.pools[p] # None
  /\ Verdict(r.pools[p].spec, Model) = "Reconciled"
  /\ r.slices[p] = ToSet(WantedBy(p, r.pools[p].spec))
  /\ r.pools[p].devices = DeviceCount(r.slices[p])

FreeRows(r, p) == {row \in RowsOf(r, p) : RowStatus(row) = "free"}

\* FREE never promises more than there is: for a pool whose slices and status
\* are in order it is at most the number of devices shown as free (RenderPools).
FreeNeverOverstates ==
  report # None =>
    \A p \in {q \in Pools : Reconciled(report, q)} :
      Free(report, p) <= Cardinality(FreeRows(report, p))

=============================================================================
