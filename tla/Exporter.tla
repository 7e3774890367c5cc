------------------------------- MODULE Exporter -------------------------------
(***************************************************************************)
(* The DCGM-shaped metrics of internal/metrics, on a cluster that moves:   *)
(* a pool is declared, changed and deleted, its slices are written one at  *)
(* a time, the scheduler allocates devices to claims and reserves claims   *)
(* for pods, and the exporter scrapes through the manager's caches.        *)
(*                                                                         *)
(* One node and one pool.  A declaration is [spec, util]: a pool spec and  *)
(* its utilization [allocated, idle, workloads], where a sample is a       *)
(* function on the fields it sets and a workload entry is [sel, sample].   *)
(* A reading is [util, fb, power, xid]; util stands for the utilization    *)
(* fields, which are treated alike, and power for power and temperature.   *)
(***************************************************************************)
EXTENDS Fleet

CONSTANTS
  Pool, Node,       \* names, as sequences of words
  Declarations,     \* what users may declare
  Model,            \* the GPUModel, which may be deleted
  NodeLabelMap,     \* the node's labels
  Pods,             \* pods, a function from pod to its labels
  Claims,           \* names of ResourceClaims
  StartDeclaration, \* the declaration published when the manager starts
  MaxChanges        \* bound on what users and the scheduler do

VARIABLES
  pool, model, slices, claims, pods,         \* the API server
  cPool, cModel, cSlices, cClaims, cPods,    \* what the manager's caches show
  scraped,                                   \* what the last scrape saw, or None
  changes

live   == <<pool, model, slices, claims, pods>>
cached == <<cPool, cModel, cSlices, cClaims, cPods>>
vars   == <<pool, model, slices, claims, pods, cPool, cModel, cSlices, cClaims, cPods,
            scraped, changes>>

-----------------------------------------------------------------------------
(* Holders.  A claim is None until it is allocated, then [driver, device,  *)
(* pod] with pod None until it is reserved for one.                        *)

DeviceID(d) == <<d.gpu, d.profile, d.ordinal>>

\* Faulty variant: results of other drivers are not skipped.
HoldersOfAny(list) ==
  LET of(d) == {c \in DOMAIN list : /\ list[c] # None
                                    /\ list[c].device = d
                                    /\ list[c].pod # None}
      held == {list[c].device : c \in {x \in DOMAIN list : list[x] # None}}
  IN  [d \in {x \in held : of(x) # {}} |-> list[CHOOSE c \in of(d) : TRUE].pod]

Holders(list) ==
  LET of(d) == {c \in DOMAIN list : /\ list[c] # None
                                    /\ list[c].driver = "ghostgpu"
                                    /\ list[c].device = d
                                    /\ list[c].pod # None}
      held == {list[c].device : c \in {x \in DOMAIN list : list[x] # None}}
  IN  [d \in {x \in held : of(x) # {}} |-> list[CHOOSE c \in of(d) : TRUE].pod]

-----------------------------------------------------------------------------
(* Readings.                                                               *)

NoPower == 0 - 1

IdleReading == [util |-> 0, fb |-> 0, power |-> NoPower, xid |-> 0]
BusyReading == [IdleReading EXCEPT !.util = 100, !.fb = 100]

apply(reading, sample) ==
  [f \in DOMAIN reading |-> IF f \in DOMAIN sample THEN sample[f] ELSE reading[f]]

\* Unlike node selectors, a pod selector needs the key to be there.
Matches(sel, labels) == \A k \in DOMAIN sel : k \in DOMAIN labels /\ labels[k] = sel[k]

matchWorkload(entries, labels) ==
  LET i == SelectInSeq(entries, LAMBDA e : Matches(e.sel, labels))
  IN  IF i = 0 THEN << >> ELSE entries[i].sample

Resolve(util, busy, labels) ==
  IF busy
  THEN apply(apply(BusyReading, util.allocated), matchWorkload(util.workloads, labels))
  ELSE apply(IdleReading, util.idle)

-----------------------------------------------------------------------------
(* Cards.                                                                  *)

occupied(d) == d.taint.key = "occupied"

\* The XID comes back from the taint's value, 0 when none was declared.
faultedXID(d) == IF d.taint.key = "faulted" THEN d.taint.value ELSE 0

isFaulted(d) == d.taint.key = "faulted"

\* Faulty variant: a failed device that is held still reports its work.
ReadingOfHeld(d, util, held, labels) ==
  [Resolve(util, held \/ occupied(d), labels) EXCEPT !.xid = faultedXID(d)]

\* The reading of one device; labels are those of the pod that holds it.
DeviceReading(d, util, held, labels) ==
  [Resolve(util, (held \/ occupied(d)) /\ ~isFaulted(d), labels) EXCEPT !.xid = faultedXID(d)]

Max2(a, b) == IF a > b THEN a ELSE b
Min2(a, b) == IF a < b THEN a ELSE b

\* Faulty variant: the last instance's framebuffer stands for the card's.
summarizeLast(card) ==
  LET add(sum, i) ==
        [sum EXCEPT !.util  = Max2(@, i.reading.util),
                    !.fb    = (i.mem * i.reading.fb) \div 100,
                    !.power = IF @ = NoPower THEN i.reading.power ELSE @]
      total == FoldLeft(add, [card.reading EXCEPT !.fb = 0], card.instances)
  IN  [card EXCEPT !.reading = [total EXCEPT !.fb =
         IF card.mem > 0 THEN Min2(Max2((total.fb * 100) \div card.mem, 0), 100)
         ELSE card.reading.fb]]

\* The busiest instance's utilization, the sum of the framebuffers in use as a
\* percentage of the card's, the first power that is declared.
summarizeCard(card) ==
  LET add(sum, i) ==
        [sum EXCEPT !.util  = Max2(@, i.reading.util),
                    !.fb    = @ + ((i.mem * i.reading.fb) \div 100),
                    !.power = IF @ = NoPower THEN i.reading.power ELSE @]
      total == FoldLeft(add, [card.reading EXCEPT !.fb = 0], card.instances)
  IN  [card EXCEPT !.reading = [total EXCEPT !.fb =
         IF card.mem > 0 THEN Min2(Max2((total.fb * 100) \div card.mem, 0), 100)
         ELSE card.reading.fb]]

\* One card from the devices that carry its index, in the order they are listed;
\* own keeps its reading as a whole device, from before summarizeCard.
CardFrom(g, devices, util, mem, holders, labels) ==
  LET mine    == SelectSeq(devices, LAMBDA d : d.gpu = g)
      held(d) == DeviceID(d) \in DOMAIN holders
      pod(d)  == IF held(d) THEN holders[DeviceID(d)] ELSE None
      podLabels(d) == IF held(d) /\ pod(d) \in DOMAIN labels THEN labels[pod(d)] ELSE << >>
      read(d) == DeviceReading(d, util, held(d), podLabels(d))
      whole   == SelectSeq(mine, LAMBDA d : d.profile = WholeGPU)
      parts   == SelectSeq(mine, LAMBDA d : d.profile # WholeGPU)
      last    == whole[Len(whole)]
      own     == IF whole = << >> THEN IdleReading ELSE read(last)
      card    == [gpu     |-> g,
                  mem     |-> mem,
                  holder  |-> IF whole = << >> THEN None ELSE pod(last),
                  own     |-> own,
                  reading |-> own,
                  instances |-> [i \in 1..Len(parts) |->
                     [profile |-> parts[i].profile, id |-> parts[i].id, mem |-> parts[i].mem \div MiB,
                      ordinal |-> parts[i].ordinal, holder |-> pod(parts[i]),
                      reading |-> read(parts[i])]]]
  IN  IF parts = << >> THEN card ELSE summarizeCard(card)

\* Slices whose pool is gone are skipped; without its model a card has no memory.
CardsFrom(decl, gpuModel, published, granted, labels) ==
  LET devices == FoldSet(LAMBDA s, list : list \o s.devices, << >>, published)
      mem     == IF gpuModel = None THEN 0 ELSE gpuModel.mem \div MiB
  IN  IF decl = None THEN {}
      ELSE {CardFrom(g, devices, decl.util, mem, Holders(granted), labels) :
              g \in {devices[i].gpu : i \in 1..Len(devices)}}

-----------------------------------------------------------------------------
(* Samples.  instance is << >> at card level, <<id, profile>> below it.    *)

utilizationSeries(labels, r, mem) ==
  LET used == (mem * r.fb) \div 100
  IN  {[name |-> "util",   labels |-> labels, value |-> r.util],
       [name |-> "fbUsed", labels |-> labels, value |-> used],
       [name |-> "fbFree", labels |-> labels, value |-> mem - used]}

XIDSample(labels, xid) == [name |-> "xid", labels |-> labels, value |-> xid]

cardLabels(card) == [gpu |-> card.gpu, pod |-> card.holder, instance |-> << >>]

instanceLabels(card, i) ==
  [gpu |-> card.gpu, pod |-> i.holder, instance |-> <<i.id, i.profile>>]

\* The samples of one card; power only where it is declared, and instances
\* report the XID of their card.
BuildCard(card) ==
  utilizationSeries(cardLabels(card), card.reading, card.mem)
    \cup {XIDSample(cardLabels(card), card.reading.xid)}
    \cup (IF card.reading.power = NoPower THEN {}
          ELSE {[name |-> "power", labels |-> cardLabels(card), value |-> card.reading.power]})
    \cup UNION {utilizationSeries(instanceLabels(card, i), i.reading, i.mem)
                  \cup {XIDSample(instanceLabels(card, i), card.reading.xid)} :
                i \in ToSet(card.instances)}

Build(cards) == UNION {BuildCard(card) : card \in cards}

-----------------------------------------------------------------------------
(* The cluster.                                                            *)

\* What the controller wants published.
Wanted(decl) == DesiredSlices(Pool, decl.spec, model, Node, StateFor(decl.spec, NodeLabelMap))

Init ==
  /\ pool = StartDeclaration
  /\ model = Model
  /\ slices = ToSet(Wanted(StartDeclaration))
  /\ claims = [c \in Claims |-> None]
  /\ pods = {}
  /\ cPool = pool /\ cModel = model /\ cSlices = slices /\ cClaims = claims /\ cPods = pods
  /\ scraped = None
  /\ changes = 0

\* The controller, one slice at a time.  A pool that is gone has its slices
\* collected, one that fails a check keeps the ones it has.
Publish ==
  /\ slices' \in IF pool = None THEN {slices \ {s} : s \in slices}
                 ELSE IF Verdict(pool.spec, model) = "Reconciled"
                 THEN ReconcileSteps(Wanted(pool), slices)
                 ELSE {}
  /\ UNCHANGED <<pool, model, claims, pods, cached, scraped, changes>>

Change ==
  /\ changes < MaxChanges
  /\ changes' = changes + 1
  /\ UNCHANGED <<cached, scraped>>

Declare(decl) ==
  /\ Change
  /\ pool # decl
  /\ pool' = decl
  /\ UNCHANGED <<model, slices, claims, pods>>

SetModel ==
  /\ Change
  /\ model' = IF model = None THEN Model ELSE None
  /\ UNCHANGED <<pool, slices, claims, pods>>

Devices == UNION {ToSet(s.devices) : s \in slices}

HeldOn(g) == {d \in Devices : /\ d.gpu = g
                              /\ \E c \in Claims : /\ claims[c] # None
                                                   /\ claims[c].driver = "ghostgpu"
                                                   /\ claims[c].device = DeviceID(d)}

\* What the counters of the DRA API allow: the devices held on one card fit it.
Fits(d) ==
  LET memory(e) == e.mem
  IN  d.profile # WholeGPU => MapThenSumSet(memory, HeldOn(d.gpu) \cup {d}) <= Model.mem

\* The scheduler gives a claim a device that is free, untainted and fits; another
\* driver's device may have the same name in a pool of the same name.
Allocate(c, driver) ==
  /\ Change
  /\ claims[c] = None
  /\ \E d \in Devices :
       /\ driver = "ghostgpu" => d.taint = NoTaint /\ d \notin HeldOn(d.gpu) /\ Fits(d)
       /\ claims' = [claims EXCEPT ![c] = [driver |-> driver, device |-> DeviceID(d), pod |-> None]]
  /\ UNCHANGED <<pool, model, slices, pods>>

Reserve(c, p) ==
  /\ Change
  /\ claims[c] # None
  /\ claims[c].pod = None
  /\ claims' = [claims EXCEPT ![c].pod = p]
  /\ UNCHANGED <<pool, model, slices, pods>>

Release(c) ==
  /\ Change
  /\ claims[c] # None
  /\ claims' = [claims EXCEPT ![c] = None]
  /\ UNCHANGED <<pool, model, slices, pods>>

CreatePod(p) ==
  /\ Change
  /\ p \notin pods
  /\ pods' = pods \cup {p}
  /\ UNCHANGED <<pool, model, slices, claims>>

-----------------------------------------------------------------------------
(* The exporter.  Each kind has an informer of its own, whose cache shows  *)
(* some past state of that kind; a scrape that reads the five caches one   *)
(* after the other sees combinations that reading them together, with more *)
(* lag, sees too.                                                          *)

SyncPool ==
  /\ cPool # pool /\ cPool' = pool
  /\ UNCHANGED <<cModel, cSlices, cClaims, cPods, live, scraped, changes>>

SyncModel ==
  /\ cModel # model /\ cModel' = model
  /\ UNCHANGED <<cPool, cSlices, cClaims, cPods, live, scraped, changes>>

SyncSlices ==
  /\ cSlices # slices /\ cSlices' = slices
  /\ UNCHANGED <<cPool, cModel, cClaims, cPods, live, scraped, changes>>

SyncClaims ==
  /\ cClaims # claims /\ cClaims' = claims
  /\ UNCHANGED <<cPool, cModel, cSlices, cPods, live, scraped, changes>>

SyncPods ==
  /\ cPods # pods /\ cPods' = pods
  /\ UNCHANGED <<cPool, cModel, cSlices, cClaims, live, scraped, changes>>

\* Faulty variant: the cache transform drops the labels too.
WorkloadsStripped(list) == [p \in list |-> << >>]

\* The pods a list returned, with the labels the cache keeps of them.
Workloads(list) == [p \in list |-> Pods[p]]

Collect ==
  /\ scraped' = CardsFrom(cPool, cModel, cSlices, cClaims, Workloads(cPods))
  /\ UNCHANGED <<live, cached, changes>>

\* Listing the pods failed: no workload is known, everything else is reported.
CollectWithoutPods ==
  /\ scraped' = CardsFrom(cPool, cModel, cSlices, cClaims, Workloads({}))
  /\ UNCHANGED <<live, cached, changes>>

\* Any other list failed: no samples.
CollectFails == scraped' = None /\ UNCHANGED <<live, cached, changes>>

Next ==
  \/ Publish
  \/ \E decl \in Declarations \cup {None} : Declare(decl)
  \/ SetModel
  \/ \E c \in Claims, driver \in {"ghostgpu", "other"} : Allocate(c, driver)
  \/ \E c \in Claims, p \in DOMAIN Pods : Reserve(c, p)
  \/ \E c \in Claims : Release(c)
  \/ \E p \in DOMAIN Pods : CreatePod(p)
  \/ SyncPool \/ SyncModel \/ SyncSlices \/ SyncClaims \/ SyncPods
  \/ Collect \/ CollectWithoutPods \/ CollectFails

Spec == Init /\ [][Next]_vars

\* No cache has changed since the last scrape, or not so that it shows.
Fresh == scraped = CardsFrom(cPool, cModel, cSlices, cClaims, Workloads(cPods))

\* The same of a scrape that could not list the pods.
FreshWithoutPods == scraped = CardsFrom(cPool, cModel, cSlices, cClaims, Workloads({}))

\* Weak fairness of each Sync and of Collect, with the conditions that enable them
\* written out: informers deliver, Prometheus keeps scraping.  The controller owes
\* nothing; it may stop halfway.
FairSpec ==
  /\ Spec
  /\ []<>(cPool = pool) /\ []<>(cModel = model) /\ []<>(cSlices = slices)
  /\ []<>(cClaims = claims) /\ []<>(cPods = pods)
  /\ []<>Fresh

-----------------------------------------------------------------------------
(* Properties.                                                             *)

Samples == IF scraped = None THEN {} ELSE Build(scraped)

CachedDevices == UNION {ToSet(s.devices) : s \in cSlices}

\* Every label set occurs once per metric, or Prometheus would reject the whole
\* scrape: instances of one profile on one card differ in GPU_I_ID, also while
\* one layout is being replaced by another, as long as a layout needs no second
\* device slice (instanceLabels).
SamplesDistinct ==
  scraped # None =>
    /\ Cardinality({<<s.name, s.labels>> : s \in Samples}) = Cardinality(Samples)
    /\ \A card \in scraped : \A i, j \in 1..Len(card.instances) :
         instanceLabels(card, card.instances[i]) = instanceLabels(card, card.instances[j]) => i = j

\* The pods on the samples are the ones the scheduler put there: device by
\* device what the ghostgpu claims of the snapshot say, with nothing from other
\* drivers' claims, unreserved ones, or devices that are no longer published, and
\* nothing missing because the pods could not be listed.
AttributionExact ==
  (cPool # None /\ scraped # None /\ (Fresh \/ FreshWithoutPods)) =>
    LET reported == UNION {{<<<<card.gpu, WholeGPU, 0 - 1>>, card.holder>>}
                             \cup {<<<<card.gpu, i.profile, i.ordinal>>, i.holder>> :
                                     i \in ToSet(card.instances)} : card \in scraped}
        reserved == {c \in Claims : cClaims[c] # None /\ cClaims[c].pod # None}
        granted  == {<<cClaims[c].device, cClaims[c].pod>> :
                       c \in {r \in reserved : cClaims[r].driver = "ghostgpu"}}
    IN  {r \in reported : r[2] # None}
          = {x \in granted : x[1] \in {DeviceID(d) : d \in CachedDevices}}

\* Failed hardware does no work: but for its XID, a device with the faulted taint
\* reports the pool's idle reading, whoever holds it and whatever that pod's profile
\* says, also when it is listed whole beside the instances that replace it.
FaultedDoNoWork ==
  LET failed == {d \in CachedDevices : isFaulted(d)} IN
  (failed # {} /\ cPool # None /\ scraped # None /\ (Fresh \/ FreshWithoutPods)) =>
    \A d \in failed : \A card \in {x \in scraped : x.gpu = d.gpu} :
      \A r \in {i.reading : i \in {x \in ToSet(card.instances) :
                                     <<x.profile, x.ordinal>> = <<d.profile, d.ordinal>>}}
                 \cup (IF d.profile = WholeGPU THEN {card.own} ELSE {}) :
        [r EXCEPT !.xid = 0] = apply(IdleReading, cPool.util.idle)

\* A partitioned card's numbers follow from its instances': it is exactly as busy as
\* the busiest, its power is one an instance has, if any has, and its framebuffer in
\* use is their sum, less at most what rounding to a whole percentage takes away, and
\* never more than the card has.  A card that is still, or already, listed whole
\* beside its instances, halfway through a change of sharing mode, counts among them
\* for how busy it is, and its own power goes before theirs (summarizeCard).
CardMatchesInstances ==
  scraped # None =>
    \A card \in {x \in scraped : x.instances # << >>} :
      LET used(m, r) == (m * r.fb) \div 100
          sum == FoldLeft(LAMBDA t, i : t + used(i.mem, i.reading), 0, card.instances)
          shown == used(card.mem, card.reading)
          powers == {i.reading.power : i \in ToSet(card.instances)} \ {NoPower}
      IN  /\ card.reading.util =
               Max({card.own.util} \cup {i.reading.util : i \in ToSet(card.instances)})
          /\ IF card.own.power # NoPower THEN card.reading.power = card.own.power
             ELSE card.reading.power \in IF powers = {} THEN {NoPower} ELSE powers
          /\ card.mem > 0 =>
               /\ shown <= card.mem
               /\ shown <= sum
               /\ sum <= card.mem => sum - shown <= (card.mem \div 100) + 1

\* What a scrape of the cluster as it is would show.
Truth == CardsFrom(pool, model, slices, claims, [p \in pods |-> Pods[p]])

\* Scrapes come back to the truth: however the caches lagged and whatever lists
\* failed, the fleet as it is now is reported again and again.
MetricsCatchUp == []<>(scraped = Truth)

-----------------------------------------------------------------------------
(* What a comment of the repository says, and the code does not keep.      *)

\* Build: "every instance on it is affected", all samples of a failed card carry
\* the XID of its fault.
FaultReported ==
  (Fresh /\ cPool # None) =>
    \A d \in {x \in CachedDevices : isFaulted(x)} : \A s \in Samples :
      s.name = "xid" /\ s.labels.gpu = d.gpu => s.value = d.taint.value

=============================================================================
