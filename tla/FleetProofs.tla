----------------------------- MODULE FleetProofs -----------------------------
(***************************************************************************)
(* What the slice builders promise for every spec, model and node: how     *)
(* many slices a node gets, how many devices each of them carries, and     *)
(* that the shards add up to the devices of the node.                      *)
(***************************************************************************)
EXTENDS Fleet, SequenceTheorems, FiniteSetTheorems, TLAPS

Tabulated(f, n) == DOMAIN f = 1..n /\ f = [i \in 1..n |-> f[i]]

\* The upper end of an interval is determined by the interval.
LEMMA SameInterval == ASSUME NEW m \in Nat, NEW n \in Nat, 1..m = 1..n PROVE m = n
<1>1. (m > 0 => m \in 1..n) /\ (n > 0 => n \in 1..m)
  OBVIOUS
<1> QED
  BY <1>1

\* A function on 1..n is a sequence of length n.
LEMMA TabulatedIsSeq ==
  ASSUME NEW f, NEW n \in Nat, Tabulated(f, n), NEW S, \A i \in 1..n : f[i] \in S
  PROVE  f \in Seq(S) /\ Len(f) = n
<1>1. f \in [1..n -> S]
  BY DEF Tabulated
<1>2. f \in Seq(S)
  BY <1>1
<1>3. DOMAIN f = 1..Len(f) /\ Len(f) \in Nat
  BY <1>2, LenProperties
<1>4. 1..Len(f) = 1..n
  BY <1>3 DEF Tabulated
<1> QED
  BY <1>2, <1>3, <1>4, SameInterval, Zenon

\* Its length, whatever its elements are.
LEMMA TabulatedLen ==
  ASSUME NEW f, NEW n \in Nat, Tabulated(f, n) PROVE Len(f) = n
<1> DEFINE S == {f[i] : i \in 1..n}
<1>1. \A i \in 1..n : f[i] \in S
  OBVIOUS
<1> HIDE DEF S
<1> QED
  BY <1>1, TabulatedIsSeq

\* Two of them, one after the other.
LEMMA TabulatedConcat ==
  ASSUME NEW f, NEW g, NEW m \in Nat, NEW n \in Nat, Tabulated(f, m), Tabulated(g, n)
  PROVE  /\ DOMAIN (f \o g) = 1..(m + n)
         /\ Len(f \o g) = m + n
         /\ \A i \in 1..m : (f \o g)[i] = f[i]
         /\ \A i \in 1..n : (f \o g)[m + i] = g[i]
<1> DEFINE S == {f[i] : i \in 1..m} \cup {g[i] : i \in 1..n}
<1>1. (\A i \in 1..m : f[i] \in S) /\ (\A i \in 1..n : g[i] \in S)
  OBVIOUS
<1> HIDE DEF S
<1>2. f \in Seq(S) /\ Len(f) = m /\ g \in Seq(S) /\ Len(g) = n
  BY <1>1, TabulatedIsSeq
<1>3. /\ f \o g \in Seq(S)
      /\ Len(f \o g) = m + n
      /\ \A i \in 1..(m + n) : (f \o g)[i] = IF i <= m THEN f[i] ELSE g[i - m]
  BY <1>2, ConcatProperties, ZenonT(60)
<1>4. DOMAIN (f \o g) = 1..(m + n)
  BY <1>3, LenProperties
<1>5. ASSUME NEW i \in 1..n PROVE (f \o g)[m + i] = g[i]
  <2>1. m + i \in 1..(m + n) /\ ~(m + i <= m) /\ (m + i) - m = i
    OBVIOUS
  <2> QED
    BY <1>3, <2>1
<1>6. \A i \in 1..m : (f \o g)[i] = f[i]
  BY <1>3
<1> QED
  BY <1>3, <1>4, <1>5, <1>6

\* The shards of the device limit cover n and no shard is empty.
LEMMA DeviceShardCount ==
  ASSUME NEW n \in Nat, NEW c, c = ceilDiv(n, MaxMIGDevicesPerSlice)
  PROVE  /\ c \in Nat
         /\ c * MaxMIGDevicesPerSlice >= n
         /\ c > 0 => (c - 1) * MaxMIGDevicesPerSlice < n
<1> DEFINE b == MaxMIGDevicesPerSlice
           a == n + b - 1
<1>1. b \in Nat /\ b > 0
  BY DeviceLimitAssumption
<1>2. CASE n = 0
  BY <1>1, <1>2 DEF ceilDiv
<1>3. CASE n > 0
  <2>1. c = a \div b
    BY <1>1, <1>3 DEF ceilDiv
  <2> HIDE DEF b
  <2>2. a \in Nat
    BY <1>1, <1>3
  <2> HIDE DEF a
  <2>3. c \in Nat /\ a % b \in 0..(b - 1) /\ a = b * c + (a % b)
    BY <1>1, <2>1, <2>2
  <2>4. b * c = c * b /\ (c - 1) * b = c * b - b /\ c * b \in Nat
    BY <1>1, <2>3
  <2> QED
    BY <1>1, <2>2, <2>3, <2>4 DEF a, b
<1> QED
  BY <1>2, <1>3

\* So do those of the counter sets.
LEMMA CounterShardCount ==
  ASSUME NEW n \in Nat PROVE ceilDiv(n, MaxCounterSetsPerSlice) \in Nat
BY DEF ceilDiv, MaxCounterSetsPerSlice

\* The devices in the first k of the shards of n.
Prefix(n, k) ==
  IF k * MaxMIGDevicesPerSlice < n THEN k * MaxMIGDevicesPerSlice ELSE n

\* Prefixes grow from nothing to all of n.
LEMMA PrefixBounds ==
  ASSUME NEW n \in Nat
  PROVE  /\ Prefix(n, 0) = 0
         /\ \A k \in Nat : Prefix(n, k) \in Nat
         /\ \A k \in Nat : k * MaxMIGDevicesPerSlice >= n => Prefix(n, k) = n
<1>1. MaxMIGDevicesPerSlice \in Nat
  BY DeviceLimitAssumption
<1>2. 0 * MaxMIGDevicesPerSlice = 0
  BY <1>1
<1>3. Prefix(n, 0) = 0
  BY <1>2 DEF Prefix
<1>4. ASSUME NEW k \in Nat
      PROVE  Prefix(n, k) \in Nat /\ (k * MaxMIGDevicesPerSlice >= n => Prefix(n, k) = n)
  <2> DEFINE all == k * MaxMIGDevicesPerSlice
  <2>1. all \in Nat
    BY <1>1
  <2>2. Prefix(n, k) = IF all < n THEN all ELSE n
    BY DEF Prefix
  <2> HIDE DEF all
  <2>3. Prefix(n, k) \in Nat /\ (all >= n => Prefix(n, k) = n)
    BY <2>1, <2>2
  <2> QED
    BY <2>3 DEF all
<1> QED
  BY <1>3, <1>4

\* A device shard holds what its place leaves it.
LEMMA ShardSize ==
  ASSUME NEW n \in Nat, NEW k \in 1..ceilDiv(n, MaxMIGDevicesPerSlice)
  PROVE  /\ Cardinality(Shard(n, MaxMIGDevicesPerSlice, k - 1)) = Prefix(n, k) - Prefix(n, k - 1)
         /\ Prefix(n, k) - Prefix(n, k - 1) \in 0..MaxMIGDevicesPerSlice
<1> DEFINE size == MaxMIGDevicesPerSlice
           c    == ceilDiv(n, size)
           low  == (k - 1) * size
           high == k * size
<1>1. size \in Nat /\ size > 0
  BY DeviceLimitAssumption
<1>2. c \in Nat /\ (c > 0 => (c - 1) * size < n)
  BY DeviceShardCount
<1>3. k \in 1..c
  OBVIOUS
<1>4. Shard(n, size, k - 1) = low..((IF high < n THEN high ELSE n) - 1)
  <2>1. (k - 1) + 1 = k
    BY <1>2, <1>3
  <2> QED
    BY <2>1 DEF Shard
<1>5. Prefix(n, k) = (IF high < n THEN high ELSE n) /\ Prefix(n, k - 1) = (IF low < n THEN low ELSE n)
  BY DEF Prefix
<1> HIDE DEF size, c
<1>6. low \in Nat /\ high \in Nat /\ high = low + size
  BY <1>1, <1>2, <1>3
<1>7. low < n
  <2>1. k - 1 <= c - 1 /\ k - 1 \in Nat /\ c - 1 \in Nat
    BY <1>2, <1>3
  <2>2. (k - 1) * size <= (c - 1) * size
    BY <1>1, <2>1
  <2>3. (c - 1) * size < n /\ (c - 1) * size \in Int
    BY <1>1, <1>2, <1>3, <2>1
  <2> HIDE DEF low
  <2>4. low <= (c - 1) * size
    BY <2>2 DEF low
  <2> QED
    BY <1>6, <2>3, <2>4
<1> HIDE DEF low, high
<1> DEFINE b == (IF high < n THEN high ELSE n) - 1
<1>8. low \in Int /\ b \in Int /\ low <= b
  BY <1>1, <1>6, <1>7
<1>9. Cardinality(low..b) = b - low + 1
  BY <1>8, FS_Interval
<1>10. b - low + 1 = Prefix(n, k) - Prefix(n, k - 1)
  BY <1>5, <1>6, <1>7
<1>11. Prefix(n, k) - Prefix(n, k - 1) \in 0..size
  BY <1>1, <1>5, <1>6, <1>7
<1> QED
  BY <1>4, <1>9, <1>10, <1>11 DEF size

-----------------------------------------------------------------------------
(* The slices of one node.                                                 *)

MIGCount(spec, model) == Len(Instances(spec, baseTable(model)))

Buildable(spec, model) == spec.gpus \in Nat /\ (spec.mig => MIGCount(spec, model) \in Nat)

SliceTotal(spec, model) ==
  IF ~spec.dra THEN 0
  ELSE IF spec.mig THEN CounterShards(spec) + DeviceShards(spec, model)
  ELSE 1

\* The devices in the first k slices of a node.
Carried(spec, model, k) ==
  IF ~spec.dra THEN 0
  ELSE IF spec.mig
  THEN IF k <= CounterShards(spec) THEN 0
       ELSE Prefix(MIGCount(spec, model), k - CounterShards(spec))
  ELSE IF k = 0 THEN 0 ELSE spec.gpus

\* A counter slice carries no device.
LEMMA CounterSlice ==
  ASSUME NEW pool, NEW spec, NEW model, NEW node, NEW shard
  PROVE  LET s == counterSlice(pool, spec, model, node, shard)
         IN  s.node = node /\ s.devices = << >>
BY DEF counterSlice, newMIGSlice

\* A device slice carries the devices of its shard.
LEMMA DeviceSlice ==
  ASSUME NEW pool, NEW spec, NEW model, NEW node, NEW state, NEW shard,
         Cardinality(Shard(MIGCount(spec, model), MaxMIGDevicesPerSlice, shard)) \in Nat
  PROVE  LET s == deviceSlice(pool, spec, model, node, state, shard)
         IN  /\ s.node = node
             /\ Len(s.devices) =
                  Cardinality(Shard(MIGCount(spec, model), MaxMIGDevicesPerSlice, shard))
<1> DEFINE s == deviceSlice(pool, spec, model, node, state, shard)
           n == Cardinality(Shard(MIGCount(spec, model), MaxMIGDevicesPerSlice, shard))
<1>1. s.node = node
  BY DEF deviceSlice, newMIGSlice
<1>2. Tabulated(s.devices, n)
  BY DEF deviceSlice, newMIGSlice, MIGCount, Tabulated
<1> QED
  BY <1>1, <1>2, TabulatedLen

\* c counter slices without devices, then d device slices that share out n devices.
MIGShaped(built, node, c, d, n) ==
  /\ c \in Nat /\ d \in Nat /\ n \in Nat
  /\ DOMAIN built = 1..(c + d)
  /\ \A k \in 1..c : built[k].node = node /\ Len(built[k].devices) = 0
  /\ \A k \in 1..d :
       /\ built[c + k].node = node
       /\ Len(built[c + k].devices) = Prefix(n, k) - Prefix(n, k - 1)
       /\ Prefix(n, k) - Prefix(n, k - 1) \in 0..MaxMIGDevicesPerSlice

\* The slices of a MIG node have that shape.
LEMMA MIGShape ==
  ASSUME NEW pool, NEW spec, NEW model, NEW node, NEW state, Buildable(spec, model), spec.mig
  PROVE  MIGShaped(BuildMIGSlices(pool, spec, model, node, state), node,
                   CounterShards(spec), DeviceShards(spec, model), MIGCount(spec, model))
<1> DEFINE built == BuildMIGSlices(pool, spec, model, node, state)
           c == CounterShards(spec)
           d == DeviceShards(spec, model)
           n == MIGCount(spec, model)
<1> SUFFICES MIGShaped(built, node, c, d, n)
  OBVIOUS
<1> DEFINE f == [s \in 1..c |-> counterSlice(pool, spec, model, node, s - 1)]
           g == [s \in 1..d |-> deviceSlice(pool, spec, model, node, state, s - 1)]
<1>1. built = f \o g
  BY DEF BuildMIGSlices
<1>2. c \in Nat /\ n \in Nat
  BY CounterShardCount DEF Buildable, CounterShards
<1>3. d = ceilDiv(n, MaxMIGDevicesPerSlice)
  BY DEF DeviceShards, MIGCount
<1>4. d \in Nat
  BY <1>2, <1>3, DeviceShardCount
<1>5. Tabulated(f, c) /\ Tabulated(g, d)
  BY DEF Tabulated
<1>6. \A k \in 1..c : f[k].node = node /\ Len(f[k].devices) = 0
  BY CounterSlice
<1>7. ASSUME NEW k \in 1..d
      PROVE  /\ g[k].node = node
             /\ Len(g[k].devices) = Prefix(n, k) - Prefix(n, k - 1)
             /\ Prefix(n, k) - Prefix(n, k - 1) \in 0..MaxMIGDevicesPerSlice
  <2> DEFINE m == Cardinality(Shard(n, MaxMIGDevicesPerSlice, k - 1))
  <2>1. m = Prefix(n, k) - Prefix(n, k - 1) /\ m \in 0..MaxMIGDevicesPerSlice
    BY <1>2, <1>3, ShardSize, SMTT(60)
  <2>2. m \in Nat
    BY <2>1
  <2>3. g[k] = deviceSlice(pool, spec, model, node, state, k - 1)
    OBVIOUS
  <2>4. g[k].node = node /\ Len(g[k].devices) = m
    BY <2>2, <2>3, DeviceSlice
  <2> QED
    BY <2>1, <2>4
<1> HIDE DEF f, g, built, c, d, n
<1>8. /\ DOMAIN (f \o g) = 1..(c + d)
      /\ \A k \in 1..c : (f \o g)[k] = f[k]
      /\ \A k \in 1..d : (f \o g)[c + k] = g[k]
  BY <1>2, <1>4, <1>5, TabulatedConcat, SMTT(60)
<1>9. /\ DOMAIN built = 1..(c + d)
      /\ \A k \in 1..c : built[k] = f[k]
      /\ \A k \in 1..d : built[c + k] = g[k]
  BY <1>1, <1>8, Zenon
<1>10. \A k \in 1..c : built[k].node = node /\ Len(built[k].devices) = 0
  BY <1>6, <1>9
<1>11. \A k \in 1..d :
         /\ built[c + k].node = node
         /\ Len(built[c + k].devices) = Prefix(n, k) - Prefix(n, k - 1)
         /\ Prefix(n, k) - Prefix(n, k - 1) \in 0..MaxMIGDevicesPerSlice
  BY <1>7, <1>9
<1> QED
  BY <1>2, <1>4, <1>9, <1>10, <1>11, Zenon DEF MIGShaped

\* Each slice a node gets, in order, takes the count from one prefix to the next,
\* names the node, and under MIG stays within MaxMIGDevicesPerSlice: whatever the
\* spec, the model and the limit, no device is missing from the count or in it twice.
THEOREM DesiredShape ==
  ASSUME NEW pool, NEW spec, NEW model, NEW node, NEW state, Buildable(spec, model),
         NEW want, want = DesiredSlices(pool, spec, model, node, state),
         NEW total, total = SliceTotal(spec, model)
  PROVE  /\ DOMAIN want = 1..total
         /\ \A k \in 1..total :
              /\ want[k].node = node
              /\ Len(want[k].devices) = Carried(spec, model, k) - Carried(spec, model, k - 1)
              /\ spec.mig => Len(want[k].devices) \in 0..MaxMIGDevicesPerSlice
<1>1. CASE ~spec.dra
  BY <1>1 DEF DesiredSlices, SliceTotal
<1>2. CASE spec.dra /\ ~spec.mig
  <2> DEFINE slice == BuildResourceSlice(pool, spec, model, node, state)
  <2>1. want = <<slice>> /\ total = 1
    BY <1>2 DEF DesiredSlices, SliceTotal
  <2>2. slice.node = node
    BY DEF BuildResourceSlice
  <2>3. Tabulated(slice.devices, spec.gpus)
    BY DEF BuildResourceSlice, Tabulated
  <2>4. Len(slice.devices) = spec.gpus
    BY <2>3, TabulatedLen DEF Buildable
  <2>5. Carried(spec, model, 1) = spec.gpus /\ Carried(spec, model, 0) = 0
    BY <1>2 DEF Carried
  <2> HIDE DEF slice
  <2>6. DOMAIN want = 1..1 /\ want[1] = slice
    BY <2>1
  <2>7. spec.gpus - 0 = spec.gpus
    BY SMTT(60) DEF Buildable
  <2> QED
    BY <1>2, <2>1, <2>2, <2>4, <2>5, <2>6, <2>7, SMTT(60)
<1>3. CASE spec.dra /\ spec.mig
  <2> DEFINE c == CounterShards(spec)
             d == DeviceShards(spec, model)
             n == MIGCount(spec, model)
  <2>1. want = BuildMIGSlices(pool, spec, model, node, state) /\ total = c + d
    BY <1>3 DEF DesiredSlices, SliceTotal
  <2>2. MIGShaped(want, node, c, d, n)
    BY <1>3, <2>1, MIGShape
  <2>3. \A k \in Nat : Carried(spec, model, k) = IF k <= c THEN 0 ELSE Prefix(n, k - c)
    BY <1>3 DEF Carried
  <2> HIDE DEF c, d, n
  <2>4. c \in Nat /\ d \in Nat /\ n \in Nat /\ DOMAIN want = 1..(c + d)
    BY <2>2 DEF MIGShaped
  <2>5. Prefix(n, 0) = 0
    BY <2>4, PrefixBounds
  <2>6. ASSUME NEW k \in 1..total
        PROVE  /\ want[k].node = node
               /\ Len(want[k].devices) = Carried(spec, model, k) - Carried(spec, model, k - 1)
               /\ Len(want[k].devices) \in 0..MaxMIGDevicesPerSlice
    <3>1. k \in Nat /\ k - 1 \in Nat /\ k <= c + d
      BY <2>1, <2>4, SMTT(60)
    <3>2. CASE k <= c
      <4>1. Carried(spec, model, k) = 0 /\ Carried(spec, model, k - 1) = 0
        BY <2>4, <2>3, <3>1, <3>2, SMTT(60)
      <4>2. k \in 1..c
        BY <2>4, <3>1, <3>2, SMTT(60)
      <4>3. want[k].node = node /\ Len(want[k].devices) = 0
        BY <2>2, <4>2 DEF MIGShaped
      <4>4. 0 \in 0..MaxMIGDevicesPerSlice
        BY DeviceLimitAssumption
      <4> QED
        BY <4>1, <4>3, <4>4
    <3>3. CASE ~(k <= c)
      <4> DEFINE j == k - c
      <4>1. j \in 1..d /\ c + j = k /\ j - 1 = (k - 1) - c
        BY <2>4, <3>1, <3>3
      <4>2. Carried(spec, model, k) = Prefix(n, j)
        BY <2>3, <3>1, <3>3, SMTT(60)
      <4>3. Carried(spec, model, k - 1) = Prefix(n, j - 1)
        <5>1. CASE k - 1 <= c
          <6>1. j - 1 = 0
            BY <2>4, <3>1, <3>3, <5>1, SMTT(60)
          <6> QED
            BY <2>3, <2>5, <3>1, <5>1, <6>1, SMTT(60)
        <5>2. CASE ~(k - 1 <= c)
          BY <2>3, <3>1, <4>1, <5>2, SMTT(60)
        <5> QED
          BY <5>1, <5>2
      <4> HIDE DEF j
      <4>4. /\ want[k].node = node
            /\ Len(want[k].devices) = Prefix(n, j) - Prefix(n, j - 1)
            /\ Prefix(n, j) - Prefix(n, j - 1) \in 0..MaxMIGDevicesPerSlice
        BY <2>2, <4>1, ZenonT(60) DEF MIGShaped
      <4> QED
        BY <4>2, <4>3, <4>4
    <3> QED
      BY <3>2, <3>3, ZenonT(60)
  <2> QED
    BY <2>1, <2>4, <2>6
<1> QED
  BY <1>1, <1>2, <1>3

\* A slice is for the node it was built for.
ForNode(want, node) == \A k \in DOMAIN want : want[k].node = node

\* All slices of a node are.
LEMMA OwnNode ==
  ASSUME NEW pool, NEW spec, NEW model, NEW node, NEW state, Buildable(spec, model),
         NEW want, want = DesiredSlices(pool, spec, model, node, state)
  PROVE  ForNode(want, node)
<1>1. DOMAIN want = 1..SliceTotal(spec, model)
  BY DesiredShape
<1>2. \A k \in 1..SliceTotal(spec, model) : want[k].node = node
  BY DesiredShape
<1> QED
  BY <1>1, <1>2, Zenon DEF ForNode

\* All the slices of a node together carry the devices of the node.
THEOREM CarriedEnds ==
  ASSUME NEW spec, NEW model, Buildable(spec, model)
  PROVE  /\ SliceTotal(spec, model) \in Nat
         /\ Carried(spec, model, 0) = 0
         /\ Carried(spec, model, SliceTotal(spec, model)) = DevicesPerNode(spec, model)
         /\ DevicesPerNode(spec, model) \in Nat
         /\ \A k \in Nat : Carried(spec, model, k) \in Nat
<1>1. CASE ~spec.dra
  BY <1>1 DEF SliceTotal, Carried, DevicesPerNode
<1>2. CASE spec.dra /\ ~spec.mig
  BY <1>2 DEF SliceTotal, Carried, DevicesPerNode, Buildable
<1>3. CASE spec.dra /\ spec.mig
  <2> DEFINE c == CounterShards(spec)
             d == DeviceShards(spec, model)
             n == MIGCount(spec, model)
  <2>1. c \in Nat /\ d \in Nat /\ n \in Nat /\ d * MaxMIGDevicesPerSlice >= n /\ (d = 0 => n = 0)
    <3>1. c \in Nat /\ n \in Nat
      BY <1>3, CounterShardCount DEF Buildable, CounterShards
    <3>2. d = ceilDiv(n, MaxMIGDevicesPerSlice)
      BY DEF DeviceShards, MIGCount
    <3> HIDE DEF c, d, n
    <3>3. d \in Nat /\ d * MaxMIGDevicesPerSlice >= n
      BY <3>1, <3>2, DeviceShardCount, SMTT(60)
    <3>4. d = 0 => n = 0
      BY <3>1, <3>3, DeviceLimitAssumption
    <3> QED
      BY <3>1, <3>3, <3>4
  <2>2. SliceTotal(spec, model) = c + d /\ DevicesPerNode(spec, model) = n
    BY <1>3 DEF SliceTotal, DevicesPerNode, MIGCount
  <2>3. \A k \in Nat : Carried(spec, model, k) = IF k <= c THEN 0 ELSE Prefix(n, k - c)
    BY <1>3 DEF Carried
  <2> HIDE DEF c, d, n
  <2>4. ASSUME NEW k \in Nat PROVE Carried(spec, model, k) \in Nat
    <3>1. CASE k <= c
      BY <2>3, <3>1
    <3>2. CASE ~(k <= c)
      <4>1. k - c \in Nat
        BY <2>1, <3>2
      <4> QED
        BY <2>1, <2>3, <3>2, <4>1, PrefixBounds
    <3> QED
      BY <3>1, <3>2
  <2>5. Carried(spec, model, 0) = 0
    BY <2>1, <2>3
  <2>6. Carried(spec, model, c + d) = n
    <3>1. CASE d = 0
      BY <2>1, <2>3, <3>1, SMTT(60)
    <3>2. CASE d > 0
      <4>1. c + d \in Nat /\ ~(c + d <= c) /\ (c + d) - c = d
        BY <2>1, <3>2
      <4>2. Prefix(n, d) = n
        BY <2>1, PrefixBounds
      <4> QED
        BY <2>3, <4>1, <4>2, SMTT(60)
    <3> QED
      BY <2>1, <3>1, <3>2, SMTT(60)
  <2> QED
    BY <2>1, <2>2, <2>4, <2>5, <2>6, SMTT(60)
<1> QED
  BY <1>1, <1>2, <1>3

-----------------------------------------------------------------------------
(* Adding up the nodes of a pool, one slice at a time.                     *)

\* matched nodes of g cards have at most so many busy and failed ones.
CardsBounded(matched, occupied, faulted, g) ==
  /\ matched \in Nat
  /\ occupied \in 0..(matched * g)
  /\ faulted \in 0..(matched * g)

\* In the middle of a node: its slices from next on are still to be applied.
Applying(spec, model, want, next, matched, devices) ==
  /\ matched > 0
  /\ next \in 1..(SliceTotal(spec, model) + 1)
  /\ DOMAIN want = 1..SliceTotal(spec, model)
  /\ \A k \in 1..SliceTotal(spec, model) :
       Len(want[k].devices) = Carried(spec, model, k) - Carried(spec, model, k - 1)
  /\ devices = (matched - 1) * DevicesPerNode(spec, model) + Carried(spec, model, next - 1)

\* One more node.
LEMMA OneMoreNode ==
  ASSUME NEW m, NEW o, NEW f, NEW g \in Nat, CardsBounded(m, o, f, g),
         NEW b \in 0..g, NEW c \in 0..g
  PROVE  CardsBounded(m + 1, o + b, f + c, g)
<1>1. (m + 1) * g = m * g + g
  BY DEF CardsBounded
<1>2. m * g \in Nat
  BY DEF CardsBounded
<1> QED
  BY <1>1, <1>2 DEF CardsBounded

\* A node's slices are built and none is applied yet.
LEMMA ApplyingStarts ==
  ASSUME NEW pool, NEW spec, NEW model, NEW node, NEW state, Buildable(spec, model),
         NEW m \in Nat, NEW devices, devices = m * DevicesPerNode(spec, model)
  PROVE  Applying(spec, model, DesiredSlices(pool, spec, model, node, state), 1, m + 1, devices)
<1> DEFINE want  == DesiredSlices(pool, spec, model, node, state)
           total == SliceTotal(spec, model)
           per   == DevicesPerNode(spec, model)
<1>1. /\ DOMAIN want = 1..total
      /\ \A k \in 1..total :
           Len(want[k].devices) = Carried(spec, model, k) - Carried(spec, model, k - 1)
  BY DesiredShape
<1>2. total \in Nat /\ per \in Nat /\ Carried(spec, model, 0) = 0
  BY CarriedEnds
<1> HIDE DEF want, total, per
<1>3. 1 - 1 = 0 /\ m + 1 > 0 /\ 1 \in 1..(total + 1) /\ (m + 1) - 1 = m
  BY <1>2
<1>4. devices = ((m + 1) - 1) * per + Carried(spec, model, 1 - 1)
  BY <1>2, <1>3 DEF per
<1> QED
  BY <1>1, <1>3, <1>4, SMTT(60) DEF Applying, want, total, per

\* One slice more.
LEMMA ApplyingGoesOn ==
  ASSUME NEW spec, NEW model, NEW want, NEW next, NEW m \in Nat, NEW devices,
         Buildable(spec, model), Applying(spec, model, want, next, m, devices),
         next \in DOMAIN want
  PROVE  Applying(spec, model, want, next + 1, m, devices + Len(want[next].devices))
<1> DEFINE total == SliceTotal(spec, model)
           per   == DevicesPerNode(spec, model)
           len   == Len(want[next].devices)
           now   == Carried(spec, model, next)
           then  == Carried(spec, model, next - 1)
           base  == (m - 1) * per
<1>1. total \in Nat /\ per \in Nat /\ \A k \in Nat : Carried(spec, model, k) \in Nat
  BY CarriedEnds
<1>2. next \in 1..total /\ len = now - then /\ devices = base + then /\ m > 0
  BY DEF Applying
<1> HIDE DEF len, now, then, base, total, per
<1>3. next \in Nat /\ next - 1 \in Nat /\ next + 1 \in 1..(total + 1) /\ (next + 1) - 1 = next
  BY <1>1, <1>2
<1>4. now \in Nat /\ then \in Nat /\ base \in Nat
  <2>1. now \in Nat /\ then \in Nat
    BY <1>1, <1>3 DEF now, then
  <2>2. base \in Nat
    BY <1>1, <1>2 DEF base
  <2> QED
    BY <2>1, <2>2
<1>5. devices + len = base + now
  BY <1>2, <1>4
<1>6. devices + len = (m - 1) * per + Carried(spec, model, (next + 1) - 1)
  BY <1>3, <1>5 DEF base, now
<1> QED
  BY <1>3, <1>6 DEF Applying, total, per, len

\* All of a node's slices are applied.
LEMMA ApplyingEnds ==
  ASSUME NEW spec, NEW model, NEW want, NEW next, NEW m \in Nat, NEW devices,
         Buildable(spec, model), Applying(spec, model, want, next, m, devices),
         next \notin DOMAIN want
  PROVE  devices = m * DevicesPerNode(spec, model)
<1> DEFINE total == SliceTotal(spec, model)
           per   == DevicesPerNode(spec, model)
<1>1. total \in Nat /\ per \in Nat /\ Carried(spec, model, total) = per
  BY CarriedEnds
<1>2. next \in 1..(total + 1) /\ next \notin 1..total /\ m > 0
  BY DEF Applying
<1>3. devices = (m - 1) * per + Carried(spec, model, next - 1)
  BY DEF Applying
<1> HIDE DEF total, per
<1>4. next - 1 = total
  BY <1>1, <1>2
<1>5. devices = (m - 1) * per + per
  BY <1>1, <1>3, <1>4, SMTT(60)
<1>6. (m - 1) * per + per = m * per
  BY <1>1, <1>2
<1> QED
  BY <1>5, <1>6 DEF per
=============================================================================
