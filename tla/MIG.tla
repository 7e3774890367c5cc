--------------------------------- MODULE MIG ---------------------------------
(***************************************************************************)
(* MIG profile tables, the resolution of a GPUModel into a table           *)
(* (internal/mig/resolve.go), and the expansion of a table into instances  *)
(* (internal/mig/expand.go, partition.go).                                 *)
(*                                                                         *)
(* A profile is [name, mem, slices]; the name "<g>g.<m>gb" is the pair     *)
(* <<g, m>>.  A quantity of memory is counted in halves of a MiB: labels   *)
(* and metrics round it down to whole ones.  A table is [profiles, mem,    *)
(* slices], the last two being the budget of one physical GPU.  A model is *)
(* [product, needles, mem, compute, profiles, budgetMem, budgetSlices]:    *)
(* needles are the family and capacity words its normalized product name   *)
(* contains, and an unset list or budget field is << >> or 0.              *)
(***************************************************************************)
EXTENDS Integers, SequencesExt, FiniteSets

MiB    == 2
GiB(n) == n * 1024 * MiB

-----------------------------------------------------------------------------
(* Built-in tables.                                                        *)

Profile(g, gb) == [name |-> <<g, gb>>, mem |-> GiB(gb), slices |-> g]

builtInTables ==
  [A10040 |-> [mem |-> GiB(40), slices |-> 7,
               profiles |-> <<Profile(1, 5), Profile(2, 10), Profile(3, 20),
                              Profile(4, 20), Profile(7, 40)>>],
   A10080 |-> [mem |-> GiB(80), slices |-> 7,
               profiles |-> <<Profile(1, 10), Profile(2, 20), Profile(3, 40),
                              Profile(4, 40), Profile(7, 80)>>],
   H10080 |-> [mem |-> GiB(80), slices |-> 7,
               profiles |-> <<Profile(1, 10), Profile(1, 20), Profile(2, 20),
                              Profile(3, 40), Profile(4, 40), Profile(7, 80)>>]]

\* First match wins, so the capacity-qualified entries come first.
productMatchers ==
  << [contains |-> {"a100", "40gb"}, table |-> "A10040"],
     [contains |-> {"a100", "80gb"}, table |-> "A10080"],
     [contains |-> {"a100"},         table |-> "A10080"],
     [contains |-> {"h100"},         table |-> "H10080"] >>

NoTable == [profiles |-> << >>, mem |-> 0, slices |-> 0]

ProfilesFor(needles) ==
  LET i == SelectInSeq(productMatchers, LAMBDA m : m.contains \subseteq needles)
  IN  IF i = 0 THEN NoTable ELSE builtInTables[productMatchers[i].table]

-----------------------------------------------------------------------------
(* Resolve: the model overrides the built-in table, and the memory budget  *)
(* is the model's own memory rather than the table's.                      *)

defaultSlices == 7

baseTable(model) ==
  LET builtIn == ProfilesFor(model.needles)
      known   == builtIn # NoTable
  IN  [profiles |-> IF model.profiles # << >> THEN model.profiles ELSE builtIn.profiles,
       mem      |-> IF model.budgetMem # 0 THEN model.budgetMem ELSE model.mem,
       slices   |-> IF model.budgetSlices > 0 THEN model.budgetSlices
                    ELSE IF known THEN builtIn.slices ELSE defaultSlices]

validate(table) ==
  \A i \in 1..Len(table.profiles) :
    /\ \A j \in 1..(i - 1) : table.profiles[j].name # table.profiles[i].name
    /\ table.profiles[i].slices <= table.slices
    /\ table.profiles[i].mem <= table.mem

\* Whether Resolve returns baseTable(model) rather than an error.
Resolves(model) ==
  /\ baseTable(model).profiles # << >>
  /\ validate(baseTable(model))

-----------------------------------------------------------------------------
(* Partitions.  An entry is [profile, count].                              *)

ProfileNames(table) == {table.profiles[i].name : i \in 1..Len(table.profiles)}

ProfileNamed(table, name) ==
  table.profiles[SelectInSeq(table.profiles, LAMBDA p : p.name = name)]

\* counts[profile] of ExpandPartitioned and perGPU of nodeResourcesFor.
CountOf(entries, name) ==
  FoldLeft(LAMBDA sum, e : IF e.profile = name THEN sum + e.count ELSE sum, 0, entries)

UsedSlices(entries, table) ==
  FoldLeft(LAMBDA sum, e : sum + ProfileNamed(table, e.profile).slices * e.count, 0, entries)

UsedMemory(entries, table) ==
  FoldLeft(LAMBDA sum, e : sum + ProfileNamed(table, e.profile).mem * e.count, 0, entries)

\* Faulty variant: entries are checked one by one and never added up.
ValidateEntries(entries, table) ==
  \A i \in 1..Len(entries) :
    /\ entries[i].profile \in ProfileNames(table)
    /\ UsedSlices(<<entries[i]>>, table) <= table.slices

ValidatePartition(entries, table) ==
  \/ entries = << >>
  \/ /\ \A i \in 1..Len(entries) : entries[i].profile \in ProfileNames(table)
     /\ UsedSlices(entries, table) <= table.slices
     /\ UsedMemory(entries, table) <= table.mem

-----------------------------------------------------------------------------
(* InstanceID: a 31-multiplier hash of the profile name in a wrapping      *)
(* int32, negated when negative, modulo 100.  The int32 is kept as its     *)
(* high and low 16 bits.                                                   *)

\* The decimal digits of n, below 10^9, as runes.
Digits(n) ==
  LET width == CHOOSE k \in 1..9 : n < 10^k /\ (k = 1 \/ n >= 10^(k - 1))
  IN  [i \in 1..width |-> 48 + ((n \div 10^(width - i)) % 10)]

\* The runes of "<g>g.<m>gb".
Runes(name) ==
  Digits(name[1]) \o <<103, 46>> \o Digits(name[2]) \o <<103, 98>>

HashStep(sum, rune) ==
  LET low == sum[2] * 31 + rune
  IN  <<(sum[1] * 31 + (low \div 65536)) % 65536, low % 65536>>

Negate(sum) ==
  IF sum[2] = 0 THEN <<(65536 - sum[1]) % 65536, 0>>
  ELSE <<65535 - sum[1], 65536 - sum[2]>>

\* Faulty variant: the slice count alone.
SliceCount(name) == name[1]

\* 2^16 % 100 = 36.  The least int32 is its own negation, hence negative still.
InstanceID(name) ==
  LET sum == FoldLeft(HashStep, <<0, 0>>, Runes(name))
      abs == IF sum[1] >= 32768 THEN Negate(sum) ELSE sum
      rem == ((abs[1] % 100) * 36 + abs[2]) % 100
  IN  IF abs[1] >= 32768 THEN 0 - rem ELSE rem

-----------------------------------------------------------------------------
(* Expansion.  An instance is [gpu, profile, ordinal, id]; its device name *)
(* is the first three of those fields (ordinal 0 - 1 for dynamic MIG,      *)
(* whose names carry none), its counter set is the one of its gpu.         *)

Expand(gpus, table) ==
  LET n == Len(table.profiles)
  IN  [k \in 1..(gpus * n) |->
         LET p == table.profiles[((k - 1) % n) + 1]
         IN  [gpu |-> (k - 1) \div n, profile |-> p, ordinal |-> 0 - 1,
              id |-> InstanceID(p.name)]]

\* Faulty variant: the order of the entries, one ordinal count per entry.
EntryLayout(table, entries) ==
  FlattenSeq([i \in 1..Len(entries) |->
                [k \in 1..entries[i].count |->
                   [profile |-> ProfileNamed(table, entries[i].profile), ordinal |-> k - 1]]])

\* One card's instances in table order, whatever the order of the entries.
CardLayout(table, entries) ==
  FlattenSeq([i \in 1..Len(table.profiles) |->
                LET p == table.profiles[i]
                IN  [k \in 1..CountOf(entries, p.name) |->
                       [profile |-> p, ordinal |-> k - 1]]])

\* Faulty variant: static instances are numbered by their profile, as dynamic
\* ones are.
ExpandHashed(gpus, table, entries) ==
  LET card == CardLayout(table, entries)
      n    == Len(card)
  IN  [k \in 1..(gpus * n) |->
         LET i == (k - 1) % n
         IN  [gpu |-> (k - 1) \div n, profile |-> card[i + 1].profile,
              ordinal |-> card[i + 1].ordinal, id |-> InstanceID(card[i + 1].profile.name)]]

\* The running nextID of a card is the position within its layout.
ExpandPartitioned(gpus, table, entries) ==
  LET card == CardLayout(table, entries)
      n    == Len(card)
  IN  [k \in 1..(gpus * n) |->
         LET i == (k - 1) % n
         IN  [gpu |-> (k - 1) \div n, profile |-> card[i + 1].profile,
              ordinal |-> card[i + 1].ordinal, id |-> i]]

\* Faulty variant: memory is forgotten.
MaxBySlices(profile, table) == table.slices \div profile.slices

\* How many instances of a profile one GPU can hold; the tighter budget binds.
MaxInstances(profile, table) ==
  IF profile.slices <= 0 \/ profile.mem <= 0 THEN 0
  ELSE LET bySlices == table.slices \div profile.slices
           byMemory == table.mem \div profile.mem
       IN  IF bySlices < byMemory THEN bySlices ELSE byMemory
=============================================================================
