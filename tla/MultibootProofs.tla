-------------------------- MODULE MultibootProofs --------------------------
(***************************************************************************)
(* Proofs about the walk over the memory map (src/multiboot.rs), for every *)
(* number, size and content of entries, every length of the buffer and     *)
(* every width of the integers.                                            *)
(***************************************************************************)
EXTENDS Multiboot, TLAPS, WellFoundedInduction, FiniteSetTheorems

(* What the walk relies on.  The sum size + 4 never wraps: the dev profile *)
(* panics instead, a release build needs a loader that writes no such      *)
(* size.  The history keeps every region.                                  *)
NoWrap == DEV_PROFILE \/ \A l \in Layouts : \A i \in DOMAIN l : step(l[i]) < USIZE
HistoryKeepsAll == \A l \in Layouts : Len(l) <= MAX_YIELDED

-----------------------------------------------------------------------------
(* Where the entries start.                                                *)

(* A set of numbers that is not empty has a least one.                     *)
LEMMA Least ==
    ASSUME NEW S \in SUBSET Nat, S # {}
    PROVE  \E m \in S : \A x \in S : m <= x
<1>1. PICK m \in S : \A x \in S : ~(<<x, m>> \in OpToRel(<, Nat))
  BY NatLessThanWellFounded, WFMin, Zenon
<1>2. ASSUME NEW x \in S PROVE m <= x
  <2>1. m \in Nat /\ x \in Nat
    OBVIOUS
  <2>2. x < m => <<x, m>> \in OpToRel(<, Nat)
    BY <2>1 DEF OpToRel
  <2>3. ~(x < m)
    BY <1>1, <2>2, Zenon
  <2> QED
    BY <2>1, <2>3
<1> QED
  BY <1>2, Zenon

(* The recursion that defines the starts has a solution.                   *)
LEMMA StartsExist ==
    ASSUME NEW l, NEW n \in Nat
    PROVE  \E f : f = [i \in 1 .. n + 1 |->
                          IF i = 1 THEN 0 ELSE f[i - 1] + l[i - 1].size + SIZE_FIELD]
<1> DEFINE Solves(f, m) == f = [i \in 1 .. m |->
                                  IF i = 1 THEN 0 ELSE f[i - 1] + l[i - 1].size + SIZE_FIELD]
           Unsolved == {m \in Nat \ {0} : \A f : ~Solves(f, m)}
<1> SUFFICES ASSUME Unsolved # {} PROVE FALSE
  <2>1. n + 1 \in Nat \ {0}
    OBVIOUS
  <2>2. n + 1 \notin Unsolved => \E f : Solves(f, n + 1)
    BY <2>1, Zenon
  <2> QED
    BY <2>2, Zenon
<1>1. PICK m \in Unsolved : \A x \in Unsolved : m <= x
  <2>1. Unsolved \in SUBSET Nat
    OBVIOUS
  <2> QED
    BY <2>1, Least, Zenon
<1>2. m \in Nat \ {0} /\ \A f : ~Solves(f, m)
  OBVIOUS
<1>3. CASE m = 1
  <2>1. Solves([i \in 1 .. 1 |-> 0], 1)
    OBVIOUS
  <2> QED
    BY <1>2, <1>3, <2>1, Zenon
<1>4. CASE m # 1
  <2>1. m - 1 \in Nat \ {0} /\ ~(m <= m - 1)
    BY <1>2, <1>4
  <2>2. m - 1 \notin Unsolved
    BY <1>1, <2>1, Zenon
  <2>3. PICK g : Solves(g, m - 1)
    BY <2>1, <2>2, Zenon
  <2> DEFINE f == [i \in 1 .. m |-> IF i = m THEN g[m - 1] + l[m - 1].size + SIZE_FIELD ELSE g[i]]
  <2>4. ASSUME NEW i \in 1 .. m
        PROVE  f[i] = IF i = 1 THEN 0 ELSE f[i - 1] + l[i - 1].size + SIZE_FIELD
    <3>1. CASE i = m
      <4>1. i # 1 /\ i - 1 = m - 1 /\ m - 1 \in 1 .. m /\ m - 1 # m
        BY <1>2, <1>4, <3>1
      <4> QED
        BY <3>1, <4>1
    <3>2. CASE i # m
      <4>1. i \in 1 .. m - 1 /\ f[i] = g[i]
        BY <1>2, <3>2
      <4>2. g[i] = IF i = 1 THEN 0 ELSE g[i - 1] + l[i - 1].size + SIZE_FIELD
        BY <2>3, <4>1
      <4>3. i # 1 => i - 1 \in 1 .. m /\ i - 1 # m
        BY <1>2, <4>1
      <4>4. i # 1 => f[i - 1] = g[i - 1]
        BY <4>3
      <4> QED
        BY <4>1, <4>2, <4>4
    <3> QED
      BY <3>1, <3>2
  <2>5. f = [i \in 1 .. m |-> f[i]]
    OBVIOUS
  <2> HIDE DEF f
  <2>6. Solves(f, m)
    BY <2>4, <2>5, Zenon
  <2> QED
    BY <1>2, <2>6, Zenon
<1> QED
  BY <1>3, <1>4

(* Each entry starts where the one before it ends.                         *)
LEMMA StartsRecur ==
    ASSUME NEW l, Len(l) \in Nat
    PROVE  /\ starts_of(l)[1] = 0
           /\ \A i \in 2 .. Len(l) + 1 :
                 starts_of(l)[i] = starts_of(l)[i - 1] + l[i - 1].size + SIZE_FIELD
<1> DEFINE Solves(f) == f = [i \in 1 .. Len(l) + 1 |->
                                IF i = 1 THEN 0 ELSE f[i - 1] + l[i - 1].size + SIZE_FIELD]
<1>1. \E f : Solves(f)
  BY StartsExist
<1>2. starts_of(l) = CHOOSE f : Solves(f)
  BY DEF starts_of
<1>3. Solves(starts_of(l))
  BY <1>1, <1>2, Zenon
<1> QED
  BY <1>3

(* The starts are offsets into the buffer, and grow.                       *)
LEMMA StartsGrow ==
    ASSUME NEW l \in Seq(MmapEntry), NEW i \in 1 .. Len(l) + 1
    PROVE  /\ starts_of(l)[i] \in Nat
           /\ \A j \in 1 .. i - 1 : starts_of(l)[j] < starts_of(l)[i]
<1> DEFINE s == starts_of(l)
           Grows(m) == s[m] \in Nat /\ \A j \in 1 .. m - 1 : s[j] < s[m]
           Bad == {m \in 1 .. Len(l) + 1 : ~Grows(m)}
<1>1. /\ Len(l) \in Nat /\ s[1] = 0
      /\ \A m \in 2 .. Len(l) + 1 : s[m] = s[m - 1] + l[m - 1].size + SIZE_FIELD
  BY StartsRecur
<1> HIDE DEF s
<1> SUFFICES ASSUME Bad # {} PROVE FALSE
  <2>1. i \notin Bad => Grows(i)
    BY Zenon
  <2> QED
    BY <2>1, Zenon DEF s
<1>2. PICK m \in Bad : \A x \in Bad : m <= x
  <2>1. Bad \in SUBSET Nat
    OBVIOUS
  <2> QED
    BY <2>1, Least, Zenon
<1>3. m \in 1 .. Len(l) + 1 /\ m \in Nat /\ ~Grows(m)
  BY <1>1
<1>4. m # 1
  <2>1. Grows(1)
    BY <1>1
  <2> QED
    BY <1>3, <2>1, Zenon
<1>5. m - 1 \in 1 .. Len(l) /\ m - 1 \in 1 .. Len(l) + 1 /\ m \in 2 .. Len(l) + 1 /\ ~(m <= m - 1)
  BY <1>1, <1>3, <1>4
<1>6. Grows(m - 1)
  BY <1>2, <1>5, Zenon
<1>7. l[m - 1].size \in Nat
  <2>1. l[m - 1] \in MmapEntry
    BY <1>5
  <2> QED
    BY <2>1 DEF MmapEntry
<1>8. s[m] = s[m - 1] + l[m - 1].size + 4
  BY <1>1, <1>5 DEF SIZE_FIELD
<1>9. s[m] \in Nat /\ s[m - 1] < s[m]
  <2>1. s[m - 1] \in Nat
    BY <1>6
  <2> QED
    BY <1>7, <1>8, <2>1
<1>10. ASSUME NEW j \in 1 .. m - 1 PROVE s[j] < s[m]
  <2>1. CASE j = m - 1
    BY <1>9, <2>1
  <2>2. CASE j # m - 1
    <3>1. j \in 1 .. (m - 1) - 1
      BY <1>3, <2>2
    <3>2. s[j] < s[m - 1]
      BY <1>6, <3>1
    <3>3. s[j] \in Nat
      <4>1. j \in 1 .. Len(l) + 1 /\ ~(m <= j)
        BY <1>3
      <4>2. Grows(j)
        BY <1>2, <4>1, Zenon
      <4> QED
        BY <4>2
    <3> QED
      BY <1>6, <1>9, <3>2, <3>3
  <2> QED
    BY <2>1, <2>2
<1> QED
  BY <1>3, <1>9, <1>10

-----------------------------------------------------------------------------
(* One region.                                                             *)

(* The entries at hand, and the regions made of them, are well typed.      *)
LEMMA EntryTypes ==
    ASSUME NEW entry \in MmapEntry
    PROVE  /\ region_of(entry) \in Region /\ step(entry) \in Nat /\ step(entry) >= SIZE_FIELD
           /\ region_of(entry).available <=> entry.kind = 1
           /\ region_of(entry).base = entry.base_addr /\ region_of(entry).length = entry.length
<1>1. entry.kind \in Nat /\ entry.base_addr \in U64 /\ entry.length \in U64 /\ entry.size \in Nat
  BY MultibootAssumption DEF MmapEntry
<1>2. from_raw(entry.kind) = "Available" <=> entry.kind = 1
  <2>1. CASE entry.kind \in {1, 3, 4, 5}
    BY <2>1 DEF from_raw
  <2>2. CASE entry.kind \notin {1, 3, 4, 5}
    <3>1. from_raw(entry.kind) = "Reserved"
      BY <2>2 DEF from_raw
    <3> QED
      BY <2>2, <3>1
  <2> QED
    BY <2>1, <2>2
<1>3. region_of(entry).available <=> from_raw(entry.kind) = "Available"
  BY Zenon DEF region_of, is_available
<1>4. /\ region_of(entry).base = entry.base_addr /\ region_of(entry).length = entry.length
      /\ region_of(entry) \in Region
  BY <1>1 DEF region_of, Region, is_available
<1>5. step(entry) \in Nat /\ step(entry) >= SIZE_FIELD
  BY <1>1 DEF step, SIZE_FIELD
<1> QED
  BY <1>2, <1>3, <1>4, <1>5, Zenon

(* addressable_bytes counts the bytes of the region below LIMIT, however   *)
(* it lies to LIMIT and to the end of u64.                                 *)
LEMMA RegionBytes ==
    ASSUME NEW entry \in MmapEntry
    PROVE  /\ IsFiniteSet(AvailableBytes(entry))
           /\ Cardinality(AvailableBytes(entry))
                = IF region_of(entry).available THEN addressable_bytes(region_of(entry)) ELSE 0
           /\ addressable_bytes(region_of(entry)) \in U64
<1> DEFINE r == region_of(entry)
           bytes == AvailableBytes(entry)
<1>1. /\ r.base \in Nat /\ r.length \in Nat /\ r.base <= U64_MAX /\ r.length <= U64_MAX
      /\ LIMIT \in Nat /\ U64_MAX \in Nat /\ LIMIT <= U64_MAX
      /\ r.available <=> entry.kind = 1
      /\ r.base = entry.base_addr /\ r.length = entry.length
  BY EntryTypes, LimitAssumption DEF Region, U64
<1>2. bytes = {byte \in 0 .. LIMIT - 1 : r.available /\ r.base <= byte /\ byte < r.base + r.length}
  BY <1>1 DEF AvailableBytes
<1> HIDE DEF r, bytes
<1>3. r.base < LIMIT => clamped_end(r) \in Int /\ clamped_end(r) >= r.base
                        /\ clamped_end(r) <= LIMIT
                        /\ (clamped_end(r) = r.base + r.length \/
                            (clamped_end(r) = LIMIT /\ r.base + r.length >= LIMIT))
  BY <1>1 DEF clamped_end, saturating_add
<1>4. addressable_bytes(r) \in U64
  BY <1>1, <1>3 DEF addressable_bytes, U64
<1>5. CASE r.available /\ r.base < LIMIT
  <2>1. bytes = r.base .. clamped_end(r) - 1
    BY <1>1, <1>2, <1>3, <1>5
  <2>2. IsFiniteSet(bytes) /\ Cardinality(bytes) = clamped_end(r) - r.base
    <3>1. r.base \in Int /\ clamped_end(r) - 1 \in Int
      BY <1>1, <1>3, <1>5
    <3>2. /\ IsFiniteSet(bytes)
          /\ Cardinality(bytes)
               = IF r.base > clamped_end(r) - 1 THEN 0 ELSE (clamped_end(r) - 1) - r.base + 1
      BY <2>1, <3>1, FS_Interval, Zenon
    <3> QED
      BY <1>1, <1>3, <1>5, <3>2
  <2> QED
    BY <1>1, <1>4, <1>5, <2>2 DEF addressable_bytes, r, bytes
<1>6. CASE ~(r.available /\ r.base < LIMIT)
  <2>1. bytes = {}
    BY <1>1, <1>2, <1>6
  <2>2. IsFiniteSet(bytes) /\ Cardinality(bytes) = 0
    BY <2>1, FS_EmptySet, Zenon
  <2> QED
    BY <1>1, <1>4, <1>6, <2>2 DEF addressable_bytes, r, bytes
<1> QED
  BY <1>5, <1>6

-----------------------------------------------------------------------------
(* The invariant.                                                          *)

(* The bytes the first k entries report as available.                      *)
Reported(k) == UNION {AvailableBytes(layout[i]) : i \in 1 .. k}

(* The cursor is at the start of the entry after the last one returned, or *)
(* saturated because that start is beyond usize.                           *)
Cursor ==
    LET next == Starts[Len(yielded) + 1] IN
    offset = next \/ (offset = USIZE - 1 /\ next >= USIZE)

WInv ==
    /\ TypeOK
    /\ mmap_length <= Starts[Len(layout) + 1]
    /\ Len(yielded) <= Len(layout) /\ Cursor
    /\ \A i \in 1 .. Len(yielded) : i \in Complete /\ yielded[i] = region_of(layout[i])
    /\ Disjoint => usable_bytes = Cardinality(Reported(Len(yielded)))
    /\ pc = "printed" => ~whole_entry_left

(* What is known of the layout.                                            *)
LEMMA Layout ==
    ASSUME TypeOK
    PROVE  /\ layout \in Seq(MmapEntry) /\ Len(layout) \in Nat /\ DOMAIN layout = 1 .. Len(layout)
           /\ \A i \in 1 .. Len(layout) : layout[i] \in MmapEntry
           /\ mmap_length \in 0 .. USIZE - 1 /\ USIZE \in Nat
BY MultibootAssumption DEF TypeOK

(* The starts of the layout: offsets that grow by each entry's stride.     *)
LEMMA LayoutStarts ==
    ASSUME TypeOK
    PROVE  /\ Starts[1] = 0
           /\ \A i \in 1 .. Len(layout) + 1 : Starts[i] \in Nat
           /\ \A i, j \in 1 .. Len(layout) + 1 : i < j => Starts[i] < Starts[j]
           /\ \A i \in 1 .. Len(layout) : Starts[i + 1] = Starts[i] + step(layout[i])
<1>1. layout \in Seq(MmapEntry) /\ Len(layout) \in Nat
  BY Layout
<1>2. /\ starts_of(layout)[1] = 0
      /\ \A i \in 2 .. Len(layout) + 1 :
            starts_of(layout)[i] = starts_of(layout)[i - 1] + layout[i - 1].size + SIZE_FIELD
  BY <1>1, StartsRecur, Zenon
<1>3. \A i \in 1 .. Len(layout) + 1 :
         /\ starts_of(layout)[i] \in Nat
         /\ \A j \in 1 .. i - 1 : starts_of(layout)[j] < starts_of(layout)[i]
  BY <1>1, StartsGrow
<1>4. ASSUME NEW i \in 1 .. Len(layout) PROVE Starts[i + 1] = Starts[i] + step(layout[i])
  <2>1. i + 1 \in 2 .. Len(layout) + 1 /\ (i + 1) - 1 = i /\ i \in 1 .. Len(layout) + 1
    BY <1>1
  <2>2. Starts[i + 1] = Starts[i] + layout[i].size + 4
    BY <1>2, <2>1 DEF Starts, SIZE_FIELD
  <2>3. layout[i].size \in Nat /\ Starts[i] \in Nat
    BY <1>3, <2>1, Layout, MultibootAssumption DEF MmapEntry, Starts
  <2> QED
    BY <2>2, <2>3 DEF step, SIZE_FIELD
<1>5. ASSUME NEW i \in 1 .. Len(layout) + 1, NEW j \in 1 .. Len(layout) + 1, i < j
      PROVE  Starts[i] < Starts[j]
  <2>1. i \in 1 .. j - 1
    BY <1>1, <1>5
  <2> QED
    BY <1>3, <2>1 DEF Starts
<1> QED
  BY <1>2, <1>3, <1>4, <1>5 DEF Starts

(* While a whole entry is left, the cursor is on the next entry of the     *)
(* layout, and that is the one read.                                       *)
LEMMA AtEntry ==
    ASSUME WInv, whole_entry_left
    PROVE  LET n == Len(yielded) + 1 IN
           /\ n \in 1 .. Len(layout) /\ offset = Starts[n] /\ n \in Complete
           /\ entries_at(offset) = {layout[n]}
<1> DEFINE n == Len(yielded) + 1
<1>1. TypeOK
  BY DEF WInv
<1> USE <1>1, Layout, LayoutStarts
<1>2. Len(yielded) \in Nat /\ n \in 1 .. Len(layout) + 1 /\ offset \in Nat
  BY DEF WInv, TypeOK
<1>3. offset + 24 <= mmap_length
  BY <1>2 DEF whole_entry_left, ENTRY_SIZE
<1>4. offset = Starts[n]
  BY <1>2, <1>3 DEF WInv, Cursor
<1>5. n # Len(layout) + 1
  BY <1>3, <1>4 DEF WInv
<1>6. n \in 1 .. Len(layout)
  BY <1>2, <1>5
<1>7. n \in Complete
  BY <1>3, <1>4, <1>6 DEF Complete, ENTRY_SIZE
<1>8. {i \in DOMAIN layout : Starts[i] = offset} = {n}
  <2>1. ASSUME NEW i \in DOMAIN layout, Starts[i] = offset PROVE i = n
    <3>1. i \in 1 .. Len(layout) + 1 /\ Starts[i] \in Nat
      OBVIOUS
    <3>2. ~(i < n) /\ ~(n < i)
      BY <1>2, <1>4, <2>1, <3>1, SMTT(20)
    <3> QED
      BY <1>2, <3>1, <3>2
  <2> QED
    BY <1>4, <1>6, <2>1
<1>9. entries_at(offset) = {layout[n]}
  BY <1>8 DEF entries_at
<1> QED
  BY <1>4, <1>6, <1>7, <1>9

-----------------------------------------------------------------------------
(* One step.                                                               *)

(* In either profile the cursor, the total and the regions stay in range.  *)
LEMMA TypeStep == TypeOK /\ [Next]_vars => TypeOK'
<1> SUFFICES ASSUME TypeOK, [Next]_vars PROVE TypeOK'
  OBVIOUS
<1>1. CASE UNCHANGED vars
  BY <1>1 DEF vars, TypeOK
<1>2. CASE MemoryMap \/ EndOfMap
  BY <1>2 DEF MemoryMap, EndOfMap, TypeOK
<1>3. CASE NextRegion
  <2>1. PICK entry \in entries_at(offset) :
           \/ /\ pc' = "panicked" /\ UNCHANGED <<offset, yielded, usable_bytes>>
           \/ /\ offset' = advance(step(entry) % USIZE)
              /\ yielded' \in {Append(yielded, region_of(entry)), yielded}
              /\ usable_bytes' \in {(usable_bytes + addressable_bytes(region_of(entry))) % (U64_MAX + 1),
                                    usable_bytes}
              /\ UNCHANGED pc
    BY <1>3 DEF NextRegion
  <2>2. entry \in MmapEntry
    BY Layout, MultibootAssumption DEF entries_at
  <2>3. UNCHANGED <<flags, mmap_length, layout>>
    BY <1>3 DEF NextRegion
  <2>4. CASE pc' = "panicked" /\ UNCHANGED <<offset, yielded, usable_bytes>>
    BY <2>3, <2>4 DEF TypeOK
  <2>5. CASE /\ offset' = advance(step(entry) % USIZE)
             /\ yielded' \in {Append(yielded, region_of(entry)), yielded}
             /\ usable_bytes' \in {(usable_bytes + addressable_bytes(region_of(entry))) % (U64_MAX + 1),
                                   usable_bytes}
             /\ UNCHANGED pc
    <3>1. /\ region_of(entry) \in Region /\ step(entry) \in Nat
          /\ addressable_bytes(region_of(entry)) \in U64
      BY <2>2, EntryTypes, RegionBytes
    <3>2. USIZE \in Nat /\ USIZE > 0 /\ step(entry) % USIZE \in Nat
      BY <3>1, MultibootAssumption DEF ENTRY_SIZE
    <3>3. offset' \in 0 .. USIZE - 1
      BY <2>5, <3>2 DEF advance, TypeOK
    <3>4. yielded' \in Seq(Region)
      BY <2>5, <3>1 DEF TypeOK
    <3>5. usable_bytes' \in U64
      BY <2>5, <3>1, LimitAssumption DEF U64, TypeOK
    <3> QED
      BY <2>3, <2>5, <3>3, <3>4, <3>5 DEF TypeOK
  <2> QED
    BY <2>1, <2>4, <2>5
<1> QED
  BY <1>1, <1>2, <1>3 DEF Next

(* The step of the walk, with the entry it takes.                          *)
LEMMA TakesEntry ==
    ASSUME NoWrap, HistoryKeepsAll, WInv, NextRegion, pc' # "panicked"
    PROVE  LET entry == layout[Len(yielded) + 1] IN
           /\ step(entry) < USIZE /\ offset' = advance(step(entry))
           /\ yielded' = Append(yielded, region_of(entry))
           /\ usable_bytes' = IF region_of(entry).available
                              THEN (usable_bytes + addressable_bytes(region_of(entry))) % (U64_MAX + 1)
                              ELSE usable_bytes
           /\ UNCHANGED <<flags, mmap_length, layout, pc>>
<1> DEFINE n == Len(yielded) + 1
           entry == layout[n]
<1>1. /\ whole_entry_left /\ UNCHANGED <<flags, mmap_length, layout>>
      /\ \E e \in entries_at(offset) :
           /\ ~DEV_PROFILE \/ step(e) < USIZE
           /\ offset' = advance(step(e) % USIZE)
           /\ yielded' = IF Len(yielded) < MAX_YIELDED THEN Append(yielded, region_of(e)) ELSE yielded
           /\ usable_bytes' = IF region_of(e).available
                              THEN (usable_bytes + addressable_bytes(region_of(e))) % (U64_MAX + 1)
                              ELSE usable_bytes
           /\ UNCHANGED pc
  BY DEF NextRegion
<1>2. n \in 1 .. Len(layout) /\ entries_at(offset) = {entry}
  BY <1>1, AtEntry
<1>3. TypeOK /\ layout \in Layouts
  BY DEF WInv, TypeOK
<1> HIDE DEF n, entry
<1>4. step(entry) < USIZE
  <2>1. n \in DOMAIN layout
    BY <1>2, <1>3, Layout
  <2>2. ~DEV_PROFILE \/ step(entry) < USIZE
    BY <1>1, <1>2
  <2> QED
    BY <1>3, <2>1, <2>2, Zenon DEF NoWrap, entry
<1>5. step(entry) % USIZE = step(entry)
  <2>1. step(entry) \in Nat
    BY <1>2, <1>3, Layout, EntryTypes DEF entry
  <2> QED
    BY <1>4, <2>1, MultibootAssumption
<1>6. Len(yielded) < MAX_YIELDED
  <2>1. /\ Len(layout) <= MAX_YIELDED /\ Len(layout) \in Nat /\ Len(yielded) \in Nat
        /\ MAX_YIELDED \in Nat
    BY <1>3, Layout, MultibootAssumption DEF HistoryKeepsAll, TypeOK
  <2> QED
    BY <1>2, <2>1 DEF n
<1> QED
  BY <1>1, <1>2, <1>4, <1>5, <1>6 DEF entry, n

(* The bytes reported so far, and with one entry more.                     *)
LEMMA ReportedGrows ==
    ASSUME TypeOK, NEW k \in Nat, k + 1 \in 1 .. Len(layout), Disjoint, 1 .. k + 1 \subseteq Complete
    PROVE  /\ Cardinality(Reported(k + 1)) = Cardinality(Reported(k)) + Cardinality(AvailableBytes(layout[k + 1]))
           /\ Cardinality(Reported(k)) \in Nat /\ Cardinality(Reported(k + 1)) \in Nat
           /\ Cardinality(Reported(k + 1)) <= U64_MAX
<1> DEFINE new == AvailableBytes(layout[k + 1])
<1>1. Reported(k + 1) = Reported(k) \cup new
  <2>1. 1 .. k + 1 = (1 .. k) \cup {k + 1}
    OBVIOUS
  <2> QED
    BY <2>1, Zenon DEF Reported
<1>2. Reported(k) \cap new = {}
  <2>1. ASSUME NEW i \in 1 .. k PROVE AvailableBytes(layout[i]) \cap new = {}
    <3>1. i # k + 1 /\ i \in Complete /\ k + 1 \in Complete
      OBVIOUS
    <3> QED
      BY <3>1, Zenon DEF Disjoint
  <2> QED
    BY <2>1, Zenon DEF Reported
<1>3. Reported(k + 1) \subseteq 0 .. LIMIT - 1
  BY Zenon DEF Reported, AvailableBytes
<1>4. /\ IsFiniteSet(0 .. LIMIT - 1) /\ Cardinality(0 .. LIMIT - 1) = LIMIT
      /\ LIMIT \in Nat /\ U64_MAX \in Nat /\ LIMIT <= U64_MAX
  <2>1. LIMIT \in Nat \ {0} /\ 0 \in Int /\ LIMIT - 1 \in Int
    BY LimitAssumption
  <2>2. /\ IsFiniteSet(0 .. LIMIT - 1)
        /\ Cardinality(0 .. LIMIT - 1) = IF 0 > LIMIT - 1 THEN 0 ELSE (LIMIT - 1) - 0 + 1
    BY <2>1, FS_Interval, Zenon
  <2> QED
    BY <2>1, <2>2, LimitAssumption
<1>5. IsFiniteSet(Reported(k + 1)) /\ Cardinality(Reported(k + 1)) <= LIMIT
  BY <1>3, <1>4, FS_Subset
<1>6. IsFiniteSet(Reported(k)) /\ IsFiniteSet(new)
  <2>1. Reported(k) \in SUBSET Reported(k + 1) /\ new \in SUBSET Reported(k + 1)
    BY <1>1, Zenon
  <2> QED
    BY <1>5, <2>1, FS_Subset, Zenon
<1>7. Cardinality(Reported(k) \cap new) = 0
  BY <1>2, FS_EmptySet, Zenon
<1>8. Cardinality(Reported(k + 1))
        = Cardinality(Reported(k)) + Cardinality(new) - Cardinality(Reported(k) \cap new)
  BY <1>1, <1>6, FS_Union, Zenon
<1>9. /\ Cardinality(Reported(k)) \in Nat /\ Cardinality(new) \in Nat
      /\ Cardinality(Reported(k + 1)) \in Nat
  BY <1>5, <1>6, FS_CardinalityType, Zenon
<1>10. Cardinality(Reported(k + 1)) = Cardinality(Reported(k)) + Cardinality(new)
  <2> DEFINE a == Cardinality(Reported(k + 1))
             b == Cardinality(Reported(k))
             c == Cardinality(new)
  <2>1. a = b + c - 0 /\ b \in Nat /\ c \in Nat
    BY <1>7, <1>8, <1>9, Zenon
  <2> HIDE DEF a, b, c
  <2>2. a = b + c
    BY <2>1
  <2> QED
    BY <2>2 DEF a, b, c
<1>11. Cardinality(Reported(k + 1)) <= U64_MAX
  BY <1>4, <1>5, <1>9
<1> QED
  BY <1>9, <1>10, <1>11, Zenon

(* The layout and what derives from it stay as they are.                   *)
LEMMA LayoutKept ==
    ASSUME UNCHANGED <<layout, mmap_length>>
    PROVE  /\ Starts' = Starts /\ Complete' = Complete /\ (Disjoint' <=> Disjoint)
           /\ (WellFormed' <=> WellFormed)
           /\ \A k : Reported(k)' = Reported(k)
<1>1. Starts' = Starts
  BY DEF Starts
<1>2. Complete' = Complete
  BY <1>1 DEF Complete
<1>3. Disjoint' <=> Disjoint
  BY <1>2 DEF Disjoint
<1> QED
  BY <1>1, <1>2, <1>3 DEF Reported, WellFormed

(* A region taken.                                                         *)
LEMMA TakeStep ==
    ASSUME NoWrap, HistoryKeepsAll, WInv, NextRegion, pc' # "panicked", TypeOK'
    PROVE  WInv'
<1> DEFINE n == Len(yielded) + 1
           entry == layout[n]
<1>1. TypeOK /\ whole_entry_left /\ pc = "walk" /\ yielded \in Seq(Region) /\ Len(yielded) \in Nat
  BY DEF NextRegion, WInv, TypeOK
<1>2. n \in 1 .. Len(layout) /\ offset = Starts[n] /\ n \in Complete /\ entry \in MmapEntry
  BY <1>1, AtEntry, Layout
<1>3. /\ offset' = advance(step(entry))
      /\ yielded' = Append(yielded, region_of(entry))
      /\ usable_bytes' = IF region_of(entry).available
                         THEN (usable_bytes + addressable_bytes(region_of(entry))) % (U64_MAX + 1)
                         ELSE usable_bytes
      /\ UNCHANGED <<mmap_length, layout, pc>>
  BY TakesEntry
<1>4. /\ Starts' = Starts /\ Complete' = Complete /\ (Disjoint' <=> Disjoint)
      /\ \A k : Reported(k)' = Reported(k)
  BY <1>3, LayoutKept
<1>5. /\ Len(yielded') = n /\ yielded'[n] = region_of(entry)
      /\ \A i \in 1 .. Len(yielded) : yielded'[i] = yielded[i]
  BY <1>1, <1>3
<1>6. (mmap_length <= Starts[Len(layout) + 1])' /\ (Len(yielded) <= Len(layout))'
  BY <1>2, <1>3, <1>4, <1>5 DEF WInv
<1>7. Cursor'
  <2>1. Starts[n + 1] = offset + step(entry)
    BY <1>1, <1>2, LayoutStarts, Zenon
  <2>2. step(entry) \in Nat /\ offset \in Nat /\ USIZE \in Nat
    BY <1>1, <1>2, EntryTypes, MultibootAssumption, SMTT(20) DEF TypeOK
  <2>3. offset' = Starts[n + 1] \/ (offset' = USIZE - 1 /\ Starts[n + 1] >= USIZE)
    BY <1>3, <2>1, <2>2 DEF advance
  <2> QED
    BY <1>4, <1>5, <2>3 DEF Cursor
<1>8. (\A i \in 1 .. Len(yielded) : i \in Complete /\ yielded[i] = region_of(layout[i]))'
  <2>1. ASSUME NEW i \in 1 .. n PROVE i \in Complete /\ yielded'[i] = region_of(layout[i])
    BY <1>2, <1>5 DEF WInv
  <2> QED
    BY <1>3, <1>4, <1>5, <2>1 DEF region_of
<1>9. ASSUME Disjoint PROVE usable_bytes' = Cardinality(Reported(n))
  <2>1. usable_bytes = Cardinality(Reported(Len(yielded))) /\ 1 .. n \subseteq Complete
    BY <1>2, <1>9 DEF WInv
  <2>2. /\ Cardinality(Reported(n)) = Cardinality(Reported(Len(yielded))) + Cardinality(AvailableBytes(entry))
        /\ Cardinality(Reported(n)) <= U64_MAX
        /\ Cardinality(Reported(Len(yielded))) \in Nat /\ Cardinality(Reported(n)) \in Nat
    BY <1>1, <1>2, <1>9, <2>1, ReportedGrows, Zenon
  <2>3. /\ Cardinality(AvailableBytes(entry))
             = IF region_of(entry).available THEN addressable_bytes(region_of(entry)) ELSE 0
        /\ addressable_bytes(region_of(entry)) \in Nat
    BY <1>2, RegionBytes, LimitAssumption DEF U64
  <2> DEFINE b == addressable_bytes(region_of(entry))
             total == Cardinality(Reported(n))
  <2>4. CASE region_of(entry).available
    <3>1. usable_bytes' = (usable_bytes + b) % (U64_MAX + 1) /\ total = usable_bytes + b
      BY <1>3, <2>1, <2>2, <2>3, <2>4
    <3>2. total \in Nat /\ total <= U64_MAX /\ U64_MAX \in Nat
      BY <2>2, LimitAssumption
    <3>3. usable_bytes' = total % (U64_MAX + 1)
      BY <3>1
    <3> HIDE DEF total
    <3>4. usable_bytes' = total
      BY <3>2, <3>3
    <3> QED
      BY <3>4 DEF total
  <2>5. CASE ~region_of(entry).available
    BY <1>3, <2>1, <2>2, <2>3, <2>5
  <2> QED
    BY <2>4, <2>5
<1>10. (Disjoint => usable_bytes = Cardinality(Reported(Len(yielded))))'
  <2>1. Reported(Len(yielded))' = Reported(n)
    BY <1>3, <1>5 DEF Reported
  <2> QED
    BY <1>4, <1>9, <2>1
<1> QED
  BY <1>1, <1>3, <1>6, <1>7, <1>8, <1>10 DEF WInv

LEMMA StepWInv ==
    ASSUME NoWrap, HistoryKeepsAll
    PROVE  WInv /\ [Next]_vars => WInv'
<1> SUFFICES ASSUME WInv, [Next]_vars PROVE WInv'
  OBVIOUS
<1>1. TypeOK'
  BY TypeStep DEF WInv
<1>2. ASSUME UNCHANGED <<mmap_length, layout, offset, yielded, usable_bytes>>,
             pc' = "printed" => ~whole_entry_left
      PROVE  WInv'
  <2>1. /\ Starts' = Starts /\ Complete' = Complete /\ (Disjoint' <=> Disjoint)
        /\ \A k : Reported(k)' = Reported(k)
    BY <1>2, LayoutKept
  <2>2. Cursor' /\ (pc = "printed" => ~whole_entry_left)'
    BY <1>2, <2>1 DEF WInv, Cursor, whole_entry_left
  <2>3. (Disjoint => usable_bytes = Cardinality(Reported(Len(yielded))))'
    <3>1. Reported(Len(yielded))' = Reported(Len(yielded))
      BY <1>2 DEF Reported
    <3> QED
      BY <1>2, <2>1, <3>1 DEF WInv
  <2>4. (\A i \in 1 .. Len(yielded) : i \in Complete /\ yielded[i] = region_of(layout[i]))'
    BY <1>2, <2>1 DEF WInv, region_of
  <2> QED
    BY <1>1, <1>2, <2>1, <2>2, <2>3, <2>4 DEF WInv
<1>3. CASE UNCHANGED vars
  BY <1>2, <1>3 DEF vars, WInv
<1>4. CASE MemoryMap \/ EndOfMap
  BY <1>2, <1>4 DEF MemoryMap, EndOfMap, WInv
<1>5. CASE NextRegion
  <2>1. CASE pc' = "panicked"
    <3>1. UNCHANGED <<mmap_length, layout>> /\ pc = "walk"
      BY <1>5 DEF NextRegion
    <3>2. UNCHANGED <<offset, yielded, usable_bytes>>
      BY <1>5, <2>1, <3>1 DEF NextRegion
    <3> QED
      BY <1>2, <2>1, <3>1, <3>2
  <2>2. CASE pc' # "panicked"
    BY <1>1, <1>5, <2>2, TakeStep
  <2> QED
    BY <2>1, <2>2
<1> QED
  BY <1>3, <1>4, <1>5 DEF Next

LEMMA InitWInv == Init => WInv
<1> SUFFICES ASSUME Init PROVE WInv
  OBVIOUS
<1>1. TypeOK
  <2>1. USIZE \in Nat /\ USIZE > 0 /\ U64_MAX \in Nat
    BY MultibootAssumption, LimitAssumption DEF ENTRY_SIZE
  <2> QED
    BY <2>1 DEF Init, TypeOK, U64
<1>2. Len(yielded) = 0 /\ offset = Starts[1] /\ Len(layout) \in Nat /\ pc = "start"
  BY <1>1, Layout, LayoutStarts DEF Init
<1>3. usable_bytes = Cardinality(Reported(0))
  <2>1. Reported(0) = {}
    BY DEF Reported
  <2> QED
    BY <2>1, FS_EmptySet, Zenon DEF Init
<1> QED
  BY <1>1, <1>2, <1>3 DEF WInv, Cursor, Init

-----------------------------------------------------------------------------
(* The end of the walk.                                                    *)

(* At the end exactly the complete entries have been returned.             *)
LEMMA AllTaken ==
    ASSUME WInv, pc = "printed"
    PROVE  Complete = 1 .. Len(yielded) /\ Len(yielded) \in Nat
<1>1. TypeOK /\ Len(yielded) \in Nat /\ Len(yielded) <= Len(layout) /\ ~whole_entry_left /\ Cursor
  BY DEF WInv, TypeOK
<1>2. ASSUME NEW i \in Complete PROVE i \in 1 .. Len(yielded)
  <2> DEFINE n == Len(yielded) + 1
  <2>1. /\ Len(layout) \in Nat /\ DOMAIN layout = 1 .. Len(layout)
        /\ mmap_length \in 0 .. USIZE - 1 /\ USIZE \in Nat
    BY <1>1, Layout
  <2>2. i \in 1 .. Len(layout) /\ Starts[i] + 24 <= mmap_length
    BY <2>1 DEF Complete, ENTRY_SIZE
  <2>3. n \in 1 .. Len(layout) + 1 /\ i \in 1 .. Len(layout) + 1
    BY <1>1, <2>1, <2>2
  <2>4. /\ Starts[n] \in Nat /\ Starts[i] \in Nat
        /\ n < i => Starts[n] < Starts[i]
    BY <1>1, <2>3, LayoutStarts
  <2>5. SUFFICES ASSUME i >= n PROVE FALSE
    BY <1>1, <2>2
  <2> HIDE DEF n
  <2>6. Starts[n] <= Starts[i]
    <3>1. CASE i = n
      BY <2>4, <3>1
    <3>2. CASE n < i
      BY <2>4, <3>2
    <3> QED
      BY <2>3, <2>5, <3>1, <3>2
  <2>7. CASE offset = Starts[n]
    BY <1>1, <2>1, <2>2, <2>4, <2>6, <2>7 DEF whole_entry_left, ENTRY_SIZE
  <2>8. CASE Starts[n] >= USIZE
    BY <2>1, <2>2, <2>4, <2>6, <2>8
  <2> QED
    BY <1>1, <2>7, <2>8 DEF Cursor, n
<1>3. ASSUME NEW i \in 1 .. Len(yielded) PROVE i \in Complete
  BY DEF WInv
<1> QED
  BY <1>1, <1>2, <1>3, Zenon

-----------------------------------------------------------------------------
(* The theorems.                                                           *)

(* The cursor and the total stay in the range of their types and every     *)
(* region returned is well formed, in both build profiles and whatever the *)
(* loader wrote (next, print_memory_map).                                  *)
THEOREM Type_Correct == Spec => []TypeOK
<1>1. Init => TypeOK
  BY InitWInv DEF WInv
<1> QED
  BY <1>1, TypeStep, PTL DEF Spec

LEMMA Invariance ==
    ASSUME NoWrap, HistoryKeepsAll
    PROVE  Spec => []WInv
<1>1. WInv /\ [Next]_vars => WInv'
  BY StepWInv
<1> QED
  BY InitWInv, <1>1, PTL DEF Spec

(* Where the sum size + 4 does not wrap, the walk returns every complete   *)
(* entry, in order and nothing else (MemoryMap::next).                     *)
THEOREM Walk_Yields_Layout ==
    ASSUME NoWrap, HistoryKeepsAll
    PROVE  Spec => []WalkYieldsLayout
<1>1. ASSUME WInv, pc = "printed"
      PROVE  /\ Len(yielded) = Cardinality(Complete)
             /\ \A i \in Complete : /\ yielded[i].base = layout[i].base_addr
                                    /\ yielded[i].length = layout[i].length
                                    /\ yielded[i].available <=> layout[i].kind = 1
  <2>1. Complete = 1 .. Len(yielded) /\ Len(yielded) \in Nat
    BY <1>1, AllTaken
  <2>2. Cardinality(1 .. Len(yielded)) = Len(yielded)
    <3>1. 1 \in Int /\ Len(yielded) \in Int
      BY <2>1
    <3>2. Cardinality(1 .. Len(yielded)) = IF 1 > Len(yielded) THEN 0 ELSE Len(yielded) - 1 + 1
      BY <3>1, FS_Interval, Zenon
    <3> QED
      BY <2>1, <3>2
  <2>3. ASSUME NEW i \in Complete
        PROVE  /\ yielded[i].base = layout[i].base_addr
               /\ yielded[i].length = layout[i].length
               /\ yielded[i].available <=> layout[i].kind = 1
    <3>1. yielded[i] = region_of(layout[i]) /\ layout[i] \in MmapEntry
      BY <1>1, <2>1, Layout DEF WInv, Complete
    <3> QED
      BY <3>1, EntryTypes, Zenon
  <2> QED
    BY <2>1, <2>2, <2>3, Zenon
<1>2. WInv => WalkYieldsLayout
  BY <1>1, Zenon DEF WalkYieldsLayout
<1> QED
  BY Invariance, <1>2, PTL

(* The printed total is the number of addressable bytes reported as        *)
(* available, however the regions lie to 4 GiB and to the end of u64       *)
(* (print_memory_map, addressable_bytes).                                  *)
THEOREM Usable_Is_Available_Bytes ==
    ASSUME NoWrap, HistoryKeepsAll
    PROVE  Spec => []UsableIsAvailableBytes
<1>1. ASSUME WInv, Disjoint, pc = "printed"
      PROVE  usable_bytes = Cardinality(UNION {AvailableBytes(layout[i]) : i \in Complete})
  <2>1. Complete = 1 .. Len(yielded)
    BY <1>1, AllTaken
  <2> QED
    BY <1>1, <2>1, Zenon DEF WInv, Reported
<1>2. WInv => UsableIsAvailableBytes
  BY <1>1, Zenon DEF UsableIsAvailableBytes
<1> QED
  BY Invariance, <1>2, PTL

(* Every region returned moves the cursor on, saturated or not: the walk   *)
(* cannot go on for ever (MemoryMap::next).                                *)
THEOREM Walk_Advances ==
    ASSUME NoWrap, HistoryKeepsAll
    PROVE  Spec => WalkAdvances
<1> DEFINE Advances == pc = "walk" /\ pc' = "walk" => offset' > offset
<1>1. ASSUME WInv, [Next]_vars PROVE [Advances]_vars
  <2>1. SUFFICES ASSUME NextRegion, pc' = "walk" PROVE offset' > offset
    BY <1>1 DEF Next, MemoryMap, EndOfMap
  <2>2. TypeOK /\ whole_entry_left
    BY <1>1, <2>1 DEF NextRegion, WInv
  <2> DEFINE entry == layout[Len(yielded) + 1]
  <2>3. entry \in MmapEntry
    BY <1>1, <2>2, AtEntry, Layout
  <2>4. step(entry) \in Nat /\ step(entry) >= 4
    BY <2>3, EntryTypes DEF SIZE_FIELD
  <2>5. offset' = advance(step(entry))
    BY <1>1, <2>1, TakesEntry
  <2>6. /\ offset \in Nat /\ offset + 24 <= mmap_length /\ mmap_length <= USIZE - 1
        /\ USIZE \in Nat /\ mmap_length \in Nat
    BY <2>2, Layout DEF whole_entry_left, ENTRY_SIZE, TypeOK
  <2> HIDE DEF entry
  <2> QED
    BY <2>4, <2>5, <2>6 DEF advance
<1> QED
  BY Invariance, <1>1, PTL DEF Spec, WalkAdvances
=============================================================================
