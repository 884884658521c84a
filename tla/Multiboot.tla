----------------------------- MODULE Multiboot -----------------------------
(***************************************************************************)
(* The walk over the raw Multiboot memory map (src/multiboot.rs), as       *)
(* print_memory_map drives it: one action per entry.  The loader packs     *)
(* entries of their own size one after another, and may cut the last one   *)
(* off; an entry read from where none starts holds stray values.           *)
(***************************************************************************)
EXTENDS MemoryRegion, Sequences, FiniteSets

CONSTANTS USIZE,         \* values a usize can take: 2^32
          Layouts,       \* sequences of raw entries the loader may write
          Lengths,       \* values of mmap_length
          MAX_YIELDED,   \* regions the history keeps
          Strays,        \* raw entries read from the middle of others
          DEV_PROFILE    \* TRUE: overflow panics; FALSE: it wraps (release)

ENTRY_SIZE == 24         \* size_of::<MmapEntry>()
SIZE_FIELD == 4          \* size_of::<u32>()
FLAG_MMAP == 6

MmapEntry == [size : 0 .. USIZE - 1, base_addr : U64, length : U64, kind : Nat]

ASSUME MultibootAssumption ==
    /\ USIZE \in Nat /\ ENTRY_SIZE < USIZE /\ DEV_PROFILE \in BOOLEAN
    /\ Layouts \subseteq Seq(MmapEntry) /\ Strays \subseteq MmapEntry
    /\ Lengths \subseteq 0 .. USIZE - 1 /\ MAX_YIELDED \in Nat

VARIABLES flags,         \* MultibootInfo.flags, as the set of its one bits
          mmap_length,   \* bytes in the buffer
          layout,        \* what the loader wrote
          offset,        \* MemoryMap.offset
          yielded,       \* the first regions the iterator returned (history)
          usable_bytes,
          pc

vars == <<flags, mmap_length, layout, offset, yielded, usable_bytes, pc>>

(* Where each entry of a layout starts, and where the last one ends.       *)
starts_of(entries) ==
    LET at[i \in 1 .. Len(entries) + 1] ==
          IF i = 1 THEN 0 ELSE at[i - 1] + entries[i - 1].size + SIZE_FIELD
    IN  at

Starts == starts_of(layout)

(* read_unaligned at the cursor.                                           *)
entries_at(o) ==
    LET here == {i \in DOMAIN layout : Starts[i] = o} IN
    IF here = {} THEN Strays ELSE {layout[i] : i \in here}

from_raw(raw) ==
    CASE raw = 1 -> "Available"
      [] raw = 3 -> "AcpiReclaimable"
      [] raw = 4 -> "AcpiNvs"
      [] raw = 5 -> "Defective"
      [] OTHER   -> "Reserved"

(* Faulty: only the kind "reserved" is kept from the allocator.            *)
is_available_unless_reserved(kind) == kind # "Reserved"

is_available(kind) == kind = "Available"

region_of(entry) == [base |-> entry.base_addr, length |-> entry.length,
                     available |-> is_available(from_raw(entry.kind))]

(* Faulty: an entry at the very end of the buffer is taken for a cut one.  *)
whole_entry_strictly_left == offset + ENTRY_SIZE < mmap_length

(* buf.get(offset..)?.get(..size_of::<MmapEntry>()).                       *)
whole_entry_left == offset <= mmap_length /\ ENTRY_SIZE <= mmap_length - offset

step(entry) == entry.size + SIZE_FIELD

(* Faulty: the sum does not saturate.                                      *)
advance_unsaturated(by) == offset + by

(* Faulty: a sum that overflows leaves the cursor where it is.             *)
advance_checked(by) == IF offset + by < USIZE THEN offset + by ELSE offset

(* offset.saturating_add(size + 4).                                        *)
advance(by) == IF offset + by < USIZE THEN offset + by ELSE USIZE - 1

Init ==
    /\ flags \in {{0}, {0, FLAG_MMAP}}
    /\ layout \in Layouts /\ mmap_length \in {n \in Lengths : n <= Starts[Len(layout) + 1]}
    /\ offset = 0 /\ yielded = <<>> /\ usable_bytes = 0
    /\ pc = "start"

(* memory_map: the fields of the map are valid only with the flag set.     *)
MemoryMap ==
    /\ pc = "start"
    /\ pc' = IF FLAG_MMAP \in flags THEN "walk" ELSE "no_map"
    /\ UNCHANGED <<flags, mmap_length, layout, offset, yielded, usable_bytes>>

(* Iterator::next.  The sum size + 4 is an ordinary one: it panics in the  *)
(* dev profile when it overflows, and wraps in release.  Then the body of  *)
(* the loop of print_memory_map.                                           *)
NextRegion ==
    /\ pc = "walk" /\ whole_entry_left
    /\ \E entry \in entries_at(offset) :
       \/ /\ DEV_PROFILE /\ step(entry) >= USIZE
          /\ pc' = "panicked"
          /\ UNCHANGED <<offset, yielded, usable_bytes>>
       \/ /\ ~DEV_PROFILE \/ step(entry) < USIZE
          /\ offset' = advance(step(entry) % USIZE)
          /\ LET region == region_of(entry) IN
             /\ yielded' = IF Len(yielded) < MAX_YIELDED THEN Append(yielded, region) ELSE yielded
             /\ usable_bytes' = IF region.available
                                THEN (usable_bytes + addressable_bytes(region)) % (U64_MAX + 1)
                                ELSE usable_bytes
          /\ UNCHANGED pc
    /\ UNCHANGED <<flags, mmap_length, layout>>

(* next returns None; the total is printed.                                *)
EndOfMap ==
    /\ pc = "walk" /\ ~whole_entry_left
    /\ pc' = "printed"
    /\ UNCHANGED <<flags, mmap_length, layout, offset, yielded, usable_bytes>>

Next == MemoryMap \/ NextRegion \/ EndOfMap

(* Boot code runs to its end: nothing else runs.                           *)
Spec == Init /\ [][Next]_vars /\ WF_vars(Next)

-----------------------------------------------------------------------------
(* Properties.                                                             *)

TypeOK ==
    /\ mmap_length \in Lengths /\ layout \in Layouts
    /\ offset \in 0 .. USIZE - 1 /\ usable_bytes \in U64
    /\ yielded \in Seq(Region)
    /\ pc \in {"start", "walk", "no_map", "printed", "panicked"}

(* No entry is smaller than the fields it must have.                       *)
WellFormed == \A i \in DOMAIN layout : layout[i].size + SIZE_FIELD >= ENTRY_SIZE

(* The entries the loader wrote that are wholly in the buffer.             *)
Complete == {i \in DOMAIN layout : Starts[i] + ENTRY_SIZE <= mmap_length}

(* The walk returns every complete entry, in order and nothing else,       *)
(* whatever the sizes of the entries, wherever the buffer ends and         *)
(* whichever of an entry's trailing bytes are cut off (next: "once a       *)
(* truncated tail ... leaves too few").                                    *)
WalkYieldsLayout ==
    WellFormed /\ pc = "printed" =>
        /\ Len(yielded) = Cardinality(Complete)
        /\ \A i \in Complete : /\ yielded[i].base = layout[i].base_addr
                               /\ yielded[i].length = layout[i].length
                               /\ yielded[i].available <=> layout[i].kind = 1

(* The addressable bytes an entry reports as available RAM.                *)
AvailableBytes(entry) ==
    {byte \in 0 .. LIMIT - 1 : /\ entry.kind = 1 /\ entry.base_addr <= byte
                               /\ byte < entry.base_addr + entry.length}

(* No byte is reported as available twice.                                 *)
Disjoint == \A i, j \in Complete :
                i # j => AvailableBytes(layout[i]) \cap AvailableBytes(layout[j]) = {}

(* The printed total is the number of addressable bytes that the complete  *)
(* entries report as available RAM, for regions that cross 4 GiB, lie      *)
(* above it or overflow u64 as well (print_memory_map, addressable_bytes). *)
UsableIsAvailableBytes ==
    WellFormed /\ Disjoint /\ pc = "printed" =>
        usable_bytes = Cardinality(UNION {AvailableBytes(layout[i]) : i \in Complete})

(* Every region the iterator returns moves the cursor on, so that the walk *)
(* takes at most as many steps as the buffer has bytes (next: "the `+ 4`   *)
(* keeps the step positive").                                              *)
WalkAdvances == [][pc = "walk" /\ pc' = "walk" => offset' > offset]_vars

(* The walk ends (next: "the `+ 4` keeps the step positive, so the walk    *)
(* always terminates"), in the total or, in the dev profile, in the panic  *)
(* of the overflow check.                                                  *)
WalkTerminates == <>(pc \in {"no_map", "printed", "panicked"})
=============================================================================
