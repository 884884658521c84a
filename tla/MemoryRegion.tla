---------------------------- MODULE MemoryRegion ----------------------------
(***************************************************************************)
(* One region of the firmware memory map (src/multiboot.rs).  A region is  *)
(* a record of its u64 base, its u64 length and whether its kind is        *)
(* RegionKind::Available; the other kinds are treated alike by the code.   *)
(***************************************************************************)
EXTENDS Integers

CONSTANTS LIMIT,         \* one past the last byte usize can address: 2^32
          U64_MAX        \* the largest u64

ASSUME LimitAssumption == LIMIT \in Nat \ {0} /\ U64_MAX \in Nat /\ LIMIT <= U64_MAX

U64 == 0 .. U64_MAX
Region == [base : U64, length : U64, available : BOOLEAN]

saturating_add(a, b) == IF a + b <= U64_MAX THEN a + b ELSE U64_MAX
saturating_sub(a, b) == IF b <= a THEN a - b ELSE 0

(* One past the region's last byte, clamped to the address space.          *)
clamped_end(region) ==
    LET end == saturating_add(region.base, region.length) IN
    IF end <= LIMIT THEN end ELSE LIMIT

(* The number of bytes of the region a 32-bit kernel can address.          *)
addressable_bytes(region) ==
    IF region.base >= LIMIT THEN 0 ELSE clamped_end(region) - region.base

(* The byte is reported as available RAM.                                  *)
Holds(region, byte) == region.base <= byte /\ byte < region.base + region.length
=============================================================================
