-------------------------------- MODULE Gdt --------------------------------
(***************************************************************************)
(* The bootstrap descriptor table of src/gdt.rs, and what the processor    *)
(* makes of it (external).  A descriptor is the set of its one bits.       *)
(***************************************************************************)
EXTENDS Integers

GDT_BASE == 2048
GDT_ENTRY_COUNT == 7
DESCRIPTOR_BYTES == 8

KERNEL_CODE_SELECTOR == 8
KERNEL_DATA_SELECTOR == 16
KERNEL_STACK_SELECTOR == 24

shl(bits, n) == {b + n : b \in bits}

Ring0 == {}
Ring3 == {0, 1}

(* SegmentDescriptor::flat: base 0, limit 0xFFFFF pages, 32 bits.          *)
flat(access) ==
    LET flags == {2, 3}
        limit == 0 .. 19
        limit_high == {b - 16 : b \in limit \cap (16 .. 19)}
    IN  (limit \cap (0 .. 15)) \cup shl(access, 40) \cup shl(limit_high, 48) \cup shl(flags, 52)

flat_code(privilege) == flat({7, 4, 3, 1} \cup shl(privilege, 5))
flat_data(privilege) == flat({7, 4, 1} \cup shl(privilege, 5))

(* Gdt::bootstrap.                                                         *)
bootstrap_gdt ==
    [i \in 0 .. GDT_ENTRY_COUNT - 1 |->
        CASE i = 0 -> {}
          [] i = 1 -> flat_code(Ring0)
          [] i \in {2, 3} -> flat_data(Ring0)
          [] i = 4 -> flat_code(Ring3)
          [] i \in {5, 6} -> flat_data(Ring3)]

-----------------------------------------------------------------------------
(* The processor's reading of a descriptor.                                *)

spans_everything(d) == d \cap (16 .. 39) = {} /\ d \cap (56 .. 63) = {}
                       /\ 0 .. 15 \subseteq d /\ 48 .. 51 \subseteq d /\ 55 \in d
is_segment(d) == {44, 47} \subseteq d
is_32_bit(d) == 54 \in d /\ 53 \notin d
is_executable(d) == 43 \in d
is_writable_data(d) == 43 \notin d /\ 41 \in d
privilege_of(d) == {b - 45 : b \in d \cap {45, 46}}

(* The descriptor a selector names: within the table, not the null one.    *)
selects(selector, limit, i) ==
    selector \div 8 = i /\ i > 0 /\ (selector % 8) = 0 /\ i * 8 + 7 <= limit
=============================================================================
