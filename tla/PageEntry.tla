----------------------------- MODULE PageEntry -----------------------------
(***************************************************************************)
(* Page-directory and page-table entries of src/memory/paging.rs: a frame  *)
(* address in the high bits of a word, control bits in the low ones.  The  *)
(* code's | of the two is a sum, since a frame address has no low bits.    *)
(***************************************************************************)
EXTENDS Address

CONSTANT ENTRY_COUNT     \* entries in a page directory or page table

PRESENT == 1
WRITABLE == 2
PAGE_SIZE_BIT == 128

(* The control bits lie below a frame address.                             *)
ASSUME EntryAssumption ==
    ENTRY_COUNT \in Nat \ {0} /\ FRAME_SIZE % (2 * PAGE_SIZE_BIT) = 0

KERNEL_RO == PRESENT
KERNEL_RW == PRESENT + WRITABLE

EMPTY == 0

(* PageTableEntry::new.                                                    *)
new_pte(frame, flags) == base_addr(frame) + flags

(* PageDirectoryEntry::for_table and for_huge_page.                        *)
for_table(frame, flags) == base_addr(frame) + flags
for_huge_page(frame, flags) == base_addr(frame) + PAGE_SIZE_BIT + flags

flags_of(entry) == entry % FRAME_SIZE
contains(flags, bit) == (flags \div bit) % 2 = 1
is_present(entry) == contains(flags_of(entry), PRESENT)
is_writable(entry) == contains(flags_of(entry), WRITABLE)
is_huge(entry) == contains(entry, PAGE_SIZE_BIT)
table_frame(entry) == frame_floor(entry - flags_of(entry))

(* VirtAddr::pd_index and pt_index, of the address of a page.              *)
pd_index(page) == page \div ENTRY_COUNT
pt_index(page) == page % ENTRY_COUNT
from_indices(pd, pt) == pd * ENTRY_COUNT + pt

-----------------------------------------------------------------------------
(* The processor's two-level walk with CR4.PSE set (external): the frame a *)
(* page is backed by and whether it may be written, or FAULT.              *)

FAULT == [frame |-> -1, writable |-> FALSE]

walk_table(memory, pde, page) ==
    LET pte == memory[table_frame(pde)][pt_index(page)] IN
    IF ~is_present(pte) THEN FAULT
    ELSE [frame |-> table_frame(pte), writable |-> is_writable(pde) /\ is_writable(pte)]

translate(memory, directory, page) ==
    LET pde == memory[directory][pd_index(page)] IN
    IF ~is_present(pde) THEN FAULT
    ELSE IF is_huge(pde)
         THEN [frame |-> table_frame(pde) + pt_index(page), writable |-> is_writable(pde)]
         ELSE walk_table(memory, pde, page)
=============================================================================
