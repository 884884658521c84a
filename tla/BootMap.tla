------------------------------ MODULE BootMap ------------------------------
(***************************************************************************)
(* The map the kernel boots on (src/memory/paging.rs, BOOT_PAGE_DIRECTORY):*)
(* one huge page seen twice, at address zero and at KERNEL_VIRTUAL_BASE.   *)
(***************************************************************************)
EXTENDS PageEntry

CONSTANTS KERNEL_BASE,     \* pd_index of KERNEL_VIRTUAL_BASE
          BOOT_DIRECTORY   \* frame of BOOT_PAGE_DIRECTORY

ASSUME BootMapAssumption ==
    KERNEL_BASE \in 1 .. ENTRY_COUNT - 1 /\ BOOT_DIRECTORY \in 0 .. ENTRY_COUNT - 1

Index == 0 .. ENTRY_COUNT - 1
Page == 0 .. ENTRY_COUNT * ENTRY_COUNT - 1

(* The first frame the bootstrap map does not cover.                       *)
BOOTSTRAP_IDENTITY_LIMIT == ENTRY_COUNT

high_page(frame) == from_indices(KERNEL_BASE, 0) + frame

(* Faulty: only the high half is mapped.                                   *)
bootstrap_high_only ==
    [i \in Index |-> IF i = KERNEL_BASE THEN for_huge_page(0, KERNEL_RW) ELSE EMPTY]

(* PageDirectory::bootstrap.                                               *)
bootstrap ==
    [i \in Index |-> IF i \in {0, KERNEL_BASE} THEN for_huge_page(0, KERNEL_RW) ELSE EMPTY]
=============================================================================
