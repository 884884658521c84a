------------------------------ MODULE MCPaging ------------------------------
(* Images and free frames for model checking Paging: 16 entries per table, *)
(* the kernel loaded at frame 4, the bootstrap map ending at frame 16.     *)
EXTENDS Paging

layout(high, data, guard, end) ==
    [phys_start |-> 4, high |-> high, data |-> data, guard |-> guard, end |-> end]

(* The guard first and last among the writable pages, and in between.      *)
MCImages == {layout(5, 6, 6, 8), layout(5, 7, 9, 10), layout(6, 7, 8, 10), layout(6, 8, 8, 9)}

(* Free frames below the kernel, between it and the bootstrap limit, at    *)
(* the limit and above.                                                    *)
MCFreeSets == SUBSET {1, 3, 10, 11, 15, 16, 20}

(* Zero, and a word that reads as a present, writable entry.               *)
MCLeftovers == {0, 7 * FRAME_SIZE + KERNEL_RW}

(* GRUB put its structures into low available memory.                      *)
LowFreeSet == {{1, 2, 3, 10, 11, 15}}
=============================================================================
