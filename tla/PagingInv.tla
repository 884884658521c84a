------------------------------ MODULE PagingInv ------------------------------
(***************************************************************************)
(* The invariant the proofs about Paging rest on.                          *)
(***************************************************************************)
EXTENDS Paging

Built == {"kernel", "low", "wp", "done"}
Slots == {0, KERNEL_BASE}

(* Frames are given once, from the bootstrap map's range, and are never    *)
(* the kernel's; CR3 and WP change where the code says.                    *)
Ranges ==
    /\ image \in Images /\ free \subseteq Page /\ taken \subseteq Index /\ free \cap taken = {}
    /\ \A f \in free \cup taken : f # 0 /\ f \notin image.phys_start .. image.end - 1
    /\ memory \in [0 .. 2 * ENTRY_COUNT - 1 -> [Index -> Nat]]
    /\ memory[BOOT_DIRECTORY] = bootstrap
    /\ pd_frame \in Index /\ next_page \in Page
    /\ pc \in {"directory", "panicked"} \cup Built
    /\ cr3 = IF pc \in {"wp", "done"} THEN pd_frame ELSE BOOT_DIRECTORY
    /\ wp \in BOOLEAN /\ (wp => pc = "done")
    /\ pc = "kernel" => high_page(image.high) <= next_page /\ next_page <= high_page(image.end)
    /\ pc = "low" => next_page <= image.phys_start

(* The pages the loops have mapped, and the entries they gave them.        *)
Mapped ==
    IF pc = "kernel" THEN {page \in KernelPages \ {GuardPage} : page < next_page}
    ELSE (KernelPages \ {GuardPage}) \cup (IF pc = "low" THEN 0 .. next_page - 1 ELSE LowPages)
Intended(page) ==
    IF page \in KernelPages THEN new_pte(page - high_page(0), kernel_flags(page))
    ELSE new_pte(page, KERNEL_RW)

(* The directory refers to itself, and to a table of its own in each of    *)
(* two slots, once a page needs it.                                        *)
Directory ==
    /\ pd_frame \in taken
    /\ memory[pd_frame][RECURSIVE_INDEX] = for_table(pd_frame, KERNEL_RW)
    /\ \A s \in Index \ (Slots \cup {RECURSIVE_INDEX}) : memory[pd_frame][s] = EMPTY
    /\ \A s \in Slots : \/ memory[pd_frame][s] = EMPTY
                        \/ \E t \in taken \ {pd_frame} : memory[pd_frame][s] = for_table(t, KERNEL_RW)
    /\ memory[pd_frame][0] = memory[pd_frame][KERNEL_BASE] => memory[pd_frame][0] = EMPTY

(* The tables hold the entries of the pages mapped so far, and no others.  *)
Filled ==
    \A s \in Slots :
        IF memory[pd_frame][s] = EMPTY THEN \A page \in Mapped : pd_index(page) # s
        ELSE \A j \in Index :
                memory[table_frame(memory[pd_frame][s])][j] =
                    IF from_indices(s, j) \in Mapped THEN Intended(from_indices(s, j)) ELSE EMPTY

IInv == Ranges /\ (pc \in Built => Directory /\ Filled)

(* A frame taken serves as the directory or as the table of a slot; paging *)
(* gives up only with no frame left that it could use and, at that point,  *)
(* no more than two spent.                                                 *)
Spending ==
    /\ pc = "directory" => taken = {}
    /\ pc \in Built => \A f \in taken :
          f = pd_frame \/ \E s \in Slots : memory[pd_frame][s] = for_table(f, KERNEL_RW)
    /\ pc = "panicked" => /\ \A f \in free : ~identity_mapped(f)
                          /\ \E a, b \in Index : taken \subseteq {a, b}

(* Frames paging has or could still get.                                   *)
Reachable == {f \in free \cup taken : identity_mapped(f)}
Sufficient == Cardinality(Reachable) >= FramesNeeded
==============================================================================
