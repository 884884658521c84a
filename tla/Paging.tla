------------------------------- MODULE Paging -------------------------------
(***************************************************************************)
(* The hand-over from the bootstrap huge-page map to the kernel's own page *)
(* directory (src/memory/paging.rs, init).  The new tables are built in    *)
(* frames taken from the frame allocator and written through the bootstrap *)
(* map that is still active; then CR3 is loaded and CR0.WP set.            *)
(*                                                                         *)
(* memory holds the frames that back tables or may come to: a frame is a   *)
(* sequence of ENTRY_COUNT words.  A page or frame stands for its address. *)
(***************************************************************************)
EXTENDS BootMap, FiniteSets, FiniteSetsExt

CONSTANTS Images,          \* layouts the linker may give the kernel image
          FreeSets,        \* sets of frames the allocator may start from
          Leftovers,       \* words a frame may hold when it is allocated
          INFO_FRAME       \* frame of the Multiboot information structure

RECURSIVE_INDEX == ENTRY_COUNT - 1

(* The linker's symbols, as frames of the physical image: the kernel's     *)
(* high half is the image from high up to end, shifted by KERNEL_BASE.     *)
Image == [phys_start : Index, high : Index, data : Index, guard : Index, end : 0 .. ENTRY_COUNT]

ASSUME PagingAssumption ==
    /\ KERNEL_BASE < RECURSIVE_INDEX /\ Leftovers \subseteq Nat
    /\ Images \subseteq {i \in Image : /\ 0 < i.phys_start /\ i.phys_start <= BOOT_DIRECTORY
                                       /\ BOOT_DIRECTORY < i.high /\ i.high < i.data
                                       /\ i.data <= i.guard /\ i.guard < i.end}
    /\ \A set \in FreeSets : \A f \in set :
          f \in Page /\ f # 0 /\ \A i \in Images : f \notin i.phys_start .. i.end - 1

VARIABLES image,           \* the linker's symbols
          free,            \* the allocator's free frames
          taken,           \* frames alloc_frame returned and leaked
          memory,          \* frame -> words
          pd_frame,        \* the directory under construction
          next_page,       \* the page the running loop maps next
          cr3, wp,         \* frame of the active directory; CR0.WP
          pc

vars == <<image, free, taken, memory, pd_frame, next_page, cr3, wp, pc>>

-----------------------------------------------------------------------------
(* Helpers.                                                                *)

(* Faulty: frames are handed out from the top.                             *)
allocated_highest == Max(free)

(* allocate_one: the lowest free frame, as FrameBitmapProofs shows.        *)
allocated == Min(free)

(* Faulty: the first frame past the bootstrap map passes.                  *)
identity_mapped_at_limit(frame) == frame <= BOOTSTRAP_IDENTITY_LIMIT

(* The assertion of bootstrap_frame_ptr.                                   *)
identity_mapped(frame) == frame < BOOTSTRAP_IDENTITY_LIMIT

(* The frame an access through bootstrap_frame_ptr really reaches.         *)
behind(frame) == translate(memory, cr3, frame).frame

(* Faulty: the frame keeps what it held before.                            *)
unzeroed_frame(frame) == memory

zero_frame(frame) == [memory EXCEPT ![behind(frame)] = [i \in Index |-> EMPTY]]
write(mem, frame, index, entry) == [mem EXCEPT ![behind(frame)][index] = entry]

can_allocate == free # {} /\ identity_mapped(allocated)
alloc_frame == free' = free \ {allocated} /\ taken' = taken \cup {allocated}

(* Where a fresh frame leads to: with no IDT a bad pointer stops the CPU.  *)
reaching(fresh, next) == IF behind(fresh) \in DOMAIN memory THEN next ELSE "faulted"

pde_of(page) == memory[behind(pd_frame)][pd_index(page)]
has_table(page) == is_present(pde_of(page))

(* map_bootstrap on a slot that has its table, and on one that gets fresh. *)
fill_slot(page, frame, flags) ==
    /\ identity_mapped(table_frame(pde_of(page)))
    /\ memory' = write(memory, table_frame(pde_of(page)), pt_index(page), new_pte(frame, flags))
    /\ UNCHANGED pc

open_slot(page, frame, flags, fresh) ==
    LET linked == write(zero_frame(fresh), pd_frame, pd_index(page), for_table(fresh, KERNEL_RW))
    IN  /\ memory' = write(linked, fresh, pt_index(page), new_pte(frame, flags))
        /\ pc' = reaching(fresh, pc)

-----------------------------------------------------------------------------
(* paging::init.                                                           *)

Init ==
    /\ image \in Images
    /\ free \in FreeSets /\ taken = {}
    /\ \E word \in Leftovers :
          memory = [f \in 0 .. 2 * ENTRY_COUNT - 1 |->
                      IF f = BOOT_DIRECTORY THEN bootstrap ELSE [i \in Index |-> word]]
    /\ pd_frame = BOOT_DIRECTORY /\ next_page = 0
    /\ cr3 = BOOT_DIRECTORY /\ wp = FALSE
    /\ pc = "directory"

(* Faulty: the tables are seen read-only through the last slot.            *)
build_directory_read_only(fresh) ==
    /\ pd_frame' = fresh /\ pc' = reaching(fresh, "kernel")
    /\ memory' = write(zero_frame(fresh), fresh, RECURSIVE_INDEX, for_table(fresh, KERNEL_RO))
    /\ next_page' = high_page(image.high)
    /\ UNCHANGED <<image, cr3, wp>>

(* The directory in a fresh frame, its last slot pointing at itself.       *)
build_directory(fresh) ==
    /\ pd_frame' = fresh /\ pc' = reaching(fresh, "kernel")
    /\ memory' = write(zero_frame(fresh), fresh, RECURSIVE_INDEX, for_table(fresh, KERNEL_RW))
    /\ next_page' = high_page(image.high)
    /\ UNCHANGED <<image, cr3, wp>>

NewDirectory ==
    /\ pc = "directory" /\ can_allocate
    /\ alloc_frame
    /\ build_directory(allocated)

(* Faulty: the image is taken to start where .text does.                   *)
kernel_frame_from_text(page) == page - high_page(image.high) + image.phys_start

(* The frame of a kernel page: virt - KERNEL_VIRTUAL_BASE.                 *)
kernel_frame(page) == page - from_indices(KERNEL_BASE, 0)

(* Pages below kernel_data_start are read-only.                            *)
kernel_flags(page) == IF page < high_page(image.data) THEN KERNEL_RO ELSE KERNEL_RW

(* Faulty: the identity loop runs over the image as well.                  *)
low_limit_past_image == image.end

(* The identity loop stops at kernel_phys_start.                           *)
low_limit == image.phys_start

(* Faulty: the guard page is mapped like its neighbours.                   *)
skips_nothing(page) == FALSE

(* The kernel loop leaves the guard page absent.                           *)
skips_guard(page) == page = high_page(image.guard)

(* The two loops: a page to map, and what the loop maps it to.             *)
mapping == (pc = "kernel" /\ next_page < high_page(image.end) /\ ~skips_guard(next_page))
           \/ (pc = "low" /\ next_page < low_limit)
target == IF pc = "kernel" THEN kernel_frame(next_page) ELSE next_page
rights == IF pc = "kernel" THEN kernel_flags(next_page) ELSE KERNEL_RW

next_iteration == next_page' = next_page + 1 /\ UNCHANGED <<image, pd_frame, cr3, wp>>

MapPage ==
    /\ mapping /\ has_table(next_page)
    /\ fill_slot(next_page, target, rights)
    /\ next_iteration
    /\ UNCHANGED <<free, taken>>

needs_frame == pc = "directory" \/ (mapping /\ ~has_table(next_page))
map_in_new_table(fresh) == open_slot(next_page, target, rights, fresh) /\ next_iteration

MapPageInNewTable ==
    /\ mapping /\ ~has_table(next_page) /\ can_allocate
    /\ alloc_frame
    /\ map_in_new_table(allocated)

SkipGuard ==
    /\ pc = "kernel" /\ next_page < high_page(image.end) /\ skips_guard(next_page)
    /\ next_iteration
    /\ UNCHANGED <<free, taken, memory, pc>>

KernelMapped ==
    /\ pc = "kernel" /\ next_page = high_page(image.end)
    /\ pc' = "low" /\ next_page' = 0
    /\ UNCHANGED <<image, free, taken, memory, pd_frame, cr3, wp>>

(* alloc_frame's expect or bootstrap_frame_ptr's assert.  A frame beyond   *)
(* the limit is left in free: nothing asks for a frame any more.           *)
Panic ==
    /\ \/ needs_frame /\ ~can_allocate
       \/ mapping /\ has_table(next_page) /\ ~identity_mapped(table_frame(pde_of(next_page)))
    /\ pc' = "panicked"
    /\ UNCHANGED <<image, free, taken, memory, pd_frame, next_page, cr3, wp>>

(* Faulty: the new directory is never loaded.                              *)
LoadCr3_forgotten ==
    /\ pc = "low" /\ next_page = low_limit
    /\ pc' = "wp"
    /\ UNCHANGED <<image, free, taken, memory, pd_frame, next_page, cr3, wp>>

LoadCr3 ==
    /\ pc = "low" /\ next_page = low_limit
    /\ cr3' = pd_frame
    /\ pc' = "wp"
    /\ UNCHANGED <<image, free, taken, memory, pd_frame, next_page, wp>>

SetWp ==
    /\ pc = "wp"
    /\ wp' = TRUE
    /\ pc' = "done"
    /\ UNCHANGED <<image, free, taken, memory, pd_frame, next_page, cr3>>

Next ==
    \/ NewDirectory \/ MapPage \/ MapPageInNewTable \/ SkipGuard \/ KernelMapped
    \/ Panic \/ LoadCr3 \/ SetWp

(* Boot code runs to its end: nothing else runs.                           *)
Spec == Init /\ [][Next]_vars /\ WF_vars(Next)

-----------------------------------------------------------------------------
(* Properties.                                                             *)

KernelPages == high_page(image.high) .. high_page(image.end) - 1
LowPages == 0 .. image.phys_start - 1
GuardPage == high_page(image.guard)
Mapping(page) == translate(memory, cr3, page)
RecursivePage(index) == from_indices(RECURSIVE_INDEX, index)

(* Every value stays in its range; in particular the kernel never faults   *)
(* on a paging frame outside the bootstrap map (bootstrap_frame_ptr).      *)
TypeOK ==
    /\ image \in Images /\ free \subseteq Page /\ taken \subseteq Page
    /\ memory \in [0 .. 2 * ENTRY_COUNT - 1 -> [Index -> Nat]]
    /\ pd_frame \in DOMAIN memory /\ next_page \in Page
    /\ cr3 \in {BOOT_DIRECTORY, pd_frame} /\ wp \in BOOLEAN
    /\ pc \in {"directory", "kernel", "low", "wp", "done", "panicked"}

(* What the new address space must be: the kernel at its high half with    *)
(* per-section rights, no guard page, the memory below it one to one, and  *)
(* nothing else (init's loops and their comments).                         *)
Expected(page) ==
    IF page \in KernelPages \ {GuardPage}
    THEN [frame |-> page - high_page(0), writable |-> page >= high_page(image.data)]
    ELSE IF page \in LowPages THEN [frame |-> page, writable |-> TRUE]
    ELSE FAULT

(* Once CR3 is loaded, every page outside the recursive window is mapped   *)
(* exactly as intended, whatever the paging frames held before and however *)
(* many tables the pages share.                                            *)
AddressSpaceExact ==
    pc \in {"wp", "done"} =>
        \A page \in Page : pd_index(page) # RECURSIVE_INDEX => Mapping(page) = Expected(page)

(* The last slot makes the tables visible: page i of the window is the     *)
(* table of slot i, and its last page is the directory itself.             *)
RecursiveWindow ==
    pc \in {"wp", "done"} =>
        /\ Mapping(RecursivePage(RECURSIVE_INDEX)).frame = cr3
        /\ \A i \in Index :
              Mapping(RecursivePage(i)) =
                 IF \E page \in KernelPages \cup LowPages : pd_index(page) = i
                 THEN [frame |-> table_frame(memory[cr3][i]), writable |-> TRUE]
                 ELSE IF i = RECURSIVE_INDEX THEN [frame |-> cr3, writable |-> TRUE]
                 ELSE FAULT

(* With CR0.WP set no page at all, the recursive window included, gives    *)
(* write access to .text and .rodata (init: "so it never aliases the       *)
(* image's read-only mapping").                                            *)
NoWritableAlias ==
    wp => \A page \in Page :
             Mapping(page).frame \in image.high .. image.data - 1 => ~Mapping(page).writable

(* The CR3 load is seamless: the running code, the stack, the GDT and VGA  *)
(* stay where they were (init: "hands over atomically").                   *)
SwitchIsSeamless ==
    [][cr3' # cr3 =>
          \A page \in (KernelPages \ {GuardPage}) \cup LowPages :
             /\ Mapping(page).frame = Mapping(page)'.frame
             /\ Mapping(page).frame \in 0 .. image.end - 1]_vars

(* Building the tables writes to frames taken from the allocator and to    *)
(* nothing else: not to the kernel, the GDT, VGA or the bootstrap map.     *)
OnlyPagingFramesWritten ==
    [][\A f \in DOMAIN memory : memory'[f] # memory[f] => f \in taken']_vars

(* One directory and the tables of the pages to map.                       *)
FramesNeeded == 1 + Cardinality({pd_index(page) : page \in (KernelPages \ {GuardPage}) \cup LowPages})
EnoughLowFrames == Cardinality({f \in free : identity_mapped(f)}) >= FramesNeeded

(* The kernel gets through to the new directory if and only if there are   *)
(* enough free frames under the bootstrap map, wherever they lie and       *)
(* however many others there are.                                          *)
BootsWhenEnough == (EnoughLowFrames => <>(pc = "done")) /\ (~EnoughLowFrames => <>(pc = "panicked"))

(* The Multiboot structure stays mapped and unmodified (lib.rs,            *)
(* kernel_main: "it stays mapped and unmodified this early in boot").      *)
InfoIntact ==
    [][/\ memory'[INFO_FRAME] = memory[INFO_FRAME]
       /\ Mapping(INFO_FRAME)'.frame = INFO_FRAME]_vars
=============================================================================
