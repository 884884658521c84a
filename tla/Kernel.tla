------------------------------- MODULE Kernel -------------------------------
(***************************************************************************)
(* kernel_main (src/lib.rs) and memory::init (src/memory/mod.rs): the      *)
(* memory map is printed, the frame allocator built from it, and paging    *)
(* takes its frames from that allocator.  FrameBitmap and Paging run here  *)
(* together, each at its own grain: while paging waits for a frame, the    *)
(* allocator's loops run.                                                  *)
(***************************************************************************)
EXTENDS BootMap, MemoryRegion, Sequences, FiniteSets

CONSTANTS WORD_BITS, WORD_COUNT, MemoryMaps, DEV_PROFILE,  \* as in FrameBitmap
          Leftovers,         \* as in Paging
          IMAGE,             \* the linker's symbols
          INFO_FRAME,
          Magics             \* what the loader may pass as magic

BOOTLOADER_MAGIC == 732803074

FrameSet == 0 .. WORD_COUNT * WORD_BITS - 1

(* The bitmap covers the address space; the image lies under the bootstrap *)
(* map, in the order the linker script gives it.                           *)
ASSUME KernelAssumption ==
    /\ WORD_BITS \in Nat \ {0} /\ WORD_COUNT \in Nat \ {0} /\ WORD_COUNT * WORD_BITS > 1
    /\ LIMIT = WORD_COUNT * WORD_BITS * FRAME_SIZE /\ FrameSet \subseteq Page
    /\ MemoryMaps \subseteq Seq(Region) /\ DEV_PROFILE \in BOOLEAN
    /\ IMAGE \in [phys_start : Index, high : Index, data : Index, guard : Index, end : FrameSet]
    /\ 0 < IMAGE.phys_start /\ IMAGE.phys_start <= BOOT_DIRECTORY /\ BOOT_DIRECTORY < IMAGE.high
    /\ IMAGE.high < IMAGE.data /\ IMAGE.data <= IMAGE.guard /\ IMAGE.guard < IMAGE.end
    /\ IMAGE.end <= ENTRY_COUNT
    /\ Leftovers \subseteq Nat /\ Magics \subseteq Nat /\ KERNEL_BASE < ENTRY_COUNT - 1

VARIABLES magic, has_map,    \* from the loader; the MMAP flag of info
          mmap,              \* the regions the map holds
          printed, usable_bytes,  \* print_memory_map: regions done, their sum
          stage,             \* where kernel_main is
          asked,             \* paging waits for allocate_one
          bitmap, search_hint, next_region, start, count, word_i, bit, remaining,
          frame, run_start, run_len, runs, leaked, reply, fb_pc,
          image, memory, pd_frame, next_page, cr3, wp, pg_pc

loader == <<magic, has_map>>
report == <<printed, usable_bytes>>
allocator == <<mmap, bitmap, search_hint, next_region, start, count, word_i, bit, remaining,
               frame, run_start, run_len, runs, leaked, reply, fb_pc>>
tables == <<image, memory, pd_frame, next_page, cr3, wp, pg_pc>>
vars == <<loader, report, stage, asked, allocator, tables>>

Alloc == INSTANCE FrameBitmapInv
         WITH pc <- fb_pc, Counts <- {1},
              KERNEL_START <- base_addr(IMAGE.phys_start), KERNEL_END <- base_addr(IMAGE.end)

(* Paging's free frames: those of the allocator, one on its way included.  *)
Granted == Alloc!PoolFree \cup Alloc!Held

Tables == INSTANCE PagingInv
          WITH free <- Granted, taken <- leaked, pc <- pg_pc, Images <- {IMAGE},
               FreeSets <- SUBSET {f \in Page : f # 0 /\ f \notin IMAGE.phys_start .. IMAGE.end - 1}

Init ==
    /\ magic \in Magics /\ has_map \in BOOLEAN
    /\ printed = 0 /\ usable_bytes = 0 /\ stage = "entry" /\ asked = FALSE
    /\ Alloc!Init
    /\ image = IMAGE /\ pd_frame = BOOT_DIRECTORY /\ next_page = 0
    /\ \E word \in Leftovers :
          memory = [f \in 0 .. 2 * ENTRY_COUNT - 1 |->
                      IF f = BOOT_DIRECTORY THEN bootstrap ELSE [i \in Index |-> word]]
    /\ cr3 = BOOT_DIRECTORY /\ wp = FALSE /\ pg_pc = "directory"

-----------------------------------------------------------------------------
(* kernel_main up to memory::init.                                         *)

(* Faulty: the magic is not looked at.                                     *)
CheckMagic_skipped ==
    /\ stage = "entry" /\ stage' = "print"
    /\ UNCHANGED <<loader, report, asked, allocator, tables>>

CheckMagic ==
    /\ stage = "entry"
    /\ stage' = IF magic = BOOTLOADER_MAGIC THEN "print" ELSE "panicked"
    /\ UNCHANGED <<loader, report, asked, allocator, tables>>

counted(region) == IF region.available THEN addressable_bytes(region) ELSE 0

(* A region of print_memory_map's loop.                                    *)
PrintRegion ==
    /\ stage = "print" /\ has_map /\ printed < Len(mmap)
    /\ usable_bytes' = usable_bytes + counted(mmap[printed + 1])
    /\ printed' = printed + 1
    /\ UNCHANGED <<loader, stage, asked, allocator, tables>>

(* The end of print_memory_map, and memory_map().expect in memory::init.   *)
EnterMemoryInit ==
    /\ stage = "print" /\ (has_map => printed = Len(mmap))
    /\ stage' = IF has_map THEN "allocator" ELSE "panicked"
    /\ UNCHANGED <<loader, report, asked, allocator, tables>>

-----------------------------------------------------------------------------
(* memory::init.                                                           *)

(* allocator.init(map), iteration by iteration.                            *)
InitAllocator ==
    /\ stage = "allocator" /\ Alloc!Step
    /\ stage' = CASE fb_pc' = "ready" -> "paging"
                  [] fb_pc' = "panicked" -> "panicked"
                  [] OTHER -> stage
    /\ UNCHANGED <<loader, report, asked, tables>>

(* paging::init calls allocate_one ...                                     *)
AskForFrame ==
    /\ stage = "paging" /\ ~asked /\ Tables!needs_frame
    /\ Alloc!Allocate(1) /\ asked' = TRUE
    /\ UNCHANGED <<loader, report, stage, tables>>

SearchFrame ==
    /\ stage = "paging" /\ asked /\ Alloc!Step
    /\ UNCHANGED <<loader, report, stage, asked, tables>>

(* alloc_frame keeps the number and lets the run go, so it is never freed. *)
keep_frame(run) == Alloc!Drop(run)

(* ... and uses the frame, unless expect or bootstrap_frame_ptr panics.    *)
UseFrame ==
    /\ stage = "paging" /\ asked /\ fb_pc = "ready" /\ asked' = FALSE
    /\ IF reply.start = Alloc!NONE \/ ~Tables!identity_mapped(reply.start)
       THEN /\ stage' = "panicked" /\ pg_pc' = "panicked"
            /\ UNCHANGED <<allocator, image, memory, pd_frame, next_page, cr3, wp>>
       ELSE /\ keep_frame([start |-> reply.start, len |-> 1])
            /\ IF pg_pc = "directory" THEN Tables!build_directory(reply.start)
               ELSE Tables!map_in_new_table(reply.start)
            /\ UNCHANGED stage
    /\ UNCHANGED <<loader, report>>

(* The steps of paging::init that need no new frame.                       *)
StepPaging ==
    /\ stage = "paging" /\ ~asked /\ UNCHANGED <<loader, report, asked, allocator>>
    /\ \/ Tables!MapPage \/ Tables!SkipGuard \/ Tables!KernelMapped
       \/ Tables!LoadCr3 \/ Tables!SetWp
    /\ stage' = IF pg_pc' = "done" THEN "idle" ELSE stage

Next ==
    \/ CheckMagic \/ PrintRegion \/ EnterMemoryInit \/ InitAllocator
    \/ AskForFrame \/ SearchFrame \/ UseFrame \/ StepPaging

(* Boot code runs to its end: nothing else runs.                           *)
Spec == Init /\ [][Next]_vars /\ WF_vars(Next)

-----------------------------------------------------------------------------
(* Properties.                                                             *)

Kept == {0} \cup IMAGE.phys_start .. IMAGE.end - 1

(* Frames inside one available region that the kernel need not keep.       *)
Usable ==
    {f \in FrameSet \ Kept : \E i \in DOMAIN mmap :
        /\ mmap[i].available /\ mmap[i].base <= base_addr(f)
        /\ base_addr(f + 1) <= mmap[i].base + mmap[i].length}

(* Frames the processor walks through: the directory and its tables.       *)
WalkedFrames ==
    {cr3} \cup {table_frame(memory[cr3][i]) : i \in {j \in Index : is_present(memory[cr3][j])}}

(* Once the kernel runs on its own directory, the directory and the tables *)
(* lie in usable memory and the allocator will never give them away        *)
(* (alloc_frame: the run is dropped, not freed).                           *)
TablesAreOwned ==
    stage = "idle" => /\ WalkedFrames \subseteq Usable \cap leaked
                      /\ WalkedFrames \cap Alloc!FreeFrames = {}

(* The free memory is never more than what print_memory_map reported       *)
(* (its "boot self-check ... before the frame allocator begins to trust").  *)
FreeWithinReport ==
    fb_pc = "ready" => base_addr(Cardinality(Alloc!FreeFrames)) <= usable_bytes

(* The two components fit: paging starts in a state Paging allows, with no *)
(* kernel frame free, and with the bitmap behind it makes only the steps   *)
(* Paging makes with its abstract set of free frames, lowest first.        *)
DrivesPaging ==
    [][/\ stage = "allocator" /\ stage' = "paging" => Tables!Init'
       /\ stage = "paging" => [Tables!Next]_(Tables!vars)]_vars

InitOverflows ==
    DEV_PROFILE /\ \E i \in DOMAIN mmap :
        ~Alloc!skips(mmap[i]) /\ mmap[i].base + mmap[i].length >= LIMIT

(* Frames of the available regions that end below 4 GiB, without the       *)
(* kernel's: what the allocator has to give.                               *)
Published == Alloc!Deliverable \ Alloc!Reserved

(* From the loader's hand-off to the idle loop: kernel_main gets there if  *)
(* the magic is right, a map is present, no region overflows and the       *)
(* published frames under the bootstrap map suffice; in all other cases it *)
(* panics (memory::init: "Panics if GRUB supplied no memory map").         *)
BootSucceeds ==
    /\ magic = BOOTLOADER_MAGIC /\ has_map /\ ~InitOverflows
    /\ Cardinality({f \in Published : Tables!identity_mapped(f)}) >= Tables!FramesNeeded
BootEnds == (BootSucceeds => <>(stage = "idle")) /\ (~BootSucceeds => <>(stage = "panicked"))
=============================================================================
