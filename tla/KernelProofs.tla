---------------------------- MODULE KernelProofs ----------------------------
(***************************************************************************)
(* The composition (src/lib.rs, src/memory/mod.rs): what FrameBitmapProofs *)
(* and PagingProofs establish of each component alone carries over to the  *)
(* two running together, because each makes only the steps its own         *)
(* specification allows.                                                   *)
(***************************************************************************)
EXTENDS KernelSteps

-----------------------------------------------------------------------------
(* The allocator of the composition keeps what FrameBitmapProofs shows.    *)

(* The proofs about FrameBitmap, for the allocator of Kernel.              *)
Frames == INSTANCE FrameBitmapProofs
          WITH pc <- fb_pc, Counts <- {1},
               KERNEL_START <- base_addr(IMAGE.phys_start), KERNEL_END <- base_addr(IMAGE.end)

(* FrameBitmap's assumptions on its layout and its inputs.                 *)
LEMMA AllocLayout == Frames!LayoutAssumption
<1>1. /\ base_addr(IMAGE.phys_start) \in Nat /\ base_addr(IMAGE.end) \in Nat
      /\ base_addr(IMAGE.phys_start) < base_addr(IMAGE.end)
      /\ base_addr(IMAGE.end) < base_addr(WORD_COUNT * WORD_BITS)
  BY Symbols, Addresses
<1>2. LIMIT = base_addr(WORD_COUNT * WORD_BITS)
  BY KernelAssumption DEF base_addr
<1> QED
  BY <1>1, <1>2, KernelAssumption DEF Frames!LayoutAssumption, Frames!FRAME_COUNT, base_addr

(* ... and on the memory maps: Kernel's are sequences of regions.          *)
LEMMA AllocInput == Frames!InputAssumption
<1>1. Region = Frames!Region
  BY DEF Region, U64, Frames!Region, Frames!U64
<1> QED
  BY <1>1, KernelAssumption DEF Frames!InputAssumption

-----------------------------------------------------------------------------
(* Frames and Alloc are the same allocator.                                *)
LEMMA SameAllocator ==
    /\ (Frames!Init <=> Alloc!Init) /\ ([Frames!Next]_(Frames!vars) <=> [Alloc!Next]_(Alloc!vars))
    /\ (Frames!IInv <=> Alloc!IInv) /\ (Frames!HintInv <=> Alloc!HintInv)
    /\ (Frames!IInv <=> Alloc!IInv)' /\ (Frames!HintInv <=> Alloc!HintInv)'
    /\ [Frames!Pool!Next]_(Frames!Pool!vars) <=> [Alloc!Pool!Next]_(Alloc!Pool!vars)
<1>1. (Frames!Init <=> Alloc!Init) /\ ([Frames!Next]_(Frames!vars) <=> [Alloc!Next]_(Alloc!vars))
  BY Zenon DEF
     Frames!Init, Frames!NONE, Frames!Next, Frames!Step, Frames!InitRegion, Frames!skips,
     Frames!bytes_of, Frames!usize, Frames!addressable_bytes, Frames!clamped_end,
     Frames!saturating_add, Frames!overflows, Frames!end_byte, Frames!base_of, Frames!frames_in,
     Frames!saturating_sub, Frames!first_frame, Frames!frame_ceil, Frames!div_ceil, Frames!call,
     Frames!walk, Frames!begin_walk, Frames!scan, Frames!clients, Frames!MarkFreeDone,
     Frames!lesser, Frames!end_call, Frames!end_walk, Frames!ReserveLow, Frames!reserve_bytes,
     Frames!frame_floor, Frames!world, Frames!ReserveKernel, Frames!InitDone,
     Frames!SetFreeWord, Frames!in_bounds, Frames!mask, Frames!clipped_mask,
     Frames!clipped_taken, Frames!ones_shl, Frames!Bit, Frames!ones_shr, Frames!next_mask,
     Frames!SetOccupiedWord, Frames!ScanFrame, Frames!FRAME_COUNT, Frames!is_free,
     Frames!end_scan, Frames!ScanFallback, Frames!begin_scan, Frames!ScanMiss,
     Frames!AllocateDone, Frames!debug_assert, Frames!CheckWord, Frames!CheckDone,
     Frames!FreeDone, Frames!Client, Frames!Allocate, Frames!Free, Frames!Drop, Frames!Extent,
     Frames!vars,
     Alloc!Init, Alloc!NONE, Alloc!Next, Alloc!Step, Alloc!InitRegion, Alloc!skips,
     Alloc!bytes_of, Alloc!usize, Alloc!addressable_bytes, Alloc!clamped_end,
     Alloc!saturating_add, Alloc!overflows, Alloc!end_byte, Alloc!base_of, Alloc!frames_in,
     Alloc!saturating_sub, Alloc!first_frame, Alloc!frame_ceil, Alloc!div_ceil, Alloc!call,
     Alloc!walk, Alloc!begin_walk, Alloc!scan, Alloc!clients, Alloc!MarkFreeDone, Alloc!lesser,
     Alloc!end_call, Alloc!end_walk, Alloc!ReserveLow, Alloc!reserve_bytes, Alloc!frame_floor,
     Alloc!world, Alloc!ReserveKernel, Alloc!InitDone, Alloc!SetFreeWord, Alloc!in_bounds,
     Alloc!mask, Alloc!clipped_mask, Alloc!clipped_taken, Alloc!ones_shl, Alloc!Bit,
     Alloc!ones_shr, Alloc!next_mask, Alloc!SetOccupiedWord, Alloc!ScanFrame, Alloc!FRAME_COUNT,
     Alloc!is_free, Alloc!end_scan, Alloc!ScanFallback, Alloc!begin_scan, Alloc!ScanMiss,
     Alloc!AllocateDone, Alloc!debug_assert, Alloc!CheckWord, Alloc!CheckDone, Alloc!FreeDone,
     Alloc!Client, Alloc!Allocate, Alloc!Free, Alloc!Drop, Alloc!Extent, Alloc!vars
<1>2. (Frames!IInv <=> Alloc!IInv) /\ (Frames!HintInv <=> Alloc!HintInv)
  BY Zenon DEF
     Frames!IInv, Frames!Shape, Frames!TypeOK, Frames!Word, Frames!Bit, Frames!FRAME_COUNT,
     Frames!BootPc, Frames!CallPc, Frames!FrameRun, Frames!Frame, Frames!NONE, Frames!WalkShape,
     Frames!Walking, Frames!ScanShape, Frames!Scanning, Frames!RunShape, Frames!WalkProgress,
     Frames!Handled, Frames!Extent, Frames!FreeFrames, Frames!is_free, Frames!ScanProgress,
     Frames!Ownership, Frames!ExclusiveOwnership, Frames!Held, Frames!InTransit,
     Frames!Reservation, Frames!ReservedNeverIssued, Frames!Reserved, Frames!FrameBytes,
     Frames!base_addr, Frames!frame_floor, Frames!frame_ceil, Frames!div_ceil, Frames!Usability,
     Frames!Deliverable, Frames!Promised, Frames!Holds, Frames!Delivery, Frames!NoFrameLost,
     Frames!Checking, Frames!Overflowing, Frames!skips, Frames!bytes_of, Frames!usize,
     Frames!addressable_bytes, Frames!clamped_end, Frames!saturating_add, Frames!overflows,
     Frames!end_byte, Frames!base_of, Frames!HintInv,
     Alloc!IInv, Alloc!Shape, Alloc!TypeOK, Alloc!Word, Alloc!Bit, Alloc!FRAME_COUNT,
     Alloc!BootPc, Alloc!CallPc, Alloc!FrameRun, Alloc!Frame, Alloc!NONE, Alloc!WalkShape,
     Alloc!Walking, Alloc!ScanShape, Alloc!Scanning, Alloc!RunShape, Alloc!WalkProgress,
     Alloc!Handled, Alloc!Extent, Alloc!FreeFrames, Alloc!is_free, Alloc!ScanProgress,
     Alloc!Ownership, Alloc!ExclusiveOwnership, Alloc!Held, Alloc!InTransit, Alloc!Reservation,
     Alloc!ReservedNeverIssued, Alloc!Reserved, Alloc!FrameBytes, Alloc!base_addr,
     Alloc!frame_floor, Alloc!frame_ceil, Alloc!div_ceil, Alloc!Usability, Alloc!Deliverable,
     Alloc!Promised, Alloc!Holds, Alloc!Delivery, Alloc!NoFrameLost, Alloc!Checking,
     Alloc!Overflowing, Alloc!skips, Alloc!bytes_of, Alloc!usize, Alloc!addressable_bytes,
     Alloc!clamped_end, Alloc!saturating_add, Alloc!overflows, Alloc!end_byte, Alloc!base_of,
     Alloc!HintInv
<1>3. [Frames!Pool!Next]_(Frames!Pool!vars) <=> [Alloc!Pool!Next]_(Alloc!Pool!vars)
  BY Zenon DEF
     Frames!PoolPhase, Frames!PoolFree, Frames!PoolRuns, Frames!BootPc, Frames!FreeFrames,
     Frames!Frame, Frames!FRAME_COUNT, Frames!is_free, Frames!Extent, Frames!NONE,
     Frames!Pool!Next, Frames!Pool!vars, Frames!Pool!Publish, Frames!Pool!Halt,
     Frames!Pool!Allocate, Frames!Pool!Refuse, Frames!Pool!Free, Frames!Pool!Leak,
     Frames!Pool!Fits, Frames!Pool!Extent, Frames!Pool!Frame,
     Alloc!PoolPhase, Alloc!PoolFree, Alloc!PoolRuns, Alloc!BootPc, Alloc!FreeFrames,
     Alloc!Frame, Alloc!FRAME_COUNT, Alloc!is_free, Alloc!Extent, Alloc!NONE, Alloc!Pool!Next,
     Alloc!Pool!vars, Alloc!Pool!Publish, Alloc!Pool!Halt, Alloc!Pool!Allocate,
     Alloc!Pool!Refuse, Alloc!Pool!Free, Alloc!Pool!Leak, Alloc!Pool!Fits, Alloc!Pool!Extent,
     Alloc!Pool!Frame
<1>4. (Frames!IInv <=> Alloc!IInv)' /\ (Frames!HintInv <=> Alloc!HintInv)'
  BY <1>2, PTL
<1> QED
  BY <1>1, <1>2, <1>3, <1>4, Zenon

(* ... and overflow on the same regions.                                   *)
LEMMA SameOverflow ==
    ASSUME NEW region
    PROVE  /\ Frames!Overflowing(region) <=> Alloc!Overflowing(region)
           /\ Frames!skips(region) <=> Alloc!skips(region)
BY Zenon DEF
   Frames!Overflowing, Frames!skips, Frames!bytes_of, Frames!usize, Frames!addressable_bytes,
   Frames!clamped_end, Frames!saturating_add, Frames!overflows, Frames!end_byte,
   Frames!base_of,
   Alloc!Overflowing, Alloc!skips, Alloc!bytes_of, Alloc!usize, Alloc!addressable_bytes,
   Alloc!clamped_end, Alloc!saturating_add, Alloc!overflows, Alloc!end_byte, Alloc!base_of

(* What KernelSteps needs of the allocator.                                *)
LEMMA AllocatorKeeps == AllocatorPromises
<1> USE AllocLayout, AllocInput, FrameSizeAssumption, LimitAssumption, KernelAssumption
<1>1. Frames!Init => Frames!IInv
  BY Frames!IInvInit
<1>2. Frames!IInv /\ [Frames!Next]_(Frames!vars) => Frames!IInv'
  BY Frames!IInvStep
<1>3. Frames!Init => Frames!HintInv
  BY Frames!Cover DEF Frames!Init, Frames!HintInv, Frames!FreeFrames, Frames!is_free
<1>4. Frames!IInv /\ Frames!HintInv /\ [Frames!Next]_(Frames!vars) => Frames!HintInv'
  BY Frames!HintStep DEF Frames!IInv
<1>5. Frames!IInv /\ [Frames!Next]_(Frames!vars) => [Frames!Pool!Next]_(Frames!Pool!vars)
  BY Frames!RefinementStep
<1>6. \A region \in Region :
         Alloc!Overflowing(region) <=>
            ~Alloc!skips(region) /\ DEV_PROFILE /\ region.base + region.length >= LIMIT
  <2>1. Region = Frames!Region
    BY DEF Region, U64, Frames!Region, Frames!U64
  <2>2. \A region \in Region :
           Frames!Overflowing(region) <=>
              ~Frames!skips(region) /\ DEV_PROFILE /\ region.base + region.length >= LIMIT
    BY <2>1, Frames!OverflowRegion, Zenon
  <2> QED
    BY <2>2, SameOverflow, Zenon
<1> QED
  BY <1>1, <1>2, <1>3, <1>4, <1>5, <1>6, SameAllocator, Zenon DEF AllocatorPromises

-----------------------------------------------------------------------------
(* Its tables keep what PagingProofs shows.                                *)

(* The proofs about Paging, for the tables of Kernel.                      *)
Pages == INSTANCE PagingProofs
         WITH free <- Granted, taken <- leaked, pc <- pg_pc, Images <- {IMAGE},
              FreeSets <- SUBSET {f \in Page : f # 0 /\ f \notin IMAGE.phys_start .. IMAGE.end - 1}

(* Paging's assumptions on the image and on the free frames.               *)
LEMMA TablesLayout == Pages!PagingAssumption
<1>1. IMAGE.end \in 0 .. ENTRY_COUNT
  BY Symbols
<1>2. IMAGE \in Pages!Image
  BY <1>1, KernelAssumption DEF Pages!Image, Index, Pages!Index
<1> QED
  BY <1>2, KernelAssumption DEF Pages!PagingAssumption, Pages!RECURSIVE_INDEX, Page, Pages!Page

(* ... and on the width of an entry's flags.                               *)
LEMMA TablesEntries == ENTRY_COUNT \in Nat \ {0} /\ FRAME_SIZE % (2 * Pages!PAGE_SIZE_BIT) = 0
BY EntryAssumption DEF PAGE_SIZE_BIT, Pages!PAGE_SIZE_BIT

-----------------------------------------------------------------------------
(* Pages and Tables are the same tables.                                   *)
LEMMA SameTables ==
    /\ (Pages!Init <=> Tables!Init) /\ (Pages!IInv <=> Tables!IInv)
    /\ (Pages!Init <=> Tables!Init)' /\ (Pages!IInv <=> Tables!IInv)'
    /\ [Pages!Next]_(Pages!vars) <=> [Tables!Next]_(Tables!vars)
    /\ Pages!AddressSpaceExact <=> Tables!AddressSpaceExact
    /\ Pages!RecursiveWindow <=> Tables!RecursiveWindow
    /\ Pages!NoWritableAlias <=> Tables!NoWritableAlias
    /\ (Pages!Spending <=> Tables!Spending) /\ (Pages!Spending <=> Tables!Spending)'
    /\ Pages!Sufficient <=> Tables!Sufficient
<1>1. Pages!Init <=> Tables!Init
  BY Zenon DEF
     Pages!Init, Pages!bootstrap, Pages!Index, Pages!for_huge_page, Pages!base_addr,
     Pages!PAGE_SIZE_BIT, Pages!KERNEL_RW, Pages!PRESENT, Pages!WRITABLE, Pages!EMPTY,
     Tables!Init, Tables!bootstrap, Tables!Index, Tables!for_huge_page, Tables!base_addr,
     Tables!PAGE_SIZE_BIT, Tables!KERNEL_RW, Tables!PRESENT, Tables!WRITABLE, Tables!EMPTY
<1>2. Pages!IInv <=> Tables!IInv
  BY Zenon DEF
     Pages!IInv, Pages!Ranges, Pages!Page, Pages!Index, Pages!bootstrap, Pages!for_huge_page,
     Pages!base_addr, Pages!PAGE_SIZE_BIT, Pages!KERNEL_RW, Pages!PRESENT, Pages!WRITABLE,
     Pages!EMPTY, Pages!Built, Pages!high_page, Pages!from_indices, Pages!Directory,
     Pages!RECURSIVE_INDEX, Pages!for_table, Pages!Slots, Pages!Filled, Pages!Mapped,
     Pages!KernelPages, Pages!GuardPage, Pages!LowPages, Pages!pd_index, Pages!table_frame,
     Pages!frame_floor, Pages!flags_of, Pages!Intended, Pages!new_pte, Pages!kernel_flags,
     Pages!KERNEL_RO,
     Tables!IInv, Tables!Ranges, Tables!Page, Tables!Index, Tables!bootstrap,
     Tables!for_huge_page, Tables!base_addr, Tables!PAGE_SIZE_BIT, Tables!KERNEL_RW,
     Tables!PRESENT, Tables!WRITABLE, Tables!EMPTY, Tables!Built, Tables!high_page,
     Tables!from_indices, Tables!Directory, Tables!RECURSIVE_INDEX, Tables!for_table,
     Tables!Slots, Tables!Filled, Tables!Mapped, Tables!KernelPages, Tables!GuardPage,
     Tables!LowPages, Tables!pd_index, Tables!table_frame, Tables!frame_floor, Tables!flags_of,
     Tables!Intended, Tables!new_pte, Tables!kernel_flags, Tables!KERNEL_RO
<1>3. [Pages!Next]_(Pages!vars) <=> [Tables!Next]_(Tables!vars)
  BY Zenon DEF
     Pages!Next, Pages!NewDirectory, Pages!can_allocate, Pages!identity_mapped,
     Pages!BOOTSTRAP_IDENTITY_LIMIT, Pages!allocated, Pages!alloc_frame, Pages!build_directory,
     Pages!reaching, Pages!behind, Pages!translate, Pages!pd_index, Pages!is_present,
     Pages!contains, Pages!flags_of, Pages!PRESENT, Pages!FAULT, Pages!is_huge,
     Pages!PAGE_SIZE_BIT, Pages!table_frame, Pages!frame_floor, Pages!pt_index,
     Pages!is_writable, Pages!WRITABLE, Pages!walk_table, Pages!write, Pages!zero_frame,
     Pages!Index, Pages!EMPTY, Pages!RECURSIVE_INDEX, Pages!for_table, Pages!base_addr,
     Pages!KERNEL_RW, Pages!high_page, Pages!from_indices, Pages!MapPage, Pages!mapping,
     Pages!skips_guard, Pages!low_limit, Pages!has_table, Pages!pde_of, Pages!fill_slot,
     Pages!new_pte, Pages!target, Pages!kernel_frame, Pages!rights, Pages!kernel_flags,
     Pages!KERNEL_RO, Pages!next_iteration, Pages!MapPageInNewTable, Pages!map_in_new_table,
     Pages!open_slot, Pages!SkipGuard, Pages!KernelMapped, Pages!Panic, Pages!needs_frame,
     Pages!LoadCr3, Pages!SetWp, Pages!vars, Pages!Min,
     Tables!Next, Tables!NewDirectory, Tables!can_allocate, Tables!identity_mapped,
     Tables!BOOTSTRAP_IDENTITY_LIMIT, Tables!allocated, Tables!alloc_frame,
     Tables!build_directory, Tables!reaching, Tables!behind, Tables!translate, Tables!pd_index,
     Tables!is_present, Tables!contains, Tables!flags_of, Tables!PRESENT, Tables!FAULT,
     Tables!is_huge, Tables!PAGE_SIZE_BIT, Tables!table_frame, Tables!frame_floor,
     Tables!pt_index, Tables!is_writable, Tables!WRITABLE, Tables!walk_table, Tables!write,
     Tables!zero_frame, Tables!Index, Tables!EMPTY, Tables!RECURSIVE_INDEX, Tables!for_table,
     Tables!base_addr, Tables!KERNEL_RW, Tables!high_page, Tables!from_indices, Tables!MapPage,
     Tables!mapping, Tables!skips_guard, Tables!low_limit, Tables!has_table, Tables!pde_of,
     Tables!fill_slot, Tables!new_pte, Tables!target, Tables!kernel_frame, Tables!rights,
     Tables!kernel_flags, Tables!KERNEL_RO, Tables!next_iteration, Tables!MapPageInNewTable,
     Tables!map_in_new_table, Tables!open_slot, Tables!SkipGuard, Tables!KernelMapped,
     Tables!Panic, Tables!needs_frame, Tables!LoadCr3, Tables!SetWp, Tables!vars, Tables!Min
<1>4. /\ Pages!AddressSpaceExact <=> Tables!AddressSpaceExact
      /\ Pages!RecursiveWindow <=> Tables!RecursiveWindow
      /\ Pages!NoWritableAlias <=> Tables!NoWritableAlias
  BY Zenon DEF
     Pages!AddressSpaceExact, Pages!Page, Pages!pd_index, Pages!RECURSIVE_INDEX, Pages!Mapping,
     Pages!translate, Pages!is_present, Pages!contains, Pages!flags_of, Pages!PRESENT,
     Pages!FAULT, Pages!is_huge, Pages!PAGE_SIZE_BIT, Pages!table_frame, Pages!frame_floor,
     Pages!pt_index, Pages!is_writable, Pages!WRITABLE, Pages!walk_table, Pages!Expected,
     Pages!KernelPages, Pages!high_page, Pages!from_indices, Pages!GuardPage, Pages!LowPages,
     Pages!RecursiveWindow, Pages!RecursivePage, Pages!Index, Pages!NoWritableAlias,
     Tables!AddressSpaceExact, Tables!Page, Tables!pd_index, Tables!RECURSIVE_INDEX,
     Tables!Mapping, Tables!translate, Tables!is_present, Tables!contains, Tables!flags_of,
     Tables!PRESENT, Tables!FAULT, Tables!is_huge, Tables!PAGE_SIZE_BIT, Tables!table_frame,
     Tables!frame_floor, Tables!pt_index, Tables!is_writable, Tables!WRITABLE,
     Tables!walk_table, Tables!Expected, Tables!KernelPages, Tables!high_page,
     Tables!from_indices, Tables!GuardPage, Tables!LowPages, Tables!RecursiveWindow,
     Tables!RecursivePage, Tables!Index, Tables!NoWritableAlias
<1>5. Pages!Spending <=> Tables!Spending
  BY Zenon DEF
     Pages!Spending, Pages!Built, Pages!Slots, Pages!for_table, Pages!base_addr,
     Pages!KERNEL_RW, Pages!PRESENT, Pages!WRITABLE, Pages!identity_mapped,
     Pages!BOOTSTRAP_IDENTITY_LIMIT, Pages!Index,
     Tables!Spending, Tables!Built, Tables!Slots, Tables!for_table, Tables!base_addr,
     Tables!KERNEL_RW, Tables!PRESENT, Tables!WRITABLE, Tables!identity_mapped,
     Tables!BOOTSTRAP_IDENTITY_LIMIT, Tables!Index
<1>6. Pages!Sufficient <=> Tables!Sufficient
  BY Zenon DEF Pages!Cardinality, Tables!Cardinality,
     Pages!Sufficient, Pages!Reachable, Pages!identity_mapped, Pages!BOOTSTRAP_IDENTITY_LIMIT,
     Pages!FramesNeeded, Pages!pd_index, Pages!KernelPages, Pages!high_page, Pages!from_indices,
     Pages!GuardPage, Pages!LowPages,
     Tables!Sufficient, Tables!Reachable, Tables!identity_mapped,
     Tables!BOOTSTRAP_IDENTITY_LIMIT, Tables!FramesNeeded, Tables!pd_index, Tables!KernelPages,
     Tables!high_page, Tables!from_indices, Tables!GuardPage, Tables!LowPages
<1>7. /\ (Pages!Init <=> Tables!Init)' /\ (Pages!IInv <=> Tables!IInv)'
      /\ (Pages!Spending <=> Tables!Spending)'
  BY <1>1, <1>2, <1>5, PTL
<1> QED
  BY <1>1, <1>2, <1>3, <1>4, <1>5, <1>6, <1>7, Zenon

(* What KernelSteps needs of paging.                                       *)
LEMMA PagingKeeps == PagingPromises
<1> USE TablesLayout, FrameSizeAssumption, TablesEntries, BootMapAssumption
<1>1. Pages!Init => Pages!IInv
  BY Pages!InitIInv
<1>2. Pages!Init' => Pages!IInv'
  BY <1>1, PTL
<1>3. Pages!IInv /\ [Pages!Next]_(Pages!vars) => Pages!IInv'
  BY Pages!StepIInv
<1>4. Pages!IInv => Pages!AddressSpaceExact /\ Pages!RecursiveWindow /\ Pages!NoWritableAlias
  BY Pages!Exact, Pages!Window, Pages!NoAlias
<1>5. \A t \in Nat : Tables!table_frame(Tables!for_table(t, Tables!KERNEL_RW)) = t
  <2>1. \A t \in Nat : Pages!table_frame(Pages!for_table(t, Pages!KERNEL_RW)) = t
    BY Pages!Entry
  <2> QED
    BY <2>1, Zenon
    DEF Pages!table_frame, Pages!for_table, Pages!KERNEL_RW, Pages!PRESENT, Pages!WRITABLE,
        Pages!frame_floor, Pages!flags_of, Pages!base_addr,
        Tables!table_frame, Tables!for_table, Tables!KERNEL_RW, Tables!PRESENT, Tables!WRITABLE,
        Tables!frame_floor, Tables!flags_of, Tables!base_addr
<1>6. Pages!Init => Pages!Spending
  BY Pages!InitSpending
<1>7. Pages!Init' => Pages!Spending'
  BY <1>6, PTL
<1>8. Pages!IInv /\ Pages!Spending /\ [Pages!Next]_(Pages!vars) => Pages!Spending'
  BY Pages!SpendingStep
<1>9. Pages!IInv /\ Pages!Spending =>
         (pg_pc = "panicked" => ~Pages!Sufficient) /\ (pg_pc = "done" => Pages!Sufficient)
  BY Pages!Outcome
<1>10. Tables!IInv /\ Tables!Spending =>
         (pg_pc = "panicked" => ~Tables!Sufficient) /\ (pg_pc = "done" => Tables!Sufficient)
  BY <1>9, SameTables, Zenon
<1> QED
  BY <1>2, <1>3, <1>4, <1>5, <1>7, <1>8, <1>10, SameTables, Zenon DEF PagingPromises

-----------------------------------------------------------------------------
(* The theorems.                                                           *)

(* The invariant of KernelSteps, with the components' promises kept, and   *)
(* those of the report and of the outcome.                                 *)
LEMMA Invariance == Spec => []KInv /\ []ReportInv /\ []OutcomeInv
<1>1. Init => KInv /\ ReportInv /\ OutcomeInv
  BY InitKInv, InitReport, InitOutcome, AllocatorKeeps, Zenon
<1>2. KInv /\ [Next]_vars => KInv'
  BY StepKInv, AllocatorKeeps, PagingKeeps, Zenon
<1>3. KInv /\ ReportInv /\ [Next]_vars => ReportInv'
  BY StepReport, Zenon
<1>4. KInv /\ KInv' /\ OutcomeInv /\ [Next]_vars => OutcomeInv'
  BY StepOutcome, AllocatorKeeps, PagingKeeps, Zenon
<1> QED
  BY <1>1, <1>2, <1>3, <1>4, PTL DEF Spec

(* With the bitmap behind it, paging starts as Paging assumes and makes    *)
(* only the steps Paging makes with its abstract set of free frames        *)
(* (memory::init; alloc_frame).                                            *)
THEOREM Drives_Paging == Spec => DrivesPaging
<1> DEFINE Drives == /\ stage = "allocator" /\ stage' = "paging" => Tables!Init'
                     /\ stage = "paging" => [Tables!Next]_(Tables!vars)
<1>1. KInv /\ KInv' /\ [Next]_vars => [Drives]_vars
  BY StepDrives, AllocatorKeeps, Zenon
<1> QED
  BY Invariance, <1>1, PTL DEF Spec, DrivesPaging

(* Once the kernel idles on its own directory, the directory and its       *)
(* tables lie in usable memory outside the kernel, and the allocator never *)
(* gives them away (alloc_frame).                                          *)
THEOREM Tables_Owned == Spec => []TablesAreOwned
<1>1. KInv => TablesAreOwned
  BY Owned, PagingKeeps, Zenon
<1> QED
  BY Invariance, <1>1, PTL

(* What Paging shows of the address space holds in the booted kernel, with *)
(* the frames the bitmap allocator really hands out (memory::init).        *)
THEOREM Booted_Address_Space ==
    Spec => [](stage = "idle" => /\ Tables!AddressSpaceExact /\ Tables!RecursiveWindow
                                 /\ Tables!NoWritableAlias)
<1>1. KInv => (stage = "idle" => /\ Tables!AddressSpaceExact /\ Tables!RecursiveWindow
                                 /\ Tables!NoWritableAlias)
  BY PagingKeeps, Zenon DEF PagingPromises, KInv, Link
<1> QED
  BY Invariance, <1>1, PTL

(* When no call is in progress, the bytes of all free frames together are  *)
(* at most the total print_memory_map has shown (its "boot self-check      *)
(* ... before the frame allocator begins to trust" the map), for every     *)
(* map: overlapping regions, regions that start or end inside a frame, and *)
(* regions that reach past the address space.                              *)
THEOREM Free_Within_Report == Spec => []FreeWithinReport
<1>1. KInv /\ ReportInv => FreeWithinReport
  BY ReportedEnough, Zenon
<1> QED
  BY Invariance, <1>1, PTL

(* kernel_main reaches its idle loop only from a bootloader, a memory map  *)
(* and free frames that suffice, and gives up only without them: whether   *)
(* it boots is settled by what it is handed (BootSucceeds), whatever       *)
(* happens on the way (kernel_main, memory::init, alloc_frame).            *)
THEOREM Boot_Outcome ==
    Spec => (BootSucceeds => [](stage # "panicked")) /\ (~BootSucceeds => [](stage # "idle"))
<1>1. KInv /\ OutcomeInv => (BootSucceeds => stage # "panicked") /\ (~BootSucceeds => stage # "idle")
  BY OutcomeRight, AllocatorKeeps, PagingKeeps, Zenon
<1>2. [Next]_vars => (BootSucceeds' <=> BootSucceeds)
  BY SameOutcome
<1> QED
  BY Invariance, <1>1, <1>2, PTL DEF Spec
=============================================================================
