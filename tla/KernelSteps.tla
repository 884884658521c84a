---------------------------- MODULE KernelSteps ----------------------------
(***************************************************************************)
(* The invariant of the composition (src/lib.rs, src/memory/mod.rs) and    *)
(* its steps, from what the allocator and paging each promise on their     *)
(* own: AllocatorPromises and PagingPromises, which KernelProofs           *)
(* discharges.                                                             *)
(***************************************************************************)
EXTENDS KernelInv, TLAPS

-----------------------------------------------------------------------------
(* The linker's symbols, as numbers.                                       *)
LEMMA Symbols ==
    /\ IMAGE.phys_start \in Nat /\ IMAGE.end \in Nat
    /\ 0 < IMAGE.phys_start /\ IMAGE.phys_start < IMAGE.end
    /\ IMAGE.end < WORD_COUNT * WORD_BITS /\ IMAGE.end <= ENTRY_COUNT
    /\ WORD_COUNT * WORD_BITS \in Nat /\ FRAME_SIZE \in Nat /\ FRAME_SIZE > 0
BY KernelAssumption, BootMapAssumption, EntryAssumption, FrameSizeAssumption DEF Index, FrameSet

(* Frames are ordered as their first bytes are.                            *)
LEMMA Addresses ==
    \A f, g \in Nat : /\ base_addr(f) \in Nat
                      /\ f <= g => base_addr(f) <= base_addr(g)
                      /\ f < g => base_addr(f) + FRAME_SIZE <= base_addr(g)
BY Symbols DEF base_addr

-----------------------------------------------------------------------------
(* The allocator's steps are FrameBitmap's.                                *)
LEMMA AllocatorRuns == KInv /\ [Next]_vars => [Alloc!Next]_(Alloc!vars)
<1> SUFFICES ASSUME KInv, [Next]_vars PROVE [Alloc!Next]_(Alloc!vars)
    OBVIOUS
<1>1. UNCHANGED allocator => UNCHANGED Alloc!vars
  BY DEF allocator, Alloc!vars, Alloc!world, Alloc!call, Alloc!walk, Alloc!scan, Alloc!clients
<1>2. CASE UNCHANGED vars \/ CheckMagic \/ PrintRegion \/ EnterMemoryInit \/ StepPaging
  BY <1>1, <1>2 DEF vars, CheckMagic, PrintRegion, EnterMemoryInit, StepPaging
<1>3. CASE InitAllocator \/ SearchFrame
  BY <1>3 DEF InitAllocator, SearchFrame, Alloc!Next
<1>4. CASE AskForFrame
  BY <1>4 DEF AskForFrame, Alloc!Next, Alloc!Client
<1>5. CASE UseFrame
  <2>1. CASE UNCHANGED allocator
    BY <2>1, <1>1
  <2>2. CASE ~UNCHANGED allocator
    <3>1. reply.start # Alloc!NONE /\ keep_frame([start |-> reply.start, len |-> 1])
      BY <1>5, <2>2 DEF UseFrame
    <3>2. [start |-> reply.start, len |-> 1] \in runs
      BY <1>5, <3>1 DEF UseFrame, KInv, Link, Answered, Searching
    <3> QED
      BY <3>1, <3>2 DEF keep_frame, Alloc!Next, Alloc!Client
  <2> QED
    BY <2>1, <2>2
<1> QED
  BY <1>2, <1>3, <1>4, <1>5 DEF Next

(* The frames of no run, and of one run.                                   *)
HeldShape ==
    /\ runs = {} => Alloc!Held = {}
    /\ \A f, n : runs = {[start |-> f, len |-> n]} => Alloc!Held = Alloc!Extent(f, n)

(* They are what Held says, now and after a step.                          *)
LEMMA HeldFrames == HeldShape
<1>1. \A x : x \in Alloc!Held <=> \E run \in runs : x \in Alloc!Extent(run.start, run.len)
  BY DEF Alloc!Held
<1>2. ASSUME NEW f, NEW n, runs = {[start |-> f, len |-> n]}
      PROVE  Alloc!Held = Alloc!Extent(f, n)
  <2> DEFINE run == [start |-> f, len |-> n]
  <2>1. run.start = f /\ run.len = n
    OBVIOUS
  <2> HIDE DEF run
  <2>2. runs = {run}
    BY <1>2 DEF run
  <2> QED
    BY <1>1, <2>1, <2>2, Zenon
<1>3. runs = {} => Alloc!Held = {}
  BY <1>1, Zenon
<1> QED
  BY <1>2, <1>3, Zenon DEF HeldShape

(* ... the latter.                                                         *)
LEMMA HeldFramesNext == HeldShape'
BY HeldFrames, PTL

(* Free frames are frame numbers.                                          *)
LEMMA FreeNumbers == Alloc!Frame = FrameSet /\ \A f \in Alloc!FreeFrames : f \in FrameSet /\ f \in Nat
<1>1. Alloc!Frame = FrameSet
  BY DEF Alloc!Frame, Alloc!FRAME_COUNT, FrameSet
<1>2. \A f \in Alloc!FreeFrames : f \in Alloc!Frame
  BY Zenon DEF Alloc!FreeFrames
<1>3. \A f \in FrameSet : f \in Nat
  BY Symbols DEF FrameSet
<1> QED
  BY <1>1, <1>2, <1>3, Zenon

(* Paging's frames stay as they are while the allocator searches, and the  *)
(* search ends with an answer.                                             *)
LEMMA Searched ==
    ASSUME AllocatorPromises, KInv, fb_pc \in Searching, runs = {}, Alloc!Step
    PROVE  /\ Granted' = Granted /\ leaked' = leaked
           /\ (fb_pc' \in Searching /\ runs' = {}) \/ (fb_pc' = "ready" /\ Answered')
<1>1. Alloc!ScanFrame \/ Alloc!ScanFallback \/ Alloc!ScanMiss \/ Alloc!SetOccupiedWord
      \/ Alloc!AllocateDone
  BY DEF Searching, Alloc!Step, Alloc!InitRegion, Alloc!MarkFreeDone, Alloc!ReserveLow,
         Alloc!ReserveKernel, Alloc!InitDone, Alloc!SetFreeWord, Alloc!CheckWord,
         Alloc!CheckDone, Alloc!FreeDone
<1>2. [Alloc!Pool!Next]_(Alloc!Pool!vars) /\ Alloc!PoolPhase = "ready"
  BY DEF AllocatorPromises, KInv, Alloc!Next, Alloc!PoolPhase, Searching, Alloc!BootPc
<1>3. fb_pc' \in Searching \cup {"ready"} /\ leaked' = leaked
  <2>1. Alloc!PoolPhase' = "ready"
    BY <1>2 DEF Alloc!Pool!Next, Alloc!Pool!vars, Alloc!Pool!Publish, Alloc!Pool!Halt,
                Alloc!Pool!Refuse, Alloc!Pool!Allocate, Alloc!Pool!Free, Alloc!Pool!Leak
  <2>2. fb_pc' # "panicked"
    BY <2>1 DEF Alloc!PoolPhase, Alloc!BootPc
  <2> QED
    BY <1>1, <2>2 DEF Searching, Alloc!ScanFrame, Alloc!ScanFallback, Alloc!ScanMiss,
        Alloc!SetOccupiedWord, Alloc!AllocateDone, Alloc!clients
<1>4. Granted' = Granted
  <2>1. /\ Alloc!PoolRuns = {} /\ Alloc!PoolRuns' = runs' /\ Granted = Alloc!PoolFree
    BY <1>3, HeldFrames DEF Searching, Alloc!PoolRuns, Granted, HeldShape
  <2>2. CASE UNCHANGED Alloc!Pool!vars \/ \E n \in {1} : Alloc!Pool!Refuse(n)
    <3>1. Alloc!PoolFree' = Alloc!PoolFree /\ runs' = {}
      BY <2>1, <2>2 DEF Alloc!Pool!vars, Alloc!Pool!Refuse
    <3> QED
      BY <2>1, <3>1, HeldFramesNext DEF Granted, HeldShape
  <2>3. CASE \E n \in {1}, f \in Alloc!Pool!Frame : Alloc!Pool!Allocate(n, f)
    <3>1. PICK f \in Alloc!Pool!Frame : Alloc!Pool!Allocate(1, f)
      BY <2>3
    <3>2. /\ Alloc!PoolFree' = Alloc!PoolFree \ Alloc!Extent(f, 1)
          /\ Alloc!Extent(f, 1) \subseteq Alloc!PoolFree
          /\ runs' = {[start |-> f, len |-> 1]}
      BY <2>1, <3>1 DEF Alloc!Pool!Allocate, Alloc!Pool!Fits, Alloc!Pool!Extent, Alloc!Extent
    <3>3. Alloc!Held' = Alloc!Extent(f, 1)
      BY <3>2, HeldFramesNext, Zenon DEF HeldShape
    <3> QED
      BY <2>1, <3>2, <3>3 DEF Granted
  <2> QED
    BY <1>2, <2>1, <2>2, <2>3
    DEF Alloc!Pool!Next, Alloc!Pool!Publish, Alloc!Pool!Halt, Alloc!Pool!Free, Alloc!Pool!Leak
<1>5. CASE Alloc!ScanFrame \/ Alloc!ScanFallback \/ Alloc!SetOccupiedWord
  BY <1>3, <1>4, <1>5 DEF Searching, Alloc!ScanFrame, Alloc!ScanFallback, Alloc!SetOccupiedWord,
      Alloc!clients
<1>6. CASE Alloc!ScanMiss
  <2>1. /\ fb_pc' = "ready" /\ runs' = {} /\ reply'.start = Alloc!NONE /\ bitmap' = bitmap
        /\ Alloc!FreeFrames = {}
    BY <1>6 DEF Alloc!ScanMiss, KInv, Alloc!HintInv
  <2> QED
    BY <1>3, <1>4, <2>1 DEF Answered, Alloc!FreeFrames, Alloc!is_free
<1>7. CASE Alloc!AllocateDone
  <2>1. start \in Nat /\ count = 1 /\ \A f \in Alloc!FreeFrames : f >= start
    BY <1>7 DEF Alloc!AllocateDone, KInv, Alloc!IInv, Alloc!Shape, Alloc!TypeOK,
        Alloc!WalkShape, Alloc!Walking, Alloc!HintInv
  <2>2. /\ fb_pc' = "ready" /\ runs' = {[start |-> start, len |-> 1]}
        /\ reply'.start = start /\ Alloc!FreeFrames' = Alloc!FreeFrames
    BY <1>3, <1>7, <2>1 DEF Alloc!AllocateDone, Searching, Alloc!FreeFrames, Alloc!is_free
  <2>3. reply'.start # Alloc!NONE /\ \A f \in Alloc!FreeFrames : start <= f
    BY <2>1, <2>2, FreeNumbers DEF Alloc!NONE
  <2> QED
    BY <1>3, <1>4, <2>2, <2>3 DEF Answered
<1> QED
  BY <1>1, <1>5, <1>6, <1>7

(* What paging sees of an answer: the lowest frame it may get, or none.    *)
LEMMA Answer ==
    ASSUME KInv, stage = "paging", asked, fb_pc = "ready"
    PROVE  /\ reply.start = Alloc!NONE => Granted = {}
           /\ reply.start # Alloc!NONE =>
                 /\ Alloc!Held = {reply.start} /\ Granted = Alloc!FreeFrames \cup {reply.start}
                 /\ reply.start \in FrameSet /\ Tables!allocated = reply.start
<1>1. Answered /\ Granted = Alloc!FreeFrames \cup Alloc!Held
  BY DEF KInv, Link, Searching, Granted, Alloc!PoolFree, Alloc!BootPc
<1>2. CASE reply.start = Alloc!NONE
  BY <1>1, <1>2, HeldFrames DEF Answered, HeldShape
<1>3. CASE reply.start # Alloc!NONE
  <2> DEFINE f == reply.start
  <2>1. runs = {[start |-> f, len |-> 1]} /\ \A g \in Alloc!FreeFrames : f <= g
    BY <1>1, <1>3, Zenon DEF Answered
  <2>2. f \in FrameSet
    BY <1>3, FreeNumbers DEF KInv, Alloc!IInv, Alloc!Shape, Alloc!TypeOK
  <2>3. f \in Nat
    BY <2>2, Symbols DEF FrameSet
  <2> HIDE DEF f
  <2>4. Alloc!Held = {f}
    <3>1. Alloc!Held = Alloc!Extent(f, 1)
      BY <2>1, HeldFrames, Zenon DEF HeldShape
    <3> QED
      BY <2>3, <3>1 DEF Alloc!Extent
  <2>5. Granted = Alloc!FreeFrames \cup {f}
    BY <1>1, <2>4, Zenon
  <2>6. f \in Granted /\ \A g \in Granted : f <= g /\ g \in Nat
    BY <2>1, <2>3, <2>5, FreeNumbers
  <2>7. \A x \in Granted : (\A g \in Granted : x <= g) => x = f
    BY <2>6
  <2>8. Tables!allocated = f
    BY <2>6, <2>7, Zenon DEF Tables!allocated, Tables!Min
  <2> QED
    BY <1>3, <2>2, <2>4, <2>5, <2>8, Zenon DEF f
<1> QED
  BY <1>2, <1>3

(* alloc_frame takes the frame out of what paging may get.                 *)
LEMMA FrameKept ==
    ASSUME KInv, stage = "paging", asked, fb_pc = "ready", reply.start # Alloc!NONE,
           keep_frame([start |-> reply.start, len |-> 1])
    PROVE  /\ Granted' = Granted \ {reply.start} /\ leaked' = leaked \cup {reply.start}
           /\ runs' = {} /\ fb_pc' = "ready"
<1>1. /\ runs = {[start |-> reply.start, len |-> 1]} /\ Alloc!Held = {reply.start}
      /\ Granted = Alloc!FreeFrames \cup {reply.start}
  BY Answer DEF KInv, Link, Searching, Answered
<1>2. reply.start \notin Alloc!FreeFrames
  BY <1>1 DEF KInv, Alloc!IInv, Alloc!Ownership, Alloc!ExclusiveOwnership
<1>3. /\ runs' = {} /\ fb_pc' = "ready" /\ bitmap' = bitmap
      /\ leaked' = leaked \cup Alloc!Extent(reply.start, 1)
  BY <1>1 DEF keep_frame, Alloc!Drop
<1>4. Alloc!Extent(reply.start, 1) = {reply.start}
  BY <1>1, HeldFrames, Zenon DEF HeldShape
<1>5. Alloc!PoolFree' = Alloc!FreeFrames /\ Alloc!Held' = {}
  BY <1>3, HeldFramesNext DEF HeldShape, Alloc!PoolFree, Alloc!BootPc, Alloc!FreeFrames, Alloc!is_free
<1> QED
  BY <1>1, <1>2, <1>3, <1>4, <1>5 DEF Granted

(* While the allocator stands still so do paging's frames.                 *)
LEMMA GrantedUnchanged == UNCHANGED allocator => Granted' = Granted /\ leaked' = leaked
BY DEF allocator, Granted, Alloc!PoolFree, Alloc!Held, Alloc!FreeFrames, Alloc!is_free, Alloc!Extent

(* The allocator has nothing to do between calls, and its own steps touch  *)
(* neither the memory map nor what was leaked.                             *)
LEMMA AllocatorIdle == Alloc!Step => fb_pc # "ready" /\ mmap' = mmap /\ leaked' = leaked
BY Zenon DEF Alloc!Step, Alloc!InitRegion, Alloc!MarkFreeDone, Alloc!ReserveLow,
   Alloc!ReserveKernel, Alloc!InitDone, Alloc!SetFreeWord, Alloc!SetOccupiedWord,
   Alloc!ScanFrame, Alloc!ScanFallback, Alloc!ScanMiss, Alloc!AllocateDone, Alloc!CheckWord,
   Alloc!CheckDone, Alloc!FreeDone, Alloc!world, Alloc!clients

-----------------------------------------------------------------------------
(* Paging's steps are Paging's.                                            *)
LEMMA PagingRuns ==
    ASSUME AllocatorPromises, KInv, [Next]_vars, stage = "paging"
    PROVE  [Tables!Next]_(Tables!vars)
<1>1. (Granted' = Granted /\ leaked' = leaked /\ UNCHANGED tables) => UNCHANGED Tables!vars
  BY Zenon DEF tables, Tables!vars
<1>2. CASE UNCHANGED vars
  <2>1. UNCHANGED allocator /\ UNCHANGED tables
    BY <1>2, Zenon DEF vars
  <2> QED
    BY <1>1, <2>1, GrantedUnchanged, Zenon
<1>3. CASE AskForFrame
  <2>1. /\ fb_pc = "ready" /\ fb_pc' \in {"ready", "scan_hint"} /\ bitmap' = bitmap
        /\ runs' = runs /\ leaked' = leaked /\ UNCHANGED tables
    BY <1>3, Zenon DEF AskForFrame, Alloc!Allocate
  <2>2. Alloc!PoolFree = Alloc!FreeFrames /\ Alloc!PoolFree' = Alloc!FreeFrames'
    BY <2>1 DEF Alloc!PoolFree, Alloc!BootPc
  <2>3. Alloc!FreeFrames' = Alloc!FreeFrames /\ Alloc!Held' = Alloc!Held
    BY <2>1, Zenon DEF Alloc!FreeFrames, Alloc!is_free, Alloc!Held
  <2> QED
    BY <1>1, <2>1, <2>2, <2>3, Zenon DEF Granted
<1>4. CASE SearchFrame
  <2>1. fb_pc \in Searching /\ runs = {} /\ Alloc!Step /\ UNCHANGED tables
    BY <1>4, AllocatorIdle, Zenon DEF SearchFrame, KInv, Link
  <2> QED
    BY <1>1, <2>1, Searched, Zenon
<1>5. CASE UseFrame
  <2> DEFINE f == reply.start
             fails == f = Alloc!NONE \/ ~Tables!identity_mapped(f)
  <2>1. asked /\ fb_pc = "ready" /\ Tables!needs_frame
    BY <1>5, Zenon DEF UseFrame, KInv, Link
  <2>2. CASE fails
    <3>1. /\ pg_pc' = "panicked" /\ UNCHANGED allocator
          /\ UNCHANGED <<image, memory, pd_frame, next_page, cr3, wp>>
      BY <1>5, <2>2, Zenon DEF UseFrame
    <3>2. ~Tables!can_allocate
      BY <2>1, <2>2, Answer, Zenon DEF Tables!can_allocate
    <3> QED
      BY <2>1, <3>1, <3>2, GrantedUnchanged, Zenon DEF Tables!Next, Tables!Panic
  <2>3. CASE ~fails
    <3>1. /\ keep_frame([start |-> f, len |-> 1])
          /\ IF pg_pc = "directory" THEN Tables!build_directory(f) ELSE Tables!map_in_new_table(f)
      BY <1>5, <2>3, Zenon DEF UseFrame
    <3>2. /\ Granted' = Granted \ {f} /\ leaked' = leaked \cup {f}
          /\ Tables!allocated = f /\ f \in Granted
      BY <2>1, <2>3, <3>1, FrameKept, Answer, Zenon
    <3>3. Tables!can_allocate /\ Tables!alloc_frame
      BY <2>3, <3>2, Zenon DEF Tables!can_allocate, Tables!alloc_frame
    <3>4. CASE pg_pc = "directory"
      BY <3>1, <3>2, <3>3, <3>4, Zenon DEF Tables!Next, Tables!NewDirectory
    <3>5. CASE pg_pc # "directory"
      BY <2>1, <3>1, <3>2, <3>3, <3>5, Zenon
      DEF Tables!Next, Tables!MapPageInNewTable, Tables!needs_frame
    <3> QED
      BY <3>4, <3>5, Zenon
  <2> QED
    BY <2>2, <2>3, Zenon
<1>6. CASE StepPaging
  BY <1>6, Zenon DEF StepPaging, Tables!Next
<1> QED
  BY <1>2, <1>3, <1>4, <1>5, <1>6
  DEF Next, CheckMagic, PrintRegion, EnterMemoryInit, InitAllocator

-----------------------------------------------------------------------------
(* Where the two meet: the allocator is ready and paging starts.           *)

(* The frames the kernel keeps are those the allocator reserved.           *)
LEMMA KeptReserved == Kept \subseteq Alloc!Reserved
<1> SUFFICES ASSUME NEW f \in IMAGE.phys_start .. IMAGE.end - 1 PROVE f \in Alloc!Reserved
    BY DEF Kept, Alloc!Reserved
<1>1. f \in Nat /\ f + 1 \in Nat /\ IMAGE.phys_start <= f /\ f + 1 <= IMAGE.end /\ f \in Alloc!Frame
  BY Symbols, FreeNumbers DEF FrameSet
<1> DEFINE b == base_addr(f)
           first == base_addr(IMAGE.phys_start)
           last == base_addr(IMAGE.end)
<1>2. b \in Nat /\ first \in Nat /\ last \in Nat /\ first <= b /\ b + FRAME_SIZE <= last
  BY <1>1, Symbols, Addresses
<1>3. Alloc!FrameBytes(f) = b .. b + FRAME_SIZE - 1
  BY DEF Alloc!FrameBytes, Alloc!base_addr, base_addr
<1> HIDE DEF b, first, last
<1>4. b \in Alloc!FrameBytes(f) /\ b \in first .. last - 1
  BY <1>2, <1>3, Symbols
<1> QED
  BY <1>1, <1>4, Zenon DEF Alloc!Reserved, first, last

(* The bootstrap directory is the same in both modules.                    *)
LEMMA SameBootstrap == Tables!bootstrap = bootstrap /\ Tables!Index = Index /\ Tables!Page = Page
BY DEF Tables!bootstrap, bootstrap, Tables!Index, Index, Tables!Page, Page,
   Tables!for_huge_page, for_huge_page, Tables!base_addr, base_addr, Tables!PAGE_SIZE_BIT,
   PAGE_SIZE_BIT, Tables!KERNEL_RW, KERNEL_RW, Tables!PRESENT, PRESENT, Tables!WRITABLE, WRITABLE,
   Tables!EMPTY, EMPTY

(* Paging starts as its specification says: with no kernel frame free.     *)
LEMMA PagingStarts ==
    ASSUME KInv, Alloc!IInv', InitAllocator, fb_pc' = "ready"
    PROVE  Tables!Init' /\ runs' = {}
<1>1. fb_pc \in Alloc!BootPc /\ Unbuilt /\ Alloc!Step /\ UNCHANGED tables
  BY Zenon DEF InitAllocator, KInv, Link, Booting
<1>2. UNCHANGED Alloc!clients
  BY <1>1, AllocatorIdle, Zenon DEF Alloc!BootPc, Alloc!Step, Alloc!InitRegion, Alloc!MarkFreeDone,
     Alloc!ReserveLow, Alloc!ReserveKernel, Alloc!InitDone, Alloc!SetFreeWord,
     Alloc!SetOccupiedWord, Alloc!ScanFrame, Alloc!ScanFallback, Alloc!ScanMiss,
     Alloc!AllocateDone, Alloc!CheckWord, Alloc!CheckDone, Alloc!FreeDone
<1>3. runs' = {} /\ leaked' = {}
  BY <1>1, <1>2, Zenon DEF KInv, Alloc!IInv, Alloc!Ownership, Alloc!clients
<1>4. Granted' = Alloc!FreeFrames'
  BY <1>3, HeldFramesNext DEF HeldShape, Granted, Alloc!PoolFree, Alloc!BootPc
<1>5. Alloc!Reserved \cap Alloc!FreeFrames' = {}
  <2>1. fb_pc' \notin Alloc!BootPc \cup {"panicked"}
    BY DEF Alloc!BootPc
  <2>2. Alloc!Reserved' \cap Alloc!FreeFrames' = {} /\ Alloc!Reserved' = Alloc!Reserved
    BY <2>1, Zenon DEF Alloc!IInv, Alloc!Reservation, Alloc!ReservedNeverIssued, Alloc!Reserved
  <2> QED
    BY <2>2, Zenon
<1>6. \A f \in Granted' : f \in Page /\ f # 0 /\ f \notin IMAGE.phys_start .. IMAGE.end - 1
  <2>1. \A f \in Alloc!FreeFrames' : f \in FrameSet
    BY FreeNumbers, Zenon DEF Alloc!FreeFrames
  <2>2. FrameSet \subseteq Page
    BY KernelAssumption
  <2> QED
    BY <1>4, <1>5, <2>1, <2>2, KeptReserved, Zenon DEF Kept
<1>7. Granted' \in SUBSET {f \in Page : f # 0 /\ f \notin IMAGE.phys_start .. IMAGE.end - 1}
  BY <1>6, Zenon
<1>8. Unbuilt'
  BY <1>1, Zenon DEF Unbuilt, tables
<1> QED
  BY <1>3, <1>7, <1>8, SameBootstrap, Zenon DEF Unbuilt, Tables!Init

-----------------------------------------------------------------------------
(* The invariant is inductive.                                             *)

(* It holds when the loader enters kernel_main, before the allocator and   *)
(* the tables have moved.                                                  *)
LEMMA InitKInv == AllocatorPromises /\ Init => KInv
<1> SUFFICES ASSUME AllocatorPromises, Init PROVE KInv
    OBVIOUS
<1>1. Alloc!IInv /\ Alloc!HintInv
  BY Zenon DEF AllocatorPromises, Init
<1>2. fb_pc = "region" /\ leaked = {}
  BY Zenon DEF Init, Alloc!Init
<1>3. stage = "entry" /\ asked = FALSE /\ Unbuilt
  BY Zenon DEF Init, Unbuilt
<1>4. Link
  BY <1>2, <1>3, Zenon DEF Link, Booting, Alloc!BootPc
<1> QED
  BY <1>1, <1>2, <1>4, Zenon DEF KInv, Kept_Usable

(* What paging keeps stays usable.                                         *)
LEMMA KeptStep == KInv /\ [Next]_vars => Kept_Usable'
<1> SUFFICES ASSUME KInv, [Next]_vars PROVE Kept_Usable'
    OBVIOUS
<1>1. mmap' = mmap => Published' = Published
  BY Zenon DEF Published, Alloc!Deliverable, Alloc!Reserved
<1>2. CASE mmap' = mmap /\ leaked' = leaked
  BY <1>1, <1>2, Zenon DEF KInv, Kept_Usable
<1>3. CASE UNCHANGED allocator
  BY <1>2, <1>3, Zenon DEF allocator
<1>4. CASE InitAllocator \/ SearchFrame
  BY <1>2, <1>4, AllocatorIdle, Zenon DEF InitAllocator, SearchFrame
<1>5. CASE AskForFrame
  BY <1>2, <1>5, Zenon DEF AskForFrame, Alloc!Allocate, Alloc!world
<1>6. CASE UseFrame
  <2>1. CASE UNCHANGED allocator
    BY <1>3, <2>1
  <2>2. CASE ~UNCHANGED allocator
    <3>1. /\ reply.start # Alloc!NONE /\ keep_frame([start |-> reply.start, len |-> 1])
          /\ stage = "paging" /\ asked /\ fb_pc = "ready"
      BY <1>6, <2>2, Zenon DEF UseFrame
    <3>2. leaked' = leaked \cup {reply.start} /\ Alloc!Held = {reply.start} /\ mmap' = mmap
      BY <3>1, FrameKept, Answer, Zenon DEF keep_frame, Alloc!Drop, Alloc!world
    <3>3. fb_pc \notin Alloc!BootPc \cup {"panicked"}
      BY <3>1 DEF Alloc!BootPc
    <3>4. reply.start \in Published
      BY <3>2, <3>3, Zenon DEF KInv, Alloc!IInv, Alloc!Usability, Alloc!Reservation,
         Alloc!ReservedNeverIssued, Published
    <3> QED
      BY <1>1, <3>2, <3>4, Zenon DEF KInv, Kept_Usable
  <2> QED
    BY <2>1, <2>2
<1> QED
  BY <1>3, <1>4, <1>5, <1>6, Zenon
  DEF Next, vars, CheckMagic, PrintRegion, EnterMemoryInit, StepPaging

(* Nothing that decides whether a frame is needed moves with the tables    *)
(* at rest.                                                                *)
LEMMA NeedUnchanged == UNCHANGED tables => (Tables!needs_frame' <=> Tables!needs_frame)
BY DEF tables, Tables!needs_frame, Tables!mapping, Tables!has_table, Tables!pde_of, Tables!behind,
   Tables!skips_guard, Tables!low_limit

(* Where each stage leaves the allocator and paging, one case per action:  *)
(* the hand-overs are InitAllocator, which starts paging, and UseFrame,    *)
(* which takes the answer.                                                 *)
LEMMA LinkStep ==
    ASSUME AllocatorPromises, PagingPromises, KInv, Alloc!IInv', [Next]_vars
    PROVE  Link'
<1>1. stage = "paging" => Tables!IInv'
  BY PagingRuns, Zenon DEF PagingPromises, KInv, Link
<1>2. CASE UNCHANGED vars
  <2>1. UNCHANGED <<stage, asked, allocator, tables>>
    BY <1>2, Zenon DEF vars
  <2>2. UNCHANGED <<fb_pc, runs, bitmap, reply>>
    BY <2>1, Zenon DEF allocator
  <2>3. (Tables!needs_frame' <=> Tables!needs_frame) /\ (Answered' <=> Answered)
        /\ (Unbuilt' <=> Unbuilt)
    BY <2>1, <2>2, NeedUnchanged DEF Answered, Alloc!FreeFrames, Alloc!is_free, Unbuilt, tables
  <2>4. stage = "idle" => Tables!IInv'
    <3>1. UNCHANGED Tables!vars
      BY <2>1, GrantedUnchanged, Zenon DEF Tables!vars, tables
    <3> QED
      BY <3>1, Zenon DEF PagingPromises, KInv, Link
  <2> QED
    <3>1. /\ stage' \in Booting \cup {"paging", "idle", "panicked"} /\ asked' \in BOOLEAN
          /\ stage' \in Booting => fb_pc' \in Alloc!BootPc /\ ~asked' /\ Unbuilt'
      BY <2>1, <2>2, <2>3, Zenon DEF KInv, Link
    <3>2. ASSUME stage' \in {"paging", "idle"}
          PROVE  /\ Tables!IInv'
                 /\ ~asked' => fb_pc' = "ready" /\ runs' = {}
                 /\ asked' => Tables!needs_frame'
                 /\ asked' => (fb_pc' \in Searching /\ runs' = {}) \/ (fb_pc' = "ready" /\ Answered')
      BY <1>1, <2>1, <2>2, <2>3, <2>4, <3>2, Zenon DEF KInv, Link
    <3>3. stage' = "idle" => pg_pc' = "done" /\ ~asked'
      BY <2>1, Zenon DEF KInv, Link, tables
    <3> QED
      BY <3>1, <3>2, <3>3, Zenon DEF Link
<1>3. CASE CheckMagic \/ PrintRegion \/ EnterMemoryInit
  <2>1. /\ stage \in Booting /\ stage' \in Booting \cup {"panicked"}
        /\ UNCHANGED <<asked, allocator, tables>>
    BY <1>3 DEF CheckMagic, PrintRegion, EnterMemoryInit, Booting
  <2>2. fb_pc' = fb_pc /\ (Unbuilt' <=> Unbuilt)
    BY <2>1, Zenon DEF allocator, tables, Unbuilt
  <2>3. stage' \notin {"paging", "idle"}
    BY <2>1 DEF Booting
  <2> QED
    BY <2>1, <2>2, <2>3, Zenon DEF KInv, Link
<1>4. CASE InitAllocator
  <2>1. /\ stage = "allocator" /\ Alloc!Step /\ UNCHANGED <<asked, tables>>
        /\ fb_pc \in Alloc!BootPc /\ ~asked /\ Unbuilt /\ asked \in BOOLEAN
    BY <1>4 DEF InitAllocator, KInv, Link, Booting
  <2>2. fb_pc' \in Alloc!BootPc \cup {"ready", "panicked"}
    BY <2>1, Zenon DEF Alloc!BootPc, Alloc!Step, Alloc!InitRegion, Alloc!MarkFreeDone,
       Alloc!ReserveLow, Alloc!ReserveKernel, Alloc!InitDone, Alloc!SetFreeWord,
       Alloc!SetOccupiedWord, Alloc!ScanFrame, Alloc!ScanFallback, Alloc!ScanMiss,
       Alloc!AllocateDone, Alloc!CheckWord, Alloc!CheckDone, Alloc!FreeDone
  <2>3. CASE fb_pc' = "ready"
    <3>1. Tables!IInv' /\ runs' = {}
      BY <1>4, <2>3, PagingStarts, Zenon DEF PagingPromises
    <3>2. stage' = "paging"
      BY <1>4, <2>3, Zenon DEF InitAllocator
    <3> QED
      BY <2>1, <2>3, <3>1, <3>2 DEF Link, Booting
  <2>4. CASE fb_pc' = "panicked"
    <3>1. stage' = "panicked"
      BY <1>4, <2>4 DEF InitAllocator
    <3> QED
      BY <2>1, <3>1 DEF Link, Booting
  <2>5. CASE fb_pc' \in Alloc!BootPc
    <3>1. stage' = "allocator"
      BY <1>4, <2>1, <2>5 DEF InitAllocator, Alloc!BootPc
    <3>2. Unbuilt'
      BY <2>1, Zenon DEF tables, Unbuilt
    <3> QED
      BY <2>1, <2>5, <3>1, <3>2 DEF Link, Booting
  <2> QED
    BY <2>2, <2>3, <2>4, <2>5
<1>5. CASE AskForFrame
  <2>1. /\ stage = "paging" /\ stage' = "paging" /\ asked' = TRUE /\ ~asked
        /\ Tables!needs_frame /\ Alloc!Allocate(1) /\ UNCHANGED tables
    BY <1>5, Zenon DEF AskForFrame
  <2>2. ~(1 > Alloc!FRAME_COUNT)
    BY KernelAssumption DEF Alloc!FRAME_COUNT
  <2>3. fb_pc' = "scan_hint" /\ runs' = {}
    BY <2>1, <2>2, Zenon DEF Alloc!Allocate, KInv, Link
  <2> QED
    BY <1>1, <2>1, <2>3, NeedUnchanged DEF Link, Booting, Searching
<1>6. CASE SearchFrame
  <2>1. /\ stage = "paging" /\ stage' = "paging" /\ asked /\ asked' = asked /\ asked \in BOOLEAN
        /\ Alloc!Step /\ UNCHANGED tables /\ Tables!needs_frame
        /\ fb_pc \in Searching /\ runs = {}
    BY <1>6, AllocatorIdle, Zenon DEF SearchFrame, KInv, Link
  <2>2. (fb_pc' \in Searching /\ runs' = {}) \/ (fb_pc' = "ready" /\ Answered')
    BY <2>1, Searched
  <2> QED
    BY <1>1, <2>1, <2>2, NeedUnchanged DEF Link, Booting
<1>7. CASE UseFrame
  <2>1. stage = "paging" /\ asked' = FALSE /\ asked /\ fb_pc = "ready"
    BY <1>7, Zenon DEF UseFrame
  <2>2. CASE stage' = "panicked"
    BY <2>1, <2>2, Zenon DEF Link, Booting
  <2>3. CASE stage' # "panicked"
    <3>1. /\ reply.start # Alloc!NONE /\ keep_frame([start |-> reply.start, len |-> 1])
          /\ stage' = "paging"
      BY <1>7, <2>1, <2>3, Zenon DEF UseFrame
    <3>2. runs' = {} /\ fb_pc' = "ready"
      BY <2>1, <3>1, FrameKept
    <3> QED
      BY <1>1, <2>1, <3>1, <3>2, Zenon DEF Link, Booting
  <2> QED
    BY <2>2, <2>3
<1>8. CASE StepPaging
  <2>1. /\ stage = "paging" /\ ~asked /\ UNCHANGED <<asked, allocator>>
        /\ stage' = IF pg_pc' = "done" THEN "idle" ELSE "paging"
    BY <1>8, Zenon DEF StepPaging
  <2>2. fb_pc' = "ready" /\ runs' = {} /\ asked' \in BOOLEAN
    BY <2>1, Zenon DEF allocator, KInv, Link
  <2> QED
    BY <1>1, <2>1, <2>2 DEF Link, Booting
<1> QED
  BY <1>2, <1>3, <1>4, <1>5, <1>6, <1>7, <1>8, Zenon DEF Next

(* The allocator keeps its own part, and each action the rest.             *)
LEMMA StepKInv == AllocatorPromises /\ PagingPromises /\ KInv /\ [Next]_vars => KInv'
<1> SUFFICES ASSUME AllocatorPromises, PagingPromises, KInv, [Next]_vars PROVE KInv'
    OBVIOUS
<1>1. Alloc!IInv' /\ Alloc!HintInv'
  BY AllocatorRuns, Zenon DEF AllocatorPromises, KInv
<1> QED
  BY <1>1, LinkStep, KeptStep, Zenon DEF KInv

-----------------------------------------------------------------------------
(* What the invariant gives.                                               *)

(* A step is one DrivesPaging allows.                                      *)
LEMMA StepDrives ==
    ASSUME AllocatorPromises, KInv, KInv', [Next]_vars
    PROVE  /\ stage = "allocator" /\ stage' = "paging" => Tables!Init'
           /\ stage = "paging" => [Tables!Next]_(Tables!vars)
<1>1. stage = "paging" => [Tables!Next]_(Tables!vars)
  BY PagingRuns, Zenon
<1>2. ASSUME stage = "allocator", stage' = "paging" PROVE Tables!Init'
  <2>1. InitAllocator
    BY <1>2 DEF Next, vars, CheckMagic, PrintRegion, EnterMemoryInit, AskForFrame, SearchFrame,
                UseFrame, StepPaging
  <2>2. fb_pc' = "ready"
    BY <1>2, <2>1 DEF InitAllocator
  <2> QED
    BY <2>1, <2>2, PagingStarts, Zenon DEF KInv
<1> QED
  BY <1>1, <1>2, Zenon

(* A frame the allocator has to give is usable in Kernel's terms.          *)
LEMMA PublishedUsable == KInv => Published \subseteq Usable
<1> SUFFICES ASSUME KInv, NEW f \in Alloc!Deliverable, f \notin Alloc!Reserved PROVE f \in Usable
    BY DEF Published
<1>1. f \in FrameSet /\ f \notin Kept /\ f \in Nat /\ f + 1 \in Nat
  <2>1. f \in FrameSet /\ f \notin Kept
    BY FreeNumbers, KeptReserved, Zenon DEF Alloc!Deliverable, Alloc!Promised
  <2> QED
    BY <2>1, Symbols DEF FrameSet
<1>2. PICK i \in 1 .. Len(mmap) :
         mmap[i].available /\ \A byte \in Alloc!FrameBytes(f) : Alloc!Holds(mmap[i], byte)
  BY Zenon DEF Alloc!Deliverable, Alloc!Promised
<1>8. i \in DOMAIN mmap /\ mmap[i].base \in Nat /\ mmap[i].length \in Nat
  <2>1. mmap \in Seq(Region)
    BY KernelAssumption, Zenon DEF KInv, Alloc!IInv, Alloc!Shape, Alloc!TypeOK
  <2>2. i \in DOMAIN mmap /\ mmap[i] \in Region
    BY <2>1
  <2> QED
    BY <2>2, LimitAssumption DEF Region, U64
<1> DEFINE b == base_addr(f)
<1>3. b \in Nat /\ base_addr(f + 1) = b + FRAME_SIZE
  BY <1>1, Symbols DEF base_addr
<1>4. Alloc!FrameBytes(f) = b .. b + FRAME_SIZE - 1
  BY DEF Alloc!FrameBytes, Alloc!base_addr, base_addr
<1> HIDE DEF b
<1>5. b \in Alloc!FrameBytes(f) /\ b + FRAME_SIZE - 1 \in Alloc!FrameBytes(f)
  BY <1>3, <1>4, Symbols
<1>6. mmap[i].base <= b /\ b + FRAME_SIZE - 1 < mmap[i].base + mmap[i].length
  BY <1>2, <1>5, Zenon DEF Alloc!Holds
<1>7. mmap[i].base <= b /\ b + FRAME_SIZE <= mmap[i].base + mmap[i].length
  BY <1>3, <1>6, <1>8, Symbols
<1> QED
  BY <1>1, <1>2, <1>3, <1>7, <1>8, Zenon DEF Usable, b

(* The frames the processor walks through are among those paging keeps.    *)
LEMMA WalkedLeaked ==
    ASSUME PagingPromises, Tables!IInv, pg_pc = "done"
    PROVE  WalkedFrames \subseteq leaked
<1>1. Tables!Ranges /\ Tables!Directory /\ cr3 = pd_frame
  BY DEF Tables!IInv, Tables!Built, Tables!Ranges
<1>2. pd_frame \in leaked /\ leaked \subseteq Index
  BY <1>1, SameBootstrap, Zenon DEF Tables!Directory, Tables!Ranges
<1>3. ASSUME NEW i \in Index, is_present(memory[pd_frame][i])
      PROVE  \E t \in leaked : memory[pd_frame][i] = Tables!for_table(t, Tables!KERNEL_RW)
  <2>1. memory[pd_frame][i] # Tables!EMPTY
    <3>1. ~is_present(0)
      BY Symbols DEF is_present, contains, flags_of, PRESENT
    <3> QED
      BY <1>3, <3>1 DEF Tables!EMPTY
  <2> QED
    BY <1>1, <1>2, <2>1, SameBootstrap, Zenon DEF Tables!Directory
<1>4. ASSUME NEW t \in leaked
      PROVE  table_frame(Tables!for_table(t, Tables!KERNEL_RW)) = t
  <2>1. t \in Nat
    BY <1>2 DEF Index
  <2>2. Tables!table_frame(Tables!for_table(t, Tables!KERNEL_RW)) = t
    BY <2>1, Zenon DEF PagingPromises
  <2>3. \A e : Tables!table_frame(e) = table_frame(e)
    BY DEF Tables!table_frame, table_frame, Tables!frame_floor, frame_floor, Tables!flags_of, flags_of
  <2> QED
    BY <2>2, <2>3, Zenon
<1>5. ASSUME NEW i \in Index, is_present(memory[cr3][i])
      PROVE  table_frame(memory[cr3][i]) \in leaked
  BY <1>1, <1>3, <1>4, <1>5, Zenon
<1> QED
  BY <1>1, <1>2, <1>5, Zenon DEF WalkedFrames

(* The directory and its tables are usable frames that nobody else gets.   *)
LEMMA Owned == PagingPromises /\ KInv => TablesAreOwned
<1> SUFFICES ASSUME PagingPromises, KInv, stage = "idle"
             PROVE  /\ WalkedFrames \subseteq Usable \cap leaked
                    /\ WalkedFrames \cap Alloc!FreeFrames = {}
    BY Zenon DEF TablesAreOwned
<1>1. Tables!IInv /\ pg_pc = "done"
  BY DEF KInv, Link
<1>2. WalkedFrames \subseteq leaked
  BY <1>1, WalkedLeaked
<1>3. leaked \subseteq Usable
  BY PublishedUsable, Zenon DEF KInv, Kept_Usable
<1>4. leaked \cap Alloc!FreeFrames = {}
  BY Zenon DEF KInv, Alloc!IInv, Alloc!Ownership, Alloc!ExclusiveOwnership
<1> QED
  BY <1>2, <1>3, <1>4, Zenon


-----------------------------------------------------------------------------
(* Whether kernel_main gets through.                                       *)

LEMMA InitOutcome == Init => OutcomeInv
BY Zenon DEF Init, OutcomeInv

(* The loader's hand-off and the image stay as they are.                   *)
LEMMA Inputs == [Next]_vars => UNCHANGED <<magic, has_map, mmap, image>>
<1> SUFFICES ASSUME [Next]_vars PROVE UNCHANGED <<magic, has_map, mmap, image>>
    OBVIOUS
<1>1. UNCHANGED <<magic, has_map>>
  BY Zenon DEF Next, vars, loader, CheckMagic, PrintRegion, EnterMemoryInit, InitAllocator,
     AskForFrame, SearchFrame, UseFrame, StepPaging
<1>2. mmap' = mmap
  BY AllocatorIdle, Zenon DEF Next, vars, allocator, CheckMagic, PrintRegion, EnterMemoryInit,
     InitAllocator, AskForFrame, SearchFrame, UseFrame, StepPaging, keep_frame, Alloc!Allocate,
     Alloc!Drop, Alloc!world
<1>3. image' = image
  BY Zenon DEF Next, vars, tables, CheckMagic, PrintRegion, EnterMemoryInit, InitAllocator,
     AskForFrame, SearchFrame, UseFrame, StepPaging, Tables!build_directory,
     Tables!map_in_new_table, Tables!next_iteration, Tables!MapPage, Tables!SkipGuard,
     Tables!KernelMapped, Tables!LoadCr3, Tables!SetWp
<1> QED
  BY <1>1, <1>2, <1>3

LEMMA StepOutcome ==
    ASSUME AllocatorPromises, PagingPromises, KInv, KInv', OutcomeInv, [Next]_vars
    PROVE  OutcomeInv'
<1>0. magic' = magic /\ has_map' = has_map
  BY Inputs
<1>1. stage = "paging" => Tables!IInv' /\ Tables!Spending'
  BY PagingRuns, Zenon DEF PagingPromises, KInv, Link, OutcomeInv
<1>2. CASE UNCHANGED vars
  <2>1. UNCHANGED <<stage, allocator, tables>>
    BY <1>2, Zenon DEF vars
  <2>2. fb_pc' = fb_pc /\ pg_pc' = pg_pc
    BY <2>1, Zenon DEF allocator, tables
  <2>3. UNCHANGED Tables!vars
    BY <2>1, GrantedUnchanged, Zenon DEF Tables!vars, tables
  <2>4. Tables!IInv /\ Tables!Spending => Tables!IInv' /\ Tables!Spending'
    BY <2>3, Zenon DEF PagingPromises
  <2>5. stage \in {"paging", "idle"} => Tables!Spending'
    BY <2>4, Zenon DEF KInv, Link, OutcomeInv
  <2> QED
    BY <1>0, <2>1, <2>2, <2>4, <2>5, Zenon DEF OutcomeInv
<1>3. CASE CheckMagic \/ PrintRegion \/ EnterMemoryInit
  <2>1. /\ stage \in {"entry", "print"} /\ stage' \in {"print", "allocator", "panicked"}
        /\ stage = "entry" => magic = BOOTLOADER_MAGIC \/ stage' = "panicked"
        /\ stage = "entry" => stage' # "allocator"
        /\ stage' = "allocator" => has_map
        /\ stage' = "panicked" => magic # BOOTLOADER_MAGIC \/ ~has_map
    BY <1>3 DEF CheckMagic, PrintRegion, EnterMemoryInit
  <2> QED
    BY <1>0, <2>1 DEF OutcomeInv
<1>4. CASE InitAllocator
  <2>1. stage = "allocator" /\ magic = BOOTLOADER_MAGIC /\ has_map
        /\ stage' = CASE fb_pc' = "ready" -> "paging" [] fb_pc' = "panicked" -> "panicked"
                      [] OTHER -> "allocator"
    BY <1>4, Zenon DEF InitAllocator, OutcomeInv
  <2>2. CASE fb_pc' = "ready"
    <3>1. Tables!Spending'
      BY <1>4, <2>2, PagingStarts, Zenon DEF PagingPromises, KInv
    <3>2. stage' = "paging"
      BY <2>1, <2>2
    <3> QED
      BY <1>0, <2>1, <3>1, <3>2 DEF OutcomeInv
  <2>3. CASE fb_pc' # "ready"
    <3>1. stage' = "allocator" \/ (stage' = "panicked" /\ fb_pc' = "panicked")
      BY <2>1, <2>3
    <3> QED
      BY <1>0, <2>1, <3>1 DEF OutcomeInv
  <2> QED
    BY <2>2, <2>3, Zenon
<1>5. CASE AskForFrame \/ SearchFrame \/ UseFrame \/ StepPaging
  <2>1. /\ stage = "paging" /\ magic = BOOTLOADER_MAGIC /\ has_map
        /\ \/ stage' \in {"paging", "idle"}
           \/ stage' = "panicked" /\ pg_pc' = "panicked" /\ fb_pc' = "ready"
    BY <1>5, Zenon DEF AskForFrame, SearchFrame, UseFrame, StepPaging, allocator, OutcomeInv
  <2> QED
    BY <1>0, <1>1, <2>1 DEF OutcomeInv
<1> QED
  BY <1>2, <1>3, <1>4, <1>5, Zenon DEF Next

(* Between calls every published frame is free, on its way or kept.        *)
LEMMA AllGranted ==
    ASSUME KInv, fb_pc = "ready"
    PROVE  Granted \cup leaked = Published
<1>1. fb_pc \notin Alloc!BootPc \cup {"panicked"} /\ Alloc!InTransit = {}
  BY DEF Alloc!BootPc, Alloc!InTransit
<1>2. Granted = Alloc!FreeFrames \cup Alloc!Held
  BY DEF Granted, Alloc!PoolFree, Alloc!BootPc
<1>3. Published \subseteq Granted \cup leaked
  BY <1>1, <1>2, Zenon DEF KInv, Alloc!IInv, Alloc!Delivery, Alloc!NoFrameLost, Published
<1>4. Granted \subseteq Published
  BY <1>1, <1>2, Zenon DEF KInv, Alloc!IInv, Alloc!Usability, Alloc!Reservation,
     Alloc!ReservedNeverIssued, Published
<1> QED
  BY <1>3, <1>4, Zenon DEF KInv, Kept_Usable

(* init overflows on the maps InitOverflows describes.                     *)
LEMMA Overflown ==
    ASSUME AllocatorPromises, KInv
    PROVE  InitOverflows <=> \E i \in 1 .. Len(mmap) : Alloc!Overflowing(mmap[i])
<1>1. mmap \in Seq(Region)
  BY KernelAssumption, Zenon DEF KInv, Alloc!IInv, Alloc!Shape, Alloc!TypeOK
<1>2. DOMAIN mmap = 1 .. Len(mmap) /\ \A i \in 1 .. Len(mmap) : mmap[i] \in Region
  BY <1>1
<1> QED
  BY <1>2, Zenon DEF AllocatorPromises, InitOverflows

(* Paging counts frames as the composition does.                           *)
LEMMA SameCount == \A S : Tables!Cardinality(S) = Cardinality(S)
BY Zenon DEF Tables!Cardinality, Cardinality

(* kernel_main idles only if it was to succeed and gives up only if not.   *)
LEMMA OutcomeRight ==
    ASSUME AllocatorPromises, PagingPromises, KInv, OutcomeInv
    PROVE  (BootSucceeds => stage # "panicked") /\ (~BootSucceeds => stage # "idle")
<1>1. fb_pc = "ready" =>
         (Tables!Sufficient <=> Cardinality({f \in Published : Tables!identity_mapped(f)})
                                   >= Tables!FramesNeeded)
  <2> DEFINE Low == {f \in Published : Tables!identity_mapped(f)}
  <2>1. ASSUME fb_pc = "ready" PROVE Tables!Reachable = Low
    <3>1. Granted \cup leaked = Published
      BY <2>1, AllGranted
    <3> QED
      BY <3>1, Zenon DEF Tables!Reachable
  <2> HIDE DEF Low
  <2>2. fb_pc = "ready" => (Tables!Sufficient <=> Cardinality(Low) >= Tables!FramesNeeded)
    BY <2>1, SameCount, Zenon DEF Tables!Sufficient
  <2> QED
    BY <2>2 DEF Low
<1>2. CASE stage = "idle"
  <2>1. fb_pc = "ready" /\ pg_pc = "done" /\ Tables!IInv /\ Tables!Spending
        /\ magic = BOOTLOADER_MAGIC /\ has_map
    BY <1>2 DEF KInv, Link, OutcomeInv
  <2>2. ~InitOverflows
    BY <2>1, Overflown DEF KInv, Alloc!IInv, Alloc!Checking, Alloc!BootPc
  <2>3. Tables!Sufficient
    BY <2>1, Zenon DEF PagingPromises
  <2> QED
    BY <1>1, <1>2, <2>1, <2>2, <2>3 DEF BootSucceeds
<1>3. CASE stage = "panicked"
  <2>1. fb_pc = "panicked" => InitOverflows
    BY Overflown DEF KInv, Alloc!IInv, Alloc!Checking
  <2>2. (Tables!IInv /\ Tables!Spending /\ pg_pc = "panicked") => ~Tables!Sufficient
    BY Zenon DEF PagingPromises
  <2> QED
    BY <1>1, <1>3, <2>1, <2>2, Zenon DEF BootSucceeds, OutcomeInv
<1> QED
  BY <1>2, <1>3, Zenon

(* What decides it does not change.                                        *)
LEMMA SameOutcome == [Next]_vars => (BootSucceeds' <=> BootSucceeds)
<1> SUFFICES ASSUME [Next]_vars PROVE BootSucceeds' <=> BootSucceeds
    OBVIOUS
<1>1. magic' = magic /\ has_map' = has_map /\ mmap' = mmap /\ image' = image
  BY Inputs
<1>2. Published' = Published
  BY <1>1, Zenon DEF Published, Alloc!Deliverable, Alloc!Reserved
<1>3. InitOverflows' <=> InitOverflows
  BY <1>1, Zenon DEF InitOverflows
<1>4. Tables!FramesNeeded' = Tables!FramesNeeded
  BY <1>1, Zenon DEF Tables!FramesNeeded, Tables!KernelPages, Tables!GuardPage, Tables!LowPages
<1> QED
  BY <1>1, <1>2, <1>3, <1>4, Zenon DEF BootSucceeds

-----------------------------------------------------------------------------
(* What print_memory_map reported bounds what the allocator gives out.     *)

(* Address a lies between the starts of two neighbouring frames.           *)
LEMMA FrameOf ==
    ASSUME NEW a \in Nat
    PROVE  \E q \in Nat : base_addr(q) <= a /\ a < base_addr(q + 1)
<1>1. a \div FRAME_SIZE \in Nat /\ a % FRAME_SIZE \in 0 .. FRAME_SIZE - 1
      /\ a = (a \div FRAME_SIZE) * FRAME_SIZE + (a % FRAME_SIZE)
  BY FrameSizeAssumption
<1>2. base_addr(a \div FRAME_SIZE + 1) = base_addr(a \div FRAME_SIZE) + FRAME_SIZE
  BY <1>1, Symbols DEF base_addr
<1>3. base_addr(a \div FRAME_SIZE) <= a /\ a < base_addr(a \div FRAME_SIZE + 1)
  BY <1>1, <1>2, Symbols, Addresses DEF base_addr
<1> QED
  BY <1>1, <1>3, Zenon

(* base_addr is additive.                                                  *)
LEMMA AddressSum ==
    ASSUME NEW m \in Nat, NEW n \in Nat
    PROVE  base_addr(m + n) = base_addr(m) + base_addr(n)
BY Symbols DEF base_addr

(* The frames wholly inside a region lie between two frames that are no    *)
(* further apart than its bytes reach (addressable_bytes: the clamping     *)
(* loses no whole frame).                                                  *)
LEMMA RegionSpan ==
    ASSUME NEW region \in Region, NEW w \in WholeFrames(region)
    PROVE  \E lo, hi \in Nat : /\ lo < hi /\ base_addr(hi - lo) <= counted(region)
                              /\ \A f \in WholeFrames(region) : lo <= f /\ f < hi
<1> DEFINE W == WholeFrames(region)
           b == region.base
           e == clamped_end(region)
<1>0. /\ b \in Nat /\ region.length \in Nat /\ region.available \in BOOLEAN
      /\ LIMIT \in Nat /\ U64_MAX \in Nat /\ LIMIT <= U64_MAX
  BY LimitAssumption DEF Region, U64
<1>1. \A f \in W : /\ f \in Nat /\ f + 1 \in Nat /\ b <= base_addr(f)
                   /\ base_addr(f + 1) <= b + region.length
                   /\ base_addr(f + 1) <= LIMIT /\ region.available
  <2>1. TAKE f \in W
  <2>2. f \in FrameSet /\ region.available /\ b <= base_addr(f)
        /\ base_addr(f + 1) <= b + region.length
    BY Zenon DEF WholeFrames
  <2>3. f \in Nat /\ f + 1 \in Nat /\ f + 1 <= WORD_COUNT * WORD_BITS
    BY <2>2, Symbols DEF FrameSet
  <2>4. LIMIT = base_addr(WORD_COUNT * WORD_BITS)
    BY KernelAssumption DEF base_addr
  <2>5. base_addr(f + 1) <= LIMIT
    BY <2>3, <2>4, Addresses, Symbols
  <2> QED
    BY <2>2, <2>3, <2>5
<1>2. e \in Nat /\ \A f \in W : base_addr(f + 1) <= e
  BY <1>0, <1>1, Addresses DEF clamped_end, saturating_add
<1>3. b < LIMIT /\ counted(region) = e - b
  <2>1. w \in Nat /\ w + 1 \in Nat /\ w < w + 1 /\ b <= base_addr(w) /\ base_addr(w + 1) <= LIMIT
        /\ region.available
    BY <1>1
  <2>2. base_addr(w) \in Nat /\ base_addr(w) + FRAME_SIZE <= base_addr(w + 1)
    BY <2>1, Addresses
  <2>3. b < LIMIT
    BY <1>0, <2>1, <2>2, Symbols, Addresses
  <2> QED
    BY <1>0, <2>1, <2>3 DEF counted, addressable_bytes
<1> HIDE DEF e, b, W
<1>4. b \in Nat
  BY <1>0 DEF b
<1>5. PICK hi \in Nat : base_addr(hi) <= e /\ e < base_addr(hi + 1)
  BY <1>2, FrameOf
<1>6. PICK q \in Nat : base_addr(q) <= b /\ b < base_addr(q + 1)
  BY <1>4, FrameOf
<1>7. PICK lo \in Nat : b <= base_addr(lo) /\ \A f \in W : lo <= f
  <2>1. CASE base_addr(q) = b
    <3>1. ASSUME NEW f \in W PROVE q <= f
      <4>1. f \in Nat /\ b <= base_addr(f)
        BY <1>1
      <4>2. f < q => base_addr(f) + FRAME_SIZE <= base_addr(q)
        BY <4>1, Addresses
      <4> QED
        BY <2>1, <4>1, <4>2, <1>4, Symbols, Addresses
    <3> QED
      BY <2>1, <3>1, <1>4
  <2>2. CASE base_addr(q) # b
    <3>1. ASSUME NEW f \in W PROVE q + 1 <= f
      <4>1. f \in Nat /\ b <= base_addr(f)
        BY <1>1
      <4>2. f <= q => base_addr(f) <= base_addr(q)
        BY <4>1, Addresses
      <4> QED
        BY <1>6, <2>2, <4>1, <4>2, <1>4, Addresses
    <3>2. q + 1 \in Nat /\ base_addr(q + 1) \in Nat
      BY Addresses
    <3> QED
      BY <3>1, <3>2, <1>4, <1>6
  <2> QED
    BY <2>1, <2>2
<1>8. \A f \in W : f \in Nat /\ lo <= f /\ f + 1 <= hi
  <2>1. TAKE f \in W
  <2>2. f \in Nat /\ f + 1 \in Nat /\ base_addr(f + 1) <= e /\ lo <= f
    BY <1>1, <1>2, <1>7
  <2>3. hi + 1 \in Nat /\ (hi + 1 <= f + 1 => base_addr(hi + 1) <= base_addr(f + 1))
    BY <2>2, Addresses
  <2>4. base_addr(hi + 1) \in Nat /\ base_addr(f + 1) \in Nat
    BY <2>2, <2>3, Addresses
  <2> QED
    BY <1>2, <1>5, <2>2, <2>3, <2>4
<1>9. lo < hi /\ hi - lo \in Nat
  BY <1>8 DEF W
<1>10. base_addr(hi) = base_addr(lo) + base_addr(hi - lo)
  <2>1. hi = lo + (hi - lo)
    BY <1>9
  <2> QED
    BY <1>9, <2>1, AddressSum
<1>11. base_addr(hi) \in Nat /\ base_addr(lo) \in Nat /\ base_addr(hi - lo) \in Nat
  BY <1>9, Addresses
<1>12. base_addr(hi - lo) <= counted(region)
  BY <1>2, <1>3, <1>4, <1>5, <1>7, <1>10, <1>11
<1>13. \A f \in WholeFrames(region) : lo <= f /\ f < hi
  BY <1>8 DEF W
<1> QED
  BY <1>9, <1>12, <1>13, Zenon

(* The map is a sequence of regions, and no step changes it.               *)
LEMMA SameMap ==
    ASSUME KInv, [Next]_vars
    PROVE  mmap \in Seq(Region) /\ mmap' = mmap
<1>1. mmap \in Seq(Region)
  BY KernelAssumption, Zenon DEF KInv, Alloc!IInv, Alloc!Shape, Alloc!TypeOK
<1>2. [Alloc!Next]_(Alloc!vars)
  BY AllocatorRuns, Zenon
<1>3. mmap' = mmap
  BY <1>2, Zenon DEF Alloc!Next, Alloc!Step, Alloc!Client, Alloc!InitRegion, Alloc!MarkFreeDone,
     Alloc!ReserveLow, Alloc!ReserveKernel, Alloc!InitDone, Alloc!SetFreeWord,
     Alloc!SetOccupiedWord, Alloc!ScanFrame, Alloc!ScanFallback, Alloc!ScanMiss,
     Alloc!AllocateDone, Alloc!CheckWord, Alloc!CheckDone, Alloc!FreeDone, Alloc!Allocate,
     Alloc!Free, Alloc!Drop, Alloc!world, Alloc!vars
<1> QED
  BY <1>1, <1>3

(* Counting frames.                                                        *)
INSTANCE FiniteSetTheorems

(* Frames are finitely many.                                               *)
LEMMA FramesFinite == IsFiniteSet(FrameSet)
<1>1. 0 \in Int /\ WORD_COUNT * WORD_BITS - 1 \in Int
  BY Symbols
<1> QED
  BY <1>1, FS_Interval, Zenon DEF FrameSet

(* So are the covered ones.                                                *)
LEMMA CoveredFinite == IsFiniteSet(Covered)
<1>1. Covered \in SUBSET FrameSet
  BY Zenon DEF Covered, CoveredBy, WholeFrames
<1> QED
  BY <1>1, FramesFinite, FS_Subset, Zenon

(* So a region's bytes cover the frames that lie wholly inside it.         *)
LEMMA RegionCovers ==
    ASSUME NEW region \in Region
    PROVE  /\ counted(region) \in Nat /\ IsFiniteSet(WholeFrames(region))
           /\ base_addr(Cardinality(WholeFrames(region))) <= counted(region)
<1> DEFINE W == WholeFrames(region)
<1>1. /\ region.base \in Nat /\ region.length \in Nat /\ region.available \in BOOLEAN
      /\ LIMIT \in Nat /\ U64_MAX \in Nat /\ LIMIT <= U64_MAX
  BY LimitAssumption DEF Region, U64
<1>2. counted(region) \in Nat
  BY <1>1 DEF counted, addressable_bytes, clamped_end, saturating_add
<1>3. W \in SUBSET FrameSet
  BY Zenon DEF WholeFrames
<1>4. IsFiniteSet(W)
  BY <1>3, FramesFinite, FS_Subset, Zenon
<1>5. ASSUME W = {} PROVE base_addr(Cardinality(W)) <= counted(region)
  <2>1. Cardinality(W) = 0
    BY <1>5, FS_EmptySet, Zenon
  <2> QED
    BY <1>2, <2>1, Symbols DEF base_addr
<1>6. ASSUME NEW w \in W PROVE base_addr(Cardinality(W)) <= counted(region)
  <2>1. PICK lo, hi \in Nat : /\ lo < hi /\ base_addr(hi - lo) <= counted(region)
                              /\ \A f \in W : lo <= f /\ f < hi
    BY RegionSpan
  <2> HIDE DEF W
  <2>2. W \in SUBSET FrameSet
    BY <1>3 DEF W
  <2>3. lo \in Int /\ hi - 1 \in Int /\ W \in SUBSET (lo .. hi - 1) /\ hi - lo \in Nat
    BY <2>1, <2>2 DEF FrameSet
  <2>4. /\ IsFiniteSet(lo .. hi - 1)
        /\ Cardinality(lo .. hi - 1) = IF lo > hi - 1 THEN 0 ELSE hi - 1 - lo + 1
    BY <2>3, FS_Interval, Zenon
  <2>5. Cardinality(W) <= Cardinality(lo .. hi - 1)
    BY <2>3, <2>4, FS_Subset, Zenon
  <2>6. Cardinality(W) \in Nat
    BY <1>4, FS_CardinalityType, Zenon DEF W
  <2>7. Cardinality(W) <= hi - lo
    BY <2>1, <2>4, <2>5, <2>6
  <2> QED
    BY <1>2, <2>1, <2>3, <2>6, <2>7, Addresses
<1> QED
  BY <1>2, <1>4, <1>5, <1>6 DEF W

(* Nothing is printed and nothing covered at the start.                    *)
LEMMA InitReport == Init => ReportInv
<1> SUFFICES ASSUME Init PROVE ReportInv
    OBVIOUS
<1>1. printed = 0 /\ usable_bytes = 0 /\ stage = "entry" /\ fb_pc = "region"
  BY DEF Init, Alloc!Init
<1>2. mmap \in Seq(Region)
  BY KernelAssumption, Zenon DEF Init, Alloc!Init
<1>3. Len(mmap) \in Nat
  BY <1>2
<1>4. Covered = {}
  BY <1>1 DEF Covered, CoveredBy
<1>5. base_addr(Cardinality(Covered)) = 0
  <2>1. Cardinality(Covered) = 0
    BY <1>4, FS_EmptySet, Zenon
  <2> QED
    BY <2>1, Symbols DEF base_addr
<1> QED
  BY <1>1, <1>3, <1>5 DEF ReportInv

(* Printing a region adds its frames and at least as many bytes            *)
(* (print_memory_map).                                                     *)
LEMMA PrintCovers ==
    ASSUME KInv, ReportInv, [Next]_vars, PrintRegion
    PROVE  usable_bytes' \in Nat /\ base_addr(Cardinality(Covered')) <= usable_bytes'
<1> DEFINE region == mmap[printed + 1]
           W == WholeFrames(region)
<1>1. /\ printed \in 0 .. Len(mmap) /\ usable_bytes \in Nat
      /\ base_addr(Cardinality(Covered)) <= usable_bytes
  BY Zenon DEF ReportInv
<1>2. /\ printed < Len(mmap) /\ printed' = printed + 1
      /\ usable_bytes' = usable_bytes + counted(region) /\ mmap' = mmap
  BY SameMap, Zenon DEF PrintRegion
<1>3. region \in Region /\ printed \in Nat
  BY <1>1, <1>2, SameMap
<1>4. /\ counted(region) \in Nat /\ IsFiniteSet(W)
      /\ base_addr(Cardinality(W)) <= counted(region)
  BY <1>3, RegionCovers, Zenon
<1>5. Covered' = Covered \cup W
  <2>1. 1 .. printed + 1 = (1 .. printed) \cup {printed + 1}
    BY <1>3
  <2>2. Covered' = CoveredBy(mmap, printed + 1)
    BY <1>2, Zenon DEF Covered
  <2> QED
    BY <2>1, <2>2, Zenon DEF Covered, CoveredBy
<1> HIDE DEF W, region
<1>6. IsFiniteSet(Covered)
  BY CoveredFinite, Zenon
<1>7. Cardinality(Covered \cup W)
        = Cardinality(Covered) + Cardinality(W) - Cardinality(Covered \cap W)
  BY <1>4, <1>6, FS_Union, Zenon
<1>8. IsFiniteSet(Covered \cap W) /\ IsFiniteSet(Covered \cup W)
  BY <1>4, <1>6, FS_Union, FS_Intersection, Zenon
<1>9. /\ Cardinality(Covered) \in Nat /\ Cardinality(W) \in Nat
      /\ Cardinality(Covered \cap W) \in Nat /\ Cardinality(Covered \cup W) \in Nat
  BY <1>4, <1>6, <1>8, FS_CardinalityType, Zenon
<1> DEFINE c == Cardinality(Covered)
           d == Cardinality(W)
           u == Cardinality(Covered \cup W)
<1>10. c \in Nat /\ d \in Nat /\ u \in Nat /\ u <= c + d
  BY <1>7, <1>9
<1> HIDE DEF c, d, u
<1>11. base_addr(u) <= base_addr(c + d) /\ base_addr(c + d) = base_addr(c) + base_addr(d)
  BY <1>10, Addresses, AddressSum
<1>12. base_addr(u) \in Nat /\ base_addr(c) \in Nat /\ base_addr(d) \in Nat
  BY <1>10, Addresses
<1>13. base_addr(c) <= usable_bytes /\ base_addr(d) <= counted(region)
  BY <1>1, <1>4 DEF c, d
<1>14. base_addr(u) <= usable_bytes + counted(region)
  BY <1>1, <1>4, <1>11, <1>12, <1>13
<1> QED
  BY <1>1, <1>2, <1>4, <1>5, <1>14 DEF u

(* Every step keeps the report ahead of the allocator.                     *)
LEMMA StepReport == KInv /\ ReportInv /\ [Next]_vars => ReportInv'
<1> SUFFICES ASSUME KInv, ReportInv, [Next]_vars PROVE ReportInv'
    OBVIOUS
<1>1. mmap \in Seq(Region) /\ mmap' = mmap
  BY SameMap, Zenon
<1>2. UNCHANGED report => UNCHANGED <<printed, usable_bytes>> /\ Covered' = Covered
  BY <1>1 DEF report, Covered
<1>3. /\ printed \in 0 .. Len(mmap) /\ usable_bytes \in Nat /\ Len(mmap) \in Nat
      /\ base_addr(Cardinality(Covered)) <= usable_bytes
      /\ stage \in {"entry", "print"} => fb_pc = "region"
      /\ fb_pc # "region" \/ stage \in {"allocator", "paging", "idle"} => printed = Len(mmap)
  BY <1>1 DEF ReportInv
<1>4. CASE UNCHANGED vars \/ CheckMagic \/ EnterMemoryInit
  <2>1. UNCHANGED <<report, fb_pc>>
    BY <1>4 DEF vars, allocator, report, CheckMagic, EnterMemoryInit
  <2>2. stage' \in {"entry", "print"} => stage \in {"entry", "print"}
    BY <1>4 DEF vars, CheckMagic, EnterMemoryInit
  <2>3. stage' \in {"allocator", "paging", "idle"} =>
           stage \in {"allocator", "paging", "idle"} \/ printed = Len(mmap)
    BY <1>4 DEF vars, CheckMagic, EnterMemoryInit
  <2> QED
    BY <1>1, <1>2, <1>3, <2>1, <2>2, <2>3, Zenon DEF ReportInv
<1>5. CASE PrintRegion
  <2>1. usable_bytes' \in Nat /\ base_addr(Cardinality(Covered')) <= usable_bytes'
    BY <1>5, PrintCovers, Zenon
  <2>2. printed < Len(mmap) /\ printed' = printed + 1 /\ stage = "print" /\ stage' = "print"
        /\ fb_pc' = fb_pc
    BY <1>5 DEF PrintRegion, allocator
  <2>3. printed' \in 0 .. Len(mmap)
    BY <1>3, <2>2
  <2> QED
    BY <1>1, <1>3, <2>1, <2>2, <2>3 DEF ReportInv
<1>6. CASE InitAllocator \/ AskForFrame \/ SearchFrame \/ UseFrame \/ StepPaging
  <2>1. UNCHANGED report /\ stage \in {"allocator", "paging"}
    BY <1>6 DEF InitAllocator, AskForFrame, SearchFrame, UseFrame, StepPaging
  <2>2. stage' \notin {"entry", "print"}
    <3>1. CASE InitAllocator
      BY <3>1, <2>1, Zenon DEF InitAllocator
    <3>2. CASE AskForFrame \/ SearchFrame \/ UseFrame \/ StepPaging
      BY <3>2 DEF AskForFrame, SearchFrame, UseFrame, StepPaging
    <3> QED
      BY <1>6, <3>1, <3>2
  <2> QED
    BY <1>1, <1>2, <1>3, <2>1, <2>2, Zenon DEF ReportInv
<1> QED
  BY <1>4, <1>5, <1>6, Zenon DEF Next

(* When the allocator is ready, its free frames are among those reported.  *)
LEMMA ReportedEnough == KInv /\ ReportInv => FreeWithinReport
<1> SUFFICES ASSUME KInv, ReportInv, fb_pc = "ready"
             PROVE  base_addr(Cardinality(Alloc!FreeFrames)) <= usable_bytes
    BY DEF FreeWithinReport
<1>1. /\ printed = Len(mmap) /\ usable_bytes \in Nat
      /\ base_addr(Cardinality(Covered)) <= usable_bytes
  BY DEF ReportInv
<1>2. Alloc!FreeFrames \subseteq Published
  <2>1. Alloc!FreeFrames \subseteq Alloc!Deliverable
    BY Zenon DEF KInv, Alloc!IInv, Alloc!Usability
  <2>2. fb_pc \notin Alloc!BootPc \cup {"panicked"}
    BY DEF Alloc!BootPc
  <2>3. Alloc!FreeFrames \cap Alloc!Reserved = {}
    BY <2>2, Zenon DEF KInv, Alloc!IInv, Alloc!Reservation, Alloc!ReservedNeverIssued
  <2> QED
    BY <2>1, <2>3, Zenon DEF Published
<1>3. Usable \subseteq Covered
  <2>1. DOMAIN mmap = 1 .. printed
    <3>1. mmap \in Seq(Region)
      BY KernelAssumption, Zenon DEF KInv, Alloc!IInv, Alloc!Shape, Alloc!TypeOK
    <3> QED
      BY <1>1, <3>1
  <2>2. ASSUME NEW f \in Usable PROVE f \in Covered
    <3>1. PICK i \in DOMAIN mmap : f \in WholeFrames(mmap[i])
      BY Zenon DEF Usable, WholeFrames
    <3> QED
      BY <2>1, <3>1, Zenon DEF Covered, CoveredBy
  <2> QED
    BY <2>2, Zenon
<1>4. Alloc!FreeFrames \in SUBSET Covered
  BY <1>2, <1>3, PublishedUsable, Zenon
<1>5. IsFiniteSet(Covered)
  BY CoveredFinite, Zenon
<1>6. /\ Cardinality(Alloc!FreeFrames) <= Cardinality(Covered)
      /\ IsFiniteSet(Alloc!FreeFrames)
  BY <1>4, <1>5, FS_Subset, Zenon
<1>7. Cardinality(Alloc!FreeFrames) \in Nat /\ Cardinality(Covered) \in Nat
  BY <1>5, <1>6, FS_CardinalityType, Zenon
<1> DEFINE c == Cardinality(Covered)
           d == Cardinality(Alloc!FreeFrames)
<1>8. c \in Nat /\ d \in Nat /\ d <= c /\ base_addr(c) <= usable_bytes
  BY <1>1, <1>6, <1>7
<1> HIDE DEF c, d
<1>9. base_addr(d) <= usable_bytes
  BY <1>1, <1>8, Addresses
<1> QED
  BY <1>9 DEF d
=============================================================================
