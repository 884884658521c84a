---------------------------- MODULE PagingProofs ----------------------------
(***************************************************************************)
(* Proofs about the hand-over to the kernel's page directory               *)
(* (src/memory/paging.rs, init), for every table size, image, set of free  *)
(* frames and leftover contents.                                           *)
(***************************************************************************)
EXTENDS PagingInv, TLAPS, WellFoundedInduction

-----------------------------------------------------------------------------
(* Entries and indices.                                                    *)

(* A frame is larger than the control bits of an entry.                    *)
LEMMA FrameSize == FRAME_SIZE \in Nat /\ FRAME_SIZE >= 256
BY FrameSizeAssumption, EntryAssumption DEF PAGE_SIZE_BIT

(* Page-directory and page-table index determine the page and conversely.  *)
LEMMA Indices ==
    ASSUME NEW i \in Nat, NEW j \in Index
    PROVE  /\ from_indices(i, j) \in Nat
           /\ pd_index(from_indices(i, j)) = i /\ pt_index(from_indices(i, j)) = j
BY EntryAssumption DEF from_indices, pd_index, pt_index, Index

(* A page is its two indices, and each page has its own.                   *)
LEMMA PageSplit ==
    ASSUME NEW page \in Page
    PROVE  /\ pd_index(page) \in Index /\ pt_index(page) \in Index
           /\ page = from_indices(pd_index(page), pt_index(page))
<1>1. page \in Nat /\ page < ENTRY_COUNT * ENTRY_COUNT /\ ENTRY_COUNT \in Nat \ {0}
  BY EntryAssumption DEF Page
<1>2. page \div ENTRY_COUNT \in Nat /\ page % ENTRY_COUNT \in 0 .. ENTRY_COUNT - 1
      /\ page = (page \div ENTRY_COUNT) * ENTRY_COUNT + (page % ENTRY_COUNT)
  BY <1>1
<1>3. page \div ENTRY_COUNT < ENTRY_COUNT
  BY <1>1, <1>2
<1> QED
  BY <1>1, <1>2, <1>3 DEF pd_index, pt_index, from_indices, Index

(* What an entry says: the frame and the rights it was made with.          *)
LEMMA Entry ==
    ASSUME NEW f \in Nat, NEW flags \in {KERNEL_RO, KERNEL_RW}
    PROVE  LET e == for_table(f, flags) IN
           /\ e \in Nat /\ e # EMPTY /\ is_present(e) /\ ~is_huge(e)
           /\ table_frame(e) = f /\ (is_writable(e) <=> flags = KERNEL_RW)
<1> DEFINE e == base_addr(f) + flags
<1>1. flags \in {1, 3} /\ FRAME_SIZE \in Nat \ {0} /\ FRAME_SIZE > 3 /\ FRAME_SIZE % 256 = 0
  BY FrameSize, EntryAssumption DEF KERNEL_RO, KERNEL_RW, PRESENT, WRITABLE, PAGE_SIZE_BIT
<1>2. e \in Nat /\ e > 0 /\ e % FRAME_SIZE = flags /\ e - flags = f * FRAME_SIZE
      /\ (f * FRAME_SIZE) \div FRAME_SIZE = f
  BY <1>1 DEF base_addr
<1>3. (e \div 128) % 2 = 0
  <2>1. PICK q \in Nat : FRAME_SIZE = 256 * q
    <3>1. FRAME_SIZE \div 256 \in Nat /\ FRAME_SIZE = 256 * (FRAME_SIZE \div 256)
      BY <1>1
    <3> QED
      BY <3>1, Zenon
  <2>2. f * q \in Nat /\ f * FRAME_SIZE = 256 * (f * q)
    BY <2>1
  <2> DEFINE m == f * q
  <2>3. e = 256 * m + flags /\ m \in Nat
    BY <2>2 DEF base_addr
  <2> HIDE DEF m, e
  <2>4. e \div 128 = 2 * m
    BY <1>1, <2>3
  <2> QED
    BY <2>3, <2>4
<1>4. flags_of(e) = flags
  BY <1>2 DEF flags_of
<1>5. is_present(e) /\ (is_writable(e) <=> flags = 3)
  BY <1>1, <1>4 DEF is_present, is_writable, contains, PRESENT, WRITABLE
<1>6. table_frame(e) = f
  BY <1>2, <1>4 DEF table_frame, frame_floor
<1>7. ~is_huge(e)
  BY <1>3 DEF is_huge, contains, PAGE_SIZE_BIT
<1> QED
  BY <1>2, <1>5, <1>6, <1>7 DEF for_table, EMPTY, KERNEL_RW, PRESENT, WRITABLE

(* Entries for tables and for pages are built alike.                       *)
LEMMA NewPte == \A f, flags : new_pte(f, flags) = for_table(f, flags)
BY DEF new_pte, for_table

(* A zero entry maps nothing.                                              *)
LEMMA Absent == ~is_present(EMPTY)
BY FrameSize DEF is_present, contains, flags_of, EMPTY, PRESENT

(* Read-only and writable flags differ.                                    *)
LEMMA Flags == KERNEL_RO # KERNEL_RW /\ KERNEL_RO \in Nat /\ KERNEL_RW \in Nat
BY DEF KERNEL_RO, KERNEL_RW, PRESENT, WRITABLE

(* Under the bootstrap map a page below the limit is itself, in either     *)
(* half.                                                                   *)
LEMMA Bootstrapped ==
    ASSUME NEW mem, mem[BOOT_DIRECTORY] = bootstrap, NEW f \in Index
    PROVE  /\ translate(mem, BOOT_DIRECTORY, f).frame = f
           /\ translate(mem, BOOT_DIRECTORY, high_page(f)).frame = f
<1> DEFINE e == for_huge_page(0, KERNEL_RW)
<1>1. e = 131 /\ FRAME_SIZE \in Nat /\ FRAME_SIZE > 131
  BY FrameSize DEF for_huge_page, base_addr, PAGE_SIZE_BIT, KERNEL_RW, PRESENT, WRITABLE
<1>2. flags_of(e) = 131
  BY <1>1 DEF flags_of
<1>3. is_present(e) /\ is_huge(e)
  BY <1>1, <1>2 DEF is_present, is_huge, contains, PRESENT, PAGE_SIZE_BIT
<1>4. table_frame(e) = 0
  BY <1>1, <1>2 DEF table_frame, frame_floor
<1>5. f \in Nat /\ pd_index(f) = 0 /\ pt_index(f) = f
  BY EntryAssumption DEF pd_index, pt_index, Index
<1>6. high_page(f) = from_indices(KERNEL_BASE, f) /\ KERNEL_BASE \in Index
  BY BootMapAssumption, EntryAssumption DEF high_page, from_indices, Index
<1>7. pd_index(high_page(f)) = KERNEL_BASE /\ pt_index(high_page(f)) = f
  BY <1>6, Indices DEF Index
<1>8. bootstrap[0] = e /\ bootstrap[KERNEL_BASE] = e
  BY BootMapAssumption, EntryAssumption DEF bootstrap, Index
<1> QED
  BY <1>3, <1>4, <1>5, <1>7, <1>8 DEF translate

(* The allocator's answer is the lowest free frame.                        *)
LEMMA AllocatedIsFree ==
    ASSUME free \subseteq Nat, free # {}
    PROVE  allocated \in free /\ \A f \in free : allocated <= f
<1>1. PICK x \in free : \A y \in free : ~(<<y, x>> \in OpToRel(<, Nat))
  BY NatLessThanWellFounded, WFMin, Zenon
<1>2. ASSUME NEW y \in free PROVE x <= y
  <2>1. x \in Nat /\ y \in Nat
    OBVIOUS
  <2>2. y < x => <<y, x>> \in OpToRel(<, Nat)
    BY <2>1 DEF OpToRel
  <2>3. ~(y < x)
    BY <1>1, <2>2, Zenon
  <2> QED
    BY <2>1, <2>3
<1> QED
  BY <1>2, Zenon DEF allocated, Min

-----------------------------------------------------------------------------
(* Where the linker's symbols lie.                                         *)
LEMMA Layout ==
    ASSUME image \in Images
    PROVE  /\ image.phys_start \in Nat /\ image.high \in Nat /\ image.data \in Nat
           /\ image.guard \in Nat /\ image.end \in Nat
           /\ 0 < image.phys_start /\ image.phys_start <= BOOT_DIRECTORY
           /\ BOOT_DIRECTORY < image.high /\ image.high < image.data
           /\ image.data <= image.guard /\ image.guard < image.end /\ image.end <= ENTRY_COUNT
           /\ BOOT_DIRECTORY \in Nat
BY PagingAssumption, BootMapAssumption, EntryAssumption DEF Image, Index

(* The slots are distinct and inside the table.                            *)
LEMMA SlotRange ==
    /\ ENTRY_COUNT \in Nat \ {0} /\ KERNEL_BASE \in Nat /\ 0 < KERNEL_BASE
    /\ KERNEL_BASE < RECURSIVE_INDEX /\ RECURSIVE_INDEX \in Index /\ Slots \subseteq Index
    /\ BOOT_DIRECTORY \in Index /\ RECURSIVE_INDEX = ENTRY_COUNT - 1
BY PagingAssumption, BootMapAssumption, EntryAssumption DEF Index, Slots, RECURSIVE_INDEX

(* Frames of the first table's reach have their page in the kernel half.  *)
LEMMA HighPage ==
    ASSUME NEW f \in Nat, f <= ENTRY_COUNT
    PROVE  /\ high_page(f) = KERNEL_BASE * ENTRY_COUNT + f /\ high_page(f) \in Page
           /\ KERNEL_BASE * ENTRY_COUNT \in Nat /\ KERNEL_BASE * ENTRY_COUNT >= ENTRY_COUNT
<1> DEFINE n == ENTRY_COUNT
           b == KERNEL_BASE
<1>1. n \in Nat /\ b \in Nat /\ 0 < b /\ b + 2 <= n
  BY SlotRange
<1> HIDE DEF n, b
<1>2. b * n \in Nat /\ b * n >= n
  BY <1>1
<1>3. (b + 2) * n <= n * n
  BY <1>1
<1>4. b * n + 2 * n <= n * n
  BY <1>1, <1>3
<1>5. high_page(f) = b * n + f
  BY <1>1 DEF high_page, from_indices, n, b
<1>6. b * n + f \in 0 .. n * n - 1
  <2> DEFINE x == b * n
             y == n * n
  <2>1. x \in Nat /\ y \in Nat /\ x + 2 * n <= y /\ f <= n /\ n > 0
    BY <1>1, <1>2, <1>4 DEF n
  <2> HIDE DEF x, y
  <2>2. x + f \in 0 .. y - 1
    BY <1>1, <2>1
  <2> QED
    BY <2>2 DEF x, y
<1> QED
  BY <1>2, <1>5, <1>6 DEF n, b, Page

(* The pages to map, by slot and index in the table.                       *)
LEMMA PageSets ==
    ASSUME image \in Images
    PROVE  /\ \A page \in KernelPages :
                 /\ page \in Page /\ pd_index(page) = KERNEL_BASE
                 /\ page - high_page(0) \in image.high .. image.end - 1
                 /\ page = high_page(page - high_page(0))
           /\ \A page \in LowPages : page \in Page /\ page \in Index /\ pd_index(page) = 0
           /\ KernelPages \cap LowPages = {}
<1> USE Layout, SlotRange
<1>1. ASSUME NEW page \in KernelPages
      PROVE  /\ page \in Page /\ pd_index(page) = KERNEL_BASE
             /\ page - high_page(0) \in image.high .. image.end - 1
             /\ page = high_page(page - high_page(0))
             /\ page >= ENTRY_COUNT
  <2> DEFINE b == KERNEL_BASE * ENTRY_COUNT
             f == page - b
  <2>1. b \in Nat /\ b >= ENTRY_COUNT /\ high_page(0) = b
    BY HighPage
  <2>2. page \in b + image.high .. b + image.end - 1
    BY HighPage DEF KernelPages
  <2> HIDE DEF b
  <2>3. f \in Nat /\ f \in image.high .. image.end - 1 /\ f < ENTRY_COUNT /\ page = b + f
    BY <2>1, <2>2
  <2>4. page = high_page(f) /\ page \in Page
    BY <2>3, HighPage DEF b
  <2>5. page = from_indices(KERNEL_BASE, f) /\ f \in Index
    BY <2>3 DEF from_indices, b, Index
  <2> QED
    BY <2>1, <2>3, <2>4, <2>5, Indices
<1>2. ASSUME NEW page \in LowPages
      PROVE  page \in Page /\ page \in Index /\ pd_index(page) = 0 /\ page < ENTRY_COUNT
  <2>1. page \in Index
    BY DEF LowPages, Index
  <2>2. page = from_indices(0, page)
    BY <2>1 DEF from_indices, Index
  <2>3. pd_index(page) = 0
    BY <2>1, <2>2, Indices
  <2>4. ENTRY_COUNT <= ENTRY_COUNT * ENTRY_COUNT /\ ENTRY_COUNT * ENTRY_COUNT \in Nat
    OBVIOUS
  <2>5. page \in Page /\ page < ENTRY_COUNT
    BY <2>1, <2>4 DEF Page, Index
  <2> QED
    BY <2>1, <2>3, <2>5
<1>3. KernelPages \cap LowPages = {}
  BY <1>1, <1>2 DEF Page
<1> QED
  BY <1>1, <1>2, <1>3

-----------------------------------------------------------------------------
(* The steps.                                                              *)

(* While the bootstrap map is active a frame below the limit is reached    *)
(* under its own number.                                                   *)
LEMMA Behind ==
    ASSUME Ranges, pc \notin {"wp", "done"}, NEW f \in Index
    PROVE  behind(f) = f
BY Bootstrapped, Zenon DEF Ranges, behind

(* A frame alloc_frame returns is new, below the limit and not the image's. *)
LEMMA Fresh ==
    ASSUME Ranges, pc \notin {"wp", "done"}, can_allocate
    PROVE  /\ allocated \in free /\ allocated \in Index /\ allocated \in DOMAIN memory
           /\ allocated \notin taken /\ allocated # BOOT_DIRECTORY
           /\ behind(allocated) = allocated
           /\ \A next : reaching(allocated, next) = next
<1>1. free \subseteq Nat /\ free # {}
  BY DEF Ranges, Page, can_allocate
<1>2. allocated \in free /\ allocated \in Nat /\ allocated < ENTRY_COUNT
  BY <1>1, AllocatedIsFree, Zenon DEF can_allocate, identity_mapped, BOOTSTRAP_IDENTITY_LIMIT
<1>3. allocated \in Index /\ allocated \in DOMAIN memory
  BY <1>2, SlotRange DEF Index, Ranges
<1>4. allocated # BOOT_DIRECTORY
  BY <1>2, Layout DEF Ranges
<1>5. behind(allocated) = allocated
  BY <1>3, Behind
<1> QED
  BY <1>2, <1>3, <1>4, <1>5 DEF Ranges, reaching

(* The page an iteration maps, its entry and the progress it makes.        *)
LEMMA Iteration ==
    ASSUME Ranges, mapping
    PROVE  /\ pc \in {"kernel", "low"} /\ next_page \in Page
           /\ pd_index(next_page) \in Slots /\ pt_index(next_page) \in Index
           /\ next_page = from_indices(pd_index(next_page), pt_index(next_page))
           /\ new_pte(target, rights) = Intended(next_page) /\ Intended(next_page) \in Nat
<1> USE DEF Ranges
<1>1. CASE pc = "kernel"
  <2>1. next_page \in KernelPages
    BY <1>1, Layout, HighPage DEF mapping, KernelPages, Page
  <2>2. /\ pd_index(next_page) = KERNEL_BASE /\ next_page - high_page(0) \in Nat
    BY <2>1, PageSets, Layout
  <2>3. target = next_page - high_page(0) /\ rights = kernel_flags(next_page)
    <3>1. from_indices(KERNEL_BASE, 0) \in Nat /\ high_page(0) = from_indices(KERNEL_BASE, 0)
      BY SlotRange DEF from_indices, high_page
    <3> QED
      BY <1>1, <3>1 DEF target, rights, kernel_frame
  <2>4. rights \in {KERNEL_RO, KERNEL_RW}
    BY <2>3 DEF kernel_flags
  <2> QED
    BY <1>1, <2>1, <2>2, <2>3, <2>4, PageSplit, Entry, NewPte, Zenon DEF Intended, Slots
<1>2. CASE pc = "low"
  <2>1. next_page \in LowPages
    BY <1>2, Layout DEF mapping, LowPages, low_limit, Page
  <2>2. pd_index(next_page) = 0 /\ next_page \notin KernelPages /\ next_page \in Nat
    BY <2>1, PageSets DEF LowPages
  <2>3. target = next_page /\ rights = KERNEL_RW
    BY <1>2 DEF target, rights
  <2> QED
    BY <1>2, <2>1, <2>2, <2>3, PageSplit, Entry, NewPte DEF Intended, Slots
<1> QED
  BY <1>1, <1>2 DEF mapping

(* How the pages mapped grow by one.                                       *)
LEMMA Progress ==
    ASSUME Ranges, mapping, next_iteration, pc' = pc
    PROVE  Mapped' = Mapped \cup {next_page} /\ \A page : Intended(page)' = Intended(page)
<1>1. image' = image /\ next_page' = next_page + 1 /\ next_page \in Nat
  BY DEF next_iteration, Ranges, Page
<1>2. KernelPages' = KernelPages /\ LowPages' = LowPages /\ GuardPage' = GuardPage
  BY <1>1 DEF KernelPages, LowPages, GuardPage
<1>3. CASE pc = "kernel"
  <2>1. next_page \in KernelPages \ {GuardPage}
    BY <1>3, Layout, HighPage DEF mapping, KernelPages, Page, GuardPage, skips_guard, Ranges
  <2>2. \A page \in KernelPages : page \in Nat
    BY PageSets DEF Page, Ranges
  <2>3. Mapped = {page \in KernelPages \ {GuardPage} : page < next_page}
        /\ Mapped' = {page \in KernelPages \ {GuardPage} : page < next_page + 1}
    BY <1>1, <1>2, <1>3 DEF Mapped
  <2>4. \A page \in KernelPages : page < next_page + 1 <=> page < next_page \/ page = next_page
    BY <1>1, <2>2
  <2>5. Mapped' = Mapped \cup {next_page}
    BY <2>1, <2>3, <2>4, Zenon
  <2> QED
    BY <1>1, <1>2, <2>5 DEF Intended, kernel_flags
<1>4. CASE pc = "low"
  <2>1. 0 .. next_page' - 1 = (0 .. next_page - 1) \cup {next_page}
    BY <1>1
  <2>2. /\ Mapped = (KernelPages \ {GuardPage}) \cup 0 .. next_page - 1
        /\ Mapped' = (KernelPages \ {GuardPage}) \cup 0 .. next_page' - 1
    BY <1>1, <1>2, <1>4 DEF Mapped
  <2> QED
    BY <1>1, <1>2, <2>1, <2>2 DEF Intended, kernel_flags
<1> QED
  BY <1>3, <1>4 DEF mapping

(* The page after the one in hand is still in range of the loop.           *)
LEMMA NextInRange ==
    ASSUME Ranges, mapping \/ (pc = "kernel" /\ next_page < high_page(image.end))
    PROVE  /\ next_page + 1 \in Page
           /\ pc = "kernel" => /\ high_page(image.high) <= next_page + 1
                             /\ next_page + 1 <= high_page(image.end)
           /\ pc = "low" => next_page + 1 <= image.phys_start
<1>1. image \in Images /\ next_page \in Nat /\ pc \in {"kernel", "low"}
  BY DEF Ranges, mapping, Page
<1>2. image.end \in Nat /\ image.end <= ENTRY_COUNT /\ image.high \in Nat /\ image.high <= ENTRY_COUNT
      /\ image.phys_start \in Nat /\ image.phys_start <= ENTRY_COUNT
  BY <1>1, Layout, SlotRange
<1>3. high_page(image.end) \in Page /\ high_page(image.high) \in Page
  BY <1>2, HighPage
<1>4. ENTRY_COUNT < ENTRY_COUNT * ENTRY_COUNT /\ ENTRY_COUNT * ENTRY_COUNT \in Nat
  BY SlotRange
<1>5. CASE pc = "kernel"
  <2>1. next_page < high_page(image.end) /\ high_page(image.high) <= next_page
    BY <1>5, Zenon DEF Ranges, mapping
  <2>2. high_page(image.end) \in 0 .. ENTRY_COUNT * ENTRY_COUNT - 1 /\ high_page(image.high) \in Nat
    BY <1>3, <1>4 DEF Page
  <2>3. /\ next_page + 1 \in 0 .. ENTRY_COUNT * ENTRY_COUNT - 1
        /\ high_page(image.high) <= next_page + 1 /\ next_page + 1 <= high_page(image.end)
    BY <1>1, <1>4, <2>1, <2>2
  <2> QED
    BY <1>5, <2>3 DEF Page
<1>6. CASE pc = "low"
  <2>1. next_page < image.phys_start
    BY <1>6 DEF mapping, low_limit
  <2>2. next_page + 1 <= image.phys_start /\ next_page + 1 \in 0 .. ENTRY_COUNT * ENTRY_COUNT - 1
    BY <1>1, <1>2, <1>4, <2>1, SlotRange
  <2> QED
    BY <1>6, <2>2 DEF Page
<1> QED
  BY <1>1, <1>5, <1>6

(* A loop that ends, or skips a page, leaves the tables as they are.       *)
LEMMA Unmoved ==
    ASSUME IInv, pc \in Built, UNCHANGED <<image, taken, memory, pd_frame>>, Mapped' = Mapped
    PROVE  (Directory /\ Filled)'
<1>1. Directory'
  BY DEF IInv, Directory
<1>2. \A page : Intended(page)' = Intended(page)
  BY DEF Intended, kernel_flags, KernelPages
<1> QED
  BY <1>1, <1>2 DEF IInv, Filled

(* The invariant holds when paging::init is entered.                       *)
LEMMA InitIInv == Init => IInv
<1> SUFFICES ASSUME Init PROVE Ranges
    BY Zenon DEF Init, IInv, Built
<1>1. memory[BOOT_DIRECTORY] = bootstrap
  BY SlotRange DEF Init, Index
<1>2. memory \in [0 .. 2 * ENTRY_COUNT - 1 -> [Index -> Nat]]
  <2>1. for_huge_page(0, KERNEL_RW) \in Nat /\ EMPTY \in Nat
    BY FrameSize DEF for_huge_page, base_addr, PAGE_SIZE_BIT, KERNEL_RW, PRESENT, WRITABLE, EMPTY
  <2>2. bootstrap \in [Index -> Nat]
    BY <2>1 DEF bootstrap
  <2> QED
    BY <2>2, PagingAssumption DEF Init
<1>3. next_page \in Page
  BY SlotRange DEF Init, Page
<1>4. \A f \in free : f \in Page /\ f # 0 /\ f \notin image.phys_start .. image.end - 1
  BY PagingAssumption DEF Init
<1>5. wp = FALSE
  BY DEF Init
<1> QED
  BY <1>1, <1>2, <1>3, <1>4, <1>5, SlotRange, Zenon DEF Init, Ranges, Built

(* Ranges through the steps that write a table or the directory.           *)
LEMMA DirectoryStep == IInv /\ NewDirectory => IInv'
<1> SUFFICES ASSUME IInv, NewDirectory PROVE IInv'
    OBVIOUS
<1> DEFINE f == allocated
           zeroes == [j \in Index |-> EMPTY]
           entry == for_table(f, KERNEL_RW)
<1>1. Ranges /\ pc = "directory" /\ can_allocate
  BY DEF IInv, NewDirectory
<1>2. /\ f \in free /\ f \in Index /\ f \in DOMAIN memory /\ f \notin taken /\ f # BOOT_DIRECTORY
      /\ behind(f) = f /\ \A next : reaching(f, next) = next
  BY <1>1, Fresh
<1>3. /\ pd_frame' = f /\ pc' = "kernel" /\ next_page' = high_page(image.high)
      /\ image' = image /\ cr3' = cr3 /\ wp' = wp
      /\ free' = free \ {f} /\ taken' = taken \cup {f}
  BY <1>2 DEF NewDirectory, build_directory, alloc_frame
<1>4. memory' = [[memory EXCEPT ![f] = zeroes] EXCEPT ![f][RECURSIVE_INDEX] = entry]
  BY <1>2 DEF NewDirectory, build_directory, write, zero_frame
<1>5. entry \in Nat /\ EMPTY \in Nat /\ f \in Nat
  BY <1>2, Entry DEF Index, EMPTY
<1> HIDE DEF f, entry
<1>6. /\ memory' \in [0 .. 2 * ENTRY_COUNT - 1 -> [Index -> Nat]]
      /\ \A g \in DOMAIN memory \ {f} : memory'[g] = memory[g]
      /\ memory'[f] = [zeroes EXCEPT ![RECURSIVE_INDEX] = entry]
  BY <1>1, <1>2, <1>4, <1>5, Zenon DEF Ranges
<1>7. \A s \in Index : memory'[f][s] = IF s = RECURSIVE_INDEX THEN entry ELSE EMPTY
  BY <1>6
<1>8. Ranges'
  <2>1. memory'[BOOT_DIRECTORY] = bootstrap
    <3>1. BOOT_DIRECTORY \in DOMAIN memory \ {f}
      BY <1>1, <1>2, SlotRange DEF Ranges, Index
    <3> QED
      BY <1>1, <1>6, <3>1 DEF Ranges
  <2>2. next_page' \in Page /\ next_page' <= high_page(image.end)
    <3>1. image \in Images
      BY <1>1 DEF Ranges
    <3>2. image.high \in Nat /\ image.end \in Nat /\ image.high <= image.end
          /\ image.high <= ENTRY_COUNT /\ image.end <= ENTRY_COUNT
      BY <3>1, Layout, SlotRange
    <3> QED
      BY <1>3, <3>2, HighPage DEF Page
  <2> QED
    BY <1>1, <1>2, <1>3, <1>6, <2>1, <2>2 DEF Ranges, Built, Page, high_page
<1>9. Directory'
  BY <1>2, <1>3, <1>7, SlotRange DEF Directory, Slots, entry
<1>10. Filled'
  <2>1. Mapped' = {}
    <3>1. \A page \in KernelPages' : page >= next_page'
      BY <1>1, <1>3, Layout, HighPage DEF KernelPages, Ranges, Page
    <3>2. \A page \in KernelPages' : page \in Nat /\ next_page' \in Nat
      BY <1>1, <1>3, <1>8, PageSets DEF Ranges, Page, KernelPages
    <3> QED
      BY <1>3, <3>1, <3>2 DEF Mapped
  <2>2. \A s \in Slots : memory'[f][s] = EMPTY
    BY <1>7, SlotRange DEF Slots
  <2> QED
    BY <1>3, <2>1, <2>2 DEF Filled
<1> QED
  BY <1>8, <1>9, <1>10 DEF IInv

(* An iteration on a slot that has its table.                              *)
LEMMA MapStep == IInv /\ MapPage => IInv'
<1> SUFFICES ASSUME IInv, MapPage PROVE IInv'
    OBVIOUS
<1> DEFINE s == pd_index(next_page)
           k == pt_index(next_page)
           pde == memory[pd_frame][s]
           t == table_frame(pde)
           pte == Intended(next_page)
<1>1. Ranges /\ mapping /\ pc \in {"kernel", "low"} /\ Directory /\ Filled
  BY DEF IInv, MapPage, mapping, Built
<1>2. /\ next_page \in Page /\ s \in Slots /\ k \in Index /\ next_page = from_indices(s, k)
      /\ new_pte(target, rights) = pte /\ pte \in Nat
  BY <1>1, Iteration
<1>3. behind(pd_frame) = pd_frame /\ pde_of(next_page) = pde
  BY <1>1, Behind DEF Ranges, pde_of
<1>4. pde # EMPTY
  BY <1>3, Absent DEF MapPage, has_table
<1>5. t \in taken \ {pd_frame} /\ t \in Index /\ pde = for_table(t, KERNEL_RW)
  <2>1. PICK u \in taken \ {pd_frame} : pde = for_table(u, KERNEL_RW)
    BY <1>1, <1>2, <1>4 DEF Directory
  <2>2. u \in Index /\ u \in Nat
    BY <1>1, <2>1 DEF Ranges, Index
  <2>3. table_frame(for_table(u, KERNEL_RW)) = u
    BY <2>2, Entry
  <2> QED
    BY <2>1, <2>2, <2>3
<1>6. t # BOOT_DIRECTORY
  BY <1>1, <1>5, Layout DEF Ranges
<1>7. memory' = [memory EXCEPT ![t][k] = pte] /\ pc' = pc
  <2>1. behind(t) = t
    BY <1>1, <1>5, Behind
  <2> QED
    BY <1>2, <1>3, <2>1 DEF MapPage, fill_slot, write
<1>8. /\ next_page' = next_page + 1 /\ UNCHANGED <<image, pd_frame, cr3, wp, free, taken>>
  BY DEF MapPage, next_iteration
<1>9. Mapped' = Mapped \cup {next_page} /\ \A page : Intended(page)' = Intended(page)
  BY <1>1, <1>7, Progress DEF MapPage
<1> HIDE DEF t, k, s, pde, pte
<1>10. /\ memory' \in [0 .. 2 * ENTRY_COUNT - 1 -> [Index -> Nat]]
       /\ \A g \in DOMAIN memory \ {t} : memory'[g] = memory[g]
       /\ \A j \in Index : memory'[t][j] = IF j = k THEN pte ELSE memory[t][j]
  <2>1. memory \in [0 .. 2 * ENTRY_COUNT - 1 -> [Index -> Nat]] /\ t \in 0 .. 2 * ENTRY_COUNT - 1
    <3>1. t \in 0 .. 2 * ENTRY_COUNT - 1
      BY <1>5, SlotRange DEF Index
    <3> QED
      BY <1>1, <3>1 DEF Ranges
  <2>2. memory' = [memory EXCEPT ![t] = [memory[t] EXCEPT ![k] = pte]]
    BY <1>7
  <2>3. [memory[t] EXCEPT ![k] = pte] \in [Index -> Nat]
    BY <1>2, <2>1
  <2> QED
    BY <2>1, <2>2, <2>3
<1>11. pd_frame \in DOMAIN memory \ {t} /\ BOOT_DIRECTORY \in DOMAIN memory \ {t}
  BY <1>1, <1>5, <1>6, SlotRange DEF Ranges, Index
<1>12. Ranges'
  <2>1. memory'[BOOT_DIRECTORY] = bootstrap
    BY <1>1, <1>10, <1>11 DEF Ranges
  <2>2. /\ next_page' \in Page
        /\ pc = "kernel" => high_page(image.high) <= next_page' /\ next_page' <= high_page(image.end)
        /\ pc = "low" => next_page' <= image.phys_start
    BY <1>1, <1>8, NextInRange
  <2> QED
    BY <1>1, <1>7, <1>8, <1>10, <2>1, <2>2 DEF Ranges, high_page
<1>13. memory'[pd_frame] = memory[pd_frame]
  BY <1>10, <1>11
<1>14. Directory'
  BY <1>1, <1>8, <1>13 DEF Directory
<1>15. Filled'
  <2> SUFFICES ASSUME NEW r \in Slots
               PROVE  IF memory[pd_frame][r] = EMPTY THEN \A page \in Mapped' : pd_index(page) # r
                      ELSE \A j \in Index :
                              memory'[table_frame(memory[pd_frame][r])][j] =
                                 IF from_indices(r, j) \in Mapped' THEN Intended(from_indices(r, j))
                                 ELSE EMPTY
    BY <1>8, <1>9, <1>13 DEF Filled
  <2>1. CASE r = s
    <3> SUFFICES ASSUME NEW j \in Index
                 PROVE  memory'[t][j] = IF from_indices(s, j) \in Mapped' THEN Intended(from_indices(s, j))
                                        ELSE EMPTY
      BY <1>4, <2>1 DEF t, pde
    <3>1. memory[t][j] = IF from_indices(s, j) \in Mapped THEN Intended(from_indices(s, j)) ELSE EMPTY
      BY <1>1, <1>2, <1>4 DEF Filled, t, pde
    <3>2. CASE j = k
      BY <1>2, <1>9, <1>10, <3>2 DEF pte
    <3>3. CASE j # k
      <4>1. from_indices(s, j) # next_page
        BY <1>2, <3>3, Indices, SlotRange DEF Index
      <4> QED
        BY <1>9, <1>10, <3>1, <3>3, <4>1
    <3> QED
      BY <3>2, <3>3
  <2>2. CASE r # s
    <3>1. CASE memory[pd_frame][r] = EMPTY
      BY <1>1, <1>9, <2>2, <3>1 DEF Filled, s
    <3>2. CASE memory[pd_frame][r] # EMPTY
      <4> DEFINE u == table_frame(memory[pd_frame][r])
      <4>1. u \in taken /\ u \in DOMAIN memory /\ u # t
        <5>1. PICK v \in taken \ {pd_frame} : memory[pd_frame][r] = for_table(v, KERNEL_RW)
          BY <1>1, <3>2 DEF Directory
        <5>2. v \in Index /\ v \in Nat /\ v \in DOMAIN memory
          BY <1>1, <5>1, SlotRange DEF Ranges, Index
        <5>3. u = v
          BY <5>1, <5>2, Entry
        <5>4. memory[pd_frame][r] # pde
          BY <1>1, <1>2, <1>4, <2>2, <3>2 DEF Directory, Slots, pde
        <5> QED
          BY <1>5, <5>1, <5>2, <5>3, <5>4
      <4>2. memory'[u] = memory[u]
        BY <1>10, <4>1
      <4>3. \A j \in Index : from_indices(r, j) # next_page
        BY <1>2, <2>2, Indices, SlotRange DEF Index
      <4> QED
        BY <1>1, <1>9, <3>2, <4>2, <4>3 DEF Filled
    <3> QED
      BY <3>1, <3>2
  <2> QED
    BY <2>1, <2>2
<1> QED
  BY <1>12, <1>14, <1>15 DEF IInv

(* An iteration that gives its slot a table first.                         *)
LEMMA MapNewStep == IInv /\ MapPageInNewTable => IInv'
<1> SUFFICES ASSUME IInv, MapPageInNewTable PROVE IInv'
    OBVIOUS
<1> DEFINE s == pd_index(next_page)
           k == pt_index(next_page)
           f == allocated
           pde == for_table(f, KERNEL_RW)
           pte == Intended(next_page)
           zeroes == [j \in Index |-> EMPTY]
<1>1. /\ Ranges /\ mapping /\ can_allocate /\ pc \in {"kernel", "low"} /\ Directory /\ Filled
  BY DEF IInv, MapPageInNewTable, mapping, Built
<1>2. /\ next_page \in Page /\ s \in Slots /\ k \in Index /\ next_page = from_indices(s, k)
      /\ new_pte(target, rights) = pte /\ pte \in Nat
  BY <1>1, Iteration
<1>3. behind(pd_frame) = pd_frame
  BY <1>1, Behind DEF Ranges
<1>4. /\ f \in free /\ f \in Index /\ f \in DOMAIN memory /\ f \notin taken /\ f # BOOT_DIRECTORY
      /\ behind(f) = f /\ \A next : reaching(f, next) = next
  BY <1>1, Fresh
<1>5. memory[pd_frame][s] = EMPTY
  <2>1. ~is_present(memory[pd_frame][s])
    BY <1>3 DEF MapPageInNewTable, has_table, pde_of
  <2>2. ASSUME NEW t \in taken \ {pd_frame} PROVE memory[pd_frame][s] # for_table(t, KERNEL_RW)
    <3>1. t \in Nat
      BY <1>1 DEF Ranges, Index
    <3> QED
      BY <2>1, <3>1, Entry
  <2> QED
    BY <1>1, <1>2, <2>2 DEF Directory
<1>6. pd_frame \in taken /\ f # pd_frame /\ pd_frame # BOOT_DIRECTORY /\ pd_frame \in Index
  <2>1. pd_frame \in taken /\ pd_frame \in Index /\ image \in Images
        /\ pd_frame \notin image.phys_start .. image.end - 1
    BY <1>1, Zenon DEF Directory, Ranges
  <2>2. BOOT_DIRECTORY \in image.phys_start .. image.end - 1
    BY <2>1, Layout
  <2> QED
    BY <1>4, <2>1, <2>2, Zenon
<1>7. /\ memory' = [[[memory EXCEPT ![f] = zeroes] EXCEPT ![pd_frame][s] = pde] EXCEPT ![f][k] = pte]
      /\ pc' = pc
  BY <1>2, <1>3, <1>4 DEF MapPageInNewTable, map_in_new_table, open_slot, write, zero_frame
<1>8. /\ next_page' = next_page + 1 /\ UNCHANGED <<image, pd_frame, cr3, wp>>
      /\ free' = free \ {f} /\ taken' = taken \cup {f}
  BY DEF MapPageInNewTable, map_in_new_table, next_iteration, alloc_frame
<1>9. Mapped' = Mapped \cup {next_page} /\ \A page : Intended(page)' = Intended(page)
  BY <1>1, <1>7, Progress DEF MapPageInNewTable, map_in_new_table
<1>10. pde \in Nat /\ EMPTY \in Nat /\ pde # EMPTY /\ table_frame(pde) = f /\ f \in Nat
  <2>1. f \in Nat
    BY <1>4 DEF Index
  <2> QED
    BY <2>1, Entry DEF EMPTY
<1> HIDE DEF f, k, s, pde, pte
<1>11. /\ memory' \in [0 .. 2 * ENTRY_COUNT - 1 -> [Index -> Nat]]
       /\ \A g \in DOMAIN memory \ {f, pd_frame} : memory'[g] = memory[g]
       /\ \A j \in Index : memory'[f][j] = IF j = k THEN pte ELSE EMPTY
       /\ \A j \in Index : memory'[pd_frame][j] = IF j = s THEN pde ELSE memory[pd_frame][j]
  <2> DEFINE dir == [memory[pd_frame] EXCEPT ![s] = pde]
             table == [zeroes EXCEPT ![k] = pte]
  <2>1. pd_frame \in 0 .. 2 * ENTRY_COUNT - 1 /\ f \in 0 .. 2 * ENTRY_COUNT - 1
    BY <1>4, <1>6, SlotRange DEF Index
  <2>2. memory \in [0 .. 2 * ENTRY_COUNT - 1 -> [Index -> Nat]]
    BY <1>1 DEF Ranges
  <2>3. memory' = [memory EXCEPT ![f] = table, ![pd_frame] = dir]
    BY <1>6, <1>7, <2>1, <2>2, Zenon
  <2>4. dir \in [Index -> Nat] /\ \A j \in Index : dir[j] = IF j = s THEN pde ELSE memory[pd_frame][j]
    BY <1>2, <1>10, <2>1, <2>2, SlotRange, Zenon
  <2>5. table \in [Index -> Nat] /\ \A j \in Index : table[j] = IF j = k THEN pte ELSE EMPTY
    BY <1>2, <1>10
  <2> HIDE DEF dir, table
  <2> QED
    BY <1>6, <2>1, <2>2, <2>3, <2>4, <2>5
<1>12. Ranges'
  <2>1. memory'[BOOT_DIRECTORY] = bootstrap
    <3>1. BOOT_DIRECTORY \in 0 .. 2 * ENTRY_COUNT - 1
      BY SlotRange DEF Index
    <3> QED
      BY <1>1, <1>4, <1>6, <1>11, <3>1 DEF Ranges
  <2>2. /\ next_page' \in Page
        /\ pc = "kernel" => high_page(image.high) <= next_page' /\ next_page' <= high_page(image.end)
        /\ pc = "low" => next_page' <= image.phys_start
    BY <1>1, <1>8, NextInRange
  <2>3. memory' \in [0 .. 2 * ENTRY_COUNT - 1 -> [Index -> Nat]]
    BY <1>11
  <2>4. /\ free' \subseteq Page /\ taken' \subseteq Index /\ free' \cap taken' = {}
        /\ \A g \in free' \cup taken' : g # 0 /\ g \notin image.phys_start .. image.end - 1
    BY <1>1, <1>4, <1>8 DEF Ranges
  <2> QED
    BY <1>1, <1>7, <1>8, <2>1, <2>2, <2>3, <2>4, Zenon DEF Ranges, high_page
<1>13. \A r \in Slots \ {s} : memory'[pd_frame][r] = memory[pd_frame][r]
  BY <1>11, SlotRange, Zenon
<1>14. memory'[pd_frame][s] = pde
  BY <1>2, <1>11, SlotRange
<1>15. ASSUME NEW r \in Slots \ {s}, memory[pd_frame][r] # EMPTY
       PROVE  /\ table_frame(memory[pd_frame][r]) \in taken \ {pd_frame}
              /\ memory[pd_frame][r] = for_table(table_frame(memory[pd_frame][r]), KERNEL_RW)
  <2>1. PICK v \in taken \ {pd_frame} : memory[pd_frame][r] = for_table(v, KERNEL_RW)
    BY <1>1, <1>15 DEF Directory
  <2>2. v \in Nat
    BY <1>1, <2>1 DEF Ranges, Index
  <2>3. table_frame(for_table(v, KERNEL_RW)) = v
    BY <2>2, Entry
  <2> QED
    BY <2>1, <2>3
<1>16. Directory'
  <2>1. memory'[pd_frame][RECURSIVE_INDEX] = for_table(pd_frame, KERNEL_RW)
    <3>1. RECURSIVE_INDEX # s /\ RECURSIVE_INDEX \in Index
      BY <1>2, SlotRange DEF Slots
    <3> QED
      BY <1>1, <1>11, <3>1, Zenon DEF Directory
  <2>2. ASSUME NEW r \in Index \ (Slots \cup {RECURSIVE_INDEX}) PROVE memory'[pd_frame][r] = EMPTY
    <3>1. r # s /\ memory[pd_frame][r] = EMPTY
      BY <1>1, <1>2, Zenon DEF Directory
    <3> QED
      BY <1>11, <3>1, Zenon
  <2>3. \A r \in Slots : \/ memory'[pd_frame][r] = EMPTY
                         \/ \E t \in taken' \ {pd_frame} : memory'[pd_frame][r] = for_table(t, KERNEL_RW)
    BY <1>1, <1>6, <1>8, <1>13, <1>14 DEF Directory, pde
  <2>4. \A r \in Slots \ {s} : memory'[pd_frame][r] # pde
    BY <1>4, <1>10, <1>13, <1>15
  <2>5. memory'[pd_frame][0] # memory'[pd_frame][KERNEL_BASE]
    BY <1>2, <1>14, <2>4, SlotRange DEF Slots
  <2> QED
    BY <1>6, <1>8, <2>1, <2>2, <2>3, <2>5 DEF Directory
<1>17. Filled'
  <2> SUFFICES ASSUME NEW r \in Slots
               PROVE  IF memory'[pd_frame][r] = EMPTY THEN \A page \in Mapped' : pd_index(page) # r
                      ELSE \A j \in Index :
                              memory'[table_frame(memory'[pd_frame][r])][j] =
                                 IF from_indices(r, j) \in Mapped' THEN Intended(from_indices(r, j))
                                 ELSE EMPTY
    BY <1>8, <1>9 DEF Filled
  <2>1. CASE r = s
    <3> SUFFICES ASSUME NEW j \in Index
                 PROVE  memory'[f][j] = IF from_indices(s, j) \in Mapped' THEN Intended(from_indices(s, j))
                                        ELSE EMPTY
      BY <1>10, <1>14, <2>1
    <3>1. s \in Nat /\ pd_index(from_indices(s, j)) = s /\ pt_index(from_indices(s, j)) = j
      <4>1. s \in Nat
        BY <1>2, SlotRange DEF Slots
      <4> QED
        BY <4>1, Indices
    <3>2. from_indices(s, j) \notin Mapped
      BY <1>1, <1>2, <1>5, <3>1 DEF Filled
    <3>3. CASE j = k
      BY <1>2, <1>9, <1>11, <3>3 DEF pte
    <3>4. CASE j # k
      <4>1. from_indices(s, j) # next_page
        BY <3>1, <3>4 DEF k
      <4> QED
        BY <1>9, <1>11, <3>2, <3>4, <4>1
    <3> QED
      BY <3>3, <3>4
  <2>2. CASE r # s
    <3>1. CASE memory[pd_frame][r] = EMPTY
      BY <1>1, <1>9, <1>13, <2>2, <3>1, Zenon DEF Filled, s
    <3>2. CASE memory[pd_frame][r] # EMPTY
      <4> DEFINE u == table_frame(memory[pd_frame][r])
      <4>1. u \in taken \ {pd_frame} /\ u \in DOMAIN memory
        <5>1. u \in taken \ {pd_frame} /\ u \in Index
          BY <1>1, <1>15, <2>2, <3>2 DEF Ranges
        <5>2. u \in 0 .. 2 * ENTRY_COUNT - 1
          BY <5>1, SlotRange DEF Index
        <5> QED
          BY <1>1, <5>1, <5>2 DEF Ranges
      <4>2. memory'[u] = memory[u]
        BY <1>4, <1>11, <4>1
      <4>3. \A j \in Index : from_indices(r, j) # next_page
        BY <1>2, <2>2, Indices, SlotRange DEF Index
      <4> QED
        BY <1>1, <1>9, <1>13, <2>2, <3>2, <4>2, <4>3 DEF Filled
    <3> QED
      BY <3>1, <3>2
  <2> QED
    BY <2>1, <2>2
<1> QED
  BY <1>12, <1>16, <1>17 DEF IInv

(* The steps that only move on.                                            *)
LEMMA OtherSteps ==
    IInv /\ (SkipGuard \/ KernelMapped \/ Panic \/ LoadCr3 \/ SetWp \/ UNCHANGED vars) => IInv'
<1> SUFFICES ASSUME IInv, SkipGuard \/ KernelMapped \/ Panic \/ LoadCr3 \/ SetWp \/ UNCHANGED vars
             PROVE  IInv'
    OBVIOUS
<1>1. Ranges /\ UNCHANGED <<image, taken, memory, pd_frame, free>> /\ image \in Images
  BY DEF IInv, Ranges, SkipGuard, next_iteration, KernelMapped, Panic, LoadCr3, SetWp, vars
<1>2. KernelPages' = KernelPages /\ GuardPage' = GuardPage /\ LowPages' = LowPages
  BY <1>1 DEF KernelPages, GuardPage, LowPages
<1>3. CASE SkipGuard
  <2>1. pc = "kernel" /\ pc' = "kernel" /\ next_page = GuardPage /\ next_page' = next_page + 1
        /\ cr3' = cr3 /\ wp' = wp /\ next_page < high_page(image.end)
    BY <1>3 DEF SkipGuard, next_iteration, skips_guard, GuardPage
  <2>2. \A page \in KernelPages \ {GuardPage} : page < next_page + 1 <=> page < next_page
    <3>1. \A page \in KernelPages : page \in Nat
      BY <1>1, PageSets DEF Ranges, Page
    <3>2. next_page \in Nat
      BY <1>1 DEF Ranges, Page
    <3> QED
      BY <2>1, <3>1, <3>2
  <2>3. Mapped' = Mapped
    <3>1. /\ Mapped = {page \in KernelPages \ {GuardPage} : page < next_page}
          /\ Mapped' = {page \in KernelPages \ {GuardPage} : page < next_page + 1}
      BY <1>2, <2>1 DEF Mapped
    <3> QED
      BY <2>2, <3>1, Zenon
  <2>4. Ranges'
    <3>1. /\ next_page' \in Page /\ high_page(image.high) <= next_page'
          /\ next_page' <= high_page(image.end)
      BY <1>1, <2>1, NextInRange
    <3> QED
      BY <1>1, <2>1, <3>1 DEF Ranges, high_page
  <2> QED
    BY <1>1, <2>1, <2>3, <2>4, Unmoved, Zenon DEF IInv, Built
<1>4. CASE KernelMapped
  <2>1. pc = "kernel" /\ pc' = "low" /\ next_page = high_page(image.end) /\ next_page' = 0
        /\ cr3' = cr3 /\ wp' = wp
    BY <1>4 DEF KernelMapped
  <2>2. Mapped' = Mapped
    <3>1. \A page \in KernelPages : page < next_page
      <4>1. high_page(image.end) \in Nat /\ high_page(image.high) \in Nat
        <5>1. image.end \in Nat /\ image.high \in Nat /\ image.end <= ENTRY_COUNT
              /\ image.high <= ENTRY_COUNT
          BY <1>1, Layout, SlotRange
        <5> QED
          BY <5>1, HighPage DEF Page
      <4> QED
        BY <2>1, <4>1 DEF KernelPages
    <3>2. 0 .. next_page' - 1 = {}
      BY <2>1
    <3> QED
      BY <1>2, <2>1, <3>1, <3>2 DEF Mapped
  <2>3. Ranges'
    <3>1. 0 \in Page /\ 0 <= image.phys_start
      BY <1>1, Layout, SlotRange DEF Page
    <3> QED
      BY <1>1, <2>1, <3>1 DEF Ranges, Built
  <2> QED
    BY <1>1, <2>1, <2>2, <2>3, Unmoved DEF IInv, Built
<1>5. CASE Panic
  <2>1. pc \notin {"wp", "done"} /\ pc' = "panicked" /\ UNCHANGED <<next_page, cr3, wp>>
    BY <1>5 DEF Panic, needs_frame, mapping
  <2> QED
    BY <1>1, <2>1 DEF IInv, Ranges, Built
<1>6. CASE LoadCr3
  <2>1. pc = "low" /\ pc' = "wp" /\ next_page = image.phys_start /\ cr3' = pd_frame
        /\ UNCHANGED <<next_page, wp>>
    BY <1>6 DEF LoadCr3, low_limit
  <2>2. Mapped' = Mapped
    BY <1>2, <2>1, Zenon DEF Mapped, LowPages
  <2>3. Ranges'
    BY <1>1, <2>1 DEF Ranges, Built
  <2> QED
    BY <1>1, <2>1, <2>2, <2>3, Unmoved DEF IInv, Built
<1>7. CASE SetWp
  <2>1. pc = "wp" /\ pc' = "done" /\ wp' = TRUE /\ UNCHANGED <<next_page, cr3>>
    BY <1>7 DEF SetWp
  <2>2. Mapped' = Mapped
    BY <1>2, <2>1 DEF Mapped
  <2>3. wp' \in BOOLEAN
    BY <2>1
  <2>4. Ranges'
    BY <1>1, <2>1, <2>3 DEF Ranges, Built
  <2> QED
    BY <1>1, <2>1, <2>2, <2>4, Unmoved DEF IInv, Built
<1>8. CASE UNCHANGED vars
  <2>1. UNCHANGED <<next_page, cr3, wp, pc>>
    BY <1>8 DEF vars
  <2>2. Mapped' = Mapped
    BY <1>2, <2>1 DEF Mapped
  <2>3. Ranges'
    BY <1>1, <2>1 DEF Ranges
  <2> QED
    BY <1>1, <2>1, <2>2, <2>3, Unmoved DEF IInv
<1> QED
  BY <1>3, <1>4, <1>5, <1>6, <1>7, <1>8

(* Every step keeps the invariant.                                         *)
LEMMA StepIInv == IInv /\ [Next]_vars => IInv'
BY DirectoryStep, MapStep, MapNewStep, OtherSteps DEF Next

(* The invariant holds throughout.                                         *)
LEMMA Invariance == Spec => []IInv
BY InitIInv, StepIInv, PTL DEF Spec

-----------------------------------------------------------------------------
(* What the new directory maps.                                            *)

(* A slot's table, as the processor finds it.                              *)
LEMMA SlotTable ==
    ASSUME Ranges, Directory, NEW s \in Slots, memory[pd_frame][s] # EMPTY
    PROVE  LET pde == memory[pd_frame][s] IN
           /\ table_frame(pde) \in taken /\ is_present(pde) /\ ~is_huge(pde) /\ is_writable(pde)
<1>1. PICK t \in taken \ {pd_frame} : memory[pd_frame][s] = for_table(t, KERNEL_RW)
  BY DEF Directory
<1>2. t \in Nat
  BY <1>1 DEF Ranges, Index
<1> QED
  BY <1>1, <1>2, Entry

(* The address space once the new directory is in force.                   *)
LEMMA Exact == IInv => AddressSpaceExact
<1> SUFFICES ASSUME IInv, pc \in {"wp", "done"}, NEW page \in Page, pd_index(page) # RECURSIVE_INDEX
             PROVE  Mapping(page) = Expected(page)
    BY DEF AddressSpaceExact
<1> DEFINE s == pd_index(page)
           j == pt_index(page)
           pde == memory[pd_frame][s]
           pte == memory[table_frame(pde)][j]
<1>1. Ranges /\ Directory /\ Filled /\ cr3 = pd_frame /\ image \in Images
  BY DEF IInv, Built, Ranges
<1>2. s \in Index /\ j \in Index /\ page = from_indices(s, j)
  BY PageSplit
<1>3. Mapped = (KernelPages \ {GuardPage}) \cup LowPages
  BY DEF Mapped
<1>4. page \in KernelPages \cup LowPages => s \in Slots
  BY <1>1, PageSets DEF Slots
<1>5. CASE pde = EMPTY
  <2>1. page \notin Mapped
    BY <1>1, <1>3, <1>4, <1>5 DEF Filled
  <2>2. Expected(page) = FAULT
    BY <1>3, <2>1 DEF Expected
  <2> QED
    BY <1>1, <1>5, <2>2, Absent DEF Mapping, translate
<1>6. CASE pde # EMPTY
  <2>1. s \in Slots
    BY <1>1, <1>2, <1>6 DEF Directory
  <2>2. is_present(pde) /\ ~is_huge(pde) /\ is_writable(pde)
    BY <1>1, <1>6, <2>1, SlotTable
  <2>3. pte = IF page \in Mapped THEN Intended(page) ELSE EMPTY
    BY <1>1, <1>2, <1>6, <2>1, Zenon DEF Filled
  <2>4. Mapping(page) = IF ~is_present(pte) THEN FAULT
                        ELSE [frame |-> table_frame(pte), writable |-> is_writable(pde) /\ is_writable(pte)]
    BY <1>1, <2>2, Zenon DEF Mapping, translate, walk_table
  <2> HIDE DEF pde, pte, s, j
  <2>5. CASE page \notin Mapped
    BY <1>3, <2>3, <2>4, <2>5, Absent, Zenon DEF Expected
  <2>6. CASE page \in KernelPages \ {GuardPage}
    <3>1. /\ page - high_page(0) \in Nat /\ kernel_flags(page) \in {KERNEL_RO, KERNEL_RW}
      BY <1>1, <2>6, PageSets, Layout DEF kernel_flags
    <3>2. pte = for_table(page - high_page(0), kernel_flags(page))
      BY <1>3, <2>3, <2>6, NewPte DEF Intended
    <3>3. /\ is_present(pte) /\ table_frame(pte) = page - high_page(0)
          /\ is_writable(pte) <=> kernel_flags(page) = KERNEL_RW
      BY <3>1, <3>2, Entry
    <3>4. kernel_flags(page) = KERNEL_RW <=> page >= high_page(image.data)
      <4>1. page \in Nat /\ high_page(image.data) \in Nat
        <5>1. image.data \in Nat /\ image.data <= ENTRY_COUNT
          BY <1>1, Layout, SlotRange
        <5> QED
          BY <5>1, HighPage DEF Page
      <4> QED
        BY <4>1, Flags DEF kernel_flags
    <3>5. (is_writable(pde) /\ is_writable(pte)) = (page >= high_page(image.data))
      BY <2>2, <3>3, <3>4
    <3>6. Expected(page) = [frame |-> page - high_page(0), writable |-> page >= high_page(image.data)]
      BY <2>6, Zenon DEF Expected
    <3> QED
      BY <2>4, <3>3, <3>5, <3>6, Zenon
  <2>7. CASE page \in LowPages
    <3>1. page \notin KernelPages /\ page \in Nat
      BY <1>1, <2>7, PageSets DEF LowPages
    <3>2. pte = for_table(page, KERNEL_RW)
      BY <1>3, <2>3, <2>7, <3>1, NewPte DEF Intended
    <3>3. is_present(pte) /\ table_frame(pte) = page /\ is_writable(pte)
      BY <3>1, <3>2, Entry
    <3>4. (is_writable(pde) /\ is_writable(pte)) = TRUE
      BY <2>2, <3>3
    <3> QED
      BY <2>4, <2>7, <3>1, <3>3, <3>4, Zenon DEF Expected
  <2> QED
    BY <1>3, <2>5, <2>6, <2>7, Zenon
<1> QED
  BY <1>5, <1>6

(* After the loops each of the two slots has a page in it, so a table.     *)
LEMMA SlotUsed ==
    ASSUME IInv, pc \in {"wp", "done"}, NEW i \in Slots
    PROVE  /\ \E page \in KernelPages \cup LowPages : pd_index(page) = i
           /\ memory[pd_frame][i] # EMPTY
<1>1. Filled /\ image \in Images
  BY DEF IInv, Built, Ranges
<1>2. CASE i = 0
  <2>1. 0 \in LowPages /\ 0 \in Mapped
    BY <1>1, Layout DEF LowPages, Mapped
  <2>2. pd_index(0) = 0
    BY <1>1, <2>1, PageSets
  <2> QED
    BY <1>1, <1>2, <2>1, <2>2 DEF Filled
<1>3. CASE i = KERNEL_BASE
  <2> DEFINE page == high_page(image.high)
  <2>1. page \in KernelPages \ {GuardPage}
    <3>1. /\ image.high \in Nat /\ image.high <= ENTRY_COUNT /\ image.end \in Nat
          /\ image.end <= ENTRY_COUNT /\ image.guard \in Nat /\ image.guard <= ENTRY_COUNT
          /\ image.high < image.end /\ image.high < image.guard
      BY <1>1, Layout, SlotRange
    <3> QED
      BY <3>1, HighPage DEF KernelPages, GuardPage
  <2>2. page \in Mapped /\ pd_index(page) = KERNEL_BASE
    BY <1>1, <2>1, PageSets DEF Mapped
  <2> QED
    BY <1>1, <1>3, <2>1, <2>2 DEF Filled
<1> QED
  BY <1>2, <1>3 DEF Slots

(* The recursive entry shows the tables.                                   *)
LEMMA Window == IInv => RecursiveWindow
<1> SUFFICES ASSUME IInv, pc \in {"wp", "done"}
             PROVE  /\ Mapping(RecursivePage(RECURSIVE_INDEX)).frame = cr3
                    /\ \A i \in Index :
                          Mapping(RecursivePage(i)) =
                             IF \E page \in KernelPages \cup LowPages : pd_index(page) = i
                             THEN [frame |-> table_frame(memory[cr3][i]), writable |-> TRUE]
                             ELSE IF i = RECURSIVE_INDEX THEN [frame |-> cr3, writable |-> TRUE]
                             ELSE FAULT
    BY DEF RecursiveWindow
<1>1. Ranges /\ Directory /\ Filled /\ cr3 = pd_frame /\ image \in Images /\ pd_frame \in Nat
  BY DEF IInv, Built, Ranges, Index
<1> DEFINE self == memory[pd_frame][RECURSIVE_INDEX]
<1>2. is_present(self) /\ ~is_huge(self) /\ is_writable(self) /\ table_frame(self) = pd_frame
  BY <1>1, Entry, Zenon DEF Directory
<1> HIDE DEF self
<1>3. ASSUME NEW i \in Index
      PROVE  LET pte == memory[pd_frame][i] IN
             Mapping(RecursivePage(i)) = IF ~is_present(pte) THEN FAULT
                                         ELSE [frame |-> table_frame(pte), writable |-> is_writable(pte)]
  <2>1. pd_index(RecursivePage(i)) = RECURSIVE_INDEX /\ pt_index(RecursivePage(i)) = i
    BY Indices, SlotRange DEF RecursivePage, Index
  <2>2. \A e : (is_writable(self) /\ is_writable(e)) = is_writable(e)
    BY <1>2 DEF is_writable, contains
  <2> QED
    BY <1>1, <1>2, <2>1, <2>2, Zenon DEF Mapping, translate, walk_table, self
<1>4. \A i \in Slots : /\ \E page \in KernelPages \cup LowPages : pd_index(page) = i
                        /\ memory[pd_frame][i] # EMPTY
  BY SlotUsed
<1>5. \A page \in KernelPages \cup LowPages : pd_index(page) \in Slots
  BY <1>1, PageSets, Zenon DEF Slots
<1>6. ASSUME NEW i \in Slots
      PROVE  Mapping(RecursivePage(i)) = [frame |-> table_frame(memory[cr3][i]), writable |-> TRUE]
  <2>1. memory[pd_frame][i] # EMPTY /\ i \in Index
    BY <1>4, SlotRange
  <2>2. is_present(memory[pd_frame][i]) /\ is_writable(memory[pd_frame][i])
    BY <1>1, <2>1, SlotTable
  <2>3. is_writable(memory[pd_frame][i]) = TRUE
    BY <2>2, Zenon DEF is_writable, contains
  <2> QED
    BY <1>1, <1>3, <2>1, <2>2, <2>3
<1>7. Mapping(RecursivePage(RECURSIVE_INDEX)) = [frame |-> cr3, writable |-> TRUE]
  <2>1. is_writable(self) = TRUE
    BY <1>2 DEF is_writable, contains
  <2> QED
    BY <1>1, <1>2, <1>3, <2>1, SlotRange, Zenon DEF self
<1>8. ASSUME NEW i \in Index \ (Slots \cup {RECURSIVE_INDEX})
      PROVE  Mapping(RecursivePage(i)) = FAULT
  BY <1>1, <1>3, Absent DEF Directory
<1>9. RECURSIVE_INDEX \notin Slots
  BY SlotRange DEF Slots
<1> QED
  BY <1>4, <1>5, <1>6, <1>7, <1>8, <1>9

(* No page, the window included, maps .text or .rodata writable.           *)
LEMMA NoAlias == IInv => NoWritableAlias
<1> SUFFICES ASSUME IInv, wp, NEW page \in Page, Mapping(page).frame \in image.high .. image.data - 1
             PROVE  ~Mapping(page).writable
    BY DEF NoWritableAlias
<1>1. Ranges /\ Directory /\ pc = "done" /\ cr3 = pd_frame /\ image \in Images
  BY DEF IInv, Built, Ranges
<1>2. AddressSpaceExact /\ RecursiveWindow
  BY Exact, Window, Zenon
<1>3. CASE pd_index(page) # RECURSIVE_INDEX
  <2>1. Mapping(page) = Expected(page)
    BY <1>1, <1>2, <1>3 DEF AddressSpaceExact
  <2>2. CASE page \in KernelPages \ {GuardPage}
    <3>1. page - high_page(0) < image.data /\ page = high_page(page - high_page(0))
          /\ page - high_page(0) \in Nat
      BY <1>1, <2>1, <2>2, PageSets, Layout DEF Expected
    <3>2. ~(page >= high_page(image.data))
      <4> DEFINE f == page - high_page(0)
                 b == KERNEL_BASE * ENTRY_COUNT
      <4>1. image.data \in Nat /\ image.data <= ENTRY_COUNT /\ f \in Nat /\ f <= ENTRY_COUNT
            /\ f < image.data /\ page = high_page(f)
        BY <1>1, <3>1, Layout, SlotRange
      <4> HIDE DEF f
      <4>2. page = b + f /\ high_page(image.data) = b + image.data /\ b \in Nat
        BY <4>1, HighPage
      <4> QED
        BY <4>1, <4>2
    <3>3. Mapping(page).writable = (page >= high_page(image.data))
      BY <2>1, <2>2 DEF Expected
    <3> QED
      BY <3>2, <3>3, Zenon
  <2>3. CASE page \in LowPages /\ page \notin KernelPages
    BY <1>1, <2>1, <2>3, Layout DEF Expected, LowPages
  <2>4. CASE page \notin LowPages /\ page \notin KernelPages \ {GuardPage}
    BY <2>1, <2>4 DEF Expected, FAULT
  <2> QED
    BY <1>1, <2>2, <2>3, <2>4, PageSets
<1>4. CASE pd_index(page) = RECURSIVE_INDEX
  <2> DEFINE i == pt_index(page)
  <2>1. i \in Index /\ page = RecursivePage(i)
    BY <1>4, PageSplit DEF RecursivePage
  <2>2. Mapping(page).frame \in taken \cup {-1}
    <3>1. CASE i \in Slots
      BY <1>1, <1>2, <2>1, <3>1, SlotTable, SlotUsed DEF RecursiveWindow
    <3>2. CASE i \notin Slots
      <4>1. ~ \E q \in KernelPages \cup LowPages : pd_index(q) = i
        BY <1>1, <3>2, PageSets DEF Slots
      <4>2. Mapping(page) = IF i = RECURSIVE_INDEX THEN [frame |-> cr3, writable |-> TRUE] ELSE FAULT
        BY <1>1, <1>2, <2>1, <4>1, Zenon DEF RecursiveWindow
      <4> QED
        BY <1>1, <4>2 DEF FAULT, Directory
    <3> QED
      BY <3>1, <3>2, Zenon
  <2>3. \A f \in taken : f \notin image.high .. image.data - 1
    <3>1. image.high .. image.data - 1 \subseteq image.phys_start .. image.end - 1
      BY <1>1, Layout
    <3>2. \A f \in taken : f \notin image.phys_start .. image.end - 1
      BY <1>1 DEF Ranges
    <3> QED
      BY <3>1, <3>2
  <2> QED
    BY <1>1, <2>2, <2>3, Layout
<1> QED
  BY <1>3, <1>4

-----------------------------------------------------------------------------
(* The frames paging spends.                                               *)

(* Paging gives up for want of a frame, never for a table out of reach.    *)
LEMMA PanicShort ==
    ASSUME IInv, Panic
    PROVE  needs_frame /\ \A f \in free : ~identity_mapped(f)
<1>1. Ranges /\ pc \in {"directory", "kernel", "low"}
  BY DEF IInv, Panic, needs_frame, mapping
<1>2. needs_frame /\ ~can_allocate
  <2> SUFFICES ASSUME mapping, has_table(next_page),
                      ~identity_mapped(table_frame(pde_of(next_page)))
               PROVE  FALSE
    BY DEF Panic
  <2> DEFINE pde == memory[pd_frame][pd_index(next_page)]
  <2>1. Directory /\ pd_index(next_page) \in Slots
    BY <1>1, Iteration DEF IInv, Built
  <2>2. pde_of(next_page) = pde
    BY <1>1, Behind DEF Ranges, pde_of
  <2>3. table_frame(pde) \in taken
    BY <1>1, <2>1, <2>2, SlotTable, Absent DEF has_table
  <2>4. table_frame(pde) \in 0 .. ENTRY_COUNT - 1
    BY <1>1, <2>3, Zenon DEF Ranges, Index
  <2> HIDE DEF pde
  <2> QED
    BY <2>2, <2>4, SlotRange DEF identity_mapped, BOOTSTRAP_IDENTITY_LIMIT
<1>3. ASSUME NEW f \in free, identity_mapped(f) PROVE FALSE
  <2>1. free \subseteq Nat /\ free # {}
    BY <1>1 DEF Ranges, Page
  <2>2. allocated \in Nat /\ allocated <= f /\ f \in Nat
    BY <2>1, AllocatedIsFree, Zenon
  <2> QED
    BY <1>2, <1>3, <2>1, <2>2, SlotRange DEF can_allocate, identity_mapped, BOOTSTRAP_IDENTITY_LIMIT
<1> QED
  BY <1>2, <1>3

(* Nothing is spent at the start.                                          *)
LEMMA InitSpending == Init => Spending
BY DEF Init, Spending, Built

(* No frame is taken but for the directory and its tables.                 *)
LEMMA SpendingStep == IInv /\ Spending /\ [Next]_vars => Spending'
<1> SUFFICES ASSUME IInv, Spending, [Next]_vars PROVE Spending'
    OBVIOUS
<1> USE DEF Built
<1>1. Ranges /\ (pc \in {"kernel", "low"} => Directory)
  BY DEF IInv
<1> DEFINE Used(f) == f = pd_frame \/ \E s \in Slots : memory[pd_frame][s] = for_table(f, KERNEL_RW)
<1>2. CASE NewDirectory
  <2>1. pc = "directory" /\ can_allocate /\ taken = {}
    BY <1>2 DEF NewDirectory, Spending
  <2>2. pc' = "kernel" /\ pd_frame' = allocated /\ taken' = {allocated}
    BY <1>1, <1>2, <2>1, Fresh DEF NewDirectory, build_directory, alloc_frame
  <2> QED
    BY <2>2 DEF Spending
<1>3. CASE MapPage
  <2> DEFINE pde == memory[pd_frame][pd_index(next_page)]
  <2>1. pc \in {"kernel", "low"} /\ Directory /\ mapping /\ pc' = pc /\ taken' = taken
        /\ pd_frame' = pd_frame
    BY <1>1, <1>3 DEF MapPage, mapping, fill_slot, next_iteration
  <2>2. behind(pd_frame) = pd_frame /\ pde_of(next_page) = pde /\ pd_index(next_page) \in Slots
    BY <1>1, <2>1, Behind, Iteration DEF Ranges, pde_of
  <2>3. PICK t \in taken \ {pd_frame} : pde = for_table(t, KERNEL_RW)
    BY <1>3, <2>1, <2>2, Absent, Zenon DEF MapPage, has_table, Directory
  <2>4. table_frame(pde) = t /\ behind(t) = t
    <3>1. t \in Nat /\ t \in Index
      BY <1>1, <2>3 DEF Ranges, Index
    <3> QED
      BY <1>1, <2>1, <2>3, <3>1, Entry, Behind
  <2>5. memory'[pd_frame] = memory[pd_frame]
    <3>1. pd_frame \in DOMAIN memory
      BY <1>1, SlotRange DEF Ranges, Index
    <3>2. memory' = write(memory, t, pt_index(next_page), new_pte(target, rights))
      BY <1>3, <2>2, <2>4, Zenon DEF MapPage, fill_slot
    <3> QED
      BY <2>3, <2>4, <3>1, <3>2 DEF write
  <2> QED
    BY <2>1, <2>5 DEF Spending
<1>4. CASE MapPageInNewTable
  <2> DEFINE s == pd_index(next_page)
             pde == for_table(allocated, KERNEL_RW)
             linked == write(zero_frame(allocated), pd_frame, s, pde)
  <2>1. pc \in {"kernel", "low"} /\ Directory /\ mapping /\ can_allocate
    BY <1>1, <1>4 DEF MapPageInNewTable, mapping
  <2>2. /\ behind(pd_frame) = pd_frame /\ behind(allocated) = allocated /\ allocated # pd_frame
        /\ s \in Slots /\ s \in Index
        /\ allocated \in DOMAIN memory
        /\ \A next : reaching(allocated, next) = next
    BY <1>1, <2>1, Behind, Fresh, Iteration, SlotRange, Zenon DEF Ranges, Directory
  <2>3. pc' = pc /\ taken' = taken \cup {allocated} /\ pd_frame' = pd_frame
    BY <1>4, <2>2 DEF MapPageInNewTable, map_in_new_table, open_slot, next_iteration, alloc_frame
  <2>4. /\ pd_frame \in DOMAIN memory /\ DOMAIN memory[pd_frame] = Index
    <3>1. pd_frame \in 0 .. 2 * ENTRY_COUNT - 1
      BY <1>1, SlotRange DEF Ranges, Index
    <3> QED
      BY <1>1, <3>1 DEF Ranges
  <2>5. memory'[pd_frame] = [memory[pd_frame] EXCEPT ![s] = pde]
    <3>1. memory' = write(linked, allocated, pt_index(next_page), new_pte(target, rights))
      BY <1>4, Zenon DEF MapPageInNewTable, map_in_new_table, open_slot
    <3>2. linked[pd_frame] = [memory[pd_frame] EXCEPT ![s] = pde] /\ DOMAIN linked = DOMAIN memory
      BY <2>2, <2>4, Zenon DEF write, zero_frame
    <3> HIDE DEF linked, pde, s
    <3> QED
      BY <2>2, <2>4, <3>1, <3>2, Zenon DEF write
  <2>6. memory'[pd_frame][s] = pde /\ \A r \in Slots \ {s} : memory'[pd_frame][r] = memory[pd_frame][r]
    BY <2>2, <2>4, <2>5, SlotRange
  <2>7. memory[pd_frame][s] = EMPTY
    <3>1. ~is_present(memory[pd_frame][s])
      BY <1>4, <2>2 DEF MapPageInNewTable, has_table, pde_of
    <3>2. ASSUME NEW t \in taken PROVE memory[pd_frame][s] # for_table(t, KERNEL_RW)
      <4>1. t \in Nat
        BY <1>1 DEF Ranges, Index
      <4> QED
        BY <3>1, <4>1, Entry
    <3> QED
      BY <2>1, <2>2, <3>2 DEF Directory
  <2>8. \A f \in taken : memory[pd_frame][s] # for_table(f, KERNEL_RW)
    BY <1>1, <2>7, Entry, Absent DEF Ranges, Index
  <2> HIDE DEF s, pde
  <2>9. \A f \in taken : f = pd_frame \/ \E r \in Slots : memory'[pd_frame][r] = for_table(f, KERNEL_RW)
    BY <2>1, <2>6, <2>8 DEF Spending
  <2> QED
    BY <2>1, <2>2, <2>3, <2>6, <2>9 DEF Spending, pde
<1>5. CASE Panic
  <2>1. pc' = "panicked" /\ taken' = taken /\ free' = free /\ pc \in {"directory", "kernel", "low"}
    BY <1>5 DEF Panic, needs_frame, mapping
  <2>2. needs_frame /\ \A f \in free : ~identity_mapped(f)
    BY <1>5, PanicShort
  <2>3. \E a, b \in Index : taken \subseteq {a, b}
    <3>1. CASE pc = "directory"
      BY <3>1, SlotRange DEF Spending
    <3>2. CASE pc # "directory"
      <4> DEFINE s == pd_index(next_page)
      <4>1. Directory /\ mapping /\ ~has_table(next_page) /\ s \in Slots
        BY <1>1, <2>1, <2>2, <3>2, Iteration DEF needs_frame
      <4>2. ~is_present(memory[pd_frame][s])
        BY <1>1, <2>1, <4>1, Behind DEF Ranges, has_table, pde_of
      <4>3. ASSUME NEW f \in taken
            PROVE  f \in Nat /\ f \in Index /\ memory[pd_frame][s] # for_table(f, KERNEL_RW)
        <5>1. f \in Nat /\ f \in Index
          BY <1>1 DEF Ranges, Index
        <5> QED
          BY <4>2, <5>1, Entry
      <4>4. PICK r \in Slots : \A q \in Slots : q = s \/ q = r
        BY <4>1 DEF Slots
      <4>5. \A f \in taken : f = pd_frame \/ memory[pd_frame][r] = for_table(f, KERNEL_RW)
        BY <2>1, <3>2, <4>3, <4>4 DEF Spending
      <4>6. \A f \in taken : f = pd_frame \/ f = table_frame(memory[pd_frame][r])
        BY <4>3, <4>5, Entry
      <4>7. CASE \E f \in taken : f # pd_frame
        <5>1. table_frame(memory[pd_frame][r]) \in Index /\ pd_frame \in Index
          BY <1>1, <4>3, <4>6, <4>7 DEF Ranges
        <5> QED
          BY <4>6, <5>1
      <4>8. CASE \A f \in taken : f = pd_frame
        BY <1>1, <4>8 DEF Ranges
      <4> QED
        BY <4>7, <4>8, Zenon
    <3> QED
      BY <3>1, <3>2, Zenon
  <2> QED
    BY <2>1, <2>2, <2>3 DEF Spending, identity_mapped
<1>6. CASE SkipGuard \/ KernelMapped \/ LoadCr3 \/ SetWp \/ UNCHANGED vars
  <2>1. /\ UNCHANGED <<free, taken, memory, pd_frame>>
        /\ pc' = pc \/ (pc \in Built /\ pc' \in Built)
    BY <1>6, Zenon DEF SkipGuard, next_iteration, KernelMapped, LoadCr3, SetWp, vars
  <2> QED
    BY <2>1 DEF Spending, identity_mapped
<1> QED
  BY <1>2, <1>3, <1>4, <1>5, <1>6 DEF Next

-----------------------------------------------------------------------------
(* The theorems.                                                           *)

(* Values stay in their ranges; in particular no write ever goes through a *)
(* page the bootstrap map does not cover (src/memory/paging.rs,            *)
(* bootstrap_frame_ptr).                                                   *)
THEOREM TypeCorrect == Spec => []TypeOK
<1>1. IInv => TypeOK
  <2> SUFFICES ASSUME IInv PROVE TypeOK
      OBVIOUS
  <2>1. taken \subseteq Page
    <3>1. Index \subseteq Page
      <4>1. ENTRY_COUNT <= ENTRY_COUNT * ENTRY_COUNT /\ ENTRY_COUNT * ENTRY_COUNT \in Nat
        BY SlotRange
      <4> QED
        BY <4>1, SlotRange DEF Index, Page
    <3> QED
      BY <3>1 DEF IInv, Ranges
  <2>2. pd_frame \in 0 .. 2 * ENTRY_COUNT - 1
    <3>1. pd_frame \in Index
      BY DEF IInv, Ranges
    <3> QED
      BY <3>1, SlotRange DEF Index
  <2> QED
    BY <2>1, <2>2 DEF IInv, Ranges, Built, TypeOK
<1> QED
  BY Invariance, <1>1, PTL

(* Once CR3 is loaded the address space is the intended one, whatever the  *)
(* frames held before (src/memory/paging.rs, init).                        *)
THEOREM Address_Space == Spec => []AddressSpaceExact
BY Invariance, Exact, PTL

(* The last slot shows the tables and the directory, writable (init).      *)
THEOREM Recursive_Window == Spec => []RecursiveWindow
BY Invariance, Window, PTL

(* With WP set no page gives write access to .text and .rodata (init).     *)
THEOREM No_Writable_Alias == Spec => []NoWritableAlias
BY Invariance, NoAlias, PTL

(* Building the tables writes only to frames taken from the allocator      *)
(* (map_bootstrap, zero_frame).                                            *)
THEOREM Only_Paging_Frames == Spec => OnlyPagingFramesWritten
<1>1. IInv /\ [Next]_vars =>
         [\A f \in DOMAIN memory : memory'[f] # memory[f] => f \in taken']_vars
  <2> SUFFICES ASSUME IInv, Next, NEW g \in DOMAIN memory, g \notin taken'
               PROVE  memory'[g] = memory[g]
      BY DEF vars
  <2>1. Ranges
    BY DEF IInv
  <2>2. CASE NewDirectory
    <3>1. pc = "directory" /\ can_allocate
      BY <2>2 DEF NewDirectory
    <3>2. behind(allocated) = allocated /\ g # allocated
      BY <2>1, <2>2, <3>1, Fresh, Zenon DEF NewDirectory, alloc_frame
    <3> QED
      BY <2>1, <2>2, <3>2 DEF NewDirectory, build_directory, write, zero_frame, Ranges
  <2>3. CASE MapPage
    <3> DEFINE pde == memory[pd_frame][pd_index(next_page)]
    <3>1. pc \in {"kernel", "low"} /\ Directory /\ mapping
      BY <2>3 DEF MapPage, mapping, IInv, Built
    <3>2. behind(pd_frame) = pd_frame /\ pde_of(next_page) = pde
      BY <2>1, <3>1, Behind DEF Ranges, pde_of
    <3>3. pde # EMPTY
      BY <2>3, <3>2, Absent DEF MapPage, has_table
    <3>4. table_frame(pde) \in taken
      BY <2>1, <3>1, <3>3, Iteration, SlotTable, Zenon
    <3>5. behind(table_frame(pde)) = table_frame(pde)
      BY <2>1, <3>1, <3>4, Behind DEF Ranges
    <3>6. taken' = taken
      BY <2>3, Zenon DEF MapPage
    <3> QED
      BY <2>1, <2>3, <3>2, <3>4, <3>5, <3>6 DEF MapPage, fill_slot, write, Ranges
  <2>4. CASE MapPageInNewTable
    <3>1. pc \in {"kernel", "low"} /\ Directory /\ can_allocate
      BY <2>4 DEF MapPageInNewTable, mapping, IInv, Built
    <3>2. behind(allocated) = allocated /\ g # allocated
      BY <2>1, <2>4, <3>1, Fresh, Zenon DEF MapPageInNewTable, alloc_frame
    <3>3. behind(pd_frame) = pd_frame /\ g # pd_frame
      BY <2>1, <2>4, <3>1, Behind DEF Ranges, Directory, MapPageInNewTable, alloc_frame
    <3> QED
      BY <2>1, <2>4, <3>2, <3>3
         DEF MapPageInNewTable, map_in_new_table, open_slot, write, zero_frame, Ranges
  <2>5. CASE SkipGuard \/ KernelMapped \/ Panic \/ LoadCr3 \/ SetWp
    BY <2>5 DEF SkipGuard, KernelMapped, Panic, LoadCr3, SetWp
  <2> QED
    BY <2>2, <2>3, <2>4, <2>5 DEF Next
<1> QED
  BY Invariance, <1>1, PTL DEF Spec, OnlyPagingFramesWritten

(* Loading CR3 moves nothing that is in use: every page that both maps     *)
(* have stays on its frame (init).                                         *)
THEOREM Seamless == Spec => SwitchIsSeamless
<1> DEFINE Kept == \A page \in (KernelPages \ {GuardPage}) \cup LowPages :
                      /\ Mapping(page).frame = Mapping(page)'.frame
                      /\ Mapping(page).frame \in 0 .. image.end - 1
<1>1. IInv /\ IInv' /\ [Next]_vars => [cr3' # cr3 => Kept]_vars
  <2> SUFFICES ASSUME IInv, IInv', Next, cr3' # cr3,
                      NEW page \in (KernelPages \ {GuardPage}) \cup LowPages
               PROVE  /\ Mapping(page).frame = Mapping(page)'.frame
                      /\ Mapping(page).frame \in 0 .. image.end - 1
      BY Zenon DEF vars
  <2>1. LoadCr3
    BY Zenon DEF Next, NewDirectory, build_directory, MapPage, next_iteration, MapPageInNewTable,
           map_in_new_table, SkipGuard, KernelMapped, Panic, SetWp
  <2>2. pc = "low" /\ pc' = "wp" /\ image' = image /\ cr3 = BOOT_DIRECTORY
        /\ memory[BOOT_DIRECTORY] = bootstrap /\ image \in Images
    BY <2>1 DEF LoadCr3, IInv, Ranges
  <2>3. page \in Page /\ pd_index(page) # RECURSIVE_INDEX
    BY <2>2, PageSets, SlotRange
  <2>4. AddressSpaceExact'
    BY Exact, PTL
  <2>5. Mapping(page)' = Expected(page)'
    BY <2>2, <2>3, <2>4, Zenon DEF AddressSpaceExact
  <2>6. Expected(page)' = Expected(page)
    BY <2>2, Zenon DEF Expected, KernelPages, GuardPage, LowPages
  <2>7. CASE page \in KernelPages \ {GuardPage}
    <3>1. /\ page - high_page(0) \in Index /\ page = high_page(page - high_page(0))
          /\ page - high_page(0) \in 0 .. image.end - 1
      <4>1. page - high_page(0) \in image.high .. image.end - 1 /\ page = high_page(page - high_page(0))
        BY <2>2, <2>7, PageSets
      <4>2. image.high .. image.end - 1 \subseteq Index
            /\ image.high .. image.end - 1 \subseteq 0 .. image.end - 1
        BY <2>2, Layout, SlotRange DEF Index
      <4> QED
        BY <4>1, <4>2
    <3>2. Mapping(page).frame = page - high_page(0)
      BY <2>2, <3>1, Bootstrapped, Zenon DEF Mapping
    <3> QED
      BY <2>5, <2>6, <2>7, <3>1, <3>2 DEF Expected
  <2>8. CASE page \in LowPages
    <3>1. page \in Index /\ page \notin KernelPages /\ page \in 0 .. image.end - 1
      BY <2>2, <2>8, PageSets, Layout DEF LowPages
    <3>2. Mapping(page).frame = page
      BY <2>2, <3>1, Bootstrapped DEF Mapping
    <3> QED
      BY <2>5, <2>6, <2>8, <3>1, <3>2 DEF Expected
  <2> QED
    BY <2>7, <2>8
<1> QED
  BY Invariance, <1>1, PTL DEF Spec, SwitchIsSeamless

-----------------------------------------------------------------------------
INSTANCE FiniteSetTheorems

(* The pages to map lie under two slots, so paging needs three frames.     *)
LEMMA NeedsThree == image \in Images => FramesNeeded = 3
<1> SUFFICES ASSUME image \in Images PROVE FramesNeeded = 3
    OBVIOUS
<1> DEFINE pages == (KernelPages \ {GuardPage}) \cup LowPages
<1>1. \A page \in pages : pd_index(page) \in Slots
  BY PageSets, Zenon DEF Slots
<1>2. 0 \in LowPages
  BY Layout DEF LowPages
<1>3. high_page(image.high) \in KernelPages \ {GuardPage}
  <2>1. /\ image.high \in Nat /\ image.high <= ENTRY_COUNT /\ image.end \in Nat
        /\ image.end <= ENTRY_COUNT /\ image.guard \in Nat /\ image.guard <= ENTRY_COUNT
        /\ image.high < image.end /\ image.high < image.guard
    BY Layout, SlotRange
  <2> QED
    BY <2>1, HighPage DEF KernelPages, GuardPage
<1>4. 0 \in pages /\ pd_index(0) = 0
      /\ high_page(image.high) \in pages /\ pd_index(high_page(image.high)) = KERNEL_BASE
  BY <1>2, <1>3, PageSets
<1>5. {pd_index(page) : page \in pages} = {0, KERNEL_BASE}
  BY <1>1, <1>4, Zenon DEF Slots
<1>6. Cardinality({0, KERNEL_BASE}) = 2
  <2>1. KERNEL_BASE \notin {0} /\ {0, KERNEL_BASE} = {0} \cup {KERNEL_BASE}
    BY SlotRange
  <2>2. IsFiniteSet({0}) /\ Cardinality({0}) = 1
    BY FS_Singleton
  <2> QED
    BY <2>1, <2>2, FS_AddElement
<1> QED
  BY <1>5, <1>6 DEF FramesNeeded

(* The frames paging has or could still get.                               *)
LEMMA ReachableFinite == Ranges => IsFiniteSet(Reachable) /\ Cardinality(Reachable) \in Nat
<1> SUFFICES ASSUME Ranges PROVE IsFiniteSet(Reachable)
    BY FS_CardinalityType
<1>1. Reachable \subseteq 0 .. ENTRY_COUNT - 1
  <2>1. \A f \in free \cup taken : f \in Nat
    BY DEF Ranges, Page, Index
  <2> QED
    BY <2>1, SlotRange DEF Reachable, identity_mapped, BOOTSTRAP_IDENTITY_LIMIT
<1>2. IsFiniteSet(0 .. ENTRY_COUNT - 1)
  BY FS_Interval, SlotRange
<1> QED
  BY <1>1, <1>2, FS_Subset, Zenon

(* Paging gives up with fewer than it needs, and ends with at least that.  *)
LEMMA Outcome ==
    ASSUME IInv, Spending
    PROVE  (pc = "panicked" => ~Sufficient) /\ (pc = "done" => Sufficient)
<1>1. Ranges /\ image \in Images /\ FramesNeeded = 3
  BY NeedsThree DEF IInv, Ranges
<1>2. IsFiniteSet(Reachable) /\ Cardinality(Reachable) \in Nat
  BY <1>1, ReachableFinite
<1>3. ASSUME pc = "panicked" PROVE Cardinality(Reachable) < 3
  <2>1. PICK a \in Index, b \in Index : taken \subseteq {a, b}
    BY <1>3 DEF Spending
  <2>2. Reachable \subseteq {a, b}
    BY <1>3, <2>1 DEF Spending, Reachable
  <2>3. IsFiniteSet({a, b}) /\ Cardinality({a, b}) <= 2
    <3>1. IsFiniteSet({a}) /\ Cardinality({a}) = 1
      BY FS_Singleton, Zenon
    <3>2. IsFiniteSet({a} \cup {b}) /\ Cardinality({a} \cup {b}) \in {1, 2}
      BY <3>1, FS_AddElement
    <3>3. {a} \cup {b} = {a, b}
      OBVIOUS
    <3> QED
      BY <3>2, <3>3
  <2>4. Cardinality(Reachable) <= Cardinality({a, b}) /\ Cardinality({a, b}) \in Nat
    BY <2>2, <2>3, FS_Subset, FS_CardinalityType
  <2> QED
    BY <1>2, <2>3, <2>4
<1>4. ASSUME pc = "done" PROVE Cardinality(Reachable) >= 3
  <2>1. Directory
    BY <1>4 DEF IInv, Built
  <2>2. memory[pd_frame][0] # EMPTY /\ memory[pd_frame][KERNEL_BASE] # EMPTY
    BY <1>4, SlotUsed DEF Slots
  <2>3. PICK t \in taken \ {pd_frame} : memory[pd_frame][0] = for_table(t, KERNEL_RW)
    BY <2>1, <2>2 DEF Directory, Slots
  <2>4. PICK u \in taken \ {pd_frame} : memory[pd_frame][KERNEL_BASE] = for_table(u, KERNEL_RW)
    BY <2>1, <2>2 DEF Directory, Slots
  <2>5. t # u
    BY <2>1, <2>2, <2>3, <2>4 DEF Directory
  <2>6. {pd_frame, t, u} \subseteq Reachable
    BY <1>1, <2>1, <2>3, <2>4, SlotRange
    DEF Reachable, Ranges, Directory, Index, identity_mapped, BOOTSTRAP_IDENTITY_LIMIT
  <2>7. Cardinality({pd_frame, t, u}) = 3
    <3>1. IsFiniteSet({pd_frame}) /\ Cardinality({pd_frame}) = 1
      BY FS_Singleton, Zenon
    <3>2. IsFiniteSet({pd_frame} \cup {t}) /\ Cardinality({pd_frame} \cup {t}) = 2
      BY <3>1, FS_AddElement
    <3>3. Cardinality(({pd_frame} \cup {t}) \cup {u}) = 3
      <4>1. u \notin {pd_frame} \cup {t}
        BY <2>4, <2>5
      <4> QED
        BY <3>2, <4>1, FS_AddElement
    <3>4. ({pd_frame} \cup {t}) \cup {u} = {pd_frame, t, u}
      OBVIOUS
    <3> QED
      BY <3>3, <3>4
  <2>8. Cardinality({pd_frame, t, u}) <= Cardinality(Reachable)
    BY <1>2, <2>6, FS_Subset
  <2> QED
    BY <1>2, <2>7, <2>8
<1> QED
  BY <1>1, <1>2, <1>3, <1>4 DEF Sufficient

(* Whether the frames suffice is settled from the start.                   *)
LEMMA SameBudget ==
    ASSUME IInv, [Next]_vars
    PROVE  Sufficient' <=> Sufficient
<1>1. image' = image
  BY Zenon DEF Next, NewDirectory, build_directory, MapPage, next_iteration, MapPageInNewTable,
     map_in_new_table, SkipGuard, KernelMapped, Panic, LoadCr3, SetWp, vars
<1>2. free' \cup taken' = free \cup taken
  <2>1. CASE alloc_frame /\ can_allocate /\ pc \notin {"wp", "done"}
    BY <2>1, Fresh DEF IInv, alloc_frame
  <2>2. CASE UNCHANGED <<free, taken>>
    BY <2>2
  <2> QED
    BY <2>1, <2>2, Zenon DEF Next, NewDirectory, MapPage, MapPageInNewTable, mapping, SkipGuard,
       KernelMapped, Panic, LoadCr3, SetWp, vars
<1> QED
  BY <1>1, <1>2, Zenon DEF Sufficient, Reachable, FramesNeeded, KernelPages, GuardPage, LowPages,
     identity_mapped

(* Paging gives up only if the free frames under the bootstrap map were    *)
(* too few from the start, and reaches the new directory only if they were *)
(* not, whatever else is free (src/memory/paging.rs, init, alloc_frame).   *)
THEOREM Boots_Unless_Short ==
    Spec => (EnoughLowFrames => [](pc # "panicked")) /\ (~EnoughLowFrames => [](pc # "done"))
<1>1. Init => IInv /\ Spending /\ (EnoughLowFrames <=> Sufficient)
  <2>1. Init => taken = {}
    BY DEF Init
  <2> QED
    BY <2>1, InitIInv, InitSpending DEF EnoughLowFrames, Sufficient, Reachable
<1>2. IInv /\ Spending /\ [Next]_vars => IInv' /\ Spending' /\ (Sufficient' <=> Sufficient)
  BY StepIInv, SpendingStep, SameBudget
<1>3. IInv /\ Spending => (Sufficient => pc # "panicked") /\ (~Sufficient => pc # "done")
  BY Outcome
<1> QED
  BY <1>1, <1>2, <1>3, PTL DEF Spec
=============================================================================
