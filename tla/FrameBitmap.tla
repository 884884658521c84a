---------------------------- MODULE FrameBitmap ----------------------------
(***************************************************************************)
(* The bitmap frame allocator of src/memory/frame.rs, down to the          *)
(* iterations of its loops: the region loop of init, the word loops behind *)
(* set_free, set_occupied and any_free_in, and the frame scan of           *)
(* scan_for_run.  The kernel is single-core with interrupts off and every  *)
(* operation takes &mut self, so at most one call is in progress; pc says  *)
(* which loop it is in.                                                    *)
(***************************************************************************)
EXTENDS Address, Bits, MemoryRegion, Sequences

CONSTANTS WORD_COUNT,        \* words in the bitmap
          KERNEL_START,      \* kernel_phys_start, a frame boundary
          KERNEL_END,        \* kernel_phys_end, a frame boundary
          MemoryMaps,        \* memory maps the loader may hand over
          Counts,            \* run lengths callers ask for
          DEV_PROFILE        \* TRUE: overflow and debug_assert! panic; FALSE: release

FRAME_COUNT == WORD_COUNT * WORD_BITS
NONE == -1

ASSUME LayoutAssumption ==
    /\ WORD_COUNT \in Nat \ {0} /\ FRAME_COUNT > 1
    /\ LIMIT = FRAME_COUNT * FRAME_SIZE
    /\ KERNEL_START \in Nat /\ KERNEL_END \in Nat
    /\ KERNEL_START < KERNEL_END /\ KERNEL_END < LIMIT
    /\ DEV_PROFILE \in BOOLEAN

ASSUME InputAssumption == MemoryMaps \subseteq Seq(Region) /\ Counts \subseteq Nat \ {0}

VARIABLES bitmap,            \* FrameBitmap.bitmap: word index -> set of free bits
          search_hint,       \* FrameBitmap.search_hint
          mmap, next_region, \* init: the memory map and the iterator's position
          start, count,      \* arguments of the call in progress
          word_i, bit, remaining,     \* locals of word_masks
          frame, run_start, run_len,  \* locals of scan_for_run
          pc,                \* the loop the code is in
          runs,              \* FrameRuns held by callers
          leaked,            \* frames of FrameRuns dropped by callers (history)
          reply              \* what the last allocate was asked and returned

call == <<start, count>>
walk == <<word_i, bit, remaining>>
scan == <<frame, run_start, run_len>>
world == <<mmap, next_region>>
clients == <<runs, leaked, reply>>
vars == <<bitmap, search_hint, world, call, walk, scan, pc, clients>>

Frame == 0 .. FRAME_COUNT - 1
Extent(first, len) == first .. first + len - 1
FrameRun == [start : Frame, len : 1 .. FRAME_COUNT]
usize(n) == n % LIMIT

is_free(f) == f % WORD_BITS \in bitmap[f \div WORD_BITS]
FreeFrames == {f \in Frame : is_free(f)}

BootPc == {"region", "publish", "reserve_low", "reserve_kernel"}
CallPc == {"scan_hint", "scan_all", "occupy", "check", "release"}

-----------------------------------------------------------------------------
(* Loops.  begin_walk and begin_scan enter one; the locals of a loop that  *)
(* is over are dead and reset.                                             *)

begin_walk(first, len) ==
    /\ word_i' = first \div WORD_BITS
    /\ bit' = first % WORD_BITS
    /\ remaining' = len

(* Faulty: the second word is masked from the first word's bit.            *)
next_mask_keeping_bit ==
    /\ remaining' = remaining - clipped_taken(bit, remaining)
    /\ word_i' = word_i + 1
    /\ bit' = bit

(* Faulty: the counters are set up inside the closure that word_masks      *)
(* hands to from_fn, so that every item is the first one again.            *)
next_mask_first_again == UNCHANGED <<word_i, bit, remaining>>

(* One item of word_masks.                                                 *)
next_mask ==
    /\ remaining' = remaining - clipped_taken(bit, remaining)
    /\ word_i' = word_i + 1
    /\ bit' = 0

end_walk == word_i' = 0 /\ bit' = 0 /\ remaining' = 0

begin_scan(from) == frame' = from /\ run_start' = 0 /\ run_len' = 0
end_scan == frame' = 0 /\ run_start' = 0 /\ run_len' = 0
end_call == start' = 0 /\ count' = 0

in_bounds == word_i < WORD_COUNT
mask == clipped_mask(bit, remaining)

-----------------------------------------------------------------------------
(* FrameBitmap::init.                                                      *)

bytes_of(region) == usize(addressable_bytes(region))
base_of(region) == usize(region.base)
end_byte(region) == base_of(region) + bytes_of(region)
first_frame_rounding_down(region) == frame_floor(base_of(region))
first_frame(region) == frame_ceil(base_of(region))
frames_in(region) == saturating_sub(usize(end_byte(region)) \div FRAME_SIZE, first_frame(region))

skips(region) == ~region.available \/ bytes_of(region) = 0
overflows(region) == DEV_PROFILE /\ end_byte(region) >= LIMIT

Init ==
    /\ bitmap = [w \in 0 .. WORD_COUNT - 1 |-> {}]
    /\ search_hint = 0
    /\ mmap \in MemoryMaps /\ next_region = 1
    /\ start = 0 /\ count = 0
    /\ word_i = 0 /\ bit = 0 /\ remaining = 0
    /\ frame = 0 /\ run_start = 0 /\ run_len = 0
    /\ pc = "region"
    /\ runs = {} /\ leaked = {}
    /\ reply = [count |-> 0, start |-> NONE]

(* The body of the region loop up to mark_free.                            *)
InitRegion ==
    /\ pc = "region" /\ next_region <= Len(mmap)
    /\ LET region == mmap[next_region] IN
       \/ /\ skips(region) \/ (~overflows(region) /\ frames_in(region) = 0)
          /\ next_region' = next_region + 1
          /\ UNCHANGED <<pc, call, walk>>
       \/ /\ ~skips(region) /\ overflows(region)
          /\ pc' = "panicked"
          /\ UNCHANGED <<next_region, call, walk>>
       \/ /\ ~skips(region) /\ ~overflows(region) /\ frames_in(region) > 0
          /\ pc' = "publish"
          /\ start' = first_frame(region) /\ count' = frames_in(region)
          /\ begin_walk(start', count')
          /\ UNCHANGED next_region
    /\ UNCHANGED <<bitmap, search_hint, mmap, scan, clients>>

(* mark_free after set_free: pull the hint back; then the next region.     *)
MarkFreeDone ==
    /\ pc = "publish" /\ remaining = 0
    /\ search_hint' = lesser(search_hint, start \div WORD_BITS)
    /\ pc' = "region" /\ next_region' = next_region + 1
    /\ end_call /\ end_walk
    /\ UNCHANGED <<bitmap, mmap, scan, clients>>

(* Faulty: the first frame past the range is taken for the frame count.    *)
reserve_bytes_to_end(addr, len) ==
    /\ start' = frame_floor(addr)
    /\ count' = frame_ceil(usize(addr + len))
    /\ begin_walk(start', count')

(* reserve_bytes: the frames touched by [addr, addr + len).                *)
reserve_bytes(addr, len) ==
    /\ start' = frame_floor(addr)
    /\ count' = frame_ceil(usize(addr + len)) - start'
    /\ begin_walk(start', count')

ReserveLow ==
    /\ pc = "region" /\ next_region > Len(mmap)
    /\ pc' = "reserve_low"
    /\ reserve_bytes(0, FRAME_SIZE)
    /\ UNCHANGED <<bitmap, search_hint, world, scan, clients>>

(* Faulty: the kernel's length is reserved from address zero.              *)
ReserveKernel_from_zero ==
    /\ pc = "reserve_low" /\ remaining = 0
    /\ pc' = "reserve_kernel"
    /\ reserve_bytes(0, KERNEL_END - KERNEL_START)
    /\ UNCHANGED <<bitmap, search_hint, world, scan, clients>>

ReserveKernel ==
    /\ pc = "reserve_low" /\ remaining = 0
    /\ pc' = "reserve_kernel"
    /\ reserve_bytes(KERNEL_START, KERNEL_END - KERNEL_START)
    /\ UNCHANGED <<bitmap, search_hint, world, scan, clients>>

InitDone ==
    /\ pc = "reserve_kernel" /\ remaining = 0
    /\ pc' = "ready"
    /\ end_call /\ end_walk
    /\ UNCHANGED <<bitmap, search_hint, world, scan, clients>>

-----------------------------------------------------------------------------
(* set_free and set_occupied: one word per step.                           *)

SetFreeWord ==
    /\ pc \in {"publish", "release"} /\ remaining > 0
    /\ IF in_bounds
       THEN bitmap' = [bitmap EXCEPT ![word_i] = @ \cup mask] /\ pc' = pc
       ELSE bitmap' = bitmap /\ pc' = "panicked"
    /\ next_mask
    /\ UNCHANGED <<search_hint, world, call, scan, clients>>

SetOccupiedWord ==
    /\ pc \in {"reserve_low", "reserve_kernel", "occupy"} /\ remaining > 0
    /\ IF in_bounds
       THEN bitmap' = [bitmap EXCEPT ![word_i] = @ \ mask] /\ pc' = pc
       ELSE bitmap' = bitmap /\ pc' = "panicked"
    /\ next_mask
    /\ UNCHANGED <<search_hint, world, call, scan, clients>>

-----------------------------------------------------------------------------
(* FrameBitmap::allocate.                                                  *)

Allocate(n) ==
    /\ pc = "ready"
    /\ IF n > FRAME_COUNT
       THEN /\ reply' = [count |-> n, start |-> NONE]
            /\ UNCHANGED <<pc, count, scan>>
       ELSE /\ pc' = "scan_hint" /\ count' = n
            /\ begin_scan(search_hint * WORD_BITS)
            /\ UNCHANGED reply
    /\ UNCHANGED <<bitmap, search_hint, world, start, walk, runs, leaked>>

(* Faulty: an occupied frame does not end the run being counted.           *)
ScanFrame_keeping_run ==
    /\ pc \in {"scan_hint", "scan_all"} /\ frame < FRAME_COUNT
    /\ LET first == IF run_len = 0 THEN frame ELSE run_start
           full == is_free(frame) /\ run_len + 1 = count IN
       \/ /\ ~full
          /\ run_start' = first /\ frame' = frame + 1
          /\ run_len' = IF is_free(frame) THEN run_len + 1 ELSE run_len
          /\ UNCHANGED <<pc, start, walk>>
       \/ /\ full
          /\ pc' = "occupy" /\ start' = first
          /\ begin_walk(first, count) /\ end_scan
    /\ UNCHANGED <<bitmap, search_hint, world, count, clients>>

(* One frame of scan_for_run.  A full run goes straight to set_occupied.   *)
ScanFrame ==
    /\ pc \in {"scan_hint", "scan_all"} /\ frame < FRAME_COUNT
    /\ LET first == IF run_len = 0 THEN frame ELSE run_start IN
       \/ /\ ~is_free(frame)
          /\ run_len' = 0 /\ frame' = frame + 1
          /\ UNCHANGED <<pc, run_start, start, walk>>
       \/ /\ is_free(frame) /\ run_len + 1 # count
          /\ run_start' = first /\ run_len' = run_len + 1 /\ frame' = frame + 1
          /\ UNCHANGED <<pc, start, walk>>
       \/ /\ is_free(frame) /\ run_len + 1 = count
          /\ pc' = "occupy" /\ start' = first
          /\ begin_walk(first, count) /\ end_scan
    /\ UNCHANGED <<bitmap, search_hint, world, count, clients>>

(* Faulty: a miss from the hint is taken for an exhausted bitmap.          *)
ScanFallback_gives_up ==
    /\ pc = "scan_hint" /\ frame >= FRAME_COUNT
    /\ pc' = "ready"
    /\ reply' = [count |-> count, start |-> NONE]
    /\ end_scan /\ end_call
    /\ UNCHANGED <<bitmap, search_hint, world, walk, runs, leaked>>

(* The scan from the hint found nothing: scan the whole bitmap.            *)
ScanFallback ==
    /\ pc = "scan_hint" /\ frame >= FRAME_COUNT
    /\ pc' = "scan_all"
    /\ begin_scan(0)
    /\ UNCHANGED <<bitmap, search_hint, world, call, walk, clients>>

ScanMiss ==
    /\ pc = "scan_all" /\ frame >= FRAME_COUNT
    /\ pc' = "ready"
    /\ reply' = [count |-> count, start |-> NONE]
    /\ end_scan /\ end_call
    /\ UNCHANGED <<bitmap, search_hint, world, walk, runs, leaked>>

(* Faulty: the hint is left as a frame index.                              *)
AllocateDone_hint_in_frames ==
    /\ pc = "occupy" /\ remaining = 0
    /\ pc' = "ready"
    /\ search_hint' = start + count
    /\ runs' = runs \cup {[start |-> start, len |-> count]}
    /\ reply' = [count |-> count, start |-> start]
    /\ end_call /\ end_walk
    /\ UNCHANGED <<bitmap, world, scan, leaked>>

(* FrameRun::new only checks its arguments in the dev profile.             *)
debug_assert == DEV_PROFILE => start < FRAME_COUNT /\ count <= FRAME_COUNT - start

AllocateDone ==
    /\ pc = "occupy" /\ remaining = 0
    /\ pc' = IF debug_assert THEN "ready" ELSE "panicked"
    /\ search_hint' = (start + count) \div WORD_BITS
    /\ runs' = runs \cup {[start |-> start, len |-> count]}
    /\ reply' = [count |-> count, start |-> start]
    /\ end_call /\ end_walk
    /\ UNCHANGED <<bitmap, world, scan, leaked>>

-----------------------------------------------------------------------------
(* FrameBitmap::free consumes the run; dropping a run leaks its frames.    *)

(* Faulty: the caller keeps a copy of the run it freed.                    *)
Free_keeping_run(run) ==
    /\ pc = "ready"
    /\ pc' = "check"
    /\ start' = run.start /\ count' = run.len
    /\ begin_walk(run.start, run.len)
    /\ UNCHANGED <<bitmap, search_hint, world, scan, clients>>

Free(run) ==
    /\ pc = "ready"
    /\ pc' = "check"
    /\ runs' = runs \ {run}
    /\ start' = run.start /\ count' = run.len
    /\ begin_walk(run.start, run.len)
    /\ UNCHANGED <<bitmap, search_hint, world, scan, leaked, reply>>

(* any_free_in: one word per step; a free bit is a double free.            *)
CheckWord ==
    /\ pc = "check" /\ remaining > 0
    /\ pc' = IF in_bounds /\ bitmap[word_i] \cap mask = {} THEN pc ELSE "panicked"
    /\ next_mask
    /\ UNCHANGED <<bitmap, search_hint, world, call, scan, clients>>

CheckDone ==
    /\ pc = "check" /\ remaining = 0
    /\ pc' = "release"
    /\ begin_walk(start, count)
    /\ UNCHANGED <<bitmap, search_hint, world, call, scan, clients>>

(* Faulty: freeing leaves the hint above the freed frames.                 *)
FreeDone_keeping_hint ==
    /\ pc = "release" /\ remaining = 0
    /\ pc' = "ready"
    /\ end_call /\ end_walk
    /\ UNCHANGED <<bitmap, search_hint, world, scan, clients>>

FreeDone ==
    /\ pc = "release" /\ remaining = 0
    /\ pc' = "ready"
    /\ search_hint' = lesser(search_hint, start \div WORD_BITS)
    /\ end_call /\ end_walk
    /\ UNCHANGED <<bitmap, world, scan, clients>>

Drop(run) ==
    /\ pc = "ready"
    /\ runs' = runs \ {run}
    /\ leaked' = leaked \cup Extent(run.start, run.len)
    /\ UNCHANGED <<bitmap, search_hint, world, call, walk, scan, pc, reply>>

-----------------------------------------------------------------------------
(* The code's own steps; a call, once made, runs to its end.               *)
Step ==
    \/ InitRegion \/ MarkFreeDone \/ ReserveLow \/ ReserveKernel \/ InitDone
    \/ SetFreeWord \/ SetOccupiedWord
    \/ ScanFrame \/ ScanFallback \/ ScanMiss \/ AllocateDone
    \/ CheckWord \/ CheckDone \/ FreeDone

(* What callers may do with the allocator.                                 *)
Client ==
    \/ \E n \in Counts : Allocate(n)
    \/ \E run \in runs : Free(run) \/ Drop(run)

Next == Step \/ Client
Spec == Init /\ [][Next]_vars

(* The processor keeps executing: no interrupts, no other core.            *)
FairSpec == Spec /\ WF_vars(Step)

-----------------------------------------------------------------------------
(* Properties.                                                             *)

FrameBytes(f) == base_addr(f) .. base_addr(f) + FRAME_SIZE - 1

(* Frames lying wholly inside one region reported as available.            *)
FullyAvailable ==
    {f \in Frame : \E i \in 1 .. Len(mmap) :
        mmap[i].available /\ \A byte \in FrameBytes(f) : Holds(mmap[i], byte)}

(* Frames the kernel must keep: the GDT's and those of its own image.      *)
Reserved == {0} \cup {f \in Frame : FrameBytes(f) \cap (KERNEL_START .. KERNEL_END - 1) # {}}

Held == UNION {Extent(run.start, run.len) : run \in runs}

(* The run a call is working on: found but not returned, or being freed.   *)
InTransit == IF pc \in {"occupy", "check", "release"} THEN Extent(start, count) ELSE {}

(* Every value stays in its range; in particular search_hint never passes  *)
(* WORD_COUNT (frame.rs: "INVARIANT: search_hint <= WORD_COUNT").          *)
TypeOK ==
    /\ bitmap \in [0 .. WORD_COUNT - 1 -> Word]
    /\ search_hint \in 0 .. WORD_COUNT
    /\ mmap \in MemoryMaps /\ next_region \in 1 .. Len(mmap) + 1
    /\ start \in 0 .. FRAME_COUNT /\ count \in 0 .. FRAME_COUNT
    /\ word_i \in 0 .. WORD_COUNT /\ bit \in Bit /\ remaining \in 0 .. FRAME_COUNT
    /\ frame \in 0 .. FRAME_COUNT /\ run_start \in 0 .. FRAME_COUNT
    /\ run_len \in 0 .. FRAME_COUNT
    /\ pc \in BootPc \cup CallPc \cup {"ready", "panicked"}
    /\ runs \subseteq FrameRun /\ leaked \subseteq Frame
    /\ reply \in [count : Counts \cup {0}, start : Frame \cup {NONE}]

(* A frame belongs to one owner at a time: no two live FrameRuns overlap,  *)
(* none overlaps the run a call is working on, and no held or leaked frame *)
(* is marked free, not in the middle of an operation either (frame.rs,     *)
(* FrameRun: "Owned, non-empty run"; allocate, free).                      *)
ExclusiveOwnership ==
    /\ \A r, q \in runs : r # q => Extent(r.start, r.len) \cap Extent(q.start, q.len) = {}
    /\ (Held \cup leaked) \cap (InTransit \cup FreeFrames) = {}
    /\ Held \cap leaked = {}

(* Once init is over, the frame of the GDT and the frames of the kernel    *)
(* image are never free and never in a caller's run (frame.rs, init:       *)
(* reserve_bytes comes after the regions are published).                   *)
ReservedNeverIssued ==
    pc \notin BootPc \cup {"panicked"} =>
        Reserved \cap (FreeFrames \cup Held \cup InTransit) = {}

(* Only frames lying wholly in available memory are ever free or held      *)
(* (frame.rs, module comment: "only frames published that way can ever be  *)
(* handed out"), however the regions are aligned and clamped.              *)
OnlyUsableIssued == FreeFrames \cup Held \cup InTransit \subseteq FullyAvailable

(* Frames wholly inside an available region that ends below 4 GiB.         *)
Promised(region) ==
    {f \in Frame : /\ region.available /\ region.base + region.length < LIMIT
                   /\ \A byte \in FrameBytes(f) : Holds(region, byte)}
Deliverable == UNION {Promised(mmap[i]) : i \in 1 .. Len(mmap)}

(* No usable frame is lost: once init is over, every such frame, apart     *)
(* from the reserved ones, is free, held, on its way between the two, or   *)
(* was dropped by its owner (memory/mod.rs, init: "every fully-available   *)
(* frame is freed"; allocate, free).                                       *)
NoFrameLost ==
    pc \notin BootPc \cup {"panicked"} =>
        Deliverable \ Reserved \subseteq FreeFrames \cup InTransit \cup Held \cup leaked

(* After boot nothing panics: neither the double-free check of free, nor   *)
(* the bounds check on a bitmap word, nor the assertions of FrameRun::new  *)
(* can fire.  During boot only the overflow check of init can, in the dev  *)
(* profile, and only on a region that reaches 4 GiB.                       *)
PanicsOnlyOnOverflow ==
    [][pc' = "panicked" =>
          /\ pc = "region" /\ DEV_PROFILE
          /\ mmap[next_region].base + mmap[next_region].length >= LIMIT]_vars

(* init ends, with exactly the fully available frames free, except those   *)
(* the kernel must keep (memory/mod.rs, init: "every fully-available frame *)
(* is freed, then the frames the kernel must keep are reserved").          *)
InitPublishesAvailable == <>(pc = "ready" /\ FreeFrames = FullyAvailable \ Reserved)

(* ... which it does whenever all regions end below 4 GiB.                 *)
ReachesLimit == \E i \in DOMAIN mmap : mmap[i].base + mmap[i].length >= LIMIT
PublishesBelowLimit == ReachesLimit \/ InitPublishesAvailable

(* Every call on the allocator comes back, and so does init on a map below *)
(* 4 GiB: word_masks ends with its range, whatever words it spans, and a   *)
(* scan from the hint that fails is followed by one scan of the bitmap.    *)
CallsReturn == pc \in CallPc \/ (pc \in BootPc /\ ~ReachesLimit) ~> pc = "ready"

(* When callers only take single frames, the hint never hides a free frame *)
(* and each allocation returns the lowest one (frame.rs, free: "never      *)
(* raise it, so allocations stay packed toward low frames").               *)
LowestFrameFirst ==
    [][pc = "scan_hint" /\ pc' = "occupy" => \A f \in FreeFrames : start' <= f]_vars

(* The allocator implements FramePool: an operation takes effect when it   *)
(* returns, an allocation is refused only when no gap is large enough, and *)
(* after boot nothing halts.                                               *)
PoolPhase == IF pc \in BootPc THEN "boot" ELSE IF pc = "panicked" THEN "halted" ELSE "ready"
PoolFree ==
    CASE pc \in BootPc \cup {"panicked"} -> {}
      [] pc = "occupy" -> FreeFrames \cup Extent(start, count)
      [] pc = "release" -> FreeFrames \ Extent(start, count)
      [] OTHER -> FreeFrames
PoolRuns ==
    IF pc \in {"check", "release"} THEN runs \cup {[start |-> start, len |-> count]} ELSE runs

Pool == INSTANCE FramePool WITH phase <- PoolPhase, free <- PoolFree, runs <- PoolRuns

ImplementsPool == Pool!Spec
=============================================================================
