--------------------------- MODULE FrameBitmapInv ---------------------------
(***************************************************************************)
(* The invariants the proofs about FrameBitmap rest on.                    *)
(***************************************************************************)
EXTENDS FrameBitmap

(* The inductive invariant.  Shape says where the loops are, the other     *)
(* parts what they have done.                                              *)

Walking == {"publish", "reserve_low", "reserve_kernel", "occupy", "check", "release"}
Scanning == {"scan_hint", "scan_all"}

(* A walk over words is at the first frame it has not handled.             *)
WalkShape == pc \in Walking =>
    /\ start + count <= FRAME_COUNT
    /\ remaining <= count
    /\ remaining > 0 => word_i * WORD_BITS + bit = start + (count - remaining)
    /\ pc \in {"occupy", "check", "release"} => count > 0
    /\ pc = "occupy" => count \in Counts
    /\ pc = "publish" => next_region <= Len(mmap)

(* A scan has counted the free frames just below the one it looks at.      *)
ScanShape == pc \in Scanning =>
    /\ count \in Counts
    /\ run_len < count
    /\ run_len > 0 => run_start + run_len = frame

RunShape == \A run \in runs : run.start + run.len <= FRAME_COUNT

Shape == TypeOK /\ WalkShape /\ ScanShape /\ RunShape

(* The frames a walk has handled, and those of its next word.              *)
Handled == Extent(start, count - remaining)
NextFrames == Extent(start + (count - remaining), clipped_taken(bit, remaining))

WalkProgress ==
    /\ pc \in {"publish", "release"} => Handled \subseteq FreeFrames
    /\ pc \in {"reserve_low", "reserve_kernel", "occupy"} => Handled \cap FreeFrames = {}

(* The counted frames are free, and in a full scan a large enough gap can  *)
(* only start at or above them.                                            *)
ScanProgress ==
    /\ pc \in Scanning /\ run_len > 0 => Extent(run_start, run_len) \subseteq FreeFrames
    /\ pc = "scan_all" =>
          \A s \in Frame : Extent(s, count) \subseteq FreeFrames => s >= frame - run_len

Ownership ==
    /\ ExclusiveOwnership
    /\ pc = "check" => InTransit \cap FreeFrames = {}
    /\ pc \in BootPc \cup {"panicked"} => runs = {} /\ leaked = {}

Reservation ==
    /\ ReservedNeverIssued
    /\ pc = "reserve_low" => start = 0 /\ count = 1
    /\ pc = "reserve_kernel" => /\ 0 \notin FreeFrames
                                /\ start = frame_floor(KERNEL_START)
                                /\ start + count = frame_ceil(KERNEL_END)

Usability ==
    /\ FreeFrames \cup Held \cup InTransit \subseteq Deliverable
    /\ pc = "publish" => Extent(start, count) \subseteq Deliverable

(* During boot the frames of the regions already handled are free, and the *)
(* region being published is published whole.                              *)
Delivery ==
    /\ NoFrameLost
    /\ pc \in BootPc => \A i \in 1 .. next_region - 1 :
                            Promised(mmap[i]) \ Reserved \subseteq FreeFrames
    /\ pc = "publish" => Promised(mmap[next_region]) \subseteq Extent(start, count)
    /\ pc \in {"reserve_low", "reserve_kernel"} => next_region = Len(mmap) + 1

(* init panics at a region that overflows, and gets past no such region.   *)
Overflowing(region) == ~skips(region) /\ overflows(region)
Checking ==
    /\ pc \in BootPc => \A i \in 1 .. next_region - 1 : ~Overflowing(mmap[i])
    /\ pc = "publish" => ~Overflowing(mmap[next_region])
    /\ pc = "panicked" => \E i \in 1 .. Len(mmap) : Overflowing(mmap[i])
    /\ pc \notin BootPc \cup {"panicked"} => \A i \in 1 .. Len(mmap) : ~Overflowing(mmap[i])

IInv ==
    /\ Shape /\ WalkProgress /\ ScanProgress /\ Ownership /\ Reservation
    /\ Usability /\ Delivery /\ Checking

-----------------------------------------------------------------------------
(* The search hint when callers only ask for single frames.                *)

(* No free frame lies below the hint, nor below the frame a scan looks at; *)
(* the frame an allocation found is below every free frame.                *)
HintInv ==
    /\ pc \in {"region", "reserve_low", "reserve_kernel", "ready", "check"} =>
          \A f \in FreeFrames : f >= search_hint * WORD_BITS
    /\ pc \in {"publish", "release"} =>
          \A f \in FreeFrames \ Extent(start, count) : f >= search_hint * WORD_BITS
    /\ pc = "scan_hint" => \A f \in FreeFrames : f >= frame
    /\ pc = "scan_all" => FreeFrames = {}
    /\ pc = "occupy" => \A f \in FreeFrames : f >= start
=============================================================================
