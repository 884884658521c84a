------------------------- MODULE FrameBitmapProofs -------------------------
(***************************************************************************)
(* Proofs about FrameBitmap for every word size, bitmap size, kernel       *)
(* placement, memory map and set of requests.                              *)
(***************************************************************************)
EXTENDS FrameBitmapInv, TLAPS

-----------------------------------------------------------------------------
(* Arithmetic of words and frames.                                         *)

(* A frame index is its word index and its bit (is_free's / and %).        *)
LEMMA DivMod ==
    \A f \in Nat : /\ f \div WORD_BITS \in Nat
                   /\ f % WORD_BITS \in Bit
                   /\ f = (f \div WORD_BITS) * WORD_BITS + (f % WORD_BITS)
BY WordBitsAssumption DEF Bit

(* Words do not overlap.                                                   *)
LEMMA WordOrder == \A a, b \in Nat : a < b => (a + 1) * WORD_BITS <= b * WORD_BITS
BY WordBitsAssumption

(* Word index and bit determine the frame, and the frame determines them.  *)
LEMMA Split ==
    \A w \in Nat, b \in Bit : /\ w * WORD_BITS + b \in Nat
                              /\ (w * WORD_BITS + b) \div WORD_BITS = w
                              /\ (w * WORD_BITS + b) % WORD_BITS = b
<1>1. \A w, v \in Nat, b, c \in Bit :
        w * WORD_BITS + b = v * WORD_BITS + c => w = v /\ b = c
  BY WordBitsAssumption, WordOrder DEF Bit
<1>2. \A w \in Nat, b \in Bit : w * WORD_BITS + b \in Nat
  BY WordBitsAssumption DEF Bit
<1> SUFFICES ASSUME NEW w \in Nat, NEW b \in Bit
             PROVE  LET f == w * WORD_BITS + b
                    IN  f \in Nat /\ f \div WORD_BITS = w /\ f % WORD_BITS = b
  OBVIOUS
<1> DEFINE f == w * WORD_BITS + b
<1>3. f \in Nat
  BY <1>2
<1>4. f \div WORD_BITS \in Nat /\ f % WORD_BITS \in Bit
      /\ f = (f \div WORD_BITS) * WORD_BITS + (f % WORD_BITS)
  BY <1>3, DivMod
<1> QED
  BY <1>1, <1>3, <1>4

(* The bitmap covers the frames exactly, with no partial word.             *)
LEMMA Cover ==
    /\ FRAME_COUNT \in Nat /\ FRAME_COUNT > 1
    /\ \A f \in 0 .. FRAME_COUNT : f \div WORD_BITS \in 0 .. WORD_COUNT
    /\ \A f \in Frame : f \div WORD_BITS \in 0 .. WORD_COUNT - 1
    /\ \A w \in 0 .. WORD_COUNT : w * WORD_BITS \in 0 .. FRAME_COUNT
    /\ \A w \in Nat, b \in Bit : w * WORD_BITS + b < FRAME_COUNT => w \in 0 .. WORD_COUNT - 1
<1>1. FRAME_COUNT \in Nat /\ FRAME_COUNT > 1
  BY WordBitsAssumption, LayoutAssumption DEF FRAME_COUNT
<1>2. \A w \in Nat : w > WORD_COUNT => (WORD_COUNT + 1) * WORD_BITS <= w * WORD_BITS
  BY WordBitsAssumption, LayoutAssumption, WordOrder
<1>3. \A w \in Nat, b \in Bit : w * WORD_BITS + b < FRAME_COUNT => w \in 0 .. WORD_COUNT - 1
  BY <1>2, WordBitsAssumption, LayoutAssumption, WordOrder DEF Bit, FRAME_COUNT
<1>4. \A f \in Frame : f \div WORD_BITS \in 0 .. WORD_COUNT - 1
  BY <1>1, <1>3, DivMod DEF Frame
<1>5. FRAME_COUNT \div WORD_BITS = WORD_COUNT
  BY Split, WordBitsAssumption, LayoutAssumption DEF Bit, FRAME_COUNT
<1>6. \A w \in 0 .. WORD_COUNT : w * WORD_BITS \in 0 .. FRAME_COUNT
  BY WordBitsAssumption, LayoutAssumption, WordOrder DEF FRAME_COUNT
<1> QED
  BY <1>1, <1>3, <1>4, <1>5, <1>6, LayoutAssumption DEF Frame

(* The mask of a word holds the bits of the range and no others.           *)
LEMMA MaskBits ==
    ASSUME NEW b \in Bit, NEW len \in Nat \ {0}
    PROVE  /\ clipped_taken(b, len) \in 1 .. len
           /\ b + clipped_taken(b, len) <= WORD_BITS
           /\ clipped_taken(b, len) < len => b + clipped_taken(b, len) = WORD_BITS
           /\ clipped_mask(b, len) = {c \in Bit : b <= c /\ c < b + clipped_taken(b, len)}
BY WordBitsAssumption DEF Bit, clipped_taken, clipped_mask, lesser, ones_shl, ones_shr

(* Rounding an address down or up to a frame (address.rs).                 *)
LEMMA Rounding ==
    ASSUME NEW a \in Nat
    PROVE  /\ frame_floor(a) \in Nat /\ frame_ceil(a) \in Nat
           /\ frame_floor(a) <= frame_ceil(a)
           /\ frame_floor(a) * FRAME_SIZE <= a /\ a < (frame_floor(a) + 1) * FRAME_SIZE
           /\ a <= frame_ceil(a) * FRAME_SIZE
           /\ a > 0 => (frame_ceil(a) - 1) * FRAME_SIZE < a
<1> DEFINE q == a \div FRAME_SIZE
           r == a % FRAME_SIZE
<1>1. q \in Nat /\ r \in 0 .. FRAME_SIZE - 1 /\ a = q * FRAME_SIZE + r
  BY FrameSizeAssumption
<1>2. frame_floor(a) = q /\ frame_ceil(a) = IF r = 0 THEN q ELSE q + 1
  BY <1>1 DEF frame_floor, frame_ceil, div_ceil
<1>3. (q + 1) * FRAME_SIZE = q * FRAME_SIZE + FRAME_SIZE
      /\ (q - 1) * FRAME_SIZE = q * FRAME_SIZE - FRAME_SIZE
  BY <1>1, FrameSizeAssumption
<1> HIDE DEF q, r
<1>4. q * FRAME_SIZE \in Nat
  BY <1>1, FrameSizeAssumption
<1>5. CASE r = 0
  BY <1>1, <1>2, <1>3, <1>4, <1>5, FrameSizeAssumption
<1>6. CASE r # 0
  BY <1>1, <1>2, <1>3, <1>4, <1>6, FrameSizeAssumption
<1> QED
  BY <1>5, <1>6

(* Frames are ordered as their bytes are.                                  *)
LEMMA FrameOrder ==
    \A f, g \in Nat : /\ f * FRAME_SIZE < g * FRAME_SIZE <=> f < g
                      /\ f < g <=> (f + 1) * FRAME_SIZE <= g * FRAME_SIZE
BY FrameSizeAssumption

(* Every byte of the address space is in one of the frames.                *)
LEMMA LimitFrames ==
    /\ FRAME_SIZE < LIMIT
    /\ \A a \in 0 .. LIMIT - 1 : /\ frame_floor(a) \in Frame
                                 /\ frame_ceil(a) \in 0 .. FRAME_COUNT
                                 /\ usize(a) = a
    /\ \A a \in Nat : usize(a) \in 0 .. LIMIT - 1
<1>1. LIMIT \in Nat \ {0} /\ LIMIT = FRAME_COUNT * FRAME_SIZE
  BY LimitAssumption, LayoutAssumption
<1>2. FRAME_SIZE < LIMIT
  BY <1>1, Cover, FrameSizeAssumption
<1>3. \A a \in 0 .. LIMIT - 1 : frame_floor(a) \in Frame
  <2> TAKE a \in 0 .. LIMIT - 1
  <2>1. a \in Nat /\ a < FRAME_COUNT * FRAME_SIZE
    BY <1>1
  <2>2. frame_floor(a) \in Nat /\ frame_floor(a) * FRAME_SIZE <= a
    BY <2>1, Rounding
  <2>3. frame_floor(a) < FRAME_COUNT
    BY <2>1, <2>2, Cover, FrameSizeAssumption, FrameOrder
  <2> QED
    BY <2>2, <2>3, Cover DEF Frame
<1>4. \A a \in 0 .. LIMIT - 1 : frame_ceil(a) \in 0 .. FRAME_COUNT
  <2> TAKE a \in 0 .. LIMIT - 1
  <2>1. a \in Nat /\ a < FRAME_COUNT * FRAME_SIZE
    BY <1>1
  <2>2. frame_ceil(a) \in Nat /\ (a > 0 => (frame_ceil(a) - 1) * FRAME_SIZE < a)
    BY <2>1, Rounding
  <2>3. CASE a = 0
    BY <2>3, Cover, FrameSizeAssumption DEF frame_ceil, div_ceil
  <2>4. CASE a > 0
    <3>1. CASE frame_ceil(a) = 0
      BY <3>1, Cover
    <3>2. CASE frame_ceil(a) # 0
      <4>1. frame_ceil(a) - 1 \in Nat /\ (frame_ceil(a) - 1) * FRAME_SIZE < FRAME_COUNT * FRAME_SIZE
        BY <2>1, <2>2, <2>4, <3>2, Cover, FrameSizeAssumption
      <4> QED
        BY <2>2, <4>1, Cover, FrameOrder
    <3> QED
      BY <3>1, <3>2
  <2> QED
    BY <2>1, <2>3, <2>4
<1>5. \A a \in 0 .. LIMIT - 1 : usize(a) = a
  BY <1>1 DEF usize
<1>6. \A a \in Nat : usize(a) \in 0 .. LIMIT - 1
  BY <1>1 DEF usize
<1> QED
  BY <1>2, <1>3, <1>4, <1>5, <1>6

-----------------------------------------------------------------------------
(* What one word of a walk covers.                                         *)

(* The walk stays inside the bitmap, its next mask stands for NextFrames,  *)
(* and after it the walk is again at the first frame not handled.          *)
LEMMA WalkWord ==
    ASSUME Shape, pc \in Walking, remaining > 0
    PROVE  /\ word_i \in 0 .. WORD_COUNT - 1
           /\ clipped_taken(bit, remaining) \in 1 .. remaining
           /\ clipped_taken(bit, remaining) < remaining =>
                 (word_i + 1) * WORD_BITS + 0 = start + (count - (remaining - clipped_taken(bit, remaining)))
           /\ mask \subseteq Bit
           /\ NextFrames \subseteq Frame
           /\ \A f \in Frame : (f \div WORD_BITS = word_i /\ f % WORD_BITS \in mask) <=> f \in NextFrames
<1> DEFINE t == clipped_taken(bit, remaining)
           p == start + (count - remaining)
<1>1. /\ word_i \in Nat /\ bit \in Bit /\ remaining \in Nat \ {0}
      /\ start \in Nat /\ count \in Nat /\ start + count <= FRAME_COUNT /\ remaining <= count
      /\ word_i * WORD_BITS + bit = p
  BY Cover, LayoutAssumption DEF Shape, TypeOK, WalkShape
<1>2. /\ t \in 1 .. remaining
      /\ bit + t <= WORD_BITS
      /\ t < remaining => bit + t = WORD_BITS
      /\ mask = {c \in Bit : bit <= c /\ c < bit + t}
  BY <1>1, MaskBits DEF mask
<1> HIDE DEF t
<1>3. word_i \in 0 .. WORD_COUNT - 1
  BY <1>1, Cover
<1>4. (word_i + 1) * WORD_BITS = word_i * WORD_BITS + WORD_BITS /\ word_i * WORD_BITS \in Nat
  BY <1>1, WordBitsAssumption
<1>5. t < remaining => (word_i + 1) * WORD_BITS + 0 = start + (count - (remaining - t))
  BY <1>1, <1>2, <1>4, WordBitsAssumption DEF Bit
<1>6. NextFrames = p .. p + t - 1
  BY DEF NextFrames, Extent, t
<1>7. NextFrames \subseteq Frame
  BY <1>1, <1>2, <1>6, Cover DEF Frame
<1>8. ASSUME NEW f \in Frame
      PROVE  (f \div WORD_BITS = word_i /\ f % WORD_BITS \in mask) <=> f \in NextFrames
  <2>1. /\ f \in Nat /\ f \div WORD_BITS \in Nat /\ f % WORD_BITS \in Bit
        /\ f = (f \div WORD_BITS) * WORD_BITS + (f % WORD_BITS)
    BY DivMod, Cover DEF Frame
  <2>2. CASE f \div WORD_BITS = word_i
    BY <1>1, <1>2, <1>4, <1>6, <2>1, <2>2, WordBitsAssumption DEF Bit
  <2>3. CASE f \div WORD_BITS < word_i
    <3>1. (f \div WORD_BITS + 1) * WORD_BITS <= word_i * WORD_BITS
      BY <1>1, <2>1, <2>3, WordOrder
    <3>2. (f \div WORD_BITS + 1) * WORD_BITS = (f \div WORD_BITS) * WORD_BITS + WORD_BITS
          /\ (f \div WORD_BITS) * WORD_BITS \in Nat
      BY <2>1, WordBitsAssumption
    <3> QED
      BY <1>1, <1>2, <1>4, <1>6, <2>1, <2>3, <3>1, <3>2, WordBitsAssumption DEF Bit
  <2>4. CASE f \div WORD_BITS > word_i
    <3>1. (word_i + 1) * WORD_BITS <= (f \div WORD_BITS) * WORD_BITS
      BY <1>1, <2>1, <2>4, WordOrder
    <3>2. (f \div WORD_BITS) * WORD_BITS \in Nat
      BY <2>1, WordBitsAssumption
    <3> QED
      BY <1>1, <1>2, <1>4, <1>6, <2>1, <2>4, <3>1, <3>2, WordBitsAssumption DEF Bit
  <2> QED
    BY <1>1, <2>1, <2>2, <2>3, <2>4
<1> QED
  BY <1>2, <1>3, <1>5, <1>7, <1>8 DEF t

(* begin_walk puts the walk at the first frame of its range.               *)
LEMMA BeginWalk ==
    ASSUME NEW first \in Nat, NEW len \in Nat, first + len <= FRAME_COUNT,
           begin_walk(first, len)
    PROVE  /\ word_i' \in 0 .. WORD_COUNT /\ bit' \in Bit /\ remaining' = len
           /\ word_i' * WORD_BITS + bit' = first
<1>1. first \in 0 .. FRAME_COUNT
  BY Cover
<1> QED
  BY <1>1, Cover, DivMod DEF begin_walk

-----------------------------------------------------------------------------
(* Shape is inductive on its own.                                          *)

(* What init computes for a region it publishes.                           *)
LEMMA RegionFrames ==
    ASSUME NEW region \in Region, frames_in(region) > 0
    PROVE  /\ first_frame(region) \in Nat /\ frames_in(region) \in Nat
           /\ first_frame(region) + frames_in(region) <= FRAME_COUNT
           /\ first_frame(region) + frames_in(region) = frame_floor(usize(end_byte(region)))
<1>1. base_of(region) \in 0 .. LIMIT - 1 /\ bytes_of(region) \in 0 .. LIMIT - 1
  <2>1. region.base \in Nat /\ region.length \in Nat
    BY LimitAssumption DEF Region, U64
  <2>2. addressable_bytes(region) \in Nat
    BY <2>1, LimitAssumption DEF addressable_bytes, clamped_end, saturating_add
  <2> QED
    BY <2>1, <2>2, LimitFrames DEF base_of, bytes_of
<1>2. usize(end_byte(region)) \in 0 .. LIMIT - 1
  BY <1>1, LimitFrames, LimitAssumption DEF end_byte
<1>3. first_frame(region) \in Nat
  BY <1>1, Rounding DEF first_frame
<1>4. frame_floor(usize(end_byte(region))) \in Frame
  BY <1>2, LimitFrames
<1>5. frames_in(region) = saturating_sub(frame_floor(usize(end_byte(region))), first_frame(region))
  BY DEF frames_in, frame_floor
<1> QED
  BY <1>3, <1>4, <1>5, Cover DEF Frame, saturating_sub

(* What the two reservations of init cover.                                *)
LEMMA ReservedFrames ==
    /\ frame_floor(0) = 0 /\ frame_ceil(usize(0 + FRAME_SIZE)) = 1
    /\ usize(KERNEL_START + (KERNEL_END - KERNEL_START)) = KERNEL_END
    /\ frame_floor(KERNEL_START) \in Nat
    /\ frame_ceil(KERNEL_END) \in 0 .. FRAME_COUNT
    /\ frame_floor(KERNEL_START) <= frame_ceil(KERNEL_END)
<1>1. KERNEL_START \in 0 .. LIMIT - 1 /\ KERNEL_END \in 0 .. LIMIT - 1
  BY LayoutAssumption, LimitAssumption
<1>2. usize(0 + FRAME_SIZE) = FRAME_SIZE
  BY LimitFrames, FrameSizeAssumption, LimitAssumption
<1>3. frame_floor(0) = 0 /\ frame_ceil(FRAME_SIZE) = 1
  BY FrameSizeAssumption DEF frame_floor, frame_ceil, div_ceil
<1>4. usize(KERNEL_START + (KERNEL_END - KERNEL_START)) = KERNEL_END
  BY <1>1, LimitFrames, LayoutAssumption
<1>5. frame_floor(KERNEL_START) <= frame_ceil(KERNEL_END)
  <2>1. /\ frame_floor(KERNEL_START) \in Nat /\ frame_ceil(KERNEL_END) \in Nat
        /\ frame_floor(KERNEL_START) * FRAME_SIZE <= KERNEL_START
        /\ KERNEL_END <= frame_ceil(KERNEL_END) * FRAME_SIZE
    BY Rounding, LayoutAssumption
  <2>2. ~(frame_ceil(KERNEL_END) * FRAME_SIZE < frame_floor(KERNEL_START) * FRAME_SIZE)
    BY <2>1, LayoutAssumption, FrameSizeAssumption
  <2> QED
    BY <2>1, <2>2, FrameOrder
<1> QED
  BY <1>1, <1>2, <1>3, <1>4, <1>5, LimitFrames, Rounding

(* A fresh allocator (FrameBitmap::new) has the shape.                     *)
LEMMA ShapeInit == Init => Shape
<1>1. 0 \in Bit /\ FRAME_COUNT \in Nat /\ WORD_COUNT \in Nat
  BY WordBitsAssumption, Cover, LayoutAssumption DEF Bit
<1>2. ASSUME NEW m \in MemoryMaps PROVE Len(m) \in Nat
  <2>1. m \in Seq(Region)
    BY InputAssumption, Zenon
  <2> QED
    BY <2>1
<1> QED
  BY <1>1, <1>2 DEF Init, Shape, TypeOK, WalkShape, ScanShape, RunShape, Walking, Scanning,
                    BootPc, Word, NONE

(* Each step of the allocator keeps Shape.                                 *)
LEMMA ShapeStep == Shape /\ [Next]_vars => Shape'
<1> SUFFICES ASSUME Shape, [Next]_vars PROVE Shape'
  OBVIOUS
<1> USE DEF Shape, TypeOK, WalkShape, ScanShape, RunShape, Walking, Scanning,
            BootPc, CallPc, call, walk, scan, world, clients
<1>0. /\ FRAME_COUNT \in Nat /\ FRAME_COUNT > 1 /\ WORD_COUNT \in Nat
      /\ 0 \in Bit /\ mmap \in Seq(Region) /\ Len(mmap) \in Nat
      /\ Counts \subseteq Nat \ {0}
  <2>1. mmap \in Seq(Region) /\ Counts \subseteq Nat \ {0}
    BY InputAssumption
  <2>2. Len(mmap) \in Nat
    BY <2>1
  <2> QED
    BY <2>1, <2>2, WordBitsAssumption, Cover, LayoutAssumption DEF Bit
<1>1. CASE InitRegion
  <2>1. mmap[next_region] \in Region
    BY <1>0, <1>1 DEF InitRegion
  <2>2. CASE pc' = "publish" /\ pc = "region"
    <3> DEFINE first == first_frame(mmap[next_region])
               len == frames_in(mmap[next_region])
    <3>1. /\ start' = first /\ count' = len /\ len > 0 /\ begin_walk(first, len)
          /\ next_region <= Len(mmap)
          /\ UNCHANGED <<bitmap, search_hint, mmap, next_region, scan, clients>>
      BY <1>1, <2>2 DEF InitRegion
    <3>2. first \in Nat /\ len \in Nat /\ first + len <= FRAME_COUNT
      BY <2>1, <3>1, RegionFrames
    <3> HIDE DEF first, len
    <3>3. /\ word_i' \in 0 .. WORD_COUNT /\ bit' \in Bit /\ remaining' = len
          /\ word_i' * WORD_BITS + bit' = first
      BY <3>1, <3>2, BeginWalk, Zenon
    <3> QED
      BY <1>0, <2>2, <3>1, <3>2, <3>3
  <2>3. CASE ~(pc' = "publish" /\ pc = "region")
    <3>1. /\ pc = "region" /\ next_region <= Len(mmap)
          /\ \/ pc' = pc /\ next_region' = next_region + 1
             \/ pc' = "panicked" /\ next_region' = next_region
          /\ UNCHANGED <<bitmap, search_hint, mmap, call, walk, scan, clients>>
      BY <1>1, <2>3 DEF InitRegion
    <3> QED
      BY <1>0, <3>1
  <2> QED
    BY <2>2, <2>3, Zenon
<1>2. CASE MarkFreeDone
  <2>1. start \div WORD_BITS \in 0 .. WORD_COUNT
    BY Cover, Zenon
  <2> QED
    BY <1>0, <1>2, <2>1 DEF MarkFreeDone, end_call, end_walk, lesser
<1>3. CASE ReserveLow
  <2>1. start' = 0 /\ count' = 1 /\ begin_walk(0, 1)
    BY <1>3, ReservedFrames DEF ReserveLow, reserve_bytes
  <2>2. word_i' \in 0 .. WORD_COUNT /\ bit' \in Bit /\ remaining' = 1
        /\ word_i' * WORD_BITS + bit' = 0
    BY <1>0, <2>1, BeginWalk
  <2> QED
    BY <1>0, <1>3, <2>1, <2>2 DEF ReserveLow
<1>4. CASE ReserveKernel
  <2> DEFINE first == frame_floor(KERNEL_START)
             len == frame_ceil(KERNEL_END) - first
  <2>1. start' = first /\ count' = len /\ begin_walk(first, len)
    BY <1>4, ReservedFrames DEF ReserveKernel, reserve_bytes
  <2>2. first \in Nat /\ len \in Nat /\ first + len <= FRAME_COUNT
    BY <1>0, ReservedFrames
  <2> HIDE DEF first, len
  <2>3. word_i' \in 0 .. WORD_COUNT /\ bit' \in Bit /\ remaining' = len
        /\ word_i' * WORD_BITS + bit' = first
    BY <2>1, <2>2, BeginWalk, Zenon
  <2> QED
    BY <1>0, <1>4, <2>1, <2>2, <2>3 DEF ReserveKernel
<1>5. CASE InitDone
  BY <1>0, <1>5 DEF InitDone, end_call, end_walk
<1>6. CASE SetFreeWord \/ SetOccupiedWord \/ CheckWord
  <2> DEFINE t == clipped_taken(bit, remaining)
  <2>1. pc \in Walking /\ remaining > 0
    BY <1>6 DEF SetFreeWord, SetOccupiedWord, CheckWord
  <2>2. /\ word_i \in 0 .. WORD_COUNT - 1
        /\ t \in 1 .. remaining
        /\ t < remaining => (word_i + 1) * WORD_BITS + 0 = start + (count - (remaining - t))
        /\ mask \subseteq Bit
    BY <2>1, WalkWord
  <2>3. remaining' = remaining - t /\ word_i' = word_i + 1 /\ bit' = 0
    BY <1>6 DEF SetFreeWord, SetOccupiedWord, CheckWord, next_mask
  <2> HIDE DEF t
  <2>4. bitmap' \in [0 .. WORD_COUNT - 1 -> Word]
    BY <1>6, <2>2, Zenon DEF SetFreeWord, SetOccupiedWord, CheckWord, Word
  <2>5. pc' \in {pc, "panicked"}
        /\ UNCHANGED <<search_hint, world, call, scan, clients>>
    BY <1>6 DEF SetFreeWord, SetOccupiedWord, CheckWord
  <2> QED
    BY <1>0, <2>1, <2>2, <2>3, <2>4, <2>5
<1>7. CASE \E n \in Counts : Allocate(n)
  <2>1. search_hint * WORD_BITS \in 0 .. FRAME_COUNT
    BY Cover
  <2> PICK n \in Counts : Allocate(n)
    BY <1>7
  <2>2. CASE n > FRAME_COUNT
    BY <1>0, <2>2 DEF Allocate, NONE
  <2>3. CASE ~(n > FRAME_COUNT)
    BY <1>0, <2>1, <2>3 DEF Allocate, begin_scan
  <2> QED
    BY <2>2, <2>3, Zenon
<1>8. CASE ScanFrame
  <2>1. CASE pc' = "occupy"
    <3> DEFINE first == IF run_len = 0 THEN frame ELSE run_start
    <3>1. /\ start' = first /\ begin_walk(first, count) /\ end_scan /\ run_len + 1 = count
          /\ pc \in Scanning /\ frame < FRAME_COUNT
          /\ UNCHANGED <<bitmap, search_hint, world, count, clients>>
      BY <1>8, <2>1 DEF ScanFrame
    <3>2. first \in Nat /\ first + count <= FRAME_COUNT
      BY <1>0, <3>1
    <3> HIDE DEF first
    <3>3. word_i' \in 0 .. WORD_COUNT /\ bit' \in Bit /\ remaining' = count
          /\ word_i' * WORD_BITS + bit' = first
      BY <1>0, <3>1, <3>2, BeginWalk, Zenon
    <3> QED
      BY <1>0, <2>1, <3>1, <3>2, <3>3 DEF end_scan
  <2>2. CASE pc' # "occupy"
    <3>1. /\ pc \in Scanning /\ frame < FRAME_COUNT /\ frame' = frame + 1
          /\ \/ run_len' = 0 /\ run_start' = run_start
             \/ /\ run_len + 1 # count /\ run_len' = run_len + 1
                /\ run_start' = IF run_len = 0 THEN frame ELSE run_start
          /\ UNCHANGED <<bitmap, search_hint, world, call, walk, pc, clients>>
      BY <1>8, <2>2 DEF ScanFrame
    <3>2. CASE run_len' = 0 /\ run_start' = run_start
      BY <1>0, <3>1, <3>2
    <3>3. CASE /\ run_len + 1 # count /\ run_len' = run_len + 1
               /\ run_start' = IF run_len = 0 THEN frame ELSE run_start
      BY <1>0, <3>1, <3>3
    <3> QED
      BY <3>1, <3>2, <3>3, Zenon
  <2> QED
    BY <2>1, <2>2, Zenon
<1>9. CASE ScanFallback
  BY <1>0, <1>9 DEF ScanFallback, begin_scan
<1>10. CASE ScanMiss
  BY <1>0, <1>10 DEF ScanMiss, end_scan, end_call, NONE
<1>11. CASE AllocateDone
  <2>1. (start + count) \div WORD_BITS \in 0 .. WORD_COUNT
    BY <1>0, <1>11, Cover DEF AllocateDone
  <2> QED
    BY <1>0, <1>11, <2>1 DEF AllocateDone, end_call, end_walk, FrameRun, Frame
<1>12. CASE \E run \in runs : Free(run)
  <2> PICK run \in runs : Free(run)
    BY <1>12
  <2>1. run.start \in Nat /\ run.len \in Nat \ {0} /\ run.start + run.len <= FRAME_COUNT
    BY <1>0 DEF FrameRun, Frame
  <2>2. word_i' \in 0 .. WORD_COUNT /\ bit' \in Bit /\ remaining' = run.len
        /\ word_i' * WORD_BITS + bit' = run.start
    BY <2>1, BeginWalk, Zenon DEF Free
  <2> QED
    BY <1>0, <2>1, <2>2 DEF Free
<1>13. CASE CheckDone
  <2>1. word_i' \in 0 .. WORD_COUNT /\ bit' \in Bit /\ remaining' = count
        /\ word_i' * WORD_BITS + bit' = start
    BY <1>0, <1>13, BeginWalk DEF CheckDone
  <2> QED
    BY <1>0, <1>13, <2>1 DEF CheckDone
<1>14. CASE FreeDone
  <2>1. start \div WORD_BITS \in 0 .. WORD_COUNT
    BY Cover, Zenon
  <2> QED
    BY <1>0, <1>14, <2>1 DEF FreeDone, end_call, end_walk, lesser
<1>15. CASE \E run \in runs : Drop(run)
  <2> PICK run \in runs : Drop(run)
    BY <1>15
  <2>1. Extent(run.start, run.len) \subseteq Frame
    BY <1>0 DEF FrameRun, Frame, Extent
  <2> QED
    BY <1>0, <2>1 DEF Drop
<1>16. CASE UNCHANGED vars
  BY <1>16 DEF vars
<1> QED
  BY <1>1, <1>2, <1>3, <1>4, <1>5, <1>6, <1>7, <1>8, <1>9, <1>10, <1>11, <1>12, <1>13,
     <1>14, <1>15, <1>16, Zenon DEF Next, Step, Client

(* Every state the allocator can reach is well-typed; in particular the    *)
(* search hint keeps the INVARIANT of frame.rs, search_hint <= WORD_COUNT. *)
THEOREM TypeCorrect == Spec => []TypeOK
<1>1. Shape => TypeOK
  BY DEF Shape
<1> QED
  BY <1>1, ShapeInit, ShapeStep, PTL DEF Spec

-----------------------------------------------------------------------------
(* The effect of one word on the set of free frames.                       *)

(* The free frames are a function of the bitmap alone (is_free).           *)
LEMMA FreeUnchanged == bitmap' = bitmap => FreeFrames' = FreeFrames
BY DEF FreeFrames, is_free

(* A walk that is over has handled its whole range.                        *)
LEMMA HandledAll ==
    ASSUME Shape, pc \in Walking
    PROVE  /\ remaining = 0 => Handled = Extent(start, count)
           /\ remaining > 0 => NextFrames \subseteq Extent(start, count)
<1>1. /\ start \in Nat /\ count \in Nat /\ remaining \in Nat /\ remaining <= count
  BY Cover DEF Shape, TypeOK, WalkShape
<1>2. remaining > 0 => clipped_taken(bit, remaining) \in 1 .. remaining
  BY WalkWord
<1> QED
  BY <1>1, <1>2 DEF Handled, NextFrames, Extent

(* One item of word_masks extends the handled frames by its mask.          *)
LEMMA HandledNext ==
    ASSUME Shape, pc \in Walking, remaining > 0, next_mask, UNCHANGED call
    PROVE  Handled' = Handled \cup NextFrames
<1> DEFINE t == clipped_taken(bit, remaining)
           a == start + (count - remaining)
<1>1. start \in Nat /\ count \in Nat /\ remaining \in Nat /\ remaining <= count
  BY Cover DEF Shape, TypeOK, WalkShape
<1>2. t \in 1 .. remaining
  BY WalkWord
<1>3. start' = start /\ count' = count /\ remaining' = remaining - t
  BY DEF next_mask, call
<1> HIDE DEF t
<1>4. a \in Nat /\ start <= a /\ start + (count - (remaining - t)) = a + t
  BY <1>1, <1>2
<1>5. Handled' = start .. start + (count - (remaining - t)) - 1
  BY <1>3 DEF Handled, Extent
<1>6. Handled = start .. a - 1 /\ NextFrames = a .. a + t - 1
  BY <1>1, <1>2 DEF Handled, NextFrames, Extent, t
<1>7. \A i, j, k \in Int : i <= j /\ j <= k => i .. k - 1 = (i .. j - 1) \cup (j .. k - 1)
  OBVIOUS
<1> HIDE DEF a
<1> QED
  BY <1>1, <1>2, <1>4, <1>5, <1>6, <1>7

(* set_free frees the frames of the word's mask and no others.             *)
LEMMA FreedWord ==
    ASSUME Shape, SetFreeWord
    PROVE  pc' = pc /\ FreeFrames' = FreeFrames \cup NextFrames /\ Handled' = Handled \cup NextFrames
<1>1. pc \in Walking /\ remaining > 0
  BY DEF SetFreeWord, Walking
<1>2. /\ word_i \in 0 .. WORD_COUNT - 1
      /\ NextFrames \subseteq Frame
      /\ \A f \in Frame : (f \div WORD_BITS = word_i /\ f % WORD_BITS \in mask) <=> f \in NextFrames
  BY <1>1, WalkWord
<1>3. pc' = pc /\ bitmap' = [bitmap EXCEPT ![word_i] = bitmap[word_i] \cup mask]
  BY <1>2, LayoutAssumption DEF SetFreeWord, in_bounds
<1>4. \A f \in Frame : is_free(f)' <=> is_free(f) \/ f \in NextFrames
  <2> TAKE f \in Frame
  <2>1. f \div WORD_BITS \in 0 .. WORD_COUNT - 1 /\ bitmap \in [0 .. WORD_COUNT - 1 -> Word]
    BY Cover DEF Shape, TypeOK
  <2> QED
    BY <1>2, <1>3, <2>1 DEF is_free
<1>5. FreeFrames' = FreeFrames \cup NextFrames
  BY <1>2, <1>4 DEF FreeFrames
<1> QED
  BY <1>1, <1>3, <1>5, HandledNext DEF SetFreeWord

(* set_occupied occupies the frames of the word's mask and no others.      *)
LEMMA OccupiedWord ==
    ASSUME Shape, SetOccupiedWord
    PROVE  pc' = pc /\ FreeFrames' = FreeFrames \ NextFrames /\ Handled' = Handled \cup NextFrames
<1>1. pc \in Walking /\ remaining > 0
  BY DEF SetOccupiedWord, Walking
<1>2. /\ word_i \in 0 .. WORD_COUNT - 1
      /\ NextFrames \subseteq Frame
      /\ \A f \in Frame : (f \div WORD_BITS = word_i /\ f % WORD_BITS \in mask) <=> f \in NextFrames
  BY <1>1, WalkWord
<1>3. pc' = pc /\ bitmap' = [bitmap EXCEPT ![word_i] = bitmap[word_i] \ mask]
  BY <1>2, LayoutAssumption DEF SetOccupiedWord, in_bounds
<1>4. \A f \in Frame : is_free(f)' <=> is_free(f) /\ f \notin NextFrames
  <2> TAKE f \in Frame
  <2>1. f \div WORD_BITS \in 0 .. WORD_COUNT - 1 /\ bitmap \in [0 .. WORD_COUNT - 1 -> Word]
    BY Cover DEF Shape, TypeOK
  <2> QED
    BY <1>2, <1>3, <2>1 DEF is_free
<1>5. FreeFrames' = FreeFrames \ NextFrames
  BY <1>4 DEF FreeFrames
<1> QED
  BY <1>1, <1>3, <1>5, HandledNext DEF SetOccupiedWord

(* any_free_in passes a word of a run none of whose frames is free.        *)
LEMMA CheckedWord ==
    ASSUME Shape, CheckWord, InTransit \cap FreeFrames = {}
    PROVE  pc' = pc
<1>1. pc \in Walking /\ remaining > 0 /\ pc = "check"
  BY DEF CheckWord, Walking
<1>2. /\ word_i \in 0 .. WORD_COUNT - 1 /\ mask \subseteq Bit
      /\ \A f \in Frame : (f \div WORD_BITS = word_i /\ f % WORD_BITS \in mask) <=> f \in NextFrames
  BY <1>1, WalkWord
<1>3. NextFrames \subseteq InTransit
  BY <1>1, HandledAll DEF InTransit
<1>4. ASSUME NEW b \in bitmap[word_i] \cap mask PROVE FALSE
  <2> DEFINE f == word_i * WORD_BITS + b
  <2>1. f \in Nat /\ f \div WORD_BITS = word_i /\ f % WORD_BITS = b
    BY <1>2, <1>4, Split, LayoutAssumption
  <2>2. f < FRAME_COUNT
    <3>1. (word_i + 1) * WORD_BITS \in 0 .. FRAME_COUNT
      BY <1>2, Cover, LayoutAssumption
    <3>2. (word_i + 1) * WORD_BITS = word_i * WORD_BITS + WORD_BITS /\ word_i * WORD_BITS \in Nat
      BY <1>2, WordBitsAssumption, LayoutAssumption
    <3>3. b \in 0 .. WORD_BITS - 1
      BY <1>2, <1>4, Zenon DEF Bit
    <3> QED
      BY <3>1, <3>2, <3>3, WordBitsAssumption, Cover
  <2> HIDE DEF f
  <2>3. f \in Frame /\ f \in FreeFrames /\ f \in NextFrames
    BY <1>2, <1>4, <2>1, <2>2, Cover DEF Frame, FreeFrames, is_free
  <2> QED
    BY <1>3, <2>3
<1> QED
  BY <1>2, <1>4, LayoutAssumption DEF CheckWord, in_bounds

-----------------------------------------------------------------------------
(* The progress of walks and scans.                                        *)

(* A walk that has just begun has handled nothing.                         *)
LEMMA HandledNone ==
    ASSUME Shape', remaining' = count'
    PROVE  Handled' = {}
<1>1. start' \in Nat /\ count' \in Nat
  BY Cover DEF Shape, TypeOK
<1>2. \A first, len \in Nat : Extent(first, len - len) = {}
  BY DEF Extent
<1> QED
  BY <1>1, <1>2 DEF Handled

(* The word loops of set_free, set_occupied and any_free_in keep their     *)
(* progress invariant.                                                     *)
LEMMA WalkProgressStep ==
    ASSUME Shape, Shape', WalkProgress, [Next]_vars
    PROVE  WalkProgress'
<1>1. CASE SetFreeWord
  BY <1>1, FreedWord DEF SetFreeWord, WalkProgress
<1>2. CASE SetOccupiedWord
  BY <1>2, OccupiedWord DEF SetOccupiedWord, WalkProgress
<1>3. CASE InitRegion
  <2>1. (pc' = "publish" /\ remaining' = count') \/ pc' \in {"region", "panicked"}
    BY <1>3 DEF InitRegion, begin_walk
  <2> QED
    BY <2>1, HandledNone DEF WalkProgress
<1>4. CASE ReserveLow \/ ReserveKernel \/ CheckDone
  <2>1. remaining' = count'
    BY <1>4 DEF ReserveLow, ReserveKernel, CheckDone, reserve_bytes, begin_walk, call
  <2> QED
    BY <2>1, HandledNone DEF WalkProgress
<1>5. CASE ScanFrame
  <2>1. (pc' = "occupy" /\ remaining' = count') \/ pc' \in Scanning
    BY <1>5 DEF ScanFrame, begin_walk, Scanning
  <2> QED
    BY <2>1, HandledNone DEF WalkProgress, Scanning
<1>6. CASE MarkFreeDone \/ InitDone \/ ScanFallback \/ ScanMiss \/ AllocateDone \/ CheckWord
           \/ FreeDone \/ Client
  <2>1. pc' \in {"region", "ready", "scan_all", "scan_hint", "check", "panicked"}
    BY <1>6 DEF MarkFreeDone, InitDone, ScanFallback, ScanMiss, AllocateDone, CheckWord,
                FreeDone, Client, Allocate, Free, Drop
  <2> QED
    BY <2>1, Zenon DEF WalkProgress
<1>7. CASE UNCHANGED vars
  <2>1. FreeFrames' = FreeFrames /\ Handled' = Handled /\ pc' = pc
    BY <1>7, FreeUnchanged DEF vars, walk, call, Handled
  <2> QED
    BY <2>1 DEF WalkProgress
<1> QED
  BY <1>1, <1>2, <1>3, <1>4, <1>5, <1>6, <1>7 DEF Next, Step

(* One frame of a scan: the counted frames stay free and no gap is passed  *)
(* over.                                                                   *)
LEMMA ScanFrameProgress ==
    ASSUME Shape, ScanProgress, ScanFrame
    PROVE  /\ ScanProgress'
           /\ pc' = "occupy" => Extent(start', count') \subseteq FreeFrames
<1>1. /\ pc \in Scanning /\ frame \in Nat /\ frame < FRAME_COUNT /\ frame \in Frame
      /\ run_len \in Nat /\ run_start \in Nat /\ count \in Nat /\ run_len < count
      /\ run_len > 0 => run_start + run_len = frame
  BY Cover DEF Shape, TypeOK, ScanShape, ScanFrame, Scanning, Frame
<1>2. run_len > 0 => Extent(run_start, run_len) \subseteq FreeFrames
  BY <1>1 DEF ScanProgress
<1>3. pc = "scan_all" =>
        \A s \in Frame : Extent(s, count) \subseteq FreeFrames => s >= frame - run_len
  BY DEF ScanProgress
<1>4. FreeFrames' = FreeFrames /\ count' = count
  BY FreeUnchanged DEF ScanFrame
<1>5. is_free(frame) <=> frame \in FreeFrames
  BY <1>1 DEF FreeFrames
<1> DEFINE first == IF run_len = 0 THEN frame ELSE run_start
<1>6. first \in Nat /\ first + run_len = frame
  BY <1>1
<1>7. frame \in FreeFrames => Extent(first, run_len + 1) \subseteq FreeFrames
  BY <1>1, <1>2 DEF Extent
<1>8. CASE /\ frame \notin FreeFrames
           /\ run_len' = 0 /\ frame' = frame + 1 /\ pc' = pc
  <2>1. ASSUME pc = "scan_all", NEW s \in Frame, Extent(s, count) \subseteq FreeFrames
        PROVE  s >= frame + 1
    <3>1. s \in Nat /\ s >= frame - run_len
      BY <1>3, <2>1, Cover DEF Frame
    <3>2. s <= frame => frame \in Extent(s, count)
      BY <1>1, <3>1 DEF Extent
    <3> QED
      BY <1>1, <1>8, <2>1, <3>1, <3>2
  <2> QED
    BY <1>1, <1>4, <1>8, <2>1 DEF ScanProgress, Scanning
<1>9. CASE /\ frame \in FreeFrames
           /\ run_start' = first /\ run_len' = run_len + 1 /\ frame' = frame + 1 /\ pc' = pc
  <2>1. Extent(run_start', run_len') \subseteq FreeFrames
    BY <1>7, <1>9
  <2>2. frame' - run_len' = frame - run_len
    BY <1>1, <1>9
  <2> QED
    BY <1>1, <1>3, <1>4, <1>9, <2>1, <2>2 DEF ScanProgress, Scanning
<1>10. CASE frame \in FreeFrames /\ run_len + 1 = count /\ pc' = "occupy" /\ start' = first
  BY <1>4, <1>7, <1>10 DEF ScanProgress, Scanning
<1> QED
  BY <1>5, <1>8, <1>9, <1>10 DEF ScanFrame

(* scan_for_run keeps its progress invariant.                              *)
LEMMA ScanProgressStep ==
    ASSUME Shape, ScanProgress, [Next]_vars
    PROVE  ScanProgress'
<1>1. CASE ScanFrame
  BY <1>1, ScanFrameProgress
<1>2. CASE ScanFallback
  <2>1. pc' = "scan_all" /\ frame' = 0 /\ run_len' = 0
    BY <1>2 DEF ScanFallback, begin_scan
  <2> QED
    BY <2>1, Cover DEF ScanProgress, Frame
<1>3. CASE \E n \in Counts : Allocate(n)
  <2>1. (pc' = "scan_hint" /\ run_len' = 0) \/ pc' = "ready"
    BY <1>3 DEF Allocate, begin_scan
  <2> QED
    BY <2>1 DEF ScanProgress, Scanning
<1>4. CASE InitRegion \/ MarkFreeDone \/ ReserveLow \/ ReserveKernel \/ InitDone \/ SetFreeWord
           \/ SetOccupiedWord \/ ScanMiss \/ AllocateDone \/ CheckWord \/ CheckDone \/ FreeDone
           \/ \E run \in runs : Free(run) \/ Drop(run)
  <2>1. pc' \notin Scanning
    BY <1>4, Zenon DEF InitRegion, MarkFreeDone, ReserveLow, ReserveKernel, InitDone, SetFreeWord,
                SetOccupiedWord, ScanMiss, AllocateDone, CheckWord, CheckDone, FreeDone,
                Free, Drop, Scanning
  <2> QED
    BY <2>1, Zenon DEF ScanProgress, Scanning
<1>5. CASE UNCHANGED vars
  <2>1. FreeFrames' = FreeFrames
    BY <1>5, FreeUnchanged, Zenon DEF vars
  <2> QED
    BY <1>5, <2>1 DEF vars, scan, call, ScanProgress
<1> QED
  BY <1>1, <1>2, <1>3, <1>4, <1>5 DEF Next, Step, Client

-----------------------------------------------------------------------------
(* Who owns a frame.                                                       *)

(* allocate, free and dropping a run keep every frame with one owner.      *)
LEMMA OwnershipStep ==
    ASSUME Shape, WalkProgress, ScanProgress, Ownership, [Next]_vars
    PROVE  Ownership'
<1> USE DEF BootPc
<1>0. /\ \A r, q \in runs : r # q => Extent(r.start, r.len) \cap Extent(q.start, q.len) = {}
      /\ (Held \cup leaked) \cap (InTransit \cup FreeFrames) = {}
      /\ Held \cap leaked = {}
      /\ pc = "check" => InTransit \cap FreeFrames = {}
      /\ pc \in BootPc \cup {"panicked"} => runs = {} /\ leaked = {}
  BY DEF Ownership, ExclusiveOwnership
<1>1. runs' = runs => Held' = Held
  BY DEF Held
<1>2. CASE pc \in BootPc /\ ~UNCHANGED vars
  <2>1. runs' = {} /\ leaked' = {} /\ pc' \in BootPc \cup {"ready", "panicked"}
    BY <1>0, <1>2, Zenon DEF Next, Step, Client, InitRegion, MarkFreeDone, ReserveLow, ReserveKernel,
        InitDone, SetFreeWord, SetOccupiedWord, ScanFrame, ScanFallback, ScanMiss, AllocateDone,
        CheckWord, CheckDone, FreeDone, Allocate, Free, Drop, clients
  <2>2. Held' = {}
    BY <2>1 DEF Held
  <2> QED
    BY <2>1, <2>2, Zenon DEF Ownership, ExclusiveOwnership
<1>3. CASE pc \notin BootPc /\ SetFreeWord
  <2>1. pc = "release" /\ remaining > 0 /\ runs' = runs /\ leaked' = leaked /\ call' = call
    BY <1>3 DEF SetFreeWord, clients, call
  <2>2. pc' = pc /\ FreeFrames' = FreeFrames \cup NextFrames
    BY <1>3, FreedWord
  <2>3. NextFrames \subseteq InTransit /\ InTransit' = InTransit
    BY <2>1, <2>2, HandledAll DEF InTransit, Walking, call
  <2> QED
    BY <1>0, <1>1, <2>1, <2>2, <2>3 DEF Ownership, ExclusiveOwnership
<1>4. CASE pc \notin BootPc /\ SetOccupiedWord
  <2>1. pc = "occupy" /\ runs' = runs /\ leaked' = leaked /\ call' = call
    BY <1>4 DEF SetOccupiedWord, clients, call
  <2>2. pc' = pc /\ FreeFrames' \subseteq FreeFrames
    BY <1>4, OccupiedWord
  <2>3. InTransit' = InTransit
    BY <2>1, <2>2 DEF InTransit, call
  <2> QED
    BY <1>0, <1>1, <2>1, <2>2, <2>3 DEF Ownership, ExclusiveOwnership
<1>5. CASE \E n \in Counts : Allocate(n)
  <2>1. runs' = runs /\ leaked' = leaked /\ FreeFrames' = FreeFrames /\ InTransit' = {}
        /\ pc' \in {"ready", "scan_hint"}
    BY <1>5, FreeUnchanged DEF Allocate, InTransit
  <2> QED
    BY <1>0, <1>1, <2>1 DEF Ownership, ExclusiveOwnership
<1>6. CASE ScanFrame
  <2>1. runs' = runs /\ leaked' = leaked /\ FreeFrames' = FreeFrames
        /\ pc' \in {"occupy", "scan_hint", "scan_all"}
    BY <1>6, FreeUnchanged DEF ScanFrame, clients
  <2>2. InTransit' \subseteq FreeFrames
    BY <1>6, <2>1, ScanFrameProgress DEF InTransit
  <2> QED
    BY <1>0, <1>1, <2>1, <2>2 DEF Ownership, ExclusiveOwnership
<1>7. CASE ScanFallback \/ ScanMiss \/ FreeDone
  <2>1. runs' = runs /\ leaked' = leaked /\ FreeFrames' = FreeFrames /\ InTransit' = {}
        /\ pc' \in {"ready", "scan_all"}
    BY <1>7, FreeUnchanged DEF ScanFallback, ScanMiss, FreeDone, clients, InTransit
  <2> QED
    BY <1>0, <1>1, <2>1 DEF Ownership, ExclusiveOwnership
<1>8. CASE AllocateDone
  <2> DEFINE new == [start |-> start, len |-> count]
  <2>1. /\ runs' = runs \cup {new} /\ leaked' = leaked /\ FreeFrames' = FreeFrames
        /\ InTransit = Extent(start, count) /\ pc = "occupy" /\ remaining = 0
    BY <1>8, FreeUnchanged, Zenon DEF AllocateDone, InTransit
  <2>2. pc' = "ready" /\ InTransit' = {}
    BY <1>8, <2>1, Cover DEF AllocateDone, Shape, TypeOK, WalkShape, debug_assert, InTransit, Walking
  <2>3. InTransit \cap FreeFrames = {}
    BY <2>1, HandledAll DEF WalkProgress, Walking
  <2>4. Held' = Held \cup InTransit
    <3>1. Extent(new.start, new.len) = InTransit
      BY <2>1
    <3>2. \A f : f \in Held' <=> \E r \in runs \cup {new} : f \in Extent(r.start, r.len)
      BY <2>1 DEF Held
    <3>3. \A f : f \in Held <=> \E r \in runs : f \in Extent(r.start, r.len)
      BY DEF Held
    <3> HIDE DEF new
    <3> QED
      BY <3>1, <3>2, <3>3
  <2>5. \A r \in runs : Extent(r.start, r.len) \cap InTransit = {}
    BY <1>0 DEF Held
  <2>6. \A r, q \in runs' : r # q => Extent(r.start, r.len) \cap Extent(q.start, q.len) = {}
    BY <1>0, <2>1, <2>5
  <2> QED
    BY <1>0, <2>1, <2>2, <2>3, <2>4, <2>6 DEF Ownership, ExclusiveOwnership
<1>9. CASE \E run \in runs : Free(run)
  <2> PICK run \in runs : Free(run)
    BY <1>9
  <2>1. /\ runs' = runs \ {run} /\ leaked' = leaked /\ FreeFrames' = FreeFrames
        /\ pc' = "check" /\ InTransit' = Extent(run.start, run.len)
    BY FreeUnchanged DEF Free, InTransit
  <2>2. Held' \subseteq Held /\ InTransit' \subseteq Held
    BY <2>1 DEF Held
  <2>3. Held' \cap InTransit' = {}
    BY <1>0, <2>1 DEF Held
  <2> QED
    BY <1>0, <2>1, <2>2, <2>3 DEF Ownership, ExclusiveOwnership
<1>10. CASE CheckWord \/ CheckDone
  <2>1. /\ runs' = runs /\ leaked' = leaked /\ FreeFrames' = FreeFrames /\ call' = call
        /\ pc = "check"
    BY <1>10, FreeUnchanged DEF CheckWord, CheckDone, clients
  <2>2. pc' \in {"check", "release"}
    BY <1>0, <1>10, <2>1, CheckedWord DEF CheckDone
  <2>3. InTransit' = InTransit
    BY <2>1, <2>2 DEF InTransit, call
  <2> QED
    BY <1>0, <1>1, <2>1, <2>2, <2>3 DEF Ownership, ExclusiveOwnership
<1>11. CASE \E run \in runs : Drop(run)
  <2> PICK run \in runs : Drop(run)
    BY <1>11
  <2>1. /\ runs' = runs \ {run} /\ leaked' = leaked \cup Extent(run.start, run.len)
        /\ FreeFrames' = FreeFrames /\ pc' = "ready" /\ InTransit' = {}
    BY FreeUnchanged DEF Drop, InTransit
  <2>2. Held' \subseteq Held /\ Extent(run.start, run.len) \subseteq Held
    BY <2>1 DEF Held
  <2>3. Held' \cap Extent(run.start, run.len) = {}
    BY <1>0, <2>1 DEF Held
  <2> QED
    BY <1>0, <2>1, <2>2, <2>3 DEF Ownership, ExclusiveOwnership
<1>12. CASE UNCHANGED vars
  <2>1. runs' = runs /\ leaked' = leaked /\ FreeFrames' = FreeFrames /\ pc' = pc /\ call' = call
    BY <1>12, FreeUnchanged DEF vars, clients
  <2>2. InTransit' = InTransit
    BY <2>1 DEF InTransit, call
  <2> QED
    BY <1>0, <1>1, <2>1, <2>2 DEF Ownership, ExclusiveOwnership
<1> QED
  BY <1>2, <1>3, <1>4, <1>5, <1>6, <1>7, <1>8, <1>9, <1>10, <1>11, <1>12
  DEF Next, Step, Client, InitRegion, MarkFreeDone, ReserveLow, ReserveKernel, InitDone

-----------------------------------------------------------------------------
(* Which frames can be issued at all.                                      *)

(* The frames that hold a byte of the kernel are those the second          *)
(* reservation covers.                                                     *)
LEMMA KernelFrames ==
    ASSUME NEW f \in Frame, FrameBytes(f) \cap (KERNEL_START .. KERNEL_END - 1) # {}
    PROVE  frame_floor(KERNEL_START) <= f /\ f < frame_ceil(KERNEL_END)
<1> PICK byte : byte \in FrameBytes(f) /\ byte \in KERNEL_START .. KERNEL_END - 1
  OBVIOUS
<1>1. f \in Nat /\ f * FRAME_SIZE \in Nat
  BY Cover, FrameSizeAssumption DEF Frame
<1>2. /\ byte \in Int /\ f * FRAME_SIZE <= byte /\ byte < f * FRAME_SIZE + FRAME_SIZE
      /\ KERNEL_START <= byte /\ byte < KERNEL_END
  BY <1>1, FrameSizeAssumption, LayoutAssumption DEF FrameBytes, base_addr
<1>3. /\ frame_floor(KERNEL_START) \in Nat /\ frame_ceil(KERNEL_END) \in Nat
      /\ frame_floor(KERNEL_START) * FRAME_SIZE <= KERNEL_START
      /\ KERNEL_END <= frame_ceil(KERNEL_END) * FRAME_SIZE
  BY Rounding, LayoutAssumption
<1>4. (f + 1) * FRAME_SIZE = f * FRAME_SIZE + FRAME_SIZE
  BY <1>1, FrameSizeAssumption
<1>5. frame_floor(KERNEL_START) * FRAME_SIZE < (f + 1) * FRAME_SIZE
  BY <1>1, <1>2, <1>3, <1>4, FrameSizeAssumption, LayoutAssumption
<1>6. f * FRAME_SIZE < frame_ceil(KERNEL_END) * FRAME_SIZE
  BY <1>1, <1>2, <1>3, FrameSizeAssumption, LayoutAssumption
<1>7. frame_floor(KERNEL_START) < f + 1
  BY <1>1, <1>3, <1>5, FrameOrder
<1>8. f < frame_ceil(KERNEL_END)
  BY <1>1, <1>3, <1>6, FrameOrder, Zenon
<1> QED
  BY <1>1, <1>3, <1>7, <1>8

(* Frames reserved by init stay reserved.                                  *)
LEMMA ReservationStep ==
    ASSUME Shape, WalkProgress, ScanProgress, Ownership, Reservation, [Next]_vars
    PROVE  Reservation'
<1>0. /\ pc \notin BootPc \cup {"panicked"} =>
             Reserved \cap (FreeFrames \cup Held \cup InTransit) = {}
      /\ Reserved' = Reserved
  BY DEF Reservation, ReservedNeverIssued, Reserved
<1>1. CASE InitRegion \/ MarkFreeDone
  <2>1. pc' \in {"region", "publish", "panicked"}
    BY <1>1 DEF InitRegion, MarkFreeDone
  <2> QED
    BY <2>1 DEF Reservation, ReservedNeverIssued, BootPc
<1>2. CASE SetFreeWord /\ pc = "publish"
  <2>1. pc' = "publish"
    BY <1>2, FreedWord
  <2> QED
    BY <2>1 DEF Reservation, ReservedNeverIssued, BootPc
<1>3. CASE ReserveLow
  <2>1. pc' = "reserve_low" /\ start' = 0 /\ count' = 1
    BY <1>3, ReservedFrames DEF ReserveLow, reserve_bytes
  <2> QED
    BY <2>1 DEF Reservation, ReservedNeverIssued, BootPc
<1>4. CASE ReserveKernel
  <2>1. pc = "reserve_low" /\ remaining = 0 /\ start = 0 /\ count = 1 /\ FreeFrames' = FreeFrames
    BY <1>4, FreeUnchanged DEF ReserveKernel, Reservation
  <2>2. 0 \notin FreeFrames
    BY <2>1, HandledAll DEF WalkProgress, Walking, Extent
  <2>3. /\ pc' = "reserve_kernel" /\ start' = frame_floor(KERNEL_START)
        /\ count' = frame_ceil(KERNEL_END) - frame_floor(KERNEL_START)
    BY <1>4, ReservedFrames DEF ReserveKernel, reserve_bytes
  <2>4. start' + count' = frame_ceil(KERNEL_END)
    BY <2>3, ReservedFrames
  <2> QED
    BY <2>1, <2>2, <2>3, <2>4 DEF Reservation, ReservedNeverIssued, BootPc
<1>5. CASE SetOccupiedWord
  <2>1. pc' = pc /\ FreeFrames' \subseteq FreeFrames /\ start' = start /\ count' = count
        /\ runs' = runs
    BY <1>5, OccupiedWord DEF SetOccupiedWord, call, clients
  <2>2. Held' = Held /\ InTransit' = InTransit
    BY <2>1 DEF Held, InTransit
  <2> QED
    BY <1>0, <2>1, <2>2 DEF Reservation, ReservedNeverIssued
<1>6. CASE InitDone
  <2>1. /\ pc = "reserve_kernel" /\ remaining = 0 /\ pc' = "ready" /\ FreeFrames' = FreeFrames
        /\ 0 \notin FreeFrames /\ start = frame_floor(KERNEL_START)
        /\ start + count = frame_ceil(KERNEL_END) /\ runs' = {}
    BY <1>6, FreeUnchanged DEF InitDone, Reservation, Ownership, BootPc, clients
  <2>2. Held' = {} /\ InTransit' = {}
    BY <2>1 DEF Held, InTransit
  <2>3. Extent(start, count) \cap FreeFrames = {}
    BY <2>1, HandledAll DEF WalkProgress, Walking
  <2>4. ASSUME NEW f \in Frame, FrameBytes(f) \cap (KERNEL_START .. KERNEL_END - 1) # {}
        PROVE  f \in Extent(start, count)
    <3>1. start <= f /\ f < start + count
      BY <2>1, <2>4, KernelFrames
    <3>2. f \in Int /\ start \in Int /\ count \in Int
      BY Cover DEF Frame, Shape, TypeOK
    <3> QED
      BY <3>1, <3>2 DEF Extent
  <2>5. Reserved \cap FreeFrames = {}
    BY <2>1, <2>3, <2>4 DEF Reserved
  <2> QED
    BY <1>0, <2>1, <2>2, <2>5 DEF Reservation, ReservedNeverIssued
<1>7. CASE SetFreeWord /\ pc = "release"
  <2>1. /\ pc' = pc /\ FreeFrames' = FreeFrames \cup NextFrames /\ start' = start
        /\ count' = count /\ runs' = runs /\ remaining > 0
    BY <1>7, FreedWord DEF SetFreeWord, call, clients
  <2>2. Held' = Held /\ InTransit' = InTransit /\ NextFrames \subseteq InTransit
    BY <1>7, <2>1, HandledAll DEF Held, InTransit, Walking
  <2> QED
    BY <1>0, <1>7, <2>1, <2>2 DEF Reservation, ReservedNeverIssued, BootPc
<1>8. CASE ScanFrame
  <2>1. /\ pc \in Scanning /\ pc' \in {"occupy", "scan_hint", "scan_all"}
        /\ FreeFrames' = FreeFrames /\ runs' = runs
    BY <1>8, FreeUnchanged DEF ScanFrame, clients, Scanning
  <2>2. Held' = Held /\ InTransit' \subseteq FreeFrames
    BY <1>8, <2>1, ScanFrameProgress DEF Held, InTransit
  <2> QED
    BY <1>0, <2>1, <2>2 DEF Reservation, ReservedNeverIssued, Scanning, BootPc
<1>9. CASE ScanFallback \/ ScanMiss \/ FreeDone \/ \E n \in Counts : Allocate(n)
  <2>1. /\ pc \in {"scan_hint", "scan_all", "release", "ready"}
        /\ pc' \in {"ready", "scan_all", "scan_hint"}
        /\ FreeFrames' = FreeFrames /\ runs' = runs
    BY <1>9, FreeUnchanged DEF ScanFallback, ScanMiss, FreeDone, Allocate, clients
  <2>2. Held' = Held /\ InTransit' = {}
    BY <2>1 DEF Held, InTransit
  <2> QED
    BY <1>0, <2>1, <2>2 DEF Reservation, ReservedNeverIssued, BootPc
<1>10. CASE CheckWord \/ CheckDone
  <2>1. /\ pc = "check" /\ pc' \in {"check", "release", "panicked"} /\ FreeFrames' = FreeFrames
        /\ runs' = runs /\ start' = start /\ count' = count
    BY <1>10, FreeUnchanged, Zenon DEF CheckWord, CheckDone, clients, call
  <2>2. Held' = Held /\ (InTransit' = InTransit \/ InTransit' = {})
    BY <2>1, Zenon DEF Held, InTransit
  <2>3. Reserved \cap (FreeFrames' \cup Held' \cup InTransit') = {}
    BY <1>0, <2>1, <2>2 DEF BootPc
  <2>4. pc' \notin {"reserve_low", "reserve_kernel"}
    BY <2>1
  <2> QED
    BY <1>0, <2>3, <2>4, Zenon DEF Reservation, ReservedNeverIssued
<1>11. CASE AllocateDone
  <2> DEFINE new == [start |-> start, len |-> count]
  <2>1. /\ pc = "occupy" /\ pc' \in {"ready", "panicked"} /\ FreeFrames' = FreeFrames
        /\ runs' = runs \cup {new}
    BY <1>11, FreeUnchanged DEF AllocateDone
  <2>2. Extent(new.start, new.len) = InTransit
    BY <2>1 DEF InTransit
  <2> HIDE DEF new
  <2>3. Held' \subseteq Held \cup InTransit /\ InTransit' = {}
    BY <2>1, <2>2 DEF Held, InTransit
  <2> QED
    BY <1>0, <2>1, <2>3 DEF Reservation, ReservedNeverIssued, BootPc
<1>12. CASE \E run \in runs : Free(run) \/ Drop(run)
  <2> PICK run \in runs : Free(run) \/ Drop(run)
    BY <1>12
  <2>1. /\ pc = "ready" /\ pc' \in {"ready", "check"} /\ FreeFrames' = FreeFrames
        /\ runs' = runs \ {run}
        /\ InTransit' \subseteq Extent(run.start, run.len)
    BY FreeUnchanged DEF Free, Drop, InTransit
  <2>2. Held' \subseteq Held /\ InTransit' \subseteq Held
    BY <2>1 DEF Held
  <2> QED
    BY <1>0, <2>1, <2>2 DEF Reservation, ReservedNeverIssued, BootPc
<1>13. CASE UNCHANGED vars
  <2>1. /\ pc' = pc /\ FreeFrames' = FreeFrames /\ runs' = runs /\ start' = start /\ count' = count
    BY <1>13, FreeUnchanged DEF vars, clients, call
  <2>2. Held' = Held /\ InTransit' = InTransit
    BY <2>1 DEF Held, InTransit
  <2> QED
    BY <1>0, <2>1, <2>2 DEF Reservation, ReservedNeverIssued
<1> QED
  BY <1>1, <1>2, <1>3, <1>4, <1>5, <1>6, <1>7, <1>8, <1>9, <1>10, <1>11, <1>12, <1>13
  DEF Next, Step, Client, SetFreeWord

(* The frames init publishes for a region lie wholly in it, although the   *)
(* code truncates the region's 64-bit bounds to 32 bits.                   *)
LEMMA PublishedInside ==
    ASSUME NEW region \in Region, ~skips(region), frames_in(region) > 0,
           NEW f \in Extent(first_frame(region), frames_in(region))
    PROVE  f \in Promised(region)
<1>1. region.base \in Nat /\ region.length \in Nat /\ region.base <= U64_MAX
  BY LimitAssumption DEF Region, U64
<1>2. region.available /\ bytes_of(region) # 0
  BY DEF skips
<1>3. addressable_bytes(region) \in Nat
  BY <1>1, LimitAssumption DEF addressable_bytes, clamped_end, saturating_add
<1>4. region.base < LIMIT
  <2>1. usize(0) = 0
    BY LimitFrames, LimitAssumption
  <2> QED
    BY <1>1, <1>2, <2>1, LimitAssumption DEF bytes_of, addressable_bytes
<1>5. base_of(region) = region.base
  BY <1>1, <1>4, LimitFrames, LimitAssumption DEF base_of
<1>6. /\ region.base + addressable_bytes(region) <= LIMIT
      /\ region.base + addressable_bytes(region) <= region.base + region.length
  BY <1>1, <1>4, LimitAssumption DEF addressable_bytes, clamped_end, saturating_add
<1>7. addressable_bytes(region) < LIMIT
  <2>1. usize(LIMIT) = 0
    BY LimitAssumption DEF usize
  <2> QED
    BY <1>1, <1>2, <1>3, <1>6, <2>1, LimitAssumption DEF bytes_of
<1>8. bytes_of(region) = addressable_bytes(region)
  BY <1>3, <1>7, LimitFrames, LimitAssumption DEF bytes_of
<1> DEFINE end == region.base + addressable_bytes(region)
<1>9. end_byte(region) = end /\ end \in 0 .. LIMIT
  BY <1>1, <1>3, <1>5, <1>6, <1>8, LimitAssumption DEF end_byte
<1>10. /\ first_frame(region) \in Nat /\ frames_in(region) \in Nat
       /\ first_frame(region) + frames_in(region) <= FRAME_COUNT
       /\ first_frame(region) + frames_in(region) = frame_floor(usize(end_byte(region)))
  BY RegionFrames
<1>11. end # LIMIT
  <2>1. usize(LIMIT) = 0 /\ frame_floor(0) = 0
    BY LimitAssumption, ReservedFrames DEF usize
  <2> QED
    BY <1>9, <1>10, <2>1
<1>12. usize(end_byte(region)) = end
  BY <1>9, <1>11, LimitFrames, LimitAssumption
<1> HIDE DEF end
<1>13. f \in Nat /\ first_frame(region) <= f /\ f < frame_floor(end)
  BY <1>10, <1>12 DEF Extent
<1>14. f \in Frame
  BY <1>10, <1>12, <1>13, Cover DEF Frame
<1>15. region.base <= first_frame(region) * FRAME_SIZE
  BY <1>1, <1>5, Rounding DEF first_frame
<1>16. frame_floor(end) \in Nat /\ frame_floor(end) * FRAME_SIZE <= end
  BY <1>9, Rounding, LimitAssumption
<1>17. first_frame(region) * FRAME_SIZE <= f * FRAME_SIZE
  BY <1>10, <1>13, FrameOrder, FrameSizeAssumption
<1>18. (f + 1) * FRAME_SIZE <= frame_floor(end) * FRAME_SIZE
  BY <1>13, <1>16, FrameOrder
<1>19. (f + 1) * FRAME_SIZE = f * FRAME_SIZE + FRAME_SIZE /\ f * FRAME_SIZE \in Nat
  BY <1>13, FrameSizeAssumption
<1>20. end <= region.base + region.length /\ end \in Nat
  BY <1>6, <1>9, LimitAssumption DEF end
<1>21. ASSUME NEW byte \in FrameBytes(f) PROVE Holds(region, byte)
  <2>1. byte \in Int /\ f * FRAME_SIZE <= byte /\ byte < f * FRAME_SIZE + FRAME_SIZE
    BY <1>19, FrameSizeAssumption DEF FrameBytes, base_addr
  <2>2. first_frame(region) * FRAME_SIZE \in Nat /\ frame_floor(end) * FRAME_SIZE \in Nat
    BY <1>10, <1>16, FrameSizeAssumption
  <2> QED
    BY <1>1, <1>15, <1>16, <1>17, <1>18, <1>19, <1>20, <2>1, <2>2, FrameSizeAssumption DEF Holds
<1>22. region.base + region.length < LIMIT
  BY <1>1, <1>4, <1>9, <1>11, LimitAssumption
  DEF end, addressable_bytes, clamped_end, saturating_add
<1> QED
  BY <1>2, <1>14, <1>21, <1>22 DEF Promised

(* A frame wholly inside an available region that ends below 4 GiB is one  *)
(* of those init publishes for it.                                         *)
LEMMA PublishesAll ==
    ASSUME NEW region \in Region, NEW f \in Promised(region)
    PROVE  /\ ~skips(region) /\ ~overflows(region) /\ frames_in(region) > 0
           /\ f \in Extent(first_frame(region), frames_in(region))
<1> DEFINE end == region.base + region.length
<1>1. region.base \in Nat /\ region.length \in Nat /\ region.available /\ end < LIMIT
  BY LimitAssumption DEF Region, U64, Promised
<1>2. /\ f \in Nat /\ f * FRAME_SIZE \in Nat
      /\ (f + 1) * FRAME_SIZE = f * FRAME_SIZE + FRAME_SIZE
  BY Cover, FrameSizeAssumption DEF Promised, Frame
<1>3. region.base <= f * FRAME_SIZE /\ (f + 1) * FRAME_SIZE <= end
  <2>1. /\ f * FRAME_SIZE \in FrameBytes(f)
        /\ f * FRAME_SIZE + FRAME_SIZE - 1 \in FrameBytes(f)
    BY <1>2, FrameSizeAssumption DEF FrameBytes, base_addr
  <2>2. Holds(region, f * FRAME_SIZE) /\ Holds(region, f * FRAME_SIZE + FRAME_SIZE - 1)
    BY <2>1, Zenon DEF Promised
  <2> QED
    BY <1>1, <1>2, <2>2, FrameSizeAssumption DEF Holds
<1>4. addressable_bytes(region) = region.length /\ region.length > 0
  BY <1>1, <1>2, <1>3, LimitAssumption, FrameSizeAssumption
  DEF addressable_bytes, clamped_end, saturating_add
<1>5. base_of(region) = region.base /\ bytes_of(region) = region.length
  BY <1>1, <1>4, LimitFrames, LimitAssumption DEF base_of, bytes_of
<1>6. end_byte(region) = end /\ usize(end) = end
  BY <1>1, <1>5, LimitFrames, LimitAssumption DEF end_byte
<1>7. ~skips(region) /\ ~overflows(region)
  BY <1>1, <1>4, <1>5, <1>6, LimitAssumption DEF skips, overflows
<1> HIDE DEF end
<1>8. end \in Nat
  BY <1>1 DEF end
<1>9. first_frame(region) \in Nat /\ first_frame(region) <= f
  <2>1. /\ first_frame(region) = frame_ceil(region.base) /\ first_frame(region) \in Nat
        /\ region.base > 0 => (first_frame(region) - 1) * FRAME_SIZE < region.base
    BY <1>1, <1>5, Rounding DEF first_frame
  <2>2. CASE first_frame(region) = 0
    BY <1>2, <2>1, <2>2
  <2>3. CASE first_frame(region) # 0 /\ region.base > 0
    <3>1. first_frame(region) - 1 \in Nat /\ (first_frame(region) - 1) * FRAME_SIZE < f * FRAME_SIZE
      BY <1>1, <1>2, <1>3, <2>1, <2>3, FrameSizeAssumption
    <3>2. first_frame(region) - 1 < f
      BY <1>2, <3>1, FrameOrder
    <3> QED
      BY <1>2, <2>1, <3>2
  <2>4. CASE region.base = 0
    BY <1>2, <2>1, <2>4, FrameSizeAssumption DEF frame_ceil, div_ceil
  <2> QED
    BY <1>1, <2>1, <2>2, <2>3, <2>4
<1>10. frame_floor(end) \in Nat /\ f < frame_floor(end)
  <2>1. frame_floor(end) \in Nat /\ end < (frame_floor(end) + 1) * FRAME_SIZE
    BY <1>8, Rounding
  <2>2. (f + 1) * FRAME_SIZE < (frame_floor(end) + 1) * FRAME_SIZE
    BY <1>2, <1>3, <1>8, <2>1, FrameSizeAssumption
  <2>3. f + 1 < frame_floor(end) + 1
    BY <1>2, <2>1, <2>2, FrameOrder
  <2> QED
    BY <1>2, <2>1, <2>3
<1>11. frames_in(region) = saturating_sub(frame_floor(end), first_frame(region))
  BY <1>6 DEF frames_in, frame_floor
<1> QED
  BY <1>2, <1>7, <1>9, <1>10, <1>11 DEF saturating_sub, Extent

(* The frames the second reservation covers hold a byte of the kernel.     *)
LEMMA ReservesNoMore ==
    ASSUME NEW f \in Frame, frame_floor(KERNEL_START) <= f, f < frame_ceil(KERNEL_END)
    PROVE  f \in Reserved
<1>1. /\ f \in Nat /\ f * FRAME_SIZE \in Nat
      /\ (f + 1) * FRAME_SIZE = f * FRAME_SIZE + FRAME_SIZE
  BY Cover, FrameSizeAssumption DEF Frame
<1>2. KERNEL_START < (f + 1) * FRAME_SIZE
  <2>1. /\ frame_floor(KERNEL_START) \in Nat
        /\ KERNEL_START < (frame_floor(KERNEL_START) + 1) * FRAME_SIZE
    BY Rounding, LayoutAssumption
  <2>2. ~((f + 1) * FRAME_SIZE < (frame_floor(KERNEL_START) + 1) * FRAME_SIZE)
    BY <1>1, <2>1, FrameOrder
  <2> QED
    BY <1>1, <2>1, <2>2, LayoutAssumption, FrameSizeAssumption
<1>3. f * FRAME_SIZE < KERNEL_END
  <2>1. /\ frame_ceil(KERNEL_END) \in Nat
        /\ (frame_ceil(KERNEL_END) - 1) * FRAME_SIZE < KERNEL_END
    BY Rounding, LayoutAssumption
  <2>2. frame_ceil(KERNEL_END) - 1 \in Nat /\ ~(frame_ceil(KERNEL_END) - 1 < f)
    BY <1>1, <2>1
  <2>3. ~((frame_ceil(KERNEL_END) - 1) * FRAME_SIZE < f * FRAME_SIZE)
    BY <1>1, <2>2, FrameOrder
  <2> QED
    BY <1>1, <2>1, <2>2, <2>3, LayoutAssumption, FrameSizeAssumption
<1> DEFINE byte == IF KERNEL_START < f * FRAME_SIZE THEN f * FRAME_SIZE ELSE KERNEL_START
<1>4. byte \in FrameBytes(f) /\ byte \in KERNEL_START .. KERNEL_END - 1
  BY <1>1, <1>2, <1>3, LayoutAssumption, FrameSizeAssumption DEF FrameBytes, base_addr
<1> QED
  BY <1>4, Zenon DEF Reserved

(* Every step reads the same memory map.                                   *)
LEMMA MapKept == [Next]_vars => mmap' = mmap
BY Zenon DEF Next, Step, Client, InitRegion, MarkFreeDone, ReserveLow, ReserveKernel, InitDone,
   SetFreeWord, SetOccupiedWord, ScanFrame, ScanFallback, ScanMiss, AllocateDone, CheckWord,
   CheckDone, FreeDone, Allocate, Free, Drop, vars, world

LEMMA MapShape ==
    ASSUME Shape
    PROVE  /\ Len(mmap) \in Nat /\ next_region \in 1 .. Len(mmap) + 1
           /\ \A i \in 1 .. Len(mmap) : mmap[i] \in Region
<1>1. mmap \in Seq(Region) /\ next_region \in 1 .. Len(mmap) + 1
  BY InputAssumption DEF Shape, TypeOK
<1> QED
  BY <1>1

(* Only fully available frames become free or are issued.                  *)
LEMMA UsabilityStep ==
    ASSUME Shape, WalkProgress, ScanProgress, Ownership, Usability, [Next]_vars
    PROVE  Usability'
<1>0. /\ FreeFrames \cup Held \cup InTransit \subseteq Deliverable
      /\ pc = "publish" => Extent(start, count) \subseteq Deliverable
  BY DEF Usability
<1>1. Deliverable' = Deliverable
  BY MapKept, Zenon DEF Deliverable
<1>2. SUFFICES /\ FreeFrames' \cup Held' \cup InTransit' \subseteq Deliverable
               /\ pc' = "publish" => Extent(start, count)' \subseteq Deliverable
  BY <1>1 DEF Usability
<1>3. CASE InitRegion
  <2>1. FreeFrames' = FreeFrames /\ Held' = Held /\ InTransit' = {}
    BY <1>3, FreeUnchanged DEF InitRegion, clients, Held, InTransit
  <2>2. CASE pc' = "publish"
    <3> DEFINE region == mmap[next_region]
    <3>1. /\ start' = first_frame(region) /\ count' = frames_in(region)
          /\ ~skips(region) /\ frames_in(region) > 0 /\ next_region <= Len(mmap)
      BY <1>3, <2>2 DEF InitRegion
    <3>2. next_region \in 1 .. Len(mmap) /\ region \in Region
      BY <3>1, MapShape
    <3>3. Extent(start', count') \subseteq Promised(region)
      BY <3>1, <3>2, PublishedInside
    <3>4. Extent(start', count') \subseteq Deliverable
      BY <3>2, <3>3, Zenon DEF Deliverable
    <3> QED
      BY <1>0, <2>1, <3>4
  <2> QED
    BY <1>0, <2>1, <2>2
<1>4. CASE SetFreeWord
  <2>1. /\ pc' = pc /\ FreeFrames' = FreeFrames \cup NextFrames /\ start' = start
        /\ count' = count /\ runs' = runs /\ remaining > 0 /\ pc \in {"publish", "release"}
    BY <1>4, FreedWord DEF SetFreeWord, call, clients
  <2>2. Held' = Held /\ InTransit' = InTransit /\ NextFrames \subseteq Extent(start, count)
    BY <2>1, HandledAll DEF Held, InTransit, Walking
  <2>3. Extent(start, count) \subseteq Deliverable
    BY <1>0, <2>1 DEF InTransit
  <2> QED
    BY <1>0, <2>1, <2>2, <2>3
<1>5. CASE SetOccupiedWord
  <2>1. /\ pc' = pc /\ FreeFrames' \subseteq FreeFrames /\ start' = start /\ count' = count
        /\ runs' = runs
    BY <1>5, OccupiedWord DEF SetOccupiedWord, call, clients
  <2>2. Held' = Held /\ InTransit' = InTransit
    BY <2>1 DEF Held, InTransit
  <2> QED
    BY <1>0, <2>1, <2>2
<1>6. CASE MarkFreeDone \/ ReserveLow \/ ReserveKernel \/ InitDone \/ ScanFallback \/ ScanMiss
           \/ FreeDone \/ \E n \in Counts : Allocate(n)
  <2>1. FreeFrames' = FreeFrames /\ Held' = Held /\ InTransit' = {} /\ pc' # "publish"
    BY <1>6, FreeUnchanged DEF MarkFreeDone, ReserveLow, ReserveKernel, InitDone, ScanFallback,
        ScanMiss, FreeDone, Allocate, clients, Held, InTransit
  <2> QED
    BY <1>0, <2>1
<1>7. CASE ScanFrame
  <2>1. FreeFrames' = FreeFrames /\ Held' = Held /\ pc' \in {"occupy", "scan_hint", "scan_all"}
    BY <1>7, FreeUnchanged DEF ScanFrame, clients, Held
  <2>2. InTransit' \subseteq FreeFrames
    BY <1>7, <2>1, ScanFrameProgress DEF InTransit
  <2> QED
    BY <1>0, <2>1, <2>2
<1>8. CASE CheckWord \/ CheckDone
  <2>1. /\ pc = "check" /\ pc' \in {"check", "release", "panicked"}
        /\ FreeFrames' = FreeFrames /\ Held' = Held /\ start' = start /\ count' = count
    BY <1>8, FreeUnchanged DEF CheckWord, CheckDone, clients, call, Held
  <2>2. InTransit' \subseteq InTransit
    BY <2>1 DEF InTransit
  <2> QED
    BY <1>0, <2>1, <2>2, Zenon
<1>9. CASE AllocateDone
  <2> DEFINE new == [start |-> start, len |-> count]
  <2>1. /\ pc = "occupy" /\ pc' \in {"ready", "panicked"} /\ FreeFrames' = FreeFrames
        /\ runs' = runs \cup {new}
    BY <1>9, FreeUnchanged DEF AllocateDone
  <2>2. Extent(new.start, new.len) = InTransit
    BY <2>1 DEF InTransit
  <2> HIDE DEF new
  <2>3. Held' \subseteq Held \cup InTransit /\ InTransit' = {}
    BY <2>1, <2>2 DEF Held, InTransit
  <2> QED
    BY <1>0, <2>1, <2>3
<1>10. CASE \E run \in runs : Free(run) \/ Drop(run)
  <2> PICK run \in runs : Free(run) \/ Drop(run)
    BY <1>10
  <2>1. /\ pc' \in {"ready", "check"} /\ FreeFrames' = FreeFrames /\ runs' = runs \ {run}
        /\ InTransit' \subseteq Extent(run.start, run.len)
    BY FreeUnchanged DEF Free, Drop, InTransit
  <2>2. Held' \subseteq Held /\ InTransit' \subseteq Held
    BY <2>1 DEF Held
  <2> QED
    BY <1>0, <2>1, <2>2
<1>11. CASE UNCHANGED vars
  <2>1. /\ pc' = pc /\ FreeFrames' = FreeFrames /\ runs' = runs /\ start' = start /\ count' = count
    BY <1>11, FreeUnchanged DEF vars, clients, call
  <2>2. Held' = Held /\ InTransit' = InTransit
    BY <2>1 DEF Held, InTransit
  <2> QED
    BY <1>0, <2>1, <2>2, Zenon
<1> QED
  BY <1>3, <1>4, <1>5, <1>6, <1>7, <1>8, <1>9, <1>10, <1>11 DEF Next, Step, Client

(* No frame falls between init, the callers and the free frames.           *)
LEMMA DeliveryStep ==
    ASSUME Shape, WalkProgress, ScanProgress, Ownership, Reservation, Delivery, [Next]_vars
    PROVE  Delivery'
<1> DEFINE Owed(i) == Promised(mmap[i]) \ Reserved
           Accounted == FreeFrames \cup InTransit \cup Held \cup leaked
           Booted == pc \notin BootPc \cup {"panicked"}
<1>0. /\ Len(mmap) \in Nat /\ next_region \in 1 .. Len(mmap) + 1
      /\ \A i \in 1 .. Len(mmap) : mmap[i] \in Region
  BY MapShape, Zenon
<1>1. mmap' = mmap
  BY MapKept, Zenon
<1>2. /\ \A region : Promised(region)' = Promised(region)
      /\ Deliverable' = Deliverable /\ Reserved' = Reserved
  <2>1. Deliverable' = Deliverable
    BY <1>1, Zenon DEF Deliverable
  <2> QED
    BY <2>1, Zenon DEF Promised, Reserved
<1>3. /\ Booted => Deliverable \ Reserved \subseteq Accounted
      /\ pc \in BootPc => \A i \in 1 .. next_region - 1 : Owed(i) \subseteq FreeFrames
      /\ pc = "publish" => Promised(mmap[next_region]) \subseteq Extent(start, count)
      /\ pc \in {"reserve_low", "reserve_kernel"} => next_region = Len(mmap) + 1
  BY DEF Delivery, NoFrameLost
<1>4. ASSUME /\ Booted' => Deliverable \ Reserved \subseteq Accounted'
             /\ pc' \in BootPc => \A i \in 1 .. next_region' - 1 : Owed(i) \subseteq FreeFrames'
             /\ pc' = "publish" => Promised(mmap[next_region']) \subseteq Extent(start', count')
             /\ pc' \in {"reserve_low", "reserve_kernel"} => next_region' = Len(mmap) + 1
      PROVE  Delivery'
  BY <1>1, <1>2, <1>4, Zenon DEF Delivery, NoFrameLost
<1>5. ASSUME Booted, pc' \notin BootPc, Accounted \subseteq Accounted' PROVE Delivery'
  <2>1. Deliverable \ Reserved \subseteq Accounted'
    BY <1>3, <1>5
  <2> HIDE DEF Owed, Accounted
  <2> QED
    BY <1>4, <1>5, <2>1 DEF BootPc
<1>6. CASE InitRegion
  <2> DEFINE region == mmap[next_region]
  <2>1. /\ pc = "region" /\ next_region \in 1 .. Len(mmap) /\ FreeFrames' = FreeFrames
        /\ region \in Region
    BY <1>0, <1>6, FreeUnchanged DEF InitRegion
  <2>2. ASSUME NEW f \in Promised(region)
        PROVE  /\ ~skips(region) /\ ~overflows(region) /\ frames_in(region) > 0
               /\ f \in Extent(first_frame(region), frames_in(region))
    BY <2>1, <2>2, PublishesAll
  <2>3. CASE pc' = "region"
    <3>1. /\ next_region' = next_region + 1
          /\ skips(region) \/ (~overflows(region) /\ frames_in(region) = 0)
      BY <1>6, <2>1, <2>3 DEF InitRegion
    <3>2. Promised(region) = {}
      BY <2>2, <3>1
    <3>3. \A i \in 1 .. next_region' - 1 : i = next_region \/ i \in 1 .. next_region - 1
      BY <2>1, <3>1
    <3>4. \A i \in 1 .. next_region' - 1 : Owed(i) \subseteq FreeFrames'
      BY <1>3, <2>1, <3>2, <3>3 DEF BootPc
    <3> HIDE DEF Owed, Accounted, region
    <3> QED
      BY <1>4, <2>3, <3>4 DEF BootPc
  <2>4. CASE pc' = "publish"
    <3>1. start' = first_frame(region) /\ count' = frames_in(region) /\ next_region' = next_region
      BY <1>6, <2>1, <2>4 DEF InitRegion
    <3>2. Promised(mmap[next_region']) \subseteq Extent(start', count')
      BY <2>2, <3>1
    <3>3. \A i \in 1 .. next_region' - 1 : Owed(i) \subseteq FreeFrames'
      BY <1>3, <2>1, <3>1 DEF BootPc
    <3> HIDE DEF Owed, Accounted, region
    <3> QED
      BY <1>4, <2>4, <3>2, <3>3 DEF BootPc
  <2>5. CASE pc' = "panicked"
    BY <1>4, <2>5 DEF BootPc
  <2> QED
    BY <1>6, <2>3, <2>4, <2>5 DEF InitRegion
<1>7. CASE MarkFreeDone
  <2>1. /\ pc = "publish" /\ remaining = 0 /\ pc' = "region" /\ next_region' = next_region + 1
        /\ FreeFrames' = FreeFrames
    BY <1>7, FreeUnchanged DEF MarkFreeDone
  <2>2. Extent(start, count) \subseteq FreeFrames
    BY <2>1, HandledAll DEF WalkProgress, Walking
  <2>3. \A i \in 1 .. next_region' - 1 : i = next_region \/ i \in 1 .. next_region - 1
    BY <1>0, <2>1
  <2>4. \A i \in 1 .. next_region' - 1 : Owed(i) \subseteq FreeFrames'
    BY <1>3, <2>1, <2>2, <2>3 DEF BootPc
  <2> HIDE DEF Owed, Accounted
  <2> QED
    BY <1>4, <2>1, <2>4 DEF BootPc
<1>8. CASE ReserveLow \/ ReserveKernel
  <2>1. /\ pc \in {"region", "reserve_low"} /\ pc' \in {"reserve_low", "reserve_kernel"}
        /\ next_region' = next_region /\ next_region = Len(mmap) + 1 /\ FreeFrames' = FreeFrames
    BY <1>0, <1>3, <1>8, FreeUnchanged DEF ReserveLow, ReserveKernel, world
  <2> HIDE DEF Owed, Accounted
  <2> QED
    BY <1>3, <1>4, <2>1 DEF BootPc
<1>9. CASE InitDone
  <2>1. /\ pc = "reserve_kernel" /\ pc' = "ready" /\ FreeFrames' = FreeFrames
    BY <1>9, FreeUnchanged DEF InitDone
  <2>2. \A i \in 1 .. Len(mmap) : Owed(i) \subseteq FreeFrames
    BY <1>0, <1>3, <2>1 DEF BootPc
  <2>3. Deliverable \ Reserved \subseteq Accounted'
    BY <2>1, <2>2 DEF Deliverable
  <2> HIDE DEF Owed, Accounted
  <2> QED
    BY <1>4, <2>1, <2>3 DEF BootPc
<1>10. CASE SetFreeWord
  <2>1. /\ pc \in {"publish", "release"} /\ pc' = pc /\ FreeFrames \subseteq FreeFrames'
        /\ start' = start /\ count' = count /\ next_region' = next_region
        /\ runs' = runs /\ leaked' = leaked
    BY <1>10, FreedWord DEF SetFreeWord, call, world, clients
  <2>2. CASE pc = "publish"
    <3>1. \A i \in 1 .. next_region' - 1 : Owed(i) \subseteq FreeFrames'
      BY <1>3, <2>1, <2>2 DEF BootPc
    <3> HIDE DEF Owed, Accounted
    <3> QED
      BY <1>3, <1>4, <2>1, <2>2, <3>1 DEF BootPc
  <2>3. CASE pc = "release"
    <3>1. Accounted \subseteq Accounted'
      BY <2>1 DEF InTransit, Held
    <3> QED
      BY <1>5, <2>1, <2>3, <3>1 DEF BootPc
  <2> QED
    BY <2>1, <2>2, <2>3
<1>11. CASE SetOccupiedWord
  <2>1. /\ pc \in {"reserve_low", "reserve_kernel", "occupy"} /\ pc' = pc
        /\ FreeFrames' = FreeFrames \ NextFrames /\ NextFrames \subseteq Extent(start, count)
        /\ start' = start /\ count' = count /\ next_region' = next_region
        /\ runs' = runs /\ leaked' = leaked
    BY <1>11, OccupiedWord, HandledAll DEF SetOccupiedWord, Walking, call, world, clients
  <2>2. CASE pc = "occupy"
    <3>1. Accounted \subseteq Accounted'
      BY <2>1, <2>2 DEF InTransit, Held
    <3> QED
      BY <1>5, <2>1, <2>2, <3>1 DEF BootPc
  <2>3. CASE pc \in {"reserve_low", "reserve_kernel"}
    <3>1. ASSUME NEW f \in Frame, f \in Extent(start, count) PROVE f \in Reserved
      <4>1. f \in Nat /\ start \in Nat /\ count \in Nat /\ start <= f /\ f < start + count
        BY <3>1, Cover DEF Extent, Frame, Shape, TypeOK
      <4>2. CASE pc = "reserve_low"
        BY <4>1, <4>2 DEF Reservation, Reserved
      <4>3. CASE pc = "reserve_kernel"
        BY <4>1, <4>3, ReservesNoMore DEF Reservation
      <4> QED
        BY <2>3, <4>2, <4>3
    <3>2. FreeFrames \ Reserved \subseteq FreeFrames'
      BY <2>1, <3>1 DEF FreeFrames
    <3>3. \A i \in 1 .. next_region' - 1 : Owed(i) \subseteq FreeFrames'
      BY <1>3, <2>1, <2>3, <3>2 DEF BootPc
    <3> HIDE DEF Owed, Accounted
    <3> QED
      BY <1>3, <1>4, <2>1, <2>3, <3>3 DEF BootPc
  <2> QED
    BY <2>1, <2>2, <2>3
<1>12. CASE ScanFrame \/ ScanFallback \/ ScanMiss \/ \E n \in Counts : Allocate(n)
  <2>1. /\ pc \in {"scan_hint", "scan_all", "ready"}
        /\ pc' \in {"scan_hint", "scan_all", "occupy", "ready"}
        /\ FreeFrames' = FreeFrames /\ runs' = runs /\ leaked' = leaked
    BY <1>12, FreeUnchanged DEF ScanFrame, ScanFallback, ScanMiss, Allocate, clients
  <2>2. Accounted \subseteq Accounted'
    BY <2>1 DEF InTransit, Held
  <2> QED
    BY <1>5, <2>1, <2>2 DEF BootPc
<1>13. CASE AllocateDone
  <2> DEFINE new == [start |-> start, len |-> count]
  <2>1. /\ pc = "occupy" /\ pc' \in {"ready", "panicked"} /\ FreeFrames' = FreeFrames
        /\ runs' = runs \cup {new} /\ leaked' = leaked
    BY <1>13, FreeUnchanged DEF AllocateDone
  <2>2. Extent(new.start, new.len) = InTransit
    BY <2>1 DEF InTransit
  <2> HIDE DEF new
  <2>3. Held \cup InTransit \subseteq Held'
    BY <2>1, <2>2 DEF Held
  <2>4. Accounted \subseteq Accounted'
    BY <2>1, <2>3
  <2> QED
    BY <1>5, <2>1, <2>4 DEF BootPc
<1>14. CASE CheckWord \/ CheckDone
  <2>1. /\ pc = "check" /\ pc' \in {"check", "release", "panicked"} /\ FreeFrames' = FreeFrames
        /\ runs' = runs /\ leaked' = leaked /\ start' = start /\ count' = count
    BY <1>14, FreeUnchanged, Zenon DEF CheckWord, CheckDone, clients, call
  <2>2. CASE pc' = "panicked"
    BY <1>4, <2>2 DEF BootPc
  <2>3. CASE pc' # "panicked"
    <3>1. Accounted \subseteq Accounted'
      BY <2>1, <2>3 DEF InTransit, Held
    <3> QED
      BY <1>5, <2>1, <3>1 DEF BootPc
  <2> QED
    BY <2>2, <2>3, Zenon
<1>15. CASE FreeDone
  <2>1. /\ pc = "release" /\ remaining = 0 /\ pc' = "ready" /\ FreeFrames' = FreeFrames
        /\ runs' = runs /\ leaked' = leaked
    BY <1>15, FreeUnchanged DEF FreeDone, clients
  <2>2. InTransit \subseteq FreeFrames
    BY <2>1, HandledAll DEF WalkProgress, Walking, InTransit
  <2>3. Accounted \subseteq Accounted'
    BY <2>1, <2>2 DEF Held
  <2> QED
    BY <1>5, <2>1, <2>3 DEF BootPc
<1>16. CASE \E run \in runs : Free(run) \/ Drop(run)
  <2> PICK run \in runs : Free(run) \/ Drop(run)
    BY <1>16
  <2>1. /\ pc = "ready" /\ pc' \in {"ready", "check"} /\ FreeFrames' = FreeFrames
        /\ runs' = runs \ {run} /\ leaked \subseteq leaked'
        /\ Extent(run.start, run.len) \subseteq InTransit' \cup leaked'
    BY FreeUnchanged DEF Free, Drop, InTransit
  <2>2. Held \subseteq Held' \cup Extent(run.start, run.len) /\ InTransit = {}
    BY <2>1 DEF Held, InTransit
  <2>3. Accounted \subseteq Accounted'
    BY <2>1, <2>2
  <2> QED
    BY <1>5, <2>1, <2>3 DEF BootPc
<1>17. CASE UNCHANGED vars
  <2>1. /\ pc' = pc /\ next_region' = next_region /\ start' = start /\ count' = count
        /\ FreeFrames' = FreeFrames /\ Accounted' = Accounted /\ Booted' = Booted
    BY <1>17 DEF vars, world, call, clients, FreeFrames, is_free, InTransit, Held
  <2> HIDE DEF Owed, Accounted, Booted
  <2> QED
    BY <1>3, <1>4, <2>1, Zenon
<1> QED
  BY <1>6, <1>7, <1>8, <1>9, <1>10, <1>11, <1>12, <1>13, <1>14, <1>15, <1>16, <1>17
  DEF Next, Step, Client

(* init's overflow check fires on the regions that reach 4 GiB, unless     *)
(* their size wraps to zero.                                               *)
LEMMA OverflowRegion ==
    ASSUME NEW region \in Region
    PROVE  Overflowing(region) <=> ~skips(region) /\ DEV_PROFILE /\ region.base + region.length >= LIMIT
<1> SUFFICES ASSUME ~skips(region)
             PROVE  end_byte(region) >= LIMIT <=> region.base + region.length >= LIMIT
    BY Zenon DEF Overflowing, overflows
<1>1. region.base \in Nat /\ region.length \in Nat /\ region.base <= U64_MAX
  BY LimitAssumption DEF Region, U64
<1>2. bytes_of(region) # 0
  BY DEF skips
<1>3. addressable_bytes(region) \in Nat
  BY <1>1, LimitAssumption DEF addressable_bytes, clamped_end, saturating_add
<1>4. region.base < LIMIT
  <2>1. usize(0) = 0
    BY LimitFrames, LimitAssumption
  <2> QED
    BY <1>1, <1>2, <2>1, LimitAssumption DEF bytes_of, addressable_bytes
<1>5. base_of(region) = region.base
  BY <1>1, <1>4, LimitFrames, LimitAssumption DEF base_of
<1>6. addressable_bytes(region) < LIMIT
  <2>1. usize(LIMIT) = 0
    BY LimitAssumption DEF usize
  <2>2. addressable_bytes(region) <= LIMIT
    BY <1>1, <1>4, LimitAssumption DEF addressable_bytes, clamped_end, saturating_add
  <2> QED
    BY <1>2, <1>3, <2>1, <2>2, LimitAssumption DEF bytes_of
<1>7. bytes_of(region) = addressable_bytes(region)
  BY <1>3, <1>6, LimitFrames, LimitAssumption DEF bytes_of
<1> QED
  BY <1>1, <1>4, <1>5, <1>7, LimitAssumption
  DEF end_byte, addressable_bytes, clamped_end, saturating_add

(* Nothing but init's overflow check panics.                               *)
LEMMA PanicStep ==
    ASSUME Shape, Ownership, Next, pc' = "panicked"
    PROVE  pc = "panicked" \/ InitRegion
<1>1. CASE SetFreeWord
  BY <1>1, FreedWord DEF SetFreeWord
<1>2. CASE SetOccupiedWord
  BY <1>2, OccupiedWord, Zenon DEF SetOccupiedWord
<1>3. CASE CheckWord
  BY <1>3, CheckedWord, Zenon DEF Ownership, CheckWord
<1>4. CASE AllocateDone
  BY <1>4, Cover DEF AllocateDone, debug_assert, Shape, TypeOK, WalkShape, Walking
<1> QED
  BY <1>1, <1>2, <1>3, <1>4, Zenon DEF Next, Step, Client, MarkFreeDone, ReserveLow,
     ReserveKernel, InitDone, ScanFrame, ScanFallback, ScanMiss, CheckDone, FreeDone,
     Allocate, Free, Drop

(* init stops at the first region that overflows.                          *)
LEMMA CheckingStep ==
    ASSUME Shape, Ownership, Delivery, Checking, [Next]_vars
    PROVE  Checking'
<1> DEFINE Bad(i) == Overflowing(mmap[i])
<1>0. Len(mmap) \in Nat /\ next_region \in 1 .. Len(mmap) + 1
  BY MapShape, Zenon
<1>1. mmap' = mmap
  BY MapKept, Zenon
<1>2. /\ pc \in BootPc => \A i \in 1 .. next_region - 1 : ~Bad(i)
      /\ pc = "publish" => ~Bad(next_region)
      /\ pc = "panicked" => \E i \in 1 .. Len(mmap) : Bad(i)
      /\ pc \notin BootPc \cup {"panicked"} => \A i \in 1 .. Len(mmap) : ~Bad(i)
  BY Zenon DEF Checking
<1>3. ASSUME /\ pc' \in BootPc => \A i \in 1 .. next_region' - 1 : ~Bad(i)
             /\ pc' = "publish" => ~Bad(next_region')
             /\ pc' = "panicked" => \E i \in 1 .. Len(mmap) : Bad(i)
             /\ pc' \notin BootPc \cup {"panicked"} => \A i \in 1 .. Len(mmap) : ~Bad(i)
      PROVE  Checking'
  <2>1. \A i : Bad(i)' <=> Overflowing(mmap'[i])
    OBVIOUS
  <2>2. \A r : Overflowing(r)' <=> Overflowing(r)
    OBVIOUS
  <2> QED
    BY <1>1, <1>3, Zenon DEF Checking
<1> HIDE DEF Bad
<1>4. CASE InitRegion
  <2> DEFINE region == mmap[next_region]
  <2>1. pc = "region" /\ next_region \in 1 .. Len(mmap)
    BY <1>0, <1>4 DEF InitRegion
  <2>2. \/ pc' = "region" /\ next_region' = next_region + 1 /\ ~Bad(next_region)
        \/ pc' = "publish" /\ next_region' = next_region /\ ~Bad(next_region)
        \/ pc' = "panicked" /\ Bad(next_region)
    BY <1>4, <2>1 DEF InitRegion, Bad, Overflowing
  <2>3. \A i \in 1 .. next_region : i = next_region \/ i \in 1 .. next_region - 1
    BY <2>1
  <2>4. next_region + 1 - 1 = next_region
    BY <2>1
  <2> QED
    BY <1>2, <1>3, <2>1, <2>2, <2>3, <2>4 DEF BootPc
<1>5. CASE MarkFreeDone
  <2>1. pc = "publish" /\ pc' = "region" /\ next_region' = next_region + 1
    BY <1>5 DEF MarkFreeDone
  <2>2. \A i \in 1 .. next_region' - 1 : i = next_region \/ i \in 1 .. next_region - 1
    BY <1>0, <2>1
  <2> QED
    BY <1>2, <1>3, <2>1, <2>2 DEF BootPc
<1>6. CASE InitDone
  <2>1. pc = "reserve_kernel" /\ pc' = "ready" /\ next_region = Len(mmap) + 1
    BY <1>6 DEF InitDone, Delivery
  <2>2. \A i \in 1 .. Len(mmap) : ~Bad(i)
    BY <1>0, <1>2, <2>1 DEF BootPc
  <2> QED
    BY <1>3, <2>1, <2>2 DEF BootPc
<1>7. CASE ReserveLow \/ ReserveKernel
  <2>1. pc \in BootPc /\ pc' \in {"reserve_low", "reserve_kernel"} /\ next_region' = next_region
    BY <1>7 DEF ReserveLow, ReserveKernel, world, BootPc
  <2> QED
    BY <1>2, <1>3, <2>1 DEF BootPc
<1>8. CASE SetFreeWord \/ SetOccupiedWord \/ UNCHANGED vars
  <2>1. pc' = pc /\ next_region' = next_region
    BY <1>8, FreedWord, OccupiedWord DEF SetFreeWord, SetOccupiedWord, vars, world
  <2> QED
    BY <1>2, <1>3, <2>1, Zenon
<1>9. CASE ScanFrame \/ ScanFallback \/ ScanMiss \/ AllocateDone \/ CheckWord \/ CheckDone
           \/ FreeDone \/ Client
  <2>1. pc \notin BootPc \cup {"panicked"} /\ pc' \notin BootPc /\ ~InitRegion /\ Next
    BY <1>9, Zenon DEF ScanFrame, ScanFallback, ScanMiss, AllocateDone, CheckWord, CheckDone,
       FreeDone, Client, Allocate, Free, Drop, BootPc, InitRegion, Next, Step
  <2>2. pc' # "panicked"
    BY <2>1, PanicStep, Zenon
  <2> QED
    BY <1>2, <1>3, <2>1, <2>2 DEF BootPc
<1> QED
  BY <1>4, <1>5, <1>6, <1>7, <1>8, <1>9 DEF Next, Step

-----------------------------------------------------------------------------
(* The theorems.                                                           *)

(* The inductive invariant holds of a fresh allocator.                     *)
LEMMA IInvInit == Init => IInv
<1> SUFFICES ASSUME Init PROVE IInv
  OBVIOUS
<1>1. Shape
  BY ShapeInit
<1>2. FreeFrames = {}
  BY Cover DEF Init, FreeFrames, is_free
<1>3. Held = {} /\ InTransit = {} /\ pc = "region" /\ runs = {} /\ leaked = {} /\ next_region = 1
  BY DEF Init, Held, InTransit
<1>4. 1 .. next_region - 1 = {}
  BY <1>3
<1>5. Delivery /\ Checking
  BY <1>3, <1>4 DEF Delivery, NoFrameLost, Checking, BootPc
<1> QED
  BY <1>1, <1>2, <1>3, <1>5, Zenon DEF IInv, WalkProgress, ScanProgress, Ownership, ExclusiveOwnership,
     Reservation, ReservedNeverIssued, Usability, Scanning, BootPc

(* Every step of the allocator keeps the inductive invariant.              *)
LEMMA IInvStep == IInv /\ [Next]_vars => IInv'
BY ShapeStep, WalkProgressStep, ScanProgressStep, OwnershipStep, ReservationStep, UsabilityStep,
   DeliveryStep, CheckingStep DEF IInv

(* The inductive invariant holds throughout.                               *)
LEMMA Invariance == Spec => []IInv
BY IInvInit, IInvStep, PTL DEF Spec

(* No frame ever has two owners, and no owned frame is marked free.        *)
THEOREM Ownership_Safe == Spec => []ExclusiveOwnership
<1>1. IInv => ExclusiveOwnership
  BY DEF IInv, Ownership
<1> QED
  BY <1>1, Invariance, PTL

(* The frames of the GDT and of the kernel image are never issued.         *)
THEOREM Reserved_Safe == Spec => []ReservedNeverIssued
<1>1. IInv => ReservedNeverIssued
  BY DEF IInv, Reservation
<1> QED
  BY <1>1, Invariance, PTL

(* Only frames lying wholly in available memory are ever issued, whatever  *)
(* the alignment and the 64-bit extent of the regions of the memory map.   *)
THEOREM Usable_Only == Spec => []OnlyUsableIssued
<1>1. Deliverable \subseteq FullyAvailable
  BY DEF Deliverable, Promised, FullyAvailable
<1>2. IInv => OnlyUsableIssued
  BY <1>1 DEF IInv, Usability, OnlyUsableIssued
<1> QED
  BY <1>2, Invariance, PTL

(* Every usable frame of a region ending below 4 GiB is free, or in use,   *)
(* or was leaked by its owner: allocate and free lose none.                *)
THEOREM No_Frame_Lost == Spec => []NoFrameLost
<1>1. IInv => NoFrameLost
  BY DEF IInv, Delivery
<1> QED
  BY <1>1, Invariance, PTL

(* Nothing but the overflow check of init can panic: not the double-free   *)
(* check, not a bitmap access, not the assertions of FrameRun::new.        *)
THEOREM Panic_Free == Spec => PanicsOnlyOnOverflow
<1> DEFINE Overflow == pc' = "panicked" =>
               /\ pc = "region" /\ DEV_PROFILE
               /\ mmap[next_region].base + mmap[next_region].length >= LIMIT
<1>1. IInv /\ [Next]_vars => [Overflow]_vars
  <2> SUFFICES ASSUME IInv, Next, pc' = "panicked" PROVE Overflow
    OBVIOUS
  <2>1. pc # "panicked"
    BY Zenon DEF Next, Step, Client, InitRegion, MarkFreeDone, ReserveLow, ReserveKernel, InitDone,
       SetFreeWord, SetOccupiedWord, ScanFrame, ScanFallback, ScanMiss, AllocateDone, CheckWord,
       CheckDone, FreeDone, Allocate, Free, Drop
  <2>2. InitRegion
    BY <2>1, PanicStep, Zenon DEF IInv
  <2>3. pc = "region" /\ Overflowing(mmap[next_region])
    BY <2>2 DEF InitRegion, Overflowing
  <2>4. mmap[next_region] \in Region
    BY <2>2, MapShape DEF IInv, InitRegion
  <2> QED
    BY <2>3, <2>4, OverflowRegion
<1> QED
  BY <1>1, Invariance, PTL DEF Spec, PanicsOnlyOnOverflow

(* Each step of the code is a step of the pool or leaves it unchanged.     *)
LEMMA RefinementStep == IInv /\ [Next]_vars => [Pool!Next]_Pool!vars
<1> SUFFICES ASSUME IInv, [Next]_vars, Pool!vars' # Pool!vars PROVE Pool!Next
  OBVIOUS
<1> USE DEF BootPc
<1>0. Shape /\ WalkProgress /\ ScanProgress /\ Ownership
  BY DEF IInv
<1>1. /\ FRAME_COUNT \in Nat /\ Counts \subseteq Nat \ {0}
      /\ start \in Nat /\ count \in Nat /\ runs \subseteq FrameRun
  <2>1. start \in 0 .. FRAME_COUNT /\ count \in 0 .. FRAME_COUNT /\ runs \subseteq FrameRun
    BY <1>0 DEF Shape, TypeOK
  <2> QED
    BY <2>1, Cover, InputAssumption
<1>2. ~(/\ PoolPhase' = PoolPhase /\ PoolFree' = PoolFree /\ PoolRuns' = PoolRuns
        /\ leaked' = leaked /\ reply' = reply)
  BY DEF Pool!vars
<1>3. /\ \A f, l : Pool!Extent(f, l) = Extent(f, l)
      /\ Pool!Frame = Frame /\ FreeFrames \subseteq Frame /\ FreeFrames' \subseteq Frame
  BY DEF Pool!Extent, Extent, Pool!Frame, Frame, FreeFrames
<1>4. CASE InitRegion \/ MarkFreeDone \/ ReserveLow \/ ReserveKernel
  <2>1. /\ pc \in BootPc /\ pc' \in BootPc \cup {"panicked"}
        /\ runs' = runs /\ leaked' = leaked /\ reply' = reply
    BY <1>4 DEF InitRegion, MarkFreeDone, ReserveLow, ReserveKernel, clients
  <2> QED
    BY <1>2, <2>1, Zenon DEF PoolPhase, PoolFree, PoolRuns, Pool!Next, Pool!Halt
<1>5. CASE InitDone
  <2>1. /\ pc = "reserve_kernel" /\ pc' = "ready"
        /\ runs' = runs /\ leaked' = leaked /\ reply' = reply
    BY <1>5, Zenon DEF InitDone, clients
  <2> QED
    BY <1>3, <2>1 DEF PoolPhase, PoolFree, PoolRuns, Pool!Next, Pool!Publish
<1>6. CASE SetFreeWord
  <2>1. /\ pc' = pc /\ FreeFrames' = FreeFrames \cup NextFrames /\ pc \in {"publish", "release"}
        /\ NextFrames \subseteq Extent(start, count)
        /\ start' = start /\ count' = count /\ runs' = runs /\ leaked' = leaked /\ reply' = reply
    BY <1>0, <1>6, FreedWord, HandledAll DEF SetFreeWord, Walking, call, clients
  <2>2. PoolFree' = PoolFree
    BY <2>1, Zenon DEF PoolFree
  <2> QED
    BY <1>2, <2>1, <2>2, Zenon DEF PoolPhase, PoolRuns
<1>7. CASE SetOccupiedWord
  <2>1. /\ pc' = pc /\ FreeFrames' = FreeFrames \ NextFrames
        /\ pc \in {"reserve_low", "reserve_kernel", "occupy"}
        /\ NextFrames \subseteq Extent(start, count)
        /\ start' = start /\ count' = count /\ runs' = runs /\ leaked' = leaked /\ reply' = reply
    BY <1>0, <1>7, OccupiedWord, HandledAll DEF SetOccupiedWord, Walking, call, clients
  <2>2. PoolFree' = PoolFree
    BY <2>1 DEF PoolFree
  <2> QED
    BY <1>2, <2>1, <2>2, Zenon DEF PoolPhase, PoolRuns
<1>8. CASE \E n \in Counts : Allocate(n)
  <2> PICK n \in Counts : Allocate(n)
    BY <1>8
  <2>1. pc = "ready" /\ runs' = runs /\ leaked' = leaked /\ FreeFrames' = FreeFrames
    BY FreeUnchanged DEF Allocate
  <2>2. CASE n > FRAME_COUNT
    <3>1. pc' = "ready" /\ reply' = [count |-> n, start |-> NONE]
      BY <2>1, <2>2 DEF Allocate
    <3>2. \A s \in Frame : ~(s + n <= FRAME_COUNT)
      BY <1>1, <2>2 DEF Frame
    <3>3. Pool!Refuse(n)
      BY <1>3, <2>1, <3>1, <3>2
      DEF PoolPhase, PoolFree, PoolRuns, Pool!Refuse, Pool!Fits
    <3> QED
      BY <3>3 DEF Pool!Next
  <2>3. CASE ~(n > FRAME_COUNT)
    BY <1>2, <2>1, <2>3, Zenon DEF Allocate, PoolPhase, PoolFree, PoolRuns
  <2> QED
    BY <2>2, <2>3
<1>9. CASE ScanFrame
  <2>1. /\ pc \in Scanning /\ pc' \in {"occupy", "scan_hint", "scan_all"}
        /\ FreeFrames' = FreeFrames /\ runs' = runs /\ leaked' = leaked /\ reply' = reply
    BY <1>9, FreeUnchanged DEF ScanFrame, clients, Scanning
  <2>2. pc' = "occupy" => Extent(start', count') \subseteq FreeFrames
    BY <1>0, <1>9, ScanFrameProgress
  <2>3. PoolFree' = PoolFree
    BY <2>1, <2>2 DEF PoolFree, Scanning
  <2> QED
    BY <1>2, <2>1, <2>3 DEF PoolPhase, PoolRuns, Scanning
<1>10. CASE ScanFallback
  BY <1>2, <1>10, FreeUnchanged DEF ScanFallback, clients, PoolPhase, PoolFree, PoolRuns
<1>11. CASE ScanMiss
  <2>1. /\ pc = "scan_all" /\ pc' = "ready" /\ frame >= FRAME_COUNT
        /\ FreeFrames' = FreeFrames /\ runs' = runs /\ leaked' = leaked
        /\ reply' = [count |-> count, start |-> NONE]
    BY <1>11, FreeUnchanged, Zenon DEF ScanMiss
  <2>2. /\ count \in Counts /\ run_len < count /\ run_len \in Nat /\ frame = FRAME_COUNT
        /\ \A s \in Frame : Extent(s, count) \subseteq FreeFrames => s >= frame - run_len
    BY <1>0, <1>1, <2>1 DEF Shape, TypeOK, ScanShape, ScanProgress, Scanning
  <2>3. \A s \in Frame : ~(s + count <= FRAME_COUNT /\ Extent(s, count) \subseteq FreeFrames)
    BY <1>1, <2>2 DEF Frame
  <2>4. Pool!Refuse(count)
    BY <1>3, <2>1, <2>3 DEF PoolPhase, PoolFree, PoolRuns, Pool!Refuse, Pool!Fits
  <2> QED
    BY <2>2, <2>4 DEF Pool!Next
<1>12. CASE AllocateDone
  <2>1. /\ pc = "occupy" /\ remaining = 0
        /\ FreeFrames' = FreeFrames /\ leaked' = leaked
        /\ runs' = runs \cup {[start |-> start, len |-> count]}
        /\ reply' = [count |-> count, start |-> start]
    BY <1>12, FreeUnchanged, Zenon DEF AllocateDone
  <2>2. /\ count \in Counts /\ start + count <= FRAME_COUNT /\ start \in Frame
        /\ debug_assert
    BY <1>0, <1>1, <2>1 DEF Shape, WalkShape, Walking, Frame, debug_assert
  <2>3. pc' = "ready"
    BY <1>12, <2>2, Zenon DEF AllocateDone
  <2>4. Extent(start, count) \cap FreeFrames = {}
    BY <1>0, <2>1, HandledAll DEF WalkProgress, Walking
  <2>5. Pool!Allocate(count, start)
    BY <1>3, <2>1, <2>2, <2>3, <2>4
    DEF PoolPhase, PoolFree, PoolRuns, Pool!Allocate, Pool!Fits
  <2> QED
    BY <1>3, <2>2, <2>5, Zenon DEF Pool!Next
<1>13. CASE \E run \in runs : Free(run)
  <2> PICK run \in runs : Free(run)
    BY <1>13
  <2>1. /\ pc = "ready" /\ pc' = "check" /\ FreeFrames' = FreeFrames
        /\ runs' = runs \ {run} /\ start' = run.start /\ count' = run.len
        /\ leaked' = leaked /\ reply' = reply
    BY FreeUnchanged DEF Free
  <2>2. run = [start |-> start', len |-> count']
    BY <1>1, <2>1, Zenon DEF FrameRun
  <2>3. PoolRuns' = PoolRuns
    BY <2>1, <2>2 DEF PoolRuns
  <2> QED
    BY <1>2, <2>1, <2>3 DEF PoolPhase, PoolFree
<1>14. CASE CheckWord
  <2>1. pc = "check" /\ pc' = pc
    BY <1>0, <1>14, CheckedWord, Zenon DEF CheckWord, Ownership
  <2> QED
    BY <1>2, <1>14, <2>1, FreeUnchanged, Zenon
    DEF CheckWord, clients, call, PoolPhase, PoolFree, PoolRuns
<1>15. CASE CheckDone
  <2>1. /\ pc = "check" /\ pc' = "release" /\ FreeFrames' = FreeFrames
        /\ start' = start /\ count' = count /\ runs' = runs /\ leaked' = leaked /\ reply' = reply
    BY <1>15, FreeUnchanged DEF CheckDone, clients, call
  <2>2. Extent(start, count) \cap FreeFrames = {}
    BY <1>0, <2>1 DEF Ownership, InTransit
  <2>3. PoolFree' = PoolFree
    BY <2>1, <2>2 DEF PoolFree
  <2> QED
    BY <1>2, <2>1, <2>3 DEF PoolPhase, PoolRuns
<1>16. CASE FreeDone
  <2> DEFINE run == [start |-> start, len |-> count]
  <2>1. /\ pc = "release" /\ remaining = 0 /\ pc' = "ready" /\ FreeFrames' = FreeFrames
        /\ runs' = runs /\ leaked' = leaked /\ reply' = reply
    BY <1>16, FreeUnchanged DEF FreeDone, clients
  <2>2. Extent(start, count) \subseteq FreeFrames
    BY <1>0, <2>1, HandledAll, Zenon DEF WalkProgress, Walking
  <2>3. start \in Extent(start, count) /\ run.start = start /\ run.len = count
    BY <1>0, <1>1, <2>1 DEF Shape, WalkShape, Walking, Extent
  <2>4. PoolRuns = runs \cup {run} /\ PoolRuns' = runs
    BY <2>1 DEF PoolRuns
  <2>5. run \notin runs
    <3>1. Extent(start, count) \cap Held = {}
      BY <1>0, <2>1 DEF Ownership, ExclusiveOwnership, InTransit
    <3> HIDE DEF run
    <3>2. run \in runs => Extent(start, count) \subseteq Held
      BY <2>3 DEF Held
    <3> QED
      BY <2>3, <3>1, <3>2, Zenon
  <2> HIDE DEF run
  <2>6. PoolRuns' = PoolRuns \ {run}
    BY <2>4, <2>5
  <2>7. PoolFree = FreeFrames \ Extent(start, count) /\ PoolFree' = FreeFrames
    BY <2>1 DEF PoolFree
  <2>8. PoolFree' = PoolFree \cup Extent(run.start, run.len)
    BY <2>2, <2>3, <2>7, Zenon
  <2>9. Pool!Free(run)
    BY <1>3, <2>1, <2>6, <2>8, Zenon DEF Pool!Free, PoolPhase
  <2> QED
    BY <2>4, <2>9 DEF Pool!Next
<1>17. CASE \E run \in runs : Drop(run)
  <2> PICK run \in runs : Drop(run)
    BY <1>17
  <2>1. Pool!Leak(run)
    BY <1>3, FreeUnchanged DEF Drop, Pool!Leak, PoolPhase, PoolFree, PoolRuns
  <2> QED
    BY <2>1 DEF Pool!Next, PoolRuns, Drop
<1>18. CASE UNCHANGED vars
  BY <1>2, <1>18, FreeUnchanged DEF vars, call, clients, PoolPhase, PoolFree, PoolRuns
<1> QED
  BY <1>4, <1>5, <1>6, <1>7, <1>8, <1>9, <1>10, <1>11, <1>12, <1>13, <1>14, <1>15, <1>16,
     <1>17, <1>18 DEF Next, Step, Client

(* Every behaviour of the bitmap allocator is one of the abstract pool: an *)
(* operation takes effect when it returns, and an allocation is refused    *)
(* only when no gap is large enough.                                       *)
THEOREM Refinement == Spec => ImplementsPool
<1>1. Init => Pool!Init
  BY DEF Init, Pool!Init, PoolPhase, PoolFree, PoolRuns, BootPc
<1> QED
  BY <1>1, RefinementStep, Invariance, PTL DEF Spec, ImplementsPool, Pool!Spec

-----------------------------------------------------------------------------
(* The search hint when callers only ask for single frames.                *)

(* Pulling the hint back to the word of a range covers the whole range.    *)
LEMMA HintPulled ==
    ASSUME Shape, \A f \in FreeFrames \ Extent(start, count) : f >= search_hint * WORD_BITS
    PROVE  \A f \in FreeFrames : f >= lesser(search_hint, start \div WORD_BITS) * WORD_BITS
<1> TAKE f \in FreeFrames
<1>1. f \in Nat /\ search_hint \in Nat /\ start \in Nat /\ count \in Nat
  BY Cover, LayoutAssumption DEF FreeFrames, Frame, Shape, TypeOK
<1> DEFINE w == start \div WORD_BITS
<1>2. w \in Nat /\ w * WORD_BITS <= start
  BY <1>1, DivMod, WordBitsAssumption DEF Bit
<1> HIDE DEF w
<1>3. /\ search_hint <= w => search_hint * WORD_BITS <= w * WORD_BITS
      /\ w <= search_hint => w * WORD_BITS <= search_hint * WORD_BITS
      /\ w * WORD_BITS \in Nat /\ search_hint * WORD_BITS \in Nat
  BY <1>1, <1>2, WordBitsAssumption
<1>4. CASE f \in Extent(start, count)
  <2>1. f >= w * WORD_BITS
    BY <1>1, <1>2, <1>3, <1>4 DEF Extent
  <2> QED
    BY <1>1, <1>2, <1>3, <2>1 DEF lesser, w
<1>5. CASE f \notin Extent(start, count)
  <2>1. f >= search_hint * WORD_BITS
    BY <1>5
  <2> QED
    BY <1>1, <1>2, <1>3, <2>1 DEF lesser, w
<1> QED
  BY <1>4, <1>5

(* With single-frame requests no free frame lies below the hint's word.    *)
LEMMA HintStep ==
    ASSUME Counts = {1}, Shape, WalkProgress, HintInv, [Next]_vars
    PROVE  HintInv'
<1>0. \A f \in FreeFrames : f \in Nat /\ f < FRAME_COUNT
  BY Cover DEF FreeFrames, Frame
<1>1. CASE InitRegion
  <2>1. FreeFrames' = FreeFrames /\ search_hint' = search_hint /\ pc = "region"
        /\ pc' \in {"region", "publish", "panicked"}
    BY <1>1, FreeUnchanged, Zenon DEF InitRegion
  <2> QED
    BY <2>1, Zenon DEF HintInv
<1>2. CASE MarkFreeDone \/ FreeDone
  <2>1. /\ FreeFrames' = FreeFrames /\ search_hint' = lesser(search_hint, start \div WORD_BITS)
        /\ pc \in {"publish", "release"} /\ pc' \in {"region", "ready"}
    BY <1>2, FreeUnchanged DEF MarkFreeDone, FreeDone
  <2>2. \A f \in FreeFrames : f >= lesser(search_hint, start \div WORD_BITS) * WORD_BITS
    BY <2>1, HintPulled DEF HintInv
  <2> QED
    BY <2>1, <2>2 DEF HintInv
<1>3. CASE ReserveLow \/ ReserveKernel \/ InitDone \/ CheckWord
           \/ \E run \in runs : Free(run) \/ Drop(run)
  <2>1. /\ FreeFrames' = FreeFrames /\ search_hint' = search_hint
        /\ pc \in {"region", "reserve_low", "reserve_kernel", "ready", "check"}
        /\ pc' \in {"reserve_low", "reserve_kernel", "ready", "check", "panicked"}
    BY <1>3, FreeUnchanged, Zenon DEF ReserveLow, ReserveKernel, InitDone, CheckWord, Free, Drop
  <2>2. \A f \in FreeFrames : f >= search_hint * WORD_BITS
    BY <2>1, Zenon DEF HintInv
  <2>3. pc' \notin {"publish", "release", "scan_hint", "scan_all", "occupy"}
    BY <2>1
  <2> QED
    BY <2>1, <2>2, <2>3, Zenon DEF HintInv
<1>4. CASE CheckDone
  <2>1. /\ FreeFrames' = FreeFrames /\ search_hint' = search_hint /\ pc = "check"
        /\ pc' = "release"
    BY <1>4, FreeUnchanged DEF CheckDone
  <2> QED
    BY <2>1 DEF HintInv
<1>5. CASE SetFreeWord
  <2>1. /\ pc' = pc /\ FreeFrames' = FreeFrames \cup NextFrames /\ search_hint' = search_hint
        /\ start' = start /\ count' = count /\ pc \in {"publish", "release"} /\ remaining > 0
    BY <1>5, FreedWord DEF SetFreeWord, call
  <2>2. NextFrames \subseteq Extent(start, count)
    BY <2>1, HandledAll DEF Walking
  <2> QED
    BY <2>1, <2>2 DEF HintInv
<1>6. CASE SetOccupiedWord
  <2>1. /\ pc' = pc /\ FreeFrames' \subseteq FreeFrames /\ search_hint' = search_hint
        /\ start' = start /\ pc \in {"reserve_low", "reserve_kernel", "occupy"}
    BY <1>6, OccupiedWord DEF SetOccupiedWord, call
  <2> QED
    BY <2>1 DEF HintInv
<1>7. CASE \E n \in Counts : Allocate(n)
  <2>1. /\ FreeFrames' = FreeFrames /\ search_hint' = search_hint /\ pc = "ready"
        /\ pc' = "ready" \/ (pc' = "scan_hint" /\ frame' = search_hint * WORD_BITS)
    BY <1>7, FreeUnchanged DEF Allocate, begin_scan
  <2> QED
    BY <2>1, Zenon DEF HintInv
<1>8. CASE ScanFrame
  <2>1. /\ pc \in Scanning /\ FreeFrames' = FreeFrames /\ frame < FRAME_COUNT
        /\ frame \in Nat /\ frame \in Frame /\ run_len = 0 /\ count = 1
    BY <1>8, FreeUnchanged, Cover DEF ScanFrame, Shape, TypeOK, ScanShape, Scanning, Frame
  <2>2. CASE frame \in FreeFrames
    <3>1. pc' = "occupy" /\ start' = frame
      BY <1>8, <2>1, <2>2 DEF ScanFrame, FreeFrames
    <3> QED
      BY <2>1, <2>2, <3>1 DEF HintInv, Scanning
  <2>3. CASE frame \notin FreeFrames
    <3>1. pc' = pc /\ frame' = frame + 1
      BY <1>8, <2>1, <2>3 DEF ScanFrame, FreeFrames
    <3> QED
      BY <1>0, <2>1, <2>3, <3>1 DEF HintInv, Scanning
  <2> QED
    BY <2>2, <2>3, Zenon
<1>9. CASE ScanFallback
  <2>1. /\ FreeFrames' = FreeFrames /\ pc = "scan_hint" /\ pc' = "scan_all"
        /\ frame >= FRAME_COUNT /\ frame \in 0 .. FRAME_COUNT
    BY <1>9, FreeUnchanged, Zenon DEF ScanFallback, Shape, TypeOK
  <2>2. FreeFrames = {}
    BY <1>0, <2>1, Cover DEF HintInv
  <2> QED
    BY <2>1, <2>2, Zenon DEF HintInv
<1>10. CASE ScanMiss
  BY <1>10, FreeUnchanged, Zenon DEF ScanMiss, HintInv
<1>11. CASE AllocateDone
  <2>1. /\ FreeFrames' = FreeFrames /\ pc = "occupy" /\ pc' \in {"ready", "panicked"}
        /\ remaining = 0 /\ search_hint' = (start + count) \div WORD_BITS
    BY <1>11, FreeUnchanged, Zenon DEF AllocateDone
  <2>2. start \in Nat /\ count = 1
    <3>1. start \in 0 .. FRAME_COUNT /\ count \in Counts
      BY <2>1, Zenon DEF Shape, TypeOK, WalkShape, Walking
    <3> QED
      BY <3>1, Cover
  <2>3. start \notin FreeFrames
    <3>1. Extent(start, count) \cap FreeFrames = {}
      BY <2>1, HandledAll DEF WalkProgress, Walking
    <3> QED
      BY <2>2, <3>1 DEF Extent
  <2>4. search_hint' * WORD_BITS <= start + 1 /\ search_hint' * WORD_BITS \in Nat
    <3>1. (start + 1) \div WORD_BITS \in Nat
          /\ start + 1 = ((start + 1) \div WORD_BITS) * WORD_BITS + ((start + 1) % WORD_BITS)
          /\ (start + 1) % WORD_BITS \in Nat
      BY <2>2, DivMod, WordBitsAssumption DEF Bit
    <3> QED
      BY <2>1, <2>2, <3>1, WordBitsAssumption
  <2>5. \A f \in FreeFrames : f >= start
    BY <2>1 DEF HintInv
  <2> QED
    BY <1>0, <2>1, <2>2, <2>3, <2>4, <2>5 DEF HintInv
<1>12. CASE UNCHANGED vars
  BY <1>12, FreeUnchanged DEF vars, call, scan, HintInv
<1> QED
  BY <1>1, <1>2, <1>3, <1>4, <1>5, <1>6, <1>7, <1>8, <1>9, <1>10, <1>11, <1>12
  DEF Next, Step, Client

(* With single-frame requests each allocation returns the lowest free      *)
(* frame: the hint never hides one.                                        *)
THEOREM Lowest_First ==
    ASSUME Counts = {1}
    PROVE  Spec => LowestFrameFirst
<1>1. Init => HintInv
  BY Cover DEF Init, HintInv, FreeFrames, is_free
<1>2. IInv /\ HintInv /\ [Next]_vars => HintInv'
  BY HintStep DEF IInv
<1>3. IInv /\ HintInv /\ HintInv' /\ [Next]_vars =>
        [pc = "scan_hint" /\ pc' = "occupy" => \A f \in FreeFrames : start' <= f]_vars
  <2> SUFFICES ASSUME IInv, HintInv', Next, pc = "scan_hint", pc' = "occupy"
               PROVE  \A f \in FreeFrames : start' <= f
    BY Zenon
  <2>1. ScanFrame
    BY Zenon DEF Next, Step, Client, InitRegion, MarkFreeDone, ReserveLow, ReserveKernel, InitDone,
        SetFreeWord, SetOccupiedWord, ScanFallback, ScanMiss, AllocateDone, CheckWord,
        CheckDone, FreeDone, Allocate, Free, Drop
  <2>2. FreeFrames' = FreeFrames /\ \A f \in FreeFrames' : f >= start'
    BY <2>1, FreeUnchanged, Zenon DEF ScanFrame, HintInv
  <2>3. start' \in Nat /\ \A f \in FreeFrames : f \in Nat
    <3>1. Shape'
      BY ShapeStep DEF IInv
    <3> QED
      BY <3>1, Cover DEF Shape, TypeOK, FreeFrames, Frame
  <2> QED
    BY <2>2, <2>3
<1> QED
  BY <1>1, <1>2, <1>3, Invariance, PTL DEF Spec, LowestFrameFirst
=============================================================================
