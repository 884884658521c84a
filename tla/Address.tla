------------------------------ MODULE Address ------------------------------
(***************************************************************************)
(* Byte addresses and the frames they fall in (src/memory/address.rs).     *)
(* A PhysAddr, VirtAddr, FrameNumber or PageNumber is a natural number;    *)
(* the newtypes only keep them apart.  FRAME_SIZE is 4096 in the code.     *)
(***************************************************************************)
EXTENDS Integers

CONSTANT FRAME_SIZE      \* bytes in a physical frame or virtual page

ASSUME FrameSizeAssumption == FRAME_SIZE \in Nat \ {0}

(* usize::div_ceil, as used on addresses.                                  *)
div_ceil(a, b) == a \div b + (IF a % b = 0 THEN 0 ELSE 1)

(* The frame an address falls in.                                          *)
frame_floor(addr) == addr \div FRAME_SIZE

(* The first whole frame at or after an address.                           *)
frame_ceil(addr) == div_ceil(addr, FRAME_SIZE)

(* The first byte of a frame.                                              *)
base_addr(frame) == frame * FRAME_SIZE
=============================================================================
