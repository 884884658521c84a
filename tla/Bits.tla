-------------------------------- MODULE Bits --------------------------------
(***************************************************************************)
(* Bit masks over one bitmap word (src/utils/bits.rs).  A word is the set  *)
(* of its one bits: OR is union, AND NOT is difference, AND is             *)
(* intersection.  WORD_BITS is 32 in the code.                             *)
(***************************************************************************)
EXTENDS Integers

CONSTANT WORD_BITS       \* bits in a bitmap word

ASSUME WordBitsAssumption == WORD_BITS \in Nat \ {0}

Bit == 0 .. WORD_BITS - 1
Word == SUBSET Bit

lesser(a, b) == IF a <= b THEN a ELSE b

(* u32::MAX << n and u32::MAX >> n.                                        *)
ones_shl(n) == {b \in Bit : b >= n}
ones_shr(n) == {b \in Bit : b < WORD_BITS - n}

(* The number of bits clipped_bit_range_mask takes from this word.         *)
clipped_taken(start_bit, len) == lesser(len, WORD_BITS - start_bit)

(* The faulty twin forgets that the range may end inside the word.         *)
unclipped_mask(start_bit, len) == ones_shl(start_bit)

(* The mask clipped_bit_range_mask returns.                                *)
clipped_mask(start_bit, len) ==
    LET take == clipped_taken(start_bit, len) IN
    IF take = 0 THEN {}
    ELSE ones_shl(start_bit) \cap ones_shr(WORD_BITS - (start_bit + take))
=============================================================================
