------------------------------ MODULE Volatile ------------------------------
(***************************************************************************)
(* volatile::copy (src/volatile.rs) as operators, with the one-byte        *)
(* elements of its only caller.  A pointer is its address, and memory a    *)
(* function from addresses to bytes.                                       *)
(***************************************************************************)
EXTENDS Integers

(* Faulty: the copy never runs backwards.                                  *)
never_backwards(src, dst, count) == FALSE

(* The destination starts inside the source.                               *)
backwards(src, dst, count) == dst > src /\ dst < src + count

(* The element the loop handles after n others.                            *)
element(src, dst, count, n) == IF backwards(src, dst, count) THEN count - 1 - n ELSE n

copy_element(memory, src, dst, i) == [memory EXCEPT ![dst + i] = memory[src + i]]

(* The whole loop.                                                         *)
copy(memory, src, dst, count) ==
    LET after[n \in 0 .. count] ==
          IF n = 0 THEN memory
          ELSE copy_element(after[n - 1], src, dst, element(src, dst, count, n - 1))
    IN  after[count]

(* What the copy is meant to do.                                           *)
Moved(memory, src, dst, count) ==
    [a \in DOMAIN memory |-> IF a \in dst .. dst + count - 1 THEN memory[a - dst + src]
                            ELSE memory[a]]
=============================================================================
