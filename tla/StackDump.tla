----------------------------- MODULE StackDump -----------------------------
(***************************************************************************)
(* dump_stack_from (src/stack.rs): the bounds check, then a dword at a     *)
(* time.  Panic runs these steps; between two calls dump_pc is "idle".     *)
(***************************************************************************)
EXTENDS Integers

CONSTANTS STACK_BOTTOM, STACK_TOP    \* stack_bottom_addr, stack_top_addr

ASSUME StackAssumption ==
    /\ STACK_BOTTOM \in Nat /\ STACK_TOP \in Nat /\ STACK_BOTTOM < STACK_TOP
    /\ STACK_BOTTOM % 4 = 0 /\ STACK_TOP % 4 = 0

VARIABLES addr, dword_count,   \* the arguments
          i,                   \* iterations done
          reads,               \* addresses read by this call (history)
          dump_pc

dump_vars == <<addr, dword_count, i, reads, dump_pc>>

(* Faulty: an address just past a dword boundary is rounded up.            *)
aligned_up(a) == 4 * ((a + 3) \div 4)

aligned(a) == a - (a % 4)

(* Faulty: an address above the stack passes the check.                    *)
within_stack_above(a) == STACK_BOTTOM <= a

within_stack(a) == STACK_BOTTOM <= a /\ a < STACK_TOP

(* Faulty: the window is not cut off at the top of the stack.              *)
dumped_uncut(a, n) == n

(* The dwords shown from an aligned address on.                            *)
dumped(a, n) ==
    LET available == (STACK_TOP - a) \div 4 IN IF n < available THEN n ELSE available

DumpIdle == addr = 0 /\ dword_count = 0 /\ i = 0 /\ reads = {} /\ dump_pc = "idle"

CallDump(a, n) ==
    /\ dump_pc = "idle"
    /\ addr' = a /\ dword_count' = n /\ dump_pc' = "check"
    /\ UNCHANGED <<i, reads>>

CheckBounds ==
    /\ dump_pc = "check"
    /\ dump_pc' = IF within_stack(aligned(addr)) THEN "dump" ELSE "refused"
    /\ UNCHANGED <<addr, dword_count, i, reads>>

DumpDword ==
    /\ dump_pc = "dump" /\ i < dumped(aligned(addr), dword_count)
    /\ reads' = reads \cup {aligned(addr) + i * 4}
    /\ i' = i + 1
    /\ UNCHANGED <<addr, dword_count, dump_pc>>

DumpReturns ==
    /\ dump_pc = "refused" \/ (dump_pc = "dump" /\ i = dumped(aligned(addr), dword_count))
    /\ addr' = 0 /\ dword_count' = 0 /\ i' = 0 /\ reads' = {} /\ dump_pc' = "idle"

-----------------------------------------------------------------------------
(* Properties.                                                             *)

Touched(a) == a .. a + 3

(* The dump never touches a byte outside the stack, so neither the guard   *)
(* page below it nor what lies above (docs/stage-2.md: "It must not        *)
(* blindly walk arbitrary memory").                                        *)
DumpStaysInside == \A a \in reads : Touched(a) \subseteq STACK_BOTTOM .. STACK_TOP - 1

(* A dump that returns has shown the dword that holds the given byte and   *)
(* as many as asked for, or all up to the top of the stack; it is refused  *)
(* only if that byte is outside the stack.                                 *)
DumpIsComplete ==
    /\ dump_pc = "dump" /\ i = dumped(aligned(addr), dword_count) =>
          reads = {a \in STACK_BOTTOM .. STACK_TOP - 1 :
                      a % 4 = 0 /\ addr < a + 4 /\ a < aligned(addr) + 4 * dword_count}
    /\ dump_pc = "refused" => addr \notin STACK_BOTTOM .. STACK_TOP - 1
=============================================================================
