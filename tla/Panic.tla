------------------------------- MODULE Panic -------------------------------
(***************************************************************************)
(* The kernel's fatal-error path (src/lib.rs, panic) on the kernel stack:  *)
(* code that calls, returns, prints in colour and may panic at any point,  *)
(* the handler, its re-entry when formatting the message panics in turn,   *)
(* and the fault when a call runs into the unmapped guard page.  There is  *)
(* no IDT, so a fault resets the processor.  The screen is kept as rows of *)
(* text; Vga shows that it behaves so.                                     *)
(***************************************************************************)
EXTENDS StackDump, Sequences

CONSTANTS VGA_HEIGHT,
          FRAME_BYTES,     \* stack used by one call
          InfoRows,        \* rows the panic message and location may take
          Addresses, DwordCounts,  \* what code other than the handler may dump
          WHITE, YELLOW, WHITE_ON_RED

ASSUME PanicAssumption ==
    /\ VGA_HEIGHT \in Nat /\ FRAME_BYTES \in Nat \ {0} /\ FRAME_BYTES % 4 = 0
    /\ InfoRows \subseteq Nat \ {0} /\ 3 * FRAME_BYTES <= STACK_BOTTOM
    /\ Addresses \subseteq Nat /\ DwordCounts \subseteq Nat

VARIABLES esp,
          guard_mapped,    \* FALSE once paging::init has switched directories
          color,           \* VGA_WRITER.color
          prev_color,      \* local of the handler's _print_color
          PANICKING,
          rows,            \* rows printed since the first panic
          left,            \* rows of the message still to print
          entries,         \* times the handler was entered (history)
          pc

screen == <<color, prev_color, rows, left>>
vars == <<esp, guard_mapped, PANICKING, entries, screen, pc, dump_vars>>

(* A call needs stack: below the bottom lies the guard page.               *)
faults == esp - FRAME_BYTES < STACK_BOTTOM /\ ~guard_mapped
Reset == pc' = "reset" /\ UNCHANGED <<esp, guard_mapped, PANICKING, entries, screen, dump_vars>>

print(kind) == rows' = Append(rows, [kind |-> kind, color |-> color])

-----------------------------------------------------------------------------
(* The code that panics.                                                   *)

Init ==
    /\ esp = STACK_TOP - FRAME_BYTES /\ guard_mapped = TRUE
    /\ color = WHITE /\ prev_color = WHITE /\ PANICKING = FALSE
    /\ rows = <<>> /\ left = 0 /\ entries = 0 /\ pc = "kernel" /\ DumpIdle

Call ==
    /\ pc = "kernel" /\ STACK_BOTTOM <= esp /\ ~faults
    /\ esp' = esp - FRAME_BYTES
    /\ UNCHANGED <<guard_mapped, PANICKING, entries, screen, pc, dump_vars>>

Return ==
    /\ pc = "kernel" /\ esp < STACK_TOP - FRAME_BYTES
    /\ esp' = esp + FRAME_BYTES
    /\ UNCHANGED <<guard_mapped, PANICKING, entries, screen, pc, dump_vars>>

(* A printk_color! begins or ends.                                         *)
PrintInColor ==
    /\ pc = "kernel"
    /\ color' = IF color = WHITE THEN YELLOW ELSE WHITE
    /\ UNCHANGED <<esp, guard_mapped, PANICKING, entries, prev_color, rows, left, pc, dump_vars>>

(* paging::init leaves the guard page out; a stack beyond it is gone.      *)
HandOver ==
    /\ pc = "kernel" /\ guard_mapped
    /\ guard_mapped' = FALSE
    /\ pc' = IF STACK_BOTTOM <= esp THEN pc ELSE "reset"
    /\ UNCHANGED <<esp, PANICKING, entries, screen, dump_vars>>

(* Code under test dumps the stack.                                        *)
Dump ==
    /\ pc = "kernel" /\ pc' = "dump_kernel" /\ ~faults
    /\ \E a \in Addresses, n \in DwordCounts : CallDump(a, n)
    /\ UNCHANGED <<esp, guard_mapped, PANICKING, entries, screen>>

(* panic!, and a panic while the handler's message is formatted.           *)
Raise ==
    /\ pc \in {"kernel", "info"} /\ ~faults
    /\ esp' = esp - FRAME_BYTES /\ entries' = entries + 1 /\ pc' = "entered"
    /\ UNCHANGED <<guard_mapped, PANICKING, screen, dump_vars>>

Overflow == pc = "kernel" /\ faults /\ Reset

-----------------------------------------------------------------------------
(* The handler.                                                            *)

(* Faulty: the guard is set only after the message is out.                 *)
Swap_late ==
    /\ pc = "entered"
    /\ PANICKING' = FALSE /\ prev_color' = color /\ color' = WHITE_ON_RED /\ pc' = "header"
    /\ UNCHANGED <<esp, guard_mapped, rows, left, entries, dump_vars>>

(* PANICKING.swap; the first entrant starts _print_color.                  *)
Swap ==
    /\ pc = "entered" /\ PANICKING' = TRUE
    /\ IF PANICKING
       THEN pc' = "halt" /\ UNCHANGED <<color, prev_color>>
       ELSE pc' = "header" /\ prev_color' = color /\ color' = WHITE_ON_RED
    /\ UNCHANGED <<esp, guard_mapped, rows, left, entries, dump_vars>>

PrintHeader ==
    /\ pc = "header" /\ ~faults
    /\ print("header") /\ left' \in InfoRows /\ pc' = "info"
    /\ UNCHANGED <<esp, guard_mapped, color, prev_color, PANICKING, entries, dump_vars>>

(* Faulty: the window is twice as long.                                    *)
DUMP_DWORDS_long == 32

DUMP_DWORDS == 16

(* A row of {info}; after the last one _print_color restores the colour    *)
(* and the handler dumps its own stack.                                    *)
PrintInfo ==
    /\ pc = "info" /\ ~faults
    /\ print("info") /\ left' = left - 1
    /\ IF left' = 0 THEN pc' = "dump" /\ color' = prev_color /\ CallDump(esp, DUMP_DWORDS)
       ELSE UNCHANGED <<pc, color, dump_vars>>
    /\ UNCHANGED <<esp, guard_mapped, prev_color, PANICKING, entries>>

(* dump_stack_from prints a heading or the diagnostic line, then a row per *)
(* dword; rows are counted for the handler's dump only.                    *)
print_dump(kind) == IF pc = "dump" THEN print(kind) ELSE UNCHANGED rows

RunDump ==
    /\ pc \in {"dump", "dump_kernel"} /\ ~faults
    /\ \/ CheckBounds /\ print_dump("dump") /\ UNCHANGED pc
       \/ DumpDword /\ print_dump("dword") /\ UNCHANGED pc
       \/ DumpReturns /\ UNCHANGED rows /\ pc' = IF pc = "dump" THEN "halt" ELSE "kernel"
    /\ UNCHANGED <<esp, guard_mapped, PANICKING, entries, color, prev_color, left>>

(* Faulty: a wakened processor leaves the handler.                         *)
Halt_once ==
    /\ pc \in {"halt", "halted"}
    /\ pc' = IF pc = "halt" THEN "halted" ELSE "kernel"
    /\ UNCHANGED <<esp, guard_mapped, PANICKING, entries, screen, dump_vars>>

(* cli; hlt; whatever wakes the processor and returns, as a system         *)
(* management interrupt does, finds the loop, which halts it again.        *)
Halt ==
    /\ pc \in {"halt", "halted"}
    /\ pc' = IF pc = "halt" THEN "halted" ELSE "halt"
    /\ UNCHANGED <<esp, guard_mapped, PANICKING, entries, screen, dump_vars>>

(* The handler's own calls run into the guard page.                        *)
FaultInHandler == pc \in {"header", "info", "dump"} /\ faults /\ Reset

Handler ==
    \/ Swap \/ PrintHeader \/ PrintInfo \/ RunDump \/ Halt \/ FaultInHandler

Next == Call \/ Return \/ PrintInColor \/ HandOver \/ Dump \/ Raise \/ Overflow \/ Handler

(* The handler, once entered, keeps running.                               *)
Spec == Init /\ [][Next]_vars /\ WF_vars(Handler)

-----------------------------------------------------------------------------
(* Properties.                                                             *)

Halting == {"halt", "halted"}

(* The dump's usize arithmetic is part of the types: an address that       *)
(* passed the bounds check is below the top, so that st - addr             *)
(* (dump_stack_from) does not underflow, and no dword past the count asked *)
(* for is reached.                                                         *)
TypeOK ==
    /\ esp \in STACK_BOTTOM - 3 * FRAME_BYTES .. STACK_TOP
    /\ guard_mapped \in BOOLEAN /\ PANICKING \in BOOLEAN
    /\ {color, prev_color} \subseteq {WHITE, YELLOW, WHITE_ON_RED}
    /\ rows \in Seq([kind : {"header", "info", "dump", "dword"},
                     color : {WHITE, YELLOW, WHITE_ON_RED}])
    /\ left \in Nat /\ entries \in Nat
    /\ dump_pc \in {"idle", "check", "dump", "refused"}
    /\ addr \in Nat /\ dword_count \in Nat /\ i \in 0 .. dword_count
    /\ dump_pc = "dump" => STACK_TOP - aligned(addr) \in Nat
    /\ pc \in {"kernel", "dump_kernel", "entered", "header", "info", "dump", "reset"} \cup Halting

(* A second panic neither recurses nor prints: the handler is entered at   *)
(* most twice, and from the second entry on the screen stays as it is      *)
(* (panic: "so a secondary fault can neither recurse forever nor scramble  *)
(* the screen").                                                           *)
SecondPanicIsSilent == [][entries' <= 2 /\ (entries = 2 => rows' = rows)]_vars

(* The rows on the screen: those above the one the cursor is on.           *)
OnScreen == {r \in DOMAIN rows : r > Len(rows) - (VGA_HEIGHT - 1)}

(* Once the handler has printed, the heading and every row of the message  *)
(* are still on the screen above the dump, in the panic colour, even if    *)
(* the panic interrupted coloured text (panic: "Kept short so the message  *)
(* above stays on the 25-row VGA screen").                                 *)
MessageStays ==
    pc \in Halting /\ entries = 1 =>
        /\ rows[1].kind = "header"
        /\ \A r \in DOMAIN rows :
              rows[r].kind \in {"header", "info"} => r \in OnScreen /\ rows[r].color = WHITE_ON_RED

(* Stack the handler, its printing and a second panic take.                *)
Room == guard_mapped \/ esp >= STACK_BOTTOM + 2 * FRAME_BYTES

(* A panic with that much stack left ends in the halt loop and stays there *)
(* (panic: "then halts the processor for good").                           *)
HaltsForGood == (pc = "entered" /\ entries = 1 /\ Room) ~> [](pc \in Halting)
=============================================================================
