---------------------------- MODULE PanicProofs ----------------------------
(***************************************************************************)
(* Proofs about the panic path (src/lib.rs) and the stack dump             *)
(* (src/stack.rs), for every stack, screen and message.                    *)
(***************************************************************************)
EXTENDS Panic, TLAPS

-----------------------------------------------------------------------------
(* The stack dump.                                                         *)

DumpPc == {"idle", "check", "dump", "refused"}

(* The loop has read the first i dwords from the aligned address on.       *)
DumpInv ==
    /\ addr \in Nat /\ dword_count \in Nat /\ i \in Nat /\ dump_pc \in DumpPc
    /\ reads = {aligned(addr) + k * 4 : k \in 0 .. i - 1}
    /\ dump_pc # "dump" => i = 0
    /\ dump_pc = "dump" => /\ within_stack(aligned(addr))
                           /\ i <= dumped(aligned(addr), dword_count)
    /\ dump_pc = "refused" => ~within_stack(aligned(addr))

DumpStep ==
    \/ \E a, n \in Nat : CallDump(a, n)
    \/ CheckBounds \/ DumpDword \/ DumpReturns

(* aligned rounds down to a multiple of four.                              *)
LEMMA Aligned ==
    ASSUME NEW a \in Nat
    PROVE  /\ aligned(a) \in Nat /\ aligned(a) % 4 = 0
           /\ aligned(a) <= a /\ a < aligned(a) + 4
BY DEF aligned

(* The window is as long as asked for, or reaches up to the top.           *)
LEMMA Dumped ==
    ASSUME NEW a \in Nat, a % 4 = 0, within_stack(a), NEW n \in Nat
    PROVE  /\ dumped(a, n) \in Nat /\ dumped(a, n) <= n
           /\ a + 4 * dumped(a, n) <= STACK_TOP
           /\ dumped(a, n) < n => a + 4 * dumped(a, n) = STACK_TOP
BY StackAssumption DEF dumped, within_stack

(* Every step of the dump keeps its invariant.                             *)
LEMMA DumpInvStep == DumpInv /\ [DumpStep]_dump_vars => DumpInv'
<1> SUFFICES ASSUME DumpInv, [DumpStep]_dump_vars PROVE DumpInv'
    OBVIOUS
<1>1. ASSUME NEW a \in Nat, NEW n \in Nat, CallDump(a, n) PROVE DumpInv'
  <2>1. /\ dump_pc = "idle" /\ dump_pc' = "check" /\ addr' = a /\ dword_count' = n
        /\ i' = i /\ reads' = reads
    BY <1>1 DEF CallDump
  <2>2. i = 0 /\ reads = {}
    BY <2>1 DEF DumpInv
  <2> QED
    BY <2>1, <2>2 DEF DumpInv, DumpPc
<1>2. CASE CheckBounds
  <2>1. /\ UNCHANGED <<addr, dword_count, i, reads>> /\ dump_pc = "check"
        /\ dump_pc' = IF within_stack(aligned(addr)) THEN "dump" ELSE "refused"
    BY <1>2 DEF CheckBounds
  <2>2. within_stack(aligned(addr)) => dumped(aligned(addr), dword_count) \in Nat
    BY Aligned, Dumped, Zenon DEF DumpInv
  <2> QED
    BY <2>1, <2>2 DEF DumpInv, DumpPc, aligned, dumped, within_stack
<1>3. CASE DumpDword
  <2>1. /\ reads' = reads \cup {aligned(addr) + i * 4} /\ i' = i + 1
        /\ addr' = addr /\ dword_count' = dword_count /\ dump_pc' = dump_pc
        /\ dump_pc = "dump" /\ i < dumped(aligned(addr), dword_count)
    BY <1>3 DEF DumpDword
  <2>2. {aligned(addr) + k * 4 : k \in 0 .. i' - 1}
          = {aligned(addr) + k * 4 : k \in 0 .. i - 1} \cup {aligned(addr) + i * 4}
    <3>1. 0 .. i' - 1 = (0 .. i - 1) \cup {i}
      BY <2>1 DEF DumpInv
    <3> QED
      BY <3>1
  <2>3. i' \in Nat /\ i' <= dumped(aligned(addr), dword_count)
    <3>1. dumped(aligned(addr), dword_count) \in Nat
      BY <2>1, Aligned, Dumped DEF DumpInv
    <3> QED
      BY <2>1, <3>1 DEF DumpInv
  <2> QED
    BY <2>1, <2>2, <2>3 DEF DumpInv, aligned, dumped, within_stack
<1>4. CASE DumpReturns
  BY <1>4 DEF DumpReturns, DumpInv, DumpPc
<1>5. CASE UNCHANGED dump_vars
  BY <1>5 DEF dump_vars, DumpInv, aligned, dumped, within_stack
<1> QED
  BY <1>1, <1>2, <1>3, <1>4, <1>5 DEF DumpStep

(* The invariant keeps the dump inside the stack.                          *)
LEMMA DumpSafe == DumpInv => DumpStaysInside
<1> SUFFICES ASSUME DumpInv, NEW k \in 0 .. i - 1
             PROVE  Touched(aligned(addr) + k * 4) \subseteq STACK_BOTTOM .. STACK_TOP - 1
    BY DEF DumpInv, DumpStaysInside
<1> DEFINE a0 == aligned(addr)
           n0 == dumped(a0, dword_count)
<1>1. within_stack(a0) /\ i <= n0 /\ i \in Nat
  BY DEF DumpInv
<1>2. a0 \in Nat /\ n0 \in Nat /\ a0 + 4 * n0 <= STACK_TOP
  BY <1>1, Aligned, Dumped DEF DumpInv
<1>3. STACK_BOTTOM <= a0
  BY <1>1 DEF within_stack
<1> HIDE DEF a0, n0
<1> QED
  BY <1>1, <1>2, <1>3, StackAssumption DEF Touched, a0

(* The invariant makes a finished dump complete.                           *)
LEMMA DumpWhole == DumpInv => DumpIsComplete
<1> SUFFICES ASSUME DumpInv PROVE DumpIsComplete
    OBVIOUS
<1> DEFINE a0 == aligned(addr)
           n0 == dumped(a0, dword_count)
<1>1. a0 \in Nat /\ a0 % 4 = 0 /\ a0 <= addr /\ addr < a0 + 4 /\ addr \in Nat
  BY Aligned DEF DumpInv
<1>2. ASSUME dump_pc = "refused" PROVE addr \notin STACK_BOTTOM .. STACK_TOP - 1
  BY <1>1, <1>2, StackAssumption DEF DumpInv, within_stack
<1>3. ASSUME dump_pc = "dump", i = n0
      PROVE  reads = {a \in STACK_BOTTOM .. STACK_TOP - 1 :
                        a % 4 = 0 /\ addr < a + 4 /\ a < a0 + 4 * dword_count}
  <2>1. reads = {a0 + k * 4 : k \in 0 .. n0 - 1} /\ within_stack(a0)
    BY <1>3 DEF DumpInv
  <2>2. /\ n0 \in Nat /\ n0 <= dword_count /\ dword_count \in Nat
        /\ a0 + 4 * n0 <= STACK_TOP
        /\ n0 < dword_count => a0 + 4 * n0 = STACK_TOP
        /\ STACK_BOTTOM <= a0 /\ a0 < STACK_TOP
    BY <1>1, <2>1, Dumped DEF DumpInv, within_stack
  <2> HIDE DEF a0, n0
  <2>3. ASSUME NEW k \in 0 .. n0 - 1
        PROVE  /\ a0 + k * 4 \in STACK_BOTTOM .. STACK_TOP - 1 /\ (a0 + k * 4) % 4 = 0
               /\ addr < a0 + k * 4 + 4 /\ a0 + k * 4 < a0 + 4 * dword_count
    BY <1>1, <2>2, StackAssumption
  <2>4. ASSUME NEW a \in STACK_BOTTOM .. STACK_TOP - 1,
               a % 4 = 0, addr < a + 4, a < a0 + 4 * dword_count
        PROVE  \E k \in 0 .. n0 - 1 : a = a0 + k * 4
    <3>1. a >= a0
      BY <1>1, <2>4, StackAssumption
    <3>2. a < a0 + 4 * n0
      BY <2>2, <2>4, StackAssumption
    <3> DEFINE k == (a - a0) \div 4
    <3>3. a = a0 + k * 4 /\ k \in 0 .. n0 - 1
      BY <1>1, <2>2, <2>4, <3>1, <3>2, StackAssumption
    <3> QED
      BY <3>3
  <2> QED
    BY <2>1, <2>3, <2>4
<1> QED
  BY <1>2, <1>3 DEF DumpIsComplete

-----------------------------------------------------------------------------
(* The handler.                                                            *)

Row == [kind : {"header", "info", "dump", "dword"}, color : {WHITE, YELLOW, WHITE_ON_RED}]
KernelPc == {"kernel", "dump_kernel"}
HandlerPc == {"header", "info", "dump"}

(* How often the handler was entered, what the guard flag says of it, and  *)
(* how deep each entry may have taken the stack.                           *)
Phase ==
    /\ entries \in 0 .. 2 /\ PANICKING \in BOOLEAN /\ guard_mapped \in BOOLEAN
    /\ pc \in KernelPc \cup HandlerPc \cup {"entered", "reset"} \cup Halting
    /\ pc \in KernelPc => entries = 0 /\ PANICKING = FALSE
    /\ pc = "entered" => \/ entries = 1 /\ PANICKING = FALSE
                         \/ entries = 2 /\ PANICKING = TRUE
    /\ pc \in HandlerPc => entries = 1 /\ PANICKING = TRUE
    /\ esp \in Int /\ esp <= STACK_TOP
    /\ esp >= STACK_BOTTOM - (entries + 1) * FRAME_BYTES

(* Who runs the dump: the handler's is of DUMP_DWORDS at most.             *)
Dumping ==
    /\ DumpInv
    /\ pc \notin {"dump", "dump_kernel", "reset"} => dump_pc = "idle"
    /\ pc = "dump" => dump_pc # "idle" /\ dword_count = DUMP_DWORDS

(* The rows printed so far: the heading comes first, the message is red,   *)
(* and the text of n rows and its dump take n + 18 rows at most.           *)
Screen ==
    /\ color \in {WHITE, YELLOW, WHITE_ON_RED} /\ prev_color \in {WHITE, YELLOW, WHITE_ON_RED}
    /\ rows \in Seq(Row) /\ left \in Nat
    /\ pc \in KernelPc \cup {"header"} \/ (pc = "entered" /\ entries = 1) => rows = <<>>
    /\ pc \in {"header", "info"} => color = WHITE_ON_RED
    /\ rows # <<>> => rows[1].kind = "header"
    /\ \A r \in DOMAIN rows : rows[r].kind \in {"header", "info"} => rows[r].color = WHITE_ON_RED
    /\ pc \in {"info", "dump"} \/ (pc \in Halting /\ entries = 1) => rows # <<>>
    /\ pc = "info" => left > 0 /\ \E n \in InfoRows : Len(rows) + left = n + 1
    /\ pc = "dump" =>
          \E n \in InfoRows : Len(rows) <= n + 1 + (IF dump_pc = "check" THEN 0 ELSE i + 1)
    /\ pc \in Halting /\ entries = 1 => \E n \in InfoRows : Len(rows) <= n + DUMP_DWORDS + 2

IInv == Phase /\ Dumping /\ Screen

(* The invariant holds before the first panic.                             *)
LEMMA InitIInv == Init => IInv
<1> SUFFICES ASSUME Init PROVE IInv
    OBVIOUS
<1> USE StackAssumption, PanicAssumption
<1>1. Phase
  <2>1. /\ esp \in Int /\ esp <= STACK_TOP
        /\ esp >= STACK_BOTTOM - (entries + 1) * FRAME_BYTES /\ entries \in 0 .. 2
    <3>1. (entries + 1) * FRAME_BYTES = FRAME_BYTES /\ FRAME_BYTES \in Nat
      BY DEF Init
    <3> QED
      BY <3>1 DEF Init
  <2>2. PANICKING \in BOOLEAN /\ guard_mapped \in BOOLEAN /\ ~PANICKING
    BY Zenon DEF Init
  <2> QED
    BY <2>1, <2>2 DEF Init, Phase, KernelPc, HandlerPc, Halting
<1>2. Dumping
  BY DEF Init, Dumping, DumpInv, DumpIdle, DumpPc
<1>3. Screen
  BY DEF Init, Screen, Row, KernelPc, Halting
<1> QED
  BY <1>1, <1>2, <1>3 DEF IInv

(* Every step keeps Phase.                                                 *)
LEMMA PhaseStep == IInv /\ [Next]_vars => Phase'
<1> SUFFICES ASSUME IInv, [Next]_vars PROVE Phase'
    OBVIOUS
<1> USE StackAssumption, PanicAssumption DEF IInv, Phase, KernelPc, HandlerPc, Halting
<1>1. CASE Call
  BY <1>1 DEF Call
<1>2. CASE Return
  BY <1>2 DEF Return
<1>3. CASE PrintInColor
  BY <1>3 DEF PrintInColor
<1>4. CASE HandOver
  BY <1>4, Zenon DEF HandOver
<1>5. CASE Dump
  BY <1>5 DEF Dump
<1>6. CASE Raise
  BY <1>6 DEF Raise
<1>7. CASE Overflow
  BY <1>7 DEF Overflow, Reset
<1>8. CASE Swap
  BY <1>8 DEF Swap
<1>9. CASE PrintHeader
  BY <1>9 DEF PrintHeader
<1>10. CASE PrintInfo
  BY <1>10 DEF PrintInfo
<1>11. CASE RunDump
  BY <1>11 DEF RunDump
<1>12. CASE Halt
  BY <1>12 DEF Halt
<1>13. CASE FaultInHandler
  BY <1>13 DEF FaultInHandler, Reset
<1>14. CASE UNCHANGED vars
  BY <1>14 DEF vars
<1> QED
  BY <1>1, <1>2, <1>3, <1>4, <1>5, <1>6, <1>7, <1>8, <1>9, <1>10, <1>11, <1>12, <1>13, <1>14, Zenon
     DEF Next, Handler

(* Every step keeps Dumping.                                               *)
LEMMA DumpingStep == IInv /\ [Next]_vars => Dumping'
<1> SUFFICES ASSUME IInv, [Next]_vars PROVE Dumping'
    OBVIOUS
<1>1. CASE Dump
  <2>1. PICK a \in Nat, n \in Nat : CallDump(a, n)
    BY <1>1, PanicAssumption DEF Dump
  <2>2. DumpInv'
    BY <2>1, DumpInvStep DEF DumpStep, IInv, Dumping
  <2> QED
    BY <1>1, <2>2 DEF Dump, Dumping
<1>2. CASE PrintInfo
  <2>1. pc = "info" /\ esp \in Nat
    BY <1>2, StackAssumption, PanicAssumption DEF PrintInfo, IInv, Phase, HandlerPc
  <2>2. CASE left' = 0
    <3>1. pc' = "dump" /\ CallDump(esp, DUMP_DWORDS)
      BY <1>2, <2>2, Zenon DEF PrintInfo
    <3>2. DumpInv'
      BY <2>1, <3>1, DumpInvStep DEF DumpStep, IInv, Dumping, DUMP_DWORDS
    <3> QED
      BY <3>1, <3>2 DEF Dumping, CallDump
  <2>3. CASE left' # 0
    <3>1. pc' = pc /\ UNCHANGED dump_vars
      BY <1>2, <2>3 DEF PrintInfo
    <3>2. DumpInv'
      BY <3>1, DumpInvStep DEF IInv, Dumping
    <3> QED
      BY <2>1, <3>1, <3>2 DEF IInv, Dumping, dump_vars
  <2> QED
    BY <2>2, <2>3
<1>3. CASE RunDump
  <2>1. DumpInv'
    BY <1>3, DumpInvStep DEF RunDump, DumpStep, IInv, Dumping
  <2> QED
    BY <1>3, <2>1 DEF RunDump, CheckBounds, DumpDword, DumpReturns, IInv, Dumping
<1>4. ASSUME UNCHANGED dump_vars, pc' \in {"dump", "dump_kernel"} => pc' = pc,
             pc \in {"dump", "dump_kernel", "reset"} => pc' \in {pc, "reset"}
      PROVE  Dumping'
  <2>1. DumpInv'
    BY <1>4, DumpInvStep DEF IInv, Dumping
  <2> QED
    BY <1>4, <2>1 DEF IInv, Dumping, dump_vars
<1>5. CASE Call \/ Return \/ PrintInColor \/ HandOver \/ Raise \/ Overflow
  BY <1>4, <1>5 DEF Call, Return, PrintInColor, HandOver, Raise, Overflow, Reset
<1>6. CASE Swap \/ PrintHeader \/ Halt \/ FaultInHandler \/ UNCHANGED vars
  BY <1>4, <1>6 DEF Swap, PrintHeader, Halt, FaultInHandler, Reset, vars
<1> QED
  BY <1>1, <1>2, <1>3, <1>5, <1>6 DEF Next, Handler

(* Every step keeps Screen.                                                *)
LEMMA ScreenStep == IInv /\ [Next]_vars => Screen'
<1> SUFFICES ASSUME IInv, [Next]_vars PROVE Screen'
    OBVIOUS
<1> USE PanicAssumption
<1>1. CASE PrintHeader
  <2>1. pc = "header" /\ rows = <<>> /\ color = WHITE_ON_RED
    BY <1>1 DEF PrintHeader, IInv, Screen
  <2>2. rows' = <<[kind |-> "header", color |-> WHITE_ON_RED]>>
    BY <1>1, <2>1 DEF PrintHeader, print
  <2>3. rows' \in Seq(Row) /\ Len(rows') = 1 /\ rows' # <<>> /\ rows'[1].kind = "header"
        /\ \A r \in DOMAIN rows' : rows'[r].color = WHITE_ON_RED
    BY <2>2 DEF Row
  <2>4. left' \in InfoRows /\ left' \in Nat /\ left' > 0 /\ Len(rows') + left' = left' + 1
    <3>1. left' \in InfoRows
      BY <1>1, Zenon DEF PrintHeader
    <3>2. left' \in Nat \ {0}
      BY <3>1, Zenon
    <3> QED
      BY <2>3, <3>1, <3>2
  <2>5. pc' = "info" /\ UNCHANGED <<color, prev_color, entries>>
    BY <1>1 DEF PrintHeader
  <2> QED
    BY <2>1, <2>3, <2>4, <2>5, Zenon DEF IInv, Screen, KernelPc, Halting
<1>2. ASSUME NEW kind \in {"info", "dump", "dword"}, print(kind), pc \in {"info", "dump"},
             kind = "info" => pc = "info"
      PROVE  /\ rows' \in Seq(Row) /\ rows' # <<>> /\ Len(rows') = Len(rows) + 1
             /\ rows'[1].kind = "header"
             /\ \A r \in DOMAIN rows' :
                   rows'[r].kind \in {"header", "info"} => rows'[r].color = WHITE_ON_RED
  <2> DEFINE row == [kind |-> kind, color |-> color]
  <2>1. rows \in Seq(Row) /\ rows # <<>> /\ rows[1].kind = "header" /\ Len(rows) \in Nat \ {0}
    BY <1>2 DEF IInv, Screen
  <2>2. row \in Row /\ rows' = Append(rows, row)
    BY <1>2 DEF IInv, Screen, Row, print
  <2> HIDE DEF row
  <2>3. /\ rows' \in Seq(Row) /\ Len(rows') = Len(rows) + 1 /\ rows' # <<>>
        /\ DOMAIN rows' = 1 .. Len(rows) + 1 /\ DOMAIN rows = 1 .. Len(rows)
        /\ rows'[Len(rows) + 1] = row /\ \A r \in 1 .. Len(rows) : rows'[r] = rows[r]
    BY <2>1, <2>2
  <2>4. row.kind \in {"header", "info"} => row.color = WHITE_ON_RED
    BY <1>2 DEF row, IInv, Screen
  <2>5. \A r \in DOMAIN rows : rows[r].kind \in {"header", "info"} => rows[r].color = WHITE_ON_RED
    BY DEF IInv, Screen
  <2> QED
    BY <2>1, <2>3, <2>4, <2>5
<1>3. CASE PrintInfo
  <2>1. pc = "info" /\ print("info") /\ left' = left - 1 /\ UNCHANGED <<prev_color, entries>>
    BY <1>3 DEF PrintInfo
  <2>2. PICK n \in InfoRows : Len(rows) + left = n + 1
    BY <2>1 DEF IInv, Screen
  <2>3. left \in Nat \ {0} /\ left' \in Nat /\ n \in Nat
    BY <2>1 DEF IInv, Screen
  <2>4. Len(rows') + left' = n + 1
    BY <1>2, <2>1, <2>2, <2>3 DEF IInv, Screen
  <2>5. CASE left' = 0
    <3>1. pc' = "dump" /\ color' = prev_color /\ dump_pc' = "check"
      BY <1>3, <2>5, Zenon DEF PrintInfo, CallDump
    <3>2. Len(rows') <= n + 1 + 0
      BY <1>2, <2>1, <2>3, <2>4, <2>5
    <3> QED
      BY <1>2, <2>1, <2>3, <3>1, <3>2 DEF IInv, Screen, KernelPc, Halting
  <2>6. CASE left' # 0
    <3>1. pc' = "info" /\ color' = color
      BY <1>3, <2>1, <2>6 DEF PrintInfo
    <3> QED
      BY <1>2, <2>1, <2>3, <2>4, <2>6, <3>1 DEF IInv, Screen, KernelPc, Halting
  <2> QED
    BY <2>5, <2>6
<1>4. CASE RunDump /\ pc = "dump"
  <2>1. UNCHANGED <<color, prev_color, left, entries>> /\ entries = 1
    BY <1>4 DEF RunDump, IInv, Phase, HandlerPc
  <2>2. PICK n \in InfoRows : Len(rows) <= n + 1 + (IF dump_pc = "check" THEN 0 ELSE i + 1)
    BY <1>4 DEF IInv, Screen
  <2>3. n \in Nat /\ i \in Nat /\ Len(rows) \in Nat /\ rows # <<>>
    BY <1>4 DEF IInv, Dumping, DumpInv, Screen
  <2>4. CASE CheckBounds /\ print("dump") /\ UNCHANGED pc
    <3>1. dump_pc = "check" /\ i = 0 /\ i' = 0 /\ dump_pc' # "check"
      BY <2>4 DEF CheckBounds, IInv, Dumping, DumpInv
    <3>2. Len(rows') <= n + 1 + (i' + 1)
      BY <1>2, <1>4, <2>2, <2>3, <2>4, <3>1
    <3> QED
      BY <1>2, <1>4, <2>1, <2>3, <2>4, <3>1, <3>2 DEF IInv, Screen, KernelPc, Halting
  <2>5. CASE DumpDword /\ print("dword") /\ UNCHANGED pc
    <3>1. dump_pc = "dump" /\ dump_pc' = "dump" /\ i' = i + 1
      BY <2>5 DEF DumpDword
    <3>2. Len(rows') <= n + 1 + (i' + 1)
      BY <1>2, <1>4, <2>2, <2>3, <2>5, <3>1
    <3> QED
      BY <1>2, <1>4, <2>1, <2>3, <2>5, <3>1, <3>2 DEF IInv, Screen, KernelPc, Halting
  <2>6. CASE DumpReturns /\ UNCHANGED rows /\ pc' = "halt"
    <3>1. dump_pc # "check" /\ i <= DUMP_DWORDS
      <4>1. dump_pc # "check" /\ DumpInv /\ dword_count = DUMP_DWORDS
        BY <1>4, <2>6 DEF DumpReturns, IInv, Dumping
      <4>2. CASE dump_pc = "dump"
        <5>1. i <= dumped(aligned(addr), dword_count) /\ within_stack(aligned(addr))
          BY <4>1, <4>2 DEF DumpInv
        <5>2. /\ dumped(aligned(addr), dword_count) \in Nat
              /\ dumped(aligned(addr), dword_count) <= dword_count
          BY <4>1, <5>1, Aligned, Dumped, Zenon DEF DumpInv
        <5> QED
          BY <2>3, <4>1, <5>1, <5>2 DEF DUMP_DWORDS
      <4>3. CASE dump_pc # "dump"
        BY <4>1, <4>3 DEF DumpInv, DUMP_DWORDS
      <4> QED
        BY <4>1, <4>2, <4>3
    <3>2. Len(rows') <= n + DUMP_DWORDS + 2
      BY <2>2, <2>3, <2>6, <3>1 DEF DUMP_DWORDS
    <3> QED
      BY <2>1, <2>3, <2>6, <3>2 DEF IInv, Screen, KernelPc, Halting
  <2> QED
    BY <1>4, <2>4, <2>5, <2>6 DEF RunDump, print_dump
<1>5. ASSUME UNCHANGED <<rows, left>>, rows = <<>>,
             color' \in {WHITE, YELLOW, WHITE_ON_RED}, prev_color' \in {WHITE, YELLOW, WHITE_ON_RED},
             pc' \in KernelPc \cup {"entered", "header", "reset"}, pc' = "header" => color' = WHITE_ON_RED
      PROVE  Screen'
  BY <1>5 DEF IInv, Screen, KernelPc, Halting
<1>6. ASSUME UNCHANGED <<rows, left, color, prev_color>>,
             pc' \in {"reset"} \/ (pc' \in Halting /\ pc \in Halting /\ entries' = entries)
                 \/ (pc' \in Halting \cup {"entered"} /\ entries' = 2)
      PROVE  Screen'
  BY <1>6 DEF IInv, Screen, KernelPc, Halting
<1>7. CASE Call \/ Return \/ PrintInColor \/ HandOver \/ Dump
  BY <1>5, <1>7 DEF Call, Return, PrintInColor, HandOver, Dump, IInv, Screen, screen, KernelPc
<1>8. CASE RunDump /\ pc = "dump_kernel"
  BY <1>5, <1>8 DEF RunDump, print_dump, IInv, Screen, KernelPc
<1>9. CASE Raise
  <2>1. UNCHANGED <<rows, left, color, prev_color>> /\ pc' = "entered" /\ entries' = entries + 1
    BY <1>9 DEF Raise, screen
  <2>2. CASE pc = "kernel"
    BY <1>5, <2>1, <2>2 DEF IInv, Screen, KernelPc
  <2>3. CASE pc = "info"
    <3>1. entries' = 2
      BY <2>1, <2>3 DEF IInv, Phase, HandlerPc
    <3> QED
      BY <1>6, <2>1, <3>1
  <2> QED
    BY <1>9, <2>2, <2>3 DEF Raise
<1>10. CASE Swap
  <2>1. CASE PANICKING
    BY <1>6, <1>10, <2>1 DEF Swap, IInv, Phase, Halting
  <2>2. CASE ~PANICKING
    BY <1>5, <1>10, <2>2 DEF Swap, IInv, Phase, Screen
  <2> QED
    BY <2>1, <2>2
<1>11. CASE Overflow \/ FaultInHandler
  BY <1>6, <1>11 DEF Overflow, FaultInHandler, Reset, screen
<1>12. CASE Halt
  BY <1>6, <1>12 DEF Halt, Halting, screen
<1>13. CASE UNCHANGED vars
  BY <1>13 DEF vars, screen, dump_vars, IInv, Screen
<1> QED
  BY <1>1, <1>3, <1>4, <1>7, <1>8, <1>9, <1>10, <1>11, <1>12, <1>13 DEF Next, Handler, RunDump

-----------------------------------------------------------------------------
(* The theorems.                                                           *)

(* The invariant holds throughout.                                         *)
LEMMA Invariance == Spec => []IInv
<1>1. IInv /\ [Next]_vars => IInv'
  BY PhaseStep, DumpingStep, ScreenStep DEF IInv
<1> QED
  BY InitIInv, <1>1, PTL DEF Spec

(* Every variable keeps its type; a second panic takes the stack at most   *)
(* three frames below its bottom (src/lib.rs, panic), and the subtraction  *)
(* st - addr never underflows (src/stack.rs, dump_stack_from).             *)
THEOREM TypeCorrect == Spec => []TypeOK
<1>1. IInv => TypeOK
  <2> SUFFICES ASSUME IInv PROVE TypeOK
      OBVIOUS
  <2>1. esp \in STACK_BOTTOM - 3 * FRAME_BYTES .. STACK_TOP
    <3>1. CASE entries = 0
      BY <3>1, StackAssumption, PanicAssumption DEF IInv, Phase
    <3>2. CASE entries = 1
      BY <3>2, StackAssumption, PanicAssumption DEF IInv, Phase
    <3>3. CASE entries = 2
      BY <3>3, StackAssumption, PanicAssumption DEF IInv, Phase
    <3> QED
      BY <3>1, <3>2, <3>3 DEF IInv, Phase
  <2>2. /\ dump_pc \in {"idle", "check", "dump", "refused"}
        /\ addr \in Nat /\ dword_count \in Nat /\ i \in 0 .. dword_count
    <3>1. DumpInv
      BY DEF IInv, Dumping
    <3>2. CASE dump_pc = "dump"
      <4>1. i <= dumped(aligned(addr), dword_count) /\ within_stack(aligned(addr))
        BY <3>1, <3>2 DEF DumpInv
      <4>2. /\ dumped(aligned(addr), dword_count) \in Nat
            /\ dumped(aligned(addr), dword_count) <= dword_count
        BY <3>1, <4>1, Aligned, Dumped, Zenon DEF DumpInv
      <4> QED
        BY <3>1, <3>2, <4>1, <4>2 DEF DumpInv
    <3>3. CASE dump_pc # "dump"
      BY <3>1, <3>3 DEF DumpInv, DumpPc
    <3> QED
      BY <3>2, <3>3
  <2>3. ASSUME dump_pc = "dump" PROVE STACK_TOP - aligned(addr) \in Nat
    <3>1. within_stack(aligned(addr)) /\ aligned(addr) \in Nat
      BY <2>3, Aligned DEF IInv, Dumping, DumpInv
    <3> QED
      BY <3>1, StackAssumption DEF within_stack
  <2> QED
    BY <2>1, <2>2, <2>3 DEF IInv, Phase, Screen, Row, KernelPc, HandlerPc, TypeOK
<1> QED
  BY Invariance, <1>1, PTL

(* dump_stack_from reads inside the stack only, whatever address and count *)
(* it is given and wherever the panic struck (src/stack.rs).               *)
THEOREM Dump_Inside == Spec => []DumpStaysInside
<1>1. IInv => DumpStaysInside
  BY DumpSafe DEF IInv, Dumping
<1> QED
  BY Invariance, <1>1, PTL

(* A dump shows exactly the dwords asked for that the stack holds          *)
(* (src/stack.rs, dump_stack_from).                                        *)
THEOREM Dump_Complete == Spec => []DumpIsComplete
<1>1. IInv => DumpIsComplete
  BY DumpWhole DEF IInv, Dumping
<1> QED
  BY Invariance, <1>1, PTL

(* The PANICKING guard lets the handler print once: it is entered at most  *)
(* twice and the second entry adds nothing to the screen (src/lib.rs).     *)
THEOREM Second_Silent == Spec => SecondPanicIsSilent
<1>1. IInv /\ [Next]_vars => [entries' <= 2 /\ (entries = 2 => rows' = rows)]_vars
  <2> SUFFICES ASSUME IInv, [Next]_vars PROVE entries' <= 2 /\ (entries = 2 => rows' = rows)
      OBVIOUS
  <2>1. entries' <= 2
    BY PhaseStep DEF Phase
  <2>2. ASSUME entries = 2 PROVE pc \notin KernelPc \cup HandlerPc
    BY <2>2 DEF IInv, Phase
  <2>3. ASSUME entries = 2 PROVE rows' = rows
    <3>1. Swap \/ Halt \/ UNCHANGED vars
      BY <2>2, <2>3 DEF Next, Handler, Call, Return, PrintInColor, HandOver, Dump, Raise, Overflow,
            PrintHeader, PrintInfo, RunDump, FaultInHandler, KernelPc, HandlerPc
    <3> QED
      BY <3>1 DEF Swap, Halt, vars, screen
  <2> QED
    BY <2>1, <2>3
<1> QED
  BY Invariance, <1>1, PTL DEF Spec, SecondPanicIsSilent

(* The message stays on the screen if it leaves room for the dump: its     *)
(* rows, the heading's, DUMP_DWORDS + 1 for the dump and the cursor's fit  *)
(* the height (src/lib.rs, panic).                                         *)
THEOREM Message_Stays ==
    ASSUME \A n \in InfoRows : n + DUMP_DWORDS + 3 <= VGA_HEIGHT
    PROVE  Spec => []MessageStays
<1>1. IInv => MessageStays
  <2> SUFFICES ASSUME IInv, pc \in Halting, entries = 1
               PROVE  /\ rows[1].kind = "header"
                      /\ \A r \in DOMAIN rows :
                            rows[r].kind \in {"header", "info"} =>
                                r \in OnScreen /\ rows[r].color = WHITE_ON_RED
      BY DEF MessageStays
  <2>1. PICK n \in InfoRows : Len(rows) <= n + DUMP_DWORDS + 2
    BY DEF IInv, Screen
  <2>2. rows \in Seq(Row) /\ rows # <<>> /\ n \in Nat /\ VGA_HEIGHT \in Nat
    BY PanicAssumption DEF IInv, Screen
  <2>3. Len(rows) <= VGA_HEIGHT - 1
    BY <2>1, <2>2 DEF DUMP_DWORDS
  <2>4. \A r \in DOMAIN rows : r \in OnScreen
    BY <2>2, <2>3 DEF OnScreen
  <2> QED
    BY <2>2, <2>4 DEF IInv, Screen
<1> QED
  BY Invariance, <1>1, PTL
=============================================================================
