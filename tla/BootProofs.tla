----------------------------- MODULE BootProofs -----------------------------
(***************************************************************************)
(* Proofs about the boot stub and install_gdt (boot/boot.asm, src/gdt.rs), *)
(* for every place the linker may give the stub, the kernel and the stack, *)
(* every height of the stack and whatever the loader hands over.           *)
(***************************************************************************)
EXTENDS Boot, TLAPS

-----------------------------------------------------------------------------
(* The invariant.                                                          *)

(* A value lies on the stack, byte by byte.                                *)
Stored(bytes, at, value, n) == \A k \in 0 .. n - 1 : bytes[at + k] = <<value, k>>

(* The bytes of the stack.                                                 *)
IsStack(bytes) == DOMAIN bytes = 0 .. STACK_TOP - 1

(* How far below stack_top the stub and install_gdt have ESP.              *)
Depth ==
    [call_install |-> 16, install |-> 20, call_write |-> 34, write |-> 38, lgdt |-> 34,
     segments |-> 26, far_return |-> 26, leave |-> 26, call_main |-> 16, main |-> 20]

(* CR3, CR4.PSE and CR0.PG, one after the other.                           *)
Control ==
    /\ cr3 = IF pc \in {"start", "cr3"} THEN UNKNOWN ELSE BOOT_DIRECTORY
    /\ pse = (pc \notin {"start", "cr3", "pse"})
    /\ paging = (pc \notin {"start", "cr3", "pse", "paging"})

(* Where the loader's two values are: in registers until the stack is set. *)
Handed ==
    /\ args = <<args[1], args[2]>>
    /\ pc = "start" => args = <<eax, ebx>>
    /\ pc \in (LowPc \cup {"stack"}) \ {"start"} => args = <<esi, ebx>>
    /\ pc \in StackPc => /\ Stored(stack, STACK_TOP - 16, args[1], 4)
                         /\ Stored(stack, STACK_TOP - 12, args[2], 4)

(* What the calls in progress have on the stack.                           *)
Frames ==
    /\ IsStack(stack)
    /\ pc \in StackPc => esp = STACK_TOP - Depth[pc]
    /\ pc \notin StackPc => esp = UNKNOWN
    /\ pc \in InstallPc => Stored(stack, STACK_TOP - 20, AFTER_INSTALL, 4)
    /\ pc \in {"call_write", "write"} => /\ Stored(stack, STACK_TOP - 34, GDT_BASE, 4)
                                         /\ Stored(stack, STACK_TOP - 30, STACK_TOP - 26, 4)
    /\ pc = "lgdt" => /\ Stored(stack, STACK_TOP - 26, gdt_limit, 2)
                      /\ Stored(stack, STACK_TOP - 24, GDT_BASE, 4)
    /\ pc = "main" => Stored(stack, STACK_TOP - 20, AFTER_MAIN, 4)

(* What each segment register ends up with.                                *)
Selector(r) ==
    IF r = "cs" THEN KERNEL_CODE_SELECTOR
    ELSE IF r = "ss" THEN KERNEL_STACK_SELECTOR ELSE KERNEL_DATA_SELECTOR

(* The table is in place when the register is loaded, the register when    *)
(* the segment registers are.                                              *)
Segments ==
    /\ DOMAIN segments = {"cs", "ds", "es", "fs", "gs", "ss"}
    /\ pc \in {"lgdt", "segments", "far_return", "leave", "call_main", "main"} => gdt = bootstrap_gdt
    /\ pc \in {"segments", "far_return", "leave", "call_main", "main"} =>
           gdtr = [limit |-> gdt_limit, base |-> GDT_BASE]
    /\ \A r \in DOMAIN segments :
           segments[r] = IF pc \in {"leave", "call_main", "main"} \/ (pc = "far_return" /\ r # "cs")
                         THEN Selector(r) ELSE UNKNOWN

Pc == LowPc \cup StackPc \cup {"stack"}
BInv == pc \in Pc /\ Control /\ Handed /\ Frames /\ Segments

-----------------------------------------------------------------------------
(* Values on the stack.                                                    *)

(* A value stored is found there, ...                                      *)
LEMMA StoredHere ==
    ASSUME NEW bytes, IsStack(bytes), STACK_TOP \in Nat,
           NEW at \in Nat, NEW value, NEW n \in Nat, at + n <= STACK_TOP
    PROVE  Stored(store(bytes, at, value, n), at, value, n)
BY DEF Stored, store, IsStack

(* ... what lies elsewhere stays, ...                                      *)
LEMMA StoredElsewhere ==
    ASSUME NEW bytes, IsStack(bytes), STACK_TOP \in Nat,
           NEW at \in Nat, NEW value, NEW n \in Nat,
           NEW a \in Nat, NEW v, NEW m \in Nat, a + m <= STACK_TOP,
           a + m <= at \/ at + n <= a, Stored(bytes, a, v, m)
    PROVE  Stored(store(bytes, at, value, n), a, v, m)
<1> SUFFICES ASSUME NEW k \in 0 .. m - 1
             PROVE  store(bytes, at, value, n)[a + k] = <<v, k>>
  BY DEF Stored
<1>1. a + k \in DOMAIN bytes /\ a + k \notin at .. at + n - 1 /\ bytes[a + k] = <<v, k>>
  BY DEF Stored, IsStack
<1> QED
  BY <1>1 DEF store

(* ... and the stack keeps its height.                                     *)
LEMMA StoredWithin ==
    ASSUME NEW bytes, IsStack(bytes), NEW at, NEW value, NEW n
    PROVE  IsStack(store(bytes, at, value, n))
BY DEF store, IsStack

(* What was stored is what is loaded.                                      *)
LEMMA Loaded ==
    ASSUME NEW bytes, NEW at \in Int, NEW value, NEW n \in Nat \ {0}, Stored(bytes, at, value, n)
    PROVE  load(bytes, at, n) = value
<1>1. bytes[at] = <<value, 0>>
  BY DEF Stored
<1> QED
  BY <1>1 DEF Stored, load

(* A push is a store of four bytes.                                        *)
LEMMA Pushed == \A bytes, sp, value : push(bytes, sp, value) = store(bytes, sp - 4, value, 4)
BY DEF push

-----------------------------------------------------------------------------
(* One step.                                                               *)

(* The control registers follow the program counter.                       *)
LEMMA ControlStep == BInv /\ [Next]_vars => Control' /\ (pc \in Pc)'
<1> SUFFICES ASSUME BInv, [Next]_vars PROVE Control' /\ (pc \in Pc)'
  OBVIOUS
<1> USE DEF BInv, Control, Pc, LowPc, StackPc, InstallPc
<1>1. ASSUME pc = "leave", Leave PROVE pc' = "call_main"
  <2>1. esp = STACK_TOP - 26 /\ Stored(stack, STACK_TOP - 20, AFTER_INSTALL, 4)
    BY <1>1 DEF Frames, Depth
  <2>2. load(stack, esp + 6, 4) = AFTER_INSTALL
    BY <2>1, Loaded, BootAssumption
  <2> QED
    BY <1>1, <2>2 DEF Leave
<1>2. CASE UNCHANGED vars
  BY <1>2 DEF vars, control
<1>3. CASE SaveMagic \/ SetCr3 \/ EnablePse \/ EnablePaging \/ JumpHigh
  BY <1>3, Zenon DEF SaveMagic, SetCr3, EnablePse, EnablePaging, JumpHigh, control
<1>4. CASE SetStack \/ CallInstall \/ MakeGdtr \/ CallWrite \/ WriteGdt
  BY <1>4 DEF SetStack, CallInstall, MakeGdtr, CallWrite, WriteGdt, call, control
<1>5. CASE LoadGdtr \/ LoadSegments \/ FarReturn \/ CallMain
  BY <1>5 DEF LoadGdtr, LoadSegments, FarReturn, CallMain, call, control
<1>6. CASE Leave
  BY <1>1, <1>6 DEF Leave, control
<1> QED
  BY <1>2, <1>3, <1>4, <1>5, <1>6 DEF Next

(* The table, its register and the segment registers.                      *)
LEMMA SegmentsStep == BInv /\ [Next]_vars => Segments'
<1> SUFFICES ASSUME BInv, [Next]_vars PROVE Segments'
  OBVIOUS
<1>0. pc' \in Pc
  BY ControlStep
<1> USE DEF BInv, Segments
<1>1. CASE UNCHANGED vars
  BY <1>1 DEF vars, tables
<1>2. CASE SaveMagic \/ SetCr3 \/ EnablePse \/ EnablePaging \/ JumpHigh
  BY <1>2 DEF SaveMagic, SetCr3, EnablePse, EnablePaging, JumpHigh, tables
<1>3. CASE SetStack \/ CallInstall \/ MakeGdtr \/ CallWrite
  BY <1>3 DEF SetStack, CallInstall, MakeGdtr, CallWrite, call, tables
<1>4. CASE WriteGdt
  <2>1. load(stack, esp + 4, 4) = GDT_BASE
    <3>1. pc = "write" /\ esp + 4 = STACK_TOP - 34 /\ Stored(stack, STACK_TOP - 34, GDT_BASE, 4)
      BY <1>4, BootAssumption DEF WriteGdt, Frames, Depth, StackPc, InstallPc
    <3> QED
      BY <3>1, Loaded, BootAssumption
  <2>2. pc' = "lgdt" /\ gdt' = bootstrap_gdt /\ UNCHANGED <<gdtr, segments>>
    BY <1>4, <2>1, Zenon DEF WriteGdt
  <2> QED
    BY <1>4, <2>2 DEF WriteGdt
<1>5. CASE LoadGdtr
  <2>1. pc = "lgdt" /\ esp = STACK_TOP - 34 /\ Stored(stack, STACK_TOP - 26, gdt_limit, 2)
        /\ Stored(stack, STACK_TOP - 24, GDT_BASE, 4)
    BY <1>5, BootAssumption DEF LoadGdtr, Frames, Depth, StackPc, InstallPc
  <2>2. load(stack, esp + 8, 2) = gdt_limit /\ load(stack, esp + 10, 4) = GDT_BASE
    BY <2>1, Loaded, BootAssumption
  <2> QED
    BY <1>5, <2>1, <2>2 DEF LoadGdtr
<1>6. CASE LoadSegments
  <2>1. /\ pc = "segments" /\ pc' = "far_return" /\ UNCHANGED <<gdt, gdtr>>
        /\ DOMAIN segments' = DOMAIN segments /\ segments["cs"] = UNKNOWN
    BY <1>6 DEF LoadSegments
  <2>2. ASSUME NEW r \in DOMAIN segments
        PROVE  segments'[r] = IF r # "cs" THEN Selector(r) ELSE UNKNOWN
    <3>1. segments'[r] = CASE r = "cs" -> segments[r]
                           [] r = "ss" -> KERNEL_STACK_SELECTOR
                           [] OTHER -> KERNEL_DATA_SELECTOR
      BY <1>6, Zenon DEF LoadSegments
    <3> QED
      BY <2>1, <3>1 DEF Selector
  <2> QED
    BY <2>1, <2>2
<1>7. CASE FarReturn
  BY <1>7 DEF FarReturn, Selector
<1>8. CASE Leave \/ CallMain
  BY <1>8, <1>0 DEF Leave, CallMain, call, tables, Pc, LowPc, StackPc, InstallPc
<1> QED
  BY <1>1, <1>2, <1>3, <1>4, <1>5, <1>6, <1>7, <1>8 DEF Next

(* The frames on the stack and the loader's values, through each step.     *)
LEMMA FramesStep == BInv /\ [Next]_vars => Frames' /\ Handed'
<1> SUFFICES ASSUME BInv, [Next]_vars PROVE Frames' /\ Handed'
  OBVIOUS
<1>0. STACK_TOP \in Nat /\ STACK_TOP >= 48 /\ IsStack(stack)
  BY BootAssumption DEF BInv, Frames
<1>a. args = <<args[1], args[2]>>
  BY DEF BInv, Handed
<1> USE <1>0
<1>1. CASE UNCHANGED vars
  BY <1>1 DEF vars, BInv, Frames, Handed
<1>2. CASE SaveMagic \/ SetCr3 \/ EnablePse \/ EnablePaging \/ JumpHigh
  BY <1>2 DEF SaveMagic, SetCr3, EnablePse, EnablePaging, JumpHigh, BInv, Frames, Handed,
              LowPc, StackPc, InstallPc
<1>3. CASE SetStack
  <2> DEFINE one == store(stack, STACK_TOP - 12, ebx, 4)
             two == store(one, STACK_TOP - 16, esi, 4)
  <2>1. /\ stack' = two /\ esp' = STACK_TOP - 16 /\ pc' = "call_install" /\ args' = args
        /\ args = <<esi, ebx>>
    <3>1. /\ pc = "stack"
          /\ stack' = store(store(stack, STACK_TOP - 8 - 4, ebx, 4), STACK_TOP - 12 - 4, esi, 4)
      BY <1>3, Pushed, Zenon DEF SetStack
    <3>2. STACK_TOP - 8 - 4 = STACK_TOP - 12 /\ STACK_TOP - 12 - 4 = STACK_TOP - 16
      OBVIOUS
    <3> QED
      BY <1>3, <3>1, <3>2 DEF SetStack, BInv, Handed, LowPc
  <2>2. IsStack(one) /\ IsStack(two)
    BY StoredWithin
  <2>3. Stored(one, STACK_TOP - 12, ebx, 4)
    BY StoredHere
  <2> HIDE DEF one
  <2>4. Stored(two, STACK_TOP - 12, ebx, 4) /\ Stored(two, STACK_TOP - 16, esi, 4)
    BY <2>2, <2>3, StoredElsewhere, StoredHere
  <2> HIDE DEF two
  <2> QED
    BY <1>a, <2>1, <2>2, <2>4 DEF Frames, Handed, LowPc, StackPc, InstallPc, Depth
<1>4. CASE CallInstall
  <2>1. /\ pc' = "install" /\ esp' = STACK_TOP - 20 /\ args' = args
        /\ stack' = store(stack, STACK_TOP - 20, AFTER_INSTALL, 4)
    <3>1. pc = "call_install" /\ esp = STACK_TOP - 16
      BY <1>4 DEF CallInstall, BInv, Frames, StackPc, InstallPc, Depth
    <3> QED
      BY <1>4, <3>1 DEF CallInstall, call, push
  <2>2. Stored(stack, STACK_TOP - 16, args[1], 4) /\ Stored(stack, STACK_TOP - 12, args[2], 4)
    BY <1>4 DEF CallInstall, BInv, Frames, Handed, StackPc, InstallPc
  <2>3. /\ Stored(stack', STACK_TOP - 16, args[1], 4) /\ Stored(stack', STACK_TOP - 12, args[2], 4)
        /\ Stored(stack', STACK_TOP - 20, AFTER_INSTALL, 4) /\ IsStack(stack')
    BY <2>1, <2>2, StoredHere, StoredElsewhere, StoredWithin
  <2> QED
    BY <1>a, <2>1, <2>3 DEF Frames, Handed, LowPc, StackPc, InstallPc, Depth
<1>5. CASE CallMain
  <2>1. /\ pc' = "main" /\ esp' = STACK_TOP - 20 /\ args' = args
        /\ stack' = store(stack, STACK_TOP - 20, AFTER_MAIN, 4)
    <3>1. pc = "call_main" /\ esp = STACK_TOP - 16
      BY <1>5 DEF CallMain, BInv, Frames, StackPc, InstallPc, Depth
    <3> QED
      BY <1>5, <3>1 DEF CallMain, call, push
  <2>2. Stored(stack, STACK_TOP - 16, args[1], 4) /\ Stored(stack, STACK_TOP - 12, args[2], 4)
    BY <1>5 DEF CallMain, BInv, Frames, Handed, StackPc, InstallPc
  <2>3. /\ Stored(stack', STACK_TOP - 16, args[1], 4) /\ Stored(stack', STACK_TOP - 12, args[2], 4)
        /\ Stored(stack', STACK_TOP - 20, AFTER_MAIN, 4) /\ IsStack(stack')
    BY <2>1, <2>2, StoredHere, StoredElsewhere, StoredWithin
  <2> QED
    BY <1>a, <2>1, <2>3 DEF Frames, Handed, LowPc, StackPc, InstallPc, Depth
<1>6. CASE CallWrite
  <2>1. /\ pc' = "write" /\ esp' = STACK_TOP - 38 /\ args' = args
        /\ stack' = store(stack, STACK_TOP - 38, AFTER_WRITE, 4)
    <3>1. pc = "call_write" /\ esp = STACK_TOP - 34
      BY <1>6 DEF CallWrite, BInv, Frames, StackPc, InstallPc, Depth
    <3> QED
      BY <1>6, <3>1 DEF CallWrite, call, push
  <2>2. /\ Stored(stack, STACK_TOP - 34, GDT_BASE, 4)
        /\ Stored(stack, STACK_TOP - 30, STACK_TOP - 26, 4)
        /\ Stored(stack, STACK_TOP - 20, AFTER_INSTALL, 4)
        /\ Stored(stack, STACK_TOP - 16, args[1], 4) /\ Stored(stack, STACK_TOP - 12, args[2], 4)
    BY <1>6 DEF CallWrite, BInv, Frames, Handed, StackPc, InstallPc
  <2>3. /\ Stored(stack', STACK_TOP - 34, GDT_BASE, 4)
        /\ Stored(stack', STACK_TOP - 30, STACK_TOP - 26, 4)
        /\ Stored(stack', STACK_TOP - 20, AFTER_INSTALL, 4)
        /\ Stored(stack', STACK_TOP - 16, args[1], 4) /\ Stored(stack', STACK_TOP - 12, args[2], 4)
        /\ Stored(stack', STACK_TOP - 38, AFTER_WRITE, 4) /\ IsStack(stack')
    BY <2>1, <2>2, StoredHere, StoredElsewhere, StoredWithin
  <2> QED
    BY <1>a, <2>1, <2>3 DEF Frames, Handed, LowPc, StackPc, InstallPc, Depth
<1>7. CASE MakeGdtr
  <2> DEFINE one == store(stack, STACK_TOP - 30, STACK_TOP - 26, 4)
             two == store(one, STACK_TOP - 34, GDT_BASE, 4)
  <2>1. pc' = "call_write" /\ esp' = STACK_TOP - 34 /\ args' = args /\ stack' = two
    <3>1. pc = "install" /\ esp = STACK_TOP - 20
      BY <1>7 DEF MakeGdtr, BInv, Frames, StackPc, InstallPc, Depth
    <3> QED
      BY <1>7, <3>1 DEF MakeGdtr, push
  <2>2. /\ Stored(stack, STACK_TOP - 20, AFTER_INSTALL, 4)
        /\ Stored(stack, STACK_TOP - 16, args[1], 4) /\ Stored(stack, STACK_TOP - 12, args[2], 4)
    BY <1>7 DEF MakeGdtr, BInv, Frames, Handed, StackPc, InstallPc
  <2>3. /\ Stored(one, STACK_TOP - 20, AFTER_INSTALL, 4)
        /\ Stored(one, STACK_TOP - 16, args[1], 4) /\ Stored(one, STACK_TOP - 12, args[2], 4)
        /\ Stored(one, STACK_TOP - 30, STACK_TOP - 26, 4) /\ IsStack(one)
    BY <2>2, StoredHere, StoredElsewhere, StoredWithin
  <2> HIDE DEF one
  <2>4. /\ Stored(two, STACK_TOP - 20, AFTER_INSTALL, 4)
        /\ Stored(two, STACK_TOP - 16, args[1], 4) /\ Stored(two, STACK_TOP - 12, args[2], 4)
        /\ Stored(two, STACK_TOP - 30, STACK_TOP - 26, 4)
        /\ Stored(two, STACK_TOP - 34, GDT_BASE, 4)
        /\ IsStack(two)
    BY <2>3, StoredHere, StoredElsewhere, StoredWithin
  <2> HIDE DEF two
  <2> QED
    BY <1>a, <2>1, <2>4 DEF Frames, Handed, LowPc, StackPc, InstallPc, Depth
<1>8. CASE FarReturn
  <2> DEFINE one == store(stack, STACK_TOP - 30, KERNEL_CODE_SELECTOR, 4)
             two == store(one, STACK_TOP - 34, LABEL_2, 4)
  <2>1. pc' = "leave" /\ esp' = STACK_TOP - 26 /\ args' = args /\ stack' = two
    <3>1. pc = "far_return" /\ esp = STACK_TOP - 26
      BY <1>8 DEF FarReturn, BInv, Frames, StackPc, InstallPc, Depth
    <3> QED
      BY <1>8, <3>1 DEF FarReturn, push
  <2>2. /\ Stored(stack, STACK_TOP - 20, AFTER_INSTALL, 4)
        /\ Stored(stack, STACK_TOP - 16, args[1], 4) /\ Stored(stack, STACK_TOP - 12, args[2], 4)
    BY <1>8 DEF FarReturn, BInv, Frames, Handed, StackPc, InstallPc
  <2>3. /\ Stored(one, STACK_TOP - 20, AFTER_INSTALL, 4)
        /\ Stored(one, STACK_TOP - 16, args[1], 4) /\ Stored(one, STACK_TOP - 12, args[2], 4)
        /\ Stored(one, STACK_TOP - 30, KERNEL_CODE_SELECTOR, 4) /\ IsStack(one)
    BY <2>2, StoredHere, StoredElsewhere, StoredWithin
  <2> HIDE DEF one
  <2>4. /\ Stored(two, STACK_TOP - 20, AFTER_INSTALL, 4)
        /\ Stored(two, STACK_TOP - 16, args[1], 4) /\ Stored(two, STACK_TOP - 12, args[2], 4)
        /\ Stored(two, STACK_TOP - 30, KERNEL_CODE_SELECTOR, 4)
        /\ Stored(two, STACK_TOP - 34, LABEL_2, 4)
        /\ IsStack(two)
    BY <2>3, StoredHere, StoredElsewhere, StoredWithin
  <2> HIDE DEF two
  <2> QED
    BY <1>a, <2>1, <2>4 DEF Frames, Handed, LowPc, StackPc, InstallPc, Depth
<1>9. CASE WriteGdt
  <2> DEFINE scratch == 0 .. esp - 1 \cup esp + 4 .. esp + 11
             used == [a \in DOMAIN stack |-> IF a \in scratch THEN <<UNKNOWN, 0>> ELSE stack[a]]
             one == store(used, STACK_TOP - 26, gdt_limit, 2)
             two == store(one, STACK_TOP - 24, GDT_BASE, 4)
  <2>1. /\ esp = STACK_TOP - 38 /\ Stored(stack, STACK_TOP - 20, AFTER_INSTALL, 4)
        /\ Stored(stack, STACK_TOP - 16, args[1], 4) /\ Stored(stack, STACK_TOP - 12, args[2], 4)
        /\ Stored(stack, STACK_TOP - 34, GDT_BASE, 4)
        /\ Stored(stack, STACK_TOP - 30, STACK_TOP - 26, 4)
    BY <1>9 DEF WriteGdt, BInv, Frames, Handed, StackPc, InstallPc, Depth
  <2>2. load(stack, esp + 4, 4) = GDT_BASE /\ load(stack, esp + 8, 4) = STACK_TOP - 26
    BY <2>1, Loaded
  <2>3. pc' = "lgdt" /\ esp' = STACK_TOP - 34 /\ args' = args
    BY <1>9, <2>1 DEF WriteGdt
  <2>4. stack' = two
    <3>1. STACK_TOP - 26 + 2 = STACK_TOP - 24
      OBVIOUS
    <3> QED
      BY <1>9, <2>2, <3>1, Zenon DEF WriteGdt
  <2>5. /\ Stored(used, STACK_TOP - 20, AFTER_INSTALL, 4)
        /\ Stored(used, STACK_TOP - 16, args[1], 4) /\ Stored(used, STACK_TOP - 12, args[2], 4)
        /\ IsStack(used)
    <3>1. \A a \in STACK_TOP - 20 .. STACK_TOP - 1 : used[a] = stack[a]
      BY <2>1 DEF IsStack
    <3>2. IsStack(used)
      BY DEF IsStack
    <3> HIDE DEF used
    <3>3. ASSUME NEW at \in {STACK_TOP - 20, STACK_TOP - 16, STACK_TOP - 12}, NEW v,
                 Stored(stack, at, v, 4)
          PROVE  Stored(used, at, v, 4)
      BY <3>1, <3>3 DEF Stored
    <3> QED
      BY <2>1, <3>2, <3>3
  <2> HIDE DEF used
  <2>6. /\ Stored(one, STACK_TOP - 20, AFTER_INSTALL, 4)
        /\ Stored(one, STACK_TOP - 16, args[1], 4) /\ Stored(one, STACK_TOP - 12, args[2], 4)
        /\ Stored(one, STACK_TOP - 26, gdt_limit, 2) /\ IsStack(one)
    BY <2>5, StoredHere, StoredElsewhere, StoredWithin
  <2> HIDE DEF one
  <2>7. /\ Stored(two, STACK_TOP - 20, AFTER_INSTALL, 4)
        /\ Stored(two, STACK_TOP - 16, args[1], 4) /\ Stored(two, STACK_TOP - 12, args[2], 4)
        /\ Stored(two, STACK_TOP - 26, gdt_limit, 2) /\ Stored(two, STACK_TOP - 24, GDT_BASE, 4)
        /\ IsStack(two)
    BY <2>6, StoredHere, StoredElsewhere, StoredWithin
  <2> HIDE DEF two
  <2> QED
    BY <1>a, <2>3, <2>4, <2>7 DEF Frames, Handed, LowPc, StackPc, InstallPc, Depth
<1>10. CASE LoadGdtr \/ LoadSegments \/ Leave
  <2>1. /\ pc' \in {"segments", "far_return", "call_main"} /\ esp' = STACK_TOP - Depth[pc']
        /\ UNCHANGED <<stack, args>> /\ pc \in InstallPc
        /\ Stored(stack, STACK_TOP - 16, args[1], 4) /\ Stored(stack, STACK_TOP - 12, args[2], 4)
        /\ pc' # "call_main" => Stored(stack, STACK_TOP - 20, AFTER_INSTALL, 4)
    <3>1. pc' \in Pc
      BY ControlStep
    <3>2. pc \in {"lgdt", "segments", "leave"} /\ esp = STACK_TOP - Depth[pc]
      BY <1>10 DEF LoadGdtr, LoadSegments, Leave, BInv, Frames, StackPc, InstallPc
    <3> QED
      BY <1>10, <3>1, <3>2 DEF LoadGdtr, LoadSegments, Leave, BInv, Frames, Handed, Pc, LowPc, StackPc,
                               InstallPc, Depth
  <2> QED
    BY <1>a, <2>1 DEF Frames, Handed, LowPc, StackPc, InstallPc, Depth
<1> QED
  BY <1>1, <1>2, <1>3, <1>4, <1>5, <1>6, <1>7, <1>8, <1>9, <1>10 DEF Next

-----------------------------------------------------------------------------
(* The invariant holds, ...                                                *)

LEMMA InitBInv == Init => BInv
<1> SUFFICES ASSUME Init PROVE BInv
  OBVIOUS
<1> USE DEF Init, Pc, LowPc, StackPc, InstallPc
<1>1. pc \in Pc /\ Control
  BY Zenon DEF Control
<1>2. Handed
  BY DEF Handed
<1>3. Frames
  BY DEF Frames, IsStack
<1>4. Segments
  BY DEF Segments
<1> QED
  BY <1>1, <1>2, <1>3, <1>4 DEF BInv

LEMMA Invariance == Spec => []BInv
<1>1. BInv /\ [Next]_vars => BInv'
  BY ControlStep, SegmentsStep, FramesStep, Zenon DEF BInv
<1> QED
  BY InitBInv, <1>1, PTL DEF Spec

-----------------------------------------------------------------------------
(* ... and what it gives.                                                  *)

(* Under the bootstrap map a frame it covers is found at its own number    *)
(* and in the kernel half (PageDirectory::bootstrap).                      *)
LEMMA Bootstrapped ==
    ASSUME NEW f \in Index
    PROVE  LET mem == [d \in {BOOT_DIRECTORY} |-> bootstrap] IN
           /\ translate(mem, BOOT_DIRECTORY, f).frame = f
           /\ translate(mem, BOOT_DIRECTORY, high_page(f)).frame = f
<1> DEFINE e == for_huge_page(0, KERNEL_RW)
           mem == [d \in {BOOT_DIRECTORY} |-> bootstrap]
<1>1. e = 131 /\ FRAME_SIZE \in Nat /\ FRAME_SIZE > 131
  BY FrameSizeAssumption, EntryAssumption
  DEF for_huge_page, base_addr, PAGE_SIZE_BIT, KERNEL_RW, PRESENT, WRITABLE
<1>2. flags_of(e) = 131
  BY <1>1 DEF flags_of
<1>3. is_present(e) /\ is_huge(e)
  BY <1>1, <1>2 DEF is_present, is_huge, contains, PRESENT, PAGE_SIZE_BIT
<1>4. table_frame(e) = 0
  BY <1>1, <1>2 DEF table_frame, frame_floor
<1>5. f \in Nat /\ pd_index(f) = 0 /\ pt_index(f) = f
  BY EntryAssumption DEF pd_index, pt_index, Index
<1>6. pd_index(high_page(f)) = KERNEL_BASE /\ pt_index(high_page(f)) = f
  <2>1. high_page(f) = KERNEL_BASE * ENTRY_COUNT + f /\ KERNEL_BASE \in Nat
    BY BootMapAssumption, EntryAssumption DEF high_page, from_indices, Index
  <2> QED
    BY <2>1, EntryAssumption DEF pd_index, pt_index, Index
<1>7. mem[BOOT_DIRECTORY][0] = e /\ mem[BOOT_DIRECTORY][KERNEL_BASE] = e
  BY BootMapAssumption, EntryAssumption DEF bootstrap, Index
<1> HIDE DEF e, mem
<1>8. /\ translate(mem, BOOT_DIRECTORY, f).frame = f
      /\ translate(mem, BOOT_DIRECTORY, high_page(f)).frame = f
  BY <1>3, <1>4, <1>5, <1>6, <1>7 DEF translate
<1> QED
  BY <1>8 DEF mem

(* A flat descriptor: its access byte, and base, limit and flags that are  *)
(* the same for all (SegmentDescriptor::flat).                             *)
LEMMA Flat ==
    ASSUME NEW access
    PROVE  flat(access \cup shl(Ring0, 5)) = 0 .. 15 \cup {48, 49, 50, 51, 54, 55} \cup {b + 40 : b \in access}
<1> DEFINE high == {b - 16 : b \in (0 .. 19) \cap (16 .. 19)}
<1>1. shl(Ring0, 5) = {} /\ access \cup {} = access
  BY DEF shl, Ring0
<1>2. high = {0, 1, 2, 3}
  <2>1. (0 .. 19) \cap (16 .. 19) = {16, 17, 18, 19}
    OBVIOUS
  <2>2. {b - 16 : b \in {16, 17, 18, 19}} = {16 - 16, 17 - 16, 18 - 16, 19 - 16}
    BY Zenon
  <2> QED
    BY <2>1, <2>2
<1>3. shl({0, 1, 2, 3}, 48) = {48, 49, 50, 51} /\ shl({2, 3}, 52) = {54, 55}
  <2>1. /\ shl({0, 1, 2, 3}, 48) = {0 + 48, 1 + 48, 2 + 48, 3 + 48}
        /\ shl({2, 3}, 52) = {2 + 52, 3 + 52}
    BY Zenon DEF shl
  <2> QED
    BY <2>1
<1>4. (0 .. 19) \cap (0 .. 15) = 0 .. 15
  OBVIOUS
<1>5. flat(access) = ((0 .. 19) \cap (0 .. 15)) \cup shl(access, 40) \cup shl(high, 48) \cup shl({2, 3}, 52)
  BY Zenon DEF flat
<1> HIDE DEF high
<1>6. flat(access) = (0 .. 15) \cup shl(access, 40) \cup {48, 49, 50, 51} \cup {54, 55}
  BY <1>2, <1>3, <1>4, <1>5, Zenon
<1> QED
  BY <1>1, <1>6 DEF shl

(* The descriptors of ring 0 in the bootstrap table (Gdt::bootstrap).      *)
LEMMA Descriptors ==
    /\ DOMAIN bootstrap_gdt = 0 .. GDT_ENTRY_COUNT - 1
    /\ \A i \in {1, 2, 3} :
          LET d == bootstrap_gdt[i] IN
          /\ is_segment(d) /\ spans_everything(d) /\ is_32_bit(d) /\ privilege_of(d) = Ring0
          /\ IF i = 1 THEN is_executable(d) ELSE is_writable_data(d)
<1> DEFINE code == flat_code(Ring0)
           data == flat_data(Ring0)
<1>1. code = 0 .. 15 \cup {48, 49, 50, 51, 54, 55} \cup {47, 44, 43, 41}
  <2>1. {b + 40 : b \in {7, 4, 3, 1}} = {7 + 40, 4 + 40, 3 + 40, 1 + 40}
    BY Zenon
  <2>2. {b + 40 : b \in {7, 4, 3, 1}} = {47, 44, 43, 41}
    BY <2>1
  <2>3. flat({7, 4, 3, 1} \cup shl(Ring0, 5))
          = 0 .. 15 \cup {48, 49, 50, 51, 54, 55} \cup {b + 40 : b \in {7, 4, 3, 1}}
    BY Flat, Zenon
  <2> QED
    BY <2>2, <2>3, Zenon DEF flat_code
<1>2. data = 0 .. 15 \cup {48, 49, 50, 51, 54, 55} \cup {47, 44, 41}
  <2>1. {b + 40 : b \in {7, 4, 1}} = {7 + 40, 4 + 40, 1 + 40}
    BY Zenon
  <2>2. {b + 40 : b \in {7, 4, 1}} = {47, 44, 41}
    BY <2>1
  <2>3. flat({7, 4, 1} \cup shl(Ring0, 5))
          = 0 .. 15 \cup {48, 49, 50, 51, 54, 55} \cup {b + 40 : b \in {7, 4, 1}}
    BY Flat, Zenon
  <2> QED
    BY <2>2, <2>3, Zenon DEF flat_data
<1>3. bootstrap_gdt[1] = code /\ bootstrap_gdt[2] = data /\ bootstrap_gdt[3] = data
      /\ DOMAIN bootstrap_gdt = 0 .. GDT_ENTRY_COUNT - 1
  BY DEF bootstrap_gdt, GDT_ENTRY_COUNT
<1> HIDE DEF code, data
<1>4. is_segment(code) /\ spans_everything(code) /\ is_32_bit(code) /\ privilege_of(code) = Ring0
      /\ is_executable(code)
  BY <1>1 DEF is_segment, spans_everything, is_32_bit, privilege_of, is_executable, Ring0
<1>5. is_segment(data) /\ spans_everything(data) /\ is_32_bit(data) /\ privilege_of(data) = Ring0
      /\ is_writable_data(data)
  BY <1>2 DEF is_segment, spans_everything, is_32_bit, privilege_of, is_writable_data, Ring0
<1> QED
  BY <1>3, <1>4, <1>5

-----------------------------------------------------------------------------
(* The theorems.                                                           *)

(* ESP stays on the stack, the control registers take the values of the    *)
(* stub, and install_gdt returns to its caller (boot.asm).                 *)
THEOREM Type_Correct == Spec => []TypeOK
<1>1. BInv => TypeOK
  BY BootAssumption DEF BInv, Control, Frames, Depth, TypeOK, Pc, LowPc, StackPc, InstallPc
<1> QED
  BY Invariance, <1>1, PTL

(* Wherever the linker puts the stub, the kernel and the stack below the   *)
(* limit of the bootstrap map, every instruction up to kernel_main is      *)
(* fetched from where it was loaded and reaches its stack and the GDT.     *)
THEOREM Always_Mapped == Spec => []AlwaysMapped
<1>1. ASSUME BInv PROVE AlwaysMapped
  <2>1. LOW_FRAME \in Index /\ HIGH_FRAME \in Index /\ STACK_FRAME \in Index /\ 0 \in Index
    BY BootAssumption, EntryAssumption DEF Index
  <2>2. CASE ~paging
    <3>1. pc \in LowPc
      BY <1>1, <2>2, Zenon DEF BInv, Control, LowPc
    <3>2. Used = {<<LOW_FRAME, LOW_FRAME>>}
      BY <3>1 DEF Used, LowPc, StackPc, InstallPc
    <3> QED
      BY <2>2, <3>2 DEF AlwaysMapped, Reached
  <2>3. CASE paging
    <3>1. pse /\ cr3 = BOOT_DIRECTORY
      BY <1>1, <2>3, Zenon DEF BInv, Control
    <3>2. \A f \in Index : Reached(f) = f /\ Reached(high_page(f)) = f
      BY <2>3, <3>1, Bootstrapped DEF Reached
    <3>3. \A use \in Used : \E f \in Index : use \in {<<f, f>>, <<high_page(f), f>>}
      BY <2>1, Zenon DEF Used
    <3> QED
      BY <3>2, <3>3 DEF AlwaysMapped
  <2> QED
    BY <2>2, <2>3
<1> QED
  BY Invariance, <1>1, PTL

(* No segment register is ever loaded with a selector that the table does  *)
(* not back with the right kind of segment (install_gdt).                  *)
THEOREM Segments_Usable == Spec => []SegmentsUsable
<1>1. ASSUME BInv, NEW r \in DOMAIN segments, segments[r] # UNKNOWN
      PROVE  \E i \in DOMAIN gdt :
               /\ selects(segments[r], gdtr.limit, i) /\ gdtr.base = GDT_BASE
               /\ is_segment(gdt[i]) /\ spans_everything(gdt[i]) /\ is_32_bit(gdt[i])
               /\ privilege_of(gdt[i]) = Ring0
               /\ IF r = "cs" THEN is_executable(gdt[i]) ELSE is_writable_data(gdt[i])
  <2>1. /\ segments[r] = Selector(r) /\ gdt = bootstrap_gdt
        /\ gdtr.limit = gdt_limit /\ gdtr.base = GDT_BASE
    BY <1>1 DEF BInv, Segments
  <2> DEFINE i == IF r = "cs" THEN 1 ELSE IF r = "ss" THEN 3 ELSE 2
  <2>2. selects(segments[r], gdtr.limit, i) /\ i \in {1, 2, 3} /\ (i = 1 <=> r = "cs")
    BY <2>1 DEF selects, Selector, gdt_limit, GDT_ENTRY_COUNT, DESCRIPTOR_BYTES, KERNEL_CODE_SELECTOR,
                KERNEL_DATA_SELECTOR, KERNEL_STACK_SELECTOR
  <2>3. i \in DOMAIN gdt
    BY <2>1, <2>2, Descriptors DEF GDT_ENTRY_COUNT
  <2> QED
    BY <2>1, <2>2, <2>3, Descriptors
<1>2. BInv => SegmentsUsable
  BY <1>1 DEF SegmentsUsable
<1> QED
  BY Invariance, <1>2, PTL

(* Whatever the height of the stack, ESP is a multiple of 16 at both calls *)
(* of the stub.                                                            *)
THEOREM Stub_Calls_Aligned == Spec => []StubCallsAligned
<1>1. BInv => StubCallsAligned
  BY BootAssumption DEF BInv, Frames, Depth, StubCallsAligned, StackPc, InstallPc
<1> QED
  BY Invariance, <1>1, PTL

(* Whatever the loader left in EAX and EBX is what kernel_main finds under *)
(* its return address.                                                     *)
THEOREM Enters_With_Frame == Spec => []EntersWithFrame
<1>1. ASSUME BInv, pc = "main" PROVE FrameIntact
  <2>1. /\ esp = STACK_TOP - 20 /\ Stored(stack, STACK_TOP - 20, AFTER_MAIN, 4)
        /\ Stored(stack, STACK_TOP - 16, args[1], 4) /\ Stored(stack, STACK_TOP - 12, args[2], 4)
    BY <1>1 DEF BInv, Frames, Handed, Depth, StackPc
  <2>2. /\ load(stack, esp, 4) = AFTER_MAIN
        /\ load(stack, esp + 4, 4) = args[1] /\ load(stack, esp + 8, 4) = args[2]
    BY <2>1, Loaded, BootAssumption
  <2>3. \A r \in DOMAIN segments : segments[r] # UNKNOWN
    BY <1>1 DEF BInv, Segments, Selector, UNKNOWN, KERNEL_CODE_SELECTOR, KERNEL_DATA_SELECTOR,
                KERNEL_STACK_SELECTOR
  <2>4. args = <<args[1], args[2]>>
    BY <1>1 DEF BInv, Handed
  <2> QED
    BY <2>2, <2>3, <2>4, Zenon DEF FrameIntact
<1>2. BInv => EntersWithFrame
  BY <1>1 DEF EntersWithFrame
<1> QED
  BY Invariance, <1>2, PTL
=============================================================================
