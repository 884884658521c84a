-------------------------------- MODULE Boot --------------------------------
(***************************************************************************)
(* From the loader's jump to _start to the first instruction of            *)
(* kernel_main: the boot stub (boot/boot.asm) and install_gdt with         *)
(* write_gdt (src/gdt.rs), a few instructions per action; pc names what    *)
(* runs next.  The stack is kept byte by byte, since install_gdt moves ESP *)
(* by six: byte k of a stored value v is <<v, k>>.                         *)
(***************************************************************************)
EXTENDS BootMap, Gdt

CONSTANTS STACK_TOP,       \* stack_top; the model's stack starts at address 0
          LOW_FRAME,       \* frame of .boot.text
          HIGH_FRAME,      \* frame of .text
          STACK_FRAME,     \* frame of the top of the stack
          Magics, Infos    \* what the loader may leave in EAX and EBX

ASSUME BootAssumption ==
    /\ STACK_TOP \in Nat /\ STACK_TOP % 16 = 0 /\ STACK_TOP >= 48   \* the stub uses 38 bytes
    /\ {LOW_FRAME, HIGH_FRAME, STACK_FRAME} \subseteq Index
    /\ Magics \subseteq Nat /\ Infos \subseteq Nat

VARIABLES eax, ebx, esi, esp,
          cr3, pse, paging,      \* CR3 as a frame; CR4.PSE; CR0.PG
          stack,                 \* byte address -> <<value, byte of it>>
          gdt, gdtr,             \* the table at GDT_BASE; the register
          segments,              \* segment registers
          args,                  \* what the loader handed over (history)
          pc

control == <<cr3, pse, paging>>
tables == <<gdt, gdtr, segments>>
vars == <<eax, ebx, esi, esp, control, stack, tables, args, pc>>

UNKNOWN == -1              \* whatever the loader, or a called function, left
AFTER_INSTALL == -2        \* return addresses and the label of the far return
AFTER_MAIN == -3
AFTER_WRITE == -4
LABEL_2 == -5

store(bytes, at, value, n) ==
    [a \in DOMAIN bytes |-> IF a \in at .. at + n - 1 THEN <<value, a - at>> ELSE bytes[a]]
load(bytes, at, n) ==
    LET value == bytes[at][1] IN
    IF \A k \in 0 .. n - 1 : bytes[at + k] = <<value, k>> THEN value ELSE UNKNOWN

push(bytes, sp, value) == store(bytes, sp - 4, value, 4)

Init ==
    /\ eax \in Magics /\ ebx \in Infos /\ args = <<eax, ebx>>
    /\ esi = UNKNOWN /\ esp = UNKNOWN
    /\ cr3 = UNKNOWN /\ pse = FALSE /\ paging = FALSE
    /\ stack = [a \in 0 .. STACK_TOP - 1 |-> <<UNKNOWN, 0>>]
    /\ gdt = [i \in 0 .. GDT_ENTRY_COUNT - 1 |-> {}]
    /\ gdtr = [limit |-> UNKNOWN, base |-> UNKNOWN]
    /\ segments = [r \in {"cs", "ds", "es", "fs", "gs", "ss"} |-> UNKNOWN]
    /\ pc = "start"

-----------------------------------------------------------------------------
(* _start.                                                                 *)

SaveMagic ==
    /\ pc = "start" /\ pc' = "cr3"
    /\ esi' = eax
    /\ UNCHANGED <<eax, ebx, esp, control, stack, tables, args>>

SetCr3 ==
    /\ pc = "cr3" /\ pc' = "pse"
    /\ cr3' = BOOT_DIRECTORY /\ eax' = UNKNOWN
    /\ UNCHANGED <<ebx, esi, esp, pse, paging, stack, tables, args>>

EnablePse ==
    /\ pc = "pse" /\ pc' = "paging"
    /\ pse' = TRUE /\ eax' = UNKNOWN
    /\ UNCHANGED <<ebx, esi, esp, cr3, paging, stack, tables, args>>

EnablePaging ==
    /\ pc = "paging" /\ pc' = "jump"
    /\ paging' = TRUE /\ eax' = UNKNOWN
    /\ UNCHANGED <<ebx, esi, esp, cr3, pse, stack, tables, args>>

JumpHigh ==
    /\ pc = "jump" /\ pc' = "stack"
    /\ UNCHANGED <<eax, ebx, esi, esp, control, stack, tables, args>>

(* Faulty: no padding under the two arguments.                             *)
SetStack_unpadded ==
    /\ pc = "stack" /\ pc' = "call_install"
    /\ esp' = STACK_TOP - 8
    /\ stack' = push(push(stack, STACK_TOP, ebx), STACK_TOP - 4, esi)
    /\ UNCHANGED <<eax, ebx, esi, control, tables, args>>

(* higher_half: the stack, eight bytes of padding, the two arguments.      *)
SetStack ==
    /\ pc = "stack" /\ pc' = "call_install"
    /\ esp' = STACK_TOP - 16
    /\ stack' = push(push(stack, STACK_TOP - 8, ebx), STACK_TOP - 12, esi)
    /\ UNCHANGED <<eax, ebx, esi, control, tables, args>>

call(target, after) ==
    /\ stack' = push(stack, esp, after) /\ esp' = esp - 4 /\ pc' = target

CallInstall ==
    /\ pc = "call_install" /\ call("install", AFTER_INSTALL)
    /\ UNCHANGED <<eax, ebx, esi, control, tables, args>>

CallMain ==
    /\ pc = "call_main" /\ call("main", AFTER_MAIN)
    /\ UNCHANGED <<eax, ebx, esi, control, tables, args>>

-----------------------------------------------------------------------------
(* install_gdt.                                                            *)

(* Faulty: two bytes of padding under the GDTR that are not taken back.    *)
MakeGdtr_padded ==
    /\ pc = "install" /\ pc' = "call_write"
    /\ eax' = esp - 8 /\ esp' = esp - 16
    /\ stack' = push(push(stack, esp - 8, esp - 8), esp - 12, GDT_BASE)
    /\ UNCHANGED <<ebx, esi, control, tables, args>>

(* Six bytes for the GDTR, its address and GDT_BASE as arguments.          *)
MakeGdtr ==
    /\ pc = "install" /\ pc' = "call_write"
    /\ eax' = esp - 6 /\ esp' = esp - 14
    /\ stack' = push(push(stack, esp - 6, esp - 6), esp - 10, GDT_BASE)
    /\ UNCHANGED <<ebx, esi, control, tables, args>>

CallWrite ==
    /\ pc = "call_write" /\ call("write", AFTER_WRITE)
    /\ UNCHANGED <<eax, ebx, esi, control, tables, args>>

(* Faulty: the limit is the size of the table in entries.                  *)
gdt_limit_in_entries == GDT_ENTRY_COUNT - 1

gdt_limit == GDT_ENTRY_COUNT * DESCRIPTOR_BYTES - 1

(* write_gdt, up to its return.  As any C function it may use the scratch  *)
(* registers, its arguments' slots and the stack below its return address. *)
WriteGdt ==
    /\ pc = "write" /\ pc' = "lgdt"
    /\ LET dst_addr == load(stack, esp + 4, 4)
           out_gdtr == load(stack, esp + 8, 4)
           scratch == 0 .. esp - 1 \cup esp + 4 .. esp + 11
           used == [a \in DOMAIN stack |-> IF a \in scratch THEN <<UNKNOWN, 0>> ELSE stack[a]]
       IN  /\ stack' = store(store(used, out_gdtr, gdt_limit, 2), out_gdtr + 2, dst_addr, 4)
           /\ gdt' = IF dst_addr = GDT_BASE THEN bootstrap_gdt ELSE gdt
    /\ eax' = UNKNOWN /\ esp' = esp + 4
    /\ UNCHANGED <<ebx, esi, control, gdtr, segments, args>>

(* The arguments are dropped and the GDTR loaded from under them.          *)
LoadGdtr ==
    /\ pc = "lgdt" /\ pc' = "segments"
    /\ esp' = esp + 8
    /\ gdtr' = [limit |-> load(stack, esp + 8, 2), base |-> load(stack, esp + 10, 4)]
    /\ UNCHANGED <<eax, ebx, esi, control, stack, gdt, segments, args>>

LoadSegments ==
    /\ pc = "segments" /\ pc' = "far_return"
    /\ segments' = [r \in DOMAIN segments |->
                      CASE r = "cs" -> segments[r]
                        [] r = "ss" -> KERNEL_STACK_SELECTOR
                        [] OTHER -> KERNEL_DATA_SELECTOR]
    /\ eax' = KERNEL_STACK_SELECTOR
    /\ UNCHANGED <<ebx, esi, esp, control, stack, gdt, gdtr, args>>

(* push selector, push label, retf: the stack ends where it was.           *)
FarReturn ==
    /\ pc = "far_return" /\ pc' = "leave"
    /\ stack' = push(push(stack, esp, KERNEL_CODE_SELECTOR), esp - 4, LABEL_2)
    /\ segments' = [segments EXCEPT !["cs"] = KERNEL_CODE_SELECTOR]
    /\ eax' = LABEL_2
    /\ UNCHANGED <<ebx, esi, esp, control, gdt, gdtr, args>>

(* Faulty: the return takes an argument off the stack as well (ret 4).     *)
Leave_too_far ==
    /\ pc = "leave" /\ pc' = "call_main"
    /\ esp' = esp + 14
    /\ UNCHANGED <<eax, ebx, esi, control, stack, tables, args>>

(* add esp, 6; ret, to the address found on the stack.                     *)
Leave ==
    /\ pc = "leave"
    /\ pc' = IF load(stack, esp + 6, 4) = AFTER_INSTALL THEN "call_main" ELSE "lost"
    /\ esp' = esp + 10
    /\ UNCHANGED <<eax, ebx, esi, control, stack, tables, args>>

Next ==
    \/ SaveMagic \/ SetCr3 \/ EnablePse \/ EnablePaging \/ JumpHigh \/ SetStack
    \/ CallInstall \/ MakeGdtr \/ CallWrite \/ WriteGdt \/ LoadGdtr \/ LoadSegments
    \/ FarReturn \/ Leave \/ CallMain

Spec == Init /\ [][Next]_vars

-----------------------------------------------------------------------------
(* Properties.                                                             *)

LowPc == {"start", "cr3", "pse", "paging", "jump"}
InstallPc == {"install", "call_write", "write", "lgdt", "segments", "far_return", "leave"}
StackPc == InstallPc \cup {"call_install", "call_main", "main"}

TypeOK ==
    /\ esp \in {UNKNOWN} \cup 0 .. STACK_TOP
    /\ cr3 \in {UNKNOWN, BOOT_DIRECTORY} /\ pse \in BOOLEAN /\ paging \in BOOLEAN
    /\ pc \in LowPc \cup StackPc \cup {"stack"}

(* Where an access to a page ends: with paging off, in the frame of that   *)
(* number; a huge-page entry without CR4.PSE faults (boot.asm).            *)
Reached(page) ==
    IF ~paging THEN page
    ELSE IF ~pse \/ cr3 # BOOT_DIRECTORY THEN FAULT.frame
    ELSE translate([f \in {BOOT_DIRECTORY} |-> bootstrap], cr3, page).frame

(* The page an item is linked at, and the frame it was loaded into, for    *)
(* what the next instruction uses: its own bytes, the stack, the GDT.      *)
Used ==
    {IF pc \in LowPc THEN <<LOW_FRAME, LOW_FRAME>> ELSE <<high_page(HIGH_FRAME), HIGH_FRAME>>}
    \cup (IF pc \in StackPc THEN {<<high_page(STACK_FRAME), STACK_FRAME>>} ELSE {})
    \cup (IF pc \in {"write", "segments", "far_return"} THEN {<<0, 0>>} ELSE {})

(* Every instruction is fetched from where it was loaded, and reaches the  *)
(* stack and the GDT, while CR3, CR4.PSE, CR0.PG and EIP change one after  *)
(* the other (boot.asm: "we keep running only because PDE[0] identity-maps *)
(* the low memory this code sits in").                                     *)
AlwaysMapped == \A use \in Used : Reached(use[1]) = use[2]

(* Every loaded segment register names a present, flat, 32-bit descriptor  *)
(* of ring 0 inside the table: code for CS, writable data for the others.  *)
SegmentsUsable ==
    \A r \in DOMAIN segments : segments[r] # UNKNOWN =>
        \E i \in DOMAIN gdt :
            /\ selects(segments[r], gdtr.limit, i) /\ gdtr.base = GDT_BASE
            /\ is_segment(gdt[i]) /\ spans_everything(gdt[i]) /\ is_32_bit(gdt[i])
            /\ privilege_of(gdt[i]) = Ring0
            /\ IF r = "cs" THEN is_executable(gdt[i]) ELSE is_writable_data(gdt[i])

(* The frame of kernel_main, as the loader left its arguments in EAX and   *)
(* EBX, and all segment registers reloaded.                                *)
FrameIntact ==
    /\ load(stack, esp, 4) = AFTER_MAIN
    /\ <<load(stack, esp + 4, 4), load(stack, esp + 8, 4)>> = args
    /\ \A r \in DOMAIN segments : segments[r] # UNKNOWN

(* kernel_main never starts without its frame, through all that clobbers   *)
(* registers and stack in between (boot.asm: "install_gdt takes no         *)
(* arguments and returns ESP unchanged, so the frame survives").           *)
EntersWithFrame == pc = "main" => FrameIntact

(* ESP is a multiple of 16 at both calls of the stub (boot.asm: "keep ESP  *)
(* 16-byte aligned at both calls below").                                  *)
StubCallsAligned == pc \in {"call_install", "call_main"} => esp % 16 = 0

(* ESP is a multiple of 16 at every call of a compiled function (boot.asm: *)
(* "the SysV i386 ABI's 16-byte requirement, which the compiler relies     *)
(* on").                                                                   *)
CallsAligned == pc \in {"call_write", "call_main"} => esp % 16 = 0
=============================================================================
