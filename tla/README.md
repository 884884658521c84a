# A TLA+ model of zkrnl32

zkrnl32 is a small i386 kernel in Rust. GRUB loads it, a boot stub turns paging
on with two 4 MiB pages, and `kernel_main` prints the memory map, builds a
physical frame allocator from it and replaces the bootstrap map by its own page
directory. This directory models the kernel from the loader's jump to the idle
loop, and its fatal-error path. TLC checks the models on small instances; TLAPS
proves every safety property the passing runs check for every size: of the boot
stub, the memory map's walk, the allocator, the page directory, the two running
together, the console and the panic handler.

## The system

| Part | Source (under `src/`) | State | Operations | Modules |
|---|---|---|---|---|
| Boot stub | `boot/boot.asm`, `boot/linker.ld` | ESP, CR0, CR3, CR4, the stack | `_start`, `higher_half` | `Boot`, `BootMap` |
| GDT | `src/gdt.rs` | the table at 0x800, GDTR, segment registers | `write_gdt`, `install_gdt` | `Gdt`, `Boot` |
| Multiboot map | `src/multiboot.rs` | `offset`, the running total | `memory_map`, `next`, `print_memory_map`, `addressable_bytes` | `Multiboot`, `MemoryRegion` |
| Frame allocator | `src/memory/frame.rs`, `src/utils/bits.rs` | `bitmap`, `search_hint`, the runs callers own | `init`, `allocate`, `allocate_one`, `free`, dropping a run | `FrameBitmap`, `FramePool`, `Bits` |
| Addresses | `src/memory/address.rs` | none | rounding, indices | `Address`, `PageEntry` |
| Page directory | `src/memory/paging.rs`, `layout.rs` | the tables, CR3, CR0.WP | `init`, `map_bootstrap`, `alloc_frame`, `zero_frame` | `PageEntry`, `BootMap`, `Paging` |
| Kernel entry | `src/lib.rs`, `src/memory/mod.rs` | where `kernel_main` is | `kernel_main`, `memory::init` | `Kernel` |
| Console | `src/vga.rs`, `src/volatile.rs` | cursor, colour, the device's bytes | `write_byte`, `newline`, `scroll`, `clear`, `reset`, `_print_color`, `copy` | `Vga`, `Volatile`, `Terminal` |
| Fatal errors | `src/lib.rs`, `src/stack.rs` | `PANICKING`, the stack pointer, the screen | `panic`, `dump_stack_from` | `Panic`, `StackDump` |

The kernel runs on one core with interrupts disabled. What is hard is sequences of
calls (runs, hints and gaps), arithmetic at the edges of words, frames, buffers
and the address space, the moments when the address space or the stack changes
under the running code, stale data (the hint, the old contents of a frame, the
loader's structures), and a panic in the middle of something else, the panic
handler included. `PROJECT.json` lists each such hazard at its line.

## Modules

* **Address, Bits, MemoryRegion, PageEntry, BootMap, Gdt, Volatile** are operators:
  on addresses, bitmap words, memory regions, page entries, the bootstrap
  directory, segment descriptors and copies. A bitmap word or a descriptor is the
  set of its one bits. A page entry keeps the real layout, a frame address plus
  flag bits. `translate` is the processor's two-level walk, and `selects`,
  `is_segment` and their neighbours its reading of a descriptor (both external to
  the code).
* **Boot** is the stub and `install_gdt`, a few instructions per action. The stack is
  kept byte by byte, because `install_gdt` moves ESP by six. `WriteGdt` makes a
  compiled function do the worst its calling convention allows: it overwrites its
  argument slots, the scratch register and everything below its return address.
* **Multiboot** is the walk over the raw map, one action per entry. The loader packs
  entries of their own sizes; a read where no entry starts yields stray values.
  `DEV_PROFILE` says whether overflow panics (the Makefile's default) or wraps.
* **FramePool** is what the allocator promises: a set of free frames, runs taken
  from it and given back, and a refusal only when no gap is large enough.
* **FrameBitmap** is `FrameBitmap` and `FrameRun`, one action per loop iteration:
  `InitRegion` is the body of the region loop, `SetFreeWord`, `SetOccupiedWord`
  and `CheckWord` are one item of `word_masks` under `set_free`, `set_occupied`
  and `any_free_in`, `ScanFrame` is one frame of `scan_for_run`. `pc` names the
  loop in progress. Callers may allocate, free a run they own (Rust moves it, so
  only once) or drop it, which leaks it. usize arithmetic is modulo `LIMIT`.
* **Paging** is `paging::init`, one action per page mapped. Frames hold words, and
  every write goes through the translation in force (`behind`), so a write to a
  frame the bootstrap map does not cover would fault. `allocate_one` returns the
  lowest free frame: theorem `Lowest_First` is what allows this.
* **Kernel** composes them: `kernel_main` checks the magic, prints the map, lets
  `FrameBitmap` build the allocator and then runs `Paging`, each at its own grain.
  While paging waits for a frame the allocator's loops run; `alloc_frame` lets the
  run go, so the frame is never freed.
* **Terminal** is what the console promises: lines moving up one by one.
* **Vga** is the console on the device's two bytes per cell, one action per byte
  written; scrolling is the bytewise `copy` of `Volatile`.
* **StackDump** is `dump_stack_from`, dword by dword. **Panic** runs it inside the
  handler: kernel code that calls, returns, prints in colour, crosses the
  hand-over of paging (which unmaps the guard page) and may panic at any point,
  and a panic while the handler formats its message. There is no IDT, so a fault
  resets the processor. `HaltsForGood` is about panics with two calls' worth of
  stack left: nearer to the guard page the handler's own calls fault
  (`FaultInHandler`), and the code sets no stack aside for it.
* **MC...** modules give the constants values for TLC. **...Proofs** modules hold the
  theorems, **...Inv** modules the invariants their proofs rest on where another
  module needs them too. The proof of the composition is split into **KernelSteps**
  (its own steps) and **KernelProofs** (the components' part, and the theorems).

Definitions whose comment starts with "Faulty" are plausible mistakes in the code
(a dropped clip, a hint left in frames, an unzeroed table, ...). No specification
uses them; put in the place of the definition that follows, each makes TLC report
the property it is meant for.

## Runs

All are `tlc -config <cfg> <module>`.

| Run | Config | Checks | Result |
|---|---|---|---|
| stub | `Boot_stub.cfg` | `TypeOK`, `AlwaysMapped`, `SegmentsUsable`, `StubCallsAligned`, `EntersWithFrame` | hold, 192 states |
| map | `Multiboot_map.cfg` | `TypeOK`, `WalkYieldsLayout`, `UsableIsAvailableBytes`, `WalkAdvances`, `WalkTerminates` | hold, 39,113 states |
| calls | `FrameBitmap_calls.cfg` | `TypeOK`, `ExclusiveOwnership`, `ReservedNeverIssued`, `CallsReturn`, `PanicsOnlyOnOverflow`, `ImplementsPool` | hold, 280,762 states |
| boot | `FrameBitmap_boot.cfg` | `OnlyUsableIssued`, `NoFrameLost`, `PublishesBelowLimit`, `LowestFrameFirst` | hold, 658,398 states |
| paging | `Paging_init.cfg` | `TypeOK`, `AddressSpaceExact`, `RecursiveWindow`, `NoWritableAlias`, `SwitchIsSeamless`, `OnlyPagingFramesWritten`, `BootsWhenEnough` | hold, 9,552 states |
| kernel | `Kernel_boot.cfg` | `TablesAreOwned`, `FreeWithinReport`, `DrivesPaging`, `BootEnds` | hold, 19,588 states |
| console | `Vga_console.cfg` | `TypeOK`, `CopyIsMove`, `ImplementsTerminal` | hold, 31,932 states |
| halt | `Panic_halt.cfg` | `TypeOK`, `MessageStays`, `DumpStaysInside`, `DumpIsComplete`, `SecondPanicIsSilent`, `HaltsForGood` | hold, 10,160 states |
| top | `FrameBitmap_top.cfg` | `InitPublishesAvailable` | violated |
| info | `Paging_info.cfg` | `InfoIntact` | violated |
| release | `Multiboot_release.cfg` | `WalkTerminates` | violated |
| align | `Boot_align.cfg` | `CallsAligned` | violated |

The four violated runs are disagreements between the code and its own comments:

* **top**: `memory/mod.rs` says every fully available frame is freed. An available
  region that ends exactly at 4 GiB makes `base + bytes` (`frame.rs:117`) overflow:
  a panic in the debug profile; a release build wraps and drops the region. (In
  the same way a region covering all 4 GiB is truncated to 0 bytes by `as usize`,
  `frame.rs:111`, and skipped; `boot` includes such maps.)
* **info**: `lib.rs:68-70` says the Multiboot structure stays mapped and unmodified
  while `kernel_main` borrows it. Only frame 0 and the image are reserved, so if
  the loader put the structure into a low available frame, `paging::init` may be
  given that frame and zero it. Nothing reads the structure afterwards today.
* **release**: `multiboot.rs:98-99` says the walk always terminates because of the
  `+ 4`. In a release build an entry size of 2^32 - 4 makes the step 0, and the
  iterator returns the same entry for ever. The debug profile panics instead.
* **align**: `boot.asm` says the compiler relies on ESP being 16-byte aligned at
  calls. `install_gdt` calls `write_gdt` with ESP 14 modulo 16. The stub's own two
  calls are aligned (`StubCallsAligned`).

### Bounds

* Boot: the real descriptors, selectors and ESP arithmetic, 64 bytes of stack (the
  stub and `install_gdt` use 38; `BootAssumption` asks for 48), 16 entries per
  directory.
* Multiboot: the real entry size of 24 bytes; a usize of 7 bits, so that a buffer
  of three entries and a size that overflows both fit; up to three entries, with
  and without trailing fields, in buffers that end before, inside, at the end of
  and behind an entry; regions below, at, across and above 4 GiB (`LIMIT`), and
  one that overflows a u64; regions that overlap, for which `UsableIsAvailableBytes`
  claims nothing, since the code adds lengths. `MAX_YIELDED` only bounds the history.
* Allocator: 3 words of 3 bits, frames of 2 bytes. Three words are the least with
  a first, a whole middle and a last word in one range; three bits the least with
  a bit that is neither first nor last; two bytes the least that lets a region end
  inside a frame. Requests of 1, 2, 5 and 10 frames are one frame, a run within a
  word or across a boundary, a run touching three words, and more than there is.
* Memory maps: at most two regions, disjoint. GRUB resolves overlaps in what the
  firmware reports; the code does not subtract reserved regions and does not
  claim to. "Fully available" means inside one region: a frame that straddles two
  adjacent available regions is not published, by the code or by the definition.
* Paging: 16 entries per table, real flag bits, four image layouts with the guard
  page first, last and between the writable pages, every subset of seven frames
  below the image, above it, at the bootstrap limit and beyond, and frames filled
  with zeros or with words that read as present entries. The image is assumed to
  fit the bootstrap map (`PagingAssumption`), as the comment on
  `PageDirectory::bootstrap` says; the linker script does not enforce it.
* Kernel: 16 frames, 8 entries per table, one image, maps that leave enough or too
  few frames below the bootstrap limit, that reach or pass the top of memory, and
  one whose only region is the whole address space.
* Console: two columns, three rows: the least with a middle row and a middle of the
  line; two glyphs and two colours.
* Panic: the real screen height and dump length, a stack of six calls, messages of
  one to six rows, dumps from below, at the ends of, inside and above the stack.
* The allocator's and the kernel's runs use the debug profile. The allocator's
  theorems hold for both.

Deadlock checking is off where the model really ends: `kernel_main` is entered, the
map is printed, `init` is over, or the kernel has panicked, halted or reset.

### Fairness

Allocator: weak fairness of the code's own steps (`Step`), none of the callers'.
Multiboot, Paging and Kernel: weak fairness of `Next`. Panic: weak fairness
of the handler's steps, none of the code that panics. Once entered, this code runs
to its end, since nothing preempts it. The boot stub, a straight line of
instructions of which only safety is asked, and the console have none.

## Proofs

`tlapm <module>` checks a proof module. The assumptions are the named `ASSUME`s in
the component modules.

| Module | Theorem | States |
|---|---|---|
| `FrameBitmapProofs` | `TypeCorrect` | `Spec => []TypeOK`, the comment "search_hint <= WORD_COUNT" included |
| | `Ownership_Safe` | `Spec => []ExclusiveOwnership` |
| | `Reserved_Safe` | `Spec => []ReservedNeverIssued` |
| | `Usable_Only` | `Spec => []OnlyUsableIssued` |
| | `No_Frame_Lost` | `Spec => []NoFrameLost` |
| | `Panic_Free` | `Spec => PanicsOnlyOnOverflow`: nothing panics after boot, and during boot only `init`'s addition, in the dev profile, on a region that reaches 4 GiB |
| | `Refinement` | `Spec => ImplementsPool` |
| | `Lowest_First` | with `Counts = {1}`, `Spec => LowestFrameFirst` |
| `PagingProofs` | `TypeCorrect` | `Spec => []TypeOK`: no write faults |
| | `Address_Space` | `Spec => []AddressSpaceExact` |
| | `Recursive_Window` | `Spec => []RecursiveWindow` |
| | `No_Writable_Alias` | `Spec => []NoWritableAlias` |
| | `Only_Paging_Frames` | `Spec => OnlyPagingFramesWritten` |
| | `Seamless` | `Spec => SwitchIsSeamless` |
| | `Boots_Unless_Short` | with enough free frames under the bootstrap map `paging::init` never panics, without them it never completes |
| `PanicProofs` | `TypeCorrect` | `Spec => []TypeOK`: the dump's `st - addr` never underflows |
| | `Dump_Inside` | `Spec => []DumpStaysInside` |
| | `Dump_Complete` | `Spec => []DumpIsComplete` |
| | `Second_Silent` | `Spec => SecondPanicIsSilent` |
| | `Message_Stays` | `Spec => []MessageStays`, if the message, the dump and three more rows fit the screen |
| `VgaProofs` | `TypeCorrect` | `Spec => []TypeOK` |
| | `Copy_Is_Move` | `Spec => []CopyIsMove` |
| | `Refinement` | `Spec => ImplementsTerminal` |
| `KernelProofs` | `Drives_Paging` | `Spec => DrivesPaging`: with the bitmap behind it, paging makes only `Paging`'s steps |
| | `Tables_Owned` | `Spec => []TablesAreOwned` |
| | `Booted_Address_Space` | the idle kernel has `AddressSpaceExact`, `RecursiveWindow` and `NoWritableAlias` |
| | `Free_Within_Report` | `Spec => []FreeWithinReport` |
| | `Boot_Outcome` | if `BootSucceeds`, `kernel_main` never panics; if not, it never reaches the idle loop |
| `BootProofs` | `Type_Correct` | `Spec => []TypeOK` |
| | `Always_Mapped` | `Spec => []AlwaysMapped` |
| | `Segments_Usable` | `Spec => []SegmentsUsable` |
| | `Stub_Calls_Aligned` | `Spec => []StubCallsAligned` |
| | `Enters_With_Frame` | `Spec => []EntersWithFrame` |
| `MultibootProofs` | `Type_Correct` | `Spec => []TypeOK`, in both build profiles |
| | `Walk_Yields_Layout` | if no entry's size wraps, `Spec => []WalkYieldsLayout` |
| | `Usable_Is_Available_Bytes` | likewise, `Spec => []UsableIsAvailableBytes` |
| | `Walk_Advances` | likewise, `Spec => WalkAdvances` |

**Allocator.** Assumed: positive frame size, word size and word count, more than one
frame, the address space an exact number of frames, an image, not empty, inside it. Memory maps
need not be disjoint and may have any length. The properties are not inductive: in
the middle of a loop they depend on how far it has come. The inductive invariant
`IInv` adds that. `Shape` ties the loop variables together (a word walk stands at
the first frame it has not handled, a scan has counted the free frames just below
its position). `WalkProgress` says the handled frames are already set or cleared.
`ScanProgress` says the counted frames are free and that, in the full scan, no large
enough gap starts below them, which is what makes a refusal right. `Ownership`,
`Reservation`, `Usability` and `Delivery` carry the four safety properties through a
call and through boot: `Delivery` says that of the regions already handled every
whole frame is free, and that the region in progress is being published whole
(`PublishesAll`). `Checking` records that `init` has got past no region that
overflows and panicked only at one (`OverflowRegion` says which: those with `base +
length >= LIMIT`). `NoFrameLost` speaks of regions that end below 4 GiB, because the
others are lost or end in a panic (run top). The lemmas before it are the arithmetic
of words and frames (`DivMod`, `Split`, `Rounding`, `RegionFrames`) and what one
word of a walk changes (`WalkWord`, `FreedWord`, `OccupiedWord`). `Lowest_First`
needs one more invariant: no free frame lies below the hint's word, which holds only
while requests are single frames.

**Page directory.** For every table size, image layout, set of free frames and old
contents of frames; assumed are that the flag bits lie below a frame address
(`EntryAssumption`) and that the image fits the bootstrap map. `IInv` has three
parts: `Ranges` (the loop's position, the frames taken are distinct from the image
and covered by the bootstrap map), `Directory` (each directory slot is empty, the
recursive entry, or a table of its own among the frames taken) and `Filled` (every
table holds exactly the entries of the pages mapped so far). Only `Filled` relates
the words in memory to the loop, and all address-space properties follow from it
at the CR3 load. `Boots_Unless_Short` needs `Spending` besides: every frame taken is
the directory or the table of one slot, and a panic comes with at most two taken and
no reachable frame free. The image needs two tables and the directory (`NeedsThree`),
and the frames taken or still free under the bootstrap map (`Reachable`) stay the
same set (`SameBudget`), so whether they suffice is settled at the start.

**Fatal errors.** For every stack size, frame size, message length and dump window.
`IInv` is `Phase` (which values the guard, the entry count and the colours have at
each point), `Dumping` (the dwords read so far are those of the iterations done)
and `Screen` (how many rows have been printed, of which kind and colour).

**Console.** For every screen size. `CopyMoves` shows that after n elements, in
either direction, exactly the first n destinations hold the source's old bytes:
the element read next has not been overwritten yet. `Scrolled` and `Blanked` turn
that into lines; `CellBytes` is the correspondence of cells, bytes and lines. The
invariant is the type invariant, and each action is one of `Terminal` or a stutter.

**Composition.** For every size, memory map and image; assumed (`KernelAssumption`)
are the linker script's order of the image, that it lies under the bootstrap map
and inside the frames the bitmap covers, and that the bitmap covers the address
space. `KernelInv` states what each component promises on its own
(`AllocatorPromises`, `PagingPromises`) and the invariant `KInv`: the allocator's
invariants, what was leaked is usable, and `Link`, which says where each stage of
`kernel_main` leaves the two components. Nothing of paging has moved before the
allocator is ready; between calls no run is outstanding; a call that has come back
left either one run, the lowest free frame, or nothing because nothing was free.
This is what `Paging` assumes of its set of free frames. `KernelSteps` proves from
the promises that `KInv` is inductive, with `PagingStarts` (the free frames at the
hand-over avoid the image, because the allocator reserved it) and `FrameKept` (the
frame `alloc_frame` leaks leaves that set) as the two places where the components
meet. `KernelProofs` discharges the promises: it instantiates `FrameBitmapProofs` and
`PagingProofs`, shows that the components' assumptions follow from
`KernelAssumption`, and that these instances are the ones `Kernel` runs. Keeping the
instances out of `KernelSteps` keeps its contexts small.

Two more invariants rest on `KInv`. `ReportInv` says that the total printed so far is
at least the bytes of the frames wholly inside the regions printed so far, and that
all were printed before the allocator began; `RegionSpan` and `RegionCovers` are its
arithmetic: the whole frames of one clamped region, however it is aligned, take no
more bytes than `addressable_bytes` counts. Overlaps only make the total larger.
`OutcomeInv` says which checks each stage has behind it and why `kernel_main` gave
up. With `Delivery` and `Usability`, the frames paging is given, together with those
it has taken, are exactly the frames `init` was to publish (`AllGranted`): so the
condition of `Boots_Unless_Short` becomes one on the memory map alone, which is
`BootSucceeds`. It counts `Published` frames, those of regions that end below 4 GiB:
the attempt to prove it for all usable frames failed on a map whose only region is
the whole address space, which `init` skips because its length truncates to 0.

**Boot stub.** For every placement of the image, the stack and the loader's values.
`BInv` is `Control` (CR3, CR4.PSE and CR0.PG at each step), `Handed` (where the magic
and the info pointer are: in registers, then at the top of the stack), `Frames` (ESP
and what the calls in progress have on the stack, byte by byte) and `Segments` (the
table is complete before LGDT, the register before the segment registers).
`StoredHere` and its neighbours say what a store leaves of the values around it.

**Multiboot map.** For every layout, buffer length and profile. `NoWrap` (the dev
profile, or no entry whose size wraps when 4 is added) is the condition that run
release shows to be needed; `HistoryKeepsAll` says that `MAX_YIELDED` does not cut the
history the properties speak of. The entries' positions are a recursive function of
the layout; that it has the values it should (`StartsExist`, `StartsRecur`) is shown
by a least counterexample. In `WInv`, `Cursor` puts `offset` at the start of the entry
after the last one returned, or at the largest usize when that start is beyond it,
and the total is the number of bytes `Reported` by the entries returned, if their
regions are disjoint.

Only model-checked: the liveness properties (`CallsReturn`, `PublishesBelowLimit`,
`BootsWhenEnough`, `WalkTerminates`, `HaltsForGood`, `BootEnds`), which are beyond the
prover. Of `PublishesBelowLimit`, `BootsWhenEnough`, `WalkTerminates` and `BootEnds` the
safety half is proved: no wrong outcome is reached, and no frame or entry is missed
or visited twice.

## Not modelled

* Formatting: `Debug` and `Display` implementations, the wording of what is printed,
  and the `printk!` macros, which only pass their arguments on. Rows of text and
  colours are modelled where a property is about them.
* Helpers of `address.rs` that nothing calls (alignment tests, offsets, pointers).
* The caches and the TLB: a CR3 load flushes it and no global pages are used.
* Where the loader puts its structures: the code takes them to be low, and the
  models start from structures that can be read.
* Firmware regions that overlap (see Bounds).
* Non-maskable interrupts. The comment at `lib.rs:115-116` has one wake the halted
  processor, and the loop halt it again; with no IDT it would reset the processor as
  any fault does. `Halt` takes a wake-up to be one that returns, such as a system
  management interrupt.
* The kernel heap, which the docs name as a goal and the source does not contain
  yet.
