----------------------------- MODULE KernelInv -----------------------------
(***************************************************************************)
(* The invariant the proofs about Kernel rest on, and what they need of    *)
(* the allocator and of paging.                                            *)
(***************************************************************************)
EXTENDS Kernel

(* What the composition relies on.                                         *)

(* The allocator keeps its invariants and makes the pool's steps; init     *)
(* stops at the regions that reach 4 GiB.                                  *)
AllocatorPromises ==
    /\ Alloc!Init => Alloc!IInv /\ Alloc!HintInv
    /\ Alloc!IInv /\ [Alloc!Next]_(Alloc!vars) => Alloc!IInv'
    /\ Alloc!IInv /\ Alloc!HintInv /\ [Alloc!Next]_(Alloc!vars) => Alloc!HintInv'
    /\ Alloc!IInv /\ [Alloc!Next]_(Alloc!vars) => [Alloc!Pool!Next]_(Alloc!Pool!vars)
    /\ \A region \in Region :
          Alloc!Overflowing(region) <=>
             ~Alloc!skips(region) /\ DEV_PROFILE /\ region.base + region.length >= LIMIT

(* Paging keeps its invariants, which say what is mapped and what was      *)
(* spent; an entry made for a table's frame leads back to it.              *)
PagingPromises ==
    /\ Tables!Init' => Tables!IInv'
    /\ Tables!IInv /\ [Tables!Next]_(Tables!vars) => Tables!IInv'
    /\ Tables!IInv => Tables!AddressSpaceExact /\ Tables!RecursiveWindow /\ Tables!NoWritableAlias
    /\ Tables!Init' => Tables!Spending'
    /\ Tables!IInv /\ Tables!Spending /\ [Tables!Next]_(Tables!vars) => Tables!Spending'
    /\ Tables!IInv /\ Tables!Spending =>
          (pg_pc = "panicked" => ~Tables!Sufficient) /\ (pg_pc = "done" => Tables!Sufficient)
    /\ \A t \in Nat : Tables!table_frame(Tables!for_table(t, Tables!KERNEL_RW)) = t

-----------------------------------------------------------------------------
(* The invariant.                                                          *)

Booting == {"entry", "print", "allocator"}
Searching == {"scan_hint", "scan_all", "occupy"}

(* Until the allocator is ready nothing of paging has happened.            *)
Unbuilt ==
    /\ image = IMAGE /\ pd_frame = BOOT_DIRECTORY /\ next_page = 0
    /\ \E word \in Leftovers :
          memory = [f \in 0 .. 2 * ENTRY_COUNT - 1 |->
                      IF f = BOOT_DIRECTORY THEN bootstrap ELSE [i \in Index |-> word]]
    /\ cr3 = BOOT_DIRECTORY /\ wp = FALSE /\ pg_pc = "directory"

(* The call has come back: with the lowest free frame in the only run, or  *)
(* with nothing because nothing is free.                                   *)
Answered ==
    IF reply.start = Alloc!NONE THEN runs = {} /\ Alloc!FreeFrames = {}
    ELSE /\ runs = {[start |-> reply.start, len |-> 1]}
         /\ \A f \in Alloc!FreeFrames : reply.start <= f

(* Paging holds no run except between allocate_one and alloc_frame.        *)
Link ==
    /\ stage \in Booting \cup {"paging", "idle", "panicked"} /\ asked \in BOOLEAN
    /\ stage \in Booting => fb_pc \in Alloc!BootPc /\ ~asked /\ Unbuilt
    /\ stage \in {"paging", "idle"} =>
          /\ Tables!IInv
          /\ ~asked => fb_pc = "ready" /\ runs = {}
          /\ asked => Tables!needs_frame
          /\ asked => (fb_pc \in Searching /\ runs = {}) \/ (fb_pc = "ready" /\ Answered)
    /\ stage = "idle" => pg_pc = "done" /\ ~asked

(* What paging keeps was usable and not the kernel's.                      *)
Kept_Usable == leaked \subseteq Published

KInv == Alloc!IInv /\ Alloc!HintInv /\ Link /\ Kept_Usable

-----------------------------------------------------------------------------
(* What print_memory_map has reported covers the frames of the regions it  *)
(* has gone through, and it went through all before the allocator began.   *)

(* Frames wholly inside the region, if it is available.                    *)
WholeFrames(region) ==
    {f \in FrameSet : region.available /\ region.base <= base_addr(f)
                       /\ base_addr(f + 1) <= region.base + region.length}

(* Frames wholly inside one of the first n regions.                        *)
CoveredBy(regions, n) == UNION {WholeFrames(regions[i]) : i \in 1 .. n}

Covered == CoveredBy(mmap, printed)

ReportInv ==
    /\ printed \in 0 .. Len(mmap) /\ usable_bytes \in Nat
    /\ base_addr(Cardinality(Covered)) <= usable_bytes
    /\ stage \in {"entry", "print"} => fb_pc = "region"
    /\ fb_pc # "region" \/ stage \in {"allocator", "paging", "idle"} => printed = Len(mmap)

-----------------------------------------------------------------------------
(* What each stage says of the checks passed, and why kernel_main gave up. *)
OutcomeInv ==
    /\ stage \in {"print", "allocator", "paging", "idle"} => magic = BOOTLOADER_MAGIC
    /\ stage \in {"allocator", "paging", "idle"} => has_map
    /\ stage \in {"paging", "idle"} => Tables!Spending
    /\ stage = "panicked" =>
          \/ magic # BOOTLOADER_MAGIC \/ ~has_map \/ fb_pc = "panicked"
          \/ /\ pg_pc = "panicked" /\ fb_pc = "ready"
             /\ Tables!IInv /\ Tables!Spending
=============================================================================
