------------------------------ MODULE MCKernel ------------------------------
(* Sixteen frames of 256 bytes, eight entries per table, the image at      *)
(* frames 3 to 6, and memory maps that leave enough or too few frames      *)
(* below the bootstrap limit at frame 8.                                   *)
EXTENDS Kernel

MCImage == [phys_start |-> 3, high |-> 4, data |-> 5, guard |-> 5, end |-> 7]

Between(first, last, available) ==
    [base |-> first, length |-> last - first, available |-> available]

(* Memory below the image and above it, with whole and with cut frames.    *)
MCMaps ==
    {<<Between(b, e, TRUE), Between(c, d, a)>> :
        b \in {0, 256, 257}, e \in {512, 767, 768},
        c \in {1792, 1793}, d \in {2047, 2048, 4095, 4096, 6000}, a \in BOOLEAN}
    \cup {<<>>, <<Between(0, 4095, TRUE)>>, <<Between(0, 4096, TRUE)>>,
          <<Between(2048, 4000, TRUE), Between(0, 2048, TRUE)>>}

MCMagics == {BOOTLOADER_MAGIC, 0}
MCLeftovers == {0, 7 * FRAME_SIZE + KERNEL_RW}
=============================================================================
