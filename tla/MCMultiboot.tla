---------------------------- MODULE MCMultiboot ----------------------------
(* Memory maps for model checking Multiboot: a usize of 7 bits, so that a  *)
(* buffer of three entries and an overflowing size both fit.               *)
EXTENDS Multiboot

Raw(size, base, length, kind) ==
    [size |-> size, base_addr |-> base, length |-> length, kind |-> kind]

(* Bare entries and ones with trailing fields; below 4 GiB, ending at it,  *)
(* crossing it, above it, overflowing u64; pairwise disjoint by position.  *)
FirstEntries == {Raw(s, 0, l, k) : s \in {20, 24}, l \in {0, 3}, k \in {1, 3}}
NextEntries == {Raw(s, b, l, k) : s \in {20, 28}, b \in {3, 6}, l \in {1, 2}, k \in {1, 4}}
LastEntries == {Raw(20, b, l, k) : b \in {8, 13, 20}, l \in {3, 8, 95}, k \in {1, 5}}

GoodLayouts ==
    {<<>>} \cup {<<f>> : f \in FirstEntries}
           \cup {<<f, n>> : f \in FirstEntries, n \in NextEntries}
           \cup {<<f, n, l>> : f \in {Raw(20, 0, 3, 1), Raw(24, 0, 3, 2)}, n \in NextEntries,
                               l \in LastEntries}

(* Sizes that make the step overflow, overrun the buffer or saturate.      *)
BadLayouts == {<<Raw(20, 0, 3, 1), Raw(s, 3, 2, 1)>> : s \in {0, 60, 123, 124, 127}}

(* Available regions that overlap.                                         *)
OverlappingLayouts == {<<Raw(20, 0, 3, 1), Raw(20, 1, l, k)>> : l \in {1, 4}, k \in {1, 3}}

AllLayouts == GoodLayouts \cup BadLayouts \cup OverlappingLayouts
MCLengths == {0, 23, 24, 27, 28, 48, 52, 72, 76, 83, 84}
MCStrays == {Raw(0, 0, 3, 1), Raw(5, 39, 40, 7)}
=============================================================================
