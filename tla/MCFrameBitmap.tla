--------------------------- MODULE MCFrameBitmap ---------------------------
(* Memory maps and request sizes for model checking FrameBitmap.           *)
EXTENDS FrameBitmap

Avail(b, l) == [base |-> b, length |-> l, available |-> TRUE]
Other(b, l) == [base |-> b, length |-> l, available |-> FALSE]

(* A run of free frames covering a whole word and parts of its two         *)
(* neighbours, and two islands with odd edges around a reserved hole.      *)
TwoMaps == {<<Avail(0, 15)>>, <<Avail(0, 9), Other(9, 2), Avail(11, 6)>>}

(* Maps of at most two disjoint regions over a few bases and lengths, odd  *)
(* and even, empty or adjacent, in any order, that stay below 4 GiB, end   *)
(* at it, cross it, lie above it or overflow u64.                          *)
Regions(bases, lengths) == [base : bases, length : lengths, available : BOOLEAN]
Disjoint(r, q) == r.base + r.length <= q.base \/ q.base + q.length <= r.base
MapsOf(regions) ==
    {<<>>} \cup {<<r>> : r \in regions}
           \cup {m \in {<<r, q>> : r, q \in regions} : Disjoint(m[1], m[2])}
AllMaps == MapsOf(Regions({0, 1, 5, 9}, {1, 4, 8}))
           \cup MapsOf(Regions({0, 3, 12, 20}, {0, 6, 15, 40}))

(* Available memory that ends at 4 GiB.                                    *)
TopMaps == {<<Avail(0, 8), Avail(12, 6)>>}
=============================================================================
