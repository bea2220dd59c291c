------------------------------ MODULE MCPaging ------------------------------
(* Small machines for Paging: tables of 4 entries, pages of 4 bytes, so    *)
(* that a segment of 6 pages or more loses one to the rounding.            *)
EXTENDS Paging

S(page, n) == [page |-> page, n |-> n]

(* Segments of 4 pages, a framebuffer that overlaps one of them, devices   *)
(* with a partial page.                                                    *)
Small == [segs |-> <<S(0, 16), S(4, 16), S(8, 16), S(12, 16), S(16, 16), S(20, 16),
                     S(6, 8), S(28, 4), S(29, 1)>>,
          frames |-> 24, avail |-> (1..23) \ {2, 3}, pml4 |-> 2, test |-> 153]

(* The first table is made in a left-out page, before CR3 is loaded. *)
EarlyTable == [segs |-> <<S(0, 40), S(10, 16), S(14, 16), S(18, 16)>>,
               frames |-> 22, avail |-> 9..21, pml4 |-> 2, test |-> 153]

(* One segment of 16 pages, of which 13 are mapped. *)
Large == [segs |-> <<S(0, 64), S(20, 4)>>,
          frames |-> 16, avail |-> {4, 5, 6, 7, 8, 9, 10, 12, 13, 14, 15}, pml4 |-> 2, test |-> 153]

(* The test page needs a table when only left-out frames remain. *)
LastTable == [segs |-> <<S(0, 64)>>,
         frames |-> 16, avail |-> {4, 5, 6, 7, 8, 9, 14, 15}, pml4 |-> 2, test |-> 153]

(* Frames run out during init. *)
Tight == [segs |-> <<S(0, 16), S(4, 16)>>,
          frames |-> 8, avail |-> {4, 5, 6}, pml4 |-> 2, test |-> 153]

(* The frames below the limit of TablePtr, 24, are used up on the way. *)
High == [segs |-> <<S(0, 16), S(4, 16), S(20, 16), S(24, 16)>>,
         frames |-> 28, avail |-> {5, 6, 7, 21, 22, 23, 24, 25, 26, 27}, pml4 |-> 2, test |-> 153]

MCMachines == {Small, EarlyTable, Large, LastTable, Tight, High}
=============================================================================
