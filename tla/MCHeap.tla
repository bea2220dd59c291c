------------------------------- MODULE MCHeap -------------------------------
(* Model-checking instances of Heap: pages of 8 bytes, headers of 2.       *)
EXTENDS Heap

(* No frame at all; and two runs of frames with a hole between them, so    *)
(* that new pages come to lie before, after and right behind old ones.     *)
MCPools == {{}, {1, 2, 3, 5, 6}}
(* Zero; a size that splits, fits exactly or leaves too little to split;   *)
(* more than a page; all that two pages hold; a request that two pages     *)
(* miss by less than a header.                                             *)
MCSizes == {0, 3, 10, 14, 15}
=============================================================================
