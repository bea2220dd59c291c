-------------------------------- MODULE Heap --------------------------------
(***************************************************************************)
(* The kernel heap, class Heap (memory/heap.cpp): a doubly linked list of  *)
(* blocks, each with a header of HDR bytes in front of its data.           *)
(*                                                                         *)
(* hdr maps the address of every block of the list to its header.  The     *)
(* walks along the list are modelled one block per step, so that a broken  *)
(* list shows as a walk that never ends.  Frames come from the physical    *)
(* allocator, of which only what FrameAllocator promises is used: any run  *)
(* of available frames, or a panic.                                        *)
(***************************************************************************)
EXTENDS Integers, FiniteSets

CONSTANTS
  PAGE_SZ,       \* bytes per page, 4096 in the kernel
  HDR,           \* sizeof(BlockHeader), 32 in the kernel
  Pools,         \* sets of page numbers the physical allocator may start with
  Sizes          \* arguments of malloc

NULL == 0

ASSUME HeapAssumption ==
  /\ PAGE_SZ \in Nat /\ HDR \in Nat \ {0} /\ HDR < PAGE_SZ
  /\ \A pool \in Pools : pool \subseteq Nat \ {0}
  /\ Sizes \subseteq Nat

VARIABLES
  pc,
  hdr,            \* address -> [prev, next, is_free, bytes]
  blocks,         \* _blocks, the head of the list
  block,          \* the block a walk is at
  fresh, fresh_bytes,    \* new block that is not in the list yet
  bytes,          \* argument of malloc
  avail,          \* frames the physical allocator has left
  owned,          \* history: pages the heap has obtained
  live,           \* history: address of an allocation -> bytes asked for
  null_write      \* history: a field of *nullptr was written

vars == <<pc, hdr, blocks, block, fresh, fresh_bytes, bytes, avail, owned, live, null_write>>

-----------------------------------------------------------------------------
(* Operators on a set of headers h.                                        *)

get_block_data_addr(b) == b + HDR
get_total_block_size(h, b) == HDR + h[b].bytes

are_blocks_contiguous(h, b, next_block) ==
  b # NULL /\ next_block # NULL /\ b + get_total_block_size(h, b) = next_block

FreeAndContiguous(h, b, next_block, other) ==
  other # NULL /\ h[other].is_free /\ are_blocks_contiguous(h, b, next_block)

(* A faulty merge that leaves the block after the merged ones pointing     *)
(* back at the one that is gone.                                           *)
AbsorbKeepsPrev(h, b, gone) ==
  [a \in DOMAIN h \ {gone} |->
     IF a = b THEN [h[b] EXCEPT !.bytes = @ + get_total_block_size(h, gone),
                                !.next = h[gone].next]
     ELSE h[a]]

(* A faulty merge that loses the bytes of the absorbed header. *)
AbsorbLosesHeader(h, b, gone) ==
  LET after == h[gone].next
  IN  [a \in DOMAIN h \ {gone} |->
         CASE a = b -> [h[b] EXCEPT !.bytes = @ + h[gone].bytes, !.next = after]
           [] a = after -> [h[a] EXCEPT !.prev = b]
           [] OTHER -> h[a]]

(* Block b absorbs the block `gone'.  Used for both merges of free.        *)
Absorb(h, b, gone) ==
  LET after == h[gone].next
  IN  [a \in DOMAIN h \ {gone} |->
         CASE a = b -> [h[b] EXCEPT !.bytes = @ + get_total_block_size(h, gone),
                                    !.next = after]
           [] a = after -> [h[a] EXCEPT !.prev = b]
           [] OTHER -> h[a]]

(* A faulty split that does not pay for the new header. *)
SplitFreeHeader(h, b, size) ==
  LET new == get_block_data_addr(b) + size
      after == h[b].next
  IN  [a \in DOMAIN h \cup {new} |->
         CASE a = new -> [prev |-> b, next |-> after, is_free |-> TRUE,
                          bytes |-> h[b].bytes - size]
           [] a = b -> [h[b] EXCEPT !.is_free = FALSE, !.bytes = size, !.next = new]
           [] a = after -> [h[a] EXCEPT !.prev = new]
           [] OTHER -> h[a]]

(* Block b keeps size bytes and is allocated, a new block gets the rest.   *)
Split(h, b, size) ==
  LET new == get_block_data_addr(b) + size
      after == h[b].next
  IN  [a \in DOMAIN h \cup {new} |->
         CASE a = new -> [prev |-> b, next |-> after, is_free |-> TRUE,
                          bytes |-> h[b].bytes - size - HDR]
           [] a = b -> [h[b] EXCEPT !.is_free = FALSE, !.bytes = size, !.next = new]
           [] a = after -> [h[a] EXCEPT !.prev = new]
           [] OTHER -> h[a]]

(* The block `new' of size bytes enters the list after b. *)
Insert(h, b, new, size) ==
  LET after == h[b].next
  IN  [a \in DOMAIN h \cup {new} |->
         CASE a = new -> [prev |-> b, next |-> after, is_free |-> TRUE, bytes |-> size]
           [] a = b -> [h[b] EXCEPT !.next = new]
           [] a = after -> [h[a] EXCEPT !.prev = new]
           [] OTHER -> h[a]]

-----------------------------------------------------------------------------
Init ==
  /\ pc = "new"
  /\ hdr = [a \in {} |-> 0]
  /\ blocks = NULL /\ block = NULL /\ fresh = NULL /\ fresh_bytes = 0 /\ bytes = 0
  /\ avail \in Pools /\ owned = {}
  /\ live = [p \in {} |-> 0]
  /\ null_write = FALSE

(* The constructor: one page, one free block. *)
Construct ==
  /\ pc = "new" /\ pc' = "idle"
  /\ \E page \in avail :
       /\ avail' = avail \ {page} /\ owned' = {page}
       /\ blocks' = page * PAGE_SZ
       /\ hdr' = [a \in {page * PAGE_SZ} |->
                    [prev |-> NULL, next |-> NULL, is_free |-> TRUE,
                     bytes |-> PAGE_SZ - HDR]]
  /\ UNCHANGED <<block, fresh, fresh_bytes, bytes, live, null_write>>

(* ASSERT(frame != nullptr) in the constructor. *)
ConstructFails ==
  /\ pc = "new" /\ avail = {} /\ pc' = "panic"
  /\ UNCHANGED <<hdr, blocks, block, fresh, fresh_bytes, bytes, avail, owned, live, null_write>>

CallMalloc(size) ==
  /\ pc = "idle" /\ pc' = IF size > 0 THEN "find" ELSE "panic"
  /\ bytes' = size /\ block' = blocks
  /\ UNCHANGED <<hdr, blocks, fresh, fresh_bytes, avail, owned, live, null_write>>

(* A faulty test that counts the header as usable space. *)
FitsWithHeader == hdr[block].is_free /\ get_total_block_size(hdr, block) >= bytes

(* A faulty test that leaves out a block of exactly the size. *)
FitsStrictly == hdr[block].is_free /\ hdr[block].bytes > bytes

(* _find_free_block, called before (pc = "find") and after ("find_again")  *)
(* the heap has grown.                                                     *)
Fits == hdr[block].is_free /\ hdr[block].bytes >= bytes

FindNext ==
  /\ pc \in {"find", "find_again"} /\ ~Fits /\ hdr[block].next # NULL
  /\ block' = hdr[block].next
  /\ UNCHANGED <<pc, hdr, blocks, fresh, fresh_bytes, bytes, avail, owned, live, null_write>>

(* The rest of malloc once a block is found: take it whole or split it. *)
Found ==
  /\ pc \in {"find", "find_again"} /\ Fits
  /\ hdr' = IF hdr[block].bytes - bytes <= HDR
            THEN [hdr EXCEPT ![block].is_free = FALSE]
            ELSE Split(hdr, block, bytes)
  /\ live' = [p \in DOMAIN live \cup {get_block_data_addr(block)} |->
                IF p = get_block_data_addr(block) THEN bytes ELSE live[p]]
  /\ pc' = "idle" /\ bytes' = 0 /\ block' = NULL
  /\ UNCHANGED <<blocks, fresh, fresh_bytes, avail, owned, null_write>>

pages == (bytes \div PAGE_SZ) + 1

(* No block fits: request_frames.  For one page its assertion on the       *)
(* length fails (pmem.cpp:162), so the heap only grows by two or more.     *)
Grow ==
  /\ pc = "find" /\ ~Fits /\ hdr[block].next = NULL
  /\ \/ /\ pages >= 2
        /\ \E first \in avail :
             /\ first..(first + pages - 1) \subseteq avail
             /\ avail' = avail \ (first..(first + pages - 1))
             /\ owned' = owned \cup (first..(first + pages - 1))
             /\ fresh' = first * PAGE_SZ
        /\ fresh_bytes' = pages * PAGE_SZ - HDR
        /\ pc' = "close" /\ block' = blocks
     \/ /\ \/ pages < 2
           \/ ~ \E first \in avail : first..(first + pages - 1) \subseteq avail
        /\ pc' = "panic" /\ block' = NULL
        /\ UNCHANGED <<fresh, fresh_bytes, avail, owned>>
  /\ UNCHANGED <<hdr, blocks, bytes, live, null_write>>

(* _find_block_close_before_addr; both comparisons are `less than'. *)
ClosePlace ==
  \/ hdr[block].next = NULL
  \/ block < fresh /\ hdr[block].next < fresh

CloseNext ==
  /\ pc = "close" /\ ~ClosePlace
  /\ block' = hdr[block].next
  /\ UNCHANGED <<pc, hdr, blocks, fresh, fresh_bytes, bytes, avail, owned, live, null_write>>

CloseInsert ==
  /\ pc = "close" /\ ClosePlace
  /\ hdr' = Insert(hdr, block, fresh, fresh_bytes)
  /\ pc' = "find_again" /\ block' = blocks
  /\ fresh' = NULL /\ fresh_bytes' = 0
  /\ UNCHANGED <<blocks, bytes, avail, owned, live, null_write>>

(* ASSERT(block != nullptr) after the heap has grown. *)
StillNothing ==
  /\ pc = "find_again" /\ ~Fits /\ hdr[block].next = NULL
  /\ pc' = "panic" /\ block' = NULL
  /\ UNCHANGED <<hdr, blocks, fresh, fresh_bytes, bytes, avail, owned, live, null_write>>

-----------------------------------------------------------------------------
(* free(ptr): merge with the next block, then into the previous one.  The  *)
(* second merge writes block->next->prev without looking whether there is  *)
(* a next block; page 0 is mapped, so that write goes unnoticed.           *)

MergeNext(h, b) == FreeAndContiguous(h, b, h[b].next, h[b].next)
MergePrev(h, b) == FreeAndContiguous(h, h[b].prev, b, h[b].prev)

(* A faulty free that only merges forward. *)
FreeForwardOnly(ptr) ==
  LET b == ptr - HDR
      h1 == [hdr EXCEPT ![b].is_free = TRUE]
  IN  /\ pc = "idle" /\ ptr \in DOMAIN live
      /\ hdr' = IF MergeNext(h1, b) THEN Absorb(h1, b, h1[b].next) ELSE h1
      /\ live' = [p \in DOMAIN live \ {ptr} |-> live[p]]
      /\ UNCHANGED <<pc, blocks, block, fresh, fresh_bytes, bytes, avail, owned, null_write>>

free(ptr) ==
  LET b == ptr - HDR
      h1 == [hdr EXCEPT ![b].is_free = TRUE]
      h2 == IF MergeNext(h1, b) THEN Absorb(h1, b, h1[b].next) ELSE h1
  IN  /\ pc = "idle" /\ ptr \in DOMAIN live
      /\ hdr' = IF MergePrev(h2, b) THEN Absorb(h2, h2[b].prev, b) ELSE h2
      /\ null_write' = (null_write \/ (MergePrev(h2, b) /\ h2[b].next = NULL))
      /\ live' = [p \in DOMAIN live \ {ptr} |-> live[p]]
      /\ UNCHANGED <<pc, blocks, block, fresh, fresh_bytes, bytes, avail, owned>>

Spin == pc = "panic" /\ UNCHANGED vars

InMalloc == FindNext \/ Found \/ Grow \/ CloseNext \/ CloseInsert \/ StillNothing

Next == \/ Construct \/ ConstructFails
        \/ \E size \in Sizes : CallMalloc(size)
        \/ InMalloc
        \/ \E ptr \in DOMAIN live : free(ptr)
        \/ Spin

(* malloc is straight-line code: once called it keeps running. *)
Fairness == WF_vars(Construct \/ ConstructFails) /\ WF_vars(InMalloc)

Spec == Init /\ [][Next]_vars /\ Fairness
-----------------------------------------------------------------------------
(* Properties.                                                             *)

Header == [prev : Nat, next : Nat, is_free : BOOLEAN, bytes : Nat]

(* Every variable has its type; a walk is always at a block of the list.   *)
TypeOK ==
  /\ pc \in {"new", "idle", "find", "close", "find_again", "panic"}
  /\ DOMAIN hdr \subseteq Nat /\ \A a \in DOMAIN hdr : hdr[a] \in Header
  /\ pc \in {"find", "close", "find_again"} => block \in DOMAIN hdr
  /\ blocks \in Nat /\ fresh \in Nat /\ fresh_bytes \in Nat /\ bytes \in Nat
  /\ avail \subseteq Nat /\ owned \subseteq Nat
  /\ DOMAIN live \subseteq Nat /\ \A p \in DOMAIN live : live[p] \in Nat
  /\ null_write \in BOOLEAN

(* The blocks of the list in the order a walk meets them. *)
Walk[k \in Nat] ==
  IF k = 0 THEN blocks
  ELSE LET b == Walk[k - 1] IN IF b = NULL THEN NULL ELSE hdr[b].next

(* The list is doubly linked and complete: .prev inverts .next, and a walk *)
(* from _blocks meets every block once and then ends.  Splits, insertions  *)
(* and merges each rewrite up to four links.  The variables keep their     *)
(* types: a walk is always at a block.                                     *)
ListLinked ==
  LET N == Cardinality(DOMAIN hdr)
  IN  /\ TypeOK
      /\ \A b \in DOMAIN hdr :
           /\ hdr[b].next # NULL => hdr[hdr[b].next].prev = b
           /\ hdr[b].prev # NULL => hdr[hdr[b].prev].next = b
      /\ {Walk[k] : k \in 0..N} = DOMAIN hdr \cup {NULL}

Extent(b) == b..(b + get_total_block_size(hdr, b) - 1)

(* The blocks tile the heap's pages: no byte of a page the heap obtained   *)
(* is in two blocks, none is lost by a split or a merge, no block reaches  *)
(* outside the pages, and no block is empty (the assertion in malloc).     *)
BlocksTile ==
  pc \notin {"new", "close"} =>
    /\ UNION {Extent(b) : b \in DOMAIN hdr} =
         UNION {(page * PAGE_SZ)..(page * PAGE_SZ + PAGE_SZ - 1) : page \in owned}
    /\ \A b, c \in DOMAIN hdr : b # c => Extent(b) \cap Extent(c) = {}
    /\ \A b \in DOMAIN hdr : hdr[b].bytes > 0

(* Between calls two neighbours in the list that touch are never both free *)
(* although malloc inserts new pages without merging.                      *)
NeighboursMerged ==
  pc \in {"idle", "find"} =>
    \A b \in DOMAIN hdr : hdr[b].is_free => ~MergeNext(hdr, b)

(* get_heap_stats: what one walk along the list counts. *)
get_heap_stats ==
  LET met == {Walk[k] : k \in 0..Cardinality(DOMAIN hdr)} \ {NULL}
  IN  [all_blocks |-> Cardinality(met),
       free_blocks |-> Cardinality({b \in met : hdr[b].is_free}),
       allocated_blocks |-> Cardinality({b \in met : ~hdr[b].is_free})]

(* The allocated blocks are exactly the live allocations, each at least as *)
(* large as was asked for and at most one header larger, and get_heap_     *)
(* stats reports their number.                                             *)
LiveBacked ==
  /\ DOMAIN live = {get_block_data_addr(b) : b \in {c \in DOMAIN hdr : ~hdr[c].is_free}}
  /\ \A p \in DOMAIN live : hdr[p - HDR].bytes - live[p] \in 0..HDR
  /\ get_heap_stats.allocated_blocks = Cardinality(DOMAIN live)

(* No step changes the size of a block that stays allocated, whatever its  *)
(* neighbours are split or merged into.                                    *)
OthersUntouched ==
  [][\A p \in DOMAIN live \cap DOMAIN live' :
       hdr'[p - HDR].bytes = hdr[p - HDR].bytes]_vars

(* A call of malloc returns or panics: no walk goes round for ever. *)
MallocEnds == pc = "find" ~> pc \in {"idle", "panic"}

Allocation == INSTANCE Malloc WITH stopped <- (pc = "panic")

(* The heap keeps the promise of Malloc: an allocation never overlaps one  *)
(* in use, nor is its block resized while it is in use; and malloc ends.   *)
KeepsMalloc == Allocation!Spec /\ OthersUntouched /\ MallocEnds

(* heap.cpp:183, "Set .prev of next block": free writes to a block.        *)
NullNeverWritten == ~null_write

(* heap.cpp:112-113: the second search, over the list with the new block   *)
(* in it, misses only a request that the new pages miss by less than a     *)
(* header; the assertion behind it fails for no other.                     *)
GrownBlockFits ==
  pc = "find_again" /\ ~Fits /\ hdr[block].next = NULL
    => bytes > pages * PAGE_SZ - HDR
=============================================================================
