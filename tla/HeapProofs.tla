----------------------------- MODULE HeapProofs -----------------------------
(***************************************************************************)
(* Proofs about Heap, for every page size, header size, pool of frames and *)
(* set of request sizes.                                                   *)
(*                                                                         *)
(* The links are related to the order of the blocks, a function ord from   *)
(* 0..(n - 1) to the addresses: ord[0] is _blocks and .next leads from     *)
(* ord[i] to ord[i + 1].  What a walk has passed is what lies before its   *)
(* block in that order.  The end of the module counts blocks: an induction *)
(* over the natural numbers shows which block the recursive function Walk  *)
(* gives for every number of steps, so what a walk of the whole list meets.*)
(***************************************************************************)
EXTENDS Heap, TLAPS

(* A step that names no prover is left to Zenon. *)
USE ZenonT(30)

(* The blocks of h in the order of a walk from `first'. *)
InOrder(h, first, n, ord) ==
  /\ ord \in [0..(n - 1) -> DOMAIN h]
  /\ \A b \in DOMAIN h : \E i \in 0..(n - 1) : ord[i] = b
  /\ \A i, j \in 0..(n - 1) : ord[i] = ord[j] => i = j
  /\ ord[0] = first
  /\ \A i \in 0..(n - 1) :
       /\ h[ord[i]].next = IF i + 1 < n THEN ord[i + 1] ELSE NULL
       /\ h[ord[i]].prev = IF i > 0 THEN ord[i - 1] ELSE NULL

List(h, first) ==
  \E n \in Nat \ {0} : \E ord \in [0..(n - 1) -> DOMAIN h] : InOrder(h, first, n, ord)

FitsAt(h, b, size) == h[b].is_free /\ h[b].bytes >= size

(* A walk that looks for size bytes is at b: no block before it fits. *)
WalkAt(h, first, b, size) ==
  \E n \in Nat \ {0} : \E ord \in [0..(n - 1) -> DOMAIN h] :
    /\ InOrder(h, first, n, ord)
    /\ \E i \in 0..(n - 1) : ord[i] = b /\ \A j \in 0..(i - 1) : ~FitsAt(h, ord[j], size)

End(h, b) == b + HDR + h[b].bytes

(* Blocks have addresses and sizes, and no two of them overlap. *)
Apart(h) ==
  /\ DOMAIN h \subseteq Nat \ {0}
  /\ \A b \in DOMAIN h : h[b] \in Header /\ h[b].bytes > 0
  /\ \A b, c \in DOMAIN h : b # c => End(h, b) <= c \/ End(h, c) <= b

InPages(own, x) == \E page \in own : page * PAGE_SZ <= x /\ x < page * PAGE_SZ + PAGE_SZ
InBlocks(h, x) == \E b \in DOMAIN h : b <= x /\ x < End(h, b)

SameBytes(h, h2) == \A x \in Nat : InBlocks(h2, x) <=> InBlocks(h, x)

(* No free block touches a free block after it; or only the one before b *)
(* may; or only b and the one before c.                                    *)
Unmerged(h) == \A a \in DOMAIN h : h[a].is_free => ~MergeNext(h, a)
UnmergedBut(h, b) == \A a \in DOMAIN h : h[a].is_free /\ h[a].next # b => ~MergeNext(h, a)
UnmergedBeside(h, b, c) ==
  \A a \in DOMAIN h \ {b} : h[a].is_free /\ h[a].next # c => ~MergeNext(h, a)

PagesFor(size) == (size \div PAGE_SZ) + 1

(* The block g that was inserted last: it is free, no other block fits the *)
(* request, and only the block before g may need to be merged.             *)
Grown(h, size) ==
  \E g \in DOMAIN h :
    /\ h[g].is_free /\ h[g].bytes = PagesFor(size) * PAGE_SZ - HDR
    /\ \A a \in DOMAIN h \ {g} : ~FitsAt(h, a, size)
    /\ UnmergedBut(h, g)

(* The allocations of lv are the blocks of h that are not free. *)
Backed(h, lv) ==
  /\ \A p \in DOMAIN lv :
       /\ p \in Nat /\ lv[p] \in Nat \ {0}
       /\ p - HDR \in DOMAIN h /\ ~h[p - HDR].is_free /\ h[p - HDR].bytes - lv[p] \in 0..HDR
  /\ \A b \in DOMAIN h : ~h[b].is_free => b + HDR \in DOMAIN lv

-----------------------------------------------------------------------------
(* The inductive invariant.                                                *)

Types ==
  /\ pc \in {"new", "idle", "find", "close", "find_again", "panic"}
  /\ fresh \in Nat /\ fresh_bytes \in Nat /\ bytes \in Nat
  /\ null_write \in BOOLEAN
  /\ avail \subseteq Nat \ {0} /\ owned \subseteq Nat \ {0} /\ avail \cap owned = {}

(* Before the constructor has a page. *)
Empty ==
  /\ pc \in {"new", "panic"}
  /\ hdr = [a \in {} |-> 0] /\ live = [p \in {} |-> 0] /\ owned = {} /\ blocks = NULL

(* The pages that malloc has requested and not yet put into the list. *)
InFresh(x) == pc = "close" /\ fresh <= x /\ x < fresh + HDR + fresh_bytes

Covered == \A x \in Nat : InBlocks(hdr, x) \/ InFresh(x) <=> InPages(owned, x)

(* How far a call of malloc has come. *)
Progress ==
  /\ pc \in {"idle", "find", "close"} => Unmerged(hdr)
  /\ pc \in {"find", "close", "find_again"} => bytes > 0
  /\ pc \in {"find", "find_again"} => WalkAt(hdr, blocks, block, bytes)
  /\ pc = "find_again" => Grown(hdr, bytes)
  /\ pc = "close" =>
       /\ block \in DOMAIN hdr /\ fresh > 0
       /\ fresh_bytes > 0 /\ fresh_bytes = PagesFor(bytes) * PAGE_SZ - HDR
       /\ \A b \in DOMAIN hdr : End(hdr, b) <= fresh \/ fresh + HDR + fresh_bytes <= b
       /\ \A b \in DOMAIN hdr : ~FitsAt(hdr, b, bytes)

Made ==
  /\ pc # "new"
  /\ Apart(hdr) /\ List(hdr, blocks) /\ Backed(hdr, live)
  /\ Covered /\ Progress

HeapInv == Types /\ (Empty \/ Made)

-----------------------------------------------------------------------------
(* The links.                                                              *)

(* Every block is somewhere in the order; its neighbours are beside it. *)
LEMMA OrderLinks ==
  ASSUME NEW h, NEW first, NEW n \in Nat \ {0}, NEW ord,
         InOrder(h, first, n, ord), DOMAIN h \subseteq Nat \ {0}, NEW b \in DOMAIN h
  PROVE  /\ h[b].next # NULL =>
              h[b].next \in DOMAIN h /\ h[b].next # b /\ h[h[b].next].prev = b
         /\ h[b].prev # NULL =>
              h[b].prev \in DOMAIN h /\ h[b].prev # b /\ h[h[b].prev].next = b
         /\ h[b].next # NULL => h[b].next # h[b].prev
         /\ first \in DOMAIN h
<1>1. PICK i \in 0..(n - 1) : ord[i] = b
  BY DEF InOrder
<1>2. h[b].next = (IF i + 1 < n THEN ord[i + 1] ELSE NULL)
      /\ h[b].prev = (IF i > 0 THEN ord[i - 1] ELSE NULL)
  BY <1>1 DEF InOrder
<1>3. ASSUME h[b].next # NULL
      PROVE  h[b].next \in DOMAIN h /\ h[b].next # b /\ h[h[b].next].prev = b
  <2>1. i + 1 \in 0..(n - 1) /\ h[b].next = ord[i + 1]
    BY <1>2, <1>3, SMTT(30)
  <2>2. h[ord[i + 1]].prev = IF i + 1 > 0 THEN ord[(i + 1) - 1] ELSE NULL
    BY <2>1 DEF InOrder
  <2>3. i + 1 > 0 /\ (i + 1) - 1 = i /\ i # i + 1
    BY SMTT(30)
  <2> QED BY <1>1, <2>1, <2>2, <2>3, SMTT(30) DEF InOrder
<1>4. ASSUME h[b].prev # NULL
      PROVE  h[b].prev \in DOMAIN h /\ h[b].prev # b /\ h[h[b].prev].next = b
  <2>1. i - 1 \in 0..(n - 1) /\ h[b].prev = ord[i - 1] /\ i - 1 + 1 = i /\ i < n
    BY <1>2, <1>4, SMTT(30)
  <2>2. h[ord[i - 1]].next = IF (i - 1) + 1 < n THEN ord[(i - 1) + 1] ELSE NULL
    BY <2>1 DEF InOrder
  <2>3. i # i - 1
    BY SMTT(30)
  <2> QED BY <1>1, <2>1, <2>2, <2>3, SMTT(30) DEF InOrder
<1>5. ASSUME h[b].next # NULL PROVE h[b].next # h[b].prev
  <2>1. i + 1 \in 0..(n - 1) /\ h[b].next = ord[i + 1]
    BY <1>2, <1>5, SMTT(30)
  <2>2. CASE i > 0
    <3>1. i - 1 \in 0..(n - 1) /\ h[b].prev = ord[i - 1] /\ i - 1 # i + 1
      BY <1>2, <2>2, SMTT(30)
    <3> QED BY <2>1, <3>1 DEF InOrder
  <2>3. CASE ~(i > 0)
    BY <1>2, <1>5, <2>3
  <2> QED BY <2>2, <2>3
<1>6. first \in DOMAIN h
  <2>1. 0 \in 0..(n - 1)
    BY SMTT(30)
  <2> QED BY <2>1 DEF InOrder
<1> QED BY <1>3, <1>4, <1>5, <1>6

(* The links of a block of the list agree: the successor's prev and the    *)
(* predecessor's next lead back to it, and neither is the block itself.    *)
LEMMA ListLinks ==
  ASSUME NEW h, NEW first, List(h, first), DOMAIN h \subseteq Nat \ {0}, NEW b \in DOMAIN h
  PROVE  /\ h[b].next # NULL =>
              h[b].next \in DOMAIN h /\ h[b].next # b /\ h[h[b].next].prev = b
         /\ h[b].prev # NULL =>
              h[b].prev \in DOMAIN h /\ h[b].prev # b /\ h[h[b].prev].next = b
         /\ h[b].next # NULL => h[b].next # h[b].prev
         /\ first \in DOMAIN h
  BY OrderLinks DEF List

(* The links of h2 are those of h. *)
SameLinks(h, h2) ==
  /\ DOMAIN h2 = DOMAIN h
  /\ \A a \in DOMAIN h : h2[a].next = h[a].next /\ h2[a].prev = h[a].prev

(* A change that leaves next and prev alone keeps the list.                *)
LEMMA ListSame ==
  ASSUME NEW h, NEW h2, NEW first, List(h, first), SameLinks(h, h2)
  PROVE  List(h2, first)
<1>n. PICK n \in Nat \ {0} : \E ord \in [0..(n - 1) -> DOMAIN h] : InOrder(h, first, n, ord)
  BY DEF List
<1>1. PICK ord \in [0..(n - 1) -> DOMAIN h] : InOrder(h, first, n, ord)
  BY <1>n
<1>2. InOrder(h2, first, n, ord)
  BY <1>1 DEF InOrder, SameLinks
<1> QED BY <1>1, <1>2 DEF List, SameLinks

(* The links of h2 are those of h with `new' put in after b. *)
LinksInserted(h, b, new, h2) ==
  /\ DOMAIN h2 = DOMAIN h \cup {new}
  /\ h2[new].prev = b /\ h2[new].next = h[b].next
  /\ h2[b].next = new /\ h2[b].prev = h[b].prev
  /\ \A a \in DOMAIN h \ {b} :
       h2[a].next = h[a].next /\ h2[a].prev = IF a = h[b].next THEN new ELSE h[a].prev

(* Linking a new block in behind b, as malloc does when it splits a block  *)
(* or inserts new pages, keeps the list.                                   *)
LEMMA ListInserted ==
  ASSUME NEW h, NEW h2, NEW first, NEW b \in DOMAIN h, NEW new \in Nat \ {0},
         new \notin DOMAIN h, DOMAIN h \subseteq Nat \ {0},
         List(h, first), LinksInserted(h, b, new, h2)
  PROVE  List(h2, first)
<1>n. PICK n \in Nat \ {0} : \E ord \in [0..(n - 1) -> DOMAIN h] : InOrder(h, first, n, ord)
  BY DEF List
<1>1. PICK ord \in [0..(n - 1) -> DOMAIN h] : InOrder(h, first, n, ord)
  BY <1>n
<1>2. PICK i \in 0..(n - 1) : ord[i] = b
  BY <1>1 DEF InOrder
<1> DEFINE o2 == [j \in 0..n |-> IF j <= i THEN ord[j] ELSE IF j = i + 1 THEN new ELSE ord[j - 1]]
<1>3. /\ \A j \in 0..i : o2[j] = ord[j] /\ j \in 0..n /\ j \in 0..(n - 1)
      /\ i + 1 \in 0..n /\ o2[i + 1] = new
      /\ \A j \in (i + 1)..(n - 1) : o2[j + 1] = ord[j] /\ j + 1 \in 0..n /\ j \in 0..(n - 1)
      /\ \A j \in (i + 2)..n : o2[j] = ord[j - 1] /\ j - 1 \in 0..(n - 1)
      /\ \A j \in 0..n : j \in 0..i \/ j = i + 1 \/ j \in (i + 2)..n
  BY SMTT(30)
<1>4. o2 \in [0..n -> DOMAIN h2]
  <2>1. ASSUME NEW j \in 0..n PROVE o2[j] \in DOMAIN h2
    BY <1>1, <1>3, <2>1, SMTT(30) DEF LinksInserted
  <2> QED BY <2>1
<1> HIDE DEF o2
<1>5. \A a \in DOMAIN h2 : \E j \in 0..n : o2[j] = a
  <2> SUFFICES ASSUME NEW a \in DOMAIN h2 PROVE \E j \in 0..n : o2[j] = a
    OBVIOUS
  <2>1. CASE a = new
    BY <1>3, <2>1
  <2>2. CASE a \in DOMAIN h
    <3>1. PICK j \in 0..(n - 1) : ord[j] = a
      BY <1>1, <2>2 DEF InOrder
    <3>2. j \in 0..i \/ j \in (i + 1)..(n - 1)
      BY SMTT(30)
    <3> QED BY <1>3, <3>1, <3>2
  <2> QED BY <2>1, <2>2, SMTT(30) DEF LinksInserted
<1>6. \A j, k \in 0..n : o2[j] = o2[k] => j = k
  <2>1. \A j \in 0..n : o2[j] = new => j = i + 1
    <3> SUFFICES ASSUME NEW j \in 0..n, j # i + 1 PROVE o2[j] \in DOMAIN h
      OBVIOUS
    <3>1. j \in 0..i \/ j \in (i + 2)..n
      BY <1>3
    <3> QED BY <1>1, <1>3, <3>1
  <2>2. \A j, k \in 0..(n - 1) : ord[j] = ord[k] => j = k
    BY <1>1 DEF InOrder
  <2> SUFFICES ASSUME NEW j \in 0..n, NEW k \in 0..n, o2[j] = o2[k] PROVE j = k
    OBVIOUS
  <2>3. CASE j = i + 1 \/ k = i + 1
    BY <1>3, <2>1, <2>3
  <2>4. CASE j \in 0..i /\ k \in 0..i
    BY <1>3, <2>2, <2>4, SMTT(30)
  <2>5. CASE j \in 0..i /\ k \in (i + 2)..n
    <3>1. ord[j] = ord[k - 1] /\ j \in 0..(n - 1) /\ k - 1 \in 0..(n - 1)
      BY <1>3, <2>5
    <3> QED BY <2>2, <2>5, <3>1, SMTT(30)
  <2>6. CASE j \in (i + 2)..n /\ k \in 0..i
    <3>1. ord[j - 1] = ord[k] /\ j - 1 \in 0..(n - 1) /\ k \in 0..(n - 1)
      BY <1>3, <2>6
    <3> QED BY <2>2, <2>6, <3>1, SMTT(30)
  <2>7. CASE j \in (i + 2)..n /\ k \in (i + 2)..n
    <3>1. ord[j - 1] = ord[k - 1] /\ j - 1 \in 0..(n - 1) /\ k - 1 \in 0..(n - 1)
      BY <1>3, <2>7
    <3> QED BY <2>2, <2>7, <3>1, SMTT(30)
  <2> QED BY <1>3, <2>3, <2>4, <2>5, <2>6, <2>7
<1>7. o2[0] = first
  BY <1>1, <1>3, SMTT(30) DEF InOrder
<1>8. ASSUME NEW j \in 0..n
      PROVE  /\ h2[o2[j]].next = IF j + 1 < n + 1 THEN o2[j + 1] ELSE NULL
             /\ h2[o2[j]].prev = IF j > 0 THEN o2[j - 1] ELSE NULL
  <2>1. \A k \in 0..(n - 1) :
          /\ ord[k] \in DOMAIN h /\ ord[k] # new
          /\ h[ord[k]].next = IF k + 1 < n THEN ord[k + 1] ELSE NULL
          /\ h[ord[k]].prev = IF k > 0 THEN ord[k - 1] ELSE NULL
          /\ ord[k] = b => k = i
    <3>1. \A k \in 0..(n - 1) : ord[k] \in DOMAIN h /\ ord[k] # new
      BY <1>1, SMTT(30) DEF InOrder
    <3>2. \A k \in 0..(n - 1) : ord[k] = b => k = i
      BY <1>1, <1>2 DEF InOrder
    <3>3. \A k \in 0..(n - 1) :
            /\ h[ord[k]].next = IF k + 1 < n THEN ord[k + 1] ELSE NULL
            /\ h[ord[k]].prev = IF k > 0 THEN ord[k - 1] ELSE NULL
      BY <1>1 DEF InOrder
    <3> QED BY <3>1, <3>2, <3>3
  <2>2. h[b].next = IF i + 1 < n THEN ord[i + 1] ELSE NULL
    BY <1>2, <2>1
  <2>3. \A k \in 0..(n - 1) : ord[k] = h[b].next <=> k = i + 1
    <3>1. CASE i + 1 < n
      <4>1. i + 1 \in 0..(n - 1)
        BY <3>1, SMTT(30)
      <4> QED BY <1>1, <2>2, <3>1, <4>1 DEF InOrder
    <3>2. CASE ~(i + 1 < n)
      BY <2>1, <2>2, <3>2, SMTT(30) DEF NULL
    <3> QED BY <3>1, <3>2
  <2>4. CASE j \in 0..(i - 1)
    <3>1. /\ j \in 0..i /\ j \in 0..(n - 1) /\ j + 1 \in 0..i /\ j + 1 < n
          /\ (j > 0 => j - 1 \in 0..i) /\ j # i /\ j # i + 1
      BY <2>4, SMTT(30)
    <3>2. o2[j] = ord[j] /\ o2[j + 1] = ord[j + 1] /\ (j > 0 => o2[j - 1] = ord[j - 1])
      BY <1>3, <3>1
    <3>3. ord[j] \in DOMAIN h \ {b} /\ ord[j] # h[b].next
      BY <2>1, <2>3, <3>1
    <3>4. h[ord[j]].next = ord[j + 1] /\ h[ord[j]].prev = IF j > 0 THEN ord[j - 1] ELSE NULL
      BY <2>1, <3>1
    <3> QED BY <3>1, <3>2, <3>3, <3>4, SMTT(30) DEF LinksInserted
  <2>5. CASE j = i
    <3>1. o2[j] = b /\ o2[j + 1] = new /\ (j > 0 => o2[j - 1] = ord[j - 1])
      BY <1>2, <1>3, <2>5, SMTT(30)
    <3>2. j + 1 < n + 1
      BY <1>2, <2>5, SMTT(30)
    <3>3. h[b].prev = IF j > 0 THEN ord[j - 1] ELSE NULL
      BY <1>2, <2>1, <2>5
    <3>4. h2[b].next = new /\ h2[b].prev = h[b].prev
      BY DEF LinksInserted
    <3> QED BY <3>1, <3>2, <3>3, <3>4
  <2>6. CASE j = i + 1
    <3>1. o2[j] = new /\ o2[j - 1] = b /\ (j < n => o2[j + 1] = ord[j])
      BY <1>2, <1>3, <2>6, SMTT(30)
    <3> QED BY <2>2, <2>6, <3>1, SMTT(30) DEF LinksInserted
  <2>7. CASE j \in (i + 2)..n
    <3>1. o2[j] = ord[j - 1] /\ (j < n => o2[j + 1] = ord[j])
          /\ o2[j - 1] = IF j - 1 = i + 1 THEN new ELSE ord[j - 2]
      <4>1. j < n => j \in (i + 1)..(n - 1)
        BY <2>7, SMTT(30)
      <4>2. j - 1 # i + 1 => j - 2 \in (i + 1)..(n - 1) /\ (j - 2) + 1 = j - 1
        BY <2>7, SMTT(30)
      <4> QED BY <1>3, <2>7, <4>1, <4>2
    <3>2. ord[j - 1] \in DOMAIN h \ {b} /\ (ord[j - 1] = h[b].next <=> j - 1 = i + 1)
      <4>1. j - 1 \in 0..(n - 1) /\ j - 1 # i
        BY <2>7, SMTT(30)
      <4> QED BY <2>1, <2>3, <4>1
    <3>3. /\ h[ord[j - 1]].next = IF j < n THEN ord[j] ELSE NULL
          /\ h[ord[j - 1]].prev = ord[j - 2]
      <4>1. j - 1 \in 0..(n - 1) /\ (j - 1) + 1 = j /\ j - 1 > 0 /\ (j - 1) - 1 = j - 2
        BY <2>7, SMTT(30)
      <4>2. /\ h[ord[j - 1]].next = IF (j - 1) + 1 < n THEN ord[(j - 1) + 1] ELSE NULL
            /\ h[ord[j - 1]].prev = IF j - 1 > 0 THEN ord[(j - 1) - 1] ELSE NULL
        BY <2>1, <4>1
      <4> QED BY <4>1, <4>2
    <3> QED BY <2>7, <3>1, <3>2, <3>3, SMTT(30) DEF LinksInserted
  <2> QED BY <1>3, <2>4, <2>5, <2>6, <2>7, SMTT(30)
<1>9. InOrder(h2, first, n + 1, o2)
  <2>1. (n + 1) - 1 = n
    BY SMTT(30)
  <2> QED BY <1>4, <1>5, <1>6, <1>7, <1>8, <2>1 DEF InOrder
<1> QED
  <2>1. n + 1 \in Nat \ {0} /\ (n + 1) - 1 = n
    BY SMTT(30)
  <2> QED BY <1>4, <1>9, <2>1 DEF List

(* The links of h2 are those of h without `gone', the block after b. *)
LinksAbsorbed(h, b, gone, h2) ==
  /\ DOMAIN h2 = DOMAIN h \ {gone}
  /\ h2[b].next = h[gone].next /\ h2[b].prev = h[b].prev
  /\ \A a \in DOMAIN h \ {b, gone} :
       h2[a].next = h[a].next /\ h2[a].prev = IF a = h[gone].next THEN b ELSE h[a].prev

(* Unlinking the successor of b, as free does when it merges, keeps the    *)
(* list.                                                                   *)
LEMMA ListAbsorbed ==
  ASSUME NEW h, NEW h2, NEW first, NEW b \in DOMAIN h, NEW gone \in DOMAIN h,
         h[b].next = gone, DOMAIN h \subseteq Nat \ {0},
         List(h, first), LinksAbsorbed(h, b, gone, h2)
  PROVE  List(h2, first)
<1>n. PICK n \in Nat \ {0} : \E ord \in [0..(n - 1) -> DOMAIN h] : InOrder(h, first, n, ord)
  BY DEF List
<1>1. PICK ord \in [0..(n - 1) -> DOMAIN h] : InOrder(h, first, n, ord)
  BY <1>n
<1>i. PICK i \in 0..(n - 1) : ord[i] = b
  BY <1>1 DEF InOrder
<1>2. i + 1 \in 0..(n - 1) /\ ord[i + 1] = gone /\ n - 1 \in Nat \ {0}
  <2>1. h[b].next = IF i + 1 < n THEN ord[i + 1] ELSE NULL
    BY <1>1, <1>i DEF InOrder
  <2>2. i + 1 < n
    BY <2>1 DEF NULL
  <2> QED BY <2>1, <2>2, SMTT(30)
<1> DEFINE o2 == [j \in 0..(n - 2) |-> IF j <= i THEN ord[j] ELSE ord[j + 1]]
<1>3. /\ \A j \in 0..i : o2[j] = ord[j] /\ j \in 0..(n - 2) /\ j \in 0..(n - 1)
      /\ \A j \in (i + 1)..(n - 2) :
           o2[j] = ord[j + 1] /\ j \in 0..(n - 2) /\ j + 1 \in 0..(n - 1)
      /\ \A j \in (i + 2)..(n - 1) :
           o2[j - 1] = ord[j] /\ j - 1 \in 0..(n - 2) /\ j \in 0..(n - 1)
      /\ \A j \in 0..(n - 2) : j \in 0..i \/ j \in (i + 1)..(n - 2)
  BY <1>2, SMTT(30)
<1>u. \A j, k \in 0..(n - 1) : ord[j] = ord[k] => j = k
  BY <1>1 DEF InOrder
<1>4. o2 \in [0..(n - 2) -> DOMAIN h2]
  <2>1. ASSUME NEW j \in 0..(n - 2) PROVE o2[j] \in DOMAIN h2
    <3>1. CASE j \in 0..i
      <4>1. j \in 0..(n - 1) /\ j # i + 1 /\ o2[j] = ord[j]
        BY <1>3, <3>1, SMTT(30)
      <4>2. ord[j] \in DOMAIN h /\ ord[j] # gone
        BY <1>2, <1>u, <4>1
      <4> QED BY <4>1, <4>2 DEF LinksAbsorbed
    <3>2. CASE j \in (i + 1)..(n - 2)
      <4>1. j + 1 \in 0..(n - 1) /\ j + 1 # i + 1 /\ o2[j] = ord[j + 1]
        BY <1>3, <3>2, SMTT(30)
      <4>2. ord[j + 1] \in DOMAIN h /\ ord[j + 1] # gone
        BY <1>2, <1>u, <4>1
      <4> QED BY <4>1, <4>2 DEF LinksAbsorbed
    <3> QED BY <1>3, <3>1, <3>2
  <2> QED BY <2>1
<1> HIDE DEF o2
<1>5. \A a \in DOMAIN h2 : \E j \in 0..(n - 2) : o2[j] = a
  <2> SUFFICES ASSUME NEW a \in DOMAIN h2 PROVE \E j \in 0..(n - 2) : o2[j] = a
    OBVIOUS
  <2>1. PICK j \in 0..(n - 1) : ord[j] = a
    BY <1>1 DEF InOrder, LinksAbsorbed
  <2>2. j # i + 1
    BY <1>2, <2>1 DEF LinksAbsorbed
  <2>3. j \in 0..i \/ j \in (i + 2)..(n - 1)
    BY <2>2, SMTT(30)
  <2> QED BY <1>3, <2>1, <2>3
<1>6. \A j, k \in 0..(n - 2) : o2[j] = o2[k] => j = k
  <2> SUFFICES ASSUME NEW j \in 0..(n - 2), NEW k \in 0..(n - 2), o2[j] = o2[k] PROVE j = k
    OBVIOUS
  <2>4. CASE j \in 0..i /\ k \in 0..i
    BY <1>3, <1>u, <2>4
  <2>5. CASE j \in 0..i /\ k \in (i + 1)..(n - 2)
    <3>1. ord[j] = ord[k + 1] /\ j \in 0..(n - 1) /\ k + 1 \in 0..(n - 1)
      BY <1>3, <2>5
    <3> QED BY <1>u, <2>5, <3>1, SMTT(30)
  <2>6. CASE j \in (i + 1)..(n - 2) /\ k \in 0..i
    <3>1. ord[j + 1] = ord[k] /\ j + 1 \in 0..(n - 1) /\ k \in 0..(n - 1)
      BY <1>3, <2>6
    <3> QED BY <1>u, <2>6, <3>1, SMTT(30)
  <2>7. CASE j \in (i + 1)..(n - 2) /\ k \in (i + 1)..(n - 2)
    <3>1. ord[j + 1] = ord[k + 1] /\ j + 1 \in 0..(n - 1) /\ k + 1 \in 0..(n - 1)
      BY <1>3, <2>7
    <3> QED BY <1>u, <2>7, <3>1, SMTT(30)
  <2> QED BY <1>3, <2>4, <2>5, <2>6, <2>7
<1>7. o2[0] = first
  <2>1. 0 \in 0..i
    BY SMTT(30)
  <2> QED BY <1>1, <1>3, <2>1 DEF InOrder
<1>z. i + 1 <= n - 1 /\ 0 <= i
  BY <1>2, SMTT(30)
<1>8. ASSUME NEW j \in 0..(n - 2)
      PROVE  /\ h2[o2[j]].next = IF j + 1 < n - 1 THEN o2[j + 1] ELSE NULL
             /\ h2[o2[j]].prev = IF j > 0 THEN o2[j - 1] ELSE NULL
  <2>1. \A k \in 0..(n - 1) :
          /\ ord[k] \in DOMAIN h
          /\ h[ord[k]].next = IF k + 1 < n THEN ord[k + 1] ELSE NULL
          /\ h[ord[k]].prev = IF k > 0 THEN ord[k - 1] ELSE NULL
          /\ ord[k] = b => k = i
          /\ ord[k] = gone => k = i + 1
    BY <1>1, <1>2, <1>i DEF InOrder
  <2>2. h[gone].next = IF i + 2 < n THEN ord[i + 2] ELSE NULL
    <3>1. (i + 1) + 1 = i + 2
      BY SMTT(30)
    <3> QED BY <1>2, <2>1, <3>1
  <2>3. \A k \in 0..(n - 1) : ord[k] = h[gone].next <=> k = i + 2
    <3>1. CASE i + 2 < n
      <4>1. i + 2 \in 0..(n - 1)
        BY <3>1, SMTT(30)
      <4> QED BY <1>u, <2>2, <3>1, <4>1
    <3>2. CASE ~(i + 2 < n)
      BY <2>1, <2>2, <3>2, SMTT(30) DEF NULL
    <3> QED BY <3>1, <3>2
  <2>4. CASE j \in 0..(i - 1)
    <3>1. /\ j \in 0..i /\ j \in 0..(n - 1) /\ j + 1 \in 0..i /\ j + 1 < n - 1 /\ j + 1 < n
          /\ (j > 0 => j - 1 \in 0..i) /\ j # i /\ j # i + 1 /\ j # i + 2
      BY <1>z, <2>4, SMTT(30)
    <3>2. o2[j] = ord[j] /\ o2[j + 1] = ord[j + 1] /\ (j > 0 => o2[j - 1] = ord[j - 1])
      BY <1>3, <3>1
    <3>3. ord[j] \in DOMAIN h \ {b, gone} /\ ord[j] # h[gone].next
      BY <2>1, <2>3, <3>1
    <3>4. h[ord[j]].next = ord[j + 1] /\ h[ord[j]].prev = IF j > 0 THEN ord[j - 1] ELSE NULL
      BY <2>1, <3>1
    <3> QED BY <3>1, <3>2, <3>3, <3>4, SMTT(30) DEF LinksAbsorbed
  <2>5. CASE j = i
    <3>1. /\ o2[j] = b /\ (j > 0 => o2[j - 1] = ord[j - 1])
          /\ (j + 1 < n - 1 => o2[j + 1] = ord[j + 2])
      <4>1. j + 1 < n - 1 => j + 1 \in (i + 1)..(n - 2) /\ (j + 1) + 1 = j + 2
        BY <2>5, SMTT(30)
      <4>2. j \in 0..i /\ (j > 0 => j - 1 \in 0..i)
        BY <2>5, SMTT(30)
      <4>3. o2[j] = b /\ (j > 0 => o2[j - 1] = ord[j - 1])
        BY <1>3, <1>i, <2>5, <4>2
      <4>4. ASSUME j + 1 < n - 1 PROVE o2[j + 1] = ord[j + 2]
        <5>1. o2[j + 1] = ord[(j + 1) + 1]
          BY <1>3, <4>1, <4>4
        <5> QED BY <4>1, <4>4, <5>1
      <4> QED BY <4>3, <4>4
    <3>2. j + 1 < n - 1 <=> j + 2 < n
      BY SMTT(30)
    <3> QED BY <1>i, <2>1, <2>2, <2>5, <3>1, <3>2 DEF LinksAbsorbed
  <2>6. CASE j \in (i + 1)..(n - 2)
    <3>1. /\ j + 1 \in 0..(n - 1) /\ (j + 1) + 1 = j + 2 /\ (j + 1) - 1 = j /\ j > 0 /\ j + 1 > 0
          /\ j + 1 # i /\ j + 1 # i + 1 /\ (j + 1 < n - 1 <=> j + 2 < n)
      BY <2>6, SMTT(30)
    <3>2. o2[j] = ord[j + 1]
      BY <1>3, <2>6
    <3>3. j + 1 < n - 1 => o2[j + 1] = ord[j + 2]
      <4>1. j + 1 < n - 1 => j + 1 \in (i + 1)..(n - 2)
        BY <2>6, SMTT(30)
      <4> QED BY <1>3, <3>1, <4>1
    <3>4. o2[j - 1] = IF j = i + 1 THEN b ELSE ord[j]
      <4>1. j = i + 1 => j - 1 = i /\ i \in 0..i
        BY SMTT(30)
      <4>2. j # i + 1 => j - 1 \in (i + 1)..(n - 2) /\ (j - 1) + 1 = j
        BY <2>6, SMTT(30)
      <4>3. j = i + 1 => o2[j - 1] = b
        BY <1>3, <1>i, <4>1
      <4>4. ASSUME j # i + 1 PROVE o2[j - 1] = ord[j]
        <5>1. o2[j - 1] = ord[(j - 1) + 1]
          BY <1>3, <4>2, <4>4
        <5> QED BY <4>2, <4>4, <5>1
      <4> QED BY <4>3, <4>4
    <3>5. ord[j + 1] \in DOMAIN h \ {b, gone} /\ (ord[j + 1] = h[gone].next <=> j = i + 1)
      <4>1. j + 1 = i + 2 <=> j = i + 1
        BY SMTT(30)
      <4> QED BY <2>1, <2>3, <3>1, <4>1
    <3>6. /\ h[ord[j + 1]].next = IF j + 2 < n THEN ord[j + 2] ELSE NULL
          /\ h[ord[j + 1]].prev = ord[j]
      BY <2>1, <3>1
    <3> QED BY <3>1, <3>2, <3>3, <3>4, <3>5, <3>6, SMTT(30) DEF LinksAbsorbed
  <2> QED BY <1>3, <2>4, <2>5, <2>6, SMTT(30)
<1>9. (n - 1) - 1 = n - 2
  BY SMTT(30)
<1>10. InOrder(h2, first, n - 1, o2)
  BY <1>4, <1>5, <1>6, <1>7, <1>8, <1>9 DEF InOrder
<1> QED BY <1>2, <1>4, <1>9, <1>10 DEF List

-----------------------------------------------------------------------------
(* What the operators on headers compute.                                  *)

(* A free block `new' enters the list after b; the other blocks keep their *)
(* sizes and flags.                                                        *)
Inserted(h, b, new, h2) ==
  /\ LinksInserted(h, b, new, h2)
  /\ \A a \in DOMAIN h2 : h2[a] \in Header
  /\ h2[new].is_free
  /\ \A a \in DOMAIN h \ {b} : h2[a].is_free = h[a].is_free /\ h2[a].bytes = h[a].bytes

(* What malloc writes when it inserts the block of new pages, field by     *)
(* field.                                                                  *)
LEMMA InsertFacts ==
  ASSUME NEW h, NEW b \in DOMAIN h, NEW new \in Nat \ {0}, NEW size \in Nat,
         new \notin DOMAIN h, Apart(h), List(h, blocks),
         NEW h2, h2 = Insert(h, b, new, size)
  PROVE  /\ Inserted(h, b, new, h2)
         /\ h2[new].bytes = size
         /\ h2[b].is_free = h[b].is_free /\ h2[b].bytes = h[b].bytes
<1>1. DOMAIN h2 = DOMAIN h \cup {new}
  BY DEF Insert
<1>2. /\ h[b] \in Header /\ b \in Nat /\ h[b].next # b /\ h[b].next \in Nat /\ b # new
      /\ h[b].next = NULL \/ h[b].next \in DOMAIN h
  <2>1. h[b] \in Header /\ b \in Nat \ {0} /\ DOMAIN h \subseteq Nat \ {0}
    BY DEF Apart
  <2>2. h[b].next # NULL => h[b].next \in DOMAIN h /\ h[b].next # b
    BY <2>1, ListLinks, SMTT(30)
  <2> QED BY <2>1, <2>2 DEF Header, NULL
<1>3. h2[new] = [prev |-> b, next |-> h[b].next, is_free |-> TRUE, bytes |-> size]
  BY <1>2 DEF Insert, NULL
<1>4. h2[b] = [h[b] EXCEPT !.next = new]
  BY <1>2 DEF Insert
<1>5. \A a \in DOMAIN h \ {b} :
        h2[a] = IF a = h[b].next THEN [h[a] EXCEPT !.prev = new] ELSE h[a]
  BY <1>2 DEF Insert
<1>6. h2[new] \in Header
  BY <1>2, <1>3, SMTT(30) DEF Header
<1>7. /\ h2[b] \in Header /\ h2[b].next = new /\ h2[b].prev = h[b].prev
      /\ h2[b].is_free = h[b].is_free /\ h2[b].bytes = h[b].bytes
  BY <1>2, <1>4 DEF Header
<1>8. ASSUME NEW a \in DOMAIN h \ {b}
      PROVE  /\ h2[a] \in Header /\ h2[a].next = h[a].next
             /\ h2[a].prev = IF a = h[b].next THEN new ELSE h[a].prev
             /\ h2[a].is_free = h[a].is_free /\ h2[a].bytes = h[a].bytes
  <2>1. h[a] \in Header
    BY DEF Apart
  <2> QED BY <1>5, <2>1 DEF Header
<1>9. LinksInserted(h, b, new, h2)
  BY <1>1, <1>3, <1>7, <1>8, SMTT(30) DEF LinksInserted
<1>10. \A a \in DOMAIN h2 : h2[a] \in Header
  BY <1>1, <1>6, <1>7, <1>8
<1>11. h2[new].is_free /\ h2[new].bytes = size
  BY <1>3, SMTT(30)
<1>12. Inserted(h, b, new, h2)
  BY <1>8, <1>9, <1>10, <1>11 DEF Inserted
<1> QED BY <1>7, <1>11, <1>12

(* What the split of a found block writes, field by field; the new header  *)
(* lies inside the old block.                                              *)
LEMMA SplitFacts ==
  ASSUME NEW h, NEW b \in DOMAIN h, NEW size \in Nat \ {0},
         h[b].bytes - size > HDR, Apart(h), List(h, blocks),
         NEW h2, h2 = Split(h, b, size), NEW new, new = b + HDR + size
  PROVE  /\ new \in Nat \ {0} /\ new \notin DOMAIN h
         /\ Inserted(h, b, new, h2)
         /\ h2[new].bytes = h[b].bytes - size - HDR
         /\ ~h2[b].is_free /\ h2[b].bytes = size
<1>a. h[b] \in Header /\ b \in Nat \ {0} /\ DOMAIN h \subseteq Nat \ {0} /\ HDR \in Nat
  BY HeapAssumption DEF Apart
<1>b. h[b].bytes \in Nat /\ h[b].next \in Nat
  BY <1>a DEF Header
<1>c. new \in Nat \ {0} /\ new \notin DOMAIN h
  <2>1. new \in Nat \ {0} /\ new # b /\ new < End(h, b)
    BY <1>a, <1>b, SMTT(30) DEF End
  <2>2. ASSUME new \in DOMAIN h PROVE FALSE
    <3>1. End(h, b) <= new \/ End(h, new) <= b
      BY <2>1, <2>2 DEF Apart
    <3>2. h[new].bytes \in Nat
      BY <2>2 DEF Apart, Header
    <3> QED BY <1>a, <1>b, <2>1, <3>1, <3>2, SMTT(30) DEF End
  <2> QED BY <2>1, <2>2
<1>1. DOMAIN h2 = DOMAIN h \cup {new}
  BY DEF Split, get_block_data_addr
<1>2. b # new /\ h[b].next # b /\ (h[b].next = NULL \/ h[b].next \in DOMAIN h)
  <2>1. h[b].next # NULL => h[b].next \in DOMAIN h /\ h[b].next # b
    BY <1>a, ListLinks, SMTT(30)
  <2> QED BY <1>a, <1>c, <2>1 DEF NULL
<1>3. h2[new] = [prev |-> b, next |-> h[b].next, is_free |-> TRUE,
                 bytes |-> h[b].bytes - size - HDR]
  BY <1>c, <1>2 DEF Split, get_block_data_addr, NULL
<1>4. h2[b] = [h[b] EXCEPT !.is_free = FALSE, !.bytes = size, !.next = new]
  BY <1>2 DEF Split, get_block_data_addr
<1>5. \A a \in DOMAIN h \ {b} :
        h2[a] = IF a = h[b].next THEN [h[a] EXCEPT !.prev = new] ELSE h[a]
  BY <1>c, <1>2 DEF Split, get_block_data_addr
<1>6. h2[new] \in Header
  <2>1. h[b].bytes - size - HDR \in Nat
    BY <1>a, <1>b, SMTT(30)
  <2> QED BY <1>a, <1>b, <1>3, <2>1, SMTT(30) DEF Header
<1>7. /\ h2[b] \in Header /\ h2[b].next = new /\ h2[b].prev = h[b].prev
      /\ ~h2[b].is_free /\ h2[b].bytes = size
  BY <1>a, <1>c, <1>4 DEF Header
<1>8. ASSUME NEW a \in DOMAIN h \ {b}
      PROVE  /\ h2[a] \in Header /\ h2[a].next = h[a].next
             /\ h2[a].prev = IF a = h[b].next THEN new ELSE h[a].prev
             /\ h2[a].is_free = h[a].is_free /\ h2[a].bytes = h[a].bytes
  <2>1. h[a] \in Header
    BY DEF Apart
  <2> QED BY <1>c, <1>5, <2>1 DEF Header
<1>9. LinksInserted(h, b, new, h2)
  BY <1>1, <1>3, <1>7, <1>8, SMTT(30) DEF LinksInserted
<1>10. \A a \in DOMAIN h2 : h2[a] \in Header
  BY <1>1, <1>6, <1>7, <1>8
<1>11. h2[new].is_free /\ h2[new].bytes = h[b].bytes - size - HDR
  BY <1>3, SMTT(30)
<1>12. Inserted(h, b, new, h2)
  BY <1>8, <1>9, <1>10, <1>11 DEF Inserted
<1> QED BY <1>c, <1>7, <1>11, <1>12

(* Block b takes in `gone', the block after it that it touches; the others *)
(* keep their sizes and flags.                                             *)
Absorbed(h, b, gone, h2) ==
  /\ LinksAbsorbed(h, b, gone, h2)
  /\ \A a \in DOMAIN h2 : h2[a] \in Header
  /\ h2[b].bytes = h[b].bytes + HDR + h[gone].bytes
  /\ \A a \in DOMAIN h2 : h2[a].is_free = h[a].is_free
  /\ \A a \in DOMAIN h2 \ {b} : h2[a].bytes = h[a].bytes

(* What absorbing the next block writes, field by field.                   *)
LEMMA AbsorbFacts ==
  ASSUME NEW h, NEW b \in DOMAIN h, NEW gone \in DOMAIN h, h[b].next = gone,
         Apart(h), List(h, blocks)
  PROVE  Absorbed(h, b, gone, Absorb(h, b, gone))
<1> DEFINE h2 == Absorb(h, b, gone)
<1>a. /\ h[b] \in Header /\ h[gone] \in Header /\ DOMAIN h \subseteq Nat \ {0}
      /\ b \in Nat /\ HDR \in Nat /\ gone # NULL
  BY HeapAssumption DEF Apart, NULL
<1>b. gone # b /\ h[gone].prev = b
  BY <1>a, ListLinks
<1>c. h[gone].next # b
  <2>1. h[gone].next # NULL => h[gone].next # h[gone].prev
    BY <1>a, ListLinks
  <2> QED BY <1>a, <1>b, <2>1 DEF NULL
<1>1. DOMAIN h2 = DOMAIN h \ {gone}
  BY DEF Absorb
<1>2. h2[b] = [h[b] EXCEPT !.bytes = @ + get_total_block_size(h, gone), !.next = h[gone].next]
  BY <1>b, <1>c DEF Absorb
<1>3. \A a \in DOMAIN h \ {b, gone} :
        h2[a] = IF a = h[gone].next THEN [h[a] EXCEPT !.prev = b] ELSE h[a]
  BY <1>c DEF Absorb
<1> HIDE DEF h2
<1>4. /\ h2[b] \in Header /\ h2[b].next = h[gone].next /\ h2[b].prev = h[b].prev
      /\ h2[b].is_free = h[b].is_free /\ h2[b].bytes = h[b].bytes + HDR + h[gone].bytes
  <2>1. h[b].bytes \in Nat /\ h[gone].bytes \in Nat /\ h[gone].next \in Nat
    BY <1>a DEF Header
  <2>2. h[b].bytes + get_total_block_size(h, gone) = h[b].bytes + HDR + h[gone].bytes
        /\ h[b].bytes + get_total_block_size(h, gone) \in Nat
    BY <1>a, <2>1, SMTT(30) DEF get_total_block_size
  <2> QED BY <1>a, <1>2, <2>1, <2>2 DEF Header
<1>5. ASSUME NEW a \in DOMAIN h \ {b, gone}
      PROVE  /\ h2[a] \in Header /\ h2[a].next = h[a].next
             /\ h2[a].prev = IF a = h[gone].next THEN b ELSE h[a].prev
             /\ h2[a].is_free = h[a].is_free /\ h2[a].bytes = h[a].bytes
  <2>1. h[a] \in Header
    BY DEF Apart
  <2>2. b \in Nat
    BY <1>a
  <2> QED BY <1>3, <2>1, <2>2 DEF Header
<1>6. LinksAbsorbed(h, b, gone, h2)
  BY <1>1, <1>4, <1>5 DEF LinksAbsorbed
<1>7. Absorbed(h, b, gone, h2)
  BY <1>1, <1>4, <1>5, <1>6 DEF Absorbed
<1> QED BY <1>7 DEF h2

-----------------------------------------------------------------------------
(* The bytes of the blocks.                                                *)

(* The types of the fields and the bounds of one block.                    *)
LEMMA EndType ==
  ASSUME NEW h, Apart(h), NEW b \in DOMAIN h
  PROVE  /\ b \in Nat \ {0} /\ h[b].bytes \in Nat \ {0} /\ h[b].next \in Nat /\ h[b].prev \in Nat
         /\ h[b].is_free \in BOOLEAN
         /\ End(h, b) \in Nat /\ b + HDR < End(h, b) /\ HDR \in Nat \ {0}
<1>1. b \in Nat \ {0} /\ h[b] \in Header /\ h[b].bytes > 0
  BY DEF Apart
<1>2. h[b].bytes \in Nat /\ h[b].next \in Nat /\ h[b].prev \in Nat /\ h[b].is_free \in BOOLEAN
  BY <1>1 DEF Header
<1> QED BY <1>1, <1>2, HeapAssumption, SMTT(30) DEF End

(* A split covers the same bytes with one block more, and the blocks stay  *)
(* apart.                                                                  *)
LEMMA SplitGeometry ==
  ASSUME NEW h, NEW h2, NEW b \in DOMAIN h, NEW new \in Nat \ {0}, new \notin DOMAIN h,
         Apart(h), Inserted(h, b, new, h2), h2[new].bytes > 0, h2[b].bytes > 0,
         new = End(h2, b), End(h2, new) = End(h, b)
  PROVE  Apart(h2) /\ SameBytes(h, h2)
<1>1. DOMAIN h2 = DOMAIN h \cup {new}
  BY DEF Inserted, LinksInserted
<1>2. \A a \in DOMAIN h2 : /\ a \in Nat \ {0} /\ h2[a] \in Header /\ h2[a].bytes > 0
                           /\ End(h2, a) \in Nat /\ a < End(h2, a)
  <2> SUFFICES ASSUME NEW a \in DOMAIN h2
               PROVE  /\ a \in Nat \ {0} /\ h2[a] \in Header /\ h2[a].bytes > 0
                      /\ End(h2, a) \in Nat /\ a < End(h2, a)
    OBVIOUS
  <2>1. a \in Nat \ {0} /\ h2[a] \in Header
    BY <1>1 DEF Apart, Inserted
  <2>2. h2[a].bytes > 0
    BY <1>1 DEF Apart, Inserted
  <2>3. h2[a].bytes \in Nat /\ HDR \in Nat
    BY <2>1, HeapAssumption DEF Header
  <2> QED BY <2>1, <2>2, <2>3, SMTT(30) DEF End
<1>3. \A a \in DOMAIN h \ {b} : End(h2, a) = End(h, a)
  BY DEF End, Inserted
<1>4. \A c \in DOMAIN h \ {b} : End(h, b) <= c \/ End(h, c) <= b
  BY DEF Apart
<1>5. b \in Nat /\ End(h, b) \in Nat /\ b < new /\ new < End(h, b)
  BY <1>1, <1>2, EndType
<1>6. \A c, d \in DOMAIN h2 : c # d => End(h2, c) <= d \/ End(h2, d) <= c
  <2> SUFFICES ASSUME NEW c \in DOMAIN h2, NEW d \in DOMAIN h2, c # d
               PROVE  End(h2, c) <= d \/ End(h2, d) <= c
    OBVIOUS
  <2>1. CASE c \in DOMAIN h \ {b} /\ d \in DOMAIN h \ {b}
    BY <1>3, <2>1 DEF Apart
  <2>2. CASE c \in {b, new} /\ d \in {b, new}
    BY <1>1, <1>2, <1>5, <2>2, SMTT(30)
  <2>3. CASE c \in {b, new} /\ d \in DOMAIN h \ {b}
    BY <1>1, <1>2, <1>3, <1>4, <1>5, <2>3, SMTT(30)
  <2>4. CASE c \in DOMAIN h \ {b} /\ d \in {b, new}
    BY <1>1, <1>2, <1>3, <1>4, <1>5, <2>4, SMTT(30)
  <2> QED BY <1>1, <2>1, <2>2, <2>3, <2>4
<1>7. ASSUME NEW x \in Nat PROVE InBlocks(h2, x) <=> InBlocks(h, x)
  <2>1. (b <= x /\ x < End(h, b)) <=> (b <= x /\ x < new) \/ (new <= x /\ x < End(h, b))
    BY <1>5, SMTT(30)
  <2>2. ASSUME NEW a \in DOMAIN h, a <= x, x < End(h, a) PROVE InBlocks(h2, x)
    <3>1. CASE a = b
      BY <1>1, <2>1, <2>2, <3>1 DEF InBlocks
    <3>2. CASE a # b
      BY <1>1, <1>3, <2>2, <3>2 DEF InBlocks
    <3> QED BY <3>1, <3>2
  <2>3. ASSUME NEW a \in DOMAIN h2, a <= x, x < End(h2, a) PROVE InBlocks(h, x)
    <3>1. CASE a \in {b, new}
      BY <1>1, <2>1, <2>3, <3>1 DEF InBlocks
    <3>2. CASE a \notin {b, new}
      BY <1>1, <1>3, <2>3, <3>2 DEF InBlocks
    <3> QED BY <3>1, <3>2
  <2> QED BY <2>2, <2>3 DEF InBlocks
<1> QED BY <1>2, <1>6, <1>7 DEF Apart, SameBytes

(* A block placed on bytes of no block keeps the blocks apart and adds     *)
(* exactly its bytes.                                                      *)
LEMMA InsertGeometry ==
  ASSUME NEW h, NEW h2, NEW b \in DOMAIN h, NEW new \in Nat \ {0}, new \notin DOMAIN h,
         Apart(h), Inserted(h, b, new, h2), h2[new].bytes > 0, h2[b].bytes = h[b].bytes,
         \A c \in DOMAIN h : End(h, c) <= new \/ End(h2, new) <= c
  PROVE  /\ Apart(h2)
         /\ \A x \in Nat : InBlocks(h2, x) <=> InBlocks(h, x) \/ (new <= x /\ x < End(h2, new))
<1>1. DOMAIN h2 = DOMAIN h \cup {new}
  BY DEF Inserted, LinksInserted
<1>2. \A a \in DOMAIN h2 : a \in Nat \ {0} /\ h2[a] \in Header /\ h2[a].bytes > 0
  BY <1>1 DEF Apart, Inserted
<1>3. \A a \in DOMAIN h : End(h2, a) = End(h, a)
  BY DEF End, Inserted
<1>4. \A c, d \in DOMAIN h2 : c # d => End(h2, c) <= d \/ End(h2, d) <= c
  BY <1>1, <1>3, SMTT(30) DEF Apart
<1>5. ASSUME NEW x \in Nat
      PROVE  InBlocks(h2, x) <=> InBlocks(h, x) \/ (new <= x /\ x < End(h2, new))
  BY <1>1, <1>3 DEF InBlocks
<1> QED BY <1>2, <1>4, <1>5 DEF Apart

(* Absorbing an adjacent block keeps the blocks apart and covers the same  *)
(* bytes.                                                                  *)
LEMMA AbsorbGeometry ==
  ASSUME NEW h, NEW h2, NEW b \in DOMAIN h, NEW gone \in DOMAIN h, b # gone,
         Apart(h), Absorbed(h, b, gone, h2), End(h, b) = gone
  PROVE  /\ Apart(h2) /\ End(h2, b) = End(h, gone)
         /\ SameBytes(h, h2)
<1>1. DOMAIN h2 = DOMAIN h \ {gone}
  BY DEF Absorbed, LinksAbsorbed
<1>2. \A a \in DOMAIN h : a \in Nat \ {0} /\ End(h, a) \in Nat /\ a < End(h, a)
  BY EndType, SMTT(30)
<1>3. \A a \in DOMAIN h2 \ {b} : End(h2, a) = End(h, a)
  BY DEF End, Absorbed
<1>4. End(h2, b) = End(h, gone)
  <2>1. b \in Nat /\ h[b].bytes \in Nat /\ h[gone].bytes \in Nat /\ HDR \in Nat
    BY EndType
  <2>2. h2[b].bytes = h[b].bytes + HDR + h[gone].bytes
    BY DEF Absorbed
  <2> QED BY <2>1, <2>2, SMTT(30) DEF End
<1>5. \A a \in DOMAIN h2 : h2[a] \in Header /\ h2[a].bytes > 0
  <2> SUFFICES ASSUME NEW a \in DOMAIN h2 PROVE h2[a] \in Header /\ h2[a].bytes > 0
    OBVIOUS
  <2>1. CASE a = b
    <3>1. h2[b].bytes = h[b].bytes + HDR + h[gone].bytes
      BY DEF Absorbed
    <3>2. h[b].bytes \in Nat \ {0} /\ h[gone].bytes \in Nat /\ HDR \in Nat
      BY EndType
    <3> QED BY <2>1, <3>1, <3>2, SMTT(30) DEF Absorbed
  <2>2. CASE a # b
    BY <1>1, <2>2 DEF Absorbed, Apart
  <2> QED BY <2>1, <2>2
<1>6. \A c, d \in DOMAIN h2 : c # d => End(h2, c) <= d \/ End(h2, d) <= c
  <2> SUFFICES ASSUME NEW c \in DOMAIN h2, NEW d \in DOMAIN h2, c # d
               PROVE  End(h2, c) <= d \/ End(h2, d) <= c
    OBVIOUS
  <2>1. \A a \in DOMAIN h \ {b, gone} : /\ End(h, b) <= a \/ End(h, a) <= b
                                        /\ End(h, gone) <= a \/ End(h, a) <= gone
    BY DEF Apart
  <2>2. \A a \in DOMAIN h \ {b, gone} : End(h, gone) <= a \/ End(h, a) <= b
    <3> SUFFICES ASSUME NEW a \in DOMAIN h \ {b, gone}
                 PROVE  End(h, gone) <= a \/ End(h, a) <= b
      OBVIOUS
    <3>1. a < End(h, a) /\ a \in Nat /\ End(h, a) \in Nat /\ gone \in Nat /\ End(h, gone) \in Nat
      BY <1>2
    <3> QED BY <2>1, <3>1, SMTT(30)
  <2>3. CASE c # b /\ d # b
    BY <1>1, <1>3, <2>3 DEF Apart
  <2>4. CASE c = b
    BY <1>1, <1>3, <1>4, <2>2, <2>4
  <2>5. CASE d = b
    BY <1>1, <1>3, <1>4, <2>2, <2>5
  <2> QED BY <2>3, <2>4, <2>5
<1>7. ASSUME NEW x \in Nat PROVE InBlocks(h2, x) <=> InBlocks(h, x)
  <2>0. /\ b \in Nat /\ gone \in Nat /\ End(h, gone) \in Nat /\ b < gone /\ gone < End(h, gone)
        /\ b \in DOMAIN h2
    BY <1>1, <1>2
  <2>1. (b <= x /\ x < End(h2, b)) <=> (b <= x /\ x < End(h, b)) \/ (gone <= x /\ x < End(h, gone))
    BY <1>4, <2>0, SMTT(30)
  <2>2. ASSUME NEW a \in DOMAIN h, a <= x, x < End(h, a) PROVE InBlocks(h2, x)
    <3>1. CASE a \in {b, gone}
      BY <2>0, <2>1, <2>2, <3>1 DEF InBlocks
    <3>2. CASE a \notin {b, gone}
      BY <1>1, <1>3, <2>2, <3>2 DEF InBlocks
    <3> QED BY <3>1, <3>2
  <2>3. ASSUME NEW a \in DOMAIN h2, a <= x, x < End(h2, a) PROVE InBlocks(h, x)
    <3>1. CASE a = b
      BY <2>1, <2>3, <3>1 DEF InBlocks
    <3>2. CASE a # b
      BY <1>1, <1>3, <2>3, <3>2 DEF InBlocks
    <3> QED BY <3>1, <3>2
  <2> QED BY <2>2, <2>3 DEF InBlocks
<1> QED
  <2>1. DOMAIN h2 \subseteq Nat \ {0}
    BY <1>1, <1>2
  <2> QED BY <1>4, <1>5, <1>6, <1>7, <2>1 DEF Apart, SameBytes

-----------------------------------------------------------------------------
(* The bytes of the pages.                                                 *)

(* Pages with different numbers do not overlap.                            *)
LEMMA PageOrder ==
  ASSUME NEW F \in Nat \ {0}, NEW p \in Nat, NEW q \in Nat, p < q
  PROVE  p * F \in Nat /\ q * F \in Nat /\ p * F + F <= q * F
<1>1. PICK r \in Nat : q = p + 1 + r
  <2>1. q - p - 1 \in Nat /\ q = p + 1 + (q - p - 1)
    BY SMTT(30)
  <2> QED BY <2>1
<1>2. (p + 1 + r) * F = p * F + F + r * F /\ r * F \in Nat /\ p * F \in Nat
  BY Z3
<1> QED BY <1>1, <1>2, SMTT(30)

(* Every byte is in one page. *)
LEMMA PageOf ==
  ASSUME NEW F \in Nat \ {0}, NEW x \in Nat
  PROVE  \E p \in Nat : p * F <= x /\ x < p * F + F
<1>1. x \div F \in Nat /\ x % F \in 0..(F - 1) /\ x = F * (x \div F) + (x % F)
  BY Z3
<1>2. F * (x \div F) = (x \div F) * F /\ (x \div F) * F \in Nat
  BY <1>1, Z3
<1>3. (x \div F) * F <= x /\ x < (x \div F) * F + F
  BY <1>1, <1>2, SMTT(30)
<1> QED
  <2> DEFINE p == x \div F
  <2>1. p \in Nat /\ p * F <= x /\ x < p * F + F
    BY <1>1, <1>3
  <2> HIDE DEF p
  <2> QED BY <2>1

(* Pages are not empty.                                                    *)
LEMMA PageSz == PAGE_SZ \in Nat \ {0}
  BY HeapAssumption, SMTT(30)

(* A byte is in one page only.                                             *)
LEMMA PagesApart ==
  ASSUME NEW p \in Nat, NEW q \in Nat, NEW x \in Nat,
         p * PAGE_SZ <= x, x < p * PAGE_SZ + PAGE_SZ,
         q * PAGE_SZ <= x, x < q * PAGE_SZ + PAGE_SZ
  PROVE  p = q
<1>1. p * PAGE_SZ \in Nat /\ q * PAGE_SZ \in Nat /\ PAGE_SZ \in Nat
  BY PageSz, SMTT(30)
<1>2. p < q => p * PAGE_SZ + PAGE_SZ <= q * PAGE_SZ
  BY PageOrder, PageSz
<1>3. q < p => q * PAGE_SZ + PAGE_SZ <= p * PAGE_SZ
  BY PageOrder, PageSz
<1> QED BY <1>1, <1>2, <1>3, SMTT(30)

(* The bytes of k pages from `first' on. *)
LEMMA PagesRun ==
  ASSUME NEW first \in Nat, NEW k \in Nat \ {0}, NEW x \in Nat
  PROVE  /\ first * PAGE_SZ \in Nat /\ k * PAGE_SZ \in Nat /\ PAGE_SZ <= k * PAGE_SZ
         /\ InPages(first..(first + k - 1), x) <=>
              first * PAGE_SZ <= x /\ x < first * PAGE_SZ + k * PAGE_SZ
<1> DEFINE last == first + k - 1
<1>1. /\ first * PAGE_SZ \in Nat /\ k * PAGE_SZ \in Nat /\ PAGE_SZ <= k * PAGE_SZ /\ PAGE_SZ \in Nat
      /\ last \in Nat /\ last * PAGE_SZ \in Nat
      /\ first * PAGE_SZ + k * PAGE_SZ = last * PAGE_SZ + PAGE_SZ
  <2>1. PAGE_SZ \in Nat \ {0}
    BY PageSz
  <2>2. 0 * PAGE_SZ + PAGE_SZ <= k * PAGE_SZ /\ 0 * PAGE_SZ = 0
    BY <2>1, PageOrder, SMTT(30)
  <2>3. (first + k - 1) * PAGE_SZ + PAGE_SZ = first * PAGE_SZ + k * PAGE_SZ
    BY <2>1, Z3
  <2>4. last \in Nat /\ first * PAGE_SZ \in Nat /\ k * PAGE_SZ \in Nat
    BY <2>1, SMTT(30)
  <2>5. last * PAGE_SZ \in Nat
    BY <2>1, <2>4, SMTT(30)
  <2> QED BY <2>1, <2>2, <2>3, <2>4, <2>5, SMTT(30)
<1>2. ASSUME NEW page \in first..last, page * PAGE_SZ <= x, x < page * PAGE_SZ + PAGE_SZ
      PROVE  first * PAGE_SZ <= x /\ x < first * PAGE_SZ + k * PAGE_SZ
  <2>1. page \in Nat /\ page * PAGE_SZ \in Nat
    BY <1>1, SMTT(30)
  <2>2. first < page => first * PAGE_SZ + PAGE_SZ <= page * PAGE_SZ
    BY <2>1, PageOrder, PageSz
  <2>3. page < last => page * PAGE_SZ + PAGE_SZ <= last * PAGE_SZ
    BY <1>1, <2>1, PageOrder, PageSz
  <2>4. (first < page \/ first = page) /\ (page < last \/ page = last)
    BY <1>1, SMTT(30)
  <2> HIDE DEF last
  <2> QED BY <1>1, <1>2, <2>1, <2>2, <2>3, <2>4, SMTT(30)
<1>3. ASSUME first * PAGE_SZ <= x, x < first * PAGE_SZ + k * PAGE_SZ
      PROVE  \E page \in first..last : page * PAGE_SZ <= x /\ x < page * PAGE_SZ + PAGE_SZ
  <2>1. PICK page \in Nat : page * PAGE_SZ <= x /\ x < page * PAGE_SZ + PAGE_SZ
    BY PageOf, PageSz
  <2>2. page < first => page * PAGE_SZ + PAGE_SZ <= first * PAGE_SZ
    BY PageOrder, PageSz
  <2>3. last < page => last * PAGE_SZ + PAGE_SZ <= page * PAGE_SZ
    BY <1>1, PageOrder, PageSz
  <2>4. page * PAGE_SZ \in Nat
    BY PageSz, SMTT(30)
  <2> HIDE DEF last
  <2>5. ~(page < first) /\ ~(last < page)
    BY <1>1, <1>3, <2>1, <2>2, <2>3, <2>4, SMTT(30)
  <2>6. page \in first..last
    BY <1>1, <2>5, SMTT(30)
  <2> QED BY <2>1, <2>6
<1> QED BY <1>1, <1>2, <1>3 DEF InPages

(* An interval that shares no byte with the blocks is beside every block.  *)
LEMMA BesideBlocks ==
  ASSUME NEW h, Apart(h), NEW start \in Nat, NEW stop \in Nat, start < stop,
         \A x \in Nat : start <= x /\ x < stop => ~InBlocks(h, x)
  PROVE  \A b \in DOMAIN h : End(h, b) <= start \/ stop <= b
<1> SUFFICES ASSUME NEW b \in DOMAIN h, ~(End(h, b) <= start), ~(stop <= b) PROVE FALSE
  OBVIOUS
<1>1. b \in Nat /\ End(h, b) \in Nat /\ b < End(h, b)
  BY EndType, SMTT(30)
<1>2. CASE b <= start
  BY <1>1, <1>2, SMTT(30) DEF InBlocks
<1>3. CASE start < b
  BY <1>1, <1>3, SMTT(30) DEF InBlocks
<1> QED BY <1>1, <1>2, <1>3, SMTT(30)

-----------------------------------------------------------------------------
(* The walks of _find_free_block.                                          *)

(* A walk is on a block of the list.                                       *)
LEMMA WalkBlock ==
  ASSUME NEW h, NEW first, NEW b, NEW size, WalkAt(h, first, b, size)
  PROVE  b \in DOMAIN h /\ List(h, first)
<1>1. List(h, first)
  BY DEF WalkAt, List
<1>2. b \in DOMAIN h
  BY DEF WalkAt
<1> QED BY <1>1, <1>2

(* A walk of _find_free_block starts at the first block.                   *)
LEMMA WalkStart ==
  ASSUME NEW h, NEW first, NEW size, List(h, first)
  PROVE  WalkAt(h, first, first, size)
<1>1. PICK n \in Nat \ {0} : \E ord \in [0..(n - 1) -> DOMAIN h] : InOrder(h, first, n, ord)
  BY DEF List
<1>2. PICK ord \in [0..(n - 1) -> DOMAIN h] : InOrder(h, first, n, ord)
  BY <1>1
<1>3. 0 \in 0..(n - 1) /\ ord[0] = first /\ \A j \in 0..(0 - 1) : ~FitsAt(h, ord[j], size)
  BY <1>2, SMTT(30) DEF InOrder
<1>4. \E i \in 0..(n - 1) : ord[i] = first /\ \A j \in 0..(i - 1) : ~FitsAt(h, ord[j], size)
  BY <1>3
<1> QED BY <1>2, <1>4 DEF WalkAt

(* A walk that passes a block that does not fit goes on to the next one.   *)
LEMMA WalkNext ==
  ASSUME NEW h, NEW first, NEW b, NEW size,
         WalkAt(h, first, b, size), ~FitsAt(h, b, size), h[b].next # NULL
  PROVE  WalkAt(h, first, h[b].next, size)
<1>1. PICK n \in Nat \ {0} : \E ord \in [0..(n - 1) -> DOMAIN h] :
        /\ InOrder(h, first, n, ord)
        /\ \E i \in 0..(n - 1) : ord[i] = b /\ \A j \in 0..(i - 1) : ~FitsAt(h, ord[j], size)
  BY DEF WalkAt
<1>2. PICK ord \in [0..(n - 1) -> DOMAIN h] :
        /\ InOrder(h, first, n, ord)
        /\ \E i \in 0..(n - 1) : ord[i] = b /\ \A j \in 0..(i - 1) : ~FitsAt(h, ord[j], size)
  BY <1>1
<1>3. PICK i \in 0..(n - 1) : ord[i] = b /\ \A j \in 0..(i - 1) : ~FitsAt(h, ord[j], size)
  BY <1>2
<1>4. i + 1 \in 0..(n - 1) /\ ord[i + 1] = h[b].next
  <2>1. h[ord[i]].next = IF i + 1 < n THEN ord[i + 1] ELSE NULL
    BY <1>2 DEF InOrder
  <2> QED BY <1>3, <2>1, SMTT(30)
<1>5. ASSUME NEW j \in 0..((i + 1) - 1) PROVE ~FitsAt(h, ord[j], size)
  <2>1. j \in 0..(i - 1) \/ j = i
    BY SMTT(30)
  <2> QED BY <1>3, <2>1
<1>6. \E k \in 0..(n - 1) :
        ord[k] = h[b].next /\ \A j \in 0..(k - 1) : ~FitsAt(h, ord[j], size)
  BY <1>4, <1>5
<1> QED BY <1>2, <1>6 DEF WalkAt

(* A walk that ends without a block has passed all of them. *)
LEMMA WalkEnd ==
  ASSUME NEW h, NEW first, NEW b, NEW size, DOMAIN h \subseteq Nat \ {0},
         WalkAt(h, first, b, size), ~FitsAt(h, b, size), h[b].next = NULL
  PROVE  \A c \in DOMAIN h : ~FitsAt(h, c, size)
<1>1. PICK n \in Nat \ {0} : \E ord \in [0..(n - 1) -> DOMAIN h] :
        /\ InOrder(h, first, n, ord)
        /\ \E i \in 0..(n - 1) : ord[i] = b /\ \A j \in 0..(i - 1) : ~FitsAt(h, ord[j], size)
  BY DEF WalkAt
<1>2. PICK ord \in [0..(n - 1) -> DOMAIN h] :
        /\ InOrder(h, first, n, ord)
        /\ \E i \in 0..(n - 1) : ord[i] = b /\ \A j \in 0..(i - 1) : ~FitsAt(h, ord[j], size)
  BY <1>1
<1>3. PICK i \in 0..(n - 1) : ord[i] = b /\ \A j \in 0..(i - 1) : ~FitsAt(h, ord[j], size)
  BY <1>2
<1>4. i = n - 1
  <2>1. h[ord[i]].next = IF i + 1 < n THEN ord[i + 1] ELSE NULL
    BY <1>2 DEF InOrder
  <2>2. ~(i + 1 < n)
    <3>1. i + 1 < n => i + 1 \in 0..(n - 1)
      BY SMTT(30)
    <3> QED BY <1>3, <2>1, <3>1 DEF NULL
  <2> QED BY <2>2, SMTT(30)
<1>5. ASSUME NEW c \in DOMAIN h PROVE ~FitsAt(h, c, size)
  <2>1. PICK j \in 0..(n - 1) : ord[j] = c
    BY <1>2 DEF InOrder
  <2>2. j \in 0..(i - 1) \/ j = i
    BY <1>4, SMTT(30)
  <2> QED BY <1>3, <2>1, <2>2
<1> QED BY <1>5

-----------------------------------------------------------------------------
(* Flags, merges and neighbours.                                           *)

Flagged(h, b, flag) == [h EXCEPT ![b].is_free = flag]

FlagSet(h, b, flag, h2) ==
  /\ DOMAIN h2 = DOMAIN h /\ h2[b].is_free = flag
  /\ \A a \in DOMAIN h : h2[a].next = h[a].next /\ h2[a].bytes = h[a].bytes
  /\ \A a \in DOMAIN h \ {b} : h2[a].is_free = h[a].is_free

(* Setting is_free changes no link and no size.                            *)
LEMMA FlagFacts ==
  ASSUME NEW h, NEW b \in DOMAIN h, NEW flag \in BOOLEAN, Apart(h), List(h, blocks),
         NEW h2, h2 = Flagged(h, b, flag)
  PROVE  FlagSet(h, b, flag, h2) /\ Apart(h2) /\ List(h2, blocks) /\ SameBytes(h, h2)
<1>1. DOMAIN h2 = DOMAIN h /\ h2[b] = [h[b] EXCEPT !.is_free = flag]
      /\ \A a \in DOMAIN h \ {b} : h2[a] = h[a]
  BY DEF Flagged
<1>2. \A a \in DOMAIN h : h[a] \in Header
  BY DEF Apart
<1>3. /\ h2[b] \in Header /\ h2[b].is_free = flag /\ h2[b].next = h[b].next
      /\ h2[b].prev = h[b].prev /\ h2[b].bytes = h[b].bytes
  BY <1>1, <1>2 DEF Header
<1>4. \A a \in DOMAIN h : /\ h2[a] \in Header
                          /\ h2[a].next = h[a].next /\ h2[a].prev = h[a].prev
                          /\ h2[a].bytes = h[a].bytes
                          /\ a # b => h2[a].is_free = h[a].is_free
  BY <1>1, <1>2, <1>3
<1>5. \A a \in DOMAIN h : End(h2, a) = End(h, a)
  BY <1>4 DEF End
<1>6. Apart(h2)
  BY <1>1, <1>4, <1>5 DEF Apart
<1>7. List(h2, blocks)
  BY <1>1, <1>4, ListSame, SMTT(30) DEF SameLinks
<1>8. SameBytes(h, h2)
  BY <1>1, <1>5 DEF InBlocks, SameBytes
<1>9. FlagSet(h, b, flag, h2)
  BY <1>1, <1>3, <1>4 DEF FlagSet
<1> QED BY <1>6, <1>7, <1>8, <1>9

(* Two neighbours in the list are merged exactly when both are free and    *)
(* the second starts where the first ends.                                 *)
LEMMA MergeNextIff ==
  ASSUME NEW h, Apart(h), List(h, blocks), NEW b \in DOMAIN h
  PROVE  MergeNext(h, b) <=>
           h[b].next \in DOMAIN h /\ h[h[b].next].is_free /\ End(h, b) = h[b].next
<1>1. /\ b \in Nat \ {0} /\ h[b].bytes \in Nat /\ HDR \in Nat /\ DOMAIN h \subseteq Nat \ {0}
      /\ b + (HDR + h[b].bytes) = End(h, b)
  BY EndType, SMTT(30) DEF Apart, End
<1>2. h[b].next # NULL => h[b].next \in DOMAIN h
  BY <1>1, ListLinks
<1>3. b # NULL /\ NULL \notin DOMAIN h
  BY <1>1 DEF NULL
<1> QED
  BY <1>1, <1>2, <1>3
  DEF MergeNext, FreeAndContiguous, are_blocks_contiguous, get_total_block_size

(* The previous block merges with b when it would merge with its next one. *)
LEMMA MergePrevIff ==
  ASSUME NEW h, Apart(h), List(h, blocks), NEW b \in DOMAIN h, h[b].is_free
  PROVE  MergePrev(h, b) <=>
           h[b].prev \in DOMAIN h /\ h[h[b].prev].is_free /\ MergeNext(h, h[b].prev)
<1>1. DOMAIN h \subseteq Nat \ {0} /\ b # NULL /\ NULL \notin DOMAIN h
  BY DEF Apart, NULL
<1>2. h[b].prev # NULL => h[b].prev \in DOMAIN h /\ h[h[b].prev].next = b
  BY <1>1, ListLinks, SMTT(30)
<1>3. CASE h[b].prev = NULL
  BY <1>1, <1>3 DEF MergePrev, FreeAndContiguous
<1>4. CASE h[b].prev # NULL
  BY <1>1, <1>2, <1>4 DEF MergePrev, MergeNext, FreeAndContiguous
<1> QED BY <1>3, <1>4

(* malloc takes a block whole. *)
LEMMA TakeUnmerged ==
  ASSUME NEW h, NEW b \in DOMAIN h, Apart(h), List(h, blocks), UnmergedBut(h, b),
         NEW h2, h2 = Flagged(h, b, FALSE)
  PROVE  Unmerged(h2)
<1>1. /\ DOMAIN h2 = DOMAIN h /\ ~h2[b].is_free
      /\ \A a \in DOMAIN h : h2[a].next = h[a].next /\ h2[a].bytes = h[a].bytes
      /\ \A a \in DOMAIN h \ {b} : h2[a].is_free = h[a].is_free
      /\ Apart(h2) /\ List(h2, blocks)
  <2>1. FlagSet(h, b, FALSE, h2) /\ Apart(h2) /\ List(h2, blocks)
    BY FlagFacts
  <2> QED BY <2>1 DEF FlagSet
<1>2. ASSUME NEW a \in DOMAIN h2, h2[a].is_free, MergeNext(h2, a) PROVE FALSE
  <2>1. h2[a].next \in DOMAIN h2 /\ h2[h2[a].next].is_free /\ End(h2, a) = h2[a].next
    BY <1>1, <1>2, MergeNextIff
  <2>2. a # b /\ h2[a].next # b
    BY <1>1, <1>2, <2>1
  <2>3. h[a].is_free /\ h[a].next # b
    BY <1>1, <1>2, <2>2
  <2>4. h[a].next \in DOMAIN h /\ h[h[a].next].is_free /\ End(h, a) = h[a].next
    BY <1>1, <2>1, <2>2 DEF End
  <2>5. MergeNext(h, a)
    BY <1>1, <2>4, MergeNextIff
  <2> QED BY <1>1, <2>3, <2>5 DEF UnmergedBut
<1> QED BY <1>2 DEF Unmerged

(* malloc takes the first part of a free block. *)
LEMMA SplitUnmerged ==
  ASSUME NEW h, NEW h2, NEW b \in DOMAIN h, NEW new \in Nat \ {0}, new \notin DOMAIN h,
         Apart(h), List(h, blocks), UnmergedBut(h, b), h[b].is_free,
         Inserted(h, b, new, h2), ~h2[b].is_free, End(h2, new) = End(h, b),
         Apart(h2), List(h2, blocks)
  PROVE  Unmerged(h2)
<1>1. /\ DOMAIN h2 = DOMAIN h \cup {new} /\ h2[new].next = h[b].next
      /\ \A a \in DOMAIN h \ {b} : /\ h2[a].next = h[a].next
                                   /\ h2[a].is_free = h[a].is_free /\ h2[a].bytes = h[a].bytes
  BY DEF Inserted, LinksInserted
<1>2. DOMAIN h \subseteq Nat \ {0} /\ h[b].next # b
  <2>1. DOMAIN h \subseteq Nat \ {0} /\ b # NULL
    BY DEF Apart, NULL
  <2> QED BY <2>1, ListLinks, SMTT(30)
<1>3. \A a \in DOMAIN h : h[a].next # new
  <2>1. NULL # new
    BY DEF NULL
  <2> QED BY <1>2, <2>1, ListLinks, SMTT(30)
<1>4. ASSUME NEW a \in DOMAIN h2, h2[a].is_free, MergeNext(h2, a) PROVE FALSE
  <2>1. h2[a].next \in DOMAIN h2 /\ h2[h2[a].next].is_free /\ End(h2, a) = h2[a].next
    BY <1>4, MergeNextIff
  <2>2. CASE a = new
    <3>1. h[b].next \in DOMAIN h \ {b} /\ h[h[b].next].is_free /\ End(h, b) = h[b].next
      BY <1>1, <1>2, <1>3, <2>1, <2>2
    <3>2. MergeNext(h, b)
      BY <3>1, MergeNextIff
    <3> QED BY <1>2, <3>2 DEF UnmergedBut
  <2>3. CASE a \in DOMAIN h \ {b}
    <3>1. h[a].next \in DOMAIN h \ {b} /\ h[h[a].next].is_free /\ End(h, a) = h[a].next
      BY <1>1, <1>3, <2>1, <2>3, SMTT(30) DEF End
    <3>2. MergeNext(h, a) /\ h[a].is_free
      BY <1>1, <1>4, <2>3, <3>1, MergeNextIff
    <3> QED BY <3>1, <3>2, <2>3 DEF UnmergedBut
  <2> QED BY <1>1, <1>4, <2>2, <2>3
<1> QED BY <1>4 DEF Unmerged

(* The heap grows: the new block can only touch a block before it. *)
LEMMA InsertUnmerged ==
  ASSUME NEW h, NEW h2, NEW b \in DOMAIN h, NEW new \in Nat \ {0}, new \notin DOMAIN h,
         Apart(h), List(h, blocks), Unmerged(h), h[b].next < new,
         Inserted(h, b, new, h2), h2[b].is_free = h[b].is_free, Apart(h2), List(h2, blocks)
  PROVE  UnmergedBut(h2, new)
<1>1. /\ DOMAIN h2 = DOMAIN h \cup {new} /\ h2[new].next = h[b].next /\ h2[b].next = new
      /\ \A a \in DOMAIN h \ {b} : h2[a].next = h[a].next /\ h2[a].bytes = h[a].bytes
      /\ \A a \in DOMAIN h \ {b} : h2[a].is_free = h[a].is_free
  BY DEF Inserted, LinksInserted
<1>2. ASSUME NEW a \in DOMAIN h2, h2[a].is_free, h2[a].next # new, MergeNext(h2, a) PROVE FALSE
  <2>1. h2[a].next \in DOMAIN h2 /\ h2[h2[a].next].is_free /\ End(h2, a) = h2[a].next
    BY <1>2, MergeNextIff
  <2>2. CASE a = new
    <3>1. End(h2, new) \in Nat /\ new + HDR < End(h2, new) /\ HDR \in Nat
      BY <1>1, EndType
    <3>2. h[b].next \in Nat
      BY EndType
    <3> QED BY <1>1, <2>1, <2>2, <3>1, <3>2, SMTT(30)
  <2>3. CASE a \in DOMAIN h \ {b}
    <3>1. h[a].is_free /\ h[a].next \in DOMAIN h /\ End(h, a) = h[a].next
      BY <1>1, <1>2, <2>1, <2>3 DEF End
    <3>2. h[h[a].next].is_free
      BY <1>1, <2>1, <2>3, <3>1
    <3>3. MergeNext(h, a)
      BY <2>3, <3>1, <3>2, MergeNextIff
    <3> QED BY <2>3, <3>1, <3>3 DEF Unmerged
  <2> QED BY <1>1, <1>2, <2>2, <2>3
<1> QED BY <1>2 DEF UnmergedBut

(* One merge of free: b, which may be free or not, takes in the free block *)
(* after it.                                                               *)
LEMMA AbsorbStep ==
  ASSUME NEW h, NEW b \in DOMAIN h, Apart(h), List(h, blocks), MergeNext(h, b),
         NEW gone, gone = h[b].next, NEW h2, h2 = Absorb(h, b, gone)
  PROVE  /\ gone \in DOMAIN h \ {b} /\ h[gone].is_free /\ h[gone].prev = b
         /\ Absorbed(h, b, gone, h2) /\ DOMAIN h2 = DOMAIN h \ {gone}
         /\ Apart(h2) /\ List(h2, blocks) /\ End(h2, b) = End(h, gone)
         /\ SameBytes(h, h2)
<1>1. gone \in DOMAIN h /\ h[gone].is_free /\ End(h, b) = gone
  BY MergeNextIff
<1>2. DOMAIN h \subseteq Nat \ {0} /\ gone # NULL
  BY <1>1 DEF Apart, NULL
<1>3. gone # b /\ h[gone].prev = b
  BY <1>2, ListLinks, SMTT(30)
<1>4. Absorbed(h, b, gone, h2)
  BY <1>1, AbsorbFacts
<1>5. DOMAIN h2 = DOMAIN h \ {gone}
  BY <1>4 DEF Absorbed, LinksAbsorbed
<1>6. List(h2, blocks)
  BY <1>1, <1>2, <1>4, ListAbsorbed DEF Absorbed
<1>7. /\ Apart(h2) /\ End(h2, b) = End(h, gone)
      /\ SameBytes(h, h2)
  BY <1>1, <1>3, <1>4, AbsorbGeometry, SMTT(30)
<1> QED BY <1>1, <1>3, <1>4, <1>5, <1>6, <1>7

(* When only b and the blocks before `except' may need a merge, then after *)
(* b's merge only the blocks before `except' may.                          *)
LEMMA AbsorbUnmerged ==
  ASSUME NEW h, NEW b \in DOMAIN h, Apart(h), List(h, blocks), MergeNext(h, b),
         NEW gone, gone = h[b].next, NEW h2, h2 = Absorb(h, b, gone), NEW except,
         UnmergedBeside(h, b, except)
  PROVE  UnmergedBut(h2, except)
<1>1. /\ gone \in DOMAIN h \ {b} /\ h[gone].is_free /\ h[gone].prev = b
      /\ Absorbed(h, b, gone, h2) /\ DOMAIN h2 = DOMAIN h \ {gone}
      /\ Apart(h2) /\ List(h2, blocks) /\ End(h2, b) = End(h, gone)
  BY AbsorbStep, SMTT(30)
<1>2. /\ h2[b].next = h[gone].next
      /\ \A a \in DOMAIN h2 : h2[a].is_free = h[a].is_free
      /\ \A a \in DOMAIN h2 \ {b} : h2[a].next = h[a].next /\ h2[a].bytes = h[a].bytes
  BY <1>1, SMTT(30) DEF Absorbed, LinksAbsorbed
<1>3. ASSUME NEW a \in DOMAIN h2, h2[a].is_free, h2[a].next # except, MergeNext(h2, a) PROVE FALSE
  <2>1. h2[a].next \in DOMAIN h2 /\ h2[h2[a].next].is_free /\ End(h2, a) = h2[a].next
    BY <1>1, <1>3, MergeNextIff, SMTT(30)
  <2>2. CASE a = b
    <3>1. h[gone].next \in DOMAIN h /\ h[h[gone].next].is_free /\ End(h, gone) = h[gone].next
      <4>1. PICK next : next = h[gone].next
        OBVIOUS
      <4>2. h2[b].next = next /\ next \in DOMAIN h2
        BY <1>2, <2>1, <2>2, <4>1
      <4>3. h2[next].is_free /\ End(h2, b) = next
        BY <2>1, <2>2, <4>2
      <4>4. next \in DOMAIN h /\ h[next].is_free /\ End(h, gone) = next
        BY <1>1, <1>2, <4>2, <4>3
      <4> QED
        BY <4>1, <4>4
    <3>2. MergeNext(h, gone) /\ h[gone].next # except
      BY <1>1, <1>2, <1>3, <2>2, <3>1, MergeNextIff
    <3> QED BY <1>1, <3>2 DEF UnmergedBeside
  <2>3. CASE a # b
    <3>1. h[a].next \in DOMAIN h /\ h[h[a].next].is_free /\ End(h, a) = h[a].next
          /\ h[a].is_free /\ h[a].next # except /\ a \in DOMAIN h
      BY <1>1, <1>2, <1>3, <2>1, <2>3 DEF End
    <3>2. MergeNext(h, a)
      BY <3>1, MergeNextIff
    <3> QED BY <2>3, <3>1, <3>2 DEF UnmergedBeside
  <2> QED BY <2>2, <2>3
<1> QED BY <1>3 DEF UnmergedBut

(* free, first merge: b takes in the block after it when that one is free. *)
LEMMA MergeForward ==
  ASSUME NEW h, NEW b \in DOMAIN h, Apart(h), List(h, blocks),
         UnmergedBeside(h, b, b), NEW h2
  PROVE  h2 = (IF MergeNext(h, b) THEN Absorb(h, b, h[b].next) ELSE h) =>
            /\ DOMAIN h2 \subseteq DOMAIN h /\ b \in DOMAIN h2
            /\ Apart(h2) /\ List(h2, blocks)
            /\ SameBytes(h, h2)
            /\ \A a \in DOMAIN h2 : h2[a].is_free = h[a].is_free
            /\ \A a \in DOMAIN h \ {b} :
                 ~h[a].is_free => a \in DOMAIN h2 /\ h2[a].bytes = h[a].bytes
            /\ UnmergedBut(h2, b)
<1>1. CASE MergeNext(h, b)
  <2>1. PICK gone : gone = h[b].next
    OBVIOUS
  <2>2. PICK m : m = Absorb(h, b, gone)
    OBVIOUS
  <2>3. /\ gone \in DOMAIN h \ {b} /\ h[gone].is_free
        /\ Absorbed(h, b, gone, m) /\ DOMAIN m = DOMAIN h \ {gone}
        /\ Apart(m) /\ List(m, blocks)
        /\ SameBytes(h, m)
    BY <1>1, <2>1, <2>2, AbsorbStep, SMTT(30)
  <2>4. /\ \A a \in DOMAIN m : m[a].is_free = h[a].is_free
        /\ \A a \in DOMAIN m \ {b} : m[a].bytes = h[a].bytes
    BY <2>3 DEF Absorbed
  <2>5. UnmergedBut(m, b)
    BY <1>1, <2>1, <2>2, AbsorbUnmerged
  <2> QED BY <1>1, <2>1, <2>2, <2>3, <2>4, <2>5
<1>2. CASE ~MergeNext(h, b)
  <2>1. UnmergedBut(h, b) /\ SameBytes(h, h)
    BY <1>2 DEF UnmergedBeside, UnmergedBut, SameBytes
  <2> QED BY <1>2, <2>1
<1> QED BY <1>1, <1>2

(* free, second merge: the block before b takes in b when that one is free.*)
LEMMA MergeBackward ==
  ASSUME NEW h, NEW b \in DOMAIN h, Apart(h), List(h, blocks), h[b].is_free,
         UnmergedBut(h, b), NEW h3
  PROVE  h3 = (IF MergePrev(h, b) THEN Absorb(h, h[b].prev, b) ELSE h) =>
            /\ DOMAIN h3 \subseteq DOMAIN h
            /\ Apart(h3) /\ List(h3, blocks) /\ Unmerged(h3)
            /\ SameBytes(h, h3)
            /\ \A a \in DOMAIN h3 : h3[a].is_free = h[a].is_free
            /\ \A a \in DOMAIN h : ~h[a].is_free => a \in DOMAIN h3 /\ h3[a].bytes = h[a].bytes
<1>0. DOMAIN h \subseteq Nat \ {0} /\ b # NULL
  BY DEF Apart, NULL
<1>1. CASE MergePrev(h, b)
  <2>1. PICK p : p = h[b].prev
    OBVIOUS
  <2>2. p \in DOMAIN h /\ h[p].is_free /\ MergeNext(h, p)
    BY <1>1, <2>1, MergePrevIff
  <2>3. b = h[p].next
    <3>1. p # NULL
      BY <1>0, <2>2 DEF NULL
    <3> QED BY <1>0, <2>1, <3>1, ListLinks
  <2>4. PICK m : m = Absorb(h, p, b)
    OBVIOUS
  <2>5. /\ Absorbed(h, p, b, m) /\ DOMAIN m = DOMAIN h \ {b}
        /\ Apart(m) /\ List(m, blocks)
        /\ SameBytes(h, m)
    BY <2>2, <2>3, <2>4, AbsorbStep, SMTT(30)
  <2>6. /\ \A a \in DOMAIN m : m[a].is_free = h[a].is_free
        /\ \A a \in DOMAIN m \ {p} : m[a].bytes = h[a].bytes
    BY <2>5 DEF Absorbed
  <2>7. UnmergedBut(m, b)
    <3>1. UnmergedBeside(h, p, b)
      BY DEF UnmergedBut, UnmergedBeside
    <3> QED BY <2>2, <2>3, <2>4, <3>1, AbsorbUnmerged
  <2>8. \A a \in DOMAIN m : m[a].next = b => ~MergeNext(m, a)
    BY <2>5, MergeNextIff
  <2>9. Unmerged(m)
    BY <2>7, <2>8 DEF Unmerged, UnmergedBut
  <2> QED BY <1>1, <2>1, <2>2, <2>4, <2>5, <2>6, <2>9
<1>2. CASE ~MergePrev(h, b)
  <2>1. ASSUME NEW a \in DOMAIN h, h[a].is_free, MergeNext(h, a) PROVE FALSE
    <3>1. h[a].next = b
      BY <2>1 DEF UnmergedBut
    <3>2. h[b].prev = a
      BY <1>0, <3>1, ListLinks
    <3> QED BY <1>2, <2>1, <3>2, MergePrevIff
  <2>2. Unmerged(h) /\ SameBytes(h, h)
    BY <2>1 DEF Unmerged, SameBytes
  <2> QED BY <1>2, <2>2
<1> QED BY <1>1, <1>2

Freed(h, b) ==
  LET h1 == Flagged(h, b, TRUE)
      h2 == IF MergeNext(h1, b) THEN Absorb(h1, b, h1[b].next) ELSE h1
  IN  IF MergePrev(h2, b) THEN Absorb(h2, h2[b].prev, b) ELSE h2

(* The block b is free or part of a free one, and no block that stays      *)
(* allocated is touched.                                                   *)
Released(h, b, h2) ==
  /\ \A a \in DOMAIN h2 : a \in DOMAIN h /\ (~h2[a].is_free => a # b /\ ~h[a].is_free)
  /\ \A a \in DOMAIN h \ {b} :
       ~h[a].is_free => a \in DOMAIN h2 /\ ~h2[a].is_free /\ h2[a].bytes = h[a].bytes

(* What free does to the headers. *)
LEMMA FreeFacts ==
  ASSUME NEW h, NEW b \in DOMAIN h, Apart(h), List(h, blocks), Unmerged(h), ~h[b].is_free
  PROVE  /\ Apart(Freed(h, b)) /\ List(Freed(h, b), blocks) /\ Unmerged(Freed(h, b))
         /\ SameBytes(h, Freed(h, b)) /\ Released(h, b, Freed(h, b))
<1>h1. PICK h1 : h1 = Flagged(h, b, TRUE)
  OBVIOUS
<1>h2. PICK h2 : h2 = IF MergeNext(h1, b) THEN Absorb(h1, b, h1[b].next) ELSE h1
  OBVIOUS
<1>h3. PICK h3 : h3 = IF MergePrev(h2, b) THEN Absorb(h2, h2[b].prev, b) ELSE h2
  OBVIOUS
<1>0. h3 = Freed(h, b)
  BY <1>h1, <1>h2, <1>h3 DEF Freed
<1>1. /\ DOMAIN h1 = DOMAIN h /\ h1[b].is_free
      /\ \A a \in DOMAIN h : h1[a].next = h[a].next /\ h1[a].bytes = h[a].bytes
      /\ \A a \in DOMAIN h \ {b} : h1[a].is_free = h[a].is_free
      /\ Apart(h1) /\ List(h1, blocks)
      /\ SameBytes(h, h1)
  <2>1. FlagSet(h, b, TRUE, h1) /\ Apart(h1) /\ List(h1, blocks) /\ SameBytes(h, h1)
    BY <1>h1, FlagFacts
  <2> QED BY <2>1 DEF FlagSet
<1>2. UnmergedBeside(h1, b, b)
  <2> SUFFICES ASSUME NEW a \in DOMAIN h1 \ {b}, h1[a].is_free, h1[a].next # b, MergeNext(h1, a)
               PROVE  FALSE
    BY DEF UnmergedBeside
  <2>1. h1[a].next \in DOMAIN h1 /\ h1[h1[a].next].is_free /\ End(h1, a) = h1[a].next
    BY <1>1, MergeNextIff
  <2>2. h[a].is_free /\ h[a].next \in DOMAIN h /\ h[h[a].next].is_free /\ End(h, a) = h[a].next
    BY <1>1, <2>1 DEF End
  <2>3. MergeNext(h, a)
    BY <1>1, <2>2, MergeNextIff
  <2> QED BY <1>1, <2>2, <2>3 DEF Unmerged
<1>3. /\ DOMAIN h2 \subseteq DOMAIN h1 /\ b \in DOMAIN h2
      /\ Apart(h2) /\ List(h2, blocks)
      /\ SameBytes(h1, h2)
      /\ \A a \in DOMAIN h2 : h2[a].is_free = h1[a].is_free
      /\ \A a \in DOMAIN h1 \ {b} :
           ~h1[a].is_free => a \in DOMAIN h2 /\ h2[a].bytes = h1[a].bytes
      /\ UnmergedBut(h2, b)
  <2>1. b \in DOMAIN h1 /\ Apart(h1) /\ List(h1, blocks)
    BY <1>1
  <2>2. h2 = IF MergeNext(h1, b) THEN Absorb(h1, b, h1[b].next) ELSE h1
    BY <1>h2
  <2> QED BY <1>2, <2>1, <2>2, MergeForward, SMTT(30)
<1>4. /\ DOMAIN h3 \subseteq DOMAIN h2
      /\ Apart(h3) /\ List(h3, blocks) /\ Unmerged(h3)
      /\ SameBytes(h2, h3)
      /\ \A a \in DOMAIN h3 : h3[a].is_free = h2[a].is_free
      /\ \A a \in DOMAIN h2 : ~h2[a].is_free => a \in DOMAIN h3 /\ h3[a].bytes = h2[a].bytes
  <2>1. /\ b \in DOMAIN h2 /\ Apart(h2) /\ List(h2, blocks) /\ h2[b].is_free
        /\ UnmergedBut(h2, b)
    BY <1>1, <1>3
  <2>2. h3 = IF MergePrev(h2, b) THEN Absorb(h2, h2[b].prev, b) ELSE h2
    BY <1>h3
  <2> QED BY <2>1, <2>2, MergeBackward, SMTT(30)
<1>5. SameBytes(h, h3)
  BY <1>1, <1>3, <1>4 DEF SameBytes
<1>6. Released(h, b, h3)
  BY <1>1, <1>3, <1>4 DEF Released
<1> QED BY <1>0, <1>4, <1>5, <1>6

-----------------------------------------------------------------------------
(* The invariant is inductive: one lemma per action.                       *)

(* The invariant holds before the constructor runs.                        *)
LEMMA InitHeapInv == Init => HeapInv
<1>0. SUFFICES ASSUME Init PROVE HeapInv
  OBVIOUS
<1>1. avail \subseteq Nat \ {0} /\ owned = {}
  BY <1>0, HeapAssumption DEF Init
<1>2. Types
  BY <1>0, <1>1 DEF Init, Types, NULL
<1>3. Empty
  BY <1>0 DEF Init, Empty
<1> QED BY <1>2, <1>3 DEF HeapInv

(* The constructor makes a list of one block out of one page. *)
LEMMA ConstructStep == HeapInv /\ Construct => HeapInv'
<1>0. SUFFICES ASSUME HeapInv, Construct PROVE HeapInv'
  OBVIOUS
<1>1. Types /\ Empty
  BY <1>0 DEF HeapInv, Made, Construct
<1>2. PICK page \in avail :
        /\ avail' = avail \ {page} /\ owned' = {page}
        /\ blocks' = page * PAGE_SZ
        /\ hdr' = [a \in {page * PAGE_SZ} |->
                     [prev |-> NULL, next |-> NULL, is_free |-> TRUE, bytes |-> PAGE_SZ - HDR]]
  BY <1>0 DEF Construct
<1>3. page \in Nat \ {0} /\ page * PAGE_SZ \in Nat \ {0}
  <2>1. page \in Nat \ {0}
    BY <1>1 DEF Types
  <2>2. 0 * PAGE_SZ + PAGE_SZ <= page * PAGE_SZ /\ 0 * PAGE_SZ = 0 /\ page * PAGE_SZ \in Nat
    BY <2>1, PageOrder, PageSz, SMTT(30)
  <2> QED BY <2>1, <2>2, PageSz, SMTT(30)
<1>4. PICK b : b = page * PAGE_SZ
  OBVIOUS
<1>5. /\ DOMAIN hdr' = {b} /\ b \in Nat \ {0} /\ blocks' = b
      /\ hdr'[b] = [prev |-> NULL, next |-> NULL, is_free |-> TRUE, bytes |-> PAGE_SZ - HDR]
  BY <1>2, <1>3, <1>4
<1>6. /\ hdr'[b] \in Header /\ hdr'[b].bytes > 0 /\ hdr'[b].is_free
      /\ hdr'[b].next = NULL /\ hdr'[b].prev = NULL
      /\ End(hdr', b) = b + PAGE_SZ
  BY <1>5, HeapAssumption, SMTT(30) DEF Header, NULL, End
<1>7. Types'
  <2>1. avail' \subseteq Nat \ {0} /\ owned' \subseteq Nat \ {0} /\ avail' \cap owned' = {}
    BY <1>1, <1>2, <1>3 DEF Types
  <2> QED BY <1>0, <1>1, <2>1 DEF Types, Construct
<1>8. Apart(hdr')
  BY <1>5, <1>6 DEF Apart
<1>9. List(hdr', blocks')
  <2> DEFINE o == [i \in 0..0 |-> b]
  <2>1. o \in [0..(1 - 1) -> DOMAIN hdr'] /\ o[0] = b /\ \A i \in 0..(1 - 1) : i = 0
    BY <1>5, SMTT(30)
  <2>2. InOrder(hdr', blocks', 1, o)
    <3> HIDE DEF o
    <3> QED BY <1>5, <1>6, <2>1, SMTT(30) DEF InOrder
  <2>3. 1 \in Nat \ {0}
    BY SMTT(30)
  <2> HIDE DEF o
  <2> QED BY <2>1, <2>2, <2>3 DEF List
<1>10. Backed(hdr', live')
  BY <1>0, <1>1, <1>5, <1>6 DEF Backed, Empty, Construct
<1>11. Covered'
  <2>1. ASSUME NEW x \in Nat PROVE InBlocks(hdr', x) <=> InPages(owned', x)
    BY <1>2, <1>4, <1>5, <1>6 DEF InBlocks, InPages
  <2>2. pc' # "close"
    BY <1>0 DEF Construct
  <2> QED BY <2>1, <2>2 DEF Covered, InFresh
<1>12. Progress'
  <2>1. Unmerged(hdr')
    BY <1>5, <1>6 DEF Unmerged, MergeNext, FreeAndContiguous
  <2> QED BY <1>0, <2>1 DEF Progress, Construct
<1>13. pc' # "new"
  BY <1>0 DEF Construct
<1> QED BY <1>7, <1>8, <1>9, <1>10, <1>11, <1>12, <1>13 DEF HeapInv, Made

(* The constructor that gets no page leaves no heap.                       *)
LEMMA ConstructFailsStep == HeapInv /\ ConstructFails => HeapInv'
  BY DEF HeapInv, Types, Empty, Made, ConstructFails

(* Steps that leave the blocks alone keep what only speaks of them. *)
LEMMA SameBlocks ==
  ASSUME Made, hdr' = hdr, blocks' = blocks, live' = live, owned' = owned,
         pc # "close", pc' \notin {"new", "close"}, Progress'
  PROVE  Made'
<1>1. Apart(hdr') /\ List(hdr', blocks') /\ Backed(hdr', live')
  BY DEF Made
<1>2. Covered'
  BY DEF Made, Covered, InFresh
<1> QED BY <1>1, <1>2 DEF Made

(* malloc starts its search at the first block.                            *)
LEMMA CallMallocStep ==
  ASSUME NEW size \in Sizes, HeapInv, CallMalloc(size)
  PROVE  HeapInv'
<1>1. Types /\ Made /\ pc = "idle"
  BY DEF HeapInv, Empty, CallMalloc
<1>2. size \in Nat
  BY HeapAssumption
<1>3. Types'
  BY <1>1, <1>2 DEF Types, CallMalloc
<1>4. Progress'
  <2>1. Unmerged(hdr') /\ WalkAt(hdr', blocks', block', bytes')
    BY <1>1, WalkStart DEF Made, Progress, CallMalloc
  <2>2. pc' \in {"find", "panic"} /\ (pc' = "find" => bytes' > 0)
    BY <1>2 DEF CallMalloc
  <2> QED BY <2>1, <2>2 DEF Progress
<1>5. Made'
  BY <1>1, <1>4, SameBlocks DEF CallMalloc
<1> QED BY <1>3, <1>5 DEF HeapInv

(* One step of _find_free_block, in the first or the second search.        *)
LEMMA FindNextStep ==
  ASSUME HeapInv, FindNext
  PROVE  HeapInv'
<1>1. Types /\ Made /\ pc \in {"find", "find_again"}
  BY DEF HeapInv, Empty, FindNext
<1>2. Types'
  BY <1>1 DEF Types, FindNext
<1>3. Progress'
  <2>1. WalkAt(hdr, blocks, block, bytes) /\ ~FitsAt(hdr, block, bytes)
    BY <1>1 DEF Made, Progress, FindNext, Fits, FitsAt
  <2>2. WalkAt(hdr, blocks, hdr[block].next, bytes)
    BY <2>1, WalkNext DEF FindNext
  <2> QED BY <1>1, <2>2 DEF Made, Progress, FindNext
<1>4. Made'
  BY <1>1, <1>3, SameBlocks DEF FindNext
<1> QED BY <1>2, <1>4 DEF HeapInv

(* The search over the grown list finds nothing.                           *)
LEMMA StillNothingStep ==
  ASSUME HeapInv, StillNothing
  PROVE  HeapInv'
<1>1. Types /\ Made /\ pc = "find_again"
  BY DEF HeapInv, Empty, StillNothing
<1>2. Types'
  BY <1>1 DEF Types, StillNothing
<1>3. Progress'
  BY DEF Progress, StillNothing
<1>4. Made'
  BY <1>1, <1>3, SameBlocks DEF StillNothing
<1> QED BY <1>2, <1>4 DEF HeapInv

(* Of h's blocks only b is not as it was; it is allocated. *)
Given(h, b, size, h2) ==
  /\ DOMAIN h \subseteq DOMAIN h2
  /\ \A a \in DOMAIN h \ {b} : h2[a].is_free = h[a].is_free /\ h2[a].bytes = h[a].bytes
  /\ \A a \in DOMAIN h2 \ DOMAIN h : h2[a].is_free
  /\ ~h2[b].is_free /\ h2[b].bytes - size \in 0..HDR

Allocated(lv, ptr, size) ==
  [p \in DOMAIN lv \cup {ptr} |-> IF p = ptr THEN size ELSE lv[p]]

(* A free block becomes a new allocation. *)
LEMMA TakeBacked ==
  ASSUME NEW h, NEW h2, NEW lv, NEW lv2, NEW b \in DOMAIN h, NEW size \in Nat \ {0},
         Apart(h), Backed(h, lv), h[b].is_free,
         Given(h, b, size, h2),
         lv2 = Allocated(lv, b + HDR, size)
  PROVE  Backed(h2, lv2) /\ b + HDR \notin DOMAIN lv
<1>1. b \in Nat /\ HDR \in Nat /\ b + HDR \in Nat /\ (b + HDR) - HDR = b
  BY EndType, SMTT(30)
<1>2. \A p \in DOMAIN lv : p # b + HDR /\ p - HDR # b
  BY <1>1 DEF Backed
<1>3. /\ DOMAIN lv2 = DOMAIN lv \cup {b + HDR} /\ lv2[b + HDR] = size
      /\ \A p \in DOMAIN lv : lv2[p] = lv[p]
  BY <1>2 DEF Allocated
<1>4. ASSUME NEW p \in DOMAIN lv2
      PROVE  /\ p \in Nat /\ lv2[p] \in Nat \ {0}
             /\ p - HDR \in DOMAIN h2 /\ ~h2[p - HDR].is_free
             /\ h2[p - HDR].bytes - lv2[p] \in 0..HDR
  <2>1. CASE p = b + HDR
    BY <1>1, <1>3, <2>1 DEF Given
  <2>2. CASE p \in DOMAIN lv
    <3>1. /\ p \in Nat /\ lv[p] \in Nat \ {0}
          /\ p - HDR \in DOMAIN h /\ ~h[p - HDR].is_free /\ h[p - HDR].bytes - lv[p] \in 0..HDR
      BY <2>2 DEF Backed
    <3>2. p - HDR \in DOMAIN h \ {b} /\ lv2[p] = lv[p]
      BY <1>2, <1>3, <2>2, <3>1
    <3>3. h2[p - HDR].is_free = h[p - HDR].is_free /\ h2[p - HDR].bytes = h[p - HDR].bytes
      BY <3>2 DEF Given
    <3> QED BY <3>1, <3>2, <3>3 DEF Given
  <2> QED BY <1>3, <2>1, <2>2
<1>5. ASSUME NEW a \in DOMAIN h2, ~h2[a].is_free PROVE a + HDR \in DOMAIN lv2
  <2>1. CASE a = b
    BY <1>3, <2>1
  <2>2. CASE a # b
    <3>1. a \in DOMAIN h \ {b} /\ ~h[a].is_free
      BY <1>5, <2>2 DEF Given
    <3> QED BY <1>3, <3>1 DEF Backed
  <2> QED BY <2>1, <2>2
<1> QED BY <1>2, <1>4, <1>5 DEF Backed

(* malloc has found a block: it takes it whole or splits it. *)
Taken(h, b, size) ==
  IF h[b].bytes - size <= HDR THEN [h EXCEPT ![b].is_free = FALSE] ELSE Split(h, b, size)

(* The headers after a found block is taken, with or without a split.      *)
(* A block is split, and what that gives. *)
SplitOf(h, b, size, new, h2) ==
  h2 = Split(h, b, size) /\ h[b].bytes - size > HDR /\ new = b + HDR + size

SplitDone(h, b, size, new, h2) ==
  /\ new \in Nat \ {0} /\ new \notin DOMAIN h
  /\ Inserted(h, b, new, h2)
  /\ h2[new].bytes = h[b].bytes - size - HDR
  /\ ~h2[b].is_free /\ h2[b].bytes = size

LEMMA SplitIsDone ==
  ASSUME NEW h, NEW b \in DOMAIN h, NEW size \in Nat \ {0}, NEW h2, NEW new,
         Apart(h), List(h, blocks), SplitOf(h, b, size, new, h2)
  PROVE  SplitDone(h, b, size, new, h2)
<1>1. h2 = Split(h, b, size)
  BY DEF SplitOf
<1>2. h[b].bytes - size > HDR
  BY DEF SplitOf
<1>3. new = b + HDR + size
  BY DEF SplitOf
<1>4. new \in Nat \ {0} /\ new \notin DOMAIN h
  BY <1>1, <1>2, <1>3, SplitFacts
<1>5. Inserted(h, b, new, h2)
  BY <1>1, <1>2, <1>3, SplitFacts
<1>6. h2[new].bytes = h[b].bytes - size - HDR /\ ~h2[b].is_free /\ h2[b].bytes = size
  BY <1>1, <1>2, <1>3, SplitFacts, SMTT(30)
<1> QED
  BY <1>4, <1>5, <1>6 DEF SplitDone

LEMMA FoundFacts ==
  ASSUME NEW h, NEW h2, NEW b \in DOMAIN h, NEW size \in Nat \ {0},
         Apart(h), List(h, blocks), UnmergedBut(h, b), FitsAt(h, b, size),
         h2 = Taken(h, b, size)
  PROVE  /\ Apart(h2) /\ List(h2, blocks) /\ Unmerged(h2)
         /\ SameBytes(h, h2)
         /\ Given(h, b, size, h2)
<1>0. h[b].is_free /\ h[b].bytes >= size /\ h[b].bytes \in Nat /\ HDR \in Nat /\ b \in Nat
  BY EndType DEF FitsAt
<1>1. CASE h[b].bytes - size <= HDR
  <2>1. h2 = Flagged(h, b, FALSE)
    BY <1>1 DEF Taken, Flagged
  <2>2. /\ DOMAIN h2 = DOMAIN h /\ ~h2[b].is_free /\ h2[b].bytes = h[b].bytes
        /\ \A a \in DOMAIN h \ {b} : h2[a].is_free = h[a].is_free /\ h2[a].bytes = h[a].bytes
        /\ Apart(h2) /\ List(h2, blocks)
        /\ SameBytes(h, h2)
    <3>1. FlagSet(h, b, FALSE, h2) /\ Apart(h2) /\ List(h2, blocks) /\ SameBytes(h, h2)
      BY <2>1, FlagFacts
    <3> QED BY <3>1 DEF FlagSet
  <2>3. Unmerged(h2)
    BY <2>1, TakeUnmerged
  <2>4. h[b].bytes - size \in 0..HDR
    BY <1>0, <1>1, SMTT(30)
  <2> QED BY <2>2, <2>3, <2>4 DEF Given
<1>2. CASE ~(h[b].bytes - size <= HDR)
  <2>1. h2 = Split(h, b, size) /\ h[b].bytes - size > HDR
    BY <1>0, <1>2, SMTT(30) DEF Taken
  <2>2. PICK new : new = b + HDR + size
    OBVIOUS
  <2>3. /\ new \in Nat \ {0} /\ new \notin DOMAIN h
        /\ Inserted(h, b, new, h2)
        /\ h2[new].bytes = h[b].bytes - size - HDR
        /\ ~h2[b].is_free /\ h2[b].bytes = size
    <3>1. SplitOf(h, b, size, new, h2)
      BY <2>1, <2>2 DEF SplitOf
    <3>2. SplitDone(h, b, size, new, h2)
      BY <3>1, SplitIsDone
    <3> QED
      BY <3>2 DEF SplitDone
  <2>4. /\ h2[new].bytes > 0 /\ h2[b].bytes > 0 /\ new = End(h2, b) /\ End(h2, new) = End(h, b)
        /\ h2[b].bytes - size \in 0..HDR
    BY <1>0, <2>1, <2>2, <2>3, SMTT(30) DEF End
  <2>5. Apart(h2) /\ SameBytes(h, h2)
    BY <2>3, <2>4, SplitGeometry
  <2>6. List(h2, blocks)
    BY <2>3, ListInserted DEF Apart, Inserted
  <2>7. Unmerged(h2)
    BY <1>0, <2>3, <2>4, <2>5, <2>6, SplitUnmerged
  <2>8. /\ DOMAIN h2 = DOMAIN h \cup {new} /\ h2[new].is_free
        /\ \A a \in DOMAIN h \ {b} : h2[a].is_free = h[a].is_free /\ h2[a].bytes = h[a].bytes
    BY <2>3 DEF Inserted, LinksInserted
  <2>9. Given(h, b, size, h2)
    BY <2>3, <2>4, <2>8 DEF Given
  <2> QED BY <2>5, <2>6, <2>7, <2>9
<1> QED BY <1>1, <1>2

(* The block that a walk finds may be taken: nothing but the block before  *)
(* it can still need a merge.                                              *)
LEMMA FoundBlock ==
  ASSUME Types, Made, pc \in {"find", "find_again"}, Fits
  PROVE  /\ block \in DOMAIN hdr /\ bytes \in Nat \ {0}
         /\ FitsAt(hdr, block, bytes) /\ UnmergedBut(hdr, block)
<1>1. block \in DOMAIN hdr /\ bytes \in Nat \ {0}
  BY WalkBlock, SMTT(30) DEF Types, Made, Progress
<1>2. FitsAt(hdr, block, bytes)
  BY DEF Fits, FitsAt
<1>3. CASE pc = "find"
  BY <1>1, <1>2, <1>3 DEF Made, Progress, Unmerged, UnmergedBut
<1>4. CASE pc = "find_again"
  <2>1. PICK g \in DOMAIN hdr :
          (\A a \in DOMAIN hdr \ {g} : ~FitsAt(hdr, a, bytes)) /\ UnmergedBut(hdr, g)
    BY <1>4 DEF Made, Progress, Grown
  <2> QED BY <1>1, <1>2, <2>1
<1> QED BY <1>1, <1>2, <1>3, <1>4

(* malloc takes the block it found.                                        *)
LEMMA FoundStep ==
  ASSUME HeapInv, Found
  PROVE  HeapInv'
<1>1. Types /\ Made /\ pc \in {"find", "find_again"} /\ Fits
  BY DEF HeapInv, Empty, Found
<1>2. /\ block \in DOMAIN hdr /\ bytes \in Nat \ {0}
      /\ FitsAt(hdr, block, bytes) /\ UnmergedBut(hdr, block)
  BY <1>1, FoundBlock
<1>3. Apart(hdr) /\ List(hdr, blocks) /\ Backed(hdr, live) /\ Covered
  BY <1>1 DEF Made
<1>4. hdr' = Taken(hdr, block, bytes)
  BY DEF Found, Taken
<1>5. /\ Apart(hdr') /\ List(hdr', blocks) /\ Unmerged(hdr')
      /\ SameBytes(hdr, hdr')
      /\ Given(hdr, block, bytes, hdr')
  BY <1>2, <1>3, <1>4, FoundFacts
<1>6. Backed(hdr', live')
  <2>1. live' = Allocated(live, block + HDR, bytes)
    BY DEF Found, get_block_data_addr, Allocated
  <2>2. hdr[block].is_free
    BY <1>2 DEF FitsAt
  <2> QED BY <1>2, <1>3, <1>5, <2>1, <2>2, TakeBacked
<1>7. Types'
  BY <1>1 DEF Types, Found
<1>8. /\ pc' = "idle" /\ blocks' = blocks /\ owned' = owned
  BY DEF Found
<1>9. Covered'
  BY <1>1, <1>3, <1>5, <1>8 DEF Covered, InFresh, SameBytes
<1>10. Progress'
  BY <1>5, <1>8 DEF Progress
<1>11. Made'
  BY <1>5, <1>6, <1>8, <1>9, <1>10 DEF Made
<1> QED BY <1>7, <1>11 DEF HeapInv

Run(first, k) == first..(first + k - 1)
Tiles(h, own) == \A x \in Nat : InBlocks(h, x) <=> InPages(own, x)
TilesWith(h, own, start, size) ==
  \A x \in Nat : InBlocks(h, x) \/ (start <= x /\ x < start + HDR + size) <=> InPages(own, x)
Beside(h, start, size) == \A b \in DOMAIN h : End(h, b) <= start \/ start + HDR + size <= b

(* request_frames hands out pages that the heap does not have. *)
LEMMA GrowFacts ==
  ASSUME NEW first \in Nat \ {0}, NEW k \in Nat \ {0}, NEW h, NEW own,
         Apart(h), own \subseteq Nat, Run(first, k) \cap own = {}, Tiles(h, own),
         NEW start, NEW size, start = first * PAGE_SZ, size = k * PAGE_SZ - HDR
  PROVE  /\ start \in Nat \ {0} /\ size \in Nat \ {0}
         /\ TilesWith(h, own \cup Run(first, k), start, size)
         /\ Beside(h, start, size)
<1> DEFINE run == Run(first, k)
<1>1. /\ first * PAGE_SZ \in Nat /\ k * PAGE_SZ \in Nat /\ PAGE_SZ <= k * PAGE_SZ
      /\ \A x \in Nat : InPages(run, x) <=>
                          first * PAGE_SZ <= x /\ x < first * PAGE_SZ + k * PAGE_SZ
  BY PagesRun DEF Run
<1>2. 0 * PAGE_SZ + PAGE_SZ <= first * PAGE_SZ /\ 0 * PAGE_SZ = 0
  BY PageOrder, PageSz, SMTT(30)
<1>3. PAGE_SZ \in Nat \ {0} /\ HDR \in Nat \ {0} /\ HDR < PAGE_SZ
  BY HeapAssumption, PageSz
<1>4. start \in Nat \ {0} /\ size \in Nat \ {0} /\ start + HDR + size = start + k * PAGE_SZ
  BY <1>1, <1>2, <1>3, SMTT(30)
<1>5. \A x \in Nat : start <= x /\ x < start + HDR + size <=> InPages(run, x)
  BY <1>1, <1>4
<1>6. run \subseteq Nat
  BY SMTT(30) DEF Run
<1> HIDE DEF run
<1>7. \A x \in Nat : InPages(own \cup run, x) <=> InPages(own, x) \/ InPages(run, x)
  BY DEF InPages
<1>8. \A x \in Nat : ~(InPages(own, x) /\ InPages(run, x))
  <2> SUFFICES ASSUME NEW x \in Nat, InPages(own, x), InPages(run, x) PROVE FALSE
    OBVIOUS
  <2>1. PICK p \in own : p * PAGE_SZ <= x /\ x < p * PAGE_SZ + PAGE_SZ
    BY DEF InPages
  <2>2. PICK q \in run : q * PAGE_SZ <= x /\ x < q * PAGE_SZ + PAGE_SZ
    BY DEF InPages
  <2>3. p \in Nat /\ q \in Nat
    BY <1>6
  <2>4. p = q
    BY <2>1, <2>2, <2>3, PagesApart
  <2> QED BY <2>4 DEF run
<1>9. Beside(h, start, size)
  <2>1. start + HDR + size \in Nat /\ start < start + HDR + size
    BY <1>3, <1>4, SMTT(30)
  <2>2. \A x \in Nat : start <= x /\ x < start + HDR + size => ~InBlocks(h, x)
    BY <1>5, <1>8 DEF Tiles
  <2> QED BY <1>4, <2>1, <2>2, BesideBlocks DEF Beside
<1>10. TilesWith(h, own \cup run, start, size)
  BY <1>5, <1>7 DEF Tiles, TilesWith
<1> QED BY <1>4, <1>9, <1>10 DEF run

(* The number of pages malloc requests is a positive number.               *)
LEMMA PagesForType ==
  ASSUME NEW size \in Nat
  PROVE  PagesFor(size) \in Nat \ {0}
<1>1. size \div PAGE_SZ \in Nat
  BY PageSz, Z3
<1> QED BY <1>1, SMTT(30) DEF PagesFor

(* malloc gets new pages; _find_block_close_before_addr starts looking for *)
(* the place of their block.                                               *)
LEMMA GrowStep ==
  ASSUME HeapInv, Grow
  PROVE  HeapInv'
<1>1. Types /\ Made /\ pc = "find"
  BY DEF HeapInv, Empty, Grow
<1>2. /\ Apart(hdr) /\ List(hdr, blocks) /\ Backed(hdr, live) /\ Covered /\ Unmerged(hdr)
      /\ bytes \in Nat /\ bytes > 0 /\ WalkAt(hdr, blocks, block, bytes)
  BY <1>1 DEF Made, Progress, Types
<1>3. /\ hdr' = hdr /\ blocks' = blocks /\ live' = live /\ bytes' = bytes
      /\ null_write' = null_write
  BY DEF Grow
<1>4. CASE pc' = "panic"
  <2>2. owned' = owned /\ UNCHANGED <<fresh, fresh_bytes, avail>>
    BY <1>4 DEF Grow
  <2>3. Types'
    BY <1>1, <1>3, <1>4, <2>2 DEF Types
  <2>4. Progress'
    BY <1>4 DEF Progress
  <2>5. Made'
    BY <1>1, <1>3, <1>4, <2>2, <2>4, SameBlocks
  <2> QED BY <2>3, <2>5 DEF HeapInv
<1>5. CASE pc' # "panic"
  <2>1. /\ \E first \in avail :
             /\ first..(first + pages - 1) \subseteq avail
             /\ avail' = avail \ (first..(first + pages - 1))
             /\ owned' = owned \cup (first..(first + pages - 1))
             /\ fresh' = first * PAGE_SZ
        /\ fresh_bytes' = pages * PAGE_SZ - HDR
        /\ pc' = "close" /\ block' = blocks
    BY <1>5 DEF Grow
  <2>2. PICK k : k = pages
    OBVIOUS
  <2>3. k = PagesFor(bytes) /\ k \in Nat \ {0}
    BY <1>2, <2>2, PagesForType DEF pages, PagesFor
  <2>4. PICK first \in avail :
          /\ Run(first, k) \subseteq avail /\ avail' = avail \ Run(first, k)
          /\ owned' = owned \cup Run(first, k) /\ fresh' = first * PAGE_SZ
    BY <2>1, <2>2 DEF Run
  <2>5. fresh_bytes' = k * PAGE_SZ - HDR
    BY <2>1, <2>2
  <2>6. /\ first \in Nat \ {0} /\ owned \subseteq Nat \ {0} /\ owned \subseteq Nat
        /\ Run(first, k) \cap owned = {}
    BY <1>1, <2>4 DEF Types
  <2>7. Tiles(hdr, owned)
    BY <1>1, <1>2 DEF Covered, InFresh, Tiles
  <2>8. /\ fresh' \in Nat \ {0} /\ fresh_bytes' \in Nat \ {0}
        /\ TilesWith(hdr, owned \cup Run(first, k), fresh', fresh_bytes')
        /\ Beside(hdr, fresh', fresh_bytes')
    BY <1>2, <2>3, <2>4, <2>5, <2>6, <2>7, GrowFacts
  <2>9. Types'
    <3>1. avail' \subseteq Nat \ {0} /\ owned' \subseteq Nat \ {0} /\ avail' \cap owned' = {}
      BY <1>1, <2>4, <2>6 DEF Types
    <3> QED BY <1>1, <1>3, <2>1, <2>8, <3>1 DEF Types
  <2>10. Covered'
    BY <1>3, <2>1, <2>4, <2>8 DEF Covered, InFresh, TilesWith
  <2>11. \A b \in DOMAIN hdr : ~FitsAt(hdr, b, bytes)
    <3>1. ~FitsAt(hdr, block, bytes) /\ hdr[block].next = NULL
      BY DEF Grow, Fits, FitsAt
    <3> QED BY <1>2, <3>1, WalkEnd DEF Apart
  <2>12. blocks \in DOMAIN hdr
    BY <1>2, ListLinks, WalkBlock DEF Apart
  <2>13. Progress'
    <3>1. fresh_bytes' = PagesFor(bytes') * PAGE_SZ - HDR
      BY <1>3, <2>3, <2>5
    <3>2. fresh' > 0 /\ fresh_bytes' > 0
      BY <2>8, SMTT(30)
    <3> QED BY <1>2, <1>3, <2>1, <2>8, <2>11, <2>12, <3>1, <3>2 DEF Progress, Beside
  <2>14. Made'
    BY <1>2, <1>3, <2>1, <2>10, <2>13 DEF Made
  <2> QED BY <2>9, <2>14 DEF HeapInv
<1> QED BY <1>4, <1>5

(* One step of _find_block_close_before_addr.                              *)
LEMMA CloseNextStep ==
  ASSUME HeapInv, CloseNext
  PROVE  HeapInv'
<1>1. Types /\ Made /\ pc = "close"
  BY DEF HeapInv, Empty, CloseNext
<1>2. /\ Apart(hdr) /\ List(hdr, blocks) /\ block \in DOMAIN hdr
  BY <1>1 DEF Made, Progress
<1>3. hdr[block].next \in DOMAIN hdr
  <2>1. hdr[block].next # NULL
    BY DEF CloseNext, ClosePlace
  <2> QED BY <1>2, <2>1, ListLinks DEF Apart
<1>4. Types'
  BY <1>1 DEF Types, CloseNext
<1>5. Covered'
  BY <1>1 DEF Made, Covered, InFresh, CloseNext
<1>6. Progress'
  BY <1>1, <1>3 DEF Made, Progress, CloseNext
<1>7. Made'
  BY <1>1, <1>5, <1>6 DEF Made, CloseNext
<1> QED BY <1>4, <1>7 DEF HeapInv

(* The new block enters the list. *)
LEMMA CloseInsertStep ==
  ASSUME HeapInv, CloseInsert
  PROVE  HeapInv'
<1>1. Types /\ Made /\ pc = "close"
  BY DEF HeapInv, Empty, CloseInsert
<1>2. /\ Apart(hdr) /\ List(hdr, blocks) /\ Backed(hdr, live) /\ Covered /\ Unmerged(hdr)
      /\ bytes \in Nat /\ bytes > 0 /\ block \in DOMAIN hdr
      /\ fresh \in Nat \ {0} /\ fresh_bytes \in Nat /\ fresh_bytes > 0
      /\ fresh_bytes = PagesFor(bytes) * PAGE_SZ - HDR
      /\ \A b \in DOMAIN hdr : End(hdr, b) <= fresh \/ fresh + HDR + fresh_bytes <= b
      /\ \A b \in DOMAIN hdr : ~FitsAt(hdr, b, bytes)
  BY <1>1, SMTT(30) DEF Made, Progress, Types
<1>3. /\ pc' = "find_again" /\ block' = blocks /\ fresh' = NULL /\ fresh_bytes' = 0
      /\ blocks' = blocks /\ bytes' = bytes /\ owned' = owned /\ live' = live
      /\ hdr' = Insert(hdr, block, fresh, fresh_bytes)
  BY DEF CloseInsert
<1>4. fresh \notin DOMAIN hdr
  <2> SUFFICES ASSUME fresh \in DOMAIN hdr PROVE FALSE
    OBVIOUS
  <2>1. End(hdr, fresh) \in Nat /\ fresh + HDR < End(hdr, fresh) /\ HDR \in Nat
    BY <1>2, EndType
  <2> QED BY <1>2, <2>1, SMTT(30)
<1>5. hdr[block].next < fresh
  <2>1. ClosePlace
    BY DEF CloseInsert
  <2>2. fresh > 0
    BY <1>2, SMTT(30)
  <2> QED BY <2>1, <2>2 DEF ClosePlace, NULL
<1>6. /\ Inserted(hdr, block, fresh, hdr')
      /\ hdr'[fresh].bytes = fresh_bytes
      /\ hdr'[block].is_free = hdr[block].is_free /\ hdr'[block].bytes = hdr[block].bytes
  <2>1. /\ Apart(hdr) /\ List(hdr, blocks) /\ block \in DOMAIN hdr
        /\ fresh \in Nat \ {0} /\ fresh_bytes \in Nat
        /\ hdr' = Insert(hdr, block, fresh, fresh_bytes)
    BY <1>2, <1>3
  <2> QED BY <1>4, <2>1, InsertFacts, SMTT(30)
<1>7. End(hdr', fresh) = fresh + HDR + fresh_bytes
  BY <1>6 DEF End
<1>8. /\ Apart(hdr')
      /\ \A x \in Nat : InBlocks(hdr', x) <=>
           InBlocks(hdr, x) \/ (fresh <= x /\ x < End(hdr', fresh))
  BY <1>2, <1>4, <1>6, <1>7, InsertGeometry
<1>9. List(hdr', blocks)
  BY <1>2, <1>4, <1>6, ListInserted DEF Apart, Inserted
<1>10. UnmergedBut(hdr', fresh)
  BY <1>2, <1>4, <1>5, <1>6, <1>8, <1>9, InsertUnmerged
<1>11. /\ DOMAIN hdr' = DOMAIN hdr \cup {fresh} /\ hdr'[fresh].is_free
       /\ \A a \in DOMAIN hdr : hdr'[a].is_free = hdr[a].is_free /\ hdr'[a].bytes = hdr[a].bytes
  BY <1>6 DEF Inserted, LinksInserted
<1>12. Grown(hdr', bytes)
  <2>1. \A a \in DOMAIN hdr' \ {fresh} : ~FitsAt(hdr', a, bytes)
    BY <1>2, <1>11 DEF FitsAt
  <2> QED BY <1>2, <1>6, <1>10, <1>11, <2>1 DEF Grown
<1>13. Backed(hdr', live')
  BY <1>2, <1>3, <1>11 DEF Backed
<1>14. Covered'
  BY <1>1, <1>2, <1>3, <1>7, <1>8 DEF Covered, InFresh
<1>15. Progress'
  <2>1. WalkAt(hdr', blocks, blocks, bytes)
    BY <1>9, WalkStart
  <2> QED BY <1>2, <1>3, <1>12, <2>1 DEF Progress
<1>16. Types'
  BY <1>1, <1>3, SMTT(30) DEF Types, CloseInsert, NULL
<1>17. Made'
  BY <1>3, <1>8, <1>9, <1>13, <1>14, <1>15 DEF Made
<1> QED BY <1>16, <1>17 DEF HeapInv

(* An allocation ends: its block is merged with its free neighbours. *)
LEMMA FreeStep ==
  ASSUME NEW ptr \in DOMAIN live, HeapInv, free(ptr)
  PROVE  /\ HeapInv'
         /\ \A p \in DOMAIN live \ {ptr} : hdr'[p - HDR].bytes = hdr[p - HDR].bytes
<1>1. Types /\ Made /\ pc = "idle" /\ pc' = "idle"
  BY DEF HeapInv, Empty, free
<1>2. Apart(hdr) /\ List(hdr, blocks) /\ Backed(hdr, live) /\ Covered /\ Unmerged(hdr)
  BY <1>1 DEF Made, Progress
<1>3. PICK b : b = ptr - HDR
  OBVIOUS
<1>4. b \in DOMAIN hdr /\ ~hdr[b].is_free
  BY <1>2, <1>3 DEF Backed
<1>5. hdr' = Freed(hdr, b)
  BY <1>3, SMTT(30) DEF free, Flagged, Freed
<1>6. /\ Apart(hdr') /\ List(hdr', blocks) /\ Unmerged(hdr')
      /\ SameBytes(hdr, hdr') /\ Released(hdr, b, hdr')
  BY <1>2, <1>4, <1>5, FreeFacts
<1>8. /\ \A a \in DOMAIN hdr' : a \in DOMAIN hdr /\ (~hdr'[a].is_free => a # b /\ ~hdr[a].is_free)
      /\ \A a \in DOMAIN hdr \ {b} : ~hdr[a].is_free =>
           a \in DOMAIN hdr' /\ ~hdr'[a].is_free /\ hdr'[a].bytes = hdr[a].bytes
  BY <1>6 DEF Released
<1>9. /\ live' = [p \in DOMAIN live \ {ptr} |-> live[p]]
      /\ blocks' = blocks /\ owned' = owned /\ avail' = avail /\ bytes' = bytes
      /\ fresh' = fresh /\ fresh_bytes' = fresh_bytes
  BY DEF free
<1>10. \A p \in DOMAIN live \ {ptr} : p - HDR \in DOMAIN hdr \ {b} /\ ~hdr[p - HDR].is_free
  <2> SUFFICES ASSUME NEW p \in DOMAIN live \ {ptr}
               PROVE  p - HDR \in DOMAIN hdr \ {b} /\ ~hdr[p - HDR].is_free
    OBVIOUS
  <2>1. p \in Nat /\ ptr \in Nat /\ HDR \in Nat /\ p # ptr
    BY <1>2, HeapAssumption DEF Backed
  <2>2. p - HDR # b
    BY <1>3, <2>1, SMTT(30)
  <2> QED BY <1>2, <2>2 DEF Backed
<1>11. Backed(hdr', live')
  <2>1. ASSUME NEW p \in DOMAIN live'
        PROVE  /\ p \in Nat /\ live'[p] \in Nat \ {0}
               /\ p - HDR \in DOMAIN hdr' /\ ~hdr'[p - HDR].is_free
               /\ hdr'[p - HDR].bytes - live'[p] \in 0..HDR
    <3>1. p \in DOMAIN live \ {ptr} /\ live'[p] = live[p]
      BY <1>9
    <3>2. /\ p \in Nat /\ live[p] \in Nat \ {0} /\ hdr[p - HDR].bytes - live[p] \in 0..HDR
      BY <1>2, <3>1 DEF Backed
    <3>3. /\ p - HDR \in DOMAIN hdr' /\ ~hdr'[p - HDR].is_free
          /\ hdr'[p - HDR].bytes = hdr[p - HDR].bytes
      BY <1>8, <1>10, <3>1
    <3> QED BY <3>1, <3>2, <3>3
  <2>2. ASSUME NEW a \in DOMAIN hdr', ~hdr'[a].is_free PROVE a + HDR \in DOMAIN live'
    <3>1. a \in DOMAIN hdr /\ a # b /\ ~hdr[a].is_free
      BY <1>8, <2>2
    <3>2. a + HDR \in DOMAIN live
      BY <1>2, <3>1 DEF Backed
    <3>3. a \in Nat /\ HDR \in Nat /\ ptr \in Nat
      BY <1>2, <3>1, EndType DEF Backed
    <3>4. a + HDR # ptr
      BY <1>3, <3>1, <3>3, SMTT(30)
    <3> QED BY <1>9, <3>2, <3>4
  <2> QED BY <2>1, <2>2 DEF Backed
<1>12. Types'
  <2>1. null_write' \in BOOLEAN
    BY <1>1 DEF free, Types
  <2> QED BY <1>1, <1>9, <2>1 DEF Types
<1>13. Covered'
  BY <1>1, <1>2, <1>6, <1>9 DEF Covered, InFresh, SameBytes
<1>14. Progress'
  BY <1>1, <1>6 DEF Progress
<1>15. Made'
  BY <1>1, <1>6, <1>9, <1>11, <1>13, <1>14 DEF Made
<1>16. \A p \in DOMAIN live \ {ptr} : hdr'[p - HDR].bytes = hdr[p - HDR].bytes
  BY <1>8, <1>10
<1> QED BY <1>12, <1>15, <1>16 DEF HeapInv

(* A stuttering step changes nothing.                                      *)
LEMMA StutterStep == HeapInv /\ UNCHANGED vars => HeapInv'
<1>0. SUFFICES ASSUME HeapInv, UNCHANGED vars PROVE HeapInv'
  OBVIOUS
<1>1. Types'
  BY <1>0 DEF HeapInv, Types, vars
<1>2. CASE Empty
  BY <1>0, <1>1, <1>2 DEF HeapInv, Empty, vars
<1>3. CASE Made
  <2>1. Covered'
    BY <1>0, <1>3 DEF Made, Covered, InFresh, vars
  <2>2. Progress'
    BY <1>0, <1>3 DEF Made, Progress, vars
  <2>3. Made'
    BY <1>0, <1>3, <2>1, <2>2 DEF Made, vars
  <2> QED BY <1>1, <2>3 DEF HeapInv
<1> QED BY <1>0, <1>2, <1>3 DEF HeapInv

(* Every step of Heap preserves the invariant.                             *)
LEMMA NextStep == HeapInv /\ [Next]_vars => HeapInv'
<1>0. SUFFICES ASSUME HeapInv, [Next]_vars PROVE HeapInv'
  OBVIOUS
<1>1. CASE Construct \/ ConstructFails
  BY <1>0, <1>1, ConstructStep, ConstructFailsStep
<1>2. CASE \E size \in Sizes : CallMalloc(size)
  BY <1>0, <1>2, CallMallocStep
<1>3. CASE InMalloc
  BY <1>0, <1>3, FindNextStep, FoundStep, GrowStep, CloseNextStep, CloseInsertStep,
     StillNothingStep DEF InMalloc
<1>4. CASE \E ptr \in DOMAIN live : free(ptr)
  BY <1>0, <1>4, FreeStep
<1>5. CASE UNCHANGED vars
  BY <1>0, <1>5, StutterStep
<1>6. CASE Spin
  BY <1>0, <1>6, StutterStep DEF Spin
<1> QED BY <1>0, <1>1, <1>2, <1>3, <1>4, <1>5, <1>6 DEF Next

(* The invariant that everything below rests on. *)
THEOREM HeapInvariant == Spec => []HeapInv
<1>1. Init => HeapInv
  BY InitHeapInv
<1>2. HeapInv /\ [Next]_vars => HeapInv'
  BY NextStep
<1> QED BY <1>1, <1>2, PTL DEF Spec

-----------------------------------------------------------------------------
(* The safety invariants of Heap.                                          *)

(* The invariant implies type correctness.                                 *)
LEMMA HeapTypeOK == HeapInv => TypeOK
<1>0. SUFFICES ASSUME HeapInv PROVE TypeOK
  OBVIOUS
<1>1. CASE Empty
  <2>1. DOMAIN hdr = {} /\ DOMAIN live = {} /\ blocks \in Nat /\ pc \in {"new", "panic"}
    BY <1>1 DEF Empty, NULL
  <2> QED BY <1>0, <2>1 DEF HeapInv, Types, TypeOK
<1>2. CASE Made
  <2>1. DOMAIN hdr \subseteq Nat /\ \A a \in DOMAIN hdr : hdr[a] \in Header
    BY <1>2 DEF Made, Apart
  <2>2. pc \in {"find", "close", "find_again"} => block \in DOMAIN hdr
    BY <1>2, WalkBlock DEF Made, Progress
  <2>3. blocks \in Nat
    <3>1. blocks \in DOMAIN hdr
      <4>1. \E b : b \in DOMAIN hdr
        BY <1>2, WalkBlock, WalkStart DEF Made
      <4> QED BY <1>2, <4>1, ListLinks DEF Made, Apart
    <3> QED BY <2>1, <3>1
  <2>4. DOMAIN live \subseteq Nat /\ \A p \in DOMAIN live : live[p] \in Nat
    BY <1>2 DEF Made, Backed
  <2> QED BY <1>0, <2>1, <2>2, <2>3, <2>4 DEF HeapInv, Types, TypeOK
<1> QED BY <1>0, <1>1, <1>2 DEF HeapInv

(* The invariant implies that the blocks cover the granted pages without   *)
(* overlap.                                                                *)
LEMMA HeapBlocksTile == HeapInv => BlocksTile
<1>0. SUFFICES ASSUME HeapInv, pc \notin {"new", "close"}
               PROVE  /\ UNION {Extent(b) : b \in DOMAIN hdr} =
                           UNION {(page * PAGE_SZ)..(page * PAGE_SZ + PAGE_SZ - 1) : page \in owned}
                      /\ \A b, c \in DOMAIN hdr : b # c => Extent(b) \cap Extent(c) = {}
                      /\ \A b \in DOMAIN hdr : hdr[b].bytes > 0
  BY DEF BlocksTile
<1>1. CASE Empty
  <2>1. DOMAIN hdr = {} /\ owned = {}
    BY <1>1 DEF Empty
  <2> QED BY <2>1
<1>2. CASE Made
  <2>1. Apart(hdr) /\ Tiles(hdr, owned) /\ owned \subseteq Nat
    BY <1>0, <1>2 DEF Made, Covered, InFresh, Tiles, HeapInv, Types
  <2>2. \A b \in DOMAIN hdr : /\ Extent(b) = b..(End(hdr, b) - 1)
                              /\ b \in Nat /\ End(hdr, b) \in Nat /\ hdr[b].bytes > 0
    <3> SUFFICES ASSUME NEW b \in DOMAIN hdr
                 PROVE  /\ Extent(b) = b..(End(hdr, b) - 1)
                        /\ b \in Nat /\ End(hdr, b) \in Nat /\ hdr[b].bytes > 0
      OBVIOUS
    <3>1. b \in Nat /\ hdr[b].bytes \in Nat \ {0} /\ End(hdr, b) \in Nat /\ HDR \in Nat
      BY <2>1, EndType
    <3>2. b + (HDR + hdr[b].bytes) - 1 = End(hdr, b) - 1
      BY <3>1, SMTT(30) DEF End
    <3> QED BY <3>1, <3>2, SMTT(30) DEF Extent, get_total_block_size
  <2>3. \A b \in DOMAIN hdr : \A x \in Int :
          x \in Extent(b) <=> x \in Nat /\ b <= x /\ x < End(hdr, b)
    BY <2>2, SMTT(30)
  <2>4. \A page \in owned : \A x \in Int :
          x \in (page * PAGE_SZ)..(page * PAGE_SZ + PAGE_SZ - 1) <=>
            x \in Nat /\ page * PAGE_SZ <= x /\ x < page * PAGE_SZ + PAGE_SZ
    <3> SUFFICES ASSUME NEW page \in owned, NEW x \in Int
                 PROVE  x \in (page * PAGE_SZ)..(page * PAGE_SZ + PAGE_SZ - 1) <=>
                          x \in Nat /\ page * PAGE_SZ <= x /\ x < page * PAGE_SZ + PAGE_SZ
      OBVIOUS
    <3>1. page * PAGE_SZ \in Nat /\ PAGE_SZ \in Nat
      BY <2>1, PageSz, SMTT(30)
    <3> QED BY <3>1, SMTT(30)
  <2>5. UNION {Extent(b) : b \in DOMAIN hdr} =
          UNION {(page * PAGE_SZ)..(page * PAGE_SZ + PAGE_SZ - 1) : page \in owned}
    <3>1. ASSUME NEW b \in DOMAIN hdr, NEW x \in Extent(b)
          PROVE  \E page \in owned : x \in (page * PAGE_SZ)..(page * PAGE_SZ + PAGE_SZ - 1)
      <4>1. x \in Int
        BY <2>2, <3>1, SMTT(30)
      <4>2. x \in Nat /\ b <= x /\ x < End(hdr, b)
        BY <2>3, <3>1, <4>1
      <4>3. InPages(owned, x)
        BY <2>1, <4>2 DEF Tiles, InBlocks
      <4> QED BY <2>4, <4>2, <4>3, SMTT(30) DEF InPages
    <3>2. ASSUME NEW page \in owned, NEW x \in (page * PAGE_SZ)..(page * PAGE_SZ + PAGE_SZ - 1)
          PROVE  \E b \in DOMAIN hdr : x \in Extent(b)
      <4>1. x \in Int
        BY <3>2, SMTT(30)
      <4>2. x \in Nat /\ page * PAGE_SZ <= x /\ x < page * PAGE_SZ + PAGE_SZ
        BY <2>4, <3>2, <4>1
      <4>3. InBlocks(hdr, x)
        BY <2>1, <4>2 DEF Tiles, InPages
      <4> QED BY <2>3, <4>2, <4>3, SMTT(30) DEF InBlocks
    <3> QED BY <3>1, <3>2, SMTT(30)
  <2>6. \A b, c \in DOMAIN hdr : b # c => Extent(b) \cap Extent(c) = {}
    <3> SUFFICES ASSUME NEW b \in DOMAIN hdr, NEW c \in DOMAIN hdr, b # c,
                        NEW x \in Extent(b), x \in Extent(c)
                 PROVE  FALSE
      OBVIOUS
    <3>1. End(hdr, b) <= c \/ End(hdr, c) <= b
      BY <2>1 DEF Apart
    <3> QED BY <2>2, <3>1, SMTT(30)
  <2> QED BY <2>2, <2>5, <2>6
<1> QED BY <1>0, <1>1, <1>2 DEF HeapInv

(* The invariant implies that between calls no two adjacent blocks are     *)
(* free.                                                                   *)
LEMMA HeapNeighboursMerged == HeapInv => NeighboursMerged
  BY DEF HeapInv, Empty, Made, Progress, Unmerged, NeighboursMerged

(* The invariant implies that the second search misses only a request      *)
(* within a header of the new pages.                                       *)
LEMMA HeapGrownBlockFits == HeapInv => GrownBlockFits
<1>0. SUFFICES ASSUME HeapInv, pc = "find_again", ~Fits, hdr[block].next = NULL
               PROVE  bytes > pages * PAGE_SZ - HDR
  BY DEF GrownBlockFits
<1>1. /\ Apart(hdr) /\ WalkAt(hdr, blocks, block, bytes) /\ Grown(hdr, bytes)
      /\ bytes \in Nat
  BY <1>0 DEF HeapInv, Types, Empty, Made, Progress
<1>2. PICK g \in DOMAIN hdr : hdr[g].is_free /\ hdr[g].bytes = PagesFor(bytes) * PAGE_SZ - HDR
  BY <1>1 DEF Grown
<1>3. ~FitsAt(hdr, g, bytes)
  <2>1. ~FitsAt(hdr, block, bytes)
    BY <1>0 DEF Fits, FitsAt
  <2> QED BY <1>0, <1>1, <2>1, WalkEnd DEF Apart
<1>4. ~(hdr[g].bytes >= bytes) /\ hdr[g].bytes \in Nat
  BY <1>1, <1>2, <1>3, EndType DEF FitsAt
<1>5. hdr[g].bytes = pages * PAGE_SZ - HDR
  BY <1>2 DEF PagesFor, pages
<1> QED BY <1>1, <1>4, <1>5, SMTT(30)

(* The blocks tile exactly the pages the heap has obtained: splits, merges *)
(* and insertions lose no byte and give none to two blocks.                *)
THEOREM BlocksTileHolds == Spec => []BlocksTile
  BY HeapInvariant, HeapBlocksTile, PTL

(* Between calls no two free neighbours touch, although malloc inserts new *)
(* pages without merging them.                                             *)
THEOREM NeighboursMergedHolds == Spec => []NeighboursMerged
  BY HeapInvariant, HeapNeighboursMerged, PTL

(* The assertion after the second search fails only for a request that the *)
(* new pages miss by less than a header.                                   *)
THEOREM GrownBlockFitsHolds == Spec => []GrownBlockFits
  BY HeapInvariant, HeapGrownBlockFits, PTL

-----------------------------------------------------------------------------
(* The heap implements Malloc.                                             *)

(* malloc returns bytes that no allocation in use has. *)
LEMMA FoundAllocates ==
  ASSUME HeapInv, Found
  PROVE  Allocation!DoMalloc
<1>1. Types /\ Made /\ pc \in {"find", "find_again"} /\ Fits /\ pc' = "idle"
  BY DEF HeapInv, Empty, Found
<1>2. block \in DOMAIN hdr /\ bytes \in Nat \ {0} /\ FitsAt(hdr, block, bytes)
  BY <1>1, FoundBlock
<1>3. Apart(hdr) /\ Backed(hdr, live)
  BY <1>1 DEF Made
<1>4. PICK p : p = block + HDR
  OBVIOUS
<1>5. /\ block \in Nat /\ HDR \in Nat \ {0} /\ hdr[block].is_free
      /\ hdr[block].bytes \in Nat /\ bytes <= hdr[block].bytes
      /\ p \in Nat \ {0} /\ p - HDR = block
  BY <1>2, <1>3, <1>4, EndType, SMTT(30) DEF FitsAt
<1>6. p \notin DOMAIN live
  BY <1>3, <1>5 DEF Backed
<1>7. /\ DOMAIN live' = DOMAIN live \cup {p} /\ live'[p] = bytes
      /\ \A q \in DOMAIN live : live'[q] = live[q]
  BY <1>4, <1>6 DEF Found, get_block_data_addr
<1>8. ASSUME NEW q \in DOMAIN live
      PROVE  p..(p + live'[p] - 1) \cap q..(q + live[q] - 1) = {}
  <2>1. PICK c : c = q - HDR
    OBVIOUS
  <2>2. /\ q \in Nat /\ live[q] \in Nat /\ c \in DOMAIN hdr /\ ~hdr[c].is_free
        /\ hdr[c].bytes - live[q] \in 0..HDR
    BY <1>3, <2>1 DEF Backed
  <2>3. c # block /\ c \in Nat /\ hdr[c].bytes \in Nat /\ q = c + HDR
    BY <1>3, <1>5, <2>1, <2>2, EndType, SMTT(30)
  <2>4. block + HDR + hdr[block].bytes <= c \/ c + HDR + hdr[c].bytes <= block
    BY <1>2, <1>3, <2>2, <2>3 DEF Apart, End
  <2>5. live[q] <= hdr[c].bytes
    BY <2>2, <2>3, SMTT(30)
  <2>6. p + live'[p] <= q \/ q + live[q] <= p
    BY <1>2, <1>4, <1>5, <1>7, <2>2, <2>3, <2>4, <2>5, SMTT(30)
  <2>7. live'[p] \in Nat
    BY <1>2, <1>7
  <2> QED BY <1>5, <2>2, <2>6, <2>7, SMTT(30)
<1>9. p \in DOMAIN live' /\ p # 0 /\ live'[p] > 0
  BY <1>2, <1>5, <1>7, SMTT(30)
<1>10. ~(pc = "panic") /\ (pc' = "panic") = FALSE
  BY <1>1
<1> QED BY <1>6, <1>7, <1>8, <1>9, <1>10 DEF Allocation!DoMalloc, Allocation!Bytes

(* Every step of the heap is a malloc, a free, a stop or invisible. *)
LEMMA HeapSimulates ==
  ASSUME HeapInv, [Next]_vars
  PROVE  [Allocation!Next]_(Allocation!lvars)
<1> USE DEF Allocation!lvars, Allocation!Next
<1>1. CASE Construct
  BY <1>1 DEF Construct
<1>2. CASE ConstructFails
  BY <1>2 DEF ConstructFails, Allocation!Stop
<1>3. ASSUME NEW size \in Sizes, CallMalloc(size) PROVE [Allocation!Next]_(Allocation!lvars)
  <2>1. CASE size > 0
    BY <1>3, <2>1 DEF CallMalloc
  <2>2. CASE ~(size > 0)
    BY <1>3, <2>2 DEF CallMalloc, Allocation!Stop
  <2> QED BY <2>1, <2>2
<1>4. CASE FindNext \/ CloseNext \/ CloseInsert
  BY <1>4 DEF FindNext, CloseNext, CloseInsert
<1>5. CASE Found
  BY <1>5, FoundAllocates
<1>6. CASE Grow
  <2>1. pc' \in {"close", "panic"} /\ live' = live /\ pc = "find"
    BY <1>6 DEF Grow
  <2> QED BY <2>1 DEF Allocation!Stop
<1>7. CASE StillNothing
  BY <1>7 DEF StillNothing, Allocation!Stop
<1>8. ASSUME NEW ptr \in DOMAIN live, free(ptr) PROVE [Allocation!Next]_(Allocation!lvars)
  BY <1>8 DEF free, Allocation!DoFree
<1>9. CASE Spin \/ UNCHANGED vars
  BY <1>9 DEF Spin, vars
<1> QED BY <1>1, <1>2, <1>3, <1>4, <1>5, <1>6, <1>7, <1>8, <1>9 DEF Next, InMalloc

(* What malloc and free do to the live allocations is what Malloc allows:  *)
(* no allocation overlaps one in use, only free ends one.                  *)
THEOREM ImplementsMalloc == Spec => Allocation!Spec
<1>1. Init => Allocation!Init
  BY DEF Init, Allocation!Init
<1>2. HeapInv /\ [Next]_vars => [Allocation!Next]_(Allocation!lvars)
  BY HeapSimulates
<1> QED BY <1>1, <1>2, HeapInvariant, PTL DEF Spec, Allocation!Spec

(* No step resizes a block that stays allocated. *)
LEMMA OthersKept ==
  ASSUME HeapInv, [Next]_vars
  PROVE  [\A p \in DOMAIN live \cap DOMAIN live' :
            hdr'[p - HDR].bytes = hdr[p - HDR].bytes]_vars
<1>1. CASE hdr' = hdr
  BY <1>1
<1>2. CASE Construct
  BY <1>2 DEF HeapInv, Made, Empty, Construct
<1>3. CASE Found
  <2>1. Types /\ Made /\ pc \in {"find", "find_again"} /\ Fits
    BY <1>3 DEF HeapInv, Empty, Found
  <2>2. /\ block \in DOMAIN hdr /\ bytes \in Nat \ {0}
        /\ FitsAt(hdr, block, bytes) /\ UnmergedBut(hdr, block)
    BY <2>1, FoundBlock
  <2>3. Apart(hdr) /\ List(hdr, blocks) /\ Backed(hdr, live)
    BY <2>1 DEF Made
  <2>4. hdr' = Taken(hdr, block, bytes)
    BY <1>3 DEF Found, Taken
  <2>5. Given(hdr, block, bytes, hdr')
    BY <2>2, <2>3, <2>4, FoundFacts
  <2>6. \A p \in DOMAIN live : p - HDR \in DOMAIN hdr \ {block}
    BY <2>2, <2>3 DEF Backed, FitsAt
  <2> QED BY <2>5, <2>6 DEF Given
<1>4. CASE CloseInsert
  <2>1. Types /\ Made /\ pc = "close"
    BY <1>4 DEF HeapInv, Empty, CloseInsert
  <2>2. /\ Apart(hdr) /\ List(hdr, blocks) /\ Backed(hdr, live) /\ block \in DOMAIN hdr
        /\ fresh \in Nat \ {0} /\ fresh_bytes \in Nat
        /\ \A b \in DOMAIN hdr : End(hdr, b) <= fresh \/ fresh + HDR + fresh_bytes <= b
    BY <2>1, SMTT(30) DEF Made, Progress, Types
  <2>3. fresh \notin DOMAIN hdr
    <3> SUFFICES ASSUME fresh \in DOMAIN hdr PROVE FALSE
      OBVIOUS
    <3>1. End(hdr, fresh) \in Nat /\ fresh + HDR < End(hdr, fresh) /\ HDR \in Nat \ {0}
      BY <2>2, EndType
    <3> QED BY <2>2, <3>1, SMTT(30)
  <2>4. hdr' = Insert(hdr, block, fresh, fresh_bytes)
    BY <1>4 DEF CloseInsert
  <2>5. Inserted(hdr, block, fresh, hdr') /\ hdr'[block].bytes = hdr[block].bytes
    <3>1. /\ Apart(hdr) /\ List(hdr, blocks) /\ block \in DOMAIN hdr
          /\ fresh \in Nat \ {0} /\ fresh_bytes \in Nat
      BY <2>2
    <3> QED BY <2>3, <2>4, <3>1, InsertFacts, SMTT(30)
  <2>6. \A p \in DOMAIN live : p - HDR \in DOMAIN hdr
    BY <2>2 DEF Backed
  <2> QED BY <2>5, <2>6 DEF Inserted
<1>5. ASSUME NEW ptr \in DOMAIN live, free(ptr)
      PROVE  \A p \in DOMAIN live \cap DOMAIN live' :
               hdr'[p - HDR].bytes = hdr[p - HDR].bytes
  <2>1. \A p \in DOMAIN live \ {ptr} : hdr'[p - HDR].bytes = hdr[p - HDR].bytes
    BY <1>5, FreeStep
  <2>2. DOMAIN live' = DOMAIN live \ {ptr}
    BY <1>5 DEF free
  <2> QED BY <2>1, <2>2
<1> QED
  BY <1>1, <1>2, <1>3, <1>4, <1>5
  DEF Next, InMalloc, ConstructFails, CallMalloc, FindNext, Grow, CloseNext, StillNothing, Spin, vars

(* The block of an allocation in use keeps its size, whatever its          *)
(* neighbours are split or merged into.                                    *)
THEOREM OthersUntouchedHolds == Spec => OthersUntouched
<1>1. HeapInv /\ [Next]_vars =>
        [\A p \in DOMAIN live \cap DOMAIN live' :
           hdr'[p - HDR].bytes = hdr[p - HDR].bytes]_vars
  BY OthersKept
<1> QED BY <1>1, HeapInvariant, PTL DEF Spec, OthersUntouched

-----------------------------------------------------------------------------
(* The theory of finite sets, which only the rest of the module needs. *)
Sets == INSTANCE FiniteSetTheorems

(* It speaks of the same finite sets and numbers of elements. *)
LEMMA SameFinite == ASSUME NEW S PROVE IsFiniteSet(S) = Sets!IsFiniteSet(S)
  BY DEF IsFiniteSet, Sets!IsFiniteSet

LEMMA SameNumber == ASSUME NEW S PROVE Cardinality(S) = Sets!Cardinality(S)
  BY DEF Cardinality, Sets!Cardinality

LEMMA FiniteSubset ==
  ASSUME NEW S, IsFiniteSet(S), NEW T \in SUBSET S
  PROVE  IsFiniteSet(T)
  BY SameFinite, Sets!FS_Subset

LEMMA NumberInterval ==
  ASSUME NEW a \in Int, NEW b \in Int
  PROVE  IsFiniteSet(a..b) /\ Cardinality(a..b) = IF a > b THEN 0 ELSE b - a + 1
  BY SameFinite, SameNumber, Sets!FS_Interval

LEMMA NumberNone == IsFiniteSet({}) /\ Cardinality({}) = 0
  BY SameFinite, SameNumber, Sets!FS_EmptySet

(* Sets whose elements can be paired have as many of them. *)
LEMMA NumberPaired ==
  ASSUME NEW S, NEW T, IsFiniteSet(S), NEW f \in [S -> T],
         \A a, b \in S : f[a] = f[b] => a = b, \A t \in T : \E a \in S : f[a] = t
  PROVE  IsFiniteSet(T) /\ Cardinality(T) = Cardinality(S)
<1>1. f \in Sets!Bijection(S, T)
  BY DEF Sets!Bijection, Sets!Injection, Sets!Surjection, Sets!IsInjective
<1>2. Sets!ExistsBijection(S, T)
  BY <1>1 DEF Sets!ExistsBijection
<1>3. Sets!IsFiniteSet(T) /\ Sets!Cardinality(T) = Sets!Cardinality(S)
  BY <1>2, SameFinite, Sets!FS_Bijection
<1> QED
  BY <1>3, SameFinite, SameNumber

-----------------------------------------------------------------------------
(* Induction over the natural numbers, for a set of them.                  *)

(* A set of natural numbers has a least element: < is well-founded. *)
LEMMA LeastNatural ==
  ASSUME NEW S \in SUBSET Nat, NEW n \in S
  PROVE  \E m \in S : \A c \in S : m <= c
<1>1. PICK R : R = Sets!OpToRel(<, Nat)
  OBVIOUS
<1>2. Sets!IsWellFoundedOn(R, Nat)
  BY <1>1, Sets!NatLessThanWellFounded
<1>3. PICK m \in S : \A y \in S : ~(<<y, m>> \in R)
  BY <1>2, Sets!WFMin
<1>4. \A x, y \in Nat : x < y => <<x, y>> \in R
  BY <1>1 DEF Sets!OpToRel
<1>5. ASSUME NEW c \in S PROVE m <= c
  <2>1. m \in Nat /\ c \in Nat
    OBVIOUS
  <2>2. ~(c < m)
    BY <1>3, <1>4, <2>1
  <2> QED BY <2>1, <2>2, SMTT(30)
<1> QED BY <1>5

(* A set that has 0 and with n also n + 1 has every number. *)
LEMMA SetInduction ==
  ASSUME NEW S \in SUBSET Nat, 0 \in S, \A n \in S : n + 1 \in S
  PROVE  S = Nat
<1> SUFFICES ASSUME NEW x \in Nat \ S PROVE FALSE
  OBVIOUS
<1>1. PICK m \in Nat \ S : \A k \in Nat \ S : m <= k
  BY LeastNatural
<1>2. m # 0 /\ m - 1 \in Nat
  BY <1>1, SMTT(30)
<1>3. m - 1 \in S
  BY <1>1, <1>2, SMTT(30)
<1> QED BY <1>1, <1>2, <1>3, SMTT(30)

-----------------------------------------------------------------------------
(* What a walk along the whole list meets.                                 *)

(* Walk is the only function that satisfies its recursive definition. *)
LEMMA WalkIs ==
  ASSUME NEW W,
         W = [k \in Nat |-> IF k = 0 THEN blocks
                            ELSE LET b == W[k - 1] IN IF b = NULL THEN NULL ELSE hdr[b].next]
  PROVE  Walk = W
<1> DEFINE R(f) == [k \in Nat |-> IF k = 0 THEN blocks
                            ELSE LET b == f[k - 1] IN IF b = NULL THEN NULL ELSE hdr[b].next]
<1>1. Walk = CHOOSE f : f = R(f)
  BY DEF Walk
<1>2. W = R(W)
  OBVIOUS
<1>3. Walk = R(Walk)
  BY <1>1, <1>2
<1>4. DOMAIN Walk = Nat /\ DOMAIN W = Nat
  BY <1>2, <1>3
<1>5. \A k \in Nat : /\ Walk[0] = blocks /\ W[0] = blocks
                     /\ Walk[k + 1] = IF Walk[k] = NULL THEN NULL ELSE hdr[Walk[k]].next
                     /\ W[k + 1] = IF W[k] = NULL THEN NULL ELSE hdr[W[k]].next
  <2> SUFFICES ASSUME NEW k \in Nat
               PROVE  /\ Walk[0] = blocks /\ W[0] = blocks
                      /\ Walk[k + 1] = IF Walk[k] = NULL THEN NULL ELSE hdr[Walk[k]].next
                      /\ W[k + 1] = IF W[k] = NULL THEN NULL ELSE hdr[W[k]].next
    OBVIOUS
  <2>1. k + 1 \in Nat /\ k + 1 # 0 /\ (k + 1) - 1 = k /\ 0 \in Nat
    BY SMTT(30)
  <2>2. R(Walk)[0] = blocks /\ R(W)[0] = blocks
    BY <2>1
  <2>3. /\ R(Walk)[k + 1] = IF Walk[k] = NULL THEN NULL ELSE hdr[Walk[k]].next
        /\ R(W)[k + 1] = IF W[k] = NULL THEN NULL ELSE hdr[W[k]].next
    BY <2>1
  <2> HIDE DEF R
  <2> QED BY <1>2, <1>3, <2>2, <2>3
<1> DEFINE S == {k \in Nat : Walk[k] = W[k]}
<1>6. 0 \in S /\ \A k \in S : k + 1 \in S
  BY <1>5, SMTT(30)
<1>7. S = Nat
  <2>1. S \in SUBSET Nat
    OBVIOUS
  <2> HIDE DEF S
  <2> QED BY <1>6, <2>1, SetInduction
<1>8. \A k \in Nat : Walk[k] = W[k]
  BY <1>7
<1>9. Walk = [k \in Nat |-> Walk[k]] /\ W = [k \in Nat |-> W[k]]
  BY <1>2, <1>3
<1> QED BY <1>8, <1>9

(* A walk over no block is at no block.                                    *)
LEMMA WalkEmpty ==
  ASSUME Empty
  PROVE  \A k \in Nat : Walk[k] = NULL
<1> DEFINE W == [k \in Nat |-> NULL]
<1>1. W = [k \in Nat |-> IF k = 0 THEN blocks
                         ELSE LET b == W[k - 1] IN IF b = NULL THEN NULL ELSE hdr[b].next]
  <2>1. \A k \in Nat : k # 0 => k - 1 \in Nat
    BY SMTT(30)
  <2> QED BY <2>1 DEF Empty
<1>2. \A k \in Nat : W[k] = NULL
  OBVIOUS
<1> HIDE DEF W
<1>3. Walk = W
  BY <1>1, WalkIs
<1> QED BY <1>2, <1>3

(* The walk along next meets the blocks in the order of the list and then  *)
(* ends.                                                                   *)
LEMMA WalkOrder ==
  ASSUME NEW n \in Nat \ {0}, NEW ord, InOrder(hdr, blocks, n, ord), DOMAIN hdr \subseteq Nat \ {0}
  PROVE  \A k \in Nat : Walk[k] = IF k < n THEN ord[k] ELSE NULL
<1> DEFINE W == [k \in Nat |-> IF k < n THEN ord[k] ELSE NULL]
<1>1. ASSUME NEW k \in Nat
      PROVE  W[k] = IF k = 0 THEN blocks
                    ELSE LET b == W[k - 1] IN IF b = NULL THEN NULL ELSE hdr[b].next
  <2>1. CASE k = 0
    BY <2>1, SMTT(30) DEF InOrder
  <2>2. CASE k # 0 /\ k - 1 < n
    <3>1. k - 1 \in 0..(n - 1) /\ (k - 1) + 1 = k /\ k - 1 \in Nat
      BY <2>2, SMTT(30)
    <3>2. hdr[ord[k - 1]].next = IF (k - 1) + 1 < n THEN ord[(k - 1) + 1] ELSE NULL
      BY <3>1 DEF InOrder
    <3>3. ord[k - 1] \in DOMAIN hdr
      BY <3>1 DEF InOrder
    <3>4. ord[k - 1] # NULL
      BY <3>3 DEF NULL
    <3>5. W[k - 1] = ord[k - 1] /\ W[k] = IF k < n THEN ord[k] ELSE NULL
      BY <2>2, <3>1
    <3> QED BY <2>2, <3>1, <3>2, <3>4, <3>5
  <2>3. CASE k # 0 /\ ~(k - 1 < n)
    BY <2>3, SMTT(30)
  <2> QED BY <2>1, <2>2, <2>3
<1>2. W = [k \in Nat |-> IF k = 0 THEN blocks
                         ELSE LET b == W[k - 1] IN IF b = NULL THEN NULL ELSE hdr[b].next]
  BY <1>1
<1>3. \A k \in Nat : W[k] = IF k < n THEN ord[k] ELSE NULL
  OBVIOUS
<1> HIDE DEF W
<1>4. Walk = W
  BY <1>2, WalkIs
<1> QED BY <1>3, <1>4

(* There are as many blocks as places in the order. *)
LEMMA OrderCounts ==
  ASSUME NEW h, NEW first, NEW n \in Nat \ {0}, NEW ord, InOrder(h, first, n, ord)
  PROVE  IsFiniteSet(DOMAIN h) /\ Cardinality(DOMAIN h) = n
<1> DEFINE f == [i \in 1..n |-> ord[i - 1]]
<1>1. \A i \in 1..n : i - 1 \in 0..(n - 1) /\ f[i] = ord[i - 1]
  BY SMTT(30)
<1>2. f \in [1..n -> DOMAIN h]
  BY <1>1 DEF InOrder
<1>3. \A i, j \in 1..n : f[i] = f[j] => i = j
  <2> SUFFICES ASSUME NEW i \in 1..n, NEW j \in 1..n, f[i] = f[j] PROVE i = j
    OBVIOUS
  <2>1. i - 1 \in 0..(n - 1) /\ j - 1 \in 0..(n - 1) /\ ord[i - 1] = ord[j - 1]
    BY <1>1
  <2>2. i - 1 = j - 1
    BY <2>1 DEF InOrder
  <2> QED BY <2>2, SMTT(30)
<1>4. \A b \in DOMAIN h : \E i \in 1..n : f[i] = b
  <2> SUFFICES ASSUME NEW b \in DOMAIN h PROVE \E i \in 1..n : f[i] = b
    OBVIOUS
  <2>1. PICK j \in 0..(n - 1) : ord[j] = b
    BY DEF InOrder
  <2>2. j + 1 \in 1..n /\ (j + 1) - 1 = j
    BY SMTT(30)
  <2> QED BY <1>1, <2>1, <2>2
<1> HIDE DEF f
<1>5. IsFiniteSet(1..n) /\ Cardinality(1..n) = n
  BY NumberInterval, SMTT(30)
<1> QED BY <1>2, <1>3, <1>4, <1>5, NumberPaired

(* A walk meets every block and then ends. *)
LEMMA WalkMeets ==
  ASSUME HeapInv
  PROVE  /\ IsFiniteSet(DOMAIN hdr) /\ NULL \notin DOMAIN hdr
         /\ {Walk[k] : k \in 0..Cardinality(DOMAIN hdr)} = DOMAIN hdr \cup {NULL}
<1>1. CASE Empty
  <2>1. DOMAIN hdr = {} /\ Cardinality({}) = 0 /\ IsFiniteSet({})
    BY <1>1, NumberNone DEF Empty
  <2>2. \A k \in 0..0 : Walk[k] = NULL
    BY <1>1, WalkEmpty, SMTT(30)
  <2> QED BY <2>1, <2>2, SMTT(30)
<1>2. CASE Made
  <2>1. Apart(hdr) /\ List(hdr, blocks) /\ DOMAIN hdr \subseteq Nat \ {0} /\ NULL \notin DOMAIN hdr
    BY <1>2 DEF Made, Apart, NULL
  <2>2. PICK n \in Nat \ {0} : \E ord \in [0..(n - 1) -> DOMAIN hdr] : InOrder(hdr, blocks, n, ord)
    BY <2>1 DEF List
  <2>3. PICK ord \in [0..(n - 1) -> DOMAIN hdr] : InOrder(hdr, blocks, n, ord)
    BY <2>2
  <2>4. IsFiniteSet(DOMAIN hdr) /\ Cardinality(DOMAIN hdr) = n
    BY <2>3, OrderCounts
  <2>5. \A k \in Nat : Walk[k] = IF k < n THEN ord[k] ELSE NULL
    BY <2>1, <2>3, WalkOrder
  <2>6. ASSUME NEW k \in 0..n PROVE Walk[k] \in DOMAIN hdr \cup {NULL}
    <3>1. k < n => k \in 0..(n - 1)
      BY SMTT(30)
    <3> QED BY <2>3, <2>5, <3>1, SMTT(30)
  <2>7. ASSUME NEW b \in DOMAIN hdr PROVE \E k \in 0..n : Walk[k] = b
    <3>1. PICK i \in 0..(n - 1) : ord[i] = b
      BY <2>3 DEF InOrder
    <3>2. i \in 0..n /\ i \in Nat /\ i < n
      BY SMTT(30)
    <3> QED BY <2>5, <3>1, <3>2
  <2>8. n \in 0..n /\ Walk[n] = NULL
    BY <2>5, SMTT(30)
  <2>9. {Walk[k] : k \in 0..n} = DOMAIN hdr \cup {NULL}
    BY <2>6, <2>7, <2>8
  <2> QED BY <2>1, <2>4, <2>9
<1> QED BY <1>1, <1>2 DEF HeapInv

-----------------------------------------------------------------------------
(* The invariants that count blocks.                                       *)

(* The invariant implies ListLinked.                                       *)
LEMMA HeapListLinked == HeapInv => ListLinked
<1>0. SUFFICES ASSUME HeapInv PROVE ListLinked
  OBVIOUS
<1>1. TypeOK
  BY <1>0, HeapTypeOK
<1>2. {Walk[k] : k \in 0..Cardinality(DOMAIN hdr)} = DOMAIN hdr \cup {NULL}
  BY <1>0, WalkMeets
<1>3. \A b \in DOMAIN hdr : /\ hdr[b].next # NULL => hdr[hdr[b].next].prev = b
                            /\ hdr[b].prev # NULL => hdr[hdr[b].prev].next = b
  <2>1. CASE Empty
    BY <2>1 DEF Empty
  <2>2. CASE Made
    <3>1. List(hdr, blocks) /\ DOMAIN hdr \subseteq Nat \ {0}
      BY <2>2 DEF Made, Apart
    <3> QED BY <3>1, ListLinks
  <2> QED BY <1>0, <2>1, <2>2 DEF HeapInv
<1> QED BY <1>1, <1>2, <1>3 DEF ListLinked

(* The invariant implies LiveBacked: the used blocks are the live          *)
(* allocations, and get_heap_stats counts them.                            *)
LEMMA HeapLiveBacked == HeapInv => LiveBacked
<1>0. SUFFICES ASSUME HeapInv PROVE LiveBacked
  OBVIOUS
<1> DEFINE used == {c \in DOMAIN hdr : ~hdr[c].is_free}
<1>1. /\ HDR \in Nat /\ DOMAIN hdr \subseteq Nat
      /\ Backed(hdr, live)
  BY <1>0, HeapAssumption DEF HeapInv, Empty, Made, Apart, Backed
<1>2. DOMAIN live = {get_block_data_addr(b) : b \in used}
  <2>1. ASSUME NEW p \in DOMAIN live PROVE \E b \in used : p = get_block_data_addr(b)
    <3>1. p \in Nat /\ p - HDR \in used
      BY <1>1 DEF Backed
    <3>2. p = (p - HDR) + HDR
      BY <1>1, <3>1, SMTT(30)
    <3> QED BY <3>1, <3>2 DEF get_block_data_addr
  <2>2. ASSUME NEW b \in used PROVE get_block_data_addr(b) \in DOMAIN live
    BY <1>1 DEF Backed, get_block_data_addr
  <2> QED BY <2>1, <2>2
<1>3. \A p \in DOMAIN live : hdr[p - HDR].bytes - live[p] \in 0..HDR
  BY <1>1 DEF Backed
<1>4. /\ IsFiniteSet(DOMAIN hdr) /\ NULL \notin DOMAIN hdr
      /\ {Walk[k] : k \in 0..Cardinality(DOMAIN hdr)} \ {NULL} = DOMAIN hdr
  BY <1>0, WalkMeets
<1>5. get_heap_stats.allocated_blocks = Cardinality(used)
  BY <1>4 DEF get_heap_stats
<1>6. Cardinality(DOMAIN live) = Cardinality(used)
  <2> DEFINE f == [b \in used |-> b + HDR]
  <2>1. f \in [used -> DOMAIN live]
    BY <1>2 DEF get_block_data_addr
  <2>2. \A b, c \in used : f[b] = f[c] => b = c
    BY <1>1, SMTT(30)
  <2>3. \A p \in DOMAIN live : \E b \in used : f[b] = p
    BY <1>2 DEF get_block_data_addr
  <2>4. used \in SUBSET DOMAIN hdr
    OBVIOUS
  <2> HIDE DEF f, used
  <2>5. IsFiniteSet(used)
    BY <1>4, <2>4, FiniteSubset
  <2> QED BY <2>1, <2>2, <2>3, <2>5, NumberPaired
<1> QED BY <1>2, <1>3, <1>5, <1>6 DEF LiveBacked

(* The doubly linked list of the heap is complete and every walk along it  *)
(* meets every block once and ends, whatever malloc and free have done.    *)
THEOREM ListLinkedHolds == Spec => []ListLinked
  BY HeapInvariant, HeapListLinked, PTL

(* The allocated blocks are the live allocations, large enough and at most *)
(* one header too large, and get_heap_stats counts them.                   *)
THEOREM LiveBackedHolds == Spec => []LiveBacked
  BY HeapInvariant, HeapLiveBacked, PTL
=============================================================================
