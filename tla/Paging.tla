------------------------------- MODULE Paging -------------------------------
(***************************************************************************)
(* Four-level paging, class Paging (memory/paging.cpp).                    *)
(*                                                                         *)
(* Addresses are page numbers: the offset bits never change.  A table is a *)
(* page frame, and mem gives the entries of every frame, read as a table:  *)
(* Absent, or the frame number the entry holds.  Frames that are no table  *)
(* hold data that would read as present entries, so a table that is used   *)
(* without being cleared shows.                                            *)
(*                                                                         *)
(* allocate_page goes down one level per step.  Once CR3 is loaded the     *)
(* code reaches a table through the mapping it is building: a table frame  *)
(* that is not identity mapped is a page fault, whose handler spins.       *)
(***************************************************************************)
EXTENDS Integers, Sequences, FiniteSets, FiniteSetsExt, Functions

CONSTANTS
  E,              \* entries per table, 512 in the kernel
  PAGE_SZ,        \* bytes per page, 4096 in the kernel
  PTR_FRAMES,     \* frames a table pointer computed by the code can tell apart
  Machines        \* see WellFormedMachine

VARIABLES
  machine,        \* never changes
  pc, ret,        \* ret: where allocate_page returns to
  mem,
  cr3,            \* is the PML4 loaded?
  avail,          \* frames the physical allocator has left
  heap,           \* frames the heap has obtained
  seg, k,         \* loop counters of init and __identity_paging
  vaddr, paddr, level, table,     \* locals of allocate_page
  want            \* history: page -> frame, for the calls that have returned

call == <<vaddr, paddr, level, table>>
vars == <<machine, pc, ret, mem, cr3, avail, heap, seg, k, call, want>>

Absent == -1
Virtual == 0..(E*E*E*E - 1)
Physical == 0..(machine.frames - 1)

(* segs: what init maps (the descriptors of the memory map, framebuffer,   *)
(* LAPIC, I/O APIC, HPET), each a first page and a number of bytes; pml4:  *)
(* frame of the PML4 array; test: the page the constructor tries out,      *)
(* above all physical memory.  Free frames and the frame of the PML4,      *)
(* which is kernel memory, are RAM of the memory map.                      *)
WellFormedMachine(m) ==
  /\ m.segs \in Seq([page : Nat, n : Nat])
  /\ m.frames \in Nat /\ m.avail \subseteq 1..(m.frames - 1)
  /\ m.pml4 \in 1..(m.frames - 1) /\ m.pml4 \notin m.avail
  /\ m.test \in m.frames..(E*E*E*E - 1)
  /\ \A s \in 1..Len(m.segs) : m.segs[s].page + m.segs[s].n \div PAGE_SZ < m.test
  /\ \A f \in m.avail \cup {m.pml4} : \E s \in 1..Len(m.segs) :
       m.segs[s].page <= f /\ (f + 1 - m.segs[s].page) * PAGE_SZ <= m.segs[s].n

ASSUME PagingAssumption ==
  /\ E \in Nat \ {0} /\ PAGE_SZ \in Nat \ {0} /\ PTR_FRAMES \in Nat \ {0}
  /\ \A m \in Machines : WellFormedMachine(m)

-----------------------------------------------------------------------------
(* PageIndexer: the index into the table of level l (4 = PML4, 1 = PT). *)
PageIndexer(v, l) == (v \div (CASE l = 4 -> E*E*E [] l = 3 -> E*E [] l = 2 -> E [] l = 1 -> 1)) % E

(* The address in an entry is a 32-bit bit-field: `addr << 12' is computed *)
(* in 32 bits, so the code keeps 20 bits of the frame number.              *)
TablePtr(addr) == addr % PTR_FRAMES

HwStep(t, v, l) == IF t = Absent THEN Absent ELSE mem[t][PageIndexer(v, l)]

(* How the processor translates v with these tables. *)
Translate(v) == HwStep(HwStep(HwStep(HwStep(machine.pml4, v, 4), v, 3), v, 2), v, 1)

SwStep(t, v, l) == IF t = Absent THEN Absent ELSE mem[TablePtr(t)][PageIndexer(v, l)]

is_page_allocated(v) ==
  SwStep(SwStep(SwStep(HwStep(machine.pml4, v, 4), v, 3), v, 2), v, 1) # Absent

(* The code can read and write frame t. *)
Accessible(t) == ~cr3 \/ Translate(t) = t

(* PMem::request_frame: no caller frees a frame, so the first free frame   *)
(* at or after the hint is the lowest one.                                 *)
request_frame == Min(avail)

Cleared == [x \in 0..(E - 1) |-> Absent]

-----------------------------------------------------------------------------
Init ==
  /\ machine \in Machines
  /\ pc = "new" /\ ret = "new"
  /\ mem = [f \in Physical |-> [x \in 0..(E - 1) |-> 0]]
  /\ cr3 = FALSE
  /\ avail = machine.avail /\ heap = {}
  /\ seg = 1 /\ k = 0
  /\ vaddr = 0 /\ paddr = 0 /\ level = 4 /\ table = machine.pml4
  /\ want = [v \in {} |-> 0]

ClearPML4 ==
  /\ pc = "new" /\ pc' = "segment"
  /\ mem' = [mem EXCEPT ![machine.pml4] = Cleared]
  /\ UNCHANGED <<machine, ret, cr3, avail, heap, seg, k, call, want>>

CallAllocatePage(v, p, back) ==
  /\ pc' = "walk" /\ ret' = back
  /\ vaddr' = v /\ paddr' = p /\ level' = 4 /\ table' = machine.pml4

(* A faulty bound that forgets the last, partial page. *)
PagesRoundedDown(s) == s.n \div (PAGE_SZ + 1)

(* How many pages __identity_paging maps. *)
identity_pages(s) == s.n \div (PAGE_SZ + 1) + 1

(* A faulty loop that maps the same page again and again. *)
IdentityStuck ==
  /\ pc = "segment" /\ seg <= Len(machine.segs)
  /\ k < identity_pages(machine.segs[seg])
  /\ CallAllocatePage(machine.segs[seg].page + k, machine.segs[seg].page + k, "segment")
  /\ UNCHANGED <<machine, mem, cr3, avail, heap, seg, k, want>>

IdentityPaging ==
  /\ pc = "segment" /\ seg <= Len(machine.segs)
  /\ k < identity_pages(machine.segs[seg])
  /\ CallAllocatePage(machine.segs[seg].page + k, machine.segs[seg].page + k, "segment")
  /\ k' = k + 1
  /\ UNCHANGED <<machine, mem, cr3, avail, heap, seg, want>>

NextSegment ==
  /\ pc = "segment" /\ seg <= Len(machine.segs)
  /\ k >= identity_pages(machine.segs[seg])
  /\ seg' = seg + 1 /\ k' = 0
  /\ UNCHANGED <<machine, pc, ret, mem, cr3, avail, heap, call, want>>

(* CR3 is loaded and the constructor maps its test page to address 0. *)
LoadCR3 ==
  /\ pc = "segment" /\ seg > Len(machine.segs)
  /\ cr3' = TRUE
  /\ CallAllocatePage(machine.test, 0, "test")
  /\ UNCHANGED <<machine, mem, avail, heap, seg, k, want>>

(* The write through the test page, and the end of the constructor. *)
TestPage ==
  /\ pc = "test"
  /\ pc' = IF Translate(machine.test) # Absent THEN "ready" ELSE "fault"
  /\ UNCHANGED <<machine, ret, mem, cr3, avail, heap, seg, k, call, want>>

-----------------------------------------------------------------------------
(* allocate_page                                                           *)

Entry == mem[table][PageIndexer(vaddr, level)]

UseTable ==
  /\ pc = "walk" /\ level > 1 /\ Accessible(table) /\ Entry # Absent
  /\ table' = TablePtr(Entry) /\ level' = level - 1
  /\ UNCHANGED <<machine, pc, ret, mem, cr3, avail, heap, seg, k, vaddr, paddr, want>>

NewTableWith(f, row, addr) ==
  /\ pc = "walk" /\ level > 1 /\ Accessible(table) /\ Entry = Absent
  /\ avail # {} /\ Accessible(f)
  /\ avail' = avail \ {f}
  /\ mem' = [mem EXCEPT ![f] = row, ![table][PageIndexer(vaddr, level)] = addr]
  /\ table' = f /\ level' = level - 1
  /\ UNCHANGED <<machine, pc, ret, cr3, heap, seg, k, vaddr, paddr, want>>

(* A faulty step that does not clear the new table. *)
NewTableDirty == NewTableWith(request_frame, mem[request_frame], request_frame)

(* A faulty step that enters the address of the wrong table. *)
NewTableWrongAddr == NewTableWith(request_frame, Cleared, table)

NewTable == NewTableWith(request_frame, Cleared, request_frame)

(* ASSERT(... != nullptr), or the assertion in request_frame. *)
NoFrame ==
  /\ pc = "walk" /\ level > 1 /\ Accessible(table) /\ Entry = Absent /\ avail = {}
  /\ pc' = "panic"
  /\ UNCHANGED <<machine, ret, mem, cr3, avail, heap, seg, k, call, want>>

(* A faulty last step that indexes the page table like a directory. *)
SetPageWrongIndex ==
  /\ pc = "walk" /\ level = 1 /\ Accessible(table)
  /\ mem' = [mem EXCEPT ![table][PageIndexer(vaddr, 2)] = paddr]
  /\ want' = [v \in DOMAIN want \cup {vaddr} |-> IF v = vaddr THEN paddr ELSE want[v]]
  /\ pc' = ret
  /\ UNCHANGED <<machine, ret, cr3, avail, heap, seg, k, call>>

SetPage ==
  /\ pc = "walk" /\ level = 1 /\ Accessible(table)
  /\ mem' = [mem EXCEPT ![table][PageIndexer(vaddr, 1)] = paddr]
  /\ want' = [v \in DOMAIN want \cup {vaddr} |-> IF v = vaddr THEN paddr ELSE want[v]]
  /\ pc' = ret
  /\ UNCHANGED <<machine, ret, cr3, avail, heap, seg, k, call>>

(* A table, or the frame that is about to become one, is not mapped. *)
PageFault ==
  /\ pc = "walk" /\ pc' = "fault"
  /\ \/ /\ ~Accessible(table)
        /\ UNCHANGED <<table, avail>>
     \/ /\ Accessible(table) /\ level > 1 /\ Entry = Absent /\ avail # {}
        /\ ~Accessible(request_frame)
        /\ table' = request_frame
        /\ avail' = avail \ {request_frame}
  /\ UNCHANGED <<machine, ret, mem, cr3, heap, seg, k, vaddr, paddr, level, want>>

-----------------------------------------------------------------------------
(* The heap maps every frame it obtains onto itself. *)
HeapPage(f) ==
  /\ pc = "ready"
  /\ avail' = avail \ {f} /\ heap' = heap \cup {f}
  /\ CallAllocatePage(f, f, "ready")
  /\ UNCHANGED <<machine, mem, cr3, seg, k, want>>

(* No frame is left for the heap: the assertion in the allocator fails. *)
HeapNoFrame ==
  /\ pc = "ready" /\ avail = {} /\ pc' = "panic"
  /\ UNCHANGED <<machine, ret, mem, cr3, avail, heap, seg, k, call, want>>

Spin == pc \in {"panic", "fault"} /\ UNCHANGED vars

Running == \/ ClearPML4 \/ IdentityPaging \/ NextSegment \/ LoadCR3 \/ TestPage
           \/ UseTable \/ NewTable \/ NoFrame \/ SetPage \/ PageFault

Next == Running \/ (\E f \in avail : HeapPage(f)) \/ HeapNoFrame \/ Spin

(* The code runs on; only calls from the heap are up to the caller. *)
Spec == Init /\ [][Next]_vars /\ WF_vars(Running)

-----------------------------------------------------------------------------
(* Properties.                                                             *)

(* The variables have their types; the tables hold frames of the machine.  *)
TypeOK ==
  /\ machine \in Machines
  /\ {pc, ret} \subseteq {"new", "segment", "test", "walk", "ready", "panic", "fault"}
  /\ DOMAIN mem = Physical
  /\ \A f \in Physical : mem[f] \in [0..(E - 1) -> Virtual \cup {Absent}]
  /\ cr3 \in BOOLEAN
  /\ avail \subseteq Physical /\ heap \subseteq Physical
  /\ seg \in 1..(Len(machine.segs) + 1) /\ k \in Nat
  /\ vaddr \in Virtual /\ paddr \in Virtual /\ level \in 1..4 /\ table \in Physical
  /\ DOMAIN want \subseteq Virtual

(* No table was made in a frame whose number needs more bits than TablePtr *)
(* keeps.  The first frames are granted first: it takes a machine whose    *)
(* lower memory is used up.                                                *)
LowTables == machine.avail \ (avail \cup heap) \subseteq 0..(PTR_FRAMES - 1)

(* The processor translates exactly the pages that allocate_page was asked *)
(* to map, to the frames it was asked for; the tables that are built on    *)
(* the way add no page, at no moment; is_page_allocated tells the same.    *)
(* It needs tables below 4 GiB, whatever lies above.                       *)
MapsExact ==
  pc # "new" /\ LowTables =>
    \A v \in Virtual :
      /\ Translate(v) = (IF v \in DOMAIN want THEN want[v] ELSE Absent)
      /\ is_page_allocated(v) <=> v \in DOMAIN want

Below(tables) == {mem[t][x] : t \in tables, x \in 0..(E - 1)} \ {Absent}
PDPTs == Below({machine.pml4})
PDs == Below(PDPTs)
PTs == Below(PDs)
Slots == {s \in ({machine.pml4} \cup PDPTs \cup PDs) \X (0..(E - 1)) :
            mem[s[1]][s[2]] # Absent}

(* The tables form a tree: no frame is a table twice or at two levels, and *)
(* none of them is free or belongs to the heap (tables below 4 GiB).  The  *)
(* variables keep their types: a walk stays between the four levels.       *)
TablesTree ==
  /\ TypeOK
  /\ pc # "new" /\ LowTables =>
       /\ Cardinality(Slots) = Cardinality(PDPTs \cup PDs \cup PTs)
       /\ (PDPTs \cup PDs \cup PTs) \cap ({machine.pml4} \cup avail \cup heap) = {}

(* A mapping, once made, stays: mapping other pages never changes it, and  *)
(* the regions that init maps twice are mapped to the same frames (tables  *)
(* below 4 GiB).                                                           *)
MappingStays ==
  [][pc # "new" /\ LowTables' => \A v \in Virtual : Translate(v) # Absent => Translate(v)' = Translate(v)]_vars

(* The pages of a segment that __identity_paging leaves out: it divides    *)
(* by one more than the page size, which is one page short for every       *)
(* PAGE_SZ + 1 further pages.  (Behind a segment that fills its last page  *)
(* the next one is counted among them.)                                    *)
LeftOut(s) == {f \in s.page..(s.page + s.n \div PAGE_SZ) :
                 (f - s.page) * (PAGE_SZ + 1) > s.n}

(* Frames from the physical allocator can be used as tables after CR3 is   *)
(* loaded, except in the left-out pages of a large segment, if the tables  *)
(* are below 4 GiB.                                                        *)
FaultsOnlyLeftOut ==
  pc = "fault" /\ LowTables => \E s \in 1..Len(machine.segs) : table \in LeftOut(machine.segs[s])

(* The constructor comes to an end. *)
ConstructorEnds == <>(pc \in {"ready", "panic", "fault"})
=============================================================================
