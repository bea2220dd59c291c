-------------------------------- MODULE PMem --------------------------------
(***************************************************************************)
(* The physical frame allocator, class PMem (memory/pmem.cpp) with its     *)
(* Bitmap (kutils/bitmap.cpp).                                             *)
(*                                                                         *)
(* Every loop of the constructor and of the two request functions is       *)
(* modelled one iteration per step; `pc' says which loop the allocator is  *)
(* in.  A failing ASSERT ends in a state that only spins, as               *)
(* __assertion_failed does.                                                *)
(*                                                                         *)
(* The bitmap is kept in ordinary memory, at the start of the largest      *)
(* conventional segment.  ZeroFrame models a client that clears a frame it *)
(* was given (Paging::allocate_page does that to every table it creates):  *)
(* if bits of the bitmap are stored in that frame they are cleared, and    *)
(* the history variable `intact' becomes FALSE.                            *)
(***************************************************************************)
EXTENDS MemoryMap

CONSTANTS
  SIZE_MOD,      \* number of values of the type size, 2^64 in the kernel
  Boots,         \* the machines considered, see WellFormedBoot
  Requests       \* numbers of frames that clients ask request_frames for

VARIABLES
  boot,                              \* the machine, never changes
  bitmap,                            \* TRUE = locked
  free_frames, locked_frames,        \* the two counters
  last_free_idx,                     \* where request_frame starts to look
  pc,
  i, n,                              \* loop counters
  number,                            \* argument of request_frames
  free_start_idx, free_end_idx,      \* its locals
  held,                              \* history: how often each frame is held
  intact                             \* history: no client wrote the bitmap

pmem == <<bitmap, free_frames, locked_frames>>
search == <<number, free_start_idx, free_end_idx>>
vars == <<boot, pmem, last_free_idx, pc, i, n, search, held, intact>>

-----------------------------------------------------------------------------
(* Addresses and frame indices.                                            *)

ptr_to_frame_idx(ptr) == ptr \div FRAME_SZ

FramesOf(b) == get_page_frames_number(b.mmap)
frames == FramesOf(boot)
FrameIdx == 0..(frames - 1)

(* Bytes of a bitmap with one bit per frame. *)
bitmap_mem_size(b) == (FramesOf(b) + 7) \div 8

(* The k-th page of a descriptor, as the constructor computes its index. *)
desc_frame_idx(desc, k) == ptr_to_frame_idx(desc.paddr + k * FRAME_SZ)

(* Frames of the segments the constructor frees. *)
UsableFrames(b) ==
  {f \in 0..(FramesOf(b) - 1) :
     \E d \in 1..Len(b.mmap) :
       /\ is_usable_memory(b.mmap[d])
       /\ \E k \in 0..(b.mmap[d].pages - 1) : f = desc_frame_idx(b.mmap[d], k)}

(* The frame that holds the k-th bit of the bitmap. *)
BitFrame(b, k) ==
  ptr_to_frame_idx(get_largest_free_seg(b.mmap).mem_seg + (k \div 8))

BitmapFrames(b) == {BitFrame(b, k) : k \in 0..(FramesOf(b) - 1)}

(* A machine: its memory map, kernel.stack (the address of the             *)
(* BootloaderData that the bootloader passes on its stack) and the address *)
(* that Bitmap::buf holds, which is that of the member __buf of the PMem   *)
(* object and not of the buffer; and whether its clients call free_frame,  *)
(* which no caller in the kernel does.  The code relies on the last        *)
(* descriptor being the highest one.  A frame has more than one byte, so   *)
(* addresses that fit the type `size' leave it twice the number of frames. *)
WellFormedBoot(b) ==
  /\ b.mmap \in Seq(EfiMMapDesc) /\ Len(b.mmap) > 0
  /\ \A d \in 1..Len(b.mmap) : desc_end(b.mmap[d]) <= desc_end(b.mmap[Len(b.mmap)])
  /\ b.stack \in Nat /\ ptr_to_frame_idx(b.stack) < FramesOf(b)
  /\ b.buf \in Nat
  /\ ptr_to_frame_idx(b.buf) + bitmap_mem_size(b) \div FRAME_SZ < FramesOf(b)
  /\ 2 * FramesOf(b) <= SIZE_MOD
  /\ b.clients_free \in BOOLEAN

ClientsFree == boot.clients_free

ASSUME PMemAssumption ==
  /\ SIZE_MOD \in Nat \ {0}
  /\ \A b \in Boots : WellFormedBoot(b)
  /\ Requests \subseteq 1..(SIZE_MOD - 1)

-----------------------------------------------------------------------------
(* The two primitives on a frame.  Both do nothing when the bit already    *)
(* has the wanted value; the counters are unsigned.                        *)

IncSize(x) == (x + 1) % SIZE_MOD
DecSize(x) == (x - 1) % SIZE_MOD

(* A faulty lock_frame that does not look at the bit first. *)
LockUnchecked(idx) ==
  /\ bitmap' = [bitmap EXCEPT ![idx] = TRUE]
  /\ free_frames' = DecSize(free_frames)
  /\ locked_frames' = IncSize(locked_frames)

lock_frame(idx) ==
  IF bitmap[idx] = FALSE
  THEN /\ bitmap' = [bitmap EXCEPT ![idx] = TRUE]
       /\ free_frames' = DecSize(free_frames)
       /\ locked_frames' = IncSize(locked_frames)
  ELSE UNCHANGED pmem

free_frame(idx) ==
  IF bitmap[idx] = TRUE
  THEN /\ bitmap' = [bitmap EXCEPT ![idx] = FALSE]
       /\ free_frames' = IncSize(free_frames)
       /\ locked_frames' = DecSize(locked_frames)
  ELSE UNCHANGED pmem

-----------------------------------------------------------------------------
(* The constructor.                                                        *)

Init ==
  /\ boot \in Boots
  /\ bitmap = [f \in FrameIdx |-> FALSE]
  /\ free_frames = 0 /\ locked_frames = 0 /\ last_free_idx = 0
  /\ pc = "new"
  /\ i = 0 /\ n = 0
  /\ number = 0 /\ free_start_idx = 0 /\ free_end_idx = 0
  /\ held = [f \in FrameIdx |-> 0]
  /\ intact = TRUE

(* __init_bitmap, the Bitmap constructor and the first counter values. *)
InitBitmap ==
  /\ pc = "new"
  /\ IF /\ get_largest_free_seg(boot.mmap).size > 0
        /\ frames > 0
        /\ get_largest_free_seg(boot.mmap).size > frames \div 8
     THEN /\ bitmap' = [f \in FrameIdx |-> FALSE]
          /\ free_frames' = frames
          /\ locked_frames' = 0
          /\ pc' = "lock_all" /\ i' = 0
     ELSE /\ pc' = "ctor_panic"
          /\ UNCHANGED <<pmem, i>>
  /\ UNCHANGED <<boot, last_free_idx, n, search, held, intact>>

LockAll ==
  /\ pc = "lock_all"
  /\ IF i < frames
     THEN lock_frame(i) /\ i' = i + 1 /\ pc' = pc
     ELSE pc' = "free_usable" /\ i' = 1 /\ UNCHANGED pmem
  /\ UNCHANGED <<boot, last_free_idx, n, search, held, intact>>

(* A faulty loop that frees the page behind each usable segment as well. *)
FreeOnePageMore ==
  /\ pc = "free_usable"
  /\ \/ /\ i <= Len(boot.mmap)
        /\ is_usable_memory(boot.mmap[i]) /\ n <= boot.mmap[i].pages
        /\ free_frame(desc_frame_idx(boot.mmap[i], n))
        /\ n' = n + 1 /\ UNCHANGED <<i, pc>>
     \/ /\ i <= Len(boot.mmap)
        /\ ~ (is_usable_memory(boot.mmap[i]) /\ n <= boot.mmap[i].pages)
        /\ i' = i + 1 /\ n' = 0 /\ UNCHANGED <<pmem, pc>>
     \/ /\ i > Len(boot.mmap)
        /\ pc' = "lock_null" /\ UNCHANGED <<pmem, i, n>>
  /\ UNCHANGED <<boot, last_free_idx, search, held, intact>>

(* i runs over the descriptors, n over the pages of a usable one. *)
FreeUsable ==
  /\ pc = "free_usable"
  /\ \/ /\ i <= Len(boot.mmap)
        /\ is_usable_memory(boot.mmap[i]) /\ n < boot.mmap[i].pages
        /\ free_frame(desc_frame_idx(boot.mmap[i], n))
        /\ n' = n + 1 /\ UNCHANGED <<i, pc>>
     \/ /\ i <= Len(boot.mmap)
        /\ ~ (is_usable_memory(boot.mmap[i]) /\ n < boot.mmap[i].pages)
        /\ i' = i + 1 /\ n' = 0 /\ UNCHANGED <<pmem, pc>>
     \/ /\ i > Len(boot.mmap)
        /\ pc' = "lock_null" /\ UNCHANGED <<pmem, i, n>>
  /\ UNCHANGED <<boot, last_free_idx, search, held, intact>>

LockNull ==
  /\ pc = "lock_null"
  /\ lock_frame(0)
  /\ pc' = "lock_stack"
  /\ UNCHANGED <<boot, last_free_idx, i, n, search, held, intact>>

(* A faulty constructor that leaves the frame of the stack free. *)
SkipLockStack ==
  /\ pc = "lock_stack"
  /\ pc' = "lock_bitmap" /\ i' = 0
  /\ UNCHANGED <<boot, pmem, last_free_idx, n, search, held, intact>>

LockStack ==
  /\ pc = "lock_stack"
  /\ lock_frame(ptr_to_frame_idx(boot.stack))
  /\ pc' = "lock_bitmap" /\ i' = 0
  /\ UNCHANGED <<boot, last_free_idx, n, search, held, intact>>

(* The loop that is meant for the frames of the bitmap.  It starts at the  *)
(* frame of boot.buf and counts whole frames only.                         *)
LockBitmap ==
  /\ pc = "lock_bitmap"
  /\ IF i < bitmap_mem_size(boot) \div FRAME_SZ
     THEN lock_frame(ptr_to_frame_idx(boot.buf) + i) /\ i' = i + 1 /\ pc' = pc
     ELSE pc' = "ctor_assert" /\ UNCHANGED <<pmem, i>>
  /\ UNCHANGED <<boot, last_free_idx, n, search, held, intact>>

CtorAssert ==
  /\ pc = "ctor_assert"
  /\ pc' = IF locked_frames > 0 /\ free_frames > 0 /\ bitmap[0] = TRUE
           THEN "ready" ELSE "ctor_panic"
  /\ UNCHANGED <<boot, pmem, last_free_idx, i, n, search, held, intact>>

Construct == InitBitmap \/ LockAll \/ FreeUsable \/ LockNull \/ LockStack
             \/ LockBitmap \/ CtorAssert

-----------------------------------------------------------------------------
(* request_frame.  Locals are reset to 0 when a function returns.          *)

RequestFrame ==
  /\ pc = "ready"
  /\ IF free_frames > 0
     THEN pc' = "rf_scan" /\ i' = last_free_idx
     ELSE pc' = "panic" /\ i' = i
  /\ UNCHANGED <<boot, pmem, last_free_idx, n, search, held, intact>>

(* A faulty request_frame that returns the frame without locking it. *)
ScanWithoutLock ==
  /\ pc = "rf_scan"
  /\ \/ /\ i < frames /\ bitmap[i] = FALSE
        /\ last_free_idx' = i
        /\ held' = [held EXCEPT ![i] = @ + 1]
        /\ pc' = "ready" /\ i' = 0
     \/ /\ i < frames /\ bitmap[i] = TRUE
        /\ i' = i + 1
        /\ UNCHANGED <<last_free_idx, held, pc>>
     \/ /\ i >= frames
        /\ pc' = "returned_null" /\ i' = 0
        /\ UNCHANGED <<last_free_idx, held>>
  /\ UNCHANGED <<boot, pmem, n, search, intact>>

RequestFrameScan ==
  /\ pc = "rf_scan"
  /\ \/ /\ i < frames /\ bitmap[i] = FALSE
        /\ lock_frame(i)
        /\ last_free_idx' = i
        /\ held' = [held EXCEPT ![i] = @ + 1]
        /\ pc' = "ready" /\ i' = 0
     \/ /\ i < frames /\ bitmap[i] = TRUE
        /\ i' = i + 1
        /\ UNCHANGED <<pmem, last_free_idx, held, pc>>
     \/ /\ i >= frames
        /\ pc' = "returned_null" /\ i' = 0
        /\ UNCHANGED <<pmem, last_free_idx, held>>
  /\ UNCHANGED <<boot, n, search, intact>>

(* Every caller of request_frame asserts that the result is not nullptr. *)
CallerAssert ==
  /\ pc = "returned_null"
  /\ pc' = "panic"
  /\ UNCHANGED <<boot, pmem, last_free_idx, i, n, search, held, intact>>

-----------------------------------------------------------------------------
(* request_frames                                                          *)

RequestFrames(num) ==
  /\ pc = "ready"
  /\ number' = num /\ free_start_idx' = 0 /\ free_end_idx' = 0
  /\ pc' = "rfs_scan" /\ i' = last_free_idx
  /\ UNCHANGED <<boot, pmem, last_free_idx, n, held, intact>>

(* One iteration of the search; free_start_idx = 0 means no run is open. *)
RequestFramesScan ==
  /\ pc = "rfs_scan"
  /\ \/ /\ i < frames                                 \* enough frames found
        /\ free_start_idx > 0 /\ i - free_start_idx = number
        /\ free_end_idx' = i - 1
        /\ pc' = "rfs_assert" /\ UNCHANGED <<free_start_idx, i>>
     \/ /\ i < frames                                 \* the run goes on
        /\ free_start_idx > 0 /\ i - free_start_idx # number
        /\ bitmap[i] = FALSE
        /\ free_end_idx' = i
        /\ i' = i + 1 /\ UNCHANGED <<free_start_idx, pc>>
     \/ /\ i < frames                                 \* a locked frame ends it
        /\ ~ (free_start_idx > 0 /\ i - free_start_idx = number)
        /\ bitmap[i] = TRUE
        /\ free_start_idx' = 0
        /\ i' = i + 1 /\ UNCHANGED <<free_end_idx, pc>>
     \/ /\ i < frames                                 \* a run starts
        /\ free_start_idx = 0 /\ bitmap[i] = FALSE
        /\ free_start_idx' = i /\ free_end_idx' = i
        /\ i' = i + 1 /\ UNCHANGED pc
     \/ /\ i >= frames                                \* end of memory
        /\ pc' = "rfs_assert" /\ UNCHANGED <<free_start_idx, free_end_idx, i>>
  /\ UNCHANGED <<boot, pmem, last_free_idx, n, number, held, intact>>

(* A faulty assertion: the other way round, but for the last frame. *)
RunLengthSwapped == (free_end_idx - free_start_idx) % SIZE_MOD >= number

(* The third assertion subtracts the end from the start, unsigned. *)
RunLengthAssert == (free_start_idx - free_end_idx) % SIZE_MOD >= number

RunAsserted == free_start_idx > 0 /\ free_end_idx > 0 /\ RunLengthAssert

RequestFramesAssert ==
  /\ pc = "rfs_assert"
  /\ IF RunAsserted
     THEN pc' = "rfs_lock" /\ i' = free_start_idx
     ELSE pc' = "panic" /\ i' = 0
  /\ UNCHANGED <<boot, pmem, last_free_idx, n, search, held, intact>>

RequestFramesLock ==
  /\ pc = "rfs_lock" /\ i <= free_end_idx
  /\ lock_frame(i) /\ i' = i + 1
  /\ UNCHANGED <<boot, last_free_idx, pc, n, search, held, intact>>

Granted == [f \in FrameIdx |-> IF f \in free_start_idx..free_end_idx
                               THEN held[f] + 1 ELSE held[f]]

(* A faulty return that remembers the end of the run as the hint. *)
ReturnMovesHint ==
  /\ pc = "rfs_lock" /\ i > free_end_idx
  /\ held' = Granted
  /\ pc' = "ready" /\ i' = 0
  /\ number' = 0 /\ free_start_idx' = 0 /\ free_end_idx' = 0
  /\ last_free_idx' = free_end_idx
  /\ UNCHANGED <<boot, pmem, n, intact>>

(* A faulty return that leaves the last frame of the run unlocked. *)
ReturnEarly ==
  /\ pc = "rfs_lock" /\ i >= free_end_idx
  /\ held' = Granted
  /\ pc' = "ready" /\ i' = 0
  /\ number' = 0 /\ free_start_idx' = 0 /\ free_end_idx' = 0
  /\ UNCHANGED <<boot, pmem, last_free_idx, n, intact>>

RequestFramesReturn ==
  /\ pc = "rfs_lock" /\ i > free_end_idx
  /\ held' = Granted
  /\ pc' = "ready" /\ i' = 0
  /\ number' = 0 /\ free_start_idx' = 0 /\ free_end_idx' = 0
  /\ UNCHANGED <<boot, pmem, last_free_idx, n, intact>>

-----------------------------------------------------------------------------
(* Clients.                                                                *)

(* free_frame, called by the holder of the frame.  (Once a client has       *)
(* overwritten the bitmap nothing is claimed any more; only requests are    *)
(* followed further, which keeps the state space finite.)                   *)
FreeFrame(f) ==
  /\ ClientsFree /\ intact /\ pc = "ready" /\ held[f] > 0
  /\ free_frame(f)
  /\ held' = [held EXCEPT ![f] = @ - 1]
  /\ UNCHANGED <<boot, last_free_idx, pc, i, n, search, intact>>

(* The holder clears a frame in which bits of the bitmap are stored.       *)
(* Modelled once per behaviour.                                            *)
ZeroFrame(f) ==
  /\ intact /\ pc = "ready" /\ held[f] > 0 /\ f \in BitmapFrames(boot)
  /\ bitmap' = [k \in FrameIdx |-> IF BitFrame(boot, k) = f THEN FALSE ELSE bitmap[k]]
  /\ intact' = FALSE
  /\ UNCHANGED <<boot, free_frames, locked_frames, last_free_idx, pc, i, n, search, held>>

(* __assertion_failed spins for ever. *)
Spin == pc \in {"panic", "ctor_panic"} /\ UNCHANGED vars

Allocator == \/ Construct
             \/ RequestFrameScan \/ CallerAssert
             \/ RequestFramesScan \/ RequestFramesAssert
             \/ RequestFramesLock \/ RequestFramesReturn

Client == \/ RequestFrame
          \/ \E num \in Requests : RequestFrames(num)
          \/ \E f \in FrameIdx : FreeFrame(f) \/ ZeroFrame(f)

Next == Allocator \/ Client \/ Spin

(* The allocator is straight-line code that nothing preempts for good. *)
Fairness == WF_vars(Allocator)

Spec == Init /\ [][Next]_vars /\ Fairness

-----------------------------------------------------------------------------
(* Properties.                                                             *)

Ready == {"ready", "rf_scan", "returned_null", "rfs_scan", "rfs_assert",
          "rfs_lock", "panic"}
Ctor == {"new", "lock_all", "free_usable", "lock_null", "lock_stack",
         "lock_bitmap", "ctor_assert", "ctor_panic"}

(* Where the loops stand: the scans run up to the number of frames, the    *)
(* constructor's other loops over the descriptors and their pages, and     *)
(* over the bytes it takes for the bitmap's.                               *)
LoopsInside ==
  /\ pc \in {"lock_all", "rf_scan", "rfs_scan", "rfs_assert", "rfs_lock"} => i \in 0..frames
  /\ pc = "free_usable" => i \in 1..(Len(boot.mmap) + 1)
  /\ pc = "lock_bitmap" => i \in 0..(bitmap_mem_size(boot) \div FRAME_SZ)
  /\ n \in 0..(IF pc = "free_usable" /\ i \in 1..Len(boot.mmap)
               THEN boot.mmap[i].pages ELSE 0)

(* A frame that the next iteration computes from an address has a bit. *)
ComputedInside ==
  /\ pc = "free_usable" /\ i \in 1..Len(boot.mmap) /\ n < boot.mmap[i].pages
       => desc_frame_idx(boot.mmap[i], n) \in FrameIdx
  /\ pc = "lock_bitmap" => ptr_to_frame_idx(boot.buf) + i \in FrameIdx

(* The variables have their types; the bitmap has one bit per frame of the *)
(* memory map.  No loop runs past its end, and the frame that an iteration *)
(* looks up or changes has a bit: an index of the scans is below `frames'  *)
(* where it is used, a hint and the ends of a run always are.              *)
TypeOK ==
  /\ boot \in Boots
  /\ bitmap \in [FrameIdx -> BOOLEAN]
  /\ free_frames \in 0..(SIZE_MOD - 1) /\ locked_frames \in 0..(SIZE_MOD - 1)
  /\ last_free_idx \in FrameIdx
  /\ pc \in Ready \cup Ctor
  /\ i \in Nat /\ n \in Nat /\ LoopsInside /\ ComputedInside
  /\ number \in Nat /\ free_start_idx \in FrameIdx /\ free_end_idx \in FrameIdx
  /\ held \in [FrameIdx -> Nat]
  /\ intact \in BOOLEAN

FreeSet == {f \in FrameIdx : bitmap[f] = FALSE}

(* The counters that kprint_pmem_info shows and that request_frame and the *)
(* constructor assert on are the numbers of free and locked bits, in every *)
(* step of every loop: free_frame and lock_frame never count a frame twice *)
(* and never wrap a counter.                                               *)
CountersMatchBitmap ==
  intact /\ pc \notin {"new", "ctor_panic"} =>
    /\ free_frames = Cardinality(FreeSet)
    /\ free_frames + locked_frames = frames

(* No frame is held twice: a frame that was handed out is not handed out   *)
(* again by request_frame or request_frames until its holder frees it.     *)
ExclusiveGrants ==
  intact => \A f \in FrameIdx : held[f] <= 1 /\ (held[f] = 1 => bitmap[f] = TRUE)

(* Clients only ever get RAM the firmware reported as usable, and neither  *)
(* frame 0 (a pointer to it would be nullptr) nor the frame of the stack.  *)
OnlyUsableGranted ==
  intact => \A f \in FrameIdx :
    held[f] > 0 => /\ f \in UsableFrames(boot)
                   /\ f # 0 /\ f # ptr_to_frame_idx(boot.stack)

(* request_frames locks and returns a run of exactly the number of frames  *)
(* it was asked for, inside memory and held by nobody.  The assertion on   *)
(* the length does not ensure this for a run that is cut off by the end of *)
(* memory; the spare frame at the end of memory, which is never free, does.*)
RunExact ==
  intact /\ pc = "rfs_lock" =>
    /\ free_end_idx = free_start_idx + number - 1
    /\ free_end_idx < frames
    /\ \A f \in free_start_idx..free_end_idx : held[f] = 0

(* As long as no client frees a frame, request_frame never returns nullptr:*)
(* after its assertion that a frame is free it finds one at or after the   *)
(* hint, although request_frames takes frames without moving the hint.     *)
NeverReturnsNull == intact /\ ~ClientsFree => pc # "returned_null"

(* The constructor and every request end, in a result or in a panic. *)
RequestsEnd == (pc # "ready") ~> (pc \in {"ready", "panic", "ctor_panic"})

(* What the allocator promises, as a specification of its own.  Frames     *)
(* that request_frames has already locked count as available until it      *)
(* returns: the caller gets the run in one step.                           *)
Phase == CASE pc \in Ctor \ {"ctor_panic"} -> "closed"
           [] pc = "ready" -> "idle"
           [] pc \in {"panic", "ctor_panic"} -> "dead"
           [] OTHER -> "asked"

Asked == CASE pc \in {"rf_scan", "returned_null"} -> 1
           [] pc \in {"rfs_scan", "rfs_assert", "rfs_lock"} -> number
           [] OTHER -> 0

Run == IF pc = "rfs_lock" THEN free_start_idx..free_end_idx ELSE {}
Available == IF pc \in Ctor THEN {} ELSE FreeSet \cup Run
Taken == {f \in FrameIdx : held[f] > 0}

Promise == INSTANCE FrameAllocator WITH
  phase <- Phase, ask <- Asked, avail <- Available, taken <- Taken, broken <- ~intact

(* PMem implements FrameAllocator: its loops answer every request with a   *)
(* run of free frames of the length asked for, or stop the kernel, as long *)
(* as no client has overwritten the bitmap.  Overwritten or not, the       *)
(* constructor and every request end.                                      *)
KeepsPromise == Promise!Spec /\ RequestsEnd

(* "Lock frames where the bitmap is placed" (pmem.cpp:70). *)
BitmapFramesLocked ==
  intact /\ pc = "ready" => \A f \in BitmapFrames(boot) : bitmap[f] = TRUE

(* A run of the frames asked for, at or after the hint. *)
HasRun ==
  \E a \in last_free_idx..(frames - 1) :
    a + number <= frames /\ \A f \in a..(a + number - 1) : bitmap[f] = FALSE

(* The assertions of request_frames (pmem.cpp:160-162) stop the kernel     *)
(* only where they have to: they pass only if memory has a run of free     *)
(* frames of the length asked for, and for two frames or more they pass    *)
(* whenever it has one, although the third subtracts the end from the      *)
(* start, unsigned.  (For a single frame that difference is zero, and the  *)
(* code stops with the frame found: nothing is claimed of this case.)      *)
FindsRun ==
  intact /\ pc = "rfs_assert" =>
    /\ RunAsserted => HasRun
    /\ HasRun /\ number > 1 => RunAsserted
=============================================================================
