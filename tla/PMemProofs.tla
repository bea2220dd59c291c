----------------------------- MODULE PMemProofs -----------------------------
(***************************************************************************)
(* Proofs about PMem for every machine, frame size and request size: its   *)
(* invariants, and that it implements the safety part of FrameAllocator.   *)
(* That a request also ends is left to TLC, which checks KeepsPromise on   *)
(* small machines.                                                         *)
(***************************************************************************)
EXTENDS PMem, FiniteSetTheorems, TLAPS

(* A step that names no prover is left to Zenon. *)
USE ZenonT(30)

(* Frames that may be free once the constructor is done. *)
Grantable == UsableFrames(boot) \ {0, ptr_to_frame_idx(boot.stack)}

(* The counters are right. *)
Counted == free_frames = Cardinality(FreeSet) /\ free_frames + locked_frames = frames

(* Before the allocator is ready nobody holds a frame; while it frees and  *)
(* locks, only frames of usable segments become free.                      *)
CtorInv ==
  /\ pc \in Ctor => /\ intact = TRUE /\ last_free_idx = 0
                    /\ \A f \in FrameIdx : held[f] = 0
  /\ pc = "lock_all" => i <= frames /\ \A f \in FrameIdx : f < i => bitmap[f] = TRUE
  /\ pc = "free_usable" => i >= 1
  /\ pc \in {"free_usable", "lock_null", "lock_stack"} => FreeSet \subseteq UsableFrames(boot)
  /\ pc = "lock_stack" => bitmap[0] = TRUE
  /\ pc \in {"lock_bitmap", "ctor_assert"} => FreeSet \subseteq Grantable

(* What is known about holders and free frames. *)
GrantInv ==
  /\ pc \in Ready => FreeSet \subseteq Grantable
  /\ \A f \in FrameIdx :
       /\ held[f] <= 1
       /\ held[f] = 1 => bitmap[f] = TRUE /\ f \in Grantable

(* Nothing below the hint is free, and the scan of request_frame passes    *)
(* locked frames only.                                                     *)
HintInv ==
  /\ ~ClientsFree => \A f \in FrameIdx : f < last_free_idx => bitmap[f] = TRUE
  /\ pc = "rf_scan" => /\ i >= last_free_idx /\ free_frames > 0
                       /\ \A f \in last_free_idx..(i - 1) : f \in FrameIdx => bitmap[f] = TRUE
  /\ pc = "returned_null" => ClientsFree = TRUE

(* The run that request_frames has open is free and not too long.          *)
RunInv ==
  /\ pc \in {"rfs_scan", "rfs_assert", "rfs_lock"} => number > 0
  /\ pc = "rfs_scan" /\ free_start_idx > 0 =>
       /\ free_start_idx < i /\ i <= frames /\ i - free_start_idx <= number
       /\ free_end_idx = i - 1
       /\ free_start_idx..free_end_idx \subseteq FreeSet
  /\ pc = "rfs_assert" /\ free_start_idx > 0 =>
       /\ free_end_idx = free_start_idx + number - 1
       /\ free_start_idx..free_end_idx \subseteq FreeSet
  /\ pc = "rfs_lock" =>
       /\ free_start_idx > 0 /\ free_end_idx = free_start_idx + number - 1
       /\ free_end_idx < frames
       /\ free_start_idx <= i /\ i <= free_end_idx + 1
       /\ i..free_end_idx \subseteq FreeSet
       /\ \A f \in free_start_idx..free_end_idx : held[f] = 0 /\ f \in Grantable
       /\ \A f \in free_start_idx..(i - 1) : bitmap[f] = TRUE

IInv ==
  /\ TypeOK
  /\ CtorInv
  /\ intact => /\ pc \notin {"new", "ctor_panic"} => Counted
               /\ GrantInv
               /\ HintInv
               /\ RunInv

-----------------------------------------------------------------------------
(* Arithmetic of frame numbers.                                            *)

(* A block of F bytes that ends at or before b ends in an earlier frame.   *)
LEMMA DivMono ==
  ASSUME NEW F \in Nat \ {0}, NEW a \in Nat, NEW b \in Nat, a + F <= b
  PROVE  (a \div F) + 1 <= b \div F
<1>1. a \div F \in Nat /\ a % F \in 0..(F - 1) /\ a = F * (a \div F) + (a % F)
  BY Z3
<1>2. b \div F \in Nat /\ b % F \in 0..(F - 1) /\ b = F * (b \div F) + (b % F)
  BY Z3
<1> QED BY <1>1, <1>2, Z3

(* One more frame of bytes is one more frame. *)
LEMMA DivAdd ==
  ASSUME NEW F \in Nat \ {0}, NEW a \in Nat
  PROVE  (a + F) \div F = (a \div F) + 1 /\ a \div F \in Nat
  BY Z3

(* Page k of q pages of F bytes ends before the pages do. *)
LEMMA MulMono ==
  ASSUME NEW F \in Nat \ {0}, NEW k \in Nat, NEW q \in Nat, k + 1 <= q
  PROVE  k * F \in Nat /\ F * q \in Nat /\ k * F + F <= F * q
<1>1. PICK r \in Nat : q = k + 1 + r
  <2>1. q - k - 1 \in Nat /\ q = k + 1 + (q - k - 1)
    BY SMTT(30)
  <2> QED BY <2>1
<1>2. F * (k + 1 + r) = k * F + F + F * r /\ F * r \in Nat /\ k * F \in Nat
  BY Z3
<1> QED BY <1>1, <1>2, SMTT(30)

(* The same facts about FRAME_SZ. *)
LEMMA FrameDiv ==
  \A a \in Nat : /\ (a + FRAME_SZ) \div FRAME_SZ = (a \div FRAME_SZ) + 1
                 /\ a \div FRAME_SZ \in Nat
  BY DivAdd, FrameSzAssumption

(* A frame of bytes that ends at or before b ends in an earlier frame. *)
LEMMA FrameDivMono ==
  \A a, b \in Nat : a + FRAME_SZ <= b => (a \div FRAME_SZ) + 1 <= b \div FRAME_SZ
  BY DivMono, FrameSzAssumption

(* The end of a descriptor is an address. *)
LEMMA DescEndNat ==
  ASSUME NEW d \in EfiMMapDesc
  PROVE  desc_end(d) \in Nat
  BY FrameSzAssumption, SMTT(30) DEF EfiMMapDesc, desc_end

(* A memory map has frames, one more than those up to its last byte; its   *)
(* number, the frame of the stack and the frames that the constructor      *)
(* locks for the bitmap are in range.                                      *)
LEMMA BootFrames ==
  ASSUME NEW b \in Boots
  PROVE  /\ FramesOf(b) \in Nat \ {0} /\ FramesOf(b) < SIZE_MOD /\ 2 * FramesOf(b) <= SIZE_MOD
         /\ FramesOf(b) = (desc_end(b.mmap[Len(b.mmap)]) \div FRAME_SZ) + 1
         /\ ptr_to_frame_idx(b.stack) \in 0..(FramesOf(b) - 1)
         /\ ptr_to_frame_idx(b.buf) \in Nat
         /\ bitmap_mem_size(b) \div FRAME_SZ \in Nat
<1> DEFINE last == b.mmap[Len(b.mmap)]
<1>1. WellFormedBoot(b)
  BY PMemAssumption
<1>2. last \in EfiMMapDesc
  BY <1>1, SMTT(30) DEF WellFormedBoot
<1>3. desc_end(last) \in Nat
  BY <1>2, DescEndNat
<1>4. FramesOf(b) = (desc_end(last) \div FRAME_SZ) + 1 /\ FramesOf(b) \in Nat \ {0}
  <2>1. FramesOf(b) = (desc_end(last) + FRAME_SZ) \div FRAME_SZ
    BY DEF FramesOf, get_page_frames_number, get_entire_memory_size
  <2> HIDE DEF last
  <2> QED BY <1>3, <2>1, FrameDiv, SMTT(30)
<1>5. FramesOf(b) < SIZE_MOD /\ 2 * FramesOf(b) <= SIZE_MOD
  BY <1>1, <1>4, PMemAssumption, SMTT(30) DEF WellFormedBoot
<1>6. ptr_to_frame_idx(b.stack) \in 0..(FramesOf(b) - 1) /\ ptr_to_frame_idx(b.buf) \in Nat
  <2>1. b.stack \in Nat /\ b.stack \div FRAME_SZ < FramesOf(b) /\ b.buf \in Nat
    BY <1>1 DEF WellFormedBoot, ptr_to_frame_idx
  <2>2. b.stack \div FRAME_SZ \in Nat /\ b.buf \div FRAME_SZ \in Nat
    BY <2>1, FrameDiv
  <2> QED BY <1>4, <2>1, <2>2, SMTT(30) DEF ptr_to_frame_idx
<1>7. bitmap_mem_size(b) \in Nat
  BY <1>4, SMTT(30) DEF bitmap_mem_size
<1>8. bitmap_mem_size(b) \div FRAME_SZ \in Nat
  BY <1>7, FrameDiv
<1> QED BY <1>4, <1>5, <1>6, <1>8

(* Every page of a descriptor is a frame of the machine, and not the last  *)
(* one: that one is the spare frame.                                       *)
LEMMA DescFrames ==
  ASSUME NEW b \in Boots, NEW d \in 1..Len(b.mmap), NEW k \in 0..(b.mmap[d].pages - 1)
  PROVE  desc_frame_idx(b.mmap[d], k) \in 0..(FramesOf(b) - 2)
<1> DEFINE last == b.mmap[Len(b.mmap)]
           desc == b.mmap[d]
           at == desc.paddr + k * FRAME_SZ
<1>1. WellFormedBoot(b)
  BY PMemAssumption
<1>2. desc \in EfiMMapDesc /\ last \in EfiMMapDesc
  BY <1>1, SMTT(30) DEF WellFormedBoot
<1>3. desc_end(last) \in Nat /\ desc_end(desc) <= desc_end(last)
  BY <1>1, <1>2, DescEndNat DEF WellFormedBoot
<1>4. at \in Nat /\ at + FRAME_SZ <= desc_end(desc)
  <2> DEFINE q == desc.pages
             kf == k * FRAME_SZ
             qf == FRAME_SZ * q
  <2>1. desc.paddr \in Nat /\ q \in Nat /\ k \in Nat /\ k + 1 <= q
    BY <1>2, SMTT(30) DEF EfiMMapDesc
  <2>2. desc_end(desc) = desc.paddr + qf /\ at = desc.paddr + kf
    BY DEF desc_end
  <2> HIDE DEF q, desc
  <2>3. kf \in Nat /\ qf \in Nat /\ kf + FRAME_SZ <= qf
    BY <2>1, MulMono, FrameSzAssumption
  <2> HIDE DEF kf, qf, at
  <2> QED BY <2>1, <2>2, <2>3, FrameSzAssumption, SMTT(30)
<1>5. at + FRAME_SZ <= desc_end(last)
  BY <1>2, <1>3, <1>4, DescEndNat, FrameSzAssumption, SMTT(30)
<1> HIDE DEF last, at
<1>6. (at \div FRAME_SZ) + 1 <= desc_end(last) \div FRAME_SZ /\ at \div FRAME_SZ \in Nat
  BY <1>3, <1>4, <1>5, FrameDiv, FrameDivMono
<1>7. desc_frame_idx(desc, k) = at \div FRAME_SZ
  BY DEF desc_frame_idx, ptr_to_frame_idx, at
<1>8. FramesOf(b) = (desc_end(last) \div FRAME_SZ) + 1
  BY BootFrames DEF last
<1>9. desc_end(last) \div FRAME_SZ \in Nat
  BY <1>3, FrameDiv
<1> QED BY <1>6, <1>7, <1>8, <1>9, SMTT(30)

-----------------------------------------------------------------------------
(* What lock_frame and free_frame do.                                      *)

(* The number of frames, for the machine that runs. *)
LEMMA FramesType ==
  ASSUME boot \in Boots
  PROVE  frames \in Nat \ {0} /\ frames < SIZE_MOD /\ 0 \in FrameIdx
  BY BootFrames, SMTT(30) DEF frames, FrameIdx

(* The set of free frames is finite, so the counters count it. *)
LEMMA FreeSetFinite ==
  ASSUME boot \in Boots
  PROVE  IsFiniteSet(FreeSet) /\ Cardinality(FreeSet) \in Nat /\ Cardinality(FreeSet) <= frames
<1>1. frames \in Nat
  BY FramesType
<1>2. IsFiniteSet(FrameIdx) /\ Cardinality(FrameIdx) = frames
  BY <1>1, FS_Interval, SMTT(30) DEF FrameIdx
<1>3. FreeSet \in SUBSET FrameIdx
  BY DEF FreeSet
<1>4. IsFiniteSet(FreeSet) /\ Cardinality(FreeSet) <= Cardinality(FrameIdx)
  BY <1>2, <1>3, FS_Subset
<1>5. Cardinality(FreeSet) \in Nat /\ Cardinality(FrameIdx) \in Nat
  BY <1>2, <1>4, FS_CardinalityType
<1> QED BY <1>1, <1>2, <1>4, <1>5

(* Types survive lock_frame and free_frame. *)
LEMMA PrimitiveTypes ==
  ASSUME TypeOK, NEW idx, lock_frame(idx) \/ free_frame(idx), boot' = boot
  PROVE  /\ bitmap' \in [FrameIdx -> BOOLEAN]
         /\ free_frames' \in 0..(SIZE_MOD - 1) /\ locked_frames' \in 0..(SIZE_MOD - 1)
<1>1. SIZE_MOD \in Nat \ {0} /\ \A x \in Int : x % SIZE_MOD \in 0..(SIZE_MOD - 1)
  BY PMemAssumption, SMTT(30)
<1>2. free_frames \in Int /\ locked_frames \in Int
  BY <1>1, SMTT(30) DEF TypeOK
<1>3. IncSize(free_frames) \in 0..(SIZE_MOD - 1) /\ DecSize(free_frames) \in 0..(SIZE_MOD - 1)
  BY <1>1, <1>2, SMTT(30) DEF IncSize, DecSize
<1>4. IncSize(locked_frames) \in 0..(SIZE_MOD - 1) /\ DecSize(locked_frames) \in 0..(SIZE_MOD - 1)
  BY <1>1, <1>2, SMTT(30) DEF IncSize, DecSize
<1> QED BY <1>3, <1>4 DEF TypeOK, lock_frame, free_frame, pmem

(* lock_frame locks one frame and keeps the counters right. *)
LEMMA LockFrame ==
  ASSUME TypeOK, NEW idx \in FrameIdx, lock_frame(idx), boot' = boot
  PROVE  /\ bitmap' = [bitmap EXCEPT ![idx] = TRUE]
         /\ FreeSet' = FreeSet \ {idx}
         /\ Counted => Counted'
<1>1. bitmap \in [FrameIdx -> BOOLEAN] /\ boot \in Boots
  BY DEF TypeOK
<1>2. bitmap' = [bitmap EXCEPT ![idx] = TRUE]
  BY <1>1 DEF lock_frame, pmem
<1>3. FrameIdx' = FrameIdx /\ frames' = frames
  BY DEF FrameIdx, frames
<1>4. FreeSet' = FreeSet \ {idx}
  BY <1>1, <1>2, <1>3 DEF FreeSet
<1>5. ASSUME Counted PROVE Counted'
  <2>1. IsFiniteSet(FreeSet) /\ Cardinality(FreeSet) \in Nat /\ Cardinality(FreeSet) <= frames
    BY <1>1, FreeSetFinite
  <2>2. frames \in Nat /\ frames < SIZE_MOD /\ SIZE_MOD \in Nat
    BY <1>1, FramesType, PMemAssumption
  <2>3. locked_frames \in Nat
    BY SMTT(30) DEF TypeOK
  <2>4. CASE bitmap[idx] = TRUE
    <3>1. FreeSet' = FreeSet /\ UNCHANGED <<free_frames, locked_frames>>
      BY <1>4, <2>4 DEF lock_frame, pmem, FreeSet
    <3> QED BY <1>3, <1>5, <3>1 DEF Counted
  <2>5. CASE bitmap[idx] = FALSE
    <3>1. idx \in FreeSet
      BY <2>5 DEF FreeSet
    <3>2. Cardinality(FreeSet') = Cardinality(FreeSet) - 1 /\ Cardinality(FreeSet') \in Nat
      BY <1>4, <2>1, <3>1, FS_RemoveElement, FS_CardinalityType
    <3>3. free_frames' = (free_frames - 1) % SIZE_MOD /\ locked_frames' = (locked_frames + 1) % SIZE_MOD
      BY <2>5 DEF lock_frame, IncSize, DecSize
    <3> QED BY <1>3, <1>5, <2>1, <2>2, <2>3, <3>2, <3>3, SMTT(30) DEF Counted
  <2> QED BY <1>1, <2>4, <2>5
<1> QED BY <1>2, <1>4, <1>5

(* free_frame frees one frame and keeps the counters right. *)
LEMMA FreeOneFrame ==
  ASSUME TypeOK, NEW idx \in FrameIdx, free_frame(idx), boot' = boot
  PROVE  /\ bitmap' = [bitmap EXCEPT ![idx] = FALSE]
         /\ FreeSet' = FreeSet \cup {idx}
         /\ Counted => Counted'
<1>1. bitmap \in [FrameIdx -> BOOLEAN] /\ boot \in Boots
  BY DEF TypeOK
<1>2. bitmap' = [bitmap EXCEPT ![idx] = FALSE]
  BY <1>1 DEF free_frame, pmem
<1>3. FrameIdx' = FrameIdx /\ frames' = frames
  BY DEF FrameIdx, frames
<1>4. FreeSet' = FreeSet \cup {idx}
  BY <1>1, <1>2, <1>3 DEF FreeSet
<1>5. ASSUME Counted PROVE Counted'
  <2>1. IsFiniteSet(FreeSet) /\ Cardinality(FreeSet) \in Nat
    BY <1>1, FreeSetFinite
  <2>2. frames \in Nat /\ frames < SIZE_MOD /\ SIZE_MOD \in Nat
    BY <1>1, FramesType, PMemAssumption
  <2>3. locked_frames \in Nat
    BY SMTT(30) DEF TypeOK
  <2>4. CASE bitmap[idx] = FALSE
    <3>1. FreeSet' = FreeSet /\ UNCHANGED <<free_frames, locked_frames>>
      BY <1>4, <2>4 DEF free_frame, pmem, FreeSet
    <3> QED BY <1>3, <1>5, <3>1 DEF Counted
  <2>5. CASE bitmap[idx] = TRUE
    <3>1. idx \notin FreeSet
      BY <2>5 DEF FreeSet
    <3>2. Cardinality(FreeSet') = Cardinality(FreeSet) + 1 /\ IsFiniteSet(FreeSet')
      BY <1>4, <2>1, <3>1, FS_AddElement
    <3>3. Cardinality(FreeSet') <= frames
      <4>1. FreeSet' \in SUBSET FrameIdx
        BY <1>3 DEF FreeSet
      <4>2. IsFiniteSet(FrameIdx) /\ Cardinality(FrameIdx) = frames
        BY <2>2, FS_Interval, SMTT(30) DEF FrameIdx
      <4> QED BY <4>1, <4>2, FS_Subset
    <3>4. free_frames' = (free_frames + 1) % SIZE_MOD /\ locked_frames' = (locked_frames - 1) % SIZE_MOD
      BY <2>5 DEF free_frame, IncSize, DecSize
    <3> QED BY <1>3, <1>5, <2>1, <2>2, <2>3, <3>2, <3>3, <3>4, SMTT(30) DEF Counted
  <2> QED BY <1>1, <2>4, <2>5
<1> QED BY <1>2, <1>4, <1>5

-----------------------------------------------------------------------------
(* Type correctness.                                                       *)

(* The types alone, without where the loops stand. *)
Typed ==
  /\ boot \in Boots
  /\ bitmap \in [FrameIdx -> BOOLEAN]
  /\ free_frames \in 0..(SIZE_MOD - 1) /\ locked_frames \in 0..(SIZE_MOD - 1)
  /\ last_free_idx \in FrameIdx
  /\ pc \in Ready \cup Ctor
  /\ i \in Nat /\ n \in Nat
  /\ number \in Nat /\ free_start_idx \in FrameIdx /\ free_end_idx \in FrameIdx
  /\ held \in [FrameIdx -> Nat]
  /\ intact \in BOOLEAN

(* A loop of the constructor that is inside its bounds computes frames of  *)
(* the machine, and a segment has a number of pages.                       *)
LEMMA Computed ==
  ASSUME NEW b \in Boots
  PROVE  /\ \A d \in 1..Len(b.mmap) : b.mmap[d].pages \in Nat
         /\ \A d \in 1..Len(b.mmap), k \in Nat :
              k < b.mmap[d].pages => desc_frame_idx(b.mmap[d], k) \in 0..(FramesOf(b) - 1)
         /\ \A k \in 0..(bitmap_mem_size(b) \div FRAME_SZ) :
              ptr_to_frame_idx(b.buf) + k \in 0..(FramesOf(b) - 1)
<1>1. WellFormedBoot(b)
  BY PMemAssumption
<1>2. \A d \in 1..Len(b.mmap) : b.mmap[d].pages \in Nat
  <2> SUFFICES ASSUME NEW d \in 1..Len(b.mmap) PROVE b.mmap[d].pages \in Nat
    OBVIOUS
  <2>1. b.mmap[d] \in EfiMMapDesc
    BY <1>1, SMTT(30) DEF WellFormedBoot
  <2> QED BY <2>1, SMTT(30) DEF EfiMMapDesc
<1>3. FramesOf(b) \in Nat \ {0}
  BY BootFrames
<1>4. ASSUME NEW d \in 1..Len(b.mmap), NEW k \in Nat, k < b.mmap[d].pages
      PROVE  desc_frame_idx(b.mmap[d], k) \in 0..(FramesOf(b) - 1)
  <2>1. k \in 0..(b.mmap[d].pages - 1)
    BY <1>2, <1>4, SMTT(30)
  <2>2. desc_frame_idx(b.mmap[d], k) \in 0..(FramesOf(b) - 2)
    BY <2>1, DescFrames
  <2> QED BY <1>3, <2>2, SMTT(30)
<1>5. ASSUME NEW k \in 0..(bitmap_mem_size(b) \div FRAME_SZ)
      PROVE  ptr_to_frame_idx(b.buf) + k \in 0..(FramesOf(b) - 1)
  <2>1. ptr_to_frame_idx(b.buf) + bitmap_mem_size(b) \div FRAME_SZ < FramesOf(b)
    BY <1>1 DEF WellFormedBoot
  <2>2. ptr_to_frame_idx(b.buf) \in Nat /\ bitmap_mem_size(b) \div FRAME_SZ \in Nat
    BY BootFrames
  <2> QED BY <1>3, <2>1, <2>2, SMTT(30)
<1> QED BY <1>2, <1>4, <1>5

(* The variables have their types before the constructor runs. *)
LEMMA TypeInit == Init => TypeOK
<1> SUFFICES ASSUME Init PROVE TypeOK
  OBVIOUS
<1>1. boot \in Boots
  BY DEF Init
<1>2. frames \in Nat \ {0} /\ 0 \in FrameIdx
  BY <1>1, FramesType
<1>3. Typed
  BY <1>1, <1>2, PMemAssumption, SMTT(30) DEF Init, Typed, Ready, Ctor
<1>4. LoopsInside /\ ComputedInside
  BY SMTT(30) DEF Init, LoopsInside, ComputedInside
<1> QED BY <1>3, <1>4 DEF Typed, TypeOK

(* No step changes the machine. *)
LEMMA BootFixed == [Next]_vars => boot' = boot /\ frames' = frames /\ FrameIdx' = FrameIdx
<1> SUFFICES ASSUME [Next]_vars PROVE boot' = boot
  BY DEF frames, FrameIdx
<1> QED BY DEF Next, vars, Allocator, Construct, Client, Spin, InitBitmap, LockAll,
     FreeUsable, LockNull, LockStack, LockBitmap, CtorAssert, RequestFrame,
     RequestFrameScan, CallerAssert, RequestFrames, RequestFramesScan,
     RequestFramesAssert, RequestFramesLock, RequestFramesReturn, FreeFrame, ZeroFrame

(* Every step of the allocator and of its clients keeps the types. *)
LEMMA TypedNext == TypeOK /\ [Next]_vars => Typed'
<1> SUFFICES ASSUME TypeOK, [Next]_vars PROVE Typed'
  OBVIOUS
<1>1. boot' = boot /\ boot \in Boots /\ frames' = frames /\ FrameIdx' = FrameIdx
  BY BootFixed DEF TypeOK
<1>2. frames \in Nat \ {0} /\ frames < SIZE_MOD /\ 0 \in FrameIdx /\ SIZE_MOD \in Nat \ {0}
  BY <1>1, FramesType, PMemAssumption
<1>3. ASSUME NEW idx, lock_frame(idx) \/ free_frame(idx)
      PROVE  /\ bitmap' \in [FrameIdx -> BOOLEAN]
             /\ free_frames' \in 0..(SIZE_MOD - 1) /\ locked_frames' \in 0..(SIZE_MOD - 1)
  BY <1>1, <1>3, PrimitiveTypes
<1> USE DEF Ready, Ctor, Typed
<1>4. CASE InitBitmap
  <2>1. bitmap' \in [FrameIdx -> BOOLEAN]
    BY <1>4 DEF TypeOK, InitBitmap, pmem
  <2>2. /\ free_frames' \in 0..(SIZE_MOD - 1) /\ locked_frames' \in 0..(SIZE_MOD - 1)
        /\ i' \in Nat /\ pc' \in Ready \cup Ctor
    BY <1>2, <1>4, SMTT(30) DEF TypeOK, InitBitmap, pmem
  <2> QED BY <1>1, <1>4, <2>1, <2>2 DEF TypeOK, InitBitmap, search
<1>5. CASE LockAll
  BY <1>1, <1>3, <1>5, SMTT(30) DEF TypeOK, LockAll, pmem, search
<1>6. CASE FreeUsable
  <2>1. /\ bitmap' \in [FrameIdx -> BOOLEAN]
        /\ free_frames' \in 0..(SIZE_MOD - 1) /\ locked_frames' \in 0..(SIZE_MOD - 1)
    BY <1>3, <1>6 DEF TypeOK, FreeUsable, pmem
  <2>2. i' \in Nat /\ n' \in Nat /\ pc' \in Ready \cup Ctor
    BY <1>6, SMTT(30) DEF TypeOK, FreeUsable
  <2> QED BY <1>1, <1>6, <2>1, <2>2 DEF TypeOK, FreeUsable, search
<1>7. CASE LockNull \/ LockStack
  BY <1>1, <1>3, <1>7, SMTT(30) DEF TypeOK, LockNull, LockStack, pmem, search
<1>8. CASE LockBitmap
  BY <1>1, <1>3, <1>8, SMTT(30) DEF TypeOK, LockBitmap, pmem, search
<1>9. CASE CtorAssert \/ CallerAssert
  BY <1>1, <1>9 DEF TypeOK, CtorAssert, CallerAssert, pmem, search
<1>10. CASE RequestFrame
  BY <1>1, <1>2, <1>10, SMTT(30) DEF TypeOK, RequestFrame, pmem, search, FrameIdx
<1>11. CASE RequestFrameScan
  <2>1. CASE i < frames /\ bitmap[i] = FALSE
    <3>1. i \in FrameIdx /\ last_free_idx' = i /\ held' = [held EXCEPT ![i] = @ + 1]
      BY <1>2, <1>11, <2>1, SMTT(30) DEF TypeOK, RequestFrameScan, FrameIdx
    <3>2. held' \in [FrameIdx -> Nat]
      BY <3>1, SMTT(30) DEF TypeOK
    <3>3. lock_frame(i)
      BY <1>2, <1>11, <2>1, SMTT(30) DEF TypeOK, RequestFrameScan
    <3> QED BY <1>1, <1>2, <1>3, <1>11, <2>1, <3>1, <3>2, <3>3, SMTT(30)
         DEF TypeOK, RequestFrameScan, search
  <2>2. CASE ~ (i < frames /\ bitmap[i] = FALSE)
    BY <1>1, <1>2, <1>11, <2>2, SMTT(30) DEF TypeOK, RequestFrameScan, pmem, search
  <2> QED BY <2>1, <2>2
<1>12. ASSUME NEW num \in Requests, RequestFrames(num) PROVE Typed'
  BY <1>1, <1>2, <1>12, PMemAssumption, SMTT(30) DEF TypeOK, RequestFrames, pmem, FrameIdx
<1>13. CASE RequestFramesScan
  <2>1. i \in Nat /\ FrameIdx = 0..(frames - 1)
    BY DEF TypeOK, FrameIdx
  <2>2. i' \in Nat /\ pc' \in Ready
    BY <1>13, <2>1, SMTT(30) DEF RequestFramesScan, TypeOK
  <2>3. free_start_idx' \in FrameIdx
    BY <1>2, <1>13, <2>1, SMTT(30) DEF RequestFramesScan, TypeOK
  <2>4. free_end_idx' \in FrameIdx
    <3>1. free_start_idx > 0 /\ i - free_start_idx = number /\ i < frames => i - 1 \in FrameIdx
      BY <1>2, <2>1, SMTT(30) DEF TypeOK
    <3>2. i < frames => i \in FrameIdx
      BY <1>2, <2>1, SMTT(30)
    <3> QED BY <1>13, <3>1, <3>2 DEF RequestFramesScan, TypeOK
  <2> QED BY <1>1, <1>13, <2>2, <2>3, <2>4 DEF TypeOK, RequestFramesScan, pmem
<1>14. CASE RequestFramesAssert
  <2>1. i' \in Nat /\ pc' \in Ready
    BY <1>2, <1>14, SMTT(30) DEF RequestFramesAssert, TypeOK, FrameIdx
  <2> QED BY <1>1, <1>14, <2>1 DEF TypeOK, RequestFramesAssert, pmem, search
<1>15. CASE RequestFramesLock
  BY <1>1, <1>3, <1>15, SMTT(30) DEF TypeOK, RequestFramesLock, search
<1>16. CASE RequestFramesReturn
  BY <1>1, <1>2, <1>16, SMTT(30) DEF TypeOK, RequestFramesReturn, Granted, pmem
<1>17. ASSUME NEW f \in FrameIdx, FreeFrame(f) PROVE Typed'
  <2>1. held' \in [FrameIdx -> Nat]
    BY <1>17, SMTT(30) DEF TypeOK, FreeFrame
  <2> QED BY <1>1, <1>3, <1>17, <2>1 DEF TypeOK, FreeFrame, search
<1>18. ASSUME NEW f \in FrameIdx, ZeroFrame(f) PROVE Typed'
  BY <1>1, <1>18 DEF TypeOK, ZeroFrame, search
<1>19. CASE UNCHANGED vars \/ Spin
  BY <1>1, <1>19 DEF TypeOK, Spin, vars, pmem, search
<1> QED BY <1>4, <1>5, <1>6, <1>7, <1>8, <1>9, <1>10, <1>11, <1>12, <1>13, <1>14,
     <1>15, <1>16, <1>17, <1>18, <1>19 DEF Next, Allocator, Construct, Client

(* No loop runs past its end. *)
LEMMA LoopsNext == TypeOK /\ [Next]_vars => LoopsInside'
<1> SUFFICES ASSUME TypeOK, [Next]_vars PROVE LoopsInside'
  OBVIOUS
<1>1. boot' = boot /\ boot \in Boots /\ frames' = frames /\ FrameIdx' = FrameIdx
  BY BootFixed DEF TypeOK
<1>2. frames \in Nat \ {0} /\ FrameIdx = 0..(frames - 1)
  BY <1>1, FramesType DEF FrameIdx
<1>3. \A d \in 1..Len(boot.mmap) : boot.mmap[d].pages \in Nat
  BY <1>1, Computed
<1>4. i \in Nat /\ n \in Nat /\ LoopsInside
  BY DEF TypeOK
<1>5. bitmap_mem_size(boot) \div FRAME_SZ \in Nat
  BY <1>1, BootFrames
<1>6. Len(boot.mmap) \in Nat \ {0}
  BY <1>1, PMemAssumption, SMTT(30) DEF WellFormedBoot
<1>7. pc # "free_usable" => n = 0
  BY <1>4, SMTT(30) DEF LoopsInside
<1> DEFINE P == {"lock_all", "rf_scan", "rfs_scan", "rfs_assert", "rfs_lock"}
<1>8. ASSUME n' = 0, pc' \notin P \cup {"free_usable", "lock_bitmap"} PROVE LoopsInside'
  BY <1>8, SMTT(30) DEF LoopsInside
<1>9. ASSUME n' = 0, pc' \in P, i' \in 0..frames PROVE LoopsInside'
  BY <1>1, <1>9, SMTT(30) DEF LoopsInside
<1>10. CASE InitBitmap
  BY <1>2, <1>7, <1>8, <1>9, <1>10, SMTT(30) DEF InitBitmap
<1>11. CASE LockAll
  <2>1. CASE i < frames
    BY <1>2, <1>4, <1>7, <1>9, <1>11, <2>1, SMTT(30) DEF LockAll
  <2>2. CASE ~ (i < frames)
    BY <1>1, <1>3, <1>6, <1>7, <1>11, <2>2, SMTT(30) DEF LockAll, LoopsInside
  <2> QED BY <2>1, <2>2
<1>12. CASE FreeUsable
  <2>1. pc = "free_usable" /\ i \in 1..(Len(boot.mmap) + 1)
    BY <1>4, <1>12 DEF FreeUsable, LoopsInside
  <2>2. CASE i <= Len(boot.mmap) /\ n < boot.mmap[i].pages /\ n' = n + 1 /\ UNCHANGED <<i, pc>>
    BY <1>1, <1>3, <1>4, <2>1, <2>2, SMTT(30) DEF LoopsInside
  <2>3. CASE i <= Len(boot.mmap) /\ i' = i + 1 /\ n' = 0 /\ UNCHANGED pc
    BY <1>1, <1>3, <1>6, <2>1, <2>3, SMTT(30) DEF LoopsInside
  <2>4. CASE i > Len(boot.mmap) /\ pc' = "lock_null" /\ UNCHANGED <<i, n>>
    BY <1>1, <1>4, <1>6, <2>1, <2>4, SMTT(30) DEF LoopsInside
  <2> QED BY <1>12, <2>2, <2>3, <2>4 DEF FreeUsable
<1>13. CASE LockNull \/ CtorAssert \/ CallerAssert
  BY <1>7, <1>8, <1>13 DEF LockNull, CtorAssert, CallerAssert
<1>14. CASE LockStack
  BY <1>1, <1>5, <1>7, <1>14, SMTT(30) DEF LockStack, LoopsInside
<1>15. CASE LockBitmap
  BY <1>1, <1>4, <1>5, <1>7, <1>15, SMTT(30) DEF LockBitmap, LoopsInside
<1>16. CASE RequestFrame
  BY <1>2, <1>7, <1>8, <1>9, <1>16, SMTT(30) DEF RequestFrame, TypeOK
<1>17. CASE RequestFrameScan
  BY <1>2, <1>4, <1>7, <1>8, <1>9, <1>17, SMTT(30) DEF RequestFrameScan
<1>18. ASSUME NEW num \in Requests, RequestFrames(num) PROVE LoopsInside'
  BY <1>2, <1>7, <1>9, <1>18, SMTT(30) DEF RequestFrames, TypeOK
<1>19. CASE RequestFramesScan
  <2>1. i \in 0..frames
    BY <1>4, <1>19 DEF RequestFramesScan, LoopsInside
  <2> QED BY <1>2, <1>7, <1>9, <1>19, <2>1, SMTT(30) DEF RequestFramesScan
<1>20. CASE RequestFramesAssert
  BY <1>2, <1>7, <1>8, <1>9, <1>20, SMTT(30) DEF RequestFramesAssert, TypeOK
<1>21. CASE RequestFramesLock
  BY <1>2, <1>4, <1>7, <1>9, <1>21, SMTT(30) DEF RequestFramesLock, TypeOK
<1>22. CASE RequestFramesReturn
  BY <1>7, <1>8, <1>22 DEF RequestFramesReturn
<1>23. ASSUME NEW f \in FrameIdx, FreeFrame(f) \/ ZeroFrame(f) PROVE LoopsInside'
  BY <1>7, <1>8, <1>23 DEF FreeFrame, ZeroFrame
<1>24. CASE UNCHANGED vars \/ Spin
  BY <1>1, <1>4, <1>24 DEF LoopsInside, Spin, vars
<1> QED BY <1>10, <1>11, <1>12, <1>13, <1>14, <1>15, <1>16, <1>17, <1>18, <1>19,
     <1>20, <1>21, <1>22, <1>23, <1>24 DEF Next, Allocator, Construct, Client

(* Every step keeps the types and the bounds of the loops. *)
LEMMA TypeNext == TypeOK /\ [Next]_vars => TypeOK'
<1> SUFFICES ASSUME TypeOK, [Next]_vars PROVE TypeOK'
  OBVIOUS
<1>1. boot' = boot /\ boot \in Boots /\ FrameIdx' = 0..(FramesOf(boot) - 1)
  BY BootFixed DEF TypeOK, FrameIdx, frames
<1>2. Typed' /\ LoopsInside'
  BY TypedNext, LoopsNext
<1>3. ComputedInside'
  <2>1. n' \in Nat /\ (pc' = "lock_bitmap" => i' \in 0..(bitmap_mem_size(boot) \div FRAME_SZ))
    BY <1>1, <1>2 DEF Typed, LoopsInside
  <2> QED BY <1>1, <2>1, Computed DEF ComputedInside
<1> QED BY <1>2, <1>3 DEF Typed, TypeOK

(* TypeOK holds in every reachable state. *)
THEOREM TypeCorrect == Spec => []TypeOK
  BY TypeInit, TypeNext, PTL DEF Spec

-----------------------------------------------------------------------------
(* The inductive invariant.                                                *)

(* The inductive invariant holds before the constructor runs. *)
LEMMA IInvInit == Init => IInv
<1> SUFFICES ASSUME Init PROVE IInv
  OBVIOUS
<1>1. TypeOK
  BY TypeInit
<1>2. CtorInv
  BY DEF Init, CtorInv, Ctor
<1>3. GrantInv
  BY SMTT(30) DEF Init, GrantInv, Ready
<1>4. HintInv /\ RunInv
  BY SMTT(30) DEF Init, HintInv, RunInv, FrameIdx
<1> QED BY <1>1, <1>2, <1>3, <1>4 DEF IInv, Init

(* The spare frame at the end of memory is not in a usable segment.        *)
LEMMA SpareFrame ==
  ASSUME boot \in Boots, NEW f \in Grantable
  PROVE  f \in FrameIdx /\ f < frames - 1
<1>1. f \in UsableFrames(boot)
  BY DEF Grantable
<1>2. PICK d \in 1..Len(boot.mmap) :
        \E k \in 0..(boot.mmap[d].pages - 1) : f = desc_frame_idx(boot.mmap[d], k)
  BY <1>1 DEF UsableFrames
<1>3. f \in 0..(FramesOf(boot) - 2)
  BY <1>2, DescFrames
<1> QED BY <1>3, FramesType, SMTT(30) DEF frames, FrameIdx

(* What all steps have in common. *)
LEMMA Frame ==
  ASSUME IInv, [Next]_vars
  PROVE  /\ TypeOK /\ TypeOK' /\ boot \in Boots /\ boot' = boot
         /\ frames' = frames /\ FrameIdx' = FrameIdx /\ Grantable' = Grantable
         /\ ClientsFree' = ClientsFree
         /\ UsableFrames(boot') = UsableFrames(boot)
         /\ frames \in Nat \ {0} /\ 0 \in FrameIdx
<1>1. TypeOK /\ TypeOK' /\ boot \in Boots
  BY TypeNext DEF IInv, TypeOK
<1>2. boot' = boot /\ frames' = frames /\ FrameIdx' = FrameIdx
  BY BootFixed
<1> QED BY <1>1, <1>2, FramesType DEF Grantable, ClientsFree

(* The constructor. *)
LEMMA ConstructStep == IInv /\ Construct => IInv'
<1> SUFFICES ASSUME IInv, Construct PROVE IInv'
  OBVIOUS
<1>1. [Next]_vars
  BY DEF Next, Allocator
<1>2. /\ TypeOK /\ TypeOK' /\ boot \in Boots /\ boot' = boot
      /\ frames' = frames /\ FrameIdx' = FrameIdx /\ Grantable' = Grantable
      /\ ClientsFree' = ClientsFree
      /\ UsableFrames(boot') = UsableFrames(boot)
      /\ frames \in Nat \ {0} /\ 0 \in FrameIdx
  BY <1>1, Frame
<1>3. /\ pc \in Ctor \ {"ctor_panic"}
      /\ pc' \in Ctor \cup {"ready"} /\ pc' # "new"
      /\ last_free_idx' = last_free_idx /\ held' = held /\ intact' = intact
      /\ pc' = "ready" => pc = "ctor_assert"
  BY DEF Construct, InitBitmap, LockAll, FreeUsable, LockNull, LockStack,
         LockBitmap, CtorAssert, Ctor
<1>4. /\ intact = TRUE /\ last_free_idx = 0
      /\ \A f \in FrameIdx : held[f] = 0
      /\ pc # "new" => Counted
  BY <1>3 DEF IInv, CtorInv
<1>5. HintInv' /\ RunInv'
  BY <1>2, <1>3, <1>4, SMTT(30) DEF HintInv, RunInv, FrameIdx, Ctor
<1>6. CtorInv' /\ (pc' # "ctor_panic" => Counted') /\ (pc' = "ready" => FreeSet' \subseteq Grantable')
  <2> SUFFICES /\ pc' = "lock_all" => i' <= frames /\ \A f \in FrameIdx : f < i' => bitmap'[f] = TRUE
               /\ pc' = "free_usable" => i' >= 1
               /\ pc' \in {"free_usable", "lock_null", "lock_stack"}
                    => FreeSet' \subseteq UsableFrames(boot)
               /\ pc' = "lock_stack" => bitmap'[0] = TRUE
               /\ pc' \in {"lock_bitmap", "ctor_assert", "ready"} => FreeSet' \subseteq Grantable
               /\ pc' # "ctor_panic" => Counted'
    BY <1>2, <1>3, <1>4 DEF CtorInv
  <2>1. CASE InitBitmap
    <3>1. CASE pc' = "lock_all"
      <4>1. free_frames' = frames /\ locked_frames' = 0 /\ i' = 0 /\ bitmap' = [f \in FrameIdx |-> FALSE]
        BY <2>1, <3>1 DEF InitBitmap
      <4>2. FreeSet' = FrameIdx
        BY <1>2, <4>1 DEF FreeSet
      <4>3. Cardinality(FrameIdx) = frames
        BY <1>2, FS_Interval, SMTT(30) DEF FrameIdx
      <4>4. Counted'
        BY <1>2, <4>1, <4>2, <4>3, SMTT(30) DEF Counted
      <4> QED BY <1>2, <3>1, <4>1, <4>4, SMTT(30) DEF FrameIdx
    <3>2. CASE pc' = "ctor_panic"
      BY <3>2
    <3> QED BY <2>1, <3>1, <3>2 DEF InitBitmap
  <2>2. CASE LockAll
    <3>1. pc = "lock_all" /\ i <= frames /\ \A f \in FrameIdx : f < i => bitmap[f] = TRUE
      BY <2>2 DEF LockAll, IInv, CtorInv
    <3>2. CASE i < frames
      <4>1. i \in FrameIdx /\ lock_frame(i) /\ i' = i + 1 /\ pc' = "lock_all"
        BY <1>2, <2>2, <3>1, <3>2, SMTT(30) DEF LockAll, TypeOK, FrameIdx
      <4>2. bitmap' = [bitmap EXCEPT ![i] = TRUE] /\ Counted'
        BY <1>2, <1>4, <3>1, <4>1, LockFrame
      <4>3. i \in Nat /\ bitmap \in [FrameIdx -> BOOLEAN]
        BY <1>2 DEF TypeOK
      <4>4. \A f \in FrameIdx : f < i' => bitmap'[f] = TRUE
        BY <3>1, <4>1, <4>2, <4>3, SMTT(30) DEF FrameIdx
      <4> QED BY <1>2, <3>2, <4>1, <4>2, <4>3, <4>4, SMTT(30)
    <3>3. CASE ~ (i < frames)
      <4>1. pc' = "free_usable" /\ i' = 1 /\ UNCHANGED <<bitmap, free_frames, locked_frames>>
        BY <2>2, <3>3 DEF LockAll, pmem
      <4>2. FreeSet = {}
        <5>1. \A f \in FrameIdx : f < i
          BY <1>2, <3>3, SMTT(30) DEF FrameIdx, TypeOK
        <5> QED BY <3>1, <5>1 DEF FreeSet
      <4>3. FreeSet' = {}
        BY <1>2, <4>1, <4>2 DEF FreeSet
      <4>4. Counted'
        BY <1>2, <1>4, <3>1, <4>1, <4>2, <4>3 DEF Counted
      <4> QED BY <4>1, <4>3, <4>4, SMTT(30)
    <3> QED BY <3>2, <3>3
  <2>3. CASE FreeUsable
    <3>1. /\ pc = "free_usable" /\ i >= 1 /\ FreeSet \subseteq UsableFrames(boot) /\ Counted
          /\ pc' \in {"free_usable", "lock_null"}
      BY <1>4, <2>3 DEF FreeUsable, IInv, CtorInv
    <3>2. CASE UNCHANGED pmem
      <4>1. FreeSet' = FreeSet /\ Counted'
        BY <1>2, <3>1, <3>2 DEF pmem, FreeSet, Counted
      <4>2. i' >= 1
        BY <1>2, <2>3, <3>1, SMTT(30) DEF FreeUsable, TypeOK
      <4> QED BY <1>2, <3>1, <4>1, <4>2
    <3>3. CASE /\ i <= Len(boot.mmap)
               /\ is_usable_memory(boot.mmap[i]) /\ n < boot.mmap[i].pages
               /\ free_frame(desc_frame_idx(boot.mmap[i], n))
               /\ n' = n + 1 /\ UNCHANGED <<i, pc>>
      <4> DEFINE idx == desc_frame_idx(boot.mmap[i], n)
      <4>1. WellFormedBoot(boot)
        BY <1>2, PMemAssumption
      <4>2. i \in 1..Len(boot.mmap) /\ boot.mmap[i] \in EfiMMapDesc
        <5>1. boot.mmap \in Seq(EfiMMapDesc)
          BY <4>1 DEF WellFormedBoot
        <5>2. i \in Nat /\ i >= 1 /\ i <= Len(boot.mmap)
          BY <1>2, <3>1, <3>3 DEF TypeOK
        <5>3. i \in 1..Len(boot.mmap)
          BY <5>1, <5>2, SMTT(30)
        <5> QED BY <5>1, <5>3, SMTT(30)
      <4>3. n \in 0..(boot.mmap[i].pages - 1)
        <5>1. n \in Nat /\ n < boot.mmap[i].pages
          BY <1>2, <3>3 DEF TypeOK
        <5>2. boot.mmap[i].pages \in Nat
          BY <4>2 DEF EfiMMapDesc
        <5> QED BY <5>1, <5>2, SMTT(30)
      <4>4. idx \in 0..(FramesOf(boot) - 2)
        BY <1>2, <4>2, <4>3, DescFrames
      <4>5. idx \in FrameIdx /\ idx \in UsableFrames(boot)
        <5>1. FramesOf(boot) \in Nat \ {0}
          BY <1>2, BootFrames
        <5>2. idx \in 0..(FramesOf(boot) - 1)
          BY <4>4, <5>1, SMTT(30)
        <5>3. is_usable_memory(boot.mmap[i])
          BY <3>3
        <5>4. idx \in UsableFrames(boot)
          BY <4>2, <4>3, <5>2, <5>3 DEF UsableFrames
        <5> QED BY <5>2, <5>4 DEF FrameIdx, frames
      <4> HIDE DEF idx
      <4>6. FreeSet' = FreeSet \cup {idx} /\ Counted'
        <5>1. free_frame(idx)
          BY <3>3 DEF idx
        <5> QED BY <1>2, <3>1, <4>5, <5>1, FreeOneFrame
      <4> QED BY <3>1, <3>3, <4>5, <4>6
    <3> QED BY <2>3, <3>2, <3>3 DEF FreeUsable, pmem
  <2>4. CASE LockNull
    <3>1. pc = "lock_null" /\ pc' = "lock_stack" /\ FreeSet \subseteq UsableFrames(boot) /\ lock_frame(0)
      BY <2>4 DEF LockNull, IInv, CtorInv
    <3>2. FreeSet' = FreeSet \ {0} /\ Counted' /\ bitmap' = [bitmap EXCEPT ![0] = TRUE]
      BY <1>2, <1>4, <3>1, LockFrame
    <3>3. bitmap'[0] = TRUE
      BY <1>2, <3>2 DEF TypeOK
    <3> QED BY <3>1, <3>2, <3>3
  <2>5. CASE LockStack
    <3> DEFINE idx == ptr_to_frame_idx(boot.stack)
    <3>1. /\ pc = "lock_stack" /\ pc' = "lock_bitmap" /\ FreeSet \subseteq UsableFrames(boot)
          /\ lock_frame(idx) /\ bitmap[0] = TRUE
      BY <2>5 DEF LockStack, IInv, CtorInv
    <3>2. idx \in FrameIdx
      BY <1>2, BootFrames DEF frames, FrameIdx
    <3>3. FreeSet' = FreeSet \ {idx} /\ Counted'
      BY <1>2, <1>4, <3>1, <3>2, LockFrame
    <3>4. 0 \notin FreeSet
      BY <3>1 DEF FreeSet
    <3> QED BY <3>1, <3>3, <3>4 DEF Grantable
  <2>6. CASE LockBitmap
    <3>1. pc = "lock_bitmap" /\ pc' \in {"lock_bitmap", "ctor_assert"} /\ FreeSet \subseteq Grantable
      BY <2>6 DEF LockBitmap, IInv, CtorInv
    <3>2. CASE UNCHANGED pmem
      <4>1. FreeSet' = FreeSet /\ Counted'
        BY <1>2, <1>4, <3>1, <3>2 DEF pmem, FreeSet, Counted
      <4> QED BY <3>1, <4>1
    <3>3. CASE /\ i < bitmap_mem_size(boot) \div FRAME_SZ
               /\ lock_frame(ptr_to_frame_idx(boot.buf) + i)
      <4> DEFINE idx == ptr_to_frame_idx(boot.buf) + i
                 len == bitmap_mem_size(boot) \div FRAME_SZ
      <4>1. ptr_to_frame_idx(boot.buf) + len < FramesOf(boot)
        BY <1>2, PMemAssumption DEF WellFormedBoot
      <4>2. ptr_to_frame_idx(boot.buf) \in Nat /\ len \in Nat
        BY <1>2, BootFrames
      <4>3. i \in Nat /\ FramesOf(boot) \in Nat
        <5>1. i \in Nat
          BY <1>2 DEF TypeOK
        <5>2. FramesOf(boot) \in Nat
          BY <1>2, BootFrames
        <5> QED BY <5>1, <5>2
      <4> HIDE DEF len
      <4>4. i < len
        BY <3>3 DEF len
      <4>5. idx \in FrameIdx
        BY <4>1, <4>2, <4>3, <4>4, SMTT(30) DEF FrameIdx, frames
      <4> HIDE DEF idx
      <4>6. lock_frame(idx)
        BY <3>3 DEF idx
      <4>7. FreeSet' = FreeSet \ {idx} /\ Counted'
        BY <1>2, <1>4, <3>1, <4>5, <4>6, LockFrame
      <4> QED BY <3>1, <4>7
    <3> QED BY <2>6, <3>2, <3>3 DEF LockBitmap, pmem
  <2>7. CASE CtorAssert
    <3>1. pc = "ctor_assert" /\ pc' \in {"ready", "ctor_panic"} /\ FreeSet \subseteq Grantable
      BY <2>7 DEF CtorAssert, IInv, CtorInv
    <3>2. FreeSet' = FreeSet /\ Counted'
      BY <1>2, <1>4, <2>7, <3>1 DEF CtorAssert, pmem, FreeSet, Counted
    <3> QED BY <3>1, <3>2
  <2> QED BY <2>1, <2>2, <2>3, <2>4, <2>5, <2>6, <2>7 DEF Construct
<1>7. GrantInv'
  BY <1>2, <1>3, <1>4, <1>6, SMTT(30) DEF GrantInv, Ready, Ctor
<1> QED BY <1>2, <1>5, <1>6, <1>7 DEF IInv

(* Steps of a ready allocator: what follows from IInv, and what is left to *)
(* prove of IInv' while the bitmap is intact.                              *)
Serve ==
  \/ RequestFrame \/ RequestFrameScan \/ CallerAssert
  \/ \E num \in Requests : RequestFrames(num)
  \/ RequestFramesScan \/ RequestFramesAssert \/ RequestFramesLock \/ RequestFramesReturn
  \/ \E f \in FrameIdx : FreeFrame(f)

(* What the steps that serve a client have in common: types are kept, and  *)
(* the invariant follows from its four parts about a working allocator.    *)
LEMMA ServeFrame ==
  ASSUME IInv, Serve
  PROVE  /\ [Next]_vars
         /\ pc \in Ready \ {"panic"} /\ pc' \in Ready /\ intact' = intact
         /\ intact => Counted /\ GrantInv /\ HintInv /\ RunInv /\ FreeSet \subseteq Grantable
         /\ (intact => Counted' /\ GrantInv' /\ HintInv' /\ RunInv') => IInv'
<1>1. [Next]_vars
  BY DEF Serve, Next, Allocator, Client
<1>2. pc \in Ready \ {"panic"} /\ pc' \in Ready /\ intact' = intact
  BY DEF Serve, RequestFrame, RequestFrameScan, CallerAssert, RequestFrames,
     RequestFramesScan, RequestFramesAssert, RequestFramesLock, RequestFramesReturn,
     FreeFrame, Ready, IInv, TypeOK
<1>3. intact => Counted /\ GrantInv /\ HintInv /\ RunInv /\ FreeSet \subseteq Grantable
  BY <1>2 DEF IInv, Ready, GrantInv
<1>4. TypeOK'
  BY <1>1, Frame
<1>5. CtorInv'
  BY <1>2 DEF CtorInv, Ready, Ctor
<1> QED BY <1>1, <1>2, <1>3, <1>4, <1>5 DEF IInv

(* request_frame. *)
LEMMA RequestFrameStep ==
  IInv /\ (RequestFrame \/ RequestFrameScan \/ CallerAssert) => IInv'
<1> SUFFICES ASSUME IInv, RequestFrame \/ RequestFrameScan \/ CallerAssert, intact = TRUE
             PROVE  Counted' /\ GrantInv' /\ HintInv' /\ RunInv'
  BY ServeFrame DEF Serve, IInv, TypeOK
<1>1. /\ [Next]_vars /\ pc \in Ready \ {"panic"} /\ pc' \in Ready /\ intact' = intact
      /\ Counted /\ GrantInv /\ HintInv /\ RunInv /\ FreeSet \subseteq Grantable
  BY ServeFrame DEF Serve
<1>2. /\ TypeOK /\ TypeOK' /\ boot \in Boots /\ boot' = boot
      /\ frames' = frames /\ FrameIdx' = FrameIdx /\ Grantable' = Grantable
      /\ ClientsFree' = ClientsFree
      /\ frames \in Nat \ {0}
  BY <1>1, Frame
<1>3. CASE ~ (RequestFrameScan /\ i < frames /\ bitmap[i] = FALSE)
  <2>3. /\ UNCHANGED <<bitmap, free_frames, locked_frames, held, last_free_idx>>
        /\ pc' \in {"rf_scan", "returned_null", "panic"}
    BY <1>3 DEF RequestFrame, RequestFrameScan, CallerAssert, pmem
  <2>1. FreeSet' = FreeSet /\ Counted'
    BY <1>1, <1>2, <2>3 DEF FreeSet, Counted
  <2>2. GrantInv'
    BY <1>1, <1>2, <2>1, <2>3 DEF GrantInv
  <2>4. RunInv'
    BY <2>3 DEF RunInv
  <2>5. HintInv'
    <3>1. ~ClientsFree => \A f \in FrameIdx : f < last_free_idx => bitmap[f] = TRUE
      BY <1>1 DEF HintInv
    <3>2. CASE RequestFrame
      <4>1. /\ pc' = "rf_scan" => i' = last_free_idx /\ free_frames > 0
            /\ last_free_idx \in Nat
        BY <1>2, <3>2, SMTT(30) DEF RequestFrame, TypeOK, FrameIdx
      <4>2. last_free_idx..(last_free_idx - 1) = {}
        BY <4>1, SMTT(30)
      <4>3. pc' \in {"rf_scan", "panic"}
        BY <3>2 DEF RequestFrame
      <4> QED BY <1>2, <2>3, <3>1, <4>1, <4>2, <4>3, SMTT(30) DEF HintInv
    <3>3. CASE CallerAssert
      BY <1>2, <2>3, <3>1, <3>3 DEF HintInv, CallerAssert
    <3>4. CASE RequestFrameScan
      <4>1. /\ pc = "rf_scan" /\ i >= last_free_idx /\ free_frames > 0
            /\ \A f \in last_free_idx..(i - 1) : f \in FrameIdx => bitmap[f] = TRUE
        BY <1>1, <3>4 DEF RequestFrameScan, HintInv
      <4>2. i \in Nat /\ last_free_idx \in Nat /\ ClientsFree \in BOOLEAN
        <5>1. WellFormedBoot(boot)
          BY <1>2, PMemAssumption
        <5> QED BY <1>2, <5>1, SMTT(30) DEF TypeOK, FrameIdx, ClientsFree, WellFormedBoot
      <4>3. CASE i < frames /\ bitmap[i] = TRUE /\ i' = i + 1 /\ pc' = "rf_scan"
        BY <1>2, <2>3, <3>1, <4>1, <4>2, <4>3, SMTT(30) DEF HintInv
      <4>4. CASE i >= frames /\ pc' = "returned_null"
        <5>1. ASSUME ~ClientsFree PROVE FALSE
          <6>1. \A f \in FrameIdx : bitmap[f] = TRUE
            BY <1>2, <3>1, <4>1, <4>2, <4>4, <5>1, SMTT(30) DEF FrameIdx
          <6>2. FreeSet = {}
            BY <6>1 DEF FreeSet
          <6> QED BY <1>1, <4>1, <6>2, FS_EmptySet, SMTT(30) DEF Counted
        <5> QED BY <1>2, <2>3, <3>1, <4>2, <4>4, <5>1 DEF HintInv
      <4> QED BY <1>3, <3>4, <4>1, <4>3, <4>4 DEF RequestFrameScan
    <3> QED BY <3>2, <3>3, <3>4
  <2> QED BY <2>1, <2>2, <2>4, <2>5
<1>4. CASE RequestFrameScan /\ i < frames /\ bitmap[i] = FALSE
  <2>1. i \in FrameIdx /\ i \in Nat /\ pc = "rf_scan"
    BY <1>2, <1>4, SMTT(30) DEF TypeOK, FrameIdx, RequestFrameScan
  <2>2. /\ lock_frame(i) /\ last_free_idx' = i /\ pc' = "ready"
        /\ held' = [held EXCEPT ![i] = @ + 1]
    <3>1. ~(i >= frames)
      BY <1>2, <1>4, <2>1, SMT
    <3>2. ~(bitmap[i] = TRUE)
      BY <1>4
    <3> QED BY <1>4, <3>1, <3>2 DEF RequestFrameScan
  <2>3. FreeSet' = FreeSet \ {i} /\ Counted' /\ bitmap' = [bitmap EXCEPT ![i] = TRUE]
    BY <1>1, <1>2, <2>1, <2>2, LockFrame
  <2>4. i \in FreeSet /\ i \in Grantable
    BY <1>1, <1>4, <2>1 DEF FreeSet
  <2>5. GrantInv'
    <3>1. \A f \in FrameIdx : held[f] <= 1 /\ (held[f] = 1 => bitmap[f] = TRUE /\ f \in Grantable)
      BY <1>1 DEF GrantInv
    <3>2. held \in [FrameIdx -> Nat] /\ bitmap \in [FrameIdx -> BOOLEAN]
      BY <1>2 DEF TypeOK
    <3>3. held[i] = 0
      BY <1>4, <2>1, <3>1, <3>2, SMTT(30)
    <3>4. \A f \in FrameIdx :
            held'[f] <= 1 /\ (held'[f] = 1 => bitmap'[f] = TRUE /\ f \in Grantable)
      BY <2>1, <2>2, <2>3, <2>4, <3>1, <3>2, <3>3, SMTT(30)
    <3> QED BY <1>1, <1>2, <2>3, <3>4 DEF GrantInv
  <2>6. HintInv'
    <3>1. /\ ~ClientsFree => \A f \in FrameIdx : f < last_free_idx => bitmap[f] = TRUE
          /\ \A f \in last_free_idx..(i - 1) : f \in FrameIdx => bitmap[f] = TRUE
      BY <1>1, <2>1 DEF HintInv
    <3>2. last_free_idx \in Nat /\ bitmap \in [FrameIdx -> BOOLEAN]
      BY <1>2, SMTT(30) DEF TypeOK, FrameIdx
    <3>3. ASSUME ~ClientsFree, NEW f \in FrameIdx, f < i PROVE bitmap'[f] = TRUE
      BY <2>1, <2>3, <3>1, <3>2, <3>3, SMTT(30) DEF FrameIdx
    <3> QED BY <1>2, <2>2, <3>3 DEF HintInv
  <2>7. RunInv'
    BY <2>2 DEF RunInv
  <2> QED BY <2>3, <2>5, <2>6, <2>7
<1> QED BY <1>3, <1>4

(* request_frames up to its assertions: the bitmap does not change. *)
LEMMA SearchStep ==
  IInv /\ ((\E num \in Requests : RequestFrames(num)) \/ RequestFramesScan \/ RequestFramesAssert)
    => IInv'
<1> SUFFICES ASSUME IInv, intact = TRUE,
                    \/ \E num \in Requests : RequestFrames(num)
                    \/ RequestFramesScan \/ RequestFramesAssert
             PROVE  Counted' /\ GrantInv' /\ HintInv' /\ RunInv'
  BY ServeFrame DEF Serve, IInv, TypeOK
<1>1. /\ [Next]_vars /\ pc \in Ready \ {"panic"} /\ pc' \in Ready /\ intact' = intact
      /\ Counted /\ GrantInv /\ HintInv /\ RunInv /\ FreeSet \subseteq Grantable
  BY ServeFrame DEF Serve
<1>2. /\ TypeOK /\ TypeOK' /\ boot \in Boots /\ boot' = boot
      /\ frames' = frames /\ FrameIdx' = FrameIdx /\ Grantable' = Grantable
      /\ ClientsFree' = ClientsFree
      /\ frames \in Nat \ {0} /\ frames < SIZE_MOD /\ SIZE_MOD \in Nat
  BY <1>1, Frame, FramesType, PMemAssumption
<1>3. /\ UNCHANGED <<bitmap, free_frames, locked_frames, held, last_free_idx>>
      /\ pc' \in {"rfs_scan", "rfs_assert", "rfs_lock", "panic"}
  BY DEF RequestFrames, RequestFramesScan, RequestFramesAssert, pmem
<1>4. FreeSet' = FreeSet /\ Counted'
  BY <1>1, <1>2, <1>3 DEF FreeSet, Counted
<1>5. GrantInv' /\ HintInv'
  BY <1>1, <1>2, <1>3, <1>4 DEF GrantInv, HintInv
<1>6. \A f \in FreeSet : f \in FrameIdx /\ f < frames - 1 /\ held[f] = 0
  <2>1. \A f \in FreeSet : f \in FrameIdx /\ f < frames - 1
    BY <1>1, <1>2, SpareFrame
  <2>2. \A f \in FrameIdx : held[f] \in Nat /\ held[f] <= 1 /\ (held[f] = 1 => bitmap[f] = TRUE)
    BY <1>1, <1>2 DEF GrantInv, TypeOK
  <2> QED BY <2>1, <2>2, SMTT(30) DEF FreeSet
<1>7. i \in Nat /\ number \in Nat /\ free_start_idx \in Nat /\ free_end_idx \in Nat
  BY <1>2, SMTT(30) DEF TypeOK, FrameIdx
<1>8. RunInv'
  <2>1. ASSUME NEW num \in Requests, RequestFrames(num) PROVE RunInv'
    <3>1. num \in Nat /\ num > 0
      BY PMemAssumption, SMTT(30)
    <3> QED BY <2>1, <3>1, SMTT(30) DEF RequestFrames, RunInv
  <2>2. CASE RequestFramesScan
    <3>1. /\ pc = "rfs_scan" /\ number > 0 /\ number' = number
          /\ free_start_idx > 0 =>
               /\ free_start_idx < i /\ i <= frames /\ i - free_start_idx <= number
               /\ free_end_idx = i - 1
               /\ free_start_idx..free_end_idx \subseteq FreeSet
      BY <1>1, <2>2 DEF RequestFramesScan, RunInv
    <3>2. CASE /\ i < frames /\ free_start_idx > 0 /\ i - free_start_idx = number
               /\ free_end_idx' = i - 1 /\ pc' = "rfs_assert" /\ UNCHANGED <<free_start_idx, i>>
      BY <1>4, <1>7, <3>1, <3>2, SMTT(30) DEF RunInv
    <3>3. CASE /\ i < frames /\ free_start_idx > 0 /\ i - free_start_idx # number
               /\ bitmap[i] = FALSE /\ free_end_idx' = i
               /\ i' = i + 1 /\ UNCHANGED <<free_start_idx, pc>>
      <4>1. i \in FreeSet
        BY <1>2, <1>7, <3>3, SMTT(30) DEF FreeSet, FrameIdx
      <4>2. free_start_idx..i \subseteq FreeSet
        BY <1>7, <3>1, <3>3, <4>1, SMTT(30)
      <4> QED BY <1>2, <1>4, <1>7, <3>1, <3>3, <4>2, SMTT(30) DEF RunInv
    <3>4. CASE free_start_idx' = 0 /\ pc' = pc
      BY <3>1, <3>4, SMTT(30) DEF RunInv
    <3>5. CASE /\ i < frames /\ free_start_idx = 0 /\ bitmap[i] = FALSE
               /\ free_start_idx' = i /\ free_end_idx' = i
               /\ i' = i + 1 /\ UNCHANGED pc
      <4>1. i \in FreeSet
        BY <1>2, <1>7, <3>5, SMTT(30) DEF FreeSet, FrameIdx
      <4>2. i..i \subseteq FreeSet
        BY <1>7, <4>1, SMTT(30)
      <4> QED BY <1>2, <1>4, <1>7, <3>1, <3>5, <4>2, SMTT(30) DEF RunInv
    <3>6. CASE i >= frames /\ pc' = "rfs_assert" /\ UNCHANGED <<free_start_idx, free_end_idx, i>>
      <4>1. ASSUME free_start_idx > 0 PROVE FALSE
        <5>1. i = frames /\ free_end_idx = frames - 1 /\ free_end_idx \in FreeSet
          BY <1>2, <1>7, <3>1, <3>6, <4>1, SMTT(30)
        <5> QED BY <1>2, <1>6, <5>1, SMTT(30)
      <4> QED BY <3>1, <3>6, <4>1 DEF RunInv
    <3> QED BY <2>2, <3>2, <3>3, <3>4, <3>5, <3>6 DEF RequestFramesScan
  <2>3. CASE RequestFramesAssert
    <3>1. /\ pc = "rfs_assert" /\ number > 0 /\ UNCHANGED <<number, free_start_idx, free_end_idx>>
          /\ free_start_idx > 0 =>
               /\ free_end_idx = free_start_idx + number - 1
               /\ free_start_idx..free_end_idx \subseteq FreeSet
      BY <1>1, <2>3 DEF RequestFramesAssert, RunInv, search
    <3>2. CASE pc' = "panic"
      BY <3>1, <3>2 DEF RunInv
    <3>3. CASE free_start_idx > 0 /\ pc' = "rfs_lock" /\ i' = free_start_idx
      <4>1. free_end_idx \in FreeSet
        BY <1>7, <3>1, <3>3, SMTT(30)
      <4>2. free_end_idx < frames
        BY <1>2, <1>6, <1>7, <4>1, SMTT(30)
      <4>3. free_start_idx..(i' - 1) = {}
        BY <1>7, <3>3, SMTT(30)
      <4>4. \A f \in free_start_idx..free_end_idx : held[f] = 0 /\ f \in Grantable
        BY <1>1, <1>6, <3>1, <3>3
      <4>5. number' > 0 /\ free_start_idx' <= i' /\ i' <= free_end_idx' + 1
        BY <1>7, <3>1, <3>3, SMTT(30)
      <4> QED BY <1>2, <1>3, <1>4, <3>1, <3>3, <4>2, <4>3, <4>4, <4>5 DEF RunInv
    <3> QED BY <2>3, <3>2, <3>3 DEF RequestFramesAssert, RunAsserted
  <2> QED BY <2>1, <2>2, <2>3
<1> QED BY <1>4, <1>5, <1>8

(* The loop that locks the run, and the return. *)
LEMMA LockRunStep == IInv /\ (RequestFramesLock \/ RequestFramesReturn) => IInv'
<1> SUFFICES ASSUME IInv, intact = TRUE, RequestFramesLock \/ RequestFramesReturn
             PROVE  Counted' /\ GrantInv' /\ HintInv' /\ RunInv'
  BY ServeFrame DEF Serve, IInv, TypeOK
<1>1. /\ [Next]_vars /\ Counted /\ GrantInv /\ HintInv /\ RunInv /\ FreeSet \subseteq Grantable
  BY ServeFrame DEF Serve
<1>2. /\ TypeOK /\ TypeOK' /\ boot \in Boots /\ boot' = boot
      /\ frames' = frames /\ FrameIdx' = FrameIdx /\ Grantable' = Grantable
      /\ ClientsFree' = ClientsFree
      /\ frames \in Nat \ {0}
  BY <1>1, Frame
<1>3. /\ i \in Nat /\ number \in Nat /\ free_start_idx \in Nat /\ free_end_idx \in Nat
      /\ bitmap \in [FrameIdx -> BOOLEAN] /\ held \in [FrameIdx -> Nat]
  <2>1. \A k \in FrameIdx : k \in Nat
    BY <1>2, SMTT(30) DEF FrameIdx
  <2> QED BY <1>2, <2>1 DEF TypeOK
<1>4. pc = "rfs_lock"
  BY DEF RequestFramesLock, RequestFramesReturn
<1>5. /\ number > 0 /\ free_start_idx > 0 /\ free_end_idx = free_start_idx + number - 1
      /\ free_end_idx < frames /\ free_start_idx <= i /\ i <= free_end_idx + 1
      /\ i..free_end_idx \subseteq FreeSet
      /\ \A f \in free_start_idx..free_end_idx : held[f] = 0 /\ f \in Grantable
      /\ \A f \in free_start_idx..(i - 1) : bitmap[f] = TRUE
  BY <1>1, <1>4 DEF RunInv
<1>6. /\ \A f \in FrameIdx : held[f] <= 1 /\ (held[f] = 1 => bitmap[f] = TRUE /\ f \in Grantable)
      /\ ~ClientsFree => \A f \in FrameIdx : f < last_free_idx => bitmap[f] = TRUE
  BY <1>1 DEF GrantInv, HintInv
<1>7. CASE RequestFramesLock
  <2>1. /\ i <= free_end_idx /\ lock_frame(i) /\ i' = i + 1 /\ pc' = "rfs_lock"
        /\ UNCHANGED <<last_free_idx, number, free_start_idx, free_end_idx, held>>
    BY <1>4, <1>7 DEF RequestFramesLock, search
  <2>2. i \in FrameIdx
    BY <1>2, <1>3, <1>5, <2>1, SMTT(30) DEF FrameIdx
  <2>3. FreeSet' = FreeSet \ {i} /\ Counted' /\ bitmap' = [bitmap EXCEPT ![i] = TRUE]
    BY <1>1, <1>2, <2>1, <2>2, LockFrame
  <2>4. GrantInv'
    BY <1>1, <1>2, <1>3, <1>6, <2>1, <2>3 DEF GrantInv
  <2>5. HintInv'
    BY <1>2, <1>3, <1>6, <2>1, <2>3 DEF HintInv
  <2>6. RunInv'
    <3>1. (i + 1)..free_end_idx \subseteq FreeSet \ {i}
      BY <1>3, <1>5, SMTT(30)
    <3>2. \A f \in free_start_idx..i : bitmap'[f] = TRUE
      <4>1. \A f \in free_start_idx..i : f \in FrameIdx /\ (f = i \/ f \in free_start_idx..(i - 1))
        BY <1>2, <1>3, <1>5, <2>1, SMTT(30) DEF FrameIdx
      <4> QED BY <1>3, <1>5, <2>3, <4>1
    <3>3. i' - 1 = i /\ free_start_idx' <= i' /\ i' <= free_end_idx' + 1
      BY <1>3, <1>5, <2>1, SMTT(30)
    <3> QED BY <1>2, <1>5, <2>1, <2>3, <3>1, <3>2, <3>3 DEF RunInv
  <2> QED BY <2>3, <2>4, <2>5, <2>6
<1>8. CASE RequestFramesReturn
  <2>1. /\ i > free_end_idx /\ held' = Granted /\ pc' = "ready"
        /\ UNCHANGED <<bitmap, free_frames, locked_frames, last_free_idx>>
    BY <1>8 DEF RequestFramesReturn, pmem
  <2>2. FreeSet' = FreeSet /\ Counted'
    BY <1>1, <1>2, <2>1 DEF FreeSet, Counted
  <2>3. free_start_idx..free_end_idx = free_start_idx..(i - 1)
    BY <1>3, <1>5, <2>1, SMTT(30)
  <2>4. \A f \in FrameIdx : held'[f] <= 1 /\ (held'[f] = 1 => bitmap[f] = TRUE /\ f \in Grantable)
    BY <1>3, <1>5, <1>6, <2>1, <2>3, SMTT(30) DEF Granted
  <2>5. GrantInv'
    BY <1>1, <1>2, <2>1, <2>2, <2>4 DEF GrantInv
  <2>6. HintInv' /\ RunInv'
    BY <1>2, <1>6, <2>1 DEF HintInv, RunInv
  <2> QED BY <2>2, <2>5, <2>6
<1> QED BY <1>7, <1>8

(* free_frame by the holder of a frame. *)
LEMMA FreeFrameStep == ASSUME IInv, NEW f \in FrameIdx, FreeFrame(f) PROVE IInv'
<1>1. /\ [Next]_vars /\ intact = TRUE /\ Counted /\ GrantInv /\ HintInv /\ RunInv
      /\ FreeSet \subseteq Grantable
  BY ServeFrame DEF Serve, FreeFrame, IInv, TypeOK
<1>2. /\ TypeOK /\ TypeOK' /\ boot \in Boots /\ boot' = boot
      /\ frames' = frames /\ FrameIdx' = FrameIdx /\ Grantable' = Grantable
      /\ ClientsFree' = ClientsFree
  BY <1>1, Frame
<1>3. /\ ClientsFree /\ pc = "ready" /\ pc' = "ready" /\ held[f] > 0 /\ free_frame(f)
      /\ held' = [held EXCEPT ![f] = @ - 1] /\ last_free_idx' = last_free_idx
  BY DEF FreeFrame
<1>4. FreeSet' = FreeSet \cup {f} /\ Counted' /\ bitmap' = [bitmap EXCEPT ![f] = FALSE]
  BY <1>1, <1>2, <1>3, FreeOneFrame
<1>5. held \in [FrameIdx -> Nat] /\ bitmap \in [FrameIdx -> BOOLEAN]
  BY <1>2 DEF TypeOK
<1>6. \A g \in FrameIdx : held[g] <= 1 /\ (held[g] = 1 => bitmap[g] = TRUE /\ g \in Grantable)
  BY <1>1 DEF GrantInv
<1>7. held[f] = 1 /\ f \in Grantable
  BY <1>3, <1>5, <1>6, SMTT(30)
<1>8. \A g \in FrameIdx : held'[g] <= 1 /\ (held'[g] = 1 => bitmap'[g] = TRUE /\ g \in Grantable)
  BY <1>3, <1>4, <1>5, <1>6, <1>7, SMTT(30)
<1>9. GrantInv'
  BY <1>1, <1>2, <1>3, <1>4, <1>7, <1>8 DEF GrantInv
<1>10. HintInv' /\ RunInv'
  BY <1>2, <1>3 DEF HintInv, RunInv
<1> QED BY <1>4, <1>9, <1>10, ServeFrame DEF Serve

(* Every step of the allocator and of its clients keeps the inductive      *)
(* invariant.                                                              *)
LEMMA IInvNext == IInv /\ [Next]_vars => IInv'
<1> SUFFICES ASSUME IInv, [Next]_vars PROVE IInv'
  OBVIOUS
<1>1. ASSUME NEW f \in FrameIdx, ZeroFrame(f) PROVE IInv'
  <2>1. intact' = FALSE /\ pc' = "ready"
    BY <1>1 DEF ZeroFrame
  <2>2. CtorInv'
    BY <2>1 DEF CtorInv, Ctor
  <2> QED BY <2>1, <2>2, Frame DEF IInv
<1>2. CASE UNCHANGED vars \/ Spin
  <2>1. UNCHANGED vars
    BY <1>2 DEF Spin
  <2>2. /\ frames' = frames /\ FrameIdx' = FrameIdx /\ Grantable' = Grantable
        /\ ClientsFree' = ClientsFree
        /\ FreeSet' = FreeSet /\ TypeOK'
    BY <2>1, Frame DEF FreeSet, vars, pmem
  <2>3. CtorInv' /\ (Counted => Counted')
    BY <2>1, <2>2 DEF IInv, CtorInv, Counted, vars, pmem
  <2>4. (GrantInv => GrantInv') /\ (HintInv => HintInv') /\ (RunInv => RunInv')
    BY <2>1, <2>2 DEF GrantInv, HintInv, RunInv, vars, pmem, search
  <2> QED BY <2>1, <2>2, <2>3, <2>4 DEF IInv, vars
<1> QED BY <1>1, <1>2, ConstructStep, RequestFrameStep, SearchStep, LockRunStep, FreeFrameStep
     DEF Next, Allocator, Client

(* The inductive invariant, from which the safety properties of request_   *)
(* frame and request_frames follow, holds in every reachable state.        *)
THEOREM Inductive == Spec => []IInv
  BY IInvInit, IInvNext, PTL DEF Spec

-----------------------------------------------------------------------------
(* The properties of PMem, for every machine.                              *)

(* Both counters are exact in every state after __init_bitmap. *)
THEOREM CountersCorrect == Spec => []CountersMatchBitmap
<1>1. IInv => CountersMatchBitmap
  BY DEF IInv, Counted, CountersMatchBitmap
<1> QED BY <1>1, Inductive, PTL

(* request_frame and request_frames never hand out a frame that is held. *)
THEOREM GrantsExclusive == Spec => []ExclusiveGrants
<1>1. IInv => ExclusiveGrants
  BY DEF IInv, GrantInv, ExclusiveGrants
<1> QED BY <1>1, Inductive, PTL

(* Only usable RAM is handed out, never frame 0 and never the stack frame. *)
THEOREM GrantsUsable == Spec => []OnlyUsableGranted
<1>1. IInv => OnlyUsableGranted
  <2> SUFFICES ASSUME IInv, intact, NEW f \in FrameIdx, held[f] > 0
               PROVE  /\ f \in UsableFrames(boot)
                      /\ f # 0 /\ f # ptr_to_frame_idx(boot.stack)
    BY DEF OnlyUsableGranted
  <2>1. held[f] \in Nat
    BY DEF IInv, TypeOK
  <2>2. held[f] = 1
    BY <2>1, SMTT(30) DEF IInv, GrantInv
  <2>3. f \in Grantable
    BY <2>2 DEF IInv, GrantInv
  <2> QED BY <2>3 DEF Grantable
<1> QED BY <1>1, Inductive, PTL

(* request_frames returns exactly the run of frames it was asked for. *)
THEOREM RunsExact == Spec => []RunExact
<1>1. IInv => RunExact
  BY DEF IInv, RunInv, RunExact
<1> QED BY <1>1, Inductive, PTL

(* request_frame does not return nullptr unless a client frees frames. *)
THEOREM NoNullResult == Spec => []NeverReturnsNull
<1>1. IInv => NeverReturnsNull
  BY DEF IInv, HintInv, NeverReturnsNull
<1> QED BY <1>1, Inductive, PTL

-----------------------------------------------------------------------------
(* The refinement mapping of PMem, spelled out for every value of pc. *)
Mapping ==
  /\ pc \in Ctor \ {"ctor_panic"} => Phase = "closed" /\ Asked = 0 /\ Available = {}
  /\ pc = "ctor_panic" => Phase = "dead" /\ Asked = 0 /\ Available = {}
  /\ pc = "ready" => Phase = "idle" /\ Asked = 0 /\ Available = FreeSet
  /\ pc = "panic" => Phase = "dead" /\ Asked = 0 /\ Available = FreeSet
  /\ pc \in {"rf_scan", "returned_null"} =>
       Phase = "asked" /\ Asked = 1 /\ Available = FreeSet
  /\ pc \in {"rfs_scan", "rfs_assert"} =>
       Phase = "asked" /\ Asked = number /\ Available = FreeSet
  /\ pc = "rfs_lock" =>
       /\ Phase = "asked" /\ Asked = number
       /\ Available = FreeSet \cup (free_start_idx..free_end_idx)

(* The mapping has these values in both states of a step. *)
LEMMA MappingHolds == Mapping /\ Mapping'
<1>1. Mapping
  BY DEF Mapping, Phase, Asked, Available, Run, Ctor
<1>2. Mapping'
  BY DEF Mapping, Phase, Asked, Available, Run, Ctor
<1> QED BY <1>1, <1>2

(* A step of PMem that is no step of FrameAllocator leaves the mapped      *)
(* variables alone.                                                        *)
Stutter == UNCHANGED <<Phase, Asked, Available, Taken, intact>>

(* Such a step is a stuttering step of the promise. *)
LEMMA StutterMaps == Stutter => UNCHANGED Promise!fvars
  BY SMTT(30) DEF Stutter, Promise!fvars

(* Once the bitmap is overwritten every step is one of Chaos. *)
LEMMA ChaosMaps == ASSUME [Next]_vars, intact = FALSE PROVE Promise!Chaos
<1>1. intact' = FALSE
  BY DEF Next, vars, Allocator, Construct, Client, Spin, InitBitmap, LockAll,
     FreeUsable, LockNull, LockStack, LockBitmap, CtorAssert, RequestFrame,
     RequestFrameScan, CallerAssert, RequestFrames, RequestFramesScan,
     RequestFramesAssert, RequestFramesLock, RequestFramesReturn, FreeFrame, ZeroFrame
<1> QED BY <1>1 DEF Promise!Chaos

(* The constructor opens the allocator when its assertions hold, which     *)
(* make sure that some frame is available and that frame 0 is not.         *)
LEMMA ConstructMaps ==
  ASSUME IInv, Construct PROVE Promise!Open \/ Promise!Fail \/ Stutter
<1>1. /\ [Next]_vars /\ pc \in Ctor \ {"ctor_panic"} /\ intact' = intact /\ held' = held
      /\ (pc' \in Ctor \ {"ctor_panic"} \/ pc' = "ctor_panic" \/ CtorAssert)
  BY DEF Next, Allocator, Construct, InitBitmap, LockAll, FreeUsable, LockNull, LockStack,
     LockBitmap, CtorAssert, Ctor
<1>2. Taken' = Taken
  BY <1>1, Frame DEF Taken
<1>3. Phase = "closed" /\ Asked = 0 /\ Available = {}
  BY <1>1, MappingHolds DEF Mapping
<1>4. CASE pc' \in Ctor \ {"ctor_panic"}
  BY <1>1, <1>2, <1>3, <1>4, MappingHolds DEF Mapping, Stutter
<1>5. CASE pc' = "ctor_panic"
  <2>1. Phase' = "dead" /\ Asked' = 0 /\ Available' = {}
    BY <1>5, MappingHolds DEF Mapping
  <2> QED BY <1>1, <1>2, <1>3, <2>1 DEF Promise!Fail
<1>6. CASE CtorAssert /\ pc' = "ready"
  <2>1. pc = "ctor_assert" /\ free_frames > 0 /\ bitmap' = bitmap
    BY <1>6 DEF CtorAssert, pmem
  <2>2. intact = TRUE /\ Counted /\ FreeSet \subseteq Grantable /\ boot \in Boots
    BY <2>1 DEF IInv, CtorInv, Ctor, TypeOK
  <2>3. FreeSet' = FreeSet
    BY <1>1, <2>1, Frame DEF FreeSet
  <2>4. FreeSet # {}
    <3>1. Cardinality(FreeSet) > 0
      BY <2>1, <2>2 DEF Counted
    <3> QED BY <3>1, FS_EmptySet, SMTT(30)
  <2>5. FreeSet \subseteq Nat \ {0}
    <3>1. FrameIdx \subseteq Nat
      BY <1>1, Frame, SMTT(30) DEF FrameIdx
    <3> QED BY <2>2, <3>1 DEF Grantable, FreeSet
  <2>6. Phase' = "idle" /\ Asked' = 0 /\ Available' = FreeSet'
    BY <1>6, MappingHolds DEF Mapping
  <2> QED BY <1>1, <1>2, <1>3, <2>3, <2>4, <2>5, <2>6 DEF Promise!Open
<1> QED BY <1>1, <1>4, <1>5, <1>6 DEF CtorAssert

(* While a request is served and the bitmap is intact. *)
LEMMA ServeFacts ==
  ASSUME IInv, Serve, intact = TRUE
  PROVE  /\ [Next]_vars /\ intact' = intact
         /\ TypeOK /\ TypeOK' /\ boot' = boot /\ frames' = frames /\ FrameIdx' = FrameIdx
         /\ FrameIdx \subseteq Nat
         /\ Counted /\ GrantInv /\ HintInv /\ RunInv
         /\ bitmap' = bitmap => FreeSet' = FreeSet
         /\ held' = held => Taken' = Taken
<1>1. [Next]_vars /\ intact' = intact /\ Counted /\ GrantInv /\ HintInv /\ RunInv
  BY ServeFrame
<1>2. /\ TypeOK /\ TypeOK' /\ boot' = boot /\ frames' = frames /\ FrameIdx' = FrameIdx
      /\ frames \in Nat \ {0}
  BY <1>1, Frame
<1> QED BY <1>1, <1>2, SMTT(30) DEF FrameIdx, FreeSet, Taken

(* request_frame asks for one frame or stops; the scan answers with the    *)
(* frame it locks; a caller that is given nullptr stops.                   *)
LEMMA RequestFrameMaps ==
  ASSUME IInv, RequestFrame \/ RequestFrameScan \/ CallerAssert, intact = TRUE
  PROVE  Promise!Ask \/ Promise!Answer \/ Promise!Fail \/ Stutter
<1>1. /\ intact' = intact /\ TypeOK /\ boot' = boot /\ FrameIdx' = FrameIdx
      /\ frames' = frames /\ FrameIdx \subseteq Nat /\ GrantInv /\ HintInv
      /\ bitmap' = bitmap => FreeSet' = FreeSet
      /\ held' = held => Taken' = Taken
  BY ServeFacts DEF Serve
<1>2. CASE RequestFrame
  <2>1. pc = "ready" /\ pc' \in {"rf_scan", "panic"} /\ FreeSet' = FreeSet /\ Taken' = Taken
    BY <1>1, <1>2 DEF RequestFrame, pmem
  <2>2. Phase = "idle" /\ Asked = 0 /\ Available = FreeSet
    BY <2>1, MappingHolds DEF Mapping
  <2>3. CASE pc' = "rf_scan"
    <3>1. Phase' = "asked" /\ Asked' = 1 /\ Available' = FreeSet'
      BY <2>3, MappingHolds DEF Mapping
    <3> QED BY <1>1, <2>1, <2>2, <3>1, SMTT(30) DEF Promise!Ask
  <2>4. CASE pc' = "panic"
    <3>1. Phase' = "dead" /\ Asked' = 0 /\ Available' = FreeSet'
      BY <2>4, MappingHolds DEF Mapping
    <3> QED BY <1>1, <2>1, <2>2, <3>1 DEF Promise!Fail
  <2> QED BY <2>1, <2>3, <2>4
<1>3. CASE RequestFrameScan
  <2>1. pc = "rf_scan"
    BY <1>3 DEF RequestFrameScan
  <2>2. Phase = "asked" /\ Asked = 1 /\ Available = FreeSet
    BY <2>1, MappingHolds DEF Mapping
  <2>3. CASE pc' \in {"rf_scan", "returned_null"}
    <3>1. bitmap' = bitmap /\ held' = held
      BY <1>3, <2>3 DEF RequestFrameScan, pmem
    <3>2. Phase' = "asked" /\ Asked' = 1 /\ Available' = FreeSet'
      BY <2>3, MappingHolds DEF Mapping
    <3> QED BY <1>1, <2>2, <3>1, <3>2 DEF Stutter
  <2>4. CASE pc' = "ready"
    <3>1. /\ i < frames /\ bitmap[i] = FALSE /\ lock_frame(i)
          /\ held' = [held EXCEPT ![i] = @ + 1]
      BY <1>3, <2>1, <2>4 DEF RequestFrameScan
    <3>2. i \in FrameIdx /\ i \in Nat /\ held \in [FrameIdx -> Nat]
      BY <1>1, <3>1, FramesType, SMTT(30) DEF TypeOK, FrameIdx
    <3>3. i \in FreeSet /\ FreeSet' = FreeSet \ {i}
      BY <1>1, <3>1, <3>2, LockFrame DEF FreeSet
    <3>4. Taken' = Taken \cup {i}
      BY <1>1, <3>1, <3>2, SMTT(30) DEF Taken
    <3>5. Phase' = "idle" /\ Asked' = 0 /\ Available' = FreeSet'
      BY <2>4, MappingHolds DEF Mapping
    <3>6. i..(i + Asked - 1) = {i}
      BY <2>2, <3>2, SMTT(30)
    <3>7. Promise!Answer
      BY <1>1, <2>2, <3>3, <3>4, <3>5, <3>6 DEF Promise!Answer
    <3> QED BY <3>7
  <2> QED BY <1>3, <2>1, <2>3, <2>4 DEF RequestFrameScan
<1>4. CASE CallerAssert
  <2>1. pc = "returned_null" /\ pc' = "panic" /\ FreeSet' = FreeSet /\ Taken' = Taken
    BY <1>1, <1>4 DEF CallerAssert, pmem
  <2>2. Phase = "asked" /\ Available = FreeSet
    BY <2>1, MappingHolds DEF Mapping
  <2>3. Phase' = "dead" /\ Asked' = 0 /\ Available' = FreeSet'
    BY <2>1, MappingHolds DEF Mapping
  <2> QED BY <1>1, <2>1, <2>2, <2>3 DEF Promise!Fail
<1> QED BY <1>2, <1>3, <1>4

(* request_frames asks for `number' frames; the search changes nothing a   *)
(* client can see; a failing assertion stops the kernel.                   *)
LEMMA SearchMaps ==
  ASSUME IInv, intact = TRUE,
         (\E num \in Requests : RequestFrames(num)) \/ RequestFramesScan \/ RequestFramesAssert
  PROVE  Promise!Ask \/ Promise!Fail \/ Stutter
<1>1. /\ intact' = intact /\ RunInv
      /\ bitmap' = bitmap => FreeSet' = FreeSet
      /\ held' = held => Taken' = Taken
  BY ServeFacts DEF Serve
<1>2. FreeSet' = FreeSet /\ Taken' = Taken
  BY <1>1 DEF RequestFrames, RequestFramesScan, RequestFramesAssert, pmem
<1>3. CASE \E num \in Requests : RequestFrames(num)
  <2>1. PICK num \in Requests : RequestFrames(num)
    BY <1>3
  <2>2. pc = "ready" /\ pc' = "rfs_scan" /\ number' = num /\ num \in Nat \ {0}
    BY <2>1, PMemAssumption, SMTT(30) DEF RequestFrames
  <2>3. Phase = "idle" /\ Available = FreeSet
    BY <2>2, MappingHolds DEF Mapping
  <2>4. Phase' = "asked" /\ Asked' = num /\ Available' = FreeSet'
    BY <2>2, MappingHolds DEF Mapping
  <2> QED BY <1>1, <1>2, <2>2, <2>3, <2>4 DEF Promise!Ask
<1>4. CASE RequestFramesScan
  <2>1. pc = "rfs_scan" /\ pc' \in {"rfs_scan", "rfs_assert"} /\ number' = number
    BY <1>4 DEF RequestFramesScan
  <2>2. Phase = "asked" /\ Asked = number /\ Available = FreeSet
    BY <2>1, MappingHolds DEF Mapping
  <2>3. Phase' = "asked" /\ Asked' = number' /\ Available' = FreeSet'
    BY <2>1, MappingHolds DEF Mapping
  <2> QED BY <1>1, <1>2, <2>1, <2>2, <2>3 DEF Stutter
<1>5. CASE RequestFramesAssert
  <2>1. pc = "rfs_assert" /\ pc' \in {"rfs_lock", "panic"} /\ UNCHANGED search
    BY <1>5 DEF RequestFramesAssert
  <2>2. Phase = "asked" /\ Asked = number /\ Available = FreeSet
    BY <2>1, MappingHolds DEF Mapping
  <2>3. CASE pc' = "panic"
    <3>1. Phase' = "dead" /\ Asked' = 0 /\ Available' = FreeSet'
      BY <2>3, MappingHolds DEF Mapping
    <3> QED BY <1>1, <1>2, <2>2, <3>1 DEF Promise!Fail
  <2>4. CASE pc' = "rfs_lock"
    <3>1. free_start_idx > 0
      BY <1>5, <2>4 DEF RequestFramesAssert, RunAsserted
    <3>2. free_start_idx..free_end_idx \subseteq FreeSet
      BY <1>1, <2>1, <3>1 DEF RunInv
    <3>3. /\ Phase' = "asked" /\ Asked' = number'
          /\ Available' = FreeSet' \cup (free_start_idx'..free_end_idx')
      BY <2>4, MappingHolds DEF Mapping
    <3>4. Available' = Available
      BY <1>2, <2>1, <2>2, <3>2, <3>3 DEF search
    <3> QED BY <1>1, <1>2, <2>1, <2>2, <3>3, <3>4 DEF Stutter, search
  <2> QED BY <2>1, <2>3, <2>4
<1> QED BY <1>3, <1>4, <1>5

(* The loop that locks the run is invisible: its frames stay available     *)
(* until request_frames returns, and the return answers with all of them.  *)
LEMMA LockRunMaps ==
  ASSUME IInv, intact = TRUE, RequestFramesLock \/ RequestFramesReturn
  PROVE  Promise!Answer \/ Stutter
<1>1. /\ intact' = intact /\ TypeOK /\ boot' = boot /\ FrameIdx' = FrameIdx /\ RunInv
      /\ FrameIdx \subseteq Nat
      /\ bitmap' = bitmap => FreeSet' = FreeSet
      /\ held' = held => Taken' = Taken
  BY ServeFacts DEF Serve
<1>2. pc = "rfs_lock"
  BY DEF RequestFramesLock, RequestFramesReturn
<1>3. /\ i \in Nat /\ number \in Nat /\ free_start_idx \in Nat /\ free_end_idx \in Nat
      /\ frames \in Nat \ {0} /\ held \in [FrameIdx -> Nat]
  <2>1. frames \in Nat \ {0}
    BY <1>1, FramesType DEF TypeOK
  <2>2. \A k \in FrameIdx : k \in Nat
    BY <2>1, SMTT(30) DEF FrameIdx
  <2> QED BY <1>1, <2>1, <2>2 DEF TypeOK
<1>4. /\ number > 0 /\ free_start_idx > 0 /\ free_end_idx = free_start_idx + number - 1
      /\ free_end_idx < frames /\ free_start_idx <= i /\ i <= free_end_idx + 1
      /\ \A f \in free_start_idx..free_end_idx : held[f] = 0
      /\ \A f \in free_start_idx..(i - 1) : bitmap[f] = TRUE
  BY <1>1, <1>2 DEF RunInv
<1>5. /\ Phase = "asked" /\ Asked = number
      /\ Available = FreeSet \cup (free_start_idx..free_end_idx)
  BY <1>2, MappingHolds DEF Mapping
<1>6. free_start_idx..free_end_idx \subseteq FrameIdx
  BY <1>3, <1>4, SMTT(30) DEF FrameIdx
<1>7. CASE RequestFramesLock
  <2>1. /\ i <= free_end_idx /\ lock_frame(i) /\ pc' = "rfs_lock" /\ held' = held
        /\ number' = number /\ free_start_idx' = free_start_idx /\ free_end_idx' = free_end_idx
    BY <1>2, <1>7 DEF RequestFramesLock, search
  <2>2. i \in free_start_idx..free_end_idx
    BY <1>3, <1>4, <2>1, SMTT(30)
  <2>3. FreeSet' = FreeSet \ {i}
    BY <1>1, <1>6, <2>1, <2>2, LockFrame
  <2>4. /\ Phase' = "asked" /\ Asked' = number
        /\ Available' = FreeSet' \cup (free_start_idx..free_end_idx)
    BY <2>1, MappingHolds DEF Mapping
  <2>5. Available' = Available
    BY <1>5, <2>2, <2>3, <2>4
  <2> QED BY <1>1, <1>5, <2>1, <2>4, <2>5 DEF Stutter
<1>8. CASE RequestFramesReturn
  <2>1. i > free_end_idx /\ pc' = "ready" /\ held' = Granted /\ bitmap' = bitmap
    BY <1>8 DEF RequestFramesReturn, pmem
  <2> DEFINE run == free_start_idx..free_end_idx
  <2>2. run = free_start_idx..(i - 1) /\ run = free_start_idx..(free_start_idx + Asked - 1)
    BY <1>3, <1>4, <1>5, <2>1, SMTT(30)
  <2>3. \A f \in run : f \notin FreeSet
    BY <1>4, <2>2 DEF FreeSet
  <2>4. Phase' = "idle" /\ Asked' = 0 /\ Available' = FreeSet
    BY <1>1, <2>1, MappingHolds DEF Mapping
  <2>5. Available' = Available \ run /\ run \subseteq Available
    BY <1>5, <2>3, <2>4
  <2>6. Taken' = Taken \cup run
    <3>1. \A f \in FrameIdx : held'[f] > 0 <=> f \in run \/ held[f] > 0
      BY <1>3, <1>4, <2>1, SMTT(30) DEF Granted
    <3> QED BY <1>1, <1>6, <3>1 DEF Taken
  <2>7. free_start_idx \in Available
    BY <1>3, <1>4, <2>5, SMTT(30)
  <2>8. Promise!Answer
    BY <1>1, <1>5, <2>2, <2>4, <2>5, <2>6, <2>7 DEF Promise!Answer
  <2> QED BY <2>8
<1> QED BY <1>7, <1>8

(* free_frame by a holder releases the frame. *)
LEMMA FreeFrameMaps ==
  ASSUME IInv, NEW f \in FrameIdx, FreeFrame(f) PROVE Promise!Release
<1>1. intact = TRUE
  BY DEF FreeFrame, IInv, TypeOK
<1>2. /\ intact' = intact /\ TypeOK /\ boot' = boot /\ FrameIdx' = FrameIdx /\ GrantInv
  BY <1>1, ServeFacts DEF Serve
<1>3. /\ pc = "ready" /\ pc' = "ready" /\ held[f] > 0 /\ free_frame(f)
      /\ held' = [held EXCEPT ![f] = @ - 1]
  BY DEF FreeFrame
<1>4. held \in [FrameIdx -> Nat] /\ held[f] = 1
  BY <1>2, <1>3, SMTT(30) DEF TypeOK, GrantInv
<1>5. FreeSet' = FreeSet \cup {f}
  BY <1>2, <1>3, FreeOneFrame
<1>6. f \in Taken /\ Taken' = Taken \ {f}
  BY <1>2, <1>3, <1>4, SMTT(30) DEF Taken
<1>7. Phase = "idle" /\ Asked = 0 /\ Available = FreeSet
  BY <1>3, MappingHolds DEF Mapping
<1>8. Phase' = "idle" /\ Asked' = 0 /\ Available' = FreeSet'
  BY <1>3, MappingHolds DEF Mapping
<1> QED BY <1>2, <1>5, <1>6, <1>7, <1>8 DEF Promise!Release

(* Every step of the allocator and its clients is a step of the promise.   *)
LEMMA StepMaps == IInv /\ [Next]_vars => [Promise!Next]_(Promise!fvars)
<1> SUFFICES ASSUME IInv, [Next]_vars PROVE Promise!Next \/ UNCHANGED Promise!fvars
  OBVIOUS
<1>1. CASE intact = FALSE
  BY <1>1, ChaosMaps DEF Promise!Next
<1>2. CASE intact = TRUE
  <2>1. CASE Construct
    BY <2>1, ConstructMaps, StutterMaps DEF Promise!Next
  <2>2. CASE RequestFrame \/ RequestFrameScan \/ CallerAssert
    BY <1>2, <2>2, RequestFrameMaps, StutterMaps DEF Promise!Next
  <2>3. CASE (\E num \in Requests : RequestFrames(num)) \/ RequestFramesScan \/ RequestFramesAssert
    BY <1>2, <2>3, SearchMaps, StutterMaps DEF Promise!Next
  <2>4. CASE RequestFramesLock \/ RequestFramesReturn
    BY <1>2, <2>4, LockRunMaps, StutterMaps DEF Promise!Next
  <2>5. ASSUME NEW f \in FrameIdx, FreeFrame(f) PROVE Promise!Next
    BY <2>5, FreeFrameMaps DEF Promise!Next
  <2>6. ASSUME NEW f \in FrameIdx, ZeroFrame(f) PROVE Promise!Next
    <3>1. Phase = "idle" /\ intact' = FALSE
      BY <2>6, MappingHolds DEF ZeroFrame, Mapping
    <3> QED BY <3>1 DEF Promise!Break, Promise!Next
  <2>7. CASE UNCHANGED vars \/ Spin
    <3>1. UNCHANGED vars
      BY <2>7 DEF Spin
    <3>2. boot' = boot /\ FrameIdx' = FrameIdx
      BY Frame
    <3>3. Stutter
      BY <3>1, <3>2 DEF Stutter, vars, pmem, search, Phase, Asked, Available, Run, FreeSet, Taken
    <3> QED BY <3>3, StutterMaps
  <2> QED BY <2>1, <2>2, <2>3, <2>4, <2>5, <2>6, <2>7 DEF Next, Allocator, Client
<1> QED BY <1>1, <1>2 DEF IInv, TypeOK

(* The allocator starts closed, with nothing taken. *)
LEMMA InitMaps == Init => Promise!Init
<1> SUFFICES ASSUME Init PROVE Promise!Init
  OBVIOUS
<1>1. pc \in Ctor \ {"ctor_panic"} /\ intact = TRUE /\ Taken = {}
  BY SMTT(30) DEF Init, Ctor, Taken
<1>2. Phase = "closed" /\ Asked = 0 /\ Available = {}
  BY <1>1, MappingHolds DEF Mapping
<1> QED BY <1>1, <1>2 DEF Promise!Init

(* PMem implements FrameAllocator: whatever the machine, request_frame and *)
(* request_frames answer with exactly the frames that were asked for, all  *)
(* of them available before and none afterwards, until a client overwrites *)
(* the bitmap.                                                             *)
THEOREM PMemImplements == Spec => Promise!Safety
  BY InitMaps, StepMaps, Inductive, PTL DEF Spec, Promise!Safety

-----------------------------------------------------------------------------
(* The search of request_frames, and its assertions for every width of     *)
(* `size'.                                                                 *)

(* Where a run of the frames asked for starts. *)
FreeRuns ==
  {a \in last_free_idx..(frames - 1) :
     a + number <= frames /\ \A f \in a..(a + number - 1) : bitmap[f] = FALSE}

(* The search has passed no run but the one it has open, which starts      *)
(* behind a locked frame or at the hint.                                   *)
Searching ==
  /\ pc = "rfs_scan" =>
       /\ last_free_idx <= i
       /\ free_start_idx = 0 /\ last_free_idx < i => bitmap[i - 1] = TRUE
       /\ free_start_idx > 0 => last_free_idx <= free_start_idx
       /\ last_free_idx < free_start_idx => bitmap[free_start_idx - 1] = TRUE
       /\ \A a \in FreeRuns :
            a + number <= i => a = free_start_idx /\ a > 0 /\ a + number = i
  /\ pc = "rfs_assert" => (FreeRuns # {} <=> free_start_idx > 0)

SearchInv == intact => Searching

(* A run of free frames, element by element. *)
LEMMA RunFacts ==
  ASSUME TypeOK, NEW a \in FreeRuns
  PROVE  /\ a \in Nat /\ last_free_idx <= a /\ a + number <= frames
         /\ \A f \in a..(a + number - 1) : bitmap[f] = FALSE
<1>1. frames \in Nat /\ last_free_idx \in Nat
  BY FramesType, SMTT(30) DEF TypeOK, FrameIdx
<1> QED BY <1>1, SMTT(30) DEF FreeRuns

(* One iteration of the search. *)
LEMMA ScanSearches ==
  ASSUME IInv, Searching, intact = TRUE, RequestFramesScan
  PROVE  Searching'
<1>1. /\ TypeOK /\ boot \in Boots /\ frames \in Nat \ {0} /\ frames' = frames
  BY FramesType, BootFixed DEF IInv, TypeOK, Next, Allocator
<1>2. /\ i \in Nat /\ number \in Nat /\ free_start_idx \in Nat /\ last_free_idx \in Nat
  BY <1>1, SMTT(30) DEF TypeOK, FrameIdx
<1>3. /\ pc = "rfs_scan" /\ number > 0 /\ number' = number /\ last_free_idx' = last_free_idx
      /\ bitmap' = bitmap /\ FreeRuns' = FreeRuns
  BY <1>1 DEF RequestFramesScan, pmem, IInv, RunInv, FreeRuns
<1>4. free_start_idx > 0 =>
        /\ free_start_idx < i /\ i - free_start_idx <= number /\ free_end_idx = i - 1
        /\ free_start_idx..free_end_idx \subseteq FreeSet
  BY <1>3 DEF IInv, RunInv
<1>5. /\ last_free_idx <= i
      /\ free_start_idx = 0 /\ last_free_idx < i => bitmap[i - 1] = TRUE
      /\ free_start_idx > 0 => last_free_idx <= free_start_idx
      /\ last_free_idx < free_start_idx => bitmap[free_start_idx - 1] = TRUE
      /\ \A a \in FreeRuns :
           a + number <= i => a = free_start_idx /\ a > 0 /\ a + number = i
  BY <1>3 DEF Searching
<1>6. FreeSet = {f \in 0..(frames - 1) : bitmap[f] = FALSE}
  BY DEF FreeSet, FrameIdx
<1>7. ASSUME NEW a \in FreeRuns
      PROVE  /\ a \in Nat /\ last_free_idx <= a /\ a + number <= frames
             /\ \A f \in a..(a + number - 1) : bitmap[f] = FALSE
  BY <1>1, RunFacts
<1>8. bitmap[0] = TRUE
  <2>1. 0 \notin FreeSet
    BY <1>3 DEF IInv, GrantInv, Grantable, Ready
  <2>2. 0 \in FrameIdx /\ bitmap[0] \in BOOLEAN
    BY <1>1, FramesType DEF TypeOK
  <2> QED BY <2>1, <2>2 DEF FreeSet
<1>9. CASE /\ i < frames /\ free_start_idx > 0 /\ i - free_start_idx = number
           /\ pc' = "rfs_assert" /\ UNCHANGED free_start_idx
  <2>1. free_start_idx \in last_free_idx..(frames - 1) /\ free_start_idx + number <= frames
    BY <1>1, <1>2, <1>4, <1>5, <1>9, SMTT(30)
  <2>2. \A f \in free_start_idx..(free_start_idx + number - 1) : bitmap[f] = FALSE
    BY <1>2, <1>4, <1>6, <1>9, SMTT(30)
  <2>3. free_start_idx \in FreeRuns
    BY <2>1, <2>2 DEF FreeRuns
  <2> QED BY <1>3, <1>9, <2>3 DEF Searching
<1>10. CASE /\ i < frames /\ free_start_idx > 0 /\ i - free_start_idx # number
            /\ bitmap[i] = FALSE /\ i' = i + 1 /\ UNCHANGED <<free_start_idx, pc>>
  <2>1. ASSUME NEW a \in FreeRuns, a + number <= i'
        PROVE  a = free_start_idx /\ a > 0 /\ a + number = i'
    <3>0. /\ a \in Nat /\ last_free_idx <= a /\ a + number <= frames
          /\ a + number <= i => a = free_start_idx /\ a > 0 /\ a + number = i
          /\ \A f \in a..(a + number - 1) : bitmap[f] = FALSE
      BY <1>5, <1>7
    <3>1. a + number = i + 1
      BY <1>2, <3>0, <1>10, <2>1, SMTT(30)
    <3>2. a <= free_start_idx
      BY <1>2, <1>4, <3>0, <1>10, <3>1, SMTT(30)
    <3>3. ASSUME a < free_start_idx PROVE FALSE
      <4>1. free_start_idx - 1 \in a..(a + number - 1)
        BY <1>2, <1>4, <3>0, <1>10, <3>1, <3>3, SMTT(30)
      <4>2. last_free_idx < free_start_idx
        BY <1>2, <3>0, <3>3, SMTT(30)
      <4> QED BY <1>5, <3>0, <4>1, <4>2
    <3> QED BY <1>2, <3>0, <1>10, <3>1, <3>2, <3>3, SMTT(30)
  <2>2. last_free_idx <= i' /\ free_start_idx' > 0 /\ free_start_idx' # 0
    BY <1>2, <1>5, <1>10, SMTT(30)
  <2> QED BY <1>3, <1>5, <1>10, <2>1, <2>2 DEF Searching
<1>11. CASE /\ i < frames /\ ~ (free_start_idx > 0 /\ i - free_start_idx = number)
            /\ bitmap[i] = TRUE /\ free_start_idx' = 0 /\ i' = i + 1 /\ pc' = pc
  <2>1. ASSUME NEW a \in FreeRuns, a + number <= i' PROVE FALSE
    <3>0. /\ a \in Nat /\ last_free_idx <= a /\ a + number <= frames
          /\ a + number <= i => a = free_start_idx /\ a > 0 /\ a + number = i
          /\ \A f \in a..(a + number - 1) : bitmap[f] = FALSE
      BY <1>5, <1>7
    <3>1. CASE a + number <= i
      BY <1>2, <3>0, <1>11, <3>1, SMTT(30)
    <3>2. CASE a + number = i + 1
      <4>1. i \in a..(a + number - 1)
        BY <1>2, <1>3, <3>0, <3>2, SMTT(30)
      <4> QED BY <3>0, <1>11, <4>1
    <3> QED BY <1>2, <3>0, <1>11, <2>1, <3>1, <3>2, SMTT(30)
  <2>2. last_free_idx <= i' /\ i' - 1 = i /\ ~ (0 > 0) /\ ~ (last_free_idx < 0)
    BY <1>2, <1>5, <1>11, SMTT(30)
  <2> QED BY <1>3, <1>11, <2>1, <2>2 DEF Searching
<1>12. CASE /\ i < frames /\ free_start_idx = 0 /\ bitmap[i] = FALSE
            /\ free_start_idx' = i /\ i' = i + 1 /\ pc' = pc
  <2>1. i > 0 /\ i # 0
    BY <1>2, <1>8, <1>12, SMTT(30)
  <2>2. ASSUME NEW a \in FreeRuns, a + number <= i'
        PROVE  a = i /\ a > 0 /\ a + number = i'
    <3>0. /\ a \in Nat /\ last_free_idx <= a /\ a + number <= frames
          /\ a + number <= i => a = free_start_idx /\ a > 0 /\ a + number = i
          /\ \A f \in a..(a + number - 1) : bitmap[f] = FALSE
      BY <1>5, <1>7
    <3>1. a + number = i + 1
      BY <1>2, <3>0, <1>12, <2>2, SMTT(30)
    <3>2. ASSUME a < i PROVE FALSE
      <4>1. i - 1 \in a..(a + number - 1) /\ last_free_idx < i
        BY <1>2, <3>0, <3>1, <3>2, SMTT(30)
      <4> QED BY <1>5, <3>0, <1>12, <4>1
    <3> QED BY <1>2, <1>3, <3>0, <1>12, <2>1, <3>1, <3>2, SMTT(30)
  <2>3. last_free_idx <= i'
    BY <1>2, <1>5, <1>12, SMTT(30)
  <2> QED BY <1>3, <1>5, <1>12, <2>1, <2>2, <2>3 DEF Searching
<1>13. CASE i >= frames /\ pc' = "rfs_assert" /\ UNCHANGED <<free_start_idx, i>>
  <2>1. ASSUME NEW a \in FreeRuns PROVE free_start_idx > 0
    <3>1. /\ a \in Nat /\ a + number <= frames
          /\ a + number <= i => a = free_start_idx /\ a > 0
      BY <1>5, <1>7
    <3> QED BY <1>1, <1>2, <1>13, <3>1, SMTT(30)
  <2>2. ASSUME free_start_idx > 0 PROVE FALSE
    <3>1. frames - 1 \in FreeSet
      <4>1. i \in 0..frames
        BY <1>1, <1>3 DEF TypeOK, LoopsInside
      <4> QED BY <1>1, <1>2, <1>4, <1>13, <2>2, <4>1, SMTT(30)
    <3>2. frames - 1 \in Grantable
      BY <1>3, <3>1 DEF IInv, GrantInv, Ready
    <3>3. frames - 1 < frames - 1
      BY <1>1, <3>2, SpareFrame
    <3> QED BY <1>1, <3>3, SMTT(30)
  <2> QED BY <1>3, <1>13, <2>1, <2>2 DEF Searching
<1> QED BY <1>9, <1>10, <1>11, <1>12, <1>13 DEF RequestFramesScan

(* Every step keeps the account of the search. *)
LEMMA SearchInvNext == IInv /\ SearchInv /\ [Next]_vars => SearchInv'
<1> SUFFICES ASSUME IInv, SearchInv, [Next]_vars, intact' = TRUE,
                    pc' \in {"rfs_scan", "rfs_assert"}
             PROVE  Searching'
  BY BootFixed DEF SearchInv, Searching, IInv, TypeOK
<1>1. CASE RequestFramesScan
  <2>1. intact = TRUE
    BY <1>1 DEF RequestFramesScan
  <2> QED BY <1>1, <2>1, ScanSearches DEF SearchInv
<1>2. ASSUME NEW num \in Requests, RequestFrames(num) PROVE Searching'
  <2>1. /\ TypeOK /\ frames \in Nat \ {0} /\ frames' = frames /\ num \in Nat /\ num > 0
    BY <1>2, FramesType, BootFixed, PMemAssumption, SMTT(30) DEF IInv, TypeOK
  <2>2. /\ pc' = "rfs_scan" /\ number' = num /\ i' = last_free_idx /\ free_start_idx' = 0
        /\ last_free_idx' = last_free_idx /\ last_free_idx \in Nat
    BY <1>2, <2>1, SMTT(30) DEF RequestFrames, TypeOK, FrameIdx
  <2>3. \A a \in FreeRuns' : ~ (a + number' <= i')
    BY <2>1, <2>2, SMTT(30) DEF FreeRuns
  <2>4. last_free_idx' <= i' /\ ~ (last_free_idx' < i') /\ ~ (last_free_idx' < free_start_idx')
    BY <2>2, SMTT(30)
  <2> QED BY <2>2, <2>3, <2>4, SMTT(30) DEF Searching
<1>3. CASE UNCHANGED vars
  <2>1. intact = TRUE
    BY <1>3 DEF vars
  <2>2. Searching
    BY <2>1 DEF SearchInv
  <2> QED BY <1>3, <2>2, BootFixed DEF Searching, FreeRuns, vars, pmem, search
<1> QED BY <1>1, <1>2, <1>3 DEF Next, Allocator, Construct, Client, Spin, InitBitmap,
     LockAll, FreeUsable, LockNull, LockStack, LockBitmap, CtorAssert, RequestFrame,
     RequestFrameScan, CallerAssert, RequestFramesAssert, RequestFramesLock,
     RequestFramesReturn, FreeFrame, ZeroFrame

(* Unsigned subtraction of a larger number wraps once. *)
LEMMA WrapsOnce ==
  ASSUME NEW M \in Nat \ {0}, NEW k \in 1..(M - 1)
  PROVE  (-k) % M = M - k
  BY Z3

(* The third assertion, by wrapping, holds for a run of two or more. *)
LEMMA LongRunAsserted ==
  ASSUME IInv, intact = TRUE, pc = "rfs_assert", free_start_idx > 0, number > 1
  PROVE  RunAsserted
<1>1. /\ SIZE_MOD \in Nat \ {0} /\ frames \in Nat \ {0} /\ 2 * frames <= SIZE_MOD
      /\ number \in Nat /\ free_start_idx \in 0..(frames - 1) /\ free_end_idx \in 0..(frames - 1)
  BY PMemAssumption, BootFrames DEF IInv, TypeOK, frames, FrameIdx
<1>2. free_end_idx = free_start_idx + number - 1
  BY DEF IInv, RunInv
<1> DEFINE k == number - 1
<1>3. free_start_idx - free_end_idx = -k /\ k \in 1..(frames - 1) /\ free_end_idx > 0
  BY <1>1, <1>2, SMTT(30)
<1>4. k \in 1..(SIZE_MOD - 1) /\ SIZE_MOD - k >= number
  BY <1>1, <1>3, SMTT(30)
<1>5. (-k) % SIZE_MOD = SIZE_MOD - k
  BY <1>1, <1>4, WrapsOnce
<1>6. RunLengthAssert
  BY <1>3, <1>4, <1>5 DEF RunLengthAssert
<1> QED BY <1>3, <1>6 DEF RunAsserted

(* request_frames stops the kernel only when memory has no run of the      *)
(* frames asked for, if it is asked for two or more; and it goes on only   *)
(* when there is one.                                                      *)
THEOREM RunsFound == Spec => []FindsRun
<1>1. Init => SearchInv
  BY DEF Init, SearchInv, Searching
<1>2. IInv /\ SearchInv => FindsRun
  <2> SUFFICES ASSUME IInv, SearchInv, intact, pc = "rfs_assert"
               PROVE  /\ RunAsserted => HasRun
                      /\ HasRun /\ number > 1 => RunAsserted
    BY DEF FindsRun
  <2>1. HasRun <=> FreeRuns # {}
    BY DEF HasRun, FreeRuns
  <2>2. HasRun <=> free_start_idx > 0
    BY <2>1 DEF SearchInv, Searching
  <2> QED BY <2>2, LongRunAsserted DEF RunAsserted
<1> QED BY <1>1, <1>2, SearchInvNext, Inductive, PTL DEF Spec
=============================================================================
