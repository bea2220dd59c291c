------------------------------ MODULE MemoryMap ------------------------------
(***************************************************************************)
(* The UEFI memory map as the kernel reads it (memory/mmap.cpp).           *)
(*                                                                         *)
(* A memory map is a sequence of descriptors.  A descriptor is a record    *)
(* [type, paddr, pages]: paddr is a byte address, pages counts frames of   *)
(* FRAME_SZ bytes.  The code indexes descriptors from 0, a sequence from   *)
(* 1.  The map is written by the firmware and never changed by the kernel. *)
(***************************************************************************)
EXTENDS Integers, Sequences, FiniteSets

CONSTANT FRAME_SZ        \* bytes per page frame, 4096 in the kernel

ASSUME FrameSzAssumption == FRAME_SZ \in Nat \ {0}

(* The descriptor types the kernel tells apart: three that are usable as   *)
(* RAM, the one the bootloader puts the kernel image in, and device space. *)
EfiMemoryType == {"EFI_CONVENTIONAL_MEMORY", "EFI_BOOT_SERVICES_CODE",
                  "EFI_BOOT_SERVICES_DATA", "EFI_LOADER_DATA",
                  "EFI_MEMORY_MAPPED_IO"}

EfiMMapDesc == [type : EfiMemoryType, paddr : Nat, pages : Nat]

is_usable_memory(desc) ==
  desc.type \in {"EFI_CONVENTIONAL_MEMORY", "EFI_BOOT_SERVICES_CODE",
                 "EFI_BOOT_SERVICES_DATA"}

(* First byte after a descriptor. *)
desc_end(desc) == desc.paddr + FRAME_SZ * desc.pages

(* A faulty variant without the extra frame: get_page_frames_number is     *)
(* then the number of the frames the map describes.                        *)
NoSpareFrame(mmap) == desc_end(mmap[Len(mmap)])

(* The last descriptor is taken to be the highest one, and one more frame  *)
(* is added.                                                               *)
get_entire_memory_size(mmap) == desc_end(mmap[Len(mmap)]) + FRAME_SZ

get_page_frames_number(mmap) == get_entire_memory_size(mmap) \div FRAME_SZ

FreeSegs(mmap) ==
  {k \in 1..Len(mmap) : /\ mmap[k].type = "EFI_CONVENTIONAL_MEMORY"
                        /\ mmap[k].pages > 0}

(* Index of the largest conventional segment, the first one of that size.  *)
(* (There is one unless FreeSegs(mmap) is empty.)                          *)
LargestFreeSeg(mmap) ==
  CHOOSE k \in FreeSegs(mmap) :
    \A j \in FreeSegs(mmap) : \/ mmap[j].pages < mmap[k].pages
                              \/ mmap[j].pages = mmap[k].pages /\ k <= j

(* The two results of get_largest_free_seg: its size in bytes and start.   *)
get_largest_free_seg(mmap) ==
  IF FreeSegs(mmap) = {}
  THEN [size |-> 0, mem_seg |-> 0]
  ELSE LET desc == mmap[LargestFreeSeg(mmap)]
       IN  [size |-> desc.pages * FRAME_SZ, mem_seg |-> desc.paddr]
=============================================================================
