------------------------------- MODULE MCPMem -------------------------------
(* Small machines for PMem: frames of 2 bytes, so that the bitmap of a     *)
(* machine with 9 to 16 frames fills one frame.                            *)
EXTENDS PMem

Desc(t, first, k) == [type |-> t, paddr |-> first * FRAME_SZ, pages |-> k]

(* Low RAM, the kernel image, the firmware's stack, the large segment with *)
(* the bitmap, and a device behind a hole.                                 *)
PC == [mmap |-> << Desc("EFI_CONVENTIONAL_MEMORY", 0, 2),
                   Desc("EFI_LOADER_DATA", 2, 2),
                   Desc("EFI_BOOT_SERVICES_DATA", 4, 2),
                   Desc("EFI_CONVENTIONAL_MEMORY", 6, 3),
                   Desc("EFI_MEMORY_MAPPED_IO", 10, 1) >>,
       stack |-> 5 * FRAME_SZ + 1, buf |-> 5 * FRAME_SZ]

(* Usable RAM up to the end of the map, stack and PMem object on different *)
(* frames.                                                                 *)
RamLast == [mmap |-> << Desc("EFI_MEMORY_MAPPED_IO", 0, 1),
                        Desc("EFI_BOOT_SERVICES_DATA", 1, 2),
                        Desc("EFI_BOOT_SERVICES_CODE", 3, 1),
                        Desc("EFI_CONVENTIONAL_MEMORY", 4, 4) >>,
            stack |-> 2 * FRAME_SZ, buf |-> 1 * FRAME_SZ + 1]

(* The largest conventional segment cannot hold the bitmap. *)
TooSmall == [mmap |-> << Desc("EFI_BOOT_SERVICES_DATA", 0, 15),
                         Desc("EFI_CONVENTIONAL_MEMORY", 15, 1) >>,
             stack |-> 0, buf |-> 0]

(* Each with clients that free frames, and with clients that do not. *)
With(b, frees) ==
  [mmap |-> b.mmap, stack |-> b.stack, buf |-> b.buf, clients_free |-> frees]

MCBoots == {With(b, frees) : b \in {PC, RamLast, TooSmall}, frees \in BOOLEAN}
MCRequests == {1, 2, 3}
=============================================================================
