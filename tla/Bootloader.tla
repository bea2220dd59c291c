----------------------------- MODULE Bootloader -----------------------------
(***************************************************************************)
(* The UEFI bootloader (bootloader/): efi_main reads the kernel and the    *)
(* font from the boot volume, collects what the kernel needs, leaves the   *)
(* boot services and jumps to the kernel.                                  *)
(*                                                                         *)
(* A function is the sequence of steps it takes; a step is one call of the *)
(* firmware or one decision, and a step that fails makes efi_main return.  *)
(* The firmware is external: any service may report an error, allocations  *)
(* and the firmware's own events change the memory map.                    *)
(***************************************************************************)
EXTENDS Integers, Sequences

CONSTANTS
  PAGE_SZ,     \* 4096
  U16,         \* number of values of UINT16, the type of num_of_pages
  Kernels,     \* kernel files, see KernelFile
  Magics,      \* first two bytes of the font file, 54 and 4 in a PSF1 file
  MaxMap,      \* bound on the number of descriptors of the memory map
  MaxEvents    \* bound on the events of the firmware

(* The number of frames that sz bytes take. *)
CeilPages(sz) == (sz + PAGE_SZ - 1) \div PAGE_SZ
FrameRun(page, n) == page..(page + n - 1)

Segments(k) == {i \in DOMAIN k.p_hdrs : k.p_hdrs[i].load}

(* What the loader reads of an ELF file: whether its header describes an   *)
(* x86-64 executable, whether the four bytes of memory at the address      *)
(* e_ident[0] happen to be ELFMAG, and its program headers.  The linker    *)
(* (kernel.ld) aligns every section to a page, so that no two segments     *)
(* have a page in common; none has 256 MiB, which num_of_pages cannot hold.*)
KernelFile(k) ==
  /\ DOMAIN k = {"valid", "low", "p_hdrs"}
  /\ k.valid \in BOOLEAN /\ k.low \in BOOLEAN
  /\ k.p_hdrs \in Seq([load : BOOLEAN, page : Nat, filesz : Nat, memsz : Nat])
  /\ \A i \in Segments(k) :
       k.p_hdrs[i].filesz <= k.p_hdrs[i].memsz /\ k.p_hdrs[i].filesz \div PAGE_SZ + 1 < U16
  /\ \A i, j \in Segments(k) : i # j =>
       \/ k.p_hdrs[i].page + CeilPages(k.p_hdrs[i].memsz) <= k.p_hdrs[j].page
       \/ k.p_hdrs[j].page + CeilPages(k.p_hdrs[j].memsz) <= k.p_hdrs[i].page

ASSUME BootAssumption ==
  /\ PAGE_SZ \in Nat \ {0} /\ U16 \in Nat \ {0}
  /\ MaxMap \in Nat \ {0} /\ MaxEvents \in Nat
  /\ \A k \in Kernels : KernelFile(k)
  /\ Magics \subseteq {<<54, 4>>, <<4, 54>>, <<0, 0>>}

VARIABLES
  kernel, magic,  \* the files on the volume
  todo,           \* steps still to take
  main,           \* what efi_main does: "load", "start", "kernel", or returned
  held,           \* what has been obtained
  frames,         \* page frames allocated for segments
  backed,         \* segment -> frames allocated for it
  loaded,         \* segments for which Read reported success
  version,        \* of the firmware's memory map; the key it would hand out
  map_len,        \* number of descriptors of the firmware's memory map
  mmap_sz,        \* size of the map as last reported, 0 at first
  mmap_key,       \* key of the map the loader has, 0 at first
  services,       \* are the boot services available?
  events,         \* events of the firmware so far
  failed,         \* history: a service reported an error of its own
  null_write      \* history: the loader wrote through a null pointer

files == <<kernel, magic>>
image == <<frames, backed, loaded>>
firmware == <<version, map_len>>
gathered == <<mmap_sz, mmap_key>>
history == <<failed, null_write>>
vars == <<files, todo, main, held, image, firmware, gathered, services, events, history>>

-----------------------------------------------------------------------------
(* The functions, as sequences of steps.                                   *)

Step(op, x) == [op |-> op, x |-> x]
Efi(x) == Step("efi", x)
AllocatePool(x) == Step("pool", x)

load_file(name) == <<Efi("image"), Efi("root_fs"), Efi("root_dir"), Efi(name)>>

get_elf_header == <<Efi("seek"), Efi("e_hdr")>>
get_elf_p_hdrs == <<AllocatePool("p_hdrs"), Efi("seek"), Efi("p_hdrs")>>

load_elf_segment_by_p_hdr(i) == <<Step("pages", i), Efi("seek"), Step("read", i)>>

load_kernel_into_memory ==
  get_elf_header \o <<Step("verify_elf", 0)>> \o get_elf_p_hdrs \o <<Step("p_hdr", 1)>>

get_psf_header == <<AllocatePool("psf_header"), Efi("psf_header")>>
get_psf_glyphs == <<Efi("seek"), AllocatePool("glyphs"), Efi("glyphs")>>

load_psf_font ==
  load_file("font") \o get_psf_header \o <<Step("verify_psf", 0)>>
    \o get_psf_glyphs \o <<AllocatePool("font")>>

get_framebuffer == <<Efi("gop"), AllocatePool("framebuffer")>>
allocate_double_framebuffer == <<AllocatePool("double_buffer")>>
get_rsdp == <<Efi("rsdp")>>

get_memory_map == <<Step("size_map", 0), AllocatePool("map"), Step("get_map", 0)>>

get_memory_data ==
  <<Step("memory_data", 0)>> \o get_memory_map \o <<Step("fill_memory_data", 0)>>

start_kernel ==
  <<AllocatePool("stack")>> \o get_memory_data \o <<Step("exit", 0), Step("jump", 0)>>

efi_main ==
  load_file("kernel") \o load_kernel_into_memory \o load_psf_font
    \o get_framebuffer \o allocate_double_framebuffer \o get_rsdp
    \o <<Step("start", 0)>> \o start_kernel

-----------------------------------------------------------------------------
Init ==
  /\ kernel \in Kernels /\ magic \in Magics
  /\ todo = efi_main /\ main = "load"
  /\ held = {} /\ frames = {} /\ backed = [i \in DOMAIN kernel.p_hdrs |-> {}] /\ loaded = {}
  /\ version = 1 /\ map_len = 1 /\ mmap_sz = 0 /\ mmap_key = 0
  /\ services = TRUE /\ events = 0 /\ failed = FALSE /\ null_write = FALSE

At(op) == todo # <<>> /\ Head(todo).op = op
arg == Head(todo).x
Continue == todo' = Tail(todo) /\ UNCHANGED main

(* Every error path prints and returns: EFI_LOAD_ERROR from efi_main, and  *)
(* nothing from start_kernel, after which efi_main returns EFI_SUCCESS.    *)
Return ==
  /\ todo' = <<>>
  /\ main' = IF main = "load" THEN "EFI_LOAD_ERROR" ELSE "EFI_SUCCESS"

(* The service reports an error: a device error, no memory, not found. *)
Fails == Return /\ failed' = TRUE /\ UNCHANGED null_write

(* The memory map changes, with or without one descriptor more. *)
MapChanges ==
  /\ version' = version + 1
  /\ map_len' \in {map_len, map_len + 1} /\ map_len' <= MaxMap

(* A call of a protocol or of a file, which does not change the map.  A    *)
(* Read that stops at the end of the file is a success here as in the      *)
(* code, which does not look at the size it gets back: the files are taken *)
(* to hold their headers and the glyphs (KernelFile, Magics).              *)
CallEfi ==
  /\ At("efi")
  /\ \/ Continue /\ held' = held \cup {Head(todo)} /\ UNCHANGED history
     \/ Fails /\ UNCHANGED held
  /\ UNCHANGED <<files, image, firmware, gathered, services, events>>

CallAllocatePool ==
  /\ At("pool")
  /\ \/ Continue /\ held' = held \cup {Head(todo)} /\ MapChanges /\ UNCHANGED history
     \/ Fails /\ UNCHANGED <<held, firmware>>
  /\ UNCHANGED <<files, image, gathered, services, events>>

(* memcmp is given the byte e_ident[0] as an address; the sense of the     *)
(* result is inverted by the caller.                                       *)
verify_kernel_elf_header(k) == k.low /\ k.valid

(* A faulty check whose sense is put right without the comparison. *)
VerifyElfStrict ==
  /\ At("verify_elf")
  /\ IF ~verify_kernel_elf_header(kernel) THEN Return ELSE Continue
  /\ UNCHANGED <<files, held, image, firmware, gathered, services, events, history>>

VerifyElf ==
  /\ At("verify_elf")
  /\ IF verify_kernel_elf_header(kernel) THEN Return ELSE Continue
  /\ UNCHANGED <<files, held, image, firmware, gathered, services, events, history>>

(* A faulty loop that stops before the last program header. *)
LoadSegmentsButLast ==
  /\ At("p_hdr") /\ UNCHANGED main
  /\ todo' = IF arg >= Len(kernel.p_hdrs)
             THEN Tail(todo)
             ELSE (IF arg \in Segments(kernel) THEN load_elf_segment_by_p_hdr(arg) ELSE <<>>)
                    \o <<Step("p_hdr", arg + 1)>> \o Tail(todo)
  /\ UNCHANGED <<files, held, image, firmware, gathered, services, events, history>>

(* One pass of the loop over the program headers: the steps that load a    *)
(* PT_LOAD segment, and the next header.                                   *)
LoadSegments ==
  /\ At("p_hdr") /\ UNCHANGED main
  /\ todo' = IF arg > Len(kernel.p_hdrs)
             THEN Tail(todo)
             ELSE (IF arg \in Segments(kernel) THEN load_elf_segment_by_p_hdr(arg) ELSE <<>>)
                    \o <<Step("p_hdr", arg + 1)>> \o Tail(todo)
  /\ UNCHANGED <<files, held, image, firmware, gathered, services, events, history>>

(* A faulty division that drops the last, partial page. *)
PagesRoundedDown(p) == (p.filesz \div PAGE_SZ) % U16

num_of_pages(p) == (p.filesz \div PAGE_SZ + 1) % U16

(* AllocatePages(AllocateAddress) needs every frame of the run to be free. *)
AllocateSegment ==
  LET run == FrameRun(kernel.p_hdrs[arg].page, num_of_pages(kernel.p_hdrs[arg])) IN
  /\ At("pages")
  /\ \/ run \cap frames = {} /\ Continue /\ MapChanges
        /\ frames' = frames \cup run /\ backed' = [backed EXCEPT ![arg] = run]
        /\ UNCHANGED history
     \/ run \cap frames # {} /\ Return /\ UNCHANGED <<frames, backed, firmware, history>>
     \/ Fails /\ UNCHANGED <<frames, backed, firmware>>
  /\ UNCHANGED <<files, held, loaded, gathered, services, events>>

(* So is a Read of a segment that the file holds only in part: the loader  *)
(* goes on, and what it did not read is what the memory held before.       *)
ReadSegment ==
  /\ At("read")
  /\ \/ Continue /\ loaded' = loaded \cup {arg} /\ UNCHANGED history
     \/ Fails /\ UNCHANGED loaded
  /\ UNCHANGED <<files, held, frames, backed, firmware, gathered, services, events>>

(* The magic is read as a little-endian UINT16. *)
PSF1_MAGIC == 54 * 256 + 4
verify_psf_header(bytes) == bytes[1] + 256 * bytes[2] = PSF1_MAGIC

VerifyPsf ==
  /\ At("verify_psf")
  /\ IF verify_psf_header(magic) THEN Return ELSE Continue
  /\ UNCHANGED <<files, held, image, firmware, gathered, services, events, history>>

(* efi_main calls start_kernel. *)
Start ==
  /\ At("start")
  /\ todo' = Tail(todo) /\ main' = "start"
  /\ UNCHANGED <<files, held, image, firmware, gathered, services, events, history>>

(* get_memory_data goes on when its own allocation fails. *)
AllocateMemoryData ==
  /\ At("memory_data") /\ Continue
  /\ \/ held' = held \cup {AllocatePool("memory_data")} /\ MapChanges /\ UNCHANGED failed
     \/ failed' = TRUE /\ UNCHANGED <<held, firmware>>
  /\ UNCHANGED <<files, image, gathered, services, events, null_write>>

SizeMap ==
  /\ At("size_map")
  /\ \/ Continue /\ mmap_sz' = map_len /\ UNCHANGED history
     \/ Fails /\ UNCHANGED mmap_sz
  /\ UNCHANGED <<files, held, image, firmware, mmap_key, services, events>>

(* The second GetMemoryMap has to fit into the pool sized by the first. *)
GetMap ==
  /\ At("get_map")
  /\ \/ map_len <= mmap_sz /\ Continue /\ mmap_key' = version /\ UNCHANGED history
     \/ map_len > mmap_sz /\ Return /\ UNCHANGED <<mmap_key, history>>
     \/ Fails /\ UNCHANGED mmap_key
  /\ mmap_sz' = map_len
  /\ UNCHANGED <<files, held, image, firmware, services, events>>

FillMemoryData ==
  /\ At("fill_memory_data")
  /\ IF AllocatePool("memory_data") \in held
     THEN Continue /\ UNCHANGED history
     ELSE Return /\ null_write' = TRUE /\ UNCHANGED failed
  /\ UNCHANGED <<files, held, image, firmware, gathered, services, events>>

(* A faulty exit whose status is not looked at. *)
ExitUnchecked ==
  /\ At("exit") /\ Continue
  /\ services' = (mmap_key # version)
  /\ UNCHANGED <<files, held, image, firmware, gathered, events, history>>

(* A faulty exit that tries again with the same key. *)
ExitRetried ==
  /\ At("exit") /\ mmap_key = version
  /\ Continue /\ services' = FALSE
  /\ UNCHANGED <<files, held, image, firmware, gathered, events, history>>

(* ExitBootServices accepts only the key of the current memory map. *)
ExitBootServices ==
  /\ At("exit")
  /\ IF mmap_key = version
     THEN Continue /\ services' = FALSE
     ELSE Return /\ UNCHANGED services
  /\ UNCHANGED <<files, held, image, firmware, gathered, events, history>>

Jump ==
  /\ At("jump")
  /\ todo' = <<>> /\ main' = "kernel"
  /\ UNCHANGED <<files, held, image, firmware, gathered, services, events, history>>

(* A timer or another event of the firmware allocates or frees memory. *)
FirmwareEvent ==
  /\ services /\ todo # <<>> /\ events < MaxEvents
  /\ events' = events + 1 /\ MapChanges
  /\ UNCHANGED <<files, todo, main, held, image, gathered, services, history>>

(* The loader has returned, or the kernel runs. *)
Rest == todo = <<>> /\ UNCHANGED vars

Loader ==
  \/ CallEfi \/ CallAllocatePool \/ VerifyElf \/ LoadSegments \/ AllocateSegment \/ ReadSegment
  \/ VerifyPsf \/ Start \/ AllocateMemoryData \/ SizeMap \/ GetMap
  \/ FillMemoryData \/ ExitBootServices \/ Jump

Next == Loader \/ FirmwareEvent \/ Rest

(* The loader is the only program that runs; every service returns. *)
Spec == Init /\ [][Next]_vars /\ WF_vars(Loader)

-----------------------------------------------------------------------------
Returned == main \in {"EFI_LOAD_ERROR", "EFI_SUCCESS"}

(* The types of the variables; the frames allocated are those of the       *)
(* segments, and a step is left exactly while efi_main runs.               *)
TypeOK ==
  /\ kernel \in Kernels /\ magic \in Magics
  /\ main \in {"load", "start", "kernel", "EFI_LOAD_ERROR", "EFI_SUCCESS"}
  /\ todo = <<>> <=> main \in {"kernel", "EFI_LOAD_ERROR", "EFI_SUCCESS"}
  /\ frames = UNION {backed[i] : i \in DOMAIN kernel.p_hdrs}
  /\ loaded \subseteq Segments(kernel)
  /\ version \in Nat /\ map_len \in 1..MaxMap
  /\ mmap_sz \in 0..MaxMap /\ mmap_key \in 0..version
  /\ events \in 0..MaxEvents
  /\ services \in BOOLEAN /\ failed \in BOOLEAN /\ null_write \in BOOLEAN

(* When start_kernel jumps, every PT_LOAD segment has been read, as far as *)
(* the file holds it, and the font, the framebuffer, its double buffer,    *)
(* the RSDP, the stack, the memory data and its map have been obtained;    *)
(* after a failed allocation was written to, it does not jump.             *)
StartsComplete ==
  main = "kernel" =>
    /\ ~null_write /\ loaded = Segments(kernel)
    /\ {Efi(x) : x \in {"e_hdr", "psf_header", "glyphs", "gop", "rsdp"}} \subseteq held
    /\ {AllocatePool(x) : x \in {"font", "framebuffer", "double_buffer", "stack",
                                 "memory_data", "map"}} \subseteq held

(* The kernel runs only without the boot services, and the memory map it   *)
(* is handed is the one in force: no allocation or event of the firmware   *)
(* came after it (start_kernel, "Exit boot services immediately after      *)
(* memory map gathering").  After ExitBootServices no step that is left    *)
(* calls a service ("Now you are not able to call EFI functions!").        *)
StartsOnCurrentMap ==
  /\ main = "kernel" => ~services /\ mmap_key = version /\ mmap_sz = map_len
  /\ ~services => \A i \in DOMAIN todo : todo[i].op = "jump"

(* What load_elf_segment_by_p_hdr reads into memory lies in the frames it  *)
(* allocated for that segment, and no two segments share a frame.  The     *)
(* variables keep their types: only loadable segments are loaded.          *)
ReadsInsideSegment ==
  /\ TypeOK
  /\ \A i \in loaded :
       FrameRun(kernel.p_hdrs[i].page, CeilPages(kernel.p_hdrs[i].filesz)) \subseteq backed[i]
  /\ \A i, j \in DOMAIN kernel.p_hdrs : i # j => backed[i] \cap backed[j] = {}

(* Some segment ends on a page boundary right before another segment. *)
Adjacent ==
  \E i, j \in Segments(kernel) : i # j
    /\ kernel.p_hdrs[i].page + num_of_pages(kernel.p_hdrs[i]) - 1 = kernel.p_hdrs[j].page

(* If no service reports an error, a good kernel with a good font is       *)
(* started, unless the memory map outgrew its buffer or changed after it   *)
(* was read, the page added to a segment belongs to the next one, or the   *)
(* memory that verify_kernel_elf_header compares in place of the file      *)
(* happens to hold ELFMAG.  A bad header of either file is a cause to give *)
(* up ("Kernel ELF format is bad", "Invalid PSF file header"); nothing is  *)
(* claimed of whether the two checks, whose results the callers invert,    *)
(* notice one.                                                             *)
StopsForCause ==
  Returned /\ ~failed =>
    \/ mmap_sz > 0 /\ mmap_key # version
    \/ Adjacent
    \/ ~kernel.valid \/ kernel.low \/ magic # <<54, 4>>

(* efi_main ends: in the kernel or with a status.                          *)
BootEnds == <>(todo = <<>>)
=============================================================================
