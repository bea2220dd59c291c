# Formal specification of printOS

printOS is a 64-bit hobby kernel in C++ with a UEFI bootloader in C. This directory
holds TLA+ modules for the parts of it that keep state, TLC configurations that check
them on small instances, and proofs for the TLA+ proof system (TLAPS).

    tlc -config MCHeap.cfg MCHeap       # model-check one run
    tlapm PMemProofs.tla                # check the proofs of one module

The other modules with proofs are `HeapProofs`, `PagingProofs`, `ConsoleProofs`,
`BootloaderProofs`, `KeyboardProofs`, `KernelStartProofs` and `HpetProofs`. Each takes between
one and ten minutes. A leaf that names no prover is left to Zenon; the leaves that need
arithmetic, sequences or records name the SMT solver, whose translation is what takes the time.

## The system and its parts

| part | source | module | |
|---|---|---|---|
| memory map | `kernel/src/memory/mmap.*` | `MemoryMap` | modelled |
| physical frame allocator, bitmap | `memory/pmem.*`, `kutils/bitmap.*` | `PMem`, `FrameAllocator` | modelled, proved |
| heap | `memory/heap.*` | `Heap`, `Malloc` | modelled, proved |
| four-level paging | `memory/paging.*` | `Paging` | modelled, proved |
| console, framebuffer, `kprintf`, `kpanic` | `console/`, `framebuffer/`, `kutils/console.cpp` | `Console` | console modelled and proved, the others as it uses them |
| bootloader | `bootloader/*.c` | `Bootloader` | modelled, proved |
| `__printf`, `itoa`, string functions | `kutils/console.cpp`, `libc/stdlib.cpp` | `Printf` | modelled as far as `__printf` uses them |
| keyboard, PS/2 | `drivers/` | `Keyboard` | what `_start` and the handler use; proved |
| local APIC, I/O APIC, interrupt table, handlers | `acpi/apic/`, `idt/` | `Keyboard`, `Hpet`, `KernelStart` | as far as IRQ 0, IRQ 1 and page faults are concerned |
| HPET, timer handler | `acpi/hpet/`, `idt/interrupts.cpp` | `Hpet` | modelled, proved |
| ACPI tables, MADT | `acpi/acpi.cpp`, `acpi/apic/madt.cpp` | `KernelStart` | modelled, proved |
| order of `_start` | `kernel.cpp` | `KernelStart` | modelled, proved |
| CPU check | `cpu/cpu.cpp` | `KernelStart` | `check_state`; nothing reads what `get_info` fills in |
| GDT, debugging output | `gdt/`, `klog/`, `debug/` | | not modelled: constant tables; output without state |

How the parts meet: the bootloader hands the kernel a memory map, a framebuffer, a font
and the ACPI root. `_start` constructs every part once, one after the other; `PMem` comes
before `Paging`, then interrupts are enabled, then `Heap` is built. `Paging` takes
frames for its tables from `PMem` and maps what the memory map and the devices need;
`Heap` takes runs of frames from `PMem` and has `Paging` map them. From `sti` on, the
keyboard handler runs between any two instructions of `_start` and shares the console
and the PS/2 data port with it. There is one processor and no other thread.

## Modules

**MemoryMap** is the firmware's memory map: descriptors, which types are usable, the
size of memory as the code computes it (the end of the *last* descriptor plus one frame)
and the largest free segment.

**PMem** is class `PMem` with its `Bitmap`. Every loop of the constructor and of
`request_frame` / `request_frames` is one iteration per step: `pc` names the loop, `i`
and `n` are its counters, `number`, `free_start_idx` and `free_end_idx` the locals.
`InitBitmap`, `LockAll`, `FreeUsable`, `LockNull`, `LockStack`, `LockBitmap` and
`CtorAssert` are the constructor in its order; `RequestFrame*` and `RequestFrames*` the two
requests; `FreeFrame` is `free_frame` by the holder. The counters are unsigned
(`SIZE_MOD`). The bitmap lies in memory: `ZeroFrame` is a client that clears a frame it
was given, as `Paging::allocate_page` does; if it holds bits of the bitmap they are
cleared and `intact` becomes FALSE. What is said of `PMem` is said while `intact`.
**FrameAllocator** says what a client may rely on: a request is answered with a run of
available frames of the right length, or the kernel stops.

**Heap** is class `Heap`. `hdr` maps the address of each block to its header. `FindNext` /
`Found` are `_find_free_block` and the split, `Grow`, `CloseNext`, `CloseInsert` the
branch that obtains pages, `free` the whole of `free` with both merges. A walk is one
block per step. Of the frames only `FrameAllocator`'s promise is used: any run of available
frames, or a panic, which a request for a single page always is (`RunLengthAssert` of
`PMem` is why: the difference it looks at is then zero). **Malloc** is what `malloc` and `free` promise.

**Paging** is class `Paging`. A table is a frame; `mem` gives its entries. `allocate_page`
goes down one level per step (`UseTable`, `NewTable`, `NoFrame`, `SetPage`);
`IdentityPaging` and `NextSegment` are the loops of `init`. `Translate` is the walk of
the processor, `is_page_allocated` that of the code. After `LoadCR3` a table that is not
itself mapped is a `PageFault`. `HeapPage` is the heap mapping a page later on. The code
finds a table again through `TablePtr`, which loses the upper bits of its address; the
properties are conditioned by `LowTables`, and one machine grants tables above the limit.

**Console** is class `Console` on the double buffer. A flow of control, `main` or `isr`,
is the sequence of cursor and buffer operations it has still to do. The loop of `print` is
one of them: `PrintNext` takes the next character and puts the operations of `_print_char`
before the loop, `PrintDone` ends it. `Overlap` says whether a key may arrive in the middle of
a print. A cell of the screen is one value; `set_pixel` stores eight bytes for a pixel of four,
and `cut` is the set of cells whose first column of pixels the second half of a later store has
blackened (`CutBehind`: the cell behind the one that is drawn and, where the scan lines are as
long as the rows, `Flush`, the first cell of the row and of the next). `pos`, `doc` and `top`
record what a terminal of unlimited length would show; it is given each character when `print`
takes it, and its tabs are as wide as those of `_print_char`.

**Bootloader** is `efi_main` and all it calls. Each function is the sequence of its
firmware calls and decisions; `LoadSegments` is the loop over the program headers, which puts
the steps of a segment before the rest. Every service may report an error at every call,
allocations and the firmware's own events change the memory map and its key. A read that
succeeds has read what was asked for: the code does not look at the size a read reports, and a
file that is too short, which the firmware reports as a success with fewer bytes, is not modelled.

**Keyboard** is the PS/2 driver, `keyboard_handler`, and the steps of `_start` from `sti` to the
loop at its end, with the controller, the I/O APIC's mask and the local APIC's enable and request
bits. The redirection entry is written as the code writes it, first the half with the mask
(`LowerHalf`), then the half with the destination (`UpperHalf`): until then the entry goes wherever
it pointed (`routed`). Filling the controller's one-byte buffer is an edge on IRQ 1, which is lost
when masked, not routed here or disabled. The user (`PressKey`, `PressShift`, ...) records what they
meant in `typed`. `early` says whether the user waits for `SetUpOver`. A scan code is the case of
the `switch` in `read_key` it belongs to: letter, digit or sign, plain.

**Hpet** is the main counter, class `Comparator` and `timer_handler`. A call is the sequence
of register accesses the code makes (`set_one_shot`, `set_periodic`, ...); `Tick`, the
hardware's, comes between any two of them. A write to `COMPAR` means what it means to the
hardware in the mode the comparator is in. `since` records the request in force for each
comparator. `_start` has its calls of the HPET commented out, so the callers are anyone who
keeps to the comments.

**KernelStart** is `_start` in 24 steps. `Uses` says which pointers of `kernel` a step
dereferences, `Sets` which it sets; `WalkFound`, `WalkOn` and `WalkNull` are the two
`get_header` loops, one look at an entry per step: `idx` counts the looks, `header` is the entry
looked at, which stays the same behind an entry of length zero (`Stays`). The number of looks is
computed as in the code (`EntriesOf`): unsigned from the RSDT's length, so a length below that of
the header is a huge number of entries; a constant for the MADT. So both walks may run on into
the memory behind their table (`behind`, `beyond`), where they may fault. `LoadIdt` is the
interrupt table on the stack, whose other gates keep what the memory held. `PageFault` and
`KeyboardInterrupt` come wherever the processor accepts them. `kpanic` returns, an assertion does
not. Both go through `kernel.framebuffer` and `kernel.console` to report; before these are set the
report of an assertion goes through null pointers and ends in the assertion of `__printf` (`lost`).

**Printf** is `__printf` with `itoa` and `str_reverse`, one loop iteration per step, on the two
fixed buffers, whose indices are `u16` and wrap (`U16`). A write outside of a buffer is recorded; in
the kernel it lands on the stack, so nothing is claimed of what happens from then on. An argument
narrower than 64 bits is read with an undefined upper half. `Expansion` is the reference: the text a
call stands for.

## Runs

| run | asks | states |
|---|---|---|
| `pmem` | types and ranges; counters equal the bits; no frame handed out twice; only usable frames; runs of the exact length; no null while nobody frees; the assertions on a run stop the kernel only where they must, and pass only with a run; every request ends; implements `FrameAllocator` | 120,000 |
| `heap` | list linked both ways and complete; blocks tile the pages; allocations backed and never resized; neighbours merged; statistics; when new pages do not suffice; `malloc` ends; implements `Malloc` | 114,000 |
| `paging` | the processor translates exactly what was asked; the tables form a tree of their own; mappings stay; faults on tables only in pages left out; the constructor ends | 5,700 |
| `console` | the screen shows the end of the text; all drawn; nothing drawn outside; what wide stores cut is blank | 181,000 |
| `printf` | the text printed is the one the call stands for; nothing written outside the buffers by a text that fits; as many arguments taken as passed; it returns unless the text leaves the buffer | 103,000 |
| `boot` | the jump happens only with everything obtained, on the current map and without boot services; no service called afterwards; segments read into their own frames; stops only for a cause; ends | 3,900 |
| `start` | nothing used before it is set, by `_start` or by a handler, but by the report of an early assertion; tables found are the first of their kind; stops only for a cause; of the failed checks the last is shown; every walk ends | 211,000 |
| `keyboard` | what is printed is what was typed; all of it; the controller's buffer never stays full | 130,000 |
| `hpet` | one-shot interrupts come on time, once, and do come and are served; periodic ones exactly; the clock counts every edge that is not merged | 270,000 |
| `pmem_bitmap`, `heap_null`, `console_overlap` | a statement of a comment or of the README that the code does not keep (next section) | violated |

The type invariant of each module but `PMem` is a conjunct of one of its invariants
(`ListLinked`, `TablesTree`, `DrawsInside`, `ReadsInsideSegment`, `PrintsWhatIsTyped`,
`OneShotExact`, `FailuresShown`, `StaysInside`). `KeepsPromise` and `KeepsMalloc` contain, next
to the abstract specification, that every call ends; `PrintsExpansion` is total correctness.

**Bounds.** `pmem`: machines of 9 to 17 frames of 2 bytes, so the bitmap takes a frame; RAM below,
between and at the end of memory; requests of 1 to 3 frames. `heap`: pages of 8 bytes, headers of 2,
five pages in two runs with a hole (or none at all), so new pages come before, behind and apart from
old ones; sizes that fit, split, leave too little to split, need several pages, or miss by less than
a header. `paging`: tables of 4 entries, pages of 4 bytes, so that a segment of 6 pages already
meets the rounding; one machine runs out of frames, one uses up those below the limit of `TablePtr`.
`console`: 2 rows of 3 columns, 5 prints: enough to wrap, tab over the edge, scroll twice and go
back over the top. `boot`: five kernel files (ordinary, filling its last page, with `.bss`, not an
executable, refused by the check), three magics, one firmware event, a map of up to 3 descriptors.
`keyboard`: 4 key events after the set-up, 2 during it. `printf`: buffers of 7 and 4 bytes, numbers
of 8 bits (two halves of 4), every format of up to three pieces: texts that fit, fill the buffer and
exceed it, numbers with the most digits the small buffer must hold; the indices have 8 values, so
that an index behind the buffer wraps. `start`: a walk of 3 looks at the MADT instead of 15, `size`
with 64 values, eight RSDTs with the memory behind them (two with a length below 36, which makes 12
entries), six MADTs, three memories behind them and three choices of an entry of length zero,
combined with every single failing check and, on sound tables, with every pair; 2 interrupts.
`hpet`: two comparators, two calls, 7 ticks (up to seven periods), clock periods below one
nanosecond's worth, with a remainder and with a larger one; a call whose time would end behind the
last tick is not made.

**Fairness.** One processor runs the kernel and nothing else, so weak fairness of its
own steps (`Allocator`, `InMalloc`, `Running`, `Main`, `Handler`, `Program`, `Step`) only
says that it goes on. Clients, the user and firmware events are under none: they may stop for ever.
`Deliver` is fair because the controller sends what it has, `Tick` because the counter
counts while it is enabled, and `Loader` because every firmware service returns.

## Where code and text disagree

Each of these has a run that TLC ends with a counterexample:

* `pmem_bitmap`: `pmem.cpp:70` "Lock frames where the bitmap is placed". The address used
  is that of the `Bitmap`'s pointer member, so the bitmap's frames stay free.
* `heap_null`: `heap.cpp:184` writes to `block->next` without the test for null that the
  other branch has. `free(ptr7)` in `_start` gets there if the pages obtained for the
  largest allocation lie above the first page. Page 0 is mapped, so nothing is noticed.
* `console_overlap`: README "auto-scroll". A key that arrives between the test for the
  last row and the cursor's move takes the row past the one value the test knows.

Others were met while modelling. The models contain them and no run is spent on them:

* `pmem.cpp:162`: the assertion on a run's length subtracts the larger index from the
  smaller, unsigned. It passes for every run of two or more frames, but for a single frame the
  difference is zero and the kernel stops with the frame found. `FindsRun` claims nothing of a
  single frame, so it would hold with the assertion corrected, too.
* `heap.cpp:113` fails when the request is within a header of a multiple of the page size,
  because the page count leaves the header out; `GrownBlockFits` says it fails for no other.
* `paging.cpp:211` ":n will be always rounded up to full page size": it divides by
  `PAGE_SZ + 1`, and segments above about 16 MiB lose their last pages (`LeftOut`).
* `heap.cpp:74` compares twice with `<`, so the list is not kept in the order of
  addresses and contiguous free blocks that are not list neighbours stay unmerged.
* `paging.cpp:136` shifts a 32-bit field in 32 bits (`TablePtr`): tables at 4 GiB and above
  are not found again, where the comment at line 116 expects 44 bits. The properties of
  `Paging` hold while no table lies there (`LowTables`).
* `kernel_loader.c:100` and `font.c:67` give up when the header is found *good*. Real files
  pass because `verify_kernel_elf_header` compares the memory at address `e_ident[0]`, not the
  header (unless ELF's magic happens to be stored there), and because `PSF1_MAGIC` has
  its bytes swapped. Correcting only one half of either would stop the boot of good files.
  `StopsForCause` counts a bad header as a cause to give up, which the messages say it is; it
  claims nothing of whether one is noticed.
* `kernel_loader.c:63`: the page count ignores `p_memsz`, so `.bss` is not reserved, and adds
  a page to a segment that fills its last one, so a segment right behind it fails to load.
* `kernel_starter.c:24-29`: allocating the buffer for the map may make the map outgrow it;
  there is no second try, nor one after a stale key. `StopsForCause` lists these causes.
* `kernel_starter.c:46-58`: a failed allocation of `MemoryData` is written to; `main.c:64`
  returns `EFI_SUCCESS` after `start_kernel` has failed.
* `kernel.cpp:210-217` reads the PS/2 data port with interrupts on: it can take a scan
  code from the handler, and the interrupt that is left over can make the handler read a
  later byte twice. Hence `PrintsWhatIsTyped` speaks of keys used after `SetUpOver`.
* `keyboard.cpp:114-121` keeps one flag for two shift keys.
* `comparator.cpp:62` "It fires interrupt only once": the interrupt stays enabled, and when
  `set_periodic` on any comparator resets the counter it fires a second time
  (`OneShotExact` excludes it).
* `comparator.cpp:75-76` writes the comparator before the mode. A comparator that was
  periodic only gets a new period, and if the counter has passed the value before the
  interrupt is enabled the interrupt never comes (`OneShotFires` excludes both).
* `comparator.hpp:40` has the two trigger modes the wrong way round; the code's 0 is edge.
* `hpet.cpp:34` truncates to nanoseconds: the time is too long by up to one part in the
  clock period, and a clock faster than 1 GHz ends in the assertion of `Comparator`.
* `madt.cpp:24` "or NULL if not found": the walk looks at 15 entries whatever the table's
  length. What lies behind the table decides; memory of zeros reads as a local APIC.
* `acpi.cpp:49` "If not found, return null": with a length below 36, which nothing checks and
  `_start` goes on after `verify_rsdt` has failed, there are about 2^62 entries to look at.
* `console.hpp:25` has `tab_spaces` = 4, which nothing reads; a tab is three columns.
* `framebuffer.cpp:30`: `set_pixel` stores 8 bytes for a pixel of 4. The character behind one that
  is drawn loses its first column of pixels, which shows once a carriage return has taken the
  cursor back (`MatchesTerminal` claims nothing of cut cells from then on) or, on a screen exactly
  as wide as the console, in the first column. The last store of `set_all_pixels` ends 4 bytes
  behind the double buffer; what lies there is not modelled.
* `console.cpp:24`: backspace in the upper left corner takes the row to 65535; `DrawsInside` and
  `MatchesTerminal` claim nothing from then on (`wrapped`).
* `kutils/console.cpp:144`: `kpanic` returns, so `_start` goes on after a failed check of
  ACPI, and it clears away the message of an earlier failure (`FailuresShown`).
* `assertions.cpp:8` needs the framebuffer and the console: the three assertions before there is
  one (`kernel.cpp:27`, an empty memory map, no framebuffer) are reported through two null
  pointers (`kutils/console.cpp:137-140`). `NothingUsedBeforeSet` names this as its one exception.
* `idt.cpp`: the table is on the stack and its unused gates are never cleared, so an
  unexpected exception may reset the machine (`StopsForCause`).
* `kernel.cpp:72`, `212`, `215`, `interrupts.cpp:60`, `madt.cpp:12` pass narrow values that
  `__printf` reads as `u64`; and `__printf` does not check that the text fits its buffer.
* `ioapic.cpp:61` writes the half with the mask before the half with the destination.

## Proofs

Proved for every value of the constants: all safety properties of all runs but `printf`
(`MatchesTerminal` for prints that are not interrupted, as in the run), and the two
refinements but for their fairness.

`PMemProofs` proves, for every frame size, memory map and set of request sizes that
satisfy `FrameSzAssumption` and `PMemAssumption`:

* `TypeCorrect`: `Spec => []TypeOK`, which includes that no loop runs past its end
  (`LoopsInside`) and that every frame the constructor computes from an address has a bit
  (`ComputedInside`);
* `CountersCorrect`, `GrantsExclusive`, `GrantsUsable`, `RunsExact`, `NoNullResult`: the
  five safety invariants of run `pmem`;
* `Inductive`: the invariant `IInv` they follow from;
* `PMemImplements`: `Spec => Promise!Safety`, that is, PMem implements `FrameAllocator` but
  for its fairness. `Mapping` tabulates the refinement mapping for every value of `pc`. The
  scan that locks a frame is the answer to `request_frame`; of `request_frames` only the
  return is: the frames of its run count as available while they are locked one by one. All
  other steps of the loops change nothing a client sees, a failing assertion is `Fail`, and
  after `ZeroFrame` on a frame of the bitmap every step is `Chaos`. Each step needs `IInv`:
  that the run is free when the loop begins and locked when it ends, that the constructor's
  assertion on the counter means that a frame is free;
* `RunsFound`: `Spec => []FindsRun`: the assertions behind the search pass only if there is a run
  of free frames of the length asked for and, for two frames or more, whenever there is one, for
  every width of `size`.

The assumptions say that frames have a positive size, that the last descriptor of the map
is the highest (the code relies on it), that the stack and the address in `Bitmap::buf` lie
in memory, and that `size` has at least two values for every frame (a frame has more than
one byte, and its addresses fit `size`).

None of the invariants is inductive alone. `IInv` adds to them: what the constructor has
reached in each phase (`CtorInv`); that all free frames are usable ones other than frame 0
and the stack's (`GrantInv`, needed for what is granted *next*); that nothing below the hint
is free unless clients free frames (`HintInv`, needed because `request_frame` starts at the
hint); and that the open run of the search is free, contiguous and no longer than asked
(`RunInv`). That a run cut off by the end of memory cannot be returned rests on
`SpareFrame`: the map's size has one frame more than the last descriptor, and it is never
free. `LockFrame` and `FreeOneFrame` relate the two primitives to the
cardinality of the free set; `IInvNext` has one lemma per group of actions.

`KernelStartProofs` proves, for every `LIMIT`, width of `size` and every machine that satisfies
`StartAssumption` (tables are finite sequences of entries, the RSDT has as many as its length
gives; nothing else):

* `PointersSet`: no step and no handler dereferences a null pointer of `kernel`, unless the
  bootloader has handed over no data, no memory map or no framebuffer; then only the report of
  that does;
* `TablesFound`: table pointers are those of the first entry of the kind the walk comes to, or lie
  behind the MADT, or behind an RSDT whose length is below that of its header;
* `CausesOfStop`: a reset, a stop that shows nothing and a failed table assertion have their causes;
* `FailuresReported`: at `sti` the screen shows the last check that failed, if any did, and
  the variables have their types;
* `StartInductive`: the invariant `StartInv` the first three follow from.

`NothingUsedBeforeSet` is not inductive: the next step may use what only the order guarantees.
`Ordered` adds that all steps before the current one have set what they set, and that interrupts are
on only behind step 19, when everything a handler uses is there. `Walking` says that the entries a
walk has passed are not of its kind and not of length zero, and that one it is held up at is not of
its kind; `Ended` keeps these facts for the table it found or did not find. `Showing` says the same
of the screen at every step that `FailuresShown` says at `sti`: it shows the last failing check
among those already made.

`HeapProofs` proves, for every page size, every smaller header, every pool
of frames and every set of request sizes (`HeapAssumption`):

* `BlocksTileHolds`, `NeighboursMergedHolds`, `GrownBlockFitsHolds`, `ListLinkedHolds`,
  `LiveBackedHolds`: the five invariants of run `heap`, with the type invariant;
* `ImplementsMalloc`: `Spec => Allocation!Spec`, the refinement of `Malloc`, and
  `OthersUntouchedHolds`, that no step resizes the block of an allocation that stays:
  together the safety half of `KeepsMalloc`;
* `HeapInvariant`: the invariant `HeapInv` they follow from.

`HeapInv` relates the links to an order of the blocks: a one-to-one function `ord` from
`0..(n-1)` onto the headers, with `.next` leading from `ord[i]` to `ord[i+1]` (`InOrder`). It is
needed because a property of single links does not exclude a second, circular list, and
because a walk must be known to have passed every block before it (`WalkAt`). To this it
adds, per byte, that the blocks, and the pages `malloc` has requested but not yet put into the
list, make up the pages owned (`Covered`), that blocks are apart (`Apart`), that allocations
and used blocks correspond (`Backed`), and how far `malloc` has come (`Progress`): at
`find_again` the block just made is the only one that may fit, and only its predecessor
may be unmerged. Three operations change the list, a split, an insertion and a merge; each has
lemmas on the order (`ListInserted`, `ListAbsorbed`), on the bytes (`SplitGeometry`,
`InsertGeometry`, `AbsorbGeometry`) and on what is merged. `free` with its two merges is their
composition in the order of the code. `ListLinked` and `LiveBacked` speak of `Walk` and of
numbers of blocks: `WalkOrder` shows by induction that `Walk[k]` is `ord[k]`.

`PagingProofs` proves, for every number of entries in a table, page size,
reach of a table pointer and well-formed machine (`PagingAssumption`):

* `MapsExactHolds`, `TablesTreeHolds`, `FaultsOnlyLeftOutHolds`: the three invariants of run
  `paging`, with the type invariant;
* `MappingStaysHolds`: the action property that a mapping, once made, is never changed;
* `PagingInvariant`: the invariant `PagingInv` they follow from.

A machine is well-formed when its frames for tables lie in segments of the memory map (RAM),
and the test page lies beyond memory and within the four levels. `Built` is the core: the
tables reachable from the PML4 form a tree in which no frame is entered twice, all of them
granted to Paging and to nobody else, and the walk of the processor gives for every page
what was asked. Entering a table or a page in one slot changes the path of a page only if it
goes through that slot; that this page is the one asked for rests on the four indexes
determining the page (`PageIndexer`, by division with remainder). `Calls` keeps which
pages `__identity_paging` has mapped so far, from which `FaultsOnlyLeftOut` follows: a table
that cannot be reached after `LoadCR3` is in a page that the rounding leaves out.

`HpetProofs` proves, for every finite set of comparators, clock period, time and bound
(`HpetAssumption`: the period is shorter than a millisecond, as its register of 32 bits
ensures):

* `ClockCorrect`: `ClockCounts`. The equation needs only the types of its counters to be
  inductive (`ClockInv`). The two steps that matter are `Tick`, where at most one of the edges
  becomes a request and the others are merged, and `TimerHandler`, where a second replaces
  `TICKS_PER_SEC` interrupts;
* `OneShotTimes`, `PeriodicTimes`: `OneShotExact`, with the type invariant, and
  `PeriodicExact`;
* `HpetInvariant`: the invariant `HpetInv` these two follow from.

`HpetInv` follows a request through the register accesses of its call. `Calling` says for every
point of a call what it has done: between the read of the counter and the write of the
comparator in `set_one_shot` the value is as far ahead of the *running* counter as the time
asked for is ahead of the time; from its first access on `set_periodic` has the counter stopped.
`Timed` says where the comparator of each request is: `OneShotOf` keeps its distance from the
counter, which a reset can only increase, `PeriodicOf` has it at the next multiple of the
period. While `set_periodic` is changing a comparator (`Setting`) an older one-shot request for
it keeps only what was true of its first interrupt. `Conversion` bounds the error of the
two divisions.

`BootloaderProofs` proves, for every set of kernel files, page size and bound on the firmware's
map and events (`BootAssumption`: a program header is not smaller in memory than in the file,
its page count fits 16 bits, and no two segments share a page, all of which the linker ensures):

* `StartsCompleteAlways`, `StartsOnCurrentMapAlways`, `ReadsInsideSegmentAlways`,
  `StopsForCauseAlways`: the four invariants of run `boot`, with the type invariant;
* `BootInvHolds`: the invariant `BootInv` they follow from.

Each invariant speaks of the end, so `BootInv` relates what has been done to what is left in
`todo`: all that the kernel is handed is held already or still to be obtained (`Completed`), and
every segment is loaded, or its read is to come, or the loop has not reached its header. `Ordered`
has the last three steps in their places and everything else before them, counted from the end of
`todo`, because the loop makes `todo` longer at its front. `AtHeader` says where in `todo` the
steps of a segment are and that no frame is taken for a segment the loop has not reached;
`Backed`, that the frames taken for a segment are its own. For this `RunsMeet` compares the page
count of the code with the pages the segment has: it may take one more, and then the firmware
refuses the next segment. `KeyOfMap` says that a key that is current belongs to a map that is.

`KeyboardProofs` proves, for any number of key events:

* `PrintsWhatIsTypedAlways`: the invariant of run `keyboard`, with the type invariant;
* `KeyInvHolds`: the invariant `KeyInv` it follows from.

That `printed` is a prefix of `typed` says nothing about the next interrupt. `Served` says that
after the set-up a byte in the buffer has exactly one interrupt, requested or in service:
none is lost and none is read twice. `Trace` says that the scan codes under way lead from the
driver's modifiers to the keys held, and from what is printed to what is typed: it has the
modifiers and the number of characters after each code as witnesses, so that reading a code
takes the first witness away (`TraceRead`) and a key adds one at the end (`TraceTyped`). `SetUpTo`
and `Untouched` carry the set-up to the first key, when the witnesses start. With two shift
keys down (`two`) the statement is not claimed, as the code has one flag for both.

`ConsoleProofs` proves, for every size of the screen of at least one row and three columns, all
texts and keys, and any number of prints (`ConsoleAssumption`: the sizes fit 16 bits):

* `DrawsInsideAlways`: `DrawsInside`; the type invariant in it holds with `Overlap` too;
* `MatchesTerminalAlways`: `MatchesTerminal` if no print is interrupted (`~Overlap`; with it the
  run `console_overlap` has a counterexample to scrolling);
* `ConsoleInvHolds`: the invariant `ConsoleInv` they follow from.

The terminal is ahead of the screen from the moment a character is taken until its operations are
done. So `ConsoleInv` has one case for every operation that may come next (`AtCheck`, `AtShift`,
..., `AtCr`): which operations are left, where the cursor is compared with `pos`, and which rows of
the screen hold what is on the paper, the paper before the character (`Means`) or after it. While
scrolling, all rows but the last do (`Scrolled`). The row may be the one below the screen between
two characters, and only there or in a tab, of which at most two columns are left (`Tab`): that
`check` comes first in `_print_char` is what makes it enough. Going back over the top of the screen
ends these claims (`wrapped`), but the operations left still have their form (`Remains`). For the
cells that are cut, `Ahead` says that without a carriage return the paper is blank from `pos` on, so
the cell behind the one that is drawn is (`BlankBehind`), and `Uncut` that every cut cell is blank
or in the first column. `HeadsOne` and `HeadsMore` find the case from the first operation; every
operation has a lemma (`ShiftPlaced`, ..., `CursorCrPlaced`), and `PlaceUnique` has rows and columns
determine a place.

**Only model-checked.** `Printf`: `StaysInside` compares the index in the buffer with the length of
`Expansion`, a fold over a sequence, and the library's induction over sequences takes an operator as
parameter, which the provers cannot instantiate. The same is true of the text printed. Induction is
possible only over a set of numbers (`LeastNatural`, `SetInduction`, from the well-foundedness of
`<`), which was enough for `Walk` of `Heap`. Everything that rests on fairness (the liveness in
`KeepsPromise`, `KeepsMalloc` and `PrintsExpansion`, `ConstructorEnds`, `BootEnds`,
`EverythingPrinted`, `BufferDrained`, `OneShotFires`, `StartEnds`) is out of the prover's reach.

## Plan

The timer in the composition with the keyboard, once `_start` enables it: two handlers and
`_start` then share the console.

A composition of `PMem`, `Paging` and `Heap` would repeat what is there: `Heap` and `Paging`
use of the allocator only what `PMemImplements` proves, and that `Paging` clears frames in
which the bitmap lies is `ZeroFrame` of `PMem`.

## Not modelled

* Colours, glyph bitmaps and the wording of messages: no property is about them.
* The GDT and its segment registers: constant tables, written once and loaded.
* The spurious, division and APIC error handlers: they print and nothing raises them.
* The access bits of page table entries; caches and the order of memory accesses (one
  processor).
* `cpu::get_info`: `_start` calls it, but nothing reads the fields it fills.
* The getters of the HPET and the APICs, some PS/2 commands and bootloader functions: nothing
  calls them. `klog.cpp` and `cmath.cpp` are empty.
* `get_cpuid` changes registers that its caller may expect to keep; that is below the level
  of these modules.
* The loop at the end of `_start` that counts for the sake of debugging is one step.
