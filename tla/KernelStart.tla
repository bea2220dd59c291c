----------------------------- MODULE KernelStart -----------------------------
(***************************************************************************)
(* _start (kernel.cpp) from its first line to the loop at its end, with    *)
(* the walks over the ACPI tables (acpi/acpi.cpp, acpi/apic/madt.cpp), the *)
(* CPU check (cpu/cpu.cpp), the interrupt table (idt/idt.cpp), and         *)
(* interrupts that come as soon as the processor accepts them.             *)
(*                                                                         *)
(* A step constructs one object or makes one check; it dereferences some   *)
(* of the pointers in `kernel' and sets others.  The constructors of PMem, *)
(* Paging and Heap are one step each, which may fail: they have modules of *)
(* their own, and so have malloc, free and the dialogue with the PS/2      *)
(* controller ("malloc", "ps2").  An ACPI table is the sequence of its     *)
(* entries, each abstracted to its signature or type.                      *)
(***************************************************************************)
EXTENDS Integers, Sequences, FiniteSets, FiniteSetsExt

CONSTANTS
  LIMIT,          \* looks of madt::ics::get_header at entries, 15 in the kernel
  RSDT_SZ,        \* sizeof(RSDT): 36
  SIZE_MOD,       \* number of values of the type size, 2^64
  Machines,       \* see WellFormedMachine
  MaxInterrupts   \* bound on the interrupts

VARIABLES
  machine,        \* never changes
  line,           \* number of the step _start is at
  set,            \* pointers in `kernel' that are not null
  idx, header,    \* a walk over a table: its counter, the entry it looks at
  found,          \* what the walks returned, 0 for the null pointer
  cpu_s,          \* what cpu::check_state returned
  screen,         \* failures that can be read on the screen
  halted,         \* why the kernel stopped, "no" while it runs
  used,           \* pointers the last step dereferenced
  gates,          \* vectors of the loaded interrupt table
  flag, unmasked, lapic,    \* IF, redirection entries, local APIC
  interrupts      \* number of interrupts so far

walk == <<idx, header, found>>
outcome == <<screen, halted>>
apic == <<flag, unmasked, lapic>>
vars == <<machine, line, set, walk, cpu_s, outcome, used, gates, apic, interrupts>>

Pointers == {"stack", "acpi_rsdp", "keyboard", "mmap", "framebuffer", "memory", "console", "pmem",
             "gdt", "idt", "madt", "lapic", "ioapic", "hpet", "paging", "heap"}
Tables == {"madt", "lapic", "ioapic", "hpet"}
Features == <<"FPU", "MSR", "LAPIC", "LONG_MODE">>

(* bd: was _start given the address of the bootloader's data?  entries: is *)
(* the memory map not empty?  fb: has the framebuffer an address?          *)
(* revision, rsdp, rsdt: what the RSDP and the two signatures are; length: *)
(* that of the RSDT; sdts: signatures of the tables it lists; madt: types  *)
(* of the MADT's entries; behind, beyond: what the memory behind the two   *)
(* would read as; zero: entries of the MADT and beyond whose length is 0;  *)
(* missing: CPU features; clean: was the stack memory of the interrupt     *)
(* table zero?                                                             *)
WellFormedMachine(m) ==
  /\ {m.bd, m.entries, m.fb, m.rsdp, m.rsdt, m.clean} \subseteq BOOLEAN
  /\ m.revision \in Nat
  /\ m.length \in 0..(SIZE_MOD - 1)
  /\ m.sdts \in Seq({"APIC", "HPET", "other"})
  /\ Len(m.sdts) = IF m.length >= RSDT_SZ THEN (m.length - RSDT_SZ) \div 4 ELSE 0
  /\ m.behind \in Seq({"APIC", "HPET", "other"})
  /\ m.madt \in Seq({"CPU_LAPIC", "IO_APIC", "other"})
  /\ m.beyond \in Seq({"CPU_LAPIC", "IO_APIC", "other"})
  /\ m.zero \subseteq Nat
  /\ m.missing \subseteq Range(Features)

ASSUME StartAssumption ==
  /\ LIMIT \in Nat /\ MaxInterrupts \in Nat
  /\ RSDT_SZ \in Nat /\ SIZE_MOD \in Nat \ {0}
  /\ \A m \in Machines : WellFormedMachine(m)

-----------------------------------------------------------------------------
(* The order of _start. *)
(* A faulty order that turns on interrupts before the tables are found. *)
StartInterruptsEarly ==
  <<"stack", "mmap", "framebuffer", "console", "pmem", "cpu", "gdt", "idt",
    "version", "verify_rsdp", "verify_rsdt", "pic", "sti", "ioapic_init", "lapic_init",
    "madt", "lapic", "ioapic", "hpet", "paging", "lapic_info", "heap", "malloc", "ps2">>

_start ==
  <<"stack", "mmap", "framebuffer", "console", "pmem", "cpu", "gdt", "idt",
    "version", "verify_rsdp", "verify_rsdt", "madt", "lapic", "ioapic", "hpet",
    "paging", "lapic_info", "pic", "sti", "ioapic_init", "lapic_init", "heap", "malloc", "ps2">>

(* The pointers a step dereferences.  "lapic_info" walks to the entry      *)
(* kernel.acpi_tables.lapic points to once more, and reads it.             *)
Uses(step) ==
  CASE step = "console" -> {"framebuffer"}
    [] step = "pmem" -> {"mmap", "memory", "stack", "console"}
    [] step = "idt" -> {"console", "keyboard"}
    [] step \in {"cpu", "gdt", "ps2"} -> {"console"}
    [] step \in {"version", "verify_rsdp", "verify_rsdt"} -> {"acpi_rsdp", "framebuffer", "console"}
    [] step = "madt" -> {"acpi_rsdp"}
    [] step \in {"lapic", "ioapic"} -> {"madt"}
    [] step = "hpet" -> {"acpi_rsdp", "console"}
    [] step = "paging" -> {"mmap", "framebuffer", "madt", "ioapic", "hpet", "pmem", "console"}
    [] step = "lapic_info" -> {"madt", "lapic", "console"}
    [] step = "ioapic_init" -> {"ioapic"}
    [] step = "lapic_init" -> {"madt"}
    [] step = "heap" -> {"pmem", "paging", "console"}
    [] step = "malloc" -> {"heap", "pmem", "paging", "console"}
    [] OTHER -> {}

(* The pointers a step sets. *)
Sets(step) ==
  CASE step = "stack" -> {"stack", "acpi_rsdp", "keyboard"}
    [] step = "framebuffer" -> {"framebuffer", "memory"}
    [] step \in Pointers \ {"stack", "framebuffer"} -> {step}
    [] OTHER -> {}

(* The pointers a handler dereferences; the end of interrupt is written to *)
(* the address in the MADT.                                                *)
HandlerUses(vector) ==
  CASE vector = "KEYBOARD" -> {"keyboard", "console", "madt"}
    [] vector = "PAGE_FAULT" -> {"console"}

Init ==
  /\ machine \in Machines
  /\ line = 1 /\ set = {} /\ used = {}
  /\ idx = 0 /\ header = 1 /\ found = [t \in Tables |-> 0] /\ cpu_s = "none"
  /\ screen = {} /\ halted = "no"
  /\ gates = {} /\ flag = FALSE /\ unmasked = FALSE /\ lapic \in BOOLEAN
  /\ interrupts = 0

Done == line > Len(_start)
At(step) == halted = "no" /\ ~Done /\ _start[line] = step

Finish(step) == line' = line + 1 /\ used' = Uses(step) /\ set' = set \cup Sets(step)

(* __assertion_failed calls the overload of kpanic that clears the screen  *)
(* and shows what failed, and spins.  __prepare_kpanic does not ask        *)
(* whether there is a framebuffer and a console: an assertion that fails   *)
(* before goes through two null pointers, and if the kernel survives that  *)
(* the assertion at the start of __printf sends it there again, and again. *)
AssertionFailed(what) ==
  /\ used' = Uses(what) \cup {"framebuffer", "console"}
  /\ IF {"framebuffer", "console"} \subseteq set
       THEN halted' = "assertion" /\ screen' = {what}
       ELSE halted' = "lost" /\ UNCHANGED screen
  /\ UNCHANGED <<line, set>>

(* So does kpanic, which returns. *)
kpanic(what) == screen' = {what} /\ UNCHANGED halted

-----------------------------------------------------------------------------
(* Constructors.                                                           *)

(* The step is done; its assertion, if any, holds. *)
Construct ==
  /\ \E step \in {"stack", "mmap", "framebuffer", "console", "pmem", "gdt",
                  "paging", "lapic_info", "pic", "heap", "malloc", "ps2"} :
       /\ At(step) /\ Finish(step)
       /\ (step = "stack" => machine.bd)
       /\ (step = "mmap" => machine.entries) /\ (step = "framebuffer" => machine.fb)
  /\ UNCHANGED <<machine, walk, cpu_s, outcome, gates, apic, interrupts>>

ConstructFails ==
  /\ \E step \in {"stack", "mmap", "framebuffer", "pmem", "paging", "heap", "malloc"} :
       /\ At(step) /\ AssertionFailed(step)
       /\ (step = "stack" => ~machine.bd)
       /\ (step = "mmap" => ~machine.entries) /\ (step = "framebuffer" => ~machine.fb)
  /\ UNCHANGED <<machine, walk, cpu_s, gates, apic, interrupts>>

(* The processor enters a handler, whose effect is given.  add_int leaves  *)
(* fields of the gate unwritten, which are what the stack held: if that    *)
(* was not zero the processor may find no valid gate, and resets.          *)
Enter(vector, handler) ==
  /\ used' = HandlerUses(vector)
  /\ \/ vector \in gates /\ handler
     \/ (vector \notin gates \/ ~machine.clean) /\ halted' = "reset" /\ UNCHANGED screen

(* The first feature that is missing, in the order of the tests. *)
check_state ==
  IF machine.missing = {} THEN "SUCCESS"
  ELSE Features[Min({f \in DOMAIN Features : Features[f] \in machine.missing})]

(* An error is printed and _start goes on.  Nothing reads what             *)
(* cpu::get_info has put into devices.cpu before.                          *)
CheckCpu ==
  /\ At("cpu") /\ Finish("cpu") /\ cpu_s' = check_state
  /\ screen' = IF cpu_s' # "SUCCESS" THEN screen \cup {"cpu"} ELSE screen
  /\ UNCHANGED <<machine, walk, halted, gates, apic, interrupts>>

(* A faulty constructor that forgets the page fault. *)
LoadIdtNoPageFault ==
  /\ At("idt") /\ Finish("idt")
  /\ gates' = {"DIVISION_BY_ZERO", "TIMER", "KEYBOARD", "SPURIOUS"}
  /\ UNCHANGED <<machine, walk, cpu_s, outcome, apic, interrupts>>

(* The constructor of IDT writes some fields of five entries, and the      *)
(* processor reads all of them.                                            *)
LoadIdt ==
  /\ At("idt") /\ Finish("idt")
  /\ gates' = {"DIVISION_BY_ZERO", "PAGE_FAULT", "TIMER", "KEYBOARD", "SPURIOUS"}
  /\ UNCHANGED <<machine, walk, cpu_s, outcome, apic, interrupts>>

-----------------------------------------------------------------------------
(* ACPI.                                                                   *)

get_version ==
  CASE machine.revision = 0 -> "VER_1"
    [] machine.revision = 2 -> "VER_2"
    [] OTHER -> "UNKNOWN"

(* A faulty check of the RSDT that looks at the RSDP. *)
ChecksRsdpTwice(step) ==
  CASE step = "version" -> get_version # "UNKNOWN"
    [] step = "verify_rsdp" -> machine.rsdp
    [] step = "verify_rsdt" -> machine.rsdp

Checks(step) ==
  CASE step = "version" -> get_version # "UNKNOWN"
    [] step = "verify_rsdp" -> machine.rsdp
    [] step = "verify_rsdt" -> machine.rsdt

(* kpanic returns, and _start goes on with tables it has not verified. *)
Verify ==
  /\ \E step \in {"version", "verify_rsdp", "verify_rsdt"} :
       /\ At(step) /\ Finish(step)
       /\ IF Checks(step) THEN UNCHANGED outcome ELSE kpanic(step)
  /\ UNCHANGED <<machine, walk, cpu_s, gates, apic, interrupts>>

Wanted(t) ==
  CASE t = "madt" -> "APIC" [] t = "hpet" -> "HPET"
    [] t = "lapic" -> "CPU_LAPIC" [] t = "ioapic" -> "IO_APIC"

Listed(m, t) == IF t \in {"madt", "hpet"} THEN m.sdts ELSE m.madt

(* sdt::get_header computes the number of entries from the RSDT's length,  *)
(* unsigned; ics::get_header looks LIMIT times whatever the length of the  *)
(* MADT.                                                                   *)
EntriesOf(m, t) ==
  IF t \in {"madt", "hpet"} THEN ((m.length - RSDT_SZ) % SIZE_MOD) \div 4 ELSE LIMIT

EntryOf(m, t, n) ==
  LET memory == IF t \in {"madt", "hpet"} THEN m.sdts \o m.behind ELSE m.madt \o m.beyond
  IN  IF n \in DOMAIN memory THEN memory[n] ELSE "other"

(* An entry of length 0: the next one is the same again. *)
Stays(m, t, n) == t \in {"lapic", "ioapic"} /\ n \in m.zero

Entries(t) == EntriesOf(machine, t)
EntryAt(t, n) == EntryOf(machine, t, n)

(* A faulty walk that starts the search for the next table where the last  *)
(* one ended.                                                              *)
WalkFoundStays ==
  /\ \E t \in Tables :
       /\ At(t) /\ idx < Entries(t) /\ EntryAt(t, header) = Wanted(t)
       /\ Finish(t) /\ found' = [found EXCEPT ![t] = header] /\ UNCHANGED <<idx, header>>
  /\ UNCHANGED <<machine, cpu_s, outcome, gates, apic, interrupts>>

(* get_header returns the entry. *)
WalkFound ==
  /\ \E t \in Tables :
       /\ At(t) /\ idx < Entries(t) /\ EntryAt(t, header) = Wanted(t)
       /\ Finish(t) /\ found' = [found EXCEPT ![t] = header]
  /\ idx' = 0 /\ header' = 1
  /\ UNCHANGED <<machine, cpu_s, outcome, gates, apic, interrupts>>

(* A faulty walk over the entries of the MADT that ends with the table and *)
(* not after LIMIT looks.                                                  *)
WalkStuck ==
  /\ \E t \in Tables :
       /\ At(t) /\ idx < Entries(t) /\ EntryAt(t, header) # Wanted(t) /\ used' = Uses(t)
       /\ header' = IF Stays(machine, t, header) THEN header ELSE header + 1
       /\ idx' = header' - 1
  /\ UNCHANGED <<machine, line, set, found, cpu_s, outcome, gates, apic, interrupts>>

(* The loop goes on to the next entry. *)
WalkOn ==
  /\ \E t \in Tables :
       /\ At(t) /\ idx < Entries(t) /\ EntryAt(t, header) # Wanted(t) /\ used' = Uses(t)
       /\ header' = IF Stays(machine, t, header) THEN header ELSE header + 1
  /\ idx' = idx + 1
  /\ UNCHANGED <<machine, line, set, found, cpu_s, outcome, gates, apic, interrupts>>

(* get_header returns null and the assertion behind it fails. *)
WalkNull ==
  /\ \E t \in Tables : At(t) /\ idx >= Entries(t) /\ AssertionFailed(t)
  /\ UNCHANGED <<machine, walk, cpu_s, gates, apic, interrupts>>

(* Once CR3 is loaded, paging, the heap or the look at the MADT touches a  *)
(* page that is not mapped, or before that a walk that has left its table  *)
(* does; the handler of the page fault prints and spins.                   *)
PageFault ==
  /\ \/ \E step \in {"paging", "lapic_info", "heap", "malloc"} : At(step)
     \/ \E t \in Tables : At(t) /\ idx < Entries(t) /\ header > Len(Listed(machine, t))
  /\ Enter("PAGE_FAULT", halted' = "page fault" /\ screen' = screen \cup {"page fault"})
  /\ UNCHANGED <<machine, line, set, walk, cpu_s, gates, apic, interrupts>>

-----------------------------------------------------------------------------
(* Interrupts.                                                             *)

enable_external_interrupts ==
  /\ At("sti") /\ Finish("sti") /\ flag' = TRUE
  /\ UNCHANGED <<machine, walk, cpu_s, outcome, gates, unmasked, lapic, interrupts>>

ioapic_init ==
  /\ At("ioapic_init") /\ Finish("ioapic_init") /\ unmasked' = TRUE
  /\ UNCHANGED <<machine, walk, cpu_s, outcome, gates, flag, lapic, interrupts>>

lapic_init ==
  /\ At("lapic_init") /\ Finish("lapic_init") /\ lapic' = TRUE
  /\ UNCHANGED <<machine, walk, cpu_s, outcome, gates, flag, unmasked, interrupts>>

(* A key is pressed and keyboard_handler runs, between two steps of _start *)
(* or in a loop, that at its end or that of __assertion_failed.    *)
(* The firmware may have left the local APIC enabled.                      *)
KeyboardInterrupt ==
  /\ halted \in {"no", "assertion"} /\ flag /\ unmasked /\ lapic /\ interrupts < MaxInterrupts
  /\ Enter("KEYBOARD", UNCHANGED outcome)
  /\ interrupts' = interrupts + 1
  /\ UNCHANGED <<machine, line, set, walk, cpu_s, gates, apic>>

(* The loop at the end of _start, the loop behind a failed assertion. *)
Loop == (Done \/ halted # "no") /\ UNCHANGED vars

Step == \/ Construct \/ ConstructFails \/ PageFault \/ CheckCpu \/ LoadIdt
        \/ Verify \/ WalkFound \/ WalkOn \/ WalkNull
        \/ enable_external_interrupts \/ ioapic_init \/ lapic_init

Next == Step \/ KeyboardInterrupt \/ Loop

(* The processor executes _start. *)
Spec == Init /\ [][Next]_vars /\ WF_vars(Step)

-----------------------------------------------------------------------------
(* Properties.                                                             *)

(* The fields keep their types; a walk stays within its bound. *)
TypeOK ==
  /\ set \subseteq Pointers /\ used \subseteq Pointers
  /\ line \in 1..(Len(_start) + 1)
  /\ idx \in 0..Max({LIMIT, Entries("madt")}) /\ header \in 1..(idx + 1)
  /\ found \in [Tables -> Nat]
  /\ cpu_s \in {"none", "SUCCESS"} \cup Range(Features)
  /\ halted \in {"no", "assertion", "lost", "page fault", "reset"}
  /\ {flag, unmasked, lapic} \subseteq BOOLEAN /\ interrupts \in 0..MaxInterrupts

(* The bootloader has handed over what _start needs before it has a        *)
(* console.                                                                *)
HandedOver == machine.bd /\ machine.entries /\ machine.fb

(* Neither a step of _start nor a handler that interrupts it dereferences  *)
(* a pointer of `kernel' that is still null: the constructors come in an   *)
(* order that serves each of them, and interrupts are accepted only once   *)
(* everything the keyboard's handler uses is there.  The one exception is  *)
(* the report of an assertion that fails before there is a console         *)
(* (__prepare_kpanic), and it needs a bootloader that has not handed over  *)
(* its data, a memory map or a framebuffer.                                *)
NothingUsedBeforeSet ==
  \/ used \subseteq set
  \/ ~HandedOver /\ halted = "lost" /\ used = {"framebuffer", "console"}

(* The entries a walk can come to: none behind one of length 0. *)
Reached(m, t) == {n \in 1..EntriesOf(m, t) : \A k \in 1..(n - 1) : ~Stays(m, t, k)}

(* A pointer to a table is that of the first entry of its kind, if the     *)
(* table lists one among those the walk comes to.  If it lists none the    *)
(* pointer is not null, as the comments of both get_header say, only       *)
(* because of what lies behind the table: the walk over the MADT does not  *)
(* know its length, that over the RSDT takes a length below the header's   *)
(* for a huge one.                                                         *)
TablesExact ==
  \A t \in Tables \cap set :
    LET places == {n \in DOMAIN Listed(machine, t) :
                     Listed(machine, t)[n] = Wanted(t) /\ n \in Reached(machine, t)}
    IN  IF places # {} THEN found[t] = Min(places)
        ELSE /\ found[t] > Len(Listed(machine, t))
             /\ t \in {"madt", "hpet"} => machine.length < RSDT_SZ

(* The kernel stops only for a cause: a reset needs gates filled with what *)
(* was on the stack, a failure that shows nothing needs a bootloader that  *)
(* has not handed over what _start needs, and an assertion on a table      *)
(* fails only if no entry of that kind is among those the walk comes to.   *)
StopsForCause ==
  /\ halted = "reset" => ~machine.clean
  /\ halted = "lost" => ~HandedOver
  /\ \A t \in Tables \cap screen : Wanted(t) \notin {EntryAt(t, n) : n \in Reached(machine, t)}

(* The machine does not pass the check that a step of _start makes. *)
Fails(step) ==
  CASE step = "cpu" -> machine.missing # {}
    [] step = "version" -> machine.revision \notin {0, 2}
    [] step = "verify_rsdp" -> ~machine.rsdp
    [] step = "verify_rsdt" -> ~machine.rsdt
    [] OTHER -> FALSE

(* _start goes on after a check of the CPU or of ACPI has failed, but not  *)
(* in silence: when it turns on interrupts the screen shows the last check *)
(* that failed (kpanic has cleared away the ones before it), shows nothing *)
(* if none failed, and the CPU's error is that of a feature it lacks.  The *)
(* variables keep their types: a walk stays within its bound.              *)
FailuresShown ==
  /\ TypeOK
  /\ At("sti") =>
       LET failed == {n \in DOMAIN _start : Fails(_start[n])}
       IN  /\ screen = {_start[n] : n \in {m \in failed : \A k \in failed : k <= m}}
           /\ cpu_s \in IF machine.missing = {} THEN {"SUCCESS"} ELSE machine.missing

(* _start comes to its loop or stops, however the tables look and whatever *)
(* interrupts it: every walk over a table ends.  An entry of length 0 does *)
(* not hold up the walk over the MADT, because it counts.  The walk over   *)
(* an RSDT whose length is below that of its header does end, but only     *)
(* after some SIZE_MOD \div 4 entries, unless a page fault ends it before. *)
StartEnds == <>(Done \/ halted # "no")
=============================================================================
