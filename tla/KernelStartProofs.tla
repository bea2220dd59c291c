------------------------- MODULE KernelStartProofs -------------------------
(***************************************************************************)
(* Proofs for KernelStart, for every machine and every LIMIT.              *)
(*                                                                         *)
(* The inductive invariant says three things.  Ordered: what the steps     *)
(* before the current one set is set, so a step finds what it uses, and a  *)
(* handler does because interrupts are on only behind step 19.  Walking:   *)
(* the entries a walk has passed are not of the kind it looks for, nor is  *)
(* the one of length 0 it may be held up at.  Ended: what the walks left   *)
(* behind, and why the kernel stopped.  Two more, that rest on it:         *)
(* Showing, for what is on the screen, and Typed.                          *)
(***************************************************************************)
EXTENDS KernelStart, TLAPS

(* A step that names no prover is left to Zenon. *)
USE ZenonT(30)

Ordered ==
  /\ line \in 1..25
  /\ \A m \in 1..24 : m < line => Sets(_start[m]) \subseteq set
  /\ NothingUsedBeforeSet
  /\ flag => line > 19
  /\ line > 8 => {"PAGE_FAULT", "KEYBOARD"} \subseteq gates

Passes(t, last) == \A n \in 1..last : EntryAt(t, n) # Wanted(t) /\ ~Stays(machine, t, n)

Passing(t) ==
  /\ Passes(t, header - 1)
  /\ header # idx + 1 => Stays(machine, t, header) /\ EntryAt(t, header) # Wanted(t)

Walking ==
  /\ idx \in Nat /\ header \in 1..(idx + 1)
  /\ idx > 0 => line \in 12..15 /\ Passing(_start[line])

Absent(t) == \A n \in Reached(machine, t) : EntryAt(t, n) # Wanted(t)

Ended ==
  /\ found \in [Tables -> Nat]
  /\ \A t \in Tables \cap set :
       /\ found[t] \in 1..Entries(t) /\ EntryAt(t, found[t]) = Wanted(t)
       /\ Passes(t, found[t] - 1)
  /\ \A t \in Tables \cap screen : Absent(t)
  /\ halted = "reset" => ~machine.clean
  /\ halted = "lost" => ~HandedOver

StartInv == machine \in Machines /\ Ordered /\ Walking /\ Ended

-----------------------------------------------------------------------------
(* The order of the steps. *)
LEMMA StepNames ==
  /\ Len(_start) = 24
  /\ _start[1] = "stack" /\ _start[2] = "mmap" /\ _start[3] = "framebuffer"
  /\ _start[4] = "console" /\ _start[5] = "pmem" /\ _start[6] = "cpu"
  /\ _start[7] = "gdt" /\ _start[8] = "idt" /\ _start[9] = "version"
  /\ _start[10] = "verify_rsdp" /\ _start[11] = "verify_rsdt" /\ _start[12] = "madt"
  /\ _start[13] = "lapic" /\ _start[14] = "ioapic" /\ _start[15] = "hpet"
  /\ _start[16] = "paging" /\ _start[17] = "lapic_info" /\ _start[18] = "pic"
  /\ _start[19] = "sti" /\ _start[20] = "ioapic_init" /\ _start[21] = "lapic_init"
  /\ _start[22] = "heap" /\ _start[23] = "malloc" /\ _start[24] = "ps2"
BY DEF _start

(* A step is at one place in the order. *)
LEMMA StepPlace ==
  ASSUME Ordered, NEW step, At(step)
  PROVE  /\ line \in 1..24 /\ _start[line] = step
         /\ step = "stack" => line = 1
         /\ step = "mmap" => line = 2
         /\ step = "framebuffer" => line = 3
         /\ step = "console" => line = 4
         /\ step = "pmem" => line = 5
         /\ step = "cpu" => line = 6
         /\ step = "gdt" => line = 7
         /\ step = "idt" => line = 8
         /\ step \in {"version", "verify_rsdp", "verify_rsdt"} => line \in 9..11
         /\ step = "madt" => line = 12
         /\ step \in {"lapic", "ioapic"} => line \in 13..14
         /\ step = "hpet" => line = 15
         /\ step = "paging" => line = 16
         /\ step = "lapic_info" => line = 17
         /\ step = "pic" => line = 18
         /\ step = "sti" => line = 19
         /\ step = "ioapic_init" => line = 20
         /\ step = "lapic_init" => line = 21
         /\ step = "heap" => line = 22
         /\ step = "malloc" => line = 23
         /\ step = "ps2" => line = 24
<1>1. line \in 1..24 /\ _start[line] = step
  BY StepNames, SMTT(30) DEF Ordered, At, Done
<1>2. \/ line = 1 \/ line = 2 \/ line = 3 \/ line = 4 \/ line = 5 \/ line = 6 \/ line = 7
      \/ line = 8 \/ line = 9 \/ line = 10 \/ line = 11 \/ line = 12 \/ line = 13 \/ line = 14
      \/ line = 15 \/ line = 16 \/ line = 17 \/ line = 18 \/ line = 19 \/ line = 20 \/ line = 21
      \/ line = 22 \/ line = 23 \/ line = 24
  BY <1>1, SMTT(30)
<1> QED BY <1>1, <1>2, StepNames, SMTT(30)

(* What is set when the order has come to a place. *)
LEMMA SetBefore ==
  ASSUME Ordered
  PROVE  /\ line > 1 => {"stack", "acpi_rsdp", "keyboard"} \subseteq set
         /\ line > 2 => "mmap" \in set
         /\ line > 3 => {"framebuffer", "memory"} \subseteq set
         /\ line > 4 => "console" \in set
         /\ line > 5 => "pmem" \in set
         /\ line > 12 => "madt" \in set
         /\ line > 13 => "lapic" \in set
         /\ line > 14 => "ioapic" \in set
         /\ line > 15 => "hpet" \in set
         /\ line > 16 => "paging" \in set
         /\ line > 22 => "heap" \in set
<1>1. /\ Sets(_start[1]) = {"stack", "acpi_rsdp", "keyboard"}
      /\ Sets(_start[2]) = {"mmap"}
      /\ Sets(_start[3]) = {"framebuffer", "memory"}
      /\ Sets(_start[4]) = {"console"}
      /\ Sets(_start[5]) = {"pmem"}
  BY StepNames, SMTT(30) DEF Sets, Pointers
<1>2. /\ Sets(_start[12]) = {"madt"}
      /\ Sets(_start[13]) = {"lapic"}
      /\ Sets(_start[14]) = {"ioapic"}
      /\ Sets(_start[15]) = {"hpet"}
      /\ Sets(_start[16]) = {"paging"}
      /\ Sets(_start[22]) = {"heap"}
  BY StepNames, SMTT(30) DEF Sets, Pointers
<1> QED BY <1>1, <1>2, SMTT(30) DEF Ordered

(* A step finds the pointers it uses. *)
LEMMA UsesSet ==
  ASSUME Ordered, NEW step, At(step)
  PROVE  Uses(step) \subseteq set
<1>1. CASE step \in {"console", "pmem", "idt", "cpu", "gdt", "ps2"}
  BY <1>1, StepPlace, SetBefore, SMTT(30) DEF Uses
<1>2. CASE step \in {"version", "verify_rsdp", "verify_rsdt", "madt"}
  BY <1>2, StepPlace, SetBefore, SMTT(30) DEF Uses
<1>3. CASE step \in {"lapic", "ioapic", "hpet"}
  BY <1>3, StepPlace, SetBefore, SMTT(30) DEF Uses
<1>4. CASE step \in {"paging", "lapic_info", "ioapic_init", "lapic_init", "heap", "malloc"}
  BY <1>4, StepPlace, SetBefore, SMTT(30) DEF Uses
<1>5. CASE step \in {"stack", "mmap", "framebuffer", "pic", "sti"}
  BY <1>5 DEF Uses
<1>6. step \in {"console", "pmem", "idt", "cpu", "gdt", "ps2"}
        \cup {"version", "verify_rsdp", "verify_rsdt", "madt"}
        \cup {"lapic", "ioapic", "hpet"}
        \cup {"paging", "lapic_info", "ioapic_init", "lapic_init", "heap", "malloc"}
        \cup {"stack", "mmap", "framebuffer", "pic", "sti"}
  <2>1. line \in 1..24 /\ _start[line] = step
    BY StepPlace
  <2>2. \/ line = 1 \/ line = 2 \/ line = 3 \/ line = 4 \/ line = 5 \/ line = 6 \/ line = 7
        \/ line = 8 \/ line = 9 \/ line = 10 \/ line = 11 \/ line = 12 \/ line = 13 \/ line = 14
        \/ line = 15 \/ line = 16 \/ line = 17 \/ line = 18 \/ line = 19 \/ line = 20 \/ line = 21
        \/ line = 22 \/ line = 23 \/ line = 24
    BY <2>1, SMTT(30)
  <2> QED BY <2>1, <2>2, StepNames, SMTT(30)
<1> QED BY <1>1, <1>2, <1>3, <1>4, <1>5, <1>6

(* The end of a step keeps the order. *)
LEMMA FinishOrdered ==
  ASSUME Ordered, NEW step, At(step), Finish(step),
         flag' => flag \/ step = "sti",
         gates' = gates \/ step = "idt",
         step = "idt" => {"PAGE_FAULT", "KEYBOARD"} \subseteq gates'
  PROVE  Ordered'
<1>1. /\ line' = line + 1 /\ line \in 1..24 /\ _start[line] = step
      /\ set' = set \cup Sets(step) /\ used' = Uses(step)
  BY StepPlace DEF Finish
<1>2. NothingUsedBeforeSet'
  BY <1>1, UsesSet DEF NothingUsedBeforeSet
<1>3. \A m \in 1..24 : m < line' => Sets(_start[m]) \subseteq set'
  BY <1>1, SMTT(30) DEF Ordered
<1>4. flag' => line' > 19
  BY <1>1, StepPlace, SMTT(30) DEF Ordered
<1>5. line' > 8 => {"PAGE_FAULT", "KEYBOARD"} \subseteq gates'
  BY <1>1, StepPlace, StepNames, SMTT(30) DEF Ordered
<1> QED BY <1>1, <1>2, <1>3, <1>4, <1>5, SMTT(30) DEF Ordered

(* An action that is no walk keeps what the walks have done. *)
LEMMA KeepsWalks ==
  ASSUME StartInv, machine' = machine, UNCHANGED walk,
         line' = line \/ line \notin 12..15,
         Tables \cap set' \subseteq set, Tables \cap screen' \subseteq screen,
         halted' = "reset" => ~machine.clean,
         halted' = "lost" => ~HandedOver
  PROVE  machine' \in Machines /\ Walking' /\ Ended'
<1>1. Walking'
  BY DEF StartInv, Walking, walk, Passing, Passes, EntryAt
<1>2. Ended'
  BY DEF StartInv, Ended, walk, Passes, Absent, EntryAt, Entries, HandedOver
<1> QED BY <1>1, <1>2 DEF StartInv

(* A failed assertion is shown, or there is no console yet. *)
LEMMA FailedOrdered ==
  ASSUME Ordered, NEW step, At(step), AssertionFailed(step), UNCHANGED <<machine, gates, flag>>,
         step \in {"stack", "mmap", "framebuffer"} => ~HandedOver, step # "console"
  PROVE  /\ Ordered'
         /\ \/ halted' = "assertion" /\ screen' = {step}
            \/ /\ halted' = "lost" /\ UNCHANGED screen
               /\ step \in {"stack", "mmap", "framebuffer"}
<1>0. ASSUME UNCHANGED <<line, set, gates, flag>>, NothingUsedBeforeSet' PROVE Ordered'
  <2>1. line' = line /\ set' = set /\ gates' = gates /\ flag' = flag
    BY <1>0
  <2>2. line' \in 1..25 /\ (line' > 8 => {"PAGE_FAULT", "KEYBOARD"} \subseteq gates')
    BY <2>1 DEF Ordered
  <2>3. ASSUME flag' PROVE line' > 19
    <3>1. flag
      BY <1>0, <2>3
    <3> QED BY <2>1, <3>1 DEF Ordered
  <2>4. \A m \in 1..24 : m < line' => Sets(_start[m]) \subseteq set'
    BY <2>1 DEF Ordered
  <2> QED BY <1>0, <2>2, <2>3, <2>4 DEF Ordered
<1>1. /\ UNCHANGED <<line, set, machine, gates, flag>>
      /\ used' = Uses(step) \cup {"framebuffer", "console"}
  BY DEF AssertionFailed
<1>2. CASE {"framebuffer", "console"} \subseteq set
  <2>1. NothingUsedBeforeSet'
    BY <1>1, <1>2, UsesSet DEF NothingUsedBeforeSet
  <2>2. halted' = "assertion" /\ screen' = {step}
    BY <1>2 DEF AssertionFailed
  <2>3. Ordered'
    BY <1>1, <2>1, <1>0
  <2> QED BY <2>2, <2>3
<1>3. CASE ~({"framebuffer", "console"} \subseteq set)
  <2>1. step \in {"stack", "mmap", "framebuffer"}
    <3>1. ~(line > 3 /\ line > 4)
      BY <1>3, SetBefore
    <3>2. line = 1 \/ line = 2 \/ line = 3 \/ line = 4
      BY <3>1, SMTT(30) DEF Ordered
    <3>3. _start[line] = step
      BY StepPlace
    <3> QED BY <3>2, <3>3, StepNames
  <2>2. Uses(step) = {}
    BY <2>1 DEF Uses
  <2>3. halted' = "lost" /\ UNCHANGED screen
    BY <1>3 DEF AssertionFailed
  <2>4. NothingUsedBeforeSet'
    BY <1>1, <2>1, <2>2, <2>3 DEF NothingUsedBeforeSet, HandedOver
  <2>5. Ordered'
    BY <1>1, <2>4, <1>0
  <2> QED BY <2>1, <2>3, <2>5
<1> QED BY <1>2, <1>3

(* A walk over a table. *)
LEMMA EntriesNat == ASSUME NEW m \in Machines, NEW t PROVE EntriesOf(m, t) \in Nat
<1>1. m.length \in Int /\ RSDT_SZ \in Nat /\ SIZE_MOD \in Nat \ {0} /\ LIMIT \in Nat
  <2>1. SIZE_MOD \in Nat /\ m.length \in 0..(SIZE_MOD - 1)
    BY StartAssumption DEF WellFormedMachine
  <2> QED BY <2>1, StartAssumption, SMTT(30)
<1>2. ASSUME NEW x \in Int, NEW y \in Nat \ {0} PROVE x % y \in Nat
  BY Z3
<1>3. ASSUME NEW x \in Nat PROVE x \div 4 \in Nat
  BY SMTT(30)
<1>4. m.length - RSDT_SZ \in Int
  BY <1>1, SMTT(30)
<1>5. (m.length - RSDT_SZ) % SIZE_MOD \in Nat
  BY <1>1, <1>2, <1>4
<1> QED BY <1>1, <1>3, <1>5 DEF EntriesOf

LEMMA OnTheWay ==
  ASSUME Ordered, Walking, NEW t \in Tables, At(t)
  PROVE  /\ _start[line] = t /\ line \in 12..15
         /\ idx \in Nat /\ header \in 1..(idx + 1) /\ Passing(t)
<1>1. _start[line] = t /\ line \in 12..15
  BY StepPlace, SMTT(30) DEF Tables
<1>2. idx \in Nat /\ header \in 1..(idx + 1)
  BY DEF Walking
<1>3. CASE idx > 0
  BY <1>1, <1>2, <1>3 DEF Walking
<1>4. CASE ~(idx > 0)
  <2>1. header - 1 = 0 /\ header = idx + 1
    BY <1>2, <1>4, SMTT(30)
  <2>2. 1..0 = {}
    BY SMTT(30)
  <2> QED BY <1>1, <1>2, <2>1, <2>2 DEF Passing, Passes
<1> QED BY <1>3, <1>4

(* The entry a walk finds is one it looks at for the first time. *)
LEMMA FoundNew ==
  ASSUME Ordered, Walking, machine \in Machines, NEW t \in Tables, At(t), idx < Entries(t),
         EntryAt(t, header) = Wanted(t)
  PROVE  header \in 1..EntriesOf(machine, t) /\ header \in Nat /\ Passes(t, header - 1)
<1>1. idx \in Nat /\ header \in 1..(idx + 1) /\ Passes(t, header - 1) /\ header = idx + 1
  BY OnTheWay DEF Passing
<1>2. EntriesOf(machine, t) \in Nat /\ idx < EntriesOf(machine, t)
  BY EntriesNat DEF Entries
<1> QED BY <1>1, <1>2, SMTT(30)

(* A walk that looks on passes an entry, or is held up at it. *)
LEMMA WalksOn ==
  ASSUME Ordered, Walking, machine' = machine, NEW t \in Tables, At(t),
         EntryAt(t, header) # Wanted(t), line' = line, idx' = idx + 1,
         header' = IF Stays(machine, t, header) THEN header ELSE header + 1
  PROVE  Walking'
<1>1. /\ _start[line] = t /\ line \in 12..15
      /\ idx \in Nat /\ header \in 1..(idx + 1) /\ Passing(t)
  BY OnTheWay
<1>2. idx' \in Nat /\ header' \in 1..(idx' + 1)
  BY <1>1, SMTT(30)
<1>3. CASE Stays(machine, t, header)
  <2>1. header' = header
    BY <1>3
  <2>2. Passing(t)'
    BY <1>1, <1>3, <2>1 DEF Passing, Passes, EntryAt
  <2> QED BY <1>1, <1>2, <2>2 DEF Walking
<1>4. CASE ~Stays(machine, t, header)
  <2>1. header' = header + 1
    BY <1>4
  <2>2. \A n \in 1..header : EntryOf(machine, t, n) # Wanted(t) /\ ~Stays(machine, t, n)
    <3>1. \A n \in 1..header : n = header \/ n \in 1..(header - 1)
      BY <1>1, SMTT(30)
    <3> QED BY <1>1, <1>4, <3>1 DEF Passing, Passes, EntryAt
  <2>3. header' - 1 = header
    BY <1>1, <2>1, SMTT(30)
  <2>4. Passes(t, header - 1)'
    BY <2>2, <2>3 DEF Passes, EntryAt
  <2>5. header = idx + 1
    BY <1>1, <1>4 DEF Passing
  <2>6. header' = idx' + 1
    BY <2>1, <2>5
  <2> QED BY <1>1, <1>2, <2>4, <2>6 DEF Walking, Passing
<1> QED BY <1>3, <1>4

(* A walk that has ended has come to every entry it can come to. *)
LEMMA WalkOver ==
  ASSUME Ordered, Walking, machine \in Machines, NEW t \in Tables, At(t), idx >= Entries(t)
  PROVE  Absent(t)
<1>1. idx \in Nat /\ header \in 1..(idx + 1) /\ Passing(t)
  BY OnTheWay
<1>2. EntriesOf(machine, t) \in Nat /\ idx >= EntriesOf(machine, t)
  BY EntriesNat DEF Entries
<1> SUFFICES ASSUME NEW n \in Reached(machine, t) PROVE EntryAt(t, n) # Wanted(t)
  BY DEF Absent
<1>3. n \in 1..EntriesOf(machine, t) /\ \A k \in 1..(n - 1) : ~Stays(machine, t, k)
  BY DEF Reached
<1>4. n \in 1..(header - 1) \/ n = header \/ header \in 1..(n - 1)
  BY <1>1, <1>2, <1>3, SMTT(30)
<1>5. CASE n \in 1..(header - 1)
  BY <1>1, <1>5 DEF Passing, Passes
<1>6. CASE n \notin 1..(header - 1)
  <2>1. header # idx + 1
    BY <1>1, <1>2, <1>3, <1>6, SMTT(30)
  <2>2. Stays(machine, t, header) /\ EntryAt(t, header) # Wanted(t)
    BY <1>1, <2>1 DEF Passing
  <2> QED BY <1>3, <1>4, <1>6, <2>2
<1> QED BY <1>5, <1>6

(* The steps that are no walk set no table. *)
LEMMA SetsNoTable ==
  ASSUME NEW step \in {"stack", "mmap", "framebuffer", "console", "pmem", "cpu", "gdt", "idt",
                       "version", "verify_rsdp", "verify_rsdt", "paging", "lapic_info", "pic", "sti",
                       "ioapic_init", "lapic_init", "heap", "malloc", "ps2"}
  PROVE  Sets(step) \cap Tables = {}
<1>1. CASE step \in {"stack", "mmap", "framebuffer", "console", "pmem", "cpu", "gdt", "idt"}
  BY <1>1 DEF Sets, Tables, Pointers
<1>2. CASE step \in {"version", "verify_rsdp", "verify_rsdt", "paging", "lapic_info", "pic", "sti",
                     "ioapic_init", "lapic_init", "heap", "malloc", "ps2"}
  BY <1>2 DEF Sets, Tables, Pointers
<1> QED BY <1>1, <1>2

(* The first state satisfies the invariant. *)
LEMMA StartInitial == Init => StartInv
<1> SUFFICES ASSUME Init PROVE StartInv
  OBVIOUS
<1>1. Ordered
  <2>1. NothingUsedBeforeSet
    BY DEF Init, NothingUsedBeforeSet
  <2> QED BY <2>1, SMTT(30) DEF Init, Ordered
<1>2. Walking
  BY SMTT(30) DEF Init, Walking
<1>3. Ended
  BY DEF Init, Ended
<1> QED BY <1>1, <1>2, <1>3 DEF Init, StartInv

(* Every action keeps the invariant. *)
LEMMA StepKeeps ==
  ASSUME StartInv, Next
  PROVE  StartInv'
<1> USE DEF StartInv
<1>1. CASE Construct
  <2>1. PICK step \in {"stack", "mmap", "framebuffer", "console", "pmem", "gdt",
                       "paging", "lapic_info", "pic", "heap", "malloc", "ps2"} :
          At(step) /\ Finish(step)
    BY <1>1 DEF Construct
  <2>2. UNCHANGED <<machine, walk, outcome, gates, flag>>
    BY <1>1 DEF Construct, apic
  <2>3. Ordered'
    BY <2>1, <2>2, FinishOrdered
  <2>4. Tables \cap set' \subseteq set
    BY <2>1, SetsNoTable DEF Finish
  <2>5. line \notin 12..15
    BY <2>1, StepPlace, SMTT(30)
  <2>6. machine' \in Machines /\ Walking' /\ Ended'
    BY <2>2, <2>4, <2>5, KeepsWalks DEF outcome, Ended
  <2> QED BY <2>3, <2>6
<1>2. CASE ConstructFails
  <2>1. PICK step \in {"stack", "mmap", "framebuffer", "pmem", "paging", "heap", "malloc"} :
          /\ At(step) /\ AssertionFailed(step)
          /\ (step = "stack" => ~machine.bd)
          /\ (step = "mmap" => ~machine.entries) /\ (step = "framebuffer" => ~machine.fb)
    BY <1>2 DEF ConstructFails
  <2>2. UNCHANGED <<machine, walk, gates, flag, line, set>>
    BY <1>2, <2>1 DEF ConstructFails, AssertionFailed, apic
  <2>3. step \in {"stack", "mmap", "framebuffer"} => ~HandedOver
    BY <2>1 DEF HandedOver
  <2>4. /\ Ordered'
        /\ \/ halted' = "assertion" /\ screen' = {step}
           \/ /\ halted' = "lost" /\ UNCHANGED screen
              /\ step \in {"stack", "mmap", "framebuffer"}
    BY <2>1, <2>2, <2>3, FailedOrdered
  <2>5. Tables \cap screen' \subseteq screen
    BY <2>1, <2>4 DEF Tables
  <2>6. machine' \in Machines /\ Walking' /\ Ended'
    BY <2>2, <2>3, <2>4, <2>5, KeepsWalks
  <2> QED BY <2>4, <2>6
<1>3. CASE PageFault
  <2>1. UNCHANGED <<machine, walk, gates, flag, line, set>>
    BY <1>3 DEF PageFault, apic
  <2>2. line > 8
    <3>1. PICK step \in {"paging", "lapic_info", "heap", "malloc"} \cup Tables : At(step)
      BY <1>3 DEF PageFault
    <3>2. step \in {"paging", "lapic_info", "heap", "malloc", "madt", "lapic", "ioapic", "hpet"}
      BY DEF Tables
    <3> QED BY <3>1, <3>2, StepPlace, SMTT(30)
  <2>3. "console" \in set /\ "PAGE_FAULT" \in gates
    BY <2>2, SetBefore, SMTT(30) DEF Ordered
  <2>4. used' = {"console"}
    BY <1>3 DEF PageFault, Enter, HandlerUses
  <2>5. Ordered'
    BY <2>1, <2>3, <2>4 DEF Ordered, NothingUsedBeforeSet
  <2>6. /\ halted' = "page fault" \/ (halted' = "reset" /\ ~machine.clean)
        /\ screen' = screen \cup {"page fault"} \/ screen' = screen
    BY <1>3, <2>3 DEF PageFault, Enter
  <2>7. machine' \in Machines /\ Walking' /\ Ended'
    BY <2>1, <2>6, KeepsWalks DEF Tables
  <2> QED BY <2>5, <2>7
<1>4. CASE CheckCpu
  <2>1. /\ At("cpu") /\ Finish("cpu") /\ UNCHANGED <<machine, walk, halted, gates, flag>>
        /\ screen' = screen \cup {"cpu"} \/ screen' = screen
    BY <1>4 DEF CheckCpu, apic
  <2>2. Ordered'
    BY <2>1, FinishOrdered
  <2>3. Tables \cap set' \subseteq set /\ line \notin 12..15
    BY <2>1, SetsNoTable, StepPlace, SMTT(30) DEF Finish
  <2>4. machine' \in Machines /\ Walking' /\ Ended'
    BY <2>1, <2>3, KeepsWalks DEF Tables, Ended
  <2> QED BY <2>2, <2>4
<1>5. CASE LoadIdt
  <2>1. /\ At("idt") /\ Finish("idt") /\ UNCHANGED <<machine, walk, outcome, flag>>
        /\ {"PAGE_FAULT", "KEYBOARD"} \subseteq gates'
    BY <1>5 DEF LoadIdt, apic
  <2>2. Ordered'
    BY <2>1, FinishOrdered
  <2>3. Tables \cap set' \subseteq set /\ line \notin 12..15
    BY <2>1, SetsNoTable, StepPlace, SMTT(30) DEF Finish
  <2>4. machine' \in Machines /\ Walking' /\ Ended'
    BY <2>1, <2>3, KeepsWalks DEF outcome, Ended
  <2> QED BY <2>2, <2>4
<1>6. CASE Verify
  <2>1. PICK step \in {"version", "verify_rsdp", "verify_rsdt"} :
          /\ At(step) /\ Finish(step)
          /\ UNCHANGED outcome \/ kpanic(step)
    BY <1>6 DEF Verify
  <2>2. UNCHANGED <<machine, walk, gates, flag, halted>>
    BY <1>6, <2>1 DEF Verify, apic, kpanic, outcome
  <2>3. Ordered'
    BY <2>1, <2>2, FinishOrdered
  <2>4. Tables \cap set' \subseteq set /\ line \notin 12..15
    BY <2>1, SetsNoTable, StepPlace, SMTT(30) DEF Finish
  <2>5. Tables \cap screen' \subseteq screen
    BY <2>1 DEF kpanic, outcome, Tables
  <2>6. machine' \in Machines /\ Walking' /\ Ended'
    BY <2>2, <2>4, <2>5, KeepsWalks DEF Ended
  <2> QED BY <2>3, <2>6
<1>7. CASE WalkFound
  <2>1. PICK t \in Tables :
          /\ At(t) /\ idx < Entries(t) /\ EntryAt(t, header) = Wanted(t)
          /\ Finish(t) /\ found' = [found EXCEPT ![t] = header]
    BY <1>7 DEF WalkFound
  <2>2. UNCHANGED <<machine, outcome, gates, flag>> /\ idx' = 0 /\ header' = 1
    BY <1>7 DEF WalkFound, apic
  <2>3. Ordered'
    BY <2>1, <2>2, FinishOrdered DEF Tables
  <2>4. Walking'
    BY <2>2, SMTT(30) DEF Walking
  <2>5. set' = set \cup {t}
    BY <2>1 DEF Finish, Sets, Tables, Pointers
  <2>6. header \in 1..EntriesOf(machine, t) /\ header \in Nat /\ Passes(t, header - 1)
    BY <2>1, FoundNew
  <2>7. \A u \in Tables \cap set' :
          /\ found'[u] \in 1..EntriesOf(machine, u) /\ EntryOf(machine, u, found'[u]) = Wanted(u)
          /\ \A n \in 1..(found'[u] - 1) : EntryOf(machine, u, n) # Wanted(u) /\ ~Stays(machine, u, n)
    <3> SUFFICES ASSUME NEW u \in Tables \cap set'
                 PROVE  /\ found'[u] \in 1..EntriesOf(machine, u)
                        /\ EntryOf(machine, u, found'[u]) = Wanted(u)
                        /\ \A n \in 1..(found'[u] - 1) :
                             EntryOf(machine, u, n) # Wanted(u) /\ ~Stays(machine, u, n)
      OBVIOUS
    <3>1. CASE u = t
      <4>1. found'[u] = header
        BY <2>1, <3>1 DEF Ended
      <4> QED BY <2>1, <2>6, <3>1, <4>1 DEF Passes, EntryAt
    <3>2. CASE u # t
      <4>1. found'[u] = found[u] /\ u \in Tables \cap set
        BY <2>1, <2>5, <3>2 DEF Ended
      <4> QED BY <4>1 DEF Ended, Passes, EntryAt, Entries
    <3> QED BY <3>1, <3>2
  <2>8. found' \in [Tables -> Nat]
    BY <2>1, <2>6, SMTT(30) DEF Ended
  <2>9. Ended'
    BY <2>2, <2>7, <2>8 DEF Ended, outcome, Passes, Absent, EntryAt, Entries, HandedOver
  <2> QED BY <2>2, <2>3, <2>4, <2>9
<1>8. CASE WalkOn
  <2>1. PICK t \in Tables :
          /\ At(t) /\ idx < Entries(t) /\ EntryAt(t, header) # Wanted(t) /\ used' = Uses(t)
          /\ header' = IF Stays(machine, t, header) THEN header ELSE header + 1
    BY <1>8 DEF WalkOn
  <2>2. idx' = idx + 1 /\ UNCHANGED <<machine, line, set, found, outcome, gates, flag>>
    BY <1>8 DEF WalkOn, apic
  <2>3. used' \subseteq set
    BY <2>1, UsesSet
  <2>4. Ordered'
    BY <2>2, <2>3 DEF Ordered, NothingUsedBeforeSet
  <2>5. Walking'
    BY <2>1, <2>2, WalksOn
  <2>6. Ended'
    BY <2>2 DEF Ended, outcome, Passes, Absent, EntryAt, Entries, HandedOver
  <2> QED BY <2>2, <2>4, <2>5, <2>6
<1>9. CASE WalkNull
  <2>1. PICK t \in Tables : At(t) /\ idx >= Entries(t) /\ AssertionFailed(t)
    BY <1>9 DEF WalkNull
  <2>2. UNCHANGED <<machine, walk, gates, flag, line, set>>
    BY <1>9, <2>1 DEF WalkNull, AssertionFailed, apic
  <2>3. Ordered' /\ halted' = "assertion" /\ screen' = {t}
    BY <2>1, <2>2, FailedOrdered DEF Tables
  <2>4. Absent(t)
    BY <2>1, WalkOver
  <2>5. Walking'
    BY <2>2 DEF Walking, walk, Passing, Passes, EntryAt
  <2>6. Ended'
    BY <2>2, <2>3, <2>4 DEF Ended, walk, Passes, Absent, EntryAt, Entries
  <2> QED BY <2>2, <2>3, <2>5, <2>6
<1>10. CASE enable_external_interrupts \/ ioapic_init \/ lapic_init
  <2>1. PICK step \in {"sti", "ioapic_init", "lapic_init"} :
          At(step) /\ Finish(step) /\ (flag' = flag \/ step = "sti")
    BY <1>10 DEF enable_external_interrupts, ioapic_init, lapic_init
  <2>2. UNCHANGED <<machine, walk, outcome, gates>>
    BY <1>10 DEF enable_external_interrupts, ioapic_init, lapic_init
  <2>3. Ordered'
    BY <2>1, <2>2, FinishOrdered, SMTT(30)
  <2>4. Tables \cap set' \subseteq set /\ line \notin 12..15
    BY <2>1, SetsNoTable, StepPlace, SMTT(30) DEF Finish
  <2>5. machine' \in Machines /\ Walking' /\ Ended'
    BY <2>2, <2>4, KeepsWalks DEF outcome, Ended
  <2> QED BY <2>3, <2>5
<1>11. CASE KeyboardInterrupt
  <2>1. flag /\ UNCHANGED <<machine, walk, gates, flag, line, set>>
    BY <1>11 DEF KeyboardInterrupt, apic
  <2>2. {"keyboard", "console", "madt"} \subseteq set /\ "KEYBOARD" \in gates
    BY <2>1, SetBefore, SMTT(30) DEF Ordered
  <2>3. used' = {"keyboard", "console", "madt"}
    BY <1>11 DEF KeyboardInterrupt, Enter, HandlerUses
  <2>4. Ordered'
    BY <2>1, <2>2, <2>3 DEF Ordered, NothingUsedBeforeSet
  <2>5. screen' = screen /\ (halted' = halted \/ (halted' = "reset" /\ ~machine.clean))
    BY <1>11, <2>2 DEF KeyboardInterrupt, Enter, outcome
  <2>6. machine' \in Machines /\ Walking' /\ Ended'
    BY <2>1, <2>5, KeepsWalks DEF Ended
  <2> QED BY <2>4, <2>6
<1>12. CASE Loop
  <2>1. UNCHANGED <<machine, line, set, used, flag, gates, walk, outcome>>
    BY <1>12 DEF Loop, vars, apic
  <2>2. Ordered'
    BY <2>1 DEF Ordered, NothingUsedBeforeSet, HandedOver, outcome
  <2>3. machine' \in Machines /\ Walking' /\ Ended'
    BY <2>1, KeepsWalks DEF outcome, Ended
  <2> QED BY <2>2, <2>3
<1> QED
  BY <1>1, <1>2, <1>3, <1>4, <1>5, <1>6, <1>7, <1>8, <1>9, <1>10, <1>11, <1>12 DEF Next, Step

(* The inductive invariant holds in every reachable state: the steps of    *)
(* _start in their order, the walks over the ACPI tables, and the causes   *)
(* of a stop.                                                              *)
THEOREM StartInductive == Spec => []StartInv
<1>1. StartInv /\ [Next]_vars => StartInv'
  <2> SUFFICES ASSUME StartInv, UNCHANGED vars PROVE StartInv'
    BY StepKeeps
  <2>1. UNCHANGED <<machine, line, set, used, flag, gates, walk, outcome>>
    BY DEF vars, apic
  <2>2. Ordered'
    BY <2>1 DEF StartInv, Ordered, NothingUsedBeforeSet, HandedOver, outcome
  <2>3. machine' \in Machines /\ Walking' /\ Ended'
    BY <2>1, KeepsWalks DEF outcome, StartInv, Ended
  <2> QED BY <2>2, <2>3 DEF StartInv
<1> QED BY <1>1, StartInitial, PTL DEF Spec

(* No step of _start and no handler dereferences a pointer of `kernel'     *)
(* that is still null, wherever interrupts come, on any machine on which   *)
(* the bootloader has handed over what _start needs before its console; on *)
(* any other the report of that failure alone does.                        *)
THEOREM PointersSet == Spec => []NothingUsedBeforeSet
<1>1. StartInv => NothingUsedBeforeSet
  BY DEF StartInv, Ordered
<1> QED BY <1>1, StartInductive, PTL

(* The start of a concatenation is its first part. *)
LEMMA Prefix ==
  ASSUME NEW S, NEW r \in Seq(S), NEW s \in Seq(S), NEW n \in 1..Len(r)
  PROVE  /\ n \in 1..Len(r \o s) /\ (r \o s)[n] = r[n]
         /\ DOMAIN (r \o s) = 1..Len(r \o s)
<1>1. Len(r) \in Nat /\ Len(s) \in Nat /\ Len(r \o s) = Len(r) + Len(s)
  BY SMTT(30)
<1>2. (r \o s)[n] = r[n]
  BY SMTT(30)
<1>3. DOMAIN (r \o s) = 1..Len(r \o s)
  BY SMTT(30)
<1> QED BY <1>1, <1>2, <1>3, SMTT(30)

(* An entry of a table is at its place in memory. *)
LEMMA ListedEntries ==
  ASSUME NEW m \in Machines, NEW t \in Tables, NEW n \in DOMAIN Listed(m, t)
  PROVE  EntryOf(m, t, n) = Listed(m, t)[n]
<1>1. /\ m.sdts \in Seq({"APIC", "HPET", "other"})
      /\ m.behind \in Seq({"APIC", "HPET", "other"})
      /\ m.madt \in Seq({"CPU_LAPIC", "IO_APIC", "other"})
      /\ m.beyond \in Seq({"CPU_LAPIC", "IO_APIC", "other"})
  BY StartAssumption DEF WellFormedMachine
<1>2. CASE t \in {"madt", "hpet"}
  <2>1. n \in 1..Len(m.sdts) /\ Listed(m, t)[n] = m.sdts[n]
    BY <1>1, <1>2, SMTT(30) DEF Listed
  <2>2. /\ n \in 1..Len(m.sdts \o m.behind) /\ (m.sdts \o m.behind)[n] = m.sdts[n]
        /\ DOMAIN (m.sdts \o m.behind) = 1..Len(m.sdts \o m.behind)
    BY <1>1, <2>1, Prefix
  <2> QED BY <1>2, <2>1, <2>2 DEF EntryOf
<1>3. CASE t \notin {"madt", "hpet"}
  <2>1. n \in 1..Len(m.madt) /\ Listed(m, t)[n] = m.madt[n]
    BY <1>1, <1>3, SMTT(30) DEF Listed
  <2>2. /\ n \in 1..Len(m.madt \o m.beyond) /\ (m.madt \o m.beyond)[n] = m.madt[n]
        /\ DOMAIN (m.madt \o m.beyond) = 1..Len(m.madt \o m.beyond)
    BY <1>1, <2>1, Prefix
  <2> QED BY <1>3, <2>1, <2>2 DEF EntryOf
<1> QED BY <1>2, <1>3

(* A walk over the RSDT stays in it, unless its length is too small. *)
LEMMA InsideRsdt ==
  ASSUME NEW m \in Machines, NEW t \in {"madt", "hpet"}, ~(m.length < RSDT_SZ)
  PROVE  EntriesOf(m, t) = Len(m.sdts)
<1>1. /\ RSDT_SZ \in Nat /\ SIZE_MOD \in Nat \ {0} /\ m.length \in 0..(SIZE_MOD - 1)
      /\ Len(m.sdts) = IF m.length >= RSDT_SZ THEN (m.length - RSDT_SZ) \div 4 ELSE 0
  BY StartAssumption DEF WellFormedMachine
<1>2. m.length >= RSDT_SZ /\ m.length - RSDT_SZ \in 0..(SIZE_MOD - 1)
  BY <1>1, SMTT(30)
<1>3. ASSUME NEW y \in Nat \ {0}, NEW x \in 0..(y - 1) PROVE x % y = x
  BY Z3
<1>4. (m.length - RSDT_SZ) % SIZE_MOD = m.length - RSDT_SZ
  BY <1>1, <1>2, <1>3
<1> QED BY <1>1, <1>2, <1>4 DEF EntriesOf

(* get_header finds the first entry of its kind among those it comes to,   *)
(* for tables of every length, entries of length 0 included, and every     *)
(* limit of the walk; and what it takes for an entry from behind the table *)
(* it finds only behind the MADT, or an RSDT whose length is too small.    *)
THEOREM TablesFound == Spec => []TablesExact
<1>1. StartInv => TablesExact
  <2> SUFFICES ASSUME StartInv, NEW t \in Tables \cap set
               PROVE  LET places == {n \in DOMAIN Listed(machine, t) :
                                       Listed(machine, t)[n] = Wanted(t) /\ n \in Reached(machine, t)}
                      IN  IF places # {} THEN found[t] = Min(places)
                          ELSE /\ found[t] > Len(Listed(machine, t))
                               /\ t \in {"madt", "hpet"} => machine.length < RSDT_SZ
    BY DEF TablesExact
  <2> DEFINE places == {n \in DOMAIN Listed(machine, t) :
                          Listed(machine, t)[n] = Wanted(t) /\ n \in Reached(machine, t)}
  <2>1. /\ machine \in Machines /\ t \in Tables
        /\ found[t] \in 1..EntriesOf(machine, t) /\ EntryAt(t, found[t]) = Wanted(t)
        /\ \A n \in 1..(found[t] - 1) : EntryAt(t, n) # Wanted(t) /\ ~Stays(machine, t, n)
    BY DEF StartInv, Ended, Passes, Entries
  <2>2. Listed(machine, t) \in Seq({"APIC", "HPET", "CPU_LAPIC", "IO_APIC", "other"})
    <3>1. /\ machine.sdts \in Seq({"APIC", "HPET", "other"})
          /\ machine.madt \in Seq({"CPU_LAPIC", "IO_APIC", "other"})
      BY <2>1, StartAssumption DEF WellFormedMachine
    <3> QED BY <3>1, SMTT(30) DEF Listed
  <2>3. PICK e \in Nat : e = EntriesOf(machine, t)
    BY <2>1, EntriesNat
  <2>4. PICK f \in 1..e : f = found[t]
    BY <2>1, <2>3
  <2>5. f \in Reached(machine, t)
    BY <2>1, <2>3, <2>4 DEF Reached
  <2>6. \A n \in places : n \in Nat /\ n > 0 /\ EntryAt(t, n) = Wanted(t)
    <3>1. \A n \in DOMAIN Listed(machine, t) : n \in Nat /\ n > 0
      BY <2>2, SMTT(30)
    <3>2. \A n \in places : EntryAt(t, n) = Wanted(t)
      BY <2>1, ListedEntries DEF EntryAt
    <3> QED BY <3>1, <3>2
  <2>7. \A n \in places : f <= n
    <3> SUFFICES ASSUME NEW n \in places PROVE f <= n
      OBVIOUS
    <3>1. n \in Nat /\ n > 0 /\ n \notin 1..(f - 1)
      BY <2>1, <2>4, <2>6
    <3> QED BY <3>1, SMTT(30)
  <2>8. CASE f \in DOMAIN Listed(machine, t)
    <3>1. f \in places
      BY <2>1, <2>4, <2>5, <2>8, ListedEntries DEF EntryAt
    <3>2. f = Min(places)
      <4>1. places \subseteq Nat
        BY <2>6
      <4> HIDE DEF places
      <4>2. \A x \in places : x <= f => x = f
        BY <2>4, <2>7, <4>1, SMTT(30)
      <4> QED BY <2>7, <3>1, <4>2 DEF Min
    <3> QED BY <2>4, <3>1, <3>2
  <2>9. CASE f \notin DOMAIN Listed(machine, t)
    <3>1. f > Len(Listed(machine, t))
      BY <2>2, <2>9, SMTT(30)
    <3>2. places = {}
      <4>1. \A n \in DOMAIN Listed(machine, t) : n \in Nat /\ ~(f <= n)
        BY <2>2, <3>1, SMTT(30)
      <4> QED BY <2>7, <4>1
    <3>3. ASSUME t \in {"madt", "hpet"} PROVE machine.length < RSDT_SZ
      <4>1. e # Len(Listed(machine, t))
        BY <2>2, <3>1, SMTT(30)
      <4>2. Listed(machine, t) = machine.sdts
        BY <3>3 DEF Listed
      <4> QED BY <2>1, <2>3, <3>3, <4>1, <4>2, InsideRsdt
    <3> QED BY <2>4, <3>1, <3>2, <3>3
  <2> QED BY <2>8, <2>9
<1> QED BY <1>1, StartInductive, PTL

(* A reset, a silent stop and a failed assertion on a table each have the  *)
(* cause StopsForCause names, on every machine.                            *)
THEOREM CausesOfStop == Spec => []StopsForCause
<1>1. StartInv => StopsForCause
  BY DEF StartInv, Ended, Absent, StopsForCause
<1> QED BY <1>1, StartInductive, PTL

-----------------------------------------------------------------------------
(* The checks that failed, and the types.                                  *)

(* The places in the order of the checks that the machine does not pass.   *)
Failed == {n \in 1..24 : Fails(_start[n])}

(* Of those before place l, the last. *)
LastBefore(l) == {n \in Failed : n < l /\ \A m \in Failed : m < l => m <= n}

(* While the kernel runs, the screen shows the last check that failed.     *)
Showing ==
  /\ halted = "no" => screen = {_start[n] : n \in LastBefore(line)}
  /\ line > 6 => cpu_s \in IF machine.missing = {} THEN {"SUCCESS"} ELSE machine.missing

(* The variables that are not in StartInv; a walk is within its table.     *)
Typed ==
  /\ set \subseteq Pointers
  /\ idx > 0 => idx <= Entries(_start[line])
  /\ cpu_s \in {"none", "SUCCESS"} \cup Range(Features)
  /\ halted \in {"no", "assertion", "lost", "page fault", "reset"}
  /\ flag \in BOOLEAN /\ unmasked \in BOOLEAN /\ lapic \in BOOLEAN
  /\ interrupts \in 0..MaxInterrupts

(* Only four steps make a check that can fail. *)
LEMMA FailsAt ==
  ASSUME NEW n \in 1..24
  PROVE  Fails(_start[n]) => n = 6 \/ n = 9 \/ n = 10 \/ n = 11
<1>1. /\ ~Fails(_start[1]) /\ ~Fails(_start[2]) /\ ~Fails(_start[3]) /\ ~Fails(_start[4])
      /\ ~Fails(_start[5]) /\ ~Fails(_start[7]) /\ ~Fails(_start[8])
  BY StepNames, SMTT(30) DEF Fails
<1>2. /\ ~Fails(_start[12]) /\ ~Fails(_start[13]) /\ ~Fails(_start[14]) /\ ~Fails(_start[15])
      /\ ~Fails(_start[16]) /\ ~Fails(_start[17]) /\ ~Fails(_start[18])
  BY StepNames, SMTT(30) DEF Fails
<1>3. /\ ~Fails(_start[19]) /\ ~Fails(_start[20]) /\ ~Fails(_start[21]) /\ ~Fails(_start[22])
      /\ ~Fails(_start[23]) /\ ~Fails(_start[24])
  BY StepNames DEF Fails
<1>4. \/ n = 1 \/ n = 2 \/ n = 3 \/ n = 4 \/ n = 5 \/ n = 6 \/ n = 7 \/ n = 8 \/ n = 9 \/ n = 10
      \/ n = 11 \/ n = 12 \/ n = 13 \/ n = 14 \/ n = 15 \/ n = 16 \/ n = 17 \/ n = 18 \/ n = 19
      \/ n = 20 \/ n = 21 \/ n = 22 \/ n = 23 \/ n = 24
  BY SMTT(30)
<1> QED BY <1>1, <1>2, <1>3, <1>4

(* A step that makes no check, or passes it, changes nothing of what is    *)
(* the last failure; one that does not is the last.                        *)
LEMMA LastNext ==
  ASSUME NEW l \in 1..24
  PROVE  LastBefore(l + 1) = IF Fails(_start[l]) THEN {l} ELSE LastBefore(l)
<1>1. CASE Fails(_start[l])
  <2>1. l \in Failed
    BY <1>1 DEF Failed
  <2>2. \A n \in Failed : n \in 1..24
    BY DEF Failed
  <2>3. ASSUME NEW n PROVE n \in LastBefore(l + 1) <=> n = l
    <3>1. ASSUME n \in LastBefore(l + 1) PROVE n = l
      <4>1. n \in Failed /\ n < l + 1 /\ (l < l + 1 => l <= n)
        BY <2>1, <3>1 DEF LastBefore
      <4>2. n \in 1..24
        BY <2>2, <4>1
      <4> QED BY <4>1, <4>2, SMTT(30)
    <3>2. \A m \in Failed : m < l + 1 => m <= l
      BY <2>2, SMTT(30)
    <3>3. l \in LastBefore(l + 1)
      BY <2>1, <3>2, SMTT(30) DEF LastBefore
    <3> QED BY <3>1, <3>3
  <2> QED BY <1>1, <2>3
<1>2. CASE ~Fails(_start[l])
  <2>1. \A n \in Failed : n \in 1..24 /\ n # l
    BY <1>2 DEF Failed
  <2>2. \A n \in Failed : n < l + 1 <=> n < l
    BY <2>1, SMTT(30)
  <2> QED BY <1>2, <2>2 DEF LastBefore
<1> QED BY <1>1, <1>2

(* No check comes before that of the CPU. *)
LEMMA NoneBefore == ASSUME NEW l \in 1..6 PROVE LastBefore(l) = {}
<1>1. \A n \in Failed : n \in 1..24 /\ (n = 6 \/ n = 9 \/ n = 10 \/ n = 11)
  BY FailsAt DEF Failed
<1> QED BY <1>1, SMTT(30) DEF LastBefore

(* check_state returns a feature that is missing, or success. *)
LEMMA CheckedState ==
  ASSUME machine \in Machines
  PROVE  check_state \in IF machine.missing = {} THEN {"SUCCESS"} ELSE machine.missing
<1>1. /\ DOMAIN Features = 1..4 /\ Features[1] = "FPU" /\ Features[2] = "MSR"
      /\ Features[3] = "LAPIC" /\ Features[4] = "LONG_MODE"
  BY SMTT(30) DEF Features
<1>2. machine.missing \subseteq {"FPU", "MSR", "LAPIC", "LONG_MODE"}
  <2>1. Range(Features) = {Features[x] : x \in DOMAIN Features}
    BY DEF Range
  <2>2. machine.missing \subseteq Range(Features)
    BY StartAssumption DEF WellFormedMachine
  <2> QED BY <1>1, <2>1, <2>2, SMTT(30)
<1>3. CASE machine.missing # {}
  <2> DEFINE S == {f \in DOMAIN Features : Features[f] \in machine.missing}
  <2>1. S \subseteq 1..4 /\ S # {}
    BY <1>1, <1>2, <1>3, SMTT(30)
  <2> HIDE DEF S
  <2>2. \E x \in S : \A y \in S : x <= y
    <3>1. CASE 1 \in S
      <4>1. \A y \in S : 1 <= y
        BY <2>1, SMTT(30)
      <4> QED BY <3>1, <4>1
    <3>2. CASE 1 \notin S /\ 2 \in S
      <4>1. \A y \in S : 2 <= y
        BY <2>1, <3>2, SMTT(30)
      <4> QED BY <3>2, <4>1
    <3>3. CASE 1 \notin S /\ 2 \notin S /\ 3 \in S
      <4>1. \A y \in S : 3 <= y
        BY <2>1, <3>3, SMTT(30)
      <4> QED BY <3>3, <4>1
    <3>4. CASE 1 \notin S /\ 2 \notin S /\ 3 \notin S
      <4>0. PICK z \in S : TRUE
        BY <2>1
      <4>1. 4 \in S /\ \A y \in S : 4 <= y
        <5>1. \A y \in S : y = 4
          BY <2>1, <3>4, SMTT(30)
        <5> QED BY <4>0, <5>1, SMTT(30)
      <4> QED BY <3>4, <4>1
    <3> QED BY <3>1, <3>2, <3>3, <3>4
  <2>3. Min(S) \in S
    BY <2>2 DEF Min
  <2>4. Features[Min(S)] \in machine.missing
    BY <2>3 DEF S
  <2> QED BY <1>3, <2>4 DEF check_state, S
<1>4. CASE machine.missing = {}
  BY <1>4 DEF check_state
<1> QED BY <1>3, <1>4

(* The machine decides which checks fail. *)
LEMMA SameFailed == ASSUME machine' = machine PROVE Failed' = Failed
  BY DEF Failed, Fails

(* A step that stops the kernel, or changes nothing of what is shown. *)
LEMMA ShowingKept ==
  ASSUME Showing, UNCHANGED <<machine, line, cpu_s>>, halted' # "no" \/ UNCHANGED outcome
  PROVE  Showing'
<1>1. LastBefore(line)' = LastBefore(line)
  BY SameFailed DEF LastBefore
<1> QED BY <1>1 DEF Showing, outcome

(* A step that makes no check, or whose check succeeds. *)
LEMMA ShowingPassed ==
  ASSUME Ordered, Showing, NEW step, At(step), Finish(step), ~Fails(step), step # "cpu",
         UNCHANGED <<machine, cpu_s, outcome>>
  PROVE  Showing'
<1>1. line \in 1..24 /\ _start[line] = step /\ line # 6 /\ line' = line + 1
  BY StepPlace, StepNames, SMTT(30) DEF Finish
<1>2. LastBefore(line)' = LastBefore(line + 1)
  BY <1>1, SameFailed DEF LastBefore
<1>3. LastBefore(line + 1) = LastBefore(line)
  BY <1>1, LastNext
<1>4. halted' = "no" => screen' = {_start[n] : n \in LastBefore(line)'}
  BY <1>2, <1>3 DEF Showing, outcome
<1>5. line' > 6 => line > 6
  BY <1>1, SMTT(30)
<1> QED BY <1>4, <1>5 DEF Showing

(* A step whose check fails leaves its message, and no other. *)
LEMMA ShowingFailed ==
  ASSUME Ordered, NEW step, At(step), Finish(step), Fails(step), machine' = machine,
         screen' = {step}
  PROVE  screen' = {_start[n] : n \in LastBefore(line)'}
<1>1. line \in 1..24 /\ _start[line] = step /\ line' = line + 1
  BY StepPlace DEF Finish
<1>2. LastBefore(line)' = LastBefore(line + 1)
  BY <1>1, SameFailed DEF LastBefore
<1>3. LastBefore(line + 1) = {line}
  BY <1>1, LastNext
<1> QED BY <1>1, <1>2, <1>3

(* Every step keeps the screen as stated. *)
LEMMA ShowingNext == ASSUME StartInv, Showing, Next PROVE Showing'
<1>0. Ordered /\ machine \in Machines
  BY DEF StartInv
<1>1. CASE ConstructFails \/ PageFault \/ WalkNull
  <2>1. UNCHANGED <<machine, line, cpu_s>>
    BY <1>1 DEF ConstructFails, PageFault, WalkNull, AssertionFailed
  <2>2. halted' # "no"
    BY <1>1 DEF ConstructFails, PageFault, WalkNull, AssertionFailed, Enter
  <2> QED BY <2>1, <2>2, ShowingKept
<1>2. CASE WalkOn \/ Loop \/ KeyboardInterrupt
  <2>1. UNCHANGED <<machine, line, cpu_s>>
    BY <1>2 DEF WalkOn, Loop, KeyboardInterrupt, vars
  <2>2. halted' # "no" \/ UNCHANGED outcome
    BY <1>2 DEF WalkOn, Loop, KeyboardInterrupt, vars, Enter
  <2> QED BY <2>1, <2>2, ShowingKept
<1>3. CASE \/ Construct \/ LoadIdt \/ WalkFound
           \/ enable_external_interrupts \/ ioapic_init \/ lapic_init
  <2>1. UNCHANGED <<machine, cpu_s, outcome>>
    BY <1>3 DEF Construct, LoadIdt, WalkFound, enable_external_interrupts, ioapic_init, lapic_init
  <2>2. PICK step \in {"stack", "mmap", "framebuffer", "console", "pmem", "gdt", "idt",
                       "paging", "lapic_info", "pic", "heap", "malloc", "ps2",
                       "sti", "ioapic_init", "lapic_init"} \cup Tables :
          At(step) /\ Finish(step)
    BY <1>3 DEF Construct, LoadIdt, WalkFound, enable_external_interrupts, ioapic_init, lapic_init
  <2>3. ~Fails(step) /\ step # "cpu"
    BY DEF Fails, Tables
  <2> QED BY <1>0, <2>1, <2>2, <2>3, ShowingPassed
<1>4. CASE Verify
  <2>1. PICK step \in {"version", "verify_rsdp", "verify_rsdt"} :
          /\ At(step) /\ Finish(step)
          /\ IF Checks(step) THEN UNCHANGED outcome ELSE kpanic(step)
    BY <1>4 DEF Verify
  <2>2. UNCHANGED <<machine, cpu_s>>
    BY <1>4 DEF Verify
  <2>3. Checks(step) <=> ~Fails(step)
    BY StartAssumption DEF Checks, Fails, get_version
  <2>4. CASE Checks(step)
    BY <1>0, <2>1, <2>2, <2>3, <2>4, ShowingPassed
  <2>5. CASE ~Checks(step)
    <3>1. screen' = {step}
      BY <2>1, <2>5 DEF kpanic
    <3>2. screen' = {_start[n] : n \in LastBefore(line)'}
      BY <1>0, <2>1, <2>2, <2>3, <2>5, <3>1, ShowingFailed
    <3>3. line > 6
      BY <1>0, <2>1, StepPlace, SMTT(30)
    <3> QED BY <2>2, <3>2, <3>3 DEF Showing
  <2> QED BY <2>4, <2>5
<1>5. CASE CheckCpu
  <2>1. /\ At("cpu") /\ Finish("cpu") /\ cpu_s' = check_state /\ UNCHANGED <<machine, halted>>
        /\ screen' = IF cpu_s' # "SUCCESS" THEN screen \cup {"cpu"} ELSE screen
    BY <1>5 DEF CheckCpu
  <2>2. line = 6 /\ line' = 7 /\ _start[6] = "cpu"
    BY <1>0, <2>1, StepPlace, SMTT(30) DEF Finish
  <2>3. cpu_s' \in IF machine.missing = {} THEN {"SUCCESS"} ELSE machine.missing
    BY <1>0, <2>1, CheckedState
  <2>4. screen = {}
    BY <2>1, <2>2, NoneBefore, SMTT(30) DEF Showing, At
  <2>5. CASE Fails("cpu")
    <3>1. cpu_s' # "SUCCESS"
      <4>1. "SUCCESS" \notin machine.missing
        BY <1>0, StartAssumption, SMTT(30) DEF WellFormedMachine, Range, Features
      <4> QED BY <2>3, <2>5, <4>1 DEF Fails
    <3>2. screen' = {"cpu"}
      BY <2>1, <2>4, <3>1
    <3>3. screen' = {_start[n] : n \in LastBefore(line)'}
      BY <1>0, <2>1, <2>5, <3>2, ShowingFailed
    <3> QED BY <2>1, <2>3, <3>3 DEF Showing
  <2>6. CASE ~Fails("cpu")
    <3>1. screen' = {}
      BY <2>1, <2>3, <2>4, <2>6 DEF Fails
    <3>2. LastBefore(line)' = LastBefore(7)
      BY <2>1, <2>2, SameFailed DEF LastBefore
    <3>3. LastBefore(6 + 1) = LastBefore(6)
      BY <2>2, <2>6, LastNext, SMTT(30)
    <3>4. LastBefore(6) = {}
      BY NoneBefore, SMTT(30)
    <3> QED BY <2>1, <2>3, <3>1, <3>2, <3>3, <3>4, SMTT(30) DEF Showing
  <2> QED BY <2>5, <2>6
<1> QED BY <1>1, <1>2, <1>3, <1>4, <1>5 DEF Next, Step

(* Every step sets pointers of `kernel'. *)
LEMMA SetsPointers == ASSUME NEW step PROVE Sets(step) \subseteq Pointers
  BY DEF Sets, Pointers

(* The names of CPU features. *)
LEMMA FeatureNames ==
  /\ Range(Features) = {"FPU", "MSR", "LAPIC", "LONG_MODE"}
  /\ \A m \in Machines : m.missing \subseteq Range(Features)
<1>1. /\ DOMAIN Features = 1..4 /\ Features[1] = "FPU" /\ Features[2] = "MSR"
      /\ Features[3] = "LAPIC" /\ Features[4] = "LONG_MODE"
  BY SMTT(30) DEF Features
<1>2. Range(Features) = {Features[x] : x \in 1..4}
  BY <1>1 DEF Range
<1>3. 1..4 = {1, 2, 3, 4}
  BY SMTT(30)
<1>4. Range(Features) = {"FPU", "MSR", "LAPIC", "LONG_MODE"}
  BY <1>1, <1>2, <1>3
<1> QED BY <1>4, StartAssumption DEF WellFormedMachine

(* Every step keeps the types. *)
LEMMA TypedNext == ASSUME StartInv, Typed, Next PROVE Typed'
<1>0. /\ Ordered /\ machine \in Machines /\ machine' = machine /\ idx \in Nat
      /\ idx > 0 => line \in 12..15
  BY DEF StartInv, Walking, Next, Step, Construct, ConstructFails, PageFault, CheckCpu, LoadIdt,
     Verify, WalkFound, WalkOn, WalkNull, enable_external_interrupts, ioapic_init, lapic_init,
     KeyboardInterrupt, Loop, vars
<1>1. set' \subseteq Pointers
  <2>1. set' = set \/ \E step : set' = set \cup Sets(step)
    BY DEF Next, Step, Construct, ConstructFails, PageFault, CheckCpu, LoadIdt,
     Verify, WalkFound, WalkOn, WalkNull, enable_external_interrupts, ioapic_init, lapic_init,
     KeyboardInterrupt, Loop, vars, Finish, AssertionFailed
  <2> QED BY <2>1, SetsPointers DEF Typed
<1>2. idx' > 0 => idx' <= Entries(_start[line])'
  <2>1. CASE WalkOn
    <3>1. PICK t \in Tables : At(t) /\ idx < Entries(t)
      BY <2>1 DEF WalkOn
    <3>2. _start[line] = t /\ idx' = idx + 1 /\ line' = line
      BY <2>1, <3>1 DEF WalkOn, At
    <3>3. Entries(t) \in Nat
      BY <1>0, EntriesNat DEF Entries
    <3> QED BY <1>0, <3>1, <3>2, <3>3, SMTT(30) DEF Entries
  <2>2. CASE WalkFound
    <3>1. idx' = 0
      BY <2>2 DEF WalkFound
    <3> QED BY <3>1, SMTT(30)
  <2>3. CASE idx' = idx /\ line' = line
    BY <1>0, <2>3 DEF Typed, Entries
  <2>4. CASE idx' = idx /\ line \notin 12..15
    BY <1>0, <2>4
  <2>5. CASE \/ Construct \/ CheckCpu \/ LoadIdt \/ Verify
             \/ enable_external_interrupts \/ ioapic_init \/ lapic_init
    <3>1. idx' = idx
      BY <2>5 DEF Construct, CheckCpu, LoadIdt, Verify, enable_external_interrupts, ioapic_init,
         lapic_init, walk
    <3>2. PICK step \in {"stack", "mmap", "framebuffer", "console", "pmem", "cpu", "gdt", "idt",
                         "version", "verify_rsdp", "verify_rsdt", "paging", "lapic_info", "pic", "sti",
                         "ioapic_init", "lapic_init", "heap", "malloc", "ps2"} : At(step)
      BY <2>5 DEF Construct, CheckCpu, LoadIdt, Verify, enable_external_interrupts, ioapic_init,
         lapic_init
    <3>3. line \notin 12..15
      BY <1>0, <3>2, StepPlace, SMTT(30)
    <3> QED BY <2>4, <3>1, <3>3
  <2>6. CASE ConstructFails \/ PageFault \/ WalkNull \/ KeyboardInterrupt \/ Loop
    <3>1. idx' = idx /\ line' = line
      BY <2>6 DEF ConstructFails, PageFault, WalkNull, KeyboardInterrupt, Loop, vars, walk,
         AssertionFailed
    <3> QED BY <2>3, <3>1
  <2> QED BY <2>1, <2>2, <2>5, <2>6 DEF Next, Step
<1>3. cpu_s' \in {"none", "SUCCESS"} \cup Range(Features)
  <2>1. cpu_s' = cpu_s \/ cpu_s' = check_state
    BY DEF Next, Step, Construct, ConstructFails, PageFault, CheckCpu, LoadIdt,
     Verify, WalkFound, WalkOn, WalkNull, enable_external_interrupts, ioapic_init, lapic_init,
     KeyboardInterrupt, Loop, vars
  <2>2. check_state \in {"SUCCESS"} \cup Range(Features)
    BY <1>0, CheckedState, FeatureNames
  <2> QED BY <2>1, <2>2 DEF Typed
<1>4. halted' \in {"no", "assertion", "lost", "page fault", "reset"}
  <2>1. halted' = halted \/ halted' \in {"assertion", "lost", "page fault", "reset"}
    BY DEF Next, Step, Construct, ConstructFails, PageFault, CheckCpu, LoadIdt,
     Verify, WalkFound, WalkOn, WalkNull, enable_external_interrupts, ioapic_init, lapic_init,
     KeyboardInterrupt, Loop, vars, outcome, AssertionFailed, Enter, kpanic
  <2> QED BY <2>1 DEF Typed
<1>5. /\ flag' = flag \/ flag' = TRUE
      /\ unmasked' = unmasked \/ unmasked' = TRUE
      /\ lapic' = lapic \/ lapic' = TRUE
  BY DEF Next, Step, Construct, ConstructFails, PageFault, CheckCpu, LoadIdt,
     Verify, WalkFound, WalkOn, WalkNull, enable_external_interrupts, ioapic_init, lapic_init,
     KeyboardInterrupt, Loop, vars, apic
<1>6. flag' \in BOOLEAN /\ unmasked' \in BOOLEAN /\ lapic' \in BOOLEAN
  BY <1>5 DEF Typed
<1>7. interrupts' \in 0..MaxInterrupts
  <2>1. interrupts' = interrupts \/ (interrupts < MaxInterrupts /\ interrupts' = interrupts + 1)
    BY DEF Next, Step, Construct, ConstructFails, PageFault, CheckCpu, LoadIdt,
     Verify, WalkFound, WalkOn, WalkNull, enable_external_interrupts, ioapic_init, lapic_init,
     KeyboardInterrupt, Loop, vars
  <2>2. interrupts \in 0..MaxInterrupts /\ MaxInterrupts \in Nat
    BY StartAssumption DEF Typed
  <2> QED BY <2>1, <2>2, SMTT(30)
<1> QED BY <1>1, <1>2, <1>3, <1>4, <1>6, <1>7 DEF Typed

(* The longer of two walks. *)
LEMMA MaxOfTwo ==
  ASSUME NEW a \in Nat, NEW b \in Nat
  PROVE  Max({a, b}) \in Nat /\ a <= Max({a, b}) /\ b <= Max({a, b})
<1>1. \E x \in {a, b} : \A y \in {a, b} : x >= y
  <2>1. CASE a >= b
    BY <2>1, SMTT(30)
  <2>2. CASE b >= a
    BY <2>2, SMTT(30)
  <2> QED BY <2>1, <2>2, SMTT(30)
<1>2. Max({a, b}) \in {a, b} /\ \A y \in {a, b} : Max({a, b}) >= y
  BY <1>1 DEF Max
<1> QED BY <1>2

(* The screen shows the last check that failed when _start turns on        *)
(* interrupts, for every machine; and the variables have their types.      *)
THEOREM FailuresReported == Spec => []FailuresShown
<1>1. Init => Showing /\ Typed
  <2> SUFFICES ASSUME Init PROVE Showing /\ Typed
    OBVIOUS
  <2>1. Showing
    <3>1. line = 1 /\ screen = {} /\ LastBefore(line) = {}
      BY NoneBefore, SMTT(30) DEF Init
    <3> QED BY <3>1, SMTT(30) DEF Showing
  <2>2. flag \in BOOLEAN /\ unmasked \in BOOLEAN /\ lapic \in BOOLEAN
    BY DEF Init
  <2>3. /\ set \subseteq Pointers /\ idx = 0
        /\ cpu_s \in {"none", "SUCCESS"} \cup Range(Features)
        /\ halted \in {"no", "assertion", "lost", "page fault", "reset"}
        /\ interrupts \in 0..MaxInterrupts
    BY StartAssumption, SMTT(30) DEF Init
  <2>4. ~(idx > 0)
    <3>1. idx = 0
      BY DEF Init
    <3> QED BY <3>1, SMTT(30)
  <2> QED BY <2>1, <2>2, <2>3, <2>4 DEF Typed
<1>2. StartInv /\ (Showing /\ Typed) /\ [Next]_vars => (Showing /\ Typed)'
  <2>1. ASSUME Showing, Typed, UNCHANGED vars PROVE Showing' /\ Typed'
    <3>1. Showing'
      BY <2>1, ShowingKept DEF vars
    <3>2. UNCHANGED <<machine, line, set, idx, cpu_s, halted, flag, unmasked, lapic, interrupts>>
      BY <2>1 DEF vars, walk, outcome, apic
    <3>3. Entries(_start[line])' = Entries(_start[line])
      BY <3>2 DEF Entries
    <3>4. Typed'
      BY <2>1, <3>2, <3>3 DEF Typed
    <3> QED BY <3>1, <3>4
  <2> QED BY <2>1, ShowingNext, TypedNext
<1>3. StartInv /\ (Showing /\ Typed) => FailuresShown
  <2> SUFFICES ASSUME StartInv, Showing, Typed PROVE FailuresShown
    OBVIOUS
  <2>1. TypeOK
    <3>1. /\ set \subseteq Pointers /\ used \subseteq Pointers /\ line \in 1..(Len(_start) + 1)
          /\ found \in [Tables -> Nat]
      <4>1. set \subseteq Pointers /\ used \subseteq Pointers
        BY DEF StartInv, Ordered, Typed, NothingUsedBeforeSet, Pointers
      <4>2. line \in 1..(Len(_start) + 1)
        BY StepNames, SMTT(30) DEF StartInv, Ordered
      <4>3. found \in [Tables -> Nat]
        BY DEF StartInv, Ended
      <4> QED BY <4>1, <4>2, <4>3
    <3>2. idx \in 0..Max({LIMIT, Entries("madt")}) /\ header \in 1..(idx + 1)
      <4>1. LIMIT \in Nat /\ Entries("madt") \in Nat /\ idx \in Nat
        BY StartAssumption, EntriesNat DEF StartInv, Walking, Entries
      <4>2. idx > 0 => idx <= LIMIT \/ idx <= Entries("madt")
        BY DEF Typed, Entries, EntriesOf
      <4>3. /\ Max({LIMIT, Entries("madt")}) \in Nat /\ LIMIT <= Max({LIMIT, Entries("madt")})
            /\ Entries("madt") <= Max({LIMIT, Entries("madt")})
        BY <4>1, MaxOfTwo
      <4>4. header \in 1..(idx + 1)
        BY DEF StartInv, Walking
      <4> QED BY <4>1, <4>2, <4>3, <4>4, SMTT(30)
    <3>3. {flag, unmasked, lapic} \subseteq BOOLEAN
      BY DEF Typed
    <3> QED BY <3>1, <3>2, <3>3 DEF TypeOK, Typed
  <2>2. ASSUME At("sti")
        PROVE  /\ screen = {_start[n] : n \in {m \in Failed : \A k \in Failed : k <= m}}
               /\ cpu_s \in IF machine.missing = {} THEN {"SUCCESS"} ELSE machine.missing
    <3>1. line = 19 /\ halted = "no"
      BY <2>2, StepPlace DEF StartInv, At
    <3>2. \A n \in Failed : n < 19
      BY FailsAt, SMTT(30) DEF Failed
    <3>3. LastBefore(19) = {m \in Failed : \A k \in Failed : k <= m}
      BY <3>2 DEF LastBefore
    <3> QED BY <3>1, <3>3, SMTT(30) DEF Showing
  <2>3. {n \in DOMAIN _start : Fails(_start[n])} = Failed
    <3>1. DOMAIN _start = 1..24
      BY SMTT(30) DEF _start
    <3> QED BY <3>1 DEF Failed
  <2> QED BY <2>1, <2>2, <2>3 DEF FailuresShown
<1> QED BY <1>1, <1>2, <1>3, StartInductive, PTL DEF Spec
=============================================================================
