--------------------------- MODULE MCKernelStart ---------------------------
(* Machines that differ from a sound one in their tables and in one other   *)
(* respect, or in two if the tables are sound.                             *)
EXTENDS KernelStart

Sound == [bd |-> TRUE, entries |-> TRUE, fb |-> TRUE, revision |-> 0, rsdp |-> TRUE, rsdt |-> TRUE,
          length |-> 44, sdts |-> <<"APIC", "HPET">>, behind |-> <<>>,
          madt |-> <<"CPU_LAPIC", "IO_APIC">>, beyond |-> <<>>, zero |-> {},
          missing |-> {}, clean |-> TRUE]

(* RSDT_SZ is 36 and SIZE_MOD 64.  The length of the last two is below     *)
(* RSDT_SZ: 12 entries are looked at.  That of the third is no multiple of *)
(* 4.                                                                      *)
Rsdts ==
  {[length |-> 44, sdts |-> <<"APIC", "HPET">>, behind |-> <<>>],
   [length |-> 48, sdts |-> <<"HPET", "other", "APIC">>, behind |-> <<>>],
   [length |-> 54, sdts |-> <<"other", "APIC", "APIC", "HPET">>, behind |-> <<>>],
   [length |-> 40, sdts |-> <<"APIC">>, behind |-> <<"HPET">>],
   [length |-> 40, sdts |-> <<"HPET">>, behind |-> <<"APIC">>],
   [length |-> 36, sdts |-> <<>>, behind |-> <<"APIC", "HPET">>],
   [length |-> 20, sdts |-> <<>>, behind |-> <<>>],
   [length |-> 20, sdts |-> <<>>, behind |-> <<"other", "APIC", "HPET">>]}

(* LIMIT is 3. *)
Madts == {<<"CPU_LAPIC", "IO_APIC">>, <<"IO_APIC", "CPU_LAPIC", "CPU_LAPIC">>,
          <<"CPU_LAPIC", "CPU_LAPIC", "CPU_LAPIC", "IO_APIC">>,   \* out of the walk's reach
          <<"other", "CPU_LAPIC">>, <<"IO_APIC">>, <<>>}
Beyonds == {<<>>, <<"CPU_LAPIC">>, <<"other", "IO_APIC", "CPU_LAPIC">>}
Zeros == {{}, {1}, {2}}

Changed(m) ==
  {[m EXCEPT !.bd = FALSE], [m EXCEPT !.entries = FALSE], [m EXCEPT !.fb = FALSE],
   [m EXCEPT !.revision = 1], [m EXCEPT !.revision = 2], [m EXCEPT !.rsdp = FALSE],
   [m EXCEPT !.rsdt = FALSE], [m EXCEPT !.clean = FALSE]}
   \cup {[m EXCEPT !.missing = f] : f \in {{"FPU"}, {"LONG_MODE"}, {"LAPIC", "MSR"}}}

TableVariants ==
  {[Sound EXCEPT !.length = r.length, !.sdts = r.sdts, !.behind = r.behind,
                 !.madt = t, !.beyond = b, !.zero = z] :
     r \in Rsdts, t \in Madts, b \in Beyonds, z \in Zeros}

MCMachines ==
  TableVariants \cup UNION {Changed(m) : m \in TableVariants} \cup UNION {Changed(m) : m \in Changed(Sound)}
=============================================================================
