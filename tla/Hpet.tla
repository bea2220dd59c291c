-------------------------------- MODULE Hpet --------------------------------
(***************************************************************************)
(* The High Precision Event Timer (acpi/hpet/): the main counter, the      *)
(* class Comparator, and timer_handler (idt/interrupts.cpp), which counts  *)
(* its interrupts.                                                         *)
(*                                                                         *)
(* The hardware, external, increments the counter while it is enabled; a   *)
(* comparator whose interrupt is enabled raises an edge on IRQ 0 when the  *)
(* counter becomes equal to it, and in periodic mode then adds its period. *)
(* The counter runs between any two register accesses of the code, however *)
(* long other interrupts delay it.  It has 64 bits and does not wrap here. *)
(*                                                                         *)
(* The caller keeps to the comments: init and a comparator come first,     *)
(* set_one_shot is called with the counter enabled.                        *)
(***************************************************************************)
EXTENDS Integers, Sequences, FiniteSets

CONSTANTS
  Comparators,
  FS_PER_NS, NS_PER_MS,   \* 1000000 each
  TICKS_PER_SEC,          \* interrupts that timer_handler takes for a second, 10
  Periods,                \* clock periods, in femtoseconds
  Times,                  \* arguments of set_one_shot and set_periodic
  MaxTicks, MaxCalls      \* bounds on the run

(* The register of the clock period has 32 bits: less than a millisecond.  *)
ASSUME HpetAssumption ==
  /\ IsFiniteSet(Comparators) /\ Comparators # {}
  /\ {FS_PER_NS, NS_PER_MS, TICKS_PER_SEC} \subseteq Nat \ {0}
  /\ Periods \subseteq Nat \ {0} /\ Times \subseteq Nat \ {0}
  /\ \A p \in Periods : p <= FS_PER_NS * NS_PER_MS
  /\ MaxTicks \in Nat /\ MaxCalls \in Nat

VARIABLES
  period,                 \* clock period of the machine, never changes
  g_clk_period_ns,
  enabled, counter,       \* main counter
  int_enb, type, val_set, \* CONFIG of each comparator
  compar, step,           \* its comparator and the period it adds
  todo, dev, val,         \* steps left to the call, its comparator, value to write
  req,                    \* history: what the call asks for, see Request
  irr, isr,               \* request of IRQ 0, timer_handler is running
  secs, ms,
  now, calls,             \* ticks and calls so far
  since,                  \* history: the request in force for each comparator
  edges, lost             \* history: edges raised, edges merged with an earlier one

clock == <<enabled, counter>>
config == <<int_enb, type, val_set>>
regs == <<compar, step>>
prog == <<todo, dev, val, req, calls>>
intr == <<irr, isr, secs, ms, edges, lost>>
vars == <<period, g_clk_period_ns, clock, config, regs, prog, intr, now, since>>

(* What a comparator was last asked for: the call, its time, the tick at   *)
(* which it read or started the counter, the edges raised since and the    *)
(* tick of the first, whether the counter was reset since, and whether the *)
(* comparator was periodic before.                                         *)
Request(kind, t, was) ==
  [kind |-> kind, id |-> calls, time |-> t, start |-> now, fired |-> 0, first |-> now,
   reset |-> FALSE, switched |-> was]

-----------------------------------------------------------------------------
(* __calc_ms_to_compar without the counter. *)
Ticks(t) == (t * NS_PER_MS) \div g_clk_period_ns

(* A faulty call that does not enable the interrupt. *)
SetOneShotNoConfig == <<"compar">>

set_one_shot == <<"compar", "config_one_shot">>
disable_counter == <<"stop", "zero">>
enable_counter == <<"zero", "start">>

set_periodic == disable_counter \o <<"config_periodic", "compar">> \o enable_counter

Init ==
  /\ period \in Periods /\ g_clk_period_ns = 0
  /\ enabled \in BOOLEAN /\ counter = 0
  /\ int_enb = [c \in Comparators |-> FALSE]
  /\ type = [c \in Comparators |-> "ONE_SHOT"]
  /\ val_set = [c \in Comparators |-> FALSE]
  /\ compar = [c \in Comparators |-> 0] /\ step = [c \in Comparators |-> 0]
  /\ todo = <<"init">> /\ dev = (CHOOSE c \in Comparators : TRUE) /\ val = 0 /\ calls = 0
  /\ irr = FALSE /\ isr = FALSE /\ secs = 0 /\ ms = 0
  /\ now = 0 /\ edges = 0 /\ lost = 0
  /\ req = Request("none", 0, FALSE) /\ since = [c \in Comparators |-> req]

At(s) == ~isr /\ todo # <<>> /\ Head(todo) = s
Continue == todo' = Tail(todo) /\ UNCHANGED <<dev, val, req, calls>>

(* init, and the assertion in the constructor of Comparator. *)
InitPeriod ==
  /\ At("init")
  /\ g_clk_period_ns' = period \div FS_PER_NS
  /\ todo' = IF g_clk_period_ns' # 0 THEN <<>> ELSE <<"panic">>
  /\ UNCHANGED <<period, clock, config, regs, dev, val, req, calls, intr, now, since>>

MayCall == ~isr /\ todo = <<>> /\ calls < MaxCalls

CallWith(steps, c, value, request) ==
  /\ calls' = calls + 1 /\ todo' = steps /\ dev' = c /\ val' = value /\ req' = request
  /\ UNCHANGED <<period, g_clk_period_ns, clock, config, regs, intr, now, since>>

EnableCounter == MayCall /\ CallWith(enable_counter, dev, val, Request("none", 0, FALSE))

(* A faulty conversion that is one tick short. *)
SetOneShotShort(c, t) ==
  /\ MayCall /\ enabled /\ now + Ticks(t) <= MaxTicks
  /\ CallWith(set_one_shot, c, counter + Ticks(t) - 1, Request("one_shot", t, type[c] = "PERIODIC"))

(* set_one_shot begins with the read of the counter. *)
SetOneShot(c, t) ==
  /\ MayCall /\ enabled /\ now + Ticks(t) <= MaxTicks
  /\ CallWith(set_one_shot, c, counter + Ticks(t), Request("one_shot", t, type[c] = "PERIODIC"))

SetPeriodic(c, t) ==
  MayCall /\ CallWith(set_periodic, c, Ticks(t), Request("periodic", t, FALSE))

SwitchCounter ==
  /\ \/ /\ At("start") /\ enabled' = TRUE
        /\ since' = IF req.kind = "periodic" THEN [since EXCEPT ![dev] = [req EXCEPT !.start = now]]
                                             ELSE since
     \/ At("stop") /\ enabled' = FALSE /\ UNCHANGED since
  /\ Continue
  /\ UNCHANGED <<period, g_clk_period_ns, counter, config, regs, intr, now>>

ZeroCounter ==
  /\ At("zero") /\ Continue /\ counter' = 0
  /\ since' = [c \in Comparators |-> [since[c] EXCEPT !.reset = TRUE]]
  /\ UNCHANGED <<period, g_clk_period_ns, enabled, config, regs, intr, now>>

ConfigOneShot ==
  /\ At("config_one_shot") /\ Continue
  /\ int_enb' = [int_enb EXCEPT ![dev] = TRUE]
  /\ type' = [type EXCEPT ![dev] = "ONE_SHOT"] /\ val_set' = [val_set EXCEPT ![dev] = FALSE]
  /\ UNCHANGED <<period, g_clk_period_ns, clock, regs, intr, now, since>>

(* A faulty configuration that leaves out val_set_cnf. *)
ConfigPeriodicNoSet ==
  /\ At("config_periodic") /\ Continue
  /\ int_enb' = [int_enb EXCEPT ![dev] = TRUE]
  /\ type' = [type EXCEPT ![dev] = "PERIODIC"] /\ UNCHANGED val_set
  /\ UNCHANGED <<period, g_clk_period_ns, clock, regs, intr, now, since>>

ConfigPeriodic ==
  /\ At("config_periodic") /\ Continue
  /\ int_enb' = [int_enb EXCEPT ![dev] = TRUE]
  /\ type' = [type EXCEPT ![dev] = "PERIODIC"] /\ val_set' = [val_set EXCEPT ![dev] = TRUE]
  /\ UNCHANGED <<period, g_clk_period_ns, clock, regs, intr, now, since>>

(* The register COMPAR in periodic mode: a write sets the period, and the  *)
(* comparator itself only if val_set_cnf is set, which it clears.          *)
WriteCompar(c, v) ==
  /\ compar' = IF type[c] = "ONE_SHOT" \/ val_set[c] THEN [compar EXCEPT ![c] = v] ELSE compar
  /\ step' = IF type[c] = "PERIODIC" THEN [step EXCEPT ![c] = v] ELSE step
  /\ val_set' = [val_set EXCEPT ![c] = FALSE]

set_compar_value ==
  /\ At("compar") /\ Continue /\ WriteCompar(dev, val)
  /\ since' = IF req.kind = "one_shot" THEN [since EXCEPT ![dev] = req] ELSE since
  /\ UNCHANGED <<period, g_clk_period_ns, clock, int_enb, type, intr, now>>

-----------------------------------------------------------------------------
(* The hardware and the interrupt.                                         *)

Hits == {c \in Comparators : int_enb[c] /\ compar[c] = counter + 1}

Tick ==
  /\ enabled /\ now < MaxTicks
  /\ counter' = counter + 1 /\ now' = now + 1
  /\ compar' = [c \in Comparators |-> compar[c] + (IF c \in Hits /\ type[c] = "PERIODIC" THEN step[c] ELSE 0)]
  /\ since' = [c \in Comparators |->
       IF c \notin Hits THEN since[c]
       ELSE [since[c] EXCEPT !.fired = @ + 1, !.first = IF since[c].fired = 0 THEN now + 1 ELSE @]]
  /\ irr' = (irr \/ Hits # {}) /\ edges' = edges + Cardinality(Hits)
  /\ lost' = lost + Cardinality(Hits) - (IF Hits # {} /\ ~irr THEN 1 ELSE 0)
  /\ UNCHANGED <<period, g_clk_period_ns, enabled, config, step, prog, isr, secs, ms>>

Count(m, wrap) ==
  /\ irr /\ ~isr /\ irr' = FALSE /\ isr' = TRUE
  /\ ms' = IF wrap THEN 0 ELSE m
  /\ secs' = IF wrap THEN secs + 1 ELSE secs
  /\ UNCHANGED <<period, g_clk_period_ns, clock, config, regs, prog, edges, lost, now, since>>

(* A faulty handler that starts a new second one interrupt early. *)
CountEarly == Count(ms + 1, ms + 2 = TICKS_PER_SEC)

(* timer_handler up to the end of interrupt; it runs with IF clear. *)
TimerHandler == Count(ms + 1, ms + 1 = TICKS_PER_SEC)

WriteEoi ==
  /\ isr /\ isr' = FALSE
  /\ UNCHANGED <<period, g_clk_period_ns, clock, config, regs, prog, irr, secs, ms, edges, lost, now, since>>

(* The assertion spins, or the caller has nothing more to ask. *)
Rest == ~isr /\ (todo = <<"panic">> \/ (todo = <<>> /\ calls = MaxCalls)) /\ UNCHANGED vars

Program == InitPeriod \/ SwitchCounter \/ ZeroCounter \/ ConfigOneShot \/ ConfigPeriodic \/ set_compar_value
Handler == TimerHandler \/ WriteEoi

Next ==
  \/ Program \/ Handler \/ Tick \/ EnableCounter
  \/ \E c \in Comparators, t \in Times : SetOneShot(c, t) \/ SetPeriodic(c, t)
  \/ Rest

(* The processor runs and the counter counts; calls are up to the caller.  *)
Spec == Init /\ [][Next]_vars /\ WF_vars(Program) /\ WF_vars(Handler) /\ WF_vars(Tick)

-----------------------------------------------------------------------------
(* The types of the variables; no conversion divides by a period of 0,     *)
(* because the assertion in the constructor stops first.                   *)
TypeOK ==
  /\ period \in Periods /\ g_clk_period_ns \in Nat
  /\ {enabled, irr, isr} \subseteq BOOLEAN /\ counter \in 0..MaxTicks /\ now \in 0..MaxTicks
  /\ int_enb \in [Comparators -> BOOLEAN] /\ val_set \in [Comparators -> BOOLEAN]
  /\ type \in [Comparators -> {"ONE_SHOT", "PERIODIC"}]
  /\ compar \in [Comparators -> Nat] /\ step \in [Comparators -> Nat]
  /\ dev \in Comparators /\ val \in Nat /\ calls \in 0..MaxCalls
  /\ \/ \E s \in {set_one_shot, set_periodic}, n \in 1..7 : n <= Len(s) + 1 /\ todo = SubSeq(s, n, Len(s))
     \/ todo \in {<<"init">>, <<"panic">>}
  /\ secs \in Nat /\ ms \in 0..(TICKS_PER_SEC - 1) /\ edges \in Nat /\ lost \in Nat
  /\ todo \in {<<"init">>, <<"panic">>} \/ g_clk_period_ns > 0

(* The time from the read of the counter to the interrupt of set_one_shot, *)
(* with the clock period truncated to nanoseconds and the division rounded *)
(* down, is less than one tick too short.  It is longer by less than one   *)
(* part in g_clk_period_ns, and the interrupt "fires only once"            *)
(* (comparator.cpp:62), unless the main counter is reset meanwhile, which  *)
(* set_periodic on any comparator does: the interrupt stays enabled, and   *)
(* the counter comes past it late or again.  All this needs a comparator   *)
(* that was not periodic before: set_compar_value comes before set_config, *)
(* so the write would only change the old period.  The variables keep      *)
(* their types: the conversion never divides by a period of 0.             *)
OneShotExact ==
  /\ TypeOK
  /\ \A c \in Comparators :
       LET r == since[c]
           elapsed == r.first - r.start
           asked == r.time * NS_PER_MS * FS_PER_NS
       IN r.kind = "one_shot" /\ ~r.switched /\ r.fired > 0 =>
            /\ (elapsed + 1) * period > asked
            /\ r.reset \/ elapsed * period * g_clk_period_ns < asked * (g_clk_period_ns + 1)
            /\ r.reset \/ r.fired = 1

(* After set_periodic, the n-th interrupt comes n periods after the        *)
(* counter was started, through any calls for other comparators that do    *)
(* not reset the counter, whatever the comparator was used for before.     *)
PeriodicExact ==
  \A c \in Comparators :
    LET r == since[c] IN
      r.kind = "periodic" /\ ~r.reset => r.fired = (now - r.start) \div Ticks(r.time)

(* The seconds and tenths that timer_handler shows count every edge that   *)
(* was not merged with an earlier one still waiting.                       *)
ClockCounts ==
  secs * TICKS_PER_SEC + ms + (IF irr THEN 1 ELSE 0) = edges - lost

(* A one-shot interrupt is raised if the counter had not passed the        *)
(* comparator when set_one_shot came to its end, unless the comparator is  *)
(* used for something else or the counter is reset; and a raised interrupt *)
(* is served, also when the next edge comes while timer_handler runs.      *)
OneShotFires ==
  /\ \A c \in Comparators, n \in 1..MaxCalls :
       (since[c].kind = "one_shot" /\ since[c].id = n - 1 /\ ~since[c].switched /\ ~since[c].reset
          /\ todo = <<>> /\ counter < compar[c])
         ~> (since[c].id # n - 1 \/ since[c].fired > 0 \/ since[c].reset)
  /\ irr ~> ~irr
=============================================================================
