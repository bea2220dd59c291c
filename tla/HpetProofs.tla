----------------------------- MODULE HpetProofs -----------------------------
(***************************************************************************)
(* Proofs about Hpet, for any number of comparators, any clock period, any *)
(* times and any bound on ticks and calls: the times of the interrupts of  *)
(* set_one_shot and set_periodic, and the clock of timer_handler.          *)
(***************************************************************************)
EXTENDS Hpet, TLAPS

(* A step that names no prover is left to Zenon. *)
USE ZenonT(30)

-----------------------------------------------------------------------------
(* The times of the interrupts.                                            *)
(*                                                                         *)
(* What is left of set_periodic and set_one_shot after each of their       *)
(* register accesses; enable_counter is Periodic2.                         *)
Periodic6 == <<"stop", "zero", "config_periodic", "compar", "zero", "start">>
Periodic5 == <<"zero", "config_periodic", "compar", "zero", "start">>
Periodic4 == <<"config_periodic", "compar", "zero", "start">>
Periodic3 == <<"compar", "zero", "start">>
Periodic2 == <<"zero", "start">>
Periodic1 == <<"start">>
OneShot2 == <<"compar", "config_one_shot">>
OneShot1 == <<"config_one_shot">>
InPeriodic == {Periodic6, Periodic5, Periodic4, Periodic3, Periodic2, Periodic1}

Requests ==
  [kind : {"none", "one_shot", "periodic"}, id : Nat, time : Nat, start : Nat,
   fired : Nat, first : Nat, reset : BOOLEAN, switched : BOOLEAN]

(* The counter never runs ahead of the time; the clock period is what init *)
(* read from the register.                                                 *)
Values ==
  /\ period \in Periods /\ g_clk_period_ns \in Nat
  /\ enabled \in BOOLEAN /\ counter \in Nat /\ now \in 0..MaxTicks /\ counter <= now
  /\ int_enb \in [Comparators -> BOOLEAN] /\ val_set \in [Comparators -> BOOLEAN]
  /\ type \in [Comparators -> {"ONE_SHOT", "PERIODIC"}]
  /\ compar \in [Comparators -> Nat] /\ step \in [Comparators -> Nat]
  /\ dev \in Comparators /\ val \in Nat /\ calls \in 0..MaxCalls
  /\ req \in Requests /\ since \in [Comparators -> Requests]
  /\ todo \in {<<"init">>, <<"panic">>} \/ g_clk_period_ns > 0
  /\ g_clk_period_ns > 0 => g_clk_period_ns = period \div FS_PER_NS

(* Ticks for a given clock period. *)
TicksOf(t, g) == (t * NS_PER_MS) \div g

(* How far a call has come.  During set_one_shot the counter is not reset, *)
(* so that the value to write stays one request ahead of the start; after  *)
(* the first step of set_periodic it stands still.                         *)
Calling ==
  /\ todo \in InPeriodic \cup {OneShot2, OneShot1, <<>>, <<"init">>, <<"panic">>}
  /\ req.fired = 0 /\ ~req.reset /\ (req.kind # "none" => req.time \in Times)
  /\ todo \in {<<"init">>, <<"panic">>} =>
       req.kind = "none" /\ \A c \in Comparators : since[c].kind = "none"
  /\ todo = OneShot2 =>
       /\ req.kind = "one_shot" /\ val + now = counter + req.start + TicksOf(req.time, g_clk_period_ns)
       /\ ~req.switched => type[dev] = "ONE_SHOT"
  /\ todo = OneShot1 => since[dev].kind = "one_shot"
  /\ todo \in {Periodic6, Periodic5, Periodic4, Periodic3} => req.kind = "periodic"
  /\ todo \in InPeriodic => req.kind # "one_shot"
  /\ req.kind = "periodic" /\ todo \in InPeriodic =>
       val = TicksOf(req.time, g_clk_period_ns) /\ (todo # Periodic6 => ~enabled)
  /\ req.kind = "periodic" /\ todo \in {Periodic4, Periodic3, Periodic2, Periodic1} => since[dev].reset
  /\ req.kind = "periodic" /\ todo \in {Periodic3, Periodic2, Periodic1} =>
       type[dev] = "PERIODIC" /\ int_enb[dev] /\ (todo = Periodic3 => val_set[dev])
  /\ req.kind = "periodic" /\ todo \in {Periodic2, Periodic1} =>
       compar[dev] = val /\ step[dev] = val /\ (todo = Periodic1 => counter = 0)

(* set_periodic is changing the comparator; the counter stands still.      *)
Setting(c) == dev = c /\ req.kind = "periodic" /\ todo \in {Periodic3, Periodic2, Periodic1}

(* The comparator of a one-shot request is as far ahead of the counter as  *)
(* the time asked for is ahead, or further if the counter was reset.       *)
OneShotOf(c, r) ==
  /\ r.time \in Times
  /\ ~Setting(c) =>
       type[c] = "ONE_SHOT" /\ compar[c] + now >= counter + r.start + TicksOf(r.time, g_clk_period_ns)
  /\ ~r.reset => compar[c] + now = counter + r.start + TicksOf(r.time, g_clk_period_ns)
  /\ r.fired > 0 => r.first >= r.start + TicksOf(r.time, g_clk_period_ns)
  /\ r.fired > 0 /\ ~r.reset =>
       r.first = r.start + TicksOf(r.time, g_clk_period_ns) /\ r.fired = 1 /\ compar[c] <= counter

(* The comparator of a periodic request is at the next multiple of the     *)
(* time asked for.                                                         *)
PeriodicOf(c, r) ==
  /\ r.time \in Times
  /\ type[c] = "PERIODIC" /\ int_enb[c] /\ step[c] = TicksOf(r.time, g_clk_period_ns)
  /\ compar[c] = (r.fired + 1) * TicksOf(r.time, g_clk_period_ns)
  /\ counter + r.start = now
  /\ r.fired * TicksOf(r.time, g_clk_period_ns) <= counter
  /\ counter < (r.fired + 1) * TicksOf(r.time, g_clk_period_ns)

Timed ==
  \A c \in Comparators :
    /\ since[c].kind = "one_shot" /\ ~since[c].switched => OneShotOf(c, since[c])
    /\ since[c].kind = "periodic" /\ ~since[c].reset => PeriodicOf(c, since[c])

(* The inductive invariant. *)
HpetInv == Values /\ Calling /\ Timed

-----------------------------------------------------------------------------
(* Lemmas.                                                                 *)

(* A concatenation is the sequence with the elements of both. *)
LEMMA Concatenation ==
  ASSUME NEW S, NEW s \in Seq(S), NEW t \in Seq(S), NEW u \in Seq(S), Len(u) = Len(s) + Len(t),
         \A i \in 1..Len(s) : u[i] = s[i], \A i \in 1..Len(t) : u[Len(s) + i] = t[i]
  PROVE  s \o t = u
<1>1. s \o t \in Seq(S) /\ Len(s \o t) = Len(s) + Len(t)
  BY SMTT(30)
<1>2. ASSUME NEW i \in 1..Len(u) PROVE (s \o t)[i] = u[i]
  <2>1. CASE i <= Len(s)
    BY <2>1, SMTT(30)
  <2>2. CASE i > Len(s)
    <3>1. i - Len(s) \in 1..Len(t) /\ i = Len(s) + (i - Len(s))
      BY <2>2, SMTT(30)
    <3>2. (s \o t)[i] = t[i - Len(s)]
      BY <2>2, SMTT(30)
    <3> QED BY <3>1, <3>2
  <2> QED BY <2>1, <2>2, SMTT(30)
<1> QED BY <1>1, <1>2, SMTT(30)

(* The steps of set_periodic. *)
LEMMA SetPeriodicSteps == set_periodic = Periodic6
<1>1. PICK a, b, c, d, S :
        /\ a = <<"stop", "zero">> /\ b = <<"config_periodic", "compar">>
        /\ c = <<"stop", "zero", "config_periodic", "compar">> /\ d = <<"zero", "start">>
        /\ S = {"stop", "zero", "config_periodic", "compar", "start"}
  OBVIOUS
<1>2. /\ a \in Seq(S) /\ b \in Seq(S) /\ c \in Seq(S) /\ d \in Seq(S) /\ Periodic6 \in Seq(S)
  BY <1>1, SMTT(30) DEF Periodic6
<1>3. Len(a) = 2 /\ Len(b) = 2 /\ Len(c) = 4 /\ Len(d) = 2 /\ Len(Periodic6) = 6
  BY <1>1 DEF Periodic6
<1>4. a \o b = c
  <2>1. \A i \in 1..2 : c[i] = a[i] /\ c[2 + i] = b[i]
    BY <1>1, SMTT(30)
  <2>2. Len(c) = Len(a) + Len(b)
    BY <1>3, SMTT(30)
  <2>3. \A i \in 1..Len(a) : c[i] = a[i]
    BY <1>3, <2>1
  <2>4. \A i \in 1..Len(b) : c[Len(a) + i] = b[i]
    BY <1>3, <2>1
  <2> QED BY <1>2, <2>2, <2>3, <2>4, Concatenation
<1>5. c \o d = Periodic6
  <2>1. \A i \in 1..4 : Periodic6[i] = c[i]
    BY <1>1, SMTT(30) DEF Periodic6
  <2>2. \A i \in 1..2 : Periodic6[4 + i] = d[i]
    BY <1>1, SMTT(30) DEF Periodic6
  <2>3. Len(Periodic6) = Len(c) + Len(d)
    BY <1>3, SMTT(30)
  <2>4. \A i \in 1..Len(c) : Periodic6[i] = c[i]
    BY <1>3, <2>1
  <2>5. \A i \in 1..Len(d) : Periodic6[Len(c) + i] = d[i]
    BY <1>3, <2>2
  <2> QED BY <1>2, <2>3, <2>4, <2>5, Concatenation
<1> QED BY <1>1, <1>4, <1>5 DEF set_periodic, disable_counter, enable_counter

(* The sequences of steps are different. *)
LEMMA Shapes ==
  /\ Len(Periodic6) = 6 /\ Len(Periodic5) = 5 /\ Len(Periodic4) = 4 /\ Len(Periodic3) = 3
  /\ Len(Periodic2) = 2 /\ Len(Periodic1) = 1 /\ Len(OneShot2) = 2 /\ Len(OneShot1) = 1
  /\ Len(<<"init">>) = 1 /\ Len(<<"panic">>) = 1 /\ Len(<<>>) = 0
  /\ Head(Periodic6) = "stop" /\ Head(Periodic5) = "zero" /\ Head(Periodic4) = "config_periodic"
  /\ Head(Periodic3) = "compar" /\ Head(Periodic2) = "zero" /\ Head(Periodic1) = "start"
  /\ Head(OneShot2) = "compar" /\ Head(OneShot1) = "config_one_shot"
  /\ Head(<<"init">>) = "init" /\ Head(<<"panic">>) = "panic"
  BY SMTT(30) DEF Periodic6, Periodic5, Periodic4, Periodic3, Periodic2, Periodic1, OneShot2, OneShot1

(* No two of the sequences are equal. *)
LEMMA Different ==
  /\ Periodic6 \notin {Periodic5, Periodic4, Periodic3, Periodic2, Periodic1, OneShot2, OneShot1}
  /\ Periodic5 \notin {Periodic6, Periodic4, Periodic3, Periodic2, Periodic1, OneShot2, OneShot1}
  /\ Periodic4 \notin {Periodic6, Periodic5, Periodic3, Periodic2, Periodic1, OneShot2, OneShot1}
  /\ Periodic3 \notin {Periodic6, Periodic5, Periodic4, Periodic2, Periodic1, OneShot2, OneShot1}
  /\ Periodic2 \notin {Periodic6, Periodic5, Periodic4, Periodic3, Periodic1, OneShot2, OneShot1}
  /\ Periodic1 \notin {Periodic6, Periodic5, Periodic4, Periodic3, Periodic2, OneShot2, OneShot1}
  /\ OneShot2 \notin {Periodic6, Periodic5, Periodic4, Periodic3, Periodic2, Periodic1, OneShot1}
  /\ OneShot1 \notin {Periodic6, Periodic5, Periodic4, Periodic3, Periodic2, Periodic1, OneShot2}
  /\ \A s \in {Periodic6, Periodic5, Periodic4, Periodic3, Periodic2, Periodic1, OneShot2, OneShot1} :
       s # <<>> /\ s # <<"init">> /\ s # <<"panic">>
<1>1. Periodic6 \notin {Periodic5, Periodic4, Periodic3, Periodic2, Periodic1, OneShot2, OneShot1}
  BY Shapes
<1>2. Periodic5 \notin {Periodic6, Periodic4, Periodic3, Periodic2, Periodic1, OneShot2, OneShot1}
  BY Shapes, SMTT(30)
<1>3. Periodic4 \notin {Periodic6, Periodic5, Periodic3, Periodic2, Periodic1, OneShot2, OneShot1}
  BY Shapes
<1>4. Periodic3 \notin {Periodic6, Periodic5, Periodic4, Periodic2, Periodic1, OneShot2, OneShot1}
  BY Shapes, SMTT(30)
<1>5. Periodic2 \notin {Periodic6, Periodic5, Periodic4, Periodic3, Periodic1, OneShot2, OneShot1}
  BY Shapes, SMTT(30)
<1>6. Periodic1 \notin {Periodic6, Periodic5, Periodic4, Periodic3, Periodic2, OneShot2, OneShot1}
  BY Shapes
<1>7. OneShot2 \notin {Periodic6, Periodic5, Periodic4, Periodic3, Periodic2, Periodic1, OneShot1}
  BY Shapes, SMTT(30)
<1>8. OneShot1 \notin {Periodic6, Periodic5, Periodic4, Periodic3, Periodic2, Periodic1, OneShot2}
  BY Shapes
<1>9. ASSUME NEW s \in {Periodic6, Periodic5, Periodic4, Periodic3, Periodic2, Periodic1, OneShot2, OneShot1}
      PROVE  s # <<>> /\ s # <<"init">> /\ s # <<"panic">>
  <2>1. Len(s) # 0 /\ Head(s) # "init" /\ Head(s) # "panic"
    BY <1>9, Shapes, SMTT(30)
  <2>2. Len(<<>>) = 0 /\ Head(<<"init">>) = "init" /\ Head(<<"panic">>) = "panic"
    BY Shapes
  <2> QED BY <2>1, <2>2
<1> QED BY <1>1, <1>2, <1>3, <1>4, <1>5, <1>6, <1>7, <1>8, <1>9

(* No call is running, or it has just started. *)
LEMMA NoCall == <<>> \notin InPeriodic \cup {OneShot2, OneShot1, <<"init">>, <<"panic">>}
<1>1. Len(<<>>) # Len(<<"init">>) /\ Len(<<>>) # Len(<<"panic">>)
  BY Shapes, SMTT(30)
<1>2. <<>> # <<"init">> /\ <<>> # <<"panic">>
  BY <1>1
<1>3. <<>> \notin {Periodic6, Periodic5, Periodic4, Periodic3, Periodic2, Periodic1, OneShot2, OneShot1}
  BY Different
<1> QED BY <1>2, <1>3 DEF InPeriodic

(* init or the failed assertion is no step of a call. *)
LEMMA NoStep ==
  /\ <<"panic">> \notin InPeriodic \cup {OneShot2, OneShot1, <<"init">>}
  /\ <<"init">> \notin InPeriodic \cup {OneShot2, OneShot1}
<1>1. Head(<<"init">>) # Head(<<"panic">>)
  BY Shapes
<1>2. <<"init">> # <<"panic">>
  BY <1>1
<1>3. <<"panic">> \notin {Periodic6, Periodic5, Periodic4, Periodic3, Periodic2, Periodic1, OneShot2, OneShot1}
  BY Different
<1>4. <<"init">> \notin {Periodic6, Periodic5, Periodic4, Periodic3, Periodic2, Periodic1, OneShot2, OneShot1}
  BY Different
<1> QED BY <1>2, <1>3, <1>4 DEF InPeriodic

(* The first steps of the calls are no later ones. *)
LEMMA FirstSteps ==
  ASSUME NEW s \in {Periodic6, Periodic2, OneShot2}
  PROVE  s \notin {Periodic5, Periodic4, Periodic3, Periodic1, OneShot1, <<>>, <<"init">>, <<"panic">>}
  BY Different

(* What is left after a step. *)
LEMMA Tails ==
  /\ Tail(Periodic6) = Periodic5 /\ Tail(Periodic5) = Periodic4 /\ Tail(Periodic4) = Periodic3
  /\ Tail(Periodic3) = Periodic2 /\ Tail(Periodic2) = Periodic1 /\ Tail(Periodic1) = <<>>
  /\ Tail(OneShot2) = OneShot1 /\ Tail(OneShot1) = <<>>
<1>1. /\ Tail(Periodic6) = Periodic5 /\ Tail(Periodic5) = Periodic4 /\ Tail(Periodic4) = Periodic3
  BY SMTT(30) DEF Periodic6, Periodic5, Periodic4, Periodic3
<1>2. /\ Tail(Periodic3) = Periodic2 /\ Tail(Periodic2) = Periodic1 /\ Tail(Periodic1) = <<>>
  BY SMTT(30) DEF Periodic3, Periodic2, Periodic1
<1>3. Tail(OneShot2) = OneShot1 /\ Tail(OneShot1) = <<>>
  BY SMTT(30) DEF OneShot2, OneShot1
<1> QED BY <1>1, <1>2, <1>3

(* A step is at these places of the calls. *)
LEMMA Places ==
  ASSUME Calling, NEW s, At(s)
  PROVE  /\ s = "stop" => todo = Periodic6
         /\ s = "zero" => todo = Periodic5 \/ todo = Periodic2
         /\ s = "config_periodic" => todo = Periodic4
         /\ s = "compar" => todo = Periodic3 \/ todo = OneShot2
         /\ s = "start" => todo = Periodic1
         /\ s = "config_one_shot" => todo = OneShot1
         /\ s = "init" => todo = <<"init">>
<1>1. todo \in InPeriodic \cup {OneShot2, OneShot1, <<"init">>, <<"panic">>} /\ Head(todo) = s
  BY DEF Calling, At
<1> QED BY <1>1, Shapes DEF InPeriodic

(* The conversion of a time rounds down. *)
LEMMA TicksRound ==
  ASSUME NEW t \in Nat, g_clk_period_ns \in Nat \ {0}
  PROVE  /\ Ticks(t) \in Nat
         /\ Ticks(t) * g_clk_period_ns <= t * NS_PER_MS
         /\ t * NS_PER_MS < (Ticks(t) + 1) * g_clk_period_ns
<1>1. PICK n \in Nat : n = t * NS_PER_MS
  <2>1. NS_PER_MS \in Nat
    BY HpetAssumption
  <2>2. t * NS_PER_MS \in Nat
    BY <2>1, SMTT(30)
  <2> QED BY <2>2
<1>2. PICK g \in Nat \ {0} : g = g_clk_period_ns
  OBVIOUS
<1>3. n \div g \in Nat /\ n = g * (n \div g) + (n % g) /\ n % g \in 0..(g - 1)
  BY Z3
<1>4. PICK q \in Nat : q = n \div g
  BY <1>3
<1>5. q * g = g * q /\ (q + 1) * g = g * q + g
  BY Z3
<1>6. q * g <= n /\ n < (q + 1) * g
  BY <1>3, <1>4, <1>5, SMTT(30)
<1> QED BY <1>1, <1>2, <1>4, <1>6 DEF Ticks

(* A time asked for is at least a tick, as the clock period is shorter     *)
(* than a millisecond.                                                     *)
LEMMA TicksPositive ==
  ASSUME NEW t \in Times, Values, g_clk_period_ns > 0
  PROVE  Ticks(t) \in Nat \ {0}
<1>1. /\ t \in Nat \ {0} /\ g_clk_period_ns \in Nat \ {0} /\ g_clk_period_ns = period \div FS_PER_NS
      /\ period \in Nat /\ FS_PER_NS \in Nat \ {0} /\ NS_PER_MS \in Nat \ {0}
      /\ period <= FS_PER_NS * NS_PER_MS
  BY HpetAssumption, SMTT(30) DEF Values
<1>2. g_clk_period_ns <= NS_PER_MS
  <2>1. ASSUME NEW p \in Nat, NEW F \in Nat \ {0}, NEW N \in Nat, p <= F * N
        PROVE  p \div F <= N
    BY <2>1, Z3
  <2> QED BY <1>1, <2>1
<1>3. NS_PER_MS <= t * NS_PER_MS
  <2>1. ASSUME NEW a \in Nat \ {0}, NEW b \in Nat PROVE b <= a * b
    BY <2>1, Z3
  <2> QED BY <1>1, <2>1
<1>4. Ticks(t) \in Nat /\ t * NS_PER_MS < (Ticks(t) + 1) * g_clk_period_ns
  BY <1>1, TicksRound
<1>5. Ticks(t) # 0
  <2> SUFFICES ASSUME Ticks(t) = 0 PROVE FALSE
    OBVIOUS
  <2>1. (Ticks(t) + 1) * g_clk_period_ns = g_clk_period_ns
    BY <1>1, SMTT(30)
  <2>2. t * NS_PER_MS \in Nat
    BY <1>1, SMTT(30)
  <2> QED BY <1>1, <1>2, <1>3, <1>4, <2>1, <2>2, SMTT(30)
<1> QED BY <1>4, <1>5

(* The counter is reset: nothing else changes in a request. *)
LEMMA ResetRequest ==
  ASSUME NEW r \in Requests, NEW s, s = [r EXCEPT !.reset = TRUE]
  PROVE  /\ s \in Requests /\ s.kind = r.kind /\ s.time = r.time /\ s.start = r.start
         /\ s.fired = r.fired /\ s.first = r.first /\ s.switched = r.switched /\ s.reset
<1>1. /\ s.kind = r.kind /\ s.time = r.time /\ s.start = r.start
      /\ s.fired = r.fired /\ s.first = r.first /\ s.switched = r.switched /\ s.reset = TRUE
  BY DEF Requests
<1>2. s \in Requests
  BY DEF Requests
<1> QED BY <1>1, <1>2

(* The interrupt is raised. *)
Fired(r, a, b) == [r EXCEPT !.fired = a, !.first = b]

(* Only the count and the first tick change. *)
LEMMA FireRequest ==
  ASSUME NEW r \in Requests, NEW a \in Nat, NEW b \in Nat
  PROVE  /\ Fired(r, a, b) \in Requests /\ Fired(r, a, b).kind = r.kind
         /\ Fired(r, a, b).time = r.time /\ Fired(r, a, b).start = r.start
         /\ Fired(r, a, b).fired = a /\ Fired(r, a, b).first = b
         /\ Fired(r, a, b).switched = r.switched /\ Fired(r, a, b).reset = r.reset
<1>1. PICK s : s = [r EXCEPT !.fired = a, !.first = b]
  OBVIOUS
<1>2. /\ s.kind = r.kind /\ s.time = r.time /\ s.start = r.start
      /\ s.fired = a /\ s.first = b /\ s.switched = r.switched /\ s.reset = r.reset
  BY <1>1 DEF Requests
<1>3. s \in Requests
  BY <1>1 DEF Requests
<1>4. Fired(r, a, b) = s
  BY <1>1 DEF Fired
<1> QED BY <1>2, <1>3, <1>4

(* set_periodic starts the counter at tick n. *)
LEMMA StartRequest ==
  ASSUME NEW r \in Requests, NEW n \in Nat, NEW s, s = [r EXCEPT !.start = n]
  PROVE  /\ s \in Requests /\ s.kind = r.kind /\ s.time = r.time /\ s.start = n
         /\ s.fired = r.fired /\ s.reset = r.reset
  BY DEF Requests

(* What a call asks for: s is a new request of this kind for time t. *)
Asks(s, kind, t, was) ==
  /\ s \in Requests /\ s.kind = kind /\ s.time = t /\ s.start = now /\ s.fired = 0
  /\ ~s.reset /\ s.switched = was

(* Request makes one. *)
LEMMA NewRequest ==
  ASSUME Values, NEW kind \in {"none", "one_shot", "periodic"}, NEW t \in Nat, NEW was \in BOOLEAN
  PROVE  Asks(Request(kind, t, was), kind, t, was)
<1>1. calls \in Nat /\ now \in Nat
  BY SMTT(30) DEF Values
<1>2. PICK s : s = Request(kind, t, was)
  OBVIOUS
<1>3. /\ s.kind = kind /\ s.time = t /\ s.start = now /\ s.fired = 0
      /\ s.reset = FALSE /\ s.switched = was
  BY <1>2 DEF Request
<1>4. s \in Requests
  BY <1>1, <1>2 DEF Request, Requests
<1>5. Asks(s, kind, t, was)
  BY <1>3, <1>4 DEF Asks
<1> QED BY <1>2, <1>5

(* The conversion of a time that is asked for. *)
LEMMA TicksOfTime ==
  ASSUME Values, g_clk_period_ns > 0, NEW t \in Times
  PROVE  Ticks(t) = TicksOf(t, g_clk_period_ns) /\ TicksOf(t, g_clk_period_ns) \in Nat \ {0}
<1>1. Ticks(t) = TicksOf(t, g_clk_period_ns)
  BY DEF Ticks, TicksOf
<1> QED BY <1>1, TicksPositive

-----------------------------------------------------------------------------
(* The invariant holds at the start, and every step keeps it.              *)

(* Nothing is asked for before init. *)
LEMMA HpetStarts == ASSUME Init PROVE HpetInv
<1>1. /\ period \in Periods /\ g_clk_period_ns = 0 /\ enabled \in BOOLEAN /\ counter = 0
      /\ int_enb = [c \in Comparators |-> FALSE] /\ type = [c \in Comparators |-> "ONE_SHOT"]
      /\ val_set = [c \in Comparators |-> FALSE] /\ compar = [c \in Comparators |-> 0]
      /\ step = [c \in Comparators |-> 0] /\ todo = <<"init">> /\ val = 0 /\ calls = 0 /\ now = 0
  BY DEF Init
<1>2. dev \in Comparators
  BY HpetAssumption DEF Init
<1>3. req \in Requests /\ req.kind = "none" /\ req.fired = 0 /\ ~req.reset
  <2>1. req = Request("none", 0, FALSE)
    BY DEF Init
  <2>2. req \in Requests
    BY <1>1, <2>1 DEF Request, Requests
  <2>3. req.kind = "none" /\ req.fired = 0 /\ req.reset = FALSE
    BY <2>1 DEF Request
  <2> QED BY <2>2, <2>3
<1>4. since = [c \in Comparators |-> req]
  BY DEF Init
<1>5. Values
  BY <1>1, <1>2, <1>3, <1>4, HpetAssumption, SMTT(30) DEF Values
<1>6. Calling
  <2>1. todo \notin InPeriodic \cup {OneShot2, OneShot1}
    BY <1>1, NoStep
  <2>2. \A c \in Comparators : since[c].kind = "none"
    BY <1>3, <1>4
  <2> QED BY <1>1, <1>3, <2>1, <2>2 DEF Calling, InPeriodic
<1>7. Timed
  BY <1>3, <1>4 DEF Timed
<1> QED BY <1>5, <1>6, <1>7 DEF HpetInv

(* The handler, the end of interrupt and the idle steps touch nothing that *)
(* the invariant is about.                                                 *)
LEMMA SameTimes ==
  ASSUME HpetInv,
         UNCHANGED <<period, g_clk_period_ns, clock, config, regs, prog, now, since>>
  PROVE  HpetInv'
<1>1. /\ period' = period /\ g_clk_period_ns' = g_clk_period_ns /\ enabled' = enabled
      /\ counter' = counter /\ int_enb' = int_enb /\ type' = type /\ val_set' = val_set
      /\ compar' = compar /\ step' = step /\ todo' = todo /\ dev' = dev /\ val' = val
      /\ req' = req /\ calls' = calls /\ now' = now /\ since' = since
  BY DEF clock, config, regs, prog
<1>2. Values'
  BY <1>1 DEF HpetInv, Values
<1>3. Calling'
  BY <1>1 DEF HpetInv, Calling
<1>4. Timed'
  BY <1>1, SMTT(30) DEF HpetInv, Timed, OneShotOf, PeriodicOf, Setting
<1> QED BY <1>2, <1>3, <1>4 DEF HpetInv

(* init comes before any request. *)
LEMMA InitPeriodTimes == ASSUME HpetInv, InitPeriod PROVE HpetInv'
<1>1. /\ period' = period /\ enabled' = enabled
      /\ counter' = counter /\ int_enb' = int_enb /\ type' = type /\ val_set' = val_set
      /\ compar' = compar /\ step' = step /\ dev' = dev /\ val' = val
      /\ req' = req /\ calls' = calls /\ now' = now /\ since' = since
  BY DEF InitPeriod, clock, config, regs
<1>2. Values /\ Calling /\ Timed
  BY DEF HpetInv
<1>3. todo = <<"init">>
  BY <1>2, Places DEF InitPeriod
<1>4. req.kind = "none" /\ \A c \in Comparators : since[c].kind = "none"
  BY <1>2, <1>3 DEF Calling
<1>5. /\ g_clk_period_ns' = period \div FS_PER_NS /\ period \div FS_PER_NS \in Nat
      /\ todo' = (IF g_clk_period_ns' # 0 THEN <<>> ELSE <<"panic">>)
  <2>1. period \in Nat /\ FS_PER_NS \in Nat \ {0}
    BY <1>2, HpetAssumption DEF Values
  <2>2. period \div FS_PER_NS \in Nat
    <3>1. ASSUME NEW p \in Nat, NEW F \in Nat \ {0} PROVE p \div F \in Nat
      BY <3>1, Z3
    <3> QED BY <2>1, <3>1
  <2> QED BY <2>2 DEF InitPeriod
<1>6. Values'
  BY <1>1, <1>2, <1>5, SMTT(30) DEF Values
<1>7. Calling'
  <2>1. todo' \in {<<>>, <<"panic">>}
    BY <1>5
  <2>2. todo' \notin InPeriodic \cup {OneShot2, OneShot1, <<"init">>}
    BY <2>1, NoCall, NoStep
  <2>3. req.fired = 0 /\ ~req.reset
    BY <1>2 DEF Calling
  <2> QED BY <1>1, <1>4, <2>1, <2>2, <2>3 DEF Calling, InPeriodic
<1>8. Timed'
  BY <1>1, <1>4 DEF Timed
<1> QED BY <1>6, <1>7, <1>8 DEF HpetInv

(* A call starts: the comparators are as the last call left them. *)
LEMMA CallStarts ==
  ASSUME HpetInv, MayCall, NEW steps \in {Periodic6, Periodic2, OneShot2}, NEW c \in Comparators,
         NEW value \in Nat, NEW request \in Requests, CallWith(steps, c, value, request),
         request.fired = 0, ~request.reset, request.kind # "none" => request.time \in Times,
         steps = Periodic6 => request.kind = "periodic",
         steps = Periodic2 => request.kind = "none",
         request.kind = "periodic" => value = TicksOf(request.time, g_clk_period_ns),
         steps = OneShot2 =>
           /\ request.kind = "one_shot"
           /\ value + now = counter + request.start + TicksOf(request.time, g_clk_period_ns)
           /\ ~request.switched => type[c] = "ONE_SHOT"
  PROVE  HpetInv'
<1>1. /\ period' = period /\ g_clk_period_ns' = g_clk_period_ns /\ enabled' = enabled
      /\ counter' = counter /\ int_enb' = int_enb /\ type' = type /\ val_set' = val_set
      /\ compar' = compar /\ step' = step /\ now' = now /\ since' = since
      /\ todo' = steps /\ dev' = c /\ val' = value /\ req' = request /\ calls' = calls + 1
  BY DEF CallWith, clock, config, regs
<1>2. Values /\ Calling /\ Timed
  BY DEF HpetInv
<1>3. todo = <<>> /\ calls < MaxCalls
  BY DEF MayCall
<1>4. todo \notin InPeriodic \cup {OneShot2, OneShot1, <<"init">>, <<"panic">>}
  BY <1>3, NoCall
<1>5. Values'
  <2>1. calls + 1 \in 0..MaxCalls
    BY <1>2, <1>3, HpetAssumption, SMTT(30) DEF Values
  <2>2. g_clk_period_ns > 0
    BY <1>2, <1>4 DEF Values
  <2> QED BY <1>1, <1>2, <2>1, <2>2 DEF Values
<1>6. steps \notin {Periodic5, Periodic4, Periodic3, Periodic1, OneShot1, <<>>, <<"init">>, <<"panic">>}
  BY FirstSteps
<1>7. Calling'
  <2>1. CASE steps = Periodic6
    <3>1. steps # Periodic2 /\ steps # OneShot2
      BY <2>1, Different
    <3> QED BY <1>1, <1>6, <2>1, <3>1 DEF Calling, InPeriodic
  <2>2. CASE steps = Periodic2
    <3>1. steps # Periodic6 /\ steps # OneShot2
      BY <2>2, Different
    <3> QED BY <1>1, <1>6, <2>2, <3>1 DEF Calling, InPeriodic
  <2>3. CASE steps = OneShot2
    <3>1. steps # Periodic6 /\ steps # Periodic2
      BY <2>3, Different
    <3> QED BY <1>1, <1>6, <2>3, <3>1 DEF Calling, InPeriodic
  <2> QED BY <2>1, <2>2, <2>3
<1>8. Timed'
  <2>1. \A d \in Comparators : ~Setting(d)
    BY <1>4 DEF Setting, InPeriodic
  <2> QED BY <1>1, <1>2, <2>1, SMTT(30) DEF Timed, OneShotOf, PeriodicOf
<1> QED BY <1>5, <1>7, <1>8 DEF HpetInv

(* The calls the caller may make start as above. *)
LEMMA CallsTimes ==
  ASSUME HpetInv, EnableCounter \/ \E c \in Comparators, t \in Times : SetOneShot(c, t) \/ SetPeriodic(c, t)
  PROVE  HpetInv'
<1>1. Values /\ Calling
  BY DEF HpetInv
<1>2. CASE EnableCounter
  <2>1. MayCall /\ CallWith(Periodic2, dev, val, Request("none", 0, FALSE))
    BY <1>2 DEF EnableCounter, enable_counter, Periodic2
  <2>0. PICK was \in BOOLEAN : was = FALSE
    OBVIOUS
  <2>2. PICK request : request = Request("none", 0, was)
    OBVIOUS
  <2>3. request \in Requests /\ request.kind = "none" /\ request.fired = 0 /\ ~request.reset
    <3>1. "none" \in {"none", "one_shot", "periodic"} /\ 0 \in Nat
      OBVIOUS
    <3>2. Asks(request, "none", 0, was)
      BY <1>1, <2>2, <3>1, NewRequest
    <3> QED BY <3>2 DEF Asks
  <2>4. dev \in Comparators /\ val \in Nat
    BY <1>1 DEF Values
  <2>5. CallWith(Periodic2, dev, val, request)
    BY <2>0, <2>1, <2>2
  <2>6. Periodic2 # Periodic6 /\ Periodic2 # OneShot2
    BY Different
  <2> QED BY <2>1, <2>3, <2>4, <2>5, <2>6, CallStarts
<1>3. ASSUME NEW c \in Comparators, NEW t \in Times, SetOneShot(c, t) PROVE HpetInv'
  <2>1. MayCall /\ CallWith(OneShot2, c, counter + Ticks(t), Request("one_shot", t, type[c] = "PERIODIC"))
    BY <1>3 DEF SetOneShot, set_one_shot, OneShot2
  <2>2. PICK was \in BOOLEAN : was = (type[c] = "PERIODIC")
    OBVIOUS
  <2>3. PICK request : request = Request("one_shot", t, was)
    OBVIOUS
  <2>4. t \in Nat
    BY HpetAssumption
  <2>5. /\ request \in Requests /\ request.kind = "one_shot" /\ request.fired = 0 /\ ~request.reset
        /\ request.time = t /\ request.start = now /\ request.switched = was
    <3>1. "one_shot" \in {"none", "one_shot", "periodic"}
      OBVIOUS
    <3>2. Asks(request, "one_shot", t, was)
      BY <1>1, <2>3, <2>4, <3>1, NewRequest
    <3> QED BY <3>2 DEF Asks
  <2>6. todo \notin {<<"init">>, <<"panic">>}
    BY <2>1, NoCall DEF MayCall
  <2>7. Ticks(t) = TicksOf(t, g_clk_period_ns) /\ TicksOf(t, g_clk_period_ns) \in Nat
    BY <1>1, <2>6, TicksOfTime DEF Values
  <2>8. PICK value \in Nat : value = counter + TicksOf(t, g_clk_period_ns)
    BY <1>1, <2>7, SMTT(30) DEF Values
  <2>9. CallWith(OneShot2, c, value, request)
    BY <2>1, <2>2, <2>3, <2>7, <2>8
  <2>10. OneShot2 # Periodic6 /\ OneShot2 # Periodic2
    BY Different
  <2>11. value + now = counter + now + TicksOf(t, g_clk_period_ns)
    BY <1>1, <2>7, <2>8, SMTT(30) DEF Values
  <2>12. ~was => type[c] = "ONE_SHOT"
    BY <1>1, <2>2 DEF Values
  <2> QED BY <2>1, <2>5, <2>9, <2>10, <2>11, <2>12, CallStarts
<1>4. ASSUME NEW c \in Comparators, NEW t \in Times, SetPeriodic(c, t) PROVE HpetInv'
  <2>1. MayCall /\ CallWith(Periodic6, c, Ticks(t), Request("periodic", t, FALSE))
    BY <1>4, SetPeriodicSteps DEF SetPeriodic
  <2>0. PICK was \in BOOLEAN : was = FALSE
    OBVIOUS
  <2>2. PICK request : request = Request("periodic", t, was)
    OBVIOUS
  <2>3. t \in Nat
    BY HpetAssumption
  <2>4. /\ request \in Requests /\ request.kind = "periodic" /\ request.fired = 0 /\ ~request.reset
        /\ request.time = t
    <3>1. "periodic" \in {"none", "one_shot", "periodic"}
      OBVIOUS
    <3>2. Asks(request, "periodic", t, was)
      BY <1>1, <2>2, <2>3, <3>1, NewRequest
    <3> QED BY <3>2 DEF Asks
  <2>5. todo \notin {<<"init">>, <<"panic">>}
    BY <2>1, NoCall DEF MayCall
  <2>6. Ticks(t) = TicksOf(t, g_clk_period_ns) /\ TicksOf(t, g_clk_period_ns) \in Nat
    BY <1>1, <2>5, TicksOfTime DEF Values
  <2>7. PICK value \in Nat : value = TicksOf(t, g_clk_period_ns)
    BY <2>6
  <2>8. CallWith(Periodic6, c, value, request)
    BY <2>0, <2>1, <2>2, <2>6, <2>7
  <2>9. Periodic6 # Periodic2 /\ Periodic6 # OneShot2
    BY Different
  <2> QED BY <2>1, <2>4, <2>7, <2>8, <2>9, CallStarts
<1> QED BY <1>2, <1>3, <1>4

(* disable_counter stops the counter: nothing else changes. *)
LEMMA StopTimes == ASSUME HpetInv, SwitchCounter, At("stop") PROVE HpetInv'
<1>1. Values /\ Calling /\ Timed
  BY DEF HpetInv
<1>2. todo = Periodic6 /\ todo' = Periodic5
  BY <1>1, Places, Tails DEF SwitchCounter, Continue
<1>3. ~At("start")
  BY DEF At
<1>4. /\ period' = period /\ g_clk_period_ns' = g_clk_period_ns
      /\ counter' = counter /\ int_enb' = int_enb /\ type' = type /\ val_set' = val_set
      /\ compar' = compar /\ step' = step /\ now' = now /\ since' = since
      /\ dev' = dev /\ val' = val /\ req' = req /\ calls' = calls
  BY <1>3 DEF SwitchCounter, Continue, config, regs
<1>5. enabled' = FALSE
  BY <1>3 DEF SwitchCounter
<1>6. /\ todo' \notin {Periodic6, Periodic4, Periodic3, Periodic2, Periodic1, OneShot2, OneShot1}
      /\ todo' \notin {<<>>, <<"init">>, <<"panic">>}
      /\ todo \notin {Periodic5, Periodic4, Periodic3, Periodic2, Periodic1, OneShot2, OneShot1}
      /\ todo \notin {<<>>, <<"init">>, <<"panic">>}
  BY <1>2, Different
<1>7. Values'
  BY <1>1, <1>4, <1>5, <1>6 DEF Values
<1>8. Calling'
  <2>1. /\ req.fired = 0 /\ ~req.reset /\ req.kind = "periodic" /\ req.time \in Times
        /\ val = TicksOf(req.time, g_clk_period_ns)
    BY <1>1, <1>2 DEF Calling, InPeriodic
  <2>2. ~enabled'
    BY <1>5
  <2> QED BY <1>2, <1>4, <1>6, <2>1, <2>2 DEF Calling, InPeriodic
<1>9. Timed'
  <2>1. \A c \in Comparators : ~Setting(c)
    BY <1>6 DEF Setting
  <2> QED BY <1>1, <1>4, <2>1, SMTT(30) DEF Timed, OneShotOf, PeriodicOf
<1> QED BY <1>7, <1>8, <1>9 DEF HpetInv

(* enable_counter starts the counter at 0: a periodic comparator is one    *)
(* period ahead of it.                                                     *)
LEMMA StartTimes == ASSUME HpetInv, SwitchCounter, At("start") PROVE HpetInv'
<1>1. Values /\ Calling /\ Timed
  BY DEF HpetInv
<1>2. todo = Periodic1 /\ todo' = <<>>
  BY <1>1, Places, Tails DEF SwitchCounter, Continue
<1>3. ~At("stop")
  BY DEF At
<1>4. /\ period' = period /\ g_clk_period_ns' = g_clk_period_ns
      /\ counter' = counter /\ int_enb' = int_enb /\ type' = type /\ val_set' = val_set
      /\ compar' = compar /\ step' = step /\ now' = now
      /\ dev' = dev /\ val' = val /\ req' = req /\ calls' = calls
  BY DEF SwitchCounter, Continue, config, regs
<1>5. enabled' \in BOOLEAN
  BY <1>3 DEF SwitchCounter
<1>6. /\ todo' \notin InPeriodic \cup {OneShot2, OneShot1, <<"init">>, <<"panic">>}
      /\ todo \notin {<<>>, <<"init">>, <<"panic">>}
  BY <1>2, Different, NoCall
<1>7. PICK r : r = [req EXCEPT !.start = now]
  OBVIOUS
<1>8. /\ r \in Requests /\ r.kind = req.kind /\ r.time = req.time /\ r.start = now
      /\ r.fired = req.fired /\ r.reset = req.reset
  <2>1. req \in Requests /\ now \in Nat
    BY <1>1, SMTT(30) DEF Values
  <2> QED BY <1>7, <2>1, StartRequest, SMTT(30)
<1>9. since' = IF req.kind = "periodic" THEN [since EXCEPT ![dev] = r] ELSE since
  BY <1>3, <1>7 DEF SwitchCounter
<1>10. /\ dev \in Comparators /\ since \in [Comparators -> Requests] /\ g_clk_period_ns > 0
       /\ now \in Nat
  BY <1>1, <1>6, SMTT(30) DEF Values
<1>11. Values'
  <2>1. since' \in [Comparators -> Requests]
    BY <1>8, <1>9, <1>10
  <2> QED BY <1>1, <1>4, <1>5, <1>10, <2>1 DEF Values
<1>12. Calling'
  BY <1>1, <1>2, <1>4, <1>6 DEF Calling, InPeriodic
<1>13. ASSUME NEW c \in Comparators
       PROVE  /\ since'[c].kind = "one_shot" /\ ~since'[c].switched => OneShotOf(c, since[c])'
              /\ since'[c].kind = "periodic" /\ ~since'[c].reset => PeriodicOf(c, since[c])'
  <2>1. CASE req.kind = "periodic" /\ c = dev
    <3>1. since'[c] = r
      BY <1>9, <1>10, <2>1
    <3>2. /\ req.time \in Times /\ req.fired = 0 /\ val = TicksOf(req.time, g_clk_period_ns)
          /\ type[c] = "PERIODIC" /\ int_enb[c] /\ compar[c] = val /\ step[c] = val /\ counter = 0
      BY <1>1, <1>2, <2>1 DEF Calling, InPeriodic
    <3>3. TicksOf(req.time, g_clk_period_ns) \in Nat \ {0}
      BY <1>1, <1>10, <3>2, TicksOfTime
    <3>4. PICK T \in Nat \ {0} : T = TicksOf(req.time, g_clk_period_ns)
      BY <3>3
    <3>5. (0 + 1) * T = T /\ 0 * T = 0 /\ 0 <= 0 /\ 0 < T
      BY SMTT(30)
    <3>6. /\ type'[c] = "PERIODIC" /\ int_enb'[c] /\ step'[c] = T /\ compar'[c] = T
          /\ counter' = 0 /\ now' = now /\ g_clk_period_ns' = g_clk_period_ns
      BY <1>4, <3>2, <3>4
    <3>7. r.kind = "periodic" /\ r.time = req.time /\ r.start = now /\ r.fired = 0
      BY <1>8, <2>1, <3>2
    <3>8. 0 + now = now /\ req.time \in Times
      BY <1>10, <3>2, SMTT(30)
    <3> QED BY <3>1, <3>4, <3>5, <3>6, <3>7, <3>8, SMTT(30) DEF PeriodicOf
  <2>2. CASE ~(req.kind = "periodic" /\ c = dev)
    <3>1. since'[c] = since[c] /\ ~Setting(c)
      BY <1>9, <1>10, <2>2 DEF Setting
    <3> QED BY <1>1, <1>4, <3>1 DEF Timed, OneShotOf, PeriodicOf
  <2> QED BY <2>1, <2>2
<1>14. Timed'
  BY <1>13 DEF Timed
<1> QED BY <1>11, <1>12, <1>14 DEF HpetInv

(* The counter is reset: all requests are marked. *)
LEMMA ZeroTimes == ASSUME HpetInv, ZeroCounter PROVE HpetInv'
<1>1. Values /\ Calling /\ Timed
  BY DEF HpetInv
<1>2. \/ todo = Periodic5 /\ todo' = Periodic4
      \/ todo = Periodic2 /\ todo' = Periodic1
  BY <1>1, Places, Tails DEF ZeroCounter, Continue
<1>3. /\ period' = period /\ g_clk_period_ns' = g_clk_period_ns /\ enabled' = enabled
      /\ counter' = 0 /\ int_enb' = int_enb /\ type' = type /\ val_set' = val_set
      /\ compar' = compar /\ step' = step /\ now' = now
      /\ dev' = dev /\ val' = val /\ req' = req /\ calls' = calls
      /\ since' = [c \in Comparators |-> [since[c] EXCEPT !.reset = TRUE]]
  BY DEF ZeroCounter, Continue, config, regs
<1>4. ASSUME NEW c \in Comparators
      PROVE  /\ since'[c] \in Requests /\ since'[c].kind = since[c].kind
             /\ since'[c].time = since[c].time /\ since'[c].start = since[c].start
             /\ since'[c].fired = since[c].fired /\ since'[c].first = since[c].first
             /\ since'[c].switched = since[c].switched /\ since'[c].reset
  <2>1. since[c] \in Requests
    BY <1>1 DEF Values
  <2>2. since'[c] = [since[c] EXCEPT !.reset = TRUE]
    BY <1>3
  <2> QED BY <2>1, <2>2, ResetRequest, SMTT(30)
<1>5. Values'
  <2>1. since' \in [Comparators -> Requests]
    BY <1>3, <1>4
  <2>2. g_clk_period_ns > 0
    BY <1>1, <1>2, Different DEF Values
  <2> QED BY <1>1, <1>3, <2>1, <2>2, SMTT(30) DEF Values
<1>6. Calling'
  <2>0. dev \in Comparators /\ since'[dev].reset
    BY <1>1, <1>4 DEF Values
  <2>1. CASE todo = Periodic5 /\ todo' = Periodic4
    <3>1. /\ Periodic4 \notin {Periodic6, Periodic5, Periodic3, Periodic2, Periodic1, OneShot2, OneShot1}
          /\ Periodic4 \notin {<<>>, <<"init">>, <<"panic">>} /\ Periodic5 # Periodic6
      BY Different
    <3>2. /\ req.fired = 0 /\ ~req.reset /\ (req.kind # "none" => req.time \in Times)
          /\ req.kind = "periodic"
          /\ val = TicksOf(req.time, g_clk_period_ns) /\ ~enabled
      BY <1>1, <2>1, <3>1 DEF Calling, InPeriodic
    <3> QED BY <1>3, <2>0, <2>1, <3>1, <3>2 DEF Calling, InPeriodic
  <2>2. CASE todo = Periodic2 /\ todo' = Periodic1
    <3>1. /\ Periodic1 \notin {Periodic6, Periodic5, Periodic4, Periodic3, Periodic2, OneShot2, OneShot1}
          /\ Periodic1 \notin {<<>>, <<"init">>, <<"panic">>} /\ Periodic2 # Periodic6
      BY Different
    <3>2. /\ req.fired = 0 /\ ~req.reset /\ (req.kind # "none" => req.time \in Times)
          /\ req.kind # "one_shot"
          /\ req.kind = "periodic" =>
               /\ val = TicksOf(req.time, g_clk_period_ns) /\ ~enabled
               /\ type[dev] = "PERIODIC" /\ int_enb[dev] /\ compar[dev] = val /\ step[dev] = val
      BY <1>1, <2>2, <3>1 DEF Calling, InPeriodic
    <3> QED BY <1>3, <2>0, <2>2, <3>1, <3>2 DEF Calling, InPeriodic
  <2> QED BY <1>2, <2>1, <2>2
<1>7. ASSUME NEW c \in Comparators, since'[c].kind = "one_shot", ~since'[c].switched
      PROVE  OneShotOf(c, since[c])'
  <2>1. OneShotOf(c, since[c])
    BY <1>1, <1>4, <1>7 DEF Timed
  <2>2. Setting(c)' = Setting(c)
    BY <1>2, <1>3, Different DEF Setting
  <2>3. g_clk_period_ns > 0
    BY <1>1, <1>2, Different DEF Values
  <2>4. TicksOf(since[c].time, g_clk_period_ns) \in Nat
    BY <1>1, <2>1, <2>3, TicksOfTime DEF OneShotOf
  <2>5. since[c].start \in Nat /\ counter \in Nat /\ now \in Nat /\ compar[c] \in Nat
    BY <1>1, SMTT(30) DEF Values, Requests
  <2> QED BY <1>3, <1>4, <2>1, <2>2, <2>4, <2>5, SMTT(30) DEF OneShotOf
<1>8. Timed'
  BY <1>4, <1>7 DEF Timed
<1> QED BY <1>5, <1>6, <1>8 DEF HpetInv

(* The end of set_one_shot: the comparator is in one-shot mode. *)
LEMMA ConfigOneShotTimes == ASSUME HpetInv, ConfigOneShot PROVE HpetInv'
<1>1. Values /\ Calling /\ Timed
  BY DEF HpetInv
<1>2. todo = OneShot1 /\ todo' = <<>>
  BY <1>1, Places, Tails DEF ConfigOneShot, Continue
<1>3. /\ period' = period /\ g_clk_period_ns' = g_clk_period_ns /\ enabled' = enabled
      /\ counter' = counter /\ int_enb' = [int_enb EXCEPT ![dev] = TRUE]
      /\ type' = [type EXCEPT ![dev] = "ONE_SHOT"] /\ val_set' = [val_set EXCEPT ![dev] = FALSE]
      /\ compar' = compar /\ step' = step /\ now' = now /\ since' = since
      /\ dev' = dev /\ val' = val /\ req' = req /\ calls' = calls
  BY DEF ConfigOneShot, Continue, clock, regs
<1>4. /\ todo' \notin InPeriodic \cup {OneShot2, OneShot1, <<"init">>, <<"panic">>}
      /\ todo \notin InPeriodic \cup {<<>>, <<"init">>, <<"panic">>}
  BY <1>2, Different, NoCall DEF InPeriodic
<1>5. Values'
  <2>1. /\ int_enb' \in [Comparators -> BOOLEAN] /\ val_set' \in [Comparators -> BOOLEAN]
        /\ type' \in [Comparators -> {"ONE_SHOT", "PERIODIC"}]
    BY <1>1, <1>3 DEF Values
  <2> QED BY <1>1, <1>3, <1>4, <2>1 DEF Values
<1>6. Calling'
  BY <1>1, <1>2, <1>3, <1>4 DEF Calling, InPeriodic
<1>7. ASSUME NEW c \in Comparators
      PROVE  /\ since'[c].kind = "one_shot" /\ ~since'[c].switched => OneShotOf(c, since[c])'
             /\ since'[c].kind = "periodic" /\ ~since'[c].reset => PeriodicOf(c, since[c])'
  <2>1. ~Setting(c) /\ since[dev].kind = "one_shot" /\ dev \in Comparators
    BY <1>1, <1>2, <1>4 DEF Setting, Calling, InPeriodic, Values
  <2>2. type'[c] = (IF c = dev THEN "ONE_SHOT" ELSE type[c])
        /\ int_enb'[c] = (IF c = dev THEN TRUE ELSE int_enb[c])
    BY <1>1, <1>3 DEF Values
  <2>3. CASE c = dev
    BY <1>1, <1>3, <2>1, <2>2, <2>3 DEF Timed, OneShotOf
  <2>4. CASE c # dev
    BY <1>1, <1>3, <2>1, <2>2, <2>4 DEF Timed, OneShotOf, PeriodicOf
  <2> QED BY <2>3, <2>4
<1>8. Timed'
  BY <1>7 DEF Timed
<1> QED BY <1>5, <1>6, <1>8 DEF HpetInv

(* set_periodic begins to change its comparator; the counter was reset. *)
LEMMA ConfigPeriodicTimes == ASSUME HpetInv, ConfigPeriodic PROVE HpetInv'
<1>1. Values /\ Calling /\ Timed
  BY DEF HpetInv
<1>2. todo = Periodic4 /\ todo' = Periodic3
  BY <1>1, Places, Tails DEF ConfigPeriodic, Continue
<1>3. /\ period' = period /\ g_clk_period_ns' = g_clk_period_ns /\ enabled' = enabled
      /\ counter' = counter /\ int_enb' = [int_enb EXCEPT ![dev] = TRUE]
      /\ type' = [type EXCEPT ![dev] = "PERIODIC"] /\ val_set' = [val_set EXCEPT ![dev] = TRUE]
      /\ compar' = compar /\ step' = step /\ now' = now /\ since' = since
      /\ dev' = dev /\ val' = val /\ req' = req /\ calls' = calls
  BY DEF ConfigPeriodic, Continue, clock, regs
<1>4. /\ todo' \notin {Periodic6, Periodic5, Periodic4, Periodic2, Periodic1, OneShot2, OneShot1}
      /\ todo' \notin {<<>>, <<"init">>, <<"panic">>}
      /\ todo \notin {Periodic6, Periodic5, Periodic3, Periodic2, Periodic1, OneShot2, OneShot1}
      /\ todo \notin {<<>>, <<"init">>, <<"panic">>}
  BY <1>2, Different
<1>5. /\ req.fired = 0 /\ ~req.reset /\ req.kind = "periodic" /\ req.time \in Times
      /\ val = TicksOf(req.time, g_clk_period_ns) /\ ~enabled /\ since[dev].reset
      /\ dev \in Comparators
  BY <1>1, <1>2, <1>4 DEF Calling, InPeriodic, Values
<1>6. Values'
  <2>1. /\ int_enb' \in [Comparators -> BOOLEAN] /\ val_set' \in [Comparators -> BOOLEAN]
        /\ type' \in [Comparators -> {"ONE_SHOT", "PERIODIC"}]
    BY <1>1, <1>3 DEF Values
  <2> QED BY <1>1, <1>3, <1>4, <2>1 DEF Values
<1>7. Calling'
  <2>1. type'[dev] = "PERIODIC" /\ int_enb'[dev] = TRUE /\ val_set'[dev] = TRUE
    BY <1>1, <1>3, <1>5 DEF Values
  <2> QED BY <1>2, <1>3, <1>4, <1>5, <2>1 DEF Calling, InPeriodic
<1>8. ASSUME NEW c \in Comparators
      PROVE  /\ since'[c].kind = "one_shot" /\ ~since'[c].switched => OneShotOf(c, since[c])'
             /\ since'[c].kind = "periodic" /\ ~since'[c].reset => PeriodicOf(c, since[c])'
  <2>1. ~Setting(c)
    BY <1>4 DEF Setting
  <2>2. CASE c = dev
    <3>1. Setting(c)'
      BY <1>2, <1>3, <1>5, <2>2 DEF Setting
    <3> QED BY <1>1, <1>3, <1>5, <2>2, <3>1 DEF Timed, OneShotOf
  <2>3. CASE c # dev
    <3>1. type'[c] = type[c] /\ int_enb'[c] = int_enb[c]
      BY <1>1, <1>3, <2>3 DEF Values
    <3> QED BY <1>1, <1>3, <2>1, <3>1 DEF Timed, OneShotOf, PeriodicOf
  <2> QED BY <2>2, <2>3
<1>9. Timed'
  BY <1>8 DEF Timed
<1> QED BY <1>6, <1>7, <1>9 DEF HpetInv

(* set_periodic writes the comparator after val_set_cnf: both the next     *)
(* time and the period.                                                    *)
LEMMA ComparPeriodicTimes == ASSUME HpetInv, set_compar_value, todo = Periodic3 PROVE HpetInv'
<1>1. Values /\ Calling /\ Timed
  BY DEF HpetInv
<1>2. todo' = Periodic2
  BY Tails DEF set_compar_value, Continue
<1>3. /\ todo' \notin {Periodic6, Periodic5, Periodic4, Periodic3, Periodic1, OneShot2, OneShot1}
      /\ todo' \notin {<<>>, <<"init">>, <<"panic">>}
      /\ todo \notin {Periodic6, Periodic5, Periodic4, Periodic2, Periodic1, OneShot2, OneShot1}
      /\ todo \notin {<<>>, <<"init">>, <<"panic">>}
  BY <1>2, Different
<1>4. /\ req.fired = 0 /\ ~req.reset /\ req.kind = "periodic" /\ req.time \in Times
      /\ val = TicksOf(req.time, g_clk_period_ns) /\ ~enabled /\ since[dev].reset
      /\ type[dev] = "PERIODIC" /\ int_enb[dev] /\ val_set[dev] /\ dev \in Comparators
  BY <1>1, <1>3 DEF Calling, InPeriodic, Values
<1>5. /\ period' = period /\ g_clk_period_ns' = g_clk_period_ns /\ enabled' = enabled
      /\ counter' = counter /\ int_enb' = int_enb /\ type' = type
      /\ val_set' = [val_set EXCEPT ![dev] = FALSE]
      /\ compar' = [compar EXCEPT ![dev] = val] /\ step' = [step EXCEPT ![dev] = val]
      /\ now' = now /\ since' = since /\ dev' = dev /\ val' = val /\ req' = req /\ calls' = calls
  BY <1>4 DEF set_compar_value, WriteCompar, Continue, clock
<1>6. Values'
  <2>1. /\ val_set' \in [Comparators -> BOOLEAN]
        /\ compar' \in [Comparators -> Nat] /\ step' \in [Comparators -> Nat]
    BY <1>1, <1>5 DEF Values
  <2> QED BY <1>1, <1>3, <1>5, <2>1 DEF Values
<1>7. Calling'
  <2>1. compar'[dev] = val /\ step'[dev] = val
    BY <1>1, <1>4, <1>5 DEF Values
  <2> QED BY <1>2, <1>3, <1>4, <1>5, <2>1 DEF Calling, InPeriodic
<1>8. ASSUME NEW c \in Comparators
      PROVE  /\ since'[c].kind = "one_shot" /\ ~since'[c].switched => OneShotOf(c, since[c])'
             /\ since'[c].kind = "periodic" /\ ~since'[c].reset => PeriodicOf(c, since[c])'
  <2>1. CASE c = dev
    <3>1. Setting(c)'
      BY <1>2, <1>4, <1>5, <2>1 DEF Setting
    <3> QED BY <1>1, <1>4, <1>5, <2>1, <3>1 DEF Timed, OneShotOf
  <2>2. CASE c # dev
    <3>1. compar'[c] = compar[c] /\ step'[c] = step[c] /\ ~Setting(c)
      BY <1>1, <1>5, <2>2 DEF Values, Setting
    <3> QED BY <1>1, <1>5, <3>1 DEF Timed, OneShotOf, PeriodicOf
  <2> QED BY <2>1, <2>2
<1>9. Timed'
  BY <1>8 DEF Timed
<1> QED BY <1>6, <1>7, <1>9 DEF HpetInv

(* set_one_shot writes the comparator: if it was not periodic, it is now   *)
(* as far ahead of the counter as the time asked for.                      *)
LEMMA ComparOneShotTimes == ASSUME HpetInv, set_compar_value, todo = OneShot2 PROVE HpetInv'
<1>1. Values /\ Calling /\ Timed
  BY DEF HpetInv
<1>2. todo' = OneShot1
  BY Tails DEF set_compar_value, Continue
<1>3. /\ todo' \notin {Periodic6, Periodic5, Periodic4, Periodic3, Periodic2, Periodic1, OneShot2}
      /\ todo' \notin {<<>>, <<"init">>, <<"panic">>}
      /\ todo \notin {Periodic6, Periodic5, Periodic4, Periodic3, Periodic2, Periodic1, OneShot1}
      /\ todo \notin {<<>>, <<"init">>, <<"panic">>}
  BY <1>2, Different
<1>4. /\ req.fired = 0 /\ ~req.reset /\ req.kind = "one_shot" /\ req.time \in Times
      /\ val + now = counter + req.start + TicksOf(req.time, g_clk_period_ns)
      /\ (~req.switched => type[dev] = "ONE_SHOT") /\ dev \in Comparators /\ req \in Requests
  BY <1>1 DEF Calling, Values
<1>5. /\ period' = period /\ g_clk_period_ns' = g_clk_period_ns /\ enabled' = enabled
      /\ counter' = counter /\ int_enb' = int_enb /\ type' = type
      /\ val_set' = [val_set EXCEPT ![dev] = FALSE] /\ since' = [since EXCEPT ![dev] = req]
      /\ now' = now /\ dev' = dev /\ val' = val /\ req' = req /\ calls' = calls
  BY <1>4 DEF set_compar_value, WriteCompar, Continue, clock
<1>6. /\ compar' = (IF type[dev] = "ONE_SHOT" \/ val_set[dev] THEN [compar EXCEPT ![dev] = val] ELSE compar)
      /\ step' = (IF type[dev] = "PERIODIC" THEN [step EXCEPT ![dev] = val] ELSE step)
  BY DEF set_compar_value, WriteCompar
<1>7. Values'
  <2>1. /\ val_set' \in [Comparators -> BOOLEAN] /\ since' \in [Comparators -> Requests]
    BY <1>1, <1>4, <1>5 DEF Values
  <2>2. compar' \in [Comparators -> Nat] /\ step' \in [Comparators -> Nat]
    BY <1>1, <1>6 DEF Values
  <2> QED BY <1>1, <1>3, <1>5, <2>1, <2>2 DEF Values
<1>8. Calling'
  <2>1. since'[dev].kind = "one_shot"
    BY <1>1, <1>4, <1>5 DEF Values
  <2> QED BY <1>2, <1>3, <1>4, <1>5, <2>1 DEF Calling, InPeriodic
<1>9. ASSUME NEW c \in Comparators
      PROVE  /\ since'[c].kind = "one_shot" /\ ~since'[c].switched => OneShotOf(c, since[c])'
             /\ since'[c].kind = "periodic" /\ ~since'[c].reset => PeriodicOf(c, since[c])'
  <2>0. ~Setting(c)
    BY <1>3 DEF Setting
  <2>1. CASE c = dev
    <3>1. since'[c] = req
      BY <1>1, <1>5, <2>1 DEF Values
    <3>2. SUFFICES ASSUME ~req.switched PROVE OneShotOf(c, since[c])'
      BY <1>4, <3>1
    <3>3. compar'[c] = val /\ type'[c] = "ONE_SHOT"
      BY <1>1, <1>4, <1>5, <1>6, <2>1, <3>2 DEF Values
    <3>4. TicksOf(req.time, g_clk_period_ns) \in Nat
      BY <1>1, <1>3, <1>4, TicksOfTime DEF Values
    <3>5. counter \in Nat /\ now \in Nat /\ val \in Nat /\ req.start \in Nat
      BY <1>1, SMTT(30) DEF Values, Requests
    <3>6. val + now >= counter + req.start + TicksOf(req.time, g_clk_period_ns)
      BY <1>4, <3>4, <3>5, SMTT(30)
    <3>7. now' = now /\ counter' = counter /\ g_clk_period_ns' = g_clk_period_ns
      BY <1>5
    <3>8. /\ req.fired = 0 /\ ~(0 > 0) /\ req.time \in Times
          /\ val + now = counter + req.start + TicksOf(req.time, g_clk_period_ns)
      BY <1>4, SMTT(30)
    <3> QED BY <3>1, <3>3, <3>6, <3>7, <3>8 DEF OneShotOf
  <2>2. CASE c # dev
    <3>1. compar'[c] = compar[c] /\ step'[c] = step[c] /\ since'[c] = since[c]
      BY <1>1, <1>5, <1>6, <2>2 DEF Values
    <3> QED BY <1>1, <1>5, <2>0, <3>1 DEF Timed, OneShotOf, PeriodicOf
  <2> QED BY <2>1, <2>2
<1>10. Timed'
  BY <1>9 DEF Timed
<1> QED BY <1>7, <1>8, <1>10 DEF HpetInv

(* A tick: a comparator it reaches raises its interrupt. *)
LEMMA TickTimes == ASSUME HpetInv, Tick PROVE HpetInv'
<1>1. Values /\ Calling /\ Timed
  BY DEF HpetInv
<1>2. /\ period' = period /\ g_clk_period_ns' = g_clk_period_ns /\ enabled' = enabled
      /\ counter' = counter + 1 /\ now' = now + 1
      /\ int_enb' = int_enb /\ type' = type /\ val_set' = val_set /\ step' = step
      /\ todo' = todo /\ dev' = dev /\ val' = val /\ req' = req /\ calls' = calls
  BY DEF Tick, config, prog
<1>0. enabled
  BY DEF Tick
<1>3. now < MaxTicks /\ now \in Nat /\ counter \in Nat /\ counter <= now /\ val \in Nat
      /\ MaxTicks \in Nat
  <2>1. now < MaxTicks
    BY DEF Tick
  <2>2. now \in Nat /\ counter \in Nat /\ counter <= now /\ val \in Nat /\ MaxTicks \in Nat
    BY <1>1, HpetAssumption, SMTT(30) DEF Values
  <2> QED BY <2>1, <2>2
<1>4. /\ compar' = [c \in Comparators |->
                      compar[c] + (IF c \in Hits /\ type[c] = "PERIODIC" THEN step[c] ELSE 0)]
      /\ since' = [c \in Comparators |->
           IF c \notin Hits THEN since[c]
           ELSE [since[c] EXCEPT !.fired = @ + 1, !.first = IF since[c].fired = 0 THEN now + 1 ELSE @]]
  BY DEF Tick
<1>5. ASSUME NEW c \in Comparators
      PROVE  /\ since[c] \in Requests /\ compar[c] \in Nat /\ step[c] \in Nat
             /\ since[c].start \in Nat /\ since[c].fired \in Nat /\ since[c].first \in Nat
             /\ c \notin Hits => since'[c] = since[c] /\ compar'[c] = compar[c]
             /\ c \in Hits /\ type[c] = "PERIODIC" => compar'[c] = compar[c] + step[c]
             /\ c \in Hits /\ type[c] # "PERIODIC" => compar'[c] = compar[c]
             /\ compar'[c] \in Nat
  <2>1. since[c] \in Requests /\ compar[c] \in Nat /\ step[c] \in Nat
    BY <1>1 DEF Values
  <2>2. since[c].start \in Nat /\ since[c].fired \in Nat /\ since[c].first \in Nat
    BY <2>1 DEF Requests
  <2>3. compar'[c] = compar[c] + (IF c \in Hits /\ type[c] = "PERIODIC" THEN step[c] ELSE 0)
    BY <1>4
  <2>4. c \notin Hits => since'[c] = since[c]
    BY <1>4
  <2>5. CASE c \in Hits /\ type[c] = "PERIODIC"
    <3>1. compar'[c] = compar[c] + step[c]
      BY <2>3, <2>5
    <3>2. compar'[c] \in Nat
      BY <2>1, <3>1, SMTT(30)
    <3> QED BY <2>1, <2>2, <2>5, <3>1, <3>2
  <2>6. CASE ~(c \in Hits /\ type[c] = "PERIODIC")
    <3>1. compar'[c] = compar[c] + 0
      BY <2>3, <2>6
    <3>2. compar'[c] = compar[c]
      BY <2>1, <3>1, SMTT(30)
    <3> QED BY <2>1, <2>2, <2>4, <2>6, <3>2
  <2> QED BY <2>5, <2>6
<1>6. ASSUME NEW c \in Comparators, c \in Hits
      PROVE  /\ since'[c] \in Requests /\ since'[c].kind = since[c].kind
             /\ since'[c].time = since[c].time /\ since'[c].start = since[c].start
             /\ since'[c].fired = since[c].fired + 1
             /\ since'[c].first = (IF since[c].fired = 0 THEN now + 1 ELSE since[c].first)
             /\ since'[c].switched = since[c].switched /\ since'[c].reset = since[c].reset
  <2>1. PICK r \in Requests : r = since[c]
    BY <1>5
  <2>2. PICK a \in Nat : a = r.fired + 1
    BY <1>5, <2>1, SMTT(30)
  <2>3. PICK b \in Nat : b = (IF r.fired = 0 THEN now + 1 ELSE r.first)
    BY <1>3, <1>5, <2>1, SMTT(30)
  <2>4. PICK s : s = Fired(r, a, b)
    OBVIOUS
  <2>5. since'[c] = s
    BY <1>4, <1>6, <2>1, <2>2, <2>3, <2>4 DEF Fired
  <2>6. /\ s \in Requests /\ s.kind = r.kind /\ s.time = r.time /\ s.start = r.start
        /\ s.fired = a /\ s.first = b /\ s.switched = r.switched /\ s.reset = r.reset
    BY <2>4, FireRequest, SMTT(30)
  <2> QED BY <2>1, <2>2, <2>3, <2>5, <2>6
<1>7. ASSUME NEW c \in Comparators
      PROVE  /\ since'[c] \in Requests /\ since'[c].kind = since[c].kind
             /\ since'[c].reset = since[c].reset
  BY <1>5, <1>6
<1>8. Values'
  <2>1. since' \in [Comparators -> Requests]
    BY <1>4, <1>7
  <2>2. compar' \in [Comparators -> Nat]
    BY <1>4, <1>5
  <2>3. counter + 1 \in Nat /\ now + 1 \in 0..MaxTicks /\ counter + 1 <= now + 1
    BY <1>3, SMTT(30)
  <2> QED BY <1>1, <1>2, <2>1, <2>2, <2>3 DEF Values
<1>9. Calling'
  <2>1. /\ dev \in Comparators /\ since'[dev].kind = since[dev].kind
        /\ since'[dev].reset = since[dev].reset
    BY <1>1, <1>7 DEF Values
  <2>2. ASSUME todo = OneShot2
        PROVE  val + (now + 1) = counter + 1 + req.start + TicksOf(req.time, g_clk_period_ns)
    <3>1. /\ val + now = counter + req.start + TicksOf(req.time, g_clk_period_ns)
          /\ req.kind = "one_shot" /\ req.time \in Times
      BY <1>1, <2>2 DEF Calling
    <3>2. g_clk_period_ns > 0
      BY <1>1, <2>2, Different DEF Values
    <3>3. TicksOf(req.time, g_clk_period_ns) \in Nat
      BY <1>1, <3>1, <3>2, TicksOfTime
    <3>4. req.start \in Nat
      BY <1>1 DEF Values, Requests
    <3> QED BY <1>3, <3>1, <3>3, <3>4, SMTT(30)
  <2>3. req.kind = "periodic" /\ todo \in InPeriodic => todo = Periodic6
    BY <1>0, <1>1 DEF Calling
  <2>4. Periodic6 \notin {Periodic5, Periodic4, Periodic3, Periodic2, Periodic1, OneShot2, OneShot1}
    BY Different
  <2>5. \A c \in Comparators : since'[c].kind = since[c].kind
    BY <1>7
  <2> QED BY <1>1, <1>2, <2>1, <2>2, <2>3, <2>4, <2>5 DEF Calling, InPeriodic
<1>10. \A c \in Comparators : ~Setting(c)
  BY <1>0, <1>1, Different DEF Setting, Calling, InPeriodic
<1>11. ASSUME NEW c \in Comparators, since'[c].kind = "one_shot", ~since'[c].switched
       PROVE  OneShotOf(c, since[c])'
  <2>1. since[c].kind = "one_shot" /\ ~since[c].switched
    BY <1>5, <1>6, <1>11
  <2>2. OneShotOf(c, since[c])
    BY <1>1, <2>1 DEF Timed
  <2>3. g_clk_period_ns > 0
    <3>1. todo \notin {<<"init">>, <<"panic">>}
      BY <1>1, <2>1 DEF Calling
    <3> QED BY <1>1, <3>1 DEF Values
  <2>4. PICK T \in Nat : T = TicksOf(since[c].time, g_clk_period_ns)
    BY <1>1, <2>2, <2>3, TicksOfTime DEF OneShotOf
  <2>5. PICK st \in Nat : st = since[c].start
    BY <1>5
  <2>6. PICK fd \in Nat : fd = since[c].fired
    BY <1>5
  <2>7. PICK fs \in Nat : fs = since[c].first
    BY <1>5
  <2>8. PICK cp \in Nat : cp = compar[c]
    BY <1>5
  <2>9. since[c].time \in Times /\ type[c] = "ONE_SHOT"
    BY <1>10, <2>2 DEF OneShotOf
  <2>10. /\ cp + now >= counter + st + T
         /\ ~since[c].reset => cp + now = counter + st + T
         /\ fd > 0 => fs >= st + T
         /\ fd > 0 /\ ~since[c].reset => fs = st + T /\ fd = 1 /\ cp <= counter
    BY <1>10, <2>2, <2>4, <2>5, <2>6, <2>7, <2>8 DEF OneShotOf
  <2>11. /\ cp + (now + 1) >= counter + 1 + st + T
         /\ ~since[c].reset => cp + (now + 1) = counter + 1 + st + T
         /\ cp <= counter => cp <= counter + 1
    BY <1>3, <2>10, SMTT(30)
  <2>12. CASE c \notin Hits
    <3>1. since'[c] = since[c] /\ compar'[c] = cp
      BY <1>5, <2>8, <2>12
    <3> QED BY <1>2, <2>4, <2>5, <2>6, <2>7, <2>9, <2>10, <2>11, <3>1 DEF OneShotOf
  <2>13. CASE c \in Hits
    <3>1. compar'[c] = cp /\ cp = counter + 1
      BY <1>5, <2>8, <2>9, <2>13 DEF Hits
    <3>2. /\ since'[c].time = since[c].time /\ since'[c].start = st /\ since'[c].fired = fd + 1
          /\ since'[c].first = (IF fd = 0 THEN now + 1 ELSE fs) /\ since'[c].reset = since[c].reset
      BY <1>6, <2>5, <2>6, <2>7, <2>13
    <3>3. cp <= counter + 1
      BY <1>3, <3>1, SMTT(30)
    <3>4. CASE fd = 0
      <4>0. since'[c].first = (IF fd = 0 THEN now + 1 ELSE fs) /\ since'[c].fired = fd + 1
        BY <3>2
      <4>1. since'[c].first = now + 1 /\ since'[c].fired = 1
        BY <3>4, <4>0, SMTT(30)
      <4>2. now + 1 >= st + T
        BY <1>3, <2>10, <3>1, SMTT(30)
      <4>3. ~since[c].reset => now + 1 = st + T
        BY <1>3, <2>10, <3>1, SMTT(30)
      <4> QED BY <1>2, <2>4, <2>9, <2>11, <3>1, <3>2, <3>3, <4>1, <4>2, <4>3 DEF OneShotOf
    <3>5. CASE fd # 0
      <4>1. fd > 0 /\ since'[c].first = fs
        BY <3>2, <3>5, SMTT(30)
      <4>2. ~(cp <= counter)
        BY <1>3, <3>1, SMTT(30)
      <4>3. since[c].reset
        BY <2>10, <4>1, <4>2
      <4> QED BY <1>2, <2>4, <2>9, <2>10, <2>11, <3>1, <3>2, <3>3, <4>1, <4>3 DEF OneShotOf
    <3> QED BY <3>4, <3>5
  <2> QED BY <2>12, <2>13
<1>12. ASSUME NEW c \in Comparators, since'[c].kind = "periodic", ~since'[c].reset
       PROVE  PeriodicOf(c, since[c])'
  <2>1. since[c].kind = "periodic" /\ ~since[c].reset
    BY <1>7, <1>12
  <2>2. PeriodicOf(c, since[c])
    BY <1>1, <2>1 DEF Timed
  <2>3. g_clk_period_ns > 0
    <3>1. todo \notin {<<"init">>, <<"panic">>}
      BY <1>1, <2>1 DEF Calling
    <3> QED BY <1>1, <3>1 DEF Values
  <2>4. PICK T \in Nat \ {0} : T = TicksOf(since[c].time, g_clk_period_ns)
    BY <1>1, <2>2, <2>3, TicksOfTime DEF PeriodicOf
  <2>5. PICK f \in Nat : f = since[c].fired
    BY <1>5
  <2>6. /\ since[c].time \in Times /\ type[c] = "PERIODIC" /\ int_enb[c] /\ step[c] = T
        /\ compar[c] = (f + 1) * T /\ counter + since[c].start = now
        /\ f * T <= counter /\ counter < (f + 1) * T
    BY <2>2, <2>4, <2>5 DEF PeriodicOf
  <2>7. f * T \in Nat /\ (f + 1) * T = f * T + T /\ (f + 2) * T = f * T + T + T
    BY Z3
  <2>8. f + 1 + 1 = f + 2 /\ counter + 1 + since[c].start = now + 1
    BY <1>3, <1>5, <2>6, SMTT(30)
  <2>9. CASE c \notin Hits
    <3>1. since'[c] = since[c] /\ compar'[c] = compar[c]
      BY <1>5, <2>9
    <3>2. compar[c] # counter + 1
      BY <2>6, <2>9 DEF Hits
    <3>3. f * T <= counter + 1 /\ counter + 1 < (f + 1) * T
      BY <1>3, <2>6, <2>7, <3>2, SMTT(30)
    <3> QED BY <1>2, <2>4, <2>5, <2>6, <2>8, <3>1, <3>3 DEF PeriodicOf
  <2>10. CASE c \in Hits
    <3>1. compar'[c] = compar[c] + T /\ compar[c] = counter + 1
      BY <1>5, <2>6, <2>10 DEF Hits
    <3>2. compar'[c] = (f + 1 + 1) * T
      BY <2>6, <2>7, <2>8, <3>1
    <3>3. (f + 1) * T <= counter + 1 /\ counter + 1 < (f + 1 + 1) * T
      BY <1>3, <2>6, <2>7, <2>8, <3>1, SMTT(30)
    <3> QED BY <1>2, <1>6, <2>4, <2>5, <2>6, <2>8, <2>10, <3>2, <3>3 DEF PeriodicOf
  <2> QED BY <2>9, <2>10
<1>13. Timed'
  BY <1>11, <1>12 DEF Timed
<1> QED BY <1>8, <1>9, <1>13 DEF HpetInv

(* In every state the comparators in use are where the last request for    *)
(* them put them, relative to the counter, however the steps of the calls  *)
(* and the ticks of the counter interleave.                                *)
THEOREM HpetInvariant == Spec => []HpetInv
<1>1. Init => HpetInv
  BY HpetStarts
<1>2. HpetInv /\ [Next]_vars => HpetInv'
  <2> SUFFICES ASSUME HpetInv, [Next]_vars PROVE HpetInv'
    OBVIOUS
  <2>1. \/ Program \/ Handler \/ Tick \/ Rest \/ UNCHANGED vars
        \/ EnableCounter \/ \E c \in Comparators, t \in Times : SetOneShot(c, t) \/ SetPeriodic(c, t)
    BY DEF Next
  <2>2. CASE Program
    <3>1. CASE SwitchCounter
      <4>1. At("start") \/ At("stop")
        BY <3>1 DEF SwitchCounter
      <4> QED BY <3>1, <4>1, StartTimes, StopTimes
    <3>2. CASE set_compar_value
      <4>1. At("compar") /\ Calling
        BY <3>2 DEF set_compar_value, HpetInv
      <4>2. todo = Periodic3 \/ todo = OneShot2
        BY <4>1, Places
      <4> QED BY <3>2, <4>2, ComparPeriodicTimes, ComparOneShotTimes
    <3> QED BY <2>2, <3>1, <3>2, InitPeriodTimes, ZeroTimes, ConfigOneShotTimes, ConfigPeriodicTimes
            DEF Program
  <2>3. CASE Handler \/ Rest \/ UNCHANGED vars
    <3>1. UNCHANGED <<period, g_clk_period_ns, clock, config, regs, prog, now, since>>
      BY <2>3 DEF Handler, TimerHandler, Count, WriteEoi, Rest, vars
    <3> QED BY <3>1, SameTimes
  <2> QED BY <2>1, <2>2, <2>3, TickTimes, CallsTimes
<1> QED BY <1>1, <1>2, PTL DEF Spec

(* The counters of timer_handler have their ranges. *)
HandlerTypes == isr \in BOOLEAN /\ ms \in 0..(TICKS_PER_SEC - 1)

(* timer_handler keeps them. *)
LEMMA HandlerTyped == Spec => []HandlerTypes
<1>1. Init => HandlerTypes
  <2> SUFFICES ASSUME Init PROVE HandlerTypes
    OBVIOUS
  <2>1. isr \in BOOLEAN
    BY DEF Init
  <2> QED BY <2>1, HpetAssumption, SMTT(30) DEF Init, HandlerTypes
<1>2. HandlerTypes /\ [Next]_vars => HandlerTypes'
  <2> SUFFICES ASSUME HandlerTypes, [Next]_vars PROVE HandlerTypes'
    OBVIOUS
  <2>1. TimerHandler \/ (WriteEoi /\ ms' = ms) \/ UNCHANGED <<isr, ms>>
    BY DEF Next, vars, intr, Program, Handler, EnableCounter, SetOneShot, SetPeriodic,
       CallWith, Rest, InitPeriod, SwitchCounter, ZeroCounter, ConfigOneShot,
       ConfigPeriodic, set_compar_value, WriteEoi, Tick
  <2>2. CASE TimerHandler
    <3>1. isr' \in BOOLEAN
      BY <2>2 DEF TimerHandler, Count
    <3>2. ms' = IF ms + 1 = TICKS_PER_SEC THEN 0 ELSE ms + 1
      BY <2>2 DEF TimerHandler, Count
    <3> QED BY <3>1, <3>2, HpetAssumption, SMTT(30) DEF HandlerTypes
  <2>3. CASE WriteEoi /\ ms' = ms
    <3>1. isr' \in BOOLEAN
      BY <2>3 DEF WriteEoi
    <3> QED BY <2>3, <3>1 DEF HandlerTypes
  <2>4. CASE UNCHANGED <<isr, ms>>
    BY <2>4 DEF HandlerTypes
  <2> QED BY <2>1, <2>2, <2>3, <2>4
<1> QED BY <1>1, <1>2, PTL DEF Spec

(* The last elements of a sequence. *)
LEMMA LastOf ==
  ASSUME NEW S, NEW s \in Seq(S), NEW u \in Seq(S), NEW m \in 1..(Len(s) + 1), NEW n, n = Len(s),
         Len(u) = n - m + 1, \A i \in 1..Len(u) : u[i] = s[m + i - 1]
  PROVE  SubSeq(s, m, n) = u
<1>1. SubSeq(s, m, n) \in Seq(S) /\ Len(SubSeq(s, m, n)) = n - m + 1
  BY SMTT(30)
<1>2. ASSUME NEW i \in 1..Len(u) PROVE SubSeq(s, m, n)[i] = s[m + i - 1]
  BY SMTT(30)
<1> QED BY <1>1, <1>2, SMTT(30)

(* What is left of a call is the end of its sequence. *)
LEMMA LastSteps ==
  /\ SubSeq(Periodic6, 1, 6) = Periodic6 /\ SubSeq(Periodic6, 2, 6) = Periodic5
  /\ SubSeq(Periodic6, 3, 6) = Periodic4 /\ SubSeq(Periodic6, 4, 6) = Periodic3
  /\ SubSeq(Periodic6, 5, 6) = Periodic2 /\ SubSeq(Periodic6, 6, 6) = Periodic1
  /\ SubSeq(set_one_shot, 1, 2) = OneShot2 /\ SubSeq(set_one_shot, 2, 2) = OneShot1
  /\ SubSeq(set_one_shot, 3, 2) = <<>>
<1>1. PICK S : S = {"stop", "zero", "config_periodic", "compar", "start", "config_one_shot"}
  OBVIOUS
<1>2. /\ Periodic6 \in Seq(S) /\ Periodic5 \in Seq(S) /\ Periodic4 \in Seq(S) /\ Periodic3 \in Seq(S)
      /\ Periodic2 \in Seq(S) /\ Periodic1 \in Seq(S)
  BY <1>1, SMTT(30) DEF Periodic6, Periodic5, Periodic4, Periodic3, Periodic2, Periodic1
<1>3. OneShot2 \in Seq(S) /\ OneShot1 \in Seq(S) /\ <<>> \in Seq(S) /\ set_one_shot = OneShot2
  BY <1>1, SMTT(30) DEF OneShot2, OneShot1, set_one_shot
<1>4. SubSeq(Periodic6, 1, 6) = Periodic6
  <2>1. \A i \in 1..6 : Periodic6[i] = Periodic6[0 + i]
    BY SMTT(30) DEF Periodic6
  <2>2. Len(Periodic6) = 6 /\ Len(Periodic6) = 6
    BY Shapes
  <2>3. \A i \in 1..Len(Periodic6) : Periodic6[i] = Periodic6[1 + i - 1]
    BY <2>1, <2>2, SMTT(30)
  <2> QED BY <1>2, <2>2, <2>3, LastOf, SMTT(30)
<1>5. SubSeq(Periodic6, 2, 6) = Periodic5
  <2>1. \A i \in 1..5 : Periodic5[i] = Periodic6[1 + i]
    BY SMTT(30) DEF Periodic6, Periodic5
  <2>2. Len(Periodic6) = 6 /\ Len(Periodic5) = 5
    BY Shapes
  <2>3. \A i \in 1..Len(Periodic5) : Periodic5[i] = Periodic6[2 + i - 1]
    BY <2>1, <2>2, SMTT(30)
  <2> QED BY <1>2, <2>2, <2>3, LastOf, SMTT(30)
<1>6. SubSeq(Periodic6, 3, 6) = Periodic4
  <2>1. \A i \in 1..4 : Periodic4[i] = Periodic6[2 + i]
    BY SMTT(30) DEF Periodic6, Periodic4
  <2>2. Len(Periodic6) = 6 /\ Len(Periodic4) = 4
    BY Shapes
  <2>3. \A i \in 1..Len(Periodic4) : Periodic4[i] = Periodic6[3 + i - 1]
    BY <2>1, <2>2, SMTT(30)
  <2> QED BY <1>2, <2>2, <2>3, LastOf, SMTT(30)
<1>7. SubSeq(Periodic6, 4, 6) = Periodic3
  <2>1. \A i \in 1..3 : Periodic3[i] = Periodic6[3 + i]
    BY SMTT(30) DEF Periodic6, Periodic3
  <2>2. Len(Periodic6) = 6 /\ Len(Periodic3) = 3
    BY Shapes
  <2>3. \A i \in 1..Len(Periodic3) : Periodic3[i] = Periodic6[4 + i - 1]
    BY <2>1, <2>2, SMTT(30)
  <2> QED BY <1>2, <2>2, <2>3, LastOf, SMTT(30)
<1>8. SubSeq(Periodic6, 5, 6) = Periodic2
  <2>1. \A i \in 1..2 : Periodic2[i] = Periodic6[4 + i]
    BY SMTT(30) DEF Periodic6, Periodic2
  <2>2. Len(Periodic6) = 6 /\ Len(Periodic2) = 2
    BY Shapes
  <2>3. \A i \in 1..Len(Periodic2) : Periodic2[i] = Periodic6[5 + i - 1]
    BY <2>1, <2>2, SMTT(30)
  <2> QED BY <1>2, <2>2, <2>3, LastOf, SMTT(30)
<1>9. SubSeq(Periodic6, 6, 6) = Periodic1
  <2>1. \A i \in 1..1 : Periodic1[i] = Periodic6[5 + i]
    BY SMTT(30) DEF Periodic6, Periodic1
  <2>2. Len(Periodic6) = 6 /\ Len(Periodic1) = 1
    BY Shapes
  <2>3. \A i \in 1..Len(Periodic1) : Periodic1[i] = Periodic6[6 + i - 1]
    BY <2>1, <2>2, SMTT(30)
  <2> QED BY <1>2, <2>2, <2>3, LastOf, SMTT(30)
<1>10. SubSeq(OneShot2, 1, 2) = OneShot2
  <2>1. \A i \in 1..2 : OneShot2[i] = OneShot2[0 + i]
    BY SMTT(30) DEF OneShot2
  <2>2. Len(OneShot2) = 2 /\ Len(OneShot2) = 2
    BY Shapes
  <2>3. \A i \in 1..Len(OneShot2) : OneShot2[i] = OneShot2[1 + i - 1]
    BY <2>1, <2>2, SMTT(30)
  <2> QED BY <1>3, <2>2, <2>3, LastOf, SMTT(30)
<1>11. SubSeq(OneShot2, 2, 2) = OneShot1
  <2>1. \A i \in 1..1 : OneShot1[i] = OneShot2[1 + i]
    BY SMTT(30) DEF OneShot2, OneShot1
  <2>2. Len(OneShot2) = 2 /\ Len(OneShot1) = 1
    BY Shapes
  <2>3. \A i \in 1..Len(OneShot1) : OneShot1[i] = OneShot2[2 + i - 1]
    BY <2>1, <2>2, SMTT(30)
  <2> QED BY <1>3, <2>2, <2>3, LastOf, SMTT(30)
<1>12. SubSeq(OneShot2, 3, 2) = <<>>
  <2>1. \A i \in 1..0 : <<>>[i] = OneShot2[2 + i]
    BY SMTT(30) DEF OneShot2
  <2>2. Len(OneShot2) = 2 /\ Len(<<>>) = 0
    BY Shapes
  <2>3. \A i \in 1..Len(<<>>) : <<>>[i] = OneShot2[3 + i - 1]
    BY <2>1, <2>2, SMTT(30)
  <2> QED BY <1>3, <2>2, <2>3, LastOf, SMTT(30)
<1> QED BY <1>3, <1>4, <1>5, <1>6, <1>7, <1>8, <1>9, <1>10, <1>11, <1>12

-----------------------------------------------------------------------------
(* ClockCounts with the types its counters need: an edge is merged only if *)
(* there was one, so that the difference never hides an edge.              *)
ClockInv ==
  /\ irr \in BOOLEAN
  /\ secs \in Nat /\ ms \in Nat /\ edges \in Nat /\ lost \in Nat
  /\ ClockCounts

(* The invariants together type the variables. *)
LEMMA HpetTyped == ASSUME HpetInv, ClockInv, HandlerTypes PROVE TypeOK
<1>1. Values /\ Calling
  BY DEF HpetInv
<1>2. {enabled, irr, isr} \subseteq BOOLEAN
  BY <1>1 DEF Values, ClockInv, HandlerTypes
<1>3. counter \in 0..MaxTicks
  BY <1>1, HpetAssumption, SMTT(30) DEF Values
<1>4. \/ \E s \in {set_one_shot, set_periodic}, n \in 1..7 : n <= Len(s) + 1 /\ todo = SubSeq(s, n, Len(s))
      \/ todo \in {<<"init">>, <<"panic">>}
  <2>1. Len(set_periodic) = 6 /\ Len(set_one_shot) = 2
    BY Shapes, SetPeriodicSteps DEF set_one_shot, OneShot2
  <2>2. todo \in InPeriodic => \E n \in 1..7 : n <= 6 + 1 /\ todo = SubSeq(set_periodic, n, 6)
    <3>1. /\ SubSeq(Periodic6, 1, 6) = Periodic6 /\ SubSeq(Periodic6, 2, 6) = Periodic5
          /\ SubSeq(Periodic6, 3, 6) = Periodic4 /\ SubSeq(Periodic6, 4, 6) = Periodic3
          /\ SubSeq(Periodic6, 5, 6) = Periodic2 /\ SubSeq(Periodic6, 6, 6) = Periodic1
      BY LastSteps
    <3> QED BY <3>1, SetPeriodicSteps, SMTT(30) DEF InPeriodic
  <2>3. todo \in {OneShot2, OneShot1, <<>>} => \E n \in 1..7 : n <= 2 + 1 /\ todo = SubSeq(set_one_shot, n, 2)
    <3>1. /\ SubSeq(set_one_shot, 1, 2) = OneShot2 /\ SubSeq(set_one_shot, 2, 2) = OneShot1
          /\ SubSeq(set_one_shot, 3, 2) = <<>>
      BY LastSteps
    <3>2. todo \in {OneShot2, OneShot1} => \E n \in 1..7 : n <= 2 + 1 /\ todo = SubSeq(set_one_shot, n, 2)
      BY <3>1, SMTT(30)
    <3>3. todo = <<>> => \E n \in 1..7 : n <= 2 + 1 /\ todo = SubSeq(set_one_shot, n, 2)
      BY <3>1, SMTT(30)
    <3> QED BY <3>2, <3>3
  <2>4. todo \in InPeriodic \cup {OneShot2, OneShot1, <<>>, <<"init">>, <<"panic">>}
    BY <1>1 DEF Calling
  <2> QED BY <2>1, <2>2, <2>3, <2>4
<1> QED BY <1>1, <1>2, <1>3, <1>4 DEF TypeOK, Values, ClockInv, HandlerTypes

(* The error of the conversion: p is the clock period, g the same in       *)
(* nanoseconds, T the ticks for n nanoseconds, e the ticks that pass.      *)
LEMMA Conversion ==
  ASSUME NEW p \in Nat, NEW F \in Nat \ {0}, NEW g \in Nat \ {0}, g = p \div F,
         NEW n \in Nat \ {0}, NEW T \in Nat, T * g <= n, n < (T + 1) * g, NEW e \in Nat, e >= T
  PROVE  /\ (e + 1) * p > n * F
         /\ e = T => e * p * g < n * F * (g + 1)
<1>1. g * F <= p /\ p < (g + 1) * F
  <2>1. p = F * (p \div F) + (p % F) /\ p % F \in 0..(F - 1)
    BY Z3
  <2>2. PICK m \in 0..(F - 1) : p = F * g + m
    BY <2>1
  <2>3. g * F = F * g /\ (g + 1) * F = F * g + F /\ F * g \in Nat
    BY Z3
  <2> QED BY <2>2, <2>3, SMTT(30)
<1>2. (e + 1) * p > n * F
  <2>1. (T + 1) * p <= (e + 1) * p
    <3>1. ASSUME NEW a \in Nat, NEW b \in Nat, a <= b PROVE a * p <= b * p
      BY <3>1, Z3
    <3> QED BY <3>1, SMTT(30)
  <2>2. (T + 1) * (g * F) <= (T + 1) * p
    <3>1. ASSUME NEW a \in Nat, NEW b \in Nat, NEW c \in Nat, a <= b PROVE c * a <= c * b
      BY <3>1, Z3
    <3>2. g * F \in Nat
      BY SMTT(30)
    <3> QED BY <1>1, <3>1, <3>2, SMTT(30)
  <2>3. n * F < ((T + 1) * g) * F
    <3>1. ASSUME NEW a \in Nat, NEW b \in Nat, a < b PROVE a * F < b * F
      BY <3>1, Z3
    <3>2. (T + 1) * g \in Nat
      BY SMTT(30)
    <3> QED BY <3>1, <3>2
  <2>4. ((T + 1) * g) * F = (T + 1) * (g * F)
    <3>1. PICK a \in Nat : a = T + 1
      BY SMTT(30)
    <3>2. (a * g) * F = a * (g * F)
      BY Z3
    <3> QED BY <3>1, <3>2
  <2>5. /\ n * F \in Nat /\ (T + 1) * (g * F) \in Nat /\ (T + 1) * p \in Nat /\ (e + 1) * p \in Nat
    BY Z3
  <2> QED BY <2>1, <2>2, <2>3, <2>4, <2>5, SMTT(30)
<1>3. ASSUME e = T PROVE e * p * g < n * F * (g + 1)
  <2>1. e * p * g = p * (T * g)
    BY <1>3, Z3
  <2>2. p * (T * g) <= p * n
    <3>1. ASSUME NEW a \in Nat, NEW b \in Nat, a <= b PROVE p * a <= p * b
      BY <3>1, Z3
    <3>2. T * g \in Nat
      BY SMTT(30)
    <3> QED BY <3>1, <3>2
  <2>3. p * n < ((g + 1) * F) * n
    <3>1. ASSUME NEW a \in Nat, NEW b \in Nat, a < b PROVE a * n < b * n
      BY <3>1, Z3
    <3>2. (g + 1) * F \in Nat
      BY SMTT(30)
    <3> QED BY <1>1, <3>1, <3>2
  <2>4. ((g + 1) * F) * n = n * F * (g + 1)
    BY Z3
  <2>5. e * p * g \in Nat /\ p * (T * g) \in Nat /\ p * n \in Nat /\ n * F * (g + 1) \in Nat
    BY Z3
  <2> QED BY <2>1, <2>2, <2>3, <2>4, <2>5, SMTT(30)
<1> QED BY <1>2, <1>3

(* The quotient of a number between two multiples. *)
LEMMA Quotient ==
  ASSUME NEW T \in Nat \ {0}, NEW f \in Nat, NEW n \in Nat, f * T <= n, n < (f + 1) * T
  PROVE  n \div T = f
<1>1. n \div T \in Nat /\ n = T * (n \div T) + (n % T) /\ n % T \in 0..(T - 1)
  BY Z3
<1>2. PICK q \in Nat : q = n \div T
  BY <1>1
<1>3. q * T <= n /\ n < (q + 1) * T
  <2>1. q * T = T * q /\ (q + 1) * T = T * q + T
    BY Z3
  <2> QED BY <1>1, <1>2, <2>1, SMTT(30)
<1>4. ASSUME NEW a \in Nat, NEW b \in Nat, a * T <= n, n < (b + 1) * T PROVE ~(a > b)
  <2> SUFFICES ASSUME a > b PROVE FALSE
    OBVIOUS
  <2>1. PICK e \in Nat : a = b + 1 + e
    <3>1. a - b - 1 \in Nat /\ a = b + 1 + (a - b - 1)
      BY SMTT(30)
    <3> QED BY <3>1
  <2>2. (b + 1 + e) * T = (b + 1) * T + e * T /\ e * T \in Nat /\ (b + 1) * T \in Nat
    BY Z3
  <2> QED BY <1>4, <2>1, <2>2, SMTT(30)
<1>5. ~(q > f) /\ ~(f > q)
  BY <1>3, <1>4
<1> QED BY <1>2, <1>5, SMTT(30)

-----------------------------------------------------------------------------
(* The clock of timer_handler. *)

(* The theory of finite sets, which only the rest of the module needs. *)
Sets == INSTANCE FiniteSetTheorems

(* It speaks of the same finite sets and numbers of elements. *)
LEMMA SameFinite == ASSUME NEW S PROVE IsFiniteSet(S) = Sets!IsFiniteSet(S)
  BY DEF IsFiniteSet, Sets!IsFiniteSet

LEMMA SameNumber == ASSUME NEW S PROVE Cardinality(S) = Sets!Cardinality(S)
  BY DEF Cardinality, Sets!Cardinality

(* The number of comparators that fire in a tick; it is 0 only for none. *)
LEMMA HitsCounted ==
  Cardinality(Hits) \in Nat /\ (Hits # {} => Cardinality(Hits) > 0)
<1>1. IsFiniteSet(Hits)
  BY HpetAssumption, SameFinite, Sets!FS_Subset DEF Hits
<1>2. Cardinality(Hits) \in Nat /\ (Cardinality(Hits) = 0 <=> Hits = {})
  BY <1>1, SameFinite, SameNumber, Sets!FS_CardinalityType, Sets!FS_EmptySet
<1> QED BY <1>2, SMTT(30)

(* One second more is TICKS_PER_SEC interrupts more. *)
LEMMA NextSecond ==
  ASSUME NEW T \in Nat, NEW s \in Nat
  PROVE  (s + 1) * T = s * T + T /\ s * T \in Nat
  BY Z3

(* A tick raises the edges it counts: at most one of them becomes a        *)
(* request, the others are merged with it or with the one that waits.      *)
LEMMA TickCounts == ASSUME ClockInv, Tick PROVE ClockInv'
<1>1. Cardinality(Hits) \in Nat /\ (Hits # {} => Cardinality(Hits) > 0)
  BY HitsCounted
<1>2. /\ irr' = (irr \/ Hits # {}) /\ edges' = edges + Cardinality(Hits)
      /\ lost' = lost + Cardinality(Hits) - (IF Hits # {} /\ ~irr THEN 1 ELSE 0)
      /\ secs' = secs /\ ms' = ms
  BY DEF Tick
<1>3. secs * TICKS_PER_SEC \in Nat
  BY NextSecond, HpetAssumption DEF ClockInv
<1>4. irr' \in BOOLEAN
  BY <1>2 DEF ClockInv
<1>5. CASE irr
  <2>0. irr' /\ (IF Hits # {} /\ ~irr THEN 1 ELSE 0) = 0
    BY <1>2, <1>5
  <2>1. irr' /\ lost' = lost + Cardinality(Hits)
    BY <1>1, <1>2, <2>0, SMTT(30) DEF ClockInv
  <2> QED BY <1>1, <1>2, <1>3, <1>4, <1>5, <2>1, SMTT(30) DEF ClockInv, ClockCounts
<1>6. CASE ~irr /\ Hits # {}
  <2>1. irr' /\ lost' = lost + Cardinality(Hits) - 1
    BY <1>2, <1>6
  <2> QED BY <1>1, <1>2, <1>3, <1>4, <1>6, <2>1, SMTT(30) DEF ClockInv, ClockCounts
<1>7. CASE ~irr /\ Hits = {}
  <2>1. ~irr' /\ lost' = lost + Cardinality(Hits)
    BY <1>1, <1>2, <1>7, SMTT(30) DEF ClockInv
  <2> QED BY <1>1, <1>2, <1>3, <1>4, <1>7, <2>1, SMTT(30) DEF ClockInv, ClockCounts
<1> QED BY <1>5, <1>6, <1>7

(* timer_handler turns the request into a tenth, or into a new second. *)
LEMMA HandlerCounts == ASSUME ClockInv, TimerHandler PROVE ClockInv'
<1>0. irr' \in BOOLEAN /\ ~irr'
  BY DEF TimerHandler, Count
<1>1. /\ irr /\ edges' = edges /\ lost' = lost
      /\ ms' = IF ms + 1 = TICKS_PER_SEC THEN 0 ELSE ms + 1
      /\ secs' = IF ms + 1 = TICKS_PER_SEC THEN secs + 1 ELSE secs
  BY DEF TimerHandler, Count
<1>2. (secs + 1) * TICKS_PER_SEC = secs * TICKS_PER_SEC + TICKS_PER_SEC
      /\ secs * TICKS_PER_SEC \in Nat /\ TICKS_PER_SEC \in Nat
  BY NextSecond, HpetAssumption DEF ClockInv
<1>3. CASE ms + 1 = TICKS_PER_SEC
  <2>1. ms' = 0 /\ secs' = secs + 1
    BY <1>1, <1>3
  <2> QED BY <1>0, <1>1, <1>2, <1>3, <2>1, SMTT(30) DEF ClockInv, ClockCounts
<1>4. CASE ms + 1 # TICKS_PER_SEC
  <2>1. ms' = ms + 1 /\ secs' = secs
    BY <1>1, <1>4
  <2> QED BY <1>0, <1>1, <1>2, <2>1, SMTT(30) DEF ClockInv, ClockCounts
<1> QED BY <1>3, <1>4

(* Every step keeps the count and the types of its counters. *)
LEMMA ClockInvariant == Spec => []ClockInv
<1>1. Init => ClockInv
  <2> SUFFICES ASSUME Init PROVE ClockInv
    OBVIOUS
  <2>1. irr \in BOOLEAN /\ ~irr
    BY DEF Init
  <2>2. secs = 0 /\ ms = 0 /\ edges = 0 /\ lost = 0
    BY DEF Init
  <2>3. 0 * TICKS_PER_SEC = 0
    BY HpetAssumption, SMTT(30)
  <2> QED BY <2>1, <2>2, <2>3, SMTT(30) DEF ClockInv, ClockCounts
<1>2. ClockInv /\ [Next]_vars => ClockInv'
  <2> SUFFICES ASSUME ClockInv, [Next]_vars PROVE ClockInv'
    OBVIOUS
  <2>1. Tick \/ TimerHandler \/ UNCHANGED <<irr, secs, ms, edges, lost>>
    BY DEF Next, vars, intr, Program, Handler, EnableCounter, SetOneShot, SetPeriodic,
       CallWith, Rest, InitPeriod, SwitchCounter, ZeroCounter, ConfigOneShot,
       ConfigPeriodic, set_compar_value, WriteEoi
  <2>2. CASE UNCHANGED <<irr, secs, ms, edges, lost>>
    BY <2>2 DEF ClockInv, ClockCounts
  <2> QED BY <2>1, <2>2, TickCounts, HandlerCounts
<1> QED BY <1>1, <1>2, PTL DEF Spec

(* The clock of timer_handler counts every edge that was not merged,       *)
(* wherever the counter's ticks fall between the accesses of the code and  *)
(* however long the handler is delayed.                                    *)
THEOREM ClockCorrect == Spec => []ClockCounts
<1>1. ClockInv => ClockCounts
  BY DEF ClockInv
<1> QED BY <1>1, ClockInvariant, PTL

-----------------------------------------------------------------------------
(* The interrupt of set_one_shot comes less than one tick early and, if    *)
(* the counter is not reset, late by less than one part in                 *)
(* g_clk_period_ns and once, for all clock periods and times, and the      *)
(* conversion never divides by 0.                                          *)
THEOREM OneShotTimes == Spec => []OneShotExact
<1>1. HpetInv /\ ClockInv /\ HandlerTypes => OneShotExact
  <2> SUFFICES ASSUME HpetInv, ClockInv, HandlerTypes PROVE OneShotExact
    OBVIOUS
  <2>1. TypeOK
    BY HpetTyped
  <2>2. ASSUME NEW c \in Comparators, since[c].kind = "one_shot", ~since[c].switched, since[c].fired > 0
        PROVE  /\ (since[c].first - since[c].start + 1) * period > since[c].time * NS_PER_MS * FS_PER_NS
               /\ \/ since[c].reset
                  \/ (since[c].first - since[c].start) * period * g_clk_period_ns
                       < since[c].time * NS_PER_MS * FS_PER_NS * (g_clk_period_ns + 1)
               /\ since[c].reset \/ since[c].fired = 1
    <3>1. Values /\ Calling /\ OneShotOf(c, since[c])
      BY <2>2 DEF HpetInv, Timed
    <3>2. todo \notin {<<"init">>, <<"panic">>}
      BY <2>2, <3>1 DEF Calling
    <3>3. /\ period \in Nat /\ FS_PER_NS \in Nat \ {0} /\ NS_PER_MS \in Nat \ {0}
          /\ g_clk_period_ns \in Nat \ {0} /\ g_clk_period_ns = period \div FS_PER_NS
      BY <3>1, <3>2, HpetAssumption, SMTT(30) DEF Values
    <3>4. since[c].start \in Nat /\ since[c].first \in Nat
      BY <3>1 DEF Values, Requests
    <3>5. since[c].time \in Times /\ since[c].time \in Nat \ {0}
      BY <3>1, HpetAssumption DEF OneShotOf
    <3>6. PICK T \in Nat : T = TicksOf(since[c].time, g_clk_period_ns) /\ T = Ticks(since[c].time)
      <4>1. Values /\ g_clk_period_ns > 0 /\ since[c].time \in Times
        BY <3>1, <3>3, <3>5, SMTT(30)
      <4>2. /\ Ticks(since[c].time) = TicksOf(since[c].time, g_clk_period_ns)
            /\ TicksOf(since[c].time, g_clk_period_ns) \in Nat
        BY <4>1, TicksOfTime
      <4> QED BY <4>2
    <3>7. PICK n \in Nat \ {0} : n = since[c].time * NS_PER_MS
      <4>1. ASSUME NEW a \in Nat \ {0}, NEW b \in Nat \ {0} PROVE a * b \in Nat \ {0}
        BY Z3
      <4> QED BY <3>3, <3>5, <4>1
    <3>8. T * g_clk_period_ns <= n /\ n < (T + 1) * g_clk_period_ns
      BY <3>3, <3>5, <3>6, <3>7, TicksRound
    <3>9. /\ since[c].first >= since[c].start + T
          /\ ~since[c].reset => since[c].first = since[c].start + T /\ since[c].fired = 1
      BY <2>2, <3>1, <3>6 DEF OneShotOf
    <3>10. PICK e \in Nat : e = since[c].first - since[c].start
      <4>1. since[c].first >= since[c].start + T
        BY <3>9
      <4>2. since[c].first - since[c].start \in Nat
        BY <3>4, <4>1, SMTT(30)
      <4> QED BY <4>2
    <3>11. e >= T /\ (~since[c].reset => e = T)
      BY <3>4, <3>9, <3>10, SMTT(30)
    <3>12. /\ (e + 1) * period > n * FS_PER_NS
           /\ e = T => e * period * g_clk_period_ns < n * FS_PER_NS * (g_clk_period_ns + 1)
      BY <3>3, <3>8, <3>11, Conversion
    <3> QED BY <3>7, <3>9, <3>10, <3>11, <3>12
  <2> QED BY <2>1, <2>2 DEF OneShotExact
<1>2. Spec => []ClockInv
  BY ClockInvariant
<1> QED BY <1>1, <1>2, HpetInvariant, HandlerTyped, PTL

(* The n-th interrupt of set_periodic comes n periods after the counter    *)
(* was started, as long as the counter is not reset.                       *)
THEOREM PeriodicTimes == Spec => []PeriodicExact
<1>1. HpetInv => PeriodicExact
  <2> SUFFICES ASSUME HpetInv, NEW c \in Comparators, since[c].kind = "periodic", ~since[c].reset
               PROVE  since[c].fired = (now - since[c].start) \div Ticks(since[c].time)
    BY DEF PeriodicExact
  <2>1. Values /\ Calling /\ PeriodicOf(c, since[c])
    BY DEF HpetInv, Timed
  <2>2. todo \notin {<<"init">>, <<"panic">>}
    BY <2>1 DEF Calling
  <2>3. g_clk_period_ns > 0
    BY <2>1, <2>2 DEF Values
  <2>4. PICK T \in Nat \ {0} : T = TicksOf(since[c].time, g_clk_period_ns) /\ T = Ticks(since[c].time)
    BY <2>1, <2>3, TicksOfTime DEF PeriodicOf
  <2>5. PICK f \in Nat : f = since[c].fired
    BY <2>1 DEF Values, Requests
  <2>6. counter \in Nat /\ now \in Nat /\ since[c].start \in Nat
    BY <2>1, SMTT(30) DEF Values, Requests
  <2>7. counter + since[c].start = now /\ f * T <= counter /\ counter < (f + 1) * T
    BY <2>1, <2>4, <2>5 DEF PeriodicOf
  <2>8. counter = now - since[c].start
    BY <2>6, <2>7, SMTT(30)
  <2>9. counter \div T = f
    BY <2>6, <2>7, Quotient
  <2> QED BY <2>4, <2>5, <2>8, <2>9
<1> QED BY <1>1, HpetInvariant, PTL
=============================================================================
