--------------------------- MODULE KeyboardProofs ---------------------------
(***************************************************************************)
(* Proofs about Keyboard, for every number of key events.                  *)
(*                                                                         *)
(* Once _start is over, a byte in the buffer has its interrupt requested   *)
(* or in service, so that every scan code is read once and in order.  The  *)
(* codes that are on their way lead from the modifiers of the driver to    *)
(* the keys that are down, and from what is printed to what is typed: the  *)
(* invariant says so with the modifiers after each of them as witnesses.   *)
(***************************************************************************)
EXTENDS Keyboard, TLAPS

(* A step that names no prover is left to Zenon. *)
USE ZenonT(30)

(* A value that is a sequence, of whatever elements. *)
IsSeq(s) == Len(s) \in Nat /\ s = [n \in 1..Len(s) |-> s[n]]

Chars == {"q", "Q", "1", "!", "LF", "SHIFT_IN", "SHIFT_OUT"}
Bytes == KeyCodes \cup Answers
Handling == <<"read_key", "eoi">>

(* KeyChar and SetModifiers for given modifiers. *)
Char(code, s, c) ==
  CASE code = "letter" -> IF c # s THEN "Q" ELSE "q"
    [] code = "special" -> IF s THEN "!" ELSE "1"
    [] code = "plain" -> "LF"
    [] code \in ShiftIn -> "SHIFT_IN"
    [] code \in ShiftOut -> "SHIFT_OUT"
    [] OTHER -> "NULL_CHAR"

Sets(code, s, c, s2, c2) ==
  /\ s2 = ((s /\ code \notin ShiftOut) \/ code \in ShiftIn)
  /\ c2 = (c # (code = "CAPSLOCK_IN"))

(* A character c that comes after m characters of typed makes it m2. *)
Prints(c, m, m2) ==
  IF c = "NULL_CHAR" THEN m2 = m ELSE m2 = m + 1 /\ m2 \in DOMAIN typed /\ typed[m2] = c

(* The n bytes p are on their way to the driver. *)
Pending(n, p) ==
  IF full
  THEN n = Len(codes) + 1 /\ p[1] = data /\ \A k \in 1..Len(codes) : p[k + 1] = codes[k]
  ELSE n = Len(codes) /\ \A k \in 1..Len(codes) : p[k] = codes[k]

(* They lead from what the driver has to what the user means. *)
Leads(n, p, sh, cp, off) ==
  /\ sh[0] = shift /\ cp[0] = capslock /\ off[0] = Len(printed)
  /\ \A k \in 1..n :
       /\ Sets(p[k], sh[k - 1], cp[k - 1], sh[k], cp[k])
       /\ Prints(Char(p[k], sh[k - 1], cp[k - 1]), off[k - 1], off[k])
  /\ sh[n] = (held # {}) /\ cp[n] = caps /\ off[n] = Len(typed)

Trace ==
  \E n \in Nat, p \in [Nat -> Bytes], sh \in [Nat -> BOOLEAN], cp \in [Nat -> BOOLEAN],
     off \in [Nat -> Nat] : Pending(n, p) /\ Leads(n, p, sh, cp, off)

Prefix == Len(printed) <= Len(typed) /\ \A i \in 1..Len(printed) : printed[i] = typed[i]

(* What _start has done when its next step is step n. *)
SetUpTo(n) ==
  /\ IsSeq(todo) /\ Len(todo) = 13 - n /\ \A i \in 1..(13 - n) : todo[i] = _start[n - 1 + i]
  /\ (n > 1 => sti) /\ (n > 2 => ~masked) /\ (n > 3 => routed) /\ (n > 5 => lapic)

(* Before the first key only answers of the controller are read. *)
Untouched ==
  /\ codes = <<>> /\ typed = <<>> /\ printed = <<>> /\ held = {} /\ data \in Answers
  /\ shift = FALSE /\ capslock = FALSE /\ caps = FALSE /\ two = FALSE

(* After it, a byte in the buffer has an interrupt. *)
Served ==
  /\ todo = <<>> /\ replies = <<>>
  /\ full <=> (irr \/ isr = Handling)
  /\ ~(irr /\ isr = Handling)

Types ==
  /\ shift \in BOOLEAN /\ capslock \in BOOLEAN /\ sti \in BOOLEAN /\ masked \in BOOLEAN
  /\ routed \in BOOLEAN /\ lapic \in BOOLEAN /\ irr \in BOOLEAN /\ full \in BOOLEAN
  /\ caps \in BOOLEAN /\ two \in BOOLEAN /\ early \in BOOLEAN
Sequents ==
  /\ isr \in {<<>>, <<"eoi">>, Handling} /\ data \in Bytes
  /\ codes \in Seq(KeyCodes) /\ replies \in Seq(Answers)
  /\ typed \in Seq(Chars) /\ printed \in Seq(Chars)
  /\ held \subseteq Sides /\ keys \in Nat

KeyInv ==
  /\ Types /\ Sequents
  /\ isr # <<>> => sti
  /\ \E n \in 1..13 : SetUpTo(n)
  /\ ~early /\ keys = 0 => Untouched
  /\ ~early /\ keys > 0 => Served
  /\ ~two => \A a, b \in held : a = b
  /\ ~early /\ ~two => Prefix /\ (keys > 0 => Trace)

-----------------------------------------------------------------------------
(* The steps of _start.                                                    *)

LEMMA SeqOfSome ==
  ASSUME NEW s, IsSeq(s)
  PROVE  \E S : s \in Seq(S)
<1>1. DOMAIN s = 1..Len(s)
  BY DEF IsSeq
<1>2. s \in Seq({s[n] : n \in 1..Len(s)})
  BY <1>1, SMTT(30) DEF IsSeq
<1> QED
  BY <1>2

LEMMA IsSeqOf ==
  ASSUME NEW S, NEW s \in Seq(S)
  PROVE  IsSeq(s) /\ DOMAIN s = 1..Len(s)
  BY SMTT(30) DEF IsSeq

(* What Tail leaves. *)
LEMMA TailOf ==
  ASSUME NEW s, IsSeq(s), s # <<>>
  PROVE  /\ IsSeq(Tail(s)) /\ Len(s) \in Nat /\ Len(s) >= 1 /\ Head(s) = s[1]
         /\ Len(Tail(s)) = Len(s) - 1 /\ DOMAIN s = 1..Len(s)
         /\ DOMAIN Tail(s) = 1..(Len(s) - 1)
         /\ \A n \in 1..(Len(s) - 1) : Tail(s)[n] = s[n + 1]
<1>1. PICK S : s \in Seq(S)
  BY SeqOfSome
<1>2. Tail(s) \in Seq(S) /\ Len(s) \in Nat /\ Len(s) >= 1 /\ Len(Tail(s)) = Len(s) - 1
  BY <1>1, SMTT(30)
<1>3. IsSeq(Tail(s)) /\ DOMAIN s = 1..Len(s) /\ DOMAIN Tail(s) = 1..(Len(s) - 1)
  BY <1>1, <1>2, IsSeqOf
<1>4. Head(s) = s[1] /\ \A n \in 1..(Len(s) - 1) : Tail(s)[n] = s[n + 1]
  BY <1>1, <1>2, SMTT(30)
<1> QED
  BY <1>2, <1>3, <1>4

(* What a concatenation holds. *)
LEMMA CatOf ==
  ASSUME NEW s, NEW t, IsSeq(s), IsSeq(t)
  PROVE  /\ IsSeq(s \o t) /\ Len(s) \in Nat /\ Len(t) \in Nat
         /\ Len(s \o t) = Len(s) + Len(t)
         /\ DOMAIN (s \o t) = 1..(Len(s) + Len(t))
         /\ \A n \in 1..Len(s) : (s \o t)[n] = s[n]
         /\ \A n \in 1..Len(t) : (s \o t)[Len(s) + n] = t[n]
<1>1. PICK S : s \in Seq(S)
  BY SeqOfSome
<1>2. PICK T : t \in Seq(T)
  BY SeqOfSome
<1>3. s \in Seq(S \cup T) /\ t \in Seq(S \cup T)
  BY <1>1, <1>2, SMTT(30)
<1>4. s \o t \in Seq(S \cup T) /\ Len(s) \in Nat /\ Len(t) \in Nat /\ Len(s \o t) = Len(s) + Len(t)
  BY <1>3, SMTT(30)
<1>5. IsSeq(s \o t) /\ DOMAIN (s \o t) = 1..(Len(s) + Len(t))
  BY <1>4, IsSeqOf
<1>6. \A n \in 1..Len(s) : (s \o t)[n] = s[n]
  BY <1>3, <1>4, SMTT(30)
<1>7. \A n \in 1..Len(t) : (s \o t)[Len(s) + n] = t[n]
  BY <1>3, <1>4, SMTT(30)
<1> QED
  BY <1>4, <1>5, <1>6, <1>7

(* A concatenation with a name. *)
Joins(u, s, t) == u = s \o t

JoinedOf(u, s, t) ==
  /\ IsSeq(u) /\ Len(u) = Len(s) + Len(t) /\ Len(s) \in Nat /\ Len(t) \in Nat
  /\ \A n \in 1..Len(s) : u[n] = s[n]
  /\ \A n \in 1..Len(t) : u[Len(s) + n] = t[n]

LEMMA JoinOf ==
  ASSUME NEW s, NEW t, NEW u, IsSeq(s), IsSeq(t), Joins(u, s, t)
  PROVE  JoinedOf(u, s, t)
  BY CatOf, SMTT(30) DEF Joins, JoinedOf

LEMMA StartSteps ==
  /\ IsSeq(_start) /\ Len(_start) = 12
  /\ _start[1] = "sti" /\ _start[2] = "lower_half" /\ _start[3] = "upper_half"
  /\ _start[4] = "lapic_off" /\ _start[5] = "lapic_on" /\ _start[6] = "test_controller"
  /\ _start[7] = "read" /\ _start[8] = "test_port" /\ _start[9] = "read"
  /\ _start[10] = "set_data" /\ _start[11] = "command" /\ _start[12] = "read"
<1>1. PICK a, b, c, d, e :
        a = <<"sti">> /\ b = ioapic_init /\ c = lapic_init /\ d = TestController /\ e = send_cmd
  OBVIOUS
<1>2. IsSeq(a) /\ Len(a) = 1 /\ a[1] = "sti"
  BY <1>1, SMTT(30) DEF IsSeq
<1>3. IsSeq(b) /\ Len(b) = 2 /\ b[1] = "lower_half" /\ b[2] = "upper_half"
  BY <1>1, SMTT(30) DEF IsSeq, ioapic_init
<1>4. IsSeq(c) /\ Len(c) = 2 /\ c[1] = "lapic_off" /\ c[2] = "lapic_on"
  BY <1>1, SMTT(30) DEF IsSeq, lapic_init
<1>5. /\ IsSeq(d) /\ Len(d) = 4
      /\ d[1] = "test_controller" /\ d[2] = "read" /\ d[3] = "test_port" /\ d[4] = "read"
  BY <1>1, SMTT(30) DEF IsSeq, TestController
<1>6. IsSeq(e) /\ Len(e) = 3 /\ e[1] = "set_data" /\ e[2] = "command" /\ e[3] = "read"
  BY <1>1, SMTT(30) DEF IsSeq, send_cmd
<1>7. PICK u : Joins(u, a, b)
  BY DEF Joins
<1>8. IsSeq(u) /\ Len(u) = 3 /\ u[1] = "sti" /\ u[2] = "lower_half" /\ u[3] = "upper_half"
  <2>1. /\ IsSeq(u) /\ Len(u) = Len(a) + Len(b)
        /\ \A n \in 1..Len(a) : u[n] = a[n]
        /\ \A n \in 1..Len(b) : u[Len(a) + n] = b[n]
    <3>1. JoinedOf(u, a, b)
      BY <1>2, <1>3, <1>7, JoinOf
    <3> QED
      BY <3>1 DEF JoinedOf
  <2>2. u[1] = a[1] /\ u[1 + 1] = b[1] /\ u[1 + 2] = b[2]
    BY <1>2, <1>3, <2>1, SMTT(30)
  <2> QED
    BY <1>2, <1>3, <2>1, <2>2, SMTT(30)
<1>9. PICK v : Joins(v, u, c)
  BY DEF Joins
<1>10. /\ IsSeq(v) /\ Len(v) = 5 /\ v[1] = "sti" /\ v[2] = "lower_half"
       /\ v[3] = "upper_half" /\ v[4] = "lapic_off" /\ v[5] = "lapic_on"
  <2>1. /\ IsSeq(v) /\ Len(v) = Len(u) + Len(c)
        /\ \A n \in 1..Len(u) : v[n] = u[n]
        /\ \A n \in 1..Len(c) : v[Len(u) + n] = c[n]
    <3>1. JoinedOf(v, u, c)
      BY <1>4, <1>8, <1>9, JoinOf
    <3> QED
      BY <3>1 DEF JoinedOf
  <2>2. v[1] = u[1] /\ v[2] = u[2] /\ v[3] = u[3] /\ v[3 + 1] = c[1] /\ v[3 + 2] = c[2]
    BY <1>4, <1>8, <2>1, SMTT(30)
  <2> QED
    BY <1>4, <1>8, <2>1, <2>2, SMTT(30)
<1>11. PICK w : Joins(w, v, d)
  BY DEF Joins
<1>12. /\ IsSeq(w) /\ Len(w) = 9 /\ w[1] = "sti" /\ w[2] = "lower_half"
       /\ w[3] = "upper_half" /\ w[4] = "lapic_off" /\ w[5] = "lapic_on"
       /\ w[6] = "test_controller" /\ w[7] = "read" /\ w[8] = "test_port" /\ w[9] = "read"
  <2>1. /\ IsSeq(w) /\ Len(w) = Len(v) + Len(d)
        /\ \A n \in 1..Len(v) : w[n] = v[n]
        /\ \A n \in 1..Len(d) : w[Len(v) + n] = d[n]
    <3>1. JoinedOf(w, v, d)
      BY <1>5, <1>10, <1>11, JoinOf
    <3> QED
      BY <3>1 DEF JoinedOf
  <2>2. w[1] = v[1] /\ w[2] = v[2] /\ w[3] = v[3] /\ w[4] = v[4] /\ w[5] = v[5]
    BY <1>10, <2>1, SMTT(30)
  <2>3. w[5 + 1] = d[1] /\ w[5 + 2] = d[2] /\ w[5 + 3] = d[3] /\ w[5 + 4] = d[4]
    BY <1>5, <1>10, <2>1, SMTT(30)
  <2> QED
    BY <1>5, <1>10, <2>1, <2>2, <2>3, SMTT(30)
<1>13. PICK z : Joins(z, w, e)
  BY DEF Joins
<1>14. /\ IsSeq(z) /\ Len(z) = 12 /\ z[1] = "sti" /\ z[2] = "lower_half"
       /\ z[3] = "upper_half" /\ z[4] = "lapic_off" /\ z[5] = "lapic_on"
       /\ z[6] = "test_controller" /\ z[7] = "read" /\ z[8] = "test_port" /\ z[9] = "read"
       /\ z[10] = "set_data" /\ z[11] = "command" /\ z[12] = "read"
  <2>1. /\ IsSeq(z) /\ Len(z) = Len(w) + Len(e)
        /\ \A n \in 1..Len(w) : z[n] = w[n]
        /\ \A n \in 1..Len(e) : z[Len(w) + n] = e[n]
    <3>1. JoinedOf(z, w, e)
      BY <1>6, <1>12, <1>13, JoinOf
    <3> QED
      BY <3>1 DEF JoinedOf
  <2>2. z[1] = w[1] /\ z[2] = w[2] /\ z[3] = w[3] /\ z[4] = w[4] /\ z[5] = w[5]
    BY <1>12, <2>1, SMTT(30)
  <2>3. z[6] = w[6] /\ z[7] = w[7] /\ z[8] = w[8] /\ z[9] = w[9]
    BY <1>12, <2>1, SMTT(30)
  <2>4. z[9 + 1] = e[1] /\ z[9 + 2] = e[2] /\ z[9 + 3] = e[3]
    BY <1>6, <1>12, <2>1, SMTT(30)
  <2> QED
    BY <1>6, <1>12, <2>1, <2>2, <2>3, <2>4, SMTT(30)
<1>15. _start = z
  BY <1>1, <1>7, <1>9, <1>11, <1>13 DEF Joins, _start
<1> QED
  BY <1>14, <1>15

(* The next step of _start, and what is left after it. *)
LEMMA NextStep ==
  ASSUME NEW n \in 1..13, SetUpTo(n), todo # <<>>
  PROVE  /\ n < 13 /\ Head(todo) = _start[n]
         /\ IsSeq(Tail(todo)) /\ Len(Tail(todo)) = 13 - (n + 1)
         /\ \A i \in 1..(13 - (n + 1)) : Tail(todo)[i] = _start[(n + 1) - 1 + i]
<1>1. IsSeq(todo) /\ Len(todo) = 13 - n
  BY DEF SetUpTo
<1>2. /\ IsSeq(Tail(todo)) /\ Len(todo) >= 1 /\ Head(todo) = todo[1]
      /\ Len(Tail(todo)) = Len(todo) - 1
      /\ \A i \in 1..(Len(todo) - 1) : Tail(todo)[i] = todo[i + 1]
  BY <1>1, TailOf
<1>3. n < 13 /\ Len(Tail(todo)) = 13 - (n + 1)
  BY <1>1, <1>2, SMTT(30)
<1>4. \A i \in 1..(13 - n) : todo[i] = _start[n - 1 + i]
  BY DEF SetUpTo
<1>5. Head(todo) = _start[n]
  <2>1. 1 \in 1..(13 - n) /\ n - 1 + 1 = n
    BY <1>3, SMTT(30)
  <2> QED
    BY <1>2, <1>4, <2>1
<1>6. ASSUME NEW i \in 1..(13 - (n + 1)) PROVE Tail(todo)[i] = _start[(n + 1) - 1 + i]
  <2>1. i \in 1..(Len(todo) - 1) /\ i + 1 \in 1..(13 - n) /\ n - 1 + (i + 1) = (n + 1) - 1 + i
    BY <1>1, SMTT(30)
  <2> QED
    BY <1>2, <1>4, <2>1
<1> QED
  BY <1>2, <1>3, <1>5, <1>6

-----------------------------------------------------------------------------
(* Characters and modifiers.                                               *)

LEMMA CharType == ASSUME NEW code, NEW s, NEW c PROVE Char(code, s, c) \in Chars \cup {"NULL_CHAR"}
  BY DEF Char, Chars

LEMMA KeyCharIs == ASSUME NEW code PROVE KeyChar(code) = Char(code, shift, capslock)
  BY DEF KeyChar, Char, _mod_letter, _mod_special

(* The answers of the controller neither print nor modify. *)
LEMMA AnswersAreNoKeys ==
  ASSUME NEW code \in Answers, NEW s, NEW c
  PROVE  Char(code, s, c) = "NULL_CHAR" /\ code \notin ShiftIn /\ code # "CAPSLOCK_IN"
  BY DEF Char, Answers, ShiftIn, ShiftOut

LEMMA SetsTypes ==
  ASSUME NEW code, NEW s, NEW c, NEW s2, NEW c2, Sets(code, s, c, s2, c2)
  PROVE  s2 \in BOOLEAN /\ c2 \in BOOLEAN
  BY DEF Sets

LEMMA SetsOnce ==
  ASSUME NEW code, NEW s, NEW c, NEW s2, NEW c2, NEW s3, NEW c3,
         Sets(code, s, c, s2, c2), Sets(code, s, c, s3, c3)
  PROVE  s2 = s3 /\ c2 = c3
  BY DEF Sets

LEMMA SetModifiersIs ==
  ASSUME NEW code, SetModifiers(code)
  PROVE  Sets(code, shift, capslock, shift', capslock')
  BY DEF Sets, SetModifiers

-----------------------------------------------------------------------------
LEMMA KeyInitial == Init => KeyInv
<1> SUFFICES ASSUME Init PROVE KeyInv
  OBVIOUS
<1>1. Types
  BY DEF Init, Types
<1>2. Sequents
  BY SMTT(30) DEF Init, Sequents, Bytes, Answers
<1>3. SetUpTo(1)
  <2>1. IsSeq(todo) /\ Len(todo) = 13 - 1 /\ \A i \in 1..(13 - 1) : todo[i] = _start[1 - 1 + i]
    BY StartSteps, SMTT(30) DEF Init
  <2>2. ~(1 > 1) /\ ~(1 > 2) /\ ~(1 > 3) /\ ~(1 > 5)
    BY SMTT(30)
  <2> QED
    BY <2>1, <2>2 DEF SetUpTo
<1>4. \E n \in 1..13 : SetUpTo(n)
  <2>1. 1 \in 1..13
    BY SMTT(30)
  <2> QED
    BY <1>3, <2>1
<1>5. Untouched /\ isr = <<>> /\ keys = 0 /\ held = {}
  BY DEF Init, Untouched, Answers
<1>6. Prefix /\ ~(keys > 0)
  BY <1>5, SMTT(30) DEF Prefix, Untouched
<1> QED
  BY <1>1, <1>2, <1>4, <1>5, <1>6 DEF KeyInv

(* A step of _start, before the first key. *)
LEMMA MainFrame ==
  ASSUME KeyInv, todo # <<>>, UNCHANGED <<driver, isr, data, codes, user, printed>>,
         Types', replies' \in Seq(Answers), sti => sti', \E n \in 1..13 : SetUpTo(n)'
  PROVE  KeyInv'
<1>1. UNCHANGED <<shift, capslock, isr, data, codes, held, caps, keys, typed, two, early, printed>>
  BY DEF driver, user
<1>2. Sequents'
  BY <1>1 DEF KeyInv, Sequents
<1>3. isr' # <<>> => sti'
  BY <1>1 DEF KeyInv
<1>4. ~early => keys = 0
  <2>1. keys \in Nat
    BY DEF KeyInv, Sequents
  <2>2. ~early => ~(keys > 0)
    BY DEF KeyInv, Served
  <2> QED
    BY <2>1, <2>2, SMTT(30)
<1>5. ~early' => keys' = 0 /\ ~(keys' > 0)
  BY <1>1, <1>4, SMTT(30)
<1>6. ~early' /\ keys' = 0 => Untouched'
  <2>1. ~early /\ keys = 0 => Untouched
    BY DEF KeyInv
  <2> QED
    BY <1>1, <2>1 DEF Untouched
<1>7. ~two' => \A a, b \in held' : a = b
  BY <1>1 DEF KeyInv
<1>8. ~early' /\ ~two' => Prefix'
  <2>1. ~early /\ ~two => Prefix
    BY DEF KeyInv
  <2> QED
    BY <1>1, <2>1 DEF Prefix
<1> QED
  BY <1>2, <1>3, <1>5, <1>6, <1>7, <1>8 DEF KeyInv

(* _start moves from step n to the next. *)
LEMMA Moves ==
  ASSUME KeyInv, NEW step, At(step), Continue
  PROVE  \E n \in 1..12 :
           /\ SetUpTo(n) /\ step = _start[n] /\ todo # <<>> /\ n + 1 \in 1..13
           /\ IsSeq(todo') /\ Len(todo') = 13 - (n + 1)
           /\ \A i \in 1..(13 - (n + 1)) : todo'[i] = _start[(n + 1) - 1 + i]
<1>1. PICK n \in 1..13 : SetUpTo(n)
  BY DEF KeyInv
<1>2. todo # <<>> /\ Head(todo) = step /\ todo' = Tail(todo)
  BY DEF At, Continue
<1>3. /\ n < 13 /\ Head(todo) = _start[n]
      /\ IsSeq(todo') /\ Len(todo') = 13 - (n + 1)
      /\ \A i \in 1..(13 - (n + 1)) : todo'[i] = _start[(n + 1) - 1 + i]
  BY <1>1, <1>2, NextStep
<1>4. n \in 1..12 /\ n + 1 \in 1..13
  BY <1>3, SMTT(30)
<1> QED
  BY <1>1, <1>2, <1>3, <1>4

(* Which step is the next to be taken. *)
LEMMA WhichStep ==
  ASSUME NEW n \in 1..12
  PROVE  /\ _start[n] = "sti" => n = 1
         /\ _start[n] = "lower_half" => n = 2
         /\ _start[n] = "upper_half" => n = 3
         /\ _start[n] = "lapic_off" => n = 4
         /\ _start[n] = "lapic_on" => n = 5
         /\ _start[n] \in {"read", "test_controller", "test_port", "set_data", "command"} => n > 5
<1>1. \/ n = 1 \/ n = 2 \/ n = 3 \/ n = 4 \/ n = 5 \/ n = 6 \/ n = 7 \/ n = 8 \/ n = 9 \/ n = 10
      \/ n = 11 \/ n = 12
  BY SMTT(30)
<1> QED
  BY <1>1, StartSteps, SMTT(30)

(* What a step of _start does to the way of IRQ 1. *)
Opens(step) ==
  /\ sti' \in BOOLEAN /\ (sti \/ step = "sti" => sti')
  /\ masked' \in BOOLEAN /\ (~masked \/ step = "lower_half" => ~masked')
  /\ routed' \in BOOLEAN /\ (routed \/ step = "upper_half" => routed')
  /\ lapic' \in BOOLEAN
  /\ (lapic /\ step # "lapic_off") \/ step = "lapic_on" => lapic'

LEMMA MainStep ==
  ASSUME KeyInv, NEW step, At(step), Continue, Opens(step),
         UNCHANGED <<driver, isr, irr, data, codes, user, printed>>,
         full' \in BOOLEAN, replies' \in Seq(Answers)
  PROVE  KeyInv'
<1>1. Types'
  <2>1. UNCHANGED <<shift, capslock, irr, caps, two, early>>
    BY DEF driver, user
  <2> QED
    BY <2>1 DEF KeyInv, Types, Opens
<1>2. PICK n \in 1..12 :
        /\ SetUpTo(n) /\ step = _start[n] /\ todo # <<>> /\ n + 1 \in 1..13
        /\ IsSeq(todo') /\ Len(todo') = 13 - (n + 1)
        /\ \A i \in 1..(13 - (n + 1)) : todo'[i] = _start[(n + 1) - 1 + i]
  BY Moves
<1>3. n + 1 > 1 => sti'
  <2>1. CASE n = 1
    BY <1>2, <2>1, StartSteps DEF Opens
  <2>2. CASE n > 1
    BY <1>2, <2>2 DEF Opens, SetUpTo
  <2> QED
    BY <2>1, <2>2, SMTT(30)
<1>4. n + 1 > 2 => ~masked'
  <2>1. CASE n = 2
    BY <1>2, <2>1, StartSteps DEF Opens
  <2>2. CASE n > 2
    BY <1>2, <2>2 DEF Opens, SetUpTo
  <2> QED
    BY <2>1, <2>2, SMTT(30)
<1>5. n + 1 > 3 => routed'
  <2>1. CASE n = 3
    BY <1>2, <2>1, StartSteps DEF Opens
  <2>2. CASE n > 3
    BY <1>2, <2>2 DEF Opens, SetUpTo
  <2> QED
    BY <2>1, <2>2, SMTT(30)
<1>6. n + 1 > 5 => lapic'
  <2>1. CASE n = 5
    BY <1>2, <2>1, StartSteps DEF Opens
  <2>2. CASE n > 5
    <3>1. step # "lapic_off"
      <4>1. _start[n] = "lapic_off" => n = 4
        BY WhichStep
      <4>2. n # 4
        BY <2>2, SMTT(30)
      <4> QED
        BY <1>2, <4>1, <4>2
    <3> QED
      BY <1>2, <2>2, <3>1 DEF Opens, SetUpTo
  <2> QED
    BY <2>1, <2>2, SMTT(30)
<1>7. SetUpTo(n + 1)'
  BY <1>2, <1>3, <1>4, <1>5, <1>6 DEF SetUpTo
<1>8. \E m \in 1..13 : SetUpTo(m)'
  BY <1>2, <1>7
<1>9. sti => sti'
  BY DEF Opens
<1> QED
  BY <1>1, <1>2, <1>8, <1>9, MainFrame

LEMMA ReplyIs ==
  ASSUME NEW step \in {"test_controller", "test_port", "set_data", "command"}
  PROVE  Reply(step) \in Seq(Answers)
<1>1. <<"PASSED">> \in Seq(Answers) /\ <<"PORT_OK">> \in Seq(Answers) /\ <<"RESEND">> \in Seq(Answers)
      /\ <<>> \in Seq(Answers)
  BY SMTT(30) DEF Answers
<1> QED
  BY <1>1 DEF Reply

LEMMA MainSteps == ASSUME KeyInv, Main PROVE KeyInv'
<1>1. Types /\ replies \in Seq(Answers)
  BY DEF KeyInv, Sequents
<1>2. CASE Sti
  <2>1. Opens("sti") /\ full' \in BOOLEAN
    BY <1>1, <1>2 DEF Sti, Opens, Types, buffer
  <2> QED
    BY <1>1, <1>2, <2>1, MainStep DEF Sti, buffer
<1>3. CASE LowerHalf
  <2>1. Opens("lower_half") /\ full' \in BOOLEAN
    BY <1>1, <1>3 DEF LowerHalf, Opens, Types, buffer
  <2> QED
    BY <1>1, <1>3, <2>1, MainStep DEF LowerHalf, buffer
<1>4. CASE UpperHalf
  <2>1. Opens("upper_half") /\ full' \in BOOLEAN
    BY <1>1, <1>4 DEF UpperHalf, Opens, Types, buffer
  <2> QED
    BY <1>1, <1>4, <2>1, MainStep DEF UpperHalf, buffer
<1>5. CASE LapicOff
  <2>1. Opens("lapic_off") /\ full' \in BOOLEAN
    BY <1>1, <1>5 DEF LapicOff, Opens, Types, buffer
  <2> QED
    BY <1>1, <1>5, <2>1, MainStep DEF LapicOff, buffer
<1>6. CASE LapicOn
  <2>1. Opens("lapic_on") /\ full' \in BOOLEAN
    BY <1>1, <1>6 DEF LapicOn, Opens, Types, buffer
  <2> QED
    BY <1>1, <1>6, <2>1, MainStep DEF LapicOn, buffer
<1>7. CASE WritePort
  <2>1. PICK step \in {"test_controller", "test_port", "set_data", "command"} :
          At(step) /\ replies' = replies \o Reply(step)
    BY <1>7 DEF WritePort
  <2>2. Opens(step) /\ full' \in BOOLEAN
    <3>1. step # "sti" /\ step # "lower_half" /\ step # "upper_half" /\ step # "lapic_on"
      OBVIOUS
    <3> QED
      BY <1>1, <1>7, <3>1 DEF WritePort, Opens, Types, buffer, apic
  <2>3. Reply(step) \in Seq(Answers)
    BY ReplyIs
  <2>4. replies' \in Seq(Answers)
    BY <1>1, <2>1, <2>3, SMTT(30)
  <2> QED
    BY <1>7, <2>1, <2>2, <2>4, MainStep DEF WritePort, buffer
<1>8. CASE ReadPort
  <2>1. Opens("read") /\ full' \in BOOLEAN
    BY <1>1, <1>8 DEF ReadPort, Opens, Types, apic
  <2> QED
    BY <1>1, <1>8, <2>1, MainStep DEF ReadPort
<1> QED
  BY <1>2, <1>3, <1>4, <1>5, <1>6, <1>7, <1>8 DEF Main

-----------------------------------------------------------------------------
(* The controller and the handler.                                         *)

(* _start is over: nothing keeps IRQ 1 from the processor. *)
LEMMA Open ==
  ASSUME KeyInv, todo = <<>>
  PROVE  sti /\ ~masked /\ routed /\ lapic
<1>1. PICK n \in 1..13 : SetUpTo(n)
  BY DEF KeyInv
<1>2. Len(todo) = 0 /\ Len(todo) = 13 - n
  BY <1>1 DEF SetUpTo
<1>3. n > 1 /\ n > 2 /\ n > 3 /\ n > 5
  BY <1>2, SMTT(30)
<1> QED
  BY <1>1, <1>3 DEF SetUpTo

(* The steps of _start are not touched. *)
LEMMA SetUpSame ==
  ASSUME KeyInv, UNCHANGED <<todo, sti, masked, routed, lapic>>
  PROVE  \E n \in 1..13 : SetUpTo(n)'
<1>1. PICK n \in 1..13 : SetUpTo(n)
  BY DEF KeyInv
<1>2. SetUpTo(n)'
  BY <1>1 DEF SetUpTo
<1> QED
  BY <1>2

LEMMA HeadTail ==
  ASSUME NEW S, NEW s \in Seq(S), s # <<>>
  PROVE  /\ Head(s) = s[1] /\ Head(s) \in S /\ Tail(s) \in Seq(S)
         /\ Len(s) \in Nat /\ Len(s) >= 1 /\ Len(Tail(s)) = Len(s) - 1
         /\ \A k \in 1..(Len(s) - 1) : Tail(s)[k] = s[k + 1]
<1>1. Head(s) \in S /\ Tail(s) \in Seq(S)
  BY SMTT(30)
<1> QED
  BY <1>1, IsSeqOf, TailOf

(* The scan codes that are on their way stay the same. *)
LEMMA TraceSame ==
  ASSUME Trace,
         UNCHANGED <<shift, capslock, printed, typed, held, caps, full, data, codes>>
  PROVE  Trace'
<1>1. PICK n \in Nat, p \in [Nat -> Bytes], sh \in [Nat -> BOOLEAN], cp \in [Nat -> BOOLEAN],
           off \in [Nat -> Nat] : Pending(n, p) /\ Leads(n, p, sh, cp, off)
  BY DEF Trace
<1>2. Pending(n, p)'
  BY <1>1 DEF Pending
<1>3. Leads(n, p, sh, cp, off)'
  BY <1>1 DEF Leads, Prints
<1> QED
  BY <1>2, <1>3 DEF Trace

LEMMA PrefixSame == ASSUME Prefix, UNCHANGED <<printed, typed>> PROVE Prefix'
  BY DEF Prefix

(* A byte moves from the queue of the keyboard into the buffer. *)
LEMMA TraceDelivered ==
  ASSUME Trace, ~full, full' = TRUE, codes \in Seq(KeyCodes), codes # <<>>,
         data' = Head(codes), codes' = Tail(codes),
         UNCHANGED <<shift, capslock, printed, typed, held, caps>>
  PROVE  Trace'
<1>1. PICK n \in Nat, p \in [Nat -> Bytes], sh \in [Nat -> BOOLEAN], cp \in [Nat -> BOOLEAN],
           off \in [Nat -> Nat] : Pending(n, p) /\ Leads(n, p, sh, cp, off)
  BY DEF Trace
<1>2. n = Len(codes) /\ \A k \in 1..Len(codes) : p[k] = codes[k]
  BY <1>1 DEF Pending
<1>3. /\ Len(codes) \in Nat /\ Len(codes) >= 1 /\ Len(codes') = Len(codes) - 1 /\ data' = codes[1]
      /\ \A k \in 1..Len(codes') : codes'[k] = codes[k + 1] /\ k + 1 \in 1..Len(codes)
  <2>1. /\ Len(codes) \in Nat /\ Len(codes) >= 1 /\ Len(codes') = Len(codes) - 1 /\ data' = codes[1]
        /\ \A k \in 1..(Len(codes) - 1) : codes'[k] = codes[k + 1]
    BY HeadTail
  <2>2. 1..Len(codes') = 1..(Len(codes) - 1) /\ \A k \in 1..(Len(codes) - 1) : k + 1 \in 1..Len(codes)
    BY <2>1, SMTT(30)
  <2> QED
    BY <2>1, <2>2
<1>4. n = Len(codes') + 1 /\ p[1] = data' /\ \A k \in 1..Len(codes') : p[k + 1] = codes'[k]
  BY <1>2, <1>3, SMTT(30)
<1>5. Pending(n, p)'
  BY <1>4 DEF Pending
<1>6. Leads(n, p, sh, cp, off)'
  BY <1>1 DEF Leads, Prints
<1> QED
  BY <1>5, <1>6 DEF Trace

LEMMA DeliverStep == ASSUME KeyInv, Deliver PROVE KeyInv'
<1>1. /\ ~full /\ full' = TRUE /\ irr' = (irr \/ (~masked /\ routed /\ lapic))
      /\ UNCHANGED <<shift, capslock, todo, isr, sti, masked, routed, lapic, held, caps, keys, typed,
                     two, early, printed>>
  BY DEF Deliver, driver, apic, user
<1>2. \/ replies # <<>> /\ data' = Head(replies) /\ replies' = Tail(replies) /\ UNCHANGED codes
      \/ codes # <<>> /\ data' = Head(codes) /\ codes' = Tail(codes) /\ UNCHANGED replies
  BY DEF Deliver
<1>3. Types'
  BY <1>1 DEF KeyInv, Types
<1>4. Sequents'
  <2>1. /\ codes \in Seq(KeyCodes) /\ replies \in Seq(Answers)
    BY DEF KeyInv, Sequents
  <2>2. codes' \in Seq(KeyCodes) /\ replies' \in Seq(Answers) /\ data' \in Bytes
    BY <1>2, <2>1, HeadTail DEF Bytes
  <2> QED
    BY <1>1, <2>2 DEF KeyInv, Sequents
<1>5. isr' # <<>> => sti'
  BY <1>1 DEF KeyInv
<1>6. \E n \in 1..13 : SetUpTo(n)'
  BY <1>1, SetUpSame
<1>7. ~early' /\ keys' = 0 => Untouched'
  <2> SUFFICES ASSUME ~early, keys = 0 PROVE Untouched'
    BY <1>1
  <2>1. Untouched
    BY DEF KeyInv
  <2>2. codes' = <<>> /\ data' \in Answers
    <3>1. replies \in Seq(Answers)
      BY DEF KeyInv, Sequents
    <3> QED
      BY <1>2, <2>1, <3>1, SMTT(30) DEF Untouched
  <2> QED
    BY <1>1, <2>1, <2>2 DEF Untouched
<1>8. ASSUME ~early, keys > 0 PROVE Served' /\ (Trace => Trace')
  <2>1. Served
    BY <1>8 DEF KeyInv
  <2>2. todo = <<>> /\ replies = <<>> /\ isr # Handling /\ irr' = TRUE
    <3>1. todo = <<>> /\ replies = <<>> /\ isr # Handling
      BY <1>1, <2>1 DEF Served
    <3>2. ~masked /\ routed /\ lapic
      BY <3>1, Open
    <3> QED
      BY <1>1, <3>1, <3>2
  <2>3. codes # <<>> /\ data' = Head(codes) /\ codes' = Tail(codes) /\ replies' = replies
    BY <1>2, <2>2
  <2>4. Served'
    BY <1>1, <2>2, <2>3 DEF Served
  <2>5. codes \in Seq(KeyCodes)
    BY DEF KeyInv, Sequents
  <2> QED
    BY <1>1, <2>3, <2>4, <2>5, TraceDelivered
<1>9. ~early' /\ keys' > 0 => Served'
  BY <1>1, <1>8
<1>10. ~two' => \A a, b \in held' : a = b
  BY <1>1 DEF KeyInv
<1>11. ~early' /\ ~two' => Prefix' /\ (keys' > 0 => Trace')
  <2>1. ~early /\ ~two => Prefix /\ (keys > 0 => Trace)
    BY DEF KeyInv
  <2> QED
    BY <1>1, <1>8, <2>1, PrefixSame
<1> QED
  BY <1>3, <1>4, <1>5, <1>6, <1>7, <1>9, <1>10, <1>11 DEF KeyInv

(* The parts of the invariant that a step of the handler which does not    *)
(* read keeps.                                                             *)
LEMMA HandlerFrame ==
  ASSUME KeyInv, irr' \in BOOLEAN, isr' \in {<<>>, <<"eoi">>, Handling}, isr' # <<>> => sti,
         UNCHANGED <<driver, todo, apic, buffer, replies, codes, user, printed>>,
         ~early /\ keys > 0 => Served'
  PROVE  KeyInv'
<1>1. UNCHANGED <<shift, capslock, todo, sti, masked, routed, lapic, full, data, replies, codes, held,
                  caps, keys, typed, two, early, printed>>
  BY DEF driver, apic, buffer, user
<1>2. Types'
  BY <1>1 DEF KeyInv, Types
<1>3. Sequents'
  BY <1>1 DEF KeyInv, Sequents
<1>4. isr' # <<>> => sti'
  BY <1>1
<1>5. \E n \in 1..13 : SetUpTo(n)'
  BY <1>1, SetUpSame
<1>6. ~early' /\ keys' = 0 => Untouched'
  <2>1. ~early /\ keys = 0 => Untouched
    BY DEF KeyInv
  <2> QED
    BY <1>1, <2>1 DEF Untouched
<1>7. ~early' /\ keys' > 0 => Served'
  BY <1>1
<1>8. ~two' => \A a, b \in held' : a = b
  BY <1>1 DEF KeyInv
<1>9. ~early' /\ ~two' => Prefix' /\ (keys' > 0 => Trace')
  <2>1. ~early /\ ~two => Prefix /\ (keys > 0 => Trace)
    BY DEF KeyInv
  <2> QED
    BY <1>1, <2>1, PrefixSame, TraceSame
<1> QED
  BY <1>2, <1>3, <1>4, <1>5, <1>6, <1>7, <1>8, <1>9 DEF KeyInv

LEMMA InterruptStep == ASSUME KeyInv, Interrupt PROVE KeyInv'
<1>1. /\ irr /\ sti /\ isr = <<>> /\ irr' = FALSE /\ isr' = Handling
      /\ UNCHANGED <<driver, todo, apic, buffer, replies, codes, user, printed>>
  BY DEF Interrupt, Handling
<1>2. ~early /\ keys > 0 => Served'
  <2> SUFFICES ASSUME ~early, keys > 0 PROVE Served'
    OBVIOUS
  <2>1. Served
    BY DEF KeyInv
  <2>2. full' = full /\ todo' = todo /\ replies' = replies
    BY <1>1 DEF buffer
  <2> QED
    BY <1>1, <2>1, <2>2 DEF Served
<1> QED
  BY <1>1, <1>2, HandlerFrame

LEMMA WriteEoiStep == ASSUME KeyInv, WriteEoi PROVE KeyInv'
<1>1. /\ isr # <<>> /\ Head(isr) = "eoi" /\ isr' = Tail(isr) /\ irr' = irr
      /\ UNCHANGED <<driver, todo, apic, buffer, replies, codes, user, printed>>
  BY DEF WriteEoi
<1>2. isr \in {<<>>, <<"eoi">>, Handling} /\ irr \in BOOLEAN
  BY DEF KeyInv, Sequents, Types
<1>3. Head(Handling) = "read_key" /\ Tail(<<"eoi">>) = <<>> /\ Handling # <<"eoi">> /\ Handling # <<>>
  BY SMTT(30) DEF Handling
<1>4. isr = <<"eoi">> /\ isr' = <<>>
  BY <1>1, <1>2, <1>3
<1>5. ~early /\ keys > 0 => Served'
  <2> SUFFICES ASSUME ~early, keys > 0 PROVE Served'
    OBVIOUS
  <2>1. Served
    BY DEF KeyInv
  <2>2. full' = full /\ todo' = todo /\ replies' = replies
    BY <1>1 DEF buffer
  <2>3. isr # Handling /\ isr' # Handling
    BY <1>3, <1>4
  <2> QED
    BY <1>1, <2>1, <2>2, <2>3 DEF Served
<1> QED
  BY <1>1, <1>2, <1>4, <1>5, HandlerFrame

LongerBy(s, c, t) ==
  /\ Len(s) \in Nat /\ Len(t) = Len(s) + 1 /\ t[Len(s) + 1] = c
  /\ \A k \in 1..Len(s) : t[k] = s[k]
  /\ DOMAIN s = 1..Len(s) /\ DOMAIN t = 1..(Len(s) + 1)

LEMMA Appended ==
  ASSUME NEW S, NEW s \in Seq(S), NEW c \in S, NEW t, t = Append(s, c)
  PROVE  t \in Seq(S) /\ LongerBy(s, c, t)
  BY SMTT(30) DEF LongerBy

(* The handler reads the byte in the buffer. *)
LEMMA TraceRead ==
  ASSUME Trace, Prefix, full, full' = FALSE, SetModifiers(data),
         printed \in Seq(Chars), typed \in Seq(Chars), codes \in Seq(KeyCodes),
         printed' = IF KeyChar(data) # "NULL_CHAR" THEN Append(printed, KeyChar(data)) ELSE printed,
         UNCHANGED <<data, codes, typed, held, caps>>
  PROVE  Trace' /\ Prefix'
<1>1. PICK n \in Nat, p \in [Nat -> Bytes], sh \in [Nat -> BOOLEAN], cp \in [Nat -> BOOLEAN],
           off \in [Nat -> Nat] : Pending(n, p) /\ Leads(n, p, sh, cp, off)
  BY DEF Trace
<1>2. n = Len(codes) + 1 /\ p[1] = data /\ \A k \in 1..Len(codes) : p[k + 1] = codes[k]
  BY <1>1 DEF Pending
<1>3. Len(codes) \in Nat /\ n - 1 \in Nat /\ n - 1 = Len(codes) /\ n >= 1 /\ 1 \in 1..n /\ 1 - 1 = 0
  <2>1. PICK len \in Nat : len = Len(codes)
    BY SMTT(30)
  <2>2. n = len + 1
    BY <1>2, <2>1
  <2>3. n - 1 = len /\ n >= 1 /\ 1 \in 1..n /\ 1 - 1 = 0
    BY <2>2, SMTT(30)
  <2> QED
    BY <2>1, <2>3
<1>4. PICK c : c = Char(p[1], sh[0], cp[0])
  OBVIOUS
<1>5. /\ sh[0] = shift /\ cp[0] = capslock /\ off[0] = Len(printed)
      /\ \A k \in 1..n : Sets(p[k], sh[k - 1], cp[k - 1], sh[k], cp[k])
                         /\ Prints(Char(p[k], sh[k - 1], cp[k - 1]), off[k - 1], off[k])
      /\ sh[n] = (held # {}) /\ cp[n] = caps /\ off[n] = Len(typed)
  BY <1>1 DEF Leads
<1>6. Sets(data, shift, capslock, sh[1], cp[1]) /\ Prints(c, off[0], off[1])
  BY <1>2, <1>3, <1>4, <1>5
<1>7. sh[1] = shift' /\ cp[1] = capslock'
  <2>1. Sets(data, shift, capslock, shift', capslock')
    BY SetModifiersIs
  <2> QED
    BY <1>6, <2>1, SetsOnce
<1>8. /\ c \in Chars \cup {"NULL_CHAR"}
      /\ printed' = IF c # "NULL_CHAR" THEN Append(printed, c) ELSE printed
  BY <1>2, <1>4, <1>5, KeyCharIs, CharType
<1>9. Prefix' /\ off[1] = Len(printed')
  <2>1. CASE c = "NULL_CHAR"
    <3>1. printed' = printed /\ off[1] = off[0]
      BY <1>6, <1>8, <2>1 DEF Prints
    <3> QED
      BY <1>5, <3>1 DEF Prefix
  <2>2. CASE c # "NULL_CHAR"
    <3>1. c \in Chars /\ printed' = Append(printed, c)
      BY <1>8, <2>2
    <3>2. /\ Len(printed) \in Nat /\ Len(printed') = Len(printed) + 1 /\ printed'[Len(printed) + 1] = c
          /\ \A k \in 1..Len(printed) : printed'[k] = printed[k]
      <4>1. LongerBy(printed, c, printed')
        BY <3>1, Appended
      <4> QED
        BY <4>1 DEF LongerBy
    <3>3. off[1] = Len(printed) + 1 /\ off[1] \in DOMAIN typed /\ typed[off[1]] = c
      BY <1>5, <1>6, <2>2 DEF Prints
    <3>4. DOMAIN typed = 1..Len(typed) /\ Len(typed) \in Nat
      BY SMTT(30)
    <3>5. Len(printed') <= Len(typed)
      BY <3>2, <3>3, <3>4, SMTT(30)
    <3>6. ASSUME NEW i \in 1..Len(printed') PROVE printed'[i] = typed[i]
      <4>1. CASE i = Len(printed) + 1
        BY <3>2, <3>3, <4>1
      <4>2. CASE i # Len(printed) + 1
        <5>1. i \in 1..Len(printed)
          <6>1. PICK len \in Nat : len = Len(printed)
            BY <3>2
          <6>2. i \in 1..(len + 1) /\ i # len + 1
            BY <3>2, <4>2, <6>1
          <6>3. i \in 1..len
            BY <6>2, SMTT(30)
          <6> QED
            BY <6>1, <6>3
        <5> QED
          BY <3>2, <5>1 DEF Prefix
      <4> QED
        BY <4>1, <4>2
    <3> QED
      BY <3>2, <3>3, <3>5, <3>6 DEF Prefix
  <2> QED
    BY <2>1, <2>2
<1> DEFINE p2 == [k \in Nat |-> p[k + 1]]
           sh2 == [k \in Nat |-> sh[k + 1]]
           cp2 == [k \in Nat |-> cp[k + 1]]
           off2 == [k \in Nat |-> off[k + 1]]
<1>10. /\ p2 \in [Nat -> Bytes] /\ sh2 \in [Nat -> BOOLEAN] /\ cp2 \in [Nat -> BOOLEAN]
       /\ off2 \in [Nat -> Nat]
  <2>1. \A k \in Nat : k + 1 \in Nat
    BY SMTT(30)
  <2>2. p2 \in [Nat -> Bytes]
    BY <2>1
  <2>3. sh2 \in [Nat -> BOOLEAN] /\ cp2 \in [Nat -> BOOLEAN]
    BY <2>1
  <2>4. off2 \in [Nat -> Nat]
    BY <2>1
  <2> QED
    BY <2>2, <2>3, <2>4
<1>11. \A k \in Nat : p2[k] = p[k + 1] /\ sh2[k] = sh[k + 1] /\ cp2[k] = cp[k + 1] /\ off2[k] = off[k + 1]
  OBVIOUS
<1> HIDE DEF p2, sh2, cp2, off2
<1>12. Pending(n - 1, p2)'
  <2>1. ASSUME NEW k \in 1..Len(codes) PROVE p2[k] = codes[k]
    <3>1. p2[k] = p[k + 1]
      BY <1>11, SMTT(30)
    <3> QED
      BY <1>2, <3>1
  <2> QED
    BY <1>3, <2>1 DEF Pending
<1>13. Leads(n - 1, p2, sh2, cp2, off2)'
  <2>1. sh2[0] = shift' /\ cp2[0] = capslock' /\ off2[0] = Len(printed')
    <3>1. 0 \in Nat /\ 0 + 1 = 1
      BY SMTT(30)
    <3>2. sh2[0] = sh[1] /\ cp2[0] = cp[1] /\ off2[0] = off[1]
      BY <1>11, <3>1
    <3> QED
      BY <1>7, <1>9, <3>2
  <2>2. sh2[n - 1] = (held # {}) /\ cp2[n - 1] = caps /\ off2[n - 1] = Len(typed)
    <3>1. (n - 1) + 1 = n
      BY SMTT(30)
    <3> QED
      BY <1>3, <1>5, <1>11, <3>1
  <2>3. ASSUME NEW k \in 1..(n - 1)
        PROVE  /\ Sets(p2[k], sh2[k - 1], cp2[k - 1], sh2[k], cp2[k])
               /\ Prints(Char(p2[k], sh2[k - 1], cp2[k - 1]), off2[k - 1], off2[k])
    <3>1. k + 1 \in 1..n /\ (k + 1) - 1 = k /\ (k - 1) + 1 = k /\ k \in Nat /\ k - 1 \in Nat
      BY <1>3, SMTT(30)
    <3>2. /\ p2[k] = p[k + 1] /\ sh2[k] = sh[k + 1] /\ cp2[k] = cp[k + 1] /\ off2[k] = off[k + 1]
          /\ sh2[k - 1] = sh[k] /\ cp2[k - 1] = cp[k] /\ off2[k - 1] = off[k]
      BY <1>11, <3>1
    <3>3. /\ Sets(p[k + 1], sh[k], cp[k], sh[k + 1], cp[k + 1])
          /\ Prints(Char(p[k + 1], sh[k], cp[k]), off[k], off[k + 1])
      BY <1>5, <3>1
    <3> QED
      BY <3>2, <3>3
  <2> QED
    BY <2>1, <2>2, <2>3 DEF Leads, Prints
<1>14. Trace'
  BY <1>3, <1>10, <1>12, <1>13 DEF Trace
<1> QED
  BY <1>9, <1>14

LEMMA ReadKeyStep == ASSUME KeyInv, ReadKey PROVE KeyInv'
<1>1. /\ isr # <<>> /\ Head(isr) = "read_key" /\ isr' = Tail(isr) /\ full' = FALSE /\ SetModifiers(data)
      /\ printed' = IF KeyChar(data) # "NULL_CHAR" THEN Append(printed, KeyChar(data)) ELSE printed
      /\ UNCHANGED <<todo, sti, masked, routed, lapic, irr, data, replies, codes, held, caps, keys, typed,
                     two, early>>
  BY DEF ReadKey, apic, user
<1>2. Sequents /\ Types
  BY DEF KeyInv
<1>3. isr = Handling /\ isr' = <<"eoi">> /\ isr' # Handling /\ isr' # <<>>
  <2>1. /\ Head(<<"eoi">>) = "eoi" /\ Tail(Handling) = <<"eoi">> /\ Handling # <<"eoi">>
    BY SMTT(30) DEF Handling
  <2>2. isr \in {<<>>, <<"eoi">>, Handling}
    BY <1>2 DEF Sequents
  <2> QED
    BY <1>1, <2>1, <2>2, SMTT(30)
<1>4. Sets(data, shift, capslock, shift', capslock')
  BY <1>1, SetModifiersIs
<1>5. Types'
  <2>1. shift' \in BOOLEAN /\ capslock' \in BOOLEAN
    BY <1>4, SetsTypes
  <2> QED
    BY <1>1, <1>2, <2>1 DEF Types
<1>6. Sequents'
  <2>1. KeyChar(data) \in Chars \cup {"NULL_CHAR"}
    BY KeyCharIs, CharType
  <2>2. printed' \in Seq(Chars)
    BY <1>1, <1>2, <2>1, SMTT(30) DEF Sequents
  <2> QED
    BY <1>1, <1>2, <1>3, <2>2 DEF Sequents
<1>7. isr' # <<>> => sti'
  BY <1>1 DEF KeyInv
<1>8. \E n \in 1..13 : SetUpTo(n)'
  BY <1>1, SetUpSame
<1>9. ~early' /\ keys' = 0 => Untouched'
  <2> SUFFICES ASSUME ~early, keys = 0 PROVE Untouched'
    BY <1>1
  <2>1. Untouched
    BY DEF KeyInv
  <2>2. data \in Answers /\ shift = FALSE /\ capslock = FALSE
    BY <2>1 DEF Untouched
  <2>3. KeyChar(data) = "NULL_CHAR" /\ data \notin ShiftIn /\ data # "CAPSLOCK_IN"
    BY <2>2, KeyCharIs, AnswersAreNoKeys
  <2>4. shift' = FALSE /\ capslock' = FALSE
    <3>1. shift' \in BOOLEAN /\ capslock' \in BOOLEAN
      BY <1>4, SetsTypes
    <3>2. ~shift' /\ ~capslock'
      BY <1>4, <2>2, <2>3 DEF Sets
    <3> QED
      BY <3>1, <3>2
  <2> QED
    BY <1>1, <2>1, <2>3, <2>4 DEF Untouched
<1>10. ~early' /\ keys' > 0 => Served' /\ full
  <2> SUFFICES ASSUME ~early, keys > 0 PROVE Served' /\ full
    BY <1>1
  <2>1. Served
    BY DEF KeyInv
  <2> QED
    BY <1>1, <1>3, <2>1 DEF Served
<1>11. ~two' => \A a, b \in held' : a = b
  BY <1>1 DEF KeyInv
<1>12. ASSUME ~early, ~two PROVE Prefix' /\ (keys' > 0 => Trace')
  <2>1. Prefix /\ (keys > 0 => Trace)
    BY <1>12 DEF KeyInv
  <2>2. CASE keys > 0
    <3>1. full
      BY <1>1, <1>10, <1>12, <2>2
    <3> QED
      BY <1>1, <1>2, <2>1, <2>2, <3>1, TraceRead DEF Sequents
  <2>3. CASE keys = 0
    <3>1. Untouched'
      BY <1>1, <1>9, <1>12, <2>3
    <3>2. Prefix'
      BY <3>1, SMTT(30) DEF Untouched, Prefix
    <3> QED
      BY <1>1, <2>3, <3>2, SMTT(30)
  <2>4. keys = 0 \/ keys > 0
    BY <1>2, SMTT(30) DEF Sequents
  <2> QED
    BY <2>2, <2>3, <2>4
<1>13. ~early' /\ ~two' => Prefix' /\ (keys' > 0 => Trace')
  BY <1>1, <1>12
<1> QED
  BY <1>5, <1>6, <1>7, <1>8, <1>9, <1>10, <1>11, <1>13 DEF KeyInv

(* The user acts: a code is sent, and typed grows by the character meant. *)
Extends(c) == IF c = "NULL_CHAR" THEN typed' = typed ELSE LongerBy(typed, c, typed')

LEMMA PrintsKept ==
  ASSUME NEW c, NEW m, NEW m2, NEW d, Extends(d), Prints(c, m, m2), typed \in Seq(Chars)
  PROVE  Prints(c, m, m2)'
<1>1. \A i \in DOMAIN typed : i \in DOMAIN typed' /\ typed'[i] = typed[i]
  <2>1. CASE d = "NULL_CHAR"
    BY <2>1 DEF Extends
  <2>2. CASE d # "NULL_CHAR"
    <3>1. LongerBy(typed, d, typed')
      BY <2>2 DEF Extends
    <3>2. PICK len \in Nat : /\ len = Len(typed) /\ DOMAIN typed = 1..len /\ DOMAIN typed' = 1..(len + 1)
                             /\ \A k \in 1..len : typed'[k] = typed[k]
      BY <3>1 DEF LongerBy
    <3>3. \A i \in 1..len : i \in 1..(len + 1)
      BY SMTT(30)
    <3> QED
      BY <3>2, <3>3
  <2> QED
    BY <2>1, <2>2
<1> QED
  BY <1>1 DEF Prints

LEMMA PrintsTyped ==
  ASSUME NEW c, NEW m, m = Len(typed), Extends(c), typed \in Seq(Chars)
  PROVE  \E m2 \in Nat : m2 = Len(typed') /\ Prints(c, m, m2)'
<1>1. Len(typed) \in Nat
  BY SMTT(30)
<1>2. CASE c = "NULL_CHAR"
  <2>1. typed' = typed /\ Prints(c, m, m)'
    BY <1>2 DEF Extends, Prints
  <2> QED
    BY <1>1, <2>1
<1>3. CASE c # "NULL_CHAR"
  <2>1. PICK len \in Nat : /\ len = Len(typed) /\ DOMAIN typed' = 1..(len + 1) /\ Len(typed') = len + 1
                           /\ typed'[len + 1] = c
    BY <1>3 DEF Extends, LongerBy
  <2>2. len + 1 \in Nat /\ len + 1 \in 1..(len + 1)
    BY SMTT(30)
  <2>3. Prints(c, len, len + 1)'
    BY <1>3, <2>1, <2>2 DEF Prints
  <2> QED
    BY <2>1, <2>2, <2>3
<1> QED
  BY <1>2, <1>3

LEMMA TraceTyped ==
  ASSUME Trace, NEW code \in KeyCodes, caps' \in BOOLEAN,
         codes \in Seq(KeyCodes), typed \in Seq(Chars), codes' = Append(codes, code),
         Extends(Char(code, held # {}, caps)),
         Sets(code, held # {}, caps, held' # {}, caps'),
         UNCHANGED <<full, data, shift, capslock, printed>>
  PROVE  Trace'
<1>1. PICK n \in Nat, p \in [Nat -> Bytes], sh \in [Nat -> BOOLEAN], cp \in [Nat -> BOOLEAN],
           off \in [Nat -> Nat] : Pending(n, p) /\ Leads(n, p, sh, cp, off)
  BY DEF Trace
<1>2. /\ sh[0] = shift /\ cp[0] = capslock /\ off[0] = Len(printed)
      /\ \A k \in 1..n : Sets(p[k], sh[k - 1], cp[k - 1], sh[k], cp[k])
                         /\ Prints(Char(p[k], sh[k - 1], cp[k - 1]), off[k - 1], off[k])
      /\ sh[n] = (held # {}) /\ cp[n] = caps /\ off[n] = Len(typed)
  BY <1>1 DEF Leads
<1>3. PICK s2 \in BOOLEAN : s2 = (held' # {})
  OBVIOUS
<1>4. PICK c2 \in BOOLEAN : c2 = caps'
  OBVIOUS
<1>5. PICK c : c = Char(code, sh[n], cp[n])
  OBVIOUS
<1>6. Extends(c) /\ Sets(code, sh[n], cp[n], s2, c2)
  BY <1>2, <1>3, <1>4, <1>5
<1>7. PICK m2 \in Nat : m2 = Len(typed') /\ Prints(c, off[n], m2)'
  BY <1>2, <1>6, PrintsTyped
<1> DEFINE p2 == [k \in Nat |-> IF k = n + 1 THEN code ELSE p[k]]
           sh2 == [k \in Nat |-> IF k = n + 1 THEN s2 ELSE sh[k]]
           cp2 == [k \in Nat |-> IF k = n + 1 THEN c2 ELSE cp[k]]
           off2 == [k \in Nat |-> IF k = n + 1 THEN m2 ELSE off[k]]
<1>8. p2 \in [Nat -> Bytes]
  BY DEF Bytes
<1>9. sh2 \in [Nat -> BOOLEAN] /\ cp2 \in [Nat -> BOOLEAN]
  OBVIOUS
<1>10. off2 \in [Nat -> Nat]
  OBVIOUS
<1>11. n + 1 \in Nat /\ n \in 0..n /\ 0 \in 0..n
  BY SMTT(30)
<1>12. p2[n + 1] = code /\ sh2[n + 1] = s2 /\ cp2[n + 1] = c2 /\ off2[n + 1] = m2
  BY <1>11
<1>13. \A k \in 0..n : p2[k] = p[k] /\ sh2[k] = sh[k] /\ cp2[k] = cp[k] /\ off2[k] = off[k]
  <2>1. \A k \in 0..n : k \in Nat /\ k # n + 1
    BY SMTT(30)
  <2> QED
    BY <2>1
<1> HIDE DEF p2, sh2, cp2, off2
<1>14. Pending(n + 1, p2)'
  <2>1. PICK len \in Nat : /\ len = Len(codes) /\ Len(codes') = len + 1 /\ codes'[len + 1] = code
                           /\ \A k \in 1..len : codes'[k] = codes[k]
    <3>1. LongerBy(codes, code, codes')
      BY Appended
    <3> QED
      BY <3>1 DEF LongerBy
  <2>2. CASE full
    <3>1. n = len + 1 /\ p[1] = data /\ \A k \in 1..len : p[k + 1] = codes[k]
      BY <1>1, <2>1, <2>2 DEF Pending
    <3>2. 1 \in 0..n /\ n + 1 = (len + 1) + 1 /\ \A k \in 1..len : k + 1 \in 0..n
      BY <3>1, SMTT(30)
    <3>3. ASSUME NEW k \in 1..(len + 1) PROVE p2[k + 1] = codes'[k]
      <4>1. CASE k = len + 1
        BY <1>12, <2>1, <3>1, <4>1
      <4>2. CASE k # len + 1
        <5>1. k \in 1..len
          BY <4>2, SMTT(30)
        <5> QED
          BY <1>13, <2>1, <3>1, <3>2, <5>1
      <4> QED
        BY <4>1, <4>2
    <3>4. p2[1] = data
      BY <1>13, <3>1, <3>2
    <3> QED
      BY <2>1, <2>2, <3>2, <3>3, <3>4 DEF Pending
  <2>3. CASE ~full
    <3>1. n = len /\ \A k \in 1..len : p[k] = codes[k]
      BY <1>1, <2>1, <2>3 DEF Pending
    <3>2. ASSUME NEW k \in 1..(len + 1) PROVE p2[k] = codes'[k]
      <4>1. CASE k = len + 1
        BY <1>12, <2>1, <3>1, <4>1
      <4>2. CASE k # len + 1
        <5>1. k \in 1..len /\ k \in 0..n
          BY <3>1, <4>2, SMTT(30)
        <5> QED
          BY <1>13, <2>1, <3>1, <5>1
      <4> QED
        BY <4>1, <4>2
    <3> QED
      BY <2>1, <2>3, <3>1, <3>2 DEF Pending
  <2> QED
    BY <2>2, <2>3
<1>15. ASSUME NEW k \in 1..(n + 1)
       PROVE  /\ Sets(p2[k], sh2[k - 1], cp2[k - 1], sh2[k], cp2[k])
              /\ Prints(Char(p2[k], sh2[k - 1], cp2[k - 1]), off2[k - 1], off2[k])'
  <2>1. CASE k = n + 1
    <3>1. k - 1 = n
      BY <2>1, SMTT(30)
    <3>2. sh2[k - 1] = sh[n] /\ cp2[k - 1] = cp[n] /\ off2[k - 1] = off[n]
      BY <1>11, <1>13, <3>1
    <3>3. p2[k] = code /\ sh2[k] = s2 /\ cp2[k] = c2 /\ off2[k] = m2
      BY <1>12, <2>1
    <3>4. Sets(p2[k], sh2[k - 1], cp2[k - 1], sh2[k], cp2[k])
      BY <1>6, <3>2, <3>3
    <3>5. Char(p2[k], sh2[k - 1], cp2[k - 1]) = c
      BY <1>5, <3>2, <3>3
    <3> QED
      BY <1>7, <3>2, <3>3, <3>4, <3>5 DEF Prints
  <2>2. CASE k # n + 1
    <3>1. k \in 1..n /\ k \in 0..n /\ k - 1 \in 0..n
      BY <2>2, SMTT(30)
    <3>2. /\ p2[k] = p[k] /\ sh2[k] = sh[k] /\ cp2[k] = cp[k] /\ off2[k] = off[k]
          /\ sh2[k - 1] = sh[k - 1] /\ cp2[k - 1] = cp[k - 1] /\ off2[k - 1] = off[k - 1]
      BY <1>13, <3>1
    <3>3. PICK d : d = Char(p[k], sh[k - 1], cp[k - 1])
      OBVIOUS
    <3>4. Sets(p[k], sh[k - 1], cp[k - 1], sh[k], cp[k]) /\ Prints(d, off[k - 1], off[k])
      BY <1>2, <3>1, <3>3
    <3>5. Prints(d, off[k - 1], off[k])'
      BY <1>6, <3>4, PrintsKept
    <3> QED
      BY <3>2, <3>3, <3>4, <3>5 DEF Prints
  <2> QED
    BY <2>1, <2>2
<1>16. Leads(n + 1, p2, sh2, cp2, off2)'
  <2>1. sh2[0] = shift' /\ cp2[0] = capslock' /\ off2[0] = Len(printed')
    BY <1>2, <1>11, <1>13
  <2>2. sh2[n + 1] = (held' # {}) /\ cp2[n + 1] = caps' /\ off2[n + 1] = Len(typed')
    BY <1>3, <1>4, <1>7, <1>12
  <2> QED
    BY <1>15, <2>1, <2>2 DEF Leads, Prints
<1> QED
  BY <1>8, <1>9, <1>10, <1>11, <1>14, <1>16 DEF Trace

(* Before the first key no code is on its way. *)
LEMMA TraceStart == ASSUME Untouched, ~full PROVE Trace
<1>1. /\ codes = <<>> /\ typed = <<>> /\ printed = <<>> /\ held = {} /\ shift = FALSE
      /\ capslock = FALSE /\ caps = FALSE
  BY DEF Untouched
<1>2. PICK z \in Nat : z = 0
  OBVIOUS
<1> DEFINE p == [k \in Nat |-> "release"]
           no == [k \in Nat |-> FALSE]
           off == [k \in Nat |-> 0]
<1>3. p \in [Nat -> Bytes] /\ no \in [Nat -> BOOLEAN] /\ off \in [Nat -> Nat]
  BY DEF Bytes, KeyCodes
<1>4. no[z] = FALSE /\ off[z] = 0 /\ no[0] = FALSE /\ off[0] = 0 /\ 1..z = {} /\ Len(<<>>) = z
  BY <1>2, SMTT(30)
<1> HIDE DEF p, no, off
<1>5. Pending(z, p)
  BY <1>1, <1>4, SMTT(30) DEF Pending
<1>6. Leads(z, p, no, no, off)
  BY <1>1, <1>2, <1>4 DEF Leads
<1> QED
  BY <1>3, <1>5, <1>6 DEF Trace

LEMMA UserStep ==
  ASSUME KeyInv, NEW code \in KeyCodes, NEW chars, UserActs(code, chars),
         chars = IF Char(code, held # {}, caps) = "NULL_CHAR" THEN <<>> ELSE <<Char(code, held # {}, caps)>>,
         held' \subseteq Sides, caps' \in BOOLEAN, two' \in BOOLEAN, ~two' => ~two,
         ~two' => \A a, b \in held' : a = b,
         ~two' => Sets(code, held # {}, caps, held' # {}, caps')
  PROVE  KeyInv'
<1>1. /\ early \/ keys > 0 \/ SetUpOver
      /\ keys' = keys + 1 /\ codes' = Append(codes, code) /\ typed' = typed \o chars
      /\ UNCHANGED <<shift, capslock, todo, isr, sti, masked, routed, lapic, irr, full, data, replies,
                     printed, early>>
  BY DEF UserActs, driver, apic, buffer
<1>2. Types /\ Sequents
  BY DEF KeyInv
<1>3. /\ codes \in Seq(KeyCodes) /\ typed \in Seq(Chars) /\ printed \in Seq(Chars) /\ keys \in Nat
      /\ Len(printed) \in Nat /\ Len(typed) \in Nat
  BY <1>2, SMTT(30) DEF Sequents
<1>4. PICK c \in Chars \cup {"NULL_CHAR"} : c = Char(code, held # {}, caps)
  BY CharType
<1>5. Extends(c) /\ typed' \in Seq(Chars)
  <2>1. CASE c = "NULL_CHAR"
    <3>1. typed' = typed \o <<>>
      BY <1>1, <1>4, <2>1
    <3>2. typed' = typed
      BY <1>3, <3>1, SMTT(30)
    <3> QED
      BY <1>3, <2>1, <3>2 DEF Extends
  <2>2. CASE c # "NULL_CHAR"
    <3>1. c \in Chars /\ typed' = typed \o <<c>>
      BY <1>1, <1>4, <2>2
    <3>2. typed' = Append(typed, c)
      BY <1>3, <3>1, SMTT(30)
    <3> QED
      BY <1>3, <2>2, <3>1, <3>2, Appended DEF Extends
  <2> QED
    BY <2>1, <2>2
<1>6. codes' \in Seq(KeyCodes)
  BY <1>1, <1>3, Appended
<1>7. keys' \in Nat /\ keys' > 0 /\ keys' # 0
  BY <1>1, <1>3, SMTT(30)
<1>8. Types'
  BY <1>1, <1>2 DEF Types
<1>9. Sequents'
  BY <1>1, <1>2, <1>5, <1>6, <1>7 DEF Sequents
<1>10. isr' # <<>> => sti'
  BY <1>1 DEF KeyInv
<1>11. \E n \in 1..13 : SetUpTo(n)'
  BY <1>1, SetUpSame
<1>12. keys > 0 \/ keys = 0
  BY <1>3, SMTT(30)
<1>13. ASSUME ~early, keys = 0 PROVE SetUpOver /\ Untouched
  <2>1. ~(keys > 0)
    BY <1>13, SMTT(30)
  <2>2. SetUpOver
    BY <1>1, <1>13, <2>1
  <2> QED
    BY <1>13, <2>2 DEF KeyInv
<1>14. ASSUME ~early PROVE Served'
  <2>1. CASE keys > 0
    <3>1. Served
      BY <1>14, <2>1 DEF KeyInv
    <3> QED
      BY <1>1, <3>1 DEF Served
  <2>2. CASE keys = 0
    <3>1. todo = <<>> /\ replies = <<>> /\ ~full /\ ~irr /\ isr = <<>>
      BY <1>13, <1>14, <2>2 DEF SetUpOver
    <3>2. isr # Handling
      BY <3>1 DEF Handling
    <3> QED
      BY <1>1, <3>1, <3>2 DEF Served
  <2> QED
    BY <1>12, <2>1, <2>2
<1>15. ASSUME ~early, ~two' PROVE Prefix' /\ Trace'
  <2>1. Prefix /\ (keys > 0 => Trace)
    BY <1>15 DEF KeyInv
  <2>2. Trace
    <3>1. CASE keys = 0
      <4>1. Untouched /\ ~full
        BY <1>13, <1>15, <3>1 DEF SetUpOver
      <4> QED
        BY <4>1, TraceStart
    <3> QED
      BY <1>12, <2>1, <3>1
  <2>3. Sets(code, held # {}, caps, held' # {}, caps') /\ Extends(Char(code, held # {}, caps))
    BY <1>4, <1>5, <1>15
  <2>4. Trace'
    BY <1>1, <1>3, <2>2, <2>3, TraceTyped
  <2>5. Prefix'
    <3>1. CASE c = "NULL_CHAR"
      BY <1>1, <1>5, <2>1, <3>1 DEF Extends, Prefix
    <3>2. CASE c # "NULL_CHAR"
      <4>1. PICK len \in Nat : /\ len = Len(typed) /\ Len(typed') = len + 1
                               /\ \A k \in 1..len : typed'[k] = typed[k]
        BY <1>5, <3>2 DEF Extends, LongerBy
      <4>2. PICK m \in Nat : m = Len(printed)
        BY <1>3
      <4>3. m <= len /\ \A i \in 1..m : printed[i] = typed[i]
        BY <2>1, <4>1, <4>2 DEF Prefix
      <4>4. m <= len + 1 /\ \A i \in 1..m : i \in 1..len
        BY <4>3, SMTT(30)
      <4> QED
        BY <1>1, <4>1, <4>2, <4>3, <4>4 DEF Prefix
    <3> QED
      BY <3>1, <3>2
  <2> QED
    BY <2>4, <2>5
<1> QED
  BY <1>1, <1>7, <1>8, <1>9, <1>10, <1>11, <1>14, <1>15 DEF KeyInv

(* What the codes of the keys do to the modifiers. *)
LEMMA PressKeyStep == ASSUME KeyInv, PressKey PROVE KeyInv'
<1>1. UNCHANGED <<held, caps, two>>
  BY DEF PressKey
<1>2. held \subseteq Sides /\ caps \in BOOLEAN /\ two \in BOOLEAN /\ (~two => \A a, b \in held : a = b)
  BY DEF KeyInv, Types, Sequents
<1>3. PICK s \in BOOLEAN : s = (held # {})
  OBVIOUS
<1>4. ASSUME NEW code \in {"letter", "special", "plain", "release"}
      PROVE  Sets(code, s, caps, s, caps) /\ code \in KeyCodes
  <2>1. code \notin ShiftIn /\ code \notin ShiftOut /\ code # "CAPSLOCK_IN" /\ code \in KeyCodes
    BY DEF ShiftIn, ShiftOut, KeyCodes
  <2>2. s = ((s /\ code \notin ShiftOut) \/ code \in ShiftIn)
    BY <2>1
  <2>3. caps = (caps # (code = "CAPSLOCK_IN"))
    BY <1>2, <2>1
  <2> QED
    BY <2>1, <2>2, <2>3 DEF Sets
<1>5. /\ Char("letter", s, caps) = IF caps # s THEN "Q" ELSE "q"
      /\ Char("special", s, caps) = IF s THEN "!" ELSE "1"
      /\ Char("plain", s, caps) = "LF" /\ Char("release", s, caps) = "NULL_CHAR"
  BY DEF Char, ShiftIn, ShiftOut
<1>6. CASE UserActs("letter", IF caps # (held # {}) THEN <<"Q">> ELSE <<"q">>)
  <2>1. PICK c : c = Char("letter", s, caps)
    OBVIOUS
  <2>2. c # "NULL_CHAR" /\ <<c>> = IF caps # (held # {}) THEN <<"Q">> ELSE <<"q">>
    BY <1>3, <1>5, <2>1
  <2>3. UserActs("letter", <<c>>)
    BY <1>6, <2>2
  <2> QED
    BY <1>1, <1>2, <1>3, <1>4, <2>1, <2>2, <2>3, UserStep
<1>7. CASE UserActs("special", IF held # {} THEN <<"!">> ELSE <<"1">>)
  <2>1. PICK c : c = Char("special", s, caps)
    OBVIOUS
  <2>2. c # "NULL_CHAR" /\ <<c>> = IF held # {} THEN <<"!">> ELSE <<"1">>
    BY <1>3, <1>5, <2>1
  <2>3. UserActs("special", <<c>>)
    BY <1>7, <2>2
  <2> QED
    BY <1>1, <1>2, <1>3, <1>4, <2>1, <2>2, <2>3, UserStep
<1>8. CASE UserActs("plain", <<"LF">>)
  BY <1>1, <1>2, <1>3, <1>4, <1>5, <1>8, UserStep
<1>9. CASE UserActs("release", <<>>)
  BY <1>1, <1>2, <1>3, <1>4, <1>5, <1>9, UserStep
<1> QED
  BY <1>6, <1>7, <1>8, <1>9 DEF PressKey

LEMMA PressCapsStep == ASSUME KeyInv, PressCaps PROVE KeyInv'
<1>1. UserActs("CAPSLOCK_IN", <<>>) /\ caps' = ~caps /\ UNCHANGED <<held, two>>
  BY DEF PressCaps
<1>2. held \subseteq Sides /\ caps \in BOOLEAN /\ two \in BOOLEAN /\ (~two => \A a, b \in held : a = b)
  BY DEF KeyInv, Types, Sequents
<1>3. PICK s \in BOOLEAN : s = (held # {})
  OBVIOUS
<1>4. /\ "CAPSLOCK_IN" \in KeyCodes /\ "CAPSLOCK_IN" \notin ShiftIn /\ "CAPSLOCK_IN" \notin ShiftOut
      /\ Char("CAPSLOCK_IN", s, caps) = "NULL_CHAR"
  BY DEF KeyCodes, ShiftIn, ShiftOut, Char
<1>5. caps' \in BOOLEAN /\ caps' = (caps # ("CAPSLOCK_IN" = "CAPSLOCK_IN"))
  BY <1>1, <1>2
<1>6. s = ((s /\ "CAPSLOCK_IN" \notin ShiftOut) \/ "CAPSLOCK_IN" \in ShiftIn)
  BY <1>4
<1>7. Sets("CAPSLOCK_IN", s, caps, s, caps')
  BY <1>5, <1>6 DEF Sets
<1> QED
  BY <1>1, <1>2, <1>3, <1>4, <1>5, <1>7, UserStep

LEMMA PressShiftStep == ASSUME KeyInv, NEW side \in Sides, PressShift(side) PROVE KeyInv'
<1>1. PICK code \in ShiftIn : UserActs(code, <<"SHIFT_IN">>)
  BY DEF PressShift, ShiftIn
<1>2. side \notin held /\ held' = held \cup {side} /\ two' = (two \/ held # {}) /\ caps' = caps
  BY DEF PressShift
<1>3. held \subseteq Sides /\ caps \in BOOLEAN /\ two \in BOOLEAN
  BY DEF KeyInv, Types, Sequents
<1>4. PICK s \in BOOLEAN : s = (held # {})
  OBVIOUS
<1>5. held' \subseteq Sides /\ held' # {}
  BY <1>2, <1>3
<1>6. two' \in BOOLEAN /\ (~two' => ~two /\ held = {})
  BY <1>2, <1>3
<1>7. ~two' => \A a, b \in held' : a = b
  BY <1>2, <1>6
<1>8. /\ code \in KeyCodes /\ code # "CAPSLOCK_IN" /\ Char(code, s, caps) = "SHIFT_IN"
      /\ "SHIFT_IN" # "NULL_CHAR"
  BY DEF KeyCodes, ShiftIn, ShiftOut, Char
<1>9. Sets(code, s, caps, TRUE, caps)
  <2>1. TRUE = ((s /\ code \notin ShiftOut) \/ code \in ShiftIn)
    OBVIOUS
  <2>2. caps = (caps # (code = "CAPSLOCK_IN"))
    BY <1>3, <1>8
  <2> QED
    BY <2>1, <2>2 DEF Sets
<1>10. Sets(code, held # {}, caps, held' # {}, caps')
  <2>1. (held' # {}) = TRUE
    BY <1>5
  <2> QED
    BY <1>2, <1>4, <1>9, <2>1
<1> QED
  BY <1>1, <1>2, <1>3, <1>4, <1>5, <1>6, <1>7, <1>8, <1>10, UserStep

(* As long as not both shift keys have been down, none is after a release. *)
LEMMA ReleaseShiftStep == ASSUME KeyInv, NEW side \in Sides, ReleaseShift(side) PROVE KeyInv'
<1>1. PICK code \in ShiftOut : UserActs(code, <<"SHIFT_OUT">>)
  BY DEF ReleaseShift, ShiftOut
<1>2. side \in held /\ held' = held \ {side} /\ UNCHANGED <<caps, two>>
  BY DEF ReleaseShift
<1>3. /\ held \subseteq Sides /\ caps \in BOOLEAN /\ two \in BOOLEAN
      /\ ~two => \A a, b \in held : a = b
  BY DEF KeyInv, Types, Sequents
<1>4. PICK s \in BOOLEAN : s = (held # {})
  OBVIOUS
<1>5. held' \subseteq Sides /\ (~two' => held' = {})
  BY <1>2, <1>3
<1>6. /\ code \in KeyCodes /\ code # "CAPSLOCK_IN" /\ code \notin ShiftIn
      /\ Char(code, s, caps) = "SHIFT_OUT" /\ "SHIFT_OUT" # "NULL_CHAR"
  BY DEF KeyCodes, ShiftIn, ShiftOut, Char
<1>7. Sets(code, s, caps, FALSE, caps)
  <2>1. FALSE = ((s /\ code \notin ShiftOut) \/ code \in ShiftIn)
    BY <1>6
  <2>2. caps = (caps # (code = "CAPSLOCK_IN"))
    BY <1>3, <1>6
  <2> QED
    BY <2>1, <2>2 DEF Sets
<1>8. ~two' => Sets(code, held # {}, caps, held' # {}, caps')
  <2> SUFFICES ASSUME ~two' PROVE Sets(code, held # {}, caps, held' # {}, caps')
    OBVIOUS
  <2>1. (held' # {}) = FALSE
    BY <1>5
  <2> QED
    BY <1>2, <1>4, <1>7, <2>1
<1> QED
  BY <1>1, <1>2, <1>3, <1>4, <1>5, <1>6, <1>8, UserStep

-----------------------------------------------------------------------------
(* The invariant holds in every state.                                     *)

LEMMA Stutter == ASSUME KeyInv, UNCHANGED vars PROVE KeyInv'
<1>1. /\ UNCHANGED <<driver, todo, apic, buffer, replies, codes, user, printed>>
      /\ irr' = irr /\ isr' = isr
  BY DEF vars
<1>2. UNCHANGED <<todo, replies, full, keys, early>>
  BY <1>1 DEF buffer, user
<1>3. irr \in BOOLEAN /\ isr \in {<<>>, <<"eoi">>, Handling} /\ (isr # <<>> => sti)
  BY DEF KeyInv, Types, Sequents
<1>4. ~early /\ keys > 0 => Served'
  <2> SUFFICES ASSUME ~early, keys > 0 PROVE Served'
    OBVIOUS
  <2>1. Served
    BY DEF KeyInv
  <2> QED
    BY <1>1, <1>2, <2>1 DEF Served
<1> QED
  BY <1>1, <1>3, <1>4, HandlerFrame

LEMMA KeyInvStep == ASSUME KeyInv, [Next]_vars PROVE KeyInv'
<1>1. CASE Handler
  BY <1>1, InterruptStep, ReadKeyStep, WriteEoiStep DEF Handler
<1>2. CASE \E side \in Sides : PressShift(side) \/ ReleaseShift(side)
  BY <1>2, PressShiftStep, ReleaseShiftStep
<1>3. CASE Idle
  BY <1>3, Stutter DEF Idle
<1> QED
  BY <1>1, <1>2, <1>3, MainSteps, DeliverStep, PressKeyStep, PressCapsStep, Stutter DEF Next

(* Every byte is read once and in order, and the codes on their way lead   *)
(* from the state of the driver to that of the keys.                       *)
THEOREM KeyInvHolds == Spec => []KeyInv
<1>1. KeyInv /\ [Next]_vars => KeyInv'
  BY KeyInvStep
<1> QED
  BY <1>1, KeyInitial, PTL DEF Spec

LEMMA InvTypes == KeyInv => TypeOK
<1> SUFFICES ASSUME KeyInv PROVE TypeOK
  OBVIOUS
<1>1. {shift, capslock, sti, masked, routed, lapic, irr, full, caps, two, early} \subseteq BOOLEAN
  BY DEF KeyInv, Types
<1>2. /\ Len(todo) <= Len(_start)
      /\ \A i \in DOMAIN todo : todo[i] = _start[Len(_start) - Len(todo) + i]
  <2>1. PICK n \in 1..13 : SetUpTo(n)
    BY DEF KeyInv
  <2>2. IsSeq(todo) /\ Len(todo) = 13 - n /\ \A i \in 1..(13 - n) : todo[i] = _start[n - 1 + i]
    BY <2>1 DEF SetUpTo
  <2>3. Len(_start) = 12 /\ DOMAIN todo = 1..(13 - n)
    BY <2>2, StartSteps DEF IsSeq
  <2>4. 13 - n <= 12 /\ \A i \in 1..(13 - n) : 12 - (13 - n) + i = n - 1 + i
    BY SMTT(30)
  <2> QED
    BY <2>2, <2>3, <2>4
<1>3. /\ isr \in {<<>>, <<"eoi">>, <<"read_key", "eoi">>} /\ data \in KeyCodes \cup Answers
      /\ held \subseteq Sides /\ keys \in Nat
  BY DEF KeyInv, Sequents, Handling, Bytes
<1>4. (\A i \in DOMAIN codes : codes[i] \in KeyCodes) /\ \A i \in DOMAIN replies : replies[i] \in Answers
  BY SMTT(30) DEF KeyInv, Sequents
<1>5. (isr # <<>> => sti) /\ (todo = <<>> => sti /\ ~masked /\ routed /\ lapic)
  BY Open DEF KeyInv
<1> QED
  BY <1>1, <1>2, <1>3, <1>4, <1>5 DEF TypeOK

LEMMA InvPrints ==
  KeyInv => (~early /\ ~two => Len(printed) <= Len(typed) /\ printed = SubSeq(typed, 1, Len(printed)))
<1> SUFFICES ASSUME KeyInv, ~early, ~two
             PROVE  Len(printed) <= Len(typed) /\ printed = SubSeq(typed, 1, Len(printed))
  OBVIOUS
<1>1. Prefix /\ printed \in Seq(Chars) /\ typed \in Seq(Chars)
  BY DEF KeyInv, Sequents
<1>2. PICK m \in Nat, len \in Nat : m = Len(printed) /\ len = Len(typed) /\ m <= len
  BY <1>1, SMTT(30) DEF Prefix
<1>3. /\ printed = [i \in 1..m |-> printed[i]]
      /\ SubSeq(typed, 1, m) = [i \in 1..m |-> typed[i]]
  BY <1>1, <1>2, SMTT(30)
<1>4. \A i \in 1..m : printed[i] = typed[i]
  BY <1>1, <1>2, SMTT(30) DEF Prefix
<1>5. printed = SubSeq(typed, 1, m)
  BY <1>3, <1>4, SMTT(30)
<1> QED
  BY <1>2, <1>5

(* Used after _start has set it up, with one shift key at a time, the      *)
(* keyboard prints what was typed, in order and in its case, for any       *)
(* number of keys; _start leaves the way of IRQ 1 open.                    *)
THEOREM PrintsWhatIsTypedAlways == Spec => []PrintsWhatIsTyped
<1>1. KeyInv => PrintsWhatIsTyped
  BY InvTypes, InvPrints DEF PrintsWhatIsTyped
<1> QED
  BY <1>1, KeyInvHolds, PTL
=============================================================================
