------------------------------- MODULE Printf -------------------------------
(***************************************************************************)
(* __printf (kutils/console.cpp), which every message of the kernel goes   *)
(* through, with itoa and the string functions it calls (libc/stdlib.cpp). *)
(*                                                                         *)
(* One pass through a loop of __printf, itoa or str_reverse is a step.     *)
(* The buffers are arrays in memory: a write outside of one is recorded,   *)
(* and what is read back is what was written, up to the first null byte.   *)
(* Outside of buf is the stack: nothing is claimed of a call from there on.*)
(* A character is a string of length one.                                  *)
(***************************************************************************)
EXTENDS Integers, Sequences, FiniteSets, FiniteSetsExt, SequencesExt

CONSTANTS
  BUF, TMP,     \* sizes of buf and temp_buf, 4096 and 64 in the kernel
  WORD,         \* number of values of the upper and of the lower half of u64
  U16,          \* number of values of u16
  Calls         \* calls of kprintf: a format and arguments, see WellFormedCall

VARIABLES
  call,         \* the call, never changes
  i, is_percent, j, buf, temp_buf,   \* locals of __printf
  taken,        \* arguments va_arg has taken
  pc,           \* which loop runs
  num, base, k, \* itoa: its arguments and i; str_reverse: k is its len
  r,            \* str_reverse: its i
  garbage,      \* history: a narrow argument was read with unset upper bits
  outside,      \* history: buffers that were written outside
  printed       \* history: the text given to the console

itoa_vars == <<num, base, k, r>>
history == <<garbage, outside, printed>>
vars == <<call, i, is_percent, j, buf, temp_buf, taken, pc, itoa_vars, history>>

NUL == "NUL"
Digit == <<"0", "1", "2", "3", "4", "5", "6", "7", "8", "9", "a", "b", "c", "d", "e", "f">>

(* An argument is a string, a 64-bit number, or a narrower one: the caller *)
(* passes it in a register whose upper half is undefined.                  *)
Kinds == {"string", "wide", "narrow"}
Argument(a) ==
  /\ a.kind \in Kinds
  /\ a.kind = "string" => NUL \notin Range(a.value)
  /\ a.kind = "wide" => a.value \in 0..(WORD * WORD - 1)
  /\ a.kind = "narrow" => a.value \in 0..(WORD - 1)

(* The positions in a format that open a directive, a percent sign that    *)
(* does not follow one that does; the directives; those with an argument.  *)
Opens(fmt, n) ==
  /\ fmt[n] = "%"
  /\ (n - 1 - Min({m \in 0..(n - 1) : \A x \in (m + 1)..(n - 1) : fmt[x] = "%"})) % 2 = 0
Directives(fmt) == {n \in DOMAIN fmt : n > 1 /\ Opens(fmt, n - 1)}
Taking(fmt) == {n \in Directives(fmt) : fmt[n] \in {"s", "d", "p"}}
ArgumentOf(c, n) == c.args[Cardinality({m \in Taking(c.fmt) : m <= n})]

(* The callers pass what the format asks for. *)
WellFormedCall(c) ==
  /\ NUL \notin Range(c.fmt) /\ Len(c.fmt) < U16
  /\ \A x \in DOMAIN c.args : Argument(c.args[x])
  /\ Cardinality(Taking(c.fmt)) = Len(c.args)
  /\ \A n \in Taking(c.fmt) : (c.fmt[n] = "s") <=> (ArgumentOf(c, n).kind = "string")

ASSUME PrintfAssumption ==
  /\ BUF \in Nat \ {0} /\ TMP \in Nat \ {0} /\ WORD \in Nat \ {0}
  /\ WORD * WORD <= 10^(TMP - 1) /\ U16 \in Nat /\ BUF < U16
  /\ \A c \in Calls : WellFormedCall(c)

-----------------------------------------------------------------------------
(* The string functions of libc.                                           *)

(* Memory of a buffer of n bytes that memset has cleared. *)
Cleared(n) == [x \in 0..(n - 1) |-> NUL]

(* What a buffer holds up to the first null byte; str_len is its length. *)
StrOf(b) == LET ends == {x \in DOMAIN b : b[x] = NUL}
                len == IF ends = {} THEN Cardinality(DOMAIN b) ELSE Min(ends)
            IN  [x \in 1..len |-> b[x - 1]]

(* memcpy of a string to position p, as far as it falls into the buffer;   *)
(* what is behind it is overwritten too, see outside.                      *)
Copied(b, p, str) ==
  [x \in DOMAIN b |-> IF x >= p /\ x < p + Len(str) THEN str[x - p + 1] ELSE b[x]]

Beyond(b, p, len) == len > 0 /\ p + len - 1 \notin DOMAIN b

-----------------------------------------------------------------------------
Init ==
  /\ call \in Calls
  /\ i = 0 /\ is_percent = FALSE /\ j = 0
  /\ buf = Cleared(BUF) /\ temp_buf = Cleared(TMP)
  /\ taken = 0 /\ pc = "scan"
  /\ num = 0 /\ base = 0 /\ k = 0 /\ r = 0
  /\ garbage = FALSE /\ outside = {} /\ printed = <<>>

Chr == call.fmt[i + 1]
Scanning == pc = "scan" /\ i < Len(call.fmt)

(* Append a string to the result, go on behind the current character. *)
AppendStr(str) ==
  /\ buf' = Copied(buf, j, str)
  /\ outside' = IF Beyond(buf, j, Len(str)) THEN outside \cup {"buf"} ELSE outside
  /\ j' = (j + Len(str)) % U16
  /\ i' = (i + 1) % U16

AddChar ==
  /\ Scanning /\ ~is_percent /\ Chr # "%"
  /\ AppendStr(<<Chr>>)
  /\ UNCHANGED <<call, is_percent, temp_buf, taken, pc, itoa_vars, garbage, printed>>

Percent ==
  /\ Scanning /\ ~is_percent /\ Chr = "%"
  /\ is_percent' = TRUE /\ i' = (i + 1) % U16
  /\ UNCHANGED <<call, j, buf, temp_buf, taken, pc, itoa_vars, history>>

(* A directive that is no case of the switch, a second percent sign too. *)
OtherDirective ==
  /\ Scanning /\ is_percent /\ Chr \notin {"s", "d", "p"}
  /\ is_percent' = FALSE /\ i' = (i + 1) % U16
  /\ UNCHANGED <<call, j, buf, temp_buf, taken, pc, itoa_vars, history>>

StringDirective ==
  /\ Scanning /\ is_percent /\ Chr = "s"
  /\ taken' = taken + 1 /\ is_percent' = FALSE
  /\ AppendStr(call.args[taken + 1].value)
  /\ UNCHANGED <<call, temp_buf, pc, itoa_vars, garbage, printed>>

(* va_arg takes 64 bits whatever was passed, and itoa is called. *)
NumberDirective ==
  /\ Scanning /\ is_percent /\ Chr \in {"d", "p"}
  /\ taken' = taken + 1
  /\ LET arg == call.args[taken + 1]
     IN  \E upper \in IF arg.kind = "narrow" THEN {0, 1, WORD - 1} ELSE {0} :
           num' = arg.value + upper * WORD /\ garbage' = (garbage \/ upper # 0)
  /\ base' = IF Chr = "d" THEN 10 ELSE 16
  /\ k' = 0 /\ r' = 0 /\ pc' = "itoa"
  /\ UNCHANGED <<call, i, is_percent, j, buf, temp_buf, outside, printed>>

-----------------------------------------------------------------------------
(* itoa.                                                                   *)

(* A write to temp_buf. *)
PutTemp(p, c) ==
  /\ temp_buf' = [x \in DOMAIN temp_buf |-> IF x = p THEN c ELSE temp_buf[x]]
  /\ outside' = IF p \in DOMAIN temp_buf THEN outside ELSE outside \cup {"temp_buf"}

(* 0 is handled explicitly. *)
Zero ==
  /\ pc = "itoa" /\ k = 0 /\ num = 0
  /\ temp_buf' = Copied(temp_buf, 0, <<"0", NUL>>)
  /\ outside' = IF Beyond(temp_buf, 0, 2) THEN outside \cup {"temp_buf"} ELSE outside
  /\ pc' = "copy"
  /\ UNCHANGED <<call, i, is_percent, j, buf, taken, itoa_vars, garbage, printed>>

NextDigit ==
  /\ pc = "itoa" /\ num # 0
  /\ PutTemp(k, Digit[(num % base) + 1])
  /\ k' = k + 1 /\ num' = num \div base
  /\ UNCHANGED <<call, i, is_percent, j, buf, taken, pc, base, r, garbage, printed>>

(* A faulty end of the number without its null byte. *)
TerminateNot ==
  /\ pc = "itoa" /\ num = 0 /\ k > 0
  /\ pc' = "reverse"
  /\ UNCHANGED <<call, i, is_percent, j, buf, temp_buf, taken, itoa_vars, history>>

(* A faulty end of the number one byte too far. *)
TerminatePast ==
  /\ pc = "itoa" /\ num = 0 /\ k > 0
  /\ PutTemp(k + 1, NUL)
  /\ pc' = "reverse"
  /\ UNCHANGED <<call, i, is_percent, j, buf, taken, itoa_vars, garbage, printed>>

Terminate ==
  /\ pc = "itoa" /\ num = 0 /\ k > 0
  /\ PutTemp(k, NUL)
  /\ pc' = "reverse"
  /\ UNCHANGED <<call, i, is_percent, j, buf, taken, itoa_vars, garbage, printed>>

(* str_reverse swaps two characters, *)
Swap ==
  /\ pc = "reverse" /\ r < k \div 2
  /\ temp_buf' = [temp_buf EXCEPT ![r] = temp_buf[k - r - 1], ![k - r - 1] = temp_buf[r]]
  /\ r' = r + 1
  /\ UNCHANGED <<call, i, is_percent, j, buf, taken, pc, num, base, k, history>>

(* until it is done and itoa returns. *)
Reversed ==
  /\ pc = "reverse" /\ r >= k \div 2
  /\ pc' = "copy"
  /\ UNCHANGED <<call, i, is_percent, j, buf, temp_buf, taken, itoa_vars, history>>

(* The number is appended up to its null byte. *)
CopyNumber ==
  /\ pc = "copy"
  /\ AppendStr(StrOf(temp_buf))
  /\ is_percent' = FALSE /\ pc' = "scan"
  /\ UNCHANGED <<call, temp_buf, taken, itoa_vars, garbage, printed>>

(* The result is terminated and printed. *)
PrintBuf ==
  /\ pc = "scan" /\ i >= Len(call.fmt)
  /\ LET result == Copied(buf, j, <<NUL>>)
     IN  buf' = result /\ printed' = StrOf(result)
  /\ outside' = IF j \in DOMAIN buf THEN outside ELSE outside \cup {"buf"}
  /\ pc' = "done"
  /\ UNCHANGED <<call, i, is_percent, j, temp_buf, taken, itoa_vars, garbage>>

(* __printf has returned. *)
Returned == pc = "done" /\ UNCHANGED vars

Step == \/ AddChar \/ Percent \/ OtherDirective \/ StringDirective \/ NumberDirective
        \/ Zero \/ NextDigit \/ Terminate \/ Swap \/ Reversed \/ CopyNumber \/ PrintBuf

Next == Step \/ Returned

(* The processor executes the code. *)
Spec == Init /\ [][Next]_vars /\ WF_vars(Step)

-----------------------------------------------------------------------------
(* The reference: the text a call stands for.                              *)

(* The numeral of n without leading zeros. *)
Numeral(n, b) ==
  LET len == Min({l \in 1..(TMP - 1) : n < b^l})
  IN  [d \in 1..len |-> Digit[((n \div b^(len - d)) % b) + 1]]

Piece(c, n) ==
  CASE Opens(c.fmt, n) -> <<>>
    [] n \in Directives(c.fmt) /\ c.fmt[n] = "s" -> ArgumentOf(c, n).value
    [] n \in Directives(c.fmt) /\ c.fmt[n] = "d" -> Numeral(ArgumentOf(c, n).value, 10)
    [] n \in Directives(c.fmt) /\ c.fmt[n] = "p" -> Numeral(ArgumentOf(c, n).value, 16)
    [] n \in Directives(c.fmt) -> <<>>
    [] OTHER -> <<c.fmt[n]>>

Expansion(c) == FlattenSeq([n \in DOMAIN c.fmt |-> Piece(c, n)])
Fits(c) == Len(Expansion(c)) < BUF

-----------------------------------------------------------------------------
(* Properties.                                                             *)

(* The locals keep their types. *)
TypeOK ==
  /\ i \in 0..Len(call.fmt) /\ j \in 0..(U16 - 1) /\ is_percent \in BOOLEAN
  /\ DOMAIN buf = 0..(BUF - 1) /\ DOMAIN temp_buf = 0..(TMP - 1)
  /\ pc \in {"scan", "itoa", "reverse", "copy", "done"}
  /\ num \in 0..(WORD * WORD - 1) /\ base \in {0, 10, 16} /\ k \in Nat /\ r \in 0..k
  /\ garbage \in BOOLEAN /\ outside \subseteq {"buf", "temp_buf"}

(* __printf returns, and what it has printed is the text the call stands   *)
(* for: numbers most significant digit first and without digits of an      *)
(* earlier number in the same buffer, arguments in their order, characters *)
(* in theirs.  The text is the right one if the arguments were passed in   *)
(* 64 bits.  A text that leaves buf overwrites the stack, the locals of    *)
(* __printf and its return address: of such a call nothing is claimed.     *)
PrintsExpansion ==
  <>(outside # {} \/ (pc = "done" /\ (~garbage => printed = Expansion(call))))

(* No byte is written outside of a buffer if the text fits with its null   *)
(* byte; and as long as it has not left buf, temp_buf holds every number   *)
(* in both bases and va_arg takes as many arguments as were passed, never  *)
(* one more.                                                               *)
StaysInside ==
  /\ TypeOK
  /\ Fits(call) /\ ~garbage => outside = {}
  /\ "buf" \notin outside =>
       /\ "temp_buf" \notin outside
       /\ taken <= Len(call.args) /\ (pc = "done" => taken = Len(call.args))
=============================================================================
