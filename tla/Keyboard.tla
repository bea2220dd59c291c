------------------------------ MODULE Keyboard ------------------------------
(***************************************************************************)
(* The keyboard: the PS/2 driver (drivers/), its interrupt handler         *)
(* (idt/interrupts.cpp), the part of _start that sets up the APICs and     *)
(* talks to the PS/2 controller, and the hardware between them.            *)
(*                                                                         *)
(* The controller, external, has an output buffer of one byte, read at the *)
(* data port; the last byte can be read again when the buffer is empty.    *)
(* Filling the buffer is an edge on IRQ 1.  The edge is lost if the I/O    *)
(* APIC masks the pin or sends it to another processor, or the local APIC  *)
(* is disabled; otherwise it sets a request, which interrupts the          *)
(* processor when IF is set and no interrupt is in service.  A scan code   *)
(* is abstracted to the case of the switch in read_key it belongs to.      *)
(***************************************************************************)
EXTENDS Integers, Sequences

CONSTANTS
  MaxKeys,      \* bound on the number of key events
  MaxEarlyKeys  \* the same when the keyboard is used before SetUpOver

ASSUME KeyboardAssumption == MaxKeys \in Nat /\ MaxEarlyKeys \in Nat

VARIABLES
  shift, capslock,    \* Keyboard
  todo,               \* steps left to _start
  isr,                \* steps left to keyboard_handler, <<>> if not running
  sti,                \* is IF set?
  masked, routed,     \* redirection entry of IRQ 1: mask, is it sent to this CPU?
  lapic,              \* is the local APIC enabled?
  irr,                \* is an interrupt requested?
  full, data,         \* output buffer of the controller
  replies,            \* bytes the controller and the device have to answer
  codes,              \* scan codes the keyboard has to send
  held, caps,         \* shift keys that are down, caps lock as the user sees it
  keys,               \* number of key events so far
  typed, printed,     \* history: characters meant, characters printed
  two,                \* history: both shift keys were down
  early               \* does the user not wait for SetUpOver?

driver == <<shift, capslock>>
apic == <<sti, masked, routed, lapic>>
buffer == <<full, data>>
user == <<held, caps, keys, typed, two, early>>
vars == <<driver, todo, isr, apic, irr, buffer, replies, codes, user, printed>>

Sides == {"LEFT", "RIGHT"}
ShiftIn == {"LEFT_SHIFT_IN", "RIGHT_SHIFT_IN"}
ShiftOut == {"LEFT_SHIFT_OUT", "RIGHT_SHIFT_OUT"}
KeyCodes == {"letter", "special", "plain", "CAPSLOCK_IN", "release"} \cup ShiftIn \cup ShiftOut
Answers == {"PASSED", "PORT_OK", "RESEND", "stale"}

-----------------------------------------------------------------------------
(* Keyboard::read_key, as a function of the byte read.                     *)

_mod_letter(chr, mod_chr) == IF capslock # shift THEN mod_chr ELSE chr
_mod_special(chr, mod_chr) == IF shift THEN mod_chr ELSE chr

(* The character for a byte; answers of the controller fall in the default *)
(* case.                                                                   *)
KeyChar(code) ==
  CASE code = "letter" -> _mod_letter("q", "Q")
    [] code = "special" -> _mod_special("1", "!")
    [] code = "plain" -> "LF"
    [] code \in ShiftIn -> "SHIFT_IN"
    [] code \in ShiftOut -> "SHIFT_OUT"
    [] OTHER -> "NULL_CHAR"

(* A faulty set of modifiers that forgets the release of the right shift. *)
SetModifiersLeft(code) ==
  /\ shift' = ((shift /\ code # "LEFT_SHIFT_OUT") \/ code \in ShiftIn)
  /\ capslock' = (capslock # (code = "CAPSLOCK_IN"))

SetModifiers(code) ==
  /\ shift' = ((shift /\ code \notin ShiftOut) \/ code \in ShiftIn)
  /\ capslock' = (capslock # (code = "CAPSLOCK_IN"))

-----------------------------------------------------------------------------
(* The steps of _start from pic::disable to the loop at its end.           *)

ioapic_init == <<"lower_half", "upper_half">>
lapic_init == <<"lapic_off", "lapic_on">>

TestController == <<"test_controller", "read", "test_port", "read">>

send_cmd == <<"set_data", "command", "read">>

_start == <<"sti">> \o ioapic_init \o lapic_init \o TestController \o send_cmd

Init ==
  /\ shift = FALSE /\ capslock = FALSE
  /\ todo = _start /\ isr = <<>>
  /\ sti = FALSE /\ masked = TRUE /\ routed \in BOOLEAN /\ lapic \in BOOLEAN /\ irr = FALSE
  /\ full \in BOOLEAN /\ data = "stale"
  /\ replies = <<>> /\ codes = <<>>
  /\ held = {} /\ caps = FALSE /\ keys = 0
  /\ typed = <<>> /\ printed = <<>> /\ two = FALSE
  /\ early \in BOOLEAN

At(step) == isr = <<>> /\ todo # <<>> /\ Head(todo) = step
Continue == todo' = Tail(todo)

Sti ==
  /\ At("sti") /\ Continue /\ sti' = TRUE
  /\ UNCHANGED <<driver, isr, masked, routed, lapic, irr, buffer, replies, codes, user, printed>>

(* set_redir_entry writes the half with the mask and the vector first: for *)
(* a moment the pin is open with the destination the firmware left.        *)
LowerHalf ==
  /\ At("lower_half") /\ Continue /\ masked' = FALSE
  /\ UNCHANGED <<driver, isr, sti, routed, lapic, irr, buffer, replies, codes, user, printed>>

UpperHalf ==
  /\ At("upper_half") /\ Continue /\ routed' = TRUE
  /\ UNCHANGED <<driver, isr, sti, masked, lapic, irr, buffer, replies, codes, user, printed>>

(* set_spurious_interrupt writes the vector without the enable bit, which  *)
(* enable sets next.                                                       *)
LapicOff ==
  /\ At("lapic_off") /\ Continue /\ lapic' = FALSE
  /\ UNCHANGED <<driver, isr, sti, masked, routed, irr, buffer, replies, codes, user, printed>>

(* A faulty initialisation that leaves the local APIC disabled. *)
LapicStaysOff ==
  /\ At("lapic_on") /\ Continue
  /\ UNCHANGED <<driver, isr, apic, irr, buffer, replies, codes, user, printed>>

LapicOn ==
  /\ At("lapic_on") /\ Continue /\ lapic' = TRUE
  /\ UNCHANGED <<driver, isr, sti, masked, routed, irr, buffer, replies, codes, user, printed>>

(* A command or a byte for the device; ENABLE_1_PORT has no answer, and    *)
(* the byte 0 that send_cmd writes to the data port is not a command the   *)
(* keyboard knows.                                                         *)
Reply(step) ==
  CASE step = "test_controller" -> <<"PASSED">>
    [] step = "test_port" -> <<"PORT_OK">>
    [] step = "set_data" -> <<"RESEND">>
    [] step = "command" -> <<>>

WritePort ==
  /\ \E step \in {"test_controller", "test_port", "set_data", "command"} :
       At(step) /\ replies' = replies \o Reply(step)
  /\ Continue
  /\ UNCHANGED <<driver, isr, apic, irr, buffer, codes, user, printed>>

(* _start reads the data port without a look at the status. *)
ReadPort ==
  /\ At("read") /\ Continue /\ full' = FALSE
  /\ UNCHANGED <<driver, isr, apic, irr, data, replies, codes, user, printed>>

-----------------------------------------------------------------------------
(* The controller puts a byte into its empty buffer. *)
Deliver ==
  /\ ~full /\ full' = TRUE
  /\ \/ replies # <<>> /\ data' = Head(replies) /\ replies' = Tail(replies) /\ UNCHANGED codes
     \/ codes # <<>> /\ data' = Head(codes) /\ codes' = Tail(codes) /\ UNCHANGED replies
  /\ irr' = (irr \/ (~masked /\ routed /\ lapic))
  /\ UNCHANGED <<driver, todo, isr, apic, user, printed>>

(* The interrupt gate: the handler runs to its end with IF clear. *)
Interrupt ==
  /\ irr /\ sti /\ lapic /\ isr = <<>>
  /\ irr' = FALSE /\ isr' = <<"read_key", "eoi">>
  /\ UNCHANGED <<driver, todo, apic, buffer, replies, codes, user, printed>>

(* keyboard_handler: read_key, and print unless it is the null character. *)
ReadKey ==
  /\ isr # <<>> /\ Head(isr) = "read_key" /\ isr' = Tail(isr)
  /\ full' = FALSE /\ SetModifiers(data)
  /\ printed' = IF KeyChar(data) # "NULL_CHAR" THEN Append(printed, KeyChar(data)) ELSE printed
  /\ UNCHANGED <<todo, apic, irr, data, replies, codes, user>>

(* A faulty handler that masks the pin while it runs: the edge of a byte    *)
(* that arrives meanwhile is lost.                                         *)
EoiDropsRequest ==
  /\ isr # <<>> /\ Head(isr) = "eoi" /\ isr' = Tail(isr) /\ irr' = FALSE
  /\ UNCHANGED <<driver, todo, apic, buffer, replies, codes, user, printed>>

WriteEoi ==
  /\ isr # <<>> /\ Head(isr) = "eoi" /\ isr' = Tail(isr)
  /\ UNCHANGED <<driver, todo, apic, irr, buffer, replies, codes, user, printed>>

-----------------------------------------------------------------------------
(* The user.  What a key means depends on the keys that are down now.      *)

(* _start is in its loop and the interrupts of its commands are over. *)
SetUpOver == todo = <<>> /\ replies = <<>> /\ ~full /\ ~irr /\ isr = <<>>

UserActs(code, chars) ==
  /\ keys < IF early THEN MaxEarlyKeys ELSE MaxKeys
  /\ early \/ keys > 0 \/ SetUpOver
  /\ keys' = keys + 1 /\ codes' = Append(codes, code) /\ typed' = typed \o chars
  /\ UNCHANGED <<driver, todo, isr, apic, irr, buffer, replies, printed, early>>

PressKey ==
  /\ \/ UserActs("letter", IF caps # (held # {}) THEN <<"Q">> ELSE <<"q">>)
     \/ UserActs("special", IF held # {} THEN <<"!">> ELSE <<"1">>)
     \/ UserActs("plain", <<"LF">>)
     \/ UserActs("release", <<>>)
  /\ UNCHANGED <<held, caps, two>>

PressCaps == UserActs("CAPSLOCK_IN", <<>>) /\ caps' = ~caps /\ UNCHANGED <<held, two>>

PressShift(side) ==
  /\ side \notin held /\ held' = held \cup {side} /\ two' = (two \/ held # {})
  /\ UserActs(IF side = "LEFT" THEN "LEFT_SHIFT_IN" ELSE "RIGHT_SHIFT_IN", <<"SHIFT_IN">>)
  /\ UNCHANGED caps

ReleaseShift(side) ==
  /\ side \in held /\ held' = held \ {side}
  /\ UserActs(IF side = "LEFT" THEN "LEFT_SHIFT_OUT" ELSE "RIGHT_SHIFT_OUT", <<"SHIFT_OUT">>)
  /\ UNCHANGED <<caps, two>>

(* The loop at the end of _start. *)
Idle == todo = <<>> /\ UNCHANGED vars

Main == Sti \/ LowerHalf \/ UpperHalf \/ LapicOff \/ LapicOn \/ WritePort \/ ReadPort
Handler == Interrupt \/ ReadKey \/ WriteEoi

Next ==
  \/ Main \/ Handler \/ Deliver
  \/ PressKey \/ PressCaps
  \/ \E side \in Sides : PressShift(side) \/ ReleaseShift(side)
  \/ Idle

(* The processor runs, and the controller sends what it has; the user need *)
(* not do anything.                                                        *)
Spec == Init /\ [][Next]_vars /\ WF_vars(Main) /\ WF_vars(Handler) /\ WF_vars(Deliver)

-----------------------------------------------------------------------------
(* The types of the variables; the processor takes no interrupt before     *)
(* sti, and at the end of _start nothing keeps IRQ 1 from it.              *)
TypeOK ==
  /\ {shift, capslock, sti, masked, routed, lapic, irr, full, caps, two, early} \subseteq BOOLEAN
  /\ Len(todo) <= Len(_start) /\ \A i \in DOMAIN todo : todo[i] = _start[Len(_start) - Len(todo) + i]
  /\ isr \in {<<>>, <<"eoi">>, <<"read_key", "eoi">>}
  /\ data \in KeyCodes \cup Answers
  /\ \A i \in DOMAIN codes : codes[i] \in KeyCodes
  /\ \A i \in DOMAIN replies : replies[i] \in Answers
  /\ held \subseteq Sides /\ keys \in Nat
  /\ (isr # <<>> => sti) /\ (todo = <<>> => sti /\ ~masked /\ routed /\ lapic)

(* If the keyboard is used only after _start has set it up and the         *)
(* interrupts of its commands have been handled, what the handler prints   *)
(* is what the user typed, in order, letters in the case that shift and    *)
(* caps lock gave them when the key went down, as long as not both shift   *)
(* keys are down at once: Keyboard keeps one flag for both.  The variables *)
(* keep their types, and _start leaves the way of IRQ 1 open.              *)
PrintsWhatIsTyped ==
  /\ TypeOK
  /\ ~early /\ ~two => Len(printed) <= Len(typed) /\ printed = SubSeq(typed, 1, Len(printed))

(* Used in this way, whatever shift keys are down, every character typed   *)
(* is followed by a character printed.                                     *)
EverythingPrinted ==
  \A n \in 1..MaxKeys : (~early /\ Len(typed) >= n) ~> (early \/ Len(printed) >= n)

(* The buffer never stays full, also when keys are used while the APICs    *)
(* are set up and edges of IRQ 1 are lost: _start reads the data port      *)
(* after that, and every later byte is an edge the local APIC accepts.     *)
BufferDrained == full ~> ~full
=============================================================================
