------------------------------ MODULE Console ------------------------------
(***************************************************************************)
(* The text console (console/console.cpp) on the double-buffered           *)
(* framebuffer (framebuffer/framebuffer.cpp), used by the main flow of the *)
(* kernel (kprintf, kpanic) and by the keyboard interrupt handler.         *)
(*                                                                         *)
(* A flow of control is the sequence of operations it has still to do on   *)
(* the cursor and the buffers; an operation is one step.  The handler runs *)
(* behind an interrupt gate: it may start between any two operations of    *)
(* the main flow and runs to its end.  A cell of the screen shows a glyph, *)
(* Blank when it is cleared; colours are left out.  set_pixel stores eight *)
(* bytes for a pixel of four, so what is drawn in a cell blackens the      *)
(* first column of pixels of the cell behind it: that one is cut.          *)
(***************************************************************************)
EXTENDS Integers, Sequences

CONSTANTS
  MAX_ROW, MAX_COL,     \* ConsoleDefault: 37 and 100 in the kernel
  U16,                  \* number of values of u16
  Texts,                \* strings the kernel prints, sequences of characters
  Keys,                 \* characters the keyboard delivers
  MaxPrints,            \* bound on the number of prints
  Overlap,              \* may a key arrive while the main flow prints?
  Flush                 \* does a scan line end where the rows of the console do?

ASSUME ConsoleAssumption ==
  /\ MAX_ROW \in Nat \ {0} /\ MAX_COL \in Nat /\ MAX_COL >= 3
  /\ U16 \in Nat /\ MAX_ROW < U16 - 1 /\ MAX_COL < U16
  /\ MaxPrints \in Nat /\ Overlap \in BOOLEAN /\ Flush \in BOOLEAN

VARIABLES
  row, col,       \* ConsoleCursor
  screen, cut,    \* the double buffer: the glyphs, the cells that are cut
  shown,          \* the framebuffer
  todo,           \* flow -> operations it has still to do
  interrupts,     \* has the kernel executed sti?
  prints,         \* number of prints so far
  pos, doc, top,  \* history: see MatchesTerminal
  onward,         \* history: no carriage return since the screen was filled
  stray, wrapped  \* history: a glyph was drawn outside; row went below 0

cursor == <<row, col>>
history == <<pos, doc, top, onward, wrapped>>
vars == <<row, col, screen, cut, shown, todo, interrupts, prints, history, stray>>

Blank == " "
Flows == {"main", "isr"}
Cells == (0..(MAX_ROW - 1)) \X (0..(MAX_COL - 1))
Empty == [r \in 0..(MAX_ROW - 1) |-> [c \in 0..(MAX_COL - 1) |-> Blank]]

-----------------------------------------------------------------------------
(* What the methods of Console do, as sequences of operations.             *)

Op(name) == [op |-> name]
Glyph(c) == [op |-> "glyph", chr |-> c]

_scroll_down == <<Op("shift"), Op("up"), Op("clear_line"), Op("draw")>>

PrintPrintable(c) == <<Op("check"), Glyph(c), Op("next")>>

(* A faulty backspace that leaves the cursor behind the blanked cell. *)
PrintCharOneBack(c) ==
  CASE c = "LF" -> <<Op("check"), Op("lf"), Op("cr")>>
    [] c = "HT" -> <<Op("check"), Op("next"), Op("next"), Op("next")>>
    [] c = "CR" -> <<Op("check"), Op("cr")>>
    [] c = "BS" -> <<Op("check"), Op("back")>> \o PrintPrintable(Blank)
    [] c = "ESC" -> <<Op("check")>>
    [] OTHER -> PrintPrintable(c)

_print_char(c) ==
  CASE c = "LF" -> <<Op("check"), Op("lf"), Op("cr")>>
    [] c = "HT" -> <<Op("check"), Op("next"), Op("next"), Op("next")>>
    [] c = "CR" -> <<Op("check"), Op("cr")>>
    [] c = "BS" -> <<Op("check"), Op("back")>> \o PrintPrintable(Blank) \o <<Op("back")>>
    [] c = "ESC" -> <<Op("check")>>
    [] OTHER -> PrintPrintable(c)

(* The loop over the characters that are left. *)
print(str) == <<[op |-> "print", str |-> str]>>

clear == <<Op("fill"), Op("home"), Op("draw")>>
__prepare_kpanic == <<Op("fill"), Op("home")>>

-----------------------------------------------------------------------------
(* The reference: an endless paper of MAX_COL columns; a position is a     *)
(* number, doc the characters at the positions that were written.          *)

Put(d, p, c) == [q \in DOMAIN d \cup {p} |-> IF q = p THEN c ELSE d[q]]

(* The width of a tab is the one _print_char gives it, three columns;      *)
(* ConsoleDefault::tab_spaces is 4, and nothing reads it.                  *)
TabWidth == Len(_print_char("HT")) - 1

Type(paper, c) ==
  CASE c = "LF" -> [paper EXCEPT !.pos = ((@ \div MAX_COL) + 1) * MAX_COL]
    [] c = "HT" -> [paper EXCEPT !.pos = @ + TabWidth]
    [] c = "CR" -> [paper EXCEPT !.pos = @ - (@ % MAX_COL)]
    [] c = "BS" -> [pos |-> paper.pos - 1, doc |-> Put(paper.doc, paper.pos - 1, Blank)]
    [] c = "ESC" -> paper
    [] OTHER -> [pos |-> paper.pos + 1, doc |-> Put(paper.doc, paper.pos, c)]

TypeOn(c) ==
  /\ pos' = Type([pos |-> pos, doc |-> doc], c).pos
  /\ doc' = Type([pos |-> pos, doc |-> doc], c).doc

NoDoc == [p \in {} |-> Blank]

-----------------------------------------------------------------------------
(* _start constructs the console and clears it. *)
Init ==
  /\ row = 0 /\ col = 0
  /\ screen = [r \in 0..(MAX_ROW - 1) |-> [c \in 0..(MAX_COL - 1) |-> "firmware"]]
  /\ shown = screen /\ cut = {}
  /\ todo = [f \in Flows |-> IF f = "main" THEN clear ELSE <<>>]
  /\ interrupts = FALSE /\ prints = 0
  /\ pos = 0 /\ doc = NoDoc /\ top = 0 /\ onward = FALSE
  /\ stray = FALSE /\ wrapped = FALSE

(* kprintf *)
Kprintf(str) ==
  /\ todo["main"] = <<>> /\ todo["isr"] = <<>> /\ prints < MaxPrints
  /\ todo' = [todo EXCEPT !["main"] = print(str)]
  /\ prints' = prints + 1
  /\ UNCHANGED <<cursor, screen, cut, shown, interrupts, history, stray>>

(* kpanic starts a new page. *)
Kpanic(str) ==
  /\ todo["main"] = <<>> /\ todo["isr"] = <<>> /\ prints < MaxPrints
  /\ todo' = [todo EXCEPT !["main"] = __prepare_kpanic \o print(str)]
  /\ pos' = 0 /\ doc' = NoDoc /\ top' = 0
  /\ prints' = prints + 1
  /\ UNCHANGED <<cursor, screen, cut, shown, interrupts, onward, stray, wrapped>>

EnableInterrupts ==
  /\ ~interrupts /\ todo["main"] = <<>> /\ interrupts' = TRUE
  /\ UNCHANGED <<cursor, screen, cut, shown, todo, prints, history, stray>>

(* keyboard_handler, for a key that has a character. *)
KeyboardInterrupt(c) ==
  /\ interrupts /\ todo["isr"] = <<>> /\ prints < MaxPrints
  /\ Overlap \/ todo["main"] = <<>>
  /\ todo' = [todo EXCEPT !["isr"] = print(<<c>>)]
  /\ prints' = prints + 1
  /\ UNCHANGED <<cursor, screen, cut, shown, interrupts, history, stray>>

-----------------------------------------------------------------------------
(* The operations.                                                         *)

Running == IF todo["isr"] # <<>> THEN "isr" ELSE "main"
At(name) == todo[Running] # <<>> /\ Head(todo[Running]).op = name
Continue(more) == todo' = [todo EXCEPT ![Running] = more \o Tail(@)]

(* print: a character, which goes on the paper, or the end of the string. *)
PrintNext ==
  /\ At("print") /\ Head(todo[Running]).str # <<>>
  /\ LET str == Head(todo[Running]).str
     IN  /\ Continue(_print_char(Head(str)) \o print(Tail(str)))
         /\ TypeOn(Head(str)) /\ onward' = (onward /\ Head(str) # "CR")
  /\ UNCHANGED <<cursor, screen, cut, shown, interrupts, prints, top, stray, wrapped>>

PrintDone ==
  /\ At("print") /\ Head(todo[Running]).str = <<>> /\ Continue(<<Op("draw")>>)
  /\ UNCHANGED <<cursor, screen, cut, shown, interrupts, prints, history, stray>>

(* A faulty check that never scrolls. *)
CheckNever ==
  /\ At("check") /\ Continue(<<>>)
  /\ UNCHANGED <<cursor, screen, cut, shown, interrupts, prints, history, stray>>

Check ==
  /\ At("check")
  /\ Continue(IF row = MAX_ROW THEN _scroll_down ELSE <<>>)
  /\ UNCHANGED <<cursor, screen, cut, shown, interrupts, prints, history, stray>>

(* memcpy of all rows but the first to the start; the last row stays. *)
Shift ==
  /\ At("shift") /\ Continue(<<>>)
  /\ screen' = [r \in DOMAIN screen |-> screen[IF r < MAX_ROW - 1 THEN r + 1 ELSE r]]
  /\ cut' = {x \in Cells : <<IF x[1] < MAX_ROW - 1 THEN x[1] + 1 ELSE x[1], x[2]>> \in cut}
  /\ top' = top + 1
  /\ UNCHANGED <<cursor, shown, interrupts, prints, pos, doc, onward, stray, wrapped>>

Up ==
  /\ At("up") /\ Continue(<<>>)
  /\ row' = (row - 1) % U16
  /\ UNCHANGED <<col, screen, cut, shown, interrupts, prints, history, stray>>

(* The cells that are cut by what is drawn in a cell: the one behind it    *)
(* or, from the end of a row, the first of the row (from the second pixel  *)
(* line on) and of the next (its first line).                              *)
CutBehind(r, c) ==
  {x \in Cells : \/ x = <<r, c + 1>>
                 \/ Flush /\ c = MAX_COL - 1 /\ x \in {<<r, 0>>, <<r + 1, 0>>}}

(* clear_line(max_row - 1) *)
ClearLine ==
  /\ At("clear_line") /\ Continue(<<>>)
  /\ screen' = [screen EXCEPT ![MAX_ROW - 1] = Empty[0]]
  /\ cut' = {x \in cut : x[1] # MAX_ROW - 1} \cup CutBehind(MAX_ROW - 1, MAX_COL - 1)
  /\ UNCHANGED <<cursor, shown, interrupts, prints, history, stray>>

Draw ==
  /\ At("draw") /\ Continue(<<>>)
  /\ shown' = screen
  /\ UNCHANGED <<cursor, screen, cut, interrupts, prints, history, stray>>

(* print_glyph; set_pixel checks no bounds. *)
PrintGlyph ==
  /\ At("glyph") /\ Continue(<<>>)
  /\ IF row < MAX_ROW /\ col < MAX_COL
     THEN /\ screen' = [screen EXCEPT ![row][col] = Head(todo[Running]).chr]
          /\ cut' = (cut \ {<<row, col>>}) \cup CutBehind(row, col)
          /\ stray' = stray
     ELSE screen' = screen /\ cut' = cut /\ stray' = TRUE
  /\ UNCHANGED <<cursor, shown, interrupts, prints, history>>

CursorNext ==
  /\ At("next") /\ Continue(<<>>)
  /\ IF col + 1 < MAX_COL
     THEN col' = col + 1 /\ row' = row
     ELSE col' = 0 /\ row' = (row + 1) % U16
  /\ UNCHANGED <<screen, cut, shown, interrupts, prints, history, stray>>

CursorBack ==
  /\ At("back") /\ Continue(<<>>)
  /\ IF col > 0
     THEN col' = col - 1 /\ UNCHANGED <<row, wrapped>>
     ELSE /\ col' = MAX_COL - 1 /\ row' = (row - 1) % U16
          /\ wrapped' = (wrapped \/ row = 0)
  /\ UNCHANGED <<screen, cut, shown, interrupts, prints, pos, doc, top, onward, stray>>

CursorLf ==
  /\ At("lf") /\ Continue(<<>>)
  /\ row' = (row + 1) % U16
  /\ UNCHANGED <<col, screen, cut, shown, interrupts, prints, history, stray>>

CursorCr ==
  /\ At("cr") /\ Continue(<<>>)
  /\ col' = 0
  /\ UNCHANGED <<row, screen, cut, shown, interrupts, prints, history, stray>>

(* set_all_pixels, one column of pixels after the other.  Where Flush, its *)
(* last store also ends four bytes behind the buffer, which nothing here   *)
(* shows.                                                                  *)
Fill ==
  /\ At("fill") /\ Continue(<<>>)
  /\ screen' = Empty /\ onward' = TRUE
  /\ cut' = UNION {CutBehind(r, MAX_COL - 1) : r \in 0..(MAX_ROW - 1)}
  /\ UNCHANGED <<cursor, shown, interrupts, prints, pos, doc, top, stray, wrapped>>

(* cursor.reset() or cursor.gotoxy(0, 0) *)
Home ==
  /\ At("home") /\ Continue(<<>>)
  /\ row' = 0 /\ col' = 0
  /\ UNCHANGED <<screen, cut, shown, interrupts, prints, history, stray>>

Operation == \/ PrintNext \/ PrintDone \/ Check \/ Shift \/ Up \/ ClearLine \/ Draw \/ PrintGlyph
             \/ CursorNext \/ CursorBack \/ CursorLf \/ CursorCr \/ Fill \/ Home

(* The endless loop at the end of _start. *)
Idle == Running = "main" /\ todo["main"] = <<>> /\ UNCHANGED vars

Next == \/ \E str \in Texts : Kprintf(str) \/ Kpanic(str)
        \/ EnableInterrupts
        \/ \E c \in Keys : KeyboardInterrupt(c)
        \/ Operation
        \/ Idle

Spec == Init /\ [][Next]_vars

-----------------------------------------------------------------------------
(* Properties.                                                             *)

Quiet == \A f \in Flows : todo[f] = <<>>

(* The cursor stays in its u16 fields, with the column inside a row. *)
TypeOK ==
  /\ row \in 0..(U16 - 1) /\ col \in 0..(MAX_COL - 1)
  /\ DOMAIN screen = 0..(MAX_ROW - 1) /\ DOMAIN shown = 0..(MAX_ROW - 1)
  /\ DOMAIN todo = Flows /\ cut \subseteq Cells
  /\ interrupts \in BOOLEAN /\ prints \in 0..MaxPrints
  /\ top \in Nat /\ onward \in BOOLEAN /\ stray \in BOOLEAN /\ wrapped \in BOOLEAN

(* Between prints the screen shows the last MAX_ROW rows of the paper, and *)
(* the cursor is at its position, whatever mix of wrapping, tabs, newlines *)
(* and backspaces led there (unless the cursor was moved back over the top *)
(* of the screen): rows scroll out exactly when they must and a row that   *)
(* scrolls in is empty.  What is shown is what was written to the double   *)
(* buffer: every public method draws.  And unless a carriage return took   *)
(* the cursor back over a row, what the wide stores of set_pixel cut is    *)
(* blank: a glyph loses pixels to a later one only in the first column,    *)
(* where the scan lines follow each other.                                 *)
MatchesTerminal ==
  /\ Quiet => shown = screen
  /\ Quiet /\ ~wrapped =>
    /\ (top + row) * MAX_COL + col = pos
    /\ \A r \in 0..(MAX_ROW - 1), c \in 0..(MAX_COL - 1) :
         LET p == (top + r) * MAX_COL + c
         IN  screen[r][c] = IF p \in DOMAIN doc THEN doc[p] ELSE Blank
    /\ onward => \A x \in cut : screen[x[1]][x[2]] = Blank \/ (Flush /\ x[2] = 0)

(* No glyph is drawn outside the screen as long as the keyboard handler    *)
(* does not interrupt a print and the cursor is not moved back over the    *)
(* top: the row is checked once per character, which moves it by one.  The *)
(* column stays inside a row whatever happens.                             *)
DrawsInside == TypeOK /\ (~wrapped /\ ~Overlap => ~stray)

(* README, "Basic read-only console (+ auto-scroll)": the console scrolls, *)
(* so the cursor is never below the row after the last one.                *)
AutoScrolls == ~wrapped => row <= MAX_ROW
=============================================================================
