---------------------------- MODULE ConsoleProofs ----------------------------
(***************************************************************************)
(* Proofs about Console, for every size of the screen, all texts and keys, *)
(* and any number of prints.                                               *)
(*                                                                         *)
(* The types need nothing else.  What the screen shows needs one invariant *)
(* per place in the code: which operations are left to the flow that runs, *)
(* where the cursor is on the paper, and which rows of the screen hold     *)
(* what is on the paper.  The paper is ahead of the screen from the moment *)
(* a character is read until its operations are done.                      *)
(***************************************************************************)
EXTENDS Console, TLAPS

(* A step that names no prover is left to Zenon. *)
USE ZenonT(30)

(* A value that is a sequence, of whatever elements. *)
IsSeq(s) == Len(s) \in Nat /\ s = [n \in 1..Len(s) |-> s[n]]

Rows == 0..(MAX_ROW - 1)
Cols == 0..(MAX_COL - 1)

(* A position on the paper, and the one of the cursor. *)
Place(a, c) == a * MAX_COL + c
Here == Place(top + row, col)

(* The first n rows of the screen hold what is on the paper d, which has   *)
(* nothing from row b on.                                                  *)
Holds(d, n) ==
  \A r \in 0..(n - 1), c \in Cols :
    screen[r][c] = IF Place(top + r, c) \in DOMAIN d THEN d[Place(top + r, c)] ELSE Blank
Above(d, b) == \A q \in DOMAIN d : q \in Int /\ q < Place(b, 0)
Picture(d) == Holds(d, MAX_ROW) /\ Above(d, top + MAX_ROW)
Scrolled(d) == Holds(d, MAX_ROW - 1) /\ Above(d, top + MAX_ROW - 1)

(* With c typed at h, the paper d becomes the one at hand. *)
Means(c, h, d) ==
  /\ pos = Type([pos |-> h, doc |-> d], c).pos
  /\ doc = Type([pos |-> h, doc |-> d], c).doc

(* The operations left to the flow that runs: those of x and the rest of   *)
(* its text, if it has not moved the cursor over the top with v.           *)
cur == todo[Running]
Solo == todo["main"] = <<>> \/ todo["isr"] = <<>>
Doing(x, str, v) == cur = x \o print(str) /\ (wrapped \/ v)

AtRest == pos = Here /\ Picture(doc) /\ row <= MAX_ROW
BlankPage == pos = 0 /\ doc = NoDoc /\ top = 0

(* Where a flow can be, by the operation that comes next. *)
AtPrint == \E str : Doing(<<>>, str, AtRest)

AtFill ==
  \/ cur = <<Op("fill"), Op("home"), Op("draw")>> /\ (wrapped \/ BlankPage)
  \/ \E str : Doing(<<Op("fill"), Op("home")>>, str, BlankPage)

AtHome ==
  \/ cur = <<Op("home"), Op("draw")>> /\ screen = Empty /\ (wrapped \/ BlankPage)
  \/ \E str : Doing(<<Op("home")>>, str, BlankPage /\ screen = Empty)

(* What is left of a character after the check. *)
After(c) == Tail(_print_char(c))
Rest(c, str) == After(c) \o print(str)

(* What is left after the check of a character or, once the cursor went    *)
(* over the top, of the blank that a backspace draws.                      *)
Remains(k, c, str) ==
  \/ k = Rest(c, str)
  \/ wrapped /\ k = <<Glyph(Blank), Op("next"), Op("back")>> \o print(str)

AtShift == \E c, str, k :
  /\ cur = <<Op("shift"), Op("up"), Op("clear_line"), Op("draw")>> \o k /\ Remains(k, c, str)
  /\ wrapped \/ (row = MAX_ROW /\ \E d : Means(c, Here, d) /\ Picture(d))

AtUp == \E c, str, k :
  /\ cur = <<Op("up"), Op("clear_line"), Op("draw")>> \o k /\ Remains(k, c, str)
  /\ wrapped \/ (row = MAX_ROW /\ \E d : Means(c, Place(top + row - 1, col), d) /\ Scrolled(d))

AtClearLine == \E c, str, k :
  /\ cur = <<Op("clear_line"), Op("draw")>> \o k /\ Remains(k, c, str)
  /\ wrapped \/ (row = MAX_ROW - 1 /\ \E d : Means(c, Here, d) /\ Scrolled(d))

AtDraw ==
  \/ cur = <<Op("draw")>> /\ (wrapped \/ AtRest)
  \/ \E c, str, k :
       /\ cur = <<Op("draw")>> \o k /\ Remains(k, c, str)
       /\ wrapped \/ (row = MAX_ROW - 1 /\ \E d : Means(c, Here, d) /\ Picture(d))

(* The blank that a backspace draws. *)
Blanks == row < MAX_ROW /\ pos = Here /\ \E d : doc = Put(d, Here, Blank) /\ Picture(d)

AtCheck ==
  \/ \E c, str :
       /\ cur = _print_char(c) \o print(str)
       /\ wrapped \/ (row <= MAX_ROW /\ \E d : Means(c, Here, d) /\ Picture(d))
  \/ \E str : Doing(<<Op("check"), Glyph(Blank), Op("next"), Op("back")>>, str, Blanks)

AtGlyph ==
  \/ \E c, str : Doing(<<Glyph(c), Op("next")>>, str,
       row < MAX_ROW /\ pos = Here + 1 /\ \E d : doc = Put(d, Here, c) /\ Picture(d))
  \/ \E str : Doing(<<Glyph(Blank), Op("next"), Op("back")>>, str, Blanks)

(* A tab that has entered the row below the screen has at most two columns *)
(* of it behind it.                                                        *)
Tab(k) ==
  /\ pos = Here + k /\ Picture(doc)
  /\ row < MAX_ROW \/ (row = MAX_ROW /\ col + k <= 2)

AtNext == \E str :
  \/ Doing(<<Op("next")>>, str, Tab(1))
  \/ Doing(<<Op("next"), Op("next")>>, str, Tab(2))
  \/ Doing(<<Op("next"), Op("next"), Op("next")>>, str, row < MAX_ROW /\ Tab(3))
  \/ Doing(<<Op("next"), Op("back")>>, str, row < MAX_ROW /\ pos = Here /\ Picture(doc))

AtBack == \E str :
  \/ Doing(<<Op("back")>>, str, row <= MAX_ROW /\ pos = Here - 1 /\ Picture(doc))
  \/ Doing(<<Op("back"), Op("check"), Glyph(Blank), Op("next"), Op("back")>>, str,
       row < MAX_ROW /\ pos = Here - 1 /\ \E d : doc = Put(d, Here - 1, Blank) /\ Picture(d))

AtLf == \E str : Doing(<<Op("lf"), Op("cr")>>, str,
  row < MAX_ROW /\ pos = Place(top + row + 1, 0) /\ Picture(doc))

AtCr == \E str : Doing(<<Op("cr")>>, str,
  row <= MAX_ROW /\ pos = Place(top + row, 0) /\ Picture(doc))

Calm == cur = <<>> /\ shown = screen /\ (wrapped \/ AtRest)

Somewhere ==
  \/ Calm \/ AtPrint \/ AtFill \/ AtHome \/ AtShift \/ AtUp \/ AtClearLine \/ AtDraw \/ AtCheck
  \/ AtGlyph \/ AtNext \/ AtBack \/ AtLf \/ AtCr

Grid == DOMAIN screen = Rows /\ \A r \in Rows : DOMAIN screen[r] = Cols

-----------------------------------------------------------------------------
(* Sequences.                                                              *)

LEMMA SeqOfSome ==
  ASSUME NEW s, IsSeq(s)
  PROVE  \E S : s \in Seq(S)
<1>1. DOMAIN s = 1..Len(s)
  BY DEF IsSeq
<1>2. s \in Seq({s[n] : n \in 1..Len(s)})
  BY <1>1, SMTT(30) DEF IsSeq
<1> QED
  BY <1>2

LEMMA IsSeqOf ==
  ASSUME NEW S, NEW s \in Seq(S)
  PROVE  IsSeq(s) /\ DOMAIN s = 1..Len(s)
  BY SMTT(30) DEF IsSeq

(* What Tail leaves. *)
LEMMA TailOf ==
  ASSUME NEW s, IsSeq(s), s # <<>>
  PROVE  /\ IsSeq(Tail(s)) /\ Len(s) \in Nat /\ Len(s) >= 1 /\ Head(s) = s[1]
         /\ Len(Tail(s)) = Len(s) - 1 /\ DOMAIN s = 1..Len(s)
         /\ DOMAIN Tail(s) = 1..(Len(s) - 1)
         /\ \A n \in 1..(Len(s) - 1) : Tail(s)[n] = s[n + 1]
<1>1. PICK S : s \in Seq(S)
  BY SeqOfSome
<1>2. Tail(s) \in Seq(S) /\ Len(s) \in Nat /\ Len(s) >= 1 /\ Len(Tail(s)) = Len(s) - 1
  BY <1>1, SMTT(30)
<1>3. IsSeq(Tail(s)) /\ DOMAIN s = 1..Len(s) /\ DOMAIN Tail(s) = 1..(Len(s) - 1)
  BY <1>1, <1>2, IsSeqOf
<1>4. Head(s) = s[1] /\ \A n \in 1..(Len(s) - 1) : Tail(s)[n] = s[n + 1]
  BY <1>1, <1>2, SMTT(30)
<1> QED
  BY <1>2, <1>3, <1>4

(* What a concatenation holds. *)
LEMMA CatOf ==
  ASSUME NEW s, NEW t, IsSeq(s), IsSeq(t)
  PROVE  /\ IsSeq(s \o t) /\ Len(s) \in Nat /\ Len(t) \in Nat
         /\ Len(s \o t) = Len(s) + Len(t)
         /\ DOMAIN (s \o t) = 1..(Len(s) + Len(t))
         /\ \A n \in 1..Len(s) : (s \o t)[n] = s[n]
         /\ \A n \in 1..Len(t) : (s \o t)[Len(s) + n] = t[n]
<1>1. PICK S : s \in Seq(S)
  BY SeqOfSome
<1>2. PICK T : t \in Seq(T)
  BY SeqOfSome
<1>3. s \in Seq(S \cup T) /\ t \in Seq(S \cup T)
  BY <1>1, <1>2, SMTT(30)
<1>4. s \o t \in Seq(S \cup T) /\ Len(s) \in Nat /\ Len(t) \in Nat /\ Len(s \o t) = Len(s) + Len(t)
  BY <1>3, SMTT(30)
<1>5. IsSeq(s \o t) /\ DOMAIN (s \o t) = 1..(Len(s) + Len(t))
  BY <1>4, IsSeqOf
<1>6. \A n \in 1..Len(s) : (s \o t)[n] = s[n]
  BY <1>3, <1>4, SMTT(30)
<1>7. \A n \in 1..Len(t) : (s \o t)[Len(s) + n] = t[n]
  BY <1>3, <1>4, SMTT(30)
<1> QED
  BY <1>4, <1>5, <1>6, <1>7

(* A concatenation with a name. *)
Joins(u, s, t) == u = s \o t

JoinedOf(u, s, t) ==
  /\ IsSeq(u) /\ Len(u) = Len(s) + Len(t) /\ Len(s) \in Nat /\ Len(t) \in Nat
  /\ \A n \in 1..Len(s) : u[n] = s[n]
  /\ \A n \in 1..Len(t) : u[Len(s) + n] = t[n]

LEMMA JoinOf ==
  ASSUME NEW s, NEW t, NEW u, IsSeq(s), IsSeq(t), Joins(u, s, t)
  PROVE  JoinedOf(u, s, t)
  BY CatOf, SMTT(30) DEF Joins, JoinedOf

(* The first of a concatenation, and what is left without it. *)
LEMMA HeadCat ==
  ASSUME NEW s, NEW t, IsSeq(s), s # <<>>, IsSeq(t)
  PROVE  s \o t # <<>> /\ Head(s \o t) = Head(s) /\ Tail(s \o t) = Tail(s) \o t
<1>1. PICK u : u = s \o t
  OBVIOUS
<1>2. /\ IsSeq(Tail(s)) /\ Len(s) \in Nat /\ Len(s) >= 1 /\ Head(s) = s[1] /\ Len(Tail(s)) = Len(s) - 1
      /\ \A n \in 1..(Len(s) - 1) : Tail(s)[n] = s[n + 1]
  BY TailOf
<1>3. PICK m \in Nat, n \in Nat : m = Len(s) /\ n = Len(t) /\ m >= 1
  BY <1>2 DEF IsSeq
<1>4. /\ IsSeq(u) /\ Len(u) = m + n
      /\ (\A k \in 1..m : u[k] = s[k]) /\ \A k \in 1..n : u[m + k] = t[k]
  BY <1>1, <1>3, CatOf, SMTT(30)
<1>5. u # <<>>
  <2>1. Len(u) # 0
    BY <1>3, <1>4, SMTT(30)
  <2> QED
    BY <2>1, SMTT(30)
<1>6. Head(u) = u[1] /\ 1 \in 1..m
  BY <1>3, <1>4, <1>5, TailOf, SMTT(30)
<1>7. PICK v, w : v = Tail(u) /\ w = Tail(s) \o t
  OBVIOUS
<1>8. IsSeq(v) /\ Len(v) = m + n - 1 /\ \A k \in 1..(m + n - 1) : v[k] = u[k + 1]
  BY <1>4, <1>5, <1>7, TailOf, SMTT(30)
<1>9. /\ IsSeq(w) /\ Len(w) = (m - 1) + n
      /\ (\A k \in 1..(m - 1) : w[k] = Tail(s)[k]) /\ \A k \in 1..n : w[(m - 1) + k] = t[k]
  BY <1>2, <1>3, <1>7, CatOf, SMTT(30)
<1>10. ASSUME NEW k \in 1..(m + n - 1) PROVE v[k] = w[k]
  <2>1. CASE k <= m - 1
    <3>1. k \in 1..(m - 1) /\ k + 1 \in 1..m
      BY <1>3, <2>1, SMTT(30)
    <3>2. v[k] = u[k + 1]
      BY <1>8
    <3>3. u[k + 1] = s[k + 1]
      BY <1>4, <3>1
    <3>4. w[k] = Tail(s)[k]
      BY <1>9, <3>1
    <3>5. Tail(s)[k] = s[k + 1]
      BY <1>2, <1>3, <3>1
    <3> QED
      BY <3>2, <3>3, <3>4, <3>5
  <2>2. CASE k > m - 1
    <3>1. k - (m - 1) \in 1..n /\ (m - 1) + (k - (m - 1)) = k /\ m + (k - (m - 1)) = k + 1
      BY <1>3, <2>2, SMTT(30)
    <3>2. v[k] = u[k + 1]
      BY <1>8
    <3>3. u[k + 1] = t[k - (m - 1)]
      BY <1>4, <3>1
    <3>4. w[k] = t[k - (m - 1)]
      BY <1>9, <3>1
    <3> QED
      BY <3>2, <3>3, <3>4
  <2> QED
    BY <1>3, <2>1, <2>2, SMTT(30)
<1>11. Len(v) = m + n - 1 /\ Len(w) = m + n - 1
  BY <1>3, <1>8, <1>9, SMTT(30)
<1>12. v = w
  BY <1>8, <1>9, <1>10, <1>11 DEF IsSeq
<1> QED
  BY <1>1, <1>2, <1>4, <1>5, <1>6, <1>7, <1>12

LEMMA NothingBefore == ASSUME NEW t, IsSeq(t) PROVE <<>> \o t = t
<1>1. PICK S : t \in Seq(S)
  BY SeqOfSome
<1> QED
  BY <1>1, SMTT(30)

(* A sequence with its first element and what comes after it. *)
Begins(s, a, t) == IsSeq(s) /\ s # <<>> /\ Head(s) = a /\ Tail(s) = t /\ IsSeq(t)

LEMMA Tuple0 == IsSeq(<<>>)
  BY SMTT(30) DEF IsSeq

LEMMA Tuple1 == ASSUME NEW a PROVE Begins(<<a>>, a, <<>>)
  BY SMTT(30) DEF Begins, IsSeq

LEMMA Tuple2 == ASSUME NEW a, NEW b PROVE Begins(<<a, b>>, a, <<b>>)
  BY SMTT(30) DEF Begins, IsSeq

LEMMA Tuple3 == ASSUME NEW a, NEW b, NEW c PROVE Begins(<<a, b, c>>, a, <<b, c>>)
<1>1. IsSeq(<<a, b, c>>) /\ IsSeq(<<b, c>>)
  BY SMTT(30) DEF IsSeq
<1>2. <<a, b, c>> # <<>> /\ Head(<<a, b, c>>) = a /\ Tail(<<a, b, c>>) = <<b, c>>
  BY SMTT(30)
<1> QED
  BY <1>1, <1>2 DEF Begins

LEMMA Tuple4 == ASSUME NEW a, NEW b, NEW c, NEW d PROVE Begins(<<a, b, c, d>>, a, <<b, c, d>>)
<1>1. IsSeq(<<a, b, c, d>>) /\ IsSeq(<<b, c, d>>)
  BY SMTT(30) DEF IsSeq
<1>2. <<a, b, c, d>> # <<>> /\ Head(<<a, b, c, d>>) = a /\ Tail(<<a, b, c, d>>) = <<b, c, d>>
  BY SMTT(30)
<1> QED
  BY <1>1, <1>2 DEF Begins

LEMMA Tuple5 ==
  ASSUME NEW a, NEW b, NEW c, NEW d, NEW e
  PROVE  Begins(<<a, b, c, d, e>>, a, <<b, c, d, e>>)
<1>1. IsSeq(<<a, b, c, d, e>>) /\ IsSeq(<<b, c, d, e>>)
  BY SMTT(30) DEF IsSeq
<1>2. <<a, b, c, d, e>> # <<>> /\ Head(<<a, b, c, d, e>>) = a /\ Tail(<<a, b, c, d, e>>) = <<b, c, d, e>>
  BY SMTT(30)
<1> QED
  BY <1>1, <1>2 DEF Begins

LEMMA Tuple6 ==
  ASSUME NEW a, NEW b, NEW c, NEW d, NEW e, NEW f
  PROVE  Begins(<<a, b, c, d, e, f>>, a, <<b, c, d, e, f>>)
<1>1. IsSeq(<<a, b, c, d, e, f>>) /\ IsSeq(<<b, c, d, e, f>>)
  BY SMTT(30) DEF IsSeq
<1>2. <<a, b, c, d, e, f>> # <<>> /\ Head(<<a, b, c, d, e, f>>) = a
  BY SMTT(30)
<1>3. Tail(<<a, b, c, d, e, f>>) = <<b, c, d, e, f>>
  BY SMTT(30)
<1> QED
  BY <1>1, <1>2, <1>3 DEF Begins

-----------------------------------------------------------------------------
(* The operations of a character.                                          *)

Others(c) == c \notin {"LF", "HT", "CR", "BS", "ESC"}

LEMMA CharIs ==
  /\ _print_char("LF") = <<Op("check"), Op("lf"), Op("cr")>>
  /\ _print_char("HT") = <<Op("check"), Op("next"), Op("next"), Op("next")>>
  /\ _print_char("CR") = <<Op("check"), Op("cr")>>
  /\ _print_char("ESC") = <<Op("check")>>
  /\ \A c : Others(c) => _print_char(c) = <<Op("check"), Glyph(c), Op("next")>>
<1>1. /\ _print_char("LF") = <<Op("check"), Op("lf"), Op("cr")>>
      /\ _print_char("HT") = <<Op("check"), Op("next"), Op("next"), Op("next")>>
  BY DEF _print_char
<1>2. /\ _print_char("CR") = <<Op("check"), Op("cr")>>
      /\ _print_char("ESC") = <<Op("check")>>
  BY DEF _print_char
<1>3. ASSUME NEW c, Others(c) PROVE _print_char(c) = <<Op("check"), Glyph(c), Op("next")>>
  <2>1. c # "LF" /\ c # "HT" /\ c # "CR" /\ c # "BS" /\ c # "ESC"
    BY <1>3 DEF Others
  <2> QED
    BY <2>1 DEF _print_char, PrintPrintable
<1> QED
  BY <1>1, <1>2, <1>3

LEMMA Joined ==
  ASSUME NEW a, NEW b, NEW c, NEW d, NEW e, NEW f
  PROVE  (<<a, b>> \o <<c, d, e>>) \o <<f>> = <<a, b, c, d, e, f>>
<1>1. PICK u : u = <<a, b>> \o <<c, d, e>>
  OBVIOUS
<1>2. /\ IsSeq(u) /\ Len(u) = 5 /\ u[1] = a /\ u[2] = b /\ u[3] = c /\ u[4] = d /\ u[5] = e
  <2>1. PICK s, t : s = <<a, b>> /\ t = <<c, d, e>>
    OBVIOUS
  <2>2. IsSeq(s) /\ IsSeq(t) /\ Len(s) = 2 /\ Len(t) = 3
    BY <2>1, Tuple2, Tuple3 DEF Begins
  <2>3. /\ IsSeq(u) /\ Len(u) = 2 + 3
        /\ (\A n \in 1..2 : u[n] = s[n]) /\ \A n \in 1..3 : u[2 + n] = t[n]
    BY <1>1, <2>1, <2>2, CatOf, SMTT(30)
  <2>4. u[1] = a /\ u[2] = b
    BY <2>1, <2>3, SMTT(30)
  <2>5. u[2 + 1] = c /\ u[2 + 2] = d /\ u[2 + 3] = e
    BY <2>1, <2>3, SMTT(30)
  <2> QED
    BY <2>3, <2>4, <2>5, SMTT(30)
<1>3. PICK v : v = u \o <<f>>
  OBVIOUS
<1>4. IsSeq(v) /\ Len(v) = 6 /\ (\A n \in 1..5 : v[n] = u[n]) /\ v[6] = f
  <2>1. PICK t : t = <<f>>
    OBVIOUS
  <2>2. IsSeq(t) /\ Len(t) = 1 /\ t[1] = f
    BY <2>1, Tuple1 DEF Begins
  <2>3. /\ IsSeq(v) /\ Len(v) = 5 + 1
        /\ (\A n \in 1..5 : v[n] = u[n]) /\ \A n \in 1..1 : v[5 + n] = t[n]
    <3>1. Joins(v, u, t)
      BY <1>3, <2>1 DEF Joins
    <3>2. JoinedOf(v, u, t)
      BY <1>2, <2>2, <3>1, JoinOf
    <3> QED
      BY <1>2, <2>2, <3>2 DEF JoinedOf
  <2>4. v[5 + 1] = f
    BY <2>2, <2>3, SMTT(30)
  <2> QED
    BY <2>3, <2>4, SMTT(30)
<1>5. v = [n \in 1..6 |-> v[n]]
  BY <1>4 DEF IsSeq
<1>6. v[1] = a /\ v[2] = b /\ v[3] = c /\ v[4] = d /\ v[5] = e /\ v[6] = f
  BY <1>2, <1>4, SMTT(30)
<1>7. <<a, b, c, d, e, f>> = [n \in 1..6 |-> <<a, b, c, d, e, f>>[n]]
  BY SMTT(30)
<1>8. \A n \in 1..6 : v[n] = <<a, b, c, d, e, f>>[n]
  BY <1>6, SMTT(30)
<1>9. v = <<a, b, c, d, e, f>>
  BY <1>5, <1>7, <1>8
<1> QED
  BY <1>1, <1>3, <1>9

LEMMA BackspaceIs ==
  _print_char("BS") = <<Op("check"), Op("back"), Op("check"), Glyph(Blank), Op("next"), Op("back")>>
<1>1. _print_char("BS") = (<<Op("check"), Op("back")>> \o <<Op("check"), Glyph(Blank), Op("next")>>)
                            \o <<Op("back")>>
  BY DEF _print_char, PrintPrintable
<1> QED
  BY <1>1, Joined, SMTT(30)

LEMMA AfterIs ==
  /\ Begins(_print_char("LF"), Op("check"), <<Op("lf"), Op("cr")>>)
  /\ Begins(_print_char("HT"), Op("check"), <<Op("next"), Op("next"), Op("next")>>)
  /\ Begins(_print_char("CR"), Op("check"), <<Op("cr")>>)
  /\ Begins(_print_char("ESC"), Op("check"), <<>>)
  /\ Begins(_print_char("BS"), Op("check"),
            <<Op("back"), Op("check"), Glyph(Blank), Op("next"), Op("back")>>)
  /\ \A c : Others(c) => Begins(_print_char(c), Op("check"), <<Glyph(c), Op("next")>>)
<1>1. /\ Begins(_print_char("LF"), Op("check"), <<Op("lf"), Op("cr")>>)
      /\ \A c : Others(c) => Begins(_print_char(c), Op("check"), <<Glyph(c), Op("next")>>)
  BY CharIs, Tuple3
<1>2. Begins(_print_char("HT"), Op("check"), <<Op("next"), Op("next"), Op("next")>>)
  BY CharIs, Tuple4
<1>3. Begins(_print_char("CR"), Op("check"), <<Op("cr")>>)
  BY CharIs, Tuple2
<1>4. Begins(_print_char("ESC"), Op("check"), <<>>)
  BY CharIs, Tuple1
<1>5. Begins(_print_char("BS"), Op("check"),
            <<Op("back"), Op("check"), Glyph(Blank), Op("next"), Op("back")>>)
  BY BackspaceIs, Tuple6
<1> QED
  BY <1>1, <1>2, <1>3, <1>4, <1>5

LEMMA CharSeq == ASSUME NEW c PROVE Begins(_print_char(c), Op("check"), After(c))
<1>1. CASE c \in {"LF", "HT", "CR", "BS", "ESC"}
  BY <1>1, AfterIs DEF Begins, After
<1>2. CASE Others(c)
  BY <1>2, AfterIs DEF Begins, After
<1> QED
  BY <1>1, <1>2 DEF Others

LEMMA RestSeq ==
  ASSUME NEW c, NEW str
  PROVE  IsSeq(print(str)) /\ IsSeq(Rest(c, str))
<1>1. IsSeq(print(str))
  BY Tuple1 DEF print, Begins
<1>2. IsSeq(After(c))
  BY CharSeq DEF Begins
<1> QED
  BY <1>1, <1>2, CatOf DEF Rest

LEMMA RemainsSeq ==
  ASSUME NEW k, NEW c, NEW str, Remains(k, c, str)
  PROVE  IsSeq(k)
<1>1. IsSeq(<<Glyph(Blank), Op("next"), Op("back")>> \o print(str))
  BY RestSeq, Tuple3, CatOf DEF Begins
<1> QED
  BY <1>1, RestSeq DEF Remains

-----------------------------------------------------------------------------
(* Places on the paper.                                                    *)

LEMMA Sizes ==
  /\ MAX_ROW \in Nat /\ MAX_ROW >= 1 /\ MAX_COL \in Nat /\ MAX_COL >= 3 /\ MAX_COL \in Nat \ {0}
  /\ U16 \in Nat /\ MAX_ROW < U16 - 1 /\ MAX_COL < U16
  BY ConsoleAssumption, SMTT(30)

LEMMA Times ==
  ASSUME NEW a \in Int, NEW b \in Int, NEW m \in Nat
  PROVE  /\ a * m \in Int /\ (a + 1) * m = a * m + m
         /\ a <= b => a * m <= b * m
  BY Z3

LEMMA PlaceInt ==
  ASSUME NEW a \in Int, NEW c \in Int
  PROVE  /\ Place(a, c) \in Int /\ Place(a, c + 1) = Place(a, c) + 1
         /\ Place(a + 1, c) = Place(a, c) + MAX_COL /\ Place(a, c) = Place(a, 0) + c
<1>1. PICK n \in Int : n = a * MAX_COL
  BY Sizes, Times
<1>2. (a + 1) * MAX_COL = n + MAX_COL
  BY <1>1, Sizes, Times
<1> QED
  BY <1>1, <1>2, Sizes, SMTT(30) DEF Place

(* A row of the paper is before the next. *)
LEMMA PlaceOrder ==
  ASSUME NEW a \in Int, NEW b \in Int, NEW c \in Cols, NEW e \in Cols
  PROVE  /\ a < b => Place(a, c) < Place(b, e)
         /\ a < b => Place(a, c) < Place(b, 0)
         /\ a >= b => Place(a, c) >= Place(b, 0)
<1>1. c \in Int /\ c >= 0 /\ c < MAX_COL /\ e \in Int /\ e >= 0
  BY Sizes, SMTT(30) DEF Cols
<1>2. PICK m \in Int, n \in Int, k \in Int : m = Place(a, 0) /\ n = Place(b, 0) /\ k = Place(a + 1, 0)
  <2>1. Place(a, 0) \in Int /\ Place(b, 0) \in Int /\ Place(a + 1, 0) \in Int
    BY PlaceInt, SMTT(30)
  <2> QED
    BY <2>1
<1>3. Place(a, c) = m + c /\ Place(b, e) = n + e /\ k = m + MAX_COL
  BY <1>1, <1>2, PlaceInt, SMTT(30)
<1>4. ASSUME NEW x \in Int, NEW y \in Int, x <= y PROVE Place(x, 0) <= Place(y, 0)
  <2>1. x * MAX_COL \in Int /\ y * MAX_COL \in Int /\ x * MAX_COL <= y * MAX_COL
    BY <1>4, Sizes, Times
  <2> QED
    BY <2>1, SMTT(30) DEF Place
<1>5. ASSUME a < b PROVE k <= n
  <2>1. a + 1 <= b /\ a + 1 \in Int
    BY <1>5, SMTT(30)
  <2> QED
    BY <1>2, <1>4, <2>1
<1>6. ASSUME a >= b PROVE m >= n
  BY <1>2, <1>4, <1>6
<1> QED
  BY <1>1, <1>2, <1>3, <1>5, <1>6, Sizes, SMTT(30)

LEMMA PlaceUnique ==
  ASSUME NEW a \in Int, NEW b \in Int, NEW c \in Cols, NEW e \in Cols, Place(a, c) = Place(b, e)
  PROVE  a = b /\ c = e
<1>1. ~(a < b) /\ ~(b < a)
  <2>1. Place(a, c) \in Int /\ Place(b, e) \in Int
    BY PlaceInt, SMTT(30) DEF Cols
  <2> QED
    BY <2>1, PlaceOrder, SMTT(30)
<1>2. a = b
  BY <1>1, SMTT(30)
<1>3. Place(a, c) = Place(a, 0) + c /\ Place(a, e) = Place(a, 0) + e /\ Place(a, 0) \in Int
  BY PlaceInt, SMTT(30) DEF Cols
<1>4. Place(a, 0) + c = Place(a, 0) + e
  BY <1>2, <1>3
<1> QED
  BY <1>2, <1>3, <1>4, SMTT(30) DEF Cols

LEMMA PlaceDivMod ==
  ASSUME NEW a \in Nat, NEW c \in Cols
  PROVE  Place(a, c) \div MAX_COL = a /\ Place(a, c) % MAX_COL = c
<1>1. Place(a, c) \in Nat
  <2>1. a * MAX_COL \in Nat
    BY Sizes, Z3
  <2> QED
    BY <2>1, SMTT(30) DEF Place, Cols
<1>2. ASSUME NEW n \in Nat, NEW m \in Nat \ {0}
      PROVE  n \div m \in Nat /\ n % m \in 0..(m - 1) /\ n = (n \div m) * m + (n % m)
  BY Z3
<1>3. PICK q \in Nat, r \in Cols : q = Place(a, c) \div MAX_COL /\ r = Place(a, c) % MAX_COL
                                 /\ Place(a, c) = q * MAX_COL + r
  BY <1>1, <1>2, Sizes DEF Cols
<1>4. Place(a, c) = Place(q, r)
  BY <1>3 DEF Place
<1>5. a = q /\ c = r
  BY <1>4, PlaceUnique, SMTT(30)
<1> QED
  BY <1>3, <1>5

-----------------------------------------------------------------------------
(* The flow that runs.                                                     *)

LEMMA CurNext ==
  ASSUME TypeOK, Solo, cur # <<>>, NEW more, Continue(more)
  PROVE  Solo' /\ cur' = more \o Tail(cur)
<1>1. DOMAIN todo = {"main", "isr"}
  BY DEF TypeOK, Flows
<1>2. CASE todo["isr"] # <<>>
  <2>1. todo["main"] = <<>> /\ Running = "isr"
    BY <1>2 DEF Solo, Running
  <2>2. todo'["isr"] = more \o Tail(todo["isr"]) /\ todo'["main"] = <<>>
    BY <1>1, <2>1 DEF Continue
  <2>3. Running' = IF todo'["isr"] # <<>> THEN "isr" ELSE "main"
    BY DEF Running
  <2>4. cur = todo["isr"] /\ cur' = todo'[Running']
    BY <2>1 DEF cur
  <2> QED
    BY <2>2, <2>3, <2>4 DEF Solo
<1>3. CASE todo["isr"] = <<>>
  <2>1. Running = "main"
    BY <1>3 DEF Running
  <2>2. todo'["main"] = more \o Tail(todo["main"]) /\ todo'["isr"] = <<>>
    BY <1>1, <1>3, <2>1 DEF Continue
  <2>3. Running' = "main"
    BY <2>2 DEF Running
  <2>4. cur = todo["main"] /\ cur' = todo'["main"]
    BY <2>1, <2>3 DEF cur
  <2> QED
    BY <2>2, <2>4 DEF Solo
<1> QED
  BY <1>2, <1>3

(* The first operation of x is the next one. *)
LEMMA Foremost ==
  ASSUME NEW x, NEW a, NEW y, NEW k, Begins(x, a, y), IsSeq(k), cur = x \o k
  PROVE  cur # <<>> /\ Head(cur) = a /\ Tail(cur) = y \o k /\ IsSeq(y \o k)
<1>1. IsSeq(x) /\ x # <<>> /\ Head(x) = a /\ Tail(x) = y /\ IsSeq(y)
  BY DEF Begins
<1>2. x \o k # <<>> /\ Head(x \o k) = Head(x) /\ Tail(x \o k) = Tail(x) \o k
  BY <1>1, HeadCat
<1> QED
  BY <1>1, <1>2, CatOf

LEMMA Advance ==
  ASSUME TypeOK, Solo, NEW x, NEW a, NEW y, NEW k, Begins(x, a, y), IsSeq(k), cur = x \o k,
         Continue(<<>>)
  PROVE  Solo' /\ cur' = y \o k
<1>1. cur # <<>> /\ Tail(cur) = y \o k /\ IsSeq(y \o k)
  BY Foremost
<1>2. Solo' /\ cur' = <<>> \o Tail(cur)
  BY <1>1, CurNext
<1> QED
  BY <1>1, <1>2, NothingBefore

(* The flow stays where it is with what is left to it. *)
LEMMA PrintHead ==
  ASSUME NEW str
  PROVE  IsSeq(print(str)) /\ Begins(print(str), [op |-> "print", str |-> str], <<>>)
  BY RestSeq, Tuple1 DEF print

(* Each place starts with its operation. *)
LEMMA Leads ==
  ASSUME NEW n, NEW x, NEW a, NEW y, NEW k, Begins(x, a, y), a.op = n, IsSeq(k), cur = x \o k
  PROVE  At(n)
  BY Foremost DEF At, cur

LEMMA LeadsAlone ==
  ASSUME NEW n, NEW a, NEW y, Begins(cur, a, y), a.op = n
  PROVE  At(n)
  BY DEF Begins, At, cur

LEMMA OpName ==
  /\ \A n : Op(n).op = n
  /\ \A c : Glyph(c).op = "glyph" /\ Glyph(c).chr = c
  BY DEF Op, Glyph

LEMMA HeadsOne ==
  /\ (AtPrint => At("print")) /\ (AtLf => At("lf")) /\ (AtCr => At("cr"))
  /\ (AtShift => At("shift")) /\ (AtUp => At("up")) /\ (AtClearLine => At("clear_line"))
<1>1. ASSUME AtPrint PROVE At("print")
  <2>1. PICK str : cur = <<>> \o print(str)
    BY <1>1 DEF AtPrint, Doing
  <2>2. Begins(cur, [op |-> "print", str |-> str], <<>>)
    BY <2>1, PrintHead, NothingBefore
  <2> QED
    BY <2>2, LeadsAlone
<1>2. ASSUME AtLf PROVE At("lf")
  <2>1. PICK str : cur = <<Op("lf"), Op("cr")>> \o print(str)
    BY <1>2 DEF AtLf, Doing
  <2> QED
    BY <2>1, Tuple2, PrintHead, OpName, Leads
<1>3. ASSUME AtCr PROVE At("cr")
  <2>1. PICK str : cur = <<Op("cr")>> \o print(str)
    BY <1>3 DEF AtCr, Doing
  <2> QED
    BY <2>1, Tuple1, PrintHead, OpName, Leads
<1>4. ASSUME AtShift PROVE At("shift")
  <2>1. PICK c, str, k : cur = <<Op("shift"), Op("up"), Op("clear_line"), Op("draw")>> \o k /\ Remains(k, c, str)
    BY <1>4 DEF AtShift
  <2> QED
    BY <2>1, Tuple4, RemainsSeq, OpName, Leads
<1>5. ASSUME AtUp PROVE At("up")
  <2>1. PICK c, str, k : cur = <<Op("up"), Op("clear_line"), Op("draw")>> \o k /\ Remains(k, c, str)
    BY <1>5 DEF AtUp
  <2> QED
    BY <2>1, Tuple3, RemainsSeq, OpName, Leads
<1>6. ASSUME AtClearLine PROVE At("clear_line")
  <2>1. PICK c, str, k : cur = <<Op("clear_line"), Op("draw")>> \o k /\ Remains(k, c, str)
    BY <1>6 DEF AtClearLine
  <2> QED
    BY <2>1, Tuple2, RemainsSeq, OpName, Leads
<1> QED
  BY <1>1, <1>2, <1>3, <1>4, <1>5, <1>6

LEMMA HeadsMore ==
  /\ (AtFill => At("fill")) /\ (AtHome => At("home")) /\ (AtDraw => At("draw"))
  /\ (AtCheck => At("check")) /\ (AtGlyph => At("glyph")) /\ (AtNext => At("next"))
  /\ (AtBack => At("back"))
<1>1. ASSUME AtFill PROVE At("fill")
  <2>1. CASE cur = <<Op("fill"), Op("home"), Op("draw")>>
    BY <2>1, Tuple3, OpName, LeadsAlone
  <2>2. ASSUME NEW str, cur = <<Op("fill"), Op("home")>> \o print(str) PROVE At("fill")
    BY <2>2, Tuple2, PrintHead, OpName, Leads
  <2> QED
    BY <1>1, <2>1, <2>2 DEF AtFill, Doing
<1>2. ASSUME AtHome PROVE At("home")
  <2>1. CASE cur = <<Op("home"), Op("draw")>>
    BY <2>1, Tuple2, OpName, LeadsAlone
  <2>2. ASSUME NEW str, cur = <<Op("home")>> \o print(str) PROVE At("home")
    BY <2>2, Tuple1, PrintHead, OpName, Leads
  <2> QED
    BY <1>2, <2>1, <2>2 DEF AtHome, Doing
<1>3. ASSUME AtDraw PROVE At("draw")
  <2>1. CASE cur = <<Op("draw")>>
    BY <2>1, Tuple1, OpName, LeadsAlone
  <2>2. ASSUME NEW c, NEW str, NEW k, cur = <<Op("draw")>> \o k, Remains(k, c, str) PROVE At("draw")
    BY <2>2, Tuple1, RemainsSeq, OpName, Leads
  <2> QED
    BY <1>3, <2>1, <2>2 DEF AtDraw
<1>4. ASSUME AtCheck PROVE At("check")
  <2>1. ASSUME NEW c, NEW str, cur = _print_char(c) \o print(str) PROVE At("check")
    BY <2>1, CharSeq, PrintHead, OpName, Leads
  <2>2. ASSUME NEW str, cur = <<Op("check"), Glyph(Blank), Op("next"), Op("back")>> \o print(str)
        PROVE  At("check")
    <3>1. Begins(<<Op("check"), Glyph(Blank), Op("next"), Op("back")>>, Op("check"),
                 <<Glyph(Blank), Op("next"), Op("back")>>)
      BY Tuple4
    <3> QED
      BY <2>2, <3>1, PrintHead, OpName, Leads
  <2> QED
    BY <1>4, <2>1, <2>2 DEF AtCheck, Doing
<1>5. ASSUME AtGlyph PROVE At("glyph")
  <2>1. ASSUME NEW c, NEW str, cur = <<Glyph(c), Op("next")>> \o print(str) PROVE At("glyph")
    <3>1. Begins(<<Glyph(c), Op("next")>>, Glyph(c), <<Op("next")>>)
      BY Tuple2
    <3> QED
      BY <2>1, <3>1, PrintHead, OpName, Leads
  <2>2. ASSUME NEW str, cur = <<Glyph(Blank), Op("next"), Op("back")>> \o print(str)
        PROVE  At("glyph")
    <3>1. Begins(<<Glyph(Blank), Op("next"), Op("back")>>, Glyph(Blank), <<Op("next"), Op("back")>>)
      BY Tuple3
    <3> QED
      BY <2>2, <3>1, PrintHead, OpName, Leads
  <2> QED
    BY <1>5, <2>1, <2>2 DEF AtGlyph, Doing
<1>6. ASSUME AtNext PROVE At("next")
  <2>1. PICK str, x, y : Begins(x, Op("next"), y) /\ cur = x \o print(str)
    BY <1>6, Tuple1, Tuple2, Tuple3 DEF AtNext, Doing
  <2> QED
    BY <2>1, PrintHead, OpName, Leads
<1>7. ASSUME AtBack PROVE At("back")
  <2>1. PICK str, x, y : Begins(x, Op("back"), y) /\ cur = x \o print(str)
    BY <1>7, Tuple1, Tuple5 DEF AtBack, Doing
  <2> QED
    BY <2>1, PrintHead, OpName, Leads
<1> QED
  BY <1>1, <1>2, <1>3, <1>4, <1>5, <1>6, <1>7

(* So the next operation says where the flow is. *)
LEMMA Where ==
  ASSUME Somewhere
  PROVE  /\ (At("print") => AtPrint) /\ (At("lf") => AtLf) /\ (At("cr") => AtCr)
         /\ (At("shift") => AtShift) /\ (At("up") => AtUp) /\ (At("clear_line") => AtClearLine)
         /\ (At("fill") => AtFill) /\ (At("home") => AtHome) /\ (At("draw") => AtDraw)
         /\ (At("check") => AtCheck) /\ (At("glyph") => AtGlyph) /\ (At("next") => AtNext)
         /\ (At("back") => AtBack)
<1>1. ASSUME NEW m, NEW n, At(m), At(n) PROVE m = n
  BY <1>1 DEF At
<1>2. ASSUME NEW n, At(n) PROVE ~Calm
  BY <1>2 DEF At, Calm, cur
<1> QED
  BY <1>1, <1>2, HeadsOne, HeadsMore DEF Somewhere

-----------------------------------------------------------------------------
(* The types, whatever interrupts whatever.                                *)

LEMMA Wraps ==
  ASSUME NEW n \in Int, NEW u \in Nat \ {0}
  PROVE  n % u \in 0..(u - 1) /\ (n >= 0 /\ n < u => n % u = n)
  BY Z3

LEMMA RowMoves ==
  ASSUME row \in 0..(U16 - 1)
  PROVE  /\ row \in Nat /\ (row + 1) % U16 \in 0..(U16 - 1) /\ (row - 1) % U16 \in 0..(U16 - 1)
         /\ row <= MAX_ROW => (row + 1) % U16 = row + 1
         /\ row > 0 => (row - 1) % U16 = row - 1
<1>1. row \in Nat /\ row < U16 /\ U16 \in Nat \ {0} /\ row - 1 \in Int /\ row + 1 \in Int
  BY Sizes, SMTT(30)
<1>2. (row + 1) % U16 \in 0..(U16 - 1) /\ (row - 1) % U16 \in 0..(U16 - 1)
  BY <1>1, Wraps
<1>3. ASSUME row <= MAX_ROW PROVE (row + 1) % U16 = row + 1
  <2>1. row + 1 >= 0 /\ row + 1 < U16
    BY <1>1, <1>3, Sizes, SMTT(30)
  <2> QED
    BY <1>1, <2>1, Wraps
<1>4. ASSUME row > 0 PROVE (row - 1) % U16 = row - 1
  <2>1. row - 1 >= 0 /\ row - 1 < U16
    BY <1>1, <1>4, Sizes, SMTT(30)
  <2> QED
    BY <1>1, <2>1, Wraps
<1> QED
  BY <1>1, <1>2, <1>3, <1>4

Sound == TypeOK /\ Grid
CursorOK == row \in 0..(U16 - 1) /\ col \in Cols
CountsOK == interrupts \in BOOLEAN /\ prints \in 0..MaxPrints /\ top \in Nat
MarksOK == onward \in BOOLEAN /\ stray \in BOOLEAN /\ wrapped \in BOOLEAN
CutOK == cut \subseteq Cells
ShownOK == DOMAIN shown = Rows
FlowsOK == DOMAIN todo = Flows

LEMMA SoundParts ==
  /\ Sound <=> CursorOK /\ CountsOK /\ MarksOK /\ ShownOK /\ FlowsOK /\ CutOK /\ Grid
  /\ Sound' <=> CursorOK' /\ CountsOK' /\ MarksOK' /\ ShownOK' /\ FlowsOK' /\ CutOK' /\ Grid'
  BY DEF Sound, TypeOK, CursorOK, CountsOK, MarksOK, ShownOK, FlowsOK, CutOK, Grid, Rows, Cols

LEMMA EmptyGrid == DOMAIN Empty = Rows /\ \A r \in Rows : DOMAIN Empty[r] = Cols
  BY DEF Empty, Rows, Cols

LEMMA ContinueFlows == ASSUME FlowsOK, NEW more, Continue(more) PROVE FlowsOK'
  BY DEF FlowsOK, Continue

(* What is cut is on the screen. *)
LEMMA CutBehindCells == ASSUME NEW r, NEW c PROVE CutBehind(r, c) \subseteq Cells
  BY DEF CutBehind

LEMMA SoundOperation ==
  ASSUME Sound, Operation
  PROVE  Sound'
<1> USE SoundParts
<1>1. CASE PrintNext
  <2>1. FlowsOK'
    BY <1>1, ContinueFlows DEF PrintNext
  <2>2. onward' \in BOOLEAN
    BY <1>1 DEF PrintNext
  <2> QED
    BY <1>1, <2>1, <2>2 DEF PrintNext, CursorOK, CountsOK, MarksOK, ShownOK, CutOK, Grid, cursor
<1>2. CASE PrintDone
  <2>1. FlowsOK'
    BY <1>2, ContinueFlows DEF PrintDone
  <2> QED
    BY <1>2, <2>1 DEF PrintDone, CursorOK, CountsOK, MarksOK, ShownOK, CutOK, Grid, cursor, history
<1>3. CASE Check
  <2>1. FlowsOK'
    BY <1>3, ContinueFlows DEF Check
  <2> QED
    BY <1>3, <2>1 DEF Check, CursorOK, CountsOK, MarksOK, ShownOK, CutOK, Grid, cursor, history
<1>4. CASE Shift
  <2>1. FlowsOK'
    BY <1>4, ContinueFlows DEF Shift
  <2>2. Grid'
    BY <1>4, Sizes, SMTT(30) DEF Shift, Grid, Rows
  <2>3. CutOK'
    BY <1>4 DEF Shift, CutOK
  <2>4. CountsOK'
    BY <1>4, SMTT(30) DEF Shift, CountsOK
  <2> QED
    BY <1>4, <2>1, <2>2, <2>3, <2>4 DEF Shift, CursorOK, MarksOK, ShownOK, cursor
<1>5. CASE Up
  <2>1. FlowsOK'
    BY <1>5, ContinueFlows DEF Up
  <2>2. CursorOK'
    BY <1>5, RowMoves DEF Up, CursorOK
  <2> QED
    BY <1>5, <2>1, <2>2 DEF Up, CountsOK, MarksOK, ShownOK, CutOK, Grid, history
<1>6. CASE ClearLine
  <2>1. FlowsOK'
    BY <1>6, ContinueFlows DEF ClearLine
  <2>2. Grid'
    BY <1>6, Sizes, EmptyGrid, SMTT(30) DEF ClearLine, Grid, Rows
  <2>3. CutOK'
    BY <1>6, CutBehindCells DEF ClearLine, CutOK
  <2> QED
    BY <1>6, <2>1, <2>2, <2>3 DEF ClearLine, CursorOK, CountsOK, MarksOK, ShownOK, cursor, history
<1>7. CASE Draw
  <2>1. FlowsOK'
    BY <1>7, ContinueFlows DEF Draw
  <2> QED
    BY <1>7, <2>1 DEF Draw, CursorOK, CountsOK, MarksOK, ShownOK, CutOK, Grid, cursor, history
<1>8. CASE PrintGlyph
  <2>1. FlowsOK'
    BY <1>8, ContinueFlows DEF PrintGlyph
  <2>2. Grid'
    BY <1>8 DEF PrintGlyph, Grid
  <2>3. stray' \in BOOLEAN
    BY <1>8 DEF PrintGlyph, MarksOK
  <2>4. CutOK'
    BY <1>8, CutBehindCells DEF PrintGlyph, CutOK
  <2> QED
    BY <1>8, <2>1, <2>2, <2>3, <2>4 DEF PrintGlyph, CursorOK, CountsOK, MarksOK, ShownOK, cursor, history
<1>9. CASE CursorNext
  <2>1. FlowsOK'
    BY <1>9, ContinueFlows DEF CursorNext
  <2>2. CursorOK'
    BY <1>9, RowMoves, Sizes, SMTT(30) DEF CursorNext, CursorOK, Cols
  <2> QED
    BY <1>9, <2>1, <2>2 DEF CursorNext, CountsOK, MarksOK, ShownOK, CutOK, Grid, history
<1>10. CASE CursorBack
  <2>1. FlowsOK'
    BY <1>10, ContinueFlows DEF CursorBack
  <2>2. CursorOK'
    BY <1>10, RowMoves, Sizes, SMTT(30) DEF CursorBack, CursorOK, Cols
  <2>3. wrapped' \in BOOLEAN
    BY <1>10 DEF CursorBack, MarksOK
  <2> QED
    BY <1>10, <2>1, <2>2, <2>3 DEF CursorBack, CountsOK, MarksOK, ShownOK, CutOK, Grid
<1>11. CASE CursorLf
  <2>1. FlowsOK'
    BY <1>11, ContinueFlows DEF CursorLf
  <2>2. CursorOK'
    BY <1>11, RowMoves DEF CursorLf, CursorOK
  <2> QED
    BY <1>11, <2>1, <2>2 DEF CursorLf, CountsOK, MarksOK, ShownOK, CutOK, Grid, history
<1>12. CASE CursorCr
  <2>1. FlowsOK'
    BY <1>12, ContinueFlows DEF CursorCr
  <2>2. CursorOK'
    BY <1>12, Sizes, SMTT(30) DEF CursorCr, CursorOK, Cols
  <2> QED
    BY <1>12, <2>1, <2>2 DEF CursorCr, CountsOK, MarksOK, ShownOK, CutOK, Grid, history
<1>13. CASE Fill
  <2>1. FlowsOK'
    BY <1>13, ContinueFlows DEF Fill
  <2>2. Grid'
    BY <1>13, EmptyGrid DEF Fill, Grid
  <2>3. CutOK'
    BY <1>13, CutBehindCells DEF Fill, CutOK
  <2> QED
    BY <1>13, <2>1, <2>2, <2>3 DEF Fill, CursorOK, CountsOK, MarksOK, ShownOK, cursor
<1>14. CASE Home
  <2>1. FlowsOK'
    BY <1>14, ContinueFlows DEF Home
  <2>2. CursorOK'
    BY <1>14, Sizes, SMTT(30) DEF Home, CursorOK, Cols
  <2> QED
    BY <1>14, <2>1, <2>2 DEF Home, CountsOK, MarksOK, ShownOK, CutOK, Grid, history
<1> QED
  BY <1>1, <1>2, <1>3, <1>4, <1>5, <1>6, <1>7, <1>8, <1>9, <1>10, <1>11, <1>12, <1>13, <1>14
     DEF Operation

LEMMA SoundStep ==
  ASSUME Sound, Next
  PROVE  Sound'
<1> USE SoundParts
<1>1. ASSUME NEW str \in Texts, Kprintf(str) PROVE Sound'
  <2>1. FlowsOK'
    BY <1>1 DEF Kprintf, FlowsOK
  <2>2. prints' \in 0..MaxPrints
    BY <1>1, ConsoleAssumption, SMTT(30) DEF Kprintf, CountsOK
  <2> QED
    BY <1>1, <2>1, <2>2 DEF Kprintf, CursorOK, CountsOK, MarksOK, ShownOK, CutOK, Grid, cursor, history
<1>2. ASSUME NEW str \in Texts, Kpanic(str) PROVE Sound'
  <2>1. FlowsOK'
    BY <1>2 DEF Kpanic, FlowsOK
  <2>2. prints' \in 0..MaxPrints
    BY <1>2, ConsoleAssumption, SMTT(30) DEF Kpanic, CountsOK
  <2> QED
    BY <1>2, <2>1, <2>2 DEF Kpanic, CursorOK, CountsOK, MarksOK, ShownOK, CutOK, Grid, cursor
<1>3. ASSUME NEW c \in Keys, KeyboardInterrupt(c) PROVE Sound'
  <2>1. FlowsOK'
    BY <1>3 DEF KeyboardInterrupt, FlowsOK
  <2>2. prints' \in 0..MaxPrints
    BY <1>3, ConsoleAssumption, SMTT(30) DEF KeyboardInterrupt, CountsOK
  <2> QED
    BY <1>3, <2>1, <2>2
       DEF KeyboardInterrupt, CursorOK, CountsOK, MarksOK, ShownOK, CutOK, Grid, cursor, history
<1>4. CASE EnableInterrupts
  BY <1>4 DEF EnableInterrupts, CursorOK, CountsOK, MarksOK, ShownOK, CutOK, FlowsOK, Grid, cursor, history
<1>5. CASE Idle
  BY <1>5 DEF Idle, vars, CursorOK, CountsOK, MarksOK, ShownOK, CutOK, FlowsOK, Grid, cursor, history
<1> QED
  BY <1>1, <1>2, <1>3, <1>4, <1>5, SoundOperation DEF Next

-----------------------------------------------------------------------------
(* Where a step leads, when no print is interrupted.                       *)

Placed == Solo /\ Somewhere /\ (wrapped \/ ~stray)

LEMMA NothingAfter == ASSUME NEW s, IsSeq(s) PROVE s \o <<>> = s
<1>1. PICK S : s \in Seq(S)
  BY SeqOfSome
<1> QED
  BY <1>1, SMTT(30)

(* What does not change with the screen and the cursor. *)
LEMMA Still ==
  ASSUME UNCHANGED <<screen, top>>, NEW d
  PROVE  /\ Picture(d) => Picture(d)' 
         /\ Scrolled(d) => Scrolled(d)'
  BY DEF Picture, Scrolled, Holds, Above

LEMMA StillHere ==
  ASSUME UNCHANGED <<cursor, top>>
  PROVE  Here' = Here /\ row' = row /\ col' = col
  BY DEF Here, cursor

LEMMA StillMeans ==
  ASSUME UNCHANGED <<pos, doc>>, NEW c, NEW h, NEW d, Means(c, h, d)
  PROVE  Means(c, h, d)'
  BY DEF Means

LEMMA PrintNextPlaced ==
  ASSUME Sound, Placed, PrintNext
  PROVE  Placed'
<1>1. AtPrint
  BY Where DEF Placed, PrintNext
<1>2. PICK str : cur = <<>> \o print(str) /\ (wrapped \/ AtRest)
  BY <1>1 DEF AtPrint, Doing
<1>3. cur = print(str) /\ cur # <<>> /\ Head(cur) = [op |-> "print", str |-> str] /\ Tail(cur) = <<>>
  BY <1>2, PrintHead, NothingBefore DEF Begins
<1>4. PICK c, rest : c = Head(str) /\ rest = Tail(str)
  OBVIOUS
<1>5. Head(todo[Running]).str = str
  BY <1>3, SMTT(30) DEF cur
<1>6. Continue(_print_char(c) \o print(rest)) /\ TypeOn(c)
  BY <1>4, <1>5 DEF PrintNext
<1>7. Solo' /\ cur' = (_print_char(c) \o print(rest)) \o <<>>
  BY <1>3, <1>6, CurNext DEF Placed, Sound
<1>8. IsSeq(_print_char(c) \o print(rest))
  BY CharSeq, PrintHead, CatOf DEF Begins
<1>9. cur' = _print_char(c) \o print(rest)
  BY <1>7, <1>8, NothingAfter
<1>10. UNCHANGED <<cursor, screen, top>> /\ UNCHANGED <<stray, wrapped>>
  BY DEF PrintNext
<1>11. PICK d, h : d = doc /\ h = Here
  OBVIOUS
<1>12. ASSUME AtRest PROVE row' <= MAX_ROW /\ Means(c, h, d)' /\ Picture(d)' /\ Here' = h
  <2>1. row' <= MAX_ROW /\ Here' = h /\ Picture(d)'
    BY <1>10, <1>11, <1>12, Still, StillHere DEF AtRest
  <2>2. Means(c, h, d)'
    BY <1>6, <1>11, <1>12 DEF AtRest, Means, TypeOn
  <2> QED
    BY <2>1, <2>2
<1>13. AtCheck'
  <2>1. wrapped' \/ (row' <= MAX_ROW /\ \E e : Means(c, Here, e)' /\ Picture(e)')
    BY <1>2, <1>10, <1>12 DEF Means
  <2> QED
    BY <1>9, <2>1 DEF AtCheck
<1> QED
  BY <1>7, <1>10, <1>13 DEF Placed, Somewhere

LEMMA TabIs == TabWidth = 3
<1>1. Len(_print_char("HT")) = 4
  BY CharIs, SMTT(30)
<1> QED
  BY <1>1, SMTT(30) DEF TabWidth

(* What a character does to the paper. *)
TypesTo(c, h, d, p, e) == Type([pos |-> h, doc |-> d], c) = [pos |-> p, doc |-> e]

LEMMA TypeIs ==
  ASSUME NEW h, NEW d
  PROVE  /\ TypesTo("LF", h, d, ((h \div MAX_COL) + 1) * MAX_COL, d)
         /\ TypesTo("HT", h, d, h + 3, d) /\ TypesTo("CR", h, d, h - (h % MAX_COL), d)
         /\ TypesTo("BS", h, d, h - 1, Put(d, h - 1, Blank)) /\ TypesTo("ESC", h, d, h, d)
         /\ \A c : Others(c) => TypesTo(c, h, d, h + 1, Put(d, h, c))
<1>1. TypesTo("LF", h, d, ((h \div MAX_COL) + 1) * MAX_COL, d)
  BY DEF Type, TypesTo
<1>2. TypesTo("HT", h, d, h + 3, d)
  BY TabIs DEF Type, TypesTo
<1>3. TypesTo("CR", h, d, h - (h % MAX_COL), d)
  BY DEF Type, TypesTo
<1>4. TypesTo("BS", h, d, h - 1, Put(d, h - 1, Blank))
  BY DEF Type, TypesTo
<1>5. TypesTo("ESC", h, d, h, d)
  BY DEF Type, TypesTo
<1>6. ASSUME NEW c, Others(c) PROVE TypesTo(c, h, d, h + 1, Put(d, h, c))
  <2>1. c # "LF" /\ c # "HT" /\ c # "CR" /\ c # "BS" /\ c # "ESC"
    BY <1>6 DEF Others
  <2> QED
    BY <2>1 DEF Type, TypesTo
<1> QED
  BY <1>1, <1>2, <1>3, <1>4, <1>5, <1>6

LEMMA MeansOf ==
  ASSUME NEW c, NEW h, NEW d, NEW p, NEW e, TypesTo(c, h, d, p, e), Means(c, h, d)'
  PROVE  pos' = p /\ doc' = e
  BY SMTT(30) DEF Means, TypesTo

(* The operations after a check that found room for the character. *)
Room(c, h, d) == row < MAX_ROW /\ Here = h /\ Means(c, h, d) /\ Picture(d)

LEMMA AfterCheck ==
  ASSUME Sound', NEW c, NEW str, cur' = Rest(c, str), wrapped' \/ \E h, d : Room(c, h, d)'
  PROVE  Somewhere'
<1>1. /\ top' + row' \in Nat /\ col' \in Cols
  BY SoundParts, SMTT(30) DEF CursorOK, CountsOK
<1>2. ASSUME NEW x, Begins(_print_char(c), Op("check"), x) PROVE cur' = x \o print(str)
  BY <1>2 DEF Begins, Rest, After
<1>3. CASE c = "LF"
  <2>1. cur' = <<Op("lf"), Op("cr")>> \o print(str)
    BY <1>2, <1>3, AfterIs
  <2>2. ASSUME NEW h, NEW d, Room(c, h, d)'
        PROVE  (row < MAX_ROW /\ pos = Place(top + row + 1, 0) /\ Picture(doc))'
    <3>1. pos' = ((h \div MAX_COL) + 1) * MAX_COL /\ doc' = d
      BY <1>3, <2>2, TypeIs, MeansOf DEF Room
    <3>2. h \div MAX_COL = top' + row'
      BY <1>1, <2>2, PlaceDivMod DEF Room, Here
    <3>3. pos' = Place(top' + row' + 1, 0)
      BY <1>1, <3>1, <3>2, Sizes, Times, SMTT(30) DEF Place
    <3> QED
      BY <2>2, <3>1, <3>3 DEF Room
  <2>3. AtLf'
    BY <2>1, <2>2 DEF AtLf, Doing
  <2> QED
    BY <2>3 DEF Somewhere
<1>4. CASE c = "HT"
  <2>1. cur' = <<Op("next"), Op("next"), Op("next")>> \o print(str)
    BY <1>2, <1>4, AfterIs
  <2>2. ASSUME NEW h, NEW d, Room(c, h, d)' PROVE (row < MAX_ROW /\ Tab(3))'
    <3>1. pos' = h + 3 /\ doc' = d
      BY <1>4, <2>2, TypeIs, MeansOf DEF Room
    <3> QED
      BY <2>2, <3>1 DEF Room, Tab
  <2>3. AtNext'
    BY <2>1, <2>2 DEF AtNext, Doing
  <2> QED
    BY <2>3 DEF Somewhere
<1>5. CASE c = "CR"
  <2>1. cur' = <<Op("cr")>> \o print(str)
    BY <1>2, <1>5, AfterIs
  <2>2. ASSUME NEW h, NEW d, Room(c, h, d)'
        PROVE  (row <= MAX_ROW /\ pos = Place(top + row, 0) /\ Picture(doc))'
    <3>1. pos' = h - (h % MAX_COL) /\ doc' = d
      BY <1>5, <2>2, TypeIs, MeansOf DEF Room
    <3>2. h = Place(top' + row', 0) + col' /\ Place(top' + row', 0) \in Int /\ h % MAX_COL = col'
      BY <1>1, <2>2, PlaceDivMod, PlaceInt, SMTT(30) DEF Room, Here, Cols
    <3>3. pos' = Place(top' + row', 0)
      BY <1>1, <3>1, <3>2, SMTT(30) DEF Cols
    <3>4. row' <= MAX_ROW
      BY <2>2, SoundParts, Sizes, SMTT(30) DEF Room, CursorOK
    <3> QED
      BY <2>2, <3>1, <3>3, <3>4 DEF Room
  <2>3. AtCr'
    BY <2>1, <2>2 DEF AtCr, Doing
  <2> QED
    BY <2>3 DEF Somewhere
<1>6. CASE c = "BS"
  <2>1. cur' = <<Op("back"), Op("check"), Glyph(Blank), Op("next"), Op("back")>> \o print(str)
    BY <1>2, <1>6, AfterIs
  <2>2. ASSUME NEW h, NEW d, Room(c, h, d)'
        PROVE  /\ (row < MAX_ROW /\ pos = Here - 1)'
               /\ doc' = Put(d, Here' - 1, Blank) /\ Picture(d)'
    <3>1. pos' = h - 1 /\ doc' = Put(d, h - 1, Blank)
      BY <1>6, <2>2, TypeIs, MeansOf DEF Room
    <3> QED
      BY <2>2, <3>1 DEF Room
  <2>3. AtBack'
    BY <2>1, <2>2 DEF AtBack, Doing
  <2> QED
    BY <2>3 DEF Somewhere
<1>7. CASE c = "ESC"
  <2>1. cur' = <<>> \o print(str)
    BY <1>2, <1>7, AfterIs
  <2>2. ASSUME NEW h, NEW d, Room(c, h, d)' PROVE AtRest'
    <3>1. pos' = h /\ doc' = d
      BY <1>7, <2>2, TypeIs, MeansOf DEF Room
    <3>2. row' <= MAX_ROW
      BY <2>2, SoundParts, Sizes, SMTT(30) DEF Room, CursorOK
    <3> QED
      BY <2>2, <3>1, <3>2 DEF Room, AtRest
  <2>3. AtPrint'
    BY <2>1, <2>2 DEF AtPrint, Doing
  <2> QED
    BY <2>3 DEF Somewhere
<1>8. CASE Others(c)
  <2>1. cur' = <<Glyph(c), Op("next")>> \o print(str)
    BY <1>2, <1>8, AfterIs
  <2>2. ASSUME NEW h, NEW d, Room(c, h, d)'
        PROVE  /\ (row < MAX_ROW /\ pos = Here + 1)'
               /\ doc' = Put(d, Here', c) /\ Picture(d)'
    <3>1. pos' = h + 1 /\ doc' = Put(d, h, c)
      BY <1>8, <2>2, TypeIs, MeansOf DEF Room
    <3> QED
      BY <2>2, <3>1 DEF Room
  <2>3. AtGlyph'
    BY <2>1, <2>2 DEF AtGlyph, Doing
  <2> QED
    BY <2>3 DEF Somewhere
<1> QED
  BY <1>3, <1>4, <1>5, <1>6, <1>7, <1>8 DEF Others

LEMMA AdvanceAlone ==
  ASSUME TypeOK, Solo, NEW a, NEW y, Begins(cur, a, y), Continue(<<>>)
  PROVE  Solo' /\ cur' = y
<1>1. cur # <<>> /\ Tail(cur) = y /\ IsSeq(y)
  BY DEF Begins
<1>2. Solo' /\ cur' = <<>> \o Tail(cur)
  BY <1>1, CurNext
<1> QED
  BY <1>1, <1>2, NothingBefore

LEMMA StillRest ==
  ASSUME UNCHANGED <<cursor, screen, top, pos, doc>>, AtRest
  PROVE  AtRest'
<1>1. PICK d : d = doc
  OBVIOUS
<1>2. Picture(d)' /\ Here' = Here /\ row' = row
  BY <1>1, Still, StillHere DEF AtRest
<1> QED
  BY <1>1, <1>2 DEF AtRest

LEMMA PrintDonePlaced ==
  ASSUME Sound, Placed, PrintDone
  PROVE  Placed'
<1>1. AtPrint
  BY Where DEF Placed, PrintDone
<1>2. PICK str : cur = <<>> \o print(str) /\ (wrapped \/ AtRest)
  BY <1>1 DEF AtPrint, Doing
<1>3. cur # <<>> /\ Tail(cur) = <<>>
  BY <1>2, PrintHead, NothingBefore DEF Begins
<1>4. Continue(<<Op("draw")>>) /\ UNCHANGED <<cursor, screen, top, pos, doc>> /\ UNCHANGED <<stray, wrapped>>
  BY DEF PrintDone, history
<1>5. Solo' /\ cur' = <<Op("draw")>> \o <<>>
  BY <1>3, <1>4, CurNext DEF Placed, Sound
<1>6. cur' = <<Op("draw")>>
  BY <1>5, Tuple1, NothingAfter DEF Begins
<1>7. wrapped' \/ AtRest'
  BY <1>2, <1>4, StillRest
<1>8. AtDraw'
  BY <1>6, <1>7 DEF AtDraw
<1> QED
  BY <1>4, <1>5, <1>8 DEF Placed, Somewhere

LEMMA CheckPlaced ==
  ASSUME Sound, Sound', Placed, Check
  PROVE  Placed'
<1>1. AtCheck
  BY Where DEF Placed, Check
<1>2. /\ Continue(IF row = MAX_ROW THEN _scroll_down ELSE <<>>)
      /\ UNCHANGED <<cursor, top>> /\ UNCHANGED <<screen, top>> /\ UNCHANGED <<pos, doc>>
      /\ UNCHANGED <<stray, wrapped>>
  BY DEF Check, history, cursor
<1>3. TypeOK /\ Solo
  BY DEF Sound, Placed
<1>4. ASSUME NEW c, NEW str, cur = _print_char(c) \o print(str),
             wrapped \/ (row <= MAX_ROW /\ \E d : Means(c, Here, d) /\ Picture(d))
      PROVE  Solo' /\ Somewhere'
  <2>1. cur # <<>> /\ Tail(cur) = Rest(c, str)
    BY <1>4, CharSeq, PrintHead, Foremost DEF Rest
  <2>2. CASE row = MAX_ROW
    <3>1. Solo' /\ cur' = _scroll_down \o Rest(c, str)
      BY <1>2, <1>3, <2>1, <2>2, CurNext
    <3>2. ASSUME NEW d, Means(c, Here, d), Picture(d) PROVE Means(c, Here, d)' /\ Picture(d)'
      <4>1. PICK h : h = Here
        OBVIOUS
      <4>2. Means(c, h, d)' /\ Here' = h
        BY <1>2, <3>2, <4>1, StillHere, StillMeans
      <4>3. Means(c, Here, d)'
        BY <4>2 DEF Means
      <4> QED
        BY <1>2, <3>2, <4>3, Still
    <3>3. wrapped' \/ (row' = MAX_ROW /\ \E d : Means(c, Here, d)' /\ Picture(d)')
      BY <1>2, <1>4, <2>2, <3>2 DEF cursor
    <3>4. Remains(Rest(c, str), c, str)'
      BY DEF Remains
    <3>5. AtShift'
      BY <3>1, <3>3, <3>4 DEF AtShift, _scroll_down
    <3> QED
      BY <3>1, <3>5 DEF Somewhere
  <2>3. CASE row # MAX_ROW
    <3>1. Continue(<<>>) /\ Begins(_print_char(c), Op("check"), After(c)) /\ IsSeq(print(str))
      BY <1>2, <2>3, CharSeq, PrintHead
    <3>2. Solo' /\ cur' = Rest(c, str)
      BY <1>3, <1>4, <3>1, Advance DEF Rest
    <3>3. ASSUME ~wrapped PROVE \E h, d : Room(c, h, d)'
      <4>1. PICK d : Means(c, Here, d) /\ Picture(d) /\ row <= MAX_ROW
        BY <1>4, <3>3
      <4>2. PICK h : h = Here
        OBVIOUS
      <4>3. Means(c, h, d)' /\ Here' = h /\ Picture(d)'
        BY <1>2, <4>1, <4>2, Still, StillHere, StillMeans
      <4>4. row' < MAX_ROW
        BY <1>2, <2>3, <4>1, Sizes, SoundParts, SMTT(30) DEF cursor, CursorOK
      <4> QED
        BY <4>3, <4>4 DEF Room
    <3>4. Somewhere'
      BY <1>2, <3>2, <3>3, AfterCheck
    <3> QED
      BY <3>2, <3>4
  <2> QED
    BY <2>2, <2>3
<1>5. ASSUME NEW str, cur = <<Op("check"), Glyph(Blank), Op("next"), Op("back")>> \o print(str),
             wrapped \/ Blanks
      PROVE  Solo' /\ Somewhere'
  <2>1. PICK k : k = <<Glyph(Blank), Op("next"), Op("back")>> \o print(str)
    OBVIOUS
  <2>2. Begins(<<Op("check"), Glyph(Blank), Op("next"), Op("back")>>, Op("check"),
               <<Glyph(Blank), Op("next"), Op("back")>>) /\ IsSeq(print(str))
    BY Tuple4, PrintHead
  <2>3. cur # <<>> /\ Tail(cur) = k
    BY <1>5, <2>1, <2>2, Foremost
  <2>4. CASE row = MAX_ROW
    <3>1. wrapped'
      BY <1>2, <1>5, <2>4, Sizes, SMTT(30) DEF Blanks
    <3>2. Solo' /\ cur' = _scroll_down \o k
      BY <1>2, <1>3, <2>3, <2>4, CurNext
    <3>3. ASSUME NEW c PROVE Remains(k, c, str)'
      BY <2>1, <3>1 DEF Remains
    <3>4. AtShift'
      BY <3>1, <3>2, <3>3 DEF AtShift, _scroll_down
    <3> QED
      BY <3>2, <3>4 DEF Somewhere
  <2>5. CASE row # MAX_ROW
    <3>1. Continue(<<>>)
      BY <1>2, <2>5
    <3>2. Solo' /\ cur' = <<Glyph(Blank), Op("next"), Op("back")>> \o print(str)
      BY <1>3, <1>5, <2>2, <3>1, Advance
    <3>3. ASSUME Blanks PROVE Blanks'
      <4>1. PICK d : doc = Put(d, Here, Blank) /\ Picture(d) /\ row < MAX_ROW /\ pos = Here
        BY <3>3 DEF Blanks
      <4>2. doc' = Put(d, Here', Blank) /\ Picture(d)' /\ row' < MAX_ROW /\ pos' = Here'
        BY <1>2, <4>1, Still, StillHere
      <4> QED
        BY <4>2 DEF Blanks
    <3>4. AtGlyph'
      BY <1>2, <1>5, <3>2, <3>3 DEF AtGlyph, Doing
    <3> QED
      BY <3>2, <3>4 DEF Somewhere
  <2> QED
    BY <2>4, <2>5
<1> QED
  BY <1>1, <1>2, <1>4, <1>5 DEF Placed, AtCheck, Doing

LEMMA ShiftPlaced ==
  ASSUME Sound, Placed, Shift
  PROVE  Placed'
<1>1. PICK c, str, k :
        /\ cur = <<Op("shift"), Op("up"), Op("clear_line"), Op("draw")>> \o k /\ Remains(k, c, str)
        /\ wrapped \/ (row = MAX_ROW /\ \E d : Means(c, Here, d) /\ Picture(d))
  BY Where DEF Placed, Shift, AtShift
<1>2. /\ Continue(<<>>) /\ top' = top + 1 /\ UNCHANGED <<row, col>> /\ UNCHANGED <<pos, doc>>
      /\ screen' = [r \in DOMAIN screen |-> screen[IF r < MAX_ROW - 1 THEN r + 1 ELSE r]]
      /\ stray' = stray /\ wrapped' = wrapped
  BY DEF Shift, cursor
<1>3. Solo' /\ cur' = <<Op("up"), Op("clear_line"), Op("draw")>> \o k
  BY <1>1, <1>2, Tuple4, RemainsSeq, Advance DEF Sound, Placed
<1>4. Remains(k, c, str)'
  BY <1>1, <1>2 DEF Remains
<1>5. top \in Nat /\ row \in Nat /\ col \in Cols /\ DOMAIN screen = Rows
  BY SoundParts, Sizes, SMTT(30) DEF CursorOK, CountsOK, Grid
<1>6. ASSUME NEW d, Picture(d) PROVE Scrolled(d)'
  <2>1. ASSUME NEW r \in 0..((MAX_ROW - 1) - 1), NEW e \in Cols
        PROVE  screen'[r][e] = IF Place(top' + r, e) \in DOMAIN d THEN d[Place(top' + r, e)] ELSE Blank
    <3>1. r \in Rows /\ r < MAX_ROW - 1 /\ r + 1 \in 0..(MAX_ROW - 1) /\ top' + r = top + (r + 1)
      BY <1>2, <1>5, Sizes, SMTT(30) DEF Rows
    <3>2. screen'[r] = screen[r + 1]
      BY <1>2, <1>5, <3>1
    <3> QED
      BY <1>6, <3>1, <3>2 DEF Picture, Holds
  <2>2. top' + MAX_ROW - 1 = top + MAX_ROW
    BY <1>2, <1>5, Sizes, SMTT(30)
  <2>3. Above(d, top' + MAX_ROW - 1)
    BY <1>6, <2>2 DEF Picture
  <2> QED
    BY <2>1, <2>3 DEF Scrolled, Holds, Above
<1>7. ASSUME NEW d, Means(c, Here, d) PROVE Means(c, Place(top + row - 1, col), d)'
  <2>1. PICK h : h = Here
    OBVIOUS
  <2>2. Means(c, h, d)'
    BY <1>2, <1>7, <2>1, StillMeans
  <2>3. Place(top' + row' - 1, col') = h
    <3>1. top' + row' - 1 = top + row
      BY <1>2, <1>5, SMTT(30)
    <3> QED
      BY <1>2, <2>1, <3>1 DEF Here
  <2> QED
    BY <2>2, <2>3 DEF Means
<1>8. wrapped' \/ (row' = MAX_ROW /\ \E d : Means(c, Place(top + row - 1, col), d)' /\ Scrolled(d)')
  BY <1>1, <1>2, <1>6, <1>7
<1>9. AtUp'
  BY <1>3, <1>4, <1>8 DEF AtUp
<1> QED
  BY <1>2, <1>3, <1>9 DEF Placed, Somewhere

LEMMA UpPlaced ==
  ASSUME Sound, Placed, Up
  PROVE  Placed'
<1>1. PICK c, str, k :
        /\ cur = <<Op("up"), Op("clear_line"), Op("draw")>> \o k /\ Remains(k, c, str)
        /\ wrapped \/ (row = MAX_ROW /\ \E d : Means(c, Place(top + row - 1, col), d) /\ Scrolled(d))
  BY Where DEF Placed, Up, AtUp
<1>2. /\ Continue(<<>>) /\ row' = (row - 1) % U16 /\ col' = col /\ UNCHANGED <<pos, doc>>
      /\ UNCHANGED <<screen, top>> /\ stray' = stray /\ wrapped' = wrapped
  BY DEF Up, history
<1>3. Solo' /\ cur' = <<Op("clear_line"), Op("draw")>> \o k
  BY <1>1, <1>2, Tuple3, RemainsSeq, Advance DEF Sound, Placed
<1>4. Remains(k, c, str)'
  BY <1>1, <1>2 DEF Remains
<1>5. top \in Nat /\ row \in 0..(U16 - 1)
  BY SoundParts DEF CursorOK, CountsOK
<1>6. ASSUME row = MAX_ROW PROVE row' = MAX_ROW - 1 /\ top' + row' = top + row - 1
  BY <1>2, <1>5, <1>6, RowMoves, Sizes, SMTT(30)
<1>7. ASSUME NEW d, row = MAX_ROW, Means(c, Place(top + row - 1, col), d), Scrolled(d)
      PROVE  Means(c, Here, d)' /\ Scrolled(d)'
  <2>1. PICK h : h = Place(top + row - 1, col)
    OBVIOUS
  <2>2. Means(c, h, d)' /\ Here' = h
    BY <1>2, <1>6, <1>7, <2>1, StillMeans DEF Here
  <2>3. Means(c, Here, d)'
    BY <2>2 DEF Means
  <2> QED
    BY <1>2, <1>7, <2>3, Still
<1>8. wrapped' \/ (row' = MAX_ROW - 1 /\ \E d : Means(c, Here, d)' /\ Scrolled(d)')
  BY <1>1, <1>2, <1>6, <1>7
<1>9. AtClearLine'
  BY <1>3, <1>4, <1>8 DEF AtClearLine
<1> QED
  BY <1>2, <1>3, <1>9 DEF Placed, Somewhere

LEMMA ClearLinePlaced ==
  ASSUME Sound, Placed, ClearLine
  PROVE  Placed'
<1>1. PICK c, str, k :
        /\ cur = <<Op("clear_line"), Op("draw")>> \o k /\ Remains(k, c, str)
        /\ wrapped \/ (row = MAX_ROW - 1 /\ \E d : Means(c, Here, d) /\ Scrolled(d))
  BY Where DEF Placed, ClearLine, AtClearLine
<1>2. /\ Continue(<<>>) /\ screen' = [screen EXCEPT ![MAX_ROW - 1] = Empty[0]]
      /\ UNCHANGED <<cursor, top>> /\ UNCHANGED <<pos, doc>> /\ stray' = stray /\ wrapped' = wrapped
  BY DEF ClearLine, history
<1>3. Solo' /\ cur' = <<Op("draw")>> \o k
  BY <1>1, <1>2, Tuple2, RemainsSeq, Advance DEF Sound, Placed
<1>4. Remains(k, c, str)'
  BY <1>1, <1>2 DEF Remains
<1>5. top \in Nat /\ DOMAIN screen = Rows /\ \A e \in Cols : Empty[0][e] = Blank
  BY SoundParts, Sizes, SMTT(30) DEF CountsOK, Grid, Empty, Cols
<1>6. ASSUME NEW d, Scrolled(d) PROVE Picture(d)'
  <2>1. PICK b \in Int : b = top + MAX_ROW - 1
    BY <1>5, Sizes, SMTT(30)
  <2>2. Above(d, b) /\ b + 1 = top + MAX_ROW /\ top' = top
    BY <1>2, <1>5, <1>6, <2>1, Sizes, SMTT(30) DEF Scrolled
  <2>3. Above(d, b + 1)
    <3>1. Place(b, 0) < Place(b + 1, 0) /\ Place(b, 0) \in Int /\ Place(b + 1, 0) \in Int
      BY PlaceInt, Sizes, SMTT(30)
    <3> QED
      BY <2>2, <3>1, SMTT(30) DEF Above
  <2>4. ASSUME NEW r \in 0..(MAX_ROW - 1), NEW e \in Cols
        PROVE  screen'[r][e] = IF Place(top + r, e) \in DOMAIN d THEN d[Place(top + r, e)] ELSE Blank
    <3>1. CASE r < MAX_ROW - 1
      <4>1. r \in 0..((MAX_ROW - 1) - 1) /\ screen'[r] = screen[r]
        BY <1>2, <1>5, <3>1, Sizes, SMTT(30) DEF Rows
      <4> QED
        BY <1>6, <4>1 DEF Scrolled, Holds
    <3>2. CASE r = MAX_ROW - 1
      <4>1. screen'[r][e] = Blank
        BY <1>2, <1>5, <3>2 DEF Rows
      <4>2. top + r = b /\ Place(b, e) >= Place(b, 0) /\ Place(b, e) \in Int /\ Place(b, 0) \in Int
        BY <1>5, <2>1, <3>2, Sizes, PlaceInt, SMTT(30) DEF Cols
      <4>3. Place(top + r, e) \notin DOMAIN d
        BY <2>2, <4>2, SMTT(30) DEF Above
      <4> QED
        BY <4>1, <4>3
    <3> QED
      BY <3>1, <3>2, Sizes, SMTT(30)
  <2> QED
    BY <2>2, <2>3, <2>4 DEF Picture, Holds, Above
<1>7. ASSUME NEW d, Means(c, Here, d) PROVE Means(c, Here, d)'
  <2>1. PICK h : h = Here
    OBVIOUS
  <2>2. Means(c, h, d)' /\ Here' = h
    BY <1>2, <1>7, <2>1, StillMeans, StillHere
  <2> QED
    BY <2>2 DEF Means
<1>8. wrapped' \/ (row' = MAX_ROW - 1 /\ \E d : Means(c, Here, d)' /\ Picture(d)')
  BY <1>1, <1>2, <1>6, <1>7 DEF cursor
<1>9. AtDraw'
  BY <1>3, <1>4, <1>8 DEF AtDraw
<1> QED
  BY <1>2, <1>3, <1>9 DEF Placed, Somewhere

LEMMA DrawPlaced ==
  ASSUME Sound, Sound', Placed, Draw
  PROVE  Placed'
<1>1. AtDraw
  BY Where DEF Placed, Draw
<1>2. /\ Continue(<<>>) /\ shown' = screen /\ UNCHANGED <<cursor, top>> /\ UNCHANGED <<screen, top>>
      /\ UNCHANGED <<pos, doc>> /\ stray' = stray /\ wrapped' = wrapped
  BY DEF Draw, history
<1>3. TypeOK /\ Solo
  BY DEF Sound, Placed
<1>4. ASSUME cur = <<Op("draw")>>, wrapped \/ AtRest PROVE Solo' /\ Somewhere'
  <2>1. Solo' /\ cur' = <<>>
    BY <1>2, <1>3, <1>4, Tuple1, AdvanceAlone
  <2>2. wrapped' \/ AtRest'
    BY <1>2, <1>4, StillRest
  <2>3. Calm'
    BY <1>2, <2>1, <2>2 DEF Calm
  <2> QED
    BY <2>1, <2>3 DEF Somewhere
<1>5. ASSUME NEW c, NEW str, NEW k, cur = <<Op("draw")>> \o k, Remains(k, c, str),
             wrapped \/ (row = MAX_ROW - 1 /\ \E d : Means(c, Here, d) /\ Picture(d))
      PROVE  Solo' /\ Somewhere'
  <2>1. Begins(<<Op("draw")>>, Op("draw"), <<>>) /\ IsSeq(k)
    BY <1>5, Tuple1, RemainsSeq
  <2>2. Solo' /\ cur' = k
    BY <1>2, <1>3, <1>5, <2>1, Advance, NothingBefore
  <2>3. CASE k = Rest(c, str)
    <3>1. ASSUME ~wrapped PROVE \E h, d : Room(c, h, d)'
      <4>1. PICK d : Means(c, Here, d) /\ Picture(d) /\ row = MAX_ROW - 1
        BY <1>5, <3>1
      <4>2. PICK h : h = Here
        OBVIOUS
      <4>3. Means(c, h, d)' /\ Here' = h /\ Picture(d)' /\ row' = row
        BY <1>2, <4>1, <4>2, Still, StillHere, StillMeans
      <4>4. row' < MAX_ROW
        BY <4>1, <4>3, Sizes, SMTT(30)
      <4> QED
        BY <4>3, <4>4 DEF Room
    <3>2. Somewhere'
      BY <1>2, <2>2, <2>3, <3>1, AfterCheck
    <3> QED
      BY <2>2, <3>2
  <2>4. CASE wrapped /\ k = <<Glyph(Blank), Op("next"), Op("back")>> \o print(str)
    <3>1. AtGlyph'
      BY <1>2, <2>2, <2>4 DEF AtGlyph, Doing
    <3> QED
      BY <2>2, <3>1 DEF Somewhere
  <2> QED
    BY <1>5, <2>3, <2>4 DEF Remains
<1> QED
  BY <1>1, <1>2, <1>4, <1>5 DEF Placed, AtDraw

(* A glyph goes to the cell that the cursor is at, and to no other. *)
LEMMA Drawn ==
  ASSUME Sound, row < MAX_ROW, NEW c, NEW d, Picture(d), NEW e, e = Put(d, Here, c), top' = top,
         screen' = [screen EXCEPT ![row][col] = c]
  PROVE  Picture(e)'
<1>1. top \in Nat /\ row \in Rows /\ col \in Cols /\ Grid
  BY SoundParts, Sizes, SMTT(30) DEF CursorOK, CountsOK, Rows
<1>2. PICK h \in Int : h = Here
  BY <1>1, PlaceInt, SMTT(30) DEF Here, Rows, Cols
<1>3. /\ DOMAIN e = DOMAIN d \cup {h} /\ e[h] = c /\ \A q \in DOMAIN d : q # h => e[q] = d[q]
  BY <1>2 DEF Put
<1>4. ASSUME NEW r \in 0..(MAX_ROW - 1), NEW f \in Cols
      PROVE  screen'[r][f] = IF Place(top + r, f) \in DOMAIN e THEN e[Place(top + r, f)] ELSE Blank
  <2>1. screen[r][f] = IF Place(top + r, f) \in DOMAIN d THEN d[Place(top + r, f)] ELSE Blank
    BY DEF Picture, Holds
  <2>2. CASE r = row /\ f = col
    <3>1. screen'[r][f] = c
      BY <1>1, <2>2 DEF Grid, Rows
    <3>2. Place(top + r, f) = h
      BY <1>2, <2>2 DEF Here
    <3> QED
      BY <1>3, <3>1, <3>2
  <2>3. CASE ~(r = row /\ f = col)
    <3>1. screen'[r][f] = screen[r][f]
      BY <1>1, <2>3 DEF Grid, Rows
    <3>2. Place(top + r, f) # h
      <4>1. top + r \in Int /\ top + row \in Int /\ (top + r = top + row => r = row)
        BY <1>1, SMTT(30) DEF Rows
      <4> QED
        BY <1>1, <1>2, <2>3, <4>1, PlaceUnique, SMTT(30) DEF Here
    <3> QED
      BY <1>3, <2>1, <3>1, <3>2
  <2> QED
    BY <2>2, <2>3
<1>5. Above(e, top + MAX_ROW)
  <2>1. h < Place(top + MAX_ROW, 0)
    <3>1. top + row \in Int /\ top + MAX_ROW \in Int /\ top + row < top + MAX_ROW
      BY <1>1, Sizes, SMTT(30) DEF Rows
    <3> QED
      BY <1>1, <1>2, <3>1, PlaceOrder DEF Here
  <2> QED
    BY <1>3, <2>1 DEF Picture, Above
<1> QED
  BY <1>4, <1>5, SMTT(30) DEF Picture, Holds, Above

LEMMA PrintGlyphPlaced ==
  ASSUME Sound, Placed, PrintGlyph
  PROVE  Placed'
<1>1. AtGlyph
  BY Where DEF Placed, PrintGlyph
<1>2. /\ Continue(<<>>) /\ UNCHANGED <<cursor, top>> /\ UNCHANGED <<pos, doc>> /\ wrapped' = wrapped
      /\ row < MAX_ROW => /\ screen' = [screen EXCEPT ![row][col] = Head(cur).chr]
                          /\ stray' = stray
  <2>1. col < MAX_COL
    BY SoundParts, Sizes, SMTT(30) DEF CursorOK, Cols
  <2>2. /\ Continue(<<>>) /\ UNCHANGED <<cursor, top>> /\ UNCHANGED <<pos, doc>> /\ wrapped' = wrapped
    BY DEF PrintGlyph, history
  <2>3. row < MAX_ROW /\ col < MAX_COL => /\ screen' = [screen EXCEPT ![row][col] = Head(todo[Running]).chr]
                                         /\ stray' = stray
    BY DEF PrintGlyph
  <2> QED
    BY <2>1, <2>2, <2>3 DEF cur
<1>3. TypeOK /\ Solo /\ (wrapped \/ ~stray)
  BY DEF Sound, Placed
<1>4. ASSUME NEW c, NEW d, row < MAX_ROW, Head(cur).chr = c, Picture(d), doc = Put(d, Here, c)
      PROVE  Picture(doc)'
  <2>1. PICK e : e = doc
    OBVIOUS
  <2>2. Picture(e)'
    BY <1>2, <1>4, <2>1, Drawn
  <2> QED
    BY <1>2, <2>1, <2>2
<1>5. ASSUME NEW c, NEW str, cur = <<Glyph(c), Op("next")>> \o print(str),
        wrapped \/ (row < MAX_ROW /\ pos = Here + 1 /\ \E d : doc = Put(d, Here, c) /\ Picture(d))
      PROVE  Placed'
  <2>1. Begins(<<Glyph(c), Op("next")>>, Glyph(c), <<Op("next")>>) /\ IsSeq(print(str))
    BY Tuple2, PrintHead
  <2>2. Solo' /\ cur' = <<Op("next")>> \o print(str) /\ Head(cur).chr = c
    <3>1. Head(cur) = Glyph(c)
      BY <1>5, <2>1, Foremost
    <3>2. Head(cur).chr = c
      BY <3>1, OpName
    <3>3. Solo' /\ cur' = <<Op("next")>> \o print(str)
      <4>1. Continue(<<>>) /\ cur = <<Glyph(c), Op("next")>> \o print(str)
        BY <1>2, <1>5
      <4> QED
        BY <1>3, <2>1, <4>1, Advance
    <3> QED
      BY <3>2, <3>3
  <2>3. wrapped' \/ (Tab(1)' /\ ~stray')
    BY <1>2, <1>3, <1>4, <1>5, <2>2, StillHere DEF Tab
  <2>4. AtNext'
    BY <2>2, <2>3 DEF AtNext, Doing
  <2> QED
    BY <2>2, <2>3, <2>4 DEF Placed, Somewhere
<1>6. ASSUME NEW str, cur = <<Glyph(Blank), Op("next"), Op("back")>> \o print(str), wrapped \/ Blanks
      PROVE  Placed'
  <2>1. Begins(<<Glyph(Blank), Op("next"), Op("back")>>, Glyph(Blank), <<Op("next"), Op("back")>>)
        /\ IsSeq(print(str))
    BY Tuple3, PrintHead
  <2>2. Solo' /\ cur' = <<Op("next"), Op("back")>> \o print(str) /\ Head(cur).chr = Blank
    <3>1. Head(cur) = Glyph(Blank)
      BY <1>6, <2>1, Foremost
    <3>2. Head(cur).chr = Blank
      BY <3>1, OpName
    <3>3. Solo' /\ cur' = <<Op("next"), Op("back")>> \o print(str)
      <4>1. Continue(<<>>) /\ cur = <<Glyph(Blank), Op("next"), Op("back")>> \o print(str)
        BY <1>2, <1>6
      <4> QED
        BY <1>3, <2>1, <4>1, Advance
    <3> QED
      BY <3>2, <3>3
  <2>3. wrapped' \/ ((row < MAX_ROW /\ pos = Here /\ Picture(doc))' /\ ~stray')
    BY <1>2, <1>3, <1>4, <1>6, <2>2, StillHere DEF Blanks
  <2>4. AtNext'
    BY <2>2, <2>3 DEF AtNext, Doing
  <2> QED
    BY <2>2, <2>3, <2>4 DEF Placed, Somewhere
<1> QED
  BY <1>1, <1>5, <1>6 DEF AtGlyph, Doing

(* The cursor goes to the next place on the paper. *)
LEMMA NextMoves ==
  ASSUME Sound, CursorNext, row <= MAX_ROW
  PROVE  /\ Here' = Here + 1 /\ Here \in Int
         /\ \/ row' = row /\ col' = col + 1
            \/ row' = row + 1 /\ col' = 0 /\ col + 1 = MAX_COL
<1>1. top \in Nat /\ row \in Nat /\ col \in Nat /\ col < MAX_COL /\ top' = top
  BY SoundParts, Sizes, SMTT(30) DEF CursorOK, CountsOK, Cols, CursorNext, history
<1>2. Here \in Int
  BY <1>1, PlaceInt, SMTT(30) DEF Here
<1>3. CASE col + 1 < MAX_COL
  <2>1. col' = col + 1 /\ row' = row
    BY <1>3 DEF CursorNext
  <2> QED
    BY <1>1, <1>2, <2>1, PlaceInt, SMTT(30) DEF Here
<1>4. CASE ~(col + 1 < MAX_COL)
  <2>1. col' = 0 /\ row' = row + 1 /\ col + 1 = MAX_COL
    BY <1>1, <1>4, RowMoves, SoundParts, Sizes, SMTT(30) DEF CursorNext, CursorOK
  <2>2. PICK a \in Int : a = top + row /\ top' + row' = a + 1
    BY <1>1, <2>1, SMTT(30)
  <2>3. Place(a + 1, 0) = Place(a, 0) + MAX_COL /\ Place(a, col) = Place(a, 0) + col /\ Place(a, 0) \in Int
    <3>1. Place(a + 1, 0) = Place(a, 0) + MAX_COL /\ Place(a, 0) \in Int
      BY PlaceInt, SMTT(30)
    <3> QED
      BY <1>1, <3>1, PlaceInt, SMTT(30)
  <2>4. Place(a + 1, 0) = Place(a, col) + 1
    BY <1>1, <2>1, <2>3, Sizes, SMTT(30)
  <2> QED
    BY <1>2, <2>1, <2>2, <2>4 DEF Here
<1> QED
  BY <1>3, <1>4

(* A tab, or the last step of a glyph. *)
LEMMA TabMoves ==
  ASSUME Sound, CursorNext, NEW k \in 1..3, Tab(k), k = 3 => row < MAX_ROW
  PROVE  Tab(k - 1)' /\ row' <= MAX_ROW
<1>1. row \in Nat /\ col \in Nat /\ row <= MAX_ROW
  BY SoundParts, Sizes, SMTT(30) DEF Tab, CursorOK, Cols
<1>2. PICK h \in Int : h = Here /\ Here' = h + 1
  BY <1>1, NextMoves
<1>3. \/ row' = row /\ col' = col + 1
      \/ row' = row + 1 /\ col' = 0 /\ col + 1 = MAX_COL
  BY <1>1, NextMoves
<1>4. pos' = Here' + (k - 1)
  <2>1. pos' = pos /\ pos = h + k
    BY <1>2 DEF CursorNext, history, Tab
  <2> QED
    BY <1>2, <2>1, SMTT(30)
<1>5. Picture(doc)'
  <2>1. PICK d : d = doc
    OBVIOUS
  <2>2. Picture(d) /\ UNCHANGED <<screen, top>> /\ doc' = d
    BY <2>1 DEF Tab, CursorNext, history
  <2>3. Picture(d)'
    BY <2>2, Still
  <2> QED
    BY <2>2, <2>3
<1>6. /\ row' < MAX_ROW \/ (row' = MAX_ROW /\ col' + (k - 1) <= 2)
      /\ row' <= MAX_ROW
  <2>1. row < MAX_ROW \/ (row = MAX_ROW /\ col + k <= 2)
    BY DEF Tab
  <2> QED
    BY <1>1, <1>3, <2>1, Sizes, SMTT(30)
<1> QED
  BY <1>4, <1>5, <1>6 DEF Tab

LEMMA CursorNextPlaced ==
  ASSUME Sound, Placed, CursorNext
  PROVE  Placed'
<1>1. AtNext
  BY Where DEF Placed, CursorNext
<1>2. Continue(<<>>) /\ UNCHANGED <<screen, top>> /\ UNCHANGED <<pos, doc>> /\ stray' = stray /\ wrapped' = wrapped
  BY DEF CursorNext, history
<1>3. TypeOK /\ Solo /\ (wrapped \/ ~stray)
  BY DEF Sound, Placed
<1>4. ASSUME NEW str, cur = <<Op("next")>> \o print(str), wrapped \/ Tab(1)
      PROVE  Solo' /\ Somewhere'
  <2>1. Solo' /\ cur' = <<>> \o print(str)
    BY <1>2, <1>3, <1>4, Tuple1, PrintHead, Advance
  <2>2. ASSUME Tab(1) PROVE AtRest'
    <3>1. Tab(1 - 1)' /\ row' <= MAX_ROW
      BY <2>2, TabMoves, SMTT(30)
    <3>2. Here \in Int /\ Here' = Here + 1
      BY <2>2, NextMoves, Sizes, SoundParts, SMTT(30) DEF Tab, CursorOK
    <3> QED
      BY <3>1, <3>2, SMTT(30) DEF Tab, AtRest
  <2>3. AtPrint'
    BY <1>2, <1>4, <2>1, <2>2 DEF AtPrint, Doing
  <2> QED
    BY <2>1, <2>3 DEF Somewhere
<1>5. ASSUME NEW str, cur = <<Op("next"), Op("next")>> \o print(str), wrapped \/ Tab(2)
      PROVE  Solo' /\ Somewhere'
  <2>1. Solo' /\ cur' = <<Op("next")>> \o print(str)
    BY <1>2, <1>3, <1>5, Tuple2, PrintHead, Advance
  <2>2. ASSUME Tab(2) PROVE Tab(1)'
    BY <2>2, TabMoves, SMTT(30)
  <2>3. AtNext'
    BY <1>2, <1>5, <2>1, <2>2 DEF AtNext, Doing
  <2> QED
    BY <2>1, <2>3 DEF Somewhere
<1>6. ASSUME NEW str, cur = <<Op("next"), Op("next"), Op("next")>> \o print(str),
             wrapped \/ (row < MAX_ROW /\ Tab(3))
      PROVE  Solo' /\ Somewhere'
  <2>1. Solo' /\ cur' = <<Op("next"), Op("next")>> \o print(str)
    BY <1>2, <1>3, <1>6, Tuple3, PrintHead, Advance
  <2>2. ASSUME row < MAX_ROW, Tab(3) PROVE Tab(2)'
    BY <2>2, TabMoves, SMTT(30)
  <2>3. AtNext'
    BY <1>2, <1>6, <2>1, <2>2 DEF AtNext, Doing
  <2> QED
    BY <2>1, <2>3 DEF Somewhere
<1>7. ASSUME NEW str, cur = <<Op("next"), Op("back")>> \o print(str),
             wrapped \/ (row < MAX_ROW /\ pos = Here /\ Picture(doc))
      PROVE  Solo' /\ Somewhere'
  <2>1. Solo' /\ cur' = <<Op("back")>> \o print(str)
    BY <1>2, <1>3, <1>7, Tuple2, PrintHead, Advance
  <2>2. ASSUME row < MAX_ROW, pos = Here, Picture(doc)
        PROVE  (row <= MAX_ROW /\ pos = Here - 1 /\ Picture(doc))'
    <3>1. row \in Nat /\ row <= MAX_ROW
      BY <2>2, SoundParts, Sizes, SMTT(30) DEF CursorOK
    <3>2. Here \in Int /\ Here' = Here + 1 /\ (row' = row \/ row' = row + 1)
      BY <3>1, NextMoves
    <3>3. row' <= MAX_ROW /\ pos' = Here' - 1
      BY <1>2, <2>2, <3>1, <3>2, Sizes, SMTT(30)
    <3>4. PICK d : d = doc
      OBVIOUS
    <3>5. Picture(d)' /\ doc' = d
      BY <1>2, <2>2, <3>4, Still
    <3> QED
      BY <3>3, <3>5
  <2>3. AtBack'
    BY <1>2, <1>7, <2>1, <2>2 DEF AtBack, Doing
  <2> QED
    BY <2>1, <2>3 DEF Somewhere
<1>8. Solo' /\ Somewhere'
  BY <1>1, <1>4, <1>5, <1>6, <1>7 DEF AtNext, Doing
<1> QED
  BY <1>2, <1>3, <1>8 DEF Placed

LEMMA BackMoves ==
  ASSUME Sound, CursorBack
  PROVE  /\ wrapped => wrapped'
         /\ wrapped' \/ (Here' = Here - 1 /\ row' <= row)
<1>1. top \in Nat /\ row \in 0..(U16 - 1) /\ row \in Nat /\ col \in Nat /\ col < MAX_COL /\ top' = top
  BY SoundParts, Sizes, SMTT(30) DEF CursorOK, CountsOK, Cols, CursorBack
<1>2. PICK a \in Int : a = top + row
  BY <1>1, SMTT(30)
<1>3. CASE col > 0
  <2>1. col' = col - 1 /\ row' = row /\ wrapped' = wrapped
    BY <1>3 DEF CursorBack
  <2>2. Place(a, 0) \in Int
    BY PlaceInt, SMTT(30)
  <2>3. Place(a, col) = Place(a, 0) + col /\ Place(a, col - 1) = Place(a, 0) + (col - 1)
    <3>1. col \in Int /\ col - 1 \in Int
      BY <1>1, SMTT(30)
    <3>2. Place(a, col) = Place(a, 0) + col
      BY <3>1, PlaceInt
    <3> QED
      BY <3>1, <3>2, PlaceInt
  <2>4. Here' = Here - 1
    BY <1>1, <1>2, <2>1, <2>2, <2>3, SMTT(30) DEF Here
  <2> QED
    BY <1>1, <2>1, <2>4, SMTT(30)
<1>4. CASE ~(col > 0) /\ row = 0
  BY <1>4 DEF CursorBack
<1>5. CASE ~(col > 0) /\ row # 0
  <2>1. col = 0 /\ col' = MAX_COL - 1 /\ row' = row - 1 /\ wrapped' = (wrapped \/ row = 0)
    BY <1>1, <1>5, RowMoves, SMTT(30) DEF CursorBack
  <2>2. PICK b \in Int : b = a - 1 /\ top' + row' = b /\ b + 1 = a
    BY <1>1, <1>2, <2>1, SMTT(30)
  <2>3. Place(b + 1, 0) = Place(b, 0) + MAX_COL /\ Place(b, 0) \in Int
    BY PlaceInt, SMTT(30)
  <2>4. Place(b, MAX_COL - 1) = Place(b, 0) + (MAX_COL - 1)
    BY PlaceInt, Sizes, SMTT(30)
  <2>5. Here' = Here - 1
    BY <1>2, <2>1, <2>2, <2>3, <2>4, Sizes, SMTT(30) DEF Here
  <2>6. row' <= row
    BY <1>1, <2>1, SMTT(30)
  <2> QED
    BY <2>1, <2>5, <2>6
<1> QED
  BY <1>3, <1>4, <1>5

LEMMA CursorBackPlaced ==
  ASSUME Sound, Sound', Placed, CursorBack
  PROVE  Placed'
<1>1. AtBack
  BY Where DEF Placed, CursorBack
<1>2. Continue(<<>>) /\ UNCHANGED <<screen, top>> /\ UNCHANGED <<pos, doc>> /\ stray' = stray
  BY DEF CursorBack
<1>3. TypeOK /\ Solo /\ (wrapped \/ ~stray)
  BY DEF Sound, Placed
<1>4. /\ wrapped => wrapped'
      /\ wrapped' \/ (Here' = Here - 1 /\ row' <= row)
  BY BackMoves
<1>5. row \in Nat /\ row' \in Nat
  BY SoundParts, Sizes, SMTT(30) DEF CursorOK
<1>6. ASSUME NEW str, cur = <<Op("back")>> \o print(str),
             wrapped \/ (row <= MAX_ROW /\ pos = Here - 1 /\ Picture(doc))
      PROVE  Solo' /\ Somewhere'
  <2>1. Solo' /\ cur' = <<>> \o print(str)
    BY <1>2, <1>3, <1>6, Tuple1, PrintHead, Advance
  <2>2. PICK d : d = doc
    OBVIOUS
  <2>3. ASSUME ~wrapped' PROVE AtRest'
    <3>1. row <= MAX_ROW /\ pos = Here - 1 /\ Picture(d) /\ row' <= row /\ Here' = Here - 1
      BY <1>4, <1>6, <2>2, <2>3
    <3>2. Picture(d)' /\ doc' = d /\ row' <= MAX_ROW
      BY <1>2, <1>5, <2>2, <3>1, Still, Sizes, SMTT(30)
    <3> QED
      BY <1>2, <3>1, <3>2 DEF AtRest
  <2>4. AtPrint'
    BY <2>1, <2>3 DEF AtPrint, Doing
  <2> QED
    BY <2>1, <2>4 DEF Somewhere
<1>7. ASSUME NEW str,
             cur = <<Op("back"), Op("check"), Glyph(Blank), Op("next"), Op("back")>> \o print(str),
             wrapped \/ (row < MAX_ROW /\ pos = Here - 1 /\ \E d : doc = Put(d, Here - 1, Blank) /\ Picture(d))
      PROVE  Solo' /\ Somewhere'
  <2>1. Solo' /\ cur' = <<Op("check"), Glyph(Blank), Op("next"), Op("back")>> \o print(str)
    BY <1>2, <1>3, <1>7, Tuple5, PrintHead, Advance
  <2>2. ASSUME ~wrapped' PROVE Blanks'
    <3>1. PICK d : /\ row < MAX_ROW /\ pos = Here - 1 /\ doc = Put(d, Here - 1, Blank) /\ Picture(d)
                   /\ row' <= row /\ Here' = Here - 1
      BY <1>4, <1>7, <2>2
    <3>2. Picture(d)' /\ doc' = Put(d, Here', Blank) /\ pos' = Here' /\ row' < MAX_ROW
      BY <1>2, <1>5, <3>1, Still, Sizes, SMTT(30)
    <3> QED
      BY <3>2 DEF Blanks
  <2>3. AtCheck'
    BY <2>1, <2>2 DEF AtCheck, Doing
  <2> QED
    BY <2>1, <2>3 DEF Somewhere
<1>8. Solo' /\ Somewhere'
  BY <1>1, <1>6, <1>7 DEF AtBack, Doing
<1> QED
  BY <1>2, <1>3, <1>4, <1>8 DEF Placed

LEMMA CursorLfPlaced ==
  ASSUME Sound, Placed, CursorLf
  PROVE  Placed'
<1>1. PICK str : /\ cur = <<Op("lf"), Op("cr")>> \o print(str)
                 /\ wrapped \/ (row < MAX_ROW /\ pos = Place(top + row + 1, 0) /\ Picture(doc))
  BY Where DEF Placed, CursorLf, AtLf, Doing
<1>2. /\ Continue(<<>>) /\ UNCHANGED <<screen, top>> /\ UNCHANGED <<pos, doc>> /\ stray' = stray
      /\ wrapped' = wrapped /\ row' = (row + 1) % U16
  BY DEF CursorLf, history
<1>3. Solo' /\ cur' = <<Op("cr")>> \o print(str)
  BY <1>1, <1>2, Tuple2, PrintHead, Advance DEF Sound, Placed
<1>4. PICK d : d = doc
  OBVIOUS
<1>5. ASSUME ~wrapped PROVE (row <= MAX_ROW /\ pos = Place(top + row, 0) /\ Picture(doc))'
  <2>1. row \in Nat /\ top \in Nat /\ row < MAX_ROW /\ row' = row + 1
    BY <1>1, <1>2, <1>5, SoundParts, RowMoves, Sizes, SMTT(30) DEF CursorOK, CountsOK
  <2>2. row' <= MAX_ROW /\ top' + row' = top + row + 1
    BY <1>2, <2>1, Sizes, SMTT(30)
  <2>3. Picture(d)' /\ doc' = d
    BY <1>1, <1>2, <1>4, <1>5, Still
  <2> QED
    BY <1>1, <1>2, <1>5, <2>2, <2>3
<1>6. AtCr'
  BY <1>2, <1>3, <1>5 DEF AtCr, Doing
<1> QED
  BY <1>2, <1>3, <1>6 DEF Placed, Somewhere

LEMMA CursorCrPlaced ==
  ASSUME Sound, Placed, CursorCr
  PROVE  Placed'
<1>1. PICK str : /\ cur = <<Op("cr")>> \o print(str)
                 /\ wrapped \/ (row <= MAX_ROW /\ pos = Place(top + row, 0) /\ Picture(doc))
  BY Where DEF Placed, CursorCr, AtCr, Doing
<1>2. /\ Continue(<<>>) /\ UNCHANGED <<screen, top>> /\ UNCHANGED <<pos, doc>> /\ stray' = stray
      /\ wrapped' = wrapped /\ row' = row /\ col' = 0
  BY DEF CursorCr, history
<1>3. Solo' /\ cur' = <<>> \o print(str)
  BY <1>1, <1>2, Tuple1, PrintHead, Advance DEF Sound, Placed
<1>4. PICK d : d = doc
  OBVIOUS
<1>5. ASSUME ~wrapped PROVE AtRest'
  <2>1. Picture(d)' /\ doc' = d
    BY <1>1, <1>2, <1>4, <1>5, Still
  <2> QED
    BY <1>1, <1>2, <1>5, <2>1 DEF AtRest, Here
<1>6. AtPrint'
  BY <1>2, <1>3, <1>5 DEF AtPrint, Doing
<1> QED
  BY <1>2, <1>3, <1>6 DEF Placed, Somewhere

LEMMA FillPlaced ==
  ASSUME Sound, Placed, Fill
  PROVE  Placed'
<1>1. AtFill
  BY Where DEF Placed, Fill
<1>2. /\ Continue(<<>>) /\ screen' = Empty /\ UNCHANGED <<pos, doc, top, stray, wrapped>>
  BY DEF Fill
<1>3. TypeOK /\ Solo
  BY DEF Sound, Placed
<1>4. BlankPage => BlankPage'
  BY <1>2 DEF BlankPage
<1>5. ASSUME cur = <<Op("fill"), Op("home"), Op("draw")>>, wrapped \/ BlankPage
      PROVE  Solo' /\ AtHome'
  <2>1. Solo' /\ cur' = <<Op("home"), Op("draw")>>
    BY <1>2, <1>3, <1>5, Tuple3, AdvanceAlone
  <2> QED
    BY <1>2, <1>4, <1>5, <2>1 DEF AtHome
<1>6. ASSUME NEW str, cur = <<Op("fill"), Op("home")>> \o print(str), wrapped \/ BlankPage
      PROVE  Solo' /\ AtHome'
  <2>1. Solo' /\ cur' = <<Op("home")>> \o print(str)
    BY <1>2, <1>3, <1>6, Tuple2, PrintHead, Advance
  <2> QED
    BY <1>2, <1>4, <1>6, <2>1 DEF AtHome, Doing
<1>7. Solo' /\ AtHome'
  BY <1>1, <1>5, <1>6 DEF AtFill, Doing
<1> QED
  BY <1>2, <1>7 DEF Placed, Somewhere

LEMMA HomePlaced ==
  ASSUME Sound, Placed, Home
  PROVE  Placed'
<1>1. AtHome
  BY Where DEF Placed, Home
<1>2. /\ Continue(<<>>) /\ row' = 0 /\ col' = 0 /\ UNCHANGED <<screen, pos, doc, top, stray, wrapped>>
  BY DEF Home, history
<1>3. TypeOK /\ Solo
  BY DEF Sound, Placed
<1>4. ASSUME BlankPage, screen = Empty PROVE AtRest'
  <2>1. pos' = 0 /\ top' = 0 /\ doc' = NoDoc /\ DOMAIN NoDoc = {}
    BY <1>2, <1>4 DEF BlankPage, NoDoc
  <2>2. Here' = 0 /\ row' <= MAX_ROW
    BY <1>2, <2>1, Sizes, SMTT(30) DEF Here, Place
  <2>3. \A r \in 0..(MAX_ROW - 1), c \in Cols : screen'[r][c] = Blank
    BY <1>2, <1>4 DEF Empty, Cols
  <2>4. Picture(doc)'
    BY <2>1, <2>3 DEF Picture, Holds, Above
  <2> QED
    BY <2>1, <2>2, <2>4 DEF AtRest
<1>5. ASSUME cur = <<Op("home"), Op("draw")>>, wrapped \/ BlankPage, screen = Empty
      PROVE  Solo' /\ Somewhere'
  <2>1. Solo' /\ cur' = <<Op("draw")>>
    BY <1>2, <1>3, <1>5, Tuple2, AdvanceAlone
  <2>2. AtDraw'
    BY <1>2, <1>4, <1>5, <2>1 DEF AtDraw
  <2> QED
    BY <2>1, <2>2 DEF Somewhere
<1>6. ASSUME NEW str, cur = <<Op("home")>> \o print(str), wrapped \/ (BlankPage /\ screen = Empty)
      PROVE  Solo' /\ Somewhere'
  <2>1. Solo' /\ cur' = <<>> \o print(str)
    BY <1>2, <1>3, <1>6, Tuple1, PrintHead, Advance
  <2>2. AtPrint'
    BY <1>2, <1>4, <1>6, <2>1 DEF AtPrint, Doing
  <2> QED
    BY <2>1, <2>2 DEF Somewhere
<1>7. Solo' /\ Somewhere'
  BY <1>1, <1>5, <1>6 DEF AtHome, Doing
<1> QED
  BY <1>2, <1>7 DEF Placed

LEMMA OperationPlaced ==
  ASSUME Sound, Sound', Placed, Operation
  PROVE  Placed'
  BY PrintNextPlaced, PrintDonePlaced, CheckPlaced, ShiftPlaced, UpPlaced, ClearLinePlaced, DrawPlaced,
     PrintGlyphPlaced, CursorNextPlaced, CursorBackPlaced, CursorLfPlaced, CursorCrPlaced, FillPlaced,
     HomePlaced DEF Operation

-----------------------------------------------------------------------------
(* The callers.                                                            *)

LEMMA NoneLeft ==
  ASSUME Somewhere, cur = <<>>
  PROVE  Calm
<1>1. ASSUME NEW n PROVE ~At(n)
  BY DEF At, cur
<1> QED
  BY <1>1, HeadsOne, HeadsMore DEF Somewhere

(* The flow f starts with x while no other runs. *)
LEMMA Starts ==
  ASSUME TypeOK, todo["main"] = <<>>, todo["isr"] = <<>>, NEW f \in Flows, NEW x, x # <<>>,
         todo' = [todo EXCEPT ![f] = x]
  PROVE  cur = <<>> /\ Solo' /\ cur' = x
<1>1. DOMAIN todo = {"main", "isr"} /\ f \in {"main", "isr"}
  BY DEF TypeOK, Flows
<1>2. CASE f = "main"
  <2>1. todo'["main"] = x /\ todo'["isr"] = <<>>
    BY <1>1, <1>2
  <2> QED
    BY <2>1 DEF cur, Running, Solo
<1>3. CASE f = "isr"
  <2>1. todo'["isr"] = x /\ todo'["main"] = <<>>
    BY <1>1, <1>3
  <2> QED
    BY <2>1 DEF cur, Running, Solo
<1> QED
  BY <1>1, <1>2, <1>3

LEMMA CallersPlaced ==
  ASSUME Sound, Placed, ~Overlap,
         \/ \E str \in Texts : Kprintf(str) \/ Kpanic(str)
         \/ \E c \in Keys : KeyboardInterrupt(c)
  PROVE  Placed'
<1>1. TypeOK /\ Solo /\ Somewhere /\ (wrapped \/ ~stray)
  BY DEF Sound, Placed
<1>2. ASSUME NEW str, NEW f \in Flows, todo["main"] = <<>>, todo["isr"] = <<>>,
             todo' = [todo EXCEPT ![f] = print(str)],
             UNCHANGED <<cursor, screen, top, pos, doc>>, UNCHANGED <<stray, wrapped>>
      PROVE  Placed'
  <2>1. cur = <<>> /\ Solo' /\ cur' = print(str)
    BY <1>1, <1>2, PrintHead, Starts DEF Begins
  <2>2. wrapped' \/ AtRest'
    BY <1>1, <1>2, <2>1, NoneLeft, StillRest DEF Calm
  <2>3. cur' = <<>> \o print(str)
    BY <2>1, PrintHead, NothingBefore
  <2>4. AtPrint'
    BY <2>2, <2>3 DEF AtPrint, Doing
  <2> QED
    BY <1>1, <1>2, <2>1, <2>4 DEF Placed, Somewhere
<1>3. ASSUME NEW str \in Texts, Kprintf(str) PROVE Placed'
  <2>1. "main" \in Flows /\ UNCHANGED <<cursor, screen, top, pos, doc>> /\ UNCHANGED <<stray, wrapped>>
    BY <1>3 DEF Kprintf, Flows, history
  <2> QED
    BY <1>2, <1>3, <2>1 DEF Kprintf
<1>4. ASSUME NEW str \in Texts, Kpanic(str) PROVE Placed'
  <2>1. PICK x : x = <<Op("fill"), Op("home")>> \o print(str)
    OBVIOUS
  <2>2. x # <<>> /\ todo["main"] = <<>> /\ todo["isr"] = <<>> /\ todo' = [todo EXCEPT !["main"] = x]
    <3>1. Begins(<<Op("fill"), Op("home")>>, Op("fill"), <<Op("home")>>) /\ IsSeq(print(str))
      BY Tuple2, PrintHead
    <3>2. x # <<>>
      BY <2>1, <3>1, HeadCat DEF Begins
    <3> QED
      BY <1>4, <2>1, <3>2 DEF Kpanic, __prepare_kpanic
  <2>3. Solo' /\ cur' = x
    BY <1>1, <2>2, Starts DEF Flows
  <2>4. BlankPage' /\ UNCHANGED <<stray, wrapped>>
    BY <1>4 DEF Kpanic, BlankPage
  <2>5. AtFill'
    BY <2>1, <2>3, <2>4 DEF AtFill, Doing
  <2> QED
    BY <1>1, <2>3, <2>4, <2>5 DEF Placed, Somewhere
<1>5. ASSUME NEW c \in Keys, KeyboardInterrupt(c) PROVE Placed'
  <2>1. "isr" \in Flows /\ UNCHANGED <<cursor, screen, top, pos, doc>> /\ UNCHANGED <<stray, wrapped>>
    BY <1>5 DEF KeyboardInterrupt, Flows, history
  <2>2. todo["main"] = <<>> /\ todo["isr"] = <<>> /\ todo' = [todo EXCEPT !["isr"] = print(<<c>>)]
    BY <1>5 DEF KeyboardInterrupt
  <2> QED
    BY <1>2, <2>1, <2>2
<1> QED
  BY <1>3, <1>4, <1>5

LEMMA StillPlaced ==
  ASSUME Placed, UNCHANGED <<cursor, screen, shown, todo, pos, doc, top, stray, wrapped>>
  PROVE  Placed'
<1>1. /\ cur' = cur /\ Here' = Here /\ row' = row /\ col' = col /\ top' = top /\ screen' = screen
      /\ shown' = shown /\ pos' = pos /\ doc' = doc /\ stray' = stray /\ wrapped' = wrapped /\ (Solo => Solo')
  BY StillHere DEF Solo, cur, Running, cursor
<1>2. ASSUME NEW d PROVE (Picture(d) => Picture(d)') /\ (Scrolled(d) => Scrolled(d)')
  BY <1>1 DEF Picture, Scrolled, Holds, Above
<1>3. (AtRest => AtRest') /\ (BlankPage => BlankPage') /\ (Picture(doc) => Picture(doc)')
  <2>1. PICK d : d = doc
    OBVIOUS
  <2> QED
    BY <1>1, <1>2, <2>1, StillRest DEF BlankPage
<1>4. (Calm => Calm') /\ (AtPrint => AtPrint') /\ (AtFill => AtFill') /\ (AtHome => AtHome')
  BY <1>1, <1>3, SMTT(30) DEF Calm, AtPrint, AtFill, AtHome, Doing
<1>5. ASSUME NEW k, NEW c, NEW str PROVE Remains(k, c, str) => Remains(k, c, str)'
  BY <1>1, SMTT(30) DEF Remains
<1>6. ASSUME NEW c, NEW d PROVE Means(c, Here, d) => Means(c, Here, d)'
  BY <1>1 DEF Means
<1>7. ASSUME AtShift PROVE AtShift'
  <2>1. PICK c, str, k :
          /\ cur = <<Op("shift"), Op("up"), Op("clear_line"), Op("draw")>> \o k /\ Remains(k, c, str)
          /\ wrapped \/ (row = MAX_ROW /\ \E d : Means(c, Here, d) /\ Picture(d))
    BY <1>7 DEF AtShift
  <2>2. wrapped' \/ (row' = MAX_ROW /\ \E d : Means(c, Here, d)' /\ Picture(d)')
    BY <1>1, <1>2, <1>6, <2>1, SMTT(30)
  <2> QED
    BY <1>1, <1>5, <2>1, <2>2 DEF AtShift
<1>8. ASSUME AtUp PROVE AtUp'
  <2>1. PICK c, str, k :
          /\ cur = <<Op("up"), Op("clear_line"), Op("draw")>> \o k /\ Remains(k, c, str)
          /\ wrapped \/ (row = MAX_ROW /\ \E d : Means(c, Place(top + row - 1, col), d) /\ Scrolled(d))
    BY <1>8 DEF AtUp
  <2>2. ASSUME NEW d, Means(c, Place(top + row - 1, col), d) PROVE Means(c, Place(top + row - 1, col), d)'
    BY <1>1, <2>2 DEF Means
  <2>3. wrapped' \/ (row' = MAX_ROW /\ \E d : Means(c, Place(top + row - 1, col), d)' /\ Scrolled(d)')
    BY <1>1, <1>2, <2>1, <2>2, SMTT(30)
  <2> QED
    BY <1>1, <1>5, <2>1, <2>3 DEF AtUp
<1>9. ASSUME AtClearLine PROVE AtClearLine'
  <2>1. PICK c, str, k :
          /\ cur = <<Op("clear_line"), Op("draw")>> \o k /\ Remains(k, c, str)
          /\ wrapped \/ (row = MAX_ROW - 1 /\ \E d : Means(c, Here, d) /\ Scrolled(d))
    BY <1>9 DEF AtClearLine
  <2>2. wrapped' \/ (row' = MAX_ROW - 1 /\ \E d : Means(c, Here, d)' /\ Scrolled(d)')
    BY <1>1, <1>2, <1>6, <2>1, SMTT(30)
  <2> QED
    BY <1>1, <1>5, <2>1, <2>2 DEF AtClearLine
<1>10. ASSUME NEW c, NEW str, NEW k, cur = <<Op("draw")>> \o k, Remains(k, c, str),
              wrapped \/ (row = MAX_ROW - 1 /\ \E d : Means(c, Here, d) /\ Picture(d))
       PROVE  AtDraw'
  <2>1. wrapped' \/ (row' = MAX_ROW - 1 /\ \E d : Means(c, Here, d)' /\ Picture(d)')
    BY <1>1, <1>2, <1>6, <1>10, SMTT(30)
  <2> QED
    BY <1>1, <1>5, <1>10, <2>1 DEF AtDraw
<1>11. AtDraw => AtDraw'
  <2>1. ASSUME cur = <<Op("draw")>>, wrapped \/ AtRest PROVE AtDraw'
    BY <1>1, <1>3, <2>1, SMTT(30) DEF AtDraw
  <2> QED
    BY <1>10, <2>1 DEF AtDraw
<1>12. Blanks => Blanks'
  BY <1>1, <1>2 DEF Blanks
<1>13. ASSUME NEW c, NEW str, cur = _print_char(c) \o print(str),
              wrapped \/ (row <= MAX_ROW /\ \E d : Means(c, Here, d) /\ Picture(d))
       PROVE  AtCheck'
  <2>1. wrapped' \/ (row' <= MAX_ROW /\ \E d : Means(c, Here, d)' /\ Picture(d)')
    BY <1>1, <1>2, <1>6, <1>13, SMTT(30)
  <2> QED
    BY <1>1, <1>13, <2>1 DEF AtCheck
<1>14. AtCheck => AtCheck'
  <2>1. ASSUME NEW str, cur = <<Op("check"), Glyph(Blank), Op("next"), Op("back")>> \o print(str),
               wrapped \/ Blanks
        PROVE  AtCheck'
    BY <1>1, <1>12, <2>1, SMTT(30) DEF AtCheck, Doing
  <2> QED
    BY <1>13, <2>1 DEF AtCheck, Doing
<1>15. AtGlyph => AtGlyph'
  BY <1>1, <1>2, <1>12, SMTT(30) DEF AtGlyph, Doing
<1>16. ASSUME NEW k PROVE Tab(k) => Tab(k)'
  BY <1>1, <1>3 DEF Tab
<1>17. AtNext => AtNext'
  BY <1>1, <1>3, <1>16, SMTT(30) DEF AtNext, Doing
<1>18. AtBack => AtBack'
  <2>1. ASSUME NEW str, cur = <<Op("back")>> \o print(str),
               wrapped \/ (row <= MAX_ROW /\ pos = Here - 1 /\ Picture(doc))
        PROVE  AtBack'
    BY <1>1, <1>3, <2>1, SMTT(30) DEF AtBack, Doing
  <2>2. ASSUME NEW str, cur = <<Op("back"), Op("check"), Glyph(Blank), Op("next"), Op("back")>> \o print(str),
               wrapped \/ (/\ row < MAX_ROW /\ pos = Here - 1
                           /\ \E d : doc = Put(d, Here - 1, Blank) /\ Picture(d))
        PROVE  AtBack'
    <3>1. wrapped' \/ (/\ row' < MAX_ROW /\ pos' = Here' - 1
                       /\ \E d : doc' = Put(d, Here' - 1, Blank) /\ Picture(d)')
      BY <1>1, <1>2, <2>2, SMTT(30)
    <3>2. cur' = <<Op("back"), Op("check"), Glyph(Blank), Op("next"), Op("back")>> \o print(str)
      BY <1>1, <2>2
    <3> QED
      BY <3>1, <3>2 DEF AtBack, Doing
  <2> QED
    BY <2>1, <2>2 DEF AtBack, Doing
<1>19. (AtLf => AtLf') /\ (AtCr => AtCr')
  BY <1>1, <1>3, SMTT(30) DEF AtLf, AtCr, Doing
<1> QED
  BY <1>1, <1>4, <1>7, <1>8, <1>9, <1>11, <1>14, <1>15, <1>17, <1>18, <1>19, SMTT(30) DEF Placed, Somewhere

-----------------------------------------------------------------------------
(* What the wide stores cut.                                               *)

(* Nothing but blanks is on the paper d from h on. *)
IntDoc(d) == \A q \in DOMAIN d : q \in Int
BlankFrom(h, d) == \A q \in DOMAIN d : q >= h => d[q] = Blank

(* As long as no carriage return was typed there is nothing ahead of the   *)
(* cursor, so the cell behind one that is drawn is blank.                  *)
Ahead == pos \in Int /\ IntDoc(doc) /\ (onward /\ ~wrapped => BlankFrom(pos, doc))
Spared(x) == screen[x[1]][x[2]] = Blank \/ (Flush /\ x[2] = 0)
Uncut == onward /\ ~wrapped => \A x \in cut : Spared(x)

LEMMA NextRow ==
  ASSUME NEW h \in Int
  PROVE  ((h \div MAX_COL) + 1) * MAX_COL \in Int /\ ((h \div MAX_COL) + 1) * MAX_COL >= h
<1>1. ASSUME NEW m \in Nat \ {0}
      PROVE  h \div m \in Int /\ h % m \in 0..(m - 1) /\ h = (h \div m) * m + (h % m)
  BY Z3
<1>2. PICK q \in Int, r \in 0..(MAX_COL - 1) : q = h \div MAX_COL /\ h = q * MAX_COL + r
  BY <1>1, Sizes
<1>3. PICK n \in Int : n = q * MAX_COL /\ (q + 1) * MAX_COL = n + MAX_COL
  BY Sizes, Times
<1> QED
  BY <1>2, <1>3, Sizes, SMTT(30)

(* A character other than a carriage return leaves nothing ahead. *)
LEMMA TypedAhead ==
  ASSUME NEW c, NEW h \in Int, NEW d, IntDoc(d), NEW p, NEW e, TypesTo(c, h, d, p, e)
  PROVE  p \in Int /\ IntDoc(e) /\ (c # "CR" /\ BlankFrom(h, d) => BlankFrom(p, e))
<1>1. ASSUME NEW q, NEW f, TypesTo(c, h, d, q, f) PROVE p = q /\ e = f
  <2>1. [pos |-> p, doc |-> e] = [pos |-> q, doc |-> f]
    BY <1>1 DEF TypesTo
  <2> QED
    BY <2>1, SMTT(30)
<1>2. ASSUME NEW q \in Int, q >= h, p = q, e = d
      PROVE  p \in Int /\ IntDoc(e) /\ (BlankFrom(h, d) => BlankFrom(p, e))
  BY <1>2, SMTT(30) DEF IntDoc, BlankFrom
<1>3. CASE c = "LF"
  <2>1. TypesTo("LF", h, d, ((h \div MAX_COL) + 1) * MAX_COL, d)
    BY TypeIs
  <2>2. PICK n \in Int : n = ((h \div MAX_COL) + 1) * MAX_COL /\ n >= h
    BY NextRow
  <2>3. p = n /\ e = d
    BY <1>1, <1>3, <2>1, <2>2
  <2> QED
    BY <1>2, <2>2, <2>3
<1>4. CASE c = "HT"
  <2>1. h + 3 \in Int /\ h + 3 >= h
    BY SMTT(30)
  <2> QED
    BY <1>1, <1>2, <1>4, <2>1, TypeIs
<1>5. CASE c = "CR"
  <2>1. h % MAX_COL \in Int
    <3>1. ASSUME NEW m \in Nat \ {0} PROVE h % m \in 0..(m - 1)
      BY Z3
    <3>2. h % MAX_COL \in 0..(MAX_COL - 1)
      BY <3>1, Sizes
    <3> QED
      BY <3>2, Sizes, SMTT(30)
  <2>2. p = h - (h % MAX_COL) /\ e = d
    BY <1>1, <1>5, TypeIs
  <2>3. p \in Int
    BY <2>1, <2>2, SMTT(30)
  <2> QED
    BY <1>5, <2>2, <2>3
<1>6. CASE c = "BS"
  <2>1. p = h - 1 /\ e = Put(d, h - 1, Blank)
    BY <1>1, <1>6, TypeIs
  <2>2. DOMAIN e = DOMAIN d \cup {p} /\ e[p] = Blank /\ \A q \in DOMAIN d : q # p => e[q] = d[q]
    BY <2>1 DEF Put
  <2>3. p \in Int /\ \A q \in Int : q >= p /\ q # p => q >= h
    BY <2>1, SMTT(30)
  <2>4. IntDoc(e)
    BY <2>2, <2>3 DEF IntDoc
  <2>5. ASSUME BlankFrom(h, d), NEW q \in DOMAIN e, q >= p PROVE e[q] = Blank
    <3>1. CASE q = p
      BY <2>2, <3>1
    <3>2. CASE q # p
      <4>1. q \in DOMAIN d /\ q \in Int
        BY <2>2, <2>5, <3>2 DEF IntDoc
      <4>2. q >= h
        BY <2>3, <2>5, <3>2, <4>1
      <4>3. d[q] = Blank
        BY <2>5, <4>1, <4>2 DEF BlankFrom
      <4>4. e[q] = d[q]
        BY <2>2, <3>2, <4>1
      <4> QED
        BY <4>3, <4>4
    <3> QED
      BY <3>1, <3>2
  <2> QED
    BY <2>3, <2>4, <2>5 DEF BlankFrom
<1>7. CASE c = "ESC"
  <2>1. h >= h
    BY SMTT(30)
  <2> QED
    BY <1>1, <1>2, <1>7, <2>1, TypeIs
<1>8. CASE Others(c)
  <2>1. p = h + 1 /\ e = Put(d, h, c)
    BY <1>1, <1>8, TypeIs
  <2>2. DOMAIN e = DOMAIN d \cup {h} /\ \A q \in DOMAIN d : q # h => e[q] = d[q]
    BY <2>1 DEF Put
  <2>3. p \in Int /\ \A q \in Int : q >= p => q # h /\ q >= h
    BY <2>1, SMTT(30)
  <2> QED
    BY <2>2, <2>3 DEF IntDoc, BlankFrom
<1> QED
  BY <1>3, <1>4, <1>5, <1>6, <1>7, <1>8 DEF Others

LEMMA StillAhead ==
  ASSUME Ahead, UNCHANGED <<pos, doc>>, onward' => onward, wrapped => wrapped'
  PROVE  Ahead'
  BY DEF Ahead

LEMMA AheadStep ==
  ASSUME Placed, Ahead, Next
  PROVE  Ahead'
<1>1. CASE PrintNext
  <2>1. PICK c : TypeOn(c) /\ (onward' => onward /\ c # "CR") /\ wrapped' = wrapped
    BY <1>1 DEF PrintNext
  <2>2. PICK p, e : Type([pos |-> pos, doc |-> doc], c) = [pos |-> p, doc |-> e]
    <3>1. CASE c \in {"LF", "HT", "CR", "BS", "ESC"}
      <4>1. /\ \E p, e : TypesTo("LF", pos, doc, p, e)
            /\ \E p, e : TypesTo("HT", pos, doc, p, e)
            /\ \E p, e : TypesTo("CR", pos, doc, p, e)
            /\ \E p, e : TypesTo("BS", pos, doc, p, e)
            /\ \E p, e : TypesTo("ESC", pos, doc, p, e)
        BY TypeIs
      <4>2. \E p, e : TypesTo(c, pos, doc, p, e)
        BY <3>1, <4>1
      <4> QED
        BY <4>2 DEF TypesTo
    <3>2. CASE Others(c)
      <4>1. TypesTo(c, pos, doc, pos + 1, Put(doc, pos, c))
        BY <3>2, TypeIs
      <4> QED
        BY <4>1 DEF TypesTo
    <3> QED
      BY <3>1, <3>2 DEF Others
  <2>3. pos' = p /\ doc' = e
    BY <2>1, <2>2, SMTT(30) DEF TypeOn
  <2>4. p \in Int /\ IntDoc(e) /\ (c # "CR" /\ BlankFrom(pos, doc) => BlankFrom(p, e))
    BY <2>2, TypedAhead DEF Ahead, TypesTo
  <2>5. IntDoc(doc)' /\ pos' \in Int
    BY <2>3, <2>4 DEF IntDoc
  <2>6. BlankFrom(p, e) => BlankFrom(pos, doc)'
    BY <2>3 DEF BlankFrom
  <2> QED
    BY <2>1, <2>4, <2>5, <2>6 DEF Ahead
<1>2. CASE Fill
  <2>1. UNCHANGED <<pos, doc, wrapped>>
    BY <1>2 DEF Fill
  <2>2. wrapped \/ doc = NoDoc
    BY <1>2, Where DEF Placed, Fill, AtFill, Doing, BlankPage
  <2>3. BlankFrom(pos, NoDoc)
    BY DEF BlankFrom, NoDoc
  <2> QED
    BY <2>1, <2>2, <2>3 DEF Ahead
<1>3. ASSUME NEW str \in Texts, Kpanic(str) PROVE Ahead'
  <2>1. pos' = 0 /\ doc' = NoDoc /\ DOMAIN NoDoc = {}
    BY <1>3 DEF Kpanic, NoDoc
  <2> QED
    BY <2>1, SMTT(30) DEF Ahead, IntDoc, BlankFrom
<1>4. CASE CursorBack
  BY <1>4, StillAhead DEF CursorBack
<1>5. ASSUME UNCHANGED history PROVE Ahead'
  BY <1>5, StillAhead DEF history
<1>6. CASE \/ PrintDone \/ Check \/ Up \/ ClearLine \/ Draw \/ PrintGlyph
  BY <1>5, <1>6 DEF PrintDone, Check, Up, ClearLine, Draw, PrintGlyph
<1>7. CASE CursorNext \/ CursorLf \/ CursorCr \/ Home
  BY <1>5, <1>7 DEF CursorNext, CursorLf, CursorCr, Home
<1>8. CASE Shift
  BY <1>8, StillAhead DEF Shift
<1>9. ASSUME \/ \E str \in Texts : Kprintf(str)
             \/ EnableInterrupts
             \/ \E c \in Keys : KeyboardInterrupt(c)
      PROVE  Ahead'
  BY <1>5, <1>9 DEF Kprintf, EnableInterrupts, KeyboardInterrupt
<1>10. CASE Idle
  BY <1>5, <1>10 DEF Idle, vars
<1> QED
  BY <1>1, <1>2, <1>3, <1>4, <1>6, <1>7, <1>8, <1>9, <1>10 DEF Next, Operation

(* Only what is drawn at the end of a row cuts a first column. *)
LEMMA CutParts ==
  ASSUME NEW r, NEW c, NEW x \in CutBehind(r, c)
  PROVE  x \in Cells /\ (x = <<r, c + 1>> \/ (Flush /\ x[2] = 0))
<1>1. ASSUME x \in {<<r, 0>>, <<r + 1, 0>>} PROVE x[2] = 0
  BY <1>1, SMTT(30)
<1> QED
  BY <1>1 DEF CutBehind

LEMMA CutAtEnd ==
  ASSUME NEW r, NEW x \in CutBehind(r, MAX_COL - 1)
  PROVE  Flush /\ x[2] = 0
<1>1. x \in Cells /\ (x = <<r, (MAX_COL - 1) + 1>> \/ (Flush /\ x[2] = 0))
  BY CutParts
<1>2. <<r, (MAX_COL - 1) + 1>> \notin Cells
  BY Sizes, SMTT(30) DEF Cells
<1> QED
  BY <1>1, <1>2

(* The cell behind the one that is drawn is blank. *)
LEMMA BlankBehind ==
  ASSUME Sound, Placed, Ahead, At("glyph"), onward, ~wrapped, col + 1 \in Cols
  PROVE  row < MAX_ROW /\ screen[row][col + 1] = Blank
<1>1. PICK c, d : /\ row < MAX_ROW /\ doc = Put(d, Here, c) /\ Picture(d)
                  /\ (pos = Here \/ pos = Here + 1)
  BY Where DEF Placed, AtGlyph, Doing, Blanks
<1>2. top \in Nat /\ row \in 0..(MAX_ROW - 1) /\ col \in Int
  BY <1>1, SoundParts, Sizes, SMTT(30) DEF CursorOK, CountsOK, Cols
<1>3. PICK h \in Int : h = Here
  BY <1>2, PlaceInt, SMTT(30) DEF Here
<1>4. Place(top + row, col + 1) = h + 1
  BY <1>2, <1>3, PlaceInt, SMTT(30) DEF Here
<1>5. screen[row][col + 1] = IF h + 1 \in DOMAIN d THEN d[h + 1] ELSE Blank
  <2>1. screen[row][col + 1] = IF Place(top + row, col + 1) \in DOMAIN d
                               THEN d[Place(top + row, col + 1)] ELSE Blank
    BY <1>1, <1>2 DEF Picture, Holds
  <2> QED
    BY <1>4, <2>1
<1>6. ASSUME h + 1 \in DOMAIN d PROVE d[h + 1] = Blank
  <2>1. h + 1 # h /\ h + 1 >= pos
    BY <1>1, <1>3, SMTT(30)
  <2>2. h + 1 \in DOMAIN doc /\ doc[h + 1] = d[h + 1]
    BY <1>1, <1>3, <1>6, <2>1 DEF Put
  <2> QED
    BY <2>1, <2>2 DEF Ahead, BlankFrom
<1> QED
  BY <1>1, <1>5, <1>6

LEMMA StillUncut ==
  ASSUME Uncut, UNCHANGED <<screen, cut>>, onward' => onward, wrapped => wrapped'
  PROVE  Uncut'
  BY DEF Uncut, Spared

LEMMA PrintGlyphUncut ==
  ASSUME Sound, Placed, Ahead, Uncut, PrintGlyph
  PROVE  Uncut'
<1>1. /\ onward' = onward /\ wrapped' = wrapped /\ At("glyph")
      /\ IF row < MAX_ROW /\ col < MAX_COL
         THEN /\ screen' = [screen EXCEPT ![row][col] = Head(todo[Running]).chr]
              /\ cut' = (cut \ {<<row, col>>}) \cup CutBehind(row, col)
         ELSE screen' = screen /\ cut' = cut
  BY DEF PrintGlyph, history
<1>2. CASE ~(row < MAX_ROW /\ col < MAX_COL)
  BY <1>1, <1>2, StillUncut
<1>3. CASE row < MAX_ROW /\ col < MAX_COL
  <2> SUFFICES ASSUME onward, ~wrapped, NEW x \in cut' PROVE Spared(x)'
    BY <1>1 DEF Uncut
  <2>1. Grid /\ CutOK /\ row \in Rows /\ col \in Cols /\ col \in Int
    BY <1>3, SoundParts, Sizes, SMTT(30) DEF CursorOK, Rows, Cols
  <2>2. x \in Cells
    BY <1>1, <1>3, <2>1, CutBehindCells DEF CutOK
  <2>3. PICK r \in Rows, c \in Cols : x = <<r, c>> /\ x[1] = r /\ x[2] = c
    BY <2>2, SMTT(30) DEF Cells, Rows, Cols
  <2>4. ~(r = row /\ c = col) => screen'[r][c] = screen[r][c]
    <3>1. screen' = [screen EXCEPT ![row][col] = Head(todo[Running]).chr]
      BY <1>1, <1>3
    <3>2. r \in DOMAIN screen /\ c \in DOMAIN screen[r] /\ row \in DOMAIN screen
      BY <2>1, <2>3 DEF Grid
    <3> QED
      BY <3>1, <3>2, SMTT(30)
  <2>5. CASE x \in cut /\ x # <<row, col>>
    BY <2>3, <2>4, <2>5 DEF Uncut, Spared
  <2>6. CASE x = <<row, col + 1>>
    <3>1. r = row /\ c = col + 1 /\ c # col
      BY <2>1, <2>3, <2>6, SMTT(30)
    <3>2. screen[row][col + 1] = Blank
      BY <1>1, <2>3, <3>1, BlankBehind
    <3> QED
      BY <2>3, <2>4, <3>1, <3>2 DEF Spared
  <2>7. CASE Flush /\ x[2] = 0
    BY <2>7 DEF Spared
  <2> QED
    BY <1>1, <1>3, <2>5, <2>6, <2>7, CutParts
<1> QED
  BY <1>2, <1>3

LEMMA ShiftUncut ==
  ASSUME Sound, Uncut, Shift
  PROVE  Uncut'
<1>1. /\ screen' = [r \in DOMAIN screen |-> screen[IF r < MAX_ROW - 1 THEN r + 1 ELSE r]]
      /\ cut' = {x \in Cells : <<IF x[1] < MAX_ROW - 1 THEN x[1] + 1 ELSE x[1], x[2]>> \in cut}
      /\ onward' = onward /\ wrapped' = wrapped
  BY DEF Shift
<1> SUFFICES ASSUME onward, ~wrapped, NEW x \in cut' PROVE Spared(x)'
  BY <1>1 DEF Uncut
<1>2. PICK r \in Rows, c \in Cols : x = <<r, c>> /\ x[1] = r /\ x[2] = c
  BY <1>1, SMTT(30) DEF Cells, Rows, Cols
<1>3. PICK s : s = IF r < MAX_ROW - 1 THEN r + 1 ELSE r
  OBVIOUS
<1>4. <<s, c>> \in cut /\ <<s, c>>[1] = s /\ <<s, c>>[2] = c
  BY <1>1, <1>2, <1>3
<1>5. screen[s][c] = Blank \/ (Flush /\ c = 0)
  BY <1>4 DEF Uncut, Spared
<1>6. screen'[r] = screen[s]
  BY <1>1, <1>3, SoundParts DEF Grid
<1> QED
  BY <1>2, <1>5, <1>6 DEF Spared

LEMMA ClearLineUncut ==
  ASSUME Sound, Uncut, ClearLine
  PROVE  Uncut'
<1>1. /\ screen' = [screen EXCEPT ![MAX_ROW - 1] = Empty[0]]
      /\ cut' = {x \in cut : x[1] # MAX_ROW - 1} \cup CutBehind(MAX_ROW - 1, MAX_COL - 1)
      /\ onward' = onward /\ wrapped' = wrapped
  BY DEF ClearLine, history
<1> SUFFICES ASSUME onward, ~wrapped, NEW x \in cut' PROVE Spared(x)'
  BY <1>1 DEF Uncut
<1>2. CASE x \in cut /\ x[1] # MAX_ROW - 1
  <2>1. x[1] \in DOMAIN screen
    BY <1>2, SoundParts DEF CutOK, Cells, Grid, Rows
  <2>2. screen'[x[1]] = screen[x[1]]
    BY <1>1, <1>2, <2>1
  <2> QED
    BY <1>2, <2>2 DEF Uncut, Spared
<1>3. CASE x \in CutBehind(MAX_ROW - 1, MAX_COL - 1)
  BY <1>3, CutAtEnd DEF Spared
<1> QED
  BY <1>1, <1>2, <1>3

LEMMA FillUncut ==
  ASSUME Fill
  PROVE  Uncut'
<1>1. cut' = UNION {CutBehind(r, MAX_COL - 1) : r \in 0..(MAX_ROW - 1)}
  BY DEF Fill
<1>2. ASSUME NEW x \in cut' PROVE Spared(x)'
  BY <1>1, CutAtEnd DEF Spared
<1> QED
  BY <1>2 DEF Uncut

LEMMA UncutStep ==
  ASSUME Sound, Placed, Ahead, Uncut, Next
  PROVE  Uncut'
<1>1. CASE PrintNext
  <2>1. UNCHANGED <<screen, cut, wrapped>> /\ (onward' => onward)
    BY <1>1 DEF PrintNext
  <2> QED
    BY <2>1, StillUncut
<1>2. CASE CursorBack
  <2>1. UNCHANGED <<screen, cut, onward>> /\ (wrapped => wrapped')
    BY <1>2 DEF CursorBack
  <2> QED
    BY <2>1, StillUncut
<1>3. ASSUME UNCHANGED <<screen, cut, history>> PROVE Uncut'
  <2>1. UNCHANGED <<screen, cut, onward, wrapped>>
    BY <1>3 DEF history
  <2> QED
    BY <2>1, StillUncut
<1>4. CASE PrintDone \/ Check \/ Up \/ Draw
  BY <1>3, <1>4 DEF PrintDone, Check, Up, Draw
<1>5. CASE CursorNext \/ CursorLf \/ CursorCr \/ Home
  BY <1>3, <1>5 DEF CursorNext, CursorLf, CursorCr, Home
<1>6. ASSUME NEW str \in Texts, Kpanic(str) PROVE Uncut'
  <2>1. UNCHANGED <<screen, cut, onward, wrapped>>
    BY <1>6 DEF Kpanic
  <2> QED
    BY <2>1, StillUncut
<1>7. ASSUME \/ \E str \in Texts : Kprintf(str)
             \/ EnableInterrupts
             \/ \E c \in Keys : KeyboardInterrupt(c)
      PROVE  Uncut'
  BY <1>3, <1>7 DEF Kprintf, EnableInterrupts, KeyboardInterrupt
<1>8. CASE Idle
  BY <1>3, <1>8 DEF Idle, vars
<1> QED
  BY <1>1, <1>2, <1>4, <1>5, <1>6, <1>7, <1>8, PrintGlyphUncut, ShiftUncut, ClearLineUncut, FillUncut
     DEF Next, Operation

-----------------------------------------------------------------------------
(* The theorems.                                                           *)

ConsoleInv == Sound /\ (~Overlap => Placed /\ Ahead /\ Uncut)

LEMMA ConsoleInvInit == Init => ConsoleInv
<1> SUFFICES ASSUME Init PROVE ConsoleInv
  OBVIOUS
<1>1. CursorOK /\ CountsOK /\ ShownOK /\ FlowsOK /\ CutOK /\ Grid
  BY Sizes, ConsoleAssumption, SMTT(30)
     DEF Init, CursorOK, CountsOK, ShownOK, FlowsOK, CutOK, Grid, Rows, Cols
<1>2. todo["main"] = clear /\ todo["isr"] = <<>>
  BY DEF Init, Flows
<1>3. Solo /\ cur = <<Op("fill"), Op("home"), Op("draw")>>
  BY <1>2 DEF Solo, cur, Running, clear
<1>4. AtFill /\ ~stray
  BY <1>3 DEF Init, AtFill, BlankPage
<1>5. MarksOK /\ Uncut
  BY DEF Init, MarksOK, Uncut
<1>6. Ahead
  <2>1. pos = 0 /\ DOMAIN doc = {} /\ ~onward
    BY DEF Init, NoDoc
  <2> QED
    BY <2>1, SMTT(30) DEF Ahead, IntDoc
<1> QED
  BY <1>1, <1>3, <1>4, <1>5, <1>6, SoundParts DEF ConsoleInv, Placed, Somewhere

LEMMA ConsoleInvStep == ConsoleInv /\ [Next]_vars => ConsoleInv'
<1> SUFFICES ASSUME ConsoleInv, [Next]_vars PROVE ConsoleInv'
  OBVIOUS
<1>1. CASE UNCHANGED vars
  <2>1. Sound'
    BY <1>1, SoundParts
       DEF ConsoleInv, vars, CursorOK, CountsOK, MarksOK, ShownOK, FlowsOK, CutOK, Grid, cursor, history
  <2>2. ASSUME Placed PROVE Placed'
    BY <1>1, <2>2, StillPlaced DEF vars, cursor, history
  <2>3. (Ahead => Ahead') /\ (Uncut => Uncut')
    BY <1>1, StillAhead, StillUncut DEF vars, history
  <2> QED
    BY <2>1, <2>2, <2>3 DEF ConsoleInv
<1>2. CASE Next
  <2>1. Sound /\ Sound'
    BY <1>2, SoundStep DEF ConsoleInv
  <2>2. ASSUME ~Overlap PROVE Placed'
    <3>1. Placed
      BY <2>2 DEF ConsoleInv
    <3>2. CASE EnableInterrupts
      BY <3>1, <3>2, StillPlaced DEF EnableInterrupts, cursor, history
    <3>3. CASE Idle
      BY <3>1, <3>3, StillPlaced DEF Idle, vars, cursor, history
    <3> QED
      BY <1>2, <2>1, <2>2, <3>1, <3>2, <3>3, OperationPlaced, CallersPlaced DEF Next
  <2>3. ASSUME ~Overlap PROVE Ahead' /\ Uncut'
    BY <1>2, <2>1, <2>3, AheadStep, UncutStep DEF ConsoleInv
  <2> QED
    BY <2>1, <2>2, <2>3 DEF ConsoleInv
<1> QED
  BY <1>1, <1>2

(* The inductive invariant: the cursor, the screen and the flows have      *)
(* their types and, when no key arrives during a print, each place in the  *)
(* methods of Console finds the cursor and the rows of the screen where    *)
(* the paper has them; and unless a carriage return was typed, what is     *)
(* ahead of the cursor, and with it what is cut, is blank.                 *)
THEOREM ConsoleInvHolds == Spec => []ConsoleInv
  BY ConsoleInvInit, ConsoleInvStep, PTL DEF Spec

(* No glyph is drawn outside the screen unless the cursor was moved back   *)
(* over the top or a key arrived during a print (_print_char checks the    *)
(* row once per character), and the cursor stays in its fields.            *)
THEOREM DrawsInsideAlways == Spec => []DrawsInside
<1>1. ConsoleInv => DrawsInside
  BY DEF ConsoleInv, Sound, Placed, DrawsInside
<1> QED
  BY <1>1, ConsoleInvHolds, PTL

(* Without interrupted prints, between prints what is shown is what was    *)
(* written, the cursor is where the characters typed so far lead, and the  *)
(* screen holds the last MAX_ROW rows of the paper, blank where nothing    *)
(* was typed; and without carriage returns the wide stores of set_pixel    *)
(* cut nothing but blanks and, where Flush, cells of the first column.     *)
THEOREM MatchesTerminalAlways == ASSUME ~Overlap PROVE Spec => []MatchesTerminal
<1>1. ASSUME ConsoleInv PROVE MatchesTerminal
  <2>1. ASSUME Quiet PROVE Calm
    <3>1. cur = <<>>
      BY <2>1 DEF Quiet, Flows, cur, Running
    <3> QED
      BY <1>1, <3>1, NoneLeft DEF ConsoleInv, Placed
  <2>2. ASSUME Quiet, ~wrapped
        PROVE  /\ (top + row) * MAX_COL + col = pos
               /\ \A r \in 0..(MAX_ROW - 1), c \in 0..(MAX_COL - 1) :
                    LET p == (top + r) * MAX_COL + c
                    IN  screen[r][c] = IF p \in DOMAIN doc THEN doc[p] ELSE Blank
               /\ onward => \A x \in cut : screen[x[1]][x[2]] = Blank \/ (Flush /\ x[2] = 0)
    <3>1. AtRest
      BY <2>1, <2>2 DEF Calm
    <3>2. (top + row) * MAX_COL + col = pos
      BY <3>1 DEF AtRest, Here, Place
    <3>3. Holds(doc, MAX_ROW)
      BY <3>1 DEF AtRest, Picture
    <3>4. onward => \A x \in cut : screen[x[1]][x[2]] = Blank \/ (Flush /\ x[2] = 0)
      BY <1>1, <2>2 DEF ConsoleInv, Uncut, Spared
    <3> QED
      BY <3>2, <3>3, <3>4 DEF Holds, Place, Cols
  <2> QED
    BY <2>1, <2>2 DEF MatchesTerminal, Calm
<1> QED
  BY <1>1, ConsoleInvHolds, PTL
=============================================================================
