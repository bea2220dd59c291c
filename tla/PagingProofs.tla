---------------------------- MODULE PagingProofs ----------------------------
(***************************************************************************)
(* Proofs about Paging, for every table size, page size, pointer width and *)
(* well-formed machine: the inductive invariant and, with the theory of    *)
(* finite sets (PMem grants a free frame, and the tables that page tables  *)
(* point to can be counted), the theorems.                                 *)
(***************************************************************************)
EXTENDS Paging, TLAPS

(* A step that names no prover is left to Zenon. *)
USE ZenonT(30)

-----------------------------------------------------------------------------
(* Arithmetic.                                                             *)

(* Quotient and remainder are what division defines. *)
LEMMA DivMod ==
  ASSUME NEW n \in Nat \ {0}, NEW a \in Nat
  PROVE  a \div n \in Nat /\ a % n \in 0..(n - 1) /\ a = n * (a \div n) + (a % n)
  BY Z3

(* They are unique. *)
LEMMA DivUnique ==
  ASSUME NEW n \in Nat \ {0}, NEW q \in Nat, NEW r \in 0..(n - 1), NEW a \in Nat,
         a = n * q + r
  PROVE  a \div n = q /\ a % n = r
<1>1. a \div n \in Nat /\ a % n \in 0..(n - 1) /\ a = n * (a \div n) + (a % n)
  BY DivMod
<1>2. PICK x \in Nat : x = a \div n
  BY <1>1
<1>3. PICK y \in 0..(n - 1) : y = a % n
  BY <1>1
<1>4. n * q + r = n * x + y
  BY <1>1, <1>2, <1>3
<1>5. ASSUME NEW c \in Nat, NEW d \in Nat, NEW s \in 0..(n - 1), NEW t \in 0..(n - 1),
             c < d, n * c + s = n * d + t
      PROVE  FALSE
  <2>1. PICK e \in Nat : d = c + 1 + e
    <3>1. d - c - 1 \in Nat /\ d = c + 1 + (d - c - 1)
      BY <1>5, SMTT(30)
    <3> QED BY <3>1
  <2>2. n * (c + 1 + e) = n * c + n + n * e /\ n * e \in Nat /\ n * c \in Nat
    BY Z3
  <2> QED BY <1>5, <2>1, <2>2, SMTT(30)
<1>6. ~(q < x) /\ ~(x < q)
  BY <1>4, <1>5
<1>7. q = x
  BY <1>6, SMTT(30)
<1>8. n * q \in Nat
  BY Z3
<1>9. r = y
  BY <1>4, <1>7, <1>8, SMTT(30)
<1> QED BY <1>2, <1>3, <1>7, <1>9

(* Below n the remainder is the number itself. *)
LEMMA ModSmall ==
  ASSUME NEW n \in Nat \ {0}, NEW a \in 0..(n - 1)
  PROVE  a % n = a
<1>1. a = n * 0 + a
  BY Z3
<1> QED BY <1>1, DivUnique, SMTT(30)

(* Dividing twice divides by the product. *)
LEMMA DivDiv ==
  ASSUME NEW n \in Nat \ {0}, NEW m \in Nat \ {0}, NEW a \in Nat
  PROVE  a \div (m * n) = (a \div n) \div m /\ m * n \in Nat \ {0}
<1>1. PICK q \in Nat, r \in 0..(n - 1) : q = a \div n /\ a = n * q + r
  BY DivMod
<1>2. PICK p \in Nat, s \in 0..(m - 1) : p = q \div m /\ q = m * p + s
  BY DivMod, SMTT(30)
<1>3. a = n * (m * p + s) + r
  BY <1>1, <1>2
<1>4. n * (m * p + s) + r = (m * n) * p + (n * s + r)
  BY Z3
<1>5. m * n \in Nat \ {0}
  BY Z3
<1>6. n * s + r \in 0..(m * n - 1)
  <2>1. PICK t \in Nat : m = s + 1 + t
    <3>1. m - s - 1 \in Nat /\ m = s + 1 + (m - s - 1)
      BY SMTT(30)
    <3> QED BY <3>1
  <2>2. (s + 1 + t) * n = n * s + n + t * n /\ t * n \in Nat /\ n * s \in Nat
    BY Z3
  <2> QED BY <2>1, <2>2, SMTT(30)
<1>7. a = (m * n) * p + (n * s + r)
  BY <1>3, <1>4
<1>8. a \div (m * n) = p
  BY <1>5, <1>6, <1>7, DivUnique, SMTT(30)
<1> QED BY <1>1, <1>2, <1>5, <1>8

(* The quotient is the number of whole times n fits. *)
LEMMA DivFits ==
  ASSUME NEW n \in Nat \ {0}, NEW a \in Nat, NEW j \in Nat
  PROVE  j * n <= a <=> j <= a \div n
<1>1. PICK q \in Nat, r \in 0..(n - 1) : q = a \div n /\ a = n * q + r
  BY DivMod
<1>2. ASSUME j <= q PROVE j * n <= a
  <2>1. PICK e \in Nat : q = j + e
    <3>1. q - j \in Nat /\ q = j + (q - j)
      BY <1>2, SMTT(30)
    <3> QED BY <3>1
  <2>2. n * (j + e) = j * n + n * e /\ n * e \in Nat /\ j * n \in Nat
    BY Z3
  <2> QED BY <1>1, <2>1, <2>2, SMTT(30)
<1>3. ASSUME q < j PROVE ~(j * n <= a)
  <2>1. PICK e \in Nat : j = q + 1 + e
    <3>1. j - q - 1 \in Nat /\ j = q + 1 + (j - q - 1)
      BY <1>3, SMTT(30)
    <3> QED BY <3>1
  <2>2. (q + 1 + e) * n = n * q + n + n * e /\ n * e \in Nat /\ n * q \in Nat
    BY Z3
  <2> QED BY <1>1, <2>1, <2>2, SMTT(30)
<1> QED BY <1>1, <1>2, <1>3, SMTT(30)

-----------------------------------------------------------------------------
(* Indices.                                                                *)

(* PageIndexer takes the digits of a page number to base E. *)
LEMMA IndexDigits ==
  ASSUME NEW v \in Nat
  PROVE  /\ PageIndexer(v, 1) = v % E
         /\ PageIndexer(v, 2) = (v \div E) % E
         /\ PageIndexer(v, 3) = ((v \div E) \div E) % E
         /\ PageIndexer(v, 4) = (((v \div E) \div E) \div E) % E
<1>1. E \in Nat \ {0} /\ v \div E \in Nat /\ (v \div E) \div E \in Nat
  BY PagingAssumption, DivMod
<1>2. v \div 1 = v
  BY Z3
<1>3. v \div (E * E) = (v \div E) \div E /\ E * E \in Nat \ {0}
  BY <1>1, DivDiv
<1>4. v \div (E * (E * E)) = ((v \div E) \div E) \div E
  BY <1>1, <1>3, DivDiv, SMTT(30)
<1>5. E * (E * E) = E * E * E
  BY <1>1, Z3
<1> QED BY <1>2, <1>3, <1>4, <1>5, SMTT(30) DEF PageIndexer

(* An index is one of the E slots of a table. *)
LEMMA IndexType ==
  ASSUME NEW v \in Nat, NEW l \in 1..4
  PROVE  PageIndexer(v, l) \in 0..(E - 1)
<1>1. E \in Nat \ {0} /\ v \div E \in Nat /\ (v \div E) \div E \in Nat
      /\ ((v \div E) \div E) \div E \in Nat
  BY PagingAssumption, DivMod
<1>2. \A a \in Nat : a % E \in 0..(E - 1)
  BY <1>1, DivMod
<1>3. l = 1 \/ l = 2 \/ l = 3 \/ l = 4
  BY SMTT(30)
<1> QED BY <1>1, <1>2, <1>3, IndexDigits

(* Two pages with the same indices are the same page. *)
LEMMA SamePage ==
  ASSUME NEW v \in Virtual, NEW w \in Virtual,
         PageIndexer(v, 1) = PageIndexer(w, 1), PageIndexer(v, 2) = PageIndexer(w, 2),
         PageIndexer(v, 3) = PageIndexer(w, 3), PageIndexer(v, 4) = PageIndexer(w, 4)
  PROVE  v = w
<1>1. /\ E \in Nat \ {0} /\ v \in Nat /\ w \in Nat
      /\ E * E \in Nat \ {0} /\ E * E * E \in Nat \ {0} /\ E * E * E * E \in Nat \ {0}
      /\ v < E * E * E * E /\ w < E * E * E * E
  <2>1. E \in Nat \ {0}
    BY PagingAssumption
  <2>2. E * E \in Nat \ {0}
    BY <2>1, Z3
  <2>3. E * E * E \in Nat \ {0}
    BY <2>1, <2>2, Z3
  <2>4. E * E * E * E \in Nat \ {0}
    BY <2>1, <2>3, Z3
  <2> QED BY <2>1, <2>2, <2>3, <2>4, SMTT(30) DEF Virtual
<1>2. ASSUME NEW a \in Nat, a < E * E * E * E
      PROVE  \E a1, a2, a3 \in Nat :
               /\ a1 = a \div E /\ a2 = a1 \div E /\ a3 = a2 \div E
               /\ a = E * a1 + (a % E) /\ a1 = E * a2 + (a1 % E) /\ a2 = E * a3 + (a2 % E)
               /\ a3 % E = a3
  <2>1. PICK a1 \in Nat : a1 = a \div E /\ a = E * a1 + (a % E)
    BY <1>1, DivMod
  <2>2. PICK a2 \in Nat : a2 = a1 \div E /\ a1 = E * a2 + (a1 % E)
    BY <1>1, DivMod
  <2>3. PICK a3 \in Nat : a3 = a2 \div E /\ a2 = E * a3 + (a2 % E)
    BY <1>1, DivMod
  <2>4. a \div (E * E) = a2
    BY <1>1, <2>1, <2>2, DivDiv, SMTT(30)
  <2>5. a \div (E * (E * E)) = a3
    BY <1>1, <2>3, <2>4, DivDiv
  <2>6. E * (E * E) = E * E * E /\ E * (E * E * E) = E * E * E * E
    BY <1>1, Z3
  <2>7. ~(E * (E * E * E) <= a)
    BY <1>1, <1>2, <2>6, SMTT(30)
  <2>8. ~(E <= a \div (E * E * E))
    BY <1>1, <2>7, DivFits
  <2>9. a3 \in 0..(E - 1)
    BY <1>1, <2>5, <2>6, <2>8, SMTT(30)
  <2>10. a3 % E = a3
    BY <1>1, <2>9, ModSmall
  <2> QED BY <2>1, <2>2, <2>3, <2>10
<1>3. PICK v1, v2, v3 \in Nat :
        /\ v1 = v \div E /\ v2 = v1 \div E /\ v3 = v2 \div E
        /\ v = E * v1 + (v % E) /\ v1 = E * v2 + (v1 % E) /\ v2 = E * v3 + (v2 % E)
        /\ v3 % E = v3
  BY <1>1, <1>2
<1>4. PICK w1, w2, w3 \in Nat :
        /\ w1 = w \div E /\ w2 = w1 \div E /\ w3 = w2 \div E
        /\ w = E * w1 + (w % E) /\ w1 = E * w2 + (w1 % E) /\ w2 = E * w3 + (w2 % E)
        /\ w3 % E = w3
  BY <1>1, <1>2
<1>5. v % E = w % E /\ v1 % E = w1 % E /\ v2 % E = w2 % E /\ v3 % E = w3 % E
  <2>1. /\ PageIndexer(v, 1) = v % E /\ PageIndexer(v, 2) = v1 % E
        /\ PageIndexer(v, 3) = v2 % E /\ PageIndexer(v, 4) = v3 % E
    BY <1>1, <1>3, IndexDigits
  <2>2. /\ PageIndexer(w, 1) = w % E /\ PageIndexer(w, 2) = w1 % E
        /\ PageIndexer(w, 3) = w2 % E /\ PageIndexer(w, 4) = w3 % E
    BY <1>1, <1>4, IndexDigits
  <2> QED BY <2>1, <2>2
<1>6. v3 = w3
  BY <1>3, <1>4, <1>5
<1>7. v2 = w2
  BY <1>3, <1>4, <1>5, <1>6
<1>8. v1 = w1
  BY <1>3, <1>4, <1>5, <1>7
<1> QED BY <1>3, <1>4, <1>5, <1>8

-----------------------------------------------------------------------------
(* Trees of tables: M gives the rows of the frames, p is the root.         *)

Ix == 0..(E - 1)
Down(M, T) == {M[t][x] : t \in T, x \in Ix} \ {Absent}
L3(M, p) == Down(M, {p})
L2(M, p) == Down(M, L3(M, p))
L1(M, p) == Down(M, L2(M, p))
Lower(M, p) == L3(M, p) \cup L2(M, p) \cup L1(M, p)
Upper(M, p) == {p} \cup L3(M, p) \cup L2(M, p)

(* No frame is entered in two slots. *)
OneSlot(M, T) ==
  \A s, t \in T : \A x, y \in Ix :
    M[s][x] = M[t][y] /\ M[s][x] # Absent => s = t /\ x = y

Tree(M, p) ==
  /\ p \in DOMAIN M /\ Absent \notin DOMAIN M
  /\ Lower(M, p) \subseteq DOMAIN M /\ p \notin Lower(M, p)
  /\ OneSlot(M, Upper(M, p))

(* The tables on the way to page v, and the frame it is mapped to. *)
Step(M, t, v, l) == IF t = Absent THEN Absent ELSE M[t][PageIndexer(v, l)]
P3(M, p, v) == Step(M, p, v, 4)
P2(M, p, v) == Step(M, P3(M, p, v), v, 3)
P1(M, p, v) == Step(M, P2(M, p, v), v, 2)
P0(M, p, v) == Step(M, P1(M, p, v), v, 1)

(* Frame f is entered in slot x of s, a table in T. *)
Slot(M, T, s, x, f) == s \in T /\ x \in Ix /\ f = M[s][x] /\ f # Absent

(* What OneSlot says of one frame. *)
LEMMA SlotOf ==
  ASSUME NEW M, NEW T, OneSlot(M, T), NEW s, NEW t, NEW x, NEW y, NEW f,
         Slot(M, T, s, x, f), Slot(M, T, t, y, f)
  PROVE  s = t /\ x = y
<1>1. /\ s \in T /\ x \in Ix /\ f = M[s][x] /\ f # Absent
      /\ t \in T /\ y \in Ix /\ f = M[t][y]
  BY DEF Slot
<1>2. M[s][x] = M[t][y] /\ M[s][x] # Absent => s = t /\ x = y
  <2>1. \A a, b \in Ix : M[s][a] = M[t][b] /\ M[s][a] # Absent => s = t /\ a = b
    BY <1>1 DEF OneSlot
  <2> QED BY <1>1, <2>1
<1> QED BY <1>1, <1>2

(* The levels have no table in common. *)
LEMMA LevelsApart ==
  ASSUME NEW M, NEW p, Tree(M, p)
  PROVE  /\ p \notin L3(M, p) /\ p \notin L2(M, p) /\ p \notin L1(M, p)
         /\ L3(M, p) \cap L2(M, p) = {} /\ L2(M, p) \cap L1(M, p) = {}
         /\ L3(M, p) \cap L1(M, p) = {}
<1>1. p \notin L3(M, p) /\ p \notin L2(M, p) /\ p \notin L1(M, p)
  BY DEF Tree, Lower
<1>2. OneSlot(M, Upper(M, p)) /\ p \in Upper(M, p)
      /\ L3(M, p) \subseteq Upper(M, p) /\ L2(M, p) \subseteq Upper(M, p)
  BY DEF Tree, Upper
<1>3. ASSUME NEW f \in L3(M, p)
      PROVE  f # Absent /\ \E x \in Ix : f = M[p][x]
  BY <1>3, SMTT(30) DEF L3, Down
<1>4. ASSUME NEW f \in L2(M, p)
      PROVE  f # Absent /\ \E t \in L3(M, p), x \in Ix : f = M[t][x]
  BY <1>4, SMTT(30) DEF L2, Down
<1>5. ASSUME NEW f \in L1(M, p)
      PROVE  f # Absent /\ \E t \in L2(M, p), x \in Ix : f = M[t][x]
  BY <1>5, SMTT(30) DEF L1, Down
<1>6. ASSUME NEW f \in L3(M, p) \cap L2(M, p) PROVE FALSE
  BY <1>1, <1>2, <1>3, <1>4, SMTT(30) DEF OneSlot
<1>7. ASSUME NEW f \in L2(M, p) \cap L1(M, p) PROVE FALSE
  <2>1. PICK t \in L3(M, p), x \in Ix : f = M[t][x]
    BY <1>4
  <2>2. PICK u \in L2(M, p), y \in Ix : f = M[u][y]
    BY <1>5
  <2>3. t = u
    <3>1. Slot(M, Upper(M, p), t, x, f) /\ Slot(M, Upper(M, p), u, y, f)
      BY <1>2, <1>4, <2>1, <2>2 DEF Slot
    <3> QED BY <1>2, <3>1, SlotOf
  <2> QED BY <1>6, <2>3
<1>8. ASSUME NEW f \in L3(M, p) \cap L1(M, p) PROVE FALSE
  BY <1>1, <1>2, <1>3, <1>5, SMTT(30) DEF OneSlot
<1> QED BY <1>1, <1>6, <1>7, <1>8

(* A path goes down one level at a time. *)
LEMMA PathLevels ==
  ASSUME NEW M, NEW p, NEW v \in Nat
  PROVE  /\ P3(M, p, v) \in L3(M, p) \cup {Absent}
         /\ P2(M, p, v) \in L2(M, p) \cup {Absent}
         /\ P1(M, p, v) \in L1(M, p) \cup {Absent}
<1>1. \A l \in 1..4 : PageIndexer(v, l) \in Ix
  BY IndexType DEF Ix
<1>2. ASSUME NEW T, NEW t \in T \cup {Absent}, NEW l \in 1..4
      PROVE  Step(M, t, v, l) \in Down(M, T) \cup {Absent}
  BY <1>1, SMTT(30) DEF Step, Down
<1>3. P3(M, p, v) \in L3(M, p) \cup {Absent}
  BY <1>2, SMTT(30) DEF P3, L3
<1>4. P2(M, p, v) \in L2(M, p) \cup {Absent}
  BY <1>2, <1>3, SMTT(30) DEF P2, L2
<1>5. P1(M, p, v) \in L1(M, p) \cup {Absent}
  BY <1>2, <1>4, SMTT(30) DEF P1, L1
<1> QED BY <1>3, <1>4, <1>5

(* Pages whose paths meet in a page table differ in the last index only. *)
LEMMA PathsMeet ==
  ASSUME NEW M, NEW p, Tree(M, p), NEW v \in Virtual, NEW w \in Virtual,
         P1(M, p, v) = P1(M, p, w), P1(M, p, v) # Absent,
         PageIndexer(v, 1) = PageIndexer(w, 1)
  PROVE  v = w
<1>1. v \in Nat /\ w \in Nat
  BY SMTT(30) DEF Virtual
<1>2. /\ PageIndexer(v, 2) \in Ix /\ PageIndexer(v, 3) \in Ix /\ PageIndexer(v, 4) \in Ix
      /\ PageIndexer(w, 2) \in Ix /\ PageIndexer(w, 3) \in Ix /\ PageIndexer(w, 4) \in Ix
  BY <1>1, IndexType, SMTT(30) DEF Ix
<1>3. /\ P2(M, p, v) # Absent /\ P2(M, p, w) # Absent
      /\ P1(M, p, v) = M[P2(M, p, v)][PageIndexer(v, 2)]
      /\ P1(M, p, w) = M[P2(M, p, w)][PageIndexer(w, 2)]
  BY DEF P1, Step
<1>4. /\ P3(M, p, v) # Absent /\ P3(M, p, w) # Absent
      /\ P2(M, p, v) = M[P3(M, p, v)][PageIndexer(v, 3)]
      /\ P2(M, p, w) = M[P3(M, p, w)][PageIndexer(w, 3)]
  BY <1>3 DEF P2, Step
<1>5. /\ P3(M, p, v) = M[p][PageIndexer(v, 4)]
      /\ P3(M, p, w) = M[p][PageIndexer(w, 4)]
  BY <1>4 DEF P3, Step
<1>6. /\ P3(M, p, v) \in Upper(M, p) /\ P3(M, p, w) \in Upper(M, p)
      /\ P2(M, p, v) \in Upper(M, p) /\ P2(M, p, w) \in Upper(M, p)
      /\ p \in Upper(M, p)
  BY <1>1, <1>3, <1>4, PathLevels DEF Upper
<1>7. OneSlot(M, Upper(M, p))
  BY DEF Tree
<1>8. P2(M, p, v) = P2(M, p, w) /\ PageIndexer(v, 2) = PageIndexer(w, 2)
  <2>1. /\ Slot(M, Upper(M, p), P2(M, p, v), PageIndexer(v, 2), P1(M, p, v))
        /\ Slot(M, Upper(M, p), P2(M, p, w), PageIndexer(w, 2), P1(M, p, v))
    BY <1>2, <1>3, <1>6 DEF Slot
  <2> QED BY <1>7, <2>1, SlotOf, SMTT(30)
<1>9. P3(M, p, v) = P3(M, p, w) /\ PageIndexer(v, 3) = PageIndexer(w, 3)
  <2>1. /\ Slot(M, Upper(M, p), P3(M, p, v), PageIndexer(v, 3), P2(M, p, v))
        /\ Slot(M, Upper(M, p), P3(M, p, w), PageIndexer(w, 3), P2(M, p, v))
    BY <1>2, <1>3, <1>4, <1>6, <1>8 DEF Slot
  <2> QED BY <1>7, <2>1, SlotOf, SMTT(30)
<1>10. PageIndexer(v, 4) = PageIndexer(w, 4)
  <2>1. /\ Slot(M, Upper(M, p), p, PageIndexer(v, 4), P3(M, p, v))
        /\ Slot(M, Upper(M, p), p, PageIndexer(w, 4), P3(M, p, v))
    BY <1>2, <1>4, <1>5, <1>6, <1>9 DEF Slot
  <2> QED BY <1>7, <2>1, SlotOf, SMTT(30)
<1> QED BY <1>8, <1>9, <1>10, SamePage

-----------------------------------------------------------------------------
(* A new table f is entered in slot i of table t.                          *)

Added(M, t, i, f, M2) ==
  /\ DOMAIN M2 = DOMAIN M /\ f # t
  /\ \A x \in Ix : M2[f][x] = Absent
  /\ M2[t][i] = f
  /\ \A x \in Ix \ {i} : M2[t][x] = M[t][x]
  /\ \A s \in DOMAIN M \ {f, t} : M2[s] = M[s]

(* The tables below T, if neither the slot nor the new table is in T. *)
LEMMA DownSame ==
  ASSUME NEW M, NEW t, NEW i, NEW f, NEW M2, Added(M, t, i, f, M2),
         NEW T, T \subseteq DOMAIN M, f \notin T, t \notin T
  PROVE  Down(M2, T) = Down(M, T)
<1>1. \A s \in T : M2[s] = M[s]
  BY DEF Added
<1> QED BY <1>1, SMTT(30) DEF Down

(* The new table adds none below it. *)
LEMMA DownFresh ==
  ASSUME NEW M, NEW t, NEW i, NEW f, NEW M2, Added(M, t, i, f, M2),
         NEW T, T \subseteq DOMAIN M, f \notin T, t \notin T
  PROVE  Down(M2, T \cup {f}) = Down(M, T)
<1>1. \A x \in Ix : M2[f][x] = Absent
  BY DEF Added
<1>2. Down(M2, T) = Down(M, T)
  BY DownSame, SMTT(30)
<1>3. Down(M2, T \cup {f}) = Down(M2, T)
  BY <1>1, SMTT(30) DEF Down
<1> QED BY <1>2, <1>3

(* The tables below T, if the slot is in T. *)
LEMMA DownAdded ==
  ASSUME NEW M, NEW t, NEW i \in Ix, NEW f, NEW M2, Added(M, t, i, f, M2),
         M[t][i] = Absent, f # Absent, NEW T, T \subseteq DOMAIN M, f \notin T, t \in T
  PROVE  Down(M2, T) = Down(M, T) \cup {f}
<1>1. ASSUME NEW g \in Down(M2, T) PROVE g \in Down(M, T) \cup {f}
  <2>1. PICK s \in T, x \in Ix : g = M2[s][x] /\ g # Absent
    BY <1>1, SMTT(30) DEF Down
  <2>2. CASE s = t /\ x = i
    BY <2>1, <2>2 DEF Added
  <2>3. CASE ~(s = t /\ x = i)
    <3>1. M2[s][x] = M[s][x]
      BY <2>1, <2>3 DEF Added
    <3> QED BY <2>1, <3>1, SMTT(30) DEF Down
  <2> QED BY <2>2, <2>3
<1>2. ASSUME NEW g \in Down(M, T) PROVE g \in Down(M2, T)
  <2>1. PICK s \in T, x \in Ix : g = M[s][x] /\ g # Absent
    BY <1>2, SMTT(30) DEF Down
  <2>2. ~(s = t /\ x = i)
    BY <2>1
  <2>3. M2[s][x] = M[s][x]
    BY <2>1, <2>2 DEF Added
  <2> QED BY <2>1, <2>3, SMTT(30) DEF Down
<1>3. f \in Down(M2, T)
  BY SMTT(30) DEF Added, Down
<1> QED BY <1>1, <1>2, <1>3

(* The slots stay different. *)
LEMMA OneSlotAdded ==
  ASSUME NEW M, NEW t, NEW i \in Ix, NEW f, NEW M2, Added(M, t, i, f, M2),
         M[t][i] = Absent, NEW T, T \subseteq DOMAIN M, f \notin T, t \in T,
         OneSlot(M, T), f \notin Down(M, T)
  PROVE  OneSlot(M2, T \cup {f})
<1>1. ASSUME NEW s, NEW x, NEW g, Slot(M2, T \cup {f}, s, x, g)
      PROVE  \/ g = f /\ s = t /\ x = i
             \/ g # f /\ Slot(M, T, s, x, g)
  <2>1. s # f /\ s \in T /\ x \in Ix /\ g = M2[s][x] /\ g # Absent
    BY <1>1 DEF Slot, Added
  <2>2. CASE s = t /\ x = i
    BY <2>1, <2>2 DEF Added
  <2>3. CASE ~(s = t /\ x = i)
    <3>1. M2[s][x] = M[s][x]
      BY <2>1, <2>3 DEF Added
    <3>2. Slot(M, T, s, x, g)
      BY <2>1, <3>1 DEF Slot
    <3>3. g \in Down(M, T)
      BY <2>1, <3>1, SMTT(30) DEF Down
    <3> QED BY <3>2, <3>3
  <2> QED BY <2>2, <2>3
<1>2. ASSUME NEW s \in T \cup {f}, NEW u \in T \cup {f}, NEW x \in Ix, NEW y \in Ix,
             M2[s][x] = M2[u][y], M2[s][x] # Absent
      PROVE  s = u /\ x = y
  <2>1. PICK g : g = M2[s][x]
    OBVIOUS
  <2>2. Slot(M2, T \cup {f}, s, x, g) /\ Slot(M2, T \cup {f}, u, y, g)
    BY <1>2, <2>1 DEF Slot
  <2>3. \/ g = f /\ s = t /\ x = i /\ u = t /\ y = i
        \/ Slot(M, T, s, x, g) /\ Slot(M, T, u, y, g)
    BY <1>1, <2>2
  <2> QED BY <2>3, SlotOf
<1> QED BY <1>2, SMTT(30) DEF OneSlot

(* The slots of a smaller set of tables. *)
LEMMA OneSlotLess ==
  ASSUME NEW M, NEW T, NEW S, S \subseteq T, OneSlot(M, T)
  PROVE  OneSlot(M, S)
  BY DEF OneSlot

(* The levels of the tree after the step. *)
LEMMA LevelsAdded ==
  ASSUME NEW M, NEW p, Tree(M, p), NEW t \in Upper(M, p), NEW i \in Ix, NEW f \in DOMAIN M,
         M[t][i] = Absent, f # p, f \notin Lower(M, p), NEW M2, Added(M, t, i, f, M2)
  PROVE  /\ t = p => /\ L3(M2, p) = L3(M, p) \cup {f}
                     /\ L2(M2, p) = L2(M, p) /\ L1(M2, p) = L1(M, p)
         /\ t \in L3(M, p) => /\ L3(M2, p) = L3(M, p)
                              /\ L2(M2, p) = L2(M, p) \cup {f} /\ L1(M2, p) = L1(M, p)
         /\ t \in L2(M, p) => /\ L3(M2, p) = L3(M, p)
                              /\ L2(M2, p) = L2(M, p) /\ L1(M2, p) = L1(M, p) \cup {f}
<1>1. /\ p \in DOMAIN M /\ f # Absent
      /\ L3(M, p) \subseteq DOMAIN M /\ L2(M, p) \subseteq DOMAIN M /\ L1(M, p) \subseteq DOMAIN M
      /\ f \notin L3(M, p) /\ f \notin L2(M, p) /\ f \notin L1(M, p)
  BY DEF Tree, Lower
<1>2. /\ p \notin L3(M, p) /\ p \notin L2(M, p) /\ p \notin L1(M, p)
      /\ L3(M, p) \cap L2(M, p) = {} /\ L2(M, p) \cap L1(M, p) = {}
      /\ L3(M, p) \cap L1(M, p) = {}
  BY LevelsApart
<1>3. CASE t = p
  <2>1. L3(M2, p) = L3(M, p) \cup {f}
    BY <1>1, <1>3, DownAdded, SMTT(30) DEF L3
  <2>2. L2(M2, p) = L2(M, p)
    BY <1>1, <1>2, <1>3, <2>1, DownFresh, SMTT(30) DEF L2
  <2>3. L1(M2, p) = L1(M, p)
    BY <1>1, <1>2, <1>3, <2>2, DownSame, SMTT(30) DEF L1
  <2> QED BY <1>2, <1>3, <2>1, <2>2, <2>3
<1>4. CASE t \in L3(M, p)
  <2>1. L3(M2, p) = L3(M, p)
    <3>1. {p} \subseteq DOMAIN M /\ f \notin {p} /\ t \notin {p}
      BY <1>1, <1>2, <1>4
    <3> QED BY <3>1, DownSame, SMTT(30) DEF L3
  <2>2. L2(M2, p) = L2(M, p) \cup {f}
    BY <1>1, <1>2, <1>4, <2>1, DownAdded, SMTT(30) DEF L2
  <2>3. t \notin L2(M, p)
    BY <1>2, <1>4
  <2>4. L1(M2, p) = L1(M, p)
    BY <1>1, <2>2, <2>3, DownFresh, SMTT(30) DEF L1
  <2> QED BY <1>2, <1>4, <2>1, <2>2, <2>4
<1>5. CASE t \in L2(M, p)
  <2>1. L3(M2, p) = L3(M, p)
    <3>1. {p} \subseteq DOMAIN M /\ f \notin {p} /\ t \notin {p}
      BY <1>1, <1>2, <1>5
    <3> QED BY <3>1, DownSame, SMTT(30) DEF L3
  <2>2. t \notin L3(M, p)
    BY <1>2, <1>5
  <2>3. L2(M2, p) = L2(M, p)
    BY <1>1, <2>1, <2>2, DownSame, SMTT(30) DEF L2
  <2>4. L1(M2, p) = L1(M, p) \cup {f}
    BY <1>1, <1>5, <2>3, DownAdded, SMTT(30) DEF L1
  <2> QED BY <1>2, <1>5, <2>1, <2>3, <2>4
<1> QED BY <1>3, <1>4, <1>5 DEF Upper

(* The tables are still a tree, with f as the only new one. *)
LEMMA TreeAdded ==
  ASSUME NEW M, NEW p, Tree(M, p), NEW t \in Upper(M, p), NEW i \in Ix, NEW f \in DOMAIN M,
         M[t][i] = Absent, f # p, f \notin Lower(M, p), NEW M2, Added(M, t, i, f, M2)
  PROVE  Tree(M2, p) /\ Lower(M2, p) = Lower(M, p) \cup {f}
<1>1. Lower(M2, p) = Lower(M, p) \cup {f} /\ Upper(M2, p) \subseteq Upper(M, p) \cup {f}
  <2>1. CASE t = p
    <3>1. /\ L3(M2, p) = L3(M, p) \cup {f}
          /\ L2(M2, p) = L2(M, p) /\ L1(M2, p) = L1(M, p)
      BY <2>1, LevelsAdded, SMTT(30)
    <3> QED BY <3>1 DEF Lower, Upper
  <2>2. CASE t \in L3(M, p)
    <3>1. /\ L3(M2, p) = L3(M, p)
          /\ L2(M2, p) = L2(M, p) \cup {f} /\ L1(M2, p) = L1(M, p)
      BY <2>2, LevelsAdded, SMTT(30)
    <3> QED BY <3>1 DEF Lower, Upper
  <2>3. CASE t \in L2(M, p)
    <3>1. /\ L3(M2, p) = L3(M, p)
          /\ L2(M2, p) = L2(M, p) /\ L1(M2, p) = L1(M, p) \cup {f}
      BY <2>3, LevelsAdded, SMTT(30)
    <3> QED BY <3>1 DEF Lower, Upper
  <2> QED BY <2>1, <2>2, <2>3 DEF Upper
<1>2. Upper(M, p) \subseteq DOMAIN M /\ f \notin Upper(M, p)
  BY DEF Tree, Upper, Lower
<1>3. f \notin Down(M, Upper(M, p))
  <2>1. Down(M, Upper(M, p)) = Lower(M, p)
    BY SMTT(30) DEF Down, Upper, Lower, L3, L2, L1
  <2> QED BY <2>1
<1>4. OneSlot(M2, Upper(M, p) \cup {f})
  BY <1>2, <1>3, OneSlotAdded DEF Tree
<1>5. OneSlot(M2, Upper(M2, p))
  BY <1>1, <1>4, OneSlotLess
<1>6. DOMAIN M2 = DOMAIN M
  BY DEF Added
<1> QED BY <1>1, <1>5, <1>6 DEF Tree

(* One step of a path, after the step. *)
LEMMA StepAdded ==
  ASSUME NEW M, NEW t, NEW i \in Ix, NEW f, NEW M2, Added(M, t, i, f, M2),
         M[t][i] = Absent, t # Absent, f # Absent, NEW v \in Nat, NEW l \in 1..4
  PROVE  /\ \A s \in DOMAIN M \cup {Absent} :
              s # f /\ s # t => Step(M2, s, v, l) = Step(M, s, v, l)
         /\ PageIndexer(v, l) = i => Step(M2, t, v, l) = f /\ Step(M, t, v, l) = Absent
         /\ PageIndexer(v, l) # i => Step(M2, t, v, l) = Step(M, t, v, l)
         /\ Step(M2, f, v, l) = Absent
         /\ Step(M2, Absent, v, l) = Absent /\ Step(M, Absent, v, l) = Absent
<1>1. PageIndexer(v, l) \in Ix
  BY IndexType DEF Ix
<1> QED BY <1>1 DEF Added, Step

(* A path that uses slot i of t goes on to f.                              *)
Leads(M, M2, p, t, i, f, v) ==
  /\ t = p /\ i = PageIndexer(v, 4) => P3(M2, p, v) = f
  /\ t = P3(M, p, v) /\ i = PageIndexer(v, 3) => P2(M2, p, v) = f
  /\ t = P2(M, p, v) /\ i = PageIndexer(v, 2) => P1(M2, p, v) = f

(* No translation changes; the path that needed the table goes on to it. *)
LEMMA PathAdded ==
  ASSUME NEW M, NEW p, Tree(M, p), NEW t \in Upper(M, p), NEW i \in Ix, NEW f \in DOMAIN M,
         M[t][i] = Absent, f # p, f \notin Lower(M, p), NEW M2, Added(M, t, i, f, M2),
         NEW v \in Nat
  PROVE  P0(M2, p, v) = P0(M, p, v) /\ Leads(M, M2, p, t, i, f, v)
<1> DEFINE a3 == P3(M, p, v)
           a2 == P2(M, p, v)
           a1 == P1(M, p, v)
           b3 == P3(M2, p, v)
           b2 == P2(M2, p, v)
           b1 == P1(M2, p, v)
<1>1. /\ p \in DOMAIN M /\ f # Absent /\ p # Absent /\ t # Absent
      /\ L3(M, p) \subseteq DOMAIN M /\ L2(M, p) \subseteq DOMAIN M /\ L1(M, p) \subseteq DOMAIN M
      /\ f \notin L3(M, p) /\ f \notin L2(M, p) /\ f \notin L1(M, p)
  BY DEF Tree, Lower, Upper
<1>2. /\ p \notin L3(M, p) /\ p \notin L2(M, p) /\ p \notin L1(M, p)
      /\ L3(M, p) \cap L2(M, p) = {} /\ L2(M, p) \cap L1(M, p) = {}
      /\ L3(M, p) \cap L1(M, p) = {}
  BY LevelsApart
<1>3. a3 \in L3(M, p) \cup {Absent} /\ a2 \in L2(M, p) \cup {Absent} /\ a1 \in L1(M, p) \cup {Absent}
  BY PathLevels
<1>4. /\ a3 = Step(M, p, v, 4) /\ a2 = Step(M, a3, v, 3) /\ a1 = Step(M, a2, v, 2)
      /\ b3 = Step(M2, p, v, 4) /\ b2 = Step(M2, b3, v, 3) /\ b1 = Step(M2, b2, v, 2)
      /\ P0(M, p, v) = Step(M, a1, v, 1) /\ P0(M2, p, v) = Step(M2, b1, v, 1)
  BY DEF P3, P2, P1, P0
<1> HIDE DEF a3, a2, a1, b3, b2, b1
<1>5. ASSUME NEW l \in 1..4
      PROVE  /\ \A s \in DOMAIN M \cup {Absent} :
                  s # f /\ s # t => Step(M2, s, v, l) = Step(M, s, v, l)
             /\ PageIndexer(v, l) = i => Step(M2, t, v, l) = f /\ Step(M, t, v, l) = Absent
             /\ PageIndexer(v, l) # i => Step(M2, t, v, l) = Step(M, t, v, l)
             /\ Step(M2, f, v, l) = Absent
             /\ Step(M2, Absent, v, l) = Absent /\ Step(M, Absent, v, l) = Absent
  BY <1>1, StepAdded, SMTT(30)
<1>6. CASE t = p
  <2>1. CASE PageIndexer(v, 4) = i
    BY <1>1, <1>2, <1>3, <1>4, <1>5, <1>6, <2>1, SMTT(30) DEF a3, a2, b3, b2, b1, Leads
  <2>2. CASE PageIndexer(v, 4) # i
    BY <1>1, <1>2, <1>3, <1>4, <1>5, <1>6, <2>2, SMTT(30) DEF a3, a2, b3, b2, b1, Leads
  <2> QED BY <2>1, <2>2
<1>7. CASE t \in L3(M, p)
  <2>0. b3 = a3
    BY <1>1, <1>2, <1>3, <1>4, <1>5, <1>7, SMTT(30)
  <2>1. CASE a3 = t /\ PageIndexer(v, 3) = i
    BY <1>1, <1>2, <1>3, <1>4, <1>5, <1>7, <2>0, <2>1, SMTT(30) DEF a3, a2, b3, b2, b1, Leads
  <2>2. CASE ~(a3 = t /\ PageIndexer(v, 3) = i)
    BY <1>1, <1>2, <1>3, <1>4, <1>5, <1>7, <2>0, <2>2, SMTT(30) DEF a3, a2, b3, b2, b1, Leads
  <2> QED BY <2>1, <2>2
<1>8. CASE t \in L2(M, p)
  <2>0. b3 = a3 /\ b2 = a2
    BY <1>1, <1>2, <1>3, <1>4, <1>5, <1>8, SMTT(30)
  <2>1. CASE a2 = t /\ PageIndexer(v, 2) = i
    BY <1>1, <1>2, <1>3, <1>4, <1>5, <1>8, <2>0, <2>1, SMTT(30) DEF a3, a2, b3, b2, b1, Leads
  <2>2. CASE ~(a2 = t /\ PageIndexer(v, 2) = i)
    BY <1>1, <1>2, <1>3, <1>4, <1>5, <1>8, <2>0, <2>2, SMTT(30) DEF a3, a2, b3, b2, b1, Leads
  <2> QED BY <2>1, <2>2
<1> QED BY <1>6, <1>7, <1>8 DEF Upper

(* A new table f in a free slot of an upper table of the tree.             *)
Grafted(M, p, t, i, f, M2) ==
  /\ Tree(M, p) /\ t \in Upper(M, p) /\ i \in Ix /\ M[t][i] = Absent
  /\ f \in DOMAIN M /\ f # p /\ f \notin Lower(M, p)
  /\ Added(M, t, i, f, M2)

(* The new table belongs to the tree. *)
LEMMA GraftedTree ==
  ASSUME NEW M, NEW p, NEW t, NEW i, NEW f, NEW M2, Grafted(M, p, t, i, f, M2)
  PROVE  Tree(M2, p) /\ Lower(M2, p) = Lower(M, p) \cup {f}
  BY TreeAdded, SMTT(30) DEF Grafted

(* No translation changes; the path that needed the table goes on to it. *)
LEMMA GraftedPath ==
  ASSUME NEW M, NEW p, NEW t, NEW i, NEW f, NEW M2, Grafted(M, p, t, i, f, M2), NEW v \in Nat
  PROVE  P0(M2, p, v) = P0(M, p, v) /\ Leads(M, M2, p, t, i, f, v)
  BY PathAdded DEF Grafted

-----------------------------------------------------------------------------
(* Frame a is entered in slot i of page table t.                           *)

Put(M, t, i, a, M2) ==
  /\ DOMAIN M2 = DOMAIN M
  /\ M2[t][i] = a
  /\ \A x \in Ix \ {i} : M2[t][x] = M[t][x]
  /\ \A s \in DOMAIN M \ {t} : M2[s] = M[s]

(* The tree stays as it is. *)
LEMMA TreePut ==
  ASSUME NEW M, NEW p, Tree(M, p), NEW t \in L1(M, p), NEW i \in Ix, NEW a, NEW M2,
         Put(M, t, i, a, M2)
  PROVE  /\ Tree(M2, p) /\ Lower(M2, p) = Lower(M, p)
<1>1. /\ p \in DOMAIN M
      /\ L3(M, p) \subseteq DOMAIN M /\ L2(M, p) \subseteq DOMAIN M
      /\ t # p /\ t \notin L3(M, p) /\ t \notin L2(M, p)
  BY LevelsApart DEF Tree, Lower
<1>2. ASSUME NEW T, T \subseteq DOMAIN M, t \notin T
      PROVE  Down(M2, T) = Down(M, T)
  <2>1. \A s \in T : M2[s] = M[s]
    BY <1>2 DEF Put
  <2> QED BY <2>1, SMTT(30) DEF Down
<1>3. L3(M2, p) = L3(M, p)
  BY <1>1, <1>2 DEF L3
<1>4. L2(M2, p) = L2(M, p)
  BY <1>1, <1>2, <1>3 DEF L2
<1>5. L1(M2, p) = L1(M, p)
  BY <1>1, <1>2, <1>4 DEF L1
<1>6. Lower(M2, p) = Lower(M, p) /\ Upper(M2, p) = Upper(M, p)
  BY <1>3, <1>4, <1>5 DEF Lower, Upper
<1>7. \A s \in Upper(M, p) : M2[s] = M[s]
  BY <1>1 DEF Upper, Put
<1>8. OneSlot(M2, Upper(M, p))
  BY <1>7, SMTT(30) DEF OneSlot, Tree
<1> QED BY <1>6, <1>8 DEF Tree, Put

(* Page v is translated as before, or to a if it uses slot i of t.         *)
Enters(M, M2, p, t, i, a, v) ==
  P0(M2, p, v) = IF P1(M, p, v) = t /\ PageIndexer(v, 1) = i THEN a ELSE P0(M, p, v)

(* Only the pages that use the slot are translated differently. *)
LEMMA PathPut ==
  ASSUME NEW M, NEW p, Tree(M, p), NEW t \in L1(M, p), NEW i \in Ix, NEW a, NEW M2,
         Put(M, t, i, a, M2), NEW v \in Nat
  PROVE  Enters(M, M2, p, t, i, a, v)
<1>1. /\ p \in DOMAIN M /\ t # Absent
      /\ L3(M, p) \subseteq DOMAIN M /\ L2(M, p) \subseteq DOMAIN M /\ L1(M, p) \subseteq DOMAIN M
      /\ t # p /\ t \notin L3(M, p) /\ t \notin L2(M, p)
  BY LevelsApart DEF Tree, Lower
<1>2. /\ P3(M, p, v) \in L3(M, p) \cup {Absent} /\ P2(M, p, v) \in L2(M, p) \cup {Absent}
      /\ P1(M, p, v) \in L1(M, p) \cup {Absent}
  BY PathLevels
<1>3. ASSUME NEW s \in DOMAIN M \cup {Absent}, s # t, NEW l \in 1..4
      PROVE  Step(M2, s, v, l) = Step(M, s, v, l)
  BY <1>3 DEF Step, Put
<1>4. P3(M2, p, v) = P3(M, p, v)
  BY <1>1, <1>3, SMTT(30) DEF P3
<1>5. P2(M2, p, v) = P2(M, p, v)
  BY <1>1, <1>2, <1>3, <1>4, SMTT(30) DEF P2
<1>6. P1(M2, p, v) = P1(M, p, v)
  BY <1>1, <1>2, <1>3, <1>5, SMTT(30) DEF P1
<1>7. CASE P1(M, p, v) = t
  <2>1. PageIndexer(v, 1) \in Ix
    BY IndexType, SMTT(30) DEF Ix
  <2> QED BY <1>1, <1>6, <1>7, <2>1 DEF P0, Step, Put, Enters
<1>8. CASE P1(M, p, v) # t
  BY <1>1, <1>2, <1>3, <1>6, <1>8, SMTT(30) DEF P0, Enters
<1> QED BY <1>7, <1>8

(* Frame a is entered in slot i of a page table of the tree.               *)
Entered(M, p, t, i, a, M2) ==
  Tree(M, p) /\ t \in L1(M, p) /\ i \in Ix /\ Put(M, t, i, a, M2)

(* The tree stays as it is. *)
LEMMA EnteredTree ==
  ASSUME NEW M, NEW p, NEW t, NEW i, NEW a, NEW M2, Entered(M, p, t, i, a, M2)
  PROVE  Tree(M2, p) /\ Lower(M2, p) = Lower(M, p)
  BY TreePut, SMTT(30) DEF Entered

(* Only the pages that use the slot are translated differently. *)
LEMMA EnteredPath ==
  ASSUME NEW M, NEW p, NEW t, NEW i, NEW a, NEW M2, Entered(M, p, t, i, a, M2), NEW v \in Nat
  PROVE  Enters(M, M2, p, t, i, a, v)
  BY PathPut DEF Entered

-----------------------------------------------------------------------------
(* The inductive invariant.                                                *)

(* The frame that page v is mapped to, if it is mapped. *)
Asked(v) == IF v = machine.test THEN 0 ELSE v

(* The first n pages of segment s are among pages. *)
Mapped(m, pages, s, n) == \A j \in 0..(n - 1) : m.segs[s].page + j \in pages

(* All segments before s, and the first n pages of s. *)
MappedUpTo(m, pages, s, n) ==
  /\ \A r \in 1..(s - 1) : Mapped(m, pages, r, identity_pages(m.segs[r]))
  /\ s <= Len(m.segs) => Mapped(m, pages, s, n)

(* All segments. *)
MappedAll(m, pages) ==
  \A r \in 1..Len(m.segs) : Mapped(m, pages, r, identity_pages(m.segs[r]))

(* The pages that are mapped, or that the current call maps. *)
Pages == DOMAIN want \cup (IF pc = "walk" THEN {vaddr} ELSE {})

(* The calls that have been made, and the current one. *)
Calls ==
  /\ \A v \in DOMAIN want : want[v] = Asked(v)
  /\ pc = "walk" => paddr = Asked(vaddr) /\ ret \in {"segment", "test", "ready"}
  /\ pc = "walk" /\ ret = "test" => vaddr = machine.test
  /\ pc = "test" => machine.test \in DOMAIN want
  /\ pc = "new" => DOMAIN want = {} /\ seg = 1 /\ k = 0
  /\ pc \notin {"panic", "fault"} => MappedUpTo(machine, Pages, seg, k)
  /\ cr3 => MappedAll(machine, DOMAIN want)

(* allocate_page has come to the table of its level on the path of vaddr. *)
AtTable ==
  /\ table # Absent
  /\ level = 4 => table = machine.pml4
  /\ level = 3 => table = P3(mem, machine.pml4, vaddr)
  /\ level = 2 => table = P2(mem, machine.pml4, vaddr)
  /\ level = 1 => table = P1(mem, machine.pml4, vaddr)

(* The tables are a tree made of granted frames, and map what was asked. *)
Built ==
  /\ Tree(mem, machine.pml4)
  /\ Lower(mem, machine.pml4) \subseteq machine.avail \ (avail \cup heap)
  /\ \A v \in Virtual :
       P0(mem, machine.pml4, v) = IF v \in DOMAIN want THEN want[v] ELSE Absent
  /\ pc = "walk" => AtTable

(* The invariant: while the tables are low enough for their pointers, they *)
(* are Built; what was called for is recorded; faults are as stated.       *)
PagingInv ==
  /\ TypeOK
  /\ avail \subseteq machine.avail /\ heap \subseteq machine.avail /\ avail \cap heap = {}
  /\ Calls
  /\ pc # "new" /\ LowTables => Built
  /\ FaultsOnlyLeftOut

(* The number of pages is a number. *)
LEMMA PagesNat == E*E*E*E \in Nat
<1>1. E \in Nat
  BY PagingAssumption
<1>2. E * E \in Nat
  BY <1>1, Z3
<1>3. E * E * E \in Nat
  BY <1>1, <1>2, Z3
<1> QED BY <1>1, <1>3, Z3

(* What WellFormedMachine says of the machine. *)
LEMMA MachineFacts ==
  ASSUME machine \in Machines
  PROVE  /\ WellFormedMachine(machine)
         /\ Len(machine.segs) \in Nat
         /\ \A s \in 1..Len(machine.segs) :
              machine.segs[s].page \in Nat /\ machine.segs[s].n \in Nat
         /\ machine.frames \in Nat /\ machine.avail \subseteq 1..(machine.frames - 1)
         /\ machine.pml4 \in 1..(machine.frames - 1) /\ machine.pml4 \notin machine.avail
         /\ machine.test \in Nat /\ machine.frames <= machine.test /\ machine.test \in Virtual
         /\ Physical \subseteq Virtual /\ Physical \subseteq Nat /\ Virtual \subseteq Nat
         /\ 0 \in Virtual /\ Absent \notin Nat
<1>1. WellFormedMachine(machine)
  BY PagingAssumption
<1>2. Len(machine.segs) \in Nat
      /\ \A s \in 1..Len(machine.segs) : machine.segs[s] \in [page : Nat, n : Nat]
  <2>1. PICK g : g = machine.segs
    OBVIOUS
  <2>2. g \in Seq([page : Nat, n : Nat])
    BY <1>1, <2>1 DEF WellFormedMachine
  <2>3. Len(g) \in Nat /\ \A s \in 1..Len(g) : g[s] \in [page : Nat, n : Nat]
    <3>1. ASSUME NEW S, NEW h \in Seq(S) PROVE Len(h) \in Nat /\ \A s \in 1..Len(h) : h[s] \in S
      BY <3>1, SMTT(30)
    <3> QED BY <2>2, <3>1
  <2> QED BY <2>1, <2>3
<1>3. /\ machine.frames \in Nat /\ machine.avail \subseteq 1..(machine.frames - 1)
      /\ machine.pml4 \in 1..(machine.frames - 1) /\ machine.pml4 \notin machine.avail
      /\ machine.test \in machine.frames..(E*E*E*E - 1)
  BY <1>1 DEF WellFormedMachine
<1>4. E*E*E*E \in Nat
  BY PagesNat
<1>5. machine.test \in Nat /\ machine.frames <= machine.test /\ machine.test <= E*E*E*E - 1
  BY <1>3, <1>4, SMTT(30)
<1>6. /\ machine.test \in Virtual
      /\ Physical \subseteq Virtual /\ Physical \subseteq Nat /\ Virtual \subseteq Nat
      /\ 0 \in Virtual /\ Absent \notin Nat
  BY <1>3, <1>4, <1>5, SMTT(30) DEF Virtual, Physical, Absent
<1> QED BY <1>1, <1>2, <1>3, <1>5, <1>6

(* Frames are only taken: tables that were made too high stay so. *)
LEMMA LowKept ==
  ASSUME machine' = machine, avail' \cup heap' \subseteq avail \cup heap, LowTables'
  PROVE  LowTables
  BY DEF LowTables

(* The processor follows the path. *)
LEMMA TranslateIs == \A v : Translate(v) = P0(mem, machine.pml4, v)
  BY DEF Translate, HwStep, P0, P1, P2, P3, Step

(* Where a walk is. *)
LEMMA OnLevel ==
  ASSUME PagingInv, LowTables, pc = "walk"
  PROVE  /\ Built /\ AtTable
         /\ level \in 1..4 /\ vaddr \in Nat /\ vaddr \in Virtual
         /\ level = 4 => table = machine.pml4
         /\ level = 3 => table \in L3(mem, machine.pml4)
         /\ level = 2 => table \in L2(mem, machine.pml4)
         /\ level = 1 => table \in L1(mem, machine.pml4)
         /\ level > 1 => table \in Upper(mem, machine.pml4)
<1>1. Built /\ AtTable
  BY DEF PagingInv, Built
<1>2. level \in 1..4 /\ vaddr \in Virtual /\ vaddr \in Nat
  BY MachineFacts DEF PagingInv, TypeOK
<1>3. /\ P3(mem, machine.pml4, vaddr) \in L3(mem, machine.pml4) \cup {Absent}
      /\ P2(mem, machine.pml4, vaddr) \in L2(mem, machine.pml4) \cup {Absent}
      /\ P1(mem, machine.pml4, vaddr) \in L1(mem, machine.pml4) \cup {Absent}
  BY <1>2, PathLevels
<1>4. /\ level = 4 => table = machine.pml4
      /\ level = 3 => table \in L3(mem, machine.pml4)
      /\ level = 2 => table \in L2(mem, machine.pml4)
      /\ level = 1 => table \in L1(mem, machine.pml4)
  BY <1>1, <1>3 DEF AtTable
<1>5. level > 1 => level = 2 \/ level = 3 \/ level = 4
  BY <1>2, SMTT(30)
<1> QED BY <1>1, <1>2, <1>4, <1>5 DEF Upper

(* A table frame or free frame that cannot be accessed is in a page that   *)
(* __identity_paging leaves out: all other pages of the segments are       *)
(* mapped to themselves when CR3 is loaded.                                *)
LEMMA NotAccessible ==
  ASSUME PagingInv, pc # "new", LowTables,
         NEW f \in machine.avail \cup {machine.pml4}, ~Accessible(f)
  PROVE  \E s \in 1..Len(machine.segs) : f \in LeftOut(machine.segs[s])
<1>1. cr3 /\ Translate(f) # f /\ Built /\ Calls /\ machine \in Machines
  BY DEF Accessible, PagingInv, TypeOK
<1>2. WellFormedMachine(machine) /\ f \in Nat /\ f < machine.test /\ f \in Virtual
  <2>1. f \in 1..(machine.frames - 1) /\ machine.frames \in Nat /\ machine.test \in Nat
        /\ machine.frames <= machine.test
    BY <1>1, MachineFacts
  <2>2. f \in Physical
    BY <2>1, SMTT(30) DEF Physical
  <2> QED BY <1>1, <2>1, <2>2, MachineFacts, SMTT(30)
<1>3. PICK s \in 1..Len(machine.segs) :
        machine.segs[s].page <= f /\ (f + 1 - machine.segs[s].page) * PAGE_SZ <= machine.segs[s].n
  BY <1>2 DEF WellFormedMachine
<1>4. PICK a \in Nat : a = machine.segs[s].page
  BY <1>1, MachineFacts
<1>5. PICK n \in Nat : n = machine.segs[s].n
  BY <1>1, MachineFacts
<1>6. PICK j \in Nat : f = a + j /\ j = f - a
  <2>1. f \in Nat /\ a <= f
    BY <1>2, <1>3, <1>4
  <2>2. f - a \in Nat /\ f = a + (f - a)
    BY <2>1, SMTT(30)
  <2> QED BY <2>2
<1>7. PAGE_SZ \in Nat \ {0} /\ PAGE_SZ + 1 \in Nat \ {0}
  BY PagingAssumption, SMTT(30)
<1>8. j <= n \div PAGE_SZ
  <2>1. (j + 1) * PAGE_SZ <= n
    <3>1. f + 1 - a = j + 1
      BY <1>2, <1>6, SMTT(30)
    <3> QED BY <1>3, <1>4, <1>5, <3>1
  <2>2. (j + 1) * PAGE_SZ = j * PAGE_SZ + PAGE_SZ /\ j * PAGE_SZ \in Nat
    BY <1>7, Z3
  <2>3. j * PAGE_SZ <= n
    BY <1>7, <2>1, <2>2, SMTT(30)
  <2> QED BY <1>7, <2>3, DivFits
<1>9. j * (PAGE_SZ + 1) > n
  <2> SUFFICES ASSUME ~(j * (PAGE_SZ + 1) > n) PROVE FALSE
    OBVIOUS
  <2>1. j * (PAGE_SZ + 1) \in Nat
    BY <1>7, Z3
  <2>2. j <= n \div (PAGE_SZ + 1)
    BY <1>7, <2>1, DivFits, SMTT(30)
  <2>3. n \div (PAGE_SZ + 1) \in Nat
    BY <1>7, DivMod
  <2>4. j \in 0..(identity_pages(machine.segs[s]) - 1)
    BY <1>5, <2>2, <2>3, SMTT(30) DEF identity_pages
  <2>5. f \in DOMAIN want
    BY <1>1, <1>4, <1>6, <2>4 DEF Calls, MappedAll, Mapped
  <2>6. want[f] = f
    BY <1>1, <1>2, <2>5, SMTT(30) DEF Calls, Asked
  <2>7. P0(mem, machine.pml4, f) = f
    BY <1>1, <1>2, <2>5, <2>6 DEF Built
  <2> QED BY <1>1, <2>7, TranslateIs
<1>10. n \div PAGE_SZ \in Nat
  BY <1>7, DivMod
<1>11. f \in a..(a + n \div PAGE_SZ)
  BY <1>6, <1>8, <1>10, SMTT(30)
<1>12. f \in LeftOut(machine.segs[s])
  BY <1>4, <1>5, <1>6, <1>9, <1>11 DEF LeftOut
<1> QED BY <1>12

(* A page of a segment is below the test page. *)
LEMMA SegmentPage ==
  ASSUME machine \in Machines, NEW s \in 1..Len(machine.segs), NEW j \in Nat,
         j < identity_pages(machine.segs[s])
  PROVE  /\ machine.segs[s].page + j \in Nat /\ machine.segs[s].page + j < machine.test
         /\ machine.segs[s].page + j \in Virtual
<1>1. PICK a \in Nat : a = machine.segs[s].page
  BY MachineFacts
<1>2. PICK n \in Nat : n = machine.segs[s].n
  BY MachineFacts
<1>3. PAGE_SZ \in Nat \ {0} /\ PAGE_SZ + 1 \in Nat \ {0}
  BY PagingAssumption, SMTT(30)
<1>4. n \div (PAGE_SZ + 1) \in Nat /\ n \div PAGE_SZ \in Nat
  BY <1>3, DivMod
<1>5. j <= n \div (PAGE_SZ + 1)
  BY <1>2, <1>4, SMTT(30) DEF identity_pages
<1>6. j * (PAGE_SZ + 1) <= n
  BY <1>3, <1>5, DivFits
<1>7. j * (PAGE_SZ + 1) = j * PAGE_SZ + j /\ j * PAGE_SZ \in Nat
  BY <1>3, Z3
<1>8. j * PAGE_SZ <= n
  BY <1>6, <1>7, SMTT(30)
<1>9. j <= n \div PAGE_SZ
  BY <1>3, <1>8, DivFits
<1>10. a + n \div PAGE_SZ < machine.test
  <2>1. machine.segs[s].page + machine.segs[s].n \div PAGE_SZ < machine.test
    BY MachineFacts DEF WellFormedMachine
  <2> QED BY <1>1, <1>2, <2>1
<1>11. a + j \in Nat /\ a + j < machine.test /\ machine.test \in Nat
  BY <1>4, <1>9, <1>10, MachineFacts, SMTT(30)
<1>12. machine.test \in Virtual
  BY MachineFacts
<1>13. a + j \in Virtual
  <2>1. PICK e \in Nat : e = E*E*E*E
    BY PagesNat
  <2>2. a + j \in 0..(e - 1)
    BY <1>11, <1>12, <2>1, SMTT(30) DEF Virtual
  <2> QED BY <2>1, <2>2 DEF Virtual
<1> QED BY <1>1, <1>11, <1>13

(* A step that leaves the tables alone leaves them built. *)
LEMMA BuiltKept ==
  ASSUME Built, machine' = machine, mem' = mem, want' = want,
         avail' \cup heap' \subseteq avail \cup heap,
         pc' = "walk" => \/ level' = 4 /\ table' = machine.pml4 /\ machine.pml4 # Absent
                         \/ pc = "walk" /\ level' = level /\ table' = table /\ vaddr' = vaddr
  PROVE  Built'
<1>1. /\ Tree(mem, machine.pml4)'
      /\ (Lower(mem, machine.pml4) \subseteq machine.avail \ (avail \cup heap))'
      /\ (\A v \in Virtual :
            P0(mem, machine.pml4, v) = IF v \in DOMAIN want THEN want[v] ELSE Absent)'
  BY DEF Built
<1>2. pc' = "walk" => AtTable'
  BY SMTT(30) DEF Built, AtTable
<1> QED BY <1>1, <1>2 DEF Built

(* With more pages mapped, what was mapped still is. *)
LEMMA MappedMore ==
  ASSUME NEW m, NEW W, NEW W2, W \subseteq W2
  PROVE  /\ \A s, n : MappedUpTo(m, W, s, n) => MappedUpTo(m, W2, s, n)
         /\ MappedAll(m, W) => MappedAll(m, W2)
  BY DEF MappedUpTo, MappedAll, Mapped

-----------------------------------------------------------------------------
(* The steps.                                                              *)

(* The invariant holds before the constructor runs.                        *)
LEMMA PagingInit == Init => PagingInv
<1> SUFFICES ASSUME Init PROVE PagingInv
  OBVIOUS
<1>1. machine \in Machines /\ pc = "new"
  BY DEF Init
<1>2. TypeOK
  <2>1. /\ machine.frames \in Nat /\ machine.avail \subseteq 1..(machine.frames - 1)
        /\ machine.pml4 \in 1..(machine.frames - 1) /\ 0 \in Virtual /\ Len(machine.segs) \in Nat
    BY <1>1, MachineFacts
  <2>2. DOMAIN mem = Physical /\ \A f \in Physical : mem[f] \in [0..(E - 1) -> Virtual \cup {Absent}]
    BY <2>1 DEF Init
  <2>3. avail \subseteq Physical /\ heap \subseteq Physical /\ table \in Physical
    BY <2>1, SMTT(30) DEF Init, Physical
  <2>4. seg \in 1..(Len(machine.segs) + 1) /\ k \in Nat /\ level \in 1..4
    BY <2>1, SMTT(30) DEF Init
  <2>5. cr3 \in BOOLEAN /\ DOMAIN want \subseteq Virtual /\ vaddr \in Virtual /\ paddr \in Virtual
        /\ {pc, ret} \subseteq {"new", "segment", "test", "walk", "ready", "panic", "fault"}
    BY <2>1 DEF Init
  <2> QED BY <1>1, <2>2, <2>3, <2>4, <2>5 DEF TypeOK
<1>3. Calls
  <2>1. DOMAIN want = {} /\ seg = 1 /\ k = 0 /\ ~cr3
    BY DEF Init
  <2>2. MappedUpTo(machine, Pages, 1, 0)
    BY SMTT(30) DEF MappedUpTo, Mapped
  <2> QED BY <1>1, <2>1, <2>2 DEF Calls
<1> QED BY <1>1, <1>2, <1>3 DEF Init, PagingInv, FaultsOnlyLeftOut

(* The constructor clears the PML4: the tree is one table and nothing is   *)
(* mapped.                                                                 *)
LEMMA ClearStep == PagingInv /\ ClearPML4 => PagingInv'
<1> SUFFICES ASSUME PagingInv, ClearPML4 PROVE PagingInv'
  OBVIOUS
<1>1. /\ machine' = machine /\ machine \in Machines /\ pc = "new" /\ pc' = "segment"
      /\ ret' = ret /\ cr3' = cr3 /\ avail' = avail /\ heap' = heap /\ seg' = seg /\ k' = k
      /\ vaddr' = vaddr /\ paddr' = paddr /\ level' = level /\ table' = table /\ want' = want
      /\ mem' = [mem EXCEPT ![machine.pml4] = Cleared]
  BY DEF ClearPML4, call, PagingInv, TypeOK
<1>2. machine.pml4 \in Physical /\ Physical' = Physical /\ DOMAIN mem = Physical
  BY <1>1, MachineFacts, SMTT(30) DEF Physical, PagingInv, TypeOK
<1>3. DOMAIN mem' = Physical /\ mem'[machine.pml4] = Cleared
      /\ \A f \in Physical : f # machine.pml4 => mem'[f] = mem[f]
  BY <1>1, <1>2
<1>4. TypeOK'
  <2>1. Cleared \in [0..(E - 1) -> Virtual \cup {Absent}]
    BY DEF Cleared
  <2>2. \A f \in Physical : mem'[f] \in [0..(E - 1) -> Virtual \cup {Absent}]
    BY <1>3, <2>1 DEF PagingInv, TypeOK
  <2> QED BY <1>1, <1>2, <1>3, <2>2 DEF PagingInv, TypeOK
<1>5. Calls'
  <2>1. DOMAIN want = {} /\ seg = 1 /\ k = 0
    BY <1>1 DEF PagingInv, Calls
  <2>2. MappedUpTo(machine', Pages', 1, 0)
    BY SMTT(30) DEF MappedUpTo, Mapped
  <2> QED BY <1>1, <2>1, <2>2 DEF PagingInv, Calls
<1>6. Built'
  <2>1. PICK M : M = mem'
    OBVIOUS
  <2>2. PICK p : p = machine.pml4
    OBVIOUS
  <2>3. p \in DOMAIN M /\ p # Absent /\ Absent \notin DOMAIN M /\ \A x \in Ix : M[p][x] = Absent
    BY <1>1, <1>2, <1>3, <2>1, <2>2, MachineFacts DEF Cleared, Ix
  <2>4. L3(M, p) = {}
    BY <2>3, SMTT(30) DEF L3, Down
  <2>5. L2(M, p) = {}
    BY <2>4, SMTT(30) DEF L2, Down
  <2>6. L1(M, p) = {}
    BY <2>5, SMTT(30) DEF L1, Down
  <2>7. Lower(M, p) = {} /\ Upper(M, p) = {p}
    BY <2>4, <2>5, <2>6 DEF Lower, Upper
  <2>8. OneSlot(M, {p})
    BY <2>3 DEF OneSlot
  <2>9. Tree(M, p)
    BY <2>3, <2>7, <2>8 DEF Tree
  <2>10. ASSUME NEW v \in Virtual PROVE P0(M, p, v) = Absent
    <3>0. v \in Nat
      BY <1>1, MachineFacts
    <3>1. PageIndexer(v, 4) \in Ix
      BY <3>0, IndexType, SMTT(30) DEF Ix
    <3> QED BY <2>3, <3>1 DEF P0, P1, P2, P3, Step
  <2>11. DOMAIN want' = {}
    BY <1>1 DEF PagingInv, Calls
  <2> QED BY <1>1, <2>1, <2>2, <2>7, <2>9, <2>10, <2>11 DEF Built
<1> QED BY <1>1, <1>4, <1>5, <1>6 DEF PagingInv, FaultsOnlyLeftOut

(* __identity_paging asks for the next page of a segment.                  *)
LEMMA IdentityStep == PagingInv /\ IdentityPaging => PagingInv'
<1> SUFFICES ASSUME PagingInv, IdentityPaging PROVE PagingInv'
  OBVIOUS
<1>1. /\ machine' = machine /\ machine \in Machines /\ pc = "segment" /\ pc' = "walk"
      /\ ret' = "segment" /\ cr3' = cr3 /\ avail' = avail /\ heap' = heap /\ seg' = seg /\ k' = k + 1
      /\ vaddr' = machine.segs[seg].page + k /\ paddr' = vaddr' /\ level' = 4
      /\ table' = machine.pml4 /\ want' = want /\ mem' = mem
      /\ seg <= Len(machine.segs) /\ k < identity_pages(machine.segs[seg])
  BY DEF IdentityPaging, CallAllocatePage, call, PagingInv, TypeOK
<1>2. seg \in 1..Len(machine.segs) /\ k \in Nat
  BY <1>1, MachineFacts, SMTT(30) DEF PagingInv, TypeOK
<1>3. vaddr' \in Nat /\ vaddr' < machine.test /\ vaddr' \in Virtual
  BY <1>1, <1>2, SegmentPage
<1>4. TypeOK'
  <2>1. machine.pml4 \in Physical /\ Physical' = Physical /\ level' \in 1..4 /\ k' \in Nat
    BY <1>1, <1>2, MachineFacts, SMTT(30) DEF Physical
  <2> QED BY <1>1, <1>3, <2>1 DEF PagingInv, TypeOK
<1>5. Calls'
  <2>1. paddr' = Asked(vaddr)'
    BY <1>1, <1>3, MachineFacts, SMTT(30) DEF Asked
  <2>2. Pages = DOMAIN want /\ Pages' = DOMAIN want \cup {vaddr'}
    BY <1>1 DEF Pages
  <2>3. MappedUpTo(machine, Pages, seg, k)
    BY <1>1 DEF PagingInv, Calls
  <2>4. MappedUpTo(machine, Pages', seg, k)
    BY <2>2, <2>3, MappedMore
  <2>5. MappedUpTo(machine, Pages', seg, k + 1)
    <3>1. \A j \in 0..((k + 1) - 1) : machine.segs[seg].page + j \in Pages'
      <4> TAKE j \in 0..((k + 1) - 1)
      <4>1. CASE j = k
        BY <1>1, <2>2, <4>1
      <4>2. CASE j # k
        <5>1. j \in 0..(k - 1)
          BY <1>2, <4>2, SMTT(30)
        <5> QED BY <1>1, <2>4, <5>1 DEF MappedUpTo, Mapped
      <4> QED BY <4>1, <4>2
    <3>2. Mapped(machine, Pages', seg, k + 1)
      BY <3>1 DEF Mapped
    <3> QED BY <2>4, <3>2 DEF MappedUpTo
  <2>6. MappedUpTo(machine, Pages, seg, k)'
    BY <1>1, <2>5
  <2> QED BY <1>1, <2>1, <2>6 DEF PagingInv, Calls, Asked
<1>6. LowTables' => Built'
  <2>1. machine.pml4 # Absent
    BY <1>1, MachineFacts, SMTT(30)
  <2>2. LowTables' => LowTables
    BY <1>1, LowKept
  <2>3. LowTables => Built
    BY <1>1 DEF PagingInv
  <2> QED BY <1>1, <2>1, <2>2, <2>3, BuiltKept
<1> QED BY <1>1, <1>4, <1>5, <1>6 DEF PagingInv, FaultsOnlyLeftOut

(* __identity_paging goes on to the next segment of the memory map.        *)
LEMMA NextSegmentStep == PagingInv /\ NextSegment => PagingInv'
<1> SUFFICES ASSUME PagingInv, NextSegment PROVE PagingInv'
  OBVIOUS
<1>1. /\ machine' = machine /\ machine \in Machines /\ pc = "segment" /\ pc' = pc
      /\ ret' = ret /\ cr3' = cr3 /\ avail' = avail /\ heap' = heap /\ seg' = seg + 1 /\ k' = 0
      /\ vaddr' = vaddr /\ paddr' = paddr /\ level' = level /\ table' = table
      /\ want' = want /\ mem' = mem
      /\ seg <= Len(machine.segs) /\ k >= identity_pages(machine.segs[seg])
  BY DEF NextSegment, call, PagingInv, TypeOK
<1>2. seg \in 1..Len(machine.segs) /\ k \in Nat /\ Len(machine.segs) \in Nat
  BY <1>1, MachineFacts, SMTT(30) DEF PagingInv, TypeOK
<1>3. TypeOK'
  <2>1. Physical' = Physical /\ seg' \in 1..(Len(machine.segs) + 1)
    BY <1>1, <1>2, SMTT(30) DEF Physical
  <2> QED BY <1>1, <2>1 DEF PagingInv, TypeOK
<1>4. Calls'
  <2>1. Pages' = Pages
    BY <1>1 DEF Pages
  <2>2. MappedUpTo(machine, Pages, seg, k)
    BY <1>1 DEF PagingInv, Calls
  <2>3. identity_pages(machine.segs[seg]) \in Nat
    <3>1. machine.segs[seg].n \in Nat /\ PAGE_SZ + 1 \in Nat \ {0}
      BY <1>1, <1>2, MachineFacts, PagingAssumption, SMTT(30)
    <3>2. machine.segs[seg].n \div (PAGE_SZ + 1) \in Nat
      BY <3>1, DivMod
    <3> QED BY <3>2, SMTT(30) DEF identity_pages
  <2>4. Mapped(machine, Pages, seg, identity_pages(machine.segs[seg]))
    BY <1>1, <1>2, <2>2, <2>3, SMTT(30) DEF MappedUpTo, Mapped
  <2>5. ASSUME NEW r \in 1..((seg + 1) - 1)
        PROVE  Mapped(machine, Pages, r, identity_pages(machine.segs[r]))
    <3>1. r \in 1..(seg - 1) \/ r = seg
      BY <1>2, SMTT(30)
    <3> QED BY <2>2, <2>4, <3>1 DEF MappedUpTo
  <2>6. Mapped(machine, Pages, seg + 1, 0)
    BY SMTT(30) DEF Mapped
  <2>7. MappedUpTo(machine, Pages, seg + 1, 0)
    BY <2>5, <2>6 DEF MappedUpTo
  <2>8. MappedUpTo(machine, Pages, seg, k)'
    BY <1>1, <2>1, <2>7
  <2> QED BY <1>1, <2>8 DEF PagingInv, Calls, Asked
<1>5. LowTables' => Built'
  <2>1. LowTables' => LowTables
    BY <1>1, LowKept
  <2>2. LowTables => Built
    BY <1>1 DEF PagingInv
  <2> QED BY <1>1, <2>1, <2>2, BuiltKept
<1> QED BY <1>1, <1>3, <1>4, <1>5 DEF PagingInv, FaultsOnlyLeftOut

(* The constructor loads CR3 when every segment is done: every page of     *)
(* them is mapped.                                                         *)
LEMMA LoadCR3Step == PagingInv /\ LoadCR3 => PagingInv'
<1> SUFFICES ASSUME PagingInv, LoadCR3 PROVE PagingInv'
  OBVIOUS
<1>1. /\ machine' = machine /\ machine \in Machines /\ pc = "segment" /\ pc' = "walk"
      /\ ret' = "test" /\ cr3' /\ avail' = avail /\ heap' = heap /\ seg' = seg /\ k' = k
      /\ vaddr' = machine.test /\ paddr' = 0 /\ level' = 4
      /\ table' = machine.pml4 /\ want' = want /\ mem' = mem
      /\ seg > Len(machine.segs)
  BY DEF LoadCR3, CallAllocatePage, PagingInv, TypeOK
<1>2. seg = Len(machine.segs) + 1 /\ Len(machine.segs) \in Nat
  BY <1>1, MachineFacts, SMTT(30) DEF PagingInv, TypeOK
<1>3. TypeOK'
  <2>1. /\ machine.pml4 \in Physical /\ Physical' = Physical /\ level' \in 1..4
        /\ vaddr' \in Virtual /\ paddr' \in Virtual
    BY <1>1, MachineFacts, SMTT(30) DEF Physical
  <2>2. cr3' \in BOOLEAN
    BY DEF LoadCR3
  <2> QED BY <1>1, <2>1, <2>2 DEF PagingInv, TypeOK
<1>4. Calls'
  <2>1. paddr' = Asked(vaddr)'
    BY <1>1 DEF Asked
  <2>2. Pages = DOMAIN want /\ Pages \subseteq Pages'
    BY <1>1 DEF Pages
  <2>3. MappedUpTo(machine, Pages, seg, k)
    BY <1>1 DEF PagingInv, Calls
  <2>4. MappedUpTo(machine, Pages', seg, k)
    BY <2>2, <2>3, MappedMore
  <2>5. MappedUpTo(machine, Pages, seg, k)'
    BY <1>1, <2>4
  <2>6. MappedAll(machine, DOMAIN want)
    <3>1. (Len(machine.segs) + 1) - 1 = Len(machine.segs)
      BY <1>2, SMTT(30)
    <3> QED BY <1>2, <2>2, <2>3, <3>1 DEF MappedUpTo, MappedAll
  <2> QED BY <1>1, <2>1, <2>5, <2>6 DEF PagingInv, Calls, Asked
<1>5. LowTables' => Built'
  <2>1. machine.pml4 # Absent
    BY <1>1, MachineFacts, SMTT(30)
  <2>2. LowTables' => LowTables
    BY <1>1, LowKept
  <2>3. LowTables => Built
    BY <1>1 DEF PagingInv
  <2> QED BY <1>1, <2>1, <2>2, <2>3, BuiltKept
<1> QED BY <1>1, <1>3, <1>4, <1>5 DEF PagingInv, FaultsOnlyLeftOut

(* The test page was mapped: the write through it does not fault. *)
LEMMA TestStep == PagingInv /\ TestPage => PagingInv'
<1> SUFFICES ASSUME PagingInv, TestPage PROVE PagingInv'
  OBVIOUS
<1>1. /\ machine' = machine /\ machine \in Machines /\ pc = "test"
      /\ pc' = (IF Translate(machine.test) # Absent THEN "ready" ELSE "fault")
      /\ ret' = ret /\ cr3' = cr3 /\ avail' = avail /\ heap' = heap /\ seg' = seg /\ k' = k
      /\ vaddr' = vaddr /\ paddr' = paddr /\ level' = level /\ table' = table
      /\ want' = want /\ mem' = mem
  BY DEF TestPage, call, PagingInv, TypeOK
<1>2. pc' = "ready" \/ pc' = "fault"
  BY <1>1
<1>3. TypeOK'
  <2>1. Physical' = Physical
    BY <1>1 DEF Physical
  <2> QED BY <1>1, <1>2, <2>1 DEF PagingInv, TypeOK
<1>4. Calls'
  <2>1. Pages' = Pages
    BY <1>1, <1>2 DEF Pages
  <2>2. MappedUpTo(machine, Pages, seg, k)
    BY <1>1 DEF PagingInv, Calls
  <2>3. MappedUpTo(machine, Pages, seg, k)'
    BY <1>1, <2>1, <2>2
  <2> QED BY <1>1, <1>2, <2>3 DEF PagingInv, Calls, Asked
<1>5. LowTables' => LowTables
  BY <1>1, LowKept
<1>6. LowTables => Built
  BY <1>1 DEF PagingInv
<1>7. LowTables' => Built'
  BY <1>1, <1>2, <1>5, <1>6, BuiltKept
<1>8. LowTables => pc' = "ready"
  <2> SUFFICES ASSUME LowTables PROVE Translate(machine.test) # Absent
    BY <1>1
  <2>1. machine.test \in DOMAIN want /\ want[machine.test] = 0
    BY <1>1 DEF PagingInv, Calls, Asked
  <2>2. machine.test \in Virtual /\ 0 # Absent
    BY <1>1, MachineFacts
  <2>3. P0(mem, machine.pml4, machine.test) = 0
    BY <1>6, <2>1, <2>2 DEF Built
  <2> QED BY <2>2, <2>3, TranslateIs
<1>9. FaultsOnlyLeftOut'
  BY <1>5, <1>8 DEF FaultsOnlyLeftOut
<1> QED BY <1>1, <1>3, <1>4, <1>7, <1>9 DEF PagingInv

(* The end: no frame is left. *)
LEMMA NoFrameStep == PagingInv /\ (NoFrame \/ HeapNoFrame) => PagingInv'
<1> SUFFICES ASSUME PagingInv, NoFrame \/ HeapNoFrame PROVE PagingInv'
  OBVIOUS
<1>1. /\ machine' = machine /\ machine \in Machines /\ pc # "new" /\ pc' = "panic"
      /\ ret' = ret /\ cr3' = cr3 /\ avail' = avail /\ heap' = heap /\ seg' = seg /\ k' = k
      /\ vaddr' = vaddr /\ paddr' = paddr /\ level' = level /\ table' = table
      /\ want' = want /\ mem' = mem
  BY DEF NoFrame, HeapNoFrame, call, PagingInv, TypeOK
<1>2. TypeOK'
  <2>1. Physical' = Physical
    BY <1>1 DEF Physical
  <2> QED BY <1>1, <2>1 DEF PagingInv, TypeOK
<1>3. Calls'
  BY <1>1 DEF PagingInv, Calls, Asked
<1>4. LowTables' => Built'
  <2>1. LowTables' => LowTables
    BY <1>1, LowKept
  <2>2. LowTables => Built
    BY <1>1 DEF PagingInv
  <2> QED BY <1>1, <2>1, <2>2, BuiltKept
<1> QED BY <1>1, <1>2, <1>3, <1>4 DEF PagingInv, FaultsOnlyLeftOut

(* The heap's request for a page starts a walk for a frame that is no      *)
(* table.                                                                  *)
LEMMA HeapPageStep ==
  ASSUME PagingInv, NEW f \in avail, HeapPage(f)
  PROVE  PagingInv'
<1>1. /\ machine' = machine /\ machine \in Machines /\ pc = "ready" /\ pc' = "walk"
      /\ ret' = "ready" /\ cr3' = cr3 /\ avail' = avail \ {f} /\ heap' = heap \cup {f}
      /\ seg' = seg /\ k' = k /\ vaddr' = f /\ paddr' = f /\ level' = 4
      /\ table' = machine.pml4 /\ want' = want /\ mem' = mem
  BY DEF HeapPage, CallAllocatePage, PagingInv, TypeOK
<1>2. f \in machine.avail /\ avail \subseteq machine.avail /\ heap \subseteq machine.avail
  BY DEF PagingInv
<1>3. f \in Nat /\ f < machine.test /\ f \in Physical /\ f \in Virtual
  <2>1. f \in 1..(machine.frames - 1) /\ machine.frames \in Nat /\ machine.test \in Nat
        /\ machine.frames <= machine.test
    BY <1>1, <1>2, MachineFacts
  <2>2. f \in Physical
    BY <2>1, SMTT(30) DEF Physical
  <2> QED BY <1>1, <2>1, <2>2, MachineFacts, SMTT(30)
<1>4. TypeOK'
  <2>1. machine.pml4 \in Physical /\ Physical' = Physical /\ level' \in 1..4
    BY <1>1, MachineFacts, SMTT(30) DEF Physical
  <2> QED BY <1>1, <1>3, <2>1 DEF PagingInv, TypeOK
<1>5. Calls'
  <2>1. paddr' = Asked(vaddr)'
    BY <1>1, <1>3, MachineFacts, SMTT(30) DEF Asked
  <2>2. Pages \subseteq Pages'
    BY <1>1 DEF Pages
  <2>3. MappedUpTo(machine, Pages, seg, k)
    BY <1>1 DEF PagingInv, Calls
  <2>4. MappedUpTo(machine, Pages', seg, k)
    BY <2>2, <2>3, MappedMore
  <2>5. MappedUpTo(machine, Pages, seg, k)'
    BY <1>1, <2>4
  <2> QED BY <1>1, <2>1, <2>5 DEF PagingInv, Calls, Asked
<1>6. LowTables' => Built'
  <2>1. machine.pml4 # Absent /\ avail' \cup heap' \subseteq avail \cup heap
    BY <1>1, MachineFacts, SMTT(30)
  <2>2. LowTables' => LowTables
    BY <1>1, <2>1, LowKept
  <2>3. LowTables => Built
    BY <1>1 DEF PagingInv
  <2> QED BY <1>1, <2>1, <2>2, <2>3, BuiltKept
<1> QED BY <1>1, <1>2, <1>4, <1>5, <1>6 DEF PagingInv, FaultsOnlyLeftOut

(* The entry allocate_page reads is the next table of the path. *)
LEMMA EntryIs ==
  ASSUME PagingInv, LowTables, pc = "walk"
  PROVE  /\ level = 4 => Entry = P3(mem, machine.pml4, vaddr)
         /\ level = 3 => Entry = P2(mem, machine.pml4, vaddr)
         /\ level = 2 => Entry = P1(mem, machine.pml4, vaddr)
         /\ level > 1 /\ Entry # Absent => Entry \in Lower(mem, machine.pml4)
<1>1. AtTable /\ level \in 1..4 /\ vaddr \in Nat
  BY OnLevel
<1>2. /\ level = 4 => Entry = P3(mem, machine.pml4, vaddr)
      /\ level = 3 => Entry = P2(mem, machine.pml4, vaddr)
      /\ level = 2 => Entry = P1(mem, machine.pml4, vaddr)
  <2>1. Entry = Step(mem, table, vaddr, level)
    BY <1>1 DEF Entry, Step, AtTable
  <2>2. CASE level = 4
    BY <1>1, <2>1, <2>2, SMTT(30) DEF AtTable, P3
  <2>3. CASE level = 3
    BY <1>1, <2>1, <2>3, SMTT(30) DEF AtTable, P2
  <2>4. CASE level = 2
    BY <1>1, <2>1, <2>4, SMTT(30) DEF AtTable, P1
  <2>5. CASE level = 1
    BY <2>5, SMTT(30)
  <2> QED BY <1>1, <2>2, <2>3, <2>4, <2>5
<1>3. /\ P3(mem, machine.pml4, vaddr) \in L3(mem, machine.pml4) \cup {Absent}
      /\ P2(mem, machine.pml4, vaddr) \in L2(mem, machine.pml4) \cup {Absent}
      /\ P1(mem, machine.pml4, vaddr) \in L1(mem, machine.pml4) \cup {Absent}
  BY <1>1, PathLevels
<1>4. level > 1 => level = 2 \/ level = 3 \/ level = 4
  BY <1>1, SMTT(30)
<1> QED BY <1>2, <1>3, <1>4 DEF Lower

(* Table pointers to low tables keep the frame number. *)
LEMMA LowPtr ==
  ASSUME machine \in Machines, LowTables, Built, NEW t \in Lower(mem, machine.pml4)
  PROVE  TablePtr(t) = t /\ t \in Physical /\ t # Absent /\ t \in machine.avail
<1>1. t \in machine.avail /\ t \in 0..(PTR_FRAMES - 1)
  BY DEF Built, LowTables
<1>2. t \in Physical /\ t # Absent
  BY <1>1, MachineFacts, SMTT(30) DEF Physical
<1>3. t % PTR_FRAMES = t
  BY <1>1, ModSmall, PagingAssumption
<1> QED BY <1>1, <1>2, <1>3 DEF TablePtr

(* PMem grants a free frame while there is one: what request_frame returns *)
(* is one of the free frames.                                              *)
Granted == avail # {} => request_frame \in avail

(* The walk goes down through an entry that is there.                      *)
LEMMA UseTableStep == PagingInv /\ UseTable => PagingInv'
<1> SUFFICES ASSUME PagingInv, UseTable PROVE PagingInv'
  OBVIOUS
<1>1. /\ machine' = machine /\ machine \in Machines /\ pc = "walk" /\ pc' = "walk"
      /\ ret' = ret /\ cr3' = cr3 /\ avail' = avail /\ heap' = heap /\ seg' = seg /\ k' = k
      /\ vaddr' = vaddr /\ paddr' = paddr /\ level' = level - 1 /\ table' = TablePtr(Entry)
      /\ want' = want /\ mem' = mem /\ level > 1 /\ Entry # Absent /\ level \in 1..4
  BY DEF UseTable, PagingInv, TypeOK
<1>2. LowTables' = LowTables
  BY <1>1 DEF LowTables
<1>3. LowTables => table' = Entry /\ table' \in Physical
  <2> SUFFICES ASSUME LowTables PROVE table' = Entry /\ table' \in Physical
    OBVIOUS
  <2>1. Entry \in Lower(mem, machine.pml4)
    BY <1>1, EntryIs
  <2>2. Built
    BY <1>1 DEF PagingInv
  <2> QED BY <1>1, <2>1, <2>2, LowPtr
<1>4. ~LowTables => table' \in Physical
  <2> SUFFICES ASSUME ~LowTables PROVE table' \in Physical
    OBVIOUS
  <2>1. PICK f \in machine.avail : f \notin 0..(PTR_FRAMES - 1)
    BY DEF LowTables
  <2>2. f \in 1..(machine.frames - 1) /\ machine.frames \in Nat /\ PTR_FRAMES \in Nat \ {0}
    BY <1>1, MachineFacts, PagingAssumption
  <2>3. PTR_FRAMES <= f
    BY <2>1, <2>2, SMTT(30)
  <2>4. Entry \in Nat
    <3>1. PageIndexer(vaddr, level) \in 0..(E - 1)
      BY <1>1, MachineFacts, IndexType DEF PagingInv, TypeOK
    <3>2. Entry \in Virtual \cup {Absent}
      BY <3>1 DEF Entry, PagingInv, TypeOK
    <3> QED BY <1>1, <3>2, MachineFacts
  <2>5. Entry % PTR_FRAMES \in 0..(PTR_FRAMES - 1)
    BY <2>2, <2>4, DivMod
  <2> QED BY <1>1, <2>2, <2>3, <2>5, SMTT(30) DEF TablePtr, Physical
<1>5. TypeOK'
  <2>1. Physical' = Physical /\ level' \in 1..4
    BY <1>1, SMTT(30) DEF Physical
  <2> QED BY <1>1, <1>3, <1>4, <2>1 DEF PagingInv, TypeOK
<1>6. Calls'
  <2>1. Pages' = Pages
    BY <1>1 DEF Pages
  <2>2. MappedUpTo(machine, Pages, seg, k)
    BY <1>1 DEF PagingInv, Calls
  <2>3. MappedUpTo(machine, Pages, seg, k)'
    BY <1>1, <2>1, <2>2
  <2> QED BY <1>1, <2>3 DEF PagingInv, Calls, Asked
<1>7. LowTables' => Built'
  <2> SUFFICES ASSUME LowTables PROVE Built'
    BY <1>2
  <2>1. Built
    BY <1>1 DEF PagingInv
  <2>2. AtTable'
    <3>1. /\ level = 4 => Entry = P3(mem, machine.pml4, vaddr)
          /\ level = 3 => Entry = P2(mem, machine.pml4, vaddr)
          /\ level = 2 => Entry = P1(mem, machine.pml4, vaddr)
      BY <1>1, EntryIs
    <3>2. table' = Entry /\ table' # Absent
      BY <1>1, <1>3
    <3>3. /\ ~(level' = 4) /\ (level' = 3 => level = 4)
          /\ (level' = 2 => level = 3) /\ (level' = 1 => level = 2)
      BY <1>1, SMTT(30)
    <3> QED BY <1>1, <3>1, <3>2, <3>3 DEF AtTable
  <2> QED BY <1>1, <2>1, <2>2 DEF Built
<1> QED BY <1>1, <1>5, <1>6, <1>7 DEF PagingInv, FaultsOnlyLeftOut

(* What the assignments of a new table do to the rows. *)
LEMMA AddedRow ==
  ASSUME NEW M, NEW t \in DOMAIN M, NEW f \in DOMAIN M, t # f, NEW i \in Ix, DOMAIN M[t] = Ix
  PROVE  Added(M, t, i, f, [M EXCEPT ![f] = Cleared, ![t][i] = f])
<1>1. PICK M1 : M1 = [M EXCEPT ![f] = Cleared]
  OBVIOUS
<1>2. PICK M2 : M2 = [M1 EXCEPT ![t][i] = f]
  OBVIOUS
<1>3. M2 = [M EXCEPT ![f] = Cleared, ![t][i] = f]
  BY <1>1, <1>2
<1>4. /\ DOMAIN M1 = DOMAIN M /\ M1[f] = Cleared
      /\ \A s \in DOMAIN M \ {f} : M1[s] = M[s]
  BY <1>1
<1>5. /\ DOMAIN M2 = DOMAIN M /\ M2[t] = [M[t] EXCEPT ![i] = f]
      /\ \A s \in DOMAIN M \ {t} : M2[s] = M1[s]
  BY <1>2, <1>4
<1>6. M2[t][i] = f /\ \A x \in Ix \ {i} : M2[t][x] = M[t][x]
  BY <1>5
<1>7. \A x \in Ix : M2[f][x] = Absent
  <2>1. M2[f] = Cleared
    BY <1>4, <1>5
  <2> QED BY <2>1 DEF Cleared, Ix
<1>8. \A s \in DOMAIN M \ {f, t} : M2[s] = M[s]
  BY <1>4, <1>5
<1>9. Added(M, t, i, f, M2)
  BY <1>5, <1>6, <1>7, <1>8 DEF Added
<1> QED BY <1>3, <1>9

(* Rows stay rows of frame numbers. *)
LEMMA RowTypes ==
  ASSUME NEW P, NEW M, DOMAIN M = P, NEW R, \A s \in P : M[s] \in [Ix -> R],
         NEW t \in P, NEW i \in Ix, NEW a \in R
  PROVE  /\ DOMAIN [M EXCEPT ![t][i] = a] = P
         /\ \A s \in P : [M EXCEPT ![t][i] = a][s] \in [Ix -> R]
<1>1. PICK M2 : M2 = [M EXCEPT ![t][i] = a]
  OBVIOUS
<1>2. DOMAIN M2 = P /\ M2[t] = [M[t] EXCEPT ![i] = a] /\ \A s \in P \ {t} : M2[s] = M[s]
  BY <1>1
<1>3. M2[t] \in [Ix -> R]
  BY <1>2
<1>4. \A s \in P : M2[s] \in [Ix -> R]
  BY <1>2, <1>3
<1> QED BY <1>1, <1>2, <1>4

(* The walk enters a new, cleared table: no translation changes.           *)
LEMMA NewTableStep == PagingInv /\ Granted /\ NewTable => PagingInv'
<1> SUFFICES ASSUME PagingInv, Granted, NewTable PROVE PagingInv'
  OBVIOUS
<1>1. PICK f : f = request_frame
  OBVIOUS
<1>2. PICK i : i = PageIndexer(vaddr, level)
  OBVIOUS
<1>3. /\ machine' = machine /\ machine \in Machines /\ pc = "walk" /\ pc' = "walk"
      /\ ret' = ret /\ cr3' = cr3 /\ avail' = avail \ {f} /\ heap' = heap /\ seg' = seg /\ k' = k
      /\ vaddr' = vaddr /\ paddr' = paddr /\ level' = level - 1 /\ table' = f
      /\ want' = want /\ level > 1 /\ Entry = Absent /\ level \in 1..4 /\ avail # {}
      /\ mem' = [mem EXCEPT ![f] = Cleared, ![table][i] = f]
  BY <1>1, <1>2 DEF NewTable, NewTableWith, PagingInv, TypeOK
<1>4. f \in avail /\ f \in machine.avail /\ f \notin heap /\ f \in Physical /\ f \in Virtual
  BY <1>1, <1>3, MachineFacts DEF PagingInv, TypeOK, Granted
<1>5. vaddr \in Nat /\ vaddr \in Virtual /\ table \in Physical /\ i \in Ix
  <2>1. vaddr \in Nat /\ vaddr \in Virtual /\ table \in Physical
    BY <1>3, MachineFacts DEF PagingInv, TypeOK
  <2> QED BY <1>2, <1>3, <2>1, IndexType DEF Ix
<1>6. /\ DOMAIN mem = Physical
      /\ \A s \in Physical : mem[s] \in [Ix -> Virtual \cup {Absent}]
  BY DEF PagingInv, TypeOK, Ix
<1>7. TypeOK'
  <2>1. PICK M : M = [mem EXCEPT ![f] = Cleared]
    OBVIOUS
  <2>2. Cleared \in [Ix -> Virtual \cup {Absent}]
    BY DEF Cleared, Ix
  <2>3. DOMAIN M = Physical /\ \A s \in Physical : M[s] \in [Ix -> Virtual \cup {Absent}]
    BY <1>4, <1>6, <2>1, <2>2
  <2>4. mem' = [M EXCEPT ![table][i] = f]
    BY <1>3, <2>1
  <2>5. /\ DOMAIN mem' = Physical
        /\ \A s \in Physical : mem'[s] \in [Ix -> Virtual \cup {Absent}]
    BY <1>4, <1>5, <2>3, <2>4, RowTypes
  <2>6. Physical' = Physical /\ level' \in 1..4
    BY <1>3, SMTT(30) DEF Physical
  <2> QED BY <1>3, <1>4, <2>5, <2>6 DEF PagingInv, TypeOK, Ix
<1>8. Calls'
  <2>1. Pages' = Pages
    BY <1>3 DEF Pages
  <2>2. MappedUpTo(machine, Pages, seg, k)
    BY <1>3 DEF PagingInv, Calls
  <2>3. MappedUpTo(machine, Pages, seg, k)'
    BY <1>3, <2>1, <2>2
  <2> QED BY <1>3, <2>3 DEF PagingInv, Calls, Asked
<1>9. LowTables' => Built'
  <2>0. LowTables' => LowTables
    BY <1>3, LowKept
  <2> SUFFICES ASSUME LowTables PROVE Built'
    BY <2>0
  <2>1. PICK p : p = machine.pml4
    OBVIOUS
  <2>2. Built /\ Tree(mem, p) /\ Lower(mem, p) \subseteq machine.avail \ (avail \cup heap)
    BY <1>3, <2>1 DEF PagingInv, Built
  <2>3. table \in Upper(mem, p) /\ AtTable
    BY <1>3, <2>1, OnLevel
  <2>4. f # p /\ f \notin Lower(mem, p) /\ f \in DOMAIN mem
    BY <1>3, <1>4, <1>6, <2>1, <2>2, MachineFacts
  <2>5. table # f /\ table \in DOMAIN mem /\ mem[table][i] = Absent /\ DOMAIN mem[table] = Ix
    BY <1>2, <1>3, <1>5, <1>6, <2>3, <2>4 DEF Upper, Lower, Entry
  <2>6. Added(mem, table, i, f, mem')
    BY <1>3, <1>5, <2>4, <2>5, AddedRow
  <2>g. Grafted(mem, p, table, i, f, mem')
    BY <1>5, <2>2, <2>3, <2>4, <2>5, <2>6 DEF Grafted
  <2>7. Tree(mem', p) /\ Lower(mem', p) = Lower(mem, p) \cup {f}
    BY <2>g, GraftedTree, SMTT(30)
  <2>8. ASSUME NEW v \in Virtual PROVE P0(mem', p, v) = P0(mem, p, v)
    <3>1. v \in Nat
      BY <1>3, MachineFacts
    <3> QED BY <2>g, <3>1, GraftedPath, SMTT(30)
  <2>9. AtTable'
    <3>1. /\ table = p /\ i = PageIndexer(vaddr, 4) => P3(mem', p, vaddr) = f
          /\ table = P3(mem, p, vaddr) /\ i = PageIndexer(vaddr, 3) => P2(mem', p, vaddr) = f
          /\ table = P2(mem, p, vaddr) /\ i = PageIndexer(vaddr, 2) => P1(mem', p, vaddr) = f
      <4>1. Leads(mem, mem', p, table, i, f, vaddr)
        BY <1>5, <2>g, GraftedPath
      <4> QED BY <4>1 DEF Leads
    <3>2. table' = f /\ table' # Absent
      BY <1>3, <1>4, MachineFacts
    <3>3. /\ ~(level' = 4) /\ (level' = 3 => level = 4)
          /\ (level' = 2 => level = 3) /\ (level' = 1 => level = 2)
      BY <1>3, SMTT(30)
    <3>4. /\ level = 4 => table = p /\ i = PageIndexer(vaddr, 4)
          /\ level = 3 => table = P3(mem, p, vaddr) /\ i = PageIndexer(vaddr, 3)
          /\ level = 2 => table = P2(mem, p, vaddr) /\ i = PageIndexer(vaddr, 2)
      BY <1>2, <2>1, <2>3 DEF AtTable
    <3>5. vaddr' = vaddr /\ machine'.pml4 = p
      BY <1>3, <2>1
    <3> QED BY <3>1, <3>2, <3>3, <3>4, <3>5 DEF AtTable
  <2>10. Lower(mem', p) \subseteq machine'.avail \ (avail' \cup heap')
    BY <1>3, <1>4, <2>2, <2>7
  <2>11. \A v \in Virtual : P0(mem', p, v) = IF v \in DOMAIN want' THEN want'[v] ELSE Absent
    BY <1>3, <2>1, <2>2, <2>8 DEF Built
  <2>12. machine'.pml4 = p
    BY <1>3, <2>1
  <2> QED BY <2>7, <2>9, <2>10, <2>11, <2>12 DEF Built
<1> QED BY <1>3, <1>7, <1>8, <1>9 DEF PagingInv, FaultsOnlyLeftOut

(* The walk ends in the page table: the page asked for, and no other, is   *)
(* translated differently.                                                 *)
LEMMA SetPageStep == PagingInv /\ SetPage => PagingInv'
<1> SUFFICES ASSUME PagingInv, SetPage PROVE PagingInv'
  OBVIOUS
<1>1. PICK i : i = PageIndexer(vaddr, 1)
  OBVIOUS
<1>2. /\ machine' = machine /\ machine \in Machines /\ pc = "walk" /\ pc' = ret
      /\ ret' = ret /\ cr3' = cr3 /\ avail' = avail /\ heap' = heap /\ seg' = seg /\ k' = k
      /\ vaddr' = vaddr /\ paddr' = paddr /\ level' = level /\ table' = table
      /\ level = 1 /\ mem' = [mem EXCEPT ![table][i] = paddr]
      /\ want' = [v \in DOMAIN want \cup {vaddr} |-> IF v = vaddr THEN paddr ELSE want[v]]
      /\ ret \in {"segment", "test", "ready"} /\ paddr = Asked(vaddr)
  BY <1>1 DEF SetPage, call, PagingInv, TypeOK, Calls
<1>3. vaddr \in Nat /\ vaddr \in Virtual /\ paddr \in Virtual /\ paddr \in Nat /\ table \in Physical
      /\ i \in Ix
  <2>1. vaddr \in Nat /\ vaddr \in Virtual /\ table \in Physical /\ paddr \in Virtual /\ paddr \in Nat
    BY <1>2, MachineFacts DEF PagingInv, TypeOK
  <2> QED BY <1>1, <2>1, IndexType, SMTT(30) DEF Ix
<1>4. /\ DOMAIN mem = Physical
      /\ \A s \in Physical : mem[s] \in [Ix -> Virtual \cup {Absent}]
  BY DEF PagingInv, TypeOK, Ix
<1>5. DOMAIN want' = DOMAIN want \cup {vaddr}
      /\ \A v \in DOMAIN want' : want'[v] = IF v = vaddr THEN paddr ELSE want[v]
  BY <1>2
<1>6. TypeOK'
  <2>1. /\ DOMAIN mem' = Physical
        /\ \A s \in Physical : mem'[s] \in [Ix -> Virtual \cup {Absent}]
    BY <1>2, <1>3, <1>4, RowTypes
  <2>2. Physical' = Physical
    BY <1>2 DEF Physical
  <2> QED BY <1>2, <1>3, <1>5, <2>1, <2>2 DEF PagingInv, TypeOK, Ix
<1>7. Calls'
  <2>1. Pages = DOMAIN want' /\ Pages' = DOMAIN want'
    BY <1>2, <1>5 DEF Pages
  <2>2. MappedUpTo(machine, Pages, seg, k)
    BY <1>2 DEF PagingInv, Calls
  <2>3. MappedUpTo(machine, Pages, seg, k)'
    BY <1>2, <2>1, <2>2
  <2>4. cr3 => MappedAll(machine, DOMAIN want')
    <3>1. cr3 => MappedAll(machine, DOMAIN want)
      BY DEF PagingInv, Calls
    <3>2. DOMAIN want \subseteq DOMAIN want'
      BY <1>5
    <3> QED BY <3>1, <3>2, MappedMore
  <2>5. \A v \in DOMAIN want' : want'[v] = Asked(v)
    BY <1>2, <1>5 DEF PagingInv, Calls
  <2>6. \A v : Asked(v)' = Asked(v)
    BY <1>2 DEF Asked
  <2>7. ret = "test" => machine.test \in DOMAIN want'
    BY <1>2, <1>5 DEF PagingInv, Calls
  <2> QED BY <1>2, <2>3, <2>4, <2>5, <2>6, <2>7 DEF Calls
<1>8. LowTables' => Built'
  <2>0. LowTables' => LowTables
    BY <1>2, LowKept
  <2> SUFFICES ASSUME LowTables PROVE Built'
    BY <2>0
  <2>1. PICK p : p = machine.pml4
    OBVIOUS
  <2>2. Built /\ Tree(mem, p) /\ Lower(mem, p) \subseteq machine.avail \ (avail \cup heap)
    BY <1>2, <2>1 DEF PagingInv, Built
  <2>3. table \in L1(mem, p) /\ table = P1(mem, p, vaddr) /\ table # Absent
    BY <1>2, <2>1, OnLevel DEF AtTable
  <2>4. Put(mem, table, i, paddr, mem')
    BY <1>2, <1>3, <1>4 DEF Put
  <2>e. Entered(mem, p, table, i, paddr, mem')
    BY <1>3, <2>2, <2>3, <2>4 DEF Entered
  <2>5. Tree(mem', p) /\ Lower(mem', p) = Lower(mem, p)
    BY <2>e, EnteredTree, SMTT(30)
  <2>6. ASSUME NEW v \in Virtual
        PROVE  P0(mem', p, v) = IF v \in DOMAIN want' THEN want'[v] ELSE Absent
    <3>1. v \in Nat
      BY <1>2, MachineFacts
    <3>2. P0(mem', p, v) = IF P1(mem, p, v) = table /\ PageIndexer(v, 1) = i
                             THEN paddr ELSE P0(mem, p, v)
      <4>1. Enters(mem, mem', p, table, i, paddr, v)
        BY <2>e, <3>1, EnteredPath
      <4> QED BY <4>1 DEF Enters
    <3>3. P1(mem, p, v) = table /\ PageIndexer(v, 1) = i => v = vaddr
      BY <1>1, <1>3, <2>2, <2>3, PathsMeet
    <3>4. P0(mem, p, v) = IF v \in DOMAIN want THEN want[v] ELSE Absent
      BY <2>1, <2>2 DEF Built
    <3>5. CASE v = vaddr
      BY <1>1, <1>5, <2>3, <3>2, <3>5
    <3>6. CASE v # vaddr
      BY <1>5, <3>2, <3>3, <3>4, <3>6
    <3> QED BY <3>5, <3>6
  <2>7. machine'.pml4 = p /\ pc' # "walk"
    BY <1>2, <2>1
  <2> QED BY <1>2, <2>2, <2>5, <2>6, <2>7 DEF Built
<1>9. pc' # "fault"
  BY <1>2
<1> QED BY <1>2, <1>6, <1>7, <1>8, <1>9 DEF PagingInv, FaultsOnlyLeftOut

(* A page fault on a table: the table is in a page the identity paging     *)
(* left out.                                                               *)
LEMMA PageFaultStep == PagingInv /\ Granted /\ PageFault => PagingInv'
<1> SUFFICES ASSUME PagingInv, Granted, PageFault PROVE PagingInv'
  OBVIOUS
<1>1. /\ machine' = machine /\ machine \in Machines /\ pc = "walk" /\ pc' = "fault"
      /\ ret' = ret /\ cr3' = cr3 /\ heap' = heap /\ seg' = seg /\ k' = k
      /\ vaddr' = vaddr /\ paddr' = paddr /\ level' = level /\ want' = want /\ mem' = mem
  BY DEF PageFault, PagingInv, TypeOK
<1>2. \/ ~Accessible(table) /\ table' = table /\ avail' = avail
      \/ /\ avail # {} /\ ~Accessible(request_frame)
         /\ table' = request_frame /\ avail' = avail \ {request_frame}
  BY DEF PageFault
<1>3. avail' \subseteq avail /\ table' \in Physical
  BY <1>2 DEF PagingInv, TypeOK, Granted
<1>4. TypeOK'
  <2>1. Physical' = Physical
    BY <1>1 DEF Physical
  <2> QED BY <1>1, <1>3, <2>1 DEF PagingInv, TypeOK
<1>5. Calls'
  BY <1>1 DEF PagingInv, Calls, Asked
<1>6. LowTables' => LowTables
  BY <1>1, <1>3, LowKept
<1>7. LowTables => Built
  BY <1>1 DEF PagingInv
<1>8. LowTables' => Built'
  BY <1>1, <1>3, <1>6, <1>7, BuiltKept
<1>9. ASSUME LowTables
      PROVE  table' \in machine.avail \cup {machine.pml4} /\ ~Accessible(table')
  <2>1. CASE ~Accessible(table) /\ table' = table
    <3>1. table \in machine.avail \cup {machine.pml4}
      <4>1. table \in {machine.pml4} \cup Lower(mem, machine.pml4)
        <5>1. level = 1 \/ level = 2 \/ level = 3 \/ level = 4
          BY <1>1, <1>9, OnLevel, SMTT(30)
        <5> QED BY <1>1, <1>9, <5>1, OnLevel DEF Lower
      <4> QED BY <1>7, <1>9, <4>1 DEF Built
    <3> QED BY <2>1, <3>1
  <2>2. CASE avail # {} /\ ~Accessible(request_frame) /\ table' = request_frame
    <3>1. request_frame \in machine.avail
      BY <2>2 DEF PagingInv, Granted
    <3> QED BY <2>2, <3>1
  <2> QED BY <1>2, <2>1, <2>2
<1>10. FaultsOnlyLeftOut'
  <2>1. LowTables => \E s \in 1..Len(machine.segs) : table' \in LeftOut(machine.segs[s])
    BY <1>1, <1>9, NotAccessible
  <2> QED BY <1>1, <1>6, <2>1 DEF FaultsOnlyLeftOut
<1> QED BY <1>1, <1>3, <1>4, <1>5, <1>8, <1>10 DEF PagingInv

(* Every step of Paging preserves the invariant.                           *)
LEMMA PagingNext == PagingInv /\ Granted /\ [Next]_vars => PagingInv'
<1> SUFFICES ASSUME PagingInv, Granted, [Next]_vars PROVE PagingInv'
  OBVIOUS
<1>1. CASE Running
  BY <1>1, ClearStep, IdentityStep, NextSegmentStep, LoadCR3Step, TestStep, UseTableStep,
     NewTableStep, NoFrameStep, SetPageStep, PageFaultStep DEF Running
<1>2. ASSUME NEW f \in avail, HeapPage(f) PROVE PagingInv'
  BY <1>2, HeapPageStep
<1>3. CASE HeapNoFrame
  BY <1>3, NoFrameStep
<1>4. CASE UNCHANGED vars
  <2>1. /\ machine' = machine /\ pc' = pc
        /\ ret' = ret /\ cr3' = cr3 /\ avail' = avail /\ heap' = heap /\ seg' = seg /\ k' = k
        /\ vaddr' = vaddr /\ paddr' = paddr /\ level' = level /\ table' = table
        /\ want' = want /\ mem' = mem
    BY <1>4 DEF vars, call
  <2>2. TypeOK'
    BY <2>1 DEF PagingInv, TypeOK, Physical
  <2>3. Calls'
    BY <2>1 DEF PagingInv, Calls, Asked, Pages
  <2>4. LowTables' = LowTables
    BY <2>1 DEF LowTables
  <2>5. pc # "new" /\ LowTables => Built'
    BY <2>1, BuiltKept DEF PagingInv
  <2>6. FaultsOnlyLeftOut'
    BY <2>1, <2>4 DEF PagingInv, FaultsOnlyLeftOut
  <2> QED BY <2>1, <2>2, <2>3, <2>4, <2>5, <2>6 DEF PagingInv
<1>5. CASE Spin
  BY <1>4, <1>5 DEF Spin
<1> QED BY <1>1, <1>2, <1>3, <1>4, <1>5 DEF Next

-----------------------------------------------------------------------------
(* The properties of Paging.                                               *)

(* The invariant implies MapsExact; is_page_allocated follows table        *)
(* pointers, which lose nothing while tables are low.                      *)
LEMMA InvMapsExact == PagingInv => MapsExact
<1> SUFFICES ASSUME PagingInv, pc # "new", LowTables, NEW v \in Virtual
             PROVE  /\ Translate(v) = (IF v \in DOMAIN want THEN want[v] ELSE Absent)
                    /\ is_page_allocated(v) <=> v \in DOMAIN want
  BY DEF MapsExact
<1>1. Built /\ machine \in Machines
  BY DEF PagingInv, TypeOK
<1>2. P0(mem, machine.pml4, v) = IF v \in DOMAIN want THEN want[v] ELSE Absent
  BY <1>1 DEF Built
<1>3. v \in Nat /\ Absent \notin Nat
  BY <1>1, MachineFacts
<1>4. v \in DOMAIN want => want[v] # Absent
  <2>1. v \in DOMAIN want => want[v] = Asked(v)
    BY DEF PagingInv, Calls
  <2>2. Asked(v) \in Nat
    BY <1>3 DEF Asked
  <2> QED BY <1>3, <2>1, <2>2
<1>5. /\ P3(mem, machine.pml4, v) \in L3(mem, machine.pml4) \cup {Absent}
      /\ P2(mem, machine.pml4, v) \in L2(mem, machine.pml4) \cup {Absent}
      /\ P1(mem, machine.pml4, v) \in L1(mem, machine.pml4) \cup {Absent}
  BY <1>3, PathLevels
<1>6. ASSUME NEW t \in Lower(mem, machine.pml4) \cup {Absent}, NEW l
      PROVE  SwStep(t, v, l) = Step(mem, t, v, l)
  <2>1. t # Absent => TablePtr(t) = t
    BY <1>1, LowPtr
  <2> QED BY <2>1 DEF SwStep, Step
<1>7. HwStep(machine.pml4, v, 4) = P3(mem, machine.pml4, v)
  BY DEF HwStep, P3, Step
<1>8. SwStep(P3(mem, machine.pml4, v), v, 3) = P2(mem, machine.pml4, v)
  BY <1>5, <1>6 DEF Lower, P2
<1>9. SwStep(P2(mem, machine.pml4, v), v, 2) = P1(mem, machine.pml4, v)
  BY <1>5, <1>6 DEF Lower, P1
<1>10. SwStep(P1(mem, machine.pml4, v), v, 1) = P0(mem, machine.pml4, v)
  BY <1>5, <1>6 DEF Lower, P0
<1>11. is_page_allocated(v) <=> P0(mem, machine.pml4, v) # Absent
  BY <1>7, <1>8, <1>9, <1>10 DEF is_page_allocated
<1> QED BY <1>2, <1>4, <1>11, TranslateIs

(* What MappingStays says of one step. *)
Stays == pc # "new" /\ LowTables' =>
           \A v \in Virtual : Translate(v) # Absent => Translate(v)' = Translate(v)

(* A step does not change the translation of a mapped page.                *)
LEMMA StepStays ==
  PagingInv /\ PagingInv' /\ MapsExact /\ MapsExact' /\ [Next]_vars => [Stays]_vars
<1> SUFFICES ASSUME PagingInv, PagingInv', MapsExact, MapsExact', Next, pc # "new", LowTables',
                    NEW v \in Virtual, Translate(v) # Absent
             PROVE  Translate(v)' = Translate(v)
  BY DEF Stays
<1>1. /\ machine' = machine /\ pc' # "new" /\ avail' \cup heap' \subseteq avail \cup heap
      /\ DOMAIN want \subseteq DOMAIN want'
  <2>1. CASE SetPage
    BY <2>1 DEF SetPage, PagingInv, Calls
  <2>2. CASE Running /\ ~SetPage
    BY <2>2 DEF Running, ClearPML4, IdentityPaging, NextSegment, LoadCR3, TestPage, UseTable,
       NewTable, NewTableWith, NoFrame, PageFault, CallAllocatePage
  <2>3. ASSUME NEW f \in avail, HeapPage(f)
        PROVE  /\ machine' = machine /\ pc' # "new" /\ avail' \cup heap' \subseteq avail \cup heap
               /\ DOMAIN want \subseteq DOMAIN want'
    BY <2>3 DEF HeapPage, CallAllocatePage
  <2>4. CASE HeapNoFrame \/ Spin
    BY <2>4 DEF HeapNoFrame, Spin, vars
  <2> QED BY <2>1, <2>2, <2>3, <2>4 DEF Next
<1>2. LowTables
  BY <1>1, LowKept
<1>3. Translate(v) = (IF v \in DOMAIN want THEN want[v] ELSE Absent)
  BY <1>2 DEF MapsExact
<1>4. Translate(v)' = (IF v \in DOMAIN want' THEN want'[v] ELSE Absent)
  BY <1>1 DEF MapsExact, Virtual
<1>5. v \in DOMAIN want /\ v \in DOMAIN want'
  BY <1>1, <1>3
<1>6. want[v] = Asked(v) /\ want'[v] = Asked(v)'
  BY <1>5 DEF PagingInv, Calls
<1>7. Asked(v)' = Asked(v)
  BY <1>1 DEF Asked
<1> QED BY <1>3, <1>4, <1>5, <1>6, <1>7

-----------------------------------------------------------------------------
(* The theorems that count frames and tables. *)

(* The theory of finite sets, which only the rest of the module needs. *)
Sets == INSTANCE FiniteSetTheorems

(* It speaks of the same finite sets and numbers of elements. *)
LEMMA SameFinite == ASSUME NEW S PROVE IsFiniteSet(S) = Sets!IsFiniteSet(S)
  BY DEF IsFiniteSet, Sets!IsFiniteSet

LEMMA SameNumber == ASSUME NEW S PROVE Cardinality(S) = Sets!Cardinality(S)
  BY DEF Cardinality, Sets!Cardinality

LEMMA FiniteSubset ==
  ASSUME NEW S, IsFiniteSet(S), NEW T \in SUBSET S
  PROVE  IsFiniteSet(T)
  BY SameFinite, Sets!FS_Subset

LEMMA NumberInterval ==
  ASSUME NEW a \in Int, NEW b \in Int
  PROVE  IsFiniteSet(a..b) /\ Cardinality(a..b) = IF a > b THEN 0 ELSE b - a + 1
  BY SameFinite, SameNumber, Sets!FS_Interval

LEMMA FiniteProduct ==
  ASSUME NEW S, NEW T, IsFiniteSet(S), IsFiniteSet(T)
  PROVE  IsFiniteSet(S \X T)
  BY SameFinite, Sets!FS_Product

(* Sets whose elements can be paired have as many of them. *)
LEMMA NumberPaired ==
  ASSUME NEW S, NEW T, IsFiniteSet(S), NEW f \in [S -> T],
         \A a, b \in S : f[a] = f[b] => a = b, \A t \in T : \E a \in S : f[a] = t
  PROVE  IsFiniteSet(T) /\ Cardinality(T) = Cardinality(S)
<1>1. f \in Sets!Bijection(S, T)
  BY DEF Sets!Bijection, Sets!Injection, Sets!Surjection, Sets!IsInjective
<1>2. Sets!ExistsBijection(S, T)
  BY <1>1 DEF Sets!ExistsBijection
<1>3. Sets!IsFiniteSet(T) /\ Sets!Cardinality(T) = Sets!Cardinality(S)
  BY <1>2, SameFinite, Sets!FS_Bijection
<1> QED
  BY <1>3, SameFinite, SameNumber

(* A set of natural numbers has a least element: < is well-founded. *)
LEMMA LeastNatural ==
  ASSUME NEW S \in SUBSET Nat, NEW n \in S
  PROVE  \E m \in S : \A c \in S : m <= c
<1>1. PICK R : R = Sets!OpToRel(<, Nat)
  OBVIOUS
<1>2. Sets!IsWellFoundedOn(R, Nat)
  BY <1>1, Sets!NatLessThanWellFounded
<1>3. PICK m \in S : \A y \in S : ~(<<y, m>> \in R)
  BY <1>2, Sets!WFMin
<1>4. \A x, y \in Nat : x < y => <<x, y>> \in R
  BY <1>1 DEF Sets!OpToRel
<1>5. ASSUME NEW c \in S PROVE m <= c
  <2>1. m \in Nat /\ c \in Nat
    OBVIOUS
  <2>2. ~(c < m)
    BY <1>3, <1>4, <2>1
  <2> QED BY <2>1, <2>2, SMTT(30)
<1> QED BY <1>5

(* The frame PMem grants is one of the free frames. *)
LEMMA RequestFrame == PagingInv => Granted
<1> SUFFICES ASSUME PagingInv, avail # {} PROVE request_frame \in avail
  BY DEF Granted
<1>1. avail \in SUBSET Nat
  BY MachineFacts DEF PagingInv, TypeOK
<1>2. PICK n \in avail : TRUE
  OBVIOUS
<1>3. \E x \in avail : \A y \in avail : x <= y
  BY <1>1, <1>2, LeastNatural
<1> QED BY <1>3 DEF request_frame, Min

(* The inductive invariant holds of every execution of Paging: the tables  *)
(* that allocate_page builds are a tree of granted frames, a walk is on    *)
(* the path of its page, and what was asked for is mapped.                 *)
THEOREM PagingInvariant == Spec => []PagingInv
  BY PagingInit, PagingNext, RequestFrame, PTL DEF Spec

(* The invariant implies TablesTree: the slots in use and the tables below *)
(* the PML4 correspond one to one.                                         *)
LEMMA InvTablesTree == PagingInv => TablesTree
<1> SUFFICES ASSUME PagingInv, pc # "new", LowTables
             PROVE  /\ Cardinality(Slots) = Cardinality(PDPTs \cup PDs \cup PTs)
                    /\ (PDPTs \cup PDs \cup PTs) \cap ({machine.pml4} \cup avail \cup heap) = {}
  BY DEF PagingInv, TablesTree
<1>1. PICK M : M = mem
  OBVIOUS
<1>2. PICK p : p = machine.pml4
  OBVIOUS
<1>3. PDPTs = L3(M, p) /\ PDs = L2(M, p) /\ PTs = L1(M, p)
  <2>1. ASSUME NEW T PROVE Below(T) = Down(M, T)
    BY <1>1, SMTT(30) DEF Below, Down, Ix
  <2>2. PDPTs = L3(M, p)
    BY <1>2, <2>1 DEF PDPTs, L3
  <2>3. PDs = L2(M, p)
    BY <2>1, <2>2 DEF PDs, L2
  <2>4. PTs = L1(M, p)
    BY <2>1, <2>3 DEF PTs, L1
  <2> QED
    BY <2>2, <2>3, <2>4
<1>4. Built /\ machine \in Machines /\ Tree(M, p) /\ Lower(M, p) \subseteq machine.avail \ (avail \cup heap)
  BY <1>1, <1>2 DEF PagingInv, TypeOK, Built
<1>5. PDPTs \cup PDs \cup PTs = Lower(M, p)
  BY <1>3 DEF Lower
<1>6. Lower(M, p) \cap ({machine.pml4} \cup avail \cup heap) = {}
  BY <1>4, MachineFacts
<1>7. Slots = {s \in Upper(M, p) \X Ix : M[s[1]][s[2]] # Absent}
  BY <1>1, <1>2, <1>3 DEF Slots, Upper, Ix
<1>8. IsFiniteSet(Slots)
  <2>1. IsFiniteSet(DOMAIN M) /\ IsFiniteSet(Ix)
    <3>1. DOMAIN M = 0..(machine.frames - 1) /\ machine.frames \in Nat /\ E \in Nat
      BY <1>1, <1>4, MachineFacts, PagingAssumption DEF PagingInv, TypeOK, Physical
    <3>2. machine.frames - 1 \in Int /\ E - 1 \in Int /\ 0 \in Int
      BY <3>1, SMTT(30)
    <3> QED BY <3>1, <3>2, NumberInterval DEF Ix
  <2>2. PICK D : D = DOMAIN M
    OBVIOUS
  <2>3. IsFiniteSet(D \X Ix)
    BY <2>1, <2>2, FiniteProduct
  <2>4. Upper(M, p) \subseteq D
    BY <1>4, <2>2 DEF Tree, Upper, Lower
  <2>5. ASSUME NEW U, NEW X, NEW V, U \subseteq V PROVE U \X X \subseteq V \X X
    BY <2>5
  <2>6. Slots \in SUBSET (D \X Ix)
    <3>1. Slots \subseteq Upper(M, p) \X Ix
      BY <1>7
    <3> QED BY <2>4, <2>5, <3>1
  <2> QED BY <2>3, <2>6, FiniteSubset
<1>9. Cardinality(Slots) = Cardinality(Lower(M, p))
  <2> DEFINE g == [s \in Slots |-> M[s[1]][s[2]]]
  <2>1. Lower(M, p) = Down(M, Upper(M, p))
    BY SMTT(30) DEF Down, Upper, Lower, L3, L2, L1
  <2>2. \A s \in Slots : s[1] \in Upper(M, p) /\ s[2] \in Ix /\ M[s[1]][s[2]] # Absent
                         /\ s = <<s[1], s[2]>>
    BY <1>7, SMTT(30)
  <2>3. g \in [Slots -> Lower(M, p)]
    BY <2>1, <2>2, SMTT(30) DEF Down
  <2>4. ASSUME NEW s \in Slots, NEW t \in Slots, g[s] = g[t] PROVE s = t
    <3>1. PICK f : f = g[s]
      OBVIOUS
    <3>2. Slot(M, Upper(M, p), s[1], s[2], f) /\ Slot(M, Upper(M, p), t[1], t[2], f)
      BY <2>2, <2>4, <3>1 DEF Slot
    <3>3. OneSlot(M, Upper(M, p))
      BY <1>4 DEF Tree
    <3>4. s[1] = t[1] /\ s[2] = t[2]
      BY <3>2, <3>3, SlotOf, SMTT(30)
    <3> QED BY <2>2, <3>4
  <2>5. ASSUME NEW f \in Lower(M, p) PROVE \E s \in Slots : g[s] = f
    <3>1. PICK t \in Upper(M, p), x \in Ix : f = M[t][x] /\ f # Absent
      BY <2>1, SMTT(30) DEF Down
    <3>2. <<t, x>> \in Slots
      BY <1>7, <3>1
    <3>3. g[<<t, x>>] = f
      BY <3>1, <3>2
    <3> QED BY <3>2, <3>3
  <2> HIDE DEF g
  <2> QED BY <1>8, <2>3, <2>4, <2>5, NumberPaired
<1> QED BY <1>5, <1>6, <1>9

(* The processor translates exactly the pages allocate_page was asked to   *)
(* map, to the frames asked for, at every moment.                          *)
THEOREM MapsExactHolds == Spec => []MapsExact
  BY PagingInvariant, InvMapsExact, PTL

(* No frame is a table twice; no table is free or belongs to the heap.     *)
THEOREM TablesTreeHolds == Spec => []TablesTree
  BY PagingInvariant, InvTablesTree, PTL

(* A page fault on a table happens only in the pages __identity_paging     *)
(* leaves out by its rounding.                                             *)
THEOREM FaultsOnlyLeftOutHolds == Spec => []FaultsOnlyLeftOut
<1>1. PagingInv => FaultsOnlyLeftOut
  BY DEF PagingInv
<1> QED BY <1>1, PagingInvariant, PTL

(* allocate_page never changes or removes a mapping made before.           *)
THEOREM MappingStaysHolds == Spec => MappingStays
<1>1. PagingInv /\ PagingInv' /\ MapsExact /\ MapsExact' /\ [Next]_vars =>
        [pc # "new" /\ LowTables' =>
           \A v \in Virtual : Translate(v) # Absent => Translate(v)' = Translate(v)]_vars
  BY StepStays DEF Stays
<1> QED BY <1>1, PagingInvariant, MapsExactHolds, PTL DEF Spec, MappingStays
=============================================================================
