-------------------------- MODULE BootloaderProofs --------------------------
(***************************************************************************)
(* Proofs about Bootloader, for every kernel file, page size and behaviour *)
(* of the firmware.                                                        *)
(*                                                                         *)
(* What has been done is related to what is left to do: a step that the    *)
(* kernel depends on has been taken or is still among the steps of todo.   *)
(* Where a step is in todo is counted from its end, which the loop over    *)
(* the program headers does not change.                                    *)
(***************************************************************************)
EXTENDS Bootloader, TLAPS

(* A step that names no prover is left to Zenon. *)
USE ZenonT(30)

(* A value that is a sequence, of whatever elements. *)
IsSeq(s) == Len(s) \in Nat /\ s = [n \in 1..Len(s) |-> s[n]]

(* The steps there are. *)
EfiNames == {"image", "root_fs", "root_dir", "kernel", "font", "seek", "e_hdr", "p_hdrs",
             "psf_header", "glyphs", "gop", "rsdp"}
PoolNames == {"p_hdrs", "psf_header", "glyphs", "font", "framebuffer", "double_buffer", "map",
              "stack"}
Decisions == {"verify_elf", "verify_psf", "start", "memory_data", "size_map", "get_map",
              "fill_memory_data", "exit", "jump"}

IsStep(s, op, x) == s.op = op /\ s.x = x

(* A step of efi_main for the kernel file on the volume. *)
StepFor(s, len, segments) ==
  /\ s = Step(s.op, s.x)
  /\ \/ s.op = "efi" /\ s.x \in EfiNames
     \/ s.op = "pool" /\ s.x \in PoolNames
     \/ s.op \in Decisions /\ s.x = 0
     \/ s.op = "p_hdr" /\ s.x \in 1..(len + 1)
     \/ s.op \in {"pages", "read"} /\ s.x \in segments

StepOK(s) == StepFor(s, Len(kernel.p_hdrs), Segments(kernel))

StepsOK == IsSeq(todo) /\ \A n \in DOMAIN todo : StepOK(todo[n])

(* What the kernel is handed, but for the memory data. *)
Handed ==
  {Efi(x) : x \in {"e_hdr", "psf_header", "glyphs", "gop", "rsdp"}}
    \cup {AllocatePool(x) : x \in {"font", "framebuffer", "double_buffer", "stack", "map"}}

(* The frames allocated for a segment. *)
RunOf(i) == FrameRun(kernel.p_hdrs[i].page, num_of_pages(kernel.p_hdrs[i]))

(* The last steps are in their order, and nothing else is among them. *)
Ordered ==
  \A n \in DOMAIN todo :
    /\ todo[n].op = "jump" <=> n = Len(todo)
    /\ todo[n].op = "exit" <=> n = Len(todo) - 1
    /\ todo[n].op = "fill_memory_data" <=> n = Len(todo) - 2
    /\ todo[n].op \in {"memory_data", "get_map", "p_hdr", "pages", "read"} => n < Len(todo) - 2

(* The loop is at one program header at most.  The steps of a segment are  *)
(* at the front, and the loop is behind it.                                *)
AtHeader ==
  /\ \A m, n \in DOMAIN todo : todo[m].op = "p_hdr" /\ todo[n].op = "p_hdr" => m = n
  /\ \A n \in DOMAIN todo : todo[n].op = "p_hdr" =>
       \A i \in Segments(kernel) : i >= todo[n].x => backed[i] = {}
  /\ \A n \in DOMAIN todo : todo[n].op = "pages" =>
       /\ n = 1 /\ backed[todo[1].x] = {}
       /\ \A m \in DOMAIN todo : todo[m].op = "p_hdr" => todo[1].x < todo[m].x
  /\ \A n \in DOMAIN todo : todo[n].op = "read" =>
       \/ n = 3 /\ IsStep(todo[1], "pages", todo[3].x) /\ todo[2].op = "efi"
       \/ n = 2 /\ todo[1].op = "efi" /\ backed[todo[2].x] = RunOf(todo[2].x)
       \/ n = 1 /\ backed[todo[1].x] = RunOf(todo[1].x)

(* What is left to do completes what has been done. *)
Completed ==
  todo # <<>> =>
    /\ \A s \in Handed : s \in held \/ \E n \in DOMAIN todo : IsStep(todo[n], s.op, s.x)
    /\ \A i \in Segments(kernel) : i \in loaded \/ \E n \in DOMAIN todo :
         IsStep(todo[n], "read", i) \/ (todo[n].op = "p_hdr" /\ todo[n].x <= i)
    /\ \/ AllocatePool("memory_data") \in held
       \/ \E n \in DOMAIN todo : todo[n].op \in {"memory_data", "fill_memory_data"}
    /\ \/ AllocatePool("memory_data") \in held \/ failed
       \/ \E n \in DOMAIN todo : todo[n].op = "memory_data"
    /\ mmap_sz > 0 \/ \E n \in DOMAIN todo : todo[n].op = "get_map"
    /\ ~null_write

(* The frames of a segment are its own, and a segment is read into them. *)
Backed ==
  /\ backed \in [DOMAIN kernel.p_hdrs -> SUBSET Nat]
  /\ \A i \in DOMAIN kernel.p_hdrs :
       backed[i] = {} \/ (i \in Segments(kernel) /\ backed[i] = RunOf(i))
  /\ \A i, j \in DOMAIN kernel.p_hdrs : i # j => backed[i] \cap backed[j] = {}
  /\ \A i \in loaded : backed[i] = RunOf(i)

(* The key is the key of the map that was read; when the boot services are *)
(* gone the map is the one in force.                                       *)
KeyOfMap ==
  /\ mmap_key = version => mmap_sz = map_len
  /\ ~services => mmap_key = version /\ \A n \in DOMAIN todo : todo[n].op = "jump"
  /\ todo # <<>> /\ todo[1].op = "jump" => ~services

BootInv ==
  /\ TypeOK /\ StepsOK
  /\ Ordered /\ AtHeader /\ Completed /\ Backed /\ KeyOfMap
  /\ StartsComplete /\ StopsForCause
  /\ main = "kernel" => ~services

-----------------------------------------------------------------------------
(* Sequences.                                                              *)

LEMMA SeqOfRange ==
  ASSUME NEW s, IsSeq(s)
  PROVE  \E S : s \in Seq(S)
<1>1. DOMAIN s = 1..Len(s)
  BY DEF IsSeq
<1>2. s \in Seq({s[n] : n \in 1..Len(s)})
  BY <1>1, SMTT(30) DEF IsSeq
<1> QED
  BY <1>2

LEMMA Elements == ASSUME NEW S, NEW s \in Seq(S) PROVE \A n \in DOMAIN s : s[n] \in S
  BY SMTT(30)

LEMMA IsSeqOf ==
  ASSUME NEW S, NEW s \in Seq(S)
  PROVE  IsSeq(s) /\ DOMAIN s = 1..Len(s)
  BY SMTT(30) DEF IsSeq

(* What Tail leaves. *)
LEMMA TailOf ==
  ASSUME NEW s, IsSeq(s), s # <<>>
  PROVE  /\ IsSeq(Tail(s)) /\ Len(s) \in Nat /\ Len(s) >= 1 /\ Head(s) = s[1]
         /\ Len(Tail(s)) = Len(s) - 1 /\ DOMAIN s = 1..Len(s)
         /\ DOMAIN Tail(s) = 1..(Len(s) - 1)
         /\ \A n \in 1..(Len(s) - 1) : Tail(s)[n] = s[n + 1]
<1>1. PICK S : s \in Seq(S)
  BY SeqOfRange
<1>2. Tail(s) \in Seq(S) /\ Len(s) \in Nat /\ Len(s) >= 1 /\ Len(Tail(s)) = Len(s) - 1
  BY <1>1, SMTT(30)
<1>3. IsSeq(Tail(s)) /\ DOMAIN s = 1..Len(s) /\ DOMAIN Tail(s) = 1..(Len(s) - 1)
  BY <1>1, <1>2, IsSeqOf
<1>4. Head(s) = s[1] /\ \A n \in 1..(Len(s) - 1) : Tail(s)[n] = s[n + 1]
  BY <1>1, <1>2, SMTT(30)
<1> QED
  BY <1>2, <1>3, <1>4

(* What a concatenation holds. *)
LEMMA CatOf ==
  ASSUME NEW s, NEW t, IsSeq(s), IsSeq(t)
  PROVE  /\ IsSeq(s \o t) /\ Len(s) \in Nat /\ Len(t) \in Nat
         /\ Len(s \o t) = Len(s) + Len(t)
         /\ DOMAIN (s \o t) = 1..(Len(s) + Len(t))
         /\ \A n \in 1..Len(s) : (s \o t)[n] = s[n]
         /\ \A n \in 1..Len(t) : (s \o t)[Len(s) + n] = t[n]
<1>1. PICK S : s \in Seq(S)
  BY SeqOfRange
<1>2. PICK T : t \in Seq(T)
  BY SeqOfRange
<1>3. s \in Seq(S \cup T) /\ t \in Seq(S \cup T)
  BY <1>1, <1>2, SMTT(30)
<1>4. s \o t \in Seq(S \cup T) /\ Len(s) \in Nat /\ Len(t) \in Nat /\ Len(s \o t) = Len(s) + Len(t)
  BY <1>3, SMTT(30)
<1>5. IsSeq(s \o t) /\ DOMAIN (s \o t) = 1..(Len(s) + Len(t))
  BY <1>4, IsSeqOf
<1>6. \A n \in 1..Len(s) : (s \o t)[n] = s[n]
  BY <1>3, <1>4, SMTT(30)
<1>7. \A n \in 1..Len(t) : (s \o t)[Len(s) + n] = t[n]
  BY <1>3, <1>4, SMTT(30)
<1> QED
  BY <1>4, <1>5, <1>6, <1>7

-----------------------------------------------------------------------------
(* The steps of efi_main.                                                  *)

(* A step that neither loads a segment nor belongs to start_kernel. *)
PlainStep(s) ==
  /\ s = Step(s.op, s.x)
  /\ \/ s.op = "efi" /\ s.x \in EfiNames
     \/ s.op = "pool" /\ s.x \in PoolNames
     \/ s.op \in {"verify_elf", "verify_psf"} /\ s.x = 0

Plain(s) == IsSeq(s) /\ \A n \in DOMAIN s : PlainStep(s[n])

(* The beginning of efi_main: the loop over the program headers is step 11. *)
Beginning(s) ==
  /\ IsSeq(s)
  /\ \A n \in DOMAIN s : PlainStep(s[n]) \/ (n = 11 /\ s[n] = Step("p_hdr", 1))

Has(s, e) == \E n \in DOMAIN s : s[n] = e

LEMMA PlainCat ==
  ASSUME NEW s, NEW t, Plain(s), Plain(t)
  PROVE  Plain(s \o t) /\ Len(s \o t) = Len(s) + Len(t)
<1>1. IsSeq(s) /\ IsSeq(t) /\ DOMAIN s = 1..Len(s) /\ DOMAIN t = 1..Len(t)
  BY DEF Plain, IsSeq
<1>2. /\ IsSeq(s \o t) /\ Len(s) \in Nat /\ Len(t) \in Nat
      /\ Len(s \o t) = Len(s) + Len(t)
      /\ DOMAIN (s \o t) = 1..(Len(s) + Len(t))
      /\ \A n \in 1..Len(s) : (s \o t)[n] = s[n]
      /\ \A n \in 1..Len(t) : (s \o t)[Len(s) + n] = t[n]
  BY <1>1, CatOf, SMTT(30)
<1>3. ASSUME NEW n \in DOMAIN (s \o t) PROVE PlainStep((s \o t)[n])
  <2>1. CASE n \in 1..Len(s)
    BY <1>1, <1>2, <2>1 DEF Plain
  <2>2. CASE n \notin 1..Len(s)
    <3>1. n - Len(s) \in 1..Len(t) /\ n = Len(s) + (n - Len(s))
      BY <1>2, <2>2, SMTT(30)
    <3>2. (s \o t)[n] = t[n - Len(s)]
      BY <1>2, <3>1
    <3> QED
      BY <1>1, <3>1, <3>2 DEF Plain
  <2> QED
    BY <2>1, <2>2
<1> QED
  BY <1>2, <1>3 DEF Plain

(* What is appended to the beginning, behind the loop. *)
LEMMA BeginningCat ==
  ASSUME NEW s, NEW t, Beginning(s), Plain(t), Len(s) >= 11
  PROVE  Beginning(s \o t) /\ Len(s \o t) = Len(s) + Len(t)
<1>1. IsSeq(s) /\ IsSeq(t) /\ DOMAIN s = 1..Len(s) /\ DOMAIN t = 1..Len(t)
  BY DEF Plain, Beginning, IsSeq
<1>2. /\ IsSeq(s \o t) /\ Len(s) \in Nat /\ Len(t) \in Nat
      /\ Len(s \o t) = Len(s) + Len(t)
      /\ DOMAIN (s \o t) = 1..(Len(s) + Len(t))
      /\ \A n \in 1..Len(s) : (s \o t)[n] = s[n]
      /\ \A n \in 1..Len(t) : (s \o t)[Len(s) + n] = t[n]
  BY <1>1, CatOf, SMTT(30)
<1>3. ASSUME NEW n \in DOMAIN (s \o t)
      PROVE  PlainStep((s \o t)[n]) \/ (n = 11 /\ (s \o t)[n] = Step("p_hdr", 1))
  <2>1. CASE n \in 1..Len(s)
    BY <1>1, <1>2, <2>1 DEF Beginning
  <2>2. CASE n \notin 1..Len(s)
    <3>1. n - Len(s) \in 1..Len(t) /\ n = Len(s) + (n - Len(s))
      BY <1>2, <2>2, SMTT(30)
    <3>2. (s \o t)[n] = t[n - Len(s)]
      BY <1>2, <3>1
    <3> QED
      BY <1>1, <3>1, <3>2 DEF Plain
  <2> QED
    BY <2>1, <2>2
<1> QED
  BY <1>2, <1>3 DEF Beginning

LEMMA HasCat ==
  ASSUME NEW s, NEW t, IsSeq(s), IsSeq(t), NEW e, Has(s, e) \/ Has(t, e)
  PROVE  Has(s \o t, e)
<1>1. DOMAIN s = 1..Len(s) /\ DOMAIN t = 1..Len(t)
  BY DEF IsSeq
<1>2. /\ Len(s) \in Nat /\ Len(t) \in Nat
      /\ DOMAIN (s \o t) = 1..(Len(s) + Len(t))
      /\ \A n \in 1..Len(s) : (s \o t)[n] = s[n]
      /\ \A n \in 1..Len(t) : (s \o t)[Len(s) + n] = t[n]
  BY CatOf, SMTT(30)
<1>3. CASE Has(s, e)
  <2>1. PICK n \in 1..Len(s) : s[n] = e
    BY <1>1, <1>3 DEF Has
  <2>2. n \in 1..(Len(s) + Len(t)) /\ (s \o t)[n] = e
    BY <1>2, <2>1, SMTT(30)
  <2> QED
    BY <1>2, <2>2 DEF Has
<1>4. CASE Has(t, e)
  <2>1. PICK n \in 1..Len(t) : t[n] = e
    BY <1>1, <1>4 DEF Has
  <2>2. Len(s) + n \in 1..(Len(s) + Len(t)) /\ (s \o t)[Len(s) + n] = e
    BY <1>2, <2>1, SMTT(30)
  <2> QED
    BY <1>2, <2>2 DEF Has
<1> QED
  BY <1>3, <1>4

(* Short sequences of plain steps. *)
LEMMA Plain1 ==
  ASSUME NEW a, PlainStep(a)
  PROVE  Plain(<<a>>) /\ Len(<<a>>) = 1 /\ Has(<<a>>, a)
  BY SMTT(30) DEF Plain, IsSeq, Has

LEMMA Plain2 ==
  ASSUME NEW a, NEW b, PlainStep(a), PlainStep(b)
  PROVE  Plain(<<a, b>>) /\ Len(<<a, b>>) = 2 /\ Has(<<a, b>>, a) /\ Has(<<a, b>>, b)
  BY SMTT(30) DEF Plain, IsSeq, Has

LEMMA Plain3 ==
  ASSUME NEW a, NEW b, NEW c, PlainStep(a), PlainStep(b), PlainStep(c)
  PROVE  /\ Plain(<<a, b, c>>) /\ Len(<<a, b, c>>) = 3
         /\ Has(<<a, b, c>>, a) /\ Has(<<a, b, c>>, b) /\ Has(<<a, b, c>>, c)
  BY SMTT(30) DEF Plain, IsSeq, Has

LEMMA Plain4 ==
  ASSUME NEW a, NEW b, NEW c, NEW d, PlainStep(a), PlainStep(b), PlainStep(c), PlainStep(d)
  PROVE  Plain(<<a, b, c, d>>) /\ Len(<<a, b, c, d>>) = 4
  BY SMTT(30) DEF Plain, IsSeq

LEMMA PlainSteps ==
  /\ \A x \in EfiNames : PlainStep(Efi(x))
  /\ \A x \in PoolNames : PlainStep(AllocatePool(x))
  /\ PlainStep(Step("verify_elf", 0)) /\ PlainStep(Step("verify_psf", 0))
  BY DEF PlainStep, Efi, AllocatePool, Step

(* The same facts for a concatenation with a name. *)
Joins(u, s, t) == u = s \o t

JoinedOf(u, s, t) ==
  /\ IsSeq(u) /\ Len(u) = Len(s) + Len(t) /\ Len(s) \in Nat /\ Len(t) \in Nat
  /\ \A n \in 1..Len(s) : u[n] = s[n]
  /\ \A n \in 1..Len(t) : u[Len(s) + n] = t[n]

LEMMA JoinOf ==
  ASSUME NEW s, NEW t, NEW u, IsSeq(s), IsSeq(t), Joins(u, s, t)
  PROVE  JoinedOf(u, s, t)
  BY CatOf, SMTT(30) DEF Joins, JoinedOf

LEMMA PlainJoin ==
  ASSUME NEW s, NEW t, NEW u, Plain(s), Plain(t), Joins(u, s, t)
  PROVE  Plain(u) /\ Len(u) = Len(s) + Len(t)
  BY PlainCat DEF Joins

LEMMA BeginningJoin ==
  ASSUME NEW s, NEW t, NEW u, Beginning(s), Plain(t), Len(s) >= 11, Joins(u, s, t)
  PROVE  Beginning(u) /\ Len(u) = Len(s) + Len(t)
  BY BeginningCat DEF Joins

LEMMA HasJoin ==
  ASSUME NEW s, NEW t, NEW u, IsSeq(s), IsSeq(t), Joins(u, s, t), NEW e, Has(s, e) \/ Has(t, e)
  PROVE  Has(u, e)
  BY HasCat DEF Joins

LEMMA PlainIsSeq == ASSUME NEW s, Plain(s) PROVE IsSeq(s)
  BY DEF Plain

LEMMA One == ASSUME NEW e PROVE IsSeq(<<e>>) /\ Len(<<e>>) = 1 /\ <<e>>[1] = e
  BY SMTT(30) DEF IsSeq

LEMMA LoadKernelSteps ==
  /\ IsSeq(load_kernel_into_memory) /\ Len(load_kernel_into_memory) = 7
  /\ \A n \in 1..6 : PlainStep(load_kernel_into_memory[n])
  /\ load_kernel_into_memory[7] = Step("p_hdr", 1)
  /\ Has(load_kernel_into_memory, Efi("e_hdr"))
<1>1. PICK v : v = <<Step("verify_elf", 0)>>
  OBVIOUS
<1>2. PICK d : d = <<Step("p_hdr", 1)>>
  OBVIOUS
<1>3. PICK b : Joins(b, get_elf_header, v)
  BY DEF Joins
<1>4. PICK c : Joins(c, b, get_elf_p_hdrs)
  BY DEF Joins
<1>5. Joins(load_kernel_into_memory, c, d)
  BY <1>1, <1>2, <1>3, <1>4 DEF Joins, load_kernel_into_memory
<1>6. Plain(get_elf_header) /\ Len(get_elf_header) = 2 /\ Has(get_elf_header, Efi("e_hdr"))
  BY Plain2, PlainSteps DEF get_elf_header, EfiNames
<1>7. Plain(v) /\ Len(v) = 1
  BY <1>1, Plain1, PlainSteps
<1>8. Plain(get_elf_p_hdrs) /\ Len(get_elf_p_hdrs) = 3
  BY Plain3, PlainSteps DEF get_elf_p_hdrs, EfiNames, PoolNames
<1>9. IsSeq(d) /\ Len(d) = 1 /\ d[1] = Step("p_hdr", 1)
  BY <1>2, One
<1>10. Plain(b) /\ Len(b) = Len(get_elf_header) + Len(v)
  BY <1>3, <1>6, <1>7, PlainJoin
<1>11. Plain(c) /\ Len(c) = Len(b) + Len(get_elf_p_hdrs)
  BY <1>4, <1>8, <1>10, PlainJoin
<1>12. Has(b, Efi("e_hdr"))
  BY <1>3, <1>6, <1>7, PlainIsSeq, HasJoin
<1>13. Has(c, Efi("e_hdr"))
  BY <1>4, <1>8, <1>10, <1>12, PlainIsSeq, HasJoin
<1>14. Has(load_kernel_into_memory, Efi("e_hdr"))
  BY <1>5, <1>9, <1>11, <1>13, PlainIsSeq, HasJoin
<1>15. Len(c) = 6
  BY <1>6, <1>7, <1>8, <1>10, <1>11, SMTT(30)
<1>16. IsSeq(c) /\ \A n \in 1..6 : PlainStep(c[n])
  BY <1>11, <1>15 DEF Plain, IsSeq
<1>17. JoinedOf(load_kernel_into_memory, c, d)
  BY <1>5, <1>9, <1>16, JoinOf
<1>18. /\ IsSeq(load_kernel_into_memory) /\ Len(load_kernel_into_memory) = 7
       /\ \A n \in 1..6 : load_kernel_into_memory[n] = c[n]
       /\ load_kernel_into_memory[6 + 1] = d[1]
  BY <1>9, <1>15, <1>17, SMTT(30) DEF JoinedOf
<1> QED
  BY <1>9, <1>14, <1>16, <1>18, SMTT(30)

LEMMA LoadFontSteps ==
  /\ Plain(load_psf_font) /\ Len(load_psf_font) = 11
  /\ Has(load_psf_font, Efi("psf_header")) /\ Has(load_psf_font, Efi("glyphs"))
  /\ Has(load_psf_font, AllocatePool("font"))
<1>1. PICK v : v = <<Step("verify_psf", 0)>>
  OBVIOUS
<1>2. PICK d : d = <<AllocatePool("font")>>
  OBVIOUS
<1>3. PICK f : f = load_file("font")
  OBVIOUS
<1>4. PICK a : Joins(a, f, get_psf_header)
  BY DEF Joins
<1>5. PICK b : Joins(b, a, v)
  BY DEF Joins
<1>6. PICK c : Joins(c, b, get_psf_glyphs)
  BY DEF Joins
<1>7. Joins(load_psf_font, c, d)
  BY <1>1, <1>2, <1>3, <1>4, <1>5, <1>6 DEF Joins, load_psf_font
<1>8. Plain(f) /\ Len(f) = 4
  BY <1>3, Plain4, PlainSteps DEF load_file, EfiNames
<1>9. Plain(get_psf_header) /\ Len(get_psf_header) = 2 /\ Has(get_psf_header, Efi("psf_header"))
  BY Plain2, PlainSteps DEF get_psf_header, EfiNames, PoolNames
<1>10. Plain(v) /\ Len(v) = 1
  BY <1>1, Plain1, PlainSteps
<1>11. Plain(get_psf_glyphs) /\ Len(get_psf_glyphs) = 3 /\ Has(get_psf_glyphs, Efi("glyphs"))
  BY Plain3, PlainSteps DEF get_psf_glyphs, EfiNames, PoolNames
<1>12. Plain(d) /\ Len(d) = 1 /\ Has(d, AllocatePool("font"))
  BY <1>2, Plain1, PlainSteps DEF PoolNames
<1>13. Plain(a) /\ Len(a) = Len(f) + Len(get_psf_header)
  BY <1>4, <1>8, <1>9, PlainJoin
<1>14. Plain(b) /\ Len(b) = Len(a) + Len(v)
  BY <1>5, <1>10, <1>13, PlainJoin
<1>15. Plain(c) /\ Len(c) = Len(b) + Len(get_psf_glyphs)
  BY <1>6, <1>11, <1>14, PlainJoin
<1>16. Plain(load_psf_font) /\ Len(load_psf_font) = Len(c) + Len(d)
  BY <1>7, <1>12, <1>15, PlainJoin
<1>17. Has(a, Efi("psf_header"))
  BY <1>4, <1>8, <1>9, PlainIsSeq, HasJoin
<1>18. Has(b, Efi("psf_header"))
  BY <1>5, <1>10, <1>13, <1>17, PlainIsSeq, HasJoin
<1>19. Has(c, Efi("psf_header")) /\ Has(c, Efi("glyphs"))
  BY <1>6, <1>11, <1>14, <1>18, PlainIsSeq, HasJoin
<1>20. /\ Has(load_psf_font, Efi("psf_header")) /\ Has(load_psf_font, Efi("glyphs"))
       /\ Has(load_psf_font, AllocatePool("font"))
  BY <1>7, <1>12, <1>15, <1>19, PlainIsSeq, HasJoin
<1>21. Len(load_psf_font) = 11
  BY <1>8, <1>9, <1>10, <1>11, <1>12, <1>13, <1>14, <1>15, <1>16, SMTT(30)
<1> QED
  BY <1>16, <1>20, <1>21

(* start_kernel, step by step. *)
LEMMA StartKernelSteps ==
  /\ IsSeq(start_kernel) /\ Len(start_kernel) = 8
  /\ start_kernel[1] = AllocatePool("stack") /\ start_kernel[2] = Step("memory_data", 0)
  /\ start_kernel[3] = Step("size_map", 0) /\ start_kernel[4] = AllocatePool("map")
  /\ start_kernel[5] = Step("get_map", 0) /\ start_kernel[6] = Step("fill_memory_data", 0)
  /\ start_kernel[7] = Step("exit", 0) /\ start_kernel[8] = Step("jump", 0)
<1>1. PICK m : m = <<Step("memory_data", 0)>>
  OBVIOUS
<1>2. PICK f : f = <<Step("fill_memory_data", 0)>>
  OBVIOUS
<1>3. PICK s : s = <<AllocatePool("stack")>>
  OBVIOUS
<1>4. PICK d : d = <<Step("exit", 0), Step("jump", 0)>>
  OBVIOUS
<1>5. PICK a : Joins(a, m, get_memory_map)
  BY DEF Joins
<1>6. PICK b : Joins(b, a, f)
  BY DEF Joins
<1>7. PICK c : Joins(c, s, b)
  BY DEF Joins
<1>8. Joins(start_kernel, c, d)
  BY <1>1, <1>2, <1>3, <1>4, <1>5, <1>6, <1>7 DEF Joins, start_kernel, get_memory_data
<1>9. /\ IsSeq(get_memory_map) /\ Len(get_memory_map) = 3
      /\ get_memory_map[1] = Step("size_map", 0) /\ get_memory_map[2] = AllocatePool("map")
      /\ get_memory_map[3] = Step("get_map", 0)
  BY SMTT(30) DEF get_memory_map, IsSeq
<1>10. IsSeq(d) /\ Len(d) = 2 /\ d[1] = Step("exit", 0) /\ d[2] = Step("jump", 0)
  BY <1>4, SMTT(30) DEF IsSeq
<1>11. /\ IsSeq(m) /\ Len(m) = 1 /\ m[1] = Step("memory_data", 0)
       /\ IsSeq(f) /\ Len(f) = 1 /\ f[1] = Step("fill_memory_data", 0)
       /\ IsSeq(s) /\ Len(s) = 1 /\ s[1] = AllocatePool("stack")
  BY <1>1, <1>2, <1>3, One
<1>12. JoinedOf(a, m, get_memory_map)
  BY <1>5, <1>9, <1>11, JoinOf
<1>13. IsSeq(a) /\ Len(a) = 4 /\ a[1] = m[1] /\ \A n \in 1..3 : a[1 + n] = get_memory_map[n]
  BY <1>9, <1>11, <1>12, SMTT(30) DEF JoinedOf
<1>14. JoinedOf(b, a, f)
  BY <1>6, <1>11, <1>13, JoinOf
<1>15. IsSeq(b) /\ Len(b) = 5 /\ b[4 + 1] = f[1] /\ \A n \in 1..4 : b[n] = a[n]
  BY <1>11, <1>13, <1>14, SMTT(30) DEF JoinedOf
<1>16. JoinedOf(c, s, b)
  BY <1>7, <1>11, <1>15, JoinOf
<1>17. IsSeq(c) /\ Len(c) = 6 /\ c[1] = s[1] /\ \A n \in 1..5 : c[1 + n] = b[n]
  BY <1>11, <1>15, <1>16, SMTT(30) DEF JoinedOf
<1>18. JoinedOf(start_kernel, c, d)
  BY <1>8, <1>10, <1>17, JoinOf
<1>19. /\ IsSeq(start_kernel) /\ Len(start_kernel) = 8 /\ start_kernel[6 + 1] = d[1] /\ start_kernel[6 + 2] = d[2]
       /\ \A n \in 1..6 : start_kernel[n] = c[n]
  BY <1>10, <1>17, <1>18, SMTT(30) DEF JoinedOf
<1>20. start_kernel[1] = c[1] /\ start_kernel[2] = c[1 + 1] /\ start_kernel[3] = c[1 + 2]
  BY <1>19, SMTT(30)
<1>21. start_kernel[4] = c[1 + 3] /\ start_kernel[5] = c[1 + 4] /\ start_kernel[6] = c[1 + 5]
  BY <1>19, SMTT(30)
<1>22. c[1 + 1] = b[1] /\ c[1 + 2] = b[2] /\ c[1 + 3] = b[3] /\ c[1 + 4] = b[4] /\ c[1 + 5] = b[5]
  BY <1>17, SMTT(30)
<1>23. b[1] = a[1] /\ b[2] = a[1 + 1] /\ b[3] = a[1 + 2] /\ b[4] = a[1 + 3] /\ b[5] = f[1]
  BY <1>15, SMTT(30)
<1>24. a[1 + 1] = get_memory_map[1] /\ a[1 + 2] = get_memory_map[2] /\ a[1 + 3] = get_memory_map[3]
  BY <1>13, SMTT(30)
<1> QED
  BY <1>9, <1>10, <1>11, <1>13, <1>17, <1>19, <1>20, <1>21, <1>22, <1>23, <1>24, SMTT(30)

(* The steps of start_kernel are the last of efi_main. *)
LEMMA MainSteps ==
  /\ IsSeq(efi_main) /\ Len(efi_main) = 35 /\ DOMAIN efi_main = 1..35
  /\ \A n \in 1..26 : PlainStep(efi_main[n]) \/ (n = 11 /\ efi_main[n] = Step("p_hdr", 1))
  /\ efi_main[11] = Step("p_hdr", 1)
  /\ efi_main[27] = Step("start", 0)
  /\ \A n \in 1..8 : efi_main[27 + n] = start_kernel[n]
  /\ \A x \in {"e_hdr", "psf_header", "glyphs", "gop", "rsdp"} : Has(efi_main, Efi(x))
  /\ \A x \in {"font", "framebuffer", "double_buffer", "stack", "map"} :
       Has(efi_main, AllocatePool(x))
<1>1. PICK f : f = load_file("kernel")
  OBVIOUS
<1>2. PICK s : s = <<Step("start", 0)>>
  OBVIOUS
<1>3. PICK a : Joins(a, f, load_kernel_into_memory)
  BY DEF Joins
<1>4. PICK b : Joins(b, a, load_psf_font)
  BY DEF Joins
<1>5. PICK c : Joins(c, b, get_framebuffer)
  BY DEF Joins
<1>6. PICK d : Joins(d, c, allocate_double_framebuffer)
  BY DEF Joins
<1>7. PICK e : Joins(e, d, get_rsdp)
  BY DEF Joins
<1>8. PICK g : Joins(g, e, s)
  BY DEF Joins
<1>9. Joins(efi_main, g, start_kernel)
  BY <1>1, <1>2, <1>3, <1>4, <1>5, <1>6, <1>7, <1>8 DEF Joins, efi_main
<1>10. Plain(f) /\ Len(f) = 4
  BY <1>1, Plain4, PlainSteps DEF load_file, EfiNames
<1>11. /\ Plain(get_framebuffer) /\ Len(get_framebuffer) = 2
       /\ Has(get_framebuffer, Efi("gop")) /\ Has(get_framebuffer, AllocatePool("framebuffer"))
  BY Plain2, PlainSteps DEF get_framebuffer, EfiNames, PoolNames
<1>12. /\ Plain(allocate_double_framebuffer) /\ Len(allocate_double_framebuffer) = 1
       /\ Has(allocate_double_framebuffer, AllocatePool("double_buffer"))
  BY Plain1, PlainSteps DEF allocate_double_framebuffer, PoolNames
<1>13. Plain(get_rsdp) /\ Len(get_rsdp) = 1 /\ Has(get_rsdp, Efi("rsdp"))
  BY Plain1, PlainSteps DEF get_rsdp, EfiNames
<1>14. IsSeq(s) /\ Len(s) = 1 /\ s[1] = Step("start", 0)
  BY <1>2, One
<1>15. JoinedOf(a, f, load_kernel_into_memory)
  BY <1>3, <1>10, LoadKernelSteps, JoinOf, PlainIsSeq
<1>16. Beginning(a) /\ Len(a) = 11 /\ a[11] = Step("p_hdr", 1)
  <2>1. IsSeq(a) /\ Len(a) = 11 /\ DOMAIN a = 1..11 /\ DOMAIN f = 1..4
    BY <1>10, <1>15, LoadKernelSteps, SMTT(30) DEF JoinedOf, Plain, IsSeq
  <2>2. \A n \in 1..4 : PlainStep(a[n])
    BY <1>10, <1>15, <2>1 DEF JoinedOf, Plain
  <2>3. \A n \in 1..7 : a[4 + n] = load_kernel_into_memory[n]
    BY <1>10, <1>15, LoadKernelSteps DEF JoinedOf
  <2>4. \A n \in 1..6 : PlainStep(a[4 + n])
    BY <2>3, LoadKernelSteps, SMTT(30)
  <2>5. a[4 + 7] = Step("p_hdr", 1)
    BY <2>3, LoadKernelSteps, SMTT(30)
  <2>6. a[11] = Step("p_hdr", 1)
    BY <2>5, SMTT(30)
  <2>7. ASSUME NEW n \in 1..11, n # 11 PROVE PlainStep(a[n])
    <3>1. n \in 1..4 \/ (n - 4 \in 1..6 /\ n = 4 + (n - 4))
      BY <2>7, SMTT(30)
    <3> QED
      BY <2>2, <2>4, <3>1
  <2> QED
    BY <2>1, <2>6, <2>7 DEF Beginning
<1>17. Beginning(b) /\ Len(b) = Len(a) + Len(load_psf_font)
  <2>1. Len(a) >= 11
    BY <1>16, SMTT(30)
  <2>2. Beginning(a) /\ Plain(load_psf_font)
    BY <1>16, LoadFontSteps
  <2> QED
    BY <1>4, <2>1, <2>2, BeginningJoin
<1>18. Len(b) = 22
  BY <1>16, <1>17, LoadFontSteps, SMTT(30)
<1>19. Beginning(c) /\ Len(c) = Len(b) + Len(get_framebuffer)
  <2>1. Len(b) >= 11
    BY <1>18, SMTT(30)
  <2>2. Beginning(b) /\ Plain(get_framebuffer)
    BY <1>11, <1>17
  <2> QED
    BY <1>5, <2>1, <2>2, BeginningJoin
<1>20. Len(c) = 24
  BY <1>11, <1>18, <1>19, SMTT(30)
<1>21. Beginning(d) /\ Len(d) = Len(c) + Len(allocate_double_framebuffer)
  <2>1. Len(c) >= 11
    BY <1>20, SMTT(30)
  <2>2. Beginning(c) /\ Plain(allocate_double_framebuffer)
    BY <1>12, <1>19
  <2> QED
    BY <1>6, <2>1, <2>2, BeginningJoin
<1>22. Len(d) = 25
  BY <1>12, <1>20, <1>21, SMTT(30)
<1>23. Beginning(e) /\ Len(e) = Len(d) + Len(get_rsdp)
  <2>1. Len(d) >= 11
    BY <1>22, SMTT(30)
  <2>2. Beginning(d) /\ Plain(get_rsdp)
    BY <1>13, <1>21
  <2> QED
    BY <1>7, <2>1, <2>2, BeginningJoin
<1>24. Len(e) = 26 /\ IsSeq(e) /\ DOMAIN e = 1..26
  BY <1>13, <1>22, <1>23, SMTT(30) DEF Beginning, IsSeq
<1>25. JoinedOf(g, e, s)
  BY <1>8, <1>14, <1>24, JoinOf
<1>26. /\ IsSeq(g) /\ Len(g) = 27 /\ g[26 + 1] = Step("start", 0)
       /\ \A n \in 1..26 : g[n] = e[n]
  BY <1>14, <1>24, <1>25, SMTT(30) DEF JoinedOf
<1>27. JoinedOf(efi_main, g, start_kernel)
  BY <1>9, <1>26, StartKernelSteps, JoinOf
<1>28. /\ IsSeq(efi_main) /\ Len(efi_main) = 35 /\ \A n \in 1..27 : efi_main[n] = g[n]
       /\ \A n \in 1..8 : efi_main[27 + n] = start_kernel[n]
  BY <1>26, <1>27, StartKernelSteps, SMTT(30) DEF JoinedOf
<1>29. DOMAIN efi_main = 1..35
  BY <1>28 DEF IsSeq
<1>30. \A n \in 1..26 : efi_main[n] = e[n]
  BY <1>26, <1>28, SMTT(30)
<1>31. \A n \in 1..26 : PlainStep(efi_main[n]) \/ (n = 11 /\ efi_main[n] = Step("p_hdr", 1))
  BY <1>23, <1>24, <1>30 DEF Beginning
<1>32. efi_main[27] = Step("start", 0)
  BY <1>26, <1>28, SMTT(30)
<1>33. /\ JoinedOf(b, a, load_psf_font) /\ JoinedOf(c, b, get_framebuffer)
       /\ JoinedOf(d, c, allocate_double_framebuffer) /\ JoinedOf(e, d, get_rsdp)
  BY <1>4, <1>5, <1>6, <1>7, <1>11, <1>12, <1>13, <1>16, <1>17, <1>19, <1>21, LoadFontSteps,
     JoinOf DEF Beginning, Plain
<1>34. efi_main[11] = a[11]
  <2>1. b[11] = a[11]
    BY <1>16, <1>33, SMTT(30) DEF JoinedOf
  <2>2. c[11] = b[11]
    BY <1>18, <1>33, SMTT(30) DEF JoinedOf
  <2>3. d[11] = c[11]
    BY <1>20, <1>33, SMTT(30) DEF JoinedOf
  <2>4. e[11] = d[11]
    BY <1>22, <1>33, SMTT(30) DEF JoinedOf
  <2>5. efi_main[11] = e[11]
    BY <1>30, SMTT(30)
  <2> QED
    BY <2>1, <2>2, <2>3, <2>4, <2>5
<1>35. efi_main[11] = Step("p_hdr", 1)
  BY <1>16, <1>34
<1>36. /\ IsSeq(f) /\ IsSeq(a) /\ IsSeq(b) /\ IsSeq(c) /\ IsSeq(d) /\ IsSeq(e) /\ IsSeq(g)
       /\ IsSeq(load_psf_font) /\ IsSeq(get_framebuffer) /\ IsSeq(allocate_double_framebuffer)
       /\ IsSeq(get_rsdp) /\ IsSeq(s) /\ IsSeq(start_kernel) /\ IsSeq(load_kernel_into_memory)
  BY <1>10, <1>11, <1>12, <1>13, <1>14, <1>16, <1>17, <1>19, <1>21, <1>23, <1>26, LoadFontSteps,
     StartKernelSteps, LoadKernelSteps DEF Beginning, Plain
<1>37. ASSUME NEW x, Has(g, x) PROVE Has(efi_main, x)
  BY <1>9, <1>36, <1>37, HasJoin, SMTT(30)
<1>38. ASSUME NEW x, Has(e, x) PROVE Has(efi_main, x)
  BY <1>8, <1>36, <1>37, <1>38, HasJoin
<1>39. ASSUME NEW x, Has(d, x) PROVE Has(efi_main, x)
  BY <1>7, <1>36, <1>38, <1>39, HasJoin
<1>40. ASSUME NEW x, Has(c, x) PROVE Has(efi_main, x)
  BY <1>6, <1>36, <1>39, <1>40, HasJoin
<1>41. ASSUME NEW x, Has(b, x) PROVE Has(efi_main, x)
  BY <1>5, <1>36, <1>40, <1>41, HasJoin
<1>42. Has(efi_main, Efi("e_hdr"))
  <2>1. Has(a, Efi("e_hdr"))
    BY <1>3, <1>36, LoadKernelSteps, HasJoin, SMTT(30)
  <2>2. Has(b, Efi("e_hdr"))
    BY <1>4, <1>36, <2>1, HasJoin
  <2> QED
    BY <1>41, <2>2
<1>43. /\ Has(efi_main, Efi("psf_header")) /\ Has(efi_main, Efi("glyphs"))
       /\ Has(efi_main, AllocatePool("font"))
  <2>1. Has(b, Efi("psf_header")) /\ Has(b, Efi("glyphs")) /\ Has(b, AllocatePool("font"))
    BY <1>4, <1>36, LoadFontSteps, HasJoin, SMTT(30)
  <2> QED
    BY <1>41, <2>1
<1>44. Has(efi_main, Efi("gop")) /\ Has(efi_main, AllocatePool("framebuffer"))
  <2>1. Has(c, Efi("gop")) /\ Has(c, AllocatePool("framebuffer"))
    BY <1>5, <1>11, <1>36, HasJoin, SMTT(30)
  <2> QED
    BY <1>40, <2>1
<1>45. Has(efi_main, AllocatePool("double_buffer"))
  <2>1. Has(d, AllocatePool("double_buffer"))
    BY <1>6, <1>12, <1>36, HasJoin, SMTT(30)
  <2> QED
    BY <1>39, <2>1
<1>46. Has(efi_main, Efi("rsdp"))
  <2>1. Has(e, Efi("rsdp"))
    BY <1>7, <1>13, <1>36, HasJoin, SMTT(30)
  <2> QED
    BY <1>38, <2>1
<1>47. Has(efi_main, AllocatePool("stack")) /\ Has(efi_main, AllocatePool("map"))
  <2>1. Has(start_kernel, AllocatePool("stack")) /\ Has(start_kernel, AllocatePool("map"))
    <3>1. 1 \in DOMAIN start_kernel /\ 4 \in DOMAIN start_kernel
      BY StartKernelSteps, SMTT(30) DEF IsSeq
    <3> QED
      BY <3>1, StartKernelSteps DEF Has
  <2> QED
    BY <1>9, <1>36, <2>1, HasJoin, SMTT(30)
<1> QED
  BY <1>28, <1>29, <1>31, <1>32, <1>35, <1>42, <1>43, <1>44, <1>45, <1>46, <1>47

-----------------------------------------------------------------------------
(* Arithmetic of pages.                                                    *)

LEMMA DivMod ==
  ASSUME NEW n \in Nat \ {0}, NEW a \in Nat
  PROVE  a \div n \in Nat /\ a % n \in 0..(n - 1) /\ a = n * (a \div n) + (a % n)
  BY Z3

LEMMA Times ==
  ASSUME NEW n \in Nat, NEW x \in Nat, NEW y \in Nat, x <= y
  PROVE  n * x <= n * y /\ n * x \in Nat /\ n * (x + 1) = n * x + n
  BY Z3

(* Rounding up adds at most one page to rounding down. *)
LEMMA CeilBounds ==
  ASSUME NEW n \in Nat \ {0}, NEW a \in Nat, NEW b \in Nat, a <= b
  PROVE  /\ (a + n - 1) \div n \in Nat /\ a \div n \in Nat /\ (b + n - 1) \div n \in Nat
         /\ (a + n - 1) \div n <= a \div n + 1
         /\ a \div n <= (b + n - 1) \div n
<1>1. a + n - 1 \in Nat /\ b + n - 1 \in Nat
  BY SMTT(30)
<1>2. PICK q \in Nat, r \in 0..(n - 1) : q = a \div n /\ a = n * q + r
  BY DivMod
<1>3. PICK u \in Nat, v \in 0..(n - 1) : u = (a + n - 1) \div n /\ a + n - 1 = n * u + v
  BY <1>1, DivMod
<1>4. PICK w \in Nat, z \in 0..(n - 1) : w = (b + n - 1) \div n /\ b + n - 1 = n * w + z
  BY <1>1, DivMod
<1>5. u <= q + 1
  <2>1. SUFFICES ASSUME q + 1 + 1 <= u PROVE FALSE
    BY SMTT(30)
  <2>2. n * (q + 1 + 1) <= n * u
    BY <2>1, Times, SMTT(30)
  <2>3. n * (q + 1 + 1) = n * (q + 1) + n /\ n * (q + 1) = n * q + n
    BY Times, SMTT(30)
  <2>4. PICK nq \in Nat : nq = n * q
    BY Times, SMTT(30)
  <2>5. PICK nu \in Nat : nu = n * u
    BY Times, SMTT(30)
  <2>6. nq + n + n <= nu
    BY <2>2, <2>3, <2>4, <2>5
  <2>7. a = nq + r /\ a + n - 1 = nu + v
    BY <1>2, <1>3, <2>4, <2>5
  <2> QED
    BY <2>6, <2>7, SMTT(30)
<1>6. q <= w
  <2>1. SUFFICES ASSUME w + 1 <= q PROVE FALSE
    BY SMTT(30)
  <2>2. n * (w + 1) <= n * q
    BY <2>1, Times, SMTT(30)
  <2>3. n * (w + 1) = n * w + n
    BY Times, SMTT(30)
  <2>4. PICK nq \in Nat : nq = n * q
    BY Times, SMTT(30)
  <2>5. PICK nw \in Nat : nw = n * w
    BY Times, SMTT(30)
  <2>6. nw + n <= nq
    BY <2>2, <2>3, <2>4, <2>5
  <2>7. a = nq + r /\ b + n - 1 = nw + z
    BY <1>2, <1>4, <2>4, <2>5
  <2> QED
    BY <2>6, <2>7, SMTT(30)
<1> QED
  BY <1>2, <1>3, <1>4, <1>5, <1>6

(* What is known of the kernel file. *)
LEMMA KernelFacts ==
  ASSUME kernel \in Kernels
  PROVE  /\ Len(kernel.p_hdrs) \in Nat /\ DOMAIN kernel.p_hdrs = 1..Len(kernel.p_hdrs)
         /\ Segments(kernel) \subseteq DOMAIN kernel.p_hdrs
         /\ \A i \in Segments(kernel) :
              /\ kernel.p_hdrs[i].page \in Nat /\ kernel.p_hdrs[i].filesz \in Nat
              /\ kernel.p_hdrs[i].memsz \in Nat
<1>1. KernelFile(kernel)
  BY BootAssumption
<1>2. kernel.p_hdrs \in Seq([load : BOOLEAN, page : Nat, filesz : Nat, memsz : Nat])
  BY <1>1 DEF KernelFile
<1>3. Len(kernel.p_hdrs) \in Nat /\ DOMAIN kernel.p_hdrs = 1..Len(kernel.p_hdrs)
  BY <1>2, SMTT(30)
<1>4. Segments(kernel) \subseteq DOMAIN kernel.p_hdrs
  BY DEF Segments
<1>5. \A i \in DOMAIN kernel.p_hdrs :
        kernel.p_hdrs[i] \in [load : BOOLEAN, page : Nat, filesz : Nat, memsz : Nat]
  BY <1>2, Elements
<1> QED
  BY <1>3, <1>4, <1>5

(* The frames allocated for a segment, from its sizes. *)
LEMMA RunBounds ==
  ASSUME kernel \in Kernels, NEW i \in Segments(kernel)
  PROVE  \E page, n, c, m \in Nat :
           /\ page = kernel.p_hdrs[i].page
           /\ n = num_of_pages(kernel.p_hdrs[i])
           /\ c = CeilPages(kernel.p_hdrs[i].filesz) /\ m = CeilPages(kernel.p_hdrs[i].memsz)
           /\ c <= n /\ n <= m + 1 /\ n >= 1
           /\ RunOf(i) = page..(page + n - 1)
<1>1. PICK page \in Nat, f \in Nat, m \in Nat :
        page = kernel.p_hdrs[i].page /\ f = kernel.p_hdrs[i].filesz /\ m = kernel.p_hdrs[i].memsz
  BY KernelFacts
<1>2. KernelFile(kernel) /\ PAGE_SZ \in Nat \ {0} /\ U16 \in Nat \ {0}
  BY BootAssumption
<1>3. f <= m /\ f \div PAGE_SZ + 1 < U16
  BY <1>1, <1>2 DEF KernelFile
<1>4. /\ (f + PAGE_SZ - 1) \div PAGE_SZ \in Nat /\ f \div PAGE_SZ \in Nat
      /\ (m + PAGE_SZ - 1) \div PAGE_SZ \in Nat
      /\ (f + PAGE_SZ - 1) \div PAGE_SZ <= f \div PAGE_SZ + 1
      /\ f \div PAGE_SZ <= (m + PAGE_SZ - 1) \div PAGE_SZ
  BY <1>2, <1>3, CeilBounds
<1>5. PICK q \in Nat : q = f \div PAGE_SZ
  BY <1>4
<1>6. (q + 1) % U16 = q + 1
  BY <1>2, <1>3, <1>5, SMTT(30)
<1>7. num_of_pages(kernel.p_hdrs[i]) = q + 1
  BY <1>1, <1>5, <1>6 DEF num_of_pages
<1>8. PICK c \in Nat : c = CeilPages(f)
  BY <1>4 DEF CeilPages
<1>9. PICK d \in Nat : d = CeilPages(m)
  BY <1>4 DEF CeilPages
<1>10. c <= q + 1 /\ q <= d
  BY <1>4, <1>5, <1>8, <1>9 DEF CeilPages
<1>11. q + 1 \in Nat /\ q + 1 <= d + 1 /\ q + 1 >= 1
  BY <1>10, SMTT(30)
<1>12. RunOf(i) = page..(page + (q + 1) - 1)
  BY <1>1, <1>7 DEF RunOf, FrameRun
<1> QED
  BY <1>1, <1>7, <1>8, <1>9, <1>10, <1>11, <1>12

LEMMA RunCovers ==
  ASSUME kernel \in Kernels, NEW i \in Segments(kernel)
  PROVE  /\ RunOf(i) \in SUBSET Nat
         /\ FrameRun(kernel.p_hdrs[i].page, CeilPages(kernel.p_hdrs[i].filesz)) \subseteq RunOf(i)
<1>1. PICK page, n, c, m \in Nat :
           /\ page = kernel.p_hdrs[i].page
           /\ n = num_of_pages(kernel.p_hdrs[i])
           /\ c = CeilPages(kernel.p_hdrs[i].filesz) /\ m = CeilPages(kernel.p_hdrs[i].memsz)
           /\ c <= n /\ n <= m + 1 /\ n >= 1
           /\ RunOf(i) = page..(page + n - 1)
  BY RunBounds
<1>2. FrameRun(kernel.p_hdrs[i].page, CeilPages(kernel.p_hdrs[i].filesz)) = page..(page + c - 1)
  BY <1>1 DEF FrameRun
<1>3. c <= n
  BY <1>1
<1>4. page..(page + c - 1) \subseteq page..(page + n - 1) /\ page..(page + n - 1) \subseteq Nat
  BY <1>3, SMTT(30)
<1>5. RunOf(i) = page..(page + n - 1)
  BY <1>1
<1> QED
  BY <1>2, <1>4, <1>5

(* Two runs meet only in the page that is added to the lower segment. *)
LEMMA RunsMeet ==
  ASSUME kernel \in Kernels, NEW i \in Segments(kernel), NEW j \in Segments(kernel), i # j,
         RunOf(i) \cap RunOf(j) # {}
  PROVE  Adjacent
<1> DEFINE Low(a, b) ==
      kernel.p_hdrs[a].page + CeilPages(kernel.p_hdrs[a].memsz) <= kernel.p_hdrs[b].page
<1>1. ASSUME NEW a \in Segments(kernel), NEW b \in Segments(kernel), a # b, Low(a, b),
             RunOf(a) \cap RunOf(b) # {}
      PROVE  Adjacent
  <2>1. PICK page, n, c, m \in Nat :
           /\ page = kernel.p_hdrs[a].page
           /\ n = num_of_pages(kernel.p_hdrs[a])
           /\ c = CeilPages(kernel.p_hdrs[a].filesz) /\ m = CeilPages(kernel.p_hdrs[a].memsz)
           /\ c <= n /\ n <= m + 1 /\ n >= 1
           /\ RunOf(a) = page..(page + n - 1)
    BY RunBounds
  <2>2. PICK page2, n2, c2, m2 \in Nat :
           /\ page2 = kernel.p_hdrs[b].page
           /\ n2 = num_of_pages(kernel.p_hdrs[b])
           /\ c2 = CeilPages(kernel.p_hdrs[b].filesz) /\ m2 = CeilPages(kernel.p_hdrs[b].memsz)
           /\ c2 <= n2 /\ n2 <= m2 + 1 /\ n2 >= 1
           /\ RunOf(b) = page2..(page2 + n2 - 1)
    BY RunBounds
  <2>3. page + m <= page2
    BY <1>1, <2>1, <2>2
  <2>4. PICK x : x \in page..(page + n - 1) /\ x \in page2..(page2 + n2 - 1)
    BY <1>1, <2>1, <2>2
  <2>5. page + n - 1 = page2
    <3>1. n <= m + 1
      BY <2>1
    <3>2. page2 <= x /\ x <= page + n - 1 /\ x \in Int
      BY <2>4, SMTT(30)
    <3> QED
      BY <2>3, <3>1, <3>2, SMTT(30)
  <2>6. kernel.p_hdrs[a].page + num_of_pages(kernel.p_hdrs[a]) - 1 = kernel.p_hdrs[b].page
    BY <2>1, <2>2, <2>5
  <2> QED
    BY <1>1, <2>6 DEF Adjacent
<1>2. Low(i, j) \/ Low(j, i)
  BY BootAssumption DEF KernelFile
<1>3. RunOf(j) \cap RunOf(i) # {}
  OBVIOUS
<1> QED
  BY <1>1, <1>2, <1>3

-----------------------------------------------------------------------------
(* The invariant holds at first.                                           *)

(* The operations of the first steps and of start_kernel. *)
Early == {"efi", "pool", "verify_elf", "verify_psf"}

LEMMA HandedOps == \A s \in Handed : s = Step(s.op, s.x) /\ s.op \in {"efi", "pool"}
<1>1. ASSUME NEW x, NEW op
      PROVE  Step(op, x) = Step(Step(op, x).op, Step(op, x).x) /\ Step(op, x).op = op
  BY DEF Step
<1>2. \A s \in Handed : \E x : s = Step("efi", x) \/ s = Step("pool", x)
  BY DEF Handed, Efi, AllocatePool
<1> QED
  BY <1>1, <1>2, SMTT(30)

(* The steps the loop over the program headers adds. *)
LEMMA NewSteps ==
  ASSUME NEW len, NEW segments
  PROVE  /\ \A x \in segments : StepFor(Step("pages", x), len, segments)
         /\ \A x \in segments : StepFor(Step("read", x), len, segments)
         /\ \A x \in 1..(len + 1) : StepFor(Step("p_hdr", x), len, segments)
         /\ StepFor(Efi("seek"), len, segments)
<1>1. \A x \in segments : StepFor(Step("pages", x), len, segments)
  BY DEF StepFor, Step
<1>2. \A x \in segments : StepFor(Step("read", x), len, segments)
  BY DEF StepFor, Step
<1>3. \A x \in 1..(len + 1) : StepFor(Step("p_hdr", x), len, segments)
  BY DEF StepFor, Step
<1>4. StepFor(Efi("seek"), len, segments)
  BY DEF StepFor, Step, Efi, EfiNames
<1> QED
  BY <1>1, <1>2, <1>3, <1>4

LEMMA StepOKs ==
  ASSUME kernel \in Kernels
  PROVE  /\ \A s : PlainStep(s) => StepOK(s) /\ s.op \in Early
         /\ StepOK(Step("p_hdr", 1))
         /\ \A op \in Decisions : StepOK(Step(op, 0))
         /\ StepOK(AllocatePool("stack")) /\ StepOK(AllocatePool("map"))
<1>1. \A s : PlainStep(s) => StepOK(s) /\ s.op \in Early
  BY DEF PlainStep, StepOK, StepFor, Early, Decisions
<1>2. StepOK(Step("p_hdr", 1))
  BY KernelFacts, SMTT(30) DEF StepOK, StepFor, Step
<1>3. \A op \in Decisions : StepOK(Step(op, 0))
  BY DEF StepOK, StepFor, Step
<1>4. StepOK(AllocatePool("stack")) /\ StepOK(AllocatePool("map"))
  BY DEF StepOK, StepFor, Step, AllocatePool, PoolNames
<1> QED
  BY <1>1, <1>2, <1>3, <1>4

LEMMA MainPlaces ==
  ASSUME Init
  PROVE  /\ IsSeq(todo) /\ Len(todo) = 35 /\ DOMAIN todo = 1..35 /\ kernel \in Kernels
         /\ \A n \in 1..26 : StepOK(todo[n]) /\ (todo[n].op \in Early \/ n = 11)
         /\ todo[11].op = "p_hdr" /\ todo[11].x = 1
         /\ \A n \in 27..35 : StepOK(todo[n])
         /\ todo[27].op = "start" /\ todo[28].op = "pool" /\ todo[29].op = "memory_data"
         /\ todo[30].op = "size_map" /\ todo[31].op = "pool" /\ todo[32].op = "get_map"
         /\ todo[33].op = "fill_memory_data" /\ todo[34].op = "exit" /\ todo[35].op = "jump"
<1>1. todo = efi_main /\ kernel \in Kernels
  BY DEF Init
<1>2. IsSeq(todo) /\ Len(todo) = 35 /\ DOMAIN todo = 1..35
  BY <1>1, MainSteps
<1>3. \A n \in 1..26 : PlainStep(todo[n]) \/ (n = 11 /\ todo[n] = Step("p_hdr", 1))
  BY <1>1, MainSteps
<1>4. \A n \in 1..26 : StepOK(todo[n]) /\ (todo[n].op \in Early \/ n = 11)
  BY <1>1, <1>3, StepOKs
<1>5. todo[11] = Step("p_hdr", 1)
  BY <1>1, MainSteps
<1>6. \A n \in 1..8 : todo[27 + n] = start_kernel[n]
  BY <1>1, MainSteps
<1>7. /\ todo[27] = Step("start", 0)
      /\ todo[28] = start_kernel[1] /\ todo[29] = start_kernel[2] /\ todo[30] = start_kernel[3]
      /\ todo[31] = start_kernel[4] /\ todo[32] = start_kernel[5] /\ todo[33] = start_kernel[6]
      /\ todo[34] = start_kernel[7] /\ todo[35] = start_kernel[8]
  <2>1. todo[27] = Step("start", 0)
    BY <1>1, MainSteps
  <2> QED
    BY <1>6, <2>1, SMTT(30)
<1>8. /\ todo[27] = Step("start", 0) /\ todo[28] = AllocatePool("stack")
      /\ todo[29] = Step("memory_data", 0) /\ todo[30] = Step("size_map", 0)
      /\ todo[31] = AllocatePool("map") /\ todo[32] = Step("get_map", 0)
      /\ todo[33] = Step("fill_memory_data", 0) /\ todo[34] = Step("exit", 0)
      /\ todo[35] = Step("jump", 0)
  BY <1>7, StartKernelSteps
<1>9. /\ todo[11].op = "p_hdr" /\ todo[11].x = 1
      /\ todo[27].op = "start" /\ todo[28].op = "pool" /\ todo[29].op = "memory_data"
      /\ todo[30].op = "size_map" /\ todo[31].op = "pool" /\ todo[32].op = "get_map"
      /\ todo[33].op = "fill_memory_data" /\ todo[34].op = "exit" /\ todo[35].op = "jump"
  BY <1>5, <1>8, SMTT(30) DEF Step, AllocatePool
<1>10. /\ StepOK(todo[27]) /\ StepOK(todo[28]) /\ StepOK(todo[29]) /\ StepOK(todo[30])
       /\ StepOK(todo[31]) /\ StepOK(todo[32]) /\ StepOK(todo[33]) /\ StepOK(todo[34])
       /\ StepOK(todo[35])
  BY <1>1, <1>8, StepOKs, SMTT(30) DEF Decisions
<1>11. ASSUME NEW n \in 27..35 PROVE StepOK(todo[n])
  <2>1. n = 27 \/ n = 28 \/ n = 29 \/ n = 30 \/ n = 31 \/ n = 32 \/ n = 33 \/ n = 34 \/ n = 35
    BY SMTT(30)
  <2> QED
    BY <1>10, <2>1
<1> QED
  BY <1>1, <1>2, <1>4, <1>9, <1>11

LEMMA MainOrdered == ASSUME Init PROVE StepsOK /\ Ordered
<1>1. ASSUME NEW n \in 1..35
      PROVE  /\ StepOK(todo[n])
             /\ todo[n].op = "jump" <=> n = 35
             /\ todo[n].op = "exit" <=> n = 34
             /\ todo[n].op = "fill_memory_data" <=> n = 33
             /\ todo[n].op \in {"memory_data", "get_map", "p_hdr", "pages", "read"} => n < 33
  <2>1. CASE n \in 1..26
    <3>1. StepOK(todo[n]) /\ (todo[n].op \in Early \/ todo[n].op = "p_hdr")
      BY <2>1, MainPlaces
    <3>2. n # 35 /\ n # 34 /\ n # 33 /\ n < 33
      BY <2>1, SMTT(30)
    <3> QED
      BY <3>1, <3>2 DEF Early
  <2>2. CASE n \in 27..35
    <3>1. StepOK(todo[n])
      BY <2>2, MainPlaces
    <3>2. n = 27 \/ n = 28 \/ n = 29 \/ n = 30 \/ n = 31 \/ n = 32 \/ n = 33 \/ n = 34 \/ n = 35
      BY <2>2, SMTT(30)
    <3> QED
      BY <3>1, <3>2, MainPlaces, SMTT(30)
  <2> QED
    BY <2>1, <2>2, SMTT(30)
<1>2. IsSeq(todo) /\ Len(todo) = 35 /\ DOMAIN todo = 1..35
  BY MainPlaces
<1> QED
  BY <1>1, <1>2, SMTT(30) DEF StepsOK, Ordered

LEMMA MainCompletes == ASSUME Init PROVE AtHeader /\ Completed
<1>1. /\ kernel \in Kernels /\ backed = [i \in DOMAIN kernel.p_hdrs |-> {}] /\ null_write = FALSE
      /\ DOMAIN todo = 1..35
  BY MainPlaces DEF Init
<1>2. ASSUME NEW n \in 1..35
      PROVE  todo[n].op \notin {"pages", "read"} /\ (todo[n].op = "p_hdr" => n = 11)
  <2>1. CASE n \in 1..26
    BY <2>1, MainPlaces, SMTT(30) DEF Early
  <2>2. CASE n \in 27..35
    <3>1. n = 27 \/ n = 28 \/ n = 29 \/ n = 30 \/ n = 31 \/ n = 32 \/ n = 33 \/ n = 34 \/ n = 35
      BY <2>2, SMTT(30)
    <3> QED
      BY <3>1, MainPlaces, SMTT(30)
  <2> QED
    BY <2>1, <2>2, SMTT(30)
<1>3. AtHeader
  BY <1>1, <1>2, KernelFacts DEF AtHeader
<1>4. ASSUME NEW s \in Handed PROVE \E n \in DOMAIN todo : IsStep(todo[n], s.op, s.x)
  <2>1. todo = efi_main
    BY DEF Init
  <2>2. Has(todo, s)
    BY <2>1, MainSteps DEF Handed
  <2> QED
    BY <2>2 DEF Has, IsStep
<1>5. ASSUME NEW i \in Segments(kernel)
      PROVE  \E n \in DOMAIN todo :
               IsStep(todo[n], "read", i) \/ (todo[n].op = "p_hdr" /\ todo[n].x <= i)
  <2>1. i \in 1..Len(kernel.p_hdrs) /\ Len(kernel.p_hdrs) \in Nat
    BY <1>1, KernelFacts
  <2>2. todo[11].op = "p_hdr" /\ todo[11].x = 1
    BY MainPlaces
  <2>3. 11 \in DOMAIN todo /\ todo[11].x <= i
    BY <1>1, <2>1, <2>2, SMTT(30)
  <2> QED
    BY <2>2, <2>3
<1>6. 29 \in DOMAIN todo /\ todo[29].op = "memory_data" /\ 32 \in DOMAIN todo /\ todo[32].op = "get_map"
  BY <1>1, MainPlaces, SMTT(30)
<1> QED
  BY <1>1, <1>3, <1>4, <1>5, <1>6 DEF Completed

LEMMA BootInitial == Init => BootInv
<1> SUFFICES ASSUME Init PROVE BootInv
  OBVIOUS
<1>1. StepsOK /\ Ordered /\ AtHeader /\ Completed
  BY MainOrdered, MainCompletes
<1>2. kernel \in Kernels /\ magic \in Magics /\ main = "load"
  BY DEF Init
<1>3. todo # <<>> /\ 1 \in DOMAIN todo /\ Len(todo) = 35
  <2>1. Len(todo) = 35 /\ 1 \in DOMAIN todo
    BY MainPlaces, SMTT(30)
  <2>2. Len(<<>>) = 0
    OBVIOUS
  <2> QED
    BY <2>1, <2>2, SMTT(30)
<1>4. frames = UNION {backed[i] : i \in DOMAIN kernel.p_hdrs}
  <2>1. \A i \in DOMAIN kernel.p_hdrs : backed[i] = {}
    BY DEF Init
  <2>2. frames = {}
    BY DEF Init
  <2> QED
    BY <2>1, <2>2
<1>5. TypeOK
  <2>1. MaxMap \in Nat \ {0} /\ MaxEvents \in Nat
    BY BootAssumption
  <2>2. version \in Nat /\ map_len \in 1..MaxMap /\ mmap_sz \in 0..MaxMap /\ mmap_key \in 0..version
    BY <2>1, SMTT(30) DEF Init
  <2>3. events \in 0..MaxEvents /\ loaded \subseteq Segments(kernel)
    BY <2>1, SMTT(30) DEF Init
  <2>4. services \in BOOLEAN /\ failed \in BOOLEAN /\ null_write \in BOOLEAN
    BY DEF Init
  <2> QED
    BY <1>2, <1>3, <1>4, <2>2, <2>3, <2>4 DEF TypeOK
<1>6. Backed
  BY DEF Init, Backed
<1>7. KeyOfMap
  <2>1. todo[1].op # "jump"
    BY <1>1, <1>3, SMTT(30) DEF Ordered
  <2> QED
    BY <2>1 DEF Init, KeyOfMap
<1>8. StartsComplete /\ StopsForCause /\ ~(main = "kernel")
  BY <1>2 DEF StartsComplete, StopsForCause, Returned
<1> QED
  BY <1>1, <1>5, <1>6, <1>7, <1>8 DEF BootInv
-----------------------------------------------------------------------------
(* The steps that are left after a step.                                   *)

(* The first step is taken, the others are left. *)
Moved ==
  /\ IsSeq(todo') /\ Len(todo) \in Nat /\ Len(todo') = Len(todo) - 1 /\ Len(todo) > 1
  /\ DOMAIN todo = 1..Len(todo) /\ DOMAIN todo' = 1..(Len(todo) - 1)
  /\ \A n \in DOMAIN todo' : todo'[n] = todo[n + 1] /\ n + 1 \in DOMAIN todo

LEMMA AtFirst ==
  ASSUME StepsOK, NEW op, At(op)
  PROVE  /\ todo # <<>> /\ Head(todo) = todo[1] /\ todo[1].op = op /\ arg = todo[1].x
         /\ Len(todo) \in Nat /\ Len(todo) >= 1 /\ DOMAIN todo = 1..Len(todo) /\ 1 \in DOMAIN todo
         /\ StepOK(todo[1])
<1>1. todo # <<>> /\ Head(todo).op = op /\ IsSeq(todo)
  BY DEF At, StepsOK
<1>2. Head(todo) = todo[1] /\ Len(todo) \in Nat /\ Len(todo) >= 1 /\ DOMAIN todo = 1..Len(todo)
  BY <1>1, TailOf
<1>3. 1 \in DOMAIN todo
  BY <1>2, SMTT(30)
<1> QED
  BY <1>1, <1>2, <1>3 DEF StepsOK, arg

LEMMA Advance ==
  ASSUME StepsOK, Ordered, NEW op, At(op), op # "jump", todo' = Tail(todo), kernel' = kernel
  PROVE  Moved /\ todo' # <<>> /\ StepsOK' /\ Ordered'
<1>1. /\ IsSeq(todo) /\ todo # <<>> /\ Len(todo) \in Nat /\ Len(todo) >= 1 /\ todo[1].op # "jump"
      /\ DOMAIN todo = 1..Len(todo) /\ 1 \in DOMAIN todo
  BY AtFirst DEF StepsOK
<1>2. /\ IsSeq(todo') /\ Len(todo') = Len(todo) - 1 /\ DOMAIN todo' = 1..(Len(todo) - 1)
      /\ \A n \in 1..(Len(todo) - 1) : todo'[n] = todo[n + 1]
  BY <1>1, TailOf
<1>3. Len(todo) > 1
  <2>1. 1 # Len(todo)
    BY <1>1 DEF Ordered
  <2> QED
    BY <1>1, <2>1, SMTT(30)
<1>4. \A n \in DOMAIN todo' : n \in Int /\ todo'[n] = todo[n + 1] /\ n + 1 \in DOMAIN todo
  BY <1>1, <1>2, SMTT(30)
<1>5. Moved
  BY <1>1, <1>2, <1>3, <1>4 DEF Moved
<1>6. todo' # <<>>
  <2>1. 1 \in DOMAIN todo'
    BY <1>1, <1>2, <1>3, SMTT(30)
  <2> QED
    BY <2>1, SMTT(30)
<1>7. StepsOK'
  <2>1. ASSUME NEW n \in DOMAIN todo' PROVE StepOK(todo[n])'
    <3>1. StepOK(todo[n + 1]) /\ todo'[n] = todo[n + 1]
      BY <1>4 DEF StepsOK
    <3> QED
      BY <3>1 DEF StepOK
  <2> QED
    BY <1>2, <2>1 DEF StepsOK
<1>8. ASSUME NEW n \in DOMAIN todo'
      PROVE  /\ todo'[n].op = "jump" <=> n = Len(todo')
             /\ todo'[n].op = "exit" <=> n = Len(todo') - 1
             /\ todo'[n].op = "fill_memory_data" <=> n = Len(todo') - 2
             /\ todo'[n].op \in {"memory_data", "get_map", "p_hdr", "pages", "read"}
                  => n < Len(todo') - 2
  <2>1. n \in Int /\ todo'[n] = todo[n + 1] /\ n + 1 \in DOMAIN todo
    BY <1>4
  <2>2. /\ todo[n + 1].op = "jump" <=> n + 1 = Len(todo)
        /\ todo[n + 1].op = "exit" <=> n + 1 = Len(todo) - 1
        /\ todo[n + 1].op = "fill_memory_data" <=> n + 1 = Len(todo) - 2
        /\ todo[n + 1].op \in {"memory_data", "get_map", "p_hdr", "pages", "read"}
             => n + 1 < Len(todo) - 2
    BY <2>1 DEF Ordered
  <2>3. /\ n + 1 = Len(todo) <=> n = Len(todo')
        /\ n + 1 = Len(todo) - 1 <=> n = Len(todo') - 1
        /\ n + 1 = Len(todo) - 2 <=> n = Len(todo') - 2
        /\ n + 1 < Len(todo) - 2 <=> n < Len(todo') - 2
    BY <1>1, <1>2, <2>1, SMTT(30)
  <2> QED
    BY <2>1, <2>2, <2>3
<1>9. Ordered'
  BY <1>8 DEF Ordered
<1> QED
  BY <1>5, <1>6, <1>7, <1>9

LEMMA AtHeaderNext ==
  ASSUME Moved, AtHeader, 1 \in DOMAIN todo, todo[1].op # "pages",
         kernel' = kernel, backed' = backed
  PROVE  AtHeader'
<1>1. \A n \in DOMAIN todo' : n \in Int /\ n >= 1 /\ todo'[n] = todo[n + 1] /\ n + 1 \in DOMAIN todo
  BY SMTT(30) DEF Moved
<1>2. \A m, n \in DOMAIN todo' : todo'[m].op = "p_hdr" /\ todo'[n].op = "p_hdr" => m = n
  <2> SUFFICES ASSUME NEW m \in DOMAIN todo', NEW n \in DOMAIN todo',
                      todo'[m].op = "p_hdr", todo'[n].op = "p_hdr"
               PROVE  m = n
    OBVIOUS
  <2>1. m + 1 = n + 1
    BY <1>1 DEF AtHeader
  <2> QED
    BY <1>1, <2>1, SMTT(30)
<1>3. \A n \in DOMAIN todo' : todo'[n].op = "p_hdr" =>
        \A i \in Segments(kernel) : i >= todo'[n].x => backed[i] = {}
  BY <1>1, SMTT(30) DEF AtHeader
<1>4. \A n \in DOMAIN todo' : todo'[n].op # "pages"
  <2> SUFFICES ASSUME NEW n \in DOMAIN todo', todo'[n].op = "pages" PROVE FALSE
    OBVIOUS
  <2>1. n + 1 = 1
    BY <1>1 DEF AtHeader
  <2> QED
    BY <1>1, <2>1
<1>5. ASSUME NEW n \in DOMAIN todo', todo'[n].op = "read"
      PROVE  \/ n = 2 /\ todo'[1].op = "efi" /\ backed[todo'[2].x] = RunOf(todo'[2].x)
             \/ n = 1 /\ backed[todo'[1].x] = RunOf(todo'[1].x)
  <2>1. /\ n \in Int /\ n + 1 \in DOMAIN todo /\ todo[n + 1].op = "read" /\ todo'[n] = todo[n + 1]
        /\ n >= 1
    BY <1>1, <1>5
  <2>2. \/ n + 1 = 3 /\ IsStep(todo[1], "pages", todo[3].x)
        \/ n + 1 = 2 /\ todo[1].op = "efi" /\ backed[todo[2].x] = RunOf(todo[2].x)
        \/ n + 1 = 1 /\ backed[todo[1].x] = RunOf(todo[1].x)
    BY <2>1 DEF AtHeader
  <2>3. n + 1 = 2 /\ backed[todo[2].x] = RunOf(todo[2].x)
    BY <2>1, <2>2, SMTT(30) DEF IsStep
  <2>4. n = 1
    BY <2>1, <2>3, SMTT(30)
  <2> QED
    BY <2>1, <2>3, <2>4
<1>6. \A i : RunOf(i)' = RunOf(i)
  BY DEF RunOf
<1> QED
  BY <1>2, <1>3, <1>4, <1>5, <1>6 DEF AtHeader

(* What the first step of todo leaves when it succeeds. *)
Progress ==
  /\ held \subseteq held' /\ loaded \subseteq loaded' /\ (failed => failed') /\ ~null_write'
  /\ todo[1].op \in {"efi", "pool"} => todo[1] \in held'
  /\ todo[1].op = "read" => todo[1].x \in loaded'
  /\ todo[1].op = "memory_data" => AllocatePool("memory_data") \in held' \/ failed'
  /\ todo[1].op = "fill_memory_data" => AllocatePool("memory_data") \in held'
  /\ todo[1].op = "get_map" \/ mmap_sz > 0 => mmap_sz' > 0
  /\ todo[1].op = "p_hdr" => todo[1].x > Len(kernel.p_hdrs)

LEMMA Stay ==
  ASSUME Moved, NEW n \in DOMAIN todo, n # 1
  PROVE  \E m \in DOMAIN todo' : todo'[m] = todo[n]
<1>1. n - 1 \in DOMAIN todo' /\ (n - 1) + 1 = n
  BY SMTT(30) DEF Moved
<1>2. todo'[n - 1] = todo[(n - 1) + 1]
  BY <1>1 DEF Moved
<1> QED
  BY <1>1, <1>2

LEMMA CompletedNext ==
  ASSUME Moved, StepsOK, Ordered, Completed, todo # <<>>, 1 \in DOMAIN todo, Progress,
         kernel \in Kernels, kernel' = kernel
  PROVE  Completed'
<1>1. ASSUME NEW s \in Handed, s \notin held'
      PROVE  \E m \in DOMAIN todo' : IsStep(todo'[m], s.op, s.x)
  <2>1. s \notin held
    BY <1>1 DEF Progress
  <2>2. PICK n \in DOMAIN todo : IsStep(todo[n], s.op, s.x)
    BY <2>1 DEF Completed
  <2>3. n # 1
    <3> SUFFICES ASSUME n = 1 PROVE FALSE
      OBVIOUS
    <3>1. s = Step(s.op, s.x) /\ s.op \in {"efi", "pool"}
      BY HandedOps
    <3>2. todo[1] = Step(todo[1].op, todo[1].x)
      BY DEF StepsOK, StepOK, StepFor
    <3>3. todo[1] = s
      BY <2>2, <3>1, <3>2 DEF IsStep
    <3> QED
      BY <1>1, <3>1, <3>3 DEF Progress
  <2> QED
    BY <2>2, <2>3, Stay
<1>2. ASSUME NEW i \in Segments(kernel), i \notin loaded'
      PROVE  \E m \in DOMAIN todo' :
               IsStep(todo'[m], "read", i) \/ (todo'[m].op = "p_hdr" /\ todo'[m].x <= i)
  <2>1. i \notin loaded
    BY <1>2 DEF Progress
  <2>2. PICK n \in DOMAIN todo :
          IsStep(todo[n], "read", i) \/ (todo[n].op = "p_hdr" /\ todo[n].x <= i)
    BY <2>1 DEF Completed
  <2>3. n # 1
    <3> SUFFICES ASSUME n = 1 PROVE FALSE
      OBVIOUS
    <3>1. CASE IsStep(todo[1], "read", i)
      BY <1>2, <3>1 DEF Progress, IsStep
    <3>2. CASE todo[1].op = "p_hdr" /\ todo[1].x <= i
      <4>1. i \in 1..Len(kernel.p_hdrs) /\ Len(kernel.p_hdrs) \in Nat
        BY KernelFacts
      <4>2. todo[1].x \in 1..(Len(kernel.p_hdrs) + 1)
        BY <3>2 DEF StepsOK, StepOK, StepFor, Decisions
      <4>3. todo[1].x > Len(kernel.p_hdrs)
        BY <3>2 DEF Progress
      <4> QED
        BY <3>2, <4>1, <4>2, <4>3, SMTT(30)
    <3> QED
      BY <2>2, <3>1, <3>2
  <2> QED
    BY <2>2, <2>3, Stay
<1>3. ASSUME AllocatePool("memory_data") \notin held'
      PROVE  \E m \in DOMAIN todo' : todo'[m].op \in {"memory_data", "fill_memory_data"}
  <2>1. todo[1].op # "fill_memory_data" /\ AllocatePool("memory_data") \notin held
    BY <1>3 DEF Progress
  <2>2. PICK n \in DOMAIN todo : todo[n].op \in {"memory_data", "fill_memory_data"}
    BY <2>1 DEF Completed
  <2>3. CASE n # 1
    BY <2>2, <2>3, Stay
  <2>4. CASE n = 1
    <3>1. todo[1].op = "memory_data"
      BY <2>1, <2>2, <2>4
    <3>2. 1 < Len(todo) - 2
      BY <3>1 DEF Ordered
    <3>3. Len(todo) - 2 \in DOMAIN todo /\ Len(todo) - 2 # 1
      BY <3>2, SMTT(30) DEF Moved
    <3>4. todo[Len(todo) - 2].op = "fill_memory_data"
      BY <3>3 DEF Ordered
    <3> QED
      BY <3>3, <3>4, Stay
  <2> QED
    BY <2>3, <2>4
<1>4. ASSUME AllocatePool("memory_data") \notin held', ~failed'
      PROVE  \E m \in DOMAIN todo' : todo'[m].op = "memory_data"
  <2>1. AllocatePool("memory_data") \notin held /\ ~failed /\ todo[1].op # "memory_data"
    BY <1>4 DEF Progress
  <2>2. PICK n \in DOMAIN todo : todo[n].op = "memory_data"
    BY <2>1 DEF Completed
  <2> QED
    BY <2>1, <2>2, Stay
<1>5. ASSUME ~(mmap_sz' > 0)
      PROVE  \E m \in DOMAIN todo' : todo'[m].op = "get_map"
  <2>1. ~(mmap_sz > 0) /\ todo[1].op # "get_map"
    BY <1>5 DEF Progress
  <2>2. PICK n \in DOMAIN todo : todo[n].op = "get_map"
    BY <2>1 DEF Completed
  <2> QED
    BY <2>1, <2>2, Stay
<1>6. ~null_write'
  BY DEF Progress
<1>7. Handed' = Handed /\ Segments(kernel)' = Segments(kernel)
  BY DEF Handed
<1> QED
  BY <1>1, <1>2, <1>3, <1>4, <1>5, <1>6, <1>7 DEF Completed

LEMMA NoneLeft == ASSUME todo' = <<>> PROVE StepsOK' /\ Ordered' /\ AtHeader' /\ Completed'
<1>1. IsSeq(<<>>) /\ DOMAIN <<>> = {}
  BY SMTT(30) DEF IsSeq
<1>2. StepsOK' /\ Ordered'
  BY <1>1 DEF StepsOK, Ordered
<1>3. AtHeader' /\ Completed'
  BY <1>1 DEF AtHeader, Completed
<1> QED
  BY <1>2, <1>3

-----------------------------------------------------------------------------
(* The two ways a step ends.                                               *)

(* The numbers and the flags keep their types. *)
Numbers ==
  /\ version \in Nat /\ map_len \in 1..MaxMap /\ mmap_sz \in 0..MaxMap /\ mmap_key \in 0..version
  /\ events \in 0..MaxEvents
Flags == services \in BOOLEAN /\ failed \in BOOLEAN /\ null_write \in BOOLEAN

(* The key is the key of the map that was read. *)
Keyed == mmap_key = version => mmap_sz = map_len

(* Before the jump the boot services are there and efi_main runs. *)
LEMMA Running ==
  ASSUME BootInv, todo # <<>>, 1 \in DOMAIN todo, todo[1].op # "jump"
  PROVE  services = TRUE /\ main \in {"load", "start"}
<1>1. services \in BOOLEAN
  BY DEF BootInv, TypeOK
<1>2. services
  BY DEF BootInv, KeyOfMap
<1>3. main \in {"load", "start"}
  BY DEF BootInv, TypeOK
<1> QED
  BY <1>1, <1>2, <1>3

LEMMA GoesOn ==
  ASSUME BootInv, NEW op, At(op), op \notin {"jump", "pages", "exit"},
         todo' = Tail(todo), main' \in {main, "start"},
         UNCHANGED <<kernel, magic, frames, backed, services>>,
         loaded' \subseteq Segments(kernel), \A i \in loaded' : backed[i] = RunOf(i),
         Numbers', Flags', Keyed', Progress
  PROVE  BootInv'
<1>1. /\ StepsOK /\ Ordered /\ AtHeader /\ Completed /\ Backed /\ kernel \in Kernels
      /\ magic \in Magics
  BY DEF BootInv, TypeOK
<1>2. /\ todo # <<>> /\ 1 \in DOMAIN todo /\ todo[1].op = op /\ Len(todo) \in Nat
      /\ DOMAIN todo = 1..Len(todo)
  BY <1>1, AtFirst
<1>3. Moved /\ todo' # <<>> /\ StepsOK' /\ Ordered'
  BY <1>1, Advance
<1>4. AtHeader' /\ Completed'
  BY <1>1, <1>2, <1>3, AtHeaderNext, CompletedNext
<1>5. services = TRUE /\ services' = TRUE /\ main' \in {"load", "start"}
  BY <1>2, Running
<1>6. TypeOK'
  <2>1. frames' = UNION {backed'[i] : i \in DOMAIN kernel'.p_hdrs} /\ loaded' \subseteq Segments(kernel')
    BY DEF BootInv, TypeOK
  <2> QED
    BY <1>1, <1>3, <1>5, <2>1 DEF TypeOK, Numbers, Flags
<1>7. Backed'
  <2>1. \A i : RunOf(i)' = RunOf(i)
    BY DEF RunOf
  <2> QED
    BY <1>1, <2>1 DEF Backed
<1>8. KeyOfMap'
  <2>1. todo'[1].op # "jump"
    <3>1. Len(todo) > 1 /\ todo'[1] = todo[2] /\ 2 \in DOMAIN todo
      BY <1>3, SMTT(30) DEF Moved
    <3>2. SUFFICES ASSUME todo[2].op = "jump" PROVE FALSE
      BY <3>1
    <3>3. 2 = Len(todo)
      BY <1>1, <3>1, <3>2 DEF Ordered
    <3>4. 1 = Len(todo) - 1
      BY <3>3, SMTT(30)
    <3> QED
      BY <1>1, <1>2, <3>4 DEF Ordered
  <2> QED
    BY <1>5, <2>1 DEF KeyOfMap, Keyed
<1>9. StartsComplete' /\ StopsForCause' /\ main' # "kernel"
  BY <1>5 DEF StartsComplete, StopsForCause, Returned
<1> QED
  BY <1>3, <1>4, <1>6, <1>7, <1>8, <1>9 DEF BootInv

LEMMA GivesUp ==
  ASSUME BootInv, NEW op, At(op), op # "jump", Return,
         UNCHANGED <<kernel, magic, frames, backed, loaded, services>>,
         Numbers', Flags', Keyed', StopsForCause'
  PROVE  BootInv'
<1>1. StepsOK /\ Backed /\ kernel \in Kernels /\ magic \in Magics
  BY DEF BootInv, TypeOK
<1>2. todo # <<>> /\ 1 \in DOMAIN todo /\ todo[1].op = op
  BY <1>1, AtFirst
<1>3. services = TRUE /\ services' = TRUE
  BY <1>2, Running
<1>4. todo' = <<>> /\ main' \in {"EFI_LOAD_ERROR", "EFI_SUCCESS"}
  BY DEF Return
<1>5. StepsOK' /\ Ordered' /\ AtHeader' /\ Completed'
  BY <1>4, NoneLeft
<1>6. TypeOK'
  <2>1. frames' = UNION {backed'[i] : i \in DOMAIN kernel'.p_hdrs} /\ loaded' \subseteq Segments(kernel')
    BY DEF BootInv, TypeOK
  <2> QED
    BY <1>1, <1>4, <2>1 DEF TypeOK, Numbers, Flags
<1>7. Backed'
  <2>1. \A i : RunOf(i)' = RunOf(i)
    BY DEF RunOf
  <2> QED
    BY <1>1, <2>1 DEF Backed
<1>8. KeyOfMap'
  BY <1>3, <1>4 DEF KeyOfMap, Keyed
<1>9. StartsComplete' /\ main' # "kernel"
  BY <1>4 DEF StartsComplete
<1> QED
  BY <1>5, <1>6, <1>7, <1>8, <1>9 DEF BootInv

(* What is known while efi_main runs. *)
Known ==
  /\ Numbers /\ Flags /\ Keyed /\ ~null_write
  /\ loaded \subseteq Segments(kernel) /\ \A i \in loaded : backed[i] = RunOf(i)
  /\ kernel \in Kernels /\ magic \in Magics

LEMMA Knows == ASSUME BootInv, todo # <<>> PROVE Known
<1>1. Numbers /\ loaded \subseteq Segments(kernel) /\ kernel \in Kernels /\ magic \in Magics
  BY DEF BootInv, TypeOK, Numbers
<1>2. Flags /\ Keyed /\ ~null_write
  BY DEF BootInv, TypeOK, Flags, KeyOfMap, Keyed, Completed
<1>3. \A i \in loaded : backed[i] = RunOf(i)
  BY DEF BootInv, Backed
<1> QED
  BY <1>1, <1>2, <1>3 DEF Known

(* A change of the map makes the key that was read stale. *)
LEMMA MapMoves ==
  ASSUME Numbers, MapChanges, UNCHANGED <<mmap_sz, mmap_key>>, events' \in 0..MaxEvents
  PROVE  Numbers' /\ Keyed'
<1>1. MaxMap \in Nat
  BY BootAssumption
<1>2. version' \in Nat /\ map_len' \in 1..MaxMap /\ mmap_key' \in 0..version' /\ mmap_key' # version'
  BY <1>1, SMTT(30) DEF Numbers, MapChanges
<1> QED
  BY <1>2 DEF Numbers, Keyed

LEMMA FailsStep ==
  ASSUME BootInv, NEW op, At(op), op # "jump", Fails,
         UNCHANGED <<files, frames, backed, loaded, version, map_len, mmap_key, services, events>>,
         mmap_sz' \in {mmap_sz, map_len}
  PROVE  BootInv'
<1>1. todo # <<>>
  BY DEF At
<1>2. Known
  BY <1>1, Knows
<1>3. Return /\ failed' = TRUE /\ null_write' = null_write
  BY DEF Fails
<1>4. Numbers'
  <2>1. MaxMap \in Nat
    BY BootAssumption
  <2> QED
    BY <1>2, <2>1, SMTT(30) DEF Known, Numbers
<1>5. Flags'
  BY <1>2, <1>3 DEF Known, Flags
<1>6. Keyed'
  BY <1>2 DEF Known, Keyed
<1>7. StopsForCause'
  BY <1>3 DEF StopsForCause
<1> QED
  BY <1>3, <1>4, <1>5, <1>6, <1>7, GivesUp DEF files

LEMMA CallEfiStep == ASSUME BootInv, CallEfi PROVE BootInv'
<1>1. /\ At("efi")
      /\ UNCHANGED <<files, frames, backed, loaded, version, map_len, mmap_sz, mmap_key, services,
                     events>>
  BY DEF CallEfi, image, firmware, gathered
<1>2. CASE Continue /\ held' = held \cup {Head(todo)} /\ UNCHANGED history
  <2>1. Known /\ Head(todo) = todo[1] /\ todo[1].op = "efi"
    BY <1>1, Knows, AtFirst DEF At, BootInv
  <2>2. failed' = failed /\ null_write' = null_write
    BY <1>2 DEF history
  <2>3. Flags' /\ ~null_write' /\ (failed => failed')
    BY <1>1, <2>1, <2>2 DEF Known, Flags
  <2>4. Numbers' /\ Keyed'
    BY <1>1, <2>1 DEF Known, Numbers, Keyed
  <2>5. Progress
    BY <1>1, <1>2, <2>1, <2>3 DEF Progress
  <2> QED
    BY <1>1, <1>2, <2>1, <2>3, <2>4, <2>5, GoesOn DEF Continue, files, Known
<1>3. CASE Fails
  BY <1>1, <1>3, FailsStep
<1> QED
  BY <1>2, <1>3 DEF CallEfi

LEMMA CallAllocatePoolStep == ASSUME BootInv, CallAllocatePool PROVE BootInv'
<1>1. /\ At("pool")
      /\ UNCHANGED <<files, frames, backed, loaded, mmap_sz, mmap_key, services, events>>
  BY DEF CallAllocatePool, image, gathered
<1>2. CASE Continue /\ held' = held \cup {Head(todo)} /\ MapChanges /\ UNCHANGED history
  <2>1. Known /\ Head(todo) = todo[1] /\ todo[1].op = "pool"
    BY <1>1, Knows, AtFirst DEF At, BootInv
  <2>2. failed' = failed /\ null_write' = null_write
    BY <1>2 DEF history
  <2>3. Flags' /\ ~null_write' /\ (failed => failed')
    BY <1>1, <2>1, <2>2 DEF Known, Flags
  <2>4. Numbers' /\ Keyed'
    BY <1>1, <1>2, <2>1, MapMoves DEF Known, Numbers
  <2>5. Progress
    BY <1>1, <1>2, <2>1, <2>3 DEF Progress
  <2> QED
    BY <1>1, <1>2, <2>1, <2>3, <2>4, <2>5, GoesOn DEF Continue, files, Known
<1>3. CASE Fails /\ UNCHANGED <<held, firmware>>
  BY <1>1, <1>3, FailsStep DEF firmware
<1> QED
  BY <1>2, <1>3 DEF CallAllocatePool

(* A step that only looks at the files, and goes on. *)
LEMMA LooksOn ==
  ASSUME BootInv, NEW op, At(op), op \in {"verify_elf", "verify_psf", "start"},
         todo' = Tail(todo), main' \in {main, "start"},
         UNCHANGED <<files, held, image, firmware, gathered, services, events, history>>
  PROVE  BootInv'
<1>1. /\ Known /\ todo[1].op = op
      /\ UNCHANGED <<kernel, magic, held, frames, backed, loaded, version, map_len, mmap_sz, mmap_key,
                     services, events, failed, null_write>>
  BY Knows, AtFirst DEF At, BootInv, files, image, firmware, gathered, history
<1>2. Flags' /\ ~null_write' /\ (failed => failed')
  BY <1>1 DEF Known, Flags
<1>3. Numbers' /\ Keyed'
  BY <1>1 DEF Known, Numbers, Keyed
<1>4. Progress
  BY <1>1, <1>2 DEF Progress
<1> QED
  BY <1>1, <1>2, <1>3, <1>4, GoesOn DEF Known

(* A step that gives up and changes nothing else. *)
LEMMA LooksAway ==
  ASSUME BootInv, NEW op, At(op), op # "jump", Return,
         UNCHANGED <<files, held, image, firmware, gathered, services, events, failed>>,
         null_write' \in BOOLEAN, StopsForCause'
  PROVE  BootInv'
<1>1. /\ Known
      /\ UNCHANGED <<kernel, magic, held, frames, backed, loaded, version, map_len, mmap_sz, mmap_key,
                     services, events, failed>>
  BY Knows DEF At, files, image, firmware, gathered, history
<1>2. Flags'
  BY <1>1 DEF Known, Flags
<1>3. Numbers' /\ Keyed'
  BY <1>1 DEF Known, Numbers, Keyed
<1> QED
  BY <1>1, <1>2, <1>3, GivesUp

LEMMA VerifyElfStep == ASSUME BootInv, VerifyElf PROVE BootInv'
<1>1. /\ At("verify_elf")
      /\ UNCHANGED <<files, held, image, firmware, gathered, services, events, history>>
  BY DEF VerifyElf
<1>2. CASE verify_kernel_elf_header(kernel)
  <2>1. Return
    BY <1>2 DEF VerifyElf
  <2>2. kernel'.low /\ null_write' \in BOOLEAN /\ failed' = failed
    BY <1>1, <1>2, Knows DEF verify_kernel_elf_header, files, history, At, Known, Flags
  <2>3. StopsForCause'
    BY <2>2 DEF StopsForCause
  <2> QED
    BY <1>1, <2>1, <2>2, <2>3, LooksAway
<1>3. CASE ~verify_kernel_elf_header(kernel)
  <2>1. Continue
    BY <1>3 DEF VerifyElf
  <2> QED
    BY <1>1, <2>1, LooksOn DEF Continue
<1> QED
  BY <1>2, <1>3

LEMMA VerifyPsfStep == ASSUME BootInv, VerifyPsf PROVE BootInv'
<1>1. /\ At("verify_psf")
      /\ UNCHANGED <<files, held, image, firmware, gathered, services, events, history>>
  BY DEF VerifyPsf
<1>2. CASE verify_psf_header(magic)
  <2>1. Return
    BY <1>2 DEF VerifyPsf
  <2>2. null_write' \in BOOLEAN /\ failed' = failed /\ magic' = magic
    BY <1>1, Knows DEF files, history, At, Known, Flags
  <2>3. magic # <<54, 4>>
    <3>1. magic[1] + 256 * magic[2] = 54 * 256 + 4
      BY <1>2 DEF verify_psf_header, PSF1_MAGIC
    <3> QED
      BY <3>1, SMTT(30)
  <2>4. StopsForCause'
    BY <2>2, <2>3 DEF StopsForCause
  <2> QED
    BY <1>1, <2>1, <2>2, <2>4, LooksAway
<1>3. CASE ~verify_psf_header(magic)
  <2>1. Continue
    BY <1>3 DEF VerifyPsf
  <2> QED
    BY <1>1, <2>1, LooksOn DEF Continue
<1> QED
  BY <1>2, <1>3

LEMMA StartStep == ASSUME BootInv, Start PROVE BootInv'
  BY LooksOn DEF Start

LEMMA ReadSegmentStep == ASSUME BootInv, ReadSegment PROVE BootInv'
<1>1. /\ At("read")
      /\ UNCHANGED <<files, held, frames, backed, version, map_len, mmap_sz, mmap_key, services, events>>
  BY DEF ReadSegment, firmware, gathered
<1>2. CASE Continue /\ loaded' = loaded \cup {arg} /\ UNCHANGED history
  <2>1. Known /\ arg = todo[1].x /\ todo[1].op = "read" /\ StepOK(todo[1]) /\ 1 \in DOMAIN todo
    BY <1>1, Knows, AtFirst DEF At, BootInv
  <2>2. failed' = failed /\ null_write' = null_write
    BY <1>2 DEF history
  <2>3. Flags' /\ ~null_write' /\ (failed => failed')
    BY <1>1, <2>1, <2>2 DEF Known, Flags
  <2>4. Numbers' /\ Keyed'
    BY <1>1, <2>1 DEF Known, Numbers, Keyed
  <2>5. Progress
    BY <1>1, <1>2, <2>1, <2>3 DEF Progress
  <2>6. arg \in Segments(kernel)
    BY <2>1 DEF StepOK, StepFor, Decisions
  <2>7. backed[arg] = RunOf(arg)
    <3>1. AtHeader
      BY DEF BootInv
    <3> QED
      BY <2>1, <3>1, SMTT(30) DEF AtHeader
  <2>8. loaded' \subseteq Segments(kernel) /\ \A i \in loaded' : backed[i] = RunOf(i)
    BY <1>2, <2>1, <2>6, <2>7 DEF Known
  <2> QED
    BY <1>1, <1>2, <2>3, <2>4, <2>5, <2>8, GoesOn DEF Continue, files
<1>3. CASE Fails /\ UNCHANGED loaded
  BY <1>1, <1>3, FailsStep
<1> QED
  BY <1>2, <1>3 DEF ReadSegment

LEMMA AllocateMemoryDataStep == ASSUME BootInv, AllocateMemoryData PROVE BootInv'
<1>1. /\ At("memory_data") /\ Continue
      /\ UNCHANGED <<kernel, magic, frames, backed, loaded, mmap_sz, mmap_key, services, events, null_write>>
  BY DEF AllocateMemoryData, files, image, gathered
<1>2. Known /\ todo[1].op = "memory_data"
  BY <1>1, Knows, AtFirst DEF At, BootInv
<1>3. CASE held' = held \cup {AllocatePool("memory_data")} /\ MapChanges /\ UNCHANGED failed
  <2>1. Flags' /\ ~null_write' /\ (failed => failed')
    BY <1>1, <1>2, <1>3 DEF Known, Flags
  <2>2. Numbers' /\ Keyed'
    BY <1>1, <1>2, <1>3, MapMoves DEF Known, Numbers
  <2>3. Progress
    BY <1>1, <1>2, <1>3, <2>1 DEF Progress
  <2> QED
    BY <1>1, <1>2, <2>1, <2>2, <2>3, GoesOn DEF Continue, Known
<1>4. CASE failed' = TRUE /\ UNCHANGED <<held, firmware>>
  <2>1. Flags' /\ ~null_write' /\ (failed => failed') /\ failed'
    BY <1>1, <1>2, <1>4 DEF Known, Flags
  <2>2. Numbers' /\ Keyed'
    BY <1>1, <1>2, <1>4 DEF Known, Numbers, Keyed, firmware
  <2>3. Progress
    BY <1>1, <1>2, <1>4, <2>1 DEF Progress
  <2> QED
    BY <1>1, <1>2, <2>1, <2>2, <2>3, GoesOn DEF Continue, Known
<1> QED
  BY <1>3, <1>4 DEF AllocateMemoryData

LEMMA SizeMapStep == ASSUME BootInv, SizeMap PROVE BootInv'
<1>1. /\ At("size_map")
      /\ UNCHANGED <<kernel, magic, held, frames, backed, loaded, version, map_len, mmap_key, services,
                     events>>
  BY DEF SizeMap, files, image, firmware
<1>2. Known /\ todo[1].op = "size_map"
  BY <1>1, Knows, AtFirst DEF At, BootInv
<1>3. CASE Continue /\ mmap_sz' = map_len /\ UNCHANGED history
  <2>1. failed' = failed /\ null_write' = null_write
    BY <1>3 DEF history
  <2>2. Flags' /\ ~null_write' /\ (failed => failed')
    BY <1>1, <1>2, <2>1 DEF Known, Flags
  <2>3. MaxMap \in Nat
    BY BootAssumption
  <2>4. Numbers' /\ Keyed' /\ mmap_sz' > 0
    BY <1>1, <1>2, <1>3, <2>3, SMTT(30) DEF Known, Numbers, Keyed
  <2>5. Progress
    BY <1>1, <1>2, <2>2, <2>4 DEF Progress
  <2> QED
    BY <1>1, <1>2, <1>3, <2>2, <2>4, <2>5, GoesOn DEF Continue, Known
<1>4. CASE Fails /\ UNCHANGED mmap_sz
  BY <1>1, <1>4, FailsStep DEF files
<1> QED
  BY <1>3, <1>4 DEF SizeMap

LEMMA GetMapStep == ASSUME BootInv, GetMap PROVE BootInv'
<1>1. /\ At("get_map") /\ mmap_sz' = map_len
      /\ UNCHANGED <<kernel, magic, held, frames, backed, loaded, version, map_len, services, events>>
  BY DEF GetMap, files, image, firmware
<1>2. Known /\ todo[1].op = "get_map"
  BY <1>1, Knows, AtFirst DEF At, BootInv
<1>3. MaxMap \in Nat
  BY BootAssumption
<1>4. CASE map_len <= mmap_sz /\ Continue /\ mmap_key' = version /\ UNCHANGED history
  <2>1. failed' = failed /\ null_write' = null_write
    BY <1>4 DEF history
  <2>2. Flags' /\ ~null_write' /\ (failed => failed')
    BY <1>1, <1>2, <2>1 DEF Known, Flags
  <2>3. Numbers' /\ Keyed' /\ mmap_sz' > 0
    BY <1>1, <1>2, <1>3, <1>4, SMTT(30) DEF Known, Numbers, Keyed
  <2>4. Progress
    BY <1>1, <1>2, <2>2, <2>3 DEF Progress
  <2> QED
    BY <1>1, <1>2, <1>4, <2>2, <2>3, <2>4, GoesOn DEF Continue, Known
<1>5. CASE map_len > mmap_sz /\ Return /\ UNCHANGED <<mmap_key, history>>
  <2>1. failed' = failed /\ null_write' = null_write
    BY <1>5 DEF history
  <2>2. Flags'
    BY <1>1, <1>2, <2>1 DEF Known, Flags
  <2>3. Numbers' /\ Keyed' /\ mmap_sz' > 0 /\ mmap_key' # version'
    BY <1>1, <1>2, <1>3, <1>5, SMTT(30) DEF Known, Numbers, Keyed
  <2>4. StopsForCause'
    BY <2>3 DEF StopsForCause
  <2> QED
    BY <1>1, <1>5, <2>2, <2>3, <2>4, GivesUp
<1>6. CASE Fails /\ UNCHANGED mmap_key
  BY <1>1, <1>6, FailsStep DEF files
<1> QED
  BY <1>4, <1>5, <1>6 DEF GetMap

LEMMA FillMemoryDataStep == ASSUME BootInv, FillMemoryData PROVE BootInv'
<1>1. /\ At("fill_memory_data")
      /\ UNCHANGED <<files, held, image, firmware, gathered, services, events>>
  BY DEF FillMemoryData
<1>2. /\ Known /\ todo[1].op = "fill_memory_data" /\ 1 \in DOMAIN todo /\ todo # <<>>
      /\ DOMAIN todo = 1..Len(todo) /\ Len(todo) \in Nat
  BY <1>1, Knows, AtFirst DEF At, BootInv
<1>3. CASE AllocatePool("memory_data") \in held
  <2>1. Continue /\ failed' = failed /\ null_write' = null_write
    BY <1>3 DEF FillMemoryData, history
  <2>2. UNCHANGED <<kernel, magic, held, frames, backed, loaded, version, map_len, mmap_sz, mmap_key,
                    services, events>>
    BY <1>1 DEF files, image, firmware, gathered
  <2>3. Flags' /\ ~null_write' /\ (failed => failed')
    BY <1>2, <2>1, <2>2 DEF Known, Flags
  <2>4. Numbers' /\ Keyed'
    BY <1>2, <2>2 DEF Known, Numbers, Keyed
  <2>5. Progress
    BY <1>2, <1>3, <2>2, <2>3 DEF Progress
  <2> QED
    BY <1>1, <1>2, <2>1, <2>2, <2>3, <2>4, <2>5, GoesOn DEF Continue, Known
<1>4. CASE AllocatePool("memory_data") \notin held
  <2>1. Return /\ null_write' = TRUE /\ failed' = failed
    BY <1>4 DEF FillMemoryData
  <2>2. \A n \in DOMAIN todo : todo[n].op # "memory_data"
    <3>1. Ordered
      BY DEF BootInv
    <3>2. 1 = Len(todo) - 2
      BY <1>2, <3>1 DEF Ordered
    <3>3. \A n \in DOMAIN todo : ~(n < Len(todo) - 2)
      <4>1. ASSUME NEW n \in DOMAIN todo PROVE ~(n < 1)
        BY <1>2, SMTT(30)
      <4> QED
        BY <3>2, <4>1
    <3> QED
      BY <3>1, <3>3 DEF Ordered
  <2>3. failed
    BY <1>2, <1>4, <2>2 DEF BootInv, Completed
  <2>4. StopsForCause' /\ null_write' \in BOOLEAN
    BY <2>1, <2>3 DEF StopsForCause
  <2> QED
    BY <1>1, <2>1, <2>4, LooksAway
<1> QED
  BY <1>3, <1>4

LEMMA ExitStep == ASSUME BootInv, ExitBootServices PROVE BootInv'
<1>1. /\ At("exit")
      /\ UNCHANGED <<files, held, image, firmware, gathered, events, history>>
  BY DEF ExitBootServices
<1>2. /\ Known /\ todo[1].op = "exit" /\ 1 \in DOMAIN todo /\ todo # <<>>
  BY <1>1, Knows, AtFirst DEF At, BootInv
<1>3. StepsOK /\ Ordered /\ AtHeader /\ Completed /\ Backed
  BY DEF BootInv
<1>4. Len(todo) \in Nat /\ DOMAIN todo = 1..Len(todo)
  BY <1>1, <1>3, AtFirst
<1>5. 1 = Len(todo) - 1
  BY <1>2, <1>3 DEF Ordered
<1>6. mmap_sz > 0
  <2>1. ASSUME NEW n \in DOMAIN todo PROVE ~(n < Len(todo) - 2)
    <3>1. PICK len \in Nat : len = Len(todo)
      BY <1>4
    <3>2. n \in 1..len /\ 1 = len - 1
      BY <1>4, <1>5, <3>1
    <3>3. ~(n < len - 2)
      BY <3>2, SMTT(30)
    <3> QED
      BY <3>1, <3>3
  <2>2. \A n \in DOMAIN todo : todo[n].op # "get_map"
    BY <1>3, <2>1 DEF Ordered
  <2> QED
    BY <1>2, <1>3, <2>2 DEF Completed
<1>7. CASE mmap_key # version
  <2>1. Return /\ services' = services
    BY <1>7 DEF ExitBootServices
  <2>2. mmap_sz' = mmap_sz /\ mmap_key' = mmap_key /\ version' = version
    BY <1>1 DEF gathered, firmware
  <2>3. StopsForCause'
    BY <1>6, <1>7, <2>2 DEF StopsForCause
  <2>4. null_write' \in BOOLEAN /\ failed' = failed
    BY <1>1, <1>2 DEF history, Known, Flags
  <2> QED
    BY <1>1, <2>1, <2>3, <2>4, LooksAway
<1>8. CASE mmap_key = version
  <2>1. Continue /\ services' = FALSE
    BY <1>8 DEF ExitBootServices
  <2>2. UNCHANGED <<kernel, magic, held, frames, backed, loaded, version, map_len, mmap_sz, mmap_key,
                    events, failed, null_write, main>>
    BY <1>1, <2>1 DEF files, image, firmware, gathered, history, Continue
  <2>3. Moved /\ todo' # <<>> /\ StepsOK' /\ Ordered'
    BY <1>1, <1>3, <2>1, <2>2, Advance DEF Continue
  <2>4. ~null_write' /\ Flags' /\ (failed => failed')
    BY <1>2, <2>1, <2>2 DEF Known, Flags
  <2>5. Progress
    BY <1>2, <1>6, <2>2, <2>4 DEF Progress
  <2>6. AtHeader' /\ Completed'
    BY <1>2, <1>3, <2>2, <2>3, <2>5, AtHeaderNext, CompletedNext DEF Known
  <2>7. main \in {"load", "start"}
    BY <1>2, Running
  <2>8. Numbers' /\ Keyed'
    BY <1>2, <2>2 DEF Known, Numbers, Keyed
  <2>9. TypeOK'
    <3>1. frames' = UNION {backed'[i] : i \in DOMAIN kernel'.p_hdrs} /\ loaded' \subseteq Segments(kernel')
      BY <2>2 DEF BootInv, TypeOK
    <3> QED
      BY <1>2, <2>2, <2>3, <2>4, <2>7, <2>8, <3>1 DEF TypeOK, Numbers, Flags, Known
  <2>10. Backed'
    <3>1. \A i : RunOf(i)' = RunOf(i)
      BY <2>2 DEF RunOf
    <3> QED
      BY <1>3, <2>2, <3>1 DEF Backed
  <2>11. KeyOfMap'
    <3>1. DOMAIN todo' = 1..1 /\ Len(todo') = 1
      BY <1>4, <1>5, <2>3 DEF Moved
    <3>2. \A n \in DOMAIN todo' : todo'[n].op = "jump"
      BY <2>3, <3>1, SMTT(30) DEF Ordered
    <3> QED
      BY <1>8, <2>1, <2>2, <2>8, <3>2 DEF KeyOfMap, Keyed
  <2>12. StartsComplete' /\ StopsForCause' /\ main' # "kernel"
    BY <2>2, <2>7 DEF StartsComplete, StopsForCause, Returned
  <2> QED
    BY <2>3, <2>6, <2>9, <2>10, <2>11, <2>12 DEF BootInv
<1> QED
  BY <1>7, <1>8

LEMMA JumpStep == ASSUME BootInv, Jump PROVE BootInv'
<1>1. At("jump") /\ todo' = <<>> /\ main' = "kernel"
  BY DEF Jump
<1>2. UNCHANGED <<kernel, magic, held, frames, backed, loaded, version, map_len, mmap_sz, mmap_key,
                  services, events, failed, null_write>>
  BY DEF Jump, files, image, firmware, gathered, history
<1>3. StepsOK /\ Ordered /\ Completed /\ Backed /\ KeyOfMap
  BY DEF BootInv
<1>4. /\ Known /\ todo[1].op = "jump" /\ 1 \in DOMAIN todo /\ todo # <<>>
      /\ Len(todo) \in Nat /\ DOMAIN todo = 1..Len(todo)
  BY <1>1, <1>3, Knows, AtFirst
<1>5. \A n \in DOMAIN todo : todo[n].op = "jump"
  <2>1. 1 = Len(todo)
    BY <1>3, <1>4 DEF Ordered
  <2>2. ASSUME NEW n \in DOMAIN todo PROVE n = 1
    <3>1. n \in 1..1
      BY <1>4, <2>1
    <3> QED
      BY <3>1, SMTT(30)
  <2> QED
    BY <1>4, <2>2
<1>6. Handed \subseteq held
  <2>1. \A s \in Handed : s.op # "jump"
    BY HandedOps
  <2> QED
    BY <1>3, <1>4, <1>5, <2>1 DEF Completed, IsStep
<1>7. loaded = Segments(kernel)
  <2>1. \A i \in Segments(kernel) : i \in loaded
    BY <1>3, <1>4, <1>5 DEF Completed, IsStep
  <2> QED
    BY <1>4, <2>1 DEF Known
<1>8. AllocatePool("memory_data") \in held
  BY <1>3, <1>4, <1>5 DEF Completed
<1>9. ~services /\ ~null_write
  BY <1>3, <1>4 DEF KeyOfMap, Known
<1>10. StartsComplete'
  <2>1. ~null_write' /\ loaded' = Segments(kernel')
    BY <1>2, <1>7, <1>9
  <2>2. {Efi(x) : x \in {"e_hdr", "psf_header", "glyphs", "gop", "rsdp"}} \subseteq held'
    BY <1>2, <1>6 DEF Handed
  <2>3. {AllocatePool(x) : x \in {"font", "framebuffer", "double_buffer", "stack", "memory_data",
                                  "map"}} \subseteq held'
    BY <1>2, <1>6, <1>8 DEF Handed
  <2> QED
    BY <2>1, <2>2, <2>3 DEF StartsComplete
<1>11. StepsOK' /\ Ordered' /\ AtHeader' /\ Completed'
  BY <1>1, NoneLeft
<1>12. TypeOK'
  <2>1. frames' = UNION {backed'[i] : i \in DOMAIN kernel'.p_hdrs} /\ loaded' \subseteq Segments(kernel')
    BY <1>2 DEF BootInv, TypeOK
  <2>2. Numbers'
    BY <1>2, <1>4 DEF Known, Numbers
  <2>3. Flags'
    BY <1>2, <1>4 DEF Known, Flags
  <2> QED
    BY <1>1, <1>2, <1>4, <2>1, <2>2, <2>3 DEF TypeOK, Numbers, Flags, Known
<1>13. Backed'
  <2>1. \A i : RunOf(i)' = RunOf(i)
    BY <1>2 DEF RunOf
  <2> QED
    BY <1>2, <1>3, <2>1 DEF Backed
<1>14. KeyOfMap'
  <2>1. DOMAIN todo' = {}
    BY <1>1, SMTT(30)
  <2>2. (~services' => mmap_key' = version') /\ (mmap_key' = version' => mmap_sz' = map_len')
    BY <1>2, <1>3 DEF KeyOfMap
  <2> QED
    BY <1>1, <2>1, <2>2 DEF KeyOfMap
<1>15. StopsForCause' /\ (main' = "kernel" => ~services')
  <2>1. StopsForCause'
    BY <1>1 DEF StopsForCause, Returned
  <2> QED
    BY <1>2, <1>9, <2>1
<1> QED
  BY <1>10, <1>11, <1>12, <1>13, <1>14, <1>15 DEF BootInv

LEMMA FirmwareEventStep == ASSUME BootInv, FirmwareEvent PROVE BootInv'
<1>1. /\ services /\ todo # <<>> /\ events < MaxEvents /\ events' = events + 1 /\ MapChanges
      /\ UNCHANGED <<kernel, magic, todo, main, held, frames, backed, loaded, mmap_sz, mmap_key,
                     services, failed, null_write>>
  BY DEF FirmwareEvent, files, image, gathered, history
<1>2. Known
  BY <1>1, Knows
<1>3. Numbers' /\ Keyed'
  <2>1. MaxEvents \in Nat
    BY BootAssumption
  <2>2. events' \in 0..MaxEvents
    BY <1>1, <1>2, <2>1, SMTT(30) DEF Known, Numbers
  <2> QED
    BY <1>1, <1>2, <2>2, MapMoves DEF Known
<1>4. TypeOK'
  <2>1. Flags'
    BY <1>1, <1>2 DEF Known, Flags
  <2> QED
    BY <1>1, <1>3, <2>1 DEF BootInv, TypeOK, Numbers, Flags
<1>5. StepsOK' /\ Ordered'
  BY <1>1 DEF BootInv, StepsOK, StepOK, StepFor, Ordered
<1>6. AtHeader' /\ Backed'
  BY <1>1 DEF BootInv, AtHeader, Backed, RunOf
<1>7. Completed'
  BY <1>1 DEF BootInv, Completed, Handed
<1>8. KeyOfMap'
  <2>1. todo[1].op # "jump"
    BY <1>1 DEF BootInv, KeyOfMap
  <2> QED
    BY <1>1, <1>3, <2>1 DEF KeyOfMap, Keyed
<1>9. StartsComplete' /\ StopsForCause' /\ (main' = "kernel" => ~services')
  <2>1. main \in {"load", "start"}
    BY <1>1 DEF BootInv, TypeOK
  <2> QED
    BY <1>1, <2>1 DEF StartsComplete, StopsForCause, Returned
<1> QED
  BY <1>4, <1>5, <1>6, <1>7, <1>8, <1>9 DEF BootInv

(* The frames of a segment are allocated. *)
LEMMA AllocatedSegment ==
  ASSUME BootInv, At("pages"), NEW i, i = arg, RunOf(i) \cap frames = {}, Continue, MapChanges,
         frames' = frames \cup RunOf(i), backed' = [backed EXCEPT ![i] = RunOf(i)],
         UNCHANGED <<history, files, held, loaded, gathered, services, events>>
  PROVE  BootInv'
<1>1. StepsOK /\ Ordered /\ AtHeader /\ Completed /\ Backed
  BY DEF BootInv
<1>2. Known /\ todo[1].op = "pages" /\ i = todo[1].x /\ 1 \in DOMAIN todo /\ todo # <<>> /\ StepOK(todo[1])
  BY <1>1, Knows, AtFirst
<1>3. UNCHANGED <<kernel, magic, held, loaded, mmap_sz, mmap_key, main, services, events, failed, null_write>>
  BY DEF history, files, gathered, Continue
<1>4. i \in Segments(kernel) /\ i \in DOMAIN kernel.p_hdrs
  <2>1. i \in Segments(kernel)
    BY <1>2 DEF StepOK, StepFor, Decisions
  <2> QED
    BY <1>2, <2>1, KernelFacts DEF Known
<1>5. backed[i] = {} /\ \A m \in DOMAIN todo : todo[m].op = "p_hdr" => i < todo[m].x
  BY <1>1, <1>2 DEF AtHeader
<1>6. /\ backed \in [DOMAIN kernel.p_hdrs -> SUBSET Nat] /\ backed'[i] = RunOf(i)
      /\ \A j \in DOMAIN kernel.p_hdrs : j # i => backed'[j] = backed[j]
  BY <1>1, <1>4 DEF Backed
<1>7. \A j : RunOf(j)' = RunOf(j)
  BY <1>3 DEF RunOf
<1>8. Moved /\ todo' # <<>> /\ StepsOK' /\ Ordered'
  BY <1>1, <1>3, Advance DEF Continue
<1>9. services = TRUE /\ services' = TRUE /\ main \in {"load", "start"}
  BY <1>2, <1>3, Running
<1>10. Flags' /\ ~null_write' /\ (failed => failed')
  BY <1>2, <1>3 DEF Known, Flags
<1>11. Numbers' /\ Keyed'
  BY <1>2, <1>3, MapMoves DEF Known, Numbers
<1>12. Progress
  BY <1>2, <1>3, <1>10 DEF Progress
<1>13. Completed'
  BY <1>1, <1>2, <1>3, <1>8, <1>12, CompletedNext DEF Known
<1>14. AtHeader'
  <2>1. \A n \in DOMAIN todo' : n \in Int /\ n >= 1 /\ todo'[n] = todo[n + 1] /\ n + 1 \in DOMAIN todo
    BY <1>8, SMTT(30) DEF Moved
  <2>2. \A m, n \in DOMAIN todo' : todo'[m].op = "p_hdr" /\ todo'[n].op = "p_hdr" => m = n
    <3> SUFFICES ASSUME NEW m \in DOMAIN todo', NEW n \in DOMAIN todo',
                        todo'[m].op = "p_hdr", todo'[n].op = "p_hdr"
                 PROVE  m = n
      OBVIOUS
    <3>1. m + 1 = n + 1
      BY <1>1, <2>1 DEF AtHeader
    <3> QED
      BY <2>1, <3>1, SMTT(30)
  <2>3. ASSUME NEW n \in DOMAIN todo', todo'[n].op = "p_hdr",
               NEW j \in Segments(kernel), j >= todo'[n].x
        PROVE  backed'[j] = {}
    <3>1. n + 1 \in DOMAIN todo /\ todo[n + 1].op = "p_hdr" /\ todo'[n].x = todo[n + 1].x
      BY <2>1, <2>3
    <3>2. backed[j] = {}
      BY <1>1, <2>3, <3>1 DEF AtHeader
    <3>3. j # i
      <4>1. i < todo'[n].x
        BY <1>5, <3>1
      <4>2. i \in Int /\ j \in Int
        <5>1. kernel \in Kernels
          BY <1>2 DEF Known
        <5>2. \A m \in Segments(kernel) : m \in Int
          <6>1. PICK len \in Nat : Segments(kernel) \subseteq 1..len
            BY <5>1, KernelFacts
          <6> QED
            BY <6>1, SMTT(30)
        <5> QED
          BY <1>4, <5>2
      <4>3. todo'[n].x \in Int
        <5>1. StepOK(todo[n + 1]) /\ Len(kernel.p_hdrs) \in Nat
          BY <1>1, <1>2, <3>1, KernelFacts DEF StepsOK, Known
        <5> QED
          BY <3>1, <5>1, SMTT(30) DEF StepOK, StepFor, Decisions
      <4> QED
        BY <2>3, <4>1, <4>2, <4>3, SMTT(30)
    <3>4. j \in DOMAIN kernel.p_hdrs
      BY <1>2, KernelFacts DEF Known
    <3> QED
      BY <1>6, <3>2, <3>3, <3>4
  <2>4. \A n \in DOMAIN todo' : todo'[n].op # "pages"
    <3> SUFFICES ASSUME NEW n \in DOMAIN todo', todo'[n].op = "pages" PROVE FALSE
      OBVIOUS
    <3>1. n + 1 = 1
      BY <1>1, <2>1 DEF AtHeader
    <3> QED
      BY <2>1, <3>1, SMTT(30)
  <2>5. ASSUME NEW n \in DOMAIN todo', todo'[n].op = "read"
        PROVE  n = 2 /\ todo'[1].op = "efi" /\ todo'[2].x = i
    <3>1. n \in Int /\ n >= 1 /\ todo'[n] = todo[n + 1] /\ n + 1 \in DOMAIN todo /\ todo[n + 1].op = "read"
      BY <2>1, <2>5
    <3>2. n + 1 = 3 /\ IsStep(todo[1], "pages", todo[3].x) /\ todo[2].op = "efi"
      <4>1. \/ n + 1 = 3 /\ IsStep(todo[1], "pages", todo[3].x) /\ todo[2].op = "efi"
            \/ n + 1 = 2 /\ todo[1].op = "efi"
            \/ n + 1 = 1
        BY <1>1, <3>1 DEF AtHeader
      <4>2. n + 1 # 1
        BY <3>1, SMTT(30)
      <4> QED
        BY <1>2, <4>1, <4>2
    <3>3. n = 2
      BY <3>1, <3>2, SMTT(30)
    <3>4. 1 \in DOMAIN todo'
      BY <1>8, SMTT(30) DEF Moved
    <3>5. todo'[1] = todo[2]
      BY <2>1, <3>4, SMTT(30)
    <3> QED
      BY <1>2, <3>1, <3>2, <3>3, <3>5 DEF IsStep
  <2>6. Segments(kernel') = Segments(kernel)
    BY <1>3
  <2> QED
    BY <1>6, <1>7, <2>2, <2>3, <2>4, <2>5, <2>6 DEF AtHeader
<1>15. TypeOK'
  <2>1. frames' = UNION {backed'[j] : j \in DOMAIN kernel'.p_hdrs}
    <3>1. frames = UNION {backed[j] : j \in DOMAIN kernel.p_hdrs}
      BY DEF BootInv, TypeOK
    <3> QED
      BY <1>3, <1>4, <1>5, <1>6, <3>1, SMTT(30)
  <2> QED
    BY <1>2, <1>3, <1>8, <1>9, <1>10, <1>11, <2>1 DEF TypeOK, Numbers, Flags, Known
<1>16. Backed'
  <2>1. RunOf(i) \in SUBSET Nat
    BY <1>2, <1>4, RunCovers DEF Known
  <2>2. backed' \in [DOMAIN kernel'.p_hdrs -> SUBSET Nat]
    BY <1>3, <1>6, <2>1
  <2>3. \A j \in DOMAIN kernel'.p_hdrs :
          backed'[j] = {} \/ (j \in Segments(kernel') /\ backed'[j] = RunOf(j))
    BY <1>1, <1>3, <1>4, <1>6 DEF Backed
  <2>4. \A j \in DOMAIN kernel.p_hdrs : j # i => backed'[j] \cap RunOf(i) = {}
    <3>1. \A j \in DOMAIN kernel.p_hdrs : backed[j] \subseteq frames
      BY DEF BootInv, TypeOK
    <3> QED
      BY <1>6, <3>1
  <2>5. \A j, k \in DOMAIN kernel'.p_hdrs : j # k => backed'[j] \cap backed'[k] = {}
    BY <1>1, <1>3, <1>6, <2>4 DEF Backed
  <2>6. \A j \in loaded' : backed'[j] = RunOf(j)
    <3>1. \A j \in loaded : j \in DOMAIN kernel.p_hdrs /\ backed[j] = RunOf(j)
      BY <1>2, KernelFacts DEF Known
    <3> QED
      BY <1>3, <1>6, <3>1
  <2> QED
    BY <1>7, <2>2, <2>3, <2>5, <2>6 DEF Backed
<1>17. KeyOfMap'
  <2>1. todo'[1].op # "jump"
    <3>1. Len(todo) > 1 /\ todo'[1] = todo[2] /\ 2 \in DOMAIN todo /\ Len(todo) \in Nat
      BY <1>8, SMTT(30) DEF Moved
    <3>2. SUFFICES ASSUME todo[2].op = "jump" PROVE FALSE
      BY <3>1
    <3>3. 2 = Len(todo)
      BY <1>1, <3>1, <3>2 DEF Ordered
    <3>4. 1 = Len(todo) - 1
      BY <3>3, SMTT(30)
    <3> QED
      BY <1>1, <1>2, <3>4 DEF Ordered
  <2> QED
    BY <1>9, <1>11, <2>1 DEF KeyOfMap, Keyed
<1>18. StartsComplete' /\ StopsForCause' /\ main' # "kernel"
  BY <1>3, <1>9 DEF StartsComplete, StopsForCause, Returned
<1> QED
  BY <1>8, <1>13, <1>14, <1>15, <1>16, <1>17, <1>18 DEF BootInv

LEMMA AllocateSegmentStep == ASSUME BootInv, AllocateSegment PROVE BootInv'
<1>1. PICK i : i = arg
  OBVIOUS
<1>2. /\ At("pages") /\ UNCHANGED <<files, held, loaded, gathered, services, events>>
      /\ \/ /\ RunOf(i) \cap frames = {} /\ Continue /\ MapChanges
            /\ frames' = frames \cup RunOf(i) /\ backed' = [backed EXCEPT ![i] = RunOf(i)]
            /\ UNCHANGED history
         \/ RunOf(i) \cap frames # {} /\ Return /\ UNCHANGED <<frames, backed, firmware, history>>
         \/ Fails /\ UNCHANGED <<frames, backed, firmware>>
  BY <1>1 DEF AllocateSegment, RunOf
<1>3. CASE /\ RunOf(i) \cap frames = {} /\ Continue /\ MapChanges
           /\ frames' = frames \cup RunOf(i) /\ backed' = [backed EXCEPT ![i] = RunOf(i)]
           /\ UNCHANGED history
  BY <1>1, <1>2, <1>3, AllocatedSegment
<1>4. CASE RunOf(i) \cap frames # {} /\ Return /\ UNCHANGED <<frames, backed, firmware, history>>
  <2>1. StepsOK /\ AtHeader /\ Backed /\ frames = UNION {backed[j] : j \in DOMAIN kernel.p_hdrs}
    BY DEF BootInv, TypeOK
  <2>2. Known /\ todo[1].op = "pages" /\ i = todo[1].x /\ 1 \in DOMAIN todo /\ StepOK(todo[1])
    BY <1>1, <1>2, <2>1, Knows, AtFirst DEF At
  <2>3. i \in Segments(kernel)
    BY <2>2 DEF StepOK, StepFor, Decisions
  <2>4. backed[i] = {}
    BY <2>1, <2>2 DEF AtHeader
  <2>5. PICK j \in DOMAIN kernel.p_hdrs : RunOf(i) \cap backed[j] # {}
    BY <1>4, <2>1, SMTT(30)
  <2>6. j # i /\ j \in Segments(kernel) /\ backed[j] = RunOf(j)
    BY <2>1, <2>4, <2>5 DEF Backed
  <2>7. Adjacent
    BY <2>2, <2>3, <2>5, <2>6, RunsMeet DEF Known
  <2>8. Adjacent'
    BY <1>2, <2>7 DEF Adjacent, files
  <2>9. StopsForCause'
    BY <2>8 DEF StopsForCause
  <2>10. null_write' \in BOOLEAN /\ failed' = failed
    BY <1>4, <2>2 DEF history, Known, Flags
  <2> QED
    BY <1>2, <1>4, <2>9, <2>10, LooksAway DEF image
<1>5. CASE Fails /\ UNCHANGED <<frames, backed, firmware>>
  BY <1>2, <1>5, FailsStep DEF firmware, gathered
<1> QED
  BY <1>2, <1>3, <1>4, <1>5

(* The loop at header x puts k steps and the next header in front. *)
Inserted(k, x) ==
  /\ IsSeq(todo') /\ Len(todo) \in Nat /\ Len(todo') = Len(todo) + k
  /\ DOMAIN todo = 1..Len(todo) /\ DOMAIN todo' = 1..(Len(todo) + k)
  /\ todo'[k + 1] = Step("p_hdr", x + 1)
  /\ \A n \in 2..Len(todo) : todo'[n + k] = todo[n]

InsertedLoad(x) ==
  /\ Inserted(3, x)
  /\ todo'[1] = Step("pages", x) /\ todo'[2] = Efi("seek") /\ todo'[3] = Step("read", x)

LEMMA Inserts ==
  ASSUME IsSeq(todo), todo # <<>>, NEW x
  PROVE  /\ todo' = <<>> \o <<Step("p_hdr", x + 1)>> \o Tail(todo) => Inserted(0, x)
         /\ todo' = load_elf_segment_by_p_hdr(x) \o <<Step("p_hdr", x + 1)>> \o Tail(todo)
              => InsertedLoad(x)
<1>1. PICK t, p, e, l :
        /\ t = Tail(todo) /\ p = <<Step("p_hdr", x + 1)>> /\ e = <<>>
        /\ l = load_elf_segment_by_p_hdr(x)
  OBVIOUS
<1>2. /\ IsSeq(t) /\ Len(todo) \in Nat /\ Len(todo) >= 1 /\ DOMAIN todo = 1..Len(todo)
      /\ Len(t) = Len(todo) - 1 /\ \A n \in 1..(Len(todo) - 1) : t[n] = todo[n + 1]
  BY <1>1, TailOf
<1>3. IsSeq(p) /\ Len(p) = 1 /\ p[1] = Step("p_hdr", x + 1)
  BY <1>1, One
<1>4. IsSeq(e) /\ Len(e) = 0
  BY <1>1, SMTT(30) DEF IsSeq
<1>5. /\ IsSeq(l) /\ Len(l) = 3 /\ l[1] = Step("pages", x) /\ l[2] = Efi("seek") /\ l[3] = Step("read", x)
  BY <1>1, SMTT(30) DEF IsSeq, load_elf_segment_by_p_hdr
<1>6. ASSUME NEW h, IsSeq(h), NEW k \in Nat, Len(h) = k, todo' = h \o p \o t
      PROVE  Inserted(k, x) /\ \A n \in 1..k : todo'[n] = h[n]
  <2>1. PICK u : Joins(u, h, p)
    BY DEF Joins
  <2>2. JoinedOf(u, h, p)
    BY <1>3, <1>6, <2>1, JoinOf
  <2>3. IsSeq(u) /\ Len(u) = k + 1
    BY <1>3, <1>6, <2>2 DEF JoinedOf
  <2>4. (\A n \in 1..k : u[n] = h[n]) /\ u[k + 1] = Step("p_hdr", x + 1)
    BY <1>3, <1>6, <2>2, SMTT(30) DEF JoinedOf
  <2>5. PICK v : v = todo'
    OBVIOUS
  <2>6. Joins(v, u, t)
    BY <1>6, <2>1, <2>5 DEF Joins
  <2>7. JoinedOf(v, u, t)
    BY <1>2, <2>3, <2>6, JoinOf
  <2>8. IsSeq(v) /\ Len(v) = Len(todo) + k
    BY <1>2, <2>3, <2>7, SMTT(30) DEF JoinedOf
  <2>9. (\A n \in 1..k : v[n] = h[n]) /\ v[k + 1] = Step("p_hdr", x + 1)
    BY <2>3, <2>4, <2>7, SMTT(30) DEF JoinedOf
  <2>10. ASSUME NEW n \in 2..Len(todo) PROVE v[n + k] = todo[n]
    <3>1. n - 1 \in 1..Len(t) /\ n - 1 \in 1..(Len(todo) - 1) /\ (k + 1) + (n - 1) = n + k
          /\ (n - 1) + 1 = n
      BY <1>2, SMTT(30)
    <3>2. v[(k + 1) + (n - 1)] = t[n - 1]
      BY <2>3, <2>7, <3>1 DEF JoinedOf
    <3>3. t[n - 1] = todo[n]
      BY <1>2, <3>1
    <3> QED
      BY <3>1, <3>2, <3>3
  <2>11. DOMAIN v = 1..(Len(todo) + k)
    BY <2>8 DEF IsSeq
  <2> QED
    BY <1>2, <2>5, <2>8, <2>9, <2>10, <2>11 DEF Inserted
<1>7. ASSUME todo' = <<>> \o <<Step("p_hdr", x + 1)>> \o Tail(todo) PROVE Inserted(0, x)
  <2>1. todo' = e \o p \o t
    BY <1>1, <1>7
  <2>2. PICK k \in Nat : k = 0
    OBVIOUS
  <2>3. Inserted(k, x)
    BY <1>4, <1>6, <2>1, <2>2
  <2> QED
    BY <2>2, <2>3
<1>8. ASSUME todo' = load_elf_segment_by_p_hdr(x) \o <<Step("p_hdr", x + 1)>> \o Tail(todo)
      PROVE  InsertedLoad(x)
  <2>1. todo' = l \o p \o t
    BY <1>1, <1>8
  <2>2. Inserted(3, x) /\ \A n \in 1..3 : todo'[n] = l[n]
    BY <1>5, <1>6, <2>1
  <2> QED
    BY <1>5, <2>2, SMTT(30) DEF InsertedLoad
<1> QED
  BY <1>7, <1>8

(* A pass of the loop that does not end it. *)
LEMMA Loops ==
  ASSUME BootInv, At("p_hdr"), NEW x, x = arg, ~(x > Len(kernel.p_hdrs)),
         NEW k \in {0, 3}, Inserted(k, x),
         k = 0 => x \notin Segments(kernel),
         k = 3 => x \in Segments(kernel) /\ InsertedLoad(x),
         UNCHANGED <<files, main, held, image, firmware, gathered, services, events, history>>
  PROVE  BootInv'
<1>1. StepsOK /\ Ordered /\ AtHeader /\ Completed /\ Backed /\ KeyOfMap
  BY DEF BootInv
<1>2. Known /\ todo[1].op = "p_hdr" /\ x = todo[1].x /\ 1 \in DOMAIN todo /\ todo # <<>> /\ StepOK(todo[1])
  BY <1>1, Knows, AtFirst
<1>3. UNCHANGED <<kernel, magic, held, frames, backed, loaded, version, map_len, mmap_sz, mmap_key, main,
                  services, events, failed, null_write>>
  BY DEF history, files, gathered, image, firmware
<1>4. PICK len \in Nat : len = Len(kernel.p_hdrs) /\ DOMAIN kernel.p_hdrs = 1..len
  BY <1>2, KernelFacts DEF Known
<1>5. x \in 1..len /\ Segments(kernel) \subseteq 1..len
  <2>1. x \in 1..(len + 1)
    BY <1>2, <1>4 DEF StepOK, StepFor, Decisions
  <2> QED
    BY <1>2, <1>4, <2>1, KernelFacts, SMTT(30) DEF Known
<1>6. PICK L \in Nat :
        /\ L = Len(todo) /\ DOMAIN todo = 1..L /\ Len(todo') = L + k /\ DOMAIN todo' = 1..(L + k)
        /\ IsSeq(todo')
  BY DEF Inserted
<1>7. L > 3
  <2>1. 1 < L - 2
    BY <1>1, <1>2, <1>6 DEF Ordered
  <2> QED
    BY <2>1, SMTT(30)
<1>8. \A n \in 2..L : todo'[n + k] = todo[n] /\ n + k \in DOMAIN todo' /\ n \in DOMAIN todo
  BY <1>6, SMTT(30) DEF Inserted
<1>9. todo'[k + 1] = Step("p_hdr", x + 1) /\ k + 1 \in DOMAIN todo'
  BY <1>6, <1>7, SMTT(30) DEF Inserted
(* Where a step of todo' comes from. *)
<1>10. ASSUME NEW n \in DOMAIN todo'
       PROVE  \/ n = k + 1
              \/ n - k \in 2..L /\ todo'[n] = todo[n - k]
              \/ k = 3 /\ n = 1 /\ todo'[n] = Step("pages", x) /\ x \in Segments(kernel)
              \/ k = 3 /\ n = 2 /\ todo'[n] = Efi("seek")
              \/ k = 3 /\ n = 3 /\ todo'[n] = Step("read", x) /\ x \in Segments(kernel)
  <2>1. n \in 1..(L + k)
    BY <1>6
  <2>2. CASE n > k + 1
    <3>1. n - k \in 2..L /\ (n - k) + k = n
      BY <2>1, <2>2, SMTT(30)
    <3> QED
      BY <1>8, <3>1
  <2>3. CASE n < k + 1
    <3>1. k = 3 /\ (n = 1 \/ n = 2 \/ n = 3)
      BY <2>1, <2>3, SMTT(30)
    <3> QED
      BY <3>1 DEF InsertedLoad
  <2>4. n = k + 1 \/ n > k + 1 \/ n < k + 1
    BY <2>1, SMTT(30)
  <2> QED
    BY <2>2, <2>3, <2>4
<1>11. todo' # <<>>
  BY <1>9, SMTT(30)
<1>12. StepsOK'
  <2>1. ASSUME NEW n \in DOMAIN todo' PROVE StepOK(todo[n])'
    <3>1. CASE n = k + 1
      <4>1. x + 1 \in 1..(len + 1)
        BY <1>5, SMTT(30)
      <4> QED
        BY <1>3, <1>4, <1>9, <3>1, <4>1, NewSteps DEF StepOK
    <3>2. CASE n - k \in 2..L /\ todo'[n] = todo[n - k]
      <4>1. StepOK(todo[n - k])
        BY <1>1, <1>8, <3>2 DEF StepsOK
      <4> QED
        BY <1>3, <3>2, <4>1 DEF StepOK
    <3>3. CASE todo'[n] = Step("pages", x) /\ x \in Segments(kernel)
      BY <1>3, <3>3, NewSteps DEF StepOK
    <3>4. CASE todo'[n] = Efi("seek")
      BY <1>3, <3>4, NewSteps DEF StepOK
    <3>5. CASE todo'[n] = Step("read", x) /\ x \in Segments(kernel)
      BY <1>3, <3>5, NewSteps DEF StepOK
    <3> QED
      BY <1>10, <3>1, <3>2, <3>3, <3>4, <3>5
  <2> QED
    BY <1>6, <2>1 DEF StepsOK
<1>13. Ordered'
  <2>1. ASSUME NEW n \in DOMAIN todo'
        PROVE  /\ todo'[n].op = "jump" <=> n = L + k
               /\ todo'[n].op = "exit" <=> n = L + k - 1
               /\ todo'[n].op = "fill_memory_data" <=> n = L + k - 2
               /\ todo'[n].op \in {"memory_data", "get_map", "p_hdr", "pages", "read"} => n < L + k - 2
    <3>1. CASE n <= k + 1
      <4>1. n # L + k /\ n # L + k - 1 /\ n # L + k - 2 /\ n < L + k - 2 /\ ~(n - k \in 2..L)
        BY <1>6, <1>7, <3>1, SMTT(30)
      <4>2. todo'[n].op \in {"p_hdr", "pages", "efi", "read"}
        BY <1>9, <1>10, <4>1, SMTT(30) DEF Step, Efi
      <4> QED
        BY <4>1, <4>2
    <3>2. CASE n - k \in 2..L /\ todo'[n] = todo[n - k]
      <4>1. /\ todo[n - k].op = "jump" <=> n - k = L
            /\ todo[n - k].op = "exit" <=> n - k = L - 1
            /\ todo[n - k].op = "fill_memory_data" <=> n - k = L - 2
            /\ todo[n - k].op \in {"memory_data", "get_map", "p_hdr", "pages", "read"} => n - k < L - 2
        BY <1>1, <1>6, <1>8, <3>2 DEF Ordered
      <4>2. n \in Int
        BY <1>6, SMTT(30)
      <4>3. /\ n - k = L <=> n = L + k
            /\ n - k = L - 1 <=> n = L + k - 1
            /\ n - k = L - 2 <=> n = L + k - 2
            /\ n - k < L - 2 <=> n < L + k - 2
        BY <4>2, SMTT(30)
      <4> QED
        BY <3>2, <4>1, <4>3
    <3>3. n <= k + 1 \/ (n - k \in 2..L /\ todo'[n] = todo[n - k])
      <4>1. k + 1 <= k + 1 /\ (k = 3 => 1 <= k + 1 /\ 2 <= k + 1 /\ 3 <= k + 1)
        BY SMTT(30)
      <4> QED
        BY <1>10, <4>1
    <3> QED
      BY <3>1, <3>2, <3>3
  <2>2. ASSUME NEW n \in DOMAIN todo'
        PROVE  /\ todo'[n].op = "jump" <=> n = Len(todo')
               /\ todo'[n].op = "exit" <=> n = Len(todo') - 1
               /\ todo'[n].op = "fill_memory_data" <=> n = Len(todo') - 2
               /\ todo'[n].op \in {"memory_data", "get_map", "p_hdr", "pages", "read"}
                    => n < Len(todo') - 2
    <3>1. Len(todo') = L + k
      BY <1>6
    <3> QED
      BY <2>1, <3>1, SMTT(30)
  <2> QED
    BY <2>2 DEF Ordered
<1>14. AtHeader'
  <2>1. \A n \in 2..L : todo[n].op \notin {"p_hdr", "pages", "read"}
    <3> SUFFICES ASSUME NEW n \in 2..L, todo[n].op \in {"p_hdr", "pages", "read"} PROVE FALSE
      OBVIOUS
    <3>1. n \in DOMAIN todo /\ n # 1
      BY <1>8, SMTT(30)
    <3>2. todo[n].op # "p_hdr" /\ todo[n].op # "pages"
      BY <1>1, <1>2, <3>1 DEF AtHeader
    <3> QED
      BY <1>1, <1>2, <3>1, <3>2 DEF AtHeader, IsStep
  <2>2. ASSUME NEW n \in DOMAIN todo'
        PROVE  /\ todo'[n].op = "p_hdr" => n = k + 1
               /\ todo'[n].op = "pages" => k = 3 /\ n = 1
               /\ todo'[n].op = "read" => k = 3 /\ n = 3
    BY <1>9, <1>10, <2>1, SMTT(30) DEF Step, Efi
  <2>3. \A i \in Segments(kernel) : i >= x => backed[i] = {}
    BY <1>1, <1>2 DEF AtHeader
  <2>4. \A i \in Segments(kernel) : i >= x + 1 => backed[i] = {}
    <3> SUFFICES ASSUME NEW i \in Segments(kernel), i >= x + 1 PROVE i >= x
      BY <2>3
    <3>1. i \in Int /\ x \in Int
      BY <1>5, SMTT(30)
    <3> QED
      BY <3>1, SMTT(30)
  <2>5. todo'[k + 1].x = x + 1 /\ x < x + 1
    BY <1>5, <1>9, SMTT(30) DEF Step
  <2>6. k = 3 => /\ todo'[1].op = "pages" /\ todo'[1].x = x /\ todo'[2].op = "efi"
                 /\ todo'[3].x = x /\ backed[x] = {}
    <3>1. x >= x
      BY <1>5, SMTT(30)
    <3> QED
      BY <2>3, <3>1, SMTT(30) DEF InsertedLoad, Step, Efi
  <2>7. \A m, n \in DOMAIN todo' : todo'[m].op = "p_hdr" /\ todo'[n].op = "p_hdr" => m = n
    BY <2>2
  <2>8. \A n \in DOMAIN todo' : todo'[n].op = "p_hdr" =>
          \A i \in Segments(kernel) : i >= todo'[n].x => backed[i] = {}
    BY <2>2, <2>4, <2>5
  <2>9. \A n \in DOMAIN todo' : todo'[n].op = "pages" =>
          /\ n = 1 /\ backed[todo'[1].x] = {}
          /\ \A m \in DOMAIN todo' : todo'[m].op = "p_hdr" => todo'[1].x < todo'[m].x
    BY <2>2, <2>5, <2>6
  <2>10. \A n \in DOMAIN todo' : todo'[n].op = "read" =>
           n = 3 /\ IsStep(todo'[1], "pages", todo'[3].x) /\ todo'[2].op = "efi"
    BY <2>2, <2>6 DEF IsStep
  <2> QED
    BY <1>3, <2>7, <2>8, <2>9, <2>10 DEF AtHeader
<1>15. Completed'
  <2>1. ASSUME NEW n \in DOMAIN todo, todo[n].op # "p_hdr"
        PROVE  \E m \in DOMAIN todo' : todo'[m] = todo[n]
    <3>1. n \in 2..L
      BY <1>2, <1>6, <2>1, SMTT(30)
    <3> QED
      BY <1>8, <3>1
  <2>2. ASSUME NEW s \in Handed, s \notin held'
        PROVE  \E m \in DOMAIN todo' : IsStep(todo'[m], s.op, s.x)
    <3>1. PICK n \in DOMAIN todo : IsStep(todo[n], s.op, s.x)
      BY <1>1, <1>2, <1>3, <2>2 DEF Completed
    <3>2. s.op # "p_hdr"
      BY HandedOps
    <3> QED
      BY <2>1, <3>1, <3>2 DEF IsStep
  <2>3. ASSUME NEW i \in Segments(kernel), i \notin loaded'
        PROVE  \E m \in DOMAIN todo' :
                 IsStep(todo'[m], "read", i) \/ (todo'[m].op = "p_hdr" /\ todo'[m].x <= i)
    <3>1. PICK n \in DOMAIN todo :
            IsStep(todo[n], "read", i) \/ (todo[n].op = "p_hdr" /\ todo[n].x <= i)
      BY <1>1, <1>2, <1>3, <2>3 DEF Completed
    <3>2. CASE IsStep(todo[n], "read", i)
      BY <2>1, <3>1, <3>2 DEF IsStep
    <3>3. CASE todo[n].op = "p_hdr" /\ todo[n].x <= i
      <4>1. n = 1
        BY <1>1, <1>2, <3>1, <3>3 DEF AtHeader
      <4>2. x <= i /\ x \in Int /\ i \in Int
        BY <1>2, <1>5, <3>3, <4>1, SMTT(30)
      <4>3. CASE i = x
        <5>1. k = 3
          BY <2>3, <4>3
        <5>2. todo'[3] = Step("read", i) /\ 3 \in DOMAIN todo'
          BY <1>6, <4>3, <5>1, SMTT(30) DEF InsertedLoad
        <5> QED
          BY <5>2, SMTT(30) DEF IsStep, Step
      <4>4. CASE i # x
        <5>1. x + 1 <= i
          BY <4>2, <4>4, SMTT(30)
        <5>2. todo'[k + 1].op = "p_hdr" /\ todo'[k + 1].x <= i
          BY <1>9, <5>1, SMTT(30) DEF Step
        <5> QED
          BY <1>9, <5>2
      <4> QED
        BY <4>3, <4>4
    <3> QED
      BY <3>1, <3>2, <3>3
  <2>4. ASSUME AllocatePool("memory_data") \notin held'
        PROVE  \E m \in DOMAIN todo' : todo'[m].op \in {"memory_data", "fill_memory_data"}
    <3>1. PICK n \in DOMAIN todo : todo[n].op \in {"memory_data", "fill_memory_data"}
      BY <1>1, <1>2, <1>3, <2>4 DEF Completed
    <3> QED
      BY <2>1, <3>1
  <2>5. ASSUME AllocatePool("memory_data") \notin held', ~failed'
        PROVE  \E m \in DOMAIN todo' : todo'[m].op = "memory_data"
    <3>1. PICK n \in DOMAIN todo : todo[n].op = "memory_data"
      BY <1>1, <1>2, <1>3, <2>5 DEF Completed
    <3> QED
      BY <2>1, <3>1
  <2>6. ASSUME ~(mmap_sz' > 0)
        PROVE  \E m \in DOMAIN todo' : todo'[m].op = "get_map"
    <3>1. PICK n \in DOMAIN todo : todo[n].op = "get_map"
      BY <1>1, <1>2, <1>3, <2>6 DEF Completed
    <3> QED
      BY <2>1, <3>1
  <2>7. ~null_write'
    BY <1>2, <1>3 DEF Known
  <2>8. Handed' = Handed /\ Segments(kernel)' = Segments(kernel)
    BY <1>3 DEF Handed
  <2> QED
    BY <2>2, <2>3, <2>4, <2>5, <2>6, <2>7, <2>8 DEF Completed
<1>16. services = TRUE /\ main \in {"load", "start"}
  BY <1>2, Running
<1>17. TypeOK'
  <2>1. TypeOK
    BY DEF BootInv
  <2> QED
    BY <1>3, <1>11, <1>16, <2>1 DEF TypeOK
<1>18. Backed'
  <2>1. \A i : RunOf(i)' = RunOf(i)
    BY <1>3 DEF RunOf
  <2> QED
    BY <1>1, <1>3, <2>1 DEF Backed
<1>19. KeyOfMap'
  <2>1. todo'[1].op # "jump"
    <3>1. 1 \in DOMAIN todo' /\ 1 # Len(todo')
      BY <1>6, <1>7, SMTT(30)
    <3> QED
      BY <1>13, <3>1 DEF Ordered
  <2> QED
    BY <1>1, <1>3, <1>16, <2>1 DEF KeyOfMap
<1>20. StartsComplete' /\ StopsForCause' /\ main' # "kernel"
  BY <1>3, <1>16 DEF StartsComplete, StopsForCause, Returned
<1> QED
  BY <1>12, <1>13, <1>14, <1>15, <1>17, <1>18, <1>19, <1>20 DEF BootInv

LEMMA LoadSegmentsStep == ASSUME BootInv, LoadSegments PROVE BootInv'
<1>1. /\ At("p_hdr")
      /\ UNCHANGED <<files, main, held, image, firmware, gathered, services, events, history>>
  BY DEF LoadSegments
<1>2. PICK x : x = arg
  OBVIOUS
<1>3. StepsOK /\ IsSeq(todo)
  BY DEF BootInv, StepsOK
<1>4. Known /\ todo # <<>> /\ todo[1].op = "p_hdr" /\ x = todo[1].x
  BY <1>1, <1>2, <1>3, Knows, AtFirst
<1>5. CASE x > Len(kernel.p_hdrs)
  <2>1. todo' = Tail(todo)
    BY <1>2, <1>5 DEF LoadSegments
  <2>2. UNCHANGED <<kernel, magic, held, frames, backed, loaded, version, map_len, mmap_sz, mmap_key,
                    main, services, events, failed, null_write>>
    BY <1>1 DEF files, image, firmware, gathered, history
  <2>3. Flags' /\ ~null_write' /\ (failed => failed')
    BY <1>4, <2>2 DEF Known, Flags
  <2>4. Numbers' /\ Keyed'
    BY <1>4, <2>2 DEF Known, Numbers, Keyed
  <2>5. Progress
    BY <1>4, <1>5, <2>2, <2>3 DEF Progress
  <2> QED
    BY <1>1, <1>4, <2>1, <2>2, <2>3, <2>4, <2>5, GoesOn DEF Known
<1>6. CASE ~(x > Len(kernel.p_hdrs)) /\ x \in Segments(kernel)
  <2>1. todo' = load_elf_segment_by_p_hdr(x) \o <<Step("p_hdr", x + 1)>> \o Tail(todo)
    BY <1>2, <1>6 DEF LoadSegments
  <2>2. InsertedLoad(x) /\ Inserted(3, x)
    BY <1>3, <1>4, <2>1, Inserts DEF InsertedLoad
  <2>3. PICK k \in {0, 3} : k = 3
    OBVIOUS
  <2>4. Inserted(k, x) /\ k # 0
    BY <2>2, <2>3, SMTT(30)
  <2> QED
    BY <1>1, <1>2, <1>6, <2>2, <2>4, Loops
<1>7. CASE ~(x > Len(kernel.p_hdrs)) /\ x \notin Segments(kernel)
  <2>1. todo' = <<>> \o <<Step("p_hdr", x + 1)>> \o Tail(todo)
    BY <1>2, <1>7 DEF LoadSegments
  <2>2. Inserted(0, x)
    BY <1>3, <1>4, <2>1, Inserts
  <2>3. PICK k \in {0, 3} : k = 0
    OBVIOUS
  <2>4. Inserted(k, x) /\ k # 3
    BY <2>2, <2>3, SMTT(30)
  <2> QED
    BY <1>1, <1>2, <1>7, <2>4, Loops
<1> QED
  BY <1>5, <1>6, <1>7

-----------------------------------------------------------------------------
(* The invariant holds in every state.                                     *)

LEMMA BootInvStep == ASSUME BootInv, [Next]_vars PROVE BootInv'
<1>1. CASE UNCHANGED vars
  <2>1. UNCHANGED <<kernel, magic, todo, main, held, frames, backed, loaded, version, map_len, mmap_sz,
                    mmap_key, services, events, failed, null_write>>
    BY <1>1 DEF vars, files, image, firmware, gathered, history
  <2>2. /\ TypeOK'
        /\ StepsOK'
        /\ Ordered'
    <3>1. TypeOK'
      BY <2>1 DEF BootInv, TypeOK
    <3>2. StepsOK'
      BY <2>1 DEF BootInv, StepsOK, StepOK
    <3>3. Ordered'
      BY <2>1 DEF BootInv, Ordered
    <3> QED
      BY <3>1, <3>2, <3>3
  <2>3. AtHeader' /\ Backed'
    BY <2>1 DEF BootInv, AtHeader, Backed, RunOf
  <2>4. Completed' /\ KeyOfMap'
    BY <2>1 DEF BootInv, Completed, KeyOfMap, Handed
  <2>5. StartsComplete' /\ (main' = "kernel" => ~services')
    BY <2>1 DEF BootInv, StartsComplete
  <2>6. StopsForCause'
    BY <2>1 DEF BootInv, StopsForCause, Returned, Adjacent
  <2> QED
    BY <2>2, <2>3, <2>4, <2>5, <2>6 DEF BootInv
<1>2. CASE Rest
  BY <1>1, <1>2 DEF Rest
<1> QED
  BY <1>1, <1>2, CallEfiStep, CallAllocatePoolStep, VerifyElfStep, LoadSegmentsStep,
     AllocateSegmentStep, ReadSegmentStep, VerifyPsfStep, StartStep, AllocateMemoryDataStep,
     SizeMapStep, GetMapStep, FillMemoryDataStep, ExitStep, JumpStep, FirmwareEventStep
     DEF Next, Loader

(* In every state of every run of the bootloader the steps that are left   *)
(* complete what has been done, in the order efi_main has them.            *)
THEOREM BootInvHolds == Spec => []BootInv
<1>1. Init => BootInv
  BY BootInitial
<1>2. BootInv /\ [Next]_vars => BootInv'
  BY BootInvStep
<1> QED
  BY <1>1, <1>2, PTL DEF Spec

(* The kernel is entered only with all its segments read and everything it *)
(* is handed obtained (start_kernel), whatever the firmware reports and    *)
(* whatever program headers the file has.                                  *)
THEOREM StartsCompleteAlways == Spec => []StartsComplete
<1>1. BootInv => StartsComplete
  BY DEF BootInv
<1> QED
  BY <1>1, BootInvHolds, PTL

(* The kernel is entered without the boot services and with the memory map *)
(* in force, and after ExitBootServices no service is called.              *)
THEOREM StartsOnCurrentMapAlways == Spec => []StartsOnCurrentMap
<1>1. BootInv => StartsOnCurrentMap
  BY DEF BootInv, KeyOfMap, StartsOnCurrentMap
<1> QED
  BY <1>1, BootInvHolds, PTL

(* A segment is read into frames that were allocated for it and for no     *)
(* other segment (load_elf_segment_by_p_hdr), for every page size and      *)
(* every segment of less than 2^16 pages.                                  *)
THEOREM ReadsInsideSegmentAlways == Spec => []ReadsInsideSegment
<1>1. BootInv => ReadsInsideSegment
  <2> SUFFICES ASSUME BootInv PROVE ReadsInsideSegment
    OBVIOUS
  <2>1. TypeOK /\ Backed /\ kernel \in Kernels /\ loaded \subseteq Segments(kernel)
    BY DEF BootInv, TypeOK
  <2>2. ASSUME NEW i \in loaded
        PROVE  FrameRun(kernel.p_hdrs[i].page, CeilPages(kernel.p_hdrs[i].filesz)) \subseteq backed[i]
    <3>1. backed[i] = RunOf(i)
      BY <2>1 DEF Backed
    <3> QED
      BY <2>1, <3>1, RunCovers
  <2> QED
    BY <2>1, <2>2 DEF ReadsInsideSegment, Backed
<1> QED
  BY <1>1, BootInvHolds, PTL

(* efi_main returns only for a cause: an error of a service, a memory map  *)
(* that moved, two segments in adjacent pages, a bad header, or memory     *)
(* that holds ELFMAG where the check of the kernel looks.                  *)
THEOREM StopsForCauseAlways == Spec => []StopsForCause
<1>1. BootInv => StopsForCause
  BY DEF BootInv
<1> QED
  BY <1>1, BootInvHolds, PTL
=============================================================================
