--------------------------- MODULE MCBootloader ---------------------------
(* Kernel files in pages of 4 bytes. *)
EXTENDS Bootloader

Seg(page, filesz, memsz) == [load |-> TRUE, page |-> page, filesz |-> filesz, memsz |-> memsz]
Note == [load |-> FALSE, page |-> 0, filesz |-> 1, memsz |-> 1]
Elf(segs) == [valid |-> TRUE, low |-> FALSE, p_hdrs |-> segs]

\* text and data apart, with a header that is not loaded
Plain == Elf(<<Seg(2, 7, 7), Note, Seg(5, 3, 3)>>)
\* the first segment fills its pages and the second follows
Full == Elf(<<Seg(2, 8, 8), Seg(4, 3, 3)>>)
\* zero-initialised data that takes pages of its own
Bss == Elf(<<Seg(2, 5, 5), Seg(4, 3, 9)>>)
\* not an x86-64 executable
Other == [Plain EXCEPT !.valid = FALSE]
\* what the check of the header refuses
Refused == [Plain EXCEPT !.low = TRUE]

MCKernels == {Plain, Full, Bss, Other, Refused}
MCMagics == {<<54, 4>>, <<4, 54>>, <<0, 0>>}
===========================================================================
