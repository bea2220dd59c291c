----------------------------- MODULE MCConsole -----------------------------
(* A screen of 2 rows and 3 columns. *)
EXTENDS Console

MCTexts == {<<"a">>, <<"b", "LF">>, <<"HT">>, <<"c", "CR">>}
MCKeys == {"k", "LF", "BS", "ESC"}
=============================================================================
