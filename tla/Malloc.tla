------------------------------- MODULE Malloc -------------------------------
(***************************************************************************)
(* What the kernel heap promises: malloc(b) returns the address of b bytes *)
(* that overlap no allocation in use, and free(p) ends the allocation that *)
(* starts at p.  The heap may also stop the kernel.                        *)
(***************************************************************************)
EXTENDS Integers

VARIABLES live,      \* function: address of an allocation -> bytes asked for
          stopped

lvars == <<live, stopped>>

Bytes(p) == p..(p + live[p] - 1)

Init == live = [p \in {} |-> 0] /\ stopped = FALSE

DoMalloc ==
  /\ ~stopped /\ stopped' = FALSE
  /\ \E p \in DOMAIN live' :
       /\ p # 0 /\ p \notin DOMAIN live
       /\ DOMAIN live' = DOMAIN live \cup {p}
       /\ live'[p] > 0
       /\ \A q \in DOMAIN live : /\ live'[q] = live[q]
                                 /\ p..(p + live'[p] - 1) \cap Bytes(q) = {}

DoFree ==
  /\ ~stopped /\ stopped' = FALSE
  /\ \E p \in DOMAIN live : live' = [q \in DOMAIN live \ {p} |-> live[q]]

Stop == ~stopped /\ stopped' = TRUE /\ UNCHANGED live

Next == DoMalloc \/ DoFree \/ Stop

Spec == Init /\ [][Next]_lvars
=============================================================================
