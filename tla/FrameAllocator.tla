--------------------------- MODULE FrameAllocator ---------------------------
(***************************************************************************)
(* What the physical frame allocator promises to Paging and Heap: it opens *)
(* once with some set of available frames, and it answers a request for k  *)
(* frames in one step with k consecutive available ones, or the kernel     *)
(* stops.  The promise ends when a client overwrites the allocator's own   *)
(* memory (`broken').                                                      *)
(***************************************************************************)
EXTENDS Integers, FiniteSets

VARIABLES
  phase,        \* "closed", "idle", "asked" or "dead"
  ask,          \* the number of frames asked for, 0 when not "asked"
  avail,        \* frames that may be handed out
  taken,        \* frames held by clients
  broken

fvars == <<phase, ask, avail, taken, broken>>

Init == /\ phase = "closed" /\ ask = 0
        /\ avail = {} /\ taken = {} /\ broken = FALSE

(* Frame 0 is never available: its address is nullptr. *)
Open == /\ phase = "closed" /\ phase' = "idle"
        /\ avail' \subseteq Nat \ {0} /\ avail' # {}
        /\ UNCHANGED <<ask, taken, broken>>

Ask == /\ phase = "idle" /\ phase' = "asked"
       /\ ask' \in Nat \ {0}
       /\ UNCHANGED <<avail, taken, broken>>

Answer == /\ phase = "asked" /\ phase' = "idle"
          /\ \E first \in avail :
               LET run == first..(first + ask - 1)
               IN  /\ run \subseteq avail
                   /\ avail' = avail \ run
                   /\ taken' = taken \cup run
          /\ ask' = 0 /\ UNCHANGED broken

(* A failing ASSERT, in the allocator or in its caller. *)
Fail == /\ phase # "dead" /\ phase' = "dead"
        /\ ask' = 0 /\ UNCHANGED <<avail, taken, broken>>

Release == /\ phase = "idle"
           /\ \E f \in taken : avail' = avail \cup {f} /\ taken' = taken \ {f}
           /\ UNCHANGED <<phase, ask, broken>>

(* A client overwrites the allocator's memory; anything may follow. *)
Break == phase = "idle" /\ broken' = TRUE
Chaos == broken = TRUE /\ broken' = TRUE

Next == Open \/ Ask \/ Answer \/ Fail \/ Release \/ Break \/ Chaos

(* The part of the promise that says what may happen. *)
Safety == Init /\ [][Next]_fvars

(* A request is answered or the kernel stops. *)
Spec == Safety /\ WF_fvars(phase = "asked" /\ (Answer \/ Fail))
=============================================================================
