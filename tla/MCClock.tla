------------------------------ MODULE MCClock ------------------------------
(***************************************************************************)
(* Instance of Clock for TLC.                                              *)
(***************************************************************************)
EXTENDS Clock

Timer(kind, clock, hz) == [kind |-> kind, clock |-> clock, hz |-> hz]

(* Ticks of 2, 2.5 and 5 ms, one whose length is not a whole number of   *)
(* units, one too long for the reload register and one too short for it.    *)
BothPorts ==
  {Timer(k, 2000, hz) : k \in {"systick", "sigalrm"}, hz \in {200, 300, 400, 500}}
    \cup {Timer("systick", 2000, 40), Timer("systick", 2000, 4000)}

(* A tick of exactly 2 ms on each port.                                     *)
WholeTicks == {Timer(k, 2000, 500) : k \in {"systick", "sigalrm"}}
=============================================================================
