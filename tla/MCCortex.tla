------------------------------ MODULE MCCortex ------------------------------
(***************************************************************************)
(* Instances of CortexApps for TLC.                                        *)
(***************************************************************************)
EXTENDS CortexApps

BoardApps == {h755_demo, h755_blinky, h755_blinky_cpp, dwt_timing}

Measuring == {dwt_timing}

(* Two tasks that compute, of one priority and with a quantum of one tick.  *)
Computing == {<< task(0, 1, "spin", 0), task(0, 1, "spin", 0) >>}
=============================================================================
