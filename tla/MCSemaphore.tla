---------------------------- MODULE MCSemaphore ----------------------------
(***************************************************************************)
(* An instance of Semaphore for TLC: binary and counting semaphores, and   *)
(* the arguments hrt_sem_init_counting clamps.                             *)
(***************************************************************************)
EXTENDS Semaphore

FewTokens == {[init |-> i, max |-> m] : i \in 0 .. 3, m \in 0 .. 2}
=============================================================================
