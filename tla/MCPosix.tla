------------------------------ MODULE MCPosix ------------------------------
(***************************************************************************)
(* Instances of PosixPort for TLC.                                         *)
(***************************************************************************)
EXTENDS PosixPort

Attr(p, s) == [prio |-> p, slice |-> s]

(* Tasks of two priorities, the first with a quantum of one tick.           *)
TwoClasses == {Attr(0, 1), Attr(1, 0)}
OneTick == {Attr(0, 1)}
=============================================================================
