------------------------------- MODULE MCFpga -------------------------------
(***************************************************************************)
(* Fpga with two processes on the module MEM and one switch; a second      *)
(* probe() meets what the first one left.                                  *)
(***************************************************************************)
EXTENDS Fpga, TLC

CONSTANTS u1, u2, s1
=============================================================================
