--------------------------- MODULE MCEventSelect ----------------------------
(***************************************************************************)
(* EventSelect with a process in select() and a plain reader on the same   *)
(* CPU, a second CPU free for the handler, and an array that fills up.     *)
(***************************************************************************)
EXTENDS EventSelect, TLC

CONSTANTS r1, r2, c1, c2

MCCpuOf == r1 :> c1 @@ r2 :> c1
=============================================================================
