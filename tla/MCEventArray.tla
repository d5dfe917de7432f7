---------------------------- MODULE MCEventArray ----------------------------
(***************************************************************************)
(* EventArray on small instances.  MCEventArray.cfg: two blocking readers  *)
(* that share a CPU and a non-blocking one on a second CPU, an array of    *)
(* two slots and four interrupts, so that the array fills up, drops,       *)
(* empties and fills again.  MCEventArrayLive.cfg: two blocking readers on *)
(* one of two CPUs and three interrupts, for the liveness properties.      *)
(***************************************************************************)
EXTENDS EventArray, TLC

CONSTANTS r1, r2, r3, c1, c2

MCCpuOf == r1 :> c1 @@ r2 :> c1 @@ r3 :> c2
MCCpuOfTwo == r1 :> c1 @@ r2 :> c1
=============================================================================
