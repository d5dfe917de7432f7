--------------------------- MODULE MCMessageQueue ---------------------------
(***************************************************************************)
(* MessageQueue on small instances, named in the .cfg files.               *)
(***************************************************************************)
EXTENDS MessageQueue, TLC

CONSTANTS p1, p2, q1, q2

\* The processes of a side are interchangeable: for runs without liveness.
Symmetry == Permutations({p1, p2}) \cup Permutations({q1, q2})
=============================================================================
