----------------------------- MODULE MCNetPair ------------------------------
(***************************************************************************)
(* NetPair with frames that are too short, fit, and are too long by the    *)
(* ethernet header.                                                        *)
(***************************************************************************)
EXTENDS NetPair, TLC
=============================================================================
