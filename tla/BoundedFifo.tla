----------------------------- MODULE BoundedFifo -----------------------------
(***************************************************************************)
(* What the queueing drivers promise: entries are numbered in the order in *)
(* which they arrive, and leave in that order, each once.  The interrupt-  *)
(* fed drivers may forget an arrival, when the table is full and only then *)
(* (FifoSpec); a driver whose producers can wait may not (LosslessSpec).   *)
(***************************************************************************)
EXTENDS Naturals, Sequences

CONSTANT Capacity      \* EXAMPLE_ARRAY_SIZE, MSG_NB_MAX

VARIABLES fifo,        \* the entries that have not left yet, oldest first
          arrived,     \* how many arrived so far
          taken        \* those that left, in the order they did

fifoVars == <<fifo, arrived, taken>>

FifoInit ==
    /\ fifo = <<>>
    /\ arrived = 0
    /\ taken = <<>>

Record ==
    /\ Len(fifo) < Capacity
    /\ fifo' = Append(fifo, arrived + 1)
    /\ arrived' = arrived + 1
    /\ UNCHANGED taken

\* A full table is the only reason to forget an arrival.
Forget ==
    /\ Len(fifo) = Capacity
    /\ arrived' = arrived + 1
    /\ UNCHANGED <<fifo, taken>>

Take ==
    /\ fifo # <<>>
    /\ taken' = Append(taken, Head(fifo))
    /\ fifo' = Tail(fifo)
    /\ UNCHANGED arrived

FifoNext == Record \/ Forget \/ Take

FifoSpec == FifoInit /\ [][FifoNext]_fifoVars

LosslessNext == Record \/ Take

LosslessSpec == FifoInit /\ [][LosslessNext]_fifoVars
=============================================================================
