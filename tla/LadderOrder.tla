---------------------------- MODULE LadderOrder ----------------------------
(***************************************************************************)
(* What the order of init(), of its error paths and of exit() has to be    *)
(* for a driver to keep the properties of ModuleLadder: conditions on the  *)
(* ladder alone, which a reader of the driver can go through line by line. *)
(* ModuleLadderProofs shows that they are enough.                          *)
(***************************************************************************)
EXTENDS ModuleLadder

\* What the first i steps of init() may have taken, and what they have taken if init() goes on.
May(d, i) == UNION {Ladder[d].init[j].takes : j \in 1 .. i}
Surely(d, i) ==
    UNION {Ladder[d].init[j].takes : j \in {k \in 1 .. i : Ladder[d].init[k].on_error # "ignored"}}

\* The ways a driver ends: the error path of a step of init() after those before it, or exit().
Endings(d) ==
    LET init == Ladder[d].init
    IN  {[after |-> i - 1, list |-> init[i].undo, exit |-> FALSE] :
            i \in {j \in DOMAIN init : init[j].on_error = "undo"}}
        \cup {[after |-> Len(init), list |-> Ladder[d].exit, exit |-> TRUE]}

\* What the first k releases of an ending release.
Released(w, k) == {w.list[j] : j \in 1 .. k}
AllReleased(w) == Released(w, Len(w.list))

\* The code behind entry point e of driver d.
UsesOf(d, e) == IF e \in DOMAIN Ladder[d].uses THEN Ladder[d].uses[e] ELSE {}

\* The entry points that a step which takes the resources rs may open: with the interrupt, the
\* bottom halves of the driver.
Opens(d, rs) ==
    (rs \cap EntryPoints)
    \cup (IF "irq" \in rs THEN Bottoms \cap DOMAIN Ladder[d].uses ELSE {})

\* No call of e runs, nor begins, once the first k releases of w are over: an entry point was
\* released and waited for, a bottom half waited for after the interrupt that schedules it was
\* released, and no file is open when the exit() of a module begins that releases it.
Stopped(d, w, k, e) ==
    \/ /\ e \in Direct \cup Autonomous
       /\ e \in Released(w, k) /\ e \in Awaits(e)
    \/ /\ e \in Bottoms
       /\ \E j \in 1 .. k : e \in Awaits(w.list[j]) /\ "irq" \in Released(w, j)
    \/ /\ e \in Files
       /\ Ladder[d].owned /\ w.exit /\ e \in AllReleased(w)
-----------------------------------------------------------------------------
\* The conditions.  Each release is of something that was surely taken, once, and that
\* the core does not release too.
ReleasesInOrder(d) ==
    \A w \in Endings(d) : \A k \in DOMAIN w.list :
        /\ w.list[k] \in Idempotent \/ w.list[k] \in Surely(d, w.after) \ Released(w, k - 1)
        /\ w.list[k] \notin Ladder[d].devm

\* What a resource stands on is surely taken before it, and released after it.
BasesInOrder(d) ==
    /\ \A i \in DOMAIN Ladder[d].init : \A r \in Ladder[d].init[i].takes :
           BuiltOn(r) \cap Taken(d) \subseteq Surely(d, i)
    /\ \A w \in Endings(d) : \A r \in May(d, w.after) :
           /\ \A k \in DOMAIN w.list : w.list[k] \in BuiltOn(r) => r \in Released(w, k - 1)
           /\ BuiltOn(r) \cap Ladder[d].devm # {} => r \in AllReleased(w)

\* What an entry point uses is surely taken before it, and released when it is stopped.
UsesInOrder(d) ==
    /\ \A i \in DOMAIN Ladder[d].init : \A e \in Opens(d, Ladder[d].init[i].takes) :
           UsesOf(d, e) \subseteq Surely(d, i)
    /\ \A w \in Endings(d) : \A e \in Opens(d, May(d, w.after)) :
           /\ \A k \in DOMAIN w.list : w.list[k] \in UsesOf(d, e) => Stopped(d, w, k - 1, e)
           /\ UsesOf(d, e) \cap (Ladder[d].devm \cup Static) # {} =>
                  Stopped(d, w, Len(w.list), e)

\* Every ending releases all that may have been taken and stops all that may run, but files.
EndsClean(d) ==
    \A w \in Endings(d) :
        /\ May(d, w.after) \subseteq AllReleased(w) \cup Ladder[d].devm \cup Static
        /\ \A e \in Opens(d, May(d, w.after)) \ Files : Stopped(d, w, Len(w.list), e)
=============================================================================
