-------------------------- MODULE EventArrayProofs --------------------------
(***************************************************************************)
(* Proofs about EventArray, for any number of readers and CPUs, any array  *)
(* size and any number of interrupts.                                      *)
(*                                                                         *)
(* The inductive invariant Inv adds to the properties of EventArray what   *)
(* they rest on: who masks the interrupts of a CPU (MaskInv), who holds    *)
(* the lock (LockInv), and what is known of the array and its length       *)
(* between the steps of a critical section (SectionInv).                   *)
(***************************************************************************)
EXTENDS EventArray, TableLemmas

Masked(r) == pc[r] \in {"spin", "test", "peek", "shift", "unlock"}

MaskInv ==
    /\ \A r \in Readers : Masked(r) => irqs_off[CpuOf[r]] = r
    /\ hcpu = None <=> hpc = "idle"
    /\ hcpu # None => irqs_off[hcpu] = None

LockInv ==
    /\ \A r \in Readers : Critical(r) => example_array_spl
    /\ HandlerCritical => example_array_spl
    /\ ArrayExclusive

SectionInv ==
    /\ \A r \in Readers : pc[r] \in {"peek", "shift"} => example_array_end # 0
    /\ \A r \in Readers : pc[r] = "shift" => value[r] = example_array[0]
    /\ hpc = "incr" => /\ example_array_end < EXAMPLE_ARRAY_SIZE
                       /\ example_array[example_array_end] = interrupts
    /\ hpc # "idle" => interrupts # 0

\* What the lemmas need of the types: the places a reader can be in are left open, so that they hold
\* for a driver whose processes make other calls as well (EventSelectProofs).
CoreTypes ==
    /\ example_array \in [Slots -> Nat]
    /\ example_array_end \in 0 .. EXAMPLE_ARRAY_SIZE
    /\ irqs_off \in [Cpus -> Readers \cup {None}]
    /\ pc = [r \in Readers |-> pc[r]]
    /\ value \in [Readers -> Nat]
    /\ hpc \in {"idle", "spin", "store", "incr", "unlock", "wake"}
    /\ hcpu \in Cpus \cup {None}
    /\ interrupts \in Nat

Inv == TypeOK /\ MaskInv /\ LockInv /\ SectionInv /\ NoLostWakeup

-----------------------------------------------------------------------------
\* The initial state, an empty array and an idle driver, satisfies the invariant.
LEMMA InitInv == Init => Inv
<1> SUFFICES ASSUME Init PROVE Inv
  OBVIOUS
<1> USE SizeAssumption, CpusAssumption, ReadersAssumption DEF Init
<1>1. TypeOK
  <2>1. taken \in Seq(Nat)
    OBVIOUS
  <2>2. example_array_end \in 0 .. EXAMPLE_ARRAY_SIZE
    OBVIOUS
  <2>3. QED
    BY <2>1, <2>2 DEF TypeOK, Slots
<1>2. MaskInv
  BY DEF MaskInv, Masked
<1>3. LockInv /\ SectionInv /\ NoLostWakeup
  BY DEF LockInv, SectionInv, NoLostWakeup, ArrayExclusive, Critical, HandlerCritical
<1> QED
  BY <1>1, <1>2, <1>3 DEF Inv

\* A step keeps the types: the length neither underflows nor passes the array.
LEMMA TypeStep ==
    ASSUME TypeOK, SectionInv, [Next]_vars
    PROVE  TypeOK'
<1> USE ReadersAssumption, CpusAssumption, SizeAssumption DEF TypeOK, SectionInv, Slots
<1>1. ASSUME NEW r \in Readers, Call(r) PROVE TypeOK'
  BY <1>1 DEF Call, At, CanRun, Goto, handlerVars, arrayVars
<1>2. ASSUME NEW r \in Readers, Signal(r) PROVE TypeOK'
  BY <1>2 DEF Signal, CanRun, Goto, handlerVars, arrayVars
<1>3. ASSUME NEW r \in Readers, IrqSave(r) PROVE TypeOK'
  BY <1>3 DEF IrqSave, At, CanRun, Goto, handlerVars, arrayVars
<1>4. ASSUME NEW r \in Readers, SpinAcquire(r) PROVE TypeOK'
  BY <1>4 DEF SpinAcquire, At, CanRun, Goto, handlerVars, arrayVars
<1>5. ASSUME NEW r \in Readers, FindEmpty(r) PROVE TypeOK'
  BY <1>5 DEF FindEmpty, At, CanRun, Goto, UnlockIrqRestore, handlerVars, arrayVars
<1>6. ASSUME NEW r \in Readers, FindEvent(r) PROVE TypeOK'
  BY <1>6 DEF FindEvent, At, CanRun, Goto, handlerVars, arrayVars
<1>7. ASSUME NEW r \in Readers, Peek(r) PROVE TypeOK'
  BY <1>7 DEF Peek, At, CanRun, Goto, handlerVars, arrayVars
<1>8. ASSUME NEW r \in Readers, Shift(r) PROVE TypeOK'
  BY <1>8 DEF Shift, At, CanRun, Goto, handlerVars
<1>9. ASSUME NEW r \in Readers, Unlock(r) PROVE TypeOK'
  BY <1>9 DEF Unlock, At, CanRun, Goto, UnlockIrqRestore, handlerVars, arrayVars
<1>10. ASSUME NEW r \in Readers, Return(r) PROVE TypeOK'
  BY <1>10 DEF Return, At, CanRun, Goto, handlerVars, arrayVars
<1>11. ASSUME NEW r \in Readers, TryAgain(r) PROVE TypeOK'
  BY <1>11 DEF TryAgain, At, CanRun, Goto, handlerVars, arrayVars
<1>12. ASSUME NEW r \in Readers, WaitEvent(r) PROVE TypeOK'
  BY <1>12 DEF WaitEvent, At, CanRun, Goto, handlerVars, arrayVars
<1>13. ASSUME NEW r \in Readers, PrepareToWait(r) PROVE TypeOK'
  BY <1>13 DEF PrepareToWait, At, CanRun, Goto, handlerVars, arrayVars
<1>14. ASSUME NEW r \in Readers, CheckCondition(r) PROVE TypeOK'
  BY <1>14 DEF CheckCondition, At, CanRun, Goto, handlerVars, arrayVars
<1>15. ASSUME NEW r \in Readers, WakeUp(r) PROVE TypeOK'
  BY <1>15 DEF WakeUp, At, CanRun, Goto, handlerVars, arrayVars
<1>16. ASSUME NEW r \in Readers, Interrupted(r) PROVE TypeOK'
  BY <1>16 DEF Interrupted, At, CanRun, Goto, handlerVars, arrayVars
<1>17. ASSUME NEW c \in Cpus, Interrupt(c) PROVE TypeOK'
  BY <1>17 DEF Interrupt, readerVars, arrayVars
<1>18. CASE HandlerAcquire
  BY <1>18 DEF HandlerAcquire, readerVars, arrayVars
<1>19. CASE HandlerStore
  BY <1>19 DEF HandlerStore, readerVars
<1>20. CASE HandlerDrop
  BY <1>20 DEF HandlerDrop, readerVars, arrayVars
<1>21. CASE HandlerIncrement
  BY <1>21 DEF HandlerIncrement, readerVars
<1>22. CASE HandlerUnlock
  BY <1>22 DEF HandlerUnlock, readerVars, arrayVars
<1>23. CASE HandlerWake
  BY <1>23 DEF HandlerWake, readerVars, arrayVars
<1>24. CASE UNCHANGED vars
  BY <1>24 DEF vars
<1> HIDE DEF TypeOK, SectionInv, Slots
<1>25. QED
  BY <1>1, <1>2, <1>3, <1>4, <1>5, <1>6, <1>7, <1>8, <1>9, <1>10, <1>11, <1>12, <1>13,
       <1>14, <1>15, <1>16, <1>17, <1>18, <1>19, <1>20, <1>21, <1>22, <1>23, <1>24 DEF Next,
       ReadStep, HandlerStep

\* CoreTypes says less than TypeOK.
LEMMA TypesImplyCore ==
    ASSUME TypeOK
    PROVE  CoreTypes
  BY DEF TypeOK, CoreTypes

\* A step keeps the account of who masks which CPU.
LEMMA MaskStep ==
    ASSUME CoreTypes, MaskInv, [Next]_vars
    PROVE  MaskInv'
<1> USE ReadersAssumption, CpusAssumption, SizeAssumption DEF CoreTypes, MaskInv, Masked
<1>1. ASSUME NEW r \in Readers, Call(r) PROVE MaskInv'
  BY <1>1 DEF Call, At, CanRun, Goto, handlerVars, arrayVars
<1>2. ASSUME NEW r \in Readers, Signal(r) PROVE MaskInv'
  BY <1>2 DEF Signal, CanRun, Goto, handlerVars, arrayVars
<1>3. ASSUME NEW r \in Readers, IrqSave(r) PROVE MaskInv'
  BY <1>3 DEF IrqSave, At, CanRun, Goto, handlerVars, arrayVars
<1>4. ASSUME NEW r \in Readers, SpinAcquire(r) PROVE MaskInv'
  BY <1>4 DEF SpinAcquire, At, CanRun, Goto, handlerVars, arrayVars
<1>5. ASSUME NEW r \in Readers, FindEmpty(r) PROVE MaskInv'
  BY <1>5 DEF FindEmpty, At, CanRun, Goto, UnlockIrqRestore, handlerVars, arrayVars
<1>6. ASSUME NEW r \in Readers, FindEvent(r) PROVE MaskInv'
  BY <1>6 DEF FindEvent, At, CanRun, Goto, handlerVars, arrayVars
<1>7. ASSUME NEW r \in Readers, Peek(r) PROVE MaskInv'
  BY <1>7 DEF Peek, At, CanRun, Goto, handlerVars, arrayVars
<1>8. ASSUME NEW r \in Readers, Shift(r) PROVE MaskInv'
  BY <1>8 DEF Shift, At, CanRun, Goto, handlerVars
<1>9. ASSUME NEW r \in Readers, Unlock(r) PROVE MaskInv'
  BY <1>9 DEF Unlock, At, CanRun, Goto, UnlockIrqRestore, handlerVars, arrayVars
<1>10. ASSUME NEW r \in Readers, Return(r) PROVE MaskInv'
  BY <1>10 DEF Return, At, CanRun, Goto, handlerVars, arrayVars
<1>11. ASSUME NEW r \in Readers, TryAgain(r) PROVE MaskInv'
  BY <1>11 DEF TryAgain, At, CanRun, Goto, handlerVars, arrayVars
<1>12. ASSUME NEW r \in Readers, WaitEvent(r) PROVE MaskInv'
  BY <1>12 DEF WaitEvent, At, CanRun, Goto, handlerVars, arrayVars
<1>13. ASSUME NEW r \in Readers, PrepareToWait(r) PROVE MaskInv'
  BY <1>13 DEF PrepareToWait, At, CanRun, Goto, handlerVars, arrayVars
<1>14. ASSUME NEW r \in Readers, CheckCondition(r) PROVE MaskInv'
  BY <1>14 DEF CheckCondition, At, CanRun, Goto, handlerVars, arrayVars
<1>15. ASSUME NEW r \in Readers, WakeUp(r) PROVE MaskInv'
  BY <1>15 DEF WakeUp, At, CanRun, Goto, handlerVars, arrayVars
<1>16. ASSUME NEW r \in Readers, Interrupted(r) PROVE MaskInv'
  BY <1>16 DEF Interrupted, At, CanRun, Goto, handlerVars, arrayVars
<1>17. ASSUME NEW c \in Cpus, Interrupt(c) PROVE MaskInv'
  BY <1>17 DEF Interrupt, readerVars, arrayVars
<1>18. CASE HandlerAcquire
  BY <1>18 DEF HandlerAcquire, readerVars, arrayVars
<1>19. CASE HandlerStore
  BY <1>19 DEF HandlerStore, readerVars
<1>20. CASE HandlerDrop
  BY <1>20 DEF HandlerDrop, readerVars, arrayVars
<1>21. CASE HandlerIncrement
  BY <1>21 DEF HandlerIncrement, readerVars
<1>22. CASE HandlerUnlock
  BY <1>22 DEF HandlerUnlock, readerVars, arrayVars
<1>23. CASE HandlerWake
  BY <1>23 DEF HandlerWake, readerVars, arrayVars
<1>24. CASE UNCHANGED vars
  BY <1>24 DEF vars
<1> HIDE DEF CoreTypes, MaskInv, Masked
<1>25. QED
  BY <1>1, <1>2, <1>3, <1>4, <1>5, <1>6, <1>7, <1>8, <1>9, <1>10, <1>11, <1>12, <1>13,
       <1>14, <1>15, <1>16, <1>17, <1>18, <1>19, <1>20, <1>21, <1>22, <1>23, <1>24 DEF Next,
       ReadStep, HandlerStep

\* A step keeps the account of who holds the lock.
LEMMA LockStep ==
    ASSUME CoreTypes, LockInv, [Next]_vars
    PROVE  LockInv'
<1> USE ReadersAssumption, CpusAssumption, SizeAssumption DEF CoreTypes, LockInv,
        ArrayExclusive, Critical, HandlerCritical
<1>1. ASSUME NEW r \in Readers, Call(r) PROVE LockInv'
  BY <1>1 DEF Call, At, CanRun, Goto, handlerVars, arrayVars
<1>2. ASSUME NEW r \in Readers, Signal(r) PROVE LockInv'
  BY <1>2 DEF Signal, CanRun, Goto, handlerVars, arrayVars
<1>3. ASSUME NEW r \in Readers, IrqSave(r) PROVE LockInv'
  BY <1>3 DEF IrqSave, At, CanRun, Goto, handlerVars, arrayVars
<1>4. ASSUME NEW r \in Readers, SpinAcquire(r) PROVE LockInv'
  BY <1>4 DEF SpinAcquire, At, CanRun, Goto, handlerVars, arrayVars
<1>5. ASSUME NEW r \in Readers, FindEmpty(r) PROVE LockInv'
  BY <1>5 DEF FindEmpty, At, CanRun, Goto, UnlockIrqRestore, handlerVars, arrayVars
<1>6. ASSUME NEW r \in Readers, FindEvent(r) PROVE LockInv'
  BY <1>6 DEF FindEvent, At, CanRun, Goto, handlerVars, arrayVars
<1>7. ASSUME NEW r \in Readers, Peek(r) PROVE LockInv'
  BY <1>7 DEF Peek, At, CanRun, Goto, handlerVars, arrayVars
<1>8. ASSUME NEW r \in Readers, Shift(r) PROVE LockInv'
  BY <1>8 DEF Shift, At, CanRun, Goto, handlerVars
<1>9. ASSUME NEW r \in Readers, Unlock(r) PROVE LockInv'
  BY <1>9 DEF Unlock, At, CanRun, Goto, UnlockIrqRestore, handlerVars, arrayVars
<1>10. ASSUME NEW r \in Readers, Return(r) PROVE LockInv'
  BY <1>10 DEF Return, At, CanRun, Goto, handlerVars, arrayVars
<1>11. ASSUME NEW r \in Readers, TryAgain(r) PROVE LockInv'
  BY <1>11 DEF TryAgain, At, CanRun, Goto, handlerVars, arrayVars
<1>12. ASSUME NEW r \in Readers, WaitEvent(r) PROVE LockInv'
  BY <1>12 DEF WaitEvent, At, CanRun, Goto, handlerVars, arrayVars
<1>13. ASSUME NEW r \in Readers, PrepareToWait(r) PROVE LockInv'
  BY <1>13 DEF PrepareToWait, At, CanRun, Goto, handlerVars, arrayVars
<1>14. ASSUME NEW r \in Readers, CheckCondition(r) PROVE LockInv'
  BY <1>14 DEF CheckCondition, At, CanRun, Goto, handlerVars, arrayVars
<1>15. ASSUME NEW r \in Readers, WakeUp(r) PROVE LockInv'
  BY <1>15 DEF WakeUp, At, CanRun, Goto, handlerVars, arrayVars
<1>16. ASSUME NEW r \in Readers, Interrupted(r) PROVE LockInv'
  BY <1>16 DEF Interrupted, At, CanRun, Goto, handlerVars, arrayVars
<1>17. ASSUME NEW c \in Cpus, Interrupt(c) PROVE LockInv'
  BY <1>17 DEF Interrupt, readerVars, arrayVars
<1>18. CASE HandlerAcquire
  BY <1>18 DEF HandlerAcquire, readerVars, arrayVars
<1>19. CASE HandlerStore
  BY <1>19 DEF HandlerStore, readerVars
<1>20. CASE HandlerDrop
  BY <1>20 DEF HandlerDrop, readerVars, arrayVars
<1>21. CASE HandlerIncrement
  BY <1>21 DEF HandlerIncrement, readerVars
<1>22. CASE HandlerUnlock
  BY <1>22 DEF HandlerUnlock, readerVars, arrayVars
<1>23. CASE HandlerWake
  BY <1>23 DEF HandlerWake, readerVars, arrayVars
<1>24. CASE UNCHANGED vars
  BY <1>24 DEF vars
<1> HIDE DEF CoreTypes, LockInv, ArrayExclusive, Critical, HandlerCritical
<1>25. QED
  BY <1>1, <1>2, <1>3, <1>4, <1>5, <1>6, <1>7, <1>8, <1>9, <1>10, <1>11, <1>12, <1>13,
       <1>14, <1>15, <1>16, <1>17, <1>18, <1>19, <1>20, <1>21, <1>22, <1>23, <1>24 DEF Next,
       ReadStep, HandlerStep

\* What a critical section knows is not disturbed by the others.
LEMMA SectionStep ==
    ASSUME CoreTypes, LockInv, SectionInv, [Next]_vars
    PROVE  SectionInv'
<1> USE ReadersAssumption, CpusAssumption, SizeAssumption DEF CoreTypes, SectionInv, LockInv,
        ArrayExclusive, Critical, HandlerCritical, Slots
<1>1. ASSUME NEW r \in Readers, Call(r) PROVE SectionInv'
  BY <1>1 DEF Call, At, CanRun, Goto, handlerVars, arrayVars
<1>2. ASSUME NEW r \in Readers, Signal(r) PROVE SectionInv'
  BY <1>2 DEF Signal, CanRun, Goto, handlerVars, arrayVars
<1>3. ASSUME NEW r \in Readers, IrqSave(r) PROVE SectionInv'
  BY <1>3 DEF IrqSave, At, CanRun, Goto, handlerVars, arrayVars
<1>4. ASSUME NEW r \in Readers, SpinAcquire(r) PROVE SectionInv'
  BY <1>4 DEF SpinAcquire, At, CanRun, Goto, handlerVars, arrayVars
<1>5. ASSUME NEW r \in Readers, FindEmpty(r) PROVE SectionInv'
  BY <1>5 DEF FindEmpty, At, CanRun, Goto, UnlockIrqRestore, handlerVars, arrayVars
<1>6. ASSUME NEW r \in Readers, FindEvent(r) PROVE SectionInv'
  BY <1>6 DEF FindEvent, At, CanRun, Goto, handlerVars, arrayVars
<1>7. ASSUME NEW r \in Readers, Peek(r) PROVE SectionInv'
  BY <1>7 DEF Peek, At, CanRun, Goto, handlerVars, arrayVars
<1>8. ASSUME NEW r \in Readers, Shift(r) PROVE SectionInv'
  BY <1>8 DEF Shift, At, CanRun, Goto, handlerVars
<1>9. ASSUME NEW r \in Readers, Unlock(r) PROVE SectionInv'
  BY <1>9 DEF Unlock, At, CanRun, Goto, UnlockIrqRestore, handlerVars, arrayVars
<1>10. ASSUME NEW r \in Readers, Return(r) PROVE SectionInv'
  BY <1>10 DEF Return, At, CanRun, Goto, handlerVars, arrayVars
<1>11. ASSUME NEW r \in Readers, TryAgain(r) PROVE SectionInv'
  BY <1>11 DEF TryAgain, At, CanRun, Goto, handlerVars, arrayVars
<1>12. ASSUME NEW r \in Readers, WaitEvent(r) PROVE SectionInv'
  BY <1>12 DEF WaitEvent, At, CanRun, Goto, handlerVars, arrayVars
<1>13. ASSUME NEW r \in Readers, PrepareToWait(r) PROVE SectionInv'
  BY <1>13 DEF PrepareToWait, At, CanRun, Goto, handlerVars, arrayVars
<1>14. ASSUME NEW r \in Readers, CheckCondition(r) PROVE SectionInv'
  BY <1>14 DEF CheckCondition, At, CanRun, Goto, handlerVars, arrayVars
<1>15. ASSUME NEW r \in Readers, WakeUp(r) PROVE SectionInv'
  BY <1>15 DEF WakeUp, At, CanRun, Goto, handlerVars, arrayVars
<1>16. ASSUME NEW r \in Readers, Interrupted(r) PROVE SectionInv'
  BY <1>16 DEF Interrupted, At, CanRun, Goto, handlerVars, arrayVars
<1>17. ASSUME NEW c \in Cpus, Interrupt(c) PROVE SectionInv'
  BY <1>17 DEF Interrupt, readerVars, arrayVars
<1>18. CASE HandlerAcquire
  BY <1>18 DEF HandlerAcquire, readerVars, arrayVars
<1>19. CASE HandlerStore
  BY <1>19 DEF HandlerStore, readerVars
<1>20. CASE HandlerDrop
  BY <1>20 DEF HandlerDrop, readerVars, arrayVars
<1>21. CASE HandlerIncrement
  BY <1>21 DEF HandlerIncrement, readerVars
<1>22. CASE HandlerUnlock
  BY <1>22 DEF HandlerUnlock, readerVars, arrayVars
<1>23. CASE HandlerWake
  BY <1>23 DEF HandlerWake, readerVars, arrayVars
<1>24. CASE UNCHANGED vars
  BY <1>24 DEF vars
<1> HIDE DEF CoreTypes, SectionInv, LockInv, ArrayExclusive, Critical, HandlerCritical, Slots
<1>25. QED
  BY <1>1, <1>2, <1>3, <1>4, <1>5, <1>6, <1>7, <1>8, <1>9, <1>10, <1>11, <1>12, <1>13,
       <1>14, <1>15, <1>16, <1>17, <1>18, <1>19, <1>20, <1>21, <1>22, <1>23, <1>24 DEF Next,
       ReadStep, HandlerStep

\* A step does not put a reader to sleep beside an event that nobody will announce.
LEMMA WakeupStep ==
    ASSUME CoreTypes, SectionInv, NoLostWakeup, [Next]_vars
    PROVE  NoLostWakeup'
<1> USE ReadersAssumption, CpusAssumption, SizeAssumption DEF CoreTypes, SectionInv, NoLostWakeup
<1>1. ASSUME NEW r \in Readers, Call(r) PROVE NoLostWakeup'
  BY <1>1 DEF Call, At, CanRun, Goto, handlerVars, arrayVars
<1>2. ASSUME NEW r \in Readers, Signal(r) PROVE NoLostWakeup'
  BY <1>2 DEF Signal, CanRun, Goto, handlerVars, arrayVars
<1>3. ASSUME NEW r \in Readers, IrqSave(r) PROVE NoLostWakeup'
  BY <1>3 DEF IrqSave, At, CanRun, Goto, handlerVars, arrayVars
<1>4. ASSUME NEW r \in Readers, SpinAcquire(r) PROVE NoLostWakeup'
  BY <1>4 DEF SpinAcquire, At, CanRun, Goto, handlerVars, arrayVars
<1>5. ASSUME NEW r \in Readers, FindEmpty(r) PROVE NoLostWakeup'
  BY <1>5 DEF FindEmpty, At, CanRun, Goto, UnlockIrqRestore, handlerVars, arrayVars
<1>6. ASSUME NEW r \in Readers, FindEvent(r) PROVE NoLostWakeup'
  BY <1>6 DEF FindEvent, At, CanRun, Goto, handlerVars, arrayVars
<1>7. ASSUME NEW r \in Readers, Peek(r) PROVE NoLostWakeup'
  BY <1>7 DEF Peek, At, CanRun, Goto, handlerVars, arrayVars
<1>8. ASSUME NEW r \in Readers, Shift(r) PROVE NoLostWakeup'
  BY <1>8 DEF Shift, At, CanRun, Goto, handlerVars
<1>9. ASSUME NEW r \in Readers, Unlock(r) PROVE NoLostWakeup'
  BY <1>9 DEF Unlock, At, CanRun, Goto, UnlockIrqRestore, handlerVars, arrayVars
<1>10. ASSUME NEW r \in Readers, Return(r) PROVE NoLostWakeup'
  BY <1>10 DEF Return, At, CanRun, Goto, handlerVars, arrayVars
<1>11. ASSUME NEW r \in Readers, TryAgain(r) PROVE NoLostWakeup'
  BY <1>11 DEF TryAgain, At, CanRun, Goto, handlerVars, arrayVars
<1>12. ASSUME NEW r \in Readers, WaitEvent(r) PROVE NoLostWakeup'
  BY <1>12 DEF WaitEvent, At, CanRun, Goto, handlerVars, arrayVars
<1>13. ASSUME NEW r \in Readers, PrepareToWait(r) PROVE NoLostWakeup'
  BY <1>13 DEF PrepareToWait, At, CanRun, Goto, handlerVars, arrayVars
<1>14. ASSUME NEW r \in Readers, CheckCondition(r) PROVE NoLostWakeup'
  BY <1>14 DEF CheckCondition, At, CanRun, Goto, handlerVars, arrayVars
<1>15. ASSUME NEW r \in Readers, WakeUp(r) PROVE NoLostWakeup'
  BY <1>15 DEF WakeUp, At, CanRun, Goto, handlerVars, arrayVars
<1>16. ASSUME NEW r \in Readers, Interrupted(r) PROVE NoLostWakeup'
  BY <1>16 DEF Interrupted, At, CanRun, Goto, handlerVars, arrayVars
<1>17. ASSUME NEW c \in Cpus, Interrupt(c) PROVE NoLostWakeup'
  BY <1>17 DEF Interrupt, readerVars, arrayVars
<1>18. CASE HandlerAcquire
  BY <1>18 DEF HandlerAcquire, readerVars, arrayVars
<1>19. CASE HandlerStore
  BY <1>19 DEF HandlerStore, readerVars
<1>20. CASE HandlerDrop
  BY <1>20 DEF HandlerDrop, readerVars, arrayVars
<1>21. CASE HandlerIncrement
  BY <1>21 DEF HandlerIncrement, readerVars
<1>22. CASE HandlerUnlock
  BY <1>22 DEF HandlerUnlock, readerVars, arrayVars
<1>23. CASE HandlerWake
  BY <1>23 DEF HandlerWake, readerVars, arrayVars
<1>24. CASE UNCHANGED vars
  BY <1>24 DEF vars
<1> HIDE DEF CoreTypes, SectionInv, NoLostWakeup
<1>25. QED
  BY <1>1, <1>2, <1>3, <1>4, <1>5, <1>6, <1>7, <1>8, <1>9, <1>10, <1>11, <1>12, <1>13,
       <1>14, <1>15, <1>16, <1>17, <1>18, <1>19, <1>20, <1>21, <1>22, <1>23, <1>24 DEF Next,
       ReadStep, HandlerStep

-----------------------------------------------------------------------------
\* Every reachable state satisfies the inductive invariant.
THEOREM Invariance == Spec => []Inv
<1>1. Inv /\ [Next]_vars => Inv'
  BY TypeStep, MaskStep, LockStep, SectionStep, WakeupStep, TypesImplyCore DEF Inv
<1>2. QED
  BY InitInv, <1>1, PTL DEF Spec

\* The array length stays in 0 .. EXAMPLE_ARRAY_SIZE and every variable keeps its type.
THEOREM TypeCorrect == Spec => []TypeOK
<1>1. Inv => TypeOK
  BY DEF Inv
<1>2. QED
  BY Invariance, <1>1, PTL

\* read() and the handler never work on the array at the same time.
THEOREM Exclusion == Spec => []ArrayExclusive
<1>1. Inv => ArrayExclusive
  BY DEF Inv, LockInv
<1>2. QED
  BY Invariance, <1>1, PTL

\* The handler never spins for a lock held by the process it interrupted: that process
\* would have masked the CPU, and a masked CPU takes no interrupt.
THEOREM SelfDeadlockFree == Spec => []NoSelfDeadlock
<1>1. Inv => NoSelfDeadlock
  <2>1. SUFFICES ASSUME Inv, hpc = "spin", NEW r \in Readers, CpuOf[r] = hcpu, Critical(r)
                 PROVE  FALSE
    BY DEF NoSelfDeadlock
  <2>2. irqs_off[hcpu] = r
    BY <2>1 DEF Inv, MaskInv, Masked, Critical
  <2>3. irqs_off[hcpu] = None
    BY <2>1 DEF Inv, MaskInv
  <2>4. QED
    BY <2>2, <2>3, ReadersAssumption
<1>2. QED
  BY Invariance, <1>1, PTL

\* No reader sleeps beside an event whose wake-up has already been issued.
THEOREM WakeupsNotLost == Spec => []NoLostWakeup
<1>1. Inv => NoLostWakeup
  BY DEF Inv
<1>2. QED
  BY Invariance, <1>1, PTL
-----------------------------------------------------------------------------
\* What the refinement substitutes for the abstract queue: the counted slots, and how many
\* interrupts have been recorded or forgotten.
Entries == Table(example_array, example_array_end)

Served == IF hpc \in {"spin", "store", "incr"} THEN interrupts - 1 ELSE interrupts

\* Storing and counting an interrupt appends it to the queue.
LEMMA IncrementRecords ==
    ASSUME CoreTypes, SectionInv, HandlerIncrement
    PROVE  Fifo!Record
<1> USE DEF HandlerIncrement, readerVars
<1>1. /\ example_array_end \in Nat
      /\ example_array_end < EXAMPLE_ARRAY_SIZE
      /\ example_array[example_array_end] = interrupts
      /\ \A i \in 1 .. example_array_end + 1 : example_array[i - 1] \in Nat
      /\ \A i \in 1 .. example_array_end : example_array[i - 1] \in Nat
      /\ interrupts \in Nat
  BY SizeAssumption DEF CoreTypes, SectionInv, Slots
<1>2. Len(Entries) < EXAMPLE_ARRAY_SIZE
  BY <1>1, TableSeq DEF Entries
<1>3. Served' = Served + 1 /\ Served + 1 = interrupts
  BY <1>1 DEF Served
<1>4. Entries' = Append(Entries, Served + 1)
  BY <1>1, <1>3, TableAppend DEF Entries
<1>5. QED
  BY <1>2, <1>3, <1>4 DEF Fifo!Record, Entries, Table, Served

\* Dropping happens with a full queue only.
LEMMA DropForgets ==
    ASSUME CoreTypes, SectionInv, HandlerDrop
    PROVE  Fifo!Forget
<1> USE DEF HandlerDrop, readerVars, arrayVars
<1>1. /\ example_array_end \in Nat
      /\ example_array_end = EXAMPLE_ARRAY_SIZE
      /\ \A i \in 1 .. example_array_end : example_array[i - 1] \in Nat
      /\ interrupts \in Nat
  BY SizeAssumption DEF CoreTypes, Slots
<1>2. Len(Entries) = EXAMPLE_ARRAY_SIZE
  BY <1>1, TableSeq DEF Entries
<1>3. Served' = Served + 1
  BY <1>1 DEF Served
<1>4. QED
  BY <1>2, <1>3 DEF Fifo!Forget, Entries, Table, Served

\* memmove() after the decrement removes exactly the entry that was peeked.
LEMMA ShiftTakes ==
    ASSUME CoreTypes, SectionInv, NEW r \in Readers, Shift(r)
    PROVE  Fifo!Take
<1> USE DEF Shift, At, Goto, handlerVars
<1>1. /\ example_array_end \in Nat \ {0}
      /\ \A i \in 1 .. example_array_end : example_array[i - 1] \in Nat
      /\ \A i \in 1 .. example_array_end - 1 : example_array'[i - 1] = example_array[i]
      /\ value[r] = example_array[0]
  <2>1. /\ pc[r] = "shift" /\ example_array_end \in 0 .. EXAMPLE_ARRAY_SIZE
        /\ example_array \in [Slots -> Nat]
    BY DEF CoreTypes
  <2>2. example_array_end # 0 /\ value[r] = example_array[0]
    BY <2>1 DEF SectionInv
  <2>3. \A i \in 1 .. example_array_end : i - 1 \in Slots
    BY <2>1, SizeAssumption DEF Slots
  <2>4. ASSUME NEW i \in 1 .. example_array_end - 1
        PROVE  example_array'[i - 1] = example_array[i]
    <3>1. i - 1 \in Slots /\ i - 1 < example_array_end - 1 /\ (i - 1) + 1 = i
      BY <2>1, SizeAssumption DEF Slots
    <3>2. QED
      BY <3>1
  <2>5. QED
    BY <2>1, <2>2, <2>3, <2>4
<1>2. /\ Entries # <<>>
      /\ Head(Entries) = example_array[0]
      /\ Table(example_array', example_array_end - 1) = Tail(Entries)
  BY <1>1, TableTail DEF Entries
<1>3. Entries' = Tail(Entries)
  BY <1>2 DEF Entries, Table
<1>4. taken' = Append(taken, Head(Entries)) /\ Served' = Served
  BY <1>1, <1>2 DEF Served
<1>5. QED
  BY <1>2, <1>3, <1>4 DEF Fifo!Take, Entries, Table, Served

\* The write beyond the counted entries is not visible yet.
LEMMA StoreStutters ==
    ASSUME CoreTypes, SectionInv, HandlerStore
    PROVE  UNCHANGED Fifo!fifoVars
<1> USE DEF HandlerStore, readerVars
<1>1. Entries' = Entries
  BY SizeAssumption DEF Entries, Table, CoreTypes, Slots
<1>2. Served' = Served
  BY DEF Served
<1>3. QED
  BY <1>1, <1>2 DEF Fifo!fifoVars, Entries, Table, Served

\* Every step of the driver is a step of the queue or leaves it alone.
LEMMA FifoStep ==
    ASSUME CoreTypes, SectionInv, [Next]_vars
    PROVE  [Fifo!FifoNext]_(Fifo!fifoVars)
<1> USE DEF Fifo!FifoNext, Fifo!fifoVars
<1>1. ASSUME NEW r \in Readers, Call(r) PROVE [Fifo!FifoNext]_(Fifo!fifoVars)
  BY <1>1 DEF Call, At, Goto, handlerVars, arrayVars
<1>2. ASSUME NEW r \in Readers, Signal(r) PROVE [Fifo!FifoNext]_(Fifo!fifoVars)
  BY <1>2 DEF Signal, Goto, handlerVars, arrayVars
<1>3. ASSUME NEW r \in Readers, IrqSave(r) PROVE [Fifo!FifoNext]_(Fifo!fifoVars)
  BY <1>3 DEF IrqSave, At, Goto, handlerVars, arrayVars
<1>4. ASSUME NEW r \in Readers, SpinAcquire(r) PROVE [Fifo!FifoNext]_(Fifo!fifoVars)
  BY <1>4 DEF SpinAcquire, At, Goto, handlerVars, arrayVars
<1>5. ASSUME NEW r \in Readers, FindEmpty(r) PROVE [Fifo!FifoNext]_(Fifo!fifoVars)
  BY <1>5 DEF FindEmpty, At, Goto, UnlockIrqRestore, handlerVars, arrayVars
<1>6. ASSUME NEW r \in Readers, FindEvent(r) PROVE [Fifo!FifoNext]_(Fifo!fifoVars)
  BY <1>6 DEF FindEvent, At, Goto, handlerVars, arrayVars
<1>7. ASSUME NEW r \in Readers, Peek(r) PROVE [Fifo!FifoNext]_(Fifo!fifoVars)
  BY <1>7 DEF Peek, At, Goto, handlerVars, arrayVars
<1>8. ASSUME NEW r \in Readers, Shift(r) PROVE [Fifo!FifoNext]_(Fifo!fifoVars)
  BY <1>8, ShiftTakes
<1>9. ASSUME NEW r \in Readers, Unlock(r) PROVE [Fifo!FifoNext]_(Fifo!fifoVars)
  BY <1>9 DEF Unlock, At, Goto, UnlockIrqRestore, handlerVars, arrayVars
<1>10. ASSUME NEW r \in Readers, Return(r) PROVE [Fifo!FifoNext]_(Fifo!fifoVars)
  BY <1>10 DEF Return, At, Goto, handlerVars, arrayVars
<1>11. ASSUME NEW r \in Readers, TryAgain(r) PROVE [Fifo!FifoNext]_(Fifo!fifoVars)
  BY <1>11 DEF TryAgain, At, Goto, handlerVars, arrayVars
<1>12. ASSUME NEW r \in Readers, WaitEvent(r) PROVE [Fifo!FifoNext]_(Fifo!fifoVars)
  BY <1>12 DEF WaitEvent, At, Goto, handlerVars, arrayVars
<1>13. ASSUME NEW r \in Readers, PrepareToWait(r) PROVE [Fifo!FifoNext]_(Fifo!fifoVars)
  BY <1>13 DEF PrepareToWait, At, Goto, handlerVars, arrayVars
<1>14. ASSUME NEW r \in Readers, CheckCondition(r) PROVE [Fifo!FifoNext]_(Fifo!fifoVars)
  BY <1>14 DEF CheckCondition, At, Goto, handlerVars, arrayVars
<1>15. ASSUME NEW r \in Readers, WakeUp(r) PROVE [Fifo!FifoNext]_(Fifo!fifoVars)
  BY <1>15 DEF WakeUp, At, Goto, handlerVars, arrayVars
<1>16. ASSUME NEW r \in Readers, Interrupted(r) PROVE [Fifo!FifoNext]_(Fifo!fifoVars)
  BY <1>16 DEF Interrupted, At, Goto, handlerVars, arrayVars
<1>17. ASSUME NEW c \in Cpus, Interrupt(c) PROVE [Fifo!FifoNext]_(Fifo!fifoVars)
  BY <1>17 DEF Interrupt, readerVars, arrayVars, CoreTypes
<1>18. CASE HandlerAcquire
  BY <1>18 DEF HandlerAcquire, readerVars, arrayVars
<1>19. CASE HandlerStore
  BY <1>19, StoreStutters
<1>20. CASE HandlerDrop
  BY <1>20, DropForgets
<1>21. CASE HandlerIncrement
  BY <1>21, IncrementRecords
<1>22. CASE HandlerUnlock
  BY <1>22 DEF HandlerUnlock, readerVars, arrayVars
<1>23. CASE HandlerWake
  BY <1>23 DEF HandlerWake, readerVars, arrayVars
<1>24. CASE UNCHANGED vars
  BY <1>24 DEF vars
<1> HIDE DEF Fifo!FifoNext, Fifo!fifoVars
<1>25. QED
  BY <1>1, <1>2, <1>3, <1>4, <1>5, <1>6, <1>7, <1>8, <1>9, <1>10, <1>11, <1>12, <1>13,
       <1>14, <1>15, <1>16, <1>17, <1>18, <1>19, <1>20, <1>21, <1>22, <1>23, <1>24 DEF Next,
       ReadStep, HandlerStep

\* The driver implements the bounded FIFO: interrupts are delivered in order, each once,
\* and forgotten only while the array is full.
THEOREM FifoImplemented == Spec => FifoSpec
<1>1. Init => Fifo!FifoInit
  BY DEF Init, Fifo!FifoInit
<1>2. Inv /\ [Next]_vars => [Fifo!FifoNext]_(Fifo!fifoVars)
  BY FifoStep, TypesImplyCore DEF Inv
<1>3. QED
  BY Invariance, <1>1, <1>2, PTL DEF Spec, FifoSpec, Fifo!FifoSpec
=============================================================================
