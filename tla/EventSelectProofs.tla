-------------------------- MODULE EventSelectProofs --------------------------
(***************************************************************************)
(* Proofs about EventSelect, for any readers, any of them in select(), any *)
(* CPUs and any size of the array.                                         *)
(*                                                                         *)
(* What EventArrayProofs shows of a step of read() or of the handler holds *)
(* here too: CoreTypes says nothing of the places that poll() adds.  To    *)
(* this the module adds mutual exclusion over the sections of read(),      *)
(* poll() and the handler (LockedInv), who masks the interrupts in poll()  *)
(* (PollMasks), where a reader with a yes of select() can be (ReadyInv),   *)
(* and that a process which waits in select() is on the wait queue and     *)
(* misses no wake-up (QueueInv).                                           *)
(***************************************************************************)
EXTENDS EventSelect, EventArrayProofs

Labels == {"idle", "lock", "spin", "test", "peek", "shift", "unlock", "copy", "empty", "prepare",
           "check", "sleep", "signalled", "poll", "poll_spin", "poll_test", "polled", "poll_sleep"}

SelectTypes ==
    /\ CoreTypes
    /\ pc \in [Readers -> Labels]
    /\ ret \in [Readers -> BOOLEAN] /\ ready \in [Readers -> BOOLEAN]

InSection(r) == Critical(r) \/ pc[r] = "poll_test"

LockedInv ==
    /\ \A r \in Readers : InSection(r) => example_array_spl /\ ~ HandlerCritical
    /\ \A r, s \in Readers : InSection(r) /\ InSection(s) => r = s
    /\ HandlerCritical => example_array_spl

PollMasks ==
    \A r \in Readers : pc[r] \in {"poll_spin", "poll_test"} => irqs_off[CpuOf[r]] = r

ReadyInv ==
    \A r \in Readers : ready[r] => /\ example_array_end # 0
                                   /\ pc[r] = "polled" => ret[r]

\* The places from poll_wait() to the end of the wait.
InSelect(r) == pc[r] \in {"poll", "poll_spin", "poll_test", "polled", "poll_sleep"}

\* poll() has said no, and select() waits or is about to.
ToldNo(r) == pc[r] = "poll_sleep" \/ (pc[r] = "polled" /\ ~ ret[r])

QueueInv ==
    \A r \in Readers : /\ InSelect(r) => r \in poll_wq
                       /\ ToldNo(r) /\ example_array_end # 0 =>
                              r \in triggered \/ hpc \in {"unlock", "wake"}

SelectInv ==
    /\ SelectTypes /\ MaskInv /\ PollMasks /\ LockedInv /\ SectionInv /\ NoLostWakeup
    /\ ReadyInv /\ ReadyReadReturns /\ QueueInv

\* A process that waits in select() beside an event was woken to poll again, or the handler is
\* about to wake it: poll_wait() comes before the test, and the wake-up after the store.
NoLostSelect ==
    \A r \in Readers : pc[r] = "poll_sleep" /\ example_array_end # 0 =>
        r \in triggered \/ hpc \in {"unlock", "wake"}
-----------------------------------------------------------------------------
\* What poll() and select() do, and the read() that gives up early: not steps of EventArray.
Polls(r) ==
    \/ Select(r) \/ PollIrqSave(r) \/ PollAcquire(r) \/ PollTest(r) \/ Polled(r) \/ PollAgain(r)
    \/ SelectEnds(r) \/ ShortBuffer(r)

\* Every other step is one of EventArray.
LEMMA SelectCases ==
    ASSUME [SelectNext]_allVars
    PROVE  [Next]_vars \/ \E r \in Readers : Polls(r)
<1>1. ASSUME NEW r \in Readers, SelectRead(r) PROVE Next
  BY <1>1 DEF SelectRead, Next
<1>2. CASE SelectHandler
  BY <1>2 DEF SelectHandler, Next
<1>3. ASSUME NEW r \in Readers, Call(r) \/ Signal(r) PROVE Next
  BY <1>3 DEF Next
<1>4. CASE \E c \in Cpus : Interrupt(c)
  BY <1>4 DEF Next
<1>5. CASE UNCHANGED allVars
  BY <1>5 DEF allVars
<1>6. QED
  BY <1>1, <1>2, <1>3, <1>4, <1>5 DEF SelectNext, SelectStep, Polls

\* A step keeps the types.
LEMMA TypesStep ==
    ASSUME SelectTypes, SectionInv, [SelectNext]_allVars
    PROVE  SelectTypes'
<1> USE ReadersAssumption, CpusAssumption, SizeAssumption
    DEF SelectTypes, CoreTypes, SectionInv, Slots, Labels, restVars, lockVars, selectVars,
    arrayVars, handlerVars, readerVars
<1>1. ASSUME NEW r \in Readers, Select(r)
      PROVE  SelectTypes'
  BY <1>1 DEF Select, At, CanRun, Goto
<1>2. ASSUME NEW r \in Readers, PollIrqSave(r)
      PROVE  SelectTypes'
  BY <1>2 DEF PollIrqSave, At, CanRun, Goto
<1>3. ASSUME NEW r \in Readers, PollAcquire(r)
      PROVE  SelectTypes'
  BY <1>3 DEF PollAcquire, At, CanRun, Goto
<1>4. ASSUME NEW r \in Readers, PollTest(r)
      PROVE  SelectTypes'
  <2>1. UNCHANGED restVars /\ irqs_off' \in [Cpus -> Readers \cup {None}]
    BY <1>4 DEF PollTest, UnlockIrqRestore
  <2>2. pc' \in [Readers -> Labels]
    BY <1>4 DEF PollTest, Goto
  <2>3. ret' \in [Readers -> BOOLEAN]
    BY <1>4 DEF PollTest
  <2>4. ready' \in [Readers -> BOOLEAN]
    BY <1>4, <2>3 DEF PollTest
  <2>5. pc' = [s \in Readers |-> pc'[s]]
    BY <2>2
  <2>6. QED
    BY <2>1, <2>2, <2>3, <2>4, <2>5
<1>5. ASSUME NEW r \in Readers, Polled(r)
      PROVE  SelectTypes'
  BY <1>5 DEF Polled, At, CanRun, Goto
<1>6. ASSUME NEW r \in Readers, PollAgain(r)
      PROVE  SelectTypes'
  BY <1>6 DEF PollAgain, At, CanRun, Goto
<1>7. ASSUME NEW r \in Readers, SelectEnds(r)
      PROVE  SelectTypes'
  BY <1>7 DEF SelectEnds, At, CanRun, Goto
<1>8. ASSUME NEW r \in Readers, ShortBuffer(r)
      PROVE  SelectTypes'
  BY <1>8 DEF ShortBuffer, At, CanRun, Goto, UnlockIrqRestore
<1>9. ASSUME NEW r \in Readers, IrqSave(r), SelectRead(r)
      PROVE  SelectTypes'
  BY <1>9 DEF IrqSave, SelectRead, At, Goto
<1>10. ASSUME NEW r \in Readers, SpinAcquire(r), SelectRead(r)
      PROVE  SelectTypes'
  BY <1>10 DEF SpinAcquire, SelectRead, At, Goto
<1>11. ASSUME NEW r \in Readers, FindEmpty(r), SelectRead(r)
      PROVE  SelectTypes'
  BY <1>11 DEF FindEmpty, SelectRead, At, Goto, UnlockIrqRestore
<1>12. ASSUME NEW r \in Readers, FindEvent(r), SelectRead(r)
      PROVE  SelectTypes'
  BY <1>12 DEF FindEvent, SelectRead, At, Goto
<1>13. ASSUME NEW r \in Readers, Peek(r), SelectRead(r)
      PROVE  SelectTypes'
  <2>1. 0 \in Slots
    BY SMT
  <2>2. value' \in [Readers -> Nat]
    BY <1>13, <2>1 DEF Peek
  <2>3. UNCHANGED <<arrayVars, example_array_spl, example_array_wq, irqs_off, handlerVars>>
    BY <1>13 DEF Peek
  <2>4. /\ pc' \in [Readers -> Labels]
        /\ ret' \in [Readers -> BOOLEAN] /\ ready' \in [Readers -> BOOLEAN]
    BY <1>13 DEF Peek, SelectRead, At, Goto
  <2>5. pc' = [s \in Readers |-> pc'[s]]
    BY <2>4
  <2>6. QED
    BY <2>2, <2>3, <2>4, <2>5
<1>14. ASSUME NEW r \in Readers, Shift(r), SelectRead(r)
      PROVE  SelectTypes'
  <2>1. Critical(r)
    BY <1>14 DEF Shift, At, Critical
  <2>2. example_array_end - 1 \in 0 .. EXAMPLE_ARRAY_SIZE
    BY <1>14 DEF Shift, At
  <2>3. example_array' \in [Slots -> Nat]
    <3>1. ASSUME NEW i \in Slots, i < example_array_end - 1 PROVE i + 1 \in Slots
      BY <2>2, <3>1
    <3>2. QED
      BY <1>14, <3>1 DEF Shift
  <2>4. example_array_end' \in 0 .. EXAMPLE_ARRAY_SIZE
    BY <1>14, <2>2 DEF Shift
  <2>5. UNCHANGED <<example_array_spl, example_array_wq, irqs_off, value, handlerVars>>
    BY <1>14 DEF Shift
  <2>6. /\ pc' \in [Readers -> Labels]
        /\ ret' \in [Readers -> BOOLEAN] /\ ready' \in [Readers -> BOOLEAN]
    BY <1>14 DEF Shift, SelectRead, At, Goto
  <2>7. pc' = [s \in Readers |-> pc'[s]]
    BY <2>6
  <2>8. QED
    BY <2>3, <2>4, <2>5, <2>6, <2>7
<1>15. ASSUME NEW r \in Readers, Unlock(r), SelectRead(r)
      PROVE  SelectTypes'
  BY <1>15 DEF Unlock, SelectRead, At, Goto, UnlockIrqRestore
<1>16. ASSUME NEW r \in Readers, Return(r), SelectRead(r)
      PROVE  SelectTypes'
  BY <1>16 DEF Return, SelectRead, At, Goto
<1>17. ASSUME NEW r \in Readers, TryAgain(r), SelectRead(r)
      PROVE  SelectTypes'
  BY <1>17 DEF TryAgain, SelectRead, At, Goto
<1>18. ASSUME NEW r \in Readers, WaitEvent(r), SelectRead(r)
      PROVE  SelectTypes'
  BY <1>18 DEF WaitEvent, SelectRead, At, Goto
<1>19. ASSUME NEW r \in Readers, PrepareToWait(r), SelectRead(r)
      PROVE  SelectTypes'
  BY <1>19 DEF PrepareToWait, SelectRead, At, Goto
<1>20. ASSUME NEW r \in Readers, CheckCondition(r), SelectRead(r)
      PROVE  SelectTypes'
  BY <1>20 DEF CheckCondition, SelectRead, At, Goto
<1>21. ASSUME NEW r \in Readers, WakeUp(r), SelectRead(r)
      PROVE  SelectTypes'
  BY <1>21 DEF WakeUp, SelectRead, At, Goto
<1>22. ASSUME NEW r \in Readers, Interrupted(r), SelectRead(r)
      PROVE  SelectTypes'
  BY <1>22 DEF Interrupted, SelectRead, At, Goto
<1>23. ASSUME NEW r \in Readers, Call(r), UNCHANGED selectVars
      PROVE  SelectTypes'
  BY <1>23 DEF Call, At, Goto
<1>24. ASSUME NEW r \in Readers, Signal(r), UNCHANGED selectVars
      PROVE  SelectTypes'
  BY <1>24 DEF Signal, At, Goto
<1>25. ASSUME NEW c \in Cpus, Interrupt(c), UNCHANGED selectVars
      PROVE  SelectTypes'
  BY <1>25 DEF Interrupt
<1>26. CASE HandlerAcquire /\ SelectHandler
  BY <1>26 DEF HandlerAcquire, SelectHandler
<1>27. CASE HandlerStore /\ SelectHandler
  BY <1>27 DEF HandlerStore, SelectHandler
<1>28. CASE HandlerDrop /\ SelectHandler
  BY <1>28 DEF HandlerDrop, SelectHandler
<1>29. CASE HandlerIncrement /\ SelectHandler
  BY <1>29 DEF HandlerIncrement, SelectHandler
<1>30. CASE HandlerUnlock /\ SelectHandler
  BY <1>30 DEF HandlerUnlock, SelectHandler
<1>31. CASE HandlerWake /\ SelectHandler
  BY <1>31 DEF HandlerWake, SelectHandler
<1>32. CASE UNCHANGED allVars
  BY <1>32 DEF allVars, vars
<1> HIDE DEF SelectTypes, CoreTypes, SectionInv, Slots, Labels, restVars, lockVars, selectVars,
    arrayVars, handlerVars, readerVars
<1>33. QED
  BY <1>1, <1>2, <1>3, <1>4, <1>5, <1>6, <1>7, <1>8, <1>9, <1>10, <1>11, <1>12, <1>13,
     <1>14, <1>15, <1>16, <1>17, <1>18, <1>19, <1>20, <1>21, <1>22, <1>23, <1>24, <1>25,
     <1>26, <1>27, <1>28, <1>29, <1>30, <1>31, <1>32
  DEF SelectNext, SelectStep, SelectRead, SelectHandler, ReadStep, HandlerStep

\* A step lets nobody into a section that another is in: read(), poll() and the handler take the
\* same lock.
LEMMA LockedStep ==
    ASSUME SelectTypes, LockedInv, [SelectNext]_allVars
    PROVE  LockedInv'
<1> USE DEF SelectTypes, CoreTypes, LockedInv, InSection, Critical, HandlerCritical, restVars,
    lockVars, selectVars, arrayVars, handlerVars, readerVars
<1>1. ASSUME NEW r \in Readers, Select(r)
      PROVE  LockedInv'
  BY <1>1 DEF Select, At, CanRun, Goto
<1>2. ASSUME NEW r \in Readers, PollIrqSave(r)
      PROVE  LockedInv'
  BY <1>2 DEF PollIrqSave, At, CanRun, Goto
<1>3. ASSUME NEW r \in Readers, PollAcquire(r)
      PROVE  LockedInv'
  BY <1>3 DEF PollAcquire, At, CanRun, Goto
<1>4. ASSUME NEW r \in Readers, PollTest(r)
      PROVE  LockedInv'
  BY <1>4 DEF PollTest, At, CanRun, Goto, UnlockIrqRestore
<1>5. ASSUME NEW r \in Readers, Polled(r)
      PROVE  LockedInv'
  BY <1>5 DEF Polled, At, CanRun, Goto
<1>6. ASSUME NEW r \in Readers, PollAgain(r)
      PROVE  LockedInv'
  BY <1>6 DEF PollAgain, At, CanRun, Goto
<1>7. ASSUME NEW r \in Readers, SelectEnds(r)
      PROVE  LockedInv'
  BY <1>7 DEF SelectEnds, At, CanRun, Goto
<1>8. ASSUME NEW r \in Readers, ShortBuffer(r)
      PROVE  LockedInv'
  BY <1>8 DEF ShortBuffer, At, CanRun, Goto, UnlockIrqRestore
<1>9. ASSUME NEW r \in Readers, IrqSave(r), SelectRead(r)
      PROVE  LockedInv'
  BY <1>9 DEF IrqSave, SelectRead, At, Goto
<1>10. ASSUME NEW r \in Readers, SpinAcquire(r), SelectRead(r)
      PROVE  LockedInv'
  BY <1>10 DEF SpinAcquire, SelectRead, At, Goto
<1>11. ASSUME NEW r \in Readers, FindEmpty(r), SelectRead(r)
      PROVE  LockedInv'
  BY <1>11 DEF FindEmpty, SelectRead, At, Goto, UnlockIrqRestore
<1>12. ASSUME NEW r \in Readers, FindEvent(r), SelectRead(r)
      PROVE  LockedInv'
  BY <1>12 DEF FindEvent, SelectRead, At, Goto
<1>13. ASSUME NEW r \in Readers, Peek(r), SelectRead(r)
      PROVE  LockedInv'
  BY <1>13 DEF Peek, SelectRead, At, Goto
<1>14. ASSUME NEW r \in Readers, Shift(r), SelectRead(r)
      PROVE  LockedInv'
  BY <1>14 DEF Shift, SelectRead, At, Goto
<1>15. ASSUME NEW r \in Readers, Unlock(r), SelectRead(r)
      PROVE  LockedInv'
  BY <1>15 DEF Unlock, SelectRead, At, Goto, UnlockIrqRestore
<1>16. ASSUME NEW r \in Readers, Return(r), SelectRead(r)
      PROVE  LockedInv'
  BY <1>16 DEF Return, SelectRead, At, Goto
<1>17. ASSUME NEW r \in Readers, TryAgain(r), SelectRead(r)
      PROVE  LockedInv'
  BY <1>17 DEF TryAgain, SelectRead, At, Goto
<1>18. ASSUME NEW r \in Readers, WaitEvent(r), SelectRead(r)
      PROVE  LockedInv'
  BY <1>18 DEF WaitEvent, SelectRead, At, Goto
<1>19. ASSUME NEW r \in Readers, PrepareToWait(r), SelectRead(r)
      PROVE  LockedInv'
  BY <1>19 DEF PrepareToWait, SelectRead, At, Goto
<1>20. ASSUME NEW r \in Readers, CheckCondition(r), SelectRead(r)
      PROVE  LockedInv'
  BY <1>20 DEF CheckCondition, SelectRead, At, Goto
<1>21. ASSUME NEW r \in Readers, WakeUp(r), SelectRead(r)
      PROVE  LockedInv'
  BY <1>21 DEF WakeUp, SelectRead, At, Goto
<1>22. ASSUME NEW r \in Readers, Interrupted(r), SelectRead(r)
      PROVE  LockedInv'
  BY <1>22 DEF Interrupted, SelectRead, At, Goto
<1>23. ASSUME NEW r \in Readers, Call(r), UNCHANGED selectVars
      PROVE  LockedInv'
  BY <1>23 DEF Call, At, Goto
<1>24. ASSUME NEW r \in Readers, Signal(r), UNCHANGED selectVars
      PROVE  LockedInv'
  BY <1>24 DEF Signal, At, Goto
<1>25. ASSUME NEW c \in Cpus, Interrupt(c), UNCHANGED selectVars
      PROVE  LockedInv'
  BY <1>25 DEF Interrupt
<1>26. CASE HandlerAcquire /\ SelectHandler
  BY <1>26 DEF HandlerAcquire, SelectHandler
<1>27. CASE HandlerStore /\ SelectHandler
  BY <1>27 DEF HandlerStore, SelectHandler
<1>28. CASE HandlerDrop /\ SelectHandler
  BY <1>28 DEF HandlerDrop, SelectHandler
<1>29. CASE HandlerIncrement /\ SelectHandler
  BY <1>29 DEF HandlerIncrement, SelectHandler
<1>30. CASE HandlerUnlock /\ SelectHandler
  BY <1>30 DEF HandlerUnlock, SelectHandler
<1>31. CASE HandlerWake /\ SelectHandler
  BY <1>31 DEF HandlerWake, SelectHandler
<1>32. CASE UNCHANGED allVars
  BY <1>32 DEF allVars, vars
<1> HIDE DEF SelectTypes, CoreTypes, LockedInv, InSection, Critical, HandlerCritical, restVars,
    lockVars, selectVars, arrayVars, handlerVars, readerVars
<1>33. QED
  BY <1>1, <1>2, <1>3, <1>4, <1>5, <1>6, <1>7, <1>8, <1>9, <1>10, <1>11, <1>12, <1>13,
     <1>14, <1>15, <1>16, <1>17, <1>18, <1>19, <1>20, <1>21, <1>22, <1>23, <1>24, <1>25,
     <1>26, <1>27, <1>28, <1>29, <1>30, <1>31, <1>32
  DEF SelectNext, SelectStep, SelectRead, SelectHandler, ReadStep, HandlerStep

\* The exclusion of the three sections is that of the two of EventArray, and more.
LEMMA LockedIsMore ==
    ASSUME LockedInv
    PROVE  LockInv
  BY DEF LockedInv, LockInv, InSection, ArrayExclusive

\* A step of EventArray does not touch a process that is in poll(), nor the interrupts of its CPU.
LEMMA PollLeftAlone ==
    ASSUME CoreTypes, MaskInv, [Next]_vars, NEW d \in Readers,
           pc'[d] \in {"poll_spin", "poll_test"}, pc[d] = pc'[d] => irqs_off[CpuOf[d]] = d
    PROVE  irqs_off'[CpuOf[d]] = d
<1> USE ReadersAssumption, CpusAssumption DEF CoreTypes, MaskInv, Masked, handlerVars, arrayVars,
    readerVars
<1>1. ASSUME NEW r \in Readers, Call(r) PROVE irqs_off'[CpuOf[d]] = d
  BY <1>1 DEF Call, At, CanRun, Goto
<1>2. ASSUME NEW r \in Readers, Signal(r) PROVE irqs_off'[CpuOf[d]] = d
  BY <1>2 DEF Signal, CanRun, Goto
<1>3. ASSUME NEW r \in Readers, IrqSave(r) PROVE irqs_off'[CpuOf[d]] = d
  BY <1>3 DEF IrqSave, At, CanRun, Goto
<1>4. ASSUME NEW r \in Readers, SpinAcquire(r) PROVE irqs_off'[CpuOf[d]] = d
  BY <1>4 DEF SpinAcquire, At, CanRun, Goto
<1>5. ASSUME NEW r \in Readers, FindEmpty(r) PROVE irqs_off'[CpuOf[d]] = d
  BY <1>5 DEF FindEmpty, At, CanRun, Goto, UnlockIrqRestore
<1>6. ASSUME NEW r \in Readers, FindEvent(r) PROVE irqs_off'[CpuOf[d]] = d
  BY <1>6 DEF FindEvent, At, CanRun, Goto
<1>7. ASSUME NEW r \in Readers, Peek(r) PROVE irqs_off'[CpuOf[d]] = d
  BY <1>7 DEF Peek, At, CanRun, Goto
<1>8. ASSUME NEW r \in Readers, Shift(r) PROVE irqs_off'[CpuOf[d]] = d
  BY <1>8 DEF Shift, At, CanRun, Goto
<1>9. ASSUME NEW r \in Readers, Unlock(r) PROVE irqs_off'[CpuOf[d]] = d
  BY <1>9 DEF Unlock, At, CanRun, Goto, UnlockIrqRestore
<1>10. ASSUME NEW r \in Readers, Return(r) PROVE irqs_off'[CpuOf[d]] = d
  BY <1>10 DEF Return, At, CanRun, Goto
<1>11. ASSUME NEW r \in Readers, TryAgain(r) PROVE irqs_off'[CpuOf[d]] = d
  BY <1>11 DEF TryAgain, At, CanRun, Goto
<1>12. ASSUME NEW r \in Readers, WaitEvent(r) PROVE irqs_off'[CpuOf[d]] = d
  BY <1>12 DEF WaitEvent, At, CanRun, Goto
<1>13. ASSUME NEW r \in Readers, PrepareToWait(r) PROVE irqs_off'[CpuOf[d]] = d
  BY <1>13 DEF PrepareToWait, At, CanRun, Goto
<1>14. ASSUME NEW r \in Readers, CheckCondition(r) PROVE irqs_off'[CpuOf[d]] = d
  BY <1>14 DEF CheckCondition, At, CanRun, Goto
<1>15. ASSUME NEW r \in Readers, WakeUp(r) PROVE irqs_off'[CpuOf[d]] = d
  BY <1>15 DEF WakeUp, At, CanRun, Goto
<1>16. ASSUME NEW r \in Readers, Interrupted(r) PROVE irqs_off'[CpuOf[d]] = d
  BY <1>16 DEF Interrupted, At, CanRun, Goto
<1>17. ASSUME NEW c \in Cpus, Interrupt(c) PROVE irqs_off'[CpuOf[d]] = d
  BY <1>17 DEF Interrupt
<1>18. CASE HandlerStep
  BY <1>18 DEF HandlerStep, HandlerAcquire, HandlerStore, HandlerDrop, HandlerIncrement,
     HandlerUnlock, HandlerWake
<1>19. CASE UNCHANGED vars
  BY <1>19 DEF vars
<1> HIDE DEF CoreTypes, MaskInv, Masked, handlerVars, arrayVars, readerVars
<1>20. QED
  BY <1>1, <1>2, <1>3, <1>4, <1>5, <1>6, <1>7, <1>8, <1>9, <1>10, <1>11, <1>12, <1>13, <1>14,
     <1>15, <1>16, <1>17, <1>18, <1>19
  DEF Next, ReadStep

\* A step keeps the account of who masks which CPU, poll() included.
LEMMA SelectMaskStep ==
    ASSUME SelectTypes, MaskInv, PollMasks,
           [SelectNext]_allVars
    PROVE  MaskInv' /\ PollMasks'
<1> USE ReadersAssumption, CpusAssumption
    DEF SelectTypes, CoreTypes, MaskInv, PollMasks, Masked, restVars, lockVars,
        selectVars, arrayVars, handlerVars
<1>1. ASSUME NEW r \in Readers, Select(r) PROVE MaskInv' /\ PollMasks'
  BY <1>1 DEF Select, At, CanRun, Goto
<1>2. ASSUME NEW r \in Readers, PollIrqSave(r) PROVE MaskInv' /\ PollMasks'
  BY <1>2 DEF PollIrqSave, At, CanRun, Goto
<1>3. ASSUME NEW r \in Readers, PollAcquire(r) PROVE MaskInv' /\ PollMasks'
  BY <1>3 DEF PollAcquire, At, CanRun, Goto
<1>4. ASSUME NEW r \in Readers, PollTest(r) PROVE MaskInv' /\ PollMasks'
  BY <1>4 DEF PollTest, At, CanRun, Goto, UnlockIrqRestore
<1>5. ASSUME NEW r \in Readers, Polled(r) PROVE MaskInv' /\ PollMasks'
  BY <1>5 DEF Polled, At, CanRun, Goto
<1>6. ASSUME NEW r \in Readers, PollAgain(r) PROVE MaskInv' /\ PollMasks'
  BY <1>6 DEF PollAgain, At, CanRun, Goto
<1>7. ASSUME NEW r \in Readers, SelectEnds(r) PROVE MaskInv' /\ PollMasks'
  BY <1>7 DEF SelectEnds, At, CanRun, Goto
<1>8. ASSUME NEW r \in Readers, ShortBuffer(r) PROVE MaskInv' /\ PollMasks'
  BY <1>8 DEF ShortBuffer, At, CanRun, Goto, UnlockIrqRestore
<1>9. CASE [Next]_vars
  <2> HIDE DEF SelectTypes, CoreTypes, MaskInv, Masked
  <2>1. CoreTypes
    BY DEF SelectTypes
  <2>2. MaskInv'
    BY <1>9, <2>1, MaskStep
  <2>3. \A d \in Readers : pc'[d] \in {"poll_spin", "poll_test"} => irqs_off'[CpuOf[d]] = d
    BY <1>9, <2>1, PollLeftAlone
  <2>4. QED
    BY <2>2, <2>3
<1> HIDE DEF SelectTypes, CoreTypes, MaskInv, PollMasks, Masked, restVars, lockVars,
        selectVars, arrayVars, handlerVars
<1>10. QED
  BY <1>1, <1>2, <1>3, <1>4, <1>5, <1>6, <1>7, <1>8, <1>9, SelectCases DEF Polls

\* A step leaves what a critical section knows of the array.
LEMMA SelectSectionStep ==
    ASSUME SelectTypes, LockedInv, SectionInv,
           [SelectNext]_allVars
    PROVE  SectionInv'
<1> USE ReadersAssumption, CpusAssumption
    DEF SelectTypes, CoreTypes, SectionInv, restVars, lockVars, selectVars,
        arrayVars, handlerVars
<1>1. ASSUME NEW r \in Readers, Select(r) PROVE SectionInv'
  BY <1>1 DEF Select, At, CanRun, Goto
<1>2. ASSUME NEW r \in Readers, PollIrqSave(r) PROVE SectionInv'
  BY <1>2 DEF PollIrqSave, At, CanRun, Goto
<1>3. ASSUME NEW r \in Readers, PollAcquire(r) PROVE SectionInv'
  BY <1>3 DEF PollAcquire, At, CanRun, Goto
<1>4. ASSUME NEW r \in Readers, PollTest(r) PROVE SectionInv'
  BY <1>4 DEF PollTest, At, CanRun, Goto, UnlockIrqRestore
<1>5. ASSUME NEW r \in Readers, Polled(r) PROVE SectionInv'
  BY <1>5 DEF Polled, At, CanRun, Goto
<1>6. ASSUME NEW r \in Readers, PollAgain(r) PROVE SectionInv'
  BY <1>6 DEF PollAgain, At, CanRun, Goto
<1>7. ASSUME NEW r \in Readers, SelectEnds(r) PROVE SectionInv'
  BY <1>7 DEF SelectEnds, At, CanRun, Goto
<1>8. ASSUME NEW r \in Readers, ShortBuffer(r) PROVE SectionInv'
  BY <1>8 DEF ShortBuffer, At, CanRun, Goto, UnlockIrqRestore
<1>9. CASE [Next]_vars
  <2> HIDE DEF SelectTypes, CoreTypes, SectionInv
  <2>1. CoreTypes /\ LockInv
    BY LockedIsMore DEF SelectTypes
  <2>2. QED
    BY <1>9, <2>1, SectionStep
<1> HIDE DEF SelectTypes, CoreTypes, SectionInv, restVars, lockVars, selectVars,
        arrayVars, handlerVars
<1>10. QED
  BY <1>1, <1>2, <1>3, <1>4, <1>5, <1>6, <1>7, <1>8, <1>9, SelectCases DEF Polls

\* A step does not put a reader of read() to sleep beside an event that nobody will announce.
LEMMA SelectWakeupStep ==
    ASSUME SelectTypes, SectionInv, NoLostWakeup,
           [SelectNext]_allVars
    PROVE  NoLostWakeup'
<1> USE ReadersAssumption, CpusAssumption
    DEF SelectTypes, CoreTypes, NoLostWakeup, restVars, lockVars, selectVars,
        arrayVars, handlerVars
<1>1. ASSUME NEW r \in Readers, Select(r) PROVE NoLostWakeup'
  BY <1>1 DEF Select, At, CanRun, Goto
<1>2. ASSUME NEW r \in Readers, PollIrqSave(r) PROVE NoLostWakeup'
  BY <1>2 DEF PollIrqSave, At, CanRun, Goto
<1>3. ASSUME NEW r \in Readers, PollAcquire(r) PROVE NoLostWakeup'
  BY <1>3 DEF PollAcquire, At, CanRun, Goto
<1>4. ASSUME NEW r \in Readers, PollTest(r) PROVE NoLostWakeup'
  BY <1>4 DEF PollTest, At, CanRun, Goto, UnlockIrqRestore
<1>5. ASSUME NEW r \in Readers, Polled(r) PROVE NoLostWakeup'
  BY <1>5 DEF Polled, At, CanRun, Goto
<1>6. ASSUME NEW r \in Readers, PollAgain(r) PROVE NoLostWakeup'
  BY <1>6 DEF PollAgain, At, CanRun, Goto
<1>7. ASSUME NEW r \in Readers, SelectEnds(r) PROVE NoLostWakeup'
  BY <1>7 DEF SelectEnds, At, CanRun, Goto
<1>8. ASSUME NEW r \in Readers, ShortBuffer(r) PROVE NoLostWakeup'
  BY <1>8 DEF ShortBuffer, At, CanRun, Goto, UnlockIrqRestore
<1>9. CASE [Next]_vars
  <2> HIDE DEF SelectTypes, CoreTypes, NoLostWakeup
  <2>1. CoreTypes
    BY DEF SelectTypes
  <2>2. QED
    BY <1>9, <2>1, WakeupStep
<1> HIDE DEF SelectTypes, CoreTypes, NoLostWakeup, restVars, lockVars, selectVars,
        arrayVars, handlerVars
<1>10. QED
  BY <1>1, <1>2, <1>3, <1>4, <1>5, <1>6, <1>7, <1>8, <1>9, SelectCases DEF Polls

\* A step that takes an event takes the yes of all readers back; no other step empties the array.
LEMMA ReadyStep ==
    ASSUME SelectTypes, SectionInv, ReadyInv, [SelectNext]_allVars
    PROVE  ReadyInv'
<1> USE DEF SelectTypes, CoreTypes, SectionInv, ReadyInv, restVars, lockVars, selectVars,
    arrayVars, handlerVars, readerVars
<1>1. ASSUME NEW r \in Readers, Select(r)
      PROVE  ReadyInv'
  BY <1>1 DEF Select, At, CanRun, Goto
<1>2. ASSUME NEW r \in Readers, PollIrqSave(r)
      PROVE  ReadyInv'
  BY <1>2 DEF PollIrqSave, At, CanRun, Goto
<1>3. ASSUME NEW r \in Readers, PollAcquire(r)
      PROVE  ReadyInv'
  BY <1>3 DEF PollAcquire, At, CanRun, Goto
<1>4. ASSUME NEW r \in Readers, PollTest(r)
      PROVE  ReadyInv'
  BY <1>4 DEF PollTest, At, CanRun, Goto, UnlockIrqRestore
<1>5. ASSUME NEW r \in Readers, Polled(r)
      PROVE  ReadyInv'
  BY <1>5 DEF Polled, At, CanRun, Goto
<1>6. ASSUME NEW r \in Readers, PollAgain(r)
      PROVE  ReadyInv'
  BY <1>6 DEF PollAgain, At, CanRun, Goto
<1>7. ASSUME NEW r \in Readers, SelectEnds(r)
      PROVE  ReadyInv'
  BY <1>7 DEF SelectEnds, At, CanRun, Goto
<1>8. ASSUME NEW r \in Readers, ShortBuffer(r)
      PROVE  ReadyInv'
  BY <1>8 DEF ShortBuffer, At, CanRun, Goto, UnlockIrqRestore
<1>9. ASSUME NEW r \in Readers, IrqSave(r), SelectRead(r)
      PROVE  ReadyInv'
  BY <1>9 DEF IrqSave, SelectRead, At, Goto
<1>10. ASSUME NEW r \in Readers, SpinAcquire(r), SelectRead(r)
      PROVE  ReadyInv'
  BY <1>10 DEF SpinAcquire, SelectRead, At, Goto
<1>11. ASSUME NEW r \in Readers, FindEmpty(r), SelectRead(r)
      PROVE  ReadyInv'
  BY <1>11 DEF FindEmpty, SelectRead, At, Goto, UnlockIrqRestore
<1>12. ASSUME NEW r \in Readers, FindEvent(r), SelectRead(r)
      PROVE  ReadyInv'
  BY <1>12 DEF FindEvent, SelectRead, At, Goto
<1>13. ASSUME NEW r \in Readers, Peek(r), SelectRead(r)
      PROVE  ReadyInv'
  BY <1>13 DEF Peek, SelectRead, At, Goto
<1>14. ASSUME NEW r \in Readers, Shift(r), SelectRead(r)
      PROVE  ReadyInv'
  BY <1>14 DEF Shift, SelectRead, At, Goto
<1>15. ASSUME NEW r \in Readers, Unlock(r), SelectRead(r)
      PROVE  ReadyInv'
  BY <1>15 DEF Unlock, SelectRead, At, Goto, UnlockIrqRestore
<1>16. ASSUME NEW r \in Readers, Return(r), SelectRead(r)
      PROVE  ReadyInv'
  BY <1>16 DEF Return, SelectRead, At, Goto
<1>17. ASSUME NEW r \in Readers, TryAgain(r), SelectRead(r)
      PROVE  ReadyInv'
  BY <1>17 DEF TryAgain, SelectRead, At, Goto
<1>18. ASSUME NEW r \in Readers, WaitEvent(r), SelectRead(r)
      PROVE  ReadyInv'
  BY <1>18 DEF WaitEvent, SelectRead, At, Goto
<1>19. ASSUME NEW r \in Readers, PrepareToWait(r), SelectRead(r)
      PROVE  ReadyInv'
  BY <1>19 DEF PrepareToWait, SelectRead, At, Goto
<1>20. ASSUME NEW r \in Readers, CheckCondition(r), SelectRead(r)
      PROVE  ReadyInv'
  BY <1>20 DEF CheckCondition, SelectRead, At, Goto
<1>21. ASSUME NEW r \in Readers, WakeUp(r), SelectRead(r)
      PROVE  ReadyInv'
  BY <1>21 DEF WakeUp, SelectRead, At, Goto
<1>22. ASSUME NEW r \in Readers, Interrupted(r), SelectRead(r)
      PROVE  ReadyInv'
  BY <1>22 DEF Interrupted, SelectRead, At, Goto
<1>23. ASSUME NEW r \in Readers, Call(r), UNCHANGED selectVars
      PROVE  ReadyInv'
  BY <1>23 DEF Call, At, Goto
<1>24. ASSUME NEW r \in Readers, Signal(r), UNCHANGED selectVars
      PROVE  ReadyInv'
  BY <1>24 DEF Signal, At, Goto
<1>25. ASSUME NEW c \in Cpus, Interrupt(c), UNCHANGED selectVars
      PROVE  ReadyInv'
  BY <1>25 DEF Interrupt
<1>26. CASE HandlerAcquire /\ SelectHandler
  BY <1>26 DEF HandlerAcquire, SelectHandler
<1>27. CASE HandlerStore /\ SelectHandler
  BY <1>27 DEF HandlerStore, SelectHandler
<1>28. CASE HandlerDrop /\ SelectHandler
  BY <1>28 DEF HandlerDrop, SelectHandler
<1>29. CASE HandlerIncrement /\ SelectHandler
  BY <1>29 DEF HandlerIncrement, SelectHandler
<1>30. CASE HandlerUnlock /\ SelectHandler
  BY <1>30 DEF HandlerUnlock, SelectHandler
<1>31. CASE HandlerWake /\ SelectHandler
  BY <1>31 DEF HandlerWake, SelectHandler
<1>32. CASE UNCHANGED allVars
  BY <1>32 DEF allVars, vars
<1> HIDE DEF SelectTypes, CoreTypes, SectionInv, ReadyInv, restVars, lockVars, selectVars,
    arrayVars, handlerVars, readerVars
<1>33. QED
  BY <1>1, <1>2, <1>3, <1>4, <1>5, <1>6, <1>7, <1>8, <1>9, <1>10, <1>11, <1>12, <1>13,
     <1>14, <1>15, <1>16, <1>17, <1>18, <1>19, <1>20, <1>21, <1>22, <1>23, <1>24, <1>25,
     <1>26, <1>27, <1>28, <1>29, <1>30, <1>31, <1>32
  DEF SelectNext, SelectStep, SelectRead, SelectHandler, ReadStep, HandlerStep

\* A step does not make a reader wait that has a yes.
LEMMA ReturnsStep ==
    ASSUME SelectTypes, ReadyInv, ReadyReadReturns, [SelectNext]_allVars
    PROVE  ReadyReadReturns'
<1> USE DEF SelectTypes, CoreTypes, ReadyInv, ReadyReadReturns, restVars, lockVars, selectVars,
    arrayVars, handlerVars, readerVars
<1>1. ASSUME NEW r \in Readers, Select(r)
      PROVE  ReadyReadReturns'
  BY <1>1 DEF Select, At, CanRun, Goto
<1>2. ASSUME NEW r \in Readers, PollIrqSave(r)
      PROVE  ReadyReadReturns'
  BY <1>2 DEF PollIrqSave, At, CanRun, Goto
<1>3. ASSUME NEW r \in Readers, PollAcquire(r)
      PROVE  ReadyReadReturns'
  BY <1>3 DEF PollAcquire, At, CanRun, Goto
<1>4. ASSUME NEW r \in Readers, PollTest(r)
      PROVE  ReadyReadReturns'
  BY <1>4 DEF PollTest, At, CanRun, Goto, UnlockIrqRestore
<1>5. ASSUME NEW r \in Readers, Polled(r)
      PROVE  ReadyReadReturns'
  BY <1>5 DEF Polled, At, CanRun, Goto
<1>6. ASSUME NEW r \in Readers, PollAgain(r)
      PROVE  ReadyReadReturns'
  BY <1>6 DEF PollAgain, At, CanRun, Goto
<1>7. ASSUME NEW r \in Readers, SelectEnds(r)
      PROVE  ReadyReadReturns'
  BY <1>7 DEF SelectEnds, At, CanRun, Goto
<1>8. ASSUME NEW r \in Readers, ShortBuffer(r)
      PROVE  ReadyReadReturns'
  BY <1>8 DEF ShortBuffer, At, CanRun, Goto, UnlockIrqRestore
<1>9. ASSUME NEW r \in Readers, IrqSave(r), SelectRead(r)
      PROVE  ReadyReadReturns'
  BY <1>9 DEF IrqSave, SelectRead, At, Goto
<1>10. ASSUME NEW r \in Readers, SpinAcquire(r), SelectRead(r)
      PROVE  ReadyReadReturns'
  BY <1>10 DEF SpinAcquire, SelectRead, At, Goto
<1>11. ASSUME NEW r \in Readers, FindEmpty(r), SelectRead(r)
      PROVE  ReadyReadReturns'
  BY <1>11 DEF FindEmpty, SelectRead, At, Goto, UnlockIrqRestore
<1>12. ASSUME NEW r \in Readers, FindEvent(r), SelectRead(r)
      PROVE  ReadyReadReturns'
  BY <1>12 DEF FindEvent, SelectRead, At, Goto
<1>13. ASSUME NEW r \in Readers, Peek(r), SelectRead(r)
      PROVE  ReadyReadReturns'
  BY <1>13 DEF Peek, SelectRead, At, Goto
<1>14. ASSUME NEW r \in Readers, Shift(r), SelectRead(r)
      PROVE  ReadyReadReturns'
  BY <1>14 DEF Shift, SelectRead, At, Goto
<1>15. ASSUME NEW r \in Readers, Unlock(r), SelectRead(r)
      PROVE  ReadyReadReturns'
  BY <1>15 DEF Unlock, SelectRead, At, Goto, UnlockIrqRestore
<1>16. ASSUME NEW r \in Readers, Return(r), SelectRead(r)
      PROVE  ReadyReadReturns'
  BY <1>16 DEF Return, SelectRead, At, Goto
<1>17. ASSUME NEW r \in Readers, TryAgain(r), SelectRead(r)
      PROVE  ReadyReadReturns'
  BY <1>17 DEF TryAgain, SelectRead, At, Goto
<1>18. ASSUME NEW r \in Readers, WaitEvent(r), SelectRead(r)
      PROVE  ReadyReadReturns'
  BY <1>18 DEF WaitEvent, SelectRead, At, Goto
<1>19. ASSUME NEW r \in Readers, PrepareToWait(r), SelectRead(r)
      PROVE  ReadyReadReturns'
  BY <1>19 DEF PrepareToWait, SelectRead, At, Goto
<1>20. ASSUME NEW r \in Readers, CheckCondition(r), SelectRead(r)
      PROVE  ReadyReadReturns'
  BY <1>20 DEF CheckCondition, SelectRead, At, Goto
<1>21. ASSUME NEW r \in Readers, WakeUp(r), SelectRead(r)
      PROVE  ReadyReadReturns'
  BY <1>21 DEF WakeUp, SelectRead, At, Goto
<1>22. ASSUME NEW r \in Readers, Interrupted(r), SelectRead(r)
      PROVE  ReadyReadReturns'
  BY <1>22 DEF Interrupted, SelectRead, At, Goto
<1>23. ASSUME NEW r \in Readers, Call(r), UNCHANGED selectVars
      PROVE  ReadyReadReturns'
  BY <1>23 DEF Call, At, Goto
<1>24. ASSUME NEW r \in Readers, Signal(r), UNCHANGED selectVars
      PROVE  ReadyReadReturns'
  BY <1>24 DEF Signal, At, Goto
<1>25. ASSUME NEW c \in Cpus, Interrupt(c), UNCHANGED selectVars
      PROVE  ReadyReadReturns'
  BY <1>25 DEF Interrupt
<1>26. CASE HandlerAcquire /\ SelectHandler
  BY <1>26 DEF HandlerAcquire, SelectHandler
<1>27. CASE HandlerStore /\ SelectHandler
  BY <1>27 DEF HandlerStore, SelectHandler
<1>28. CASE HandlerDrop /\ SelectHandler
  BY <1>28 DEF HandlerDrop, SelectHandler
<1>29. CASE HandlerIncrement /\ SelectHandler
  BY <1>29 DEF HandlerIncrement, SelectHandler
<1>30. CASE HandlerUnlock /\ SelectHandler
  BY <1>30 DEF HandlerUnlock, SelectHandler
<1>31. CASE HandlerWake /\ SelectHandler
  BY <1>31 DEF HandlerWake, SelectHandler
<1>32. CASE UNCHANGED allVars
  BY <1>32 DEF allVars, vars
<1> HIDE DEF SelectTypes, CoreTypes, ReadyInv, ReadyReadReturns, restVars, lockVars, selectVars,
    arrayVars, handlerVars, readerVars
<1>33. QED
  BY <1>1, <1>2, <1>3, <1>4, <1>5, <1>6, <1>7, <1>8, <1>9, <1>10, <1>11, <1>12, <1>13,
     <1>14, <1>15, <1>16, <1>17, <1>18, <1>19, <1>20, <1>21, <1>22, <1>23, <1>24, <1>25,
     <1>26, <1>27, <1>28, <1>29, <1>30, <1>31, <1>32
  DEF SelectNext, SelectStep, SelectRead, SelectHandler, ReadStep, HandlerStep
\* A step leaves nobody waiting in select() beside an event that nobody will announce.
LEMMA QueueStep ==
    ASSUME SelectTypes, SectionInv, QueueInv, [SelectNext]_allVars
    PROVE  QueueInv'
<1> USE DEF SelectTypes, CoreTypes, SectionInv, QueueInv, InSelect, ToldNo, restVars, lockVars,
    selectVars, arrayVars, handlerVars, readerVars
<1>1. ASSUME NEW r \in Readers, Select(r)
      PROVE  QueueInv'
  BY <1>1 DEF Select, At, CanRun, Goto
<1>2. ASSUME NEW r \in Readers, PollIrqSave(r)
      PROVE  QueueInv'
  BY <1>2 DEF PollIrqSave, At, CanRun, Goto
<1>3. ASSUME NEW r \in Readers, PollAcquire(r)
      PROVE  QueueInv'
  BY <1>3 DEF PollAcquire, At, CanRun, Goto
<1>4. ASSUME NEW r \in Readers, PollTest(r)
      PROVE  QueueInv'
  <2>1. UNCHANGED <<restVars, poll_wq, triggered>>
    BY <1>4 DEF PollTest
  <2>2. pc'[r] = "polled" /\ (ret'[r] <=> example_array_end > 0) /\ r \in poll_wq
    BY <1>4 DEF PollTest, At, Goto
  <2>3. \A s \in Readers \ {r} : pc'[s] = pc[s] /\ ret'[s] = ret[s]
    BY <1>4 DEF PollTest, Goto
  <2>4. example_array_end # 0 => example_array_end > 0
    BY SMT
  <2>5. QED
    BY <2>1, <2>2, <2>3, <2>4
<1>5. ASSUME NEW r \in Readers, Polled(r)
      PROVE  QueueInv'
  BY <1>5 DEF Polled, At, CanRun, Goto
<1>6. ASSUME NEW r \in Readers, PollAgain(r)
      PROVE  QueueInv'
  BY <1>6 DEF PollAgain, At, CanRun, Goto
<1>7. ASSUME NEW r \in Readers, SelectEnds(r)
      PROVE  QueueInv'
  BY <1>7 DEF SelectEnds, At, CanRun, Goto
<1>8. ASSUME NEW r \in Readers, ShortBuffer(r)
      PROVE  QueueInv'
  BY <1>8 DEF ShortBuffer, At, CanRun, Goto, UnlockIrqRestore
<1>9. ASSUME NEW r \in Readers, IrqSave(r), SelectRead(r)
      PROVE  QueueInv'
  BY <1>9 DEF IrqSave, SelectRead, At, Goto
<1>10. ASSUME NEW r \in Readers, SpinAcquire(r), SelectRead(r)
      PROVE  QueueInv'
  BY <1>10 DEF SpinAcquire, SelectRead, At, Goto
<1>11. ASSUME NEW r \in Readers, FindEmpty(r), SelectRead(r)
      PROVE  QueueInv'
  BY <1>11 DEF FindEmpty, SelectRead, At, Goto, UnlockIrqRestore
<1>12. ASSUME NEW r \in Readers, FindEvent(r), SelectRead(r)
      PROVE  QueueInv'
  BY <1>12 DEF FindEvent, SelectRead, At, Goto
<1>13. ASSUME NEW r \in Readers, Peek(r), SelectRead(r)
      PROVE  QueueInv'
  BY <1>13 DEF Peek, SelectRead, At, Goto
<1>14. ASSUME NEW r \in Readers, Shift(r), SelectRead(r)
      PROVE  QueueInv'
  BY <1>14 DEF Shift, SelectRead, At, Goto
<1>15. ASSUME NEW r \in Readers, Unlock(r), SelectRead(r)
      PROVE  QueueInv'
  BY <1>15 DEF Unlock, SelectRead, At, Goto, UnlockIrqRestore
<1>16. ASSUME NEW r \in Readers, Return(r), SelectRead(r)
      PROVE  QueueInv'
  BY <1>16 DEF Return, SelectRead, At, Goto
<1>17. ASSUME NEW r \in Readers, TryAgain(r), SelectRead(r)
      PROVE  QueueInv'
  BY <1>17 DEF TryAgain, SelectRead, At, Goto
<1>18. ASSUME NEW r \in Readers, WaitEvent(r), SelectRead(r)
      PROVE  QueueInv'
  BY <1>18 DEF WaitEvent, SelectRead, At, Goto
<1>19. ASSUME NEW r \in Readers, PrepareToWait(r), SelectRead(r)
      PROVE  QueueInv'
  BY <1>19 DEF PrepareToWait, SelectRead, At, Goto
<1>20. ASSUME NEW r \in Readers, CheckCondition(r), SelectRead(r)
      PROVE  QueueInv'
  BY <1>20 DEF CheckCondition, SelectRead, At, Goto
<1>21. ASSUME NEW r \in Readers, WakeUp(r), SelectRead(r)
      PROVE  QueueInv'
  BY <1>21 DEF WakeUp, SelectRead, At, Goto
<1>22. ASSUME NEW r \in Readers, Interrupted(r), SelectRead(r)
      PROVE  QueueInv'
  BY <1>22 DEF Interrupted, SelectRead, At, Goto
<1>23. ASSUME NEW r \in Readers, Call(r), UNCHANGED selectVars
      PROVE  QueueInv'
  BY <1>23 DEF Call, At, Goto
<1>24. ASSUME NEW r \in Readers, Signal(r), UNCHANGED selectVars
      PROVE  QueueInv'
  BY <1>24 DEF Signal, At, Goto
<1>25. ASSUME NEW c \in Cpus, Interrupt(c), UNCHANGED selectVars
      PROVE  QueueInv'
  BY <1>25 DEF Interrupt
<1>26. CASE HandlerAcquire /\ SelectHandler
  BY <1>26 DEF HandlerAcquire, SelectHandler
<1>27. CASE HandlerStore /\ SelectHandler
  BY <1>27 DEF HandlerStore, SelectHandler
<1>28. CASE HandlerDrop /\ SelectHandler
  BY <1>28 DEF HandlerDrop, SelectHandler
<1>29. CASE HandlerIncrement /\ SelectHandler
  BY <1>29 DEF HandlerIncrement, SelectHandler
<1>30. CASE HandlerUnlock /\ SelectHandler
  BY <1>30 DEF HandlerUnlock, SelectHandler
<1>31. CASE HandlerWake /\ SelectHandler
  BY <1>31 DEF HandlerWake, SelectHandler
<1>32. CASE UNCHANGED allVars
  BY <1>32 DEF allVars, vars
<1> HIDE DEF SelectTypes, CoreTypes, SectionInv, QueueInv, InSelect, ToldNo, restVars, lockVars,
    selectVars, arrayVars, handlerVars, readerVars
<1>33. QED
  BY <1>1, <1>2, <1>3, <1>4, <1>5, <1>6, <1>7, <1>8, <1>9, <1>10, <1>11, <1>12, <1>13,
     <1>14, <1>15, <1>16, <1>17, <1>18, <1>19, <1>20, <1>21, <1>22, <1>23, <1>24, <1>25,
     <1>26, <1>27, <1>28, <1>29, <1>30, <1>31, <1>32
  DEF SelectNext, SelectStep, SelectRead, SelectHandler, ReadStep, HandlerStep

-----------------------------------------------------------------------------
\* The invariant holds in every behaviour of the specification.
THEOREM SelectInvariance == SelectSpec => []SelectInv
<1>1. SelectInit => SelectInv
  <2> SUFFICES ASSUME SelectInit PROVE SelectInv
    OBVIOUS
  <2>1. Inv
    BY InitInv DEF SelectInit
  <2>2. CoreTypes /\ MaskInv /\ SectionInv /\ NoLostWakeup
    BY <2>1, TypesImplyCore DEF Inv
  <2>3. \A r \in Readers : pc[r] = "idle"
    BY DEF SelectInit, Init
  <2>4. /\ pc \in [Readers -> Labels]
        /\ ret \in [Readers -> BOOLEAN] /\ ready \in [Readers -> BOOLEAN]
    BY DEF SelectInit, Init, Labels
  <2>5. LockedInv
    BY <2>3 DEF LockedInv, InSection, Critical, HandlerCritical, SelectInit, Init
  <2>6. PollMasks /\ QueueInv
    BY <2>3 DEF PollMasks, QueueInv, InSelect, ToldNo
  <2>7. ReadyInv /\ ReadyReadReturns
    BY DEF ReadyInv, ReadyReadReturns, SelectInit
  <2>8. QED
    BY <2>2, <2>4, <2>5, <2>6, <2>7 DEF SelectInv, SelectTypes
<1>2. SelectInv /\ [SelectNext]_allVars => SelectInv'
  BY TypesStep, SelectMaskStep, LockedStep, SelectSectionStep, SelectWakeupStep, ReadyStep,
     ReturnsStep, QueueStep DEF SelectInv
<1>3. QED
  BY <1>1, <1>2, PTL DEF SelectSpec

\* A read() that follows a positive select() does not block unless another reader took an event in
\* between (lines 77, 41).
THEOREM ReadyMeansReady == SelectSpec => []ReadyReadReturns
<1>1. SelectInv => ReadyReadReturns
  BY DEF SelectInv
<1>2. QED
  BY SelectInvariance, <1>1, PTL

\* The array is touched by one context at a time with poll() too (lines 39, 48, 76, 87).
THEOREM ExclusionWithPoll == SelectSpec => []ArrayExclusive
<1>1. SelectInv => ArrayExclusive
  BY LockedIsMore DEF SelectInv, LockInv
<1>2. QED
  BY SelectInvariance, <1>1, PTL

\* The handler never spins on a CPU whose interrupted process holds the lock in read() or in
\* poll(): both mask the interrupts of their CPU first (lines 39, 76).
THEOREM NoSelfDeadlockWithPoll ==
    SelectSpec => [](hpc = "spin" => \A r \in Readers : CpuOf[r] = hcpu => ~ InSection(r))
<1>1. SelectInv => (hpc = "spin" => \A r \in Readers : CpuOf[r] = hcpu => ~ InSection(r))
  <2> SUFFICES ASSUME SelectInv, hpc = "spin", NEW r \in Readers, CpuOf[r] = hcpu, InSection(r)
               PROVE  FALSE
    OBVIOUS
  <2>1. irqs_off[CpuOf[r]] = r
    BY DEF SelectInv, MaskInv, Masked, PollMasks, InSection, Critical
  <2>2. irqs_off[hcpu] = None
    BY DEF SelectInv, MaskInv
  <2>3. QED
    BY <2>1, <2>2, ReadersAssumption
<1>2. QED
  BY SelectInvariance, <1>1, PTL

\* A process that waits in select() misses no wake-up (lines 75, 77, 94).
THEOREM SelectsNotLost == SelectSpec => []NoLostSelect
<1>1. SelectInv => NoLostSelect
  BY DEF SelectInv, QueueInv, ToldNo, NoLostSelect
<1>2. QED
  BY SelectInvariance, <1>1, PTL

\* Nor does one that sleeps in read(), whatever the processes in select() do.
THEOREM WakeupsNotLostWithPoll == SelectSpec => []NoLostWakeup
<1>1. SelectInv => NoLostWakeup
  BY DEF SelectInv
<1>2. QED
  BY SelectInvariance, <1>1, PTL

\* The driver with poll() implements the bounded FIFO too: its read() may give up before it removes
\* the event, and then the event stays the oldest.
THEOREM FifoWithPoll == SelectSpec => FifoSpec
<1>1. SelectInit => Fifo!FifoInit
  BY DEF SelectInit, Init, Fifo!FifoInit
<1>2. SelectInv /\ [SelectNext]_allVars => [Fifo!FifoNext]_(Fifo!fifoVars)
  <2> SUFFICES ASSUME SelectInv, [SelectNext]_allVars
               PROVE  [Fifo!FifoNext]_(Fifo!fifoVars)
    OBVIOUS
  <2>1. CASE [Next]_vars
    BY <2>1, FifoStep DEF SelectInv, SelectTypes
  <2>2. ASSUME NEW r \in Readers, Polls(r) PROVE UNCHANGED Fifo!fifoVars
    <3>1. UNCHANGED restVars
      BY <2>2 DEF Polls, Select, PollIrqSave, PollAcquire, PollTest, Polled, PollAgain, SelectEnds,
         ShortBuffer
    <3>2. QED
      BY <3>1 DEF restVars, arrayVars, handlerVars, Fifo!fifoVars
  <2>3. QED
    BY <2>1, <2>2, SelectCases
<1>3. QED
  BY SelectInvariance, <1>1, <1>2, PTL DEF SelectSpec, FifoSpec, Fifo!FifoSpec
=============================================================================
