---------------------------- MODULE EventSelect -----------------------------
(***************************************************************************)
(* exemples/05-acces-au-materiel/example-select.c: the event array of      *)
(* EventArray with poll(), used by the processes of test-select.c, which   *)
(* wait in select() and read() once it says that they may.                 *)
(*                                                                         *)
(* The two files differ in poll() and in read(), which looks at the size   *)
(* of the caller's buffer before it removes the event; everything else is  *)
(* EventArray's.                                                           *)
(***************************************************************************)
EXTENDS EventArray

CONSTANT Selectors       \* the readers that call select() first

ASSUME SelectorsAssumption == Selectors \subseteq Readers \ NonBlocking

VARIABLES
    poll_wq,             \* the processes whose select() has an entry in example_waitqueue
    triggered,           \* those of them that were woken since they last polled
    ret,                 \* each reader's local in example_poll()
    ready                \* history: select() said yes and no event was taken since

selectVars == <<poll_wq, triggered, ret, ready>>
allVars == <<vars, selectVars>>

SelectInit ==
    /\ Init
    /\ poll_wq = {} /\ triggered = {}
    /\ ret = [r \in Readers |-> FALSE] /\ ready = [r \in Readers |-> FALSE]

lockVars == <<example_array_spl, irqs_off>>
restVars == <<arrayVars, example_array_wq, value, handlerVars>>
-----------------------------------------------------------------------------
\* MUTANT of Select: poll() does not call poll_wait().
SelectUnqueued(r) ==
    /\ At(r, "idle") /\ r \in Selectors
    /\ triggered' = triggered \ {r}
    /\ Goto(r, "poll")
    /\ UNCHANGED <<restVars, lockVars, poll_wq, ret, ready>>

\* select() calls poll(), whose poll_wait() puts the caller on the queue.
Select(r) ==
    /\ At(r, "idle") /\ r \in Selectors
    /\ poll_wq' = poll_wq \cup {r}
    /\ triggered' = triggered \ {r}
    /\ Goto(r, "poll")
    /\ UNCHANGED <<restVars, lockVars, ret, ready>>

PollIrqSave(r) ==
    /\ At(r, "poll")
    /\ irqs_off' = [irqs_off EXCEPT ![CpuOf[r]] = r]
    /\ Goto(r, "poll_spin")
    /\ UNCHANGED <<restVars, example_array_spl, selectVars>>

PollAcquire(r) ==
    /\ At(r, "poll_spin")
    /\ ~ example_array_spl
    /\ example_array_spl' = TRUE
    /\ Goto(r, "poll_test")
    /\ UNCHANGED <<restVars, irqs_off, selectVars>>

\* MUTANT of PollTest: ">= 0" for "> 0".
PollTestOffByOne(r) ==
    /\ At(r, "poll_test")
    /\ ret' = [ret EXCEPT ![r] = example_array_end >= 0]
    /\ UnlockIrqRestore(r)
    /\ ready' = [ready EXCEPT ![r] = ret'[r]]
    /\ Goto(r, "polled")
    /\ UNCHANGED <<restVars, poll_wq, triggered>>

PollTest(r) ==
    /\ At(r, "poll_test")
    /\ ret' = [ret EXCEPT ![r] = example_array_end > 0]
    /\ UnlockIrqRestore(r)
    /\ ready' = [ready EXCEPT ![r] = ret'[r]]
    /\ Goto(r, "polled")
    /\ UNCHANGED <<restVars, poll_wq, triggered>>

\* select() returns, and read() is called; or the process waits.
Polled(r) ==
    /\ At(r, "polled")
    /\ IF ret[r]
       THEN Goto(r, "lock") /\ poll_wq' = poll_wq \ {r}
       ELSE Goto(r, "poll_sleep") /\ UNCHANGED poll_wq
    /\ UNCHANGED <<restVars, lockVars, triggered, ret, ready>>

\* A wake-up, before the wait or during it, makes select() poll again.
PollAgain(r) ==
    /\ At(r, "poll_sleep") /\ r \in triggered
    /\ triggered' = triggered \ {r}
    /\ Goto(r, "poll")
    /\ UNCHANGED <<restVars, lockVars, poll_wq, ret, ready>>

\* The timeout of select(), or a signal.
SelectEnds(r) ==
    /\ At(r, "poll_sleep")
    /\ poll_wq' = poll_wq \ {r}
    /\ Goto(r, "idle")
    /\ UNCHANGED <<restVars, lockVars, triggered, ret, ready>>
-----------------------------------------------------------------------------
\* Line 53: a short buffer ends the call before the event is removed.
ShortBuffer(r) ==
    /\ At(r, "shift")
    /\ UnlockIrqRestore(r)
    /\ ready' = [ready EXCEPT ![r] = FALSE]
    /\ Goto(r, "idle")
    /\ UNCHANGED <<restVars, poll_wq, triggered, ret>>

\* An event is removed: what select() told the other readers is no longer true.
SelectRead(r) ==
    /\ ReadStep(r)
    /\ ready' = IF pc[r] = "shift" THEN [s \in Readers |-> FALSE] ELSE ready
    /\ UNCHANGED <<poll_wq, triggered, ret>>

\* wake_up_interruptible() reaches the processes in select() too.
SelectHandler ==
    /\ HandlerStep
    /\ triggered' = IF hpc = "wake" THEN triggered \cup poll_wq ELSE triggered
    /\ UNCHANGED <<poll_wq, ret, ready>>

SelectStep(r) ==
    \/ PollIrqSave(r) \/ PollAcquire(r) \/ PollTest(r) \/ Polled(r) \/ PollAgain(r)
    \/ ShortBuffer(r) \/ SelectRead(r)

SelectNext ==
    \/ \E r \in Readers :
        \/ Select(r) \/ SelectStep(r) \/ SelectEnds(r)
        \/ r \notin Selectors /\ Call(r) /\ UNCHANGED selectVars
        \/ Signal(r) /\ UNCHANGED selectVars
    \/ \E c \in Cpus : Interrupt(c) /\ UNCHANGED selectVars
    \/ SelectHandler

\* The scheduler and the queued spinlocks of EventArray; neither a timeout nor a signal has to
\* end a select().
SelectFairness ==
    /\ \A r \in Readers : SF_allVars(SelectStep(r))
    /\ SF_allVars(SelectHandler)

SelectSpec == SelectInit /\ [][SelectNext]_allVars /\ SelectFairness
-----------------------------------------------------------------------------
\* A read() that follows a positive select() does not block, whatever the handler does meanwhile
\* and wherever the table is full; only another reader, who took an event in between, can make
\* it wait (lines 77, 41).
ReadyReadReturns ==
    \A r \in Readers : ready[r] => pc[r] \notin {"poll_sleep", "empty", "prepare", "check", "sleep"}

\* A process in select() is woken for an event that nobody takes: no wake-up falls between the
\* test of line 77 and the wait.
SelectReturns ==
    \A r \in Selectors : (pc[r] = "poll_sleep" /\ example_array_end # 0) ~> pc[r] # "poll_sleep"
=============================================================================
