----------------------------- MODULE EventArray -----------------------------
(***************************************************************************)
(* The interrupt-fed character driver of chapter V                         *)
(* (exemples/05-acces-au-materiel/example-V-09.c): a GPIO interrupt        *)
(* handler appends to example_array, read() removes the oldest entry and   *)
(* sleeps on a wait queue, or returns -EAGAIN, when there is none.         *)
(*                                                                         *)
(* Readers are processes bound to a CPU; the handler borrows a CPU whose   *)
(* local interrupts are enabled, and the process of that CPU does not run  *)
(* until the handler returns.  Accesses to the shared array and its length *)
(* are separate steps, so that what the spinlock protects is visible.      *)
(***************************************************************************)
EXTENDS Naturals, Sequences

CONSTANTS
    Readers,             \* processes that call read()
    NonBlocking,         \* those whose file has O_NONBLOCK
    Cpus,
    CpuOf,               \* the CPU each reader runs on
    None,                \* "no reader", "no CPU"
    EXAMPLE_ARRAY_SIZE,
    MaxInterrupts        \* bound on the interrupts of a behaviour

ASSUME ReadersAssumption == NonBlocking \subseteq Readers /\ None \notin Readers
ASSUME CpusAssumption == CpuOf \in [Readers -> Cpus] /\ None \notin Cpus
ASSUME SizeAssumption == EXAMPLE_ARRAY_SIZE \in Nat \ {0}
ASSUME BoundAssumption == MaxInterrupts \in Nat

VARIABLES
    example_array,
    example_array_end,
    example_array_spl,   \* the spinlock: TRUE when held
    example_array_wq,    \* readers queued with task state INTERRUPTIBLE
    irqs_off,            \* per CPU, the reader that disabled its interrupts
    pc,                  \* where each reader is in example_read()
    value,               \* each reader's local "value"
    hpc,                 \* where the handler is in example_handler()
    hcpu,                \* the CPU it runs on
    interrupts,          \* interrupts raised so far; the stamp the last one stores
    taken                \* history: the entries removed from the array, in order

vars == <<example_array, example_array_end, example_array_spl, example_array_wq,
          irqs_off, pc, value, hpc, hcpu, interrupts, taken>>

Slots == 0 .. EXAMPLE_ARRAY_SIZE - 1

TypeOK ==
    /\ example_array \in [Slots -> Nat]
    /\ example_array_end \in 0 .. EXAMPLE_ARRAY_SIZE
    /\ example_array_spl \in BOOLEAN
    /\ example_array_wq \subseteq Readers
    /\ irqs_off \in [Cpus -> Readers \cup {None}]
    /\ pc \in [Readers -> {"idle", "lock", "spin", "test", "peek", "shift", "unlock",
                           "copy", "empty", "prepare", "check", "sleep", "signalled"}]
    /\ value \in [Readers -> Nat]
    /\ hpc \in {"idle", "spin", "store", "incr", "unlock", "wake"}
    /\ hcpu \in Cpus \cup {None}
    /\ interrupts \in Nat
    /\ taken \in Seq(Nat)

Init ==
    /\ example_array = [i \in Slots |-> 0]
    /\ example_array_end = 0
    /\ example_array_spl = FALSE
    /\ example_array_wq = {}
    /\ irqs_off = [c \in Cpus |-> None]
    /\ pc = [r \in Readers |-> "idle"]
    /\ value = [r \in Readers |-> 0]
    /\ hpc = "idle"
    /\ hcpu = None
    /\ interrupts = 0
    /\ taken = <<>>
-----------------------------------------------------------------------------
\* A reader runs unless the handler, or a reader that must not be preempted, has its CPU.
CanRun(r) == hcpu # CpuOf[r] /\ irqs_off[CpuOf[r]] \in {None, r}

At(r, label) == pc[r] = label /\ CanRun(r)
Goto(r, label) == pc' = [pc EXCEPT ![r] = label]

\* spin_unlock_irqrestore(): the lock is free, the CPU takes interrupts again.
UnlockIrqRestore(r) ==
    /\ example_array_spl' = FALSE
    /\ irqs_off' = [irqs_off EXCEPT ![CpuOf[r]] = None]

handlerVars == <<hpc, hcpu, interrupts>>
arrayVars == <<example_array, example_array_end, taken>>

\* A process calls read().
Call(r) ==
    /\ At(r, "idle")
    /\ Goto(r, "lock")
    /\ UNCHANGED <<arrayVars, example_array_spl, example_array_wq, irqs_off, value, handlerVars>>

\* MUTANT of IrqSave: plain spin_lock() in read(), the interrupts stay on.
IrqSaveLeavesIrqsOn(r) ==
    /\ At(r, "lock")
    /\ Goto(r, "spin")
    /\ UNCHANGED <<arrayVars, example_array_spl, example_array_wq, irqs_off, value, handlerVars>>

\* spin_lock_irqsave(), first half: local interrupts and preemption go off.
IrqSave(r) ==
    /\ At(r, "lock")
    /\ irqs_off' = [irqs_off EXCEPT ![CpuOf[r]] = r]
    /\ Goto(r, "spin")
    /\ UNCHANGED <<arrayVars, example_array_spl, example_array_wq, value, handlerVars>>

\* MUTANT of SpinAcquire: only the local interrupts are masked, the lock is not waited for.
SpinAcquireAnyway(r) ==
    /\ At(r, "spin")
    /\ example_array_spl' = TRUE
    /\ Goto(r, "test")
    /\ UNCHANGED <<arrayVars, example_array_wq, irqs_off, value, handlerVars>>

\* spin_lock_irqsave(), second half: spin until the lock is free.
SpinAcquire(r) ==
    /\ At(r, "spin")
    /\ ~ example_array_spl
    /\ example_array_spl' = TRUE
    /\ Goto(r, "test")
    /\ UNCHANGED <<arrayVars, example_array_wq, irqs_off, value, handlerVars>>

\* while (example_array_end == 0): unlock before anything that may sleep.
FindEmpty(r) ==
    /\ At(r, "test")
    /\ example_array_end = 0
    /\ UnlockIrqRestore(r)
    /\ Goto(r, "empty")
    /\ UNCHANGED <<arrayVars, example_array_wq, value, handlerVars>>

FindEvent(r) ==
    /\ At(r, "test")
    /\ example_array_end # 0
    /\ Goto(r, "peek")
    /\ UNCHANGED <<arrayVars, example_array_spl, example_array_wq, irqs_off, value, handlerVars>>

\* value = example_array[0]
Peek(r) ==
    /\ At(r, "peek")
    /\ value' = [value EXCEPT ![r] = example_array[0]]
    /\ Goto(r, "shift")
    /\ UNCHANGED <<arrayVars, example_array_spl, example_array_wq, irqs_off, handlerVars>>

\* MUTANT of Shift: memmove() of one entry too few.
ShiftOneShort(r) ==
    /\ At(r, "shift")
    /\ example_array_end' = example_array_end - 1
    /\ example_array' = [i \in Slots |-> IF i < example_array_end - 2
                                         THEN example_array[i + 1] ELSE example_array[i]]
    /\ taken' = Append(taken, value[r])
    /\ Goto(r, "unlock")
    /\ UNCHANGED <<example_array_spl, example_array_wq, irqs_off, value, handlerVars>>

\* example_array_end--, then memmove() of that many entries one slot down.
Shift(r) ==
    /\ At(r, "shift")
    /\ example_array_end' = example_array_end - 1
    /\ example_array' = [i \in Slots |-> IF i < example_array_end - 1
                                         THEN example_array[i + 1] ELSE example_array[i]]
    /\ taken' = Append(taken, value[r])
    /\ Goto(r, "unlock")
    /\ UNCHANGED <<example_array_spl, example_array_wq, irqs_off, value, handlerVars>>

Unlock(r) ==
    /\ At(r, "unlock")
    /\ UnlockIrqRestore(r)
    /\ Goto(r, "copy")
    /\ UNCHANGED <<arrayVars, example_array_wq, value, handlerVars>>

\* Formatting and copy_to_user(): success, -ENOMEM (short buffer) and -EFAULT all end the
\* call, and none of them puts the entry back.
Return(r) ==
    /\ At(r, "copy")
    /\ Goto(r, "idle")
    /\ UNCHANGED <<arrayVars, example_array_spl, example_array_wq, irqs_off, value, handlerVars>>
-----------------------------------------------------------------------------
\* if (filp->f_flags & O_NONBLOCK) return -EAGAIN
TryAgain(r) ==
    /\ At(r, "empty")
    /\ r \in NonBlocking
    /\ Goto(r, "idle")
    /\ UNCHANGED <<arrayVars, example_array_spl, example_array_wq, irqs_off, value, handlerVars>>

\* wait_event_interruptible() tests its condition before it queues the caller.
WaitEvent(r) ==
    /\ At(r, "empty")
    /\ r \notin NonBlocking
    /\ Goto(r, IF example_array_end # 0 THEN "lock" ELSE "prepare")
    /\ UNCHANGED <<arrayVars, example_array_spl, example_array_wq, irqs_off, value, handlerVars>>

\* prepare_to_wait_event(): queue the caller ...
PrepareToWait(r) ==
    /\ At(r, "prepare")
    /\ example_array_wq' = example_array_wq \cup {r}
    /\ Goto(r, "check")
    /\ UNCHANGED <<arrayVars, example_array_spl, irqs_off, value, handlerVars>>

\* ... then test the condition again, and schedule() only if it is still false.
CheckCondition(r) ==
    /\ At(r, "check")
    /\ IF example_array_end # 0
       THEN /\ example_array_wq' = example_array_wq \ {r}
            /\ Goto(r, "lock")
       ELSE /\ Goto(r, "sleep")
            /\ UNCHANGED example_array_wq
    /\ UNCHANGED <<arrayVars, example_array_spl, irqs_off, value, handlerVars>>

\* schedule() returns once a wake-up has taken the caller off the queue.
WakeUp(r) ==
    /\ At(r, "sleep")
    /\ r \notin example_array_wq
    /\ Goto(r, "prepare")
    /\ UNCHANGED <<arrayVars, example_array_spl, example_array_wq, irqs_off, value, handlerVars>>

\* A signal arrives while the caller waits.
Signal(r) ==
    /\ pc[r] \in {"prepare", "sleep"}
    /\ CanRun(r)
    /\ example_array_wq' = example_array_wq \ {r}
    /\ Goto(r, "signalled")
    /\ UNCHANGED <<arrayVars, example_array_spl, irqs_off, value, handlerVars>>

\* The condition still wins over the signal; otherwise return -ERESTARTSYS.
Interrupted(r) ==
    /\ At(r, "signalled")
    /\ Goto(r, IF example_array_end # 0 THEN "lock" ELSE "idle")
    /\ UNCHANGED <<arrayVars, example_array_spl, example_array_wq, irqs_off, value, handlerVars>>
-----------------------------------------------------------------------------
readerVars == <<irqs_off, pc, value>>

\* A rising edge: the line's handler is not reentrant and needs a CPU that takes interrupts.
Interrupt(c) ==
    /\ hpc = "idle"
    /\ irqs_off[c] = None
    /\ interrupts < MaxInterrupts
    /\ interrupts' = interrupts + 1
    /\ hcpu' = c
    /\ hpc' = "spin"
    /\ UNCHANGED <<arrayVars, example_array_spl, example_array_wq, readerVars>>

\* spin_lock() in example_handler()
HandlerAcquire ==
    /\ hpc = "spin"
    /\ ~ example_array_spl
    /\ example_array_spl' = TRUE
    /\ hpc' = "store"
    /\ UNCHANGED <<arrayVars, example_array_wq, readerVars, hcpu, interrupts>>

\* MUTANT of HandlerDrop: "<=" for "<", the write past the end is taken for a drop that counts.
HandlerDropOffByOne ==
    /\ hpc = "store"
    /\ example_array_end >= EXAMPLE_ARRAY_SIZE
    /\ hpc' = IF example_array_end = EXAMPLE_ARRAY_SIZE THEN "incr" ELSE "unlock"
    /\ UNCHANGED <<arrayVars, example_array_spl, example_array_wq, readerVars, hcpu, interrupts>>

\* if (example_array_end < EXAMPLE_ARRAY_SIZE) example_array[example_array_end] = jiffies
HandlerStore ==
    /\ hpc = "store"
    /\ example_array_end < EXAMPLE_ARRAY_SIZE
    /\ example_array' = [example_array EXCEPT ![example_array_end] = interrupts]
    /\ hpc' = "incr"
    /\ UNCHANGED <<example_array_end, taken, example_array_spl, example_array_wq, readerVars,
                   hcpu, interrupts>>

HandlerDrop ==
    /\ hpc = "store"
    /\ example_array_end >= EXAMPLE_ARRAY_SIZE
    /\ hpc' = "unlock"
    /\ UNCHANGED <<arrayVars, example_array_spl, example_array_wq, readerVars, hcpu, interrupts>>

\* example_array_end++
HandlerIncrement ==
    /\ hpc = "incr"
    /\ example_array_end' = example_array_end + 1
    /\ hpc' = "unlock"
    /\ UNCHANGED <<example_array, taken, example_array_spl, example_array_wq, readerVars,
                   hcpu, interrupts>>

HandlerUnlock ==
    /\ hpc = "unlock"
    /\ example_array_spl' = FALSE
    /\ hpc' = "wake"
    /\ UNCHANGED <<arrayVars, example_array_wq, readerVars, hcpu, interrupts>>

\* MUTANT of HandlerWake: return IRQ_HANDLED without the wake-up.
HandlerWakeForgotten ==
    /\ hpc = "wake"
    /\ hpc' = "idle"
    /\ hcpu' = None
    /\ UNCHANGED <<arrayVars, example_array_spl, example_array_wq, readerVars, interrupts>>

\* wake_up_interruptible() wakes every queued reader; then return IRQ_HANDLED.
HandlerWake ==
    /\ hpc = "wake"
    /\ example_array_wq' = {}
    /\ hpc' = "idle"
    /\ hcpu' = None
    /\ UNCHANGED <<arrayVars, example_array_spl, readerVars, interrupts>>
-----------------------------------------------------------------------------
\* What a reader that is inside read() does by itself: neither the call nor a signal.
ReadStep(r) ==
    \/ IrqSave(r) \/ SpinAcquire(r)
    \/ FindEmpty(r) \/ FindEvent(r) \/ Peek(r) \/ Shift(r) \/ Unlock(r) \/ Return(r)
    \/ TryAgain(r) \/ WaitEvent(r) \/ PrepareToWait(r) \/ CheckCondition(r)
    \/ WakeUp(r) \/ Interrupted(r)

HandlerStep ==
    \/ HandlerAcquire \/ HandlerStore \/ HandlerDrop \/ HandlerIncrement
    \/ HandlerUnlock \/ HandlerWake

Next ==
    \/ \E r \in Readers : Call(r) \/ Signal(r) \/ ReadStep(r)
    \/ \E c \in Cpus : Interrupt(c)
    \/ HandlerStep

\* The kernel's spinlocks are queued, so a spinning context gets the lock in the end, and
\* the scheduler gives every runnable reader its CPU again: both are strong fairness.
Fairness ==
    /\ \A r \in Readers : SF_vars(ReadStep(r))
    /\ SF_vars(HandlerStep)

Spec == Init /\ [][Next]_vars /\ Fairness
-----------------------------------------------------------------------------
Critical(r) == pc[r] \in {"test", "peek", "shift", "unlock"}
HandlerCritical == hpc \in {"store", "incr", "unlock"}

\* The array and its length are touched by one context at a time: two readers, or a reader
\* and the handler, are never both between lock and unlock.
ArrayExclusive ==
    /\ \A r \in Readers : Critical(r) => ~ HandlerCritical
    /\ \A r, s \in Readers : Critical(r) /\ Critical(s) => r = s

\* The handler never spins on a CPU whose interrupted process holds the lock: that process
\* could not run to release it (why read() uses the irqsave variant).
NoSelfDeadlock ==
    hpc = "spin" => \A r \in Readers : CpuOf[r] = hcpu => ~ Critical(r)

\* A reader sleeps beside a non-empty array only while the handler that filled it still has
\* its wake_up_interruptible() to do.
NoLostWakeup ==
    \A r \in Readers :
        pc[r] = "sleep" /\ r \in example_array_wq /\ example_array_end # 0
            => hpc \in {"unlock", "wake"}

\* The handler and read() implement the bounded FIFO of BoundedFifo: order of interrupts,
\* each taken once, forgotten only when the array is full.
Fifo == INSTANCE BoundedFifo WITH
    Capacity <- EXAMPLE_ARRAY_SIZE,
    fifo     <- [i \in 1 .. example_array_end |-> example_array[i - 1]],
    arrived  <- IF hpc \in {"spin", "store", "incr"} THEN interrupts - 1 ELSE interrupts,
    taken    <- taken

FifoSpec == Fifo!FifoSpec

\* Every interrupt is served to the end, whatever the readers hold or spin for.
HandlerReturns == hpc # "idle" ~> hpc = "idle"

\* A blocked reader does not stay asleep beside an event nobody has taken.
SleeperWakes ==
    \A r \in Readers : (pc[r] = "sleep" /\ example_array_end # 0) ~> pc[r] # "sleep"
=============================================================================
