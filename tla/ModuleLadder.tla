---------------------------- MODULE ModuleLadder ----------------------------
(***************************************************************************)
(* The life of a module, or of a device bound to a driver: init() takes    *)
(* resources one after the other and, when one cannot be had, releases     *)
(* those it has and fails; exit() releases them all.  What a driver takes  *)
(* and releases, in which order, is data (see DriverLadders); the machine  *)
(* runs it against the entry points the resources open meanwhile: system   *)
(* calls, interrupts and their bottom halves, timers, a thread,            *)
(* transmissions.                                                          *)
(***************************************************************************)
EXTENDS Naturals, Sequences

CONSTANTS
    Drivers,
    Ladder,     \* Ladder[d].init: the steps of init() or probe();  .exit: what exit() or
                \* remove() releases, in order;  .uses[e]: what the code behind entry point
                \* e touches;  .devm: what the core releases after exit();  .owned: the
                \* files keep the module loaded
    Exempt      \* Exempt[p]: the drivers known to break property p, see README.md

ASSUME LadderAssumption ==
    \A d \in Drivers :
        /\ Ladder[d].init \in Seq([takes : SUBSET STRING, undo : Seq(STRING),
                                  on_error : {"undo", "none", "ignored"}])
        /\ Ladder[d].init # <<>>
        /\ Ladder[d].exit \in Seq(STRING)

VARIABLES
    driver,     \* the driver that is loaded
    stage,      \* "absent", "init", "undo", "live" or "exit"
    step,       \* the number of steps of init() done
    todo,       \* the releases init() or exit() still has to make
    managed,    \* devm resources the core will release after that
    held,       \* the resources the driver has
    running,    \* the entry points being executed
    pending     \* the entry points the kernel will call by itself

vars == <<driver, stage, step, todo, managed, held, running, pending>>
-----------------------------------------------------------------------------
\* The kernel's side: which resources are entry points, and when.
Files    == {"misc", "misc1", "cdev", "usbdev"}
Autonomous == {"timer", "hrtimer", "thread"}         \* armed when taken, then by themselves
Bottoms  == {"tasklet", "work", "irq_thread"}        \* scheduled by the interrupt
Direct   == {"irq", "proc", "net0", "net1"}
EntryPoints == Files \cup Autonomous \cup Bottoms \cup Direct

\* What a resource stands on, and must not outlive.
BuiltOn(r) ==
    CASE r = "irq"  -> {"gpio_in"}
      [] r = "proc" -> {"proc_dir"}
      [] r = "node" -> {"class", "region"}
      [] r = "cdev" -> {"region"}
      [] r = "net0" -> {"dev0"}
      [] r = "net1" -> {"dev1"}
      [] OTHER      -> {}

\* The entry points that the release of r waits for.  free_irq(), proc_remove(),
\* unregister_netdev(), tasklet_kill(), flush_work(), hrtimer_cancel(), kthread_stop() do;
\* misc_deregister(), cdev_del(), usb_deregister_dev() and del_timer() do not.
Awaits(r) ==
    CASE r = "irq" -> {"irq", "irq_thread"}
      [] r \in {"proc", "net0", "net1", "hrtimer", "thread", "tasklet", "work"} -> {r}
      [] OTHER -> {}

\* Releases that do no harm when there is nothing to release.
Idempotent == {"node", "tasklet", "work"}

\* Memory of the module itself, gone with it.
Static == {"lock"}

Uses(e) == IF e \in DOMAIN Ladder[driver].uses THEN Ladder[driver].uses[e] ELSE {}
Taken(d) == UNION {Ladder[d].init[i].takes : i \in DOMAIN Ladder[d].init}
-----------------------------------------------------------------------------
TypeOK ==
    /\ driver \in Drivers
    /\ stage \in {"absent", "init", "undo", "live", "exit"}
    /\ step \in 0 .. Len(Ladder[driver].init)
    /\ stage = "init" => step < Len(Ladder[driver].init)
    /\ managed \subseteq Ladder[driver].devm
    /\ held \subseteq Taken(driver)
    /\ running \subseteq EntryPoints
    /\ pending \subseteq Autonomous \cup Bottoms

Init ==
    /\ driver \in Drivers
    /\ stage = "absent"
    /\ step = 0
    /\ todo = <<>>
    /\ managed = {}
    /\ held = {}
    /\ running = {}
    /\ pending = {}

\* insmod, or a device for the driver: never again after a module that left something behind.
Load(d) ==
    /\ stage = "absent"
    /\ held = {} /\ running = {} /\ pending = {}
    /\ driver' = d
    /\ stage' = "init"
    /\ step' = 0
    /\ UNCHANGED <<todo, managed, held, running, pending>>

NextStep == Ladder[driver].init[step + 1]
StepDone ==
    /\ step' = step + 1
    /\ stage' = IF step + 1 = Len(Ladder[driver].init) THEN "live" ELSE "init"

\* MUTANT of Take: init() does not see that the last step was the last.
TakeGoesOn ==
    /\ stage = "init"
    /\ held' = held \cup NextStep.takes
    /\ pending' = pending \cup (NextStep.takes \cap Autonomous)
    /\ step' = step + 1
    /\ UNCHANGED <<driver, stage, todo, managed, running>>

\* A step of init() succeeds; what is armed by it runs from now on.
Take ==
    /\ stage = "init"
    /\ held' = held \cup NextStep.takes
    /\ pending' = pending \cup (NextStep.takes \cap Autonomous)
    /\ StepDone
    /\ UNCHANGED <<driver, todo, managed, running>>

\* A step fails and nobody looks.
IgnoreFailure ==
    /\ stage = "init"
    /\ NextStep.on_error = "ignored"
    /\ StepDone
    /\ UNCHANGED <<driver, todo, managed, held, running, pending>>

\* A step fails: init() undoes what its error path lists, and returns the error.
FailStep ==
    /\ stage = "init"
    /\ NextStep.on_error = "undo"
    /\ stage' = "undo"
    /\ todo' = NextStep.undo
    /\ managed' = held \cap Ladder[driver].devm
    /\ UNCHANGED <<driver, step, held, running, pending>>

\* rmmod, which an open file of the module refuses, or the device goes, which it does not.
BeginExit ==
    /\ stage = "live"
    /\ Ladder[driver].owned => running \cap Files = {}
    /\ stage' = "exit"
    /\ todo' = Ladder[driver].exit
    /\ managed' = held \cap Ladder[driver].devm
    /\ UNCHANGED <<driver, step, held, running, pending>>

\* The next release of the error path or of exit(), once what it waits for is over; a timer
\* or a thread is disarmed by it.
Release ==
    /\ stage \in {"undo", "exit"}
    /\ todo # <<>>
    /\ Awaits(Head(todo)) \cap running = {}
    /\ Awaits(Head(todo)) \cap pending \cap Bottoms = {}
    /\ held' = held \ {Head(todo)}
    /\ pending' = pending \ {Head(todo)}
    /\ todo' = Tail(todo)
    /\ UNCHANGED <<driver, stage, step, managed, running>>

\* The driver core releases the devm resources of the device.
ReleaseManaged(r) ==
    /\ stage \in {"undo", "exit"}
    /\ todo = <<>>
    /\ r \in managed
    /\ managed' = managed \ {r}
    /\ held' = held \ {r}
    /\ UNCHANGED <<driver, stage, step, todo, running, pending>>

\* The module's memory is freed, or the device is unbound.
Unloaded ==
    /\ stage \in {"undo", "exit"}
    /\ todo = <<>>
    /\ managed = {}
    /\ stage' = "absent"
    /\ held' = held \ Static
    /\ UNCHANGED <<driver, step, todo, managed, running, pending>>
-----------------------------------------------------------------------------
\* An open file, an interrupt, a transmission, a read of /proc: any time while registered.
\* try_module_get() refuses a new file to a module that is going.
Enter(e) ==
    /\ e \in held \cap (Files \cup Direct)
    /\ e \notin running
    /\ e \in Files /\ Ladder[driver].owned => stage # "exit"
    /\ running' = running \cup {e}
    /\ UNCHANGED <<driver, stage, step, todo, managed, held, pending>>

\* The kernel calls what was armed or scheduled.
Fire(e) ==
    /\ e \in pending \ running
    /\ running' = running \cup {e}
    /\ pending' = pending \ {e}
    /\ UNCHANGED <<driver, stage, step, todo, managed, held>>

\* The code returns: a timer has re-armed itself, a thread goes on, an interrupt has
\* scheduled the driver's bottom half.
Leave(e) ==
    /\ e \in running
    /\ running' = running \ {e}
    /\ pending' = pending \cup ({e} \cap Autonomous)
                          \cup (IF e = "irq" THEN Bottoms \cap DOMAIN Ladder[driver].uses ELSE {})
    /\ UNCHANGED <<driver, stage, step, todo, managed, held>>

Next ==
    \/ \E d \in Drivers : Load(d)
    \/ Take \/ IgnoreFailure \/ FailStep
    \/ BeginExit \/ Release \/ Unloaded
    \/ \E r \in managed : ReleaseManaged(r)
    \/ \E e \in EntryPoints : Enter(e) \/ Fire(e) \/ Leave(e)

Spec == Init /\ [][Next]_vars
-----------------------------------------------------------------------------
Checked(p) == driver \notin Exempt[p]

\* Error paths and exit() release what the driver has, once: nothing that was never taken,
\* nothing that is gone or that the core releases again.
ReleasesHeld ==
    Checked("ReleasesHeld") =>
        /\ stage \in {"undo", "exit"} /\ todo # <<>> => Head(todo) \in held \cup Idempotent
        /\ managed \subseteq held

\* Whatever runs, on any CPU and at any point of init() or exit(), touches only what the
\* driver has by then and still has.
UsersHold ==
    Checked("UsersHold") => \A e \in running : Uses(e) \subseteq held

\* Nothing outlives what it stands on: an interrupt its GPIO, a node its class and number,
\* a registered net device its memory.
BaseHeld ==
    Checked("BaseHeld") => \A r \in held : BuiltOn(r) \cap Taken(driver) \subseteq held

\* After a failed init() or an exit() the driver keeps nothing, no code of it runs but the
\* files that hold it, and the kernel will call none.
Quiescent ==
    Checked("Quiescent") =>
        (stage = "absent" => held = {} /\ pending = {} /\ running \subseteq Files)
=============================================================================
