-------------------------------- MODULE Fpga --------------------------------
(***************************************************************************)
(* The PCI Express driver exemples/05-acces-au-materiel/example-fpga.c.    *)
(* The PCI core binds a card to it (probe) and takes it away (remove, at   *)
(* rmmod or when the card is pulled); processes open its modules, one file *)
(* for each, and transfer bytes to and from them; the card's switches      *)
(* raise an interrupt whose handler toggles the leds.                      *)
(*                                                                         *)
(* Every probe allocates a struct example_fpga_s.  It is named by a        *)
(* number, and live is the one that is not freed (0: none), so that a file *)
(* that outlived its structure can be told.  An access to freed memory     *)
(* may find what was there before, or it is the end of who made it: a      *)
(* process (Oops), the handler (HandlerOops), the PCI core (ProbeOops).    *)
(* Processes are always taken to meet their end.                           *)
(***************************************************************************)
EXTENDS Integers, Sequences, FiniteSets

CONSTANTS
    Users,               \* processes, each with a file of its own
    None,                \* "nobody"
    Switches,
    NB_MINORS,           \* EXAMPLE_FPGA_NB_MINORS
    MODULE_MEM_LENGTH,   \* EXAMPLE_FPGA_MODULE_MEM_LENGTH
    Sizes,               \* the sizes given to read() and write()
    Positions,           \* the positions given to pread() and pwrite()
    OpenedMinors,        \* bound on the minors that processes open
    MaxStructs,          \* bound on the structures that probe() allocates
    MaxBindings          \* bound on the probes that get as far as enabling interrupts

ASSUME UsersAssumption == None \notin Users
ASSUME MinorsAssumption == NB_MINORS \in 1 .. 3
ASSUME SizesAssumption ==
    MODULE_MEM_LENGTH \in Nat \ {0} /\ Sizes \subseteq Nat \ {0} /\ Positions \subseteq Nat
ASSUME BoundAssumption ==
    OpenedMinors \subseteq 0 .. NB_MINORS - 1 /\ MaxStructs \in Nat /\ MaxBindings \in Nat

VARIABLES
    module,              \* "absent", "loaded", "leaving": the class exists but when absent
    core,                \* where the PCI core is in probe() and remove()
    held,                \* what the driver has of the kernel
    unwind,              \* what an error exit or release_pci_device() still gives back
    nodes,               \* the minors that have a device node
    drvdata,             \* pci_get_drvdata(), 0 when NULL
    live,
    generation,          \* how many structures were allocated
    bindings,            \* history: how often interrupts were enabled
    unplugged,           \* history: the structures whose card was pulled out
    \* in the structure
    mtx_open,            \* owner, or None
    module_open,
    msi_enabled,
    irq_handling,
    \* processes
    pc,
    file,                \* [gen, minor, offset]: private_data and the file position
    position, length,    \* of the transfer a process is in
    \* interrupts and the card
    hpc,                 \* where the handler is
    n,                   \* its local n
    value,               \* its static value
    edge,                \* switches + 0x0C: captured edges
    pio_irq,             \* switches + 0x08: interrupts of the switches are enabled
    pcie_irq,            \* controls + 0x50: interrupts of the card are enabled
    raised,              \* a message signalled interrupt is on its way
    due                  \* history: the leds that the captured edges call for

pciVars == <<held, unwind, nodes>>
coreVars == <<module, core, pciVars, drvdata, live, generation, bindings, unplugged>>
structVars == <<mtx_open, module_open, msi_enabled>>
userVars == <<pc, file, position, length>>
cardVars == <<edge, pio_irq, pcie_irq, raised>>
handlerVars == <<hpc, n, value, due>>
vars == <<coreVars, structVars, irq_handling, userVars, cardVars, handlerVars>>

MEM == 0
LEDS == 1
SWITCHES == 2
Minors == 0 .. NB_MINORS - 1

\* What initialize_pci_device() takes in this order once the card is enabled.
Maps == {"mem", "leds", "switches", "controls"}
PciResources == {"enabled", "msi", "bar0", "irq"} \cup Maps
Before(r) ==
    CASE r = "bar0"     -> {"enabled"}
      [] r = "mem"      -> {"enabled", "bar0"}
      [] r = "leds"     -> {"enabled", "bar0", "mem"}
      [] r = "switches" -> {"enabled", "bar0", "mem", "leds"}
      [] r = "controls" -> {"enabled", "bar0", "mem", "leds", "switches"}
      [] r = "irq"      -> {"enabled", "bar0"} \cup Maps
      [] OTHER          -> {}

\* The steps at which a process works on its structure.
UsingStruct == {"open", "locked", "io", "release", "releaselocked"}

NoFile == [gen |-> 0, minor |-> MEM, offset |-> 0]

PciTypes ==
    /\ held \subseteq PciResources \cup {"region", "cdev"}
    /\ unwind \in Seq(PciResources)
    /\ nodes \subseteq Minors

TypeOK ==
    /\ module \in {"absent", "loaded", "leaving"}
    /\ core \in {"absent", "alloc", "enable", "msi", "maps", "irqon", "chrdev", "cdev", "bound",
                 "ignored", "undo", "undo_einval",
                 "cdev_del", "mask", "mask_pio", "free_irq", "unmap", "oops"}
    /\ PciTypes
    /\ live \in {0, generation} /\ drvdata \in {0, generation}
    /\ generation \in 0 .. MaxStructs /\ bindings \in 0 .. MaxBindings
    /\ unplugged \subseteq 1 .. generation
    /\ mtx_open \in Users \cup {None}
    /\ module_open \in [Minors -> 0 .. 1]
    /\ msi_enabled \in BOOLEAN /\ irq_handling \in BOOLEAN
    /\ pc \in [Users -> {"idle", "opened", "oops"} \cup UsingStruct]
    /\ file \in [Users -> [gen : 0 .. generation, minor : Minors, offset : 0 .. MODULE_MEM_LENGTH]]
    /\ position \in [Users -> Nat] /\ length \in [Users -> Nat]
    /\ hpc \in {"idle", "status", "edge", "leds", "ack", "reset", "enable", "pcie", "oops"}
    /\ n \subseteq Switches /\ value \subseteq Switches /\ edge \subseteq Switches
    /\ due \subseteq Switches
    /\ {pio_irq, pcie_irq, raised} \subseteq BOOLEAN

Init ==
    /\ module = "absent" /\ core = "absent"
    /\ held = {} /\ unwind = <<>> /\ nodes = {}
    /\ drvdata = 0 /\ live = 0 /\ generation = 0 /\ bindings = 0 /\ unplugged = {}
    /\ mtx_open = None /\ module_open = [m \in Minors |-> 0]
    /\ msi_enabled = FALSE /\ irq_handling = FALSE
    /\ pc = [u \in Users |-> "idle"]
    /\ file = [u \in Users |-> NoFile]
    /\ position = [u \in Users |-> 0] /\ length = [u \in Users |-> 0]
    /\ hpc = "idle" /\ n = {} /\ value = {} /\ due = {}
    /\ edge = {} /\ pio_irq = FALSE /\ pcie_irq = FALSE /\ raised = FALSE
-----------------------------------------------------------------------------
\* The card: it interrupts while an edge is captured and both enables are on.  With MSI a
\* message is sent when that begins, without it the line stays asserted.
Asserts(e, pio, pcie) == e # {} /\ pio /\ pcie
Asserted == Asserts(edge, pio_irq, pcie_irq)

Xor(a, b) == (a \ b) \cup (b \ a)

SetCard(e, pio, pcie) ==
    /\ edge' = e /\ pio_irq' = pio /\ pcie_irq' = pcie
    /\ raised' = (raised \/ ("msi" \in held /\ Asserts(e, pio, pcie) /\ ~ Asserted))

\* A second edge of the same switch is not told from the first.
Flip(s) ==
    /\ SetCard(edge \cup {s}, pio_irq, pcie_irq)
    /\ due' = Xor(due, {s} \ edge)
    /\ UNCHANGED <<coreVars, structVars, irq_handling, userVars, hpc, n, value>>

\* The kernel calls the handler: for a message, or for a line which other cards share.
Interrupt ==
    /\ hpc = "idle"
    /\ "irq" \in held
    /\ "msi" \in held => raised
    /\ raised' = FALSE
    /\ hpc' = "status"
    /\ UNCHANGED <<coreVars, structVars, irq_handling, userVars, edge, pio_irq, pcie_irq,
                   n, value, due>>

HandlerGoto(label) ==
    /\ hpc' = label
    /\ UNCHANGED <<coreVars, structVars, irq_handling, userVars>>

\* Has the card interrupted?  If not: IRQ_NONE.
HandlerStatus ==
    /\ hpc = "status"
    /\ HandlerGoto(IF edge # {} /\ pio_irq THEN "edge" ELSE "idle")
    /\ UNCHANGED <<cardVars, n, value, due>>

\* Which switch?
HandlerEdge ==
    /\ hpc = "edge"
    /\ n' = edge
    /\ HandlerGoto("leds")
    /\ UNCHANGED <<cardVars, value, due>>

\* value = value ^ n, unless an ioctl() turned it off: then the edge calls for nothing.
HandlerLeds ==
    /\ hpc = "leds"
    /\ value' = IF irq_handling THEN Xor(value, n) ELSE value
    /\ due' = IF irq_handling THEN due ELSE Xor(due, n)
    /\ HandlerGoto("ack")
    /\ UNCHANGED <<cardVars, n>>

HandlerAck ==
    /\ hpc = "ack"
    /\ SetCard(edge, FALSE, pcie_irq)
    /\ HandlerGoto("reset")
    /\ UNCHANGED <<n, value, due>>

\* MUTANT of HandlerReset: the edge capture register is not reset.
HandlerResetForgotten ==
    /\ hpc = "reset"
    /\ HandlerGoto("enable")
    /\ UNCHANGED <<cardVars, n, value, due>>

\* All captured edges are cleared.  Those that came after HandlerEdge are lost: due forgets
\* them, as it does in EnableInterrupts.
HandlerReset ==
    /\ hpc = "reset"
    /\ SetCard({}, pio_irq, pcie_irq)
    /\ due' = Xor(due, edge \ n)
    /\ HandlerGoto("enable")
    /\ UNCHANGED <<n, value>>

\* MUTANT of HandlerEnable: the interrupts of the switches are not enabled again.
HandlerEnableForgotten ==
    /\ hpc = "enable"
    /\ HandlerGoto("pcie")
    /\ UNCHANGED <<cardVars, n, value, due>>

HandlerEnable ==
    /\ hpc = "enable"
    /\ SetCard(edge, TRUE, pcie_irq)
    /\ HandlerGoto("pcie")
    /\ UNCHANGED <<n, value, due>>

HandlerPcie ==
    /\ hpc = "pcie"
    /\ SetCard(edge, pio_irq, TRUE)
    /\ n' = {}
    /\ HandlerGoto("idle")
    /\ UNCHANGED <<value, due>>

\* The handler finds its structure freed, and with it the mappings that it reads there.
HandlerOops ==
    /\ hpc \notin {"idle", "oops"} /\ live = 0
    /\ HandlerGoto("oops")
    /\ UNCHANGED <<cardVars, n, value, due>>

HandlerStep ==
    \/ HandlerStatus \/ HandlerEdge \/ HandlerLeds \/ HandlerAck
    \/ HandlerReset \/ HandlerEnable \/ HandlerPcie
-----------------------------------------------------------------------------
\* probe() and remove(): one thread of the PCI core at a time.
CoreMoves(label) ==
    /\ core' = label
    /\ UNCHANGED <<module, generation, bindings, unplugged, userVars, handlerVars>>

CoreGoto(label) == CoreMoves(label) /\ UNCHANGED <<unwind, nodes>>

Insmod ==
    /\ module = "absent"
    /\ module' = "loaded"
    /\ value' = {} /\ due' = edge
    /\ UNCHANGED <<core, pciVars, drvdata, live, generation, bindings, unplugged, structVars,
                   irq_handling, userVars, cardVars, hpc, n>>

\* MUTANT of ModuleInUse: the file_operations have no .owner.
ModuleNeverInUse == FALSE

ModuleInUse == \E u \in Users : pc[u] # "idle"

Rmmod ==
    /\ module = "loaded" /\ ~ ModuleInUse
    /\ core \in {"absent", "bound", "ignored"}
    /\ module' = "leaving"
    /\ UNCHANGED <<core, pciVars, drvdata, live, generation, bindings, unplugged, structVars,
                   irq_handling, userVars, cardVars, handlerVars>>

\* A card is there.  Without an irq it is ignored, and so it is when probe() returns the
\* positive EINVAL, which the PCI core takes for a success.
Probe(irq) ==
    /\ module = "loaded" /\ core = "absent"
    /\ generation < MaxStructs /\ bindings < MaxBindings
    /\ drvdata' = 0
    /\ core' = IF irq = 0 THEN "ignored" ELSE "alloc"
    /\ UNCHANGED <<module, pciVars, live, generation, bindings, unplugged, structVars,
                   irq_handling, userVars, cardVars, handlerVars>>

ProbeAlloc ==
    /\ core = "alloc"
    /\ core' = "enable"
    /\ generation' = generation + 1 /\ live' = generation'
    /\ mtx_open' = None /\ module_open' = [m \in Minors |-> 0]
    /\ msi_enabled' = FALSE /\ irq_handling' = TRUE
    /\ UNCHANGED <<module, pciVars, drvdata, bindings, unplugged, userVars, cardVars,
                   handlerVars>>

ProbeNoMem ==
    /\ core = "alloc"
    /\ CoreGoto("absent")
    /\ UNCHANGED <<held, drvdata, live, structVars, irq_handling, cardVars>>

EnableDevice ==
    /\ core = "enable"
    /\ held' = held \cup {"enabled"}
    /\ CoreGoto("msi")
    /\ UNCHANGED <<drvdata, live, structVars, irq_handling, cardVars>>

\* The MSI may be refused; it is when it is still enabled.
EnableMsi(granted) ==
    /\ core = "msi"
    /\ granted => "msi" \notin held
    /\ held' = IF granted THEN held \cup {"msi"} ELSE held
    /\ msi_enabled' = granted
    /\ CoreGoto("maps")
    /\ UNCHANGED <<drvdata, live, mtx_open, module_open, irq_handling, cardVars>>

Take(r) ==
    /\ core = "maps"
    /\ held \ {"msi"} = Before(r)
    /\ held' = held \cup {r}
    /\ CoreGoto(IF r = "irq" THEN "irqon" ELSE "maps")
    /\ UNCHANGED <<drvdata, live, structVars, irq_handling, cardVars>>

\* MUTANT of Unwind: the list of the controls forgets a mapping.
UnwindShort(r) ==
    CASE r = "enabled"  -> <<>>
      [] r = "bar0"     -> <<"enabled">>
      [] r = "mem"      -> <<"bar0", "enabled">>
      [] r = "leds"     -> <<"mem", "bar0", "enabled">>
      [] r = "switches" -> <<"leds", "mem", "bar0", "enabled">>
      [] r = "controls" -> <<"switches", "mem", "bar0", "enabled">>
      [] r = "irq"      -> <<"controls", "switches", "leds", "mem", "bar0", "enabled">>

\* What initialize_pci_device() gives back when it cannot have r: one list for each error, and
\* the MSI is in none.
Unwind(r) ==
    CASE r = "enabled"  -> <<>>
      [] r = "bar0"     -> <<"enabled">>
      [] r = "mem"      -> <<"bar0", "enabled">>
      [] r = "leds"     -> <<"mem", "bar0", "enabled">>
      [] r = "switches" -> <<"leds", "mem", "bar0", "enabled">>
      [] r = "controls" -> <<"switches", "leds", "mem", "bar0", "enabled">>
      [] r = "irq"      -> <<"controls", "switches", "leds", "mem", "bar0", "enabled">>

\* pci_enable_device() and pci_request_region() return a negative error, the rest is EINVAL.
PciFail(r) ==
    /\ \/ core = "enable" /\ r = "enabled"
       \/ core = "maps" /\ r # "enabled" /\ held \ {"msi"} = Before(r)
    /\ unwind' = Unwind(r)
    /\ CoreMoves(IF r \in {"enabled", "bar0"} THEN "undo" ELSE "undo_einval")
    /\ UNCHANGED <<held, nodes, drvdata, live, structVars, irq_handling, cardVars>>

\* The next release of an error exit or of release_pci_device().
GiveBack ==
    /\ unwind # <<>>
    /\ core \in {"undo", "undo_einval", "unmap"}
    /\ held' = held \ {Head(unwind)}
    /\ unwind' = Tail(unwind)
    /\ CoreMoves(core)
    /\ UNCHANGED <<nodes, drvdata, live, structVars, irq_handling, cardVars>>

\* The end of initialize_pci_device(), and pci_set_drvdata().
EnableInterrupts ==
    /\ core = "irqon"
    /\ SetCard({}, TRUE, TRUE)
    /\ due' = Xor(due, edge)
    /\ drvdata' = live
    /\ bindings' = bindings + 1
    /\ core' = "chrdev"
    /\ UNCHANGED <<module, pciVars, live, generation, unplugged, structVars,
                   irq_handling, userVars, hpc, n, value>>

ChrdevRegion ==
    /\ core = "chrdev"
    /\ held' = held \cup {"region"}
    /\ CoreGoto("cdev")
    /\ UNCHANGED <<drvdata, live, structVars, irq_handling, cardVars>>

\* initialize_char_device() frees the structure; probe() goes on to release_pci_device() with
\* it, while the interrupts are still enabled and their handler is given it.
ChrdevRegionFail ==
    /\ core = "chrdev"
    /\ live' = 0
    /\ CoreGoto("mask")
    /\ UNCHANGED <<held, drvdata, structVars, irq_handling, cardVars>>

\* Each minor has its device_create(), then cdev_add().
CdevAdd ==
    /\ core = "cdev"
    /\ held' = held \cup {"cdev"}
    /\ nodes' = Minors
    /\ CoreMoves("bound")
    /\ UNCHANGED <<unwind, drvdata, live, structVars, irq_handling, cardVars>>

\* One device_destroy() for all of them: the other minors keep their nodes.
CdevFail ==
    /\ core = "cdev"
    /\ held' = held \ {"region"}
    /\ nodes' = Minors \ {0}
    /\ CoreMoves("mask")
    /\ UNCHANGED <<unwind, drvdata, live, structVars, irq_handling, cardVars>>

\* remove() is called because the module leaves, or the card does.
RemoveCalled ==
    /\ core \in {"bound", "ignored"}
    /\ core' = IF drvdata = 0 THEN "absent" ELSE "cdev_del"
    /\ UNCHANGED <<module, pciVars, drvdata, live, generation, bindings, structVars,
                   irq_handling, userVars, cardVars, handlerVars>>

RemoveAtRmmod ==
    /\ module = "leaving"
    /\ RemoveCalled
    /\ UNCHANGED unplugged

Unplug ==
    /\ RemoveCalled
    /\ unplugged' = unplugged \cup ({live} \ {0})

ReleaseCharDevice ==
    /\ core = "cdev_del"
    /\ held' = held \ {"cdev", "region"}
    /\ nodes' = {}
    /\ CoreMoves("mask")
    /\ UNCHANGED <<unwind, drvdata, live, structVars, irq_handling, cardVars>>

\* release_pci_device(), which the errors of initialize_char_device() run too.
MaskPcieIrq ==
    /\ core = "mask"
    /\ SetCard(edge, pio_irq, FALSE)
    /\ CoreGoto("mask_pio")
    /\ UNCHANGED <<held, drvdata, live, structVars, irq_handling>>

MaskPioIrq ==
    /\ core = "mask_pio"
    /\ SetCard(edge, FALSE, pcie_irq)
    /\ CoreGoto("free_irq")
    /\ UNCHANGED <<held, drvdata, live, structVars, irq_handling>>

\* What release_pci_device() gives back after the interrupt: the MSI last but one.
PciRelease ==
    IF msi_enabled
    THEN <<"controls", "switches", "leds", "mem", "bar0", "msi", "enabled">>
    ELSE <<"controls", "switches", "leds", "mem", "bar0", "enabled">>

\* MUTANT of FreeIrq: the handler is removed without waiting for the one that runs.
FreeIrqNoSync ==
    /\ core = "free_irq"
    /\ held' = held \ {"irq"}
    /\ unwind' = PciRelease
    /\ CoreMoves("unmap")
    /\ UNCHANGED <<nodes, drvdata, live, structVars, irq_handling, cardVars>>

\* free_irq() waits for a handler that is running.
FreeIrq ==
    /\ core = "free_irq" /\ hpc = "idle"
    /\ held' = held \ {"irq"}
    /\ unwind' = PciRelease
    /\ CoreMoves("unmap")
    /\ UNCHANGED <<nodes, drvdata, live, structVars, irq_handling, cardVars>>

\* kfree() at the end of remove() or of a probe() that failed.
FreeStruct ==
    /\ core \in {"undo", "undo_einval", "unmap"} /\ unwind = <<>>
    /\ live # 0
    /\ live' = 0 /\ drvdata' = 0
    /\ CoreGoto(IF core = "undo_einval" THEN "ignored" ELSE "absent")
    /\ UNCHANGED <<held, structVars, irq_handling, cardVars>>

\* probe() finds the structure freed: its mappings are not there, or kfree() has it twice.
ProbeOops ==
    /\ core \in {"mask", "mask_pio", "free_irq", "unmap"} /\ live = 0
    /\ CoreGoto("oops")
    /\ UNCHANGED <<held, drvdata, live, structVars, irq_handling, cardVars>>

Unload ==
    /\ module = "leaving" /\ core = "absent"
    /\ module' = "absent"
    /\ UNCHANGED <<core, pciVars, drvdata, live, generation, bindings, unplugged, structVars,
                   irq_handling, userVars, cardVars, handlerVars>>

ProbeStep ==
    \/ ProbeAlloc \/ ProbeNoMem \/ EnableDevice \/ EnableInterrupts
    \/ \E granted \in BOOLEAN : EnableMsi(granted)
    \/ \E r \in PciResources \ {"enabled", "msi"} : Take(r)
    \/ \E r \in PciResources \ {"msi"} : PciFail(r)
    \/ ChrdevRegion \/ ChrdevRegionFail \/ CdevAdd \/ CdevFail \/ ProbeOops

RemoveStep ==
    \/ RemoveAtRmmod \/ ReleaseCharDevice \/ MaskPcieIrq \/ MaskPioIrq
    \/ GiveBack \/ FreeStruct \/ Unload
-----------------------------------------------------------------------------
\* Processes.  The VFS keeps the module for the files of a driver with an .owner.
Alive(u) == file[u].gen = live

UserGoto(u, label) ==
    /\ pc' = [pc EXCEPT ![u] = label]
    /\ UNCHANGED <<coreVars, msi_enabled, cardVars, handlerVars>>

Forget(u) == file' = [file EXCEPT ![u] = NoFile]

Open(u, m) ==
    /\ pc[u] = "idle"
    /\ module = "loaded" /\ "cdev" \in held
    /\ file' = [file EXCEPT ![u] = [gen |-> live, minor |-> m, offset |-> 0]]
    /\ UserGoto(u, "open")
    /\ UNCHANGED <<mtx_open, module_open, irq_handling, position, length>>

Lock(u) ==
    /\ Alive(u) /\ mtx_open = None
    /\ \/ pc[u] = "open" /\ UserGoto(u, "locked")
       \/ pc[u] = "release" /\ UserGoto(u, "releaselocked")
    /\ mtx_open' = u
    /\ UNCHANGED <<module_open, irq_handling, file, position, length>>

OpenBusy(u) ==
    /\ pc[u] = "locked" /\ Alive(u)
    /\ module_open[file[u].minor] # 0
    /\ mtx_open' = None
    /\ Forget(u)
    /\ UserGoto(u, "idle")
    /\ UNCHANGED <<module_open, irq_handling, position, length>>

\* MUTANT of OpenNoMem: the mutex is not released.
OpenNoMemLocked(u) ==
    /\ pc[u] = "locked" /\ Alive(u)
    /\ module_open[file[u].minor] = 0
    /\ Forget(u)
    /\ UserGoto(u, "idle")
    /\ UNCHANGED <<mtx_open, module_open, irq_handling, position, length>>

OpenNoMem(u) ==
    /\ pc[u] = "locked" /\ Alive(u)
    /\ module_open[file[u].minor] = 0
    /\ mtx_open' = None
    /\ Forget(u)
    /\ UserGoto(u, "idle")
    /\ UNCHANGED <<module_open, irq_handling, position, length>>

\* MUTANT of OpenDone: the module is not marked open.
OpenDoneUncounted(u) ==
    /\ pc[u] = "locked" /\ Alive(u)
    /\ module_open[file[u].minor] = 0
    /\ mtx_open' = None
    /\ UserGoto(u, "opened")
    /\ UNCHANGED <<module_open, irq_handling, file, position, length>>

\* MUTANT of OpenDone: a module that is open is opened again.
OpenDoneUnchecked(u) ==
    /\ pc[u] = "locked" /\ Alive(u)
    /\ module_open' = [module_open EXCEPT ![file[u].minor] = @ + 1]
    /\ mtx_open' = None
    /\ UserGoto(u, "opened")
    /\ UNCHANGED <<irq_handling, file, position, length>>

OpenDone(u) ==
    /\ pc[u] = "locked" /\ Alive(u)
    /\ module_open[file[u].minor] = 0
    /\ module_open' = [module_open EXCEPT ![file[u].minor] = @ + 1]
    /\ mtx_open' = None
    /\ UserGoto(u, "opened")
    /\ UNCHANGED <<irq_handling, file, position, length>>

Close(u) ==
    /\ pc[u] = "opened"
    /\ UserGoto(u, "release")
    /\ UNCHANGED <<mtx_open, module_open, irq_handling, file, position, length>>

ReleaseDone(u) ==
    /\ pc[u] = "releaselocked" /\ Alive(u)
    /\ module_open' = [module_open EXCEPT ![file[u].minor] = @ - 1]
    /\ mtx_open' = None
    /\ Forget(u)
    /\ UserGoto(u, "idle")
    /\ UNCHANGED <<irq_handling, position, length>>

\* MUTANT of Length: the position is forgotten.
LengthWhole(u, at, size) ==
    LET room == IF file[u].minor = MEM THEN MODULE_MEM_LENGTH ELSE 4
    IN  IF room < 0 \/ size < room THEN size ELSE room

\* What a transfer of size bytes is cut to.  length is an int and size a size_t: a position
\* past the end makes length negative, which is more than any size, and nothing is cut.
Length(u, at, size) ==
    LET room == IF file[u].minor = MEM THEN MODULE_MEM_LENGTH - at ELSE 4
    IN  IF room < 0 \/ size < room THEN size ELSE room

\* At the end of the module read() and write() return 0.
Transfer(u, at, size) ==
    /\ pc[u] = "opened" /\ Alive(u)
    /\ Length(u, at, size) > 0
    /\ position' = [position EXCEPT ![u] = at]
    /\ length' = [length EXCEPT ![u] = Length(u, at, size)]
    /\ UserGoto(u, "io")
    /\ UNCHANGED <<mtx_open, module_open, irq_handling, file>>

\* read() and write() are at the file position, pread() and pwrite() elsewhere.
Read(u, size) == \E at \in Positions \cup {file[u].offset} : Transfer(u, at, size)
Write(u, size) == file[u].minor \in {MEM, LEDS} /\ Read(u, size)

\* The mapping a module's bytes are in.
MapOf(m) == CASE m = MEM -> "mem" [] m = LEDS -> "leds" [] m = SWITCHES -> "switches"

EndTransfer(u) ==
    /\ position' = [position EXCEPT ![u] = 0]
    /\ length' = [length EXCEPT ![u] = 0]
    /\ UNCHANGED <<mtx_open, module_open, irq_handling>>

\* The bytes were transferred (the position of LEDS and SWITCHES is never read).
IoDone(u) ==
    /\ pc[u] = "io" /\ Alive(u) /\ MapOf(file[u].minor) \in held
    /\ file' = [file EXCEPT ![u].offset =
           IF file[u].minor = MEM /\ position[u] = @ THEN @ + length[u] ELSE @]
    /\ UserGoto(u, "opened")
    /\ EndTransfer(u)

\* No kernel buffer, or the process's buffer is not accessible.
IoFail(u) ==
    /\ pc[u] = "io"
    /\ UserGoto(u, "opened")
    /\ EndTransfer(u)
    /\ UNCHANGED file

\* EXAMPLE_FPGA_IOCTL_COMMAND_SET_ENABLE_IRQ
Ioctl(u, on) ==
    /\ pc[u] = "opened" /\ Alive(u)
    /\ irq_handling' = on
    /\ UserGoto(u, "opened")
    /\ UNCHANGED <<mtx_open, module_open, file, position, length>>

\* The process uses freed memory, a mapping that is gone or what is past its end: no more is
\* said of it.
Oops(u) ==
    /\ pc[u] \in UsingStruct \cup {"opened"}
    /\ \/ ~ Alive(u)
       \/ pc[u] = "io" /\ MapOf(file[u].minor) \notin held
       \/ pc[u] = "io" /\ file[u].minor = MEM /\ position[u] + length[u] > MODULE_MEM_LENGTH
    /\ UserGoto(u, "oops")
    /\ EndTransfer(u)
    /\ UNCHANGED file

CallStep(u) ==
    \/ Lock(u) \/ OpenBusy(u) \/ OpenNoMem(u) \/ OpenDone(u) \/ ReleaseDone(u)
    \/ IoDone(u) \/ IoFail(u) \/ Oops(u)

UserStep(u) ==
    \/ CallStep(u)
    \/ \E m \in OpenedMinors : Open(u, m)
    \/ Close(u)
    \/ \E size \in Sizes : Read(u, size) \/ Write(u, size)
    \/ \E on \in BOOLEAN : Ioctl(u, on)
-----------------------------------------------------------------------------
Next ==
    \/ Insmod \/ Rmmod \/ Unplug \/ FreeIrq \/ ProbeStep \/ RemoveStep
    \/ \E irq \in 0 .. 1 : Probe(irq)
    \/ Interrupt \/ HandlerStep \/ HandlerOops
    \/ \E s \in Switches : Flip(s)
    \/ \E u \in Users : UserStep(u)

\* A handler goes on, a message is delivered, a mutex wakes who waits for it; processes need
\* not close, cards need not come or go.
Fairness ==
    /\ WF_vars(HandlerStep) /\ WF_vars(Asserted /\ Interrupt)
    /\ \A u \in Users : SF_vars(CallStep(u))

Spec == Init /\ [][Next]_vars /\ Fairness
-----------------------------------------------------------------------------
\* While a file is open the structure its private data points to is not freed, however rmmod,
\* open() and close() interleave (lines 111, 206, 222, 702).  A card that is pulled out is the
\* exception: then remove() does free the structure of open files.
UsersHoldStruct ==
    \A u \in Users : pc[u] # "idle" => (Alive(u) \/ file[u].gen \in unplugged)

\* A module of a card is open once at most, and module_open agrees with the files (lines
\* 193-212, 224), until the structure is freed: remove() itself closes nothing.
ExclusiveOpen ==
    live # 0 => \A m \in Minors :
        LET files == {u \in Users :
                /\ Alive(u) /\ file[u].minor = m
                /\ pc[u] \in {"opened", "io", "oops", "release", "releaselocked"}}
        IN  module_open[m] = Cardinality(files) /\ Cardinality(files) <= 1

\* alloc_chrdev_region() failed: the structure that probe() goes on to use is freed (line 131).
FreedEarly == live = 0 /\ drvdata # 0

\* Whenever the handler may be called or runs, the mappings it uses exist, and the structure
\* it is given does too (lines 537, 570-577, 678, 702).  One path does free it under the
\* handler: the error of line 131, until line 570.
HandlerHoldsDevice ==
    "irq" \in held \/ hpc # "idle" => Maps \subseteq held /\ (live # 0 \/ FreedEarly)

\* A probe() that failed, like a remove(), gives each thing back once and before what it
\* stands on (the lists of lines 471-545 and 574-587), and in the end nothing is left, but the
\* MSI of line 459, which no error exit disables, and after line 145 the device nodes of all
\* minors but 0.  (After line 131 there is no end: kfree() has the structure twice.)
ProbeUndone ==
    /\ core = "absent" \/ (core = "ignored" /\ drvdata = 0) =>
           held \subseteq {"msi"} /\ live = 0 /\ nodes \in {{}, Minors \ {0}}
    /\ unwind # <<>> =>
           /\ Head(unwind) \in held
           /\ \A q \in held : Head(unwind) \notin Before(q)

\* The handler's value, which it writes to the leds, is the parity of the edges that line 612
\* has read: each is counted once, in the interleavings with new edges, with an ioctl() that
\* turns the handling off and on and with masking.  Not counted are the edges that come
\* between line 612 and the reset at 625, which the driver loses.  What write() sends to the
\* leds is another matter.  Stated for the first card only: a second probe() may meet a
\* handler that a remove() left enabled.
EdgesCounted == bindings = 1 /\ hpc \in {"idle", "status", "edge"} => due = Xor(value, edge)

\* A transfer that begins inside its module stays inside it, whatever calls came before; and
\* the file position never leaves the module (lines 249, 263, 281).  A pread() or pwrite() that
\* begins past the end is the exception: line 263 compares its negative length as unsigned.
InsideModule ==
    \A u \in Users : pc[u] = "io" /\ file[u].minor = MEM =>
        /\ position[u] <= MODULE_MEM_LENGTH => position[u] + length[u] <= MODULE_MEM_LENGTH
        /\ file[u].offset <= MODULE_MEM_LENGTH

\* open() and release() come to an end: the mutex of line 193 is always released.
CallReturns ==
    \A u \in Users : pc[u] \in {"open", "release"} ~>
        pc[u] \in {"idle", "opened", "oops"}

\* While a card stays bound the edge of a switch is served: the handler never leaves it
\* captured with no interrupt to come, even when it comes while the handler runs.
SwitchServed ==
    core = "bound" /\ "irq" \in held /\ edge # {} ~> edge = {} \/ core # "bound"
=============================================================================
