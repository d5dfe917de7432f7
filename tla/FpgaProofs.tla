----------------------------- MODULE FpgaProofs -----------------------------
(***************************************************************************)
(* Proofs about Fpga, for any set of processes and of switches, any length *)
(* of the module MEM, any sizes and positions of transfers and any number  *)
(* of probes.                                                              *)
(*                                                                         *)
(* The inductive invariant Inv says what the driver holds at each stage of *)
(* probe() and remove() and what is still in the list of an error exit     *)
(* (HeldInv, UnwindInv, StructInv), that a running handler keeps the interrupt        *)
(* (HandlerInv), which structures the open files may name (FileInv,        *)
(* UsersHoldStruct), who holds the mutex and who has which module open     *)
(* (MutexInv, OpenedInv), where transfers are (InsideModule) and which     *)
(* edges the handler has counted (LedsInv).                                *)
(***************************************************************************)
EXTENDS Fpga, FiniteSetTheorems, TLAPS

\* What a process may have open when g structures were allocated.
Files(g) == [gen : 0 .. g, minor : Minors, offset : 0 .. MODULE_MEM_LENGTH]

\* The MSI is never given back on an error, and may be held at any stage.
Taken == held \ {"msi"}

AllPci == {"enabled", "bar0", "irq"} \cup Maps

\* The lists of release_pci_device() that begin after r was given back, with an MSI.
UnwindMsi(r) ==
    CASE r = "bar0"     -> <<"msi", "enabled">>
      [] r = "mem"      -> <<"bar0", "msi", "enabled">>
      [] r = "leds"     -> <<"mem", "bar0", "msi", "enabled">>
      [] r = "switches" -> <<"leds", "mem", "bar0", "msi", "enabled">>
      [] r = "controls" -> <<"switches", "leds", "mem", "bar0", "msi", "enabled">>
      [] r = "irq"      -> <<"controls", "switches", "leds", "mem", "bar0", "msi", "enabled">>

\* What is held is what the rest of a list gives back: that which was taken before some r.
Unwinding ==
    \/ \E r \in PciResources \ {"msi"} : Taken = Before(r) /\ unwind = Unwind(r)
    \/ \E r \in PciResources \ {"enabled", "msi"} :
           Taken = Before(r) /\ unwind = UnwindMsi(r) /\ "msi" \in held

HeldInv ==
    /\ core \in {"absent", "alloc", "enable", "ignored"} => Taken = {}
    /\ core = "msi" => Taken = {"enabled"}
    /\ core = "maps" => \E r \in PciResources \ {"enabled", "msi"} : Taken = Before(r)
    /\ core \in {"irqon", "chrdev", "mask", "mask_pio", "free_irq"} => Taken = AllPci
    /\ core = "cdev" => Taken = AllPci \cup {"region"}
    /\ core \in {"bound", "cdev_del"} => Taken = AllPci \cup {"region", "cdev"}

UnwindInv ==
    /\ core \in {"undo", "undo_einval", "unmap"} => Unwinding
    /\ core = "oops" => Unwinding \/ (Taken = AllPci /\ unwind = <<>>)
    /\ core \notin {"undo", "undo_einval", "unmap", "oops"} => unwind = <<>>
    /\ core \notin {"bound", "cdev_del"} => nodes \in {{}, Minors \ {0}}
    /\ core \in {"maps", "irqon", "chrdev", "cdev", "bound", "cdev_del", "mask", "mask_pio",
                 "free_irq"} => (msi_enabled => "msi" \in held)

StructInv ==
    /\ core \in {"absent", "alloc", "ignored", "oops"} => live = 0
    /\ core \in {"enable", "msi", "maps", "irqon", "undo", "undo_einval", "chrdev", "cdev",
                 "bound", "cdev_del"} => live # 0
    /\ core \in {"absent", "alloc", "enable", "msi", "maps", "irqon", "undo", "undo_einval",
                 "ignored"} => drvdata = 0
    /\ core \in {"chrdev", "cdev", "bound", "cdev_del"} => drvdata = live
    /\ core \in {"mask", "mask_pio", "free_irq", "unmap", "oops"} =>
           drvdata # 0 /\ live \in {0, drvdata}
    /\ module = "absent" => core = "absent"
    /\ core = "alloc" => generation < MaxStructs
    /\ core \in {"alloc", "enable", "msi", "maps", "irqon"} => bindings < MaxBindings

HandlerInv == hpc # "idle" => "irq" \in held

\* No file names the structure before it can be opened, nor when it is about to be freed.
FileInv ==
    /\ \A u \in Users : pc[u] = "idle" => file[u] = NoFile
    /\ \A u \in Users : pc[u] # "idle" => file[u].gen # 0
    /\ module # "loaded" => \A u \in Users : pc[u] = "idle"
    /\ core \in {"enable", "msi", "maps", "irqon", "undo", "undo_einval", "chrdev", "cdev"} =>
           \A u \in Users : ~ Alive(u)
    /\ core = "cdev_del" => live \in unplugged \/ module = "leaving"
    /\ core \in {"mask", "mask_pio", "free_irq", "unmap"} =>
           live \in unplugged \cup {0} \/ \A u \in Users : ~ Alive(u)

MutexInv == \A u \in Users : Alive(u) /\ pc[u] \in {"locked", "releaselocked"} => mtx_open = u

\* The files of a module m of the card, an open() that succeeded to a release() that did.
HasOpen(u, m) ==
    /\ Alive(u) /\ file[u].minor = m
    /\ pc[u] \in {"opened", "io", "oops", "release", "releaselocked"}

OpenedInv ==
    live # 0 => \A m \in Minors :
        /\ \A u \in Users : HasOpen(u, m) => module_open[m] = 1
        /\ module_open[m] = 1 => \E u \in Users : HasOpen(u, m)
        /\ \A u, v \in Users : HasOpen(u, m) /\ HasOpen(v, m) => u = v

\* Until the first probe() enables interrupts the handler finds none.  Between the read of the
\* edges and their reset the value has those that were read.
LedsInv ==
    /\ bindings = 0 => ~ pio_irq /\ hpc \in {"idle", "status", "oops"}
    /\ bindings <= 1 /\ hpc # "oops" =>
        /\ hpc \in {"leds", "ack", "reset"} => n \subseteq edge
        /\ due = Xor(value, IF hpc \in {"ack", "reset"} THEN edge \ n ELSE edge)

Inv ==
    /\ TypeOK /\ HeldInv /\ UnwindInv /\ StructInv /\ HandlerInv /\ FileInv
    /\ UsersHoldStruct /\ MutexInv /\ OpenedInv /\ InsideModule /\ LedsInv
-----------------------------------------------------------------------------
\* The steps of the PCI core, and those of the card and of its handler.
CoreStep ==
    \/ Insmod \/ Rmmod \/ Unplug \/ FreeIrq \/ ProbeStep \/ RemoveStep
    \/ \E irq \in 0 .. 1 : Probe(irq)

CardStep == Interrupt \/ HandlerStep \/ HandlerOops \/ \E s \in Switches : Flip(s)

\* A step is one of the PCI core, of the card, or of a process.
LEMMA NextGroups ==
    ASSUME [Next]_vars
    PROVE  CoreStep \/ CardStep \/ (\E u \in Users : UserStep(u)) \/ UNCHANGED vars
  BY DEF Next, CoreStep, CardStep

\* read() and write() are transfers from some position.
LEMMA TransferCases ==
    ASSUME TypeOK, NEW u \in Users, NEW size \in Sizes, Read(u, size) \/ Write(u, size)
    PROVE  \E at \in Nat : Transfer(u, at, size)
<1>1. file[u].offset \in 0 .. MODULE_MEM_LENGTH
  BY DEF TypeOK
<1>2. file[u].offset \in Nat /\ Positions \subseteq Nat
  BY <1>1, SizesAssumption
<1>3. QED
  BY <1>2 DEF Read, Write

\* What is opened is a module of the card.
LEMMA OpenCases ==
    ASSUME NEW u \in Users, NEW m \in OpenedMinors, Open(u, m)
    PROVE  \E k \in Minors : Open(u, k)
  BY BoundAssumption DEF Minors

\* The PCI core leaves processes alone and does not run the handler.
LEMMA CoreFrame ==
    ASSUME CoreStep
    PROVE  UNCHANGED <<pc, file, position, length, hpc, n>>
  BY DEF CoreStep, ProbeStep, RemoveStep, userVars, handlerVars, CoreGoto, CoreMoves,
     RemoveCalled,
     Insmod, Rmmod, Unplug, FreeIrq, ProbeAlloc, ProbeNoMem, EnableDevice, EnableInterrupts,
     EnableMsi, Take, PciFail, ChrdevRegion, ChrdevRegionFail, CdevAdd, CdevFail, RemoveAtRmmod,
     ReleaseCharDevice, MaskPcieIrq, MaskPioIrq, GiveBack, FreeStruct, Unload, Probe,
     ProbeOops

\* The card and its handler leave the PCI core's state, the structure and processes alone.
LEMMA CardFrame ==
    ASSUME CardStep
    PROVE  UNCHANGED <<coreVars, structVars, userVars>>
  BY DEF CardStep, HandlerStep, HandlerGoto, Interrupt, Flip, HandlerStatus, HandlerEdge,
     HandlerLeds, HandlerAck, HandlerReset, HandlerEnable, HandlerPcie, HandlerOops

\* A process leaves the PCI core's state, the card and the handler alone.
LEMMA UserFrame ==
    ASSUME NEW u \in Users, UserStep(u)
    PROVE  UNCHANGED <<coreVars, msi_enabled, cardVars, handlerVars>>
  BY DEF UserStep, CallStep, UserGoto, Lock, OpenBusy, OpenNoMem, OpenDone, ReleaseDone, IoDone,
     IoFail, Oops, Open, Close, Read, Write, Transfer, Ioctl

-----------------------------------------------------------------------------
\* The initial state, no module and no card bound, satisfies the invariant.
LEMMA InitInv == Init => Inv
<1> SUFFICES ASSUME Init PROVE Inv
  OBVIOUS
<1> USE SizesAssumption, BoundAssumption, MinorsAssumption DEF Init
<1>1. TypeOK
  <2>1. /\ generation \in 0 .. MaxStructs /\ bindings \in 0 .. MaxBindings
        /\ live \in {0, generation} /\ drvdata \in {0, generation}
    OBVIOUS
  <2>2. file \in [Users -> Files(generation)]
    BY DEF NoFile, MEM, Minors, Files
  <2>3. module_open \in [Minors -> 0 .. 1]
    OBVIOUS
  <2>4. {pio_irq, pcie_irq, raised} \subseteq BOOLEAN
    OBVIOUS
  <2>5. /\ pc \in [Users -> {"idle", "opened", "oops"} \cup UsingStruct]
        /\ position \in [Users -> Nat] /\ length \in [Users -> Nat]
    OBVIOUS
  <2>6. PciTypes
    BY DEF PciTypes
  <2>7. QED
    BY <2>1, <2>2, <2>3, <2>4, <2>5, <2>6 DEF TypeOK, Files
<1>2. HeldInv /\ UnwindInv /\ StructInv /\ HandlerInv /\ LedsInv
  BY DEF HeldInv, UnwindInv, Taken, StructInv, HandlerInv, LedsInv, Xor
<1>3. FileInv /\ UsersHoldStruct /\ MutexInv /\ OpenedInv /\ InsideModule
  BY DEF FileInv, UsersHoldStruct, MutexInv, OpenedInv, InsideModule
<1> QED
  BY <1>1, <1>2, <1>3 DEF Inv

\* After each mapping comes the next one, after the interrupt none.
LEMMA TakenInOrder ==
    ASSUME NEW r \in PciResources \ {"enabled", "msi"}
    PROVE  /\ r = "irq" => Before(r) \cup {r} = AllPci
           /\ r # "irq" => \E q \in PciResources \ {"enabled", "msi"} :
                               Before(r) \cup {r} = Before(q)
<1> USE DEF Before, PciResources, Maps, AllPci
<1>1. CASE r = "irq"
  BY <1>1
<1>2. CASE r = "bar0"
  <2>1. Before(r) \cup {r} = Before("mem")
    BY <1>2
  <2>2. QED
    BY <1>2, <2>1
<1>3. CASE r = "mem"
  <2>1. Before(r) \cup {r} = Before("leds")
    BY <1>3
  <2>2. QED
    BY <1>3, <2>1
<1>4. CASE r = "leds"
  <2>1. Before(r) \cup {r} = Before("switches")
    BY <1>4
  <2>2. QED
    BY <1>4, <2>1
<1>5. CASE r = "switches"
  <2>1. Before(r) \cup {r} = Before("controls")
    BY <1>5
  <2>2. QED
    BY <1>5, <2>1
<1>6. CASE r = "controls"
  <2>1. Before(r) \cup {r} = Before("irq")
    BY <1>6
  <2>2. QED
    BY <1>6, <2>1
<1>7. QED
  BY <1>1, <1>2, <1>3, <1>4, <1>5, <1>6

\* The head of a list is what was taken last before r, and its tail is the list of that one.
LEMMA UnwindNext ==
    ASSUME NEW r \in PciResources \ {"enabled", "msi"}
    PROVE  \E q \in Before(r) :
               /\ Unwind(r) # <<>> /\ Head(Unwind(r)) = q /\ Tail(Unwind(r)) = Unwind(q)
               /\ UnwindMsi(r) # <<>>
               /\ IF r = "bar0"
                  THEN Head(UnwindMsi(r)) = "msi" /\ Tail(UnwindMsi(r)) = Unwind(r)
                  ELSE /\ q # "enabled"
                       /\ Head(UnwindMsi(r)) = q /\ Tail(UnwindMsi(r)) = UnwindMsi(q)
               /\ q \in PciResources \ {"msi"}
               /\ Before(r) \ {q} = Before(q)
               /\ \A p \in Before(r) : q \notin Before(p)
<1> DEFINE P(q) ==
            /\ q \in PciResources \ {"msi"} /\ Before(r) \ {q} = Before(q)
            /\ \A p \in Before(r) : q \notin Before(p)
           U(q) == Unwind(r) # <<>> /\ Head(Unwind(r)) = q /\ Tail(Unwind(r)) = Unwind(q)
           M(q) ==
            /\ UnwindMsi(r) # <<>>
            /\ IF r = "bar0"
               THEN Head(UnwindMsi(r)) = "msi" /\ Tail(UnwindMsi(r)) = Unwind(r)
               ELSE /\ q # "enabled"
                    /\ Head(UnwindMsi(r)) = q /\ Tail(UnwindMsi(r)) = UnwindMsi(q)
<1>1. CASE r = "bar0"
  <2>1. "enabled" \in Before(r) /\ P("enabled")
    BY <1>1 DEF Before, PciResources, Maps
  <2>2. U("enabled")
    BY <1>1 DEF Unwind
  <2>3. M("enabled")
    BY <1>1 DEF Unwind, UnwindMsi
  <2> HIDE DEF P, U, M
  <2>4. QED
    BY <2>1, <2>2, <2>3 DEF P, U, M
<1>2. CASE r = "mem"
  <2>1. "bar0" \in Before(r) /\ P("bar0")
    BY <1>2 DEF Before, PciResources, Maps
  <2>2. U("bar0")
    BY <1>2 DEF Unwind
  <2>3. M("bar0")
    BY <1>2 DEF Unwind, UnwindMsi
  <2> HIDE DEF P, U, M
  <2>4. QED
    BY <2>1, <2>2, <2>3 DEF P, U, M
<1>3. CASE r = "leds"
  <2>1. "mem" \in Before(r) /\ P("mem")
    BY <1>3 DEF Before, PciResources, Maps
  <2>2. U("mem")
    BY <1>3 DEF Unwind
  <2>3. M("mem")
    BY <1>3 DEF Unwind, UnwindMsi
  <2> HIDE DEF P, U, M
  <2>4. QED
    BY <2>1, <2>2, <2>3 DEF P, U, M
<1>4. CASE r = "switches"
  <2>1. "leds" \in Before(r) /\ P("leds")
    BY <1>4 DEF Before, PciResources, Maps
  <2>2. U("leds")
    BY <1>4 DEF Unwind
  <2>3. M("leds")
    BY <1>4 DEF Unwind, UnwindMsi
  <2> HIDE DEF P, U, M
  <2>4. QED
    BY <2>1, <2>2, <2>3 DEF P, U, M
<1>5. CASE r = "controls"
  <2>1. "switches" \in Before(r) /\ P("switches")
    BY <1>5 DEF Before, PciResources, Maps
  <2>2. U("switches")
    BY <1>5 DEF Unwind
  <2>3. M("switches")
    BY <1>5 DEF Unwind, UnwindMsi
  <2> HIDE DEF P, U, M
  <2>4. QED
    BY <2>1, <2>2, <2>3 DEF P, U, M
<1>6. CASE r = "irq"
  <2>1. "controls" \in Before(r) /\ P("controls")
    BY <1>6 DEF Before, PciResources, Maps
  <2>2. U("controls")
    BY <1>6 DEF Unwind
  <2>3. M("controls")
    BY <1>6 DEF Unwind, UnwindMsi
  <2> HIDE DEF P, U, M
  <2>4. QED
    BY <2>1, <2>2, <2>3 DEF P, U, M
<1>7. r \in {"bar0", "mem", "leds", "switches", "controls", "irq"}
  BY DEF PciResources, Maps
<1> HIDE DEF P, U, M
<1>8. QED
  BY <1>1, <1>2, <1>3, <1>4, <1>5, <1>6, <1>7

\* Giving back the head of the list leaves what the tail of it gives back.  The head was held,
\* and nothing that is held was taken after it.
LEMMA UnwindGivesBack ==
    ASSUME Unwinding, unwind # <<>>
    PROVE  /\ Head(unwind) \in held /\ \A q \in held : Head(unwind) \notin Before(q)
           /\ held' = held \ {Head(unwind)} /\ unwind' = Tail(unwind) => Unwinding'
<1>1. Before("msi") = {}
  BY DEF Before
<1>2. ASSUME NEW r \in PciResources \ {"msi"}, Taken = Before(r), unwind = Unwind(r)
      PROVE  /\ Head(unwind) \in held /\ \A q \in held : Head(unwind) \notin Before(q)
             /\ held' = held \ {Head(unwind)} /\ unwind' = Tail(unwind) => Unwinding'
  <2>1. r # "enabled"
    BY <1>2 DEF Unwind
  <2>2. PICK q \in Before(r) :
            /\ Head(Unwind(r)) = q /\ Tail(Unwind(r)) = Unwind(q)
            /\ q \in PciResources \ {"msi"} /\ Before(r) \ {q} = Before(q)
            /\ \A p \in Before(r) : q \notin Before(p)
    BY <2>1, UnwindNext
  <2>3. QED
    BY <1>1, <1>2, <2>2 DEF Unwinding, Taken
<1>3. ASSUME NEW r \in PciResources \ {"enabled", "msi"}, Taken = Before(r),
             unwind = UnwindMsi(r), "msi" \in held
      PROVE  /\ Head(unwind) \in held /\ \A q \in held : Head(unwind) \notin Before(q)
             /\ held' = held \ {Head(unwind)} /\ unwind' = Tail(unwind) => Unwinding'
  <2>1. PICK q \in Before(r) :
            /\ IF r = "bar0"
               THEN Head(UnwindMsi(r)) = "msi" /\ Tail(UnwindMsi(r)) = Unwind(r)
               ELSE /\ q # "enabled"
                    /\ Head(UnwindMsi(r)) = q /\ Tail(UnwindMsi(r)) = UnwindMsi(q)
            /\ q \in PciResources \ {"msi"} /\ Before(r) \ {q} = Before(q)
            /\ \A p \in Before(r) : q \notin Before(p)
    BY UnwindNext
  <2>2. CASE r = "bar0"
    <3>1. "msi" \notin Before("enabled") /\ Before(r) = {"enabled"}
      BY <2>2 DEF Before
    <3>2. QED
      BY <1>1, <1>3, <2>1, <2>2, <3>1 DEF Unwinding, Taken
  <2>3. CASE r # "bar0"
    BY <1>1, <1>3, <2>1, <2>3 DEF Unwinding, Taken
  <2>4. QED
    BY <2>2, <2>3
<1>4. QED
  BY <1>2, <1>3 DEF Unwinding

\* The lists of the error exits are lists of resources.
LEMMA UnwindTypes ==
    ASSUME NEW r \in PciResources \ {"msi"}
    PROVE  Unwind(r) \in Seq(PciResources)
<1>1. {"enabled", "bar0", "mem", "leds", "switches", "controls"} \subseteq PciResources
  BY DEF PciResources, Maps
<1>2. r \in {"enabled", "bar0", "mem", "leds", "switches", "controls", "irq"}
  BY DEF PciResources, Maps
<1>3. CASE r = "enabled"
  BY <1>1, <1>3 DEF Unwind
<1>4. CASE r = "bar0"
  BY <1>1, <1>4 DEF Unwind
<1>5. CASE r = "mem"
  BY <1>1, <1>5 DEF Unwind
<1>6. CASE r = "leds"
  BY <1>1, <1>6 DEF Unwind
<1>7. CASE r = "switches"
  BY <1>1, <1>7 DEF Unwind
<1>8. CASE r = "controls"
  BY <1>1, <1>8 DEF Unwind
<1>9. CASE r = "irq"
  BY <1>1, <1>9 DEF Unwind
<1>10. QED
  BY <1>2, <1>3, <1>4, <1>5, <1>6, <1>7, <1>8, <1>9

\* So is the list of release_pci_device().
LEMMA ReleaseTypes == PciRelease \in Seq(PciResources)
<1>1. {"enabled", "msi", "bar0", "mem", "leds", "switches", "controls"} \subseteq PciResources
  BY DEF PciResources, Maps
<1>2. CASE msi_enabled
  BY <1>1, <1>2 DEF PciRelease
<1>3. CASE ~ msi_enabled
  BY <1>1, <1>3 DEF PciRelease
<1>4. QED
  BY <1>2, <1>3

\* At the end of the list nothing is held, but maybe the MSI.
LEMMA UnwindDone ==
    ASSUME Unwinding, unwind = <<>>
    PROVE  Taken = {}
<1>1. \A r \in PciResources \ {"enabled", "msi"} : unwind # Unwind(r) /\ unwind # UnwindMsi(r)
  BY UnwindNext
<1>2. Taken = Before("enabled")
  BY <1>1 DEF Unwinding
<1>3. QED
  BY <1>2 DEF Before

\* A step of probe() or remove() takes or gives back what the next stage expects.
LEMMA HeldStep ==
    ASSUME HeldInv, UnwindInv, StructInv, [Next]_vars
    PROVE  HeldInv'
<1> USE DEF HeldInv, Taken, AllPci, Maps, coreVars, pciVars
<1>1. CASE Insmod
  BY <1>1 DEF Insmod
<1>2. CASE Rmmod
  BY <1>2 DEF Rmmod
<1>3. CASE Unplug
  BY <1>3 DEF Unplug, RemoveCalled, StructInv
<1>4. CASE RemoveAtRmmod
  BY <1>4 DEF RemoveAtRmmod, RemoveCalled, StructInv
<1>5. ASSUME NEW irq \in 0 .. 1, Probe(irq) PROVE HeldInv'
  BY <1>5 DEF Probe
<1>6. CASE ProbeAlloc
  BY <1>6 DEF ProbeAlloc
<1>7. CASE ProbeNoMem
  BY <1>7 DEF ProbeNoMem, CoreGoto, CoreMoves
<1>8. CASE EnableDevice
  BY <1>8 DEF EnableDevice, CoreGoto, CoreMoves
<1>9. ASSUME NEW granted \in BOOLEAN, EnableMsi(granted) PROVE HeldInv'
  <2>1. Taken' = Taken /\ core' = "maps" /\ core = "msi"
    BY <1>9 DEF EnableMsi, CoreGoto, CoreMoves
  <2>2. Taken = Before("bar0")
    BY <2>1 DEF Before
  <2>3. QED
    BY <2>1, <2>2 DEF PciResources
<1>10. ASSUME NEW r \in PciResources \ {"enabled", "msi"}, Take(r) PROVE HeldInv'
  <2>1. Taken = Before(r) /\ Taken' = Taken \cup {r}
    BY <1>10 DEF Take
  <2>2. core' = IF r = "irq" THEN "irqon" ELSE "maps"
    BY <1>10 DEF Take, CoreGoto, CoreMoves
  <2>3. QED
    BY <2>1, <2>2, TakenInOrder
<1>11. ASSUME NEW r \in PciResources \ {"msi"}, PciFail(r) PROVE HeldInv'
  BY <1>11 DEF PciFail, CoreMoves
<1>12. CASE EnableInterrupts
  BY <1>12 DEF EnableInterrupts
<1>13. CASE ChrdevRegion
  BY <1>13 DEF ChrdevRegion, CoreGoto, CoreMoves
<1>14. CASE ChrdevRegionFail
  BY <1>14 DEF ChrdevRegionFail, CoreGoto, CoreMoves
<1>15. CASE CdevAdd
  BY <1>15 DEF CdevAdd, CoreMoves
<1>16. CASE CdevFail
  BY <1>16 DEF CdevFail, CoreMoves
<1>17. CASE ReleaseCharDevice
  BY <1>17 DEF ReleaseCharDevice, CoreMoves
<1>18. CASE MaskPcieIrq
  BY <1>18 DEF MaskPcieIrq, CoreGoto, CoreMoves
<1>19. CASE MaskPioIrq
  BY <1>19 DEF MaskPioIrq, CoreGoto, CoreMoves
<1>20. CASE FreeIrq
  BY <1>20 DEF FreeIrq, CoreMoves
<1>21. CASE GiveBack
  BY <1>21 DEF GiveBack, CoreMoves
<1>22. CASE FreeStruct
  <2>1. /\ held' = held /\ unwind = <<>>
        /\ core \in {"undo", "undo_einval", "unmap"} /\ core' \in {"absent", "ignored"}
    BY <1>22 DEF FreeStruct, CoreGoto, CoreMoves
  <2>2. Taken = {}
    BY <2>1, UnwindDone DEF UnwindInv
  <2>3. QED
    BY <2>1, <2>2
<1>23. CASE Unload
  BY <1>23 DEF Unload
<1>24. CASE ProbeOops
  BY <1>24 DEF ProbeOops, CoreGoto, CoreMoves
<1>25. CASE CardStep
  BY <1>25, CardFrame
<1>26. ASSUME NEW u \in Users, UserStep(u) PROVE HeldInv'
  BY <1>26, UserFrame
<1>27. CASE UNCHANGED vars
  BY <1>27 DEF vars
<1> HIDE DEF HeldInv, Taken, AllPci, Maps, coreVars, pciVars
<1>28. QED
  BY <1>1, <1>2, <1>3, <1>4, <1>5, <1>6, <1>7, <1>8, <1>9, <1>10, <1>11, <1>12, <1>13, <1>14,
     <1>15, <1>16, <1>17, <1>18, <1>19, <1>20, <1>21, <1>22, <1>23, <1>24, <1>25, <1>26,
     <1>27, NextGroups
  DEF CoreStep, ProbeStep, RemoveStep

\* A list begins with what is held, and a step takes its head or leaves it.
LEMMA UnwindStep ==
    ASSUME HeldInv, UnwindInv, StructInv, [Next]_vars
    PROVE  UnwindInv'
<1>0. UNCHANGED <<held, unwind>> => (Unwinding' <=> Unwinding)
  BY DEF Unwinding, Taken
<1> USE DEF UnwindInv, coreVars, pciVars, structVars
<1>1. CASE Insmod
  BY <1>0, <1>1 DEF Insmod, StructInv
<1>2. CASE Rmmod
  BY <1>2 DEF Rmmod
<1>3. CASE Unplug
  BY <1>3 DEF Unplug, RemoveCalled, StructInv
<1>4. CASE RemoveAtRmmod
  BY <1>4 DEF RemoveAtRmmod, RemoveCalled, StructInv
<1>5. ASSUME NEW irq \in 0 .. 1, Probe(irq) PROVE UnwindInv'
  BY <1>5 DEF Probe
<1>6. CASE ProbeAlloc
  BY <1>6 DEF ProbeAlloc
<1>7. CASE ProbeNoMem
  BY <1>7 DEF ProbeNoMem, CoreGoto, CoreMoves
<1>8. CASE EnableDevice
  BY <1>8 DEF EnableDevice, CoreGoto, CoreMoves
<1>9. ASSUME NEW granted \in BOOLEAN, EnableMsi(granted) PROVE UnwindInv'
  BY <1>9 DEF EnableMsi, CoreGoto, CoreMoves
<1>10. ASSUME NEW r \in PciResources \ {"enabled", "msi"}, Take(r) PROVE UnwindInv'
  BY <1>10 DEF Take, CoreGoto, CoreMoves
<1>11. ASSUME NEW r \in PciResources \ {"msi"}, PciFail(r) PROVE UnwindInv'
  <2>1. /\ Taken' = Taken /\ unwind' = Unwind(r) /\ nodes' = nodes
        /\ core' \in {"undo", "undo_einval"} /\ core \in {"enable", "maps"}
    BY <1>11 DEF PciFail, CoreMoves, Taken
  <2>2. Taken = Before(r)
    BY <1>11 DEF PciFail, Before, HeldInv, Taken
  <2>3. Unwinding'
    BY <2>1, <2>2 DEF Unwinding
  <2>4. QED
    BY <2>1, <2>3
<1>12. CASE EnableInterrupts
  BY <1>12 DEF EnableInterrupts
<1>13. CASE ChrdevRegion
  BY <1>13 DEF ChrdevRegion, CoreGoto, CoreMoves
<1>14. CASE ChrdevRegionFail
  BY <1>14 DEF ChrdevRegionFail, CoreGoto, CoreMoves
<1>15. CASE CdevAdd
  BY <1>15 DEF CdevAdd, CoreMoves
<1>16. CASE CdevFail
  BY <1>16 DEF CdevFail, CoreMoves
<1>17. CASE ReleaseCharDevice
  BY <1>17 DEF ReleaseCharDevice, CoreMoves
<1>18. CASE MaskPcieIrq
  BY <1>18 DEF MaskPcieIrq, CoreGoto, CoreMoves
<1>19. CASE MaskPioIrq
  BY <1>19 DEF MaskPioIrq, CoreGoto, CoreMoves
<1>20. CASE FreeIrq
  <2>1. /\ Taken' = Taken \ {"irq"} /\ ("msi" \in held' <=> "msi" \in held)
        /\ core = "free_irq" /\ core' = "unmap" /\ nodes' = nodes /\ unwind' = PciRelease
    BY <1>20 DEF FreeIrq, CoreMoves, Taken
  <2>2. Taken' = Before("irq") /\ "irq" \in PciResources \ {"enabled", "msi"}
    <3>1. AllPci \ {"irq"} = Before("irq")
      BY DEF Before, AllPci, Maps
    <3>2. Taken = AllPci
      BY <2>1 DEF HeldInv
    <3>3. QED
      BY <2>1, <3>1, <3>2 DEF PciResources
  <2>3. CASE msi_enabled
    <3>1. unwind' = UnwindMsi("irq")
      BY <2>1, <2>3 DEF PciRelease, UnwindMsi
    <3>2. "msi" \in held'
      BY <2>1, <2>3
    <3>3. Unwinding'
      BY <2>2, <3>1, <3>2 DEF Unwinding
    <3>4. QED
      BY <2>1, <3>3
  <2>4. CASE ~ msi_enabled
    <3>1. unwind' = Unwind("irq")
      BY <2>1, <2>4 DEF PciRelease, Unwind
    <3>2. Unwinding'
      BY <2>2, <3>1 DEF Unwinding
    <3>3. QED
      BY <2>1, <3>2
  <2>5. QED
    BY <2>3, <2>4
<1>21. CASE GiveBack
  <2>1. /\ held' = held \ {Head(unwind)} /\ unwind' = Tail(unwind) /\ unwind # <<>>
        /\ core' = core /\ nodes' = nodes /\ core \in {"undo", "undo_einval", "unmap"}
    BY <1>21 DEF GiveBack, CoreMoves
  <2>2. Unwinding'
    BY <2>1, UnwindGivesBack
  <2>3. QED
    BY <2>1, <2>2
<1>22. CASE FreeStruct
  BY <1>22 DEF FreeStruct, CoreGoto, CoreMoves
<1>23. CASE Unload
  BY <1>23 DEF Unload
<1>24. CASE ProbeOops
  <2>1. /\ held' = held /\ unwind' = unwind /\ nodes' = nodes /\ core' = "oops"
        /\ core \in {"mask", "mask_pio", "free_irq", "unmap"}
    BY <1>24 DEF ProbeOops, CoreGoto, CoreMoves
  <2>2. Unwinding' \/ (Taken' = AllPci /\ unwind' = <<>>)
    BY <1>0, <2>1 DEF HeldInv, Taken
  <2>3. QED
    BY <2>1, <2>2
<1>25. CASE CardStep
  <2>1. UNCHANGED <<held, unwind, nodes, core, msi_enabled>>
    BY <1>25, CardFrame
  <2>2. QED
    BY <1>0, <2>1 DEF Taken
<1>26. ASSUME NEW u \in Users, UserStep(u) PROVE UnwindInv'
  <2>1. UNCHANGED <<held, unwind, nodes, core, msi_enabled>>
    BY <1>26, UserFrame
  <2>2. QED
    BY <1>0, <2>1 DEF Taken
<1>27. CASE UNCHANGED vars
  BY <1>0, <1>27 DEF vars, Taken
<1> HIDE DEF UnwindInv, coreVars, pciVars, structVars
<1>28. QED
  BY <1>1, <1>2, <1>3, <1>4, <1>5, <1>6, <1>7, <1>8, <1>9, <1>10, <1>11, <1>12, <1>13, <1>14,
     <1>15, <1>16, <1>17, <1>18, <1>19, <1>20, <1>21, <1>22, <1>23, <1>24, <1>25, <1>26,
     <1>27, NextGroups
  DEF CoreStep, ProbeStep, RemoveStep

\* A step keeps the account of the structure: allocated by probe(), published, freed.
LEMMA StructStep ==
    ASSUME TypeOK, StructInv, [Next]_vars
    PROVE  StructInv'
<1> USE DEF StructInv, TypeOK, coreVars, pciVars
<1>1. CASE Insmod
  BY <1>1 DEF Insmod
<1>2. CASE Rmmod
  BY <1>2 DEF Rmmod
<1>3. CASE Unplug
  BY <1>3 DEF Unplug, RemoveCalled
<1>4. CASE RemoveAtRmmod
  BY <1>4 DEF RemoveAtRmmod, RemoveCalled
<1>5. ASSUME NEW irq \in 0 .. 1, Probe(irq) PROVE StructInv'
  BY <1>5 DEF Probe
<1>6. CASE ProbeAlloc
  BY <1>6 DEF ProbeAlloc
<1>7. CASE ProbeNoMem
  BY <1>7 DEF ProbeNoMem, CoreGoto, CoreMoves
<1>8. CASE EnableDevice
  BY <1>8 DEF EnableDevice, CoreGoto, CoreMoves
<1>9. ASSUME NEW granted \in BOOLEAN, EnableMsi(granted) PROVE StructInv'
  BY <1>9 DEF EnableMsi, CoreGoto, CoreMoves
<1>10. ASSUME NEW r \in PciResources \ {"enabled", "msi"}, Take(r) PROVE StructInv'
  BY <1>10 DEF Take, CoreGoto, CoreMoves
<1>11. ASSUME NEW r \in PciResources \ {"msi"}, PciFail(r) PROVE StructInv'
  BY <1>11 DEF PciFail, CoreMoves
<1>12. CASE EnableInterrupts
  BY <1>12 DEF EnableInterrupts, SetCard
<1>13. CASE ChrdevRegion
  BY <1>13 DEF ChrdevRegion, CoreGoto, CoreMoves
<1>14. CASE ChrdevRegionFail
  BY <1>14 DEF ChrdevRegionFail, CoreGoto, CoreMoves
<1>15. CASE CdevAdd
  BY <1>15 DEF CdevAdd, CoreMoves
<1>16. CASE CdevFail
  BY <1>16 DEF CdevFail, CoreMoves
<1>17. CASE ReleaseCharDevice
  BY <1>17 DEF ReleaseCharDevice, CoreMoves
<1>18. CASE MaskPcieIrq
  BY <1>18 DEF MaskPcieIrq, CoreGoto, CoreMoves, SetCard
<1>19. CASE MaskPioIrq
  BY <1>19 DEF MaskPioIrq, CoreGoto, CoreMoves, SetCard
<1>20. CASE FreeIrq
  BY <1>20 DEF FreeIrq, CoreMoves
<1>21. CASE GiveBack
  BY <1>21 DEF GiveBack, CoreMoves
<1>22. CASE FreeStruct
  BY <1>22 DEF FreeStruct, CoreGoto, CoreMoves
<1>23. CASE Unload
  BY <1>23 DEF Unload
<1>24. CASE ProbeOops
  BY <1>24 DEF ProbeOops, CoreGoto, CoreMoves
<1>25. CASE CardStep
  BY <1>25, CardFrame
<1>26. ASSUME NEW u \in Users, UserStep(u) PROVE StructInv'
  BY <1>26, UserFrame
<1>27. CASE UNCHANGED vars
  BY <1>27 DEF vars
<1> HIDE DEF StructInv, TypeOK, coreVars, pciVars
<1>28. QED
  BY <1>1, <1>2, <1>3, <1>4, <1>5, <1>6, <1>7, <1>8, <1>9, <1>10, <1>11, <1>12, <1>13, <1>14,
     <1>15, <1>16, <1>17, <1>18, <1>19, <1>20, <1>21, <1>22, <1>23, <1>24, <1>25, <1>26,
     <1>27, NextGroups
  DEF CoreStep, ProbeStep, RemoveStep

\* A step leaves the interrupt to a handler that runs: free_irq() waits for it.
LEMMA HandlerInvStep ==
    ASSUME TypeOK, HeldInv, UnwindInv, HandlerInv, [Next]_vars
    PROVE  HandlerInv'
<1> USE DEF HandlerInv, coreVars, pciVars, handlerVars
<1>1. CASE Insmod
  BY <1>1 DEF Insmod
<1>2. CASE Rmmod
  BY <1>2 DEF Rmmod
<1>3. CASE Unplug
  BY <1>3 DEF Unplug, RemoveCalled
<1>4. CASE RemoveAtRmmod
  BY <1>4 DEF RemoveAtRmmod, RemoveCalled
<1>5. ASSUME NEW irq \in 0 .. 1, Probe(irq) PROVE HandlerInv'
  BY <1>5 DEF Probe
<1>6. CASE ProbeAlloc
  BY <1>6 DEF ProbeAlloc
<1>7. CASE ProbeNoMem
  BY <1>7 DEF ProbeNoMem, CoreGoto, CoreMoves
<1>8. CASE EnableDevice
  BY <1>8 DEF EnableDevice, CoreGoto, CoreMoves
<1>9. ASSUME NEW granted \in BOOLEAN, EnableMsi(granted) PROVE HandlerInv'
  BY <1>9 DEF EnableMsi, CoreGoto, CoreMoves
<1>10. ASSUME NEW r \in PciResources \ {"enabled", "msi"}, Take(r) PROVE HandlerInv'
  BY <1>10 DEF Take, CoreGoto, CoreMoves
<1>11. ASSUME NEW r \in PciResources \ {"msi"}, PciFail(r) PROVE HandlerInv'
  BY <1>11 DEF PciFail, CoreMoves, HeldInv, Taken, Before, PciResources, Maps
<1>12. CASE EnableInterrupts
  BY <1>12 DEF EnableInterrupts, SetCard
<1>13. CASE ChrdevRegion
  BY <1>13 DEF ChrdevRegion, CoreGoto, CoreMoves
<1>14. CASE ChrdevRegionFail
  BY <1>14 DEF ChrdevRegionFail, CoreGoto, CoreMoves
<1>15. CASE CdevAdd
  BY <1>15 DEF CdevAdd, CoreMoves
<1>16. CASE CdevFail
  BY <1>16 DEF CdevFail, CoreMoves
<1>17. CASE ReleaseCharDevice
  BY <1>17 DEF ReleaseCharDevice, CoreMoves
<1>18. CASE MaskPcieIrq
  BY <1>18 DEF MaskPcieIrq, CoreGoto, CoreMoves, SetCard
<1>19. CASE MaskPioIrq
  BY <1>19 DEF MaskPioIrq, CoreGoto, CoreMoves, SetCard
<1>20. CASE FreeIrq
  BY <1>20 DEF FreeIrq, CoreMoves
<1>21. CASE GiveBack
  <2>1. "irq" \notin held
    BY <1>21 DEF GiveBack, UnwindInv, Unwinding, Taken, Before, PciResources, Maps
  <2>2. QED
    BY <1>21, <2>1 DEF GiveBack, CoreMoves
<1>22. CASE FreeStruct
  BY <1>22 DEF FreeStruct, CoreGoto, CoreMoves
<1>23. CASE Unload
  BY <1>23 DEF Unload
<1>24. CASE ProbeOops
  BY <1>24 DEF ProbeOops, CoreGoto, CoreMoves
<1>25. CASE Interrupt
  BY <1>25 DEF Interrupt
<1>26. CASE HandlerStatus
  BY <1>26 DEF HandlerStatus, HandlerGoto
<1>27. CASE HandlerEdge
  BY <1>27 DEF HandlerEdge, HandlerGoto
<1>28. CASE HandlerLeds
  BY <1>28 DEF HandlerLeds, HandlerGoto
<1>29. CASE HandlerAck
  BY <1>29 DEF HandlerAck, HandlerGoto, SetCard
<1>30. CASE HandlerReset
  BY <1>30 DEF HandlerReset, HandlerGoto, SetCard
<1>31. CASE HandlerEnable
  BY <1>31 DEF HandlerEnable, HandlerGoto, SetCard
<1>32. CASE HandlerPcie
  BY <1>32 DEF HandlerPcie, HandlerGoto, SetCard
<1>33. CASE HandlerOops
  BY <1>33 DEF HandlerOops, HandlerGoto
<1>34. ASSUME NEW s \in Switches, Flip(s) PROVE HandlerInv'
  BY <1>34 DEF Flip, SetCard
<1>35. ASSUME NEW u \in Users, UserStep(u) PROVE HandlerInv'
  BY <1>35, UserFrame
<1>36. CASE UNCHANGED vars
  BY <1>36 DEF vars
<1> HIDE DEF HandlerInv, coreVars, pciVars, handlerVars
<1>37. QED
  BY <1>1, <1>2, <1>3, <1>4, <1>5, <1>6, <1>7, <1>8, <1>9, <1>10, <1>11, <1>12, <1>13, <1>14,
     <1>15, <1>16, <1>17, <1>18, <1>19, <1>20, <1>21, <1>22, <1>23, <1>24, <1>25, <1>26,
     <1>27, <1>28, <1>29, <1>30, <1>31, <1>32, <1>33, <1>34, <1>35, <1>36, NextGroups
  DEF CoreStep, ProbeStep, RemoveStep, CardStep, HandlerStep

\* The registers of the card keep their types.
LEMMA SetCardTypes ==
    ASSUME {pio_irq, pcie_irq, raised} \subseteq BOOLEAN,
           NEW e, NEW pio \in BOOLEAN, NEW pcie \in BOOLEAN, e \subseteq Switches,
           SetCard(e, pio, pcie)
    PROVE  edge' \subseteq Switches /\ {pio_irq', pcie_irq', raised'} \subseteq BOOLEAN
  BY DEF SetCard, Asserts, Asserted

\* The card and the handler write their own variables only, so the other types need no thought.
LEMMA HandlerTypes ==
    ASSUME TypeOK, UNCHANGED <<coreVars, structVars, irq_handling, userVars>>,
           hpc' \in {"idle", "status", "edge", "leds", "ack", "reset", "enable", "pcie", "oops"},
           n' \subseteq Switches, value' \subseteq Switches, due' \subseteq Switches,
           edge' \subseteq Switches, {pio_irq', pcie_irq', raised'} \subseteq BOOLEAN
    PROVE  TypeOK'
<1>1. PciTypes'
  BY DEF TypeOK, PciTypes, coreVars, pciVars
<1>2. QED
  BY <1>1 DEF TypeOK, coreVars, structVars, userVars

\* remove() writes the resources that are held and its own place, at most.
LEMMA RemoveTypes ==
    ASSUME TypeOK, UNCHANGED <<module, generation, bindings, unplugged, userVars, handlerVars>>,
           UNCHANGED <<structVars, irq_handling>>,
           core' \in {"mask_pio", "free_irq", "undo", "undo_einval", "unmap", "absent",
                      "ignored"},
           PciTypes', live' \in {0, generation}, drvdata' \in {0, generation},
           edge' \subseteq Switches, {pio_irq', pcie_irq', raised'} \subseteq BOOLEAN
    PROVE  TypeOK'
  BY DEF TypeOK, structVars, userVars, handlerVars

\* A step keeps the types: module_open neither underflows nor passes 1, a file position stays
\* inside the module.
LEMMA TypeStep ==
    ASSUME TypeOK, StructInv, FileInv, OpenedInv, InsideModule, [Next]_vars
    PROVE  TypeOK'
<1>0. PciTypes /\ UNCHANGED <<held, unwind, nodes>> => PciTypes'
  BY DEF PciTypes
<1> USE <1>0, UsersAssumption, MinorsAssumption, SizesAssumption, BoundAssumption
    DEF TypeOK, Files, coreVars, pciVars, structVars, userVars, cardVars, handlerVars
<1>1. CASE Insmod
  BY <1>1 DEF Insmod
<1>2. CASE Rmmod
  BY <1>2 DEF Rmmod
<1>3. CASE Unplug
  BY <1>3 DEF Unplug, RemoveCalled
<1>4. CASE RemoveAtRmmod
  BY <1>4 DEF RemoveAtRmmod, RemoveCalled
<1>5. ASSUME NEW irq \in 0 .. 1, Probe(irq) PROVE TypeOK'
  BY <1>5 DEF Probe
<1>6. CASE ProbeAlloc
  <2>1. generation' \in 0 .. MaxStructs /\ 0 .. generation \subseteq 0 .. generation'
    <3>1. generation \in 0 .. MaxStructs /\ generation < MaxStructs
      BY <1>6 DEF ProbeAlloc, StructInv
    <3>2. generation' = generation + 1
      BY <1>6 DEF ProbeAlloc
    <3>3. QED
      BY <3>1, <3>2
  <2>2. file' \in [Users -> Files(generation')]
    <3>1. Files(generation)
            \subseteq Files(generation')
      BY <2>1
    <3>2. file' = file
      BY <1>6 DEF ProbeAlloc
    <3>3. QED
      BY <3>1, <3>2
  <2>3. unplugged' \subseteq 1 .. generation'
    BY <1>6, <2>1 DEF ProbeAlloc
  <2>4. module_open' \in [Minors -> 0 .. 1] /\ drvdata' \in {0, generation'}
    BY <1>6 DEF ProbeAlloc, StructInv
  <2>5. QED
    BY <1>6, <2>1, <2>2, <2>3, <2>4 DEF ProbeAlloc
<1>7. CASE ProbeNoMem
  BY <1>7 DEF ProbeNoMem, CoreGoto, CoreMoves
<1>8. CASE EnableDevice
  <2>1. PciTypes'
    BY <1>8 DEF EnableDevice, CoreGoto, CoreMoves, PciTypes, PciResources
  <2>2. QED
    BY <1>8, <2>1 DEF EnableDevice, CoreGoto, CoreMoves
<1>9. ASSUME NEW granted \in BOOLEAN, EnableMsi(granted) PROVE TypeOK'
  <2>1. PciTypes'
    BY <1>9 DEF EnableMsi, CoreGoto, CoreMoves, PciTypes, PciResources
  <2>2. QED
    BY <1>9, <2>1 DEF EnableMsi, CoreGoto, CoreMoves
<1>10. ASSUME NEW r \in PciResources \ {"enabled", "msi"}, Take(r) PROVE TypeOK'
  <2>1. PciTypes'
    BY <1>10 DEF Take, CoreGoto, CoreMoves, PciTypes
  <2>2. QED
    BY <1>10, <2>1 DEF Take, CoreGoto, CoreMoves
<1>11. ASSUME NEW r \in PciResources \ {"msi"}, PciFail(r) PROVE TypeOK'
  <2>1. /\ core' \in {"undo", "undo_einval"} /\ UNCHANGED <<held, nodes>>
        /\ UNCHANGED <<module, generation, bindings, unplugged, userVars, handlerVars>>
        /\ UNCHANGED <<drvdata, live, structVars, irq_handling, cardVars>>
    BY <1>11 DEF PciFail, CoreMoves
  <2>2. PciTypes'
    BY <1>11, <2>1, UnwindTypes DEF PciFail, PciTypes
  <2>3. live' \in {0, generation} /\ drvdata' \in {0, generation}
    BY <2>1
  <2>4. edge' \subseteq Switches /\ {pio_irq', pcie_irq', raised'} \subseteq BOOLEAN
    BY <2>1
  <2>5. QED
    BY <2>1, <2>2, <2>3, <2>4, RemoveTypes
<1>12. CASE EnableInterrupts
  <2>1. bindings' \in 0 .. MaxBindings
    BY <1>12 DEF EnableInterrupts, StructInv
  <2>2. due' \subseteq Switches
    BY <1>12 DEF EnableInterrupts, Xor
  <2>3. {pio_irq', pcie_irq', raised'} \subseteq BOOLEAN /\ edge' \subseteq Switches
    BY <1>12 DEF EnableInterrupts, SetCard, Asserts, Asserted
  <2>4. QED
    BY <1>12, <2>1, <2>2, <2>3 DEF EnableInterrupts
<1>13. CASE ChrdevRegion
  <2>1. PciTypes'
    BY <1>13 DEF ChrdevRegion, CoreGoto, CoreMoves, PciTypes
  <2>2. QED
    BY <1>13, <2>1 DEF ChrdevRegion, CoreGoto, CoreMoves
<1>14. CASE ChrdevRegionFail
  BY <1>14 DEF ChrdevRegionFail, CoreGoto, CoreMoves
<1>15. CASE CdevAdd
  <2>1. PciTypes'
    BY <1>15 DEF CdevAdd, CoreGoto, CoreMoves, PciTypes
  <2>2. QED
    BY <1>15, <2>1 DEF CdevAdd, CoreGoto, CoreMoves
<1>16. CASE CdevFail
  <2>1. PciTypes'
    BY <1>16 DEF CdevFail, CoreGoto, CoreMoves, PciTypes
  <2>2. QED
    BY <1>16, <2>1 DEF CdevFail, CoreGoto, CoreMoves
<1>17. CASE ReleaseCharDevice
  <2>1. PciTypes'
    BY <1>17 DEF ReleaseCharDevice, CoreGoto, CoreMoves, PciTypes
  <2>2. QED
    BY <1>17, <2>1 DEF ReleaseCharDevice, CoreGoto, CoreMoves
<1>18. CASE MaskPcieIrq
  <2>1. /\ SetCard(edge, pio_irq, FALSE)
        /\ UNCHANGED <<held, drvdata, live, structVars, irq_handling>>
    BY <1>18 DEF MaskPcieIrq
  <2>2. CoreGoto("mask_pio")
    BY <1>18 DEF MaskPcieIrq
  <2>3. edge' \subseteq Switches /\ {pio_irq', pcie_irq', raised'} \subseteq BOOLEAN
    BY <2>1, SetCardTypes
  <2>4. QED
    BY <2>1, <2>2, <2>3, RemoveTypes DEF CoreGoto, CoreMoves
<1>19. CASE MaskPioIrq
  <2>1. /\ SetCard(edge, FALSE, pcie_irq)
        /\ UNCHANGED <<held, drvdata, live, structVars, irq_handling>>
    BY <1>19 DEF MaskPioIrq
  <2>2. CoreGoto("free_irq")
    BY <1>19 DEF MaskPioIrq
  <2>3. edge' \subseteq Switches /\ {pio_irq', pcie_irq', raised'} \subseteq BOOLEAN
    BY <2>1, SetCardTypes
  <2>4. QED
    BY <2>1, <2>2, <2>3, RemoveTypes DEF CoreGoto, CoreMoves
<1>20. CASE FreeIrq
  <2>1. /\ CoreMoves("unmap") /\ held' \subseteq held /\ nodes' = nodes
        /\ UNCHANGED <<structVars, irq_handling, cardVars>>
    BY <1>20 DEF FreeIrq
  <2>2. live' \in {0, generation} /\ drvdata' \in {0, generation}
    BY <1>20 DEF FreeIrq
  <2>3. unwind' \in Seq(PciResources)
    BY <1>20, ReleaseTypes DEF FreeIrq
  <2>4. PciTypes'
    BY <2>1, <2>3 DEF PciTypes
  <2>5. QED
    BY <2>1, <2>2, <2>4, RemoveTypes DEF CoreMoves
<1>21. CASE GiveBack
  <2>1. /\ CoreMoves(core) /\ core \in {"undo", "undo_einval", "unmap"}
        /\ held' \subseteq held /\ nodes' = nodes
        /\ UNCHANGED <<structVars, irq_handling, cardVars>>
    BY <1>21 DEF GiveBack
  <2>2. live' \in {0, generation} /\ drvdata' \in {0, generation}
    BY <1>21 DEF GiveBack
  <2>3. unwind' \in Seq(PciResources)
    BY <1>21 DEF GiveBack, PciTypes
  <2>4. PciTypes'
    BY <2>1, <2>3 DEF PciTypes
  <2>5. QED
    BY <2>1, <2>2, <2>4, RemoveTypes DEF CoreMoves
<1>22. CASE FreeStruct
  <2>1. /\ core' \in {"absent", "ignored"} /\ held' \subseteq held
        /\ UNCHANGED <<module, generation, bindings, unplugged, userVars, handlerVars>>
        /\ UNCHANGED <<unwind, nodes, structVars, irq_handling, cardVars>>
    BY <1>22 DEF FreeStruct, CoreGoto, CoreMoves
  <2>2. live' \in {0, generation} /\ drvdata' \in {0, generation}
    BY <1>22 DEF FreeStruct
  <2>3. PciTypes'
    BY <2>1 DEF PciTypes
  <2>4. edge' \subseteq Switches /\ {pio_irq', pcie_irq', raised'} \subseteq BOOLEAN
    BY <2>1
  <2>5. QED
    BY <2>1, <2>2, <2>3, <2>4, RemoveTypes
<1>23. CASE Unload
  BY <1>23 DEF Unload
<1>24. CASE ProbeOops
  BY <1>24 DEF ProbeOops, CoreGoto, CoreMoves
<1>25. CASE Interrupt
  <2>1. /\ UNCHANGED <<coreVars, structVars, irq_handling, userVars, edge, pio_irq, pcie_irq>>
        /\ UNCHANGED <<n, value, due>>
        /\ hpc' = "status" /\ raised' = FALSE
    BY <1>25 DEF Interrupt
  <2>2. QED
    BY <2>1, HandlerTypes
<1>26. CASE HandlerStatus
  BY <1>26 DEF HandlerStatus, HandlerGoto
<1>27. CASE HandlerEdge
  BY <1>27 DEF HandlerEdge, HandlerGoto
<1>28. CASE HandlerLeds
  <2>1. value' \subseteq Switches /\ due' \subseteq Switches
    BY <1>28 DEF HandlerLeds, Xor
  <2>2. QED
    BY <1>28, <2>1 DEF HandlerLeds, HandlerGoto
<1>29. CASE HandlerAck
  <2>1. SetCard(edge, FALSE, pcie_irq) /\ HandlerGoto("reset") /\ UNCHANGED <<n, value, due>>
    BY <1>29 DEF HandlerAck
  <2>2. edge' \subseteq Switches /\ {pio_irq', pcie_irq', raised'} \subseteq BOOLEAN
    BY <2>1, SetCardTypes
  <2>3. QED
    BY <2>1, <2>2, HandlerTypes DEF HandlerGoto
<1>30. CASE HandlerReset
  <2>1. due' \subseteq Switches
    BY <1>30 DEF HandlerReset, Xor
  <2>2. SetCard({}, pio_irq, pcie_irq) /\ HandlerGoto("enable") /\ UNCHANGED <<n, value>>
    BY <1>30 DEF HandlerReset
  <2>3. edge' \subseteq Switches /\ {pio_irq', pcie_irq', raised'} \subseteq BOOLEAN
    BY <2>2 DEF SetCard, Asserts, Asserted
  <2>4. QED
    BY <2>1, <2>2, <2>3, HandlerTypes DEF HandlerGoto
<1>31. CASE HandlerEnable
  <2>1. SetCard(edge, TRUE, pcie_irq) /\ HandlerGoto("pcie") /\ UNCHANGED <<n, value, due>>
    BY <1>31 DEF HandlerEnable
  <2>2. edge' \subseteq Switches /\ {pio_irq', pcie_irq', raised'} \subseteq BOOLEAN
    BY <2>1, SetCardTypes
  <2>3. QED
    BY <2>1, <2>2, HandlerTypes DEF HandlerGoto
<1>32. CASE HandlerPcie
  <2>1. SetCard(edge, pio_irq, TRUE) /\ HandlerGoto("idle") /\ n' = {} /\ UNCHANGED <<value, due>>
    BY <1>32 DEF HandlerPcie
  <2>2. edge' \subseteq Switches /\ {pio_irq', pcie_irq', raised'} \subseteq BOOLEAN
    BY <2>1, SetCardTypes
  <2>3. QED
    BY <2>1, <2>2, HandlerTypes DEF HandlerGoto
<1>33. CASE HandlerOops
  BY <1>33 DEF HandlerOops, HandlerGoto
<1>34. ASSUME NEW s \in Switches, Flip(s) PROVE TypeOK'
  <2>1. due' \subseteq Switches
    BY <1>34 DEF Flip, Xor
  <2>2. /\ SetCard(edge \cup {s}, pio_irq, pcie_irq)
        /\ UNCHANGED <<coreVars, structVars, irq_handling, userVars, hpc, n, value>>
    BY <1>34 DEF Flip
  <2>3. edge' \subseteq Switches /\ {pio_irq', pcie_irq', raised'} \subseteq BOOLEAN
    BY <2>2, SetCardTypes
  <2>4. QED
    BY <2>1, <2>2, <2>3, HandlerTypes
<1>35. ASSUME NEW u \in Users, Lock(u) PROVE TypeOK'
  <2>1. pc' \in [Users -> {"idle", "opened", "oops"} \cup UsingStruct]
    <3>1. CASE pc[u] = "open" /\ UserGoto(u, "locked")
      BY <3>1 DEF UserGoto, UsingStruct
    <3>2. CASE pc[u] = "release" /\ UserGoto(u, "releaselocked")
      BY <3>2 DEF UserGoto, UsingStruct
    <3>3. QED
      BY <1>35, <3>1, <3>2 DEF Lock
  <2>2. UNCHANGED <<coreVars, msi_enabled, cardVars, handlerVars>>
    BY <1>35 DEF Lock, UserGoto
  <2>3. mtx_open' \in Users /\ UNCHANGED <<module_open, irq_handling, file, position, length>>
    BY <1>35 DEF Lock
  <2>4. QED
    BY <2>1, <2>2, <2>3
<1>36. ASSUME NEW u \in Users, OpenBusy(u) PROVE TypeOK'
  <2>1. pc' \in [Users -> {"idle", "opened", "oops"} \cup UsingStruct]
    BY <1>36 DEF OpenBusy, UserGoto, UsingStruct
  <2>2. NoFile \in Files(generation)
    BY DEF NoFile, MEM, Minors
  <2>3. file' \in [Users -> Files(generation)]
    BY <1>36, <2>2 DEF OpenBusy, Forget
  <2>4. QED
    BY <1>36, <2>1, <2>2, <2>3 DEF OpenBusy, UserGoto
<1>37. ASSUME NEW u \in Users, OpenNoMem(u) PROVE TypeOK'
  <2>1. pc' \in [Users -> {"idle", "opened", "oops"} \cup UsingStruct]
    BY <1>37 DEF OpenNoMem, UserGoto, UsingStruct
  <2>2. NoFile \in Files(generation)
    BY DEF NoFile, MEM, Minors
  <2>3. file' \in [Users -> Files(generation)]
    BY <1>37, <2>2 DEF OpenNoMem, Forget
  <2>4. QED
    BY <1>37, <2>1, <2>2, <2>3 DEF OpenNoMem, UserGoto
<1>38. ASSUME NEW u \in Users, OpenDone(u) PROVE TypeOK'
  <2>1. pc' \in [Users -> {"idle", "opened", "oops"} \cup UsingStruct]
    BY <1>38 DEF OpenDone, UserGoto, UsingStruct
  <2>2. module_open' \in [Minors -> 0 .. 1]
    BY <1>38 DEF OpenDone
  <2>3. QED
    BY <1>38, <2>1, <2>2 DEF OpenDone, UserGoto
<1>39. ASSUME NEW u \in Users, ReleaseDone(u) PROVE TypeOK'
  <2>1. pc' \in [Users -> {"idle", "opened", "oops"} \cup UsingStruct]
    BY <1>39 DEF ReleaseDone, UserGoto, UsingStruct
  <2>2. NoFile \in Files(generation)
    BY DEF NoFile, MEM, Minors
  <2>3. file' \in [Users -> Files(generation)]
    BY <1>39, <2>2 DEF ReleaseDone, Forget
  <2>4. module_open' \in [Minors -> 0 .. 1]
    <3>1. file[u].minor \in Minors
      BY DEF TypeOK
    <3>2. live # 0 /\ HasOpen(u, file[u].minor)
      BY <1>39 DEF ReleaseDone, HasOpen, Alive, FileInv
    <3>3. module_open[file[u].minor] = 1
      BY <3>1, <3>2 DEF OpenedInv
    <3>4. QED
      BY <1>39, <3>1, <3>3 DEF ReleaseDone
  <2>5. QED
    BY <1>39, <2>1, <2>2, <2>3, <2>4 DEF ReleaseDone, UserGoto
<1>40. ASSUME NEW u \in Users, IoDone(u) PROVE TypeOK'
  <2>1. pc' \in [Users -> {"idle", "opened", "oops"} \cup UsingStruct]
    BY <1>40 DEF IoDone, UserGoto, UsingStruct
  <2>2. position' \in [Users -> Nat] /\ length' \in [Users -> Nat]
    BY <1>40 DEF IoDone, EndTransfer
  <2>3. file' \in [Users -> Files(generation)]
    <3>1. PICK o \in 0 .. MODULE_MEM_LENGTH : file' = [file EXCEPT ![u].offset = o]
      <4>1. CASE file[u].minor = MEM /\ position[u] = file[u].offset
        <5>1. file[u].offset + length[u] \in 0 .. MODULE_MEM_LENGTH
          BY <1>40, <4>1 DEF IoDone, InsideModule
        <5>2. file' = [file EXCEPT ![u].offset = file[u].offset + length[u]]
          BY <1>40, <4>1 DEF IoDone
        <5>3. QED
          BY <5>1, <5>2
      <4>2. CASE ~ (file[u].minor = MEM /\ position[u] = file[u].offset)
        BY <1>40, <4>2 DEF IoDone
      <4>3. QED
        BY <4>1, <4>2
    <3>2. QED
      BY <3>1
  <2>4. QED
    BY <1>40, <2>1, <2>2, <2>3 DEF IoDone, UserGoto, EndTransfer
<1>41. ASSUME NEW u \in Users, IoFail(u) PROVE TypeOK'
  <2>1. pc' \in [Users -> {"idle", "opened", "oops"} \cup UsingStruct]
    BY <1>41 DEF IoFail, UserGoto, UsingStruct
  <2>2. position' \in [Users -> Nat] /\ length' \in [Users -> Nat]
    BY <1>41 DEF IoFail, EndTransfer
  <2>3. QED
    BY <1>41, <2>1, <2>2 DEF IoFail, UserGoto, EndTransfer
<1>42. ASSUME NEW u \in Users, Oops(u) PROVE TypeOK'
  <2>1. pc' \in [Users -> {"idle", "opened", "oops"} \cup UsingStruct]
    BY <1>42 DEF Oops, UserGoto, UsingStruct
  <2>2. position' \in [Users -> Nat] /\ length' \in [Users -> Nat]
    BY <1>42 DEF Oops, EndTransfer
  <2>3. QED
    BY <1>42, <2>1, <2>2 DEF Oops, UserGoto, EndTransfer
<1>43. ASSUME NEW u \in Users, NEW m \in Minors, Open(u, m) PROVE TypeOK'
  <2>1. pc' \in [Users -> {"idle", "opened", "oops"} \cup UsingStruct]
    BY <1>43 DEF Open, UserGoto, UsingStruct
  <2>2. [gen |-> live, minor |-> m, offset |-> 0] \in Files(generation)
    OBVIOUS
  <2>3. file' \in [Users -> Files(generation)]
    BY <1>43, <2>2 DEF Open
  <2>4. QED
    BY <1>43, <2>1, <2>2, <2>3 DEF Open, UserGoto
<1>44. ASSUME NEW u \in Users, Close(u) PROVE TypeOK'
  <2>1. pc' \in [Users -> {"idle", "opened", "oops"} \cup UsingStruct]
    BY <1>44 DEF Close, UserGoto, UsingStruct
  <2>2. QED
    BY <1>44, <2>1 DEF Close, UserGoto
<1>45. ASSUME NEW u \in Users, NEW at \in Nat, NEW size \in Sizes, Transfer(u, at, size)
      PROVE TypeOK'
  <2>1. pc' \in [Users -> {"idle", "opened", "oops"} \cup UsingStruct]
    BY <1>45 DEF Transfer, UserGoto, UsingStruct
  <2>2. Length(u, at, size) \in Nat
    BY <1>45 DEF Transfer, Length, MEM
  <2>3. position' \in [Users -> Nat] /\ length' \in [Users -> Nat]
    BY <1>45, <2>2 DEF Transfer
  <2>4. QED
    BY <1>45, <2>1, <2>2, <2>3 DEF Transfer, UserGoto
<1>46. ASSUME NEW u \in Users, NEW on \in BOOLEAN, Ioctl(u, on) PROVE TypeOK'
  <2>1. pc' \in [Users -> {"idle", "opened", "oops"} \cup UsingStruct]
    BY <1>46 DEF Ioctl, UserGoto, UsingStruct
  <2>2. QED
    BY <1>46, <2>1 DEF Ioctl, UserGoto
<1>47. CASE UNCHANGED vars
  BY <1>47 DEF vars
<1> HIDE DEF TypeOK, Files, coreVars, pciVars, structVars, userVars, cardVars, handlerVars
<1>48. QED
  BY <1>1, <1>2, <1>3, <1>4, <1>5, <1>6, <1>7, <1>8, <1>9, <1>10, <1>11, <1>12, <1>13, <1>14,
     <1>15, <1>16, <1>17, <1>18, <1>19, <1>20, <1>21, <1>22, <1>23, <1>24, <1>25, <1>26,
     <1>27, <1>28, <1>29, <1>30, <1>31, <1>32, <1>33, <1>34, <1>35, <1>36, <1>37, <1>38,
     <1>39, <1>40, <1>41, <1>42, <1>43, <1>44, <1>45, <1>46, <1>47,
     TransferCases, OpenCases, NextGroups
  DEF CoreStep, ProbeStep, RemoveStep, CardStep, HandlerStep, UserStep, CallStep, Read, Write

\* A step lets a file name a live structure only, and a structure is freed when no file names
\* it, or when its card is pulled out.
LEMMA FileStep ==
    ASSUME TypeOK, HeldInv, UnwindInv, StructInv, FileInv, [Next]_vars
    PROVE  FileInv'
<1> USE DEF TypeOK, StructInv, FileInv, NoFile, Alive, coreVars, pciVars, userVars
<1>1. CASE Insmod
  BY <1>1 DEF Insmod
<1>2. CASE Rmmod
  BY <1>2 DEF Rmmod, ModuleInUse
<1>3. CASE Unplug
  BY <1>3 DEF Unplug, RemoveCalled
<1>4. CASE RemoveAtRmmod
  BY <1>4 DEF RemoveAtRmmod, RemoveCalled
<1>5. ASSUME NEW irq \in 0 .. 1, Probe(irq) PROVE FileInv'
  BY <1>5 DEF Probe
<1>6. CASE ProbeAlloc
  BY <1>6 DEF ProbeAlloc
<1>7. CASE ProbeNoMem
  BY <1>7 DEF ProbeNoMem, CoreGoto, CoreMoves
<1>8. CASE EnableDevice
  BY <1>8 DEF EnableDevice, CoreGoto, CoreMoves
<1>9. ASSUME NEW granted \in BOOLEAN, EnableMsi(granted) PROVE FileInv'
  BY <1>9 DEF EnableMsi, CoreGoto, CoreMoves
<1>10. ASSUME NEW r \in PciResources \ {"enabled", "msi"}, Take(r) PROVE FileInv'
  BY <1>10 DEF Take, CoreGoto, CoreMoves
<1>11. ASSUME NEW r \in PciResources \ {"msi"}, PciFail(r) PROVE FileInv'
  BY <1>11 DEF PciFail, CoreMoves
<1>12. CASE EnableInterrupts
  BY <1>12 DEF EnableInterrupts, SetCard
<1>13. CASE ChrdevRegion
  BY <1>13 DEF ChrdevRegion, CoreGoto, CoreMoves
<1>14. CASE ChrdevRegionFail
  BY <1>14 DEF ChrdevRegionFail, CoreGoto, CoreMoves
<1>15. CASE CdevAdd
  BY <1>15 DEF CdevAdd, CoreMoves
<1>16. CASE CdevFail
  BY <1>16 DEF CdevFail, CoreMoves
<1>17. CASE ReleaseCharDevice
  BY <1>17 DEF ReleaseCharDevice, CoreMoves
<1>18. CASE MaskPcieIrq
  BY <1>18 DEF MaskPcieIrq, CoreGoto, CoreMoves, SetCard
<1>19. CASE MaskPioIrq
  BY <1>19 DEF MaskPioIrq, CoreGoto, CoreMoves, SetCard
<1>20. CASE FreeIrq
  BY <1>20 DEF FreeIrq, CoreMoves
<1>21. CASE GiveBack
  BY <1>21 DEF GiveBack, CoreMoves
<1>22. CASE FreeStruct
  BY <1>22 DEF FreeStruct, CoreGoto, CoreMoves
<1>23. CASE Unload
  BY <1>23 DEF Unload
<1>24. CASE ProbeOops
  BY <1>24 DEF ProbeOops, CoreGoto, CoreMoves
<1>25. CASE CardStep
  BY <1>25, CardFrame
<1>26. ASSUME NEW u \in Users, Lock(u) PROVE FileInv'
  BY <1>26 DEF Lock, UserGoto
<1>27. ASSUME NEW u \in Users, OpenBusy(u) PROVE FileInv'
  BY <1>27 DEF OpenBusy, UserGoto, Forget
<1>28. ASSUME NEW u \in Users, OpenNoMem(u) PROVE FileInv'
  BY <1>28 DEF OpenNoMem, UserGoto, Forget
<1>29. ASSUME NEW u \in Users, OpenDone(u) PROVE FileInv'
  BY <1>29 DEF OpenDone, UserGoto
<1>30. ASSUME NEW u \in Users, ReleaseDone(u) PROVE FileInv'
  BY <1>30 DEF ReleaseDone, UserGoto, Forget
<1>31. ASSUME NEW u \in Users, IoDone(u) PROVE FileInv'
  BY <1>31 DEF IoDone, UserGoto, EndTransfer
<1>32. ASSUME NEW u \in Users, IoFail(u) PROVE FileInv'
  BY <1>32 DEF IoFail, UserGoto, EndTransfer
<1>33. ASSUME NEW u \in Users, Oops(u) PROVE FileInv'
  BY <1>33 DEF Oops, UserGoto, EndTransfer, UsingStruct
<1>34. ASSUME NEW u \in Users, NEW m \in Minors, Open(u, m) PROVE FileInv'
  <2>1. core \in {"bound", "cdev_del"}
    <3>1. "cdev" \in Taken
      BY <1>34 DEF Open, Taken
    <3>2. \A r \in PciResources : "cdev" \notin Before(r)
      BY DEF Before, PciResources, Maps
    <3>3. core # "maps" /\ ~ Unwinding
      BY <3>1, <3>2 DEF HeldInv, Unwinding
    <3>4. "cdev" \notin AllPci \cup {"region", "enabled"}
      BY DEF AllPci, Maps
    <3>5. core \notin {"absent", "alloc", "enable", "ignored", "msi"}
      BY <3>1, <3>4 DEF HeldInv, UnwindInv
    <3>6. core \notin {"undo", "undo_einval", "unmap", "oops"}
      BY <3>1, <3>3, <3>4 DEF HeldInv, UnwindInv
    <3>7. core \notin {"irqon", "chrdev", "mask", "mask_pio", "free_irq", "cdev"}
      BY <3>1, <3>4 DEF HeldInv, UnwindInv
    <3>8. QED
      BY <3>3, <3>5, <3>6, <3>7
  <2>2. live # 0 /\ module = "loaded"
    BY <1>34, <2>1 DEF Open
  <2>3. \A v \in Users : v # u => pc'[v] = pc[v] /\ file'[v] = file[v]
    BY <1>34 DEF Open, UserGoto
  <2>4. pc'[u] = "open" /\ file'[u].gen = live
    BY <1>34 DEF Open, UserGoto
  <2>5. UNCHANGED coreVars
    BY <1>34 DEF Open, UserGoto
  <2>6. QED
    BY <2>1, <2>2, <2>3, <2>4, <2>5
<1>35. ASSUME NEW u \in Users, Close(u) PROVE FileInv'
  BY <1>35 DEF Close, UserGoto
<1>36. ASSUME NEW u \in Users, NEW at \in Nat, NEW size \in Sizes, Transfer(u, at, size)
      PROVE FileInv'
  BY <1>36 DEF Transfer, UserGoto
<1>37. ASSUME NEW u \in Users, NEW on \in BOOLEAN, Ioctl(u, on) PROVE FileInv'
  BY <1>37 DEF Ioctl, UserGoto
<1>38. CASE UNCHANGED vars
  BY <1>38 DEF vars
<1> HIDE DEF TypeOK, StructInv, FileInv, NoFile, Alive, coreVars, pciVars, userVars
<1>39. QED
  BY <1>1, <1>2, <1>3, <1>4, <1>5, <1>6, <1>7, <1>8, <1>9, <1>10, <1>11, <1>12, <1>13, <1>14,
     <1>15, <1>16, <1>17, <1>18, <1>19, <1>20, <1>21, <1>22, <1>23, <1>24, <1>25, <1>26,
     <1>27, <1>28, <1>29, <1>30, <1>31, <1>32, <1>33, <1>34, <1>35, <1>36, <1>37, <1>38,
     TransferCases, OpenCases, NextGroups
  DEF CoreStep, ProbeStep, RemoveStep, UserStep, CallStep, Read, Write

\* A step frees no structure that an open file names, but that of a card that is pulled out.
LEMMA HoldStep ==
    ASSUME TypeOK, StructInv, FileInv, UsersHoldStruct, [Next]_vars
    PROVE  UsersHoldStruct'
<1> USE DEF TypeOK, StructInv, FileInv, UsersHoldStruct, NoFile, Alive, UsingStruct,
    coreVars, pciVars, userVars
<1>1. CASE Insmod
  BY <1>1 DEF Insmod
<1>2. CASE Rmmod
  BY <1>2 DEF Rmmod
<1>3. CASE Unplug
  BY <1>3 DEF Unplug, RemoveCalled
<1>4. CASE RemoveAtRmmod
  BY <1>4 DEF RemoveAtRmmod, RemoveCalled
<1>5. ASSUME NEW irq \in 0 .. 1, Probe(irq) PROVE UsersHoldStruct'
  BY <1>5 DEF Probe
<1>6. CASE ProbeAlloc
  BY <1>6 DEF ProbeAlloc
<1>7. CASE ProbeNoMem
  BY <1>7 DEF ProbeNoMem, CoreGoto, CoreMoves
<1>8. CASE EnableDevice
  BY <1>8 DEF EnableDevice, CoreGoto, CoreMoves
<1>9. ASSUME NEW granted \in BOOLEAN, EnableMsi(granted) PROVE UsersHoldStruct'
  BY <1>9 DEF EnableMsi, CoreGoto, CoreMoves
<1>10. ASSUME NEW r \in PciResources \ {"enabled", "msi"}, Take(r) PROVE UsersHoldStruct'
  BY <1>10 DEF Take, CoreGoto, CoreMoves
<1>11. ASSUME NEW r \in PciResources \ {"msi"}, PciFail(r) PROVE UsersHoldStruct'
  BY <1>11 DEF PciFail, CoreMoves
<1>12. CASE EnableInterrupts
  BY <1>12 DEF EnableInterrupts, SetCard
<1>13. CASE ChrdevRegion
  BY <1>13 DEF ChrdevRegion, CoreGoto, CoreMoves
<1>14. CASE ChrdevRegionFail
  BY <1>14 DEF ChrdevRegionFail, CoreGoto, CoreMoves
<1>15. CASE CdevAdd
  BY <1>15 DEF CdevAdd, CoreMoves
<1>16. CASE CdevFail
  BY <1>16 DEF CdevFail, CoreMoves
<1>17. CASE ReleaseCharDevice
  BY <1>17 DEF ReleaseCharDevice, CoreMoves
<1>18. CASE MaskPcieIrq
  BY <1>18 DEF MaskPcieIrq, CoreGoto, CoreMoves, SetCard
<1>19. CASE MaskPioIrq
  BY <1>19 DEF MaskPioIrq, CoreGoto, CoreMoves, SetCard
<1>20. CASE FreeIrq
  BY <1>20 DEF FreeIrq, CoreMoves
<1>21. CASE GiveBack
  BY <1>21 DEF GiveBack, CoreMoves
<1>22. CASE FreeStruct
  BY <1>22 DEF FreeStruct, CoreGoto, CoreMoves
<1>23. CASE Unload
  BY <1>23 DEF Unload
<1>24. CASE ProbeOops
  BY <1>24 DEF ProbeOops, CoreGoto, CoreMoves
<1>25. CASE CardStep
  BY <1>25, CardFrame
<1>26. ASSUME NEW u \in Users, Lock(u) PROVE UsersHoldStruct'
  BY <1>26 DEF Lock, UserGoto
<1>27. ASSUME NEW u \in Users, OpenBusy(u) PROVE UsersHoldStruct'
  BY <1>27 DEF OpenBusy, UserGoto, Forget
<1>28. ASSUME NEW u \in Users, OpenNoMem(u) PROVE UsersHoldStruct'
  BY <1>28 DEF OpenNoMem, UserGoto, Forget
<1>29. ASSUME NEW u \in Users, OpenDone(u) PROVE UsersHoldStruct'
  BY <1>29 DEF OpenDone, UserGoto
<1>30. ASSUME NEW u \in Users, ReleaseDone(u) PROVE UsersHoldStruct'
  BY <1>30 DEF ReleaseDone, UserGoto, Forget
<1>31. ASSUME NEW u \in Users, IoDone(u) PROVE UsersHoldStruct'
  BY <1>31 DEF IoDone, UserGoto, EndTransfer
<1>32. ASSUME NEW u \in Users, IoFail(u) PROVE UsersHoldStruct'
  BY <1>32 DEF IoFail, UserGoto, EndTransfer
<1>33. ASSUME NEW u \in Users, Oops(u) PROVE UsersHoldStruct'
  BY <1>33 DEF Oops, UserGoto, EndTransfer
<1>34. ASSUME NEW u \in Users, NEW m \in Minors, Open(u, m) PROVE UsersHoldStruct'
  BY <1>34 DEF Open, UserGoto
<1>35. ASSUME NEW u \in Users, Close(u) PROVE UsersHoldStruct'
  BY <1>35 DEF Close, UserGoto
<1>36. ASSUME NEW u \in Users, NEW at \in Nat, NEW size \in Sizes, Transfer(u, at, size)
      PROVE UsersHoldStruct'
  BY <1>36 DEF Transfer, UserGoto
<1>37. ASSUME NEW u \in Users, NEW on \in BOOLEAN, Ioctl(u, on) PROVE UsersHoldStruct'
  BY <1>37 DEF Ioctl, UserGoto
<1>38. CASE UNCHANGED vars
  BY <1>38 DEF vars
<1> HIDE DEF TypeOK, StructInv, FileInv, UsersHoldStruct, NoFile, Alive, UsingStruct,
    coreVars, pciVars, userVars
<1>39. QED
  BY <1>1, <1>2, <1>3, <1>4, <1>5, <1>6, <1>7, <1>8, <1>9, <1>10, <1>11, <1>12, <1>13, <1>14,
     <1>15, <1>16, <1>17, <1>18, <1>19, <1>20, <1>21, <1>22, <1>23, <1>24, <1>25, <1>26,
     <1>27, <1>28, <1>29, <1>30, <1>31, <1>32, <1>33, <1>34, <1>35, <1>36, <1>37, <1>38,
     TransferCases, OpenCases, NextGroups
  DEF CoreStep, ProbeStep, RemoveStep, UserStep, CallStep, Read, Write

\* A step keeps the mutex of the structure with the process that locked it.
LEMMA MutexStep ==
    ASSUME TypeOK, FileInv, StructInv, MutexInv, [Next]_vars
    PROVE  MutexInv'
<1> USE UsersAssumption DEF TypeOK, FileInv, StructInv, MutexInv, NoFile, Alive, UsingStruct,
    coreVars, pciVars, structVars,
    userVars
<1>1. CASE Insmod
  BY <1>1 DEF Insmod
<1>2. CASE Rmmod
  BY <1>2 DEF Rmmod
<1>3. CASE Unplug
  BY <1>3 DEF Unplug, RemoveCalled
<1>4. CASE RemoveAtRmmod
  BY <1>4 DEF RemoveAtRmmod, RemoveCalled
<1>5. ASSUME NEW irq \in 0 .. 1, Probe(irq) PROVE MutexInv'
  BY <1>5 DEF Probe
<1>6. CASE ProbeAlloc
  BY <1>6 DEF ProbeAlloc
<1>7. CASE ProbeNoMem
  BY <1>7 DEF ProbeNoMem, CoreGoto, CoreMoves
<1>8. CASE EnableDevice
  BY <1>8 DEF EnableDevice, CoreGoto, CoreMoves
<1>9. ASSUME NEW granted \in BOOLEAN, EnableMsi(granted) PROVE MutexInv'
  BY <1>9 DEF EnableMsi, CoreGoto, CoreMoves
<1>10. ASSUME NEW r \in PciResources \ {"enabled", "msi"}, Take(r) PROVE MutexInv'
  BY <1>10 DEF Take, CoreGoto, CoreMoves
<1>11. ASSUME NEW r \in PciResources \ {"msi"}, PciFail(r) PROVE MutexInv'
  BY <1>11 DEF PciFail, CoreMoves
<1>12. CASE EnableInterrupts
  BY <1>12 DEF EnableInterrupts, SetCard
<1>13. CASE ChrdevRegion
  BY <1>13 DEF ChrdevRegion, CoreGoto, CoreMoves
<1>14. CASE ChrdevRegionFail
  BY <1>14 DEF ChrdevRegionFail, CoreGoto, CoreMoves
<1>15. CASE CdevAdd
  BY <1>15 DEF CdevAdd, CoreMoves
<1>16. CASE CdevFail
  BY <1>16 DEF CdevFail, CoreMoves
<1>17. CASE ReleaseCharDevice
  BY <1>17 DEF ReleaseCharDevice, CoreMoves
<1>18. CASE MaskPcieIrq
  BY <1>18 DEF MaskPcieIrq, CoreGoto, CoreMoves, SetCard
<1>19. CASE MaskPioIrq
  BY <1>19 DEF MaskPioIrq, CoreGoto, CoreMoves, SetCard
<1>20. CASE FreeIrq
  BY <1>20 DEF FreeIrq, CoreMoves
<1>21. CASE GiveBack
  BY <1>21 DEF GiveBack, CoreMoves
<1>22. CASE FreeStruct
  BY <1>22 DEF FreeStruct, CoreGoto, CoreMoves
<1>23. CASE Unload
  BY <1>23 DEF Unload
<1>24. CASE ProbeOops
  BY <1>24 DEF ProbeOops, CoreGoto, CoreMoves
<1>25. CASE CardStep
  BY <1>25, CardFrame
<1>26. ASSUME NEW u \in Users, Lock(u) PROVE MutexInv'
  BY <1>26 DEF Lock, UserGoto
<1>27. ASSUME NEW u \in Users, OpenBusy(u) PROVE MutexInv'
  BY <1>27 DEF OpenBusy, UserGoto, Forget
<1>28. ASSUME NEW u \in Users, OpenNoMem(u) PROVE MutexInv'
  BY <1>28 DEF OpenNoMem, UserGoto, Forget
<1>29. ASSUME NEW u \in Users, OpenDone(u) PROVE MutexInv'
  BY <1>29 DEF OpenDone, UserGoto
<1>30. ASSUME NEW u \in Users, ReleaseDone(u) PROVE MutexInv'
  BY <1>30 DEF ReleaseDone, UserGoto, Forget
<1>31. ASSUME NEW u \in Users, IoDone(u) PROVE MutexInv'
  BY <1>31 DEF IoDone, UserGoto, EndTransfer
<1>32. ASSUME NEW u \in Users, IoFail(u) PROVE MutexInv'
  BY <1>32 DEF IoFail, UserGoto, EndTransfer
<1>33. ASSUME NEW u \in Users, Oops(u) PROVE MutexInv'
  BY <1>33 DEF Oops, UserGoto, EndTransfer
<1>34. ASSUME NEW u \in Users, NEW m \in Minors, Open(u, m) PROVE MutexInv'
  BY <1>34 DEF Open, UserGoto
<1>35. ASSUME NEW u \in Users, Close(u) PROVE MutexInv'
  BY <1>35 DEF Close, UserGoto
<1>36. ASSUME NEW u \in Users, NEW at \in Nat, NEW size \in Sizes, Transfer(u, at, size)
      PROVE MutexInv'
  BY <1>36 DEF Transfer, UserGoto
<1>37. ASSUME NEW u \in Users, NEW on \in BOOLEAN, Ioctl(u, on) PROVE MutexInv'
  BY <1>37 DEF Ioctl, UserGoto
<1>38. CASE UNCHANGED vars
  BY <1>38 DEF vars
<1> HIDE DEF TypeOK, FileInv, StructInv, MutexInv, NoFile, Alive, UsingStruct, coreVars, pciVars,
    structVars, userVars
<1>39. QED
  BY <1>1, <1>2, <1>3, <1>4, <1>5, <1>6, <1>7, <1>8, <1>9, <1>10, <1>11, <1>12, <1>13, <1>14,
     <1>15, <1>16, <1>17, <1>18, <1>19, <1>20, <1>21, <1>22, <1>23, <1>24, <1>25, <1>26,
     <1>27, <1>28, <1>29, <1>30, <1>31, <1>32, <1>33, <1>34, <1>35, <1>36, <1>37, <1>38,
     TransferCases, OpenCases, NextGroups
  DEF CoreStep, ProbeStep, RemoveStep, UserStep, CallStep, Read, Write

\* A step keeps module_open with the files.
LEMMA OpenedStep ==
    ASSUME TypeOK, FileInv, StructInv, MutexInv, OpenedInv, [Next]_vars
    PROVE  OpenedInv'
<1> USE DEF TypeOK, FileInv, StructInv, MutexInv, OpenedInv, HasOpen, NoFile, Alive,
    UsingStruct, coreVars, pciVars, structVars,
    userVars
<1>1. CASE Insmod
  BY <1>1 DEF Insmod
<1>2. CASE Rmmod
  BY <1>2 DEF Rmmod
<1>3. CASE Unplug
  BY <1>3 DEF Unplug, RemoveCalled
<1>4. CASE RemoveAtRmmod
  BY <1>4 DEF RemoveAtRmmod, RemoveCalled
<1>5. ASSUME NEW irq \in 0 .. 1, Probe(irq) PROVE OpenedInv'
  BY <1>5 DEF Probe
<1>6. CASE ProbeAlloc
  BY <1>6 DEF ProbeAlloc
<1>7. CASE ProbeNoMem
  BY <1>7 DEF ProbeNoMem, CoreGoto, CoreMoves
<1>8. CASE EnableDevice
  BY <1>8 DEF EnableDevice, CoreGoto, CoreMoves
<1>9. ASSUME NEW granted \in BOOLEAN, EnableMsi(granted) PROVE OpenedInv'
  BY <1>9 DEF EnableMsi, CoreGoto, CoreMoves
<1>10. ASSUME NEW r \in PciResources \ {"enabled", "msi"}, Take(r) PROVE OpenedInv'
  BY <1>10 DEF Take, CoreGoto, CoreMoves
<1>11. ASSUME NEW r \in PciResources \ {"msi"}, PciFail(r) PROVE OpenedInv'
  BY <1>11 DEF PciFail, CoreMoves
<1>12. CASE EnableInterrupts
  BY <1>12 DEF EnableInterrupts, SetCard
<1>13. CASE ChrdevRegion
  BY <1>13 DEF ChrdevRegion, CoreGoto, CoreMoves
<1>14. CASE ChrdevRegionFail
  BY <1>14 DEF ChrdevRegionFail, CoreGoto, CoreMoves
<1>15. CASE CdevAdd
  BY <1>15 DEF CdevAdd, CoreMoves
<1>16. CASE CdevFail
  BY <1>16 DEF CdevFail, CoreMoves
<1>17. CASE ReleaseCharDevice
  BY <1>17 DEF ReleaseCharDevice, CoreMoves
<1>18. CASE MaskPcieIrq
  BY <1>18 DEF MaskPcieIrq, CoreGoto, CoreMoves, SetCard
<1>19. CASE MaskPioIrq
  BY <1>19 DEF MaskPioIrq, CoreGoto, CoreMoves, SetCard
<1>20. CASE FreeIrq
  BY <1>20 DEF FreeIrq, CoreMoves
<1>21. CASE GiveBack
  BY <1>21 DEF GiveBack, CoreMoves
<1>22. CASE FreeStruct
  BY <1>22 DEF FreeStruct, CoreGoto, CoreMoves
<1>23. CASE Unload
  BY <1>23 DEF Unload
<1>24. CASE ProbeOops
  BY <1>24 DEF ProbeOops, CoreGoto, CoreMoves
<1>25. CASE CardStep
  BY <1>25, CardFrame
<1>26. ASSUME NEW u \in Users, Lock(u) PROVE OpenedInv'
  <2>1. UNCHANGED <<live, file, module_open>>
    BY <1>26 DEF Lock, UserGoto
  <2>2. \A v \in Users, m \in Minors : HasOpen(v, m)' <=> HasOpen(v, m)
    <3>1. CASE pc[u] = "open" /\ UserGoto(u, "locked")
      BY <2>1, <3>1 DEF UserGoto
    <3>2. CASE pc[u] = "release" /\ UserGoto(u, "releaselocked")
      BY <2>1, <3>2 DEF UserGoto
    <3>3. QED
      BY <1>26, <3>1, <3>2 DEF Lock
  <2> HIDE DEF HasOpen
  <2>3. QED
    BY <2>1, <2>2
<1>27. ASSUME NEW u \in Users, OpenBusy(u) PROVE OpenedInv'
  <2>1. UNCHANGED <<live, module_open>> /\ pc[u] = "locked" /\ pc'[u] = "idle"
    BY <1>27 DEF OpenBusy, UserGoto
  <2>2. \A v \in Users \ {u} : pc'[v] = pc[v] /\ file'[v] = file[v]
    BY <1>27 DEF OpenBusy, UserGoto, Forget
  <2>3. \A v \in Users, m \in Minors : HasOpen(v, m)' <=> HasOpen(v, m)
    BY <2>1, <2>2
  <2> HIDE DEF HasOpen
  <2>4. QED
    BY <2>1, <2>3
<1>28. ASSUME NEW u \in Users, OpenNoMem(u) PROVE OpenedInv'
  BY <1>28 DEF OpenNoMem, UserGoto, Forget
<1>29. ASSUME NEW u \in Users, OpenDone(u) PROVE OpenedInv'
  BY <1>29 DEF OpenDone, UserGoto
<1>30. ASSUME NEW u \in Users, ReleaseDone(u) PROVE OpenedInv'
  BY <1>30 DEF ReleaseDone, UserGoto, Forget
<1>31. ASSUME NEW u \in Users, IoDone(u) PROVE OpenedInv'
  BY <1>31 DEF IoDone, UserGoto, EndTransfer
<1>32. ASSUME NEW u \in Users, IoFail(u) PROVE OpenedInv'
  BY <1>32 DEF IoFail, UserGoto, EndTransfer
<1>33. ASSUME NEW u \in Users, Oops(u) PROVE OpenedInv'
  BY <1>33 DEF Oops, UserGoto, EndTransfer
<1>34. ASSUME NEW u \in Users, NEW m \in Minors, Open(u, m) PROVE OpenedInv'
  BY <1>34 DEF Open, UserGoto
<1>35. ASSUME NEW u \in Users, Close(u) PROVE OpenedInv'
  BY <1>35 DEF Close, UserGoto
<1>36. ASSUME NEW u \in Users, NEW at \in Nat, NEW size \in Sizes, Transfer(u, at, size)
      PROVE OpenedInv'
  BY <1>36 DEF Transfer, UserGoto
<1>37. ASSUME NEW u \in Users, NEW on \in BOOLEAN, Ioctl(u, on) PROVE OpenedInv'
  BY <1>37 DEF Ioctl, UserGoto
<1>38. CASE UNCHANGED vars
  BY <1>38 DEF vars
<1> HIDE DEF TypeOK, FileInv, StructInv, MutexInv, OpenedInv, HasOpen, NoFile, Alive, UsingStruct,
    coreVars, pciVars, structVars, userVars
<1>39. QED
  BY <1>1, <1>2, <1>3, <1>4, <1>5, <1>6, <1>7, <1>8, <1>9, <1>10, <1>11, <1>12, <1>13, <1>14,
     <1>15, <1>16, <1>17, <1>18, <1>19, <1>20, <1>21, <1>22, <1>23, <1>24, <1>25, <1>26,
     <1>27, <1>28, <1>29, <1>30, <1>31, <1>32, <1>33, <1>34, <1>35, <1>36, <1>37, <1>38,
     TransferCases, OpenCases, NextGroups
  DEF CoreStep, ProbeStep, RemoveStep, UserStep, CallStep, Read, Write

\* A step keeps transfers inside the module.
LEMMA InsideStep ==
    ASSUME TypeOK, InsideModule, [Next]_vars
    PROVE  InsideModule'
<1> USE SizesAssumption DEF TypeOK, InsideModule, userVars
<1>1. CASE CoreStep
  BY <1>1, CoreFrame
<1>2. CASE CardStep
  BY <1>2, CardFrame
<1>3. ASSUME NEW u \in Users, Lock(u) PROVE InsideModule'
  BY <1>3 DEF Lock, UserGoto
<1>4. ASSUME NEW u \in Users, OpenBusy(u) PROVE InsideModule'
  BY <1>4 DEF OpenBusy, UserGoto, Forget
<1>5. ASSUME NEW u \in Users, OpenNoMem(u) PROVE InsideModule'
  BY <1>5 DEF OpenNoMem, UserGoto, Forget
<1>6. ASSUME NEW u \in Users, OpenDone(u) PROVE InsideModule'
  BY <1>6 DEF OpenDone, UserGoto
<1>7. ASSUME NEW u \in Users, ReleaseDone(u) PROVE InsideModule'
  BY <1>7 DEF ReleaseDone, UserGoto, Forget
<1>8. ASSUME NEW u \in Users, IoDone(u) PROVE InsideModule'
  BY <1>8 DEF IoDone, UserGoto, EndTransfer
<1>9. ASSUME NEW u \in Users, IoFail(u) PROVE InsideModule'
  BY <1>9 DEF IoFail, UserGoto, EndTransfer
<1>10. ASSUME NEW u \in Users, Oops(u) PROVE InsideModule'
  BY <1>10 DEF Oops, UserGoto, EndTransfer
<1>11. ASSUME NEW u \in Users, NEW m \in Minors, Open(u, m) PROVE InsideModule'
  BY <1>11 DEF Open, UserGoto
<1>12. ASSUME NEW u \in Users, Close(u) PROVE InsideModule'
  BY <1>12 DEF Close, UserGoto
<1>13. ASSUME NEW u \in Users, NEW at \in Nat, NEW size \in Sizes, Transfer(u, at, size)
      PROVE InsideModule'
  <2>1. Length(u, at, size) \in Nat /\ at \in Nat
    BY <1>13 DEF Transfer, Length, MEM
  <2>2. file[u].minor = MEM /\ at <= MODULE_MEM_LENGTH =>
            at + Length(u, at, size) <= MODULE_MEM_LENGTH
    BY DEF Length
  <2>3. \A v \in Users : /\ file'[v] = file[v]
                         /\ v # u => pc'[v] = pc[v] /\ position'[v] = position[v]
                                                    /\ length'[v] = length[v]
    BY <1>13 DEF Transfer, UserGoto
  <2>4. position'[u] = at /\ length'[u] = Length(u, at, size)
    BY <1>13 DEF Transfer
  <2>5. \A v \in Users : file[v].offset \in 0 .. MODULE_MEM_LENGTH
    OBVIOUS
  <2> HIDE DEF TypeOK
  <2>6. QED
    BY <2>1, <2>2, <2>3, <2>4, <2>5
<1>14. ASSUME NEW u \in Users, NEW on \in BOOLEAN, Ioctl(u, on) PROVE InsideModule'
  BY <1>14 DEF Ioctl, UserGoto
<1>15. CASE UNCHANGED vars
  BY <1>15 DEF vars
<1> HIDE DEF TypeOK, InsideModule, userVars
<1>16. QED
  BY <1>1, <1>2, <1>3, <1>4, <1>5, <1>6, <1>7, <1>8, <1>9, <1>10, <1>11, <1>12, <1>13, <1>14,
     <1>15, TransferCases, OpenCases, NextGroups
  DEF UserStep, CallStep, Read, Write

\* A step keeps the leds with the edges.
LEMMA LedsStep ==
    ASSUME TypeOK, HeldInv, StructInv, HandlerInv, LedsInv, [Next]_vars
    PROVE  LedsInv'
<1> USE DEF TypeOK, LedsInv, Xor, coreVars, pciVars, cardVars, handlerVars
<1>1. CASE Insmod
  BY <1>1 DEF Insmod, HeldInv, Taken, StructInv, HandlerInv
<1>2. CASE Rmmod
  BY <1>2 DEF Rmmod
<1>3. CASE Unplug
  BY <1>3 DEF Unplug, RemoveCalled
<1>4. CASE RemoveAtRmmod
  BY <1>4 DEF RemoveAtRmmod, RemoveCalled
<1>5. ASSUME NEW irq \in 0 .. 1, Probe(irq) PROVE LedsInv'
  BY <1>5 DEF Probe
<1>6. CASE ProbeAlloc
  BY <1>6 DEF ProbeAlloc
<1>7. CASE ProbeNoMem
  BY <1>7 DEF ProbeNoMem, CoreGoto, CoreMoves
<1>8. CASE EnableDevice
  BY <1>8 DEF EnableDevice, CoreGoto, CoreMoves
<1>9. ASSUME NEW granted \in BOOLEAN, EnableMsi(granted) PROVE LedsInv'
  BY <1>9 DEF EnableMsi, CoreGoto, CoreMoves
<1>10. ASSUME NEW r \in PciResources \ {"enabled", "msi"}, Take(r) PROVE LedsInv'
  BY <1>10 DEF Take, CoreGoto, CoreMoves
<1>11. ASSUME NEW r \in PciResources \ {"msi"}, PciFail(r) PROVE LedsInv'
  BY <1>11 DEF PciFail, CoreMoves
<1>12. CASE EnableInterrupts
  BY <1>12 DEF EnableInterrupts, SetCard
<1>13. CASE ChrdevRegion
  BY <1>13 DEF ChrdevRegion, CoreGoto, CoreMoves
<1>14. CASE ChrdevRegionFail
  BY <1>14 DEF ChrdevRegionFail, CoreGoto, CoreMoves
<1>15. CASE CdevAdd
  BY <1>15 DEF CdevAdd, CoreMoves
<1>16. CASE CdevFail
  BY <1>16 DEF CdevFail, CoreMoves
<1>17. CASE ReleaseCharDevice
  BY <1>17 DEF ReleaseCharDevice, CoreMoves
<1>18. CASE MaskPcieIrq
  BY <1>18 DEF MaskPcieIrq, CoreGoto, CoreMoves, SetCard
<1>19. CASE MaskPioIrq
  BY <1>19 DEF MaskPioIrq, CoreGoto, CoreMoves, SetCard
<1>20. CASE FreeIrq
  BY <1>20 DEF FreeIrq, CoreMoves
<1>21. CASE GiveBack
  BY <1>21 DEF GiveBack, CoreMoves
<1>22. CASE FreeStruct
  BY <1>22 DEF FreeStruct, CoreGoto, CoreMoves
<1>23. CASE Unload
  BY <1>23 DEF Unload
<1>24. CASE ProbeOops
  BY <1>24 DEF ProbeOops, CoreGoto, CoreMoves
<1>25. CASE Interrupt
  BY <1>25 DEF Interrupt
<1>26. CASE HandlerStatus
  BY <1>26 DEF HandlerStatus, HandlerGoto
<1>27. CASE HandlerEdge
  BY <1>27 DEF HandlerEdge, HandlerGoto
<1>28. CASE HandlerLeds
  BY <1>28 DEF HandlerLeds, HandlerGoto
<1>29. CASE HandlerAck
  BY <1>29 DEF HandlerAck, HandlerGoto, SetCard
<1>30. CASE HandlerReset
  BY <1>30 DEF HandlerReset, HandlerGoto, SetCard
<1>31. CASE HandlerEnable
  BY <1>31 DEF HandlerEnable, HandlerGoto, SetCard
<1>32. CASE HandlerPcie
  BY <1>32 DEF HandlerPcie, HandlerGoto, SetCard
<1>33. CASE HandlerOops
  BY <1>33 DEF HandlerOops, HandlerGoto
<1>34. ASSUME NEW s \in Switches, Flip(s) PROVE LedsInv'
  BY <1>34 DEF Flip, SetCard
<1>35. ASSUME NEW u \in Users, UserStep(u) PROVE LedsInv'
  BY <1>35, UserFrame
<1>36. CASE UNCHANGED vars
  BY <1>36 DEF vars
<1> HIDE DEF TypeOK, LedsInv, Xor, coreVars, pciVars, cardVars, handlerVars
<1>37. QED
  BY <1>1, <1>2, <1>3, <1>4, <1>5, <1>6, <1>7, <1>8, <1>9, <1>10, <1>11, <1>12, <1>13, <1>14,
     <1>15, <1>16, <1>17, <1>18, <1>19, <1>20, <1>21, <1>22, <1>23, <1>24, <1>25, <1>26,
     <1>27, <1>28, <1>29, <1>30, <1>31, <1>32, <1>33, <1>34, <1>35, <1>36, NextGroups
  DEF CoreStep, ProbeStep, RemoveStep, CardStep, HandlerStep

-----------------------------------------------------------------------------
\* The invariant holds in every behaviour of the specification.
THEOREM Invariance == Spec => []Inv
<1>1. Inv /\ [Next]_vars => Inv'
  BY TypeStep, HeldStep, UnwindStep, StructStep, HandlerInvStep, FileStep, HoldStep,
     MutexStep, OpenedStep, InsideStep, LedsStep DEF Inv
<1>2. QED
  BY InitInv, <1>1, PTL DEF Spec

\* Every variable keeps its type.  module_open of a module is 0 or 1, whatever open() and
\* release() do, and the position of a file is at most the length of the module
\* (lines 196, 224, 281).
THEOREM TypeCorrect == Spec => []TypeOK
<1>1. Inv => TypeOK
  BY DEF Inv
<1>2. QED
  BY Invariance, <1>1, PTL

\* While a file is open its structure is not freed, unless the card is pulled out (lines 111, 206,
\* 222, 702).
THEOREM FilesHoldStruct == Spec => []UsersHoldStruct
<1>1. Inv => UsersHoldStruct
  BY DEF Inv
<1>2. QED
  BY Invariance, <1>1, PTL

\* A handler that may be called, or runs, finds the mappings it uses and the structure it is
\* given (lines 537, 570-577, 678, 702), but for one path: the structure is freed by the error
\* of line 131, and the handler is not taken away before line 570.
THEOREM HandlerSafe == Spec => []HandlerHoldsDevice
<1>1. Inv => HandlerHoldsDevice
  <2> SUFFICES ASSUME Inv, "irq" \in held \/ hpc # "idle"
               PROVE  Maps \subseteq held /\ (live # 0 \/ FreedEarly)
    BY DEF HandlerHoldsDevice
  <2>1. "irq" \in Taken
    BY DEF Inv, HandlerInv, Taken
  <2>2. ~ Unwinding
    BY <2>1 DEF Unwinding, Before, PciResources, Maps
  <2>3. core \in {"irqon", "chrdev", "cdev", "bound", "cdev_del", "mask", "mask_pio",
                  "free_irq", "oops"}
    <3>1. core # "maps"
      BY <2>1 DEF Inv, HeldInv, UnwindInv, Before, PciResources, Maps
    <3>2. core \notin {"absent", "alloc", "enable", "ignored", "msi"}
      BY <2>1 DEF Inv, HeldInv, UnwindInv
    <3>3. core \notin {"undo", "undo_einval", "unmap"}
      BY <2>2 DEF Inv, HeldInv, UnwindInv
    <3>4. QED
      BY <3>1, <3>2, <3>3 DEF Inv, TypeOK
  <2>4. AllPci \subseteq Taken
    BY <2>2, <2>3 DEF Inv, HeldInv, UnwindInv
  <2>5. live # 0 \/ FreedEarly
    BY <2>3 DEF Inv, StructInv, FreedEarly
  <2>6. QED
    BY <2>4, <2>5 DEF AllPci, Taken
<1>2. QED
  BY Invariance, <1>1, PTL

\* A module of the card is open once at most and module_open says so, until its structure is freed
\* (lines 193-212, 224).
THEOREM OpenIsExclusive == Spec => []ExclusiveOpen
<1>1. Inv => ExclusiveOpen
  <2> SUFFICES ASSUME Inv, live # 0, NEW m \in Minors
               PROVE  LET files == {u \in Users : HasOpen(u, m)}
                      IN  module_open[m] = Cardinality(files) /\ Cardinality(files) <= 1
    BY DEF ExclusiveOpen, HasOpen
  <2> DEFINE files == {u \in Users : HasOpen(u, m)}
  <2>1. module_open[m] \in 0 .. 1
    BY DEF Inv, TypeOK
  <2>2. CASE module_open[m] = 0
    <3>1. files = {}
      BY <2>2 DEF Inv, OpenedInv
    <3>2. Cardinality(files) = 0
      BY <3>1, FS_EmptySet
    <3>3. QED
      BY <2>2, <3>2
  <2>3. CASE module_open[m] = 1
    <3>1. PICK u \in Users : HasOpen(u, m)
      BY <2>3 DEF Inv, OpenedInv
    <3>2. files = {u}
      BY <3>1 DEF Inv, OpenedInv
    <3>3. Cardinality({u}) = 1
      BY FS_Singleton
    <3>4. Cardinality(files) = 1
      BY <3>2, <3>3
    <3>5. QED
      BY <2>3, <3>4
  <2>4. QED
    BY <2>1, <2>2, <2>3
<1>2. QED
  BY Invariance, <1>1, PTL

\* A transfer that begins inside the module stays inside it, and so does the file position (lines
\* 249, 263, 281).
THEOREM TransfersInside == Spec => []InsideModule
<1>1. Inv => InsideModule
  BY DEF Inv
<1>2. QED
  BY Invariance, <1>1, PTL

\* The lists of the error exits (lines 471-545) and of release_pci_device() (lines 574-587)
\* give back each thing once, before what it stands on, and forget none: a probe() that failed
\* and a remove() leave nothing, but the MSI of line 459, which no error exit disables, and
\* after line 145 the device nodes of the minors other than 0.
THEOREM FailedProbeUndone == Spec => []ProbeUndone
<1>1. Inv => ProbeUndone
  <2> SUFFICES ASSUME Inv PROVE ProbeUndone
    OBVIOUS
  <2>1. CASE unwind # <<>>
    <3>1. Unwinding
      BY <2>1 DEF Inv, HeldInv, UnwindInv
    <3>2. /\ Head(unwind) \in held
          /\ \A q \in held : Head(unwind) \notin Before(q)
      BY <2>1, <3>1, UnwindGivesBack
    <3>3. core \notin {"absent", "ignored"}
      BY <2>1 DEF Inv, HeldInv, UnwindInv
    <3>4. QED
      BY <3>2, <3>3 DEF ProbeUndone
  <2>2. CASE unwind = <<>>
    BY <2>2 DEF Inv, HeldInv, UnwindInv, StructInv, ProbeUndone, Taken
  <2>3. QED
    BY <2>1, <2>2
<1>2. QED
  BY Invariance, <1>1, PTL

\* With the first card the handler counts each captured edge that line 612 reads once; those
\* captured between there and line 625 it loses, and they are not in the sum.
THEOREM EdgesCountedOnce == Spec => []EdgesCounted
<1>1. Inv => EdgesCounted
  BY DEF Inv, LedsInv, EdgesCounted
<1>2. QED
  BY Invariance, <1>1, PTL
=============================================================================
