# Specifications of the ild drivers

`ild` holds the examples and the exercise solutions of a course on Linux drivers: some fifty small
kernel modules, most of them a step towards the next one. These modules model the drivers in which
several actors meet: processes in system calls, interrupt handlers, the USB hub thread and the
host's completions. Paths below are relative to the repository's `exemples/` and `solutions/`.

## 1. Inventory

| component | state it keeps | operations | what is hard |
|---|---|---|---|
| event array (`05/example-V-09.c`; steps 07 and 08, one array for each file in 10, `poll()` in `example-select.c`) | array of time stamps and its length, spinlock, wait queue | `read()` (blocking or not), GPIO interrupt, init, exit | two CPUs and an interrupt on the array, sleeping outside the lock, a full array |
| message queue (`tp-V-01` to `tp-V-04`) | rows of text, their count, a mutex and two wait queues, one offset for each file | `read()`, `write()` | sleeping for "not empty" and "not full", faults in the middle of a copy, an offset compared with whatever message is first |
| USB driver (`07/example-VII-05.c`; steps 01 to 04) | open count, device pointer, and for each direction an endpoint, URB, buffer, busy flag, mutex, wait queue | `open()`, `release()`, `read()`, `write()`, completion callbacks, `probe()`, `disconnect()` | unplugging during a call, signals that abandon a URB, two mutexes against one pointer |
| FPGA driver (`05/example-fpga.c`) | one structure for each PCI device, private data of each file, open flags of each minor, the registers of the card | `probe()`, `remove()`, `open()`, `release()`, `read()`, `write()`, `mmap()`, `ioctl()`, interrupt | error paths of `probe()`, files that outlive the device, edges that come while the handler runs |
| network pair (`06/example-VI-02.c`, `03.c`; `01.c` alone) | two net devices, the packet in flight in each | `open`, `stop`, `start_xmit`, receive and transmit handlers, init, exit | who owns a packet, the peer that does not exist yet |
| bottom halves (`05/example-V-03.c` to `06.c`) | a tasklet, a work or a threaded handler | interrupt, deferred function, exit | deferred work against the release of what it uses |
| timers and mmap (`03/example-III-03.c`, `05/example-V-11.c`) | a timer that re-arms itself, a page | callback, `mmap()`, exit | the callback against `del_timer()` |
| counters (`tp-IV-01` to `tp-IV-04`, `04/example-IV-07.c`, `08.c`) | integers, their steps | `read()`, `write()`, `ioctl()` | unlocked updates, the size an ioctl copies |
| event log (`tp-III-02-log.c`) | a table of events | `/proc` `read()`, `write()` | the table shared without a lock |
| modules and /proc files (`01`, `02`, `03`, `04`, the first solutions) | the registrations of a module | init, exit, stateless reads | undoing a partial init in the reverse order |
| user programs and scripts | none | the calls made to the drivers | — |

The parts hardly call each other: every driver is a module of its own that meets the kernel. What
interacts is inside a driver, through shared memory (array, table, flags), locks, wait queues and
callbacks; the kernel's side (wait queues, scheduler, VFS, USB, PCI and network cores) is modelled
from how the driver uses it, and marked external in the map.

What makes the components correct:

* event array: only one context at a time on the array; no handler spinning for a lock its own CPU
  holds; no reader asleep beside an event; events leave in order, once, and only a full array
  forgets any;
* message queue: one call at a time on the table; rows always terminated; committed messages keep
  their bytes, in order, none forgotten; no side asleep while it could go on; what is removed was
  read;
* USB: one open file; a flag, mutex and URB of a direction belong to the same transfer; a transfer
  is reported to its own submitter; nothing is freed in use; unplugging ends every wait; the open
  count is the number of files; the device pointer tested is the one used;
* FPGA: the structure lives as long as a file or the handler uses it; a failed `probe()` gives back
  what it took, in order; a module is open once; transfers stay inside it; the handler counts each
  edge once, and no edge stays captured with no interrupt to come (the code keeps the first two but
  for some paths, section 2 says which);
* network pair: a packet is freed once; what arrives is what was sent, in order, to the right
  device; the counters of the two agree;
* every module: what `init` and its error paths take and release fits whatever runs meanwhile.

`PROJECT.json` lists the hazards at their lines, those that no property covers with the reason.

## 2. Modules

| module | models |
|---|---|
| `BoundedFifo` | abstract: numbered entries through a table of bounded capacity, in order, each once; `FifoSpec` may forget an arrival when full, `LosslessSpec` may not |
| `EventArray` | `example_read()` and `example_handler()` of `example-V-09.c`; refines `FifoSpec` |
| `EventSelect` | `EventArray` with `example_poll()` and the `example_read()` of `example-select.c`, used as `test-select.c` does |
| `MessageQueue` | `messages_read()` and `messages_write()` of `tp-V-04-blocking-write.c`, and of `tp-V-02` and `tp-V-03`, where no side or one side waits; refines `LosslessSpec` |
| `UsbK8055` | `example-VII-05.c` but the text of `read()` |
| `Fpga` | `example-fpga.c` but `mmap()` |
| `NetPair` | `example-VI-03.c`, of which `example-VI-02.c` is the same without counters |
| `ModuleLadder` | the machine that runs an init or probe, its error paths and the exit against everything that can run meanwhile |
| `LadderOrder` | what the order of a ladder has to be for the driver to keep the properties: conditions on the text of `init` and `exit` |
| `DriverLadders` | its data: what 25 drivers of chapters II to VII take and release, in the order of the code |
| `EventArrayProofs`, `EventSelectProofs`, `MessageQueueProofs`, `UsbK8055Proofs`, `FpgaProofs`, `NetPairProofs`, `ModuleLadderProofs` | the inductive invariant and the theorems of each |
| `TableLemmas` | an array with its count, as a sequence |
| `MC*` | the small instances of each |

Variables have the names of the C variables. `pc[r]` is the place of a process in its system call, a
value of `pc` for every point where another actor can intervene and make a difference. Operators
named `MUTANT of ...` in their comment are deliberate mistakes beside the operator they replace;
`Next` never uses them.

### EventArray

The spinlock with `irqsave` is two steps: `IrqSave` masks the interrupts of the reader's CPU
(`irqs_off`) and `SpinAcquire` takes the lock. The array is then read (`Peek`), shifted and
shortened (`Shift`) in separate steps from the test of its length, and the handler stores the entry
(`HandlerStore`) before it increments the length, so that without the lock the model would show torn
accesses. An interrupt occurs on any CPU with interrupts on (`Interrupt`), and from then on no
process of that CPU runs (`CanRun`) until `HandlerWake`, the end of the handler. Processes of a CPU
preempt each other, except while one holds a spinlock.

`wait_event_interruptible()` is what the kernel's macro does: test, queue (`PrepareToWait`), test
again (`CheckCondition`), sleep, and on a signal (`Signal`, `Interrupted`) a last test. The stamp
`jiffies` is the number of the interrupt: equal stamps would hide an exchange of two entries.
`taken` is a history of what left the array; the refinement mapping presents the first
`example_array_end` entries as the FIFO and counts an interrupt as arrived when its entry counts (or
is dropped).

### EventSelect

A process in `select()` has an entry in the driver's wait queue (`poll_wq`), which a wake-up marks
(`triggered`) without removing it: `select()` polls again before it sleeps, and after. `poll()`
itself is three steps, since the handler may come between any two: queue, lock, test. A timeout or a
signal ends a `select()` at any time (`SelectEnds`). The read that follows is `EventArray`'s, with
one more way to end it: `ShortBuffer`, which finds the caller's buffer too small before it has
removed the event (in `example-V-09.c` the event is gone by then). `ready` is a history of the
answers of `poll()` that no reader has made false since.

`EventArray` with `NonBlocking = Readers` is `example-V-07.c`, with `NonBlocking = {}`
`example-V-08.c`.

### MessageQueue

`driver` says which of the three programs is loaded; they differ in who waits (`Waits`) and in what
becomes of a call that does not (`TestRefused`). `tp-V-01`, the same without a mutex, is the mutant
`LockNothing`.

A byte is the number of the message it belongs to, 0 is NUL, and `Aborted` is a byte that a failed
`write()` has copied. A row also remembers which message was put in it and its length (for the
properties only: the code has no length, `StrLen` goes to the first NUL). All that happens between lock and unlock is
split where the code writes the table in several statements: the copy into the row, the count, the
wake-up. `WriteFault` leaves the row as `copy_from_user()` does, the first bytes copied, the rest of
the length cleared. `CopyToUser` reads row `*offset`, as the code does (`messages_array[*offset]`),
or bytes outside the table. `Reopen` starts a file over at offset 0. A text with embedded NULs is
not modelled.

The code goes wrong in what follows a message in its row. `write()` stores no NUL, and neither it
nor the removal of a row clears anything: `memmove()` leaves the last row as it was, and a message
shorter than what its row held before is read together with the tail of the older one ("ab" is
written, read and removed, "c" is written, "cb" is read), or with what a failed copy left there. The
model has these tails, and so what `read()` returns and when the file offset is "past the end".
`MessagesIntact` keeps the two apart: up to its length a message is the bytes its `write()` copied,
after it the row has NUL and leftovers of earlier messages or of failed copies, never bytes of the
message itself or of a later one. That a reader gets the message alone does not hold, and is not
stated.

### UsbK8055

Both directions run the same steps (`dir`), as `example_write()` and `example_read()` do up to lines
153 and 227. The contents of a transfer is the process that submitted it; when that process returns
on a signal the URB in flight becomes `Abandoned`, and the callback that then fires still clears the
busy flag. By `BusyOwned` the first wait (lines 108 and 181) never has to wait: whoever reaches it
holds the mutex, and the flag is only set by a holder. The waits of the driver are polled again
after `HZ`, so a process waits for its condition and the queues are left out. The USB core's part:
`usb_open()` never runs together with (de)registration (`NoOpenRuns`); after an unplug the endpoints
refuse URBs, the URBs in flight come back with an error, and only then does `disconnect()` run. A
process that follows a NULL pointer stops with what it holds (`Oops`).

Left out: the static `k_buffer` and the offset arithmetic after line 227; the reference that
`usb_get_dev()` takes and nobody gives back; allocation failures one by one (`ProbeFail` is any of
them: each frees exactly what was allocated).

### Fpga

`core` is the place of the PCI core's thread in `probe()` and `remove()`, one action for each step
that can fail or that the handler or a process can come before; `held` is what the driver has of the
kernel, `nodes` the minors with a device node. The mappings are taken in the order of the code
(`Before`). Each error of lines 471 to 545 has its list of releases, written by hand in the code, and
so it has in the model: `Unwind(r)` is the list when `r` cannot be had, `PciRelease` are the two of
lines 574 to 587 (with and without an MSI), and `GiveBack` is the next release of a list, an action
of its own. A list that forgets a resource, releases it twice or before what stands on it breaks
`ProbeUndone`. Every `probe()` allocates a structure: it is a number, so that a file knows
its own (`gen`) from a later one and a freed one (`Alive`). The card has two registers that enable
interrupts and one that captures edges; with MSI a message is sent only when an interrupt begins
(`SetCard`), without MSI the handler is called for other cards' interrupts too, whatever ours does.
The handler is one action for each register it accesses. `due` is a history: the parity, for each
switch, of the captured edges that the handler must count. `read()` and `write()` differ in nothing that is modelled but the minor
they refuse; the bytes are not modelled, their number and position are.

What the model shows of the code, and its properties except:

| where | what happens | in the model |
|---|---|---|
| 131 | when `alloc_chrdev_region()` fails `initialize_char_device()` frees the structure; the interrupts are enabled (554) and the handler may run, with the freed structure, until line 570; `probe()` releases the device through it and frees it again (676-679) | `live = 0` from there on; the handler may end in `HandlerOops`, `probe()` ends in `ProbeOops`; `HandlerHoldsDevice` excepts this path by name (`FreedEarly`) |
| 487, 501, 516, 532, 545 | the `EINVAL` returned is positive, which the PCI core takes for a success | `undo_einval` ends in `ignored`, the card stays bound to nothing |
| 145 | when `cdev_add()` fails one of the three device nodes is destroyed | `CdevFail` leaves `nodes = Minors \ {0}`, which `ProbeUndone` excepts |
| 459 | no error exit disables the MSI (only `release_pci_device()` does) | `ProbeUndone` excepts `"msi"` |
| 200, 225 | the private data is never freed | not in the state |
| 263, 314 | `length` is an `int` and `size` a `size_t`: for a position past the end (`pread()`, `pwrite()`) the negative length is the larger one and `size` bytes after the module are transferred | `InsideModule` excepts transfers that begin past the end; `Oops` |
| 339 | `write()` returns `size` where it wrote `length` bytes | not in the state |
| 565, 633 | a handler that runs at `remove()` enables the interrupts again after they were masked ("Arret des interruptions"); `free_irq()` then waits for it, so that it finds its mappings | `HandlerHoldsDevice` holds; `EdgesCounted` is stated of the first card |
| 612, 625 | an edge between the read of the register and its reset is lost | `HandlerReset` takes it out of `due`: `EdgesCounted` is about the edges that 612 has read |
| 332, 618 | `write()` to the minor LEDS and the handler write the same register, unknown to each other | the register is not in the state: `EdgesCounted` is about the handler's `value`, not about what the leds show |
| 702 | a card pulled out frees the structure of open files | `UsersHoldStruct` excepts it; `Oops` |

### NetPair

Each device transmits one packet at a time, under the lock that the network core takes for it, and
the two devices do so at the same time: `pc[d]` is the place of `start_xmit()`, an action for each
statement that touches what the other device, or the thread of insmod and rmmod, can see. The
receiving handler is called by the sender and reads what it has just copied into the receiver's
private data. `unregister_netdev()` stops the device, waits for its own transmission and then for
all that have begun (`grace`). A packet keeps its destination, its length and whether its addresses
were rewritten.

The code goes wrong in three places, which the properties except: an oversize packet is never freed
(VI-02 line 144, VI-03 line 147), and a full frame is one, 14 bytes of header and 1500 of payload
against a buffer of `ETH_DATA_LEN` bytes; a device that transmits before its peer exists, or after
it was freed, follows a bad pointer (`Oops`); and bytes 28 and 32 and the checksum of any packet are
rewritten as if it were IPv4 (VI-02 lines 154-160).

### ModuleLadder and DriverLadders

An init function is a sequence of steps that take a resource each; a step that fails releases what
its error path lists (`Try`), cannot fail (`Sure`), or fails unnoticed (`Unchecked`). `exit`,
`remove` or (for `V_10`, where the life is that of an open file) `release` is a sequence of
releases. `uses` says what the code behind an entry point touches. All of this is transcribed from
the drivers, one definition for each; the machine adds what the kernel does with it. A registered
interrupt, net device, file or `/proc` entry can be entered at any time (`Enter`), in the middle of
init and exit too; an armed timer, a thread and a scheduled bottom half run later (`Fire`) and a
timer re-arms itself (`Leave`). A release waits for what the kernel's function waits for (`Awaits`):
`free_irq()` for the handler and its thread, `del_timer()` for nothing. A module with an open file
is not removed, while a device may be unbound under one (`DeviceDriver`), and what `devm_` functions
took is released by the driver core at the end (`ReleaseManaged`).

The drivers that break a property of this module are exempt from it in `MCModuleLadder` (and run for
the others); without the exemption TLC shows each of them. `LadderOrder` has the condition that each
of them fails:

| driver | property | what happens |
|---|---|---|
| `tp_IV_04` | `ReleasesHeld` | `misc_register()` is not checked (line 131), `exit` deregisters all the same |
| `V_01_with_fdt` | `ReleasesHeld` | `gpiod_put()` (91, 98, 112) of what `devm_gpiod_get()` took: the core puts it again |
| `V_01_with_fdt` | `UsersHold` | a file still open after `remove()` uses the GPIOs |
| `VI_01` | `ReleasesHeld` | `unregister_netdev()` (85) of a device whose registration failed |
| `VI_02`, `VI_03` | `UsersHold` | the first device transmits to the second before it exists and after it is freed |
| `V_11` | `UsersHold`, `Quiescent` | `del_timer()` (111) leaves a running callback, which writes to the freed page and arms the timer again |
| `III_03` | `Quiescent` | the same timer, without a page |
| `VII_03` | `UsersHold` | `write()` on a file still open after `disconnect()` |
| `VII_04` | `UsersHold` | `write()` (96-124) and `release()` (53-56) use the URB and the buffer. A `write()` of the same plug is guarded: `disconnect()` frees both (235-239) under the mutex in which `write()` has tested the device pointer. `release()` kills the URB under another mutex, and `probe()` of a second plug sets the pointer (173) before it allocates, so that a file of the first one finds neither |
| `VII_03`, `VII_04` | `Quiescent` | the reference of `usb_get_dev()` is never put |

## 3. Runs

| run | instance | shows |
|---|---|---|
| `event_array` | readers r1, r2 blocking on CPU c1, r3 non-blocking on c2; 2 slots, 4 interrupts | `TypeOK`, `ArrayExclusive`, `NoSelfDeadlock`, `NoLostWakeup`, refinement of `FifoSpec` |
| `event_array_live` | two blocking readers on one of two CPUs, 3 interrupts | `HandlerReturns`, `SleeperWakes` |
| `message_queue` | 2 readers, 2 writers, 2 rows of 3 bytes, 3 messages, each of the three programs | `TypeOK`, `MessagesExclusive`, `RowsTerminated`, `MessagesIntact`, `NoLostWakeup`, refinement of `LosslessSpec` |
| `message_queue_live` | 2 readers, 2 writers, 1 row of 2 bytes, 2 messages, each of the three programs | `SleeperWakes` |
| `message_queue_loss` | as `message_queue`, `tp-V-04` | violation of `RemovedWasRead` |
| `usb` | two processes that share the file, the device plugged in twice | `TypeOK`, `SingleOpen`, `BusyOwned`, `OwnTransfer`, `DisconnectFreesIdle`, `UnplugEndsWait` |
| `usb_null`, `usb_count` | the same, plugged in once | violations of `DevicePresent` and `CountMatchesFiles` |
| `event_select` | a reader in `select()` and a plain one on the same CPU; 2 slots, 3 interrupts | `ReadyReadReturns`, `SelectReturns` |
| `fpga` | 2 processes that open the minor MEM of 2 bytes, 3 minors, 1 switch, 2 structures, 1 card bound to the end | `TypeOK`, `UsersHoldStruct`, `ExclusiveOpen`, `HandlerHoldsDevice`, `ProbeUndone`, `EdgesCounted`, `InsideModule`, `CallReturns`, `SwitchServed` |
| `net_pair` | frames too short, that fit, and too long; 3 packets | `TypeOK`, `FreedOnce`, `DeliveredIntact`, `CountersAgree` |
| `ladders` | the 25 drivers, one at a time, loaded again and again | `TypeOK`, `ReleasesHeld`, `UsersHold`, `BaseHeld`, `Quiescent` |

Bounds. Two slots and four interrupts fill the array, drop an event, empty it and fill it again; a
second slot is the least with which a wrong shift shows. The two readers of one CPU meet preemption
and the third, on the other CPU, true parallelism. Two rows and three messages do the same for the
queue, and three bytes leave room for a message of one and of two bytes, and for the length 3 that
is refused; two processes on each side make a second sleeper to be woken or forgotten. In `usb` a
second plug meets a file opened during the first. `MaxInterrupts`, `MaxMessages` and `MaxPlugs` only
end the enumeration: they are guards on what the environment does, and the instances still reach
every action. Processes of a side are symmetric in the safety runs of the queue.

In `fpga` the card has its three minors, for the device nodes, and the processes open one
(`OpenedMinors`): the minors share the mutex, but each has its own count, and nothing passes from one
to the other; two users of one minor are what its exclusion is about (with two minors, a byte and the
same properties the instance has been checked too). `MaxBindings = 1` bounds the probes that get as
far as enabling the interrupts. A second structure therefore exists only after a `probe()` that had
failed before, and comes upon the MSI it left enabled; files of a first card that meet the structure
of a second are left to the proofs, where the number of cards has no bound. Position 3 is past the end of 2 bytes, sizes 1 and 3 stop short of the end
and beyond it. In `net_pair` three packets are the least with which one device has sent twice while
the other sends; `ETH_ZLEN = 2` and `ETH_DATA_LEN = 3` keep the order of the code's 60 and 1500.

`ladders` has no bound but one: two of the eight devices of `tp_IV_04`, which are all alike. An
entry point is either running or not, since a second call of it touches what the first does.

Deadlock is checked except where the system may really stop: in the `usb` runs a process killed on a
NULL pointer keeps its mutex and the device is plugged in no more, in `ladders` nothing is loaded
after a module that left something behind, in `fpga` and `net_pair` a process that has used freed
memory stops, and so does the core.

Fairness. The kernel's spinlocks and mutexes hand over in order and its scheduler runs every
runnable process, hence strong fairness of each process's own steps and of the handler. Calls,
signals, interrupts and plugging are never obliged to happen. In `UsbK8055` a URB must come back
only when its endpoint is disabled (the USB core unlinks it): nothing obliges a device to answer. In
`Fpga` a handler that runs goes on and a raised interrupt is delivered (weak fairness), and a call
that has begun goes on (strong, for the mutex); nobody has to close a file, and no card has to come
or go.

### What the violations show

* `RemovedWasRead`: `messages_read()` takes "nothing left at this offset" for "this message was
  read". Two readers that have both read message 1 reach its end one after the other: the first
  removes it, the second removes message 2, unread (if it is not longer). The same happens with one
  reader that does not reopen the file, since the removing call leaves the offset as it is.
* `DevicePresent`: `disconnect()` resets the device pointer (line 358) before it takes the mutex
  under which `write()` tested it.
* `CountMatchesFiles`: `release()` returns `-ERESTARTSYS` on a signal when its mutex is contended,
  without the decrement; nobody calls it again, and every later `open()` fails with `-EBUSY`.

## 4. Proofs

A theorem holds for every value of the constants that the `ASSUME`s of its module allow; the runs of
section 3 check the same definitions on one instance. Each `*Proofs` module has an inductive
invariant `Inv`, the lemma `InitInv` or its like, one lemma `...Step` for each conjunct of `Inv`
(that a step from `Inv` re-establishes it, one proof step for each action), `Invariance == Spec =>
[]Inv`, and the theorems of the properties as corollaries of it.

| module | theorem | property |
|---|---|---|
| `EventArrayProofs` | `TypeCorrect`, `Exclusion`, `SelfDeadlockFree`, `WakeupsNotLost` | `TypeOK`, `ArrayExclusive`, `NoSelfDeadlock`, `NoLostWakeup` |
| | `FifoImplemented` | `FifoSpec`, the refinement |
| `EventSelectProofs` | `ReadyMeansReady`, `SelectsNotLost` | `ReadyReadReturns`; `NoLostSelect`, the safety part of `SelectReturns` |
| | `ExclusionWithPoll`, `NoSelfDeadlockWithPoll`, `WakeupsNotLostWithPoll`, `FifoWithPoll` | what `EventArrayProofs` shows, with `poll()` |
| `MessageQueueProofs` | `TypeCorrect`, `Exclusion`, `StrLenStops`, `CommittedStayIntact`, `WakeupsNotLost` | `TypeOK`, `MessagesExclusive`, `RowsTerminated`, `MessagesIntact`, `NoLostWakeup` |
| | `FifoImplemented` | `LosslessFifo`, the refinement |
| `UsbK8055Proofs` | `TypeCorrect`, `OneFileAtATime`, `TransfersOwnBusy`, `SuccessIsOwn` | `TypeOK`, `SingleOpen`, `BusyOwned`, `OwnTransfer` |
| | `FreedWhenIdle` | `DisconnectFreesIdle`, an action property |
| `FpgaProofs` | `TypeCorrect`, `FilesHoldStruct`, `HandlerSafe`, `OpenIsExclusive`, `TransfersInside`, `FailedProbeUndone`, `EdgesCountedOnce` | `TypeOK`, `UsersHoldStruct`, `HandlerHoldsDevice`, `ExclusiveOpen`, `InsideModule`, `ProbeUndone`, `EdgesCounted` |
| `NetPairProofs` | `TypeCorrect`, `PacketsFreedOnce`, `DeliveryIntact`, `CountersMatch` | `TypeOK`, `FreedOnce`, `DeliveredIntact`, `CountersAgree` |
| `ModuleLadderProofs` | `TypeCorrect`, `ReleasesTheirOwn`, `BasesOutlive`, `UsersOutlived`, `EndsQuiescent` | `TypeOK`, and by the conditions of `LadderOrder` `ReleasesHeld`, `BaseHeld`, `UsersHold`, `Quiescent` |
| | `ArrayDriversSafe`, `InterruptDriversSafe`, `NetDriversClean` | these four (the last theorem: all but `UsersHold`) for eight drivers of chapter V and the two of chapter VI, with no condition left |

`TableLemmas` has what the two refinements share: an array with a count of its entries is a
sequence, storing an entry and counting it appends (`TableAppend`), `memmove()` by one and counting
down takes the head (`TableTail`).

### EventArrayProofs

Assumed: the array has a size above 0, readers have a CPU, `None` is neither. Sets of readers and
CPUs and the number of interrupts are arbitrary. None of the properties is inductive alone. The
invariant adds

* `MaskInv`: a reader from `IrqSave` to its unlock is the one that masks its CPU, and the handler's
  CPU is masked by nobody. Hence a CPU's process in its section and a handler on that CPU exclude
  each other, which is `NoSelfDeadlock`;
* `LockInv`: whoever is between lock and unlock finds the lock taken, and is alone;
* `SectionInv`: within the section the array is not empty after the test, `value` is still entry 0
  at the shift, and the slot at the length holds the stamp of the current interrupt before the
  increment. The length's bounds in `TypeOK` rest on it, and the refinement on all of it;
* `NoLostWakeup`, inductive with these.

For the refinement `HandlerIncrement` is `Record`, `HandlerDrop` is `Forget`, `Shift` is `Take`,
every other step stutters.

The lemmas about a step (`MaskStep`, `LockStep`, `SectionStep`, `WakeupStep`, `FifoStep`) assume
only `CoreTypes`, the types without the list of the places of `pc`. `EventSelect` has more places
and takes the lemmas over as they are.

### EventSelectProofs

Assumed: as for `EventArray`, and the processes in `select()` are blocking readers. A step of
`SelectNext` is a step of `EventArray`'s `Next` or one of `poll()`, `select()` and the short buffer
(`SelectCases`). For the first the lemmas of `EventArrayProofs` hold, so that `MaskInv`, `SectionInv`
and `NoLostWakeup` have to be proved for the second only. The module adds

* `LockedInv`: the exclusion of the sections of `read()`, `poll()` and the handler. `LockInv` alone
  is not inductive any more, it does not know that `poll()` holds the lock too (`LockedIsMore`);
* `PollMasks`: `poll()` masks the interrupts of its CPU, as `MaskInv` says of `read()`. Both give
  `NoSelfDeadlockWithPoll`;
* `ReadyInv`: `ReadyReadReturns` is a statement about a `poll()` of the past. While `ready[r]` holds
  the array is not empty (only a reader shortens it, and `Shift` takes the yes from all), and the
  answer that `r` is about to return is the yes;
* `QueueInv`: a process in `select()` is on the wait queue, and once `poll()` has told it no, an
  event in the array means that it was woken since or that the handler has its wake-up still to do.
  It is inductive because `poll_wait()` precedes the test, and rests on `SectionInv`: while the
  handler increments, nobody is in the test.

The refinement is that of `EventArray`: the steps of `poll()` and the short buffer stutter.

### MessageQueueProofs

Assumed: at least one row of at least one byte, readers and writers disjoint, and finitely many
writers. The last serves only the bound of the model: `committed <= MaxMessages` holds because a
call counts when it begins, so that the calls under way have to be counted (`BoundInv`, a
`Cardinality`). The program, one of three, is a variable: each theorem is about the three. Beside
it:

* `SectionInv`: the condition tested under the mutex is still true at the removal and at the commit;
  at the commit the row at `messages_count` begins with the writer's bytes. It is what failed copies
  cannot break: a write that faults half-way leaves a row above the count, and the next write
  overwrites as much of it as it will claim;
* `LeftoverInv`: but for the message about to be counted (`BeingWritten`) every byte of the table is
  NUL, `Aborted` or of a message already counted. `MessagesIntact` needs it for what follows a
  message in its row: the tail is older than the message, in whatever row it lay before;
* `RowsTerminated` is inductive by itself, but the type invariant is not without it: `strlen()` is
  the minimum of a set that has to be nonempty (`StrLenInRow`), and `Remaining` a natural number;
* `MessagesExclusive`, `MessagesIntact` and `NoLostWakeup` are inductive with these. A wake-up is
  not lost because a process queues before it tests its condition, and whoever makes the condition
  of a side true keeps the mutex until it has woken that side (`pc = "wake"`), so that nothing can
  change in between.

For the refinement the commit is `Record`, the removal `Take`, every other step, the filling of a
row above the count included (`FillStutters`), stutters; `Forget` is never taken.

### UsbK8055Proofs

Assumed: `None` and `Abandoned` are no processes. Processes and plugs are arbitrary in number.

* `OpenInv`: `example_mtx` belongs to whoever is inside `open()` or `release()`, there is at most
  one `release()` and none beside a file, and the count is 1 while either exists. The converse is
  false, a `release()` interrupted by a signal leaves the count (`CountMatchesFiles`), so that
  `SingleOpen` does not rest on the count being right but on its never being too low;
* `MutexInv`: a process from the lock of its direction to its return holds it, one killed on a NULL
  pointer for ever;
* `BusyOwned`: inductive with `MutexInv`; a callback only clears the flag;
* `UrbInv`: a transfer that waits has its URB in flight, or it was the last to complete. It is
  inductive only because the URB of an abandoned transfer keeps the endpoint: nobody submits another
  before it has come back;
* `HubInv`: from the unplugging on no URB is accepted, from deregistration on none is in flight.
  With the guard of the two last steps of `disconnect()`, which take each mutex in turn, this is
  `DisconnectFreesIdle`.

### FpgaProofs

Assumed: up to three minors, a module MEM of at least a byte, sizes above 0. Processes, switches,
cards and positions are arbitrary.

* `HeldInv`, `StructInv`: for each step of `probe()` and `remove()`, which resources the driver has
  (all before the one that it is about to take, `TakenInOrder`) and whether the structure exists and
  the PCI core knows it;
* `UnwindInv`: while an error exit or `release_pci_device()` gives things back, what is held is just
  what the rest of its list gives back (`Unwinding`). The tail of each list is the list of the
  resource taken before (`UnwindNext`), which makes this inductive (`UnwindGivesBack`), and a list that is
  used up leaves nothing but the MSI (`UnwindDone`). `ProbeUndone` follows, with its two exceptions;
* `HandlerInv`: the interrupt is not freed while the handler runs; with `HeldInv` this gives the
  mappings of `HandlerHoldsDevice`, and with `StructInv` the structure, but after the error of
  line 131;
* `FileInv`: no file names the structure before the character device is there, and at `cdev_del()`
  either the card was pulled out or rmmod is under way, which no file survives: an open file keeps
  the module. `UsersHoldStruct` needs just that;
* `MutexInv`, `OpenedInv`: `module_open` says whether some file has the module open, and no two
  have. Written without a cardinality; `OpenIsExclusive` turns it into the count that
  `ExclusiveOpen` states. The property holds from the allocation of a structure to its freeing: with
  the card pulled out too, since the structure and its files are the same until `kfree()`;
* `LedsInv`: until the first `probe()` the handler finds nothing, and between the read of the edges
  and their reset `value` has counted those that were read.

### NetPairProofs

Assumed: `ETH_ZLEN <= ETH_DATA_LEN` and natural lengths. The number of packets is arbitrary.

* `LoadInv`, `LinkInv`: what insmod and rmmod hold at each point, and that only a registered device
  transmits: a transmission that has begun is over before its device is freed (`grace`), a packet
  copied into a peer arrives there;
* `PacketInv`: how far `start_xmit()` has come with its packet; the two devices never transmit the
  same packet. `DataInv`: the private data of the peer is still that packet when the peer takes it:
  only the one sender writes there. `DeliveredIntact` is the union of these at `Receive`, its order
  that of `OrderInv`: what a device is about to send was given after all that its peer has received;
* `FreedInv`: each packet sent is in flight and not freed, or not in flight and freed once, or too
  long and never freed;
* `CountInv`: nothing is counted before there are two devices, and from then on `CountersAgree` is
  inductive. It states the agreement from the allocation of the second device on, not from its
  registration, because that is what the induction needs.

### ModuleLadderProofs

Assumed: ladders are of the form `ModuleLadder` describes, with at least one step. Drivers, ladders
and the list of exempt drivers are arbitrary. What a theorem says of a ladder is a hypothesis about
it, one of the four conditions of `LadderOrder`. A condition speaks of the text of `init` and of the
lists alone: what is surely taken after a step (`Surely`; a step whose failure goes unnoticed does
not count), what may be (`May`), every error path and the exit (`Endings`), and by which release of
it an entry point is stopped (`Stopped`).

* `ReleasesInOrder` implies `ReleasesHeld`: every list releases what was surely taken, once;
* `BasesInOrder` implies `BaseHeld`: a base is surely taken before, and released after;
* `UsesInOrder` implies `UsersHold`: what an entry point uses is surely taken before it opens and
  released only once it is stopped;
* `EndsClean` implies `Quiescent`: all that may have been taken is released, all that may run
  stopped.

The invariant has no condition in it. `StageInv`: what is still to be released is the rest of the
list of the ending. `HeldInv`: what is held is between `Surely` and `May`, less what is released.
`RunInv`, the core: the entry points that can still run (`CanRun`: running, to be called by the
kernel, registered, or a bottom half whose interrupt is there) are among those that `init` opened,
and none is `Stopped` by the releases so far. `CanRun` never grows but by a step of `init`
(`RunFrame`), although timers re-arm themselves and interrupts schedule bottom halves; a release
takes out of it what it stops (`ReleaseStops`).

The hypotheses are met: `ArrayDriversSafe` proves all four for the ladder of `V_07`, `V_08`, `V_09`
and `example_select`, `InterruptDriversSafe` for those of `V_03` to `V_06`, which differ in what the
interrupt schedules and how `exit` waits for it (`GpioInterrupt` is their common form), and
`NetDriversClean` all but `UsesInOrder` for `VI_02` and `VI_03`. And they are no stronger than needed
for the drivers of the repository: each one that `MCModuleLadder` exempts from a property fails its
condition (`ExemptAssumption`, which TLC evaluates in the run `ladders`).

### Only model-checked

* The liveness properties `HandlerReturns`, `SleeperWakes` (twice), `SelectReturns`,
  `UnplugEndsWait`, `CallReturns`, `SwitchServed`: the proof system treats neither fairness nor
  ENABLED here.
* The three properties whose violation a run shows.
* That the other ladders of `DriverLadders` meet the conditions of `LadderOrder`: the proof system
  has to go through each ladder entry by entry, as `ArrayDriverInOrder`, `InterruptInOrder` and
  `NetDriverInOrder` do. That those
  drivers keep the properties is what the run `ladders` shows.

## 5. Plan

What could follow:

1. the conditions of `LadderOrder` for the other ladders, in the way of `InterruptInOrder`; those
   of the interrupts, the bottom halves and the network devices are done;
2. the bottom halves of `example-V-04.c` and `05.c` at the grain of `EventArray`, with the tasklet or
   the work between the interrupt and the output it writes.

### Not modelled

* The counters (`tp-IV-01` to `04`), `example-IV-06.c` to `08.c` and the log of `tp-III-02`: values
  read and written without a lock. When calls overlap nothing holds of them that a property could
  state (`counter[idx] += counter_step[idx]` loses additions, `example-IV-07.c` collides on
  purpose), and when they do not, as under the mutex of `example-IV-08.c`, they are an addition, a
  copy, or the FIFO of `EventArray`. Their registrations are in `ModuleLadder`. One flaw shows at
  the first call: the ioctl of `tp-IV-04` copies `sizeof(counter_step)`, eight integers, from a
  pointer to one (line 84).
* The text buffer of `read()` in `example-VII-05.c`, shared by its callers after the mutex is
  released: the same case.
* `mmap()` in `example-fpga.c` and `example-V-11.c`: the driver passes an address to the kernel and
  keeps nothing.
* Formatting and logging, stateless `/proc` reads, modules of chapter I, user programs (they are the
  calls of the environment), build files.
