------------------------------ MODULE UsbK8055 ------------------------------
(***************************************************************************)
(* The USB driver of exemples/07-utilisation-bus-usb/example-VII-05.c:     *)
(* processes open the device (one file at a time), write() and read()      *)
(* through one URB and one buffer per direction, while the hub thread      *)
(* probes and disconnects the interface and the host completes the URBs.   *)
(*                                                                         *)
(* Both directions run the same steps.  The contents of a transfer is the  *)
(* process that submitted it; Abandoned stands for a process that returned *)
(* while its URB was in flight.  Every wait of the driver is polled again  *)
(* after HZ, so the wait queues are not modelled: a process waits for the  *)
(* condition itself.                                                       *)
(***************************************************************************)
EXTENDS Naturals, FiniteSets

CONSTANTS
    Users,               \* processes that share the open file
    None,                \* "nobody"
    Abandoned,
    MaxPlugs             \* bound on how often the device is plugged in

ASSUME UsersAssumption == None \notin Users /\ Abandoned \notin Users /\ None # Abandoned
ASSUME BoundAssumption == MaxPlugs \in Nat

Directions == {"out", "in"}

VARIABLES
    example_open_count,
    example_mtx,         \* owner of the mutex, or None
    example_usb_device,  \* FALSE when NULL
    busy,                \* example_out_busy, example_in_busy
    mtx,                 \* owners of example_out_mtx, example_in_mtx
    allocated,           \* directions whose URB, buffer and endpoint are not NULL
    urb,                 \* per direction, the process whose URB is in flight, or None
    status,              \* urb->status: "ok", "error" or "inprogress"
    completed,           \* history: the process whose URB was the last to complete
    pc, dir,             \* where each process is, and the direction of its call
    files,               \* open files of the device
    registered,          \* usb_register_dev() gave the device its minor
    enabled,             \* the host accepts URBs on the interface's endpoints
    hub,                 \* where the hub thread is in probe() and disconnect()
    plugs                \* how often the device was plugged in

openVars == <<example_open_count, example_mtx, files>>
urbVars == <<busy, urb, status, completed>>
hubVars == <<registered, enabled, hub, plugs>>
deviceVars == <<example_usb_device, allocated>>
userVars == <<pc, dir>>
vars == <<openVars, urbVars, mtx, hubVars, deviceVars, userVars>>

OpenLabels == {"open", "openlocked", "release", "releaselocked"}
TransferLabels == {"lock", "check", "claim", "fill", "submit", "wait", "status", "oops"}

TypeOK ==
    /\ example_open_count \in 0 .. 1
    /\ example_mtx \in Users \cup {None}
    /\ files \in 0 .. 1
    /\ example_usb_device \in BOOLEAN
    /\ allocated \in {{}, {"out"}, Directions}
    /\ busy \in [Directions -> BOOLEAN]
    /\ mtx \in [Directions -> Users \cup {None}]
    /\ urb \in [Directions -> Users \cup {None, Abandoned}]
    /\ status \in [Directions -> {"ok", "error", "inprogress"}]
    /\ completed \in [Directions -> Users \cup {None, Abandoned}]
    /\ pc \in [Users -> {"idle"} \cup OpenLabels \cup TransferLabels]
    /\ dir \in [Users -> Directions]
    /\ registered \in BOOLEAN /\ enabled \in BOOLEAN
    /\ hub \in {"absent", "probe", "alloc", "reset", "bound",
                "kill", "dereg", "null", "freein", "freeout"}
    /\ plugs \in 0 .. MaxPlugs

Init ==
    /\ example_open_count = 0
    /\ example_mtx = None
    /\ files = 0
    /\ example_usb_device = FALSE
    /\ allocated = {}
    /\ busy = [d \in Directions |-> FALSE]
    /\ mtx = [d \in Directions |-> None]
    /\ urb = [d \in Directions |-> None]
    /\ status = [d \in Directions |-> "ok"]
    /\ completed = [d \in Directions |-> None]
    /\ pc = [u \in Users |-> "idle"]
    /\ dir = [u \in Users |-> "out"]
    /\ registered = FALSE
    /\ enabled = FALSE
    /\ hub = "absent"
    /\ plugs = 0
-----------------------------------------------------------------------------
Goto(u, label) == pc' = [pc EXCEPT ![u] = label]

\* The USB core finds the minor and calls example_open().
Open(u) ==
    /\ pc[u] = "idle"
    /\ registered
    /\ Goto(u, "open")
    /\ UNCHANGED <<openVars, urbVars, mtx, hubVars, deviceVars, dir>>

\* The last reference to the file goes away: the file is gone when release() starts.
Release(u) ==
    /\ pc[u] = "idle"
    /\ files > 0
    /\ files = 1 => \A v \in Users : pc[v] \notin TransferLabels
    /\ files' = files - 1
    /\ Goto(u, "release")
    /\ UNCHANGED <<example_open_count, example_mtx, urbVars, mtx, hubVars, deviceVars, dir>>

\* mutex_lock_interruptible(&example_mtx)
OpenLock(u) ==
    /\ pc[u] \in {"open", "release"}
    /\ example_mtx = None
    /\ example_mtx' = u
    /\ Goto(u, IF pc[u] = "open" THEN "openlocked" ELSE "releaselocked")
    /\ UNCHANGED <<example_open_count, files, urbVars, mtx, hubVars, deviceVars, dir>>

\* A signal while the mutex is contended: both handlers return -ERESTARTSYS.
OpenInterrupted(u) ==
    /\ pc[u] \in {"open", "release"}
    /\ example_mtx # None
    /\ Goto(u, "idle")
    /\ UNCHANGED <<openVars, urbVars, mtx, hubVars, deviceVars, dir>>

\* MUTANT of OpenBody: the count is kept and not tested.
OpenBodyUncounted(u) ==
    /\ pc[u] = "openlocked"
    /\ IF ~ example_usb_device
       THEN UNCHANGED <<example_open_count, files>>
       ELSE /\ example_open_count' = example_open_count + 1
            /\ files' = files + 1
    /\ example_mtx' = None
    /\ Goto(u, "idle")
    /\ UNCHANGED <<urbVars, mtx, hubVars, deviceVars, dir>>

\* -EBUSY, -ENODEV, or the file is open.
OpenBody(u) ==
    /\ pc[u] = "openlocked"
    /\ IF example_open_count > 0 \/ ~ example_usb_device
       THEN UNCHANGED <<example_open_count, files>>
       ELSE /\ example_open_count' = example_open_count + 1
            /\ files' = files + 1
    /\ example_mtx' = None
    /\ Goto(u, "idle")
    /\ UNCHANGED <<urbVars, mtx, hubVars, deviceVars, dir>>

ReleaseBody(u) ==
    /\ pc[u] = "releaselocked"
    /\ example_open_count' = example_open_count - 1
    /\ example_mtx' = None
    /\ Goto(u, "idle")
    /\ UNCHANGED <<files, urbVars, mtx, hubVars, deviceVars, dir>>
-----------------------------------------------------------------------------
\* write() or read() on the open file.  What precedes the lock (the copy and the parsing of
\* the eight values) touches no shared state.
Call(u, d) ==
    /\ pc[u] = "idle"
    /\ files > 0
    /\ dir' = [dir EXCEPT ![u] = d]
    /\ Goto(u, "lock")
    /\ UNCHANGED <<openVars, urbVars, mtx, hubVars, deviceVars>>

\* MUTANT of TransferLock: transfers are not serialised.
TransferLockNothing(u) ==
    /\ pc[u] = "lock"
    /\ mtx' = [mtx EXCEPT ![dir[u]] = u]
    /\ Goto(u, "check")
    /\ UNCHANGED <<openVars, urbVars, hubVars, deviceVars, dir>>

TransferLock(u) ==
    /\ pc[u] = "lock"
    /\ mtx[dir[u]] = None
    /\ mtx' = [mtx EXCEPT ![dir[u]] = u]
    /\ Goto(u, "check")
    /\ UNCHANGED <<openVars, urbVars, hubVars, deviceVars, dir>>

LockInterrupted(u) ==
    /\ pc[u] = "lock"
    /\ mtx[dir[u]] # None
    /\ Goto(u, "idle")
    /\ UNCHANGED <<openVars, urbVars, mtx, hubVars, deviceVars, dir>>

\* mutex_unlock() and return.
Return(u) ==
    /\ mtx' = [mtx EXCEPT ![dir[u]] = None]
    /\ Goto(u, "idle")

\* if (example_usb_device == NULL) return -ENODEV
CheckDevice(u) ==
    /\ pc[u] = "check"
    /\ IF example_usb_device
       THEN Goto(u, "claim") /\ UNCHANGED mtx
       ELSE Return(u)
    /\ UNCHANGED <<openVars, urbVars, hubVars, deviceVars, dir>>

\* The first wait loop on the busy flag, and the flag's setting.
Claim(u) ==
    /\ pc[u] = "claim"
    /\ ~ busy[dir[u]]
    /\ busy' = [busy EXCEPT ![dir[u]] = TRUE]
    /\ Goto(u, "fill")
    /\ UNCHANGED <<openVars, urb, status, completed, mtx, hubVars, deviceVars, dir>>

\* The buffer and the URB are filled in, from example_usb_device and the endpoint.
Fill(u) ==
    /\ pc[u] = "fill"
    /\ example_usb_device /\ dir[u] \in allocated
    /\ Goto(u, "submit")
    /\ UNCHANGED <<openVars, urbVars, mtx, hubVars, deviceVars, dir>>

\* usb_submit_urb(): refused for a disabled endpoint or a URB still in flight.
Submit(u) ==
    /\ pc[u] = "submit"
    /\ enabled
    /\ urb[dir[u]] = None
    /\ urb' = [urb EXCEPT ![dir[u]] = u]
    /\ status' = [status EXCEPT ![dir[u]] = "inprogress"]
    /\ Goto(u, "wait")
    /\ UNCHANGED <<openVars, busy, completed, mtx, hubVars, deviceVars, dir>>

\* MUTANT of SubmitRefused: the error path forgets to clear the flag.
SubmitRefusedStaysBusy(u) ==
    /\ pc[u] = "submit"
    /\ Return(u)
    /\ UNCHANGED <<openVars, urbVars, hubVars, deviceVars, dir>>

\* It may be refused for other reasons as well: the flag is cleared, the error returned.
SubmitRefused(u) ==
    /\ pc[u] = "submit"
    /\ busy' = [busy EXCEPT ![dir[u]] = FALSE]
    /\ Return(u)
    /\ UNCHANGED <<openVars, urb, status, completed, hubVars, deviceVars, dir>>

\* The second wait loop ends when the callback has cleared the flag ...
WaitDone(u) ==
    /\ pc[u] = "wait"
    /\ ~ busy[dir[u]]
    /\ Goto(u, "status")
    /\ UNCHANGED <<openVars, urbVars, mtx, hubVars, deviceVars, dir>>

\* What is left in flight by a process that returns is nobody's any more.
Abandon(d) == urb' = [urb EXCEPT ![d] = IF @ = None THEN None ELSE Abandoned]

\* ... or with a signal, as the first one does: the second clears the flag, and leaves the URB
\* where it is.
WaitInterrupted(u) ==
    /\ pc[u] \in {"claim", "wait"}
    /\ busy[dir[u]]
    /\ IF pc[u] = "claim"
       THEN UNCHANGED <<busy, urb>>
       ELSE busy' = [busy EXCEPT ![dir[u]] = FALSE] /\ Abandon(dir[u])
    /\ Return(u)
    /\ UNCHANGED <<openVars, status, completed, hubVars, deviceVars, dir>>

\* -EIO (write), 0 (read) for a status that is not 0; the length otherwise.
TransferEnd(u) ==
    /\ pc[u] = "status"
    /\ dir[u] \in allocated
    /\ IF status[dir[u]] = "ok"
       THEN UNCHANGED <<busy, urb>>
       ELSE busy' = [busy EXCEPT ![dir[u]] = FALSE] /\ Abandon(dir[u])
    /\ Return(u)
    /\ UNCHANGED <<openVars, status, completed, hubVars, deviceVars, dir>>

\* A NULL pointer, in usb_sndintpipe() or for the URB's status, kills the process: it keeps
\* the mutex for ever.
Oops(u) ==
    /\ \/ pc[u] = "fill" /\ ~ (example_usb_device /\ dir[u] \in allocated)
       \/ pc[u] = "status" /\ dir[u] \notin allocated
    /\ Goto(u, "oops")
    /\ UNCHANGED <<openVars, urbVars, mtx, hubVars, deviceVars, dir>>
-----------------------------------------------------------------------------
\* MUTANT of Callback: only a transfer that succeeded clears the flag.
CallbackOnSuccess(d) ==
    /\ urb[d] # None
    /\ \E s \in {"ok", "error"} :
           /\ s = "ok" => enabled
           /\ status' = [status EXCEPT ![d] = s]
           /\ busy' = [busy EXCEPT ![d] = @ /\ s # "ok"]
    /\ completed' = [completed EXCEPT ![d] = urb[d]]
    /\ urb' = [urb EXCEPT ![d] = None]
    /\ UNCHANGED <<openVars, mtx, hubVars, deviceVars, userVars>>

\* example_write_callback(), example_read_callback(): the host gives the URB back, with an
\* error when its endpoint has been disabled.
Callback(d) ==
    /\ urb[d] # None
    /\ \E s \in {"ok", "error"} :
           /\ s = "ok" => enabled
           /\ status' = [status EXCEPT ![d] = s]
    /\ busy' = [busy EXCEPT ![d] = FALSE]
    /\ completed' = [completed EXCEPT ![d] = urb[d]]
    /\ urb' = [urb EXCEPT ![d] = None]
    /\ UNCHANGED <<openVars, mtx, hubVars, deviceVars, userVars>>
-----------------------------------------------------------------------------
\* probe() stores the device first ...
Probe ==
    /\ hub = "absent"
    /\ plugs < MaxPlugs
    /\ plugs' = plugs + 1
    /\ enabled' = TRUE
    /\ example_usb_device' = TRUE
    /\ hub' = "probe"
    /\ UNCHANGED <<openVars, urbVars, mtx, registered, allocated, userVars>>

\* ... then finds the endpoints and allocates the URBs and the buffers ...
ProbeAlloc ==
    /\ hub = "probe"
    /\ allocated' = Directions
    /\ hub' = "alloc"
    /\ UNCHANGED <<openVars, urbVars, mtx, registered, enabled, plugs, example_usb_device, userVars>>

\* ... then registers, when no open() is running: usb_register_dev() and
\* usb_deregister_dev() exclude the open() of every USB file.
NoOpenRuns == \A u \in Users : pc[u] \notin {"open", "openlocked"}

ProbeRegister ==
    /\ hub = "alloc"
    /\ NoOpenRuns
    /\ registered' = TRUE
    /\ hub' = "reset"
    /\ UNCHANGED <<openVars, urbVars, mtx, enabled, plugs, deviceVars, userVars>>

\* ... and clears the busy flags last.
ProbeReset ==
    /\ hub = "reset"
    /\ busy' = [d \in Directions |-> FALSE]
    /\ hub' = "bound"
    /\ UNCHANGED <<openVars, urb, status, completed, mtx, registered, enabled, plugs, deviceVars,
                   userVars>>

\* Any failure frees what was allocated and forgets the device, without a mutex.
ProbeFail ==
    /\ hub \in {"probe", "alloc"}
    /\ allocated' = {}
    /\ example_usb_device' = FALSE
    /\ enabled' = FALSE
    /\ hub' = "absent"
    /\ UNCHANGED <<openVars, urbVars, mtx, registered, plugs, userVars>>

\* The device is unplugged: the USB core disables the endpoints and gives every URB back,
\* then calls disconnect().
Unplug ==
    /\ hub = "bound"
    /\ enabled' = FALSE
    /\ hub' = "kill"
    /\ UNCHANGED <<openVars, urbVars, mtx, registered, plugs, deviceVars, userVars>>

UrbsKilled ==
    /\ hub = "kill"
    /\ \A d \in Directions : urb[d] = None
    /\ hub' = "dereg"
    /\ UNCHANGED <<openVars, urbVars, mtx, registered, enabled, plugs, deviceVars, userVars>>

Deregister ==
    /\ hub = "dereg"
    /\ NoOpenRuns
    /\ registered' = FALSE
    /\ hub' = "null"
    /\ UNCHANGED <<openVars, urbVars, mtx, enabled, plugs, deviceVars, userVars>>

\* example_usb_device = NULL, under none of the mutexes.
ForgetDevice ==
    /\ hub = "null"
    /\ example_usb_device' = FALSE
    /\ hub' = "freein"
    /\ UNCHANGED <<openVars, urbVars, mtx, registered, enabled, plugs, allocated, userVars>>

\* mutex_lock(), free the buffer and the URB of a direction, mutex_unlock(): in, then out.
FreeIn ==
    /\ hub = "freein"
    /\ mtx["in"] = None
    /\ allocated' = allocated \ {"in"}
    /\ hub' = "freeout"
    /\ UNCHANGED <<openVars, urbVars, mtx, registered, enabled, plugs, example_usb_device, userVars>>

\* MUTANT of FreeOut: disconnect() frees without the mutex.
FreeOutUnlocked ==
    /\ hub = "freeout"
    /\ allocated' = allocated \ {"out"}
    /\ hub' = "absent"
    /\ UNCHANGED <<openVars, urbVars, mtx, registered, enabled, plugs, example_usb_device, userVars>>

FreeOut ==
    /\ hub = "freeout"
    /\ mtx["out"] = None
    /\ allocated' = allocated \ {"out"}
    /\ hub' = "absent"
    /\ UNCHANGED <<openVars, urbVars, mtx, registered, enabled, plugs, example_usb_device, userVars>>
-----------------------------------------------------------------------------
\* What a process inside a call does by itself.
UserStep(u) ==
    \/ OpenLock(u) \/ OpenBody(u) \/ ReleaseBody(u)
    \/ TransferLock(u) \/ CheckDevice(u) \/ Claim(u) \/ Fill(u) \/ Oops(u)
    \/ Submit(u) \/ SubmitRefused(u) \/ WaitDone(u) \/ TransferEnd(u)

Signalled(u) ==
    OpenInterrupted(u) \/ LockInterrupted(u) \/ WaitInterrupted(u)

HubStep ==
    \/ ProbeAlloc \/ ProbeRegister \/ ProbeReset \/ ProbeFail
    \/ UrbsKilled \/ Deregister \/ ForgetDevice \/ FreeIn \/ FreeOut

Next ==
    \/ \E u \in Users :
           \/ Open(u) \/ Release(u) \/ Signalled(u) \/ UserStep(u)
           \/ \E d \in Directions : Call(u, d)
    \/ \E d \in Directions : Callback(d)
    \/ Probe \/ Unplug \/ HubStep

\* Processes and the hub thread run and get their mutexes in turn; the host gives the URBs of
\* a disabled endpoint back.  Nothing obliges the device to answer while it is plugged in.
Fairness ==
    /\ \A u \in Users : SF_vars(UserStep(u))
    /\ SF_vars(HubStep)
    /\ \A d \in Directions : WF_vars(~ enabled /\ Callback(d))

Spec == Init /\ [][Next]_vars /\ Fairness
-----------------------------------------------------------------------------
\* One file at a time: the next open() succeeds only when the release() of the last file is
\* over, wherever opens, releases, signals and plugs fall.
SingleOpen ==
    files + Cardinality({u \in Users : pc[u] \in {"release", "releaselocked"}}) <= 1

\* A busy flag belongs to a transfer that holds the mutex of its direction: no other process
\* ever finds it set, and the first wait loop never waits.
BusyOwned ==
    \A d \in Directions : busy[d] =>
        \E u \in Users : /\ mtx[d] = u /\ dir[u] = d
                         /\ pc[u] \in {"fill", "submit", "wait", "oops"}

\* write() and read() report success only for their own transfer: the URB that completed
\* last is the one they submitted, never one abandoned on a signal.
OwnTransfer ==
    \A u \in Users : pc[u] = "status" /\ status[dir[u]] = "ok" => completed[dir[u]] = u

\* disconnect() frees the URB and the buffer of a direction only when the host has given the
\* URB back and no process is between its NULL test and its return.
DisconnectFreesIdle ==
    [][\A d \in allocated \ allocated' : hub \in {"freein", "freeout"} =>
           /\ urb[d] = None
           /\ \A u \in Users : dir[u] = d => pc[u] \notin TransferLabels \ {"lock"}]_vars

\* A transfer that waits for the device when it is unplugged returns.
UnplugEndsWait == \A u \in Users : (pc[u] = "wait" /\ ~ enabled) ~> pc[u] # "wait"

\* example-VII-05.c:103 and :176 test example_usb_device so that a transfer only goes on with
\* a device: the pointer is still there when the URB is filled in.
DevicePresent == \A u \in Users : pc[u] # "oops"

\* example-VII-05.c:46 refuses an open() while the device is open: when nobody is opening or
\* closing, the count is the number of open files.
CountMatchesFiles ==
    (\A u \in Users : pc[u] \notin OpenLabels) => example_open_count = files
=============================================================================
