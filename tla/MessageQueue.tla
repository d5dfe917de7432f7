---------------------------- MODULE MessageQueue ----------------------------
(***************************************************************************)
(* The message queue of solutions/tp-V-04-blocking-write.c and of the two  *)
(* steps before it, tp-V-02-message-mutex.c, in which nobody waits, and    *)
(* tp-V-03-blocking-read.c, in which only readers do.  Lines without a     *)
(* file are tp-V-04's.                                                     *)
(*                                                                         *)
(* write() copies a message into the next row of messages_array, read()    *)
(* returns the bytes of the first row and, once its file offset has passed *)
(* them, returns 0 and removes the row.  Who waits sleeps on a wait queue, *)
(* one for an empty table and one for a full table.                        *)
(*                                                                         *)
(* A byte is abstracted to the number of the message it belongs to, 0 is   *)
(* NUL, and what a write() that failed has copied is Aborted.  A row       *)
(* remembers, besides its bytes, which message was committed into it and   *)
(* how long that message was (history, moved along with it).  The code has *)
(* no length: what a reader gets of a row ends at its first NUL.           *)
(***************************************************************************)
EXTENDS Integers, Sequences, FiniteSets, FiniteSetsExt

CONSTANTS
    Readers, Writers,    \* processes, each with a file of its own
    None,                \* "nobody"
    Drivers,             \* the versions considered
    MSG_NB_MAX,          \* rows
    MSG_LG_MAX,          \* bytes of a row
    ReadLengths,         \* the lengths given to read() and write()
    WriteLengths,
    MaxMessages          \* bound on the messages that are committed

Procs == Readers \cup Writers

ASSUME ProcsAssumption ==
    Readers \cap Writers = {} /\ IsFiniteSet(Writers) /\ None \notin Procs
ASSUME SizesAssumption == MSG_NB_MAX \in Nat \ {0} /\ MSG_LG_MAX \in Nat \ {0}
ASSUME LengthsAssumption == ReadLengths \subseteq Nat /\ WriteLengths \subseteq Nat
ASSUME BoundAssumption == MaxMessages \in Nat
ASSUME DriversAssumption == Drivers \subseteq {"V_02", "V_03", "V_04"}

VARIABLES
    driver,              \* the version that is loaded
    messages_array,      \* rows: [byte, msg, len]
    messages_count,
    messages_mutex,      \* its owner, or None
    messages_wq,         \* both wait queues: "read" and "write"
    pc,
    offset,              \* *offset, the file position of each reader
    seen,                \* history: messages some byte of which was returned to a reader
    committed,           \* history: how many messages were written
    taken                \* history: the messages removed, in order

vars == <<driver, messages_array, messages_count, messages_mutex, messages_wq, pc, offset,
          seen, committed, taken>>

Rows == 0 .. MSG_NB_MAX - 1
Columns == 0 .. MSG_LG_MAX - 1
Messages == 0 .. MaxMessages
Aborted == MaxMessages + 1
Bytes == Messages \cup {Aborted}

Row == [byte : [Columns -> Bytes], msg : Messages, len : Columns]

TypeOK ==
    /\ driver \in Drivers
    /\ messages_array \in [Rows -> Row]
    /\ messages_count \in 0 .. MSG_NB_MAX
    /\ messages_mutex \in Procs \cup {None}
    /\ messages_wq \in [{"read", "write"} -> SUBSET Procs]
    /\ pc \in [Procs -> {"idle", "lock", "test", "copy", "commit", "wake",
                         "prepare", "check", "sleep", "signalled"}]
    /\ offset \in [Readers -> Columns]
    /\ seen \subseteq Bytes
    /\ committed \in 0 .. MaxMessages
    /\ taken \in Seq(Messages)

Init ==
    /\ driver \in Drivers
    /\ messages_array = [i \in Rows |-> [byte |-> [j \in Columns |-> 0], msg |-> 0, len |-> 0]]
    /\ messages_count = 0
    /\ messages_mutex = None
    /\ messages_wq = [side \in {"read", "write"} |-> {}]
    /\ pc = [p \in Procs |-> "idle"]
    /\ offset = [r \in Readers |-> 0]
    /\ seen = {}
    /\ committed = 0
    /\ taken = <<>>
-----------------------------------------------------------------------------
Goto(p, label) == pc' = [pc EXCEPT ![p] = label]

\* The wait queue a process sleeps on.
Side(p) == IF p \in Readers THEN "read" ELSE "write"

\* MUTANT of Ready: "<=" for "<", a writer does not wait for a full table.
ReadyWhenFull(p) == IF p \in Readers THEN messages_count # 0 ELSE messages_count <= MSG_NB_MAX

\* The condition it sleeps for.
Ready(p) == IF p \in Readers THEN messages_count # 0 ELSE messages_count < MSG_NB_MAX

table == <<messages_array, messages_count>>
history == <<driver, seen, committed, taken>>

Call(p) ==
    /\ pc[p] = "idle"
    /\ p \in Writers => committed + Cardinality({w \in Writers : pc[w] # "idle"}) < MaxMessages
    /\ Goto(p, "lock")
    /\ UNCHANGED <<table, messages_mutex, messages_wq, offset, history>>

\* A reader closes its file and opens it again: the new file starts at offset 0.
Reopen(r) ==
    /\ pc[r] = "idle"
    /\ offset[r] # 0
    /\ offset' = [offset EXCEPT ![r] = 0]
    /\ UNCHANGED <<table, messages_mutex, messages_wq, pc, history>>

\* MUTANT of Lock: no mutex, as in tp-V-01-message-read-write.c.
LockNothing(p) ==
    /\ pc[p] = "lock"
    /\ messages_mutex' = p
    /\ Goto(p, "test")
    /\ UNCHANGED <<table, messages_wq, offset, history>>

Lock(p) ==
    /\ pc[p] = "lock"
    /\ messages_mutex = None
    /\ messages_mutex' = p
    /\ Goto(p, "test")
    /\ UNCHANGED <<table, messages_wq, offset, history>>

\* mutex_lock_interruptible() gives up on a signal, but only where it would have to wait.
LockInterrupted(p) ==
    /\ pc[p] = "lock"
    /\ messages_mutex # None
    /\ Goto(p, "idle")
    /\ UNCHANGED <<table, messages_mutex, messages_wq, offset, history>>

Waits(p) == driver = "V_04" \/ (driver = "V_03" /\ p \in Readers)

\* while (messages_count == 0), while (messages_count >= MSG_NB_MAX): go on, or unlock.
TestReady(p) ==
    /\ pc[p] = "test"
    /\ Ready(p)
    /\ Goto(p, "copy")
    /\ UNCHANGED <<table, messages_mutex, messages_wq, offset, history>>

TestBlocked(p) ==
    /\ pc[p] = "test"
    /\ ~ Ready(p) /\ Waits(p)
    /\ messages_mutex' = None
    /\ Goto(p, "prepare")
    /\ UNCHANGED <<table, messages_wq, offset, history>>

\* mutex_unlock() on the way out of a call.
Return(p) ==
    /\ messages_mutex' = None
    /\ Goto(p, "idle")

\* A call that does not wait: read() returns 0 for an empty table, write() -ENOMEM for a full
\* one.
TestRefused(p) ==
    /\ pc[p] = "test"
    /\ ~ Ready(p) /\ ~ Waits(p)
    /\ Return(p)
    /\ UNCHANGED <<table, messages_wq, offset, history>>
-----------------------------------------------------------------------------
\* strlen() of a row: up to the first NUL, which every row has (see RowsTerminated).
StrLen(row) == Min({j \in Columns : row.byte[j] = 0})

Remaining(r) == StrLen(messages_array[0]) - offset[r]

\* MUTANT of Remove: memmove() of one row too few.
RemoveOneShort(r) ==
    /\ pc[r] = "copy"
    /\ Remaining(r) <= 0
    /\ messages_count' = messages_count - 1
    /\ messages_array' = [i \in Rows |-> IF i < messages_count - 2
                                         THEN messages_array[i + 1] ELSE messages_array[i]]
    /\ taken' = Append(taken, messages_array[0].msg)
    /\ Goto(r, "wake")
    /\ UNCHANGED <<driver, messages_mutex, messages_wq, offset, seen, committed>>

\* Nothing left at this offset: messages_count--, memmove() of the rows that remain.
Remove(r) ==
    /\ pc[r] = "copy"
    /\ Remaining(r) <= 0
    /\ messages_count' = messages_count - 1
    /\ messages_array' = [i \in Rows |-> IF i < messages_count - 1
                                         THEN messages_array[i + 1] ELSE messages_array[i]]
    /\ taken' = Append(taken, messages_array[0].msg)
    /\ Goto(r, "wake")
    /\ UNCHANGED <<driver, messages_mutex, messages_wq, offset, seen, committed>>

\* copy_to_user() from messages_array[*offset]: a row, and outside the table when the
\* offset is not a row.  The offset advances by the bytes that were returned.
CopyToUser(r) ==
    /\ pc[r] = "copy"
    /\ Remaining(r) > 0
    /\ \E length \in ReadLengths :
       LET ret == Min({Remaining(r), length})
       IN  /\ offset' = [offset EXCEPT ![r] = @ + ret]
           /\ seen' = IF offset[r] \in Rows
                      THEN seen \cup {messages_array[offset[r]].byte[j] : j \in 0 .. ret - 1}
                      ELSE seen
    /\ Return(r)
    /\ UNCHANGED <<driver, table, messages_wq, committed, taken>>

\* copy_to_user() fails: -EFAULT, and the offset stays.
ReadFault(r) ==
    /\ pc[r] = "copy"
    /\ Remaining(r) > 0
    /\ Return(r)
    /\ UNCHANGED <<table, messages_wq, offset, history>>
-----------------------------------------------------------------------------
\* if (length >= MSG_LG_MAX) return -EINVAL
TooLong(w) ==
    /\ pc[w] = "copy"
    /\ \E length \in WriteLengths : length >= MSG_LG_MAX
    /\ Return(w)
    /\ UNCHANGED <<table, messages_wq, offset, history>>

\* MUTANT of CopyFromUser: "length > MSG_LG_MAX" is the test for a message too long.
CopyFromUserFullRow(w) ==
    /\ pc[w] = "copy"
    /\ \E length \in WriteLengths :
           /\ length <= MSG_LG_MAX
           /\ messages_array' = [messages_array EXCEPT ![messages_count] =
                  [byte |-> [j \in Columns |-> IF j < length THEN committed + 1 ELSE @.byte[j]],
                   msg  |-> committed + 1,
                   len  |-> length]]
    /\ Goto(w, "commit")
    /\ UNCHANGED <<messages_count, messages_mutex, messages_wq, offset, history>>

\* copy_from_user() into the next row: it adds no NUL, the bytes beyond length stay.
CopyFromUser(w) ==
    /\ pc[w] = "copy"
    /\ \E length \in WriteLengths :
           /\ length < MSG_LG_MAX
           /\ messages_array' = [messages_array EXCEPT ![messages_count] =
                  [byte |-> [j \in Columns |-> IF j < length THEN committed + 1 ELSE @.byte[j]],
                   msg  |-> committed + 1,
                   len  |-> length]]
    /\ Goto(w, "commit")
    /\ UNCHANGED <<messages_count, messages_mutex, messages_wq, offset, history>>

\* MUTANT of WriteFault: the result of copy_from_user() is not tested.
WriteFaultIgnored(w) ==
    /\ pc[w] = "copy"
    /\ \E length \in WriteLengths : \E k \in 0 .. length - 1 :
           /\ length < MSG_LG_MAX
           /\ messages_array' = [messages_array EXCEPT ![messages_count] =
                  [byte |-> [j \in Columns |-> CASE j < k -> committed + 1
                                                [] k <= j /\ j < length -> 0
                                                [] OTHER -> @.byte[j]],
                   msg  |-> committed + 1,
                   len  |-> length]]
    /\ Goto(w, "commit")
    /\ UNCHANGED <<messages_count, messages_mutex, messages_wq, offset, history>>

\* copy_from_user() fails after k bytes and clears the rest: -EFAULT, nothing is committed.
WriteFault(w) ==
    /\ pc[w] = "copy"
    /\ \E length \in WriteLengths : \E k \in 0 .. length - 1 :
           /\ length < MSG_LG_MAX
           /\ messages_array' = [messages_array EXCEPT ![messages_count].byte =
                  [j \in Columns |-> CASE j < k -> Aborted
                                       [] k <= j /\ j < length -> 0
                                       [] OTHER -> @[j]]]
    /\ Return(w)
    /\ UNCHANGED <<messages_count, messages_wq, offset, history>>

\* messages_count++
Commit(w) ==
    /\ pc[w] = "commit"
    /\ messages_count' = messages_count + 1
    /\ committed' = committed + 1
    /\ Goto(w, "wake")
    /\ UNCHANGED <<driver, messages_array, messages_mutex, messages_wq, offset, seen, taken>>

\* MUTANT of WakeUp: the caller's own wait queue is woken up.
WakeUpOwnSide(p) ==
    /\ pc[p] = "wake"
    /\ messages_wq' = [messages_wq EXCEPT ![Side(p)] = {}]
    /\ Return(p)
    /\ UNCHANGED <<table, offset, history>>

\* wake_up_interruptible() of the other side, then the unlock.  Where the other side does not
\* wait its queue is empty: there tp-V-02 and tp-V-03 have no wake-up.
WakeUp(p) ==
    /\ pc[p] = "wake"
    /\ messages_wq' = [messages_wq EXCEPT ![IF p \in Readers THEN "write" ELSE "read"] = {}]
    /\ Return(p)
    /\ UNCHANGED <<table, offset, history>>
-----------------------------------------------------------------------------
\* wait_event_interruptible(): queue the caller, test the condition, sleep; the mutex is
\* not held.  (A first test that finds it true does as CheckCondition.)
PrepareToWait(p) ==
    /\ pc[p] = "prepare"
    /\ messages_wq' = [messages_wq EXCEPT ![Side(p)] = @ \cup {p}]
    /\ Goto(p, "check")
    /\ UNCHANGED <<table, messages_mutex, offset, history>>

CheckCondition(p) ==
    /\ pc[p] = "check"
    /\ IF Ready(p)
       THEN /\ messages_wq' = [messages_wq EXCEPT ![Side(p)] = @ \ {p}]
            /\ Goto(p, "lock")
       ELSE /\ Goto(p, "sleep")
            /\ UNCHANGED messages_wq
    /\ UNCHANGED <<table, messages_mutex, offset, history>>

Resume(p) ==
    /\ pc[p] = "sleep"
    /\ p \notin messages_wq[Side(p)]
    /\ Goto(p, "prepare")
    /\ UNCHANGED <<table, messages_mutex, messages_wq, offset, history>>

\* A signal takes the caller off the queue; a condition that holds by then still wins.
Signal(p) ==
    /\ pc[p] \in {"prepare", "sleep"}
    /\ messages_wq' = [messages_wq EXCEPT ![Side(p)] = @ \ {p}]
    /\ Goto(p, "signalled")
    /\ UNCHANGED <<table, messages_mutex, offset, history>>

Interrupted(p) ==
    /\ pc[p] = "signalled"
    /\ Goto(p, IF Ready(p) THEN "lock" ELSE "idle")
    /\ UNCHANGED <<table, messages_mutex, messages_wq, offset, history>>
-----------------------------------------------------------------------------
\* What a process inside read() or write() does by itself.
ReadStep(r) == Remove(r) \/ CopyToUser(r) \/ ReadFault(r)

WriteStep(w) == TooLong(w) \/ CopyFromUser(w) \/ WriteFault(w) \/ Commit(w)

CommonStep(p) ==
    \/ Lock(p) \/ TestReady(p) \/ TestBlocked(p) \/ TestRefused(p) \/ WakeUp(p)
    \/ PrepareToWait(p) \/ CheckCondition(p) \/ Resume(p) \/ Interrupted(p)

Step(p) ==
    \/ CommonStep(p)
    \/ p \in Readers /\ ReadStep(p)
    \/ p \in Writers /\ WriteStep(p)

Next ==
    \/ \E p \in Procs : Call(p) \/ LockInterrupted(p) \/ Signal(p) \/ Step(p)
    \/ \E r \in Readers : Reopen(r)

\* The mutex hands over to its oldest waiter, and the scheduler runs every runnable process.
Spec == Init /\ [][Next]_vars /\ \A p \in Procs : SF_vars(Step(p))
-----------------------------------------------------------------------------
\* Whoever works on the table owns the mutex, so two calls never do at the same time.
MessagesExclusive ==
    \A p \in Procs :
        pc[p] \in {"test", "copy", "commit", "wake"} => messages_mutex = p

\* strlen() stops inside the row: the last byte of every row is NUL at all times, also in
\* the row a write() is filling, although nothing in write() stores a NUL.
RowsTerminated == \A i \in Rows : messages_array[i].byte[MSG_LG_MAX - 1] = 0

Intact(row) ==
    \A j \in Columns : IF j < row.len THEN row.byte[j] = row.msg
                       ELSE row.byte[j] \in 0 .. row.msg - 1 \cup {Aborted}

\* Until it is removed a message keeps the bytes that its write() copied (line 91), whatever
\* failed writes and memmove() (line 49) do to the table.  After them its row does not end: no
\* NUL is stored, so that strlen() (line 47) takes in what an earlier, longer message or a
\* failed write left in the row, and a reader gets these bytes too.  They are never bytes of
\* the message itself or of a later one.
MessagesIntact == \A i \in 0 .. messages_count - 1 : Intact(messages_array[i])

\* A process queued and asleep although its condition holds is about to be woken up.
NoLostWakeup ==
    \A p \in Procs :
        pc[p] = "sleep" /\ p \in messages_wq[Side(p)] /\ Ready(p)
            => \E q \in Procs : pc[q] = "wake" /\ Side(q) # Side(p)

\* Messages leave the table in the order in which they were written, each once; none is
\* forgotten by a full table.
Fifo == INSTANCE BoundedFifo WITH
    Capacity <- MSG_NB_MAX,
    fifo     <- [i \in 1 .. messages_count |-> messages_array[i - 1].msg],
    arrived  <- committed,
    taken    <- taken

LosslessFifo == Fifo!LosslessSpec

\* A blocked process does not stay asleep once its condition holds.
SleeperWakes == \A p \in Procs : (pc[p] = "sleep" /\ Ready(p)) ~> pc[p] # "sleep"

\* The device is a "message-queue" (tp-V-04-blocking-write.c:117): a message that leaves it
\* has been returned, at least in part, to some reader.
RemovedWasRead ==
    [][taken' # taken => \/ messages_array[0].len = 0
                         \/ messages_array[0].msg \in seen]_vars
=============================================================================
