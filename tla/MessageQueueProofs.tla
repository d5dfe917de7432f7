------------------------- MODULE MessageQueueProofs -------------------------
(***************************************************************************)
(* Proofs about MessageQueue, for any number of readers, any finite number *)
(* of writers, any size of the table and of a row and any lengths given to *)
(* read() and write().                                                     *)
(*                                                                         *)
(* The inductive invariant Inv adds to the properties of MessageQueue what *)
(* a call knows of the table between its test and its unlock (SectionInv), *)
(* how many messages the calls under way may still commit (BoundInv), and  *)
(* that what lies in the rows besides the message being written is of      *)
(* earlier or failed writes (LeftoverInv): the table's rows are filled     *)
(* again and again, and a message must not meet bytes of its own number.   *)
(***************************************************************************)
EXTENDS MessageQueue, TableLemmas, FiniteSetTheorems, WellFoundedInduction

SectionInv ==
    /\ \A p \in Procs : pc[p] \in {"copy", "commit"} => Ready(p)
    /\ \A p \in Procs : pc[p] = "commit" =>
           /\ p \in Writers
           /\ messages_array[messages_count].msg = committed + 1
           /\ \A j \in 0 .. messages_array[messages_count].len - 1 :
                  messages_array[messages_count].byte[j] = committed + 1

\* Writers that are in a call and have not committed their message.
Pending == {w \in Writers : pc[w] \notin {"idle", "wake"}}

BoundInv == committed + Cardinality(Pending) <= MaxMessages

\* What the writes before the next one may have left in a row.
Earlier == 0 .. committed \cup {Aborted}

\* Byte j of row i belongs to the message a write() is about to count.
BeingWritten(i, j) ==
    \E p \in Procs : pc[p] = "commit" /\ i = messages_count /\ j < messages_array[i].len

LeftoverInv ==
    \A i \in Rows : \A j \in Columns :
        messages_array[i].byte[j] \in Earlier \/ BeingWritten(i, j)

Inv ==
    /\ TypeOK /\ MessagesExclusive /\ SectionInv /\ BoundInv /\ LeftoverInv
    /\ RowsTerminated /\ MessagesIntact /\ NoLostWakeup
-----------------------------------------------------------------------------
\* A nonempty set of natural numbers has a least element, and that is its Min: strlen()
\* finds a NUL where there is one.
LEMMA MinOfNaturals ==
    ASSUME NEW S, S \subseteq Nat, S # {}
    PROVE  Min(S) \in S /\ \A x \in S : Min(S) <= x
<1>1. \E x \in S : \A y \in S : ~ (<<y, x>> \in OpToRel(<, Nat))
  BY NatLessThanWellFounded, WFMin
<1>2. PICK x \in S : \A y \in S : ~ (<<y, x>> \in OpToRel(<, Nat))
  BY <1>1
<1>3. ASSUME NEW y \in S PROVE x <= y
  <2>1. ~ (<<y, x>> \in OpToRel(<, Nat))
    BY <1>2
  <2>2. ~ (y < x)
    BY <2>1 DEF OpToRel
  <2>3. QED
    BY <2>2
<1>4. QED
  BY <1>3 DEF Min

\* The smaller of two integers.
LEMMA MinOfTwo ==
    ASSUME NEW a \in Int, NEW b \in Int
    PROVE  Min({a, b}) = IF a <= b THEN a ELSE b
<1>1. ASSUME NEW x \in {a, b}, \A y \in {a, b} : x <= y
      PROVE  x = IF a <= b THEN a ELSE b
  BY <1>1
<1>2. \E x \in {a, b} : \A y \in {a, b} : x <= y
  OBVIOUS
<1>3. QED
  BY <1>1, <1>2 DEF Min

\* A row with a NUL at its end has a length below MSG_LG_MAX: strlen() stays inside it.
LEMMA StrLenInRow ==
    ASSUME NEW row \in Row, row.byte[MSG_LG_MAX - 1] = 0
    PROVE  StrLen(row) \in Columns
<1> DEFINE nuls == {j \in Columns : row.byte[j] = 0}
<1>1. nuls \subseteq Nat /\ nuls # {}
  BY SizesAssumption DEF Columns
<1>2. Min(nuls) \in nuls
  BY <1>1, MinOfNaturals
<1>3. QED
  BY <1>2 DEF StrLen
-----------------------------------------------------------------------------
\* The initial state, an empty table and nobody in a call, satisfies the invariant.
LEMMA InitInv == Init => Inv
<1> SUFFICES ASSUME Init PROVE Inv
  OBVIOUS
<1> USE SizesAssumption, BoundAssumption DEF Init
<1>1. TypeOK
  <2>1. [byte |-> [j \in Columns |-> 0], msg |-> 0, len |-> 0] \in Row
    BY DEF Row, Columns, Messages, Bytes
  <2>2. messages_array \in [Rows -> Row]
    BY <2>1
  <2>3. taken \in Seq(Messages)
    OBVIOUS
  <2>4. offset \in [Readers -> Columns]
    BY DEF Columns
  <2>5. messages_count \in 0 .. MSG_NB_MAX /\ committed \in 0 .. MaxMessages
    OBVIOUS
  <2>6. QED
    BY <2>2, <2>3, <2>4, <2>5 DEF TypeOK
<1>2. MessagesExclusive /\ SectionInv /\ NoLostWakeup
  BY DEF MessagesExclusive, SectionInv, NoLostWakeup
<1>3. BoundInv
  <2>1. Pending = {}
    BY DEF Pending, Procs
  <2>2. QED
    BY <2>1, FS_EmptySet DEF BoundInv
<1>4. RowsTerminated /\ MessagesIntact
  BY DEF RowsTerminated, MessagesIntact, Intact, Rows, Columns
<1>5. LeftoverInv
  BY DEF LeftoverInv, Earlier, Rows, Columns
<1> QED
  BY <1>1, <1>2, <1>3, <1>4, <1>5 DEF Inv

\* A pending writer is one the bound still allows for: its message has a number.
LEMMA PendingBound ==
    ASSUME TypeOK, BoundInv, NEW w \in Writers, pc[w] \notin {"idle", "wake"}
    PROVE  committed + 1 \in Messages
<1>1. IsFiniteSet(Pending)
  BY ProcsAssumption, FS_Subset DEF Pending
<1>2. w \in Pending
  BY DEF Pending
<1>3. Cardinality(Pending) \in Nat /\ Cardinality(Pending) # 0
  BY <1>1, <1>2, FS_CardinalityType, FS_EmptySet
<1>4. QED
  BY <1>3, BoundAssumption DEF BoundInv, TypeOK, Messages

\* write() fills the row after the last message, inside the table.  The NUL at its end stays;
\* a whole message fills the row's first len bytes with the next number, and every other byte
\* is the old one, or 0 or Aborted after a fault.
LEMMA RowFilled ==
    ASSUME TypeOK, SectionInv, BoundInv, RowsTerminated, NEW w \in Writers,
           CopyFromUser(w) \/ WriteFault(w)
    PROVE  /\ messages_count \in Rows
           /\ \E row \in Row :
                  /\ messages_array' = [messages_array EXCEPT ![messages_count] = row]
                  /\ row.byte[MSG_LG_MAX - 1] = 0
                  /\ \A j \in Columns :
                         \/ row.byte[j] \in {messages_array[messages_count].byte[j], 0, Aborted}
                         \/ CopyFromUser(w) /\ j < row.len
                  /\ CopyFromUser(w) =>
                         /\ row.msg = committed + 1
                         /\ \A j \in 0 .. row.len - 1 : row.byte[j] = committed + 1
<1> DEFINE old == messages_array[messages_count]
<1>1. pc[w] = "copy"
  BY DEF CopyFromUser, WriteFault
<1>2. messages_count \in Rows
  BY <1>1, ProcsAssumption, SizesAssumption DEF SectionInv, Ready, Rows, Procs, TypeOK
<1>3. /\ old \in Row /\ old.byte[MSG_LG_MAX - 1] = 0
      /\ committed + 1 \in Messages /\ committed + 1 \in Bytes
      /\ 0 \in Bytes /\ Aborted \in Bytes
  BY <1>1, <1>2, PendingBound, BoundAssumption DEF TypeOK, RowsTerminated, Messages, Bytes
<1>4. CASE CopyFromUser(w)
  <2>1. PICK length \in WriteLengths :
            /\ length < MSG_LG_MAX
            /\ messages_array' = [messages_array EXCEPT ![messages_count] =
                  [byte |-> [j \in Columns |-> IF j < length THEN committed + 1 ELSE @.byte[j]],
                   msg  |-> committed + 1,
                   len  |-> length]]
    BY <1>4 DEF CopyFromUser
  <2> DEFINE bytes == [j \in Columns |-> IF j < length THEN committed + 1 ELSE old.byte[j]]
             row == [byte |-> bytes, msg |-> committed + 1, len |-> length]
  <2>2. length \in Nat /\ length \in Columns
    BY <2>1, LengthsAssumption, SizesAssumption DEF Columns
  <2>3. old.byte \in [Columns -> Bytes]
    BY <1>3 DEF Row
  <2>4. bytes \in [Columns -> Bytes]
    BY <1>3, <2>3
  <2>5. /\ bytes[MSG_LG_MAX - 1] = 0
        /\ \A j \in 0 .. length - 1 : bytes[j] = committed + 1
        /\ \A j \in Columns : bytes[j] = old.byte[j] \/ j < length
    BY <1>3, <2>1, <2>2, SizesAssumption DEF Columns
  <2>6. messages_array' = [messages_array EXCEPT ![messages_count] = row]
    BY <2>1
  <2> HIDE DEF bytes
  <2>7. row \in Row
    BY <1>3, <2>2, <2>4 DEF Row
  <2>8. row.byte = bytes /\ row.len = length /\ row.msg = committed + 1
    OBVIOUS
  <2> HIDE DEF row
  <2>9. QED
    BY <1>2, <1>4, <2>5, <2>6, <2>7, <2>8
<1>5. CASE WriteFault(w)
  <2>1. PICK bytes \in [Columns -> Bytes] :
            /\ bytes[MSG_LG_MAX - 1] = 0
            /\ \A j \in Columns : bytes[j] \in {old.byte[j], 0, Aborted}
            /\ messages_array' = [messages_array EXCEPT ![messages_count].byte = bytes]
    <3>1. PICK length \in WriteLengths : \E k \in 0 .. length - 1 :
              /\ length < MSG_LG_MAX
              /\ messages_array' = [messages_array EXCEPT ![messages_count].byte =
                    [j \in Columns |-> CASE j < k -> Aborted
                                         [] k <= j /\ j < length -> 0
                                         [] OTHER -> @[j]]]
      BY <1>5 DEF WriteFault
    <3>2. PICK k \in 0 .. length - 1 :
              /\ length < MSG_LG_MAX
              /\ messages_array' = [messages_array EXCEPT ![messages_count].byte =
                    [j \in Columns |-> CASE j < k -> Aborted
                                         [] k <= j /\ j < length -> 0
                                         [] OTHER -> @[j]]]
      BY <3>1
    <3> DEFINE bytes == [j \in Columns |-> CASE j < k -> Aborted
                                             [] k <= j /\ j < length -> 0
                                             [] OTHER -> old.byte[j]]
    <3>3. messages_array' = [messages_array EXCEPT ![messages_count].byte = bytes]
      BY <3>2
    <3>4. bytes \in [Columns -> Bytes]
      BY <1>3 DEF Row
    <3>5. bytes[MSG_LG_MAX - 1] = 0
      BY <1>3, <3>2, LengthsAssumption, SizesAssumption DEF Columns
    <3>6. \A j \in Columns : bytes[j] \in {old.byte[j], 0, Aborted}
      OBVIOUS
    <3>7. QED
      BY <3>3, <3>4, <3>5, <3>6
  <2> DEFINE row == [old EXCEPT !.byte = bytes]
  <2>2. messages_array' = [messages_array EXCEPT ![messages_count] = row]
    BY <2>1
  <2>3. /\ row \in Row /\ row.byte[MSG_LG_MAX - 1] = 0
        /\ \A j \in Columns : row.byte[j] \in {old.byte[j], 0, Aborted}
    BY <1>3, <2>1 DEF Row
  <2>4. ~ CopyFromUser(w)
    BY <1>5 DEF WriteFault, CopyFromUser, Return, Goto, TypeOK, Procs
  <2>5. QED
    BY <1>2, <2>2, <2>3, <2>4
<1>6. QED
  BY <1>4, <1>5

\* A step keeps the types: a reader's offset stays inside a row, the count inside the table,
\* and no more messages are written than the bound allows.
LEMMA TypeStep ==
    ASSUME TypeOK, SectionInv, BoundInv, RowsTerminated, [Next]_vars
    PROVE  TypeOK'
<1> USE ProcsAssumption, SizesAssumption, BoundAssumption DEF TypeOK, Procs
<1>1. ASSUME NEW p \in Procs, Call(p) PROVE TypeOK'
  BY <1>1 DEF Call, Goto, table, history
<1>2. ASSUME NEW p \in Procs, LockInterrupted(p) PROVE TypeOK'
  BY <1>2 DEF LockInterrupted, Goto, table, history
<1>3. ASSUME NEW p \in Procs, Signal(p) PROVE TypeOK'
  BY <1>3 DEF Signal, Goto, table, history, Side
<1>4. ASSUME NEW p \in Procs, Lock(p) PROVE TypeOK'
  BY <1>4 DEF Lock, Goto, table, history
<1>5. ASSUME NEW p \in Procs, TestReady(p) PROVE TypeOK'
  BY <1>5 DEF TestReady, Goto, table, history
<1>6. ASSUME NEW p \in Procs, TestBlocked(p) PROVE TypeOK'
  BY <1>6 DEF TestBlocked, Goto, table, history
<1>7. ASSUME NEW p \in Procs, TestRefused(p) PROVE TypeOK'
  BY <1>7 DEF TestRefused, Return, Goto, table, history
<1>8. ASSUME NEW p \in Procs, WakeUp(p) PROVE TypeOK'
  BY <1>8 DEF WakeUp, Return, Goto, table, history
<1>9. ASSUME NEW p \in Procs, PrepareToWait(p) PROVE TypeOK'
  BY <1>9 DEF PrepareToWait, Goto, table, history, Side
<1>10. ASSUME NEW p \in Procs, CheckCondition(p) PROVE TypeOK'
  BY <1>10 DEF CheckCondition, Goto, table, history, Side
<1>11. ASSUME NEW p \in Procs, Resume(p) PROVE TypeOK'
  BY <1>11 DEF Resume, Goto, table, history
<1>12. ASSUME NEW p \in Procs, Interrupted(p) PROVE TypeOK'
  BY <1>12 DEF Interrupted, Goto, table, history
<1>13. ASSUME NEW r \in Readers, Remove(r) PROVE TypeOK'
  <2>1. messages_count \in 1 .. MSG_NB_MAX /\ 0 \in Rows
    BY <1>13 DEF Remove, SectionInv, Ready, Rows
  <2>2. messages_count' \in 0 .. MSG_NB_MAX
    BY <1>13, <2>1 DEF Remove
  <2>3. messages_array' \in [Rows -> Row]
    BY <1>13, <2>1 DEF Remove, Rows
  <2>4. messages_array[0].msg \in Messages
    BY <2>1 DEF Row
  <2>5. taken' \in Seq(Messages)
    BY <1>13, <2>4 DEF Remove
  <2>6. QED
    BY <1>13, <2>2, <2>3, <2>5 DEF Remove, Goto
<1>14. ASSUME NEW r \in Readers, CopyToUser(r) PROVE TypeOK'
  <2>1. PICK length \in ReadLengths :
            LET ret == Min({Remaining(r), length})
            IN  /\ offset' = [offset EXCEPT ![r] = @ + ret]
                /\ seen' = IF offset[r] \in Rows
                           THEN seen \cup {messages_array[offset[r]].byte[j] : j \in 0 .. ret - 1}
                           ELSE seen
    BY <1>14 DEF CopyToUser
  <2> DEFINE ret == Min({Remaining(r), length})
  <2>2. StrLen(messages_array[0]) \in Columns
    BY StrLenInRow DEF RowsTerminated, Rows
  <2>3. Remaining(r) \in Nat /\ length \in Nat /\ offset[r] \in Columns
    BY <1>14, <2>2, LengthsAssumption DEF CopyToUser, Remaining, Columns
  <2>4. ret \in Nat /\ ret <= Remaining(r)
    BY <2>3, MinOfTwo
  <2> HIDE DEF ret
  <2>5. offset[r] + ret \in Columns /\ 0 .. ret - 1 \subseteq Columns
    BY <2>2, <2>3, <2>4 DEF Remaining, Columns
  <2>6. offset' \in [Readers -> Columns]
    BY <2>1, <2>5 DEF ret
  <2>7. seen' \subseteq Bytes
    <3>1. CASE offset[r] \in Rows
      <4>1. messages_array[offset[r]].byte \in [Columns -> Bytes]
        BY <3>1 DEF Row
      <4>2. seen' = seen \cup {messages_array[offset[r]].byte[j] : j \in 0 .. ret - 1}
        BY <3>1, <2>1 DEF ret
      <4>3. QED
        BY <4>1, <4>2, <2>5
    <3>2. CASE offset[r] \notin Rows
      BY <3>2, <2>1
    <3>3. QED
      BY <3>1, <3>2
  <2>8. QED
    BY <1>14, <2>6, <2>7 DEF CopyToUser, Return, Goto, table
<1>15. ASSUME NEW r \in Readers, ReadFault(r) PROVE TypeOK'
  BY <1>15 DEF ReadFault, Return, Goto, table, history
<1>16. ASSUME NEW w \in Writers, TooLong(w) PROVE TypeOK'
  BY <1>16 DEF TooLong, Return, Goto, table, history
<1>17. ASSUME NEW w \in Writers, CopyFromUser(w) PROVE TypeOK'
  <2>1. messages_array' \in [Rows -> Row]
    BY <1>17, RowFilled
  <2>2. QED
    BY <1>17, <2>1 DEF CopyFromUser, Goto, history
<1>18. ASSUME NEW w \in Writers, WriteFault(w) PROVE TypeOK'
  <2>1. messages_array' \in [Rows -> Row]
    BY <1>18, RowFilled
  <2>2. QED
    BY <1>18, <2>1 DEF WriteFault, Return, Goto, history
<1>19. ASSUME NEW w \in Writers, Commit(w) PROVE TypeOK'
  <2>1. messages_count' \in 0 .. MSG_NB_MAX
    BY <1>19 DEF Commit, SectionInv, Ready
  <2>2. committed' \in 0 .. MaxMessages
    BY <1>19, PendingBound DEF Commit, Messages
  <2>3. QED
    BY <1>19, <2>1, <2>2 DEF Commit, Goto
<1>20. ASSUME NEW r \in Readers, Reopen(r) PROVE TypeOK'
  BY <1>20 DEF Reopen, table, history, Columns
<1>21. CASE UNCHANGED vars
  BY <1>21 DEF vars
<1> HIDE DEF TypeOK, Procs
<1>22. QED
  BY <1>1, <1>2, <1>3, <1>4, <1>5, <1>6, <1>7, <1>8, <1>9, <1>10, <1>11, <1>12, <1>13, <1>14,
     <1>15, <1>16, <1>17, <1>18, <1>19, <1>20, <1>21
  DEF Next, Step, CommonStep, ReadStep, WriteStep, Procs

\* A step keeps the mutex with whoever works on the table.
LEMMA ExclusiveStep ==
    ASSUME TypeOK, MessagesExclusive, [Next]_vars
    PROVE  MessagesExclusive'
<1> USE ProcsAssumption DEF TypeOK, MessagesExclusive, Procs
<1>1. ASSUME NEW p \in Procs, Call(p) PROVE MessagesExclusive'
  BY <1>1 DEF Call, Goto, table, history
<1>2. ASSUME NEW p \in Procs, LockInterrupted(p) PROVE MessagesExclusive'
  BY <1>2 DEF LockInterrupted, Goto, table, history
<1>3. ASSUME NEW p \in Procs, Signal(p) PROVE MessagesExclusive'
  BY <1>3 DEF Signal, Goto, table, history, Side
<1>4. ASSUME NEW p \in Procs, Lock(p) PROVE MessagesExclusive'
  BY <1>4 DEF Lock, Goto, table, history
<1>5. ASSUME NEW p \in Procs, TestReady(p) PROVE MessagesExclusive'
  BY <1>5 DEF TestReady, Goto, table, history
<1>6. ASSUME NEW p \in Procs, TestBlocked(p) PROVE MessagesExclusive'
  BY <1>6 DEF TestBlocked, Goto, table, history
<1>7. ASSUME NEW p \in Procs, TestRefused(p) PROVE MessagesExclusive'
  BY <1>7 DEF TestRefused, Return, Goto, table, history
<1>8. ASSUME NEW p \in Procs, WakeUp(p) PROVE MessagesExclusive'
  BY <1>8 DEF WakeUp, Return, Goto, table, history
<1>9. ASSUME NEW p \in Procs, PrepareToWait(p) PROVE MessagesExclusive'
  BY <1>9 DEF PrepareToWait, Goto, table, history, Side
<1>10. ASSUME NEW p \in Procs, CheckCondition(p) PROVE MessagesExclusive'
  BY <1>10 DEF CheckCondition, Goto, table, history, Side
<1>11. ASSUME NEW p \in Procs, Resume(p) PROVE MessagesExclusive'
  BY <1>11 DEF Resume, Goto, table, history
<1>12. ASSUME NEW p \in Procs, Interrupted(p) PROVE MessagesExclusive'
  BY <1>12 DEF Interrupted, Goto, table, history
<1>13. ASSUME NEW r \in Readers, Remove(r) PROVE MessagesExclusive'
  BY <1>13 DEF Remove, Goto
<1>14. ASSUME NEW r \in Readers, CopyToUser(r) PROVE MessagesExclusive'
  BY <1>14 DEF CopyToUser, Return, Goto, table
<1>15. ASSUME NEW r \in Readers, ReadFault(r) PROVE MessagesExclusive'
  BY <1>15 DEF ReadFault, Return, Goto, table, history
<1>16. ASSUME NEW w \in Writers, TooLong(w) PROVE MessagesExclusive'
  BY <1>16 DEF TooLong, Return, Goto, table, history
<1>17. ASSUME NEW w \in Writers, CopyFromUser(w) PROVE MessagesExclusive'
  BY <1>17 DEF CopyFromUser, Goto, history
<1>18. ASSUME NEW w \in Writers, WriteFault(w) PROVE MessagesExclusive'
  BY <1>18 DEF WriteFault, Return, Goto, history
<1>19. ASSUME NEW w \in Writers, Commit(w) PROVE MessagesExclusive'
  BY <1>19 DEF Commit, Goto
<1>20. ASSUME NEW r \in Readers, Reopen(r) PROVE MessagesExclusive'
  BY <1>20 DEF Reopen, table, history
<1>21. CASE UNCHANGED vars
  BY <1>21 DEF vars
<1> HIDE DEF TypeOK, MessagesExclusive, Procs
<1>22. QED
  BY <1>1, <1>2, <1>3, <1>4, <1>5, <1>6, <1>7, <1>8, <1>9, <1>10, <1>11, <1>12, <1>13, <1>14,
     <1>15, <1>16, <1>17, <1>18, <1>19, <1>20, <1>21
  DEF Next, Step, CommonStep, ReadStep, WriteStep, Procs

\* What a call found in its test, or wrote since, is not disturbed by the others.
LEMMA SectionStep ==
    ASSUME TypeOK, MessagesExclusive, SectionInv, BoundInv, RowsTerminated, [Next]_vars
    PROVE  SectionInv'
<1> USE ProcsAssumption, SizesAssumption DEF TypeOK, MessagesExclusive, SectionInv, Ready, Procs
<1>1. ASSUME NEW p \in Procs, Call(p) PROVE SectionInv'
  BY <1>1 DEF Call, Goto, table, history
<1>2. ASSUME NEW p \in Procs, LockInterrupted(p) PROVE SectionInv'
  BY <1>2 DEF LockInterrupted, Goto, table, history
<1>3. ASSUME NEW p \in Procs, Signal(p) PROVE SectionInv'
  BY <1>3 DEF Signal, Goto, table, history, Side
<1>4. ASSUME NEW p \in Procs, Lock(p) PROVE SectionInv'
  BY <1>4 DEF Lock, Goto, table, history
<1>5. ASSUME NEW p \in Procs, TestReady(p) PROVE SectionInv'
  BY <1>5 DEF TestReady, Goto, table, history
<1>6. ASSUME NEW p \in Procs, TestBlocked(p) PROVE SectionInv'
  BY <1>6 DEF TestBlocked, Goto, table, history
<1>7. ASSUME NEW p \in Procs, TestRefused(p) PROVE SectionInv'
  BY <1>7 DEF TestRefused, Return, Goto, table, history
<1>8. ASSUME NEW p \in Procs, WakeUp(p) PROVE SectionInv'
  BY <1>8 DEF WakeUp, Return, Goto, table, history
<1>9. ASSUME NEW p \in Procs, PrepareToWait(p) PROVE SectionInv'
  BY <1>9 DEF PrepareToWait, Goto, table, history, Side
<1>10. ASSUME NEW p \in Procs, CheckCondition(p) PROVE SectionInv'
  BY <1>10 DEF CheckCondition, Goto, table, history, Side
<1>11. ASSUME NEW p \in Procs, Resume(p) PROVE SectionInv'
  BY <1>11 DEF Resume, Goto, table, history
<1>12. ASSUME NEW p \in Procs, Interrupted(p) PROVE SectionInv'
  BY <1>12 DEF Interrupted, Goto, table, history
<1>13. ASSUME NEW r \in Readers, Remove(r) PROVE SectionInv'
  <2>1. \A p \in Procs : p # r => pc'[p] \notin {"copy", "commit"}
    BY <1>13 DEF Remove, Goto
  <2>2. pc'[r] = "wake"
    BY <1>13 DEF Remove, Goto
  <2>3. QED
    BY <2>1, <2>2
<1>14. ASSUME NEW r \in Readers, CopyToUser(r) PROVE SectionInv'
  BY <1>14 DEF CopyToUser, Return, Goto, table
<1>15. ASSUME NEW r \in Readers, ReadFault(r) PROVE SectionInv'
  BY <1>15 DEF ReadFault, Return, Goto, table, history
<1>16. ASSUME NEW w \in Writers, TooLong(w) PROVE SectionInv'
  BY <1>16 DEF TooLong, Return, Goto, table, history
<1>17. ASSUME NEW w \in Writers, CopyFromUser(w) PROVE SectionInv'
  <2>1. PICK row \in Row :
            /\ messages_array' = [messages_array EXCEPT ![messages_count] = row]
            /\ row.msg = committed + 1
            /\ \A j \in 0 .. row.len - 1 : row.byte[j] = committed + 1
    BY <1>17, RowFilled
  <2>2. messages_array'[messages_count] = row
    BY <1>17, <2>1, RowFilled
  <2>3. QED
    BY <1>17, <2>1, <2>2 DEF CopyFromUser, Goto, history
<1>18. ASSUME NEW w \in Writers, WriteFault(w) PROVE SectionInv'
  <2>1. \A p \in Procs : p # w => pc'[p] \notin {"copy", "commit"}
    BY <1>18 DEF WriteFault, Return, Goto
  <2>2. pc'[w] = "idle"
    BY <1>18 DEF WriteFault, Return, Goto
  <2>3. QED
    BY <2>1, <2>2
<1>19. ASSUME NEW w \in Writers, Commit(w) PROVE SectionInv'
  <2>1. \A p \in Procs : p # w => pc'[p] \notin {"copy", "commit"}
    BY <1>19 DEF Commit, Goto
  <2>2. pc'[w] = "wake"
    BY <1>19 DEF Commit, Goto
  <2>3. QED
    BY <2>1, <2>2
<1>20. ASSUME NEW r \in Readers, Reopen(r) PROVE SectionInv'
  BY <1>20 DEF Reopen, table, history
<1>21. CASE UNCHANGED vars
  BY <1>21 DEF vars
<1> HIDE DEF TypeOK, MessagesExclusive, SectionInv, Ready, Procs
<1>22. QED
  BY <1>1, <1>2, <1>3, <1>4, <1>5, <1>6, <1>7, <1>8, <1>9, <1>10, <1>11, <1>12, <1>13, <1>14,
     <1>15, <1>16, <1>17, <1>18, <1>19, <1>20, <1>21
  DEF Next, Step, CommonStep, ReadStep, WriteStep, Procs

\* Where no writer starts a call and none commits, the bound is not disturbed.
LEMMA PendingShrinks ==
    ASSUME TypeOK, BoundInv, committed' = committed, Pending' \subseteq Pending
    PROVE  BoundInv'
<1>1. IsFiniteSet(Pending)
  BY ProcsAssumption, FS_Subset DEF Pending
<1>2. /\ Cardinality(Pending) \in Nat /\ Cardinality(Pending') \in Nat
      /\ Cardinality(Pending') <= Cardinality(Pending)
  BY <1>1, FS_Subset, FS_CardinalityType
<1>3. QED
  BY <1>2, BoundAssumption DEF BoundInv, TypeOK

\* A step keeps the bound: a call that starts is still allowed for, a commit uses up one.
LEMMA BoundStep ==
    ASSUME TypeOK, BoundInv, [Next]_vars
    PROVE  BoundInv'
<1> USE ProcsAssumption, BoundAssumption DEF TypeOK, Procs
<1>1. ASSUME NEW p \in Procs, Call(p) PROVE BoundInv'
  <2>1. CASE p \in Writers
    <3> DEFINE busy == {w \in Writers : pc[w] # "idle"}
    <3>1. committed + Cardinality(busy) < MaxMessages /\ committed' = committed
      BY <1>1, <2>1 DEF Call, history
    <3>2. Pending' \subseteq busy \cup {p} /\ p \notin busy
      BY <1>1, <2>1 DEF Call, Goto, Pending
    <3>3. IsFiniteSet(busy)
      BY FS_Subset
    <3>4. IsFiniteSet(busy \cup {p}) /\ Cardinality(busy \cup {p}) = Cardinality(busy) + 1
      BY <3>2, <3>3, FS_AddElement
    <3>5. /\ Cardinality(busy) \in Nat /\ Cardinality(Pending') \in Nat
          /\ Cardinality(Pending') <= Cardinality(busy \cup {p})
      BY <3>2, <3>3, <3>4, FS_Subset, FS_CardinalityType
    <3>6. QED
      BY <3>1, <3>4, <3>5 DEF BoundInv
  <2>2. CASE p \notin Writers
    BY <1>1, <2>2, PendingShrinks DEF Pending, Call, Goto, table, history
  <2>3. QED
    BY <2>1, <2>2
<1>2. ASSUME NEW p \in Procs, LockInterrupted(p) PROVE BoundInv'
  BY <1>2, PendingShrinks DEF Pending, LockInterrupted, Goto, table, history
<1>3. ASSUME NEW p \in Procs, Signal(p) PROVE BoundInv'
  BY <1>3, PendingShrinks DEF Pending, Signal, Goto, table, history, Side
<1>4. ASSUME NEW p \in Procs, Lock(p) PROVE BoundInv'
  BY <1>4, PendingShrinks DEF Pending, Lock, Goto, table, history
<1>5. ASSUME NEW p \in Procs, TestReady(p) PROVE BoundInv'
  BY <1>5, PendingShrinks DEF Pending, TestReady, Goto, table, history
<1>6. ASSUME NEW p \in Procs, TestBlocked(p) PROVE BoundInv'
  BY <1>6, PendingShrinks DEF Pending, TestBlocked, Goto, table, history
<1>7. ASSUME NEW p \in Procs, TestRefused(p) PROVE BoundInv'
  BY <1>7, PendingShrinks DEF Pending, TestRefused, Return, Goto, table, history
<1>8. ASSUME NEW p \in Procs, WakeUp(p) PROVE BoundInv'
  BY <1>8, PendingShrinks DEF Pending, WakeUp, Return, Goto, table, history
<1>9. ASSUME NEW p \in Procs, PrepareToWait(p) PROVE BoundInv'
  BY <1>9, PendingShrinks DEF Pending, PrepareToWait, Goto, table, history, Side
<1>10. ASSUME NEW p \in Procs, CheckCondition(p) PROVE BoundInv'
  BY <1>10, PendingShrinks DEF Pending, CheckCondition, Goto, table, history, Side
<1>11. ASSUME NEW p \in Procs, Resume(p) PROVE BoundInv'
  BY <1>11, PendingShrinks DEF Pending, Resume, Goto, table, history
<1>12. ASSUME NEW p \in Procs, Interrupted(p) PROVE BoundInv'
  BY <1>12, PendingShrinks DEF Pending, Interrupted, Goto, table, history
<1>13. ASSUME NEW r \in Readers, Remove(r) PROVE BoundInv'
  BY <1>13, PendingShrinks DEF Pending, Remove, Goto
<1>14. ASSUME NEW r \in Readers, CopyToUser(r) PROVE BoundInv'
  BY <1>14, PendingShrinks DEF Pending, CopyToUser, Return, Goto, table
<1>15. ASSUME NEW r \in Readers, ReadFault(r) PROVE BoundInv'
  BY <1>15, PendingShrinks DEF Pending, ReadFault, Return, Goto, table, history
<1>16. ASSUME NEW w \in Writers, TooLong(w) PROVE BoundInv'
  BY <1>16, PendingShrinks DEF Pending, TooLong, Return, Goto, table, history
<1>17. ASSUME NEW w \in Writers, CopyFromUser(w) PROVE BoundInv'
  BY <1>17, PendingShrinks DEF Pending, CopyFromUser, Goto, history
<1>18. ASSUME NEW w \in Writers, WriteFault(w) PROVE BoundInv'
  BY <1>18, PendingShrinks DEF Pending, WriteFault, Return, Goto, history
<1>19. ASSUME NEW w \in Writers, Commit(w) PROVE BoundInv'
  <2>1. Pending' = Pending \ {w} /\ w \in Pending /\ committed' = committed + 1
    BY <1>19 DEF Commit, Goto, Pending
  <2>2. IsFiniteSet(Pending)
    BY FS_Subset DEF Pending
  <2>3. Cardinality(Pending') = Cardinality(Pending) - 1
    BY <2>1, <2>2, FS_RemoveElement
  <2>4. Cardinality(Pending) \in Nat
    BY <2>2, FS_CardinalityType
  <2>5. QED
    BY <2>1, <2>3, <2>4 DEF BoundInv
<1>20. ASSUME NEW r \in Readers, Reopen(r) PROVE BoundInv'
  BY <1>20, PendingShrinks DEF Pending, Reopen, table, history
<1>21. CASE UNCHANGED vars
  BY <1>21, PendingShrinks DEF vars, Pending
<1> HIDE DEF TypeOK, Procs
<1>22. QED
  BY <1>1, <1>2, <1>3, <1>4, <1>5, <1>6, <1>7, <1>8, <1>9, <1>10, <1>11, <1>12, <1>13, <1>14,
     <1>15, <1>16, <1>17, <1>18, <1>19, <1>20, <1>21
  DEF Next, Step, CommonStep, ReadStep, WriteStep, Procs

\* A step keeps the NUL at the end of every row.
LEMMA TerminatedStep ==
    ASSUME TypeOK, SectionInv, BoundInv, RowsTerminated, [Next]_vars
    PROVE  RowsTerminated'
<1> USE SizesAssumption DEF TypeOK, RowsTerminated
<1>1. ASSUME NEW p \in Procs, Call(p) PROVE RowsTerminated'
  BY <1>1 DEF Call, Goto, table, history
<1>2. ASSUME NEW p \in Procs, LockInterrupted(p) PROVE RowsTerminated'
  BY <1>2 DEF LockInterrupted, Goto, table, history
<1>3. ASSUME NEW p \in Procs, Signal(p) PROVE RowsTerminated'
  BY <1>3 DEF Signal, Goto, table, history, Side
<1>4. ASSUME NEW p \in Procs, Lock(p) PROVE RowsTerminated'
  BY <1>4 DEF Lock, Goto, table, history
<1>5. ASSUME NEW p \in Procs, TestReady(p) PROVE RowsTerminated'
  BY <1>5 DEF TestReady, Goto, table, history
<1>6. ASSUME NEW p \in Procs, TestBlocked(p) PROVE RowsTerminated'
  BY <1>6 DEF TestBlocked, Goto, table, history
<1>7. ASSUME NEW p \in Procs, TestRefused(p) PROVE RowsTerminated'
  BY <1>7 DEF TestRefused, Return, Goto, table, history
<1>8. ASSUME NEW p \in Procs, WakeUp(p) PROVE RowsTerminated'
  BY <1>8 DEF WakeUp, Return, Goto, table, history
<1>9. ASSUME NEW p \in Procs, PrepareToWait(p) PROVE RowsTerminated'
  BY <1>9 DEF PrepareToWait, Goto, table, history, Side
<1>10. ASSUME NEW p \in Procs, CheckCondition(p) PROVE RowsTerminated'
  BY <1>10 DEF CheckCondition, Goto, table, history, Side
<1>11. ASSUME NEW p \in Procs, Resume(p) PROVE RowsTerminated'
  BY <1>11 DEF Resume, Goto, table, history
<1>12. ASSUME NEW p \in Procs, Interrupted(p) PROVE RowsTerminated'
  BY <1>12 DEF Interrupted, Goto, table, history
<1>13. ASSUME NEW r \in Readers, Remove(r) PROVE RowsTerminated'
  <2>1. ASSUME NEW i \in Rows
        PROVE  \E k \in Rows : messages_array'[i] = messages_array[k]
    <3>1. CASE i < messages_count - 1
      <4>1. i + 1 \in Rows /\ messages_array'[i] = messages_array[i + 1]
        BY <1>13, <3>1 DEF Remove, Rows
      <4>2. QED
        BY <4>1
    <3>2. CASE ~ (i < messages_count - 1)
      BY <1>13, <3>2 DEF Remove
    <3>3. QED
      BY <3>1, <3>2
  <2>2. QED
    BY <2>1
<1>14. ASSUME NEW r \in Readers, CopyToUser(r) PROVE RowsTerminated'
  BY <1>14 DEF CopyToUser, Return, Goto, table
<1>15. ASSUME NEW r \in Readers, ReadFault(r) PROVE RowsTerminated'
  BY <1>15 DEF ReadFault, Return, Goto, table, history
<1>16. ASSUME NEW w \in Writers, TooLong(w) PROVE RowsTerminated'
  BY <1>16 DEF TooLong, Return, Goto, table, history
<1>17. ASSUME NEW w \in Writers, CopyFromUser(w) PROVE RowsTerminated'
  <2>1. PICK row \in Row :
            /\ messages_array' = [messages_array EXCEPT ![messages_count] = row]
            /\ row.byte[MSG_LG_MAX - 1] = 0
    BY <1>17, RowFilled
  <2>2. QED
    BY <2>1
<1>18. ASSUME NEW w \in Writers, WriteFault(w) PROVE RowsTerminated'
  <2>1. PICK row \in Row :
            /\ messages_array' = [messages_array EXCEPT ![messages_count] = row]
            /\ row.byte[MSG_LG_MAX - 1] = 0
    BY <1>18, RowFilled
  <2>2. QED
    BY <2>1
<1>19. ASSUME NEW w \in Writers, Commit(w) PROVE RowsTerminated'
  BY <1>19 DEF Commit, Goto
<1>20. ASSUME NEW r \in Readers, Reopen(r) PROVE RowsTerminated'
  BY <1>20 DEF Reopen, table, history
<1>21. CASE UNCHANGED vars
  BY <1>21 DEF vars
<1> HIDE DEF TypeOK, RowsTerminated
<1>22. QED
  BY <1>1, <1>2, <1>3, <1>4, <1>5, <1>6, <1>7, <1>8, <1>9, <1>10, <1>11, <1>12, <1>13, <1>14,
     <1>15, <1>16, <1>17, <1>18, <1>19, <1>20, <1>21
  DEF Next, Step, CommonStep, ReadStep, WriteStep, Procs

\* A step leaves bytes of earlier and failed writes only, but where a write() is at work, and
\* there is one at a time.
LEMMA LeftoverStep ==
    ASSUME TypeOK, MessagesExclusive, SectionInv, BoundInv, RowsTerminated, LeftoverInv,
           [Next]_vars
    PROVE  LeftoverInv'
<1> USE ProcsAssumption, SizesAssumption DEF TypeOK, LeftoverInv, Earlier, BeingWritten, Procs
<1>1. ASSUME NEW p \in Procs, Call(p) PROVE LeftoverInv'
  BY <1>1 DEF Call, Goto, table, history
<1>2. ASSUME NEW p \in Procs, LockInterrupted(p) PROVE LeftoverInv'
  BY <1>2 DEF LockInterrupted, Goto, table, history
<1>3. ASSUME NEW p \in Procs, Signal(p) PROVE LeftoverInv'
  BY <1>3 DEF Signal, Goto, table, history, Side
<1>4. ASSUME NEW p \in Procs, Lock(p) PROVE LeftoverInv'
  BY <1>4 DEF Lock, Goto, table, history
<1>5. ASSUME NEW p \in Procs, TestReady(p) PROVE LeftoverInv'
  BY <1>5 DEF TestReady, Goto, table, history
<1>6. ASSUME NEW p \in Procs, TestBlocked(p) PROVE LeftoverInv'
  BY <1>6 DEF TestBlocked, Goto, table, history
<1>7. ASSUME NEW p \in Procs, TestRefused(p) PROVE LeftoverInv'
  BY <1>7 DEF TestRefused, Return, Goto, table, history
<1>8. ASSUME NEW p \in Procs, WakeUp(p) PROVE LeftoverInv'
  BY <1>8 DEF WakeUp, Return, Goto, table, history
<1>9. ASSUME NEW p \in Procs, PrepareToWait(p) PROVE LeftoverInv'
  BY <1>9 DEF PrepareToWait, Goto, table, history, Side
<1>10. ASSUME NEW p \in Procs, CheckCondition(p) PROVE LeftoverInv'
  BY <1>10 DEF CheckCondition, Goto, table, history, Side
<1>11. ASSUME NEW p \in Procs, Resume(p) PROVE LeftoverInv'
  BY <1>11 DEF Resume, Goto, table, history
<1>12. ASSUME NEW p \in Procs, Interrupted(p) PROVE LeftoverInv'
  BY <1>12 DEF Interrupted, Goto, table, history
<1>13. ASSUME NEW r \in Readers, Remove(r) PROVE LeftoverInv'
  <2>1. \A p \in Procs : pc[p] # "commit"
    BY <1>13 DEF Remove, MessagesExclusive
  <2>2. ASSUME NEW i \in Rows
        PROVE  \E k \in Rows : messages_array'[i] = messages_array[k]
    <3>1. CASE i < messages_count - 1
      <4>1. i + 1 \in Rows /\ messages_array'[i] = messages_array[i + 1]
        BY <1>13, <3>1 DEF Remove, Rows
      <4>2. QED
        BY <4>1
    <3>2. CASE ~ (i < messages_count - 1)
      BY <1>13, <3>2 DEF Remove
    <3>3. QED
      BY <3>1, <3>2
  <2>3. committed' = committed
    BY <1>13 DEF Remove
  <2>4. QED
    BY <2>1, <2>2, <2>3
<1>14. ASSUME NEW r \in Readers, CopyToUser(r) PROVE LeftoverInv'
  BY <1>14 DEF CopyToUser, Return, Goto, table
<1>15. ASSUME NEW r \in Readers, ReadFault(r) PROVE LeftoverInv'
  BY <1>15 DEF ReadFault, Return, Goto, table, history
<1>16. ASSUME NEW w \in Writers, TooLong(w) PROVE LeftoverInv'
  BY <1>16 DEF TooLong, Return, Goto, table, history
<1>17. ASSUME NEW w \in Writers, CopyFromUser(w) PROVE LeftoverInv'
  <2>1. \A p \in Procs : pc[p] # "commit"
    BY <1>17 DEF CopyFromUser, MessagesExclusive
  <2>2. PICK row \in Row :
            /\ messages_array' = [messages_array EXCEPT ![messages_count] = row]
            /\ \A j \in Columns :
                   \/ row.byte[j] \in {messages_array[messages_count].byte[j], 0, Aborted}
                   \/ CopyFromUser(w) /\ j < row.len
    BY <1>17, RowFilled
  <2>3. /\ pc'[w] = "commit" /\ w \in Procs
        /\ messages_count' = messages_count /\ committed' = committed
    BY <1>17 DEF CopyFromUser, Goto, history
  <2>4. messages_count \in Rows
    BY <1>17, RowFilled
  <2>5. ASSUME NEW i \in Rows, NEW j \in Columns
        PROVE  messages_array'[i].byte[j] \in Earlier \/ BeingWritten(i, j)'
    <3>1. CASE i = messages_count
      BY <2>1, <2>2, <2>3, <2>4, <3>1
    <3>2. CASE i # messages_count
      BY <2>1, <2>2, <3>2
    <3>3. QED
      BY <3>1, <3>2
  <2>6. QED
    BY <2>3, <2>5
<1>18. ASSUME NEW w \in Writers, WriteFault(w) PROVE LeftoverInv'
  <2>1. \A p \in Procs : pc[p] # "commit"
    BY <1>18 DEF WriteFault, MessagesExclusive
  <2>2. ~ CopyFromUser(w)
    BY <1>18 DEF WriteFault, CopyFromUser, Return, Goto
  <2>3. PICK row \in Row :
            /\ messages_array' = [messages_array EXCEPT ![messages_count] = row]
            /\ \A j \in Columns :
                   \/ row.byte[j] \in {messages_array[messages_count].byte[j], 0, Aborted}
                   \/ CopyFromUser(w) /\ j < row.len
    BY <1>18, RowFilled
  <2>4. committed' = committed
    BY <1>18 DEF WriteFault, history
  <2>5. ASSUME NEW i \in Rows, NEW j \in Columns
        PROVE  messages_array'[i].byte[j] \in Earlier
    <3>1. CASE i = messages_count
      BY <2>1, <2>2, <2>3, <3>1
    <3>2. CASE i # messages_count
      BY <2>1, <2>3, <3>2
    <3>3. QED
      BY <3>1, <3>2
  <2>6. QED
    BY <2>4, <2>5
<1>19. ASSUME NEW w \in Writers, Commit(w) PROVE LeftoverInv'
  <2>1. messages_array' = messages_array /\ committed' = committed + 1
    BY <1>19 DEF Commit
  <2>2. \A j \in 0 .. messages_array[messages_count].len - 1 :
            messages_array[messages_count].byte[j] = committed + 1
    BY <1>19 DEF Commit, SectionInv
  <2>3. ASSUME NEW i \in Rows, NEW j \in Columns
        PROVE  messages_array[i].byte[j] \in Earlier'
    <3>1. CASE messages_array[i].byte[j] \in Earlier
      BY <2>1, <3>1
    <3>2. CASE BeingWritten(i, j)
      <4>1. i = messages_count /\ j \in 0 .. messages_array[messages_count].len - 1
        BY <3>2 DEF Row, Columns
      <4>2. QED
        BY <2>1, <2>2, <4>1
    <3>3. QED
      BY <3>1, <3>2
  <2>4. QED
    BY <2>1, <2>3
<1>20. ASSUME NEW r \in Readers, Reopen(r) PROVE LeftoverInv'
  BY <1>20 DEF Reopen, table, history
<1>21. CASE UNCHANGED vars
  BY <1>21 DEF vars
<1> HIDE DEF TypeOK, LeftoverInv, Earlier, BeingWritten, Procs
<1>22. QED
  BY <1>1, <1>2, <1>3, <1>4, <1>5, <1>6, <1>7, <1>8, <1>9, <1>10, <1>11, <1>12, <1>13, <1>14,
     <1>15, <1>16, <1>17, <1>18, <1>19, <1>20, <1>21
  DEF Next, Step, CommonStep, ReadStep, WriteStep, Procs

\* A step leaves the committed messages whole: writers work beyond them, and removing one
\* moves the others as they are.
LEMMA IntactStep ==
    ASSUME TypeOK, SectionInv, BoundInv, LeftoverInv, RowsTerminated, MessagesIntact,
           [Next]_vars
    PROVE  MessagesIntact'
<1> USE SizesAssumption DEF TypeOK, MessagesIntact
<1>1. ASSUME NEW p \in Procs, Call(p) PROVE MessagesIntact'
  BY <1>1 DEF Call, Goto, table, history
<1>2. ASSUME NEW p \in Procs, LockInterrupted(p) PROVE MessagesIntact'
  BY <1>2 DEF LockInterrupted, Goto, table, history
<1>3. ASSUME NEW p \in Procs, Signal(p) PROVE MessagesIntact'
  BY <1>3 DEF Signal, Goto, table, history, Side
<1>4. ASSUME NEW p \in Procs, Lock(p) PROVE MessagesIntact'
  BY <1>4 DEF Lock, Goto, table, history
<1>5. ASSUME NEW p \in Procs, TestReady(p) PROVE MessagesIntact'
  BY <1>5 DEF TestReady, Goto, table, history
<1>6. ASSUME NEW p \in Procs, TestBlocked(p) PROVE MessagesIntact'
  BY <1>6 DEF TestBlocked, Goto, table, history
<1>7. ASSUME NEW p \in Procs, TestRefused(p) PROVE MessagesIntact'
  BY <1>7 DEF TestRefused, Return, Goto, table, history
<1>8. ASSUME NEW p \in Procs, WakeUp(p) PROVE MessagesIntact'
  BY <1>8 DEF WakeUp, Return, Goto, table, history
<1>9. ASSUME NEW p \in Procs, PrepareToWait(p) PROVE MessagesIntact'
  BY <1>9 DEF PrepareToWait, Goto, table, history, Side
<1>10. ASSUME NEW p \in Procs, CheckCondition(p) PROVE MessagesIntact'
  BY <1>10 DEF CheckCondition, Goto, table, history, Side
<1>11. ASSUME NEW p \in Procs, Resume(p) PROVE MessagesIntact'
  BY <1>11 DEF Resume, Goto, table, history
<1>12. ASSUME NEW p \in Procs, Interrupted(p) PROVE MessagesIntact'
  BY <1>12 DEF Interrupted, Goto, table, history
<1>13. ASSUME NEW r \in Readers, Remove(r) PROVE MessagesIntact'
  <2>1. messages_count' = messages_count - 1
    BY <1>13 DEF Remove
  <2>2. \A i \in 0 .. messages_count - 2 :
            messages_array'[i] = messages_array[i + 1] /\ i + 1 \in 0 .. messages_count - 1
    BY <1>13 DEF Remove, Rows
  <2>3. \A i \in 0 .. messages_count - 2 : Intact(messages_array'[i])
    BY <2>2
  <2>4. messages_count' - 1 = messages_count - 2
    BY <2>1
  <2>5. QED
    BY <2>3, <2>4
<1>14. ASSUME NEW r \in Readers, CopyToUser(r) PROVE MessagesIntact'
  BY <1>14 DEF CopyToUser, Return, Goto, table
<1>15. ASSUME NEW r \in Readers, ReadFault(r) PROVE MessagesIntact'
  BY <1>15 DEF ReadFault, Return, Goto, table, history
<1>16. ASSUME NEW w \in Writers, TooLong(w) PROVE MessagesIntact'
  BY <1>16 DEF TooLong, Return, Goto, table, history
<1>17. ASSUME NEW w \in Writers, CopyFromUser(w) PROVE MessagesIntact'
  <2>1. \A i \in 0 .. messages_count - 1 : messages_array'[i] = messages_array[i]
    <3>1. PICK row \in Row :
              messages_array' = [messages_array EXCEPT ![messages_count] = row]
      BY <1>17, RowFilled
    <3>2. QED
      BY <3>1 DEF Rows
  <2>2. messages_count' = messages_count
    BY <1>17 DEF CopyFromUser
  <2>3. QED
    BY <2>1, <2>2
<1>18. ASSUME NEW w \in Writers, WriteFault(w) PROVE MessagesIntact'
  <2>1. \A i \in 0 .. messages_count - 1 : messages_array'[i] = messages_array[i]
    <3>1. PICK row \in Row :
              messages_array' = [messages_array EXCEPT ![messages_count] = row]
      BY <1>18, RowFilled
    <3>2. QED
      BY <3>1 DEF Rows
  <2>2. messages_count' = messages_count
    BY <1>18 DEF WriteFault
  <2>3. QED
    BY <2>1, <2>2
<1>19. ASSUME NEW w \in Writers, Commit(w) PROVE MessagesIntact'
  <2>1. messages_array' = messages_array /\ messages_count' = messages_count + 1
    BY <1>19 DEF Commit
  <2>2. /\ messages_array[messages_count].msg = committed + 1
        /\ \A j \in 0 .. messages_array[messages_count].len - 1 :
               messages_array[messages_count].byte[j] = committed + 1
    BY <1>19 DEF Commit, SectionInv, Procs
  <2>3. \A j \in Columns : j >= messages_array[messages_count].len =>
            messages_array[messages_count].byte[j] \in Earlier
    BY <1>19, ProcsAssumption
    DEF Commit, LeftoverInv, BeingWritten, SectionInv, Ready, Rows, Columns, Row, Procs
  <2>4. messages_array[messages_count] \in Row
    BY <1>19, ProcsAssumption DEF Commit, SectionInv, Ready, Rows, Procs
  <2>5. Intact(messages_array[messages_count])
    BY <2>2, <2>3, <2>4 DEF Earlier, Columns, Row, Intact
  <2>6. \A i \in 0 .. messages_count' - 1 : i \in 0 .. messages_count - 1 \/ i = messages_count
    BY <2>1
  <2>7. QED
    BY <2>1, <2>5, <2>6
<1>20. ASSUME NEW r \in Readers, Reopen(r) PROVE MessagesIntact'
  BY <1>20 DEF Reopen, table, history
<1>21. CASE UNCHANGED vars
  BY <1>21 DEF vars
<1> HIDE DEF TypeOK, MessagesIntact
<1>22. QED
  BY <1>1, <1>2, <1>3, <1>4, <1>5, <1>6, <1>7, <1>8, <1>9, <1>10, <1>11, <1>12, <1>13, <1>14,
     <1>15, <1>16, <1>17, <1>18, <1>19, <1>20, <1>21
  DEF Next, Step, CommonStep, ReadStep, WriteStep, Procs

\* A step that makes a condition true leads to the wake-up of those who sleep for it.
LEMMA WakeupStep ==
    ASSUME TypeOK, SectionInv, NoLostWakeup, [Next]_vars
    PROVE  NoLostWakeup'
<1> USE ProcsAssumption, SizesAssumption DEF TypeOK, NoLostWakeup, Ready, Side, Procs
<1>1. ASSUME NEW p \in Procs, Call(p) PROVE NoLostWakeup'
  BY <1>1 DEF Call, Goto, table, history
<1>2. ASSUME NEW p \in Procs, LockInterrupted(p) PROVE NoLostWakeup'
  BY <1>2 DEF LockInterrupted, Goto, table, history
<1>3. ASSUME NEW p \in Procs, Signal(p) PROVE NoLostWakeup'
  BY <1>3 DEF Signal, Goto, table, history, Side
<1>4. ASSUME NEW p \in Procs, Lock(p) PROVE NoLostWakeup'
  BY <1>4 DEF Lock, Goto, table, history
<1>5. ASSUME NEW p \in Procs, TestReady(p) PROVE NoLostWakeup'
  BY <1>5 DEF TestReady, Goto, table, history
<1>6. ASSUME NEW p \in Procs, TestBlocked(p) PROVE NoLostWakeup'
  BY <1>6 DEF TestBlocked, Goto, table, history
<1>7. ASSUME NEW p \in Procs, TestRefused(p) PROVE NoLostWakeup'
  BY <1>7 DEF TestRefused, Return, Goto, table, history
<1>8. ASSUME NEW p \in Procs, WakeUp(p) PROVE NoLostWakeup'
  BY <1>8 DEF WakeUp, Return, Goto, table, history
<1>9. ASSUME NEW p \in Procs, PrepareToWait(p) PROVE NoLostWakeup'
  BY <1>9 DEF PrepareToWait, Goto, table, history, Side
<1>10. ASSUME NEW p \in Procs, CheckCondition(p) PROVE NoLostWakeup'
  BY <1>10 DEF CheckCondition, Goto, table, history, Side
<1>11. ASSUME NEW p \in Procs, Resume(p) PROVE NoLostWakeup'
  BY <1>11 DEF Resume, Goto, table, history
<1>12. ASSUME NEW p \in Procs, Interrupted(p) PROVE NoLostWakeup'
  BY <1>12 DEF Interrupted, Goto, table, history
<1>13. ASSUME NEW r \in Readers, Remove(r) PROVE NoLostWakeup'
  <2> SUFFICES ASSUME NEW p \in Procs,
                      pc'[p] = "sleep", p \in messages_wq'[Side(p)], Ready(p)'
               PROVE  \E q \in Procs : pc'[q] = "wake" /\ Side(q) # Side(p)
    OBVIOUS
  <2>1. p # r /\ pc[p] = "sleep" /\ p \in messages_wq[Side(p)]
    BY <1>13 DEF Remove, Goto
  <2>2. pc'[r] = "wake" /\ \A q \in Procs : pc[q] = "wake" => pc'[q] = "wake"
    BY <1>13 DEF Remove, Goto
  <2>3. CASE p \in Readers
    <3>1. Ready(p)
      BY <1>13, <2>3 DEF Remove, SectionInv
    <3>2. QED
      BY <2>1, <2>2, <3>1
  <2>4. CASE p \notin Readers
    BY <2>2, <2>4
  <2>5. QED
    BY <2>3, <2>4
<1>14. ASSUME NEW r \in Readers, CopyToUser(r) PROVE NoLostWakeup'
  BY <1>14 DEF CopyToUser, Return, Goto, table
<1>15. ASSUME NEW r \in Readers, ReadFault(r) PROVE NoLostWakeup'
  BY <1>15 DEF ReadFault, Return, Goto, table, history
<1>16. ASSUME NEW w \in Writers, TooLong(w) PROVE NoLostWakeup'
  BY <1>16 DEF TooLong, Return, Goto, table, history
<1>17. ASSUME NEW w \in Writers, CopyFromUser(w) PROVE NoLostWakeup'
  BY <1>17 DEF CopyFromUser, Goto, history
<1>18. ASSUME NEW w \in Writers, WriteFault(w) PROVE NoLostWakeup'
  BY <1>18 DEF WriteFault, Return, Goto, history
<1>19. ASSUME NEW w \in Writers, Commit(w) PROVE NoLostWakeup'
  BY <1>19 DEF Commit, Goto
<1>20. ASSUME NEW r \in Readers, Reopen(r) PROVE NoLostWakeup'
  BY <1>20 DEF Reopen, table, history
<1>21. CASE UNCHANGED vars
  BY <1>21 DEF vars
<1> HIDE DEF TypeOK, NoLostWakeup, Ready, Side, Procs
<1>22. QED
  BY <1>1, <1>2, <1>3, <1>4, <1>5, <1>6, <1>7, <1>8, <1>9, <1>10, <1>11, <1>12, <1>13, <1>14,
     <1>15, <1>16, <1>17, <1>18, <1>19, <1>20, <1>21
  DEF Next, Step, CommonStep, ReadStep, WriteStep, Procs

-----------------------------------------------------------------------------
\* Every reachable state satisfies the inductive invariant.
THEOREM Invariance == Spec => []Inv
<1>1. Inv /\ [Next]_vars => Inv'
  BY TypeStep, ExclusiveStep, SectionStep, BoundStep, LeftoverStep, TerminatedStep,
     IntactStep, WakeupStep
  DEF Inv
<1>2. QED
  BY InitInv, <1>1, PTL DEF Spec

\* Every variable keeps its type: the count stays inside the table, an offset inside a row.
THEOREM TypeCorrect == Spec => []TypeOK
<1>1. Inv => TypeOK
  BY DEF Inv
<1>2. QED
  BY Invariance, <1>1, PTL

\* Two calls never work on the table at the same time.
THEOREM Exclusion == Spec => []MessagesExclusive
<1>1. Inv => MessagesExclusive
  BY DEF Inv
<1>2. QED
  BY Invariance, <1>1, PTL

\* strlen() finds a NUL in every row, also in the one a write() has filled or failed to fill.
THEOREM StrLenStops == Spec => []RowsTerminated
<1>1. Inv => RowsTerminated
  BY DEF Inv
<1>2. QED
  BY Invariance, <1>1, PTL

\* A message that was committed keeps the bytes its write() copied until it is removed.  The
\* other bytes of its row, which a reader gets as well up to the first NUL, are of earlier
\* messages or of failed writes, never of the message itself or of a later one.
THEOREM CommittedStayIntact == Spec => []MessagesIntact
<1>1. Inv => MessagesIntact
  BY DEF Inv
<1>2. QED
  BY Invariance, <1>1, PTL

\* Nobody sleeps beside a condition that became true and whose wake-up has been issued.
THEOREM WakeupsNotLost == Spec => []NoLostWakeup
<1>1. Inv => NoLostWakeup
  BY DEF Inv
<1>2. QED
  BY Invariance, <1>1, PTL
-----------------------------------------------------------------------------
\* What the refinement substitutes for the abstract queue: the numbers of the messages in the
\* counted rows.
Numbers == [i \in Rows |-> messages_array[i].msg]

Entries == [i \in 1 .. messages_count |-> messages_array[i - 1].msg]

\* The counted rows are the first entries of Numbers.
LEMMA EntriesTable ==
    ASSUME TypeOK
    PROVE  /\ Entries = Table(Numbers, messages_count)
           /\ \A i \in 1 .. messages_count : Numbers[i - 1] \in Nat
           /\ messages_count \in Nat
<1> USE SizesAssumption, BoundAssumption DEF TypeOK
<1>1. messages_count \in Nat /\ \A i \in 1 .. messages_count : i - 1 \in Rows
  BY DEF Rows
<1>2. \A i \in Rows : messages_array[i].msg \in Nat
  BY DEF Row, Messages
<1>3. \A i \in 1 .. messages_count : Numbers[i - 1] = messages_array[i - 1].msg
  BY <1>1 DEF Numbers
<1>4. QED
  BY <1>1, <1>2, <1>3 DEF Entries, Table

\* messages_count++ appends the message in the row it counts.
LEMMA CommitRecords ==
    ASSUME Inv, NEW w \in Writers, Commit(w)
    PROVE  Fifo!Record
<1>1. /\ messages_count' = messages_count + 1 /\ committed' = committed + 1
      /\ messages_array' = messages_array /\ taken' = taken
  BY DEF Commit
<1>2. /\ messages_count \in Rows /\ messages_count < MSG_NB_MAX
      /\ Numbers[messages_count] = committed + 1
  BY ProcsAssumption, SizesAssumption
  DEF Commit, Inv, TypeOK, SectionInv, Ready, Procs, Rows, Numbers
<1>3. /\ Entries = Table(Numbers, messages_count)
      /\ \A i \in 1 .. messages_count : Numbers[i - 1] \in Nat
      /\ messages_count \in Nat
  BY EntriesTable DEF Inv
<1>4. \A i \in 1 .. messages_count + 1 : Numbers[i - 1] \in Nat
  <2>1. Numbers[messages_count] \in Nat
    BY <1>2, BoundAssumption DEF Inv, TypeOK
  <2>2. QED
    BY <1>3, <2>1
<1>5. Len(Entries) < MSG_NB_MAX
  BY <1>2, <1>3, TableSeq
<1>6. Table(Numbers, messages_count + 1) = Append(Entries, committed + 1)
  BY <1>2, <1>3, <1>4, TableAppend
<1>7. Entries' = Table(Numbers, messages_count + 1)
  <2>1. \A i \in 1 .. messages_count + 1 : Numbers[i - 1] = messages_array[i - 1].msg
    BY <1>2, SizesAssumption DEF Numbers, Rows
  <2>2. QED
    BY <1>1, <2>1 DEF Entries, Table
<1>8. QED
  BY <1>1, <1>5, <1>6, <1>7 DEF Fifo!Record, Entries

\* read() at the end of the first message takes that message and no other.
LEMMA RemoveTakes ==
    ASSUME Inv, NEW r \in Readers, Remove(r)
    PROVE  Fifo!Take
<1> USE SizesAssumption
<1>1. /\ messages_count' = messages_count - 1 /\ committed' = committed
      /\ messages_array' = [i \in Rows |-> IF i < messages_count - 1
                                           THEN messages_array[i + 1] ELSE messages_array[i]]
      /\ taken' = Append(taken, messages_array[0].msg)
  BY DEF Remove
<1>2. messages_count \in 1 .. MSG_NB_MAX /\ 0 \in Rows
  BY DEF Remove, Inv, TypeOK, SectionInv, Ready, Procs, Rows
<1>3. /\ Entries = Table(Numbers, messages_count)
      /\ \A i \in 1 .. messages_count : Numbers[i - 1] \in Nat
  BY EntriesTable DEF Inv
<1>4. \A i \in 1 .. messages_count - 1 : Numbers'[i - 1] = Numbers[i]
  <2>1. \A i \in 1 .. messages_count - 1 :
            i \in Rows /\ i - 1 \in Rows /\ i - 1 < messages_count - 1 /\ (i - 1) + 1 = i
    BY <1>2 DEF Rows
  <2>2. \A i \in 1 .. messages_count - 1 : messages_array'[i - 1] = messages_array[i]
    BY <1>1, <2>1
  <2>3. QED
    BY <2>1, <2>2 DEF Numbers
<1>5. /\ Entries # <<>>
      /\ Head(Entries) = Numbers[0]
      /\ Table(Numbers', messages_count - 1) = Tail(Entries)
  BY <1>2, <1>3, <1>4, TableTail
<1>6. Entries' = Table(Numbers', messages_count - 1)
  <2>1. \A i \in 1 .. messages_count - 1 : Numbers'[i - 1] = messages_array'[i - 1].msg
    BY <1>2 DEF Numbers, Rows
  <2>2. QED
    BY <1>1, <2>1 DEF Entries, Table
<1>7. Numbers[0] = messages_array[0].msg
  BY <1>2 DEF Numbers
<1>8. QED
  BY <1>1, <1>5, <1>6, <1>7 DEF Fifo!Take, Entries

\* Bytes written into the next row are not visible before they are counted.
LEMMA FillStutters ==
    ASSUME Inv, NEW w \in Writers, CopyFromUser(w) \/ WriteFault(w)
    PROVE  UNCHANGED Fifo!fifoVars
<1>1. \E row \in Row : messages_array' = [messages_array EXCEPT ![messages_count] = row]
  BY RowFilled DEF Inv
<1>2. messages_count' = messages_count /\ committed' = committed /\ taken' = taken
  BY DEF CopyFromUser, WriteFault, history
<1>3. \A i \in 1 .. messages_count : messages_array'[i - 1] = messages_array[i - 1]
  BY <1>1, SizesAssumption DEF Inv, TypeOK, Rows
<1>4. Entries' = Entries
  BY <1>2, <1>3 DEF Entries
<1>5. QED
  BY <1>2, <1>4 DEF Fifo!fifoVars, Entries

\* Every step of the driver is a step of the queue or leaves it alone.
LEMMA FifoStep ==
    ASSUME Inv, [Next]_vars
    PROVE  [Fifo!LosslessNext]_(Fifo!fifoVars)
<1> USE DEF Fifo!LosslessNext, Fifo!fifoVars
<1>1. ASSUME NEW p \in Procs, Call(p) PROVE [Fifo!LosslessNext]_(Fifo!fifoVars)
  BY <1>1 DEF Call, Goto, table, history
<1>2. ASSUME NEW p \in Procs, LockInterrupted(p) PROVE [Fifo!LosslessNext]_(Fifo!fifoVars)
  BY <1>2 DEF LockInterrupted, Goto, table, history
<1>3. ASSUME NEW p \in Procs, Signal(p) PROVE [Fifo!LosslessNext]_(Fifo!fifoVars)
  BY <1>3 DEF Signal, Goto, table, history, Side
<1>4. ASSUME NEW p \in Procs, Lock(p) PROVE [Fifo!LosslessNext]_(Fifo!fifoVars)
  BY <1>4 DEF Lock, Goto, table, history
<1>5. ASSUME NEW p \in Procs, TestReady(p) PROVE [Fifo!LosslessNext]_(Fifo!fifoVars)
  BY <1>5 DEF TestReady, Goto, table, history
<1>6. ASSUME NEW p \in Procs, TestBlocked(p) PROVE [Fifo!LosslessNext]_(Fifo!fifoVars)
  BY <1>6 DEF TestBlocked, Goto, table, history
<1>7. ASSUME NEW p \in Procs, TestRefused(p) PROVE [Fifo!LosslessNext]_(Fifo!fifoVars)
  BY <1>7 DEF TestRefused, Return, Goto, table, history
<1>8. ASSUME NEW p \in Procs, WakeUp(p) PROVE [Fifo!LosslessNext]_(Fifo!fifoVars)
  BY <1>8 DEF WakeUp, Return, Goto, table, history
<1>9. ASSUME NEW p \in Procs, PrepareToWait(p) PROVE [Fifo!LosslessNext]_(Fifo!fifoVars)
  BY <1>9 DEF PrepareToWait, Goto, table, history, Side
<1>10. ASSUME NEW p \in Procs, CheckCondition(p) PROVE [Fifo!LosslessNext]_(Fifo!fifoVars)
  BY <1>10 DEF CheckCondition, Goto, table, history, Side
<1>11. ASSUME NEW p \in Procs, Resume(p) PROVE [Fifo!LosslessNext]_(Fifo!fifoVars)
  BY <1>11 DEF Resume, Goto, table, history
<1>12. ASSUME NEW p \in Procs, Interrupted(p) PROVE [Fifo!LosslessNext]_(Fifo!fifoVars)
  BY <1>12 DEF Interrupted, Goto, table, history
<1>13. ASSUME NEW r \in Readers, Remove(r) PROVE [Fifo!LosslessNext]_(Fifo!fifoVars)
  BY <1>13, RemoveTakes
<1>14. ASSUME NEW r \in Readers, CopyToUser(r) PROVE [Fifo!LosslessNext]_(Fifo!fifoVars)
  BY <1>14 DEF CopyToUser, Return, Goto, table
<1>15. ASSUME NEW r \in Readers, ReadFault(r) PROVE [Fifo!LosslessNext]_(Fifo!fifoVars)
  BY <1>15 DEF ReadFault, Return, Goto, table, history
<1>16. ASSUME NEW w \in Writers, TooLong(w) PROVE [Fifo!LosslessNext]_(Fifo!fifoVars)
  BY <1>16 DEF TooLong, Return, Goto, table, history
<1>17. ASSUME NEW w \in Writers, CopyFromUser(w) PROVE [Fifo!LosslessNext]_(Fifo!fifoVars)
  BY <1>17, FillStutters
<1>18. ASSUME NEW w \in Writers, WriteFault(w) PROVE [Fifo!LosslessNext]_(Fifo!fifoVars)
  BY <1>18, FillStutters
<1>19. ASSUME NEW w \in Writers, Commit(w) PROVE [Fifo!LosslessNext]_(Fifo!fifoVars)
  BY <1>19, CommitRecords
<1>20. ASSUME NEW r \in Readers, Reopen(r) PROVE [Fifo!LosslessNext]_(Fifo!fifoVars)
  BY <1>20 DEF Reopen, table, history
<1>21. CASE UNCHANGED vars
  BY <1>21 DEF vars
<1> HIDE DEF Fifo!LosslessNext, Fifo!fifoVars
<1>22. QED
  BY <1>1, <1>2, <1>3, <1>4, <1>5, <1>6, <1>7, <1>8, <1>9, <1>10, <1>11, <1>12, <1>13, <1>14,
     <1>15, <1>16, <1>17, <1>18, <1>19, <1>20, <1>21
  DEF Next, Step, CommonStep, ReadStep, WriteStep, Procs

\* The driver implements the lossless FIFO: messages leave in the order in which they were
\* written, each once, and none is forgotten.
THEOREM FifoImplemented == Spec => LosslessFifo
<1>1. Init => Fifo!FifoInit
  BY DEF Init, Fifo!FifoInit
<1>2. Inv /\ [Next]_vars => [Fifo!LosslessNext]_(Fifo!fifoVars)
  BY FifoStep
<1>3. QED
  BY Invariance, <1>1, <1>2, PTL DEF Spec, LosslessFifo, Fifo!LosslessSpec
=============================================================================
