--------------------------- MODULE UsbK8055Proofs ---------------------------
(***************************************************************************)
(* Proofs about UsbK8055, for any set of processes and any number of times *)
(* the device is plugged in.                                               *)
(*                                                                         *)
(* The inductive invariant Inv says who holds the two kinds of mutex, how  *)
(* the open count and the files go together (OpenInv, MutexInv), where the *)
(* URB of a waiting transfer is (UrbInv), and what the stages of           *)
(* disconnect() have established (HubInv).                                 *)
(***************************************************************************)
EXTENDS UsbK8055, FiniteSetTheorems, TLAPS

Releasing(u) == pc[u] \in {"release", "releaselocked"}

\* The count is 1 while there is a file or a release() that is not over, and at most one of
\* the two exists.  It may be 1 without either, see CountMatchesFiles.
OpenInv ==
    /\ \A u \in Users : pc[u] \in {"openlocked", "releaselocked"} => example_mtx = u
    /\ \A u, v \in Users : Releasing(u) /\ Releasing(v) => u = v
    /\ files = 1 => \A u \in Users : ~ Releasing(u)
    /\ files = 1 \/ (\E u \in Users : Releasing(u)) => example_open_count = 1

\* From the lock to the return, and for ever after an oops.
MutexInv == \A u \in Users : pc[u] \in TransferLabels \ {"lock"} => mtx[dir[u]] = u

\* The URB of a transfer that waits, or has stopped waiting, is in flight, or it was the last
\* to complete.
UrbInv ==
    \A u \in Users : pc[u] \in {"wait", "status"} =>
        \/ urb[dir[u]] = u /\ status[dir[u]] = "inprogress"
        \/ completed[dir[u]] = u /\ urb[dir[u]] = None

HubInv ==
    /\ hub \in {"kill", "dereg", "null", "freein", "freeout", "absent"} => ~ enabled
    /\ hub \in {"dereg", "null", "freein", "freeout"} => \A d \in Directions : urb[d] = None
    /\ hub = "freeout" => "in" \notin allocated

Inv == TypeOK /\ OpenInv /\ MutexInv /\ BusyOwned /\ UrbInv /\ HubInv

-----------------------------------------------------------------------------
\* The initial state, no device and nobody in a call, satisfies the invariant.
LEMMA InitInv == Init => Inv
<1> SUFFICES ASSUME Init PROVE Inv
  OBVIOUS
<1> USE BoundAssumption DEF Init
<1>1. TypeOK
  <2>1. example_open_count \in 0 .. 1 /\ files \in 0 .. 1 /\ plugs \in 0 .. MaxPlugs
    OBVIOUS
  <2>2. allocated \in {{}, {"out"}, Directions}
    OBVIOUS
  <2>3. /\ pc \in [Users -> {"idle"} \cup OpenLabels \cup TransferLabels]
        /\ dir \in [Users -> Directions]
    BY DEF Directions
  <2>4. QED
    BY <2>1, <2>2, <2>3 DEF TypeOK
<1>2. OpenInv /\ MutexInv /\ BusyOwned /\ UrbInv /\ HubInv
  BY DEF OpenInv, Releasing, MutexInv, BusyOwned, UrbInv, HubInv, TransferLabels, Directions
<1> QED
  BY <1>1, <1>2 DEF Inv

\* A step keeps the types: the count stays 0 or 1, and no direction is left half allocated.
LEMMA TypeStep ==
    ASSUME TypeOK, OpenInv, HubInv, [Next]_vars
    PROVE  TypeOK'
<1> USE UsersAssumption, BoundAssumption
    DEF TypeOK, Directions, OpenLabels, TransferLabels, openVars, urbVars, hubVars, deviceVars,
        userVars
<1>1. ASSUME NEW u \in Users, Open(u) PROVE TypeOK'
  BY <1>1 DEF Open, Goto
<1>2. ASSUME NEW u \in Users, Release(u) PROVE TypeOK'
  BY <1>2 DEF Release, Goto
<1>3. ASSUME NEW u \in Users, OpenInterrupted(u) PROVE TypeOK'
  BY <1>3 DEF OpenInterrupted, Goto
<1>4. ASSUME NEW u \in Users, LockInterrupted(u) PROVE TypeOK'
  BY <1>4 DEF LockInterrupted, Goto
<1>5. ASSUME NEW u \in Users, WaitInterrupted(u) PROVE TypeOK'
  <2>1. dir[u] \in Directions
    OBVIOUS
  <2>2. busy' \in [Directions -> BOOLEAN]
    <3>1. busy' = busy \/ busy' = [busy EXCEPT ![dir[u]] = FALSE]
      BY <1>5 DEF WaitInterrupted
    <3>2. busy \in [Directions -> BOOLEAN]
      OBVIOUS
    <3> HIDE DEF TypeOK, Directions
    <3>3. QED
      BY <3>1, <3>2, <2>1
  <2>3. urb' \in [Directions -> Users \cup {None, Abandoned}]
    BY <1>5, <2>1 DEF WaitInterrupted, Abandon
  <2>4. QED
    BY <1>5, <2>1, <2>2, <2>3 DEF WaitInterrupted, Return, Goto
<1>6. ASSUME NEW u \in Users, OpenLock(u) PROVE TypeOK'
  BY <1>6 DEF OpenLock, Goto
<1>7. ASSUME NEW u \in Users, OpenBody(u) PROVE TypeOK'
  BY <1>7 DEF OpenBody, Goto, OpenInv, Releasing
<1>8. ASSUME NEW u \in Users, ReleaseBody(u) PROVE TypeOK'
  BY <1>8 DEF ReleaseBody, Goto, OpenInv, Releasing
<1>9. ASSUME NEW u \in Users, TransferLock(u) PROVE TypeOK'
  BY <1>9 DEF TransferLock, Goto
<1>10. ASSUME NEW u \in Users, CheckDevice(u) PROVE TypeOK'
  BY <1>10 DEF CheckDevice, Return, Goto
<1>11. ASSUME NEW u \in Users, Claim(u) PROVE TypeOK'
  BY <1>11 DEF Claim, Goto
<1>12. ASSUME NEW u \in Users, Fill(u) PROVE TypeOK'
  BY <1>12 DEF Fill, Goto
<1>13. ASSUME NEW u \in Users, Oops(u) PROVE TypeOK'
  BY <1>13 DEF Oops, Goto
<1>14. ASSUME NEW u \in Users, Submit(u) PROVE TypeOK'
  BY <1>14 DEF Submit, Goto
<1>15. ASSUME NEW u \in Users, SubmitRefused(u) PROVE TypeOK'
  BY <1>15 DEF SubmitRefused, Return, Goto
<1>16. ASSUME NEW u \in Users, WaitDone(u) PROVE TypeOK'
  BY <1>16 DEF WaitDone, Goto
<1>17. ASSUME NEW u \in Users, TransferEnd(u) PROVE TypeOK'
  <2>1. dir[u] \in Directions
    OBVIOUS
  <2>2. busy' \in [Directions -> BOOLEAN]
    <3>1. busy' = busy \/ busy' = [busy EXCEPT ![dir[u]] = FALSE]
      BY <1>17 DEF TransferEnd
    <3>2. busy \in [Directions -> BOOLEAN]
      OBVIOUS
    <3> HIDE DEF TypeOK, Directions
    <3>3. QED
      BY <3>1, <3>2, <2>1
  <2>3. urb' \in [Directions -> Users \cup {None, Abandoned}]
    BY <1>17, <2>1 DEF TransferEnd, Abandon
  <2>4. QED
    BY <1>17, <2>1, <2>2, <2>3 DEF TransferEnd, Return, Goto
<1>18. ASSUME NEW u \in Users, NEW d \in Directions, Call(u, d) PROVE TypeOK'
  BY <1>18 DEF Call, Goto
<1>19. ASSUME NEW d \in Directions, Callback(d) PROVE TypeOK'
  BY <1>19 DEF Callback
<1>20. CASE Probe
  BY <1>20 DEF Probe
<1>21. CASE Unplug
  BY <1>21 DEF Unplug
<1>22. CASE ProbeAlloc
  BY <1>22 DEF ProbeAlloc
<1>23. CASE ProbeRegister
  BY <1>23 DEF ProbeRegister
<1>24. CASE ProbeReset
  BY <1>24 DEF ProbeReset
<1>25. CASE ProbeFail
  BY <1>25 DEF ProbeFail
<1>26. CASE UrbsKilled
  BY <1>26 DEF UrbsKilled
<1>27. CASE Deregister
  BY <1>27 DEF Deregister
<1>28. CASE ForgetDevice
  BY <1>28 DEF ForgetDevice
<1>29. CASE FreeIn
  BY <1>29 DEF FreeIn
<1>30. CASE FreeOut
  BY <1>30 DEF FreeOut, HubInv
<1>31. CASE UNCHANGED vars
  BY <1>31 DEF vars
<1> HIDE DEF TypeOK, Directions, OpenLabels, TransferLabels, openVars, urbVars, hubVars,
    deviceVars, userVars
<1>32. QED
  BY <1>1, <1>2, <1>3, <1>4, <1>5, <1>6, <1>7, <1>8, <1>9, <1>10, <1>11, <1>12, <1>13,
     <1>14, <1>15, <1>16, <1>17, <1>18, <1>19, <1>20, <1>21, <1>22, <1>23, <1>24, <1>25,
     <1>26, <1>27, <1>28, <1>29, <1>30, <1>31
  DEF Next, Signalled, UserStep, HubStep

\* A step keeps the account of files, releases and the count.
LEMMA OpenStep ==
    ASSUME TypeOK, OpenInv, [Next]_vars
    PROVE  OpenInv'
<1> USE UsersAssumption
    DEF TypeOK, OpenInv, Releasing, TransferLabels, openVars, urbVars, hubVars, deviceVars,
        userVars
<1>1. ASSUME NEW u \in Users, Open(u) PROVE OpenInv'
  BY <1>1 DEF Open, Goto
<1>2. ASSUME NEW u \in Users, Release(u) PROVE OpenInv'
  BY <1>2 DEF Release, Goto
<1>3. ASSUME NEW u \in Users, OpenInterrupted(u) PROVE OpenInv'
  BY <1>3 DEF OpenInterrupted, Goto
<1>4. ASSUME NEW u \in Users, LockInterrupted(u) PROVE OpenInv'
  BY <1>4 DEF LockInterrupted, Goto
<1>5. ASSUME NEW u \in Users, WaitInterrupted(u) PROVE OpenInv'
  BY <1>5 DEF WaitInterrupted, Return, Goto, Abandon
<1>6. ASSUME NEW u \in Users, OpenLock(u) PROVE OpenInv'
  BY <1>6 DEF OpenLock, Goto
<1>7. ASSUME NEW u \in Users, OpenBody(u) PROVE OpenInv'
  BY <1>7 DEF OpenBody, Goto
<1>8. ASSUME NEW u \in Users, ReleaseBody(u) PROVE OpenInv'
  BY <1>8 DEF ReleaseBody, Goto
<1>9. ASSUME NEW u \in Users, TransferLock(u) PROVE OpenInv'
  BY <1>9 DEF TransferLock, Goto
<1>10. ASSUME NEW u \in Users, CheckDevice(u) PROVE OpenInv'
  BY <1>10 DEF CheckDevice, Return, Goto
<1>11. ASSUME NEW u \in Users, Claim(u) PROVE OpenInv'
  BY <1>11 DEF Claim, Goto
<1>12. ASSUME NEW u \in Users, Fill(u) PROVE OpenInv'
  BY <1>12 DEF Fill, Goto
<1>13. ASSUME NEW u \in Users, Oops(u) PROVE OpenInv'
  BY <1>13 DEF Oops, Goto
<1>14. ASSUME NEW u \in Users, Submit(u) PROVE OpenInv'
  BY <1>14 DEF Submit, Goto
<1>15. ASSUME NEW u \in Users, SubmitRefused(u) PROVE OpenInv'
  BY <1>15 DEF SubmitRefused, Return, Goto
<1>16. ASSUME NEW u \in Users, WaitDone(u) PROVE OpenInv'
  BY <1>16 DEF WaitDone, Goto
<1>17. ASSUME NEW u \in Users, TransferEnd(u) PROVE OpenInv'
  BY <1>17 DEF TransferEnd, Return, Goto, Abandon
<1>18. ASSUME NEW u \in Users, NEW d \in Directions, Call(u, d) PROVE OpenInv'
  BY <1>18 DEF Call, Goto
<1>19. ASSUME NEW d \in Directions, Callback(d) PROVE OpenInv'
  BY <1>19 DEF Callback
<1>20. CASE Probe
  BY <1>20 DEF Probe
<1>21. CASE Unplug
  BY <1>21 DEF Unplug
<1>22. CASE ProbeAlloc
  BY <1>22 DEF ProbeAlloc
<1>23. CASE ProbeRegister
  BY <1>23 DEF ProbeRegister
<1>24. CASE ProbeReset
  BY <1>24 DEF ProbeReset
<1>25. CASE ProbeFail
  BY <1>25 DEF ProbeFail
<1>26. CASE UrbsKilled
  BY <1>26 DEF UrbsKilled
<1>27. CASE Deregister
  BY <1>27 DEF Deregister
<1>28. CASE ForgetDevice
  BY <1>28 DEF ForgetDevice
<1>29. CASE FreeIn
  BY <1>29 DEF FreeIn
<1>30. CASE FreeOut
  BY <1>30 DEF FreeOut
<1>31. CASE UNCHANGED vars
  BY <1>31 DEF vars
<1> HIDE DEF TypeOK, OpenInv, Releasing, TransferLabels, openVars, urbVars, hubVars, deviceVars,
    userVars
<1>32. QED
  BY <1>1, <1>2, <1>3, <1>4, <1>5, <1>6, <1>7, <1>8, <1>9, <1>10, <1>11, <1>12, <1>13,
     <1>14, <1>15, <1>16, <1>17, <1>18, <1>19, <1>20, <1>21, <1>22, <1>23, <1>24, <1>25,
     <1>26, <1>27, <1>28, <1>29, <1>30, <1>31
  DEF Next, Signalled, UserStep, HubStep

\* A step keeps the mutex of a direction with the transfer that locked it.
LEMMA MutexStep ==
    ASSUME TypeOK, MutexInv, [Next]_vars
    PROVE  MutexInv'
<1> USE UsersAssumption
    DEF TypeOK, MutexInv, OpenLabels, TransferLabels, openVars, urbVars, hubVars, deviceVars,
        userVars
<1>1. ASSUME NEW u \in Users, Open(u) PROVE MutexInv'
  BY <1>1 DEF Open, Goto
<1>2. ASSUME NEW u \in Users, Release(u) PROVE MutexInv'
  BY <1>2 DEF Release, Goto
<1>3. ASSUME NEW u \in Users, OpenInterrupted(u) PROVE MutexInv'
  BY <1>3 DEF OpenInterrupted, Goto
<1>4. ASSUME NEW u \in Users, LockInterrupted(u) PROVE MutexInv'
  BY <1>4 DEF LockInterrupted, Goto
<1>5. ASSUME NEW u \in Users, WaitInterrupted(u) PROVE MutexInv'
  BY <1>5 DEF WaitInterrupted, Return, Goto, Abandon
<1>6. ASSUME NEW u \in Users, OpenLock(u) PROVE MutexInv'
  BY <1>6 DEF OpenLock, Goto
<1>7. ASSUME NEW u \in Users, OpenBody(u) PROVE MutexInv'
  BY <1>7 DEF OpenBody, Goto
<1>8. ASSUME NEW u \in Users, ReleaseBody(u) PROVE MutexInv'
  BY <1>8 DEF ReleaseBody, Goto
<1>9. ASSUME NEW u \in Users, TransferLock(u) PROVE MutexInv'
  BY <1>9 DEF TransferLock, Goto
<1>10. ASSUME NEW u \in Users, CheckDevice(u) PROVE MutexInv'
  BY <1>10 DEF CheckDevice, Return, Goto
<1>11. ASSUME NEW u \in Users, Claim(u) PROVE MutexInv'
  BY <1>11 DEF Claim, Goto
<1>12. ASSUME NEW u \in Users, Fill(u) PROVE MutexInv'
  BY <1>12 DEF Fill, Goto
<1>13. ASSUME NEW u \in Users, Oops(u) PROVE MutexInv'
  BY <1>13 DEF Oops, Goto
<1>14. ASSUME NEW u \in Users, Submit(u) PROVE MutexInv'
  BY <1>14 DEF Submit, Goto
<1>15. ASSUME NEW u \in Users, SubmitRefused(u) PROVE MutexInv'
  BY <1>15 DEF SubmitRefused, Return, Goto
<1>16. ASSUME NEW u \in Users, WaitDone(u) PROVE MutexInv'
  BY <1>16 DEF WaitDone, Goto
<1>17. ASSUME NEW u \in Users, TransferEnd(u) PROVE MutexInv'
  BY <1>17 DEF TransferEnd, Return, Goto, Abandon
<1>18. ASSUME NEW u \in Users, NEW d \in Directions, Call(u, d) PROVE MutexInv'
  BY <1>18 DEF Call, Goto
<1>19. ASSUME NEW d \in Directions, Callback(d) PROVE MutexInv'
  BY <1>19 DEF Callback
<1>20. CASE Probe
  BY <1>20 DEF Probe
<1>21. CASE Unplug
  BY <1>21 DEF Unplug
<1>22. CASE ProbeAlloc
  BY <1>22 DEF ProbeAlloc
<1>23. CASE ProbeRegister
  BY <1>23 DEF ProbeRegister
<1>24. CASE ProbeReset
  BY <1>24 DEF ProbeReset
<1>25. CASE ProbeFail
  BY <1>25 DEF ProbeFail
<1>26. CASE UrbsKilled
  BY <1>26 DEF UrbsKilled
<1>27. CASE Deregister
  BY <1>27 DEF Deregister
<1>28. CASE ForgetDevice
  BY <1>28 DEF ForgetDevice
<1>29. CASE FreeIn
  BY <1>29 DEF FreeIn
<1>30. CASE FreeOut
  BY <1>30 DEF FreeOut
<1>31. CASE UNCHANGED vars
  BY <1>31 DEF vars
<1> HIDE DEF TypeOK, MutexInv, OpenLabels, TransferLabels, openVars, urbVars, hubVars, deviceVars,
    userVars
<1>32. QED
  BY <1>1, <1>2, <1>3, <1>4, <1>5, <1>6, <1>7, <1>8, <1>9, <1>10, <1>11, <1>12, <1>13,
     <1>14, <1>15, <1>16, <1>17, <1>18, <1>19, <1>20, <1>21, <1>22, <1>23, <1>24, <1>25,
     <1>26, <1>27, <1>28, <1>29, <1>30, <1>31
  DEF Next, Signalled, UserStep, HubStep

\* A step keeps a busy flag with the owner of the mutex: he clears it before he unlocks.
LEMMA BusyStep ==
    ASSUME TypeOK, MutexInv, BusyOwned, [Next]_vars
    PROVE  BusyOwned'
<1> USE UsersAssumption
    DEF TypeOK, MutexInv, BusyOwned, TransferLabels, openVars, urbVars, hubVars, deviceVars,
        userVars
<1>1. ASSUME NEW u \in Users, Open(u) PROVE BusyOwned'
  BY <1>1 DEF Open, Goto
<1>2. ASSUME NEW u \in Users, Release(u) PROVE BusyOwned'
  BY <1>2 DEF Release, Goto
<1>3. ASSUME NEW u \in Users, OpenInterrupted(u) PROVE BusyOwned'
  BY <1>3 DEF OpenInterrupted, Goto
<1>4. ASSUME NEW u \in Users, LockInterrupted(u) PROVE BusyOwned'
  BY <1>4 DEF LockInterrupted, Goto
<1>5. ASSUME NEW u \in Users, WaitInterrupted(u) PROVE BusyOwned'
  BY <1>5 DEF WaitInterrupted, Return, Goto, Abandon
<1>6. ASSUME NEW u \in Users, OpenLock(u) PROVE BusyOwned'
  BY <1>6 DEF OpenLock, Goto
<1>7. ASSUME NEW u \in Users, OpenBody(u) PROVE BusyOwned'
  BY <1>7 DEF OpenBody, Goto
<1>8. ASSUME NEW u \in Users, ReleaseBody(u) PROVE BusyOwned'
  BY <1>8 DEF ReleaseBody, Goto
<1>9. ASSUME NEW u \in Users, TransferLock(u) PROVE BusyOwned'
  BY <1>9 DEF TransferLock, Goto
<1>10. ASSUME NEW u \in Users, CheckDevice(u) PROVE BusyOwned'
  BY <1>10 DEF CheckDevice, Return, Goto
<1>11. ASSUME NEW u \in Users, Claim(u) PROVE BusyOwned'
  BY <1>11 DEF Claim, Goto
<1>12. ASSUME NEW u \in Users, Fill(u) PROVE BusyOwned'
  BY <1>12 DEF Fill, Goto
<1>13. ASSUME NEW u \in Users, Oops(u) PROVE BusyOwned'
  BY <1>13 DEF Oops, Goto
<1>14. ASSUME NEW u \in Users, Submit(u) PROVE BusyOwned'
  BY <1>14 DEF Submit, Goto
<1>15. ASSUME NEW u \in Users, SubmitRefused(u) PROVE BusyOwned'
  BY <1>15 DEF SubmitRefused, Return, Goto
<1>16. ASSUME NEW u \in Users, WaitDone(u) PROVE BusyOwned'
  BY <1>16 DEF WaitDone, Goto
<1>17. ASSUME NEW u \in Users, TransferEnd(u) PROVE BusyOwned'
  BY <1>17 DEF TransferEnd, Return, Goto, Abandon
<1>18. ASSUME NEW u \in Users, NEW d \in Directions, Call(u, d) PROVE BusyOwned'
  BY <1>18 DEF Call, Goto
<1>19. ASSUME NEW d \in Directions, Callback(d) PROVE BusyOwned'
  BY <1>19 DEF Callback
<1>20. CASE Probe
  BY <1>20 DEF Probe
<1>21. CASE Unplug
  BY <1>21 DEF Unplug
<1>22. CASE ProbeAlloc
  BY <1>22 DEF ProbeAlloc
<1>23. CASE ProbeRegister
  BY <1>23 DEF ProbeRegister
<1>24. CASE ProbeReset
  BY <1>24 DEF ProbeReset
<1>25. CASE ProbeFail
  BY <1>25 DEF ProbeFail
<1>26. CASE UrbsKilled
  BY <1>26 DEF UrbsKilled
<1>27. CASE Deregister
  BY <1>27 DEF Deregister
<1>28. CASE ForgetDevice
  BY <1>28 DEF ForgetDevice
<1>29. CASE FreeIn
  BY <1>29 DEF FreeIn
<1>30. CASE FreeOut
  BY <1>30 DEF FreeOut
<1>31. CASE UNCHANGED vars
  BY <1>31 DEF vars
<1> HIDE DEF TypeOK, MutexInv, BusyOwned, TransferLabels, openVars, urbVars, hubVars, deviceVars,
    userVars
<1>32. QED
  BY <1>1, <1>2, <1>3, <1>4, <1>5, <1>6, <1>7, <1>8, <1>9, <1>10, <1>11, <1>12, <1>13,
     <1>14, <1>15, <1>16, <1>17, <1>18, <1>19, <1>20, <1>21, <1>22, <1>23, <1>24, <1>25,
     <1>26, <1>27, <1>28, <1>29, <1>30, <1>31
  DEF Next, Signalled, UserStep, HubStep

\* A step leaves a transfer's URB in flight, or completes it: no other URB gets in between.
LEMMA UrbStep ==
    ASSUME TypeOK, MutexInv, UrbInv, [Next]_vars
    PROVE  UrbInv'
<1> USE UsersAssumption
    DEF TypeOK, MutexInv, UrbInv, TransferLabels, openVars, urbVars, hubVars, deviceVars, userVars
<1>1. ASSUME NEW u \in Users, Open(u) PROVE UrbInv'
  BY <1>1 DEF Open, Goto
<1>2. ASSUME NEW u \in Users, Release(u) PROVE UrbInv'
  BY <1>2 DEF Release, Goto
<1>3. ASSUME NEW u \in Users, OpenInterrupted(u) PROVE UrbInv'
  BY <1>3 DEF OpenInterrupted, Goto
<1>4. ASSUME NEW u \in Users, LockInterrupted(u) PROVE UrbInv'
  BY <1>4 DEF LockInterrupted, Goto
<1>5. ASSUME NEW u \in Users, WaitInterrupted(u) PROVE UrbInv'
  BY <1>5 DEF WaitInterrupted, Return, Goto, Abandon
<1>6. ASSUME NEW u \in Users, OpenLock(u) PROVE UrbInv'
  BY <1>6 DEF OpenLock, Goto
<1>7. ASSUME NEW u \in Users, OpenBody(u) PROVE UrbInv'
  BY <1>7 DEF OpenBody, Goto
<1>8. ASSUME NEW u \in Users, ReleaseBody(u) PROVE UrbInv'
  BY <1>8 DEF ReleaseBody, Goto
<1>9. ASSUME NEW u \in Users, TransferLock(u) PROVE UrbInv'
  BY <1>9 DEF TransferLock, Goto
<1>10. ASSUME NEW u \in Users, CheckDevice(u) PROVE UrbInv'
  BY <1>10 DEF CheckDevice, Return, Goto
<1>11. ASSUME NEW u \in Users, Claim(u) PROVE UrbInv'
  BY <1>11 DEF Claim, Goto
<1>12. ASSUME NEW u \in Users, Fill(u) PROVE UrbInv'
  BY <1>12 DEF Fill, Goto
<1>13. ASSUME NEW u \in Users, Oops(u) PROVE UrbInv'
  BY <1>13 DEF Oops, Goto
<1>14. ASSUME NEW u \in Users, Submit(u) PROVE UrbInv'
  BY <1>14 DEF Submit, Goto
<1>15. ASSUME NEW u \in Users, SubmitRefused(u) PROVE UrbInv'
  BY <1>15 DEF SubmitRefused, Return, Goto
<1>16. ASSUME NEW u \in Users, WaitDone(u) PROVE UrbInv'
  BY <1>16 DEF WaitDone, Goto
<1>17. ASSUME NEW u \in Users, TransferEnd(u) PROVE UrbInv'
  BY <1>17 DEF TransferEnd, Return, Goto, Abandon
<1>18. ASSUME NEW u \in Users, NEW d \in Directions, Call(u, d) PROVE UrbInv'
  BY <1>18 DEF Call, Goto
<1>19. ASSUME NEW d \in Directions, Callback(d) PROVE UrbInv'
  BY <1>19 DEF Callback
<1>20. CASE Probe
  BY <1>20 DEF Probe
<1>21. CASE Unplug
  BY <1>21 DEF Unplug
<1>22. CASE ProbeAlloc
  BY <1>22 DEF ProbeAlloc
<1>23. CASE ProbeRegister
  BY <1>23 DEF ProbeRegister
<1>24. CASE ProbeReset
  BY <1>24 DEF ProbeReset
<1>25. CASE ProbeFail
  BY <1>25 DEF ProbeFail
<1>26. CASE UrbsKilled
  BY <1>26 DEF UrbsKilled
<1>27. CASE Deregister
  BY <1>27 DEF Deregister
<1>28. CASE ForgetDevice
  BY <1>28 DEF ForgetDevice
<1>29. CASE FreeIn
  BY <1>29 DEF FreeIn
<1>30. CASE FreeOut
  BY <1>30 DEF FreeOut
<1>31. CASE UNCHANGED vars
  BY <1>31 DEF vars
<1> HIDE DEF TypeOK, MutexInv, UrbInv, TransferLabels, openVars, urbVars, hubVars, deviceVars,
    userVars
<1>32. QED
  BY <1>1, <1>2, <1>3, <1>4, <1>5, <1>6, <1>7, <1>8, <1>9, <1>10, <1>11, <1>12, <1>13,
     <1>14, <1>15, <1>16, <1>17, <1>18, <1>19, <1>20, <1>21, <1>22, <1>23, <1>24, <1>25,
     <1>26, <1>27, <1>28, <1>29, <1>30, <1>31
  DEF Next, Signalled, UserStep, HubStep

\* A step keeps what disconnect() relies on: endpoints disabled, then no URB in flight.
LEMMA HubStage ==
    ASSUME TypeOK, HubInv, [Next]_vars
    PROVE  HubInv'
<1> USE UsersAssumption
    DEF TypeOK, HubInv, Directions, openVars, urbVars, hubVars, deviceVars, userVars
<1>1. ASSUME NEW u \in Users, Open(u) PROVE HubInv'
  BY <1>1 DEF Open, Goto
<1>2. ASSUME NEW u \in Users, Release(u) PROVE HubInv'
  BY <1>2 DEF Release, Goto
<1>3. ASSUME NEW u \in Users, OpenInterrupted(u) PROVE HubInv'
  BY <1>3 DEF OpenInterrupted, Goto
<1>4. ASSUME NEW u \in Users, LockInterrupted(u) PROVE HubInv'
  BY <1>4 DEF LockInterrupted, Goto
<1>5. ASSUME NEW u \in Users, WaitInterrupted(u) PROVE HubInv'
  BY <1>5 DEF WaitInterrupted, Return, Goto, Abandon
<1>6. ASSUME NEW u \in Users, OpenLock(u) PROVE HubInv'
  BY <1>6 DEF OpenLock, Goto
<1>7. ASSUME NEW u \in Users, OpenBody(u) PROVE HubInv'
  BY <1>7 DEF OpenBody, Goto
<1>8. ASSUME NEW u \in Users, ReleaseBody(u) PROVE HubInv'
  BY <1>8 DEF ReleaseBody, Goto
<1>9. ASSUME NEW u \in Users, TransferLock(u) PROVE HubInv'
  BY <1>9 DEF TransferLock, Goto
<1>10. ASSUME NEW u \in Users, CheckDevice(u) PROVE HubInv'
  BY <1>10 DEF CheckDevice, Return, Goto
<1>11. ASSUME NEW u \in Users, Claim(u) PROVE HubInv'
  BY <1>11 DEF Claim, Goto
<1>12. ASSUME NEW u \in Users, Fill(u) PROVE HubInv'
  BY <1>12 DEF Fill, Goto
<1>13. ASSUME NEW u \in Users, Oops(u) PROVE HubInv'
  BY <1>13 DEF Oops, Goto
<1>14. ASSUME NEW u \in Users, Submit(u) PROVE HubInv'
  BY <1>14 DEF Submit, Goto
<1>15. ASSUME NEW u \in Users, SubmitRefused(u) PROVE HubInv'
  BY <1>15 DEF SubmitRefused, Return, Goto
<1>16. ASSUME NEW u \in Users, WaitDone(u) PROVE HubInv'
  BY <1>16 DEF WaitDone, Goto
<1>17. ASSUME NEW u \in Users, TransferEnd(u) PROVE HubInv'
  BY <1>17 DEF TransferEnd, Return, Goto, Abandon
<1>18. ASSUME NEW u \in Users, NEW d \in Directions, Call(u, d) PROVE HubInv'
  BY <1>18 DEF Call, Goto
<1>19. ASSUME NEW d \in Directions, Callback(d) PROVE HubInv'
  BY <1>19 DEF Callback
<1>20. CASE Probe
  BY <1>20 DEF Probe
<1>21. CASE Unplug
  BY <1>21 DEF Unplug
<1>22. CASE ProbeAlloc
  BY <1>22 DEF ProbeAlloc
<1>23. CASE ProbeRegister
  BY <1>23 DEF ProbeRegister
<1>24. CASE ProbeReset
  BY <1>24 DEF ProbeReset
<1>25. CASE ProbeFail
  BY <1>25 DEF ProbeFail
<1>26. CASE UrbsKilled
  BY <1>26 DEF UrbsKilled
<1>27. CASE Deregister
  BY <1>27 DEF Deregister
<1>28. CASE ForgetDevice
  BY <1>28 DEF ForgetDevice
<1>29. CASE FreeIn
  BY <1>29 DEF FreeIn
<1>30. CASE FreeOut
  BY <1>30 DEF FreeOut
<1>31. CASE UNCHANGED vars
  BY <1>31 DEF vars
<1> HIDE DEF TypeOK, HubInv, Directions, openVars, urbVars, hubVars, deviceVars, userVars
<1>32. QED
  BY <1>1, <1>2, <1>3, <1>4, <1>5, <1>6, <1>7, <1>8, <1>9, <1>10, <1>11, <1>12, <1>13,
     <1>14, <1>15, <1>16, <1>17, <1>18, <1>19, <1>20, <1>21, <1>22, <1>23, <1>24, <1>25,
     <1>26, <1>27, <1>28, <1>29, <1>30, <1>31
  DEF Next, Signalled, UserStep, HubStep

-----------------------------------------------------------------------------
\* Every reachable state satisfies the inductive invariant.
THEOREM Invariance == Spec => []Inv
<1>1. Inv /\ [Next]_vars => Inv'
  BY TypeStep, OpenStep, MutexStep, BusyStep, UrbStep, HubStage DEF Inv
<1>2. QED
  BY InitInv, <1>1, PTL DEF Spec

\* Every variable keeps its type: example_open_count neither underflows nor passes 1.
THEOREM TypeCorrect == Spec => []TypeOK
<1>1. Inv => TypeOK
  BY DEF Inv
<1>2. QED
  BY Invariance, <1>1, PTL

\* A busy flag is set by the transfer that holds the mutex of its direction, or not at all.
THEOREM TransfersOwnBusy == Spec => []BusyOwned
<1>1. Inv => BusyOwned
  BY DEF Inv
<1>2. QED
  BY Invariance, <1>1, PTL

\* There is at most one file, or one release() of a file, at any time.
THEOREM OneFileAtATime == Spec => []SingleOpen
<1>1. Inv => SingleOpen
  <2> SUFFICES ASSUME Inv PROVE SingleOpen
    OBVIOUS
  <2> DEFINE R == {u \in Users : Releasing(u)}
  <2>1. CASE R = {}
    <3>1. Cardinality(R) = 0
      BY <2>1, FS_EmptySet
    <3>2. QED
      BY <3>1 DEF Inv, TypeOK, SingleOpen, Releasing
  <2>2. CASE R # {}
    <3>1. PICK u \in Users : R = {u}
      BY <2>2 DEF Inv, OpenInv
    <3>2. files = 0
      BY <3>1 DEF Inv, TypeOK, OpenInv
    <3>3. Cardinality(R) = 1
      BY <3>1, FS_Singleton
    <3>4. QED
      BY <3>2, <3>3 DEF SingleOpen, Releasing
  <2>3. QED
    BY <2>1, <2>2
<1>2. QED
  BY Invariance, <1>1, PTL

\* A call that reports success reports the completion of its own URB.
THEOREM SuccessIsOwn == Spec => []OwnTransfer
<1>1. Inv => OwnTransfer
  BY DEF Inv, UrbInv, OwnTransfer
<1>2. QED
  BY Invariance, <1>1, PTL

\* disconnect() frees the resources of a direction after its last URB came back, while no
\* call is between its NULL test and its return.
THEOREM FreedWhenIdle == Spec => DisconnectFreesIdle
<1> DEFINE Idle ==
        \A d \in allocated \ allocated' : hub \in {"freein", "freeout"} =>
            /\ urb[d] = None
            /\ \A u \in Users : dir[u] = d => pc[u] \notin TransferLabels \ {"lock"}
<1>1. Inv /\ [Next]_vars => [Idle]_vars
  <2> SUFFICES ASSUME Inv, [Next]_vars, NEW d \in allocated \ allocated',
                      hub \in {"freein", "freeout"}
               PROVE  /\ urb[d] = None
                      /\ \A u \in Users : dir[u] = d => pc[u] \notin TransferLabels \ {"lock"}
    OBVIOUS
  <2>1. d \in Directions
    BY DEF Inv, TypeOK, Directions
  <2>2. urb[d] = None
    BY <2>1 DEF Inv, HubInv
  <2>3. mtx[d] = None
    <3>1. FreeIn \/ FreeOut
      BY DEF Next, Signalled, UserStep, HubStep, vars, deviceVars, hubVars, Open, Release,
         OpenInterrupted, LockInterrupted, WaitInterrupted, OpenLock, OpenBody, ReleaseBody,
         TransferLock, CheckDevice, Claim, Fill, Oops, Submit, SubmitRefused, WaitDone,
         TransferEnd, Call, Callback, Probe, Unplug, ProbeAlloc, ProbeRegister, ProbeReset,
         ProbeFail, UrbsKilled, Deregister, ForgetDevice
    <3>2. QED
      BY <3>1 DEF FreeIn, FreeOut
  <2>4. ASSUME NEW u \in Users, dir[u] = d, pc[u] \in TransferLabels \ {"lock"}
        PROVE  FALSE
    BY <2>3, <2>4, UsersAssumption DEF Inv, MutexInv
  <2>5. QED
    BY <2>2, <2>4
<1>2. QED
  BY Invariance, <1>1, PTL DEF Spec, DisconnectFreesIdle
=============================================================================
