---------------------------- MODULE NetPairProofs ----------------------------
(***************************************************************************)
(* Proofs about NetPair, for any lengths of frames, any buffer at least as *)
(* long as the shortest frame and any number of packets.                   *)
(*                                                                         *)
(* The inductive invariant Inv says what insmod and rmmod hold (LoadInv),  *)
(* that only registered devices transmit (LinkInv), what start_xmit() has  *)
(* done with its packet (PacketInv), that the private data of the peer     *)
(* holds it when the peer takes it (DataInv), and, for the order of        *)
(* delivery and the counters, what has come and gone (OrderInv, FreedInv,  *)
(* CountInv).                                                              *)
(***************************************************************************)
EXTENDS NetPair, TLAPS

\* What insmod and rmmod hold at each point.  A device that was freed may still have its pointer.
LoadInv ==
    /\ core = "absent" => allocated = {} /\ pointer = {}
    /\ core \in {"reg0", "alloc1"} => allocated = {0} /\ pointer = {0}
    /\ core \in {"reg1", "live", "wait1", "free1"} => allocated = Devices /\ pointer = Devices
    /\ core = "null1" => allocated = {0} /\ pointer = Devices
    /\ core \in {"unreg0", "wait0", "free0"} => allocated = {0} /\ 0 \in pointer
    /\ core \in {"absent", "reg0", "wait0", "free0"} => registered = {}
    /\ core \in {"alloc1", "reg1", "wait1", "free1", "null1", "unreg0"} => registered = {0}
    /\ core = "live" => registered = Devices

\* A device that is up has its address, and one that transmits is registered.
LinkInv ==
    \A d \in Devices :
        /\ dev_addr[d] \in {d, 2}
        /\ d \in up => dev_addr[d] = d
        /\ pc[d] # "idle" => d \in registered

Entered == {"choose", "check", "store", "rewrite", "copy", "receive", "count", "free", "oops"}
Accepted == Entered \ {"choose", "check"}
Stored == Accepted \ {"store"}
Rewritten == Stored \ {"rewrite"}

\* What start_xmit() has done with its packet at each statement.
PacketOf(s) ==
    /\ pc[s] = "idle" => packet[s] = Nothing
    /\ pc[s] \in Entered => /\ packet[s] \in Packets
                            /\ packet[s].id \in DOMAIN sent
                            /\ packet[s].dest = Peer(s)
    /\ pc[s] \in Entered \ Accepted => packet[s].length = sent[packet[s].id].length
    /\ pc[s] \in Accepted => /\ packet[s].length = Padded(sent[packet[s].id].length)
                             /\ ~ TooLong(packet[s].length)
    /\ pc[s] \in Stored => sk_b[s] = packet[s].id
    /\ pc[s] \in Rewritten => packet[s].addresses = "rewritten"

PacketInv ==
    \A s \in Devices : /\ PacketOf(s)
                       /\ packet[s].id = packet[Peer(s)].id => pc[s] = "idle"

\* The packet is in the private data of the peer when the peer takes it: the private data is not
\* allocated meanwhile.
DataInv ==
    /\ \A s \in Devices : pc[s] = "receive" => data[Peer(s)] = packet[s]
    /\ core = "alloc1" => /\ pc[0] \in Entered \ {"choose"} => ~ dst[0]
                          /\ pc[0] \notin {"receive", "count", "free"}

\* What comes next was sent after all that has come.
OrderInv ==
    \A s \in Devices : pc[s] \in Entered \ {"count", "free", "oops"} =>
        \A i \in DOMAIN received[Peer(s)] : received[Peer(s)][i].id < packet[s].id

\* FreedOnce, and no packet is freed before it is sent.
InFlight(i) == \E s \in Devices : packet[s].id = i

FreedInv ==
    \A i \in 1 .. MaxPackets :
        /\ i > Len(sent) => freed[i] = 0
        /\ InFlight(i) => freed[i] = 0
        /\ i <= Len(sent) /\ TooLong(Padded(sent[i].length)) => freed[i] = 0
        /\ i <= Len(sent) /\ ~ TooLong(Padded(sent[i].length)) => InFlight(i) \/ freed[i] = 1

\* Nothing is counted before the second device exists.
CountInv == core \in {"reg0", "alloc1"} => tx[0] = Zero /\ rx[0] = Zero /\ missed[0] = Zero

Inv ==
    /\ TypeOK /\ LoadInv /\ LinkInv /\ PacketInv /\ DataInv /\ OrderInv
    /\ FreedInv /\ DeliveredIntact /\ CountInv /\ CountersAgree

\* TypeOK in parts.
LoadTypes ==
    /\ core \in {"absent", "reg0", "alloc1", "reg1", "live", "wait1", "free1", "null1",
                 "unreg0", "wait0", "free0"}
    /\ allocated \subseteq Devices /\ pointer \subseteq Devices
    /\ registered \subseteq allocated /\ up \subseteq registered
    /\ grace \subseteq Devices

XmitTypes ==
    /\ pc \in [Devices -> Entered \cup {"idle"}]
    /\ dst \in [Devices -> BOOLEAN]
    /\ packet \in [Devices -> Packets \cup {Nothing}]

PrivTypes ==
    /\ dev_addr \in [Devices -> 0 .. 2]
    /\ sk_b \in [Devices -> 0 .. MaxPackets]
    /\ data \in [Devices -> Packets \cup {Nothing}]
    /\ \A d \in Devices : data[d] # Nothing => data[d].length \in ETH_ZLEN .. ETH_DATA_LEN

CountTypes ==
    rx \in [Devices -> Counters] /\ tx \in [Devices -> Counters] /\ missed \in [Devices -> Counters]

HistoryTypes ==
    /\ sent \in Seq(Packets) /\ Len(sent) <= MaxPackets
    /\ freed \in [1 .. MaxPackets -> Nat]
    /\ received \in [Devices -> Seq(Packets)]
-----------------------------------------------------------------------------
\* TypeOK is the conjunction of its parts.
LEMMA TypeParts ==
    TypeOK <=> LoadTypes /\ XmitTypes /\ PrivTypes /\ CountTypes /\ HistoryTypes
<1>1. {rx, tx, missed} \subseteq [Devices -> Counters] <=> CountTypes
  BY DEF CountTypes
<1>2. {"idle", "choose", "check", "store", "rewrite", "copy", "receive", "count", "free", "oops"}
          = Entered \cup {"idle"}
  BY DEF Entered
<1>3. QED
  BY <1>1, <1>2 DEF TypeOK, LoadTypes, XmitTypes, PrivTypes, HistoryTypes

LinkStep == \E d \in Devices : Ifup(d) \/ Ifdown(d)

SendStep(s) == XmitStep(s) \/ \E length \in Lengths : Send(s, length)

\* A step loads or unloads, brings a device up or down, or is one of a transmission.
LEMMA StepCases ==
    ASSUME [Next]_vars
    PROVE  LoadStep \/ LinkStep \/ (\E s \in Devices : SendStep(s)) \/ UNCHANGED vars
  BY DEF Next, LinkStep, SendStep

\* There are two devices, each the peer of the other.
LEMMA PeerFacts ==
    /\ \A d \in Devices : Peer(d) \in Devices /\ Peer(d) # d /\ Peer(Peer(d)) = d
    /\ \A d, e \in Devices : d # e => e = Peer(d)
    /\ Peer(0) = 1 /\ Peer(1) = 0 /\ 0 \in Devices /\ 1 \in Devices
  BY DEF Peer, Devices

\* insmod and rmmod leave transmissions alone, and the private data and the counters of a device but
\* for the one that they allocate.
LEMMA LoadFrame ==
    ASSUME PrivTypes, CountTypes, LoadStep
    PROVE  /\ UNCHANGED <<pc, dst, packet, historyVars>>
           /\ \A d \in {0, 1} : ~ (d = 0 /\ core = "absent") /\ ~ (d = 1 /\ core = "alloc1") =>
                  UNCHANGED <<sk_b[d], data[d], rx[d], tx[d], missed[d], dev_addr[d]>>
<1> USE DEF PrivTypes, CountTypes, Devices, xmitVars, countVars, historyVars, linkVars, Stay,
    Allocate, Register, Free, Unregister, Unregistered
<1>1. CASE InitAllocate0
  BY <1>1 DEF InitAllocate0
<1>2. CASE InitRegister0
  BY <1>2 DEF InitRegister0
<1>3. CASE InitAllocate1
  BY <1>3 DEF InitAllocate1
<1>4. CASE InitRegister1
  BY <1>4 DEF InitRegister1
<1>5. CASE Exit
  BY <1>5 DEF Exit
<1>6. QED
  BY <1>1, <1>2, <1>3, <1>4, <1>5 DEF LoadStep

\* Bringing a device up or down touches nothing else.
LEMMA LinkFrame ==
    ASSUME LinkStep
    PROVE  UNCHANGED <<loadVars, xmitVars, countVars, historyVars>>
  BY DEF LinkStep, Ifup, Ifdown

\* A transmission leaves the devices alone, and the other one's transmission.
LEMMA SendFrame ==
    ASSUME XmitTypes, PrivTypes, NEW s \in Devices, SendStep(s)
    PROVE  /\ UNCHANGED <<core, allocated, pointer, registered, linkVars>>
           /\ \A d \in Devices : d # s =>
                  UNCHANGED <<pc[d], dst[d], packet[d], sk_b[d]>>
<1> USE DEF XmitTypes, PrivTypes, Goto, historyVars, countVars
<1>1. ASSUME NEW length \in Lengths, Send(s, length)
      PROVE  /\ UNCHANGED <<core, allocated, pointer, registered, linkVars>>
             /\ \A d \in Devices : d # s =>
                    UNCHANGED <<pc[d], dst[d], packet[d], sk_b[d]>>
  BY <1>1 DEF Send
<1>2. CASE ChooseDst(s)
  BY <1>2 DEF ChooseDst
<1>3. CASE CheckLength(s)
  BY <1>3 DEF CheckLength
<1>4. CASE StoreSkb(s)
  BY <1>4 DEF StoreSkb
<1>5. CASE Rewrite(s)
  BY <1>5 DEF Rewrite
<1>6. CASE CopyData(s)
  BY <1>6 DEF CopyData
<1>7. CASE \E alloc \in BOOLEAN : Receive(s, alloc)
  BY <1>7 DEF Receive
<1>8. CASE CountSent(s)
  BY <1>8 DEF CountSent
<1>9. CASE FreeSkb(s)
  BY <1>9 DEF FreeSkb
<1>10. CASE Oops(s)
  BY <1>10 DEF Oops
<1>11. QED
  BY <1>1, <1>2, <1>3, <1>4, <1>5, <1>6, <1>7, <1>8, <1>9, <1>10 DEF SendStep, XmitStep

\* How a step of a transmission changes the packets there are: one is sent, none changes, one is
\* refused, or one is freed.
Begins(s) ==
    /\ pc[s] = "idle" /\ Len(sent) < MaxPackets
    /\ \E p \in Packets : /\ p.id = Len(sent) + 1
                          /\ sent' = Append(sent, p) /\ packet'[s] = p
    /\ UNCHANGED <<freed, received>>

GoesOn(s) ==
    /\ pc[s] \in Entered
    /\ packet'[s].id = packet[s].id
    /\ UNCHANGED <<sent, freed>>

Refused(s) ==
    /\ pc[s] \in Entered \ Accepted /\ TooLong(Padded(packet[s].length))
    /\ packet'[s] = Nothing
    /\ UNCHANGED <<sent, freed, received>>

Freed(s) ==
    /\ pc[s] \in Stored
    /\ packet'[s] = Nothing
    /\ freed' = [freed EXCEPT ![packet[s].id] = @ + 1]
    /\ UNCHANGED <<sent, received>>

LEMMA PacketCases ==
    ASSUME XmitTypes, PrivTypes, HistoryTypes, LinkInv, PacketInv, LoadInv,
           NEW s \in Devices, SendStep(s)
    PROVE  Begins(s) \/ GoesOn(s) \/ Refused(s) \/ Freed(s)
<1> USE DEF XmitTypes, Goto, historyVars
<1>1. ASSUME NEW length \in Lengths, Send(s, length) PROVE Begins(s)
  <2> DEFINE p == [id |-> Len(sent) + 1, dest |-> HardHeader(s), length |-> length,
                   addresses |-> "sent"]
  <2>1. /\ pc[s] = "idle" /\ Len(sent) < MaxPackets
        /\ sent' = Append(sent, p) /\ packet'[s] = p
        /\ UNCHANGED <<freed, received>>
    BY <1>1 DEF Send
  <2>2. p \in Packets
    <3>1. Len(sent) + 1 \in 1 .. MaxPackets
      BY <2>1, PacketAssumption DEF HistoryTypes
    <3>2. HardHeader(s) \in Devices /\ length \in Nat
      BY LengthAssumption DEF HardHeader, Devices
    <3>3. QED
      BY <3>1, <3>2 DEF Packets
  <2>3. p.id = Len(sent) + 1
    OBVIOUS
  <2> HIDE DEF p
  <2>4. QED
    BY <2>1, <2>2, <2>3 DEF Begins
<1>2. CASE ChooseDst(s)
  BY <1>2 DEF ChooseDst, GoesOn, Entered
<1>3. CASE CheckLength(s)
  <2>1. pc[s] = "check" /\ UNCHANGED <<sent, freed, received>>
    BY <1>3 DEF CheckLength
  <2>2. packet[s] \in Packets
    BY <2>1 DEF PacketInv, PacketOf, Entered
  <2>3. CASE TooLong(Padded(packet[s].length))
    <3>1. packet'[s] = Nothing
      BY <1>3, <2>3 DEF CheckLength
    <3>2. QED
      BY <2>1, <2>3, <3>1 DEF Refused, Entered, Accepted
  <2>4. CASE ~ TooLong(Padded(packet[s].length))
    <3>1. packet'[s].id = packet[s].id
      BY <1>3, <2>2, <2>4 DEF CheckLength, Packets
    <3>2. QED
      BY <2>1, <3>1 DEF GoesOn, Entered
  <2>5. QED
    BY <2>3, <2>4
<1>4. CASE StoreSkb(s)
  BY <1>4 DEF StoreSkb, GoesOn, Entered
<1>5. CASE Rewrite(s)
  <2>1. pc[s] = "rewrite" /\ UNCHANGED <<sent, freed>>
    BY <1>5 DEF Rewrite
  <2>2. packet[s] \in Packets
    BY <2>1 DEF PacketInv, PacketOf, Entered
  <2>3. packet'[s].id = packet[s].id
    BY <1>5, <2>2 DEF Rewrite, Packets
  <2>4. QED
    BY <2>1, <2>3 DEF GoesOn, Entered
<1>6. CASE CopyData(s)
  BY <1>6 DEF CopyData, GoesOn, Entered
<1>7. CASE \E alloc \in BOOLEAN : Receive(s, alloc)
  BY <1>7 DEF Receive, GoesOn, Entered
<1>8. CASE CountSent(s)
  BY <1>8 DEF CountSent, GoesOn, Entered
<1>9. CASE FreeSkb(s)
  <2>1. pc[s] = "free" /\ UNCHANGED <<sent, received>> /\ packet'[s] = Nothing
    BY <1>9 DEF FreeSkb
  <2>2. sk_b[s] = packet[s].id /\ packet[s].id # 0
    BY <2>1 DEF PacketInv, PacketOf, Entered, Accepted, Stored, Packets
  <2>3. freed' = [freed EXCEPT ![packet[s].id] = @ + 1]
    BY <1>9, <2>2 DEF FreeSkb
  <2>4. QED
    BY <2>1, <2>3 DEF Freed, Entered, Accepted, Stored
<1>10. CASE Oops(s)
  BY <1>10 DEF Oops, GoesOn, Entered
<1>11. QED
  BY <1>1, <1>2, <1>3, <1>4, <1>5, <1>6, <1>7, <1>8, <1>9, <1>10 DEF SendStep, XmitStep

\* The initial state, the module not loaded, satisfies the invariant.
LEMMA InitInv == Init => Inv
<1> SUFFICES ASSUME Init PROVE Inv
  OBVIOUS
<1> USE PacketAssumption DEF Init
<1>1. TypeOK
  BY DEF TypeOK, Devices, Counters, Zero, Nothing
<1>2. LoadInv /\ LinkInv /\ PacketInv /\ DataInv /\ OrderInv
  BY PeerFacts DEF LoadInv, LinkInv, PacketInv, PacketOf, DataInv, OrderInv, Entered,
     Accepted, Stored, Rewritten
<1>3. FreedInv
  <2>1. \A i : ~ InFlight(i) \/ i = 0
    BY DEF InFlight, Nothing
  <2>2. QED
    BY <2>1 DEF FreedInv
<1>4. DeliveredIntact /\ CountInv /\ CountersAgree
  BY DEF DeliveredIntact, CountInv, CountersAgree
<1> QED
  BY <1>1, <1>2, <1>3, <1>4 DEF Inv

\* A device without a packet does not transmit.
LEMMA BusyHasPacket ==
    ASSUME XmitTypes, PacketInv, NEW d \in Devices, packet[d].id = 0
    PROVE  pc[d] = "idle"
<1>1. CASE pc[d] \in Entered
  <2>1. packet[d] \in Packets
    BY <1>1 DEF PacketInv, PacketOf
  <2>2. packet[d].id \in 1 .. MaxPackets
    BY <2>1 DEF Packets
  <2>3. QED
    BY <2>2
<1>2. QED
  BY <1>1 DEF XmitTypes

\* A step keeps what insmod and rmmod hold.
LEMMA LoadInvStep ==
    ASSUME LoadTypes, XmitTypes, PrivTypes, LoadInv, [Next]_vars
    PROVE  LoadInv'
<1> USE DEF LoadTypes, LoadInv, Devices, loadVars
<1>1. CASE InitAllocate0
  BY <1>1 DEF InitAllocate0, Allocate
<1>2. CASE InitRegister0
  BY <1>2 DEF InitRegister0, Register, Stay
<1>3. CASE InitAllocate1
  BY <1>3 DEF InitAllocate1, Allocate, Stay
<1>4. CASE InitRegister1
  BY <1>4 DEF InitRegister1, Register, Free
<1>5. CASE Exit
  <2>1. CASE core = "live" /\ core' = "wait1" /\ Unregister(1)
    BY <2>1 DEF Unregister
  <2>2. CASE core = "wait1" /\ core' = "free1" /\ Unregistered
    BY <2>2 DEF Unregistered, Stay
  <2>3. CASE core = "free1" /\ core' = "null1" /\ Free(1)
    BY <2>3 DEF Free
  <2>4. CASE /\ core = "null1" /\ core' = "unreg0"
             /\ pointer' = pointer \ {1} /\ UNCHANGED <<allocated, registered>>
    BY <2>4
  <2>5. CASE core = "unreg0" /\ core' = "wait0" /\ Unregister(0)
    BY <2>5 DEF Unregister
  <2>6. CASE core = "wait0" /\ core' = "free0" /\ Unregistered
    BY <2>6 DEF Unregistered, Stay
  <2>7. CASE /\ core = "free0" /\ core' = "absent"
             /\ allocated' = allocated \ {0} /\ pointer' = {} /\ UNCHANGED registered
    BY <2>7
  <2>8. QED
    BY <1>5, <2>1, <2>2, <2>3, <2>4, <2>5, <2>6, <2>7 DEF Exit
<1>6. CASE LinkStep
  BY <1>6, LinkFrame
<1>7. ASSUME NEW s \in Devices, SendStep(s) PROVE LoadInv'
  BY <1>7, SendFrame
<1>8. CASE UNCHANGED vars
  BY <1>8 DEF vars
<1>9. QED
  BY <1>1, <1>2, <1>3, <1>4, <1>5, <1>6, <1>7, <1>8, StepCases
  DEF LoadStep

\* A step lets no device transmit that is not registered.
LEMMA LinkInvStep ==
    ASSUME LoadTypes, XmitTypes, PrivTypes, LoadInv, LinkInv, [Next]_vars
    PROVE  LinkInv'
<1> USE PeerFacts DEF LoadTypes, XmitTypes, PrivTypes, LoadInv, LinkInv, Devices, loadVars,
    linkVars, xmitVars
<1>1. CASE InitAllocate0
  BY <1>1 DEF InitAllocate0, Allocate
<1>2. CASE InitRegister0
  BY <1>2 DEF InitRegister0, Register, Stay
<1>3. CASE InitAllocate1
  BY <1>3 DEF InitAllocate1, Allocate, Stay
<1>4. CASE InitRegister1
  BY <1>4 DEF InitRegister1, Register, Free
<1>5. CASE Exit
  BY <1>5 DEF Exit, Unregister, Unregistered, Free, Stay
<1>6. ASSUME NEW d \in Devices, Ifup(d) PROVE LinkInv'
  BY <1>6 DEF Ifup
<1>7. ASSUME NEW d \in Devices, Ifdown(d) PROVE LinkInv'
  BY <1>7 DEF Ifdown
<1>8. ASSUME NEW s \in Devices, NEW length \in Lengths, Send(s, length) PROVE LinkInv'
  BY <1>8 DEF Send, Goto, HardHeader
<1>9. ASSUME NEW s \in Devices, ChooseDst(s) PROVE LinkInv'
  BY <1>9 DEF ChooseDst, Goto
<1>10. ASSUME NEW s \in Devices, CheckLength(s) PROVE LinkInv'
  BY <1>10 DEF CheckLength, Goto
<1>11. ASSUME NEW s \in Devices, StoreSkb(s) PROVE LinkInv'
  BY <1>11 DEF StoreSkb, Goto
<1>12. ASSUME NEW s \in Devices, Rewrite(s) PROVE LinkInv'
  BY <1>12 DEF Rewrite, Goto
<1>13. ASSUME NEW s \in Devices, CopyData(s) PROVE LinkInv'
  BY <1>13 DEF CopyData, Goto
<1>14. ASSUME NEW s \in Devices, NEW alloc \in BOOLEAN, Receive(s, alloc) PROVE LinkInv'
  BY <1>14 DEF Receive, Goto
<1>15. ASSUME NEW s \in Devices, CountSent(s) PROVE LinkInv'
  BY <1>15 DEF CountSent, Goto
<1>16. ASSUME NEW s \in Devices, FreeSkb(s) PROVE LinkInv'
  BY <1>16 DEF FreeSkb, Goto
<1>17. ASSUME NEW s \in Devices, Oops(s) PROVE LinkInv'
  BY <1>17 DEF Oops, Goto
<1>18. CASE UNCHANGED vars
  BY <1>18 DEF vars
<1> HIDE DEF LoadTypes, XmitTypes, PrivTypes, LoadInv, LinkInv, Devices, loadVars, linkVars,
    xmitVars
<1>19. QED
  BY <1>1, <1>2, <1>3, <1>4, <1>5, <1>6, <1>7, <1>8, <1>9, <1>10, <1>11, <1>12, <1>13,
     <1>14, <1>15, <1>16, <1>17, <1>18, StepCases
  DEF LoadStep, LinkStep, XmitStep, SendStep

\* A step that leaves the packets alone, and passes no statement that was to change one.
LEMMA PacketKept ==
    ASSUME XmitTypes, PrivTypes, PacketInv, NEW s \in Devices,
           UNCHANGED <<packet, sent>>,
           pc[s] \in Entered, pc'[s] \in Entered, pc'[s] \in Accepted <=> pc[s] \in Accepted,
           pc'[s] \in Stored => sk_b'[s] = packet[s].id,
           pc'[s] \in Rewritten => pc[s] \in Rewritten,
           \A d \in Devices : d # s => pc'[d] = pc[d] /\ sk_b'[d] = sk_b[d]
    PROVE  PacketInv'
<1>1. pc[s] # "idle" /\ pc'[s] # "idle"
  BY DEF Entered
<1>2. ASSUME NEW d \in Devices PROVE PacketOf(d)'
  <2>1. PacketOf(d)
    BY DEF PacketInv
  <2>2. CASE d = s
    BY <1>1, <2>1, <2>2 DEF PacketOf
  <2>3. CASE d # s
    BY <2>1, <2>3 DEF PacketOf
  <2>4. QED
    BY <2>2, <2>3
<1>3. ASSUME NEW d \in Devices PROVE packet'[d].id = packet'[Peer(d)].id => pc'[d] = "idle"
  <2>1. packet[d].id = packet[Peer(d)].id => pc[d] = "idle"
    BY DEF PacketInv
  <2>2. QED
    BY <1>1, <2>1
<1>4. QED
  BY <1>2, <1>3 DEF PacketInv

\* A step of start_xmit() does to its packet what the next statement expects.
LEMMA PacketStep ==
    ASSUME LoadTypes, XmitTypes, PrivTypes, CountTypes, HistoryTypes, LoadInv, LinkInv, PacketInv,
           [Next]_vars
    PROVE  PacketInv'
<1> USE PeerFacts DEF XmitTypes, PrivTypes, HistoryTypes, PacketInv, PacketOf, Entered, Accepted,
    Stored, Rewritten, loadVars, xmitVars, historyVars
<1>1. CASE LoadStep
  BY <1>1, LoadFrame DEF LoadInv, LinkInv, Devices
<1>2. CASE LinkStep
  BY <1>2, LinkFrame
<1>3. ASSUME NEW s \in Devices, NEW length \in Lengths, Send(s, length) PROVE PacketInv'
  <2> DEFINE p == [id |-> Len(sent) + 1, dest |-> HardHeader(s), length |-> length,
                   addresses |-> "sent"]
  <2>1. pc'[s] = "choose" /\ sent' = Append(sent, p) /\ packet'[s] = p /\ s \in up
    BY <1>3 DEF Send, Goto
  <2>2. p.dest = Peer(s)
    BY <2>1 DEF LinkInv, HardHeader, Devices
  <2>3. p \in Packets
    <3>1. Len(sent) + 1 \in 1 .. MaxPackets
      BY <1>3, PacketAssumption DEF Send
    <3>2. HardHeader(s) \in Devices /\ length \in Nat
      BY LengthAssumption DEF HardHeader, Devices
    <3>3. QED
      BY <3>1, <3>2 DEF Packets
  <2>4. p.id = Len(sent) + 1 /\ p.length = length
    OBVIOUS
  <2> HIDE DEF p
  <2>5. /\ p.id \in DOMAIN sent' /\ sent'[p.id] = p
        /\ \A i \in DOMAIN sent : i \in DOMAIN sent' /\ sent'[i] = sent[i] /\ i # p.id
    BY <2>1, <2>3, <2>4
  <2>6. packet[Peer(s)].id # p.id
    BY <2>5, <2>4 DEF Nothing
  <2>7. \A d \in Devices : d # s => pc'[d] = pc[d] /\ packet'[d] = packet[d] /\ sk_b'[d] = sk_b[d]
    <3>1. SendStep(s)
      BY <1>3 DEF SendStep
    <3>2. QED
      BY <3>1, SendFrame
  <2> HIDE DEF HistoryTypes, XmitTypes, PrivTypes
  <2>8. PacketOf(s)'
    BY <2>1, <2>2, <2>3, <2>5
  <2>9. ASSUME NEW d \in Devices, d # s PROVE PacketOf(d)'
    <3>1. PacketOf(d) /\ UNCHANGED <<pc[d], packet[d], sk_b[d]>>
      BY <2>7, <2>9
    <3>2. pc[d] \in Entered => UNCHANGED sent[packet[d].id] /\ packet[d].id \in DOMAIN sent'
      BY <2>5, <3>1
    <3>3. QED
      BY <3>1, <3>2
  <2>10. packet'[Peer(s)].id # packet'[s].id
    BY <2>1, <2>6, <2>7
  <2>11. \A d \in Devices : packet'[d].id # packet'[Peer(d)].id
    BY <2>10
  <2> HIDE DEF PacketOf
  <2>12. QED
    BY <2>8, <2>9, <2>11
<1>4. ASSUME NEW s \in Devices, ChooseDst(s) PROVE PacketInv'
  <2>1. pc[s] = "choose" /\ pc'[s] = "check" /\ UNCHANGED <<packet, sent, sk_b>>
    BY <1>4 DEF ChooseDst, Goto
  <2>2. \A d \in Devices : d # s => pc'[d] = pc[d] /\ sk_b'[d] = sk_b[d]
    <3>1. SendStep(s)
      BY <1>4 DEF SendStep, XmitStep
    <3>2. QED
      BY <3>1, SendFrame
  <2> HIDE DEF PacketInv, PacketOf, XmitTypes, PrivTypes, HistoryTypes
  <2>3. QED
    BY <2>1, <2>2, PacketKept
<1>5. ASSUME NEW s \in Devices, CheckLength(s) PROVE PacketInv'
  <2>1. pc[s] = "check" /\ packet[s] \in Packets /\ packet[s].length = sent[packet[s].id].length
    BY <1>5 DEF CheckLength
  <2>2. \A d \in Devices : d # s => pc'[d] = pc[d] /\ packet'[d] = packet[d] /\ sk_b'[d] = sk_b[d]
    <3>1. SendStep(s)
      BY <1>5 DEF SendStep, XmitStep
    <3>2. QED
      BY <3>1, SendFrame
  <2>3. UNCHANGED sent
    BY <1>5 DEF CheckLength
  <2>4. CASE TooLong(Padded(packet[s].length))
    <3>1. packet'[s] = Nothing /\ pc'[s] = "idle"
      BY <1>5, <2>4 DEF CheckLength, Goto
    <3>2. \A d \in Devices : packet[d].id = 0 => pc[d] = "idle"
      BY BusyHasPacket
    <3> HIDE DEF HistoryTypes, XmitTypes, PrivTypes
    <3>3. QED
      BY <2>2, <2>3, <3>1, <3>2 DEF Nothing
  <2>5. CASE ~ TooLong(Padded(packet[s].length))
    <3> DEFINE q == [packet[s] EXCEPT !.length = Padded(packet[s].length)]
    <3>1. packet'[s] = q /\ pc'[s] = "store"
      BY <1>5, <2>5 DEF CheckLength, Goto
    <3>2. /\ q \in Packets /\ q.id = packet[s].id /\ q.dest = packet[s].dest
          /\ q.length = Padded(packet[s].length)
      BY <2>1, LengthAssumption DEF Packets, Padded
    <3> HIDE DEF q, HistoryTypes, XmitTypes, PrivTypes
    <3>3. QED
      BY <2>1, <2>2, <2>3, <2>5, <3>1, <3>2
  <2>6. QED
    BY <2>4, <2>5
<1>6. ASSUME NEW s \in Devices, StoreSkb(s) PROVE PacketInv'
  <2>1. /\ pc[s] = "store" /\ pc'[s] = "rewrite" /\ UNCHANGED <<packet, sent>>
        /\ sk_b'[s] = packet[s].id
    BY <1>6 DEF StoreSkb, Goto
  <2>2. \A d \in Devices : d # s => pc'[d] = pc[d] /\ sk_b'[d] = sk_b[d]
    <3>1. SendStep(s)
      BY <1>6 DEF SendStep, XmitStep
    <3>2. QED
      BY <3>1, SendFrame
  <2> HIDE DEF PacketInv, PacketOf, XmitTypes, PrivTypes, HistoryTypes
  <2>3. QED
    BY <2>1, <2>2, PacketKept
<1>7. ASSUME NEW s \in Devices, Rewrite(s) PROVE PacketInv'
  <2>1. pc[s] = "rewrite" /\ packet[s] \in Packets
    BY <1>7 DEF Rewrite
  <2>2. \A d \in Devices : d # s => pc'[d] = pc[d] /\ packet'[d] = packet[d] /\ sk_b'[d] = sk_b[d]
    <3>1. SendStep(s)
      BY <1>7 DEF SendStep, XmitStep
    <3>2. QED
      BY <3>1, SendFrame
  <2>3. UNCHANGED <<sent, sk_b>>
    BY <1>7 DEF Rewrite
  <2> DEFINE q == [packet[s] EXCEPT !.addresses = "rewritten"]
  <2>4. packet'[s] = q /\ pc'[s] = "copy"
    BY <1>7 DEF Rewrite, Goto
  <2>5. /\ q \in Packets /\ q.id = packet[s].id /\ q.dest = packet[s].dest
        /\ q.length = packet[s].length /\ q.addresses = "rewritten"
    BY <2>1 DEF Packets
  <2> HIDE DEF q, HistoryTypes, XmitTypes, PrivTypes
  <2>6. QED
    BY <2>1, <2>2, <2>3, <2>4, <2>5
<1>8. ASSUME NEW s \in Devices, CopyData(s) PROVE PacketInv'
  <2>1. pc[s] = "copy" /\ pc'[s] = "receive" /\ UNCHANGED <<packet, sent, sk_b>>
    BY <1>8 DEF CopyData, Goto
  <2>2. \A d \in Devices : d # s => pc'[d] = pc[d] /\ sk_b'[d] = sk_b[d]
    <3>1. SendStep(s)
      BY <1>8 DEF SendStep, XmitStep
    <3>2. QED
      BY <3>1, SendFrame
  <2>3. sk_b[s] = packet[s].id
    BY <2>1
  <2> HIDE DEF PacketInv, PacketOf, XmitTypes, PrivTypes, HistoryTypes
  <2>4. QED
    BY <2>1, <2>2, <2>3, PacketKept
<1>9. ASSUME NEW s \in Devices, NEW alloc \in BOOLEAN, Receive(s, alloc) PROVE PacketInv'
  <2>1. pc[s] = "receive" /\ pc'[s] = "count" /\ UNCHANGED <<packet, sent, sk_b>>
    BY <1>9 DEF Receive, Goto
  <2>2. \A d \in Devices : d # s => pc'[d] = pc[d] /\ sk_b'[d] = sk_b[d]
    <3>1. SendStep(s)
      BY <1>9 DEF SendStep, XmitStep
    <3>2. QED
      BY <3>1, SendFrame
  <2>3. sk_b[s] = packet[s].id
    BY <2>1
  <2> HIDE DEF PacketInv, PacketOf, XmitTypes, PrivTypes, HistoryTypes
  <2>4. QED
    BY <2>1, <2>2, <2>3, PacketKept
<1>10. ASSUME NEW s \in Devices, CountSent(s) PROVE PacketInv'
  <2>1. pc[s] = "count" /\ pc'[s] = "free" /\ UNCHANGED <<packet, sent, sk_b>>
    BY <1>10 DEF CountSent, Goto
  <2>2. \A d \in Devices : d # s => pc'[d] = pc[d] /\ sk_b'[d] = sk_b[d]
    <3>1. SendStep(s)
      BY <1>10 DEF SendStep, XmitStep
    <3>2. QED
      BY <3>1, SendFrame
  <2>3. sk_b[s] = packet[s].id
    BY <2>1
  <2> HIDE DEF PacketInv, PacketOf, XmitTypes, PrivTypes, HistoryTypes
  <2>4. QED
    BY <2>1, <2>2, <2>3, PacketKept
<1>11. ASSUME NEW s \in Devices, FreeSkb(s) PROVE PacketInv'
  <2>1. packet'[s] = Nothing /\ pc'[s] = "idle" /\ UNCHANGED <<sent, sk_b>>
    BY <1>11 DEF FreeSkb, Goto
  <2>2. \A d \in Devices : d # s => pc'[d] = pc[d] /\ packet'[d] = packet[d] /\ sk_b'[d] = sk_b[d]
    <3>1. SendStep(s)
      BY <1>11 DEF SendStep, XmitStep
    <3>2. QED
      BY <3>1, SendFrame
  <2>3. \A d \in Devices : packet[d].id = 0 => pc[d] = "idle"
    BY BusyHasPacket
  <2> HIDE DEF HistoryTypes, XmitTypes, PrivTypes
  <2>4. QED
    BY <2>1, <2>2, <2>3 DEF Nothing
<1>12. ASSUME NEW s \in Devices, Oops(s) PROVE PacketInv'
  <2>1. pc[s] \in {"copy", "receive"} /\ pc'[s] = "oops" /\ UNCHANGED <<packet, sent, sk_b>>
    BY <1>12 DEF Oops, Goto
  <2>2. \A d \in Devices : d # s => pc'[d] = pc[d] /\ sk_b'[d] = sk_b[d]
    <3>1. SendStep(s)
      BY <1>12 DEF SendStep, XmitStep
    <3>2. QED
      BY <3>1, SendFrame
  <2>3. sk_b[s] = packet[s].id
    BY <2>1
  <2> HIDE DEF PacketInv, PacketOf, XmitTypes, PrivTypes, HistoryTypes
  <2>4. QED
    BY <2>1, <2>2, <2>3, PacketKept
<1>13. CASE UNCHANGED vars
  BY <1>13 DEF vars
<1> HIDE DEF XmitTypes, PrivTypes, HistoryTypes, PacketInv, PacketOf, Entered, Accepted, Stored,
    Rewritten, loadVars, xmitVars, historyVars
<1>14. QED
  BY <1>1, <1>2, <1>3, <1>4, <1>5, <1>6, <1>7, <1>8, <1>9, <1>10, <1>11, <1>12, <1>13, StepCases
  DEF XmitStep, SendStep

\* A step leaves the private data of a device alone while a packet is in it.
LEMMA DataStep ==
    ASSUME LoadTypes, XmitTypes, PrivTypes, CountTypes, HistoryTypes, LoadInv, LinkInv, PacketInv,
           DataInv, [Next]_vars
    PROVE  DataInv'
<1> USE PeerFacts DEF XmitTypes, PrivTypes, DataInv, Entered, loadVars, xmitVars
<1>1. CASE InitAllocate0
  BY <1>1 DEF InitAllocate0, Allocate, LoadInv, LinkInv, Devices
<1>2. CASE InitRegister0
  BY <1>2 DEF InitRegister0, Register, Stay, LoadInv, LinkInv, Devices
<1>3. CASE InitAllocate1
  BY <1>3 DEF InitAllocate1, Allocate, Stay, LoadInv, LinkInv, Devices
<1>4. CASE InitRegister1
  BY <1>4 DEF InitRegister1, Register, Free, LoadInv, LinkInv, Devices
<1>5. CASE Exit
  BY <1>5 DEF Exit, Unregister, Unregistered, Free, Stay, LoadInv, LinkInv, Devices
<1>6. CASE LinkStep
  BY <1>6, LinkFrame
<1>7. ASSUME NEW s \in Devices, NEW length \in Lengths, Send(s, length) PROVE DataInv'
  BY <1>7 DEF Send, Goto, HardHeader
<1>8. ASSUME NEW s \in Devices, ChooseDst(s) PROVE DataInv'
  <2>1. pc[s] = "choose" /\ pc'[s] = "check" /\ UNCHANGED <<core, packet, data>>
    BY <1>8 DEF ChooseDst, Goto
  <2>2. \A d \in Devices : d # s => pc'[d] = pc[d] /\ dst'[d] = dst[d]
    BY <1>8, SendFrame DEF SendStep, XmitStep
  <2>3. core = "alloc1" /\ s = 0 => ~ dst'[s]
    <3>1. dst'[s] = (Peer(s) \in pointer)
      BY <1>8 DEF ChooseDst
    <3>2. core = "alloc1" => pointer = {0}
      BY DEF LoadInv
    <3>3. QED
      BY <3>1, <3>2
  <2>4. QED
    BY <2>1, <2>2, <2>3
<1>9. ASSUME NEW s \in Devices, CheckLength(s) PROVE DataInv'
  <2>1. pc[s] = "check" /\ pc'[s] \in {"idle", "store"}
    BY <1>9 DEF CheckLength, Goto
  <2>2. UNCHANGED <<core, dst, data>>
    BY <1>9 DEF CheckLength, Goto
  <2>3. \A d \in Devices : d # s => pc'[d] = pc[d] /\ packet'[d] = packet[d]
    BY <1>9, SendFrame DEF SendStep, XmitStep
  <2>4. QED
    BY <2>1, <2>2, <2>3
<1>10. ASSUME NEW s \in Devices, StoreSkb(s) PROVE DataInv'
  BY <1>10 DEF StoreSkb, Goto
<1>11. ASSUME NEW s \in Devices, Rewrite(s) PROVE DataInv'
  BY <1>11 DEF Rewrite, Goto
<1>12. ASSUME NEW s \in Devices, CopyData(s) PROVE DataInv'
  <2>1. pc[s] = "copy" /\ dst[s] /\ pc'[s] = "receive"
    BY <1>12 DEF CopyData, Goto, PeerThere
  <2>2. UNCHANGED <<core, dst, packet>>
    BY <1>12 DEF CopyData, Goto
  <2>3. \A d \in Devices : d # s => pc'[d] = pc[d]
    BY <1>12, SendFrame DEF SendStep, XmitStep
  <2>4. data'[Peer(s)] = packet[s] /\ \A d \in Devices : d # Peer(s) => data'[d] = data[d]
    BY <1>12 DEF CopyData
  <2>5. core # "alloc1"
    <3>1. s = 1 => core # "alloc1"
      BY <2>1 DEF LinkInv, LoadInv
    <3>2. s = 0 => core # "alloc1"
      BY <2>1
    <3>3. QED
      BY <3>1, <3>2 DEF Devices
  <2>6. QED
    BY <2>1, <2>2, <2>3, <2>4, <2>5
<1>13. ASSUME NEW s \in Devices, NEW alloc \in BOOLEAN, Receive(s, alloc) PROVE DataInv'
  BY <1>13 DEF Receive, Goto
<1>14. ASSUME NEW s \in Devices, CountSent(s) PROVE DataInv'
  BY <1>14 DEF CountSent, Goto
<1>15. ASSUME NEW s \in Devices, FreeSkb(s) PROVE DataInv'
  BY <1>15 DEF FreeSkb, Goto
<1>16. ASSUME NEW s \in Devices, Oops(s) PROVE DataInv'
  BY <1>16 DEF Oops, Goto
<1>17. CASE UNCHANGED vars
  BY <1>17 DEF vars
<1> HIDE DEF XmitTypes, PrivTypes, DataInv, Entered, loadVars, xmitVars
<1>18. QED
  BY <1>1, <1>2, <1>3, <1>4, <1>5, <1>6, <1>7, <1>8, <1>9, <1>10, <1>11, <1>12, <1>13,
     <1>14, <1>15, <1>16, <1>17, StepCases
  DEF LoadStep, XmitStep, SendStep

\* A step keeps the order of the packets that are delivered.
LEMMA OrderStep ==
    ASSUME XmitTypes, PrivTypes, CountTypes, HistoryTypes, LoadInv, LinkInv, PacketInv, OrderInv,
           DeliveredIntact, [Next]_vars
    PROVE  OrderInv'
<1> USE PeerFacts DEF XmitTypes, OrderInv, Entered, xmitVars, historyVars
<1>1. CASE LoadStep
  BY <1>1, LoadFrame
<1>2. CASE LinkStep
  BY <1>2, LinkFrame
<1>3. ASSUME NEW s \in Devices, NEW length \in Lengths, Send(s, length) PROVE OrderInv'
  <2>1. Begins(s)
    BY <1>3, PacketCases DEF SendStep, Send, GoesOn, Refused, Freed, Entered, Accepted, Stored
  <2>2. packet'[s].id = Len(sent) + 1 /\ UNCHANGED received
    BY <2>1 DEF Begins
  <2>3. \A d \in Devices : \A i \in DOMAIN received[d] : received[d][i].id \in DOMAIN sent
    BY DEF DeliveredIntact
  <2>4. \A j \in DOMAIN sent : j < Len(sent) + 1
    BY DEF HistoryTypes
  <2>5. \A d \in Devices : d # s => pc'[d] = pc[d] /\ packet'[d] = packet[d]
    BY <1>3, SendFrame DEF SendStep
  <2>6. QED
    BY <2>2, <2>3, <2>4, <2>5
<1>4. ASSUME NEW s \in Devices, ChooseDst(s) PROVE OrderInv'
  BY <1>4 DEF ChooseDst, Goto
<1>5. ASSUME NEW s \in Devices, CheckLength(s) PROVE OrderInv'
  <2>1. \A d \in Devices : d # s => pc'[d] = pc[d] /\ packet'[d] = packet[d]
    BY <1>5, SendFrame DEF SendStep, XmitStep
  <2>2. pc[s] = "check" /\ UNCHANGED received
    BY <1>5 DEF CheckLength
  <2>3. packet[s] \in Packets
    BY <2>2 DEF PacketInv, PacketOf
  <2>4. pc'[s] # "idle" => packet'[s].id = packet[s].id
    BY <1>5, <2>3 DEF CheckLength, Goto, Packets
  <2>5. QED
    BY <2>1, <2>2, <2>4
<1>6. ASSUME NEW s \in Devices, StoreSkb(s) PROVE OrderInv'
  BY <1>6 DEF StoreSkb, Goto
<1>7. ASSUME NEW s \in Devices, Rewrite(s) PROVE OrderInv'
  <2>1. \A d \in Devices : d # s => pc'[d] = pc[d] /\ packet'[d] = packet[d]
    BY <1>7, SendFrame DEF SendStep, XmitStep
  <2>2. pc[s] = "rewrite" /\ UNCHANGED received
    BY <1>7 DEF Rewrite
  <2>3. packet[s] \in Packets
    BY <2>2 DEF PacketInv, PacketOf
  <2>4. packet'[s].id = packet[s].id
    BY <1>7, <2>3 DEF Rewrite, Packets
  <2>5. QED
    BY <2>1, <2>2, <2>4
<1>8. ASSUME NEW s \in Devices, CopyData(s) PROVE OrderInv'
  BY <1>8 DEF CopyData, Goto
<1>9. ASSUME NEW s \in Devices, NEW alloc \in BOOLEAN, Receive(s, alloc) PROVE OrderInv'
  <2>1. pc[s] = "receive" /\ pc'[s] = "count" /\ UNCHANGED packet
    BY <1>9 DEF Receive, Goto
  <2>2. received'[s] = received[s]
    BY <1>9 DEF Receive, HistoryTypes
  <2>3. \A d \in Devices : d # s => pc'[d] = pc[d]
    BY <1>9 DEF Receive, Goto
  <2>4. QED
    BY <2>1, <2>2, <2>3
<1>10. ASSUME NEW s \in Devices, CountSent(s) PROVE OrderInv'
  BY <1>10 DEF CountSent, Goto
<1>11. ASSUME NEW s \in Devices, FreeSkb(s) PROVE OrderInv'
  BY <1>11 DEF FreeSkb, Goto
<1>12. ASSUME NEW s \in Devices, Oops(s) PROVE OrderInv'
  BY <1>12 DEF Oops, Goto
<1>13. CASE UNCHANGED vars
  BY <1>13 DEF vars
<1> HIDE DEF XmitTypes, OrderInv, Entered, xmitVars, historyVars
<1>14. QED
  BY <1>1, <1>2, <1>3, <1>4, <1>5, <1>6, <1>7, <1>8, <1>9, <1>10, <1>11, <1>12, <1>13, StepCases
  DEF XmitStep, SendStep

\* A step frees a packet that is in flight and none else.
LEMMA FreedStep ==
    ASSUME XmitTypes, PrivTypes, CountTypes, HistoryTypes, LoadInv, LinkInv, PacketInv, FreedInv,
           [Next]_vars
    PROVE  FreedInv'
<1>1. CASE LoadStep
  BY <1>1, LoadFrame DEF FreedInv, InFlight, historyVars
<1>2. CASE LinkStep
  BY <1>2, LinkFrame DEF FreedInv, InFlight, historyVars, xmitVars
<1>3. ASSUME NEW s \in Devices, SendStep(s) PROVE FreedInv'
  <2>1. \A d \in Devices : d # s => packet'[d] = packet[d]
    BY <1>3, SendFrame
  <2>2. CASE Begins(s)
    <3>1. PICK p \in Packets : p.id = Len(sent) + 1 /\ sent' = Append(sent, p) /\ packet'[s] = p
      BY <2>2 DEF Begins
    <3>2. /\ Len(sent') = Len(sent) + 1 /\ Len(sent) \in Nat
          /\ \A i \in 1 .. Len(sent) : sent'[i] = sent[i]
      BY <3>1 DEF HistoryTypes
    <3>3. \A i \in 1 .. MaxPackets : InFlight(i)' => InFlight(i) \/ i = Len(sent) + 1
      BY <2>1, <3>1 DEF InFlight
    <3>4. packet[s].id = 0
      BY <2>2 DEF Begins, PacketInv, PacketOf, Nothing
    <3>5. \A i \in 1 .. MaxPackets : InFlight(i) \/ i = Len(sent) + 1 => InFlight(i)'
      BY <2>1, <3>1, <3>4 DEF InFlight
    <3>6. freed' = freed
      BY <2>2 DEF Begins
    <3>7. QED
      BY <3>2, <3>3, <3>5, <3>6 DEF FreedInv
  <2>3. CASE GoesOn(s)
    <3>1. \A i \in 1 .. MaxPackets : InFlight(i)' <=> InFlight(i)
      BY <2>1, <2>3 DEF InFlight, GoesOn
    <3>2. QED
      BY <2>3, <3>1 DEF FreedInv, GoesOn
  <2>4. CASE Refused(s)
    <3>1. /\ packet[s].id \in 1 .. Len(sent)
          /\ packet[s].length = sent[packet[s].id].length
          /\ TooLong(Padded(packet[s].length))
      BY <2>4 DEF Refused, PacketInv, PacketOf, HistoryTypes, Entered, Accepted
    <3>2. \A i \in 1 .. MaxPackets : InFlight(i)' => InFlight(i)
      BY <2>1, <2>4 DEF InFlight, Refused, Nothing
    <3>3. \A i \in 1 .. MaxPackets : InFlight(i) /\ i # packet[s].id => InFlight(i)'
      BY <2>1 DEF InFlight
    <3>4. QED
      BY <2>4, <3>1, <3>2, <3>3 DEF FreedInv, Refused
  <2>5. CASE Freed(s)
    <3>1. /\ packet[s].id \in 1 .. Len(sent) /\ packet[s].id \in 1 .. MaxPackets
          /\ packet[s].length = Padded(sent[packet[s].id].length)
          /\ ~ TooLong(packet[s].length)
      <4>1. PacketOf(s) /\ pc[s] \in Stored
        BY <2>5 DEF Freed, PacketInv
      <4>2. packet[s] \in Packets /\ packet[s].id \in DOMAIN sent
        BY <4>1 DEF PacketOf, Entered, Accepted, Stored
      <4>3. DOMAIN sent = 1 .. Len(sent)
        BY DEF HistoryTypes
      <4>4. packet[s].id \in 1 .. MaxPackets
        BY <4>2 DEF Packets
      <4>5. QED
        BY <4>1, <4>2, <4>3, <4>4 DEF PacketOf, Stored
    <3>2. \A i \in 1 .. MaxPackets : InFlight(i)' => InFlight(i) /\ i # packet[s].id
      BY <2>1, <2>5, PeerFacts
      DEF InFlight, Freed, Nothing, PacketInv, PacketOf, Entered, Accepted, Stored
    <3>3. \A i \in 1 .. MaxPackets : InFlight(i) /\ i # packet[s].id => InFlight(i)'
      BY <2>1 DEF InFlight
    <3>4. /\ freed'[packet[s].id] = freed[packet[s].id] + 1
          /\ \A i \in 1 .. MaxPackets : i # packet[s].id => freed'[i] = freed[i]
          /\ sent' = sent
      BY <2>5, <3>1 DEF Freed, HistoryTypes
    <3>5. InFlight(packet[s].id)
      BY DEF InFlight
    <3>6. freed[packet[s].id] = 0
      BY <3>1, <3>5 DEF FreedInv
    <3>7. Len(sent) \in Nat
      BY DEF HistoryTypes
    <3>8. QED
      BY <3>1, <3>2, <3>3, <3>4, <3>6, <3>7 DEF FreedInv
  <2>6. QED
    BY <1>3, <2>2, <2>3, <2>4, <2>5, PacketCases
<1>4. CASE UNCHANGED vars
  BY <1>4 DEF vars, FreedInv, InFlight, historyVars, xmitVars
<1>5. QED
  BY <1>1, <1>2, <1>3, <1>4, StepCases

\* A step delivers a packet of the peer, once and in order.
LEMMA DeliveredStep ==
    ASSUME LoadTypes, XmitTypes, PrivTypes, CountTypes, HistoryTypes, LoadInv, LinkInv, PacketInv,
           DataInv, OrderInv, DeliveredIntact, [Next]_vars
    PROVE  DeliveredIntact'
<1> USE PeerFacts DEF DeliveredIntact, linkVars, historyVars
<1>1. CASE LoadStep
  <2>1. LinkInv'
    BY LinkInvStep
  <2>2. \A d \in Devices : dev_addr'[d] \in {d, 2}
    BY <2>1 DEF LinkInv
  <2>3. UNCHANGED <<sent, received>>
    BY <1>1, LoadFrame
  <2>4. QED
    BY <2>2, <2>3
<1>2. CASE LinkStep
  <2>1. LinkInv'
    BY LinkInvStep
  <2>2. \A d \in Devices : dev_addr'[d] \in {d, 2}
    BY <2>1 DEF LinkInv
  <2>3. UNCHANGED <<sent, received>>
    BY <1>2, LinkFrame
  <2>4. QED
    BY <2>2, <2>3
<1>3. ASSUME NEW s \in Devices, NEW length \in Lengths, Send(s, length) PROVE DeliveredIntact'
  <2>1. \A i \in DOMAIN sent : i \in DOMAIN sent' /\ sent'[i] = sent[i]
    BY <1>3 DEF Send, HistoryTypes
  <2>2. UNCHANGED <<received, dev_addr>>
    BY <1>3 DEF Send, Goto
  <2>3. QED
    BY <2>1, <2>2
<1>4. ASSUME NEW s \in Devices, ChooseDst(s) PROVE DeliveredIntact'
  BY <1>4 DEF ChooseDst, Goto
<1>5. ASSUME NEW s \in Devices, CheckLength(s) PROVE DeliveredIntact'
  BY <1>5 DEF CheckLength, Goto
<1>6. ASSUME NEW s \in Devices, StoreSkb(s) PROVE DeliveredIntact'
  BY <1>6 DEF StoreSkb, Goto
<1>7. ASSUME NEW s \in Devices, Rewrite(s) PROVE DeliveredIntact'
  BY <1>7 DEF Rewrite, Goto
<1>8. ASSUME NEW s \in Devices, CopyData(s) PROVE DeliveredIntact'
  BY <1>8 DEF CopyData, Goto
<1>9. ASSUME NEW s \in Devices, NEW alloc \in BOOLEAN, Receive(s, alloc) PROVE DeliveredIntact'
  <2>1. pc[s] = "receive" /\ data[Peer(s)] = packet[s]
    BY <1>9 DEF Receive, DataInv
  <2>2. UNCHANGED <<sent, dev_addr>>
    BY <1>9 DEF Receive, Goto
  <2>3. CASE UNCHANGED received
    BY <2>2, <2>3
  <2>4. CASE received' = [received EXCEPT ![Peer(s)] = Append(@, data[Peer(s)])]
    <3> DEFINE old == received[Peer(s)]
               new == Append(old, packet[s])
    <3>1. /\ received'[Peer(s)] = new /\ received'[s] = received[s]
          /\ old \in Seq(Packets)
      BY <2>1, <2>4 DEF HistoryTypes
    <3>2. /\ DOMAIN new = 1 .. Len(old) + 1 /\ DOMAIN old = 1 .. Len(old) /\ Len(old) \in Nat
          /\ new[Len(old) + 1] = packet[s]
          /\ \A i \in 1 .. Len(old) : new[i] = old[i]
      BY <3>1
    <3> HIDE DEF new
    <3>3. /\ packet[s].id \in DOMAIN sent
          /\ packet[s].length = Padded(sent[packet[s].id].length)
          /\ packet[s].addresses = "rewritten"
          /\ packet[s].dest = Peer(s) /\ dev_addr[Peer(s)] \in {Peer(s), 2}
      BY <2>1 DEF PacketInv, PacketOf, LinkInv, Entered, Accepted, Stored, Rewritten
    <3>4. \A i \in 1 .. Len(old) : old[i].id < packet[s].id
      BY <2>1, <3>2 DEF OrderInv, Entered
    <3>5. \A i \in DOMAIN new :
              /\ new[i].id \in DOMAIN sent
              /\ new[i].length = Padded(sent[new[i].id].length)
              /\ new[i].addresses = "rewritten"
              /\ new[i].dest = Peer(s) /\ dev_addr[Peer(s)] \in {Peer(s), 2}
      <4>1. \A i \in DOMAIN new : i = Len(old) + 1 \/ i \in 1 .. Len(old)
        BY <3>2
      <4>2. QED
        BY <3>2, <3>3, <4>1
    <3>6. \A i, j \in DOMAIN new : i < j => new[i].id < new[j].id
      <4> DEFINE m == Len(old)
      <4>1. DOMAIN new = 1 .. m + 1 /\ m \in Nat
        BY <3>2
      <4> HIDE DEF m
      <4>2. \A i, j \in DOMAIN new : i < j => i \in 1 .. m /\ (j = m + 1 \/ j \in 1 .. m)
        BY <4>1
      <4>3. /\ new[m + 1] = packet[s] /\ \A i \in 1 .. m : new[i] = old[i]
            /\ \A i, j \in 1 .. m : i < j => old[i].id < old[j].id
            /\ \A i \in 1 .. m : old[i].id < packet[s].id
        BY <3>2, <3>4 DEF m
      <4>4. QED
        BY <4>2, <4>3
    <3> HIDE DEF old
    <3>7. \A d \in Devices : d = s \/ d = Peer(s)
      OBVIOUS
    <3>8. QED
      BY <2>2, <3>1, <3>5, <3>6, <3>7
  <2>5. UNCHANGED received \/ received' = [received EXCEPT ![Peer(s)] = Append(@, data[Peer(s)])]
    BY <1>9 DEF Receive, HistoryTypes
  <2>6. QED
    BY <2>3, <2>4, <2>5
<1>10. ASSUME NEW s \in Devices, CountSent(s) PROVE DeliveredIntact'
  BY <1>10 DEF CountSent, Goto
<1>11. ASSUME NEW s \in Devices, FreeSkb(s) PROVE DeliveredIntact'
  BY <1>11 DEF FreeSkb, Goto
<1>12. ASSUME NEW s \in Devices, Oops(s) PROVE DeliveredIntact'
  BY <1>12 DEF Oops, Goto
<1>13. CASE UNCHANGED vars
  BY <1>13 DEF vars
<1> HIDE DEF DeliveredIntact, linkVars, historyVars
<1>14. QED
  BY <1>1, <1>2, <1>3, <1>4, <1>5, <1>6, <1>7, <1>8, <1>9, <1>10, <1>11, <1>12, <1>13, StepCases
  DEF XmitStep, SendStep

\* A step counts nothing before the second device exists.
LEMMA CountStep ==
    ASSUME LoadTypes, XmitTypes, PrivTypes, CountTypes, LoadInv, LinkInv, DataInv, CountInv,
           [Next]_vars
    PROVE  CountInv'
<1> USE PeerFacts DEF CountTypes, CountInv, countVars, loadVars
<1>1. CASE InitAllocate0
  BY <1>1 DEF InitAllocate0, Allocate
<1>2. CASE InitRegister0
  BY <1>2 DEF InitRegister0, Register, Stay
<1>3. CASE InitAllocate1
  BY <1>3 DEF InitAllocate1, Allocate, Stay
<1>4. CASE InitRegister1
  BY <1>4 DEF InitRegister1, Register, Free
<1>5. CASE Exit
  BY <1>5 DEF Exit, Unregister, Unregistered, Free, Stay
<1>6. CASE LinkStep
  BY <1>6, LinkFrame
<1>7. ASSUME NEW s \in Devices, NEW length \in Lengths, Send(s, length) PROVE CountInv'
  BY <1>7 DEF Send, Goto, HardHeader
<1>8. ASSUME NEW s \in Devices, ChooseDst(s) PROVE CountInv'
  BY <1>8 DEF ChooseDst, Goto
<1>9. ASSUME NEW s \in Devices, CheckLength(s) PROVE CountInv'
  BY <1>9 DEF CheckLength, Goto
<1>10. ASSUME NEW s \in Devices, StoreSkb(s) PROVE CountInv'
  BY <1>10 DEF StoreSkb, Goto
<1>11. ASSUME NEW s \in Devices, Rewrite(s) PROVE CountInv'
  BY <1>11 DEF Rewrite, Goto
<1>12. ASSUME NEW s \in Devices, CopyData(s) PROVE CountInv'
  BY <1>12 DEF CopyData, Goto
<1>13. ASSUME NEW s \in Devices, NEW alloc \in BOOLEAN, Receive(s, alloc) PROVE CountInv'
  <2>1. pc[s] = "receive" /\ UNCHANGED <<core, tx>>
    BY <1>13 DEF Receive, Goto
  <2>2. core \notin {"reg0", "alloc1"}
    <3>1. CASE s = 0
      BY <2>1, <3>1 DEF DataInv, LinkInv, LoadInv
    <3>2. CASE s = 1
      BY <2>1, <3>2 DEF LinkInv, LoadInv
    <3>3. QED
      BY <3>1, <3>2 DEF Devices
  <2>3. QED
    BY <2>1, <2>2
<1>14. ASSUME NEW s \in Devices, CountSent(s) PROVE CountInv'
  <2>1. pc[s] = "count" /\ UNCHANGED core
    BY <1>14 DEF CountSent, Goto
  <2>2. core \notin {"reg0", "alloc1"}
    <3>1. CASE s = 0
      BY <2>1, <3>1 DEF DataInv, LinkInv, LoadInv
    <3>2. CASE s = 1
      BY <2>1, <3>2 DEF LinkInv, LoadInv
    <3>3. QED
      BY <3>1, <3>2 DEF Devices
  <2>3. QED
    BY <2>1, <2>2
<1>15. ASSUME NEW s \in Devices, FreeSkb(s) PROVE CountInv'
  BY <1>15 DEF FreeSkb, Goto
<1>16. ASSUME NEW s \in Devices, Oops(s) PROVE CountInv'
  BY <1>16 DEF Oops, Goto
<1>17. CASE UNCHANGED vars
  BY <1>17 DEF vars
<1> HIDE DEF CountTypes, CountInv, countVars, loadVars
<1>18. QED
  BY <1>1, <1>2, <1>3, <1>4, <1>5, <1>6, <1>7, <1>8, <1>9, <1>10, <1>11, <1>12, <1>13,
     <1>14, <1>15, <1>16, <1>17, StepCases
  DEF LoadStep, XmitStep, SendStep

\* A step counts on both sides, or on none.
LEMMA AgreeStep ==
    ASSUME LoadTypes, XmitTypes, PrivTypes, CountTypes, LoadInv, LinkInv, PacketInv, DataInv,
           CountInv, CountersAgree, [Next]_vars
    PROVE  CountersAgree'
<1> USE PeerFacts DEF XmitTypes, CountersAgree, countVars, loadVars, xmitVars
<1>1. CASE InitAllocate0
  BY <1>1 DEF InitAllocate0, Allocate
<1>2. CASE InitRegister0
  BY <1>2 DEF InitRegister0, Register, Stay
<1>3. CASE InitAllocate1
  <2>1. CASE core' = "reg1"
    <3>1. /\ tx'[0] = Zero /\ rx'[0] = Zero /\ missed'[0] = Zero
          /\ tx'[1] = Zero /\ rx'[1] = Zero /\ missed'[1] = Zero
      BY <1>3, <2>1 DEF InitAllocate1, Allocate, CountInv, CountTypes, Devices
    <3>2. pc'[0] # "count" /\ pc'[1] # "count"
      BY <1>3 DEF InitAllocate1, Allocate, Stay, DataInv, LinkInv, LoadInv, xmitVars
    <3>3. \A s \in Devices : s = 0 \/ s = 1
      BY DEF Devices
    <3>4. QED
      BY <3>1, <3>2, <3>3 DEF Zero
  <2>2. QED
    BY <1>3, <2>1 DEF InitAllocate1
<1>4. CASE InitRegister1
  BY <1>4 DEF InitRegister1, Register, Free
<1>5. CASE Exit
  BY <1>5 DEF Exit, Unregister, Unregistered, Free, Stay
<1>6. CASE LinkStep
  BY <1>6, LinkFrame
<1>7. ASSUME NEW s \in Devices, NEW length \in Lengths, Send(s, length) PROVE CountersAgree'
  BY <1>7 DEF Send, Goto, HardHeader
<1>8. ASSUME NEW s \in Devices, ChooseDst(s) PROVE CountersAgree'
  BY <1>8 DEF ChooseDst, Goto
<1>9. ASSUME NEW s \in Devices, CheckLength(s) PROVE CountersAgree'
  <2>1. pc[s] = "check" /\ pc'[s] # "count" /\ UNCHANGED <<core, rx, tx, missed>>
    BY <1>9 DEF CheckLength, Goto, XmitTypes
  <2>2. \A d \in Devices : d # s => pc'[d] = pc[d] /\ packet'[d] = packet[d]
    BY <1>9, SendFrame DEF SendStep, XmitStep
  <2>3. QED
    BY <2>1, <2>2
<1>10. ASSUME NEW s \in Devices, StoreSkb(s) PROVE CountersAgree'
  BY <1>10 DEF StoreSkb, Goto
<1>11. ASSUME NEW s \in Devices, Rewrite(s) PROVE CountersAgree'
  BY <1>11 DEF Rewrite, Goto
<1>12. ASSUME NEW s \in Devices, CopyData(s) PROVE CountersAgree'
  BY <1>12 DEF CopyData, Goto
<1>13. ASSUME NEW s \in Devices, NEW alloc \in BOOLEAN, Receive(s, alloc) PROVE CountersAgree'
  <2>1. /\ pc[s] = "receive" /\ pc'[s] = "count" /\ UNCHANGED <<core, tx, packet>>
        /\ \A d \in Devices : d # s => pc'[d] = pc[d]
    BY <1>13 DEF Receive, Goto, XmitTypes
  <2>2. data[Peer(s)] = packet[s] /\ packet[s].length \in Nat
    BY <2>1 DEF DataInv, PacketInv, PacketOf, Entered, Packets
  <2>3. rx'[s] = rx[s] /\ missed'[s] = missed[s]
    BY <1>13 DEF Receive, CountTypes
  <2>4. \/ rx'[Peer(s)] = Count(rx[Peer(s)], packet[s].length) /\ missed'[Peer(s)] = missed[Peer(s)]
        \/ missed'[Peer(s)] = Count(missed[Peer(s)], packet[s].length) /\ rx'[Peer(s)] = rx[Peer(s)]
    BY <1>13, <2>2 DEF Receive, CountTypes
  <2>5. /\ rx[Peer(s)] \in Counters /\ missed[Peer(s)] \in Counters /\ tx[s] \in Counters
    BY DEF CountTypes
  <2>6. core \in {"reg1", "live"} =>
            /\ tx[s].packets = rx[Peer(s)].packets + missed[Peer(s)].packets
            /\ tx[s].bytes = rx[Peer(s)].bytes + missed[Peer(s)].bytes
    BY <2>1, <2>5 DEF Zero, Counters
  <2>7. core \in {"reg1", "live"} =>
            /\ tx'[s].packets + 1 = rx'[Peer(s)].packets + missed'[Peer(s)].packets
            /\ tx'[s].bytes + packet[s].length = rx'[Peer(s)].bytes + missed'[Peer(s)].bytes
    <3> HIDE DEF CountersAgree, XmitTypes
    <3>1. \A c \in Counters : /\ c.packets \in Nat /\ c.bytes \in Nat
                              /\ Count(c, packet[s].length).packets = c.packets + 1
                              /\ Count(c, packet[s].length).bytes = c.bytes + packet[s].length
      BY DEF Count, Counters
    <3> HIDE DEF Count, Counters
    <3>2. CASE /\ rx'[Peer(s)] = Count(rx[Peer(s)], packet[s].length)
               /\ missed'[Peer(s)] = missed[Peer(s)]
      BY <2>1, <2>2, <2>5, <2>6, <3>1, <3>2
    <3>3. CASE /\ missed'[Peer(s)] = Count(missed[Peer(s)], packet[s].length)
               /\ rx'[Peer(s)] = rx[Peer(s)]
      BY <2>1, <2>2, <2>5, <2>6, <3>1, <3>3
    <3>4. QED
      BY <2>4, <3>2, <3>3
  <2>8. /\ Count(Zero, packet[s].length).packets = 1
        /\ Count(Zero, packet[s].length).bytes = packet[s].length
    BY <2>2 DEF Count, Zero
  <2>9. \A d \in Devices : d = s \/ d = Peer(s)
    OBVIOUS
  <2>10. QED
    BY <2>1, <2>3, <2>7, <2>8, <2>9
<1>14. ASSUME NEW s \in Devices, CountSent(s) PROVE CountersAgree'
  <2>1. /\ pc[s] = "count" /\ pc'[s] = "free" /\ UNCHANGED <<core, rx, missed, packet>>
        /\ \A d \in Devices : d # s => pc'[d] = pc[d]
    BY <1>14 DEF CountSent, Goto, XmitTypes
  <2>2. tx'[Peer(s)] = tx[Peer(s)] /\ tx'[s] = Count(tx[s], packet[s].length)
    BY <1>14 DEF CountSent, CountTypes
  <2>3. packet[s].length \in Nat
    BY <2>1 DEF PacketInv, PacketOf, Entered, Packets
  <2>4. tx[s] \in Counters
    BY DEF CountTypes
  <2>5. /\ tx'[s].packets + Zero.packets = tx[s].packets + Count(Zero, packet[s].length).packets
        /\ tx'[s].bytes + Zero.bytes = tx[s].bytes + Count(Zero, packet[s].length).bytes
    BY <2>2, <2>3, <2>4 DEF Count, Zero, Counters
  <2>6. \A d \in Devices : d = s \/ d = Peer(s)
    OBVIOUS
  <2>7. QED
    BY <2>1, <2>2, <2>5, <2>6
<1>15. ASSUME NEW s \in Devices, FreeSkb(s) PROVE CountersAgree'
  BY <1>15 DEF FreeSkb, Goto
<1>16. ASSUME NEW s \in Devices, Oops(s) PROVE CountersAgree'
  BY <1>16 DEF Oops, Goto
<1>17. CASE UNCHANGED vars
  BY <1>17 DEF vars
<1> HIDE DEF XmitTypes, CountersAgree, countVars, loadVars, xmitVars
<1>18. QED
  BY <1>1, <1>2, <1>3, <1>4, <1>5, <1>6, <1>7, <1>8, <1>9, <1>10, <1>11, <1>12, <1>13,
     <1>14, <1>15, <1>16, <1>17, StepCases
  DEF LoadStep, XmitStep, SendStep

\* A step keeps the types of what insmod and rmmod hold.
LEMMA LoadTypesStep ==
    ASSUME LoadTypes, LoadInv, XmitTypes, PrivTypes, [Next]_vars
    PROVE  LoadTypes'
<1> USE PeerFacts DEF LoadTypes, LoadInv, Devices, loadVars, linkVars
<1>1. CASE InitAllocate0
  BY <1>1 DEF InitAllocate0, Allocate
<1>2. CASE InitRegister0
  BY <1>2 DEF InitRegister0, Register, Stay
<1>3. CASE InitAllocate1
  BY <1>3 DEF InitAllocate1, Allocate, Stay
<1>4. CASE InitRegister1
  BY <1>4 DEF InitRegister1, Register, Free
<1>5. CASE Exit
  BY <1>5 DEF Exit, Unregister, Unregistered, Free, Stay
<1>6. ASSUME NEW d \in Devices, Ifup(d) PROVE LoadTypes'
  BY <1>6 DEF Ifup
<1>7. ASSUME NEW d \in Devices, Ifdown(d) PROVE LoadTypes'
  BY <1>7 DEF Ifdown
<1>8. ASSUME NEW s \in Devices, NEW length \in Lengths, Send(s, length) PROVE LoadTypes'
  BY <1>8 DEF Send, Goto, HardHeader
<1>9. ASSUME NEW s \in Devices, ChooseDst(s) PROVE LoadTypes'
  BY <1>9 DEF ChooseDst, Goto
<1>10. ASSUME NEW s \in Devices, CheckLength(s) PROVE LoadTypes'
  BY <1>10 DEF CheckLength, Goto
<1>11. ASSUME NEW s \in Devices, StoreSkb(s) PROVE LoadTypes'
  BY <1>11 DEF StoreSkb, Goto
<1>12. ASSUME NEW s \in Devices, Rewrite(s) PROVE LoadTypes'
  BY <1>12 DEF Rewrite, Goto
<1>13. ASSUME NEW s \in Devices, CopyData(s) PROVE LoadTypes'
  BY <1>13 DEF CopyData, Goto
<1>14. ASSUME NEW s \in Devices, NEW alloc \in BOOLEAN, Receive(s, alloc) PROVE LoadTypes'
  BY <1>14 DEF Receive, Goto
<1>15. ASSUME NEW s \in Devices, CountSent(s) PROVE LoadTypes'
  BY <1>15 DEF CountSent, Goto
<1>16. ASSUME NEW s \in Devices, FreeSkb(s) PROVE LoadTypes'
  BY <1>16 DEF FreeSkb, Goto
<1>17. ASSUME NEW s \in Devices, Oops(s) PROVE LoadTypes'
  BY <1>17 DEF Oops, Goto
<1>18. CASE UNCHANGED vars
  BY <1>18 DEF vars
<1> HIDE DEF LoadTypes, LoadInv, Devices, loadVars, linkVars
<1>19. QED
  BY <1>1, <1>2, <1>3, <1>4, <1>5, <1>6, <1>7, <1>8, <1>9, <1>10, <1>11, <1>12, <1>13,
     <1>14, <1>15, <1>16, <1>17, <1>18, StepCases
  DEF LoadStep, LinkStep, XmitStep, SendStep

\* A step keeps the types of a transmission.
LEMMA XmitTypesStep ==
    ASSUME LoadTypes, XmitTypes, PrivTypes, CountTypes, HistoryTypes, LoadInv, LinkInv, PacketInv,
           [Next]_vars
    PROVE  XmitTypes'
<1> USE DEF XmitTypes, Entered, xmitVars
<1>1. CASE LoadStep
  BY <1>1, LoadFrame
<1>2. CASE LinkStep
  BY <1>2, LinkFrame
<1>3. ASSUME NEW s \in Devices, NEW length \in Lengths, Send(s, length) PROVE XmitTypes'
  <2>1. Begins(s)
    BY <1>3, PacketCases DEF SendStep, Send, GoesOn, Refused, Freed, Entered, Accepted, Stored
  <2>2. packet'[s] \in Packets
    BY <2>1 DEF Begins
  <2>3. QED
    BY <1>3, <2>2 DEF Send, Goto
<1>4. ASSUME NEW s \in Devices, ChooseDst(s) PROVE XmitTypes'
  BY <1>4 DEF ChooseDst, Goto
<1>5. ASSUME NEW s \in Devices, CheckLength(s) PROVE XmitTypes'
  <2>1. packet[s] \in Packets
    BY <1>5 DEF CheckLength, PacketInv, PacketOf
  <2>2. [packet[s] EXCEPT !.length = Padded(packet[s].length)] \in Packets
    BY <2>1, LengthAssumption DEF Packets, Padded
  <2>3. packet' \in [Devices -> Packets \cup {Nothing}]
    BY <1>5, <2>2 DEF CheckLength
  <2>4. pc' \in [Devices -> Entered \cup {"idle"}] /\ UNCHANGED dst
    BY <1>5 DEF CheckLength, Goto
  <2>5. QED
    BY <2>3, <2>4
<1>6. ASSUME NEW s \in Devices, StoreSkb(s) PROVE XmitTypes'
  BY <1>6 DEF StoreSkb, Goto
<1>7. ASSUME NEW s \in Devices, Rewrite(s) PROVE XmitTypes'
  <2>1. packet[s] \in Packets
    BY <1>7 DEF Rewrite, PacketInv, PacketOf
  <2>2. [packet[s] EXCEPT !.addresses = "rewritten"] \in Packets
    BY <2>1 DEF Packets
  <2>3. QED
    BY <1>7, <2>2 DEF Rewrite, Goto
<1>8. ASSUME NEW s \in Devices, CopyData(s) PROVE XmitTypes'
  BY <1>8 DEF CopyData, Goto
<1>9. ASSUME NEW s \in Devices, NEW alloc \in BOOLEAN, Receive(s, alloc) PROVE XmitTypes'
  BY <1>9 DEF Receive, Goto
<1>10. ASSUME NEW s \in Devices, CountSent(s) PROVE XmitTypes'
  BY <1>10 DEF CountSent, Goto
<1>11. ASSUME NEW s \in Devices, FreeSkb(s) PROVE XmitTypes'
  BY <1>11 DEF FreeSkb, Goto
<1>12. ASSUME NEW s \in Devices, Oops(s) PROVE XmitTypes'
  BY <1>12 DEF Oops, Goto
<1>13. CASE UNCHANGED vars
  BY <1>13 DEF vars
<1> HIDE DEF XmitTypes, Entered, xmitVars
<1>14. QED
  BY <1>1, <1>2, <1>3, <1>4, <1>5, <1>6, <1>7, <1>8, <1>9, <1>10, <1>11, <1>12, <1>13, StepCases
  DEF XmitStep, SendStep

\* A step keeps the types of the private data: the buffer holds a frame that is not too long.
LEMMA PrivTypesStep ==
    ASSUME LoadTypes, XmitTypes, PrivTypes, CountTypes, HistoryTypes, LoadInv, LinkInv, PacketInv,
           [Next]_vars
    PROVE  PrivTypes'
<1> USE PacketAssumption, PeerFacts DEF PrivTypes, linkVars, xmitVars
<1>1. CASE InitAllocate0
  BY <1>1 DEF InitAllocate0, Allocate, Stay, Nothing
<1>2. CASE InitRegister0
  BY <1>2 DEF InitRegister0, Register, Stay
<1>3. CASE InitAllocate1
  BY <1>3 DEF InitAllocate1, Allocate, Stay, Nothing
<1>4. CASE InitRegister1
  BY <1>4 DEF InitRegister1, Register, Free
<1>5. CASE Exit
  BY <1>5 DEF Exit, Unregister, Unregistered, Free, Stay
<1>6. ASSUME NEW d \in Devices, Ifup(d) PROVE PrivTypes'
  BY <1>6 DEF Ifup
<1>7. ASSUME NEW d \in Devices, Ifdown(d) PROVE PrivTypes'
  BY <1>7 DEF Ifdown
<1>8. ASSUME NEW s \in Devices, NEW length \in Lengths, Send(s, length) PROVE PrivTypes'
  BY <1>8 DEF Send, Goto, HardHeader
<1>9. ASSUME NEW s \in Devices, ChooseDst(s) PROVE PrivTypes'
  BY <1>9 DEF ChooseDst, Goto
<1>10. ASSUME NEW s \in Devices, CheckLength(s) PROVE PrivTypes'
  BY <1>10 DEF CheckLength, Goto
<1>11. ASSUME NEW s \in Devices, StoreSkb(s) PROVE PrivTypes'
  <2>1. packet[s].id \in 0 .. MaxPackets
    BY PacketAssumption DEF XmitTypes, Packets, Nothing
  <2>2. QED
    BY <1>11, <2>1 DEF StoreSkb, Goto
<1>12. ASSUME NEW s \in Devices, Rewrite(s) PROVE PrivTypes'
  BY <1>12 DEF Rewrite, Goto
<1>13. ASSUME NEW s \in Devices, CopyData(s) PROVE PrivTypes'
  <2>1. packet[s] \in Packets
    BY <1>13 DEF CopyData, PacketInv, PacketOf, Entered
  <2>2. packet[s].length \in ETH_ZLEN .. ETH_DATA_LEN
    <3>1. packet[s].length = Padded(sent[packet[s].id].length) /\ ~ TooLong(packet[s].length)
      BY <1>13 DEF CopyData, PacketInv, PacketOf, Entered, Accepted
    <3>2. sent[packet[s].id].length \in Nat
      <4>1. packet[s].id \in DOMAIN sent
        BY <1>13 DEF CopyData, PacketInv, PacketOf, Entered
      <4>2. sent[packet[s].id] \in Packets
        BY <4>1 DEF HistoryTypes
      <4>3. QED
        BY <4>2 DEF Packets
    <3>3. QED
      BY <3>1, <3>2, LengthAssumption DEF Padded, TooLong
  <2>3. data' = [data EXCEPT ![Peer(s)] = packet[s]] /\ UNCHANGED <<dev_addr, sk_b>>
    BY <1>13 DEF CopyData, Goto
  <2>4. QED
    BY <2>1, <2>2, <2>3
<1>14. ASSUME NEW s \in Devices, NEW alloc \in BOOLEAN, Receive(s, alloc) PROVE PrivTypes'
  BY <1>14 DEF Receive, Goto
<1>15. ASSUME NEW s \in Devices, CountSent(s) PROVE PrivTypes'
  BY <1>15 DEF CountSent, Goto
<1>16. ASSUME NEW s \in Devices, FreeSkb(s) PROVE PrivTypes'
  BY <1>16 DEF FreeSkb, Goto
<1>17. ASSUME NEW s \in Devices, Oops(s) PROVE PrivTypes'
  BY <1>17 DEF Oops, Goto
<1>18. CASE UNCHANGED vars
  BY <1>18 DEF vars
<1> HIDE DEF PrivTypes, linkVars, xmitVars
<1>19. QED
  BY <1>1, <1>2, <1>3, <1>4, <1>5, <1>6, <1>7, <1>8, <1>9, <1>10, <1>11, <1>12, <1>13,
     <1>14, <1>15, <1>16, <1>17, <1>18, StepCases
  DEF LoadStep, LinkStep, XmitStep, SendStep

\* A step keeps the types of the counters.
LEMMA CountTypesStep ==
    ASSUME PrivTypes, CountTypes, PacketInv, DataInv, [Next]_vars
    PROVE  CountTypes'
<1> USE PeerFacts DEF CountTypes, countVars
<1>1. CASE InitAllocate0
  <2>1. Zero \in Counters
    BY DEF Zero, Counters
  <2>2. QED
    BY <1>1, <2>1 DEF InitAllocate0, Allocate, Stay
<1>2. CASE InitRegister0
  BY <1>2 DEF InitRegister0, Register, Stay
<1>3. CASE InitAllocate1
  <2>1. Zero \in Counters
    BY DEF Zero, Counters
  <2>2. QED
    BY <1>3, <2>1 DEF InitAllocate1, Allocate, Stay
<1>4. CASE InitRegister1
  BY <1>4 DEF InitRegister1, Register, Free
<1>5. CASE Exit
  BY <1>5 DEF Exit, Unregister, Unregistered, Free, Stay
<1>6. CASE LinkStep
  BY <1>6, LinkFrame
<1>7. ASSUME NEW s \in Devices, NEW length \in Lengths, Send(s, length) PROVE CountTypes'
  BY <1>7 DEF Send, Goto, HardHeader
<1>8. ASSUME NEW s \in Devices, ChooseDst(s) PROVE CountTypes'
  BY <1>8 DEF ChooseDst, Goto
<1>9. ASSUME NEW s \in Devices, CheckLength(s) PROVE CountTypes'
  BY <1>9 DEF CheckLength, Goto
<1>10. ASSUME NEW s \in Devices, StoreSkb(s) PROVE CountTypes'
  BY <1>10 DEF StoreSkb, Goto
<1>11. ASSUME NEW s \in Devices, Rewrite(s) PROVE CountTypes'
  BY <1>11 DEF Rewrite, Goto
<1>12. ASSUME NEW s \in Devices, CopyData(s) PROVE CountTypes'
  BY <1>12 DEF CopyData, Goto
<1>13. ASSUME NEW s \in Devices, NEW alloc \in BOOLEAN, Receive(s, alloc) PROVE CountTypes'
  <2>1. packet[s].length \in Nat /\ data[Peer(s)] = packet[s]
    BY <1>13 DEF Receive, PacketInv, PacketOf, DataInv, Entered, Packets
  <2>2. /\ Count(rx[Peer(s)], data[Peer(s)].length) \in Counters
        /\ Count(missed[Peer(s)], data[Peer(s)].length) \in Counters
    BY <2>1 DEF Count, Counters
  <2>3. QED
    BY <1>13, <2>2 DEF Receive
<1>14. ASSUME NEW s \in Devices, CountSent(s) PROVE CountTypes'
  <2>1. packet[s].length \in Nat
    BY <1>14 DEF CountSent, PacketInv, PacketOf, Entered, Packets
  <2>2. Count(tx[s], packet[s].length) \in Counters
    BY <2>1 DEF Count, Counters
  <2>3. QED
    BY <1>14, <2>2 DEF CountSent
<1>15. ASSUME NEW s \in Devices, FreeSkb(s) PROVE CountTypes'
  BY <1>15 DEF FreeSkb, Goto
<1>16. ASSUME NEW s \in Devices, Oops(s) PROVE CountTypes'
  BY <1>16 DEF Oops, Goto
<1>17. CASE UNCHANGED vars
  BY <1>17 DEF vars
<1> HIDE DEF CountTypes, countVars
<1>18. QED
  BY <1>1, <1>2, <1>3, <1>4, <1>5, <1>6, <1>7, <1>8, <1>9, <1>10, <1>11, <1>12, <1>13,
     <1>14, <1>15, <1>16, <1>17, StepCases
  DEF LoadStep, XmitStep, SendStep

\* A step keeps the types of the history.
LEMMA HistoryTypesStep ==
    ASSUME XmitTypes, PrivTypes, CountTypes, HistoryTypes, LoadInv, LinkInv, PacketInv, DataInv,
           [Next]_vars
    PROVE  HistoryTypes'
<1> USE PeerFacts DEF HistoryTypes, historyVars
<1>1. CASE LoadStep
  BY <1>1, LoadFrame
<1>2. CASE LinkStep
  BY <1>2, LinkFrame
<1>3. ASSUME NEW s \in Devices, NEW length \in Lengths, Send(s, length) PROVE HistoryTypes'
  <2>1. Begins(s)
    BY <1>3, PacketCases DEF SendStep, Send, GoesOn, Refused, Freed, Entered, Accepted, Stored
  <2>2. PICK p \in Packets : sent' = Append(sent, p)
    BY <2>1 DEF Begins
  <2>3. sent' \in Seq(Packets) /\ Len(sent') = Len(sent) + 1 /\ Len(sent) \in Nat
    BY <2>2
  <2>4. Len(sent) < MaxPackets /\ UNCHANGED <<freed, received>>
    BY <2>1 DEF Begins
  <2>5. QED
    BY <2>3, <2>4, PacketAssumption
<1>4. ASSUME NEW s \in Devices, ChooseDst(s) PROVE HistoryTypes'
  BY <1>4 DEF ChooseDst, Goto
<1>5. ASSUME NEW s \in Devices, CheckLength(s) PROVE HistoryTypes'
  BY <1>5 DEF CheckLength, Goto
<1>6. ASSUME NEW s \in Devices, StoreSkb(s) PROVE HistoryTypes'
  BY <1>6 DEF StoreSkb, Goto
<1>7. ASSUME NEW s \in Devices, Rewrite(s) PROVE HistoryTypes'
  BY <1>7 DEF Rewrite, Goto
<1>8. ASSUME NEW s \in Devices, CopyData(s) PROVE HistoryTypes'
  BY <1>8 DEF CopyData, Goto
<1>9. ASSUME NEW s \in Devices, NEW alloc \in BOOLEAN, Receive(s, alloc) PROVE HistoryTypes'
  <2>1. data[Peer(s)] \in Packets
    BY <1>9 DEF Receive, PacketInv, PacketOf, DataInv, Entered
  <2>2. Append(received[Peer(s)], data[Peer(s)]) \in Seq(Packets)
    BY <2>1
  <2>3. received' \in [Devices -> Seq(Packets)]
    <3>1. \/ received' = received
          \/ received' = [received EXCEPT ![Peer(s)] = Append(@, data[Peer(s)])]
      BY <1>9 DEF Receive
    <3>2. QED
      BY <2>2, <3>1
  <2>4. QED
    BY <1>9, <2>3 DEF Receive
<1>10. ASSUME NEW s \in Devices, CountSent(s) PROVE HistoryTypes'
  BY <1>10 DEF CountSent, Goto
<1>11. ASSUME NEW s \in Devices, FreeSkb(s) PROVE HistoryTypes'
  <2>1. sk_b[s] # 0 => [freed EXCEPT ![sk_b[s]] = @ + 1] \in [1 .. MaxPackets -> Nat]
    BY DEF PrivTypes
  <2>2. QED
    BY <1>11, <2>1 DEF FreeSkb
<1>12. ASSUME NEW s \in Devices, Oops(s) PROVE HistoryTypes'
  BY <1>12 DEF Oops, Goto
<1>13. CASE UNCHANGED vars
  BY <1>13 DEF vars
<1> HIDE DEF HistoryTypes, historyVars
<1>14. QED
  BY <1>1, <1>2, <1>3, <1>4, <1>5, <1>6, <1>7, <1>8, <1>9, <1>10, <1>11, <1>12, <1>13, StepCases
  DEF XmitStep, SendStep
-----------------------------------------------------------------------------
\* The invariant holds in every behaviour of the specification.
THEOREM Invariance == Spec => []Inv
<1>1. ASSUME Inv, [Next]_vars PROVE Inv'
  <2>1. LoadTypes /\ XmitTypes /\ PrivTypes /\ CountTypes /\ HistoryTypes
    BY <1>1, TypeParts DEF Inv
  <2>2. LoadTypes' /\ XmitTypes' /\ PrivTypes' /\ CountTypes' /\ HistoryTypes'
    BY <1>1, <2>1, LoadTypesStep, XmitTypesStep, PrivTypesStep, CountTypesStep, HistoryTypesStep
       DEF Inv
  <2>3. TypeOK'
    <3>1. (TypeOK <=> LoadTypes /\ XmitTypes /\ PrivTypes /\ CountTypes /\ HistoryTypes)'
      BY TypeParts, PTL
    <3>2. QED
      BY <2>2, <3>1
  <2>4. LoadInv' /\ LinkInv' /\ PacketInv' /\ DataInv'
    BY <1>1, <2>1, LoadInvStep, LinkInvStep, PacketStep, DataStep DEF Inv
  <2>5. OrderInv' /\ FreedInv' /\ DeliveredIntact' /\ CountInv' /\ CountersAgree'
    BY <1>1, <2>1, OrderStep, FreedStep, DeliveredStep, CountStep, AgreeStep DEF Inv
  <2>6. QED
    BY <2>3, <2>4, <2>5 DEF Inv
<1>2. Inv /\ [Next]_vars => Inv'
  BY <1>1
<1>3. QED
  BY InitInv, <1>2, PTL DEF Spec

\* Every variable keeps its type; the private data holds no frame longer than its buffer (lines 147,
\* 165).
THEOREM TypeCorrect == Spec => []TypeOK
<1>1. Inv => TypeOK
  BY DEF Inv
<1>2. QED
  BY Invariance, <1>1, PTL

\* Every packet that start_xmit() takes and does not refuse is freed once, at its end (lines 150, 76).
THEOREM PacketsFreedOnce == Spec => []FreedOnce
<1>1. Inv => FreedOnce
  <2> SUFFICES ASSUME Inv, NEW i \in DOMAIN sent
               PROVE  freed[i] = IF (\E s \in Devices : packet[s].id = i)
                                     \/ TooLong(Padded(sent[i].length)) THEN 0 ELSE 1
    BY DEF FreedOnce
  <2>1. i \in 1 .. MaxPackets /\ i <= Len(sent)
    BY PacketAssumption DEF Inv, TypeOK
  <2>2. QED
    BY <2>1 DEF Inv, FreedInv, InFlight, TooLong, Padded
<1>2. QED
  BY Invariance, <1>1, PTL

\* What a device gives to the kernel is what its peer sent to it, once and in order (lines 87,
\* 140-166, 193-196).
THEOREM DeliveryIntact == Spec => []DeliveredIntact
<1>1. Inv => DeliveredIntact
  BY DEF Inv
<1>2. QED
  BY Invariance, <1>1, PTL

\* What one device counts as sent its peer counts as received or missed (lines 52-53, 169-170).
THEOREM CountersMatch == Spec => []CountersAgree
<1>1. Inv => CountersAgree
  BY DEF Inv
<1>2. QED
  BY Invariance, <1>1, PTL
=============================================================================
