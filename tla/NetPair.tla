------------------------------- MODULE NetPair -------------------------------
(***************************************************************************)
(* The two linked network devices of                                       *)
(* exemples/06-driver-reseau/example-VI-03.c (example-VI-02.c is the same  *)
(* without the counters): what one sends the other receives, copied        *)
(* through the private data of the receiver.                               *)
(*                                                                         *)
(* The kernel sends the packets of a device one after the other, those of  *)
(* the two devices at the same time; the module is loaded and unloaded     *)
(* meanwhile.  A packet is a record: where its ethernet header sends it,   *)
(* its length, and what became of its IP addresses.                        *)
(***************************************************************************)
EXTENDS Naturals, Sequences

CONSTANTS
    ETH_ZLEN, ETH_DATA_LEN,    \* shortest frame, and size of the buffer
    Lengths,                   \* lengths of the frames the kernel sends
    MaxPackets                 \* bound on the packets sent

ASSUME LengthAssumption ==
    ETH_ZLEN \in Nat /\ ETH_DATA_LEN \in Nat /\ ETH_ZLEN <= ETH_DATA_LEN /\ Lengths \subseteq Nat
ASSUME PacketAssumption == MaxPackets \in Nat

VARIABLES
    core,        \* where the thread of insmod and rmmod is
    allocated,   \* the devices whose memory exists
    pointer,     \* the devices d with net_dev_ex_d # NULL
    registered, up,
    dev_addr,    \* last byte of the device's address; 2 before the first open()
    grace,       \* the devices whose transmission unregister_netdev() waits for
    pc,          \* where start_xmit() of a device is
    dst,         \* its local dst: not NULL
    packet,      \* its sk_b
    sk_b, data,  \* in the private data, with data_len as data's length
    rx, tx,      \* the counters, [packets, bytes]
    missed,      \* history: what the receiver had no memory for
    sent,        \* history: the packets as the kernel handed them over
    freed,       \* history: how often each was freed
    received     \* history: what each device gave to the kernel

loadVars == <<core, allocated, pointer, registered, grace>>
linkVars == <<up, dev_addr>>
xmitVars == <<pc, dst, packet, sk_b, data>>
countVars == <<rx, tx, missed>>
historyVars == <<sent, freed, received>>
vars == <<loadVars, linkVars, xmitVars, countVars, historyVars>>

Devices == {0, 1}
Peer(d) == 1 - d

Packets == [id : 1 .. MaxPackets, dest : Devices, length : Nat, addresses : {"sent", "rewritten"}]
Nothing == [id |-> 0, length |-> 0]
Zero == [packets |-> 0, bytes |-> 0]
Counters == [packets : Nat, bytes : Nat]

TypeOK ==
    /\ core \in {"absent", "reg0", "alloc1", "reg1", "live", "wait1", "free1", "null1",
                 "unreg0", "wait0", "free0"}
    /\ allocated \subseteq Devices /\ pointer \subseteq Devices
    /\ registered \subseteq allocated /\ up \subseteq registered
    /\ dev_addr \in [Devices -> 0 .. 2]
    /\ grace \subseteq Devices
    /\ pc \in [Devices -> {"idle", "choose", "check", "store", "rewrite", "copy", "receive",
                           "count", "free", "oops"}]
    /\ dst \in [Devices -> BOOLEAN]
    /\ packet \in [Devices -> Packets \cup {Nothing}]
    /\ sk_b \in [Devices -> 0 .. MaxPackets]
    /\ data \in [Devices -> Packets \cup {Nothing}]
    /\ \A d \in Devices : data[d] # Nothing => data[d].length \in ETH_ZLEN .. ETH_DATA_LEN
    /\ {rx, tx, missed} \subseteq [Devices -> Counters]
    /\ sent \in Seq(Packets) /\ Len(sent) <= MaxPackets
    /\ freed \in [1 .. MaxPackets -> Nat]
    /\ received \in [Devices -> Seq(Packets)]

Init ==
    /\ core = "absent"
    /\ allocated = {} /\ pointer = {} /\ registered = {} /\ up = {} /\ grace = {}
    /\ dev_addr = [d \in Devices |-> 2]
    /\ pc = [d \in Devices |-> "idle"] /\ dst = [d \in Devices |-> FALSE]
    /\ packet = [d \in Devices |-> Nothing]
    /\ sk_b = [d \in Devices |-> 0] /\ data = [d \in Devices |-> Nothing]
    /\ rx = [d \in Devices |-> Zero] /\ tx = rx /\ missed = rx
    /\ sent = <<>> /\ freed = [i \in 1 .. MaxPackets |-> 0]
    /\ received = [d \in Devices |-> <<>>]
-----------------------------------------------------------------------------
\* insmod and rmmod.
Stay == UNCHANGED <<allocated, pointer, registered, grace, linkVars, xmitVars, countVars, historyVars>>

\* alloc_netdev() with example_setup(): the private data and the counters are zero.
Allocate(d) ==
    /\ allocated' = allocated \cup {d} /\ pointer' = pointer \cup {d}
    /\ dev_addr' = [dev_addr EXCEPT ![d] = 2]
    /\ sk_b' = [sk_b EXCEPT ![d] = 0] /\ data' = [data EXCEPT ![d] = Nothing]
    /\ rx' = [rx EXCEPT ![d] = Zero] /\ tx' = [tx EXCEPT ![d] = Zero]
    /\ missed' = [missed EXCEPT ![d] = Zero]
    /\ UNCHANGED <<registered, up, grace, pc, dst, packet, historyVars>>

Register(d) ==
    /\ registered' = registered \cup {d}
    /\ UNCHANGED <<allocated, pointer, grace, linkVars, xmitVars, countVars, historyVars>>

Free(d) ==
    /\ allocated' = allocated \ {d}
    /\ UNCHANGED <<pointer, registered, grace, linkVars, xmitVars, countVars, historyVars>>

\* unregister_netdev() stops the device once its own transmission is over, then waits for
\* every transmission that has begun.
Unregister(d) ==
    /\ pc[d] = "idle"
    /\ registered' = registered \ {d} /\ up' = up \ {d}
    /\ grace' = {s \in Devices : pc[s] # "idle"}
    /\ UNCHANGED <<allocated, pointer, dev_addr, xmitVars, countVars, historyVars>>

Unregistered == grace = {} /\ Stay

\* A module that was not loaded, or could not be, has its static pointers NULL.
InitAllocate0 ==
    /\ core = "absent" /\ core' = "reg0"
    /\ Allocate(0)

InitRegister0 ==
    /\ core = "reg0"
    /\ \/ core' = "alloc1" /\ Register(0)
       \/ core' = "free0" /\ Stay

InitAllocate1 ==
    /\ core = "alloc1"
    /\ \/ core' = "reg1" /\ Allocate(1)
       \/ core' = "unreg0" /\ Stay

\* The second device is freed, with its pointer left, before the first is unregistered.
InitRegister1 ==
    /\ core = "reg1"
    /\ \/ core' = "live" /\ Register(1)
       \/ core' = "unreg0" /\ Free(1)

Exit ==
    \/ core = "live"   /\ core' = "wait1"  /\ Unregister(1)
    \/ core = "wait1"  /\ core' = "free1"  /\ Unregistered
    \/ core = "free1"  /\ core' = "null1"  /\ Free(1)
    \/ /\ core = "null1" /\ core' = "unreg0"
       /\ pointer' = pointer \ {1}
       /\ UNCHANGED <<allocated, registered, grace, linkVars, xmitVars, countVars, historyVars>>
    \/ core = "unreg0" /\ core' = "wait0"  /\ Unregister(0)
    \/ core = "wait0"  /\ core' = "free0"  /\ Unregistered
    \/ /\ core = "free0" /\ core' = "absent"
       /\ allocated' = allocated \ {0} /\ pointer' = {}
       /\ UNCHANGED <<registered, grace, linkVars, xmitVars, countVars, historyVars>>

LoadStep == InitAllocate0 \/ InitRegister0 \/ InitAllocate1 \/ InitRegister1 \/ Exit
-----------------------------------------------------------------------------
Ifup(d) ==
    /\ d \in registered \ up
    /\ up' = up \cup {d}
    /\ dev_addr' = [dev_addr EXCEPT ![d] = IF d = 1 /\ 1 \in pointer THEN 1 ELSE 0]
    /\ UNCHANGED <<loadVars, xmitVars, countVars, historyVars>>

\* netif_tx_disable() waits for a transmission that is under way.
Ifdown(d) ==
    /\ d \in up /\ pc[d] = "idle"
    /\ up' = up \ {d}
    /\ UNCHANGED <<loadVars, dev_addr, xmitVars, countVars, historyVars>>

\* hard_header(): without an address given it is the device's own, with the last byte changed.
HardHeader(d) == IF dev_addr[d] = 0 THEN 1 ELSE 0

Goto(s, label) ==
    /\ pc' = [pc EXCEPT ![s] = label]
    /\ grace' = IF label = "idle" THEN grace \ {s} ELSE grace
    /\ UNCHANGED <<core, allocated, pointer, registered, linkVars>>

\* The kernel builds a packet and calls start_xmit().
Send(s, length) ==
    /\ s \in up /\ pc[s] = "idle" /\ Len(sent) < MaxPackets
    /\ LET p == [id |-> Len(sent) + 1, dest |-> HardHeader(s), length |-> length,
                 addresses |-> "sent"]
       IN  sent' = Append(sent, p) /\ packet' = [packet EXCEPT ![s] = p]
    /\ Goto(s, "choose")
    /\ UNCHANGED <<dst, sk_b, data, countVars, freed, received>>

ChooseDst(s) ==
    /\ pc[s] = "choose"
    /\ dst' = [dst EXCEPT ![s] = Peer(s) \in pointer]
    /\ Goto(s, "check")
    /\ UNCHANGED <<packet, sk_b, data, countVars, historyVars>>

\* MUTANT of TooLong: the room for the ethernet header is forgotten.
TooLongByHeader(len) == len > ETH_DATA_LEN + 1

TooLong(len) == len > ETH_DATA_LEN

Padded(len) == IF len < ETH_ZLEN THEN ETH_ZLEN ELSE len

\* A short packet is padded, a long one refused: nobody frees it.
CheckLength(s) ==
    /\ pc[s] = "check"
    /\ LET len == Padded(packet[s].length)
       IN  IF TooLong(len)
           THEN packet' = [packet EXCEPT ![s] = Nothing] /\ Goto(s, "idle")
           ELSE packet' = [packet EXCEPT ![s].length = len] /\ Goto(s, "store")
    /\ UNCHANGED <<dst, sk_b, data, countVars, historyVars>>

\* MUTANT of StoreSkb: the packet is not stored.
StoreSkbForgotten(s) ==
    /\ pc[s] = "store"
    /\ Goto(s, "rewrite")
    /\ UNCHANGED <<dst, packet, sk_b, data, countVars, historyVars>>

StoreSkb(s) ==
    /\ pc[s] = "store"
    /\ sk_b' = [sk_b EXCEPT ![s] = packet[s].id]
    /\ Goto(s, "rewrite")
    /\ UNCHANGED <<dst, packet, data, countVars, historyVars>>

\* The third byte of both IP addresses is complemented and the checksum computed again.
Rewrite(s) ==
    /\ pc[s] = "rewrite"
    /\ packet' = [packet EXCEPT ![s].addresses = "rewritten"]
    /\ Goto(s, "copy")
    /\ UNCHANGED <<dst, sk_b, data, countVars, historyVars>>

PeerThere(s) == dst[s] /\ Peer(s) \in allocated

\* MUTANT of CopyData: into the private data of the sender.
CopyDataToOwn(s) ==
    /\ pc[s] = "copy" /\ PeerThere(s)
    /\ data' = [data EXCEPT ![s] = packet[s]]
    /\ Goto(s, "receive")
    /\ UNCHANGED <<dst, packet, sk_b, countVars, historyVars>>

CopyData(s) ==
    /\ pc[s] = "copy" /\ PeerThere(s)
    /\ data' = [data EXCEPT ![Peer(s)] = packet[s]]
    /\ Goto(s, "receive")
    /\ UNCHANGED <<dst, packet, sk_b, countVars, historyVars>>

Count(c, len) == [packets |-> c.packets + 1, bytes |-> c.bytes + len]

\* MUTANT of Receive: the packet is counted before the allocation that may fail.
ReceiveCountedFirst(s, alloc) ==
    /\ pc[s] = "receive" /\ PeerThere(s)
    /\ LET d == Peer(s) IN
       /\ rx' = [rx EXCEPT ![d] = Count(@, data[d].length)]
       /\ IF alloc
          THEN /\ received' = [received EXCEPT ![d] = IF d \in up THEN Append(@, data[d]) ELSE @]
               /\ UNCHANGED missed
          ELSE /\ missed' = [missed EXCEPT ![d] = Count(@, data[d].length)]
               /\ UNCHANGED received
    /\ Goto(s, "count")
    /\ UNCHANGED <<dst, packet, sk_b, data, tx, sent, freed>>

\* rx_handler() of the peer.  The kernel drops the packet when the peer is down.
Receive(s, alloc) ==
    /\ pc[s] = "receive" /\ PeerThere(s)
    /\ LET d == Peer(s) IN
       IF alloc
       THEN /\ rx' = [rx EXCEPT ![d] = Count(@, data[d].length)]
            /\ received' = [received EXCEPT ![d] = IF d \in up THEN Append(@, data[d]) ELSE @]
            /\ UNCHANGED missed
       ELSE /\ missed' = [missed EXCEPT ![d] = Count(@, data[d].length)]
            /\ UNCHANGED <<rx, received>>
    /\ Goto(s, "count")
    /\ UNCHANGED <<dst, packet, sk_b, data, tx, sent, freed>>

CountSent(s) ==
    /\ pc[s] = "count"
    /\ tx' = [tx EXCEPT ![s] = Count(@, packet[s].length)]
    /\ Goto(s, "free")
    /\ UNCHANGED <<dst, packet, sk_b, data, rx, missed, historyVars>>

\* tx_handler() of the sender, and NETDEV_TX_OK.
FreeSkb(s) ==
    /\ pc[s] = "free"
    /\ freed' = IF sk_b[s] = 0 THEN freed ELSE [freed EXCEPT ![sk_b[s]] = @ + 1]
    /\ packet' = [packet EXCEPT ![s] = Nothing]
    /\ dst' = [dst EXCEPT ![s] = FALSE]
    /\ Goto(s, "idle")
    /\ UNCHANGED <<sk_b, data, countVars, sent, received>>

\* The private data of a device that does not exist: no more is said of this transmission.
Oops(s) ==
    /\ pc[s] \in {"copy", "receive"} /\ ~ PeerThere(s)
    /\ Goto(s, "oops")
    /\ UNCHANGED <<dst, packet, sk_b, data, countVars, historyVars>>

XmitStep(s) ==
    \/ ChooseDst(s) \/ CheckLength(s) \/ StoreSkb(s) \/ Rewrite(s) \/ CopyData(s)
    \/ \E alloc \in BOOLEAN : Receive(s, alloc)
    \/ CountSent(s) \/ FreeSkb(s) \/ Oops(s)

Next ==
    \/ LoadStep
    \/ \E d \in Devices :
        \/ Ifup(d) \/ Ifdown(d)
        \/ \E length \in Lengths : Send(d, length)
        \/ XmitStep(d)

Spec == Init /\ [][Next]_vars
-----------------------------------------------------------------------------
\* A packet handed to start_xmit() is freed once, when the call ends and never before, whichever
\* packet of which device comes meanwhile (lines 150, 76).  Oversize packets are the exception:
\* line 148 gives them up without freeing them, although the kernel takes a negative result for
\* a packet the driver has consumed.
FreedOnce ==
    \A i \in DOMAIN sent :
        LET inFlight == \E s \in Devices : packet[s].id = i
        IN  freed[i] = IF inFlight \/ TooLong(Padded(sent[i].length)) THEN 0 ELSE 1

\* What a device gives to the kernel was sent by the other one, to its address, in the order of
\* sending and once; it has the length sent, or the shortest of a frame, and the IP addresses of
\* the receiver's network (lines 87, 140-166, 193-196).
DeliveredIntact ==
    \A d \in Devices :
        /\ \A i \in DOMAIN received[d] :
            LET p == received[d][i]
            IN  /\ p.id \in DOMAIN sent
                /\ p.length = Padded(sent[p.id].length)
                /\ p.addresses = "rewritten"
                /\ p.dest = d /\ dev_addr[d] \in {d, 2}
        /\ \A i, j \in DOMAIN received[d] : i < j => received[d][i].id < received[d][j].id

\* While both devices exist, from the allocation of the second to rmmod, what one counts as sent
\* is what the other counts as received and what it had no memory for, but for the packet that is
\* between the two statements (lines 48, 52-53, 169-170).
CountersAgree ==
    core \in {"reg1", "live"} => \A s \in Devices :
        LET d == Peer(s)
            between == IF pc[s] = "count" THEN Count(Zero, packet[s].length) ELSE Zero
        IN  /\ tx[s].packets + between.packets = rx[d].packets + missed[d].packets
            /\ tx[s].bytes + between.bytes = rx[d].bytes + missed[d].bytes
=============================================================================
