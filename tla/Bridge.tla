-------------------------------- MODULE Bridge --------------------------------
(***************************************************************************)
(* The data path of the bridge: the five tasks of uart.c, apps.c and ip.c  *)
(* that move LocalTalk frames between the TashTalk and UDP, the three      *)
(* queues app_main puts between them, and the buffer pool they share.      *)
(*                                                                         *)
(*   UART_RX --UARTtoApps--> APPS --AppsToUDP--> LToUDP-tx                 *)
(*                             |                                           *)
(*                          (replies)                                      *)
(*                             v                                           *)
(*   UART_TX <-----------UDPtoUART <------------ LToUDP-rx                 *)
(*                                                                         *)
(* The tasks have one priority and run on two cores, so every interleaving *)
(* of their steps is possible.  A step is what a task does between two     *)
(* operations on a queue or on the pool.                                   *)
(*                                                                         *)
(* A frame is a record of what the path looks at: the kind of packet, its  *)
(* source and its destination.  Time is left to NodeTable: here a node     *)
(* that has been seen may or may not be fresh, one that was never seen is  *)
(* not.  The bytes on the UART and the handshake counter do not influence  *)
(* the path and belong to the UART link.                                   *)
(***************************************************************************)
EXTENDS Naturals, Sequences, Functions, FiniteSets

CONSTANTS
    BufferCount,  \* buffers in the pool: 180
    QueueLength,  \* capacity of each of the three queues: 60
    LTFrames,     \* the frames TashTalk can deliver
    IPFrames,     \* the datagrams (longer than 7 bytes) UDP can deliver
    MaxReplies    \* bound on the access points one scan can find

Kinds == {"data", "handshake", "lkup", "config", "runt", "bad", "blank"}
Frame == [kind : Kinds, src : 0 .. 255, dst : 0 .. 255]

Broadcast == 255
FakeNode == 129

\* The reply to an NBP lookup, from a node that does not exist.
FakeReply(node) == [kind |-> "data", src |-> FakeNode, dst |-> node]

\* What a buffer reads as after bzero: length 0 and destination byte 0.
Blank == [kind |-> "blank", src |-> 0, dst |-> 0]

ASSUME BufferCountAssumption == BufferCount \in Nat \ {0}
ASSUME QueueLengthAssumption == QueueLength \in Nat \ {0}
ASSUME FramesAssumption == LTFrames \subseteq Frame /\ IPFrames \subseteq Frame
ASSUME MaxRepliesAssumption == MaxReplies \in Nat

\* Everything a buffer may ever hold.
WireFrames == LTFrames \cup IPFrames
Sources == {0} \cup {f.src : f \in WireFrames}
Contents == {Blank} \cup WireFrames \cup {FakeReply(node) : node \in Sources}

Queues == {"UARTtoApps", "AppsToUDP", "UDPtoUART"}

\* The places that can hold a pointer: packet_in_progress of UART_RX, the local
\* `packet` of each other task, and that of send_fake_nbp_LkUpReply.
Slots == {"uart_rx", "apps", "reply", "udp_tx", "udp_rx", "uart_tx"}

VARIABLES
    pool, hand, wiping, data, ohNo,  \* the buffer pool, as in BufferPool
    q,                  \* q[k]: the pointers waiting in queue k, oldest first
    rx_pc,              \* UART_RX is in "feed", "starved" in it, or in "send"
    apps_pc,            \* APPS is in "recv", "examine", "reply" or "forward"
    replies,            \* scan results APPS has still to send
    nbp_addr,           \* the node that asked for them
    node_table,         \* seen_at_all of uart.c: nodes heard over UDP
    forward_for_nodes   \* seen_at_all of ip.c: nodes heard on LocalTalk

poolVars == <<pool, hand, wiping, data, ohNo>>
tables == <<node_table, forward_for_nodes>>
apps == <<apps_pc, replies, nbp_addr>>
vars == <<poolVars, q, rx_pc, apps, tables>>

Buffers == 1 .. BufferCount
Null == 0
Travelling == UNION {Range(q[k]) : k \in Queues}

Pool == INSTANCE BufferPool
        WITH Holders <- Slots,  away <- Travelling

Packet(s) == data[hand[s]]
Waiting(s) == hand[s] = Null /\ wiping[s] = Null

-----------------------------------------------------------------------------
(* FreeRTOS queues.  A send blocks while the queue is full, a receive while *)
(* it is empty.  A pointer that was sent no longer belongs to the sender.  *)

xQueueSendToBack_Overfills(k, s) ==
    /\ Len(q[k]) <= QueueLength
    /\ q' = [q EXCEPT ![k] = Append(@, hand[s])]
    /\ hand' = [hand EXCEPT ![s] = Null]

xQueueSendToBack_OffByOne(k, s) ==
    /\ Len(q[k]) < QueueLength - 1
    /\ q' = [q EXCEPT ![k] = Append(@, hand[s])]
    /\ hand' = [hand EXCEPT ![s] = Null]

xQueueSendToBack(k, s) ==
    /\ Len(q[k]) < QueueLength
    /\ q' = [q EXCEPT ![k] = Append(@, hand[s])]
    /\ hand' = [hand EXCEPT ![s] = Null]

xQueueReceive(k, s) ==
    /\ q[k] # <<>>
    /\ hand' = [hand EXCEPT ![s] = Head(q[k])]
    /\ q' = [q EXCEPT ![k] = Tail(@)]

(* node_table.c, without the clock.                                        *)

nt_touch(seen, node) == seen \cup ({node} \ {0, Broadcast})

\* May nt_fresh say yes?  It may always say no: a seen node can be stale.
MayBeFresh(seen, node) == node \in seen

-----------------------------------------------------------------------------
(* bp_relinquish, in two steps: see BufferPool.                            *)

Relinquish(s) == Pool!bp_relinquish(s) /\ UNCHANGED data

Zero(s) ==
    /\ wiping[s] # Null
    /\ Pool!bp_relinquish_zero(s)
    /\ UNCHANGED <<pool, hand, ohNo, q, rx_pc, apps, tables>>

\* bp_fetch followed by filling the buffer, before anybody else can see it.
FetchInto(s, f) ==
    /\ Pool!bp_fetch(s)
    /\ data' = [data EXCEPT ![Head(pool)] = f]
    /\ UNCHANGED ohNo

Underflow == Pool!bp_fetch_underflow /\ UNCHANGED <<pool, hand, data>>

-----------------------------------------------------------------------------
(* UART_RX: feed, and do_something_sensible_with_packet.                   *)

\* A byte arrives and there is no packet in progress.
UartRxFirstByte ==
    /\ rx_pc = "feed" /\ Waiting("uart_rx")
    /\ \/ Pool!bp_fetch("uart_rx") /\ UNCHANGED <<ohNo, rx_pc>>
       \/ /\ Pool!bp_fetch_underflow
          /\ rx_pc' = "starved"
          /\ UNCHANGED <<pool, hand>>
    /\ UNCHANGED <<wiping, data, q, apps, tables>>

\* "around and around and around we go": poll the pool every 10 ms.
UartRxRetry ==
    /\ rx_pc = "starved"
    /\ Pool!bp_fetch("uart_rx")
    /\ rx_pc' = "feed"
    /\ UNCHANGED <<wiping, data, ohNo, q, apps, tables>>

Feeding == rx_pc = "feed" /\ hand["uart_rx"] # Null

\* Bytes are appended until the buffer reads as the frame f.
UartRxBytes(f) ==
    /\ Feeding
    /\ data' = [data EXCEPT ![hand["uart_rx"]] = f]
    /\ UNCHANGED <<pool, hand, wiping, ohNo, q, rx_pc, apps, tables>>

\* 0x00 0xFE (framing error) and 0x00 0xFA (abort).
UartRxAbort ==
    /\ Feeding
    /\ Relinquish("uart_rx")
    /\ UNCHANGED <<q, rx_pc, apps, tables>>

\* 0x00 0xFD: a complete frame, forwarded whatever its CRC if it is for
\* everybody or for a node heard over UDP within the hour.
UartRxAccept_Unchecked ==
    /\ Feeding
    /\ rx_pc' = "send"
    /\ UNCHANGED <<poolVars, q, apps, tables>>

UartRxAccept ==
    /\ Feeding
    /\ \/ Packet("uart_rx").dst = Broadcast
       \/ MayBeFresh(node_table, Packet("uart_rx").dst)
    /\ rx_pc' = "send"
    /\ UNCHANGED <<poolVars, q, apps, tables>>

UartRxDrop ==
    /\ Feeding
    /\ Packet("uart_rx").dst # Broadcast
    /\ Relinquish("uart_rx")
    /\ UNCHANGED <<q, rx_pc, apps, tables>>

UartRxSend ==
    /\ rx_pc = "send"
    /\ xQueueSendToBack("UARTtoApps", "uart_rx")
    /\ rx_pc' = "feed"
    /\ UNCHANGED <<pool, wiping, data, ohNo, apps, tables>>

-----------------------------------------------------------------------------
(* APPS: apps_runloop, scan_and_send_results, send_fake_nbp_LkUpReply.     *)

AppsReceive ==
    /\ apps_pc = "recv"
    /\ xQueueReceive("UARTtoApps", "apps")
    /\ apps_pc' = "examine"
    /\ UNCHANGED <<pool, wiping, data, ohNo, rx_pc, replies, nbp_addr, tables>>

\* An NBP lookup for AirTalkAP is answered with the access points of the last
\* scan, none if it is older than 30 s.
AppsExamine ==
    /\ apps_pc = "examine" /\ Packet("apps").kind # "config"
    /\ IF Packet("apps").kind = "lkup"
       THEN /\ replies' \in 0 .. MaxReplies
            /\ nbp_addr' = Packet("apps").src
            /\ apps_pc' = "reply"
       ELSE apps_pc' = "forward" /\ UNCHANGED <<replies, nbp_addr>>
    /\ UNCHANGED <<poolVars, q, rx_pc, tables>>

\* One result: build its reply, or give it up when the pool is empty.
AppsReplyBuild ==
    /\ apps_pc = "reply" /\ hand["reply"] = Null /\ replies > 0
    /\ \/ FetchInto("reply", FakeReply(nbp_addr))
       \/ Underflow
    /\ replies' = replies - 1
    /\ UNCHANGED <<wiping, q, rx_pc, apps_pc, nbp_addr, tables>>

AppsReplySend_Relinquishes ==
    /\ apps_pc = "reply" /\ hand["reply"] # Null
    /\ Len(q["UDPtoUART"]) < QueueLength
    /\ q' = [q EXCEPT !["UDPtoUART"] = Append(@, hand["reply"])]
    /\ Pool!bp_relinquish("reply")
    /\ UNCHANGED <<data, rx_pc, apps, tables>>

AppsReplySend_OwnQueue ==
    /\ apps_pc = "reply" /\ hand["reply"] # Null
    /\ xQueueSendToBack("UARTtoApps", "reply")
    /\ UNCHANGED <<pool, wiping, data, ohNo, rx_pc, apps, tables>>

AppsReplySend ==
    /\ apps_pc = "reply" /\ hand["reply"] # Null
    /\ xQueueSendToBack("UDPtoUART", "reply")
    /\ UNCHANGED <<pool, wiping, data, ohNo, rx_pc, apps, tables>>

AppsRepliesDone ==
    /\ apps_pc = "reply" /\ hand["reply"] = Null /\ replies = 0
    /\ apps_pc' = "forward"
    /\ UNCHANGED <<poolVars, q, rx_pc, replies, nbp_addr, tables>>

AppsForward_NoWait ==
    /\ apps_pc = "forward" /\ apps_pc' = "recv"
    /\ \/ /\ xQueueSendToBack("AppsToUDP", "apps")
          /\ UNCHANGED <<pool, wiping, ohNo>>
       \/ /\ Len(q["AppsToUDP"]) = QueueLength
          /\ Pool!bp_relinquish("apps")
          /\ UNCHANGED q
    /\ UNCHANGED <<data, rx_pc, replies, nbp_addr, tables>>

AppsForward ==
    /\ apps_pc = "forward"
    /\ xQueueSendToBack("AppsToUDP", "apps")
    /\ apps_pc' = "recv"
    /\ UNCHANGED <<pool, wiping, data, ohNo, rx_pc, replies, nbp_addr, tables>>

\* A configuration packet: the details are stored, and esp_restart does not
\* return.  Everything but the flash starts again.
AppsRestart ==
    /\ apps_pc = "examine" /\ Packet("apps").kind = "config"
    /\ q' = [k \in Queues |-> <<>>]
    /\ Pool!Restart
    /\ rx_pc' = "feed" /\ apps_pc' = "recv" /\ replies' = 0 /\ nbp_addr' = 0
    /\ node_table' = {} /\ forward_for_nodes' = {}

-----------------------------------------------------------------------------
(* LToUDP-tx and LToUDP-rx: udp_tx_runloop and udp_rx_runloop.             *)

\* Take a frame, note its sender, send it unless it is an RTS or a CTS or there
\* is no socket.  Frames of up to three bytes are sent but teach nothing.
UdpTxTransmit ==
    /\ Waiting("udp_tx")
    /\ xQueueReceive("AppsToUDP", "udp_tx")
    /\ LET packet == data[Head(q["AppsToUDP"])]
       IN  forward_for_nodes' = IF packet.kind \in {"runt", "blank"}
                                THEN forward_for_nodes
                                ELSE nt_touch(forward_for_nodes, packet.src)
    /\ UNCHANGED <<pool, wiping, data, ohNo, rx_pc, apps, node_table>>

UdpTxRelease_Leaks ==
    /\ hand["udp_tx"] # Null
    /\ hand' = [hand EXCEPT !["udp_tx"] = Null]
    /\ UNCHANGED <<pool, wiping, data, ohNo, q, rx_pc, apps, tables>>

UdpTxRelease ==
    /\ hand["udp_tx"] # Null
    /\ Relinquish("udp_tx")
    /\ UNCHANGED <<q, rx_pc, apps, tables>>

\* A datagram for a node heard on LocalTalk, or for everybody.  Any other is
\* ignored, and so is this one when the pool is empty.
UdpRxDatagram(f) ==
    /\ Waiting("udp_rx")
    /\ f.dst = Broadcast \/ MayBeFresh(forward_for_nodes, f.dst)
    /\ FetchInto("udp_rx", f) \/ Underflow
    /\ UNCHANGED <<wiping, q, rx_pc, apps, tables>>

UdpRxSend ==
    /\ hand["udp_rx"] # Null
    /\ xQueueSendToBack("UDPtoUART", "udp_rx")
    /\ UNCHANGED <<pool, wiping, data, ohNo, rx_pc, apps, tables>>

-----------------------------------------------------------------------------
(* UART_TX: uart_tx_runloop.                                               *)

\* Take a frame; if it is valid, note its sender and write it to the UART.
UartTxWrite ==
    /\ Waiting("uart_tx")
    /\ xQueueReceive("UDPtoUART", "uart_tx")
    /\ LET packet == data[Head(q["UDPtoUART"])]
       IN  node_table' = IF packet.kind \in {"bad", "runt", "blank"}
                         THEN node_table
                         ELSE nt_touch(node_table, packet.src)
    /\ UNCHANGED <<pool, wiping, data, ohNo, rx_pc, apps, forward_for_nodes>>

UartTxRelease ==
    /\ hand["uart_tx"] # Null
    /\ Relinquish("uart_tx")
    /\ UNCHANGED <<q, rx_pc, apps, tables>>

-----------------------------------------------------------------------------
Init ==
    /\ Pool!new_buffer_pool
    /\ q = [k \in Queues |-> <<>>]
    /\ rx_pc = "feed" /\ apps_pc = "recv" /\ replies = 0 /\ nbp_addr = 0
    /\ node_table = {} /\ forward_for_nodes = {}

UartRx ==
    \/ UartRxFirstByte \/ UartRxRetry \/ UartRxAbort
    \/ UartRxAccept \/ UartRxDrop \/ UartRxSend
    \/ \E f \in LTFrames : UartRxBytes(f)

Apps ==
    \/ AppsReceive \/ AppsExamine \/ AppsReplyBuild \/ AppsReplySend
    \/ AppsRepliesDone \/ AppsForward \/ AppsRestart

Udp ==
    \/ UdpTxTransmit \/ UdpTxRelease \/ UdpRxSend
    \/ \E f \in IPFrames : UdpRxDatagram(f)

UartTx == UartTxWrite \/ UartTxRelease

Next == UartRx \/ Apps \/ Udp \/ UartTx \/ \E s \in Slots : Zero(s)

Spec == Init /\ [][Next]_vars

-----------------------------------------------------------------------------
(* Safety.                                                                 *)

\* A task holds a buffer exactly when its program counter says so, and owns
\* none while it is zeroing the one it has given back.  APPS gives none back.
HandsMatch ==
    /\ rx_pc = "starved" => Waiting("uart_rx")
    /\ rx_pc = "send" => hand["uart_rx"] # Null
    /\ apps_pc = "recv" <=> hand["apps"] = Null
    /\ hand["reply"] # Null => apps_pc = "reply"
    /\ wiping["apps"] = Null /\ wiping["reply"] = Null
    /\ \A s \in Slots : hand[s] # Null => wiping[s] = Null

\* Every variable stays in its type, no queue is longer than its capacity, and
\* the program counters of UART_RX and APPS say which pointers are in use.
TypeOK ==
    /\ pool \in Seq(Buffers)
    /\ hand \in [Slots -> Buffers \cup {Null}]
    /\ wiping \in [Slots -> Buffers \cup {Null}]
    /\ data \in [Buffers -> Contents]
    /\ ohNo \in BOOLEAN
    /\ q \in [Queues -> Seq(Buffers)]
    /\ \A k \in Queues : Len(q[k]) <= QueueLength
    /\ rx_pc \in {"feed", "starved", "send"}
    /\ apps_pc \in {"recv", "examine", "reply", "forward"}
    /\ replies \in 0 .. MaxReplies
    /\ nbp_addr \in Sources
    /\ node_table \subseteq 1 .. 254
    /\ forward_for_nodes \subseteq 1 .. 254
    /\ HandsMatch

\* No pointer is twice in a queue or in two queues.
QueuesExclusive ==
    /\ \A k \in Queues : IsInjective(q[k])
    /\ \A j, k \in Queues : j # k => Range(q[j]) \cap Range(q[k]) = {}

\* Each of the buffers of the pool is at exactly one place: free, in one of the
\* three queues, or with one task (main.c wires the queues; apps.c:108 is
\* where a second release of a reply was once written).
Conservation == QueuesExclusive /\ Pool!Exclusive /\ Pool!NoLeak

\* The OH_NO LED says that the pool ran dry, never that it overflowed: the
\* "have you relinquished a bad pointer?" branch of bp_relinquish is dead.
OhNoMeansUnderflow == [][ohNo' /\ ~ohNo => pool = <<>>]_ohNo

\* The buffers between a task's decision to forward and the other side.
FromLocalTalk ==
    ({hand["apps"], hand["udp_tx"]} \ {Null})
    \cup Range(q["UARTtoApps"]) \cup Range(q["AppsToUDP"])
    \cup (IF rx_pc = "send" THEN {hand["uart_rx"]} ELSE {})

FromUDP == ({hand["udp_rx"], hand["uart_tx"]} \ {Null}) \cup Range(q["UDPtoUART"])

\* A frame is on its way to one side only if it is for everybody or its
\* destination has been heard on that side, although the tables are written
\* by other tasks than those that read them (tashtalk.c:51-57, ip.c:160-163).
\* The fake replies of APPS go back to whoever asked.
LearnedDestinations ==
    /\ \A b \in FromLocalTalk :
         data[b] = Blank \/ data[b].dst \in node_table \cup {Broadcast}
    /\ \A b \in FromUDP :
         \/ data[b] = Blank
         \/ data[b].src = FakeNode
         \/ data[b].dst \in forward_for_nodes \cup {Broadcast}

\* The frames from LocalTalk, oldest first, from the moment UART_RX accepts them
\* to the moment LToUDP-tx sends them.
HandSeq(s) == IF hand[s] = Null THEN <<>> ELSE <<hand[s]>>

LTPath ==
    q["AppsToUDP"] \o HandSeq("apps") \o q["UARTtoApps"]
    \o (IF rx_pc = "send" THEN HandSeq("uart_rx") ELSE <<>>)

LTChannel == INSTANCE FrameChannel
             WITH Frames <- Buffers, Capacity <- 2 * QueueLength + 2, chan <- LTPath

\* The three tasks and two queues of the LocalTalk-to-UDP direction are one
\* FIFO channel: nothing is reordered, duplicated or dropped inside it.
ImplementsChannel == LTChannel!Spec

\* Whatever the tasks do with buffers is a use the pool's header allows.
ImplementsPool == Pool!Spec

-----------------------------------------------------------------------------
(* What a comment says, and a race denies.                                 *)

\* buffer_pool.h:22: "bp_fetch returns a zeroed-out buffer from the pool."
FetchedIsZeroed ==
    [][\A s \in Slots :
         hand[s] = Null /\ hand'[s] \in Range(pool) => data[hand'[s]] = Blank]_vars

-----------------------------------------------------------------------------
(* Liveness.  The scheduler runs every task that can run.  A task blocked  *)
(* on a full queue is woken when there is room; APPS and LToUDP-rx compete *)
(* for UDPtoUART, where FreeRTOS serves the one that has waited longest.   *)
(* Nothing is assumed of the two networks.                                 *)

Fairness ==
    /\ WF_vars(UartRxSend) /\ WF_vars(UartRxRetry)
    /\ WF_vars(AppsReceive \/ AppsExamine \/ AppsRestart)
    /\ WF_vars(AppsReplyBuild \/ AppsRepliesDone \/ AppsForward)
    /\ SF_vars(AppsReplySend) /\ SF_vars(UdpRxSend)
    /\ WF_vars(UdpTxTransmit) /\ WF_vars(UdpTxRelease)
    /\ WF_vars(UartTxWrite) /\ WF_vars(UartTxRelease)
    /\ \A s \in Slots : WF_vars(Zero(s))

FairSpec == Spec /\ Fairness

\* The frames UART_RX has accepted are sent to UDP, even while APPS waits for room
\* to answer a lookup: the waits of the tasks never form a cycle.  The frames
\* keep their order, so it is enough that LToUDP-tx always gets another while
\* there are any, and is always done with it.
AcceptedIsSent ==
    /\ []<>(hand["udp_tx"] # Null \/ LTPath = <<>>)
    /\ []<>(hand["udp_tx"] = Null)

\* APPS gets its reply into UDPtoUART although LToUDP-rx fills that queue too,
\* and meanwhile the frame it holds, and those behind it, do not move.
ReplyIsSent == hand["reply"] # Null ~> hand["reply"] = Null

\* The datagrams LToUDP-rx has taken reach UART_TX, in the same sense.
DatagramIsWritten ==
    /\ []<>(hand["uart_tx"] # Null \/ FromUDP = {})
    /\ []<>(hand["uart_tx"] = Null)

\* UART_RX, which only polls for a buffer, is starved for ever by nothing but
\* an endless stream of datagrams.
UdpFallsSilent == <>[][\A f \in IPFrames : ~UdpRxDatagram(f)]_vars

StarvationEnds == UdpFallsSilent => (rx_pc = "starved" ~> rx_pc # "starved")
=============================================================================
