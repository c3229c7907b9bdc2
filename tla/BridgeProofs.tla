----------------------------- MODULE BridgeProofs -----------------------------
(***************************************************************************)
(* The five tasks of the bridge use the buffer pool as its interface       *)
(* allows, so that no buffer is lost or has two owners anywhere in them,   *)
(* for any number of buffers, any queue length and any traffic.            *)
(***************************************************************************)
EXTENDS Bridge, Integers, Sequences, Functions, FiniteSets,
        SequenceTheorems, FiniteSetTheorems, TLAPS

PoolOf == INSTANCE BufferPoolProofs WITH Holders <- Slots, away <- Travelling

\* The inductive invariant: the types and program counters of the tasks, the
\* queues between them, and the pool's own invariant with the buffers in those
\* queues as the ones that are away.
BInv == TypeOK /\ QueuesExclusive /\ PoolOf!IInv

\* A zeroed buffer is among the contents the pool allows.
LEMMA BlankIsContent == Blank \in Contents
  BY DEF Contents

\* No buffer is numbered like the null pointer.
LEMMA NullIsNotABuffer == Null \notin Buffers
  BY BufferCountAssumption DEF Null, Buffers

\* What the pool's proofs say of queues holds of queues here.
LEMMA SameSequences ==
    \A s : PoolOf!Range(s) = Range(s) /\ (PoolOf!IsInjective(s) <=> IsInjective(s))
  BY DEF PoolOf!Range, Range, PoolOf!IsInjective, IsInjective

\* The two instances of the pool in play are the same specification.
LEMMA SamePool == [Pool!Next]_(Pool!vars) <=> [PoolOf!Next]_(PoolOf!vars)
  BY DEF Pool!Next, PoolOf!Next, Pool!vars, PoolOf!vars, Pool!Fetch, PoolOf!Fetch,
     Pool!Post, PoolOf!Post, Pool!Collect, PoolOf!Collect, Pool!Relinquish,
     PoolOf!Relinquish, Pool!Zero, PoolOf!Zero, Pool!Write, PoolOf!Write,
     Pool!FetchAndWrite, PoolOf!FetchAndWrite, Pool!Restart, PoolOf!Restart,
     Pool!Idle, PoolOf!Idle, Pool!Owns, PoolOf!Owns, Pool!bp_fetch, PoolOf!bp_fetch,
     Pool!bp_fetch_underflow, PoolOf!bp_fetch_underflow,
     Pool!bp_relinquish, PoolOf!bp_relinquish,
     Pool!bp_relinquish_zero, PoolOf!bp_relinquish_zero,
     Pool!Null, PoolOf!Null, Pool!Buffers, PoolOf!Buffers

-----------------------------------------------------------------------------
\* The initial state: everything free, nothing queued.
LEMMA InitBInv == Init => BInv /\ Pool!Init
<1> SUFFICES ASSUME Init PROVE BInv /\ Pool!Init
  OBVIOUS
<1>1. /\ q \in [Queues -> Seq(Buffers)]
      /\ \A k \in Queues : q[k] = <<>> /\ Len(q[k]) = 0 /\ Range(q[k]) = {}
  BY DEF Init, Range
<1>2. Travelling = {}
  BY <1>1 DEF Travelling
<1>3. Pool!Init /\ PoolOf!Init
  BY <1>2 DEF Init, Pool!Init, PoolOf!Init, Pool!new_buffer_pool,
     PoolOf!new_buffer_pool, Pool!Buffers, PoolOf!Buffers, Pool!Null, PoolOf!Null
<1>4. PoolOf!IInv
  BY <1>3, PoolOf!InitIInv, BufferCountAssumption, BlankIsContent
<1>5. TypeOK
  <2>1. /\ pool \in Seq(Buffers)
        /\ hand \in [Slots -> Buffers \cup {Null}]
        /\ wiping \in [Slots -> Buffers \cup {Null}]
        /\ data \in [Buffers -> Contents]
        /\ ohNo \in BOOLEAN
    BY <1>4 DEF PoolOf!IInv, PoolOf!TypeOK, PoolOf!Buffers, PoolOf!Null, Buffers, Null
  <2>2. hand = [s \in Slots |-> Null] /\ wiping = [s \in Slots |-> Null]
    BY <1>3 DEF Pool!Init, Pool!new_buffer_pool, Pool!Null, Null
  <2>3. HandsMatch
    BY <2>2 DEF Init, HandsMatch, Waiting, Slots
  <2> QED
    BY <1>1, <2>1, <2>3, QueueLengthAssumption, MaxRepliesAssumption
       DEF Init, TypeOK, Sources
<1>6. QueuesExclusive
  BY <1>1 DEF QueuesExclusive, IsInjective
<1> QED
  BY <1>3, <1>4, <1>5, <1>6 DEF BInv

-----------------------------------------------------------------------------
\* A pointer in a task's hand is in no queue and not in the pool.
LEMMA HandIsElsewhere ==
    ASSUME BInv, NEW s \in Slots, hand[s] # Null
    PROVE  hand[s] \in Buffers /\ hand[s] \notin Travelling /\ wiping[s] = Null
  BY DEF BInv, TypeOK, HandsMatch, PoolOf!IInv, PoolOf!Exclusive, PoolOf!Null, Null

\* Sending adds the sender's buffer to those that travel, and to one queue only.
LEMMA SendQueues ==
    ASSUME BInv, NEW k \in Queues, NEW s \in Slots, hand[s] # Null,
           xQueueSendToBack(k, s)
    PROVE  /\ q' \in [Queues -> Seq(Buffers)]
           /\ \A j \in Queues : Len(q'[j]) <= QueueLength
           /\ Travelling' = Travelling \cup {hand[s]}
           /\ QueuesExclusive'
<1>1. /\ hand[s] \in Buffers
      /\ hand[s] \notin Travelling
      /\ q \in [Queues -> Seq(Buffers)]
      /\ \A j \in Queues : IsInjective(q[j])
      /\ Len(q[k]) < QueueLength
  BY HandIsElsewhere DEF BInv, TypeOK, QueuesExclusive, xQueueSendToBack
<1>2. /\ q' = [q EXCEPT ![k] = Append(q[k], hand[s])]
      /\ \A j \in Queues : hand[s] \notin Range(q[j])
  BY <1>1 DEF xQueueSendToBack, Travelling
<1>3. /\ q[k] \in Seq(Buffers)
      /\ Append(q[k], hand[s]) \in Seq(Buffers)
      /\ Len(Append(q[k], hand[s])) = Len(q[k]) + 1
      /\ Len(q[k]) \in Nat
  BY <1>1
<1>4. /\ Range(q'[k]) = Range(q[k]) \cup {hand[s]}
      /\ IsInjective(q'[k])
  BY <1>1, <1>2, <1>3, PoolOf!AppendRange, PoolOf!AppendDistinct, SameSequences,
     BufferCountAssumption, BlankIsContent
<1>5. \A j \in Queues : j # k => q'[j] = q[j]
  BY <1>1, <1>2
<1>6. q' \in [Queues -> Seq(Buffers)]
  BY <1>1, <1>2, <1>3
<1>7. Len(q'[k]) <= QueueLength
  BY <1>1, <1>2, <1>3, QueueLengthAssumption
<1>8. \A j \in Queues : Len(q'[j]) <= QueueLength
  BY <1>5, <1>7 DEF BInv, TypeOK
<1>9. Travelling' = Travelling \cup {hand[s]}
  BY <1>4, <1>5 DEF Travelling
<1>10. QueuesExclusive'
  <2>1. \A j \in Queues : IsInjective(q'[j])
    BY <1>4, <1>5 DEF BInv, QueuesExclusive
  <2>2. \A i, j \in Queues : i # j => Range(q[i]) \cap Range(q[j]) = {}
    BY DEF BInv, QueuesExclusive
  <2>3. \A j \in Queues : j # k => Range(q'[j]) = Range(q[j])
    BY <1>5
  <2>4. \A i, j \in Queues : i # j => Range(q'[i]) \cap Range(q'[j]) = {}
    BY <1>2, <1>4, <2>2, <2>3
  <2> QED
    BY <2>1, <2>4 DEF QueuesExclusive
<1> QED
  BY <1>6, <1>8, <1>9, <1>10

\* Receiving takes the oldest buffer of one queue from those that travel.
LEMMA ReceiveQueues ==
    ASSUME BInv, NEW k \in Queues, NEW s \in Slots, xQueueReceive(k, s)
    PROVE  /\ q' \in [Queues -> Seq(Buffers)]
           /\ \A j \in Queues : Len(q'[j]) <= QueueLength
           /\ Head(q[k]) \in Travelling
           /\ Head(q[k]) \in Buffers
           /\ Travelling' = Travelling \ {Head(q[k])}
           /\ QueuesExclusive'
<1>1. /\ q \in [Queues -> Seq(Buffers)]
      /\ IsInjective(q[k])
      /\ q[k] \in Seq(Buffers) /\ q[k] # <<>>
      /\ q' = [q EXCEPT ![k] = Tail(q[k])]
  BY DEF BInv, TypeOK, QueuesExclusive, xQueueReceive
<1>2. /\ Head(q[k]) \in Range(q[k])
      /\ Head(q[k]) \in Buffers
      /\ Tail(q[k]) \in Seq(Buffers)
      /\ Range(Tail(q[k])) = Range(q[k]) \ {Head(q[k])}
      /\ IsInjective(Tail(q[k]))
  BY <1>1, PoolOf!TailRange, SameSequences,
     BufferCountAssumption, BlankIsContent
<1>3. q'[k] = Tail(q[k]) /\ \A j \in Queues : j # k => q'[j] = q[j]
  BY <1>1
<1>4. Len(Tail(q[k])) <= QueueLength
  <2>1. Len(q[k]) <= QueueLength /\ Len(q[k]) \in Nat
    BY <1>1 DEF BInv, TypeOK
  <2>2. Len(Tail(q[k])) = Len(q[k]) - 1
    BY <1>1, HeadTailProperties
  <2> QED
    BY <2>1, <2>2, QueueLengthAssumption
<1>5. \A j \in Queues : Len(q'[j]) <= QueueLength
  BY <1>3, <1>4 DEF BInv, TypeOK
<1>6. \A j \in Queues : j # k => Head(q[k]) \notin Range(q[j])
  BY <1>2 DEF BInv, QueuesExclusive
<1>7. Travelling' = Travelling \ {Head(q[k])}
  BY <1>2, <1>3, <1>6 DEF Travelling
<1>8. QueuesExclusive'
  BY <1>2, <1>3 DEF BInv, QueuesExclusive
<1> QED
  BY <1>1, <1>2, <1>3, <1>5, <1>7, <1>8 DEF Travelling

-----------------------------------------------------------------------------
(* Every step of a task is a step of a client of the pool, or none at all. *)

\* Sending is Post, receiving is Collect.
LEMMA SendIsPost ==
    ASSUME BInv, NEW k \in Queues, NEW s \in Slots, hand[s] # Null,
           xQueueSendToBack(k, s), UNCHANGED <<pool, wiping, data, ohNo>>
    PROVE  [Pool!Next]_(Pool!vars) /\ QueuesExclusive'
<1>1. Pool!Post(s) /\ QueuesExclusive'
  BY SendQueues, HandIsElsewhere DEF Pool!Post, Pool!Owns, Pool!Null, Null, xQueueSendToBack
<1> QED
  BY <1>1 DEF Pool!Next

\* Receiving is Collect.
LEMMA ReceiveIsCollect ==
    ASSUME BInv, NEW k \in Queues, NEW s \in Slots, Waiting(s),
           xQueueReceive(k, s), UNCHANGED <<pool, wiping, data, ohNo>>
    PROVE  [Pool!Next]_(Pool!vars) /\ QueuesExclusive'
<1>1. /\ Head(q[k]) \in Travelling
      /\ Travelling' = Travelling \ {Head(q[k])}
      /\ QueuesExclusive'
  BY ReceiveQueues
<1>2. hand' = [hand EXCEPT ![s] = Head(q[k])]
  BY DEF xQueueReceive
<1>3. Pool!Collect(s)
  BY <1>1, <1>2 DEF Pool!Collect, Pool!Idle, Pool!Null, Null, Waiting
<1> QED
  BY <1>1, <1>3 DEF Pool!Next

\* A step that leaves the queues alone leaves the travelling buffers alone.
LEMMA QueuesUnchanged ==
    ASSUME UNCHANGED q
    PROVE  Travelling' = Travelling /\ (QueuesExclusive => QueuesExclusive')
  BY DEF Travelling, QueuesExclusive

\* Filling a buffer in the step that fetches it, or finding none.
LEMMA FetchIntoIsFetch ==
    ASSUME BInv, NEW s \in Slots, Waiting(s), NEW c \in Contents,
           FetchInto(s, c) \/ Underflow, UNCHANGED <<wiping, q>>
    PROVE  [Pool!Next]_(Pool!vars)
<1>1. Travelling' = Travelling
  BY QueuesUnchanged
<1>2. CASE FetchInto(s, c)
  <2>1. Pool!FetchAndWrite(s, c)
    BY <1>1, <1>2 DEF FetchInto, Pool!FetchAndWrite, Pool!Idle, Pool!Null, Null, Waiting
  <2> QED
    BY <2>1 DEF Pool!Next
<1>3. CASE Underflow
  <2>1. Pool!Fetch(s)
    BY <1>1, <1>3 DEF Underflow, Pool!Fetch, Pool!Idle, Pool!Null, Null, Waiting
  <2> QED
    BY <2>1 DEF Pool!Next
<1> QED
  BY <1>2, <1>3

\* The first half of bp_relinquish by a task that holds a buffer.
LEMMA RelinquishIsRelinquish ==
    ASSUME BInv, NEW s \in Slots, hand[s] # Null, Relinquish(s), UNCHANGED q
    PROVE  [Pool!Next]_(Pool!vars)
<1>1. Pool!Relinquish(s)
  BY QueuesUnchanged, HandIsElsewhere
     DEF Relinquish, Pool!Relinquish, Pool!Owns, Pool!Null, Null
<1> QED
  BY <1>1 DEF Pool!Next

\* Whatever the two networks deliver, and any reply to it, fits a buffer.
LEMMA ContentsOfFrames ==
    /\ \A f \in LTFrames \cup IPFrames : f \in Contents
    /\ \A n \in Sources : FakeReply(n) \in Contents
  BY DEF Contents, WireFrames

\* The bridge's step, seen from the pool.
LEMMA StepIsPoolStep ==
    ASSUME BInv, [Next]_vars
    PROVE  [Pool!Next]_(Pool!vars) /\ QueuesExclusive'
<1> USE DEF Slots, Queues
<1>1. QueuesExclusive
  BY DEF BInv
<1>2. CASE UartRxFirstByte
  <2>1. Pool!Fetch("uart_rx")
    BY <1>2, QueuesUnchanged
       DEF UartRxFirstByte, Waiting, Pool!Fetch, Pool!Idle, Pool!Null, Null
  <2> QED
    BY <1>1, <1>2, <2>1, QueuesUnchanged DEF Pool!Next, UartRxFirstByte
<1>3. CASE UartRxRetry
  <2>1. Waiting("uart_rx")
    BY <1>3 DEF UartRxRetry, BInv, TypeOK, HandsMatch
  <2>2. Pool!Fetch("uart_rx")
    BY <1>3, <2>1, QueuesUnchanged
       DEF UartRxRetry, Waiting, Pool!Fetch, Pool!Idle, Pool!Null, Null
  <2> QED
    BY <1>1, <1>3, <2>2, QueuesUnchanged DEF Pool!Next, UartRxRetry
<1>4. ASSUME NEW f \in LTFrames, UartRxBytes(f)
      PROVE  [Pool!Next]_(Pool!vars) /\ QueuesExclusive'
  <2>1. Pool!Write("uart_rx", f)
    BY <1>4, QueuesUnchanged, HandIsElsewhere
       DEF UartRxBytes, Feeding, Pool!Write, Pool!Owns, Pool!Null, Null
  <2>2. f \in Contents
    BY ContentsOfFrames
  <2> QED
    BY <1>1, <1>4, <2>1, <2>2, QueuesUnchanged DEF Pool!Next, UartRxBytes
<1>5. CASE UartRxAbort \/ UartRxDrop
  BY <1>1, <1>5, RelinquishIsRelinquish, QueuesUnchanged
     DEF UartRxAbort, UartRxDrop, Feeding
<1>6. CASE UartRxAccept \/ AppsExamine \/ AppsRepliesDone
  <2>1. UNCHANGED <<pool, hand, wiping, data, ohNo, q>>
    BY <1>6 DEF UartRxAccept, AppsExamine, AppsRepliesDone, poolVars
  <2> QED
    BY <1>1, <2>1, QueuesUnchanged DEF Pool!vars
<1>7. CASE UartRxSend
  <2>1. hand["uart_rx"] # Null
    BY <1>7 DEF UartRxSend, BInv, TypeOK, HandsMatch
  <2> QED
    BY <1>7, <2>1, SendIsPost DEF UartRxSend
<1>8. CASE AppsReceive
  <2>1. Waiting("apps")
    BY <1>8 DEF AppsReceive, BInv, TypeOK, HandsMatch, Waiting
  <2> QED
    BY <1>8, <2>1, ReceiveIsCollect DEF AppsReceive
<1>9. CASE AppsReplyBuild
  <2>1. Waiting("reply") /\ FakeReply(nbp_addr) \in Contents
    BY <1>9, ContentsOfFrames DEF AppsReplyBuild, BInv, TypeOK, HandsMatch, Waiting
  <2>2. FetchInto("reply", FakeReply(nbp_addr)) \/ Underflow
    BY <1>9 DEF AppsReplyBuild
  <2> QED
    BY <1>1, <1>9, <2>1, <2>2, FetchIntoIsFetch, QueuesUnchanged DEF AppsReplyBuild
<1>10. CASE AppsReplySend
  BY <1>10, SendIsPost DEF AppsReplySend
<1>11. CASE AppsForward
  <2>1. hand["apps"] # Null
    BY <1>11 DEF AppsForward, BInv, TypeOK, HandsMatch
  <2> QED
    BY <1>11, <2>1, SendIsPost DEF AppsForward
<1>12. CASE AppsRestart
  <2>1. Pool!Restart
    BY <1>12 DEF AppsRestart
  <2>2. \A k \in Queues : Range(q'[k]) = {} /\ IsInjective(q'[k])
    BY <1>12 DEF AppsRestart, Range, IsInjective
  <2> QED
    BY <2>1, <2>2 DEF Pool!Next, QueuesExclusive
<1>13. CASE UdpTxTransmit
  BY <1>13, ReceiveIsCollect DEF UdpTxTransmit
<1>14. CASE UdpTxRelease \/ UartTxRelease
  BY <1>1, <1>14, RelinquishIsRelinquish, QueuesUnchanged DEF UdpTxRelease, UartTxRelease
<1>15. ASSUME NEW f \in IPFrames, UdpRxDatagram(f)
       PROVE  [Pool!Next]_(Pool!vars) /\ QueuesExclusive'
  BY <1>1, <1>15, ContentsOfFrames, FetchIntoIsFetch, QueuesUnchanged DEF UdpRxDatagram
<1>16. CASE UdpRxSend
  BY <1>16, SendIsPost DEF UdpRxSend
<1>17. CASE UartTxWrite
  BY <1>17, ReceiveIsCollect DEF UartTxWrite
<1>18. ASSUME NEW s \in Slots, Zero(s)
       PROVE  [Pool!Next]_(Pool!vars) /\ QueuesExclusive'
  <2>1. Pool!Zero(s)
    BY <1>18, QueuesUnchanged DEF Zero, Pool!Zero, Pool!Null, Null
  <2> QED
    BY <1>1, <1>18, <2>1, QueuesUnchanged DEF Pool!Next, Zero
<1>19. CASE UNCHANGED vars
  BY <1>1, <1>19, QueuesUnchanged DEF vars, poolVars, Pool!vars
<1> QED
  BY <1>2, <1>3, <1>4, <1>5, <1>6, <1>7, <1>8, <1>9, <1>10, <1>11, <1>12, <1>13,
     <1>14, <1>15, <1>16, <1>17, <1>18, <1>19
     DEF Next, UartRx, Apps, Udp, UartTx

-----------------------------------------------------------------------------
\* The pool's invariant survives every step of the bridge.
LEMMA NextPool == ASSUME BInv, [Next]_vars PROVE PoolOf!IInv'
  BY StepIsPoolStep, SamePool, PoolOf!NextIInv, BufferCountAssumption, BlankIsContent
     DEF BInv

\* The queues stay within their capacity.
LEMMA NextQueueTypes ==
    ASSUME BInv, [Next]_vars
    PROVE  /\ q' \in [Queues -> Seq(Buffers)]
           /\ \A k \in Queues : Len(q'[k]) <= QueueLength
<1> USE DEF Slots, Queues
<1>1. ASSUME NEW k \in Queues, NEW s \in Slots, hand[s] # Null, xQueueSendToBack(k, s)
      PROVE  /\ q' \in [Queues -> Seq(Buffers)]
             /\ \A j \in Queues : Len(q'[j]) <= QueueLength
  BY <1>1, SendQueues
<1>2. ASSUME NEW k \in Queues, NEW s \in Slots, xQueueReceive(k, s)
      PROVE  /\ q' \in [Queues -> Seq(Buffers)]
             /\ \A j \in Queues : Len(q'[j]) <= QueueLength
  BY <1>2, ReceiveQueues
<1>3. CASE UartRxSend \/ AppsReplySend \/ AppsForward \/ UdpRxSend
  BY <1>1, <1>3 DEF UartRxSend, AppsReplySend, AppsForward, UdpRxSend,
     BInv, TypeOK, HandsMatch
<1>4. CASE AppsReceive \/ UdpTxTransmit \/ UartTxWrite
  BY <1>2, <1>4 DEF AppsReceive, UdpTxTransmit, UartTxWrite
<1>5. CASE AppsRestart
  BY <1>5, QueueLengthAssumption DEF AppsRestart
<1>6. CASE UNCHANGED q
  BY <1>6 DEF BInv, TypeOK
<1> QED
  BY <1>3, <1>4, <1>5, <1>6 DEF Next, UartRx, Apps, Udp, UartTx, UartRxFirstByte,
     UartRxRetry, UartRxBytes, UartRxAbort, UartRxAccept, UartRxDrop, AppsExamine,
     AppsReplyBuild, AppsRepliesDone, UdpTxRelease, UdpRxDatagram, UartTxRelease,
     Zero, vars

\* What a buffer holds has byte-sized addresses, and only a frame from the wire can
\* be a lookup.
LEMMA ContentsAreFrames ==
    /\ \A c \in Contents : c.src \in 0 .. 255
    /\ \A c \in Contents : c.kind = "lkup" => c.src \in Sources
<1>1. \A c \in WireFrames : c.src \in 0 .. 255 /\ c.src \in Sources
  BY FramesAssumption DEF WireFrames, Frame, Sources
<1> QED
  BY <1>1 DEF Contents, Blank, FakeReply, FakeNode

\* Touching a node keeps a table within the node numbers.
LEMMA TouchType ==
    ASSUME NEW seen \in SUBSET (1 .. 254), NEW node \in 0 .. 255
    PROVE  nt_touch(seen, node) \subseteq 1 .. 254
  BY DEF nt_touch, Broadcast

\* The tables and the registers of APPS keep their types.
LEMMA NextControlTypes ==
    ASSUME BInv, [Next]_vars
    PROVE  /\ rx_pc' \in {"feed", "starved", "send"}
           /\ apps_pc' \in {"recv", "examine", "reply", "forward"}
           /\ replies' \in 0 .. MaxReplies
           /\ nbp_addr' \in Sources
           /\ node_table' \subseteq 1 .. 254
           /\ forward_for_nodes' \subseteq 1 .. 254
<1>1. /\ rx_pc \in {"feed", "starved", "send"}
      /\ apps_pc \in {"recv", "examine", "reply", "forward"}
      /\ replies \in 0 .. MaxReplies
      /\ nbp_addr \in Sources
      /\ node_table \subseteq 1 .. 254
      /\ forward_for_nodes \subseteq 1 .. 254
  BY DEF BInv, TypeOK
<1>2. ASSUME NEW k \in Queues, NEW s \in Slots, xQueueReceive(k, s)
      PROVE  data[Head(q[k])].src \in 0 .. 255
  <2>1. Head(q[k]) \in Buffers
    BY <1>2, ReceiveQueues
  <2>2. data[Head(q[k])] \in Contents
    BY <2>1 DEF BInv, TypeOK
  <2> QED
    BY <2>2, ContentsAreFrames
<1> USE DEF Slots, Queues
<1>3. CASE AppsExamine
  <2>1. Packet("apps") \in Contents
    BY <1>3, NullIsNotABuffer DEF AppsExamine, Packet, BInv, TypeOK, HandsMatch
  <2> QED
    BY <1>1, <1>3, <2>1, ContentsAreFrames DEF AppsExamine, tables
<1>4. CASE AppsReplyBuild
  BY <1>1, <1>4, MaxRepliesAssumption DEF AppsReplyBuild, tables
<1>5. CASE UdpTxTransmit
  BY <1>1, <1>2, <1>5, TouchType DEF UdpTxTransmit, apps
<1>6. CASE UartTxWrite
  BY <1>1, <1>2, <1>6, TouchType DEF UartTxWrite, apps
<1>7. CASE AppsRestart
  BY <1>7, MaxRepliesAssumption DEF AppsRestart, Sources
<1>8. CASE UartRx
  <2>1. UNCHANGED <<apps, tables>>
    BY <1>8 DEF UartRx, UartRxFirstByte, UartRxRetry, UartRxBytes, UartRxAbort,
       UartRxAccept, UartRxDrop, UartRxSend
  <2>2. rx_pc' \in {rx_pc, "feed", "starved", "send"}
    BY <1>8 DEF UartRx, UartRxFirstByte, UartRxRetry, UartRxBytes, UartRxAbort,
       UartRxAccept, UartRxDrop, UartRxSend
  <2> QED
    BY <1>1, <2>1, <2>2 DEF apps, tables
<1>9. CASE AppsReceive \/ AppsReplySend \/ AppsRepliesDone \/ AppsForward
  BY <1>1, <1>9 DEF AppsReceive, AppsReplySend, AppsRepliesDone, AppsForward,
     apps, tables
<1>10. ASSUME UdpTxRelease \/ UdpRxSend \/ UartTxRelease
              \/ (\E f \in IPFrames : UdpRxDatagram(f)) \/ (\E s \in Slots : Zero(s))
       PROVE  UNCHANGED <<rx_pc, apps, tables>>
  BY <1>10 DEF UdpTxRelease, UdpRxDatagram, UdpRxSend, UartTxRelease, Zero
<1>11. CASE UNCHANGED <<rx_pc, apps, tables>>
  BY <1>1, <1>11 DEF apps, tables
<1>12. CASE UNCHANGED vars
  BY <1>11, <1>12 DEF vars
<1> QED
  BY <1>3, <1>4, <1>5, <1>6, <1>7, <1>8, <1>9, <1>10, <1>11, <1>12
     DEF Next, Apps, Udp, UartTx

\* The program counters keep agreeing with the pointers.
LEMMA NextHandsMatch ==
    ASSUME BInv, [Next]_vars
    PROVE  HandsMatch'
<1>1. /\ hand \in [Slots -> Buffers \cup {Null}]
      /\ wiping \in [Slots -> Buffers \cup {Null}]
      /\ data \in [Buffers -> Contents]
      /\ pool \in Seq(Buffers)
      /\ HandsMatch
  BY DEF BInv, TypeOK
<1>2. pool # <<>> => Head(pool) # Null
  BY <1>1, NullIsNotABuffer, HeadTailProperties
<1>3. \A k \in Queues, s \in Slots : xQueueReceive(k, s) => Head(q[k]) # Null
  BY ReceiveQueues, NullIsNotABuffer
<1>4. ASSUME NEW s \in Slots \ {"apps", "reply"}, Relinquish(s),
             UNCHANGED <<rx_pc, apps>>, rx_pc = "feed" \/ s # "uart_rx"
      PROVE  HandsMatch'
  <2>1. /\ hand' = [hand EXCEPT ![s] = Null]
        /\ wiping' = [wiping EXCEPT ![s] = hand[s]] \/ wiping' = wiping
    BY <1>4 DEF Relinquish, Pool!bp_relinquish, Pool!Null, Null
  <2> QED
    BY <1>1, <1>4, <2>1 DEF HandsMatch, Waiting, Slots, apps
<1>5. CASE UartRxFirstByte \/ UartRxRetry
  <2>1. \/ /\ pool # <<>> /\ hand' = [hand EXCEPT !["uart_rx"] = Head(pool)]
           /\ rx_pc' = "feed"
        \/ hand' = hand /\ rx_pc' = "starved"
    BY <1>5 DEF UartRxFirstByte, UartRxRetry, Pool!bp_fetch
  <2>2. Waiting("uart_rx") /\ UNCHANGED <<wiping, apps_pc>>
    BY <1>1, <1>5 DEF UartRxFirstByte, UartRxRetry, HandsMatch, apps
  <2> QED
    BY <1>1, <1>2, <2>1, <2>2 DEF HandsMatch, Waiting, Slots
<1>6. CASE UartRxAbort \/ UartRxDrop
  BY <1>4, <1>6 DEF UartRxAbort, UartRxDrop, Feeding, Slots
<1>7. CASE UdpTxRelease \/ UartTxRelease
  BY <1>4, <1>7 DEF UdpTxRelease, UartTxRelease, Slots
<1>8. CASE UartRxAccept \/ \E f \in LTFrames : UartRxBytes(f)
  BY <1>1, <1>8 DEF UartRxAccept, UartRxBytes, Feeding, HandsMatch, Waiting, poolVars, apps
<1>9. CASE UartRxSend
  BY <1>1, <1>9 DEF UartRxSend, xQueueSendToBack, HandsMatch, Waiting, Slots, apps
<1>10. CASE AppsReceive
  BY <1>1, <1>3, <1>10
     DEF AppsReceive, xQueueReceive, HandsMatch, Waiting, Slots, Queues
<1>11. CASE AppsExamine \/ AppsRepliesDone
  BY <1>1, <1>11 DEF AppsExamine, AppsRepliesDone, HandsMatch, Waiting, poolVars
<1>12. CASE AppsReplyBuild
  <2>1. \/ pool # <<>> /\ hand' = [hand EXCEPT !["reply"] = Head(pool)]
        \/ hand' = hand
    BY <1>12 DEF AppsReplyBuild, FetchInto, Underflow, Pool!bp_fetch
  <2> QED
    BY <1>1, <1>2, <1>12, <2>1 DEF AppsReplyBuild, HandsMatch, Waiting, Slots
<1>13. CASE AppsReplySend \/ AppsForward
  BY <1>1, <1>13
     DEF AppsReplySend, AppsForward, xQueueSendToBack, HandsMatch, Waiting, Slots, apps
<1>14. CASE AppsRestart
  BY <1>14 DEF AppsRestart, Pool!Restart, Pool!Null, Null, HandsMatch, Waiting, Slots
<1>15. CASE UdpTxTransmit \/ UartTxWrite
  BY <1>1, <1>3, <1>15
     DEF UdpTxTransmit, UartTxWrite, xQueueReceive, HandsMatch, Waiting, Slots, Queues, apps
<1>16. ASSUME NEW f \in IPFrames, UdpRxDatagram(f) PROVE HandsMatch'
  <2>1. \/ pool # <<>> /\ hand' = [hand EXCEPT !["udp_rx"] = Head(pool)]
        \/ hand' = hand
    BY <1>16 DEF UdpRxDatagram, FetchInto, Underflow, Pool!bp_fetch
  <2> QED
    BY <1>1, <1>2, <1>16, <2>1 DEF UdpRxDatagram, HandsMatch, Waiting, Slots, apps
<1>17. CASE UdpRxSend
  BY <1>1, <1>17 DEF UdpRxSend, xQueueSendToBack, HandsMatch, Waiting, Slots, apps
<1>18. ASSUME NEW s \in Slots, Zero(s) PROVE HandsMatch'
  <2>1. wiping' = [wiping EXCEPT ![s] = Null] /\ UNCHANGED <<hand, rx_pc, apps>>
    BY <1>18 DEF Zero, Pool!bp_relinquish_zero, Pool!Null, Null
  <2> QED
    BY <1>1, <2>1 DEF HandsMatch, Waiting, Slots, apps
<1>19. CASE UNCHANGED vars
  BY <1>1, <1>19 DEF vars, poolVars, apps, HandsMatch, Waiting
<1> QED
  BY <1>5, <1>6, <1>7, <1>8, <1>9, <1>10, <1>11, <1>12, <1>13, <1>14, <1>15, <1>16,
     <1>17, <1>18, <1>19
     DEF Next, UartRx, Apps, Udp, UartTx

-----------------------------------------------------------------------------
\* Every step of every task preserves the invariant.
LEMMA NextBInv == BInv /\ [Next]_vars => BInv'
<1> SUFFICES ASSUME BInv, [Next]_vars PROVE BInv'
  OBVIOUS
<1>1. PoolOf!IInv'
  BY NextPool
<1>2. /\ pool' \in Seq(Buffers)
      /\ hand' \in [Slots -> Buffers \cup {Null}]
      /\ wiping' \in [Slots -> Buffers \cup {Null}]
      /\ data' \in [Buffers -> Contents]
      /\ ohNo' \in BOOLEAN
  BY <1>1 DEF PoolOf!IInv, PoolOf!TypeOK, PoolOf!Buffers, PoolOf!Null, Buffers, Null
<1>3. TypeOK'
  BY <1>2, NextQueueTypes, NextControlTypes, NextHandsMatch DEF TypeOK
<1>4. QueuesExclusive'
  BY StepIsPoolStep
<1> QED
  BY <1>1, <1>3, <1>4 DEF BInv

\* The invariant holds for ever.
LEMMA BridgeInvariance == Spec => []BInv
<1>1. Init => BInv
  BY InitBInv
<1> QED
  BY <1>1, NextBInv, PTL DEF Spec

\* The variables of the bridge keep their types, its queues their capacity, and
\* the program counters of UART_RX and APPS agree with the pointers they hold.
THEOREM BridgeTypeOK == Spec => []TypeOK
<1>1. BInv => TypeOK
  BY DEF BInv
<1> QED
  BY <1>1, BridgeInvariance, PTL

\* Whatever frames arrive and however the five tasks interleave, each buffer is at
\* one place: free, in one of the three queues, or in the hands of one task.
THEOREM BridgeConservation == Spec => []Conservation
<1>1. BInv => Conservation
  BY DEF BInv, Conservation, PoolOf!IInv, PoolOf!Exclusive, PoolOf!NoLeak,
     Pool!Exclusive, Pool!NoLeak, PoolOf!Null, Pool!Null, PoolOf!Buffers, Pool!Buffers,
     PoolOf!Range, Pool!Range, PoolOf!IsInjective, Pool!IsInjective
<1> QED
  BY <1>1, BridgeInvariance, PTL

\* The bridge implements the buffer pool with its general clients: what is true of
\* these is true of the tasks.
THEOREM BridgeImplementsPool == Spec => ImplementsPool
<1>1. Init => Pool!Init
  BY InitBInv
<1>2. BInv /\ [Next]_vars => [Pool!Next]_(Pool!vars)
  BY StepIsPoolStep
<1> QED
  BY <1>1, <1>2, BridgeInvariance, PTL DEF Spec, ImplementsPool, Pool!Spec

\* The OH_NO LED lights up only because bp_fetch found the pool empty: the overflow
\* branch of bp_relinquish (buffer_pool.c:95-99) is unreachable.
THEOREM BridgeOhNo == Spec => OhNoMeansUnderflow
<1>1. ASSUME BInv, NEW s \in Slots, hand[s] # Null, Relinquish(s)
      PROVE  UNCHANGED ohNo
  BY <1>1, PoolOf!RelinquishedPool, BufferCountAssumption, BlankIsContent
     DEF BInv, Relinquish, Pool!bp_relinquish, PoolOf!bp_relinquish, PoolOf!Null,
         Pool!Null, Null
<1>2. ASSUME BInv, [Next]_vars, ohNo', ~ohNo PROVE pool = <<>>
  <2> USE DEF Slots
  <2>1. CASE UartRxAbort \/ UartRxDrop \/ UdpTxRelease \/ UartTxRelease
    BY <1>1, <1>2, <2>1 DEF UartRxAbort, UartRxDrop, UdpTxRelease, UartTxRelease, Feeding
  <2>2. CASE UartRxFirstByte \/ AppsReplyBuild \/ \E f \in IPFrames : UdpRxDatagram(f)
    BY <1>2, <2>2 DEF UartRxFirstByte, AppsReplyBuild, UdpRxDatagram, FetchInto,
       Underflow, Pool!bp_fetch, Pool!bp_fetch_underflow
  <2>3. CASE AppsRestart
    BY <1>2, <2>3 DEF AppsRestart, Pool!Restart
  <2>4. CASE UNCHANGED ohNo
    BY <1>2, <2>4
  <2> QED
    BY <1>2, <2>1, <2>2, <2>3, <2>4
       DEF Next, UartRx, Apps, Udp, UartTx, UartRxRetry, UartRxBytes, UartRxAccept,
       UartRxSend, AppsReceive, AppsExamine, AppsReplySend, AppsRepliesDone, AppsForward,
       UdpTxTransmit, UdpRxSend, UartTxWrite, Zero, vars, poolVars
<1>3. BInv /\ [Next]_vars => [ohNo' /\ ~ohNo => pool = <<>>]_ohNo
  BY <1>2
<1> QED
  BY <1>3, BridgeInvariance, PTL DEF Spec, OhNoMeansUnderflow

-----------------------------------------------------------------------------
(* Sequences in a row, the shape of a path of queues and hands.            *)

\* What joining two sequences gives.
LEMMA Joined ==
    ASSUME NEW S, NEW s \in Seq(S), NEW t \in Seq(S)
    PROVE  /\ s \o t \in Seq(S) /\ Len(s \o t) = Len(s) + Len(t)
           /\ Range(s \o t) = Range(s) \cup Range(t)
  BY ConcatProperties, RangeConcatenation

\* The oldest element of a concatenation is that of its first part.
LEMMA TailOfConcat ==
    ASSUME NEW S, NEW s \in Seq(S), NEW t \in Seq(S), s # <<>>
    PROVE  s \o t # <<>> /\ Tail(s \o t) = Tail(s) \o t
<1>1. /\ s \o t \in Seq(S) /\ Len(s \o t) = Len(s) + Len(t)
      /\ \A i \in 1 .. Len(s) + Len(t) :
            (s \o t)[i] = IF i <= Len(s) THEN s[i] ELSE t[i - Len(s)]
  BY ConcatProperties
<1>2. Len(s) \in Nat \ {0} /\ Len(t) \in Nat
  BY EmptySeq, LenProperties
<1>3. s \o t # <<>>
  BY <1>1, <1>2, EmptySeq
<1>4. /\ Tail(s) \in Seq(S) /\ Len(Tail(s)) = Len(s) - 1
      /\ \A i \in 1 .. Len(s) - 1 : Tail(s)[i] = s[i + 1]
  BY HeadTailProperties
<1>5. /\ Tail(s \o t) \in Seq(S) /\ Len(Tail(s \o t)) = Len(s) + Len(t) - 1
      /\ \A i \in 1 .. Len(s) + Len(t) - 1 : Tail(s \o t)[i] = (s \o t)[i + 1]
  BY <1>1, <1>3, HeadTailProperties
<1>6. /\ Tail(s) \o t \in Seq(S) /\ Len(Tail(s) \o t) = Len(s) - 1 + Len(t)
      /\ \A i \in 1 .. Len(s) - 1 + Len(t) :
            (Tail(s) \o t)[i] = IF i <= Len(s) - 1 THEN Tail(s)[i] ELSE t[i - (Len(s) - 1)]
  BY <1>2, <1>4, ConcatProperties
<1>7. ASSUME NEW i \in 1 .. Len(s) + Len(t) - 1
      PROVE  Tail(s \o t)[i] = (Tail(s) \o t)[i]
  <2>1. CASE i <= Len(s) - 1
    BY <1>1, <1>2, <1>4, <1>5, <1>6, <1>7, <2>1
  <2>2. CASE i > Len(s) - 1
    BY <1>1, <1>2, <1>5, <1>6, <1>7, <2>2
  <2> QED BY <1>2, <2>1, <2>2
<1> QED BY <1>2, <1>3, <1>5, <1>6, <1>7, SeqEqual

\* A sequence is its head and its tail.
LEMMA HeadAndTail ==
    ASSUME NEW S, NEW s \in Seq(S), s # <<>>
    PROVE  s = <<Head(s)>> \o Tail(s)
<1>1. Head(s) \in S /\ Tail(s) \in Seq(S) /\ Len(Tail(s)) = Len(s) - 1
      /\ \A i \in 1 .. Len(s) - 1 : Tail(s)[i] = s[i + 1]
  BY HeadTailProperties
<1>2. Len(s) \in Nat \ {0}
  BY EmptySeq
<1>3. <<Head(s)>> \in Seq(S) /\ Len(<<Head(s)>>) = 1
  BY <1>1
<1>4. /\ <<Head(s)>> \o Tail(s) \in Seq(S) /\ Len(<<Head(s)>> \o Tail(s)) = Len(s)
      /\ \A i \in 1 .. Len(s) : (<<Head(s)>> \o Tail(s))[i] =
                                  IF i <= 1 THEN <<Head(s)>>[i] ELSE Tail(s)[i - 1]
  BY <1>1, <1>2, <1>3, ConcatProperties
<1>5. ASSUME NEW i \in 1 .. Len(s) PROVE s[i] = (<<Head(s)>> \o Tail(s))[i]
  <2>1. CASE i = 1
    BY <1>2, <1>4, <2>1
  <2>2. CASE i # 1
    BY <1>1, <1>2, <1>4, <1>5, <2>2
  <2> QED BY <2>1, <2>2
<1> QED BY <1>4, <1>5, SeqEqual

\* What stands last in one part may as well stand first in the next.
LEMMA MoveAcross ==
    ASSUME NEW S, NEW s \in Seq(S), NEW t \in Seq(S), NEW x \in S
    PROVE  (s \o t) \o <<x>> = (s \o Append(t, x)) \o <<>>
<1>1. <<x>> \in Seq(S) /\ Append(t, x) \in Seq(S) /\ s \o Append(t, x) \in Seq(S)
  BY ConcatProperties
<1>2. Append(t, x) = t \o <<x>>
  BY AppendIsConcat
<1>3. (s \o t) \o <<x>> = s \o (t \o <<x>>)
  BY <1>1, ConcatAssociative
<1>4. (s \o Append(t, x)) \o <<>> = s \o Append(t, x)
  BY <1>1, ConcatEmptySeq
<1> QED BY <1>2, <1>3, <1>4

\* The same, when nothing stood between them.
LEMMA MoveInto ==
    ASSUME NEW S, NEW s \in Seq(S), NEW x \in S
    PROVE  Append(s, x) \o <<>> = s \o <<x>>
<1>1. Append(s, x) \in Seq(S)
  OBVIOUS
<1> QED BY <1>1, AppendIsConcat, ConcatEmptySeq

\* What stands first in one part may as well stand last in the one before.
LEMMA MoveBack ==
    ASSUME NEW S, NEW s \in Seq(S), NEW t \in Seq(S), t # <<>>
    PROVE  (s \o <<Head(t)>>) \o Tail(t) = (s \o <<>>) \o t
<1>1. Head(t) \in S /\ Tail(t) \in Seq(S)
  BY HeadTailProperties
<1>2. <<Head(t)>> \in Seq(S)
  BY <1>1
<1>3. (s \o <<Head(t)>>) \o Tail(t) = s \o (<<Head(t)>> \o Tail(t))
  BY <1>1, <1>2, ConcatAssociative
<1>4. s \o <<>> = s
  BY ConcatEmptySeq
<1> QED BY <1>3, <1>4, HeadAndTail

-----------------------------------------------------------------------------
(* The refinement of FrameChannel.                                         *)

\* The queues and hands of the LocalTalk-to-UDP direction are sequences of buffers.
LEMMA PathTypes ==
    ASSUME BInv
    PROVE  /\ \A k \in Queues : q[k] \in Seq(Buffers) /\ Len(q[k]) <= QueueLength
           /\ \A s \in Slots : /\ HandSeq(s) \in Seq(Buffers)
                               /\ Len(HandSeq(s)) \in {0, 1}
                               /\ Range(HandSeq(s)) = {hand[s]} \ {Null}
<1>1. /\ q \in [Queues -> Seq(Buffers)] /\ hand \in [Slots -> Buffers \cup {Null}]
      /\ \A k \in Queues : Len(q[k]) <= QueueLength
  BY DEF BInv, TypeOK
<1>2. ASSUME NEW s \in Slots
      PROVE  /\ HandSeq(s) \in Seq(Buffers) /\ Len(HandSeq(s)) \in {0, 1}
             /\ Range(HandSeq(s)) = {hand[s]} \ {Null}
  <2>1. CASE hand[s] = Null
    <3>1. Range(<<>>) = {}
      BY DEF Range
    <3> QED BY <2>1, <3>1, EmptySeq DEF HandSeq
  <2>2. CASE hand[s] # Null
    <3>1. HandSeq(s) = <<hand[s]>> /\ hand[s] \in Buffers
      BY <1>1, <2>2 DEF HandSeq
    <3>2. Range(<<hand[s]>>) = {hand[s]}
      BY DEF Range
    <3> QED BY <2>2, <3>1, <3>2
  <2> QED BY <2>1, <2>2
<1> QED BY <1>1, <1>2

\* The last part of the path: the frame UART_RX has accepted.
Accepted == IF rx_pc = "send" THEN HandSeq("uart_rx") ELSE <<>>

\* Two queues of n places, and two tasks that hold one buffer or none.
LEMMA TwoQueuesAndTwoHands ==
    ASSUME NEW n \in Nat, NEW a \in Nat, NEW u \in Nat, a <= n, u <= n,
           NEW b \in {0, 1}, NEW c \in {0, 1}
    PROVE  /\ a + b + u + c <= 2 * n + 2
           /\ c = 0 => a + b + u + c < 2 * n + 2
  OBVIOUS

\* What is in the channel, and how much.
LEMMA PathShape ==
    ASSUME BInv
    PROVE  /\ LTPath \in Seq(Buffers)
           /\ Len(LTPath) <= 2 * QueueLength + 2
           /\ rx_pc # "send" => Len(LTPath) < 2 * QueueLength + 2
           /\ Range(LTPath) \subseteq Travelling \cup {hand["apps"]} \cup
                  (IF rx_pc = "send" THEN {hand["uart_rx"]} ELSE {})
<1> DEFINE A == q["AppsToUDP"]   H == HandSeq("apps")   U == q["UARTtoApps"]
<1>1. /\ A \in Seq(Buffers) /\ Len(A) <= QueueLength
      /\ U \in Seq(Buffers) /\ Len(U) <= QueueLength
      /\ H \in Seq(Buffers) /\ Len(H) \in {0, 1} /\ Range(H) \subseteq {hand["apps"]}
  BY PathTypes DEF Queues, Slots
<1>2. /\ Accepted \in Seq(Buffers) /\ Len(Accepted) \in {0, 1}
      /\ rx_pc # "send" => Accepted = <<>> /\ Len(Accepted) = 0
      /\ Range(Accepted) \subseteq IF rx_pc = "send" THEN {hand["uart_rx"]} ELSE {}
  <2>1. Range(<<>>) = {} /\ <<>> \in Seq(Buffers) /\ Len(<<>>) = 0
    BY EmptySeq DEF Range
  <2> QED BY <2>1, PathTypes DEF Slots, Accepted
<1>3. LTPath = ((A \o H) \o U) \o Accepted
  BY DEF LTPath, Accepted
<1>4. Range(A) \subseteq Travelling /\ Range(U) \subseteq Travelling
  BY DEF Travelling, Queues
<1> DEFINE AH == A \o H   AHU == AH \o U
<1>5. AH \in Seq(Buffers) /\ Len(AH) = Len(A) + Len(H) /\ Range(AH) = Range(A) \cup Range(H)
  <2> HIDE DEF A, H
  <2> QED BY <1>1, Joined
<1>6. AHU \in Seq(Buffers) /\ Len(AHU) = Len(AH) + Len(U)
      /\ Range(AHU) = Range(AH) \cup Range(U)
  <2>1. AH \in Seq(Buffers) /\ U \in Seq(Buffers)
    BY <1>1, <1>5
  <2> HIDE DEF AH, U
  <2> QED BY <2>1, Joined
<1>7. /\ LTPath \in Seq(Buffers)
      /\ Len(LTPath) = Len(AHU) + Len(Accepted)
      /\ Range(LTPath) = Range(AHU) \cup Range(Accepted)
  <2>1. LTPath = AHU \o Accepted
    BY <1>3
  <2>2. AHU \in Seq(Buffers) /\ Accepted \in Seq(Buffers)
    BY <1>2, <1>6
  <2> HIDE DEF AHU
  <2> QED BY <2>1, <2>2, Joined
<1> HIDE DEF A, H, U, AH, AHU
<1>8. Range(LTPath) \subseteq Travelling \cup {hand["apps"]} \cup
          (IF rx_pc = "send" THEN {hand["uart_rx"]} ELSE {})
  BY <1>1, <1>2, <1>4, <1>5, <1>6, <1>7
<1>9. Len(A) \in Nat /\ Len(U) \in Nat
  BY <1>1, LenProperties
<1>10. Len(LTPath) = Len(A) + Len(H) + Len(U) + Len(Accepted)
  BY <1>5, <1>6, <1>7
<1>11. QueueLength \in Nat
  BY QueueLengthAssumption
<1>12. Len(LTPath) <= 2 * QueueLength + 2
  BY <1>1, <1>2, <1>9, <1>10, <1>11, TwoQueuesAndTwoHands
<1>13. rx_pc # "send" => Len(LTPath) < 2 * QueueLength + 2
  BY <1>1, <1>2, <1>9, <1>10, <1>11, TwoQueuesAndTwoHands
<1> QED BY <1>7, <1>8, <1>12, <1>13

\* A step that moves no frame of this direction is a stutter of the channel.
LEMMA PathKept ==
    ASSUME UNCHANGED <<q["AppsToUDP"], q["UARTtoApps"], hand["apps"]>>,
           Accepted' = Accepted
    PROVE  LTPath' = LTPath
  BY DEF LTPath, Accepted, HandSeq

\* UART_RX accepts a frame: it enters.
LEMMA AcceptIsEnter ==
    ASSUME BInv, UartRxAccept PROVE \E b \in Buffers : LTChannel!Enter(b)
<1> DEFINE b == hand["uart_rx"]
<1>1. /\ "uart_rx" \in Slots /\ "apps" \in Slots
      /\ b # Null /\ rx_pc = "feed" /\ rx_pc' = "send" /\ UNCHANGED <<q, hand>>
  BY DEF UartRxAccept, Feeding, poolVars, Slots
<1>2. b \in Buffers /\ b \notin Travelling /\ b # hand["apps"]
  BY <1>1, HandIsElsewhere DEF BInv, PoolOf!IInv, PoolOf!Exclusive, PoolOf!Null, Null
<1>3. LTPath \in Seq(Buffers) /\ b \notin Range(LTPath)
      /\ Len(LTPath) < 2 * QueueLength + 2
  BY <1>1, <1>2, PathShape
<1>4. LTPath' = Append(LTPath, b)
  <2>1. LTPath' = LTPath \o <<b>>
    <3>1. LTPath = (q["AppsToUDP"] \o HandSeq("apps") \o q["UARTtoApps"]) \o <<>>
      BY <1>1 DEF LTPath
    <3>2. LTPath' = (q["AppsToUDP"] \o HandSeq("apps") \o q["UARTtoApps"]) \o <<b>>
      BY <1>1 DEF LTPath, HandSeq
    <3>3. q["AppsToUDP"] \o HandSeq("apps") \o q["UARTtoApps"] \in Seq(Buffers)
      BY PathTypes, ConcatProperties, <1>1 DEF Queues
    <3> QED BY <3>1, <3>2, <3>3, ConcatEmptySeq
  <2> QED BY <1>2, <1>3, <2>1, AppendIsConcat
<1> QED BY <1>2, <1>3, <1>4 DEF LTChannel!Enter, LTChannel!Range, Range

\* The four parts of the path, joined from the left.
LEMMA PathParts ==
    ASSUME BInv
    PROVE  /\ LTPath = ((q["AppsToUDP"] \o HandSeq("apps")) \o q["UARTtoApps"]) \o Accepted
           /\ q["AppsToUDP"] \in Seq(Buffers) /\ q["UARTtoApps"] \in Seq(Buffers)
           /\ HandSeq("apps") \in Seq(Buffers) /\ Accepted \in Seq(Buffers)
           /\ q["AppsToUDP"] \o HandSeq("apps") \in Seq(Buffers)
           /\ (q["AppsToUDP"] \o HandSeq("apps")) \o q["UARTtoApps"] \in Seq(Buffers)
<1>1. /\ q["AppsToUDP"] \in Seq(Buffers) /\ q["UARTtoApps"] \in Seq(Buffers)
      /\ HandSeq("apps") \in Seq(Buffers) /\ HandSeq("uart_rx") \in Seq(Buffers)
  BY PathTypes DEF Queues, Slots
<1>2. Accepted \in Seq(Buffers)
  BY <1>1, EmptySeq DEF Accepted
<1> QED BY <1>1, <1>2, ConcatProperties DEF LTPath, Accepted

\* Passing a frame on inside the path is a stutter of the channel.
LEMMA PassingOnIsStutter ==
    ASSUME BInv, UartRxSend \/ AppsReceive \/ AppsForward PROVE LTPath' = LTPath
<1> DEFINE A == q["AppsToUDP"]   H == HandSeq("apps")   U == q["UARTtoApps"]
<1>1. q \in [Queues -> Seq(Buffers)] /\ hand \in [Slots -> Buffers \cup {Null}]
  BY DEF BInv, TypeOK
<1>2. LTPath' = ((A' \o H') \o U') \o Accepted'
  BY DEF LTPath, Accepted
<1>3. CASE UartRxSend
  <2>1. /\ hand["uart_rx"] # Null /\ rx_pc = "send" /\ rx_pc' = "feed"
        /\ hand["uart_rx"] \in Buffers
        /\ U' = Append(U, hand["uart_rx"]) /\ A' = A /\ hand'["apps"] = hand["apps"]
    BY <1>1, <1>3 DEF UartRxSend, xQueueSendToBack, Queues, Slots, BInv, TypeOK, HandsMatch
  <2>2. Accepted = <<hand["uart_rx"]>> /\ Accepted' = <<>> /\ H' = H
    BY <2>1 DEF Accepted, HandSeq
  <2>3. ((A \o H) \o U) \o <<hand["uart_rx"]>>
          = ((A \o H) \o Append(U, hand["uart_rx"])) \o <<>>
    <3>1. A \o H \in Seq(Buffers) /\ U \in Seq(Buffers)
      BY PathParts
    <3> HIDE DEF A, H, U
    <3>2. \A s \in Seq(Buffers) : (s \o U) \o <<hand["uart_rx"]>>
                                   = (s \o Append(U, hand["uart_rx"])) \o <<>>
      BY <2>1, <3>1, MoveAcross
    <3> QED BY <3>1, <3>2
  <2> QED BY <1>2, <2>1, <2>2, <2>3, PathParts
<1>4. CASE AppsReceive
  <2>1. /\ hand["apps"] = Null /\ U # <<>> /\ Head(U) \in Buffers
        /\ U' = Tail(U) /\ A' = A /\ hand'["apps"] = Head(U)
        /\ hand'["uart_rx"] = hand["uart_rx"] /\ rx_pc' = rx_pc
    <3>1. hand["apps"] = Null /\ xQueueReceive("UARTtoApps", "apps") /\ rx_pc' = rx_pc
      BY <1>4 DEF AppsReceive, BInv, TypeOK, HandsMatch
    <3>2. Head(U) \in Buffers
      BY <3>1, ReceiveQueues DEF Queues, Slots
    <3> QED BY <1>1, <3>1, <3>2 DEF xQueueReceive, Queues, Slots
  <2>2. H = <<>> /\ H' = <<Head(U)>> /\ Accepted' = Accepted
    BY <2>1, NullIsNotABuffer DEF Accepted, HandSeq
  <2>3. (A \o <<Head(U)>>) \o Tail(U) = (A \o <<>>) \o U
    BY <2>1, PathParts, MoveBack
  <2> QED BY <1>2, <2>1, <2>2, <2>3, PathParts
<1>5. CASE AppsForward
  <2>1. /\ hand["apps"] # Null /\ hand["apps"] \in Buffers
        /\ A' = Append(A, hand["apps"]) /\ U' = U /\ hand'["apps"] = Null
        /\ hand'["uart_rx"] = hand["uart_rx"] /\ rx_pc' = rx_pc
    BY <1>1, <1>5 DEF AppsForward, xQueueSendToBack, Queues, Slots, BInv, TypeOK, HandsMatch
  <2>2. H = <<hand["apps"]>> /\ H' = <<>> /\ Accepted' = Accepted
    BY <2>1 DEF Accepted, HandSeq
  <2>3. A \o <<hand["apps"]>> = Append(A, hand["apps"]) \o <<>>
    BY <2>1, PathParts, MoveInto
  <2> QED BY <1>2, <2>1, <2>2, <2>3, PathParts
<1> QED BY <1>3, <1>4, <1>5

\* LToUDP-tx takes the oldest frame: it leaves.
LEMMA TransmitIsLeave ==
    ASSUME BInv, UdpTxTransmit PROVE LTChannel!Leave
<1> DEFINE A == q["AppsToUDP"]   H == HandSeq("apps")   U == q["UARTtoApps"]
<1>1. /\ A # <<>> /\ A' = Tail(A) /\ U' = U
      /\ hand'["apps"] = hand["apps"] /\ hand'["uart_rx"] = hand["uart_rx"]
      /\ rx_pc' = rx_pc
  BY DEF UdpTxTransmit, xQueueReceive, Queues, Slots, BInv, TypeOK
<1>2. LTPath' = ((Tail(A) \o H) \o U) \o Accepted
  BY <1>1 DEF LTPath, Accepted, HandSeq
<1>3. A \o H # <<>> /\ Tail(A \o H) = Tail(A) \o H
  BY <1>1, PathParts, TailOfConcat
<1>4. (A \o H) \o U # <<>> /\ Tail((A \o H) \o U) = Tail(A \o H) \o U
  BY <1>3, PathParts, TailOfConcat
<1>5. ((A \o H) \o U) \o Accepted # <<>>
      /\ Tail(((A \o H) \o U) \o Accepted) = Tail((A \o H) \o U) \o Accepted
  BY <1>4, PathParts, TailOfConcat
<1> QED BY <1>2, <1>3, <1>4, <1>5, PathParts DEF LTChannel!Leave

\* Every step of every task is a step of the channel or none.
LEMMA StepIsChannelStep ==
    ASSUME BInv, [Next]_vars PROVE [LTChannel!Next]_LTPath
<1> USE DEF Slots, Queues
<1>1. q \in [Queues -> Seq(Buffers)] /\ hand \in [Slots -> Buffers \cup {Null}]
      /\ HandsMatch
  BY DEF BInv, TypeOK
<1>2. CASE UartRxAccept
  BY <1>2, AcceptIsEnter DEF LTChannel!Next
<1>3. CASE UdpTxTransmit
  BY <1>3, TransmitIsLeave DEF LTChannel!Next
<1>4. CASE AppsRestart
  <2>1. /\ q'["AppsToUDP"] = <<>> /\ q'["UARTtoApps"] = <<>> /\ rx_pc' = "feed"
        /\ hand'["apps"] = Null
    BY <1>4 DEF AppsRestart, Pool!Restart, Pool!Null, Null
  <2>2. LTPath' = ((<<>> \o <<>>) \o <<>>) \o <<>>
    BY <2>1 DEF LTPath, HandSeq
  <2>3. <<>> \o <<>> = <<>>
    BY EmptySeq, ConcatEmptySeq
  <2> QED BY <2>2, <2>3 DEF LTChannel!Reset, LTChannel!Next
<1>5. CASE UartRxSend \/ AppsReceive \/ AppsForward
  BY <1>5, PassingOnIsStutter
<1>6. CASE UartRxFirstByte \/ UartRxRetry
  <2>1. /\ rx_pc # "send" /\ rx_pc' # "send" /\ UNCHANGED q
        /\ hand'["apps"] = hand["apps"]
    BY <1>1, <1>6 DEF UartRxFirstByte, UartRxRetry, Pool!bp_fetch
  <2> QED BY <2>1, PathKept DEF Accepted
<1>7. CASE UartRxAbort \/ UartRxDrop
  <2>1. /\ rx_pc # "send" /\ rx_pc' # "send" /\ UNCHANGED q
        /\ hand'["apps"] = hand["apps"]
    BY <1>1, <1>7 DEF UartRxAbort, UartRxDrop, Feeding, Relinquish, Pool!bp_relinquish
  <2> QED BY <2>1, PathKept DEF Accepted
<1>8. CASE UdpTxRelease \/ UartTxRelease
  <2>1. /\ rx_pc' = rx_pc /\ UNCHANGED q
        /\ hand'["apps"] = hand["apps"] /\ hand'["uart_rx"] = hand["uart_rx"]
    BY <1>1, <1>8 DEF UdpTxRelease, UartTxRelease, Relinquish, Pool!bp_relinquish
  <2> QED BY <2>1, PathKept DEF Accepted, HandSeq
<1>9. CASE AppsReplyBuild \/ \E f \in IPFrames : UdpRxDatagram(f)
  <2>1. /\ rx_pc' = rx_pc /\ UNCHANGED q
        /\ hand'["apps"] = hand["apps"] /\ hand'["uart_rx"] = hand["uart_rx"]
    BY <1>1, <1>9 DEF AppsReplyBuild, UdpRxDatagram, FetchInto, Underflow, Pool!bp_fetch
  <2> QED BY <2>1, PathKept DEF Accepted, HandSeq
<1>10. CASE AppsReplySend \/ UdpRxSend
  <2>1. /\ rx_pc' = rx_pc
        /\ q'["AppsToUDP"] = q["AppsToUDP"] /\ q'["UARTtoApps"] = q["UARTtoApps"]
        /\ hand'["apps"] = hand["apps"] /\ hand'["uart_rx"] = hand["uart_rx"]
    BY <1>1, <1>10 DEF AppsReplySend, UdpRxSend, xQueueSendToBack
  <2> QED BY <2>1, PathKept DEF Accepted, HandSeq
<1>11. CASE UartTxWrite
  <2>1. /\ rx_pc' = rx_pc
        /\ q'["AppsToUDP"] = q["AppsToUDP"] /\ q'["UARTtoApps"] = q["UARTtoApps"]
        /\ hand'["apps"] = hand["apps"] /\ hand'["uart_rx"] = hand["uart_rx"]
    BY <1>1, <1>11 DEF UartTxWrite, xQueueReceive
  <2> QED BY <2>1, PathKept DEF Accepted, HandSeq
<1>12. CASE AppsExamine \/ AppsRepliesDone \/ (\E f \in LTFrames : UartRxBytes(f))
            \/ UNCHANGED vars
  <2>1. rx_pc' = rx_pc /\ UNCHANGED <<q, hand>>
    BY <1>12 DEF AppsExamine, AppsRepliesDone, UartRxBytes, vars, poolVars
  <2> QED BY <2>1, PathKept DEF Accepted, HandSeq
<1>13. CASE \E s \in Slots : Zero(s)
  <2>1. rx_pc' = rx_pc /\ UNCHANGED <<q, hand>>
    BY <1>13 DEF Zero
  <2> QED BY <2>1, PathKept DEF Accepted, HandSeq
<1> QED
  BY <1>2, <1>3, <1>4, <1>5, <1>6, <1>7, <1>8, <1>9, <1>10, <1>11, <1>12, <1>13
     DEF Next, UartRx, Apps, Udp, UartTx

\* The LocalTalk-to-UDP direction, three tasks and two queues, is one bounded FIFO
\* channel of frames, whatever the other direction and the replies do meanwhile.
THEOREM BridgeImplementsChannel == Spec => ImplementsChannel
<1>1. Init => LTChannel!Init
  <2> SUFFICES ASSUME Init PROVE LTPath = <<>>
    BY DEF LTChannel!Init
  <2>1. /\ q["AppsToUDP"] = <<>> /\ q["UARTtoApps"] = <<>> /\ rx_pc = "feed"
        /\ hand["apps"] = Null
    BY DEF Init, Pool!new_buffer_pool, Pool!Null, Null, Queues, Slots
  <2>2. LTPath = ((<<>> \o <<>>) \o <<>>) \o <<>>
    BY <2>1 DEF LTPath, HandSeq
  <2> QED BY <2>2, EmptySeq, ConcatEmptySeq
<1>2. BInv /\ [Next]_vars => [LTChannel!Next]_LTPath
  BY StepIsChannelStep
<1> QED
  BY <1>1, <1>2, BridgeInvariance, PTL DEF Spec, ImplementsChannel, LTChannel!Spec

-----------------------------------------------------------------------------
(* Where frames may go.                                                    *)

\* What is right on the way to UDP, on the way to LocalTalk, and in a reply.
FineForUDP(b) == data[b] = Blank \/ data[b].dst \in node_table \cup {Broadcast}
FineForLocalTalk(b) ==
    \/ data[b] = Blank
    \/ data[b].src = FakeNode
    \/ data[b].dst \in forward_for_nodes \cup {Broadcast}
FineReply(b) == data[b] = Blank \/ data[b].src = FakeNode
FakeFrames == {hand["reply"]} \ {Null}

\* LearnedDestinations is inductive once the reply APPS is sending, which is on
\* neither way yet, is known to be one.
LearnInv == LearnedDestinations /\ \A b \in FakeFrames : FineReply(b)

\* The invariant, buffer by buffer.
LEMMA LearnInvParts ==
    LearnInv <=> /\ \A b \in FromLocalTalk : FineForUDP(b)
                 /\ \A b \in FromUDP : FineForLocalTalk(b)
                 /\ \A b \in FakeFrames : FineReply(b)
  BY DEF LearnInv, LearnedDestinations, FineForUDP, FineForLocalTalk, FineReply

\* The same, of the next state.
LEMMA LearnInvNext ==
    /\ \A b \in FromLocalTalk' : FineForUDP(b)'
    /\ \A b \in FromUDP' : FineForLocalTalk(b)'
    /\ \A b \in FakeFrames' : FineReply(b)'
    => LearnInv'
  BY DEF LearnInv, LearnedDestinations, FineForUDP, FineForLocalTalk, FineReply

\* A step that only moves frames on, wipes some, and forgets nothing it has learned,
\* keeps the invariant; a reply may join the frames for LocalTalk.
LEMMA MovingOn ==
    ASSUME LearnInv,
           node_table \subseteq node_table', forward_for_nodes \subseteq forward_for_nodes',
           FromLocalTalk' \subseteq FromLocalTalk,
           FromUDP' \subseteq FromUDP \cup FakeFrames,
           FakeFrames' \subseteq FakeFrames,
           \A b \in FromLocalTalk \cup FromUDP \cup FakeFrames : data'[b] \in {data[b], Blank}
    PROVE  LearnInv'
<1>1. ASSUME NEW b \in FromLocalTalk' PROVE FineForUDP(b)'
  <2>1. FineForUDP(b) /\ data'[b] \in {data[b], Blank}
    BY <1>1, LearnInvParts
  <2> QED BY <2>1 DEF FineForUDP
<1>2. ASSUME NEW b \in FromUDP' PROVE FineForLocalTalk(b)'
  <2>1. (FineForLocalTalk(b) \/ FineReply(b)) /\ data'[b] \in {data[b], Blank}
    BY <1>2, LearnInvParts
  <2> QED BY <2>1 DEF FineForLocalTalk, FineReply
<1>3. ASSUME NEW b \in FakeFrames' PROVE FineReply(b)'
  <2>1. FineReply(b) /\ data'[b] \in {data[b], Blank}
    BY <1>3, LearnInvParts
  <2> QED BY <2>1 DEF FineReply
<1> QED BY <1>1, <1>2, <1>3, LearnInvNext

\* Sending moves a buffer from a hand to a queue, and touches no other.
LEMMA SendRanges ==
    ASSUME BInv, NEW k \in Queues, NEW s \in Slots, hand[s] # Null, xQueueSendToBack(k, s)
    PROVE  /\ Range(q'[k]) = Range(q[k]) \cup {hand[s]}
           /\ \A j \in Queues \ {k} : q'[j] = q[j]
           /\ hand'[s] = Null
           /\ \A r \in Slots \ {s} : hand'[r] = hand[r]
<1>1. /\ hand[s] \in Buffers /\ q \in [Queues -> Seq(Buffers)]
      /\ hand \in [Slots -> Buffers \cup {Null}]
  BY HandIsElsewhere DEF BInv, TypeOK
<1>2. Range(Append(q[k], hand[s])) = Range(q[k]) \cup {hand[s]}
  BY <1>1, PoolOf!AppendRange, SameSequences,
     BufferCountAssumption, BlankIsContent
<1> QED BY <1>1, <1>2 DEF xQueueSendToBack

\* Receiving moves one from a queue to a hand.
LEMMA ReceiveRanges ==
    ASSUME BInv, NEW k \in Queues, NEW s \in Slots, xQueueReceive(k, s)
    PROVE  /\ Range(q'[k]) \subseteq Range(q[k])
           /\ hand'[s] \in Range(q[k])
           /\ \A j \in Queues \ {k} : q'[j] = q[j]
           /\ \A r \in Slots \ {s} : hand'[r] = hand[r]
<1>1. /\ q \in [Queues -> Seq(Buffers)] /\ q[k] \in Seq(Buffers) /\ q[k] # <<>>
      /\ IsInjective(q[k]) /\ hand \in [Slots -> Buffers \cup {Null}]
  BY DEF BInv, TypeOK, QueuesExclusive, xQueueReceive
<1>2. Head(q[k]) \in Range(q[k]) /\ Range(Tail(q[k])) \subseteq Range(q[k])
  BY <1>1, PoolOf!TailRange, SameSequences,
     BufferCountAssumption, BlankIsContent
<1> QED BY <1>1, <1>2 DEF xQueueReceive

\* A free buffer, or one UART_RX is still filling, is on no way.
LEMMA OffThePath ==
    ASSUME BInv
    PROVE  /\ pool # <<>> => /\ Head(pool) \in Buffers
                             /\ Head(pool) \notin FromLocalTalk \cup FromUDP \cup FakeFrames
           /\ Feeding => /\ hand["uart_rx"] \in Buffers
                         /\ hand["uart_rx"] \notin FromLocalTalk \cup FromUDP \cup FakeFrames
<1> USE DEF Slots, Queues
<1>1. /\ \A s \in Slots : hand[s] # Null => hand[s] \notin Range(pool) \cup Travelling
      /\ \A r, s \in Slots : r # s /\ hand[r] = hand[s] => hand[r] = Null
      /\ IsInjective(pool) /\ Range(pool) \cap Travelling = {}
  BY DEF BInv, PoolOf!IInv, PoolOf!Exclusive, PoolOf!Null, Null, PoolOf!Range, Range,
     PoolOf!IsInjective, IsInjective
<1>2. pool # <<>> => Head(pool) \in Range(pool) /\ Head(pool) \in Buffers
  BY <1>1, PoolOf!TailRange, SameSequences,
     BufferCountAssumption, BlankIsContent DEF BInv, TypeOK
<1>3. \A k \in Queues : Range(q[k]) \subseteq Travelling
  BY DEF Travelling
<1>4. Feeding => rx_pc # "send" /\ hand["uart_rx"] # Null /\ hand["uart_rx"] \in Buffers
  BY DEF Feeding, BInv, TypeOK
<1>5. FromLocalTalk \cup FromUDP \cup FakeFrames
        \subseteq Travelling \cup {hand[s] : s \in {r \in Slots : hand[r] # Null}}
  <2>1. rx_pc = "send" => hand["uart_rx"] # Null
    BY DEF BInv, TypeOK, HandsMatch
  <2> QED BY <1>3, <2>1 DEF FromLocalTalk, FromUDP, FakeFrames
<1>6. pool # <<>> => Head(pool) \notin FromLocalTalk \cup FromUDP \cup FakeFrames
  BY <1>1, <1>2, <1>5
<1>7. Feeding => hand["uart_rx"] \notin FromLocalTalk \cup FromUDP \cup FakeFrames
  BY <1>1, <1>3, <1>4 DEF FromLocalTalk, FromUDP, FakeFrames
<1> QED BY <1>2, <1>4, <1>6, <1>7

\* Looking at the fetch: the buffer is filled before anybody can see it.
LEMMA FetchedData ==
    ASSUME BInv, NEW s \in Slots, NEW f, FetchInto(s, f) \/ Underflow
    PROVE  /\ \A r \in Slots \ {s} : hand'[r] = hand[r]
           /\ \A b \in FromLocalTalk \cup FromUDP \cup FakeFrames : data'[b] = data[b]
           /\ \/ hand'[s] = hand[s]
              \/ hand'[s] \in Buffers /\ data'[hand'[s]] = f
<1>1. hand \in [Slots -> Buffers \cup {Null}] /\ data \in [Buffers -> Contents]
  BY DEF BInv, TypeOK
<1>2. CASE Underflow
  BY <1>2 DEF Underflow
<1>3. CASE FetchInto(s, f)
  <2>1. /\ pool # <<>> /\ hand' = [hand EXCEPT ![s] = Head(pool)]
        /\ data' = [data EXCEPT ![Head(pool)] = f]
    BY <1>3 DEF FetchInto, Pool!bp_fetch
  <2>2. Head(pool) \in Buffers
        /\ Head(pool) \notin FromLocalTalk \cup FromUDP \cup FakeFrames
    BY <2>1, OffThePath
  <2> QED BY <1>1, <2>1, <2>2
<1> QED BY <1>2, <1>3

\* Every step of every task keeps the frames where they may be.
LEMMA NextLearnInv ==
    ASSUME BInv, LearnInv, [Next]_vars PROVE LearnInv'
<1> USE DEF Slots, Queues
<1>1. /\ q \in [Queues -> Seq(Buffers)] /\ hand \in [Slots -> Buffers \cup {Null}]
      /\ data \in [Buffers -> Contents] /\ HandsMatch
  BY DEF BInv, TypeOK
<1> DEFINE Ways == FromLocalTalk \cup FromUDP \cup FakeFrames
<1>2. CASE UartRxFirstByte \/ UartRxRetry \/ UartRxAbort \/ UartRxDrop
  <2>1. /\ rx_pc # "send" /\ rx_pc' # "send" /\ UNCHANGED <<q, data, tables>>
        /\ \A r \in Slots \ {"uart_rx"} : hand'[r] = hand[r]
    BY <1>1, <1>2 DEF UartRxFirstByte, UartRxRetry, UartRxAbort, UartRxDrop, Feeding,
       Relinquish, Pool!bp_fetch, Pool!bp_relinquish
  <2>2. UNCHANGED <<FromLocalTalk, FromUDP, FakeFrames>>
    BY <2>1 DEF FromLocalTalk, FromUDP, FakeFrames
  <2> QED BY <2>1, <2>2, MovingOn DEF tables
<1>3. ASSUME NEW f \in LTFrames, UartRxBytes(f) PROVE LearnInv'
  <2>1. /\ UNCHANGED <<q, hand, rx_pc, tables>>
        /\ data' = [data EXCEPT ![hand["uart_rx"]] = f]
        /\ hand["uart_rx"] \in Buffers /\ hand["uart_rx"] \notin Ways
    BY <1>3, OffThePath DEF UartRxBytes
  <2>2. UNCHANGED <<FromLocalTalk, FromUDP, FakeFrames>>
    BY <2>1 DEF FromLocalTalk, FromUDP, FakeFrames
  <2>3. \A b \in Ways : data'[b] = data[b]
    BY <1>1, <2>1
  <2> QED BY <2>1, <2>2, <2>3, MovingOn DEF tables
<1>4. CASE UartRxAccept
  <2>1. /\ FineForUDP(hand["uart_rx"])
        /\ UNCHANGED <<q, hand, data, tables>>
        /\ rx_pc' = "send"
    BY <1>4 DEF UartRxAccept, poolVars, FineForUDP, Packet, MayBeFresh
  <2>2. /\ FromLocalTalk' \subseteq FromLocalTalk \cup {hand["uart_rx"]}
        /\ UNCHANGED <<FromUDP, FakeFrames>>
    BY <2>1 DEF FromLocalTalk, FromUDP, FakeFrames
  <2>3. \A b \in FromLocalTalk' : FineForUDP(b)
    BY <2>1, <2>2, LearnInvParts
  <2>4. \A b : (FineForUDP(b) <=> FineForUDP(b)')
               /\ (FineForLocalTalk(b) <=> FineForLocalTalk(b)')
               /\ (FineReply(b) <=> FineReply(b)')
    BY <2>1 DEF FineForUDP, FineForLocalTalk, FineReply, tables
  <2> QED BY <2>2, <2>3, <2>4, LearnInvParts, LearnInvNext
<1>5. CASE UartRxSend
  <2>1. /\ hand["uart_rx"] # Null /\ rx_pc = "send" /\ rx_pc' = "feed"
        /\ xQueueSendToBack("UARTtoApps", "uart_rx") /\ UNCHANGED <<data, tables>>
    BY <1>1, <1>5 DEF UartRxSend, HandsMatch
  <2>2. /\ FromLocalTalk' \subseteq FromLocalTalk
        /\ UNCHANGED <<FromUDP, FakeFrames>>
    BY <2>1, SendRanges DEF FromLocalTalk, FromUDP, FakeFrames
  <2> QED BY <2>1, <2>2, MovingOn DEF tables
<1>6. CASE AppsReceive
  <2>1. xQueueReceive("UARTtoApps", "apps") /\ UNCHANGED <<data, tables, rx_pc>>
    BY <1>6 DEF AppsReceive
  <2>2. /\ FromLocalTalk' \subseteq FromLocalTalk
        /\ UNCHANGED <<FromUDP, FakeFrames>>
    BY <2>1, ReceiveRanges DEF FromLocalTalk, FromUDP, FakeFrames
  <2> QED BY <2>1, <2>2, MovingOn DEF tables
<1>7. CASE AppsExamine \/ AppsRepliesDone \/ UNCHANGED vars
  <2>1. UNCHANGED <<q, hand, data, tables, rx_pc>>
    BY <1>7 DEF AppsExamine, AppsRepliesDone, vars, poolVars
  <2>2. UNCHANGED <<FromLocalTalk, FromUDP, FakeFrames>>
    BY <2>1 DEF FromLocalTalk, FromUDP, FakeFrames
  <2> QED BY <2>1, <2>2, MovingOn DEF tables
<1>8. CASE AppsReplyBuild
  <2>1. /\ FetchInto("reply", FakeReply(nbp_addr)) \/ Underflow
        /\ UNCHANGED <<q, rx_pc, tables>>
    BY <1>8 DEF AppsReplyBuild
  <2>2. /\ \A r \in Slots \ {"reply"} : hand'[r] = hand[r]
        /\ \A b \in Ways : data'[b] = data[b]
        /\ \/ hand'["reply"] = hand["reply"]
           \/ data'[hand'["reply"]] = FakeReply(nbp_addr)
    BY <2>1, FetchedData
  <2>3. UNCHANGED <<FromLocalTalk, FromUDP>>
    BY <2>1, <2>2 DEF FromLocalTalk, FromUDP
  <2>4. /\ \A b \in FromLocalTalk' : FineForUDP(b)'
        /\ \A b \in FromUDP' : FineForLocalTalk(b)'
    BY <2>1, <2>2, <2>3, LearnInvParts DEF FineForUDP, FineForLocalTalk, tables
  <2>5. \A b \in FakeFrames' : FineReply(b)'
    <3>1. CASE hand'["reply"] = hand["reply"]
      BY <2>2, <3>1, LearnInvParts DEF FineReply, FakeFrames
    <3>2. CASE data'[hand'["reply"]] = FakeReply(nbp_addr)
      BY <3>2 DEF FineReply, FakeFrames, FakeReply
    <3> QED BY <2>2, <3>1, <3>2
  <2> QED BY <2>4, <2>5, LearnInvNext
<1>9. CASE AppsReplySend
  <2>1. /\ hand["reply"] # Null /\ xQueueSendToBack("UDPtoUART", "reply")
        /\ UNCHANGED <<data, tables, rx_pc>>
    BY <1>9 DEF AppsReplySend
  <2>2. /\ FromUDP' \subseteq FromUDP \cup FakeFrames /\ FakeFrames' = {}
        /\ FromLocalTalk' = FromLocalTalk
    BY <2>1, SendRanges DEF FromLocalTalk, FromUDP, FakeFrames
  <2> QED BY <2>1, <2>2, MovingOn DEF tables
<1>10. CASE AppsForward
  <2>1. /\ hand["apps"] # Null /\ xQueueSendToBack("AppsToUDP", "apps")
        /\ UNCHANGED <<data, tables, rx_pc>>
    BY <1>1, <1>10 DEF AppsForward, HandsMatch
  <2>2. FromLocalTalk' \subseteq FromLocalTalk /\ UNCHANGED <<FromUDP, FakeFrames>>
    BY <2>1, SendRanges DEF FromLocalTalk, FromUDP, FakeFrames
  <2> QED BY <2>1, <2>2, MovingOn DEF tables
<1>11. CASE AppsRestart
  <2>1. /\ \A k \in Queues : Range(q'[k]) = {}
        /\ \A s \in Slots : hand'[s] = Null
        /\ rx_pc' = "feed"
    BY <1>11 DEF AppsRestart, Pool!Restart, Pool!Null, Null, Range
  <2>2. FromLocalTalk' = {} /\ FromUDP' = {} /\ FakeFrames' = {}
    BY <2>1 DEF FromLocalTalk, FromUDP, FakeFrames
  <2> QED BY <2>2, LearnInvNext
<1>12. CASE UdpTxTransmit
  <2>1. /\ xQueueReceive("AppsToUDP", "udp_tx") /\ UNCHANGED <<data, rx_pc, node_table>>
        /\ forward_for_nodes \subseteq forward_for_nodes'
    BY <1>12 DEF UdpTxTransmit, nt_touch
  <2>2. FromLocalTalk' \subseteq FromLocalTalk /\ UNCHANGED <<FromUDP, FakeFrames>>
    BY <2>1, ReceiveRanges DEF FromLocalTalk, FromUDP, FakeFrames
  <2> QED BY <2>1, <2>2, MovingOn
<1>13. CASE UdpTxRelease \/ UartTxRelease
  <2>1. /\ UNCHANGED <<q, data, rx_pc, tables>>
        /\ \A s \in Slots : hand'[s] \in {hand[s], Null}
        /\ hand'["uart_rx"] = hand["uart_rx"]
    BY <1>1, <1>13 DEF UdpTxRelease, UartTxRelease, Relinquish, Pool!bp_relinquish,
       Pool!Null, Null
  <2>2. /\ FromLocalTalk' \subseteq FromLocalTalk /\ FromUDP' \subseteq FromUDP
        /\ FakeFrames' \subseteq FakeFrames
    BY <2>1 DEF FromLocalTalk, FromUDP, FakeFrames
  <2> QED BY <2>1, <2>2, MovingOn DEF tables
<1>14. ASSUME NEW f \in IPFrames, UdpRxDatagram(f) PROVE LearnInv'
  <2>1. /\ FetchInto("udp_rx", f) \/ Underflow
        /\ f.dst \in forward_for_nodes \cup {Broadcast}
        /\ UNCHANGED <<q, rx_pc, tables>>
    BY <1>14 DEF UdpRxDatagram, MayBeFresh
  <2>2. /\ \A r \in Slots \ {"udp_rx"} : hand'[r] = hand[r]
        /\ \A b \in Ways : data'[b] = data[b]
        /\ \/ hand'["udp_rx"] = hand["udp_rx"]
           \/ data'[hand'["udp_rx"]] = f
    BY <2>1, FetchedData
  <2>3. /\ FromUDP' \subseteq FromUDP \cup {hand'["udp_rx"]}
        /\ hand'["udp_rx"] = hand["udp_rx"] => FromUDP' = FromUDP
        /\ UNCHANGED <<FromLocalTalk, FakeFrames>>
    BY <2>1, <2>2 DEF FromLocalTalk, FromUDP, FakeFrames
  <2>4. /\ \A b \in FromLocalTalk' : FineForUDP(b)'
        /\ \A b \in FakeFrames' : FineReply(b)'
    BY <2>1, <2>2, <2>3, LearnInvParts DEF FineForUDP, FineReply, tables
  <2>5. \A b \in FromUDP : FineForLocalTalk(b)'
    BY <2>1, <2>2, LearnInvParts DEF FineForLocalTalk, tables
  <2>6. \A b : data'[b] = f => FineForLocalTalk(b)'
    BY <2>1 DEF FineForLocalTalk, tables
  <2>7. \A b \in FromUDP' : FineForLocalTalk(b)'
    BY <2>2, <2>3, <2>5, <2>6
  <2> QED BY <2>4, <2>7, LearnInvNext
<1>15. CASE UdpRxSend
  <2>1. /\ hand["udp_rx"] # Null /\ xQueueSendToBack("UDPtoUART", "udp_rx")
        /\ UNCHANGED <<data, tables, rx_pc>>
    BY <1>15 DEF UdpRxSend
  <2>2. FromUDP' \subseteq FromUDP /\ UNCHANGED <<FromLocalTalk, FakeFrames>>
    BY <2>1, SendRanges DEF FromLocalTalk, FromUDP, FakeFrames
  <2> QED BY <2>1, <2>2, MovingOn DEF tables
<1>16. CASE UartTxWrite
  <2>1. /\ xQueueReceive("UDPtoUART", "uart_tx")
        /\ UNCHANGED <<data, rx_pc, forward_for_nodes>>
        /\ node_table \subseteq node_table'
    BY <1>16 DEF UartTxWrite, nt_touch
  <2>2. FromUDP' \subseteq FromUDP /\ UNCHANGED <<FromLocalTalk, FakeFrames>>
    BY <2>1, ReceiveRanges DEF FromLocalTalk, FromUDP, FakeFrames
  <2> QED BY <2>1, <2>2, MovingOn
<1>17. ASSUME NEW s \in Slots, Zero(s) PROVE LearnInv'
  <2>1. UNCHANGED <<q, hand, rx_pc, tables>> /\ data' = [data EXCEPT ![wiping[s]] = Blank]
    BY <1>17 DEF Zero, Pool!bp_relinquish_zero
  <2>2. UNCHANGED <<FromLocalTalk, FromUDP, FakeFrames>>
    BY <2>1 DEF FromLocalTalk, FromUDP, FakeFrames
  <2>3. \A b \in Ways : data'[b] \in {data[b], Blank}
    BY <1>1, <2>1
  <2> QED BY <2>1, <2>2, <2>3, MovingOn DEF tables
<1> QED
  BY <1>2, <1>3, <1>4, <1>5, <1>6, <1>7, <1>8, <1>9, <1>10, <1>11, <1>12, <1>13,
     <1>14, <1>15, <1>16, <1>17 DEF Next, UartRx, Apps, Udp, UartTx

\* A frame is under way to one side only if it is for everybody, or for a node that
\* has been heard there, or is a reply of the bridge itself, or has been wiped in its
\* buffer: for any traffic, and although other tasks write the tables meanwhile.
THEOREM BridgeLearnedDestinations == Spec => []LearnedDestinations
<1>1. Init => LearnInv
  <2> SUFFICES ASSUME Init PROVE LearnInv
    OBVIOUS
  <2>1. /\ \A k \in Queues : Range(q[k]) = {}
        /\ \A s \in Slots : hand[s] = Null
        /\ rx_pc = "feed"
    BY DEF Init, Pool!new_buffer_pool, Pool!Null, Null, Range, Queues
  <2>2. FromLocalTalk = {} /\ FromUDP = {} /\ FakeFrames = {}
    BY <2>1 DEF FromLocalTalk, FromUDP, FakeFrames, Slots, Queues
  <2> QED BY <2>2, LearnInvParts
<1>2. BInv /\ LearnInv /\ [Next]_vars => LearnInv'
  BY NextLearnInv
<1>3. LearnInv => LearnedDestinations
  BY DEF LearnInv
<1> QED
  BY <1>1, <1>2, <1>3, BridgeInvariance, PTL DEF Spec
=============================================================================
