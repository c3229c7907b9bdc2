---------------------------- MODULE UartLinkProofs ----------------------------
(***************************************************************************)
(* UART_TX, UART_RX and TashTalk keep in step, for any set of nodes, any   *)
(* mask length and any limit on handshakes.                                *)
(***************************************************************************)
EXTENDS UartLink, TLAPS

\* Two writers amid their messages at once are remembered as a tangle.
Apart == TxMid /\ RxMid => tangled

\* The count that starts a reset is cleared when the reset is over.
Counting == rx_pc = "idle" => handshake_count <= HandshakeLimit

IInv == TypeOK /\ Apart /\ Counting /\ Lockstep

-----------------------------------------------------------------------------
\* The boot starts with a reset, whatever TashTalk was doing.
LEMMA InitIInv == Init => IInv
<1> SUFFICES ASSUME Init PROVE IInv
  OBVIOUS
<1>1. /\ tx_byte \in 0 .. MaskBytes - 1 /\ rx_byte \in 0 .. MaskBytes
      /\ handshake_count \in 0 .. HandshakeLimit + 1
  BY MaskBytesAssumption, HandshakeLimitAssumption DEF Init
<1>2. TypeOK
  BY <1>1 DEF Init, TypeOK
<1>3. Apart /\ Counting /\ Lockstep
  BY DEF Init, Apart, Counting, Lockstep, TxMid, RxMid
<1> QED
  BY <1>2, <1>3 DEF IInv

\* A write TashTalk expects takes it where the writer wants it, and any write
\* leaves it in some mode with some mask.
LEMMA Understands ==
    ASSUME TypeOK, NEW expected, NEW mode \in Modes, Understood(expected, mode)
    PROVE  /\ tashtalk' \in [mode : Modes, mask : SUBSET Nodes]
           /\ tashtalk.mode = expected => tashtalk'.mode = mode
  BY DEF TypeOK, Understood, Modes

\* The same for a mask.
LEMMA MaskUnderstood ==
    ASSUME TypeOK, NEW bits \in SUBSET Nodes, MaskArrives(bits)
    PROVE  /\ tashtalk' \in [mode : Modes, mask : SUBSET Nodes]
           /\ tashtalk.mode = "mask" => tashtalk'.mode = "idle"
  BY DEF TypeOK, MaskArrives, Modes

\* 1024 zeros bring TashTalk back from anywhere.
LEMMA ZerosMend ==
    ASSUME TypeOK, ZerosArrive
    PROVE  tashtalk' \in [mode : Modes, mask : SUBSET Nodes] /\ tashtalk'.mode = "idle"
<1>1. tashtalk.mode \in Modes
  BY DEF TypeOK
<1>2. CASE tashtalk.mode = "mask"
  BY <1>2 DEF TypeOK, ZerosArrive, Modes
<1>3. CASE tashtalk.mode = "adrift"
  BY <1>3 DEF TypeOK, ZerosArrive, Modes
<1>4. CASE tashtalk.mode \in {"idle", "frame"}
  BY <1>4 DEF TypeOK, ZerosArrive, Modes
<1> QED
  BY <1>1, <1>2, <1>3, <1>4 DEF Modes

-----------------------------------------------------------------------------
\* The steps of UART_TX.
LEMMA NextTx == IInv /\ UartTx => IInv'
<1> SUFFICES ASSUME IInv, UartTx PROVE IInv'
  OBVIOUS
<1> USE DEF IInv
<1>1. CASE \E src \in Nodes \cup {Unknown} : TxReceive(src)
  <2>1. PICK src \in Nodes \cup {Unknown} : TxReceive(src)
    BY <1>1
  <2>2. alive' \subseteq Nodes /\ tx_bits' \subseteq Nodes
    BY <2>1 DEF TxReceive, TypeOK
  <2>3. tx_byte' \in 0 .. MaskBytes - 1
    BY <2>1, MaskBytesAssumption DEF TxReceive
  <2>4. TypeOK'
    BY <2>1, <2>2, <2>3 DEF TxReceive, TypeOK, rx, history
  <2> QED
    BY <2>1, <2>4
       DEF TxReceive, Apart, Counting, Lockstep, Expected, TxMid, RxMid, rx, history
<1>2. CASE SerialiseClear
  BY <1>2 DEF SerialiseClear, TypeOK, Apart, Counting, Lockstep, Expected, TxMid, RxMid, rx, history
<1>3. CASE SerialiseFill
  <2>1. tx_byte' \in 0 .. MaskBytes - 1
    BY <1>3, MaskBytesAssumption DEF SerialiseFill, NextByte, TypeOK
  <2>2. tx_pc' \in {"clear", "command", "announce"}
    BY <1>3 DEF SerialiseFill, NextByte
  <2>3. tx_changed' \in BOOLEAN
    BY <1>3 DEF SerialiseFill, TypeOK
  <2> QED
    BY <1>3, <2>1, <2>2, <2>3
       DEF SerialiseFill, TypeOK, Apart, Counting, Lockstep, Expected, TxMid, RxMid, rx, history
<1>4. CASE TxMaskCommand
  BY <1>4, Understands DEF TxMaskCommand, TypeOK, Apart, Counting, Lockstep, Expected, TxMid, RxMid, rx, Modes
<1>5. CASE TxMask
  BY <1>5, MaskUnderstood DEF TxMask, TypeOK, Apart, Counting, Lockstep, Expected, TxMid, RxMid, rx
<1>6. CASE TxAnnounce
  BY <1>6, Understands DEF TxAnnounce, TypeOK, Apart, Counting, Lockstep, Expected, TxMid, RxMid, rx, Modes
<1>7. CASE TxFrame
  BY <1>7, Understands DEF TxFrame, TypeOK, Apart, Counting, Lockstep, Expected, TxMid, RxMid, rx, history, Modes
<1> QED
  BY <1>1, <1>2, <1>3, <1>4, <1>5, <1>6, <1>7 DEF UartTx

\* The steps of UART_RX.
LEMMA NextRx == IInv /\ UartRx => IInv'
<1> SUFFICES ASSUME IInv, UartRx PROVE IInv'
  OBVIOUS
<1> USE DEF IInv
<1>1. CASE RxHandshake
  <2>1. tx_pc # "off" /\ rx_pc = "idle" /\ rx_pc' \in {"zeros", "idle"}
    BY <1>1 DEF RxHandshake
  <2>2. handshake_count' \in 0 .. HandshakeLimit + 1
    BY <1>1, HandshakeLimitAssumption DEF RxHandshake, TypeOK, Counting
  <2>3. rx_pc' = "idle" => handshake_count' <= HandshakeLimit
    BY <1>1, <2>2, HandshakeLimitAssumption DEF RxHandshake
  <2> QED
    BY <1>1, <2>1, <2>2, <2>3
       DEF RxHandshake, TypeOK, Apart, Counting, Lockstep, Expected, TxMid, RxMid, tx, history
<1>2. CASE RxOther
  BY <1>2, HandshakeLimitAssumption
     DEF RxOther, TypeOK, Apart, Counting, Lockstep, Expected, TxMid, RxMid, tx, history
<1>3. CASE RxZeros
  <2>1. tangled' \in BOOLEAN
    BY <1>3 DEF RxZeros, TxMid
  <2> QED
    BY <1>3, <2>1, ZerosMend
       DEF RxZeros, TypeOK, Apart, Counting, Lockstep, Expected, TxMid, RxMid, tx
<1>4. CASE RxMaskCommand
  BY <1>4, Understands DEF RxMaskCommand, TypeOK, Apart, Counting, Lockstep, Expected, TxMid, RxMid, tx,
                           history, Modes
<1>5. CASE RxMask
  <2>1. rx_byte' \in 0 .. MaskBytes
    BY <1>5, MaskBytesAssumption DEF RxMask
  <2> QED
    BY <1>5, <2>1
       DEF RxMask, TypeOK, Apart, Counting, Lockstep, Expected, TxMid, RxMid, tx
<1>6. CASE RxMaskByte
  <2>1. PICK part \in SUBSET (IF Refilled THEN tx_bits ELSE {}) :
           rx_sent' = rx_sent \cup ((nodebits \cup part) \cap NodeByte(rx_byte))
    BY <1>6 DEF RxMaskByte
  <2>2. rx_sent' \subseteq Nodes
    BY <2>1 DEF TypeOK, NodeByte
  <2>3. rx_byte' \in 0 .. MaskBytes
    BY <1>6, MaskBytesAssumption DEF RxMaskByte, TypeOK
  <2>4. torn' \in BOOLEAN
    BY <1>6 DEF RxMaskByte
  <2> QED
    BY <1>6, <2>2, <2>3, <2>4
       DEF RxMaskByte, TypeOK, Apart, Counting, Lockstep, Expected, TxMid, RxMid, tx
<1>7. CASE RxMaskSent
  <2>1. /\ tashtalk' \in [mode : Modes, mask : SUBSET Nodes]
        /\ tashtalk.mode = "mask" => tashtalk'.mode = "idle"
    BY <1>7, MaskUnderstood DEF RxMaskSent, TypeOK
  <2> QED
    BY <1>7, <2>1, HandshakeLimitAssumption
       DEF RxMaskSent, TypeOK, Apart, Counting, Lockstep, Expected, TxMid, RxMid, tx, history
<1> QED
  BY <1>1, <1>2, <1>3, <1>4, <1>5, <1>6, <1>7 DEF UartRx

\* Every step preserves the invariant.
LEMMA NextIInv == IInv /\ [Next]_vars => IInv'
<1> SUFFICES ASSUME IInv, [Next]_vars PROVE IInv'
  OBVIOUS
<1>1. CASE Start
  BY <1>1 DEF Start, IInv, TypeOK, Apart, Counting, Lockstep, Expected, TxMid, RxMid, rx, history
<1>2. CASE \E n \in Nodes : GoStale(n)
  BY <1>2 DEF GoStale, IInv, TypeOK, Apart, Counting, Lockstep, Expected, TxMid, RxMid, tx, rx, history
<1>3. CASE UNCHANGED vars
  BY <1>3 DEF vars, IInv, TypeOK, Apart, Counting, Lockstep, Expected, TxMid, RxMid, tx, rx, history
<1> QED
  BY <1>1, <1>2, <1>3, NextTx, NextRx DEF Next

\* The invariant holds for ever.
LEMMA Invariance == Spec => []IInv
  BY InitIInv, NextIInv, PTL DEF Spec

-----------------------------------------------------------------------------
\* The variables of the link keep their types.
THEOREM LinkTypeOK == Spec => []TypeOK
<1>1. IInv => TypeOK
  BY DEF IInv
<1> QED
  BY <1>1, Invariance, PTL

\* TashTalk expects what its two writers are about to write, unless a reset and a
\* message of UART_TX have overlapped since the last reset that started between
\* messages (uart_init_tashtalk and uart_tx_runloop of uart.c).
THEOREM LinkLockstep == Spec => []Lockstep
<1>1. IInv => Lockstep
  BY DEF IInv
<1> QED
  BY <1>1, Invariance, PTL

-----------------------------------------------------------------------------
(* The mask.                                                               *)

\* The packet as it was before nt_serialise cleared the byte it is filling.
Packet == IF tx_pc = "fill" THEN nodebits \cup tx_old ELSE nodebits

\* UART_TX has nothing to tell, not even at the end of the nt_serialise it is in.
Quiet ==
    /\ tx_pc \in {"clear", "fill"} => ~tx_changed
    /\ tx_pc \notin {"command", "mask"}

\* Then TashTalk has the packet,
Told ==
    /\ ~tangled /\ ~torn /\ ~RxMid
    /\ tx_pc = "off" => rx_pc = "idle"
    /\ Quiet

MaskInv == Told => tashtalk.mask = Packet

\* and a reset under way has sent of the packet what comes before rx_byte.
Below(k) == {n \in Packet : n \div 8 < k}

SendInv ==
    /\ tx_pc = "fill" => tx_old \subseteq NodeByte(tx_byte)
    /\ rx_pc = "sending" /\ ~torn /\ Quiet => rx_sent = Below(rx_byte)

\* The byte of a node is one of the mask.
LEMMA ByteOfNode ==
    ASSUME NEW n \in Nodes PROVE n \div 8 \in Nat /\ n \div 8 < MaskBytes
<1>1. n \in Nat /\ n < 8 * MaskBytes /\ MaskBytes \in Nat
  BY NodesAssumption, MaskBytesAssumption
<1>2. \A k, m \in Nat : k < 8 * m => k \div 8 \in Nat /\ k \div 8 < m
  OBVIOUS
<1> QED BY <1>1, <1>2

\* A step of nt_serialise that leaves UART_TX quiet leaves the packet as it was.
LEMMA QuietKeepsPacket ==
    ASSUME TypeOK, UartTx, Quiet', rx_pc = "sending"
    PROVE  /\ Quiet /\ Packet' = Packet
           /\ UNCHANGED <<rx_pc, rx_byte, rx_sent, torn>>
<1> USE DEF Quiet, Packet, rx, history
<1>1. CASE \E src \in Nodes \cup {Unknown} : TxReceive(src)
  BY <1>1 DEF TxReceive
<1>2. CASE SerialiseClear
  BY <1>2 DEF SerialiseClear
<1>3. CASE SerialiseFill
  <2>1. /\ tx_pc = "fill" /\ tx_pc' # "fill" /\ ~tx_changed'
        /\ UNCHANGED <<rx_pc, rx_byte, rx_sent, torn>>
    BY <1>3 DEF SerialiseFill, NextByte
  <2>2. ~tx_changed /\ nodebits' = nodebits \cup tx_old
    BY <1>3, <2>1 DEF SerialiseFill
  <2> QED BY <2>1, <2>2
<1>4. CASE TxMaskCommand \/ TxMask \/ TxAnnounce \/ TxFrame
  BY <1>4 DEF TxMaskCommand, TxMask, TxAnnounce, TxFrame, UartTaken
<1> QED
  BY <1>1, <1>2, <1>3, <1>4 DEF UartTx

\* A byte that is read while it is not refilled is that of the packet.
LEMMA ByteIsSent ==
    ASSUME TypeOK, SendInv, RxMaskByte, ~torn', Quiet
    PROVE  rx_sent' = Below(rx_byte + 1)
<1>1. /\ rx_pc = "sending" /\ ~torn /\ ~Refilled
      /\ rx_sent' = rx_sent \cup (nodebits \cap NodeByte(rx_byte))
  BY DEF RxMaskByte
<1>2. rx_byte \in Nat /\ tx_byte \in Nat /\ MaskBytes \in Nat
  BY MaskBytesAssumption DEF TypeOK
<1>3. \A n \in Nodes : n \div 8 \in Nat
  BY ByteOfNode
<1>4. Packet \subseteq Nodes /\ nodebits \subseteq Packet
  BY DEF Packet, TypeOK
<1>5. Packet \cap NodeByte(rx_byte) = nodebits \cap NodeByte(rx_byte)
  <2>1. CASE tx_pc = "fill"
    <3>1. tx_byte # rx_byte /\ tx_old \subseteq NodeByte(tx_byte)
      BY <1>1, <2>1 DEF Refilled, SendInv
    <3>2. tx_old \cap NodeByte(rx_byte) = {}
      BY <3>1 DEF NodeByte
    <3> QED BY <2>1, <3>2 DEF Packet
  <2> QED BY <2>1 DEF Packet
<1>6. Below(rx_byte + 1) = Below(rx_byte) \cup (Packet \cap NodeByte(rx_byte))
  <2>1. ASSUME NEW n \in Nodes
        PROVE  n \div 8 < rx_byte + 1 <=> n \div 8 < rx_byte \/ n \div 8 = rx_byte
    BY <1>2, <1>3
  <2> QED BY <1>4, <2>1 DEF Below, NodeByte
<1>7. rx_sent = Below(rx_byte)
  BY <1>1 DEF SendInv
<1> QED BY <1>1, <1>5, <1>6, <1>7

\* Every step: what nt_serialise does to the packet while it is being sent either
\* leaves it as it was, or will be told.
LEMMA NextSendInv == IInv /\ SendInv /\ [Next]_vars => SendInv'
<1> SUFFICES ASSUME IInv, SendInv, [Next]_vars PROVE SendInv'
  OBVIOUS
<1>1. TypeOK
  BY DEF IInv
<1>2. tx_pc' = "fill" => tx_old' \subseteq NodeByte(tx_byte')
  <2>1. CASE SerialiseClear
    BY <2>1 DEF SerialiseClear
  <2>2. CASE ~SerialiseClear /\ UartTx
    BY <2>2 DEF UartTx, TxReceive, SerialiseFill, NextByte, TxMaskCommand, TxMask, TxAnnounce, TxFrame
  <2>3. CASE ~UartTx
    <3>1. (tx_pc' = tx_pc \/ tx_pc' = "recv") /\ UNCHANGED <<tx_old, tx_byte>>
      BY <2>3 DEF Next, UartRx, RxHandshake, RxOther, RxZeros, RxMaskCommand, RxMask, RxMaskByte,
                  RxMaskSent, Start, GoStale, vars, tx
    <3> QED BY <3>1 DEF SendInv, NodeByte
  <2> QED BY <2>1, <2>2, <2>3
<1>3. ASSUME rx_pc' = "sending", ~torn', Quiet' PROVE rx_sent' = Below(rx_byte)'
  <2>1. CASE UartTx
    <3>1. rx_pc = "sending"
      BY <1>3, <2>1 DEF UartTx, TxReceive, SerialiseClear, SerialiseFill, TxMaskCommand, TxMask,
                        TxAnnounce, TxFrame, rx
    <3>2. /\ Quiet /\ Packet' = Packet
          /\ UNCHANGED <<rx_pc, rx_byte, rx_sent, torn>>
      BY <1>1, <1>3, <2>1, <3>1, QuietKeepsPacket
    <3> QED BY <1>3, <3>1, <3>2 DEF SendInv, Below
  <2>2. CASE RxMask
    <3>1. rx_sent' = {} /\ rx_byte' = 0 /\ Packet' = Packet /\ Packet \subseteq Nodes
      BY <1>1, <2>2 DEF RxMask, Packet, TypeOK, tx
    <3>2. \A n \in Nodes : ~(n \div 8 < 0)
      BY ByteOfNode
    <3> QED BY <3>1, <3>2 DEF Below
  <2>3. CASE RxMaskByte
    <3>1. Quiet /\ Packet' = Packet /\ rx_byte' = rx_byte + 1
      BY <1>3, <2>3 DEF RxMaskByte, Quiet, Packet, tx
    <3>2. rx_sent' = Below(rx_byte + 1)
      BY <1>1, <1>3, <2>3, <3>1, ByteIsSent
    <3> QED BY <3>1, <3>2 DEF Below
  <2>4. CASE RxHandshake \/ RxOther \/ RxZeros \/ RxMaskCommand \/ RxMaskSent \/ Start
    BY <1>3, <2>4 DEF RxHandshake, RxOther, RxZeros, RxMaskCommand, RxMaskSent, Start, rx
  <2>5. CASE (\E n \in Nodes : GoStale(n)) \/ UNCHANGED vars
    <3>1. UNCHANGED <<rx_pc, rx_byte, rx_sent, torn, nodebits, tx_pc, tx_old, tx_changed>>
      BY <2>5 DEF GoStale, vars, tx, rx, history
    <3> QED BY <1>3, <3>1 DEF SendInv, Below, Packet, Quiet
  <2> QED BY <2>1, <2>2, <2>3, <2>4, <2>5 DEF Next, UartRx
<1> QED BY <1>2, <1>3 DEF SendInv

\* A message TashTalk understands leaves its mask alone.
LEMMA UnderstoodKeepsMask ==
    ASSUME TypeOK, NEW expected, NEW mode, tashtalk.mode = expected, Understood(expected, mode)
    PROVE  tashtalk'.mask = tashtalk.mask
  BY DEF TypeOK, Understood

\* The steps of UART_TX: nt_serialise compares each byte with what was sent, and
\* what it finds changed is sent.
LEMMA TxMaskInv == IInv /\ MaskInv /\ UartTx => MaskInv'
<1> SUFFICES ASSUME IInv, MaskInv, UartTx, Told' PROVE tashtalk'.mask = Packet'
  BY DEF MaskInv
<1> USE DEF Told, Quiet, Packet, TxMid, RxMid, tx, rx, history
<1>1. CASE \E src \in Nodes \cup {Unknown} : TxReceive(src)
  BY <1>1 DEF TxReceive, MaskInv
<1>2. CASE SerialiseClear
  BY <1>2 DEF SerialiseClear, MaskInv
<1>3. CASE SerialiseFill
  <2>1. /\ tx_pc = "fill" /\ tx_pc' # "fill" /\ ~tx_changed'
        /\ UNCHANGED <<tashtalk, rx_pc, tangled, torn>>
    BY <1>3 DEF SerialiseFill, NextByte
  <2>2. ~tx_changed /\ nodebits' = nodebits \cup tx_old
    BY <1>3, <2>1 DEF SerialiseFill
  <2> QED BY <2>1, <2>2 DEF MaskInv
<1>4. CASE TxMaskCommand
  BY <1>4 DEF TxMaskCommand
<1>5. CASE TxMask
  <2>1. tashtalk.mode = "mask"
    BY <1>5 DEF TxMask, IInv, Lockstep, Expected
  <2> QED BY <1>5, <2>1 DEF TxMask, MaskArrives
<1>6. CASE TxAnnounce
  <2>1. tashtalk.mode = "idle"
    BY <1>6 DEF TxAnnounce, IInv, Lockstep, Expected
  <2>2. tashtalk'.mask = tashtalk.mask
    BY <1>6, <2>1, UnderstoodKeepsMask DEF TxAnnounce, IInv
  <2> QED BY <1>6, <2>2 DEF TxAnnounce, MaskInv
<1>7. CASE TxFrame
  <2>1. tashtalk.mode = "frame"
    BY <1>7 DEF TxFrame, IInv, Lockstep, Expected
  <2>2. tashtalk'.mask = tashtalk.mask
    BY <1>7, <2>1, UnderstoodKeepsMask DEF TxFrame, IInv
  <2> QED BY <1>7, <2>2 DEF TxFrame, MaskInv
<1> QED
  BY <1>1, <1>2, <1>3, <1>4, <1>5, <1>6, <1>7 DEF UartTx

\* The steps of UART_RX: a reset has sent the whole packet.
LEMMA RxMaskInv == IInv /\ MaskInv /\ SendInv /\ UartRx => MaskInv'
<1> SUFFICES ASSUME IInv, MaskInv, SendInv, UartRx, Told' PROVE tashtalk'.mask = Packet'
  BY DEF MaskInv
<1> USE DEF Told, Quiet, Packet, TxMid, RxMid, tx, rx, history
<1>1. CASE RxHandshake \/ RxOther
  BY <1>1 DEF RxHandshake, RxOther, MaskInv
<1>2. CASE RxZeros \/ RxMaskCommand \/ RxMask \/ RxMaskByte
  BY <1>2 DEF RxZeros, RxMaskCommand, RxMask, RxMaskByte
<1>3. CASE RxMaskSent
  <2>1. /\ rx_pc = "sending" /\ rx_byte = MaskBytes /\ ~tangled /\ ~torn /\ Quiet
        /\ Packet' = Packet /\ MaskArrives(rx_sent)
    BY <1>3 DEF RxMaskSent
  <2>2. rx_sent = Below(MaskBytes) /\ Packet \subseteq Nodes
    BY <2>1 DEF SendInv, IInv, TypeOK
  <2>3. Below(MaskBytes) = Packet
    BY <2>2, ByteOfNode DEF Below
  <2>4. tashtalk.mode = "mask"
    BY <2>1 DEF IInv, Apart, Lockstep, Expected
  <2> QED BY <2>1, <2>2, <2>3, <2>4 DEF MaskArrives
<1> QED
  BY <1>1, <1>2, <1>3 DEF UartRx

\* Every step.
LEMMA NextMaskInv == IInv /\ MaskInv /\ SendInv /\ [Next]_vars => MaskInv'
<1> SUFFICES ASSUME IInv, MaskInv, SendInv, [Next]_vars PROVE MaskInv'
  OBVIOUS
<1>1. CASE Start \/ (\E n \in Nodes : GoStale(n)) \/ UNCHANGED vars
  BY <1>1 DEF Start, GoStale, vars, MaskInv, Told, Quiet, Packet, RxMid, tx, rx, history
<1> QED BY <1>1, TxMaskInv, RxMaskInv DEF Next

\* TashTalk answers for the nodes in node_table_packet and for no others, from the
\* first reset on, unless a reset has overlapped with a message or has read a byte of
\* the packet while it was refilled: for any nodes and any length of the mask.
THEOREM LinkMaskInStep == Spec => []MaskInStep
<1>1. Init => MaskInv /\ SendInv
  BY DEF Init, MaskInv, Told, SendInv
<1>2. IInv /\ MaskInv /\ SendInv /\ [Next]_vars => MaskInv' /\ SendInv'
  BY NextMaskInv, NextSendInv
<1>3. MaskInv => MaskInStep
  BY DEF MaskInv, Told, Quiet, Packet, MaskInStep
<1> QED
  BY <1>1, <1>2, <1>3, Invariance, PTL DEF Spec

-----------------------------------------------------------------------------
(* The sender of a frame.                                                  *)

\* The sender UART_TX has just touched is among the nodes nt_serialise finds recent,
\* and these are in the packet as far as nt_serialise has come.
SenderInv ==
    /\ tx_pc \notin {"off", "recv"} /\ tx_src # Unknown => tx_src \in tx_bits
    /\ tx_pc \in {"clear", "fill"} => \A n \in tx_bits : n \div 8 < tx_byte => n \in nodebits
    /\ tx_pc \in {"command", "mask", "announce", "frame"} => tx_bits \subseteq nodebits

\* Only nt_serialise writes the packet, a byte at a time and in order.
LEMMA NextSenderInv == IInv /\ SenderInv /\ [Next]_vars => SenderInv'
<1> SUFFICES ASSUME IInv, SenderInv, [Next]_vars PROVE SenderInv'
  OBVIOUS
<1>1. tx_byte \in 0 .. MaskBytes - 1 /\ tx_bits \subseteq Nodes /\ nodebits \subseteq Nodes
      /\ MaskBytes \in Nat \ {0}
  BY MaskBytesAssumption DEF IInv, TypeOK
<1>2. \A n \in Nodes : n \div 8 \in Nat /\ n \div 8 < MaskBytes
  BY ByteOfNode
<1>3. ASSUME NEW src \in Nodes \cup {Unknown}, TxReceive(src) PROVE SenderInv'
  <2>1. /\ tx_src' = src /\ tx_bits' = alive \cup ({src} \ {Unknown})
        /\ tx_byte' = 0 /\ tx_pc' = "clear"
    BY <1>3 DEF TxReceive
  <2>2. \A n \in tx_bits' : n \in Nodes
    BY <2>1 DEF IInv, TypeOK
  <2> QED BY <1>2, <2>1, <2>2 DEF SenderInv
<1>4. CASE SerialiseClear
  <2>1. /\ tx_pc = "clear" /\ tx_pc' = "fill" /\ nodebits' = nodebits \ NodeByte(tx_byte)
        /\ UNCHANGED <<tx_src, tx_byte, tx_bits>>
    BY <1>4 DEF SerialiseClear
  <2>2. \A n \in NodeByte(tx_byte) : ~(n \div 8 < tx_byte)
    BY <1>1, <1>2 DEF NodeByte
  <2> QED BY <1>1, <2>1, <2>2 DEF SenderInv
<1>5. CASE SerialiseFill
  <2>1. /\ tx_pc = "fill" /\ nodebits' = nodebits \cup (tx_bits \cap NodeByte(tx_byte))
        /\ UNCHANGED <<tx_src, tx_bits>>
        /\ tx_byte' = (tx_byte + 1) % MaskBytes
        /\ tx_pc' \in {"clear", "command", "announce"}
        /\ tx_pc' = "clear" <=> tx_byte' # 0
    BY <1>5 DEF SerialiseFill, NextByte
  <2>2. tx_byte' # 0 => tx_byte' = tx_byte + 1
    BY <1>1, <2>1
  <2>3. tx_byte' = 0 => tx_byte + 1 = MaskBytes
    BY <1>1, <2>1
  <2>4. \A n \in tx_bits : n \div 8 < tx_byte + 1 => n \in nodebits'
    <3> SUFFICES ASSUME NEW n \in tx_bits, n \div 8 < tx_byte + 1 PROVE n \in nodebits'
      OBVIOUS
    <3>1. n \div 8 \in Nat /\ n \in Nodes
      BY <1>1, <1>2
    <3>2. n \div 8 < tx_byte \/ n \div 8 = tx_byte
      BY <1>1, <3>1
    <3> QED BY <2>1, <3>1, <3>2 DEF SenderInv, NodeByte
  <2>5. tx_byte' = 0 => tx_bits \subseteq nodebits'
    BY <1>1, <1>2, <2>3, <2>4
  <2> QED BY <2>1, <2>2, <2>4, <2>5 DEF SenderInv
<1>6. CASE TxMaskCommand \/ TxMask \/ TxAnnounce \/ TxFrame
  BY <1>6 DEF TxMaskCommand, TxMask, TxAnnounce, TxFrame, SenderInv
<1>7. CASE Start \/ UartRx \/ (\E n \in Nodes : GoStale(n)) \/ UNCHANGED vars
  BY <1>7 DEF Start, UartRx, RxHandshake, RxOther, RxZeros, RxMaskCommand, RxMask, RxMaskByte,
     RxMaskSent, GoStale, vars, tx, SenderInv
<1> QED
  BY <1>3, <1>4, <1>5, <1>6, <1>7 DEF Next, UartTx

\* When UART_TX writes a frame TashTalk answers for its sender, except after a reset
\* that overlapped with a message or with nt_serialise.
THEOREM LinkAliveIsTold == Spec => []AliveIsTold
<1>1. Init => MaskInv /\ SendInv /\ SenderInv
  BY DEF Init, MaskInv, Told, SendInv, SenderInv
<1>2. IInv /\ MaskInv /\ SendInv /\ [Next]_vars => MaskInv' /\ SendInv'
  BY NextMaskInv, NextSendInv
<1>3. IInv /\ MaskInv /\ SenderInv => AliveIsTold
  BY DEF IInv, Apart, MaskInv, Told, Quiet, Packet, SenderInv, AliveIsTold, TxMid
<1> QED
  BY <1>1, <1>2, <1>3, NextSenderInv, Invariance, PTL DEF Spec
=============================================================================
