------------------------------- MODULE UartLink -------------------------------
(***************************************************************************)
(* The UART towards TashTalk, which two tasks write: UART_TX sends frames  *)
(* and, when it has changed, the mask of the nodes TashTalk answers for;   *)
(* UART_RX resets TashTalk when it sees too many handshakes in a row.      *)
(*                                                                         *)
(* The driver holds a mutex for the duration of each uart_write_bytes.  A  *)
(* command byte and what belongs to it are separate calls with nothing     *)
(* that keeps the two tasks apart.  A call is one step where nobody else   *)
(* writes the bytes it sends.                                              *)
(*                                                                         *)
(* node_table_packet is shared too.  nt_serialise clears and refills it    *)
(* byte by byte while UART_RX may be sending it, byte by byte as well:     *)
(* the driver has no buffer for what it sends (uart.c:97).                 *)
(*                                                                         *)
(* TashTalk itself is outside the repository.  What it does with the bytes *)
(* is taken from how uart.c uses it: 0x01 announces a frame, 0x02 a mask,  *)
(* and 1024 zeros, longer than any frame, bring it out of whatever it was  *)
(* waiting for.  Once it takes data for commands it is "adrift", and its   *)
(* mask may be anything.                                                   *)
(***************************************************************************)
EXTENDS Naturals, FiniteSets

CONSTANTS
    MaskBytes,       \* bytes of the mask: 32
    Nodes,           \* the nodes behind UDP
    HandshakeLimit   \* 10 in uart_check_for_tx_wedge

ASSUME MaskBytesAssumption == MaskBytes \in Nat \ {0}
ASSUME NodesAssumption == Nodes \subseteq 1 .. 8 * MaskBytes - 2
ASSUME HandshakeLimitAssumption == HandshakeLimit \in Nat

Modes == {"idle", "frame", "mask", "adrift"}
Unknown == 0  \* a source nt_touch ignores

VARIABLES
    tashtalk,         \* what TashTalk expects next, and its mask
    alive,            \* node_table: the nodes heard within 1800 s
    nodebits,         \* node_table_packet
    tx_pc,            \* UART_TX; "off" until uart_start
    tx_src,           \* the source of the frame it is writing
    tx_byte,          \* nt_serialise: byte_idx
    tx_bits,          \* nt_serialise: the nodes it finds recent
    tx_old,           \* nt_serialise: oldbyte
    tx_changed,       \* nt_serialise: changed
    rx_pc,            \* uart_init_tashtalk in UART_RX, at boot in app_main
    rx_byte,          \* how many bytes of the mask it has sent
    rx_sent,          \* the nodes in these
    handshake_count,
    tangled,          \* history: two writers were amid their messages at once
    torn              \* history: a byte of TashTalk's mask was read while it was refilled

tx == <<tx_pc, tx_src, tx_byte, tx_bits, tx_old, tx_changed>>
rx == <<rx_pc, rx_byte, rx_sent, handshake_count>>
history == <<tangled, torn>>
vars == <<tashtalk, alive, nodebits, tx, rx, history>>

\* The nodes whose bits are in byte i of the mask.
NodeByte(i) == {n \in Nodes : n \div 8 = i}

-----------------------------------------------------------------------------
(* What TashTalk makes of a write.                                         *)

\* A command byte or a payload that TashTalk expects takes it to mode; one it
\* does not expect sets it adrift.
Understood(expected, mode) ==
    IF tashtalk.mode = expected
    THEN tashtalk' = [tashtalk EXCEPT !.mode = mode]
    ELSE \E mask \in SUBSET Nodes : tashtalk' = [mode |-> "adrift", mask |-> mask]

MaskArrives(bits) ==
    IF tashtalk.mode = "mask"
    THEN tashtalk' = [mode |-> "idle", mask |-> bits]
    ELSE \E mask \in SUBSET Nodes : tashtalk' = [mode |-> "adrift", mask |-> mask]

\* A pending mask takes its 32 bytes from the zeros, a pending frame is one of
\* zeros, and the rest is ignored.
ZerosArrive ==
    CASE tashtalk.mode = "mask"   -> tashtalk' = [mode |-> "idle", mask |-> {}]
      [] tashtalk.mode = "adrift" -> \E mask \in SUBSET Nodes :
                                       tashtalk' = [mode |-> "idle", mask |-> mask]
      [] OTHER                    -> tashtalk' = [tashtalk EXCEPT !.mode = "idle"]

-----------------------------------------------------------------------------
\* Between the first and the last write of a message or of a reset.
TxMid == tx_pc \in {"mask", "frame"}
RxMid == rx_pc \in {"command", "mask", "sending"}

\* UART_RX is in uart_write_bytes, and UART_TX waits for the mutex.
UartTaken == rx_pc = "sending"

-----------------------------------------------------------------------------
(* UART_TX: uart_tx_runloop, nt_serialise and uart_write_node_table.       *)

TxReceive_SerialisesFirst(src) ==
    /\ tx_pc = "recv"
    /\ tx_src' = src
    /\ alive' = alive \cup ({src} \ {Unknown})
    /\ tx_bits' = alive
    /\ tx_byte' = 0 /\ tx_changed' = FALSE
    /\ tx_pc' = "clear"
    /\ UNCHANGED <<tashtalk, nodebits, tx_old, rx, history>>

\* A valid frame from src (an invalid one is released without a write): its
\* sender is touched, and nt_serialise reads the clock.
TxReceive(src) ==
    /\ tx_pc = "recv"
    /\ tx_src' = src
    /\ alive' = alive \cup ({src} \ {Unknown})
    /\ tx_bits' = alive'
    /\ tx_byte' = 0 /\ tx_changed' = FALSE
    /\ tx_pc' = "clear"
    /\ UNCHANGED <<tashtalk, nodebits, tx_old, rx, history>>

\* packet->nodebits[byte_idx] = 0
SerialiseClear ==
    /\ tx_pc = "clear"
    /\ tx_old' = nodebits \cap NodeByte(tx_byte)
    /\ nodebits' = nodebits \ NodeByte(tx_byte)
    /\ tx_pc' = "fill"
    /\ UNCHANGED <<tashtalk, alive, tx_src, tx_byte, tx_bits, tx_changed, rx, history>>

\* After the last byte comes the mask, if it has changed, or else the frame.
NextByte ==
    /\ tx_byte' = (tx_byte + 1) % MaskBytes
    /\ tx_pc' = IF tx_byte' # 0 THEN "clear"
                ELSE IF tx_changed' THEN "command" ELSE "announce"

\* The bits of one byte.
SerialiseFill_LastByteOnly ==
    LET filled == tx_bits \cap NodeByte(tx_byte) IN
    /\ tx_pc = "fill"
    /\ nodebits' = nodebits \cup filled
    /\ tx_changed' = (filled # tx_old)
    /\ NextByte
    /\ UNCHANGED <<tashtalk, alive, tx_src, tx_bits, tx_old, rx, history>>

SerialiseFill ==
    LET filled == tx_bits \cap NodeByte(tx_byte) IN
    /\ tx_pc = "fill"
    /\ nodebits' = nodebits \cup filled
    /\ tx_changed' = (tx_changed \/ filled # tx_old)
    /\ NextByte
    /\ UNCHANGED <<tashtalk, alive, tx_src, tx_bits, tx_old, rx, history>>

\* 0x02, and the 32 bytes of the mask.
TxMaskCommand ==
    /\ tx_pc = "command" /\ tx_pc' = "mask" /\ ~UartTaken
    /\ Understood("idle", "mask")
    /\ tangled' = (tangled \/ RxMid)
    /\ UNCHANGED <<alive, nodebits, tx_src, tx_byte, tx_bits, tx_old, tx_changed, rx, torn>>

TxMask ==
    /\ tx_pc = "mask" /\ tx_pc' = "announce" /\ ~UartTaken
    /\ MaskArrives(nodebits)
    /\ torn' = FALSE
    /\ UNCHANGED <<alive, nodebits, tx_src, tx_byte, tx_bits, tx_old, tx_changed, rx, tangled>>

\* 0x01, and the frame; bp_relinquish follows.
TxAnnounce ==
    /\ tx_pc = "announce" /\ tx_pc' = "frame" /\ ~UartTaken
    /\ Understood("idle", "frame")
    /\ tangled' = (tangled \/ RxMid)
    /\ UNCHANGED <<alive, nodebits, tx_src, tx_byte, tx_bits, tx_old, tx_changed, rx, torn>>

TxFrame ==
    /\ tx_pc = "frame" /\ tx_pc' = "recv" /\ ~UartTaken
    /\ Understood("frame", "idle")
    /\ UNCHANGED <<alive, nodebits, tx_src, tx_byte, tx_bits, tx_old, tx_changed, rx, history>>

-----------------------------------------------------------------------------
(* UART_RX: uart_check_for_tx_wedge, with the frame it is about to forward, *)
(* and uart_init_tashtalk, which app_main calls before the tasks exist.     *)

RxHandshake ==
    /\ rx_pc = "idle" /\ tx_pc # "off"
    /\ handshake_count' = handshake_count + 1
    /\ rx_pc' = IF handshake_count' > HandshakeLimit THEN "zeros" ELSE "idle"
    /\ UNCHANGED <<tashtalk, alive, nodebits, tx, rx_byte, rx_sent, history>>

RxOther ==
    /\ rx_pc = "idle" /\ tx_pc # "off"
    /\ handshake_count' = 0
    /\ UNCHANGED <<tashtalk, alive, nodebits, tx, rx_pc, rx_byte, rx_sent, history>>

RxZeros_TooFew ==
    /\ rx_pc = "zeros" /\ rx_pc' = "command"
    /\ \/ ZerosArrive
       \/ UNCHANGED tashtalk
    /\ tangled' = TxMid
    /\ UNCHANGED <<alive, nodebits, tx, rx_byte, rx_sent, handshake_count, torn>>

RxZeros ==
    /\ rx_pc = "zeros" /\ rx_pc' = "command"
    /\ ZerosArrive
    /\ tangled' = TxMid
    /\ UNCHANGED <<alive, nodebits, tx, rx_byte, rx_sent, handshake_count, torn>>

RxMaskCommand ==
    /\ rx_pc = "command" /\ rx_pc' = "mask"
    /\ Understood("idle", "mask")
    /\ UNCHANGED <<alive, nodebits, tx, rx_byte, rx_sent, handshake_count, history>>

\* The second uart_write_bytes of uart_write_node_table.
RxMask ==
    /\ rx_pc = "mask" /\ rx_pc' = "sending"
    /\ rx_byte' = 0 /\ rx_sent' = {}
    /\ torn' = FALSE
    /\ UNCHANGED <<tashtalk, alive, nodebits, tx, handshake_count, tangled>>

\* nt_serialise is filling the next byte to be sent.
Refilled == tx_pc = "fill" /\ tx_byte = rx_byte

\* Such a byte may be read with any part of its bits.
RxMaskByte ==
    /\ rx_pc = "sending" /\ rx_byte < MaskBytes
    /\ \E part \in SUBSET (IF Refilled THEN tx_bits ELSE {}) :
          rx_sent' = rx_sent \cup ((nodebits \cup part) \cap NodeByte(rx_byte))
    /\ rx_byte' = rx_byte + 1
    /\ torn' = (torn \/ Refilled)
    /\ UNCHANGED <<tashtalk, alive, nodebits, tx, rx_pc, handshake_count, tangled>>

RxMaskSent_KeepsCount ==
    /\ rx_pc = "sending" /\ rx_byte = MaskBytes
    /\ rx_pc' = "idle"
    /\ MaskArrives(rx_sent)
    /\ UNCHANGED <<alive, nodebits, tx, rx_byte, rx_sent, handshake_count, history>>

RxMaskSent ==
    /\ rx_pc = "sending" /\ rx_byte = MaskBytes
    /\ rx_pc' = "idle" /\ handshake_count' = 0
    /\ MaskArrives(rx_sent)
    /\ UNCHANGED <<alive, nodebits, tx, rx_byte, rx_sent, history>>

-----------------------------------------------------------------------------
\* uart_start, once the reset of uart_init is complete.
Start ==
    /\ tx_pc = "off" /\ rx_pc = "idle"
    /\ tx_pc' = "recv"
    /\ UNCHANGED <<tashtalk, alive, nodebits, tx_src, tx_byte, tx_bits, tx_old,
                   tx_changed, rx, history>>

\* 1800 s have passed since n was last heard.
GoStale(n) ==
    /\ n \in alive
    /\ alive' = alive \ {n}
    /\ UNCHANGED <<tashtalk, nodebits, tx, rx, history>>

\* After a power-up or an esp_restart TashTalk may be in any state.
Init ==
    /\ tashtalk \in [mode : Modes, mask : SUBSET Nodes]
    /\ alive = {} /\ nodebits = {}
    /\ tx_pc = "off" /\ tx_src = Unknown /\ tx_byte = 0
    /\ tx_bits = {} /\ tx_old = {} /\ tx_changed = FALSE
    /\ rx_pc = "zeros" /\ rx_byte = 0 /\ rx_sent = {} /\ handshake_count = 0
    /\ tangled = FALSE /\ torn = FALSE

UartTx ==
    \/ \E src \in Nodes \cup {Unknown} : TxReceive(src)
    \/ SerialiseClear \/ SerialiseFill
    \/ TxMaskCommand \/ TxMask \/ TxAnnounce \/ TxFrame

UartRx ==
    \/ RxHandshake \/ RxOther
    \/ RxZeros \/ RxMaskCommand \/ RxMask \/ RxMaskByte \/ RxMaskSent

Next == UartTx \/ UartRx \/ Start \/ \E n \in Nodes : GoStale(n)

Spec == Init /\ [][Next]_vars

-----------------------------------------------------------------------------
(* Properties.                                                             *)

\* Every variable stays in its type.
TypeOK ==
    /\ tashtalk \in [mode : Modes, mask : SUBSET Nodes]
    /\ alive \subseteq Nodes /\ nodebits \subseteq Nodes
    /\ tx_pc \in {"off", "recv", "clear", "fill", "command", "mask", "announce", "frame"}
    /\ tx_src \in Nodes \cup {Unknown}
    /\ tx_byte \in 0 .. MaskBytes - 1
    /\ tx_bits \subseteq Nodes /\ tx_old \subseteq Nodes
    /\ tx_changed \in BOOLEAN
    /\ rx_pc \in {"zeros", "command", "mask", "sending", "idle"}
    /\ rx_byte \in 0 .. MaskBytes /\ rx_sent \subseteq Nodes
    /\ handshake_count \in 0 .. HandshakeLimit + 1
    /\ tangled \in BOOLEAN /\ torn \in BOOLEAN

\* What TashTalk should be expecting, seen from the two writers.
Expected ==
    IF TxMid THEN tx_pc ELSE IF rx_pc \in {"mask", "sending"} THEN "mask" ELSE "idle"

\* TashTalk and the two writers agree on what comes next, from the reset of
\* uart_init on, unless a reset and a message of UART_TX have overlapped; and a
\* later reset that overlaps with nothing mends it (uart.c:55-59, uart.c:147-151).
Lockstep ==
    ~tangled /\ ~(tx_pc = "off" /\ rx_pc = "zeros") => tashtalk.mode = Expected

\* TashTalk's mask is node_table_packet whenever UART_TX thinks it is, although
\* it is sent only on a change and a reset may have sent it in between; the one
\* exception is a reset that has read a byte of it just while nt_serialise refilled that.
MaskInStep ==
    /\ ~tangled /\ ~torn /\ ~RxMid
    /\ tx_pc \in {"announce", "frame", "recv"}
    => tashtalk.mask = nodebits

\* "If it's alive, we need to tell TashTalk to proxy LocalTalk control packets
\* (CTS/RTS) for it" (node_table.h:13-14): when UART_TX writes a frame, TashTalk
\* answers for its sender, unless a reset has sent a byte of the packet just while it
\* was refilled.  Then nothing sends the mask again, because `changed` compares with
\* the packet and not with what TashTalk was told (node_table.c:59).
AliveIsTold ==
    ~tangled /\ ~torn /\ tx_pc = "frame" /\ tx_src # Unknown => tx_src \in tashtalk.mask

-----------------------------------------------------------------------------
(* What the code's comments say, and its races deny.                       *)

\* uart.c:66-68: "something's gone wrong and we should reset the tashtalk to a
\* known state".
ResetReachesKnownState ==
    [][rx_pc = "sending" /\ rx_pc' = "idle" => tashtalk'.mode # "adrift"]_vars
=============================================================================
