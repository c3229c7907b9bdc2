------------------------------- MODULE FramePath -------------------------------
(***************************************************************************)
(* What happens to the bytes of a frame: TashTalk's byte stream and the    *)
(* parser (tashtalk.c), APPS (apps.c), the datagram (ip.c), and UART_TX of *)
(* this bridge or of the one at the other end (uart.c).                    *)
(*                                                                         *)
(* One frame is under way at a time; that the tasks run at once, and how   *)
(* buffers and queues carry the frames, is the matter of Bridge.  The UART *)
(* loses bytes.  TashTalk and the nodes are modelled as the code uses them.*)
(***************************************************************************)
EXTENDS Packets

CONSTANTS
    Contents,      \* what nodes send on LocalTalk, without the FCS
    Datagrams,     \* what other LToUDP hosts send, without the 4-byte header
    AccessPoints,  \* the last scan: records of a name and its CRC-32
    PacketSize,    \* 605: the size of a buffer
    MaxSent,       \* how many frames are sent
    MaxLost        \* how many bytes the UART loses

ASSUME BytesAssumption == Contents \cup Datagrams \subseteq Seq(0 .. 255)
ASSUME PacketSizeAssumption == PacketSize \in Nat
\* Names have at most 32 bytes, so a reply has at most 62.
ASSUME RepliesAssumption ==
    /\ LookupType \in Seq(1 .. 255)
    /\ \A ap \in AccessPoints :
          /\ ap.name \in Seq(0 .. 255) /\ ap.crc32 \in Nat
          /\ Len(ap.name) + Len(LookupType) + 21 <= PacketSize
          /\ Len(ap.name) + Len(LookupType) + 19 <= 255

VARIABLES
    history,  \* the contents sent so far, the last one last
    line,     \* bytes on the UART, from TashTalk
    quiet,    \* how many bytes have arrived since one was lost
    lost,     \* how many were lost
    found,    \* none was lost of the three before the frame on the UART or of its header
    intact,   \* nor of the rest of this frame
    rx,       \* tashtalk_rx_state_t: in_escape, and the bytes of packet_in_progress
    stage,    \* who has the frame
    frame,    \* the frame, or the datagram
    origin,   \* where it came from: a node, another host, or APPS
    written   \* what UART_TX has written of it, if anything

stream == <<history, line, quiet, lost, found, intact>>
path == <<stage, frame, origin, written>>
vars == <<stream, rx, path>>

Nothing == <<>>
Sent == history[Len(history)]

-----------------------------------------------------------------------------
(* TashTalk.                                                               *)

Escaped(b) == IF b = 0 THEN <<0, 255>> ELSE <<b>>

\* The bytes of f from each of its positions on, and the end marker.
Wire(f) ==
    LET from[i \in 1 .. Len(f) + 1] ==
            IF i > Len(f) THEN <<0, 253>> ELSE Escaped(f[i]) \o from[i + 1]
    IN  from

\* Nobody but the parser has a frame.
Free == stage \in {"rx", "done", "unknown", "configured"}

\* A node sends a frame.  To find it the parser needs the three bytes before it.
TashTalkReceives(content) ==
    /\ line = Nothing /\ Free /\ Len(history) < MaxSent
    /\ history' = Append(history, content)
    /\ line' = Wire(content \o Fcs(content))[1]
    /\ found' = (quiet = 3) /\ intact' = (quiet = 3)
    /\ stage' = "rx" /\ frame' = Nothing /\ origin' = "node" /\ written' = Nothing
    /\ UNCHANGED <<quiet, lost, rx>>

\* A framing error or an aborted frame, but not between the two bytes of an escape.
\* The bound: not the last frame, since there is none after it to suffer.
TashTalkGivesUp ==
    /\ Len(line) > 2 /\ Head(line) # 255 /\ Len(history) < MaxSent
    /\ \E code \in {254, 250} : line' = <<0, code>>
    /\ intact' = FALSE
    /\ UNCHANGED <<history, quiet, lost, found, rx, path>>

\* The header is the five bytes up to the length field.
LoseByte ==
    /\ line # Nothing /\ lost < MaxLost
    /\ line' = Tail(line)
    /\ lost' = lost + 1 /\ quiet' = 0 /\ intact' = FALSE
    /\ found' = (found /\ Len(rx.packet) >= 5)
    /\ UNCHANGED <<history, rx, path>>

-----------------------------------------------------------------------------
(* The parser.                                                             *)

append(packet, byte) == IF Len(packet) < PacketSize THEN Append(packet, byte) ELSE packet

NewPacket == [in_escape |-> FALSE, packet |-> Nothing]

\* A frame whose CRC is wrong is logged and goes on like any other.
HandOver == 
    /\ stage' = "accept" /\ frame' = rx.packet
    /\ origin' = "node" /\ written' = Nothing

feed_DropsZeros(byte) ==
    \/ /\ rx.in_escape /\ byte = 253
       /\ rx' = NewPacket /\ HandOver
    \/ /\ rx.in_escape /\ byte \in {254, 250}
       /\ rx' = NewPacket /\ UNCHANGED path
    \/ /\ rx.in_escape /\ byte \notin {250, 253, 254}
       /\ rx' = [rx EXCEPT !.in_escape = FALSE] /\ UNCHANGED path
    \/ /\ ~rx.in_escape
       /\ rx' = IF byte = 0 THEN [rx EXCEPT !.in_escape = TRUE]
                ELSE [rx EXCEPT !.packet = append(@, byte)]
       /\ UNCHANGED path

feed(byte) ==
    \/ /\ rx.in_escape /\ byte = 253
       /\ rx' = NewPacket /\ HandOver
    \/ /\ rx.in_escape /\ byte \in {254, 250}
       /\ rx' = NewPacket /\ UNCHANGED path
    \/ /\ rx.in_escape /\ byte = 255
       /\ rx' = [in_escape |-> FALSE, packet |-> append(rx.packet, 0)] /\ UNCHANGED path
    \/ /\ rx.in_escape /\ byte \notin {250, 253, 254, 255}
       /\ rx' = [rx EXCEPT !.in_escape = FALSE] /\ UNCHANGED path
    \/ /\ ~rx.in_escape /\ byte = 0
       /\ rx' = [rx EXCEPT !.in_escape = TRUE] /\ UNCHANGED path
    \/ /\ ~rx.in_escape /\ byte # 0
       /\ rx' = [rx EXCEPT !.packet = append(@, byte)] /\ UNCHANGED path

UartRx ==
    /\ line # Nothing /\ Free
    /\ feed(Head(line))
    /\ line' = Tail(line) /\ quiet' = IF quiet < 3 THEN quiet + 1 ELSE 3
    /\ UNCHANGED <<history, lost, found, intact>>

\* Only frames for everybody and for nodes heard on UDP go on.
do_something_sensible_with_packet ==
    /\ stage = "accept"
    /\ \/ stage' = "apps"
       \/ Byte(frame, 0) # 255 /\ stage' = "unknown"
    /\ UNCHANGED <<stream, rx, frame, origin, written>>

-----------------------------------------------------------------------------
(* APPS and the datagram.                                                  *)

\* A lookup is answered, on this LocalTalk, before it goes on.
Reply ==
    /\ stage = "apps" /\ is_our_nbp_lkup(frame)
    /\ \E ap \in AccessPoints, enumerator \in 0 .. 1 :
          frame' = send_fake_nbp_LkUpReply(nbp_addr(frame), enumerator, ap.name, ap.crc32, <<42>>)
    /\ stage' = "uart_tx" /\ origin' = "apps"
    /\ UNCHANGED <<stream, rx, written>>

apps_runloop ==
    /\ stage = "apps"
    /\ stage' = IF handle_configuration_packet(frame) THEN "configured" ELSE "udp_tx"
    /\ UNCHANGED <<stream, rx, frame, origin, written>>

\* Four bytes of header, and the frame without its last two.
Header == <<0, 0, 0, 0>>

udp_tx_runloop ==
    /\ stage = "udp_tx"
    /\ IF Len(frame) = 5 /\ Byte(frame, 2) \in {132, 133}
       THEN stage' = "done" /\ UNCHANGED frame
       ELSE stage' = "udp" /\ frame' = SubSeq(Header \o frame, 1, Len(frame) + 2)
    /\ UNCHANGED <<stream, rx, origin, written>>

OtherHostSends ==
    /\ line = Nothing /\ Free
    /\ frame' \in {Header \o content : content \in Datagrams}
    /\ stage' = "udp" /\ origin' = "host" /\ written' = Nothing
    /\ UNCHANGED <<stream, rx>>

\* recv cuts a datagram at 603 + 4 bytes; a length of more than 609 never occurs.
\* What is not for everybody or a node heard on LocalTalk is dropped.
udp_rx_runloop ==
    LET buffer == SubSeq(frame, 1, IF Len(frame) > PacketSize + 2 THEN PacketSize + 2 ELSE Len(frame))
    IN  /\ stage = "udp"
        /\ IF Len(buffer) > PacketSize + 4 \/ Len(buffer) <= 7
           THEN stage' = "done" /\ UNCHANGED frame
           ELSE \/ stage' = "uart_tx" /\ frame' = WithFcs(SubSeq(buffer, 5, Len(buffer)))
                \/ Byte(buffer, 4) # 255 /\ stage' = "unknown" /\ UNCHANGED frame
        /\ UNCHANGED <<stream, rx, origin, written>>

uart_tx_runloop ==
    /\ stage = "uart_tx" /\ stage' = "done"
    /\ written' = IF tashtalk_tx_validate(frame) THEN frame ELSE Nothing
    /\ UNCHANGED <<stream, rx, frame, origin>>

-----------------------------------------------------------------------------
Init ==
    /\ history = <<>> /\ line = Nothing /\ quiet = 3 /\ lost = 0
    /\ found = TRUE /\ intact = TRUE
    /\ rx = NewPacket
    /\ stage = "done" /\ frame = Nothing /\ origin = "node" /\ written = Nothing

Apps == Reply \/ apps_runloop

Udp == udp_tx_runloop \/ udp_rx_runloop

Next ==
    \/ \E content \in Contents : TashTalkReceives(content)
    \/ TashTalkGivesUp \/ LoseByte \/ UartRx \/ do_something_sensible_with_packet
    \/ Apps \/ Udp \/ OtherHostSends \/ uart_tx_runloop

Spec == Init /\ [][Next]_vars

-----------------------------------------------------------------------------
(* Properties.                                                             *)

\* A DDP frame as LLAP defines it, FCS apart, that fits a buffer with its FCS.
Data(content) ==
    /\ Len(content) >= 5 /\ Len(content) + 2 <= PacketSize
    /\ ~Control(content) /\ ClaimedLength(content) = Len(content) - 3

\* A frame whose bytes, and the three before them, came over the UART reaches APPS
\* whatever befell the frames before it, and if nobody stops it the other LocalTalk,
\* byte for byte (the escapes of tashtalk.c:81-127, the lengths of ip.c:149-179 and
\* ip.c:229, the table of crc.c).
FramesArrive ==
    intact /\ line = Nothing /\ origin = "node" /\ history # <<>> /\ Data(Sent) =>
        /\ stage # "rx"
        /\ stage = "done" => written = Sent \o Fcs(Sent)

\* What LLAP allows a node to send, of any length, FCS apart.
LlapFrame(content) ==
    IF Control(content) THEN Len(content) = 3
    ELSE Len(content) >= 5 /\ ClaimedLength(content) = Len(content) - 3

\* What was sent, but for a zero whose escape was lost.
Alike(content, sent) ==
    content = sent \/ \E i \in DOMAIN sent : sent[i] = 0 /\ content = [sent EXCEPT ![i] = 255]

\* What follows a zero and a byte that looks like the rest of a marker.
Remnant(content, sent) ==
    \E i \in DOMAIN sent :
        /\ sent[i] = 0 /\ i + 1 \in DOMAIN sent /\ sent[i + 1] \in {250, 253, 254}
        /\ i + 1 + Len(content) <= Len(sent)
        /\ content = SubSeq(sent, i + 2, i + 1 + Len(content))

\* The answer to the lookup in a frame, by an access point of the scan.
Answers(reply, lookup) ==
    /\ Byte(reply, 0) = nbp_addr(lookup).node
    /\ ddp_destination_socket(reply) = nbp_addr(lookup).socket
    /\ nbp_id(reply) = nbp_id(lookup)
    /\ nbp_tuple(reply).ok /\ nbp_tuple(reply).type = LookupType
    /\ \E ap \in AccessPoints : nbp_tuple(reply).object = ap.name

\* UART_TX writes whole frames.  A wrong CRC does not stop a frame (tashtalk.c:91) and
\* the datagram gets a new one (ip.c:178), so this rests on the length field
\* (tashtalk.c:164): once it has arrived, the loss of a byte changes the length, unless
\* it turns a zero into 255 or makes an end marker of a zero and the 253 that follows.
\* (Without its header, or glued to the remains of the frame before, what is left may
\* claim any length.)  A datagram that is too long is cut (ip.c:145), and written if it
\* claims the length that remains.  What APPS adds are answers.
NoRemainsWritten ==
    written # Nothing =>
        LET content == SubSeq(written, 1, Len(written) - 2)
        IN  /\ Data(content) /\ written = content \o Fcs(content)
            /\ origin = "node" /\ found /\ lost <= 1 /\ LlapFrame(Sent) =>
                  Alike(content, Sent) \/ Remnant(content, Sent)
            /\ origin = "host" =>
                  \E datagram \in Datagrams :
                      /\ Len(content) <= Len(datagram)
                      /\ content = SubSeq(datagram, 1, Len(content))
                      /\ Len(content) = Len(datagram) \/ Len(content) + 2 = PacketSize
            /\ origin = "apps" /\ intact => Answers(written, Sent)
=============================================================================
