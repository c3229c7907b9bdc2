-------------------------------- MODULE Packets --------------------------------
(***************************************************************************)
(* What the bridge sees in a frame, and the one frame it makes up: the     *)
(* accessors of packet_utils.c, what APPS recognises, the check before     *)
(* transmission, and the faked NBP reply.                                  *)
(*                                                                         *)
(* A frame is the sequence of its bytes, the FCS included.  Buffers are    *)
(* zeroed: beyond the length of a frame there are zeros.  The two strings  *)
(* the code looks for are constants, so that they can be short.            *)
(***************************************************************************)
EXTENDS Crc, SequencesExt

CONSTANTS
    LookupType,  \* "AirTalkAP"
    SetAp        \* "airtalk setap"

\* Indices are those of the code, from 0.
Byte(packet, i) == IF i < Len(packet) THEN packet[i + 1] ELSE 0

-----------------------------------------------------------------------------
(* DDP.                                                                    *)

is_ddp_packet(packet) == Len(packet) > 3 /\ Byte(packet, 2) \in {1, 2}

ddp_has_long_header(packet) == Byte(packet, 2) = 2

ddp_type(packet) == Byte(packet, IF ddp_has_long_header(packet) THEN 15 ELSE 7)

ddp_destination_node(packet) == Byte(packet, IF ddp_has_long_header(packet) THEN 11 ELSE 0)

ddp_destination_socket(packet) ==
    IF ddp_has_long_header(packet) THEN Byte(packet, 13)
    ELSE IF Len(packet) <= 7 THEN 0 ELSE Byte(packet, 5)

ddp_payload_offset(packet) == IF ddp_has_long_header(packet) THEN 16 ELSE 8

-----------------------------------------------------------------------------
(* NBP and ATP.                                                            *)

\* A Pascal string: its length, and as many bytes.
Fits(packet, cursor) == cursor + Byte(packet, cursor) < Len(packet)

String(packet, cursor) ==
    IF Fits(packet, cursor)
    THEN SubSeq(packet, cursor + 2, cursor + 1 + Byte(packet, cursor))
    ELSE <<>>

PastString(packet, cursor) == cursor + Byte(packet, cursor) + 1

\* The first tuple, the only one that is asked for.
nbp_tuple(packet) ==
    LET cursor == ddp_payload_offset(packet) + 2
        object == cursor + 5
        type == PastString(packet, object)
        zone == PastString(packet, type)
    IN  [ok |-> \A string \in {object, type, zone} : Fits(packet, string),
         node |-> Byte(packet, cursor + 2),
         socket |-> Byte(packet, cursor + 3),
         object |-> String(packet, object),
         type |-> String(packet, type)]

nbp_id(packet) == Byte(packet, ddp_payload_offset(packet) + 1)

\* strncmp sees a string up to its first zero.
CString(s) ==
    LET end == SelectInSeq(s, LAMBDA b : b = 0)
    IN  IF end = 0 THEN s ELSE SubSeq(s, 1, end - 1)

nbp_function_code(packet) == Byte(packet, ddp_payload_offset(packet)) \div 16

nbp_tuple_count(packet) == Byte(packet, ddp_payload_offset(packet)) % 16

is_our_nbp_lkup(packet) ==
    /\ is_ddp_packet(packet) /\ ddp_type(packet) = 2
    /\ ddp_destination_node(packet) = 255
    /\ nbp_function_code(packet) = 2 /\ nbp_tuple_count(packet) > 0
    /\ nbp_tuple(packet).ok
    /\ Len(nbp_tuple(packet).type) <= 32
    /\ CString(nbp_tuple(packet).type) = LookupType

\* Where the answer goes.
nbp_addr(packet) ==
    [node |-> nbp_tuple(packet).node, socket |-> nbp_tuple(packet).socket,
     nbp_id |-> nbp_id(packet)]

atp_function_code(packet) == Byte(packet, ddp_payload_offset(packet)) \div 64

atp_payload_offset(packet) == ddp_payload_offset(packet) + 8

handle_configuration_packet(packet) ==
    /\ is_ddp_packet(packet) /\ ddp_type(packet) = 3
    /\ atp_function_code(packet) = 1
    /\ ddp_destination_node(packet) = 255
    /\ ddp_destination_socket(packet) = 4
    /\ \A i \in 1 .. Len(SetAp) : Byte(packet, atp_payload_offset(packet) + i) = SetAp[i]

-----------------------------------------------------------------------------
(* What UART_TX lets through, and what APPS sends.                         *)

Control(packet) == Byte(packet, 2) >= 128

ClaimedLength(packet) == (Byte(packet, 3) % 4) * 256 + Byte(packet, 4)

tashtalk_tx_validate_AnyLength(packet) ==
    /\ Len(packet) >= 5
    /\ Len(packet) = 5 <=> Control(packet)
    /\ crc_state_ok(crc_state_append_all(crc_state_init, packet))

tashtalk_tx_validate(packet) ==
    /\ Len(packet) >= 5
    /\ Len(packet) = 5 <=> Control(packet)
    /\ Len(packet) # 6
    /\ Len(packet) >= 7 => ClaimedLength(packet) = Len(packet) - 5
    /\ crc_state_ok(crc_state_append_all(crc_state_init, packet))

WithFcs(content) ==
    LET crc == crc_state_append_all(crc_state_init, content)
    IN  content \o <<crc_state_byte_1(crc), crc_state_byte_2(crc)>>

PString(s) == <<Len(s)>> \o s

\* The network, the node and the socket of the tuple are all the low byte of the
\* CRC-32 of the name: in `my_crc32 & 0xFF000000 >> 24' the shift comes first.
send_fake_nbp_LkUpReply(addr, enumerator, object, my_crc32, zone) ==
    LET names == PString(object) \o PString(LookupType) \o PString(zone)
        low == my_crc32 % 256
        tuple == <<low, low, low, low, enumerator>> \o names
        ddp_packet_len == Len(tuple) + 2 + 5
    IN  WithFcs(<<addr.node, 129, 1>>
                \o <<0, ddp_packet_len % 256, addr.socket, 2, 2>>
                \o <<49, addr.nbp_id>> \o tuple)
=============================================================================
