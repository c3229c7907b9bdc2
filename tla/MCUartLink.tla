------------------------------ MODULE MCUartLink ------------------------------
(* Small instances of UartLink: two nodes, each in a byte of its own, and a  *)
(* reset at the third handshake in a row.                                    *)
EXTENDS UartLink

MCNodes == {1, 9}
=============================================================================
