----------------------------- MODULE MCUdpSocket -----------------------------
(* An instance of UdpSocket in which two lost sockets leave none to be had.  *)
EXTENDS UdpSocket
=============================================================================
