---------------------------- MODULE MCBufferPool ----------------------------
(* Instance of BufferPool for TLC: three buffers, three holders.           *)
EXTENDS BufferPool
=============================================================================
