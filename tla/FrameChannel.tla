----------------------------- MODULE FrameChannel -----------------------------
(***************************************************************************)
(* What the LocalTalk-to-UDP direction of the bridge promises, with its    *)
(* three tasks and two queues hidden: a bounded channel of frames.  A      *)
(* frame that has entered leaves once, after every frame that entered      *)
(* before it; only a restart of the whole firmware loses what is inside.   *)
(* A frame is named by the buffer that carries it, so a buffer cannot      *)
(* enter a second time while it is still inside.                           *)
(***************************************************************************)
EXTENDS Naturals, Sequences, Functions

CONSTANTS
    Frames,   \* the buffers that can carry a frame
    Capacity  \* how many frames the channel can hold

VARIABLE chan  \* the frames inside, oldest first

TypeOK == chan \in Seq(Frames) /\ Len(chan) <= Capacity

Init == chan = <<>>

Enter(f) ==
    /\ Len(chan) < Capacity
    /\ f \notin Range(chan)
    /\ chan' = Append(chan, f)

Leave == chan # <<>> /\ chan' = Tail(chan)

Reset == chan' = <<>>

Next == (\E f \in Frames : Enter(f)) \/ Leave \/ Reset

Spec == Init /\ [][Next]_chan
=============================================================================
