------------------------------- MODULE MCBridge -------------------------------
(***************************************************************************)
(* Small instances of Bridge: node 1 is on LocalTalk, node 2 behind UDP,   *)
(* and APPS answers as node 129.                                           *)
(***************************************************************************)
EXTENDS Bridge

F(kind, src, dst) == [kind |-> kind, src |-> src, dst |-> dst]

\* Frames that touch no table: their source byte is 0, which nt_touch ignores.
\* Lookups come from both sides, and both sides see all of them.
Lookups == {F("lkup", 0, Broadcast)}
Datagrams == {F("data", 0, Broadcast)}

\* A direction nothing arrives from.
Silence == {}

\* A node on each side that talks to the other, a lookup and a configuration.
LTTraffic == {F("data", 1, 2), F("lkup", 1, Broadcast), F("config", 1, Broadcast)}
IPTraffic == {F("data", 2, 1), F("bad", 4, Broadcast)}

\* Fewer interleavings, for the runs about progress and order: a buffer is zeroed
\* before another task runs.
Zeroing == \E s \in Slots : wiping[s] # Null
PromptNext ==
    \/ Zeroing /\ \E s \in Slots : Zero(s)
    \/ ~Zeroing /\ Next
PromptFairSpec == Init /\ [][PromptNext]_vars /\ Fairness
=============================================================================
