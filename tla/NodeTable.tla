------------------------------ MODULE NodeTable ------------------------------
(***************************************************************************)
(* The node table of main/node_table.c and the two tasks that share one:   *)
(* UART_TX touches node_table for every frame it writes and serialises it  *)
(* into the mask for TashTalk, while UART_RX asks nt_fresh about it with   *)
(* no lock.  (LToUDP-tx and LToUDP-rx share forward_for_nodes in the same  *)
(* way, without the mask.)                                                 *)
(*                                                                         *)
(* time(NULL) counts seconds since boot: there is no battery-backed clock. *)
(* nt_touch makes two plain stores, which the compiler may issue in either *)
(* order and between which the other core may read; nt_fresh reads the     *)
(* clock, then seen_at_all, then last_seen.                                *)
(***************************************************************************)
EXTENDS Integers

CONSTANTS
    Nodes,        \* the node numbers frames carry, among 0 .. 255
    FreshCutoff,  \* how long a node is forwarded for: 3600 s
    MaskCutoff,   \* how long TashTalk is told to answer for it: 1800 s
    MaxTime       \* bound on the clock

ASSUME NodesAssumption == Nodes \subseteq 0 .. 255
ASSUME CutoffAssumption ==
    FreshCutoff \in Nat /\ MaskCutoff \in Nat /\ MaskCutoff <= FreshCutoff
ASSUME MaxTimeAssumption == MaxTime \in Nat

NoNode == -1
Never == -1

VARIABLES
    now,          \* time(NULL)
    last_seen,    \* the table: when each node was last touched, initially 0
    seen_at_all,  \* the table: the nodes that were ever touched
    nodebits,     \* node_table_packet: the nodes TashTalk answers for
    tx_node,      \* the sender UART_TX is touching, or NoNode
    tx_pending,   \* which of the two stores of nt_touch are still to come
    tx_time,      \* the clock value nt_touch read
    rx,           \* the call of nt_fresh in UART_RX
    started,      \* history: when the last touch of a node began, or Never
    finished,     \* history: when the last completed touch of a node began
    mask_time     \* history: when nodebits was last computed

table == <<last_seen, seen_at_all>>
touch == <<tx_node, tx_pending, tx_time>>
history == <<started, finished, mask_time>>
vars == <<now, table, nodebits, touch, rx, history>>

Idle == [pc |-> "idle"]

-----------------------------------------------------------------------------
\* The comparison nt_fresh and nt_serialise share.  The first disjunct is there
\* because the clock starts at 0.
Recent(time, seen, cutoff) == time <= cutoff \/ seen > time - cutoff

Tick ==
    /\ now < MaxTime
    /\ now' = now + 1
    /\ UNCHANGED <<table, nodebits, touch, rx, history>>

\* UART_TX is about to write a valid frame whose source is n.  nt_touch returns
\* at once for 0 and 255.
Ignored(n) == n \in {0, 255}

TouchBegin(n) ==
    /\ tx_node = NoNode
    /\ tx_node' = n
    /\ tx_pending' = IF Ignored(n) THEN {} ELSE {"last_seen", "seen_at_all"}
    /\ tx_time' = now
    /\ started' = IF Ignored(n) THEN started ELSE [started EXCEPT ![n] = now]
    /\ UNCHANGED <<now, table, nodebits, rx, finished, mask_time>>

StoreLastSeen_Milliseconds ==
    /\ "last_seen" \in tx_pending
    /\ last_seen' = [last_seen EXCEPT ![tx_node] = 1000 * tx_time]
    /\ tx_pending' = tx_pending \ {"last_seen"}
    /\ UNCHANGED <<now, seen_at_all, nodebits, tx_node, tx_time, rx, history>>

StoreLastSeen_FirstOnly ==
    /\ "last_seen" \in tx_pending
    /\ last_seen' = [last_seen EXCEPT
                       ![tx_node] = IF tx_node \in seen_at_all THEN @ ELSE tx_time]
    /\ tx_pending' = tx_pending \ {"last_seen"}
    /\ UNCHANGED <<now, seen_at_all, nodebits, tx_node, tx_time, rx, history>>

StoreLastSeen ==
    /\ "last_seen" \in tx_pending
    /\ last_seen' = [last_seen EXCEPT ![tx_node] = tx_time]
    /\ tx_pending' = tx_pending \ {"last_seen"}
    /\ UNCHANGED <<now, seen_at_all, nodebits, tx_node, tx_time, rx, history>>

StoreSeenAtAll ==
    /\ "seen_at_all" \in tx_pending
    /\ seen_at_all' = seen_at_all \cup {tx_node}
    /\ tx_pending' = tx_pending \ {"seen_at_all"}
    /\ UNCHANGED <<now, last_seen, nodebits, tx_node, tx_time, rx, history>>

\* nt_serialise, called next by the same task.
nt_serialise ==
    {n \in Nodes : n \in seen_at_all /\ Recent(now, last_seen[n], MaskCutoff)}

Serialise_KeepsBits ==
    /\ tx_node # NoNode /\ tx_pending = {}
    /\ nodebits' = nodebits \cup nt_serialise
    /\ mask_time' = now
    /\ finished' = IF Ignored(tx_node) THEN finished
                   ELSE [finished EXCEPT ![tx_node] = tx_time]
    /\ tx_node' = NoNode
    /\ UNCHANGED <<now, table, tx_pending, tx_time, rx, started>>

Serialise ==
    /\ tx_node # NoNode /\ tx_pending = {}
    /\ nodebits' = nt_serialise
    /\ mask_time' = now
    /\ finished' = IF Ignored(tx_node) THEN finished
                   ELSE [finished EXCEPT ![tx_node] = tx_time]
    /\ tx_node' = NoNode
    /\ UNCHANGED <<now, table, tx_pending, tx_time, rx, started>>

-----------------------------------------------------------------------------
\* nt_fresh(table, n, FreshCutoff) in UART_RX, one shared read at a time.
FreshBegin(n) ==
    /\ rx.pc = "idle"
    /\ rx' = [pc |-> "seen", node |-> n, time |-> now, known |-> finished[n]]
    /\ UNCHANGED <<now, table, nodebits, touch, history>>

Answer(fresh) == rx' = [rx EXCEPT !.pc = IF fresh THEN "fresh" ELSE "stale"]

FreshReadSeen_Unchecked ==
    /\ rx.pc = "seen"
    /\ rx' = [rx EXCEPT !.pc = "last"]
    /\ UNCHANGED <<now, table, nodebits, touch, history>>

FreshReadSeen ==
    /\ rx.pc = "seen"
    /\ IF rx.node \in seen_at_all
       THEN rx' = [rx EXCEPT !.pc = "last"]
       ELSE Answer(FALSE)
    /\ UNCHANGED <<now, table, nodebits, touch, history>>

FreshReadLast ==
    /\ rx.pc = "last"
    /\ Answer(Recent(rx.time, last_seen[rx.node], FreshCutoff))
    /\ UNCHANGED <<now, table, nodebits, touch, history>>

FreshReturn ==
    /\ rx.pc \in {"fresh", "stale"}
    /\ rx' = Idle
    /\ UNCHANGED <<now, table, nodebits, touch, history>>

-----------------------------------------------------------------------------
Init ==
    /\ now = 0
    /\ last_seen = [n \in Nodes |-> 0]
    /\ seen_at_all = {}
    /\ nodebits = {}
    /\ tx_node = NoNode /\ tx_pending = {} /\ tx_time = 0
    /\ rx = Idle
    /\ started = [n \in Nodes |-> Never]
    /\ finished = [n \in Nodes |-> Never]
    /\ mask_time = 0

UartTx ==
    \/ \E n \in Nodes : TouchBegin(n)
    \/ StoreLastSeen \/ StoreSeenAtAll \/ Serialise

UartRx ==
    \/ \E n \in Nodes : FreshBegin(n)
    \/ FreshReadSeen \/ FreshReadLast \/ FreshReturn

Next == Tick \/ UartTx \/ UartRx

Spec == Init /\ [][Next]_vars

-----------------------------------------------------------------------------
(* Properties.                                                             *)

Times == 0 .. MaxTime

\* Every variable stays in its type.
TypeOK ==
    /\ now \in Times
    /\ last_seen \in [Nodes -> Times]
    /\ seen_at_all \subseteq Nodes
    /\ nodebits \subseteq Nodes
    /\ tx_node \in Nodes \cup {NoNode}
    /\ tx_pending \subseteq {"last_seen", "seen_at_all"}
    /\ tx_time \in Times
    /\ rx \in {Idle} \cup [pc : {"seen", "last", "fresh", "stale"}, node : Nodes,
                           time : Times, known : Times \cup {Never}]
    /\ started \in [Nodes -> Times \cup {Never}]
    /\ finished \in [Nodes -> Times \cup {Never}]
    /\ mask_time \in Times

\* nt_fresh says yes only of a node that has really sent something, no more
\* than the cutoff before the call, however its reads interleave with nt_touch.
NoFalseFresh ==
    rx.pc = "fresh" =>
        /\ started[rx.node] # Never
        /\ started[rx.node] >= rx.time - FreshCutoff

\* nt_fresh never misses a touch that was complete before the call and less than
\* the cutoff old: the two stores of a later touch do not hide an earlier one.
NoFalseStale ==
    rx.pc = "stale" =>
        rx.known = Never \/ rx.known <= rx.time - FreshCutoff

\* A node TashTalk answers handshakes for is one whose frames UART_RX forwards,
\* for as long after the last frame out of UART_TX as the two cutoffs differ.
\* (Nothing recomputes the mask later: the TODO of uart.c:126.)
MaskIsForwarded ==
    now <= mask_time + (FreshCutoff - MaskCutoff) =>
        \A n \in nodebits : n \in seen_at_all /\ Recent(now, last_seen[n], FreshCutoff)
=============================================================================
