------------------------------- MODULE UdpSocket -------------------------------
(***************************************************************************)
(* The life of the LToUDP socket (ip.c).  LToUDP-rx makes it, keeps trying *)
(* while it cannot, publishes it in udp_sock for LToUDP-tx, and throws it  *)
(* away when recv fails.  The wifi event handler says when there is a      *)
(* network.                                                                *)
(*                                                                         *)
(* What travels through the socket is in Bridge.  The calls of lwIP are    *)
(* outside the repository: each may fail, unless the stack is healthy, and *)
(* socket() hands out the lowest free descriptor.                          *)
(***************************************************************************)
EXTENDS Integers, FiniteSets

CONSTANT MaxSockets  \* descriptors lwIP has to give

ASSUME MaxSocketsAssumption == MaxSockets \in Nat \ {0}

Descriptors == 1 .. MaxSockets
NoSocket == -1

\* What init_udp asks of a socket.
Options == {"bound", "ttl", "interface", "member"}

\* The steps of init_udp from the one after socket() on.
Making == {"bind", "ttl", "interface", "join", "publish", "cleanup"}

VARIABLES
    net_if_ready,  \* net_common.c, set by wifi_event_handler
    healthy,       \* while it is true no call of the network stack fails
    open,          \* the descriptors of open sockets
    options,       \* options[d]: what has been done to d since it was opened
    udp_sock,      \* the published descriptor, or NoSocket
    rx_pc,         \* LToUDP-rx: in init_udp, in its retry loop, or receiving
    rx_sock        \* the local `sock` of init_udp

env == <<net_if_ready, healthy>>
stack == <<open, options>>
rx == <<rx_pc, rx_sock>>
vars == <<env, stack, udp_sock, rx>>

-----------------------------------------------------------------------------
(* The environment.                                                        *)

\* WIFI_EVENT_STA_START, WIFI_EVENT_STA_DISCONNECTED and IP_EVENT_STA_GOT_IP.
WifiEvent ==
    /\ net_if_ready' \in BOOLEAN
    /\ UNCHANGED <<healthy, stack, udp_sock, rx>>

HealthChanges ==
    /\ healthy' = ~healthy
    /\ UNCHANGED <<net_if_ready, stack, udp_sock, rx>>

\* A call on socket d that succeeded, with what it has done, and one that did not.
Succeeds(d, option) ==
    /\ d \in open
    /\ options' = [options EXCEPT ![d] = @ \cup {option}]
    /\ UNCHANGED open

Fails == ~healthy /\ UNCHANGED stack

Close(d) == open' = open \ {d} /\ UNCHANGED options

-----------------------------------------------------------------------------
(* init_udp.                                                               *)

\* The early returns: no network, or no address to be had from it.
CheckNetwork ==
    /\ rx_pc = "check"
    /\ rx_sock' = NoSocket
    /\ \/ net_if_ready /\ rx_pc' = "socket"
       \/ (~net_if_ready \/ ~healthy) /\ rx_pc' = "retry"
    /\ UNCHANGED <<env, stack, udp_sock>>

CreateSocket ==
    /\ rx_pc = "socket"
    /\ \/ \E d \in Descriptors \ open :
            /\ \A e \in Descriptors \ open : d <= e
            /\ open' = open \cup {d}
            /\ options' = [options EXCEPT ![d] = {}]
            /\ rx_sock' = d /\ rx_pc' = "bind"
       \/ /\ ~healthy \/ open = Descriptors
          /\ rx_pc' = "retry"
          /\ UNCHANGED <<stack, rx_sock>>
    /\ UNCHANGED <<env, udp_sock>>

\* bind to port 1954.
Bind_ResultIgnored ==
    /\ rx_pc = "bind" /\ rx_pc' = "ttl"
    /\ Succeeds(rx_sock, "bound") \/ Fails
    /\ UNCHANGED <<env, udp_sock, rx_sock>>

Bind ==
    /\ rx_pc = "bind"
    /\ \/ Succeeds(rx_sock, "bound") /\ rx_pc' = "ttl"
       \/ Fails /\ rx_pc' = "cleanup"
    /\ UNCHANGED <<env, udp_sock, rx_sock>>

\* The result is not assigned to err, which still holds that of bind.
SetTtl ==
    /\ rx_pc = "ttl" /\ rx_pc' = "interface"
    /\ Succeeds(rx_sock, "ttl") \/ Fails
    /\ UNCHANGED <<env, udp_sock, rx_sock>>

SetInterface ==
    /\ rx_pc = "interface" /\ rx_pc' = "join"
    /\ Succeeds(rx_sock, "interface") \/ Fails
    /\ UNCHANGED <<env, udp_sock, rx_sock>>

Join ==
    /\ rx_pc = "join"
    /\ \/ Succeeds(rx_sock, "member") /\ rx_pc' = "publish"
       \/ Fails /\ rx_pc' = "cleanup"
    /\ UNCHANGED <<env, udp_sock, rx_sock>>

Publish ==
    /\ rx_pc = "publish" /\ rx_pc' = "recv"
    /\ udp_sock' = rx_sock
    /\ UNCHANGED <<env, stack, rx_sock>>

\* err_cleanup
Cleanup_Leaks ==
    /\ rx_pc = "cleanup" /\ rx_pc' = "retry"
    /\ UNCHANGED <<env, stack, udp_sock, rx_sock>>

Cleanup ==
    /\ rx_pc = "cleanup" /\ rx_pc' = "retry"
    /\ Close(rx_sock)
    /\ UNCHANGED <<env, udp_sock, rx_sock>>

-----------------------------------------------------------------------------
(* udp_rx_runloop around init_udp.                                         *)

\* while (udp_sock == -1): wait a second and try again.
Retry ==
    /\ rx_pc = "retry" /\ rx_pc' = "check"
    /\ UNCHANGED <<env, stack, udp_sock, rx_sock>>

ReceiveFails ==
    /\ rx_pc = "recv" /\ rx_pc' = "close"
    /\ ~healthy \/ udp_sock \notin open
    /\ UNCHANGED <<env, stack, udp_sock, rx_sock>>

CloseSocket ==
    /\ rx_pc = "close" /\ rx_pc' = "forget"
    /\ Close(udp_sock)
    /\ UNCHANGED <<env, udp_sock, rx_sock>>

ForgetSocket_Keeps ==
    /\ rx_pc = "forget" /\ rx_pc' = "recv"
    /\ UNCHANGED <<env, stack, udp_sock, rx_sock>>

ForgetSocket_Zero ==
    /\ rx_pc = "forget" /\ rx_pc' = "retry"
    /\ udp_sock' = 0
    /\ UNCHANGED <<env, stack, rx_sock>>

ForgetSocket ==
    /\ rx_pc = "forget" /\ rx_pc' = "retry"
    /\ udp_sock' = NoSocket
    /\ UNCHANGED <<env, stack, rx_sock>>

-----------------------------------------------------------------------------
Init ==
    /\ net_if_ready = FALSE /\ healthy \in BOOLEAN
    /\ open = {} /\ options = [d \in Descriptors |-> {}]
    /\ udp_sock = NoSocket
    /\ rx_pc = "check" /\ rx_sock = NoSocket

InitUdp ==
    \/ CheckNetwork \/ CreateSocket \/ Bind \/ SetTtl \/ SetInterface
    \/ Join \/ Publish \/ Cleanup

UdpRx == InitUdp \/ Retry \/ ReceiveFails \/ CloseSocket \/ ForgetSocket

Next == UdpRx \/ WifiEvent \/ HealthChanges

Spec == Init /\ [][Next]_vars

\* LToUDP-rx runs whenever it can.
FairSpec == Spec /\ WF_vars(UdpRx)

-----------------------------------------------------------------------------
(* Properties.                                                             *)

\* Every variable stays in its type.
TypeOK ==
    /\ net_if_ready \in BOOLEAN /\ healthy \in BOOLEAN
    /\ open \subseteq Descriptors
    /\ options \in [Descriptors -> SUBSET Options]
    /\ udp_sock \in Descriptors \cup {NoSocket}
    /\ rx_pc \in Making \cup {"check", "socket", "retry", "recv", "close", "forget"}
    /\ rx_sock \in Descriptors \cup {NoSocket}

\* The socket LToUDP-rx is responsible for: the one init_udp is making, or the
\* one it has published.
Held ==
    IF rx_pc \in Making THEN {rx_sock}
    ELSE IF rx_pc \in {"recv", "close"} THEN {udp_sock}
    ELSE {}

\* Whichever calls fail, and however often, no socket is left open behind and
\* none is lost while it is in use: every early return of init_udp and every
\* pass through the retry loop closes exactly what it should.
NoSocketLeaks == open = Held

\* udp_sock names a socket that is open, bound to the LToUDP port and a member of
\* the LToUDP group, except between its close and the assignment of -1.
PublishedWorks ==
    udp_sock # NoSocket /\ rx_pc # "forget" =>
        udp_sock \in open /\ {"bound", "member"} \subseteq options[udp_sock]

\* When the network stays up and the calls stop failing, LToUDP-rx ends up with a
\* working socket, whatever went wrong before.
Reconnects ==
    <>[](net_if_ready /\ healthy) => <>[](rx_pc = "recv" /\ udp_sock \in open)

\* ip.c:117 logs "multicast socket now ready.", and ip.c:84 and ip.c:91 are there
\* to log an option that could not be set: a ready socket has all its options.
ReadyMeansConfigured ==
    rx_pc = "recv" => options[udp_sock] = Options
=============================================================================
