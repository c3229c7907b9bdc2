---------------------------- MODULE UdpSocketProofs ----------------------------
(***************************************************************************)
(* No sequence of failing calls loses a socket or publishes a useless one, *)
(* for any number of descriptors.                                          *)
(***************************************************************************)
EXTENDS UdpSocket, TLAPS

\* How far init_udp has got with the socket it is making, and that there is a
\* published socket exactly while udp_rx_runloop is beyond it.
Progress ==
    /\ rx_pc \in Making => rx_sock \in Descriptors
    /\ rx_pc \in {"ttl", "interface", "join", "publish"} => "bound" \in options[rx_sock]
    /\ rx_pc = "publish" => "member" \in options[rx_sock]
    /\ rx_pc \in {"recv", "close", "forget"} <=> udp_sock # NoSocket

IInv == TypeOK /\ Progress /\ NoSocketLeaks /\ PublishedWorks

-----------------------------------------------------------------------------
\* The mark for "no socket" is not a descriptor.
LEMMA NoSocketIsNone == NoSocket \notin Descriptors
  BY MaxSocketsAssumption DEF NoSocket, Descriptors

\* At boot nothing is open and nothing is published.
LEMMA InitIInv == Init => IInv
  BY NoSocketIsNone
     DEF Init, IInv, TypeOK, Progress, NoSocketLeaks, PublishedWorks, Held, Making

\* A call on the socket being made, whether it succeeds or not, keeps it open and
\* keeps what was done to it before.
LEMMA CallOnSocket ==
    ASSUME TypeOK, rx_sock \in Descriptors, NEW option \in Options,
           Succeeds(rx_sock, option) \/ Fails
    PROVE  /\ open' = open
           /\ options' \in [Descriptors -> SUBSET Options]
           /\ options[rx_sock] \subseteq options'[rx_sock]
           /\ Succeeds(rx_sock, option) => option \in options'[rx_sock]
  BY DEF TypeOK, Succeeds, Fails, stack

\* init_udp from bind to the last option: nothing is published meanwhile.
LEMMA NextMaking ==
    ASSUME IInv, Bind \/ SetTtl \/ SetInterface \/ Join
    PROVE  IInv'
<1>1. rx_pc \in {"bind", "ttl", "interface", "join"}
  BY DEF Bind, SetTtl, SetInterface, Join
<1>2. rx_sock \in Descriptors /\ udp_sock = NoSocket /\ open = {rx_sock}
  BY <1>1 DEF IInv, Progress, NoSocketLeaks, Held, Making
<1>3. \E option \in Options : Succeeds(rx_sock, option) \/ Fails
  BY DEF Bind, SetTtl, SetInterface, Join, Options
<1>4. open' = open /\ options' \in [Descriptors -> SUBSET Options]
      /\ options[rx_sock] \subseteq options'[rx_sock]
  BY <1>2, <1>3, CallOnSocket DEF IInv
<1>5. UNCHANGED <<env, udp_sock, rx_sock>>
  BY DEF Bind, SetTtl, SetInterface, Join
<1>6. rx_pc' \in {"ttl", "interface", "join", "publish", "cleanup"}
  BY DEF Bind, SetTtl, SetInterface, Join
<1>7. TypeOK'
  BY <1>4, <1>5, <1>6 DEF IInv, TypeOK, Making, env
<1>8. NoSocketLeaks' /\ PublishedWorks'
  BY <1>2, <1>4, <1>5, <1>6 DEF NoSocketLeaks, PublishedWorks, Held, Making
<1>9. rx_pc' \in {"ttl", "interface", "join", "publish"} => "bound" \in options'[rx_sock]
  <2>1. CASE Bind
    BY <2>1, <1>2, CallOnSocket DEF Bind, IInv, Options
  <2>2. CASE SetTtl \/ SetInterface \/ Join
    BY <2>2, <1>4 DEF SetTtl, SetInterface, Join, IInv, Progress
  <2> QED
    BY <2>1, <2>2
<1>10. rx_pc' = "publish" => "member" \in options'[rx_sock]
  <2>1. CASE Join
    BY <2>1, <1>2, CallOnSocket DEF Join, IInv, Options
  <2> QED
    BY <2>1 DEF Bind, SetTtl, SetInterface
<1>11. Progress'
  BY <1>2, <1>5, <1>6, <1>9, <1>10 DEF Progress, Making
<1> QED
  BY <1>7, <1>8, <1>11 DEF IInv

\* Every step preserves the invariant.
LEMMA NextIInv == IInv /\ [Next]_vars => IInv'
<1> SUFFICES ASSUME IInv, [Next]_vars PROVE IInv'
  OBVIOUS
<1> USE NoSocketIsNone DEF IInv, TypeOK, Progress, NoSocketLeaks, PublishedWorks, Held,
                          Making, env, stack, rx
<1>1. CASE CheckNetwork
  BY <1>1 DEF CheckNetwork
<1>2. CASE CreateSocket
  BY <1>2 DEF CreateSocket
<1>3. CASE Bind \/ SetTtl \/ SetInterface \/ Join
  BY <1>3, NextMaking
<1>4. CASE Publish
  BY <1>4 DEF Publish
<1>5. CASE Cleanup
  BY <1>5 DEF Cleanup, Close
<1>6. CASE Retry
  BY <1>6 DEF Retry
<1>7. CASE ReceiveFails
  BY <1>7 DEF ReceiveFails
<1>8. CASE CloseSocket
  BY <1>8 DEF CloseSocket, Close
<1>9. CASE ForgetSocket
  BY <1>9 DEF ForgetSocket
<1>10. CASE WifiEvent
  BY <1>10 DEF WifiEvent
<1>11. CASE HealthChanges
  BY <1>11 DEF HealthChanges
<1>12. CASE UNCHANGED vars
  BY <1>12 DEF vars
<1> QED
  BY <1>1, <1>2, <1>3, <1>4, <1>5, <1>6, <1>7, <1>8, <1>9, <1>10, <1>11, <1>12
     DEF Next, UdpRx, InitUdp

\* The invariant holds for ever.
LEMMA Invariance == Spec => []IInv
  BY InitIInv, NextIInv, PTL DEF Spec

-----------------------------------------------------------------------------
\* The variables of the socket's life keep their types.
THEOREM SocketTypeOK == Spec => []TypeOK
<1>1. IInv => TypeOK
  BY DEF IInv
<1> QED
  BY <1>1, Invariance, PTL

\* No early return of init_udp and no pass through the retry loop of
\* udp_rx_runloop leaves a socket open.
THEOREM SocketNeverLeaks == Spec => []NoSocketLeaks
<1>1. IInv => NoSocketLeaks
  BY DEF IInv
<1> QED
  BY <1>1, Invariance, PTL

\* What LToUDP-tx finds in udp_sock is bound and has joined the LToUDP group, or
\* is just being thrown away.
THEOREM SocketWorks == Spec => []PublishedWorks
<1>1. IInv => PublishedWorks
  BY DEF IInv
<1> QED
  BY <1>1, Invariance, PTL
=============================================================================
