--------------------------- MODULE ScanManagerProofs ---------------------------
(***************************************************************************)
(* What ScanManager promises, for any number of access points, any memory  *)
(* and with or without an SSID.                                            *)
(***************************************************************************)
EXTENDS ScanManager, TLAPS

USE MaxApsAssumption, NullAssumption, ConfiguredAssumption

-----------------------------------------------------------------------------
(* Types.                                                                  *)

LEMMA InitType == Init => TypeOK
<1>1. Init => Flags
  BY Zenon DEF Init, Flags
<1> QED BY <1>1 DEF Init, TypeOK, Scanners, Places, Events

\* The Boolean variables, apart from the others.
LEMMA FlagsStep == ASSUME TypeOK, [Next]_vars PROVE Flags'
<1>0. Flags
  BY DEF TypeOK
<1> USE <1>0 DEF Flags, station, scan_state, locals, apps
<1>1. CASE Connects \/ Disconnects \/ ScanEnds \/ Age \/ Lookup \/ UNCHANGED vars
  BY <1>1, Zenon DEF Connects, Disconnects, ScanEnds, Age, Lookup, vars
<1>2. ASSUME NEW s \in Scanners, scan_blocking(s) PROVE Flags'
  <2>1. CASE ScanStarts(s)
    BY <2>1, Zenon DEF ScanStarts, Collecting
  <2>2. CASE CountAps(s)
    BY <2>2, Zenon DEF CountAps
  <2>3. CASE Publish(s)
    BY <1>2, <2>3, Zenon DEF Publish
  <2>4. CASE ScanRefused(s) \/ GetRecords(s) \/ TakeLock(s)
    BY <2>4, Zenon DEF ScanRefused, GetRecords, TakeLock
  <2> QED BY <1>2, <2>1, <2>2, <2>3, <2>4 DEF scan_blocking
<1>3. CASE NotifyWait \/ Delay
  BY <1>3, Zenon DEF NotifyWait, Delay
<1>4. CASE wifi_event_handler
  BY <1>4, Zenon DEF wifi_event_handler, HandleStart, HandleDisconnected, HandleGotIp,
                     Handles, ScanAgain, StartReturns, DisconnectedReturns
<1>5. CASE scan_and_send_results
  BY <1>5, Zenon DEF scan_and_send_results, AppsTakeLock, SendReply, Notify, AppsGiveLock
<1> QED BY <1>1, <1>2, <1>3, <1>4, <1>5 DEF Next

\* What posting and handling an event do to the queue.
LEMMA PostTypes ==
    ASSUME TypeOK, Connects \/ Disconnects
    PROVE  events' \in Seq(Events) /\ Len(events') = Len(events) + 1
<1>1. events \in Seq(Events) /\ "got_ip" \in Events /\ "disconnected" \in Events
  BY DEF TypeOK, Events
<1> QED BY <1>1 DEF Connects, Disconnects

LEMMA TakeTypes ==
    ASSUME TypeOK, HandleStart \/ HandleDisconnected \/ HandleGotIp
    PROVE  events' \in Seq(Events) /\ Len(events') = Len(events) - 1
<1>1. events \in Seq(Events)
  BY DEF TypeOK
<1> QED BY <1>1 DEF HandleStart, HandleDisconnected, HandleGotIp, Handles

\* What esp_wifi_scan_get_ap_records writes fits the counters.
LEMMA RecordsTypes ==
    ASSUME TypeOK, NEW s \in Scanners, GetRecords(s)
    PROVE  num' \in [Scanners -> 0 .. MaxAps] /\ filled' \in [Blocks -> 0 .. MaxAps]
<1> DEFINE n == IF found < num[s] THEN found ELSE num[s]
<1>0. num \in [Scanners -> 0 .. MaxAps] /\ filled \in [Blocks -> 0 .. MaxAps]
  BY DEF TypeOK
<1>1. n \in 0 .. MaxAps
  BY <1>0 DEF TypeOK
<1>2. \/ num' = [num EXCEPT ![s] = n] /\ filled' = [filled EXCEPT ![mine[s]] = n]
      \/ UNCHANGED <<num, filled>>
  BY DEF GetRecords
<1> HIDE DEF n
<1> QED BY <1>0, <1>1, <1>2

\* No step takes a variable out of its type: the counts stay within MaxAps.
LEMMA TypeStep == ASSUME TypeOK, [Next]_vars PROVE TypeOK'
<1> USE DEF TypeOK, Scanners, Places
<1>0. Flags'
  BY FlagsStep
<1>1. CASE Connects \/ Disconnects
  <2>1. events' \in Seq(Events)
    BY <1>1, PostTypes
  <2> QED
    BY <1>0, <1>1, <2>1 DEF Connects, Disconnects, driver, scan_state, heap, locals, apps
<1>2. CASE ScanEnds \/ Age \/ Lookup
  BY <1>0, <1>2 DEF ScanEnds, Age, Lookup, station, driver, scan_state, heap, locals, apps
<1>3. ASSUME NEW s \in Scanners, scan_blocking(s) PROVE TypeOK'
  <2> USE DEF station, driver, scan_state, heap, apps
  <2>1. CASE ScanRefused(s) \/ ScanStarts(s)
    BY <2>1, <1>0, <1>3 DEF ScanRefused, ScanStarts, Collecting
  <2>2. CASE CountAps(s)
    <3>1. CASE pc' = [pc EXCEPT ![s] = "return"] /\ UNCHANGED <<mine, num, heap>>
      BY <2>2, <3>1, <1>0, <1>3 DEF CountAps
    <3>2. ASSUME NEW b \in Blocks, found > 0,
                 mine' = [mine EXCEPT ![s] = b], num' = [num EXCEPT ![s] = found],
                 allocated' = allocated \cup {b}, filled' = [filled EXCEPT ![b] = 0],
                 pc' = [pc EXCEPT ![s] = "records"]
          PROVE  TypeOK'
      BY <2>2, <3>2, <1>0, <1>3 DEF CountAps
    <3> QED BY <2>2, <3>1, <3>2 DEF CountAps
  <2>3. CASE GetRecords(s)
    <3>1. num' \in [Scanners -> 0 .. MaxAps] /\ filled' \in [Blocks -> 0 .. MaxAps]
      BY <2>3, RecordsTypes
    <3> QED BY <2>3, <1>0, <1>3, <3>1 DEF GetRecords
  <2>4. CASE TakeLock(s)
    BY <2>4, <1>0, <1>3 DEF TakeLock
  <2>5. CASE Publish(s)
    BY <2>5, <1>0, <1>3 DEF Publish
  <2> QED BY <1>3, <2>1, <2>2, <2>3, <2>4, <2>5 DEF scan_blocking
<1>4. CASE NotifyWait \/ Delay
  BY <1>0, <1>4 DEF NotifyWait, Delay, station, driver, scan_state, heap, apps
<1>5. CASE wifi_event_handler
  <2> USE DEF driver, scan_state, heap, locals, apps
  <2>1. CASE HandleStart \/ HandleDisconnected \/ HandleGotIp
    <3>1. events' \in Seq(Events)
      BY <2>1, TakeTypes
    <3>2. CASE HandleStart \/ HandleDisconnected
      BY <1>0, <3>1, <3>2 DEF HandleStart, HandleDisconnected
    <3>3. CASE HandleGotIp
      BY <1>0, <3>1, <3>3 DEF HandleGotIp
    <3> QED BY <2>1, <3>2, <3>3
  <2>2. CASE ScanAgain \/ StartReturns \/ DisconnectedReturns
    BY <1>0, <2>2 DEF ScanAgain, StartReturns, DisconnectedReturns, Connect, Resting
  <2> QED BY <1>5, <2>1, <2>2 DEF wifi_event_handler
<1>6. CASE scan_and_send_results
  BY <1>0, <1>6 DEF scan_and_send_results, AppsTakeLock, SendReply, Notify, AppsGiveLock,
              station, driver, scan_state, heap, locals
<1>7. CASE UNCHANGED vars
  BY <1>0, <1>7 DEF vars, station, driver, scan_state, heap, locals, apps
<1> QED BY <1>1, <1>2, <1>3, <1>4, <1>5, <1>6, <1>7 DEF Next

\* Type correctness of the scan state, the driver, the station and the tasks.
THEOREM ScanTypeOK == Spec => []TypeOK
<1>1. TypeOK /\ [Next]_vars => TypeOK'
  BY TypeStep
<1> QED BY InitType, <1>1, PTL DEF Spec

-----------------------------------------------------------------------------
(* The driver carries out the scan of the scanner that waits for it.       *)

DriverInv == \A s \in Scanners : scanning = s <=> pc[s] = "scanning"

\* Scanners are told apart from each other and from the other tasks.
LEMMA ScannersDiffer ==
    /\ Null \notin Scanners /\ "apps" \notin Scanners /\ Null # "apps"
    /\ \A s \in Scanners : Other(s) \in Scanners /\ Other(s) # s
    /\ \A s, t \in Scanners : t # s => t = Other(s)
  BY DEF Scanners, Other

LEMMA DriverStep == ASSUME TypeOK, DriverInv, [Next]_vars PROVE DriverInv'
<1> USE ScannersDiffer DEF DriverInv
<1>0. pc \in [Scanners -> Places] /\ scanning \in Scanners \cup {Null}
  BY DEF TypeOK
<1>1. CASE Connects \/ Disconnects \/ Age \/ Lookup \/ UNCHANGED vars
  BY <1>1 DEF Connects, Disconnects, Age, Lookup, vars, driver, locals
<1>2. CASE ScanEnds
  BY <1>0, <1>2 DEF ScanEnds
<1>3. ASSUME NEW s \in Scanners, scan_blocking(s) PROVE DriverInv'
  <2>1. CASE ScanStarts(s)
    BY <1>0, <2>1 DEF ScanStarts
  <2>2. CASE ~ScanStarts(s)
    BY <1>0, <1>3, <2>2 DEF scan_blocking, ScanRefused, CountAps, GetRecords, TakeLock,
                            Publish, driver
  <2> QED BY <2>1, <2>2
<1>4. CASE NotifyWait \/ Delay
  BY <1>0, <1>4 DEF NotifyWait, Delay, driver, Scanners
<1>5. CASE wifi_event_handler
  BY <1>0, <1>5 DEF wifi_event_handler, HandleStart, HandleDisconnected, HandleGotIp,
                    Handles, ScanAgain, StartReturns, DisconnectedReturns, driver, locals, Scanners
<1>6. CASE scan_and_send_results
  BY <1>6 DEF scan_and_send_results, AppsTakeLock, SendReply, Notify, AppsGiveLock,
              driver, locals
<1> QED BY <1>1, <1>2, <1>3, <1>4, <1>5, <1>6 DEF Next

-----------------------------------------------------------------------------
(* The station and its events.                                             *)

\* While the handler scans, the station is idle and nothing is posted.  What is
\* posted otherwise is one of five histories since it last connected.
StationInv ==
    /\ pc["events"] = "wait" <=> handling = "nothing"
    /\ IF pc["events"] # "wait" THEN sta = "idle" /\ Len(events) = 0
       ELSE \/ Len(events) = 0
            \/ Len(events) = 1 /\ events[1] = "got_ip" /\ sta = "up"
            \/ Len(events) = 1 /\ events[1] # "got_ip" /\ sta = "idle"
            \/ /\ Len(events) = 2 /\ sta = "idle"
               /\ events[1] = "got_ip" /\ events[2] = "disconnected"

\* A step that leaves the station alone, and the handler in or out of its wait.
HandlerKept == UNCHANGED station /\ (pc'["events"] = "wait" <=> pc["events"] = "wait")

LEMMA OthersKeepHandler ==
    ASSUME TypeOK, DriverInv, [Next]_vars,
           ~(Connects \/ Disconnects \/ wifi_event_handler)
    PROVE  HandlerKept
<1> USE DEF HandlerKept
<1>0. pc \in [Scanners -> Places] /\ scanning \in Scanners \cup {Null}
  BY DEF TypeOK
<1>1. CASE ScanEnds
  BY <1>0, <1>1, ScannersDiffer DEF ScanEnds, DriverInv, Scanners
<1>2. ASSUME NEW s \in Scanners, scan_blocking(s) PROVE HandlerKept
  BY <1>0, <1>2 DEF scan_blocking, ScanRefused, ScanStarts, CountAps, GetRecords,
                    TakeLock, Publish, Scanners
<1>3. CASE NotifyWait \/ Delay
  BY <1>0, <1>3 DEF NotifyWait, Delay, Scanners
<1>4. CASE Age \/ Lookup \/ scan_and_send_results \/ UNCHANGED vars
  BY <1>4 DEF Age, Lookup, scan_and_send_results, AppsTakeLock, SendReply,
              Notify, AppsGiveLock, vars, locals
<1> QED BY <1>1, <1>2, <1>3, <1>4 DEF Next

LEMMA StationStep == ASSUME TypeOK, DriverInv, StationInv, [Next]_vars PROVE StationInv'
<1> USE DEF StationInv
<1>0. /\ pc \in [Scanners -> Places] /\ "events" \in Scanners
      /\ events \in Seq(Events)
  BY DEF TypeOK, Scanners
<1>1. CASE Connects
  BY <1>0, <1>1 DEF Connects, locals
<1>2. CASE Disconnects
  BY <1>0, <1>2 DEF Disconnects, Resting, locals
<1>3. CASE HandleStart \/ HandleDisconnected
  BY <1>0, <1>3 DEF HandleStart, HandleDisconnected, Handles
<1>4. CASE HandleGotIp
  BY <1>0, <1>4 DEF HandleGotIp, Handles, locals
<1>5. CASE ScanAgain
  BY <1>0, <1>5 DEF ScanAgain
<1>6. CASE StartReturns \/ DisconnectedReturns
  BY <1>0, <1>6 DEF StartReturns, DisconnectedReturns
<1>7. CASE HandlerKept
  BY <1>7 DEF HandlerKept, station
<1> QED BY <1>1, <1>2, <1>3, <1>4, <1>5, <1>6, <1>7, OthersKeepHandler
        DEF wifi_event_handler

\* Once a disconnection is being handled, net_if_ready is off.
ReadyInv == ReadyIsTrue /\ (handling \in {"lost", "lost_again"} => ~net_if_ready)

LEMMA ReadyStep ==
    ASSUME TypeOK, DriverInv, StationInv, ReadyInv, [Next]_vars
    PROVE  ReadyInv'
<1> USE DEF ReadyInv, ReadyIsTrue
<1>0. /\ pc \in [Scanners -> Places] /\ "events" \in Scanners
      /\ events \in Seq(Events)
  BY DEF TypeOK, Scanners
<1>1. CASE Connects \/ Disconnects
  <2>1. events' # <<>>
    BY <1>0, <1>1 DEF Connects, Disconnects
  <2>2. UNCHANGED <<net_if_ready, handling>>
    BY <1>1 DEF Connects, Disconnects
  <2> QED BY <2>1, <2>2, Zenon
<1>2. CASE HandleStart \/ HandleDisconnected
  <2>1. pc'["events"] # "wait"
    BY <1>0, <1>2 DEF HandleStart, HandleDisconnected
  <2>2. handling' = "start" \/ ~net_if_ready'
    BY <1>2, Zenon DEF HandleStart, HandleDisconnected
  <2> QED BY <2>1, <2>2, Zenon
<1>3. CASE ScanAgain
  <2>1. pc'["events"] # "wait"
    BY <1>0, <1>3 DEF ScanAgain
  <2>2. ~net_if_ready'
    BY <1>3, Zenon DEF ScanAgain
  <2> QED BY <2>1, <2>2, Zenon
<1>4. CASE HandleGotIp
  <2>1. events' = <<>> => Len(events) = 1
    BY <1>0, <1>4, TakeTypes
  <2>2. events' = <<>> => sta' = "up"
    BY <1>0, <1>4, <2>1 DEF HandleGotIp, Handles, StationInv
  <2>3. net_if_ready'
    BY <1>4 DEF HandleGotIp
  <2>4. handling' = "nothing"
    BY <1>4 DEF HandleGotIp, Handles, StationInv
  <2> QED BY <2>2, <2>3, <2>4, Zenon
<1>5. CASE StartReturns \/ DisconnectedReturns
  <2>1. sta' # "up" /\ handling' = "nothing"
    BY <1>0, <1>5 DEF StartReturns, DisconnectedReturns, StationInv, Connect, Resting
  <2>2. ~net_if_ready'
    BY <1>5, Zenon DEF StartReturns, DisconnectedReturns
  <2> QED BY <2>1, <2>2, Zenon
<1>6. CASE HandlerKept
  BY <1>6, Zenon DEF HandlerKept, station
<1> QED BY <1>1, <1>2, <1>3, <1>4, <1>5, <1>6, OthersKeepHandler DEF wifi_event_handler

LEMMA InitStation == Init => DriverInv /\ StationInv /\ ReadyInv
<1>1. Init => DriverInv /\ StationInv
  BY NullAssumption DEF Init, DriverInv, StationInv, Scanners
<1>2. Init => events # <<>> /\ handling = "nothing"
  BY DEF Init
<1> QED BY <1>1, <1>2 DEF ReadyIsTrue, ReadyInv

\* However long the handler is kept, at most two events wait for it, for none is
\* posted between a disconnection and the next esp_wifi_connect.
THEOREM ScanEventsBounded == Spec => []EventsBounded
<1>1. DriverInv /\ StationInv /\ TypeOK /\ [Next]_vars => DriverInv' /\ StationInv'
  BY DriverStep, StationStep
<1>2. StationInv => EventsBounded
  <2>1. StationInv => Len(events) \in {0, 1, 2}
    BY DEF StationInv
  <2> QED BY <2>1 DEF EventsBounded
<1> QED BY <1>1, <1>2, InitStation, ScanTypeOK, PTL DEF Spec

\* When the handler has caught up, LToUDP is told the truth about the network.
THEOREM ScanReadyIsTrue == Spec => []ReadyIsTrue
<1>1. DriverInv /\ StationInv /\ ReadyInv /\ TypeOK /\ [Next]_vars
      => DriverInv' /\ StationInv' /\ ReadyInv'
  BY DriverStep, StationStep, ReadyStep
<1>2. ReadyInv => ReadyIsTrue
  BY DEF ReadyInv
<1> QED BY <1>1, <1>2, InitStation, ScanTypeOK, PTL DEF Spec

-----------------------------------------------------------------------------
(* The heap and the lock.                                                  *)

\* Who holds the lock is between its two ends, and a scanner has a block from
\* malloc until it publishes it.
LockInv ==
    /\ \A s \in Scanners : lock = s <=> pc[s] = "publish"
    /\ lock = "apps" <=> apps_pc \in {"reply", "give"}

BlockInv == \A s \in Scanners : mine[s] # Null <=> pc[s] \in {"records", "lock", "publish"}

\* APPS stays within results that exist.
LoopInv == apps_pc = "reply" => sent <= ap_count /\ (sent < ap_count => aps # Null)

HeapInv == DriverInv /\ LockInv /\ BlockInv /\ LoopInv /\ NoLeak

\* With a free lock, or with APPS holding it, nothing dangles.
LEMMA Settled == ASSUME LockInv, lock \notin Scanners PROVE Published = aps
  BY DEF LockInv, Published, Dangling

LEMMA LockStep == ASSUME TypeOK, HeapInv, [Next]_vars PROVE LockInv' /\ BlockInv' /\ LoopInv'
<1> USE ScannersDiffer DEF LockInv, BlockInv, LoopInv
<1>0. /\ pc \in [Scanners -> Places] /\ mine \in [Scanners -> Blocks \cup {Null}]
      /\ scanning \in Scanners \cup {Null} /\ Null \notin Blocks
      /\ sent \in Nat /\ ap_count \in Nat
      /\ LockInv /\ BlockInv /\ LoopInv
  BY DEF TypeOK, HeapInv
<1>1. CASE Connects \/ Disconnects \/ Age \/ Lookup \/ UNCHANGED vars
  BY <1>0, <1>1 DEF Connects, Disconnects, Age, Lookup, vars, scan_state, locals, apps
<1>2. CASE ScanEnds
  BY <1>0, <1>2 DEF ScanEnds, HeapInv, DriverInv, scan_state, apps
<1>3. ASSUME NEW s \in Scanners, scan_blocking(s) PROVE LockInv' /\ BlockInv' /\ LoopInv'
  <2> USE <1>0 DEF scan_state, apps
  <2>1. CASE ScanRefused(s) \/ ScanStarts(s)
    BY <2>1 DEF ScanRefused, ScanStarts
  <2>2. CASE CountAps(s)
    BY <2>2 DEF CountAps
  <2>3. CASE GetRecords(s)
    BY <2>3 DEF GetRecords
  <2>4. CASE TakeLock(s)
    BY <2>4 DEF TakeLock
  <2>5. CASE Publish(s)
    BY <2>5 DEF Publish
  <2> QED BY <1>3, <2>1, <2>2, <2>3, <2>4, <2>5 DEF scan_blocking
<1>4. CASE NotifyWait \/ Delay \/ wifi_event_handler
  BY <1>0, <1>4 DEF NotifyWait, Delay, wifi_event_handler, HandleStart, HandleGotIp,
                    HandleDisconnected, Handles, ScanAgain, StartReturns, DisconnectedReturns,
                    scan_state, locals, apps, Scanners
<1>5. CASE scan_and_send_results
  <2> USE <1>0 DEF scan_state, locals
  <2>1. CASE AppsTakeLock
    BY <2>1 DEF AppsTakeLock
  <2>2. CASE SendReply \/ Notify \/ AppsGiveLock
    BY <2>2 DEF SendReply, Notify, AppsGiveLock
  <2> QED BY <1>5, <2>1, <2>2 DEF scan_and_send_results
<1> QED BY <1>1, <1>2, <1>3, <1>4, <1>5 DEF Next

\* A step that moves no block and no pointer.
LEMMA NoLeakKept ==
    ASSUME NoLeak, UNCHANGED <<aps, allocated, mine>>, Dangling' <=> Dangling
    PROVE  NoLeak'
  BY DEF NoLeak, Published, Other

LEMMA NoLeakStep == ASSUME TypeOK, HeapInv, [Next]_vars PROVE NoLeak'
<1> USE ScannersDiffer
<1>0. /\ pc \in [Scanners -> Places] /\ mine \in [Scanners -> Blocks \cup {Null}]
      /\ aps \in Blocks \cup {Null} /\ allocated \subseteq Blocks
      /\ scanning \in Scanners \cup {Null} /\ Null \notin Blocks
      /\ DriverInv /\ LockInv /\ BlockInv /\ NoLeak
  BY DEF TypeOK, HeapInv
<1>1. ASSUME NEW s \in Scanners, CountAps(s) PROVE NoLeak'
  <2>1. Dangling' <=> Dangling
    BY <1>0, <1>1 DEF CountAps, Dangling
  <2>2. CASE UNCHANGED <<mine, heap>>
    BY <1>0, <1>1, <2>1, <2>2, NoLeakKept DEF CountAps, scan_state, heap
  <2>3. ASSUME NEW b \in Blocks \ allocated, mine' = [mine EXCEPT ![s] = b],
               allocated' = allocated \cup {b}
        PROVE  NoLeak'
    <3>1. Published' = Published /\ mine[s] = Null
      BY <1>0, <1>1, <2>1 DEF CountAps, scan_state, Published, BlockInv
    <3>2. b # Published /\ b # mine[Other(s)] /\ b # Null
      BY <1>0 DEF NoLeak
    <3>3. mine'[s] = b /\ mine'[Other(s)] = mine[Other(s)] /\ Scanners = {s, Other(s)}
      BY <1>0, <2>3
    <3>4. Other(Other(s)) = s
      BY DEF Other, Scanners
    <3> QED BY <1>0, <2>3, <3>1, <3>2, <3>3, <3>4 DEF NoLeak
  <2> QED BY <1>1, <2>2, <2>3 DEF CountAps
<1>2. ASSUME NEW s \in Scanners, TakeLock(s) PROVE NoLeak'
  <2>1. Published = aps
    BY <1>0, <1>2, Settled DEF TakeLock
  <2>2. Published' = Null
    BY <1>0, <1>2 DEF TakeLock, Published, Dangling
  <2> QED BY <1>0, <1>2, <2>1, <2>2 DEF TakeLock, NoLeak
<1>3. ASSUME NEW s \in Scanners, Publish(s) PROVE NoLeak'
  <2>1. Published = Null
    BY <1>3 DEF Publish, Published, Dangling
  <2>2. pc[Other(s)] # "publish"
    BY <1>0, <1>3 DEF Publish, LockInv
  <2>3. Published' = mine[s]
    BY <1>0, <1>3, <2>2 DEF Publish, Published, Dangling
  <2>4. mine'[s] = Null /\ mine'[Other(s)] = mine[Other(s)] /\ Scanners = {s, Other(s)}
    BY <1>0, <1>3 DEF Publish
  <2>5. Other(Other(s)) = s
    BY DEF Other, Scanners
  <2> QED BY <1>0, <1>3, <2>1, <2>3, <2>4, <2>5 DEF Publish, NoLeak, heap
<1>4. CASE /\ UNCHANGED <<aps, allocated, mine>>
           /\ \A s \in Scanners : pc'[s] = "publish" <=> pc[s] = "publish"
  BY <1>0, <1>4, NoLeakKept DEF Dangling
<1>5. ASSUME NEW s \in Scanners, ScanRefused(s) \/ ScanStarts(s) \/ GetRecords(s)
      PROVE  NoLeak'
  BY <1>0, <1>4, <1>5 DEF ScanRefused, ScanStarts, GetRecords, scan_state, heap
<1>6. CASE Connects \/ Disconnects \/ Age \/ Lookup \/ UNCHANGED vars
  BY <1>4, <1>6 DEF Connects, Disconnects, Age, Lookup, vars, scan_state, heap, locals
<1>7. CASE ScanEnds
  BY <1>0, <1>4, <1>7 DEF ScanEnds, DriverInv, scan_state, heap
<1>8. CASE NotifyWait \/ Delay \/ wifi_event_handler
  BY <1>0, <1>4, <1>8 DEF NotifyWait, Delay, wifi_event_handler, HandleStart, HandleGotIp,
       HandleDisconnected, Handles, ScanAgain, StartReturns, DisconnectedReturns, scan_state,
       heap, locals, Scanners
<1>9. CASE scan_and_send_results
  BY <1>4, <1>9 DEF scan_and_send_results, AppsTakeLock, SendReply, Notify, AppsGiveLock,
                    scan_state, heap, locals
<1> QED BY <1>1, <1>2, <1>3, <1>5, <1>6, <1>7, <1>8, <1>9 DEF Next, scan_blocking

LEMMA HeapInvariant == Spec => []HeapInv
<1>1. Init => HeapInv
  BY NullAssumption DEF Init, HeapInv, DriverInv, LockInv, BlockInv, LoopInv, NoLeak,
                        Published, Dangling, Scanners, Other
<1>2. TypeOK /\ HeapInv /\ [Next]_vars => HeapInv'
  BY DriverStep, LockStep, NoLeakStep DEF HeapInv
<1> QED BY <1>1, <1>2, ScanTypeOK, PTL DEF Spec

\* The results of every scan are freed once, when the next ones replace them.
THEOREM ScanNoLeak == Spec => []NoLeak
<1>1. HeapInv => NoLeak
  BY DEF HeapInv
<1> QED BY <1>1, HeapInvariant, PTL

\* The lock keeps the results APPS is sending.
THEOREM ScanReadsAreSafe == Spec => []ReadsAreSafe
<1>1. HeapInv => ReadsAreSafe
  <2> SUFFICES ASSUME HeapInv, apps_pc = "reply"
               PROVE  sent <= ap_count /\ (sent < ap_count => aps \in allocated)
    BY DEF ReadsAreSafe
  <2>1. Published = aps
    BY Settled, ScannersDiffer DEF HeapInv, LockInv
  <2> QED BY <2>1 DEF HeapInv, LoopInv, NoLeak
<1> QED BY <1>1, HeapInvariant, PTL

-----------------------------------------------------------------------------
(* What is written into the blocks.                                        *)

\* Scanners that have collected, or will, while another collects are tainted, both.
OverlapInv == \A s \in Scanners :
    Collecting(s) /\ (Collecting(Other(s)) \/ scanning = Other(s)) =>
        tainted[s] /\ tainted[Other(s)]

\* The driver still has what an untainted scanner has counted ...
CountedInv == \A s \in Scanners :
    pc[s] = "records" /\ ~tainted[s] => found > 0 /\ num[s] = found

\* ... and has given it what it is about to publish.
FetchedInv == \A s \in Scanners :
    pc[s] \in {"lock", "publish"} /\ ~tainted[s] => num[s] > 0 /\ filled[mine[s]] = num[s]

FillInv == OverlapInv /\ CountedInv /\ FetchedInv /\ PublishedIsFilled

\* A step that concerns neither the driver's list nor the blocks.
FillKept ==
    /\ UNCHANGED <<driver, scan_state, heap, mine, num, tainted>>
    /\ \A s \in Scanners : pc'[s] = pc[s] \/ {pc[s], pc'[s]} \subseteq {"wait", "scan", "return"}

LEMMA KeptStep == ASSUME FillInv, FillKept PROVE FillInv'
<1> USE ScannersDiffer DEF FillKept, driver, scan_state, heap
<1>1. \A s \in Scanners :
         /\ Collecting(s)' <=> Collecting(s)
         /\ pc'[s] = "records" <=> pc[s] = "records"
         /\ pc'[s] \in {"lock", "publish"} <=> pc[s] \in {"lock", "publish"}
         /\ pc'[s] = "publish" <=> pc[s] = "publish"
  BY DEF Collecting
<1>2. Published' = Published
  BY <1>1 DEF Published, Dangling
<1> QED BY <1>1, <1>2 DEF FillInv, OverlapInv, CountedInv, FetchedInv, PublishedIsFilled, Other

LEMMA FillStep == ASSUME TypeOK, HeapInv, FillInv, [Next]_vars PROVE FillInv'
<1> USE ScannersDiffer
<1>0. /\ pc \in [Scanners -> Places] /\ mine \in [Scanners -> Blocks \cup {Null}]
      /\ num \in [Scanners -> 0 .. MaxAps] /\ filled \in [Blocks -> 0 .. MaxAps]
      /\ tainted \in [Scanners -> BOOLEAN] /\ found \in 0 .. MaxAps
      /\ aps \in Blocks \cup {Null} /\ allocated \subseteq Blocks
      /\ scanning \in Scanners \cup {Null} /\ Null \notin Blocks
      /\ DriverInv /\ LockInv /\ BlockInv /\ NoLeak
      /\ OverlapInv /\ CountedInv /\ FetchedInv /\ PublishedIsFilled
  BY DEF TypeOK, Flags, HeapInv, FillInv
<1>1. ASSUME NEW s \in Scanners, ScanStarts(s) PROVE FillInv'
  <2>1. Published' = Published
    BY <1>0, <1>1 DEF ScanStarts, Published, Dangling, scan_state
  <2>2. PublishedIsFilled'
    BY <1>0, <1>1, <2>1 DEF ScanStarts, PublishedIsFilled, scan_state, heap
  <2>3. OverlapInv' /\ CountedInv' /\ FetchedInv'
    BY <1>0, <1>1 DEF ScanStarts, OverlapInv, CountedInv, FetchedInv, Collecting, heap, Other, Scanners
  <2> QED BY <2>2, <2>3 DEF FillInv
<1>2. ASSUME ScanEnds PROVE FillInv'
  <2>1. Published' = Published
    BY <1>0, <1>2 DEF ScanEnds, Published, Dangling, scan_state, DriverInv
  <2>2. PublishedIsFilled'
    BY <1>0, <1>2, <2>1 DEF ScanEnds, PublishedIsFilled, scan_state, heap
  <2>3. OverlapInv' /\ CountedInv' /\ FetchedInv'
    BY <1>0, <1>2 DEF ScanEnds, DriverInv, OverlapInv, CountedInv, FetchedInv, Collecting,
                      heap, Other, Scanners
  <2> QED BY <2>2, <2>3 DEF FillInv
<1>3. ASSUME NEW s \in Scanners, CountAps(s) PROVE FillInv'
  <2>1. Published' = Published
    BY <1>0, <1>3 DEF CountAps, Published, Dangling, scan_state
  <2>2. CASE UNCHANGED <<mine, num, heap>> /\ pc' = [pc EXCEPT ![s] = "return"]
             /\ tainted' = [tainted EXCEPT ![s] = FALSE]
    BY <1>0, <1>3, <2>1, <2>2 DEF CountAps, DriverInv, FillInv, OverlapInv, CountedInv,
         FetchedInv, PublishedIsFilled, Collecting, scan_state, driver, heap, Other, Scanners
  <2>3. ASSUME NEW b \in Blocks \ allocated, found > 0,
               mine' = [mine EXCEPT ![s] = b], num' = [num EXCEPT ![s] = found],
               filled' = [filled EXCEPT ![b] = 0],
               pc' = [pc EXCEPT ![s] = "records"], UNCHANGED tainted
        PROVE  FillInv'
    <3>1. b # Published /\ b # mine[Other(s)]
      BY <1>0 DEF NoLeak
    <3>2. PublishedIsFilled'
      BY <1>0, <1>3, <2>1, <2>3, <3>1 DEF CountAps, PublishedIsFilled, Published, scan_state
    <3>3. OverlapInv' /\ CountedInv'
      BY <1>0, <1>3, <2>3 DEF CountAps, OverlapInv, CountedInv, Collecting, driver, Other, Scanners
    <3>4. FetchedInv'
      BY <1>0, <2>3, <3>1 DEF FetchedInv, BlockInv
    <3> QED BY <3>2, <3>3, <3>4 DEF FillInv
  <2> QED BY <1>3, <2>2, <2>3, Zenon DEF CountAps
<1>4. ASSUME NEW s \in Scanners, GetRecords(s) PROVE FillInv'
  <2>1. Published' = Published
    BY <1>0, <1>4 DEF GetRecords, Published, Dangling, scan_state
  <2>2. mine[s] # Null /\ mine[s] # Published /\ mine[s] # mine[Other(s)]
    BY <1>0, <1>4 DEF GetRecords, BlockInv, NoLeak
  <2>3. \A b \in Blocks : b # mine[s] => filled'[b] = filled[b]
    BY <1>0, <1>4 DEF GetRecords
  <2>4. PublishedIsFilled'
    BY <1>0, <1>4, <2>1, <2>2, <2>3 DEF GetRecords, PublishedIsFilled, Published, scan_state
  <2>5. ~tainted[s] => num'[s] > 0 /\ filled'[mine[s]] = num'[s]
    BY <1>0, <1>4, <2>2 DEF GetRecords, CountedInv
  <2>6. num'[Other(s)] = num[Other(s)]
    BY <1>0, <1>4 DEF GetRecords
  <2>7. pc' = [pc EXCEPT ![s] = "lock"] /\ UNCHANGED <<mine, tainted, scanning>> /\ Collecting(s)
    BY <1>4 DEF GetRecords, Collecting
  <2>8. FetchedInv'
    BY <1>0, <2>2, <2>3, <2>5, <2>6, <2>7 DEF FetchedInv, BlockInv
  <2>9. OverlapInv' /\ CountedInv'
    BY <1>0, <2>7 DEF OverlapInv, CountedInv, Collecting, Other, Scanners
  <2> QED BY <2>4, <2>8, <2>9 DEF FillInv
<1>5. ASSUME NEW s \in Scanners, TakeLock(s) PROVE FillInv'
  <2>1. Published' = Null /\ Published = aps
    BY <1>0, <1>5, Settled DEF TakeLock, Published, Dangling
  <2>2. \A t \in Scanners : mine[t] # Null => filled'[mine[t]] = filled[mine[t]]
    BY <1>0, <1>5, <2>1 DEF TakeLock, NoLeak
  <2>3. OverlapInv' /\ CountedInv' /\ FetchedInv'
    BY <1>0, <1>5, <2>2 DEF TakeLock, OverlapInv, CountedInv, FetchedInv, BlockInv, Collecting,
                            driver, Other, Scanners
  <2> QED BY <2>1, <2>3 DEF FillInv, PublishedIsFilled
<1>6. ASSUME NEW s \in Scanners, Publish(s) PROVE FillInv'
  <2>1. PublishedIsFilled'
    BY <1>0, <1>6 DEF Publish, PublishedIsFilled, FetchedInv, heap
  <2>2. OverlapInv' /\ CountedInv' /\ FetchedInv'
    BY <1>0, <1>6 DEF Publish, DriverInv, OverlapInv, CountedInv, FetchedInv,
                      Collecting, driver, heap, Other, Scanners
  <2> QED BY <2>1, <2>2 DEF FillInv
<1>7. CASE FillKept
  BY <1>7, KeptStep
<1>8. ASSUME NEW s \in Scanners, ScanRefused(s) PROVE FillKept
  BY <1>0, <1>8 DEF ScanRefused, FillKept
<1>9. CASE Age
  BY <1>0, <1>9 DEF Age, FillInv, OverlapInv, CountedInv, FetchedInv, PublishedIsFilled,
                    Published, Dangling, Collecting, driver, heap, locals
<1>10. ASSUME Connects \/ Disconnects \/ Lookup \/ UNCHANGED vars PROVE FillKept
  BY <1>10 DEF Connects, Disconnects, Lookup, vars, locals, FillKept
<1>11. ASSUME NotifyWait \/ Delay \/ wifi_event_handler PROVE FillKept
  BY <1>0, <1>11 DEF NotifyWait, Delay, wifi_event_handler, HandleStart, HandleGotIp,
       HandleDisconnected, Handles, ScanAgain, StartReturns, DisconnectedReturns,
       locals, FillKept, Scanners
<1>12. ASSUME scan_and_send_results PROVE FillKept
  BY <1>12 DEF scan_and_send_results, AppsTakeLock, SendReply, Notify, AppsGiveLock,
               locals, FillKept
<1> QED BY <1>1, <1>2, <1>3, <1>4, <1>5, <1>6, <1>7, <1>8, <1>9, <1>10, <1>11, <1>12
        DEF Next, scan_blocking

\* What APPS is given to read was written by a scan that nobody else's cut into.
THEOREM ScanPublishedIsFilled == Spec => []PublishedIsFilled
<1>1. Init => FillInv
  BY DEF Init, FillInv, OverlapInv, CountedInv, FetchedInv, PublishedIsFilled,
         Published, Dangling, Collecting, Scanners, Other
<1>2. TypeOK /\ HeapInv /\ FillInv /\ [Next]_vars => FillInv'
  BY FillStep
<1>3. FillInv => PublishedIsFilled
  BY DEF FillInv
<1> QED BY <1>1, <1>2, <1>3, ScanTypeOK, HeapInvariant, PTL DEF Spec
=============================================================================
