------------------------------ MODULE ScanManager ------------------------------
(***************************************************************************)
(* The list of access points (scan_manager.c) and the station that the     *)
(* wifi event handler keeps connected (wifi.c).  Two tasks scan: SCANMAN,  *)
(* when a lookup has asked for it, and the event loop's task, in which the *)
(* handler runs.  APPS reads the list under the lock, and sends a reply    *)
(* for each access point while it holds it.                                *)
(*                                                                         *)
(* The driver is outside the repository: it holds one list of records,     *)
(* which a scan empties and fills and esp_wifi_scan_get_ap_records takes,  *)
(* whichever task started the scan.  LocalTalk decides when lookups come.  *)
(***************************************************************************)
EXTENDS Naturals, Sequences

CONSTANTS
    MaxAps,         \* access points a scan can find
    Blocks,         \* what malloc can return
    Null,           \* no block, and nobody
    ssid_configured \* whether init_at_wifi found an SSID

Scanners == {"scanman", "events"}

ASSUME MaxApsAssumption == MaxAps \in Nat \ {0}
ASSUME NullAssumption == Null \notin Blocks \cup Scanners \cup {"apps"}
ASSUME ConfiguredAssumption == ssid_configured \in BOOLEAN

VARIABLES
    sta,           \* the station: "idle", "connecting" or "up"; "refused" is idle, and
                   \* esp_wifi_connect has refused to connect it
    events,        \* posted and not yet handled, oldest first
    scanning,      \* whose scan the driver is carrying out
    found,         \* records in the driver's list
    lock,          \* who holds scan_state.lock
    aps,           \* scan_state.aps
    ap_count,      \* scan_state.ap_count
    young,         \* scan_state.when > now - 30
    allocated,     \* the blocks in use
    filled,        \* how many records of a block have been written
    pc,            \* where each scanner is; "wait" is outside scan_blocking
    mine,          \* its local `aps`
    num,           \* its local `ap_count`
    handling,      \* the event in the handler: "lost_again" from the second scan on
    net_if_ready,  \* net_common.c
    apps_pc,       \* APPS in scan_and_send_results
    sent,          \* APPS: the loop's counter
    notified,      \* SCANMAN has a notification pending
    tainted,       \* history: another scan has overlapped with this scanner's
    doubtful       \* history: scan_state comes from such a scan

station == <<sta, events, net_if_ready, handling>>
driver == <<scanning, found>>
scan_state == <<aps, ap_count, young, doubtful>>
heap == <<allocated, filled>>
locals == <<pc, mine, num, tainted>>
apps == <<apps_pc, sent, notified>>
vars == <<station, driver, lock, scan_state, heap, locals, apps>>

-----------------------------------------------------------------------------
(* The driver and the radio.                                               *)

Resting == {"idle", "refused"}

Connects ==
    /\ sta = "connecting"
    /\ sta' = "up" /\ events' = Append(events, "got_ip")
    /\ UNCHANGED <<net_if_ready, handling, driver, lock, scan_state, heap, locals, apps>>

Disconnects ==
    /\ sta \notin Resting
    /\ sta' = "idle" /\ events' = Append(events, "disconnected")
    /\ UNCHANGED <<net_if_ready, handling, driver, lock, scan_state, heap, locals, apps>>

\* esp_wifi_connect; that it may refuse is not looked at.
Connect ==
    IF sta \in Resting THEN sta' \in {"connecting", "refused"} ELSE UNCHANGED sta

\* A scan is over, and the task that waits for it goes on.
ScanEnds ==
    /\ scanning # Null
    /\ found' \in 0 .. MaxAps
    /\ pc' = [pc EXCEPT ![scanning] = "count"] /\ scanning' = Null
    /\ UNCHANGED <<station, lock, scan_state, heap, mine, num, tainted, apps>>

\* More than 30 seconds have passed since scan_state.when.
Age ==
    /\ young' = FALSE
    /\ UNCHANGED <<station, driver, lock, aps, ap_count, doubtful, heap, locals, apps>>

-----------------------------------------------------------------------------
(* scan_blocking, called by s.                                             *)

Other(s) == IF s = "scanman" THEN "events" ELSE "scanman"
Collecting(s) == pc[s] \in {"count", "records"}

\* esp_wifi_scan_start: refused while connecting, or for any other reason.
ScanRefused(s) ==
    /\ pc[s] = "scan"
    /\ pc' = [pc EXCEPT ![s] = "return"]
    /\ UNCHANGED <<station, driver, lock, scan_state, heap, mine, num, tainted, apps>>

ScanStarts(s) ==
    /\ pc[s] = "scan" /\ sta # "connecting" /\ scanning = Null
    /\ scanning' = s /\ found' = 0
    /\ pc' = [pc EXCEPT ![s] = "scanning"]
    /\ tainted' = [t \in Scanners |-> Collecting(Other(s)) \/ (t # s /\ tainted[t])]
    /\ UNCHANGED <<station, lock, scan_state, heap, mine, num, apps>>

\* esp_wifi_scan_get_ap_num and malloc.  Nothing found, or no memory: give up.
CountAps_EvenNone(s) ==
    /\ pc[s] = "count"
    /\ \E b \in Blocks \ allocated :
          /\ mine' = [mine EXCEPT ![s] = b] /\ num' = [num EXCEPT ![s] = found]
          /\ allocated' = allocated \cup {b} /\ filled' = [filled EXCEPT ![b] = 0]
          /\ pc' = [pc EXCEPT ![s] = "records"]
    /\ UNCHANGED <<station, driver, lock, scan_state, tainted, apps>>

CountAps(s) ==
    /\ pc[s] = "count"
    /\ \/ /\ pc' = [pc EXCEPT ![s] = "return"]
          /\ tainted' = [tainted EXCEPT ![s] = FALSE]
          /\ UNCHANGED <<mine, num, heap>>
       \/ \E b \in Blocks \ allocated :
             /\ found > 0
             /\ mine' = [mine EXCEPT ![s] = b] /\ num' = [num EXCEPT ![s] = found]
             /\ allocated' = allocated \cup {b} /\ filled' = [filled EXCEPT ![b] = 0]
             /\ pc' = [pc EXCEPT ![s] = "records"]
             /\ UNCHANGED tainted
    /\ UNCHANGED <<station, driver, lock, scan_state, apps>>

\* esp_wifi_scan_get_ap_records takes the driver's list, as far as there is room,
\* and says how many records it wrote.  Its result is not looked at: when it
\* fails because the list has gone, ap_count and the records stay as they were.
GetRecords(s) ==
    LET n == IF found < num[s] THEN found ELSE num[s]
    IN  /\ pc[s] = "records"
        /\ \/ /\ num' = [num EXCEPT ![s] = n]
              /\ filled' = [filled EXCEPT ![mine[s]] = n]
           \/ found = 0 /\ UNCHANGED <<num, filled>>
        /\ found' = 0
        /\ pc' = [pc EXCEPT ![s] = "lock"]
        /\ UNCHANGED <<station, scanning, lock, scan_state, allocated, mine, tainted, apps>>

TakeLock_Anyway(s) ==
    /\ pc[s] = "lock"
    /\ lock' = s /\ allocated' = allocated \ {aps}
    /\ filled' = [b \in Blocks |-> IF b = aps THEN 0 ELSE filled[b]]
    /\ pc' = [pc EXCEPT ![s] = "publish"]
    /\ UNCHANGED <<station, driver, scan_state, mine, num, tainted, apps>>

TakeLock_KeepsOld(s) ==
    /\ pc[s] = "lock" /\ lock = Null
    /\ lock' = s
    /\ pc' = [pc EXCEPT ![s] = "publish"]
    /\ UNCHANGED <<station, driver, scan_state, heap, mine, num, tainted, apps>>

\* Take the mutex and free the old results.
TakeLock(s) ==
    /\ pc[s] = "lock" /\ lock = Null
    /\ lock' = s /\ allocated' = allocated \ {aps}
    /\ filled' = [b \in Blocks |-> IF b = aps THEN 0 ELSE filled[b]]
    /\ pc' = [pc EXCEPT ![s] = "publish"]
    /\ UNCHANGED <<station, driver, scan_state, mine, num, tainted, apps>>

\* The new results are in place and the lock is given back.
Publish(s) ==
    /\ pc[s] = "publish"
    /\ aps' = mine[s] /\ ap_count' = num[s] /\ young' = TRUE
    /\ doubtful' = tainted[s]
    /\ lock' = Null
    /\ mine' = [mine EXCEPT ![s] = Null] /\ num' = [num EXCEPT ![s] = 0]
    /\ tainted' = [tainted EXCEPT ![s] = FALSE]
    /\ pc' = [pc EXCEPT ![s] = "return"]
    /\ UNCHANGED <<station, driver, heap, apps>>

-----------------------------------------------------------------------------
(* SCANMAN: scan_manager_runloop.                                          *)

\* xTaskNotifyWait, which one notification or several let pass once.
NotifyWait ==
    /\ pc["scanman"] = "wait" /\ notified
    /\ notified' = FALSE
    /\ pc' = [pc EXCEPT !["scanman"] = "scan"]
    /\ UNCHANGED <<station, driver, lock, scan_state, heap, mine, num, tainted, apps_pc, sent>>

\* A second's rest.
Delay ==
    /\ pc["scanman"] = "return"
    /\ pc' = [pc EXCEPT !["scanman"] = "wait"]
    /\ UNCHANGED <<station, driver, lock, scan_state, heap, mine, num, tainted, apps>>

-----------------------------------------------------------------------------
(* The event loop's task: wifi_event_handler.                              *)

\* The handler takes the oldest event, which is an e.
Handles(e) == pc["events"] = "wait" /\ events # <<>> /\ Head(events) = e

HandleStart ==
    /\ Handles("start")
    /\ events' = Tail(events) /\ handling' = "start"
    /\ pc' = [pc EXCEPT !["events"] = "scan"]
    /\ UNCHANGED <<sta, net_if_ready, driver, lock,
                   scan_state, heap, mine, num, tainted, apps>>

HandleDisconnected_ConnectsFirst ==
    /\ Handles("disconnected")
    /\ events' = Tail(events) /\ net_if_ready' = FALSE /\ handling' = "lost"
    /\ pc' = [pc EXCEPT !["events"] = "scan"]
    /\ Connect
    /\ UNCHANGED <<driver, lock, scan_state, heap, mine, num, tainted, apps>>

HandleDisconnected_StaysReady ==
    /\ Handles("disconnected")
    /\ events' = Tail(events) /\ handling' = "lost"
    /\ pc' = [pc EXCEPT !["events"] = "scan"]
    /\ UNCHANGED <<sta, net_if_ready, driver, lock,
                   scan_state, heap, mine, num, tainted, apps>>

HandleDisconnected ==
    /\ Handles("disconnected")
    /\ events' = Tail(events) /\ net_if_ready' = FALSE /\ handling' = "lost"
    /\ pc' = [pc EXCEPT !["events"] = "scan"]
    /\ UNCHANGED <<sta, driver, lock, scan_state, heap, mine, num, tainted, apps>>

HandleGotIp ==
    /\ Handles("got_ip")
    /\ events' = Tail(events) /\ net_if_ready' = TRUE
    /\ UNCHANGED <<sta, handling, driver, lock, scan_state, heap, locals, apps>>

\* The second scan after a disconnection.
ScanAgain ==
    /\ pc["events"] = "return" /\ handling = "lost"
    /\ handling' = "lost_again"
    /\ pc' = [pc EXCEPT !["events"] = "scan"]
    /\ UNCHANGED <<sta, events, net_if_ready, driver, lock,
                   scan_state, heap, mine, num, tainted, apps>>

\* The scans are done: connect, at the start only if there is an SSID.
StartReturns ==
    /\ pc["events"] = "return" /\ handling = "start"
    /\ handling' = "nothing" /\ net_if_ready' = FALSE
    /\ IF ssid_configured THEN Connect ELSE UNCHANGED sta
    /\ pc' = [pc EXCEPT !["events"] = "wait"]
    /\ UNCHANGED <<events, driver, lock, scan_state, heap, mine, num, tainted, apps>>

DisconnectedReturns ==
    /\ pc["events"] = "return" /\ handling = "lost_again"
    /\ handling' = "nothing"
    /\ Connect
    /\ pc' = [pc EXCEPT !["events"] = "wait"]
    /\ UNCHANGED <<events, net_if_ready, driver, lock,
                   scan_state, heap, mine, num, tainted, apps>>

-----------------------------------------------------------------------------
(* APPS: scan_and_send_results.                                            *)

Lookup ==
    /\ apps_pc = "recv" /\ apps_pc' = "lock"
    /\ UNCHANGED <<station, driver, lock, scan_state, heap, locals, sent, notified>>

\* "Are the results young enough to send?"  If not, the loop is left out.
AppsTakeLock ==
    /\ apps_pc = "lock" /\ lock = Null
    /\ lock' = "apps" /\ sent' = IF aps # Null /\ young THEN 0 ELSE ap_count
    /\ apps_pc' = "reply"
    /\ UNCHANGED <<station, driver, scan_state, heap, locals, notified>>

\* One turn of the loop: send_fake_nbp_LkUpReply blocks until there is room.
SendReply_OneMore ==
    /\ apps_pc = "reply" /\ sent <= ap_count
    /\ sent' = sent + 1
    /\ UNCHANGED <<station, driver, lock, scan_state, heap, locals, apps_pc, notified>>

SendReply ==
    /\ apps_pc = "reply" /\ sent < ap_count
    /\ sent' = sent + 1
    /\ UNCHANGED <<station, driver, lock, scan_state, heap, locals, apps_pc, notified>>

\* scan_nonblocking, when the replies are done.
Notify_OnlyIfIdle ==
    /\ apps_pc = "reply" /\ sent = ap_count
    /\ notified' = (notified \/ pc["scanman"] = "wait") /\ apps_pc' = "give"
    /\ UNCHANGED <<station, driver, lock, scan_state, heap, locals, sent>>

Notify ==
    /\ apps_pc = "reply" /\ sent = ap_count
    /\ notified' = TRUE /\ apps_pc' = "give"
    /\ UNCHANGED <<station, driver, lock, scan_state, heap, locals, sent>>

AppsGiveLock_Forgotten ==
    /\ apps_pc = "give"
    /\ sent' = 0 /\ apps_pc' = "recv"
    /\ UNCHANGED <<station, driver, lock, scan_state, heap, locals, notified>>

AppsGiveLock ==
    /\ apps_pc = "give"
    /\ lock' = Null /\ sent' = 0 /\ apps_pc' = "recv"
    /\ UNCHANGED <<station, driver, scan_state, heap, locals, notified>>

-----------------------------------------------------------------------------
\* start_scan_manager has run, and the station has just been started.
Init ==
    /\ sta = "idle" /\ events = <<"start">> /\ net_if_ready = FALSE /\ handling = "nothing"
    /\ scanning = Null /\ found = 0
    /\ lock = Null /\ aps = Null /\ ap_count = 0 /\ young = FALSE /\ doubtful = FALSE
    /\ allocated = {} /\ filled = [b \in Blocks |-> 0]
    /\ pc = [s \in Scanners |-> "wait"] /\ mine = [s \in Scanners |-> Null]
    /\ num = [s \in Scanners |-> 0] /\ tainted = [s \in Scanners |-> FALSE]
    /\ apps_pc = "recv" /\ sent = 0 /\ notified = FALSE

scan_blocking(s) ==
    \/ ScanRefused(s) \/ ScanStarts(s) \/ CountAps(s) \/ GetRecords(s)
    \/ TakeLock(s) \/ Publish(s)

wifi_event_handler ==
    \/ HandleStart \/ HandleDisconnected \/ HandleGotIp \/ ScanAgain
    \/ StartReturns \/ DisconnectedReturns

scan_and_send_results ==
    \/ AppsTakeLock \/ SendReply \/ Notify \/ AppsGiveLock

Next ==
    \/ Connects \/ Disconnects \/ ScanEnds \/ Age \/ Lookup
    \/ (\E s \in Scanners : scan_blocking(s))
    \/ NotifyWait \/ Delay \/ wifi_event_handler \/ scan_and_send_results

Spec == Init /\ [][Next]_vars

\* Each task runs when it can, the driver ends every scan, and the mutex serves
\* whoever waits for it.  APPS gets its replies away: see ReplyIsSent in Bridge.
\* Of the radio and of LocalTalk nothing is assumed.
Fairness ==
    /\ WF_vars(ScanEnds) /\ WF_vars(NotifyWait \/ Delay) /\ WF_vars(wifi_event_handler)
    /\ \A s \in Scanners : WF_vars(scan_blocking(s)) /\ SF_vars(TakeLock(s))
    /\ WF_vars(scan_and_send_results) /\ SF_vars(AppsTakeLock)

FairSpec == Spec /\ Fairness

-----------------------------------------------------------------------------
(* Properties.                                                             *)

Events == {"start", "got_ip", "disconnected"}
Places == {"wait", "scan", "scanning", "count", "records", "lock", "publish", "return"}

Flags ==
    /\ net_if_ready \in BOOLEAN /\ young \in BOOLEAN /\ notified \in BOOLEAN
    /\ doubtful \in BOOLEAN /\ tainted \in [Scanners -> BOOLEAN]

\* Types: no count ever leaves 0 .. MaxAps, the loop counter of APPS included.
TypeOK ==
    /\ sta \in {"idle", "refused", "connecting", "up"}
    /\ events \in Seq(Events)
    /\ handling \in {"nothing", "start", "lost", "lost_again"}
    /\ scanning \in Scanners \cup {Null} /\ found \in 0 .. MaxAps
    /\ lock \in Scanners \cup {"apps", Null}
    /\ aps \in Blocks \cup {Null} /\ ap_count \in 0 .. MaxAps
    /\ allocated \subseteq Blocks /\ filled \in [Blocks -> 0 .. MaxAps]
    /\ pc \in [Scanners -> Places]
    /\ mine \in [Scanners -> Blocks \cup {Null}]
    /\ num \in [Scanners -> 0 .. MaxAps]
    /\ apps_pc \in {"recv", "lock", "reply", "give"} /\ sent \in 0 .. MaxAps
    /\ Flags

\* Between free and the assignment the lock keeps the others from scan_state.aps.
Dangling == \E s \in Scanners : pc[s] = "publish"
Published == IF Dangling THEN Null ELSE aps

\* Each block in use is the published one or belongs to the one scanner that is
\* about to publish it: scan_blocking frees the old results, once, and loses none.
NoLeak ==
    /\ allocated = ({Published} \cup {mine[s] : s \in Scanners}) \ {Null}
    /\ \A s \in Scanners : mine[s] # Null => mine[s] \notin {Published, mine[Other(s)]}

\* While APPS goes through the results, nobody frees them ("taking the mutex to
\* avoid crashes", scan_manager.c:62): they are in use and it stays within them.
ReadsAreSafe ==
    apps_pc = "reply" => sent <= ap_count /\ (sent < ap_count => aps \in allocated)

\* What is published is a non-empty list of records that a scan has written, unless
\* the scans of the two tasks have overlapped: then one can take the other's.
PublishedIsFilled ==
    Published # Null /\ ~doubtful => ap_count > 0 /\ filled[aps] = ap_count

\* Of the events the handler acts on, no more than two ever wait, however long it is
\* held up: none is posted after a disconnection until it reconnects.
EventsBounded == Len(events) <= 2

\* Once the handler has caught up, net_if_ready says whether there is a network.
ReadyIsTrue ==
    events = <<>> /\ pc["events"] = "wait" => (net_if_ready <=> sta = "up")

\* Every lookup is followed by a scan, or by an attempt at one: the notification
\* of one that comes while SCANMAN is busy is not lost.
LookupIsFollowedByScan == apps_pc = "reply" ~> pc["scanman"] = "scan"

\* However often the connection is lost, or does not come about, the handler tries
\* again: it is not held up for ever by the lock or by a scan.  But it tries once: when
\* esp_wifi_connect itself refuses, no event follows (wifi.c:35, wifi.c:42).
Reconnects == ssid_configured => (sta = "idle" ~> sta \in {"connecting", "refused"})
=============================================================================
