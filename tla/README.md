# AirTalk in TLA+

AirTalk is firmware for an ESP32 that bridges LocalTalk, which it reaches over
a UART through a TashTalk chip, to LToUDP multicast on wifi. This directory
holds TLA+ models of its code (`src/main/*.c`), TLC configurations that check
them on small instances, and proofs that TLAPS checks for every value of the
constants.

## 1. The system

The firmware is a handful of FreeRTOS tasks, all of priority 5 except the scan
manager and the recovery listener, on two cores. They pass pointers to packets
through queues.

    TashTalk --UART--> UART_RX --UARTtoApps--> APPS --AppsToUDP--> LToUDP-tx --> UDP
                          |                     | replies             |
                     node_table            UDPtoUART          forward_for_nodes
                          |                     |                     |
    TashTalk <--UART-- UART_TX <----UDPtoUART---+---------------- LToUDP-rx <-- UDP

| Component | State | Operations | What makes it hard | Correct if |
|---|---|---|---|---|
| buffer pool (`buffer_pool.c`) | a queue of free pointers, 180 buffers | create, fetch, relinquish | used by five tasks; relinquish publishes before it zeroes | no buffer is lost, shared or dirty when fetched |
| data path (`tashtalk.c`, `uart.c`, `apps.c`, `ip.c`) | three queues of 60 pointers, what each task holds | receive, accept or drop, answer lookups, forward, transmit | every interleaving; blocking sends; an empty pool | frames keep their order and contents, only learned destinations are forwarded, nobody waits for ever |
| node tables (`node_table.c`) | `last_seen`, `seen_at_all`, `nodebits` | touch, fresh, serialise | read on one core while written on the other; a clock that starts at 0 | no false yes, no false no, mask and forwarding agree |
| UART link (`uart.c`) | TashTalk's state, the mask packet, the handshake count | write a frame, write the mask, reset | two tasks write, in several calls each | TashTalk and its writers agree on what comes next |
| UDP socket (`ip.c`, `wifi.c`) | `udp_sock`, `net_if_ready` | make, retry, publish, throw away | every call can fail | no leak, a published socket works, it recovers |
| TashTalk receive parser (`tashtalk.c`) | packet in progress, escape flag, CRC | feed a byte | arbitrary byte streams | decodes what was encoded |
| transmit validation, CRC-16, CRC-32, packet and NBP accessors, Pascal strings | none | pure functions | boundaries of length and type | agree with their definitions |
| applications (`apps.c`) | - | answer AirTalkAP lookups, accept configuration | packets from the network | well-formed replies that answer the lookup |
| scan manager (`scan_manager.c`, `wifi.c`) | lock, cached access points and their age, the notification | scan, send results, notify; reconnect | two tasks scan over one list of the driver; the lock is held while APPS is blocked, and the event handler waits for it | no freed or uninitialised results are read, every lookup is followed by a scan, the handler reconnects |
| configuration store and recovery (`storage.c`, `recovery*.c`, `main.c`) | NVS keys, recovery flag, button | store, read, clear | loss of power between two writes | a boot sees consistent settings; recovery is entered once |
| LEDs, ethernet, board definitions | - | - | - | not modelled |

The tasks interact only through the queues, the pool, the two node tables, the
mask packet, `udp_sock`, `net_if_ready` and the scan state. None of these but
the queues and the scan state has a lock. Two more channels are easily
overlooked: NVS, through which one boot talks to the next, and `esp_restart`,
which APPS, the web server of recovery mode and the recovery listener may each
call while the others are in the middle of something.

## 2. The modules

Read them in this order.

**BufferPool** is `buffer_pool.c` with the most general clients its header
allows. `pool` is `bp->queue`; `hand[h]` is a pointer a task holds;
`bp_relinquish` is two actions because the code pushes the pointer
(line 94) before it zeroes the memory (line 101), and another task can run in
between: `wiping[h]` is the buffer still to be zeroed. `away` is the set of
buffers whose pointers are in queues between tasks. `MCBufferPool` instantiates
it.

**FrameChannel** is an abstract specification: a bounded FIFO channel of
frames, which nothing but a restart empties.

**Bridge** composes five tasks, three queues and the pool. A step is what a
task does between two operations on a queue or the pool. `rx_pc` and `apps_pc`
are the places in the code where UART_RX and APPS can be; the other tasks are
where their pointer says. A frame is a record of kind, source and destination:

| kind | stands for |
|---|---|
| data | a frame nobody treats specially |
| handshake | RTS or CTS: not sent to UDP |
| lkup | an NBP lookup for AirTalkAP: answered by `scan_and_send_results` |
| config | an `airtalk setap` request: stored, then `esp_restart` |
| runt | three bytes or fewer, with the CRC: teaches nothing |
| bad | refused by `tashtalk_tx_validate` |
| blank | what a zeroed buffer reads as |

Time is abstracted here: a node that was heard may or may not still be fresh.
A bzero that hits a buffer while it is being filled leaves a mixture in the
code; the model has its two extremes, the whole frame and the blank one.
`scan_and_send_results` finds any number of access points up to `MaxReplies`.
Bridge uses BufferPool by `INSTANCE`, so that its pool operations are literally
those of BufferPool. `MCBridge` defines the traffic of each run.

**NodeTable** has what Bridge abstracts: the clock, the two stores of
`nt_touch` in either order, `nt_fresh` one shared read at a time, and
`nt_serialise`. The history variables `started` and `finished` record when
touches began and were complete.

**UartLink** is the UART towards TashTalk. Each call of `uart_write_bytes` is
one step (the driver serialises calls with a mutex), and a message is a command
byte and a payload in separate calls. UART_RX resets TashTalk from
`uart_check_for_tx_wedge`. The one call that is not a step of its own is that of
the reset which sends `node_table_packet` while `nt_serialise` refills it: the
driver has no transmit buffer (`uart.c:97`) and reads the packet while it sends.
Both are done byte by byte here, the sending under the driver's mutex
(`UartTaken`). TashTalk is outside the
repository: what it does with bytes is taken from `uart.c`'s use of it. Data it
takes for commands set it "adrift", with any mask.

**UdpSocket** is `init_udp` one call at a time, the retry loop around it, and
the close after a failed `recv`. Each call of the network stack may fail while
`healthy` is false. The two `setsockopt` calls whose results the code does not
assign go on whatever happens, as in the code.

**ScanManager** is `scan_manager.c` and the event handler of `wifi.c`, one call
at a time: `scan_blocking` runs in SCANMAN and in the event handler (`pc` and
`mine` are per task), over the one list of the driver, which
`esp_wifi_scan_get_ap_records` empties. Memory is blocks, each with how many of
its records have been written.
`scan_and_send_results` reads the published results under the lock and blocks in
between. `events` is the queue of the event loop; `sta` is the station as the
driver knows it, `net_if_ready` what the handler has made of it. The history
variables `tainted` and `doubtful` tell which results come from overlapping scans.
The driver is external: a scan may be refused, find anything, and connections
come and go; `esp_wifi_connect` may refuse, which the code does not look at. Of the
events only the three kinds are there on which the handler acts. The abort of
`ESP_ERROR_CHECK` at `scan_manager.c:42` is left out, since a driver that has just
scanned has a count to give.

**Boot** is what survives a reset: the two strings of the settings and the
recovery flag in NVS, and everybody who reads and writes them. `written` is what
`nvs_get` returns, `flash` what survives; in between, a key that was set and not
committed survives or not. `main_pc` is app_main, `store_pc` is
`store_wifi_details` (called by APPS, or by the web server), `listen_pc` is the
task that samples the button. A reset comes from any `esp_restart` or from a loss
of power, between any two steps. Strings are represented by their lengths, which
is what the buffers of `apps.c`, `recovery.c` and `wifi.c` disagree about. While
`trouble` lasts, calls of NVS fail and the power may go.

**Crc**, **Packets** and **FramePath** follow the bytes. Crc has the table of
`crc.c` as it stands, and the polynomial; its exclusive or is written out in
arithmetic on single bits, so that it can be reasoned about. Packets has the
accessors of `packet_utils.c`, what APPS recognises, `tashtalk_tx_validate` and
`send_fake_nbp_LkUpReply` as operators over sequences of bytes. FramePath takes
one frame at a time from TashTalk's byte stream (escaped, given up, or with a byte
lost) through `feed`, APPS, the datagram and the other end to UART_TX, and lets
other hosts send datagrams. Its history variables say what came of the last frame
over the UART: with `found`, the three bytes before it and its header; with
`intact`, all the rest as well. Bridge has how the tasks interleave; FramePath
has what they do to a frame.

A run-time composition of all modules would be out of TLC's reach. Each of
NodeTable, UartLink, UdpSocket, ScanManager and FramePath is one part of Bridge
looked at closely, and what Bridge leaves open is at least what they do: its nodes
may or may not be fresh, its lookups find any number of access points, its frames
may be refused.

The definitions with a suffix after the last underscore (`_NoWait`,
`_OffByOne`, `_TooFew`, ...) are not part of any specification: each is a
plausible bug in the definition that follows it, and shows that a property can
fail.

## 3. The runs

| Run | Checks | Shows |
|---|---|---|
| `MCBufferPool` | TypeOK, Conservation, DirtyOnlyWhileWiping | buffers are never lost or shared; the window between push and bzero is the only source of dirty free buffers |
| `MCBridge` | TypeOK, Conservation, LearnedDestinations, OhNoMeansUnderflow, ImplementsPool, ImplementsChannel | each buffer is in one place; the tasks use the pool as its header allows, across a restart too; it never overflows; unicast frames are forwarded only to where their destination was heard; LocalTalk to UDP is one FIFO channel, nothing reordered or lost inside |
| `MCBridgeLive` | AcceptedIsSent, ReplyIsSent, DatagramIsWritten, StarvationEnds | no cycle of blocked tasks; a reply gets into a queue that LToUDP-rx keeps filling; an empty pool recovers |
| `MCBridgeZeroed` | FetchedIsZeroed: **violated** | `bp_fetch` can return old contents |
| `MCNodeTable` | TypeOK, NoFalseFresh, NoFalseStale, MaskIsForwarded | unlocked reads are harmless; mask and forwarding agree |
| `MCUartLink` | TypeOK, Lockstep, MaskInStep, AliveIsTold | TashTalk keeps in step with its writers and answers for the sender of each frame, and a clean reset mends what an overlapping one broke |
| `MCUartLinkReset` | ResetReachesKnownState: **violated** | a reset overlapping a message leaves TashTalk adrift |
| `MCUdpSocket` | TypeOK, NoSocketLeaks, PublishedWorks, Reconnects | failures leak nothing and are recovered from |
| `MCUdpSocketReady` | ReadyMeansConfigured: **violated** | the unassigned results of `setsockopt` |
| `MCScanManager` | TypeOK, NoLeak, ReadsAreSafe, PublishedIsFilled, EventsBounded, ReadyIsTrue, LookupIsFollowedByScan, Reconnects | two tasks may scan at once: results are neither lost nor freed twice nor read when freed, and uninitialised ones are published only when two scans overlap; the handler always gets back to reconnecting |
| `MCBoot` | TypeOK, NeverMixed, RecoveryIsOwed, BootUsesSaved, PressIsAnswered | settings are mixed only by a reset within a store or a failed write; recovery mode lasts one boot; settings that fit are used; a held button is answered |
| `MCFramePath` | FramesArrive, NoRemainsWritten | a frame that came over the UART whole arrives byte for byte whatever came before; what lost a byte is not written, unless the length field cannot tell it from a whole frame |

### Bounds

- *Bridge.* The code has 180 buffers and three queues of 60. Queues of one and
  two to four buffers keep the ratio: the pool runs dry when queues fill up,
  and buffers come round to be reused after a few steps. The liveness run has
  four, so that APPS and LToUDP-rx can both hold a buffer for a full UDPtoUART
  while another frame waits behind APPS. It takes no account of the moment
  between push and bzero (`PromptNext`: a buffer is zeroed before another task
  runs), which the safety runs have and no wait depends on. The safety run has
  two buffers, which makes an empty pool common, and more kinds of frames
  (`LTTraffic`, `IPTraffic`): a node on each side that talks to the other, a
  lookup, a configuration request, a frame UART_TX refuses; `MaxReplies` of two
  lets APPS meet a full queue in the middle of a scan. The order of frames needs
  two in the channel, which the two queues of one place have between them.
  `Lookups` and `Datagrams` carry source 0, which `nt_touch` ignores, where the
  tables do not matter; in the liveness run lookups come from both sides.
  `Silence` closes a direction.
- *BufferPool.* Three holders and three buffers: one may fetch what a second is
  still zeroing while a third has a frame.
- *NodeTable.* `FreshCutoff` 4, `MaskCutoff` 2 (half, as in the code), a clock
  to 7: all comparisons are met below, at and above their boundaries, and the
  clock passes the cutoff, where the test for a young clock stops applying.
- *UartLink.* Two mask bytes with a node each, and a reset at the third
  handshake (`HandshakeLimit` 2): a change can be in either byte, both or none.
- *UdpSocket.* Two descriptors: a leak of two would use them up.
- *ScanManager.* One access point at most, and three blocks of memory: one
  published and one for each scanner, which is all that can be in use. Which free
  block malloc returns makes no difference, so the run takes one of them
  (`OneFree`). There is an SSID; without one, the station never connects.
- *Boot.* Two settings: an open network whose SSID just fits every buffer, and
  strings of 70, which a configuration packet cuts to 63 and the form to 32 and
  64. Read back through buffers of 32 and 64, the SSID of either is too long,
  and the password only as the form has cut it. NeverMixed needs two settings
  that differ in both strings. Nothing else is bounded: there may be any number
  of resets.
- *FramePath.* A buffer of 31 bytes instead of 605, and strings of one character
  for "AirTalkAP" and "airtalk setap"; two frames, since the effect of a lost byte
  on the next frame is what the parser is about, drawn from nine: ENQ and RTS, data
  with the bytes 0 and 253 that the escapes use, lookups with a short and a long
  header and one with a string that overruns the packet, a configuration request,
  a frame too long for a buffer, and one that has a frame inside it, behind a 0 and a
  253. Seven datagrams: a control frame, a header alone, lengths that are right, too
  large, and too long for a buffer, among these one that claims what is left of it when
  it has been cut. `MaxLost` is one byte: with two, NoRemainsWritten says nothing of
  what a node sent. The proofs have none of these bounds.

### Fairness

The scheduler is FreeRTOS, outside the repository, and what is assumed of it is
what FreeRTOS documents. Every task has weak fairness on its own steps: FreeRTOS
runs a task that can run, time-slicing those of one priority. APPS and LToUDP-rx also compete for
places in UDPtoUART. A blocked sender is in that queue's list of waiting tasks,
ordered by priority and then by arrival; when a place becomes free the first is
woken. The two sends therefore have strong fairness. This is an idealisation of
one thing: a running task may still take the place before the woken one runs,
which then waits again; that this happens for ever is excluded by the assumption.

Nothing is assumed of the networks: no frame need arrive, and `UartRxBytes`,
`UartRxAbort` and `UdpRxDatagram` have no fairness. UART_RX polls for a buffer
without a place in any queue, so it may be overtaken for ever by LToUDP-rx;
StarvationEnds is therefore conditional on UDP falling silent. Without that
condition it is false. In UdpSocket LToUDP-rx has weak fairness (that it is not
blocked for ever elsewhere is DatagramIsWritten), and Reconnects is conditional
on the network and the stack staying up.

In ScanManager each task has weak fairness, and the mutex serves whoever waits
for it (strong fairness of the two acquisitions: a FreeRTOS mutex wakes the first of
those that wait, with the same idealisation as above). The driver ends every
scan. That APPS gets its replies away, and so gives the lock back, is ReplyIsSent in
Bridge. Nothing is assumed of the radio or of LocalTalk.

In Boot the three tasks have weak fairness. `trouble` and users have none:
BootUsesSaved is about boots without trouble, and PressIsAnswered supposes that
trouble ends and that configuration packets, each of which restarts the bridge,
cease.

### What the violated properties say

- *The pool is not quite thread-safe.* `bp_relinquish` should zero the buffer
  before it pushes the pointer. As it is, a task that fetches in the window gets
  a buffer that still has its old length (FetchedIsZeroed; to `feed`, which
  appends, that is a corrupt frame), and what it writes there can be wiped. It
  needs the pool to be nearly empty, since its queue is FIFO.
  DirtyOnlyWhileWiping shows that there is no other way.
- *Two writers on one UART.* The reset and a frame are not kept apart
  (ResetReachesKnownState). Lockstep says what is true: without an overlap
  they agree, and the next clean reset repairs the damage.
- *Unassigned results* in `init_udp` (ReadyMeansConfigured).

### What the other properties leave out

Each of these is a condition in a property that holds, and would not hold without
it.

- AliveIsTold and MaskInStep except a reset that has read a byte of the mask just
  while `nt_serialise` refilled it (`torn`): `changed` compares with the packet and not with
  what TashTalk was sent, so the mask then stays wrong until a node appears or goes
  stale.
- NoFalseFresh takes the cutoff to be inclusive: the test `now <= cutoff`
  (`node_table.c:23`) counts a node last heard exactly `cutoff` seconds ago, at
  second 0, as fresh. One second, harmless.
- PublishedIsFilled excepts overlapping scans: the second
  `esp_wifi_scan_get_ap_records` then finds the driver's list empty, its result is
  not looked at, and a list of uninitialised records is published.
- ScanManager's Reconnects asks that the handler tries to connect. When
  `esp_wifi_connect` itself refuses (`wifi.c:35`, `wifi.c:42`), no event follows, and
  the station stays idle.
- MaskIsForwarded covers the `FreshCutoff - MaskCutoff` seconds after the mask was
  computed. An idle bridge does not compute it again, and TashTalk goes on answering
  for nodes gone stale.
- LearnedDestinations asks whether a destination was ever heard, not whether it is
  still fresh when the frame is sent.
- PublishedWorks says that a published socket is bound and has joined the group; the
  two options whose results are lost are ReadyMeansConfigured's.
- NeverMixed excepts a store that is cut short, by the power or by the listener's
  restart, and writes that fail, whose results `store_wifi_details` ignores.
- BootUsesSaved excepts settings that the form accepts and `init_at_wifi` cannot
  read back: an SSID of 32 characters, a key of 64.
- FramesArrive needs the three bytes before a frame, no fewer: with two, a lost 255
  right before the end marker hides the marker.
- NoRemainsWritten is about at most one lost byte, in a frame that LLAP allows and
  whose header came over the UART (`found`), and even so it has two exceptions. Losing
  the 0 of the pair 0, 255 leaves a frame of the right length in which a zero has become
  255 (`Alike`); its CRC is wrong, but that is only logged (`tashtalk.c:91`), and the
  other end computes a right one. If a frame has a 0 followed by 250, 253 or 254, and
  the 255 between them is lost, the parser sees a marker: what follows is taken for a
  frame of its own, and written if it claims its length (`Remnant`). Every other damage
  is caught by the length field (`tashtalk.c:164`). Two lost bytes can slip through, and
  so can a frame glued to the remains of one whose end was lost. A datagram that is too
  long is cut at the size of a buffer (`ip.c:145`), and written if it claims the length
  that remains.

## 4. The proofs

The proofs assume the named assumptions of the modules: a pool of at least one
buffer, queues of at least one place, frames with byte-sized addresses,
node numbers below 256, `MaskCutoff <= FreshCutoff`, settings of byte-sized
lengths, frames and datagrams made of bytes, replies that fit a buffer (an SSID has
at most 32 bytes). TableIsPolynomial says that the table of `crc.c` is that of the
polynomial, entry by entry. TLC evaluates them all in the runs, TableIsPolynomial
for the code's own table. None restricts the values the code uses.

- **BufferPoolProofs**: PoolTypeOK, PoolConservation, PoolDirtyOnlyWhileWiping,
  for any number of buffers and any clients. It begins with what appending to and
  taking from a queue of distinct pointers does, and that a queue of distinct
  numbers from 1 .. n that lacks one of them has room for it (by counting). The
  invariant adds to Conservation that nobody has a buffer in hand while zeroing
  another; the last lemma shows why it is needed: the capacity check in
  `bp_relinquish` succeeds because the caller's buffer is not among those in the
  pool.
- **BridgeProofs**: BridgeImplementsPool shows by cases over every action that a
  step of the bridge is a step of BufferPool or leaves the pool alone, with the
  buffers in the queues as those that are `away`. BridgeConservation follows
  from this and from the queues being free of repetitions, BridgeOhNo from the
  overflow branch being unreachable. The invariant is TypeOK (with the agreement
  of program counters and pointers), QueuesExclusive and the pool's invariant.
  They hold for any pool, queue length, traffic and number of replies, thus for
  180 and 60.
  ImplementsChannel is a refinement, BridgeImplementsChannel its proof: the
  frames of the channel are those of two queues and three hands, joined, and each
  action moves one frame across a seam, appends one, takes one or leaves them
  alone (the lemmas MoveInto, MoveAcross and MoveBack).
  BridgeLearnedDestinations says that a unicast frame in a queue or a hand
  has a destination in the other side's table.
- **NodeTableProofs**: NodeTableTypeOK, FreshIsTrue, StaleIsTrue, MaskGrace, for
  all cutoffs, the code's 3600 and 1800 among them. The invariant relates the
  table to the history of touches (TableInv), what `nt_fresh` has read so far to
  what it may still read (ReaderInv), and the mask to the table it was computed
  from (MaskInv). That there is a single writer is essential.
- **UartLinkProofs**: LinkTypeOK, LinkLockstep, LinkMaskInStep, LinkAliveIsTold.
  The invariant adds that two writers amid their messages are remembered as a
  tangle, what TashTalk has of the mask while either writes it, and what a reset
  under way has sent of it so far (SendInv).
- **UdpSocketProofs**: SocketTypeOK, SocketNeverLeaks, SocketWorks. The
  invariant adds how far `init_udp` has got with its socket.
- **ScanManagerProofs**: ScanTypeOK, ScanEventsBounded, ScanReadyIsTrue,
  ScanNoLeak, ScanReadsAreSafe, ScanPublishedIsFilled, for any number of access
  points and blocks. The invariant adds who may hold the lock where, that the blocks
  in use are the published one and those of scans under way, all different, and that
  the driver still has what an untainted scanner has counted.
- **BootProofs**: BootTypeOK, BootNeverMixed, BootRecoveryIsOwed, for whatever
  settings users type. NeverMixed is not inductive: Stored adds what the keys hold at
  each step of a store, and Order that nobody stores before the tasks run.
  RecoveryIsOwed is an action property; OwedInv relates the flag, in the flash and
  in app_main's hands, to its having been asked for.
- **FramePathProofs**: WhatIsSentArrives and WritesNoRemains, for any frames and
  datagrams, any size of a buffer, any number of frames and any places of the losses.
  Neither property is inductive. The invariant says, in this order,
  - TypeOK (TypesHold): the packet never outgrows a buffer;
  - Sync (StaysInSync): three bytes after a loss the parser takes a byte for the
    second of an escape only if it is, whatever had been lost before;
  - Reading (ReadsFrames): at every byte of a frame of which nothing was lost, the
    packet is what has been read of it and the line is the rest;
  - Damage (KnowsTheDamage): all that can be left after one loss. The packet has
    what was read (`Got`), with a zero misread, or only what follows a false marker,
    or too few bytes; or the parser is at the loss (`ZeroLost`, `EscapeLost`); or the
    frame's end is gone (`Ended`);
  - Carrying (CarriesFrames): how each task changes the frame it is given, for those
    that come from nodes, from other hosts and from APPS.

  The bytes on the line and the registers of the CRC are recursive functions of the
  frame. What they are at every place is shown by taking the least place where that
  fails (`Least`, `Upward`, from WFMin of the library), which is induction without
  a theorem that takes an operator. FcsIsRight is the one use of the polynomial: the
  CRC of a frame and its own FCS is 61624, the number `tashtalk_tx_validate` asks
  for. TLC checked the whole invariant on MCFramePath's instance before it was proved.

Every invariant and action property of the passing runs is proved. The liveness
properties are out of the prover's reach, BootUsesSaved among them, and only
model-checked.

## 5. What is not modelled, and the plan

Not modelled: LED blinking, ethernet and pin numbers, the access point and web
server of recovery mode (set-up calls without a state of their own), driver
set-up, allocation failures at boot, logging; CRC-32, which only numbers the
access points in replies, a number nobody reads. The bytes 10 to 13 of a reply are
all the low byte of that number, since `>>` binds closer than `&` in
`apps.c:69-72`; Packets has them so. `skip_pstring` serves tuples after the first,
which nobody asks for.

Not covered by a property, though modelled: LLAP control frames are sent as
datagrams of seven bytes, which `ip.c:154` drops at the other end.

Next would be: the window at boot in which the event
handler could take a mutex that `start_scan_manager` has not created yet
(`main.c:72`, `main.c:80`); and the address of the multicast interface, which the
socket keeps when the station gets another (`ip.c:90`).
