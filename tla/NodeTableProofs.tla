--------------------------- MODULE NodeTableProofs ---------------------------
(***************************************************************************)
(* The answers of nt_fresh and the mask of nt_serialise are right for      *)
(* every cutoff, every set of nodes and every interleaving of the two      *)
(* tasks that share a node table.                                          *)
(***************************************************************************)
EXTENDS NodeTable, TLAPS

Touching == tx_node # NoNode /\ ~Ignored(tx_node)

\* What the store order of nt_touch keeps true of the table.
TableInv ==
    /\ mask_time <= now /\ tx_time <= now
    /\ \A n \in Nodes :
        /\ last_seen[n] <= now
        /\ started[n] <= now
        /\ started[n] # Never => last_seen[n] <= started[n]
        /\ n \in seen_at_all => started[n] # Never
        /\ finished[n] # Never => n \in seen_at_all /\ finished[n] <= last_seen[n]
    /\ Touching =>
        /\ started[tx_node] = tx_time
        /\ last_seen[tx_node] <= tx_time
        /\ "last_seen" \notin tx_pending => last_seen[tx_node] = tx_time
        /\ "seen_at_all" \notin tx_pending => tx_node \in seen_at_all
    /\ tx_pending # {} => Touching

\* What a reader in the middle of nt_fresh can rely on.
ReaderInv ==
    rx.pc # "idle" =>
        /\ rx.known # Never =>
             rx.node \in seen_at_all /\ rx.known <= last_seen[rx.node]
        /\ rx.pc = "last" => rx.node \in seen_at_all

\* A node in the mask was recent by MaskCutoff when the mask was computed.
MaskInv ==
    \A n \in nodebits : n \in seen_at_all /\ Recent(mask_time, last_seen[n], MaskCutoff)

IInv == TypeOK /\ TableInv /\ ReaderInv /\ MaskInv /\ NoFalseFresh /\ NoFalseStale

\* The mark for "no touch under way" is not a node number.
LEMMA NoNodeIsNoNode == NoNode \notin Nodes /\ Nodes \subseteq Int
  BY NodesAssumption DEF NoNode

\* An empty table satisfies the invariant.
LEMMA InitIInv == Init => IInv
  BY MaxTimeAssumption
     DEF Init, IInv, TypeOK, Times, TableInv, ReaderInv, MaskInv, NoFalseFresh,
         NoFalseStale, Touching, Idle, Never, NoNode

-----------------------------------------------------------------------------
\* Every step keeps the types.
LEMMA NextTypeOK == ASSUME IInv, [Next]_vars PROVE TypeOK'
<1>1. TypeOK /\ (tx_pending # {} => Touching)
  BY DEF IInv, TableInv
<1> USE MaxTimeAssumption DEF TypeOK, Times, table, touch, history
<1>2. CASE Tick
  BY <1>1, <1>2 DEF Tick
<1>3. ASSUME NEW n \in Nodes, TouchBegin(n) PROVE TypeOK'
  BY <1>1, <1>3 DEF TouchBegin
<1>4. CASE StoreLastSeen
  BY <1>1, <1>4 DEF StoreLastSeen, Touching
<1>5. CASE StoreSeenAtAll
  BY <1>1, <1>5 DEF StoreSeenAtAll, Touching
<1>6. CASE Serialise
  BY <1>1, <1>6 DEF Serialise, nt_serialise
<1>7. ASSUME NEW n \in Nodes, FreshBegin(n) PROVE TypeOK'
  BY <1>1, <1>7 DEF FreshBegin
<1>8. ASSUME UNCHANGED <<now, table, nodebits, touch, history>>,
             rx' \in {Idle} \cup [pc : {"seen", "last", "fresh", "stale"}, node : Nodes,
                                 time : Times, known : Times \cup {Never}]
      PROVE  TypeOK'
  BY <1>1, <1>8
<1>9. CASE FreshReadSeen \/ FreshReadLast
  <2>1. rx \in [pc : {"seen", "last", "fresh", "stale"}, node : Nodes,
               time : Times, known : Times \cup {Never}]
    <3>1. rx.pc # "idle"
      BY <1>9 DEF FreshReadSeen, FreshReadLast
    <3>2. rx # Idle
      BY <3>1 DEF Idle
    <3> QED
      BY <1>1, <3>2
  <2> QED
    BY <1>8, <1>9, <2>1 DEF FreshReadSeen, FreshReadLast, Answer
<1>10. CASE FreshReturn
  BY <1>8, <1>10 DEF FreshReturn
<1>11. CASE UNCHANGED vars
  BY <1>1, <1>11 DEF vars
<1> QED
  BY <1>2, <1>3, <1>4, <1>5, <1>6, <1>7, <1>9, <1>10, <1>11 DEF Next, UartTx, UartRx

\* The writer's steps.  Only one task touches a table, so a touch that is under way
\* is never overtaken by a later one.
LEMMA NextTableInv == ASSUME IInv, [Next]_vars PROVE TableInv'
<1>1. TypeOK /\ TableInv /\ TypeOK'
  BY NextTypeOK DEF IInv
<1> USE NoNodeIsNoNode DEF TypeOK, Times, TableInv, Touching, table, touch, history,
        Never, Ignored
<1>2. CASE Tick
  BY <1>1, <1>2 DEF Tick
<1>3. ASSUME NEW n \in Nodes, TouchBegin(n) PROVE TableInv'
  BY <1>1, <1>3 DEF TouchBegin, NoNode
<1>4. CASE StoreLastSeen
  BY <1>1, <1>4 DEF StoreLastSeen
<1>5. CASE StoreSeenAtAll
  BY <1>1, <1>5 DEF StoreSeenAtAll
<1>6. CASE Serialise
  BY <1>1, <1>6 DEF Serialise
<1>7. CASE UNCHANGED <<now, table, nodebits, touch, history>>
  BY <1>1, <1>7
<1> QED
  BY <1>2, <1>3, <1>4, <1>5, <1>6, <1>7
     DEF Next, UartTx, UartRx, FreshBegin, FreshReadSeen, FreshReadLast, FreshReturn, vars

\* The table only gains nodes and later times.
LEMMA TableGrows ==
    ASSUME IInv, [Next]_vars
    PROVE  /\ seen_at_all \subseteq seen_at_all'
           /\ \A n \in Nodes : last_seen[n] <= last_seen'[n]
           /\ \A n \in Nodes : started[n] <= started'[n]
<1>1. TypeOK /\ TableInv
  BY DEF IInv
<1> USE DEF TypeOK, Times, TableInv, Touching, table, touch, history, Never
<1>2. CASE StoreLastSeen
  BY <1>1, <1>2 DEF StoreLastSeen
<1>3. ASSUME NEW n \in Nodes, TouchBegin(n)
      PROVE  /\ UNCHANGED table
             /\ \A m \in Nodes : started[m] <= started'[m]
  BY <1>1, <1>3 DEF TouchBegin
<1>4. CASE UNCHANGED <<last_seen, started>> /\ seen_at_all \subseteq seen_at_all'
  BY <1>1, <1>4
<1>5. CASE StoreSeenAtAll
  BY <1>4, <1>5 DEF StoreSeenAtAll
<1>6. CASE Tick \/ Serialise
  BY <1>4, <1>6 DEF Tick, Serialise
<1>7. CASE UartRx \/ UNCHANGED vars
  BY <1>4, <1>7 DEF UartRx, FreshBegin, FreshReadSeen, FreshReadLast, FreshReturn, vars
<1> QED
  BY <1>1, <1>2, <1>3, <1>5, <1>6, <1>7 DEF Next, UartTx

-----------------------------------------------------------------------------
\* While nt_fresh has not returned, its record has all four fields.
LEMMA ReadingRecord ==
    ASSUME TypeOK, rx.pc # "idle"
    PROVE  /\ rx \in [pc : {"seen", "last", "fresh", "stale"}, node : Nodes,
                     time : Times, known : Times \cup {Never}]
           /\ rx.node \in Nodes /\ rx.time \in Int /\ rx.known \in Int
<1>1. rx # Idle
  BY DEF Idle
<1>2. rx \in [pc : {"seen", "last", "fresh", "stale"}, node : Nodes,
             time : Times, known : Times \cup {Never}]
  BY <1>1 DEF TypeOK
<1>3. Times \subseteq Int /\ Never \in Int
  BY MaxTimeAssumption DEF Times, Never
<1> QED
  BY <1>2, <1>3

\* The reader's steps.
LEMMA NextReader ==
    ASSUME IInv, [Next]_vars
    PROVE  ReaderInv' /\ NoFalseFresh' /\ NoFalseStale'
<1>1. TypeOK /\ TableInv /\ ReaderInv /\ NoFalseFresh /\ NoFalseStale
  BY DEF IInv
<1>2. \A n \in Nodes : /\ last_seen[n] \in Int /\ last_seen'[n] \in Int
                      /\ started[n] \in Int /\ started'[n] \in Int
  BY <1>1, NextTypeOK, MaxTimeAssumption DEF TypeOK, Times, Never
<1>3. FreshCutoff \in Int
  BY CutoffAssumption
<1>4. CASE UNCHANGED rx
  <2>1. CASE rx.pc = "idle"
    BY <1>4, <2>1 DEF ReaderInv, NoFalseFresh, NoFalseStale
  <2>2. CASE rx.pc # "idle"
    <3>1. rx.node \in Nodes /\ rx.time \in Int /\ rx.known \in Int
      BY <1>1, <2>2, ReadingRecord
    <3>2. ReaderInv'
      BY <1>1, <1>2, <1>4, <3>1, TableGrows DEF ReaderInv
    <3>3. NoFalseFresh'
      <4>1. started[rx.node] # Never => started'[rx.node] # Never
        BY <1>1, <1>2, <3>1, TableGrows, MaxTimeAssumption DEF TypeOK, Times, Never
      <4> QED
        BY <1>1, <1>2, <1>3, <1>4, <3>1, <4>1, TableGrows DEF NoFalseFresh
    <3>4. NoFalseStale'
      BY <1>1, <1>4 DEF NoFalseStale
    <3> QED
      BY <3>2, <3>3, <3>4
  <2> QED
    BY <2>1, <2>2
<1>5. ASSUME NEW n \in Nodes, FreshBegin(n)
      PROVE  ReaderInv' /\ NoFalseFresh' /\ NoFalseStale'
  <2>1. /\ rx'.pc = "seen" /\ rx'.node = n /\ rx'.known = finished[n]
        /\ UNCHANGED table
    BY <1>5 DEF FreshBegin
  <2> QED
    BY <1>1, <2>1 DEF ReaderInv, NoFalseFresh, NoFalseStale, TableInv, table
<1>6. CASE FreshReadSeen \/ FreshReadLast
  <2>1. /\ rx.node \in Nodes /\ rx.time \in Int /\ rx.known \in Int
        /\ rx \in [pc : {"seen", "last", "fresh", "stale"}, node : Nodes,
                   time : Times, known : Times \cup {Never}]
        /\ UNCHANGED <<table, started>>
    BY <1>1, <1>6, ReadingRecord DEF FreshReadSeen, FreshReadLast, history
  <2>2. rx'.node = rx.node /\ rx'.time = rx.time /\ rx'.known = rx.known
    BY <1>6, <2>1 DEF FreshReadSeen, FreshReadLast, Answer
  <2>3. CASE FreshReadSeen
    <3>1. rx'.pc = IF rx.node \in seen_at_all THEN "last" ELSE "stale"
      BY <2>1, <2>3 DEF FreshReadSeen, Answer
    <3> QED
      BY <1>1, <2>1, <2>2, <2>3, <3>1
         DEF FreshReadSeen, ReaderInv, NoFalseFresh, NoFalseStale, table
  <2>4. CASE FreshReadLast
    <3>1. rx'.pc = IF Recent(rx.time, last_seen[rx.node], FreshCutoff)
                   THEN "fresh" ELSE "stale"
      BY <2>1, <2>4 DEF FreshReadLast, Answer
    <3>2. /\ rx.node \in seen_at_all
          /\ rx.known # Never => rx.known <= last_seen[rx.node]
          /\ started[rx.node] # Never /\ last_seen[rx.node] <= started[rx.node]
          /\ last_seen[rx.node] >= 0
      BY <1>1, <2>1, <2>4, MaxTimeAssumption
         DEF FreshReadLast, ReaderInv, TableInv, TypeOK, Times
    <3>3. ReaderInv'
      BY <1>1, <2>1, <2>2, <2>4, <3>1, <3>2 DEF FreshReadLast, ReaderInv, table
    <3>4. NoFalseFresh'
      <4>1. Recent(rx.time, last_seen[rx.node], FreshCutoff)
              => started[rx.node] >= rx.time - FreshCutoff
        BY <1>2, <1>3, <2>1, <3>2 DEF Recent
      <4> QED
        BY <2>1, <2>2, <3>1, <3>2, <4>1 DEF NoFalseFresh
    <3>5. NoFalseStale'
      <4>1. ~Recent(rx.time, last_seen[rx.node], FreshCutoff) /\ rx.known # Never
              => rx.known <= rx.time - FreshCutoff
        BY <1>2, <1>3, <2>1, <3>2 DEF Recent
      <4> QED
        BY <2>2, <3>1, <4>1 DEF NoFalseStale
    <3> QED
      BY <3>3, <3>4, <3>5
  <2> QED
    BY <1>6, <2>3, <2>4
<1>7. CASE FreshReturn
  BY <1>7 DEF FreshReturn, Idle, ReaderInv, NoFalseFresh, NoFalseStale
<1> QED
  BY <1>4, <1>5, <1>6, <1>7
     DEF Next, UartTx, UartRx, Tick, TouchBegin, StoreLastSeen, StoreSeenAtAll,
         Serialise, vars

\* The mask was right when it was computed, and the table only grows.
LEMMA NextMaskInv == ASSUME IInv, [Next]_vars PROVE MaskInv'
<1>1. TypeOK /\ TableInv /\ MaskInv
  BY DEF IInv
<1>2. CASE Serialise
  BY <1>2 DEF Serialise, nt_serialise, MaskInv, table
<1>3. CASE UNCHANGED <<nodebits, mask_time>>
  <2>1. nodebits \subseteq Nodes /\ mask_time \in Int /\ MaskCutoff \in Int
    BY <1>1, CutoffAssumption, MaxTimeAssumption DEF TypeOK, Times
  <2>2. \A n \in Nodes : last_seen[n] \in Int /\ last_seen'[n] \in Int
    BY <1>1, NextTypeOK, MaxTimeAssumption DEF TypeOK, Times
  <2> QED
    BY <1>1, <1>3, <2>1, <2>2, TableGrows DEF MaskInv, Recent
<1> QED
  BY <1>2, <1>3 DEF Next, UartTx, UartRx, Tick, TouchBegin, StoreLastSeen,
     StoreSeenAtAll, FreshBegin, FreshReadSeen, FreshReadLast, FreshReturn, vars, history

\* The invariant holds for ever.
LEMMA Invariance == Spec => []IInv
<1>1. IInv /\ [Next]_vars => IInv'
  BY NextTypeOK, NextTableInv, NextReader, NextMaskInv DEF IInv
<1> QED
  BY <1>1, InitIInv, PTL DEF Spec

-----------------------------------------------------------------------------
\* The variables of the node table keep their types.
THEOREM NodeTableTypeOK == Spec => []TypeOK
<1>1. IInv => TypeOK
  BY DEF IInv
<1> QED
  BY <1>1, Invariance, PTL

\* nt_fresh never calls a node fresh that was not touched within the cutoff.
THEOREM FreshIsTrue == Spec => []NoFalseFresh
<1>1. IInv => NoFalseFresh
  BY DEF IInv
<1> QED
  BY <1>1, Invariance, PTL

\* nt_fresh never misses a completed touch within the cutoff.
THEOREM StaleIsTrue == Spec => []NoFalseStale
<1>1. IInv => NoFalseStale
  BY DEF IInv
<1> QED
  BY <1>1, Invariance, PTL

\* A node in TashTalk's mask is forwarded for at least FreshCutoff - MaskCutoff
\* seconds after the mask was computed, half an hour with the code's cutoffs.
THEOREM MaskGrace == Spec => []MaskIsForwarded
<1>1. IInv => MaskIsForwarded
  <2> SUFFICES ASSUME IInv, now <= mask_time + (FreshCutoff - MaskCutoff),
                      NEW n \in nodebits
               PROVE  n \in seen_at_all /\ Recent(now, last_seen[n], FreshCutoff)
    BY DEF MaskIsForwarded
  <2>1. /\ n \in seen_at_all
        /\ mask_time <= MaskCutoff \/ last_seen[n] > mask_time - MaskCutoff
    BY DEF IInv, MaskInv, Recent
  <2>2. /\ now \in Int /\ mask_time \in Int /\ last_seen[n] \in Int
        /\ FreshCutoff \in Int /\ MaskCutoff \in Int
    BY CutoffAssumption, MaxTimeAssumption DEF IInv, TypeOK, Times
  <2> QED
    BY <2>1, <2>2 DEF Recent
<1> QED
  BY <1>1, Invariance, PTL
=============================================================================
