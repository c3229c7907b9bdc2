--------------------------- MODULE BufferPoolProofs ---------------------------
(***************************************************************************)
(* The buffer pool neither duplicates nor loses a buffer, for any number   *)
(* of buffers and any clients that keep to its interface.                  *)
(***************************************************************************)
EXTENDS BufferPool, Integers, Sequences, Functions, FiniteSets,
        SequenceTheorems, FiniteSetTheorems, TLAPS

-----------------------------------------------------------------------------
(* Sequences without repetition, the shape of every queue of pointers.      *)

\* Sending adds its element to those of the queue.
LEMMA AppendRange ==
    ASSUME NEW S, NEW s \in Seq(S), NEW x \in S
    PROVE  Range(Append(s, x)) = Range(s) \cup {x}
<1>1. DOMAIN Append(s, x) = 1 .. Len(s) + 1 /\ DOMAIN s = 1 .. Len(s)
  OBVIOUS
<1>2. \A i \in 1 .. Len(s) : Append(s, x)[i] = s[i]
  OBVIOUS
<1>3. Append(s, x)[Len(s) + 1] = x
  OBVIOUS
<1>4. Len(s) \in Nat
  OBVIOUS
<1>5. 1 .. Len(s) + 1 = (1 .. Len(s)) \cup {Len(s) + 1}
  BY <1>4
<1> QED
  BY <1>1, <1>2, <1>3, <1>5 DEF Range

\* Sending a new element keeps a queue free of repetitions.
LEMMA AppendDistinct ==
    ASSUME NEW S, NEW s \in Seq(S), NEW x \in S, IsInjective(s), x \notin Range(s)
    PROVE  IsInjective(Append(s, x))
<1>1. \A i, j \in DOMAIN Append(s, x) : Append(s, x)[i] = Append(s, x)[j] => i = j
  BY DEF IsInjective, Range
<1> QED
  BY <1>1 DEF IsInjective

\* Receiving removes exactly one element, and keeps a queue free of repetitions.
LEMMA TailRange ==
    ASSUME NEW S, NEW s \in Seq(S), s # <<>>, IsInjective(s)
    PROVE  /\ Head(s) \in Range(s)
           /\ Head(s) \in S
           /\ Tail(s) \in Seq(S)
           /\ Range(Tail(s)) = Range(s) \ {Head(s)}
           /\ IsInjective(Tail(s))
<1>1. /\ Len(s) \in Nat /\ Len(s) >= 1
      /\ DOMAIN s = 1 .. Len(s)
      /\ Head(s) = s[1]
  BY EmptySeq
<1>2. /\ Tail(s) \in Seq(S)
      /\ DOMAIN Tail(s) = 1 .. Len(s) - 1
      /\ \A i \in 1 .. Len(s) - 1 : Tail(s)[i] = s[i + 1]
  BY HeadTailProperties, LenProperties, <1>1
<1>3. Head(s) \in Range(s) /\ Head(s) \in S
  BY <1>1 DEF Range
<1>4. \A i \in 1 .. Len(s) - 1 : s[i + 1] # s[1]
  BY <1>1 DEF IsInjective
<1>5. Range(Tail(s)) \subseteq Range(s) \ {Head(s)}
  BY <1>1, <1>2, <1>4 DEF Range
<1>6. ASSUME NEW y \in Range(s) \ {Head(s)} PROVE y \in Range(Tail(s))
  <2>1. PICK i \in 1 .. Len(s) : s[i] = y
    BY <1>1 DEF Range
  <2>2. i - 1 \in 1 .. Len(s) - 1
    BY <1>1, <2>1
  <2>3. Tail(s)[i - 1] = y
    BY <1>2, <2>1, <2>2
  <2> QED
    BY <1>2, <2>2, <2>3 DEF Range
<1>7. IsInjective(Tail(s))
  <2>1. SUFFICES ASSUME NEW i \in 1 .. Len(s) - 1, NEW j \in 1 .. Len(s) - 1,
                        Tail(s)[i] = Tail(s)[j]
                 PROVE  i = j
    BY <1>2 DEF IsInjective
  <2>2. s[i + 1] = s[j + 1]
    BY <1>2, <2>1
  <2>3. i + 1 \in DOMAIN s /\ j + 1 \in DOMAIN s
    BY <1>1
  <2>4. i + 1 = j + 1
    BY <2>2, <2>3 DEF IsInjective
  <2> QED
    BY <2>4
<1> QED
  BY <1>2, <1>3, <1>5, <1>6, <1>7

\* A queue of distinct numbers from 1 .. n that lacks one of them has room for
\* it in a capacity of n.
LEMMA RoomForTheMissing ==
    ASSUME NEW n \in Nat, NEW s \in Seq(1 .. n), IsInjective(s),
           NEW x \in (1 .. n) \ Range(s)
    PROVE  Len(s) < n
<1> DEFINE T == (1 .. n) \ {x}
<1>1. IsFiniteSet(1 .. n) /\ Cardinality(1 .. n) = n
  BY FS_Interval
<1>2. IsFiniteSet(T) /\ Cardinality(T) = n - 1
  BY <1>1, FS_RemoveElement
<1>3. Len(s) \in Nat /\ DOMAIN s = 1 .. Len(s)
  BY LenProperties
<1>4. IsFiniteSet(1 .. Len(s)) /\ Cardinality(1 .. Len(s)) = Len(s)
  <2>1. \A k \in Nat : IsFiniteSet(1 .. k) /\ Cardinality(1 .. k) = k
    BY FS_Interval
  <2> QED
    BY <2>1, <1>3
<1>5. s \in [1 .. Len(s) -> T]
  <2>1. s \in [1 .. Len(s) -> 1 .. n]
    BY LenProperties
  <2>2. \A i \in 1 .. Len(s) : s[i] # x
    BY <1>3 DEF Range
  <2> QED
    BY <2>1, <2>2
<1>6. SUFFICES ASSUME Len(s) >= n PROVE FALSE
  BY <1>3
<1>7. Cardinality(T) < Cardinality(1 .. Len(s))
  BY <1>2, <1>4, <1>6, <1>3
<1>8. \E i, j \in 1 .. Len(s) : i # j /\ s[i] = s[j]
  BY <1>2, <1>4, <1>5, <1>7, FS_PigeonHole
<1> QED
  BY <1>3, <1>8 DEF IsInjective

\* Counting up to n without repetition.
LEMMA IotaInjective ==
    ASSUME NEW n \in Nat
    PROVE  /\ [i \in 1 .. n |-> i] \in Seq(1 .. n)
           /\ Range([i \in 1 .. n |-> i]) = 1 .. n
           /\ IsInjective([i \in 1 .. n |-> i])
<1> DEFINE s == [i \in 1 .. n |-> i]
<1>1. s \in Seq(1 .. n)
  OBVIOUS
<1>2. DOMAIN s = 1 .. n /\ \A i \in 1 .. n : s[i] = i
  OBVIOUS
<1> QED
  BY <1>1, <1>2 DEF Range, IsInjective

-----------------------------------------------------------------------------
(* The pool.                                                               *)

\* A holder in the second half of bp_relinquish holds nothing yet.
NotBoth == \A h \in Holders : hand[h] # Null => wiping[h] = Null

\* The inductive invariant.  Its parts lean on each other: that bp_relinquish
\* finds room follows from the buffer being nowhere else, and that fetching takes
\* the buffer from one place only follows from the pool having no repetition.
IInv == TypeOK /\ NotBoth /\ Exclusive /\ NoLeak

\* No buffer is numbered like the null pointer.
LEMMA NullIsNoBuffer == Null \notin Buffers
  BY BufferCountAssumption DEF Null, Buffers

\* Every boot starts with a pool that holds each buffer once.
LEMMA InitIInv == Init => IInv
<1> SUFFICES ASSUME Init PROVE IInv
  OBVIOUS
<1> USE DEF Init, new_buffer_pool
<1>1. /\ pool \in Seq(Buffers)
      /\ Range(pool) = Buffers
      /\ IsInjective(pool)
  BY BufferCountAssumption, IotaInjective DEF Buffers
<1>2. TypeOK
  BY <1>1, ContentsAssumption DEF TypeOK
<1>3. NotBoth /\ Exclusive /\ NoLeak
  BY <1>1 DEF NotBoth, Exclusive, NoLeak
<1> QED
  BY <1>2, <1>3 DEF IInv

\* What the pool looks like after a successful bp_fetch.
LEMMA FetchedPool ==
    ASSUME IInv, NEW h \in Holders, bp_fetch(h)
    PROVE  /\ Head(pool) \in Range(pool) /\ Head(pool) \in Buffers
           /\ pool' \in Seq(Buffers)
           /\ Range(pool') = Range(pool) \ {Head(pool)}
           /\ IsInjective(pool')
  BY TailRange DEF IInv, TypeOK, Exclusive, bp_fetch

\* A buffer somebody owns can always be put back: bp_relinquish never overflows.
LEMMA RelinquishedPool ==
    ASSUME IInv, NEW h \in Holders, hand[h] # Null, bp_relinquish(h)
    PROVE  /\ Len(pool) < BufferCount
           /\ pool' = Append(pool, hand[h])
           /\ pool' \in Seq(Buffers)
           /\ Range(pool') = Range(pool) \cup {hand[h]}
           /\ IsInjective(pool')
           /\ wiping' = [wiping EXCEPT ![h] = hand[h]]
           /\ UNCHANGED ohNo
<1> USE DEF IInv
<1>1. hand[h] \in Buffers \ Range(pool)
  BY DEF TypeOK, Exclusive
<1>2. pool \in Seq(Buffers) /\ IsInjective(pool)
  BY DEF TypeOK, Exclusive
<1>3. Len(pool) < BufferCount
  BY <1>1, <1>2, BufferCountAssumption, RoomForTheMissing DEF Buffers
<1>4. /\ pool' = Append(pool, hand[h])
      /\ wiping' = [wiping EXCEPT ![h] = hand[h]]
      /\ UNCHANGED ohNo
  BY <1>3 DEF bp_relinquish
<1>5. Append(pool, hand[h]) \in Seq(Buffers)
  BY <1>1, <1>2
<1> QED
  BY <1>1, <1>2, <1>3, <1>4, <1>5, AppendRange, AppendDistinct

\* Every step of every client preserves the invariant.
LEMMA NextIInv == IInv /\ [Next]_vars => IInv'
<1> SUFFICES ASSUME IInv, [Next]_vars PROVE IInv'
  OBVIOUS
<1> USE NullIsNoBuffer
<1>1. ASSUME NEW h \in Holders, Fetch(h) PROVE IInv'
  <2>1. CASE bp_fetch(h) /\ UNCHANGED ohNo
    <3>1. TypeOK'
      BY <1>1, <2>1, FetchedPool DEF IInv, TypeOK, Fetch, bp_fetch
    <3>2. NotBoth'
      BY <1>1, <2>1 DEF IInv, TypeOK, NotBoth, Fetch, Idle, bp_fetch
    <3>3. Exclusive'
      BY <1>1, <2>1, FetchedPool DEF IInv, TypeOK, Exclusive, Fetch, Idle, bp_fetch
    <3>4. NoLeak'
      BY <1>1, <2>1, FetchedPool DEF IInv, TypeOK, NoLeak, Fetch, Idle, bp_fetch
    <3> QED
      BY <3>1, <3>2, <3>3, <3>4 DEF IInv
  <2>2. CASE bp_fetch_underflow /\ UNCHANGED <<pool, hand>>
    BY <1>1, <2>2 DEF IInv, TypeOK, NotBoth, Exclusive, NoLeak, Fetch,
       bp_fetch_underflow
  <2> QED
    BY <1>1, <2>1, <2>2 DEF Fetch
<1>2. ASSUME NEW h \in Holders, NEW c \in Contents, FetchAndWrite(h, c) PROVE IInv'
  <2>1. TypeOK'
    BY <1>2, FetchedPool DEF IInv, TypeOK, FetchAndWrite, bp_fetch
  <2>2. NotBoth'
    BY <1>2 DEF IInv, TypeOK, NotBoth, FetchAndWrite, Idle, bp_fetch
  <2>3. Exclusive'
    BY <1>2, FetchedPool DEF IInv, TypeOK, Exclusive, FetchAndWrite, Idle, bp_fetch
  <2>4. NoLeak'
    BY <1>2, FetchedPool DEF IInv, TypeOK, NoLeak, FetchAndWrite, Idle, bp_fetch
  <2> QED
    BY <2>1, <2>2, <2>3, <2>4 DEF IInv
<1>3. ASSUME NEW h \in Holders, NEW c \in Contents, Write(h, c) PROVE IInv'
  BY <1>3 DEF IInv, TypeOK, NotBoth, Exclusive, NoLeak, Write
<1>4. ASSUME NEW h \in Holders, Post(h) PROVE IInv'
  <2>1. TypeOK' /\ NotBoth'
    BY <1>4 DEF IInv, TypeOK, NotBoth, Post, Owns
  <2>2. Exclusive'
    BY <1>4 DEF IInv, TypeOK, Exclusive, Post, Owns
  <2>3. NoLeak'
    BY <1>4 DEF IInv, TypeOK, NoLeak, Post, Owns
  <2> QED
    BY <2>1, <2>2, <2>3 DEF IInv
<1>5. ASSUME NEW h \in Holders, Collect(h) PROVE IInv'
  <2>1. PICK b \in away : /\ hand' = [hand EXCEPT ![h] = b]
                          /\ away' = away \ {b}
    BY <1>5 DEF Collect
  <2>2. TypeOK' /\ NotBoth'
    BY <1>5, <2>1 DEF IInv, TypeOK, NotBoth, Collect, Idle
  <2>3. Exclusive'
    BY <1>5, <2>1 DEF IInv, TypeOK, Exclusive, Collect, Idle
  <2>4. NoLeak'
    BY <1>5, <2>1 DEF IInv, TypeOK, NoLeak, Collect, Idle
  <2> QED
    BY <2>2, <2>3, <2>4 DEF IInv
<1>6. ASSUME NEW h \in Holders, Relinquish(h) PROVE IInv'
  <2>1. hand[h] # Null /\ bp_relinquish(h) /\ UNCHANGED <<data, away>>
    BY <1>6 DEF Relinquish, Owns
  <2>2. hand' = [hand EXCEPT ![h] = Null]
    BY <2>1 DEF bp_relinquish
  <2>3. TypeOK' /\ NotBoth'
    BY <2>1, <2>2, RelinquishedPool DEF IInv, TypeOK, NotBoth
  <2>4. Exclusive'
    BY <2>1, <2>2, RelinquishedPool DEF IInv, TypeOK, Exclusive
  <2>5. NoLeak'
    BY <2>1, <2>2, RelinquishedPool DEF IInv, TypeOK, NoLeak
  <2> QED
    BY <2>3, <2>4, <2>5 DEF IInv
<1>7. ASSUME NEW h \in Holders, Zero(h) PROVE IInv'
  BY <1>7, ContentsAssumption
     DEF IInv, TypeOK, NotBoth, Exclusive, NoLeak, Zero, bp_relinquish_zero
<1>8. CASE Restart
  <2>1. /\ pool' \in Seq(Buffers)
        /\ Range(pool') = Buffers
        /\ IsInjective(pool')
    BY <1>8, BufferCountAssumption, IotaInjective DEF Buffers, Restart
  <2>2. TypeOK'
    BY <1>8, <2>1, ContentsAssumption DEF TypeOK, Restart
  <2>3. NotBoth' /\ Exclusive' /\ NoLeak'
    BY <1>8, <2>1 DEF NotBoth, Exclusive, NoLeak, Restart
  <2> QED
    BY <2>2, <2>3 DEF IInv
<1>9. CASE UNCHANGED vars
  BY <1>9 DEF IInv, TypeOK, NotBoth, Exclusive, NoLeak, vars
<1> QED
  BY <1>1, <1>2, <1>3, <1>4, <1>5, <1>6, <1>7, <1>8, <1>9 DEF Next

\* The invariant holds for ever.
LEMMA Invariance == Spec => []IInv
  BY InitIInv, NextIInv, PTL DEF Spec

\* The variables of the pool keep their types.
THEOREM PoolTypeOK == Spec => []TypeOK
<1>1. IInv => TypeOK
  BY DEF IInv
<1> QED
  BY <1>1, Invariance, PTL

\* Every buffer is at exactly one place, for ever: free, travelling, or with one
\* holder (bp_fetch and bp_relinquish of buffer_pool.c).
THEOREM PoolConservation == Spec => []Conservation
<1>1. IInv => Conservation
  BY DEF IInv, Conservation
<1> QED
  BY <1>1, Invariance, PTL

\* One step of DirtyOnlyWhileWiping: whoever was about to zero a free buffer
\* still is, or has just done so.
LEMMA NextDirty ==
    ASSUME IInv, DirtyOnlyWhileWiping, [Next]_vars
    PROVE  DirtyOnlyWhileWiping'
<1> USE NullIsNoBuffer
<1>1. Range(pool) \subseteq Buffers
  BY LenProperties DEF IInv, TypeOK, Range
<1>2. ASSUME NEW h \in Holders, Fetch(h) PROVE DirtyOnlyWhileWiping'
  <2>1. Range(pool') \subseteq Range(pool) /\ UNCHANGED <<data, wiping>>
    BY <1>2, FetchedPool DEF Fetch
  <2> QED
    BY <2>1 DEF DirtyOnlyWhileWiping
<1>3. ASSUME NEW h \in Holders, NEW c \in Contents, FetchAndWrite(h, c)
      PROVE  DirtyOnlyWhileWiping'
  <2>1. \A b \in Range(pool') : b \in Range(pool) /\ b # Head(pool)
    BY <1>3, FetchedPool DEF FetchAndWrite
  <2>2. \A b \in Range(pool') : data'[b] = data[b]
    BY <1>1, <1>3, <2>1 DEF FetchAndWrite, IInv, TypeOK
  <2> QED
    BY <1>3, <2>1, <2>2 DEF DirtyOnlyWhileWiping, FetchAndWrite
<1>4. ASSUME NEW h \in Holders, NEW c \in Contents, Write(h, c)
      PROVE  DirtyOnlyWhileWiping'
  <2>1. \A b \in Range(pool) : b # hand[h]
    BY <1>4 DEF Write, Owns, IInv, Exclusive
  <2>2. \A b \in Range(pool) : data'[b] = data[b]
    BY <1>1, <1>4, <2>1 DEF Write, IInv, TypeOK
  <2> QED
    BY <1>4, <2>2 DEF DirtyOnlyWhileWiping, Write
<1>5. ASSUME NEW h \in Holders, Post(h) \/ Collect(h) PROVE DirtyOnlyWhileWiping'
  BY <1>5 DEF DirtyOnlyWhileWiping, Post, Collect
<1>6. ASSUME NEW h \in Holders, Relinquish(h) PROVE DirtyOnlyWhileWiping'
  <2>1. /\ Range(pool') = Range(pool) \cup {hand[h]}
        /\ wiping' = [wiping EXCEPT ![h] = hand[h]]
        /\ data' = data
        /\ wiping[h] = Null
        /\ wiping \in [Holders -> Buffers \cup {Null}]
    BY <1>6, RelinquishedPool DEF Relinquish, Owns, IInv, TypeOK
  <2>2. ASSUME NEW b \in Range(pool), data[b] # Blank
        PROVE  \E g \in Holders : wiping'[g] = b
    BY <1>1, <2>1, <2>2 DEF DirtyOnlyWhileWiping
  <2>3. wiping'[h] = hand[h]
    BY <2>1
  <2> QED
    BY <2>1, <2>2, <2>3 DEF DirtyOnlyWhileWiping
<1>7. ASSUME NEW h \in Holders, Zero(h) PROVE DirtyOnlyWhileWiping'
  <2>1. ASSUME NEW b \in Range(pool), data'[b] # Blank
        PROVE  \E g \in Holders : wiping'[g] = b
    <3>1. b # wiping[h] /\ data[b] # Blank
      BY <1>1, <1>7, <2>1 DEF Zero, bp_relinquish_zero, IInv, TypeOK
    <3>2. PICK g \in Holders : wiping[g] = b
      BY <3>1 DEF DirtyOnlyWhileWiping
    <3> QED
      BY <1>7, <3>1, <3>2 DEF Zero, bp_relinquish_zero, IInv, TypeOK
  <2> QED
    BY <1>7, <2>1 DEF DirtyOnlyWhileWiping, Zero
<1>8. CASE Restart
  <2>1. \A b \in Buffers : data'[b] = Blank
    BY <1>8 DEF Restart
  <2>2. Range(pool') = Buffers
    BY <1>8, BufferCountAssumption, IotaInjective DEF Buffers, Restart
  <2> QED
    BY <2>1, <2>2 DEF DirtyOnlyWhileWiping
<1>9. CASE UNCHANGED vars
  BY <1>9 DEF DirtyOnlyWhileWiping, vars
<1> QED
  BY <1>2, <1>3, <1>4, <1>5, <1>6, <1>7, <1>8, <1>9 DEF Next

\* A buffer in the pool is zero unless the task that has just relinquished it is
\* between its xQueueSendToBack and its bzero (buffer_pool.c:94-101): this window
\* is the only way bp_fetch can return old contents.
THEOREM PoolDirtyOnlyWhileWiping == Spec => []DirtyOnlyWhileWiping
<1>1. Init => DirtyOnlyWhileWiping
  <2> SUFFICES ASSUME Init PROVE DirtyOnlyWhileWiping
    OBVIOUS
  <2>1. Range(pool) = Buffers
    BY BufferCountAssumption, IotaInjective DEF Init, new_buffer_pool, Buffers
  <2> QED
    BY <2>1 DEF Init, new_buffer_pool, DirtyOnlyWhileWiping
<1>2. IInv /\ DirtyOnlyWhileWiping /\ [Next]_vars => DirtyOnlyWhileWiping'
  BY NextDirty
<1> QED
  BY <1>1, <1>2, Invariance, PTL DEF Spec
=============================================================================
