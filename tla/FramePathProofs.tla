---------------------------- MODULE FramePathProofs ----------------------------
(***************************************************************************)
(* Frames go through the bridge byte for byte, and what becomes of the     *)
(* others, for any frames, any buffer and any places of the losses.        *)
(***************************************************************************)
EXTENDS FramePath, SequenceTheorems, WellFoundedInduction, TLAPS

Bytes == {b \in Nat : b < 256}

\* The assumptions name the same numbers.
LEMMA BytesInterval == Bytes = 0 .. 255
  BY DEF Bytes

-----------------------------------------------------------------------------
(* Induction, with the set of the numbers that have the property.          *)

\* A set of numbers that is not empty has a least one.
LEMMA Least ==
    ASSUME NEW T, T \subseteq Nat, T # {}
    PROVE  \E n \in T : \A m \in T : n <= m
<1> DEFINE R == OpToRel(<, Nat)
<1>1. IsWellFoundedOn(R, Nat)
  BY NatLessThanWellFounded
<1>2. \A m, n \in Nat : m < n => <<m, n>> \in R
  BY DEF OpToRel
<1> HIDE DEF R
<1>3. \E n \in T : \A m \in T : <<m, n>> \notin R
  BY <1>1, WFMin
<1>4. PICK n \in T : \A m \in T : <<m, n>> \notin R
  BY <1>3
<1>5. ASSUME NEW m \in T PROVE n <= m
  <2>1. <<m, n>> \notin R /\ m \in Nat /\ n \in Nat
    BY <1>4
  <2>2. ~(m < n)
    BY <1>2, <2>1
  <2> QED BY <2>1, <2>2
<1> QED BY <1>5

\* From 0 up to a last number.
LEMMA Upward ==
    ASSUME NEW last \in Nat, NEW P, 0 \in P,
           \A i \in 0 .. last : i < last /\ i \in P => i + 1 \in P
    PROVE  \A i \in 0 .. last : i \in P
<1> DEFINE Bad == {i \in 0 .. last : i \notin P}
<1>1. SUFFICES ASSUME Bad # {} PROVE FALSE
  OBVIOUS
<1>2. PICK n \in Bad : \A m \in Bad : n <= m
  <2>1. Bad \subseteq Nat
    OBVIOUS
  <2> HIDE DEF Bad
  <2> QED BY <1>1, <2>1, Least
<1>3. n - 1 \in 0 .. last /\ n - 1 \in P
  BY <1>2
<1> QED BY <1>2, <1>3

\* There is a function that starts with first and takes a step for each element of buf.
Recursive(S, T, step, first, buf) ==
    \E g \in [0 .. Len(buf) -> S] :
        /\ g[0] = first
        /\ \A i \in 1 .. Len(buf) : g[i] = step[g[i - 1]][buf[i]]

\* Recursion over a sequence defines a function.
LEMMA Recursion ==
    ASSUME NEW S, NEW T, NEW step \in [S -> [T -> S]], NEW first \in S, NEW buf \in Seq(T)
    PROVE  Recursive(S, T, step, first, buf)
<1> DEFINE Obeys(g, n) ==
              \A i \in 0 .. n : g[i] = IF i = 0 THEN first ELSE step[g[i - 1]][buf[i]]
           P == {n \in 0 .. Len(buf) : \E g \in [0 .. n -> S] : Obeys(g, n)}
<1>1. Len(buf) \in Nat
  OBVIOUS
<1>2. 0 \in P
  <2> DEFINE h == [i \in 0 .. 0 |-> first]
  <2>1. h \in [0 .. 0 -> S] /\ Obeys(h, 0)
    OBVIOUS
  <2> HIDE DEF h
  <2> QED BY <1>1, <2>1
<1>3. ASSUME NEW n \in 0 .. Len(buf), n < Len(buf), n \in P
      PROVE  n + 1 \in P
  <2>1. PICK g \in [0 .. n -> S] : Obeys(g, n)
    BY <1>3
  <2>2. buf[n + 1] \in T /\ g[n] \in S
    BY <1>1, <1>3, <2>1
  <2> DEFINE h == [i \in 0 .. n + 1 |-> IF i <= n THEN g[i] ELSE step[g[n]][buf[n + 1]]]
  <2>3. h \in [0 .. n + 1 -> S]
    BY <1>3, <2>1, <2>2, SMTT(30)
  <2>4. ASSUME NEW i \in 0 .. n + 1
        PROVE  h[i] = IF i = 0 THEN first ELSE step[h[i - 1]][buf[i]]
    <3>1. CASE i <= n
      <4>1. i \in 0 .. n /\ h[i] = g[i]
        BY <1>3, <3>1
      <4>2. i # 0 => h[i - 1] = g[i - 1]
        BY <1>3, <3>1
      <4> HIDE DEF h
      <4> QED BY <2>1, <4>1, <4>2
    <3>2. CASE i = n + 1
      <4>1. i - 1 = n /\ i - 1 \in 0 .. n + 1 /\ ~(i <= n) /\ i # 0 /\ n <= n
        BY <1>3, <3>2
      <4>2. h[i] = step[g[n]][buf[n + 1]] /\ h[i - 1] = g[n]
        BY <4>1
      <4> QED BY <3>2, <4>1, <4>2
    <3> QED BY <1>3, <3>1, <3>2
  <2> HIDE DEF h
  <2>5. n + 1 \in 0 .. Len(buf)
    BY <1>1, <1>3
  <2> QED BY <2>3, <2>4, <2>5
<1>4. Len(buf) \in P
  <2> HIDE DEF P
  <2>1. \A i \in 0 .. Len(buf) : i \in P
    BY <1>1, <1>2, <1>3, Upward
  <2> QED BY <1>1, <2>1
<1>5. PICK g \in [0 .. Len(buf) -> S] : Obeys(g, Len(buf))
  BY <1>4
<1>6. g[0] = first /\ \A i \in 1 .. Len(buf) : g[i] = step[g[i - 1]][buf[i]]
  <2>1. \A i \in 1 .. Len(buf) : i \in 0 .. Len(buf) /\ i # 0
    BY <1>1
  <2> QED BY <1>1, <1>5, <2>1
<1> QED BY <1>5, <1>6 DEF Recursive

\* What joining two sequences gives.
LEMMA Concat ==
    ASSUME NEW S, NEW c \in Seq(S), NEW d \in Seq(S)
    PROVE  /\ Len(c) \in Nat /\ Len(d) \in Nat
           /\ c \o d \in Seq(S) /\ Len(c \o d) = Len(c) + Len(d)
           /\ \A i \in 1 .. Len(c) : (c \o d)[i] = c[i]
           /\ \A i \in 1 .. Len(d) : (c \o d)[Len(c) + i] = d[i]
<1>1. /\ c \o d \in Seq(S) /\ Len(c \o d) = Len(c) + Len(d)
      /\ \A i \in 1 .. Len(c) + Len(d) :
            (c \o d)[i] = IF i <= Len(c) THEN c[i] ELSE d[i - Len(c)]
  BY ConcatProperties
<1>2. Len(c) \in Nat /\ Len(d) \in Nat
  BY LenProperties
<1>3. ASSUME NEW i \in 1 .. Len(c) PROVE (c \o d)[i] = c[i]
  <2>1. i \in 1 .. Len(c) + Len(d) /\ i <= Len(c)
    BY <1>2
  <2> QED BY <1>1, <2>1
<1>4. ASSUME NEW i \in 1 .. Len(d) PROVE (c \o d)[Len(c) + i] = d[i]
  <2>1. Len(c) + i \in 1 .. Len(c) + Len(d) /\ ~(Len(c) + i <= Len(c)) /\ (Len(c) + i) - Len(c) = i
    BY <1>2
  <2> QED BY <1>1, <2>1
<1> QED BY <1>1, <1>2, <1>3, <1>4

-----------------------------------------------------------------------------
(* The CRC.                                                                *)

Words == {w \in Nat : w < 65536}

\* C's ^ gives words, and bytes from bytes.
LEMMA XorIsWord ==
    ASSUME NEW x, NEW y
    PROVE  Xor(x, y) \in Words
<1>1. \A w \in Nat : XorBit(x, y, w) \in {0, w}
  BY DEF XorBit
<1> DEFINE low == XorBit(x, y, 2) + XorBit(x, y, 4) + XorBit(x, y, 8) + XorBit(x, y, 16)
                  + XorBit(x, y, 32) + XorBit(x, y, 64) + XorBit(x, y, 128)
           middle == low + XorBit(x, y, 256) + XorBit(x, y, 512) + XorBit(x, y, 1024)
                     + XorBit(x, y, 2048)
<1>2. low \in Nat /\ low <= 254
  BY <1>1
<1>3. middle \in Nat /\ middle <= 4094
  <2> HIDE DEF low
  <2> QED BY <1>1, <1>2
<1>4. Xor(x, y) = XorBit(x, y, 1) + (middle + XorBit(x, y, 4096) + XorBit(x, y, 8192)
                                     + XorBit(x, y, 16384) + XorBit(x, y, 32768))
  BY DEF Xor
<1> HIDE DEF middle
<1> QED BY <1>1, <1>3, <1>4 DEF Words

\* A byte is told by its eight bits.
LEMMA BitsOfByte ==
    ASSUME NEW h \in Bytes
    PROVE  /\ \A w \in {1, 2, 4, 8, 16, 32, 64, 128} : Bit(h, w) \in {0, 1}
           /\ \A w \in {256, 512, 1024, 2048, 4096, 8192, 16384, 32768} : Bit(h, w) = 0
           /\ h = Bit(h, 1) + 2 * Bit(h, 2) + 4 * Bit(h, 4) + 8 * Bit(h, 8) + 16 * Bit(h, 16)
                  + 32 * Bit(h, 32) + 64 * Bit(h, 64) + 128 * Bit(h, 128)
  BY SMTT(60) DEF Bit, Bytes

\* So the exclusive or of two bytes is a byte.
LEMMA XorIsByte ==
    ASSUME NEW x \in Bytes, NEW y \in Bytes
    PROVE  Xor(x, y) \in Bytes
<1>1. \A w \in Nat : XorBit(x, y, w) \in {0, w}
  BY DEF XorBit
<1>2. \A w \in {256, 512, 1024, 2048, 4096, 8192, 16384, 32768} : XorBit(x, y, w) = 0
  BY BitsOfByte DEF XorBit
<1> QED BY <1>1, <1>2 DEF Xor, Bytes

\* The complement of a byte turns its bits around.
LEMMA Complement ==
    ASSUME NEW h \in Bytes
    PROVE  /\ 255 - h \in Bytes
           /\ \A w \in {1, 2, 4, 8, 16, 32, 64, 128} : Bit(255 - h, w) = 1 - Bit(h, w)
  BY SMTT(60) DEF Bit, Bytes

\* What the code complements with ^ 0xFF.
LEMMA XorWith255 ==
    ASSUME NEW h \in Bytes
    PROVE  Xor(h, 255) = 255 - h
<1>1. /\ 255 \in Bytes
      /\ \A w \in {1, 2, 4, 8, 16, 32, 64, 128} : Bit(255, w) = 1
  BY DEF Bit, Bytes
<1>2. \A w \in {1, 2, 4, 8, 16, 32, 64, 128} : XorBit(h, 255, w) = w * (1 - Bit(h, w))
  BY <1>1, BitsOfByte DEF XorBit
<1>3. \A w \in {256, 512, 1024, 2048, 4096, 8192, 16384, 32768} : XorBit(h, 255, w) = 0
  BY <1>1, BitsOfByte DEF XorBit
<1> QED BY <1>2, <1>3, BitsOfByte DEF Xor

\* A byte and its complement.
LEMMA XorWithComplement ==
    ASSUME NEW h \in Bytes
    PROVE  Xor(h, 255 - h) = 255
<1>1. \A w \in {1, 2, 4, 8, 16, 32, 64, 128} : XorBit(h, 255 - h, w) = w
  BY Complement, BitsOfByte DEF XorBit
<1>2. \A w \in {256, 512, 1024, 2048, 4096, 8192, 16384, 32768} : XorBit(h, 255 - h, w) = 0
  BY Complement, BitsOfByte DEF XorBit
<1> QED BY <1>1, <1>2 DEF Xor

\* The two entries of the table that the FCS at the end of a frame leads to.
LEMMA TwoEntries == LT_CRC_LUT[256] = 3960 /\ LT_CRC_LUT[136] = 61623
  BY DEF LT_CRC_LUT

\* The first byte of the FCS leaves 3960 = 2^3 + 2^4 + 2^5 + 2^6 + 2^8 + 2^9 + 2^10 + 2^11.
LEMMA BitsOf3960 ==
    /\ \A w \in {8, 16, 32, 64, 256, 512, 1024, 2048} : Bit(3960, w) = 1
    /\ \A w \in {1, 2, 4, 128, 4096, 8192, 16384, 32768} : Bit(3960, w) = 0
  BY DEF Bit

\* What the second byte of the FCS meets.
LEMMA SecondIndex ==
    ASSUME NEW h \in Bytes
    PROVE  /\ Xor(3960, h) \div 256 = 15
           /\ Xor(Xor(3960, h) % 256, 255 - h) = 135
<1> DEFINE l == Bit(h, 1) + 2 * Bit(h, 2) + 4 * Bit(h, 4) + 8 * (1 - Bit(h, 8))
                + 16 * (1 - Bit(h, 16)) + 32 * (1 - Bit(h, 32)) + 64 * (1 - Bit(h, 64))
                + 128 * Bit(h, 128)
<1>1. /\ \A w \in {8, 16, 32, 64} : XorBit(3960, h, w) = w * (1 - Bit(h, w))
      /\ \A w \in {1, 2, 4, 128} : XorBit(3960, h, w) = w * Bit(h, w)
      /\ \A w \in {256, 512, 1024, 2048} : XorBit(3960, h, w) = w
      /\ \A w \in {4096, 8192, 16384, 32768} : XorBit(3960, h, w) = 0
  BY BitsOf3960, BitsOfByte DEF XorBit
<1>2. Xor(3960, h) = l + 3840
  BY <1>1, BitsOfByte DEF Xor
<1>3. l \in Nat /\ l < 256
  BY BitsOfByte
<1>4. Xor(3960, h) \div 256 = 15 /\ Xor(3960, h) % 256 = l
  <2> HIDE DEF l
  <2> QED BY <1>2, <1>3
<1>5. /\ \A w \in {8, 16, 32, 64} : Bit(l, w) = 1 - Bit(h, w)
      /\ \A w \in {1, 2, 4, 128} : Bit(l, w) = Bit(h, w)
  <2>1. PICK b1, b2, b3, b4, b5, b6, b7, b8 \in {0, 1} :
            /\ Bit(h, 1) = b1 /\ Bit(h, 2) = b2 /\ Bit(h, 4) = b3 /\ Bit(h, 8) = 1 - b4
            /\ Bit(h, 16) = 1 - b5 /\ Bit(h, 32) = 1 - b6 /\ Bit(h, 64) = 1 - b7
            /\ Bit(h, 128) = b8
    BY BitsOfByte
  <2>2. l = b1 + 2 * b2 + 4 * b3 + 8 * b4 + 16 * b5 + 32 * b6 + 64 * b7 + 128 * b8
    BY <2>1
  <2> HIDE DEF l
  <2>3. /\ Bit(l, 1) = b1 /\ Bit(l, 2) = b2 /\ Bit(l, 4) = b3 /\ Bit(l, 8) = b4
        /\ Bit(l, 16) = b5 /\ Bit(l, 32) = b6 /\ Bit(l, 64) = b7 /\ Bit(l, 128) = b8
    BY <2>2, SMTT(60) DEF Bit
  <2> QED BY <2>1, <2>3
<1> HIDE DEF l
<1>6. /\ \A w \in {1, 2, 4, 128} : XorBit(l, 255 - h, w) = w
      /\ \A w \in {8, 16, 32, 64} : XorBit(l, 255 - h, w) = 0
  BY <1>5, Complement, BitsOfByte DEF XorBit
<1>7. \A w \in {256, 512, 1024, 2048, 4096, 8192, 16384, 32768} : XorBit(l, 255 - h, w) = 0
  <2>1. l \in Bytes
    BY <1>3 DEF Bytes
  <2> QED BY <2>1, Complement, BitsOfByte DEF XorBit
<1>8. Xor(l, 255 - h) = 135
  BY <1>6, <1>7 DEF Xor
<1> QED BY <1>4, <1>8

\* A frame that ends in its FCS leaves what crc_state_ok looks for.
LEMMA Residue ==
    ASSUME NEW state \in Words
    PROVE  crc_state_append(crc_state_append(state, 255 - (state % 256)), 255 - (state \div 256))
              = 61624
<1>1. state % 256 \in Bytes /\ state \div 256 \in Bytes
  BY DEF Words, Bytes
<1>2. crc_state_append(state, 255 - (state % 256)) = Xor(3960, state \div 256)
  BY <1>1, XorWithComplement, TwoEntries DEF crc_state_append
<1>3. Xor(61623, 15) = 61624
  BY DEF Xor, XorBit, Bit
<1> QED BY <1>1, <1>2, <1>3, SecondIndex, TwoEntries DEF crc_state_append

\* One turn of the loop is one byte of the division by the polynomial.
LEMMA AppendIsDivide ==
    ASSUME NEW state \in Words, NEW b \in Bytes
    PROVE  /\ crc_state_append(state, b) \in Words
           /\ crc_state_append(state, b) = Divide(state, b)
<1>1. state % 256 \in Bytes
  BY DEF Words, Bytes
<1>2. Xor(state % 256, b) \in 0 .. 255
  BY <1>1, XorIsByte, BytesInterval, ZenonT(30)
<1> QED BY <1>2, TableIsPolynomial, XorIsWord, SMTT(30) DEF crc_state_append, Divide

\* The states are what the recursion says.
LEMMA StatesAre ==
    ASSUME NEW state \in Words, NEW buf \in Seq(Bytes)
    PROVE  /\ States(state, buf) \in [0 .. Len(buf) -> Words]
           /\ States(state, buf) = 
                 [i \in 0 .. Len(buf) |->
                    IF i = 0 THEN state
                    ELSE crc_state_append(States(state, buf)[i - 1], buf[i])]
<1> DEFINE step == [s \in Words |-> [b \in Bytes |-> crc_state_append(s, b)]]
<1>1. step \in [Words -> [Bytes -> Words]]
  BY AppendIsDivide
<1>2. PICK g \in [0 .. Len(buf) -> Words] :
          /\ g[0] = state
          /\ \A i \in 1 .. Len(buf) : g[i] = step[g[i - 1]][buf[i]]
  <2> HIDE DEF step
  <2>1. Recursive(Words, Bytes, step, state, buf)
    BY <1>1, Recursion
  <2> QED BY <2>1 DEF Recursive
<1>3. g = [i \in 0 .. Len(buf) |-> IF i = 0 THEN state ELSE crc_state_append(g[i - 1], buf[i])]
  <2>1. ASSUME NEW i \in 1 .. Len(buf)
        PROVE  g[i - 1] \in Words /\ buf[i] \in Bytes
    BY <1>2, ElementOfSeq
  <2>2. \A i \in 1 .. Len(buf) : step[g[i - 1]][buf[i]] = crc_state_append(g[i - 1], buf[i])
    BY <2>1
  <2> HIDE DEF step
  <2> QED BY <1>2, <2>2
<1>4. States(state, buf) = 
        [i \in 0 .. Len(buf) |->
           IF i = 0 THEN state ELSE crc_state_append(States(state, buf)[i - 1], buf[i])]
  BY <1>3, Zenon DEF States
<1> DEFINE P == {i \in 0 .. Len(buf) : States(state, buf)[i] \in Words}
<1>5. Len(buf) \in Nat
  OBVIOUS
<1>6. 0 \in P
  BY <1>4, <1>5
<1>7. ASSUME NEW i \in 0 .. Len(buf), i < Len(buf), i \in P
      PROVE  i + 1 \in P
  <2>1. i + 1 \in 1 .. Len(buf) /\ i + 1 \in 0 .. Len(buf) /\ i + 1 # 0 /\ (i + 1) - 1 = i
    BY <1>5, <1>7
  <2>2. States(state, buf)[i + 1] = crc_state_append(States(state, buf)[i], buf[i + 1])
    BY <1>4, <2>1
  <2>3. States(state, buf)[i] \in Words /\ buf[i + 1] \in Bytes
    BY <1>7, <2>1, ElementOfSeq
  <2> QED BY <2>1, <2>2, <2>3, AppendIsDivide
<1>8. \A i \in 0 .. Len(buf) : i \in P
  <2> HIDE DEF P
  <2> QED BY <1>5, <1>6, <1>7, Upward
<1> QED BY <1>4, <1>8

\* The code's table computes what the polynomial defines.
LEMMA RegistersAreStates ==
    ASSUME NEW content \in Seq(Bytes)
    PROVE  Registers(content) = States(crc_state_init, content)
<1> DEFINE A == States(crc_state_init, content)   R == Registers(content)
<1>1. Len(content) \in Nat /\ crc_state_init = 65535 /\ crc_state_init \in Words
  BY DEF crc_state_init, Words
<1>2. /\ A \in [0 .. Len(content) -> Words]
      /\ A = [i \in 0 .. Len(content) |->
                IF i = 0 THEN 65535 ELSE crc_state_append(A[i - 1], content[i])]
  BY <1>1, StatesAre
<1>3. \A i \in 1 .. Len(content) : A[i - 1] \in Words /\ content[i] \in Bytes
  <2> HIDE DEF A
  <2> QED BY <1>1, <1>2, ElementOfSeq, SMTT(30)
<1>4. A = [i \in 0 .. Len(content) |-> IF i = 0 THEN 65535 ELSE Divide(A[i - 1], content[i])]
  <2> HIDE DEF A
  <2>1. \A i \in 1 .. Len(content) : crc_state_append(A[i - 1], content[i]) = Divide(A[i - 1], content[i])
    BY <1>3, AppendIsDivide
  <2> QED BY <1>1, <1>2, <2>1
<1>5. R = [i \in 0 .. Len(content) |-> IF i = 0 THEN 65535 ELSE Divide(R[i - 1], content[i])]
  <2> HIDE DEF A
  <2> QED BY <1>4, SMTT(30) DEF Registers
<1> DEFINE P == {i \in 0 .. Len(content) : A[i] = R[i]}
<1> HIDE DEF A, R
<1>6. 0 \in P
  BY <1>1, <1>4, <1>5
<1>7. ASSUME NEW i \in 0 .. Len(content), i < Len(content), i \in P
      PROVE  i + 1 \in P
  <2>1. i + 1 \in 0 .. Len(content) /\ i + 1 # 0 /\ (i + 1) - 1 = i
    BY <1>1, <1>7
  <2>2. A[i + 1] = Divide(A[i], content[i + 1])
    BY <1>4, <2>1
  <2>3. R[i + 1] = Divide(R[i], content[i + 1])
    BY <1>5, <2>1
  <2> QED BY <1>7, <2>1, <2>2, <2>3
<1>8. \A i \in 0 .. Len(content) : i \in P
  <2> HIDE DEF P
  <2> QED BY <1>1, <1>6, <1>7, Upward, SMTT(30)
<1>9. A = R
  BY <1>4, <1>5, <1>8
<1> QED BY <1>9 DEF A, R

\* What follows does not change the states before it.
LEMMA StatesOfPrefix ==
    ASSUME NEW state \in Words, NEW s \in Seq(Bytes), NEW t \in Seq(Bytes)
    PROVE  \A i \in 0 .. Len(s) : States(state, s \o t)[i] = States(state, s)[i]
<1> DEFINE A == States(state, s)   B == States(state, s \o t)
           P == {i \in 0 .. Len(s) : A[i] = B[i]}
<1>1. /\ Len(s) \in Nat /\ Len(t) \in Nat
      /\ s \o t \in Seq(Bytes) /\ Len(s \o t) = Len(s) + Len(t)
      /\ \A i \in 1 .. Len(s) : (s \o t)[i] = s[i]
  BY Concat
<1>2. A = [i \in 0 .. Len(s) |-> IF i = 0 THEN state ELSE crc_state_append(A[i - 1], s[i])]
  BY StatesAre
<1>3. B = [i \in 0 .. Len(s \o t) |->
             IF i = 0 THEN state ELSE crc_state_append(B[i - 1], (s \o t)[i])]
  BY <1>1, StatesAre
<1> HIDE DEF A, B
<1>4. 0 \in P
  BY <1>1, <1>2, <1>3
<1>5. ASSUME NEW i \in 0 .. Len(s), i < Len(s), i \in P
      PROVE  i + 1 \in P
  <2>1. /\ i + 1 \in 0 .. Len(s) /\ i + 1 # 0 /\ (i + 1) - 1 = i
        /\ i + 1 \in 1 .. Len(s) /\ i + 1 \in 0 .. Len(s \o t)
    BY <1>1, <1>5
  <2>2. A[i + 1] = crc_state_append(A[i], s[i + 1])
    BY <1>2, <2>1
  <2>3. B[i + 1] = crc_state_append(B[i], s[i + 1])
    BY <1>1, <1>3, <2>1
  <2> QED BY <1>5, <2>1, <2>2, <2>3
<1>6. \A i \in 0 .. Len(s) : i \in P
  <2> HIDE DEF P
  <2> QED BY <1>1, <1>4, <1>5, Upward
<1> QED BY <1>6 DEF A, B

\* What LToUDP-rx adds is the FCS, and crc_state_ok accepts a frame that ends in its FCS.
LEMMA FcsIsRight ==
    ASSUME NEW content \in Seq(Bytes)
    PROVE  /\ Fcs(content) \in Seq(Bytes) /\ Len(Fcs(content)) = 2
           /\ WithFcs(content) = content \o Fcs(content)
           /\ crc_state_ok(crc_state_append_all(crc_state_init, content \o Fcs(content)))
<1> DEFINE A == States(crc_state_init, content)
           n == Len(content)
           register == A[n]
           f == content \o Fcs(content)
           B == States(crc_state_init, f)
<1>1. n \in Nat /\ crc_state_init \in Words
  BY DEF crc_state_init, Words
<1>2. register \in Words
  BY <1>1, StatesAre
<1>3. Fcs(content) = <<255 - (register % 256), 255 - (register \div 256)>>
  BY RegistersAreStates DEF Fcs
<1> HIDE DEF A, register
<1>4. register % 256 \in Bytes /\ register \div 256 \in Bytes
  BY <1>2 DEF Words, Bytes
<1>5. 255 - (register % 256) \in Bytes /\ 255 - (register \div 256) \in Bytes
  BY <1>4, Complement
<1>6. /\ Fcs(content) \in Seq(Bytes) /\ Len(Fcs(content)) = 2
      /\ Fcs(content)[1] = 255 - (register % 256) /\ Fcs(content)[2] = 255 - (register \div 256)
  BY <1>3, <1>5
<1>7. WithFcs(content) = f
  <2>1. crc_state_append_all(crc_state_init, content) = register
    BY DEF crc_state_append_all, register, A
  <2> QED BY <1>3, <1>4, <2>1, XorWith255 DEF WithFcs, crc_state_byte_1, crc_state_byte_2
<1>8. /\ f \in Seq(Bytes) /\ Len(f) = n + 2
      /\ f[n + 1] = Fcs(content)[1] /\ f[n + 2] = Fcs(content)[2]
  <2>1. 1 \in 1 .. Len(Fcs(content)) /\ 2 \in 1 .. Len(Fcs(content)) /\ Fcs(content) \in Seq(Bytes)
    BY <1>6
  <2>2. Len(f) = n + Len(Fcs(content)) /\ f \in Seq(Bytes)
    BY <2>1, Concat
  <2>3. f[n + 1] = Fcs(content)[1] /\ f[n + 2] = Fcs(content)[2]
    BY <2>1, Concat
  <2> QED BY <1>6, <2>2, <2>3
<1>9. B[n] = register
  BY <1>1, <1>6, StatesOfPrefix DEF register, A
<1>10. B = [i \in 0 .. n + 2 |-> IF i = 0 THEN crc_state_init
                                 ELSE crc_state_append(B[i - 1], f[i])]
  <2> HIDE DEF f
  <2> QED BY <1>1, <1>8, StatesAre
<1> HIDE DEF f, B
<1>11. B[n + 2] = crc_state_append(crc_state_append(register, f[n + 1]), f[n + 2])
  <2>1. /\ n + 2 \in 0 .. n + 2 /\ n + 2 # 0 /\ (n + 2) - 1 = n + 1
        /\ n + 1 \in 0 .. n + 2 /\ n + 1 # 0 /\ (n + 1) - 1 = n
    BY <1>1
  <2>2. B[n + 2] = crc_state_append(B[n + 1], f[n + 2])
    BY <1>10, <2>1
  <2>3. B[n + 1] = crc_state_append(B[n], f[n + 1])
    BY <1>10, <2>1
  <2> QED BY <1>9, <2>2, <2>3
<1>12. B[Len(f)] = 61624
  BY <1>2, <1>6, <1>8, <1>11, Residue
<1> QED BY <1>6, <1>7, <1>12 DEF f, B, crc_state_ok, crc_state_append_all

-----------------------------------------------------------------------------
(* TashTalk's bytes.                                                       *)

EndMarker == <<0, 253>>

\* On the wire a byte is one byte or two.
LEMMA EscapedIsBytes ==
    ASSUME NEW b \in Bytes
    PROVE  Escaped(b) \in Seq(Bytes)
<1>1. 0 \in Bytes /\ 255 \in Bytes
  BY DEF Bytes
<1> QED BY <1>1 DEF Escaped

\* The bytes of a frame from each of its positions on are what the recursion says.
LEMMA WireIs ==
    ASSUME NEW f \in Seq(Bytes)
    PROVE  /\ Wire(f)[Len(f) + 1] = EndMarker
           /\ \A i \in 1 .. Len(f) : Wire(f)[i] = Escaped(f[i]) \o Wire(f)[i + 1]
           /\ \A i \in 1 .. Len(f) + 1 : Wire(f)[i] \in Seq(Bytes)
<1> DEFINE n == Len(f)
           backwards == [i \in 1 .. n |-> f[n + 1 - i]]
           step == [s \in Seq(Bytes) |-> [b \in Bytes |-> Escaped(b) \o s]]
<1>1. n \in Nat /\ \A i \in 1 .. n : f[i] \in Bytes
  BY ElementOfSeq
<1>2. backwards \in Seq(Bytes) /\ Len(backwards) = n
  BY <1>1
<1>3. step \in [Seq(Bytes) -> [Bytes -> Seq(Bytes)]]
  BY EscapedIsBytes, Concat
<1>4. EndMarker \in Seq(Bytes)
  BY DEF EndMarker, Bytes
<1>5. PICK g \in [0 .. n -> Seq(Bytes)] :
          /\ g[0] = EndMarker
          /\ \A i \in 1 .. n : g[i] = step[g[i - 1]][backwards[i]]
  <2> HIDE DEF step, backwards
  <2>1. Recursive(Seq(Bytes), Bytes, step, EndMarker, backwards)
    BY <1>2, <1>3, <1>4, Recursion
  <2> QED BY <1>2, <2>1 DEF Recursive
<1> DEFINE w == [i \in 1 .. n + 1 |-> g[n + 1 - i]]
<1>6. w = [i \in 1 .. n + 1 |-> IF i > n THEN EndMarker ELSE Escaped(f[i]) \o w[i + 1]]
  <2>1. ASSUME NEW i \in 1 .. n + 1
        PROVE  w[i] = IF i > n THEN EndMarker ELSE Escaped(f[i]) \o w[i + 1]
    <3>1. CASE i > n
      BY <1>1, <1>5, <3>1
    <3>2. CASE i <= n
      <4>1. /\ n + 1 - i \in 1 .. n /\ (n + 1 - i) - 1 = n - i /\ n + 1 - (n + 1 - i) = i
            /\ i + 1 \in 1 .. n + 1 /\ n + 1 - (i + 1) = n - i /\ n - i \in 0 .. n
        BY <1>1, <3>2
      <4>2. w[i] = step[g[n - i]][f[i]]
        BY <1>5, <4>1
      <4>3. w[i + 1] = g[n - i]
        BY <4>1
      <4>4. g[n - i] \in Seq(Bytes) /\ f[i] \in Bytes
        BY <1>1, <3>2, <4>1
      <4>5. step[g[n - i]][f[i]] = Escaped(f[i]) \o g[n - i]
        BY <4>4
      <4>6. ~(i > n)
        BY <1>1, <3>2
      <4> HIDE DEF w, step
      <4> QED BY <4>2, <4>3, <4>5, <4>6
    <3> HIDE DEF w
    <3> QED BY <1>1, <3>1, <3>2
  <2>2. w = [i \in 1 .. n + 1 |-> w[i]]
    OBVIOUS
  <2> HIDE DEF w, n
  <2> QED BY <2>1, <2>2
<1>7. Wire(f) = [i \in 1 .. n + 1 |->
                   IF i > n THEN EndMarker ELSE Escaped(f[i]) \o Wire(f)[i + 1]]
  <2> HIDE DEF w
  <2> QED BY <1>6, ZenonT(30) DEF Wire, EndMarker
<1> DEFINE W == Wire(f)
           P == {i \in 0 .. n : W[n + 1 - i] \in Seq(Bytes)}
<1> HIDE DEF W
<1>8. W[n + 1] = EndMarker /\ \A i \in 1 .. n : W[i] = Escaped(f[i]) \o W[i + 1]
  <2>1. n + 1 \in 1 .. n + 1 /\ n + 1 > n /\ \A i \in 1 .. n : i \in 1 .. n + 1 /\ ~(i > n)
    BY <1>1
  <2> HIDE DEF n
  <2> QED BY <1>7, <2>1 DEF W
<1>9. 0 \in P
  <2>1. n + 1 - 0 = n + 1 /\ 0 \in 0 .. n
    BY <1>1
  <2> QED BY <1>4, <1>8, <2>1
<1>10. ASSUME NEW i \in 0 .. n, i < n, i \in P
       PROVE  i + 1 \in P
  <2>1. n - i \in 1 .. n /\ n + 1 - (i + 1) = n - i /\ n + 1 - i = (n - i) + 1 /\ i + 1 \in 0 .. n
    BY <1>1, <1>10
  <2>2. W[n - i] = Escaped(f[n - i]) \o W[(n - i) + 1]
    BY <1>8, <2>1
  <2>3. W[(n - i) + 1] \in Seq(Bytes) /\ Escaped(f[n - i]) \in Seq(Bytes)
    BY <1>1, <1>10, <2>1, EscapedIsBytes
  <2>4. W[n - i] \in Seq(Bytes)
    BY <2>2, <2>3, Concat
  <2> QED BY <2>1, <2>4
<1>11. \A i \in 0 .. n : i \in P
  <2> HIDE DEF P
  <2> QED BY <1>1, <1>9, <1>10, Upward
<1>12. ASSUME NEW i \in 1 .. n + 1 PROVE W[i] \in Seq(Bytes)
  <2>1. n + 1 - i \in 0 .. n /\ n + 1 - (n + 1 - i) = i
    BY <1>1
  <2> QED BY <1>11, <2>1
<1> QED BY <1>8, <1>12 DEF W

\* A byte in front of others.
LEMMA Pushed ==
    ASSUME NEW S, NEW a \in S, NEW l \in Seq(S)
    PROVE  /\ <<a>> \o l \in Seq(S) /\ <<a>> \o l # <<>> /\ Len(<<a>> \o l) = Len(l) + 1
           /\ Head(<<a>> \o l) = a /\ Tail(<<a>> \o l) = l
           /\ (<<a>> \o l)[1] = a
           /\ \A i \in 1 .. Len(l) : (<<a>> \o l)[i + 1] = l[i]
<1> DEFINE s == <<a>> \o l
<1>1. <<a>> \in Seq(S) /\ Len(<<a>>) = 1 /\ <<a>>[1] = a /\ 1 \in 1 .. Len(<<a>>)
  OBVIOUS
<1>2. /\ Len(l) \in Nat /\ s \in Seq(S) /\ Len(s) = Len(<<a>>) + Len(l)
      /\ \A i \in 1 .. Len(<<a>>) : s[i] = <<a>>[i]
      /\ \A i \in 1 .. Len(l) : s[Len(<<a>>) + i] = l[i]
  BY <1>1, Concat
<1> HIDE DEF s
<1>3. Len(s) = Len(l) + 1 /\ s # <<>> /\ s[1] = a /\ \A i \in 1 .. Len(l) : s[i + 1] = l[i]
  <2>1. Len(s) = Len(l) + 1 /\ s[1] = a
    BY <1>1, <1>2
  <2>2. s # <<>>
    BY <1>2, <2>1
  <2>3. ASSUME NEW i \in 1 .. Len(l) PROVE s[i + 1] = l[i]
    <3>1. i + 1 = 1 + i
      BY <1>2
    <3> QED BY <1>1, <1>2, <3>1
  <2> QED BY <2>1, <2>2, <2>3
<1>4. Head(s) = a
  BY <1>2, <1>3
<1>5. Tail(s) = l
  <2>1. /\ Tail(s) \in Seq(S) /\ Len(Tail(s)) = Len(l)
        /\ \A i \in 1 .. Len(l) : Tail(s)[i] = s[i + 1]
    BY <1>2, <1>3, HeadTailProperties
  <2> QED BY <1>3, <2>1, SeqEqual
<1> QED BY <1>2, <1>3, <1>4, <1>5 DEF s

\* An escape is one byte after the other.
LEMMA TwoBytes ==
    /\ <<0>> \in Seq(Bytes) /\ <<255>> \in Seq(Bytes) /\ <<0, 255>> \in Seq(Bytes)
    /\ <<0>> \o <<255>> = <<0, 255>>
<1>1. 0 \in Bytes /\ 255 \in Bytes
  BY DEF Bytes
<1>2. <<255>> \in Seq(Bytes) /\ Len(<<255>>) = 1 /\ <<255>>[1] = 255 /\ 1 \in 1 .. Len(<<255>>)
  BY <1>1
<1>3. /\ <<0>> \o <<255>> \in Seq(Bytes) /\ Len(<<0>> \o <<255>>) = 2
      /\ (<<0>> \o <<255>>)[1] = 0 /\ (<<0>> \o <<255>>)[2] = 255
  <2>1. /\ <<0>> \o <<255>> \in Seq(Bytes) /\ Len(<<0>> \o <<255>>) = Len(<<255>>) + 1
        /\ (<<0>> \o <<255>>)[1] = 0
        /\ \A i \in 1 .. Len(<<255>>) : (<<0>> \o <<255>>)[i + 1] = <<255>>[i]
    BY <1>1, <1>2, Pushed
  <2>2. (<<0>> \o <<255>>)[1 + 1] = <<255>>[1]
    BY <1>2, <2>1
  <2> QED BY <1>2, <2>1, <2>2
<1>4. <<0, 255>> \in Seq(Bytes) /\ Len(<<0, 255>>) = 2 /\ <<0, 255>>[1] = 0 /\ <<0, 255>>[2] = 255
  BY <1>1
<1>5. \A i \in 1 .. 2 : (<<0>> \o <<255>>)[i] = <<0, 255>>[i]
  BY <1>3, <1>4
<1>6. <<0>> \o <<255>> = <<0, 255>>
  <2> DEFINE s == <<0>> \o <<255>>   t == <<0, 255>>
  <2>1. /\ s \in Seq(Bytes) /\ t \in Seq(Bytes) /\ Len(s) = Len(t)
        /\ \A i \in 1 .. Len(s) : s[i] = t[i]
    BY <1>3, <1>4, <1>5
  <2> HIDE DEF s, t
  <2>2. s = t
    BY <2>1, SeqEqual
  <2> QED BY <2>2 DEF s, t
<1> QED BY <1>1, <1>2, <1>4, <1>6

\* The bytes of the frame come one by one, a zero as two, and then the end marker.
LEMMA WireEnd ==
    ASSUME NEW f \in Seq(Bytes), NEW k \in 0 .. Len(f), k = Len(f)
    PROVE  Wire(f)[k + 1] = EndMarker
  BY WireIs

\* A byte that is no zero goes over the wire as it is (tashtalk.c:81-127).
LEMMA WireByte ==
    ASSUME NEW f \in Seq(Bytes), NEW k \in 0 .. Len(f), k < Len(f), f[k + 1] # 0
    PROVE  /\ f[k + 1] \in Bytes
           /\ Wire(f)[k + 1] \in Seq(Bytes) /\ Wire(f)[k + 2] \in Seq(Bytes)
           /\ Wire(f)[k + 1] = <<f[k + 1]>> \o Wire(f)[k + 2]
<1>1. k + 1 \in 1 .. Len(f) /\ (k + 1) + 1 = k + 2 /\ k + 1 \in 1 .. Len(f) + 1
      /\ k + 2 \in 1 .. Len(f) + 1
  BY LenProperties
<1>2. Wire(f)[k + 1] = Escaped(f[k + 1]) \o Wire(f)[k + 2] /\ f[k + 1] \in Bytes
  BY <1>1, WireIs, ElementOfSeq
<1>3. Wire(f)[k + 1] \in Seq(Bytes) /\ Wire(f)[k + 2] \in Seq(Bytes)
  BY <1>1, WireIs
<1> QED BY <1>2, <1>3 DEF Escaped

\* A zero goes over the wire as 0 and 255 (tashtalk.c:81-87).
LEMMA WireZero ==
    ASSUME NEW f \in Seq(Bytes), NEW k \in 0 .. Len(f), k < Len(f), f[k + 1] = 0
    PROVE  /\ Wire(f)[k + 1] \in Seq(Bytes) /\ Wire(f)[k + 2] \in Seq(Bytes)
           /\ <<255>> \o Wire(f)[k + 2] \in Seq(Bytes)
           /\ Wire(f)[k + 1] = <<0>> \o (<<255>> \o Wire(f)[k + 2])
<1>1. k + 1 \in 1 .. Len(f) /\ (k + 1) + 1 = k + 2 /\ k + 1 \in 1 .. Len(f) + 1
      /\ k + 2 \in 1 .. Len(f) + 1
  BY LenProperties
<1>2. Wire(f)[k + 1] = Escaped(f[k + 1]) \o Wire(f)[k + 2] /\ f[k + 1] \in Bytes
  BY <1>1, WireIs, ElementOfSeq
<1>3. Wire(f)[k + 1] \in Seq(Bytes) /\ Wire(f)[k + 2] \in Seq(Bytes)
  BY <1>1, WireIs
<1>4. Wire(f)[k + 1] = <<0, 255>> \o Wire(f)[k + 2]
  BY <1>2 DEF Escaped
<1>5. (<<0>> \o <<255>>) \o Wire(f)[k + 2] = <<0>> \o (<<255>> \o Wire(f)[k + 2])
  BY <1>3, TwoBytes, ConcatAssociative
<1>6. <<255>> \o Wire(f)[k + 2] \in Seq(Bytes)
  BY <1>3, TwoBytes, Concat
<1> QED BY <1>3, <1>4, <1>5, <1>6, TwoBytes

\* A line ends in a marker, and no zero is followed by anything else than 255 before it.
Orderly(l) ==
    /\ l # <<>> => l[Len(l)] \in {250, 253, 254}
    /\ Len(l) >= 2 => l[Len(l) - 1] = 0
    /\ \A i \in 1 .. Len(l) - 2 : l[i] = 0 => l[i + 1] = 255

\* A byte before an orderly line keeps it orderly, a zero only before 255.
LEMMA PushedOrderly ==
    ASSUME NEW a \in Bytes, NEW l \in Seq(Bytes), Orderly(l), Len(l) >= 2,
           a = 0 => Head(l) = 255
    PROVE  Orderly(<<a>> \o l) /\ Len(<<a>> \o l) >= 2
<1> DEFINE s == <<a>> \o l
<1>1. /\ s \in Seq(Bytes) /\ s # <<>> /\ Len(s) = Len(l) + 1 /\ Len(l) \in Nat
      /\ s[1] = a /\ \A i \in 1 .. Len(l) : s[i + 1] = l[i]
  BY Pushed
<1> HIDE DEF s
<1>2. s[Len(s)] = l[Len(l)] /\ s[Len(s) - 1] = l[Len(l) - 1]
  <2>1. Len(l) \in 1 .. Len(l) /\ Len(l) - 1 \in 1 .. Len(l)
    BY <1>1
  <2>2. Len(s) = Len(l) + 1 /\ Len(s) - 1 = (Len(l) - 1) + 1
    BY <1>1
  <2> QED BY <1>1, <2>1, <2>2
<1>3. ASSUME NEW i \in 1 .. Len(s) - 2, s[i] = 0 PROVE s[i + 1] = 255
  <2>1. CASE i = 1
    <3>1. s[2] = l[1] /\ l[1] = Head(l)
      BY <1>1
    <3> QED BY <1>1, <1>3, <2>1, <3>1
  <2>2. CASE i # 1
    <3>1. i - 1 \in 1 .. Len(l) - 2 /\ i - 1 \in 1 .. Len(l) /\ (i - 1) + 1 = i /\ i \in 1 .. Len(l)
      BY <1>1, <2>2
    <3>2. s[i] = l[i - 1] /\ s[i + 1] = l[i]
      BY <1>1, <3>1
    <3> QED BY <1>3, <3>1, <3>2 DEF Orderly
  <2> QED BY <2>1, <2>2
<1>4. l # <<>>
  BY <1>1
<1> QED BY <1>1, <1>2, <1>3, <1>4 DEF Orderly, s

\* What a node puts on the wire is orderly.
LEMMA WireOrderly ==
    ASSUME NEW f \in Seq(Bytes), NEW k \in 0 .. Len(f)
    PROVE  Orderly(Wire(f)[k + 1]) /\ Len(Wire(f)[k + 1]) >= 2
<1> DEFINE n == Len(f)
           Good(l) == Orderly(l) /\ Len(l) >= 2
           P == {j \in 0 .. n : Good(Wire(f)[(n - j) + 1])}
<1>1. n \in Nat
  OBVIOUS
<1>2. 0 \in P
  <2>1. Good(EndMarker)
    BY DEF Orderly, EndMarker
  <2>2. Wire(f)[(n - 0) + 1] = EndMarker
    BY <1>1, WireEnd
  <2> HIDE DEF Good
  <2> QED BY <1>1, <2>1, <2>2
<1>3. ASSUME NEW j \in 0 .. n, j < n, j \in P
      PROVE  j + 1 \in P
  <2> DEFINE i == n - (j + 1)
             l == Wire(f)[i + 2]
  <2>1. i \in 0 .. n /\ i < n /\ (n - j) + 1 = i + 2 /\ j + 1 \in 0 .. n
    BY <1>1, <1>3
  <2>2. Good(l)
    <3> HIDE DEF Good, i
    <3> QED BY <1>3, <2>1
  <2> HIDE DEF i
  <2>3. CASE f[i + 1] # 0
    <3>1. Wire(f)[i + 1] = <<f[i + 1]>> \o l /\ l \in Seq(Bytes) /\ f[i + 1] \in Bytes
      BY <2>1, <2>3, WireByte
    <3> HIDE DEF l
    <3>2. Good(<<f[i + 1]>> \o l)
      BY <2>2, <2>3, <3>1, PushedOrderly
    <3> HIDE DEF Good
    <3> QED BY <2>1, <3>1, <3>2 DEF i
  <2>4. CASE f[i + 1] = 0
    <3>1. /\ l \in Seq(Bytes) /\ <<255>> \o l \in Seq(Bytes)
          /\ Wire(f)[i + 1] = <<0>> \o (<<255>> \o l)
      BY <2>1, <2>4, WireZero, ZenonT(30)
    <3> HIDE DEF l
    <3>2. 0 \in Bytes /\ 255 \in Bytes /\ 255 # 0
      BY DEF Bytes
    <3>3. Good(<<255>> \o l) /\ Head(<<255>> \o l) = 255
      BY <2>2, <3>1, <3>2, PushedOrderly, Pushed
    <3>4. Good(<<0>> \o (<<255>> \o l))
      <4> DEFINE r == <<255>> \o l
      <4>1. r \in Seq(Bytes) /\ Good(r) /\ Head(r) = 255
        BY <3>1, <3>3
      <4> HIDE DEF r
      <4>2. Good(<<0>> \o r)
        BY <3>2, <4>1, PushedOrderly
      <4> QED BY <4>2 DEF r
    <3> HIDE DEF Good
    <3> QED BY <2>1, <3>1, <3>4 DEF i
  <2> QED BY <2>3, <2>4
<1>4. \A j \in 0 .. n : j \in P
  <2> HIDE DEF P
  <2> QED BY <1>1, <1>2, <1>3, Upward
<1>5. n - k \in 0 .. n /\ (n - (n - k)) + 1 = k + 1
  BY <1>1
<1>6. Good(Wire(f)[k + 1])
  <2> HIDE DEF Good, n
  <2>1. n - k \in P
    BY <1>4, <1>5
  <2> QED BY <1>5, <2>1
<1> QED BY <1>6

-----------------------------------------------------------------------------
(* The invariant.                                                          *)

TypeOK ==
    /\ history \in Seq(Contents) /\ line \in Seq(Bytes)
    /\ quiet \in 0 .. 3 /\ lost \in Nat /\ found \in BOOLEAN /\ intact \in BOOLEAN
    /\ rx \in [in_escape : BOOLEAN, packet : Seq(Bytes)] /\ Len(rx.packet) <= PacketSize
    /\ frame \in Seq(Bytes) /\ written \in Seq(Bytes)
    /\ line # Nothing => history # <<>>

\* Once three bytes have arrived since the loss of one, the parser is in step.
Sync ==
    /\ Orderly(line)
    /\ quiet >= 1 /\ Len(line) >= 2 /\ Head(line) # 255 => ~rx.in_escape
    /\ quiet >= 1 /\ line = Nothing => ~rx.in_escape
    /\ quiet >= 2 /\ Len(line) = 1 => rx.in_escape
    /\ quiet >= 3 /\ line = Nothing => rx = NewPacket

\* A frame on the wire, and what the parser keeps of m bytes.
Whole(content) == content \o Fcs(content)

Kept(f, m) == SubSeq(f, 1, IF m <= PacketSize THEN m ELSE PacketSize)

\* The parser has read j bytes of f, and of the next one half if it is an escape.
Place(f, l, escape, j) ==
    /\ j \in 0 .. Len(f)
    /\ \/ ~escape /\ l = Wire(f)[j + 1]
       \/ escape /\ l = Tail(Wire(f)[j + 1]) /\ (j < Len(f) => f[j + 1] = 0)

\* A frame of which nothing was lost is in the packet as far as it has been read.
Reading ==
    /\ intact /\ line # Nothing =>
          /\ stage = "rx"
          /\ \E j \in 0 .. Len(Whole(Sent)) :
                /\ Place(Whole(Sent), line, rx.in_escape, j)
                /\ rx.packet = Kept(Whole(Sent), j)
    /\ intact /\ stage = "rx" => line # Nothing

\* Bytes are missing, but not of the header.
Shorter(f, p, j) == Len(p) >= 5 /\ Len(p) < j /\ \A i \in 1 .. 5 : p[i] = f[i]

\* A zero has become 255.
Misread(f, z) == [f EXCEPT ![z] = 255]

\* What follows a zero that looks like an escape.
After(f, z) == SubSeq(f, z + 2, Len(f))

\* What there is in the packet after j bytes of f, of which one may have been lost.
Got(f, p, j) ==
    \/ p = Kept(f, j)
    \/ \E z \in 6 .. j : f[z] = 0 /\ p = Kept(Misread(f, z), j)
    \/ \E z \in 1 .. j - 1 :
          f[z] = 0 /\ f[z + 1] \in {250, 253, 254} /\ p = Kept(After(f, z), j - z - 1)
    \/ Shorter(f, p, j)

\* No end marker is left that the parser would see.
Ended(l, r) ==
    \/ l = <<253>> /\ ~r.in_escape
    \/ \E code \in {250, 254} : l \in {<<0, code>>, <<code>>}

\* The first byte of an escape was lost, or taken for the second.
ZeroLost(f, l, r, j) ==
    /\ j < Len(f) /\ f[j + 1] = 0 /\ l = <<255>> \o Wire(f)[j + 2] /\ ~r.in_escape
    /\ Len(r.packet) >= 5 /\ (r.packet = Kept(f, j) \/ Shorter(f, r.packet, j))

\* The second byte of an escape was lost.
EscapeLost(f, l, r, j) ==
    /\ j < Len(f) /\ f[j + 1] = 0 /\ l = Wire(f)[j + 2] /\ r.in_escape
    /\ Len(r.packet) >= 5 /\ r.packet = Kept(f, j)

\* What may be left of f on the line, and how the parser stands.
Left(f, l, r) ==
    \/ Ended(l, r)
    \/ \E j \in 0 .. Len(f) :
          \/ Place(f, l, r.in_escape, j) /\ Got(f, r.packet, j)
          \/ ZeroLost(f, l, r, j)
          \/ EscapeLost(f, l, r, j)

\* After at most one loss, and not before or in the header of this frame.
Damage ==
    found /\ lost <= 1 /\ line # Nothing =>
        (intact \/ Ended(line, rx) \/ lost = 1) /\ Left(Whole(Sent), line, rx)

-----------------------------------------------------------------------------

Content(p) == SubSeq(p, 1, Len(p) - 2)

\* UART_TX has the frame, or has written it.
ToUart == stage = "uart_tx" \/ written # Nothing

\* The frame p of a node on its way.
Carries(p) ==
    /\ p \in Seq(Bytes) /\ Len(p) <= PacketSize
    /\ stage \in {"accept", "apps", "udp_tx"} => frame = p
    /\ stage = "udp" => frame = SubSeq(Header \o p, 1, Len(p) + 2)
    /\ ToUart => Len(p) >= 6 /\ frame = WithFcs(Content(p))

FromNode ==
    origin = "node" /\ (stage \in {"accept", "apps", "udp_tx", "udp"} \/ ToUart) =>
        /\ history # <<>>
        /\ \E p \in Seq(Bytes) :
              /\ Carries(p)
              /\ intact => p = Kept(Whole(Sent), Len(Whole(Sent)))
              /\ found /\ lost <= 1 => Got(Whole(Sent), p, Len(Whole(Sent)))

FromHost ==
    origin = "host" =>
        /\ stage \notin {"rx", "accept", "apps", "udp_tx"}
        /\ stage = "udp" => \E datagram \in Datagrams : frame = Header \o datagram
        /\ ToUart =>
              \E datagram \in Datagrams :
                 LET length == IF Len(datagram) + 2 <= PacketSize THEN Len(datagram)
                               ELSE PacketSize - 2
                 IN  length >= 4 /\ frame = WithFcs(SubSeq(datagram, 1, length))

\* A frame with an FCS that fits a buffer.
Fitting(f) ==
    \E content \in Seq(Bytes) :
       Len(content) >= 4 /\ Len(content) + 2 <= PacketSize /\ f = WithFcs(content)

FromApps ==
    origin = "apps" =>
        /\ stage \notin {"rx", "accept", "apps", "udp_tx", "udp"}
        /\ ToUart =>
              /\ history # <<>>
              /\ Fitting(frame)
              /\ intact => Answers(frame, Sent)

\* Only UART_TX writes, and what it has checked.
Writing ==
    /\ stage # "done" => written = Nothing
    /\ written # Nothing => written = frame /\ tashtalk_tx_validate(frame)

Carrying ==
    /\ stage \in {"rx", "accept", "apps", "udp_tx", "udp", "uart_tx", "done", "unknown", "configured"}
    /\ origin \in {"node", "host", "apps"}
    /\ Writing /\ FromNode /\ FromHost /\ FromApps

-----------------------------------------------------------------------------
(* Parts of frames.                                                        *)

\* A part of a sequence, which may be empty.
LEMMA Part ==
    ASSUME NEW S, NEW s \in Seq(S), NEW m \in 1 .. Len(s) + 1, NEW n \in m - 1 .. Len(s)
    PROVE  /\ SubSeq(s, m, n) \in Seq(S) /\ Len(SubSeq(s, m, n)) = (n - m) + 1
           /\ \A i \in 1 .. (n - m) + 1 : SubSeq(s, m, n)[i] = s[(m + i) - 1]
<1>1. Len(s) \in Nat
  OBVIOUS
<1>2. m \in Int /\ n \in Int /\ \A i \in m .. n : s[i] \in S
  BY <1>1, ElementOfSeq
<1>3. /\ SubSeq(s, m, n) \in Seq(S)
      /\ Len(SubSeq(s, m, n)) = IF m <= n THEN n - m + 1 ELSE 0
      /\ \A i \in 1 .. n - m + 1 : SubSeq(s, m, n)[i] = s[m + i - 1]
  BY <1>2, SubSeqProperties
<1> QED BY <1>1, <1>3

\* The same, by what is before it and its length.
LEMMA Slice ==
    ASSUME NEW S, NEW s \in Seq(S), NEW k \in Nat, NEW n \in Nat, k + n <= Len(s)
    PROVE  /\ SubSeq(s, k + 1, k + n) \in Seq(S) /\ Len(SubSeq(s, k + 1, k + n)) = n
           /\ \A i \in 1 .. n : SubSeq(s, k + 1, k + n)[i] = s[k + i]
<1> DEFINE t == SubSeq(s, k + 1, k + n)
<1>1. /\ Len(s) \in Nat /\ k + 1 \in 1 .. Len(s) + 1 /\ k + n \in (k + 1) - 1 .. Len(s)
      /\ (k + n - (k + 1)) + 1 = n
  BY LenProperties
<1>2. /\ t \in Seq(S) /\ Len(t) = ((k + n) - (k + 1)) + 1
      /\ \A i \in 1 .. ((k + n) - (k + 1)) + 1 : t[i] = s[((k + 1) + i) - 1]
  BY <1>1, Part
<1> HIDE DEF t
<1>3. ASSUME NEW i \in 1 .. n PROVE t[i] = s[k + i]
  <2>1. i \in 1 .. ((k + n) - (k + 1)) + 1 /\ ((k + 1) + i) - 1 = k + i
    BY <1>1
  <2> QED BY <1>2, <2>1
<1>4. Len(t) = n
  BY <1>1, <1>2
<1> QED BY <1>2, <1>3, <1>4 DEF t

\* A slice with these elements.
LEMMA SliceIs ==
    ASSUME NEW S, NEW s \in Seq(S), NEW k \in Nat, NEW o \in Seq(S), k + Len(o) <= Len(s),
           \A i \in 1 .. Len(o) : s[k + i] = o[i]
    PROVE  SubSeq(s, k + 1, k + Len(o)) = o
<1> DEFINE t == SubSeq(s, k + 1, k + Len(o))
<1>1. Len(o) \in Nat
  BY LenProperties
<1>2. t \in Seq(S) /\ Len(t) = Len(o) /\ \A i \in 1 .. Len(o) : t[i] = s[k + i]
  BY <1>1, Slice
<1> HIDE DEF t
<1>3. \A i \in 1 .. Len(t) : t[i] = o[i]
  BY <1>2
<1>4. t = o
  BY <1>2, <1>3, SeqEqual
<1> QED BY <1>4 DEF t

\* What is left of a line when a byte has gone is as orderly.
LEMMA OrderlyTail ==
    ASSUME NEW l \in Seq(Bytes), l # <<>>, Orderly(l)
    PROVE  /\ Head(l) \in Bytes /\ Tail(l) \in Seq(Bytes) /\ Orderly(Tail(l))
           /\ Len(l) \in Nat /\ Len(Tail(l)) = Len(l) - 1
           /\ Len(l) = 1 => Head(l) \in {250, 253, 254}
           /\ Len(l) = 2 => Head(l) = 0
           /\ Len(l) >= 3 /\ Head(l) = 0 => Head(Tail(l)) = 255
<1> DEFINE t == Tail(l)
<1>1. /\ Head(l) \in Bytes /\ t \in Seq(Bytes) /\ Len(t) = Len(l) - 1
      /\ \A i \in 1 .. Len(t) : t[i] = l[i + 1]
      /\ Len(l) \in Nat /\ Len(l) >= 1 /\ Head(l) = l[1]
  BY HeadTailProperties, EmptySeq
<1> HIDE DEF t
<1>2. t # <<>> => t[Len(t)] \in {250, 253, 254}
  <2>1. ASSUME t # <<>> PROVE t[Len(t)] = l[Len(l)]
    <3>1. Len(t) \in 1 .. Len(t) /\ Len(t) + 1 = Len(l)
      BY <1>1, <2>1, EmptySeq
    <3> QED BY <1>1, <3>1
  <2> QED BY <2>1 DEF Orderly
<1>3. Len(t) >= 2 => t[Len(t) - 1] = 0
  <2>1. ASSUME Len(t) >= 2 PROVE t[Len(t) - 1] = l[Len(l) - 1]
    <3>1. Len(t) - 1 \in 1 .. Len(t) /\ (Len(t) - 1) + 1 = Len(l) - 1
      BY <1>1, <2>1
    <3> QED BY <1>1, <3>1
  <2> QED BY <1>1, <2>1 DEF Orderly
<1>4. ASSUME NEW i \in 1 .. Len(t) - 2, t[i] = 0 PROVE t[i + 1] = 255
  <2>1. /\ i \in 1 .. Len(t) /\ i + 1 \in 1 .. Len(t) /\ i + 1 \in 1 .. Len(l) - 2
        /\ (i + 1) + 1 = i + 2
    BY <1>1, <1>4
  <2>2. t[i] = l[i + 1] /\ t[i + 1] = l[(i + 1) + 1]
    BY <1>1, <2>1
  <2> QED BY <1>4, <2>1, <2>2 DEF Orderly
<1>5. ASSUME Len(l) >= 3, Head(l) = 0 PROVE Head(t) = 255
  <2>1. 1 \in 1 .. Len(l) - 2 /\ 1 \in 1 .. Len(t) /\ l[1] = 0 /\ Head(t) = t[1]
    BY <1>1, <1>5
  <2>2. t[1] = l[1 + 1]
    BY <1>1, <2>1
  <2> QED BY <2>1, <2>2 DEF Orderly
<1>6. /\ Len(l) = 1 => Head(l) \in {250, 253, 254}
      /\ Len(l) = 2 => Head(l) = 0
  BY <1>1 DEF Orderly
<1> QED BY <1>1, <1>2, <1>3, <1>4, <1>5, <1>6 DEF Orderly, t

\* Frames consist of bytes.
LEMMA Sequences ==
    /\ Contents \cup Datagrams \subseteq Seq(Bytes)
    /\ \A content \in Seq(Bytes) :
          /\ Whole(content) = WithFcs(content) /\ Whole(content) \in Seq(Bytes)
          /\ Len(Whole(content)) = Len(content) + 2
          /\ Content(Whole(content)) = content
          /\ \A i \in 1 .. Len(content) : Whole(content)[i] = content[i]
<1>1. Contents \cup Datagrams \subseteq Seq(Bytes)
  BY BytesAssumption, BytesInterval
<1>2. ASSUME NEW content \in Seq(Bytes)
      PROVE  /\ Whole(content) = WithFcs(content) /\ Whole(content) \in Seq(Bytes)
             /\ Len(Whole(content)) = Len(content) + 2
             /\ Content(Whole(content)) = content
             /\ \A i \in 1 .. Len(content) : Whole(content)[i] = content[i]
  <2> DEFINE fcs == Fcs(content)   f == content \o fcs   c == SubSeq(f, 1, Len(content))
  <2>1. fcs \in Seq(Bytes) /\ Len(fcs) = 2 /\ WithFcs(content) = f
    BY FcsIsRight
  <2> HIDE DEF fcs
  <2>2. /\ f \in Seq(Bytes) /\ Len(f) = Len(content) + 2 /\ Len(content) \in Nat
        /\ \A i \in 1 .. Len(content) : f[i] = content[i]
    <3>1. /\ f \in Seq(Bytes) /\ Len(f) = Len(content) + Len(fcs) /\ Len(content) \in Nat
          /\ \A i \in 1 .. Len(content) : f[i] = content[i]
      BY <2>1, Concat, ZenonT(30)
    <3> QED BY <2>1, <3>1
  <2> HIDE DEF f
  <2>3. c = content
    <3>1. 1 \in 1 .. Len(f) + 1 /\ Len(content) \in 1 - 1 .. Len(f)
      BY <2>2
    <3>2. /\ c \in Seq(Bytes) /\ Len(c) = (Len(content) - 1) + 1
          /\ \A i \in 1 .. (Len(content) - 1) + 1 : c[i] = f[(1 + i) - 1]
      BY <2>2, <3>1, Part
    <3> HIDE DEF c
    <3>3. Len(c) = Len(content) /\ \A i \in 1 .. Len(c) : c[i] = content[i]
      BY <2>2, <3>2
    <3> QED BY <3>2, <3>3, SeqEqual
  <2>4. Len(f) - 2 = Len(content)
    BY <2>2
  <2>5. Whole(content) = f
    BY DEF Whole, f, fcs
  <2> QED BY <2>1, <2>2, <2>3, <2>4, <2>5 DEF Content
<1> QED BY <1>1, <1>2

\* Bytes are bytes, zeros beyond the end.
LEMMA ByteIsByte ==
    ASSUME NEW p \in Seq(Bytes), NEW i \in Nat
    PROVE  Byte(p, i) \in Bytes
<1>1. CASE i < Len(p)
  <2>1. i + 1 \in 1 .. Len(p)
    BY <1>1, LenProperties
  <2> QED BY <1>1, <2>1, ElementOfSeq DEF Byte
<1>2. CASE ~(i < Len(p))
  BY <1>2 DEF Byte, Bytes
<1> QED BY <1>1, <1>2

\* The three strings of a tuple one after the other.
Names(o, t) == PString(o) \o PString(t) \o PString(<<42>>)

\* Where they are.
NamesParts(names, o, t) ==
    /\ names \in Seq(Bytes) /\ Len(names) = Len(o) + Len(t) + 4
    /\ names[1] = Len(o)
    /\ \A i \in 1 .. Len(o) : names[i + 1] = o[i]
    /\ names[Len(o) + 2] = Len(t)
    /\ \A i \in 1 .. Len(t) : names[Len(o) + 2 + i] = t[i]
    /\ names[Len(o) + Len(t) + 3] = 1

\* They are there.
LEMMA Strings ==
    ASSUME NEW o \in Seq(Bytes), NEW t \in Seq(Bytes), Len(o) \in Bytes, Len(t) \in Bytes,
           NEW names, names = Names(o, t)
    PROVE  NamesParts(names, o, t)
<1> DEFINE a == <<Len(o)>> \o o   b == <<Len(t)>> \o t   c == <<1>> \o <<42>>
<1>1. 1 \in Bytes /\ 42 \in Bytes /\ <<42>> \in Seq(Bytes) /\ Len(<<42>>) = 1
  BY DEF Bytes
<1>2. /\ a \in Seq(Bytes) /\ Len(a) = Len(o) + 1 /\ Len(o) \in Nat
      /\ a[1] = Len(o) /\ \A i \in 1 .. Len(o) : a[i + 1] = o[i]
  BY Pushed
<1>3. /\ b \in Seq(Bytes) /\ Len(b) = Len(t) + 1 /\ Len(t) \in Nat
      /\ b[1] = Len(t) /\ \A i \in 1 .. Len(t) : b[i + 1] = t[i]
  BY Pushed
<1>4. c \in Seq(Bytes) /\ Len(c) = 2 /\ c[1] = 1
  <2>1. c \in Seq(Bytes) /\ Len(c) = Len(<<42>>) + 1 /\ c[1] = 1
    BY <1>1, Pushed
  <2> QED BY <1>1, <2>1
<1>5. names = (a \o b) \o c
  BY <1>1 DEF PString, Names
<1> DEFINE ab == a \o b
<1> HIDE DEF a, b, c
<1>6. /\ ab \in Seq(Bytes) /\ Len(ab) = Len(a) + Len(b)
      /\ \A i \in 1 .. Len(a) : ab[i] = a[i]
      /\ \A i \in 1 .. Len(b) : ab[Len(a) + i] = b[i]
  <2>1. a \in Seq(Bytes) /\ b \in Seq(Bytes)
    BY <1>2, <1>3
  <2> HIDE DEF ab
  <2> QED BY <2>1, Concat DEF ab
<1>7. names = ab \o c
  BY <1>5
<1> HIDE DEF ab
<1>8. /\ names \in Seq(Bytes) /\ Len(names) = Len(ab) + Len(c)
      /\ \A i \in 1 .. Len(ab) : names[i] = ab[i]
      /\ \A i \in 1 .. Len(c) : names[Len(ab) + i] = c[i]
  <2>1. ab \in Seq(Bytes) /\ c \in Seq(Bytes)
    BY <1>4, <1>6
  <2>2. /\ ab \o c \in Seq(Bytes) /\ Len(ab \o c) = Len(ab) + Len(c)
        /\ \A i \in 1 .. Len(ab) : (ab \o c)[i] = ab[i]
        /\ \A i \in 1 .. Len(c) : (ab \o c)[Len(ab) + i] = c[i]
    BY <2>1, Concat
  <2> QED BY <1>7, <2>2, Zenon
<1>9. Len(ab) = Len(o) + Len(t) + 2
  BY <1>2, <1>3, <1>6
<1>10. /\ Len(names) = Len(o) + Len(t) + 4 /\ names[1] = Len(o)
       /\ \A i \in 1 .. Len(o) : names[i + 1] = o[i]
  <2>1. 1 \in 1 .. Len(ab) /\ 1 \in 1 .. Len(a)
    BY <1>2, <1>3, <1>9
  <2>3. names[1] = Len(o)
    BY <1>2, <1>6, <1>8, <2>1
  <2>4. Len(names) = Len(o) + Len(t) + 4
    BY <1>2, <1>3, <1>4, <1>8, <1>9
  <2>2. ASSUME NEW i \in 1 .. Len(o) PROVE names[i + 1] = o[i]
    <3>1. i + 1 \in 1 .. Len(a) /\ i + 1 \in 1 .. Len(ab)
      BY <1>2, <1>3, <1>9
    <3> QED BY <1>2, <1>6, <1>8, <3>1
  <2> QED BY <2>2, <2>3, <2>4
<1>11. /\ names[Len(o) + 2] = Len(t)
       /\ \A i \in 1 .. Len(t) : names[Len(o) + 2 + i] = t[i]
  <2>1. ASSUME NEW i \in 1 .. Len(b) PROVE names[Len(o) + 1 + i] = b[i]
    <3>1. Len(a) + i = Len(o) + 1 + i /\ Len(a) + i \in 1 .. Len(ab)
      BY <1>2, <1>3, <1>9
    <3> QED BY <1>6, <1>8, <3>1
  <2>2. names[Len(o) + 2] = Len(t)
    <3>1. 1 \in 1 .. Len(b) /\ Len(o) + 1 + 1 = Len(o) + 2
      BY <1>2, <1>3
    <3> QED BY <1>3, <2>1, <3>1
  <2>3. ASSUME NEW i \in 1 .. Len(t) PROVE names[Len(o) + 2 + i] = t[i]
    <3>1. i + 1 \in 1 .. Len(b) /\ Len(o) + 1 + (i + 1) = Len(o) + 2 + i
      BY <1>2, <1>3
    <3> QED BY <1>3, <2>1, <3>1
  <2> QED BY <2>2, <2>3
<1>12. names[Len(o) + Len(t) + 3] = 1
  <2>1. 1 \in 1 .. Len(c) /\ Len(ab) + 1 = Len(o) + Len(t) + 3
    BY <1>2, <1>3, <1>4, <1>9
  <2> QED BY <1>4, <1>8, <2>1
<1> QED BY <1>8, <1>10, <1>11, <1>12 DEF NamesParts

\* What APPS answers the lookup with for one access point.
ReplyFrom(lookup, ap, enumerator) ==
    send_fake_nbp_LkUpReply(nbp_addr(lookup), enumerator, ap.name, ap.crc32, <<42>>)

\* Where things are in the faked reply.
ReplyParts(reply, lookup, ap, content, names) ==
    /\ reply = WithFcs(content)
    /\ Len(content) = 15 + Len(names)
    /\ names = Names(ap.name, LookupType)
    /\ content[1] = nbp_addr(lookup).node /\ content[3] = 1
    /\ content[6] = nbp_addr(lookup).socket /\ content[10] = nbp_id(lookup)
    /\ \A i \in 1 .. Len(names) : content[15 + i] = names[i]

\* The faked reply has these parts.
LEMMA ReplyIs ==
    ASSUME NEW lookup \in Seq(Bytes), NEW ap \in AccessPoints, NEW enumerator \in 0 .. 1,
           NEW reply,
           reply = ReplyFrom(lookup, ap, enumerator)
    PROVE  \E content \in Seq(Bytes) : \E names : ReplyParts(reply, lookup, ap, content, names)
<1> DEFINE names == Names(ap.name, LookupType)
           node == nbp_addr(lookup).node  socket == nbp_addr(lookup).socket
           id == nbp_addr(lookup).nbp_id
           low == ap.crc32 % 256
           start == <<low, low, low, low, enumerator>>
           tuple == start \o names
           length == (Len(tuple) + 2 + 5) % 256
           a == <<node, 129, 1>>   b == <<0, length, socket, 2, 2>>   c == <<49, id>>
<1>1. node \in Bytes /\ socket \in Bytes /\ id \in Bytes /\ id = nbp_id(lookup)
  <2>1. ddp_payload_offset(lookup) \in Nat
    BY DEF ddp_payload_offset
  <2>2. /\ node = Byte(lookup, ddp_payload_offset(lookup) + 2 + 2)
        /\ socket = Byte(lookup, ddp_payload_offset(lookup) + 2 + 3)
        /\ id = Byte(lookup, ddp_payload_offset(lookup) + 1) /\ id = nbp_id(lookup)
    BY DEF nbp_addr, nbp_tuple, nbp_id
  <2> HIDE DEF node, socket, id
  <2> QED BY <2>1, <2>2, ByteIsByte
<1>2. /\ ap.name \in Seq(Bytes) /\ LookupType \in Seq(Bytes)
      /\ Len(ap.name) \in Bytes /\ Len(LookupType) \in Bytes /\ low \in Bytes
  <2>1. /\ ap.name \in Seq(0 .. 255) /\ LookupType \in Seq(1 .. 255) /\ ap.crc32 \in Nat
        /\ Len(ap.name) + Len(LookupType) + 19 <= 255
    BY RepliesAssumption
  <2>2. LookupType \in Seq(Bytes)
    <3>1. 1 .. 255 \subseteq Bytes
      BY DEF Bytes
    <3> QED BY <2>1, <3>1, SeqMonotonic
  <2>3. Len(ap.name) \in Nat /\ Len(LookupType) \in Nat
    BY <2>1
  <2>4. ap.name \in Seq(Bytes)
    BY <2>1, BytesInterval
  <2>5. Len(ap.name) \in Bytes /\ Len(LookupType) \in Bytes /\ low \in Bytes
    BY <2>1, <2>3 DEF Bytes
  <2> QED BY <2>2, <2>4, <2>5
<1> HIDE DEF node, socket, id, low
<1>3. names \in Seq(Bytes)
  BY <1>2, Strings DEF NamesParts
<1>4. start \in Seq(Bytes) /\ Len(start) = 5
  <2>1. enumerator \in Bytes
    BY DEF Bytes
  <2> QED BY <1>2, <2>1
<1> HIDE DEF names, start
<1>5. /\ tuple \in Seq(Bytes) /\ Len(tuple) = 5 + Len(names) /\ Len(names) \in Nat
      /\ \A i \in 1 .. Len(names) : tuple[5 + i] = names[i]
  <2>1. /\ tuple \in Seq(Bytes) /\ Len(tuple) = Len(start) + Len(names) /\ Len(names) \in Nat
        /\ \A i \in 1 .. Len(names) : tuple[Len(start) + i] = names[i]
    <3>1. start \in Seq(Bytes) /\ names \in Seq(Bytes)
      BY <1>3, <1>4
    <3> QED BY <3>1, Concat
  <2> QED BY <1>4, <2>1
<1> HIDE DEF tuple
<1>6. length \in Bytes
  BY <1>5 DEF Bytes
<1> HIDE DEF length
<1>7. a \in Seq(Bytes) /\ Len(a) = 3 /\ a[1] = node /\ a[3] = 1
  <2>1. 129 \in Bytes /\ 1 \in Bytes
    BY DEF Bytes
  <2> QED BY <1>1, <2>1
<1>8. b \in Seq(Bytes) /\ Len(b) = 5 /\ b[3] = socket
  <2>1. 0 \in Bytes /\ 2 \in Bytes
    BY DEF Bytes
  <2> QED BY <1>1, <1>6, <2>1
<1>9. c \in Seq(Bytes) /\ Len(c) = 2 /\ c[2] = id
  <2>1. 49 \in Bytes
    BY DEF Bytes
  <2> QED BY <1>1, <2>1
<1> DEFINE ab == a \o b   abc == ab \o c   content == abc \o tuple
<1>10. reply = WithFcs(content)
  BY DEF ReplyFrom, send_fake_nbp_LkUpReply, Names, node, socket, id, low, names, start,
      tuple, length
<1> HIDE DEF a, b, c
<1>11. ab \in Seq(Bytes) /\ Len(ab) = 8 /\ ab[1] = node /\ ab[3] = 1 /\ ab[6] = socket
  <2>1. /\ ab \in Seq(Bytes) /\ Len(ab) = Len(a) + Len(b)
        /\ \A i \in 1 .. Len(a) : ab[i] = a[i]
        /\ \A i \in 1 .. Len(b) : ab[Len(a) + i] = b[i]
    <3>1. a \in Seq(Bytes) /\ b \in Seq(Bytes)
      BY <1>7, <1>8
    <3> QED BY <3>1, Concat
  <2>2. /\ 1 \in 1 .. Len(a) /\ 3 \in 1 .. Len(a) /\ 3 \in 1 .. Len(b) /\ Len(a) + 3 = 6
    BY <1>7, <1>8
  <2> HIDE DEF ab
  <2> QED BY <1>7, <1>8, <2>1, <2>2
<1> HIDE DEF ab
<1>12. /\ abc \in Seq(Bytes) /\ Len(abc) = 10
       /\ abc[1] = node /\ abc[3] = 1 /\ abc[6] = socket /\ abc[10] = id
  <2>1. /\ abc \in Seq(Bytes) /\ Len(abc) = Len(ab) + Len(c)
        /\ \A i \in 1 .. Len(ab) : abc[i] = ab[i]
        /\ \A i \in 1 .. Len(c) : abc[Len(ab) + i] = c[i]
    <3>1. ab \in Seq(Bytes) /\ c \in Seq(Bytes)
      BY <1>9, <1>11
    <3> QED BY <3>1, Concat
  <2>2. {1, 3, 6} \subseteq 1 .. Len(ab) /\ 2 \in 1 .. Len(c) /\ Len(ab) + 2 = 10
    BY <1>9, <1>11
  <2> HIDE DEF abc
  <2> QED BY <1>9, <1>11, <2>1, <2>2
<1> HIDE DEF abc
<1>13. /\ content \in Seq(Bytes) /\ Len(content) = Len(abc) + Len(tuple)
       /\ \A i \in 1 .. Len(abc) : content[i] = abc[i]
       /\ \A i \in 1 .. Len(tuple) : content[Len(abc) + i] = tuple[i]
  <2>1. abc \in Seq(Bytes) /\ tuple \in Seq(Bytes)
    BY <1>5, <1>12
  <2> QED BY <2>1, Concat
<1> HIDE DEF content
<1>14. content[1] = node /\ content[3] = 1 /\ content[6] = socket /\ content[10] = id
  <2>1. {1, 3, 6, 10} \subseteq 1 .. Len(abc)
    BY <1>12
  <2> QED BY <1>12, <1>13, <2>1
<1>15. Len(content) = 15 + Len(names)
  BY <1>5, <1>12, <1>13
<1>16. ASSUME NEW i \in 1 .. Len(names) PROVE content[15 + i] = names[i]
  <2>1. 5 + i \in 1 .. Len(tuple) /\ Len(abc) + (5 + i) = 15 + i
    BY <1>5, <1>12
  <2> QED BY <1>5, <1>13, <2>1
<1>17. /\ names = Names(ap.name, LookupType)
       /\ node = nbp_addr(lookup).node /\ socket = nbp_addr(lookup).socket
  BY DEF names, node, socket
<1>18. content \in Seq(Bytes)
  BY <1>13
<1>19. ReplyParts(reply, lookup, ap, content, names)
  BY <1>1, <1>10, <1>14, <1>15, <1>16, <1>17 DEF ReplyParts
<1> QED BY <1>18, <1>19

\* The faked reply fits, and answers the lookup.
LEMMA ReplyAnswers ==
    ASSUME NEW lookup \in Seq(Bytes), NEW ap \in AccessPoints, NEW enumerator \in 0 .. 1,
           NEW reply,
           reply = ReplyFrom(lookup, ap, enumerator)
    PROVE  Fitting(reply) /\ Answers(reply, lookup)
<1>1. PICK content \in Seq(Bytes) : \E names : ReplyParts(reply, lookup, ap, content, names)
  BY ReplyIs
<1>0. PICK names : ReplyParts(reply, lookup, ap, content, names)
  BY <1>1
<1> DEFINE o == ap.name   t == LookupType   a == Len(o)   b == Len(t)
<1>2. /\ o \in Seq(Bytes) /\ t \in Seq(Bytes) /\ a \in Nat /\ b \in Nat
      /\ a < 256 /\ b < 256 /\ a + b + 21 <= PacketSize
  <2>1. /\ o \in Seq(0 .. 255) /\ t \in Seq(1 .. 255)
        /\ a + b + 21 <= PacketSize /\ a + b + 19 <= 255
    BY RepliesAssumption
  <2>2. t \in Seq(Bytes)
    <3>1. 1 .. 255 \subseteq Bytes
      BY DEF Bytes
    <3> QED BY <2>1, <3>1, SeqMonotonic
  <2>3. a \in Nat /\ b \in Nat
    BY <2>1
  <2>4. o \in Seq(Bytes)
    BY <2>1, BytesInterval
  <2> QED BY <2>1, <2>2, <2>3, <2>4
<1>3. /\ Len(names) = a + b + 4 /\ names[1] = a /\ names[a + 2] = b /\ names[a + b + 3] = 1
      /\ \A i \in 1 .. a : names[i + 1] = o[i]
      /\ \A i \in 1 .. b : names[a + 2 + i] = t[i]
  <2>1. Len(o) \in Bytes /\ Len(t) \in Bytes
    BY <1>2 DEF Bytes
  <2>2. names = Names(o, t)
    BY <1>0 DEF ReplyParts
  <2>3. o \in Seq(Bytes) /\ t \in Seq(Bytes)
    BY <1>2
  <2> HIDE DEF o, t, a, b
  <2>4. NamesParts(names, o, t)
    BY <2>1, <2>2, <2>3, Strings
  <2> QED BY <2>4 DEF NamesParts, a, b
<1>4. reply = WithFcs(content) /\ Len(content) = a + b + 19
  <2>1. reply = WithFcs(content) /\ Len(content) = 15 + Len(names)
    BY <1>0 DEF ReplyParts
  <2> HIDE DEF a, b
  <2> QED BY <1>2, <1>3, <2>1
<1>5. /\ content[1] = nbp_addr(lookup).node /\ content[3] = 1
      /\ content[6] = nbp_addr(lookup).socket /\ content[10] = nbp_id(lookup)
      /\ \A i \in 1 .. Len(names) : content[15 + i] = names[i]
  BY <1>0 DEF ReplyParts
<1> HIDE DEF a, b, o, t
<1>6. /\ content[16] = a /\ content[a + 17] = b /\ content[a + b + 18] = 1
      /\ \A i \in 1 .. a : content[16 + i] = o[i]
      /\ \A i \in 1 .. b : content[a + 17 + i] = t[i]
  <2>1. /\ 1 \in 1 .. Len(names) /\ a + 2 \in 1 .. Len(names) /\ a + b + 3 \in 1 .. Len(names)
        /\ 15 + 1 = 16 /\ 15 + (a + 2) = a + 17 /\ 15 + (a + b + 3) = a + b + 18
    BY <1>2, <1>3
  <2>2. content[16] = a /\ content[a + 17] = b /\ content[a + b + 18] = 1
    BY <1>3, <1>5, <2>1, ZenonT(30)
  <2>3. ASSUME NEW i \in 1 .. a PROVE content[16 + i] = o[i]
    <3>1. i + 1 \in 1 .. Len(names) /\ 15 + (i + 1) = 16 + i
      BY <1>2, <1>3
    <3> QED BY <1>3, <1>5, <3>1
  <2>4. ASSUME NEW i \in 1 .. b PROVE content[a + 17 + i] = t[i]
    <3>1. a + 2 + i \in 1 .. Len(names) /\ 15 + (a + 2 + i) = a + 17 + i
      BY <1>2, <1>3
    <3> QED BY <1>3, <1>5, <3>1
  <2> QED BY <2>2, <2>3, <2>4
<1>7. /\ reply \in Seq(Bytes) /\ Len(reply) = a + b + 21
      /\ \A i \in 1 .. Len(content) : reply[i] = content[i]
  <2>1. Whole(content) = reply
    BY <1>4, Sequences
  <2>2. Len(reply) = Len(content) + 2
    BY <2>1, Sequences
  <2>3. Len(reply) = a + b + 21
    BY <1>2, <1>4, <2>2
  <2> QED BY <2>1, <2>3, Sequences
<1>8. ASSUME NEW i \in 0 .. a + b + 18 PROVE Byte(reply, i) = content[i + 1]
  <2>1. i < Len(reply) /\ i + 1 \in 1 .. Len(content)
    BY <1>2, <1>4, <1>7
  <2> QED BY <1>7, <2>1 DEF Byte
<1>9. /\ Byte(reply, 0) = nbp_addr(lookup).node /\ Byte(reply, 2) = 1
      /\ Byte(reply, 5) = nbp_addr(lookup).socket /\ Byte(reply, 9) = nbp_id(lookup)
      /\ Byte(reply, 15) = a /\ Byte(reply, a + 16) = b /\ Byte(reply, a + b + 17) = 1
  <2>1. /\ {0, 2, 5, 9, 15, a + 16, a + b + 17} \subseteq 0 .. a + b + 18
        /\ (a + 16) + 1 = a + 17 /\ (a + b + 17) + 1 = a + b + 18
    BY <1>2
  <2>2. /\ Byte(reply, 0) = content[0 + 1] /\ Byte(reply, 2) = content[2 + 1]
        /\ Byte(reply, 5) = content[5 + 1] /\ Byte(reply, 9) = content[9 + 1]
        /\ Byte(reply, 15) = content[15 + 1]
    BY <1>8, <2>1
  <2>3. Byte(reply, a + 16) = b
    BY <1>6, <1>8, <2>1
  <2>4. Byte(reply, a + b + 17) = 1
    BY <1>6, <1>8, <2>1
  <2> QED BY <1>5, <1>6, <2>2, <2>3, <2>4, SMTT(30)
<1>10. ddp_payload_offset(reply) = 8 /\ ~ddp_has_long_header(reply)
  BY <1>9 DEF ddp_payload_offset, ddp_has_long_header
<1>11. /\ ddp_destination_socket(reply) = nbp_addr(lookup).socket
       /\ nbp_id(reply) = nbp_id(lookup)
  <2>1. ~(Len(reply) <= 7)
    BY <1>2, <1>7, SMTT(30)
  <2> QED BY <1>9, <1>10, <2>1 DEF ddp_destination_socket, nbp_id
<1>12. /\ PastString(reply, 15) = a + 16 /\ PastString(reply, a + 16) = a + b + 17
       /\ Fits(reply, 15) /\ Fits(reply, a + 16) /\ Fits(reply, a + b + 17)
  <2>1. PastString(reply, 15) = a + 16 /\ Fits(reply, 15)
    BY <1>2, <1>7, <1>9, SMTT(30) DEF PastString, Fits
  <2>2. PastString(reply, a + 16) = a + b + 17 /\ Fits(reply, a + 16)
    <3>1. PastString(reply, a + 16) = (a + 16) + b + 1
      BY <1>9 DEF PastString
    <3>2. Fits(reply, a + 16) = ((a + 16) + b < Len(reply))
      BY <1>9 DEF Fits
    <3>3. (a + 16) + b + 1 = a + b + 17 /\ (a + 16) + b < Len(reply)
      BY <1>2, <1>7
    <3> QED BY <3>1, <3>2, <3>3
  <2>3. Fits(reply, a + b + 17)
    BY <1>2, <1>7, <1>9, SMTT(30) DEF Fits
  <2> QED BY <2>1, <2>2, <2>3
<1>13. String(reply, 15) = o
  <2>1. String(reply, 15) = SubSeq(reply, 16 + 1, 16 + Len(o))
    <3>1. 15 + 2 = 16 + 1 /\ 15 + 1 + a = 16 + a /\ a = Len(o)
      BY <1>2 DEF a
    <3> QED BY <1>9, <1>12, <3>1 DEF String
  <2>2. ASSUME NEW i \in 1 .. Len(o) PROVE reply[16 + i] = o[i]
    <3>1. 16 + i \in 1 .. Len(content) /\ i \in 1 .. a
      BY <1>2, <1>4 DEF a
    <3> QED BY <1>6, <1>7, <3>1
  <2>3. 16 + Len(o) <= Len(reply)
    BY <1>2, <1>7 DEF a
  <2> QED BY <1>2, <1>7, <2>1, <2>2, <2>3, SliceIs
<1>14. String(reply, a + 16) = t
  <2>1. String(reply, a + 16) = SubSeq(reply, (a + 17) + 1, (a + 17) + Len(t))
    <3>1. (a + 16) + 2 = (a + 17) + 1 /\ (a + 16) + 1 + b = (a + 17) + b /\ b = Len(t)
      BY <1>2 DEF b
    <3> QED BY <1>9, <1>12, <3>1 DEF String
  <2>2. ASSUME NEW i \in 1 .. Len(t) PROVE reply[(a + 17) + i] = t[i]
    <3>1. a + 17 + i \in 1 .. Len(content) /\ i \in 1 .. b
      BY <1>2, <1>4 DEF b
    <3> QED BY <1>6, <1>7, <3>1
  <2>3. (a + 17) + Len(t) <= Len(reply) /\ a + 17 \in Nat
    BY <1>2, <1>7 DEF b
  <2> QED BY <1>2, <1>7, <2>1, <2>2, <2>3, SliceIs
<1>15. /\ nbp_tuple(reply).ok
       /\ nbp_tuple(reply).object = ap.name /\ nbp_tuple(reply).type = LookupType
  <2>1. /\ nbp_tuple(reply).ok = \A string \in {15, a + 16, a + b + 17} : Fits(reply, string)
        /\ nbp_tuple(reply).object = String(reply, 15)
        /\ nbp_tuple(reply).type = String(reply, a + 16)
    BY <1>10, <1>12 DEF nbp_tuple
  <2> QED BY <1>12, <1>13, <1>14, <2>1 DEF o, t
<1>16. Answers(reply, lookup)
  BY <1>9, <1>11, <1>15 DEF Answers
<1>17. Len(content) >= 4 /\ Len(content) + 2 <= PacketSize
  BY <1>2, <1>4, PacketSizeAssumption
<1> QED BY <1>4, <1>16, <1>17 DEF Fitting

\* What a byte does to the packet.
LEMMA AppendIs ==
    ASSUME NEW p \in Seq(Bytes), Len(p) <= PacketSize, NEW b \in Bytes
    PROVE  /\ append(p, b) \in Seq(Bytes) /\ Len(append(p, b)) <= PacketSize
           /\ Len(append(p, b)) >= Len(p) /\ Len(append(p, b)) <= Len(p) + 1
           /\ \A i \in 1 .. Len(p) : append(p, b)[i] = p[i]
<1>1. Len(p) \in Nat /\ PacketSize \in Nat
  BY PacketSizeAssumption, LenProperties
<1>2. CASE Len(p) < PacketSize
  <2>1. append(p, b) = Append(p, b)
    BY <1>2 DEF append
  <2>2. /\ Append(p, b) \in Seq(Bytes) /\ Len(Append(p, b)) = Len(p) + 1
        /\ \A i \in 1 .. Len(p) : Append(p, b)[i] = p[i]
    BY AppendProperties
  <2> HIDE DEF append
  <2> QED BY <1>1, <1>2, <2>1, <2>2
<1>3. CASE ~(Len(p) < PacketSize)
  <2>1. append(p, b) = p
    BY <1>3 DEF append
  <2> QED BY <1>1, <2>1
<1> QED BY <1>2, <1>3

\* A packet that has just been started.
LEMMA NewPacketIs ==
    /\ NewPacket \in [in_escape : BOOLEAN, packet : Seq(Bytes)]
    /\ NewPacket.in_escape = FALSE /\ NewPacket.packet = <<>>
    /\ Len(NewPacket.packet) = 0 /\ Len(NewPacket.packet) <= PacketSize
  BY PacketSizeAssumption, EmptySeq DEF NewPacket, Nothing

\* The frame under way is of the kind TLA+ makes sense of.
LEMMA SentIs ==
    ASSUME history \in Seq(Contents), history # <<>>
    PROVE  /\ Sent \in Contents /\ Sent \in Seq(Bytes) /\ Whole(Sent) \in Seq(Bytes)
           /\ Len(Whole(Sent)) = Len(Sent) + 2 /\ Len(Sent) \in Nat
<1>1. Len(history) \in 1 .. Len(history)
  BY EmptySeq
<1>2. Sent \in Contents
  BY <1>1, ElementOfSeq DEF Sent
<1> HIDE DEF Sent
<1>3. Sent \in Seq(Bytes)
  BY <1>2, Sequences
<1> QED BY <1>2, <1>3, Sequences, LenProperties

\* A new frame is on the wire from its first byte on.
LEMMA ReceivesIs ==
    ASSUME history \in Seq(Contents), NEW content \in Contents, TashTalkReceives(content)
    PROVE  /\ content \in Seq(Bytes) /\ history' \in Seq(Contents) /\ history' # <<>>
           /\ Sent' = content /\ line' = Wire(Whole(content))[0 + 1]
           /\ line' \in Seq(Bytes) /\ Orderly(line') /\ Len(line') >= 2
<1>1. content \in Seq(Bytes)
  BY Sequences
<1>2. history' = Append(history, content)
  BY DEF TashTalkReceives
<1>3. /\ history' \in Seq(Contents) /\ history' # <<>> /\ Len(history') = Len(history) + 1
      /\ history'[Len(history) + 1] = content
  BY <1>2, AppendProperties
<1>4. Sent' = content
  BY <1>3 DEF Sent
<1>5. line' = Wire(Whole(content))[1]
  BY DEF TashTalkReceives, Whole
<1>6. Whole(content) \in Seq(Bytes)
  BY <1>1, Sequences
<1> DEFINE f == Whole(content)
<1> HIDE DEF f
<1>7. 0 \in 0 .. Len(f) /\ 1 \in 1 .. Len(f) + 1 /\ 0 + 1 = 1
  BY <1>6, LenProperties DEF f
<1>8. Wire(f)[1] \in Seq(Bytes) /\ Orderly(Wire(f)[1]) /\ Len(Wire(f)[1]) >= 2
  <2>1. Wire(f)[1] \in Seq(Bytes)
    BY <1>6, <1>7, WireIs DEF f
  <2>2. Orderly(Wire(f)[0 + 1]) /\ Len(Wire(f)[0 + 1]) >= 2
    BY <1>6, <1>7, WireOrderly DEF f
  <2> QED BY <1>7, <2>1, <2>2
<1> QED BY <1>1, <1>3, <1>4, <1>5, <1>7, <1>8 DEF f

-----------------------------------------------------------------------------
(* Types.                                                                  *)

\* What the parser does keeps the packet a packet.
LEMMA FeedTypes ==
    ASSUME TypeOK, UartRx
    PROVE  /\ rx' \in [in_escape : BOOLEAN, packet : Seq(Bytes)] /\ Len(rx'.packet) <= PacketSize
           /\ frame' \in Seq(Bytes) /\ written' \in Seq(Bytes)
           /\ line' \in Seq(Bytes) /\ Head(line) \in Bytes
<1>1. /\ rx.in_escape \in BOOLEAN /\ rx.packet \in Seq(Bytes) /\ Len(rx.packet) <= PacketSize
      /\ rx \in [in_escape : BOOLEAN, packet : Seq(Bytes)]
      /\ line \in Seq(Bytes) /\ frame \in Seq(Bytes) /\ written \in Seq(Bytes)
  BY DEF TypeOK
<1>2. line # <<>> /\ line' = Tail(line) /\ feed(Head(line))
  BY DEF UartRx, Nothing
<1>3. Head(line) \in Bytes /\ line' \in Seq(Bytes)
  BY <1>1, <1>2, HeadTailProperties
<1>4. 0 \in Bytes
  BY DEF Bytes
<1>5. \A b \in Bytes : append(rx.packet, b) \in Seq(Bytes) /\ Len(append(rx.packet, b)) <= PacketSize
  BY <1>1, AppendIs
<1> DEFINE b == Head(line)
<1> HIDE DEF b
<1>6. /\ rx' \in [in_escape : BOOLEAN, packet : Seq(Bytes)] /\ Len(rx'.packet) <= PacketSize
      /\ frame' \in {frame, rx.packet} /\ written' \in {written, <<>>}
  <2>0. feed(b)
    BY <1>2 DEF b
  <2>1. CASE rx.in_escape /\ b = 253 /\ rx' = NewPacket /\ HandOver
    BY <2>1, NewPacketIs DEF HandOver, Nothing
  <2>2. CASE rx.in_escape /\ b \in {254, 250} /\ rx' = NewPacket /\ UNCHANGED path
    BY <2>2, NewPacketIs DEF path
  <2>3. CASE /\ rx.in_escape /\ b = 255
             /\ rx' = [in_escape |-> FALSE, packet |-> append(rx.packet, 0)] /\ UNCHANGED path
    BY <1>4, <1>5, <2>3 DEF path
  <2>4. CASE /\ rx.in_escape /\ b \notin {250, 253, 254, 255}
             /\ rx' = [rx EXCEPT !.in_escape = FALSE] /\ UNCHANGED path
    BY <1>1, <2>4 DEF path
  <2>5. CASE ~rx.in_escape /\ b = 0 /\ rx' = [rx EXCEPT !.in_escape = TRUE] /\ UNCHANGED path
    BY <1>1, <2>5 DEF path
  <2>6. CASE /\ ~rx.in_escape /\ b # 0
             /\ rx' = [rx EXCEPT !.packet = append(@, b)] /\ UNCHANGED path
    <3>1. append(rx.packet, b) \in Seq(Bytes) /\ Len(append(rx.packet, b)) <= PacketSize
      BY <1>3, <1>5 DEF b
    <3> QED BY <1>1, <2>6, <3>1 DEF path
  <2> QED BY <2>0, <2>1, <2>2, <2>3, <2>4, <2>5, <2>6 DEF feed
<1>7. <<>> \in Seq(Bytes)
  BY EmptySeq
<1> QED BY <1>1, <1>3, <1>6, <1>7

\* What LToUDP-rx keeps of a datagram, the header apart.
Received(p) == SubSeq(p, 5, IF Len(p) > PacketSize + 2 THEN PacketSize + 2 ELSE Len(p))

\* It is what UART_TX gets.
LEMMA ReceivedIs ==
    ASSUME TypeOK, udp_rx_runloop, stage' # "done", stage' # "unknown"
    PROVE  /\ stage' = "uart_tx" /\ frame' = WithFcs(Received(frame))
           /\ Received(frame) \in Seq(Bytes)
           /\ Len(Received(frame)) >= 4 /\ Len(Received(frame)) + 2 <= PacketSize
           /\ Len(frame) \in Nat /\ Len(frame) > 7
           /\ Len(frame) <= PacketSize + 2 => Len(Received(frame)) = Len(frame) - 4
           /\ Len(frame) > PacketSize + 2 => Len(Received(frame)) = PacketSize - 2
           /\ \A i \in 1 .. Len(Received(frame)) : Received(frame)[i] = frame[4 + i]
<1> DEFINE n == IF Len(frame) > PacketSize + 2 THEN PacketSize + 2 ELSE Len(frame)
           buffer == SubSeq(frame, 1, n)
<1>1. frame \in Seq(Bytes) /\ Len(frame) \in Nat /\ PacketSize \in Nat
  BY PacketSizeAssumption, LenProperties DEF TypeOK
<1>2. n \in Nat /\ n <= Len(frame) /\ n <= PacketSize + 2
  BY <1>1
<1>3. /\ stage' = "uart_tx" /\ frame' = WithFcs(SubSeq(buffer, 5, Len(buffer)))
      /\ ~(Len(buffer) <= 7)
  BY DEF udp_rx_runloop
<1> HIDE DEF n
<1>4. /\ buffer \in Seq(Bytes) /\ Len(buffer) = n
      /\ \A i \in 1 .. n : buffer[i] = frame[i]
  <2>1. 0 \in Nat /\ 0 + n <= Len(frame) /\ 0 + 1 = 1 /\ 0 + n = n
    BY <1>1, <1>2
  <2>2. /\ SubSeq(frame, 0 + 1, 0 + n) \in Seq(Bytes) /\ Len(SubSeq(frame, 0 + 1, 0 + n)) = n
        /\ \A i \in 1 .. n : SubSeq(frame, 0 + 1, 0 + n)[i] = frame[0 + i]
    BY <1>1, <1>2, <2>1, Slice
  <2> QED BY <1>2, <2>1, <2>2
<1> HIDE DEF buffer
<1>5. /\ n > 7 /\ n - 4 \in Nat /\ n = 4 + (n - 4) /\ 4 + (n - 4) <= Len(buffer) /\ 5 = 4 + 1
      /\ 4 + (n - 4) <= Len(frame)
  BY <1>2, <1>3, <1>4
<1>6. /\ SubSeq(buffer, 5, n) \in Seq(Bytes) /\ Len(SubSeq(buffer, 5, n)) = n - 4
      /\ \A i \in 1 .. n - 4 : SubSeq(buffer, 5, n)[i] = buffer[4 + i]
  <2>1. /\ SubSeq(buffer, 4 + 1, 4 + (n - 4)) \in Seq(Bytes)
        /\ Len(SubSeq(buffer, 4 + 1, 4 + (n - 4))) = n - 4
        /\ \A i \in 1 .. n - 4 : SubSeq(buffer, 4 + 1, 4 + (n - 4))[i] = buffer[4 + i]
    BY <1>4, <1>5, Slice, SMTT(30)
  <2> QED BY <1>5, <2>1
<1>7. /\ SubSeq(frame, 5, n) \in Seq(Bytes) /\ Len(SubSeq(frame, 5, n)) = n - 4
      /\ \A i \in 1 .. n - 4 : SubSeq(frame, 5, n)[i] = frame[4 + i]
  <2>1. /\ SubSeq(frame, 4 + 1, 4 + (n - 4)) \in Seq(Bytes)
        /\ Len(SubSeq(frame, 4 + 1, 4 + (n - 4))) = n - 4
        /\ \A i \in 1 .. n - 4 : SubSeq(frame, 4 + 1, 4 + (n - 4))[i] = frame[4 + i]
    BY <1>1, <1>5, Slice
  <2> QED BY <1>5, <2>1
<1>8. SubSeq(buffer, 5, n) = SubSeq(frame, 5, n)
  <2> DEFINE s == SubSeq(buffer, 5, n)   t == SubSeq(frame, 5, n)
  <2>1. ASSUME NEW i \in 1 .. n - 4 PROVE s[i] = t[i]
    <3>1. 4 + i \in 1 .. n
      BY <1>5
    <3> QED BY <1>4, <1>6, <1>7, <3>1
  <2> HIDE DEF s, t
  <2>2. s \in Seq(Bytes) /\ t \in Seq(Bytes) /\ Len(s) = n - 4 /\ Len(t) = n - 4
    BY <1>6, <1>7 DEF s, t
  <2>3. s = t
    BY <2>1, <2>2, SeqEqual
  <2> QED BY <2>3 DEF s, t
<1>9. Received(frame) = SubSeq(frame, 5, n)
  BY DEF Received, n
<1>10. frame' = WithFcs(Received(frame))
  BY <1>3, <1>4, <1>8, <1>9
<1>11. /\ Len(frame) <= PacketSize + 2 => n = Len(frame)
       /\ Len(frame) > PacketSize + 2 => n = PacketSize + 2
  BY <1>1 DEF n
<1> HIDE DEF Received
<1>12. Len(Received(frame)) = n - 4
  BY <1>7, <1>9
<1> QED BY <1>1, <1>2, <1>3, <1>5, <1>7, <1>9, <1>10, <1>11, <1>12

\* A datagram, and the four bytes that come first.
LEMMA HeaderFirst ==
    ASSUME NEW p \in Seq(Bytes)
    PROVE  /\ Header \o p \in Seq(Bytes) /\ Len(Header \o p) = Len(p) + 4
           /\ \A i \in 1 .. Len(p) : (Header \o p)[4 + i] = p[i]
<1>1. Header \in Seq(Bytes) /\ Len(Header) = 4
  BY DEF Header, Bytes
<1> DEFINE s == Header \o p
<1>2. /\ s \in Seq(Bytes) /\ Len(s) = Len(Header) + Len(p) /\ Len(p) \in Nat
      /\ \A i \in 1 .. Len(p) : s[Len(Header) + i] = p[i]
  <2>1. Header \in Seq(Bytes) /\ p \in Seq(Bytes)
    BY <1>1
  <2> HIDE DEF s
  <2> QED BY <2>1, Concat DEF s
<1> HIDE DEF s
<1>3. Len(s) = Len(p) + 4
  BY <1>1, <1>2
<1>4. \A i \in 1 .. Len(p) : s[4 + i] = p[i]
  BY <1>1, <1>2
<1> QED BY <1>2, <1>3, <1>4 DEF s

\* What LToUDP-tx sends of a frame.
Datagram(p) == SubSeq(Header \o p, 1, Len(p) + 2)

\* It has the bytes of the frame behind its header, but for the last two (ip.c:229).
LEMMA DatagramIs ==
    ASSUME NEW p \in Seq(Bytes)
    PROVE  /\ Datagram(p) \in Seq(Bytes) /\ Len(Datagram(p)) = Len(p) + 2 /\ Len(p) \in Nat
           /\ \A i \in 1 .. Len(p) - 2 : Datagram(p)[4 + i] = p[i]
<1> DEFINE s == Header \o p
<1>1. /\ s \in Seq(Bytes) /\ Len(s) = Len(p) + 4 /\ Len(p) \in Nat
      /\ \A i \in 1 .. Len(p) : s[4 + i] = p[i]
  BY HeaderFirst, LenProperties
<1> HIDE DEF s
<1>2. 0 + (Len(p) + 2) <= Len(s) /\ 0 + 1 = 1 /\ 0 + (Len(p) + 2) = Len(p) + 2 /\ Len(p) + 2 \in Nat
  BY <1>1
<1>3. /\ SubSeq(s, 1, Len(p) + 2) \in Seq(Bytes) /\ Len(SubSeq(s, 1, Len(p) + 2)) = Len(p) + 2
      /\ \A i \in 1 .. Len(p) + 2 : SubSeq(s, 1, Len(p) + 2)[i] = s[0 + i]
  <2>1. /\ SubSeq(s, 0 + 1, 0 + (Len(p) + 2)) \in Seq(Bytes)
        /\ Len(SubSeq(s, 0 + 1, 0 + (Len(p) + 2))) = Len(p) + 2
        /\ \A i \in 1 .. Len(p) + 2 : SubSeq(s, 0 + 1, 0 + (Len(p) + 2))[i] = s[0 + i]
    BY <1>1, <1>2, Slice
  <2> QED BY <1>2, <2>1
<1>4. Datagram(p) = SubSeq(s, 1, Len(p) + 2)
  BY DEF Datagram, s
<1>5. ASSUME NEW i \in 1 .. Len(p) - 2 PROVE Datagram(p)[4 + i] = p[i]
  <2>1. 4 + i \in 1 .. Len(p) + 2 /\ i \in 1 .. Len(p) /\ 0 + (4 + i) = 4 + i
    BY <1>1
  <2>2. SubSeq(s, 1, Len(p) + 2)[4 + i] = s[4 + i]
    BY <1>3, <2>1
  <2> QED BY <1>1, <1>4, <2>1, <2>2
<1> QED BY <1>1, <1>3, <1>4, <1>5

\* Every action keeps the types.
LEMMA TypeStep ==
    ASSUME TypeOK, [Next]_vars
    PROVE  TypeOK'
<1>1. ASSUME NEW content \in Contents, TashTalkReceives(content) PROVE TypeOK'
  <2>1. history' \in Seq(Contents) /\ history' # <<>> /\ line' \in Seq(Bytes)
    BY <1>1, ReceivesIs DEF TypeOK
  <2>2. <<>> \in Seq(Bytes)
    BY EmptySeq
  <2> QED BY <1>1, <2>1, <2>2 DEF TypeOK, TashTalkReceives, Nothing
<1>2. CASE TashTalkGivesUp
  <2>1. \A code \in {254, 250} : <<0, code>> \in Seq(Bytes)
    BY DEF Bytes
  <2>2. line # <<>>
    BY <1>2, EmptySeq DEF TashTalkGivesUp
  <2>3. line' \in Seq(Bytes) /\ intact' = FALSE
    <3>1. PICK code \in {254, 250} : line' = <<0, code>>
      BY <1>2 DEF TashTalkGivesUp
    <3>2. intact' = FALSE
      BY <1>2 DEF TashTalkGivesUp
    <3> QED BY <2>1, <3>1, <3>2
  <2>4. UNCHANGED <<history, quiet, lost, found, rx, path>>
    BY <1>2 DEF TashTalkGivesUp
  <2> QED BY <2>2, <2>3, <2>4 DEF TypeOK, path, Nothing
<1>3. CASE LoseByte
  <2>1. line' \in Seq(Bytes)
    BY <1>3, HeadTailProperties DEF TypeOK, LoseByte, Nothing
  <2>2. found' \in BOOLEAN
    BY <1>3 DEF TypeOK, LoseByte
  <2>3. /\ line # Nothing /\ lost' = lost + 1 /\ quiet' = 0 /\ intact' = FALSE
        /\ UNCHANGED <<history, rx, path>>
    BY <1>3 DEF LoseByte
  <2>4. quiet' \in 0 .. 3 /\ lost' \in Nat /\ intact' \in BOOLEAN
    <3>1. lost \in Nat
      BY DEF TypeOK
    <3>2. lost' = lost + 1 /\ quiet' = 0 /\ intact' = FALSE
      BY <2>3
    <3>3. lost' \in Nat /\ quiet' \in 0 .. 3
      BY <3>1, <3>2
    <3> QED BY <3>2, <3>3
  <2>5. line # Nothing /\ history' = history /\ rx' = rx /\ frame' = frame /\ written' = written
    BY <2>3 DEF path
  <2> QED BY <2>1, <2>2, <2>4, <2>5 DEF TypeOK
<1>4. CASE UartRx
  <2>1. /\ rx' \in [in_escape : BOOLEAN, packet : Seq(Bytes)] /\ Len(rx'.packet) <= PacketSize
        /\ frame' \in Seq(Bytes) /\ written' \in Seq(Bytes) /\ line' \in Seq(Bytes)
    BY <1>4, FeedTypes
  <2>2. /\ UNCHANGED <<history, lost, found, intact>> /\ line # Nothing
        /\ quiet' = IF quiet < 3 THEN quiet + 1 ELSE 3
    BY <1>4 DEF UartRx
  <2> QED BY <2>1, <2>2 DEF TypeOK, Nothing
<1>5. CASE do_something_sensible_with_packet
  BY <1>5 DEF TypeOK, do_something_sensible_with_packet, stream
<1>6. CASE Reply
  <2>1. PICK ap \in AccessPoints, enumerator \in 0 .. 1 :
            frame' = ReplyFrom(frame, ap, enumerator)
    BY <1>6 DEF Reply, ReplyFrom
  <2>2. frame \in Seq(Bytes)
    BY DEF TypeOK
  <2>3. frame' \in Seq(Bytes)
    <3>1. Fitting(frame')
      BY <2>1, <2>2, ReplyAnswers
    <3> QED BY <3>1, Sequences DEF Fitting
  <2> QED BY <1>6, <2>3 DEF TypeOK, Reply, stream
<1>7. CASE apps_runloop
  BY <1>7 DEF TypeOK, apps_runloop, stream
<1>8. CASE udp_tx_runloop
  <2>1. frame' \in {frame, Datagram(frame)}
    BY <1>8 DEF udp_tx_runloop, Datagram
  <2>2. frame' \in Seq(Bytes)
    BY <2>1, DatagramIs DEF TypeOK
  <2> QED BY <1>8, <2>2 DEF TypeOK, udp_tx_runloop, stream
<1>9. CASE udp_rx_runloop
  <2>1. frame' \in Seq(Bytes)
    <3>1. CASE stage' # "done" /\ stage' # "unknown"
      BY <1>9, <3>1, ReceivedIs, Sequences
    <3>2. CASE stage' \in {"done", "unknown"}
      BY <1>9, <3>2 DEF TypeOK, udp_rx_runloop
    <3> QED BY <3>1, <3>2
  <2> QED BY <1>9, <2>1 DEF TypeOK, udp_rx_runloop, stream
<1>10. CASE OtherHostSends
  <2>1. \A datagram \in Datagrams : Header \o datagram \in Seq(Bytes)
    BY Sequences, HeaderFirst
  <2>2. <<>> \in Seq(Bytes)
    BY EmptySeq
  <2> QED BY <1>10, <2>1, <2>2 DEF TypeOK, OtherHostSends, stream, Nothing
<1>11. CASE uart_tx_runloop
  <2>1. <<>> \in Seq(Bytes)
    BY EmptySeq
  <2> QED BY <1>11, <2>1 DEF TypeOK, uart_tx_runloop, stream, Nothing
<1>12. CASE UNCHANGED vars
  BY <1>12 DEF TypeOK, vars, stream, path
<1> QED BY <1>1, <1>2, <1>3, <1>4, <1>5, <1>6, <1>7, <1>8, <1>9, <1>10, <1>11, <1>12 DEF Next, Apps, Udp

\* The types hold from the start.
LEMMA TypeInit ==
    ASSUME Init
    PROVE  TypeOK
  BY NewPacketIs, EmptySeq DEF Init, TypeOK, Nothing

\* Every variable keeps its type; in particular the packet never has more bytes than a
\* buffer (tashtalk.c:35-42).
THEOREM TypesHold == Spec => []TypeOK
  BY TypeInit, TypeStep, PTL DEF Spec

-----------------------------------------------------------------------------
(* The parser finds its way back into step.                                *)

\* When the parser goes into an escape, and out of it.
LEMMA FeedEscapes ==
    ASSUME TypeOK, UartRx
    PROVE  /\ rx'.in_escape => ~rx.in_escape /\ Head(line) = 0
           /\ rx.in_escape /\ Head(line) \in {250, 253, 254} => rx' = NewPacket
           /\ ~rx.in_escape /\ Head(line) = 0 => rx'.in_escape
<1>1. rx \in [in_escape : BOOLEAN, packet : Seq(Bytes)]
  BY DEF TypeOK
<1>2. feed(Head(line))
  BY DEF UartRx
<1> QED BY <1>1, <1>2, NewPacketIs DEF feed

\* Every action keeps the parser in step, once it is.
LEMMA SyncStep ==
    ASSUME TypeOK, Sync, [Next]_vars
    PROVE  Sync'
<1>0. line \in Seq(Bytes) /\ quiet \in 0 .. 3 /\ Orderly(line) /\ Len(line) \in Nat
  BY LenProperties DEF TypeOK, Sync
<1>1. ASSUME NEW content \in Contents, TashTalkReceives(content) PROVE Sync'
  <2>1. Orderly(line') /\ Len(line') >= 2 /\ line' # <<>>
    <3>1. Orderly(line') /\ Len(line') >= 2
      BY <1>1, ReceivesIs DEF TypeOK
    <3> QED BY <3>1, EmptySeq
  <2>2. line = Nothing /\ quiet' = quiet /\ rx' = rx
    BY <1>1 DEF TashTalkReceives
  <2>3. ~(Len(line') = 1)
    BY <2>1, SMTT(30)
  <2> QED BY <2>1, <2>2, <2>3 DEF Sync, Nothing
<1>2. CASE TashTalkGivesUp
  <2>1. PICK code \in {254, 250} : line' = <<0, code>>
    BY <1>2 DEF TashTalkGivesUp
  <2>2. Orderly(line') /\ Len(line') = 2 /\ line' # <<>>
    BY <2>1 DEF Orderly
  <2>3. Len(line) > 2 /\ Head(line) # 255 /\ quiet' = quiet /\ rx' = rx
    BY <1>2 DEF TashTalkGivesUp
  <2>4. quiet >= 1 => ~rx.in_escape
    BY <1>0, <2>3 DEF Sync
  <2> QED BY <2>2, <2>3, <2>4 DEF Sync, Nothing
<1>3. CASE LoseByte
  <2>1. line # <<>> /\ line' = Tail(line) /\ quiet' = 0
    BY <1>3 DEF LoseByte, Nothing
  <2>2. Orderly(line')
    BY <1>0, <2>1, OrderlyTail
  <2> QED BY <2>1, <2>2 DEF Sync
<1>4. CASE UartRx
  <2>1. /\ line # <<>> /\ line' = Tail(line)
        /\ quiet' = IF quiet < 3 THEN quiet + 1 ELSE 3
    BY <1>4 DEF UartRx, Nothing
  <2>2. /\ Head(line) \in Bytes /\ line' \in Seq(Bytes) /\ Orderly(line')
        /\ Len(line') = Len(line) - 1
        /\ Len(line) = 1 => Head(line) \in {250, 253, 254}
        /\ Len(line) = 2 => Head(line) = 0
        /\ Len(line) >= 3 /\ Head(line) = 0 => Head(line') = 255
    BY <1>0, <2>1, OrderlyTail
  <2>3. /\ rx'.in_escape => ~rx.in_escape /\ Head(line) = 0
        /\ rx.in_escape /\ Head(line) \in {250, 253, 254} => rx' = NewPacket
        /\ ~rx.in_escape /\ Head(line) = 0 => rx'.in_escape
    BY <1>4, FeedEscapes
  <2>4. /\ quiet' >= 1 /\ (quiet' >= 2 => quiet >= 1) /\ (quiet' >= 3 => quiet >= 2)
    BY <1>0, <2>1
  <2>5. line' = <<>> => Len(line) = 1
    BY <1>0, <2>2, EmptySeq
  <2>6. ASSUME Len(line') >= 2, Head(line') # 255 PROVE ~rx'.in_escape
    <3>1. Len(line) >= 3
      BY <1>0, <2>2, <2>6
    <3> QED BY <2>2, <2>3, <2>6, <3>1
  <2>7. ASSUME line' = <<>> PROVE ~rx'.in_escape
    BY <2>2, <2>3, <2>5, <2>7
  <2>8. ASSUME quiet' >= 2, Len(line') = 1 PROVE rx'.in_escape
    <3>1. Len(line) = 2 /\ Len(line) >= 2
      <4>1. Len(line') = Len(line) - 1 /\ Len(line') = 1 /\ Len(line) \in Nat
        BY <1>0, <2>2, <2>8
      <4>2. Len(line) - 1 = 1
        BY <4>1, Zenon
      <4> QED BY <1>0, <4>2
    <3>2. Head(line) = 0 /\ Head(line) # 255
      BY <2>2, <3>1
    <3>3. ~rx.in_escape
      BY <2>4, <2>8, <3>1, <3>2 DEF Sync
    <3> QED BY <2>3, <3>2, <3>3
  <2>9. ASSUME quiet' >= 3, line' = <<>> PROVE rx' = NewPacket
    <3>1. quiet >= 2 /\ Len(line) = 1
      BY <2>4, <2>5, <2>9
    <3>2. rx.in_escape
      BY <3>1 DEF Sync
    <3> QED BY <2>2, <2>3, <3>1, <3>2
  <2> QED BY <2>2, <2>6, <2>7, <2>8, <2>9 DEF Sync, Nothing
<1>5. CASE UNCHANGED stream /\ UNCHANGED rx
  BY <1>5 DEF Sync, stream
<1>6. CASE do_something_sensible_with_packet \/ Apps \/ Udp \/ OtherHostSends \/ uart_tx_runloop
  BY <1>5, <1>6 DEF do_something_sensible_with_packet, Apps, Reply, apps_runloop, Udp,
                    udp_tx_runloop, udp_rx_runloop, OtherHostSends, uart_tx_runloop
<1>7. CASE UNCHANGED vars
  BY <1>5, <1>7 DEF vars
<1> QED BY <1>1, <1>2, <1>3, <1>4, <1>6, <1>7 DEF Next

\* At first nothing is on the wire.
LEMMA SyncInit ==
    ASSUME Init
    PROVE  Sync
  BY NewPacketIs, EmptySeq DEF Init, Sync, Orderly, Nothing

\* Whatever was lost, three bytes later the parser is in step with TashTalk again: what it
\* takes for the second half of an escape is one (tashtalk.c:81-127).
THEOREM StaysInSync == Spec => []Sync
  BY SyncInit, SyncStep, TypesHold, PTL DEF Spec

-----------------------------------------------------------------------------
(* Reading a frame.                                                        *)

\* The parser keeps the first bytes.
LEMMA KeptIs ==
    ASSUME NEW f \in Seq(Bytes), NEW m \in 0 .. Len(f)
    PROVE  /\ Kept(f, m) \in Seq(Bytes) /\ Len(Kept(f, m)) <= PacketSize
           /\ m <= PacketSize => Len(Kept(f, m)) = m
           /\ m > PacketSize => Len(Kept(f, m)) = PacketSize
           /\ Len(Kept(f, m)) <= m /\ Len(Kept(f, m)) \in Nat
           /\ \A i \in 1 .. Len(Kept(f, m)) : Kept(f, m)[i] = f[i]
<1> DEFINE n == IF m <= PacketSize THEN m ELSE PacketSize
<1>1. Len(f) \in Nat /\ PacketSize \in Nat /\ n \in Nat /\ n <= Len(f) /\ n <= PacketSize /\ n <= m
  BY PacketSizeAssumption, LenProperties
<1>2. (m <= PacketSize => n = m) /\ (m > PacketSize => n = PacketSize)
  BY <1>1
<1> HIDE DEF n
<1>3. /\ SubSeq(f, 1, n) \in Seq(Bytes) /\ Len(SubSeq(f, 1, n)) = n
      /\ \A i \in 1 .. n : SubSeq(f, 1, n)[i] = f[i]
  <2>1. 0 + n <= Len(f) /\ 0 + 1 = 1 /\ 0 + n = n /\ \A i \in 1 .. n : 0 + i = i
    BY <1>1
  <2>2. /\ SubSeq(f, 0 + 1, 0 + n) \in Seq(Bytes) /\ Len(SubSeq(f, 0 + 1, 0 + n)) = n
        /\ \A i \in 1 .. n : SubSeq(f, 0 + 1, 0 + n)[i] = f[0 + i]
    BY <1>1, <2>1, Slice
  <2> QED BY <2>1, <2>2
<1>4. Kept(f, m) = SubSeq(f, 1, n)
  BY DEF Kept, n
<1> QED BY <1>1, <1>2, <1>3, <1>4

\* It depends on nothing else.
LEMMA KeptSame ==
    ASSUME NEW f \in Seq(Bytes), NEW g \in Seq(Bytes), NEW m \in 0 .. Len(f), m <= Len(g),
           \A i \in 1 .. m : f[i] = g[i]
    PROVE  Kept(f, m) = Kept(g, m)
<1>1. m \in 0 .. Len(g)
  BY LenProperties
<1> DEFINE s == Kept(f, m)   t == Kept(g, m)
<1>2. /\ s \in Seq(Bytes) /\ Len(s) <= m /\ Len(s) \in Nat
      /\ \A i \in 1 .. Len(s) : s[i] = f[i]
  BY KeptIs
<1>3. t \in Seq(Bytes) /\ \A i \in 1 .. Len(t) : t[i] = g[i]
  BY <1>1, KeptIs
<1>4. Len(s) = Len(t)
  BY <1>1, KeptIs, PacketSizeAssumption
<1> HIDE DEF s, t
<1>5. ASSUME NEW i \in 1 .. Len(s) PROVE s[i] = t[i]
  <2>1. i \in 1 .. m
    BY <1>2
  <2> QED BY <1>2, <1>3, <1>4, <2>1
<1>6. s = t
  BY <1>2, <1>3, <1>4, <1>5, SeqEqual
<1> QED BY <1>6 DEF s, t

\* The next byte is appended.
LEMMA KeptNext ==
    ASSUME NEW f \in Seq(Bytes), NEW m \in 0 .. Len(f), m < Len(f)
    PROVE  append(Kept(f, m), f[m + 1]) = Kept(f, m + 1)
<1>1. /\ Len(f) \in Nat /\ PacketSize \in Nat /\ m + 1 \in 0 .. Len(f) /\ m + 1 \in 1 .. Len(f)
      /\ m \in Nat
  BY PacketSizeAssumption, LenProperties
<1> DEFINE s == Kept(f, m)   t == Kept(f, m + 1)
<1>2. /\ s \in Seq(Bytes) /\ Len(s) \in Nat /\ \A i \in 1 .. Len(s) : s[i] = f[i]
      /\ m <= PacketSize => Len(s) = m
      /\ m > PacketSize => Len(s) = PacketSize
  BY KeptIs
<1>3. /\ t \in Seq(Bytes) /\ Len(t) \in Nat /\ \A i \in 1 .. Len(t) : t[i] = f[i]
      /\ m + 1 <= PacketSize => Len(t) = m + 1
      /\ m + 1 > PacketSize => Len(t) = PacketSize
  BY <1>1, KeptIs
<1>4. f[m + 1] \in Bytes
  BY <1>1, ElementOfSeq
<1> HIDE DEF s, t
<1>5. CASE m < PacketSize
  <2> DEFINE u == Append(s, f[m + 1])
  <2>1. append(s, f[m + 1]) = u
    BY <1>1, <1>2, <1>5 DEF append
  <2>2. /\ u \in Seq(Bytes) /\ Len(u) = Len(s) + 1
        /\ \A i \in 1 .. Len(s) : u[i] = s[i]
        /\ u[Len(s) + 1] = f[m + 1]
    BY <1>2, <1>4, AppendProperties
  <2> HIDE DEF u
  <2>3. Len(s) = m /\ Len(t) = m + 1
    BY <1>1, <1>2, <1>3, <1>5
  <2>4. ASSUME NEW i \in 1 .. Len(u) PROVE u[i] = t[i]
    <3>1. CASE i = m + 1
      BY <1>1, <1>3, <2>2, <2>3, <3>1
    <3>2. CASE i # m + 1
      <4>1. i \in 1 .. Len(s) /\ i \in 1 .. Len(t)
        BY <1>1, <2>2, <2>3, <3>2
      <4> QED BY <1>2, <1>3, <2>2, <4>1
    <3> QED BY <3>1, <3>2
  <2>5. Len(u) = Len(t)
    BY <2>2, <2>3
  <2>6. u = t
    BY <1>3, <2>2, <2>4, <2>5, SeqEqual
  <2> QED BY <2>1, <2>6 DEF s, t
<1>6. CASE ~(m < PacketSize)
  <2>1. Len(s) = PacketSize /\ Len(t) = PacketSize
    BY <1>1, <1>2, <1>3, <1>6
  <2>2. append(s, f[m + 1]) = s
    BY <1>1, <2>1 DEF append
  <2>3. \A i \in 1 .. Len(s) : s[i] = t[i]
    BY <1>2, <1>3, <2>1
  <2>4. s = t
    BY <1>2, <1>3, <2>1, <2>3, SeqEqual
  <2> QED BY <2>2, <2>4 DEF s, t
<1> QED BY <1>5, <1>6

\* There is something left to read.
LEMMA PlaceIs ==
    ASSUME NEW f \in Seq(Bytes), NEW l, NEW escape \in BOOLEAN, NEW j, Place(f, l, escape, j)
    PROVE  /\ j \in 0 .. Len(f) /\ Len(f) \in Nat
           /\ l # <<>> /\ l \in Seq(Bytes)
<1>1. j \in 0 .. Len(f) /\ Len(f) \in Nat
  BY LenProperties DEF Place
<1> DEFINE w == Wire(f)[j + 1]
<1>2. w \in Seq(Bytes) /\ Len(w) >= 2 /\ Len(w) \in Nat
  <2>1. j + 1 \in 1 .. Len(f) + 1
    BY <1>1
  <2>2. w \in Seq(Bytes)
    BY <2>1, WireIs
  <2>3. Len(w) >= 2
    BY <1>1, WireOrderly
  <2> QED BY <2>2, <2>3, LenProperties
<1>3. l \in {w, Tail(w)}
  BY DEF Place
<1> HIDE DEF w
<1>4. w # <<>>
  BY <1>2, EmptySeq
<1>5. Tail(w) \in Seq(Bytes) /\ Len(Tail(w)) = Len(w) - 1
  BY <1>2, <1>4, HeadTailProperties
<1>6. Tail(w) # <<>>
  <2>1. Len(Tail(w)) # 0
    BY <1>2, <1>5
  <2>2. Len(<<>>) = 0
    BY EmptySeq
  <2> QED BY <2>1, <2>2, Zenon
<1> QED BY <1>1, <1>2, <1>3, <1>4, <1>5, <1>6

\* The parser reads a byte of a frame, or the first half of an escape, or takes the frame.
Advances(f, j) ==
    /\ j < Len(f) /\ rx'.packet = append(rx.packet, f[j + 1])
    /\ Place(f, line', rx'.in_escape, j + 1) /\ UNCHANGED path

Pauses(f, j) ==
    rx'.packet = rx.packet /\ Place(f, line', rx'.in_escape, j) /\ UNCHANGED path

Completes(f, j) ==
    j = Len(f) /\ line' = <<>> /\ rx' = NewPacket /\ HandOver

\* Wherever in a frame the parser is, it does one of these.
LEMMA PlaceStep ==
    ASSUME TypeOK, UartRx, NEW f \in Seq(Bytes), NEW j, Place(f, line, rx.in_escape, j)
    PROVE  Advances(f, j) \/ Pauses(f, j) \/ Completes(f, j)
<1>1. rx \in [in_escape : BOOLEAN, packet : Seq(Bytes)]
  BY DEF TypeOK
<1>2. feed(Head(line)) /\ line' = Tail(line)
  BY DEF UartRx
<1>3. j \in 0 .. Len(f) /\ Len(f) \in Nat
  BY <1>1, PlaceIs
<1>4. CASE ~rx.in_escape /\ j = Len(f)
  <2>1. line = <<0, 253>>
    BY <1>3, <1>4, WireEnd DEF Place, EndMarker
  <2>2. Head(line) = 0
    BY <2>1
  <2>3. rx'.packet = rx.packet /\ rx'.in_escape /\ UNCHANGED path
    BY <1>1, <1>2, <1>4, <2>2 DEF feed
  <2>4. Place(f, line', TRUE, j)
    BY <1>2, <1>3, <1>4 DEF Place
  <2>5. rx'.in_escape = TRUE
    BY <1>1, <1>2, <1>4, <2>2 DEF feed
  <2> QED BY <2>3, <2>4, <2>5 DEF Pauses
<1>5. CASE rx.in_escape /\ j = Len(f)
  <2>1. line = Tail(<<0, 253>>)
    BY <1>3, <1>5, WireEnd DEF Place, EndMarker
  <2>2. Head(line) = 253 /\ Tail(line) = <<>>
    BY <2>1
  <2> QED BY <1>1, <1>2, <1>5, <2>2 DEF Completes, feed
<1>6. CASE ~rx.in_escape /\ j < Len(f) /\ f[j + 1] # 0
  <2> DEFINE l == Wire(f)[j + 2]
  <2>1. l \in Seq(Bytes) /\ line = <<f[j + 1]>> \o l /\ f[j + 1] \in Bytes
    BY <1>3, <1>6, WireByte DEF Place
  <2> HIDE DEF l
  <2>2. Head(line) = f[j + 1] /\ line' = l
    BY <1>2, <2>1, Pushed
  <2>3. rx'.packet = append(rx.packet, f[j + 1]) /\ rx'.in_escape = FALSE /\ UNCHANGED path
    BY <1>1, <1>2, <1>6, <2>2 DEF feed
  <2>4. j + 1 \in 0 .. Len(f) /\ (j + 1) + 1 = j + 2
    BY <1>3, <1>6
  <2>5. Place(f, line', rx'.in_escape, j + 1)
    BY <2>2, <2>3, <2>4 DEF Place, l
  <2> QED BY <1>6, <2>3, <2>5 DEF Advances
<1>7. CASE ~rx.in_escape /\ j < Len(f) /\ f[j + 1] = 0
  <2> DEFINE l == <<255>> \o Wire(f)[j + 2]
  <2>1. l \in Seq(Bytes) /\ line = <<0>> \o l
    BY <1>3, <1>7, WireZero, ZenonT(30) DEF Place
  <2>2. 0 \in Bytes
    BY DEF Bytes
  <2> HIDE DEF l
  <2>3. Head(line) = 0
    BY <2>1, <2>2, Pushed
  <2>4. rx'.packet = rx.packet /\ rx'.in_escape = TRUE /\ UNCHANGED path
    BY <1>1, <1>2, <1>7, <2>3 DEF feed
  <2>5. Place(f, line', TRUE, j)
    BY <1>2, <1>3, <1>7 DEF Place
  <2> QED BY <2>4, <2>5 DEF Pauses
<1>8. CASE rx.in_escape /\ j < Len(f)
  <2> DEFINE l == Wire(f)[j + 2]
  <2>1. f[j + 1] = 0 /\ line = Tail(Wire(f)[j + 1])
    BY <1>8 DEF Place
  <2>2. /\ l \in Seq(Bytes) /\ <<255>> \o l \in Seq(Bytes)
        /\ Wire(f)[j + 1] = <<0>> \o (<<255>> \o l)
    <3>1. j \in 0 .. Len(f) /\ j < Len(f) /\ f[j + 1] = 0
      BY <1>3, <1>8, <2>1
    <3> QED BY <3>1, WireZero, SMTT(30)
  <2>3. 0 \in Bytes /\ 255 \in Bytes
    BY DEF Bytes
  <2> HIDE DEF l
  <2>4. line = <<255>> \o l
    <3> DEFINE r == <<255>> \o l
    <3>1. r \in Seq(Bytes) /\ line = Tail(<<0>> \o r)
      BY <2>1, <2>2
    <3> HIDE DEF r
    <3>2. Tail(<<0>> \o r) = r
      BY <2>3, <3>1, Pushed
    <3> QED BY <3>1, <3>2 DEF r
  <2>5. Head(line) = 255 /\ line' = l
    BY <1>2, <2>2, <2>3, <2>4, Pushed, SMTT(30)
  <2>6. rx'.packet = append(rx.packet, 0) /\ rx'.in_escape = FALSE /\ UNCHANGED path
    BY <1>1, <1>2, <1>8, <2>5 DEF feed
  <2>7. j + 1 \in 0 .. Len(f) /\ (j + 1) + 1 = j + 2
    BY <1>3, <1>8
  <2>8. Place(f, line', rx'.in_escape, j + 1)
    BY <2>5, <2>6, <2>7 DEF Place, l
  <2> QED BY <1>8, <2>1, <2>6, <2>8 DEF Advances
<1> QED BY <1>3, <1>4, <1>5, <1>6, <1>7, <1>8

\* Nothing has been kept of nothing.
LEMMA KeptNone ==
    ASSUME NEW f \in Seq(Bytes)
    PROVE  Kept(f, 0) = <<>>
<1>1. 0 \in 0 .. Len(f) /\ 0 <= PacketSize
  BY PacketSizeAssumption, LenProperties
<1>2. Kept(f, 0) \in Seq(Bytes) /\ Len(Kept(f, 0)) = 0
  BY <1>1, KeptIs
<1> QED BY <1>2, EmptySeq

\* Every action keeps a frame of which nothing is lost together.
LEMMA ReadingStep ==
    ASSUME TypeOK, TypeOK', Sync, Reading, [Next]_vars
    PROVE  Reading'
<1>1. ASSUME NEW content \in Contents, TashTalkReceives(content) PROVE Reading'
  <2> DEFINE f == Whole(content)
  <2>1. /\ content \in Seq(Bytes) /\ Sent' = content /\ line' = Wire(f)[0 + 1]
        /\ line' \in Seq(Bytes) /\ Len(line') >= 2
    BY <1>1, ReceivesIs DEF TypeOK
  <2>2. f \in Seq(Bytes)
    BY <2>1, Sequences
  <2>3. line = Nothing /\ intact' = (quiet = 3) /\ stage' = "rx" /\ rx' = rx
    BY <1>1 DEF TashTalkReceives
  <2>4. ASSUME intact'
        PROVE  \E j \in 0 .. Len(f) : Place(f, line', rx'.in_escape, j) /\ rx'.packet = Kept(f, j)
    <3>1. rx' = NewPacket
      <4>1. quiet = 3 /\ line = Nothing /\ rx' = rx
        BY <2>3, <2>4
      <4>2. quiet >= 3
        BY <4>1
      <4> QED BY <4>1, <4>2 DEF Sync
    <3>2. rx'.packet = Kept(f, 0) /\ rx'.in_escape = FALSE
      BY <2>2, <3>1, KeptNone, NewPacketIs
    <3>3. 0 \in 0 .. Len(f)
      BY <2>2, LenProperties
    <3> HIDE DEF f
    <3>4. Place(f, line', rx'.in_escape, 0)
      BY <2>1, <3>2, <3>3 DEF Place
    <3> QED BY <3>2, <3>3, <3>4
  <2>5. line' # <<>>
    BY <2>1, EmptySeq
  <2>6. Whole(Sent') = f
    BY <2>1
  <2> HIDE DEF f
  <2> QED BY <2>3, <2>4, <2>5, <2>6 DEF Reading, Nothing
<1>2. CASE TashTalkGivesUp \/ LoseByte
  BY <1>2 DEF Reading, TashTalkGivesUp, LoseByte
<1>3. CASE UartRx
  <2>1. line # Nothing /\ UNCHANGED <<history, intact>>
    BY <1>3 DEF UartRx
  <2>2. CASE ~intact
    BY <2>1, <2>2 DEF Reading
  <2>3. CASE intact
    <3> DEFINE f == Whole(Sent)
    <3>1. stage = "rx" /\ f \in Seq(Bytes) /\ f = Whole(Sent')
      <4>1. stage = "rx"
        BY <2>1, <2>3 DEF Reading
      <4>2. f \in Seq(Bytes)
        BY <2>1, SentIs DEF TypeOK
      <4> QED BY <2>1, <4>1, <4>2 DEF Sent
    <3>2. PICK j \in 0 .. Len(f) :
              Place(f, line, rx.in_escape, j) /\ rx.packet = Kept(f, j)
      BY <2>1, <2>3 DEF Reading
    <3>3. rx'.in_escape \in BOOLEAN
      BY DEF TypeOK
    <3> HIDE DEF f
    <3>4. CASE Advances(f, j)
      <4>1. /\ j < Len(f) /\ rx'.packet = append(rx.packet, f[j + 1])
            /\ Place(f, line', rx'.in_escape, j + 1) /\ stage' = stage
        BY <3>4 DEF Advances, path
      <4>2. rx'.packet = Kept(f, j + 1)
        BY <3>1, <3>2, <4>1, KeptNext
      <4>3. j + 1 \in 0 .. Len(f) /\ line' # <<>>
        BY <3>1, <3>3, <4>1, PlaceIs
      <4> QED BY <3>1, <4>1, <4>2, <4>3 DEF Reading, Nothing
    <3>5. CASE Pauses(f, j)
      <4>1. rx'.packet = rx.packet /\ Place(f, line', rx'.in_escape, j) /\ stage' = stage
        BY <3>5 DEF Pauses, path
      <4>2. line' # <<>>
        BY <3>1, <3>3, <4>1, PlaceIs
      <4> QED BY <3>1, <3>2, <4>1, <4>2 DEF Reading, Nothing
    <3>6. CASE Completes(f, j)
      BY <3>6 DEF Completes, HandOver, Reading, Nothing
    <3> QED BY <1>3, <3>1, <3>2, <3>4, <3>5, <3>6, PlaceStep
  <2> QED BY <2>2, <2>3 DEF TypeOK
<1>4. CASE do_something_sensible_with_packet \/ Apps \/ Udp \/ OtherHostSends \/ uart_tx_runloop
  <2>1. /\ UNCHANGED <<history, line, intact, rx>> /\ stage' # "rx"
        /\ stage # "rx" \/ line = Nothing
    BY <1>4 DEF do_something_sensible_with_packet, Apps, Reply, apps_runloop, Udp, Free, stream,
                udp_tx_runloop, udp_rx_runloop, OtherHostSends, uart_tx_runloop
  <2> QED BY <2>1 DEF Reading
<1>5. CASE UNCHANGED vars
  <2>1. UNCHANGED <<history, line, intact, rx, stage>>
    BY <1>5 DEF vars, stream, path
  <2> QED BY <2>1 DEF Reading, Sent
<1> QED BY <1>1, <1>2, <1>3, <1>4, <1>5 DEF Next

\* At first nothing is being read.
LEMMA ReadingInit ==
    ASSUME Init
    PROVE  Reading
  BY DEF Init, Reading

\* Of a frame of which nothing was lost the packet has the first bytes, as many as have been
\* read or as a buffer holds, and the line the rest.
THEOREM ReadsFrames == Spec => []Reading
  BY ReadingInit, ReadingStep, TypesHold, StaysInSync, PTL DEF Spec

-----------------------------------------------------------------------------
(* What becomes of a frame that has lost a byte.                           *)

\* A frame with a zero misread.
LEMMA MisreadIs ==
    ASSUME NEW f \in Seq(Bytes), NEW z \in 1 .. Len(f)
    PROVE  /\ Misread(f, z) \in Seq(Bytes) /\ Len(Misread(f, z)) = Len(f)
           /\ Misread(f, z)[z] = 255
           /\ \A i \in 1 .. Len(f) : i # z => Misread(f, z)[i] = f[i]
<1>1. 255 \in Bytes
  BY DEF Bytes
<1> QED BY <1>1, ExceptSeq DEF Misread

\* The rest of a frame.
LEMMA AfterIs ==
    ASSUME NEW f \in Seq(Bytes), NEW z \in 1 .. Len(f) - 1
    PROVE  /\ After(f, z) \in Seq(Bytes) /\ Len(After(f, z)) = Len(f) - z - 1
           /\ \A i \in 1 .. Len(f) - z - 1 : After(f, z)[i] = f[z + 1 + i]
<1> DEFINE k == z + 1   n == Len(f) - z - 1
<1>1. Len(f) \in Nat /\ k \in Nat /\ n \in Nat /\ k + n <= Len(f) /\ k + 1 = z + 2 /\ k + n = Len(f)
  BY LenProperties
<1>2. After(f, z) = SubSeq(f, k + 1, k + n)
  BY <1>1 DEF After
<1> HIDE DEF k, n
<1>3. /\ SubSeq(f, k + 1, k + n) \in Seq(Bytes) /\ Len(SubSeq(f, k + 1, k + n)) = n
      /\ \A i \in 1 .. n : SubSeq(f, k + 1, k + n)[i] = f[k + i]
  BY <1>1, Slice
<1>4. /\ After(f, z) \in Seq(Bytes) /\ Len(After(f, z)) = n
      /\ \A i \in 1 .. n : After(f, z)[i] = f[k + i]
  BY <1>2, <1>3
<1> HIDE DEF After
<1> QED BY <1>4 DEF k, n

\* A frame stays too short when the next byte arrives.
LEMMA ShorterNext ==
    ASSUME NEW f, NEW p \in Seq(Bytes), Len(p) <= PacketSize, NEW b \in Bytes, NEW j \in Nat,
           Shorter(f, p, j)
    PROVE  Shorter(f, append(p, b), j + 1)
<1>1. /\ append(p, b) \in Seq(Bytes)
      /\ Len(append(p, b)) >= Len(p) /\ Len(append(p, b)) <= Len(p) + 1
      /\ \A i \in 1 .. Len(p) : append(p, b)[i] = p[i]
  BY AppendIs
<1>2. Len(p) \in Nat /\ Len(append(p, b)) \in Nat
  BY <1>1, LenProperties
<1> DEFINE q == append(p, b)
<1> HIDE DEF q
<1>3. Len(q) >= 5 /\ Len(q) < j + 1
  BY <1>1, <1>2 DEF Shorter, q
<1>4. ASSUME NEW i \in 1 .. 5 PROVE q[i] = f[i]
  <2>1. i \in 1 .. Len(p)
    BY <1>2 DEF Shorter
  <2> QED BY <1>1, <2>1 DEF Shorter, q
<1> QED BY <1>3, <1>4 DEF Shorter, q

\* What there is in the packet goes on with the next byte.
LEMMA GotNext ==
    ASSUME NEW f \in Seq(Bytes), NEW j \in 0 .. Len(f), j < Len(f),
           NEW p \in Seq(Bytes), Len(p) <= PacketSize, Got(f, p, j)
    PROVE  Got(f, append(p, f[j + 1]), j + 1)
<1>1. Len(f) \in Nat /\ j + 1 \in 1 .. Len(f) /\ j \in Nat
  BY LenProperties
<1>2. f[j + 1] \in Bytes
  BY <1>1, ElementOfSeq
<1>3. CASE p = Kept(f, j)
  BY <1>3, KeptNext DEF Got
<1>4. ASSUME NEW z \in 6 .. j, f[z] = 0, p = Kept(Misread(f, z), j)
      PROVE  Got(f, append(p, f[j + 1]), j + 1)
  <2> DEFINE g == Misread(f, z)
  <2>1. z \in 1 .. Len(f) /\ j + 1 # z /\ z \in 6 .. j + 1
    BY <1>1
  <2>2. g \in Seq(Bytes) /\ Len(g) = Len(f) /\ g[j + 1] = f[j + 1]
    BY <1>1, <2>1, MisreadIs
  <2>3. append(Kept(g, j), g[j + 1]) = Kept(g, j + 1)
    <3> HIDE DEF g
    <3> QED BY <2>2, KeptNext
  <2>4. append(p, f[j + 1]) = Kept(g, j + 1)
    BY <1>4, <2>2, <2>3
  <2> QED BY <1>4, <2>1, <2>4 DEF Got
<1>5. ASSUME NEW z \in 1 .. j - 1, f[z] = 0, f[z + 1] \in {250, 253, 254},
             p = Kept(After(f, z), j - z - 1)
      PROVE  Got(f, append(p, f[j + 1]), j + 1)
  <2> DEFINE g == After(f, z)   m == j - z - 1
  <2>1. /\ z \in 1 .. Len(f) - 1 /\ m + 1 \in 1 .. Len(f) - z - 1 /\ z + 1 + (m + 1) = j + 1
        /\ m \in 0 .. Len(f) - z - 1 /\ m < Len(f) - z - 1 /\ m + 1 = (j + 1) - z - 1
        /\ z \in 1 .. (j + 1) - 1
    BY <1>1
  <2> HIDE DEF m
  <2>2. g \in Seq(Bytes) /\ Len(g) = Len(f) - z - 1 /\ g[m + 1] = f[j + 1]
    <3>1. /\ g \in Seq(Bytes) /\ Len(g) = Len(f) - z - 1
          /\ \A i \in 1 .. Len(f) - z - 1 : g[i] = f[z + 1 + i]
      BY <2>1, AfterIs
    <3> HIDE DEF g
    <3>2. g[m + 1] = f[z + 1 + (m + 1)]
      BY <2>1, <3>1
    <3> QED BY <2>1, <3>1, <3>2
  <2> HIDE DEF g
  <2>3. append(Kept(g, m), g[m + 1]) = Kept(g, m + 1)
    BY <2>1, <2>2, KeptNext
  <2>4. append(p, f[j + 1]) = Kept(g, (j + 1) - z - 1)
    BY <1>5, <2>1, <2>2, <2>3 DEF g, m
  <2> QED BY <1>5, <2>1, <2>4 DEF Got, g
<1>6. CASE Shorter(f, p, j)
  BY <1>1, <1>2, <1>6, ShorterNext DEF Got
<1> QED BY <1>3, <1>4, <1>5, <1>6 DEF Got

\* A frame that has lost a byte goes on like this, whatever its next byte does.
Goes(f) ==
    /\ line' # <<>> => Left(f, line', rx')
    /\ UNCHANGED path \/ (HandOver /\ Got(f, rx.packet, Len(f)))

\* Where the reading stands, and what of the line has been taken off it.
LEMMA LeftAtPlace ==
    ASSUME NEW f, NEW l, NEW r, NEW j \in 0 .. Len(f),
           Place(f, l, r.in_escape, j), Got(f, r.packet, j)
    PROVE  Left(f, l, r)
  BY DEF Left

\* No end marker comes after a line that has ended.
LEMMA EndedStep ==
    ASSUME TypeOK, UartRx, Ended(line, rx)
    PROVE  UNCHANGED path /\ (line' # <<>> => Ended(line', rx'))
<1>1. /\ rx \in [in_escape : BOOLEAN, packet : Seq(Bytes)]
      /\ feed(Head(line)) /\ line' = Tail(line)
  BY DEF TypeOK, UartRx
<1>2. CASE line = <<253>> /\ ~rx.in_escape
  <2>1. Head(line) = 253 /\ Tail(line) = <<>>
    BY <1>2
  <2> QED BY <1>1, <1>2, <2>1 DEF feed
<1>3. ASSUME NEW code \in {250, 254}, line = <<0, code>>
      PROVE  UNCHANGED path /\ Ended(line', rx')
  <2>1. Head(line) = 0 /\ Tail(line) = <<code>>
    BY <1>3
  <2>2. Ended(line', rx')
    BY <1>1, <2>1 DEF Ended
  <2> QED BY <1>1, <2>1, <2>2 DEF feed
<1>4. ASSUME NEW code \in {250, 254}, line = <<code>>
      PROVE  UNCHANGED path /\ line' = <<>>
  <2>1. Head(line) = code /\ Tail(line) = <<>>
    BY <1>4
  <2> QED BY <1>1, <2>1 DEF feed
<1> QED BY <1>1, <1>2, <1>3, <1>4 DEF Ended

\* The parser reads on in a frame, having lost a byte of it.
LEMMA PlaceGotStep ==
    ASSUME TypeOK, TypeOK', UartRx, NEW f \in Seq(Bytes), NEW j \in 0 .. Len(f),
           Place(f, line, rx.in_escape, j), Got(f, rx.packet, j)
    PROVE  Goes(f)
<1>1. rx.packet \in Seq(Bytes) /\ Len(rx.packet) <= PacketSize
  BY DEF TypeOK
<1>2. CASE Advances(f, j)
  <2>1. /\ j < Len(f) /\ rx'.packet = append(rx.packet, f[j + 1])
        /\ Place(f, line', rx'.in_escape, j + 1) /\ UNCHANGED path
    BY <1>2 DEF Advances
  <2>2. Got(f, rx'.packet, j + 1) /\ j + 1 \in 0 .. Len(f)
    <3>1. Got(f, append(rx.packet, f[j + 1]), j + 1)
      BY <1>1, <2>1, GotNext
    <3>2. j + 1 \in 0 .. Len(f)
      BY <2>1, LenProperties
    <3> QED BY <2>1, <3>1, <3>2
  <2>3. Left(f, line', rx')
    BY <2>1, <2>2, LeftAtPlace
  <2> QED BY <2>1, <2>3 DEF Goes
<1>3. CASE Pauses(f, j)
  <2>1. rx'.packet = rx.packet /\ Place(f, line', rx'.in_escape, j) /\ UNCHANGED path
    BY <1>3 DEF Pauses
  <2>2. Left(f, line', rx')
    BY <2>1, LeftAtPlace
  <2> QED BY <2>1, <2>2 DEF Goes
<1>4. CASE Completes(f, j)
  BY <1>4 DEF Completes, Goes
<1> QED BY <1>2, <1>3, <1>4, PlaceStep

\* A zero whose escape was lost is read as 255.
LEMMA ZeroLostStep ==
    ASSUME TypeOK, UartRx, NEW f \in Seq(Bytes), NEW j \in 0 .. Len(f),
           ZeroLost(f, line, rx, j)
    PROVE  Goes(f)
<1>1. /\ rx \in [in_escape : BOOLEAN, packet : Seq(Bytes)] /\ Len(rx.packet) <= PacketSize
      /\ feed(Head(line)) /\ line' = Tail(line)
  BY DEF TypeOK, UartRx
<1> DEFINE l == Wire(f)[j + 2]   p == rx.packet   g == Misread(f, j + 1)
<1>2. /\ j < Len(f) /\ f[j + 1] = 0 /\ line = <<255>> \o l /\ ~rx.in_escape
      /\ Len(p) >= 5 /\ (p = Kept(f, j) \/ Shorter(f, p, j))
  BY DEF ZeroLost
<1>3. /\ j + 1 \in 1 .. Len(f) /\ j + 1 \in 0 .. Len(f) /\ Len(f) \in Nat /\ (j + 1) + 1 = j + 2
      /\ j \in Nat
  BY <1>2, LenProperties
<1>4. 255 \in Bytes /\ 255 # 0
  BY DEF Bytes
<1>5. l \in Seq(Bytes)
  BY <1>2, WireZero
<1>6. Place(f, l, FALSE, j + 1)
  BY <1>3 DEF Place
<1> HIDE DEF l
<1>7. Head(line) = 255 /\ line' = l
  BY <1>1, <1>2, <1>4, <1>5, Pushed, SMTT(30)
<1>8. rx'.packet = append(p, 255) /\ rx'.in_escape = FALSE /\ UNCHANGED path
  BY <1>1, <1>2, <1>4, <1>7, SMTT(30) DEF feed
<1>9. Got(f, append(p, 255), j + 1)
  <2>1. CASE p = Kept(f, j)
    <3>1. /\ g \in Seq(Bytes) /\ Len(g) = Len(f) /\ g[j + 1] = 255
          /\ \A i \in 1 .. Len(f) : i # j + 1 => g[i] = f[i]
      BY <1>3, MisreadIs
    <3>2. j >= 5
      <4>1. Len(Kept(f, j)) <= j /\ Len(Kept(f, j)) \in Nat
        BY KeptIs
      <4> QED BY <1>2, <1>3, <2>1, <4>1
    <3> HIDE DEF g
    <3>3. \A i \in 1 .. j : f[i] = g[i]
      BY <1>2, <1>3, <3>1
    <3>4. Kept(f, j) = Kept(g, j)
      BY <1>2, <3>1, <3>3, KeptSame
    <3>5. append(Kept(g, j), g[j + 1]) = Kept(g, j + 1)
      BY <1>2, <3>1, KeptNext
    <3>6. j + 1 \in 6 .. j + 1
      BY <1>3, <3>2
    <3>7. append(p, 255) = Kept(Misread(f, j + 1), j + 1)
      BY <2>1, <3>1, <3>4, <3>5 DEF g
    <3> QED BY <1>2, <3>6, <3>7 DEF Got
  <2>2. CASE Shorter(f, p, j)
    <3>1. Shorter(f, append(p, 255), j + 1)
      BY <1>1, <1>3, <1>4, <2>2, ShorterNext
    <3> QED BY <3>1 DEF Got
  <2> QED BY <1>2, <2>1, <2>2
<1>10. Left(f, line', rx')
  <2>1. Place(f, line', rx'.in_escape, j + 1) /\ Got(f, rx'.packet, j + 1)
    BY <1>6, <1>7, <1>8, <1>9
  <2> QED BY <1>3, <2>1, LeftAtPlace
<1> QED BY <1>8, <1>10 DEF Goes

\* A first part of a frame that has its header is too short for it.
LEMMA KeptShorter ==
    ASSUME NEW f \in Seq(Bytes), NEW j \in 0 .. Len(f), NEW k \in Nat, j < k,
           Len(Kept(f, j)) >= 5
    PROVE  Shorter(f, Kept(f, j), k)
<1>1. /\ Len(Kept(f, j)) <= j /\ Len(Kept(f, j)) \in Nat
      /\ \A i \in 1 .. Len(Kept(f, j)) : Kept(f, j)[i] = f[i]
  BY KeptIs
<1>2. j \in Nat
  BY LenProperties
<1> DEFINE p == Kept(f, j)
<1> HIDE DEF p
<1>3. Len(p) < k /\ \A i \in 1 .. 5 : i \in 1 .. Len(p)
  BY <1>1, <1>2 DEF p
<1> QED BY <1>1, <1>3 DEF Shorter, p

\* A zero of which only the first byte came takes the next byte for its second.
LEMMA EscapeLostStep ==
    ASSUME TypeOK, UartRx, NEW f \in Seq(Bytes), NEW j \in 0 .. Len(f),
           EscapeLost(f, line, rx, j)
    PROVE  Goes(f)
<1> DEFINE k == j + 1   l == Wire(f)[k + 2]   p == rx.packet
<1>1. /\ rx \in [in_escape : BOOLEAN, packet : Seq(Bytes)] /\ Len(p) <= PacketSize
      /\ p \in Seq(Bytes) /\ feed(Head(line)) /\ line' = Tail(line)
  BY DEF TypeOK, UartRx
<1>2. /\ j < Len(f) /\ f[k] = 0 /\ line = Wire(f)[k + 1] /\ rx.in_escape
      /\ Len(p) >= 5 /\ p = Kept(f, j)
  <2>1. (j + 1) + 1 = j + 2
    BY LenProperties
  <2> QED BY <2>1 DEF EscapeLost
<1>3. /\ k \in 1 .. Len(f) /\ k \in 0 .. Len(f) /\ Len(f) \in Nat /\ j < k /\ k \in Nat
  BY <1>2, LenProperties
<1>4. Shorter(f, p, k)
  BY <1>2, <1>3, KeptShorter
<1>5. 0 \in Bytes /\ 255 \in Bytes
  BY DEF Bytes
<1> HIDE DEF k, p
<1>6. CASE k = Len(f)
  <2>1. line = <<0, 253>>
    BY <1>2, <1>3, <1>6, WireEnd DEF EndMarker
  <2>2. Head(line) = 0 /\ line' = <<253>>
    BY <1>1, <2>1
  <2>3. rx'.in_escape = FALSE /\ UNCHANGED path
    BY <1>1, <1>2, <2>2 DEF feed
  <2>4. Left(f, line', rx')
    BY <2>2, <2>3 DEF Left, Ended
  <2> QED BY <2>3, <2>4 DEF Goes
<1>7. CASE k < Len(f) /\ f[k + 1] = 0
  <2> DEFINE r == <<255>> \o l
  <2>1. r \in Seq(Bytes) /\ line = <<0>> \o r
    BY <1>2, <1>3, <1>7, WireZero
  <2> HIDE DEF r
  <2>2. Head(line) = 0 /\ line' = r
    BY <1>1, <1>5, <2>1, Pushed, SMTT(30)
  <2>3. rx'.in_escape = FALSE /\ rx'.packet = p /\ UNCHANGED path
    BY <1>1, <1>2, <2>2 DEF feed, p
  <2>4. ZeroLost(f, line', rx', k)
    BY <1>2, <1>4, <1>7, <2>2, <2>3 DEF ZeroLost, r
  <2>5. Left(f, line', rx')
    BY <1>3, <2>4 DEF Left
  <2> QED BY <2>3, <2>5 DEF Goes
<1>8. CASE k < Len(f) /\ f[k + 1] # 0
  <2> DEFINE b == f[k + 1]
  <2>1. l \in Seq(Bytes) /\ line = <<b>> \o l /\ b \in Bytes
    BY <1>2, <1>3, <1>8, WireByte
  <2>2. k + 1 \in 0 .. Len(f) /\ (k + 1) + 1 = k + 2 /\ k < k + 1
    BY <1>3, <1>8
  <2>3. Place(f, l, FALSE, k + 1)
    BY <2>2 DEF Place
  <2> HIDE DEF l, b
  <2>4. Head(line) = b /\ line' = l
    BY <1>1, <2>1, Pushed, SMTT(30)
  <2>5. CASE b \in {250, 253, 254}
    <3>1. rx' = NewPacket /\ (UNCHANGED path \/ (b = 253 /\ HandOver))
      BY <1>1, <1>2, <2>4, <2>5, SMTT(30) DEF feed
    <3>2. Got(f, rx'.packet, k + 1)
      <4>1. rx'.packet = <<>>
        BY <3>1, NewPacketIs
      <4>2. k \in 1 .. Len(f) - 1 /\ k \in 1 .. (k + 1) - 1 /\ (k + 1) - k - 1 = 0
        BY <1>3, <1>8
      <4>3. Kept(After(f, k), 0) = <<>>
        <5>1. After(f, k) \in Seq(Bytes)
          BY <4>2, AfterIs
        <5> QED BY <5>1, KeptNone
      <4>4. rx'.packet = Kept(After(f, k), (k + 1) - k - 1)
        BY <4>1, <4>2, <4>3
      <4> QED BY <1>2, <2>5, <4>2, <4>4 DEF Got, b
    <3>3. Left(f, line', rx')
      <4>1. Place(f, line', rx'.in_escape, k + 1)
        BY <2>3, <2>4, <3>1, NewPacketIs
      <4> QED BY <2>2, <3>2, <4>1, LeftAtPlace
    <3>4. Got(f, rx.packet, Len(f))
      <4>1. Shorter(f, Kept(f, j), Len(f))
        BY <1>2, <1>3, <1>8, KeptShorter
      <4> QED BY <1>2, <4>1 DEF Got, p
    <3> QED BY <3>1, <3>3, <3>4 DEF Goes
  <2>6. CASE b \notin {250, 253, 254}
    <3>1. rx'.packet \in {p, append(p, 0)} /\ rx'.in_escape = FALSE /\ UNCHANGED path
      BY <1>1, <1>2, <2>4, <2>6 DEF feed, p
    <3>2. Shorter(f, append(p, 0), k + 1)
      BY <1>1, <1>3, <1>4, <1>5, ShorterNext
    <3>3. Shorter(f, p, k + 1)
      BY <1>2, <1>3, <2>2, KeptShorter
    <3>4. Got(f, rx'.packet, k + 1)
      BY <3>1, <3>2, <3>3 DEF Got
    <3>5. Left(f, line', rx')
      <4>1. Place(f, line', rx'.in_escape, k + 1)
        BY <2>3, <2>4, <3>1
      <4> QED BY <2>2, <3>4, <4>1, LeftAtPlace
    <3> QED BY <3>1, <3>5 DEF Goes
  <2> QED BY <2>5, <2>6
<1> QED BY <1>3, <1>6, <1>7, <1>8

\* Whatever has been left of a frame, the parser makes no more of it than this.
LEMMA LeftStep ==
    ASSUME TypeOK, TypeOK', UartRx, NEW f \in Seq(Bytes), Left(f, line, rx)
    PROVE  Goes(f)
<1>1. CASE Ended(line, rx)
  <2>1. UNCHANGED path /\ (line' # <<>> => Ended(line', rx'))
    BY <1>1, EndedStep
  <2> QED BY <2>1 DEF Goes, Left
<1>2. ASSUME NEW j \in 0 .. Len(f),
             \/ Place(f, line, rx.in_escape, j) /\ Got(f, rx.packet, j)
             \/ ZeroLost(f, line, rx, j)
             \/ EscapeLost(f, line, rx, j)
      PROVE  Goes(f)
  BY <1>2, PlaceGotStep, ZeroLostStep, EscapeLostStep
<1> QED BY <1>1, <1>2 DEF Left

\* What the loss of a byte leaves of a frame of which the header has come.
LEMMA LossStep ==
    ASSUME TypeOK, LoseByte, NEW f \in Seq(Bytes), NEW j \in 0 .. Len(f),
           Place(f, line, rx.in_escape, j), rx.packet = Kept(f, j), Len(rx.packet) >= 5
    PROVE  line' # <<>> => Left(f, line', rx)
<1>1. line' = Tail(line) /\ rx.in_escape \in BOOLEAN
  BY DEF TypeOK, LoseByte
<1>2. Len(f) \in Nat /\ j \in Nat /\ (j + 1) + 1 = j + 2
  BY LenProperties
<1>3. 0 \in Bytes /\ 255 \in Bytes
  BY DEF Bytes
<1> DEFINE l == Wire(f)[j + 2]   r == <<255>> \o l
<1>4. CASE ~rx.in_escape /\ j < Len(f) /\ f[j + 1] # 0
  <2>1. l \in Seq(Bytes) /\ line = <<f[j + 1]>> \o l /\ f[j + 1] \in Bytes
    BY <1>4, WireByte DEF Place
  <2>2. j + 1 \in 0 .. Len(f) /\ j < j + 1
    BY <1>2, <1>4
  <2>3. Place(f, l, rx.in_escape, j + 1)
    BY <1>2, <1>4, <2>2 DEF Place
  <2> HIDE DEF l
  <2>4. line' = l
    BY <1>1, <2>1, Pushed, SMTT(30)
  <2>5. Got(f, rx.packet, j + 1)
    <3>1. Shorter(f, Kept(f, j), j + 1)
      BY <1>2, <2>2, KeptShorter
    <3> QED BY <3>1 DEF Got
  <2> QED BY <2>2, <2>3, <2>4, <2>5, LeftAtPlace
<1>5. CASE ~rx.in_escape /\ j < Len(f) /\ f[j + 1] = 0
  <2>1. r \in Seq(Bytes) /\ line = <<0>> \o r
    BY <1>5, WireZero, ZenonT(30) DEF Place
  <2> HIDE DEF r
  <2>2. line' = r
    BY <1>1, <1>3, <2>1, Pushed, SMTT(30)
  <2>3. ZeroLost(f, line', rx, j)
    BY <1>5, <2>2 DEF ZeroLost, r
  <2> QED BY <2>3 DEF Left
<1>6. CASE rx.in_escape /\ j < Len(f)
  <2>1. f[j + 1] = 0 /\ line = Tail(Wire(f)[j + 1])
    BY <1>6 DEF Place
  <2>2. l \in Seq(Bytes) /\ r \in Seq(Bytes) /\ Wire(f)[j + 1] = <<0>> \o r
    <3>1. j < Len(f) /\ f[j + 1] = 0
      BY <1>6, <2>1
    <3> QED BY <3>1, WireZero, SMTT(30)
  <2> HIDE DEF l
  <2>3. line = r
    <3>1. r \in Seq(Bytes) /\ line = Tail(<<0>> \o r)
      BY <2>1, <2>2
    <3> HIDE DEF r
    <3>2. Tail(<<0>> \o r) = r
      BY <1>3, <3>1, Pushed, SMTT(30)
    <3> QED BY <3>1, <3>2
  <2>4. line' = l
    BY <1>1, <1>3, <2>2, <2>3, Pushed, SMTT(30)
  <2>5. EscapeLost(f, line', rx, j)
    BY <1>6, <2>1, <2>4 DEF EscapeLost, l
  <2> QED BY <2>5 DEF Left
<1>7. CASE ~rx.in_escape /\ j = Len(f)
  <2>1. line = <<0, 253>>
    BY <1>7, WireEnd DEF Place, EndMarker
  <2>2. line' = <<253>>
    BY <1>1, <2>1
  <2> QED BY <1>7, <2>2 DEF Left, Ended
<1>8. CASE rx.in_escape /\ j = Len(f)
  <2>1. line = Tail(<<0, 253>>)
    BY <1>8, WireEnd DEF Place, EndMarker
  <2>2. line' = <<>>
    BY <1>1, <2>1
  <2> QED BY <2>2
<1> QED BY <1>1, <1>2, <1>4, <1>5, <1>6, <1>7, <1>8

\* One lost byte does no more than that, whatever happens.
LEMMA DamageStep ==
    ASSUME TypeOK, TypeOK', Reading, Reading', Damage, [Next]_vars
    PROVE  Damage'
<1>1. ASSUME NEW content \in Contents, TashTalkReceives(content) PROVE Damage'
  <2>1. found' = (quiet = 3) /\ intact' = (quiet = 3)
    BY <1>1 DEF TashTalkReceives
  <2>2. ASSUME found', line' # Nothing PROVE intact' /\ Left(Whole(Sent'), line', rx')
    <3>1. intact'
      BY <2>1, <2>2
    <3> DEFINE f == Whole(Sent')
    <3>2. PICK j \in 0 .. Len(f) :
              Place(f, line', rx'.in_escape, j) /\ rx'.packet = Kept(f, j)
      BY <2>2, <3>1 DEF Reading, Nothing
    <3> HIDE DEF f
    <3>3. Got(f, rx'.packet, j)
      BY <3>2 DEF Got
    <3>4. Left(f, line', rx')
      BY <3>2, <3>3, LeftAtPlace
    <3> QED BY <3>1, <3>4 DEF f
  <2> QED BY <2>2 DEF Damage, Nothing
<1>2. CASE TashTalkGivesUp
  <2>1. PICK code \in {254, 250} : line' = <<0, code>>
    BY <1>2 DEF TashTalkGivesUp
  <2>2. Ended(line', rx')
    BY <2>1 DEF Ended
  <2> QED BY <2>2 DEF Damage, Left
<1>3. CASE LoseByte
  <2>1. /\ line # Nothing /\ line' = Tail(line) /\ lost' = lost + 1 /\ UNCHANGED <<history, rx>>
        /\ lost \in Nat
    BY <1>3 DEF LoseByte, TypeOK
  <2>2. SUFFICES ASSUME found', lost' <= 1, line' # <<>>
                 PROVE  lost' = 1 /\ Left(Whole(Sent'), line', rx')
    BY DEF Damage, Nothing
  <2>3. found /\ Len(rx.packet) >= 5
    <3>1. found' = (found /\ Len(rx.packet) >= 5)
      BY <1>3 DEF LoseByte
    <3> QED BY <2>2, <3>1
  <2>4. lost = 0 /\ lost' = 1
    BY <2>1, <2>2
  <2>5. intact \/ Ended(line, rx)
    BY <2>1, <2>3, <2>4 DEF Damage
  <2> DEFINE f == Whole(Sent)
  <2>6. f = Whole(Sent') /\ f \in Seq(Bytes)
    BY <2>1, SentIs DEF TypeOK, Sent
  <2>7. CASE intact
    <3>1. PICK j \in 0 .. Len(f) : Place(f, line, rx.in_escape, j) /\ rx.packet = Kept(f, j)
      BY <2>1, <2>7 DEF Reading
    <3> HIDE DEF f
    <3>2. Left(f, line', rx)
      BY <1>3, <2>2, <2>3, <2>6, <3>1, LossStep
    <3> QED BY <2>1, <2>4, <2>6, <3>2
  <2>8. CASE Ended(line, rx)
    <3>1. Ended(line', rx')
      <4>1. CASE line = <<253>>
        BY <2>1, <2>2, <4>1
      <4>2. ASSUME NEW code \in {250, 254}, line = <<0, code>>
            PROVE  Ended(line', rx')
        BY <2>1, <4>2 DEF Ended
      <4>3. ASSUME NEW code \in {250, 254}, line = <<code>>
            PROVE  line' = <<>>
        BY <2>1, <4>3
      <4> QED BY <2>2, <2>8, <4>1, <4>2, <4>3 DEF Ended
    <3> QED BY <2>4, <3>1 DEF Left
  <2> QED BY <2>5, <2>7, <2>8
<1>4. CASE UartRx
  <2>1. line # Nothing /\ UNCHANGED <<history, found, lost, intact>>
    BY <1>4 DEF UartRx
  <2>2. SUFFICES ASSUME found, lost <= 1, line' # <<>>
                 PROVE  (intact \/ Ended(line', rx') \/ lost = 1) /\ Left(Whole(Sent'), line', rx')
    BY <2>1 DEF Damage, Nothing
  <2> DEFINE f == Whole(Sent)
  <2>3. f = Whole(Sent') /\ f \in Seq(Bytes)
    BY <2>1, SentIs DEF TypeOK, Sent
  <2>4. (intact \/ Ended(line, rx) \/ lost = 1) /\ Left(f, line, rx)
    BY <2>1, <2>2 DEF Damage
  <2> HIDE DEF f
  <2>5. Left(f, line', rx')
    <3>1. Goes(f)
      BY <1>4, <2>3, <2>4, LeftStep
    <3> QED BY <2>2, <3>1 DEF Goes
  <2>6. Ended(line, rx) => Ended(line', rx')
    BY <1>4, <2>2, EndedStep
  <2> QED BY <2>3, <2>4, <2>5, <2>6
<1>5. CASE UNCHANGED stream /\ UNCHANGED rx
  BY <1>5 DEF Damage, stream, Sent
<1>6. CASE do_something_sensible_with_packet \/ Apps \/ Udp \/ OtherHostSends \/ uart_tx_runloop
  BY <1>5, <1>6 DEF do_something_sensible_with_packet, Apps, Reply, apps_runloop, Udp,
                    udp_tx_runloop, udp_rx_runloop, OtherHostSends, uart_tx_runloop
<1>7. CASE UNCHANGED vars
  BY <1>5, <1>7 DEF vars
<1> QED BY <1>1, <1>2, <1>3, <1>4, <1>6, <1>7 DEF Next

\* At first nothing has been lost.
LEMMA DamageInit ==
    ASSUME Init
    PROVE  Damage
  BY DEF Init, Damage

\* A frame of which one byte is lost, after its header, is handed over as one of
\* the kinds that Got names, or not at all.
THEOREM KnowsTheDamage == Spec => []Damage
  BY DamageInit, DamageStep, TypesHold, ReadsFrames, PTL DEF Spec

-----------------------------------------------------------------------------
(* The frame on its way.                                                   *)

\* What the parser hands over.
LEMMA HandsOver ==
    ASSUME TypeOK, TypeOK', Reading, Damage, UartRx, ~UNCHANGED path
    PROVE  /\ HandOver /\ history # <<>>
           /\ intact => rx.packet = Kept(Whole(Sent), Len(Whole(Sent)))
           /\ found /\ lost <= 1 => Got(Whole(Sent), rx.packet, Len(Whole(Sent)))
<1> DEFINE f == Whole(Sent)
<1>1. line # Nothing /\ history # <<>> /\ f \in Seq(Bytes)
  BY SentIs DEF UartRx, TypeOK
<1>2. HandOver
  BY DEF UartRx, feed
<1>3. ASSUME intact PROVE rx.packet = Kept(f, Len(f))
  <2>1. PICK j \in 0 .. Len(f) : Place(f, line, rx.in_escape, j) /\ rx.packet = Kept(f, j)
    BY <1>1, <1>3 DEF Reading
  <2> HIDE DEF f
  <2>2. Advances(f, j) \/ Pauses(f, j) \/ Completes(f, j)
    BY <1>1, <2>1, PlaceStep
  <2>3. j = Len(f)
    BY <2>2 DEF Advances, Pauses, Completes
  <2> QED BY <2>1, <2>3
<1>4. ASSUME found, lost <= 1 PROVE Got(f, rx.packet, Len(f))
  <2>1. Left(f, line, rx)
    BY <1>1, <1>4 DEF Damage
  <2> HIDE DEF f
  <2>2. Goes(f)
    BY <1>1, <2>1, LeftStep
  <2> QED BY <2>2 DEF Goes
<1> QED BY <1>1, <1>2, <1>3, <1>4

\* What is kept of a frame has its bytes.
LEMMA KeptByte ==
    ASSUME NEW s \in Seq(Bytes), NEW i \in Nat,
           i < Len(Kept(Whole(s), Len(Whole(s)))), i < Len(s)
    PROVE  Byte(Kept(Whole(s), Len(Whole(s))), i) = Byte(s, i)
<1> DEFINE f == Whole(s)   p == Kept(f, Len(f))
<1>1. /\ f \in Seq(Bytes) /\ Len(f) = Len(s) + 2 /\ Len(s) \in Nat
      /\ \A m \in 1 .. Len(s) : f[m] = s[m]
  BY Sequences, LenProperties
<1> HIDE DEF f
<1>2. Len(p) \in Nat /\ \A m \in 1 .. Len(p) : p[m] = f[m]
  <2>1. Len(f) \in 0 .. Len(f)
    BY <1>1, LenProperties
  <2> QED BY <1>1, <2>1, KeptIs
<1>3. i < Len(p)
  BY DEF f
<1> HIDE DEF p
<1>4. i + 1 \in 1 .. Len(p) /\ i + 1 \in 1 .. Len(s)
  BY <1>1, <1>2, <1>3
<1>5. p[i + 1] = s[i + 1]
  BY <1>1, <1>2, <1>4
<1>6. Byte(p, i) = Byte(s, i)
  BY <1>3, <1>5 DEF Byte
<1> QED BY <1>6 DEF f, p

\* The answer to a lookup that has come whole answers what was sent.
LEMMA AnswersSent ==
    ASSUME NEW s \in Seq(Bytes), NEW p, p = Kept(Whole(s), Len(Whole(s))),
           is_our_nbp_lkup(p), NEW reply, Answers(reply, p)
    PROVE  Answers(reply, s)
<1> DEFINE offset == ddp_payload_offset(p)
           type == PastString(p, offset + 7)
           zone == PastString(p, type)
<1>1. /\ p \in Seq(Bytes) /\ Len(p) \in Nat /\ Len(s) \in Nat
      /\ Len(p) <= Len(s) + 2
  <2> DEFINE f == Whole(s)
  <2>1. f \in Seq(Bytes) /\ Len(f) = Len(s) + 2 /\ Len(s) \in Nat
    BY Sequences, LenProperties
  <2>2. p = Kept(f, Len(f))
    OBVIOUS
  <2> HIDE DEF f
  <2>3. Len(f) \in 0 .. Len(f)
    BY <2>1, LenProperties
  <2>4. /\ Kept(f, Len(f)) \in Seq(Bytes) /\ Len(Kept(f, Len(f))) \in Nat
        /\ Len(Kept(f, Len(f))) <= Len(f)
    BY <2>1, <2>3, KeptIs
  <2> QED BY <2>1, <2>2, <2>4
<1>2. offset \in {8, 16}
  BY DEF ddp_payload_offset
<1> HIDE DEF offset
<1>3. Fits(p, zone)
  <2>1. /\ (offset + 2) + 5 = offset + 7
        /\ nbp_tuple(p).ok
    BY <1>2 DEF is_our_nbp_lkup
  <2> QED BY <2>1 DEF nbp_tuple, offset
<1>4. type \in Nat /\ type >= offset + 8
  <2>1. offset + 7 \in Nat
    BY <1>2
  <2>2. Byte(p, offset + 7) \in Nat
    BY <1>1, <2>1, ByteIsByte DEF Bytes
  <2> QED BY <1>2, <2>1, <2>2 DEF PastString
<1> HIDE DEF type
<1>5. zone \in Nat /\ zone >= offset + 9
  <2>1. Byte(p, type) \in Nat
    BY <1>1, <1>4, ByteIsByte DEF Bytes
  <2> QED BY <1>2, <1>4, <2>1 DEF PastString
<1> HIDE DEF zone
<1>6. offset + 9 < Len(p)
  <2>1. Byte(p, zone) \in Nat
    BY <1>1, <1>5, ByteIsByte DEF Bytes
  <2> QED BY <1>1, <1>2, <1>3, <1>5, <2>1 DEF Fits
<1>7. \A i \in 0 .. offset + 7 : Byte(p, i) = Byte(s, i)
  <2>1. ASSUME NEW i \in 0 .. offset + 7 PROVE Byte(p, i) = Byte(s, i)
    <3>1. i \in Nat /\ i < Len(p) /\ i < Len(s)
      BY <1>1, <1>2, <1>6
    <3> QED BY <3>1, KeptByte
  <2> QED BY <2>1
<1>8. Byte(p, 2) = Byte(s, 2)
  BY <1>2, <1>7
<1>9. offset = ddp_payload_offset(s)
  BY <1>8 DEF offset, ddp_payload_offset, ddp_has_long_header
<1>10. /\ Byte(p, offset + 1) = Byte(s, offset + 1)
       /\ Byte(p, (offset + 2) + 2) = Byte(s, (offset + 2) + 2)
       /\ Byte(p, (offset + 2) + 3) = Byte(s, (offset + 2) + 3)
  BY <1>2, <1>7
<1>11. nbp_id(p) = nbp_id(s)
  BY <1>9, <1>10 DEF nbp_id, offset
<1>12. nbp_addr(p).node = nbp_addr(s).node /\ nbp_addr(p).socket = nbp_addr(s).socket
  <2>1. nbp_tuple(p).node = nbp_tuple(s).node /\ nbp_tuple(p).socket = nbp_tuple(s).socket
    BY <1>9, <1>10 DEF nbp_tuple, offset
  <2> QED BY <2>1 DEF nbp_addr
<1> QED BY <1>11, <1>12 DEF Answers

\* A frame without its FCS.
LEMMA ContentIs ==
    ASSUME NEW p \in Seq(Bytes), Len(p) >= 2
    PROVE  /\ Content(p) \in Seq(Bytes) /\ Len(Content(p)) = Len(p) - 2
           /\ \A i \in 1 .. Len(p) - 2 : Content(p)[i] = p[i]
<1> DEFINE n == Len(p) - 2   c == Content(p)
<1>1. n \in Nat /\ 0 + n <= Len(p) /\ 0 + 1 = 1 /\ 0 + n = n /\ \A i \in 1 .. n : 0 + i = i
  BY LenProperties
<1>2. c = SubSeq(p, 1, n)
  BY DEF Content
<1> HIDE DEF n, c
<1>3. /\ SubSeq(p, 0 + 1, 0 + n) \in Seq(Bytes) /\ Len(SubSeq(p, 0 + 1, 0 + n)) = n
      /\ \A i \in 1 .. n : SubSeq(p, 0 + 1, 0 + n)[i] = p[0 + i]
  BY <1>1, Slice
<1>4. c \in Seq(Bytes) /\ Len(c) = n /\ \A i \in 1 .. n : c[i] = p[i]
  BY <1>1, <1>2, <1>3
<1> QED BY <1>4 DEF n, c

\* What is before the FCS comes out of a datagram as it was.
LEMMA ReceivedNode ==
    ASSUME TypeOK, udp_rx_runloop, stage' # "done", stage' # "unknown",
           NEW p \in Seq(Bytes), Len(p) <= PacketSize, frame = Datagram(p)
    PROVE  frame' = WithFcs(Content(p)) /\ Len(p) >= 6
<1> DEFINE r == Received(frame)   c == Content(p)
<1>1. /\ r \in Seq(Bytes) /\ Len(frame) > 7
      /\ Len(frame) <= PacketSize + 2 => Len(r) = Len(frame) - 4
      /\ \A i \in 1 .. Len(r) : r[i] = frame[4 + i]
      /\ frame' = WithFcs(r)
  BY ReceivedIs
<1>2. /\ Len(frame) = Len(p) + 2 /\ Len(p) \in Nat
      /\ \A i \in 1 .. Len(p) - 2 : frame[4 + i] = p[i]
  BY DatagramIs
<1> HIDE DEF r
<1>3. Len(p) >= 6 /\ Len(r) = Len(p) - 2
  BY <1>1, <1>2, PacketSizeAssumption
<1>4. c \in Seq(Bytes) /\ Len(c) = Len(p) - 2 /\ \A i \in 1 .. Len(p) - 2 : c[i] = p[i]
  BY <1>2, <1>3, ContentIs
<1> HIDE DEF c
<1>5. r = c
  <2>1. ASSUME NEW i \in 1 .. Len(r) PROVE r[i] = c[i]
    <3>1. i \in 1 .. Len(p) - 2
      BY <1>3
    <3> QED BY <1>1, <1>2, <1>4, <3>1
  <2> QED BY <1>1, <1>3, <1>4, <2>1, SeqEqual
<1> QED BY <1>1, <1>3, <1>5 DEF c

\* What another host sends is cut, if at all, to what fits a buffer with an FCS.
LEMMA ReceivedHost ==
    ASSUME TypeOK, udp_rx_runloop, stage' # "done", stage' # "unknown",
           NEW d \in Seq(Bytes), frame = Header \o d,
           NEW length, length = IF Len(d) + 2 <= PacketSize THEN Len(d) ELSE PacketSize - 2
    PROVE  frame' = WithFcs(SubSeq(d, 1, length)) /\ length >= 4
<1> DEFINE r == Received(frame)   c == SubSeq(d, 1, length)
<1>1. /\ r \in Seq(Bytes) /\ Len(r) >= 4 /\ Len(r) + 2 <= PacketSize
      /\ Len(frame) <= PacketSize + 2 => Len(r) = Len(frame) - 4
      /\ Len(frame) > PacketSize + 2 => Len(r) = PacketSize - 2
      /\ \A i \in 1 .. Len(r) : r[i] = frame[4 + i]
      /\ frame' = WithFcs(r)
  BY ReceivedIs
<1>2. /\ Len(frame) = Len(d) + 4 /\ Len(d) \in Nat
      /\ \A i \in 1 .. Len(d) : frame[4 + i] = d[i]
  BY HeaderFirst, LenProperties
<1> HIDE DEF r
<1>3. Len(r) = length /\ length \in Nat /\ length <= Len(d) /\ length >= 4
  BY <1>1, <1>2, PacketSizeAssumption
<1>4. c \in Seq(Bytes) /\ Len(c) = length /\ \A i \in 1 .. length : c[i] = d[i]
  <2>1. 0 + length <= Len(d) /\ 0 + 1 = 1 /\ 0 + length = length /\ \A i \in 1 .. length : 0 + i = i
    BY <1>2, <1>3
  <2>2. /\ SubSeq(d, 0 + 1, 0 + length) \in Seq(Bytes) /\ Len(SubSeq(d, 0 + 1, 0 + length)) = length
        /\ \A i \in 1 .. length : SubSeq(d, 0 + 1, 0 + length)[i] = d[0 + i]
    BY <1>3, <2>1, Slice
  <2> QED BY <2>1, <2>2
<1> HIDE DEF c
<1>5. r = c
  <2>1. ASSUME NEW i \in 1 .. Len(r) PROVE r[i] = c[i]
    <3>1. i \in 1 .. length /\ i \in 1 .. Len(d)
      BY <1>2, <1>3
    <3>2. frame[4 + i] = d[i] /\ c[i] = d[i]
      BY <1>2, <1>4, <3>1
    <3>3. r[i] = frame[4 + i]
      BY <1>1
    <3> QED BY <3>2, <3>3
  <2> QED BY <1>1, <1>3, <1>4, <2>1, SeqEqual
<1> QED BY <1>1, <1>3, <1>5 DEF c

\* While APPS or LToUDP-tx has a frame, it is a node's.
LEMMA FromNodes ==
    ASSUME TypeOK, Carrying, stage \in {"accept", "apps", "udp_tx"}
    PROVE  /\ origin = "node" /\ written = <<>> /\ history # <<>>
           /\ frame \in Seq(Bytes) /\ Len(frame) <= PacketSize
           /\ intact => frame = Kept(Whole(Sent), Len(Whole(Sent)))
           /\ found /\ lost <= 1 => Got(Whole(Sent), frame, Len(Whole(Sent)))
<1>1. origin = "node"
  BY DEF Carrying, FromHost, FromApps
<1>2. written = <<>>
  BY DEF Carrying, Writing, Nothing
<1>3. PICK p \in Seq(Bytes) :
         /\ Carries(p)
         /\ intact => p = Kept(Whole(Sent), Len(Whole(Sent)))
         /\ found /\ lost <= 1 => Got(Whole(Sent), p, Len(Whole(Sent)))
  BY <1>1 DEF Carrying, FromNode
<1>4. frame = p /\ Len(p) <= PacketSize
  BY <1>3 DEF Carries
<1>5. history # <<>>
  BY <1>1 DEF Carrying, FromNode
<1> QED BY <1>1, <1>2, <1>3, <1>4, <1>5

\* Every action carries what it has.
LEMMA CarryingStep ==
    ASSUME TypeOK, TypeOK', Reading, Damage, Carrying, [Next]_vars
    PROVE  Carrying'
<1>1. ASSUME NEW content \in Contents, TashTalkReceives(content) PROVE Carrying'
  BY <1>1 DEF TashTalkReceives, Carrying, Writing, FromNode, FromHost, FromApps, ToUart, Nothing
<1>2. CASE TashTalkGivesUp \/ LoseByte
  <2>1. /\ ~intact' /\ UNCHANGED <<history, stage, frame, origin, written>>
        /\ found' /\ lost' <= 1 => found /\ lost <= 1
    BY <1>2 DEF TashTalkGivesUp, LoseByte, path, TypeOK
  <2>2. Writing'
    BY <2>1 DEF Carrying, Writing, Nothing
  <2>3. FromHost'
    BY <2>1 DEF Carrying, FromHost, ToUart, Nothing
  <2>4. FromApps'
    BY <2>1 DEF Carrying, FromApps, ToUart, Nothing
  <2>5. FromNode'
    BY <2>1 DEF Carrying, FromNode, Carries, ToUart, Nothing, Sent
  <2> QED BY <2>1, <2>2, <2>3, <2>4, <2>5 DEF Carrying

<1>3. CASE UartRx
  <2>1. UNCHANGED <<history, lost, found, intact>>
    BY <1>3 DEF UartRx
  <2>2. CASE UNCHANGED path
    BY <2>1, <2>2 DEF path, Carrying, Writing, FromNode, FromHost, FromApps, Carries, ToUart,
                      Nothing, Sent
  <2>3. CASE ~UNCHANGED path
    <3> DEFINE f == Whole(Sent)
    <3>1. /\ HandOver /\ history # <<>>
          /\ intact => rx.packet = Kept(f, Len(f))
          /\ found /\ lost <= 1 => Got(f, rx.packet, Len(f))
      BY <1>3, <2>3, HandsOver
    <3>2. f = Whole(Sent') /\ rx.packet \in Seq(Bytes) /\ Len(rx.packet) <= PacketSize
      BY <2>1 DEF Sent, TypeOK
    <3> HIDE DEF f
    <3>3. stage' = "accept" /\ frame' = rx.packet /\ origin' = "node" /\ written' = <<>>
      BY <3>1 DEF HandOver, Nothing
    <3>4. FromNode'
      BY <2>1, <3>1, <3>2, <3>3 DEF FromNode, Carries, ToUart, Nothing
    <3> QED BY <3>3, <3>4 DEF Carrying, Writing, FromHost, FromApps, Nothing
  <2> QED BY <2>2, <2>3
<1>4. CASE do_something_sensible_with_packet
  <2>1. /\ stage = "accept" /\ stage' \in {"apps", "unknown"}
        /\ UNCHANGED <<history, lost, found, intact, frame, origin, written>>
    BY <1>4 DEF do_something_sensible_with_packet, stream
  <2>2. /\ origin = "node" /\ written = <<>> /\ history # <<>>
        /\ frame \in Seq(Bytes) /\ Len(frame) <= PacketSize
        /\ intact => frame = Kept(Whole(Sent), Len(Whole(Sent)))
        /\ found /\ lost <= 1 => Got(Whole(Sent), frame, Len(Whole(Sent)))
    BY <2>1, FromNodes
  <2>3. FromNode'
    BY <2>1, <2>2 DEF FromNode, Carries, ToUart, Nothing, Sent
  <2> QED BY <2>1, <2>2, <2>3 DEF Carrying, Writing, FromHost, FromApps, Nothing
<1>5. CASE Reply
  <2>1. /\ stage = "apps" /\ is_our_nbp_lkup(frame) /\ stage' = "uart_tx" /\ origin' = "apps"
        /\ UNCHANGED <<history, intact, written>>
    BY <1>5 DEF Reply, stream
  <2>2. /\ written = <<>> /\ history # <<>> /\ frame \in Seq(Bytes)
        /\ intact => frame = Kept(Whole(Sent), Len(Whole(Sent)))
    BY <2>1, FromNodes
  <2>3. Fitting(frame') /\ Answers(frame', frame)
    <3>1. PICK ap \in AccessPoints, enumerator \in 0 .. 1 :
             frame' = ReplyFrom(frame, ap, enumerator)
      BY <1>5 DEF Reply, ReplyFrom
    <3> QED BY <2>2, <3>1, ReplyAnswers
  <2>4. ASSUME intact PROVE Answers(frame', Sent')
    <3>1. Sent \in Seq(Bytes) /\ Sent' = Sent
      BY <2>1, <2>2, SentIs DEF TypeOK, Sent
    <3> HIDE DEF Sent
    <3>2. frame = Kept(Whole(Sent), Len(Whole(Sent)))
      BY <2>2, <2>4
    <3>3. Answers(frame', Sent)
      BY <2>1, <2>3, <3>1, <3>2, AnswersSent
    <3> QED BY <3>1, <3>3
  <2>5. FromApps'
    BY <2>1, <2>2, <2>3, <2>4 DEF FromApps, Fitting
  <2> QED BY <2>1, <2>2, <2>5 DEF Carrying, Writing, FromHost, FromNode, Nothing
<1>6. CASE apps_runloop
  <2>1. /\ stage = "apps" /\ stage' \in {"configured", "udp_tx"}
        /\ UNCHANGED <<history, lost, found, intact, frame, origin, written>>
    BY <1>6 DEF apps_runloop, stream
  <2>2. /\ origin = "node" /\ written = <<>> /\ history # <<>>
        /\ frame \in Seq(Bytes) /\ Len(frame) <= PacketSize
        /\ intact => frame = Kept(Whole(Sent), Len(Whole(Sent)))
        /\ found /\ lost <= 1 => Got(Whole(Sent), frame, Len(Whole(Sent)))
    BY <2>1, FromNodes
  <2>3. FromNode'
    BY <2>1, <2>2 DEF FromNode, Carries, ToUart, Nothing, Sent
  <2> QED BY <2>1, <2>2, <2>3 DEF Carrying, Writing, FromHost, FromApps, Nothing
<1>7. CASE udp_tx_runloop
  <2>1. /\ stage = "udp_tx" /\ UNCHANGED <<history, lost, found, intact, origin, written>>
        /\ \/ stage' = "done"
           \/ stage' = "udp" /\ frame' = SubSeq(Header \o frame, 1, Len(frame) + 2)
    BY <1>7 DEF udp_tx_runloop, stream
  <2>2. /\ origin = "node" /\ written = <<>> /\ history # <<>>
        /\ frame \in Seq(Bytes) /\ Len(frame) <= PacketSize
        /\ intact => frame = Kept(Whole(Sent), Len(Whole(Sent)))
        /\ found /\ lost <= 1 => Got(Whole(Sent), frame, Len(Whole(Sent)))
    BY <2>1, FromNodes
  <2>3. FromNode'
    BY <2>1, <2>2 DEF FromNode, Carries, ToUart, Nothing, Sent
  <2> QED BY <2>1, <2>2, <2>3 DEF Carrying, Writing, FromHost, FromApps, Nothing
<1>8. CASE udp_rx_runloop
  <2>1. /\ stage = "udp" /\ UNCHANGED <<history, lost, found, intact, origin, written>>
        /\ stage' \in {"done", "unknown", "uart_tx"}
    BY <1>8 DEF udp_rx_runloop, stream
  <2>2. written = <<>> /\ written' = <<>>
    BY <2>1 DEF Carrying, Writing, Nothing
  <2>3. Writing' /\ origin # "apps" /\ origin' = origin /\ origin \in {"node", "host", "apps"}
    BY <2>1, <2>2 DEF Carrying, Writing, FromApps, Nothing
  <2>4. CASE stage' # "uart_tx"
    <3>1. ~ToUart'
      BY <2>2, <2>4 DEF ToUart, Nothing
    <3> QED BY <2>1, <2>3, <2>4, <3>1 DEF Carrying, FromNode, FromHost, FromApps
  <2>5. CASE stage' = "uart_tx" /\ origin = "node"
    <3>1. PICK p \in Seq(Bytes) :
             /\ Carries(p)
             /\ intact => p = Kept(Whole(Sent), Len(Whole(Sent)))
             /\ found /\ lost <= 1 => Got(Whole(Sent), p, Len(Whole(Sent)))
      BY <2>1, <2>5 DEF Carrying, FromNode
    <3>2. Len(p) <= PacketSize /\ frame = Datagram(p)
      BY <2>1, <3>1 DEF Carries, Datagram
    <3>3. frame' = WithFcs(Content(p)) /\ Len(p) >= 6
      BY <1>8, <2>5, <3>2, ReceivedNode
    <3>4. Carries(p)'
      BY <2>5, <3>2, <3>3 DEF Carries
    <3>5. history # <<>>
      BY <2>1, <2>5 DEF Carrying, FromNode
    <3>6. FromNode'
      BY <2>1, <3>1, <3>4, <3>5 DEF FromNode, Sent
    <3> QED BY <2>3, <2>5, <3>6 DEF Carrying, FromHost, FromApps
  <2>6. CASE stage' = "uart_tx" /\ origin = "host"
    <3>1. PICK d \in Datagrams : frame = Header \o d
      BY <2>1, <2>6 DEF Carrying, FromHost
    <3> DEFINE length == IF Len(d) + 2 <= PacketSize THEN Len(d) ELSE PacketSize - 2
    <3>2. d \in Seq(Bytes)
      BY Sequences
    <3>3. frame' = WithFcs(SubSeq(d, 1, length)) /\ length >= 4
      BY <1>8, <2>6, <3>1, <3>2, ReceivedHost
    <3>4. FromHost'
      BY <2>6, <3>3 DEF FromHost
    <3> QED BY <2>3, <2>6, <3>4 DEF Carrying, FromNode, FromApps
  <2> QED BY <2>1, <2>3, <2>4, <2>5, <2>6
<1>9. CASE OtherHostSends
  <2>1. /\ stage' = "udp" /\ origin' = "host" /\ written' = <<>>
        /\ \E datagram \in Datagrams : frame' = Header \o datagram
    BY <1>9 DEF OtherHostSends, Nothing
  <2>2. FromHost'
    BY <2>1 DEF FromHost, ToUart, Nothing
  <2> QED BY <2>1, <2>2 DEF Carrying, Writing, FromNode, FromApps, Nothing
<1>10. CASE uart_tx_runloop
  <2>1. /\ stage = "uart_tx" /\ stage' = "done"
        /\ UNCHANGED <<history, lost, found, intact, frame, origin>>
        /\ written' = IF tashtalk_tx_validate(frame) THEN frame ELSE <<>>
    BY <1>10 DEF uart_tx_runloop, stream, Nothing
  <2>2. Writing'
    BY <2>1 DEF Writing, Nothing
  <2>3. ToUart /\ stage' = "done"
    BY <2>1 DEF ToUart
  <2>4. FromNode'
    BY <2>1, <2>3 DEF Carrying, FromNode, Carries, Sent
  <2>5. FromHost'
    BY <2>1, <2>3 DEF Carrying, FromHost
  <2>6. FromApps'
    BY <2>1, <2>3 DEF Carrying, FromApps, Fitting, Sent
  <2> QED BY <2>1, <2>2, <2>4, <2>5, <2>6 DEF Carrying
<1>11. CASE UNCHANGED vars
  <2>1. UNCHANGED <<history, lost, found, intact, stage, frame, origin, written>>
    BY <1>11 DEF vars, stream, path
  <2> QED BY <2>1, ZenonT(30) DEF Carrying, Writing, FromNode, FromHost, FromApps, Carries,
                                  ToUart, Nothing, Sent, Fitting
<1> QED BY <1>1, <1>2, <1>3, <1>4, <1>5, <1>6, <1>7, <1>8, <1>9, <1>10, <1>11 DEF Next, Apps, Udp

\* At first nobody has a frame.
LEMMA CarryingInit ==
    ASSUME Init
    PROVE  Carrying
  BY DEF Init, Carrying, Writing, FromNode, FromHost, FromApps, ToUart, Nothing

\* A frame is carried as it was handed over, and a datagram as it came.
THEOREM CarriesFrames == Spec => []Carrying
<1>1. Spec => [](TypeOK /\ Reading /\ Damage)
  BY TypesHold, ReadsFrames, KnowsTheDamage, PTL
<1> QED BY <1>1, CarryingInit, CarryingStep, PTL DEF Spec

-----------------------------------------------------------------------------
(* What arrives.                                                           *)

\* The FCS changes nothing about what comes before it.
LEMMA WholeByte ==
    ASSUME NEW s \in Seq(Bytes), NEW i \in Nat, i < Len(s)
    PROVE  Byte(Whole(s), i) = Byte(s, i)
<1> DEFINE f == Whole(s)
<1>1. /\ Len(f) = Len(s) + 2 /\ Len(s) \in Nat /\ \A m \in 1 .. Len(s) : f[m] = s[m]
  BY Sequences, LenProperties
<1> HIDE DEF f
<1>2. i < Len(f) /\ i + 1 \in 1 .. Len(s)
  BY <1>1
<1>3. Byte(f, i) = Byte(s, i)
  BY <1>1, <1>2 DEF Byte
<1> QED BY <1>3 DEF f

\* A DDP frame fits a buffer, and UART_TX finds nothing wrong with it.
LEMMA DataIsValid ==
    ASSUME NEW s \in Seq(Bytes), Data(s)
    PROVE  /\ Kept(Whole(s), Len(Whole(s))) = Whole(s)
           /\ Len(Whole(s)) >= 7
           /\ tashtalk_tx_validate(WithFcs(s))
<1> DEFINE f == Whole(s)
<1>1. /\ f \in Seq(Bytes) /\ Len(f) = Len(s) + 2 /\ Len(s) \in Nat /\ f = WithFcs(s)
  BY Sequences, LenProperties
<1>2. Len(s) >= 5 /\ Len(f) <= PacketSize /\ ~Control(s) /\ ClaimedLength(s) = Len(s) - 3
  BY <1>1 DEF Data
<1>3. Byte(f, 2) = Byte(s, 2) /\ Byte(f, 3) = Byte(s, 3) /\ Byte(f, 4) = Byte(s, 4)
  BY <1>1, <1>2, WholeByte
<1>4. crc_state_ok(crc_state_append_all(crc_state_init, f))
  BY <1>1, FcsIsRight
<1> HIDE DEF f
<1>5. Kept(f, Len(f)) = f
  <2> DEFINE p == Kept(f, Len(f))
  <2>1. Len(f) \in 0 .. Len(f)
    BY <1>1
  <2>2. p \in Seq(Bytes) /\ Len(p) = Len(f) /\ \A i \in 1 .. Len(p) : p[i] = f[i]
    BY <1>1, <1>2, <2>1, KeptIs
  <2> HIDE DEF p
  <2>3. p = f
    BY <1>1, <2>2, SeqEqual
  <2> QED BY <2>3 DEF p
<1>6. ~Control(f) /\ ClaimedLength(f) = Len(f) - 5
  <2>1. ClaimedLength(f) = Len(s) - 3
    BY <1>2, <1>3 DEF ClaimedLength
  <2> QED BY <1>1, <1>2, <1>3, <2>1 DEF Control
<1>7. tashtalk_tx_validate(f)
  BY <1>1, <1>2, <1>4, <1>6 DEF tashtalk_tx_validate
<1> QED BY <1>1, <1>2, <1>5, <1>7 DEF f

\* No action stops a DDP frame of which nothing was lost, or changes it.
LEMMA ArrivingStep ==
    ASSUME TypeOK, TypeOK', Reading, Reading', Carrying, FramesArrive, [Next]_vars
    PROVE  FramesArrive'
<1>1. ASSUME NEW content \in Contents, TashTalkReceives(content) PROVE FramesArrive'
  <2>1. line' # <<>>
    <3>1. Len(line') >= 2
      BY <1>1, ReceivesIs DEF TypeOK
    <3> QED BY <3>1, EmptySeq
  <2> QED BY <2>1 DEF FramesArrive, Nothing
<1>2. CASE TashTalkGivesUp \/ LoseByte
  BY <1>2 DEF TashTalkGivesUp, LoseByte, FramesArrive
<1>3. CASE UartRx
  <2>1. SUFFICES ASSUME intact', line' = Nothing
                 PROVE  stage' \notin {"rx", "done"}
    BY DEF FramesArrive
  <2>2. stage = "rx" /\ stage' # "rx"
    BY <1>3, <2>1 DEF UartRx, Reading
  <2>3. stage' = stage \/ stage' = "accept"
    BY <1>3 DEF UartRx, feed, HandOver, path
  <2> QED BY <2>2, <2>3
<1>4. CASE do_something_sensible_with_packet \/ Apps \/ OtherHostSends
  BY <1>4 DEF do_something_sensible_with_packet, Apps, Reply, apps_runloop, OtherHostSends,
              FramesArrive
<1>5. CASE udp_tx_runloop \/ udp_rx_runloop \/ uart_tx_runloop
  <2> DEFINE f == Whole(Sent)
  <2>1. UNCHANGED <<history, line, intact, origin>> /\ stage' # "rx"
    BY <1>5 DEF udp_tx_runloop, udp_rx_runloop, uart_tx_runloop, stream
  <2>2. SUFFICES ASSUME intact, origin = "node", history # <<>>, Data(Sent), stage' = "done"
                 PROVE  written' = f
    BY <2>1 DEF FramesArrive, Sent, Whole
  <2>3. Sent \in Seq(Bytes)
    BY <2>2, SentIs DEF TypeOK
  <2>4. /\ Kept(f, Len(f)) = f /\ Len(f) >= 7 /\ Len(f) \in Nat
        /\ f = WithFcs(Sent) /\ Content(f) = Sent
        /\ tashtalk_tx_validate(f)
    <3> HIDE DEF Sent
    <3>1. f \in Seq(Bytes) /\ f = WithFcs(Sent) /\ Content(f) = Sent
      BY <2>3, Sequences
    <3>2. Kept(f, Len(f)) = f /\ Len(f) >= 7 /\ tashtalk_tx_validate(WithFcs(Sent))
      BY <2>2, <2>3, DataIsValid
    <3> QED BY <3>1, <3>2, LenProperties
  <2>5. stage \in {"udp_tx", "udp", "uart_tx"}
    BY <1>5 DEF udp_tx_runloop, udp_rx_runloop, uart_tx_runloop
  <2> HIDE DEF f
  <2>6. PICK p \in Seq(Bytes) : Carries(p) /\ p = f
    BY <2>2, <2>4, <2>5 DEF Carrying, FromNode, ToUart, f
  <2>7. CASE udp_tx_runloop
    <3>1. stage = "udp_tx" /\ Len(frame) = 5
      BY <2>2, <2>7 DEF udp_tx_runloop
    <3>2. frame = f
      BY <2>6, <3>1 DEF Carries
    <3> QED BY <2>4, <3>1, <3>2
  <2>8. CASE udp_rx_runloop
    <3> DEFINE n == IF Len(frame) > PacketSize + 2 THEN PacketSize + 2 ELSE Len(frame)
               buffer == SubSeq(frame, 1, n)
    <3>1. stage = "udp" /\ (Len(buffer) > PacketSize + 4 \/ Len(buffer) <= 7)
      BY <2>2, <2>8 DEF udp_rx_runloop
    <3>2. frame = Datagram(p) /\ Len(p) <= PacketSize
      BY <2>6, <3>1 DEF Carries, Datagram
    <3>3. Len(frame) = Len(f) + 2 /\ frame \in Seq(Bytes) /\ Len(f) <= PacketSize
      BY <2>6, <3>2, DatagramIs
    <3>4. n = Len(frame) /\ n \in Nat /\ n >= 9 /\ n <= PacketSize + 2
      BY <2>4, <3>3, PacketSizeAssumption
    <3> HIDE DEF n
    <3>5. Len(buffer) = n
      <4>1. 0 + n <= Len(frame) /\ 0 + 1 = 1 /\ 0 + n = n
        BY <3>4
      <4>2. Len(SubSeq(frame, 0 + 1, 0 + n)) = n
        BY <3>3, <3>4, <4>1, Slice
      <4> QED BY <4>1, <4>2
    <3> QED BY <3>1, <3>4, <3>5, PacketSizeAssumption
  <2>9. CASE uart_tx_runloop
    <3>1. stage = "uart_tx" /\ written' = IF tashtalk_tx_validate(frame) THEN frame ELSE Nothing
      BY <2>9 DEF uart_tx_runloop
    <3>2. frame = f
      BY <2>4, <2>6, <3>1 DEF Carries, ToUart
    <3> QED BY <2>4, <3>1, <3>2
  <2> QED BY <1>5, <2>7, <2>8, <2>9
<1>6. CASE UNCHANGED vars
  <2>1. UNCHANGED <<history, line, intact, origin, stage, written>>
    BY <1>6 DEF vars, stream, path
  <2> QED BY <2>1 DEF FramesArrive, Sent
<1> QED BY <1>1, <1>2, <1>3, <1>4, <1>5, <1>6 DEF Next, Udp

\* The frame of which nothing was lost, on either side, is written as it was sent.
THEOREM WhatIsSentArrives == Spec => []FramesArrive
<1>1. Init => FramesArrive
  BY DEF Init, FramesArrive
<1>2. Spec => [](TypeOK /\ Reading /\ Carrying)
  BY TypesHold, ReadsFrames, CarriesFrames, PTL
<1> QED BY <1>1, <1>2, ArrivingStep, PTL DEF Spec

-----------------------------------------------------------------------------
(* What is written.                                                        *)

\* What UART_TX lets through of what fits a buffer is a DDP frame.
LEMMA ValidIsData ==
    ASSUME NEW c \in Seq(Bytes), Len(c) >= 4, Len(c) + 2 <= PacketSize,
           NEW f, f = WithFcs(c), tashtalk_tx_validate(f)
    PROVE  Data(c) /\ Content(f) = c /\ f = c \o Fcs(c)
<1>1. /\ f = Whole(c) /\ f \in Seq(Bytes) /\ Len(f) = Len(c) + 2 /\ Len(c) \in Nat
      /\ Content(f) = c
  BY Sequences, LenProperties
<1>2. /\ Len(f) = 5 <=> Control(f)
      /\ Len(f) # 6
      /\ Len(f) >= 7 => ClaimedLength(f) = Len(f) - 5
  BY DEF tashtalk_tx_validate
<1>3. Len(c) >= 5 /\ ~Control(f) /\ ClaimedLength(f) = Len(c) - 3
  BY <1>1, <1>2
<1>4. Byte(f, 2) = Byte(c, 2) /\ Byte(f, 3) = Byte(c, 3) /\ Byte(f, 4) = Byte(c, 4)
  BY <1>1, <1>3, WholeByte
<1>5. ~Control(c)
  BY <1>3, <1>4 DEF Control
<1>6. ClaimedLength(c) = Len(c) - 3
  BY <1>3, <1>4 DEF ClaimedLength
<1>7. Data(c)
  BY <1>3, <1>5, <1>6 DEF Data
<1> QED BY <1>1, <1>7 DEF Whole

\* The header tells the length.
LEMMA HeaderTells ==
    ASSUME NEW c \in Seq(Bytes), NEW s \in Seq(Bytes), Data(c), LlapFrame(s),
           \A i \in 1 .. 5 : c[i] = Whole(s)[i]
    PROVE  Len(c) = Len(s)
<1>1. /\ Len(c) \in Nat /\ Len(s) \in Nat /\ Len(c) >= 5 /\ Len(s) >= 3
      /\ ~Control(c) /\ ClaimedLength(c) = Len(c) - 3
  <2>1. Len(c) \in Nat /\ Len(s) \in Nat
    BY LenProperties
  <2>2. Len(c) >= 5 /\ ~Control(c) /\ ClaimedLength(c) = Len(c) - 3
    BY DEF Data
  <2>3. Len(s) >= 3
    <3>1. CASE Control(s)
      <4>1. Len(s) = 3
        BY <3>1 DEF LlapFrame
      <4> QED BY <4>1
    <3>2. CASE ~Control(s)
      <4>1. Len(s) >= 5
        BY <3>2 DEF LlapFrame
      <4> QED BY <2>1, <4>1
    <3> QED BY <3>1, <3>2
  <2> QED BY <2>1, <2>2, <2>3
<1>2. \A i \in 1 .. Len(s) : Whole(s)[i] = s[i]
  BY Sequences
<1>3. ASSUME NEW i \in 0 .. 4, i < Len(s) PROVE Byte(c, i) = Byte(s, i)
  <2>1. i + 1 \in 1 .. 5 /\ i + 1 \in 1 .. Len(s) /\ i < Len(c)
    BY <1>1, <1>3
  <2>2. c[i + 1] = s[i + 1]
    BY <1>2, <2>1
  <2> QED BY <1>3, <2>1, <2>2 DEF Byte
<1>4. ~Control(s)
  <2>1. Byte(c, 2) = Byte(s, 2)
    BY <1>1, <1>3
  <2> QED BY <1>1, <2>1 DEF Control
<1>5. Len(s) >= 5 /\ ClaimedLength(s) = Len(s) - 3
  BY <1>4 DEF LlapFrame
<1>6. Byte(c, 3) = Byte(s, 3) /\ Byte(c, 4) = Byte(s, 4)
  BY <1>1, <1>3, <1>5
<1>7. ClaimedLength(c) = ClaimedLength(s)
  BY <1>6 DEF ClaimedLength
<1> QED BY <1>1, <1>5, <1>7

\* What has the length of a frame that was sent, and its bytes, is that frame.
LEMMA KeptIsAlike ==
    ASSUME NEW s \in Seq(Bytes), LlapFrame(s), NEW g \in Seq(Bytes), Len(g) = Len(s) + 2,
           \A i \in 1 .. 5 : g[i] = Whole(s)[i],
           NEW p \in Seq(Bytes), p = Kept(g, Len(g)), Len(p) >= 6, Data(Content(p))
    PROVE  Len(Content(p)) = Len(s) /\ \A i \in 1 .. Len(s) : Content(p)[i] = g[i]
<1> DEFINE c == Content(p)
<1>1. Len(s) \in Nat /\ Len(g) \in Nat /\ Len(g) \in 0 .. Len(g)
  BY LenProperties
<1>2. /\ p \in Seq(Bytes) /\ Len(p) \in Nat /\ Len(p) <= Len(g)
      /\ \A i \in 1 .. Len(p) : p[i] = g[i]
  <2> DEFINE k == Kept(g, Len(g))
  <2>1. /\ k \in Seq(Bytes) /\ Len(k) \in Nat /\ Len(k) <= Len(g)
        /\ \A i \in 1 .. Len(k) : k[i] = g[i]
    BY <1>1, KeptIs
  <2>2. p = k
    OBVIOUS
  <2> HIDE DEF k
  <2> QED BY <2>1, <2>2
<1>3. /\ c \in Seq(Bytes) /\ Len(c) = Len(p) - 2
      /\ \A i \in 1 .. Len(p) - 2 : c[i] = p[i]
  BY <1>2, ContentIs, SMTT(30)
<1>4. Len(c) >= 5
  BY DEF Data
<1> HIDE DEF c
<1>5. ASSUME NEW i \in 1 .. Len(c) PROVE c[i] = g[i]
  <2>1. i \in 1 .. Len(p) - 2 /\ i \in 1 .. Len(p)
    BY <1>2, <1>3
  <2> QED BY <1>2, <1>3, <2>1
<1>6. ASSUME NEW i \in 1 .. 5 PROVE c[i] = Whole(s)[i]
  <2>1. i \in 1 .. Len(c)
    BY <1>2, <1>3, <1>4
  <2> QED BY <1>5, <2>1
<1>7. Len(c) = Len(s)
  BY <1>3, <1>6, HeaderTells DEF c
<1> QED BY <1>3, <1>5, <1>7 DEF c

\* What the header lets through of a frame that lost a byte is like it, or a remnant.
LEMMA WhatRemains ==
    ASSUME NEW s \in Seq(Bytes), LlapFrame(s), NEW p \in Seq(Bytes), Len(p) >= 6,
           Got(Whole(s), p, Len(Whole(s))), Data(Content(p))
    PROVE  Alike(Content(p), s) \/ Remnant(Content(p), s)
<1> DEFINE f == Whole(s)   c == Content(p)
<1>1. /\ f \in Seq(Bytes) /\ Len(f) = Len(s) + 2 /\ Len(s) \in Nat
      /\ \A i \in 1 .. Len(s) : f[i] = s[i]
  BY Sequences, LenProperties
<1>2. /\ c \in Seq(Bytes) /\ Len(c) = Len(p) - 2 /\ Len(p) \in Nat
      /\ \A i \in 1 .. Len(p) - 2 : c[i] = p[i]
  BY ContentIs, LenProperties
<1>3. Len(c) >= 5
  BY DEF Data
<1>4. CASE p = Kept(f, Len(f))
  <2>1. Len(c) = Len(s) /\ \A i \in 1 .. Len(s) : c[i] = f[i]
    BY <1>1, <1>4, KeptIsAlike
  <2> HIDE DEF c, f
  <2>2. c = s
    BY <1>1, <1>2, <2>1, SeqEqual
  <2> QED BY <2>2 DEF Alike, c
<1>5. ASSUME NEW z \in 6 .. Len(f), f[z] = 0, p = Kept(Misread(f, z), Len(f))
      PROVE  Alike(c, s)
  <2> DEFINE g == Misread(f, z)
  <2>1. z \in 1 .. Len(f)
    BY <1>1
  <2>2. /\ g \in Seq(Bytes) /\ Len(g) = Len(f) /\ g[z] = 255
        /\ \A i \in 1 .. Len(f) : i # z => g[i] = f[i]
    BY <1>1, <2>1, MisreadIs
  <2> HIDE DEF g
  <2>3. \A i \in 1 .. 5 : g[i] = f[i]
    BY <1>1, <2>1, <2>2
  <2>4. p = Kept(g, Len(g)) /\ Len(g) = Len(s) + 2
    BY <1>1, <1>5, <2>2 DEF g
  <2>5. Len(c) = Len(s) /\ \A i \in 1 .. Len(s) : c[i] = g[i]
    <3>1. g \in Seq(Bytes) /\ \A i \in 1 .. 5 : g[i] = Whole(s)[i]
      BY <2>2, <2>3
    <3> QED BY <2>4, <3>1, KeptIsAlike
  <2> HIDE DEF c, f
  <2>6. CASE z > Len(s)
    <3>1. \A i \in 1 .. Len(s) : c[i] = s[i]
      BY <1>1, <2>2, <2>5, <2>6
    <3>2. c = s
      BY <1>2, <2>5, <3>1, SeqEqual
    <3> QED BY <3>2 DEF Alike
  <2>7. CASE ~(z > Len(s))
    <3>1. z \in 1 .. Len(s) /\ z \in DOMAIN s /\ s[z] = 0 /\ 255 \in Bytes
      <4>1. z \in 1 .. Len(s) /\ 255 \in Bytes
        BY <1>1, <2>1, <2>7 DEF Bytes
      <4>2. z \in DOMAIN s
        BY <4>1
      <4>3. s[z] = 0
        BY <1>1, <1>5, <4>1
      <4> QED BY <4>1, <4>2, <4>3
    <3> DEFINE m == [s EXCEPT ![z] = 255]
    <3>2. m \in Seq(Bytes) /\ Len(m) = Len(s) /\ m[z] = 255
          /\ \A i \in 1 .. Len(s) : i # z => m[i] = s[i]
      BY <3>1, ExceptSeq
    <3> HIDE DEF m
    <3>3. \A i \in 1 .. Len(s) : c[i] = m[i]
      BY <1>1, <2>2, <2>5, <3>2
    <3>4. c = m
      BY <1>2, <2>5, <3>2, <3>3, SeqEqual
    <3> QED BY <3>1, <3>4 DEF Alike, m
  <2> QED BY <2>6, <2>7
<1>6. ASSUME NEW z \in 1 .. Len(f) - 1, f[z] = 0, f[z + 1] \in {250, 253, 254},
             p = Kept(After(f, z), Len(f) - z - 1)
      PROVE  Remnant(c, s)
  <2> DEFINE g == After(f, z)   k == z + 1
  <2>1. /\ g \in Seq(Bytes) /\ Len(g) = Len(f) - z - 1
        /\ \A i \in 1 .. Len(f) - z - 1 : g[i] = f[z + 1 + i]
    BY <1>1, AfterIs
  <2> HIDE DEF g
  <2>2. Len(g) \in 0 .. Len(g) /\ p = Kept(g, Len(g))
    BY <1>1, <1>6, <2>1 DEF g
  <2>3. Len(p) <= Len(g) /\ \A i \in 1 .. Len(p) : p[i] = g[i]
    <3> DEFINE q == Kept(g, Len(g))
    <3>1. Len(q) <= Len(g) /\ \A i \in 1 .. Len(q) : q[i] = g[i]
      BY <2>1, <2>2, KeptIs
    <3>2. p = q
      BY <2>2
    <3> HIDE DEF q
    <3> QED BY <3>1, <3>2
  <2> HIDE DEF c, f
  <2>4. /\ k + Len(c) <= Len(s) /\ k \in Nat /\ z \in 1 .. Len(s) /\ z + 1 \in 1 .. Len(s)
        /\ k + 1 = z + 2 /\ k + Len(c) = z + 1 + Len(c)
    BY <1>1, <1>2, <1>3, <2>1, <2>3, SMTT(30)
  <2>5. ASSUME NEW i \in 1 .. Len(c) PROVE s[k + i] = c[i]
    <3>1. /\ i \in 1 .. Len(p) - 2 /\ i \in 1 .. Len(p) /\ i \in 1 .. Len(f) - z - 1
          /\ k + i \in 1 .. Len(s) /\ k + i = z + 1 + i
      BY <1>1, <1>2, <2>1, <2>3, <2>4, SMTT(30)
    <3>2. c[i] = p[i] /\ p[i] = g[i] /\ g[i] = f[z + 1 + i]
      BY <1>2, <2>1, <2>3, <3>1
    <3>3. f[k + i] = s[k + i]
      BY <1>1, <3>1
    <3> QED BY <3>1, <3>2, <3>3
  <2>6. SubSeq(s, k + 1, k + Len(c)) = c
    <3> HIDE DEF k
    <3> QED BY <1>2, <2>4, <2>5, SliceIs
  <2>7. s[z] = 0 /\ s[z + 1] \in {250, 253, 254} /\ z \in DOMAIN s /\ z + 1 \in DOMAIN s
    BY <1>1, <1>6, <2>4, SMTT(30)
  <2>8. c = SubSeq(s, z + 2, z + 1 + Len(c))
    BY <2>4, <2>6
  <2> QED BY <2>4, <2>7, <2>8 DEF Remnant
<1>7. ~Shorter(f, p, Len(f))
  <2>1. SUFFICES ASSUME Shorter(f, p, Len(f)) PROVE FALSE
    OBVIOUS
  <2>2. ASSUME NEW i \in 1 .. 5 PROVE c[i] = f[i]
    <3>1. i \in 1 .. Len(p) - 2
      BY <1>2, <1>3
    <3> QED BY <1>2, <2>1, <3>1 DEF Shorter
  <2>3. Len(c) = Len(s)
    BY <1>2, <2>2, HeaderTells
  <2> QED BY <1>1, <1>2, <2>1, <2>3 DEF Shorter
<1> QED BY <1>4, <1>5, <1>6, <1>7 DEF Got

\* What has been written, wherever it came from, is no less than that.
LEMMA NoRemains ==
    ASSUME TypeOK, Carrying
    PROVE  NoRemainsWritten
<1>1. SUFFICES ASSUME written # Nothing PROVE NoRemainsWritten
  BY DEF NoRemainsWritten
<1> DEFINE content == Content(written)
<1>2. ToUart /\ written = frame /\ tashtalk_tx_validate(frame)
  BY <1>1 DEF Carrying, Writing, ToUart
<1>3. SubSeq(written, 1, Len(written) - 2) = content
  BY DEF Content
<1>4. CASE origin = "node"
  <2>1. history # <<>> /\ \E p \in Seq(Bytes) :
            /\ Carries(p)
            /\ found /\ lost <= 1 => Got(Whole(Sent), p, Len(Whole(Sent)))
    BY <1>2, <1>4 DEF Carrying, FromNode
  <2>2. PICK p \in Seq(Bytes) :
            /\ Carries(p)
            /\ found /\ lost <= 1 => Got(Whole(Sent), p, Len(Whole(Sent)))
    BY <2>1
  <2>3. Len(p) <= PacketSize /\ Len(p) >= 6 /\ written = WithFcs(Content(p)) /\ Len(p) \in Nat
    BY <1>2, <2>2, LenProperties DEF Carries
  <2>4. Content(p) \in Seq(Bytes) /\ Len(Content(p)) = Len(p) - 2
    BY <2>3, ContentIs
  <2>5. Data(Content(p)) /\ content = Content(p) /\ written = Content(p) \o Fcs(Content(p))
    <3>1. Len(Content(p)) >= 4 /\ Len(Content(p)) + 2 <= PacketSize
      BY <2>3, <2>4, PacketSizeAssumption
    <3> QED BY <1>2, <2>3, <2>4, <3>1, ValidIsData
  <2> HIDE DEF content
  <2>6. ASSUME found, lost <= 1, LlapFrame(Sent)
        PROVE  Alike(content, Sent) \/ Remnant(content, Sent)
    <3>1. Sent \in Seq(Bytes)
      BY <2>1, SentIs DEF TypeOK
    <3> HIDE DEF Sent
    <3> QED BY <2>2, <2>3, <2>5, <2>6, <3>1, WhatRemains
  <2> QED BY <1>3, <1>4, <2>5, <2>6 DEF NoRemainsWritten
<1>5. CASE origin = "host"
  <2>1. PICK d \in Datagrams :
           LET length == IF Len(d) + 2 <= PacketSize THEN Len(d) ELSE PacketSize - 2
           IN  length >= 4 /\ frame = WithFcs(SubSeq(d, 1, length))
    BY <1>2, <1>5 DEF Carrying, FromHost
  <2> DEFINE length == IF Len(d) + 2 <= PacketSize THEN Len(d) ELSE PacketSize - 2
             c == SubSeq(d, 1, length)
  <2>2. d \in Seq(Bytes) /\ Len(d) \in Nat
    BY Sequences, LenProperties
  <2>3. /\ length \in Nat /\ length >= 4 /\ length <= Len(d) /\ length + 2 <= PacketSize
        /\ length = Len(d) \/ length + 2 = PacketSize
        /\ written = WithFcs(c)
    BY <1>2, <2>1, <2>2, PacketSizeAssumption
  <2> HIDE DEF length
  <2>4. c \in Seq(Bytes) /\ Len(c) = length
    <3>1. 0 + length <= Len(d) /\ 0 + 1 = 1 /\ 0 + length = length
      BY <2>3
    <3>2. /\ SubSeq(d, 0 + 1, 0 + length) \in Seq(Bytes)
          /\ Len(SubSeq(d, 0 + 1, 0 + length)) = length
      BY <2>2, <2>3, <3>1, Slice
    <3> QED BY <3>1, <3>2
  <2>5. c = SubSeq(d, 1, Len(c))
    BY <2>4
  <2> HIDE DEF c
  <2>6. Data(c) /\ content = c /\ written = c \o Fcs(c)
    BY <1>2, <2>3, <2>4, ValidIsData
  <2> HIDE DEF content
  <2> QED BY <1>3, <1>5, <2>3, <2>4, <2>5, <2>6 DEF NoRemainsWritten
<1>6. CASE origin = "apps"
  <2>1. Fitting(frame) /\ (intact => Answers(frame, Sent))
    BY <1>2, <1>6 DEF Carrying, FromApps
  <2>2. PICK c \in Seq(Bytes) :
           Len(c) >= 4 /\ Len(c) + 2 <= PacketSize /\ frame = WithFcs(c)
    BY <2>1 DEF Fitting
  <2>3. Data(c) /\ content = c /\ written = c \o Fcs(c)
    BY <1>2, <2>2, ValidIsData
  <2> HIDE DEF content
  <2> QED BY <1>2, <1>3, <1>6, <2>1, <2>3 DEF NoRemainsWritten
<1> QED BY <1>4, <1>5, <1>6 DEF Carrying

\* UART_TX writes whole frames, answers, and what a lost byte could not be told from.
THEOREM WritesNoRemains == Spec => []NoRemainsWritten
  BY TypesHold, CarriesFrames, NoRemains, PTL
=============================================================================
