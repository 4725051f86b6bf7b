--------------------------- MODULE XrDecodeProofs ---------------------------
(***************************************************************************)
(* Theorems about XrDecode, for URBs of any length: how the bytes are      *)
(* split into URBs matters only when a split falls within a pair, and then *)
(* it does because have_extra_byte is never set.                           *)
(***************************************************************************)
EXTENDS XrDecode, SequenceTheorems, TLAPS

URBs == Seq(Bytes)

LEMMA PairsOf ==
  ASSUME NEW s \in URBs
  PROVE  /\ Len(Pairs(s)) = Len(s) \div 2
         /\ DOMAIN Pairs(s) = 1..(Len(s) \div 2)
         /\ \A i \in 1..(Len(s) \div 2) :
              Pairs(s)[i] = Received(s[2 * i - 1], TtyFlag(s[2 * i]))
         /\ Pairs(s) \in Seq([ch : Bytes, flag : {"parity", "break", "frame", "overrun", "normal"}])
<1>1. Len(s) \div 2 \in Nat
  BY DEF URBs
<1>2. \A b : TtyFlag(b) \in {"parity", "break", "frame", "overrun", "normal"}
  BY DEF TtyFlag
<1>3. \A i \in 1..(Len(s) \div 2) : s[2 * i - 1] \in Bytes
  <2> TAKE i \in 1..(Len(s) \div 2)
  <2>1. 2 * i - 1 \in 1..Len(s)
    BY DEF URBs
  <2> QED
    BY <2>1 DEF URBs
<1>4. Pairs(s) \in [1..(Len(s) \div 2) -> [ch : Bytes, flag : {"parity", "break", "frame", "overrun", "normal"}]]
  BY <1>2, <1>3 DEF Pairs, Received
<1> QED
  BY <1>1, <1>4 DEF Pairs

LEMMA Joined ==
  ASSUME NEW T, NEW p \in Seq(T), NEW q \in Seq(T), NEW r \in Seq(T),
         Len(r) = Len(p) + Len(q),
         \A i \in 1..Len(p) : r[i] = p[i],
         \A i \in 1..Len(q) : r[Len(p) + i] = q[i]
  PROVE  p \o q = r
<1>1. Len(p) \in Nat /\ Len(q) \in Nat /\ p \o q \in Seq(T) /\ Len(p \o q) = Len(p) + Len(q)
  OBVIOUS
<1>2. ASSUME NEW i \in 1..Len(r) PROVE (p \o q)[i] = r[i]
  <2>1. CASE i <= Len(p)
    BY <1>1, <2>1
  <2>2. CASE i > Len(p)
    <3>1. i - Len(p) \in 1..Len(q) /\ i = Len(p) + (i - Len(p))
      BY <1>1, <2>2
    <3>2. (p \o q)[i] = q[i - Len(p)] /\ r[i] = q[i - Len(p)]
      BY <1>1, <2>2, <3>1
    <3> QED
      BY <3>2
  <2> QED
    BY <1>1, <2>1, <2>2
<1>3. Len(p \o q) = Len(r) /\ \A i \in 1..Len(p \o q) : (p \o q)[i] = r[i]
  BY <1>1, <1>2
<1> QED
  BY <1>1, <1>3, SeqEqual, Zenon

LEMMA PreciseIsPairs == \A s : Precise(s) = Pairs(s)
  BY DEF Precise, ProcessReadUrb

\* An URB that holds whole pairs may be split from the next one: every
\* character is inserted with its own flag (xr_usb_serial_common.c:421-465).
THEOREM WholePairs ==
  ASSUME NEW a \in URBs, NEW b \in URBs, Len(a) % 2 = 0
  PROVE  Splits(a, b)
<1> DEFINE m == Len(a) \div 2
           n == Len(b) \div 2
           c == a \o b
<1>1. /\ Len(a) = 2 * m /\ m \in Nat /\ n \in Nat /\ Len(b) \in Nat
      /\ c \in URBs /\ Len(c) = Len(a) + Len(b) /\ Len(c) \div 2 = m + n
  BY DEF URBs
<1>2. /\ \A i \in 1..m : c[2 * i - 1] = a[2 * i - 1] /\ c[2 * i] = a[2 * i]
      /\ \A i \in 1..n : c[2 * (m + i) - 1] = b[2 * i - 1] /\ c[2 * (m + i)] = b[2 * i]
  <2>1. /\ \A k \in 1..Len(a) : c[k] = a[k]
        /\ \A k \in 1..Len(b) : c[Len(a) + k] = b[k]
    BY DEF URBs
  <2>2. \A i \in 1..m : 2 * i - 1 \in 1..Len(a) /\ 2 * i \in 1..Len(a)
    BY <1>1
  <2>3. \A i \in 1..n :
          /\ 2 * i - 1 \in 1..Len(b) /\ 2 * (m + i) - 1 = Len(a) + (2 * i - 1)
          /\ 2 * i \in 1..Len(b) /\ 2 * (m + i) = Len(a) + 2 * i
    BY <1>1
  <2> HIDE DEF m, n, c
  <2> QED
    BY <2>1, <2>2, <2>3, Zenon
<1> HIDE DEF m, n, c
<1>3. /\ \A i \in 1..m : Pairs(c)[i] = Pairs(a)[i]
      /\ \A i \in 1..n : Pairs(c)[m + i] = Pairs(b)[i]
  <2>1. ASSUME NEW i \in 1..m PROVE Pairs(c)[i] = Pairs(a)[i]
    <3>1. i \in 1..(m + n)
      BY <1>1
    <3>2. /\ Pairs(c)[i] = Received(c[2 * i - 1], TtyFlag(c[2 * i]))
          /\ Pairs(a)[i] = Received(a[2 * i - 1], TtyFlag(a[2 * i]))
      BY <1>1, <3>1, PairsOf, Zenon DEF m
    <3> QED
      BY <1>2, <3>2
  <2>2. ASSUME NEW i \in 1..n PROVE Pairs(c)[m + i] = Pairs(b)[i]
    <3>1. m + i \in 1..(m + n)
      BY <1>1
    <3>2. /\ Pairs(c)[m + i] = Received(c[2 * (m + i) - 1], TtyFlag(c[2 * (m + i)]))
          /\ Pairs(b)[i] = Received(b[2 * i - 1], TtyFlag(b[2 * i]))
      BY <1>1, <3>1, PairsOf, Zenon DEF n
    <3> QED
      BY <1>2, <3>2
  <2> QED
    BY <2>1, <2>2
<1>4. Pairs(a) \o Pairs(b) = Pairs(c)
  <2>1. PICK p, q, r : p = Pairs(a) /\ q = Pairs(b) /\ r = Pairs(c)
    OBVIOUS
  <2>2. PICK T : p \in Seq(T) /\ q \in Seq(T) /\ r \in Seq(T)
    BY <1>1, <2>1, PairsOf, Zenon
  <2>3. Len(p) = m /\ Len(q) = n /\ Len(r) = m + n
    BY <1>1, <2>1, PairsOf, Zenon DEF m, n
  <2>4. (\A i \in 1..m : r[i] = p[i]) /\ (\A i \in 1..n : r[m + i] = q[i])
    BY <1>3, <2>1, Zenon
  <2> QED
    BY <1>1, <2>1, <2>2, <2>3, <2>4, Joined
<1> QED
  BY <1>4, PreciseIsPairs DEF Splits, c

\* A split within a pair loses its character, and takes the status of that
\* character for the next one (xr_usb_serial_common.c:421-442).
THEOREM SplitPair ==
  ASSUME NEW a \in URBs, NEW b \in URBs, Len(a) % 2 = 1, Len(b) >= 2
  PROVE  BreaksPair(a, b)
<1> DEFINE m == Len(a) \div 2
           c == a \o b
<1>1. /\ Len(a) = 2 * m + 1 /\ m \in Nat /\ (Len(a) + 1) \div 2 = m + 1 /\ Len(b) \in Nat
      /\ c \in URBs /\ Len(c) = Len(a) + Len(b) /\ m + 1 \in 1..(Len(c) \div 2)
      /\ 1 \in 1..(Len(b) \div 2) /\ Len(b) \div 2 \in Nat
  BY DEF URBs
<1>2. c[2 * (m + 1) - 1] = a[Len(a)] /\ c[2 * (m + 1)] = b[1]
  BY <1>1 DEF URBs
<1>3. Pairs(c)[m + 1] = Received(a[Len(a)], TtyFlag(b[1]))
  <2> HIDE DEF m, c
  <2> QED
    BY <1>1, <1>2, PairsOf
<1>4. (Pairs(a) \o Pairs(b))[m + 1] = Received(b[1], TtyFlag(b[2]))
  <2> HIDE DEF c
  <2>1. PICK p, q : p = Pairs(a) /\ q = Pairs(b)
    OBVIOUS
  <2>2. PICK T : p \in Seq(T) /\ q \in Seq(T)
    BY <2>1, PairsOf, Zenon
  <2>3. Len(p) = m /\ Len(q) = Len(b) \div 2
    BY <2>1, PairsOf
  <2>4. q[1] = Received(b[1], TtyFlag(b[2]))
    <3>1. q[1] = Received(b[2 * 1 - 1], TtyFlag(b[2 * 1]))
      BY <1>1, <2>1, PairsOf
    <3>2. 2 * 1 - 1 = 1 /\ 2 * 1 = 2
      OBVIOUS
    <3> QED
      BY <3>1, <3>2
  <2>5. (p \o q)[m + 1] = q[1]
    BY <1>1, <2>2, <2>3
  <2> QED
    BY <2>1, <2>4, <2>5
<1> QED
  BY <1>1, <1>3, <1>4, PreciseIsPairs DEF BreaksPair, c

\* Had the member been set, the character would have found its status: the
\* rest of process_read_urb is right (xr_usb_serial_common.c:421-442).
THEOREM KeptByte ==
  ASSUME NEW a \in URBs, NEW b \in URBs, Len(a) % 2 = 1
  PROVE  KeptWhole(a, b)
<1> DEFINE x == <<a[Len(a)]>>
           h == [i \in 1..(Len(a) - 1) |-> a[i]]
<1>1. /\ Len(a) \in Nat \ {0} /\ a[Len(a)] \in Bytes
      /\ h \in URBs /\ Len(h) = Len(a) - 1 /\ \A i \in 1..Len(h) : h[i] = a[i]
      /\ x \in URBs /\ x \o b \in URBs /\ a = h \o x
  <2>1. Len(a) \in Nat \ {0}
    BY DEF URBs
  <2>2. a[Len(a)] \in Bytes
    BY <2>1 DEF URBs
  <2>3. h \in URBs /\ Len(h) = Len(a) - 1
    <3>1. h \in [1..(Len(a) - 1) -> Bytes] /\ Len(a) - 1 \in Nat
      BY <2>1 DEF URBs
    <3> QED
      BY <3>1 DEF URBs
  <2>4. \A i \in 1..Len(h) : h[i] = a[i]
    BY <2>3
  <2>5. x \in URBs /\ x \o b \in URBs
    BY <2>2 DEF URBs
  <2>6. a = h \o x
    <3>1. Len(a) = Len(h) + Len(x) /\ \A i \in 1..Len(x) : a[Len(h) + i] = x[i]
      BY <2>1, <2>3
    <3> HIDE DEF h, x
    <3> QED
      BY <2>3, <2>4, <2>5, <3>1, Joined DEF URBs
  <2> QED
    BY <2>1, <2>2, <2>3, <2>4, <2>5, <2>6
<1> HIDE DEF h
<1>2. Len(h) % 2 = 0 /\ Len(h) \div 2 = Len(a) \div 2
  <2>1. PICK n : n = Len(a)
    OBVIOUS
  <2>2. n \in Nat \ {0} /\ n % 2 = 1 /\ Len(h) = n - 1
    BY <1>1, <2>1
  <2> QED
    BY <2>1, <2>2
<1>3. a \o b = h \o (x \o b)
  <2> HIDE DEF x
  <2>1. \A p, q, r \in Seq(Bytes) : (p \o q) \o r = p \o (q \o r)
    BY ConcatAssociative
  <2> QED
    BY <1>1, <2>1, Zenon DEF URBs
<1>4. Precise(a) = Precise(h)
  <2>1. \A i \in 1..(Len(a) \div 2) : h[2 * i - 1] = a[2 * i - 1] /\ h[2 * i] = a[2 * i]
    <3>1. \A i \in 1..(Len(a) \div 2) : 2 * i - 1 \in 1..Len(h) /\ 2 * i \in 1..Len(h)
      BY <1>1
    <3> HIDE DEF h
    <3> QED
      BY <1>1, <3>1, Zenon
  <2> HIDE DEF h
  <2>2. Pairs(h) = Pairs(a)
    BY <1>2, <2>1 DEF Pairs
  <2> QED
    BY <2>2, PreciseIsPairs
<1>5. ProcessReadUrb(TRUE, TRUE, a[Len(a)], b) = Precise(x \o b)
  BY DEF ProcessReadUrb, Precise
<1> HIDE DEF h, x
<1>6. Splits(h, x \o b)
  BY <1>1, <1>2, WholePairs
<1> QED
  BY <1>3, <1>4, <1>5, <1>6 DEF Splits, KeptWhole
=============================================================================
