-------------------------- MODULE HmdbHeaderProofs --------------------------
(***************************************************************************)
(* The characters of the header are an array of pointers that do not       *)
(* depend on each other, as long as the hash values in use are PtrSize     *)
(* apart: what HashApart of Hmdb rests on.                                 *)
(***************************************************************************)
EXTENDS HmdbHeader, DataProofs

\* The hash values in use are PtrSize apart, or the same.
HashesApart ==
  \A i, j \in Hashes : i = j \/ i + PtrSize <= j \/ j + PtrSize <= i

\* Two different slots share no character of the header.
LEMMA SlotsApart ==
  ASSUME HashesApart, NEW s \in Slots, NEW t \in Slots, s # t
  PROVE  s + PtrSize <= t \/ t + PtrSize <= s
<1>1. \A i \in Hashes : i \in Nat /\ FreeOff + PtrSize <= LinkHeadOff(i)
  BY HeaderParameters DEF FreeOff, LinkHeadOff, HashOff
<1> QED
  BY <1>1, HeaderParameters DEF HashesApart, Slots, LinkHeadOff, HashOff, FreeOff

\* Every character of a slot is one of the header's.
LEMMA SlotInHeader ==
  ASSUME NEW s \in Slots, NEW i \in 1..PtrSize
  PROVE  s \in Nat /\ s + i - 1 \in Nat /\ s + i - 1 \in s..(s + PtrSize - 1)
<1>1. s \in Nat
  BY HeaderParameters DEF Slots, LinkHeadOff, HashOff, FreeOff
<1> QED
  BY <1>1, HeaderParameters

\* Hmdb_WritePtr on one slot leaves every character of any other as it was.
LEMMA WriteKeepsWindow ==
  ASSUME HashesApart, NEW s \in Slots, NEW t \in Slots, s # t, NEW n, WritePtr(s, n),
         DOMAIN header = 0..(Length - 1),
         \A i \in 1..PtrSize : t + i - 1 \in DOMAIN header
  PROVE  Window(t)' = Window(t)
<1>1. ASSUME NEW i \in 1..PtrSize PROVE header'[t + i - 1] = header[t + i - 1]
  <2>1. t + i - 1 \notin s..(s + PtrSize - 1)
    <3>1. t + i - 1 \in t..(t + PtrSize - 1)
      BY SlotInHeader
    <3> QED
      BY <3>1, SlotsApart, SlotInHeader, HeaderParameters
  <2> QED
    BY <2>1 DEF WritePtr
<1> QED
  BY <1>1 DEF Window

HeaderType == DOMAIN header = 0..(Length - 1)

\* The slots lie before the newline that ends the header.
LEMMA SlotsFit ==
  ASSUME NEW s \in Slots, NEW i \in 1..PtrSize
  PROVE  s + i - 1 \in 0..(Length - 1) /\ s + i - 1 # Length - 1
<1>1. HashSize + PtrSize <= HashSize * PtrSize + 1
  <2>1. (HashSize - 1) * (PtrSize - 1) >= 0
    <3>1. HashSize - 1 \in Nat /\ PtrSize - 1 \in Nat
      BY HeaderParameters
    <3>2. \A a, b \in Nat : a * b >= 0
      OBVIOUS
    <3> QED
      BY <3>1, <3>2
  <2>2. (HashSize - 1) * (PtrSize - 1) = HashSize * PtrSize - HashSize - PtrSize + 1
    BY HeaderParameters
  <2> QED
    BY <2>1, <2>2, HeaderParameters
<1>2. Length = HashSize * PtrSize + PtrSize + 1
  BY HeaderParameters DEF Length
<1>3. HashSize * PtrSize \in Nat
  BY HeaderParameters
<1>4. s \in Nat /\ s <= HashSize - 1 + PtrSize
  BY HeaderParameters DEF Slots, LinkHeadOff, HashOff, FreeOff
<1> QED
  BY <1>1, <1>2, <1>3, <1>4, HeaderParameters

LEMMA HeaderTypeInvariant == Spec => []HeaderType
<1>1. Init => HeaderType
  BY DEF Init, HeaderType
<1>2. HeaderType /\ [Next]_header => HeaderType'
  BY DEF HeaderType, Next, WritePtr
<1> QED
  BY <1>1, <1>2, PTL DEF Spec

\* With hash values PtrSize apart, no write of one pointer of the header changes
\* what is read for another: for every size of pointers and of the table.
THEOREM SlotsStayIndependent ==
  ASSUME HashesApart
  PROVE  Spec => SlotsIndependent
<1> DEFINE Step == \A s, t \in Slots : \A n \in Pointers :
                      s # t /\ WritePtr(s, n) => ReadLinkHead(t)' = ReadLinkHead(t)
<1>1. HeaderType /\ [Next]_header => [Step]_header
  <2> SUFFICES ASSUME HeaderType, NEW s \in Slots, NEW t \in Slots, NEW n \in Pointers,
                      s # t, WritePtr(s, n)
               PROVE  ReadLinkHead(t)' = ReadLinkHead(t)
    OBVIOUS
  <2>1. \A i \in 1..PtrSize : t + i - 1 \in DOMAIN header
    BY SlotsFit DEF HeaderType
  <2>2. Window(t)' = Window(t)
    BY <2>1, WriteKeepsWindow DEF HeaderType
  <2> QED
    BY <2>2 DEF ReadLinkHead, Atol, Counts
<1>2. Spec => []HeaderType
  BY HeaderTypeInvariant
<1> QED
  BY <1>1, <1>2, PTL DEF Spec, SlotsIndependent

-----------------------------------------------------------------------------
(* What is formatted is read back.                                          *)

AreTens(f, n) == f = [k \in 0..n |-> IF k = 0 THEN 1 ELSE 10 * f[k - 1]]

LEMMA TensExist == \A n \in Nat : \E f : AreTens(f, n)
<1> DEFINE N == {n \in Nat : \E f : AreTens(f, n)}
<1>1. 0 \in N
  <2>1. AreTens([k \in 0..0 |-> 1], 0)
    BY DEF AreTens
  <2> QED
    BY <2>1
<1>2. ASSUME NEW n \in Nat, n \in N PROVE n + 1 \in N
  <2>1. PICK f : AreTens(f, n)
    BY <1>2
  <2> DEFINE g == [k \in 0..(n + 1) |-> IF k = n + 1 THEN 10 * f[n] ELSE f[k]]
  <2>2. \A k \in 0..n : g[k] = f[k] /\ f[k] = IF k = 0 THEN 1 ELSE 10 * f[k - 1]
    BY <2>1 DEF AreTens
  <2>3. ASSUME NEW k \in 0..(n + 1) PROVE g[k] = IF k = 0 THEN 1 ELSE 10 * g[k - 1]
    <3>1. CASE k = n + 1
      BY <2>2, <3>1
    <3>2. CASE k \in 0..n
      <4>1. k # 0 => k - 1 \in 0..n
        BY <3>2
      <4>2. g[k] = f[k] /\ (k # 0 => g[k - 1] = f[k - 1])
        BY <2>2, <3>2, <4>1
      <4> HIDE DEF g
      <4> QED
        BY <2>2, <3>2, <4>2
    <3> QED
      BY <3>1, <3>2
  <2> HIDE DEF g
  <2>4. g = [k \in 0..(n + 1) |-> g[k]]
    BY DEF g
  <2>5. AreTens(g, n + 1)
    BY <2>3, <2>4 DEF AreTens
  <2> QED
    BY <2>5
<1> HIDE DEF N
<1>3. Nat \subseteq N
  BY <1>1, <1>2, NatSetInduction
<1> QED
  BY <1>3 DEF N

LEMMA TenIs ==
  /\ Ten[0] = 1
  /\ \A k \in 0..PtrSize : Ten[k] \in Nat \ {0}
  /\ \A k \in 1..PtrSize : Ten[k] = 10 * Ten[k - 1]
<1>1. PtrSize \in Nat
  BY HeaderParameters
<1>2. AreTens(Ten, PtrSize)
  BY <1>1, TensExist DEF AreTens, Ten
<1>3. Ten[0] = 1 /\ \A k \in 1..PtrSize : Ten[k] = 10 * Ten[k - 1]
  BY <1>1, <1>2 DEF AreTens
<1> DEFINE N == {k \in Nat : k <= PtrSize => Ten[k] \in Nat \ {0}}
<1>4. 0 \in N
  BY <1>3
<1>5. ASSUME NEW k \in Nat, k \in N PROVE k + 1 \in N
  <2> SUFFICES ASSUME k + 1 <= PtrSize PROVE Ten[k + 1] \in Nat \ {0}
    OBVIOUS
  <2>1. Ten[k] \in Nat \ {0}
    BY <1>1, <1>5
  <2>2. k + 1 \in 1..PtrSize /\ (k + 1) - 1 = k
    BY <1>1
  <2>3. Ten[k + 1] = 10 * Ten[k]
    BY <1>3, <2>2
  <2> QED
    BY <2>1, <2>3
<1> HIDE DEF N
<1>6. Nat \subseteq N
  BY <1>4, <1>5, NatSetInduction
<1> QED
  BY <1>1, <1>3, <1>6 DEF N

\* The value Atol has behind each character of w.
Reads(v, w) ==
  v = [i \in 0..PtrSize |->
         IF i = 0 THEN 0
         ELSE IF Counts(w, i) THEN 10 * v[i - 1] + w[i] ELSE v[i - 1]]

LEMMA ReadsOnce ==
  ASSUME NEW v, NEW u, NEW w, Reads(v, w), Reads(u, w)
  PROVE  v[PtrSize] = u[PtrSize]
<1> DEFINE N == {i \in Nat : i <= PtrSize => v[i] = u[i]}
<1>1. PtrSize \in Nat
  BY HeaderParameters
<1>2. /\ v[0] = 0 /\ u[0] = 0
      /\ \A i \in 1..PtrSize :
           /\ v[i] = IF Counts(w, i) THEN 10 * v[i - 1] + w[i] ELSE v[i - 1]
           /\ u[i] = IF Counts(w, i) THEN 10 * u[i - 1] + w[i] ELSE u[i - 1]
  BY <1>1 DEF Reads
<1>3. ASSUME NEW i \in Nat, i \in N PROVE i + 1 \in N
  <2> SUFFICES ASSUME i + 1 <= PtrSize PROVE v[i + 1] = u[i + 1]
    OBVIOUS
  <2>1. v[i] = u[i]
    BY <1>1, <1>3
  <2>2. i + 1 \in 1..PtrSize /\ (i + 1) - 1 = i
    BY <1>1
  <2> QED
    BY <1>2, <2>1, <2>2
<1>4. 0 \in N
  BY <1>2
<1> HIDE DEF N
<1>5. Nat \subseteq N
  BY <1>3, <1>4, NatSetInduction
<1> QED
  BY <1>1, <1>5 DEF N

LEMMA AtolIs ==
  ASSUME NEW v, NEW w, Reads(v, w)
  PROVE  Atol(w) = v[PtrSize]
<1> DEFINE u == CHOOSE f : Reads(f, w)
<1>1. Atol(w) = u[PtrSize]
  BY DEF Atol, Reads
<1>2. Reads(u, w)
  OBVIOUS
<1> HIDE DEF u
<1> QED
  BY <1>1, <1>2, ReadsOnce

\* A window with nothing but blanks and zeros is a null pointer, wherever it lies.
LEMMA ZerosAreNull ==
  ASSUME NEW w, \A i \in 1..PtrSize : w[i] \in {0, Space}
  PROVE  Atol(w) = 0
<1> DEFINE v == [i \in 0..PtrSize |-> 0]
<1>1. PtrSize \in Nat
  BY HeaderParameters
<1>2. ASSUME NEW i \in 1..PtrSize, Counts(w, i) PROVE w[i] = 0
  BY <1>2 DEF Counts, Digit, Space
<1>3. \A i \in 1..PtrSize : v[i - 1] = 0
  BY <1>1
<1>4. Reads(v, w)
  BY <1>1, <1>2, <1>3 DEF Reads
<1> QED
  BY <1>1, <1>4, AtolIs

LEMMA QuotientIs ==
  ASSUME NEW n \in Nat, NEW w \in Nat \ {0}, NEW q \in Int, NEW r \in 0..(w - 1), n = w * q + r
  PROVE  n \div w = q
OBVIOUS

LEMMA QuotientOfQuotient ==
  ASSUME NEW n \in Nat, NEW d \in Nat \ {0}
  PROVE  n \div d = 10 * (n \div (10 * d)) + ((n \div d) % 10)
<1> DEFINE a == n \div d
           b == a \div 10
           c == a % 10
           r == n % d
<1>1. a \in Nat /\ r \in 0..(d - 1) /\ n = d * a + r
  BY ModIs
<1>2. b \in Nat /\ c \in 0..9 /\ a = 10 * b + c
  BY <1>1
<1> HIDE DEF a, b, c, r
<1>3. d * a = (10 * d) * b + d * c
  <2>1. \A x, y \in Nat : d * (10 * x + y) = (10 * d) * x + d * y
    OBVIOUS
  <2> QED
    BY <1>2, <2>1
<1>4. d * c + r \in 0..((10 * d) - 1)
  <2>1. d * c \in 0..(9 * d)
    BY <1>2
  <2> QED
    BY <1>1, <2>1
<1>5. n = (10 * d) * b + (d * c + r)
  BY <1>1, <1>2, <1>3, <1>4
<1>6. n \div (10 * d) = b
  <2>1. 10 * d \in Nat \ {0} /\ b \in Int
    BY <1>2
  <2> HIDE DEF b
  <2> QED
    BY <1>4, <1>5, <2>1, QuotientIs
<1> QED
  BY <1>2, <1>6 DEF a, c

\* Hmdb_ReadLinkHead gets the number that Hmdb_WritePtr formatted.
LEMMA FormatIsRead ==
  ASSUME NEW n \in 0..PtrMax
  PROVE  Atol(Format(n)) = n
<1> DEFINE w == Format(n)
           v == [i \in 0..PtrSize |-> n \div Ten[PtrSize - i]]
<1>1. PtrSize \in Nat \ {0} /\ n \in Nat /\ n < Ten[PtrSize]
  BY HeaderParameters, TenIs DEF PtrMax
<1>2. \A i \in 0..PtrSize : /\ PtrSize - i \in 0..PtrSize
                            /\ Ten[PtrSize - i] \in Nat \ {0}
  BY <1>1, TenIs
<1>3. ASSUME NEW i \in 1..PtrSize
      PROVE  Ten[PtrSize - (i - 1)] = 10 * Ten[PtrSize - i]
  <2>1. PtrSize - (i - 1) \in 1..PtrSize /\ (PtrSize - (i - 1)) - 1 = PtrSize - i
    BY <1>1
  <2> QED
    BY <2>1, TenIs
<1>4. ASSUME NEW i \in 1..PtrSize
      PROVE  /\ v[i] = n \div Ten[PtrSize - i] /\ v[i - 1] = n \div (10 * Ten[PtrSize - i])
             /\ v[i] = 10 * v[i - 1] + (v[i] % 10)
             /\ v[i] \in Nat /\ v[i] % 10 \in Digit
  <2>1. v[i] = n \div Ten[PtrSize - i] /\ v[i - 1] = n \div Ten[PtrSize - (i - 1)]
    BY <1>1
  <2>2. Ten[PtrSize - i] \in Nat \ {0}
    BY <1>1, <1>2
  <2>3. n \div Ten[PtrSize - i] \in Nat
    BY <1>1, <2>2, ModIs
  <2>4. \A x \in Nat : x % 10 \in Digit
    BY DEF Digit
  <2>5. n \div Ten[PtrSize - i]
          = 10 * (n \div (10 * Ten[PtrSize - i])) + ((n \div Ten[PtrSize - i]) % 10)
    BY <1>1, <2>2, QuotientOfQuotient
  <2> HIDE DEF v
  <2> QED
    BY <1>3, <2>1, <2>3, <2>4, <2>5
<1> DEFINE Small(i) == n < Ten[PtrSize - i] /\ i < PtrSize
<1>5. ASSUME NEW i \in 1..PtrSize
      PROVE  w[i] = IF Small(i) THEN Space ELSE v[i] % 10
  BY <1>4 DEF Format
<1>6. v[0] = 0 /\ v[PtrSize] = n
  <2>1. v[0] = n \div Ten[PtrSize] /\ v[PtrSize] = n \div Ten[0]
    BY <1>1
  <2>2. n \div Ten[PtrSize] = 0
    BY <1>1, TenIs, QuotientIs
  <2>3. n \div 1 = n
    BY <1>1
  <2> QED
    BY <2>1, <2>2, <2>3, TenIs
<1>7. \A i \in 1..PtrSize : n < Ten[PtrSize - i] => v[i] = 0
  <2> SUFFICES ASSUME NEW i \in 1..PtrSize, n < Ten[PtrSize - i] PROVE v[i] = 0
    OBVIOUS
  <2>1. Ten[PtrSize - i] \in Nat \ {0}
    BY <1>1, <1>2
  <2>2. n \div Ten[PtrSize - i] = 0
    BY <1>1, <2>1, QuotientIs
  <2> QED
    BY <1>4, <2>2
<1>8. ASSUME NEW i \in 1..PtrSize, NEW l \in 1..i, Small(i) PROVE Small(l)
  <2> DEFINE N == {k \in Nat : k < i => n < Ten[PtrSize - (i - k)]}
  <2>1. 0 \in N
    BY <1>8
  <2>2. ASSUME NEW k \in Nat, k \in N PROVE k + 1 \in N
    <3> SUFFICES ASSUME k + 1 < i PROVE n < Ten[PtrSize - (i - (k + 1))]
      OBVIOUS
    <3>1. n < Ten[PtrSize - (i - k)] /\ i - k \in 1..PtrSize /\ i - (k + 1) = (i - k) - 1
      BY <1>1, <2>2
    <3>2. Ten[PtrSize - ((i - k) - 1)] = 10 * Ten[PtrSize - (i - k)]
      BY <1>3, <3>1
    <3>3. Ten[PtrSize - (i - k)] \in Nat \ {0}
      BY <1>1, <1>2, <3>1
    <3> QED
      BY <1>1, <3>1, <3>2, <3>3
  <2> HIDE DEF N
  <2>3. Nat \subseteq N
    BY <2>1, <2>2, NatSetInduction
  <2>4. i - l \in Nat /\ i - l < i /\ i - (i - l) = l /\ l < PtrSize
    BY <1>1, <1>8
  <2> QED
    BY <2>3, <2>4 DEF N
<1>9. v = [i \in 0..PtrSize |-> v[i]]
  OBVIOUS
<1>10. ASSUME NEW i \in 1..PtrSize PROVE v[i - 1] \in Nat
  <2>1. i - 1 \in 0..PtrSize
    BY <1>1
  <2>2. Ten[PtrSize - (i - 1)] \in Nat \ {0}
    BY <1>2, <2>1
  <2>3. n \div Ten[PtrSize - (i - 1)] \in Nat
    BY <1>1, <2>2, ModIs
  <2> QED
    BY <2>1, <2>3
<1>11. \A i \in 1..PtrSize : ~Small(i) \/ v[i] = 0
  BY <1>7
<1> HIDE DEF w, v, Small
<1>12. ASSUME NEW i \in 1..PtrSize PROVE Counts(w, i) <=> ~Small(i)
  <2>1. Small(i) => w[i] \notin Digit
    BY <1>5 DEF Digit, Space
  <2>2. ASSUME ~Small(i) PROVE w[i] \in Digit
    BY <1>4, <1>5, <2>2
  <2>3. ASSUME NEW j \in 1..i, w[j] \notin Digit, NEW l \in 1..j PROVE w[l] = Space
    <3>1. j \in 1..PtrSize /\ l \in 1..PtrSize
      BY <1>1
    <3>2. Small(j)
      BY <1>4, <1>5, <2>3, <3>1
    <3>3. Small(l)
      BY <1>8, <3>1, <3>2
    <3> QED
      BY <1>5, <3>1, <3>3
  <2> QED
    BY <2>1, <2>2, <2>3 DEF Counts
<1>13. ASSUME NEW i \in 1..PtrSize
       PROVE  v[i] = IF Counts(w, i) THEN 10 * v[i - 1] + w[i] ELSE v[i - 1]
  <2>1. CASE Counts(w, i)
    BY <1>4, <1>5, <1>12, <2>1
  <2>2. CASE ~Counts(w, i)
    <3>1. v[i] = 0 /\ v[i] = 10 * v[i - 1] + (v[i] % 10)
      BY <1>4, <1>12, <1>11, <2>2
    <3>2. v[i] % 10 = 0
      BY <3>1
    <3> QED
      BY <1>10, <2>2, <3>1, <3>2
  <2> QED
    BY <2>1, <2>2
<1>14. Reads(v, w)
  <2>1. \A i \in 0..PtrSize : i = 0 \/ i \in 1..PtrSize
    BY <1>1
  <2> QED
    BY <1>6, <1>13, <1>9, <2>1 DEF Reads
<1> QED
  BY <1>6, <1>14, AtolIs DEF w

-----------------------------------------------------------------------------
(* The refinement.                                                          *)

LEMMA EmptyTable == Init => [s \in Slots |-> ReadLinkHead(s)] = [s \in Slots |-> 0]
<1> SUFFICES ASSUME Init, NEW s \in Slots PROVE Atol(Window(s)) = 0
  BY DEF ReadLinkHead
<1>1. PtrSize \in Nat \ {0} /\ Length \in Nat
  BY HeaderParameters DEF Length
<1>2. ASSUME NEW i \in 1..PtrSize PROVE Format(0)[i] \in {0, Space}
  <2>1. PtrSize - i \in 0..PtrSize
    BY <1>1
  <2>2. Ten[PtrSize - i] \in Nat \ {0}
    BY <2>1, TenIs
  <2>3. 0 \div Ten[PtrSize - i] = 0
    BY <2>2, QuotientIs
  <2>4. 0 % 10 = 0
    OBVIOUS
  <2> QED
    BY <2>3, <2>4 DEF Format
<1>3. ASSUME NEW i \in 1..PtrSize PROVE Window(s)[i] \in {0, Space}
  <2>1. s + i - 1 \in 0..(Length - 1) /\ s + i - 1 # Length - 1
    BY SlotsFit, <1>1
  <2>2. Window(s)[i] = Format(0)[((s + i - 1) % PtrSize) + 1]
    BY <2>1 DEF Window, Init
  <2>3. ((s + i - 1) % PtrSize) + 1 \in 1..PtrSize
    <3>1. (s + i - 1) % PtrSize \in 0..(PtrSize - 1)
      BY <1>1, <2>1, ModIs
    <3> QED
      BY <1>1, <3>1
  <2> QED
    BY <1>2, <2>2, <2>3
<1> QED
  BY <1>3, ZerosAreNull

LEMMA WriteIsWrite ==
  ASSUME HashesApart, HeaderType, NEW s \in Slots, NEW n \in Pointers, WritePtr(s, n)
  PROVE  Table!Write(s, n)
<1>1. n \in 0..PtrMax
  BY HeaderParameters
<1>2. ASSUME NEW t \in Slots, t # s PROVE ReadLinkHead(t)' = ReadLinkHead(t)
  <2>1. \A i \in 1..PtrSize : t + i - 1 \in DOMAIN header
    BY SlotsFit DEF HeaderType
  <2>2. Window(t)' = Window(t)
    BY <1>2, <2>1, WriteKeepsWindow DEF HeaderType
  <2> QED
    BY <2>2 DEF ReadLinkHead, Atol, Counts
<1>3. ReadLinkHead(s)' = n
  <2>1. ASSUME NEW i \in 1..PtrSize PROVE header'[s + i - 1] = Format(n)[i]
    <3>1. s + i - 1 \in DOMAIN header /\ s + i - 1 \in s..(s + PtrSize - 1)
      BY SlotsFit, SlotInHeader DEF HeaderType
    <3>2. (s + i - 1) - s + 1 = i
      BY SlotInHeader
    <3> QED
      BY <3>1, <3>2 DEF WritePtr
  <2>2. Window(s)' = Format(n)
    BY <2>1 DEF Window, Format
  <2>3. ReadLinkHead(s)' = Atol(Format(n))
    BY <2>2 DEF ReadLinkHead, Atol, Counts
  <2> QED
    BY <1>1, <2>3, FormatIsRead
<1> QED
  BY <1>2, <1>3 DEF Table!Write

\* With hash values PtrSize apart the characters of the header are an array of
\* pointers: what is written to a slot is read back from it and from no other,
\* for every size of pointers and of the table (hmdb.c:518).
THEOREM HeaderIsTable ==
  ASSUME HashesApart
  PROVE  Spec => ImplementsTable
<1> DEFINE Writes == \A s \in Slots, n \in Pointers : WritePtr(s, n) => Table!Write(s, n)
<1>1. Init => HeaderType /\ Table!Init
  BY EmptyTable DEF Init, HeaderType, Table!Init
<1>2. HeaderType /\ [Next]_header => HeaderType'
  BY DEF HeaderType, Next, WritePtr
<1>3. HeaderType /\ [Next]_header
        => [Writes]_header /\ [Table!Next]_([s \in Slots |-> ReadLinkHead(s)])
  <2> SUFFICES ASSUME HeaderType, [Next]_header
               PROVE  [Writes]_header /\ [Table!Next]_([s \in Slots |-> ReadLinkHead(s)])
    OBVIOUS
  <2>1. [Writes]_header
    BY WriteIsWrite
  <2>2. CASE Next
    <3>1. PICK s \in Slots, n \in Pointers : WritePtr(s, n)
      BY <2>2 DEF Next
    <3>2. Table!Write(s, n)
      BY <3>1, WriteIsWrite
    <3> QED
      BY <2>1, <3>2 DEF Table!Next
  <2>3. CASE UNCHANGED header
    BY <2>1, <2>3 DEF ReadLinkHead, Atol, Window, Counts
  <2> QED
    BY <2>2, <2>3
<1> QED
  BY <1>1, <1>2, <1>3, PTL DEF Spec, ImplementsTable, Table!Spec

=============================================================================
