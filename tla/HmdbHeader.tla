----------------------------- MODULE HmdbHeader -----------------------------
(***************************************************************************)
(* The characters of the header of an hmdb index file: what HMDB_Open      *)
(* formats, Hmdb_WritePtr overwrites and Hmdb_ReadLinkHead parses.  This   *)
(* is the part that Hmdb abstracts, under the assumption HashApart.        *)
(*                                                                         *)
(* A pointer is PtrSize characters, right justified.  Hmdb_FindAndLock     *)
(* takes HASH_OFF + hash for the place of a chain's head.                  *)
(***************************************************************************)
EXTENDS Integers, FiniteSets

CONSTANTS
  PtrSize,       \* PTR_SIZE
  HashSize,      \* HASH_SIZE
  Hashes,        \* the hash values of the keys in use
  Pointers       \* the file offsets stored

\* The powers of ten.
Ten[k \in 0..PtrSize] == IF k = 0 THEN 1 ELSE 10 * Ten[k - 1]

\* PTR_MAX.  A larger offset is reported, and written without its last digits;
\* files that long are left out.
PtrMax == Ten[PtrSize] - 1

ASSUME HeaderParameters ==
  /\ PtrSize \in Nat \ {0}
  /\ HashSize \in Nat \ {0}
  /\ Hashes \subseteq 0..(HashSize - 1)
  /\ Pointers \subseteq 0..PtrMax

VARIABLE header

Digit == 0..9
Space == 10
Newline == 11
Nul == 12

FreeOff == 0
HashOff == PtrSize

\* Where the head of a chain is read and written.
LinkHeadOff(hash) == hash + HashOff

Slots == {FreeOff} \cup {LinkHeadOff(hash) : hash \in Hashes}
Length == (HashSize + 1) * PtrSize + 1

\* Faulty variant: the leading digit of a power of ten is dropped.
FormatShort(n) ==
  [i \in 1..PtrSize |->
     IF n <= Ten[PtrSize - i] /\ i < PtrSize THEN Space
                                             ELSE (n \div Ten[PtrSize - i]) % 10]

\* "%*ld" with the width PtrSize.
Format(n) ==
  [i \in 1..PtrSize |->
     IF n < Ten[PtrSize - i] /\ i < PtrSize THEN Space
                                            ELSE (n \div Ten[PtrSize - i]) % 10]

Window(off) == [i \in 1..PtrSize |-> header[off + i - 1]]

\* atol: blanks are skipped, then digits are taken up to the first other
\* character.
Counts(w, i) ==
  /\ w[i] \in Digit
  /\ \A j \in 1..i : w[j] \notin Digit => \A l \in 1..j : w[l] = Space

Atol(w) ==
  LET value[i \in 0..PtrSize] ==
        IF i = 0 THEN 0
        ELSE IF Counts(w, i) THEN 10 * value[i - 1] + w[i] ELSE value[i - 1]
  IN  value[PtrSize]

ReadLinkHead(off) == Atol(Window(off))

\* HMDB_Open fills a new index file with null pointers and a newline.
Init == header = [o \in 0..(Length - 1) |->
                    IF o = Length - 1 THEN Newline ELSE Format(0)[(o % PtrSize) + 1]]

\* Faulty variant: the '\0' behind the text is written, too.
WritePtrAndNul(off, n) ==
  header' = [o \in DOMAIN header |->
               IF o \in off..(off + PtrSize - 1) THEN Format(n)[o - off + 1]
               ELSE IF o = off + PtrSize THEN Nul ELSE header[o]]

WritePtr(off, n) ==
  header' = [o \in DOMAIN header |->
               IF o \in off..(off + PtrSize - 1) THEN Format(n)[o - off + 1]
                                                 ELSE header[o]]

Next == \E off \in Slots, n \in Pointers : WritePtr(off, n)

Spec == Init /\ [][Next]_header

-----------------------------------------------------------------------------
Table == INSTANCE PtrTable WITH table <- [s \in Slots |-> ReadLinkHead(s)]

\* The header implements an array of pointers: the free list and the table of
\* hash slots (hmdb.c:518), where each pointer is read back as it was written
\* and is changed by nothing else.  A write to the header is the write to the
\* array that has its arguments, not just any.
ImplementsTable ==
  /\ Table!Spec
  /\ [][\A s \in Slots, n \in Pointers : WritePtr(s, n) => Table!Write(s, n)]_header

\* Writing one pointer leaves every other readable as it was (Hmdb_WritePtr
\* called for the free list or for a chain of another hash value).
SlotsIndependent ==
  [][\A s, t \in Slots : \A n \in Pointers :
        s # t /\ WritePtr(s, n) => ReadLinkHead(t)' = ReadLinkHead(t)]_header

=============================================================================
