------------------------------ MODULE StringEx ------------------------------
(***************************************************************************)
(* The bounded copies of string_ex.c on buffers.  A buffer is a function   *)
(* from the places 0..n-1 to characters, a text is what stands before its  *)
(* first NUL.  Both functions take the size of the destination; as it is   *)
(* unsigned, 1 less than 0 is the largest size there is.                   *)
(***************************************************************************)
EXTENDS Integers, FiniteSetsExt

NUL == "nul"

\* NULL as an argument, and a buffer of n zero bytes.
NoBuffer == [i \in {} |-> NUL]
Zeroed(n) == [i \in 0..(n - 1) |-> NUL]

\* strlen.  Of a buffer without NUL it is what the buffer holds and more.
StrLen(b) == IF \E i \in DOMAIN b : b[i] = NUL
             THEN Min({i \in DOMAIN b : b[i] = NUL})
             ELSE Cardinality(DOMAIN b)

\* The text in a buffer, without its NUL.
TextOf(b) == [i \in 0..(StrLen(b) - 1) |-> b[i]]

\* ulLen - 1 as a size_t: sizes wrap around far above every buffer.
OneLess(len, size) == IF len = 0 THEN size ELSE len - 1

\* memcpy of n characters of src to the place off, and a NUL behind them.
Put(dest, off, src, n) ==
  [i \in DOMAIN dest |-> IF i >= off /\ i < off + n THEN src[i - off]
                         ELSE IF i = off + n THEN NUL ELSE dest[i]]

\* Faulty variant: the place of the NUL is not kept free.
StrlcpyFull(dest, src, len) ==
  IF NoBuffer \in {dest, src} THEN dest
  ELSE Put(dest, 0, src, Min({StrLen(src), len}))

Strlcpy(dest, src, len) ==
  IF NoBuffer \in {dest, src} THEN dest
  ELSE Put(dest, 0, src, Min({StrLen(src), OneLess(len, StrLen(src))}))

\* Faulty variant: it starts again at the front of the buffer.
StrlcatFront(dest, src, len) == Strlcpy(dest, src, len)

\* The destination is cut to len first, so that it holds a text.
Strlcat(dest, src, len) ==
  IF NoBuffer \in {dest, src} THEN dest
  ELSE LET cut == [dest EXCEPT ![len - 1] = NUL]
           start == StrLen(cut)
       IN  Put(cut, start, src, Min({StrLen(src), OneLess(len - start, StrLen(src))}))

=============================================================================
