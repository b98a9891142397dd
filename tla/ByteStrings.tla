------------------------------ MODULE ByteStrings ------------------------------
(***************************************************************************)
(* Strings of bytes as the algorithms cut, pad, number and chain them.     *)
(* Every string is written out, so that TLC computes its bytes once.       *)
(***************************************************************************)
EXTENDS Integers, Sequences, SequencesExt, Bitwise

\* A function written out.
Written(f) == f @@ <<>>

Bytes(n, f(_)) == <<>> \o [i \in 1..n |-> f(i - 1)]
Zeros(n) == Bytes(n, LAMBDA i : 0)

\* As many bytes as both have.
XorBytes(a, b) == Bytes(Min({Len(a), Len(b)}), LAMBDA i : a[i + 1] ^^ b[i + 1])

\* A number in n bytes, big-endian.
BigEndian(x, n) == Bytes(n, LAMBDA i : IF n - 1 - i > 3 THEN 0 ELSE (x \div 256^(n - 1 - i)) % 256)

Blocks(s, size) == (Len(s) + size - 1) \div size
BlockOf(s, i, size) == SubSeq(s, size * (i - 1) + 1, Min({size * i, Len(s)}))
From(s, k) == SubSeq(s, k, Len(s))
Padded(s, size) == s \o Zeros(size - Len(s))

\* From the first on, each made by step of its number and the one before; sixteen by sixteen,
\* so that TLC's recursion stays shallow.
Chain(n, first, step(_, _)) ==
  LET forced(i, before) == CHOOSE next \in {step(i, prev) : prev \in {before}} : TRUE
      within(k, start) ==
        LET at[j \in 0..16] == IF j = 0 THEN start ELSE forced(16 * k + j, at[j - 1])
        IN at
      start[k \in 0..n \div 16] ==
        IF k = 0 THEN first ELSE CHOOSE s \in {within(k - 1, b)[16] : b \in {start[k - 1]}} : TRUE
  IN [i \in 0..n |-> within(i \div 16, start[i \div 16])[i % 16]]

Joined(n, f(_)) == FlattenSeq(Bytes(n, LAMBDA i : f(i + 1)))
================================================================================
