------------------------------- MODULE Murmur -------------------------------
(***************************************************************************)
(* src-std/MurmurHash3.c: the three functions, by the words their          *)
(* accumulators h1, h2, ... take.  They read words as the processor does   *)
(* (there is no byte swap), but assemble the tail least significant first. *)
(*                                                                         *)
(* The length is an int: `len` may be negative here, when a larger size    *)
(* was converted to it.                                                    *)
(***************************************************************************)
EXTENDS Memory

\* Division of int truncates towards zero, and & with a power of two less one
\* is the remainder that is not negative.
Quot(a, b) == IF a >= 0 THEN a \div b ELSE - ((- a) \div b)

\* The words the accumulators take of n blocks at 0.
Body(cpu, m, n, lanes, word) ==
  [l \in 1 .. lanes |->
     [k \in 1 .. n |-> Native(cpu, m, lanes * word * (k - 1) + word * (l - 1), word)]]

\* Mutant: the case of the first byte of a word is left out.
TailLate(m, p, n, lanes, word) ==
  [l \in 1 .. lanes |->
     LET len == n - word * (l - 1) IN
       IF len > 1
       THEN <<[i \in 0 .. (IF len < word THEN len ELSE word) - 1 |-> m[p + word * (l - 1) + i]]>>
       ELSE <<>>]

\* The switch: its cases fall through, so that an accumulator that has a byte of
\* the n bytes at p has all below.
Tail3(m, p, n, lanes, word) ==
  [l \in 1 .. lanes |->
     LET len == n - word * (l - 1) IN
       IF len > 0
       THEN <<[i \in 0 .. (IF len < word THEN len ELSE word) - 1 |-> m[p + word * (l - 1) + i]]>>
       ELSE <<>>]

\* Blocks, then the tail, which is after the last block.
Absorbed(cpu, m, len, lanes, word) ==
  LET n    == Quot(len, lanes * word)
      body == Body(cpu, m, n, lanes, word)
      tail == Tail3(m, n * lanes * word, len % (lanes * word), lanes, word)
  IN  [l \in 1 .. lanes |-> body[l] \o tail[l]]

MurmurHash3_x86_32(cpu, m, len, seed) ==
  [seed |-> seed, len |-> len, lanes |-> Absorbed(cpu, m, len, 1, 4)]

MurmurHash3_x86_128(cpu, m, len, seed) ==
  [seed |-> seed, len |-> len, lanes |-> Absorbed(cpu, m, len, 4, 4)]

MurmurHash3_x64_128(cpu, m, len, seed) ==
  [seed |-> seed, len |-> len, lanes |-> Absorbed(cpu, m, len, 2, 8)]
=============================================================================
