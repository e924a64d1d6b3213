------------------------------- MODULE Memory -------------------------------
(***************************************************************************)
(* How the hash functions of src-std read memory.  A memory m is a         *)
(* function from addresses to bytes, a word the function from the          *)
(* significance of a byte to that byte.                                    *)
(***************************************************************************)
EXTENDS Integers, Sequences, FiniteSets

\* The value of the n bytes of m at p, as a processor with byte order cpu reads
\* it: XXH_read32, XXH_read64, and getblock32, getblock64 of MurmurHash3.
Native(cpu, m, p, n) ==
  [i \in 0 .. n - 1 |-> IF cpu = "little" THEN m[p + i] ELSE m[p + (n - 1 - i)]]

Byte(m, p) == [i \in {0} |-> m[p]]

\* A hash function makes lanes, sequences of words, of its input.  The places
\* of bytes in them:
Places(lanes) ==
  UNION {UNION {{<<l, k, i>> : i \in DOMAIN lanes[l][k]} : k \in DOMAIN lanes[l]} :
           l \in DOMAIN lanes}

\* Each byte of an input is at one place.  The input is 0, 1, ... len - 1.
EveryByteOnce(lanes, len) ==
  /\ Cardinality(Places(lanes)) = len
  /\ {lanes[p[1]][p[2]][p[3]] : p \in Places(lanes)} = 0 .. len - 1
=============================================================================
