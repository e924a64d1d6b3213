------------------------------- MODULE XXHash -------------------------------
(***************************************************************************)
(* src-std/xxhash.c: what XXH32 and XXH64 make of an input given at once,  *)
(* and the parts they share with the streaming functions (XXHStream).      *)
(*                                                                         *)
(* Bytes are not looked at: a lane is its seed and the words it took.      *)
(* Multiplications, additions and rotations are functions of these: two    *)
(* results that are equal here are equal hashes, whatever the bytes are.   *)
(*                                                                         *)
(* A target t is [bits, cpu]: 32 for XXH32 or 64 for XXH64, and the byte   *)
(* order of the processor.  What is done for aligned input differs in      *)
(* speed only.                                                             *)
(***************************************************************************)
EXTENDS Memory

CONSTANT Mod32  \* 2^32, what the length wraps at in XXH32

\* A stripe of 16 bytes is what the code tells long inputs by.
ASSUME Mod32IsLarge == Mod32 \in Nat /\ Mod32 >= 32

Target == [bits : {32, 64}, cpu : {"little", "big"}]

\* sizeof of the word a lane takes, of the hash, and of a stripe of four words.
WordLen(t) == IF t.bits = 32 THEN 4 ELSE 8
StripeLen(t) == IF t.bits = 32 THEN 16 ELSE 32

Lane == 1 .. 4

-----------------------------------------------------------------------------
(* Memory *)

Swap(w, n) == [i \in 0 .. n - 1 |-> w[n - 1 - i]]

\* Mutant: big-endian processors do not swap.
ReadNative(t, m, p, n) == Native(t.cpu, m, p, n)

\* XXH_readLE32_align, XXH_readLE64_align: the least significant byte is first.
ReadLE(t, m, p, n) ==
  IF t.cpu = "little" THEN Native(t.cpu, m, p, n) ELSE Swap(Native(t.cpu, m, p, n), n)

\* Mutant: the condition of the swap is the other one.
CanonicalSwapped(t, hash, n) ==
  LET value == IF t.cpu = "big" THEN Swap(hash, n) ELSE hash
  IN  [i \in 0 .. n - 1 |-> IF t.cpu = "little" THEN value[i] ELSE value[n - 1 - i]]

\* XXH32_canonicalFromHash, XXH64_canonicalFromHash: the bytes of a hash of n
\* bytes, as memcpy leaves them.
CanonicalFromHash(t, hash, n) ==
  LET value == IF t.cpu = "little" THEN Swap(hash, n) ELSE hash
  IN  [i \in 0 .. n - 1 |-> IF t.cpu = "little" THEN value[i] ELSE value[n - 1 - i]]

\* XXH_readBE32, XXH_readBE64
HashFromCanonical(t, src, n) ==
  IF t.cpu = "little" THEN Swap(Native(t.cpu, src, 0, n), n) ELSE Native(t.cpu, src, 0, n)

-----------------------------------------------------------------------------
(* Accumulators *)

\* The lanes before any word: v1 to v4 of the seed.
Seeded(seed) == [l \in Lane |-> [seed |-> seed, words |-> <<>>]]

\* The word lane l takes of the stripe at p.
LaneWord(t, m, p, l) == ReadLE(t, m, p + (l - 1) * WordLen(t), WordLen(t))

\* The words lane l takes of the n stripes at p.
Words(t, m, p, n, l) == [k \in 1 .. n |-> LaneWord(t, m, p + StripeLen(t) * (k - 1), l)]

\* The lanes after the n stripes at p, one round of each lane for a stripe.
Rounds(t, v, m, p, n) ==
  [l \in Lane |-> [seed |-> v[l].seed, words |-> v[l].words \o Words(t, m, p, n, l)]]

\* What the rest is added to: the four lanes, or v3, which is the seed as long
\* as it took no word.
Merged(v) == [long |-> TRUE, lanes |-> v]
FromSeed(v3) == [long |-> FALSE, lanes |-> <<v3>>]

\* The last n bytes, at p: words of 4 bytes, then bytes.
Rest32(t, m, p, n) ==
  [k \in 1 .. n \div 4 |-> ReadLE(t, m, p + 4 * (k - 1), 4)] \o
  [k \in 1 .. n % 4 |-> Byte(m, p + n - (n % 4) + k - 1)]

\* Mutant: the word of 4 bytes is left out.
Rest64NoHalf(t, m, p, n) ==
  [k \in 1 .. n \div 8 |-> ReadLE(t, m, p + 8 * (k - 1), 8)] \o
  [k \in 1 .. n % 4 |-> Byte(m, p + n - (n % 4) + k - 1)]

\* Words of 8 bytes, then one of 4 bytes, then bytes.
Rest64(t, m, p, n) ==
  [k \in 1 .. n \div 8 |-> ReadLE(t, m, p + 8 * (k - 1), 8)] \o
  [k \in 1 .. (n % 8) \div 4 |-> ReadLE(t, m, p + n - (n % 8), 4)] \o
  [k \in 1 .. n % 4 |-> Byte(m, p + n - (n % 4) + k - 1)]

-----------------------------------------------------------------------------
(* The functions *)

\* The lanes after the first len bytes: a stripe more as long as one is left.
LanesOf(t, m, len, seed) == Rounds(t, Seeded(seed), m, 0, len \div StripeLen(t))

\* What is left after the stripes, less than a stripe, is at Cut.
Cut(t, len) == len - (len % StripeLen(t))

Start(t, m, len, seed) ==
  IF len >= StripeLen(t) THEN Merged(LanesOf(t, m, len, seed))
  ELSE FromSeed([seed |-> seed, words |-> <<>>])

XXH32(t, m, len, seed) ==
  [acc  |-> Start(t, m, len, seed),
   len  |-> len % Mod32,
   rest |-> Rest32(t, m, Cut(t, len), len - Cut(t, len))]

XXH64(t, m, len, seed) ==
  [acc  |-> Start(t, m, len, seed),
   len  |-> len,
   rest |-> Rest64(t, m, Cut(t, len), len - Cut(t, len))]

OneShot(t, m, len, seed) ==
  IF t.bits = 32 THEN XXH32(t, m, len, seed) ELSE XXH64(t, m, len, seed)
=============================================================================
