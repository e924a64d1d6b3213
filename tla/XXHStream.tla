------------------------------ MODULE XXHStream ------------------------------
(***************************************************************************)
(* src-std/xxhash.c: the streaming functions, on states any program may    *)
(* hold several of.  memsize is what counts: the buffer keeps its old      *)
(* bytes when it is emptied, and what an allocated state holds before its  *)
(* reset is never looked at.                                               *)
(*                                                                         *)
(* A state gets the bytes of one input, the byte at i being i.  An update  *)
(* with a null pointer answers XXH_ERROR and changes nothing, a failed     *)
(* allocation likewise.                                                    *)
(***************************************************************************)
EXTENDS XXHash

CONSTANTS
  Handle,
  Seed,
  Segment,  \* the lengths an update is given
  MaxInput  \* bound on the length of an input

ASSUME SegmentsAreLengths == Segment \subseteq Nat

VARIABLES
  target,  \* the function and the processor, one for the program
  alloc,   \* Handle -> "none", "raw" (allocated) or "live" (reset)
  st,      \* Handle -> XXH32_state_t or XXH64_state_t
  given,   \* Handle -> [seed, len]: the input since the last reset
  out      \* Handle -> the last hash, none after a change

vars == <<target, alloc, st, given, out>>

Zero == -1  \* a byte of the buffer that memset set and no input
Input == [i \in Nat |-> i]
Stripe == StripeLen(target)
Live(h) == alloc[h] = "live"

\* large_len is of XXH32 only.
ResetState(seed) ==
  [total |-> 0, large |-> FALSE, v |-> Seeded(seed),
   mem |-> [i \in 0 .. Stripe - 1 |-> Zero], memsize |-> 0]

Init ==
  /\ target \in Target
  /\ alloc = [h \in Handle |-> "none"]
  /\ given \in [Handle -> [seed : Seed, len : {0}]]
  /\ st = [h \in Handle |-> ResetState(given[h].seed)]
  /\ out = [h \in Handle |-> {}]

CreateState(h) ==
  /\ alloc[h] = "none"
  /\ alloc' = [alloc EXCEPT ![h] = "raw"]
  /\ out' = [out EXCEPT ![h] = {}]
  /\ UNCHANGED <<target, st, given>>

FreeState(h) ==
  /\ alloc[h] # "none"
  /\ alloc' = [alloc EXCEPT ![h] = "none"]
  /\ out' = [out EXCEPT ![h] = {}]
  /\ UNCHANGED <<target, st, given>>

\* The state of h becomes s, which holds input g.
Becomes(h, s, g) ==
  /\ st' = [st EXCEPT ![h] = s]
  /\ given' = [given EXCEPT ![h] = g]
  /\ alloc' = [alloc EXCEPT ![h] = "live"]
  /\ out' = [out EXCEPT ![h] = {}]
  /\ UNCHANGED target

\* Mutant: the buffered length is kept.
ResetKeepsMem(h, seed) ==
  /\ alloc[h] # "none"
  /\ Becomes(h, [ResetState(seed) EXCEPT !.memsize = st[h].memsize], [seed |-> seed, len |-> 0])

Reset(h, seed) ==
  /\ alloc[h] # "none"
  /\ Becomes(h, ResetState(seed), [seed |-> seed, len |-> 0])

CopyState(dst, src) ==
  /\ dst # src /\ alloc[dst] # "none" /\ Live(src)
  /\ Becomes(dst, st[src], given[src])

-----------------------------------------------------------------------------
(* XXH32_update_endian, XXH64_update_endian *)

\* Mutant: the flag is not kept.
CountedLast(s, len) ==
  LET total == (s.total + len) % Mod32
  IN  [s EXCEPT !.total = total, !.large = len >= 16 \/ total >= 16]

\* total_len_32 wraps, so that large_len records that there was a stripe.
Counted32(s, len) ==
  LET total == (s.total + len) % Mod32
  IN  [s EXCEPT !.total = total, !.large = s.large \/ len >= 16 \/ total >= 16]

\* total_len has 64 bits: no input is that long.
Counted64(s, len) == [s EXCEPT !.total = s.total + len]

Counted(s, len) == IF target.bits = 32 THEN Counted32(s, len) ELSE Counted64(s, len)

\* n bytes of the input, at p, are written to the buffer at ofs.
Memcpy(mem, ofs, p, n) ==
  [i \in DOMAIN mem |-> IF ofs <= i /\ i < ofs + n THEN p + (i - ofs) ELSE mem[i]]

\* Mutant: a full buffer is not emptied.
SmallAtMost(s, len) == s.memsize + len <= Stripe

\* "fill in tmp buffer"
Small(s, len) == s.memsize + len < Stripe

Buffer(s, p, len) ==
  [s EXCEPT !.mem = Memcpy(s.mem, s.memsize, p, len), !.memsize = s.memsize + len]

\* Mutant: the bytes that complete the buffer are read again as input.
AbsorbTwice(s, p, len) ==
  LET fill == IF s.memsize # 0 THEN Stripe - s.memsize ELSE 0
      mem  == Memcpy(s.mem, s.memsize, p, fill)
      n    == len \div Stripe
      rest == len % Stripe
  IN  [s EXCEPT !.v = Rounds(target, Rounds(target, s.v, mem, 0, IF fill = 0 THEN 0 ELSE 1), Input, p, n),
                !.mem = Memcpy(mem, 0, p + n * Stripe, rest),
                !.memsize = rest]

\* "some data left from previous update": it is completed and is the first
\* stripe.  The n whole stripes of the segment follow, and the rest is buffered.
Absorb(s, p, len) ==
  LET fill == IF s.memsize # 0 THEN Stripe - s.memsize ELSE 0
      mem  == Memcpy(s.mem, s.memsize, p, fill)
      n    == (len - fill) \div Stripe
      rest == (len - fill) % Stripe
  IN  [s EXCEPT !.v = Rounds(target, Rounds(target, s.v, mem, 0, IF fill = 0 THEN 0 ELSE 1),
                             Input, p + fill, n),
                !.mem = Memcpy(mem, 0, p + fill + n * Stripe, rest),
                !.memsize = rest]

Longer(h, len) == [given[h] EXCEPT !.len = @ + len]

UpdateSmall(h, len) ==
  /\ Live(h) /\ given[h].len + len <= MaxInput
  /\ Small(st[h], len)
  /\ Becomes(h, Buffer(Counted(st[h], len), given[h].len, len), Longer(h, len))

UpdateStripes(h, len) ==
  /\ Live(h) /\ given[h].len + len <= MaxInput
  /\ ~ Small(st[h], len)
  /\ Becomes(h, Absorb(Counted(st[h], len), given[h].len, len), Longer(h, len))

-----------------------------------------------------------------------------
(* XXH32_digest_endian, XXH64_digest_endian *)

Digest32(s) ==
  [acc  |-> IF s.large THEN Merged(s.v) ELSE FromSeed(s.v[3]),
   len  |-> s.total,
   rest |-> Rest32(target, s.mem, 0, s.memsize)]

\* Mutant: an input of one stripe is taken for a short one.
Digest64Short(s) ==
  [acc  |-> IF s.total > 32 THEN Merged(s.v) ELSE FromSeed(s.v[3]),
   len  |-> s.total,
   rest |-> Rest64(target, s.mem, 0, s.memsize)]

Digest64(s) ==
  [acc  |-> IF s.total >= 32 THEN Merged(s.v) ELSE FromSeed(s.v[3]),
   len  |-> s.total,
   rest |-> Rest64(target, s.mem, 0, s.memsize)]

DigestOf(s) == IF target.bits = 32 THEN Digest32(s) ELSE Digest64(s)

\* The bytes of a hash, least significant first.
Value(digest) == [i \in 0 .. WordLen(target) - 1 |-> [of |-> digest, byte |-> i]]

\* A digest, its canonical form, and the hash read back from that: the state is
\* const, more input may follow.
Digest(h) ==
  LET canonical == CanonicalFromHash(target, Value(DigestOf(st[h])), WordLen(target))
  IN  /\ Live(h)
      /\ out' = [out EXCEPT ![h] =
                   {[canonical |-> canonical,
                     hash      |-> HashFromCanonical(target, canonical, WordLen(target))]}]
      /\ UNCHANGED <<target, alloc, st, given>>

-----------------------------------------------------------------------------
Next ==
  \E h \in Handle :
    \/ CreateState(h) \/ FreeState(h) \/ Digest(h)
    \/ \E seed \in Seed : Reset(h, seed)
    \/ \E s \in Handle : CopyState(h, s)
    \/ \E len \in Segment : UpdateSmall(h, len) \/ UpdateStripes(h, len)

Spec == Init /\ [][Next]_vars

-----------------------------------------------------------------------------
(* Properties *)

\* However the input was cut into segments, the lanes hold its whole stripes,
\* each once and in order, and the buffer what follows: the bytes between two
\* updates are neither lost nor read twice, whatever old bytes it holds.
LanesInOrder ==
  \A h \in Handle : Live(h) =>
    LET len == given[h].len IN
      /\ st[h].v = LanesOf([target EXCEPT !.cpu = "little"], Input, len, given[h].seed)
      /\ st[h].memsize = len % Stripe
      /\ \A i \in 0 .. st[h].memsize - 1 : st[h].mem[i] = Cut(target, len) + i

\* The digest takes the lanes if and only if there was a stripe, although
\* total_len_32 may have wrapped to a small value since.
LongIfAStripe ==
  \A h \in Handle : Live(h) =>
    /\ target.bits = 32 => /\ st[h].total = given[h].len % Mod32
                           /\ st[h].large <=> given[h].len >= Stripe
    /\ target.bits = 64 => st[h].total = given[h].len

\* XXH32 and XXH64 read each byte of an input once, whatever its length.
XXHAbsorbsInput ==
  \A h \in Handle :
    LET x == OneShot(target, Input, given[h].len, given[h].seed)
    IN  EveryByteOnce([l \in DOMAIN x.acc.lanes |-> x.acc.lanes[l].words] \o <<x.rest>>, given[h].len)

Promise == INSTANCE HashSpec

\* "These functions generate the xxHash of an input provided in multiple
\* segments" (xxhash.h:181), "a hash value can be produced anytime" (193), and
\* its canonical form is "comparable on different systems" (211): a digest is
\* the hash of the whole input at once, the same for both byte orders.
DigestIsOneShot == Promise!Spec
=============================================================================
