----------------------------- MODULE HashProofs -----------------------------
(***************************************************************************)
(* Proofs about XXHStream, for every set of states, seeds, segments and    *)
(* every bound on the length: the lanes and the buffer are what the input  *)
(* makes them, and a digest is the hash of the input at once.  Then about  *)
(* all hash functions: they read each byte of an input once.               *)
(*                                                                         *)
(* At the end, proofs about HashFile, for every size of files and of int,  *)
(* and any number of calls and writes: what is still held between calls is *)
(* what those that raised left, the hash of a file that is let alone is    *)
(* the one of its content, and the functions read the mapping only.        *)
(***************************************************************************)
EXTENDS MCHash, HashFile, SequenceTheorems, FiniteSetTheorems, TLAPS

\* The word of the n bytes of m from p.
WordAt(m, p, n) == [i \in 0 .. n - 1 |-> m[p + i]]

\* The k-th word lane l takes of the input.
InputWord(t, l, k) == WordAt(Input, StripeLen(t) * (k - 1) + (l - 1) * WordLen(t), WordLen(t))

\* The words of the first n stripes.
InputWords(t, l, n) == [k \in 1 .. n |-> InputWord(t, l, k)]

LittleEndian(t) == [t EXCEPT !.cpu = "little"]

-----------------------------------------------------------------------------
(* Reading memory *)

\* Whatever the processor, the least significant byte of what is read is first.
LEMMA ReadLEValue ==
  ASSUME NEW t \in Target, NEW m, NEW p \in Int, NEW n \in Nat
  PROVE  ReadLE(t, m, p, n) = WordAt(m, p, n)
<1>1. CASE t.cpu = "little"
  BY <1>1 DEF ReadLE, Native, WordAt
<1>2. CASE t.cpu = "big"
  <2>1. \A i \in 0 .. n - 1 : n - 1 - i \in 0 .. n - 1 /\ n - 1 - (n - 1 - i) = i
    OBVIOUS
  <2>. QED
    BY <1>2, <2>1 DEF ReadLE, Native, Swap, WordAt
<1>. QED
  BY <1>1, <1>2 DEF Target

\* The byte order is all that LittleEndian changes.
LEMMA LittleEndianTarget ==
  ASSUME NEW t \in Target
  PROVE  /\ LittleEndian(t) \in Target
         /\ StripeLen(LittleEndian(t)) = StripeLen(t)
         /\ WordLen(LittleEndian(t)) = WordLen(t)
         /\ LittleEndian(t).bits = t.bits
         /\ LittleEndian(t).cpu = "little"
BY DEF LittleEndian, Target, StripeLen, WordLen

\* The word a lane takes of a stripe of the input.
LEMMA LaneWordOfInput ==
  ASSUME NEW t \in Target, NEW l \in Lane, NEW k \in Nat \ {0}
  PROVE  LaneWord(t, Input, StripeLen(t) * (k - 1), l) = InputWord(t, l, k)
<1>1. StripeLen(t) * (k - 1) + (l - 1) * WordLen(t) \in Int /\ WordLen(t) \in Nat
  BY DEF Lane, Target, StripeLen, WordLen
<1>. QED
  BY <1>1, ReadLEValue DEF LaneWord, InputWord

\* The word a lane takes of a buffer that holds a stripe of the input.
LEMMA LaneWordOfBuffer ==
  ASSUME NEW t \in Target, NEW l \in Lane, NEW k \in Nat \ {0}, NEW mem,
         \A i \in 0 .. StripeLen(t) - 1 : mem[i] = StripeLen(t) * (k - 1) + i
  PROVE  LaneWord(t, mem, 0, l) = InputWord(t, l, k)
<1>1. 0 + (l - 1) * WordLen(t) \in Int /\ WordLen(t) \in Nat
  BY DEF Lane, Target, StripeLen, WordLen
<1>2. LaneWord(t, mem, 0, l) = WordAt(mem, 0 + (l - 1) * WordLen(t), WordLen(t))
  BY <1>1, ReadLEValue DEF LaneWord
<1>3. ASSUME NEW i \in 0 .. WordLen(t) - 1
      PROVE  mem[0 + (l - 1) * WordLen(t) + i]
               = Input[StripeLen(t) * (k - 1) + (l - 1) * WordLen(t) + i]
  <2>1. CASE t.bits = 32
    BY <2>1 DEF Lane, StripeLen, WordLen, Input
  <2>2. CASE t.bits = 64
    BY <2>2 DEF Lane, StripeLen, WordLen, Input
  <2>. QED
    BY <2>1, <2>2 DEF Target
<1>. QED
  BY <1>2, <1>3 DEF WordAt, InputWord

-----------------------------------------------------------------------------
(* Lanes *)

\* The lanes after n stripes of the input.
LanesAfter(t, n, seed) ==
  [l \in Lane |-> [seed |-> seed, words |-> InputWords(t, l, n)]]

\* Concatenation of functions on intervals from 1.
LEMMA ConcatIs ==
  ASSUME NEW W, NEW m \in Nat, NEW n \in Nat, NEW a \in [1 .. m -> W], NEW b \in [1 .. n -> W]
  PROVE  /\ a \o b \in [1 .. m + n -> W]
         /\ \A k \in 1 .. m + n : (a \o b)[k] = IF k <= m THEN a[k] ELSE b[k - m]
<1>1. a \in Seq(W) /\ Len(a) = m /\ b \in Seq(W) /\ Len(b) = n
  OBVIOUS
<1>2. /\ a \o b \in Seq(W)
      /\ Len(a \o b) = m + n
      /\ \A k \in 1 .. m + n : (a \o b)[k] = IF k <= m THEN a[k] ELSE b[k - m]
  BY <1>1, ConcatProperties
<1>. QED
  BY <1>2, LenProperties

\* Words appended to the words of the stripes before them.
LEMMA InputWordsAppend ==
  ASSUME NEW t \in Target, NEW l \in Lane, NEW m \in Nat, NEW n \in Nat
  PROVE  InputWords(t, l, m) \o [k \in 1 .. n |-> InputWord(t, l, m + k)]
           = InputWords(t, l, m + n)
<1>1. PICK W : \A k \in Nat : InputWord(t, l, k) \in W
  <2>1. \A k \in Nat : InputWord(t, l, k) \in {InputWord(t, l, i) : i \in Nat}
    OBVIOUS
  <2>. QED
    BY <2>1
<1>2. InputWords(t, l, m) \in [1 .. m -> W]
  BY <1>1 DEF InputWords
<1>3. [k \in 1 .. n |-> InputWord(t, l, m + k)] \in [1 .. n -> W]
  BY <1>1
<1>. DEFINE a == InputWords(t, l, m)
            b == [k \in 1 .. n |-> InputWord(t, l, m + k)]
<1>4. /\ a \o b \in [1 .. m + n -> W]
      /\ \A k \in 1 .. m + n : (a \o b)[k] = IF k <= m THEN a[k] ELSE b[k - m]
  <2>. HIDE DEF a, b
  <2>1. a \in [1 .. m -> W] /\ b \in [1 .. n -> W]
    BY <1>2, <1>3 DEF a, b
  <2>2. a \o b \in [1 .. m + n -> W]
    BY <2>1, ConcatIs
  <2>3. \A k \in 1 .. m + n : (a \o b)[k] = IF k <= m THEN a[k] ELSE b[k - m]
    BY <2>1, ConcatIs
  <2>. QED
    BY <2>2, <2>3
<1>5. \A k \in 1 .. m + n : IF k <= m THEN a[k] = InputWord(t, l, k)
                                      ELSE b[k - m] = InputWord(t, l, k)
  BY DEF InputWords
<1>6. \A k \in 1 .. m + n : (a \o b)[k] = InputWord(t, l, k)
  <2>. HIDE DEF a, b
  <2>. QED
    BY <1>4, <1>5
<1>. QED
  BY <1>4, <1>6 DEF InputWords

\* No stripe, no word.
LEMMA SeededLanes ==
  ASSUME NEW t \in Target, NEW seed
  PROVE  Seeded(seed) = LanesAfter(t, 0, seed)
<1>1. \A l \in Lane : InputWords(t, l, 0) = <<>>
  BY DEF InputWords
<1>. QED
  BY <1>1 DEF Seeded, LanesAfter

\* Rounds append the words of the stripes.
LEMMA RoundsAre ==
  ASSUME NEW t, NEW m, NEW n, NEW seed, NEW mem, NEW p, NEW after,
         \A l \in Lane :
           InputWords(t, l, m) \o Words(t, mem, p, n, l) = InputWords(t, l, after)
  PROVE  Rounds(t, LanesAfter(t, m, seed), mem, p, n) = LanesAfter(t, after, seed)
<1>1. \A l \in Lane : /\ LanesAfter(t, m, seed)[l].seed = seed
                       /\ LanesAfter(t, m, seed)[l].words = InputWords(t, l, m)
  BY DEF LanesAfter
<1>2. \A l \in Lane :
        [seed  |-> LanesAfter(t, m, seed)[l].seed,
         words |-> LanesAfter(t, m, seed)[l].words \o Words(t, mem, p, n, l)]
        = [seed |-> seed, words |-> InputWords(t, l, after)]
  BY <1>1, Zenon
<1>3. Rounds(t, LanesAfter(t, m, seed), mem, p, n)
        = [l \in Lane |-> [seed |-> seed, words |-> InputWords(t, l, after)]]
  BY <1>2, Zenon DEF Rounds
<1>. QED
  BY <1>3, Zenon DEF LanesAfter

\* The rounds over stripes of the input.
LEMMA RoundsOfInput ==
  ASSUME NEW t \in Target, NEW m \in Nat, NEW n \in Nat, NEW seed
  PROVE  Rounds(t, LanesAfter(t, m, seed), Input, StripeLen(t) * m, n) = LanesAfter(t, m + n, seed)
<1>1. ASSUME NEW l \in Lane, NEW k \in 1 .. n
      PROVE  LaneWord(t, Input, StripeLen(t) * m + StripeLen(t) * (k - 1), l) = InputWord(t, l, m + k)
  <2>1. StripeLen(t) * m + StripeLen(t) * (k - 1) = StripeLen(t) * ((m + k) - 1)
    BY DEF StripeLen, Target
  <2>2. m + k \in Nat \ {0}
    OBVIOUS
  <2>. QED
    BY <2>1, <2>2, LaneWordOfInput
<1>2. ASSUME NEW l \in Lane
      PROVE  InputWords(t, l, m) \o Words(t, Input, StripeLen(t) * m, n, l) = InputWords(t, l, m + n)
  <2>1. Words(t, Input, StripeLen(t) * m, n, l) = [k \in 1 .. n |-> InputWord(t, l, m + k)]
    BY <1>1 DEF Words
  <2>. QED
    BY <2>1, InputWordsAppend
<1>. QED
  BY <1>2, RoundsAre

\* The round over a buffer that holds the next stripe.
LEMMA RoundOfBuffer ==
  ASSUME NEW t \in Target, NEW m \in Nat, NEW seed, NEW mem,
         \A i \in 0 .. StripeLen(t) - 1 : mem[i] = StripeLen(t) * m + i
  PROVE  Rounds(t, LanesAfter(t, m, seed), mem, 0, 1) = LanesAfter(t, m + 1, seed)
<1>1. ASSUME NEW l \in Lane, NEW k \in 1 .. 1
      PROVE  LaneWord(t, mem, 0 + StripeLen(t) * (k - 1), l) = InputWord(t, l, m + k)
  <2>1. k = 1 /\ 0 + StripeLen(t) * (k - 1) = 0
    BY DEF StripeLen, Target
  <2>2. m + 1 \in Nat \ {0} /\ (m + 1) - 1 = m
    OBVIOUS
  <2>. QED
    BY <2>1, <2>2, LaneWordOfBuffer
<1>2. ASSUME NEW l \in Lane
      PROVE  InputWords(t, l, m) \o Words(t, mem, 0, 1, l) = InputWords(t, l, m + 1)
  <2>1. Words(t, mem, 0, 1, l) = [k \in 1 .. 1 |-> InputWord(t, l, m + k)]
    BY <1>1 DEF Words
  <2>2. InputWords(t, l, m) \o [k \in 1 .. 1 |-> InputWord(t, l, m + k)] = InputWords(t, l, m + 1)
    BY InputWordsAppend
  <2>. QED
    BY <2>1, <2>2
<1>. QED
  BY <1>2, RoundsAre

\* No round changes nothing.
LEMMA NoRounds ==
  ASSUME NEW t \in Target, NEW m \in Nat, NEW seed, NEW mem
  PROVE  Rounds(t, LanesAfter(t, m, seed), mem, 0, 0) = LanesAfter(t, m, seed)
<1>1. ASSUME NEW l \in Lane
      PROVE  InputWords(t, l, m) \o Words(t, mem, 0, 0, l) = InputWords(t, l, m)
  <2>1. Words(t, mem, 0, 0, l) = [k \in 1 .. 0 |-> InputWord(t, l, m + k)]
    BY DEF Words
  <2>2. InputWords(t, l, m) \o [k \in 1 .. 0 |-> InputWord(t, l, m + k)] = InputWords(t, l, m + 0)
    BY InputWordsAppend
  <2>3. m + 0 = m
    OBVIOUS
  <2>. QED
    BY <2>1, <2>2, <2>3
<1>. QED
  BY <1>1, RoundsAre

\* The lanes of an input given at once, for either byte order.
LEMMA LanesOfInput ==
  ASSUME NEW t \in Target, NEW len \in Nat, NEW seed
  PROVE  LanesOf(LittleEndian(t), Input, len, seed) = LanesAfter(t, len \div StripeLen(t), seed)
<1>. DEFINE u == LittleEndian(t)
            n == len \div StripeLen(t)
<1>1. u \in Target /\ StripeLen(u) = StripeLen(t) /\ WordLen(u) = WordLen(t)
  BY LittleEndianTarget
<1>2. n \in Nat /\ StripeLen(u) * 0 = 0
  BY <1>1 DEF StripeLen, Target
<1>3. Rounds(u, LanesAfter(u, 0, seed), Input, StripeLen(u) * 0, n) = LanesAfter(u, 0 + n, seed)
  <2>. HIDE DEF u, n
  <2>. QED
    BY <1>1, <1>2, RoundsOfInput
<1>4. LanesOf(u, Input, len, seed) = LanesAfter(u, n, seed)
  BY <1>1, <1>2, <1>3, SeededLanes DEF LanesOf
<1>5. LanesAfter(u, n, seed) = LanesAfter(t, n, seed)
  BY <1>1 DEF LanesAfter, InputWords, InputWord
<1>. QED
  BY <1>4, <1>5

-----------------------------------------------------------------------------
(* States *)

StateOf(total, large, v, mem, memsize) ==
  [total |-> total, large |-> large, v |-> v, mem |-> mem, memsize |-> memsize]

\* The lanes and the buffer after len bytes.
Holds(v, mem, memsize, seed, len) ==
  /\ v = LanesAfter(target, len \div Stripe, seed)
  /\ mem = [i \in 0 .. Stripe - 1 |-> mem[i]]
  /\ memsize = len % Stripe
  /\ \A i \in 0 .. memsize - 1 : mem[i] = Cut(target, len) + i

\* A state that got len bytes.
Fed(s, seed, len) ==
  /\ s = StateOf(s.total, s.large, s.v, s.mem, s.memsize)
  /\ Holds(s.v, s.mem, s.memsize, seed, len)

\* What counts its bytes.
Counts(s, len) ==
  /\ s.total \in Nat /\ s.large \in BOOLEAN
  /\ target.bits = 32 => s.total = len % Mod32 /\ (s.large <=> len >= Stripe)
  /\ target.bits = 64 => s.total = len

\* Quotients and remainders.
LEMMA Division ==
  ASSUME NEW t \in Target, NEW len \in Nat
  PROVE  /\ len \div StripeLen(t) \in Nat /\ len % StripeLen(t) \in 0 .. StripeLen(t) - 1
         /\ Cut(t, len) = StripeLen(t) * (len \div StripeLen(t))
         /\ Cut(t, len) + (len % StripeLen(t)) = len
         /\ Cut(t, len) \in Nat
         /\ StripeLen(t) \in Nat
         /\ len >= StripeLen(t) <=> len \div StripeLen(t) > 0
<1>1. CASE t.bits = 32
  BY <1>1 DEF StripeLen, Cut
<1>2. CASE t.bits = 64
  BY <1>2 DEF StripeLen, Cut
<1>. QED
  BY <1>1, <1>2 DEF Target

\* A length that has the same whole stripes, or some more.
LEMMA DivisionStep ==
  ASSUME NEW t \in Target, NEW q \in Nat, NEW r \in 0 .. StripeLen(t) - 1
  PROVE  /\ (StripeLen(t) * q + r) \div StripeLen(t) = q
         /\ (StripeLen(t) * q + r) % StripeLen(t) = r
         /\ Cut(t, StripeLen(t) * q + r) = StripeLen(t) * q
<1>1. CASE t.bits = 32
  BY <1>1 DEF StripeLen, Cut
<1>2. CASE t.bits = 64
  BY <1>2 DEF StripeLen, Cut
<1>. QED
  BY <1>1, <1>2 DEF Target

\* The fields of a state.
LEMMA StateParts ==
  ASSUME NEW total, NEW large, NEW v, NEW mem, NEW memsize
  PROVE  /\ StateOf(total, large, v, mem, memsize).total = total
         /\ StateOf(total, large, v, mem, memsize).large = large
         /\ StateOf(total, large, v, mem, memsize).v = v
         /\ StateOf(total, large, v, mem, memsize).mem = mem
         /\ StateOf(total, large, v, mem, memsize).memsize = memsize
BY DEF StateOf

\* What a state counts is not what it holds.
LEMMA FedState ==
  ASSUME NEW total, NEW large, NEW v, NEW mem, NEW memsize, NEW seed, NEW len,
         Holds(v, mem, memsize, seed, len)
  PROVE  Fed(StateOf(total, large, v, mem, memsize), seed, len)
BY StateParts DEF Fed

\* A state that was reset holds nothing.
LEMMA FedReset ==
  ASSUME target \in Target, NEW seed
  PROVE  Fed(ResetState(seed), seed, 0) /\ Counts(ResetState(seed), 0)
<1>1. 0 \div Stripe = 0 /\ 0 % Stripe = 0 /\ 0 % Mod32 = 0 /\ ~ (0 >= Stripe)
  BY Mod32IsLarge DEF Stripe, StripeLen, Target
<1>2. Seeded(seed) = LanesAfter(target, 0 \div Stripe, seed)
  BY <1>1, SeededLanes
<1>. DEFINE mem == [i \in 0 .. Stripe - 1 |-> Zero]
<1>3. Holds(Seeded(seed), mem, 0, seed, 0)
  BY <1>1, <1>2 DEF Holds
<1>4. ResetState(seed) = StateOf(0, FALSE, Seeded(seed), mem, 0)
  BY DEF ResetState, StateOf
<1>5. Counts(ResetState(seed), 0)
  <2>1. ResetState(seed).total = 0 /\ ResetState(seed).large = FALSE
    BY DEF ResetState
  <2>2. ResetState(seed).large <=> 0 >= Stripe
    BY <1>1, <2>1
  <2>3. ResetState(seed).total \in Nat
    BY <2>1
  <2>4. ResetState(seed).large \in BOOLEAN
    BY <2>1, Zenon
  <2>. QED
    BY <1>1, <2>1, <2>2, <2>3, <2>4 DEF Counts
<1>. HIDE DEF mem
<1>. QED
  BY <1>3, <1>4, <1>5, FedState

\* The counters after more bytes.
TotalAfter(total, more) == IF target.bits = 32 THEN (total + more) % Mod32 ELSE total + more
LargeAfter(total, large, more) ==
  IF target.bits = 32 THEN large \/ more >= 16 \/ (total + more) % Mod32 >= 16 ELSE large

\* Counting leaves the lanes and the buffer.
LEMMA CountedState ==
  ASSUME NEW total, NEW large, NEW v, NEW mem, NEW memsize, NEW more
  PROVE  Counted(StateOf(total, large, v, mem, memsize), more)
           = StateOf(TotalAfter(total, more), LargeAfter(total, large, more), v, mem, memsize)
<1>. DEFINE r == StateOf(total, large, v, mem, memsize)
<1>1. r.total = total /\ r.large = large
  BY StateParts
<1>2. \A x, y : [r EXCEPT !.total = x, !.large = y] = StateOf(x, y, v, mem, memsize)
  <2>. TAKE x, y
  <2>1. [r EXCEPT !.total = x, !.large = y] = [[r EXCEPT !.total = x] EXCEPT !.large = y]
    BY Zenon
  <2>2. [r EXCEPT !.total = x] = StateOf(x, large, v, mem, memsize)
    BY DEF StateOf
  <2>3. [StateOf(x, large, v, mem, memsize) EXCEPT !.large = y] = StateOf(x, y, v, mem, memsize)
    BY DEF StateOf
  <2>. HIDE DEF r
  <2>. QED
    BY <2>1, <2>2, <2>3, Zenon
<1>3. \A x : [r EXCEPT !.total = x] = StateOf(x, large, v, mem, memsize)
  BY DEF StateOf
<1>. HIDE DEF r
<1>4. CASE target.bits = 32
  <2>1. Counted(r, more) = [r EXCEPT !.total = (r.total + more) % Mod32,
                                     !.large = r.large \/ more >= 16 \/ (r.total + more) % Mod32 >= 16]
    BY <1>4 DEF Counted, Counted32
  <2>2. (r.total + more) % Mod32 = TotalAfter(total, more)
    BY <1>1, <1>4 DEF TotalAfter
  <2>3. (r.large \/ more >= 16 \/ (r.total + more) % Mod32 >= 16) = LargeAfter(total, large, more)
    BY <1>1, <1>4, Zenon DEF LargeAfter
  <2>. QED
    BY <1>2, <2>1, <2>2, <2>3, Zenon DEF r
<1>5. CASE target.bits # 32
  BY <1>1, <1>3, <1>5 DEF Counted, Counted64, TotalAfter, LargeAfter, r
<1>. QED
  BY <1>4, <1>5 DEF r

\* The same of a state by its fields.
LEMMA CountedIs ==
  ASSUME NEW s, NEW more, s = StateOf(s.total, s.large, s.v, s.mem, s.memsize)
  PROVE  Counted(s, more)
           = StateOf(TotalAfter(s.total, more), LargeAfter(s.total, s.large, more), s.v, s.mem, s.memsize)
<1>1. Counted(StateOf(s.total, s.large, s.v, s.mem, s.memsize), more)
        = StateOf(TotalAfter(s.total, more), LargeAfter(s.total, s.large, more), s.v, s.mem, s.memsize)
  BY CountedState
<1>. QED
  BY <1>1, Zenon

\* Counting leaves what a state holds.
LEMMA FedCounted ==
  ASSUME NEW s, NEW seed, NEW len, NEW more, Fed(s, seed, len)
  PROVE  /\ Fed(Counted(s, more), seed, len)
         /\ Counted(s, more).memsize = s.memsize
<1>1. s = StateOf(s.total, s.large, s.v, s.mem, s.memsize) /\ Holds(s.v, s.mem, s.memsize, seed, len)
  BY DEF Fed
<1>2. PICK total, large : Counted(s, more) = StateOf(total, large, s.v, s.mem, s.memsize)
  BY <1>1, CountedIs
<1>3. Fed(StateOf(total, large, s.v, s.mem, s.memsize), seed, len)
  BY <1>1, FedState
<1>4. StateOf(total, large, s.v, s.mem, s.memsize).memsize = s.memsize
  BY StateParts
<1>. QED
  BY <1>2, <1>3, <1>4

\* A remainder is the only one.
LEMMA Remainder ==
  ASSUME NEW M \in Nat \ {0}, NEW k \in Int, NEW r \in 0 .. M - 1
  PROVE  (M * k + r) % M = r
<1>. DEFINE y == M * k + r
            d == y \div M
            e == y % M
<1>1. M * k \in Int /\ y \in Int
  OBVIOUS
<1>2. d \in Int /\ e \in 0 .. M - 1 /\ y = M * d + e
  BY <1>1
<1>. HIDE DEF d, e
<1>3. M * (k - d) = e - r
  BY <1>2
<1>4. \A x \in Int : (x >= 1 => M * x >= M) /\ (x <= -1 => M * x <= - M)
  OBVIOUS
<1>5. k - d \in Int /\ e - r < M /\ e - r > - M
  BY <1>2
<1>6. k - d = 0
  BY <1>3, <1>4, <1>5
<1>7. e = r
  BY <1>2, <1>3, <1>6
<1>. QED
  BY <1>7 DEF e

\* A sum modulo 2^32, by the sum of what was reduced before.
LEMMA ModSum ==
  ASSUME NEW M \in Nat \ {0}, NEW a \in Nat, NEW b \in Nat
  PROVE  ((a % M) + b) % M = (a + b) % M
<1>. DEFINE q == a \div M
            r == a % M
            d == (r + b) \div M
            e == (r + b) % M
<1>1. q \in Int /\ r \in 0 .. M - 1 /\ a = M * q + r
  OBVIOUS
<1>2. d \in Int /\ e \in 0 .. M - 1 /\ r + b = M * d + e
  <2>. HIDE DEF r
  <2>. QED
    BY <1>1
<1>. HIDE DEF q, r, d, e
<1>3. a + b = M * (q + d) + e /\ q + d \in Int
  BY <1>1, <1>2
<1>4. (a + b) % M = e
  BY <1>2, <1>3, Remainder
<1>. QED
  BY <1>4 DEF r, e

\* Counting adds the segment, although the 32 bits of XXH32 wrap.
LEMMA CountsCounted ==
  ASSUME target \in Target, NEW s, NEW seed, NEW len \in Nat, NEW more \in Nat,
         Fed(s, seed, len), Counts(s, len)
  PROVE  Counts(Counted(s, more), len + more)
<1>. DEFINE total == TotalAfter(s.total, more)
            large == LargeAfter(s.total, s.large, more)
<1>1. Counted(s, more) = StateOf(total, large, s.v, s.mem, s.memsize)
  BY CountedIs DEF Fed
<1>2. CASE target.bits = 32
  <2>1. Stripe = 16 /\ s.total = len % Mod32 /\ s.total \in Nat /\ s.large \in BOOLEAN /\ (s.large <=> len >= 16)
    BY <1>2 DEF Counts, Stripe, StripeLen
  <2>2. (s.total + more) % Mod32 = (len + more) % Mod32
    <3>1. Mod32 \in Nat \ {0}
      BY Mod32IsLarge
    <3>2. ((len % Mod32) + more) % Mod32 = (len + more) % Mod32
      BY <3>1, ModSum
    <3>. QED
      BY <2>1, <3>2
  <2>3. /\ (len + more) % Mod32 \in Nat /\ (len + more) % Mod32 <= len + more
        /\ len + more < Mod32 => (len + more) % Mod32 = len + more
    BY Mod32IsLarge
  <2>4. s.large \/ more >= 16 \/ (len + more) % Mod32 >= 16 <=> len + more >= 16
    BY <2>1, <2>3, Mod32IsLarge
  <2>5. total = (len + more) % Mod32 /\ (large <=> len + more >= 16) /\ large \in BOOLEAN
    BY <1>2, <2>1, <2>2, <2>4 DEF TotalAfter, LargeAfter
  <2>. HIDE DEF total, large
  <2>. QED
    BY <1>1, <1>2, <2>1, <2>3, <2>5, StateParts DEF Counts
<1>3. CASE target.bits = 64
  <2>1. s.total = len /\ s.large \in BOOLEAN
    BY <1>3 DEF Counts
  <2>2. total = len + more /\ large = s.large
    BY <1>3, <2>1 DEF TotalAfter, LargeAfter
  <2>. HIDE DEF total, large
  <2>. QED
    BY <1>1, <1>3, <2>1, <2>2, StateParts DEF Counts
<1>. QED
  BY <1>2, <1>3 DEF Target

\* "fill in tmp buffer"
LEMMA HoldsBuffer ==
  ASSUME target \in Target, NEW v, NEW mem, NEW memsize, NEW seed, NEW len \in Nat, NEW more \in Nat,
         Holds(v, mem, memsize, seed, len), memsize + more < Stripe
  PROVE  Holds(v, Memcpy(mem, memsize, len, more), memsize + more, seed, len + more)
<1>. DEFINE q == len \div Stripe
            r == len % Stripe
            m == Memcpy(mem, memsize, len, more)
<1>1. q \in Nat /\ r \in 0 .. Stripe - 1 /\ Cut(target, len) = Stripe * q /\ len = Stripe * q + r
      /\ Stripe \in Nat /\ Stripe * q \in Nat
  BY Division DEF Stripe
<1>2. memsize = r
  BY DEF Holds
<1>3. v = LanesAfter(target, q, seed) /\ DOMAIN mem = 0 .. Stripe - 1
  BY DEF Holds
<1>4. \A i \in 0 .. r - 1 : mem[i] = Stripe * q + i
  BY <1>1, <1>2 DEF Holds
<1>5. m = [i \in 0 .. Stripe - 1 |-> IF r <= i /\ i < r + more THEN len + (i - r) ELSE mem[i]]
  BY <1>2, <1>3 DEF Memcpy
<1>6. r + more \in 0 .. Stripe - 1
  <2>. HIDE DEF q, r, m
  <2>. QED
    BY <1>1, <1>2
<1>. HIDE DEF q, r, m
<1>7. /\ (len + more) \div Stripe = q
      /\ (len + more) % Stripe = r + more
      /\ Cut(target, len + more) = Stripe * q
  <2>1. len + more = Stripe * q + (r + more)
    BY <1>1
  <2>. QED
    BY <1>1, <1>6, <2>1, DivisionStep DEF Stripe
<1>8. \A i \in 0 .. (r + more) - 1 : m[i] = Stripe * q + i
  BY <1>1, <1>4, <1>5, <1>6
<1>. QED
  BY <1>2, <1>3, <1>5, <1>6, <1>7, <1>8 DEF Holds, m

\* The buffer completed, the stripes of the segment and the rest.
Fill(memsize) == IF memsize # 0 THEN Stripe - memsize ELSE 0
LanesAbsorbed(v, mem, memsize, p, len) ==
  Rounds(target,
         Rounds(target, v, Memcpy(mem, memsize, p, Fill(memsize)), 0, IF Fill(memsize) = 0 THEN 0 ELSE 1),
         Input, p + Fill(memsize), (len - Fill(memsize)) \div Stripe)
MemAbsorbed(mem, memsize, p, len) ==
  Memcpy(Memcpy(mem, memsize, p, Fill(memsize)), 0,
         p + Fill(memsize) + ((len - Fill(memsize)) \div Stripe) * Stripe, (len - Fill(memsize)) % Stripe)

\* A segment that completes the buffer leaves the rest of the longer input.
LEMMA HoldsAbsorb ==
  ASSUME target \in Target, NEW v, NEW mem, NEW memsize, NEW seed, NEW len \in Nat, NEW more \in Nat,
         Holds(v, mem, memsize, seed, len), ~ (memsize + more < Stripe)
  PROVE  Holds(LanesAbsorbed(v, mem, memsize, len, more), MemAbsorbed(mem, memsize, len, more),
               (more - Fill(memsize)) % Stripe, seed, len + more)
<1>. DEFINE q == len \div Stripe
            r == len % Stripe
            fill == Fill(memsize)
            b == IF fill = 0 THEN 0 ELSE 1
            n == (more - fill) \div Stripe
            rest == (more - fill) % Stripe
            m1 == Memcpy(mem, memsize, len, fill)
            m2 == MemAbsorbed(mem, memsize, len, more)
<1>1. q \in Nat /\ r \in 0 .. Stripe - 1 /\ Cut(target, len) = Stripe * q /\ len = Stripe * q + r
      /\ Stripe \in Nat /\ Stripe * q \in Nat
  BY Division DEF Stripe
<1>2. memsize = r
  BY DEF Holds
<1>3. v = LanesAfter(target, q, seed) /\ DOMAIN mem = 0 .. Stripe - 1
  BY DEF Holds
<1>4. \A i \in 0 .. r - 1 : mem[i] = Stripe * q + i
  BY <1>1, <1>2 DEF Holds
<1>5. m1 = [i \in 0 .. Stripe - 1 |-> IF r <= i /\ i < r + fill THEN len + (i - r) ELSE mem[i]]
  BY <1>2, <1>3 DEF Memcpy
<1>6. /\ b \in {0, 1} /\ fill \in Nat
      /\ b = 0 => fill = 0 /\ r = 0
      /\ b = 1 => fill = Stripe - r /\ r # 0
      /\ more - fill \in Nat
  <2>. HIDE DEF q, r
  <2>. QED
    BY <1>1, <1>2 DEF Fill
<1>. HIDE DEF q, r, fill, b
<1>7. n \in Nat /\ rest \in 0 .. Stripe - 1 /\ more - fill = Stripe * n + rest
  <2>1. \A x \in Nat : /\ x \div Stripe \in Nat /\ x % Stripe \in 0 .. Stripe - 1
                       /\ x = Stripe * (x \div Stripe) + (x % Stripe)
    <3>1. CASE target.bits = 32
      BY <3>1 DEF Stripe, StripeLen
    <3>2. CASE target.bits = 64
      BY <3>2 DEF Stripe, StripeLen
    <3>. QED
      BY <3>1, <3>2 DEF Target
  <2>. QED
    BY <1>6, <2>1
<1>. HIDE DEF n, rest
<1>8. len + fill = Stripe * (q + b)
  <2>1. CASE target.bits = 32
    BY <1>1, <1>6, <2>1 DEF Stripe, StripeLen
  <2>2. CASE target.bits = 64
    BY <1>1, <1>6, <2>2 DEF Stripe, StripeLen
  <2>. QED
    BY <2>1, <2>2 DEF Target
<1>9. /\ len + more = Stripe * (q + b + n) + rest
      /\ len + fill + n * Stripe = Stripe * (q + b + n)
      /\ q + b \in Nat /\ q + b + n \in Nat /\ Stripe * (q + b + n) \in Nat
  <2>1. CASE target.bits = 32
    BY <1>1, <1>6, <1>7, <1>8, <2>1 DEF Stripe, StripeLen
  <2>2. CASE target.bits = 64
    BY <1>1, <1>6, <1>7, <1>8, <2>2 DEF Stripe, StripeLen
  <2>. QED
    BY <2>1, <2>2 DEF Target
<1>10. /\ (len + more) \div Stripe = q + b + n
       /\ (len + more) % Stripe = rest
       /\ Cut(target, len + more) = Stripe * (q + b + n)
  BY <1>7, <1>9, DivisionStep DEF Stripe
\* The lanes.
<1>11. Rounds(target, v, m1, 0, b) = LanesAfter(target, q + b, seed)
  <2>. HIDE DEF m1
  <2>1. CASE b = 0
    <3>1. q + b = q
      BY <1>1, <2>1
    <3>2. Rounds(target, LanesAfter(target, q, seed), m1, 0, 0) = LanesAfter(target, q, seed)
      BY <1>1, NoRounds
    <3>. QED
      BY <1>3, <2>1, <3>1, <3>2
  <2>2. CASE b = 1
    <3>1. \A i \in 0 .. StripeLen(target) - 1 : m1[i] = StripeLen(target) * q + i
      <4>1. r + fill = Stripe
        BY <1>1, <1>6, <2>2
      <4>2. \A i \in 0 .. Stripe - 1 : m1[i] = IF r <= i THEN len + (i - r) ELSE mem[i]
        BY <1>1, <1>5, <1>6, <4>1
      <4>3. \A i \in 0 .. Stripe - 1 : m1[i] = Stripe * q + i
        <5>. TAKE i \in 0 .. Stripe - 1
        <5>1. CASE r <= i
          BY <1>1, <4>2, <5>1
        <5>2. CASE ~ (r <= i)
          BY <1>1, <1>4, <4>2, <5>2
        <5>. QED
          BY <5>1, <5>2
      <4>. QED
        BY <4>3 DEF Stripe
    <3>2. Rounds(target, LanesAfter(target, q, seed), m1, 0, 1) = LanesAfter(target, q + 1, seed)
      BY <1>1, <3>1, RoundOfBuffer
    <3>. QED
      BY <1>3, <2>2, <3>2
  <2>. QED
    BY <1>6, <2>1, <2>2
<1>12. Rounds(target, LanesAfter(target, q + b, seed), Input, StripeLen(target) * (q + b), n)
         = LanesAfter(target, (q + b) + n, seed)
  BY <1>7, <1>9, RoundsOfInput
<1>13. LanesAbsorbed(v, mem, memsize, len, more) = LanesAfter(target, q + b + n, seed)
  BY <1>8, <1>11, <1>12 DEF LanesAbsorbed, fill, b, n, Stripe
\* The buffer.
<1>14. m2 = [i \in 0 .. Stripe - 1 |->
              IF 0 <= i /\ i < 0 + rest THEN len + fill + n * Stripe + (i - 0) ELSE m1[i]]
  BY <1>5 DEF MemAbsorbed, Memcpy, fill, n, rest
<1>15. \A i \in 0 .. rest - 1 : m2[i] = Stripe * (q + b + n) + i
  <2>. HIDE DEF m1, m2
  <2>. QED
    BY <1>1, <1>7, <1>9, <1>14
<1>16. m2 = [i \in 0 .. Stripe - 1 |-> m2[i]]
  BY <1>14
<1>. QED
  BY <1>10, <1>13, <1>15, <1>16 DEF Holds, fill, rest

\* The buffer, and the lanes with it, are what an update assigns.
LEMMA BufferIs ==
  ASSUME NEW s, NEW p, NEW len, s = StateOf(s.total, s.large, s.v, s.mem, s.memsize)
  PROVE  Buffer(s, p, len)
           = StateOf(s.total, s.large, s.v, Memcpy(s.mem, s.memsize, p, len), s.memsize + len)
<1>. DEFINE x == Memcpy(s.mem, s.memsize, p, len)
            y == s.memsize + len
            total == s.total
            large == s.large
            v == s.v
            mem == s.mem
            memsize == s.memsize
<1>. HIDE DEF x, y, total, large, v, mem, memsize
<1>1. s = StateOf(total, large, v, mem, memsize)
  BY DEF total, large, v, mem, memsize
<1>2. [s EXCEPT !.mem = x] = StateOf(total, large, v, x, memsize)
  BY <1>1 DEF StateOf
<1>3. [StateOf(total, large, v, x, memsize) EXCEPT !.memsize = y] = StateOf(total, large, v, x, y)
  BY DEF StateOf
<1>4. [s EXCEPT !.mem = x, !.memsize = y] = [[s EXCEPT !.mem = x] EXCEPT !.memsize = y]
  BY Zenon
<1>5. [s EXCEPT !.mem = x, !.memsize = y] = StateOf(total, large, v, x, y)
  BY <1>2, <1>3, <1>4, Zenon
<1>. QED
  BY <1>5, Zenon DEF Buffer, x, y, total, large, v

\* The same of what completes it.
LEMMA AbsorbIs ==
  ASSUME NEW s, NEW p, NEW len, s = StateOf(s.total, s.large, s.v, s.mem, s.memsize)
  PROVE  Absorb(s, p, len)
           = StateOf(s.total, s.large,
                     LanesAbsorbed(s.v, s.mem, s.memsize, p, len),
                     MemAbsorbed(s.mem, s.memsize, p, len),
                     (len - Fill(s.memsize)) % Stripe)
<1>. DEFINE w == LanesAbsorbed(s.v, s.mem, s.memsize, p, len)
            x == MemAbsorbed(s.mem, s.memsize, p, len)
            y == (len - Fill(s.memsize)) % Stripe
            total == s.total
            large == s.large
            v == s.v
            mem == s.mem
            memsize == s.memsize
<1>. HIDE DEF w, x, y, total, large, v, mem, memsize
<1>1. s = StateOf(total, large, v, mem, memsize)
  BY DEF total, large, v, mem, memsize
<1>2. [s EXCEPT !.v = w] = StateOf(total, large, w, mem, memsize)
  BY <1>1 DEF StateOf
<1>3. [StateOf(total, large, w, mem, memsize) EXCEPT !.mem = x] = StateOf(total, large, w, x, memsize)
  BY DEF StateOf
<1>4. [StateOf(total, large, w, x, memsize) EXCEPT !.memsize = y] = StateOf(total, large, w, x, y)
  BY DEF StateOf
<1>5. [s EXCEPT !.v = w, !.mem = x, !.memsize = y]
        = [[[s EXCEPT !.v = w] EXCEPT !.mem = x] EXCEPT !.memsize = y]
  BY Zenon
<1>6. [s EXCEPT !.v = w, !.mem = x, !.memsize = y] = StateOf(total, large, w, x, y)
  BY <1>2, <1>3, <1>4, <1>5, Zenon
<1>7. Absorb(s, p, len) = [s EXCEPT !.v = w, !.mem = x, !.memsize = y]
  BY Zenon DEF Absorb, LanesAbsorbed, MemAbsorbed, Fill, w, x, y
<1>. QED
  BY <1>6, <1>7, Zenon DEF w, x, y, total, large

\* What counts is not the buffer or the lanes.
LEMMA CountsParts ==
  ASSUME NEW s, NEW v, NEW mem, NEW memsize, NEW len, Counts(s, len)
  PROVE  Counts(StateOf(s.total, s.large, v, mem, memsize), len)
<1>. DEFINE r == StateOf(s.total, s.large, v, mem, memsize)
<1>1. r.total = s.total /\ r.large = s.large
  BY StateParts
<1>. HIDE DEF r
<1>2. Counts(r, len)
  BY <1>1, Zenon DEF Counts
<1>. QED
  BY <1>2 DEF r

\* A state takes a segment that does not complete its buffer.
LEMMA FedBuffer ==
  ASSUME target \in Target, NEW s, NEW seed, NEW len \in Nat, NEW more \in Nat,
         Fed(s, seed, len), Counts(s, len), Small(s, more)
  PROVE  LET r == Buffer(Counted(s, more), len, more)
         IN  Fed(r, seed, len + more) /\ Counts(r, len + more)
<1>. DEFINE c == Counted(s, more)
<1>1. Fed(c, seed, len) /\ c.memsize = s.memsize
  BY FedCounted
<1>2. Counts(c, len + more)
  BY CountsCounted
<1>. HIDE DEF c
<1>3. c = StateOf(c.total, c.large, c.v, c.mem, c.memsize) /\ Holds(c.v, c.mem, c.memsize, seed, len)
  BY <1>1 DEF Fed
<1>. DEFINE m == Memcpy(c.mem, c.memsize, len, more)
<1>4. Buffer(c, len, more) = StateOf(c.total, c.large, c.v, m, c.memsize + more)
  BY <1>3, BufferIs
<1>5. Holds(c.v, m, c.memsize + more, seed, len + more)
  BY <1>1, <1>3, HoldsBuffer DEF Small
<1>. HIDE DEF m
<1>6. Fed(StateOf(c.total, c.large, c.v, m, c.memsize + more), seed, len + more)
  BY <1>5, FedState
<1>7. Counts(StateOf(c.total, c.large, c.v, m, c.memsize + more), len + more)
  BY <1>2, CountsParts
<1>. QED
  BY <1>4, <1>6, <1>7 DEF c

\* A state takes a segment that completes it.
LEMMA FedAbsorb ==
  ASSUME target \in Target, NEW s, NEW seed, NEW len \in Nat, NEW more \in Nat,
         Fed(s, seed, len), Counts(s, len), ~ Small(s, more)
  PROVE  LET r == Absorb(Counted(s, more), len, more)
         IN  Fed(r, seed, len + more) /\ Counts(r, len + more)
<1>. DEFINE c == Counted(s, more)
<1>1. Fed(c, seed, len) /\ c.memsize = s.memsize
  BY FedCounted
<1>2. Counts(c, len + more)
  BY CountsCounted
<1>. HIDE DEF c
<1>3. c = StateOf(c.total, c.large, c.v, c.mem, c.memsize) /\ Holds(c.v, c.mem, c.memsize, seed, len)
  BY <1>1 DEF Fed
<1>. DEFINE v == LanesAbsorbed(c.v, c.mem, c.memsize, len, more)
            m == MemAbsorbed(c.mem, c.memsize, len, more)
            k == (more - Fill(c.memsize)) % Stripe
<1>4. Absorb(c, len, more) = StateOf(c.total, c.large, v, m, k)
  BY <1>3, AbsorbIs
<1>5. Holds(v, m, k, seed, len + more)
  BY <1>1, <1>3, HoldsAbsorb DEF Small
<1>. HIDE DEF v, m, k
<1>6. Fed(StateOf(c.total, c.large, v, m, k), seed, len + more)
  BY <1>5, FedState
<1>7. Counts(StateOf(c.total, c.large, v, m, k), len + more)
  BY <1>2, CountsParts
<1>. QED
  BY <1>4, <1>6, <1>7 DEF c

-----------------------------------------------------------------------------
(* Digests *)

\* The bytes of mem are the input from c on.
FromAt(mem, c, n) == \A i \in 0 .. n - 1 : mem[i] = c + i

\* A word, and a byte, of the last bytes are the same in the buffer and in the
\* input.
LEMMA RestWord ==
  ASSUME NEW t \in Target, NEW n \in Nat, NEW c \in Nat, NEW mem,
         FromAt(mem, c, n),
         NEW k \in Nat, NEW w \in Nat, k + w <= n
  PROVE  ReadLE(t, mem, k, w) = ReadLE(LittleEndian(t), Input, c + k, w)
<1>1. ReadLE(t, mem, k, w) = WordAt(mem, k, w)
  BY ReadLEValue
<1>2. ReadLE(LittleEndian(t), Input, c + k, w) = WordAt(Input, c + k, w)
  BY ReadLEValue, LittleEndianTarget
<1>3. \A i \in 0 .. w - 1 : mem[k + i] = Input[(c + k) + i]
  BY DEF Input, FromAt
<1>. QED
  BY <1>1, <1>2, <1>3 DEF WordAt

\* A byte of them.
LEMMA RestByte ==
  ASSUME NEW n \in Nat, NEW c \in Nat, NEW mem,
         FromAt(mem, c, n),
         NEW k \in 0 .. n - 1
  PROVE  Byte(mem, k) = Byte(Input, c + k)
BY DEF Byte, Input, FromAt

\* What both functions read of them.
LEMMA RestIs ==
  ASSUME NEW t \in Target, NEW n \in Nat, NEW c \in Nat, NEW mem,
         FromAt(mem, c, n)
  PROVE  /\ Rest32(t, mem, 0, n) = Rest32(LittleEndian(t), Input, c, n)
         /\ Rest64(t, mem, 0, n) = Rest64(LittleEndian(t), Input, c, n)
<1>1. ASSUME NEW k \in 1 .. n \div 4
      PROVE  ReadLE(t, mem, 0 + 4 * (k - 1), 4) = ReadLE(LittleEndian(t), Input, c + 4 * (k - 1), 4)
  <2>1. 4 * (k - 1) \in Nat /\ 4 * (k - 1) + 4 <= n /\ 0 + 4 * (k - 1) = 4 * (k - 1) /\ 4 \in Nat
    OBVIOUS
  <2>. QED
    BY <2>1, RestWord
<1>2. ASSUME NEW k \in 1 .. n \div 8
      PROVE  ReadLE(t, mem, 0 + 8 * (k - 1), 8) = ReadLE(LittleEndian(t), Input, c + 8 * (k - 1), 8)
  <2>1. 8 * (k - 1) \in Nat /\ 8 * (k - 1) + 8 <= n /\ 0 + 8 * (k - 1) = 8 * (k - 1) /\ 8 \in Nat
    OBVIOUS
  <2>. QED
    BY <2>1, RestWord
<1>3. ASSUME NEW k \in 1 .. (n % 8) \div 4
      PROVE  ReadLE(t, mem, 0 + n - (n % 8), 4) = ReadLE(LittleEndian(t), Input, c + n - (n % 8), 4)
  <2>1. n - (n % 8) \in Nat /\ n - (n % 8) + 4 <= n /\ 4 \in Nat
    OBVIOUS
  <2>2. 0 + n - (n % 8) = n - (n % 8) /\ c + n - (n % 8) = c + (n - (n % 8))
    OBVIOUS
  <2>. QED
    BY <2>1, <2>2, RestWord
<1>4. ASSUME NEW k \in 1 .. n % 4
      PROVE  Byte(mem, 0 + n - (n % 4) + k - 1) = Byte(Input, c + n - (n % 4) + k - 1)
  <2>1. n - (n % 4) + k - 1 \in 0 .. n - 1
    OBVIOUS
  <2>2. /\ 0 + n - (n % 4) + k - 1 = n - (n % 4) + k - 1
        /\ c + n - (n % 4) + k - 1 = c + (n - (n % 4) + k - 1)
    OBVIOUS
  <2>. QED
    BY <2>1, <2>2, RestByte
<1>5. Rest32(t, mem, 0, n) = Rest32(LittleEndian(t), Input, c, n)
  BY <1>1, <1>4, Zenon DEF Rest32
<1>6. Rest64(t, mem, 0, n) = Rest64(LittleEndian(t), Input, c, n)
  BY <1>2, <1>3, <1>4, Zenon DEF Rest64
<1>. QED
  BY <1>5, <1>6

\* A digest of a state is the hash of its input at once, on either processor.
LEMMA DigestOfFed ==
  ASSUME target \in Target, NEW s, NEW seed, NEW len \in Nat, Fed(s, seed, len), Counts(s, len)
  PROVE  DigestOf(s) = OneShot(LittleEndian(target), Input, len, seed)
<1>. DEFINE u == LittleEndian(target)
            n == len % Stripe
            c == Cut(target, len)
<1>1. u \in Target /\ StripeLen(u) = Stripe /\ u.bits = target.bits
  BY LittleEndianTarget DEF Stripe
<1>2. n \in Nat /\ c \in Nat /\ c + n = len /\ Cut(u, len) = c /\ len - c = n
      /\ (len >= Stripe <=> len \div Stripe > 0)
  BY <1>1, Division DEF Cut, Stripe
<1>3. s.v = LanesAfter(target, len \div Stripe, seed) /\ s.memsize = n /\ FromAt(s.mem, c, n)
  BY DEF Fed, Holds, FromAt
<1>4. LanesOf(u, Input, len, seed) = s.v
  BY <1>3, LanesOfInput DEF Stripe
<1>. HIDE DEF u, n, c
<1>5. /\ Rest32(target, s.mem, 0, s.memsize) = Rest32(u, Input, c, n)
      /\ Rest64(target, s.mem, 0, s.memsize) = Rest64(u, Input, c, n)
  <2>1. Rest32(target, s.mem, 0, n) = Rest32(LittleEndian(target), Input, c, n)
    BY <1>2, <1>3, RestIs
  <2>2. Rest64(target, s.mem, 0, n) = Rest64(LittleEndian(target), Input, c, n)
    BY <1>2, <1>3, RestIs
  <2>. QED
    BY <1>3, <2>1, <2>2, Zenon DEF u
<1>6. (IF len >= Stripe THEN Merged(s.v) ELSE FromSeed(s.v[3])) = Start(u, Input, len, seed)
  <2>1. CASE len >= Stripe
    BY <1>1, <1>4, <2>1, Zenon DEF Start
  <2>2. CASE ~ (len >= Stripe)
    <3>1. len \div Stripe = 0
      BY <1>2, <2>2, Division DEF Stripe
    <3>2. 3 \in Lane /\ InputWords(target, 3, 0) = <<>>
      BY DEF Lane, InputWords
    <3>3. s.v[3] = [seed |-> seed, words |-> <<>>]
      BY <1>3, <3>1, <3>2 DEF LanesAfter
    <3>. QED
      BY <1>1, <2>2, <3>3, Zenon DEF Start
  <2>. QED
    BY <2>1, <2>2
<1>7. CASE target.bits = 32
  <2>1. s.total = len % Mod32 /\ (s.large <=> len >= Stripe)
    BY <1>7 DEF Counts
  <2>2. DigestOf(s) = [acc  |-> Start(u, Input, len, seed),
                       len  |-> len % Mod32,
                       rest |-> Rest32(u, Input, c, n)]
    BY <1>5, <1>6, <1>7, <2>1, Zenon DEF DigestOf, Digest32
  <2>3. OneShot(u, Input, len, seed) = [acc  |-> Start(u, Input, len, seed),
                                        len  |-> len % Mod32,
                                        rest |-> Rest32(u, Input, c, n)]
    BY <1>1, <1>2, <1>7 DEF OneShot, XXH32
  <2>. QED
    BY <2>2, <2>3 DEF u
<1>8. CASE target.bits = 64
  <2>1. s.total = len /\ Stripe = 32 /\ target.bits # 32
    BY <1>8 DEF Counts, Stripe, StripeLen
  <2>2. DigestOf(s) = [acc  |-> Start(u, Input, len, seed),
                       len  |-> len,
                       rest |-> Rest64(u, Input, c, n)]
    BY <1>5, <1>6, <2>1, Zenon DEF DigestOf, Digest64
  <2>3. OneShot(u, Input, len, seed) = [acc  |-> Start(u, Input, len, seed),
                                        len  |-> len,
                                        rest |-> Rest64(u, Input, c, n)]
    BY <1>1, <1>2, <2>1 DEF OneShot, XXH64
  <2>. QED
    BY <2>2, <2>3 DEF u
<1>. QED
  BY <1>7, <1>8 DEF Target

\* The canonical form is the bytes most significant first, and gives the hash
\* back.
LEMMA CanonicalRoundTrip ==
  ASSUME NEW t \in Target, NEW n \in Nat, NEW value, value = [i \in 0 .. n - 1 |-> value[i]]
  PROVE  /\ CanonicalFromHash(t, value, n) = [i \in 0 .. n - 1 |-> value[n - 1 - i]]
         /\ HashFromCanonical(t, CanonicalFromHash(t, value, n), n) = value
<1>1. \A i \in 0 .. n - 1 : /\ n - 1 - i \in 0 .. n - 1 /\ n - 1 - (n - 1 - i) = i
                            /\ 0 + i = i /\ 0 + (n - 1 - i) = n - 1 - i
  OBVIOUS
<1>2. CanonicalFromHash(t, value, n) = [i \in 0 .. n - 1 |-> value[n - 1 - i]]
  <2>1. CASE t.cpu = "little"
    BY <1>1, <2>1 DEF CanonicalFromHash, Swap
  <2>2. CASE t.cpu = "big"
    BY <1>1, <2>2 DEF CanonicalFromHash
  <2>. QED
    BY <2>1, <2>2 DEF Target
<1>. DEFINE c == [i \in 0 .. n - 1 |-> value[n - 1 - i]]
<1>3. HashFromCanonical(t, c, n) = [i \in 0 .. n - 1 |-> value[i]]
  <2>1. CASE t.cpu = "little"
    BY <1>1, <2>1 DEF HashFromCanonical, Native, Swap
  <2>2. CASE t.cpu = "big"
    BY <1>1, <2>2 DEF HashFromCanonical, Native
  <2>. QED
    BY <2>1, <2>2 DEF Target
<1>. QED
  BY <1>2, <1>3

-----------------------------------------------------------------------------
(* The invariant *)

TypesOK ==
  /\ target \in Target
  /\ alloc \in [Handle -> {"none", "raw", "live"}]
  /\ st = [h \in Handle |-> st[h]]
  /\ given \in [Handle -> [seed : Seed, len : Nat]]
  /\ out = [h \in Handle |-> out[h]]

StatesHold ==
  \A h \in Handle : Live(h) => /\ Fed(st[h], given[h].seed, given[h].len)
                               /\ Counts(st[h], given[h].len)

IInv == TypesOK /\ StatesHold

\* A state that becomes what holds its input.
LEMMA BecomesKeeps ==
  ASSUME IInv, NEW h \in Handle, NEW s, NEW g \in [seed : Seed, len : Nat],
         Becomes(h, s, g), Fed(s, g.seed, g.len), Counts(s, g.len)
  PROVE  IInv'
<1>1. target' = target
  BY DEF Becomes
<1>2. \A x, seed, len : Fed(x, seed, len)' <=> Fed(x, seed, len)
  BY <1>1 DEF Fed, Holds, LanesAfter, InputWords, InputWord, Stripe
<1>3. \A x, len : Counts(x, len)' <=> Counts(x, len)
  BY <1>1 DEF Counts, Stripe
<1>4. TypesOK'
  BY <1>1 DEF IInv, TypesOK, Becomes
<1>5. ASSUME NEW k \in Handle, Live(k)'
      PROVE  Fed(st'[k], given'[k].seed, given'[k].len) /\ Counts(st'[k], given'[k].len)
  <2>1. CASE k = h
    <3>1. st'[k] = s /\ given'[k] = g
      BY <2>1 DEF Becomes, IInv, TypesOK
    <3>. QED
      BY <3>1, Zenon
  <2>2. CASE k # h
    <3>1. st'[k] = st[k] /\ given'[k] = given[k] /\ alloc'[k] = alloc[k]
      BY <2>2 DEF Becomes, IInv, TypesOK
    <3>2. Live(k)
      BY <1>5, <3>1 DEF Live
    <3>. QED
      BY <3>1, <3>2, Zenon DEF IInv, StatesHold
  <2>. QED
    BY <2>1, <2>2
<1>6. StatesHold'
  BY <1>2, <1>3, <1>5, Zenon DEF StatesHold
<1>. QED
  BY <1>4, <1>6 DEF IInv

\* The input after a segment.
LEMMA LongerIs ==
  ASSUME TypesOK, NEW h \in Handle, NEW more \in Segment
  PROVE  /\ Longer(h, more) \in [seed : Seed, len : Nat]
         /\ Longer(h, more).seed = given[h].seed
         /\ Longer(h, more).len = given[h].len + more
         /\ given[h].len \in Nat /\ more \in Nat
<1>1. given[h] \in [seed : Seed, len : Nat] /\ more \in Nat
  BY SegmentsAreLengths DEF TypesOK
<1>2. given[h].len + more \in Nat
  BY <1>1
<1>3. Longer(h, more) = [given[h] EXCEPT !.len = given[h].len + more]
  BY Zenon DEF Longer
<1>. QED
  BY <1>1, <1>2, <1>3

\* XXH32_reset, XXH64_reset.
LEMMA ResetKeeps ==
  ASSUME IInv, NEW h \in Handle, NEW seed \in Seed, Reset(h, seed)
  PROVE  IInv'
<1>. DEFINE g == [seed |-> seed, len |-> 0]
<1>1. g \in [seed : Seed, len : Nat] /\ g.seed = seed /\ g.len = 0
  OBVIOUS
<1>2. Fed(ResetState(seed), seed, 0) /\ Counts(ResetState(seed), 0)
  BY FedReset DEF IInv, TypesOK
<1>3. Becomes(h, ResetState(seed), g)
  BY DEF Reset
<1>. HIDE DEF g
<1>. QED
  BY <1>1, <1>2, <1>3, BecomesKeeps

\* XXH32_copyState, XXH64_copyState.
LEMMA CopyKeeps ==
  ASSUME IInv, NEW dst \in Handle, NEW src \in Handle, CopyState(dst, src)
  PROVE  IInv'
<1>1. Becomes(dst, st[src], given[src]) /\ given[src] \in [seed : Seed, len : Nat]
  BY DEF CopyState, IInv, TypesOK
<1>2. Fed(st[src], given[src].seed, given[src].len) /\ Counts(st[src], given[src].len)
  BY DEF CopyState, IInv, StatesHold
<1>. QED
  BY <1>1, <1>2, BecomesKeeps

\* An update that is buffered.
LEMMA UpdateSmallKeeps ==
  ASSUME IInv, NEW h \in Handle, NEW more \in Segment, UpdateSmall(h, more)
  PROVE  IInv'
<1>. DEFINE g == Longer(h, more)
            s == Buffer(Counted(st[h], more), given[h].len, more)
<1>1. /\ g \in [seed : Seed, len : Nat] /\ g.seed = given[h].seed /\ g.len = given[h].len + more
      /\ given[h].len \in Nat /\ more \in Nat
  BY LongerIs DEF IInv
<1>2. Fed(st[h], given[h].seed, given[h].len) /\ Counts(st[h], given[h].len)
  BY DEF UpdateSmall, IInv, StatesHold
<1>3. Fed(s, given[h].seed, given[h].len + more) /\ Counts(s, given[h].len + more)
  BY <1>1, <1>2, FedBuffer DEF UpdateSmall, IInv, TypesOK
<1>4. Becomes(h, s, g)
  BY DEF UpdateSmall
<1>. HIDE DEF g, s
<1>. QED
  BY <1>1, <1>3, <1>4, BecomesKeeps

\* An update that completes a stripe.
LEMMA UpdateStripesKeeps ==
  ASSUME IInv, NEW h \in Handle, NEW more \in Segment, UpdateStripes(h, more)
  PROVE  IInv'
<1>. DEFINE g == Longer(h, more)
            s == Absorb(Counted(st[h], more), given[h].len, more)
<1>1. /\ g \in [seed : Seed, len : Nat] /\ g.seed = given[h].seed /\ g.len = given[h].len + more
      /\ given[h].len \in Nat /\ more \in Nat
  BY LongerIs DEF IInv
<1>2. Fed(st[h], given[h].seed, given[h].len) /\ Counts(st[h], given[h].len)
  BY DEF UpdateStripes, IInv, StatesHold
<1>3. Fed(s, given[h].seed, given[h].len + more) /\ Counts(s, given[h].len + more)
  BY <1>1, <1>2, FedAbsorb DEF UpdateStripes, IInv, TypesOK
<1>4. Becomes(h, s, g)
  BY DEF UpdateStripes
<1>. HIDE DEF g, s
<1>. QED
  BY <1>1, <1>3, <1>4, BecomesKeeps

\* What leaves the states alone, and makes none live.
LEMMA OthersKeep ==
  ASSUME IInv, UNCHANGED <<target, st, given>>,
         alloc' \in [Handle -> {"none", "raw", "live"}], out' = [h \in Handle |-> out'[h]],
         \A h \in Handle : alloc'[h] = "live" => alloc[h] = "live"
  PROVE  IInv'
<1>1. \A x, seed, len : Fed(x, seed, len)' <=> Fed(x, seed, len)
  BY DEF Fed, Holds, LanesAfter, InputWords, InputWord, Stripe
<1>2. \A x, len : Counts(x, len)' <=> Counts(x, len)
  BY DEF Counts, Stripe
<1>3. TypesOK'
  BY DEF IInv, TypesOK
<1>4. StatesHold'
  BY <1>1, <1>2, Zenon DEF IInv, StatesHold, Live
<1>. QED
  BY <1>3, <1>4 DEF IInv

\* No state is live at first.
LEMMA InitHolds == Init => IInv
<1>. SUFFICES ASSUME Init PROVE IInv
  OBVIOUS
<1>1. TypesOK
  BY DEF Init, TypesOK
<1>2. \A h \in Handle : ~ Live(h)
  BY DEF Init, Live
<1>. QED
  BY <1>1, <1>2 DEF IInv, StatesHold

\* One step per function of the API.
LEMMA NextKeeps == IInv /\ [Next]_vars => IInv'
<1>. SUFFICES ASSUME IInv, [Next]_vars PROVE IInv'
  OBVIOUS
<1>. USE DEF IInv, TypesOK
<1>1. ASSUME NEW h \in Handle, CreateState(h) PROVE IInv'
  BY <1>1, OthersKeep DEF CreateState
<1>2. ASSUME NEW h \in Handle, FreeState(h) PROVE IInv'
  BY <1>2, OthersKeep DEF FreeState
<1>3. ASSUME NEW h \in Handle, Digest(h) PROVE IInv'
  <2>1. UNCHANGED <<target, alloc, st, given>> /\ out' = [k \in Handle |-> out'[k]]
    BY <1>3 DEF Digest
  <2>. QED
    BY <2>1, OthersKeep
<1>4. CASE UNCHANGED vars
  BY <1>4, OthersKeep DEF vars
<1>. QED
  BY <1>1, <1>2, <1>3, <1>4, ResetKeeps, CopyKeeps, UpdateSmallKeeps, UpdateStripesKeeps DEF Next

\* After any calls, the state of a live handle is the one its input makes.
THEOREM StreamInvariant == Spec => []IInv
BY InitHolds, NextKeeps, PTL DEF Spec

\* The lanes hold the whole stripes of the input in order, the buffer the rest,
\* whatever the segments were and whatever old bytes the buffer holds.
THEOREM LanesAlwaysInOrder == Spec => []LanesInOrder
<1>1. IInv => LanesInOrder
  <2>. SUFFICES ASSUME IInv, NEW h \in Handle, Live(h)
       PROVE  LET len == given[h].len IN
                /\ st[h].v = LanesOf([target EXCEPT !.cpu = "little"], Input, len, given[h].seed)
                /\ st[h].memsize = len % Stripe
                /\ \A i \in 0 .. st[h].memsize - 1 : st[h].mem[i] = Cut(target, len) + i
    BY DEF LanesInOrder
  <2>1. Fed(st[h], given[h].seed, given[h].len) /\ given[h].len \in Nat /\ target \in Target
    BY DEF IInv, TypesOK, StatesHold
  <2>2. LanesOf(LittleEndian(target), Input, given[h].len, given[h].seed)
          = LanesAfter(target, given[h].len \div Stripe, given[h].seed)
    BY <2>1, LanesOfInput DEF Stripe
  <2>. QED
    BY <2>1, <2>2, Zenon DEF Fed, Holds, LittleEndian
<1>. QED
  BY <1>1, StreamInvariant, PTL

\* The digest takes the lanes if and only if there was a stripe, wrapped or not.
THEOREM AlwaysLongIfAStripe == Spec => []LongIfAStripe
<1>1. IInv => LongIfAStripe
  BY Zenon DEF IInv, StatesHold, Counts, LongIfAStripe
<1>. QED
  BY <1>1, StreamInvariant, PTL

-----------------------------------------------------------------------------
(* The refinement *)

\* The instance of HashSpec has operators of its own, the same as these.
LEMMA PromiseOneShot ==
  ASSUME NEW t, NEW m, NEW len, NEW seed
  PROVE  Promise!OneShot(t, m, len, seed) = OneShot(t, m, len, seed)
<1>1. \A p, n : Promise!ReadLE(t, m, p, n) = ReadLE(t, m, p, n)
  BY Zenon DEF Promise!ReadLE, ReadLE, Promise!Native, Native, Promise!Swap, Swap
<1>2. \A p : Promise!Byte(m, p) = Byte(m, p)
  BY Zenon DEF Promise!Byte, Byte
<1>3. Promise!StripeLen(t) = StripeLen(t) /\ Promise!WordLen(t) = WordLen(t) /\ Promise!Lane = Lane
  BY Zenon DEF Promise!StripeLen, StripeLen, Promise!WordLen, WordLen, Promise!Lane, Lane
<1>4. Promise!Cut(t, len) = Cut(t, len)
  BY <1>3, Zenon DEF Promise!Cut, Cut
<1>5. \A p, n : Promise!Rest32(t, m, p, n) = Rest32(t, m, p, n)
  BY <1>1, <1>2, Zenon DEF Promise!Rest32, Rest32
<1>6. \A p, n : Promise!Rest64(t, m, p, n) = Rest64(t, m, p, n)
  BY <1>1, <1>2, Zenon DEF Promise!Rest64, Rest64
<1>7. \A p, n, l : Promise!Words(t, m, p, n, l) = Words(t, m, p, n, l)
  BY <1>1, <1>3, Zenon DEF Promise!Words, Words, Promise!LaneWord, LaneWord
<1>8. Promise!LanesOf(t, m, len, seed) = LanesOf(t, m, len, seed)
  BY <1>3, <1>7, Zenon DEF Promise!LanesOf, LanesOf, Promise!Rounds, Rounds, Promise!Seeded, Seeded
<1>9. Promise!Start(t, m, len, seed) = Start(t, m, len, seed)
  BY <1>3, <1>8, Zenon DEF Promise!Start, Start, Promise!Merged, Merged, Promise!FromSeed, FromSeed
<1>. QED
  BY <1>4, <1>5, <1>6, <1>9, Zenon
  DEF Promise!OneShot, OneShot, Promise!XXH32, XXH32, Promise!XXH64, XXH64

\* What is done to a state is what the abstract one is told.
LEMMA PromiseHolds ==
  ASSUME NEW h, NEW s, NEW g, Becomes(h, s, g)
  PROVE  Promise!Holds(h, g)
BY DEF Becomes, Promise!Holds

\* A digest is the one of the whole input, in the byte order of no processor.
LEMMA PromiseDigest ==
  ASSUME IInv, NEW h \in Handle, Digest(h)
  PROVE  Promise!Digest(h)
<1>. DEFINE digest == OneShot(LittleEndian(target), Input, given[h].len, given[h].seed)
            n == WordLen(target)
<1>1. target \in Target /\ given[h].len \in Nat /\ n \in Nat
  BY DEF IInv, TypesOK, Target, WordLen
<1>2. DigestOf(st[h]) = digest
  BY <1>1, DigestOfFed DEF Digest, IInv, StatesHold
<1>3. Value(digest) = [i \in 0 .. n - 1 |-> Value(digest)[i]]
  BY DEF Value
<1>4. /\ CanonicalFromHash(target, Value(digest), n) = [i \in 0 .. n - 1 |-> Value(digest)[n - 1 - i]]
      /\ HashFromCanonical(target, CanonicalFromHash(target, Value(digest), n), n) = Value(digest)
  <2>. DEFINE w == Value(digest)
  <2>. HIDE DEF n, digest
  <2>1. w = [i \in 0 .. n - 1 |-> w[i]]
    BY <1>3
  <2>. HIDE DEF w
  <2>2. CanonicalFromHash(target, w, n) = [i \in 0 .. n - 1 |-> w[n - 1 - i]]
    BY <1>1, <2>1, CanonicalRoundTrip
  <2>3. HashFromCanonical(target, CanonicalFromHash(target, w, n), n) = w
    BY <1>1, <2>1, CanonicalRoundTrip
  <2>. QED
    BY <2>2, <2>3 DEF w
<1>. HIDE DEF digest
<1>5. /\ Live(h)
      /\ out' = [out EXCEPT ![h] = {[canonical |-> [i \in 0 .. n - 1 |-> Value(digest)[n - 1 - i]],
                                     hash      |-> Value(digest)]}]
      /\ UNCHANGED <<target, alloc, st, given>>
  BY <1>2, <1>4, Zenon DEF Digest
<1>6. Promise!Value(digest) = Value(digest) /\ Promise!WordLen(target) = n
  BY Zenon DEF Promise!Value, Value, Promise!WordLen, WordLen
<1>7. Promise!OneShot([target EXCEPT !.cpu = "little"], Promise!Input, given[h].len, given[h].seed) = digest
  BY PromiseOneShot, Zenon DEF Promise!Input, Input, digest, LittleEndian
<1>. QED
  BY <1>5, <1>6, <1>7, Zenon DEF Promise!Digest, Live

\* The refinement maps initial states to initial states.
LEMMA PromiseInit == Init => Promise!Init
BY Zenon DEF Init, Promise!Init, Target, Promise!Target

\* And every step to a step or a stutter.
LEMMA PromiseNext == IInv /\ [Next]_vars => [Promise!Next]_(Promise!vars)
<1>. SUFFICES ASSUME IInv, [Next]_vars PROVE [Promise!Next]_(Promise!vars)
  OBVIOUS
<1>1. ASSUME NEW h \in Handle, CreateState(h) PROVE Promise!Next
  BY <1>1, Zenon DEF CreateState, Promise!Next, Promise!Alloc
<1>2. ASSUME NEW h \in Handle, FreeState(h) PROVE Promise!Next
  BY <1>2, Zenon DEF FreeState, Promise!Next, Promise!Alloc
<1>3. ASSUME NEW h \in Handle, Digest(h) PROVE Promise!Next
  BY <1>3, PromiseDigest DEF Promise!Next
<1>4. ASSUME NEW h \in Handle, NEW seed \in Seed, Reset(h, seed) PROVE Promise!Next
  BY <1>4, PromiseHolds DEF Reset, Promise!Reset, Promise!Next
<1>5. ASSUME NEW h \in Handle, NEW s \in Handle, CopyState(h, s) PROVE Promise!Next
  BY <1>5, PromiseHolds DEF CopyState, Live, Promise!Copy, Promise!Next
<1>6. ASSUME NEW h \in Handle, NEW len \in Segment, UpdateSmall(h, len) PROVE Promise!Next
  BY <1>6, PromiseHolds DEF UpdateSmall, Live, Longer, Promise!Update, Promise!Next
<1>7. ASSUME NEW h \in Handle, NEW len \in Segment, UpdateStripes(h, len) PROVE Promise!Next
  BY <1>7, PromiseHolds DEF UpdateStripes, Live, Longer, Promise!Update, Promise!Next
<1>8. CASE UNCHANGED vars
  BY <1>8 DEF vars, Promise!vars
<1>. QED
  BY <1>1, <1>2, <1>3, <1>4, <1>5, <1>6, <1>7, <1>8 DEF Next

\* Streaming is the hash of the whole input at once, for either byte order.
THEOREM DigestIsAlwaysOneShot == Spec => DigestIsOneShot
BY InitHolds, NextKeeps, PromiseInit, PromiseNext, PTL DEF Spec, DigestIsOneShot, Promise!Spec

-----------------------------------------------------------------------------
(* Every byte is read once *)

\* A map from the places to the bytes that is one to one counts them.
LEMMA OnceIfOneToOne ==
  ASSUME NEW lanes, NEW len \in Nat,
         \A p \in Places(lanes) : lanes[p[1]][p[2]][p[3]] \in 0 .. len - 1,
         \A i \in 0 .. len - 1 : \E p \in Places(lanes) : lanes[p[1]][p[2]][p[3]] = i,
         \A p, q \in Places(lanes) :
           lanes[p[1]][p[2]][p[3]] = lanes[q[1]][q[2]][q[3]] => p = q
  PROVE  EveryByteOnce(lanes, len)
<1>1. PICK P : P = Places(lanes)
  OBVIOUS
<1>2. PICK f : f = [p \in P |-> lanes[p[1]][p[2]][p[3]]]
  OBVIOUS
<1>3. f \in Injection(P, 0 .. len - 1) /\ f \in Surjection(P, 0 .. len - 1)
  <2>1. \A p \in P : f[p] = lanes[p[1]][p[2]][p[3]]
    BY <1>2
  <2>2. f \in [P -> 0 .. len - 1]
    BY <1>1, <1>2, Zenon
  <2>3. ASSUME NEW p \in P, NEW q \in P, f[p] = f[q] PROVE p = q
    <3>1. lanes[p[1]][p[2]][p[3]] = lanes[q[1]][q[2]][q[3]]
      BY <2>1, <2>3
    <3>. QED
      BY <1>1, <3>1
  <2>4. ASSUME NEW i \in 0 .. len - 1 PROVE \E p \in P : f[p] = i
    <3>1. PICK p \in P : lanes[p[1]][p[2]][p[3]] = i
      BY <1>1
    <3>. QED
      BY <2>1, <3>1
  <2>5. f \in Injection(P, 0 .. len - 1)
    BY <2>2, <2>3 DEF Injection, IsInjective
  <2>6. f \in Surjection(P, 0 .. len - 1)
    BY <2>2, <2>4 DEF Surjection
  <2>. QED
    BY <2>5, <2>6
<1>4. IsFiniteSet(0 .. len - 1) /\ Cardinality(0 .. len - 1) = len
  BY FS_Interval
<1>5. Cardinality(P) = len
  BY <1>3, <1>4, FS_Injection
<1>6. {lanes[p[1]][p[2]][p[3]] : p \in P} = 0 .. len - 1
  BY <1>1
<1>. QED
  BY <1>1, <1>5, <1>6 DEF EveryByteOnce

\* The words have each byte of S once, and no other.
Covers(words, S) ==
  /\ \A k \in DOMAIN words : \A i \in DOMAIN words[k] : words[k][i] \in S
  /\ \A c \in S : \E k \in DOMAIN words : \E i \in DOMAIN words[k] : words[k][i] = c
  /\ \A k, j \in DOMAIN words : \A i \in DOMAIN words[k], h \in DOMAIN words[j] :
       words[k][i] = words[j][h] => k = j /\ i = h

\* It is enough that each lane has its part of the bytes.
PartOfEach(lanes, part, len) ==
  /\ \A l \in DOMAIN lanes : Covers(lanes[l], part[l]) /\ part[l] \subseteq 0 .. len - 1
  /\ \A c \in 0 .. len - 1 : \E l \in DOMAIN lanes : c \in part[l]
  /\ \A l, m \in DOMAIN lanes : part[l] \cap part[m] # {} => l = m

LEMMA OnceIfLanesCover ==
  ASSUME NEW lanes, NEW len \in Nat, NEW part, PartOfEach(lanes, part, len)
  PROVE  EveryByteOnce(lanes, len)
<1>0. /\ \A l \in DOMAIN lanes : Covers(lanes[l], part[l]) /\ part[l] \subseteq 0 .. len - 1
      /\ \A c \in 0 .. len - 1 : \E l \in DOMAIN lanes : c \in part[l]
      /\ \A l, m \in DOMAIN lanes : part[l] \cap part[m] # {} => l = m
  BY DEF PartOfEach
<1>1. /\ \A l \in DOMAIN lanes : \A k \in DOMAIN lanes[l] : \A i \in DOMAIN lanes[l][k] :
           <<l, k, i>> \in Places(lanes)
      /\ \A p \in Places(lanes) : \E l \in DOMAIN lanes : \E k \in DOMAIN lanes[l] :
           \E i \in DOMAIN lanes[l][k] : p = <<l, k, i>>
  BY DEF Places
<1>2. ASSUME NEW p \in Places(lanes) PROVE lanes[p[1]][p[2]][p[3]] \in 0 .. len - 1
  <2>a. PICK l \in DOMAIN lanes : \E k \in DOMAIN lanes[l] : \E i \in DOMAIN lanes[l][k] : p = <<l, k, i>>
    BY <1>1
  <2>b. PICK k \in DOMAIN lanes[l] : \E i \in DOMAIN lanes[l][k] : p = <<l, k, i>>
    BY <2>a
  <2>1. PICK i \in DOMAIN lanes[l][k] : p = <<l, k, i>>
    BY <2>b
  <2>2. lanes[l][k][i] \in part[l] /\ part[l] \subseteq 0 .. len - 1
    BY <1>0 DEF Covers
  <2>. QED
    BY <2>1, <2>2
<1>3. ASSUME NEW c \in 0 .. len - 1
      PROVE  \E p \in Places(lanes) : lanes[p[1]][p[2]][p[3]] = c
  <2>1. PICK l \in DOMAIN lanes : c \in part[l]
    BY <1>0
  <2>a. PICK k \in DOMAIN lanes[l] : \E i \in DOMAIN lanes[l][k] : lanes[l][k][i] = c
    BY <1>0, <2>1 DEF Covers
  <2>2. PICK i \in DOMAIN lanes[l][k] : lanes[l][k][i] = c
    BY <2>a
  <2>3. <<l, k, i>> \in Places(lanes)
    BY <1>1
  <2>. QED
    BY <2>2, <2>3
<1>4. ASSUME NEW p \in Places(lanes), NEW q \in Places(lanes),
             lanes[p[1]][p[2]][p[3]] = lanes[q[1]][q[2]][q[3]]
      PROVE  p = q
  <2>a. PICK l \in DOMAIN lanes : \E k \in DOMAIN lanes[l] : \E i \in DOMAIN lanes[l][k] : p = <<l, k, i>>
    BY <1>1
  <2>b. PICK k \in DOMAIN lanes[l] : \E i \in DOMAIN lanes[l][k] : p = <<l, k, i>>
    BY <2>a
  <2>1. PICK i \in DOMAIN lanes[l][k] : p = <<l, k, i>>
    BY <2>b
  <2>c. PICK m \in DOMAIN lanes : \E j \in DOMAIN lanes[m] : \E h \in DOMAIN lanes[m][j] : q = <<m, j, h>>
    BY <1>1
  <2>d. PICK j \in DOMAIN lanes[m] : \E h \in DOMAIN lanes[m][j] : q = <<m, j, h>>
    BY <2>c
  <2>2. PICK h \in DOMAIN lanes[m][j] : q = <<m, j, h>>
    BY <2>d
  <2>3. lanes[l][k][i] = lanes[m][j][h]
    BY <1>4, <2>1, <2>2
  <2>4. lanes[l][k][i] \in part[l] /\ lanes[m][j][h] \in part[m]
    BY <1>0 DEF Covers
  <2>5. l = m
    BY <1>0, <2>3, <2>4
  <2>6. k = j /\ i = h
    <3>1. Covers(lanes[l], part[l])
      BY <1>0
    <3>. QED
      BY <2>3, <2>5, <3>1 DEF Covers
  <2>. QED
    BY <2>1, <2>2, <2>5, <2>6
<1>. QED
  BY <1>2, <1>3, <1>4, OnceIfOneToOne

\* No words have no bytes.
LEMMA NoWordsCover == Covers(<<>>, {})
BY DEF Covers

IsList(words, n) == words = [k \in 1 .. n |-> words[k]]

\* u is the m words of v and then the n words of w.
Joined(u, v, m, w, n) ==
  /\ IsList(u, m + n)
  /\ \A k \in 1 .. m : u[k] = v[k]
  /\ \A k \in 1 .. n : u[m + k] = w[k]

LEMMA ConcatList ==
  ASSUME NEW m \in Nat, NEW n \in Nat, NEW v, NEW w, IsList(v, m), IsList(w, n)
  PROVE  Joined(v \o w, v, m, w, n)
<1>. PICK u : u = v \o w
  OBVIOUS
<1>1. PICK W : W = {v[k] : k \in 1 .. m} \cup {w[k] : k \in 1 .. n}
  OBVIOUS
<1>2. v \in [1 .. m -> W] /\ w \in [1 .. n -> W]
  BY <1>1 DEF IsList
<1>3. u \in [1 .. m + n -> W]
  BY <1>2, ConcatIs
<1>4. \A k \in 1 .. m + n : u[k] = IF k <= m THEN v[k] ELSE w[k - m]
  BY <1>2, ConcatIs
<1>5. \A k \in 1 .. m : k \in 1 .. m + n /\ k <= m
  OBVIOUS
<1>6. \A k \in 1 .. n : m + k \in 1 .. m + n /\ ~ (m + k <= m) /\ (m + k) - m = k
  OBVIOUS
<1>7. \A k \in 1 .. m : u[k] = v[k]
  BY <1>4, <1>5
<1>8. \A k \in 1 .. n : u[m + k] = w[k]
  BY <1>4, <1>6
<1>9. Joined(u, v, m, w, n)
  BY <1>3, <1>7, <1>8 DEF IsList, Joined
<1>. QED
  BY <1>9

\* Words that have disjoint sets of bytes together have the union.
LEMMA ConcatCovers ==
  ASSUME NEW m \in Nat, NEW n \in Nat, NEW v, NEW w, IsList(v, m), IsList(w, n),
         NEW S, NEW T, S \cap T = {}, Covers(v, S), Covers(w, T)
  PROVE  Covers(v \o w, S \cup T)
<1>1. PICK u : u = v \o w
  OBVIOUS
<1>a. Joined(u, v, m, w, n)
  BY <1>1, ConcatList
<1>2. IsList(u, m + n) /\ (\A k \in 1 .. m : u[k] = v[k]) /\ (\A k \in 1 .. n : u[m + k] = w[k])
  BY <1>a DEF Joined
<1>3. DOMAIN u = 1 .. m + n /\ DOMAIN v = 1 .. m /\ DOMAIN w = 1 .. n
  BY <1>2 DEF IsList
<1>4. \A k \in 1 .. m : k \in 1 .. m + n
  OBVIOUS
<1>5. \A k \in 1 .. n : m + k \in 1 .. m + n
  OBVIOUS
<1>6. \A k \in 1 .. m + n : k \in 1 .. m \/ \E j \in 1 .. n : k = m + j
  <2>1. ASSUME NEW k \in 1 .. m + n, k \notin 1 .. m PROVE k - m \in 1 .. n /\ k = m + (k - m)
    BY <2>1
  <2>. QED
    BY <2>1
\* Each word of u is one of v or w.
<1>7. ASSUME NEW k \in DOMAIN u
      PROVE  \/ k \in DOMAIN v /\ u[k] = v[k]
             \/ \E j \in DOMAIN w : k = m + j /\ u[k] = w[j]
  <2>1. k \in 1 .. m + n
    BY <1>3
  <2>2. CASE k \in 1 .. m
    BY <1>2, <1>3, <2>2
  <2>3. CASE \E j \in 1 .. n : k = m + j
    <3>1. PICK j \in 1 .. n : k = m + j
      BY <2>3
    <3>2. u[k] = w[j]
      BY <1>2, <3>1, Zenon
    <3>. QED
      BY <1>3, <3>1, <3>2
  <2>. QED
    BY <1>6, <2>1, <2>2, <2>3
<1>8. ASSUME NEW k \in DOMAIN u, NEW i \in DOMAIN u[k] PROVE u[k][i] \in S \cup T
  BY <1>7 DEF Covers
<1>9. ASSUME NEW c \in S \cup T
      PROVE  \E k \in DOMAIN u : \E i \in DOMAIN u[k] : u[k][i] = c
  <2>1. CASE c \in S
    <3>1. PICK k \in DOMAIN v : \E i \in DOMAIN v[k] : v[k][i] = c
      BY <2>1 DEF Covers
    <3>2. k \in DOMAIN u /\ u[k] = v[k]
      BY <1>2, <1>3, <1>4
    <3>. QED
      BY <3>1, <3>2
  <2>2. CASE c \in T
    <3>1. PICK k \in DOMAIN w : \E i \in DOMAIN w[k] : w[k][i] = c
      BY <2>2 DEF Covers
    <3>2. m + k \in DOMAIN u /\ u[m + k] = w[k]
      BY <1>2, <1>3, <1>5
    <3>. QED
      BY <3>1, <3>2
  <2>. QED
    BY <2>1, <2>2
<1>10. ASSUME NEW k \in DOMAIN u, NEW j \in DOMAIN u, NEW i \in DOMAIN u[k], NEW h \in DOMAIN u[j],
              u[k][i] = u[j][h]
       PROVE  k = j /\ i = h
  <2>1. CASE k \in DOMAIN v /\ u[k] = v[k] /\ j \in DOMAIN v /\ u[j] = v[j]
    BY <1>10, <2>1 DEF Covers
  <2>2. CASE k \in DOMAIN v /\ u[k] = v[k] /\ \E e \in DOMAIN w : j = m + e /\ u[j] = w[e]
    BY <1>10, <2>2 DEF Covers
  <2>3. CASE (\E d \in DOMAIN w : k = m + d /\ u[k] = w[d]) /\ j \in DOMAIN v /\ u[j] = v[j]
    BY <1>10, <2>3 DEF Covers
  <2>4. CASE (\E d \in DOMAIN w : k = m + d /\ u[k] = w[d]) /\ (\E e \in DOMAIN w : j = m + e /\ u[j] = w[e])
    BY <1>10, <2>4 DEF Covers
  <2>. QED
    BY <1>7, <2>1, <2>2, <2>3, <2>4
<1>11. Covers(u, S \cup T)
  BY <1>8, <1>9, <1>10, Zenon DEF Covers
<1>. QED
  BY <1>1, <1>11

\* The words u[k], for k of K, have bytes for each of D: byte i of word k is
\* at[k][rev[i]], where rev is the order of the bytes.
OneToOne(at, K, D, S) ==
  /\ \A k \in K : \A i \in D : at[k][i] \in S
  /\ \A c \in S : \E k \in K : \E i \in D : at[k][i] = c
  /\ \A k, j \in K : \A i, h \in D : at[k][i] = at[j][h] => k = j /\ i = h

ReadIn(u, at, rev, K, D) ==
  /\ DOMAIN u = K
  /\ \A i \in D : rev[i] \in D /\ rev[rev[i]] = i
  /\ \A k \in K : DOMAIN u[k] = D /\ \A i \in D : u[k][i] = at[k][rev[i]]

LEMMA ListCovers ==
  ASSUME NEW K, NEW D, NEW u, NEW S, NEW at, NEW rev, ReadIn(u, at, rev, K, D), OneToOne(at, K, D, S)
  PROVE  Covers(u, S)
<1>1. /\ DOMAIN u = K
      /\ \A i \in D : rev[i] \in D /\ rev[rev[i]] = i
      /\ \A k \in K : DOMAIN u[k] = D /\ \A i \in D : u[k][i] = at[k][rev[i]]
  BY DEF ReadIn
<1>2. ASSUME NEW k \in DOMAIN u, NEW i \in DOMAIN u[k] PROVE u[k][i] \in S
  BY <1>1 DEF OneToOne
<1>3. ASSUME NEW c \in S PROVE \E k \in DOMAIN u : \E i \in DOMAIN u[k] : u[k][i] = c
  <2>1. PICK k \in K, i \in D : at[k][i] = c
    BY DEF OneToOne
  <2>2. u[k][rev[i]] = c /\ rev[i] \in DOMAIN u[k]
    BY <1>1, <2>1
  <2>. QED
    BY <1>1, <2>2
<1>4. ASSUME NEW k \in DOMAIN u, NEW j \in DOMAIN u, NEW i \in DOMAIN u[k], NEW h \in DOMAIN u[j],
             u[k][i] = u[j][h]
      PROVE  k = j /\ i = h
  <2>1. i \in D /\ h \in D /\ k \in K /\ j \in K /\ rev[i] \in D /\ rev[h] \in D
    BY <1>1
  <2>2. at[k][rev[i]] = at[j][rev[h]]
    BY <1>1, <1>4, <2>1
  <2>3. k = j /\ rev[i] = rev[h]
    BY <2>1, <2>2 DEF OneToOne
  <2>4. rev[rev[i]] = i /\ rev[rev[h]] = h
    BY <1>1, <2>1
  <2>. QED
    BY <2>3, <2>4
<1>. QED
  BY <1>2, <1>3, <1>4, Zenon DEF Covers

\* The words have the bytes in order, or from the last to the first.
InOrder(u, at, K, len) ==
  /\ DOMAIN u = K
  /\ \A k \in K : DOMAIN u[k] = 0 .. len - 1 /\ \A i \in 0 .. len - 1 : u[k][i] = at[k][i]

Reversed(u, at, K, len) ==
  /\ DOMAIN u = K
  /\ \A k \in K : DOMAIN u[k] = 0 .. len - 1 /\ \A i \in 0 .. len - 1 : u[k][i] = at[k][len - 1 - i]

LEMMA BothOrders ==
  ASSUME NEW u, NEW at, NEW K, NEW len \in Nat, InOrder(u, at, K, len) \/ Reversed(u, at, K, len)
  PROVE  \E rev : ReadIn(u, at, rev, K, 0 .. len - 1)
<1>1. CASE InOrder(u, at, K, len)
  <2>1. PICK r : r = [i \in 0 .. len - 1 |-> i]
    OBVIOUS
  <2>2. \A i \in 0 .. len - 1 : r[i] = i
    BY <2>1
  <2>3. ASSUME NEW k \in K PROVE DOMAIN u[k] = 0 .. len - 1 /\ \A i \in 0 .. len - 1 : u[k][i] = at[k][r[i]]
    BY <1>1, <2>2 DEF InOrder
  <2>. QED
    BY <1>1, <2>2, <2>3 DEF ReadIn, InOrder
<1>2. CASE Reversed(u, at, K, len)
  <2>1. PICK r : r = [i \in 0 .. len - 1 |-> len - 1 - i]
    OBVIOUS
  <2>2. \A i \in 0 .. len - 1 : r[i] = len - 1 - i
    BY <2>1
  <2>3. ASSUME NEW k \in K PROVE DOMAIN u[k] = 0 .. len - 1 /\ \A i \in 0 .. len - 1 : u[k][i] = at[k][r[i]]
    BY <1>2, <2>2 DEF Reversed
  <2>4. ASSUME NEW i \in 0 .. len - 1 PROVE r[i] \in 0 .. len - 1 /\ r[r[i]] = i
    BY <2>2
  <2>5. ReadIn(u, at, r, K, 0 .. len - 1)
    BY <1>2, <2>3, <2>4 DEF ReadIn, Reversed
  <2>. QED
    BY <2>5
<1>. QED
  BY <1>1, <1>2

\* The bytes below upTo that the lane of the given number takes.
Part(stripe, len, l, upTo) == {c \in 0 .. upTo - 1 : (c % stripe) \div len = l - 1}

\* The byte r of the stripe after q.
Place(stripe, q, r) == stripe * q + r

\* Arithmetic of stripes, with literals: the solver divides by no variable.
LEMMA OffsetOfPlace ==
  ASSUME NEW q \in Nat, NEW stripe \in {1, 4, 8, 16, 32}, NEW r \in 0 .. stripe - 1
  PROVE  Place(stripe, q, r) % stripe = r
<1>1. CASE stripe = 1
  BY <1>1 DEF Place
<1>2. CASE stripe = 4
  BY <1>2 DEF Place
<1>3. CASE stripe = 8
  BY <1>3 DEF Place
<1>4. CASE stripe = 16
  BY <1>4 DEF Place
<1>5. CASE stripe = 32
  BY <1>5 DEF Place
<1>. QED
  BY <1>1, <1>2, <1>3, <1>4, <1>5

LEMMA PlaceInStripe ==
  ASSUME NEW n \in Nat, NEW q \in Nat, q <= n - 1, NEW stripe \in {1, 4, 8, 16, 32}, NEW r \in 0 .. stripe - 1
  PROVE  Place(stripe, q, r) \in 0 .. stripe * n - 1
<1>1. CASE stripe = 1
  BY <1>1 DEF Place
<1>2. CASE stripe = 4
  BY <1>2 DEF Place
<1>3. CASE stripe = 8
  BY <1>3 DEF Place
<1>4. CASE stripe = 16
  BY <1>4 DEF Place
<1>5. CASE stripe = 32
  BY <1>5 DEF Place
<1>. QED
  BY <1>1, <1>2, <1>3, <1>4, <1>5

LEMMA PlaceOfByte ==
  ASSUME NEW n \in Nat, NEW stripe \in {1, 4, 8, 16, 32}, NEW c \in 0 .. stripe * n - 1
  PROVE  \E q \in Nat : \E r \in 0 .. stripe - 1 :
           q <= n - 1 /\ r = c % stripe /\ c = Place(stripe, q, r)
<1>1. /\ c \div stripe \in Nat /\ c \div stripe <= n - 1 /\ c % stripe \in 0 .. stripe - 1
      /\ c = Place(stripe, c \div stripe, c % stripe)
  <2>1. CASE stripe = 1
    BY <2>1 DEF Place
  <2>2. CASE stripe = 4
    BY <2>2 DEF Place
  <2>3. CASE stripe = 8
    BY <2>3 DEF Place
  <2>4. CASE stripe = 16
    BY <2>4 DEF Place
  <2>5. CASE stripe = 32
    BY <2>5 DEF Place
  <2>. QED
    BY <2>1, <2>2, <2>3, <2>4, <2>5
<1>. QED
  BY <1>1

LEMMA PlacesDiffer ==
  ASSUME NEW stripe \in {1, 4, 8, 16, 32}, NEW x \in Int, NEW y \in Int, NEW r \in Int, NEW s \in Int,
         Place(stripe, x, r) = Place(stripe, y, s), r - s < stripe, s - r < stripe
  PROVE  x = y /\ r = s
<1>1. CASE stripe = 1
  BY <1>1 DEF Place
<1>2. CASE stripe = 4
  BY <1>2 DEF Place
<1>3. CASE stripe = 8
  BY <1>3 DEF Place
<1>4. CASE stripe = 16
  BY <1>4 DEF Place
<1>5. CASE stripe = 32
  BY <1>5 DEF Place
<1>. QED
  BY <1>1, <1>2, <1>3, <1>4, <1>5

\* The functions' stripes or blocks, and words.
Sizes == {<<4, 4>>, <<16, 4>>, <<16, 8>>, <<32, 8>>}

\* Where the word of a lane is in a stripe.
LEMMA WordInStripe ==
  ASSUME NEW stripe, NEW len, NEW l \in Nat \ {0}, <<stripe, len>> \in Sizes, l * len <= stripe
  PROVE  /\ stripe \in {4, 16, 32} /\ len \in {4, 8} /\ len <= stripe
         /\ \A i \in 0 .. len - 1 : /\ len * (l - 1) + i \in 0 .. stripe - 1
                                    /\ (len * (l - 1) + i) \div len = l - 1
         /\ \A r \in 0 .. stripe - 1 : r \div len = l - 1 =>
              \E i \in 0 .. len - 1 : r = len * (l - 1) + i
<1>0. (stripe = 4 /\ len = 4) \/ (stripe = 16 /\ len = 4) \/ (stripe = 16 /\ len = 8) \/ (stripe = 32 /\ len = 8)
  BY DEF Sizes
<1>1. ASSUME NEW i \in 0 .. len - 1
      PROVE  len * (l - 1) + i \in 0 .. stripe - 1 /\ (len * (l - 1) + i) \div len = l - 1
  <2>1. CASE len = 4
    BY <1>0, <2>1
  <2>2. CASE len = 8
    BY <1>0, <2>2
  <2>. QED
    BY <1>0, <2>1, <2>2
<1>2. ASSUME NEW r \in 0 .. stripe - 1, r \div len = l - 1
      PROVE  r % len \in 0 .. len - 1 /\ r = len * (l - 1) + (r % len)
  <2>1. CASE len = 4
    BY <1>0, <1>2, <2>1
  <2>2. CASE len = 8
    BY <1>0, <1>2, <2>2
  <2>. QED
    BY <1>0, <2>1, <2>2
<1>. QED
  BY <1>0, <1>1, <1>2

\* The words that a lane takes of n stripes have the bytes of its part once.
LEMMA StripesOneToOne ==
  ASSUME NEW n \in Nat, NEW stripe, NEW len, NEW l \in Nat \ {0}, NEW at,
         <<stripe, len>> \in Sizes, l * len <= stripe,
         \A k \in 1 .. n : \A i \in 0 .. len - 1 : at[k][i] = stripe * (k - 1) + len * (l - 1) + i
  PROVE  OneToOne(at, 1 .. n, 0 .. len - 1, Part(stripe, len, l, stripe * n))
<1>1. PICK w : w = len * (l - 1)
  OBVIOUS
<1>2. stripe \in {4, 16, 32} /\ len \in {4, 8} /\ len <= stripe /\ w \in Int
  BY <1>1, WordInStripe
<1>3. ASSUME NEW k \in 1 .. n, NEW i \in 0 .. len - 1
      PROVE  \E q \in Nat : \E r \in 0 .. stripe - 1 :
               q = k - 1 /\ q <= n - 1 /\ r = w + i /\ r \div len = l - 1 /\ at[k][i] = Place(stripe, q, r)
  <2>1. PICK q \in Nat : q = k - 1 /\ q <= n - 1
    OBVIOUS
  <2>2. PICK r \in 0 .. stripe - 1 : r = w + i /\ r \div len = l - 1
    BY <1>1, WordInStripe
  <2>3. at[k][i] = stripe * q + w + i
    BY <1>1, <2>1
  <2>4. stripe * q + w + i = Place(stripe, q, r)
    BY <1>2, <2>1, <2>2 DEF Place
  <2>. QED
    BY <2>1, <2>2, <2>3, <2>4
<1>4. ASSUME NEW k \in 1 .. n, NEW i \in 0 .. len - 1 PROVE at[k][i] \in Part(stripe, len, l, stripe * n)
  <2>1. PICK q \in Nat, r \in 0 .. stripe - 1 :
          q <= n - 1 /\ r \div len = l - 1 /\ at[k][i] = Place(stripe, q, r)
    BY <1>3
  <2>2. Place(stripe, q, r) \in 0 .. stripe * n - 1 /\ Place(stripe, q, r) % stripe = r
    <3>1. PICK c : c = Place(stripe, q, r)
      OBVIOUS
    <3>2. c \in 0 .. stripe * n - 1
      BY <1>2, <2>1, <3>1, PlaceInStripe, Zenon
    <3>3. c % stripe = r
      BY <1>2, <3>1, OffsetOfPlace
    <3>. QED
      BY <3>1, <3>2, <3>3
  <2>. QED
    BY <2>1, <2>2 DEF Part
<1>5. ASSUME NEW c \in Part(stripe, len, l, stripe * n)
      PROVE  \E k \in 1 .. n : \E i \in 0 .. len - 1 : at[k][i] = c
  <2>1. c \in 0 .. stripe * n - 1 /\ (c % stripe) \div len = l - 1
    BY DEF Part
  <2>2. PICK q \in Nat, r \in 0 .. stripe - 1 : q <= n - 1 /\ r = c % stripe /\ c = Place(stripe, q, r)
    <3>1. stripe \in {1, 4, 8, 16, 32}
      BY <1>2
    <3>. QED
      BY <2>1, <3>1, PlaceOfByte, Zenon
  <2>3. PICK i \in 0 .. len - 1 : r = w + i
    BY <1>1, <2>1, <2>2, WordInStripe
  <2>4. PICK k \in 1 .. n : q = k - 1
    <3>1. q + 1 \in 1 .. n /\ q = (q + 1) - 1
      BY <2>2
    <3>. QED
      BY <3>1
  <2>5. PICK p \in Nat, s \in 0 .. stripe - 1 : p = k - 1 /\ s = w + i /\ at[k][i] = Place(stripe, p, s)
    BY <1>3
  <2>6. at[k][i] = c
    BY <2>2, <2>3, <2>4, <2>5
  <2>. QED
    BY <2>6
<1>6. ASSUME NEW k \in 1 .. n, NEW j \in 1 .. n, NEW i \in 0 .. len - 1, NEW h \in 0 .. len - 1,
             at[k][i] = at[j][h]
      PROVE  k = j /\ i = h
  <2>1. PICK q \in Nat, r \in 0 .. stripe - 1 : q = k - 1 /\ r = w + i /\ at[k][i] = Place(stripe, q, r)
    BY <1>3
  <2>2. PICK p \in Nat, s \in 0 .. stripe - 1 : p = j - 1 /\ s = w + h /\ at[j][h] = Place(stripe, p, s)
    BY <1>3
  <2>3. Place(stripe, q, r) = Place(stripe, p, s)
    BY <1>6, <2>1, <2>2
  <2>4. r - s < stripe /\ s - r < stripe
    BY <1>2
  <2>5. q = p /\ r = s
    <3>1. q \in Int /\ p \in Int /\ r \in Int /\ s \in Int
      BY <1>2
    <3>. QED
      BY <1>2, <2>3, <2>4, <3>1, PlacesDiffer
  <2>. QED
    <3>1. k - 1 = j - 1
      BY <2>1, <2>2, <2>5
    <3>2. w + i = w + h
      BY <2>1, <2>2, <2>5
    <3>3. i \in Int /\ h \in Int /\ w \in Int
      BY <1>2
    <3>. QED
      BY <3>1, <3>2, <3>3
<1>. QED
  BY <1>4, <1>5, <1>6, Zenon DEF OneToOne

\* Words that follow each other have the bytes of a range once.
LEMMA RangeOneToOne ==
  ASSUME NEW n \in Nat, NEW c \in Nat, NEW len \in {1, 4, 8}, NEW at,
         \A k \in 1 .. n : \A i \in 0 .. len - 1 : at[k][i] = c + Place(len, k - 1, i)
  PROVE  OneToOne(at, 1 .. n, 0 .. len - 1, c .. c + len * n - 1)
<1>1. ASSUME NEW k \in 1 .. n, NEW i \in 0 .. len - 1
      PROVE  \E q \in Nat : q = k - 1 /\ q <= n - 1 /\ Place(len, q, i) \in 0 .. len * n - 1
                            /\ at[k][i] = c + Place(len, q, i)
  <2>1. PICK q \in Nat : q = k - 1 /\ q <= n - 1
    OBVIOUS
  <2>2. Place(len, q, i) \in 0 .. len * n - 1
    BY <2>1, PlaceInStripe
  <2>. QED
    BY <2>1, <2>2
<1>2. ASSUME NEW k \in 1 .. n, NEW i \in 0 .. len - 1 PROVE at[k][i] \in c .. c + len * n - 1
  <2>1. PICK e \in 0 .. len * n - 1 : at[k][i] = c + e
    BY <1>1
  <2>2. PICK m \in Int : m = len * n
    OBVIOUS
  <2>. QED
    BY <2>1, <2>2
<1>3. ASSUME NEW e \in c .. c + len * n - 1
      PROVE  \E k \in 1 .. n : \E i \in 0 .. len - 1 : at[k][i] = e
  <2>1. PICK m \in Int : m = len * n
    OBVIOUS
  <2>2. PICK d \in 0 .. m - 1 : e = c + d
    <3>1. e - c \in 0 .. m - 1 /\ e = c + (e - c)
      BY <2>1
    <3>. QED
      BY <3>1
  <2>3. PICK q \in Nat, i \in 0 .. len - 1 : q <= n - 1 /\ d = Place(len, q, i)
    <3>1. len \in {1, 4, 8, 16, 32}
      OBVIOUS
    <3>2. d \in 0 .. len * n - 1
      BY <2>1
    <3>. QED
      BY <3>1, <3>2, PlaceOfByte, Zenon
  <2>4. PICK k \in 1 .. n : q = k - 1
    <3>1. q + 1 \in 1 .. n /\ q = (q + 1) - 1
      BY <2>3
    <3>. QED
      BY <3>1
  <2>5. at[k][i] = e
    BY <1>1, <2>2, <2>3, <2>4
  <2>. QED
    BY <2>5
<1>4. ASSUME NEW k \in 1 .. n, NEW j \in 1 .. n, NEW i \in 0 .. len - 1, NEW h \in 0 .. len - 1,
             at[k][i] = at[j][h]
      PROVE  k = j /\ i = h
  <2>1. PICK q \in Nat, a \in Nat : q = k - 1 /\ a = Place(len, q, i) /\ at[k][i] = c + a
    BY <1>1
  <2>2. PICK p \in Nat, b \in Nat : p = j - 1 /\ b = Place(len, p, h) /\ at[j][h] = c + b
    BY <1>1
  <2>3. Place(len, q, i) = Place(len, p, h)
    <3>1. c + a = c + b
      BY <1>4, <2>1, <2>2
    <3>2. a = b
      BY <3>1
    <3>. QED
      BY <2>1, <2>2, <3>2
  <2>4. i - h < len /\ h - i < len
    OBVIOUS
  <2>5. q = p /\ i = h
    BY <2>3, <2>4, PlacesDiffer
  <2>. QED
    BY <2>1, <2>2, <2>5
<1>. QED
  BY <1>2, <1>3, <1>4, Zenon DEF OneToOne

LEMMA RangeCovers ==
  ASSUME NEW n \in Nat, NEW c \in Nat, NEW len \in {1, 4, 8}, NEW u,
         u = [k \in 1 .. n |-> WordAt(Input, c + len * (k - 1), len)]
  PROVE  Covers(u, c .. c + len * n - 1)
<1>1. PICK at : at = [k \in 1 .. n |-> [i \in 0 .. len - 1 |-> c + Place(len, k - 1, i)]]
  OBVIOUS
<1>2. \A k \in 1 .. n : \A i \in 0 .. len - 1 : at[k][i] = c + Place(len, k - 1, i)
  BY <1>1
<1>3. OneToOne(at, 1 .. n, 0 .. len - 1, c .. c + len * n - 1)
  BY <1>2, RangeOneToOne
<1>4. ASSUME NEW k \in 1 .. n
      PROVE  DOMAIN u[k] = 0 .. len - 1 /\ \A i \in 0 .. len - 1 : u[k][i] = at[k][i]
  <2>1. PICK w \in Nat : w = len * (k - 1)
    OBVIOUS
  <2>2. u[k] = WordAt(Input, c + w, len)
    BY <2>1
  <2>3. \A i \in 0 .. len - 1 : (c + w) + i \in Nat /\ (c + w) + i = c + (w + i)
    OBVIOUS
  <2>4. \A i \in 0 .. len - 1 : Input[(c + w) + i] = c + (w + i)
    BY <2>3 DEF Input
  <2>5. \A i \in 0 .. len - 1 : at[k][i] = c + (w + i)
    BY <1>2, <2>1 DEF Place
  <2>6. DOMAIN u[k] = 0 .. len - 1 /\ \A i \in 0 .. len - 1 : u[k][i] = Input[(c + w) + i]
    BY <2>2 DEF WordAt
  <2>. QED
    BY <2>4, <2>5, <2>6, Zenon
<1>5. InOrder(u, at, 1 .. n, len)
  BY <1>4 DEF InOrder
<1>6. PICK rev : ReadIn(u, at, rev, 1 .. n, 0 .. len - 1)
  BY <1>5, BothOrders
<1>. QED
  BY <1>3, <1>6, ListCovers

\* The same of the words themselves, in either byte order.
LEMMA StripesCover ==
  ASSUME NEW n \in Nat, NEW stripe, NEW len, NEW l \in Nat \ {0}, NEW u,
         <<stripe, len>> \in Sizes, l * len <= stripe,
         DOMAIN u = 1 .. n,
         \/ \A k \in 1 .. n : u[k] = WordAt(Input, stripe * (k - 1) + len * (l - 1), len)
         \/ \A k \in 1 .. n : u[k] = [i \in 0 .. len - 1 |->
                                        Input[stripe * (k - 1) + len * (l - 1) + (len - 1 - i)]]
  PROVE  Covers(u, Part(stripe, len, l, stripe * n))
<1>1. PICK at : at = [k \in 1 .. n |-> [i \in 0 .. len - 1 |-> stripe * (k - 1) + len * (l - 1) + i]]
  OBVIOUS
<1>2. \A k \in 1 .. n : \A i \in 0 .. len - 1 : at[k][i] = stripe * (k - 1) + len * (l - 1) + i
  BY <1>1
<1>3. OneToOne(at, 1 .. n, 0 .. len - 1, Part(stripe, len, l, stripe * n))
  BY <1>2, StripesOneToOne
<1>4. stripe \in {4, 16, 32} /\ len \in {4, 8}
  BY WordInStripe
<1>5. ASSUME NEW k \in 1 .. n, NEW i \in 0 .. len - 1
      PROVE  Input[stripe * (k - 1) + len * (l - 1) + i] = at[k][i]
  <2>1. PICK w \in Nat : w = stripe * (k - 1) + len * (l - 1)
    <3>1. stripe * (k - 1) \in Nat /\ len * (l - 1) \in Nat
      BY <1>4
    <3>. QED
      BY <3>1
  <2>2. Input[w + i] = w + i
    BY DEF Input
  <2>. QED
    BY <1>2, <2>1, <2>2
<1>6. CASE \A k \in 1 .. n : u[k] = WordAt(Input, stripe * (k - 1) + len * (l - 1), len)
  <2>1. ASSUME NEW k \in 1 .. n
        PROVE  DOMAIN u[k] = 0 .. len - 1 /\ \A i \in 0 .. len - 1 : u[k][i] = at[k][i]
    BY <1>5, <1>6 DEF WordAt
  <2>a. InOrder(u, at, 1 .. n, len)
    BY <2>1 DEF InOrder
  <2>2. PICK rev : ReadIn(u, at, rev, 1 .. n, 0 .. len - 1)
    BY <1>4, <2>a, BothOrders
  <2>. QED
    BY <1>3, <2>2, ListCovers
<1>7. CASE \A k \in 1 .. n : u[k] = [i \in 0 .. len - 1 |->
                                        Input[stripe * (k - 1) + len * (l - 1) + (len - 1 - i)]]
  <2>1. ASSUME NEW k \in 1 .. n
        PROVE  DOMAIN u[k] = 0 .. len - 1 /\ \A i \in 0 .. len - 1 : u[k][i] = at[k][len - 1 - i]
    <3>1. \A i \in 0 .. len - 1 : len - 1 - i \in 0 .. len - 1
      BY <1>4
    <3>2. \A i \in 0 .. len - 1 :
            Input[stripe * (k - 1) + len * (l - 1) + (len - 1 - i)] = at[k][len - 1 - i]
      BY <1>5, <3>1
    <3>. QED
      BY <1>7, <3>2
  <2>a. Reversed(u, at, 1 .. n, len)
    BY <2>1 DEF Reversed
  <2>2. PICK rev : ReadIn(u, at, rev, 1 .. n, 0 .. len - 1)
    BY <1>4, <2>a, BothOrders
  <2>. QED
    BY <1>3, <2>2, ListCovers
<1>. QED
  BY <1>6, <1>7

-----------------------------------------------------------------------------
(* XXH32 and XXH64 *)

\* What is left after the stripes.
LEMMA RestCovers ==
  ASSUME NEW t \in Target, NEW c \in Nat, NEW n \in Nat
  PROVE  /\ Covers(Rest32(t, Input, c, n), c .. c + n - 1)
         /\ Covers(Rest64(t, Input, c, n), c .. c + n - 1)
<1>1. /\ n \div 4 \in Nat /\ n % 4 \in 0 .. 3 /\ n = 4 * (n \div 4) + (n % 4)
      /\ n \div 8 \in Nat /\ n % 8 \in 0 .. 7 /\ n = 8 * (n \div 8) + (n % 8)
      /\ (n % 8) \div 4 \in 0 .. 1 /\ n % 8 = 4 * ((n % 8) \div 4) + (n % 4)
  OBVIOUS
<1>2. \A p \in Nat : Byte(Input, p) = WordAt(Input, p, 1)
  BY DEF Byte, WordAt
<1>3. \A p \in Int, len \in Nat : ReadLE(t, Input, p, len) = WordAt(Input, p, len)
  BY ReadLEValue
<1>4. Covers(Rest32(t, Input, c, n), c .. c + n - 1)
  <2>1. PICK a \in Nat, b \in Nat, d \in Nat :
          a = n \div 4 /\ b = n % 4 /\ d = c + 4 * a /\ d + b = c + n
    BY <1>1
  <2>2. PICK u : u = [k \in 1 .. a |-> WordAt(Input, c + 4 * (k - 1), 4)]
    OBVIOUS
  <2>3. PICK v : v = [k \in 1 .. b |-> WordAt(Input, d + 1 * (k - 1), 1)]
    OBVIOUS
  <2>4. IsList(u, a) /\ IsList(v, b)
    BY <2>2, <2>3 DEF IsList
  <2>5. Covers(u, c .. d - 1)
    BY <2>1, <2>2, RangeCovers
  <2>6. Covers(v, d .. c + n - 1)
    <3>1. Covers(v, d .. d + 1 * b - 1)
      BY <2>1, <2>3, RangeCovers
    <3>2. d + 1 * b = c + n
      BY <2>1
    <3>. QED
      BY <3>1, <3>2
  <2>7. Covers(u \o v, (c .. d - 1) \cup (d .. c + n - 1))
    <3>1. (c .. d - 1) \cap (d .. c + n - 1) = {}
      OBVIOUS
    <3>. QED
      BY <2>4, <2>5, <2>6, <3>1, ConcatCovers
  <2>8. (c .. d - 1) \cup (d .. c + n - 1) = c .. c + n - 1
    BY <2>1
  <2>9. [k \in 1 .. n \div 4 |-> ReadLE(t, Input, c + 4 * (k - 1), 4)] = u
    BY <1>3, <2>1, <2>2
  <2>10. [k \in 1 .. n % 4 |-> Byte(Input, c + n - (n % 4) + k - 1)] = v
    <3>1. ASSUME NEW k \in 1 .. b PROVE Byte(Input, c + n - (n % 4) + k - 1) = WordAt(Input, d + 1 * (k - 1), 1)
      <4>1. c + n - (n % 4) + k - 1 = d + 1 * (k - 1) /\ d + 1 * (k - 1) \in Nat
        BY <2>1
      <4>. QED
        BY <1>2, <4>1
    <3>. QED
      BY <2>1, <2>3, <3>1
  <2>. QED
    BY <2>7, <2>8, <2>9, <2>10 DEF Rest32
<1>5. Covers(Rest64(t, Input, c, n), c .. c + n - 1)
  <2>1. PICK a \in Nat, x \in Nat, b \in Nat, d \in Nat, e \in Nat :
          /\ a = n \div 8 /\ x = (n % 8) \div 4 /\ x <= 1 /\ b = n % 4
          /\ d = c + 8 * a /\ e = d + 4 * x /\ e + b = c + n /\ c + n - (n % 8) = d
    BY <1>1
  <2>2. PICK u : u = [k \in 1 .. a |-> WordAt(Input, c + 8 * (k - 1), 8)]
    OBVIOUS
  <2>3. PICK w : w = [k \in 1 .. x |-> WordAt(Input, d + 4 * (k - 1), 4)]
    OBVIOUS
  <2>4. PICK v : v = [k \in 1 .. b |-> WordAt(Input, e + 1 * (k - 1), 1)]
    OBVIOUS
  <2>5. IsList(u, a) /\ IsList(w, x) /\ IsList(v, b)
    BY <2>2, <2>3, <2>4 DEF IsList
  <2>6. Covers(u, c .. d - 1)
    BY <2>1, <2>2, RangeCovers
  <2>7. Covers(w, d .. e - 1)
    BY <2>1, <2>3, RangeCovers
  <2>8. Covers(v, e .. c + n - 1)
    <3>1. Covers(v, e .. e + 1 * b - 1)
      BY <2>1, <2>4, RangeCovers
    <3>2. e + 1 * b = c + n
      BY <2>1
    <3>. QED
      BY <3>1, <3>2
  <2>9. PICK uw : uw = u \o w
    OBVIOUS
  <2>10. Covers(uw, c .. e - 1) /\ IsList(uw, a + x)
    <3>1. (c .. d - 1) \cap (d .. e - 1) = {} /\ (c .. d - 1) \cup (d .. e - 1) = c .. e - 1
      BY <2>1
    <3>2. Covers(u \o w, (c .. d - 1) \cup (d .. e - 1))
      BY <2>5, <2>6, <2>7, <3>1, ConcatCovers
    <3>3. Joined(u \o w, u, a, w, x)
      BY <2>5, ConcatList
    <3>. QED
      BY <2>9, <3>1, <3>2, <3>3 DEF Joined
  <2>11. Covers(uw \o v, c .. c + n - 1)
    <3>1. /\ (c .. e - 1) \cap (e .. c + n - 1) = {}
          /\ (c .. e - 1) \cup (e .. c + n - 1) = c .. c + n - 1
      BY <2>1
    <3>2. a + x \in Nat
      OBVIOUS
    <3>3. Covers(uw \o v, (c .. e - 1) \cup (e .. c + n - 1))
      BY <2>5, <2>8, <2>10, <3>1, <3>2, ConcatCovers
    <3>. QED
      BY <3>1, <3>3
  <2>12. [k \in 1 .. n \div 8 |-> ReadLE(t, Input, c + 8 * (k - 1), 8)] = u
    BY <1>3, <2>1, <2>2
  <2>13. [k \in 1 .. (n % 8) \div 4 |-> ReadLE(t, Input, c + n - (n % 8), 4)] = w
    <3>1. ASSUME NEW k \in 1 .. x
          PROVE  ReadLE(t, Input, c + n - (n % 8), 4) = WordAt(Input, d + 4 * (k - 1), 4)
      <4>1. c + n - (n % 8) = d + 4 * (k - 1) /\ d + 4 * (k - 1) \in Int
        BY <2>1
      <4>. QED
        BY <1>3, <4>1
    <3>. QED
      BY <2>1, <2>3, <3>1
  <2>14. [k \in 1 .. n % 4 |-> Byte(Input, c + n - (n % 4) + k - 1)] = v
    <3>1. ASSUME NEW k \in 1 .. b PROVE Byte(Input, c + n - (n % 4) + k - 1) = WordAt(Input, e + 1 * (k - 1), 1)
      <4>1. c + n - (n % 4) + k - 1 = e + 1 * (k - 1) /\ e + 1 * (k - 1) \in Nat
        BY <2>1
      <4>. QED
        BY <1>2, <4>1
    <3>. QED
      BY <2>1, <2>4, <3>1
  <2>. QED
    BY <2>9, <2>11, <2>12, <2>13, <2>14 DEF Rest64
<1>. QED
  BY <1>4, <1>5

\* The lanes and then the rest.
LEMMA LanesAndRest ==
  ASSUME NEW m \in Nat, NEW v, IsList(v, m), NEW rest, NEW part, NEW cut \in Nat, NEW len \in Nat, cut <= len,
         PartOfEach(v, part, cut), Covers(rest, cut .. len - 1)
  PROVE  EveryByteOnce(v \o <<rest>>, len)
<1>1. PICK w : w = <<rest>>
  OBVIOUS
<1>2. IsList(w, 1) /\ w[1] = rest
  BY <1>1 DEF IsList
<1>3. PICK u : u = v \o w
  OBVIOUS
<1>4. Joined(u, v, m, w, 1)
  BY <1>2, <1>3, ConcatList
<1>5. DOMAIN u = 1 .. m + 1 /\ DOMAIN v = 1 .. m /\ (\A l \in 1 .. m : u[l] = v[l]) /\ u[m + 1] = rest
  <2>1. DOMAIN u = 1 .. m + 1 /\ DOMAIN v = 1 .. m
    BY <1>4 DEF Joined, IsList
  <2>2. (\A l \in 1 .. m : u[l] = v[l]) /\ (\A l \in 1 .. 1 : u[m + l] = w[l])
    BY <1>4 DEF Joined
  <2>3. u[m + 1] = w[1]
    BY <2>2
  <2>. QED
    BY <1>2, <2>1, <2>2, <2>3
<1>6. PICK parts : parts = [l \in 1 .. m + 1 |-> IF l <= m THEN part[l] ELSE cut .. len - 1]
  OBVIOUS
<1>7. (\A l \in 1 .. m : parts[l] = part[l]) /\ parts[m + 1] = cut .. len - 1
  BY <1>6
<1>8. /\ \A l \in 1 .. m : Covers(v[l], part[l]) /\ part[l] \subseteq 0 .. cut - 1
      /\ \A c \in 0 .. cut - 1 : \E l \in 1 .. m : c \in part[l]
      /\ \A l, o \in 1 .. m : part[l] \cap part[o] # {} => l = o
  BY <1>5 DEF PartOfEach
<1>9. \A l \in 1 .. m + 1 : l \in 1 .. m \/ l = m + 1
  OBVIOUS
<1>10. ASSUME NEW l \in DOMAIN u PROVE Covers(u[l], parts[l]) /\ parts[l] \subseteq 0 .. len - 1
  <2>1. CASE l \in 1 .. m
    BY <1>5, <1>7, <1>8, <2>1
  <2>2. CASE l = m + 1
    BY <1>5, <1>7, <2>2
  <2>. QED
    BY <1>5, <1>9, <2>1, <2>2
<1>11. ASSUME NEW c \in 0 .. len - 1 PROVE \E l \in DOMAIN u : c \in parts[l]
  <2>1. CASE c < cut
    <3>1. PICK l \in 1 .. m : c \in part[l]
      BY <1>8, <2>1
    <3>2. l \in DOMAIN u /\ parts[l] = part[l]
      BY <1>5, <1>7
    <3>. QED
      BY <3>1, <3>2
  <2>2. CASE ~ (c < cut)
    <3>1. c \in parts[m + 1] /\ m + 1 \in DOMAIN u
      BY <1>5, <1>7, <2>2
    <3>. QED
      BY <3>1
  <2>. QED
    BY <2>1, <2>2
<1>12. ASSUME NEW l \in DOMAIN u, NEW o \in DOMAIN u, parts[l] \cap parts[o] # {} PROVE l = o
  <2>1. PICK c : c \in parts[l] /\ c \in parts[o]
    BY <1>12
  <2>2. (\A i \in 1 .. m : c \in parts[i] => c \in 0 .. cut - 1) /\ (c \in parts[m + 1] => c \notin 0 .. cut - 1)
    BY <1>7, <1>8
  <2>3. CASE l \in 1 .. m /\ o \in 1 .. m
    BY <1>7, <1>8, <1>12, <2>3
  <2>4. CASE l \in 1 .. m /\ o = m + 1
    BY <2>1, <2>2, <2>4, Zenon
  <2>5. CASE l = m + 1 /\ o \in 1 .. m
    BY <2>1, <2>2, <2>5, Zenon
  <2>. QED
    BY <1>5, <1>9, <2>3, <2>4, <2>5
<1>13. PartOfEach(u, parts, len)
  BY <1>10, <1>11, <1>12, Zenon DEF PartOfEach
<1>14. EveryByteOnce(u, len)
  BY <1>13, OnceIfLanesCover
<1>. QED
  BY <1>1, <1>3, <1>14

\* The lanes have the parts of all bytes.
LEMMA PartsOfAll ==
  ASSUME NEW upTo \in Nat, NEW stripe, NEW len, NEW m \in Nat \ {0}, NEW v, NEW part,
         <<stripe, len>> \in Sizes, m * len = stripe,
         DOMAIN v = 1 .. m,
         part = [l \in 1 .. m |-> Part(stripe, len, l, upTo)],
         \A l \in 1 .. m : Covers(v[l], Part(stripe, len, l, upTo))
  PROVE  PartOfEach(v, part, upTo)
<1>1. \A l \in 1 .. m : part[l] = Part(stripe, len, l, upTo)
  OBVIOUS
<1>2. ASSUME NEW c \in 0 .. upTo - 1 PROVE (c % stripe) \div len + 1 \in 1 .. m
  <2>0. (stripe = 4 /\ len = 4) \/ (stripe = 16 /\ len = 4) \/ (stripe = 16 /\ len = 8) \/ (stripe = 32 /\ len = 8)
    BY DEF Sizes
  <2>1. CASE stripe = 4 /\ len = 4
    BY <2>1
  <2>2. CASE stripe = 16 /\ len = 4
    BY <2>2
  <2>3. CASE stripe = 16 /\ len = 8
    BY <2>3
  <2>4. CASE stripe = 32 /\ len = 8
    BY <2>4
  <2>. QED
    BY <2>0, <2>1, <2>2, <2>3, <2>4
<1>3. ASSUME NEW c \in 0 .. upTo - 1 PROVE \E l \in 1 .. m : c \in part[l]
  <2>1. PICK l \in 1 .. m : l = (c % stripe) \div len + 1
    BY <1>2
  <2>2. (c % stripe) \div len \in Int
    <3>1. stripe \in Nat \ {0} /\ len \in Nat \ {0}
      BY DEF Sizes
    <3>. QED
      BY <3>1
  <2>3. (c % stripe) \div len = l - 1
    BY <2>1, <2>2
  <2>. QED
    BY <1>1, <2>3 DEF Part
<1>4. ASSUME NEW l \in 1 .. m, NEW o \in 1 .. m, part[l] \cap part[o] # {} PROVE l = o
  <2>1. PICK c : c \in part[l] /\ c \in part[o]
    BY <1>4
  <2>2. (c % stripe) \div len = l - 1 /\ (c % stripe) \div len = o - 1
    BY <1>1, <2>1 DEF Part
  <2>3. l - 1 = o - 1
    BY <2>2
  <2>. QED
    BY <2>3
<1>5. \A l \in DOMAIN v : Covers(v[l], part[l]) /\ part[l] \subseteq 0 .. upTo - 1
  BY <1>1 DEF Part
<1>6. \A c \in 0 .. upTo - 1 : \E l \in DOMAIN v : c \in part[l]
  BY <1>3
<1>7. \A l, o \in DOMAIN v : part[l] \cap part[o] # {} => l = o
  BY <1>4
<1>. QED
  BY <1>5, <1>6, <1>7, Zenon DEF PartOfEach

\* The words a lane of XXH32 or XXH64 takes.
LEMMA LaneWordsCover ==
  ASSUME NEW t \in Target, NEW l \in Lane, NEW n \in Nat
  PROVE  Covers(InputWords(t, l, n), Part(StripeLen(t), WordLen(t), l, StripeLen(t) * n))
<1>1. /\ <<StripeLen(t), WordLen(t)>> \in Sizes /\ l * WordLen(t) <= StripeLen(t)
      /\ l \in Nat \ {0} /\ (l - 1) * WordLen(t) = WordLen(t) * (l - 1)
  <2>1. CASE t.bits = 32
    BY <2>1 DEF StripeLen, WordLen, Sizes, Lane
  <2>2. CASE t.bits = 64
    BY <2>2 DEF StripeLen, WordLen, Sizes, Lane
  <2>. QED
    BY <2>1, <2>2 DEF Target
<1>2. PICK S, W : S = StripeLen(t) /\ W = WordLen(t)
  OBVIOUS
<1>3. PICK u : u = InputWords(t, l, n)
  OBVIOUS
<1>4. DOMAIN u = 1 .. n /\ \A k \in 1 .. n : u[k] = WordAt(Input, S * (k - 1) + W * (l - 1), W)
  BY <1>1, <1>2, <1>3 DEF InputWords, InputWord
<1>5. Covers(u, Part(S, W, l, S * n))
  BY <1>1, <1>2, <1>4, StripesCover
<1>. QED
  BY <1>2, <1>3, <1>5

\* Each byte is in one word of one lane or in one of the rest.
LEMMA XXHOnce ==
  ASSUME NEW t \in Target, NEW len \in Nat, NEW seed
  PROVE  LET x == OneShot(t, Input, len, seed)
         IN  EveryByteOnce([l \in DOMAIN x.acc.lanes |-> x.acc.lanes[l].words] \o <<x.rest>>, len)
<1>1. PICK x : x = OneShot(t, Input, len, seed)
  OBVIOUS
<1>2. PICK n \in Nat, cut \in Nat, S \in Nat :
        /\ n = len \div StripeLen(t) /\ cut = Cut(t, len) /\ S = StripeLen(t)
        /\ cut = S * n /\ cut <= len /\ (len >= S <=> n > 0)
  <2>1. PICK r \in Nat : r = len % StripeLen(t)
    BY Division DEF StripeLen
  <2>2. Cut(t, len) \in Nat /\ Cut(t, len) + r = len
    BY <2>1, Division
  <2>3. PICK n \in Nat, cut \in Nat, S \in Nat :
          n = len \div StripeLen(t) /\ cut = Cut(t, len) /\ S = StripeLen(t)
    BY Division
  <2>4. cut = S * n
    BY <2>3, Division
  <2>5. len >= S <=> n > 0
    BY <2>3, Division
  <2>6. cut <= len
    BY <2>2, <2>3
  <2>. QED
    BY <2>3, <2>4, <2>5, <2>6, Zenon
<1>3. x.acc = Start(t, Input, len, seed)
  BY <1>1 DEF OneShot, XXH32, XXH64
<1>4. Covers(x.rest, cut .. len - 1)
  <2>1. len - cut \in Nat /\ cut + (len - cut) = len
    BY <1>2
  <2>2. x.rest = Rest32(t, Input, cut, len - cut) \/ x.rest = Rest64(t, Input, cut, len - cut)
    BY <1>1, <1>2 DEF OneShot, XXH32, XXH64
  <2>. QED
    BY <2>1, <2>2, RestCovers
<1>5. PICK v : v = [l \in DOMAIN x.acc.lanes |-> x.acc.lanes[l].words]
  OBVIOUS
<1>6. CASE len >= S
  <2>1. x.acc.lanes = LanesAfter(t, n, seed)
    <3>1. Rounds(t, LanesAfter(t, 0, seed), Input, StripeLen(t) * 0, n) = LanesAfter(t, 0 + n, seed)
      BY RoundsOfInput
    <3>2. StripeLen(t) * 0 = 0 /\ 0 + n = n
      BY Division
    <3>3. LanesOf(t, Input, len, seed) = LanesAfter(t, n, seed)
      BY <1>2, <3>1, <3>2, SeededLanes DEF LanesOf
    <3>. QED
      BY <1>2, <1>3, <1>6, <3>3 DEF Start, Merged
  <2>2. DOMAIN v = Lane /\ \A l \in Lane : v[l] = InputWords(t, l, n)
    BY <1>5, <2>1 DEF LanesAfter
  <2>3. IsList(v, 4)
    BY <1>5, <2>2 DEF IsList, Lane
  <2>4. PICK W : W = WordLen(t)
    OBVIOUS
  <2>5. PICK part : part = [l \in 1 .. 4 |-> Part(S, W, l, cut)]
    OBVIOUS
  <2>6. <<S, W>> \in Sizes /\ 4 * W = S
    BY <1>2, <2>4 DEF StripeLen, WordLen, Sizes, Target
  <2>7. \A l \in 1 .. 4 : Covers(v[l], Part(S, W, l, cut))
    <3>1. ASSUME NEW l \in 1 .. 4 PROVE Covers(InputWords(t, l, n), Part(S, W, l, cut))
      BY <1>2, <2>4, LaneWordsCover DEF Lane
    <3>. QED
      BY <2>2, <3>1 DEF Lane
  <2>8. PartOfEach(v, part, cut)
    <3>1. DOMAIN v = 1 .. 4 /\ 4 \in Nat \ {0}
      BY <2>2 DEF Lane
    <3>. QED
      BY <2>5, <2>6, <2>7, <3>1, PartsOfAll, Zenon
  <2>9. EveryByteOnce(v \o <<x.rest>>, len)
    BY <1>2, <1>4, <2>3, <2>8, LanesAndRest
  <2>. QED
    BY <1>1, <1>5, <2>9
<1>7. CASE ~ (len >= S)
  <2>1. x.acc.lanes = <<[seed |-> seed, words |-> <<>>]>>
    BY <1>2, <1>3, <1>7 DEF Start, FromSeed
  <2>2. DOMAIN v = 1 .. 1 /\ v[1] = <<>> /\ IsList(v, 1)
    BY <1>5, <2>1 DEF IsList
  <2>3. cut = 0
    BY <1>2, <1>7
  <2>4. PICK part : part = [l \in 1 .. 1 |-> {}]
    OBVIOUS
  <2>5. PartOfEach(v, part, cut)
    BY <2>2, <2>3, <2>4, NoWordsCover DEF PartOfEach
  <2>6. EveryByteOnce(v \o <<x.rest>>, len)
    BY <1>2, <1>4, <2>2, <2>5, LanesAndRest
  <2>. QED
    BY <1>1, <1>5, <2>6
<1>. QED
  BY <1>6, <1>7

-----------------------------------------------------------------------------
(* MurmurHash3 *)

\* One word of n bytes at p.
LEMMA OneWordCovers ==
  ASSUME NEW p \in Nat, NEW n \in Nat
  PROVE  Covers(<<[i \in 0 .. n - 1 |-> Input[p + i]]>>, p .. p + n - 1)
<1>1. PICK u : u = <<[i \in 0 .. n - 1 |-> Input[p + i]]>>
  OBVIOUS
<1>2. /\ DOMAIN u = {1} /\ DOMAIN u[1] = 0 .. n - 1
      /\ \A i \in 0 .. n - 1 : u[1][i] = p + i
  BY <1>1 DEF Input
<1>3. ASSUME NEW k \in DOMAIN u, NEW i \in DOMAIN u[k] PROVE u[k][i] \in p .. p + n - 1
  BY <1>2
<1>4. ASSUME NEW c \in p .. p + n - 1
      PROVE  \E k \in DOMAIN u : \E i \in DOMAIN u[k] : u[k][i] = c
  <2>1. PICK i \in 0 .. n - 1 : c = p + i
    <3>1. c - p \in 0 .. n - 1 /\ c = p + (c - p)
      OBVIOUS
    <3>. QED
      BY <3>1
  <2>2. u[1][i] = c /\ 1 \in DOMAIN u /\ i \in DOMAIN u[1]
    BY <1>2, <2>1
  <2>. QED
    BY <2>2
<1>5. ASSUME NEW k \in DOMAIN u, NEW j \in DOMAIN u, NEW i \in DOMAIN u[k], NEW h \in DOMAIN u[j],
             u[k][i] = u[j][h]
      PROVE  k = j /\ i = h
  <2>1. k = 1 /\ j = 1 /\ i \in 0 .. n - 1 /\ h \in 0 .. n - 1
    BY <1>2
  <2>2. p + i = p + h
    BY <1>2, <1>5, <2>1
  <2>. QED
    BY <2>1, <2>2
<1>6. Covers(u, p .. p + n - 1)
  BY <1>3, <1>4, <1>5, Zenon DEF Covers
<1>. QED
  BY <1>1, <1>6

\* The words a lane takes of the blocks, in the byte order of the processor.
LEMMA BodyCovers ==
  ASSUME NEW cpu, NEW n \in Nat, NEW lanes \in Nat \ {0}, NEW word \in Nat, NEW block,
         block = lanes * word, <<block, word>> \in Sizes, NEW l \in 1 .. lanes
  PROVE  /\ IsList(Body(cpu, Input, n, lanes, word)[l], n)
         /\ Covers(Body(cpu, Input, n, lanes, word)[l], Part(block, word, l, block * n))
<1>1. PICK u : u = Body(cpu, Input, n, lanes, word)[l]
  OBVIOUS
<1>2. DOMAIN u = 1 .. n /\ IsList(u, n)
  BY <1>1 DEF Body, IsList
<1>3. \A k \in 1 .. n : u[k] = Native(cpu, Input, block * (k - 1) + word * (l - 1), word)
  BY <1>1 DEF Body
<1>4. l \in Nat \ {0} /\ l * word <= block
  <2>1. word = 4 \/ word = 8
    BY DEF Sizes
  <2>2. CASE word = 4
    BY <2>2
  <2>3. CASE word = 8
    BY <2>3
  <2>. QED
    BY <2>1, <2>2, <2>3
<1>5. CASE cpu = "little"
  <2>1. \A k \in 1 .. n : u[k] = WordAt(Input, block * (k - 1) + word * (l - 1), word)
    BY <1>3, <1>5 DEF Native, WordAt
  <2>2. Covers(u, Part(block, word, l, block * n))
    BY <1>2, <1>4, <2>1, StripesCover
  <2>. QED
    BY <1>1, <1>2, <2>2
<1>6. CASE cpu # "little"
  <2>1. \A k \in 1 .. n : u[k] = [i \in 0 .. word - 1 |->
                                    Input[block * (k - 1) + word * (l - 1) + (word - 1 - i)]]
    BY <1>3, <1>6 DEF Native
  <2>2. Covers(u, Part(block, word, l, block * n))
    BY <1>2, <1>4, <2>1, StripesCover
  <2>. QED
    BY <1>1, <1>2, <2>2
<1>. QED
  BY <1>5, <1>6

\* A word, or none, that has the bytes of all that S has not.
FillsUp(u, S, all) ==
  \E n \in {0, 1} :
    /\ IsList(u, n)
    /\ \E T : Covers(u, T) /\ S \cap T = {} /\ S \cup T = all

WholeBlocks(p, block) == \E q \in Nat : p = block * q

\* What a lane takes of the tail, less than a block.
LEMMA TailCovers ==
  ASSUME NEW lanes \in Nat \ {0}, NEW word \in Nat, NEW block,
         block = lanes * word, <<block, word>> \in Sizes, NEW l \in 1 .. lanes,
         NEW r \in 0 .. block - 1, NEW p \in Nat, WholeBlocks(p, block), NEW len \in Nat, len = p + r
  PROVE  FillsUp(Tail3(Input, p, r, lanes, word)[l], Part(block, word, l, p), Part(block, word, l, len))
<1>0. PICK q \in Nat : p = block * q
  BY DEF WholeBlocks
<1>1. PICK u : u = Tail3(Input, p, r, lanes, word)[l]
  OBVIOUS
<1>2. block \in {4, 16, 32} /\ word \in {4, 8} /\ l \in Nat \ {0} /\ l * word <= block
  <2>1. (word = 4 \/ word = 8) /\ block \in {4, 16, 32}
    BY DEF Sizes
  <2>2. CASE word = 4
    BY <2>1, <2>2
  <2>3. CASE word = 8
    BY <2>1, <2>3
  <2>. QED
    BY <2>1, <2>2, <2>3
<1>3. PICK o \in Nat : o = word * (l - 1)
  BY <1>2
\* The bytes of the tail, by their place in it.
<1>4. ASSUME NEW d \in 0 .. r - 1
      PROVE  p + d \in Part(block, word, l, len) <=> o <= d /\ d < o + word
  <2>1. p + d \in 0 .. len - 1
    BY <1>2
  <2>2. d \in 0 .. block - 1
    BY <1>2
  <2>3. p + d = Place(block, q, d)
    BY <1>0 DEF Place
  <2>4. (p + d) % block = d
    BY <1>2, <2>2, <2>3, OffsetOfPlace
  <2>5. d \div word = l - 1 <=> o <= d /\ d < o + word
    <3>1. CASE word = 4
      BY <1>3, <2>2, <3>1
    <3>2. CASE word = 8
      BY <1>3, <2>2, <3>2
    <3>. QED
      BY <1>2, <3>1, <3>2
  <2>. QED
    BY <2>1, <2>4, <2>5 DEF Part
<1>5. ASSUME NEW T, \A c : c \in T <=> \E d \in 0 .. r - 1 : c = p + d /\ o <= d /\ d < o + word
      PROVE  /\ Part(block, word, l, p) \cap T = {}
             /\ Part(block, word, l, p) \cup T = Part(block, word, l, len)
  <2>1. \A c \in T : c \in Part(block, word, l, len) /\ c \notin Part(block, word, l, p)
    <3>1. ASSUME NEW c \in T PROVE c \in Part(block, word, l, len) /\ c \notin Part(block, word, l, p)
      <4>1. PICK d \in 0 .. r - 1 : c = p + d /\ o <= d /\ d < o + word
        BY <1>5
      <4>2. p + d \notin 0 .. p - 1
        BY <1>2
      <4>. QED
        BY <1>4, <4>1, <4>2 DEF Part
    <3>. QED
      BY <3>1
  <2>2. \A c \in Part(block, word, l, p) : c \in Part(block, word, l, len)
    BY <1>2 DEF Part
  <2>3. ASSUME NEW c \in Part(block, word, l, len), c \notin Part(block, word, l, p) PROVE c \in T
    <3>1. c \in 0 .. len - 1 /\ c \notin 0 .. p - 1
      BY <2>3 DEF Part
    <3>2. PICK d \in 0 .. r - 1 : c = p + d
      <4>1. c - p \in 0 .. r - 1 /\ c = p + (c - p)
        BY <1>2, <3>1
      <4>. QED
        BY <4>1
    <3>. QED
      BY <1>4, <1>5, <3>2
  <2>. QED
    BY <2>1, <2>2, <2>3
<1>6. CASE r - o > 0
  <2>1. PICK m \in Nat : m = (IF r - o < word THEN r - o ELSE word) /\ o + m <= r
    <3>1. CASE r - o < word
      <4>1. r - o \in Nat /\ o + (r - o) <= r
        BY <1>2, <1>6
      <4>. QED
        BY <3>1, <4>1
    <3>2. CASE ~ (r - o < word)
      <4>1. word \in Nat /\ o + word <= r
        BY <1>2, <3>2
      <4>. QED
        BY <3>2, <4>1
    <3>. QED
      BY <3>1, <3>2
  <2>2. u = <<[i \in 0 .. m - 1 |-> Input[(p + o) + i]]>>
    BY <1>1, <1>3, <1>6, <2>1 DEF Tail3
  <2>3. Covers(u, (p + o) .. (p + o) + m - 1)
    <3>1. PICK f \in Nat : f = p + o
      OBVIOUS
    <3>2. Covers(<<[i \in 0 .. m - 1 |-> Input[f + i]]>>, f .. f + m - 1)
      BY OneWordCovers
    <3>. QED
      BY <2>2, <3>1, <3>2
  <2>4. \A c : c \in (p + o) .. (p + o) + m - 1 <=>
                 \E d \in 0 .. r - 1 : c = p + d /\ o <= d /\ d < o + word
    <3>1. ASSUME NEW c \in (p + o) .. (p + o) + m - 1
          PROVE  c - p \in 0 .. r - 1 /\ c = p + (c - p) /\ o <= c - p /\ c - p < o + word
      BY <1>2, <2>1
    <3>2. ASSUME NEW d \in 0 .. r - 1, o <= d, d < o + word
          PROVE  p + d \in (p + o) .. (p + o) + m - 1
      BY <1>2, <2>1, <3>2
    <3>. QED
      BY <3>1, <3>2
  <2>5. IsList(u, 1)
    BY <2>2 DEF IsList
  <2>. QED
    <3>1. PICK T : T = (p + o) .. (p + o) + m - 1
      OBVIOUS
    <3>2. /\ Part(block, word, l, p) \cap T = {}
          /\ Part(block, word, l, p) \cup T = Part(block, word, l, len)
      <4>1. \A c : c \in T <=> \E d \in 0 .. r - 1 : c = p + d /\ o <= d /\ d < o + word
        BY <2>4, <3>1
      <4>. QED
        BY <1>5, <4>1
    <3>3. Covers(u, T)
      BY <2>3, <3>1
    <3>. QED
      BY <1>1, <2>5, <3>2, <3>3 DEF FillsUp
<1>7. CASE ~ (r - o > 0)
  <2>1. u = <<>>
    BY <1>1, <1>3, <1>7 DEF Tail3
  <2>2. Covers(u, {}) /\ IsList(u, 0)
    BY <2>1, NoWordsCover DEF IsList
  <2>3. \A c : c \in {} <=> \E d \in 0 .. r - 1 : c = p + d /\ o <= d /\ d < o + word
    BY <1>2, <1>7
  <2>. QED
    BY <1>1, <1>5, <2>2, <2>3 DEF FillsUp
<1>. QED
  BY <1>6, <1>7

\* All three functions: one lane of words of 4 bytes, four, or two of 8 bytes.
LEMMA AbsorbedOnce ==
  ASSUME NEW cpu, NEW len \in Nat, NEW lanes \in Nat \ {0}, NEW word,
         <<lanes, word>> \in {<<1, 4>>, <<4, 4>>, <<2, 8>>}
  PROVE  EveryByteOnce(Absorbed(cpu, Input, len, lanes, word), len)
<1>1. PICK block : /\ block = lanes * word /\ <<block, word>> \in Sizes /\ word \in Nat
                   /\ block \in {4, 16, 32}
  <2>1. CASE lanes = 1 /\ word = 4
    BY <2>1 DEF Sizes
  <2>2. CASE lanes = 4 /\ word = 4
    BY <2>2 DEF Sizes
  <2>3. CASE lanes = 2 /\ word = 8
    BY <2>3 DEF Sizes
  <2>. QED
    BY <2>1, <2>2, <2>3
<1>2. PICK q \in Nat, r \in 0 .. block - 1, p \in Nat :
        /\ q = Quot(len, block) /\ r = len % block /\ p = block * q /\ len = p + r
        /\ p = q * lanes * word
  <2>1. Quot(len, block) = len \div block
    BY DEF Quot
  <2>2. /\ len \div block \in Nat /\ len % block \in 0 .. block - 1
        /\ block * (len \div block) \in Nat
        /\ len = block * (len \div block) + (len % block)
    <3>1. CASE block = 4
      BY <3>1
    <3>2. CASE block = 16
      BY <3>2
    <3>3. CASE block = 32
      BY <3>3
    <3>. QED
      BY <1>1, <3>1, <3>2, <3>3
  <2>3. PICK q \in Nat : q = len \div block
    BY <2>2
  <2>4. q * lanes * word = block * q
    <3>1. CASE lanes = 1 /\ word = 4
      BY <1>1, <3>1
    <3>2. CASE lanes = 4 /\ word = 4
      BY <1>1, <3>2
    <3>3. CASE lanes = 2 /\ word = 8
      BY <1>1, <3>3
    <3>. QED
      BY <3>1, <3>2, <3>3
  <2>5. PICK p \in Nat, r \in 0 .. block - 1 : p = block * q /\ r = len % block
    BY <2>2, <2>3
  <2>6. len = p + r
    BY <2>2, <2>3, <2>5
  <2>. QED
    BY <2>1, <2>3, <2>4, <2>5, <2>6
<1>3. PICK body, tail : /\ body = Body(cpu, Input, q, lanes, word)
                        /\ tail = Tail3(Input, p, r, lanes, word)
  OBVIOUS
<1>4. PICK u : u = Absorbed(cpu, Input, len, lanes, word)
  OBVIOUS
<1>5. u = [l \in 1 .. lanes |-> body[l] \o tail[l]]
  BY <1>1, <1>2, <1>3, <1>4 DEF Absorbed
<1>6. ASSUME NEW l \in 1 .. lanes PROVE Covers(u[l], Part(block, word, l, len))
  <2>1. IsList(body[l], q) /\ Covers(body[l], Part(block, word, l, p))
    BY <1>1, <1>2, <1>3, BodyCovers
  <2>2. PICK n \in {0, 1} :
          /\ IsList(tail[l], n)
          /\ \E T : /\ Covers(tail[l], T)
                    /\ Part(block, word, l, p) \cap T = {}
                    /\ Part(block, word, l, p) \cup T = Part(block, word, l, len)
    <3>1. WholeBlocks(p, block)
      BY <1>2 DEF WholeBlocks
    <3>2. FillsUp(tail[l], Part(block, word, l, p), Part(block, word, l, len))
      BY <1>1, <1>2, <1>3, <3>1, TailCovers
    <3>. QED
      BY <3>2 DEF FillsUp
  <2>3. PICK T : /\ Covers(tail[l], T)
                 /\ Part(block, word, l, p) \cap T = {}
                 /\ Part(block, word, l, p) \cup T = Part(block, word, l, len)
    BY <2>2
  <2>4. Covers(body[l] \o tail[l], Part(block, word, l, p) \cup T)
    BY <2>1, <2>2, <2>3, ConcatCovers
  <2>. QED
    BY <1>5, <2>3, <2>4
<1>7. PICK part : part = [l \in 1 .. lanes |-> Part(block, word, l, len)]
  OBVIOUS
<1>8. PartOfEach(u, part, len)
  <2>1. DOMAIN u = 1 .. lanes /\ lanes * word = block
    BY <1>1, <1>5
  <2>. QED
    BY <1>1, <1>6, <1>7, <2>1, PartsOfAll
<1>. QED
  BY <1>4, <1>8, OnceIfLanesCover

\* It is a matter of the lengths alone.
LEMMA IInvAbsorbs == IInv => AbsorbsInput
<1>. SUFFICES ASSUME IInv PROVE AbsorbsInput
  OBVIOUS
<1>1. target \in Target /\ \A h \in Handle : given[h].len \in Nat
  BY DEF IInv, TypesOK
<1>2. ASSUME NEW h \in Handle
      PROVE  LET x == OneShot(target, Input, given[h].len, given[h].seed)
             IN  EveryByteOnce([l \in DOMAIN x.acc.lanes |-> x.acc.lanes[l].words] \o <<x.rest>>, given[h].len)
  BY <1>1, XXHOnce
<1>3. ASSUME NEW h \in Handle
      PROVE  LET len == given[h].len IN
               /\ EveryByteOnce(MurmurHash3_x86_32(target.cpu, Input, len, given[h].seed).lanes, len)
               /\ EveryByteOnce(MurmurHash3_x86_128(target.cpu, Input, len, given[h].seed).lanes, len)
               /\ EveryByteOnce(MurmurHash3_x64_128(target.cpu, Input, len, given[h].seed).lanes, len)
  <2>1. PICK len \in Nat : len = given[h].len
    BY <1>1
  <2>2. EveryByteOnce(Absorbed(target.cpu, Input, len, 1, 4), len)
    BY AbsorbedOnce
  <2>3. EveryByteOnce(Absorbed(target.cpu, Input, len, 4, 4), len)
    BY AbsorbedOnce
  <2>4. EveryByteOnce(Absorbed(target.cpu, Input, len, 2, 8), len)
    BY AbsorbedOnce
  <2>. QED
    BY <2>1, <2>2, <2>3, <2>4 DEF MurmurHash3_x86_32, MurmurHash3_x86_128, MurmurHash3_x64_128
<1>4. XXHAbsorbsInput
  BY <1>2 DEF XXHAbsorbsInput
<1>5. MurmurAbsorbsInput
  BY <1>3 DEF MurmurAbsorbsInput
<1>. QED
  BY <1>4, <1>5 DEF AbsorbsInput

\* Whatever the length of the input, none of the hash functions skips a byte or
\* reads one twice.
THEOREM EveryByteIsAbsorbedOnce == Spec => []AbsorbsInput
BY StreamInvariant, IInvAbsorbs, PTL

-----------------------------------------------------------------------------
(* The hash of a file: the inductive invariant *)

Types ==
  /\ build \in [platform : {"posix", "windows", "other"}, impl : {"xxhash", "murmur3"}]
  /\ file \in Seq(Nat) /\ read \in Seq(Nat) /\ writes \in Nat /\ size \in Nat
  /\ pc \in {"idle", "stat", "map", "advise", "view", "hash", "unmap", "closemap", "close", "killed"}
  /\ held \in [fd : Int, handle : Int, view : Int]
  /\ raised \in Nat /\ steady \in BOOLEAN

\* Only a file that is not empty is mapped, by the calls of the platform.
CallPlaces ==
  /\ pc \in {"map", "advise", "view", "unmap", "closemap"} => size # 0
  /\ pc \in {"map", "unmap"} => Posix \/ Windows
  /\ pc = "advise" => Posix
  /\ pc \in {"view", "closemap"} => Windows
  /\ pc = "hash" /\ size # 0 => Posix \/ Windows

\* What a call holds is a matter of where it is; the rest was left by the calls
\* that raised.
Opened == IF pc = "idle" THEN 0 ELSE 1
Viewed == IF pc \in {"advise", "unmap"} \/ (pc = "hash" /\ size # 0) THEN 1 ELSE 0
Handled ==
  IF Windows /\ (pc \in {"view", "closemap", "unmap"} \/ (pc = "hash" /\ size # 0)) THEN 1 ELSE 0

HeldInPlace ==
  pc # "killed" =>
    /\ held.fd = raised + Opened
    /\ held.view - Viewed \in 0 .. raised
    /\ held.handle - Handled \in 0 .. raised
    /\ IF Windows THEN held.view - Viewed <= held.handle - Handled ELSE held.handle = 0

\* As long as nobody writes, the size is the one of the file and what was read
\* is the beginning of it.
ReadSoFar ==
  /\ pc \in {"stat", "map", "advise", "view"} => read = <<>>
  /\ pc \in {"hash", "unmap", "closemap", "close"} => Len(read) = 0 \/ Len(read) <= Length
  /\ pc \in {"unmap", "closemap", "close"} => Len(read) >= Length
  /\ steady =>
       /\ pc \in {"map", "advise", "view", "hash", "unmap", "closemap", "close"}
          /\ build.platform # "other" => size = Len(file)
       /\ pc \in {"stat", "map", "advise", "view", "hash", "unmap", "closemap", "close"} =>
            Len(read) <= Len(file) /\ \A i \in 1 .. Len(read) : read[i] = file[i]

FileIInv == Types /\ CallPlaces /\ HeldInPlace /\ ReadSoFar /\ OkIsTheContent

-----------------------------------------------------------------------------
(* The length of a file as an int *)

\* Division with remainder.
LEMMA SizeDivision ==
  ASSUME NEW M \in Nat \ {0}, NEW a \in Nat
  PROVE  a \div M \in Int /\ a % M \in 0 .. M - 1 /\ a = M * (a \div M) + (a % M)
OBVIOUS

\* A size that an int holds is the length, and none is more than the size.
LEMMA LengthIs ==
  ASSUME Types
  PROVE  /\ Length \in Int /\ Length <= size
         /\ Length < 0 => build.impl = "murmur3" /\ size >= IntMax
         /\ size < IntMax \/ build.impl # "murmur3" => Length = size
<1>. DEFINE M == 2 * IntMax
            q == size \div M
            n == size % M
<1>1. M \in Nat \ {0} /\ size \in Nat /\ IntMax \in Nat \ {0} /\ M = IntMax + IntMax
  BY IntMaxIsPositive DEF Types
<1>2. q \in Int /\ n \in 0 .. M - 1 /\ size = M * q + n
  <2>. HIDE DEF M
  <2>. QED
    BY <1>1, SizeDivision
<1>3. Length = IF build.impl = "xxhash" THEN size ELSE IF n < IntMax THEN n ELSE n - M
  BY DEF Length
<1>4. build.impl \in {"xxhash", "murmur3"}
  BY DEF Types
<1>. HIDE DEF M, q, n
<1>5. \A x \in Int : (x >= 1 => M * x >= M) /\ (x <= -1 => M * x <= - M) /\ (x = 0 => M * x = 0)
  BY <1>1
<1>6. M * q \in Int /\ M * q >= 0
  <2>1. M * q > - M
    BY <1>1, <1>2
  <2>2. q >= 0
    BY <1>1, <1>2, <1>5, <2>1
  <2>. QED
    BY <1>1, <1>2, <1>5, <2>2
<1>7. n <= size
  BY <1>1, <1>2, <1>6
<1>8. size < M => n = size
  <2>1. SUFFICES ASSUME size < M PROVE n = size
    OBVIOUS
  <2>2. q < 1
    BY <1>1, <1>2, <1>5, <2>1
  <2>3. q = 0
    BY <1>1, <1>2, <1>5, <1>6, <2>2
  <2>. QED
    BY <1>1, <1>2, <1>5, <2>3
<1>. QED
  BY <1>1, <1>2, <1>3, <1>4, <1>7, <1>8

-----------------------------------------------------------------------------
\* Before the first call nothing is held.
LEMMA FileInitIInv == FileInit => FileIInv
<1>. SUFFICES ASSUME FileInit PROVE FileIInv
  OBVIOUS
<1>1. build \in [platform : {"posix", "windows", "other"}, impl : {"xxhash", "murmur3"}]
  BY Builds DEF FileInit
<1>2. file \in Seq(Nat)
  <2>1. PICK n \in 0 .. MaxSize : file \in [1 .. n -> {0}]
    BY DEF FileInit
  <2>2. n \in Nat /\ file \in [1 .. n -> Nat]
    BY <2>1
  <2>. QED
    BY <2>2, SeqDef
<1>3. result.kind # "ok"
  BY DEF FileInit, None
<1>4. pc = "idle" /\ size = 0 /\ raised = 0 /\ steady = TRUE /\ writes = 0 /\ read = <<>>
  BY DEF FileInit
<1>5. held = [fd |-> 0, handle |-> 0, view |-> 0]
  BY DEF FileInit
<1>6. Types
  <2>1. read \in Seq(Nat) /\ size \in Nat /\ writes \in Nat
    BY <1>4
  <2>2. held \in [fd : Int, handle : Int, view : Int]
    BY <1>5
  <2>. QED
    BY <1>1, <1>2, <1>4, <2>1, <2>2 DEF Types
<1>7. CallPlaces /\ ReadSoFar /\ OkIsTheContent
  BY <1>3, <1>4 DEF CallPlaces, ReadSoFar, OkIsTheContent
<1>8. HeldInPlace
  BY <1>4, <1>5 DEF HeldInPlace, Opened, Viewed, Handled
<1>. QED
  BY <1>6, <1>7, <1>8 DEF FileIInv

-----------------------------------------------------------------------------
(* Steps of a call *)

\* A resource that is got or given back changes its count only.
LEMMA GetGive ==
  ASSUME Types, NEW r \in {"fd", "handle", "view"}
  PROVE  /\ Get(r) => /\ held' \in [fd : Int, handle : Int, view : Int]
                      /\ held'[r] = held[r] + 1
                      /\ \A o \in {"fd", "handle", "view"} \ {r} : held'[o] = held[o]
         /\ Give(r) => /\ held' \in [fd : Int, handle : Int, view : Int]
                       /\ held'[r] = held[r] - 1
                       /\ \A o \in {"fd", "handle", "view"} \ {r} : held'[o] = held[o]
BY DEF Types, Get, Give

\* An exception ends the call, and what it held is left.
LEMMA RaiseKeeps ==
  ASSUME FileIInv, RaiseSysError, Same, pc \notin {"idle", "killed"}
  PROVE  FileIInv'
<1>1. pc' = "idle" /\ result' = Raised /\ raised' = raised + 1 /\ held' = held
  BY DEF RaiseSysError, Return, FileIInv, Types
<1>2. UNCHANGED <<build, file, writes, calls, size, read, steady>>
  BY DEF Same
<1>a. raised \in Nat /\ held.fd \in Int /\ held.view \in Int /\ held.handle \in Int
  BY DEF FileIInv, Types
<1>b. Types' /\ CallPlaces'
  BY <1>1, <1>2, <1>a DEF FileIInv, Types, CallPlaces
<1>3. HeldInPlace'
  <2>1. Opened' = 0 /\ Viewed' = 0 /\ Handled' = 0 /\ Windows' = Windows /\ Opened = 1
    BY <1>1, <1>2 DEF Opened, Viewed, Handled, Windows
  <2>2. Viewed \in {0, 1} /\ Handled \in {0, 1} /\ (Windows /\ Viewed = 1 => Handled = 1)
    BY DEF FileIInv, CallPlaces, Viewed, Handled, Posix, Windows
  <2>3. /\ held.fd = raised + Opened
        /\ held.view - Viewed \in 0 .. raised /\ held.handle - Handled \in 0 .. raised
        /\ IF Windows THEN held.view - Viewed <= held.handle - Handled ELSE held.handle = 0
    BY DEF FileIInv, HeldInPlace
  <2>4. /\ held.fd = raised + 1
        /\ held.view \in 0 .. raised + 1 /\ held.handle \in 0 .. raised + 1
        /\ IF Windows THEN held.view <= held.handle ELSE held.handle = 0
    BY <1>a, <2>1, <2>2, <2>3
  <2>. QED
    BY <1>1, <1>a, <2>1, <2>4 DEF HeldInPlace
<1>4. ReadSoFar'
  BY <1>1, <1>2 DEF ReadSoFar
<1>5. OkIsTheContent'
  BY <1>1 DEF OkIsTheContent, Raised
<1>. QED
  BY <1>b, <1>3, <1>4, <1>5 DEF FileIInv

\* The length depends on the size and the program.
LEMMA LengthKept == ASSUME UNCHANGED <<build, size>> PROVE Length' = Length
BY DEF Length

\* The result is looked at between calls only.
LEMMA InACall == ASSUME pc' # "idle" PROVE OkIsTheContent'
BY DEF OkIsTheContent

\* A call that opens the file holds its descriptor and has read nothing.
LEMMA OpenStep == ASSUME FileIInv, Open PROVE FileIInv'
<1>1. UNCHANGED <<build, file, writes, size>> /\ read' = <<>> /\ steady' = TRUE
  BY DEF Open
<1>2. CASE Goto("stat") /\ Get("fd")
  <2>1. pc' = "stat" /\ raised' = raised
    BY <1>2 DEF Goto
  <2>2. /\ held' \in [fd : Int, handle : Int, view : Int]
        /\ held'.fd = held.fd + 1 /\ held'.handle = held.handle /\ held'.view = held.view
    BY <1>2, GetGive DEF FileIInv
  <2>3. Types' /\ CallPlaces'
    BY <1>1, <2>1, <2>2 DEF FileIInv, Types, CallPlaces
  <2>4. HeldInPlace'
    BY <1>1, <2>1, <2>2 DEF Open, FileIInv, HeldInPlace, Opened, Viewed, Handled, Types, Windows
  <2>5. ReadSoFar'
    BY <1>1, <2>1 DEF ReadSoFar, FileIInv, Types
  <2>. QED
    BY <2>1, <2>3, <2>4, <2>5, InACall DEF FileIInv
<1>3. CASE Return(Error) /\ UNCHANGED held
  <2>1. pc' = "idle" /\ raised' = raised /\ held' = held /\ result'.kind = "error"
    BY <1>3 DEF Return, Error, Raised, FileIInv, Types
  <2>2. Types' /\ CallPlaces'
    BY <1>1, <2>1 DEF FileIInv, Types, CallPlaces
  <2>3. HeldInPlace'
    BY <1>1, <2>1 DEF Open, FileIInv, HeldInPlace, Opened, Viewed, Handled, Windows
  <2>4. ReadSoFar' /\ OkIsTheContent'
    BY <1>1, <2>1 DEF ReadSoFar, OkIsTheContent
  <2>. QED
    BY <2>2, <2>3, <2>4 DEF FileIInv
<1>. QED
  BY <1>2, <1>3 DEF Open

\* The size that is asked is the one of the file as it is now.
LEMMA StatStep == ASSUME FileIInv, Stat PROVE FileIInv'
<1>1. UNCHANGED <<build, file, writes, calls, read, steady>>
  BY DEF Stat
<1>2. CASE RaiseSysError /\ UNCHANGED size
  BY <1>1, <1>2, RaiseKeeps DEF Same, Stat
<1>3. CASE /\ size' = IF Posix \/ Windows THEN Len(file) ELSE 0
           /\ Goto(IF size' = 0 THEN "hash" ELSE "map") /\ UNCHANGED held
  <2>1. pc = "stat" /\ pc' = (IF size' = 0 THEN "hash" ELSE "map") /\ raised' = raised /\ held' = held
    BY <1>3 DEF Stat, Goto
  <2>2. size' \in Nat /\ (size' # 0 => Posix \/ Windows)
    BY <1>3 DEF FileIInv, Types
  <2>3. Types'
    BY <1>1, <2>1, <2>2 DEF FileIInv, Types
  <2>4. CallPlaces' /\ HeldInPlace'
    BY <1>1, <2>1, <2>2 DEF FileIInv, Types, CallPlaces, HeldInPlace, Opened, Viewed, Handled, Posix, Windows
  <2>5. build.platform # "other" => size' = Len(file)
    BY <1>3 DEF FileIInv, Types, Posix, Windows
  <2>6. read = <<>> /\ Len(file) \in Nat
    BY <2>1 DEF FileIInv, ReadSoFar, Types
  <2>7. ReadSoFar'
    BY <1>1, <2>1, <2>5, <2>6 DEF ReadSoFar
  <2>8. pc' # "idle"
    BY <2>1
  <2>. QED
    BY <2>3, <2>4, <2>7, <2>8, InACall DEF FileIInv
<1>. QED
  BY <1>2, <1>3 DEF Stat

\* A step of a call that does not read, to a later call of the system.
LEMMA GoesOn ==
  ASSUME FileIInv, Same, raised' = raised, held' \in [fd : Int, handle : Int, view : Int],
         pc' \in {"advise", "view", "hash", "closemap", "close"},
         pc \in {"map", "advise", "view", "unmap", "closemap"},
         pc' \in {"closemap", "close"} <=> pc \in {"unmap", "closemap"}
  PROVE  Types' /\ ReadSoFar' /\ OkIsTheContent'
<1>1. UNCHANGED <<build, file, writes, calls, size, read, steady>>
  BY DEF Same
<1>2. Types'
  BY <1>1 DEF FileIInv, Types
<1>3. Length' = Length
  BY <1>1, LengthKept
<1>4. pc' # "idle"
  OBVIOUS
<1>5. pc \in {"map", "advise", "view"} => Len(read) = 0
  BY DEF FileIInv, ReadSoFar
<1>6. ReadSoFar'
  BY <1>1, <1>3, <1>5 DEF FileIInv, ReadSoFar
<1>. QED
  BY <1>2, <1>4, <1>6, InACall

\* Each system call either raises or leaves what the next place expects.
LEMMA MmapStep == ASSUME FileIInv, Mmap PROVE FileIInv'
<1>1. CASE RaiseSysError
  BY <1>1, RaiseKeeps DEF Mmap
<1>2. CASE Goto("advise") /\ Get("view")
  <2>1. pc = "map" /\ pc' = "advise" /\ raised' = raised /\ size' = size /\ build' = build /\ Posix
    BY <1>2 DEF Mmap, Goto, Same
  <2>2. /\ held' \in [fd : Int, handle : Int, view : Int]
        /\ held'.fd = held.fd /\ held'.handle = held.handle /\ held'.view = held.view + 1
    BY <1>2, GetGive DEF FileIInv
  <2>3. Types' /\ ReadSoFar' /\ OkIsTheContent'
    BY <2>1, <2>2, GoesOn DEF Mmap
  <2>4. CallPlaces' /\ HeldInPlace'
    BY <2>1, <2>2 DEF FileIInv, Types, CallPlaces, HeldInPlace, Opened, Viewed, Handled, Posix, Windows
  <2>. QED
    BY <2>3, <2>4 DEF FileIInv
<1>. QED
  BY <1>1, <1>2 DEF Mmap

LEMMA MadviseStep == ASSUME FileIInv, Madvise PROVE FileIInv'
<1>1. CASE RaiseSysError
  BY <1>1, RaiseKeeps DEF Madvise
<1>2. CASE Goto("hash") /\ UNCHANGED held
  <2>1. /\ pc = "advise" /\ pc' = "hash" /\ raised' = raised /\ held' = held
        /\ size' = size /\ build' = build
    BY <1>2 DEF Madvise, Goto, Same
  <2>2. Types' /\ ReadSoFar' /\ OkIsTheContent'
    BY <2>1, GoesOn DEF Madvise, FileIInv, Types
  <2>3. CallPlaces' /\ HeldInPlace'
    BY <2>1 DEF FileIInv, Types, CallPlaces, HeldInPlace, Opened, Viewed, Handled, Posix, Windows
  <2>. QED
    BY <2>2, <2>3 DEF FileIInv
<1>. QED
  BY <1>1, <1>2 DEF Madvise

LEMMA CreateFileMappingStep == ASSUME FileIInv, CreateFileMapping PROVE FileIInv'
<1>1. CASE RaiseSysError
  BY <1>1, RaiseKeeps DEF CreateFileMapping
<1>2. CASE Goto("view") /\ Get("handle")
  <2>1. pc = "map" /\ pc' = "view" /\ raised' = raised /\ size' = size /\ build' = build /\ Windows
    BY <1>2 DEF CreateFileMapping, Goto, Same
  <2>2. /\ held' \in [fd : Int, handle : Int, view : Int]
        /\ held'.fd = held.fd /\ held'.handle = held.handle + 1 /\ held'.view = held.view
    BY <1>2, GetGive DEF FileIInv
  <2>3. Types' /\ ReadSoFar' /\ OkIsTheContent'
    BY <2>1, <2>2, GoesOn DEF CreateFileMapping
  <2>4. CallPlaces' /\ HeldInPlace'
    BY <2>1, <2>2 DEF FileIInv, Types, CallPlaces, HeldInPlace, Opened, Viewed, Handled, Posix, Windows
  <2>. QED
    BY <2>3, <2>4 DEF FileIInv
<1>. QED
  BY <1>1, <1>2 DEF CreateFileMapping

LEMMA MapViewOfFileStep == ASSUME FileIInv, MapViewOfFile PROVE FileIInv'
<1>1. CASE RaiseSysError
  BY <1>1, RaiseKeeps DEF MapViewOfFile
<1>2. CASE Goto("hash") /\ Get("view")
  <2>1. pc = "view" /\ pc' = "hash" /\ raised' = raised /\ size' = size /\ build' = build
    BY <1>2 DEF MapViewOfFile, Goto, Same
  <2>2. /\ held' \in [fd : Int, handle : Int, view : Int]
        /\ held'.fd = held.fd /\ held'.handle = held.handle /\ held'.view = held.view + 1
    BY <1>2, GetGive DEF FileIInv
  <2>3. Types' /\ ReadSoFar' /\ OkIsTheContent'
    BY <2>1, <2>2, GoesOn DEF MapViewOfFile
  <2>4. CallPlaces' /\ HeldInPlace'
    BY <2>1, <2>2 DEF FileIInv, Types, CallPlaces, HeldInPlace, Opened, Viewed, Handled, Posix, Windows
  <2>. QED
    BY <2>3, <2>4 DEF FileIInv
<1>. QED
  BY <1>1, <1>2 DEF MapViewOfFile

LEMMA UnmapStep == ASSUME FileIInv, Unmap PROVE FileIInv'
<1>1. CASE RaiseSysError
  BY <1>1, RaiseKeeps DEF Unmap
<1>2. CASE Give("view") /\ Goto(IF Windows THEN "closemap" ELSE "close")
  <2>1. /\ pc = "unmap" /\ pc' = (IF Windows THEN "closemap" ELSE "close")
        /\ raised' = raised /\ size' = size /\ build' = build
    BY <1>2 DEF Unmap, Goto, Same
  <2>2. /\ held' \in [fd : Int, handle : Int, view : Int]
        /\ held'.fd = held.fd /\ held'.handle = held.handle /\ held'.view = held.view - 1
    BY <1>2, GetGive DEF FileIInv
  <2>3. Types' /\ ReadSoFar' /\ OkIsTheContent'
    BY <2>1, <2>2, GoesOn DEF Unmap
  <2>4. CallPlaces' /\ HeldInPlace'
    BY <2>1, <2>2 DEF FileIInv, Types, CallPlaces, HeldInPlace, Opened, Viewed, Handled, Posix, Windows
  <2>. QED
    BY <2>3, <2>4 DEF FileIInv
<1>. QED
  BY <1>1, <1>2 DEF Unmap

LEMMA CloseMappingStep == ASSUME FileIInv, CloseMapping PROVE FileIInv'
<1>1. CASE RaiseSysError
  BY <1>1, RaiseKeeps DEF CloseMapping
<1>2. CASE Give("handle") /\ Goto("close")
  <2>1. pc = "closemap" /\ pc' = "close" /\ raised' = raised /\ size' = size /\ build' = build
    BY <1>2 DEF CloseMapping, Goto, Same
  <2>2. /\ held' \in [fd : Int, handle : Int, view : Int]
        /\ held'.fd = held.fd /\ held'.handle = held.handle - 1 /\ held'.view = held.view
    BY <1>2, GetGive DEF FileIInv
  <2>3. Types' /\ ReadSoFar' /\ OkIsTheContent'
    BY <2>1, <2>2, GoesOn DEF CloseMapping
  <2>4. CallPlaces' /\ HeldInPlace'
    BY <2>1, <2>2 DEF FileIInv, Types, CallPlaces, HeldInPlace, Opened, Viewed, Handled, Posix, Windows
  <2>. QED
    BY <2>3, <2>4 DEF FileIInv
<1>. QED
  BY <1>1, <1>2 DEF CloseMapping

\* The function returns once it read the length.
LEMMA HashedStep == ASSUME FileIInv, Hashed PROVE FileIInv'
<1>1. /\ pc = "hash" /\ pc' = (IF size = 0 THEN "close" ELSE "unmap")
      /\ raised' = raised /\ held' = held /\ Len(read) >= Length
  BY DEF Hashed, Goto
<1>2. UNCHANGED <<build, file, writes, calls, size, read, steady>>
  BY DEF Hashed, Same
<1>3. Types' /\ CallPlaces' /\ HeldInPlace'
  BY <1>1, <1>2 DEF FileIInv, Types, CallPlaces, HeldInPlace, Opened, Viewed, Handled, Posix, Windows
<1>4. Length' = Length
  BY <1>2, LengthKept
<1>5. ReadSoFar'
  BY <1>1, <1>2, <1>4 DEF FileIInv, ReadSoFar
<1>. QED
  BY <1>1, <1>3, <1>5, InACall DEF FileIInv

\* The next page of a file nobody writes to is the next one of its content.
LEMMA ReadPageStep == ASSUME FileIInv, ReadPage PROVE FileIInv'
<1>1. /\ UNCHANGED <<build, file, writes, calls, size, held, raised, steady, result>>
      /\ pc = "hash" /\ Len(read) < Length
  BY DEF ReadPage
<1>2. Length' = Length
  BY <1>1, LengthKept
<1>3. CASE Len(read) >= Len(file) /\ pc' = "killed" /\ UNCHANGED read
  BY <1>1, <1>3, InACall DEF FileIInv, Types, CallPlaces, HeldInPlace, Opened, Viewed, Handled, ReadSoFar
<1>4. CASE Len(read) < Len(file) /\ read' = Append(read, file[Len(read) + 1]) /\ UNCHANGED pc
  <2>1. Len(read) \in Nat /\ Len(file) \in Nat /\ Length \in Int
    BY LengthIs DEF FileIInv, Types
  <2>2. file[Len(read) + 1] \in Nat
    BY <1>4, <2>1 DEF FileIInv, Types
  <2>3. /\ read' \in Seq(Nat) /\ Len(read') = Len(read) + 1
        /\ \A i \in 1 .. Len(read) : read'[i] = read[i]
        /\ read'[Len(read) + 1] = file[Len(read) + 1]
    BY <1>4, <2>1, <2>2 DEF FileIInv, Types
  <2>4. Types' /\ CallPlaces' /\ HeldInPlace'
    BY <1>1, <1>4, <2>3 DEF FileIInv, Types, CallPlaces, HeldInPlace, Opened, Viewed, Handled, Posix, Windows
  <2>5. steady' => Len(read') <= Len(file') /\ \A i \in 1 .. Len(read') : read'[i] = file'[i]
    <3>1. SUFFICES ASSUME steady PROVE \A i \in 1 .. Len(read) + 1 : read'[i] = file[i]
      BY <1>1, <1>4, <2>1, <2>3
    <3>2. \A i \in 1 .. Len(read) : read[i] = file[i]
      BY <1>1, <3>1 DEF FileIInv, ReadSoFar
    <3>. QED
      BY <2>1, <2>3, <3>2
  <2>6. steady' /\ build'.platform # "other" => size' = Len(file')
    BY <1>1 DEF FileIInv, ReadSoFar
  <2>7. ReadSoFar'
    BY <1>1, <1>2, <1>4, <2>1, <2>3, <2>5, <2>6 DEF ReadSoFar
  <2>8. pc' # "idle"
    BY <1>1, <1>4
  <2>. QED
    BY <2>4, <2>7, <2>8, InACall DEF FileIInv
<1>. QED
  BY <1>3, <1>4 DEF ReadPage

\* Nothing is claimed of a program that is killed.
LEMMA ReadBeforeStep == ASSUME FileIInv, ReadBefore PROVE FileIInv'
BY InACall DEF ReadBefore, FileIInv, Types, CallPlaces, HeldInPlace, ReadSoFar

\* All of the length was read: it is the size, and that is the one of the file.
LEMMA CloseStep == ASSUME FileIInv, Close PROVE FileIInv'
<1>1. UNCHANGED <<build, file, writes, calls, size, read, steady>> /\ pc = "close"
  BY DEF Close, Same
<1>2. /\ held' \in [fd : Int, handle : Int, view : Int]
      /\ held'.fd = held.fd - 1 /\ held'.handle = held.handle /\ held'.view = held.view
  BY GetGive DEF Close, FileIInv
<1>3. pc' = "idle" /\ raised' = raised
  BY DEF Close, Return, Raised, Error, FileIInv, Types
<1>a. Types' /\ CallPlaces' /\ ReadSoFar'
  BY <1>1, <1>2, <1>3 DEF FileIInv, Types, CallPlaces, ReadSoFar
<1>4. HeldInPlace'
  <2>1. Opened = 1 /\ Viewed = 0 /\ Handled = 0 /\ Opened' = 0 /\ Viewed' = 0 /\ Handled' = 0 /\ Windows' = Windows
    BY <1>1, <1>3 DEF Opened, Viewed, Handled, Windows
  <2>. QED
    BY <1>1, <1>2, <1>3, <2>1 DEF FileIInv, Types, HeldInPlace
<1>5. OkIsTheContent'
  <2>1. CASE Return(Error)
    BY <2>1 DEF Return, Error, OkIsTheContent
  <2>2. CASE Return([kind |-> "ok", len |-> Length, pages |-> read])
    <3>1. SUFFICES ASSUME steady, build.platform # "other", build.impl = "murmur3" => Len(file) < IntMax
                   PROVE  Length = Len(file) /\ read = file
      BY <1>1, <2>2 DEF Return, OkIsTheContent
    <3>2. /\ size = Len(file) /\ (Len(read) = 0 \/ Len(read) <= Length) /\ Len(read) >= Length
          /\ Len(read) <= Len(file) /\ \A i \in 1 .. Len(read) : read[i] = file[i]
      BY <1>1, <3>1 DEF FileIInv, ReadSoFar
    <3>3. Length = size
      BY <3>1, <3>2, LengthIs DEF FileIInv
    <3>4. Len(read) = Len(file)
      BY <3>2, <3>3 DEF FileIInv, Types
    <3>5. read = file
      BY <3>2, <3>4, SeqEqual DEF FileIInv, Types
    <3>. QED
      BY <3>2, <3>3, <3>5
  <2>. QED
    BY <2>1, <2>2 DEF Close
<1>. QED
  BY <1>a, <1>4, <1>5 DEF FileIInv

-----------------------------------------------------------------------------
(* Other programs *)

\* After a write of another program nothing is claimed of what is read.
LEMMA WrittenStep ==
  ASSUME FileIInv, file' \in Seq(Nat), writes' = writes + 1, steady' = FALSE,
         UNCHANGED <<build, calls, pc, size, read, held, raised, result>>
  PROVE  FileIInv'
<1>1. Length' = Length
  BY LengthKept
<1>2. Types'
  <2>0. writes \in Nat
    BY DEF FileIInv, Types
  <2>1. writes' \in Nat
    BY <2>0
  <2>3. steady' \in BOOLEAN
    OBVIOUS
  <2>2. /\ build' \in [platform : {"posix", "windows", "other"}, impl : {"xxhash", "murmur3"}]
        /\ held' \in [fd : Int, handle : Int, view : Int] /\ read' \in Seq(Nat) /\ size' \in Nat
        /\ pc' \in {"idle", "stat", "map", "advise", "view", "hash", "unmap", "closemap", "close", "killed"}
        /\ raised' \in Nat
    BY DEF FileIInv, Types
  <2>. QED
    BY <2>1, <2>2, <2>3 DEF Types
<1>3. CallPlaces'
  BY DEF FileIInv, CallPlaces, Posix, Windows
<1>4. HeldInPlace'
  BY DEF FileIInv, HeldInPlace, Opened, Viewed, Handled, Windows
<1>. QED
  BY <1>1, <1>2, <1>3, <1>4 DEF FileIInv, ReadSoFar, OkIsTheContent

\* Whatever the write is, the content stays one.
LEMMA OthersStep == ASSUME FileIInv, WritePage \/ Extend \/ Truncate PROVE FileIInv'
<1>0. file \in Seq(Nat) /\ writes + 1 \in Nat /\ Len(file) \in Nat
  BY DEF FileIInv, Types
<1>1. CASE WritePage
  <2>1. PICK i \in 1 .. Len(file) : Written([file EXCEPT ![i] = writes + 1])
    BY <1>1 DEF WritePage
  <2>2. [file EXCEPT ![i] = writes + 1] \in Seq(Nat)
    BY <1>0, ExceptSeq
  <2>. QED
    BY <2>1, <2>2, WrittenStep DEF Written
<1>2. CASE Extend
  <2>1. Append(file, writes + 1) \in Seq(Nat)
    BY <1>0
  <2>. QED
    BY <1>2, <2>1, WrittenStep DEF Extend, Written
<1>3. CASE Truncate
  <2>1. PICK n \in 0 .. Len(file) - 1 : Written(SubSeq(file, 1, n))
    BY <1>3 DEF Truncate
  <2>2. SubSeq(file, 1, n) \in Seq(Nat)
    BY <1>0
  <2>. QED
    BY <2>1, <2>2, WrittenStep DEF Written
<1>. QED
  BY <1>1, <1>2, <1>3

-----------------------------------------------------------------------------
(* Theorems *)

\* No step leaves the inductive invariant.
LEMMA FileNextIInv == ASSUME FileIInv, [FileNext]_fileVars PROVE FileIInv'
<1>1. CASE UNCHANGED fileVars
  <2>1. Length' = Length
    BY <1>1, LengthKept DEF fileVars
  <2>. QED
    BY <1>1, <2>1 DEF fileVars, FileIInv, Types, CallPlaces, HeldInPlace, Opened, Viewed, Handled, ReadSoFar, OkIsTheContent, Posix, Windows
<1>. QED
  BY <1>1, OpenStep, StatStep, MmapStep, MadviseStep, CreateFileMappingStep, MapViewOfFileStep,
     ReadPageStep, ReadBeforeStep, HashedStep, UnmapStep, CloseMappingStep, CloseStep, OthersStep
     DEF FileNext, File

\* The inductive invariant: what is held is a matter of the step of the call,
\* and what was read so far is the beginning of the file.
THEOREM CallInvariant == FileSpec => []FileIInv
<1>. QED
  BY FileInitIInv, FileNextIInv, PTL DEF FileSpec

\* What is held between calls was left by those that raised, and is one descriptor,
\* one view and one handle each at most; a call that answers leaves nothing.
THEOREM WhatCallsLeave == FileSpec => []LeftByRaised
<1>1. FileIInv => LeftByRaised
  <2>. SUFFICES ASSUME FileIInv, pc = "idle" PROVE LeftByRaised
    BY DEF LeftByRaised
  <2>1. Opened = 0 /\ Viewed = 0 /\ Handled = 0
    BY DEF Opened, Viewed, Handled
  <2>. QED
    BY <2>1 DEF FileIInv, Types, HeldInPlace, LeftByRaised
<1>. QED
  BY <1>1, CallInvariant, PTL

\* The hash of a file that is let alone is the one of its whole content.
THEOREM HashOfTheContent == FileSpec => []OkIsTheContent
<1>1. FileIInv => OkIsTheContent
  BY DEF FileIInv
<1>. QED
  BY <1>1, CallInvariant, PTL

\* The functions never read beyond the mapping.
THEOREM NothingBeyond == FileSpec => ReadsTheMapping
<1>1. ASSUME FileIInv, [FileNext]_fileVars
      PROVE  [pc # "killed" /\ pc' = "killed" =>
                Len(file) < size \/ (build.impl = "murmur3" /\ size >= IntMax)]_fileVars
  <2>1. SUFFICES ASSUME pc # "killed", pc' = "killed"
                 PROVE  Len(file) < size \/ (build.impl = "murmur3" /\ size >= IntMax)
    OBVIOUS
  <2>2. ReadPage \/ ReadBefore
    BY <1>1, <2>1 DEF fileVars, FileNext, File, Open, Stat, Mmap, Madvise, CreateFileMapping, MapViewOfFile,
       Hashed, Unmap, CloseMapping, Close, WritePage, Extend, Truncate, Written, Goto, Return, RaiseSysError
  <2>3. Length <= size /\ Length \in Int /\ Len(file) \in Nat /\ Len(read) \in Nat /\ size \in Nat
    BY <1>1, LengthIs DEF FileIInv, Types
  <2>4. CASE ReadPage
    BY <2>1, <2>3, <2>4 DEF ReadPage
  <2>5. CASE ReadBefore
    BY <1>1, <2>5, LengthIs DEF ReadBefore, FileIInv
  <2>. QED
    BY <2>2, <2>4, <2>5
<1>. QED
  BY <1>1, CallInvariant, PTL DEF FileSpec, ReadsTheMapping
=============================================================================
