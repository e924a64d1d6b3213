------------------------------ MODULE HashSpec ------------------------------
(***************************************************************************)
(* What src-std/xxhash.h promises of the streaming functions: the hash of  *)
(* "an input provided in multiple segments", at any time, in a form that   *)
(* is the same on different systems.  A state is nothing but the seed and  *)
(* the length of what it was given; the byte at a position is named by it. *)
(***************************************************************************)
EXTENDS XXHash

CONSTANTS Handle, Seed, Segment

VARIABLES
  target,  \* the function and the processor
  alloc,   \* Handle -> "none", "raw" (allocated) or "live" (reset)
  given,   \* Handle -> [seed, len]: the input since the last reset
  out      \* Handle -> the last hash, none after a change

vars == <<target, alloc, given, out>>

Input == [i \in Nat |-> i]

\* The bytes of a hash, least significant first.
Value(digest) == [i \in 0 .. WordLen(target) - 1 |-> [of |-> digest, byte |-> i]]

Init ==
  /\ target \in Target
  /\ alloc = [h \in Handle |-> "none"]
  /\ given \in [Handle -> [seed : Seed, len : {0}]]
  /\ out = [h \in Handle |-> {}]

Alloc(h, a) ==
  /\ alloc' = [alloc EXCEPT ![h] = a]
  /\ out' = [out EXCEPT ![h] = {}]
  /\ UNCHANGED <<target, given>>

\* The state of h has got input g.
Holds(h, g) ==
  /\ given' = [given EXCEPT ![h] = g]
  /\ alloc' = [alloc EXCEPT ![h] = "live"]
  /\ out' = [out EXCEPT ![h] = {}]
  /\ UNCHANGED target

Reset(h, seed) == Holds(h, [seed |-> seed, len |-> 0])
Copy(dst, src) == alloc[src] = "live" /\ Holds(dst, given[src])
Update(h, len) == alloc[h] = "live" /\ Holds(h, [given[h] EXCEPT !.len = @ + len])

\* The hash of the input as one segment, most significant byte first, and what
\* it is when read back: neither depends on the processor.
Digest(h) ==
  LET len   == WordLen(target)
      value == Value(OneShot([target EXCEPT !.cpu = "little"], Input, given[h].len, given[h].seed))
  IN  /\ alloc[h] = "live"
      /\ out' = [out EXCEPT ![h] =
                   {[canonical |-> [i \in 0 .. len - 1 |-> value[len - 1 - i]],
                     hash      |-> value]}]
      /\ UNCHANGED <<target, alloc, given>>

Next ==
  \E h \in Handle :
    \/ \E a \in {"none", "raw"} : Alloc(h, a)
    \/ \E seed \in Seed : Reset(h, seed)
    \/ \E s \in Handle : Copy(h, s)
    \/ \E len \in Segment : Update(h, len)
    \/ Digest(h)

Spec == Init /\ [][Next]_vars
=============================================================================
