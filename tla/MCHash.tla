------------------------------- MODULE MCHash -------------------------------
(***************************************************************************)
(* Two states and two seeds; segments that are empty, shorter than a word, *)
(* one stripe of XXH32, and several stripes with a rest for both functions.*)
(* The length of XXH32 wraps at 32, so that inputs reach twice that.       *)
(***************************************************************************)
EXTENDS XXHStream, Murmur, TLC

MCSegment == {0, 5, 16, 59}
Symmetry == Permutations(Handle) \cup Permutations(Seed)

\* The three functions of MurmurHash3, likewise (the blocks and the switch for
\* the tail).
MurmurAbsorbsInput ==
  \A h \in Handle :
    LET len == given[h].len IN
      /\ EveryByteOnce(MurmurHash3_x86_32(target.cpu, Input, len, given[h].seed).lanes, len)
      /\ EveryByteOnce(MurmurHash3_x86_128(target.cpu, Input, len, given[h].seed).lanes, len)
      /\ EveryByteOnce(MurmurHash3_x64_128(target.cpu, Input, len, given[h].seed).lanes, len)

\* Every hash function reads each byte of an input once, whatever its length:
\* none is skipped or read twice where stripes, blocks and the rest meet.
AbsorbsInput == XXHAbsorbsInput /\ MurmurAbsorbsInput
=============================================================================
