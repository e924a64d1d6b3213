------------------------------ MODULE SeqLemmas ------------------------------
(***************************************************************************)
(* Lists and queues seen as the set of their elements.  The proofs about   *)
(* the handlers keep their queues without duplicates: then what leaves a   *)
(* queue leaves its set.                                                   *)
(***************************************************************************)
EXTENDS Functions, SequenceTheorems, TLAPS

\* A sequence is empty iff it has no element.
LEMMA EmptyIffNoElement ==
  ASSUME NEW S, NEW s \in Seq(S)
  PROVE  s = <<>> <=> Range(s) = {}
<1>1. s = <<>> => Range(s) = {}
  BY DEF Range
<1>2. ASSUME s # <<>> PROVE Range(s) # {}
  <2>1. Len(s) \in Nat \ {0}
    BY <1>2, EmptySeq
  <2>2. 1 \in DOMAIN s
    BY <2>1, LenProperties
  <2> QED
    BY <2>2 DEF Range
<1> QED
  BY <1>1, <1>2

\* One more element, at the end: Queue.add.
LEMMA RangeOfAppend ==
  ASSUME NEW S, NEW s \in Seq(S), NEW x \in S
  PROVE  /\ Append(s, x) \in Seq(S)
         /\ Range(Append(s, x)) = Range(s) \cup {x}
         /\ IsInjective(s) /\ x \notin Range(s) => IsInjective(Append(s, x))
<1> DEFINE t == Append(s, x)
<1>1. /\ t \in Seq(S)
      /\ Len(t) = Len(s) + 1
      /\ \A i \in 1 .. Len(s) : t[i] = s[i]
      /\ t[Len(s) + 1] = x
  BY AppendProperties
<1>2. /\ DOMAIN s = 1 .. Len(s)
      /\ DOMAIN t = 1 .. (Len(s) + 1)
      /\ Len(s) \in Nat
  BY <1>1, LenProperties
<1> HIDE DEF t
<1>3. Range(t) = Range(s) \cup {x}
  BY <1>1, <1>2 DEF Range
<1>4. ASSUME IsInjective(s), x \notin Range(s) PROVE IsInjective(t)
  BY <1>1, <1>2, <1>4 DEF Range, IsInjective
<1> QED
  BY <1>1, <1>3, <1>4 DEF t

\* One more element, at the front of a list.
LEMMA RangeOfCons ==
  ASSUME NEW S, NEW s \in Seq(S), NEW x \in S
  PROVE  /\ <<x>> \o s \in Seq(S)
         /\ <<x>> \o s # <<>>
         /\ Range(<<x>> \o s) = Range(s) \cup {x}
         /\ IsInjective(s) /\ x \notin Range(s) => IsInjective(<<x>> \o s)
<1> DEFINE t == <<x>> \o s
<1>1. /\ t \in Seq(S)
      /\ Len(t) = 1 + Len(s)
      /\ \A i \in 1 .. (1 + Len(s)) : t[i] = IF i <= 1 THEN x ELSE s[i - 1]
  BY ConcatProperties, <<x>> \in Seq(S), Len(<<x>>) = 1, <<x>>[1] = x
<1>2. /\ DOMAIN s = 1 .. Len(s)
      /\ DOMAIN t = 1 .. (1 + Len(s))
      /\ Len(s) \in Nat
  BY <1>1, LenProperties
<1> HIDE DEF t
<1>3. \A i \in DOMAIN s : i + 1 \in DOMAIN t /\ t[i + 1] = s[i]
  BY <1>1, <1>2
<1>4. Range(t) = Range(s) \cup {x}
  BY <1>1, <1>2, <1>3 DEF Range
<1>5. ASSUME IsInjective(s), x \notin Range(s) PROVE IsInjective(t)
  <2> SUFFICES ASSUME NEW i \in DOMAIN t, NEW j \in DOMAIN t, t[i] = t[j]
               PROVE  i = j
    BY DEF IsInjective
  <2>1. \A k \in DOMAIN t : k # 1 => k - 1 \in DOMAIN s /\ t[k] = s[k - 1]
    BY <1>1, <1>2
  <2>2. \A k \in DOMAIN t : k # 1 => t[k] # x
    BY <1>5, <2>1 DEF Range
  <2>3. t[1] = x
    BY <1>1, <1>2
  <2>4. CASE i = 1 \/ j = 1
    BY <2>2, <2>3, <2>4
  <2>5. CASE i # 1 /\ j # 1
    BY <1>2, <1>5, <2>1, <2>5 DEF IsInjective
  <2> QED
    BY <2>4, <2>5
<1>6. t # <<>>
  BY <1>1, <1>2, EmptySeq
<1> QED
  BY <1>1, <1>4, <1>5, <1>6 DEF t

\* The first element leaves: Queue.take, and the step of an iteration.
LEMMA RangeOfTail ==
  ASSUME NEW S, NEW s \in Seq(S), s # <<>>, IsInjective(s)
  PROVE  /\ Head(s) \in S
         /\ Tail(s) \in Seq(S)
         /\ Head(s) \in Range(s)
         /\ Range(Tail(s)) = Range(s) \ {Head(s)}
         /\ IsInjective(Tail(s))
<1> DEFINE t == Tail(s)
<1>1. /\ Head(s) \in S
      /\ t \in Seq(S)
      /\ Len(t) = Len(s) - 1
      /\ \A i \in 1 .. Len(t) : t[i] = s[i + 1]
  BY HeadTailProperties
<1>2. /\ DOMAIN s = 1 .. Len(s)
      /\ DOMAIN t = 1 .. Len(t)
      /\ Len(s) \in Nat \ {0}
      /\ Head(s) = s[1]
  BY <1>1, LenProperties, EmptySeq
<1> HIDE DEF t
<1>3. Head(s) \in Range(s)
  BY <1>2 DEF Range
<1>4. IsInjective(t)
  <2> SUFFICES ASSUME NEW i \in DOMAIN t, NEW j \in DOMAIN t, t[i] = t[j]
               PROVE  i = j
    BY DEF IsInjective
  <2>1. i \in 1 .. Len(t) /\ j \in 1 .. Len(t)
    BY <1>2
  <2>2. s[i + 1] = s[j + 1]
    BY <1>1, <2>1
  <2>3. i + 1 \in DOMAIN s /\ j + 1 \in DOMAIN s
    BY <1>1, <1>2, <2>1
  <2>4. i + 1 = j + 1
    BY <2>2, <2>3 DEF IsInjective
  <2> QED
    BY <2>1, <2>4
<1>5. \A y \in Range(t) : y \in Range(s) /\ y # Head(s)
  BY <1>1, <1>2 DEF Range, IsInjective
<1>6. \A y \in Range(s) : y # Head(s) => y \in Range(t)
  <2> SUFFICES ASSUME NEW i \in DOMAIN s, s[i] # s[1]
               PROVE  s[i] \in Range(t)
    BY <1>2 DEF Range
  <2>1. i - 1 \in DOMAIN t /\ t[i - 1] = s[i]
    BY <1>1, <1>2
  <2> QED
    BY <2>1 DEF Range
<1> QED
  BY <1>1, <1>3, <1>4, <1>5, <1>6 DEF t
=============================================================================
