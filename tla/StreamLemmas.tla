--------------------------- MODULE StreamLemmas ---------------------------
(***************************************************************************)
(* Facts about streams as sequences, for the proofs about NativeReceive and *)
(* NativeSend: units that move from one buffer to the next, a whole or a    *)
(* head at a time, leave the concatenation of the buffers as it is.         *)
(***************************************************************************)
EXTENDS Integers, Sequences, SequenceTheorems, TLAPS

(* The first units of a stream.                                            *)
Prefix(n) == [i \in 1 .. n |-> i]

(* Moving the head of one sequence to the end of another in front of it.   *)
LEMMA MoveHead ==
    ASSUME NEW S, NEW s \in Seq(S), NEW t \in Seq(S), t # <<>>
    PROVE  Append(s, Head(t)) \o Tail(t) = s \o t
<1>1. Head(t) \in S /\ Tail(t) \in Seq(S) /\ Append(s, Head(t)) \in Seq(S)
    BY HeadTailProperties, AppendProperties
<1>2. /\ Len(t) \in Nat /\ Len(s) \in Nat
      /\ Len(Tail(t)) = Len(t) - 1
      /\ Len(Append(s, Head(t))) = Len(s) + 1
    BY <1>1, HeadTailProperties, AppendProperties, LenProperties
<1>3. /\ Append(s, Head(t)) \o Tail(t) \in Seq(S)
      /\ Len(Append(s, Head(t)) \o Tail(t)) = Len(s) + Len(t)
    BY <1>1, <1>2, ConcatProperties
<1>4. s \o t \in Seq(S) /\ Len(s \o t) = Len(s) + Len(t)
    BY ConcatProperties
<1>5. ASSUME NEW i \in 1 .. Len(s) + Len(t)
      PROVE  (Append(s, Head(t)) \o Tail(t))[i] = (s \o t)[i]
    BY <1>1, <1>2
<1> QED
    BY <1>3, <1>4, <1>5, SeqEqual

LEMMA MoveHeadBefore ==
    ASSUME NEW S, NEW s \in Seq(S), NEW t \in Seq(S), NEW u \in Seq(S), t # <<>>
    PROVE  Append(s, Head(t)) \o (Tail(t) \o u) = s \o (t \o u)
<1>1. Tail(t) \in Seq(S) /\ Append(s, Head(t)) \in Seq(S)
    BY HeadTailProperties, AppendProperties
<1>2. Append(s, Head(t)) \o (Tail(t) \o u) = (Append(s, Head(t)) \o Tail(t)) \o u
    BY <1>1, ConcatAssociative
<1>3. (s \o t) \o u = s \o (t \o u)
    BY ConcatAssociative
<1> QED
    BY <1>2, <1>3, MoveHead

(* The two parts a sequence is cut into make up the sequence.              *)
LEMMA CutInTwo ==
    ASSUME NEW S, NEW t \in Seq(S), NEW n \in 1 .. Len(t)
    PROVE  SubSeq(t, 1, n) \o SubSeq(t, n + 1, Len(t)) = t
<1>1. Len(t) \in Nat /\ n \in Nat /\ n <= Len(t) /\ n >= 1
    BY LenProperties
<1> QED
    BY <1>1, ConcatAdjacentSubSeq, SubSeqFull

(* The types and lengths of these parts.                                   *)
LEMMA Parts ==
    ASSUME NEW S, NEW t \in Seq(S), NEW n \in Nat, 1 <= n, n <= Len(t)
    PROVE  /\ SubSeq(t, 1, n) \in Seq(S) /\ Len(SubSeq(t, 1, n)) = n
           /\ SubSeq(t, n + 1, Len(t)) \in Seq(S)
           /\ Len(SubSeq(t, n + 1, Len(t))) = Len(t) - n
<1>1. Len(t) \in Nat
    BY LenProperties
<1>2. \A i \in 1 .. Len(t) : t[i] \in S
    BY ElementOfSeq
<1>3. \A i \in 1 .. n : t[i] \in S
    BY <1>1, <1>2
<1> QED
    BY <1>1, <1>2, <1>3, SubSeqProperties

(* Moving the first n units of a sequence to the end of the one in front.   *)
LEMMA MoveSome ==
    ASSUME NEW S, NEW s \in Seq(S), NEW t \in Seq(S),
           NEW n \in Nat, 1 <= n, n <= Len(t)
    PROVE  (s \o SubSeq(t, 1, n)) \o SubSeq(t, n + 1, Len(t)) = s \o t
<1> DEFINE front == SubSeq(t, 1, n)
           rest  == SubSeq(t, n + 1, Len(t))
<1>1. front \in Seq(S) /\ rest \in Seq(S)
    BY Parts
<1>2. front \o rest = t
    <2>1. n \in 1 .. Len(t)
        BY LenProperties
    <2> QED
        BY <2>1, CutInTwo
<1> HIDE DEF front, rest
<1>3. (s \o front) \o rest = s \o (front \o rest)
    BY <1>1, ConcatAssociative
<1>4. (s \o front) \o rest = s \o t
    BY <1>2, <1>3
<1> QED
    BY <1>4 DEF front, rest

(* The next unit of the stream continues a prefix of it.                   *)
LEMMA PrefixAppend ==
    ASSUME NEW n \in Nat
    PROVE  /\ Prefix(n) \in Seq(Nat) /\ Len(Prefix(n)) = n
           /\ Append(Prefix(n), n + 1) = Prefix(n + 1)
<1>1. /\ Prefix(n) \in Seq(Nat) /\ Len(Prefix(n)) = n
      /\ Prefix(n + 1) \in Seq(Nat) /\ Len(Prefix(n + 1)) = n + 1
    BY DEF Prefix
<1>2. /\ Append(Prefix(n), n + 1) \in Seq(Nat)
      /\ Len(Append(Prefix(n), n + 1)) = n + 1
    BY <1>1, AppendProperties
<1>3. ASSUME NEW i \in 1 .. n + 1
      PROVE  Append(Prefix(n), n + 1)[i] = Prefix(n + 1)[i]
    BY <1>1, AppendProperties DEF Prefix
<1> QED
    BY <1>1, <1>2, <1>3, SeqEqual
=============================================================================
