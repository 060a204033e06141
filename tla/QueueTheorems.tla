---------------------------- MODULE QueueTheorems ----------------------------
(***************************************************************************)
(* What the proofs about the gateway and the working space need to know of *)
(* queues: how an element leaves at the front and a batch moves from one   *)
(* queue to the next.                                                      *)
(***************************************************************************)
EXTENDS SequenceTheorems, TLAPS

(* A sequence is its head and its tail.                                    *)
LEMMA HeadAndTail ==
  ASSUME NEW S, NEW s \in Seq(S), s # <<>>
  PROVE  Head(s) \in S /\ Tail(s) \in Seq(S) /\ s = <<Head(s)>> \o Tail(s)
<1>1. Len(s) \in Nat \ {0}
  BY EmptySeq
<1>2. Head(s) \in S /\ Tail(s) \in Seq(S)
  BY HeadTailProperties
<1>3. Tail(s) = SubSeq(s, 2, Len(s)) /\ SubSeq(s, 1, Len(s)) = s
  BY TailIsSubSeq, SubSeqFull
<1>4. 1 \in 1 .. Len(s) /\ Len(s) \in 1 .. Len(s)
  BY <1>1
<1>5. SubSeq(s, 1, Len(s)) = <<s[1]>> \o SubSeq(s, 1 + 1, Len(s))
  BY <1>4, SubSeqRecursiveFirst
<1>6. Head(SubSeq(s, 1, Len(s))) = s[1]
  BY <1>4, HeadTailOfSubSeq
<1>7. SubSeq(s, 1 + 1, Len(s)) = SubSeq(s, 2, Len(s))
  BY 1 + 1 = 2
<1>8. Head(s) = s[1]
  BY <1>3, <1>6
<1> QED  BY <1>2, <1>3, <1>5, <1>7, <1>8

(* A queue is the batch taken off it and what is left.                     *)
LEMMA Splitting ==
  ASSUME NEW S, NEW s \in Seq(S), NEW n \in 0 .. Len(s)
  PROVE  /\ SubSeq(s, 1, n) \in Seq(S)
         /\ SubSeq(s, n + 1, Len(s)) \in Seq(S)
         /\ s = SubSeq(s, 1, n) \o SubSeq(s, n + 1, Len(s))
<1>1. Len(s) \in Nat /\ \A i \in 1 .. Len(s) : s[i] \in S
  BY LenProperties, ElementOfSeq
<1>2. \A i \in 1 .. n : s[i] \in S
  BY <1>1
<1>3. \A i \in n + 1 .. Len(s) : s[i] \in S
  BY <1>1
<1>4. SubSeq(s, 1, n) \in Seq(S)
  BY <1>2, SubSeqProperties
<1>5. n + 1 \in Int /\ Len(s) \in Int
  BY <1>1
<1>6. SubSeq(s, n + 1, Len(s)) \in Seq(S)
  BY <1>3, <1>5, SubSeqProperties
<1>7. 1 \in 1 .. Len(s) + 1 /\ n \in 1 - 1 .. Len(s) /\ Len(s) \in n .. Len(s)
  BY <1>1
<1>8. SubSeq(s, 1, n) \o SubSeq(s, n + 1, Len(s)) = SubSeq(s, 1, Len(s))
  BY <1>7, ConcatAdjacentSubSeq
<1>9. SubSeq(s, 1, Len(s)) = s
  BY SubSeqFull
<1> QED  BY <1>4, <1>6, <1>8, <1>9

(* A one-element sequence may be moved from the head of the right part to  *)
(* the end of the left part.                                               *)
LEMMA MoveOne ==
  ASSUME NEW S, NEW s \in Seq(S), NEW x \in S, NEW t \in Seq(S)
  PROVE  (s \o <<x>>) \o t = s \o (<<x>> \o t) /\ <<x>> \in Seq(S)
<1>1. <<x>> \in Seq(S)
  <2>1. <<>> \in Seq(S)
    BY EmptySeq
  <2>2. Append(<<>>, x) \in Seq(S) /\ Append(<<>>, x) = <<>> \o <<x>>
    BY <2>1, AppendProperties, AppendIsConcat
  <2>3. Append(<<>>, x) = <<x>>
    OBVIOUS
  <2> QED  BY <2>2, <2>3
<1> QED  BY <1>1, ConcatAssociative

(* A sequence over a set is one over any larger set.                       *)
LEMMA SeqOfMore ==
  ASSUME NEW S, NEW T, S \subseteq T, NEW s \in Seq(S)
  PROVE  s \in Seq(T)
<1>1. Len(s) \in Nat /\ s \in [1 .. Len(s) -> S]
  BY LenProperties
<1>2. s \in [1 .. Len(s) -> T]
  BY <1>1
<1> QED  BY <1>1, <1>2, SeqDef

(* What is first in the left part of a queue is first in the whole.        *)
LEMMA HeadOfFirst ==
  ASSUME NEW S, NEW s \in Seq(S), NEW t \in Seq(S), s # <<>>
  PROVE  /\ s \o t # <<>>
         /\ Head(s \o t) = Head(s)
         /\ Tail(s \o t) = Tail(s) \o t
BY ConcatProperties, HeadTailProperties, EmptySeq, SMTT(30)

(* An element that enters the right part enters the whole.                *)
LEMMA AppendToSecond ==
  ASSUME NEW S, NEW s \in Seq(S), NEW t \in Seq(S), NEW x \in S
  PROVE  s \o Append(t, x) = Append(s \o t, x)
<1>1. Append(t, x) = t \o <<x>> /\ Append(s \o t, x) = (s \o t) \o <<x>>
  BY ConcatProperties, AppendIsConcat
<1>2. <<x>> \in Seq(S)
  BY MoveOne
<1> QED  BY <1>1, <1>2, ConcatAssociative
=============================================================================
