----------------------------- MODULE QueueLemmas -----------------------------
(***************************************************************************)
(* What the proofs need of the message queues between two processes: what  *)
(* a queue holds after a message was written to it or read from it.        *)
(***************************************************************************)
EXTENDS Integers, SequenceTheorems, TLAPS

(* The messages in a queue. *)
Msgs(q) == {q[i] : i \in 1 .. Len(q)}

(* A message is written: it is the last, those before it stay. *)
LEMMA Appended ==
    ASSUME NEW S, NEW q \in Seq(S), NEW m \in S
    PROVE  /\ Append(q, m) \in Seq(S) /\ Append(q, m) # <<>>
           /\ Len(q) \in Nat /\ Len(Append(q, m)) = Len(q) + 1
           /\ \A i \in 1 .. Len(q) : Append(q, m)[i] = q[i]
           /\ Append(q, m)[Len(q) + 1] = m
BY AppendProperties, LenProperties

(* A message is read: the first, those behind it move up. *)
LEMMA Popped ==
    ASSUME NEW S, NEW q \in Seq(S), q # <<>>
    PROVE  /\ Head(q) = q[1] /\ Head(q) \in S /\ Tail(q) \in Seq(S)
           /\ Len(q) \in Nat \ {0} /\ Len(Tail(q)) = Len(q) - 1
           /\ \A i \in 1 .. Len(q) - 1 : Tail(q)[i] = q[i + 1]
           /\ Len(q) = 1 => Tail(q) = <<>>
<1>1. Len(q) \in Nat /\ Len(q) # 0
  BY LenProperties, EmptySeq
<1>2. /\ Head(q) \in S /\ Tail(q) \in Seq(S) /\ Len(Tail(q)) = Len(q) - 1
      /\ \A i \in 1 .. Len(Tail(q)) : Tail(q)[i] = q[i + 1]
  BY HeadTailProperties
<1>3. Head(q) = q[1]
  OBVIOUS
<1>4. Len(q) = 1 => Tail(q) = <<>>
  <2>1. \A s \in Seq(S) : Len(s) = 0 => s = <<>>
    BY EmptySeq
  <2>2. Len(q) = 1 => Len(Tail(q)) = 0
    BY <1>2
  <2> QED
    BY <1>2, <2>1, <2>2, Zenon
<1> QED
  BY <1>1, <1>2, <1>3, <1>4

LEMMA EmptyMsgs == Msgs(<<>>) = {}
BY DEF Msgs

LEMMA AppendedMsgs ==
    ASSUME NEW S, NEW q \in Seq(S), NEW m \in S
    PROVE  Msgs(Append(q, m)) = Msgs(q) \cup {m}
<1>n. PICK n \in Nat : n = Len(q)
  BY Appended
<1>1. /\ Len(Append(q, m)) = n + 1 /\ Append(q, m)[n + 1] = m
      /\ \A i \in 1 .. n : Append(q, m)[i] = q[i]
  BY <1>n, Appended
<1>2. \A i \in 1 .. n + 1 : i \in 1 .. n \/ i = n + 1
  BY <1>n
<1>3. n + 1 \in 1 .. n + 1 /\ \A i \in 1 .. n : i \in 1 .. n + 1
  BY <1>n
<1>4. Msgs(Append(q, m)) \subseteq Msgs(q) \cup {m}
  BY <1>n, <1>1, <1>2 DEF Msgs
<1>5. Msgs(q) \cup {m} \subseteq Msgs(Append(q, m))
  BY <1>n, <1>1, <1>3 DEF Msgs
<1> QED
  BY <1>4, <1>5

LEMMA PoppedMsgs ==
    ASSUME NEW S, NEW q \in Seq(S), q # <<>>
    PROVE  Head(q) \in Msgs(q) /\ Msgs(Tail(q)) \subseteq Msgs(q)
<1>n. PICK n \in Nat \ {0} : n = Len(q)
  BY Popped
<1>1. /\ Head(q) = q[1] /\ Len(Tail(q)) = n - 1
      /\ \A i \in 1 .. n - 1 : Tail(q)[i] = q[i + 1]
  BY <1>n, Popped
<1>2. 1 \in 1 .. n /\ \A i \in 1 .. n - 1 : i + 1 \in 1 .. n
  BY <1>n
<1> QED
  BY <1>n, <1>1, <1>2 DEF Msgs
==============================================================================
