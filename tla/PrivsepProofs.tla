----------------------------- MODULE PrivsepProofs -----------------------------
(***************************************************************************)
(* Proofs about Privsep: the inductive invariant IInv, from which the      *)
(* framing of the stream, the wakeups of the launcher and the order of the *)
(* commands follow.                                                        *)
(***************************************************************************)
EXTENDS Privsep, SequenceTheorems, TLAPS

(* A message has a header and fits into the pipe and the buffer.           *)
LEMMA LengthFacts ==
  \A m \in Messages :
      /\ Length(m) \in Nat /\ Length(m) > 0
      /\ HeaderSize <= Length(m) /\ Length(m) <= HeaderSize + BodySize
  BY PrivsepAssumption DEF Length

LEMMA BytesFacts ==
  ASSUME NEW m \in Messages
  PROVE  /\ Bytes(m) \in Seq(Byte) /\ Len(Bytes(m)) = Length(m)
         /\ \A k \in 1 .. Length(m) : Bytes(m)[k] = [msg |-> m, pos |-> k]
<1>1. Length(m) \in Nat /\ Length(m) <= HeaderSize + BodySize
  BY LengthFacts
<1>2. \A k \in 1 .. Length(m) : [msg |-> m, pos |-> k] \in Byte
  BY <1>1, PrivsepAssumption DEF Byte
<1>3. Bytes(m) \in [1 .. Length(m) -> Byte]
  BY <1>2 DEF Bytes
<1>4. Bytes(m) \in Seq(Byte) /\ Len(Bytes(m)) = Length(m)
  BY <1>1, <1>3 DEF Bytes
<1> QED
  BY <1>4 DEF Bytes

LEMMA ByteFacts ==
  ASSUME NEW s \in Seq(Byte), NEW i \in 1 .. Len(s)
  PROVE  s[i] \in Byte /\ s[i].msg \in Messages /\ s[i].pos \in Nat /\ s[i].pos > 0
<1>1. s[i] \in Byte
  BY ElementOfSeq
<1>2. HeaderSize + BodySize \in Nat
  BY PrivsepAssumption
<1> QED
  BY <1>1, <1>2 DEF Byte

(* Where the first message of a stream ends the next one begins.           *)
LEMMA FirstMessage ==
  ASSUME NEW s \in Seq(Byte), Whole(s), s # <<>>
  PROVE  /\ s[1].msg \in Messages
         /\ Length(s[1].msg) \in 1 .. Len(s)
         /\ \A k \in 1 .. Length(s[1].msg) : s[k] = [msg |-> s[1].msg, pos |-> k]
         /\ \A i \in Length(s[1].msg) + 1 .. Len(s) : i - s[i].pos >= Length(s[1].msg)
<1> DEFINE L == Length(s[1].msg)
<1>1. Len(s) \in Nat \ {0} /\ 1 \in 1 .. Len(s)
  BY EmptySeq
<1>2. s[1].msg \in Messages /\ s[1].pos \in Nat /\ s[1].pos > 0
  BY <1>1, ByteFacts
<1>3. L \in Nat /\ L > 0
  BY <1>2, LengthFacts
<1>4. s[1].pos = 1
  BY <1>1, <1>2 DEF Whole
<1>5. L <= Len(s) /\ \A k \in 1 .. L : s[k] = [msg |-> s[1].msg, pos |-> k]
  <2>1. /\ 1 - s[1].pos + L <= Len(s)
        /\ \A k \in 1 .. L : s[1 - s[1].pos + k] = [msg |-> s[1].msg, pos |-> k]
    BY <1>1 DEF Whole
  <2> HIDE DEF L
  <2>2. \A k \in 1 .. L : 1 - s[1].pos + k = k
    BY <1>3, <1>4
  <2> QED
    BY <1>3, <1>4, <2>1, <2>2
<1>6. ASSUME NEW i \in L + 1 .. Len(s)
      PROVE  i - s[i].pos >= L
  <2> HIDE DEF L
  <2>1. i \in 1 .. Len(s) /\ i > L
    BY <1>1, <1>3, <1>6
  <2>2. /\ s[i].msg \in Messages /\ s[i].pos \in Nat /\ s[i].pos > 0
        /\ Length(s[i].msg) \in Nat /\ Length(s[i].msg) > 0
    BY <2>1, ByteFacts, LengthFacts
  <2>3. /\ s[i].pos <= i /\ s[i].pos <= Length(s[i].msg)
        /\ \A k \in 1 .. Length(s[i].msg) :
             s[i - s[i].pos + k] = [msg |-> s[i].msg, pos |-> k]
    BY <2>1 DEF Whole
  <2> DEFINE b == i - s[i].pos
  <2>4. b \in Nat
    BY <2>1, <2>2, <2>3
  <2>5. s[b + 1] = [msg |-> s[i].msg, pos |-> 1]
    BY <2>2, <2>3
  <2>6. SUFFICES ASSUME b < L PROVE FALSE
    BY <2>4, <1>3
  <2>7. s[b + 1] = [msg |-> s[1].msg, pos |-> b + 1]
    <3> HIDE DEF b
    <3>1. b + 1 \in 1 .. L
      BY <2>4, <2>6, <1>3
    <3> QED
      BY <1>5, <3>1
  <2>8. b = 0 /\ s[i].msg = s[1].msg
    <3> HIDE DEF b
    <3> QED
      BY <2>4, <2>5, <2>7
  <2>9. s[i].pos = i /\ i <= L
    BY <2>1, <2>2, <2>3, <2>8 DEF L
  <2> QED
    BY <2>1, <2>9, <1>3
<1> QED
  BY <1>1, <1>2, <1>3, <1>5, <1>6

(* A whole message may be appended.                                        *)
LEMMA WholeAppend ==
  ASSUME NEW s \in Seq(Byte), Whole(s), NEW m \in Messages
  PROVE  Whole(s \o Bytes(m))
<1> DEFINE B == Bytes(m)
           t == s \o B
<1>1. /\ B \in Seq(Byte) /\ Len(B) = Length(m) /\ Length(m) \in Nat
      /\ \A k \in 1 .. Length(m) : B[k] = [msg |-> m, pos |-> k]
  BY BytesFacts, LengthFacts
<1>2. /\ t \in Seq(Byte) /\ Len(s) \in Nat /\ Len(t) = Len(s) + Length(m)
      /\ \A i \in 1 .. Len(s) : t[i] = s[i]
      /\ \A k \in 1 .. Length(m) : t[Len(s) + k] = [msg |-> m, pos |-> k]
  <2>1. /\ t \in Seq(Byte) /\ Len(t) = Len(s) + Len(B) /\ Len(s) \in Nat
        /\ \A i \in 1 .. Len(s) + Len(B) : t[i] = IF i <= Len(s) THEN s[i] ELSE B[i - Len(s)]
    <3> HIDE DEF B
    <3>1. Len(s) \in Nat
      BY LenProperties
    <3>2. /\ s \o B \in Seq(Byte) /\ Len(s \o B) = Len(s) + Len(B)
          /\ \A i \in 1 .. Len(s) + Len(B) :
               (s \o B)[i] = IF i <= Len(s) THEN s[i] ELSE B[i - Len(s)]
      BY <1>1, ConcatProperties, Zenon
    <3> QED
      BY <3>1, <3>2, Zenon
  <2> HIDE DEF t, B
  <2>2. ASSUME NEW i \in 1 .. Len(s) PROVE t[i] = s[i]
    BY <1>1, <2>1
  <2>3. ASSUME NEW k \in 1 .. Length(m) PROVE t[Len(s) + k] = [msg |-> m, pos |-> k]
    <3>1. Len(s) + k \in 1 .. Len(s) + Len(B) /\ ~(Len(s) + k <= Len(s)) /\ (Len(s) + k) - Len(s) = k
      BY <1>1, <2>1
    <3> QED
      BY <1>1, <2>1, <3>1
  <2> QED
    BY <1>1, <2>1, <2>2, <2>3
<1> HIDE DEF t, B
<1>3. ASSUME NEW i \in 1 .. Len(s)
      PROVE  /\ t[i].pos <= i /\ t[i].pos <= Length(t[i].msg)
             /\ i - t[i].pos + Length(t[i].msg) <= Len(t)
             /\ \A k \in 1 .. Length(t[i].msg) :
                  t[i - t[i].pos + k] = [msg |-> t[i].msg, pos |-> k]
  <2>1. /\ s[i].msg \in Messages /\ s[i].pos \in Nat /\ s[i].pos > 0
        /\ Length(s[i].msg) \in Nat
    BY ByteFacts, LengthFacts
  <2>2. /\ s[i].pos <= i /\ s[i].pos <= Length(s[i].msg)
        /\ i - s[i].pos + Length(s[i].msg) <= Len(s)
        /\ \A k \in 1 .. Length(s[i].msg) :
             s[i - s[i].pos + k] = [msg |-> s[i].msg, pos |-> k]
    BY DEF Whole
  <2>3. \A k \in 1 .. Length(s[i].msg) : i - s[i].pos + k \in 1 .. Len(s)
    BY <1>2, <2>1, <2>2
  <2>4. t[i] = s[i]
    BY <1>2
  <2>5. ASSUME NEW k \in 1 .. Length(s[i].msg)
        PROVE  t[i - s[i].pos + k] = [msg |-> s[i].msg, pos |-> k]
    BY <1>2, <2>2, <2>3
  <2>6. i - s[i].pos + Length(s[i].msg) <= Len(t)
    BY <1>1, <1>2, <2>1, <2>2
  <2> QED
    BY <2>2, <2>4, <2>5, <2>6
<1>4. ASSUME NEW j \in 1 .. Length(m)
      PROVE  /\ t[Len(s) + j].pos <= Len(s) + j
             /\ t[Len(s) + j].pos <= Length(t[Len(s) + j].msg)
             /\ (Len(s) + j) - t[Len(s) + j].pos + Length(t[Len(s) + j].msg) <= Len(t)
             /\ \A k \in 1 .. Length(t[Len(s) + j].msg) :
                  t[(Len(s) + j) - t[Len(s) + j].pos + k] = [msg |-> t[Len(s) + j].msg, pos |-> k]
  <2>1. t[Len(s) + j] = [msg |-> m, pos |-> j]
    BY <1>2
  <2>2. (Len(s) + j) - j = Len(s) /\ j <= Len(s) + j /\ j <= Length(m)
    BY <1>1, <1>2
  <2>3. t[Len(s) + j].msg = m /\ t[Len(s) + j].pos = j
    BY <2>1
  <2>4. Len(s) + Length(m) <= Len(t)
    BY <1>1, <1>2
  <2> QED
    BY <1>2, <2>2, <2>3, <2>4
<1>5. \A i \in 1 .. Len(t) : i \in 1 .. Len(s) \/ \E j \in 1 .. Length(m) : i = Len(s) + j
  <2> SUFFICES ASSUME NEW i \in 1 .. Len(t), ~(i \in 1 .. Len(s))
               PROVE  \E j \in 1 .. Length(m) : i = Len(s) + j
    OBVIOUS
  <2>1. i - Len(s) \in 1 .. Length(m) /\ i = Len(s) + (i - Len(s))
    BY <1>1, <1>2
  <2> QED
    BY <2>1
<1>6. ASSUME NEW i \in 1 .. Len(t)
      PROVE  /\ t[i].pos <= i /\ t[i].pos <= Length(t[i].msg)
             /\ i - t[i].pos + Length(t[i].msg) <= Len(t)
             /\ \A k \in 1 .. Length(t[i].msg) :
                  t[i - t[i].pos + k] = [msg |-> t[i].msg, pos |-> k]
  <2>1. CASE i \in 1 .. Len(s)
    BY <1>3, <2>1
  <2>2. CASE \E j \in 1 .. Length(m) : i = Len(s) + j
    <3>1. PICK j \in 1 .. Length(m) : i = Len(s) + j
      BY <2>2
    <3> QED
      BY <1>4, <3>1
  <2> QED
    BY <1>5, <2>1, <2>2
<1>7. Whole(t)
  BY <1>6 DEF Whole
<1> QED
  BY <1>7 DEF t, B

(* The first message may be taken away.                                    *)
LEMMA WholeDrop ==
  ASSUME NEW s \in Seq(Byte), Whole(s), s # <<>>
  PROVE  LET L == Length(s[1].msg)
             t == SubSeq(s, L + 1, Len(s))
         IN  /\ t \in Seq(Byte) /\ Len(t) = Len(s) - L
             /\ \A i \in 1 .. Len(t) : t[i] = s[L + i]
             /\ Whole(t)
<1> DEFINE L == Length(s[1].msg)
           t == SubSeq(s, L + 1, Len(s))
<1>1. /\ Len(s) \in Nat /\ L \in 1 .. Len(s)
      /\ \A i \in L + 1 .. Len(s) : i - s[i].pos >= L
  BY FirstMessage, LenProperties
<1>2. t \in Seq(Byte) /\ Len(t) = Len(s) - L /\ \A i \in 1 .. Len(t) : t[i] = s[L + i]
  <2> HIDE DEF L
  <2>1. \A i \in L + 1 .. Len(s) : s[i] \in Byte
    BY <1>1, ElementOfSeq
  <2>2. /\ t \in Seq(Byte) /\ Len(t) = IF L + 1 <= Len(s) THEN Len(s) - (L + 1) + 1 ELSE 0
        /\ \A i \in 1 .. Len(s) - (L + 1) + 1 : t[i] = s[(L + 1) + i - 1]
    BY <1>1, <2>1, SubSeqProperties
  <2> HIDE DEF t
  <2>3. Len(t) = Len(s) - L
    BY <1>1, <2>2
  <2>4. \A i \in 1 .. Len(t) : i \in 1 .. Len(s) - (L + 1) + 1 /\ (L + 1) + i - 1 = L + i
    BY <1>1, <2>3
  <2> QED
    BY <2>2, <2>3, <2>4
<1>3. ASSUME NEW i \in 1 .. Len(t)
      PROVE  /\ t[i].pos <= i /\ t[i].pos <= Length(t[i].msg)
             /\ i - t[i].pos + Length(t[i].msg) <= Len(t)
             /\ \A k \in 1 .. Length(t[i].msg) :
                  t[i - t[i].pos + k] = [msg |-> t[i].msg, pos |-> k]
  <2> HIDE DEF L, t
  <2>1. L + i \in 1 .. Len(s) /\ L + i \in L + 1 .. Len(s) /\ t[i] = s[L + i]
    BY <1>1, <1>2
  <2>2. /\ t[i].msg \in Messages /\ t[i].pos \in Nat /\ t[i].pos > 0
        /\ Length(t[i].msg) \in Nat
    BY <2>1, ByteFacts, LengthFacts
  <2>3. /\ t[i].pos <= Length(t[i].msg)
        /\ (L + i) - t[i].pos + Length(t[i].msg) <= Len(s)
        /\ \A k \in 1 .. Length(t[i].msg) :
             s[(L + i) - t[i].pos + k] = [msg |-> t[i].msg, pos |-> k]
        /\ (L + i) - t[i].pos >= L
    BY <1>1, <2>1 DEF Whole
  <2>4. \A k \in 1 .. Length(t[i].msg) :
           /\ i - t[i].pos + k \in 1 .. Len(t)
           /\ L + (i - t[i].pos + k) = (L + i) - t[i].pos + k
    <3> DEFINE p == t[i].pos
               n == Length(t[i].msg)
    <3>1. /\ L \in Nat /\ i \in Nat /\ p \in Nat /\ p > 0 /\ n \in Nat /\ p <= n
          /\ (L + i) - p + n <= Len(s) /\ (L + i) - p >= L
          /\ Len(t) = Len(s) - L /\ Len(s) \in Nat
      BY <1>1, <1>2, <2>2, <2>3
    <3> HIDE DEF p, n
    <3>2. \A k \in 1 .. n : /\ i - p + k \in 1 .. Len(t)
                            /\ L + (i - p + k) = (L + i) - p + k
      BY <3>1
    <3> QED
      BY <3>2 DEF p, n
  <2>5. ASSUME NEW k \in 1 .. Length(t[i].msg)
        PROVE  t[i - t[i].pos + k] = [msg |-> t[i].msg, pos |-> k]
    <3>1. t[i - t[i].pos + k] = s[L + (i - t[i].pos + k)]
      BY <1>2, <2>4
    <3> QED
      BY <2>3, <2>4, <3>1
  <2>6. t[i].pos <= i /\ i - t[i].pos + Length(t[i].msg) <= Len(t)
    BY <1>1, <1>2, <2>2, <2>3
  <2> QED
    BY <2>3, <2>5, <2>6
<1>4. Whole(t)
  BY <1>3 DEF Whole
<1> QED
  BY <1>2, <1>4
-------------------------------------------------------------------------------
(* What each operation makes of the stream.                                *)
LEMMA StreamFacts ==
  ASSUME TypeOK
  PROVE  /\ Held \in Seq(Byte) /\ Stream \in Seq(Byte)
         /\ Len(Held) \in Nat /\ Len(pipe) \in Nat /\ Len(Stream) = Len(Held) + Len(pipe)
         /\ \A i \in 1 .. Len(Held) : Stream[i] = Held[i]
<1>1. Held \in Seq(Byte) /\ pipe \in Seq(Byte)
  BY DEF TypeOK, Held
<1>2. Len(Held) \in Nat /\ Len(pipe) \in Nat
  BY <1>1, LenProperties
<1>3. /\ Stream \in Seq(Byte) /\ Len(Stream) = Len(Held) + Len(pipe)
      /\ \A i \in 1 .. Len(Held) + Len(pipe) :
           Stream[i] = IF i <= Len(Held) THEN Held[i] ELSE pipe[i - Len(Held)]
  BY <1>1, ConcatProperties, Zenon DEF Stream
<1>4. \A i \in 1 .. Len(Held) : i \in 1 .. Len(Held) + Len(pipe) /\ i <= Len(Held)
  BY <1>2
<1> QED
  BY <1>1, <1>2, <1>3, <1>4

LEMMA SendStream ==
  ASSUME TypeOK, NEW m \in Messages, Write(m), UNCHANGED input
  PROVE  /\ pipe' \in Seq(Byte) /\ Len(pipe') <= PipeSize
         /\ Stream' = Stream \o Bytes(m)
<1>1. Held \in Seq(Byte) /\ pipe \in Seq(Byte) /\ Bytes(m) \in Seq(Byte)
  BY StreamFacts, BytesFacts DEF TypeOK
<1>2. pipe' = pipe \o Bytes(m) /\ Len(pipe) + Len(Bytes(m)) <= PipeSize
  BY BytesFacts DEF Write
<1>3. pipe' \in Seq(Byte) /\ Len(pipe') = Len(pipe) + Len(Bytes(m))
  BY <1>1, <1>2, ConcatProperties, Zenon
<1>4. Held' = Held
  BY DEF input, Held
<1>5. Stream' = Stream \o Bytes(m)
  <2>1. Stream = Held \o pipe /\ Stream' = Held \o (pipe \o Bytes(m))
    BY <1>2, <1>4 DEF Stream
  <2> QED
    BY <1>1, <2>1, ConcatAssociative
<1> QED
  BY <1>2, <1>3, <1>5

LEMMA ReadStream ==
  ASSUME TypeOK, Buffers, Read
  PROVE  /\ rest' \in Seq(Byte) /\ Len(rest') <= MaxMsgSize
         /\ pipe' \in Seq(Byte) /\ Len(pipe') <= PipeSize
         /\ Stream' = Stream
<1> DEFINE n == Smaller(Len(pipe), MaxMsgSize - Len(buffer))
           front == SubSeq(pipe, 1, n)
           back == SubSeq(pipe, n + 1, Len(pipe))
<1>1. /\ pipe \in Seq(Byte) /\ buffer \in Seq(Byte)
      /\ Len(pipe) \in Nat /\ Len(buffer) \in Nat
      /\ Len(pipe) <= PipeSize /\ Len(buffer) < MaxMsgSize
      /\ Len(pipe) > 0 /\ PipeSize \in Nat /\ MaxMsgSize \in Nat
  <2>1. pipe \in Seq(Byte) /\ buffer \in Seq(Byte) /\ pipe # <<>>
        /\ Len(pipe) <= PipeSize /\ Len(buffer) < HeaderSize + BodySize
    BY DEF TypeOK, Read
  <2>2. Len(pipe) \in Nat /\ Len(buffer) \in Nat /\ Len(pipe) > 0
    BY <2>1, EmptySeq, LenProperties
  <2> QED
    BY <2>1, <2>2, PrivsepAssumption
<1>2. n \in 1 .. Len(pipe) /\ n <= MaxMsgSize - Len(buffer)
  BY <1>1 DEF Smaller
<1> HIDE DEF n
<1>3. front \in Seq(Byte) /\ Len(front) = n
  <2>1. \A i \in 1 .. n : pipe[i] \in Byte
    BY <1>1, <1>2, ElementOfSeq
  <2>2. front \in Seq(Byte) /\ Len(front) = IF 1 <= n THEN n - 1 + 1 ELSE 0
    BY <1>1, <1>2, <2>1, SubSeqProperties
  <2> QED
    BY <1>2, <2>2
<1>4. back \in Seq(Byte) /\ Len(back) <= PipeSize
  <2>1. \A i \in n + 1 .. Len(pipe) : pipe[i] \in Byte
    BY <1>1, <1>2, ElementOfSeq
  <2>2. /\ back \in Seq(Byte)
        /\ Len(back) = IF n + 1 <= Len(pipe) THEN Len(pipe) - (n + 1) + 1 ELSE 0
    BY <1>1, <1>2, <2>1, SubSeqProperties
  <2> QED
    BY <1>1, <1>2, <2>2
<1>5. front \o back = pipe
  <2>1. /\ 1 \in 1 .. Len(pipe) + 1 /\ n \in 1 - 1 .. Len(pipe)
        /\ Len(pipe) \in n .. Len(pipe)
    BY <1>1, <1>2
  <2>2. front \o back = SubSeq(pipe, 1, Len(pipe))
    BY <1>1, <2>1, ConcatAdjacentSubSeq
  <2> QED
    BY <1>1, <2>2, SubSeqFull
<1>6. rest' = buffer \o front /\ pipe' = back /\ reader = "read" /\ reader' = "parse"
  BY DEF Read, n
<1> HIDE DEF front, back
<1>7. rest' \in Seq(Byte) /\ Len(rest') = Len(buffer) + n
  <2>1. buffer \o front \in Seq(Byte) /\ Len(buffer \o front) = Len(buffer) + Len(front)
    BY <1>1, <1>3, ConcatProperties, Zenon
  <2> QED
    BY <1>3, <1>6, <2>1
<1>8. Stream' = Stream
  <2>1. Stream = buffer \o (front \o back) /\ Stream' = (buffer \o front) \o back
    BY <1>5, <1>6 DEF Stream, Held
  <2>2. buffer \in Seq(Byte) /\ front \in Seq(Byte) /\ back \in Seq(Byte)
    BY <1>1, <1>3, <1>4
  <2>3. (buffer \o front) \o back = buffer \o (front \o back)
    BY <2>2, ConcatAssociative
  <2> QED
    BY <2>1, <2>3
<1> QED
  BY <1>1, <1>2, <1>4, <1>6, <1>7, <1>8

(* A reader that waits for more has no part of a message.                  *)
LEMMA NothingKept ==
  ASSUME TypeOK, Buffers, Whole(Stream), reader = "read", pipe = <<>>
  PROVE  buffer = <<>> /\ Stream = <<>>
<1>1. Stream = buffer /\ buffer \in Seq(Byte)
  <2>1. buffer \in Seq(Byte)
    BY DEF TypeOK
  <2>2. Stream = buffer \o <<>>
    BY DEF Stream, Held
  <2> QED
    BY <2>1, <2>2, ConcatEmptySeq
<1>2. SUFFICES ASSUME buffer # <<>> PROVE FALSE
  BY <1>1
<1>3. Length(buffer[1].msg) \in 1 .. Len(buffer)
  BY <1>1, <1>2, FirstMessage
<1>4. Len(buffer) < Length(buffer[1].msg)
  BY <1>2 DEF Buffers, Partial
<1>5. Len(buffer) \in Nat
  BY <1>1, LenProperties
<1> QED
  BY <1>3, <1>4, <1>5

LEMMA InterruptStream ==
  ASSUME TypeOK, Buffers, Whole(Stream), MayInterrupt, UNCHANGED pipe
  PROVE  /\ Stream' = Stream /\ buffer' = buffer /\ rest' = rest
         /\ reader' = reader \/ (reader = "read" /\ reader' = "test")
<1>1. CASE UNCHANGED input
  BY <1>1 DEF input, Stream, Held
<1>2. CASE /\ reader = "read" /\ pipe = <<>>
           /\ reader' = "test" /\ buffer' = <<>> /\ UNCHANGED rest
  <2>1. buffer = <<>>
    BY <1>2, NothingKept
  <2> QED
    BY <1>2, <2>1 DEF Stream, Held
<1> QED
  BY <1>1, <1>2 DEF MayInterrupt

LEMMA PushStream ==
  ASSUME TypeOK, Buffers, Whole(Stream), reader = "push", Advance, UNCHANGED pipe
  PROVE  /\ rest' \in Seq(Byte) /\ Len(rest') <= MaxMsgSize
         /\ Stream # <<>> /\ Stream[1] = rest[1] /\ rest[1].msg \in Messages
         /\ Stream' = SubSeq(Stream, Length(Stream[1].msg) + 1, Len(Stream))
<1> DEFINE L == Length(rest[1].msg)
<1>1. Held = rest /\ Held' = rest' /\ rest \in Seq(Byte) /\ Len(rest) <= MaxMsgSize
      /\ Stream = rest \o pipe /\ Stream' = rest' \o pipe /\ pipe \in Seq(Byte)
  BY DEF Advance, Held, TypeOK, Stream
<1>2. Len(rest) >= HeaderSize /\ Len(rest) >= L /\ Len(rest) \in Nat /\ Len(pipe) \in Nat
      /\ HeaderSize > 0 /\ MaxMsgSize \in Nat /\ HeaderSize \in Nat
  BY <1>1, LenProperties, PrivsepAssumption DEF Buffers, Complete
<1>3. rest[1] \in Byte /\ rest[1].msg \in Messages /\ L \in Nat /\ L > 0
  <2>1. 1 \in 1 .. Len(rest)
    BY <1>2
  <2> QED
    BY <1>1, <2>1, ByteFacts, LengthFacts
<1> HIDE DEF L
<1>4. Stream # <<>> /\ Stream[1] = rest[1]
  <2>1. Stream \in Seq(Byte) /\ Len(Stream) = Len(rest) + Len(pipe)
        /\ \A i \in 1 .. Len(rest) : Stream[i] = rest[i]
    BY <1>1, StreamFacts
  <2>2. Len(Stream) # 0 /\ 1 \in 1 .. Len(rest)
    BY <1>2, <1>3, <2>1
  <2> QED
    BY <2>1, <2>2, EmptySeq
<1>5. rest' = SubSeq(rest, L + 1, Len(rest))
  BY DEF Advance, L
<1>6. rest' \in Seq(Byte) /\ Len(rest') = Len(rest) - L
      /\ \A i \in 1 .. Len(rest) - L : rest'[i] = rest[L + i]
  <2>1. \A i \in L + 1 .. Len(rest) : rest[i] \in Byte
    BY <1>1, <1>2, <1>3, ElementOfSeq
  <2>2. /\ rest' \in Seq(Byte)
        /\ Len(rest') = IF L + 1 <= Len(rest) THEN Len(rest) - (L + 1) + 1 ELSE 0
        /\ \A i \in 1 .. Len(rest) - (L + 1) + 1 : rest'[i] = rest[(L + 1) + i - 1]
    BY <1>2, <1>3, <1>5, <2>1, SubSeqProperties
  <2>3. \A i \in 1 .. Len(rest) - L :
           i \in 1 .. Len(rest) - (L + 1) + 1 /\ (L + 1) + i - 1 = L + i
    BY <1>2, <1>3
  <2> QED
    BY <1>2, <1>3, <2>2, <2>3
<1>7. Stream' = SubSeq(Stream, L + 1, Len(Stream))
  <2> DEFINE drop == SubSeq(Stream, L + 1, Len(Stream))
  <2>1. /\ Stream \in Seq(Byte) /\ Len(Stream) = Len(rest) + Len(pipe)
        /\ \A i \in 1 .. Len(rest) + Len(pipe) :
             Stream[i] = IF i <= Len(rest) THEN rest[i] ELSE pipe[i - Len(rest)]
    BY <1>1, ConcatProperties, Zenon
  <2>2. /\ Stream' \in Seq(Byte) /\ Len(Stream') = Len(rest') + Len(pipe)
        /\ \A i \in 1 .. Len(rest') + Len(pipe) :
             Stream'[i] = IF i <= Len(rest') THEN rest'[i] ELSE pipe[i - Len(rest')]
    BY <1>1, <1>6, ConcatProperties, Zenon
  <2>3. /\ drop \in Seq(Byte) /\ Len(drop) = Len(Stream) - L
        /\ \A i \in 1 .. Len(drop) : drop[i] = Stream[L + i]
    <3>1. Length(Stream[1].msg) = L
      BY <1>4 DEF L
    <3> QED
      BY <1>4, <2>1, <3>1, WholeDrop
  <2> HIDE DEF drop
  <2>4. Len(Stream') = Len(drop)
    BY <1>2, <1>3, <1>6, <2>1, <2>2, <2>3
  <2>5. ASSUME NEW i \in 1 .. Len(Stream') PROVE Stream'[i] = drop[i]
    <3>1. L + i \in 1 .. Len(rest) + Len(pipe) /\ i \in 1 .. Len(drop)
          /\ i \in 1 .. Len(rest') + Len(pipe)
      BY <1>2, <1>3, <1>6, <2>1, <2>2, <2>4
    <3>2. CASE i <= Len(rest) - L
      <4>1. i \in 1 .. Len(rest) - L /\ i <= Len(rest') /\ L + i <= Len(rest)
        BY <1>2, <1>3, <1>6, <3>1, <3>2
      <4> QED
        BY <1>6, <2>1, <2>2, <2>3, <3>1, <4>1
    <3>3. CASE ~(i <= Len(rest) - L)
      <4>1. ~(i <= Len(rest')) /\ ~(L + i <= Len(rest)) /\ i - Len(rest') = (L + i) - Len(rest)
        BY <1>2, <1>3, <1>6, <3>1, <3>3
      <4> QED
        BY <2>1, <2>2, <2>3, <3>1, <4>1
    <3> QED
      BY <3>2, <3>3
  <2>6. Stream' = drop
    BY <2>2, <2>3, <2>4, <2>5, SeqEqual
  <2> QED
    BY <2>6 DEF drop
<1> QED
  BY <1>1, <1>2, <1>3, <1>4, <1>6, <1>7 DEF L
-------------------------------------------------------------------------------
(* The types, and what the buffers hold, one action after the other.       *)
LEMMA TypeInvariant ==
  ASSUME TypeOK, Buffers, Whole(Stream), [Next]_vars
  PROVE  TypeOK' /\ Buffers'
<1> USE DEF stream, parent, input, flags, runner
<1>1. CASE SendLauncherMessage
  <2>1. sent + 1 \in Messages /\ sent' \in 0 .. Rotations
    BY <1>1, PrivsepAssumption DEF TypeOK, SendLauncherMessage, Messages, Launches
  <2>2. pipe' \in Seq(Byte) /\ Len(pipe') <= PipeSize
    BY <1>1, <2>1, SendStream DEF SendLauncherMessage
  <2> QED
    BY <1>1, <2>1, <2>2 DEF TypeOK, Buffers, Partial, Complete, SendLauncherMessage
<1>2. CASE SendExit
  <2>1. pipe' \in Seq(Byte) /\ Len(pipe') <= PipeSize
    BY <1>2, SendStream DEF SendExit, Messages
  <2> QED
    BY <1>2, <2>1 DEF TypeOK, Buffers, Partial, Complete, SendExit
<1>3. CASE SendLauncherMessageFails \/ SendExitFails \/ WaitChild \/ CollectorDies
  <2>1. /\ UNCHANGED <<pipe, sent, input, list, flags, runner, signals>>
        /\ pfdOpen' \in BOOLEAN /\ collector' \in {"run", "wait", "end", "dead"}
    BY <1>3 DEF TypeOK, SendLauncherMessageFails, SendExitFails, WaitChild, CollectorDies
  <2>2. TypeOK'
    BY <2>1 DEF TypeOK
  <2>3. Buffers'
    BY <2>1 DEF Buffers, Partial, Complete
  <2> QED
    BY <2>2, <2>3
<1>4. CASE ReaderTest
  BY <1>4 DEF TypeOK, Buffers, Partial, Complete, ReaderTest
<1>5. CASE Read
  <2>1. /\ rest' \in Seq(Byte) /\ Len(rest') <= MaxMsgSize
        /\ pipe' \in Seq(Byte) /\ Len(pipe') <= PipeSize
    BY <1>5, ReadStream
  <2>2. buffer' = <<>> /\ buffer' \in Seq(Byte) /\ Len(buffer') < HeaderSize + BodySize
    BY <1>5, PrivsepAssumption DEF Read
  <2>3. TypeOK'
    BY <1>5, <2>1, <2>2 DEF TypeOK, Read
  <2>4. Buffers'
    BY <1>5, <2>2 DEF Buffers, Partial, Read
  <2> QED
    BY <2>3, <2>4
<1>6. CASE ReadEOF
  <2>1. buffer' = <<>> /\ buffer' \in Seq(Byte) /\ Len(buffer') < HeaderSize + BodySize
    BY <1>6, PrivsepAssumption DEF ReadEOF
  <2> QED
    BY <1>6, <2>1 DEF TypeOK, Buffers, Partial, Complete, ReadEOF
<1>7. CASE KeepRest
  <2>1. rest \in Seq(Byte) /\ Len(rest) \in Nat /\ rest' = <<>> /\ buffer' = rest
        /\ rest' \in Seq(Byte) /\ Len(rest') = 0 /\ HeaderSize \in Nat /\ BodySize \in Nat
        /\ MaxMsgSize \in Nat
    BY <1>7, LenProperties, PrivsepAssumption DEF TypeOK, KeepRest
  <2>2. rest # <<>> => Len(rest) < Length(rest[1].msg) /\ Len(rest) < HeaderSize + BodySize
    <3> SUFFICES ASSUME rest # <<>>
                 PROVE  Len(rest) < Length(rest[1].msg) /\ Len(rest) < HeaderSize + BodySize
      OBVIOUS
    <3>1. 1 \in 1 .. Len(rest)
      BY <2>1, EmptySeq
    <3>2. LET l == Length(rest[1].msg)
          IN  l \in Nat /\ HeaderSize <= l /\ l <= HeaderSize + BodySize
      BY <2>1, <3>1, ByteFacts, LengthFacts
    <3>3. ~(Len(rest) >= HeaderSize /\ Len(rest) >= Length(rest[1].msg))
      BY <1>7 DEF KeepRest, Complete
    <3> QED
      BY <2>1, <3>2, <3>3
  <2>3. Partial(buffer') /\ Len(buffer') < HeaderSize + BodySize
    <3>1. CASE rest = <<>>
      BY <2>1, <3>1, PrivsepAssumption DEF Partial
    <3> QED
      BY <2>1, <2>2, <3>1 DEF Partial
  <2>4. TypeOK'
    BY <1>7, <2>1, <2>3 DEF TypeOK, KeepRest
  <2>5. Buffers'
    BY <1>7, <2>1, <2>3 DEF Buffers, Partial, KeepRest
  <2> QED
    BY <2>4, <2>5
<1>8. CASE TakeMessage
  BY <1>8 DEF TypeOK, Buffers, Partial, Complete, TakeMessage
<1>9. CASE PushMessage
  <2>1. rest' \in Seq(Byte) /\ Len(rest') <= MaxMsgSize /\ rest[1].msg \in Messages
    BY <1>9, PushStream DEF PushMessage
  <2>2. list' \in Seq(Messages)
    BY <1>9, <2>1, AppendProperties DEF TypeOK, PushMessage
  <2>3. TypeOK'
    BY <1>9, <2>1, <2>2 DEF TypeOK, PushMessage, Advance
  <2>4. Buffers'
    BY <1>9 DEF Buffers, Partial, PushMessage, Advance
  <2> QED
    BY <2>3, <2>4
<1>10. CASE LauncherLoop \/ GetMessageWaits \/ GetMessageDone \/ SpuriousWakeup
              \/ ExpandFails \/ JoinReader
  <2>1. /\ UNCHANGED <<pipe, pfdOpen, parent, input, list, readerDone, job, commands, executed>>
        /\ launcher' \in {"loop", "get", "wait", "run", "join", "exited"}
        /\ launcherDone' \in BOOLEAN /\ signals' \subseteq Signals
    BY <1>10 DEF TypeOK, LauncherLoop, GetMessageWaits, GetMessageDone, SpuriousWakeup,
      ExpandFails, JoinReader
  <2>2. TypeOK'
    BY <2>1 DEF TypeOK
  <2>3. Buffers'
    BY <2>1 DEF Buffers, Partial, Complete
  <2> QED
    BY <2>2, <2>3
<1>11. CASE GetMessage
  <2>1. Head(list) \in Messages /\ Tail(list) \in Seq(Messages)
    BY <1>11, HeadTailProperties DEF TypeOK, GetMessage
  <2> QED
    BY <1>11, <2>1 DEF TypeOK, Buffers, Partial, Complete, GetMessage
<1>12. CASE RunCommand
  <2>1. executed' \in Seq(Messages) /\ commands' \in Nat
    BY <1>12, AppendProperties DEF TypeOK, RunCommand
  <2> QED
    BY <1>12, <2>1 DEF TypeOK, Buffers, Partial, Complete, RunCommand
<1>13. CASE CommandEnds \/ Terminated \/ Interrupted
  <2>1. /\ buffer' = buffer /\ rest' = rest
        /\ reader' = reader \/ (reader = "read" /\ reader' = "test")
    BY <1>13, InterruptStream DEF CommandEnds, Terminated, Interrupted
  <2>2. commands' \in Nat /\ signals' \subseteq Signals /\ readerDone' \in BOOLEAN
        /\ launcherDone' \in BOOLEAN /\ (readerDone => readerDone')
    <3>1. CASE CommandEnds
      BY <3>1 DEF TypeOK, CommandEnds
    <3>2. CASE Terminated
      BY <3>2 DEF TypeOK, Terminated
    <3>3. CASE Interrupted
      BY <3>3 DEF TypeOK, Interrupted
    <3> QED
      BY <1>13, <3>1, <3>2, <3>3
  <2>3. UNCHANGED <<stream, parent, list, launcher, job, executed>>
    BY <1>13 DEF CommandEnds, Terminated, Interrupted
  <2> QED
    BY <2>1, <2>2, <2>3 DEF TypeOK, Buffers, Partial, Complete
<1>14. CASE UNCHANGED vars
  BY <1>14 DEF vars, TypeOK, Buffers, Partial, Complete
<1> QED
  BY <1>1, <1>2, <1>3, <1>4, <1>5, <1>6, <1>7, <1>8, <1>9, <1>10, <1>11, <1>12, <1>13, <1>14
     DEF Next, Reader, Launcher, Finished
-------------------------------------------------------------------------------
(* What the steps make of the stream: one of them takes the first message, *)
(* two append one, and the others leave it alone.                          *)
LEMMA PushSteps ==
  ASSUME TypeOK, Buffers, Whole(Stream), PushMessage
  PROVE  /\ Stream # <<>> /\ Stream[1] = rest[1] /\ rest[1].msg \in Messages
         /\ Stream' = SubSeq(Stream, Length(Stream[1].msg) + 1, Len(Stream))
  BY PushStream DEF PushMessage, stream

LEMMA SendSteps ==
  ASSUME TypeOK
  PROVE  /\ SendLauncherMessage => sent + 1 \in Launches /\ Stream' = Stream \o Bytes(sent + 1)
         /\ SendExit => Stream' = Stream \o Bytes(Exit)
<1>1. ASSUME SendLauncherMessage
      PROVE  sent + 1 \in Launches /\ Stream' = Stream \o Bytes(sent + 1)
  <2>1. sent + 1 \in Launches /\ sent + 1 \in Messages
    BY <1>1, PrivsepAssumption DEF TypeOK, SendLauncherMessage, Messages, Launches
  <2> QED
    BY <1>1, <2>1, SendStream DEF SendLauncherMessage
<1>2. ASSUME SendExit PROVE Stream' = Stream \o Bytes(Exit)
  BY <1>2, SendStream DEF SendExit, Messages
<1> QED
  BY <1>1, <1>2

Sends == SendLauncherMessage \/ SendExit

LEMMA OtherSteps ==
  ASSUME TypeOK, Buffers, Whole(Stream), [Next]_vars, ~Sends, ~PushMessage
  PROVE  Stream' = Stream /\ sent' = sent /\ (collector' = "run" => collector = "run")
<1> USE DEF stream, parent, input, flags, runner
<1>1. CASE SendLauncherMessageFails \/ SendExitFails \/ WaitChild \/ CollectorDies
  BY <1>1 DEF Stream, Held, SendLauncherMessageFails, SendExitFails, WaitChild, CollectorDies
<1>2. CASE ReaderTest \/ TakeMessage
  BY <1>2 DEF Stream, Held, Buffers, ReaderTest, TakeMessage
<1>3. CASE Read
  BY <1>3, ReadStream DEF Read
<1>4. CASE ReadEOF
  <2>1. buffer = <<>>
    BY <1>4, NothingKept DEF ReadEOF
  <2> QED
    BY <1>4, <2>1 DEF Stream, Held, ReadEOF
<1>5. CASE KeepRest
  BY <1>5 DEF Stream, Held, KeepRest
<1>6. CASE \/ LauncherLoop \/ GetMessageWaits \/ GetMessageDone \/ SpuriousWakeup
           \/ ExpandFails \/ JoinReader \/ GetMessage \/ RunCommand
  BY <1>6 DEF Stream, Held, LauncherLoop, GetMessageWaits, GetMessageDone,
              SpuriousWakeup, ExpandFails, JoinReader, GetMessage, RunCommand
<1>7. CASE CommandEnds \/ Terminated \/ Interrupted
  BY <1>7, InterruptStream DEF CommandEnds, Terminated, Interrupted
<1>8. CASE UNCHANGED vars
  BY <1>8 DEF vars, Stream, Held
<1> QED
  BY <1>1, <1>2, <1>3, <1>4, <1>5, <1>6, <1>7, <1>8 DEF Next, Reader, Launcher, Finished, Sends

LEMMA WholeInvariant ==
  ASSUME TypeOK, Buffers, Whole(Stream), [Next]_vars
  PROVE  Whole(Stream)'
<1>1. Whole(Stream')
  <2>1. Stream \in Seq(Byte)
    BY StreamFacts
  <2>2. CASE SendLauncherMessage
    BY <2>1, <2>2, SendSteps, WholeAppend DEF Messages
  <2>3. CASE SendExit
    BY <2>1, <2>3, SendSteps, WholeAppend DEF Messages
  <2>4. CASE PushMessage
    BY <2>1, <2>4, PushSteps, WholeDrop
  <2>5. CASE ~Sends /\ ~PushMessage
    BY <2>5, OtherSteps
  <2> QED
    BY <2>2, <2>3, <2>4, <2>5 DEF Sends
<1> QED
  BY <1>1 DEF Whole

(* Where the parts of a concatenation, and of what is left of a stream     *)
(* after its first message, come from.                                     *)
LEMMA AppendFacts ==
  ASSUME NEW s \in Seq(Byte), NEW m \in Messages
  PROVE  LET t == s \o Bytes(m)
         IN  /\ t \in Seq(Byte) /\ Len(s) \in Nat /\ Len(t) = Len(s) + Length(m) /\ t # <<>>
             /\ \A i \in 1 .. Len(s) : t[i] = s[i]
             /\ \A i \in Len(s) + 1 .. Len(t) : t[i] = [msg |-> m, pos |-> i - Len(s)]
<1> DEFINE B == Bytes(m)
           t == s \o B
<1>1. /\ B \in Seq(Byte) /\ Len(B) = Length(m) /\ Length(m) \in Nat /\ Length(m) > 0
      /\ \A k \in 1 .. Length(m) : B[k] = [msg |-> m, pos |-> k]
  BY BytesFacts, LengthFacts
<1> HIDE DEF B
<1>2. Len(s) \in Nat
  BY LenProperties
<1>3. /\ s \o B \in Seq(Byte) /\ Len(s \o B) = Len(s) + Len(B)
      /\ \A i \in 1 .. Len(s) + Len(B) :
           (s \o B)[i] = IF i <= Len(s) THEN s[i] ELSE B[i - Len(s)]
  BY <1>1, ConcatProperties, Zenon
<1> HIDE DEF t
<1>4. /\ t \in Seq(Byte) /\ Len(t) = Len(s) + Length(m)
      /\ \A i \in 1 .. Len(s) + Length(m) : t[i] = IF i <= Len(s) THEN s[i] ELSE B[i - Len(s)]
  BY <1>1, <1>3 DEF t
<1>5. t # <<>>
  BY <1>1, <1>2, <1>4, EmptySeq
<1>6. ASSUME NEW i \in 1 .. Len(s) PROVE t[i] = s[i]
  BY <1>1, <1>2, <1>4
<1>7. ASSUME NEW i \in Len(s) + 1 .. Len(t) PROVE t[i] = [msg |-> m, pos |-> i - Len(s)]
  <2>1. i \in 1 .. Len(s) + Length(m) /\ ~(i <= Len(s)) /\ i - Len(s) \in 1 .. Length(m)
    BY <1>1, <1>2, <1>4
  <2> QED
    BY <1>1, <1>4, <2>1
<1> QED
  BY <1>2, <1>4, <1>5, <1>6, <1>7 DEF t, B

LEMMA ExitInvariant ==
  ASSUME TypeOK, Buffers, Whole(Stream), ExitComesLast, [Next]_vars
  PROVE  ExitComesLast'
<1>0. Stream \in Seq(Byte)
  BY StreamFacts
<1>1. CASE SendLauncherMessage
  <2> DEFINE m == sent + 1
             t == Stream \o Bytes(m)
  <2>1. m \in Messages /\ m # Exit /\ Stream' = t /\ collector = "run"
    BY <1>1, SendSteps DEF Messages, Launches, Exit, SendLauncherMessage
  <2> HIDE DEF m
  <2>2. /\ Len(Stream) \in Nat /\ Len(t) \in Nat
        /\ \A i \in 1 .. Len(Stream) : t[i] = Stream[i]
        /\ \A i \in Len(Stream) + 1 .. Len(t) : t[i] = [msg |-> m, pos |-> i - Len(Stream)]
    BY <1>0, <2>1, AppendFacts, LenProperties
  <2> HIDE DEF t
  <2>3. \A i \in 1 .. Len(Stream) : Stream[i].msg # Exit
    BY <2>1 DEF ExitComesLast
  <2>4. ASSUME NEW i \in 1 .. Len(t) PROVE t[i].msg # Exit
    <3>1. i \in 1 .. Len(Stream) \/ i \in Len(Stream) + 1 .. Len(t)
      BY <2>2
    <3>2. CASE i \in 1 .. Len(Stream)
      <4>1. t[i] = Stream[i] /\ Stream[i].msg # Exit
        BY <2>2, <2>3, <3>2
      <4> QED
        BY <4>1
    <3>3. CASE i \in Len(Stream) + 1 .. Len(t)
      <4>1. t[i] = [msg |-> m, pos |-> i - Len(Stream)]
        BY <2>2, <3>3
      <4>2. t[i].msg = m
        BY <4>1
      <4> QED
        BY <2>1, <4>2
    <3> QED
      BY <3>1, <3>2, <3>3
  <2> QED
    BY <2>1, <2>4 DEF ExitComesLast
<1>2. CASE SendExit
  BY <1>2 DEF ExitComesLast, SendExit
<1>3. CASE PushMessage
  <2>1. Stream # <<>> /\ Stream' = SubSeq(Stream, Length(Stream[1].msg) + 1, Len(Stream))
    BY <1>3, PushSteps
  <2> DEFINE L == Length(Stream[1].msg)
  <2>2. /\ Len(Stream') = Len(Stream) - L /\ \A i \in 1 .. Len(Stream') : Stream'[i] = Stream[L + i]
        /\ L \in 1 .. Len(Stream) /\ Len(Stream) \in Nat
    BY <1>0, <2>1, WholeDrop, FirstMessage, LenProperties
  <2> HIDE DEF L
  <2>3. \A i \in 1 .. Len(Stream') : L + i \in 1 .. Len(Stream)
    BY <2>2
  <2>4. collector' = collector
    BY <1>3 DEF PushMessage, parent
  <2> QED
    BY <2>2, <2>3, <2>4 DEF ExitComesLast
<1>4. CASE ~Sends /\ ~PushMessage
  BY <1>4, OtherSteps DEF ExitComesLast
<1> QED
  BY <1>1, <1>2, <1>3, <1>4 DEF Sends

(* The launcher's side: what waits, what it runs, and what was run.        *)
LEMMA LauncherInvariant ==
  ASSUME TypeOK, InSequence, NoMessageStranded, JobNext, CommandsInOrder, [Next]_vars
  PROVE  NoMessageStranded' /\ JobNext' /\ CommandsInOrder'
<1> USE DEF stream, parent, input, flags, runner
<1>1. CASE PushMessage
  BY <1>1 DEF NoMessageStranded, JobNext, CommandsInOrder, PushMessage
<1>2. CASE GetMessage
  <2>1. 1 \in DOMAIN list /\ Head(list) = list[1]
    <3>1. list \in Seq(Messages) /\ list # <<>>
      BY <1>2 DEF TypeOK, GetMessage
    <3> QED
      BY <3>1, EmptySeq, LenProperties
  <2>2. list[1] = Len(executed) + 1
    BY <1>2, <2>1, LenProperties DEF InSequence, Taking, Taken, GetMessage, TypeOK
  <2> QED
    BY <1>2, <2>1, <2>2 DEF NoMessageStranded, JobNext, CommandsInOrder, GetMessage
<1>3. CASE RunCommand
  <2>1. executed \in Seq(Messages) /\ job \in Messages /\ executed' = Append(executed, job)
        /\ job = Len(executed) + 1 /\ Len(executed) \in Nat
    BY <1>3, LenProperties DEF TypeOK, JobNext, RunCommand
  <2>2. /\ Len(executed') = Len(executed) + 1 /\ DOMAIN executed' = 1 .. Len(executed')
        /\ \A k \in 1 .. Len(executed) : executed'[k] = executed[k]
        /\ executed'[Len(executed) + 1] = job
    BY <2>1, AppendProperties, LenProperties
  <2>3. \A k \in 1 .. Len(executed) : executed[k] = k
    BY <2>1, LenProperties DEF CommandsInOrder
  <2>4. ASSUME NEW k \in DOMAIN executed' PROVE executed'[k] = k
    <3>1. k \in 1 .. Len(executed) \/ k = Len(executed) + 1
      BY <2>1, <2>2
    <3> QED
      BY <2>1, <2>2, <2>3, <3>1
  <2> QED
    BY <1>3, <2>4 DEF NoMessageStranded, JobNext, CommandsInOrder, RunCommand
<1>4. CASE GetMessageWaits \/ SpuriousWakeup \/ LauncherLoop \/ GetMessageDone
             \/ ExpandFails \/ JoinReader
  BY <1>4 DEF NoMessageStranded, JobNext, CommandsInOrder, GetMessageWaits, SpuriousWakeup,
              LauncherLoop, GetMessageDone, ExpandFails, JoinReader
<1>5. CASE UNCHANGED <<launcher, job, executed, list>>
  BY <1>5 DEF NoMessageStranded, JobNext, CommandsInOrder
<1> QED
  BY <1>1, <1>2, <1>3, <1>4, <1>5
     DEF Next, Reader, Launcher, Finished, vars, SendLauncherMessage, SendLauncherMessageFails,
         SendExit, SendExitFails, WaitChild, CollectorDies, ReaderTest, Read, ReadEOF,
         KeepRest, TakeMessage, CommandEnds, Terminated, Interrupted
-------------------------------------------------------------------------------
(* A launch message, and the exit message, continue the sequence.          *)
LEMMA InSequenceSend ==
  ASSUME TypeOK, ExitComesLast, InSequence, Sends
  PROVE  InSequence'
<1> USE DEF stream, parent, input, flags, runner
<1> DEFINE m == IF SendLauncherMessage THEN sent + 1 ELSE Exit
           t == Stream \o Bytes(m)
<1>1. /\ m \in Messages /\ Stream' = t /\ collector = "run" /\ m \in {sent + 1, Exit}
      /\ m # Exit => sent' = m
      /\ m = Exit => SendExit /\ sent' = sent
  <2>1. CASE SendLauncherMessage
    BY <2>1, SendSteps DEF Messages, Launches, Exit, SendLauncherMessage
  <2>2. CASE ~SendLauncherMessage
    BY <2>2, SendSteps DEF Messages, Sends, SendExit
  <2> QED
    BY <2>1, <2>2
<1> HIDE DEF m
<1>2. /\ Len(Stream) \in Nat /\ Len(t) = Len(Stream) + Length(m) /\ t # <<>> /\ Len(t) \in Nat
      /\ \A i \in 1 .. Len(Stream) : t[i] = Stream[i]
      /\ \A i \in Len(Stream) + 1 .. Len(t) : t[i] = [msg |-> m, pos |-> i - Len(Stream)]
      /\ Length(m) \in Nat /\ Length(m) > 0
  BY <1>1, StreamFacts, AppendFacts, LengthFacts, LenProperties
<1> HIDE DEF t
<1>3. UNCHANGED <<list, executed, launcher, readerDone>>
  BY DEF Sends, SendLauncherMessage, SendExit
<1>4. Taking' = Taking /\ Taken' = Taken /\ Handed' = Handed
  BY <1>3 DEF Taking, Taken, Handed
<1>5. SUFFICES ASSUME Taking PROVE InSequence'
  BY <1>4 DEF InSequence
<1>6. \A i \in 1 .. Len(Stream) : Stream[i].msg # Exit
  BY <1>1 DEF ExitComesLast
<1>7. t[Len(t)].msg \in {sent', Exit}
  <2>1. Len(t) \in Len(Stream) + 1 .. Len(t)
    BY <1>2
  <2>2. t[Len(t)] = [msg |-> m, pos |-> Len(t) - Len(Stream)]
    BY <1>2, <2>1
  <2>3. t[Len(t)].msg = m
    BY <2>2
  <2> QED
    BY <1>1, <2>3
<1>8. t[1].msg \in {Handed + 1, Exit}
  <2>1. CASE Stream = <<>>
    <3>1. Handed = sent /\ Len(Stream) = 0
      BY <1>5, <2>1 DEF InSequence
    <3>2. t[1] = [msg |-> m, pos |-> 1 - Len(Stream)]
      BY <1>2, <3>1
    <3>3. t[1].msg = m
      BY <3>2
    <3> QED
      BY <1>1, <3>1, <3>3
  <2>2. CASE Stream # <<>>
    <3>1. Stream[1].msg \in {Handed + 1, Exit}
      BY <1>5, <2>2 DEF InSequence
    <3>2. 1 \in 1 .. Len(Stream)
      BY <1>2, <2>2, StreamFacts, EmptySeq
    <3>3. t[1] = Stream[1]
      BY <1>2, <3>2
    <3> QED
      BY <3>1, <3>3
  <2> QED
    BY <2>1, <2>2
<1>9. ASSUME NEW i \in 1 .. Len(t) - 1, t[i].msg # Exit, t[i].pos = Length(t[i].msg)
      PROVE  t[i + 1].msg \in {t[i].msg + 1, Exit}
  <2>1. i \in 1 .. Len(Stream) - 1 \/ i = Len(Stream) \/ i \in Len(Stream) + 1 .. Len(t) - 1
    BY <1>2
  <2>2. CASE i \in 1 .. Len(Stream) - 1
    <3>1. i \in 1 .. Len(Stream) /\ i + 1 \in 1 .. Len(Stream)
      BY <1>2, <2>2
    <3>2. t[i] = Stream[i] /\ t[i + 1] = Stream[i + 1]
      BY <1>2, <3>1
    <3>3. Stream[i].msg # Exit /\ Stream[i].pos = Length(Stream[i].msg)
              => Stream[i + 1].msg \in {Stream[i].msg + 1, Exit}
      BY <1>5, <2>2 DEF InSequence
    <3> QED
      BY <1>9, <3>2, <3>3
  <2>3. CASE i = Len(Stream)
    <3>1. i \in 1 .. Len(Stream) /\ i + 1 \in Len(Stream) + 1 .. Len(t) /\ Stream # <<>>
      BY <1>2, <2>3
    <3>2. t[i] = Stream[i] /\ t[i + 1].msg = m
      <4>1. t[i + 1] = [msg |-> m, pos |-> (i + 1) - Len(Stream)]
        BY <1>2, <3>1
      <4> QED
        BY <1>2, <3>1, <4>1
    <3>3. Stream[Len(Stream)].msg \in {sent, Exit} /\ Stream[i].msg # Exit
      BY <1>5, <1>6, <3>1 DEF InSequence
    <3> QED
      BY <1>1, <2>3, <3>2, <3>3
  <2>4. CASE i \in Len(Stream) + 1 .. Len(t) - 1
    <3>1. i \in Len(Stream) + 1 .. Len(t) /\ i - Len(Stream) # Length(m)
      BY <1>2, <2>4
    <3>2. t[i] = [msg |-> m, pos |-> i - Len(Stream)]
      BY <1>2, <3>1
    <3>3. t[i].msg = m /\ t[i].pos = i - Len(Stream)
      BY <3>2
    <3> QED
      BY <1>9, <3>1, <3>3
  <2> QED
    BY <2>1, <2>2, <2>3, <2>4
<1>10. \A k \in DOMAIN list' : list'[k] = Taken' + k
  BY <1>3, <1>4, <1>5 DEF InSequence
<1> QED
  BY <1>1, <1>2, <1>4, <1>7, <1>8, <1>9, <1>10 DEF InSequence

(* The message that is put on the list is the next one, and so is what     *)
(* begins after it.                                                        *)
LEMMA InSequencePush ==
  ASSUME TypeOK, Buffers, Whole(Stream), InSequence, PushMessage
  PROVE  InSequence'
<1> USE DEF stream, parent, input, flags, runner
<1> DEFINE m == Stream[1].msg
           L == Length(m)
           u == Stream'
<1>1. UNCHANGED <<sent, executed, readerDone>> /\ list' = Append(list, m)
      /\ Stream # <<>> /\ u = SubSeq(Stream, L + 1, Len(Stream)) /\ m \in Messages
      /\ Stream[1] = rest[1]
  BY PushSteps DEF PushMessage
<1>2. /\ Taking' = Taking
      /\ (launcher' = "run") <=> (launcher = "run")
  BY DEF PushMessage, Taking
<1>3. SUFFICES ASSUME Taking PROVE InSequence'
  BY <1>2 DEF InSequence
<1>4. m # Exit
  BY <1>1, <1>3 DEF Buffers, Taking, PushMessage
<1>5. Stream \in Seq(Byte) /\ Len(Stream) \in Nat /\ L \in 1 .. Len(Stream)
      /\ \A k \in 1 .. L : Stream[k] = [msg |-> m, pos |-> k]
  BY <1>1, StreamFacts, FirstMessage, LenProperties
<1>6. u \in Seq(Byte) /\ Len(u) = Len(Stream) - L /\ \A i \in 1 .. Len(u) : u[i] = Stream[L + i]
  BY <1>1, <1>5, WholeDrop
<1>7. Stream[L].msg = m /\ Stream[L].pos = L
  <2>1. L \in 1 .. L
    BY <1>5
  <2>2. Stream[L] = [msg |-> m, pos |-> L]
    BY <1>5, <2>1
  <2> QED
    BY <2>2
<1>8. m = Handed + 1 /\ Stream[Len(Stream)].msg \in {sent, Exit}
  BY <1>1, <1>3, <1>4 DEF InSequence
<1>9. \A i \in 1 .. Len(Stream) - 1 :
          Stream[i].msg # Exit /\ Stream[i].pos = Length(Stream[i].msg)
             => Stream[i + 1].msg \in {Stream[i].msg + 1, Exit}
  BY <1>3 DEF InSequence
<1>10. \A k \in DOMAIN list : list[k] = Taken + k
  BY <1>3 DEF InSequence
<1>11. /\ Len(list) \in Nat /\ DOMAIN list = 1 .. Len(list) /\ Taken \in Nat
       /\ Len(list') = Len(list) + 1 /\ DOMAIN list' = 1 .. Len(list) + 1
       /\ \A k \in 1 .. Len(list) : list'[k] = list[k]
       /\ list'[Len(list) + 1] = m
  <2>1. list \in Seq(Messages) /\ executed \in Seq(Messages)
    BY DEF TypeOK
  <2>2. Taken \in Nat /\ Len(list) \in Nat /\ DOMAIN list = 1 .. Len(list)
    BY <2>1, LenProperties DEF Taken
  <2> HIDE DEF m
  <2>3. /\ list' \in Seq(Messages) /\ Len(list') = Len(list) + 1
        /\ \A k \in 1 .. Len(list) : list'[k] = list[k]
        /\ list'[Len(list) + 1] = m
    BY <1>1, <2>1, AppendProperties
  <2> QED
    BY <2>2, <2>3, LenProperties
<1>12. Taken' = Taken /\ Handed' = Handed + 1 /\ Handed \in Nat
  <2>1. Taken' = Taken
    BY <1>1, <1>2 DEF Taken
  <2>2. Taken' + Len(list') = (Taken + Len(list)) + 1 /\ Taken + Len(list) \in Nat
    <3> HIDE DEF m, Taken
    <3> QED
      BY <1>11, <2>1
  <2> QED
    BY <2>1, <2>2 DEF Handed
<1> HIDE DEF m, L, u
<1>13. \A k \in DOMAIN list' : list'[k] = Taken' + k
  <2> SUFFICES ASSUME NEW k \in 1 .. Len(list) + 1 PROVE list'[k] = Taken + k
    BY <1>11, <1>12
  <2>1. CASE k \in 1 .. Len(list)
    BY <1>10, <1>11, <2>1
  <2>2. CASE k = Len(list) + 1
    BY <1>8, <1>11, <2>2 DEF Handed
  <2> QED
    BY <1>11, <2>1, <2>2
<1>14. u = <<>> => Handed' = sent'
  <2> SUFFICES ASSUME u = <<>> PROVE Handed' = sent'
    OBVIOUS
  <2>1. Len(Stream) = L
    BY <1>5, <1>6
  <2> QED
    BY <1>1, <1>4, <1>7, <1>8, <1>12, <2>1
<1>15. u # <<>> => u[1].msg \in {Handed' + 1, Exit} /\ u[Len(u)].msg \in {sent', Exit}
  <2> SUFFICES ASSUME u # <<>>
               PROVE  u[1].msg \in {Handed' + 1, Exit} /\ u[Len(u)].msg \in {sent', Exit}
    OBVIOUS
  <2>1. Len(u) \in Nat /\ Len(u) > 0
    BY <1>6, EmptySeq, LenProperties
  <2>2. 1 \in 1 .. Len(u) /\ Len(u) \in 1 .. Len(u) /\ L + Len(u) = Len(Stream)
        /\ L \in 1 .. Len(Stream) - 1
    BY <1>5, <1>6, <2>1
  <2>3. u[1] = Stream[L + 1] /\ u[Len(u)] = Stream[Len(Stream)]
    BY <1>6, <2>2
  <2>4. Stream[L + 1].msg \in {m + 1, Exit}
    BY <1>4, <1>7, <1>9, <2>2 DEF L
  <2> QED
    BY <1>1, <1>8, <1>12, <2>3, <2>4
<1>16. ASSUME NEW i \in 1 .. Len(u) - 1, u[i].msg # Exit, u[i].pos = Length(u[i].msg)
       PROVE  u[i + 1].msg \in {u[i].msg + 1, Exit}
  <2>1. i \in 1 .. Len(u) /\ i + 1 \in 1 .. Len(u) /\ L + i \in 1 .. Len(Stream) - 1
        /\ L + (i + 1) = (L + i) + 1
    BY <1>5, <1>6
  <2>2. u[i] = Stream[L + i] /\ u[i + 1] = Stream[(L + i) + 1]
    BY <1>6, <2>1
  <2> QED
    BY <1>9, <1>16, <2>1, <2>2
<1> QED
  BY <1>13, <1>14, <1>15, <1>16 DEF InSequence, u

(* The other steps leave the stream and what was sent alone, and the       *)
(* launcher takes the next message off the list, or starts its command.    *)
LEMMA InSequenceOther ==
  ASSUME TypeOK, Buffers, Whole(Stream), InSequence, JobNext, [Next]_vars,
         ~Sends, ~PushMessage
  PROVE  InSequence'
<1> USE DEF stream, parent, input, flags, runner
<1>1. Stream' = Stream /\ sent' = sent
  BY OtherSteps
<1>2. list \in Seq(Messages) /\ executed \in Seq(Messages) /\ Len(list) \in Nat
      /\ Len(executed) \in Nat /\ DOMAIN list = 1 .. Len(list)
  BY LenProperties DEF TypeOK
<1>3. CASE GetMessage
  <2>1. list # <<>> /\ list' = Tail(list) /\ launcher = "get" /\ launcher' = "run"
        /\ UNCHANGED <<readerDone, executed>>
    BY <1>3 DEF GetMessage
  <2>2. /\ Len(list') = Len(list) - 1 /\ DOMAIN list' = 1 .. Len(list) - 1
        /\ \A k \in 1 .. Len(list) - 1 : list'[k] = list[k + 1]
    <3>1. Len(list) # 0
      BY <1>2, <2>1, EmptySeq
    <3> QED
      BY <1>2, <2>1, <3>1, HeadTailProperties, LenProperties
  <2>3. Taken' = Taken + 1 /\ Handed' = Handed /\ Taken \in Nat /\ (Taking' => Taking)
    BY <1>2, <2>1, <2>2 DEF Taken, Handed, Taking
  <2>4. Taking => \A k \in DOMAIN list' : list'[k] = Taken' + k
    <3> SUFFICES ASSUME Taking, NEW k \in DOMAIN list' PROVE list'[k] = Taken' + k
      OBVIOUS
    <3>1. k + 1 \in DOMAIN list /\ list'[k] = list[k + 1]
      BY <1>2, <2>2
    <3>2. list[k + 1] = Taken + (k + 1)
      BY <3>1 DEF InSequence
    <3> QED
      BY <2>2, <2>3, <3>1, <3>2
  <2> QED
    BY <1>1, <2>3, <2>4 DEF InSequence
<1>4. CASE RunCommand
  <2>1. Len(executed') = Len(executed) + 1
    BY <1>2, <1>4, AppendProperties DEF RunCommand, TypeOK
  <2>2. launcher = "run" /\ launcher' = "loop" /\ UNCHANGED <<list, readerDone>>
    BY <1>4 DEF RunCommand
  <2>3. Taken' = Taken /\ Handed' = Handed /\ Taking' = Taking
    BY <1>2, <2>1, <2>2 DEF Taken, Handed, Taking
  <2> QED
    BY <1>1, <2>2, <2>3 DEF InSequence
<1>5. CASE UNCHANGED <<list, executed>> /\ (readerDone => readerDone')
            /\ (launcher' = launcher \/ (launcher # "run" /\ launcher' # "run"
                                          /\ (launcher \in {"join", "exited"} =>
                                                launcher' \in {"join", "exited"})))
  <2>1. Taken' = Taken /\ Handed' = Handed /\ (Taking' => Taking)
    BY <1>5 DEF Taken, Handed, Taking, TypeOK
  <2> QED
    BY <1>1, <1>5, <2>1 DEF InSequence
<1>6. CASE ExpandFails
  BY <1>6 DEF InSequence, Taking, ExpandFails
<1>7. CASE LauncherLoop \/ GetMessageWaits \/ GetMessageDone \/ SpuriousWakeup \/ JoinReader
  BY <1>5, <1>7 DEF LauncherLoop, GetMessageWaits, GetMessageDone, SpuriousWakeup, JoinReader
<1>8. CASE UNCHANGED vars
  BY <1>5, <1>8 DEF vars
<1>9. CASE ReaderTest \/ Read \/ ReadEOF \/ KeepRest \/ TakeMessage
  BY <1>5, <1>9 DEF ReaderTest, Read, ReadEOF, KeepRest, TakeMessage
<1>10. CASE CommandEnds \/ Terminated \/ Interrupted
  BY <1>5, <1>10 DEF CommandEnds, Terminated, Interrupted
<1>11. CASE SendLauncherMessageFails \/ SendExitFails \/ WaitChild \/ CollectorDies
  BY <1>5, <1>11 DEF SendLauncherMessageFails, SendExitFails, WaitChild, CollectorDies
<1> QED
  BY <1>3, <1>4, <1>6, <1>7, <1>8, <1>9, <1>10, <1>11
     DEF Next, Reader, Launcher, Finished, Sends
-------------------------------------------------------------------------------
LEMMA InitInvariant == Init => IInv
<1> SUFFICES ASSUME Init PROVE IInv
  OBVIOUS
<1>1. Stream = <<>>
  BY DEF Init, Stream, Held
<1>2. TypeOK
  <2>1. \A S : <<>> \in Seq(S) /\ Len(<<>>) = 0
    BY EmptySeq
  <2>2. HeaderSize > 0 /\ BodySize >= 0 /\ MaxMsgSize >= 0 /\ PipeSize >= 0
        /\ HeaderSize \in Nat /\ BodySize \in Nat /\ Rotations \in Nat
    BY PrivsepAssumption
  <2>3. /\ pipe \in Seq(Byte) /\ buffer \in Seq(Byte) /\ rest \in Seq(Byte)
        /\ list \in Seq(Messages) /\ executed \in Seq(Messages)
        /\ Len(pipe) <= PipeSize /\ Len(buffer) < HeaderSize + BodySize
        /\ Len(rest) <= MaxMsgSize
    BY <2>1, <2>2 DEF Init
  <2>4. sent \in 0 .. Rotations /\ job \in Messages /\ commands \in Nat /\ signals \subseteq Signals
    BY <2>2 DEF Init, Messages, Exit
  <2> QED
    BY <2>3, <2>4 DEF Init, TypeOK
<1>3. Buffers
  BY DEF Init, Buffers, Partial
<1>4. Whole(Stream) /\ ExitComesLast
  BY <1>1 DEF Whole, ExitComesLast
<1>5. NoMessageStranded /\ JobNext /\ CommandsInOrder
  BY DEF Init, NoMessageStranded, JobNext, CommandsInOrder
<1>6. InSequence
  BY <1>1 DEF Init, InSequence, Handed, Taken
<1> QED
  BY <1>2, <1>3, <1>4, <1>5, <1>6 DEF IInv

LEMMA NextInvariant == IInv /\ [Next]_vars => IInv'
<1> SUFFICES ASSUME IInv, [Next]_vars PROVE IInv'
  OBVIOUS
<1>1. TypeOK' /\ Buffers'
  BY TypeInvariant DEF IInv
<1>2. Whole(Stream)'
  BY WholeInvariant DEF IInv
<1>3. ExitComesLast'
  BY ExitInvariant DEF IInv
<1>4. NoMessageStranded' /\ JobNext' /\ CommandsInOrder'
  BY LauncherInvariant DEF IInv
<1>5. InSequence'
  <2>1. CASE Sends
    BY <2>1, InSequenceSend DEF IInv
  <2>2. CASE PushMessage
    BY <2>2, InSequencePush DEF IInv
  <2>3. CASE ~Sends /\ ~PushMessage
    BY <2>3, InSequenceOther DEF IInv
  <2> QED
    BY <2>1, <2>2, <2>3
<1> QED
  BY <1>1, <1>2, <1>3, <1>4, <1>5 DEF IInv

(* The inductive invariant: every byte under way is part of a whole        *)
(* message, and list and stream hold the launch messages in the order in   *)
(* which nfcapd sent them.                                                 *)
THEOREM Invariant == Spec => []IInv
  BY InitInvariant, NextInvariant, PTL DEF Spec

(* pipeReader begins each message where one begins, and a signal finds no  *)
(* part of one in the buffer.                                              *)
THEOREM Framing == Spec => []FramingKept
<1>1. IInv => FramingKept
  <2> SUFFICES ASSUME IInv PROVE FramingKept
    OBVIOUS
  <2>1. ASSUME rest # <<>> PROVE rest[1].pos = 1
    <3>1. Held = rest /\ rest \in Seq(Byte)
      BY <2>1 DEF IInv, Buffers, Held, TypeOK
    <3>2. Len(rest) \in Nat /\ 1 \in 1 .. Len(rest)
      BY <2>1, <3>1, EmptySeq, LenProperties
    <3>3. Stream[1] = rest[1] /\ Stream \in Seq(Byte) /\ Stream # <<>> /\ 1 \in 1 .. Len(Stream)
      <4>1. Stream[1] = rest[1] /\ Stream \in Seq(Byte) /\ Len(Stream) >= Len(rest)
            /\ Len(Stream) \in Nat
        BY <3>1, <3>2, StreamFacts, LenProperties DEF IInv
      <4> QED
        BY <3>2, <4>1, EmptySeq
    <3>4. Stream[1].pos <= 1 /\ Stream[1].pos \in Nat /\ Stream[1].pos > 0
      BY <3>3, ByteFacts DEF IInv, Whole
    <3> QED
      BY <3>3, <3>4
  <2>2. reader = "read" /\ buffer # <<>> => pipe # <<>>
    BY NothingKept DEF IInv
  <2> QED
    BY <2>1, <2>2 DEF FramingKept
<1> QED
  BY <1>1, Invariant, PTL

(* A launcher that waits finds an empty list.                              *)
THEOREM Wakeups == Spec => []NoMessageStranded
<1>1. IInv => NoMessageStranded
  BY DEF IInv
<1> QED
  BY <1>1, Invariant, PTL

(* The k-th command that is run is the one of the k-th rotation.           *)
THEOREM InOrder == Spec => []CommandsInOrder
<1>1. IInv => CommandsInOrder
  BY DEF IInv
<1> QED
  BY <1>1, Invariant, PTL
===============================================================================
