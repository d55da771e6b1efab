--------------------------- MODULE SerialRxProofs ---------------------------
(***************************************************************************)
(* The receiving side of a motor bus for any motors, any reports, any      *)
(* number of frames and of faults on the line: the types, that what is     *)
(* delivered is what was sent, in order, and that silence resynchronises   *)
(* the reader.                                                             *)
(***************************************************************************)
EXTENDS SerialRx, SequenceTheorems, TLAPS

\* The last byte of a frame, which tells what the whole frame is.
IsCrc(b) == \E f \in Frames : b = Crc(f.id, f.val)

-----------------------------------------------------------------------------
(* The bytes of a frame.                                                   *)

LEMMA CrcIsFrame ==
    ASSUME NEW f \in Frames, NEW g \in Frames, Crc(f.id, f.val) = Crc(g.id, g.val)
    PROVE  f = g
BY DEF Crc, Frames

LEMMA ReportOf ==
    ASSUME NEW val
    PROVE  /\ Len(Report(val)) = 2 /\ Report(val) \in Seq({Report(val)[1], Report(val)[2]})
           /\ ~IsCrc(Report(val)[1]) /\ ~IsCrc(Report(val)[2])
<1>1. CASE val = HeadLike
  BY <1>1 DEF Report, ResvHead, IsCrc, Crc
<1>2. CASE val # HeadLike
  BY <1>2 DEF Report, ResvHead, IsCrc, Crc
<1> QED
  BY <1>1, <1>2

LEMMA BytesOf ==
    ASSUME NEW f \in Frames
    PROVE  /\ Bytes(f) \in Seq(ByteSet) /\ Len(Bytes(f)) = BufferSize
           /\ Bytes(f)[1] = ResvHead[1] /\ Bytes(f)[2] = ResvHead[2]
           /\ Bytes(f)[BufferSize] = Crc(f.id, f.val)
           /\ \A k \in 1 .. BufferSize - 1 : ~IsCrc(Bytes(f)[k])
<1> DEFINE a == ResvHead
           b == << <<"id", f.id>> >>
           c == Report(f.val)
           d == << Crc(f.id, f.val) >>
           S == {a[1], a[2], b[1], c[1], c[2], d[1]}
<1>1. a \in Seq(S) /\ Len(a) = 2 /\ ~IsCrc(a[1]) /\ ~IsCrc(a[2])
  BY DEF ResvHead, IsCrc, Crc
<1>2. b \in Seq(S) /\ Len(b) = 1 /\ ~IsCrc(b[1])
  BY DEF IsCrc, Crc
<1>3. c \in Seq(S) /\ Len(c) = 2 /\ ~IsCrc(c[1]) /\ ~IsCrc(c[2])
  <2>1. {c[1], c[2]} \subseteq S
    OBVIOUS
  <2>2. c \in Seq({c[1], c[2]})
    BY ReportOf
  <2>3. Len(c) = 2 /\ ~IsCrc(c[1]) /\ ~IsCrc(c[2])
    BY ReportOf
  <2> HIDE DEF S, c
  <2> QED
    BY <2>1, <2>2, <2>3, SeqMonotonic
<1>4. d \in Seq(S) /\ Len(d) = 1
  OBVIOUS
<1> HIDE DEF a, b, c, S
<1>5. a \o b \in Seq(S) /\ Len(a \o b) = 3
      /\ (a \o b)[1] = a[1] /\ (a \o b)[2] = a[2] /\ (a \o b)[3] = b[1]
  BY <1>1, <1>2, ConcatProperties, SMTT(30)
<1>6. a \o b \o c \in Seq(S) /\ Len(a \o b \o c) = 5
      /\ (a \o b \o c)[1] = a[1] /\ (a \o b \o c)[2] = a[2] /\ (a \o b \o c)[3] = b[1]
      /\ (a \o b \o c)[4] = c[1] /\ (a \o b \o c)[5] = c[2]
  <2> DEFINE p == a \o b
  <2> HIDE DEF p
  <2>1. p \in Seq(S) /\ Len(p) = 3
    BY <1>5 DEF p
  <2>2. c \in Seq(S) /\ Len(c) = 2
    BY <1>3
  <2>3. /\ p \o c \in Seq(S) /\ Len(p \o c) = Len(p) + Len(c)
        /\ \A i \in 1 .. Len(p) + Len(c) : (p \o c)[i] = IF i <= Len(p) THEN p[i] ELSE c[i - Len(p)]
    BY <2>1, <2>2, ConcatProperties
  <2> QED
    BY <1>5, <2>1, <2>2, <2>3 DEF p
<1> DEFINE s == a \o b \o c \o d
<1>7. s \in Seq(S) /\ Len(s) = 6
      /\ s[1] = a[1] /\ s[2] = a[2] /\ s[3] = b[1] /\ s[4] = c[1] /\ s[5] = c[2] /\ s[6] = Crc(f.id, f.val)
  BY <1>4, <1>6, ConcatProperties, SMTT(30)
<1>8. Bytes(f) = s
  BY DEF Bytes, a, b, c
<1> HIDE DEF s, d
<1>9. \A k \in 1 .. 5 : k = 1 \/ k = 2 \/ k = 3 \/ k = 4 \/ k = 5
  OBVIOUS
<1>10. \A k \in 1 .. 5 : ~IsCrc(s[k])
  BY <1>1, <1>2, <1>3, <1>7, <1>9
<1>11. Range(Bytes(f)) \subseteq ByteSet
  BY DEF ByteSet
<1>12. Bytes(f) \in Seq(ByteSet)
  BY <1>7, <1>8, <1>11, SeqOfRange, SeqMonotonic
<1> QED
  BY <1>7, <1>8, <1>10, <1>12 DEF BufferSize, a

-----------------------------------------------------------------------------
(* What one read takes and what the loop over the heads makes of it.       *)

LEMMA MinOfPair ==
    ASSUME NEW a \in Nat, NEW b \in Nat
    PROVE  Min({a, b}) = IF a <= b THEN a ELSE b
<1>1. \E x \in {a, b} : \A y \in {a, b} : x <= y
  OBVIOUS
<1> QED
  BY <1>1 DEF Min

\* The first head of a chunk is where the code finds it.
LEMMA FirstHead ==
    ASSUME NEW data, NEW len \in 0 .. BufferSize, HeadsIn(data, len) # {}
    PROVE  /\ Min(HeadsIn(data, len)) \in HeadsIn(data, len)
           /\ \A p \in HeadsIn(data, len) : Min(HeadsIn(data, len)) <= p
<1> DEFINE H == HeadsIn(data, len)
<1>1. H \subseteq {0, 1, 2, 3, 4}
  BY SMTT(30) DEF HeadsIn, BufferSize, ResvHead
<1> HIDE DEF H
<1>2. H # {}
  BY DEF H
<1>3. \E x \in H : \A y \in H : x <= y
  <2>1. \A y \in H : y = 0 \/ y = 1 \/ y = 2 \/ y = 3 \/ y = 4
    BY <1>1
  <2>2. CASE 0 \in H
    BY <2>1, <2>2
  <2>3. CASE 0 \notin H /\ 1 \in H
    BY <2>1, <2>3
  <2>4. CASE 0 \notin H /\ 1 \notin H /\ 2 \in H
    BY <2>1, <2>4
  <2>5. CASE 0 \notin H /\ 1 \notin H /\ 2 \notin H /\ 3 \in H
    BY <2>1, <2>5
  <2>6. CASE 0 \notin H /\ 1 \notin H /\ 2 \notin H /\ 3 \notin H
    BY <1>2, <2>1, <2>6
  <2> QED
    BY <2>2, <2>3, <2>4, <2>5, <2>6
<1>4. Min(H) \in H /\ \A y \in H : Min(H) <= y
  BY <1>3 DEF Min
<1> QED
  BY <1>4 DEF H

\* The loop over the heads never makes a byte up and never a chunk longer; it
\* leaves a chunk alone that begins with a head or is shorter than one.
LEMMA FramedOf ==
    ASSUME NEW data, DOMAIN data = Indices, NEW len \in 0 .. BufferSize
    PROVE  /\ Framed(data, len).len \in 0 .. len
           /\ DOMAIN Framed(data, len).data = Indices
           /\ \A k \in Indices : \E j \in Indices : Framed(data, len).data[k] = data[j]
           /\ len < 2 => Framed(data, len) = [data |-> data, len |-> len]
           /\ /\ data \in [Indices -> ByteSet]
              /\ data[1] = ResvHead[1] /\ data[2] = ResvHead[2]
              => Framed(data, len) = [data |-> data, len |-> len]
<1>0. Len(ResvHead) = 2 /\ DOMAIN ResvHead = {1, 2}
  BY DEF ResvHead
<1>1. CASE len < 2
  BY <1>0, <1>1 DEF Framed, Indices
<1>2. CASE len >= 2 /\ HeadsIn(data, len) = {}
  <2>1. Framed(data, len) = [data |-> data, len |-> 0]
    BY <1>0, <1>2 DEF Framed
  <2>2. ~(data[1] = ResvHead[1] /\ data[2] = ResvHead[2])
    <3>1. 0 \notin HeadsIn(data, len)
      BY <1>2
    <3>2. 0 \in 0 .. len - Len(ResvHead)
      BY <1>0, <1>2
    <3> QED
      BY <1>0, <3>1, <3>2 DEF HeadsIn
  <2> QED
    BY <1>2, <2>1, <2>2 DEF Indices
<1>3. CASE len >= 2 /\ HeadsIn(data, len) # {}
  <2> DEFINE pos == Min(HeadsIn(data, len))
  <2>1. Framed(data, len) = [data |-> Moved(data, pos, len), len |-> len - pos]
    BY <1>0, <1>3 DEF Framed
  <2>2. pos \in HeadsIn(data, len) /\ \A p \in HeadsIn(data, len) : pos <= p
    BY <1>3, FirstHead
  <2> HIDE DEF pos
  <2>3. pos \in 0 .. len - 2
    BY <1>0, <2>2 DEF HeadsIn
  <2>4. \A k \in Indices : k + pos <= len => k + pos \in Indices
    BY <2>3 DEF Indices, BufferSize
  <2>5. \A k \in Indices : \E j \in Indices : Moved(data, pos, len)[k] = data[j]
    BY <2>4 DEF Moved
  <2>6. ASSUME data \in [Indices -> ByteSet], data[1] = ResvHead[1], data[2] = ResvHead[2]
        PROVE  pos = 0 /\ Moved(data, pos, len) = data
    <3>1. 0 \in 0 .. len - Len(ResvHead)
      BY <1>0, <1>3
    <3>2. 0 \in HeadsIn(data, len)
      BY <1>0, <2>6, <3>1 DEF HeadsIn
    <3>3. pos = 0
      BY <2>2, <2>3, <3>2
    <3>4. \A k \in Indices : Moved(data, 0, len)[k] = data[k]
      BY DEF Moved, Indices
    <3> QED
      BY <2>6, <3>3, <3>4 DEF Moved
  <2>7. len - pos \in 0 .. len /\ (pos = 0 => len - pos = len)
    BY <2>3
  <2>8. DOMAIN Moved(data, pos, len) = Indices
    BY DEF Moved
  <2> QED
    BY <1>3, <2>1, <2>5, <2>6, <2>7, <2>8
<1> QED
  BY <1>1, <1>2, <1>3 DEF BufferSize

\* What is on its way to the reader, in the order in which it will be read.
Line == kernel \o wire

LEMMA ConcatOf ==
    ASSUME NEW a \in Seq(ByteSet), NEW b \in Seq(ByteSet)
    PROVE  /\ a \o b \in Seq(ByteSet) /\ Len(a \o b) = Len(a) + Len(b)
           /\ Len(a) \in Nat /\ Len(b) \in Nat
           /\ \A i \in 1 .. Len(a) : (a \o b)[i] = a[i]
           /\ \A i \in 1 .. Len(b) : (a \o b)[Len(a) + i] = b[i]
<1>1. /\ a \o b \in Seq(ByteSet) /\ Len(a \o b) = Len(a) + Len(b)
      /\ \A i \in 1 .. Len(a) + Len(b) : (a \o b)[i] = IF i <= Len(a) THEN a[i] ELSE b[i - Len(a)]
  BY ConcatProperties
<1>2. Len(a) \in Nat /\ Len(b) \in Nat
  OBVIOUS
<1>3. \A i \in 1 .. Len(b) : ~(Len(a) + i <= Len(a)) /\ (Len(a) + i) - Len(a) = i
  BY <1>2
<1> QED
  BY <1>1, <1>2, <1>3

LEMMA LineOf ==
    ASSUME RxTypeOK
    PROVE  /\ Line \in Seq(ByteSet) /\ Len(Line) = Len(kernel) + Len(wire)
           /\ Len(kernel) \in Nat /\ Len(wire) \in Nat
           /\ \A i \in 1 .. Len(kernel) : Line[i] = kernel[i]
           /\ \A i \in 1 .. Len(wire) : Line[Len(kernel) + i] = wire[i]
BY ConcatOf DEF RxTypeOK, Line

LEMMA LineOfNext ==
    ASSUME RxTypeOK'
    PROVE  /\ Line' \in Seq(ByteSet) /\ Len(Line') = Len(kernel') + Len(wire')
           /\ Len(kernel') \in Nat /\ Len(wire') \in Nat
           /\ \A i \in 1 .. Len(kernel') : Line'[i] = kernel'[i]
           /\ \A i \in 1 .. Len(wire') : Line'[Len(kernel') + i] = wire'[i]
BY ConcatOf DEF RxTypeOK, Line

\* One system call takes the first bytes of the line and puts them behind what
\* the buffer has; then the loop over the heads looks at the buffer.
LEMMA ChunkOf ==
    ASSUME RxTypeOK, ReadChunk
    PROVE  \E n \in 1 .. Len(kernel) :
             /\ readLen + n \in 1 .. BufferSize
             /\ kernel' = SubSeq(kernel, n + 1, Len(kernel))
             /\ Appended(n) \in [Indices -> ByteSet]
             /\ \A i \in Indices : i <= readLen => Appended(n)[i] = buffer[i]
             /\ \A i \in 1 .. n : Appended(n)[readLen + i] = Line[i]
             /\ \A i \in Indices : Appended(n)[i] = buffer[i] \/ \E j \in 1 .. n : Appended(n)[i] = Line[j]
             /\ buffer' = Framed(Appended(n), readLen + n).data
             /\ readLen' = Framed(Appended(n), readLen + n).len
             /\ pc = "read" /\ pc' = LoopTest(readLen')
             /\ UNCHANGED <<running, wire, faults, sent, delivered, fresh>>
<1> DEFINE n == Min({Len(kernel), BufferSize - readLen})
<1>1. kernel \in Seq(ByteSet) /\ kernel # <<>> /\ Len(kernel) \in Nat \ {0}
  BY EmptySeq DEF RxTypeOK, ReadChunk
<1>2. readLen \in 0 .. BufferSize - 1 /\ pc = "read" /\ buffer \in [Indices -> ByteSet]
  BY DEF RxTypeOK, ReadChunk, BufferSize
<1>3. BufferSize - readLen \in Nat /\ n = IF Len(kernel) <= BufferSize - readLen THEN Len(kernel) ELSE BufferSize - readLen
  BY <1>1, <1>2, MinOfPair DEF BufferSize
<1>4. n \in 1 .. Len(kernel) /\ readLen + n \in 1 .. BufferSize
  BY <1>1, <1>2, <1>3 DEF BufferSize
<1>5. /\ kernel' = SubSeq(kernel, n + 1, Len(kernel))
      /\ buffer' = Framed(Appended(n), readLen + n).data
      /\ readLen' = Framed(Appended(n), readLen + n).len
      /\ pc' = LoopTest(readLen')
      /\ UNCHANGED <<running, wire, faults, sent, delivered, fresh>>
  BY DEF ReadChunk
<1> HIDE DEF n
<1>6. \A i \in 1 .. n : Line[i] = kernel[i] /\ kernel[i] \in ByteSet
  BY <1>1, <1>4, LineOf, ElementOfSeq
<1>7. \A i \in Indices : i \in readLen + 1 .. readLen + n <=> i - readLen \in 1 .. n
  BY <1>2, <1>4 DEF Indices, BufferSize
<1>8. \A i \in Indices : Appended(n)[i] = IF i - readLen \in 1 .. n THEN Line[i - readLen] ELSE buffer[i]
  BY <1>6, <1>7 DEF Appended
<1>9. Appended(n) \in [Indices -> ByteSet]
  <2>1. \A i \in Indices : Appended(n)[i] \in ByteSet
    BY <1>2, <1>6, <1>8
  <2> QED
    BY <2>1 DEF Appended
<1>10. \A i \in 1 .. n : readLen + i \in Indices /\ (readLen + i) - readLen = i
  BY <1>2, <1>4 DEF Indices, BufferSize
<1>11. \A i \in Indices : i <= readLen => i - readLen \notin 1 .. n
  BY <1>2, <1>4 DEF Indices, BufferSize
<1> QED
  BY <1>2, <1>4, <1>5, <1>8, <1>9, <1>10, <1>11

-----------------------------------------------------------------------------
(* The types.                                                              *)

LEMMA BytesInSet == Zero \in ByteSet /\ Noise \in ByteSet
BY DEF ByteSet

LEMMA FaultOf ==
    ASSUME RxTypeOK, NEW i \in DOMAIN wire, Fault(i)
    PROVE  /\ wire' \in Seq(ByteSet)
           /\ \/ /\ Len(wire') = Len(wire)
                 /\ \A k \in 1 .. Len(wire) : wire'[k] = IF k = i THEN Noise ELSE wire[k]
              \/ /\ Len(wire') = Len(wire) - 1
                 /\ \A k \in 1 .. Len(wire) - 1 : wire'[k] = IF k < i THEN wire[k] ELSE wire[k + 1]
<1>1. wire \in Seq(ByteSet) /\ i \in 1 .. Len(wire) /\ Len(wire) \in Nat
  BY DEF RxTypeOK
<1>2. CASE wire' = [wire EXCEPT ![i] = Noise]
  BY <1>1, <1>2, BytesInSet, ExceptSeq
<1>3. CASE wire' = RemoveAt(wire, i)
  <2> DEFINE a == SubSeq(wire, 1, i - 1)
             b == SubSeq(wire, i + 1, Len(wire))
  <2>1. a \in Seq(ByteSet) /\ Len(a) = i - 1 /\ \A k \in 1 .. i - 1 : a[k] = wire[k]
    <3>1. \A k \in 1 .. i - 1 : wire[k] \in ByteSet
      BY <1>1, ElementOfSeq
    <3> QED
      BY <1>1, <3>1, SubSeqProperties
  <2>2. b \in Seq(ByteSet) /\ Len(b) = Len(wire) - i /\ \A k \in 1 .. Len(wire) - i : b[k] = wire[i + k]
    <3>1. \A k \in i + 1 .. Len(wire) : wire[k] \in ByteSet
      BY <1>1, ElementOfSeq
    <3> QED
      BY <1>1, <3>1, SubSeqProperties
  <2>3. wire' = a \o b
    BY <1>3 DEF RemoveAt
  <2> HIDE DEF a, b
  <2>4. /\ a \o b \in Seq(ByteSet) /\ Len(a \o b) = Len(a) + Len(b)
        /\ \A k \in 1 .. Len(a) + Len(b) : (a \o b)[k] = IF k <= Len(a) THEN a[k] ELSE b[k - Len(a)]
    BY <2>1, <2>2, ConcatProperties
  <2>5. ASSUME NEW k \in 1 .. Len(wire) - 1 PROVE wire'[k] = IF k < i THEN wire[k] ELSE wire[k + 1]
    <3>1. CASE k < i
      <4>1. k \in 1 .. Len(a) + Len(b) /\ k <= Len(a) /\ k \in 1 .. i - 1
        BY <1>1, <2>1, <2>2, <3>1
      <4> QED
        BY <2>1, <2>3, <2>4, <3>1, <4>1
    <3>2. CASE k >= i
      <4>1. k - (i - 1) \in 1 .. Len(wire) - i /\ i + (k - (i - 1)) = k + 1
        BY <1>1, <3>2
      <4>2. k \in 1 .. Len(a) + Len(b) /\ ~(k <= Len(a)) /\ k - Len(a) = k - (i - 1)
        BY <1>1, <2>1, <2>2, <3>2
      <4>3. wire'[k] = b[k - (i - 1)]
        BY <2>3, <2>4, <4>2
      <4> QED
        BY <2>2, <3>2, <4>1, <4>3
    <3> QED
      BY <1>1, <3>1, <3>2
  <2>6. Len(a) = i - 1 /\ Len(b) = Len(wire) - i
    BY <2>1, <2>2
  <2>7. (i - 1) + (Len(wire) - i) = Len(wire) - 1
    BY <1>1
  <2>8. wire' \in Seq(ByteSet) /\ Len(wire') = Len(wire) - 1
    BY <2>3, <2>4, <2>6, <2>7, Zenon
  <2> QED
    BY <2>5, <2>8, Zenon
<1> QED
  BY <1>2, <1>3 DEF Fault

LEMMA RxInitType == Init => RxTypeOK
<1> SUFFICES ASSUME Init PROVE RxTypeOK
  OBVIOUS
<1>1. buffer \in [Indices -> ByteSet]
  BY BytesInSet DEF Init, ZeroBuffer
<1>2. wire \in Seq(ByteSet) /\ kernel \in Seq(ByteSet) /\ sent \in Seq(Frames) /\ delivered \in Seq(Frames)
      /\ Len(sent) = 0
  BY EmptySeq DEF Init
<1> QED
  BY <1>1, <1>2, RxAssumption DEF Init, RxTypeOK, BufferSize

LEMMA RxTypeNext == RxTypeOK /\ [Next]_vars => RxTypeOK'
<1> SUFFICES ASSUME RxTypeOK, [Next]_vars PROVE RxTypeOK'
  OBVIOUS
<1>0. Len(sent) \in Nat
  BY DEF RxTypeOK
<1>1. ASSUME NEW f \in Frames, SendFrame(f) PROVE RxTypeOK'
  <2>1. wire' \in Seq(ByteSet)
    BY <1>1, BytesOf, ConcatProperties DEF SendFrame, RxTypeOK
  <2>2. sent' \in Seq(Frames) /\ Len(sent') = Len(sent) + 1
    BY <1>1, AppendProperties DEF SendFrame, RxTypeOK
  <2>3. fresh' \in 0 .. Len(sent')
    BY <1>0, <1>1, <2>2 DEF SendFrame, RxTypeOK
  <2> QED
    BY <1>1, <2>1, <2>2, <2>3 DEF SendFrame, RxTypeOK, portVars
<1>2. ASSUME NEW i \in DOMAIN wire, Fault(i) PROVE RxTypeOK'
  BY <1>0, <1>2, FaultOf, RxAssumption DEF Fault, RxTypeOK, portVars
<1>3. CASE Arrive
  <2>1. wire # <<>> /\ wire \in Seq(ByteSet) /\ wire[1] \in ByteSet
    BY <1>3, EmptySeq, ElementOfSeq DEF Arrive, RxTypeOK
  <2>2. wire' \in Seq(ByteSet) /\ kernel' \in Seq(ByteSet)
    BY <1>3, <2>1, HeadTailProperties, AppendProperties DEF Arrive, RxTypeOK
  <2> QED
    BY <1>3, <2>2 DEF Arrive, RxTypeOK, portVars
<1>4. CASE ReadChunk
  <2>1. PICK n \in 1 .. Len(kernel) :
             /\ readLen + n \in 1 .. BufferSize
             /\ kernel' = SubSeq(kernel, n + 1, Len(kernel))
             /\ Appended(n) \in [Indices -> ByteSet]
             /\ buffer' = Framed(Appended(n), readLen + n).data
             /\ readLen' = Framed(Appended(n), readLen + n).len
             /\ pc' = LoopTest(readLen')
             /\ UNCHANGED <<running, wire, faults, sent, delivered, fresh>>
    BY <1>4, ChunkOf
  <2>2. kernel \in Seq(ByteSet) /\ Len(kernel) \in Nat
    BY DEF RxTypeOK
  <2>3. kernel' \in Seq(ByteSet)
    <3>1. \A k \in n + 1 .. Len(kernel) : kernel[k] \in ByteSet
      BY <2>2, ElementOfSeq
    <3> QED
      BY <2>1, <2>2, <3>1, SubSeqProperties
  <2> DEFINE a == Appended(n)
             fr == Framed(a, readLen + n)
  <2>4. DOMAIN a = Indices /\ readLen + n \in 0 .. BufferSize
    BY <2>1
  <2> HIDE DEF a
  <2>5. fr.len \in 0 .. readLen + n /\ DOMAIN fr.data = Indices
        /\ \A k \in Indices : \E j \in Indices : fr.data[k] = a[j]
    BY <2>4, FramedOf
  <2>6. readLen' \in 0 .. BufferSize /\ (pc' = "read" => readLen' < BufferSize) /\ pc' \in {"read", "dispatch"}
    <3>1. readLen' \in 0 .. readLen + n
      BY <2>1, <2>5 DEF a
    <3>2. readLen' \in 0 .. BufferSize
      BY <2>4, <3>1 DEF BufferSize
    <3> QED
      BY <2>1, <3>2 DEF LoopTest, BufferSize
  <2>7. buffer' \in [Indices -> ByteSet]
    <3>1. \A k \in Indices : fr.data[k] \in ByteSet
      BY <2>1, <2>5 DEF a
    <3>2. fr.data = [k \in Indices |-> fr.data[k]]
      BY <2>5 DEF Framed, Moved, a, Appended
    <3> HIDE DEF fr
    <3>3. fr.data \in [Indices -> ByteSet]
      BY <3>1, <3>2
    <3> QED
      BY <2>1, <3>3 DEF fr, a
  <2> QED
    BY <2>1, <2>3, <2>6, <2>7 DEF RxTypeOK
<1>5. CASE PollTimesOut
  BY <1>0, <1>5 DEF PollTimesOut, RxTypeOK, lineVars, Returned
<1>6. CASE ReadFails
  BY <1>0, <1>6 DEF ReadFails, RxTypeOK, lineVars, BufferSize
<1>7. CASE BeginRead
  <2>1. ZeroBuffer \in [Indices -> ByteSet]
    BY BytesInSet DEF ZeroBuffer
  <2> QED
    BY <1>7, <2>1 DEF BeginRead, RxTypeOK, lineVars, BufferSize
<1>8. CASE Dispatch
  <2>1. delivered' \in Seq(Frames)
    <3>1. delivered \in Seq(Frames)
      BY DEF RxTypeOK
    <3>2. delivered' = delivered \/ \E f \in Frames : delivered' = Append(delivered, f)
      BY <1>8 DEF Dispatch, Accepted
    <3> QED
      BY <3>1, <3>2, AppendProperties
  <2> QED
    BY <1>0, <1>8, <2>1 DEF Dispatch, RxTypeOK, lineVars, BufferSize
<1>9. CASE LeaveLoop \/ Stop
  BY <1>9 DEF LeaveLoop, Stop, RxTypeOK, lineVars, portVars
<1>10. CASE UNCHANGED vars
  BY <1>10 DEF vars, RxTypeOK, lineVars, portVars
<1> QED
  BY <1>1, <1>2, <1>3, <1>4, <1>5, <1>6, <1>7, <1>8, <1>9, <1>10 DEF Next, Thread

LEMMA RxTypeInvariance == Spec => []RxTypeOK
BY RxInitType, RxTypeNext, PTL DEF Spec

-----------------------------------------------------------------------------
(* Order.  A frame counts by its last byte: place says which frame of sent  *)
(* a delivered one is, and at says the same of a last byte on the line.     *)

CrcOf(f) == Crc(f.id, f.val)

\* What DeliveredInOrder claims of place.
Ordered(place) ==
    /\ \A i \in DOMAIN delivered : delivered[i] = sent[place[i]]
    /\ \A i, j \in DOMAIN delivered : i < j => place[i] < place[j]

\* Whose last byte one on the line is: of frames in the order in which they were
\* sent, none of them delivered.
Marked(place, at) ==
    /\ \A k \in 1 .. Len(Line) :
         IsCrc(Line[k]) =>
            /\ at[k] \in DOMAIN sent /\ Line[k] = CrcOf(sent[at[k]])
            /\ \A i \in DOMAIN delivered : place[i] < at[k]
    /\ \A k, l \in 1 .. Len(Line) :
         k < l /\ IsCrc(Line[k]) /\ IsCrc(Line[l]) => at[k] < at[l]

\* j is a frame after the delivered ones and before those on the line.
Between(place, at, j) ==
    /\ \A i \in DOMAIN delivered : place[i] < j
    /\ \A l \in 1 .. Len(Line) : IsCrc(Line[l]) => j < at[l]

\* As long as a read may still use them, the last bytes in the buffer, those
\* left over from a move or from a chunk given up included, are of such frames.
Held(place, at) ==
    pc \in {"read", "dispatch"} =>
        \A k \in Indices :
            IsCrc(buffer[k]) =>
                \E j \in DOMAIN sent : buffer[k] = CrcOf(sent[j]) /\ Between(place, at, j)

Order ==
    \E place \in [DOMAIN delivered -> DOMAIN sent], at \in [1 .. Len(Line) -> Nat] :
        Ordered(place) /\ Marked(place, at) /\ Held(place, at)

LEMMA OrderInit == Init => Order
<1> SUFFICES ASSUME Init PROVE Order
  OBVIOUS
<1>1. DOMAIN delivered = {} /\ DOMAIN sent = {} /\ Len(Line) = 0 /\ pc = "top"
  BY ConcatEmptySeq, EmptySeq DEF Init, Line
<1>2. 1 .. Len(Line) = {}
  BY <1>1
<1> DEFINE place == [i \in {} |-> 0]
           at == [i \in {} |-> 0]
<1>3. place \in [DOMAIN delivered -> DOMAIN sent] /\ at \in [1 .. Len(Line) -> Nat]
  BY <1>1, <1>2
<1>4. Ordered(place) /\ Marked(place, at) /\ Held(place, at)
  BY <1>1, <1>2 DEF Ordered, Marked, Held
<1> QED
  BY <1>3, <1>4 DEF Order

\* Whatever the line loses or damages and the reader takes from its beginning,
\* the order stays: only the last bytes left on the line and those that came
\* into the buffer from before them matter.
LEMMA LineShrinks ==
    ASSUME RxTypeOK, RxTypeOK', Order, UNCHANGED <<sent, delivered>>,
           NEW from \in [1 .. Len(Line') -> 1 .. Len(Line)],
           \A k, l \in 1 .. Len(Line') : k < l => from[k] < from[l],
           \A k \in 1 .. Len(Line') : IsCrc(Line'[k]) => Line'[k] = Line[from[k]],
           pc' \in {"read", "dispatch"} =>
             \A k \in Indices : IsCrc(buffer'[k]) =>
               \/ pc \in {"read", "dispatch"} /\ \E j \in Indices : buffer'[k] = buffer[j]
               \/ \E j \in 1 .. Len(Line) :
                    buffer'[k] = Line[j] /\ \A l \in 1 .. Len(Line') : j < from[l]
    PROVE  Order'
<1>1. PICK place \in [DOMAIN delivered -> DOMAIN sent], at \in [1 .. Len(Line) -> Nat] :
         Ordered(place) /\ Marked(place, at) /\ Held(place, at)
  BY DEF Order
<1>2. PICK moved \in [1 .. Len(Line') -> Nat] : \A k \in 1 .. Len(Line') : moved[k] = at[from[k]]
  <2>1. [k \in 1 .. Len(Line') |-> at[from[k]]] \in [1 .. Len(Line') -> Nat]
    BY <1>1
  <2> QED
    BY <2>1
<1>3. place \in [DOMAIN delivered' -> DOMAIN sent'] /\ moved \in [1 .. Len(Line') -> Nat]
  BY <1>1, <1>2
<1>4. Ordered(place)'
  BY <1>1 DEF Ordered
<1>5. \A k \in 1 .. Len(Line') : IsCrc(Line'[k]) => IsCrc(Line[from[k]])
  OBVIOUS
<1>6. ASSUME NEW k \in 1 .. Len(Line'), IsCrc(Line'[k])
      PROVE  /\ moved[k] \in DOMAIN sent' /\ Line'[k] = CrcOf(sent'[moved[k]])
             /\ \A i \in DOMAIN delivered' : place[i] < moved[k]
  BY <1>1, <1>2, <1>5, <1>6 DEF Marked
<1>7. ASSUME NEW k \in 1 .. Len(Line'), NEW l \in 1 .. Len(Line'), k < l, IsCrc(Line'[k]), IsCrc(Line'[l])
      PROVE  moved[k] < moved[l]
  <2>1. /\ from[k] \in 1 .. Len(Line) /\ from[l] \in 1 .. Len(Line) /\ from[k] < from[l]
        /\ IsCrc(Line[from[k]]) /\ IsCrc(Line[from[l]])
    BY <1>5, <1>7
  <2>2. at[from[k]] < at[from[l]]
    BY <1>1, <2>1 DEF Marked
  <2> QED
    BY <1>2, <2>2
<1>8. (Marked(place, moved))'
  BY <1>6, <1>7 DEF Marked
<1>9. ASSUME pc' \in {"read", "dispatch"}, NEW k \in Indices, IsCrc(buffer'[k])
      PROVE  \E j \in DOMAIN sent' : buffer'[k] = CrcOf(sent'[j]) /\ (Between(place, moved, j))'
  <2>1. CASE pc \in {"read", "dispatch"} /\ \E j \in Indices : buffer'[k] = buffer[j]
    <3>1. PICK i \in Indices : buffer'[k] = buffer[i] /\ IsCrc(buffer[i])
      BY <1>9, <2>1
    <3>2. PICK j \in DOMAIN sent : buffer[i] = CrcOf(sent[j]) /\ Between(place, at, j)
      BY <1>1, <2>1, <3>1 DEF Held
    <3>3. \A l \in 1 .. Len(Line') : IsCrc(Line'[l]) => j < moved[l]
      BY <1>2, <1>5, <3>2 DEF Between
    <3>4. (Between(place, moved, j))'
      BY <3>2, <3>3 DEF Between
    <3> QED
      BY <3>1, <3>2, <3>4
  <2>2. CASE \E i \in 1 .. Len(Line) :
               buffer'[k] = Line[i] /\ \A l \in 1 .. Len(Line') : i < from[l]
    <3>1. PICK i \in 1 .. Len(Line) : buffer'[k] = Line[i] /\ \A l \in 1 .. Len(Line') : i < from[l]
      BY <2>2
    <3>2. /\ at[i] \in DOMAIN sent /\ Line[i] = CrcOf(sent[at[i]])
          /\ \A d \in DOMAIN delivered : place[d] < at[i]
      BY <1>1, <1>9, <3>1 DEF Marked
    <3>3. \A l \in 1 .. Len(Line') : IsCrc(Line'[l]) => at[i] < moved[l]
      BY <1>1, <1>2, <1>5, <1>9, <3>1 DEF Marked
    <3>4. (Between(place, moved, at[i]))'
      BY <3>2, <3>3 DEF Between
    <3> QED
      BY <3>1, <3>2, <3>4
  <2> QED
    BY <1>9, <2>1, <2>2
<1>10. (Held(place, moved))'
  BY <1>9 DEF Held
<1> QED
  BY <1>3, <1>4, <1>8, <1>10 DEF Order

\* The reader's and the line's steps that neither send nor deliver.
LEMMA OrderQuiet ==
    ASSUME RxTypeOK, RxTypeOK', Order, UNCHANGED <<sent, delivered, kernel, wire>>,
           \/ UNCHANGED <<pc, buffer>>
           \/ pc \in {"read", "dispatch"} /\ buffer' = buffer
           \/ pc' \notin {"read", "dispatch"}
           \/ buffer' = ZeroBuffer
    PROVE  Order'
<1> DEFINE from == [k \in 1 .. Len(Line) |-> k]
<1>1. Line' = Line
  BY DEF Line
<1>2. /\ from \in [1 .. Len(Line') -> 1 .. Len(Line)]
      /\ \A k, l \in 1 .. Len(Line') : k < l => from[k] < from[l]
      /\ \A k \in 1 .. Len(Line') : IsCrc(Line'[k]) => Line'[k] = Line[from[k]]
  BY <1>1
<1>3. ~IsCrc(Zero)
  BY DEF IsCrc, Zero, Crc
<1>4. pc' \in {"read", "dispatch"} =>
        \A k \in Indices : IsCrc(buffer'[k]) =>
          pc \in {"read", "dispatch"} /\ \E j \in Indices : buffer'[k] = buffer[j]
  BY <1>3 DEF ZeroBuffer
<1> QED
  BY <1>2, <1>4, LineShrinks

\* What arrives only moves from the wire to the driver.
LEMMA ArriveKeepsLine == ASSUME RxTypeOK, RxTypeOK', Arrive PROVE Line' = Line
<1>1. /\ wire # <<>> /\ wire \in Seq(ByteSet) /\ kernel \in Seq(ByteSet) /\ wire[1] \in ByteSet
      /\ kernel' = Append(kernel, wire[1]) /\ wire' = Tail(wire)
      /\ UNCHANGED <<sent, delivered, pc, buffer>>
  BY EmptySeq, ElementOfSeq DEF Arrive, RxTypeOK, portVars
<1>2. /\ Len(kernel') = Len(kernel) + 1 /\ kernel'[Len(kernel) + 1] = wire[1]
      /\ \A i \in 1 .. Len(kernel) : kernel'[i] = kernel[i]
  BY <1>1, AppendProperties
<1>3. Len(wire') = Len(wire) - 1 /\ \A i \in 1 .. Len(wire) - 1 : wire'[i] = wire[i + 1]
  BY <1>1, HeadTailProperties
<1>4. Len(wire) \in Nat \ {0} /\ Len(kernel) \in Nat
  BY <1>1, EmptySeq
<1>5. Line \in Seq(ByteSet) /\ Line' \in Seq(ByteSet) /\ Len(Line') = Len(Line)
  BY <1>2, <1>3, <1>4, LineOf, LineOfNext
<1>6. ASSUME NEW i \in 1 .. Len(Line) PROVE Line'[i] = Line[i]
  <2>1. CASE i <= Len(kernel)
    BY <1>2, <1>4, <1>6, <2>1, LineOf, LineOfNext
  <2>2. CASE i = Len(kernel) + 1
    BY <1>2, <1>4, <1>6, <2>2, LineOf, LineOfNext
  <2>3. CASE i > Len(kernel) + 1
    <3> DEFINE k == i - (Len(kernel) + 1)
    <3>1. k \in 1 .. Len(wire) - 1 /\ k + 1 \in 1 .. Len(wire)
          /\ i = Len(kernel') + k /\ i = Len(kernel) + (k + 1)
      BY <1>2, <1>4, <1>6, <2>3, LineOf
    <3> HIDE DEF k
    <3>2. Line'[i] = wire'[k] /\ Line[i] = wire[k + 1]
      BY <1>3, <3>1, LineOf, LineOfNext
    <3> QED
      BY <1>3, <3>1, <3>2
  <2> QED
    BY <1>4, <1>6, <2>1, <2>2, <2>3, LineOf
<1> QED
  BY <1>5, <1>6, SeqEqual

LEMMA OrderArrive == ASSUME RxTypeOK, RxTypeOK', Order, Arrive PROVE Order'
<1>1. UNCHANGED <<sent, delivered, pc, buffer>> /\ Line' = Line
  BY ArriveKeepsLine DEF Arrive, portVars
<1> DEFINE from == [k \in 1 .. Len(Line) |-> k]
<1>8. /\ from \in [1 .. Len(Line') -> 1 .. Len(Line)]
      /\ \A k, l \in 1 .. Len(Line') : k < l => from[k] < from[l]
      /\ \A k \in 1 .. Len(Line') : IsCrc(Line'[k]) => Line'[k] = Line[from[k]]
  BY <1>1
<1>9. pc' \in {"read", "dispatch"} =>
        \A k \in Indices : IsCrc(buffer'[k]) =>
          pc \in {"read", "dispatch"} /\ \E j \in Indices : buffer'[k] = buffer[j]
  BY <1>1
<1> QED
  BY <1>1, <1>8, <1>9, LineShrinks

LEMMA OrderFault == ASSUME RxTypeOK, RxTypeOK', Order, NEW i \in DOMAIN wire, Fault(i) PROVE Order'
<1> DEFINE n == Len(kernel)
<1>1. /\ kernel' = kernel /\ UNCHANGED <<sent, delivered, pc, buffer>>
      /\ n \in Nat /\ Len(wire) \in Nat /\ i \in 1 .. Len(wire)
  BY LineOf DEF Fault, RxTypeOK, portVars
<1>2. ~IsCrc(Noise)
  BY DEF IsCrc, Noise, Crc
<1>3. pc' \in {"read", "dispatch"} =>
        \A k \in Indices : IsCrc(buffer'[k]) =>
          pc \in {"read", "dispatch"} /\ \E j \in Indices : buffer'[k] = buffer[j]
  BY <1>1
<1>4. CASE /\ Len(wire') = Len(wire)
           /\ \A k \in 1 .. Len(wire) : wire'[k] = IF k = i THEN Noise ELSE wire[k]
  <2> DEFINE from == [k \in 1 .. Len(Line) |-> k]
  <2>1. Len(Line') = Len(Line) /\ Len(Line) = n + Len(wire)
    BY <1>1, <1>4, LineOf, LineOfNext
  <2>2. ASSUME NEW k \in 1 .. Len(Line), IsCrc(Line'[k]) PROVE Line'[k] = Line[k]
    <3>1. CASE k <= n
      BY <1>1, <2>1, <3>1, LineOf, LineOfNext
    <3>2. CASE k > n
      <4>1. k - n \in 1 .. Len(wire) /\ k = n + (k - n)
        BY <1>1, <2>1, <3>2
      <4>2. Line[k] = wire[k - n] /\ Line'[k] = wire'[k - n]
        BY <1>1, <1>4, <4>1, LineOf, LineOfNext
      <4> QED
        BY <1>2, <1>4, <2>2, <4>1, <4>2
    <3> QED
      BY <1>1, <2>1, <3>1, <3>2
  <2>3. /\ from \in [1 .. Len(Line') -> 1 .. Len(Line)]
        /\ \A k, l \in 1 .. Len(Line') : k < l => from[k] < from[l]
        /\ \A k \in 1 .. Len(Line') : IsCrc(Line'[k]) => Line'[k] = Line[from[k]]
    BY <2>1, <2>2
  <2> QED
    BY <1>1, <1>3, <2>3, LineShrinks
<1>5. CASE /\ Len(wire') = Len(wire) - 1
           /\ \A k \in 1 .. Len(wire) - 1 : wire'[k] = IF k < i THEN wire[k] ELSE wire[k + 1]
  <2> DEFINE from == [k \in 1 .. Len(Line') |-> IF k < n + i THEN k ELSE k + 1]
  <2>1. Len(Line') = n + (Len(wire) - 1) /\ Len(Line) = n + Len(wire)
    BY <1>1, <1>5, LineOf, LineOfNext
  <2>2. ASSUME NEW k \in 1 .. Len(Line') PROVE Line'[k] = Line[from[k]]
    <3>1. CASE k <= n
      BY <1>1, <2>1, <3>1, LineOf, LineOfNext
    <3>2. CASE k > n
      <4>1. k - n \in 1 .. Len(wire) - 1 /\ k = n + (k - n) /\ k + 1 = n + ((k - n) + 1)
            /\ (k - n) + 1 \in 1 .. Len(wire) /\ k - n \in 1 .. Len(wire)
            /\ (k - n < i <=> k < n + i)
        BY <1>1, <2>1, <3>2
      <4>2. Line'[k] = wire'[k - n] /\ Line[k] = wire[k - n]
        BY <1>1, <1>5, <4>1, LineOf, LineOfNext
      <4>3. Line[k + 1] = wire[(k - n) + 1]
        BY <4>1, LineOf, SMTT(30)
      <4> QED
        BY <1>5, <4>1, <4>2, <4>3
    <3> QED
      BY <1>1, <2>1, <3>1, <3>2
  <2>3. /\ from \in [1 .. Len(Line') -> 1 .. Len(Line)]
        /\ \A k, l \in 1 .. Len(Line') : k < l => from[k] < from[l]
    BY <1>1, <2>1
  <2> QED
    BY <1>1, <1>3, <2>2, <2>3, LineShrinks
<1> QED
  BY <1>4, <1>5, FaultOf

\* A chunk is taken from the front of the line.
LEMMA ChunkShifts ==
    ASSUME RxTypeOK, RxTypeOK', NEW n \in 1 .. Len(kernel),
           kernel' = SubSeq(kernel, n + 1, Len(kernel)), wire' = wire
    PROVE  Len(Line') = Len(Line) - n /\ \A k \in 1 .. Len(Line') : Line'[k] = Line[k + n]
<1>1. kernel \in Seq(ByteSet) /\ Len(kernel) \in Nat /\ Len(wire) \in Nat /\ Len(Line) = Len(kernel) + Len(wire)
  BY LineOf DEF RxTypeOK
<1>2. Len(kernel') = Len(kernel) - n /\ \A k \in 1 .. Len(kernel) - n : kernel'[k] = kernel[n + k]
  <2>1. \A k \in n + 1 .. Len(kernel) : kernel[k] \in ByteSet
    BY <1>1, ElementOfSeq
  <2>2. /\ Len(kernel') = IF n + 1 <= Len(kernel) THEN Len(kernel) - (n + 1) + 1 ELSE 0
        /\ \A k \in 1 .. Len(kernel) - (n + 1) + 1 : kernel'[k] = kernel[(n + 1) + k - 1]
    BY <1>1, <2>1, SubSeqProperties
  <2> QED
    BY <1>1, <2>2
<1>3. Len(Line') = (Len(kernel) - n) + Len(wire) /\ Len(Line') = Len(Line) - n
  <2>1. Len(Line') = Len(kernel') + Len(wire')
    BY LineOfNext
  <2> QED
    BY <1>1, <1>2, <2>1
<1>4. ASSUME NEW k \in 1 .. Len(Line') PROVE Line'[k] = Line[k + n]
  <2>1. CASE k <= Len(kernel) - n
    BY <1>1, <1>2, <2>1, LineOf, LineOfNext
  <2>2. CASE k > Len(kernel) - n
    <3> DEFINE j == k - (Len(kernel) - n)
    <3>0. n \in Nat /\ k \in Nat /\ k <= (Len(kernel) - n) + Len(wire)
      BY <1>3
    <3>1. j \in 1 .. Len(wire) /\ k = (Len(kernel) - n) + j /\ k + n = Len(kernel) + j
      BY <1>1, <2>2, <3>0
    <3>2. k = Len(kernel') + j
      BY <1>2, <3>1
    <3> HIDE DEF j
    <3> QED
      BY <3>1, <3>2, LineOf, LineOfNext
  <2> QED
    BY <1>1, <2>1, <2>2
<1> QED
  BY <1>3, <1>4

LEMMA OrderChunk == ASSUME RxTypeOK, RxTypeOK', Order, ReadChunk PROVE Order'
<1>1. PICK n \in 1 .. Len(kernel) :
        /\ readLen + n \in 1 .. BufferSize
        /\ kernel' = SubSeq(kernel, n + 1, Len(kernel))
        /\ Appended(n) \in [Indices -> ByteSet]
        /\ \A i \in Indices : Appended(n)[i] = buffer[i] \/ \E j \in 1 .. n : Appended(n)[i] = Line[j]
        /\ buffer' = Framed(Appended(n), readLen + n).data
        /\ pc = "read"
        /\ UNCHANGED <<wire, sent, delivered>>
  BY ChunkOf
<1>2. Len(Line') = Len(Line) - n /\ \A k \in 1 .. Len(Line') : Line'[k] = Line[k + n]
  BY <1>1, ChunkShifts
<1>3. Len(Line) \in Nat /\ n <= Len(Line) /\ n \in Nat
  BY LineOf
<1> DEFINE a == Appended(n)
           from == [k \in 1 .. Len(Line') |-> k + n]
<1>4. /\ from \in [1 .. Len(Line') -> 1 .. Len(Line)]
      /\ \A k, l \in 1 .. Len(Line') : k < l => from[k] < from[l]
      /\ \A k \in 1 .. Len(Line') : Line'[k] = Line[from[k]]
  BY <1>2, <1>3
<1>5. \A k \in Indices : \E i \in Indices : buffer'[k] = a[i]
  <2>1. DOMAIN a = Indices /\ readLen + n \in 0 .. BufferSize
    BY <1>1
  <2> HIDE DEF a
  <2>2. \A k \in Indices : \E i \in Indices : Framed(a, readLen + n).data[k] = a[i]
    BY <2>1, FramedOf
  <2> QED
    BY <1>1, <2>2 DEF a
<1>6. ASSUME NEW k \in Indices
      PROVE  \/ pc \in {"read", "dispatch"} /\ \E j \in Indices : buffer'[k] = buffer[j]
             \/ \E j \in 1 .. Len(Line) : buffer'[k] = Line[j] /\ \A l \in 1 .. Len(Line') : j < from[l]
  <2>1. PICK i \in Indices : buffer'[k] = a[i]
    BY <1>5
  <2>2. CASE a[i] = buffer[i]
    BY <1>1, <2>1, <2>2
  <2>3. CASE \E j \in 1 .. n : a[i] = Line[j]
    <3>1. PICK j \in 1 .. n : a[i] = Line[j]
      BY <2>3
    <3>2. j \in 1 .. Len(Line) /\ \A l \in 1 .. Len(Line') : j < from[l]
      BY <1>2, <1>3
    <3> QED
      BY <2>1, <3>1, <3>2
  <2> QED
    BY <1>1, <2>2, <2>3
<1> HIDE DEF from
<1> QED
  BY <1>1, <1>4, <1>6, LineShrinks

\* What is sent goes behind what is on the line.
LEMMA SendAppends ==
    ASSUME RxTypeOK, NEW f \in Frames, SendFrame(f)
    PROVE  /\ Len(Line) \in Nat /\ Len(Line') = Len(Line) + 6
           /\ \A k \in 1 .. Len(Line) : Line'[k] = Line[k]
           /\ \A k \in 1 .. 6 : Line'[Len(Line) + k] = Bytes(f)[k]
<1>1. /\ kernel' = kernel /\ wire' = wire \o Bytes(f)
      /\ wire \in Seq(ByteSet) /\ kernel \in Seq(ByteSet)
  BY DEF SendFrame, RxTypeOK
<1>2. Bytes(f) \in Seq(ByteSet) /\ Len(Bytes(f)) = 6
  BY BytesOf DEF BufferSize
<1>3. Line' = Line \o Bytes(f)
  <2>1. \A a, b, c \in Seq(ByteSet) : (a \o b) \o c = a \o (b \o c)
    BY ConcatAssociative
  <2> QED
    BY <1>1, <1>2, <2>1 DEF Line
<1>4. Line \in Seq(ByteSet)
  BY LineOf
<1>5. /\ Len(Line) \in Nat /\ Len(Line \o Bytes(f)) = Len(Line) + Len(Bytes(f))
      /\ \A k \in 1 .. Len(Line) : (Line \o Bytes(f))[k] = Line[k]
      /\ \A k \in 1 .. Len(Bytes(f)) : (Line \o Bytes(f))[Len(Line) + k] = Bytes(f)[k]
  BY <1>2, <1>4, ConcatOf
<1> QED
  BY <1>2, <1>3, <1>5

\* A frame that is sent goes behind everything there is.
LEMMA OrderSend == ASSUME RxTypeOK, RxTypeOK', Order, NEW f \in Frames, SendFrame(f) PROVE Order'
<1>1. /\ UNCHANGED <<delivered, pc, buffer>> /\ sent' = Append(sent, f) /\ sent \in Seq(Frames)
  BY DEF SendFrame, RxTypeOK, portVars
<1>2. /\ Len(sent) \in Nat /\ Len(sent') = Len(sent) + 1
      /\ sent'[Len(sent) + 1] = f /\ \A j \in 1 .. Len(sent) : sent'[j] = sent[j]
      /\ DOMAIN sent = 1 .. Len(sent) /\ DOMAIN sent' = 1 .. Len(sent) + 1
  <2>1. Append(sent, f) \in Seq(Frames)
    BY <1>1, AppendProperties
  <2> QED
    BY <1>1, <2>1, AppendProperties, LenProperties
<1>3. /\ Bytes(f)[6] = CrcOf(f)
      /\ \A k \in 1 .. 5 : ~IsCrc(Bytes(f)[k])
  BY BytesOf DEF BufferSize, CrcOf
<1>5. /\ Len(Line) \in Nat /\ Len(Line') = Len(Line) + 6
      /\ \A k \in 1 .. Len(Line) : Line'[k] = Line[k]
      /\ \A k \in 1 .. 6 : Line'[Len(Line) + k] = Bytes(f)[k]
  BY SendAppends
<1>6. PICK place \in [DOMAIN delivered -> DOMAIN sent], at \in [1 .. Len(Line) -> Nat] :
         Ordered(place) /\ Marked(place, at) /\ Held(place, at)
  BY DEF Order
<1>7. PICK on \in [1 .. Len(Line') -> Nat] :
        \A k \in 1 .. Len(Line') : on[k] = IF k <= Len(Line) THEN at[k] ELSE Len(sent) + 1
  <2>1. \A k \in 1 .. Len(Line') : k <= Len(Line) => at[k] \in Nat
    BY <1>5, <1>6
  <2>2. [k \in 1 .. Len(Line') |-> IF k <= Len(Line) THEN at[k] ELSE Len(sent) + 1] \in [1 .. Len(Line') -> Nat]
    BY <1>2, <2>1
  <2> QED
    BY <2>2
<1>8. /\ place \in [DOMAIN delivered' -> DOMAIN sent'] /\ DOMAIN delivered' = DOMAIN delivered
      /\ \A i \in DOMAIN delivered : place[i] \in 1 .. Len(sent)
  BY <1>1, <1>2, <1>6
<1>9. (Ordered(place))'
  BY <1>1, <1>2, <1>6, <1>8 DEF Ordered
\* The one last byte that is new is the last on the line.
<1>10. ASSUME NEW k \in 1 .. Len(Line'), IsCrc(Line'[k])
       PROVE  \/ k <= Len(Line) /\ Line'[k] = Line[k] /\ on[k] = at[k] /\ k \in 1 .. Len(Line)
              \/ k = Len(Line) + 6 /\ Line'[k] = CrcOf(f) /\ on[k] = Len(sent) + 1
  <2>1. CASE k <= Len(Line)
    BY <1>5, <1>7, <2>1
  <2>2. CASE k > Len(Line)
    <3>1. k - Len(Line) \in 1 .. 6 /\ k = Len(Line) + (k - Len(Line))
      BY <1>5, <2>2
    <3>2. Line'[k] = Bytes(f)[k - Len(Line)]
      BY <1>5, <3>1
    <3>3. k - Len(Line) = 6
      BY <1>3, <1>10, <3>1, <3>2
    <3> QED
      BY <1>3, <1>5, <1>7, <2>2, <3>2, <3>3
  <2> QED
    BY <1>5, <2>1, <2>2
<1>11. ASSUME NEW k \in 1 .. Len(Line'), IsCrc(Line'[k])
       PROVE  /\ on[k] \in DOMAIN sent' /\ Line'[k] = CrcOf(sent'[on[k]])
              /\ \A i \in DOMAIN delivered' : place[i] < on[k]
  <2>1. CASE k <= Len(Line) /\ Line'[k] = Line[k] /\ on[k] = at[k] /\ k \in 1 .. Len(Line)
    <3>1. IsCrc(Line[k])
      BY <1>11, <2>1
    <3>2. /\ at[k] \in DOMAIN sent /\ Line[k] = CrcOf(sent[at[k]])
          /\ \A i \in DOMAIN delivered : place[i] < at[k]
      BY <1>6, <2>1, <3>1, Zenon DEF Marked
    <3>3. at[k] \in DOMAIN sent' /\ sent'[at[k]] = sent[at[k]]
      BY <1>2, <3>2
    <3> QED
      BY <1>8, <2>1, <3>2, <3>3, Zenon
  <2>2. CASE k = Len(Line) + 6 /\ Line'[k] = CrcOf(f) /\ on[k] = Len(sent) + 1
    BY <1>2, <1>8, <2>2
  <2>3. \/ k <= Len(Line) /\ Line'[k] = Line[k] /\ on[k] = at[k] /\ k \in 1 .. Len(Line)
        \/ k = Len(Line) + 6 /\ Line'[k] = CrcOf(f) /\ on[k] = Len(sent) + 1
    BY <1>10, <1>11, Zenon
  <2> QED
    BY <2>1, <2>2, <2>3, Zenon
<1>12. ASSUME NEW k \in 1 .. Len(Line'), NEW l \in 1 .. Len(Line'), k < l, IsCrc(Line'[k]), IsCrc(Line'[l])
       PROVE  on[k] < on[l]
  <2>1. k <= Len(Line) /\ Line'[k] = Line[k] /\ on[k] = at[k] /\ k \in 1 .. Len(Line)
    <3>1. k # Len(Line) + 6
      <4>1. k \in Nat /\ l \in Nat /\ l <= Len(Line) + 6 /\ Len(Line) \in Nat
        BY <1>5
      <4> QED
        BY <1>12, <4>1
    <3> QED
      BY <1>10, <1>12, <3>1, Zenon
  <2>2. on[k] \in DOMAIN sent
    BY <1>6, <1>12, <2>1 DEF Marked
  <2>3. CASE l <= Len(Line) /\ Line'[l] = Line[l] /\ on[l] = at[l] /\ l \in 1 .. Len(Line)
    BY <1>6, <1>12, <2>1, <2>3 DEF Marked
  <2>4. CASE on[l] = Len(sent) + 1
    BY <1>2, <2>2, <2>4
  <2> QED
    BY <1>10, <1>12, <2>3, <2>4
<1>13. (Marked(place, on))'
  BY <1>11, <1>12 DEF Marked
<1>14. ASSUME NEW j \in DOMAIN sent, Between(place, at, j) PROVE j \in DOMAIN sent' /\ (Between(place, on, j))'
  <2>1. ASSUME NEW k \in 1 .. Len(Line'), IsCrc(Line'[k]) PROVE j < on[k]
    BY <1>2, <1>10, <1>14, <2>1 DEF Between
  <2>2. j \in DOMAIN sent'
    BY <1>2
  <2>3. \A i \in DOMAIN delivered' : place[i] < j
    BY <1>8, <1>14 DEF Between
  <2> QED
    BY <2>1, <2>2, <2>3 DEF Between
<1>15. (Held(place, on))'
  BY <1>1, <1>2, <1>6, <1>14 DEF Held
<1> QED
  BY <1>7, <1>8, <1>9, <1>13, <1>15 DEF Order

\* A frame that unpack accepts is the one whose last byte the buffer holds.
LEMMA OrderDispatch == ASSUME RxTypeOK, RxTypeOK', Order, Dispatch PROVE Order'
<1>1. pc = "dispatch" /\ pc' = "top" /\ UNCHANGED <<sent, buffer, kernel, wire>>
  BY DEF Dispatch, lineVars
<1>2. CASE delivered' = delivered
  BY <1>1, <1>2, OrderQuiet
<1>3. ASSUME NEW f \in Accepted, delivered' = Append(delivered, f) PROVE Order'
  <2>1. PICK place \in [DOMAIN delivered -> DOMAIN sent], at \in [1 .. Len(Line) -> Nat] :
           Ordered(place) /\ Marked(place, at) /\ Held(place, at)
    BY DEF Order
  <2>2. f \in Frames /\ buffer[BufferSize] = CrcOf(f) /\ BufferSize \in Indices
    BY <1>3, BytesOf DEF Accepted, CrcOf, Indices, BufferSize
  <2>3. PICK j \in DOMAIN sent : CrcOf(f) = CrcOf(sent[j]) /\ Between(place, at, j)
    BY <1>1, <2>1, <2>2 DEF Held, IsCrc, CrcOf
  <2>4. sent[j] = f
    <3>1. sent[j] \in Frames
      BY DEF RxTypeOK
    <3> QED
      BY <2>2, <2>3, <3>1, CrcIsFrame DEF CrcOf
  <2> DEFINE d == Len(delivered)
  <2>5. /\ d \in Nat /\ DOMAIN delivered = 1 .. d /\ DOMAIN delivered' = 1 .. d + 1
        /\ delivered'[d + 1] = f /\ \A i \in 1 .. d : delivered'[i] = delivered[i]
    <3>1. delivered \in Seq(Frames) /\ delivered' \in Seq(Frames)
      BY DEF RxTypeOK
    <3> QED
      BY <1>3, <2>2, <3>1, AppendProperties, LenProperties
  <2> HIDE DEF d
  <2>6. PICK to \in [1 .. d + 1 -> DOMAIN sent] : \A i \in 1 .. d + 1 : to[i] = IF i <= d THEN place[i] ELSE j
    <3>1. [i \in 1 .. d + 1 |-> IF i <= d THEN place[i] ELSE j] \in [1 .. d + 1 -> DOMAIN sent]
      BY <2>1, <2>5
    <3> QED
      BY <3>1
  <2>7. Line' = Line
    BY <1>1 DEF Line
  <2>8. \A i \in 1 .. d + 1 : (i \in 1 .. d /\ to[i] = place[i]) \/ (i = d + 1 /\ to[i] = j)
    BY <2>5, <2>6
  <2>9. \A i \in 1 .. d : place[i] < j
    BY <2>3, <2>5 DEF Between
  <2>10. (Ordered(to))'
    <3>1. \A i \in 1 .. d + 1 : delivered'[i] = sent[to[i]]
      BY <2>1, <2>4, <2>5, <2>8 DEF Ordered
    <3>2. ASSUME NEW i \in 1 .. d + 1, NEW k \in 1 .. d + 1, i < k PROVE to[i] < to[k]
      <4>1. i \in 1 .. d /\ to[i] = place[i]
        BY <2>5, <2>8, <3>2
      <4> QED
        BY <2>1, <2>5, <2>8, <2>9, <3>2, <4>1 DEF Ordered
    <3> QED
      BY <1>1, <2>5, <3>1, <3>2 DEF Ordered
  <2>11. (Marked(to, at))'
    BY <1>1, <2>1, <2>3, <2>5, <2>7, <2>8 DEF Marked, Between
  <2>12. (Held(to, at))'
    BY <1>1 DEF Held
  <2> QED
    BY <1>1, <2>1, <2>5, <2>6, <2>7, <2>10, <2>11, <2>12 DEF Order
<1> QED
  BY <1>2, <1>3 DEF Dispatch

LEMMA OrderNext == RxTypeOK /\ RxTypeOK' /\ Order /\ [Next]_vars => Order'
<1> SUFFICES ASSUME RxTypeOK, RxTypeOK', Order, [Next]_vars PROVE Order'
  OBVIOUS
<1>1. CASE BeginRead
  BY <1>1, OrderQuiet DEF BeginRead, lineVars
<1>2. CASE PollTimesOut
  BY <1>2, OrderQuiet DEF PollTimesOut, lineVars
<1>3. CASE ReadFails
  BY <1>3, OrderQuiet DEF ReadFails, lineVars
<1>4. CASE LeaveLoop \/ Stop \/ UNCHANGED vars
  BY <1>4, OrderQuiet DEF LeaveLoop, Stop, lineVars, portVars, vars
<1> QED
  BY <1>1, <1>2, <1>3, <1>4, OrderSend, OrderFault, OrderArrive, OrderChunk, OrderDispatch DEF Next, Thread

LEMMA OrderInvariance == Spec => [](RxTypeOK /\ Order)
<1>1. Init => RxTypeOK /\ Order
  BY RxInitType, OrderInit
<1>2. RxTypeOK /\ Order /\ [Next]_vars => (RxTypeOK /\ Order)'
  BY RxTypeNext, OrderNext
<1> QED
  BY <1>1, <1>2, PTL DEF Spec

-----------------------------------------------------------------------------
(* Silence.                                                                *)

\* The i-th byte the reader will have: one it has or one on its way.
Coming(i) == IF i <= readLen THEN buffer[i] ELSE Line[i - readLen]

\* A frame that was begun in silence is the next thing the reader gets.
Pending ==
    /\ pc \in {"top", "done"} => readLen = 0
    /\ fresh # 0 =>
         /\ readLen + Len(Line) >= BufferSize
         /\ pc = "dispatch" => readLen = BufferSize
         /\ \A i \in Indices : Coming(i) = Bytes(sent[fresh])[i]

SilenceInv == RxTypeOK /\ Pending

\* Nothing happens to what the reader gets next.
LEMMA PendingStays ==
    ASSUME SilenceInv, UNCHANGED <<sent, readLen>>, Line' = Line,
           fresh' # 0 => fresh' = fresh,
           pc' \in {"top", "done"} => readLen = 0,
           pc' = "dispatch" => fresh' = 0 \/ pc = "dispatch",
           readLen = 0 \/ buffer' = buffer
    PROVE  Pending'
<1>1. readLen \in 0 .. BufferSize
  BY DEF SilenceInv, RxTypeOK
<1>2. \A i \in Indices : Coming(i)' = Coming(i)
  BY <1>1 DEF Coming, Indices
<1> QED
  BY <1>2 DEF SilenceInv, Pending

LEMMA PendingSend == ASSUME SilenceInv, RxTypeOK', NEW f \in Frames, SendFrame(f) PROVE Pending'
<1>1. /\ UNCHANGED <<readLen, buffer, pc>> /\ sent' = Append(sent, f) /\ sent \in Seq(Frames)
      /\ readLen \in 0 .. BufferSize /\ fresh \in 0 .. Len(sent)
      /\ fresh' = IF Silent /\ pc # "dispatch" THEN Len(sent) + 1 ELSE fresh
  BY DEF SendFrame, SilenceInv, RxTypeOK, portVars
<1>2. /\ Len(Line) \in Nat /\ Len(Line') = Len(Line) + 6
      /\ \A k \in 1 .. Len(Line) : Line'[k] = Line[k]
      /\ \A k \in 1 .. 6 : Line'[Len(Line) + k] = Bytes(f)[k]
  BY SendAppends DEF SilenceInv
<1>3. /\ Len(sent) \in Nat /\ sent'[Len(sent) + 1] = f
      /\ \A j \in 1 .. Len(sent) : sent'[j] = sent[j]
  BY <1>1, AppendProperties
<1>4. CASE Silent /\ pc # "dispatch"
  <2>1. readLen = 0 /\ Len(Line) = 0
    BY <1>4, EmptySeq, LineOf DEF Silent, SilenceInv
  <2>2. \A i \in Indices : Coming(i)' = Bytes(f)[i]
    BY <1>1, <1>2, <2>1 DEF Coming, Indices, BufferSize
  <2>3. fresh' = Len(sent) + 1 /\ sent'[fresh'] = f
    BY <1>1, <1>3, <1>4
  <2> QED
    BY <1>1, <1>2, <1>4, <2>1, <2>2, <2>3 DEF Pending, BufferSize
<1>5. CASE fresh' = fresh
  <2>1. ASSUME fresh # 0, NEW i \in Indices PROVE Coming(i)' = Bytes(sent'[fresh'])[i]
    <3>1. readLen + Len(Line) >= BufferSize /\ Coming(i) = Bytes(sent[fresh])[i]
      BY <2>1 DEF SilenceInv, Pending
    <3>2. sent'[fresh'] = sent[fresh]
      <4>1. Len(sent) \in Nat /\ fresh \in 0 .. Len(sent)
        BY <1>1, <1>3
      <4>2. fresh \in 1 .. Len(sent)
        BY <2>1, <4>1
      <4> QED
        BY <1>3, <1>5, <4>2, Zenon
    <3>3. i > readLen => i - readLen \in 1 .. Len(Line)
      <4>1. readLen \in Int /\ Len(Line) \in Nat /\ readLen + Len(Line) >= 6
        BY <1>1, <1>2, <3>1 DEF BufferSize
      <4>2. i \in 1 .. 6
        BY <2>1 DEF Indices, BufferSize
      <4> QED
        BY <4>1, <4>2
    <3>4. Coming(i)' = Coming(i)
      <4>1. CASE i <= readLen
        BY <1>1, <4>1 DEF Coming
      <4>2. CASE ~(i <= readLen)
        <5>1. i - readLen \in 1 .. Len(Line)
          BY <1>1, <2>1, <3>3, <4>2 DEF Indices, BufferSize
        <5> QED
          BY <1>1, <1>2, <4>2, <5>1 DEF Coming
      <4> QED
        BY <4>1, <4>2
    <3> QED
      BY <3>1, <3>2, <3>4
  <2> QED
    BY <1>1, <1>2, <1>5, <2>1, SMTT(30) DEF SilenceInv, Pending, BufferSize
<1> QED
  BY <1>1, <1>4, <1>5

\* However the frame is cut into chunks, the loop over the heads leaves it alone.
LEMMA PendingChunk == ASSUME SilenceInv, RxTypeOK', ReadChunk PROVE Pending'
<1> USE DEF SilenceInv
<1>1. PICK n \in 1 .. Len(kernel) :
             /\ readLen + n \in 1 .. BufferSize
             /\ kernel' = SubSeq(kernel, n + 1, Len(kernel))
             /\ Appended(n) \in [Indices -> ByteSet]
             /\ \A i \in Indices : i <= readLen => Appended(n)[i] = buffer[i]
             /\ \A i \in 1 .. n : Appended(n)[readLen + i] = Line[i]
             /\ buffer' = Framed(Appended(n), readLen + n).data
             /\ readLen' = Framed(Appended(n), readLen + n).len
             /\ pc' = LoopTest(readLen')
             /\ UNCHANGED <<wire, sent, fresh>>
  BY ChunkOf
<1>2. Len(Line') = Len(Line) - n /\ \A k \in 1 .. Len(Line') : Line'[k] = Line[k + n]
  BY <1>1, ChunkShifts
<1>3. Len(Line) \in Nat /\ n <= Len(Line) /\ n \in Nat /\ readLen \in 0 .. BufferSize
  <2>1. Len(Line) = Len(kernel) + Len(wire) /\ Len(kernel) \in Nat /\ Len(wire) \in Nat
    BY LineOf
  <2>2. readLen \in 0 .. BufferSize
    BY DEF RxTypeOK
  <2> QED
    BY <2>1, <2>2
<1> DEFINE a == Appended(n)
           len == readLen + n
<1>4. pc' \in {"read", "dispatch"}
  BY <1>1 DEF LoopTest
<1>5. ASSUME fresh # 0
      PROVE  /\ readLen' + Len(Line') >= BufferSize
             /\ pc' = "dispatch" => readLen' = BufferSize
             /\ \A i \in Indices : Coming(i)' = Bytes(sent'[fresh'])[i]
  <2> DEFINE B == Bytes(sent[fresh])
  <2>1. readLen + Len(Line) >= BufferSize /\ \A i \in Indices : Coming(i) = B[i]
    BY <1>5 DEF Pending
  <2>2. B[1] = ResvHead[1] /\ B[2] = ResvHead[2]
    <3>1. sent[fresh] \in Frames
      BY <1>5 DEF RxTypeOK
    <3> QED
      BY <3>1, BytesOf
  <2> HIDE DEF B
  <2>3. ASSUME NEW i \in Indices, i <= len PROVE a[i] = B[i]
    <3>1. CASE i <= readLen
      BY <1>1, <2>1, <3>1 DEF Coming
    <3>2. CASE i > readLen
      <4>1. i - readLen \in 1 .. n /\ readLen + (i - readLen) = i
        BY <1>3, <2>3, <3>2 DEF Indices
      <4>2. a[i] = Line[i - readLen]
        BY <1>1, <4>1
      <4>3. Coming(i) = Line[i - readLen]
        BY <1>3, <3>2 DEF Coming, Indices
      <4> QED
        BY <2>1, <4>2, <4>3
    <3> QED
      BY <1>3, <3>1, <3>2 DEF Indices
  <2>4. Framed(a, len) = [data |-> a, len |-> len]
    <3>1. DOMAIN a = Indices /\ a \in [Indices -> ByteSet] /\ len \in 0 .. BufferSize
      BY <1>1, <1>3
    <3>2. CASE len < 2
      <4> HIDE DEF a, len
      <4> QED
        BY <3>1, <3>2, FramedOf
    <3>3. CASE len >= 2
      <4>1. a[1] = ResvHead[1] /\ a[2] = ResvHead[2]
        BY <1>3, <2>2, <2>3, <3>3 DEF Indices, BufferSize
      <4> HIDE DEF a, len
      <4> QED
        BY <3>1, <4>1, FramedOf
    <3> QED
      BY <1>1, <1>3, <3>2, <3>3
  <2>5. buffer' = a /\ readLen' = len
    BY <1>1, <2>4
  <2> HIDE DEF a
  <2>6. ASSUME NEW i \in Indices PROVE Coming(i)' = B[i]
    <3>1. CASE i <= len
      BY <2>3, <2>5, <3>1 DEF Coming
    <3>2. CASE i > len
      <4>1. i - len \in 1 .. Len(Line') /\ (i - len) + n = i - readLen /\ i > readLen
        BY <1>2, <1>3, <2>1, <3>2 DEF Indices, BufferSize
      <4>2. Coming(i)' = Line'[i - len]
        BY <1>3, <2>5, <3>2 DEF Coming, Indices
      <4>3. Coming(i) = Line[i - readLen]
        BY <1>3, <4>1 DEF Coming, Indices
      <4>4. Line'[i - len] = Line[i - readLen]
        BY <1>2, <4>1
      <4> QED
        BY <2>1, <4>2, <4>3, <4>4
    <3> QED
      BY <1>3, <3>1, <3>2 DEF Indices
  <2>7. pc' = "dispatch" => readLen' = BufferSize
    BY <1>1, <2>5 DEF LoopTest, BufferSize
  <2>8. readLen' + Len(Line') >= BufferSize
    BY <1>2, <1>3, <2>1, <2>5 DEF BufferSize
  <2> QED
    BY <1>1, <2>6, <2>7, <2>8 DEF B
<1> HIDE DEF SilenceInv
<1> QED
  BY <1>1, <1>4, <1>5 DEF Pending

\* The frame is accepted: there is no other with its bytes.
LEMMA PendingDispatch == ASSUME SilenceInv, Dispatch PROVE Pending'
<1>1. pc = "dispatch" /\ pc' = "top" /\ readLen' = 0
  BY DEF Dispatch
<1>2. ASSUME fresh # 0 PROVE fresh' = 0
  <2> DEFINE g == sent[fresh]
  <2>1. g \in Frames /\ buffer \in [Indices -> ByteSet]
    BY <1>2 DEF SilenceInv, RxTypeOK
  <2>2. \A i \in Indices : buffer[i] = Bytes(g)[i]
    BY <1>1, <1>2 DEF SilenceInv, Pending, Coming, Indices, BufferSize
  <2> HIDE DEF g
  <2>3. Bytes(g) \in [Indices -> ByteSet]
    BY <2>1, BytesOf, LenProperties DEF Indices
  <2>4. buffer = Bytes(g)
    BY <2>1, <2>2, <2>3
  <2>5. \A f \in Accepted : f = g
    <3> SUFFICES ASSUME NEW f \in Frames, Bytes(f) = Bytes(g) PROVE f = g
      BY <2>4 DEF Accepted
    <3>1. Crc(f.id, f.val) = Crc(g.id, g.val)
      BY <2>1, BytesOf
    <3> QED
      BY <2>1, <3>1, CrcIsFrame
  <2>6. g \in Accepted
    BY <2>1, <2>4 DEF Accepted
  <2>7. delivered' = Append(delivered, g)
    BY <2>5, <2>6 DEF Dispatch
  <2> QED
    BY <1>2, <2>7 DEF Dispatch, g
<1>3. fresh = 0 => fresh' = 0
  BY DEF Dispatch
<1> QED
  BY <1>1, <1>2, <1>3 DEF Pending

LEMMA SilenceNext == SilenceInv /\ [Next]_vars => SilenceInv'
<1> SUFFICES ASSUME SilenceInv, [Next]_vars PROVE Pending'
  BY RxTypeNext DEF SilenceInv
<1>0. RxTypeOK /\ RxTypeOK' /\ readLen \in 0 .. BufferSize
  BY RxTypeNext DEF SilenceInv, RxTypeOK
<1>1. ASSUME NEW i \in DOMAIN wire, Fault(i) PROVE Pending'
  BY <1>1 DEF Fault, Pending, SilenceInv, portVars
<1>2. CASE Arrive
  <2>1. Line' = Line
    BY <1>0, <1>2, ArriveKeepsLine
  <2> QED
    BY <1>0, <1>2, <2>1, PendingStays DEF Arrive, portVars, SilenceInv, Pending
<1>3. CASE PollTimesOut
  <2>1. CASE readLen > 0
    BY <1>3, <2>1 DEF PollTimesOut, Returned, Pending
  <2>2. CASE readLen = 0
    BY <1>0, <1>3, <2>2, PendingStays DEF PollTimesOut, Returned, lineVars, Line
  <2> QED
    BY <1>0, <2>1, <2>2 DEF BufferSize
<1>4. CASE ReadFails
  <2>1. CASE readLen > 0
    BY <1>4, <2>1 DEF ReadFails, Pending
  <2>2. CASE readLen = 0
    BY <1>0, <1>4, <2>2, PendingStays DEF ReadFails, lineVars, Line
  <2> QED
    BY <1>0, <2>1, <2>2 DEF BufferSize
<1>5. CASE BeginRead
  BY <1>0, <1>5, PendingStays DEF BeginRead, lineVars, Line, SilenceInv, Pending
<1>6. CASE LeaveLoop \/ Stop \/ UNCHANGED vars
  <2>1. UNCHANGED <<sent, readLen, buffer, fresh>> /\ Line' = Line /\ (pc' = pc \/ (pc = "top" /\ pc' = "done"))
    BY <1>6 DEF LeaveLoop, Stop, lineVars, portVars, vars, Line
  <2> QED
    BY <2>1, PendingStays DEF SilenceInv, Pending
<1> QED
  BY <1>0, <1>1, <1>2, <1>3, <1>4, <1>5, <1>6, PendingSend, PendingChunk, PendingDispatch DEF Next, Thread

LEMMA SilenceInvariance == Spec => []SilenceInv
<1>1. Init => SilenceInv
  BY RxInitType DEF Init, SilenceInv, Pending
<1> QED
  BY <1>1, SilenceNext, PTL DEF Spec

-----------------------------------------------------------------------------
\* Serial::read never leaves more in the buffer than it holds, and the line and
\* the histories keep their types, for any motors and any number of frames.
THEOREM RxTypeCorrect == Spec => []RxTypeOK
BY RxTypeInvariance

\* However bytes are lost, damaged, delayed and left over in the buffer, unpack
\* accepts only frames that were sent, each at most once and in order.
THEOREM DeliveredInOrderHolds == Spec => []DeliveredInOrder
<1>1. Order => DeliveredInOrder
  BY DEF Order, Ordered, DeliveredInOrder
<1> QED
  BY <1>1, OrderInvariance, PTL

\* A frame begun in silence is delivered whatever went wrong before it and
\* however the driver cuts it into chunks.
THEOREM SilenceResyncsHolds == Spec => []SilenceResyncs
<1>1. SilenceInv => SilenceResyncs
  <2> SUFFICES ASSUME SilenceInv, wire = <<>>, kernel = <<>>, pc \in {"top", "done"}, fresh # 0 PROVE FALSE
    BY DEF SilenceResyncs
  <2>1. Len(Line) = 0
    BY LineOf, EmptySeq DEF SilenceInv
  <2> QED
    BY <2>1 DEF SilenceInv, Pending, BufferSize
<1> QED
  BY <1>1, SilenceInvariance, PTL

=============================================================================
