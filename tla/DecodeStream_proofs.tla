------------------------- MODULE DecodeStream_proofs -------------------------
(***************************************************************************)
(* decode_stream reads nothing past the buffer and decodes its whole       *)
(* frames, for every buffer over any set of bytes, every max_output and    *)
(* every table of minimum sizes. The functions on groups of four give what *)
(* their scalar counterparts give.                                         *)
(*                                                                         *)
(* The bounds are inductive as they stand. A turn of the loop reads three  *)
(* bytes under the loop test and, in a handler, MinSize bytes under both   *)
(* the break (the message ends in the buffer) and the size test (MinSize   *)
(* bytes are part of the message).                                         *)
(*                                                                         *)
(* What is decoded needs more (Walk): the offset is always where a frame   *)
(* starts, and no frame starts inside the one that is stepped over.        *)
(*                                                                         *)
(* The functions are proved about for every input: the properties that     *)
(* MC_Decoder states of them follow, with the buffer as the input. Their   *)
(* counts are sums over groups, taken with Total of RingsAndSequences.     *)
(***************************************************************************)
EXTENDS MC_Decoder, RingsAndSequences, FunctionTheorems, FiniteSetTheorems

Bounds == TypeOK /\ ReadsInBounds

-----------------------------------------------------------------------------
(* While the loop runs, the three bytes it reads are bytes of the buffer,  *)
(* so the length they give is a natural number.                            *)
LEMMA HeaderIsRead ==
    ASSUME TypeOK, Continues
    PROVE  /\ ByteAt(offset) \in Bytes
           /\ ByteAt(offset + 1) \in Bytes
           /\ Type(offset) \in Bytes
           /\ MsgLen(offset) \in Nat
           /\ EndOf(offset) = offset + 2 + MsgLen(offset)
<1>1. stream \in Seq(Bytes) /\ offset \in Nat /\ Len(stream) \in Nat
  BY StreamsAssumption DEF TypeOK
<1>2. offset + 1 \in 1 .. Len(stream) /\ offset + 2 \in 1 .. Len(stream)
        /\ offset + 3 \in 1 .. Len(stream)
  BY <1>1 DEF Continues
<1>3. /\ stream[offset + 1] \in Bytes /\ stream[offset + 2] \in Bytes
      /\ stream[offset + 3] \in Bytes
  BY <1>1, <1>2, ElementOfSeq
<1>4. /\ ByteAt(offset) = stream[offset + 1]
      /\ ByteAt(offset + 1) = stream[offset + 2]
      /\ Type(offset) = stream[offset + 3]
  BY <1>1 DEF ByteAt, Type
<1>5. ByteAt(offset) \in Nat /\ ByteAt(offset + 1) \in Nat
  <2>1. 0 .. Base - 1 \subseteq Nat
    BY DEF Base
  <2>2. Bytes \subseteq Nat
    BY <2>1, BytesAssumption
  <2> QED  BY <1>3, <1>4, <2>2
<1>6. MsgLen(offset) \in Nat
  BY <1>5 DEF MsgLen, Base
<1> QED  BY <1>3, <1>4, <1>6 DEF EndOf

(* A decodable message that ends in the buffer has the bytes its handler   *)
(* reads, and they are bytes.                                              *)
LEMMA HandlerStaysInside ==
    ASSUME TypeOK, Continues, EndOf(offset) <= Len(stream), Decodable(offset)
    PROVE  /\ MinSize[Type(offset)] \in Nat \ {0}
           /\ offset + 2 + MinSize[Type(offset)] <= EndOf(offset)
           /\ Decoded(offset) \in Seq(Bytes)
<1>1. stream \in Seq(Bytes) /\ offset \in Nat /\ Len(stream) \in Nat
  BY StreamsAssumption DEF TypeOK
<1>2. MinSize[Type(offset)] \in Nat \ {0} /\ MsgLen(offset) >= MinSize[Type(offset)]
  BY MinSizeAssumption DEF Decodable
<1>3. MsgLen(offset) \in Nat /\ EndOf(offset) = offset + 2 + MsgLen(offset)
  BY HeaderIsRead
<1>4. offset + 2 + MinSize[Type(offset)] <= EndOf(offset)
  BY <1>1, <1>2, <1>3
<1>5. Decoded(offset) \in Seq(Bytes)
  <2>1. \A k \in offset + 3 .. offset + 2 + MinSize[Type(offset)] : stream[k] \in Bytes
    <3> SUFFICES ASSUME NEW k \in offset + 3 .. offset + 2 + MinSize[Type(offset)]
                 PROVE  stream[k] \in Bytes
      OBVIOUS
    <3>1. k \in 1 .. Len(stream)
      BY <1>1, <1>2, <1>3, <1>4
    <3> QED  BY <1>1, <3>1, ElementOfSeq
  <2>2. Earlier(Len(stream), offset + 2 + MinSize[Type(offset)])
            = offset + 2 + MinSize[Type(offset)]
    BY <1>1, <1>2, <1>3, <1>4 DEF Earlier
  <2> QED  BY <1>1, <1>2, <2>1, <2>2, SubSeqProperties DEF Decoded
<1> QED  BY <1>2, <1>4, <1>5

-----------------------------------------------------------------------------
LEMMA InitBounds == Init => Bounds
<1> SUFFICES ASSUME Init PROVE Bounds
  OBVIOUS
<1>1. stream \in Seq(Bytes) /\ Len(stream) \in Nat /\ max_output \in Nat
  BY StreamsAssumption, LimitsAssumption DEF Init
<1>2. output \in Seq(Seq(Bytes)) /\ Len(output) = 0
  BY DEF Init
<1>3. stream \in Streams /\ max_output \in Limits /\ returned \in BOOLEAN
  BY DEF Init
<1>4. offset \in 0 .. Len(stream) /\ furthest \in Nat /\ furthest <= Len(stream)
  BY <1>1 DEF Init
<1>5. Len(output) <= max_output
  BY <1>1, <1>2
<1> QED  BY <1>2, <1>3, <1>4, <1>5 DEF Bounds, TypeOK, ReadsInBounds

LEMMA NextBounds == Bounds /\ [Next]_vars => Bounds'
<1> SUFFICES ASSUME Bounds, [Next]_vars PROVE Bounds'
  OBVIOUS
<1> USE DEF Bounds, ReadsInBounds, Later
<1>0. /\ stream \in Streams /\ max_output \in Limits
      /\ stream \in Seq(Bytes) /\ Len(stream) \in Nat /\ max_output \in Nat
      /\ offset \in 0 .. Len(stream) /\ furthest \in Nat /\ furthest <= Len(stream)
      /\ output \in Seq(Seq(Bytes)) /\ Len(output) \in Nat /\ Len(output) <= max_output
  BY StreamsAssumption, LimitsAssumption DEF TypeOK
<1>1. CASE Decode
  <2>1. /\ MinSize[Type(offset)] \in Nat \ {0}
        /\ offset + 2 + MinSize[Type(offset)] <= EndOf(offset)
        /\ Decoded(offset) \in Seq(Bytes)
    BY <1>1, HandlerStaysInside DEF Decode
  <2>2. EndOf(offset) \in 0 .. Len(stream)
    BY <1>0, <1>1, HeaderIsRead DEF Decode
  <2>3. output' \in Seq(Seq(Bytes)) /\ Len(output') = Len(output) + 1
    BY <1>0, <1>1, <2>1, AppendProperties DEF Decode
  <2>4. Len(output') <= max_output
    BY <1>0, <1>1, <2>3 DEF Decode, Continues
  <2>5. furthest' \in Nat /\ furthest' <= Len(stream)
    BY <1>0, <1>1, <2>1, <2>2 DEF Decode
  <2> QED  BY <1>0, <1>1, <2>2, <2>3, <2>4, <2>5 DEF Decode, NextFrame, TypeOK
<1>2. CASE Skip
  <2>1. EndOf(offset) \in 0 .. Len(stream)
    BY <1>0, <1>2, HeaderIsRead DEF Skip
  <2>2. furthest' \in Nat /\ furthest' <= Len(stream)
    BY <1>0, <1>2 DEF Skip, Continues
  <2> QED  BY <1>0, <1>2, <2>1, <2>2 DEF Skip, NextFrame, TypeOK
<1>3. CASE Break
  <2>1. offset' \in 0 .. Len(stream) /\ furthest' \in Nat /\ furthest' <= Len(stream)
    BY <1>0, <1>3 DEF Break, Continues
  <2> QED  BY <1>0, <1>3, <2>1 DEF Break, TypeOK
<1>4. CASE Exit
  BY <1>0, <1>4 DEF Exit, TypeOK
<1>5. CASE Returned
  BY <1>5 DEF Returned, vars, TypeOK
<1>6. CASE UNCHANGED vars
  BY <1>6 DEF vars, TypeOK
<1> QED  BY <1>1, <1>2, <1>3, <1>4, <1>5, <1>6 DEF Next

-----------------------------------------------------------------------------
(* The invariant, from which the two theorems below follow.                *)
THEOREM BoundsHold == Spec => []Bounds
BY InitBounds, NextBounds, PTL DEF Spec

(* Type correctness: in particular offset never leaves the buffer and      *)
(* output never grows past max_output.                                     *)
THEOREM DecoderTypeCorrect == Spec => []TypeOK
<1>1. Bounds => TypeOK
  BY DEF Bounds
<1> QED  BY <1>1, BoundsHold, PTL

(* decode_stream and its handlers read nothing past stream_len.            *)
THEOREM DecoderReadsInBounds == Spec => []ReadsInBounds
<1>1. Bounds => ReadsInBounds
  BY DEF Bounds
<1> QED  BY <1>1, BoundsHold, PTL

-----------------------------------------------------------------------------
(* What is decoded. The frames of the buffer are defined by following the   *)
(* lengths from its start; the loop follows the same lengths.               *)

\* The frames whose header is in the buffer have a length, and end behind themselves.
LEMMA LengthIsRead ==
    ASSUME TypeOK, NEW frame \in 0 .. Len(stream), frame + 2 <= Len(stream)
    PROVE  /\ MsgLen(frame) \in Nat
           /\ EndOf(frame) = frame + 2 + MsgLen(frame)
           /\ EndOf(frame) \in Nat /\ EndOf(frame) > frame
<1>1. stream \in Seq(Bytes) /\ Len(stream) \in Nat
  BY StreamsAssumption DEF TypeOK
<1>2. frame + 1 \in 1 .. Len(stream) /\ frame + 2 \in 1 .. Len(stream)
  BY <1>1
<1>3. stream[frame + 1] \in Bytes /\ stream[frame + 2] \in Bytes
  BY <1>1, <1>2, ElementOfSeq
<1>4. ByteAt(frame) = stream[frame + 1] /\ ByteAt(frame + 1) = stream[frame + 2]
  BY <1>1 DEF ByteAt
<1>5. Bytes \subseteq Nat
  <2>1. 0 .. Base - 1 \subseteq Nat
    BY DEF Base
  <2> QED
    BY <2>1, BytesAssumption
<1>6. MsgLen(frame) \in Nat
  <2>1. ByteAt(frame) \in Nat /\ ByteAt(frame + 1) \in Nat
    BY <1>3, <1>4, <1>5
  <2> QED
    BY <2>1 DEF MsgLen, Base
<1> QED
  BY <1>1, <1>6 DEF EndOf

\* The property of isStart that defines it.
StartStep(isStart, f) ==
    \/ f = 0
    \/ \E g \in 0 .. f - 1 : isStart[g] /\ WholeFrame(g) /\ EndOf(g) = f

\* For all places at once.
IsStarts(isStart) == isStart = [f \in 0 .. Len(stream) |-> StartStep(isStart, f)]

\* The least set that has 0 and the end of every whole frame that starts in it.
LEMMA StartsExist ==
    ASSUME TypeOK
    PROVE  \E isStart : IsStarts(isStart)
<1> DEFINE L == Len(stream)
<1> DEFINE Closed(C) == 0 \in C /\ \A g \in C : WholeFrame(g) => EndOf(g) \in C
<1> DEFINE S == {f \in 0 .. L : \A C \in SUBSET (0 .. L) : Closed(C) => f \in C}
<1>1. L \in Nat
  BY StreamsAssumption DEF TypeOK
<1>2. \A g \in 0 .. L : WholeFrame(g) => EndOf(g) \in 0 .. L /\ EndOf(g) > g
  BY <1>1, LengthIsRead DEF WholeFrame
<1>3. S \in SUBSET (0 .. L) /\ Closed(S)
  BY <1>1, <1>2
<1>4. ASSUME NEW f \in S, f # 0
      PROVE  \E g \in S : WholeFrame(g) /\ EndOf(g) = f
  <2> SUFFICES ASSUME \A g \in S : WholeFrame(g) => EndOf(g) # f PROVE FALSE
    OBVIOUS
  <2> DEFINE C == S \ {f}
  <2>1. C \in SUBSET (0 .. L) /\ Closed(C)
    BY <1>3, <1>4
  <2> QED
    BY <2>1
<1> HIDE DEF S
<1> DEFINE isStart == [f \in 0 .. L |-> f \in S]
<1>5. ASSUME NEW f \in 0 .. L
      PROVE  f \in S <=> StartStep(isStart, f)
  <2>1. \A g \in 0 .. f - 1 : g \in 0 .. L
    BY <1>1
  <2>2. \A g \in 0 .. f - 1 : isStart[g] = (g \in S)
    BY <2>1
  <2> HIDE DEF isStart
  <2>3. StartStep(isStart, f) <=> f = 0 \/ \E g \in 0 .. f - 1 : g \in S /\ WholeFrame(g) /\ EndOf(g) = f
    BY <2>2, Zenon DEF StartStep
  <2>4. (\E g \in S : WholeFrame(g) /\ EndOf(g) = f)
            => \E g \in 0 .. f - 1 : g \in S /\ WholeFrame(g) /\ EndOf(g) = f
    BY <1>1, <1>2, <1>3
  <2>5. \A g \in S : WholeFrame(g) /\ EndOf(g) = f => f \in S
    BY <1>3
  <2> QED
    BY <1>3, <1>4, <2>3, <2>4, <2>5
<1> DEFINE again == [f \in 0 .. L |-> StartStep(isStart, f)]
<1>6. \A f \in 0 .. L : isStart[f] = again[f]
  <2> SUFFICES ASSUME NEW f \in 0 .. L PROVE isStart[f] = again[f]
    OBVIOUS
  <2>1. isStart[f] = (f \in S)
    OBVIOUS
  <2>2. again[f] = StartStep(isStart, f)
    BY Zenon
  <2>3. StartStep(isStart, f) \in BOOLEAN
    BY Zenon DEF StartStep
  <2>4. (f \in S) \in BOOLEAN
    OBVIOUS
  <2>5. f \in S <=> StartStep(isStart, f)
    BY <1>5
  <2> HIDE DEF isStart, again
  <2>6. (f \in S) = StartStep(isStart, f)
    BY <2>3, <2>4, <2>5, Zenon
  <2> QED
    BY <2>1, <2>2, <2>6, Zenon
<1>7. isStart = again
  <2>1. DOMAIN isStart = 0 .. L /\ DOMAIN again = 0 .. L
    OBVIOUS
  <2>2. isStart = [f \in 0 .. L |-> isStart[f]] /\ again = [f \in 0 .. L |-> again[f]]
    BY Zenon
  <2> HIDE DEF isStart, again
  <2> QED
    BY <1>6, <2>2, Zenon
<1> QED
  BY <1>7 DEF IsStarts

\* Where frames start: at 0, and where a whole frame ends that starts before.
LEMMA FrameStartsFacts ==
    ASSUME TypeOK
    PROVE  /\ FrameStarts \in SUBSET (0 .. Len(stream))
           /\ 0 \in FrameStarts
           /\ \A g \in FrameStarts : WholeFrame(g) => EndOf(g) \in FrameStarts /\ EndOf(g) > g
           /\ \A f \in FrameStarts : f # 0 =>
                  \E g \in FrameStarts : g < f /\ WholeFrame(g) /\ EndOf(g) = f
<1> DEFINE L == Len(stream)
<1> DEFINE isStart == CHOOSE s : IsStarts(s)
<1>1. FrameStarts = {f \in 0 .. L : isStart[f]}
  BY DEF FrameStarts, IsStarts, StartStep
<1>2. IsStarts(isStart)
  BY StartsExist
<1> HIDE DEF isStart
<1>3. \A f \in 0 .. L : isStart[f] = StartStep(isStart, f)
  BY <1>2, Zenon DEF IsStarts
<1>4. L \in Nat
  BY StreamsAssumption DEF TypeOK
<1>5. \A g \in 0 .. L : WholeFrame(g) => EndOf(g) \in 0 .. L /\ EndOf(g) > g
  BY <1>4, LengthIsRead DEF WholeFrame
<1>6. \A f \in 0 .. L : f \in FrameStarts <=> StartStep(isStart, f)
  BY <1>1, <1>3, Zenon
<1>7. \A f \in 0 .. L : \A g \in 0 .. f - 1 : g \in 0 .. L /\ g < f
  BY <1>4
<1>8. \A g \in 0 .. L : isStart[g] <=> g \in FrameStarts
  BY <1>1, Zenon
<1>9. \A f \in 0 .. L : f \in FrameStarts <=>
          f = 0 \/ \E g \in 0 .. f - 1 : g \in FrameStarts /\ WholeFrame(g) /\ EndOf(g) = f
  BY <1>6, <1>7, <1>8, Zenon DEF StartStep
<1>10. FrameStarts \in SUBSET (0 .. L)
  BY <1>1
<1> QED
  BY <1>4, <1>5, <1>7, <1>9, <1>10

-----------------------------------------------------------------------------
(* The walk and its result.                                                *)

\* The messages among the frames before a place.
Passed(place) == {f \in Messages : f < place}

\* out is what decoding the messages of first gives, in the order of the buffer.
Lists(out, first, decoded) ==
    \E place \in [1 .. Len(out) -> first] :
        /\ \A f \in first : \E k \in 1 .. Len(out) : place[k] = f
        /\ \A j, k \in 1 .. Len(out) : j < k => place[j] < place[k]
        /\ \A k \in 1 .. Len(out) : out[k] = decoded[place[k]]

\* What each message decodes to.
Meanings == [f \in Messages |-> Decoded(f)]

\* While the loop runs, the offset is where a frame starts, the frames before it are whole
\* and end at it at the latest, and what was decoded is their messages.
Walk ==
    /\ offset \in FrameStarts
    /\ \A g \in FrameStarts : g < offset => WholeFrame(g) /\ EndOf(g) <= offset
    /\ Lists(output, Passed(offset), Meanings)

\* What the call gives.
Result ==
    \E first \in SUBSET Messages :
        /\ \A f \in first, g \in Messages \ first : f < g
        /\ first = Messages \/ Len(output) = max_output
        /\ Lists(output, first, Meanings)

\* The inductive invariant.
WalkInv == Bounds /\ (~returned => Walk) /\ (returned => Result)

\* The buffer stays, and so do its frames.
LEMMA FramesStay ==
    ASSUME stream' = stream
    PROVE  /\ FrameStarts' = FrameStarts /\ Messages' = Messages /\ Meanings' = Meanings
           /\ \A f : (WholeFrame(f) <=> WholeFrame(f)') /\ EndOf(f)' = EndOf(f)
<1>1. \A f : ByteAt(f)' = ByteAt(f)
  BY DEF ByteAt
<1>2. \A f : MsgLen(f)' = MsgLen(f) /\ EndOf(f)' = EndOf(f) /\ Type(f)' = Type(f)
  BY DEF ByteAt, MsgLen, EndOf, Type
<1>3. \A f : (WholeFrame(f) <=> WholeFrame(f)') /\ Decoded(f)' = Decoded(f)
            /\ (Decodable(f) <=> Decodable(f)')
  BY DEF ByteAt, MsgLen, EndOf, Type, WholeFrame, Decoded, Decodable
<1>4. FrameStarts' = FrameStarts
  BY DEF FrameStarts, WholeFrame, EndOf, MsgLen, ByteAt
<1>5. Messages' = Messages
  BY <1>2, <1>3, <1>4 DEF Messages
<1>6. Meanings' = Meanings
  BY <1>3, <1>5 DEF Meanings
<1> QED
  BY <1>2, <1>3, <1>4, <1>5, <1>6

\* No frame starts between the offset and the end of the frame there.
LEMMA NoneBetween ==
    ASSUME TypeOK, Walk, NEW f \in FrameStarts, f > offset
    PROVE  WholeFrame(offset) /\ f >= EndOf(offset)
<1> DEFINE Right(g) == WholeFrame(offset) /\ g >= EndOf(offset)
<1> DEFINE Wrong == {g \in FrameStarts : g > offset /\ ~Right(g)}
<1> SUFFICES ASSUME Wrong # {} PROVE FALSE
  OBVIOUS
<1>1. /\ FrameStarts \in SUBSET Nat /\ Len(stream) \in Nat /\ offset \in Nat
      /\ \A g \in FrameStarts : g \in 0 .. Len(stream)
  BY FrameStartsFacts, StreamsAssumption DEF TypeOK
<1>2. PICK g \in Wrong : \A h \in Wrong : g <= h
  <2>1. Wrong \in SUBSET Nat
    BY <1>1
  <2> HIDE DEF Wrong
  <2> QED
    BY <2>1, LeastElement
<1>3. g \in FrameStarts /\ g > offset /\ ~Right(g)
  OBVIOUS
<1>4. PICK h \in FrameStarts : h < g /\ WholeFrame(h) /\ EndOf(h) = g
  BY <1>1, <1>3, FrameStartsFacts
<1>5. CASE h < offset
  BY <1>1, <1>3, <1>4, <1>5 DEF Walk
<1>6. CASE h = offset
  BY <1>1, <1>3, <1>4, <1>6
<1>7. CASE h > offset
  <2>1. Right(h)
    <3> SUFFICES ASSUME ~Right(h) PROVE FALSE
      OBVIOUS
    <3>1. h \in Wrong
      BY <1>4, <1>7
    <3> QED
      BY <1>1, <1>2, <1>3, <1>4, <3>1
  <2>2. EndOf(offset) \in Int
    BY <1>1, <2>1, LengthIsRead DEF WholeFrame, TypeOK
  <2> QED
    BY <1>1, <1>3, <1>4, <2>1, <2>2
<1> QED
  BY <1>1, <1>4, <1>5, <1>6, <1>7

\* The frame at the offset is stepped over.
LEMMA StepOver ==
    ASSUME TypeOK, Walk, offset + 2 <= Len(stream), EndOf(offset) <= Len(stream)
    PROVE  /\ WholeFrame(offset) /\ EndOf(offset) \in FrameStarts
           /\ \A g \in FrameStarts : g < EndOf(offset) => WholeFrame(g) /\ EndOf(g) <= EndOf(offset)
           /\ Passed(EndOf(offset)) =
                  Passed(offset) \union (IF offset \in Messages THEN {offset} ELSE {})
<1>1. /\ FrameStarts \in SUBSET Nat /\ Len(stream) \in Nat /\ offset \in 0 .. Len(stream)
      /\ offset \in FrameStarts
  BY FrameStartsFacts, StreamsAssumption DEF TypeOK, Walk
<1>2. WholeFrame(offset)
  BY DEF WholeFrame
<1>3. EndOf(offset) \in FrameStarts /\ EndOf(offset) \in Nat /\ EndOf(offset) > offset
  BY <1>1, <1>2, FrameStartsFacts
<1>4. \A g \in FrameStarts : g < EndOf(offset) => g <= offset
  BY <1>1, <1>3, NoneBetween
<1>5. ASSUME NEW g \in FrameStarts, g < EndOf(offset)
      PROVE  WholeFrame(g) /\ EndOf(g) <= EndOf(offset)
  <2>1. CASE g < offset
    <3>1. WholeFrame(g) /\ EndOf(g) <= offset
      BY <2>1 DEF Walk
    <3>2. EndOf(g) \in Nat
      BY <1>1, <3>1, FrameStartsFacts
    <3> QED
      BY <1>1, <1>3, <3>1, <3>2
  <2>2. CASE g = offset
    BY <1>2, <1>3, <2>2
  <2> QED
    BY <1>1, <1>4, <1>5, <2>1, <2>2
<1>6. Messages \subseteq FrameStarts
  BY DEF Messages
<1>7. Passed(EndOf(offset)) = Passed(offset) \union (IF offset \in Messages THEN {offset} ELSE {})
  <2>1. \A f \in Messages : f < EndOf(offset) <=> f < offset \/ f = offset
    BY <1>1, <1>3, <1>4, <1>6
  <2> QED
    BY <2>1 DEF Passed
<1> QED
  BY <1>2, <1>3, <1>5, <1>7

\* One more message at the end of the list.
LEMMA ListGrows ==
    ASSUME NEW out \in Seq(Seq(Bytes)), NEW first, NEW decoded, Lists(out, first, decoded),
           NEW f \in Nat, first \in SUBSET Nat, \A g \in first : g < f,
           NEW m \in Seq(Bytes), m = decoded[f]
    PROVE  Lists(Append(out, m), first \union {f}, decoded)
<1> DEFINE n == Len(out)
<1> DEFINE out2 == Append(out, m)
<1>1. n \in Nat /\ Len(out2) = n + 1
      /\ (\A k \in 1 .. n : out2[k] = out[k]) /\ out2[n + 1] = m
  BY AppendProperties
<1>2. PICK place \in [1 .. n -> first] :
          /\ \A g \in first : \E k \in 1 .. n : place[k] = g
          /\ \A j, k \in 1 .. n : j < k => place[j] < place[k]
          /\ \A k \in 1 .. n : out[k] = decoded[place[k]]
  BY DEF Lists
<1> HIDE DEF n, out2
<1> DEFINE place2 == [k \in 1 .. n + 1 |-> IF k = n + 1 THEN f ELSE place[k]]
<1>3. place2 \in [1 .. n + 1 -> first \union {f}]
  BY <1>1, <1>2
<1>4. place2[n + 1] = f /\ \A k \in 1 .. n : k \in 1 .. n + 1 /\ place2[k] = place[k]
  BY <1>1
<1>5. \A k \in 1 .. n + 1 : k = n + 1 \/ k \in 1 .. n
  BY <1>1
<1>6. \A k \in 1 .. n : place[k] \in first /\ place[k] \in Nat /\ place[k] < f
  BY <1>2
<1> HIDE DEF place2
<1>7. \A g \in first \union {f} : \E k \in 1 .. n + 1 : place2[k] = g
  <2>1. n + 1 \in 1 .. n + 1
    BY <1>1
  <2> QED
    BY <1>2, <1>4, <2>1
<1>8. ASSUME NEW j \in 1 .. n + 1, NEW k \in 1 .. n + 1, j < k PROVE place2[j] < place2[k]
  <2>1. j \in 1 .. n
    BY <1>1, <1>8
  <2> QED
    BY <1>2, <1>4, <1>5, <1>6, <1>8, <2>1
<1>9. \A k \in 1 .. n + 1 : out2[k] = decoded[place2[k]]
  BY <1>1, <1>2, <1>4, <1>5
<1>10. Len(out2) = n + 1
  BY <1>1
<1>11. /\ place2 \in [1 .. Len(out2) -> first \union {f}]
       /\ \A g \in first \union {f} : \E k \in 1 .. Len(out2) : place2[k] = g
       /\ \A j, k \in 1 .. Len(out2) : j < k => place2[j] < place2[k]
       /\ \A k \in 1 .. Len(out2) : out2[k] = decoded[place2[k]]
  BY <1>3, <1>7, <1>8, <1>9, <1>10
<1>12. Lists(out2, first \union {f}, decoded)
  BY <1>11, Zenon DEF Lists
<1> QED
  BY <1>12 DEF out2

\* Messages are among the frames, and places among the numbers.
LEMMA PassedFacts ==
    ASSUME TypeOK
    PROVE  /\ Messages \in SUBSET FrameStarts /\ FrameStarts \in SUBSET Nat
           /\ \A place : Passed(place) \in SUBSET Messages
  BY FrameStartsFacts, StreamsAssumption DEF TypeOK, Messages, Passed

\* The walk is where it should be when it starts.
LEMMA WalkInit == Init => WalkInv
<1> SUFFICES ASSUME Init PROVE WalkInv
  OBVIOUS
<1>1. Bounds /\ TypeOK
  BY InitBounds DEF Bounds
<1>2. ~returned /\ offset = 0 /\ output = <<>>
  BY DEF Init
<1>3. \A g \in FrameStarts : ~(g < 0)
  BY <1>1, PassedFacts
<1>4. Passed(0) = {}
  BY <1>1, <1>3, PassedFacts DEF Passed
<1>5. Lists(<<>>, {}, Meanings)
  <2> DEFINE place == [k \in {} |-> 0]
  <2>1. Len(<<>>) = 0 /\ 1 .. 0 = {}
    OBVIOUS
  <2>2. place \in [{} -> {}]
    OBVIOUS
  <2>3. place \in [1 .. Len(<<>>) -> {}]
    BY <2>1, <2>2
  <2> HIDE DEF place
  <2> QED
    BY <2>1, <2>3 DEF Lists
<1>6. Walk
  BY <1>1, <1>2, <1>3, <1>4, <1>5, FrameStartsFacts DEF Walk
<1> QED
  BY <1>1, <1>2, <1>6 DEF WalkInv

\* Messages at the offset or behind it, when the loop ends.
LEMMA NoneLeft ==
    ASSUME TypeOK, Walk, offset + 3 > Len(stream) \/ EndOf(offset) > Len(stream)
    PROVE  Passed(offset) = Messages
<1>1. /\ Messages \in SUBSET FrameStarts /\ FrameStarts \in SUBSET Nat
      /\ Len(stream) \in Nat /\ offset \in Nat /\ FrameStarts \in SUBSET (0 .. Len(stream))
      /\ offset \in FrameStarts
  BY PassedFacts, FrameStartsFacts, StreamsAssumption DEF TypeOK, Walk
<1>m. \A f \in Messages : f \in Nat /\ (f < offset \/ f >= offset)
  BY <1>1
<1> SUFFICES ASSUME NEW f \in Messages, f >= offset PROVE FALSE
  BY <1>m DEF Passed
<1>2. f \in FrameStarts /\ WholeFrame(f) /\ MsgLen(f) > 0
  BY DEF Messages
<1>3. f \in Nat /\ f + 2 <= Len(stream) /\ EndOf(f) <= Len(stream)
      /\ MsgLen(f) \in Nat /\ EndOf(f) = f + 2 + MsgLen(f)
  BY <1>1, <1>2, LengthIsRead DEF WholeFrame
<1>4. f + 3 <= Len(stream)
  BY <1>1, <1>2, <1>3
<1>5. CASE f = offset
  BY <1>1, <1>3, <1>4, <1>5
<1>6. CASE f > offset
  <2>1. WholeFrame(offset)
    BY <1>2, <1>6, NoneBetween
  <2>2. EndOf(offset) \in Nat /\ EndOf(offset) <= Len(stream)
    BY <1>1, <2>1, LengthIsRead DEF WholeFrame
  <2> QED
    BY <1>1, <1>3, <1>4, <1>6, <2>2
<1> QED
  BY <1>1, <1>3, <1>5, <1>6

\* What the loop has decoded is what the call gives, once it ends.
LEMMA ResultOfWalk ==
    ASSUME TypeOK, Walk, Passed(offset) = Messages \/ Len(output) = max_output
    PROVE  Result
<1> DEFINE first == Passed(offset)
<1>1. first \in SUBSET Messages /\ Messages \in SUBSET Nat /\ offset \in Nat
  BY PassedFacts, StreamsAssumption DEF TypeOK
<1>2. \A f \in first, g \in Messages \ first : f < g
  BY <1>1 DEF Passed
<1>3. Lists(output, first, Meanings)
  BY DEF Walk
<1> HIDE DEF first
<1>4. first = Messages \/ Len(output) = max_output
  BY DEF first
<1> QED
  BY <1>1, <1>2, <1>3, <1>4, Zenon DEF Result

\* The walk goes on.
LEMMA WalkStep == WalkInv /\ [Next]_vars => WalkInv'
<1> SUFFICES ASSUME WalkInv, [Next]_vars PROVE WalkInv'
  OBVIOUS
<1>0. /\ Bounds /\ Bounds' /\ TypeOK
      /\ (~returned => Walk) /\ (returned => Result)
  BY NextBounds DEF WalkInv, Bounds
<1>s. stream' = stream /\ max_output' = max_output
  BY DEF Next, Decode, Skip, Break, Exit, Returned, vars
<1>f. /\ FrameStarts' = FrameStarts /\ Messages' = Messages /\ Meanings' = Meanings
      /\ \A f : (WholeFrame(f) <=> WholeFrame(f)') /\ EndOf(f)' = EndOf(f)
  BY <1>s, FramesStay
<1>t. /\ offset \in Nat /\ Len(stream) \in Nat /\ output \in Seq(Seq(Bytes))
      /\ Messages \in SUBSET Nat /\ Messages \in SUBSET FrameStarts
  BY <1>0, PassedFacts, StreamsAssumption DEF TypeOK
<1>1. ASSUME Continues, EndOf(offset) <= Len(stream), ~returned', offset' = EndOf(offset),
             Lists(output', Passed(offset) \union (IF offset \in Messages THEN {offset} ELSE {}),
                   Meanings)
      PROVE  WalkInv'
  <2>1. Walk /\ offset + 2 <= Len(stream)
    BY <1>0, <1>1, <1>t DEF Continues
  <2>2. /\ EndOf(offset) \in FrameStarts
        /\ \A g \in FrameStarts : g < EndOf(offset) => WholeFrame(g) /\ EndOf(g) <= EndOf(offset)
        /\ Passed(EndOf(offset)) =
               Passed(offset) \union (IF offset \in Messages THEN {offset} ELSE {})
    BY <1>0, <1>1, <2>1, StepOver
  <2>3. Passed(offset)' = Passed(EndOf(offset))
    BY <1>1, <1>f DEF Passed
  <2>4. Lists(output', Passed(EndOf(offset)), Meanings)
    BY <1>1, <2>2
  <2>5. Lists(output, Passed(offset), Meanings)'
    <3>1. Lists(output', Passed(offset)', Meanings')
      BY <1>f, <2>3, <2>4
    <3> QED
      BY <3>1 DEF Lists
  <2>6. \A g \in FrameStarts' : g < offset' => WholeFrame(g)' /\ EndOf(g)' <= offset'
    BY <1>1, <1>f, <2>2
  <2>7. Walk'
    BY <1>1, <1>f, <2>2, <2>5, <2>6 DEF Walk
  <2> QED
    BY <1>0, <1>1, <2>7 DEF WalkInv
<1>2. CASE Decode
  <2>1. Decodable(offset) /\ Continues /\ EndOf(offset) <= Len(stream) /\ Walk
    BY <1>0, <1>2 DEF Decode, Continues
  <2>2. MinSize[Type(offset)] \in Nat \ {0} /\ Decoded(offset) \in Seq(Bytes)
    BY <1>0, <2>1, HandlerStaysInside
  <2>3. offset \in Messages
    <3>1. offset + 2 <= Len(stream) /\ MsgLen(offset) > 0
      BY <1>0, <1>t, <2>1, <2>2, HeaderIsRead DEF Decodable, Continues
    <3> QED
      BY <2>1, <3>1 DEF Messages, WholeFrame, Walk
  <2>4. Lists(output, Passed(offset), Meanings) /\ Meanings[offset] = Decoded(offset)
    BY <2>1, <2>3 DEF Walk, Meanings
  <2>5. Passed(offset) \in SUBSET Nat /\ \A g \in Passed(offset) : g < offset
    BY <1>t DEF Passed
  <2>6. Lists(Append(output, Decoded(offset)), Passed(offset) \union {offset}, Meanings)
    BY <1>t, <2>2, <2>4, <2>5, ListGrows
  <2>7. /\ output' = Append(output, Decoded(offset)) /\ offset' = EndOf(offset)
        /\ returned' = returned /\ ~returned
    BY <1>2 DEF Decode, NextFrame, Continues
  <2> QED
    BY <1>1, <2>1, <2>3, <2>6, <2>7
<1>3. CASE Skip
  <2>1. ~Decodable(offset) /\ Continues /\ EndOf(offset) <= Len(stream) /\ Walk
    BY <1>0, <1>3 DEF Skip, Continues
  <2>2. offset \notin Messages
    BY <2>1 DEF Messages
  <2>3. output' = output /\ offset' = EndOf(offset) /\ returned' = returned /\ ~returned
    BY <1>3 DEF Skip, NextFrame, Continues
  <2>4. Lists(output, Passed(offset) \union {}, Meanings)
    BY <2>1 DEF Walk
  <2> QED
    BY <1>1, <2>1, <2>2, <2>3, <2>4
<1>4. ASSUME Result, output' = output, returned' PROVE WalkInv'
  <2>1. PICK first \in SUBSET Messages :
            /\ \A f \in first, g \in Messages \ first : f < g
            /\ first = Messages \/ Len(output) = max_output
            /\ Lists(output, first, Meanings)
    BY <1>4 DEF Result
  <2>2. Lists(output, first, Meanings)'
    BY <1>4, <1>f, <2>1 DEF Lists
  <2>3. Result'
    BY <1>4, <1>f, <1>s, <2>1, <2>2 DEF Result
  <2> QED
    BY <1>0, <1>4, <2>3 DEF WalkInv
<1>5. CASE Break
  <2>1. Walk /\ EndOf(offset) > Len(stream) /\ output' = output /\ returned'
    BY <1>0, <1>5 DEF Break, Continues
  <2>2. Passed(offset) = Messages
    BY <1>0, <2>1, NoneLeft
  <2> QED
    BY <1>0, <1>4, <2>1, <2>2, ResultOfWalk
<1>6. CASE Exit
  <2>1. Walk /\ ~Continues /\ ~returned /\ output' = output /\ returned'
    BY <1>0, <1>6 DEF Exit
  <2>2. offset + 3 > Len(stream) \/ Len(output) = max_output
    BY <1>0, <1>t, <2>1, LimitsAssumption DEF TypeOK, Continues
  <2>3. Passed(offset) = Messages \/ Len(output) = max_output
    BY <1>0, <2>1, <2>2, NoneLeft
  <2> QED
    BY <1>0, <1>4, <2>1, <2>3, ResultOfWalk
<1>7. CASE UNCHANGED vars
  <2>1. output' = output /\ offset' = offset /\ returned' = returned
    BY <1>7 DEF vars
  <2>2. CASE returned
    BY <1>0, <1>4, <2>1, <2>2
  <2>3. CASE ~returned
    <3>1. Passed(offset)' = Passed(offset)
      BY <1>f, <2>1 DEF Passed
    <3>2. Walk'
      BY <1>0, <1>f, <2>1, <2>3, <3>1 DEF Walk, Lists
    <3> QED
      BY <1>0, <2>1, <2>3, <3>2 DEF WalkInv
  <2> QED
    BY <2>2, <2>3
<1> QED
  BY <1>2, <1>3, <1>5, <1>6, <1>7 DEF Next, Returned

\* What the property says of the result.
LEMMA ResultIsDecoded == Result => DecodesWholeFrames
<1> SUFFICES ASSUME Result
             PROVE  DecodesWholeFrames
  OBVIOUS
<1>1. PICK first \in SUBSET Messages :
          /\ \A f \in first, g \in Messages \ first : f < g
          /\ first = Messages \/ Len(output) = max_output
          /\ Lists(output, first, Meanings)
  BY DEF Result
<1>2. PICK place \in [1 .. Len(output) -> first] :
          /\ \A f \in first : \E k \in 1 .. Len(output) : place[k] = f
          /\ \A j, k \in 1 .. Len(output) : j < k => place[j] < place[k]
          /\ \A k \in 1 .. Len(output) : output[k] = Meanings[place[k]]
  BY <1>1 DEF Lists
<1>3. \A k \in 1 .. Len(output) : output[k] = Decoded(place[k])
  <2>1. \A k \in 1 .. Len(output) : place[k] \in Messages
    BY <1>2
  <2>2. \A f \in Messages : Meanings[f] = Decoded(f)
    BY Zenon DEF Meanings
  <2> QED
    BY <1>2, <2>1, <2>2
<1> QED
  BY <1>1, <1>2, <1>3, Zenon DEF DecodesWholeFrames

(* What decode_stream has decoded when it returns is the first max_output  *)
(* decodable messages of the whole frames, in the order of the buffer, for *)
(* every buffer.                                                           *)
THEOREM WholeFramesDecoded == Spec => []DecodesWholeFrames
<1>1. WalkInv => DecodesWholeFrames
  <2>1. CASE returned
    BY <2>1, ResultIsDecoded DEF WalkInv
  <2>2. CASE ~returned
    BY <2>2 DEF DecodesWholeFrames
  <2> QED
    BY <2>1, <2>2
<1> QED
  BY <1>1, WalkInit, WalkStep, PTL DEF Spec

-----------------------------------------------------------------------------
(* The functions of DecodeBatch, for inputs of every length.               *)

\* The groups of four start at the multiples of four below n \div 4.
LEMMA GroupPlaces ==
    ASSUME NEW n \in Nat
    PROVE  /\ GroupStarts(n) = {Lanes * q : q \in 0 .. (n \div Lanes) - 1}
           /\ n \div Lanes \in Nat /\ Lanes * (n \div Lanes) <= n
           /\ n < Lanes * (n \div Lanes) + Lanes
<1>1. /\ n = 4 * (n \div 4) + (n % 4) /\ n \div 4 \in Nat /\ n % 4 \in 0 .. 3
  BY Z3
<1>2. ASSUME NEW i \in GroupStarts(n)
      PROVE  i \div 4 \in 0 .. (n \div 4) - 1 /\ i = 4 * (i \div 4)
  <2>1. i \in Nat /\ i % 4 = 0 /\ i + 4 <= n
    BY DEF GroupStarts, Lanes
  <2>2. i = 4 * (i \div 4) + (i % 4) /\ i \div 4 \in Nat
    BY <2>1, Z3
  <2> QED
    BY <1>1, <2>1, <2>2
<1>3. ASSUME NEW q \in 0 .. (n \div 4) - 1
      PROVE  4 * q \in GroupStarts(n)
  <2>1. q \in Nat /\ 4 * q \in 0 .. n - 1 /\ 4 * q + 4 <= n
    BY <1>1
  <2>2. (4 * q) % 4 = 0
    BY <2>1, Z3
  <2> QED
    BY <2>1, <2>2 DEF GroupStarts, Lanes
<1>4. GroupStarts(n) = {4 * q : q \in 0 .. (n \div 4) - 1}
  BY <1>2, <1>3
<1> QED
  BY <1>1, <1>4 DEF Lanes

\* Their number.
LEMMA GroupCount ==
    ASSUME NEW n \in Nat
    PROVE  Cardinality(GroupStarts(n)) = n \div Lanes
<1> DEFINE Q == 0 .. (n \div Lanes) - 1
<1> DEFINE f == [q \in Q |-> Lanes * q]
<1>1. /\ GroupStarts(n) = {Lanes * q : q \in Q} /\ n \div Lanes \in Nat
  BY GroupPlaces
<1>2. f \in Bijection(Q, GroupStarts(n))
  <2>1. f \in [Q -> GroupStarts(n)]
    BY <1>1
  <2>2. \A a, b \in Q : f[a] = f[b] => a = b
    BY <1>1 DEF Lanes
  <2>3. \A i \in GroupStarts(n) : \E q \in Q : f[q] = i
    BY <1>1
  <2> HIDE DEF f, Q
  <2> QED
    BY <2>1, <2>2, <2>3, Fun_IsBij
<1>3. IsFiniteSet(Q) /\ Cardinality(Q) = n \div Lanes
  <2>1. /\ IsFiniteSet(0 .. (n \div Lanes) - 1)
        /\ Cardinality(0 .. (n \div Lanes) - 1) =
               IF 0 > (n \div Lanes) - 1 THEN 0 ELSE (n \div Lanes) - 1 - 0 + 1
    <3> DEFINE m == n \div Lanes
    <3>1. 0 \in Int /\ m - 1 \in Int
      BY <1>1
    <3> HIDE DEF m
    <3> QED
      BY <3>1, FS_Interval DEF m
  <2> QED
    BY <1>1, <2>1
<1> HIDE DEF f, Q
<1>4. ExistsBijection(Q, GroupStarts(n))
  BY <1>2 DEF ExistsBijection
<1> QED
  BY <1>3, <1>4, FS_Bijection

-----------------------------------------------------------------------------
\* What _mm_set_epi8's order makes of the mask: every lane is reversed in its place.
LEMMA MaskReverses ==
    ASSUME NEW j \in 0 .. 3, NEW k \in 1 .. 4
    PROVE  bswap_mask[17 - (4 * j + k)] = 4 * j + 4 - k
<1>1. j = 0 \/ j = 1 \/ j = 2 \/ j = 3
  OBVIOUS
<1>2. k = 1 \/ k = 2 \/ k = 3 \/ k = 4
  OBVIOUS
<1>3. CASE j = 0
  BY <1>2, <1>3 DEF bswap_mask
<1>4. CASE j = 1
  BY <1>2, <1>4 DEF bswap_mask
<1>5. CASE j = 2
  BY <1>2, <1>5 DEF bswap_mask
<1>6. CASE j = 3
  BY <1>2, <1>6 DEF bswap_mask
<1> QED
  BY <1>1, <1>3, <1>4, <1>5, <1>6

\* A function on 1 .. n is a sequence of length n.
LEMMA FunctionIsSeq ==
    ASSUME NEW T, NEW n \in Nat, NEW f \in [1 .. n -> T]
    PROVE  f \in Seq(T) /\ Len(f) = n
<1>1. f \in Seq(T)
  BY SeqDef
<1>2. DOMAIN f = 1 .. n /\ DOMAIN f = 1 .. Len(f) /\ Len(f) \in Nat
  BY <1>1, LenProperties
<1> QED
  BY <1>1, <1>2

\* Four registers of four bytes in one of sixteen.
InOneRegister(a, b, c, d, all) ==
    Len(a) = 4 /\ Len(b) = 4 /\ Len(c) = 4 /\ Len(d) = 4 =>
        \A k \in 1 .. 4 :
            all[k] = a[k] /\ all[4 + k] = b[k] /\ all[8 + k] = c[k] /\ all[12 + k] = d[k]

LEMMA FourInOne ==
    ASSUME NEW T, NEW a \in Seq(T), NEW b \in Seq(T), NEW c \in Seq(T), NEW d \in Seq(T)
    PROVE  InOneRegister(a, b, c, d, a \o b \o c \o d)
<1>1. PICK ab : ab = a \o b
  OBVIOUS
<1>2. PICK abc : abc = ab \o c
  OBVIOUS
<1>3. PICK all : all = abc \o d
  OBVIOUS
<1>4. /\ ab \in Seq(T) /\ Len(ab) = Len(a) + Len(b)
      /\ \A p \in 1 .. Len(a) + Len(b) : ab[p] = IF p <= Len(a) THEN a[p] ELSE b[p - Len(a)]
  BY <1>1, ConcatProperties
<1>5. /\ abc \in Seq(T) /\ Len(abc) = Len(ab) + Len(c)
      /\ \A p \in 1 .. Len(ab) + Len(c) : abc[p] = IF p <= Len(ab) THEN ab[p] ELSE c[p - Len(ab)]
  <2>1. ab \in Seq(T)
    BY <1>4
  <2> QED
    BY <1>2, <2>1, ConcatProperties
<1>6. \A p \in 1 .. Len(abc) + Len(d) :
          all[p] = IF p <= Len(abc) THEN abc[p] ELSE d[p - Len(abc)]
  <2>1. abc \in Seq(T)
    BY <1>5
  <2> QED
    BY <1>3, <2>1, ConcatProperties
<1>7. all = a \o b \o c \o d
  BY <1>1, <1>2, <1>3
<1> SUFFICES ASSUME Len(a) = 4, Len(b) = 4, Len(c) = 4, Len(d) = 4, NEW k \in 1 .. 4
             PROVE  all[k] = a[k] /\ all[4 + k] = b[k] /\ all[8 + k] = c[k] /\ all[12 + k] = d[k]
  BY <1>7, Zenon DEF InOneRegister
<1>8. Len(ab) = 8 /\ Len(abc) = 12
  BY <1>4, <1>5
<1>9. all[k] = abc[k] /\ all[4 + k] = abc[4 + k] /\ all[8 + k] = abc[8 + k]
  <2>1. /\ k \in 1 .. 12 + 4 /\ 4 + k \in 1 .. 12 + 4 /\ 8 + k \in 1 .. 12 + 4
        /\ k <= 12 /\ 4 + k <= 12 /\ 8 + k <= 12
    OBVIOUS
  <2> QED
    BY <1>6, <1>8, <2>1
<1>10. abc[k] = ab[k] /\ abc[4 + k] = ab[4 + k]
  <2>1. k \in 1 .. 8 + 4 /\ 4 + k \in 1 .. 8 + 4 /\ k <= 8 /\ 4 + k <= 8
    OBVIOUS
  <2> QED
    BY <1>5, <1>8, <2>1
<1>11. ab[k] = a[k]
  BY <1>4
<1>12. ab[4 + k] = b[(4 + k) - 4] /\ abc[8 + k] = c[(8 + k) - 8] /\ all[12 + k] = d[(12 + k) - 12]
  <2>1. 4 + k \in 1 .. 4 + 4 /\ ~(4 + k <= 4)
    OBVIOUS
  <2>2. 8 + k \in 1 .. 8 + 4 /\ ~(8 + k <= 8)
    OBVIOUS
  <2>3. 12 + k \in 1 .. 12 + 4 /\ ~(12 + k <= 12)
    OBVIOUS
  <2>4. ab[4 + k] = b[(4 + k) - 4]
    BY <1>4, <2>1
  <2>5. abc[8 + k] = c[(8 + k) - 8]
    BY <1>5, <1>8, <2>2
  <2>6. all[12 + k] = d[(12 + k) - 12]
    BY <1>6, <1>8, <2>3
  <2> QED
    BY <2>4, <2>5, <2>6
<1>13. (4 + k) - 4 = k /\ (8 + k) - 8 = k /\ (12 + k) - 12 = k
  OBVIOUS
<1> QED
  BY <1>9, <1>10, <1>11, <1>12, <1>13

\* The lane of a message holds its field in the other byte order, as the scalar code
\* has it.
LEMMA LaneIsSwapped ==
    ASSUME NEW i \in Nat, NEW j \in 0 .. 3, NEW field
    PROVE  Lane(Stored(i, field), j) = swap32(Load(i + j, field))
<1>t. PICK T : T = Nat \X {field} \X (1 .. 4)
  OBVIOUS
<1>1. \A m \in Nat : Load(m, field) \in [1 .. 4 -> T]
                  /\ \A k \in 1 .. 4 : Load(m, field)[k] = <<m, field, k>>
  BY <1>t DEF Load
<1>s. \A m \in Nat : Load(m, field) \in Seq(T) /\ Len(Load(m, field)) = 4
  <2> SUFFICES ASSUME NEW m \in Nat
               PROVE  Load(m, field) \in Seq(T) /\ Len(Load(m, field)) = 4
    OBVIOUS
  <2>1. 4 \in Nat /\ Load(m, field) \in [1 .. 4 -> T]
    BY <1>1
  <2> QED
    BY <2>1, FunctionIsSeq
<1> DEFINE all == Load(i, field) \o Load(i + 1, field)
                      \o Load(i + 2, field) \o Load(i + 3, field)
<1>2. ASSUME NEW k \in 1 .. 4
      PROVE  all[4 * j + k] = <<i + j, field, k>>
  <2>1. /\ all[k] = <<i, field, k>> /\ all[4 + k] = <<i + 1, field, k>>
        /\ all[8 + k] = <<i + 2, field, k>> /\ all[12 + k] = <<i + 3, field, k>>
    <3>r0. PICK r0 : r0 = Load(i, field)
      OBVIOUS
    <3>r1. PICK r1 : r1 = Load(i + 1, field)
      OBVIOUS
    <3>r2. PICK r2 : r2 = Load(i + 2, field)
      OBVIOUS
    <3>r3. PICK r3 : r3 = Load(i + 3, field)
      OBVIOUS
    <3>1. i + 1 \in Nat /\ i + 2 \in Nat /\ i + 3 \in Nat
      OBVIOUS
    <3>2. /\ r0 \in Seq(T) /\ r1 \in Seq(T) /\ r2 \in Seq(T) /\ r3 \in Seq(T)
      BY <1>s, <3>1, <3>r0, <3>r1, <3>r2, <3>r3
    <3>l. /\ Len(r0) = 4 /\ Len(r1) = 4 /\ Len(r2) = 4 /\ Len(r3) = 4
      BY <1>s, <3>1, <3>r0, <3>r1, <3>r2, <3>r3
    <3>3. /\ r0[k] = <<i, field, k>> /\ r1[k] = <<i + 1, field, k>>
          /\ r2[k] = <<i + 2, field, k>> /\ r3[k] = <<i + 3, field, k>>
      BY <1>1, <3>1, <3>r0, <3>r1, <3>r2, <3>r3
    <3>4. all = r0 \o r1 \o r2 \o r3
      BY <3>r0, <3>r1, <3>r2, <3>r3
    <3> HIDE DEF all
    <3>5. InOneRegister(r0, r1, r2, r3, r0 \o r1 \o r2 \o r3)
      BY <3>2, FourInOne
    <3>6. all[k] = r0[k] /\ all[4 + k] = r1[k] /\ all[8 + k] = r2[k] /\ all[12 + k] = r3[k]
      BY <3>4, <3>l, <3>5 DEF InOneRegister
    <3> QED
      BY <3>3, <3>6
  <2> HIDE DEF all
  <2>2. j = 0 \/ j = 1 \/ j = 2 \/ j = 3
    OBVIOUS
  <2>3. CASE j = 0
    <3>1. 4 * j + k = k /\ i + j = i
      BY <2>3
    <3> QED
      BY <2>1, <3>1
  <2>4. CASE j = 1
    <3>1. 4 * j + k = 4 + k
      BY <2>4
    <3> QED
      BY <2>1, <2>4, <3>1
  <2>5. CASE j = 2
    <3>1. 4 * j + k = 8 + k
      BY <2>5
    <3> QED
      BY <2>1, <2>5, <3>1
  <2>6. CASE j = 3
    <3>1. 4 * j + k = 12 + k
      BY <2>6
    <3> QED
      BY <2>1, <2>6, <3>1
  <2> QED
    BY <2>2, <2>3, <2>4, <2>5, <2>6
<1> DEFINE shuffled == Shuffle(all)
<1>3. shuffled = [b \in 1 .. 16 |-> all[bswap_mask[17 - b] + 1]]
  BY DEF Shuffle
<1> HIDE DEF all
<1>4. ASSUME NEW k \in 1 .. 4
      PROVE  shuffled[4 * j + k] = <<i + j, field, 5 - k>>
  <2>1. 4 * j + k \in 1 .. 16
    OBVIOUS
  <2>2. shuffled[4 * j + k] = all[bswap_mask[17 - (4 * j + k)] + 1]
    BY <1>3, <2>1
  <2>3. bswap_mask[17 - (4 * j + k)] + 1 = 4 * j + (5 - k)
    BY MaskReverses
  <2>4. 5 - k \in 1 .. 4
    OBVIOUS
  <2>5. all[4 * j + (5 - k)] = <<i + j, field, 5 - k>>
    BY <1>2, <2>4
  <2> QED
    BY <2>2, <2>3, <2>5
<1>5. DOMAIN shuffled = 1 .. 16
  BY <1>3
<1> HIDE DEF shuffled
<1>6. Lane(shuffled, j) = [k \in 1 .. 4 |-> shuffled[4 * j + k]]
  <2>1. Lane(shuffled, j) = SubSeq(shuffled, 4 * j + 1, 4 * j + 4)
    BY DEF Lane
  <2>2. SubSeq(shuffled, 4 * j + 1, 4 * j + 4)
            = [k \in 1 .. (4 * j + 4) - (4 * j + 1) + 1 |-> shuffled[k + (4 * j + 1) - 1]]
    OBVIOUS
  <2>3. 1 .. (4 * j + 4) - (4 * j + 1) + 1 = 1 .. 4
    OBVIOUS
  <2>4. \A k \in 1 .. 4 : k + (4 * j + 1) - 1 = 4 * j + k
    OBVIOUS
  <2> QED
    BY <2>1, <2>2, <2>3, <2>4
<1>7. swap32(Load(i + j, field)) = [k \in 1 .. 4 |-> <<i + j, field, 5 - k>>]
  <2>1. i + j \in Nat /\ Len(Load(i + j, field)) = 4
    BY <1>s
  <2>2. Reverse(Load(i + j, field)) = [k \in 1 .. 4 |-> Load(i + j, field)[(4 - k) + 1]]
    BY <2>1 DEF Reverse
  <2>3. \A k \in 1 .. 4 : (4 - k) + 1 = 5 - k /\ 5 - k \in 1 .. 4
    OBVIOUS
  <2>4. \A k \in 1 .. 4 : Load(i + j, field)[(4 - k) + 1] = <<i + j, field, 5 - k>>
    BY <1>1, <2>1, <2>3
  <2> QED
    BY <2>2, <2>4 DEF swap32
<1>8. Stored(i, field) = shuffled
  BY DEF Stored, shuffled, all
<1> QED
  BY <1>4, <1>6, <1>7, <1>8

\* Message i + j of a group comes out as the scalar code makes it.
LEMMA VectorIsScalar ==
    ASSUME NEW i \in Nat, NEW j \in 0 .. 3
    PROVE  Vector(i, j) = Scalar(i + j)
<1>1. /\ Lane(Stored(i, "price"), j) = swap32(Load(i + j, "price"))
      /\ Lane(Stored(i, "shares"), j) = swap32(Load(i + j, "shares"))
  BY LaneIsSwapped
<1>2. Tickers(i)[j + 1] = i + j
  <2>1. Tickers(i) = [k \in 1 .. 4 |-> <<i + 3, i + 2, i + 1, i>>[(4 - k) + 1]]
    BY DEF Tickers, Reverse
  <2>2. j + 1 \in 1 .. 4 /\ (4 - (j + 1)) + 1 = 4 - j
    OBVIOUS
  <2>3. Tickers(i)[j + 1] = <<i + 3, i + 2, i + 1, i>>[4 - j]
    BY <2>1, <2>2
  <2>4. j = 0 \/ j = 1 \/ j = 2 \/ j = 3
    OBVIOUS
  <2> QED
    BY <2>3, <2>4
<1> QED
  BY <1>1, <1>2 DEF Vector, Scalar

\* decode_add_orders_simd, of any number of messages.
LEMMA VectorsDecodeAll ==
    ASSUME NEW n \in Nat
    PROVE  decode_add_orders_simd(n) = decode_sequentially(n)
<1> DEFINE grouped == Lanes * Cardinality(GroupStarts(n))
<1>1. grouped \in Nat /\ grouped <= n /\ n < grouped + Lanes
  BY GroupCount, GroupPlaces DEF Lanes
<1>2. decode_add_orders_simd(n) =
          [k \in 1 .. Max({n, grouped}) |->
              IF k <= grouped
              THEN Vector(((k - 1) \div Lanes) * Lanes, (k - 1) % Lanes)
              ELSE Scalar(k - 1)]
  BY DEF decode_add_orders_simd
<1> HIDE DEF grouped
<1>3. Max({n, grouped}) = n
  BY <1>1 DEF Max
<1>4. ASSUME NEW k \in 1 .. n
      PROVE  Vector(((k - 1) \div Lanes) * Lanes, (k - 1) % Lanes) = Scalar(k - 1)
  <2> DEFINE a == k - 1
  <2>1. a \in Nat
    OBVIOUS
  <2> HIDE DEF a
  <2>2. /\ a = 4 * (a \div 4) + (a % 4) /\ a \div 4 \in Nat /\ a % 4 \in 0 .. 3
    BY <2>1, Z3
  <2>3. (a \div 4) * 4 \in Nat /\ (a \div 4) * 4 + (a % 4) = a
    BY <2>2
  <2>4. Vector((a \div 4) * 4, a % 4) = Scalar((a \div 4) * 4 + (a % 4))
    BY <2>2, <2>3, VectorIsScalar
  <2> QED
    BY <2>3, <2>4 DEF a, Lanes
<1> QED
  BY <1>2, <1>3, <1>4 DEF decode_sequentially

-----------------------------------------------------------------------------
\* A group of four lies within the mask: adding the lane carries no bit over.
LEMMA GroupInMask ==
    ASSUME NEW width \in Nat \ {0}, width % Lanes = 0, NEW i \in Nat, i % Lanes = 0,
           NEW j \in 0 .. Lanes - 1
    PROVE  (i + j) % width = (i % width) + j /\ (i % width) + j \in 0 .. width - 1
<1> DEFINE r == i % width
<1> DEFINE q == i \div width
<1>1. i = width * q + r /\ q \in Nat /\ r \in 0 .. width - 1
  BY DivMod, ModInRing
<1>2. width = 4 * (width \div 4) /\ width \div 4 \in Nat
  BY Z3 DEF Lanes
<1>3. i = 4 * (i \div 4) /\ i \div 4 \in Nat
  BY Z3 DEF Lanes
<1> DEFINE w == width \div 4
<1> DEFINE k == i \div 4
<1> HIDE DEF r, q, w, k
<1>4. PICK v \in Int : width * q = 4 * v
  <2>1. width = 4 * w /\ w \in Nat
    BY <1>2 DEF w
  <2>2. w * q \in Int /\ width * q = 4 * (w * q)
    BY <1>1, <2>1
  <2> QED
    BY <2>2
<1>5. r = 4 * (k - v)
  <2>1. i = 4 * k /\ k \in Nat
    BY <1>3 DEF k
  <2> DEFINE u == width * q
  <2>2. i = u + r /\ u = 4 * v
    BY <1>1, <1>4
  <2> HIDE DEF u
  <2> QED
    BY <1>1, <1>4, <2>1, <2>2
<1>6. r <= width - 4
  <2> DEFINE m == k - v
  <2>1. m \in Int
    BY <1>3, <1>4 DEF k
  <2>2. r = 4 * m /\ width = 4 * w /\ w \in Nat
    BY <1>2, <1>5 DEF w
  <2> HIDE DEF m
  <2> QED
    BY <1>1, <2>1, <2>2
<1>7. r + j \in 0 .. width - 1
  BY <1>1, <1>6 DEF Lanes
<1>8. (width * q + (r + j)) % width = r + j
  BY <1>1, <1>7, RemainderIsUnique
<1>9. width * q + (r + j) = i + j
  BY <1>1, <1>4 DEF Lanes
<1> QED
  BY <1>7, <1>8, <1>9 DEF r

\* The groups of four cover a batch of whole groups.
LEMMA GroupsCover ==
    ASSUME NEW n \in Nat, n % Lanes = 0
    PROVE  /\ \A i \in GroupStarts(n), j \in 0 .. Lanes - 1 : i + j + 1 \in 1 .. n
           /\ \A k \in 1 .. n : \E i \in GroupStarts(n), j \in 0 .. Lanes - 1 : i + j + 1 = k
<1>1. \A i \in GroupStarts(n), j \in 0 .. Lanes - 1 : i + j + 1 \in 1 .. n
  BY DEF GroupStarts, Lanes
<1>2. ASSUME NEW k \in 1 .. n
      PROVE  \E i \in GroupStarts(n), j \in 0 .. Lanes - 1 : i + j + 1 = k
  <2> DEFINE a == k - 1
  <2>1. a \in Nat /\ a < n
    OBVIOUS
  <2>2. n = 4 * (n \div 4) /\ n \div 4 \in Nat
    BY Z3 DEF Lanes
  <2> HIDE DEF a
  <2>3. a = 4 * (a \div 4) + (a % 4) /\ a \div 4 \in Nat /\ a % 4 \in 0 .. 3
    BY <2>1, Z3
  <2>4. a \div 4 \in 0 .. (n \div Lanes) - 1
    BY <2>1, <2>2, <2>3 DEF Lanes
  <2>5. Lanes * (a \div 4) \in GroupStarts(n)
    BY <2>4, GroupPlaces
  <2>6. a % 4 \in 0 .. Lanes - 1 /\ Lanes * (a \div 4) + (a % 4) + 1 = k
    BY <2>3 DEF Lanes, a
  <2> QED
    BY <2>5, <2>6
<1> QED
  BY <1>1, <1>2

\* filter_tickers_simd: the three builds give the same mask of a batch of whole groups.
LEMMA BuildsFilterAlike ==
    ASSUME NEW S, NEW keys \in Seq(S), Len(keys) % Lanes = 0, NEW target,
           NEW width \in Nat \ {0}, width % Lanes = 0
    PROVE  /\ filter_avx2(keys, target, width) = filter_scalar(keys, target, width)
           /\ filter_neon(keys, target, width) = filter_scalar(keys, target, width)
<1> DEFINE n == Len(keys)
<1>1. n \in Nat /\ DOMAIN keys = 1 .. n /\ n % Lanes = 0
  BY LenProperties
<1>2. /\ \A i \in GroupStarts(n), j \in 0 .. Lanes - 1 : i + j + 1 \in 1 .. n
      /\ \A k \in 1 .. n : \E i \in GroupStarts(n), j \in 0 .. Lanes - 1 : i + j + 1 = k
  <2> HIDE DEF n
  <2> QED
    BY <1>1, GroupsCover
<1> HIDE DEF n
<1>3. \A i \in GroupStarts(n), j \in 0 .. Lanes - 1 :
          /\ i \in Nat /\ j \in Nat
          /\ (i + j) % width = (i % width) + j /\ (i % width) + j \in 0 .. width - 1
  <2> SUFFICES ASSUME NEW i \in GroupStarts(n), NEW j \in 0 .. Lanes - 1
               PROVE  /\ i \in Nat /\ j \in Nat
                      /\ (i + j) % width = (i % width) + j
                      /\ (i % width) + j \in 0 .. width - 1
    OBVIOUS
  <2>1. i \in Nat /\ j \in Nat /\ i % Lanes = 0
    BY <1>1 DEF GroupStarts
  <2> QED
    BY <2>1, GroupInMask
<1>4. filter_scalar(keys, target, width) =
          {bit \in 0 .. width - 1 :
              \E k \in 1 .. n : keys[k] = target /\ bit = (k - 1) % width}
  <2>1. \A k \in 1 .. n : (k - 1) % width \in 0 .. width - 1
    <3> SUFFICES ASSUME NEW k \in 1 .. n PROVE (k - 1) % width \in 0 .. width - 1
      OBVIOUS
    <3>1. k - 1 \in Nat
      BY <1>1
    <3> QED
      BY <3>1, ModInRing
  <2> QED
    BY <1>1, <2>1 DEF filter_scalar
<1>5. filter_neon(keys, target, width) =
          {bit \in 0 .. width - 1 :
              \E k \in 1 .. n : keys[k] = target /\ bit = (k - 1) % width}
  <2>1. \A i \in GroupStarts(n), j \in 0 .. Lanes - 1 : (i + j + 1) - 1 = i + j
    BY <1>3
  <2>2. ASSUME NEW bit
        PROVE  (\E i \in GroupStarts(n), j \in 0 .. Lanes - 1 :
                    keys[i + j + 1] = target /\ bit = (i + j) % width)
               <=> \E k \in 1 .. n : keys[k] = target /\ bit = (k - 1) % width
    <3>1. ASSUME NEW k \in 1 .. n, keys[k] = target, bit = (k - 1) % width
          PROVE  \E i \in GroupStarts(n), j \in 0 .. Lanes - 1 :
                     keys[i + j + 1] = target /\ bit = (i + j) % width
      <4>1. PICK i \in GroupStarts(n), j \in 0 .. Lanes - 1 : i + j + 1 = k
        BY <1>2
      <4>2. (i + j + 1) - 1 = i + j
        BY <2>1
      <4> QED
        BY <3>1, <4>1, <4>2
    <3>2. ASSUME NEW i \in GroupStarts(n), NEW j \in 0 .. Lanes - 1,
                 keys[i + j + 1] = target, bit = (i + j) % width
          PROVE  \E k \in 1 .. n : keys[k] = target /\ bit = (k - 1) % width
      <4>1. i + j + 1 \in 1 .. n /\ (i + j + 1) - 1 = i + j
        BY <1>2, <2>1
      <4> QED
        BY <3>2, <4>1
    <3> QED
      BY <3>1, <3>2
  <2>3. filter_neon(keys, target, width) =
            {bit \in 0 .. width - 1 :
                \E i \in GroupStarts(n), j \in 0 .. Lanes - 1 :
                    keys[i + j + 1] = target /\ bit = (i + j) % width}
    BY DEF filter_neon, n
  <2> QED
    BY <2>2, <2>3
<1>6. filter_avx2(keys, target, width) = filter_neon(keys, target, width)
  <2>1. filter_avx2(keys, target, width) =
            {bit \in 0 .. width - 1 :
                \E i \in GroupStarts(n), j \in 0 .. Lanes - 1 :
                    keys[i + j + 1] = target /\ bit = (i % width) + j}
    BY DEF filter_avx2, n
  <2>2. filter_neon(keys, target, width) =
            {bit \in 0 .. width - 1 :
                \E i \in GroupStarts(n), j \in 0 .. Lanes - 1 :
                    keys[i + j + 1] = target /\ bit = (i + j) % width}
    BY DEF filter_neon, n
  <2> QED
    BY <1>3, <2>1, <2>2, SMTT(30)
<1> QED
  BY <1>4, <1>5, <1>6

\* The length of the buffer the runs take the inputs from.
LEMMA StreamIsSeq == TypeOK => stream \in Seq(Bytes) /\ Len(stream) \in Nat
  BY StreamsAssumption DEF TypeOK

(* The vectorised decoder gives what decoding message by message gives,    *)
(* for every number of messages.                                           *)
THEOREM BatchDecodesAsScalar == Spec => []BatchIsScalar
<1>1. TypeOK => BatchIsScalar
  BY StreamIsSeq, VectorsDecodeAll DEF BatchIsScalar
<1> QED
  BY <1>1, DecoderTypeCorrect, PTL

(* The ticker filter gives the same mask on every build, for every batch   *)
(* of whole groups and every mask of whole groups.                         *)
THEOREM BuildsFilterTheSame == Spec => []FilterSameOnEveryBuild
<1>1. TypeOK => FilterSameOnEveryBuild
  <2> SUFFICES ASSUME TypeOK, Len(stream) % Lanes = 0
               PROVE  /\ filter_avx2(stream, 1, Width) = filter_scalar(stream, 1, Width)
                      /\ filter_neon(stream, 1, Width) = filter_scalar(stream, 1, Width)
    BY DEF FilterSameOnEveryBuild
  <2> QED
    BY StreamIsSeq, WidthAssumption, BuildsFilterAlike
<1> QED
  BY <1>1, DecoderTypeCorrect, PTL

-----------------------------------------------------------------------------
(* The scans of experiment 1.                                              *)

\* The lanes of the group at i that both comparisons mark.
Marked(tickers, target, exceeding, i) ==
    {j \in 0 .. Lanes - 1 : tickers[i + j + 1] = target}
        \intersect {j \in 0 .. Lanes - 1 : i + j + 1 \in exceeding}

\* What the groups add up to.
MarkedInGroups(tickers, target, exceeding, groups) ==
    MapThenSumSet(LAMBDA i : Cardinality(Marked(tickers, target, exceeding, i)), groups)

LEMMA ScanIsGroupsAndTail ==
    ASSUME NEW tickers, NEW prices, NEW target, NEW threshold, NEW exceeding
    PROVE  ScanVectors(tickers, prices, target, threshold, exceeding) =
               MarkedInGroups(tickers, target, exceeding, GroupStarts(Len(tickers)))
               + Cardinality({k \in TailOf(Len(tickers)) :
                                  Above(tickers[k], prices[k], target, threshold)})
  BY DEF ScanVectors, MarkedInGroups, Marked

MarkedWeights(tickers, target, exceeding, groups) ==
    [i \in groups |-> Cardinality(Marked(tickers, target, exceeding, i))]

\* The function the community module's sum is taken with.
IsMarkedSum(tickers, target, exceeding, S, g) ==
    g = [s \in SUBSET S |->
            IF s = {} THEN 0
            ELSE Cardinality(Marked(tickers, target, exceeding, CHOOSE x \in s : TRUE))
                     + g[s \ {CHOOSE x \in s : TRUE}]]

LEMMA MarkedIsSum ==
    ASSUME NEW tickers, NEW target, NEW exceeding, NEW S
    PROVE  MarkedInGroups(tickers, target, exceeding, S) =
               (CHOOSE g : IsMarkedSum(tickers, target, exceeding, S, g))[S]
  BY DEF MarkedInGroups, MapThenSumSet, MapThenFoldSet, IsMarkedSum

LEMMA LanesFinite == IsFiniteSet(0 .. Lanes - 1)
<1>1. 0 \in Int /\ Lanes - 1 \in Int
  BY DEF Lanes
<1> QED
  BY <1>1, FS_Interval

LEMMA MarkedFinite ==
    ASSUME NEW tickers, NEW target, NEW exceeding, NEW i
    PROVE  Cardinality(Marked(tickers, target, exceeding, i)) \in Nat
<1>1. IsFiniteSet(0 .. Lanes - 1)
  BY LanesFinite
<1>2. Marked(tickers, target, exceeding, i) \in SUBSET (0 .. Lanes - 1)
  BY DEF Marked
<1> QED
  BY <1>1, <1>2, FS_Subset, FS_CardinalityType

LEMMA MarkedIsTotal ==
    ASSUME NEW tickers, NEW target, NEW exceeding, NEW S, IsFiniteSet(S)
    PROVE  MarkedInGroups(tickers, target, exceeding, S) =
               Total(MarkedWeights(tickers, target, exceeding, S), S)
<1> DEFINE w == MarkedWeights(tickers, target, exceeding, S)
<1> DEFINE c(i) == Cardinality(Marked(tickers, target, exceeding, i))
<1>1. Weighed(w, S) /\ \A i \in S : w[i] = c(i)
  BY MarkedFinite DEF Weighed, MarkedWeights
<1> HIDE DEF w
<1>2. ASSUME NEW g
      PROVE  IsSum(w, S, g) <=> IsMarkedSum(tickers, target, exceeding, S, g)
  <2> DEFINE a == [s \in SUBSET S |-> SumStep(w, g, s)]
  <2> DEFINE b == [s \in SUBSET S |->
            IF s = {} THEN 0
            ELSE c(CHOOSE x \in s : TRUE) + g[s \ {CHOOSE x \in s : TRUE}]]
  <2>1. ASSUME NEW s \in SUBSET S
        PROVE  a[s] = b[s]
    <3>1. CASE s = {}
      BY <3>1 DEF SumStep
    <3>2. CASE s # {}
      <4>1. (CHOOSE x \in s : TRUE) \in S
        BY <3>2
      <4>2. w[CHOOSE x \in s : TRUE] = c(CHOOSE x \in s : TRUE)
        BY <1>1, <4>1
      <4> HIDE DEF c
      <4> QED
        BY <3>2, <4>2 DEF SumStep
    <3> QED
      BY <3>1, <3>2
  <2>2. a = b
    <3> HIDE DEF c
    <3> QED
      BY <2>1
  <2> QED
    BY <2>2 DEF IsSum, IsMarkedSum
<1> HIDE DEF c
<1>3. \E g : IsMarkedSum(tickers, target, exceeding, S, g)
  <2>1. \E g : IsSum(w, S, g)
    BY <1>1, SumExists DEF Weighed
  <2> QED
    BY <1>2, <2>1
<1> DEFINE h == CHOOSE g : IsMarkedSum(tickers, target, exceeding, S, g)
<1>4. IsSum(w, S, h)
  <2>1. IsMarkedSum(tickers, target, exceeding, S, h)
    BY <1>3
  <2> HIDE DEF h
  <2> QED
    BY <1>2, <2>1
<1>5. MarkedInGroups(tickers, target, exceeding, S) = h[S]
  BY MarkedIsSum
<1> HIDE DEF h
<1> QED
  BY <1>1, <1>4, <1>5, TotalIs DEF w

\* The places of the array that both comparisons mark.
MarkedPlaces(tickers, target, exceeding) ==
    {k \in 1 .. Len(tickers) : tickers[k] = target /\ k \in exceeding}

\* Those the scan is to count.
Matches(tickers, prices, target, threshold) ==
    {k \in 1 .. Len(tickers) : Above(tickers[k], prices[k], target, threshold)}

\* The lanes of a group are four places of the array.
LEMMA MarkedArePlaces ==
    ASSUME NEW tickers, NEW target, NEW exceeding, Len(tickers) \in Nat,
           NEW i \in GroupStarts(Len(tickers))
    PROVE  Cardinality(Marked(tickers, target, exceeding, i))
               = Cardinality(MarkedPlaces(tickers, target, exceeding)
                                 \intersect (i + 1 .. i + Lanes))
<1> DEFINE n == Len(tickers)
<1> DEFINE M == MarkedPlaces(tickers, target, exceeding)
<1>0. M = {k \in 1 .. n : tickers[k] = target /\ k \in exceeding} /\ n \in Nat
  BY DEF MarkedPlaces
<1>n. i \in GroupStarts(n)
  OBVIOUS
<1> HIDE DEF M, n
<1> DEFINE J == Marked(tickers, target, exceeding, i)
<1> DEFINE K == M \intersect (i + 1 .. i + Lanes)
<1> DEFINE f == [j \in J |-> i + j + 1]
<1>1. i \in Nat /\ i + 4 <= n
  BY <1>0, <1>n DEF GroupStarts, Lanes
<1>2. f \in [J -> K]
  <2> SUFFICES ASSUME NEW j \in J PROVE i + j + 1 \in K
    OBVIOUS
  <2> QED
    BY <1>0, <1>1 DEF Marked, Lanes
<1>3. \A a, b \in J : f[a] = f[b] => a = b
  BY <1>1 DEF Marked, Lanes
<1>4. \A k \in K : \E j \in J : f[j] = k
  <2> SUFFICES ASSUME NEW k \in K PROVE \E j \in J : f[j] = k
    OBVIOUS
  <2> DEFINE j == k - i - 1
  <2>1. k \in 1 .. n /\ k \in i + 1 .. i + 4 /\ tickers[k] = target /\ k \in exceeding
    BY <1>0 DEF Lanes
  <2>2. j \in 0 .. 3 /\ i + j + 1 = k
    BY <1>1, <2>1
  <2> HIDE DEF j
  <2>3. j \in J
    BY <2>1, <2>2 DEF Marked, Lanes
  <2> QED
    BY <2>2, <2>3
<1>5. IsFiniteSet(J)
  <2>1. IsFiniteSet(0 .. Lanes - 1)
    BY LanesFinite
  <2>2. J \in SUBSET (0 .. Lanes - 1)
    BY DEF Marked
  <2> QED
    BY <2>1, <2>2, FS_Subset
<1> HIDE DEF f, J, K
<1>6. f \in Bijection(J, K)
  BY <1>2, <1>3, <1>4, Fun_IsBij
<1>7. ExistsBijection(J, K)
  BY <1>6 DEF ExistsBijection
<1> QED
  BY <1>5, <1>7, FS_Bijection DEF J, K, M

\* Group by group, the marked places of the array are counted once each.
LEMMA GroupsCountOnce ==
    ASSUME NEW n \in Nat, NEW M \in SUBSET (1 .. n), NEW w,
           \A i \in GroupStarts(n) : w[i] = Cardinality(M \intersect (i + 1 .. i + Lanes))
    PROVE  Total(w, GroupStarts(n)) = Cardinality(M \intersect (1 .. Lanes * (n \div Lanes)))
<1> DEFINE N == n \div Lanes
<1> DEFINE First(q) == {Lanes * p : p \in 0 .. q - 1}
<1> DEFINE Fits(q) == Total(w, First(q)) = Cardinality(M \intersect (1 .. Lanes * q))
<1> DEFINE Wrong == {q \in Nat : q <= N /\ ~Fits(q)}
<1>1. GroupStarts(n) = First(N) /\ N \in Nat
  BY GroupPlaces
<1>f. IsFiniteSet(M) /\ \A T : IsFiniteSet(M \intersect T) /\ Cardinality(M \intersect T) \in Nat
  <2>1. IsFiniteSet(1 .. n)
    BY FS_Interval
  <2>2. IsFiniteSet(M)
    BY <2>1, FS_Subset
  <2>3. ASSUME NEW T PROVE IsFiniteSet(M \intersect T) /\ Cardinality(M \intersect T) \in Nat
    BY <2>2, FS_Intersection, FS_CardinalityType
  <2> QED
    BY <2>2, <2>3
<1>g. IsFiniteSet(GroupStarts(n))
  <2>1. GroupStarts(n) \in SUBSET (0 .. n)
    BY DEF GroupStarts
  <2>2. IsFiniteSet(0 .. n)
    BY FS_Interval
  <2> QED
    BY <2>1, <2>2, FS_Subset
<1> HIDE DEF N
<1>2. \A q \in Nat : q <= N => First(q) \in SUBSET GroupStarts(n)
  BY <1>1
<1>3. ASSUME NEW q \in Nat, q <= N PROVE Weighed(w, First(q))
  <2>1. First(q) \in SUBSET GroupStarts(n)
    BY <1>2, <1>3
  <2> HIDE DEF First
  <2>2. IsFiniteSet(First(q))
    BY <1>g, <2>1, FS_Subset
  <2> QED
    BY <1>f, <2>1, <2>2 DEF Weighed
<1>4. Wrong = {}
  <2> SUFFICES ASSUME Wrong # {} PROVE FALSE
    OBVIOUS
  <2>1. PICK q \in Wrong : \A p \in Wrong : q <= p
    <3> HIDE DEF Wrong
    <3>1. Wrong \in SUBSET Nat
      BY DEF Wrong
    <3> QED
      BY <3>1, LeastElement
  <2>2. q \in Nat /\ q <= N /\ ~Fits(q)
    BY <2>1
  <2>3. CASE q = 0
    <3>1. First(0) = {}
      OBVIOUS
    <3>2. 0 \in Nat /\ 0 <= N
      BY <1>1
    <3>3. Weighed(w, First(0))
      <4> HIDE DEF First
      <4> QED
        BY <1>3, <3>2
    <3>4. Total(w, First(0)) = 0
      <4> HIDE DEF First
      <4> QED
        BY <3>1, <3>3, TotalFacts
    <3>5. M \intersect (1 .. Lanes * 0) = {}
      BY DEF Lanes
    <3>6. Fits(0)
      BY <3>4, <3>5, FS_EmptySet
    <3> QED
      BY <2>2, <2>3, <3>6
  <2>4. CASE q # 0
    <3> DEFINE p == q - 1
    <3> DEFINE i == Lanes * p
    <3>1. p \in Nat /\ p <= N /\ p \notin Wrong /\ q = p + 1
      <4> HIDE DEF Wrong
      <4> QED
        BY <1>1, <2>1, <2>2, <2>4
    <3>2. Fits(p)
      BY <3>1
    <3> HIDE DEF p
    <3>3. /\ i \in First(q) /\ First(q) \ {i} = First(p) /\ i \in Nat
          /\ i \in GroupStarts(n)
      <4>1. i \in First(q)
        BY <3>1
      <4>2. First(q) \ {i} = First(p)
        BY <3>1 DEF Lanes
      <4>3. i \in Nat
        BY <3>1 DEF Lanes
      <4> QED
        BY <1>2, <2>2, <4>1, <4>2, <4>3
    <3>4. Total(w, First(q)) = w[i] + Total(w, First(p))
      <4> HIDE DEF First, i
      <4>1. Weighed(w, First(q))
        BY <1>3, <2>2
      <4>2. Total(w, First(q)) = w[i] + Total(w, First(q) \ {i})
        BY <3>3, <4>1, TotalFacts
      <4> QED
        BY <3>3, <4>2
    <3> DEFINE A == M \intersect (1 .. i)
    <3> DEFINE B == M \intersect (i + 1 .. i + Lanes)
    <3>5. Cardinality(M \intersect (1 .. Lanes * q)) = Cardinality(A) + Cardinality(B)
      <4>1. M \intersect (1 .. Lanes * q) = A \union B /\ A \intersect B = {}
        <5>1. Lanes * q = i + Lanes /\ i \in Nat
          BY <3>1 DEF Lanes
        <5> HIDE DEF i
        <5>2. 1 .. i + Lanes = (1 .. i) \union (i + 1 .. i + Lanes)
              /\ (1 .. i) \intersect (i + 1 .. i + Lanes) = {}
          BY <5>1 DEF Lanes
        <5> QED
          BY <5>1, <5>2
      <4>2. IsFiniteSet(A) /\ IsFiniteSet(B) /\ Cardinality(A) \in Nat /\ Cardinality(B) \in Nat
        BY <1>f
      <4> HIDE DEF A, B
      <4>3. Cardinality(A \union B) = Cardinality(A) + Cardinality(B) - Cardinality(A \intersect B)
        BY <4>2, FS_Union
      <4>4. Cardinality(A \intersect B) = 0
        BY <4>1, FS_EmptySet
      <4>5. Cardinality(M \intersect (1 .. Lanes * q)) = Cardinality(A \union B)
        BY <4>1
      <4> DEFINE c == Cardinality(M \intersect (1 .. Lanes * q))
      <4>6. c = Cardinality(A) + Cardinality(B) - 0
        BY <4>3, <4>4, <4>5
      <4> HIDE DEF c
      <4>7. c = Cardinality(A) + Cardinality(B)
        BY <4>2, <4>6
      <4> QED
        BY <4>7 DEF c
    <3>6. w[i] = Cardinality(B)
      BY <3>3
    <3>7. Total(w, First(p)) = Cardinality(A)
      BY <3>2
    <3>8. Fits(q)
      <4>1. Cardinality(A) \in Nat /\ Cardinality(B) \in Nat
        BY <1>f
      <4> HIDE DEF First, A, B, i
      <4> QED
        BY <3>4, <3>5, <3>6, <3>7, <4>1
    <3> QED
      BY <2>2, <3>8
  <2> QED
    BY <2>3, <2>4
<1>5. Fits(N)
  <2>1. N \notin Wrong
    BY <1>4
  <2>2. N \in Nat /\ N <= N
    BY <1>1
  <2> HIDE DEF Fits
  <2> QED
    BY <2>1, <2>2
<1> QED
  BY <1>1, <1>5 DEF N

\* A scan counts the marked places the groups cover and the matches of the tail.
LEMMA ScanCounts ==
    ASSUME NEW tickers, NEW prices, Len(tickers) \in Nat,
           NEW target, NEW threshold, NEW exceeding,
           MarkedPlaces(tickers, target, exceeding)
               \subseteq Matches(tickers, prices, target, threshold)
    PROVE  /\ ScanVectors(tickers, prices, target, threshold, exceeding)
                  <= Cardinality(Matches(tickers, prices, target, threshold))
           /\ MarkedPlaces(tickers, target, exceeding)
                  = Matches(tickers, prices, target, threshold) =>
              ScanVectors(tickers, prices, target, threshold, exceeding)
                  = Cardinality(Matches(tickers, prices, target, threshold))
<1> DEFINE n == Len(tickers)
<1> DEFINE M == MarkedPlaces(tickers, target, exceeding)
<1> DEFINE A == Matches(tickers, prices, target, threshold)
<1>0. /\ n \in Nat /\ M \subseteq A
      /\ M = {k \in 1 .. n : tickers[k] = target /\ k \in exceeding}
      /\ A = {k \in 1 .. n : Above(tickers[k], prices[k], target, threshold)}
  BY DEF MarkedPlaces, Matches
<1>m. \A i \in GroupStarts(n) : Cardinality(Marked(tickers, target, exceeding, i))
                                    = Cardinality(M \intersect (i + 1 .. i + Lanes))
  BY MarkedArePlaces
<1>s. ScanVectors(tickers, prices, target, threshold, exceeding) =
          MarkedInGroups(tickers, target, exceeding, GroupStarts(n))
          + Cardinality({k \in TailOf(n) : Above(tickers[k], prices[k], target, threshold)})
  BY ScanIsGroupsAndTail
<1> HIDE DEF n, M, A
<1> DEFINE G == Lanes * (n \div Lanes)
<1> DEFINE S == GroupStarts(n)
<1> DEFINE w == MarkedWeights(tickers, target, exceeding, S)
<1> DEFINE scan == ScanVectors(tickers, prices, target, threshold, exceeding)
<1> DEFINE B == M \intersect (1 .. G)
<1> DEFINE C == A \intersect (G + 1 .. n)
<1>1. G \in Nat /\ G <= n
  BY <1>0, GroupPlaces DEF Lanes
<1>f. IsFiniteSet(A) /\ IsFiniteSet(B) /\ IsFiniteSet(C)
  <2>1. 1 \in Int /\ n \in Int
    BY <1>0
  <2>2. IsFiniteSet(1 .. n)
    BY <2>1, FS_Interval
  <2>3. A \in SUBSET (1 .. n) /\ B \in SUBSET A /\ C \in SUBSET A
    BY <1>0
  <2>4. IsFiniteSet(A)
    BY <2>2, <2>3, FS_Subset
  <2> HIDE DEF B, C
  <2> QED
    BY <2>3, <2>4, FS_Subset
<1>g. IsFiniteSet(S)
  <2>1. S \in SUBSET (0 .. n)
    BY <1>0 DEF GroupStarts
  <2>2. 0 \in Int /\ n \in Int
    BY <1>0
  <2>3. IsFiniteSet(0 .. n)
    BY <2>2, FS_Interval
  <2> HIDE DEF S
  <2> QED
    BY <2>1, <2>3, FS_Subset
<1>2. MarkedInGroups(tickers, target, exceeding, S) = Cardinality(B)
  <2>1. \A i \in S : w[i] = Cardinality(M \intersect (i + 1 .. i + Lanes))
    <3> SUFFICES ASSUME NEW i \in S
                 PROVE  w[i] = Cardinality(M \intersect (i + 1 .. i + Lanes))
      OBVIOUS
    <3>1. w[i] = Cardinality(Marked(tickers, target, exceeding, i))
      BY DEF MarkedWeights
    <3> HIDE DEF w
    <3> QED
      BY <1>m, <3>1
  <2>2. M \in SUBSET (1 .. n)
    BY <1>0
  <2> HIDE DEF w
  <2>3. Total(w, GroupStarts(n)) = Cardinality(M \intersect (1 .. Lanes * (n \div Lanes)))
    BY <1>0, <2>1, <2>2, GroupsCountOnce
  <2>4. MarkedInGroups(tickers, target, exceeding, S) = Total(w, S)
    <3> HIDE DEF S
    <3> QED
      BY <1>g, MarkedIsTotal DEF w
  <2> QED
    BY <2>3, <2>4
<1>3. {k \in TailOf(n) : Above(tickers[k], prices[k], target, threshold)} = C
  <2>1. TailOf(n) = G + 1 .. n
    BY <1>0, GroupCount DEF TailOf
  <2> HIDE DEF G
  <2>2. \A k \in G + 1 .. n : k \in 1 .. n
    BY <1>1
  <2> QED
    BY <1>0, <2>1, <2>2
<1>4. scan = Cardinality(B) + Cardinality(C)
  BY <1>2, <1>3, <1>s
<1> HIDE DEF scan, S, w
<1>5. B \intersect C = {} /\ B \union C \in SUBSET A /\ (M = A => B \union C = A)
  <2> HIDE DEF G
  <2>1. (1 .. G) \intersect (G + 1 .. n) = {}
    BY <1>0, <1>1
  <2>2. 1 .. n = (1 .. G) \union (G + 1 .. n)
    BY <1>0, <1>1
  <2> QED
    BY <1>0, <2>1, <2>2
<1> HIDE DEF B, C, G
<1>6. Cardinality(B \union C) = Cardinality(B) + Cardinality(C)
  <2>1. Cardinality(B \union C) = Cardinality(B) + Cardinality(C) - Cardinality(B \intersect C)
    BY <1>f, FS_Union
  <2>2. Cardinality(B \intersect C) = 0
    BY <1>5, FS_EmptySet
  <2>3. Cardinality(B) \in Nat /\ Cardinality(C) \in Nat
    BY <1>f, FS_CardinalityType
  <2> QED
    BY <2>1, <2>2, <2>3
<1>7. scan = Cardinality(B \union C)
  BY <1>4, <1>6
<1>8. Cardinality(B \union C) <= Cardinality(A)
  BY <1>f, <1>5, FS_Subset
<1> QED
  BY <1>5, <1>7, <1>8 DEF scan, M, A

\* Signed, a word above zero is above zero, and a word below the sign bit is itself.
LEMMA SignedMisses ==
    ASSUME NEW p \in Nat
    PROVE  /\ Signed(p, 4) > Signed(0, 4) => p > 0
           /\ p < 2 => (Signed(p, 4) > Signed(0, 4) <=> p > 0)
<1>1. Signed(p, 4) = IF p < 2 THEN p ELSE p - 4
  BY DEF Signed
<1>2. Signed(0, 4) = 0
  BY DEF Signed
<1> QED
  BY <1>1, <1>2

LEMMA ScansOk == TypeOK => ScansAgree
<1> SUFFICES ASSUME TypeOK PROVE ScansAgree
  OBVIOUS
<1> DEFINE n == Len(stream)
<1> DEFINE prices == [k \in 1 .. n |-> stream[n + 1 - k]]
<1> DEFINE orders == [k \in 1 .. n |-> [ticker_key |-> stream[k], price |-> prices[k]]]
<1> DEFINE A == {k \in 1 .. n : Above(stream[k], prices[k], 1, 0)}
<1> DEFINE high == {k \in DOMAIN prices : prices[k] > 0}
<1> DEFINE positive == {k \in DOMAIN prices : Signed(prices[k], 4) > Signed(0, 4)}
<1>1. stream \in Seq(Bytes) /\ n \in Nat /\ DOMAIN stream = 1 .. n
  BY StreamIsSeq, LenProperties
<1>2. \A k \in 1 .. n : prices[k] \in Nat
  <2> SUFFICES ASSUME NEW k \in 1 .. n PROVE prices[k] \in Nat
    OBVIOUS
  <2>1. n + 1 - k \in 1 .. n
    BY <1>1
  <2>2. stream[n + 1 - k] \in Bytes
    BY <1>1, <2>1, ElementOfSeq
  <2>3. Bytes \subseteq Nat
    <3>1. 0 .. Base - 1 \subseteq Nat
      BY DEF Base
    <3> QED
      BY <3>1, BytesAssumption
  <2> QED
    BY <2>2, <2>3
<1>3. DOMAIN prices = 1 .. n
  OBVIOUS
<1>o. scan_aos(orders, 1, 0) = Cardinality(A)
  <2>1. DOMAIN orders = 1 .. n
    OBVIOUS
  <2>2. \A k \in 1 .. n : orders[k].ticker_key = stream[k] /\ orders[k].price = prices[k]
    OBVIOUS
  <2> HIDE DEF orders, prices
  <2>3. {k \in DOMAIN orders : Above(orders[k].ticker_key, orders[k].price, 1, 0)} = A
    BY <2>1, <2>2
  <2> QED
    BY <2>3 DEF scan_aos
<1> HIDE DEF orders
<1>p. orders = [k \in 1 .. n |-> [ticker_key |-> stream[k], price |-> prices[k]]]
  BY DEF orders
<1> HIDE DEF prices, n
<1>4. scan_soa(stream, prices, 1, 0) = Cardinality(A)
  BY <1>1 DEF scan_soa
<1>a. Matches(stream, prices, 1, 0) = A
  BY DEF Matches, n
<1>5. scan_neon(stream, prices, 1, 0) = Cardinality(A)
  <2>1. MarkedPlaces(stream, 1, high) = A
    BY <1>3 DEF Above, MarkedPlaces, n
  <2>2. Len(stream) \in Nat
    BY <1>1 DEF n
  <2> HIDE DEF A, high
  <2>3. ScanVectors(stream, prices, 1, 0, high) = Cardinality(A)
    BY <1>a, <2>1, <2>2, ScanCounts
  <2> QED
    BY <2>3 DEF scan_neon, high
<1>6. /\ scan_avx2(stream, prices, 1, 0, 4) <= Cardinality(A)
      /\ (\A k \in 1 .. n : prices[k] < 2) => scan_avx2(stream, prices, 1, 0, 4) = Cardinality(A)
  <2> DEFINE M == MarkedPlaces(stream, 1, positive)
  <2>1. M \subseteq A
    BY <1>2, <1>3, SignedMisses DEF Above, MarkedPlaces, n
  <2>2. (\A k \in 1 .. n : prices[k] < 2) => M = A
    BY <1>2, <1>3, SignedMisses DEF Above, MarkedPlaces, n
  <2>3. Len(stream) \in Nat
    BY <1>1 DEF n
  <2> HIDE DEF positive, A
  <2>4. /\ ScanVectors(stream, prices, 1, 0, positive) <= Cardinality(A)
        /\ M = A => ScanVectors(stream, prices, 1, 0, positive) = Cardinality(A)
    BY <1>a, <2>1, <2>3, ScanCounts
  <2>5. scan_avx2(stream, prices, 1, 0, 4) = ScanVectors(stream, prices, 1, 0, positive)
    BY DEF scan_avx2, positive
  <2> HIDE DEF M
  <2> QED
    BY <2>2, <2>4, <2>5
<1> QED
  BY <1>o, <1>4, <1>5, <1>6 DEF ScansAgree, prices, orders, n

(* The scans of experiment 1 count the same orders on every build and in   *)
(* every layout, of every array; the signed comparison only misses orders, *)
(* and none as long as no price reaches the sign bit.                      *)
THEOREM ScansCountTheSame == Spec => []ScansAgree
BY ScansOk, DecoderTypeCorrect, PTL

-----------------------------------------------------------------------------
(* The percentiles.                                                        *)

\* The samples in the order of their values: what std::sort makes of them.
SortedFrom(sorted, samples) ==
    /\ sorted \in Seq(Int) /\ Len(sorted) = Len(samples)
    /\ \A j, k \in 1 .. Len(samples) : j < k => sorted[j] <= sorted[k]
    /\ \E move \in Bijection(1 .. Len(samples), 1 .. Len(samples)) :
           \A k \in 1 .. Len(samples) : sorted[k] = samples[move[k]]

\* Samples at or below a value, and their number.
AtMost(samples, v) == {k \in 1 .. Len(samples) : samples[k] <= v}

\* Sorting changes no number.
LEMMA SortingKeepsCounts ==
    ASSUME NEW samples \in Seq(Int), NEW sorted, SortedFrom(sorted, samples), NEW v
    PROVE  /\ IsFiniteSet(AtMost(sorted, v))
           /\ Cardinality(AtMost(samples, v)) = Cardinality(AtMost(sorted, v))
<1> DEFINE n == Len(samples)
<1> DEFINE A == AtMost(sorted, v)
<1> DEFINE B == AtMost(samples, v)
<1>1. n \in Nat
  BY LenProperties
<1>2. PICK move \in Bijection(1 .. n, 1 .. n) : \A k \in 1 .. n : sorted[k] = samples[move[k]]
  BY DEF SortedFrom
<1>3. /\ A = {k \in 1 .. n : sorted[k] <= v} /\ B = {k \in 1 .. n : samples[k] <= v}
  BY DEF AtMost, SortedFrom
<1> HIDE DEF n, A, B
<1>4. /\ move \in [1 .. n -> 1 .. n]
      /\ \A a, b \in 1 .. n : move[a] = move[b] => a = b
      /\ \A k \in 1 .. n : \E j \in 1 .. n : move[j] = k
  BY DEF Bijection, Injection, Surjection, IsInjective
<1> DEFINE f == [k \in A |-> move[k]]
<1>5. f \in [A -> B]
  BY <1>2, <1>3, <1>4
<1>6. \A a, b \in A : f[a] = f[b] => a = b
  BY <1>3, <1>4
<1>7. \A k \in B : \E j \in A : f[j] = k
  <2> SUFFICES ASSUME NEW k \in B PROVE \E j \in A : f[j] = k
    OBVIOUS
  <2>1. PICK j \in 1 .. n : move[j] = k
    BY <1>3, <1>4
  <2>2. j \in A
    BY <1>2, <1>3, <2>1
  <2> QED
    BY <2>1, <2>2
<1> HIDE DEF f
<1>8. IsFiniteSet(A)
  <2>1. 1 \in Int /\ n \in Int
    BY <1>1
  <2>2. IsFiniteSet(1 .. n)
    BY <2>1, FS_Interval
  <2>3. A \in SUBSET (1 .. n)
    BY <1>3
  <2> QED
    BY <2>2, <2>3, FS_Subset
<1>9. f \in Bijection(A, B)
  BY <1>5, <1>6, <1>7, Fun_IsBij
<1>10. ExistsBijection(A, B)
  BY <1>9 DEF ExistsBijection
<1> QED
  BY <1>8, <1>10, FS_Bijection DEF A, B

\* The first m samples in the order of their values are at or below the m-th; those
\* below it are among the m - 1 before.
LEMMA RankOfPlace ==
    ASSUME NEW samples \in Seq(Int), NEW sorted, SortedFrom(sorted, samples),
           NEW m \in 1 .. Len(samples)
    PROVE  /\ Cardinality(AtMost(sorted, sorted[m])) \in m .. Len(samples)
           /\ \A v \in Int : v < sorted[m] =>
                  Cardinality(AtMost(sorted, v)) \in 0 .. m - 1
<1>1. /\ Len(samples) \in Nat /\ Len(sorted) = Len(samples)
      /\ \A k \in 1 .. Len(samples) : sorted[k] \in Int
      /\ \A j, k \in 1 .. Len(samples) : j < k => sorted[j] <= sorted[k]
  BY LenProperties, ElementOfSeq DEF SortedFrom
<1>2. \A a \in Nat : IsFiniteSet(1 .. a) /\ Cardinality(1 .. a) = a
  <2> SUFFICES ASSUME NEW a \in Nat PROVE IsFiniteSet(1 .. a) /\ Cardinality(1 .. a) = a
    OBVIOUS
  <2>1. 1 \in Int /\ a \in Int
    OBVIOUS
  <2>2. IsFiniteSet(1 .. a) /\ Cardinality(1 .. a) = IF 1 > a THEN 0 ELSE a - 1 + 1
    BY <2>1, FS_Interval
  <2> QED
    BY <2>2
<1>3. \A v : AtMost(sorted, v) \in SUBSET (1 .. Len(samples))
  BY <1>1 DEF AtMost
<1>4. 1 .. m \in SUBSET AtMost(sorted, sorted[m])
  BY <1>1 DEF AtMost
<1>5. \A v \in Int : v < sorted[m] => AtMost(sorted, v) \in SUBSET (1 .. m - 1)
  <2> SUFFICES ASSUME NEW v \in Int, v < sorted[m], NEW k \in AtMost(sorted, v)
               PROVE  k \in 1 .. m - 1
    OBVIOUS
  <2>1. k \in 1 .. Len(samples) /\ sorted[k] <= v /\ sorted[k] \in Int /\ sorted[m] \in Int
    BY <1>1 DEF AtMost
  <2>2. ~(m < k) /\ k # m
    BY <1>1, <2>1
  <2> QED
    BY <1>1, <2>1, <2>2
<1>6. ASSUME NEW a \in Nat, NEW b \in Nat, NEW T, T \in SUBSET (1 .. b), 1 .. a \in SUBSET T
      PROVE  Cardinality(T) \in a .. b
  <2>1. IsFiniteSet(T) /\ Cardinality(T) <= b
    <3>1. IsFiniteSet(1 .. b) /\ Cardinality(1 .. b) = b
      BY <1>2
    <3>2. IsFiniteSet(T) /\ Cardinality(T) <= Cardinality(1 .. b)
      BY <1>6, <3>1, FS_Subset
    <3> QED
      BY <3>1, <3>2
  <2>2. a <= Cardinality(T)
    <3>1. Cardinality(1 .. a) <= Cardinality(T)
      BY <1>6, <2>1, FS_Subset
    <3> QED
      BY <1>2, <3>1
  <2>3. Cardinality(T) \in Nat
    BY <2>1, FS_CardinalityType
  <2> QED
    BY <2>1, <2>2, <2>3
<1>7. Cardinality(AtMost(sorted, sorted[m])) \in m .. Len(samples)
  <2>1. m \in Nat
    BY <1>1
  <2> QED
    BY <1>1, <1>3, <1>4, <1>6, <2>1
<1>8. ASSUME NEW v \in Int, v < sorted[m]
      PROVE  Cardinality(AtMost(sorted, v)) \in 0 .. m - 1
  <2>1. AtMost(sorted, v) \in SUBSET (1 .. m - 1) /\ m - 1 \in Nat /\ 0 \in Nat
    BY <1>1, <1>5, <1>8
  <2>2. 1 .. 0 \in SUBSET AtMost(sorted, v)
    OBVIOUS
  <2> QED
    BY <1>6, <2>1, <2>2
<1> QED
  BY <1>7, <1>8

\* The place that is printed: den * idx <= num * count < den * (idx + 1).
LEMMA PlaceBounds ==
    ASSUME NEW count \in Nat \ {0}, NEW den \in Nat \ {0}, NEW num \in 0 .. den
    PROVE  /\ Place(count, num, den) \in 0 .. count
           /\ \A c \in Nat : c <= Place(count, num, den) => den * c <= num * count
           /\ \A c \in Nat : c > Place(count, num, den) => den * c > num * count
<1> DEFINE a == num * count
<1> DEFINE q == a \div den
<1> DEFINE r == a % den
<1>1. a \in Nat /\ a <= den * count
  <2>1. num \in Nat /\ count \in Nat /\ den \in Nat /\ num <= den
    OBVIOUS
  <2> QED
    BY <2>1, Z3
<1>2. Place(count, num, den) = q
  BY DEF Place
<1> HIDE DEF a
<1>3. a = den * q + r /\ q \in Nat /\ r \in 0 .. den - 1
  BY <1>1, DivMod, ModInRing
<1> HIDE DEF q, r
<1>4. ASSUME NEW c \in Nat, c <= q PROVE den * c <= a
  <2>1. den * c <= den * q
    BY <1>3, <1>4, Z3
  <2>2. den * c \in Nat /\ den * q \in Nat
    BY <1>3
  <2> QED
    BY <1>1, <1>3, <2>1, <2>2
<1>5. ASSUME NEW c \in Nat, c > q PROVE den * c > a
  <2>1. den * c >= den * q + den
    BY <1>3, <1>5, MultiplesApart
  <2>2. den * c \in Nat /\ den * q \in Nat
    BY <1>3
  <2> QED
    BY <1>1, <1>3, <2>1, <2>2
<1>6. q <= count
  <2> SUFFICES ASSUME count < q PROVE FALSE
    BY <1>3
  <2>1. den * q >= den * count + den
    BY <1>3, MultiplesApart
  <2>2. den * q \in Nat /\ den * count \in Nat
    BY <1>3
  <2> QED
    BY <1>1, <1>3, <2>1, <2>2
<1>7. (\A c \in Nat : c <= q => den * c <= a) /\ (\A c \in Nat : c > q => den * c > a)
  BY <1>4, <1>5
<1> QED
  BY <1>2, <1>3, <1>6, <1>7 DEF a

(* LatencyTracker::percentile and the percentiles of experiment 4: the     *)
(* place num * count / den of the sorted samples holds the least sample    *)
(* with more than num / den of all samples at or below it, for every       *)
(* number of samples and every percentile.                                 *)
THEOREM PlaceIsPercentile ==
    ASSUME NEW samples \in Seq(Int), samples # <<>>,
           NEW sorted, SortedFrom(sorted, samples),
           NEW den \in Nat \ {0}, NEW num \in 0 .. den
    PROVE  IsPercentile(percentile(sorted, num, den), samples, num, den)
<1> DEFINE n == Len(samples)
<1> DEFINE idx == Place(n, num, den)
<1> DEFINE m == IF idx < n THEN idx + 1 ELSE n
<1> DEFINE count(v) == Cardinality(AtMost(samples, v))
<1> DEFINE value == sorted[m]
<1>1. n \in Nat \ {0} /\ Len(sorted) = n /\ DOMAIN samples = 1 .. n
  BY EmptySeq, LenProperties DEF SortedFrom
<1> HIDE DEF n
<1>2. /\ idx \in 0 .. n
      /\ \A c \in Nat : c <= idx => den * c <= num * n
      /\ \A c \in Nat : c > idx => den * c > num * n
  BY <1>1, PlaceBounds
<1> HIDE DEF idx
<1>3. m \in 1 .. n /\ m - 1 <= idx /\ (m > idx \/ m = n)
  BY <1>1, <1>2
<1>4. percentile(sorted, num, den) = value
  <2>1. percentile(sorted, num, den) = sorted[Min({idx, n - 1}) + 1]
    BY <1>1 DEF percentile, idx
  <2>2. Min({idx, n - 1}) + 1 = m
    <3>1. CASE idx < n
      <4>1. Min({idx, n - 1}) = idx
        BY <1>1, <1>2, <3>1 DEF Min
      <4> QED
        BY <3>1, <4>1
    <3>2. CASE idx = n
      <4>1. Min({idx, n - 1}) = n - 1
        BY <1>1, <1>2, <3>2 DEF Min
      <4> QED
        BY <1>1, <3>2, <4>1
    <3> QED
      BY <1>1, <1>2, <3>1, <3>2
  <2> HIDE DEF m
  <2> QED
    BY <2>1, <2>2
<1> HIDE DEF m
<1>5. count(value) \in m .. n /\ \A v \in Int : v < value => count(v) \in 0 .. m - 1
  <2>1. \A v : count(v) = Cardinality(AtMost(sorted, v))
    BY SortingKeepsCounts
  <2>2. /\ Cardinality(AtMost(sorted, sorted[m])) \in m .. n
        /\ \A v \in Int : v < sorted[m] => Cardinality(AtMost(sorted, v)) \in 0 .. m - 1
    BY <1>3, RankOfPlace DEF n
  <2> HIDE DEF count
  <2> QED
    BY <2>1, <2>2
<1>6. value \in Range(samples) /\ Range(samples) \in SUBSET Int
  <2>1. PICK move \in Bijection(1 .. n, 1 .. n) : \A k \in 1 .. n : sorted[k] = samples[move[k]]
    BY DEF SortedFrom, n
  <2>2. move[m] \in 1 .. n /\ value = samples[move[m]]
    BY <1>3, <2>1 DEF Bijection, Injection
  <2>3. \A k \in 1 .. n : samples[k] \in Int
    BY ElementOfSeq DEF n
  <2> QED
    BY <1>1, <2>2, <2>3 DEF Range
<1>7. \A v : {k \in DOMAIN samples : samples[k] <= v} = AtMost(samples, v)
  BY <1>1 DEF AtMost, n
<1> HIDE DEF value
<1>8. den * count(value) > num * n \/ count(value) = n
  <2>1. count(value) \in Nat /\ count(value) >= m /\ count(value) <= n
    BY <1>1, <1>3, <1>5
  <2>2. CASE m > idx
    <3>1. count(value) > idx
      BY <1>1, <1>2, <1>3, <2>1, <2>2
    <3> HIDE DEF count
    <3> QED
      BY <1>2, <2>1, <3>1
  <2>3. CASE m = n
    BY <1>1, <2>1, <2>3
  <2> QED
    BY <1>3, <2>2, <2>3
<1>9. ASSUME NEW v \in Range(samples), v < value
      PROVE  ~(den * count(v) > num * n \/ count(v) = n)
  <2>1. count(v) \in 0 .. m - 1
    BY <1>5, <1>6, <1>9
  <2> HIDE DEF count
  <2>2. count(v) \in Nat /\ count(v) <= idx /\ count(v) # n
    BY <1>1, <1>2, <1>3, <2>1
  <2>3. den * count(v) <= num * n
    BY <1>2, <2>2
  <2>4. den * count(v) \in Int /\ num * n \in Int
    BY <1>1, <2>2
  <2> QED
    BY <2>2, <2>3, <2>4
<1>10. IsPercentile(value, samples, num, den)
  BY <1>6, <1>7, <1>8, <1>9 DEF IsPercentile, n
<1> QED
  BY <1>4, <1>10
=============================================================================
