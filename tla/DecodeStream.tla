---------------------------- MODULE DecodeStream ----------------------------
(***************************************************************************)
(* SimdDecoder::decode_stream of include/simd_decoder.h: walks a buffer of *)
(* frames, each a two-byte big-endian length and that many bytes of        *)
(* message, and decodes the messages whose type has a handler.             *)
(*                                                                         *)
(* The buffer is arbitrary: lengths and types are whatever its bytes say,  *)
(* and it may end in the middle of a frame. An action is one turn of the   *)
(* loop; the function shares nothing with other threads. What a handler    *)
(* makes of a message is kept as the bytes it copies fields from.          *)
(***************************************************************************)
EXTENDS Integers, Sequences

CONSTANTS Bytes,        \* the values of a byte: 0 .. 255 in the code
          Streams,      \* the buffers it may be given
          Limits,       \* the values of max_output
          Handled,      \* the bytes 'A', 'D', 'E' and 'U': types with a handler
          MinSize       \* [Handled -> Nat]: 36, 19, 31 and 35 in the code

Base == 256

ASSUME BytesAssumption == Bytes \subseteq 0 .. Base - 1 /\ Handled \subseteq Bytes
ASSUME StreamsAssumption == Streams \subseteq Seq(Bytes)
ASSUME LimitsAssumption == Limits \subseteq Nat
ASSUME MinSizeAssumption == MinSize \in [Handled -> Nat \ {0}]

VARIABLES
    stream, max_output,     \* the arguments
    offset,
    output,                 \* what has been decoded; count is its length
    furthest,               \* history: bytes from the start up to the last one read
    returned

vars == <<stream, max_output, offset, output, furthest, returned>>

Init ==
    /\ stream \in Streams
    /\ max_output \in Limits
    /\ offset = 0
    /\ output = <<>>
    /\ furthest = 0
    /\ returned = FALSE

-----------------------------------------------------------------------------
(* Places in the buffer are 0-based as in the code.                        *)

ByteAt(place) == stream[place + 1]

MsgLen(frame) == ByteAt(frame) * Base + ByteAt(frame + 1)

EndOf(frame) == frame + 2 + MsgLen(frame)

\* The two length bytes are not stepped over.
NextFrame_LengthOnly(frame) == frame + MsgLen(frame)

\* The type byte is stepped over once more.
NextFrame_TypeTwice(frame) == EndOf(frame) + 1

\* offset += 2, offset += msg_len
NextFrame(frame) == EndOf(frame)

Type(frame) == ByteAt(frame + 2)

\* handler && msg_len >= min_msg_size(msg_type), without the second half.
Decodable_AnyLength(frame) == Type(frame) \in Handled

\* handler && msg_len >= min_msg_size(msg_type)
Decodable(frame) ==
    /\ Type(frame) \in Handled
    /\ MsgLen(frame) >= MinSize[Type(frame)]

Later(a, b) == IF a > b THEN a ELSE b

Earlier(a, b) == IF a < b THEN a ELSE b

\* What the handler of the message's type reads, and so decodes. (What it would
\* read past the buffer has no value here; furthest tells.)
Decoded(frame) ==
    SubSeq(stream, frame + 3, Earlier(Len(stream), frame + 2 + MinSize[Type(frame)]))

-----------------------------------------------------------------------------
(* The loop.                                                               *)

\* Nobody counts.
Continues_NoLimit == ~returned /\ offset + 3 <= Len(stream)

\* offset + 3 <= stream_len && count < max_output
Continues ==
    /\ ~returned
    /\ offset + 3 <= Len(stream)
    /\ Len(output) < max_output

Decode ==
    /\ Continues
    /\ EndOf(offset) <= Len(stream)
    /\ Decodable(offset)
    /\ output' = Append(output, Decoded(offset))
    /\ furthest' = Later(furthest, offset + 2 + MinSize[Type(offset)])
    /\ offset' = NextFrame(offset)
    /\ UNCHANGED <<stream, max_output, returned>>

\* A type without a handler, or a message too short for its type. The type
\* byte is read even of an empty message, where it belongs to the next frame.
Skip ==
    /\ Continues
    /\ EndOf(offset) <= Len(stream)
    /\ ~Decodable(offset)
    /\ furthest' = Later(furthest, offset + 3)
    /\ offset' = NextFrame(offset)
    /\ UNCHANGED <<stream, max_output, output, returned>>

\* The message is cut off by the end of the buffer.
Break ==
    /\ Continues
    /\ EndOf(offset) > Len(stream)
    /\ furthest' = Later(furthest, offset + 2)
    /\ offset' = offset + 2
    /\ returned' = TRUE
    /\ UNCHANGED <<stream, max_output, output>>

\* The loop test fails.
Exit ==
    /\ ~returned
    /\ ~Continues
    /\ returned' = TRUE
    /\ UNCHANGED <<stream, max_output, offset, output, furthest>>

\* The caller has its count.
Returned == returned /\ UNCHANGED vars

Next == Decode \/ Skip \/ Break \/ Exit \/ Returned

Spec == Init /\ [][Next]_vars

\* A sequential function runs on.
FairSpec == Spec /\ WF_vars(Next)

-----------------------------------------------------------------------------
(* Properties.                                                             *)

TypeOK ==
    /\ stream \in Streams
    /\ max_output \in Limits
    /\ offset \in 0 .. Len(stream)
    /\ output \in Seq(Seq(Bytes))
    /\ Len(output) <= max_output
    /\ furthest \in Nat
    /\ returned \in BOOLEAN

(* Whatever lengths the bytes claim, nothing past the buffer is read: the  *)
(* loop test covers the type byte, the break the rest of the message, and  *)
(* the minimum size the fields of the handler.                             *)
ReadsInBounds == furthest <= Len(stream)

\* Where frames begin, following the lengths from the start of the buffer.
WholeFrame(frame) == frame + 2 <= Len(stream) /\ EndOf(frame) <= Len(stream)

FrameStarts ==
    LET isStart[f \in 0 .. Len(stream)] ==
            \/ f = 0
            \/ \E g \in 0 .. f - 1 : isStart[g] /\ WholeFrame(g) /\ EndOf(g) = f
    IN  {f \in 0 .. Len(stream) : isStart[f]}

\* The frames that carry a message to decode.
Messages ==
    {f \in FrameStarts : WholeFrame(f) /\ MsgLen(f) > 0 /\ Decodable(f)}

(* The result is the first max_output decodable messages among the whole   *)
(* frames, in the order of the buffer: a frame that is unknown, too short, *)
(* empty or cut off neither hides a later one nor shifts it.               *)
DecodesWholeFrames ==
    returned =>
        \E first \in SUBSET Messages :
            /\ \A f \in first, g \in Messages \ first : f < g
            /\ first = Messages \/ Len(output) = max_output
            /\ \E place \in [1 .. Len(output) -> first] :
                   /\ \A f \in first : \E k \in 1 .. Len(output) : place[k] = f
                   /\ \A j, k \in 1 .. Len(output) : j < k => place[j] < place[k]
                   /\ \A k \in 1 .. Len(output) : output[k] = Decoded(place[k])

(* The walk ends on every buffer, frames of length 0 included.             *)
Termination == <>returned

=============================================================================
