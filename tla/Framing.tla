------------------------------- MODULE Framing -------------------------------
(***************************************************************************)
(* One direction of a connection (src/src/net.cpp): a process writes whole *)
(* frames with write_frame, the sockets carry bytes in pieces of any size, *)
(* and the loop at the other end reads frames with read_frame and decodes  *)
(* them.  A socket has one writer, and a call of write_frame returns before *)
(* the next is made.  The connection may fail at any byte.                 *)
(***************************************************************************)
EXTENDS Wire

CONSTANTS
  Messages,   \* messages the writer may be asked to send
  MaxFrame,   \* kMaxFrame
  MaxSends,   \* bound: frames written in one behaviour
  Window      \* bound: bytes the sockets hold between the two processes

ASSUME FramingAssumption ==
  /\ MaxFrame \in Nat \ {0} /\ MaxFrame < Place[Width["u32"]]
  /\ MaxSends \in Nat /\ Window \in Nat \ {0}
  /\ \A m \in Messages : Encodable(m)

VARIABLES
  asked,    \* messages write_frame began to write
  out,      \* what write_all still has to send of the frame being written
  stream,   \* bytes sent and not received
  line,     \* "up", "closed" at the end of a frame, "cut" within one, "broken"
  reader,   \* read_frame: its phase, the bytes it wants and the ones it has
  got       \* messages the reader's loop was handed

vars == <<asked, out, stream, line, reader, got>>

Header == Width["u32"]

Idle == [phase |-> "header", need |-> Header, buf |-> << >>]

Init ==
  /\ asked = << >> /\ out = << >> /\ stream = << >> /\ line = "up"
  /\ reader = Idle /\ got = << >>

-----------------------------------------------------------------------------
(* The writer.                                                             *)

\* Slip: the size is not compared with the limit.
FitsAlways(frame) == TRUE

Fits(frame) == Len(frame) <= MaxFrame

Framed(frame) == Digits(Len(frame), Header) \o frame

\* write_frame begins.  A frame that is too large is not written at all; the
\* callers do not look at the result.
WriteFrame(m) ==
  /\ line = "up" /\ out = << >>
  /\ Len(asked) < MaxSends
  /\ Fits(FrameOf(m))
  /\ asked' = Append(asked, m)
  /\ out' = Framed(FrameOf(m))
  /\ UNCHANGED <<stream, line, reader, got>>

\* Slip: what one send took is forgotten when the rest is sent.
RestUnmoved(k) == out

Rest(k) == SubSeq(out, k + 1, Len(out))

\* One send of write_all takes k bytes.
Send(k) ==
  /\ line = "up"
  /\ k \in 1..Len(out) /\ Len(stream) + k <= Window
  /\ stream' = stream \o SubSeq(out, 1, k)
  /\ out' = Rest(k)
  /\ UNCHANGED <<asked, line, reader, got>>

\* send fails: write_all and write_frame give up.  On POSIX, where send is called
\* without MSG_NOSIGNAL and SIGPIPE is not handled, a send to a closed peer ends
\* the process instead; the bytes are given up either way.
SendFails ==
  /\ line = "broken" /\ out # << >>
  /\ out' = << >>
  /\ UNCHANGED <<asked, stream, line, reader, got>>

\* The writer closes its socket or its process ends; what was sent arrives.
Close ==
  /\ line = "up"
  /\ line' = IF out = << >> THEN "closed" ELSE "cut"
  /\ out' = << >>
  /\ UNCHANGED <<asked, stream, reader, got>>

\* The connection is reset, or the reader's process ends.
Break ==
  /\ line # "broken"
  /\ line' = "broken" /\ stream' = << >>
  /\ UNCHANGED <<asked, out, reader, got>>

-----------------------------------------------------------------------------
(* The reader.                                                             *)

Reading == reader.phase \in {"header", "payload"}

Refused == [phase |-> "refused", need |-> 0, buf |-> << >>]

\* Slip: what one recv returned is taken for all that was asked for.
CompleteAtOnce(buf) == TRUE

\* read_exact goes on until it has everything.
Complete(buf) == Len(buf) = reader.need

\* The length is read: a frame over the limit is refused, an empty one has no
\* kind and is refused by FrameCodec::decode.
HeaderRead(buf) ==
  LET len == Number(buf) IN
  /\ reader' = IF len > MaxFrame \/ len = 0 THEN Refused
               ELSE [phase |-> "payload", need |-> len, buf |-> << >>]
  /\ UNCHANGED got

\* The frame is read: it is decoded and handled, or refused: the server's loops
\* end, the worker's skips the message.  (A kind the loop does not know would be
\* skipped; no writer sends one.)
PayloadRead(buf) ==
  LET kinds == {kind \in FrameKinds(buf) : Decodes(kind, FrameBody(buf))} IN
  /\ reader' = IF kinds = {} THEN Refused ELSE Idle
  /\ got' = got \o SetToSeq({[kind |-> kind, body |-> Decode(kind, FrameBody(buf))] : kind \in kinds})

\* One recv of read_exact returns k bytes.
Recv(k) ==
  LET buf == reader.buf \o SubSeq(stream, 1, k) IN
  /\ Reading
  /\ k \in 1..Len(stream) /\ Len(buf) <= reader.need
  /\ stream' = SubSeq(stream, k + 1, Len(stream))
  /\ \/ /\ ~ Complete(buf)
        /\ reader' = [reader EXCEPT !.buf = buf]
        /\ UNCHANGED got
     \/ Complete(buf) /\ reader.phase = "header" /\ HeaderRead(buf)
     \/ Complete(buf) /\ reader.phase = "payload" /\ PayloadRead(buf)
  /\ UNCHANGED <<asked, out, line>>

\* recv returns zero at the end of the stream and fails on a broken one: the
\* frame begun is dropped and the loop ends.
RecvEnds ==
  /\ Reading
  /\ line # "up" /\ stream = << >>
  /\ reader' = [phase |-> "ended", need |-> 0, buf |-> << >>]
  /\ UNCHANGED <<asked, out, stream, line, got>>

-----------------------------------------------------------------------------
Over == line # "up" /\ out = << >> /\ ~ Reading /\ UNCHANGED vars

Next ==
  \/ \E m \in Messages : WriteFrame(m)
  \/ \E k \in 1..Window : Send(k) \/ Recv(k)
  \/ SendFails \/ Close \/ Break \/ RecvEnds \/ Over

\* A blocking send or recv returns when the socket has room or bytes.
Fairness == WF_vars(\E k \in 1..Window : Send(k)) /\ WF_vars(\E k \in 1..Window : Recv(k))

Spec == Init /\ [][Next]_vars /\ Fairness

-----------------------------------------------------------------------------
\* Every variable has its type, and what was handed over is a message.
TypeOK ==
  /\ asked \in Seq(Messages) /\ out \in Seq(Byte) /\ stream \in Seq(Byte)
  /\ line \in {"up", "closed", "cut", "broken"}
  /\ reader \in [phase : {"header", "payload", "refused", "ended"},
                 need : 0..MaxFrame, buf : Seq(Byte)]
  /\ got \in Seq(Messages)

\* The connection failed before the writer was done with the last frame or the
\* reader with the last byte.
Failed == line \in {"cut", "broken"}

\* Bytes read_frame has taken of the frame it is in.
Held ==
  IF reader.phase = "payload" THEN Digits(reader.need, Header) \o reader.buf ELSE reader.buf

Bytes(messages) == FlattenSeq([i \in DOMAIN messages |-> Framed(FrameOf(messages[i]))])

\* While the connection stands, what was asked for is what was handed over, what
\* read_frame holds, what is under way and what write_all has left, byte by byte:
\* neither end ever loses its place in the stream.
BytesConserved == ~ Failed => Bytes(asked) = Bytes(got) \o Held \o stream \o out

\* read_frame and the decoders never refuse what write_frame sent.
NeverRefused == reader.phase # "refused"

\* The message written last does not decode when it is cut short, wherever it is
\* cut: every decoder checks each of its reads against the end of the buffer.
CutIsMalformed ==
  out # << >> =>
    LET whole == Payload(Last(asked))
    IN  \A n \in 0..(Len(whole) - 1) : ~ Decodes(Last(asked).kind, SubSeq(whole, 1, n))

Channel == INSTANCE FrameChannel WITH sent <- asked, got <- got, failed <- Failed

\* The connection keeps the promise of FrameChannel: the reader's loop is handed
\* the messages write_frame accepted, whole and in order, and all of them unless
\* the connection fails.
ChannelPromise == Channel!Spec
=============================================================================
