------------------------------ MODULE Framing ------------------------------
(***************************************************************************)
(* Frames on a byte stream (src/transport/frame.cpp): FrameCodec at the    *)
(* sender, and FrameDecoder in the loop that reads the stream              *)
(* (connection_loop, run_publisher).                                       *)
(*                                                                         *)
(* A byte is a pair <<k, j>>: the j-th byte of the k-th frame sent. A      *)
(* checksum is abstracted to what it is for: bytes that are not, in order, *)
(* the header (the payload) of one frame fail it.                          *)
(***************************************************************************)
EXTENDS Naturals, Sequences

CONSTANTS
  HeaderSize,  \* kFrameHeaderSize
  MaxPayload,  \* limits::kMaxFramePayload, FrameDecoderOptions::max_payload
  MaxBuffered, \* FrameDecoderOptions::max_buffered
  MaxRead,     \* kReadBufferBytes
  InFlight,    \* frames a sender has unanswered; run_publisher awaits each answer
  MaxFrames    \* bound: frames sent

\* What can be wrong with a frame that does not come from encode: magic, format
\* version or header checksum; the type; a reserved flag; the payload checksum;
\* fewer bytes than declared.
Defect == {"none", "header", "type", "flags", "payload", "short"}

\* len is the declared length of the payload.
Frame == [len : 0..MaxPayload + 1, defect : Defect]

ASSUME FramingAssumption ==
  /\ {HeaderSize, MaxRead, InFlight} \subseteq Nat \ {0}
  /\ {MaxPayload, MaxBuffered, MaxFrames} \subseteq Nat
  /\ MaxBuffered >= HeaderSize + MaxPayload

VARIABLES
  sent,      \* the frames sent
  wire,      \* bytes on their way
  buffer,    \* buffer_
  consumed,  \* consumed_
  failed,    \* failed_
  delivered, \* the frames next() has returned
  reader     \* the loop reads, drains the decoder, or has ended

vars == <<sent, wire, buffer, consumed, failed, delivered, reader>>

Byte == (1..MaxFrames) \X (1..HeaderSize + MaxPayload + 1)

TypeOK ==
  /\ sent \in Seq(Frame) /\ Len(sent) <= MaxFrames
  /\ wire \in Seq(Byte) /\ buffer \in Seq(Byte)
  /\ consumed \in 0..Len(buffer) /\ Len(buffer) <= MaxBuffered
  /\ failed \in BOOLEAN
  /\ delivered \in Seq(Frame)
  /\ reader \in {"reading", "draining", "closed"}

Init ==
  /\ sent = <<>> /\ wire = <<>>
  /\ buffer = <<>> /\ consumed = 0 /\ failed = FALSE
  /\ delivered = <<>> /\ reader = "reading"

-----------------------------------------------------------------------------
(* The sender *)

\* Bytes first to last of frame k.
Bytes(k, first, last) == [n \in 1..(last + 1 - first) |-> <<k, first + n - 1>>]

Written(f) == HeaderSize + (IF f.defect = "short" THEN f.len - 1 ELSE f.len)

\* FrameCodec::encode refuses the others.
Encodable(f) == f.defect = "none" /\ f.len <= MaxPayload

Write(f) ==
  /\ Len(sent) < MaxFrames
  /\ sent' = Append(sent, f)
  /\ wire' = wire \o Bytes(Len(sent) + 1, 1, Written(f))
  /\ UNCHANGED <<buffer, consumed, failed, delivered, reader>>

\* A publisher or the coordinator sends a frame.
Encode(f) ==
  /\ Encodable(f)
  /\ Len(sent) < Len(delivered) + InFlight
  /\ Write(f)

\* Something else writes to the stream, and waits for nobody.
Forge(f) ==
  /\ ~Encodable(f)
  /\ f.defect = "short" => f.len > 0
  /\ Write(f)

\* After that, frames may follow that nobody waits for.
Follow(f) ==
  /\ Encodable(f)
  /\ \E k \in 1..Len(sent) : ~Encodable(sent[k])
  /\ Write(f)

-----------------------------------------------------------------------------
(* FrameDecoder *)

\* Mutant: what was consumed is never given back.
NeverCompacts == FALSE

Compacts == consumed > 0 /\ consumed = Len(buffer)

\* Mutant: consumed bytes do not count.
OverflowsUnread(kept, n) == Len(kept) - consumed + n > MaxBuffered

Overflows(kept, n) == Len(kept) + n > MaxBuffered

\* read() returns the first n bytes, and push takes them, or fails.
Push(n) ==
  /\ reader = "reading"
  /\ n \in 1..Len(wire)
  /\ wire' = SubSeq(wire, n + 1, Len(wire))
  /\ LET kept == IF Compacts THEN <<>> ELSE buffer
     IN  IF Overflows(kept, n)
         THEN /\ failed' = TRUE /\ reader' = "closed"
              /\ buffer' = kept
         ELSE /\ buffer' = kept \o SubSeq(wire, 1, n)
              /\ reader' = "draining"
              /\ UNCHANGED failed
  /\ consumed' = IF Compacts THEN 0 ELSE consumed
  /\ UNCHANGED <<sent, delivered>>

Available == Len(buffer) - consumed

\* The frame whose first byte is the next one.
At == sent[buffer[consumed + 1][1]]

\* The next n bytes are those of one frame, from its first on.
Aligned(n) == SubSeq(buffer, consumed + 1, consumed + n) = Bytes(buffer[consumed + 1][1], 1, n)

\* decode_frame_header and the checks of next() on it: type and length after
\* the checksum.
HeaderSound ==
  /\ Aligned(HeaderSize)
  /\ At.defect \notin {"header", "type"}
  /\ At.len <= MaxPayload

\* Mutant: one byte more than the frame has.
OneByteMore == HeaderSize + At.len + 1

Total == HeaderSize + At.len

\* FrameCodec::decode: flags and the payload's checksum.
BodySound == Aligned(Total) /\ At.defect \notin {"flags", "payload"}

\* next(): a frame is needed in full; one that does not pass ends the stream.
Outcome ==
  IF Available < HeaderSize THEN "nothing"
  ELSE IF ~HeaderSound THEN "error"
  ELSE IF Available < Total THEN "nothing"
  ELSE IF ~BodySound THEN "error"
  ELSE "frame"

DecoderNothing ==
  /\ reader = "draining" /\ Outcome = "nothing"
  /\ reader' = "reading"
  /\ UNCHANGED <<sent, wire, buffer, consumed, failed, delivered>>

DecoderFrame ==
  /\ reader = "draining" /\ Outcome = "frame"
  /\ delivered' = Append(delivered, At)
  /\ consumed' = consumed + Total
  /\ UNCHANGED <<sent, wire, buffer, failed, reader>>

\* Mutant: the decoder skips the header and looks for the next frame.
SkipsHeader ==
  /\ consumed' = consumed + HeaderSize
  /\ UNCHANGED <<failed, reader>>

FailsForGood ==
  /\ failed' = TRUE /\ reader' = "closed"
  /\ UNCHANGED consumed

DecoderError ==
  /\ reader = "draining" /\ Outcome = "error"
  /\ FailsForGood
  /\ UNCHANGED <<sent, wire, buffer, delivered>>

-----------------------------------------------------------------------------

Reading ==
  \/ \E n \in 1..MaxRead : Push(n)
  \/ DecoderNothing \/ DecoderFrame \/ DecoderError

\* The stream has failed, or there is nothing to send or to read.
Over ==
  /\ reader = "closed" \/ (reader = "reading" /\ wire = <<>>)
  /\ Len(sent) = MaxFrames
  /\ UNCHANGED vars

Next ==
  \/ \E f \in Frame : Encode(f) \/ Forge(f) \/ Follow(f)
  \/ Reading
  \/ Over

Spec == Init /\ [][Next]_vars

\* The reader goes on; nobody has to send.
FairSpec == Spec /\ WF_vars(Reading)

-----------------------------------------------------------------------------
(* Properties *)

\* Whatever the chunks in which bytes arrive, the decoder returns the frames that
\* were sent, in their order, each once and unchanged, and only sound ones: it
\* stops at the first defect and never finds its way into the stream again.
DeliveredInOrder ==
  /\ Len(delivered) <= Len(sent)
  /\ \A k \in 1..Len(delivered) : delivered[k] = sent[k] /\ Encodable(sent[k])

\* "A malformed header or a length beyond the bound fails the decoder permanently"
\* (frame.hpp), and nothing else does: a stream whose frames are sound is not
\* closed, however they are cut, at the limit of the buffer too.
FailsOnDefectOnly ==
  failed => \E k \in Len(delivered) + 1..Len(sent) : ~Encodable(sent[k])

\* Every frame of a sound stream is delivered, and its sender answered: the decoder
\* never waits for bytes that nobody sends.
SoundFramesArrive ==
  \A n \in 1..MaxFrames :
    (Len(sent) >= n /\ \A k \in 1..Len(sent) : Encodable(sent[k]))
      ~> (Len(delivered) >= n \/ \E k \in 1..Len(sent) : ~Encodable(sent[k]))
=============================================================================
