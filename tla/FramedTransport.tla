---------------------------- MODULE FramedTransport ----------------------------
(***************************************************************************)
(* One direction of a connection: send_frame and recv_frame of TcpSocket   *)
(* (src/src/transport.cpp) with encode_frame, decode_frame_header and      *)
(* decode_frame (src/src/protocol.cpp).  A call of ::send or ::recv moves  *)
(* as many bytes as it likes; a byte may change on the way; the sender may *)
(* die between two pieces of a frame.                                      *)
(***************************************************************************)
EXTENDS Bytes

CONSTANTS
  Outboxes,    \* what the sender may have to send: sequences of frames
  Versions,    \* the protocol versions the sender may have been built for
  MaxPayload,  \* FrameLimits of the receiver
  Pieces,      \* bound: the most bytes one call of ::send or ::recv moves
  Changes      \* bound: the bytes a byte on the way may become

\* The flags are not looked at; they stay four bytes.
TwoBytes == {n \in Nat : n < 65536}
FourBytes == {d \in Seq(Byte) : Len(d) = 4}
Frame == [kind : TwoBytes, flags : FourBytes, payload : Seq(Byte)]

ASSUME TransportAssumption ==
  /\ Outboxes \subseteq Seq(Frame) /\ Versions \subseteq TwoBytes
  /\ MaxPayload \in Nat /\ MaxPayload < Beyond /\ Pieces \subseteq Nat \ {0} /\ Changes \subseteq Byte

VARIABLES
  outbox,    \* frames not yet handed to send_frame
  version,   \* kProtocolVersion of the sender
  sent,      \* frames send_frame has taken
  sending,   \* what send_all has still to send of the last of them
  alive,     \* the sender's end is open
  wire,      \* bytes on their way
  changed,   \* a byte has been changed on the way
  buffer,    \* what recv_frame has of the frame it reads
  received,  \* frames recv_frame has returned
  verdict    \* "none", or the error it has returned; the reader then gives up

vars == <<outbox, version, sent, sending, alive, wire, changed, buffer, received, verdict>>
sender == <<outbox, version, sent, sending, alive>>
receiver == <<buffer, received, verdict>>

Init ==
  /\ outbox \in Outboxes /\ version \in Versions
  /\ sent = <<>> /\ sending = <<>> /\ alive = TRUE
  /\ wire = <<>> /\ changed = FALSE
  /\ buffer = <<>> /\ received = <<>> /\ verdict = "none"

-----------------------------------------------------------------------------
(* Frames as bytes *)

FrameMagic == <<84, 71, 79, 86>>
ProtocolVersion == 1
FrameHeaderSize == 20
FrameOverhead == 24
KnownKinds == 1..22

CoveredHeader(f, v) ==
  FrameMagic \o Digits(v, 2) \o Digits(f.kind, 2) \o f.flags \o Digits(Len(f.payload), 4)

EncodedFrame(f, v) ==
  CoveredHeader(f, v) \o Checksum(CoveredHeader(f, v)) \o f.payload \o Checksum(f.payload)

KindIn(b) == Size(SubSeq(b, 7, 8))
LengthIn(b) == Size(SubSeq(b, 13, 16))
PayloadIn(b) == SubSeq(b, FrameHeaderSize + 1, FrameHeaderSize + LengthIn(b))

\* Mutation: the header's checksum is not compared.
UncheckedVerdict(b) ==
  IF SubSeq(b, 1, 4) # FrameMagic THEN "FRAME_CORRUPT"
  ELSE IF Size(SubSeq(b, 5, 6)) # ProtocolVersion THEN "PROTOCOL_UNSUPPORTED"
  ELSE IF KindIn(b) \notin KnownKinds THEN "FRAME_CORRUPT"
  ELSE IF LengthIn(b) > MaxPayload THEN "FRAME_TOO_LARGE"
  ELSE "none"

\* Mutation: the version is looked at before the checksum.
EagerVerdict(b) ==
  IF SubSeq(b, 1, 4) # FrameMagic THEN "FRAME_CORRUPT"
  ELSE IF Size(SubSeq(b, 5, 6)) # ProtocolVersion THEN "PROTOCOL_UNSUPPORTED"
  ELSE IF Checksum(SubSeq(b, 1, 16)) # SubSeq(b, 17, 20) \/ KindIn(b) \notin KnownKinds THEN "FRAME_CORRUPT"
  ELSE IF LengthIn(b) > MaxPayload THEN "FRAME_TOO_LARGE"
  ELSE "none"

\* decode_frame_header
HeaderVerdict(b) ==
  IF SubSeq(b, 1, 4) # FrameMagic \/ Checksum(SubSeq(b, 1, 16)) # SubSeq(b, 17, 20) THEN "FRAME_CORRUPT"
  ELSE IF Size(SubSeq(b, 5, 6)) # ProtocolVersion THEN "PROTOCOL_UNSUPPORTED"
  ELSE IF KindIn(b) \notin KnownKinds THEN "FRAME_CORRUPT"
  ELSE IF LengthIn(b) > MaxPayload THEN "FRAME_TOO_LARGE"
  ELSE "none"

\* Mutation: the payload's checksum is not compared.
UncheckedPayload(b) == HeaderVerdict(b)

\* decode_frame, on as many bytes as the header declares
FrameVerdict(b) ==
  IF HeaderVerdict(b) # "none" THEN HeaderVerdict(b)
  ELSE IF Checksum(PayloadIn(b)) # SubSeq(b, Len(b) - 3, Len(b)) THEN "FRAME_CORRUPT"
  ELSE "none"

FrameIn(b) == [kind |-> KindIn(b), flags |-> SubSeq(b, 9, 12), payload |-> PayloadIn(b)]

-----------------------------------------------------------------------------
(* The sender *)

Least(a, b) == IF a <= b THEN a ELSE b

\* What encode_frame takes: a known kind, and a length that four bytes hold.
Encodable(f) == f.kind \in KnownKinds /\ Fits(Len(f.payload))

\* send_frame: what cannot be encoded is refused, and nothing is sent.
BeginFrame ==
  /\ alive /\ sending = <<>> /\ outbox # <<>>
  /\ outbox' = Tail(outbox)
  /\ IF Encodable(Head(outbox))
     THEN sent' = Append(sent, Head(outbox)) /\ sending' = EncodedFrame(Head(outbox), version)
     ELSE UNCHANGED <<sent, sending>>
  /\ UNCHANGED <<version, alive, wire, changed, receiver>>

\* One round of send_all: ::send may take less than it was given.
SendPiece(piece) ==
  LET n == Least(piece, Len(sending))
  IN /\ alive /\ sending # <<>>
     /\ wire' = wire \o SubSeq(sending, 1, n)
     /\ sending' = SubSeq(sending, n + 1, Len(sending))
     /\ UNCHANGED <<outbox, version, sent, alive, changed, receiver>>

\* The socket is closed, or the process dies, wherever it is.
SenderLeaves ==
  /\ alive /\ alive' = FALSE
  /\ UNCHANGED <<outbox, version, sent, sending, wire, changed, receiver>>

-----------------------------------------------------------------------------
(* The receiver: recv_frame *)

\* What recv_frame reads up to next: the header, then the frame.
Target == IF Len(buffer) < FrameHeaderSize THEN FrameHeaderSize ELSE FrameOverhead + LengthIn(buffer)

\* The header, or the frame, is complete in b.
Judge(b) ==
  IF Len(b) = FrameHeaderSize
  THEN /\ buffer' = b /\ verdict' = HeaderVerdict(b)
       /\ UNCHANGED received
  ELSE /\ buffer' = <<>> /\ verdict' = FrameVerdict(b)
       /\ received' = IF FrameVerdict(b) = "none" THEN Append(received, FrameIn(b)) ELSE received

RecvPiece(piece) ==
  LET n == Least(piece, Least(Target - Len(buffer), Len(wire)))
      b == buffer \o SubSeq(wire, 1, n)
  IN /\ verdict = "none" /\ wire # <<>>
     /\ wire' = SubSeq(wire, n + 1, Len(wire))
     /\ IF Len(b) >= Target THEN Judge(b) ELSE buffer' = b /\ UNCHANGED <<received, verdict>>
     /\ UNCHANGED <<sender, changed>>

\* ::recv returns nothing more.
ClosedVerdict == IF Len(buffer) < FrameHeaderSize THEN "TRANSPORT_CLOSED" ELSE "FRAME_TRUNCATED"

RecvClosed ==
  /\ verdict = "none" /\ wire = <<>> /\ ~alive
  /\ verdict' = ClosedVerdict
  /\ UNCHANGED <<sender, wire, changed, buffer, received>>

-----------------------------------------------------------------------------
(* The network *)

ChangeByte(i, v) ==
  /\ ~changed /\ wire[i] # v
  /\ wire' = [wire EXCEPT ![i] = v] /\ changed' = TRUE
  /\ UNCHANGED <<sender, receiver>>

SenderGoesOn == BeginFrame \/ \E p \in Pieces : SendPiece(p)
ReceiverGoesOn == RecvClosed \/ \E p \in Pieces : RecvPiece(p)

Next ==
  \/ SenderGoesOn
  \/ SenderLeaves
  \/ ReceiverGoesOn
  \/ ~changed /\ \E i \in DOMAIN wire, v \in Changes : ChangeByte(i, v)

Spec == Init /\ [][Next]_vars

\* The threads of both processes run on; nobody has to leave, nothing has to be
\* damaged.
FairSpec == Spec /\ WF_vars(SenderGoesOn) /\ WF_vars(ReceiverGoesOn)

-----------------------------------------------------------------------------
(* Properties *)

\* Partial sends and receives, damage and death do not show in what recv_frame
\* returns: whole frames, as send_frame took them, in their order.
Channel == INSTANCE MessageChannel WITH
  Frames <- UNION {{o[i] : i \in DOMAIN o} : o \in Outboxes}, failed <- verdict # "none"

FramesArriveAsSent == Channel!Spec

Awaited == sent[Len(received) + 1]

\* recv_frame gives the right reason: damage only when a byte was changed; too
\* large, or of another version, only when that is what was sent and nothing was
\* changed; truncated only when the sender left a frame whose header is here
\* unfinished; closed only when it left before the header was whole, so that a
\* sender that died in the first twenty bytes of a frame passes for one that
\* left in peace.
FailsForTheReason ==
  CASE verdict = "none" -> TRUE
    [] verdict = "FRAME_CORRUPT" -> changed
    [] verdict = "FRAME_TOO_LARGE" -> Len(Awaited.payload) > MaxPayload
    [] verdict = "PROTOCOL_UNSUPPORTED" -> version # ProtocolVersion
    [] verdict = "FRAME_TRUNCATED" -> ~alive /\ sending # <<>> /\ Len(received) < Len(sent)
    [] verdict = "TRANSPORT_CLOSED" ->
         ~alive /\ (Len(received) < Len(sent) =>
                      Len(received) = Len(sent) - 1 /\ Len(sending) > FrameOverhead - FrameHeaderSize + Len(Awaited.payload))

\* The receiver is never left waiting for bytes that nobody will send: whatever
\* is changed on the way, every frame that is sent is returned or the error is.
NothingIsAwaitedInVain ==
  <>[](verdict # "none" \/ (outbox = <<>> /\ received = sent))
================================================================================
