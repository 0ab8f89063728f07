------------------------------ MODULE GrpcStream ------------------------------
(***************************************************************************)
(* The gRPC layer: GRPCStream.sendMessage, which puts a prefix before every *)
(* message, and the GRPCMessageProcessor behind setOnResponseMessage, which *)
(* cuts the response body into messages again.  Kotlin and Swift have a     *)
(* processor each; both are given the same chunks here.                     *)
(*                                                                          *)
(* The peer frames its messages as sendMessage does, and may compress them. *)
(* Envoy delivers the bytes in order, in chunks cut anywhere.  In the other *)
(* direction a message is a ByteBuffer, of which EnvoyHTTPStream.sendData   *)
(* sends the whole backing array.                                           *)
(***************************************************************************)
EXTENDS Integers, SequencesExt

CONSTANTS
  Base,         \* the values of a byte: 256
  LengthBytes,  \* bytes that hold the length of a message: 4
  MaxLength,    \* bound: bytes of a message
  MaxMessages,  \* bound: messages on the stream, in both directions
  MayCompress,  \* may the peer set the compression flag?
  MaySlice      \* may a message be a part of its ByteBuffer?

PrefixLength == 1 + LengthBytes

\* n without its last i digits.
Quotients(n) ==
  LET quotient[i \in 0 .. LengthBytes] == IF i = 0 THEN n ELSE quotient[i - 1] \div Base
  IN quotient

\* A message's length fits in a signed integer of LengthBytes bytes.
ASSUME GrpcAssumption ==
  /\ Base \in Nat \ {0, 1} /\ LengthBytes \in Nat \ {0}
  /\ MaxLength \in Nat /\ MaxMessages \in Nat
  /\ MayCompress \in BOOLEAN /\ MaySlice \in BOOLEAN
  /\ Quotients(MaxLength)[LengthBytes - 1] < Base \div 2

VARIABLES
  sent,      \* messages the peer has sent, with their compression flag
  wire,      \* bytes that have not arrived yet
  arrived,   \* how many have
  kotlin,    \* the variables captured by the closure of setOnResponseMessage,
  swift,     \*   and the messages passed to the application
  requested, \* messages the application has sent
  body       \* bytes of the request body

grpcVars == <<sent, wire, arrived, kotlin, swift, requested, body>>

Byte == 0 .. (Base - 1)
Payloads == UNION {[1 .. n -> Byte] : n \in 0 .. MaxLength}
Messages == [payload : Payloads, flag : IF MayCompress THEN {0, 1} ELSE {0}]

\* What a processor keeps: its state, the length it has read, the buffer, and
\* what it has passed to onMessage.
Processors ==
  [state : {"CompressionFlag", "MessageLength", "Message", "Crashed"},
   length : Int, buffer : Seq(Byte), out : Seq(Seq(Byte))]

NewProcessor == [state |-> "CompressionFlag", length |-> 0, buffer |-> <<>>, out |-> <<>>]

GrpcInit ==
  /\ sent = <<>>
  /\ wire = <<>>
  /\ arrived = 0
  /\ kotlin = NewProcessor
  /\ swift = NewProcessor
  /\ requested = <<>>
  /\ body = <<>>
-----------------------------------------------------------------------------
(* Framing *)

\* Mutant: the least significant byte comes first.
LittleEndian(n) == [i \in 1 .. LengthBytes |-> Quotients(n)[i - 1] % Base]

\* n in LengthBytes bytes, the most significant first.
BigEndian(n) == [i \in 1 .. LengthBytes |-> Quotients(n)[LengthBytes - i] % Base]

\* sendMessage: the flag, the length and then the message.
Prefix(flag, length) == <<flag>> \o BigEndian(length)
Framed(m) == Prefix(m.flag, Len(m.payload)) \o m.payload
-----------------------------------------------------------------------------
(* The processors *)

\* The number that bytes are, behind the digits of start.
ReadBigEndian(start, bytes) ==
  LET value[i \in 0 .. Len(bytes)] ==
        IF i = 0 THEN start ELSE value[i - 1] * Base + bytes[i]
  IN value[Len(bytes)]

\* ByteBuffer.int is signed, UInt32 is not.
Signed(bytes) == ReadBigEndian(IF bytes[1] < Base \div 2 THEN 0 ELSE -1, bytes)
Unsigned(bytes) == ReadBigEndian(0, bytes)

PrefixedLength(buffer) == SubSeq(buffer, 2, PrefixLength)

HasPrefix(c) == Len(c.buffer) >= PrefixLength

HasMessage(c) == Len(c.buffer) >= c.length + PrefixLength

\* Mutant: the buffer is reset with every message.
DropRest(c) == <<>>

\* The buffer after the message at its head.
Rest(c) == SubSeq(c.buffer, PrefixLength + c.length + 1, Len(c.buffer))

Deliver(c) ==
  [c EXCEPT !.state = "CompressionFlag", !.buffer = Rest(c), !.length = 0,
            !.out = Append(@, SubSeq(c.buffer, PrefixLength + 1, PrefixLength + c.length))]

\* One step of GRPCMessageProcessor.processData.  Compressed data is dropped,
\* yet the length is read next.  A negative length that reaches back to the
\* start of the buffer or before ends in an exception.
KotlinStep(c) ==
  CASE c.state = "CompressionFlag" /\ c.buffer # <<>> ->
         [c EXCEPT !.state = "MessageLength",
                   !.buffer = IF c.buffer[1] = 0 THEN @ ELSE <<>>]
    [] c.state = "MessageLength" /\ HasPrefix(c) ->
         [c EXCEPT !.state = "Message", !.length = Signed(PrefixedLength(c.buffer))]
    [] c.state = "Message" /\ HasMessage(c) ->
         IF PrefixLength + c.length > 0 THEN Deliver(c)
         ELSE [c EXCEPT !.state = "Crashed", !.out = Append(@, <<>>)]
    [] OTHER -> c

\* One step of GRPCMessageProcessor.processBuffer.
SwiftStep(c) ==
  CASE c.state = "CompressionFlag" /\ c.buffer # <<>> ->
         IF c.buffer[1] = 0 THEN [c EXCEPT !.state = "MessageLength"]
         ELSE [c EXCEPT !.buffer = <<>>]
    [] c.state = "MessageLength" /\ HasPrefix(c) ->
         [c EXCEPT !.state = "Message", !.length = Unsigned(PrefixedLength(c.buffer))]
    [] c.state = "Message" /\ HasMessage(c) -> Deliver(c)
    [] OTHER -> c

\* Both functions call themselves until they have to wait for more data; with
\* every third call at the latest the buffer is shorter.
Calls(c) == 3 * (Len(c.buffer) + 1)
processData(c) ==
  LET after[i \in 0 .. Calls(c)] == IF i = 0 THEN c ELSE KotlinStep(after[i - 1])
  IN after[Calls(c)]
processBuffer(c) ==
  LET after[i \in 0 .. Calls(c)] == IF i = 0 THEN c ELSE SwiftStep(after[i - 1])
  IN after[Calls(c)]
-----------------------------------------------------------------------------
\* The peer (external) sends a message.
PeerSends(m) ==
  /\ Len(sent) + Len(requested) < MaxMessages
  /\ sent' = Append(sent, m)
  /\ wire' = wire \o Framed(m)
  /\ UNCHANGED <<arrived, kotlin, swift, requested, body>>

\* onResponseData with a chunk of n bytes.
onResponseData(n) ==
  LET chunk == SubSeq(wire, 1, n) IN
  /\ wire' = SubSeq(wire, n + 1, Len(wire))
  /\ arrived' = arrived + n
  /\ kotlin' = processData([kotlin EXCEPT !.buffer = @ \o chunk])
  /\ swift' = processBuffer([swift EXCEPT !.buffer = @ \o chunk])
  /\ UNCHANGED <<sent, requested, body>>

\* A ByteBuffer with its position and limit.
ByteBuffers ==
  {b \in [array : Payloads, position : 0 .. MaxLength, limit : 0 .. MaxLength] :
     /\ b.position <= b.limit /\ b.limit <= Len(b.array)
     /\ MaySlice \/ (b.position = 0 /\ b.limit = Len(b.array))}

Remaining(b) == SubSeq(b.array, b.position + 1, b.limit)

\* sendData: data.array(), or the direct buffer up to its capacity.
DataOf(b) == b.array

\* sendMessage on the Kotlin stream: the prefix is made from remaining().
sendMessage(b) ==
  /\ Len(sent) + Len(requested) < MaxMessages
  /\ requested' = Append(requested, Remaining(b))
  /\ body' = body \o (Prefix(0, Len(Remaining(b))) \o DataOf(b))
  /\ UNCHANGED <<sent, wire, arrived, kotlin, swift>>

GrpcNext ==
  \/ \E m \in Messages : PeerSends(m)
  \/ \E n \in 1 .. Len(wire) : onResponseData(n)
  \/ \E b \in ByteBuffers : sendMessage(b)

GrpcSpec == GrpcInit /\ [][GrpcNext]_grpcVars
-----------------------------------------------------------------------------
(* Properties *)

\* The bytes of the first k of the messages ms.
EndOf(ms, k) ==
  LET end[i \in 0 .. Len(ms)] == IF i = 0 THEN 0 ELSE end[i - 1] + Len(Framed(ms[i]))
  IN end[k]

\* The messages that have arrived to their last byte, up to the first that is
\* compressed.
Due ==
  {k \in 1 .. Len(sent) :
     EndOf(sent, k) <= arrived /\ \A i \in 1 .. k : sent[i].flag = 0}

\* "When a message has been fully buffered, onMessage will be called with the
\* message" (processData): however the stream is cut into chunks, the messages
\* delivered are those whose last byte has arrived, byte for byte and in order,
\* up to the first compressed message.
MessagesAsFramed ==
  \A out \in {kotlin.out, swift.out} :
    /\ \A k \in Due : k \in DOMAIN out /\ out[k] = sent[k].payload
    /\ (\A k \in 1 .. Len(sent) : sent[k].flag = 0) => DOMAIN out = Due

\* "Length-Prefixed-Message = Compressed-Flag | Message-Length | Message"
\* (sendMessage): the peer, reading the request with the same processor, gets
\* the messages that the application sent.
RequestsAreReadBack ==
  LET peer == processData([NewProcessor EXCEPT !.buffer = body])
  IN peer.out = requested /\ peer.buffer = <<>>

\* The same sentence of processData, with compressed messages on the stream:
\* every message that is not compressed is delivered once it has arrived.
EveryPlainMessageDelivered ==
  \A k \in 1 .. Len(sent) :
    EndOf(sent, k) <= arrived /\ sent[k].flag = 0 => Contains(kotlin.out, sent[k].payload)
=============================================================================
