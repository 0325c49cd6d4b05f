-------------------------------- MODULE Wire --------------------------------
(***************************************************************************)
(* Stream between the two programs: the frames of one direction are        *)
(* written by the encoder of one program and read by the decoder of the    *)
(* other, and the packets are of the types both programs declare.          *)
(***************************************************************************)
EXTENDS Stream, Codec

S == INSTANCE WireServer
C == INSTANCE WireClient

\* What a program may send.  Nothing sends a ChallengeResponse, which the
\* server cannot read.
Sendable(d) ==
  IF d = "down" THEN S!ServerPacket.vals
  ELSE {p \in C!ClientPacket.vals : p[1] # "ChallengeResponse"}

Payload(d, p) == IF d = "down" THEN S!ServerPacket.write[p] ELSE C!ClientPacket.write[p]
WireFrame(d, p) == IF d = "down" THEN S!Encode(p) ELSE C!Encode(p)

\* What the reader takes from a header, and then from a payload.
WireSize(d, header) == IF d = "down" THEN C!SizeOf(header) ELSE S!SizeOf(header)
WireDecode(d, payload) == IF d = "down" THEN C!DecodePacket(payload) ELSE S!DecodePacket(payload)

\* A packet in the reader's own terms: the server writes the members of a
\* channel as a list, the client keeps them by uuid.
ShownChannel(c) == [c EXCEPT !.clients = Latest("uuid", c.clients)]
ShownUpdate(u) == IF u[1] = "Create" THEN Val(u[1], ShownChannel(u[2])) ELSE u
ShownResponse(r) ==
  IF r[1] # "Success" THEN r
  ELSE Val(r[1], [r[2] EXCEPT !.channels =
                    [i \in 1..Len(r[2].channels) |-> ShownChannel(r[2].channels[i])]])
WireView(d, p) ==
  CASE d = "down" /\ p[1] = "ChannelUpdate" -> Val(p[1], ShownUpdate(p[2]))
    [] d = "down" /\ p[1] = "AuthResponse" -> Val(p[1], ShownResponse(p[2]))
    [] OTHER -> p

\* The packets are sendable and not longer than 64 bits can say; their frames,
\* and what is read of those, are as the two programs have it.
ASSUME DirsAssumption == Dirs = {"down", "up"}

ASSUME FormatAssumption ==
  \A d \in Dirs : \A p \in Packets(d) :
    LET f == WireFrame(d, p)
        header == SubSeq(f, 1, HeaderSize)
        payload == SubSeq(f, HeaderSize + 1, Len(f))
    IN /\ p \in Sendable(d)
       /\ Len(Payload(d, p)) \in Usize.vals
       /\ Frame(d, p) = f
       /\ Size(d, header) = WireSize(d, header)
       /\ Decode(d, payload) = WireDecode(d, payload)
       /\ View(d, p) = WireView(d, p)

-----------------------------------------------------------------------------
(***************************************************************************)
(* The parts of protocol.rs that no packet uses, and the keep-alive stream *)
(* (a struct in frames without a header), in both copies.                  *)
(***************************************************************************)
Primitives ==
  <<<<S!U128, C!U128>>, <<S!I64, C!I64>>, <<S!I32, C!I32>>, <<S!I16, C!I16>>, <<S!I8, C!I8>>,
    <<S!U32, C!U32>>, <<S!U16, C!U16>>, <<S!F32, C!F32>>, <<S!F64, C!F64>>,
    <<S!Option(S!Uuid), C!Option(C!Uuid)>>, <<S!Option(S!Bool), C!Option(C!Bool)>>,
    <<S!Atomic(S!Bool), C!AtomicBool>>,
    <<S!ExactSizeIterator(S!U16), C!ExactSizeIterator(C!U16)>>,
    <<S!Box(S!U8), C!Box(C!U8)>>, <<S!Ref(S!Duration), C!Ref(C!Duration)>>,
    <<S!RwLock(S!String), C!Arc(C!RwLock(C!CowStr))>>, <<S!KeepAlive, C!KeepAlive>>>>

CONSTANT Trials   \* for each of the Primitives, values it is tried on

ASSUME TrialsAssumption ==
  /\ DOMAIN Trials = DOMAIN Primitives
  /\ \A i \in DOMAIN Primitives : Trials[i] \subseteq Primitives[i][1].vals

\* The last of the Primitives is what the keep-alive stream carries.
KeepAliveTrials == Trials[17]

\* What format w writes of v is read as v by format r.
Crosses(w, r, v) == r.read[w.write[v]][0] = Ok(v, Len(w.write[v]))
CrossesBothWays(pair, v) == Crosses(pair[1], pair[2], v) /\ Crosses(pair[2], pair[1], v)

-----------------------------------------------------------------------------
(* Properties.                                                             *)

\* Each program reads what the other wrote, to the last byte of the packet (the
\* encode and RWBytes implementations of the two packet.rs).
FramesRoundTrip ==
  sent = <<>> =>
    /\ RoundTrip
    /\ \A d \in Dirs : \A p \in Packets(d) :
         LET f == Frame(d, p)
         IN Decode(d, SubSeq(f, HeaderSize + 1, Len(f))).at = Len(f) - HeaderSize

\* Both copies of the format agree on every primitive and wrapper, and a frame
\* of the keep-alive stream, which has no header, is the 20 bytes its reader
\* asks for (network.rs:266, client network.rs:155).
PrimitivesAgree ==
  sent = <<>> =>
    /\ \A i \in DOMAIN Trials : \A v \in Trials[i] : CrossesBothWays(Primitives[i], v)
    /\ \A v \in KeepAliveTrials : Len(S!KeepAlive.write[v]) = 8 + 8 + 4
=============================================================================
