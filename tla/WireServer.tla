----------------------------- MODULE WireServer -----------------------------
(***************************************************************************)
(* The server's copy of the format: protocol.rs (primitives and wrappers)  *)
(* and packet.rs (packets and what they are made of).  The shapes it is    *)
(* composed of are those of Codec.                                         *)
(***************************************************************************)
EXTENDS Sequences

CONSTANTS Uint(_), Sint(_), Flag, Text, Many(_), Maybe(_), Struct(_, _),
          Unit, Enum(_), Todo, Split(_, _)

(***************************************************************************)
(* protocol.rs                                                             *)
(***************************************************************************)
U128 == Uint(16)
I64 == Sint(8)
I32 == Sint(4)
I16 == Sint(2)
I8 == Sint(1)
U64 == Uint(8)
U32 == Uint(4)
U16 == Uint(2)
U8 == Uint(1)
Bool == Flag

\* Floats travel as the bits they are made of.
F32 == Uint(4)
F64 == Uint(8)

Duration == Struct([secs: U64.vals, subsec_nanos: U32.vals],
                   <<<<"secs", U64>>, <<"subsec_nanos", U32>>>>)
String == Text
Uuid == U128

\* Two halves of 128 bits, the lower one first: 32 bytes, like a UserUuid.
U256 == Struct([lo: U128.vals, hi: U128.vals],
               <<<<"lo", U128>>, <<"hi", U128>>>>)
UserUuid == Uint(32)

Vec(s) == Many(s)
ExactSizeIterator(s) == Many(s)
Option(s) == Maybe(s)

\* The wrappers hand both calls to what they hold.
Cow(s) == s
CowStr == Text
Arc(s) == s
Atomic(s) == s
RwLock(s) == s
Box(s) == s
Ref(s) == s

(***************************************************************************)
(* packet.rs, from the leaves to the packets.                              *)
(***************************************************************************)
SwapArc(s) == s

ChannelSubClientUpdate == Enum(<<<<"Add", UserUuid>>, <<"Remove", UserUuid>>>>)

ClientUpdateServerGroups == Enum(<<<<"Add", Uuid>>, <<"Remove", Uuid>>>>)

ChannelPerms ==
  Struct([see: U64.vals, join: U64.vals, modify: U64.vals, talk: U64.vals,
          assign_talk: U64.vals, delete: U64.vals],
         <<<<"see", U64>>, <<"join", U64>>, <<"modify", U64>>, <<"talk", U64>>,
           <<"assign_talk", U64>>, <<"delete", U64>>>>)

ChannelCreatePerms ==
  Struct([power: U64.vals, set_desc: Bool.vals, set_password: Bool.vals,
          resort_channel: Bool.vals],
         <<<<"power", U64>>, <<"set_desc", Bool>>, <<"set_password", Bool>>,
           <<"resort_channel", Bool>>>>)

PermsSnapshot ==
  Struct([server_group_assign: U64.vals, server_group_unassign: U64.vals,
          channel_see: U64.vals, channel_join: U64.vals,
          channel_modify: U64.vals, channel_talk: U64.vals,
          channel_assign_talk: U64.vals, channel_delete: U64.vals,
          can_send: Bool.vals, channel_create: ChannelCreatePerms.vals],
         <<<<"server_group_assign", U64>>, <<"server_group_unassign", U64>>,
           <<"channel_see", U64>>, <<"channel_join", U64>>,
           <<"channel_modify", U64>>, <<"channel_talk", U64>>,
           <<"channel_assign_talk", U64>>, <<"channel_delete", U64>>,
           <<"can_send", Bool>>, <<"channel_create", ChannelCreatePerms>>>>)

ServerGroup ==
  Struct([uuid: Uuid.vals, name: String.vals, priority: U64.vals,
          perms: PermsSnapshot.vals],
         <<<<"uuid", Uuid>>, <<"name", String>>, <<"priority", U64>>,
           <<"perms", PermsSnapshot>>>>)

RemoteProfile ==
  Struct([name: String.vals, uuid: UserUuid.vals,
          server_groups: Vec(Uuid).vals],
         <<<<"name", String>>, <<"uuid", UserUuid>>,
           <<"server_groups", Vec(Uuid)>>>>)

\* The members written are the cached profiles (proto_clients).
Channel ==
  Struct([uuid: Uuid.vals, password: Atomic(Bool).vals,
          name: Arc(SwapArc(String)).vals, desc: Arc(SwapArc(String)).vals,
          perms: Arc(SwapArc(ChannelPerms)).vals,
          clients: Arc(RwLock(Vec(RemoteProfile))).vals,
          slots: Atomic(I16).vals, sort_id: Atomic(U16).vals],
         <<<<"uuid", Uuid>>, <<"password", Atomic(Bool)>>,
           <<"name", Arc(SwapArc(String))>>, <<"desc", Arc(SwapArc(String))>>,
           <<"perms", Arc(SwapArc(ChannelPerms))>>,
           <<"clients", Arc(RwLock(Vec(RemoteProfile)))>>,
           <<"slots", Atomic(I16)>>, <<"sort_id", Atomic(U16)>>>>)

ChannelSubUpdate ==
  Enum(<<<<"Name", Cow(String)>>, <<"Desc", Cow(String)>>, <<"Perms", ChannelPerms>>,
         <<"Client", ChannelSubClientUpdate>>>>)

ChannelUpdate ==
  Enum(<<<<"Create", Channel>>,
         <<"SubUpdate", Struct([channel: Uuid.vals,
                                update: ChannelSubUpdate.vals],
                               <<<<"channel", Uuid>>,
                                 <<"update", ChannelSubUpdate>>>>)>>,
         <<"Delete", Uuid>>>>)

BanDuration == Enum(<<<<"Permanent", Unit>>, <<"Temporary", Duration>>>>)

AuthFailure ==
  Enum(<<<<"Banned", Struct([reason: String.vals, duration: BanDuration.vals],
                            <<<<"reason", String>>,
                              <<"duration", BanDuration>>>>)>>,
         <<"ReqSec", U8>>, <<"OutOfDate", U64>>, <<"AlreadyOnline", Unit>>,
         <<"Invalid", CowStr>>>>)

AuthResponse ==
  Enum(<<<<"Success", Struct([default_channel_id: Uuid.vals,
                              server_groups: Vec(Arc(ServerGroup)).vals,
                              own_groups: Vec(Uuid).vals,
                              channels: Vec(Channel).vals],
                             <<<<"default_channel_id", Uuid>>,
                               <<"server_groups", Vec(Arc(ServerGroup))>>,
                               <<"own_groups", Vec(Uuid)>>,
                               <<"channels", Vec(Channel)>>>>)>>,
         <<"Failure", AuthFailure>>>>)

SwitchChannelResponse ==
  Enum(<<<<"Success", Unit>>, <<"InvalidChannel", Unit>>, <<"NoPermissions", Unit>>,
         <<"SameChannel", Unit>>>>)

DisconnectReason ==
  Enum(<<<<"Kicked", String>>,
         <<"ReceivedInvalidPacketSize",
           Struct([allowed: U64.vals, received: U64.vals],
                  <<<<"allowed", U64>>, <<"received", U64>>>>)>>,
         <<"DecodeError", String>>, <<"Timeout", Unit>>>>)

ServerPacket ==
  Enum(<<<<"AuthResponse", AuthResponse>>, <<"ChannelUpdate", ChannelUpdate>>,
         <<"ClientConnected", RemoteProfile>>, <<"ClientDisconnected", RemoteProfile>>,
         <<"ClientUpdateServerGroups",
           Struct([client: UserUuid.vals,
                   update: ClientUpdateServerGroups.vals],
                  <<<<"client", UserUuid>>,
                    <<"update", ClientUpdateServerGroups>>>>)>>,
         <<"KeepAlive", Struct([id: U64.vals, send_time: Duration.vals],
                               <<<<"id", U64>>, <<"send_time", Duration>>>>)>>,
         <<"ChallengeRequest", Split(Todo, Vec(U8))>>,
         <<"ForceDisconnect", DisconnectReason>>,
         <<"SwitchChannelResponse", SwitchChannelResponse>>>>)

\* The server reads these; its own write, which nothing calls, puts the name
\* of an AuthRequest in front of the key.
ClientPacket ==
  LET version == <<"protocol_version", U64>>
      key == <<"pub_key", Vec(U8)>>
      name == <<"name", String>>
      rest == <<<<"security_proofs", Vec(U256)>>, <<"signed_data", Vec(U8)>>>>
      request == [protocol_version: U64.vals, pub_key: Vec(U8).vals, name: String.vals,
                  security_proofs: Vec(U256).vals, signed_data: Vec(U8).vals]
  IN Enum(<<<<"AuthRequest", Split(Struct(request, <<version, key, name>> \o rest),
                                   Struct(request, <<version, name, key>> \o rest))>>,
            <<"Disconnect", Unit>>,
            <<"KeepAlive", Struct([id: U64.vals, send_time: Duration.vals],
                                  <<<<"id", U64>>, <<"send_time", Duration>>>>)>>,
            <<"UpdateClientServerGroups",
              Struct([client: UserUuid.vals,
                      update: ClientUpdateServerGroups.vals],
                     <<<<"client", UserUuid>>,
                       <<"update", ClientUpdateServerGroups>>>>)>>,
            <<"ChallengeResponse", Todo>>, <<"SwitchChannel", Uuid>>>>)

\* What the keep-alive stream carries, in frames without a length.
KeepAlive == Struct([id: U64.vals, send_time: Duration.vals],
                    <<<<"id", U64>>, <<"send_time", Duration>>>>)

(***************************************************************************)
(* A frame is the length of the payload in 64 bits and the payload.        *)
(***************************************************************************)
Encode(packet) ==
  LET payload == ServerPacket.write[packet] IN U64.write[Len(payload)] \o payload

\* What the reader takes from a header, and then from a payload.
SizeOf(header) == U64.read[header][0].v
DecodePacket(payload) == ClientPacket.read[payload][0]
=============================================================================
