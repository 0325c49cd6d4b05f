-------------------------------- MODULE MCWire --------------------------------
(***************************************************************************)
(* Stream between the two programs: the frames of one direction are        *)
(* written by the encoder of one and read by the decoder of the other.     *)
(* The packets are samples: every variant the programs send, and every     *)
(* type inside one, with different values in neighbouring fields, so that  *)
(* a swapped pair shows.                                                   *)
(***************************************************************************)
EXTENDS Wire

Pair(v, u) == Val(v, u)
none == <<>>

alice == [name |-> <<97, 108>>, uuid |-> 70001, server_groups |-> <<>>]
bob == [name |-> <<98>>, uuid |-> 7, server_groups |-> <<9, 300>>]

chanPerms == [see |-> 1, join |-> 2, modify |-> 3, talk |-> 4, assign_talk |-> 5,
              delete |-> 600]
create == [power |-> 5, set_desc |-> TRUE, set_password |-> FALSE, resort_channel |-> TRUE]
perms == [server_group_assign |-> 11, server_group_unassign |-> 12, channel_see |-> 13,
          channel_join |-> 14, channel_modify |-> 15, channel_talk |-> 16,
          channel_assign_talk |-> 17, channel_delete |-> 18, can_send |-> TRUE,
          channel_create |-> create]
group == [uuid |-> 9, name |-> <<103, 114>>, priority |-> 77, perms |-> perms]
lobby == [uuid |-> 1, password |-> FALSE, name |-> <<76>>, desc |-> <<>>,
          perms |-> chanPerms, clients |-> <<bob, alice>>, slots |-> -1, sort_id |-> 0]
room == [uuid |-> 258, password |-> TRUE, name |-> <<82, 111>>, desc |-> <<68, 69, 70>>,
         perms |-> chanPerms, clients |-> <<>>, slots |-> 300, sort_id |-> 65535]
span == [secs |-> 70000, subsec_nanos |-> 999]

AuthResponses ==
  {Pair("Success", [default_channel_id |-> 1, server_groups |-> <<group>>,
                    own_groups |-> <<9>>, channels |-> <<room, lobby>>])}
  \cup {Pair("Failure", f) : f \in
          {Pair("Banned", [reason |-> <<114>>, duration |-> Pair("Permanent", none)]),
           Pair("Banned", [reason |-> <<>>, duration |-> Pair("Temporary", span)]),
           Pair("ReqSec", 12), Pair("OutOfDate", 1), Pair("AlreadyOnline", none),
           Pair("Invalid", <<73, 110>>)}}

ChannelUpdates ==
  {Pair("Create", room), Pair("Delete", 258)}
  \cup {Pair("SubUpdate", [channel |-> 1, update |-> u]) : u \in
          {Pair("Name", <<78>>), Pair("Desc", <<68>>), Pair("Perms", chanPerms),
           Pair("Client", Pair("Add", 70001)), Pair("Client", Pair("Remove", 7))}}

GroupUpdates == {Pair("Add", 9), Pair("Remove", 300)}

DownPackets ==
  {Pair("AuthResponse", r) : r \in AuthResponses}
  \cup {Pair("ChannelUpdate", u) : u \in ChannelUpdates}
  \cup {Pair("ClientUpdateServerGroups", [client |-> 7, update |-> u]) : u \in GroupUpdates}
  \cup {Pair("SwitchChannelResponse", Pair(r, none)) : r \in
          {"Success", "InvalidChannel", "NoPermissions", "SameChannel"}}
  \cup {Pair("ForceDisconnect", r) : r \in
          {Pair("Kicked", <<75>>), Pair("DecodeError", <<>>), Pair("Timeout", none),
           Pair("ReceivedInvalidPacketSize", [allowed |-> 1048560, received |-> 1048561])}}
  \cup {Pair("ClientConnected", alice), Pair("ClientDisconnected", bob),
        Pair("KeepAlive", [id |-> 3, send_time |-> span])}

Auth(name) ==
  Pair("AuthRequest", [protocol_version |-> 1, pub_key |-> <<1, 2, 3>>, name |-> name,
                       security_proofs |-> <<[lo |-> 4, hi |-> 5], [lo |-> 6, hi |-> 0]>>,
                       signed_data |-> <<>>])

UpPackets ==
  {Auth(<<97>>), Auth([i \in 1..80 |-> 120]), Pair("Disconnect", none),
   Pair("KeepAlive", [id |-> 3, send_time |-> span]), Pair("SwitchChannel", 258)}
  \cup {Pair("UpdateClientServerGroups", [client |-> 7, update |-> u]) : u \in GroupUpdates}

WirePackets(d) == IF d = "down" THEN DownPackets ELSE UpPackets

\* The encoder and the decoder, evaluated once for each packet.
Frames == [d \in {"down", "up"} |-> [p \in WirePackets(d) |-> WireFrame(d, p)]]
FrameTable(d, p) == Frames[d][p]

PayloadOf(f) == SubSeq(f, HeaderSize + 1, Len(f))
Decoded ==
  [d \in {"down", "up"} |->
     [b \in {PayloadOf(Frames[d][p]) : p \in WirePackets(d)} |-> WireDecode(d, b)]]
DecodeTable(d, b) == IF b \in DOMAIN Decoded[d] THEN Decoded[d][b] ELSE WireDecode(d, b)

\* A frame arrives whole, or cut in its header or in its last bytes.
WirePieces(n) == {n - 1, n - 6}

\* The values the primitives are tried on, one set for each of them.
WireTrials ==
  <<{70001}, {5, -5}, {70000, -1}, {-2, 32767}, {-128, 127}, {65536}, {65535}, {1}, {2},
    {<<>>, <<258>>}, {<<>>, <<TRUE>>}, {TRUE, FALSE}, {<<1, 513>>}, {255}, {span},
    {<<97, 98>>}, {[id |-> 1, send_time |-> span]}>>
===============================================================================
