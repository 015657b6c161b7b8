----------------------------- MODULE EmapCodec ------------------------------
(***************************************************************************)
(* The payloads of emap, byte by byte: emap_decode_msg and emap_encode_msg *)
(* for every type of message, and the way of a profile from a record of    *)
(* the database to the screen of its player, through record_to_payload,    *)
(* the helpers that send it, emap_decode_msg and client_update_profile.    *)
(*                                                                         *)
(* A message is what the union of EMAP_Message has for its type; of the    *)
(* types with one byte of payload, and of those with none, it does not     *)
(* matter which it is.  Integers on the wire are bytes.                    *)
(***************************************************************************)
EXTENDS Profiles, Sequences

\* The limits that the code gives the constants of Profiles: the fields are
\* uint8_t and uint16_t.
ASSUME WireAssumption ==
    /\ MaxLevel < 256 /\ MaxMoney < 65536 /\ XpPerLevel <= 65536
    /\ TOTAL_SKIN_AMOUNT <= 256

Bytes == {n \in Nat : n < 256}        \* uint8_t
Words == {n \in Nat : n < 65536}      \* uint16_t

ByteTypes    == {"GENERAL_ACK", "PLAY", "GAME_START", "GAME_END"}
EmptyTypes   == {"GAME_WAIT", "GAME_STATE", "GAME_JOIN", "ILLEGAL_PLAY"}
ProfileTypes == {"PLAYER_INFO", "PLAYER_DATA_UPDATE"}

\* EMAP_PayloadPlayerInfo, before it is sent and after it has been decoded.
Infos == [level : Bytes, progression : Words, money : Words,
          selected_skin : Bytes,
          possessed_skins : [1 .. TOTAL_SKIN_AMOUNT -> Bytes]]

\* EMAP_Message
Messages ==
    [type : ByteTypes, value : Bytes]
        \cup [type : EmptyTypes]
        \cup [type : {"MOVE"}, coin_index : Bytes, coin_pos : Bytes]
        \cup [type : {"SHOP_ACTION"}, action : Bytes, skin_index : Bytes]
        \cup [type : {"CONNECT"},
              username : [1 .. MAX_PLAYER_USERNAME_SIZE -> Bytes]]
        \cup [type : ProfileTypes, info : Infos]

Malformed == [type |-> "malformed"]
-----------------------------------------------------------------------------
High(n)          == n \div 256
Low(n)           == n % 256
ntohs(high, low) == 256 * high + low

\* The payload that the two helpers build for a profile, and emap_encode_msg.
\* htons has the high byte first.
InfoBytes(info) ==
    <<info.level,
      High(info.progression), Low(info.progression),
      High(info.money), Low(info.money),
      info.selected_skin>> \o info.possessed_skins

emap_encode_msg(message) ==
    IF message.type \in ByteTypes THEN <<message.value>>
    ELSE IF message.type \in EmptyTypes THEN <<>>
    ELSE IF message.type = "MOVE" THEN <<message.coin_index, message.coin_pos>>
    ELSE IF message.type = "SHOP_ACTION" THEN <<message.action, message.skin_index>>
    ELSE IF message.type = "CONNECT" THEN message.username
    ELSE InfoBytes(message.info)

InfoOf(payload) ==
    [level |-> payload[1],
     progression |-> ntohs(payload[2], payload[3]),
     money |-> ntohs(payload[4], payload[5]),
     selected_skin |-> payload[6],
     possessed_skins |-> [i \in 1 .. TOTAL_SKIN_AMOUNT |-> payload[6 + i]]]

\* SHOP_ACTION is not among the types it knows.
emap_decode_msg(type, payload) ==
    IF type \notin DOMAIN DecodedSize \/ Len(payload) # DecodedSize[type]
    THEN Malformed
    ELSE IF type \in ByteTypes THEN [type |-> type, value |-> payload[1]]
    ELSE IF type \in EmptyTypes THEN [type |-> type]
    ELSE IF type = "MOVE"
         THEN [type |-> type, coin_index |-> payload[1], coin_pos |-> payload[2]]
    ELSE IF type = "CONNECT" THEN [type |-> type, username |-> payload]
    ELSE [type |-> type, info |-> InfoOf(payload)]
-----------------------------------------------------------------------------
\* record_to_payload: 0 for a skin not owned, 1 for one owned, 2 for the one
\* that is worn.
RecordToPayload(profile) ==
    [level |-> profile.level, progression |-> profile.progression,
     money |-> profile.money, selected_skin |-> profile.selected,
     possessed_skins |->
        [i \in 1 .. TOTAL_SKIN_AMOUNT |->
            IF i - 1 \notin profile.owned THEN 0
            ELSE IF i - 1 = profile.selected THEN 2 ELSE 1]]

\* client_update_profile: PlayerData, as the profile that it shows.  The first
\* skin owned stands in for a selected one that is not.
ClientUpdateProfile(info) ==
    LET owned == {skin \in Skins : info.possessed_skins[skin + 1] # 0}
    IN  [level |-> info.level, progression |-> info.progression,
         money |-> info.money, owned |-> owned,
         selected |-> IF info.selected_skin \in owned THEN info.selected_skin
                      ELSE IF owned # {} THEN Min(owned) ELSE 0]

\* payload_to_record has a copy of that, and normalises what comes out.
PayloadToRecord(info) == NormalizeRecord(ClientUpdateProfile(info))

\* The way of a profile over the wire.
Shown(profile) ==
    ClientUpdateProfile(
        emap_decode_msg("PLAYER_INFO", InfoBytes(RecordToPayload(profile))).info)
=============================================================================
