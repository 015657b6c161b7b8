-------------------------- MODULE PlayerDb_proofs --------------------------
(***************************************************************************)
(* Theorems about the player database, for any numbers of threads and      *)
(* players, any limits and prices, and all faults unless it says otherwise.*)
(***************************************************************************)
EXTENDS PlayerDb, FiniteSetTheorems, SequenceTheorems, TLAPS

(***************************************************************************)
(* The wire: a number of two bytes, a profile's fields and a message are   *)
(* decoded as what was encoded.                                            *)
(***************************************************************************)
LEMMA WordSurvives ==
    ASSUME NEW n \in Words
    PROVE  /\ High(n) \in Bytes /\ Low(n) \in Bytes
           /\ ntohs(High(n), Low(n)) = n
<1>1. n \div 256 \in Bytes /\ n % 256 \in Bytes
  BY DEF Words, Bytes
<1>2. 256 * (n \div 256) + (n % 256) = n
  BY DEF Words
<1> QED
  BY <1>1, <1>2 DEF ntohs, High, Low

LEMMA InfoSurvives ==
    ASSUME NEW info \in Infos
    PROVE  /\ Len(InfoBytes(info)) = ProfileSize
           /\ InfoOf(InfoBytes(info)) = info
<1> DEFINE head == <<info.level, High(info.progression), Low(info.progression),
                     High(info.money), Low(info.money), info.selected_skin>>
           skins == info.possessed_skins
<1>0. /\ info.level \in Bytes /\ info.selected_skin \in Bytes
      /\ info.progression \in Words /\ info.money \in Words
      /\ skins \in [1 .. TOTAL_SKIN_AMOUNT -> Bytes]
  BY DEF Infos
<1>1. TOTAL_SKIN_AMOUNT \in Nat
  BY EmapAssumption
<1>2. skins \in Seq(Bytes) /\ Len(skins) = TOTAL_SKIN_AMOUNT
  BY <1>0, <1>1, SeqDef
<1>3. head \in Seq(Bytes) /\ Len(head) = 6
  BY <1>0, WordSurvives
<1>4. InfoBytes(info) = head \o skins
  BY DEF InfoBytes
<1>5. /\ Len(head \o skins) = 6 + TOTAL_SKIN_AMOUNT
      /\ \A i \in 1 .. 6 : (head \o skins)[i] = head[i]
      /\ \A i \in 1 .. TOTAL_SKIN_AMOUNT : (head \o skins)[6 + i] = skins[i]
  <2>1. ASSUME NEW s \in Seq(Bytes), NEW t \in Seq(Bytes), NEW i \in 1 .. Len(t)
        PROVE  (s \o t)[Len(s) + i] = t[i]
    OBVIOUS
  <2>2. ASSUME NEW s \in Seq(Bytes), NEW t \in Seq(Bytes)
        PROVE  /\ Len(s \o t) = Len(s) + Len(t)
               /\ \A i \in 1 .. Len(s) : (s \o t)[i] = s[i]
    OBVIOUS
  <2> HIDE DEF head, skins
  <2>3. Len(head \o skins) = 6 + TOTAL_SKIN_AMOUNT
    BY <1>2, <1>3, <2>2
  <2>4. \A i \in 1 .. 6 : (head \o skins)[i] = head[i]
    BY <1>2, <1>3, <2>2
  <2>5. \A i \in 1 .. TOTAL_SKIN_AMOUNT : (head \o skins)[6 + i] = skins[i]
    <3>1. SUFFICES ASSUME NEW i \in 1 .. TOTAL_SKIN_AMOUNT
                   PROVE  (head \o skins)[6 + i] = skins[i]
      OBVIOUS
    <3>2. i \in 1 .. Len(skins)
      BY <1>2
    <3>3. (head \o skins)[Len(head) + i] = skins[i]
      BY <1>2, <1>3, <2>1, <3>2
    <3> QED
      BY <1>3, <3>3
  <2> QED
    BY <2>3, <2>4, <2>5
<1>6. /\ head[1] = info.level
      /\ ntohs(head[2], head[3]) = info.progression
      /\ ntohs(head[4], head[5]) = info.money
      /\ head[6] = info.selected_skin
  BY <1>0, WordSurvives
<1> DEFINE bytes == head \o skins
<1> HIDE DEF head, skins
<1>7. InfoOf(bytes) =
        [level |-> info.level, progression |-> info.progression,
         money |-> info.money, selected_skin |-> info.selected_skin,
         possessed_skins |-> [i \in 1 .. TOTAL_SKIN_AMOUNT |-> skins[i]]]
  <2>1. /\ bytes[1] = info.level
        /\ ntohs(bytes[2], bytes[3]) = info.progression
        /\ ntohs(bytes[4], bytes[5]) = info.money
        /\ bytes[6] = info.selected_skin
    <3>1. \A i \in 1 .. 6 : bytes[i] = head[i]
      BY <1>5
    <3> HIDE DEF bytes
    <3> QED
      BY <1>6, <3>1
  <2>2. [i \in 1 .. TOTAL_SKIN_AMOUNT |-> bytes[6 + i]] =
          [i \in 1 .. TOTAL_SKIN_AMOUNT |-> skins[i]]
    BY <1>5
  <2> HIDE DEF bytes
  <2> QED
    BY <2>1, <2>2 DEF InfoOf
<1>8. [i \in 1 .. TOTAL_SKIN_AMOUNT |-> skins[i]] = skins
  BY <1>0 DEF skins
<1>9. info = [level |-> info.level, progression |-> info.progression,
              money |-> info.money, selected_skin |-> info.selected_skin,
              possessed_skins |-> skins]
  BY DEF Infos, skins
<1>10. Len(InfoBytes(info)) = ProfileSize
  BY <1>1, <1>4, <1>5 DEF ProfileSize
<1> QED
  BY <1>4, <1>7, <1>8, <1>9, <1>10

(***************************************************************************)
(* emap_decode_msg undoes emap_encode_msg, whatever the bytes of the       *)
(* message, but for SHOP_ACTION: that it refuses, and the server takes the *)
(* payload of one from the packet.                                         *)
(***************************************************************************)
THEOREM DecodeInvertsEncode ==
    ASSUME NEW message \in Messages
    PROVE  emap_decode_msg(message.type, emap_encode_msg(message)) =
             IF message.type = "SHOP_ACTION" THEN Malformed ELSE message
<1>1. CASE message \in [type : ByteTypes, value : Bytes]
  <2>1. emap_encode_msg(message) = <<message.value>>
    BY <1>1 DEF emap_encode_msg, ByteTypes
  <2>2. message = [type |-> message.type, value |-> message.value]
    BY <1>1
  <2> QED
    BY <1>1, <2>1, <2>2 DEF emap_decode_msg, DecodedSize, ByteTypes
<1>2. CASE message \in [type : EmptyTypes]
  <2>1. emap_encode_msg(message) = <<>>
    BY <1>2 DEF emap_encode_msg, ByteTypes, EmptyTypes
  <2>2. message = [type |-> message.type]
    BY <1>2
  <2> QED
    BY <1>2, <2>1, <2>2 DEF emap_decode_msg, DecodedSize, ByteTypes, EmptyTypes
<1>3. CASE message \in [type : {"MOVE"}, coin_index : Bytes, coin_pos : Bytes]
  <2>1. emap_encode_msg(message) = <<message.coin_index, message.coin_pos>>
    BY <1>3 DEF emap_encode_msg, ByteTypes, EmptyTypes
  <2>2. message = [type |-> "MOVE", coin_index |-> message.coin_index,
                   coin_pos |-> message.coin_pos]
    BY <1>3
  <2> QED
    BY <1>3, <2>1, <2>2 DEF emap_decode_msg, DecodedSize, ByteTypes, EmptyTypes
<1>4. CASE message \in [type : {"SHOP_ACTION"}, action : Bytes, skin_index : Bytes]
  BY <1>4 DEF emap_decode_msg, DecodedSize
<1>5. CASE message \in [type : {"CONNECT"},
                        username : [1 .. MAX_PLAYER_USERNAME_SIZE -> Bytes]]
  <2>1. emap_encode_msg(message) = message.username
    BY <1>5 DEF emap_encode_msg, ByteTypes, EmptyTypes
  <2>2. message = [type |-> "CONNECT", username |-> message.username]
    BY <1>5
  <2>3. Len(message.username) = MAX_PLAYER_USERNAME_SIZE
    BY <1>5 DEF MAX_PLAYER_USERNAME_SIZE
  <2> QED
    BY <1>5, <2>1, <2>2, <2>3
    DEF emap_decode_msg, DecodedSize, ByteTypes, EmptyTypes
<1>6. CASE message \in [type : ProfileTypes, info : Infos]
  <2>1. emap_encode_msg(message) = InfoBytes(message.info)
    BY <1>6 DEF emap_encode_msg, ByteTypes, EmptyTypes, ProfileTypes
  <2>2. message = [type |-> message.type, info |-> message.info]
    BY <1>6
  <2>3. /\ Len(InfoBytes(message.info)) = ProfileSize
        /\ InfoOf(InfoBytes(message.info)) = message.info
    BY <1>6, InfoSurvives
  <2> QED
    BY <1>6, <2>1, <2>2, <2>3
    DEF emap_decode_msg, DecodedSize, ByteTypes, EmptyTypes, ProfileTypes
<1> QED
  BY <1>1, <1>2, <1>3, <1>4, <1>5, <1>6 DEF Messages

\* The flags 0, 1 and 2 say which skins are owned and which is worn.
LEMMA FlagsSurvive ==
    ASSUME NEW profile, WellFormed(profile)
    PROVE  /\ RecordToPayload(profile) \in Infos
           /\ ClientUpdateProfile(RecordToPayload(profile)) = profile
<1> DEFINE info == RecordToPayload(profile)
<1>1. /\ profile \in Profiles
      /\ profile.owned \in SUBSET Skins
      /\ profile.selected \in profile.owned
  BY DEF WellFormed, Profiles
<1>2. info \in Infos
  <2>1. /\ info.level \in Bytes /\ info.progression \in Words
        /\ info.money \in Words /\ info.selected_skin \in Bytes
    <3>1. /\ info.level = profile.level /\ info.money = profile.money
          /\ info.progression = profile.progression
          /\ info.selected_skin = profile.selected
      BY DEF RecordToPayload
    <3>2. /\ profile.level \in 0 .. MaxLevel /\ profile.money \in 0 .. MaxMoney
          /\ profile.progression \in 0 .. XpPerLevel - 1
          /\ profile.selected \in 0 .. TOTAL_SKIN_AMOUNT - 1
      BY <1>1 DEF Profiles, Skins
    <3> HIDE DEF info
    <3>3. info.level \in Bytes
      BY <3>1, <3>2, ProfileAssumption, WireAssumption DEF Bytes
    <3>4. info.selected_skin \in Bytes
      BY <3>1, <3>2, EmapAssumption, WireAssumption DEF Bytes
    <3>5. info.progression \in Words
      BY <3>1, <3>2, ProfileAssumption, WireAssumption DEF Words
    <3>6. info.money \in Words
      BY <3>1, <3>2, ProfileAssumption, WireAssumption DEF Words
    <3> QED
      BY <3>3, <3>4, <3>5, <3>6
  <2>2. info.possessed_skins \in [1 .. TOTAL_SKIN_AMOUNT -> Bytes]
    BY DEF RecordToPayload, Bytes
  <2> QED
    BY <2>1, <2>2 DEF RecordToPayload, Infos
<1>3. {skin \in Skins : info.possessed_skins[skin + 1] # 0} = profile.owned
  <2>1. ASSUME NEW skin \in Skins
        PROVE  info.possessed_skins[skin + 1] # 0 <=> skin \in profile.owned
    <3>1. skin + 1 \in 1 .. TOTAL_SKIN_AMOUNT /\ (skin + 1) - 1 = skin
      BY EmapAssumption DEF Skins
    <3> QED
      BY <3>1 DEF RecordToPayload
  <2> QED
    BY <1>1, <2>1
<1>4. /\ info.level = profile.level /\ info.progression = profile.progression
      /\ info.money = profile.money /\ info.selected_skin = profile.selected
  BY DEF RecordToPayload
<1> HIDE DEF info
<1>5. ClientUpdateProfile(info) =
        [level |-> profile.level, progression |-> profile.progression,
         money |-> profile.money, owned |-> profile.owned,
         selected |-> profile.selected]
  BY <1>1, <1>3, <1>4 DEF ClientUpdateProfile
<1>6. ClientUpdateProfile(info) = profile
  BY <1>1, <1>5 DEF Profiles
<1> QED
  BY <1>2, <1>6 DEF info

\* A well-formed profile is shown as it is.
LEMMA ProfileSurvives ==
    ASSUME NEW profile, WellFormed(profile)
    PROVE  Shown(profile) = profile
<1>1. RecordToPayload(profile) \in Infos
  BY FlagsSurvive
<1>2. emap_decode_msg("PLAYER_INFO", InfoBytes(RecordToPayload(profile))) =
        [type |-> "PLAYER_INFO", info |-> RecordToPayload(profile)]
  BY <1>1, InfoSurvives
  DEF emap_decode_msg, DecodedSize, ByteTypes, EmptyTypes, ProfileTypes
<1> QED
  BY <1>2, FlagsSurvive DEF Shown

(***************************************************************************)
(* Profiles: a well-formed profile needs no normalisation, and a request   *)
(* that is served leaves it well formed.                                   *)
(***************************************************************************)
LEMMA NormalizeIdentity ==
    ASSUME NEW profile, WellFormed(profile)
    PROVE  NormalizeRecord(profile) = profile
  BY DEF NormalizeRecord, WellFormed, Profiles

(***************************************************************************)
(* payload_to_record is the "Inverse of record_to_payload()" that the      *)
(* comment at db_manager.c:134 calls it, on well-formed profiles.          *)
(***************************************************************************)
THEOREM PayloadInverse ==
    ASSUME NEW profile, WellFormed(profile)
    PROVE  PayloadToRecord(RecordToPayload(profile)) = profile
  BY FlagsSurvive, NormalizeIdentity DEF PayloadToRecord

LEMMA DefaultWellFormed == WellFormed(DefaultRecord)
  BY EmapAssumption, ProfileAssumption DEF WellFormed, DefaultRecord, Profiles, Skins

LEMMA DivMod ==
    ASSUME NEW n \in Nat, NEW d \in Nat \ {0}
    PROVE  n \div d \in Nat /\ n % d \in 0 .. d - 1
  OBVIOUS

LEMMA RewardsWellFormed ==
    ASSUME NEW profile, WellFormed(profile), NEW has_won \in BOOLEAN
    PROVE  WellFormed(ApplyMatchRewards(profile, has_won))
<1> DEFINE new_xp == profile.progression + IF has_won THEN XpWin ELSE XpLose
<1>1. profile \in Profiles /\ profile.level >= 1
  BY DEF WellFormed
<1>2. new_xp \in Nat
  BY <1>1, ProfileAssumption DEF Profiles
<1>3. new_xp \div XpPerLevel \in Nat /\ new_xp % XpPerLevel \in 0 .. XpPerLevel - 1
  BY <1>2, DivMod, ProfileAssumption
<1> HIDE DEF new_xp
<1>4. AddLevels(profile.level, new_xp \div XpPerLevel) \in 1 .. MaxLevel
  BY <1>1, <1>3, ProfileAssumption DEF AddLevels, Profiles
<1>5. AddSouls(profile.money, IF has_won THEN SoulsWin ELSE SoulsLose) \in 0 .. MaxMoney
  BY <1>1, ProfileAssumption DEF AddSouls, Profiles
<1> DEFINE level == AddLevels(profile.level, new_xp \div XpPerLevel)
           progression == new_xp % XpPerLevel
           money == AddSouls(profile.money, IF has_won THEN SoulsWin ELSE SoulsLose)
<1>6. ApplyMatchRewards(profile, has_won) =
        [profile EXCEPT !.level = level, !.progression = progression,
                        !.money = money]
  BY DEF ApplyMatchRewards, new_xp
<1>7. /\ level \in 1 .. MaxLevel
      /\ progression \in 0 .. XpPerLevel - 1
      /\ money \in 0 .. MaxMoney
  BY <1>3, <1>4, <1>5
<1> HIDE DEF level, progression, money
<1>8. WellFormed([profile EXCEPT !.level = level, !.progression = progression,
                                 !.money = money])
  <2>1. level \in 0 .. MaxLevel /\ level >= 1
    BY <1>7, ProfileAssumption
  <2> QED
    BY <1>1, <1>7, <2>1 DEF WellFormed, Profiles
<1> QED
  BY <1>6, <1>8

LEMMA ServedWellFormed ==
    ASSUME NEW profile, WellFormed(profile),
           NEW what \in Requests, ~ BadSkin(what), ~ Refused(what, profile),
           Saves(what, profile)
    PROVE  WellFormed(Served(what, profile))
<1>1. CASE what.kind = "match"
  <2>1. what.has_won \in BOOLEAN
    BY <1>1 DEF Requests
  <2>2. Served(what, profile) =
          NormalizeRecord(ApplyMatchRewards(profile, what.has_won))
    BY <1>1 DEF Served
  <2> QED
    BY <2>1, <2>2, RewardsWellFormed, NormalizeIdentity
<1>2. CASE what.kind = "purchase"
  <2>1. what.skin_index \in Skins
    BY <1>2 DEF BadSkin
  <2>2. /\ CoinPrices[what.skin_index] \in Nat
        /\ profile.money >= CoinPrices[what.skin_index]
    <3>1. CoinPrices[what.skin_index] \in Nat
      BY <2>1, ProfileAssumption DEF Skins
    <3>2. ResolveSkinPrice(what.skin_index) = CoinPrices[what.skin_index]
      BY <2>1 DEF ResolveSkinPrice
    <3>3. profile.money \in 0 .. MaxMoney
      BY DEF WellFormed, Profiles
    <3> QED
      BY <1>2, <3>1, <3>2, <3>3, ProfileAssumption DEF Refused, Saves
  <2>3. WellFormed(PurchaseSkin(profile, what.skin_index))
    <3> DEFINE money == profile.money - CoinPrices[what.skin_index]
               owned == profile.owned \cup {what.skin_index}
    <3>1. PurchaseSkin(profile, what.skin_index) =
            [profile EXCEPT !.money = money, !.owned = owned,
                            !.selected = what.skin_index]
      BY <2>1 DEF PurchaseSkin, ResolveSkinPrice
    <3>2. money \in 0 .. MaxMoney
      <4>1. profile.money \in 0 .. MaxMoney
        BY DEF WellFormed, Profiles
      <4> QED
        BY <2>2, <4>1, ProfileAssumption
    <3>3. /\ owned \in SUBSET Skins /\ 0 \in owned
          /\ what.skin_index \in owned
      BY <2>1 DEF WellFormed, Profiles
    <3>4. profile \in Profiles /\ profile.level >= 1
      BY DEF WellFormed
    <3> HIDE DEF money, owned
    <3>5. WellFormed([profile EXCEPT !.money = money, !.owned = owned,
                                     !.selected = what.skin_index])
      BY <2>1, <3>2, <3>3, <3>4 DEF WellFormed, Profiles
    <3> QED
      BY <3>1, <3>5
  <2>4. Served(what, profile) =
          NormalizeRecord(PurchaseSkin(profile, what.skin_index))
    BY <1>2 DEF Served
  <2> QED
    BY <2>3, <2>4, NormalizeIdentity
<1>3. CASE what.kind = "equip"
  <2>1. what.skin_index \in profile.owned
    BY <1>3 DEF Refused
  <2>2. WellFormed(EquipSkin(profile, what.skin_index))
    BY <2>1 DEF WellFormed, EquipSkin, Profiles
  <2>3. Served(what, profile) =
          NormalizeRecord(EquipSkin(profile, what.skin_index))
    BY <1>3 DEF Served
  <2> QED
    BY <2>2, <2>3, NormalizeIdentity
<1> QED
  BY <1>1, <1>2, <1>3 DEF Saves
(***************************************************************************)
(* The inductive invariant, in two parts: what the threads have in memory, *)
(* and the file.                                                           *)
(***************************************************************************)
Records == [user : Users \cup {NoUser}, profile : Profiles]

ThreadsInv ==
    /\ pc \in [Threads -> Pcs]
    /\ request \in [Threads -> Requests \cup {Get}]
    /\ saving \in [Threads -> BOOLEAN]
    /\ pos \in [Threads -> Nat \ {0}]
    /\ record \in [Threads -> Profiles]
    /\ answer \in [Threads -> Answers]
    /\ \A t \in Threads :
          /\ ~ BadSkin(request[t])
          /\ WellFormed(record[t])
          /\ answer[t].status = "ok" => WellFormed(answer[t].profile)

GoodRecords(f) ==
    /\ f \in Seq(Records)
    /\ \A i \in DOMAIN f : f[i].user # NoUser => WellFormed(f[i].profile)

FileInv ==
    /\ file = NoFile \/ GoodRecords(file)
    /\ \A t \in Threads : pc[t] \in {"scan", "write"} => FileExists

DbInv == ThreadsInv /\ FileInv /\ calls \in 0 .. MaxCalls

LEMMA HoleRecord == Hole \in Records /\ Hole.user = NoUser
  BY EmapAssumption, ProfileAssumption DEF Hole, Entry, Records, Profiles, Skins

\* A write changes one record and may leave holes.
LEMMA OverwriteGood ==
    ASSUME NEW f, GoodRecords(f), NEW i \in Nat \ {0},
           NEW entry \in Records, WellFormed(entry.profile)
    PROVE  GoodRecords(Overwrite(f, i, entry))
<1> DEFINE g == Overwrite(f, i, entry)
           n == IF i > Len(f) THEN i ELSE Len(f)
<1>0. f \in Seq(Records)
  BY DEF GoodRecords
<1>1. n \in Nat /\ Len(f) <= n /\ i <= n /\ DOMAIN f = 1 .. Len(f) /\ Len(f) \in Nat
  BY <1>0
<1>2. g = [j \in 1 .. n |-> IF j = i THEN entry
                            ELSE IF j <= Len(f) THEN f[j] ELSE Hole]
  BY DEF Overwrite
<1> HIDE DEF g, n
<1>3. \A j \in 1 .. n :
        g[j] \in Records /\ (g[j].user # NoUser => WellFormed(g[j].profile))
  <2> SUFFICES ASSUME NEW j \in 1 .. n
               PROVE  /\ g[j] \in Records
                      /\ g[j].user # NoUser => WellFormed(g[j].profile)
    OBVIOUS
  <2>1. CASE j = i
    BY <1>2, <2>1
  <2>2. CASE j # i /\ j <= Len(f)
    <3>1. j \in DOMAIN f /\ f[j] \in Records
      BY <1>0, <1>1, <2>2
    <3>2. g[j] = f[j]
      BY <1>2, <2>2
    <3> QED
      BY <3>1, <3>2 DEF GoodRecords
  <2>3. CASE j # i /\ ~ (j <= Len(f))
    BY <1>2, <2>3, HoleRecord
  <2> QED
    BY <2>1, <2>2, <2>3
<1>4. g \in [1 .. n -> Records] /\ DOMAIN g = 1 .. n
  BY <1>2, <1>3
<1>5. g \in Seq(Records)
  BY <1>1, <1>4, SeqDef
<1> QED
  BY <1>3, <1>4, <1>5 DEF GoodRecords, g

(***************************************************************************)
(* What the steps of one thread do to the first part.                      *)
(***************************************************************************)
LEMMA ReplyKeeps ==
    ASSUME ThreadsInv, NEW t \in Threads, NEW told \in Answers,
           told.status = "ok" => WellFormed(told.profile), Reply(t, told)
    PROVE  /\ ThreadsInv'
           /\ pc' = [pc EXCEPT ![t] = "idle"]
           /\ pos' = [pos EXCEPT ![t] = 1]
<1>1. ~ BadSkin(Get) /\ Get \in Requests \cup {Get}
  BY DEF BadSkin, Get
<1>2. WellFormed(DefaultRecord) /\ DefaultRecord \in Profiles
  BY DefaultWellFormed DEF WellFormed
<1> QED
  BY <1>1, <1>2 DEF ThreadsInv, Reply, Goto, Rewind, Pcs

LEMMA LoadedKeeps ==
    ASSUME ThreadsInv, NEW t \in Threads, NEW profile, WellFormed(profile),
           Loaded(t, profile)
    PROVE  /\ ThreadsInv'
           /\ \E label \in {"idle", "open"} : pc' = [pc EXCEPT ![t] = label]
           /\ pos' \in {pos, [pos EXCEPT ![t] = 1]}
<1>1. CASE Reply(t, TellNo("refused"))
  <2>1. TellNo("refused") \in Answers /\ TellNo("refused").status # "ok"
    BY DEF TellNo, Answers
  <2> QED
    BY <1>1, <2>1, ReplyKeeps
<1>2. CASE Reply(t, Told(profile))
  <2>1. Told(profile) \in Answers /\ Told(profile).profile = profile
    BY DEF Told, Answers, WellFormed
  <2> QED
    BY <1>2, <2>1, ReplyKeeps
<1>3. CASE /\ ~ Refused(request[t], profile)
           /\ Saves(request[t], profile)
           /\ record' = [record EXCEPT ![t] = Served(request[t], profile)]
           /\ saving' = [saving EXCEPT ![t] = TRUE]
           /\ Goto(t, "open")
           /\ UNCHANGED <<request, pos, answer>>
  <2>1. request[t] \in Requests /\ ~ BadSkin(request[t])
    BY <1>3 DEF ThreadsInv, Saves, Get
  <2>2. WellFormed(Served(request[t], profile))
    BY <1>3, <2>1, ServedWellFormed
  <2>3. Served(request[t], profile) \in Profiles
    BY <2>2 DEF WellFormed
  <2> QED
    BY <1>3, <2>2, <2>3 DEF ThreadsInv, Goto, Pcs
<1> QED
  BY <1>1, <1>2, <1>3 DEF Loaded

LEMMA SavedKeeps ==
    ASSUME ThreadsInv, NEW t \in Threads, Saved(t)
    PROVE  /\ ThreadsInv'
           /\ \E label \in {"idle", "open"} : pc' = [pc EXCEPT ![t] = label]
           /\ pos' \in {pos, [pos EXCEPT ![t] = 1]}
<1>1. WellFormed(record[t])
  BY DEF ThreadsInv
<1>2. CASE Reply(t, Told(record[t]))
  <2>1. Told(record[t]) \in Answers /\ Told(record[t]).profile = record[t]
    BY <1>1 DEF Told, Answers, WellFormed
  <2> QED
    BY <1>1, <1>2, <2>1, ReplyKeeps
<1>3. CASE Loaded(t, record[t])
  BY <1>1, <1>3, LoadedKeeps
<1> QED
  BY <1>2, <1>3 DEF Saved
(***************************************************************************)
(* A step that leaves the file alone keeps the second part, if a thread    *)
(* that comes to scan or to write has found a file.                        *)
(***************************************************************************)
LEMMA FileKept ==
    ASSUME FileInv, UNCHANGED file,
           \A t \in Threads : pc'[t] \in {"scan", "write"} =>
               pc[t] \in {"scan", "write"} \/ FileExists
    PROVE  FileInv'
  BY DEF FileInv, FileExists

LEMMA FetchedWellFormed ==
    ASSUME ThreadsInv, FileInv, NEW t \in Threads, FetchHit(t)
    PROVE  WellFormed(NormalizeRecord(file[pos[t]].profile))
<1>1. pos[t] \in DOMAIN file /\ file[pos[t]].user = UserOf[t]
  BY DEF FetchHit, FileInv, FileExists, EndOfFile, Matches, ThreadsInv,
         GoodRecords
<1>2. file[pos[t]].user # NoUser
  BY <1>1, DbAssumption
<1>3. WellFormed(file[pos[t]].profile)
  BY <1>1, <1>2 DEF FetchHit, FileInv, FileExists, GoodRecords
<1> QED
  BY <1>3, NormalizeIdentity

LEMMA InitialFilesGood ==
    ASSUME NEW f \in InitialFiles
    PROVE  GoodRecords(f)
<1> DEFINE n == Cardinality(Established)
<1>1. n \in Nat
  BY FS_CardinalityType, DbAssumption
<1>2. f \in [1 .. n -> [user : Established, profile : InitialProfiles]]
  BY DEF InitialFiles
<1>3. \A i \in 1 .. n : f[i] \in Records /\ WellFormed(f[i].profile)
  <2> SUFFICES ASSUME NEW i \in 1 .. n
               PROVE  f[i] \in Records /\ WellFormed(f[i].profile)
    OBVIOUS
  <2>1. /\ f[i] \in [user : Established, profile : InitialProfiles]
        /\ f[i].user \in Users /\ f[i].profile \in InitialProfiles
    BY <1>2, DbAssumption
  <2>2. WellFormed(f[i].profile) /\ f[i].profile \in Profiles
    BY <2>1, DbAssumption DEF WellFormed
  <2> QED
    BY <2>1, <2>2 DEF Records
<1> HIDE DEF n
<1>4. f \in [1 .. n -> Records] /\ DOMAIN f = 1 .. n
  BY <1>2, <1>3
<1> QED
  BY <1>1, <1>3, <1>4, SeqDef DEF GoodRecords

LEMMA DbInit == Init => DbInv
<1> SUFFICES ASSUME Init PROVE DbInv
  OBVIOUS
<1>1. ThreadsInv
  <2>1. ~ BadSkin(Get) /\ TellNo("none") \in Answers /\ TellNo("none").status # "ok"
    BY DEF BadSkin, Get, TellNo, Answers
  <2>2. WellFormed(DefaultRecord) /\ DefaultRecord \in Profiles
    BY DefaultWellFormed DEF WellFormed
  <2> QED
    BY <2>1, <2>2 DEF Init, ThreadsInv, Pcs
<1>2. FileInv
  <2>1. \A t \in Threads : pc[t] \notin {"scan", "write"}
    BY DEF Init
  <2>2. CASE file \in InitialFiles
    BY <2>1, <2>2, InitialFilesGood DEF FileInv
  <2>3. CASE file = NoFile
    BY <2>1, <2>3 DEF FileInv, FileExists
  <2> QED
    BY <2>2, <2>3 DEF Init
<1> QED
  BY <1>1, <1>2, DbAssumption DEF Init, DbInv

LEMMA DbStep == DbInv /\ [Next]_vars => DbInv'
<1> SUFFICES ASSUME DbInv, [Next]_vars PROVE DbInv'
  OBVIOUS
<1>1. ThreadsInv /\ FileInv /\ calls \in 0 .. MaxCalls /\ MaxCalls \in Nat
  BY DbAssumption DEF DbInv
<1>2. \A t \in Threads : pc[t] \in {"scan", "write"} => FileExists
  BY <1>1 DEF FileInv
<1>c. ASSUME NEW t \in Threads, NEW what \in Requests \cup {Get},
             ~ BadSkin(what), Call(t, what)
      PROVE  DbInv'
  <2>1. ThreadsInv'
    BY <1>1, <1>c DEF ThreadsInv, Call, Goto, Rewind, Pcs
  <2>2. FileInv'
    BY <1>1, <1>c, FileKept DEF Call, Goto, ThreadsInv
  <2>3. calls' \in 0 .. MaxCalls
    BY <1>1, <1>c DEF Call
  <2> QED
    BY <2>1, <2>2, <2>3 DEF DbInv
<1>n. ASSUME NEW t \in Threads, NotFound(t)
      PROVE  DbInv'
  <2>1. WellFormed(DefaultRecord) /\ DefaultRecord \in Profiles
    BY DefaultWellFormed DEF WellFormed
  <2>2. ThreadsInv'
    BY <1>1, <1>n, <2>1 DEF ThreadsInv, NotFound, Goto, Pcs
  <2>3. FileInv'
    BY <1>1, <1>n, FileKept DEF NotFound, Goto, ThreadsInv
  <2> QED
    BY <1>1, <1>n, <2>2, <2>3 DEF DbInv, NotFound
<1> SUFFICES ASSUME NEW t \in Threads,
                    \/ Connect(t) \/ Disconnect(t)
                    \/ \E what \in Requests : Ask(t, what) \/ AskBadSkin(t, what)
                    \/ FetchNext(t) \/ FetchHit(t) \/ FetchMiss(t) \/ FetchOpenFails(t)
                    \/ Open(t) \/ OpenFails(t) \/ Create(t) \/ CreateFails(t)
                    \/ Scan(t) \/ Write(t) \/ FlushFails(t)
             PROVE  DbInv'
  <2>1. CASE Next
    BY <2>1 DEF Next
  <2>2. CASE UNCHANGED vars
    BY <2>2 DEF vars, DbInv, ThreadsInv, FileInv, FileExists
  <2> QED
    BY <2>1, <2>2
<1>3. CASE Connect(t)
  <2>1. ~ BadSkin(Get)
    BY DEF BadSkin, Get
  <2> QED
    BY <1>3, <1>c, <2>1 DEF Connect
<1>4. CASE Disconnect(t)
  <2>1. ThreadsInv'
    BY <1>1, <1>4 DEF ThreadsInv, Disconnect, Goto, Pcs
  <2>2. FileInv'
    BY <1>1, <1>4, FileKept DEF Disconnect, Goto, ThreadsInv
  <2> QED
    BY <1>1, <1>4, <2>1, <2>2 DEF DbInv, Disconnect
<1>5. ASSUME NEW what \in Requests, Ask(t, what) PROVE DbInv'
  BY <1>5, <1>c DEF Ask
<1>r. ASSUME NEW status \in {"refused", "error"}, Reply(t, TellNo(status)),
             UNCHANGED <<file, calls>>
      PROVE  DbInv'
  <2>1. TellNo(status) \in Answers /\ TellNo(status).status # "ok"
    BY <1>r DEF TellNo, Answers
  <2>2. ThreadsInv' /\ pc' = [pc EXCEPT ![t] = "idle"]
    BY <1>1, <1>r, <2>1, ReplyKeeps
  <2>3. FileInv'
    BY <1>1, <1>r, <2>2, FileKept DEF ThreadsInv
  <2> QED
    BY <1>1, <1>r, <2>2, <2>3 DEF DbInv
<1>6. ASSUME NEW what \in Requests, AskBadSkin(t, what) PROVE DbInv'
  BY <1>6, <1>r DEF AskBadSkin
<1>7. CASE FetchNext(t)
  <2>1. ThreadsInv'
    BY <1>1, <1>7 DEF ThreadsInv, FetchNext, Advance
  <2>2. FileInv'
    BY <1>1, <1>7, FileKept DEF FetchNext
  <2> QED
    BY <1>1, <1>7, <2>1, <2>2 DEF DbInv, FetchNext
<1>8. CASE FetchHit(t)
  <2>1. WellFormed(NormalizeRecord(file[pos[t]].profile))
    BY <1>1, <1>8, FetchedWellFormed
  <2>2. /\ ThreadsInv'
        /\ \E label \in {"idle", "open"} : pc' = [pc EXCEPT ![t] = label]
    BY <1>1, <1>8, <2>1, LoadedKeeps DEF FetchHit
  <2>3. FileInv'
    BY <1>1, <1>8, <2>2, FileKept DEF FetchHit, ThreadsInv
  <2> QED
    BY <1>1, <1>8, <2>2, <2>3 DEF DbInv, FetchHit
<1>9. CASE FetchMiss(t) \/ FetchOpenFails(t)
  BY <1>9, <1>n DEF FetchMiss, FetchOpenFails
<1>10. CASE Open(t)
  <2>1. ThreadsInv'
    BY <1>1, <1>10 DEF ThreadsInv, Open, Goto, Rewind, Pcs
  <2>2. FileInv'
    BY <1>1, <1>10, FileKept DEF Open, Goto, ThreadsInv
  <2> QED
    BY <1>1, <1>10, <2>1, <2>2 DEF DbInv, Open
<1>11. CASE OpenFails(t)
  <2>1. ThreadsInv'
    BY <1>1, <1>11 DEF ThreadsInv, OpenFails, Goto, Pcs
  <2>2. FileInv'
    BY <1>1, <1>11, FileKept DEF OpenFails, Goto, ThreadsInv
  <2> QED
    BY <1>1, <1>11, <2>1, <2>2 DEF DbInv, OpenFails
<1>12. CASE Create(t)
  <2>1. ThreadsInv'
    BY <1>1, <1>12 DEF ThreadsInv, Create, Goto, Rewind, Pcs
  <2>2. FileInv'
    <3>1. file' \in Seq(Records) /\ DOMAIN file' = {}
      BY <1>12, EmptySeq DEF Create
    <3>2. file' # NoFile
      BY <3>1, DbAssumption DEF Records
    <3> QED
      BY <3>1, <3>2 DEF FileInv, FileExists, GoodRecords
  <2> QED
    BY <1>1, <1>12, <2>1, <2>2 DEF DbInv, Create
<1>13. CASE CreateFails(t)
  BY <1>13, <1>r DEF CreateFails
<1>14. CASE Scan(t)
  <2>1. ThreadsInv'
    BY <1>1, <1>14 DEF ThreadsInv, Scan, Goto, Advance, Pcs
  <2>2. FileInv'
    BY <1>1, <1>2, <1>14, FileKept DEF Scan, Goto, ThreadsInv
  <2> QED
    BY <1>1, <1>14, <2>1, <2>2 DEF DbInv, Scan
<1>15. CASE Write(t)
  <2>1. /\ ThreadsInv'
        /\ \E label \in {"idle", "open"} : pc' = [pc EXCEPT ![t] = label]
    BY <1>1, <1>15, SavedKeeps DEF Write
  <2>2. FileInv'
    <3> DEFINE entry == Entry(UserOf[t], record[t])
    <3>1. GoodRecords(file) /\ pos[t] \in Nat \ {0}
      BY <1>1, <1>2, <1>15 DEF Write, FileInv, FileExists, ThreadsInv
    <3>2. entry \in Records /\ WellFormed(entry.profile)
      BY <1>1, DbAssumption DEF Entry, Records, ThreadsInv
    <3>3. file' = Overwrite(file, pos[t], entry)
      BY <1>15 DEF Write
    <3> HIDE DEF entry
    <3>4. GoodRecords(file')
      BY <3>1, <3>2, <3>3, OverwriteGood
    <3>5. file' # NoFile
      BY <3>4, DbAssumption DEF Records, GoodRecords
    <3> QED
      BY <3>4, <3>5 DEF FileInv, FileExists
  <2> QED
    BY <1>1, <1>15, <2>1, <2>2 DEF DbInv, Write
<1>16. CASE FlushFails(t)
  <2>1. /\ ThreadsInv'
        /\ \E label \in {"idle", "open"} : pc' = [pc EXCEPT ![t] = label]
    BY <1>1, <1>16, SavedKeeps DEF FlushFails
  <2>2. FileInv'
    BY <1>1, <1>16, <2>1, FileKept DEF FlushFails, ThreadsInv
  <2> QED
    BY <1>1, <1>16, <2>1, <2>2 DEF DbInv, FlushFails
<1> QED
  BY <1>3, <1>4, <1>5, <1>6, <1>7, <1>8, <1>9, <1>10, <1>11, <1>12, <1>13,
     <1>14, <1>15, <1>16

\* DbInv holds in every reachable state.
THEOREM DbInvariant == Spec => []DbInv
  BY DbInit, DbStep, PTL DEF Spec

(***************************************************************************)
(* The variables keep their types, whatever calls fail.                    *)
(***************************************************************************)
THEOREM DbTypeCorrect == Spec => []TypeOK
<1>1. DbInv => TypeOK
  BY DEF DbInv, ThreadsInv, FileInv, TypeOK, Records, GoodRecords
<1> QED
  BY <1>1, DbInvariant, PTL

(***************************************************************************)
(* Every profile in the file, in memory or told to a client is well        *)
(* formed, whatever calls fail: rewards and purchases neither overflow nor *)
(* leave a player with a skin that is not owned.                           *)
(***************************************************************************)
THEOREM ProfilesStayWellFormed == Spec => []ProfilesWellFormed
<1>1. DbInv => ProfilesWellFormed
  BY ProfileSurvives
  DEF DbInv, ThreadsInv, FileInv, ProfilesWellFormed, Entries, FileExists,
         GoodRecords
<1> QED
  BY <1>1, DbInvariant, PTL
(***************************************************************************)
(* One record per player.  While a thread scans, its player has no record  *)
(* before the place it has come to, and when it writes none at another     *)
(* place, for only that thread writes that player's name.                  *)
(***************************************************************************)
LoggedInOnce == \A s, t \in Threads : UserOf[s] = UserOf[t] => s = t

OneEach(f) ==
    \A i, j \in DOMAIN f : f[i].user = f[j].user /\ f[i].user # NoUser => i = j

NoneBefore(f, user, n) == \A j \in DOMAIN f : f[j].user = user => j >= n
OnlyAt(f, user, n)     == \A j \in DOMAIN f : f[j].user = user => j = n

KeyInv ==
    /\ FileExists => OneEach(file)
    /\ \A t \in Threads :
          /\ pc[t] = "scan" => NoneBefore(file, UserOf[t], pos[t])
          /\ pc[t] = "write" => OnlyAt(file, UserOf[t], pos[t])

LEMMA OverwriteKeys ==
    ASSUME NEW f \in Seq(Records), NEW i \in Nat \ {0}, NEW entry \in Records,
           entry.user \in Users, OneEach(f), OnlyAt(f, entry.user, i)
    PROVE  /\ OneEach(Overwrite(f, i, entry))
           /\ \A user \in Users \ {entry.user}, n \in Nat :
                 /\ NoneBefore(f, user, n)
                       => NoneBefore(Overwrite(f, i, entry), user, n)
                 /\ OnlyAt(f, user, n) => OnlyAt(Overwrite(f, i, entry), user, n)
<1> DEFINE g == Overwrite(f, i, entry)
           last == IF i > Len(f) THEN i ELSE Len(f)
<1>1. last \in Nat /\ DOMAIN f = 1 .. Len(f) /\ Len(f) \in Nat
  OBVIOUS
<1>2. g = [j \in 1 .. last |-> IF j = i THEN entry
                               ELSE IF j <= Len(f) THEN f[j] ELSE Hole]
  BY DEF Overwrite
<1> HIDE DEF g, last
\* A place with a name is the one written or has the name it had.
<1>3. \A j \in DOMAIN g :
         \/ j = i /\ g[j].user = entry.user
         \/ j \in DOMAIN f /\ j # i /\ g[j].user = f[j].user
         \/ g[j].user = NoUser
  <2> SUFFICES ASSUME NEW j \in 1 .. last
               PROVE  \/ j = i /\ g[j].user = entry.user
                      \/ j \in DOMAIN f /\ j # i /\ g[j].user = f[j].user
                      \/ g[j].user = NoUser
    BY <1>2
  <2>1. CASE j = i
    BY <1>2, <2>1
  <2>2. CASE j # i /\ j <= Len(f)
    BY <1>1, <1>2, <2>2
  <2>3. CASE j # i /\ ~ (j <= Len(f))
    BY <1>2, <2>3, HoleRecord
  <2> QED
    BY <2>1, <2>2, <2>3
<1>4. OneEach(g)
  <2> SUFFICES ASSUME NEW j \in DOMAIN g, NEW k \in DOMAIN g,
                      g[j].user = g[k].user, g[j].user # NoUser
               PROVE  j = k
    BY DEF OneEach
  <2> QED
    BY <1>3 DEF OneEach, OnlyAt
<1>5. \A user \in Users \ {entry.user}, n \in Nat :
         /\ NoneBefore(f, user, n) => NoneBefore(g, user, n)
         /\ OnlyAt(f, user, n) => OnlyAt(g, user, n)
  BY <1>3, DbAssumption DEF NoneBefore, OnlyAt
<1> QED
  BY <1>4, <1>5 DEF g

LEMMA KeyInit == Init => KeyInv
<1> SUFFICES ASSUME Init PROVE KeyInv
  OBVIOUS
<1>1. \A t \in Threads : pc[t] \notin {"scan", "write"}
  BY DEF Init
<1>2. CASE file \in InitialFiles
  <2> DEFINE n == Cardinality(Established)
  <2>1. file \in [1 .. n -> [user : Established, profile : InitialProfiles]]
    BY <1>2 DEF InitialFiles
  <2>2. \A user \in Established :
           \E i \in 1 .. n : \A j \in 1 .. n : file[j].user = user <=> j = i
    BY <1>2, <2>1 DEF InitialFiles
  <2> HIDE DEF n
  <2>3. \A i \in 1 .. n : file[i].user \in Established
    BY <2>1
  <2>4. OneEach(file)
    BY <2>1, <2>2, <2>3 DEF OneEach
  <2> QED
    BY <1>1, <2>4 DEF KeyInv
<1>3. CASE file = NoFile
  BY <1>1, <1>3 DEF KeyInv, FileExists
<1> QED
  BY <1>2, <1>3 DEF Init

\* Nothing of this changes while the file stays and a thread goes elsewhere.
LEMMA KeyKept ==
    ASSUME KeyInv, ThreadsInv, UNCHANGED file, NEW t \in Threads,
           \A s \in Threads \ {t} : pc'[s] = pc[s] /\ pos'[s] = pos[s],
           pc'[t] \notin {"scan", "write"}
    PROVE  KeyInv'
  BY DEF KeyInv, FileExists

LEMMA KeyStep ==
    ASSUME LoggedInOnce, DbInv, KeyInv, [Next]_vars
    PROVE  KeyInv'
<1>1. /\ ThreadsInv /\ FileInv
      /\ pc \in [Threads -> Pcs] /\ pos \in [Threads -> Nat \ {0}]
  BY DEF DbInv, ThreadsInv
<1>e. ASSUME NEW t \in Threads, UNCHANGED file,
             \E label \in {"idle", "open"} : pc' = [pc EXCEPT ![t] = label],
             pos' \in {pos, [pos EXCEPT ![t] = 1]}
      PROVE  KeyInv'
  BY <1>1, <1>e, KeyKept
<1>r. ASSUME NEW t \in Threads, NEW status \in {"refused", "error"},
             Reply(t, TellNo(status)), UNCHANGED file
      PROVE  KeyInv'
  BY <1>1, <1>r, <1>e DEF Reply, Goto, Rewind
<1> SUFFICES ASSUME NEW t \in Threads,
                    \/ Connect(t) \/ Disconnect(t)
                    \/ \E what \in Requests : Ask(t, what) \/ AskBadSkin(t, what)
                    \/ FetchNext(t) \/ FetchHit(t) \/ FetchMiss(t) \/ FetchOpenFails(t)
                    \/ Open(t) \/ OpenFails(t) \/ Create(t) \/ CreateFails(t)
                    \/ Scan(t) \/ Write(t) \/ FlushFails(t)
             PROVE  KeyInv'
  <2>1. CASE Next
    BY <2>1 DEF Next
  <2>2. CASE UNCHANGED vars
    BY <2>2 DEF vars, KeyInv, FileExists
  <2> QED
    BY <2>1, <2>2
<1>2. CASE Connect(t) \/ \E what \in Requests : Ask(t, what)
  BY <1>1, <1>2, KeyKept DEF Connect, Ask, Call, Goto, Rewind
<1>3. CASE Disconnect(t)
  BY <1>1, <1>3, KeyKept DEF Disconnect, Goto
<1>4. ASSUME NEW what \in Requests, AskBadSkin(t, what) PROVE KeyInv'
  BY <1>4, <1>r DEF AskBadSkin
<1>5. CASE FetchNext(t)
  BY <1>1, <1>5, KeyKept DEF FetchNext, Advance
<1>6. CASE FetchHit(t)
  <2>1. WellFormed(NormalizeRecord(file[pos[t]].profile))
    BY <1>1, <1>6, FetchedWellFormed
  <2> QED
    BY <1>1, <1>6, <1>e, <2>1, LoadedKeeps DEF FetchHit
<1>7. CASE FetchMiss(t) \/ FetchOpenFails(t)
  BY <1>1, <1>7, <1>e DEF FetchMiss, FetchOpenFails, NotFound, Goto
<1>8. CASE Open(t)
  <2>1. CASE ~ FileExists
    BY <1>1, <1>8, <2>1, KeyKept DEF Open, Goto, Rewind
  <2>2. CASE FileExists
    <3>1. NoneBefore(file, UserOf[t], 1)
      BY <1>1, <2>2 DEF NoneBefore, FileInv, FileExists, GoodRecords
    <3> QED
      BY <1>1, <1>8, <2>2, <3>1 DEF KeyInv, Open, Goto, Rewind, FileExists
  <2> QED
    BY <2>1, <2>2
<1>9. CASE OpenFails(t)
  BY <1>1, <1>9, KeyKept DEF OpenFails, Goto
<1>10. CASE Create(t)
  <2>1. DOMAIN file' = {}
    BY <1>10 DEF Create
  <2> QED
    BY <2>1 DEF KeyInv, OneEach, NoneBefore, OnlyAt
<1>11. CASE CreateFails(t)
  BY <1>11, <1>r DEF CreateFails
<1>12. CASE Scan(t)
  <2>1. /\ pc[t] = "scan" /\ FileExists /\ file \in Seq(Records)
        /\ OneEach(file) /\ NoneBefore(file, UserOf[t], pos[t])
    BY <1>1, <1>12 DEF Scan, KeyInv, FileInv, FileExists, GoodRecords
  <2>2. CASE EndOfFile(t)
    <3>1. OnlyAt(file, UserOf[t], pos[t])
      BY <1>1, <2>1, <2>2 DEF OnlyAt, NoneBefore, EndOfFile
    <3> QED
      BY <1>1, <1>12, <2>2, <3>1 DEF KeyInv, Scan, Goto, FileExists
  <2>3. CASE ~ EndOfFile(t) /\ Matches(t)
    <3>1. UserOf[t] # NoUser
      BY DbAssumption
    <3>2. OnlyAt(file, UserOf[t], pos[t])
      BY <1>1, <2>1, <2>3, <3>1 DEF OnlyAt, OneEach, EndOfFile, Matches
    <3> QED
      BY <1>1, <1>12, <2>3, <3>2 DEF KeyInv, Scan, Goto, FileExists
  <2>4. CASE ~ EndOfFile(t) /\ ~ Matches(t)
    <3>1. NoneBefore(file, UserOf[t], pos[t] + 1)
      BY <1>1, <2>1, <2>4 DEF NoneBefore, Matches
    <3> QED
      BY <1>1, <1>12, <2>4, <3>1 DEF KeyInv, Scan, Advance, FileExists
  <2> QED
    BY <2>2, <2>3, <2>4
<1>13. CASE Write(t)
  <2> DEFINE entry == Entry(UserOf[t], record[t])
  <2>1. /\ entry \in Records /\ entry.user = UserOf[t] /\ entry.user \in Users
    BY <1>1, DbAssumption DEF Entry, Records, ThreadsInv
  <2>2. /\ file \in Seq(Records) /\ OneEach(file) /\ FileExists
        /\ OnlyAt(file, UserOf[t], pos[t]) /\ pos[t] \in Nat \ {0}
    BY <1>1, <1>13 DEF Write, KeyInv, FileInv, FileExists, GoodRecords
  <2>3. file' = Overwrite(file, pos[t], entry)
    BY <1>13 DEF Write
  <2> HIDE DEF entry
  <2>4. /\ OneEach(file')
        /\ \A user \in Users \ {UserOf[t]}, n \in Nat :
              /\ NoneBefore(file, user, n) => NoneBefore(file', user, n)
              /\ OnlyAt(file, user, n) => OnlyAt(file', user, n)
    BY <2>1, <2>2, <2>3, OverwriteKeys
  <2>5. \A s \in Threads \ {t} : UserOf[s] \in Users \ {UserOf[t]}
    BY DbAssumption DEF LoggedInOnce
  <2>6. /\ \E label \in {"idle", "open"} : pc' = [pc EXCEPT ![t] = label]
        /\ pos' \in {pos, [pos EXCEPT ![t] = 1]}
    BY <1>1, <1>13, SavedKeeps DEF Write
  <2> QED
    BY <1>1, <2>4, <2>5, <2>6 DEF KeyInv
<1>14. CASE FlushFails(t)
  BY <1>1, <1>14, <1>e, SavedKeeps DEF FlushFails
<1> QED
  BY <1>2, <1>3, <1>4, <1>5, <1>6, <1>7, <1>8, <1>9, <1>10, <1>11, <1>12,
     <1>13, <1>14

(***************************************************************************)
(* No player has two records, whatever calls fail and even when the file   *)
(* is emptied, if each player is logged in once.                           *)
(***************************************************************************)
THEOREM OneRecordEach ==
    ASSUME LoggedInOnce
    PROVE  Spec => []OneRecordPerPlayer
<1>1. DbInv /\ KeyInv /\ [Next]_vars => KeyInv'
  BY KeyStep
<1>2. KeyInv => OneRecordPerPlayer
  BY DEF KeyInv, OneEach, OneRecordPerPlayer
<1> QED
  BY <1>1, <1>2, KeyInit, DbInvariant, PTL DEF Spec
-----------------------------------------------------------------------------
(***************************************************************************)
(* The player database implements the ProfileStore, for the players that   *)
(* have a record and are logged in once, when no call fails.               *)
(***************************************************************************)
KnownPlayers ==
    /\ LoggedInOnce
    /\ Established # {}
    /\ \A user \in Established : \E t \in Threads : UserOf[t] = user
    /\ Faults = {}

IsKnown(t) == UserOf[t] \in Established

At(f, user, i) == i \in DOMAIN f /\ f[i].user = user

ProfileIn(f, user) == (CHOOSE entry \in {f[i] : i \in DOMAIN f} :
                            entry.user = user).profile

(***************************************************************************)
(* The invariant of the refinement.  The records of known players are      *)
(* where they were at the start, so that their scans always find them and  *)
(* a new player's never stops at one; and from the moment such a player's  *)
(* profile is read until it is written, what is stored is what was read.   *)
(***************************************************************************)
Serving(t) ==
    LET profile == ProfileIn(file, UserOf[t])
    IN  /\ saving[t]
        /\ ~ Refused(request[t], profile)
        /\ Saves(request[t], profile)
        /\ record[t] = Served(request[t], profile)

ThreadStoreInv(t) ==
    /\ pc[t] # "create"
    /\ pc[t] = "fetch" => NoneBefore(file, UserOf[t], pos[t])
    /\ IsKnown(t) => /\ pc[t] \in {"open", "scan", "write"} => Serving(t)
                     /\ pc[t] = "write" => At(file, UserOf[t], pos[t])
    /\ ~ IsKnown(t) /\ pc[t] = "write" =>
            \A user \in Established : ~ At(file, user, pos[t])

StoreInv ==
    /\ FileExists
    /\ \A user \in Established : \E i \in DOMAIN file : At(file, user, i)
    /\ \A t \in Threads : ThreadStoreInv(t)

(***************************************************************************)
(* The stored profiles                                                     *)
(***************************************************************************)
LEMMA ProfileInAt ==
    ASSUME NEW f, OneEach(f), NEW user \in Users, NEW i, At(f, user, i)
    PROVE  ProfileIn(f, user) = f[i].profile
<1> DEFINE entries == {f[j] : j \in DOMAIN f}
           entry == CHOOSE e \in entries : e.user = user
<1>1. f[i] \in entries /\ f[i].user = user
  BY DEF At
<1>2. entry \in entries /\ entry.user = user
  BY <1>1
<1>3. PICK j \in DOMAIN f : entry = f[j]
  BY <1>2
<1>4. j = i
  BY <1>1, <1>2, <1>3, DbAssumption DEF OneEach, At
<1> QED
  BY <1>3, <1>4 DEF ProfileIn

LEMMA StoredIs ==
    /\ FileExists =>
          StoredProfiles = [user \in Established |-> ProfileIn(file, user)]
    /\ FileExists' =>
          StoredProfiles' = [user \in Established |-> ProfileIn(file', user)]
<1>1. ASSUME FileExists, NEW user
      PROVE  StoredProfile(user) = ProfileIn(file, user)
  <2>1. Entries = {file[i] : i \in DOMAIN file}
    BY <1>1 DEF Entries
  <2> QED
    BY <2>1 DEF StoredProfile, ProfileIn
<1>2. ASSUME FileExists', NEW user
      PROVE  StoredProfile(user)' = ProfileIn(file', user)
  <2>1. Entries' = {file'[i] : i \in DOMAIN file'}
    BY <1>2 DEF Entries
  <2> QED
    BY <2>1 DEF StoredProfile, ProfileIn
<1> QED
  BY <1>1, <1>2 DEF StoredProfiles

\* A write at a place of no other known player.
LEMMA OverwriteKnown ==
    ASSUME NEW f \in Seq(Records), NEW i \in Nat \ {0}, NEW entry \in Records,
           entry.user \in Users, OneEach(f), OnlyAt(f, entry.user, i),
           \A user \in Established : At(f, user, i) <=> user = entry.user,
           NEW user \in Established
    PROVE  /\ \A j : At(Overwrite(f, i, entry), user, j) <=> At(f, user, j)
           /\ (\E j : At(f, user, j)) =>
                 ProfileIn(Overwrite(f, i, entry), user) =
                    IF user = entry.user THEN entry.profile
                                         ELSE ProfileIn(f, user)
<1> DEFINE g == Overwrite(f, i, entry)
           last == IF i > Len(f) THEN i ELSE Len(f)
<1>1. last \in Nat /\ DOMAIN f = 1 .. Len(f) /\ Len(f) \in Nat /\ Len(f) <= last
  OBVIOUS
<1>2. g = [j \in 1 .. last |-> IF j = i THEN entry
                               ELSE IF j <= Len(f) THEN f[j] ELSE Hole]
  BY DEF Overwrite
<1> HIDE DEF g, last
<1>3. user \in Users /\ user # NoUser
  BY DbAssumption
<1>4. ASSUME NEW j PROVE At(g, user, j) <=> At(f, user, j)
  <2>1. CASE j = i
    BY <1>1, <1>2, <1>3, <2>1 DEF At
  <2>2. CASE j # i /\ j \in 1 .. Len(f)
    BY <1>1, <1>2, <2>2 DEF At
  <2>3. CASE j # i /\ j \notin 1 .. Len(f)
    BY <1>1, <1>2, <1>3, <2>3, HoleRecord DEF At
  <2> QED
    BY <2>1, <2>2, <2>3
<1>5. OneEach(g)
  BY OverwriteKeys DEF g
<1>6. ASSUME NEW j, At(f, user, j)
      PROVE  ProfileIn(g, user) = IF user = entry.user THEN entry.profile
                                                       ELSE ProfileIn(f, user)
  <2>1. /\ ProfileIn(g, user) = g[j].profile
        /\ ProfileIn(f, user) = f[j].profile
    BY <1>3, <1>4, <1>5, <1>6, ProfileInAt
  <2>2. CASE user = entry.user
    <3>1. j = i /\ i \in 1 .. last
      BY <1>1, <1>6, <2>2 DEF OnlyAt, At
    <3> QED
      BY <1>2, <2>1, <2>2, <3>1
  <2>3. CASE user # entry.user
    <3>1. j # i /\ j \in 1 .. Len(f) /\ j \in 1 .. last
      BY <1>1, <1>6, <2>3 DEF At
    <3> QED
      BY <1>2, <2>1, <2>3, <3>1
  <2> QED
    BY <2>2, <2>3
<1> QED
  BY <1>4, <1>6 DEF g

(***************************************************************************)
(* The answers                                                             *)
(***************************************************************************)
LEMMA ThreadOfKnown ==
    ASSUME KnownPlayers
    PROVE  /\ \A user \in Established :
                 ThreadOf(user) \in Threads /\ UserOf[ThreadOf(user)] = user
           /\ \A t \in Threads : ThreadOf(UserOf[t]) = t
  BY DEF KnownPlayers, LoggedInOnce, ThreadOf

LEMMA AnswerOne ==
    ASSUME KnownPlayers, ThreadsInv, NEW t \in Threads, NEW told,
           answer' = [answer EXCEPT ![t] = told]
    PROVE  PlayerAnswers' = IF IsKnown(t)
                            THEN [PlayerAnswers EXCEPT ![UserOf[t]] = told]
                            ELSE PlayerAnswers
<1>1. /\ PlayerAnswers' = [user \in Established |-> answer'[ThreadOf(user)]]
      /\ PlayerAnswers = [user \in Established |-> answer[ThreadOf(user)]]
  BY DEF PlayerAnswers
<1>2. ASSUME NEW user \in Established
      PROVE  answer'[ThreadOf(user)] =
                IF user = UserOf[t] THEN told ELSE answer[ThreadOf(user)]
  BY ThreadOfKnown DEF ThreadsInv
<1> QED
  BY <1>1, <1>2 DEF IsKnown

(***************************************************************************)
(* ProfileStore has the operators of Profiles under names of its own.      *)
(***************************************************************************)
LEMMA SameOperators ==
    /\ Store!Requests = Requests
    /\ Store!Profiles = Profiles
    /\ \A profile : /\ Store!WellFormed(profile) <=> WellFormed(profile)
                    /\ Store!Told(profile) = Told(profile)
    /\ \A status : Store!TellNo(status) = TellNo(status)
    /\ \A what : Store!BadSkin(what) <=> BadSkin(what)
    /\ \A what, profile :
          /\ Store!Refused(what, profile) <=> Refused(what, profile)
          /\ Store!Saves(what, profile) <=> Saves(what, profile)
<1>1. /\ Store!Skins = Skins /\ Store!SkinIndexes = SkinIndexes
      /\ \A i : Store!ResolveSkinPrice(i) = ResolveSkinPrice(i)
  BY DEF Store!Skins, Skins, Store!SkinIndexes, SkinIndexes,
         Store!ResolveSkinPrice, ResolveSkinPrice
<1>2. Store!Requests = Requests /\ Store!Profiles = Profiles
  BY <1>1 DEF Store!Requests, Requests, Store!Profiles, Profiles
<1>3. \A profile : /\ Store!WellFormed(profile) <=> WellFormed(profile)
                   /\ Store!Told(profile) = Told(profile)
  BY <1>2 DEF Store!WellFormed, WellFormed, Store!Told, Told
<1>4. \A status : Store!TellNo(status) = TellNo(status)
  BY DEF Store!TellNo, TellNo, Store!NoProfile, NoProfile
<1>5. \A what : Store!BadSkin(what) <=> BadSkin(what)
  BY <1>1 DEF Store!BadSkin, BadSkin
<1>6. \A what, profile :
         /\ Store!Refused(what, profile) <=> Refused(what, profile)
         /\ Store!Saves(what, profile) <=> Saves(what, profile)
  BY <1>1 DEF Store!Refused, Refused, Store!Saves, Saves
<1> QED
  BY <1>2, <1>3, <1>4, <1>5, <1>6

LEMMA SameServed ==
    ASSUME NEW what, NEW profile
    PROVE  Store!Served(what, profile) = Served(what, profile)
  BY DEF Store!Served, Served, Store!NormalizeRecord, NormalizeRecord,
         Store!ApplyMatchRewards, ApplyMatchRewards, Store!AddLevels, AddLevels,
         Store!AddSouls, AddSouls, Store!PurchaseSkin, PurchaseSkin,
         Store!ResolveSkinPrice, ResolveSkinPrice, Store!Skins, Skins,
         Store!EquipSkin, EquipSkin, Store!Min, Min

(***************************************************************************)
(* How steps look from the store: most change nothing there; some answer;  *)
(* the write of a known player's profile is its change.                    *)
(***************************************************************************)
StepInv == DbInv /\ KeyInv /\ StoreInv

LEMMA StoredKept ==
    ASSUME FileExists, UNCHANGED file
    PROVE  StoredProfiles' = StoredProfiles
<1>1. FileExists'
  BY DEF FileExists
<1> QED
  BY <1>1, StoredIs

LEMMA QuietStoreStep ==
    ASSUME FileExists, UNCHANGED <<file, answer>>
    PROVE  [Store!Next]_(Store!storeVars)
<1>1. StoredProfiles' = StoredProfiles
  BY StoredKept
<1>2. PlayerAnswers' = PlayerAnswers
  BY DEF PlayerAnswers
<1> QED
  BY <1>1, <1>2 DEF Store!storeVars

LEMMA AnswerSimulation ==
    ASSUME KnownPlayers, StepInv, NEW t \in Threads, NEW told,
           UNCHANGED file, answer' = [answer EXCEPT ![t] = told],
           IsKnown(t) =>
              \/ told = Told(ProfileIn(file, UserOf[t]))
              \/ /\ told = TellNo("refused")
                 /\ \E what \in Requests :
                       \/ BadSkin(what)
                       \/ Refused(what, ProfileIn(file, UserOf[t]))
    PROVE  [Store!Next]_(Store!storeVars)
<1>1. FileExists /\ ThreadsInv
  BY DEF StepInv, StoreInv, DbInv
<1>2. StoredProfiles' = StoredProfiles
  BY <1>1, StoredKept
<1>3. CASE IsKnown(t)
  <2>1. /\ UserOf[t] \in Established
        /\ PlayerAnswers' = [PlayerAnswers EXCEPT ![UserOf[t]] = told]
        /\ StoredProfiles[UserOf[t]] = ProfileIn(file, UserOf[t])
    BY <1>1, <1>3, AnswerOne, StoredIs DEF IsKnown
  <2>2. CASE told = Told(ProfileIn(file, UserOf[t]))
    <3>1. Store!Load(UserOf[t])
      BY <1>2, <2>1, <2>2, SameOperators DEF Store!Load, Store!Answer
    <3> QED
      BY <2>1, <3>1 DEF Store!Next
  <2>3. ASSUME NEW what \in Requests, told = TellNo("refused"),
               BadSkin(what) \/ Refused(what, ProfileIn(file, UserOf[t]))
        PROVE  Store!Next
    <3>1. Store!Refuse(UserOf[t], what)
      BY <1>2, <2>1, <2>3, SameOperators DEF Store!Refuse, Store!Answer
    <3> QED
      BY <2>1, <2>3, <3>1, SameOperators DEF Store!Next
  <2> QED
    BY <1>3, <2>2, <2>3
<1>4. CASE ~ IsKnown(t)
  BY <1>1, <1>2, <1>4, AnswerOne DEF Store!storeVars
<1> QED
  BY <1>3, <1>4

(***************************************************************************)
(* The invariant, for steps that leave the file alone                      *)
(***************************************************************************)
LEMMA StoreInvKept ==
    ASSUME StoreInv, UNCHANGED file, NEW t \in Threads,
           \A s \in Threads \ {t} :
              /\ pc'[s] = pc[s] /\ pos'[s] = pos[s] /\ saving'[s] = saving[s]
              /\ request'[s] = request[s] /\ record'[s] = record[s],
           ThreadStoreInv(t)'
    PROVE  StoreInv'
<1>1. \A s \in Threads \ {t} : ThreadStoreInv(s)'
  BY DEF StoreInv, ThreadStoreInv, Serving
<1> QED
  BY <1>1 DEF StoreInv, FileExists

\* A known player's scan does not reach the end.
LEMMA KnownFound ==
    ASSUME StepInv, NEW t \in Threads, IsKnown(t),
           NoneBefore(file, UserOf[t], pos[t])
    PROVE  FileExists /\ ~ EndOfFile(t)
<1>1. PICK i \in DOMAIN file : At(file, UserOf[t], i)
  BY DEF StepInv, StoreInv, IsKnown
<1>2. i >= pos[t]
  BY <1>1 DEF NoneBefore, At
<1>3. FileExists /\ DOMAIN file = 1 .. Len(file) /\ Len(file) \in Nat
  BY DEF StepInv, StoreInv, DbInv, FileInv, FileExists, GoodRecords
<1>4. pos[t] \in Nat
  BY DEF StepInv, DbInv, ThreadsInv
<1> QED
  BY <1>1, <1>2, <1>3, <1>4 DEF EndOfFile

LEMMA LoadedSimulation ==
    ASSUME KnownPlayers, StepInv, NEW t \in Threads, NEW profile,
           UNCHANGED file, Loaded(t, profile),
           IsKnown(t) => profile = ProfileIn(file, UserOf[t])
    PROVE  StoreInv' /\ [Store!Next]_(Store!storeVars)
<1>1. ThreadsInv /\ StoreInv /\ FileExists
  BY DEF StepInv, DbInv, StoreInv
<1> USE <1>1 DEF ThreadsInv
<1>2. ASSUME NEW told, Reply(t, told),
             IsKnown(t) =>
                \/ told = Told(ProfileIn(file, UserOf[t]))
                \/ /\ told = TellNo("refused")
                   /\ \E what \in Requests :
                         \/ BadSkin(what)
                         \/ Refused(what, ProfileIn(file, UserOf[t]))
      PROVE  StoreInv' /\ [Store!Next]_(Store!storeVars)
  <2>1. ThreadStoreInv(t)'
    BY <1>2 DEF Reply, Goto, ThreadStoreInv
  <2>2. StoreInv'
    BY <1>2, <2>1, StoreInvKept DEF Reply, Goto, Rewind
  <2>3. [Store!Next]_(Store!storeVars)
    BY <1>2, AnswerSimulation DEF Reply
  <2> QED
    BY <2>2, <2>3
<1>3. CASE Refused(request[t], profile) /\ Reply(t, TellNo("refused"))
  <2>1. request[t] \in Requests
    BY <1>3 DEF Refused, Get
  <2> QED
    BY <1>2, <1>3, <2>1
<1>4. CASE Reply(t, Told(profile))
  BY <1>2, <1>4
<1>5. CASE /\ ~ Refused(request[t], profile)
           /\ Saves(request[t], profile)
           /\ record' = [record EXCEPT ![t] = Served(request[t], profile)]
           /\ saving' = [saving EXCEPT ![t] = TRUE]
           /\ Goto(t, "open")
           /\ UNCHANGED <<request, pos, answer>>
  <2>1. ThreadStoreInv(t)'
    BY <1>5 DEF Goto, ThreadStoreInv, Serving, IsKnown
  <2>2. StoreInv'
    BY <1>5, <2>1, StoreInvKept DEF Goto
  <2>3. [Store!Next]_(Store!storeVars)
    BY <1>5, QuietStoreStep
  <2> QED
    BY <2>2, <2>3
<1> QED
  BY <1>3, <1>4, <1>5 DEF Loaded

(***************************************************************************)
(* The write                                                               *)
(***************************************************************************)
LEMMA WriteSimulation ==
    ASSUME KnownPlayers, StepInv, NEW t \in Threads, Write(t)
    PROVE  StoreInv' /\ [Store!Next]_(Store!storeVars)
<1> DEFINE u == UserOf[t]
           entry == Entry(u, record[t])
<1>1. /\ ThreadsInv /\ StoreInv /\ FileExists /\ GoodRecords(file)
      /\ file \in Seq(Records) /\ OneEach(file)
      /\ OnlyAt(file, u, pos[t]) /\ pos[t] \in Nat \ {0}
      /\ ThreadStoreInv(t) /\ u \in Users /\ pc[t] = "write"
  BY DbAssumption DEF StepInv, StoreInv, DbInv, FileInv, FileExists,
     GoodRecords, KeyInv, ThreadsInv, Write
<1>2. /\ entry \in Records /\ entry.user = u /\ entry.profile = record[t]
      /\ WellFormed(entry.profile)
  BY <1>1 DEF Entry, Records, ThreadsInv
<1>3. file' = Overwrite(file, pos[t], entry)
  BY DEF Write
<1>4. \A user \in Established : At(file, user, pos[t]) <=> user = u
  BY <1>1 DEF ThreadStoreInv, IsKnown, At
<1> HIDE DEF entry
<1>5. ASSUME NEW user \in Established
      PROVE  /\ \A j : At(file', user, j) <=> At(file, user, j)
             /\ ProfileIn(file', user) = IF user = u THEN record[t]
                                                     ELSE ProfileIn(file, user)
  <2>1. \E j : At(file, user, j)
    BY <1>1 DEF StoreInv
  <2> QED
    BY <1>1, <1>2, <1>3, <1>4, <2>1, OverwriteKnown
<1>6. FileExists'
  <2>1. GoodRecords(file')
    BY <1>1, <1>2, <1>3, OverwriteGood
  <2> QED
    BY <2>1, DbAssumption DEF GoodRecords, Records, FileExists
<1>7. StoredProfiles' = IF IsKnown(t)
                        THEN [StoredProfiles EXCEPT ![u] = record[t]]
                        ELSE StoredProfiles
  <2>1. /\ StoredProfiles = [user \in Established |-> ProfileIn(file, user)]
        /\ StoredProfiles' = [user \in Established |-> ProfileIn(file', user)]
    BY <1>1, <1>6, StoredIs
  <2> QED
    BY <1>5, <2>1 DEF IsKnown
<1>8. /\ \A s \in Threads \ {t} : /\ pc'[s] = pc[s] /\ pos'[s] = pos[s]
                                  /\ saving'[s] = saving[s]
                                  /\ request'[s] = request[s]
                                  /\ record'[s] = record[s]
      /\ pc'[t] \in {"idle", "open"}
      /\ \/ UNCHANGED answer
         \/ \E told : answer' = [answer EXCEPT ![t] = told]
  BY <1>1 DEF Write, Saved, Loaded, Reply, Goto, Rewind, ThreadsInv
<1>9. IsKnown(t) => /\ Serving(t) /\ Reply(t, Told(record[t]))
  BY <1>1 DEF ThreadStoreInv, Serving, Write, Saved
<1>10. StoreInv'
  <2>1. \A user \in Established : \E i \in DOMAIN file' : At(file', user, i)
    BY <1>1, <1>5 DEF StoreInv, At
  <2>2. ThreadStoreInv(t)'
    <3>1. IsKnown(t) => pc'[t] = "idle"
      BY <1>1, <1>9 DEF Reply, Goto, ThreadsInv
    <3> QED
      BY <1>8, <3>1 DEF ThreadStoreInv, IsKnown
  <2>3. ASSUME NEW s \in Threads \ {t}
        PROVE  ThreadStoreInv(s)'
    <3>1. ThreadStoreInv(s) /\ UserOf[s] # u /\ UserOf[s] \in Users /\ pos[s] \in Nat
      BY <1>1, DbAssumption DEF StoreInv, KnownPlayers, LoggedInOnce, ThreadsInv
    <3>2. NoneBefore(file, UserOf[s], pos[s]) => NoneBefore(file', UserOf[s], pos[s])
      BY <1>1, <1>2, <1>3, <3>1, OverwriteKeys
    <3>3. IsKnown(s) => /\ ProfileIn(file', UserOf[s]) = ProfileIn(file, UserOf[s])
                        /\ At(file', UserOf[s], pos[s]) <=> At(file, UserOf[s], pos[s])
      BY <1>5, <3>1 DEF IsKnown
    <3>4. \A user \in Established : At(file', user, pos[s]) <=> At(file, user, pos[s])
      BY <1>5
    <3>5. IsKnown(s) /\ Serving(s) => Serving(s)'
      BY <1>8, <3>3 DEF Serving
    <3> QED
      BY <1>8, <3>1, <3>2, <3>3, <3>4, <3>5 DEF ThreadStoreInv, IsKnown
  <2> QED
    BY <1>6, <2>1, <2>2, <2>3 DEF StoreInv
<1>11. [Store!Next]_(Store!storeVars)
  <2>1. CASE IsKnown(t)
    <3>1. /\ u \in Established /\ request[t] \in Requests
          /\ ~ BadSkin(request[t])
          /\ StoredProfiles[u] = ProfileIn(file, u)
      BY <1>1, <1>9, <2>1, StoredIs
      DEF IsKnown, Serving, Saves, Get, ThreadsInv
    <3>2. /\ PlayerAnswers' = [PlayerAnswers EXCEPT ![u] = Told(record[t])]
          /\ StoredProfiles' = [StoredProfiles EXCEPT ![u] = record[t]]
      BY <1>1, <1>7, <1>9, <2>1, AnswerOne DEF Reply
    <3>3. /\ ~ Refused(request[t], StoredProfiles[u])
          /\ Saves(request[t], StoredProfiles[u])
          /\ record[t] = Served(request[t], StoredProfiles[u])
      BY <1>9, <2>1, <3>1 DEF Serving
    <3>4. StoredProfiles'[u] = record[t]
      BY <3>1, <3>2 DEF StoredProfiles
    <3>5. Store!Change(u, request[t])
      BY <3>1, <3>2, <3>3, <3>4, SameOperators, SameServed
      DEF Store!Change, Store!Answer
    <3> QED
      BY <3>1, <3>5, SameOperators DEF Store!Next
  <2>2. CASE ~ IsKnown(t)
    <3>1. StoredProfiles' = StoredProfiles
      BY <1>7, <2>2
    <3>2. PlayerAnswers' = PlayerAnswers
      BY <1>1, <1>8, <2>2, AnswerOne DEF PlayerAnswers
    <3> QED
      BY <3>1, <3>2 DEF Store!storeVars
  <2> QED
    BY <2>1, <2>2
<1> QED
  BY <1>10, <1>11

(***************************************************************************)
(* All steps                                                               *)
(***************************************************************************)
LEMMA StoreStep ==
    ASSUME KnownPlayers, StepInv, [Next]_vars
    PROVE  StoreInv' /\ [Store!Next]_(Store!storeVars)
<1>1. /\ ThreadsInv /\ FileInv /\ StoreInv /\ FileExists /\ KeyInv
      /\ pc \in [Threads -> Pcs] /\ pos \in [Threads -> Nat \ {0}]
      /\ file \in Seq(Records) /\ "open" \notin Faults /\ "flush" \notin Faults
  BY DEF StepInv, DbInv, ThreadsInv, StoreInv, FileInv, FileExists,
     GoodRecords, KnownPlayers
<1> SUFFICES ASSUME NEW t \in Threads,
                    \/ Connect(t) \/ Disconnect(t)
                    \/ \E what \in Requests : Ask(t, what) \/ AskBadSkin(t, what)
                    \/ FetchNext(t) \/ FetchHit(t) \/ FetchMiss(t) \/ FetchOpenFails(t)
                    \/ Open(t) \/ OpenFails(t) \/ Create(t) \/ CreateFails(t)
                    \/ Scan(t) \/ Write(t) \/ FlushFails(t)
             PROVE  StoreInv' /\ [Store!Next]_(Store!storeVars)
  <2>1. CASE Next
    BY <2>1 DEF Next
  <2>2. CASE UNCHANGED vars
    <3>1. StoreInv'
      BY <1>1, <2>2 DEF vars, StoreInv, FileExists, ThreadStoreInv, Serving
    <3> QED
      BY <1>1, <2>2, <3>1, QuietStoreStep DEF vars
  <2> QED
    BY <2>1, <2>2
<1>2. ThreadStoreInv(t)
  BY <1>1 DEF StoreInv
\* Steps that neither touch the file nor answer.
<1>q. ASSUME UNCHANGED <<file, answer>>,
             \A s \in Threads \ {t} :
                /\ pc'[s] = pc[s] /\ pos'[s] = pos[s] /\ saving'[s] = saving[s]
                /\ request'[s] = request[s] /\ record'[s] = record[s],
             ThreadStoreInv(t)'
      PROVE  StoreInv' /\ [Store!Next]_(Store!storeVars)
  BY <1>1, <1>q, QuietStoreStep, StoreInvKept
<1>3. ASSUME NEW what, Call(t, what)
      PROVE  StoreInv' /\ [Store!Next]_(Store!storeVars)
  <2>1. NoneBefore(file, UserOf[t], 1)
    BY <1>1 DEF NoneBefore
  <2>2. ThreadStoreInv(t)'
    BY <1>1, <1>3, <2>1 DEF Call, Goto, Rewind, ThreadStoreInv
  <2> QED
    BY <1>1, <1>3, <1>q, <2>2 DEF Call, Goto, Rewind, ThreadsInv
<1>4. CASE Disconnect(t)
  <2>1. ThreadStoreInv(t)'
    BY <1>1, <1>4 DEF Disconnect, Goto, ThreadStoreInv
  <2> QED
    BY <1>1, <1>4, <1>q, <2>1 DEF Disconnect, Goto
<1>5. ASSUME NEW what \in Requests, AskBadSkin(t, what)
      PROVE  StoreInv' /\ [Store!Next]_(Store!storeVars)
  <2>1. ThreadStoreInv(t)'
    BY <1>1, <1>5 DEF AskBadSkin, Reply, Goto, ThreadStoreInv
  <2>2. StoreInv'
    BY <1>1, <1>5, <2>1, StoreInvKept
    DEF AskBadSkin, Reply, Goto, Rewind, ThreadsInv
  <2>3. [Store!Next]_(Store!storeVars)
    BY <1>5, AnswerSimulation DEF AskBadSkin, Reply
  <2> QED
    BY <2>2, <2>3
<1>6. CASE FetchNext(t)
  <2>1. NoneBefore(file, UserOf[t], pos[t] + 1)
    BY <1>1, <1>2, <1>6 DEF FetchNext, Matches, NoneBefore, ThreadStoreInv
  <2>2. ThreadStoreInv(t)'
    BY <1>1, <1>6, <2>1 DEF FetchNext, Advance, ThreadStoreInv
  <2> QED
    BY <1>1, <1>6, <1>q, <2>2 DEF FetchNext, Advance
<1>7. CASE FetchHit(t)
  <2>1. At(file, UserOf[t], pos[t]) /\ UserOf[t] \in Users
    BY <1>1, <1>7, DbAssumption DEF FetchHit, EndOfFile, Matches, At
  <2>2. ProfileIn(file, UserOf[t]) = file[pos[t]].profile
    BY <1>1, <2>1, ProfileInAt DEF KeyInv
  <2>3. WellFormed(file[pos[t]].profile)
    BY <1>1, <2>1, DbAssumption DEF At, FileInv, FileExists, GoodRecords
  <2>4. NormalizeRecord(file[pos[t]].profile) = ProfileIn(file, UserOf[t])
    BY <2>2, <2>3, NormalizeIdentity
  <2> QED
    BY <1>7, <2>4, LoadedSimulation DEF FetchHit
<1>8. CASE FetchMiss(t)
  <2>1. ~ IsKnown(t)
    BY <1>1, <1>2, <1>8, KnownFound DEF FetchMiss, ThreadStoreInv
  <2>2. ThreadStoreInv(t)'
    BY <1>1, <1>8, <2>1 DEF FetchMiss, NotFound, Goto, ThreadStoreInv, IsKnown
  <2> QED
    BY <1>1, <1>8, <1>q, <2>2 DEF FetchMiss, NotFound, Goto, ThreadsInv
<1>9. CASE Open(t)
  <2>1. ThreadStoreInv(t)'
    BY <1>1, <1>2, <1>9
    DEF Open, Goto, Rewind, ThreadStoreInv, Serving, IsKnown
  <2> QED
    BY <1>1, <1>9, <1>q, <2>1 DEF Open, Goto, Rewind
<1>10. CASE Scan(t)
  <2>1. NoneBefore(file, UserOf[t], pos[t])
    BY <1>1, <1>10 DEF Scan, KeyInv
  <2>2. CASE EndOfFile(t) \/ Matches(t)
    <3>1. IsKnown(t) => At(file, UserOf[t], pos[t])
      BY <1>1, <2>1, <2>2, KnownFound DEF EndOfFile, Matches, At
    <3>2. ~ IsKnown(t) => \A user \in Established : ~ At(file, user, pos[t])
      BY <1>1, <2>2 DEF EndOfFile, Matches, At, IsKnown
    <3>3. ThreadStoreInv(t)'
      BY <1>1, <1>2, <1>10, <2>2, <3>1, <3>2
      DEF Scan, Goto, ThreadStoreInv, Serving, IsKnown
    <3> QED
      BY <1>1, <1>10, <1>q, <2>2, <3>3 DEF Scan, Goto
  <2>3. CASE ~ (EndOfFile(t) \/ Matches(t))
    <3>1. ThreadStoreInv(t)'
      BY <1>1, <1>2, <1>10, <2>3
      DEF Scan, Advance, ThreadStoreInv, Serving, IsKnown
    <3> QED
      BY <1>1, <1>10, <1>q, <2>3, <3>1 DEF Scan, Advance
  <2> QED
    BY <2>2, <2>3
<1>11. CASE Create(t)
  BY <1>2, <1>11 DEF Create, ThreadStoreInv
<1> QED
  BY <1>1, <1>3, <1>4, <1>5, <1>6, <1>7, <1>8, <1>9, <1>10, <1>11,
     WriteSimulation
  DEF Connect, Ask, FetchOpenFails, OpenFails, CreateFails, FlushFails

LEMMA StoreInit ==
    ASSUME KnownPlayers, Init
    PROVE  StoreInv /\ Store!Init
<1>1. file \in InitialFiles /\ GoodRecords(file) /\ FileExists
  <2>1. file \in InitialFiles
    BY DEF Init, KnownPlayers
  <2>2. GoodRecords(file)
    BY <2>1, InitialFilesGood
  <2> QED
    BY <2>1, <2>2, DbAssumption DEF GoodRecords, Records, FileExists
<1>2. \A user \in Established : \E i \in DOMAIN file : At(file, user, i)
  BY <1>1 DEF InitialFiles, At
<1>3. StoreInv
  BY <1>1, <1>2 DEF Init, StoreInv, ThreadStoreInv
<1>4. StoredProfiles \in [Established -> {q \in Profiles : WellFormed(q)}]
  <2>1. ASSUME NEW user \in Established
        PROVE  ProfileIn(file, user) \in {q \in Profiles : WellFormed(q)}
    <3>1. PICK i \in DOMAIN file : At(file, user, i)
      BY <1>2
    <3>2. user \in Users /\ user # NoUser /\ OneEach(file)
      BY <1>1, KeyInit, DbAssumption DEF KeyInv
    <3>3. ProfileIn(file, user) = file[i].profile
      BY <3>1, <3>2, ProfileInAt
    <3>4. WellFormed(file[i].profile)
      BY <1>1, <3>1, <3>2 DEF GoodRecords, At
    <3> QED
      BY <3>3, <3>4 DEF WellFormed
  <2> QED
    BY <1>1, <2>1, StoredIs
<1>5. PlayerAnswers = [user \in Established |-> TellNo("none")]
  BY ThreadOfKnown DEF Init, PlayerAnswers
<1> QED
  BY <1>3, <1>4, <1>5, SameOperators DEF Store!Init

(***************************************************************************)
(* When no call fails, the requests of players that have a record take     *)
(* effect one at a time, on their own profiles only, and their answers are *)
(* what is stored: for any number of threads, and of new players that      *)
(* append to the same file.                                                *)
(***************************************************************************)
THEOREM DbImplementsStore ==
    ASSUME KnownPlayers
    PROVE  Spec => StoreSpec
<1>1. Init => StoreInv /\ Store!Init
  BY StoreInit
<1>2. DbInv /\ KeyInv /\ StoreInv /\ [Next]_vars =>
         StoreInv' /\ [Store!Next]_(Store!storeVars)
  BY StoreStep DEF StepInv
<1>3. DbInv /\ KeyInv /\ [Next]_vars => KeyInv'
  BY KeyStep DEF KnownPlayers
<1> QED
  BY <1>1, <1>2, <1>3, KeyInit, DbInvariant, PTL DEF Spec, StoreSpec, Store!Spec
=============================================================================
