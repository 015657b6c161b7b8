------------------------------ MODULE Profiles ------------------------------
(***************************************************************************)
(* Player profiles and what a request does to one: the functions of the    *)
(* server's db_manager.c that touch no file, with the price list of        *)
(* server_worker.c.                                                        *)
(*                                                                         *)
(* A profile is a PlayerRecord without its user name; owned_skins, an      *)
(* array of flags, is the set of the skins whose flag is set.  The numbers *)
(* are constants for the proofs; the runs give them the values of the code *)
(* but for TOTAL_SKIN_AMOUNT, a constant of emap, which is 3 there.        *)
(***************************************************************************)
EXTENDS Emap, Integers, FiniteSets, FiniteSetsExt

CONSTANTS XpPerLevel,       \* XP_PER_LEVEL, 1000
          XpWin, XpLose,    \* XP_REWARD_WIN, 200, and XP_REWARD_LOSE, 50
          SoulsWin,         \* SOUL_REWARD_WIN, 250
          SoulsLose,        \* SOUL_REWARD_LOSE, 100
          DefaultSouls,     \* DEFAULT_SOULS, 100
          CoinPrices,       \* kCoinPrices: 0, 100, 150, 200, 250, 300
          MaxLevel,         \* UINT8_MAX, 255
          MaxMoney          \* UINT16_MAX, 65535

ASSUME ProfileAssumption ==
    /\ XpPerLevel \in Nat \ {0}
    /\ {XpWin, XpLose, SoulsWin, SoulsLose} \subseteq Nat
    /\ CoinPrices \in [0 .. TOTAL_SKIN_AMOUNT - 1 -> Nat]
    /\ MaxLevel \in Nat \ {0}
    /\ MaxMoney \in Nat
    /\ DefaultSouls \in 0 .. MaxMoney

Skins == 0 .. TOTAL_SKIN_AMOUNT - 1

\* The uint8_t skin index of a request: a skin, or one value for all the
\* others.
SkinIndexes == 0 .. TOTAL_SKIN_AMOUNT

Profiles == [level       : 0 .. MaxLevel,
             progression : 0 .. XpPerLevel - 1,
             money       : 0 .. MaxMoney,
             owned       : SUBSET Skins,
             selected    : Skins]

\* What the client relies on: it owns the skin it wears, and the first one.
WellFormed(profile) ==
    /\ profile \in Profiles
    /\ profile.level >= 1
    /\ 0 \in profile.owned
    /\ profile.selected \in profile.owned

(***************************************************************************)
(* normalize_record: a profile without skins gets the first one, and the   *)
(* selected skin, if it is not owned, becomes the first that is.           *)
(***************************************************************************)
NormalizeRecord(profile) ==
    LET owned == IF profile.owned = {} THEN {0} ELSE profile.owned
    IN  [profile EXCEPT
            !.owned = owned,
            !.selected = IF @ \in owned THEN @ ELSE Min(owned)]

\* init_default_record
DefaultRecord ==
    [level |-> 1, progression |-> 0, money |-> DefaultSouls,
     owned |-> {0}, selected |-> 0]

(***************************************************************************)
(* apply_match_rewards.  The loop takes XP_PER_LEVEL off the sum, a level  *)
(* at a time, and stops counting levels at the largest one; souls stop at  *)
(* the largest amount.                                                     *)
(***************************************************************************)
\* Faulty: no limit.
AddSoulsNoLimit(money, gain) == money + gain
AddSouls(money, gain) ==
    IF money + gain > MaxMoney THEN MaxMoney ELSE money + gain

AddLevels(level, levels) ==
    IF level + levels > MaxLevel THEN MaxLevel ELSE level + levels

ApplyMatchRewards(profile, has_won) ==
    LET new_xp == profile.progression + IF has_won THEN XpWin ELSE XpLose
    IN  [profile EXCEPT
            !.level = AddLevels(@, new_xp \div XpPerLevel),
            !.progression = new_xp % XpPerLevel,
            !.money = AddSouls(@, IF has_won THEN SoulsWin ELSE SoulsLose)]

ResolveSkinPrice(skin_index) ==
    IF skin_index \in Skins THEN CoinPrices[skin_index] ELSE 0

(***************************************************************************)
(* The requests of a connection thread and what each makes of a profile:   *)
(* refused, or the profile after it and whether it has to be saved.        *)
(***************************************************************************)
Get == [kind |-> "get"]

Requests ==
    [kind : {"match"}, has_won : BOOLEAN]
        \cup [kind : {"purchase", "equip"}, skin_index : SkinIndexes]

\* Refused before the profile is loaded.
BadSkin(request) ==
    request.kind \in {"purchase", "equip"} /\ request.skin_index \notin Skins

\* Faulty: souls are not looked at.
RefusedNever(request, profile) ==
    request.kind = "equip" /\ request.skin_index \notin profile.owned

Refused(request, profile) ==
    \/ /\ request.kind = "purchase"
       /\ request.skin_index \notin profile.owned
       /\ profile.money < ResolveSkinPrice(request.skin_index)
    \/ /\ request.kind = "equip"
       /\ request.skin_index \notin profile.owned

Saves(request, profile) ==
    \/ request.kind \in {"match", "equip"}
    \/ request.kind = "purchase" /\ request.skin_index \notin profile.owned

PurchaseSkin(profile, skin_index) ==
    [profile EXCEPT
        !.money = @ - ResolveSkinPrice(skin_index),
        !.owned = @ \cup {skin_index},
        !.selected = skin_index]

EquipSkin(profile, skin_index) == [profile EXCEPT !.selected = skin_index]

\* The profile that is saved.
Served(request, profile) ==
    NormalizeRecord(
        CASE request.kind = "match" ->
                ApplyMatchRewards(profile, request.has_won)
          [] request.kind = "purchase" ->
                PurchaseSkin(profile, request.skin_index)
          [] request.kind = "equip" ->
                EquipSkin(profile, request.skin_index))

(***************************************************************************)
(* What a thread is told: the profile, "refused" (the codes -2 and -3) or  *)
(* "error" (-1).                                                           *)
(***************************************************************************)
NoProfile      == <<>>
Told(profile)  == [status |-> "ok", profile |-> profile]
TellNo(status) == [status |-> status, profile |-> NoProfile]
Answers == [status : {"ok"}, profile : Profiles]
             \cup [status : {"none", "refused", "error"}, profile : {NoProfile}]
=============================================================================
