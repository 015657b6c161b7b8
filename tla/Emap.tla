-------------------------------- MODULE Emap --------------------------------
(***************************************************************************)
(* What a receiver of emap, the wire library, makes of the messages that   *)
(* its own helpers send.  A packet is a header and a payload; the bytes of *)
(* the payload are left out, its size is not: emap_decode_msg refuses a    *)
(* payload whose size is not the one it expects for the type.              *)
(*                                                                         *)
(* emap_recv_packet returns whole packets in the order in which they were  *)
(* sent, or fails: a stream socket, read until header and payload are      *)
(* complete.  So a direction of a connection is a sequence of packets.     *)
(***************************************************************************)
EXTENDS Naturals

CONSTANTS TOTAL_SKIN_AMOUNT         \* 6; the database's runs have 3

ASSUME EmapAssumption == TOTAL_SKIN_AMOUNT \in Nat \ {0}

MAX_PLAYER_USERNAME_SIZE == 16
ProfileSize              == 1 + 2 + 2 + 1 + TOTAL_SKIN_AMOUNT

\* The payload sizes that the helpers of wrappers.c send.
SentSize ==
    [CONNECT |-> MAX_PLAYER_USERNAME_SIZE, GENERAL_ACK |-> 1,
     PLAYER_INFO |-> ProfileSize, PLAYER_DATA_UPDATE |-> ProfileSize,
     SHOP_ACTION |-> 2, GAME_JOIN |-> 0, GAME_WAIT |-> 0, GAME_START |-> 1,
     GAME_STATE |-> 12, PLAY |-> 1, MOVE |-> 2, ILLEGAL_PLAY |-> 1,
     GAME_END |-> 1]

\* The sizes that emap_decode_msg expects; of GAME_STATE and ILLEGAL_PLAY the
\* structs are still empty, and SHOP_ACTION it does not know.
DecodedSize ==
    [CONNECT |-> MAX_PLAYER_USERNAME_SIZE, GENERAL_ACK |-> 1,
     PLAYER_INFO |-> ProfileSize, PLAYER_DATA_UPDATE |-> ProfileSize,
     GAME_JOIN |-> 0, GAME_WAIT |-> 0, GAME_START |-> 1, GAME_STATE |-> 0,
     PLAY |-> 1, MOVE |-> 2, ILLEGAL_PLAY |-> 0, GAME_END |-> 1]

Decodes(type) ==
    /\ type \in DOMAIN DecodedSize
    /\ DecodedSize[type] = SentSize[type]
=============================================================================
