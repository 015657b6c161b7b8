--------------------------- MODULE Session_proofs ---------------------------
(***************************************************************************)
(* Theorems about Session: one client, the thread that serves it and the   *)
(* two streams between them, for boards of any size and streams of any     *)
(* length.  The inductive invariant comes in six parts, each of which      *)
(* rests on those before:                                                  *)
(*                                                                         *)
(*   BaseInv    the types, the slots of the match, the connection;         *)
(*   StreamInv  where the messages under way take the client;              *)
(*   PlayInv    which answers and turns are still to come;                 *)
(*   IdInv      who can have the same id;                                  *)
(*   TurnInv    whose turn it is, and on which board;                      *)
(*   RefusalInv what is under way when a move is refused, and after it.    *)
(*                                                                         *)
(* For each part there is a lemma <Action><Part> for every action that can *)
(* disturb it, and one that does for all the others.                       *)
(***************************************************************************)
EXTENDS Session, GameLogic_proofs

(***************************************************************************)
(* First part: the slots and the flags of the match.  Nobody leaves a      *)
(* match that is on, so that the thread, once seated, has an opponent      *)
(* until the match is over; and the board has a move left until then.      *)
(***************************************************************************)
Seated == {"poll", "keep_alive", "begin", "release_keep", "release_close"}
            \cup MatchPcs

OverPcs == {"last_ack", "result", "update_ack", "end_ack"}

SeatInv ==
    /\ seat # NoId <=> pc \in Seated
    /\ Count <= 2
    /\ game_over => game_started
    /\ pc \in MatchPcs => game_started
    /\ pc \in OverPcs => game_over
    /\ seat # NoId /\ game_started /\ ~ game_over => Count = 2
    /\ pc = "begin" /\ ~ game_started => Count = 2
    /\ game_started /\ ~ game_over => ~ IsFinished(board)

\* The connection, as its socket and the thread have it.
LinkInv ==
    /\ link \in {"closed", "reset", "dead"} => pc = "closed"
    /\ pc = "closed" => link # "open" /\ toServer = <<>>
    /\ link = "gone" => /\ toClient = <<>> /\ blocked = "no"
                        /\ net \in {"DISCONNECTED", "ERROR"}
    /\ net = "DISCONNECTED" => link = "gone"

\* The connection, as the client has it.
ClientInv ==
    /\ net = "CONNECTING" <=> blocked \in {"connect_ack", "player_info"}
    /\ blocked \in {"join", "join_ack"} => net = "CONNECTED"
    /\ blocked \in {"join", "join_ack"} \/ net \in {"IN_LOBBY", "IN_GAME"} =>
          purpose = "match"
    /\ is_our_turn \/ waiting_for_ack => net \in {"IN_GAME", "ERROR"}
    /\ net = "IN_GAME" => result = "none"

BaseInv == TypeOK /\ SeatInv /\ LinkInv /\ ClientInv

LEMMA MessageFields ==
    ASSUME NEW m \in Messages
    PROVE  /\ m.type # "none"
           /\ m.type = "GENERAL_ACK" => m.ok \in BOOLEAN
           /\ m.type = "GAME_START" => m.is_starting \in BOOLEAN
           /\ m.type = "GAME_END" => m.has_won \in BOOLEAN
           /\ m.type = "GAME_STATE" => m.board \in Boards
           /\ m.type = "MOVE" => m.coin_index \in Cells /\ m.coin_pos \in Cells
<1>1. CASE \E t \in {"CONNECT", "PLAYER_INFO", "PLAYER_DATA_UPDATE",
                     "GAME_JOIN", "SHOP_ACTION", "GAME_WAIT", "PLAY",
                     "ILLEGAL_PLAY"} : m = Plain(t)
  BY <1>1 DEF Plain
<1>2. CASE m = Ack
  BY <1>2 DEF Ack
<1>6. CASE m = Nok
  BY <1>6 DEF Nok
<1>3. CASE \E b \in BOOLEAN : m = GameStart(b) \/ m = GameEnd(b)
  BY <1>3 DEF GameStart, GameEnd
<1>4. CASE \E b \in Boards : m = GameState(b)
  BY <1>4 DEF GameState
<1>5. CASE \E i, j \in Cells : m = Move(i, j)
  BY <1>5 DEF Move
<1> QED
  BY <1>1, <1>2, <1>3, <1>4, <1>5, <1>6 DEF Messages

LEMMA Sent ==
    /\ \A t \in {"CONNECT", "PLAYER_INFO", "PLAYER_DATA_UPDATE", "GAME_JOIN",
                 "SHOP_ACTION", "GAME_WAIT", "PLAY", "ILLEGAL_PLAY"} :
          Plain(t) \in Messages
    /\ Ack \in Messages /\ Nok \in Messages
    /\ \A b \in BOOLEAN : GameStart(b) \in Messages /\ GameEnd(b) \in Messages
    /\ \A b \in Boards : GameState(b) \in Messages
    /\ \A i, j \in Cells : Move(i, j) \in Messages
  BY DEF Messages

LEMMA Receives ==
    ASSUME TypeOK, NEW m \in Received, Consume(m)
    PROVE  /\ toServer' \in Seq(Messages)
           /\ \/ m = Lost /\ m.type = "none" /\ toServer' = toServer
              \/ /\ toServer # <<>> /\ m = Head(toServer) /\ m \in Messages
                 /\ toServer' = Tail(toServer)
  BY MessageFields DEF TypeOK, Received, Consume, Lost, Plain

LEMMA Tells ==
    ASSUME TypeOK, NEW ms \in Seq(Messages), NEW n, NEW f, Tell(ms, n, f)
    PROVE  /\ toClient' \in Seq(Messages)
           /\ pc' = n \/ pc' = f
           /\ link # "gone" => pc' = n /\ toClient' = toClient \o ms
  BY DEF TypeOK, Tell

LEMMA Lists ==
    /\ <<>> \in Seq(Messages)
    /\ \A m \in Messages : <<m>> \in Seq(Messages)
    /\ \A m, n \in Messages : <<m, n>> \in Seq(Messages)
  OBVIOUS

LEMMA Reads ==
    ASSUME TypeOK, toClient # <<>>
    PROVE  Head(toClient) \in Messages /\ Tail(toClient) \in Seq(Messages)
  BY DEF TypeOK

LEMMA Sends ==
    ASSUME TypeOK, NEW m \in Messages, Send(m)
    PROVE  /\ toServer' \in Seq(Messages) /\ link' \in Links \ {"gone"}
           /\ link = "open" => link' = "open" /\ toServer' = Append(toServer, m)
           /\ link # "open" =>
                 link' \in {"reset", "dead"} /\ toServer' = toServer
  BY DEF TypeOK, Send, Links

LEMMA HandsOn ==
    ASSUME TypeOK, NEW m, HandleAck(m)
    PROVE  /\ \/ /\ pc = "start_ack"
                 /\ Tell(<<GameState(board)>>, "state_ack", "forfeit")
              \/ /\ pc = "turn_ack"
                 /\ Tell(<<Plain("PLAY")>>, "play_ack", "forfeit")
              \/ /\ <<pc, pc'>> \in
                       {<<"state_ack", "turn">>, <<"play_ack", "move">>,
                        <<"illegal_ack", "move">>, <<"moved_ack", "turn">>,
                        <<"last_ack", "result">>}
                 /\ toClient' = toClient
           /\ Consume(m) /\ m.type = "GENERAL_ACK" /\ KeepClient /\ KeepLobby
<1>1. /\ pc \in AckPcs
      /\ Tell(Exchanges[pc].sends, Exchanges[pc].next,
              IF Exchanges[pc].sends = <<>> THEN Exchanges[pc].next
                                            ELSE "forfeit")
      /\ Consume(m) /\ m.type = "GENERAL_ACK" /\ KeepClient /\ KeepLobby
  BY DEF HandleAck
<1>2. CASE pc \in {"start_ack", "turn_ack"}
  BY <1>1, <1>2 DEF Exchanges
<1>3. CASE pc \in {"state_ack", "play_ack", "illegal_ack", "moved_ack",
                   "last_ack"}
  <2>1. Exchanges[pc].sends = <<>>
    BY <1>3 DEF Exchanges
  <2>2. pc' = Exchanges[pc].next /\ toClient' = toClient
    BY <1>1, <2>1 DEF Tell, TypeOK
  <2> QED
    BY <1>1, <1>3, <2>2 DEF Exchanges
<1> QED
  BY <1>1, <1>2, <1>3 DEF AckPcs

LEMMA Moves ==
    ASSUME BaseInv, NEW i \in Ids, NEW from, NEW to, Moved(i, from, to),
           i = seat \/ others[i] > 0
    PROVE  /\ board' \in Boards /\ current_turn' \in Ids
           /\ winner_id' \in Ids \cup {NoId}
           /\ UNCHANGED <<game_started, others>>
           /\ game_over' = (game_over \/ IsFinished(board'))
           /\ IsMoveValid(board, from, to)
           /\ board' = ApplyMove(board, from, to)
           /\ ~ IsFinished(board') => current_turn' = (current_turn + 1) % Count
<1>1. board' \in Boards
  BY ApplyMoveCoins DEF Moved, BaseInv, TypeOK
<1>2. Count \in 1 .. 2
  BY DEF BaseInv, TypeOK, SeatInv, Count, Ids, NoId
<1>3. game_over' = (game_over \/ IsFinished(board'))
  BY DEF Moved, IsFinished, BaseInv, TypeOK
<1>4. current_turn' \in Ids /\ winner_id' \in Ids \cup {NoId}
  BY <1>2 DEF Moved, BaseInv, TypeOK, Ids
<1> QED
  BY <1>1, <1>3, <1>4 DEF Moved, BaseInv, TypeOK

LEMMA NoCoinsTyped == NoCoins \in Boards
  BY DEF NoCoins, Boards

\* TypeOK, of the client, of its connection, of the thread and of the lobby.
ClientTypes ==
    /\ net \in NetStates /\ blocked \in BlockedIn
    /\ purpose \in {"match", "info"}
    /\ is_our_turn \in BOOLEAN /\ waiting_for_ack \in BOOLEAN
    /\ view \in Boards /\ result \in {"none", "won", "lost"}

LinkTypes ==
    /\ link \in Links
    /\ toServer \in Seq(Messages) /\ toClient \in Seq(Messages)

ThreadTypes == pc \in Pcs /\ seat \in Ids \cup {NoId}

LobbyTypes ==
    /\ board \in Boards
    /\ current_turn \in Ids /\ winner_id \in Ids \cup {NoId}
    /\ game_started \in BOOLEAN /\ game_over \in BOOLEAN
    /\ others \in [Ids -> 0 .. 2]

LEMMA Parts ==
    ASSUME ClientTypes', LinkTypes', ThreadTypes', LobbyTypes',
           SeatInv', LinkInv', ClientInv'
    PROVE  BaseInv'
  BY DEF BaseInv, TypeOK, ClientTypes, LinkTypes, ThreadTypes, LobbyTypes

\* What a step of the client leaves as it was, but for Connect, which starts
\* the thread.
LEMMA ServerKept ==
    ASSUME BaseInv, KeepServer
    PROVE  pc' = pc /\ ThreadTypes' /\ LobbyTypes' /\ SeatInv'
<1> USE DEF KeepServer, threadVars, lobbyVars
<1>1. /\ pc' = pc /\ seat' = seat /\ board' = board /\ others' = others
      /\ current_turn' = current_turn /\ winner_id' = winner_id
      /\ game_started' = game_started /\ game_over' = game_over
  OBVIOUS
<1>2. ThreadTypes' /\ LobbyTypes'
  BY <1>1 DEF BaseInv, TypeOK, ThreadTypes, LobbyTypes
<1>3. SeatInv'
  BY <1>1 DEF BaseInv, SeatInv, Count
<1> QED
  BY <1>1, <1>2, <1>3

\* What a step of a thread leaves as it was.
LEMMA ClientKept ==
    ASSUME BaseInv, UNCHANGED clientVars
    PROVE  ClientTypes' /\ ClientInv'
  BY DEF BaseInv, TypeOK, ClientTypes, ClientInv, clientVars

LEMMA ConnectBase ==
    ASSUME BaseInv, NEW p \in {"match", "info"}, Connect(p) PROVE BaseInv'
<1> USE DEF BaseInv, Connect, Request, SendFails, CloseSocket, KeepGame,
            linkVars
<1>1. ThreadTypes' /\ LobbyTypes'
  BY DEF TypeOK, ThreadTypes, LobbyTypes, lobbyVars, Pcs, RecvPcs
<1>2. LinkTypes'
  BY Reads, Sent, Sends, Lists DEF TypeOK, Links, LinkTypes
<1>3. ClientTypes'
  BY Reads, MessageFields, NoCoinsTyped
     DEF TypeOK, NetStates, BlockedIn, InGame, ClientTypes
<1>4. LinkInv'
  BY Sent, Sends DEF TypeOK, Links, LinkInv, ClientInv
<1>5. ClientInv'
  BY MessageFields, Sent, Sends, Reads DEF TypeOK, LinkInv, ClientInv
<1>6. SeatInv'
  BY DEF SeatInv, Seated, OverPcs, Count, lobbyVars, RecvPcs, ShopPcs, AckPcs,
         EndPcs, MatchPcs
<1> QED
  BY <1>1, <1>2, <1>3, <1>4, <1>5, <1>6, Parts

LEMMA ConnectFailsBase ==
    ASSUME BaseInv, NEW p \in {"match", "info"}, ConnectFails(p) PROVE BaseInv'
<1> USE DEF BaseInv, ConnectFails, Request, SendFails, CloseSocket, KeepGame,
            linkVars
<1>1. pc' = pc /\ ThreadTypes' /\ LobbyTypes' /\ SeatInv'
  BY ServerKept
<1>2. LinkTypes'
  BY Reads, Sent, Sends, Lists DEF TypeOK, Links, LinkTypes
<1>3. ClientTypes'
  BY Reads, MessageFields, NoCoinsTyped
     DEF TypeOK, NetStates, BlockedIn, InGame, ClientTypes
<1>4. LinkInv'
  BY <1>1, Sent, Sends DEF TypeOK, Links, LinkInv, ClientInv
<1>5. ClientInv'
  BY MessageFields, Sent, Sends, Reads DEF TypeOK, LinkInv, ClientInv
<1> QED
  BY <1>1, <1>2, <1>3, <1>4, <1>5, Parts

LEMMA TakeConnectAckBase ==
    ASSUME BaseInv, TakeConnectAck PROVE BaseInv'
<1> USE DEF BaseInv, TakeConnectAck, Granted, SendFails, CloseSocket,
            KeepGame, linkVars
<1>1. pc' = pc /\ ThreadTypes' /\ LobbyTypes' /\ SeatInv'
  BY ServerKept
<1>2. LinkTypes'
  BY Reads, Sent, Sends, Lists DEF TypeOK, Links, LinkTypes
<1>3. ClientTypes'
  BY Reads, MessageFields, NoCoinsTyped
     DEF TypeOK, NetStates, BlockedIn, InGame, ClientTypes
<1>4. LinkInv'
  BY <1>1, Sent, Sends DEF TypeOK, Links, LinkInv, ClientInv
<1>5. ClientInv'
  BY MessageFields, Sent, Sends, Reads DEF TypeOK, LinkInv, ClientInv
<1> QED
  BY <1>1, <1>2, <1>3, <1>4, <1>5, Parts

LEMMA TakePlayerInfoBase ==
    ASSUME BaseInv, TakePlayerInfo PROVE BaseInv'
<1> USE DEF BaseInv, TakePlayerInfo, Granted, SendFails, CloseSocket,
            KeepGame, linkVars
<1>1. pc' = pc /\ ThreadTypes' /\ LobbyTypes' /\ SeatInv'
  BY ServerKept
<1>2. LinkTypes'
  BY Reads, Sent, Sends, Lists DEF TypeOK, Links, LinkTypes
<1>3. ClientTypes'
  BY Reads, MessageFields, NoCoinsTyped
     DEF TypeOK, NetStates, BlockedIn, InGame, ClientTypes
<1>4. LinkInv'
  BY <1>1, Sent, Sends DEF TypeOK, Links, LinkInv, ClientInv
<1>5. ClientInv'
  BY MessageFields, Sent, Sends, Reads DEF TypeOK, LinkInv, ClientInv
<1> QED
  BY <1>1, <1>2, <1>3, <1>4, <1>5, Parts

LEMMA ConnectRefusedBase ==
    ASSUME BaseInv, ConnectRefused PROVE BaseInv'
<1> USE DEF BaseInv, ConnectRefused, HandshakeFails, SendFails, CloseSocket,
            KeepGame, linkVars
<1>1. pc' = pc /\ ThreadTypes' /\ LobbyTypes' /\ SeatInv'
  BY ServerKept
<1>2. LinkTypes'
  BY Reads, Sent, Sends, Lists DEF TypeOK, Links, LinkTypes
<1>3. ClientTypes'
  BY Reads, MessageFields, NoCoinsTyped
     DEF TypeOK, NetStates, BlockedIn, InGame, ClientTypes
<1>4. LinkInv'
  BY <1>1, Sent, Sends DEF TypeOK, Links, LinkInv, ClientInv
<1>5. ClientInv'
  BY MessageFields, Sent, Sends, Reads DEF TypeOK, LinkInv, ClientInv
<1> QED
  BY <1>1, <1>2, <1>3, <1>4, <1>5, Parts

LEMMA JoinGameBase ==
    ASSUME BaseInv, JoinGame PROVE BaseInv'
<1> USE DEF BaseInv, JoinGame, SendFails, CloseSocket, KeepGame, linkVars
<1>1. pc' = pc /\ ThreadTypes' /\ LobbyTypes' /\ SeatInv'
  BY ServerKept
<1>2. LinkTypes'
  BY Reads, Sent, Sends, Lists DEF TypeOK, Links, LinkTypes
<1>3. ClientTypes'
  BY Reads, MessageFields, NoCoinsTyped
     DEF TypeOK, NetStates, BlockedIn, InGame, ClientTypes
<1>4. LinkInv'
  BY <1>1, Sent, Sends DEF TypeOK, Links, LinkInv, ClientInv
<1>5. ClientInv'
  BY MessageFields, Sent, Sends, Reads DEF TypeOK, LinkInv, ClientInv
<1> QED
  BY <1>1, <1>2, <1>3, <1>4, <1>5, Parts

LEMMA TakeJoinAckBase ==
    ASSUME BaseInv, TakeJoinAck PROVE BaseInv'
<1> USE DEF BaseInv, TakeJoinAck, Granted, SendFails, CloseSocket, KeepGame,
            linkVars
<1>1. pc' = pc /\ ThreadTypes' /\ LobbyTypes' /\ SeatInv'
  BY ServerKept
<1>2. LinkTypes'
  BY Reads, Sent, Sends, Lists DEF TypeOK, Links, LinkTypes
<1>3. ClientTypes'
  BY Reads, MessageFields, NoCoinsTyped
     DEF TypeOK, NetStates, BlockedIn, InGame, ClientTypes
<1>4. LinkInv'
  BY <1>1, Sent, Sends DEF TypeOK, Links, LinkInv, ClientInv
<1>5. ClientInv'
  BY MessageFields, Sent, Sends, Reads DEF TypeOK, LinkInv, ClientInv
<1> QED
  BY <1>1, <1>2, <1>3, <1>4, <1>5, Parts

LEMMA TakeGameWaitBase ==
    ASSUME BaseInv, TakeGameWait PROVE BaseInv'
<1> USE DEF BaseInv, TakeGameWait, Arrives, SendFails, CloseSocket, KeepGame,
            linkVars
<1>1. pc' = pc /\ ThreadTypes' /\ LobbyTypes' /\ SeatInv'
  BY ServerKept
<1>2. LinkTypes'
  BY Reads, Sent, Sends, Lists DEF TypeOK, Links, LinkTypes
<1>3. ClientTypes'
  BY Reads, MessageFields, NoCoinsTyped
     DEF TypeOK, NetStates, BlockedIn, InGame, ClientTypes
<1>4. LinkInv'
  BY <1>1, Sent, Sends DEF TypeOK, Links, LinkInv, ClientInv
<1>5. ClientInv'
  BY MessageFields, Sent, Sends, Reads DEF TypeOK, LinkInv, ClientInv
<1> QED
  BY <1>1, <1>2, <1>3, <1>4, <1>5, Parts

LEMMA TakeGameStartBase ==
    ASSUME BaseInv, TakeGameStart PROVE BaseInv'
<1> USE DEF BaseInv, TakeGameStart, Arrives, SendFails, CloseSocket, KeepGame,
            linkVars
<1>1. pc' = pc /\ ThreadTypes' /\ LobbyTypes' /\ SeatInv'
  BY ServerKept
<1>2. LinkTypes'
  BY Reads, Sent, Sends, Lists DEF TypeOK, Links, LinkTypes
<1>3. ClientTypes'
  BY Reads, MessageFields, NoCoinsTyped
     DEF TypeOK, NetStates, BlockedIn, InGame, ClientTypes
<1>4. LinkInv'
  BY <1>1, Sent, Sends DEF TypeOK, Links, LinkInv, ClientInv
<1>5. ClientInv'
  BY MessageFields, Sent, Sends, Reads DEF TypeOK, LinkInv, ClientInv
<1> QED
  BY <1>1, <1>2, <1>3, <1>4, <1>5, Parts

LEMMA TakeAckBase ==
    ASSUME BaseInv, TakeAck PROVE BaseInv'
<1> USE DEF BaseInv, TakeAck, Arrives, Afterwards, SendFails, CloseSocket,
            KeepGame, linkVars
<1>1. pc' = pc /\ ThreadTypes' /\ LobbyTypes' /\ SeatInv'
  BY ServerKept
<1>2. LinkTypes'
  BY Reads, Sent, Sends, Lists DEF TypeOK, Links, LinkTypes
<1>3. ClientTypes'
  BY Reads, MessageFields, NoCoinsTyped
     DEF TypeOK, NetStates, BlockedIn, InGame, ClientTypes
<1>4. LinkInv'
  BY <1>1, Sent, Sends DEF TypeOK, Links, LinkInv, ClientInv
<1>5. ClientInv'
  BY MessageFields, Sent, Sends, Reads DEF TypeOK, LinkInv, ClientInv
<1> QED
  BY <1>1, <1>2, <1>3, <1>4, <1>5, Parts

LEMMA TakeGameStateBase ==
    ASSUME BaseInv, TakeGameState PROVE BaseInv'
<1> USE DEF BaseInv, TakeGameState, Arrives, Afterwards, SendFails,
            CloseSocket, KeepGame, linkVars
<1>1. pc' = pc /\ ThreadTypes' /\ LobbyTypes' /\ SeatInv'
  BY ServerKept
<1>2. LinkTypes'
  BY Reads, Sent, Sends, Lists DEF TypeOK, Links, LinkTypes
<1>3. ClientTypes'
  BY Reads, MessageFields, NoCoinsTyped
     DEF TypeOK, NetStates, BlockedIn, InGame, ClientTypes
<1>4. LinkInv'
  BY <1>1, Sent, Sends DEF TypeOK, Links, LinkInv, ClientInv
<1>5. ClientInv'
  BY MessageFields, Sent, Sends, Reads DEF TypeOK, LinkInv, ClientInv
<1> QED
  BY <1>1, <1>2, <1>3, <1>4, <1>5, Parts

LEMMA TakePlayBase ==
    ASSUME BaseInv, TakePlay PROVE BaseInv'
<1> USE DEF BaseInv, TakePlay, Arrives, Afterwards, InGame, SendFails,
            CloseSocket, KeepGame, linkVars
<1>1. pc' = pc /\ ThreadTypes' /\ LobbyTypes' /\ SeatInv'
  BY ServerKept
<1>2. LinkTypes'
  BY Reads, Sent, Sends, Lists DEF TypeOK, Links, LinkTypes
<1>3. ClientTypes'
  BY Reads, MessageFields, NoCoinsTyped
     DEF TypeOK, NetStates, BlockedIn, InGame, ClientTypes
<1>4. LinkInv'
  BY <1>1, Sent, Sends DEF TypeOK, Links, LinkInv, ClientInv
<1>5. ClientInv'
  BY MessageFields, Sent, Sends, Reads DEF TypeOK, LinkInv, ClientInv
<1> QED
  BY <1>1, <1>2, <1>3, <1>4, <1>5, Parts

LEMMA TakeGameEndBase ==
    ASSUME BaseInv, TakeGameEnd PROVE BaseInv'
<1> USE DEF BaseInv, TakeGameEnd, Arrives, SendFails, CloseSocket, KeepGame,
            linkVars
<1>1. pc' = pc /\ ThreadTypes' /\ LobbyTypes' /\ SeatInv'
  BY ServerKept
<1>2. LinkTypes'
  BY Reads, Sent, Sends, Lists DEF TypeOK, Links, LinkTypes
<1>3. ClientTypes'
  BY Reads, MessageFields, NoCoinsTyped
     DEF TypeOK, NetStates, BlockedIn, InGame, ClientTypes
<1>4. LinkInv'
  BY <1>1, Sent, Sends DEF TypeOK, Links, LinkInv, ClientInv
<1>5. ClientInv'
  BY MessageFields, Sent, Sends, Reads DEF TypeOK, LinkInv, ClientInv
<1> QED
  BY <1>1, <1>2, <1>3, <1>4, <1>5, Parts

LEMMA TakeProfileBase ==
    ASSUME BaseInv, TakeProfile PROVE BaseInv'
<1> USE DEF BaseInv, TakeProfile, Arrives, Afterwards, SendFails, CloseSocket,
            KeepGame, linkVars
<1>1. pc' = pc /\ ThreadTypes' /\ LobbyTypes' /\ SeatInv'
  BY ServerKept
<1>2. LinkTypes'
  BY Reads, Sent, Sends, Lists DEF TypeOK, Links, LinkTypes
<1>3. ClientTypes'
  BY Reads, MessageFields, NoCoinsTyped
     DEF TypeOK, NetStates, BlockedIn, InGame, ClientTypes
<1>4. LinkInv'
  BY <1>1, Sent, Sends DEF TypeOK, Links, LinkInv, ClientInv
<1>5. ClientInv'
  BY MessageFields, Sent, Sends, Reads DEF TypeOK, LinkInv, ClientInv
<1> QED
  BY <1>1, <1>2, <1>3, <1>4, <1>5, Parts

LEMMA PollFailsBase ==
    ASSUME BaseInv, PollFails PROVE BaseInv'
<1> USE DEF BaseInv, PollFails, Polling, SendFails, CloseSocket, KeepGame,
            linkVars
<1>1. pc' = pc /\ ThreadTypes' /\ LobbyTypes' /\ SeatInv'
  BY ServerKept
<1>2. LinkTypes'
  BY Reads, Sent, Sends, Lists DEF TypeOK, Links, LinkTypes
<1>3. ClientTypes'
  BY Reads, MessageFields, NoCoinsTyped
     DEF TypeOK, NetStates, BlockedIn, InGame, ClientTypes
<1>4. LinkInv'
  BY <1>1, Sent, Sends DEF TypeOK, Links, LinkInv, ClientInv
<1>5. ClientInv'
  BY MessageFields, Sent, Sends, Reads DEF TypeOK, LinkInv, ClientInv
<1> QED
  BY <1>1, <1>2, <1>3, <1>4, <1>5, Parts

LEMMA SendMoveBase ==
    ASSUME BaseInv, NEW i \in Cells, NEW j \in Cells, SendMove(i, j)
    PROVE  BaseInv'
<1> USE DEF BaseInv, SendMove, InGame, SendFails, CloseSocket, KeepGame,
            linkVars
<1>1. pc' = pc /\ ThreadTypes' /\ LobbyTypes' /\ SeatInv'
  BY ServerKept
<1>2. LinkTypes'
  BY Reads, Sent, Sends, Lists DEF TypeOK, Links, LinkTypes
<1>3. ClientTypes'
  BY Reads, MessageFields, NoCoinsTyped
     DEF TypeOK, NetStates, BlockedIn, InGame, ClientTypes
<1>4. LinkInv'
  BY <1>1, Sent, Sends DEF TypeOK, Links, LinkInv, ClientInv
<1>5. ClientInv'
  BY MessageFields, Sent, Sends, Reads DEF TypeOK, LinkInv, ClientInv
<1> QED
  BY <1>1, <1>2, <1>3, <1>4, <1>5, Parts

LEMMA SendShopActionBase ==
    ASSUME BaseInv, SendShopAction PROVE BaseInv'
<1> USE DEF BaseInv, SendShopAction, SendFails, CloseSocket, KeepGame,
            linkVars
<1>1. pc' = pc /\ ThreadTypes' /\ LobbyTypes' /\ SeatInv'
  BY ServerKept
<1>2. LinkTypes'
  BY Reads, Sent, Sends, Lists DEF TypeOK, Links, LinkTypes
<1>3. ClientTypes'
  BY Reads, MessageFields, NoCoinsTyped
     DEF TypeOK, NetStates, BlockedIn, InGame, ClientTypes
<1>4. LinkInv'
  BY <1>1, Sent, Sends DEF TypeOK, Links, LinkInv, ClientInv
<1>5. ClientInv'
  BY MessageFields, Sent, Sends, Reads DEF TypeOK, LinkInv, ClientInv
<1> QED
  BY <1>1, <1>2, <1>3, <1>4, <1>5, Parts

LEMMA LeaveBase ==
    ASSUME BaseInv, Leave PROVE BaseInv'
<1> USE DEF BaseInv, Leave, SendFails, CloseSocket, KeepGame, linkVars
<1>1. pc' = pc /\ ThreadTypes' /\ LobbyTypes' /\ SeatInv'
  BY ServerKept
<1>2. LinkTypes'
  BY Reads, Sent, Sends, Lists DEF TypeOK, Links, LinkTypes
<1>3. ClientTypes'
  BY Reads, MessageFields, NoCoinsTyped
     DEF TypeOK, NetStates, BlockedIn, InGame, ClientTypes
<1>4. LinkInv'
  BY <1>1, Sent, Sends DEF TypeOK, Links, LinkInv, ClientInv
<1>5. ClientInv'
  BY MessageFields, Sent, Sends, Reads DEF TypeOK, LinkInv, ClientInv
<1> QED
  BY <1>1, <1>2, <1>3, <1>4, <1>5, Parts

LEMMA HandleConnectBase ==
    ASSUME BaseInv, NEW m \in Received, HandleConnect(m) PROVE BaseInv'
<1> USE DEF BaseInv, HandleConnect, Tell, KeepClient, KeepLobby, clientVars,
            lobbyVars, linkVars, threadVars
<1>1. ClientTypes' /\ ClientInv'
  BY ClientKept
<1>2. LinkTypes'
  BY Sent, Lists, Receives, Tells
     DEF TypeOK, LinkTypes, Links, RecvPcs, ShopPcs, AckPcs, EndPcs
<1>3. ThreadTypes'
  BY Receives
     DEF TypeOK, ThreadTypes, Pcs, RecvPcs, ShopPcs, AckPcs, EndPcs, MatchPcs,
         Ids, NoId, Count
<1>4. LobbyTypes'
  BY Receives
     DEF TypeOK, LobbyTypes, Ids, NoId, Count, SeatInv, Seated, MatchPcs
<1>5. SeatInv'
  BY Receives
     DEF TypeOK, SeatInv, Seated, OverPcs, Count, Ids, NoId, RecvPcs, ShopPcs,
         AckPcs, EndPcs, MatchPcs
<1>6. LinkInv'
  BY Receives
     DEF TypeOK, Links, LinkInv, ClientInv, RecvPcs, ShopPcs, AckPcs, EndPcs,
         MatchPcs
<1> QED
  BY <1>1, <1>2, <1>3, <1>4, <1>5, <1>6, Parts

LEMMA HandleInfoAckBase ==
    ASSUME BaseInv, NEW m \in Received, HandleInfoAck(m) PROVE BaseInv'
<1> USE DEF BaseInv, HandleInfoAck, Tell, KeepClient, KeepLobby, clientVars,
            lobbyVars, linkVars, threadVars
<1>1. ClientTypes' /\ ClientInv'
  BY ClientKept
<1>2. LinkTypes'
  BY Sent, Lists, Receives, Tells
     DEF TypeOK, LinkTypes, Links, RecvPcs, ShopPcs, AckPcs, EndPcs
<1>3. ThreadTypes'
  BY Receives
     DEF TypeOK, ThreadTypes, Pcs, RecvPcs, ShopPcs, AckPcs, EndPcs, MatchPcs,
         Ids, NoId, Count
<1>4. LobbyTypes'
  BY Receives
     DEF TypeOK, LobbyTypes, Ids, NoId, Count, SeatInv, Seated, MatchPcs
<1>5. SeatInv'
  BY Receives
     DEF TypeOK, SeatInv, Seated, OverPcs, Count, Ids, NoId, RecvPcs, ShopPcs,
         AckPcs, EndPcs, MatchPcs
<1>6. LinkInv'
  BY Receives
     DEF TypeOK, Links, LinkInv, ClientInv, RecvPcs, ShopPcs, AckPcs, EndPcs,
         MatchPcs
<1> QED
  BY <1>1, <1>2, <1>3, <1>4, <1>5, <1>6, Parts

LEMMA HandleGameJoinBase ==
    ASSUME BaseInv, NEW m \in Received, HandleGameJoin(m) PROVE BaseInv'
<1> USE DEF BaseInv, HandleGameJoin, Tell, KeepClient, KeepLobby, clientVars,
            lobbyVars, linkVars, threadVars
<1>1. ClientTypes' /\ ClientInv'
  BY ClientKept
<1>2. LinkTypes'
  BY Sent, Lists, Receives, Tells
     DEF TypeOK, LinkTypes, Links, RecvPcs, ShopPcs, AckPcs, EndPcs
<1>3. ThreadTypes'
  BY Receives
     DEF TypeOK, ThreadTypes, Pcs, RecvPcs, ShopPcs, AckPcs, EndPcs, MatchPcs,
         Ids, NoId, Count
<1>4. LobbyTypes'
  BY Receives
     DEF TypeOK, LobbyTypes, Ids, NoId, Count, SeatInv, Seated, MatchPcs
<1>5. SeatInv'
  BY Receives
     DEF TypeOK, SeatInv, Seated, OverPcs, Count, Ids, NoId, RecvPcs, ShopPcs,
         AckPcs, EndPcs, MatchPcs
<1>6. LinkInv'
  BY Receives
     DEF TypeOK, Links, LinkInv, ClientInv, RecvPcs, ShopPcs, AckPcs, EndPcs,
         MatchPcs
<1> QED
  BY <1>1, <1>2, <1>3, <1>4, <1>5, <1>6, Parts

LEMMA ShopActionServedBase ==
    ASSUME BaseInv, NEW m \in Received, ShopActionServed(m) PROVE BaseInv'
<1> USE DEF BaseInv, ShopActionServed, Tell, KeepClient, KeepLobby,
            clientVars, lobbyVars, linkVars, threadVars
<1>1. ClientTypes' /\ ClientInv'
  BY ClientKept
<1>2. LinkTypes'
  BY Sent, Lists, Receives, Tells
     DEF TypeOK, LinkTypes, Links, RecvPcs, ShopPcs, AckPcs, EndPcs
<1>3. ThreadTypes'
  BY Receives
     DEF TypeOK, ThreadTypes, Pcs, RecvPcs, ShopPcs, AckPcs, EndPcs, MatchPcs,
         Ids, NoId, Count
<1>4. LobbyTypes'
  BY Receives
     DEF TypeOK, LobbyTypes, Ids, NoId, Count, SeatInv, Seated, MatchPcs
<1>5. SeatInv'
  BY Receives
     DEF TypeOK, SeatInv, Seated, OverPcs, Count, Ids, NoId, RecvPcs, ShopPcs,
         AckPcs, EndPcs, MatchPcs
<1>6. LinkInv'
  BY Receives
     DEF TypeOK, Links, LinkInv, ClientInv, RecvPcs, ShopPcs, AckPcs, EndPcs,
         MatchPcs
<1> QED
  BY <1>1, <1>2, <1>3, <1>4, <1>5, <1>6, Parts

LEMMA ShopActionRefusedBase ==
    ASSUME BaseInv, NEW m \in Received, ShopActionRefused(m) PROVE BaseInv'
<1> USE DEF BaseInv, ShopActionRefused, Tell, KeepClient, KeepLobby,
            clientVars, lobbyVars, linkVars, threadVars
<1>1. ClientTypes' /\ ClientInv'
  BY ClientKept
<1>2. LinkTypes'
  BY Sent, Lists, Receives, Tells
     DEF TypeOK, LinkTypes, Links, RecvPcs, ShopPcs, AckPcs, EndPcs
<1>3. ThreadTypes'
  BY Receives
     DEF TypeOK, ThreadTypes, Pcs, RecvPcs, ShopPcs, AckPcs, EndPcs, MatchPcs,
         Ids, NoId, Count
<1>4. LobbyTypes'
  BY Receives
     DEF TypeOK, LobbyTypes, Ids, NoId, Count, SeatInv, Seated, MatchPcs
<1>5. SeatInv'
  BY Receives
     DEF TypeOK, SeatInv, Seated, OverPcs, Count, Ids, NoId, RecvPcs, ShopPcs,
         AckPcs, EndPcs, MatchPcs
<1>6. LinkInv'
  BY Receives
     DEF TypeOK, Links, LinkInv, ClientInv, RecvPcs, ShopPcs, AckPcs, EndPcs,
         MatchPcs
<1> QED
  BY <1>1, <1>2, <1>3, <1>4, <1>5, <1>6, Parts

LEMMA HandleOtherBase ==
    ASSUME BaseInv, NEW m \in Received, HandleOther(m) PROVE BaseInv'
<1> USE DEF BaseInv, HandleOther, Tell, KeepClient, KeepLobby, clientVars,
            lobbyVars, linkVars, threadVars
<1>1. ClientTypes' /\ ClientInv'
  BY ClientKept
<1>2. LinkTypes'
  BY Sent, Lists, Receives, Tells
     DEF TypeOK, LinkTypes, Links, RecvPcs, ShopPcs, AckPcs, EndPcs
<1>3. ThreadTypes'
  BY Receives
     DEF TypeOK, ThreadTypes, Pcs, RecvPcs, ShopPcs, AckPcs, EndPcs, MatchPcs,
         Ids, NoId, Count
<1>4. LobbyTypes'
  BY Receives
     DEF TypeOK, LobbyTypes, Ids, NoId, Count, SeatInv, Seated, MatchPcs
<1>5. SeatInv'
  BY Receives
     DEF TypeOK, SeatInv, Seated, OverPcs, Count, Ids, NoId, RecvPcs, ShopPcs,
         AckPcs, EndPcs, MatchPcs
<1>6. LinkInv'
  BY Receives
     DEF TypeOK, Links, LinkInv, ClientInv, RecvPcs, ShopPcs, AckPcs, EndPcs,
         MatchPcs
<1> QED
  BY <1>1, <1>2, <1>3, <1>4, <1>5, <1>6, Parts

LEMMA HandleShopAckBase ==
    ASSUME BaseInv, NEW m \in Received, HandleShopAck(m) PROVE BaseInv'
<1> USE DEF BaseInv, HandleShopAck, Tell, KeepClient, KeepLobby, clientVars,
            lobbyVars, linkVars, threadVars
<1>1. ClientTypes' /\ ClientInv'
  BY ClientKept
<1>2. LinkTypes'
  BY Sent, Lists, Receives, Tells
     DEF TypeOK, LinkTypes, Links, RecvPcs, ShopPcs, AckPcs, EndPcs
<1>3. ThreadTypes'
  BY Receives
     DEF TypeOK, ThreadTypes, Pcs, RecvPcs, ShopPcs, AckPcs, EndPcs, MatchPcs,
         Ids, NoId, Count
<1>4. LobbyTypes'
  BY Receives
     DEF TypeOK, LobbyTypes, Ids, NoId, Count, SeatInv, Seated, MatchPcs
<1>5. SeatInv'
  BY Receives
     DEF TypeOK, SeatInv, Seated, OverPcs, Count, Ids, NoId, RecvPcs, ShopPcs,
         AckPcs, EndPcs, MatchPcs
<1>6. LinkInv'
  BY Receives
     DEF TypeOK, Links, LinkInv, ClientInv, RecvPcs, ShopPcs, AckPcs, EndPcs,
         MatchPcs
<1> QED
  BY <1>1, <1>2, <1>3, <1>4, <1>5, <1>6, Parts

LEMMA KeepAliveBase ==
    ASSUME BaseInv, NEW m \in Received, KeepAlive(m) PROVE BaseInv'
<1> USE DEF BaseInv, KeepAlive, Tell, KeepClient, KeepLobby, clientVars,
            lobbyVars, linkVars, threadVars
<1>1. ClientTypes' /\ ClientInv'
  BY ClientKept
<1>2. LinkTypes'
  BY Sent, Lists, Receives, Tells
     DEF TypeOK, LinkTypes, Links, RecvPcs, ShopPcs, AckPcs, EndPcs
<1>3. ThreadTypes'
  BY Receives
     DEF TypeOK, ThreadTypes, Pcs, RecvPcs, ShopPcs, AckPcs, EndPcs, MatchPcs,
         Ids, NoId, Count
<1>4. LobbyTypes'
  BY Receives
     DEF TypeOK, LobbyTypes, Ids, NoId, Count, SeatInv, Seated, MatchPcs
<1>5. SeatInv'
  BY Receives
     DEF TypeOK, SeatInv, Seated, OverPcs, Count, Ids, NoId, RecvPcs, ShopPcs,
         AckPcs, EndPcs, MatchPcs
<1>6. LinkInv'
  BY Receives
     DEF TypeOK, Links, LinkInv, ClientInv, RecvPcs, ShopPcs, AckPcs, EndPcs,
         MatchPcs
<1> QED
  BY <1>1, <1>2, <1>3, <1>4, <1>5, <1>6, Parts

LEMMA HandleAckBase ==
    ASSUME BaseInv, NEW m \in Received, HandleAck(m) PROVE BaseInv'
<1> USE DEF BaseInv, Tell, KeepClient, KeepLobby, clientVars, lobbyVars,
            linkVars, threadVars
<1>1. ClientTypes' /\ ClientInv'
  BY ClientKept, HandsOn
<1>2. LinkTypes'
  BY Sent, Lists, Receives, HandsOn, Tells
     DEF TypeOK, LinkTypes, Links, RecvPcs, ShopPcs, AckPcs, EndPcs
<1>3. ThreadTypes'
  BY Receives, HandsOn
     DEF TypeOK, ThreadTypes, Pcs, RecvPcs, ShopPcs, AckPcs, EndPcs, MatchPcs,
         Ids, NoId, Count
<1>4. LobbyTypes'
  BY Receives, HandsOn
     DEF TypeOK, LobbyTypes, Ids, NoId, Count, SeatInv, Seated, MatchPcs
<1>5. SeatInv'
  BY Receives, HandsOn
     DEF TypeOK, SeatInv, Seated, OverPcs, Count, Ids, NoId, RecvPcs, ShopPcs,
         AckPcs, EndPcs, MatchPcs
<1>6. LinkInv'
  BY Receives, HandsOn
     DEF TypeOK, Links, LinkInv, ClientInv, RecvPcs, ShopPcs, AckPcs, EndPcs,
         MatchPcs
<1> QED
  BY <1>1, <1>2, <1>3, <1>4, <1>5, <1>6, Parts

LEMMA LegalMoveBase ==
    ASSUME BaseInv, NEW m \in Received, LegalMove(m) PROVE BaseInv'
<1> USE DEF BaseInv, LegalMove
<1> DEFINE n == IF IsFinished(board') THEN "last_ack" ELSE "moved_ack"
<1>1. /\ Moved(seat, m.coin_index, m.coin_pos) /\ seat \in Ids
      /\ game_started /\ seat' = seat
  BY DEF SeatInv, MatchPcs, Seated, TypeOK
<1>2. ClientTypes' /\ ClientInv'
  BY ClientKept DEF KeepClient
<1>3. /\ LobbyTypes' /\ UNCHANGED <<game_started, others>>
      /\ game_over' = (game_over \/ IsFinished(board'))
  BY <1>1, Moves DEF TypeOK, LobbyTypes
<1>4. LinkTypes'
  BY <1>3, Sent, Lists, Receives, Tells
     DEF TypeOK, LobbyTypes, LinkTypes, KeepClient
<1>5. pc' \in {n, "forfeit"} /\ IsFinished(board') \in BOOLEAN
  BY DEF Tell, IsFinished
<1>6. ThreadTypes'
  BY <1>1, <1>5 DEF ThreadTypes, TypeOK, Pcs, MatchPcs, AckPcs, EndPcs
<1>7. SeatInv'
  <2>1. Count' = Count
    BY <1>1, <1>3 DEF Count
  <2> QED
    BY <1>1, <1>3, <1>5, <2>1
       DEF SeatInv, Seated, OverPcs, MatchPcs, AckPcs, EndPcs
<1>8. LinkInv'
  <2>1. link = "gone" => toClient' = toClient
    BY DEF Tell
  <2> QED
    BY <1>5, <2>1 DEF LinkInv, KeepClient, clientVars
<1> QED
  BY <1>2, <1>3, <1>4, <1>6, <1>7, <1>8, Parts

LEMMA IllegalMoveBase ==
    ASSUME BaseInv, NEW m \in Received, IllegalMove(m) PROVE BaseInv'
<1> USE DEF BaseInv, IllegalMove, Tell, KeepClient, KeepLobby, clientVars,
            lobbyVars, linkVars, threadVars
<1>1. ClientTypes' /\ ClientInv'
  BY ClientKept
<1>2. LinkTypes'
  BY Sent, Lists, Receives, Tells
     DEF TypeOK, LinkTypes, Links, RecvPcs, ShopPcs, AckPcs, EndPcs
<1>3. ThreadTypes'
  BY Receives
     DEF TypeOK, ThreadTypes, Pcs, RecvPcs, ShopPcs, AckPcs, EndPcs, MatchPcs,
         Ids, NoId, Count
<1>4. LobbyTypes'
  BY Receives
     DEF TypeOK, LobbyTypes, Ids, NoId, Count, SeatInv, Seated, MatchPcs
<1>5. SeatInv'
  BY Receives
     DEF TypeOK, SeatInv, Seated, OverPcs, Count, Ids, NoId, RecvPcs, ShopPcs,
         AckPcs, EndPcs, MatchPcs
<1>6. LinkInv'
  BY Receives
     DEF TypeOK, Links, LinkInv, ClientInv, RecvPcs, ShopPcs, AckPcs, EndPcs,
         MatchPcs
<1> QED
  BY <1>1, <1>2, <1>3, <1>4, <1>5, <1>6, Parts

LEMMA FailInPlayBase ==
    ASSUME BaseInv, NEW m \in Received, FailInPlay(m) PROVE BaseInv'
<1> USE DEF BaseInv, FailInPlay, Tell, KeepClient, KeepLobby, clientVars,
            lobbyVars, linkVars, threadVars
<1>1. ClientTypes' /\ ClientInv'
  BY ClientKept
<1>2. LinkTypes'
  BY Sent, Lists, Receives, Tells
     DEF TypeOK, LinkTypes, Links, RecvPcs, ShopPcs, AckPcs, EndPcs
<1>3. ThreadTypes'
  BY Receives
     DEF TypeOK, ThreadTypes, Pcs, RecvPcs, ShopPcs, AckPcs, EndPcs, MatchPcs,
         Ids, NoId, Count
<1>4. LobbyTypes'
  BY Receives
     DEF TypeOK, LobbyTypes, Ids, NoId, Count, SeatInv, Seated, MatchPcs
<1>5. SeatInv'
  BY Receives
     DEF TypeOK, SeatInv, Seated, OverPcs, Count, Ids, NoId, RecvPcs, ShopPcs,
         AckPcs, EndPcs, MatchPcs
<1>6. LinkInv'
  BY Receives
     DEF TypeOK, Links, LinkInv, ClientInv, RecvPcs, ShopPcs, AckPcs, EndPcs,
         MatchPcs
<1> QED
  BY <1>1, <1>2, <1>3, <1>4, <1>5, <1>6, Parts

LEMMA HandleUpdateAckBase ==
    ASSUME BaseInv, NEW m \in Received, HandleUpdateAck(m) PROVE BaseInv'
<1> USE DEF BaseInv, HandleUpdateAck, TellEnd, Tell, KeepClient, KeepLobby,
            clientVars, lobbyVars, linkVars, threadVars
<1>1. ClientTypes' /\ ClientInv'
  BY ClientKept
<1>2. LinkTypes'
  BY Sent, Lists, Receives, Tells
     DEF TypeOK, LinkTypes, Links, RecvPcs, ShopPcs, AckPcs, EndPcs
<1>3. ThreadTypes'
  BY Receives
     DEF TypeOK, ThreadTypes, Pcs, RecvPcs, ShopPcs, AckPcs, EndPcs, MatchPcs,
         Ids, NoId, Count
<1>4. LobbyTypes'
  BY Receives
     DEF TypeOK, LobbyTypes, Ids, NoId, Count, SeatInv, Seated, MatchPcs
<1>5. SeatInv'
  BY Receives
     DEF TypeOK, SeatInv, Seated, OverPcs, Count, Ids, NoId, RecvPcs, ShopPcs,
         AckPcs, EndPcs, MatchPcs
<1>6. LinkInv'
  BY Receives
     DEF TypeOK, Links, LinkInv, ClientInv, RecvPcs, ShopPcs, AckPcs, EndPcs,
         MatchPcs
<1> QED
  BY <1>1, <1>2, <1>3, <1>4, <1>5, <1>6, Parts

LEMMA HandleEndAckBase ==
    ASSUME BaseInv, NEW m \in Received, HandleEndAck(m) PROVE BaseInv'
<1> USE DEF BaseInv, HandleEndAck, Tell, KeepClient, KeepLobby, clientVars,
            lobbyVars, linkVars, threadVars
<1>1. ClientTypes' /\ ClientInv'
  BY ClientKept
<1>2. LinkTypes'
  BY Sent, Lists, Receives, Tells
     DEF TypeOK, LinkTypes, Links, RecvPcs, ShopPcs, AckPcs, EndPcs
<1>3. ThreadTypes'
  BY Receives
     DEF TypeOK, ThreadTypes, Pcs, RecvPcs, ShopPcs, AckPcs, EndPcs, MatchPcs,
         Ids, NoId, Count
<1>4. LobbyTypes'
  BY Receives
     DEF TypeOK, LobbyTypes, Ids, NoId, Count, SeatInv, Seated, MatchPcs
<1>5. SeatInv'
  BY Receives
     DEF TypeOK, SeatInv, Seated, OverPcs, Count, Ids, NoId, RecvPcs, ShopPcs,
         AckPcs, EndPcs, MatchPcs
<1>6. LinkInv'
  BY Receives
     DEF TypeOK, Links, LinkInv, ClientInv, RecvPcs, ShopPcs, AckPcs, EndPcs,
         MatchPcs
<1> QED
  BY <1>1, <1>2, <1>3, <1>4, <1>5, <1>6, Parts

LEMMA AcquireSlotBase ==
    ASSUME BaseInv, AcquireSlot PROVE BaseInv'
<1> USE DEF BaseInv, AcquireSlot, KeepClient, KeepLobby, clientVars,
            lobbyVars, linkVars, threadVars
<1>1. ClientTypes' /\ ClientInv'
  BY ClientKept
<1>2. LinkTypes'
  BY Sent, Lists, Tells
     DEF TypeOK, LinkTypes, Links, RecvPcs, ShopPcs, AckPcs, EndPcs
<1>3. ThreadTypes'
  BY DEF TypeOK, ThreadTypes, Pcs, RecvPcs, ShopPcs, AckPcs, EndPcs, MatchPcs,
         Ids, NoId, Count
<1>4. LobbyTypes'
  BY DEF TypeOK, LobbyTypes, Ids, NoId, Count, SeatInv, Seated, MatchPcs
<1>5. SeatInv'
  BY DEF TypeOK, SeatInv, Seated, OverPcs, Count, Ids, NoId, RecvPcs, ShopPcs,
         AckPcs, EndPcs, MatchPcs
<1>6. LinkInv'
  BY DEF TypeOK, Links, LinkInv, ClientInv, RecvPcs, ShopPcs, AckPcs, EndPcs,
         MatchPcs
<1> QED
  BY <1>1, <1>2, <1>3, <1>4, <1>5, <1>6, Parts

LEMMA SeeBothPlayersBase ==
    ASSUME BaseInv, SeeBothPlayers PROVE BaseInv'
<1> USE DEF BaseInv, SeeBothPlayers, KeepClient, KeepLobby, clientVars,
            lobbyVars, linkVars, threadVars
<1>1. ClientTypes' /\ ClientInv'
  BY ClientKept
<1>2. LinkTypes'
  BY Sent, Lists, Tells
     DEF TypeOK, LinkTypes, Links, RecvPcs, ShopPcs, AckPcs, EndPcs
<1>3. ThreadTypes'
  BY DEF TypeOK, ThreadTypes, Pcs, RecvPcs, ShopPcs, AckPcs, EndPcs, MatchPcs,
         Ids, NoId, Count
<1>4. LobbyTypes'
  BY DEF TypeOK, LobbyTypes, Ids, NoId, Count, SeatInv, Seated, MatchPcs
<1>5. SeatInv'
  BY DEF TypeOK, SeatInv, Seated, OverPcs, Count, Ids, NoId, RecvPcs, ShopPcs,
         AckPcs, EndPcs, MatchPcs
<1>6. LinkInv'
  BY DEF TypeOK, Links, LinkInv, ClientInv, RecvPcs, ShopPcs, AckPcs, EndPcs,
         MatchPcs
<1> QED
  BY <1>1, <1>2, <1>3, <1>4, <1>5, <1>6, Parts

LEMMA SendGameWaitBase ==
    ASSUME BaseInv, SendGameWait PROVE BaseInv'
<1> USE DEF BaseInv, SendGameWait, Tell, KeepClient, KeepLobby, clientVars,
            lobbyVars, linkVars, threadVars
<1>1. ClientTypes' /\ ClientInv'
  BY ClientKept
<1>2. LinkTypes'
  BY Sent, Lists, Tells
     DEF TypeOK, LinkTypes, Links, RecvPcs, ShopPcs, AckPcs, EndPcs
<1>3. ThreadTypes'
  BY DEF TypeOK, ThreadTypes, Pcs, RecvPcs, ShopPcs, AckPcs, EndPcs, MatchPcs,
         Ids, NoId, Count
<1>4. LobbyTypes'
  BY DEF TypeOK, LobbyTypes, Ids, NoId, Count, SeatInv, Seated, MatchPcs
<1>5. SeatInv'
  BY DEF TypeOK, SeatInv, Seated, OverPcs, Count, Ids, NoId, RecvPcs, ShopPcs,
         AckPcs, EndPcs, MatchPcs
<1>6. LinkInv'
  BY DEF TypeOK, Links, LinkInv, ClientInv, RecvPcs, ShopPcs, AckPcs, EndPcs,
         MatchPcs
<1> QED
  BY <1>1, <1>2, <1>3, <1>4, <1>5, <1>6, Parts

LEMMA StartMatchBase ==
    ASSUME BaseInv, StartMatch PROVE BaseInv'
<1> USE DEF BaseInv, StartMatch, SetUpMatch, Tell, KeepClient, KeepLobby,
            clientVars, lobbyVars, linkVars, threadVars
<1>1. ClientTypes' /\ ClientInv'
  BY ClientKept
<1>2. LinkTypes'
  BY Sent, Lists, Tells
     DEF TypeOK, LinkTypes, Links, RecvPcs, ShopPcs, AckPcs, EndPcs
<1>3. ThreadTypes'
  BY DEF TypeOK, ThreadTypes, Pcs, RecvPcs, ShopPcs, AckPcs, EndPcs, MatchPcs,
         Ids, NoId, Count
<1>4. LobbyTypes'
  <2>1. board' \in Boards /\ current_turn' \in Ids
    BY InitBoardsPlayable
       DEF TypeOK, Ids, NoId, Count, SeatInv, Seated, MatchPcs
  <2>2. winner_id' \in Ids \cup {NoId}
    BY DEF TypeOK, Ids, NoId, SeatInv, Seated, MatchPcs
  <2>3. game_started' \in BOOLEAN /\ game_over' \in BOOLEAN
    BY DEF TypeOK
  <2>4. others' \in [Ids -> 0 .. 2]
    BY DEF TypeOK, Ids, NoId, Count, SeatInv
  <2> QED
    BY <2>1, <2>2, <2>3, <2>4 DEF LobbyTypes
<1>5. SeatInv'
  <2>1. /\ seat' = seat /\ game_started' /\ Count' = Count
        /\ pc' \in {"start_ack", "release_close"}
    BY DEF TypeOK, Count
  <2>2. ~ game_over' => Count = 2 /\ ~ IsFinished(board')
    <3>1. CASE game_started
      BY <3>1 DEF TypeOK, SeatInv, Seated
    <3>2. CASE ~ game_started
      BY <3>2, InitBoardsPlayable DEF TypeOK, SeatInv
    <3> QED
      BY <3>1, <3>2
  <2>3. Count <= 2 /\ seat # NoId
    BY DEF SeatInv, Seated
  <2> QED
    BY <2>1, <2>2, <2>3 DEF SeatInv, Seated, OverPcs, MatchPcs, AckPcs, EndPcs
<1>6. LinkInv'
  BY DEF TypeOK, Links, LinkInv, ClientInv, RecvPcs, ShopPcs, AckPcs, EndPcs,
         MatchPcs
<1> QED
  BY <1>1, <1>2, <1>3, <1>4, <1>5, <1>6, Parts

LEMMA SeeGameOverBase ==
    ASSUME BaseInv, SeeGameOver PROVE BaseInv'
<1> USE DEF BaseInv, SeeGameOver, KeepClient, KeepLobby, clientVars,
            lobbyVars, linkVars, threadVars
<1>1. ClientTypes' /\ ClientInv'
  BY ClientKept
<1>2. LinkTypes'
  BY Sent, Lists, Tells
     DEF TypeOK, LinkTypes, Links, RecvPcs, ShopPcs, AckPcs, EndPcs
<1>3. ThreadTypes'
  BY DEF TypeOK, ThreadTypes, Pcs, RecvPcs, ShopPcs, AckPcs, EndPcs, MatchPcs,
         Ids, NoId, Count
<1>4. LobbyTypes'
  BY DEF TypeOK, LobbyTypes, Ids, NoId, Count, SeatInv, Seated, MatchPcs
<1>5. SeatInv'
  BY DEF TypeOK, SeatInv, Seated, OverPcs, Count, Ids, NoId, RecvPcs, ShopPcs,
         AckPcs, EndPcs, MatchPcs
<1>6. LinkInv'
  BY DEF TypeOK, Links, LinkInv, ClientInv, RecvPcs, ShopPcs, AckPcs, EndPcs,
         MatchPcs
<1> QED
  BY <1>1, <1>2, <1>3, <1>4, <1>5, <1>6, Parts

LEMMA TakeTurnBase ==
    ASSUME BaseInv, TakeTurn PROVE BaseInv'
<1> USE DEF BaseInv, TakeTurn, Tell, KeepClient, KeepLobby, clientVars,
            lobbyVars, linkVars, threadVars
<1>1. ClientTypes' /\ ClientInv'
  BY ClientKept
<1>2. LinkTypes'
  BY Sent, Lists, Tells
     DEF TypeOK, LinkTypes, Links, RecvPcs, ShopPcs, AckPcs, EndPcs
<1>3. ThreadTypes'
  BY DEF TypeOK, ThreadTypes, Pcs, RecvPcs, ShopPcs, AckPcs, EndPcs, MatchPcs,
         Ids, NoId, Count
<1>4. LobbyTypes'
  BY DEF TypeOK, LobbyTypes, Ids, NoId, Count, SeatInv, Seated, MatchPcs
<1>5. SeatInv'
  BY DEF TypeOK, SeatInv, Seated, OverPcs, Count, Ids, NoId, RecvPcs, ShopPcs,
         AckPcs, EndPcs, MatchPcs
<1>6. LinkInv'
  BY DEF TypeOK, Links, LinkInv, ClientInv, RecvPcs, ShopPcs, AckPcs, EndPcs,
         MatchPcs
<1> QED
  BY <1>1, <1>2, <1>3, <1>4, <1>5, <1>6, Parts

LEMMA SendResultBase ==
    ASSUME BaseInv, SendResult PROVE BaseInv'
<1> USE DEF BaseInv, SendResult, TellEnd, Tell, KeepClient, KeepLobby,
            clientVars, lobbyVars, linkVars, threadVars
<1>1. ClientTypes' /\ ClientInv'
  BY ClientKept
<1>2. LinkTypes'
  BY Sent, Lists, Tells
     DEF TypeOK, LinkTypes, Links, RecvPcs, ShopPcs, AckPcs, EndPcs
<1>3. ThreadTypes'
  BY DEF TypeOK, ThreadTypes, Pcs, RecvPcs, ShopPcs, AckPcs, EndPcs, MatchPcs,
         Ids, NoId, Count
<1>4. LobbyTypes'
  BY DEF TypeOK, LobbyTypes, Ids, NoId, Count, SeatInv, Seated, MatchPcs
<1>5. SeatInv'
  BY DEF TypeOK, SeatInv, Seated, OverPcs, Count, Ids, NoId, RecvPcs, ShopPcs,
         AckPcs, EndPcs, MatchPcs
<1>6. LinkInv'
  BY DEF TypeOK, Links, LinkInv, ClientInv, RecvPcs, ShopPcs, AckPcs, EndPcs,
         MatchPcs
<1> QED
  BY <1>1, <1>2, <1>3, <1>4, <1>5, <1>6, Parts

LEMMA HandleDisconnectWinBase ==
    ASSUME BaseInv, HandleDisconnectWin PROVE BaseInv'
<1> USE DEF BaseInv, HandleDisconnectWin, Lose, KeepClient, KeepLobby,
            clientVars, lobbyVars, linkVars, threadVars
<1>1. ClientTypes' /\ ClientInv'
  BY ClientKept
<1>2. LinkTypes'
  BY Sent, Lists, Tells
     DEF TypeOK, LinkTypes, Links, RecvPcs, ShopPcs, AckPcs, EndPcs
<1>3. ThreadTypes'
  BY DEF TypeOK, ThreadTypes, Pcs, RecvPcs, ShopPcs, AckPcs, EndPcs, MatchPcs,
         Ids, NoId, Count
<1>4. LobbyTypes'
  <2>1. board' \in Boards /\ current_turn' \in Ids
    BY DEF TypeOK, Ids, NoId, Count, SeatInv, Seated, MatchPcs
  <2>2. winner_id' \in Ids \cup {NoId}
    BY DEF TypeOK, Ids, NoId, SeatInv, Seated, MatchPcs
  <2>3. game_started' \in BOOLEAN /\ game_over' \in BOOLEAN
    BY DEF TypeOK
  <2>4. others' \in [Ids -> 0 .. 2]
    BY DEF TypeOK, Ids, NoId, Count, SeatInv
  <2> QED
    BY <2>1, <2>2, <2>3, <2>4 DEF LobbyTypes
<1>5. SeatInv'
  BY DEF TypeOK, SeatInv, Seated, OverPcs, Count, Ids, NoId, RecvPcs, ShopPcs,
         AckPcs, EndPcs, MatchPcs
<1>6. LinkInv'
  BY DEF TypeOK, Links, LinkInv, ClientInv, RecvPcs, ShopPcs, AckPcs, EndPcs,
         MatchPcs
<1> QED
  BY <1>1, <1>2, <1>3, <1>4, <1>5, <1>6, Parts

LEMMA ReleaseSlotBase ==
    ASSUME BaseInv, ReleaseSlot PROVE BaseInv'
<1> USE DEF BaseInv, ReleaseSlot, ResetLobby, KeepClient, KeepLobby,
            clientVars, lobbyVars, linkVars, threadVars
<1>1. ClientTypes' /\ ClientInv'
  BY ClientKept
<1>2. LinkTypes'
  BY Sent, Lists, Tells
     DEF TypeOK, LinkTypes, Links, RecvPcs, ShopPcs, AckPcs, EndPcs
<1>3. ThreadTypes'
  BY DEF TypeOK, ThreadTypes, Pcs, RecvPcs, ShopPcs, AckPcs, EndPcs, MatchPcs,
         Ids, NoId, Count
<1>4. LobbyTypes'
  BY InitBoardsPlayable
     DEF TypeOK, LobbyTypes, Ids, NoId, Count, SeatInv, Seated, MatchPcs
<1>5. SeatInv'
  BY InitBoardsPlayable
     DEF TypeOK, SeatInv, Seated, OverPcs, Count, Ids, NoId, RecvPcs, ShopPcs,
         AckPcs, EndPcs, MatchPcs
<1>6. LinkInv'
  BY DEF TypeOK, Links, LinkInv, ClientInv, RecvPcs, ShopPcs, AckPcs, EndPcs,
         MatchPcs
<1> QED
  BY <1>1, <1>2, <1>3, <1>4, <1>5, <1>6, Parts

LEMMA CloseConnectionBase ==
    ASSUME BaseInv, CloseConnection PROVE BaseInv'
<1> USE DEF BaseInv, CloseConnection, KeepClient, KeepLobby, clientVars,
            lobbyVars, linkVars, threadVars
<1>1. ClientTypes' /\ ClientInv'
  BY ClientKept
<1>2. LinkTypes'
  BY Sent, Lists, Tells
     DEF TypeOK, LinkTypes, Links, RecvPcs, ShopPcs, AckPcs, EndPcs
<1>3. ThreadTypes'
  BY DEF TypeOK, ThreadTypes, Pcs, RecvPcs, ShopPcs, AckPcs, EndPcs, MatchPcs,
         Ids, NoId, Count
<1>4. LobbyTypes'
  BY DEF TypeOK, LobbyTypes, Ids, NoId, Count, SeatInv, Seated, MatchPcs
<1>5. SeatInv'
  BY DEF TypeOK, SeatInv, Seated, OverPcs, Count, Ids, NoId, RecvPcs, ShopPcs,
         AckPcs, EndPcs, MatchPcs
<1>6. LinkInv'
  <2>1. pc' = "closed" /\ toServer' = <<>> /\ link' # "open"
    BY DEF TypeOK, Links
  <2>2. link' = "gone" => link = "gone" /\ toClient' = toClient
    BY DEF TypeOK, Links
  <2>3. link = "gone" => link' = "gone"
    BY DEF TypeOK, Links
  <2>4. UNCHANGED <<net, blocked>>
    OBVIOUS
  <2> QED
    BY <2>1, <2>2, <2>3, <2>4 DEF LinkInv
<1> QED
  BY <1>1, <1>2, <1>3, <1>4, <1>5, <1>6, Parts

LEMMA OtherJoinsBase ==
    ASSUME BaseInv, OtherJoins PROVE BaseInv'
<1> USE DEF BaseInv, OtherJoins, KeepSession, clientVars, linkVars, threadVars
<1>1. ClientTypes' /\ ClientInv'
  BY ClientKept
<1>2. LinkTypes'
  BY Sent, Lists
     DEF TypeOK, LinkTypes, Links, RecvPcs, ShopPcs, AckPcs, EndPcs
<1>3. ThreadTypes'
  BY DEF TypeOK, ThreadTypes, Pcs, RecvPcs, ShopPcs, AckPcs, EndPcs, MatchPcs,
         Ids, NoId, Count
<1>4. LobbyTypes'
  BY DEF TypeOK, LobbyTypes, Ids, NoId, Count, SeatInv, Seated, MatchPcs
<1>5. SeatInv'
  BY DEF TypeOK, SeatInv, Seated, OverPcs, Count, Ids, NoId, RecvPcs, ShopPcs,
         AckPcs, EndPcs, MatchPcs
<1>6. LinkInv'
  BY DEF TypeOK, Links, LinkInv, ClientInv, RecvPcs, ShopPcs, AckPcs, EndPcs,
         MatchPcs
<1> QED
  BY <1>1, <1>2, <1>3, <1>4, <1>5, <1>6, Parts

LEMMA OtherStartsBase ==
    ASSUME BaseInv, OtherStarts PROVE BaseInv'
<1> USE DEF BaseInv, OtherStarts, SetUpMatch, KeepSession, clientVars,
            linkVars, threadVars
<1>1. ClientTypes' /\ ClientInv'
  BY ClientKept
<1>2. LinkTypes'
  BY Sent, Lists
     DEF TypeOK, LinkTypes, Links, RecvPcs, ShopPcs, AckPcs, EndPcs
<1>3. ThreadTypes'
  BY DEF TypeOK, ThreadTypes, Pcs, RecvPcs, ShopPcs, AckPcs, EndPcs, MatchPcs,
         Ids, NoId, Count
<1>4. LobbyTypes'
  <2>1. board' \in Boards /\ current_turn' \in Ids
    BY InitBoardsPlayable
       DEF TypeOK, Ids, NoId, Count, SeatInv, Seated, MatchPcs
  <2>2. winner_id' \in Ids \cup {NoId}
    BY DEF TypeOK, Ids, NoId, SeatInv, Seated, MatchPcs
  <2>3. game_started' \in BOOLEAN /\ game_over' \in BOOLEAN
    BY DEF TypeOK
  <2>4. others' \in [Ids -> 0 .. 2]
    BY DEF TypeOK, Ids, NoId, Count, SeatInv
  <2> QED
    BY <2>1, <2>2, <2>3, <2>4 DEF LobbyTypes
<1>5. SeatInv'
  BY InitBoardsPlayable
     DEF TypeOK, SeatInv, Seated, OverPcs, Count, Ids, NoId, RecvPcs, ShopPcs,
         AckPcs, EndPcs, MatchPcs
<1>6. LinkInv'
  BY DEF TypeOK, Links, LinkInv, ClientInv, RecvPcs, ShopPcs, AckPcs, EndPcs,
         MatchPcs
<1> QED
  BY <1>1, <1>2, <1>3, <1>4, <1>5, <1>6, Parts

LEMMA OtherMovesBase ==
    ASSUME BaseInv, NEW i \in Ids, OtherMoves(i) PROVE BaseInv'
<1> USE DEF BaseInv, OtherMoves, Moved, Playing, KeepSession, clientVars,
            linkVars, threadVars
<1>1. ClientTypes' /\ ClientInv'
  BY ClientKept
<1>2. LinkTypes'
  BY Sent, Lists
     DEF TypeOK, LinkTypes, Links, RecvPcs, ShopPcs, AckPcs, EndPcs
<1>3. ThreadTypes'
  BY DEF TypeOK, ThreadTypes, Pcs, RecvPcs, ShopPcs, AckPcs, EndPcs, MatchPcs,
         Ids, NoId, Count
<1>4. LobbyTypes'
  <2>1. board' \in Boards /\ current_turn' \in Ids
    BY ApplyMoveCoins DEF TypeOK, Ids, NoId, Count, SeatInv, Seated, MatchPcs
  <2>2. winner_id' \in Ids \cup {NoId}
    BY DEF TypeOK, Ids, NoId, SeatInv, Seated, MatchPcs
  <2>3. game_started' \in BOOLEAN /\ game_over' \in BOOLEAN
    BY DEF TypeOK
  <2>4. others' \in [Ids -> 0 .. 2]
    BY DEF TypeOK, Ids, NoId, Count, SeatInv
  <2> QED
    BY <2>1, <2>2, <2>3, <2>4 DEF LobbyTypes
<1>5. SeatInv'
  BY ApplyMoveCoins
     DEF TypeOK, SeatInv, Seated, OverPcs, Count, Ids, NoId, RecvPcs, ShopPcs,
         AckPcs, EndPcs, MatchPcs
<1>6. LinkInv'
  BY DEF TypeOK, Links, LinkInv, ClientInv, RecvPcs, ShopPcs, AckPcs, EndPcs,
         MatchPcs
<1> QED
  BY <1>1, <1>2, <1>3, <1>4, <1>5, <1>6, Parts

LEMMA OtherForfeitsBase ==
    ASSUME BaseInv, NEW i \in Ids, OtherForfeits(i) PROVE BaseInv'
<1> USE DEF BaseInv, OtherForfeits, Playing, Lose, KeepSession, clientVars,
            linkVars, threadVars
<1>1. ClientTypes' /\ ClientInv'
  BY ClientKept
<1>2. LinkTypes'
  BY Sent, Lists
     DEF TypeOK, LinkTypes, Links, RecvPcs, ShopPcs, AckPcs, EndPcs
<1>3. ThreadTypes'
  BY DEF TypeOK, ThreadTypes, Pcs, RecvPcs, ShopPcs, AckPcs, EndPcs, MatchPcs,
         Ids, NoId, Count
<1>4. LobbyTypes'
  BY DEF TypeOK, LobbyTypes, Ids, NoId, Count, SeatInv, Seated, MatchPcs
<1>5. SeatInv'
  BY DEF TypeOK, SeatInv, Seated, OverPcs, Count, Ids, NoId, RecvPcs, ShopPcs,
         AckPcs, EndPcs, MatchPcs
<1>6. LinkInv'
  BY DEF TypeOK, Links, LinkInv, ClientInv, RecvPcs, ShopPcs, AckPcs, EndPcs,
         MatchPcs
<1> QED
  BY <1>1, <1>2, <1>3, <1>4, <1>5, <1>6, Parts

LEMMA OtherLeavesBase ==
    ASSUME BaseInv, NEW i \in Ids, OtherLeaves(i) PROVE BaseInv'
<1> USE DEF BaseInv, OtherLeaves, ResetLobby, KeepSession, clientVars,
            linkVars, threadVars
<1>1. ClientTypes' /\ ClientInv'
  BY ClientKept
<1>2. LinkTypes'
  BY Sent, Lists
     DEF TypeOK, LinkTypes, Links, RecvPcs, ShopPcs, AckPcs, EndPcs
<1>3. ThreadTypes'
  BY DEF TypeOK, ThreadTypes, Pcs, RecvPcs, ShopPcs, AckPcs, EndPcs, MatchPcs,
         Ids, NoId, Count
<1>4. LobbyTypes'
  <2>1. board' \in Boards /\ current_turn' \in Ids
    BY InitBoardsPlayable
       DEF TypeOK, Ids, NoId, Count, SeatInv, Seated, MatchPcs
  <2>2. winner_id' \in Ids \cup {NoId}
    BY DEF TypeOK, Ids, NoId, SeatInv, Seated, MatchPcs
  <2>3. game_started' \in BOOLEAN /\ game_over' \in BOOLEAN
    BY DEF TypeOK
  <2>4. others' \in [Ids -> 0 .. 2]
    BY DEF TypeOK, Ids, NoId, Count, SeatInv
  <2> QED
    BY <2>1, <2>2, <2>3, <2>4 DEF LobbyTypes
<1>5. SeatInv'
  <2>1. Count \in Nat /\ Count' = Count - 1
    BY DEF TypeOK, Count, Ids, NoId
  <2>2. CASE Count = 1
    <3>1. seat = NoId
      BY <2>2 DEF TypeOK, Count, Ids, NoId
    <3> QED
      BY <2>1, <2>2, <3>1, InitBoardsPlayable
         DEF SeatInv, Seated, OverPcs, MatchPcs, AckPcs, EndPcs
  <2>3. CASE Count # 1
    BY <2>1, <2>3 DEF TypeOK, SeatInv
  <2> QED
    BY <2>2, <2>3
<1>6. LinkInv'
  BY DEF TypeOK, Links, LinkInv, ClientInv, RecvPcs, ShopPcs, AckPcs, EndPcs,
         MatchPcs
<1> QED
  BY <1>1, <1>2, <1>3, <1>4, <1>5, <1>6, Parts

LEMMA BaseInit == Init => BaseInv
<1> SUFFICES ASSUME Init PROVE BaseInv
  OBVIOUS
<1> USE DEF Init
<1>1. TypeOK
  BY InitBoardsPlayable, NoCoinsTyped
     DEF TypeOK, NetStates, BlockedIn, Links, Pcs, RecvPcs, Ids, NoId
<1>2. SeatInv
  BY DEF SeatInv, Count, Ids, NoId, Seated, OverPcs, MatchPcs, AckPcs, EndPcs
<1>3. LinkInv /\ ClientInv
  BY DEF LinkInv, ClientInv
<1> QED
  BY <1>1, <1>2, <1>3 DEF BaseInv

LEMMA BaseNext == BaseInv /\ [Next]_vars => BaseInv'
<1> SUFFICES ASSUME BaseInv, [Next]_vars PROVE BaseInv'
  OBVIOUS
<1>1. CASE ClientStep
  BY <1>1, ConnectBase, ConnectFailsBase, TakeConnectAckBase,
     TakePlayerInfoBase, ConnectRefusedBase, JoinGameBase, TakeJoinAckBase,
     TakeGameWaitBase, TakeGameStartBase, TakeAckBase, TakeGameStateBase,
     TakePlayBase, TakeGameEndBase, TakeProfileBase, PollFailsBase,
     SendMoveBase, SendShopActionBase, LeaveBase
     DEF ClientStep
<1>2. CASE ThreadStep
  BY <1>2, HandleConnectBase, HandleInfoAckBase, HandleGameJoinBase,
     ShopActionServedBase, ShopActionRefusedBase, HandleOtherBase,
     HandleShopAckBase, KeepAliveBase, HandleAckBase, LegalMoveBase,
     IllegalMoveBase, FailInPlayBase, HandleUpdateAckBase, HandleEndAckBase,
     AcquireSlotBase, SeeBothPlayersBase, SendGameWaitBase, StartMatchBase,
     SeeGameOverBase, TakeTurnBase, SendResultBase, HandleDisconnectWinBase,
     ReleaseSlotBase, CloseConnectionBase
     DEF ThreadStep, ThreadReceives
<1>3. CASE OthersStep
  BY <1>3, OtherJoinsBase, OtherStartsBase, OtherMovesBase, OtherForfeitsBase,
     OtherLeavesBase
     DEF OthersStep
<1>4. CASE UNCHANGED vars
  <2> USE <1>4 DEF vars, clientVars, linkVars, threadVars, lobbyVars
  <2>1. TypeOK'
    BY DEF BaseInv, TypeOK
  <2>2. SeatInv'
    BY DEF BaseInv, SeatInv, Count
  <2>3. LinkInv' /\ ClientInv'
    BY DEF BaseInv, LinkInv, ClientInv
  <2> QED
    BY <2>1, <2>2, <2>3 DEF BaseInv
<1> QED
  BY <1>1, <1>2, <1>3, <1>4 DEF Next

\* Whatever the client, the thread and the other player do, every field that
\* network_client.c and server_worker.c keep for the connection has one of its
\* values, and the two streams hold messages of the protocol: the switch of
\* neither side meets a state that it has no case for.
THEOREM SessionTyped == Spec => []TypeOK
<1>1. BaseInv => TypeOK
  BY DEF BaseInv
<1> QED
  BY BaseInit, BaseNext, <1>1, PTL DEF Spec

LEMMA ClientActs ==
    ASSUME BaseInv, ClientStep
    PROVE  Client!NetNext \/ UNCHANGED Client!netVars
<1> USE DEF NetSeen, KeepGame
<1>0. blocked \in BlockedIn /\ (net = "IN_GAME" => blocked = "no")
  BY DEF BaseInv, TypeOK, ClientInv, BlockedIn
<1>1. ASSUME NEW p \in {"match", "info"}, Connect(p)
      PROVE  Client!Prepare("DISCONNECTED")
  BY <1>1
     DEF Connect, Request, Client!Prepare, Client!Drop, NoCoins,
         Client!NoCoins, Cells, Client!Cells
<1>2. ASSUME NEW p \in {"match", "info"}, ConnectFails(p)
      PROVE  Client!Prepare("ERROR")
  BY <1>2
     DEF ConnectFails, Request, BaseInv, LinkInv, Client!Prepare, Client!Drop,
         NoCoins, Client!NoCoins, Cells, Client!Cells
<1>3. ASSUME TakeConnectAck PROVE UNCHANGED Client!netVars
  BY <1>3 DEF TakeConnectAck, Client!netVars
<1>4. ASSUME TakePlayerInfo
      PROVE  Client!NetworkClient_Connect("info") \/ UNCHANGED Client!netVars
  BY <1>4 DEF TakePlayerInfo, Client!NetworkClient_Connect, Client!netVars
<1>5. ASSUME ConnectRefused PROVE Client!NetworkFails
  BY <1>5 DEF ConnectRefused, HandshakeFails, Client!NetworkFails
<1>6. ASSUME JoinGame
      PROVE  Client!NetworkFails \/ UNCHANGED Client!netVars
  BY <1>6 DEF JoinGame, Client!NetworkFails, Client!netVars
<1>7. ASSUME TakeJoinAck
      PROVE  Client!NetworkClient_Connect("match") \/ Client!NetworkFails
  BY <1>7 DEF TakeJoinAck, Client!NetworkClient_Connect, Client!NetworkFails
<1>8. ASSUME TakeGameWait \/ TakeProfile PROVE UNCHANGED Client!netVars
  BY <1>8 DEF TakeGameWait, TakeProfile, Arrives, Client!netVars
<1>9. ASSUME TakeGameStart
      PROVE  \E b \in BOOLEAN : Client!StartGame(b)
  <2>1. Head(toClient).is_starting \in BOOLEAN
    BY <1>9, Reads, MessageFields DEF TakeGameStart, Arrives, BaseInv
  <2> QED
    BY <1>9, <2>1
       DEF TakeGameStart, Arrives, Client!StartGame, NoCoins, Client!NoCoins,
           Cells, Client!Cells
<1>10. ASSUME TakeAck PROVE \E b \in BOOLEAN : Client!TakeAck(b)
  <2>1. Head(toClient).ok \in BOOLEAN
    BY <1>10, Reads, MessageFields DEF TakeAck, Arrives, BaseInv
  <2>2. Client!TakeAck(Head(toClient).ok)
    BY <1>10 DEF TakeAck, Arrives, Afterwards, Client!TakeAck
  <2> QED
    BY <2>1, <2>2
<1>11. ASSUME TakeGameState
       PROVE  \/ \E b \in Client!Boards : Client!TakeGameState(b)
              \/ UNCHANGED Client!netVars
  <2>1. Head(toClient).board \in Client!Boards
    BY <1>11, Reads, MessageFields
       DEF TakeGameState, Arrives, BaseInv, Boards, Client!Boards, Cells,
           Client!Cells
  <2>2. CASE InGame
    BY <1>11, <2>1, <2>2
       DEF TakeGameState, Arrives, InGame, Client!TakeGameState
  <2>3. CASE ~ InGame
    BY <1>11, <2>3 DEF TakeGameState, Arrives, Client!netVars
  <2> QED
    BY <2>2, <2>3
<1>12. ASSUME TakePlay
       PROVE  Client!TakePlay \/ UNCHANGED Client!netVars
  <2>1. CASE InGame
    BY <1>12, <2>1 DEF TakePlay, Arrives, InGame, Client!TakePlay
  <2>2. CASE ~ InGame
    <3>1. is_our_turn' = is_our_turn
      BY <1>12, <2>2 DEF TakePlay, BaseInv, TypeOK
    <3> QED
      BY <1>12, <3>1 DEF TakePlay, Arrives, Client!netVars
  <2> QED
    BY <2>1, <2>2
<1>13. ASSUME TakeGameEnd PROVE \E b \in BOOLEAN : Client!TakeGameEnd(b)
  <2>1. Head(toClient).has_won \in BOOLEAN
    BY <1>13, Reads, MessageFields DEF TakeGameEnd, Arrives, BaseInv
  <2>2. Client!TakeGameEnd(Head(toClient).has_won)
    BY <1>13 DEF TakeGameEnd, Arrives, Client!TakeGameEnd, Client!Drop
  <2> QED
    BY <2>1, <2>2
<1>14. ASSUME PollFails PROVE Client!NetworkFails
  BY <1>14 DEF PollFails, Polling, Client!NetworkFails
<1>15. ASSUME NEW i \in Cells, NEW j \in Cells, SendMove(i, j)
       PROVE  Client!NetworkClient_SendMove \/ Client!NetworkFails
  <2>1. CASE SendFails
    <3>1. waiting_for_ack' = waiting_for_ack
      BY <1>15, <2>1 DEF SendMove, BaseInv, TypeOK
    <3> QED
      BY <1>0, <1>15, <2>1, <3>1 DEF SendMove, InGame, Client!NetworkFails
  <2>2. CASE ~ SendFails
    BY <1>0, <1>15, <2>2
       DEF SendMove, InGame, Client!NetworkClient_SendMove, Client!CanSend,
           Client!NetworkClient_IsOurTurn
  <2> QED
    BY <2>1, <2>2
<1>16. ASSUME SendShopAction
       PROVE  Client!NetworkFails \/ UNCHANGED Client!netVars
  BY <1>16 DEF SendShopAction, Client!NetworkFails, Client!netVars
<1>17. ASSUME Leave PROVE Client!NetworkClient_Disconnect
  BY <1>17 DEF Leave, Client!NetworkClient_Disconnect, Client!Drop
<1> QED
  BY <1>1, <1>2, <1>3, <1>4, <1>5, <1>6, <1>7, <1>8, <1>9, <1>10, <1>11,
     <1>12, <1>13, <1>14, <1>15, <1>16, <1>17, Zenon
     DEF ClientStep, Client!NetNext

LEMMA ServerActs ==
    ASSUME ThreadStep \/ OthersStep PROVE UNCHANGED Client!netVars
<1>1. UNCHANGED clientVars
  <2> USE DEF KeepClient, KeepSession, clientVars
  <2>1. CASE ThreadReceives
    BY <2>1
       DEF ThreadReceives, HandleConnect, HandleInfoAck, HandleGameJoin,
           ShopActionServed, ShopActionRefused, HandleOther, HandleShopAck,
           KeepAlive, HandleAck, LegalMove, IllegalMove, FailInPlay,
           HandleUpdateAck, HandleEndAck
  <2>2. CASE ThreadStep /\ ~ ThreadReceives
    BY <2>2
       DEF ThreadStep, AcquireSlot, SeeBothPlayers, SendGameWait, StartMatch,
           SeeGameOver, TakeTurn, SendResult, HandleDisconnectWin, ReleaseSlot,
           CloseConnection
  <2>3. CASE OthersStep
    BY <2>3
       DEF OthersStep, OtherJoins, OtherStarts, OtherMoves, OtherForfeits,
           OtherLeaves
  <2> QED
    BY <2>1, <2>2, <2>3
<1> QED
  BY <1>1 DEF clientVars, NetSeen, Client!netVars

\* What main is shown of the connection by network_client.c, against this
\* server and over these streams, is a behaviour of NetworkClient, the
\* abstraction of the connection that ClientApp is built on: what is proved of
\* ClientApp holds with the real protocol underneath.
THEOREM ImplementsNetworkClient == Spec => ClientSpec
<1>1. Init => Client!NetInit
  BY DEF Init, NetSeen, Client!NetInit, NoCoins, Client!NoCoins, Cells,
         Client!Cells
<1>2. BaseInv /\ [Next]_vars => [Client!NetNext]_(Client!netVars)
  <2> SUFFICES ASSUME BaseInv, [Next]_vars
               PROVE  Client!NetNext \/ UNCHANGED Client!netVars
    OBVIOUS
  <2>1. CASE UNCHANGED vars
    BY <2>1 DEF vars, clientVars, NetSeen, Client!netVars
  <2> QED
    BY <2>1, ClientActs, ServerActs DEF Next
<1> QED
  BY BaseInit, BaseNext, <1>1, <1>2, PTL
     DEF Spec, ClientSpec, Client!NetSpec

(***************************************************************************)
(* Second part: what is under way to the client takes it, message by       *)
(* message, from the stage it is in to the one the thread has brought it   *)
(* to.  The numbers order the stages: no message leads back.               *)
(***************************************************************************)
Stages     == 0 .. 5
Connecting == 0
Introduced == 1
Joining    == 2
Queueing   == 3
InMatch    == 4
Idle       == 5

Stage ==
    CASE blocked = "connect_ack"                 -> Connecting
      [] blocked = "player_info"                 -> Introduced
      [] blocked \in {"join", "join_ack"}        -> Joining
      [] blocked = "no" /\ net = "IN_LOBBY"      -> Queueing
      [] blocked = "no" /\ net = "IN_GAME"       -> InMatch
      [] OTHER                                   -> Idle

\* Where the handshake ends, for a connection with purpose p.
Greeted(p) == IF p = "match" THEN Joining ELSE Idle

InMatchTypes == {"GAME_STATE", "PLAY", "ILLEGAL_PLAY", "PLAYER_DATA_UPDATE"}

\* Message m takes a client with purpose p from stage a to stage b.
Leads(p, a, m, b) ==
    \/ a = Connecting /\ m = Ack /\ b = Introduced
    \/ a = Introduced /\ m.type = "PLAYER_INFO" /\ b = Greeted(p)
    \/ a = Joining /\ m = Ack /\ b = Queueing
    \/ a = Queueing /\ m.type = "GAME_WAIT" /\ b = Queueing
    \/ a = Queueing /\ m.type = "GAME_START" /\ b = InMatch
    \/ a = InMatch /\ (m = Ack \/ m.type \in InMatchTypes) /\ b = InMatch
    \/ a = InMatch /\ m.type = "GAME_END" /\ b = Idle
    \/ a = Idle /\ m.type \in {"GENERAL_ACK", "PLAYER_INFO"} /\ b = Idle

\* The messages s lead from stage a to stage b: r is the stage before each.
Path(p, s, a, b) ==
    \E r \in [1 .. Len(s) + 1 -> Stages] :
        /\ r[1] = a /\ r[Len(s) + 1] = b
        /\ \A i \in 1 .. Len(s) : Leads(p, r[i], s[i], r[i + 1])
        /\ \A i, j \in 1 .. Len(s) + 1 : i <= j => r[i] <= r[j]

\* The stages to which the thread can have brought the client.
QueuePcs == {"acquire", "poll", "keep_alive", "begin"}
Reached(at, p) ==
    CASE at = "connect"                        -> {Connecting}
      [] at = "info_ack"                       -> {Greeted(p)}
      [] at = "join"                           -> {Connecting, Joining, Idle}
      [] at \in QueuePcs                       -> {Queueing}
      [] at \in MatchPcs \ {"end_ack"}         -> {InMatch}
      [] at \in {"shop_ack", "end_ack", "release_keep"} -> {Idle}
      [] OTHER                                 -> Stages

\* Before the client has asked for anything.
Early    == {"connect_ack", "player_info", "join"}
EarlyPcs == {"connect", "info_ack", "join", "closing"}

LeadsTo(b) ==
    /\ Path(purpose, toClient, Stage, b)
    /\ link = "open" =>
          /\ b \in Reached(pc, purpose)
          /\ blocked \in Early => b \in {Connecting, Greeted(purpose)}

ToClientInv ==
    link # "gone" /\ net # "ERROR" => \E b \in Stages : LeadsTo(b)

\* What is under way to the thread.
Holds(s, t) == \E i \in 1 .. Len(s) : s[i].type = t
Once(s, t) ==
    \A i, j \in 1 .. Len(s) : s[i].type = t /\ s[j].type = t => i = j

Talking == link = "open" /\ net # "ERROR"

\* The handshake.
GreetingInv ==
    Talking =>
    /\ blocked \in Early => pc \in EarlyPcs
    /\ pc = "connect" =>
          blocked = "connect_ack" /\ toServer = <<Plain("CONNECT")>>
    /\ blocked = "connect_ack" => toServer \in {<<>>, <<Plain("CONNECT")>>}
    /\ \/ blocked = "player_info"
       \/ blocked = "connect_ack" /\ toClient # <<>>
       => toServer = <<>>
    /\ pc = "info_ack" =>
          IF toServer = <<>> THEN blocked \in {"connect_ack", "player_info"}
                             ELSE Head(toServer) = Ack

\* The requests, and who sends them.
RequestInv ==
    Talking =>
    /\ Holds(toServer, "GAME_JOIN") => blocked = "join_ack" /\ toClient = <<>>
    /\ Once(toServer, "GAME_JOIN")
    /\ Holds(toServer, "SHOP_ACTION") => blocked = "no" /\ net = "CONNECTED"
    /\ Holds(toServer, "MOVE") =>
          blocked = "no" /\ net \in {"IN_GAME", "CONNECTED"}
    /\ blocked = "join_ack" /\ toClient = <<>> /\ pc \in {"info_ack", "join"}
          => Holds(toServer, "GAME_JOIN")

\* A client that has failed asks for nothing more.
ErrorInv ==
    link = "open" /\ net = "ERROR" =>
    /\ pc \in MatchPcs \cup {"join", "shop_ack", "release_keep",
                             "release_close", "closing"}
    /\ ~ Holds(toServer, "GAME_JOIN")

StreamInv == ToClientInv /\ GreetingInv /\ RequestInv /\ ErrorInv

LEMMA PathEmpty ==
    ASSUME NEW p, NEW a \in Stages, NEW b
    PROVE  Path(p, <<>>, a, b) <=> a = b
<1>1. ASSUME Path(p, <<>>, a, b) PROVE a = b
  BY <1>1 DEF Path
<1>2. ASSUME a = b PROVE Path(p, <<>>, a, b)
  <2> DEFINE r == [i \in 1 .. 1 |-> a]
  <2>1. /\ r \in [1 .. Len(<<>>) + 1 -> Stages]
        /\ r[1] = a /\ r[Len(<<>>) + 1] = b
        /\ \A i \in 1 .. Len(<<>>) : Leads(p, r[i], <<>>[i], r[i + 1])
        /\ \A i, j \in 1 .. Len(<<>>) + 1 : i <= j => r[i] <= r[j]
    BY <1>2 DEF Stages
  <2> QED
    BY <2>1 DEF Path
<1> QED
  BY <1>1, <1>2

LEMMA PathTail ==
    ASSUME NEW p, NEW s \in Seq(Messages), s # <<>>, NEW a, NEW b,
           Path(p, s, a, b)
    PROVE  \E c \in Stages : /\ Leads(p, a, Head(s), c)
                             /\ Path(p, Tail(s), c, b)
<1>1. PICK r \in [1 .. Len(s) + 1 -> Stages] :
          /\ r[1] = a /\ r[Len(s) + 1] = b
          /\ \A i \in 1 .. Len(s) : Leads(p, r[i], s[i], r[i + 1])
          /\ \A i, j \in 1 .. Len(s) + 1 : i <= j => r[i] <= r[j]
  BY DEF Path
<1>2. /\ Len(s) \in Nat \ {0} /\ Len(Tail(s)) = Len(s) - 1 /\ Head(s) = s[1]
      /\ \A i \in 1 .. Len(s) - 1 : Tail(s)[i] = s[i + 1]
  OBVIOUS
<1> DEFINE q == [i \in 1 .. Len(s) |-> r[i + 1]]
<1>3. q \in [1 .. Len(Tail(s)) + 1 -> Stages]
  BY <1>2
<1>4. q[1] = r[2] /\ q[Len(Tail(s)) + 1] = b
  BY <1>1, <1>2
<1>5. \A i \in 1 .. Len(Tail(s)) : Leads(p, q[i], Tail(s)[i], q[i + 1])
  BY <1>1, <1>2
<1>6. \A i, j \in 1 .. Len(Tail(s)) + 1 : i <= j => q[i] <= q[j]
  BY <1>1, <1>2
<1>7. Path(p, Tail(s), r[2], b)
  <2> HIDE DEF q
  <2> QED
    BY <1>3, <1>4, <1>5, <1>6 DEF Path
<1>8. r[2] \in Stages /\ Leads(p, a, Head(s), r[2])
  BY <1>1, <1>2
<1> QED
  BY <1>7, <1>8

LEMMA PathAppend ==
    ASSUME NEW p, NEW s \in Seq(Messages), NEW m \in Messages,
           NEW a, NEW b, NEW c \in Stages,
           Path(p, s, a, b), Leads(p, b, m, c)
    PROVE  Path(p, Append(s, m), a, c)
<1> DEFINE t == Append(s, m)
<1>1. PICK r \in [1 .. Len(s) + 1 -> Stages] :
          /\ r[1] = a /\ r[Len(s) + 1] = b
          /\ \A i \in 1 .. Len(s) : Leads(p, r[i], s[i], r[i + 1])
          /\ \A i, j \in 1 .. Len(s) + 1 : i <= j => r[i] <= r[j]
  BY DEF Path
<1>2. /\ Len(s) \in Nat /\ Len(t) = Len(s) + 1 /\ t[Len(s) + 1] = m
      /\ \A i \in 1 .. Len(s) : t[i] = s[i]
  OBVIOUS
<1> HIDE DEF t
<1> DEFINE q == [i \in 1 .. Len(s) + 2 |-> IF i = Len(s) + 2 THEN c ELSE r[i]]
<1>3. q \in [1 .. Len(t) + 1 -> Stages]
  BY <1>2
<1>4. q[1] = a /\ q[Len(t) + 1] = c
  BY <1>1, <1>2
<1>5. \A i \in 1 .. Len(t) : Leads(p, q[i], t[i], q[i + 1])
  BY <1>1, <1>2
<1>6. b <= c
  BY DEF Leads, Stages, Connecting, Introduced, Joining, Queueing, InMatch,
         Idle, Greeted
<1>7. \A i, j \in 1 .. Len(t) + 1 : i <= j => q[i] <= q[j]
  <2>1. \A i \in 1 .. Len(s) + 1 : r[i] <= c
    <3>1. \A i \in 1 .. Len(s) + 1 : r[i] <= b /\ r[i] \in Int
      BY <1>1, <1>2 DEF Stages
    <3>2. b \in Int /\ c \in Int
      BY <1>1, <1>2 DEF Stages
    <3> QED
      BY <3>1, <3>2, <1>6
  <2>2. c <= c
    BY DEF Stages
  <2> QED
    BY <1>1, <1>2, <2>1, <2>2
<1>8. Path(p, t, a, c)
  <2> HIDE DEF q
  <2> QED
    BY <1>3, <1>4, <1>5, <1>7 DEF Path
<1> QED
  BY <1>8 DEF t

\* What the stages at the two ends say.
LEMMA PathEnds ==
    ASSUME NEW p, NEW s \in Seq(Messages), NEW a, NEW b, Path(p, s, a, b)
    PROVE  /\ a \in Stages /\ b \in Stages /\ a <= b
           /\ a = b /\ a \in {Connecting, Introduced, Joining} => s = <<>>
<1>1. PICK r \in [1 .. Len(s) + 1 -> Stages] :
          /\ r[1] = a /\ r[Len(s) + 1] = b
          /\ \A i \in 1 .. Len(s) : Leads(p, r[i], s[i], r[i + 1])
          /\ \A i, j \in 1 .. Len(s) + 1 : i <= j => r[i] <= r[j]
  BY DEF Path
<1>2. a \in Stages /\ b \in Stages /\ a <= b
  BY <1>1
<1>3. ASSUME s # <<>>
      PROVE  ~ (a = b /\ a \in {Connecting, Introduced, Joining})
  <2>1. Len(s) \in Nat \ {0}
    BY <1>3
  <2>2. Leads(p, a, s[1], r[2]) /\ r[2] <= b /\ r[2] \in Stages
    BY <1>1, <2>1
  <2> QED
    BY <1>2, <2>2
       DEF Leads, Stages, Connecting, Introduced, Joining, Queueing, InMatch,
           Idle, Greeted
<1> QED
  BY <1>2, <1>3

LEMMA HoldsEmpty == \A t : ~ Holds(<<>>, t) /\ Once(<<>>, t)
  BY DEF Holds, Once

LEMMA HoldsTail ==
    ASSUME NEW s \in Seq(Messages), s # <<>>, NEW t
    PROVE  /\ Holds(s, t) <=> Head(s).type = t \/ Holds(Tail(s), t)
           /\ Once(s, t) => Once(Tail(s), t)
           /\ Once(s, t) /\ Head(s).type = t => ~ Holds(Tail(s), t)
<1>1. /\ Len(s) \in Nat \ {0} /\ Len(Tail(s)) = Len(s) - 1 /\ Head(s) = s[1]
      /\ \A i \in 1 .. Len(s) - 1 : Tail(s)[i] = s[i + 1]
  OBVIOUS
<1>2. ASSUME Holds(s, t), Head(s).type # t PROVE Holds(Tail(s), t)
  <2>1. PICK i \in 1 .. Len(s) : s[i].type = t
    BY <1>2 DEF Holds
  <2>2. i - 1 \in 1 .. Len(Tail(s)) /\ Tail(s)[i - 1] = s[i]
    BY <1>1, <1>2, <2>1
  <2> QED
    BY <2>1, <2>2 DEF Holds
<1>3. ASSUME Holds(Tail(s), t)
      PROVE  \E i \in 1 .. Len(s) : i # 1 /\ s[i].type = t
  BY <1>1, <1>3 DEF Holds
<1>4. Head(s).type = t => Holds(s, t)
  BY <1>1 DEF Holds
<1>5. Once(s, t) => Once(Tail(s), t)
  BY <1>1 DEF Once
<1>6. Once(s, t) /\ Head(s).type = t => ~ Holds(Tail(s), t)
  BY <1>1, <1>3 DEF Once
<1>7. Holds(Tail(s), t) => Holds(s, t)
  BY <1>3 DEF Holds
<1> QED
  BY <1>2, <1>4, <1>5, <1>6, <1>7

LEMMA HoldsAppend ==
    ASSUME NEW s \in Seq(Messages), NEW m \in Messages, NEW t
    PROVE  /\ Holds(Append(s, m), t) <=> Holds(s, t) \/ m.type = t
           /\ Once(s, t) /\ ~ (Holds(s, t) /\ m.type = t) =>
                 Once(Append(s, m), t)
<1> DEFINE u == Append(s, m)
<1>1. /\ Len(s) \in Nat /\ Len(u) = Len(s) + 1 /\ u[Len(s) + 1] = m
      /\ \A i \in 1 .. Len(s) : u[i] = s[i]
  OBVIOUS
<1> HIDE DEF u
<1>2. Holds(u, t) => Holds(s, t) \/ m.type = t
  BY <1>1 DEF Holds
<1>3. Holds(s, t) => Holds(u, t)
  BY <1>1 DEF Holds
<1>4. m.type = t => Holds(u, t)
  BY <1>1 DEF Holds
<1>5. Once(s, t) /\ ~ (Holds(s, t) /\ m.type = t) => Once(u, t)
  BY <1>1 DEF Once, Holds
<1> QED
  BY <1>2, <1>3, <1>4, <1>5 DEF u

LEMMA ReadableTypes ==
    ASSUME NEW m
    PROVE  /\ m.type \in {"GENERAL_ACK", "PLAYER_INFO", "PLAYER_DATA_UPDATE",
                          "GAME_WAIT", "GAME_START", "GAME_STATE", "PLAY",
                          "GAME_END"} => Readable(m)
           /\ m.type = "ILLEGAL_PLAY" => ~ Readable(m)
<1> USE DEF Readable, Decodes, DecodedSize, SentSize
<1>1. m.type = "GAME_STATE" => Readable(m)
  OBVIOUS
<1>2. m.type = "ILLEGAL_PLAY" => ~ Readable(m)
  OBVIOUS
<1>3. m.type \in {"GENERAL_ACK", "PLAYER_INFO", "PLAYER_DATA_UPDATE",
                  "GAME_WAIT", "GAME_START", "PLAY", "GAME_END"} => Readable(m)
  OBVIOUS
<1> QED
  BY <1>1, <1>2, <1>3

LEMMA ReachedAt ==
    ASSUME NEW at, NEW p
    PROVE  /\ at = "connect" => Reached(at, p) = {Connecting}
           /\ at = "info_ack" => Reached(at, p) = {Greeted(p)}
           /\ at = "join" => Reached(at, p) = {Connecting, Joining, Idle}
           /\ at \in QueuePcs => Reached(at, p) = {Queueing}
           /\ at \in MatchPcs \ {"end_ack"} => Reached(at, p) = {InMatch}
           /\ at \in {"shop_ack", "end_ack", "release_keep"} =>
                 Reached(at, p) = {Idle}
           /\ at \in {"release_close", "closing", "closed"} =>
                 Reached(at, p) = Stages
<1> USE DEF QueuePcs, MatchPcs, AckPcs, EndPcs
<1>1. at \in QueuePcs => Reached(at, p) = {Queueing}
  BY DEF Reached
<1>2. at \in MatchPcs \ {"end_ack"} => Reached(at, p) = {InMatch}
  BY DEF Reached
<1>3. at \in {"release_close", "closing", "closed"} => Reached(at, p) = Stages
  BY DEF Reached
<1> QED
  BY <1>1, <1>2, <1>3 DEF Reached

LEMMA StreamFacts ==
    ASSUME BaseInv, StreamInv, Talking
    PROVE  /\ \E b \in Stages : LeadsTo(b)
           /\ pc = "connect" => toClient = <<>>
           /\ blocked = "join" => toClient = <<>>
           /\ toClient = <<>> => Stage \in Reached(pc, purpose)
           /\ Stage = InMatch => pc \in MatchPcs \cup
                {"join", "shop_ack", "release_keep", "release_close", "closing"}
<1>1. PICK b \in Stages : LeadsTo(b)
  BY DEF StreamInv, ToClientInv, Talking
<1>2. /\ Path(purpose, toClient, Stage, b)
      /\ b \in Reached(pc, purpose)
      /\ blocked \in Early => b \in {Connecting, Greeted(purpose)}
  BY <1>1 DEF LeadsTo, Talking
<1>3. toClient \in Seq(Messages) /\ blocked \in BlockedIn
  BY DEF BaseInv, TypeOK
<1>4. Stage \in Stages /\ Stage <= b
  BY <1>2, <1>3, PathEnds
<1>5. Stage = b /\ b \in {Connecting, Introduced, Joining} => toClient = <<>>
  BY <1>2, <1>3, PathEnds
<1> USE DEF Stages, Connecting, Introduced, Joining, Queueing, InMatch, Idle
<1>6. pc = "connect" => toClient = <<>>
  <2>1. pc = "connect" => b = Connecting
    BY <1>2, ReachedAt
  <2> QED
    BY <1>4, <1>5, <2>1
<1>7. blocked = "join" => toClient = <<>>
  <2>1. blocked = "join" => Stage = Joining /\ purpose = "match"
    BY DEF Stage, BaseInv, ClientInv
  <2> QED
    BY <1>2, <1>4, <1>5, <2>1 DEF Early, Greeted
<1>8. toClient = <<>> => Stage \in Reached(pc, purpose)
  BY <1>2, <1>4, PathEmpty
<1>9. Stage = InMatch => pc \in MatchPcs \cup
          {"join", "shop_ack", "release_keep", "release_close", "closing"}
  <2> SUFFICES ASSUME Stage = InMatch
               PROVE  pc \in MatchPcs \cup {"join", "shop_ack", "release_keep",
                                            "release_close", "closing"}
    OBVIOUS
  <2>1. purpose = "match"
    BY DEF Stage, BaseInv, ClientInv
  <2>2. pc # "connect" /\ pc # "info_ack" /\ pc \notin QueuePcs
    BY <1>2, <1>4, <2>1, ReachedAt DEF Greeted
  <2>3. pc # "closed"
    BY DEF BaseInv, LinkInv, Talking
  <2> QED
    BY <2>2, <2>3
       DEF BaseInv, TypeOK, Pcs, RecvPcs, ShopPcs, MatchPcs, QueuePcs
<1> QED
  BY <1>1, <1>6, <1>7, <1>8, <1>9

\* The client takes the next message, and goes where it leads.
LEMMA ClientTakes ==
    ASSUME BaseInv, StreamInv, net # "ERROR", toClient # <<>>,
           UNCHANGED <<purpose, pc>>, toClient' = Tail(toClient),
           link' = "open" => link = "open",
           blocked' \in Early => blocked \in Early,
           \A c \in Stages :
              Leads(purpose, Stage, Head(toClient), c) => Stage' = c
    PROVE  ToClientInv'
<1>1. PICK b \in Stages : LeadsTo(b)
  BY DEF BaseInv, LinkInv, StreamInv, ToClientInv
<1>2. toClient \in Seq(Messages)
  BY DEF BaseInv, TypeOK
<1>3. PICK c \in Stages : /\ Leads(purpose, Stage, Head(toClient), c)
                          /\ Path(purpose, Tail(toClient), c, b)
  BY <1>1, <1>2, PathTail DEF LeadsTo
<1>4. Reached(pc', purpose') = Reached(pc, purpose)
  BY DEF Reached
<1>5. LeadsTo(b)'
  BY <1>1, <1>3, <1>4 DEF LeadsTo
<1> QED
  BY <1>5 DEF ToClientInv

\* The client takes nothing, and stays where it is.
LEMMA ClientStays ==
    ASSUME StreamInv, net # "ERROR",
           UNCHANGED <<purpose, pc, toClient, Stage>>,
           link' # "gone" => link # "gone",
           link' = "open" => link = "open",
           blocked' \in Early => blocked \in Early
    PROVE  ToClientInv'
<1>1. CASE link' = "gone"
  BY <1>1 DEF ToClientInv
<1>2. CASE link' # "gone"
  <2>1. PICK b \in Stages : LeadsTo(b)
    BY <1>2 DEF StreamInv, ToClientInv
  <2>2. Reached(pc', purpose') = Reached(pc, purpose)
    BY DEF Reached
  <2>3. LeadsTo(b)'
    BY <2>1, <2>2 DEF LeadsTo
  <2> QED
    BY <2>3 DEF ToClientInv
<1> QED
  BY <1>1, <1>2

\* The thread sends nothing, one message or two.
LEMMA ThreadSends ==
    ASSUME BaseInv, NEW b \in Stages, LeadsTo(b), KeepClient,
           NEW c \in Stages, c \in Reached(pc', purpose') \/ link # "open",
           blocked \in Early /\ link = "open" =>
              c \in {Connecting, Greeted(purpose)},
           \/ c = b /\ toClient' = toClient
           \/ c = b /\ toClient' = toClient \o <<>>
           \/ \E m \in Messages : /\ toClient' = toClient \o <<m>>
                                  /\ Leads(purpose, b, m, c)
           \/ \E m, n \in Messages, d \in Stages :
                 /\ toClient' = toClient \o <<m, n>>
                 /\ Leads(purpose, b, m, d) /\ Leads(purpose, d, n, c)
    PROVE  ToClientInv'
<1>0. toClient \in Seq(Messages) /\ Path(purpose, toClient, Stage, b)
  BY DEF BaseInv, TypeOK, LeadsTo
<1>1. UNCHANGED <<Stage, purpose, blocked, link, net>>
  BY DEF Stage, KeepClient, clientVars
<1>2. Path(purpose, toClient', Stage, c)
  <2>1. CASE \/ c = b /\ toClient' = toClient
             \/ c = b /\ toClient' = toClient \o <<>>
    <3>1. toClient \o <<>> = toClient
      BY <1>0
    <3> QED
      BY <1>0, <2>1, <3>1
  <2>2. ASSUME NEW m \in Messages, toClient' = toClient \o <<m>>,
               Leads(purpose, b, m, c)
        PROVE  Path(purpose, toClient', Stage, c)
    <3>1. toClient' = Append(toClient, m)
      BY <1>0, <2>2
    <3> QED
      BY <1>0, <2>2, <3>1, PathAppend
  <2>3. ASSUME NEW m \in Messages, NEW n \in Messages, NEW d \in Stages,
               toClient' = toClient \o <<m, n>>,
               Leads(purpose, b, m, d), Leads(purpose, d, n, c)
        PROVE  Path(purpose, toClient', Stage, c)
    <3>1. /\ Append(toClient, m) \in Seq(Messages)
          /\ toClient' = Append(Append(toClient, m), n)
      BY <1>0, <2>3
    <3>2. Path(purpose, Append(toClient, m), Stage, d)
      BY <1>0, <2>3, PathAppend
    <3> QED
      BY <2>3, <3>1, <3>2, PathAppend
  <2>4. ASSUME \E m, n \in Messages, d \in Stages :
                  /\ toClient' = toClient \o <<m, n>>
                  /\ Leads(purpose, b, m, d) /\ Leads(purpose, d, n, c)
        PROVE  Path(purpose, toClient', Stage, c)
    BY <2>4, <2>3
  <2>5. ASSUME \E m \in Messages : /\ toClient' = toClient \o <<m>>
                                    /\ Leads(purpose, b, m, c)
        PROVE  Path(purpose, toClient', Stage, c)
    BY <2>5, <2>2
  <2> QED
    BY <2>1, <2>4, <2>5
<1>3. LeadsTo(c)'
  BY <1>1, <1>2 DEF LeadsTo
<1> QED
  BY <1>3 DEF ToClientInv

\* What an answer of the client leaves of the stream to the thread.
LEMMA Answers ==
    ASSUME BaseInv, link' = "open",
           Send(Ack) \/ UNCHANGED <<link, toServer>>
    PROVE  /\ link = "open"
           /\ \A t : t # "GENERAL_ACK" =>
                 /\ Holds(toServer', t) <=> Holds(toServer, t)
                 /\ Once(toServer, t) => Once(toServer', t)
           /\ toServer # <<>> =>
                 toServer' # <<>> /\ Head(toServer') = Head(toServer)
<1>1. toServer \in Seq(Messages) /\ TypeOK
  BY DEF BaseInv, TypeOK
<1>2. CASE UNCHANGED <<link, toServer>>
  BY <1>2
<1>3. CASE Send(Ack)
  <2>1. link = "open" /\ toServer' = Append(toServer, Ack)
    BY <1>1, <1>3, Sent, Sends
  <2>2. Ack \in Messages /\ Ack.type = "GENERAL_ACK"
    BY Sent DEF Ack
  <2>3. \A t : t # "GENERAL_ACK" =>
                 /\ Holds(toServer', t) <=> Holds(toServer, t)
                 /\ Once(toServer, t) => Once(toServer', t)
    BY <1>1, <2>1, <2>2, HoldsAppend
  <2>4. toServer # <<>> =>
                 toServer' # <<>> /\ Head(toServer') = Head(toServer)
    BY <1>1, <2>1, <2>2
  <2> QED
    BY <2>1, <2>3, <2>4
<1> QED
  BY <1>2, <1>3

\* The messages that the client takes between two frames.
LEMMA ArrivesStream ==
    ASSUME BaseInv, StreamInv, NEW nets, NEW types, Arrives(nets, types),
           net \in {"IN_LOBBY", "CONNECTED", "IN_GAME"}, net' # "ERROR",
           net \in {"CONNECTED", "IN_GAME"} /\ net' # net =>
              net = "IN_GAME" /\ net' = "CONNECTED",
           Send(Ack) \/ UNCHANGED <<link, toServer>>,
           \A c \in Stages :
              Leads(purpose, Stage, Head(toClient), c) => Stage' = c
    PROVE  StreamInv'
<1>1. /\ blocked = "no" /\ toClient # <<>> /\ toClient' = Tail(toClient)
      /\ UNCHANGED <<blocked, purpose, pc>>
  BY DEF Arrives, KeepServer, threadVars
<1>2. link' = "open" => link = "open"
  BY Answers
<1>3. ToClientInv'
  BY <1>1, <1>2, ClientTakes DEF Early
<1>4. ASSUME link' = "open" PROVE Talking /\ Talking'
  BY <1>2, <1>4 DEF Talking
<1>5. GreetingInv'
  <2> SUFFICES ASSUME link' = "open" PROVE GreetingInv'
    BY DEF GreetingInv, Talking
  <2> QED
    BY <1>1, <1>4, Answers DEF GreetingInv, StreamInv, Early
<1>6. RequestInv'
  <2> SUFFICES ASSUME link' = "open" PROVE RequestInv'
    BY DEF RequestInv, Talking
  <2>1. \A t \in {"GAME_JOIN", "SHOP_ACTION", "MOVE"} :
           /\ Holds(toServer', t) <=> Holds(toServer, t)
           /\ Once(toServer, t) => Once(toServer', t)
    BY Answers
  <2> QED
    BY <1>1, <1>4, <2>1 DEF RequestInv, StreamInv
<1>7. ErrorInv'
  BY DEF ErrorInv
<1> QED
  BY <1>3, <1>5, <1>6, <1>7 DEF StreamInv

LEMMA TakeGameWaitStream ==
    ASSUME BaseInv, StreamInv, TakeGameWait PROVE StreamInv'
<1> USE DEF TakeGameWait, Arrives
<1>1. \A c \in Stages :
         Leads(purpose, Stage, Head(toClient), c) => Stage' = c
  BY DEF Leads, Stage, Connecting, Introduced, Joining, Queueing, InMatch,
         Idle, Ack, InMatchTypes
<1> HIDE DEF Arrives
<1>2. /\ net \in {"IN_LOBBY", "CONNECTED", "IN_GAME"} /\ net' # "ERROR"
      /\ net \in {"CONNECTED", "IN_GAME"} /\ net' # net =>
            net = "IN_GAME" /\ net' = "CONNECTED"
  BY DEF Arrives
<1>3. Send(Ack) \/ UNCHANGED <<link, toServer>>
  OBVIOUS
<1>4. \E nets, types : Arrives(nets, types)
  OBVIOUS
<1> QED
  BY <1>1, <1>2, <1>3, <1>4, ArrivesStream

LEMMA TakeGameStartStream ==
    ASSUME BaseInv, StreamInv, TakeGameStart PROVE StreamInv'
<1> USE DEF TakeGameStart, Arrives
<1>1. \A c \in Stages :
         Leads(purpose, Stage, Head(toClient), c) => Stage' = c
  BY DEF Leads, Stage, Connecting, Introduced, Joining, Queueing, InMatch,
         Idle, Ack, InMatchTypes
<1> HIDE DEF Arrives
<1>2. /\ net \in {"IN_LOBBY", "CONNECTED", "IN_GAME"} /\ net' # "ERROR"
      /\ net \in {"CONNECTED", "IN_GAME"} /\ net' # net =>
            net = "IN_GAME" /\ net' = "CONNECTED"
  BY DEF Arrives
<1>3. Send(Ack) \/ UNCHANGED <<link, toServer>>
  OBVIOUS
<1>4. \E nets, types : Arrives(nets, types)
  OBVIOUS
<1> QED
  BY <1>1, <1>2, <1>3, <1>4, ArrivesStream

LEMMA TakeAckStream ==
    ASSUME BaseInv, StreamInv, TakeAck PROVE StreamInv'
<1> USE DEF TakeAck, Arrives, Afterwards
<1>1. \A c \in Stages :
         Leads(purpose, Stage, Head(toClient), c) => Stage' = c
  BY DEF Leads, Stage, Connecting, Introduced, Joining, Queueing, InMatch,
         Idle, Ack, InMatchTypes
<1> HIDE DEF Arrives
<1>2. /\ net \in {"IN_LOBBY", "CONNECTED", "IN_GAME"} /\ net' # "ERROR"
      /\ net \in {"CONNECTED", "IN_GAME"} /\ net' # net =>
            net = "IN_GAME" /\ net' = "CONNECTED"
  BY DEF Arrives
<1>3. Send(Ack) \/ UNCHANGED <<link, toServer>>
  OBVIOUS
<1>4. \E nets, types : Arrives(nets, types)
  OBVIOUS
<1> QED
  BY <1>1, <1>2, <1>3, <1>4, ArrivesStream

LEMMA TakeGameStateStream ==
    ASSUME BaseInv, StreamInv, TakeGameState PROVE StreamInv'
<1> USE DEF TakeGameState, Arrives, Afterwards
<1>1. \A c \in Stages :
         Leads(purpose, Stage, Head(toClient), c) => Stage' = c
  BY DEF Leads, Stage, Connecting, Introduced, Joining, Queueing, InMatch,
         Idle, Ack, InMatchTypes
<1> HIDE DEF Arrives
<1>2. /\ net \in {"IN_LOBBY", "CONNECTED", "IN_GAME"} /\ net' # "ERROR"
      /\ net \in {"CONNECTED", "IN_GAME"} /\ net' # net =>
            net = "IN_GAME" /\ net' = "CONNECTED"
  BY DEF Arrives
<1>3. Send(Ack) \/ UNCHANGED <<link, toServer>>
  OBVIOUS
<1>4. \E nets, types : Arrives(nets, types)
  OBVIOUS
<1> QED
  BY <1>1, <1>2, <1>3, <1>4, ArrivesStream

LEMMA TakePlayStream ==
    ASSUME BaseInv, StreamInv, TakePlay PROVE StreamInv'
<1> USE DEF TakePlay, Arrives, Afterwards
<1>1. \A c \in Stages :
         Leads(purpose, Stage, Head(toClient), c) => Stage' = c
  BY DEF Leads, Stage, Connecting, Introduced, Joining, Queueing, InMatch,
         Idle, Ack, InMatchTypes
<1> HIDE DEF Arrives
<1>2. /\ net \in {"IN_LOBBY", "CONNECTED", "IN_GAME"} /\ net' # "ERROR"
      /\ net \in {"CONNECTED", "IN_GAME"} /\ net' # net =>
            net = "IN_GAME" /\ net' = "CONNECTED"
  BY DEF Arrives
<1>3. Send(Ack) \/ UNCHANGED <<link, toServer>>
  OBVIOUS
<1>4. \E nets, types : Arrives(nets, types)
  OBVIOUS
<1> QED
  BY <1>1, <1>2, <1>3, <1>4, ArrivesStream

LEMMA TakeGameEndStream ==
    ASSUME BaseInv, StreamInv, TakeGameEnd PROVE StreamInv'
<1> USE DEF TakeGameEnd, Arrives
<1>1. \A c \in Stages :
         Leads(purpose, Stage, Head(toClient), c) => Stage' = c
  BY DEF Leads, Stage, Connecting, Introduced, Joining, Queueing, InMatch,
         Idle, Ack, InMatchTypes
<1> HIDE DEF Arrives
<1>2. /\ net \in {"IN_LOBBY", "CONNECTED", "IN_GAME"} /\ net' # "ERROR"
      /\ net \in {"CONNECTED", "IN_GAME"} /\ net' # net =>
            net = "IN_GAME" /\ net' = "CONNECTED"
  BY DEF Arrives
<1>3. Send(Ack) \/ UNCHANGED <<link, toServer>>
  OBVIOUS
<1>4. \E nets, types : Arrives(nets, types)
  OBVIOUS
<1> QED
  BY <1>1, <1>2, <1>3, <1>4, ArrivesStream

LEMMA TakeProfileStream ==
    ASSUME BaseInv, StreamInv, TakeProfile PROVE StreamInv'
<1> USE DEF TakeProfile, Arrives, Afterwards
<1>1. \A c \in Stages :
         Leads(purpose, Stage, Head(toClient), c) => Stage' = c
  BY DEF Leads, Stage, Connecting, Introduced, Joining, Queueing, InMatch,
         Idle, Ack, InMatchTypes
<1> HIDE DEF Arrives
<1>2. /\ net \in {"IN_LOBBY", "CONNECTED", "IN_GAME"} /\ net' # "ERROR"
      /\ net \in {"CONNECTED", "IN_GAME"} /\ net' # net =>
            net = "IN_GAME" /\ net' = "CONNECTED"
  BY DEF Arrives
<1>3. Send(Ack) \/ UNCHANGED <<link, toServer>>
  OBVIOUS
<1>4. \E nets, types : Arrives(nets, types)
  OBVIOUS
<1> QED
  BY <1>1, <1>2, <1>3, <1>4, ArrivesStream

LEMMA GoneStream ==
    ASSUME link' = "gone" PROVE StreamInv'
  BY DEF StreamInv, ToClientInv, GreetingInv, RequestInv, ErrorInv, Talking

LEMMA LeavingStream ==
    ASSUME \/ Leave \/ ConnectRefused
           \/ \E p \in {"match", "info"} : ConnectFails(p)
    PROVE  StreamInv'
<1>1. link' = "gone"
  BY DEF Leave, ConnectRefused, ConnectFails, Request, CloseSocket, linkVars
<1> QED
  BY <1>1, GoneStream

LEMMA ConnectStream ==
    ASSUME BaseInv, NEW p \in {"match", "info"}, Connect(p)
    PROVE  StreamInv'
<1>1. /\ net' = "CONNECTING" /\ blocked' = "connect_ack" /\ pc' = "connect"
      /\ toServer' = <<Plain("CONNECT")>> /\ toClient' = <<>> /\ link' = "open"
  BY DEF Connect
<1>2. Stage' = Connecting /\ Reached(pc', purpose') = {Connecting}
  BY <1>1 DEF Stage, Reached, QueuePcs, MatchPcs, AckPcs, EndPcs
<1>3. ToClientInv'
  <2>1. LeadsTo(Connecting)'
    BY <1>1, <1>2, PathEmpty DEF LeadsTo, Stages, Connecting
  <2> QED
    BY <2>1 DEF ToClientInv, Stages, Connecting
<1>4. GreetingInv'
  BY <1>1 DEF GreetingInv, EarlyPcs
<1>5. RequestInv'
  BY <1>1 DEF RequestInv, Holds, Once, Plain
<1>6. ErrorInv'
  BY <1>1 DEF ErrorInv
<1> QED
  BY <1>3, <1>4, <1>5, <1>6 DEF StreamInv

LEMMA TakeConnectAckStream ==
    ASSUME BaseInv, StreamInv, TakeConnectAck PROVE StreamInv'
<1> USE DEF TakeConnectAck, Granted, KeepServer, threadVars
<1>1. net # "ERROR"
  BY DEF BaseInv, ClientInv
<1>2. ToClientInv'
  <2>1. \A c \in Stages :
           Leads(purpose, Stage, Head(toClient), c) => Stage' = c
    BY DEF Leads, Stage, Connecting, Introduced, Joining, Queueing, InMatch,
           Idle
  <2> QED
    BY <1>1, <2>1, ClientTakes DEF Early
<1>3. Talking' => Talking /\ toServer = <<>> /\ pc # "connect"
  BY <1>1, StreamFacts DEF Talking, StreamInv, GreetingInv
<1>4. GreetingInv'
  BY <1>3 DEF GreetingInv, StreamInv, Early
<1>5. RequestInv'
  BY <1>3, HoldsEmpty DEF RequestInv
<1>6. ErrorInv'
  BY <1>1 DEF ErrorInv
<1> QED
  BY <1>2, <1>4, <1>5, <1>6 DEF StreamInv

LEMMA TakePlayerInfoStream ==
    ASSUME BaseInv, StreamInv, TakePlayerInfo PROVE StreamInv'
<1> USE DEF TakePlayerInfo, Granted, KeepServer, threadVars
<1>1. net # "ERROR" /\ net' # "ERROR"
  BY DEF BaseInv, ClientInv
<1>2. link' = "open" => link = "open" /\ toServer' = Append(toServer, Ack)
  BY Sent, Sends DEF BaseInv
<1>3. ToClientInv'
  <2>1. purpose \in {"match", "info"}
    BY DEF BaseInv, TypeOK
  <2>2. \A c \in Stages :
           Leads(purpose, Stage, Head(toClient), c) => Stage' = c
    BY <2>1 DEF Leads, Stage, Connecting, Introduced, Joining, Queueing,
           InMatch, Idle, Greeted
  <2> QED
    BY <1>1, <1>2, <2>2, ClientTakes DEF Early
<1>4. Talking' => Talking /\ toServer = <<>> /\ toServer' = <<Ack>>
  BY <1>1, <1>2 DEF Talking, StreamInv, GreetingInv
<1>5. GreetingInv'
  BY <1>4 DEF GreetingInv, StreamInv, Early
<1>6. RequestInv'
  <2>1. Ack \in Messages /\ Ack.type = "GENERAL_ACK"
    BY Sent DEF Ack
  <2>2. <<>> \in Seq(Messages) /\ <<Ack>> = Append(<<>>, Ack)
    BY <2>1
  <2>3. \A t \in {"GAME_JOIN", "SHOP_ACTION", "MOVE"} :
           ~ Holds(<<Ack>>, t) /\ Once(<<Ack>>, t)
    BY <2>1, <2>2, HoldsEmpty, HoldsAppend, ZenonT(60)
  <2> QED
    BY <1>4, <2>3 DEF RequestInv
<1>7. ErrorInv'
  BY <1>1 DEF ErrorInv
<1> QED
  BY <1>3, <1>5, <1>6, <1>7 DEF StreamInv

LEMMA JoinGameStream ==
    ASSUME BaseInv, StreamInv, JoinGame PROVE StreamInv'
<1> USE DEF JoinGame, KeepServer, threadVars
<1>1. net = "CONNECTED"
  BY DEF BaseInv, ClientInv
<1> DEFINE m == Plain("GAME_JOIN")
<1>2. m \in Messages /\ m.type = "GAME_JOIN"
  BY Sent DEF Plain
<1>3. /\ link' = "open" => link = "open" /\ toServer' = Append(toServer, m)
      /\ link' # "gone" /\ (SendFails => link' # "open")
  BY <1>2, Sends DEF BaseInv, SendFails
<1>4. link = "gone" => FALSE
  BY DEF BaseInv, LinkInv
<1>5. CASE SendFails
  <2>1. net' = "ERROR" /\ link' # "open"
    BY <1>3, <1>5
  <2> QED
    BY <2>1
       DEF StreamInv, ToClientInv, GreetingInv, RequestInv, ErrorInv, Talking
<1>6. CASE ~ SendFails
  <2>1. net' = "CONNECTED" /\ blocked' = "join_ack"
    BY <1>1, <1>6
  <2>2. ToClientInv'
    <3>1. Stage' = Stage
      BY <2>1 DEF Stage
    <3> QED
      BY <1>1, <1>3, <1>4, <2>1, <3>1, ClientStays DEF Early
  <2>3. Talking' => /\ Talking /\ toServer' = Append(toServer, m)
                    /\ toClient = <<>> /\ ~ Holds(toServer, "GAME_JOIN")
    BY <1>1, <1>3, StreamFacts DEF Talking, StreamInv, RequestInv
  <2>4. toServer \in Seq(Messages)
    BY DEF BaseInv, TypeOK
  <2>5. GreetingInv'
    <3>1. Talking' /\ pc = "info_ack" => Head(toServer) = Ack /\ toServer # <<>>
      BY <2>3 DEF GreetingInv, StreamInv
    <3>2. Talking' => pc # "connect"
      BY <2>3 DEF GreetingInv, StreamInv
    <3> QED
      BY <1>2, <2>1, <2>3, <2>4, <3>1, <3>2 DEF GreetingInv, Early
  <2>6. RequestInv'
    BY <1>2, <2>1, <2>3, <2>4, HoldsAppend, ZenonT(60)
       DEF RequestInv, StreamInv
  <2>7. ErrorInv'
    BY <2>1 DEF ErrorInv
  <2> QED
    BY <2>2, <2>5, <2>6, <2>7 DEF StreamInv
<1> QED
  BY <1>5, <1>6

LEMMA TakeJoinAckStream ==
    ASSUME BaseInv, StreamInv, TakeJoinAck PROVE StreamInv'
<1> USE DEF TakeJoinAck, KeepServer, threadVars
<1>1. net = "CONNECTED" /\ UNCHANGED <<link, toServer, pc, purpose>>
  BY DEF BaseInv, ClientInv
<1>2. link = "open" => toClient # <<>> /\ toClient' = Tail(toClient)
  BY DEF Granted, Refused, RecvFails
<1>3. CASE Granted
  <2>1. net' = "IN_LOBBY" /\ blocked' = "no" /\ toClient # <<>>
    BY <1>3 DEF Granted
  <2>2. ToClientInv'
    <3>1. \A c \in Stages :
             Leads(purpose, Stage, Head(toClient), c) => Stage' = c
      BY <2>1 DEF Leads, Stage, Connecting, Introduced, Joining, Queueing,
             InMatch, Idle
    <3> QED
      BY <1>1, <2>1, <3>1, ClientTakes DEF Early
  <2>3. Talking' => Talking
    BY <1>1 DEF Talking
  <2>4. GreetingInv'
    BY <1>1, <2>1, <2>3 DEF GreetingInv, StreamInv, Early
  <2>5. RequestInv'
    BY <1>1, <2>1, <2>3 DEF RequestInv, StreamInv
  <2>6. ErrorInv'
    BY <2>1 DEF ErrorInv
  <2> QED
    BY <2>2, <2>4, <2>5, <2>6 DEF StreamInv
<1>4. CASE ~ Granted
  <2>1. link # "open"
    <3> SUFFICES ASSUME link = "open" PROVE FALSE
      OBVIOUS
    <3>1. PICK b \in Stages : LeadsTo(b)
      BY <1>1 DEF StreamInv, ToClientInv
    <3>2. \E c \in Stages : Leads(purpose, Stage, Head(toClient), c)
      BY <1>2, <3>1, PathTail DEF LeadsTo, BaseInv, TypeOK
    <3>3. Head(toClient) = Ack
      BY <3>2 DEF Leads, Stage, Connecting, Introduced, Joining, Queueing,
             InMatch, Idle
    <3> QED
      BY <1>2, <1>4, <3>3, ReadableTypes DEF Granted, Expected, IsOk, Ack
  <2>2. net' = "ERROR" /\ link' # "open"
    BY <1>1, <1>4, <2>1
  <2> QED
    BY <2>2
       DEF StreamInv, ToClientInv, GreetingInv, RequestInv, ErrorInv, Talking
<1> QED
  BY <1>3, <1>4

\* The only message that the client fails to decode is ILLEGAL_PLAY.
LEMMA PollFailsStream ==
    ASSUME BaseInv, StreamInv, PollFails PROVE StreamInv'
<1> USE DEF PollFails, Polling, KeepServer, threadVars
<1>1. ASSUME link = "open"
      PROVE  /\ pc \in MatchPcs \cup {"join", "shop_ack", "release_keep",
                                      "release_close", "closing"}
             /\ ~ Holds(toServer, "GAME_JOIN")
  <2>1. Talking /\ toClient # <<>> /\ ~ Readable(Head(toClient))
    BY <1>1 DEF Talking, RecvFails
  <2>2. PICK b \in Stages : LeadsTo(b)
    BY <2>1, StreamFacts
  <2>3. \E c \in Stages : Leads(purpose, Stage, Head(toClient), c)
    BY <2>1, <2>2, PathTail DEF LeadsTo, BaseInv, TypeOK
  <2>4. Stage = InMatch
    BY <2>1, <2>3, ReadableTypes DEF Leads, Ack, InMatchTypes
  <2> QED
    BY <2>1, <2>4, StreamFacts DEF StreamInv, RequestInv
<1> QED
  BY <1>1
     DEF StreamInv, ToClientInv, GreetingInv, RequestInv, ErrorInv, Talking

\* The user's requests.
LEMMA AsksStream ==
    ASSUME BaseInv, StreamInv, NEW m \in Messages, Send(m),
           net \in {"IN_GAME", "CONNECTED"}, blocked = "no",
           \/ m.type = "MOVE"
           \/ m.type = "SHOP_ACTION" /\ net = "CONNECTED",
           net' = IF SendFails THEN "ERROR" ELSE net,
           UNCHANGED <<blocked, purpose, toClient, pc>>
    PROVE  StreamInv'
<1>1. /\ link' = "open" => link = "open" /\ toServer' = Append(toServer, m)
      /\ link' # "gone" /\ (SendFails => link' # "open")
  BY Sends DEF BaseInv, SendFails
<1>2. link # "gone"
  BY DEF BaseInv, LinkInv
<1>3. CASE SendFails
  BY <1>1, <1>3 DEF StreamInv, ToClientInv, GreetingInv, RequestInv, ErrorInv,
                    Talking
<1>4. CASE ~ SendFails
  <2>1. net' = net
    BY <1>4
  <2>2. ToClientInv'
    <3>1. Stage' = Stage
      BY <2>1 DEF Stage
    <3> QED
      BY <1>1, <1>2, <3>1, ClientStays DEF Early
  <2>3. Talking' => Talking /\ toServer' = Append(toServer, m)
    BY <1>1, <2>1 DEF Talking
  <2>4. toServer \in Seq(Messages)
    BY DEF BaseInv, TypeOK
  <2>5. GreetingInv'
    <3>1. Talking' /\ pc = "info_ack" => Head(toServer) = Ack /\ toServer # <<>>
      BY <2>3 DEF GreetingInv, StreamInv
    <3>2. Talking' => pc # "connect"
      BY <2>3 DEF GreetingInv, StreamInv
    <3> QED
      BY <2>3, <2>4, <3>1, <3>2 DEF GreetingInv, Early
  <2>6. RequestInv'
    <3> SUFFICES ASSUME Talking' PROVE RequestInv'
      BY DEF RequestInv
    <3>1. /\ Talking /\ RequestInv /\ UNCHANGED <<blocked, toClient, pc, net>>
          /\ ~ Holds(toServer, "GAME_JOIN")
      BY <2>1, <2>3 DEF RequestInv, StreamInv
    <3>2. \A t : Holds(toServer', t) <=> Holds(toServer, t) \/ m.type = t
      BY <2>3, <2>4, HoldsAppend
    <3>3. Once(toServer', "GAME_JOIN")
      BY <3>1, <3>2 DEF Once, Holds
    <3> QED
      BY <3>1, <3>2, <3>3 DEF RequestInv
  <2>7. ErrorInv'
    BY <2>1 DEF ErrorInv
  <2> QED
    BY <2>2, <2>5, <2>6, <2>7 DEF StreamInv
<1> QED
  BY <1>3, <1>4

LEMMA SendMoveStream ==
    ASSUME BaseInv, StreamInv, NEW i \in Cells, NEW j \in Cells, SendMove(i, j)
    PROVE  StreamInv'
<1>1. Move(i, j) \in Messages /\ Move(i, j).type = "MOVE"
  BY Sent DEF Move
<1>2. net = "IN_GAME" /\ blocked = "no"
  BY DEF SendMove, InGame, BaseInv, TypeOK, ClientInv, BlockedIn
<1> QED
  BY <1>1, <1>2, AsksStream DEF SendMove, KeepServer, threadVars

LEMMA SendShopActionStream ==
    ASSUME BaseInv, StreamInv, SendShopAction PROVE StreamInv'
<1>1. /\ Plain("SHOP_ACTION") \in Messages
      /\ Plain("SHOP_ACTION").type = "SHOP_ACTION"
  BY Sent DEF Plain
<1> QED
  BY <1>1, AsksStream DEF SendShopAction, KeepServer, threadVars

\* What the thread leaves of the stream to it.
LEMMA Consumes ==
    ASSUME TypeOK, NEW m \in Received, Consume(m)
    PROVE  /\ \/ m = Lost /\ m.type = "none" /\ toServer' = toServer
              \/ /\ toServer # <<>> /\ m = Head(toServer) /\ m \in Messages
                 /\ toServer' = Tail(toServer) /\ m.type # "none"
           /\ \A t : t # "none" =>
                 /\ m.type = t => Holds(toServer, t)
                 /\ Holds(toServer', t) => Holds(toServer, t)
                 /\ m.type # t /\ Holds(toServer, t) => Holds(toServer', t)
                 /\ Once(toServer, t) => Once(toServer', t)
                 /\ Once(toServer, t) /\ m.type = t => ~ Holds(toServer', t)
<1>1. toServer \in Seq(Messages)
  BY DEF TypeOK
<1>2. CASE m = Lost /\ m.type = "none" /\ toServer' = toServer
  BY <1>2
<1>3. CASE /\ toServer # <<>> /\ m = Head(toServer) /\ m \in Messages
           /\ toServer' = Tail(toServer)
  BY <1>1, <1>3, HoldsTail, MessageFields
<1> QED
  BY <1>2, <1>3, Receives

ErrorPcs == MatchPcs \cup {"join", "shop_ack", "release_keep",
                           "release_close", "closing"}

\* A step of the thread that is not HandleConnect.
LEMMA ThreadStream ==
    ASSUME BaseInv, StreamInv, KeepClient, pc # "closed",
           pc' \notin {"connect", "info_ack"},
           \/ toServer' = toServer
           \/ toServer # <<>> /\ toServer' = Tail(toServer),
           Talking => ToClientInv',
           Talking /\ blocked \in Early =>
              pc' \in EarlyPcs /\ toClient' = toClient,
           Talking /\ Holds(toServer', "GAME_JOIN") => toClient' = <<>>,
           Talking /\ blocked = "join_ack" /\ toClient' = <<>> /\ pc' = "join"
              => Holds(toServer', "GAME_JOIN"),
           link = "open" /\ net = "ERROR" => pc' \in ErrorPcs
    PROVE  StreamInv'
<1>1. UNCHANGED <<net, blocked, purpose, link, Talking>>
  BY DEF KeepClient, clientVars, Talking
<1>2. toServer \in Seq(Messages)
  BY DEF BaseInv, TypeOK
<1>3. \A t : /\ Holds(toServer', t) => Holds(toServer, t)
             /\ Once(toServer, t) => Once(toServer', t)
  BY <1>2, HoldsTail
<1>4. link \in {"open", "gone"}
  BY DEF BaseInv, LinkInv, TypeOK, Links
<1>5. ToClientInv'
  BY <1>1, <1>4 DEF ToClientInv, Talking
<1>6. GreetingInv'
  <2>1. toServer = <<Plain("CONNECT")>> => Tail(toServer) = <<>>
    OBVIOUS
  <2> QED
    BY <1>1, <2>1 DEF GreetingInv, StreamInv, Early
<1>7. RequestInv'
  BY <1>1, <1>3 DEF RequestInv, StreamInv
<1>8. ErrorInv'
  BY <1>1, <1>3 DEF ErrorInv, StreamInv, ErrorPcs
<1> QED
  BY <1>5, <1>6, <1>7, <1>8 DEF StreamInv

\* Where no GAME_JOIN can be under way.
LatePcs == QueuePcs \cup MatchPcs \cup {"shop_ack", "release_keep"}

LEMMA LateFacts ==
    ASSUME BaseInv, StreamInv, Talking, pc \in LatePcs
    PROVE  /\ blocked \notin Early
           /\ ~ Holds(toServer, "GAME_JOIN")
           /\ ~ (blocked = "join_ack" /\ toClient = <<>>)
<1>1. ~ (blocked = "join_ack" /\ toClient = <<>>)
  <2>1. Reached(pc, purpose) \in {{Queueing}, {InMatch}, {Idle}}
    BY ReachedAt DEF LatePcs
  <2>2. blocked = "join_ack" => Stage = Joining
    BY DEF Stage
  <2> QED
    BY <2>1, <2>2, StreamFacts DEF Joining, Queueing, InMatch, Idle
<1>2. blocked \notin Early
  BY DEF StreamInv, GreetingInv, LatePcs, EarlyPcs, QueuePcs, MatchPcs, AckPcs,
         EndPcs
<1> QED
  BY <1>1, <1>2 DEF StreamInv, RequestInv

LEMMA LateStream ==
    ASSUME BaseInv, StreamInv, KeepClient, pc \in LatePcs,
           pc' \notin {"connect", "info_ack"},
           \/ toServer' = toServer
           \/ toServer # <<>> /\ toServer' = Tail(toServer),
           NEW b \in Stages, Reached(pc, purpose) = {b},
           NEW c \in Stages, Talking => c \in Reached(pc', purpose'),
           Talking =>
             \/ c = b /\ toClient' = toClient
             \/ c = b /\ toClient' = toClient \o <<>>
             \/ \E m \in Messages : /\ toClient' = toClient \o <<m>>
                                    /\ Leads(purpose, b, m, c)
             \/ \E m, n \in Messages, d \in Stages :
                   /\ toClient' = toClient \o <<m, n>>
                   /\ Leads(purpose, b, m, d) /\ Leads(purpose, d, n, c),
           pc' = "join" => toClient' = toClient,
           link = "open" /\ net = "ERROR" => pc' \in ErrorPcs
    PROVE  StreamInv'
<1>1. Talking => ToClientInv'
  <2> SUFFICES ASSUME Talking PROVE ToClientInv'
    OBVIOUS
  <2>1. LeadsTo(b)
    BY StreamFacts DEF LeadsTo, Talking
  <2>2. blocked \notin Early
    BY LateFacts
  <2> QED
    BY <2>1, <2>2, ThreadSends
<1>2. pc # "closed"
  BY DEF LatePcs, QueuePcs, MatchPcs, AckPcs, EndPcs
<1>3. Talking => ~ Holds(toServer', "GAME_JOIN")
  BY LateFacts, HoldsTail DEF BaseInv, TypeOK
<1> QED
  BY <1>1, <1>2, <1>3, LateFacts, ThreadStream

LEMMA AcquireSlotStream ==
    ASSUME BaseInv, StreamInv, AcquireSlot PROVE StreamInv'
<1>1. /\ pc \in LatePcs /\ pc' \notin {"connect", "info_ack", "join"}
      /\ toServer' = toServer /\ toClient' = toClient /\ KeepClient
      /\ Queueing \in Stages
      /\ pc \in ErrorPcs => pc' \in ErrorPcs
  BY DEF AcquireSlot, LatePcs, QueuePcs, MatchPcs, AckPcs, EndPcs, KeepClient,
         clientVars, linkVars, Stages, Queueing, ErrorPcs
<1>2. Reached(pc, purpose) = {Queueing} /\ Queueing \in Reached(pc', purpose')
  BY ReachedAt
     DEF AcquireSlot, QueuePcs, MatchPcs, AckPcs, EndPcs, Stages, Queueing
<1> QED
  BY <1>1, <1>2, LateStream DEF StreamInv, ErrorInv, ErrorPcs

LEMMA SeeBothPlayersStream ==
    ASSUME BaseInv, StreamInv, SeeBothPlayers PROVE StreamInv'
<1>1. /\ pc \in LatePcs /\ pc' \notin {"connect", "info_ack", "join"}
      /\ toServer' = toServer /\ toClient' = toClient /\ KeepClient
      /\ Queueing \in Stages
      /\ pc \in ErrorPcs => pc' \in ErrorPcs
  BY DEF SeeBothPlayers, LatePcs, QueuePcs, MatchPcs, AckPcs, EndPcs,
         KeepClient, clientVars, linkVars, Stages, Queueing, ErrorPcs
<1>2. Reached(pc, purpose) = {Queueing} /\ Queueing \in Reached(pc', purpose')
  BY ReachedAt
     DEF SeeBothPlayers, QueuePcs, MatchPcs, AckPcs, EndPcs, Stages, Queueing
<1> QED
  BY <1>1, <1>2, LateStream DEF StreamInv, ErrorInv, ErrorPcs

LEMMA SeeGameOverStream ==
    ASSUME BaseInv, StreamInv, SeeGameOver PROVE StreamInv'
<1>1. /\ pc \in LatePcs /\ pc' \notin {"connect", "info_ack", "join"}
      /\ toServer' = toServer /\ toClient' = toClient /\ KeepClient
      /\ InMatch \in Stages
      /\ pc \in ErrorPcs => pc' \in ErrorPcs
  BY DEF SeeGameOver, LatePcs, QueuePcs, MatchPcs, AckPcs, EndPcs, KeepClient,
         clientVars, linkVars, Stages, InMatch, ErrorPcs
<1>2. Reached(pc, purpose) = {InMatch} /\ InMatch \in Reached(pc', purpose')
  BY ReachedAt
     DEF SeeGameOver, QueuePcs, MatchPcs, AckPcs, EndPcs, Stages, InMatch
<1> QED
  BY <1>1, <1>2, LateStream DEF StreamInv, ErrorInv, ErrorPcs

LEMMA HandleDisconnectWinStream ==
    ASSUME BaseInv, StreamInv, HandleDisconnectWin PROVE StreamInv'
<1>1. /\ pc \in LatePcs /\ pc' \notin {"connect", "info_ack", "join"}
      /\ toServer' = toServer /\ toClient' = toClient /\ KeepClient
      /\ InMatch \in Stages
      /\ pc \in ErrorPcs => pc' \in ErrorPcs
  BY DEF HandleDisconnectWin, LatePcs, QueuePcs, MatchPcs, AckPcs, EndPcs,
         KeepClient, clientVars, linkVars, Stages, InMatch, ErrorPcs
<1>2. Reached(pc, purpose) = {InMatch} /\ InMatch \in Reached(pc', purpose')
  BY ReachedAt
     DEF HandleDisconnectWin, QueuePcs, MatchPcs, AckPcs, EndPcs, Stages,
         InMatch
<1> QED
  BY <1>1, <1>2, LateStream DEF StreamInv, ErrorInv, ErrorPcs

LEMMA HandleShopAckStream ==
    ASSUME BaseInv, StreamInv, NEW m \in Received, HandleShopAck(m)
    PROVE  StreamInv'
<1>1. /\ pc \in LatePcs /\ pc' \notin {"connect", "info_ack"}
      /\ toClient' = toClient /\ KeepClient /\ UNCHANGED purpose
      /\ Idle \in Stages
      /\ pc \in ErrorPcs => pc' \in ErrorPcs
  BY DEF HandleShopAck, LatePcs, QueuePcs, MatchPcs, AckPcs, EndPcs,
         KeepClient, clientVars, Stages, Idle, ErrorPcs
<1>2. /\ Reached(pc, purpose) = {Idle}
      /\ Talking => Idle \in Reached(pc', purpose')
  BY <1>1, ReachedAt
     DEF HandleShopAck, QueuePcs, MatchPcs, AckPcs, EndPcs, Stages, Idle,
         Talking
<1>3. \/ toServer' = toServer
      \/ toServer # <<>> /\ toServer' = Tail(toServer)
  BY Consumes DEF HandleShopAck, BaseInv
<1> QED
  BY <1>1, <1>2, <1>3, LateStream DEF StreamInv, ErrorInv, ErrorPcs

LEMMA KeepAliveStream ==
    ASSUME BaseInv, StreamInv, NEW m \in Received, KeepAlive(m)
    PROVE  StreamInv'
<1>1. /\ pc \in LatePcs /\ pc' \notin {"connect", "info_ack"}
      /\ toClient' = toClient /\ KeepClient /\ UNCHANGED purpose
      /\ Queueing \in Stages
      /\ pc \in ErrorPcs => pc' \in ErrorPcs
  BY DEF KeepAlive, LatePcs, QueuePcs, MatchPcs, AckPcs, EndPcs, KeepClient,
         clientVars, Stages, Queueing, ErrorPcs
<1>2. /\ Reached(pc, purpose) = {Queueing}
      /\ Talking => Queueing \in Reached(pc', purpose')
  BY <1>1, ReachedAt
     DEF KeepAlive, QueuePcs, MatchPcs, AckPcs, EndPcs, Stages, Queueing,
         Talking
<1>3. \/ toServer' = toServer
      \/ toServer # <<>> /\ toServer' = Tail(toServer)
  BY Consumes DEF KeepAlive, BaseInv
<1> QED
  BY <1>1, <1>2, <1>3, LateStream DEF StreamInv, ErrorInv, ErrorPcs

LEMMA FailInPlayStream ==
    ASSUME BaseInv, StreamInv, NEW m \in Received, FailInPlay(m)
    PROVE  StreamInv'
<1>1. /\ pc \in LatePcs /\ pc' \notin {"connect", "info_ack"}
      /\ toClient' = toClient /\ KeepClient /\ UNCHANGED purpose
      /\ InMatch \in Stages
      /\ pc \in ErrorPcs => pc' \in ErrorPcs
  BY DEF FailInPlay, LatePcs, QueuePcs, MatchPcs, AckPcs, EndPcs, KeepClient,
         clientVars, Stages, InMatch, ErrorPcs
<1>2. /\ Reached(pc, purpose) = {InMatch}
      /\ Talking => InMatch \in Reached(pc', purpose')
  BY <1>1, ReachedAt
     DEF FailInPlay, QueuePcs, MatchPcs, AckPcs, EndPcs, Stages, InMatch,
         Talking
<1>3. \/ toServer' = toServer
      \/ toServer # <<>> /\ toServer' = Tail(toServer)
  BY Consumes DEF FailInPlay, BaseInv
<1> QED
  BY <1>1, <1>2, <1>3, LateStream DEF StreamInv, ErrorInv, ErrorPcs

LEMMA HandleEndAckStream ==
    ASSUME BaseInv, StreamInv, NEW m \in Received, HandleEndAck(m)
    PROVE  StreamInv'
<1>1. /\ pc \in LatePcs /\ pc' \notin {"connect", "info_ack"}
      /\ toClient' = toClient /\ KeepClient /\ UNCHANGED purpose
      /\ Idle \in Stages
      /\ pc \in ErrorPcs => pc' \in ErrorPcs
  BY DEF HandleEndAck, LatePcs, QueuePcs, MatchPcs, AckPcs, EndPcs, KeepClient,
         clientVars, Stages, Idle, ErrorPcs
<1>2. /\ Reached(pc, purpose) = {Idle}
      /\ Talking => Idle \in Reached(pc', purpose')
  BY <1>1, ReachedAt
     DEF HandleEndAck, QueuePcs, MatchPcs, AckPcs, EndPcs, Stages, Idle,
         Talking
<1>3. \/ toServer' = toServer
      \/ toServer # <<>> /\ toServer' = Tail(toServer)
  BY Consumes DEF HandleEndAck, BaseInv
<1> QED
  BY <1>1, <1>2, <1>3, LateStream DEF StreamInv, ErrorInv, ErrorPcs

\* One message that goes with a step of the thread.
LEMMA TellStream ==
    ASSUME BaseInv, StreamInv, KeepClient, pc \in LatePcs,
           \/ toServer' = toServer
           \/ toServer # <<>> /\ toServer' = Tail(toServer),
           NEW b \in Stages, Reached(pc, purpose) = {b},
           NEW next \in LatePcs \ {"shop_ack", "release_keep"},
           NEW failed \in {"forfeit", "release_close", "illegal_ack"},
           NEW c \in Stages, Reached(next, purpose) = {c},
           NEW ms, Tell(ms, next, failed),
           \/ ms = <<>> /\ b = c
           \/ \E m \in Messages : ms = <<m>> /\ Leads(purpose, b, m, c)
           \/ \E m, n \in Messages, d \in Stages :
                 /\ ms = <<m, n>>
                 /\ Leads(purpose, b, m, d) /\ Leads(purpose, d, n, c),
           pc \in ErrorPcs => next \in ErrorPcs
    PROVE  StreamInv'
<1>1. /\ Talking => pc' = next /\ toClient' = toClient \o ms
      /\ pc' \in {next, failed}
      /\ link = "open" => pc' = next
  BY DEF Tell, Talking
<1>2. UNCHANGED purpose
  BY DEF KeepClient, clientVars
<1>3. pc' \notin {"connect", "info_ack", "join"}
  BY <1>1 DEF LatePcs, QueuePcs, MatchPcs, AckPcs, EndPcs
<1>4. Talking =>
        \/ c = b /\ toClient' = toClient
        \/ c = b /\ toClient' = toClient \o <<>>
        \/ \E m \in Messages : /\ toClient' = toClient \o <<m>>
                               /\ Leads(purpose, b, m, c)
        \/ \E m, n \in Messages, d \in Stages :
              /\ toClient' = toClient \o <<m, n>>
              /\ Leads(purpose, b, m, d) /\ Leads(purpose, d, n, c)
  BY <1>1
<1>5. link = "open" /\ net = "ERROR" => pc' \in ErrorPcs
  BY <1>1 DEF StreamInv, ErrorInv, ErrorPcs
<1>6. Talking => c \in Reached(pc', purpose')
  BY <1>1, <1>2
<1> QED
  BY <1>1, <1>2, <1>3, <1>4, <1>5, <1>6, LateStream

LEMMA SendGameWaitStream ==
    ASSUME BaseInv, StreamInv, SendGameWait PROVE StreamInv'
<1> DEFINE full == Len(toServer) + Len(toClient) >= MaxPending
           ms   == IF full THEN <<>> ELSE <<Plain("GAME_WAIT")>>
<1>1. /\ pc = "poll" /\ KeepClient /\ toServer' = toServer
      /\ Tell(ms, "keep_alive", "release_close")
  BY DEF SendGameWait
<1>2. \/ ms = <<>>
      \/ \E m \in Messages : ms = <<m>> /\ Leads(purpose, Queueing, m, Queueing)
  BY Sent DEF Leads, Plain
<1>3. /\ {"poll", "keep_alive"} \subseteq LatePcs /\ Queueing \in Stages
      /\ \A at \in {"poll", "keep_alive"} : Reached(at, purpose) = {Queueing}
  BY ReachedAt DEF LatePcs, QueuePcs, Queueing, Stages
<1>4. "poll" \notin ErrorPcs
  BY DEF ErrorPcs, MatchPcs, AckPcs, EndPcs
<1> HIDE DEF ms
<1> QED
  BY <1>1, <1>2, <1>3, <1>4, TellStream

LEMMA StartMatchStream ==
    ASSUME BaseInv, StreamInv, StartMatch PROVE StreamInv'
<1> DEFINE m == GameStart(current_turn' = seat)
<1>1. /\ pc = "begin" /\ KeepClient /\ toServer' = toServer
      /\ Tell(<<m>>, "start_ack", "release_close")
  BY DEF StartMatch
<1>2. m \in Messages /\ Leads(purpose, Queueing, m, InMatch)
  BY Sent DEF Leads, GameStart
<1>3. /\ {"begin", "start_ack"} \subseteq LatePcs
      /\ Queueing \in Stages /\ InMatch \in Stages
      /\ Reached("begin", purpose) = {Queueing}
      /\ Reached("start_ack", purpose) = {InMatch}
  BY ReachedAt
     DEF LatePcs, QueuePcs, MatchPcs, AckPcs, Queueing, InMatch, Stages
<1>4. "begin" \notin ErrorPcs
  BY DEF ErrorPcs, MatchPcs, AckPcs, EndPcs
<1> HIDE DEF m
<1> QED
  BY <1>1, <1>2, <1>3, <1>4, TellStream

\* A step of the thread within the match, which sends ms.
LEMMA PlayStream ==
    ASSUME BaseInv, StreamInv, KeepClient, pc \in MatchPcs \ {"end_ack"},
           \/ toServer' = toServer
           \/ toServer # <<>> /\ toServer' = Tail(toServer),
           NEW next \in MatchPcs \ {"end_ack"},
           NEW failed \in {"forfeit", "release_close", "illegal_ack"},
           NEW ms, Tell(ms, next, failed),
           \/ ms = <<>>
           \/ \E m \in Messages :
                 ms = <<m>> /\ (m = Ack \/ m.type \in InMatchTypes)
           \/ \E m, n \in Messages :
                 /\ ms = <<m, n>>
                 /\ m = Ack \/ m.type \in InMatchTypes
                 /\ n = Ack \/ n.type \in InMatchTypes
    PROVE  StreamInv'
<1>1. /\ pc \in LatePcs /\ next \in LatePcs \ {"shop_ack", "release_keep"}
      /\ InMatch \in Stages /\ next \in ErrorPcs
  BY DEF LatePcs, MatchPcs, AckPcs, EndPcs, InMatch, Stages, ErrorPcs
<1>2. Reached(pc, purpose) = {InMatch} /\ Reached(next, purpose) = {InMatch}
  BY ReachedAt
<1>3. \A m : (m = Ack \/ m.type \in InMatchTypes)
                => Leads(purpose, InMatch, m, InMatch)
  BY DEF Leads
<1>4. \/ ms = <<>>
      \/ \E m \in Messages : ms = <<m>> /\ Leads(purpose, InMatch, m, InMatch)
      \/ \E m, n \in Messages, d \in Stages :
            /\ ms = <<m, n>>
            /\ Leads(purpose, InMatch, m, d) /\ Leads(purpose, d, n, InMatch)
  BY <1>1, <1>3
<1> QED
  BY <1>1, <1>2, <1>4, TellStream

LEMMA HandleAckStream ==
    ASSUME BaseInv, StreamInv, NEW m \in Received, HandleAck(m)
    PROVE  StreamInv'
<1> USE DEF MatchPcs, AckPcs, EndPcs, InMatchTypes
<1>1. /\ KeepClient
      /\ \/ toServer' = toServer
         \/ toServer # <<>> /\ toServer' = Tail(toServer)
  BY HandsOn, Consumes DEF BaseInv
<1>2. CASE /\ pc = "start_ack"
           /\ Tell(<<GameState(board)>>, "state_ack", "forfeit")
  <2>1. GameState(board) \in Messages /\ GameState(board).type = "GAME_STATE"
    BY Sent DEF GameState, BaseInv, TypeOK
  <2> QED
    BY <1>1, <1>2, <2>1, PlayStream
<1>3. CASE pc = "turn_ack" /\ Tell(<<Plain("PLAY")>>, "play_ack", "forfeit")
  <2>1. Plain("PLAY") \in Messages /\ Plain("PLAY").type = "PLAY"
    BY Sent DEF Plain
  <2> QED
    BY <1>1, <1>3, <2>1, PlayStream
<1>4. CASE /\ <<pc, pc'>> \in {<<"state_ack", "turn">>, <<"play_ack", "move">>,
                <<"illegal_ack", "move">>, <<"moved_ack", "turn">>,
                <<"last_ack", "result">>}
           /\ toClient' = toClient
  <2>1. pc' \in MatchPcs \ {"end_ack"} /\ pc \in MatchPcs \ {"end_ack"}
    BY <1>4
  <2>2. Tell(<<>>, pc', "forfeit")
    BY <1>4 DEF Tell, BaseInv, TypeOK
  <2> QED
    BY <1>1, <2>1, <2>2, PlayStream
<1> QED
  BY <1>2, <1>3, <1>4, HandsOn DEF BaseInv

LEMMA TakeTurnStream ==
    ASSUME BaseInv, StreamInv, TakeTurn PROVE StreamInv'
<1>1. GameState(board) \in Messages /\ GameState(board).type = "GAME_STATE"
  BY Sent DEF GameState, BaseInv, TypeOK
<1> QED
  BY <1>1, PlayStream DEF TakeTurn, MatchPcs, AckPcs, EndPcs, InMatchTypes

LEMMA LegalMoveStream ==
    ASSUME BaseInv, StreamInv, NEW m \in Received, LegalMove(m)
    PROVE  StreamInv'
<1> DEFINE next == IF IsFinished(board') THEN "last_ack" ELSE "moved_ack"
<1>1. /\ KeepClient /\ Tell(<<Ack, GameState(board')>>, next, "forfeit")
      /\ pc = "move" /\ Consume(m) /\ Moved(seat, m.coin_index, m.coin_pos)
  BY DEF LegalMove
<1>2. seat \in Ids
  BY <1>1 DEF BaseInv, TypeOK, SeatInv, Seated, MatchPcs
<1>3. GameState(board') \in Messages /\ GameState(board').type = "GAME_STATE"
  BY <1>1, <1>2, Moves, Sent DEF GameState
<1>4. next \in MatchPcs \ {"end_ack"} /\ pc \in MatchPcs \ {"end_ack"}
  BY <1>1 DEF MatchPcs, AckPcs, EndPcs
<1>5. \/ toServer' = toServer
      \/ toServer # <<>> /\ toServer' = Tail(toServer)
  BY <1>1, Consumes DEF BaseInv
<1> HIDE DEF next
<1> QED
  BY <1>1, <1>3, <1>4, <1>5, Sent, PlayStream DEF InMatchTypes

LEMMA IllegalMoveStream ==
    ASSUME BaseInv, StreamInv, NEW m \in Received, IllegalMove(m)
    PROVE  StreamInv'
<1>1. /\ Plain("ILLEGAL_PLAY") \in Messages
      /\ Plain("ILLEGAL_PLAY").type = "ILLEGAL_PLAY"
  BY Sent DEF Plain
<1>2. \/ toServer' = toServer
      \/ toServer # <<>> /\ toServer' = Tail(toServer)
  BY Consumes DEF IllegalMove, BaseInv
<1> QED
  BY <1>1, <1>2, PlayStream
     DEF IllegalMove, MatchPcs, AckPcs, EndPcs, InMatchTypes

LEMMA TellEndStream ==
    ASSUME BaseInv, StreamInv, KeepClient, pc \in {"result", "update_ack"},
           \/ toServer' = toServer
           \/ toServer # <<>> /\ toServer' = Tail(toServer),
           TellEnd
    PROVE  StreamInv'
<1> DEFINE m == GameEnd(winner_id = seat)
<1>1. Tell(<<m>>, "end_ack", "release_close")
  BY DEF TellEnd
<1>2. m \in Messages /\ Leads(purpose, InMatch, m, Idle)
  BY Sent DEF Leads, GameEnd
<1>3. /\ pc \in LatePcs /\ "end_ack" \in LatePcs /\ "end_ack" \in ErrorPcs
      /\ Reached(pc, purpose) = {InMatch}
      /\ Reached("end_ack", purpose) = {Idle}
      /\ Idle \in Stages /\ InMatch \in Stages
  BY ReachedAt
     DEF LatePcs, MatchPcs, AckPcs, EndPcs, InMatch, Idle, Stages, ErrorPcs
<1> HIDE DEF m
<1> QED
  BY <1>1, <1>2, <1>3, TellStream

LEMMA SendResultStream ==
    ASSUME BaseInv, StreamInv, SendResult PROVE StreamInv'
<1>1. /\ Plain("PLAYER_DATA_UPDATE") \in Messages
      /\ Plain("PLAYER_DATA_UPDATE").type = "PLAYER_DATA_UPDATE"
  BY Sent DEF Plain
<1>2. pc = "result" /\ KeepClient /\ toServer' = toServer
  BY DEF SendResult
<1>3. CASE TellEnd
  BY <1>2, <1>3, TellEndStream
<1>4. CASE Tell(<<Plain("PLAYER_DATA_UPDATE")>>, "update_ack", "release_close")
  BY <1>1, <1>2, <1>4, PlayStream DEF MatchPcs, AckPcs, EndPcs, InMatchTypes
<1> QED
  BY <1>3, <1>4 DEF SendResult

LEMMA HandleUpdateAckStream ==
    ASSUME BaseInv, StreamInv, NEW m \in Received, HandleUpdateAck(m)
    PROVE  StreamInv'
<1>1. /\ pc = "update_ack" /\ KeepClient
      /\ \/ toServer' = toServer
         \/ toServer # <<>> /\ toServer' = Tail(toServer)
  BY Consumes DEF HandleUpdateAck, BaseInv
<1>2. CASE TellEnd
  BY <1>1, <1>2, TellEndStream
<1>3. CASE pc' = "release_close" /\ toClient' = toClient
  <2>1. /\ pc \in LatePcs /\ InMatch \in Stages /\ UNCHANGED purpose
        /\ "release_close" \in ErrorPcs
    BY <1>1 DEF LatePcs, MatchPcs, EndPcs, InMatch, Stages, KeepClient,
                clientVars, ErrorPcs
  <2>2. /\ Reached(pc, purpose) = {InMatch}
        /\ InMatch \in Reached(pc', purpose')
    BY <1>1, <1>3, <2>1, ReachedAt DEF MatchPcs, EndPcs
  <2> QED
    BY <1>1, <1>3, <2>1, <2>2, LateStream
<1> QED
  BY <1>2, <1>3 DEF HandleUpdateAck

LEMMA ReleaseSlotStream ==
    ASSUME BaseInv, StreamInv, ReleaseSlot PROVE StreamInv'
<1>0. /\ KeepClient /\ UNCHANGED <<purpose, toClient, toServer>>
  BY DEF ReleaseSlot, KeepClient, clientVars, linkVars
<1>1. CASE pc = "release_keep"
  <2>1. /\ pc \in LatePcs /\ Idle \in Stages /\ pc' = "join"
        /\ pc' \in ErrorPcs
    BY <1>1 DEF ReleaseSlot, LatePcs, Idle, Stages, ErrorPcs
  <2>2. /\ Reached(pc, purpose) = {Idle} /\ Idle \in Reached(pc', purpose')
    BY <1>0, <1>1, <2>1, ReachedAt
  <2> QED
    BY <1>0, <2>1, <2>2, LateStream
<1>2. CASE pc = "release_close"
  <2>1. pc' = "closing"
    BY <1>2 DEF ReleaseSlot
  <2>2. Talking => ToClientInv'
    <3> SUFFICES ASSUME Talking PROVE ToClientInv'
      OBVIOUS
    <3>1. PICK b \in Stages : LeadsTo(b)
      BY StreamFacts
    <3>2. b \in Reached(pc', purpose')
      BY <2>1, ReachedAt
    <3> QED
      BY <1>0, <3>1, <3>2, ThreadSends DEF LeadsTo
  <2>3. Talking => blocked \notin Early
    BY <1>2 DEF StreamInv, GreetingInv, EarlyPcs
  <2>4. Talking /\ Holds(toServer', "GAME_JOIN") => toClient' = <<>>
    BY <1>0 DEF StreamInv, RequestInv
  <2> QED
    BY <1>0, <1>2, <2>1, <2>2, <2>3, <2>4, ThreadStream DEF ErrorPcs
<1> QED
  BY <1>1, <1>2 DEF ReleaseSlot

\* In "join" the thread takes any message.
LEMMA JoinPcStream ==
    ASSUME BaseInv, StreamInv, NEW m \in Received, Consume(m), KeepClient,
           pc = "join", pc' \notin {"connect", "info_ack"},
           Talking => ToClientInv',
           m.type \in {"GAME_JOIN", "SHOP_ACTION"} \/ toClient' = toClient,
           m.type \in {"GAME_JOIN", "SHOP_ACTION"} \/ pc' \in EarlyPcs,
           pc' # "join" \/ m.type # "GAME_JOIN",
           m.type # "GAME_JOIN" /\ link = "open" => pc' \in ErrorPcs
    PROVE  StreamInv'
<1>1. /\ \/ toServer' = toServer
         \/ toServer # <<>> /\ toServer' = Tail(toServer)
      /\ \A t \in {"GAME_JOIN", "SHOP_ACTION"} :
            /\ m.type = t => Holds(toServer, t)
            /\ Holds(toServer', t) => Holds(toServer, t)
            /\ m.type # t /\ Holds(toServer, t) => Holds(toServer', t)
            /\ Once(toServer, t) /\ m.type = t => ~ Holds(toServer', t)
  BY Consumes DEF BaseInv
<1>2. Talking /\ m.type = "GAME_JOIN" =>
         blocked = "join_ack" /\ ~ Holds(toServer', "GAME_JOIN")
  BY <1>1 DEF StreamInv, RequestInv
<1>3. Talking /\ m.type = "SHOP_ACTION" =>
         blocked = "no" /\ ~ Holds(toServer', "GAME_JOIN")
  BY <1>1 DEF StreamInv, RequestInv
<1>4. Talking /\ blocked \in Early => pc' \in EarlyPcs /\ toClient' = toClient
  BY <1>2, <1>3 DEF Early
<1>5. Talking /\ Holds(toServer', "GAME_JOIN") => toClient' = <<>>
  BY <1>1, <1>2, <1>3 DEF StreamInv, RequestInv
<1>6. Talking /\ blocked = "join_ack" /\ toClient' = <<>> /\ pc' = "join"
         => Holds(toServer', "GAME_JOIN")
  <2> SUFFICES ASSUME Talking, blocked = "join_ack", toClient' = <<>>,
                      pc' = "join"
               PROVE  Holds(toServer', "GAME_JOIN")
    OBVIOUS
  <2>1. m.type # "GAME_JOIN" /\ m.type # "SHOP_ACTION"
    BY <1>3
  <2> QED
    BY <1>1, <2>1 DEF StreamInv, RequestInv
<1>7. link = "open" /\ net = "ERROR" => pc' \in ErrorPcs
  BY <1>1 DEF StreamInv, ErrorInv
<1> QED
  BY <1>1, <1>4, <1>5, <1>6, <1>7, ThreadStream

LEMMA HandleGameJoinStream ==
    ASSUME BaseInv, StreamInv, NEW m \in Received, HandleGameJoin(m)
    PROVE  StreamInv'
<1>1. /\ pc = "join" /\ Consume(m) /\ m.type = "GAME_JOIN" /\ KeepClient
      /\ pc' = "acquire" /\ UNCHANGED purpose
  BY DEF HandleGameJoin, Tell, KeepClient, clientVars
<1>2. Talking => ToClientInv'
  <2> SUFFICES ASSUME Talking PROVE ToClientInv'
    OBVIOUS
  <2>1. blocked = "join_ack" /\ toClient = <<>>
    BY <1>1, Consumes DEF StreamInv, RequestInv, BaseInv
  <2>2. PICK b \in Stages : LeadsTo(b)
    BY StreamFacts
  <2>3. Stage = Joining
    BY <2>1 DEF Stage
  <2>4. b = Joining
    BY <2>1, <2>2, <2>3, PathEmpty DEF LeadsTo, Stages, Joining
  <2>5. Ack \in Messages /\ Leads(purpose, b, Ack, Queueing)
    BY <2>4, Sent DEF Leads
  <2>6. /\ Queueing \in Stages /\ Queueing \in Reached(pc', purpose')
        /\ blocked \notin Early
    BY <1>1, <2>1, ReachedAt DEF Queueing, Stages, QueuePcs, Early
  <2>7. toClient' = toClient \o <<Ack>>
    BY DEF HandleGameJoin, Tell, Talking
  <2> QED
    BY <1>1, <2>2, <2>5, <2>6, <2>7, ThreadSends
<1> QED
  BY <1>1, <1>2, JoinPcStream

\* A shop action comes from a client that is connected and does nothing else.
LEMMA ShopStream ==
    ASSUME BaseInv, StreamInv, NEW m \in Received, Consume(m), KeepClient,
           pc = "join", m.type = "SHOP_ACTION",
           NEW next \in {"join", "shop_ack"},
           NEW failed \in {"join", "closing"},
           NEW ms, Tell(ms, next, failed),
           ms \in {<<Nok>>, <<Ack, Plain("PLAYER_INFO")>>}
    PROVE  StreamInv'
<1>1. /\ pc' \in {next, failed} /\ (link = "open" => pc' = next)
      /\ UNCHANGED purpose
  BY DEF Tell, KeepClient, clientVars
<1>2. Talking => ToClientInv'
  <2> SUFFICES ASSUME Talking PROVE ToClientInv'
    OBVIOUS
  <2>1. blocked = "no" /\ net = "CONNECTED"
    BY Consumes DEF StreamInv, RequestInv, BaseInv
  <2>2. PICK b \in Stages : LeadsTo(b)
    BY StreamFacts
  <2>3. b = Idle
    <3>1. Stage = Idle /\ Stage <= b
      BY <2>1, <2>2, PathEnds DEF Stage, LeadsTo, BaseInv, TypeOK
    <3> QED
      BY <3>1 DEF Stages, Idle
  <2>4. /\ Ack \in Messages /\ Nok \in Messages
        /\ Plain("PLAYER_INFO") \in Messages
        /\ Leads(purpose, b, Nok, Idle) /\ Leads(purpose, b, Ack, Idle)
        /\ Leads(purpose, Idle, Plain("PLAYER_INFO"), Idle)
    BY <2>3, Sent DEF Leads, Ack, Nok, Plain
  <2>5. /\ Idle \in Stages /\ Idle \in Reached(pc', purpose')
        /\ blocked \notin Early
    BY <1>1, <2>1, ReachedAt DEF Idle, Stages, Early, Talking
  <2>6. toClient' = toClient \o ms
    BY DEF Tell, Talking
  <2>7. \/ \E x \in Messages : /\ toClient' = toClient \o <<x>>
                               /\ Leads(purpose, b, x, Idle)
        \/ \E x, y \in Messages, d \in Stages :
              /\ toClient' = toClient \o <<x, y>>
              /\ Leads(purpose, b, x, d) /\ Leads(purpose, d, y, Idle)
    BY <2>4, <2>5, <2>6
  <2> QED
    BY <2>2, <2>5, <2>7, ThreadSends
<1>3. pc' \notin {"connect", "info_ack"}
  BY <1>1
<1>4. link = "open" => pc' \in ErrorPcs
  BY <1>1 DEF ErrorPcs
<1> QED
  BY <1>2, <1>3, <1>4, JoinPcStream

LEMMA ShopActionServedStream ==
    ASSUME BaseInv, StreamInv, NEW m \in Received, ShopActionServed(m)
    PROVE  StreamInv'
  BY ShopStream DEF ShopActionServed

LEMMA ShopActionRefusedStream ==
    ASSUME BaseInv, StreamInv, NEW m \in Received, ShopActionRefused(m)
    PROVE  StreamInv'
  BY ShopStream DEF ShopActionRefused

LEMMA HandleOtherStream ==
    ASSUME BaseInv, StreamInv, NEW m \in Received, HandleOther(m)
    PROVE  StreamInv'
<1>1. /\ pc = "join" /\ Consume(m) /\ KeepClient /\ toClient' = toClient
      /\ m.type \notin {"GAME_JOIN", "SHOP_ACTION"}
      /\ pc' \in {"closing", "join"} /\ UNCHANGED purpose
  BY DEF HandleOther, KeepClient, clientVars
<1>2. Talking => ToClientInv'
  <2> SUFFICES ASSUME Talking PROVE ToClientInv'
    OBVIOUS
  <2>1. PICK b \in Stages : LeadsTo(b)
    BY StreamFacts
  <2>2. b \in Reached(pc', purpose')
    BY <1>1, <2>1, ReachedAt DEF LeadsTo, Talking
  <2> QED
    BY <1>1, <2>1, <2>2, ThreadSends DEF LeadsTo
<1>3. pc' \in EarlyPcs /\ pc' \in ErrorPcs
  BY <1>1 DEF EarlyPcs, ErrorPcs
<1> QED
  BY <1>1, <1>2, <1>3, JoinPcStream

LEMMA HandleInfoAckStream ==
    ASSUME BaseInv, StreamInv, NEW m \in Received, HandleInfoAck(m)
    PROVE  StreamInv'
<1>1. /\ pc = "info_ack" /\ Consume(m) /\ KeepClient /\ toClient' = toClient
      /\ pc' = "join" /\ UNCHANGED purpose
  BY DEF HandleInfoAck, KeepClient, clientVars
<1>2. Talking => ToClientInv'
  <2> SUFFICES ASSUME Talking PROVE ToClientInv'
    OBVIOUS
  <2>1. PICK b \in Stages : LeadsTo(b)
    BY StreamFacts
  <2>2. b \in Reached(pc', purpose')
    BY <1>1, <2>1, ReachedAt DEF LeadsTo, Talking, Greeted
  <2> QED
    BY <1>1, <2>1, <2>2, ThreadSends DEF LeadsTo
<1>3. /\ \/ toServer' = toServer
         \/ toServer # <<>> /\ toServer' = Tail(toServer)
      /\ m = Lost \/ (toServer # <<>> /\ m = Head(toServer))
      /\ m.type # "GAME_JOIN" /\ Holds(toServer, "GAME_JOIN")
            => Holds(toServer', "GAME_JOIN")
      /\ Holds(toServer', "GAME_JOIN") => Holds(toServer, "GAME_JOIN")
  BY <1>1, Consumes DEF BaseInv
<1>4. Talking /\ blocked = "join_ack" /\ toClient' = <<>> =>
         Holds(toServer', "GAME_JOIN")
  <2> SUFFICES ASSUME Talking, blocked = "join_ack", toClient' = <<>>
               PROVE  Holds(toServer', "GAME_JOIN")
    OBVIOUS
  <2>1. m = Lost \/ m = Ack
    BY <1>1, <1>3 DEF StreamInv, GreetingInv
  <2>2. m.type # "GAME_JOIN"
    BY <2>1 DEF Lost, Plain, Ack
  <2>3. Holds(toServer, "GAME_JOIN")
    BY <1>1 DEF StreamInv, RequestInv
  <2> QED
    BY <1>3, <2>2, <2>3
<1>5. Talking /\ Holds(toServer', "GAME_JOIN") => toClient' = <<>>
  BY <1>1, <1>3 DEF StreamInv, RequestInv
<1>6. pc' \in EarlyPcs /\ pc' \in ErrorPcs
  BY <1>1 DEF EarlyPcs, ErrorPcs
<1> QED
  BY <1>1, <1>2, <1>3, <1>4, <1>5, <1>6, ThreadStream

LEMMA HandleConnectStream ==
    ASSUME BaseInv, StreamInv, NEW m \in Received, HandleConnect(m)
    PROVE  StreamInv'
<1>1. /\ pc = "connect" /\ Consume(m) /\ KeepClient
      /\ UNCHANGED <<net, blocked, purpose, link, Talking>>
  BY DEF HandleConnect, KeepClient, clientVars, Talking
<1>2. /\ \/ m = Lost /\ m.type = "none" /\ toServer' = toServer
         \/ /\ toServer # <<>> /\ m = Head(toServer) /\ m \in Messages
            /\ toServer' = Tail(toServer)
      /\ link \in {"open", "gone"}
  BY <1>1, Receives DEF BaseInv, TypeOK, LinkInv, Links
<1>3. CASE ~ Talking
  <2>1. ~ Talking'
    BY <1>1, <1>3
  <2>2. link = "gone"
    BY <1>1, <1>2, <1>3
       DEF StreamInv, ErrorInv, Talking, MatchPcs, AckPcs, EndPcs
  <2> QED
    BY <1>1, <2>2, GoneStream
<1>4. CASE Talking
  <2>1. /\ blocked = "connect_ack" /\ toServer = <<Plain("CONNECT")>>
        /\ toClient = <<>>
    BY <1>1, <1>4, StreamFacts DEF StreamInv, GreetingInv
  <2>2. PICK b \in Stages : LeadsTo(b)
    BY <1>4, StreamFacts
  <2>3. b = Connecting
    BY <1>1, <1>4, <2>2, ReachedAt DEF LeadsTo, Talking
  <2>4. CASE m = Lost
    <3>1. toServer' = toServer /\ pc' = "join" /\ toClient' = toClient
      BY <1>2, <2>1, <2>4, MessageFields DEF HandleConnect, Lost, Plain
    <3>2. ToClientInv'
      <4>1. b \in Reached(pc', purpose')
        BY <2>3, <3>1, ReachedAt
      <4> QED
        BY <1>1, <2>2, <2>3, <3>1, <4>1, ThreadSends
    <3>3. GreetingInv'
      BY <1>1, <2>1, <3>1 DEF GreetingInv, EarlyPcs
    <3>4. RequestInv'
      BY <1>1, <1>4, <2>1, <3>1 DEF RequestInv, StreamInv
    <3>5. ErrorInv'
      BY <1>1, <1>4 DEF ErrorInv, Talking
    <3> QED
      BY <3>2, <3>3, <3>4, <3>5 DEF StreamInv
  <2>5. CASE m # Lost
    <3>1. m.type = "CONNECT" /\ toServer' = <<>>
      BY <1>2, <2>1, <2>5 DEF Plain
    <3>2. /\ pc' = "info_ack"
          /\ toClient' = toClient \o <<Ack, Plain("PLAYER_INFO")>>
      BY <1>4, <3>1 DEF HandleConnect, Tell, Talking
    <3>3. ToClientInv'
      <4>1. /\ Ack \in Messages /\ Plain("PLAYER_INFO") \in Messages
            /\ Leads(purpose, b, Ack, Introduced)
            /\ Leads(purpose, Introduced, Plain("PLAYER_INFO"),
                     Greeted(purpose))
        BY <2>3, Sent DEF Leads, Plain
      <4>2. /\ Introduced \in Stages /\ Greeted(purpose) \in Stages
            /\ Greeted(purpose) \in Reached(pc', purpose')
        BY <1>1, <3>2, ReachedAt DEF Stages, Introduced, Greeted, Joining, Idle
      <4> QED
        BY <1>1, <2>2, <3>2, <4>1, <4>2, ThreadSends
    <3>4. toClient' # <<>>
      BY <2>1, <3>2
    <3>5. GreetingInv'
      BY <1>1, <2>1, <3>1, <3>2 DEF GreetingInv, EarlyPcs
    <3>6. RequestInv'
      BY <1>1, <2>1, <3>1, HoldsEmpty DEF RequestInv
    <3>7. ErrorInv'
      BY <1>1, <1>4 DEF ErrorInv, Talking
    <3> QED
      BY <3>3, <3>5, <3>6, <3>7 DEF StreamInv
  <2> QED
    BY <2>4, <2>5
<1> QED
  BY <1>3, <1>4

LEMMA CloseConnectionStream ==
    ASSUME BaseInv, StreamInv, CloseConnection PROVE StreamInv'
<1>1. /\ UNCHANGED <<net, blocked, purpose, toClient>> /\ link' # "open"
      /\ link' # "gone" => link # "gone"
  BY DEF CloseConnection, clientVars
<1>2. Stage' = Stage
  BY <1>1 DEF Stage
<1>3. ToClientInv'
  <2> SUFFICES ASSUME link' # "gone", net' # "ERROR" PROVE ToClientInv'
    BY DEF ToClientInv
  <2>1. PICK b \in Stages : LeadsTo(b)
    BY <1>1 DEF StreamInv, ToClientInv
  <2>2. LeadsTo(b)'
    BY <1>1, <1>2, <2>1 DEF LeadsTo
  <2> QED
    BY <2>2 DEF ToClientInv
<1> QED
  BY <1>1, <1>3
     DEF StreamInv, GreetingInv, RequestInv, ErrorInv, Talking

LEMMA KeepStream ==
    ASSUME StreamInv, UNCHANGED <<clientVars, linkVars, threadVars>>
    PROVE  StreamInv'
<1>1. UNCHANGED <<net, blocked, purpose, link, toClient, toServer, pc>>
  BY DEF clientVars, linkVars, threadVars
<1>2. UNCHANGED <<Stage, Talking>>
  BY <1>1 DEF Stage, Talking
<1>3. \A b : LeadsTo(b)' <=> LeadsTo(b)
  BY <1>1, <1>2 DEF LeadsTo
<1>4. ToClientInv'
  BY <1>1, <1>3 DEF StreamInv, ToClientInv
<1>5. GreetingInv' /\ RequestInv' /\ ErrorInv'
  BY <1>1, <1>2 DEF StreamInv, GreetingInv, RequestInv, ErrorInv
<1> QED
  BY <1>4, <1>5 DEF StreamInv

LEMMA StreamInit == Init => StreamInv
  BY DEF Init, StreamInv, ToClientInv, GreetingInv, RequestInv, ErrorInv,
         Talking

LEMMA StreamNext == BaseInv /\ StreamInv /\ [Next]_vars => StreamInv'
<1> SUFFICES ASSUME BaseInv, StreamInv, [Next]_vars PROVE StreamInv'
  OBVIOUS
<1>1. CASE ClientStep
  BY <1>1, ConnectStream, LeavingStream, TakeConnectAckStream,
     TakePlayerInfoStream, JoinGameStream, TakeJoinAckStream,
     TakeGameWaitStream, TakeGameStartStream, TakeAckStream,
     TakeGameStateStream, TakePlayStream, TakeGameEndStream,
     TakeProfileStream, PollFailsStream, SendMoveStream, SendShopActionStream
     DEF ClientStep
<1>2. CASE ThreadStep
  BY <1>2, HandleConnectStream, HandleInfoAckStream, HandleGameJoinStream,
     ShopActionServedStream, ShopActionRefusedStream, HandleOtherStream,
     HandleShopAckStream, KeepAliveStream, HandleAckStream, LegalMoveStream,
     IllegalMoveStream, FailInPlayStream, HandleUpdateAckStream,
     HandleEndAckStream, AcquireSlotStream, SeeBothPlayersStream,
     SendGameWaitStream, StartMatchStream, SeeGameOverStream, TakeTurnStream,
     SendResultStream, HandleDisconnectWinStream, ReleaseSlotStream,
     CloseConnectionStream
     DEF ThreadStep, ThreadReceives
<1>3. CASE OthersStep
  BY <1>3, KeepStream
     DEF OthersStep, OtherJoins, OtherStarts, OtherMoves, OtherForfeits,
         OtherLeaves, KeepSession
<1>4. CASE UNCHANGED vars
  BY <1>4, KeepStream DEF vars
<1> QED
  BY <1>1, <1>2, <1>3, <1>4 DEF Next

\* Every message that the server sends is one that the client has a case for
\* in the state in which it takes it: none of them falls into the default
\* branch of WaitForGame or ProcessMessages, which would drop it without the
\* ACK that the thread waits 60 s for.
THEOREM NothingIsDropped == Spec => []NothingDropped
<1>1. BaseInv /\ StreamInv => NothingDropped
  <2> SUFFICES ASSUME BaseInv, StreamInv, blocked = "no", toClient # <<>>,
                      net \in {"IN_LOBBY", "IN_GAME", "CONNECTED"}
               PROVE  \E c \in Stages :
                         Leads(purpose, Stage, Head(toClient), c)
    <3>1. ASSUME BaseInv, StreamInv, blocked = "no", toClient # <<>>,
                 net = "IN_LOBBY",
                 NEW c \in Stages, Leads(purpose, Stage, Head(toClient), c)
          PROVE  Head(toClient).type \in {"GAME_WAIT", "GAME_START"}
      BY <3>1 DEF Leads, Stage, Connecting, Introduced, Joining, Queueing,
                  InMatch, Idle
    <3>2. ASSUME BaseInv, StreamInv, blocked = "no", toClient # <<>>,
                 net = "IN_GAME",
                 NEW c \in Stages, Leads(purpose, Stage, Head(toClient), c)
          PROVE  Head(toClient).type \notin {"GAME_WAIT", "GAME_START"}
      BY <3>2 DEF Leads, Stage, Connecting, Introduced, Joining, Queueing,
                  InMatch, Idle, Ack, InMatchTypes
    <3>3. ASSUME BaseInv, StreamInv, blocked = "no", toClient # <<>>,
                 net = "CONNECTED",
                 NEW c \in Stages, Leads(purpose, Stage, Head(toClient), c)
          PROVE  Head(toClient).type \in {"GENERAL_ACK", "PLAYER_INFO"}
      BY <3>3 DEF Leads, Stage, Connecting, Introduced, Joining, Queueing,
                  InMatch, Idle
    <3> QED
      BY <3>1, <3>2, <3>3 DEF NothingDropped
  <2>1. PICK b \in Stages : LeadsTo(b)
    BY DEF BaseInv, LinkInv, StreamInv, ToClientInv
  <2> QED
    BY <2>1, PathTail DEF LeadsTo, BaseInv, TypeOK
<1> QED
  BY BaseInit, BaseNext, StreamInit, StreamNext, <1>1, PTL DEF Spec

(***************************************************************************)
(* Third part: the answers that each side waits for.  An acknowledgement   *)
(* of the client is not the answer to a particular message, so all that    *)
(* can be said is that one is under way, or a message that will be         *)
(* acknowledged.                                                           *)
(***************************************************************************)
AwaitingPcs == {"info_ack", "shop_ack"} \cup AckPcs \cup EndPcs

ToAcknowledge(s) == s # <<>> /\ s[Len(s)].type # "GENERAL_ACK"

AwaitedInv ==
    Talking /\ pc \in AwaitingPcs => toServer # <<>> \/ ToAcknowledge(toClient)

\* A GENERAL_ACK that the client receives in the match answers its move.
InPlay == AckPcs \cup {"turn", "move", "forfeit"}

AnswerInv ==
    Talking /\ pc \in InPlay =>
    /\ Holds(toServer, "MOVE") => net = "IN_GAME" /\ waiting_for_ack
    /\ Once(toServer, "MOVE")
    /\ Holds(toClient, "GENERAL_ACK") =>
          \/ blocked = "join_ack"
          \/ net = "IN_GAME" /\ waiting_for_ack /\ ~ Holds(toServer, "MOVE")
    /\ Once(toClient, "GENERAL_ACK")
    /\ net = "IN_GAME" /\ waiting_for_ack /\ pc # "forfeit" =>
          \/ Holds(toServer, "MOVE")
          \/ Holds(toClient, "GENERAL_ACK")
          \/ Holds(toClient, "ILLEGAL_PLAY")

\* The turn that s gives is not taken away by the rest of s.
Prompted(s) ==
    \E i \in 1 .. Len(s) :
        /\ s[i].type = "PLAY"
        /\ \A j \in i + 1 .. Len(s) : s[j].type # "GENERAL_ACK"

\* Board b is what a client has on the screen when it takes the i-th message
\* of s: it comes with one before, or is the board v that it has.
ShowsBefore(s, i, has, v, b) ==
    \/ \E j \in 1 .. i - 1 :
          /\ s[j].type = "GAME_STATE" /\ s[j].board = b
          /\ \A k \in j + 1 .. i - 1 : s[k].type # "GAME_STATE"
    \/ /\ has /\ v = b
       /\ \A k \in 1 .. i - 1 : s[k].type # "GAME_STATE"

Shows(s, has, v, b) == ShowsBefore(s, Len(s) + 1, has, v, b)

PromptInv ==
    Talking =>
    /\ pc \in {"play_ack", "move"} =>
          \/ Holds(toClient, "ILLEGAL_PLAY")
          \/ Prompted(toClient)
          \/ InGame /\ is_our_turn /\ ~ Holds(toClient, "GENERAL_ACK")
    /\ pc = "illegal_ack" => Holds(toClient, "ILLEGAL_PLAY")
    /\ pc \in {"turn_ack", "play_ack", "move"} =>
          \/ Holds(toClient, "ILLEGAL_PLAY")
          \/ \E b \in Boards :
                ~ IsFinished(b) /\ Shows(toClient, InGame, view, b)

PlayInv == AwaitedInv /\ AnswerInv /\ PromptInv

LEMMA TailElements ==
    ASSUME NEW s \in Seq(Messages), s # <<>>
    PROVE  /\ Len(s) \in Nat \ {0} /\ Len(Tail(s)) = Len(s) - 1
           /\ Head(s) = s[1]
           /\ \A i \in 1 .. Len(s) - 1 : Tail(s)[i] = s[i + 1]
  OBVIOUS

LEMMA AppendElements ==
    ASSUME NEW s \in Seq(Messages), NEW m \in Messages
    PROVE  /\ Len(s) \in Nat /\ Len(Append(s, m)) = Len(s) + 1
           /\ Append(s, m)[Len(s) + 1] = m
           /\ \A i \in 1 .. Len(s) : Append(s, m)[i] = s[i]
  OBVIOUS

LEMMA ToAcknowledgeTail ==
    ASSUME NEW s \in Seq(Messages), ToAcknowledge(s)
    PROVE  Head(s).type # "GENERAL_ACK" \/ ToAcknowledge(Tail(s))
<1>1. s # <<>> /\ s[Len(s)].type # "GENERAL_ACK"
  BY DEF ToAcknowledge
<1>2. Len(s) \in Nat \ {0} /\ Len(Tail(s)) = Len(s) - 1 /\ Head(s) = s[1]
  BY <1>1, TailElements
<1>3. CASE Len(s) = 1
  BY <1>1, <1>2, <1>3
<1>4. CASE Len(s) > 1
  <2>1. /\ Len(s) - 1 \in 1 .. Len(s) - 1 /\ (Len(s) - 1) + 1 = Len(s)
        /\ Len(Tail(s)) # 0
    BY <1>2, <1>4
  <2>2. Tail(s)[Len(s) - 1] = s[Len(s)]
    BY <1>1, <2>1, TailElements
  <2>3. Tail(s)[Len(Tail(s))] = s[Len(s)]
    BY <1>2, <2>2
  <2>4. Tail(s) # <<>>
    <3>1. Len(<<>>) = 0
      OBVIOUS
    <3> QED
      BY <2>1, <3>1, Zenon
  <2> QED
    BY <1>1, <2>3, <2>4 DEF ToAcknowledge
<1> QED
  BY <1>2, <1>3, <1>4

LEMMA ToAcknowledgeAppend ==
    ASSUME NEW s \in Seq(Messages), NEW m \in Messages,
           m.type # "GENERAL_ACK"
    PROVE  ToAcknowledge(Append(s, m))
  BY AppendElements DEF ToAcknowledge

LEMMA PromptedTail ==
    ASSUME NEW s \in Seq(Messages), s # <<>>
    PROVE  /\ Prompted(s) => \/ Prompted(Tail(s))
                             \/ /\ Head(s).type = "PLAY"
                                /\ ~ Holds(Tail(s), "GENERAL_ACK")
           /\ Prompted(Tail(s)) => Prompted(s)
<1>1. ASSUME NEW i \in 1 .. Len(s), s[i].type = "PLAY",
             \A j \in i + 1 .. Len(s) : s[j].type # "GENERAL_ACK"
      PROVE  \/ Prompted(Tail(s))
             \/ Head(s).type = "PLAY" /\ ~ Holds(Tail(s), "GENERAL_ACK")
  <2>1. CASE i = 1
    BY <1>1, <2>1, TailElements DEF Holds
  <2>2. CASE i # 1
    <3>1. /\ i - 1 \in 1 .. Len(Tail(s)) /\ Tail(s)[i - 1].type = "PLAY"
          /\ \A j \in (i - 1) + 1 .. Len(Tail(s)) :
                Tail(s)[j].type # "GENERAL_ACK"
      BY <1>1, <2>2, TailElements
    <3> QED
      BY <3>1 DEF Prompted
  <2> QED
    BY <2>1, <2>2
<1>2. ASSUME NEW i \in 1 .. Len(Tail(s)), Tail(s)[i].type = "PLAY",
             \A j \in i + 1 .. Len(Tail(s)) : Tail(s)[j].type # "GENERAL_ACK"
      PROVE  Prompted(s)
  <2>1. /\ i + 1 \in 1 .. Len(s) /\ s[i + 1].type = "PLAY"
        /\ \A j \in (i + 1) + 1 .. Len(s) :
              j - 1 \in i + 1 .. Len(Tail(s)) /\ s[j] = Tail(s)[j - 1]
    BY <1>2, TailElements
  <2>2. \A j \in (i + 1) + 1 .. Len(s) : s[j].type # "GENERAL_ACK"
    BY <1>2, <2>1
  <2> QED
    BY <2>1, <2>2 DEF Prompted
<1> QED
  BY <1>1, <1>2 DEF Prompted

LEMMA PromptedAppend ==
    ASSUME NEW s \in Seq(Messages), NEW m \in Messages
    PROVE  /\ m.type = "PLAY" => Prompted(Append(s, m))
           /\ Prompted(s) /\ m.type # "GENERAL_ACK" => Prompted(Append(s, m))
           /\ m.type = "GENERAL_ACK" => ~ Prompted(Append(s, m))
           /\ Prompted(Append(s, m)) => Prompted(s) \/ m.type = "PLAY"
<1> DEFINE t == Append(s, m)
<1>1. /\ Len(s) \in Nat /\ Len(t) = Len(s) + 1 /\ t[Len(s) + 1] = m
      /\ \A i \in 1 .. Len(s) : t[i] = s[i]
  BY AppendElements
<1> HIDE DEF t
<1>2. m.type = "PLAY" => Prompted(t)
  BY <1>1 DEF Prompted
<1>3. Prompted(s) /\ m.type # "GENERAL_ACK" => Prompted(t)
  BY <1>1 DEF Prompted
<1>4. m.type = "GENERAL_ACK" => ~ Prompted(t)
  BY <1>1 DEF Prompted
<1>5. Prompted(t) => Prompted(s) \/ m.type = "PLAY"
  BY <1>1 DEF Prompted
<1> QED
  BY <1>2, <1>3, <1>4, <1>5 DEF t

\* The client takes the head of s: its board v becomes w.
LEMMA ShowsTail ==
    ASSUME NEW s \in Seq(Messages), s # <<>>, NEW i \in 2 .. Len(s) + 1,
           NEW has, NEW has2, NEW v, NEW w, NEW b,
           ShowsBefore(s, i, has, v, b),
           IF Head(s).type = "GAME_STATE" THEN has2 /\ w = Head(s).board
                                          ELSE has => has2 /\ w = v
    PROVE  ShowsBefore(Tail(s), i - 1, has2, w, b)
<1> DEFINE t == Tail(s)
<1>1. /\ Len(s) \in Nat \ {0} /\ Len(t) = Len(s) - 1 /\ Head(s) = s[1]
      /\ \A k \in 1 .. Len(s) - 1 : t[k] = s[k + 1]
  BY TailElements
<1> HIDE DEF t
<1>2. ASSUME NEW j \in 1 .. i - 1, s[j].type = "GAME_STATE", s[j].board = b,
             \A k \in j + 1 .. i - 1 : s[k].type # "GAME_STATE"
      PROVE  ShowsBefore(t, i - 1, has2, w, b)
  <2>1. CASE j = 1
    <3>1. has2 /\ w = b
      BY <1>1, <1>2, <2>1
    <3>2. \A k \in 1 .. (i - 1) - 1 : t[k].type # "GAME_STATE"
      BY <1>1, <1>2, <2>1
    <3> QED
      BY <3>1, <3>2 DEF ShowsBefore
  <2>2. CASE j # 1
    <3>1. j - 1 \in 1 .. (i - 1) - 1 /\ t[j - 1] = s[j]
      BY <1>1, <2>2
    <3>2. ASSUME NEW k \in (j - 1) + 1 .. (i - 1) - 1
          PROVE  t[k].type # "GAME_STATE"
      <4>1. k + 1 \in j + 1 .. i - 1 /\ t[k] = s[k + 1]
        BY <1>1, <2>2
      <4> QED
        BY <1>2, <4>1
    <3> QED
      BY <1>2, <3>1, <3>2 DEF ShowsBefore
  <2> QED
    BY <2>1, <2>2
<1>3. ASSUME has, v = b, \A k \in 1 .. i - 1 : s[k].type # "GAME_STATE"
      PROVE  ShowsBefore(t, i - 1, has2, w, b)
  <2>1. has2 /\ w = b
    BY <1>1, <1>3
  <2>2. \A k \in 1 .. (i - 1) - 1 : t[k].type # "GAME_STATE"
    BY <1>1, <1>3
  <2> QED
    BY <2>1, <2>2 DEF ShowsBefore
<1> QED
  BY <1>2, <1>3 DEF ShowsBefore, t

LEMMA ShowsLess ==
    ASSUME NEW s \in Seq(Messages), NEW m \in Messages,
           NEW i \in 1 .. Len(s) + 1, NEW has, NEW v, NEW b
    PROVE  ShowsBefore(Append(s, m), i, has, v, b)
              <=> ShowsBefore(s, i, has, v, b)
<1>1. \A k \in 1 .. i - 1 : Append(s, m)[k] = s[k]
  BY AppendElements
<1> QED
  BY <1>1 DEF ShowsBefore

LEMMA ShowsAppend ==
    ASSUME NEW s \in Seq(Messages), NEW m \in Messages, NEW has, NEW v, NEW b
    PROVE  /\ Shows(s, has, v, b) /\ m.type # "GAME_STATE"
                 => Shows(Append(s, m), has, v, b)
           /\ m.type = "GAME_STATE" /\ m.board = b
                 => Shows(Append(s, m), has, v, b)
<1> DEFINE t == Append(s, m)
<1>1. /\ Len(s) \in Nat /\ Len(t) = Len(s) + 1 /\ t[Len(s) + 1] = m
      /\ \A i \in 1 .. Len(s) : t[i] = s[i]
  BY AppendElements
<1> HIDE DEF t
<1>2. ASSUME m.type # "GAME_STATE",
             NEW j \in 1 .. Len(s), s[j].type = "GAME_STATE", s[j].board = b,
             \A k \in j + 1 .. Len(s) : s[k].type # "GAME_STATE"
      PROVE  Shows(t, has, v, b)
  <2>1. /\ j \in 1 .. (Len(t) + 1) - 1
        /\ t[j].type = "GAME_STATE" /\ t[j].board = b
        /\ \A k \in j + 1 .. (Len(t) + 1) - 1 : t[k].type # "GAME_STATE"
    BY <1>1, <1>2
  <2> QED
    BY <2>1 DEF Shows, ShowsBefore
<1>3. ASSUME m.type # "GAME_STATE", has, v = b,
             \A k \in 1 .. Len(s) : s[k].type # "GAME_STATE"
      PROVE  Shows(t, has, v, b)
  <2>1. \A k \in 1 .. (Len(t) + 1) - 1 : t[k].type # "GAME_STATE"
    BY <1>1, <1>3
  <2> QED
    BY <1>3, <2>1 DEF Shows, ShowsBefore
<1>4. Shows(s, has, v, b) /\ m.type # "GAME_STATE" => Shows(t, has, v, b)
  <2>1. (Len(s) + 1) - 1 = Len(s)
    BY <1>1
  <2> QED
    BY <1>2, <1>3, <2>1 DEF Shows, ShowsBefore
<1>5. m.type = "GAME_STATE" /\ m.board = b => Shows(t, has, v, b)
  <2>1. /\ Len(t) \in 1 .. (Len(t) + 1) - 1 /\ t[Len(t)] = m
        /\ Len(t) + 1 .. (Len(t) + 1) - 1 = {}
    BY <1>1
  <2> QED
    BY <2>1 DEF Shows, ShowsBefore
<1> QED
  BY <1>4, <1>5 DEF t

LEMMA PathToQueueing ==
    ASSUME NEW p, NEW s \in Seq(Messages), NEW a \in {Joining, Queueing},
           Path(p, s, a, Queueing)
    PROVE  /\ Once(s, "GENERAL_ACK")
           /\ Holds(s, "GENERAL_ACK") => a = Joining
           /\ \A i \in 1 .. Len(s) : s[i].type \in {"GENERAL_ACK", "GAME_WAIT"}
<1> USE DEF Stages, Connecting, Introduced, Joining, Queueing, InMatch, Idle
<1>1. PICK r \in [1 .. Len(s) + 1 -> Stages] :
          /\ r[1] = a /\ r[Len(s) + 1] = Queueing
          /\ \A i \in 1 .. Len(s) : Leads(p, r[i], s[i], r[i + 1])
          /\ \A i, j \in 1 .. Len(s) + 1 : i <= j => r[i] <= r[j]
  BY DEF Path
<1>2. Len(s) \in Nat
  OBVIOUS
<1>3. \A i \in 1 .. Len(s) + 1 : r[i] \in {Joining, Queueing}
  <2>1. ASSUME NEW i \in 1 .. Len(s) + 1 PROVE a <= r[i] /\ r[i] <= Queueing
    BY <1>1, <1>2
  <2> QED
    BY <1>1, <1>2, <2>1
<1>4. ASSUME NEW i \in 1 .. Len(s)
      PROVE  \/ /\ s[i].type = "GENERAL_ACK"
                /\ r[i] = Joining /\ r[i + 1] = Queueing
             \/ s[i].type = "GAME_WAIT" /\ r[i] = Queueing
  <2>1. Leads(p, r[i], s[i], r[i + 1]) /\ r[i] \in {Joining, Queueing}
        /\ r[i + 1] \in {Joining, Queueing}
    BY <1>1, <1>2, <1>3
  <2> QED
    BY <2>1 DEF Leads, Ack
<1>5. ASSUME NEW i \in 1 .. Len(s), s[i].type = "GENERAL_ACK"
      PROVE  i = 1 /\ a = Joining
  <2>1. r[i] = Joining
    BY <1>4, <1>5
  <2>2. CASE i = 1
    BY <1>1, <2>1, <2>2
  <2>3. CASE i # 1
    <3>1. i - 1 \in 1 .. Len(s) /\ (i - 1) + 1 = i
      BY <1>2, <2>3
    <3>2. r[i - 1] = Joining => r[i] = Queueing
      BY <1>4, <3>1
    <3>3. r[i - 1] <= r[i]
      BY <1>1, <1>2, <3>1
    <3>4. r[i - 1] \in {Joining, Queueing}
      BY <1>2, <1>3, <3>1
    <3> QED
      BY <2>1, <3>2, <3>3, <3>4
  <2> QED
    BY <2>2, <2>3
<1>6. \A i \in 1 .. Len(s) : s[i].type \in {"GENERAL_ACK", "GAME_WAIT"}
  BY <1>4
<1>7. Once(s, "GENERAL_ACK") /\ (Holds(s, "GENERAL_ACK") => a = Joining)
  BY <1>5 DEF Once, Holds
<1> QED
  BY <1>6, <1>7

LEMMA PathFromMatch ==
    ASSUME NEW p, NEW s \in Seq(Messages), NEW b, Path(p, s, InMatch, b)
    PROVE  ~ Holds(s, "GAME_START")
<1> USE DEF Stages, Connecting, Introduced, Joining, Queueing, InMatch, Idle
<1>1. PICK r \in [1 .. Len(s) + 1 -> Stages] :
          /\ r[1] = InMatch
          /\ \A i \in 1 .. Len(s) : Leads(p, r[i], s[i], r[i + 1])
          /\ \A i, j \in 1 .. Len(s) + 1 : i <= j => r[i] <= r[j]
  BY DEF Path
<1>2. ASSUME NEW i \in 1 .. Len(s) PROVE s[i].type # "GAME_START"
  <2>1. r[i] \in Stages /\ InMatch <= r[i] /\ Leads(p, r[i], s[i], r[i + 1])
    BY <1>1
  <2> QED
    BY <2>1 DEF Leads, Ack, InMatchTypes
<1> QED
  BY <1>2 DEF Holds

LEMMA ToAcknowledgeLast ==
    ASSUME NEW s \in Seq(Messages), NEW m \in Messages, m.type # "GENERAL_ACK"
    PROVE  /\ ToAcknowledge(s \o <<m>>)
           /\ \A n \in Messages : ToAcknowledge(s \o <<n, m>>)
<1>1. s \o <<m>> = Append(s, m)
  OBVIOUS
<1>2. ASSUME NEW n \in Messages PROVE ToAcknowledge(s \o <<n, m>>)
  <2>1. /\ s \o <<n, m>> = Append(Append(s, n), m)
        /\ Append(s, n) \in Seq(Messages)
    OBVIOUS
  <2> QED
    BY <2>1, ToAcknowledgeAppend
<1> QED
  BY <1>1, <1>2, ToAcknowledgeAppend

\* The client while the thread plays.
LEMMA PlayFacts ==
    ASSUME BaseInv, StreamInv, Talking, pc \in MatchPcs \ {"end_ack"}
    PROVE  /\ \/ blocked = "join_ack" /\ net = "CONNECTED"
              \/ blocked = "no" /\ net \in {"IN_LOBBY", "IN_GAME"}
           /\ blocked = "join_ack" => toClient # <<>> /\ Head(toClient) = Ack
           /\ net = "IN_LOBBY" =>
                 /\ toClient # <<>>
                 /\ Head(toClient).type \in {"GAME_WAIT", "GAME_START"}
           /\ net = "IN_GAME" /\ toClient # <<>> =>
                 Head(toClient) = Ack \/ Head(toClient).type \in InMatchTypes
<1> USE DEF Stages, Connecting, Introduced, Joining, Queueing, InMatch, Idle
<1>1. PICK b \in Stages : LeadsTo(b)
  BY StreamFacts
<1>2. b = InMatch
  BY <1>1, ReachedAt DEF LeadsTo, Talking
<1>3. toClient \in Seq(Messages) /\ Path(purpose, toClient, Stage, InMatch)
  BY <1>1, <1>2 DEF LeadsTo, BaseInv, TypeOK
<1>4. Stage \in Stages /\ Stage <= InMatch
  BY <1>3, PathEnds
<1>5. blocked \in {"no", "join_ack"}
  <2>1. pc \in LatePcs
    BY DEF LatePcs
  <2> QED
    BY <2>1, LateFacts DEF Early, BlockedIn, BaseInv, TypeOK
<1>6. blocked = "join_ack" => net = "CONNECTED" /\ Stage = Joining
  BY DEF Stage, BaseInv, ClientInv
<1>7. blocked = "no" => net \in {"IN_LOBBY", "IN_GAME"}
  BY <1>4 DEF Stage
<1>8. ASSUME toClient # <<>>
      PROVE  \E c \in Stages : /\ Leads(purpose, Stage, Head(toClient), c)
                               /\ Path(purpose, Tail(toClient), c, InMatch)
  BY <1>3, <1>8, PathTail
<1>9. ASSUME toClient # <<>>
      PROVE  \E c \in Stages : /\ Leads(purpose, Stage, Head(toClient), c)
                               /\ c <= InMatch
  <2>1. PICK c \in Stages : /\ Leads(purpose, Stage, Head(toClient), c)
                            /\ Path(purpose, Tail(toClient), c, InMatch)
    BY <1>8, <1>9
  <2>2. Tail(toClient) \in Seq(Messages)
    BY <1>3, <1>9
  <2>3. c <= InMatch
    BY <2>1, <2>2, PathEnds
  <2> QED
    BY <2>1, <2>3
<1>10. ASSUME toClient = <<>> PROVE Stage = InMatch
  <2>1. Path(purpose, <<>>, Stage, InMatch)
    BY <1>3, <1>10
  <2> QED
    BY <1>4, <2>1, PathEmpty
<1>11. blocked = "join_ack" => toClient # <<>> /\ Head(toClient) = Ack
  BY <1>6, <1>9, <1>10 DEF Leads
<1>12. ASSUME net = "IN_LOBBY"
       PROVE  /\ toClient # <<>>
              /\ Head(toClient).type \in {"GAME_WAIT", "GAME_START"}
  <2>1. Stage = Queueing
    BY <1>5, <1>6, <1>12 DEF Stage
  <2> QED
    BY <1>9, <1>10, <2>1 DEF Leads
<1>13. ASSUME net = "IN_GAME", toClient # <<>>
       PROVE  Head(toClient) = Ack \/ Head(toClient).type \in InMatchTypes
  <2>1. Stage = InMatch
    BY <1>5, <1>6, <1>13 DEF Stage
  <2> QED
    BY <1>9, <1>13, <2>1 DEF Leads
<1>14. \/ blocked = "join_ack" /\ net = "CONNECTED"
       \/ blocked = "no" /\ net \in {"IN_LOBBY", "IN_GAME"}
  BY <1>5, <1>6, <1>7
<1> QED
  BY <1>11, <1>12, <1>13, <1>14

LEMMA InPlayPcs ==
    /\ InPlay \subseteq MatchPcs \ {"end_ack"}
    /\ {"turn_ack", "play_ack", "illegal_ack", "move"} \subseteq InPlay
  BY DEF InPlay, MatchPcs, AckPcs, EndPcs

\* Where nothing is awaited, or nobody is there to answer.
LEMMA ElsewherePlay ==
    ASSUME Talking' => pc' \notin AwaitingPcs \cup InPlay
    PROVE  PlayInv'
  BY InPlayPcs DEF PlayInv, AwaitedInv, AnswerInv, PromptInv

\* A step of the client.
LEMMA ClientPlay ==
    ASSUME BaseInv, PlayInv, pc' = pc, Talking' => Talking,
           Talking' /\ toServer # <<>> => toServer' # <<>>,
           Talking' =>
              \/ toClient' = toClient
              \/ /\ toClient # <<>> /\ toClient' = Tail(toClient)
                 /\ toServer' # <<>> \/ Head(toClient).type = "GENERAL_ACK",
           Talking' /\ pc \in InPlay => AnswerInv' /\ PromptInv'
    PROVE  PlayInv'
<1>1. AwaitedInv'
  <2> SUFFICES ASSUME Talking', pc \in AwaitingPcs
               PROVE  toServer' # <<>> \/ ToAcknowledge(toClient')
    BY DEF AwaitedInv, ToAcknowledge
  <2>1. toServer # <<>> \/ ToAcknowledge(toClient)
    BY DEF PlayInv, AwaitedInv
  <2>2. toClient \in Seq(Messages)
    BY DEF BaseInv, TypeOK
  <2> QED
    BY <2>1, <2>2, ToAcknowledgeTail
<1>2. AnswerInv'
  BY DEF AnswerInv
<1>3. PromptInv'
  BY InPlayPcs DEF PromptInv
<1> QED
  BY <1>1, <1>2, <1>3 DEF PlayInv

LEMMA PromptTakes ==
    ASSUME BaseInv, PromptInv, Talking, pc' = pc,
           toClient # <<>>, toClient' = Tail(toClient),
           Head(toClient).type # "ILLEGAL_PLAY",
           IF Head(toClient).type = "GAME_STATE"
           THEN InGame' /\ view' = Head(toClient).board
           ELSE InGame => InGame' /\ view' = view,
           Head(toClient).type = "PLAY" => InGame' /\ is_our_turn',
           InGame /\ is_our_turn /\ Head(toClient).type # "GENERAL_ACK"
              => InGame' /\ is_our_turn'
    PROVE  PromptInv'
<1>1. toClient \in Seq(Messages)
  BY DEF BaseInv, TypeOK
<1>2. \A t : Holds(toClient, t) <=>
                Head(toClient).type = t \/ Holds(toClient', t)
  BY <1>1, HoldsTail
<1>3. ASSUME pc \in {"play_ack", "move"}
      PROVE  \/ Holds(toClient', "ILLEGAL_PLAY")
             \/ Prompted(toClient')
             \/ InGame' /\ is_our_turn' /\ ~ Holds(toClient', "GENERAL_ACK")
  <2>1. CASE Prompted(toClient)
    BY <1>1, <2>1, PromptedTail
  <2>2. CASE Holds(toClient, "ILLEGAL_PLAY")
    BY <1>2, <2>2
  <2>3. CASE InGame /\ is_our_turn /\ ~ Holds(toClient, "GENERAL_ACK")
    BY <1>2, <2>3
  <2> QED
    BY <1>3, <2>1, <2>2, <2>3 DEF PromptInv
<1>4. pc = "illegal_ack" => Holds(toClient', "ILLEGAL_PLAY")
  BY <1>2 DEF PromptInv
<1>5. ASSUME NEW b \in Boards, Shows(toClient, InGame, view, b)
      PROVE  Shows(toClient', InGame', view', b)
  <2>1. /\ Len(toClient) \in Nat \ {0}
        /\ Len(toClient') = Len(toClient) - 1
    BY <1>1, TailElements
  <2>2. Len(toClient) + 1 \in 2 .. Len(toClient) + 1
    BY <2>1
  <2>3. ShowsBefore(toClient', (Len(toClient) + 1) - 1, InGame', view', b)
    BY <1>1, <1>5, <2>2, ShowsTail DEF Shows
  <2>4. (Len(toClient) + 1) - 1 = Len(toClient') + 1
    BY <2>1
  <2> QED
    BY <2>3, <2>4 DEF Shows
<1>6. pc \in {"turn_ack", "play_ack", "move"} =>
         \/ Holds(toClient', "ILLEGAL_PLAY")
         \/ \E b \in Boards :
               ~ IsFinished(b) /\ Shows(toClient', InGame', view', b)
  BY <1>2, <1>5 DEF PromptInv
<1> QED
  BY <1>3, <1>4, <1>6 DEF PromptInv

\* The client takes, in the match or before it, a message that is not an ACK.
LEMMA AnswerTakes ==
    ASSUME BaseInv, AnswerInv, Talking, Talking', pc' = pc,
           toClient # <<>>, toClient' = Tail(toClient),
           Head(toClient).type \notin {"ILLEGAL_PLAY", "GENERAL_ACK"},
           UNCHANGED <<blocked, waiting_for_ack>>,
           net = "IN_GAME" => net' = "IN_GAME",
           Holds(toServer', "MOVE") <=> Holds(toServer, "MOVE"),
           Once(toServer, "MOVE") => Once(toServer', "MOVE")
    PROVE  AnswerInv'
<1>1. \A t : /\ Holds(toClient, t) <=>
                   Head(toClient).type = t \/ Holds(toClient', t)
             /\ Once(toClient, t) => Once(toClient', t)
  BY HoldsTail DEF BaseInv, TypeOK
<1>2. waiting_for_ack => net = "IN_GAME"
  BY DEF BaseInv, ClientInv, Talking
<1> QED
  BY <1>1, <1>2 DEF AnswerInv

\* What the client takes between two frames and answers, but for a GAME_END.
LEMMA ArrivesPlay ==
    ASSUME BaseInv, StreamInv, PlayInv, NEW nets, NEW types,
           Arrives(nets, types), net # "ERROR", Send(Ack),
           Head(toClient).type # "GENERAL_ACK",
           Talking /\ pc \in InPlay => waiting_for_ack' = waiting_for_ack,
           Talking /\ net = "IN_GAME" /\ pc \in InPlay => net' = "IN_GAME",
           Talking /\ pc \in InPlay =>
              IF Head(toClient).type = "GAME_STATE"
              THEN InGame' /\ view' = Head(toClient).board
              ELSE InGame => InGame' /\ view' = view,
           Talking /\ pc \in InPlay /\ Head(toClient).type = "PLAY" =>
              InGame' /\ is_our_turn',
           Talking /\ pc \in InPlay /\ InGame /\ is_our_turn =>
              InGame' /\ is_our_turn'
    PROVE  PlayInv'
<1>1. /\ blocked = "no" /\ toClient # <<>> /\ toClient' = Tail(toClient)
      /\ UNCHANGED <<blocked, pc>> /\ Readable(Head(toClient))
  BY DEF Arrives, KeepServer, threadVars
<1>2. ASSUME Talking'
      PROVE  /\ Talking
             /\ Holds(toServer', "MOVE") <=> Holds(toServer, "MOVE")
             /\ Once(toServer, "MOVE") => Once(toServer', "MOVE")
  <2>1. link' = "open"
    BY <1>2 DEF Talking
  <2> QED
    BY <2>1, Answers DEF Talking
<1>3. Talking' => toServer' # <<>>
  <2>1. TypeOK /\ toServer \in Seq(Messages) /\ Ack \in Messages
    BY Sent DEF BaseInv, TypeOK
  <2>2. Talking' => toServer' = Append(toServer, Ack)
    BY <1>2, <2>1, Sends DEF Talking
  <2> QED
    BY <2>1, <2>2
<1>4. Head(toClient).type # "ILLEGAL_PLAY"
  BY <1>1, ReadableTypes
<1>5. ASSUME Talking', pc \in InPlay PROVE AnswerInv' /\ PromptInv'
  <2>1. AnswerInv'
    BY <1>1, <1>2, <1>4, <1>5, AnswerTakes DEF PlayInv
  <2>2. PromptInv'
    BY <1>1, <1>2, <1>4, <1>5, PromptTakes DEF PlayInv
  <2> QED
    BY <2>1, <2>2
<1> QED
  BY <1>1, <1>2, <1>3, <1>5, ClientPlay

LEMMA TakeGameWaitPlay ==
    ASSUME BaseInv, StreamInv, PlayInv, TakeGameWait PROVE PlayInv'
  BY ArrivesPlay DEF TakeGameWait, Arrives, KeepGame, InGame

LEMMA TakeGameStartPlay ==
    ASSUME BaseInv, StreamInv, PlayInv, TakeGameStart PROVE PlayInv'
<1>1. ~ waiting_for_ack
  BY DEF TakeGameStart, Arrives, BaseInv, ClientInv
<1> QED
  BY <1>1, ArrivesPlay DEF TakeGameStart, Arrives, InGame, BaseInv, TypeOK

LEMMA InPlayStates ==
    ASSUME BaseInv, StreamInv, Talking, pc \in InPlay
    PROVE  /\ net \in Afterwards /\ blocked = "no" => net = "IN_GAME"
           /\ net = "IN_GAME" /\ toClient # <<>> =>
                 Head(toClient) = Ack \/ Head(toClient).type \in InMatchTypes
  BY InPlayPcs, PlayFacts DEF Afterwards

LEMMA TakeGameStatePlay ==
    ASSUME BaseInv, StreamInv, PlayInv, TakeGameState PROVE PlayInv'
<1>1. blocked = "no" /\ net \in Afterwards /\ net' = net
  BY DEF TakeGameState, Arrives
<1>2. Talking /\ pc \in InPlay => InGame /\ InGame'
  BY <1>1, InPlayStates DEF InGame
<1> QED
  BY <1>1, <1>2, ArrivesPlay DEF TakeGameState, Arrives, InGame, Afterwards

LEMMA TakePlayPlay ==
    ASSUME BaseInv, StreamInv, PlayInv, TakePlay PROVE PlayInv'
<1>1. blocked = "no" /\ net \in Afterwards /\ net' = net
  BY DEF TakePlay, Arrives
<1>2. Talking /\ pc \in InPlay => InGame /\ InGame'
  BY <1>1, InPlayStates DEF InGame
<1> QED
  BY <1>1, <1>2, ArrivesPlay DEF TakePlay, Arrives, InGame, Afterwards

LEMMA TakeProfilePlay ==
    ASSUME BaseInv, StreamInv, PlayInv, TakeProfile PROVE PlayInv'
<1>1. blocked = "no" /\ net \in Afterwards /\ net' = net
  BY DEF TakeProfile, Arrives
<1>2. Talking /\ pc \in InPlay => InGame /\ InGame'
  BY <1>1, InPlayStates DEF InGame
<1> QED
  BY <1>1, <1>2, ArrivesPlay
     DEF TakeProfile, KeepGame, Arrives, InGame, Afterwards

\* No GAME_END comes while the thread plays.
LEMMA TakeGameEndPlay ==
    ASSUME BaseInv, StreamInv, PlayInv, TakeGameEnd PROVE PlayInv'
<1>1. /\ net = "IN_GAME" /\ toClient # <<>> /\ Head(toClient).type = "GAME_END"
  BY DEF TakeGameEnd, Arrives
<1>2. ~ (Talking /\ pc \in InPlay)
  BY <1>1, InPlayStates DEF Ack, InMatchTypes
<1> QED
  BY <1>1, <1>2, ArrivesPlay DEF TakeGameEnd

LEMMA TakeAckPlay ==
    ASSUME BaseInv, StreamInv, PlayInv, TakeAck PROVE PlayInv'
<1>1. /\ blocked = "no" /\ net \in Afterwards
      /\ toClient # <<>> /\ toClient' = Tail(toClient)
      /\ Head(toClient).type = "GENERAL_ACK" /\ waiting_for_ack' = FALSE
      /\ UNCHANGED <<net, blocked, pc, link, toServer, view, Talking>>
  BY DEF TakeAck, Arrives, KeepServer, threadVars, Talking
<1>2. ASSUME Talking, pc \in InPlay PROVE AnswerInv'
  <2>1. /\ Holds(toClient, "GENERAL_ACK")
        /\ Once(toClient, "GENERAL_ACK") =>
              /\ Once(toClient', "GENERAL_ACK")
              /\ ~ Holds(toClient', "GENERAL_ACK")
    BY <1>1, HoldsTail DEF BaseInv, TypeOK
  <2> QED
    BY <1>1, <1>2, <2>1 DEF PlayInv, AnswerInv
<1>3. ASSUME Talking, pc \in InPlay PROVE PromptInv'
  BY <1>1, <1>3, PromptTakes DEF PlayInv, InGame
<1> QED
  BY <1>1, <1>2, <1>3, ClientPlay

\* A receive of the client that fails.
LEMMA FailsPlay ==
    ASSUME BaseInv, StreamInv, PlayInv, net' = "ERROR" \/ link' = "gone"
    PROVE  PlayInv'
  BY ElsewherePlay DEF Talking

LEMMA ConnectPlay ==
    ASSUME BaseInv, StreamInv, PlayInv, NEW p, Connect(p) PROVE PlayInv'
<1>1. pc' = "connect"
  BY DEF Connect
<1> QED
  BY <1>1, ElsewherePlay DEF AwaitingPcs, InPlay, AckPcs, EndPcs

LEMMA ConnectFailsPlay ==
    ASSUME BaseInv, StreamInv, PlayInv, NEW p, ConnectFails(p) PROVE PlayInv'
  BY FailsPlay DEF ConnectFails

LEMMA GonePlay ==
    ASSUME BaseInv, StreamInv, PlayInv, Leave \/ ConnectRefused PROVE PlayInv'
  BY FailsPlay DEF Leave, ConnectRefused, CloseSocket

\* Before it has joined, the client is not in a match.
LEMMA EarlyPlay ==
    ASSUME BaseInv, StreamInv, Talking, blocked \in Early
    PROVE  pc \notin InPlay
  BY DEF StreamInv, GreetingInv, EarlyPcs, InPlay, AckPcs

LEMMA TakeConnectAckPlay ==
    ASSUME BaseInv, StreamInv, PlayInv, TakeConnectAck PROVE PlayInv'
<1>1. /\ blocked = "connect_ack" /\ toClient # <<>>
      /\ Head(toClient).type = "GENERAL_ACK" /\ toClient' = Tail(toClient)
      /\ UNCHANGED <<pc, net, link, toServer>>
  BY DEF TakeConnectAck, Granted, Expected, IsOk, KeepServer, threadVars
<1>2. Talking' => Talking /\ pc \notin InPlay
  BY <1>1, EarlyPlay DEF Talking, Early
<1> QED
  BY <1>1, <1>2, ClientPlay

LEMMA TakePlayerInfoPlay ==
    ASSUME BaseInv, StreamInv, PlayInv, TakePlayerInfo PROVE PlayInv'
<1>1. /\ blocked = "player_info" /\ toClient # <<>>
      /\ toClient' = Tail(toClient) /\ UNCHANGED pc /\ Send(Ack)
      /\ net # "ERROR"
  BY DEF TakePlayerInfo, Granted, KeepServer, threadVars, BaseInv, ClientInv
<1>2. /\ Ack \in Messages /\ TypeOK /\ toServer \in Seq(Messages)
  BY Sent DEF BaseInv, TypeOK
<1>3. Talking' => Talking /\ toServer' # <<>>
  <2>1. link' = "open" => link = "open" /\ toServer' = Append(toServer, Ack)
    BY <1>1, <1>2, Sends
  <2> QED
    BY <1>1, <1>2, <2>1 DEF Talking
<1>4. Talking => pc \notin InPlay
  BY <1>1, EarlyPlay DEF Early
<1> QED
  BY <1>1, <1>3, <1>4, ClientPlay

LEMMA JoinGamePlay ==
    ASSUME BaseInv, StreamInv, PlayInv, JoinGame PROVE PlayInv'
<1>1. /\ blocked = "join" /\ net # "ERROR"
      /\ Send(Plain("GAME_JOIN")) /\ UNCHANGED <<pc, toClient>>
  BY DEF JoinGame, KeepServer, threadVars, BaseInv, ClientInv
<1>2. /\ Plain("GAME_JOIN") \in Messages /\ TypeOK /\ toServer \in Seq(Messages)
  BY Sent DEF BaseInv, TypeOK
<1>3. Talking' => Talking /\ toServer' # <<>>
  <2>1. link' = "open" =>
           link = "open" /\ toServer' = Append(toServer, Plain("GAME_JOIN"))
    BY <1>1, <1>2, Sends
  <2> QED
    BY <1>1, <1>2, <2>1 DEF Talking
<1>4. Talking => pc \notin InPlay
  BY <1>1, EarlyPlay DEF Early
<1> QED
  BY <1>1, <1>3, <1>4, ClientPlay

LEMMA TakeJoinAckPlay ==
    ASSUME BaseInv, StreamInv, PlayInv, TakeJoinAck PROVE PlayInv'
<1>1. CASE ~ Granted
  BY <1>1, FailsPlay DEF TakeJoinAck
<1>2. CASE Granted
  <2>1. /\ blocked = "join_ack" /\ blocked' = "no"
        /\ net = "CONNECTED" /\ net' = "IN_LOBBY"
        /\ toClient # <<>> /\ toClient' = Tail(toClient)
        /\ Head(toClient).type = "GENERAL_ACK"
        /\ UNCHANGED <<pc, link, toServer, view, is_our_turn, waiting_for_ack>>
    BY <1>2 DEF TakeJoinAck, Granted, Expected, IsOk, KeepServer, threadVars,
                KeepGame, BaseInv, ClientInv
  <2>2. Talking' => Talking
    BY <2>1 DEF Talking
  <2>3. ASSUME Talking, pc \in InPlay PROVE AnswerInv'
    <3>1. /\ Holds(toClient, "GENERAL_ACK")
          /\ Once(toClient, "GENERAL_ACK") =>
                /\ Once(toClient', "GENERAL_ACK")
                /\ ~ Holds(toClient', "GENERAL_ACK")
      BY <2>1, HoldsTail DEF BaseInv, TypeOK
    <3> QED
      BY <2>1, <2>3, <3>1 DEF PlayInv, AnswerInv
  <2>4. ASSUME Talking, pc \in InPlay PROVE PromptInv'
    BY <2>1, <2>4, PromptTakes DEF PlayInv, InGame
  <2> QED
    BY <2>1, <2>2, <2>3, <2>4, ClientPlay
<1> QED
  BY <1>1, <1>2

LEMMA PollFailsPlay ==
    ASSUME BaseInv, StreamInv, PlayInv, PollFails PROVE PlayInv'
  BY FailsPlay DEF PollFails

LEMMA SendMovePlay ==
    ASSUME BaseInv, StreamInv, PlayInv, NEW i \in Cells, NEW j \in Cells,
           SendMove(i, j)
    PROVE  PlayInv'
<1>1. /\ InGame /\ ~ waiting_for_ack /\ net = "IN_GAME"
      /\ UNCHANGED <<blocked, is_our_turn, view, toClient, pc>>
      /\ Send(Move(i, j))
      /\ net' = IF SendFails THEN "ERROR" ELSE net
      /\ waiting_for_ack' = ~ SendFails
  BY DEF SendMove, InGame, KeepServer, threadVars
<1>2. /\ Move(i, j) \in Messages /\ Move(i, j).type = "MOVE"
      /\ TypeOK /\ toServer \in Seq(Messages)
  BY Sent DEF BaseInv, TypeOK, Move
<1>3. ASSUME Talking'
      PROVE  /\ Talking /\ net' = "IN_GAME" /\ waiting_for_ack'
             /\ toServer' = Append(toServer, Move(i, j))
  <2>1. link = "open" /\ toServer' = Append(toServer, Move(i, j))
    BY <1>1, <1>2, <1>3, Sends DEF Talking
  <2> QED
    BY <1>1, <1>3, <2>1 DEF Talking, SendFails
<1>4. Talking' => toServer' # <<>>
  BY <1>2, <1>3
<1>5. ASSUME Talking', pc \in InPlay PROVE AnswerInv'
  <2>1. ~ Holds(toServer, "MOVE")
    BY <1>1, <1>3, <1>5 DEF PlayInv, AnswerInv
  <2>2. ~ Holds(toClient, "GENERAL_ACK")
    <3>1. blocked # "join_ack"
      BY <1>1 DEF BaseInv, ClientInv
    <3> QED
      BY <1>1, <1>3, <1>5, <3>1 DEF PlayInv, AnswerInv
  <2>3. Holds(toServer', "MOVE") /\ Once(toServer', "MOVE")
    <3>1. Once(toServer, "MOVE")
      BY <1>3, <1>5 DEF PlayInv, AnswerInv
    <3>2. /\ Holds(Append(toServer, Move(i, j)), "MOVE")
          /\ Once(Append(toServer, Move(i, j)), "MOVE")
      BY <1>2, <2>1, <3>1, HoldsAppend
    <3> QED
      BY <1>3, <1>5, <3>2
  <2> QED
    BY <1>1, <1>3, <1>5, <2>2, <2>3 DEF PlayInv, AnswerInv
<1>6. ASSUME Talking', pc \in InPlay PROVE PromptInv'
  BY <1>1, <1>3, <1>6 DEF PlayInv, PromptInv, InGame
<1> QED
  BY <1>1, <1>3, <1>4, <1>5, <1>6, ClientPlay

LEMMA SendShopActionPlay ==
    ASSUME BaseInv, StreamInv, PlayInv, SendShopAction PROVE PlayInv'
<1>1. /\ blocked = "no" /\ net = "CONNECTED"
      /\ UNCHANGED <<toClient, pc>> /\ Send(Plain("SHOP_ACTION"))
  BY DEF SendShopAction, KeepServer, threadVars
<1>2. /\ Plain("SHOP_ACTION") \in Messages /\ TypeOK
      /\ toServer \in Seq(Messages)
  BY Sent DEF BaseInv, TypeOK
<1>3. Talking' => Talking /\ toServer' # <<>>
  <2>1. link' = "open" =>
           link = "open" /\ toServer' = Append(toServer, Plain("SHOP_ACTION"))
    BY <1>1, <1>2, Sends
  <2> QED
    BY <1>1, <1>2, <2>1 DEF Talking
<1>4. Talking => pc \notin InPlay
  BY <1>1, InPlayStates DEF Afterwards
<1> QED
  BY <1>1, <1>3, <1>4, ClientPlay

\* A step of the thread after which it waits for an answer.
LEMMA AsksPlay ==
    ASSUME BaseInv, StreamInv, PlayInv, KeepClient,
           Talking /\ pc' \in AwaitingPcs => ToAcknowledge(toClient'),
           Talking /\ pc' \in InPlay => AnswerInv' /\ PromptInv'
    PROVE  PlayInv'
<1>1. Talking' <=> Talking
  BY DEF Talking, KeepClient, clientVars
<1>2. ToAcknowledge(toClient)' <=> ToAcknowledge(toClient')
  BY DEF ToAcknowledge
<1>3. AwaitedInv'
  BY <1>1, <1>2 DEF AwaitedInv
<1>4. AnswerInv' /\ PromptInv'
  BY <1>1, InPlayPcs DEF AnswerInv, PromptInv
<1> QED
  BY <1>3, <1>4 DEF PlayInv

LEMMA HandleConnectPlay ==
    ASSUME BaseInv, StreamInv, PlayInv, NEW m \in Received, HandleConnect(m)
    PROVE  PlayInv'
<1>1. /\ Plain("PLAYER_INFO") \in Messages /\ Ack \in Messages
      /\ Plain("PLAYER_INFO").type # "GENERAL_ACK"
      /\ toClient \in Seq(Messages)
  BY Sent DEF Plain, BaseInv, TypeOK
<1>2. /\ KeepClient
      /\ pc' # "join" => toClient' = IF link = "gone" THEN toClient
                         ELSE toClient \o <<Ack, Plain("PLAYER_INFO")>>
      /\ pc' \in {"info_ack", "join"}
  BY DEF HandleConnect, Tell
<1>3. pc' = "info_ack" /\ Talking => ToAcknowledge(toClient')
  BY <1>1, <1>2, ToAcknowledgeLast DEF Talking
<1>4. pc' \notin InPlay /\ "join" \notin AwaitingPcs
  BY <1>2 DEF InPlay, AwaitingPcs, AckPcs, EndPcs
<1> QED
  BY <1>2, <1>3, <1>4, AsksPlay

LEMMA ShopActionServedPlay ==
    ASSUME BaseInv, StreamInv, PlayInv, NEW m \in Received, ShopActionServed(m)
    PROVE  PlayInv'
<1>1. /\ Plain("PLAYER_INFO") \in Messages /\ Ack \in Messages
      /\ Plain("PLAYER_INFO").type # "GENERAL_ACK"
      /\ toClient \in Seq(Messages)
  BY Sent DEF Plain, BaseInv, TypeOK
<1>2. /\ KeepClient
      /\ toClient' = IF link = "gone" THEN toClient
                     ELSE toClient \o <<Ack, Plain("PLAYER_INFO")>>
      /\ pc' \in {"shop_ack", "closing"}
  BY DEF ShopActionServed, Tell
<1>3. Talking => ToAcknowledge(toClient')
  BY <1>1, <1>2, ToAcknowledgeLast DEF Talking
<1>4. pc' \notin InPlay
  BY <1>2 DEF InPlay, AckPcs
<1> QED
  BY <1>2, <1>3, <1>4, AsksPlay

LEMMA TellEndPlay ==
    ASSUME BaseInv, StreamInv, PlayInv, KeepClient, TellEnd PROVE PlayInv'
<1> DEFINE m == GameEnd(winner_id = seat)
<1>1. m \in Messages /\ m.type # "GENERAL_ACK" /\ toClient \in Seq(Messages)
  BY Sent DEF GameEnd, BaseInv, TypeOK
<1>2. /\ toClient' = IF link = "gone" THEN toClient ELSE toClient \o <<m>>
      /\ pc' \in {"end_ack", "release_close"}
  BY DEF TellEnd, Tell
<1> HIDE DEF m
<1>3. Talking => ToAcknowledge(toClient')
  BY <1>1, <1>2, ToAcknowledgeLast DEF Talking
<1>4. pc' \notin InPlay
  BY <1>2 DEF InPlay, AckPcs
<1> QED
  BY <1>3, <1>4, AsksPlay

LEMMA SendResultPlay ==
    ASSUME BaseInv, StreamInv, PlayInv, SendResult PROVE PlayInv'
<1>1. KeepClient
  BY DEF SendResult
<1>2. CASE TellEnd
  BY <1>1, <1>2, TellEndPlay
<1>3. CASE Tell(<<Plain("PLAYER_DATA_UPDATE")>>, "update_ack", "release_close")
  <2>1. /\ Plain("PLAYER_DATA_UPDATE") \in Messages
        /\ Plain("PLAYER_DATA_UPDATE").type # "GENERAL_ACK"
        /\ toClient \in Seq(Messages)
    BY Sent DEF Plain, BaseInv, TypeOK
  <2>2. /\ toClient' = IF link = "gone" THEN toClient
                       ELSE toClient \o <<Plain("PLAYER_DATA_UPDATE")>>
        /\ pc' \in {"update_ack", "release_close"}
    BY <1>3 DEF Tell
  <2>3. Talking => ToAcknowledge(toClient')
    BY <2>1, <2>2, ToAcknowledgeLast DEF Talking
  <2>4. pc' \notin InPlay
    BY <2>2 DEF InPlay, AckPcs
  <2> QED
    BY <1>1, <2>3, <2>4, AsksPlay
<1> QED
  BY <1>2, <1>3 DEF SendResult

LEMMA HandleUpdateAckPlay ==
    ASSUME BaseInv, StreamInv, PlayInv, NEW m \in Received, HandleUpdateAck(m)
    PROVE  PlayInv'
<1>1. CASE TellEnd
  BY <1>1, TellEndPlay DEF HandleUpdateAck
<1>2. CASE pc' = "release_close"
  BY <1>2, ElsewherePlay DEF AwaitingPcs, InPlay, AckPcs, EndPcs
<1> QED
  BY <1>1, <1>2 DEF HandleUpdateAck

\* The steps of the thread that do not end in a match.
LEMMA OtherwisePlay ==
    ASSUME BaseInv, StreamInv, PlayInv,
           \/ \E m \in Received :
                 \/ HandleInfoAck(m) \/ HandleGameJoin(m)
                 \/ ShopActionRefused(m) \/ HandleOther(m) \/ HandleShopAck(m)
                 \/ KeepAlive(m) \/ HandleEndAck(m)
           \/ AcquireSlot \/ SeeBothPlayers \/ SendGameWait \/ SeeGameOver
           \/ HandleDisconnectWin \/ ReleaseSlot \/ CloseConnection
    PROVE  PlayInv'
<1>1. pc' \in {"join", "acquire", "closing", "poll", "begin", "keep_alive",
               "release_keep", "release_close", "result", "closed"}
  BY DEF HandleInfoAck, HandleGameJoin, ShopActionRefused, HandleOther,
         HandleShopAck, KeepAlive, HandleEndAck, AcquireSlot, SeeBothPlayers,
         SendGameWait, SeeGameOver, HandleDisconnectWin, ReleaseSlot,
         CloseConnection, Tell
<1>2. pc' \notin AwaitingPcs \cup InPlay
  BY <1>1 DEF AwaitingPcs, InPlay, AckPcs, EndPcs
<1> QED
  BY <1>2, ElsewherePlay

\* Nothing of the match is under way when it starts.
LEMMA BeforeMatch ==
    ASSUME BaseInv, StreamInv, Talking, pc \in QueuePcs
    PROVE  /\ ~ Holds(toServer, "MOVE") /\ net # "IN_GAME"
           /\ Once(toClient, "GENERAL_ACK")
           /\ Holds(toClient, "GENERAL_ACK") => blocked = "join_ack"
           /\ \A i \in 1 .. Len(toClient) :
                 toClient[i].type \in {"GENERAL_ACK", "GAME_WAIT"}
<1> USE DEF Stages, Connecting, Introduced, Joining, Queueing, InMatch, Idle
<1>1. PICK b \in Stages : LeadsTo(b)
  BY StreamFacts
<1>2. b = Queueing
  BY <1>1, ReachedAt DEF LeadsTo, Talking
<1>3. toClient \in Seq(Messages) /\ Path(purpose, toClient, Stage, Queueing)
  BY <1>1, <1>2 DEF LeadsTo, BaseInv, TypeOK
<1>4. Stage \in Stages /\ Stage <= Queueing
  BY <1>3, PathEnds
<1>5. blocked \in {"no", "join_ack"}
  <2>1. pc \in LatePcs
    BY DEF LatePcs
  <2> QED
    BY <2>1, LateFacts DEF Early, BlockedIn, BaseInv, TypeOK
<1>6. /\ blocked = "join_ack" => Stage = Joining /\ net = "CONNECTED"
      /\ blocked = "no" => Stage = Queueing /\ net = "IN_LOBBY"
  BY <1>4 DEF Stage, BaseInv, ClientInv
<1>7. /\ Once(toClient, "GENERAL_ACK")
      /\ Holds(toClient, "GENERAL_ACK") => Stage = Joining
      /\ \A i \in 1 .. Len(toClient) :
            toClient[i].type \in {"GENERAL_ACK", "GAME_WAIT"}
  <2>1. Stage \in {Joining, Queueing}
    BY <1>5, <1>6
  <2> QED
    BY <1>3, <2>1, PathToQueueing
<1>8. ~ Holds(toServer, "MOVE")
  BY <1>5, <1>6 DEF StreamInv, RequestInv
<1>9. net # "IN_GAME" /\ (Stage = Joining => blocked = "join_ack")
  BY <1>5, <1>6
<1> QED
  BY <1>7, <1>8, <1>9

LEMMA StartMatchPlay ==
    ASSUME BaseInv, StreamInv, PlayInv, StartMatch PROVE PlayInv'
<1> DEFINE m == GameStart(current_turn' = seat)
<1>1. m \in Messages /\ m.type = "GAME_START" /\ toClient \in Seq(Messages)
  BY Sent DEF GameStart, BaseInv, TypeOK
<1>2. /\ pc = "begin" /\ KeepClient /\ UNCHANGED toServer
      /\ toClient' = IF link = "gone" THEN toClient ELSE toClient \o <<m>>
      /\ pc' \in {"start_ack", "release_close"}
  BY DEF StartMatch, Tell
<1> HIDE DEF m
<1>3. Talking => ToAcknowledge(toClient') /\ toClient' = Append(toClient, m)
  BY <1>1, <1>2, ToAcknowledgeLast DEF Talking
<1>4. ASSUME Talking, pc' \in InPlay PROVE AnswerInv' /\ PromptInv'
  <2>1. /\ ~ Holds(toServer, "MOVE") /\ net # "IN_GAME"
        /\ Once(toClient, "GENERAL_ACK")
        /\ Holds(toClient, "GENERAL_ACK") => blocked = "join_ack"
    BY <1>2, <1>4, BeforeMatch DEF QueuePcs
  <2>2. /\ Once(toClient', "GENERAL_ACK")
        /\ Holds(toClient', "GENERAL_ACK") => blocked = "join_ack"
    BY <1>1, <1>3, <1>4, <2>1, HoldsAppend
  <2>3. UNCHANGED <<net, blocked, waiting_for_ack>>
    BY <1>2 DEF KeepClient, clientVars
  <2>4. Once(toServer, "MOVE")
    BY <2>1 DEF Once, Holds
  <2>5. AnswerInv'
    BY <1>2, <2>1, <2>2, <2>3, <2>4 DEF AnswerInv
  <2>6. PromptInv'
    BY <1>2 DEF PromptInv
  <2> QED
    BY <2>5, <2>6
<1> QED
  BY <1>2, <1>3, <1>4, AsksPlay

\* A step of the thread within the match: it takes m, and may send n.
LEMMA InPlayAnswer ==
    ASSUME BaseInv, AnswerInv, Talking, KeepClient, pc \in InPlay,
           \/ toServer' = toServer
           \/ \E m \in Received :
                 Consume(m) /\ (m.type # "MOVE" \/ pc' = "forfeit"),
           \/ toClient' = toClient
           \/ \E n \in Messages : /\ toClient' = Append(toClient, n)
                                  /\ n.type # "GENERAL_ACK",
           pc' # "forfeit" => pc # "forfeit"
    PROVE  AnswerInv'
<1>1. UNCHANGED <<net, blocked, waiting_for_ack>>
  BY DEF KeepClient, clientVars
<1>2. /\ Holds(toServer', "MOVE") => Holds(toServer, "MOVE")
      /\ Once(toServer, "MOVE") => Once(toServer', "MOVE")
      /\ pc' # "forfeit" /\ Holds(toServer, "MOVE") => Holds(toServer', "MOVE")
  BY Consumes DEF BaseInv
<1>3. /\ Holds(toClient', "GENERAL_ACK") <=> Holds(toClient, "GENERAL_ACK")
      /\ Once(toClient, "GENERAL_ACK") => Once(toClient', "GENERAL_ACK")
      /\ Holds(toClient, "ILLEGAL_PLAY") => Holds(toClient', "ILLEGAL_PLAY")
  <2>1. toClient \in Seq(Messages)
    BY DEF BaseInv, TypeOK
  <2>2. CASE toClient' = toClient
    BY <2>2
  <2>3. ASSUME NEW n \in Messages, toClient' = Append(toClient, n),
               n.type # "GENERAL_ACK"
        PROVE  /\ Holds(toClient', "GENERAL_ACK")
                    <=> Holds(toClient, "GENERAL_ACK")
               /\ Once(toClient, "GENERAL_ACK")
                    => Once(toClient', "GENERAL_ACK")
               /\ Holds(toClient, "ILLEGAL_PLAY")
                    => Holds(toClient', "ILLEGAL_PLAY")
    BY <2>1, <2>3, HoldsAppend
  <2> QED
    BY <2>2, <2>3
<1> QED
  BY <1>1, <1>2, <1>3 DEF AnswerInv

\* A message of the thread with which it keeps the turn.
LEMMA OnePlay ==
    ASSUME BaseInv, StreamInv, PlayInv, KeepClient, pc \in InPlay,
           toServer' = toServer
             \/ \E m \in Received : Consume(m) /\ m.type # "MOVE",
           NEW n \in Messages, n.type # "GENERAL_ACK",
           NEW next \in InPlay \ {"forfeit"}, Tell(<<n>>, next, "forfeit"),
           pc # "forfeit",
           Talking /\ toClient' = Append(toClient, n) /\ pc' = next
              => PromptInv'
    PROVE  PlayInv'
<1>1. toClient \in Seq(Messages)
  BY DEF BaseInv, TypeOK
<1>2. Talking => /\ ToAcknowledge(toClient') /\ pc' = next
                 /\ toClient' = Append(toClient, n)
  BY <1>1, ToAcknowledgeLast DEF Tell, Talking
<1>3. ASSUME Talking PROVE AnswerInv'
  <2>1. AnswerInv /\ pc' # "forfeit"
    BY <1>2, <1>3 DEF PlayInv
  <2>2. \/ toServer' = toServer
        \/ \E m \in Received :
              Consume(m) /\ (m.type # "MOVE" \/ pc' = "forfeit")
    OBVIOUS
  <2> QED
    BY <1>2, <1>3, <2>1, <2>2, InPlayAnswer
<1> QED
  BY <1>2, <1>3, AsksPlay

LEMMA TakeTurnPlay ==
    ASSUME BaseInv, StreamInv, PlayInv, TakeTurn PROVE PlayInv'
<1>1. /\ GameState(board) \in Messages /\ GameState(board).type = "GAME_STATE"
      /\ GameState(board).board = board
      /\ toClient \in Seq(Messages) /\ board \in Boards
  BY Sent DEF GameState, BaseInv, TypeOK
<1>2. /\ pc = "turn" /\ KeepClient /\ toServer' = toServer
      /\ Tell(<<GameState(board)>>, "turn_ack", "forfeit")
  BY DEF TakeTurn
<1>3. ~ IsFinished(board)
  BY <1>2 DEF TakeTurn, BaseInv, SeatInv, MatchPcs
<1>4. ASSUME toClient' = Append(toClient, GameState(board)), pc' = "turn_ack"
      PROVE  PromptInv'
  <2>1. Shows(toClient', InGame, view, board)
    BY <1>1, <1>4, ShowsAppend
  <2>2. UNCHANGED <<InGame, view>>
    BY <1>2 DEF KeepClient, clientVars, InGame
  <2>3. Shows(toClient', InGame', view', board)
    BY <2>1, <2>2
  <2> QED
    BY <1>1, <1>3, <1>4, <2>3 DEF PromptInv
<1>5. "turn" \in InPlay /\ "turn_ack" \in InPlay \ {"forfeit"}
  BY DEF InPlay, AckPcs
<1> QED
  BY <1>1, <1>2, <1>4, <1>5, OnePlay

LEMMA HandleAckPlay ==
    ASSUME BaseInv, StreamInv, PlayInv, NEW m \in Received, HandleAck(m)
    PROVE  PlayInv'
<1>1. /\ Consume(m) /\ m.type = "GENERAL_ACK" /\ KeepClient
      /\ toClient \in Seq(Messages)
  BY HandsOn DEF BaseInv, TypeOK
<1>2. UNCHANGED <<InGame, view, is_our_turn>>
  BY <1>1 DEF KeepClient, clientVars, InGame
<1> USE DEF InPlay, AckPcs, EndPcs
<1>3. CASE /\ pc = "start_ack"
           /\ Tell(<<GameState(board)>>, "state_ack", "forfeit")
  <2>1. GameState(board) \in Messages /\ GameState(board).type = "GAME_STATE"
    BY Sent DEF GameState, BaseInv, TypeOK
  <2>2. pc' = "state_ack" => PromptInv'
    BY DEF PromptInv
  <2> QED
    BY <1>1, <1>3, <2>1, <2>2, OnePlay
<1>4. CASE pc = "turn_ack" /\ Tell(<<Plain("PLAY")>>, "play_ack", "forfeit")
  <2>1. Plain("PLAY") \in Messages /\ Plain("PLAY").type = "PLAY"
    BY Sent DEF Plain
  <2>2. ASSUME Talking, toClient' = Append(toClient, Plain("PLAY")),
               pc' = "play_ack"
        PROVE  PromptInv'
    <3>1. Prompted(toClient')
      BY <1>1, <2>1, <2>2, PromptedAppend
    <3>2. \/ Holds(toClient, "ILLEGAL_PLAY")
          \/ \E b \in Boards :
                ~ IsFinished(b) /\ Shows(toClient, InGame, view, b)
      BY <1>4, <2>2 DEF PlayInv, PromptInv
    <3>3. Holds(toClient, "ILLEGAL_PLAY") => Holds(toClient', "ILLEGAL_PLAY")
      BY <1>1, <2>1, <2>2, HoldsAppend
    <3>4. ASSUME NEW b \in Boards, Shows(toClient, InGame, view, b)
          PROVE  Shows(toClient', InGame', view', b)
      <4>1. Shows(toClient', InGame, view, b)
        BY <1>1, <2>1, <2>2, <3>4, ShowsAppend
      <4> QED
        BY <1>2, <4>1
    <3>5. \/ Holds(toClient', "ILLEGAL_PLAY")
          \/ \E b \in Boards :
                ~ IsFinished(b) /\ Shows(toClient', InGame', view', b)
      BY <3>2, <3>3, <3>4
    <3> QED
      BY <2>2, <3>1, <3>5 DEF PromptInv
  <2> QED
    BY <1>1, <1>4, <2>1, <2>2, OnePlay
<1>5. CASE /\ <<pc, pc'>> \in {<<"state_ack", "turn">>, <<"play_ack", "move">>,
                <<"illegal_ack", "move">>, <<"moved_ack", "turn">>,
                <<"last_ack", "result">>}
           /\ toClient' = toClient
  <2>1. pc' \notin AwaitingPcs
    BY <1>5 DEF AwaitingPcs
  <2>2. ASSUME Talking PROVE AnswerInv'
    <3>1. pc \in InPlay /\ pc' # "forfeit" /\ pc # "forfeit" /\ m.type # "MOVE"
      BY <1>1, <1>5
    <3> QED
      BY <1>1, <1>5, <2>2, <3>1, InPlayAnswer DEF PlayInv
  <2>3. ASSUME Talking PROVE PromptInv'
    BY <1>2, <1>5, <2>3 DEF PlayInv, PromptInv
  <2> QED
    BY <1>1, <2>1, <2>2, <2>3, AsksPlay
<1> QED
  BY <1>3, <1>4, <1>5, HandsOn DEF BaseInv

LEMMA FailInPlayPlay ==
    ASSUME BaseInv, StreamInv, PlayInv, NEW m \in Received, FailInPlay(m)
    PROVE  PlayInv'
<1>1. /\ Consume(m) /\ pc' = "forfeit" /\ toClient' = toClient /\ KeepClient
      /\ pc \in InPlay
  BY DEF FailInPlay, InPlay
<1>2. ASSUME Talking PROVE AnswerInv'
  BY <1>1, <1>2, InPlayAnswer DEF PlayInv
<1>3. PromptInv'
  BY <1>1 DEF PromptInv
<1>4. pc' \notin AwaitingPcs
  BY <1>1 DEF AwaitingPcs, AckPcs, EndPcs
<1> QED
  BY <1>1, <1>2, <1>3, <1>4, AsksPlay

\* The one move that is under way is taken, and no GENERAL_ACK is.
LEMMA MoveTaken ==
    ASSUME BaseInv, AnswerInv, Talking, pc = "move",
           NEW m \in Received, Consume(m), m.type = "MOVE"
    PROVE  /\ net = "IN_GAME" /\ waiting_for_ack
           /\ ~ Holds(toClient, "GENERAL_ACK") /\ ~ Holds(toServer', "MOVE")
           /\ toServer # <<>> /\ m = Head(toServer) /\ m \in Messages
<1>1. /\ Holds(toServer, "MOVE")
      /\ Once(toServer, "MOVE") => ~ Holds(toServer', "MOVE")
      /\ toServer # <<>> /\ m = Head(toServer) /\ m \in Messages
  BY Consumes DEF BaseInv
<1>2. net = "IN_GAME" /\ waiting_for_ack /\ Once(toServer, "MOVE")
  BY <1>1 DEF AnswerInv, InPlay
<1>3. blocked # "join_ack"
  BY <1>2 DEF BaseInv, ClientInv
<1>4. ~ Holds(toClient, "GENERAL_ACK")
  BY <1>1, <1>3 DEF AnswerInv, InPlay
<1> QED
  BY <1>1, <1>2, <1>4

LEMMA LegalMovePlay ==
    ASSUME BaseInv, StreamInv, PlayInv, NEW m \in Received, LegalMove(m)
    PROVE  PlayInv'
<1> DEFINE next == IF IsFinished(board') THEN "last_ack" ELSE "moved_ack"
           n    == GameState(board')
<1>1. /\ KeepClient /\ Tell(<<Ack, n>>, next, "forfeit")
      /\ pc = "move" /\ Consume(m) /\ m.type = "MOVE"
      /\ Moved(seat, m.coin_index, m.coin_pos)
  BY DEF LegalMove
<1>2. seat \in Ids
  BY <1>1 DEF BaseInv, TypeOK, SeatInv, Seated, MatchPcs
<1>3. /\ n \in Messages /\ n.type = "GAME_STATE"
      /\ Ack \in Messages /\ Ack.type = "GENERAL_ACK"
      /\ toClient \in Seq(Messages)
  BY <1>1, <1>2, Moves, Sent DEF GameState, Ack, BaseInv, TypeOK
<1>4. next \in {"last_ack", "moved_ack"}
  OBVIOUS
<1> HIDE DEF next, n
<1>5. Talking => /\ ToAcknowledge(toClient') /\ pc' = next
                 /\ toClient' = Append(Append(toClient, Ack), n)
  <2>1. toClient \o <<Ack, n>> = Append(Append(toClient, Ack), n)
    BY <1>3
  <2> QED
    BY <1>1, <1>3, <2>1, ToAcknowledgeLast DEF Tell, Talking
<1>6. ASSUME Talking PROVE AnswerInv'
  <2>1. /\ net = "IN_GAME" /\ waiting_for_ack
        /\ ~ Holds(toClient, "GENERAL_ACK") /\ ~ Holds(toServer', "MOVE")
    BY <1>1, <1>6, MoveTaken DEF PlayInv
  <2>2. Append(toClient, Ack) \in Seq(Messages)
    BY <1>3
  <2>3. /\ Holds(Append(toClient, Ack), "GENERAL_ACK")
        /\ Once(Append(toClient, Ack), "GENERAL_ACK")
    <3>1. Once(toClient, "GENERAL_ACK")
      BY <2>1 DEF Once, Holds
    <3> QED
      BY <1>3, <2>1, <3>1, HoldsAppend
  <2>4. /\ Holds(toClient', "GENERAL_ACK") /\ Once(toClient', "GENERAL_ACK")
    <3> DEFINE u == Append(toClient, Ack)
    <3>1. /\ u \in Seq(Messages)
          /\ Holds(u, "GENERAL_ACK") /\ Once(u, "GENERAL_ACK")
      BY <2>2, <2>3
    <3> HIDE DEF u
    <3>2. /\ Holds(Append(u, n), "GENERAL_ACK")
          /\ Once(Append(u, n), "GENERAL_ACK")
      BY <1>3, <3>1, HoldsAppend
    <3> QED
      BY <1>5, <1>6, <3>2 DEF u
  <2>5. UNCHANGED <<net, blocked, waiting_for_ack>>
    BY <1>1 DEF KeepClient, clientVars
  <2>6. Once(toServer', "MOVE")
    BY <2>1 DEF Once, Holds
  <2> QED
    BY <2>1, <2>4, <2>5, <2>6 DEF AnswerInv
<1>7. Talking => PromptInv'
  BY <1>4, <1>5 DEF PromptInv
<1> QED
  BY <1>1, <1>5, <1>6, <1>7, AsksPlay

LEMMA IllegalMovePlay ==
    ASSUME BaseInv, StreamInv, PlayInv, NEW m \in Received, IllegalMove(m)
    PROVE  PlayInv'
<1> DEFINE n == Plain("ILLEGAL_PLAY")
<1>1. n \in Messages /\ n.type = "ILLEGAL_PLAY" /\ toClient \in Seq(Messages)
  BY Sent DEF Plain, BaseInv, TypeOK
<1>2. /\ KeepClient /\ Tell(<<n>>, "illegal_ack", "illegal_ack")
      /\ pc = "move" /\ Consume(m) /\ m.type = "MOVE"
  BY DEF IllegalMove
<1> HIDE DEF n
<1>3. Talking => /\ ToAcknowledge(toClient') /\ pc' = "illegal_ack"
                 /\ toClient' = Append(toClient, n)
  BY <1>1, <1>2, ToAcknowledgeLast DEF Tell, Talking
<1>4. ASSUME Talking
      PROVE  /\ Holds(toClient', "ILLEGAL_PLAY")
             /\ ~ Holds(toClient', "GENERAL_ACK") /\ ~ Holds(toServer', "MOVE")
  <2>1. ~ Holds(toClient, "GENERAL_ACK") /\ ~ Holds(toServer', "MOVE")
    BY <1>2, <1>4, MoveTaken DEF PlayInv
  <2> QED
    BY <1>1, <1>3, <1>4, <2>1, HoldsAppend
<1>5. ASSUME Talking PROVE AnswerInv'
  <2>1. Once(toServer', "MOVE") /\ Once(toClient', "GENERAL_ACK")
    BY <1>4, <1>5 DEF Once, Holds
  <2> QED
    BY <1>4, <1>5, <2>1 DEF AnswerInv
<1>6. ASSUME Talking PROVE PromptInv'
  BY <1>3, <1>4, <1>6 DEF PromptInv
<1> QED
  BY <1>2, <1>3, <1>5, <1>6, AsksPlay

LEMMA KeepPlay ==
    ASSUME PlayInv, UNCHANGED <<clientVars, linkVars, threadVars>>
    PROVE  PlayInv'
<1>1. UNCHANGED <<net, blocked, is_our_turn, waiting_for_ack, view, link,
                  toClient, toServer, pc>>
  BY DEF clientVars, linkVars, threadVars
<1>2. UNCHANGED <<Talking, InGame>>
  BY <1>1 DEF Talking, InGame
<1>3. AwaitedInv' /\ AnswerInv'
  BY <1>1, <1>2 DEF PlayInv, AwaitedInv, AnswerInv
<1>4. PromptInv'
  BY <1>1, <1>2 DEF PlayInv, PromptInv
<1> QED
  BY <1>3, <1>4 DEF PlayInv

LEMMA PlayInit == Init => PlayInv
  BY DEF Init, PlayInv, AwaitedInv, AnswerInv, PromptInv, Talking

LEMMA PlayNext == BaseInv /\ StreamInv /\ PlayInv /\ [Next]_vars => PlayInv'
<1> SUFFICES ASSUME BaseInv, StreamInv, PlayInv, [Next]_vars PROVE PlayInv'
  OBVIOUS
<1>1. CASE ClientStep
  BY <1>1, ConnectPlay, ConnectFailsPlay, GonePlay, TakeConnectAckPlay,
     TakePlayerInfoPlay, JoinGamePlay, TakeJoinAckPlay, TakeGameWaitPlay,
     TakeGameStartPlay, TakeAckPlay, TakeGameStatePlay, TakePlayPlay,
     TakeGameEndPlay, TakeProfilePlay, PollFailsPlay, SendMovePlay,
     SendShopActionPlay
     DEF ClientStep
<1>2. CASE ThreadStep
  BY <1>2, HandleConnectPlay, ShopActionServedPlay, SendResultPlay,
     HandleUpdateAckPlay, OtherwisePlay, StartMatchPlay, TakeTurnPlay,
     HandleAckPlay, FailInPlayPlay, LegalMovePlay, IllegalMovePlay
     DEF ThreadStep, ThreadReceives
<1>3. CASE OthersStep
  BY <1>3, KeepPlay
     DEF OthersStep, OtherJoins, OtherStarts, OtherMoves, OtherForfeits,
         OtherLeaves, KeepSession
<1>4. CASE UNCHANGED vars
  BY <1>4, KeepPlay DEF vars
<1> QED
  BY <1>1, <1>2, <1>3, <1>4 DEF Next

(***************************************************************************)
(* Fourth part: the ids.  A player with id 0 found the lobby empty, and    *)
(* nobody is given an id that is a count of at least one; a player with    *)
(* id 1 found another, who stays until the match is on.                    *)
(***************************************************************************)
IdInv ==
    /\ seat = 0 => others[0] = 0
    /\ seat = 1 /\ ~ game_started => Count = 2

LEMMA IdInit == Init => IdInv
  BY DEF Init, IdInv, NoId

LEMMA IdNext == BaseInv /\ IdInv /\ [Next]_vars => IdInv'
<1> SUFFICES ASSUME BaseInv, IdInv, [Next]_vars PROVE IdInv'
  OBVIOUS
<1>1. /\ others \in [Ids -> 0 .. 2] /\ seat \in Ids \cup {NoId}
      /\ Count <= 2 /\ game_started \in BOOLEAN
      /\ game_over => game_started
  BY DEF BaseInv, TypeOK, SeatInv
<1>2. ASSUME UNCHANGED <<seat, others>>, game_started => game_started'
      PROVE  IdInv'
  BY <1>2 DEF IdInv, Count
<1>3. CASE ClientStep
  <2>1. UNCHANGED <<seat, others, game_started>>
    BY <1>3
    DEF ClientStep, Connect, ConnectFails, Request, TakeConnectAck,
        TakePlayerInfo, ConnectRefused, JoinGame, TakeJoinAck, TakeGameWait,
        TakeGameStart, TakeAck, TakeGameState, TakePlay, TakeGameEnd,
        TakeProfile, PollFails, SendMove, SendShopAction, Leave, Arrives,
        KeepServer, threadVars, lobbyVars
  <2> QED
    BY <1>2, <2>1
<1>4. CASE AcquireSlot
  <2>1. seat = NoId
    BY <1>4 DEF AcquireSlot, BaseInv, SeatInv, Seated, MatchPcs, AckPcs, EndPcs
  <2>2. UNCHANGED <<others, game_started>>
    BY <1>4 DEF AcquireSlot, lobbyVars
  <2>3. CASE Count >= 2
    BY <1>4, <2>1, <2>2, <2>3 DEF AcquireSlot, IdInv, NoId
  <2>4. CASE ~ Count >= 2
    <3>1. seat' = others[0] + others[1]
      BY <1>1, <1>4, <2>1, <2>4 DEF AcquireSlot, Count, Ids
    <3> QED
      BY <1>1, <2>2, <3>1 DEF IdInv, Count, Ids, NoId
  <2> QED
    BY <2>3, <2>4
<1>5. CASE ReleaseSlot
  BY <1>5 DEF ReleaseSlot, IdInv, NoId
<1>6. CASE StartMatch
  BY <1>2, <1>6 DEF StartMatch, SetUpMatch
<1>7. CASE \/ ThreadReceives \/ SeeBothPlayers \/ SendGameWait \/ SeeGameOver
           \/ TakeTurn \/ SendResult \/ HandleDisconnectWin
           \/ CloseConnection
  <2>1. UNCHANGED <<seat, others, game_started>>
    BY <1>7
    DEF ThreadReceives, HandleConnect, HandleInfoAck, HandleGameJoin,
        ShopActionServed, ShopActionRefused, HandleOther, HandleShopAck,
        KeepAlive, HandleAck, LegalMove, Moved, IllegalMove, FailInPlay,
        HandleUpdateAck, HandleEndAck, SeeBothPlayers, SendGameWait,
        SeeGameOver, TakeTurn, SendResult, HandleDisconnectWin, Lose,
        CloseConnection, KeepLobby, lobbyVars
  <2> QED
    BY <1>2, <2>1
<1>8. CASE OtherJoins
  <2>1. /\ ~ game_started /\ Count < 2 /\ seat' = seat
        /\ others' = [others EXCEPT ![Count] = @ + 1]
    BY <1>8 DEF OtherJoins, KeepSession, threadVars
  <2>2. seat # 1
    BY <1>1, <2>1 DEF IdInv
  <2>3. seat = 0 => Count # 0
    BY <1>1 DEF Count, Ids, NoId
  <2> QED
    BY <1>1, <2>1, <2>2, <2>3 DEF IdInv, Ids
<1>9. ASSUME NEW i \in Ids, OtherLeaves(i) PROVE IdInv'
  <2>1. /\ others[i] > 0 /\ game_over /\ seat' = seat
        /\ others' = [others EXCEPT ![i] = @ - 1]
    BY <1>9 DEF OtherLeaves, KeepSession, threadVars
  <2>2. seat # NoId => Count # 1
    BY <1>1, <2>1 DEF Count, Ids
  <2>3. seat # NoId => game_started'
    BY <1>1, <1>9, <2>1, <2>2 DEF OtherLeaves
  <2> QED
    BY <1>1, <2>1, <2>3 DEF IdInv, Ids, NoId
<1>10. CASE OtherStarts
  BY <1>2, <1>10 DEF OtherStarts, SetUpMatch, KeepSession, threadVars
<1>11. ASSUME NEW i \in Ids, OtherMoves(i) \/ OtherForfeits(i) PROVE IdInv'
  BY <1>2, <1>11
     DEF OtherMoves, OtherForfeits, Moved, Lose, KeepSession, threadVars
<1>12. CASE UNCHANGED vars
  BY <1>2, <1>12 DEF vars, threadVars, lobbyVars
<1> QED
  BY <1>3, <1>4, <1>5, <1>6, <1>7, <1>8, <1>9, <1>10, <1>11, <1>12
     DEF Next, ThreadStep, OthersStep

(***************************************************************************)
(* Fifth part: the turn, while the thread plays a match under an id of its *)
(* own.                                                                    *)
(***************************************************************************)
AllShow(s, b) ==
    \A i \in 1 .. Len(s) : s[i].type = "GAME_STATE" => s[i].board = b

\* A turn that s gives is had with board b on the screen.
Fresh(s, has, v, b) ==
    \A i \in 1 .. Len(s) :
        /\ s[i].type = "PLAY"
        /\ \A j \in i + 1 .. Len(s) : s[j].type # "GENERAL_ACK"
        => /\ ShowsBefore(s, i, has, v, b)
           /\ \A j \in i + 1 .. Len(s) :
                 s[j].type = "GAME_STATE" => s[j].board = b

\* No other player has the id of this one, as far as it matters: nobody is ever
\* given id 0 twice, and of id 1 nothing is said of a match that is over.
Unshared ==
    /\ pc \in MatchPcs \ OverPcs /\ link = "open"
    /\ others[seat] = 0
    /\ game_over => seat = 0 /\ pc # "forfeit"

Starting(m) == m.type = "GAME_START" /\ m.is_starting

\* The moves that s brings are legal on board b.
LegalMoves(s, b) ==
    \A i \in 1 .. Len(s) :
        s[i].type = "MOVE" => IsMoveValid(b, s[i].coin_index, s[i].coin_pos)

\* The client has the turn, or a message to the client gives it, or a move of
\* the client is under way: then it is on turn, and no other board will come.
TheirTurn(b) ==
    /\ InGame /\ is_our_turn /\ ~ waiting_for_ack =>
          current_turn = seat /\ AllShow(toClient, b) /\ view \in {NoCoins, b}
    /\ Holds(toServer, "MOVE") =>
          current_turn = seat /\ AllShow(toClient, b) /\ view = b
    /\ LegalMoves(toServer, b)
    /\ Prompted(toClient) => current_turn = seat
    /\ Fresh(toClient, InGame, view, b)
    /\ \A i \in 1 .. Len(toClient) :
          Starting(toClient[i]) => current_turn = seat /\ AllShow(toClient, b)

TurnInv ==
    Unshared =>
    /\ net # "ERROR" /\ pc # "illegal_ack" /\ ~ Holds(toClient, "ILLEGAL_PLAY")
    /\ TheirTurn(board)
    /\ pc \in {"turn_ack", "play_ack", "move"} =>
          current_turn = seat /\ Shows(toClient, InGame, view, board)

LEMMA AllShowSteps ==
    ASSUME NEW s \in Seq(Messages), NEW b
    PROVE  /\ AllShow(s, b) /\ s # <<>> =>
                 /\ AllShow(Tail(s), b)
                 /\ Head(s).type = "GAME_STATE" => Head(s).board = b
           /\ \A m \in Messages :
                 AllShow(s, b) /\ (m.type = "GAME_STATE" => m.board = b)
                    => AllShow(Append(s, m), b)
<1>1. ASSUME AllShow(s, b), s # <<>>
      PROVE  /\ AllShow(Tail(s), b)
             /\ Head(s).type = "GAME_STATE" => Head(s).board = b
  BY <1>1, TailElements DEF AllShow
<1>2. ASSUME NEW m \in Messages, AllShow(s, b),
             m.type = "GAME_STATE" => m.board = b
      PROVE  AllShow(Append(s, m), b)
  BY <1>2, AppendElements DEF AllShow
<1> QED
  BY <1>1, <1>2

LEMMA FreshTail ==
    ASSUME NEW s \in Seq(Messages), s # <<>>, NEW has, NEW has2, NEW v, NEW w,
           NEW b, Fresh(s, has, v, b),
           IF Head(s).type = "GAME_STATE" THEN has2 /\ w = Head(s).board
                                          ELSE has => has2 /\ w = v
    PROVE  Fresh(Tail(s), has2, w, b)
<1> DEFINE t == Tail(s)
<1>1. /\ Len(s) \in Nat \ {0} /\ Len(t) = Len(s) - 1
      /\ \A k \in 1 .. Len(s) - 1 : t[k] = s[k + 1]
  BY TailElements
<1>2. ASSUME NEW i \in 1 .. Len(t), t[i].type = "PLAY",
             \A j \in i + 1 .. Len(t) : t[j].type # "GENERAL_ACK"
      PROVE  /\ ShowsBefore(t, i, has2, w, b)
             /\ \A j \in i + 1 .. Len(t) :
                   t[j].type = "GAME_STATE" => t[j].board = b
  <2> HIDE DEF t
  <2>1. i + 1 \in 1 .. Len(s) /\ i + 1 \in 2 .. Len(s) + 1 /\ (i + 1) - 1 = i
    BY <1>1
  <2>2. s[i + 1].type = "PLAY"
    BY <1>1, <1>2
  <2>3. ASSUME NEW j \in (i + 1) + 1 .. Len(s)
        PROVE  s[j].type # "GENERAL_ACK"
    <3>1. j - 1 \in i + 1 .. Len(t) /\ t[j - 1] = s[j]
      BY <1>1
    <3> QED
      BY <1>2, <3>1
  <2>4. /\ ShowsBefore(s, i + 1, has, v, b)
        /\ \A j \in (i + 1) + 1 .. Len(s) :
              s[j].type = "GAME_STATE" => s[j].board = b
    BY <2>1, <2>2, <2>3 DEF Fresh
  <2>5. ShowsBefore(t, i, has2, w, b)
    BY <2>1, <2>4, ShowsTail DEF t
  <2>6. ASSUME NEW j \in i + 1 .. Len(t), t[j].type = "GAME_STATE"
        PROVE  t[j].board = b
    <3>1. j + 1 \in (i + 1) + 1 .. Len(s) /\ t[j] = s[j + 1]
      BY <1>1
    <3> QED
      BY <2>4, <2>6, <3>1
  <2> QED
    BY <2>5, <2>6
<1> QED
  BY <1>2 DEF Fresh

\* What is had when the turn is taken from the head of s.
LEMMA FreshHead ==
    ASSUME NEW s \in Seq(Messages), s # <<>>, NEW has, NEW v, NEW b,
           Fresh(s, has, v, b),
           Head(s).type = "PLAY", ~ Holds(Tail(s), "GENERAL_ACK")
    PROVE  Prompted(s) /\ has /\ v = b /\ AllShow(Tail(s), b)
<1>1. /\ Len(s) \in Nat \ {0} /\ Len(Tail(s)) = Len(s) - 1
      /\ Head(s) = s[1]
      /\ \A k \in 1 .. Len(s) - 1 : Tail(s)[k] = s[k + 1]
  BY TailElements
<1>2. ASSUME NEW j \in 1 + 1 .. Len(s) PROVE s[j].type # "GENERAL_ACK"
  <2>1. j - 1 \in 1 .. Len(Tail(s)) /\ Tail(s)[j - 1] = s[j]
    BY <1>1
  <2> QED
    BY <2>1 DEF Holds
<1>3. 1 \in 1 .. Len(s) /\ s[1].type = "PLAY"
  BY <1>1
<1>4. /\ ShowsBefore(s, 1, has, v, b)
      /\ \A j \in 1 + 1 .. Len(s) : s[j].type = "GAME_STATE" => s[j].board = b
  BY <1>2, <1>3 DEF Fresh
<1>5. has /\ v = b
  BY <1>4 DEF ShowsBefore
<1>6. AllShow(Tail(s), b)
  BY <1>1, <1>4 DEF AllShow
<1> QED
  BY <1>2, <1>3, <1>5, <1>6 DEF Prompted

LEMMA FreshAppend ==
    ASSUME NEW s \in Seq(Messages), NEW m \in Messages, NEW has, NEW v, NEW b
    PROVE  /\ Fresh(s, has, v, b) /\ m.type = "PLAY" /\ Shows(s, has, v, b)
                 => Fresh(Append(s, m), has, v, b)
           /\ Fresh(s, has, v, b) /\ m.type # "PLAY"
                /\ (m.type = "GAME_STATE" => m.board = b)
                 => Fresh(Append(s, m), has, v, b)
           /\ ~ Prompted(s) => Fresh(s, has, v, b)
<1> DEFINE t == Append(s, m)
<1>1. /\ Len(s) \in Nat /\ Len(t) = Len(s) + 1 /\ t[Len(s) + 1] = m
      /\ \A i \in 1 .. Len(s) : t[i] = s[i]
  BY AppendElements
<1>2. \A i \in 1 .. Len(s) + 1 :
         ShowsBefore(t, i, has, v, b) <=> ShowsBefore(s, i, has, v, b)
  BY ShowsLess
<1> HIDE DEF t
<1>3. ASSUME Fresh(s, has, v, b),
             IF m.type = "PLAY" THEN Shows(s, has, v, b)
                ELSE m.type = "GAME_STATE" => m.board = b,
             NEW i \in 1 .. Len(t), t[i].type = "PLAY",
             \A j \in i + 1 .. Len(t) : t[j].type # "GENERAL_ACK"
      PROVE  /\ ShowsBefore(t, i, has, v, b)
             /\ \A j \in i + 1 .. Len(t) :
                   t[j].type = "GAME_STATE" => t[j].board = b
  <2>1. CASE i = Len(s) + 1
    <3>1. m.type = "PLAY"
      BY <1>1, <1>3, <2>1
    <3>2. ShowsBefore(s, i, has, v, b)
      BY <1>3, <2>1, <3>1 DEF Shows
    <3>3. ShowsBefore(t, i, has, v, b)
      BY <1>1, <1>2, <2>1, <3>2
    <3>4. i + 1 .. Len(t) = {}
      BY <1>1, <2>1
    <3> QED
      BY <3>3, <3>4
  <2>2. CASE i \in 1 .. Len(s)
    <3>1. s[i].type = "PLAY"
      BY <1>1, <1>3, <2>2
    <3>2. ASSUME NEW j \in i + 1 .. Len(s) PROVE s[j].type # "GENERAL_ACK"
      BY <1>1, <1>3, <2>2
    <3>3. /\ ShowsBefore(s, i, has, v, b)
          /\ \A j \in i + 1 .. Len(s) :
                s[j].type = "GAME_STATE" => s[j].board = b
      BY <1>3, <2>2, <3>1, <3>2 DEF Fresh
    <3>4. ShowsBefore(t, i, has, v, b)
      BY <1>1, <1>2, <2>2, <3>3
    <3>5. ASSUME NEW j \in i + 1 .. Len(t), t[j].type = "GAME_STATE"
          PROVE  t[j].board = b
      <4>1. CASE j = Len(s) + 1
        BY <1>1, <1>3, <3>5, <4>1
      <4>2. CASE j # Len(s) + 1
        <5>1. j \in i + 1 .. Len(s) /\ t[j] = s[j]
          BY <1>1, <2>2, <4>2
        <5> QED
          BY <3>3, <3>5, <5>1
      <4> QED
        BY <4>1, <4>2
    <3> QED
      BY <3>4, <3>5
  <2> QED
    BY <1>1, <2>1, <2>2
<1>4. ASSUME Fresh(s, has, v, b),
             IF m.type = "PLAY" THEN Shows(s, has, v, b)
                ELSE m.type = "GAME_STATE" => m.board = b
      PROVE  Fresh(t, has, v, b)
  BY <1>4, <1>3 DEF Fresh
<1>5. ~ Prompted(s) => Fresh(s, has, v, b)
  BY DEF Prompted, Fresh
<1> QED
  BY <1>4, <1>5 DEF t

LEMMA LegalMovesSteps ==
    ASSUME NEW s \in Seq(Messages), NEW b
    PROVE  /\ LegalMoves(s, b) /\ s # <<>> => LegalMoves(Tail(s), b)
           /\ \A m \in Messages :
                 /\ LegalMoves(s, b)
                 /\ m.type = "MOVE" => IsMoveValid(b, m.coin_index, m.coin_pos)
                 => LegalMoves(Append(s, m), b)
           /\ ~ Holds(s, "MOVE") => LegalMoves(s, b)
<1>1. ASSUME LegalMoves(s, b), s # <<>> PROVE LegalMoves(Tail(s), b)
  BY <1>1, TailElements DEF LegalMoves
<1>2. ASSUME NEW m \in Messages, LegalMoves(s, b),
             m.type = "MOVE" => IsMoveValid(b, m.coin_index, m.coin_pos)
      PROVE  LegalMoves(Append(s, m), b)
  <2> DEFINE t == Append(s, m)
  <2>1. /\ Len(s) \in Nat /\ Len(t) = Len(s) + 1 /\ t[Len(s) + 1] = m
        /\ \A i \in 1 .. Len(s) : t[i] = s[i]
    BY AppendElements
  <2> HIDE DEF t
  <2>2. LegalMoves(t, b)
    BY <1>2, <2>1 DEF LegalMoves
  <2> QED
    BY <2>2 DEF t
<1>3. ~ Holds(s, "MOVE") => LegalMoves(s, b)
  BY DEF Holds, LegalMoves
<1> QED
  BY <1>1, <1>2, <1>3

LEMMA UnsharedFacts ==
    ASSUME BaseInv, TurnInv, Unshared
    PROVE  /\ Talking /\ pc \in InPlay \ {"last_ack", "illegal_ack"}
           /\ seat \in Ids /\ others[seat] = 0
           /\ ~ Holds(toClient, "ILLEGAL_PLAY") /\ TheirTurn(board)
<1>1. Talking /\ ~ Holds(toClient, "ILLEGAL_PLAY") /\ TheirTurn(board)
  BY DEF TurnInv, Unshared, Talking
<1>2. pc \in InPlay \ {"last_ack", "illegal_ack"}
  BY DEF TurnInv, Unshared, BaseInv, SeatInv, OverPcs, MatchPcs, EndPcs, InPlay
<1>3. seat \in Ids /\ others[seat] = 0
  BY DEF Unshared, BaseInv, TypeOK, SeatInv, Seated
<1> QED
  BY <1>1, <1>2, <1>3

KeepTurn == UNCHANGED <<pc, seat, board, current_turn, game_over, others>>

\* The client takes the next message while the thread plays.
LEMMA TakesTurn ==
    ASSUME BaseInv, PlayInv, TurnInv, Unshared, KeepTurn, net' # "ERROR",
           toClient # <<>>, toClient' = Tail(toClient),
           Head(toClient).type # "ILLEGAL_PLAY",
           UNCHANGED toServer \/ toServer' = Append(toServer, Ack),
           IF Head(toClient).type = "GAME_STATE"
           THEN InGame' /\ view' = Head(toClient).board
           ELSE InGame => InGame' /\ view' = view,
           InGame' /\ is_our_turn' /\ ~ waiting_for_ack' =>
              \/ InGame /\ is_our_turn /\ ~ waiting_for_ack
              \/ /\ Head(toClient).type = "PLAY"
                 /\ ~ Holds(toClient, "GENERAL_ACK")
              \/ Starting(Head(toClient)) /\ view' = NoCoins
    PROVE  TurnInv'
<1>1. /\ toClient \in Seq(Messages) /\ toServer \in Seq(Messages)
      /\ Ack \in Messages /\ Ack.type = "GENERAL_ACK"
  BY Sent DEF BaseInv, TypeOK, Ack
<1>2. /\ TheirTurn(board) /\ ~ Holds(toClient, "ILLEGAL_PLAY") /\ Talking
      /\ pc \in InPlay
  BY UnsharedFacts
<1>3. \A t : Holds(toClient, t) <=>
                Head(toClient).type = t \/ Holds(toClient', t)
  BY <1>1, HoldsTail
<1>4. /\ Holds(toServer', "MOVE") => Holds(toServer, "MOVE")
      /\ LegalMoves(toServer', board)
  <2>1. LegalMoves(toServer, board)
    BY <1>2 DEF TheirTurn
  <2>2. /\ Holds(Append(toServer, Ack), "MOVE") => Holds(toServer, "MOVE")
        /\ LegalMoves(Append(toServer, Ack), board)
    BY <1>1, <2>1, HoldsAppend, LegalMovesSteps
  <2> QED
    BY <2>1, <2>2
<1>5. AllShow(toClient, board) =>
        /\ AllShow(toClient', board)
        /\ Head(toClient).type = "GAME_STATE" => Head(toClient).board = board
  BY <1>1, AllShowSteps
<1>6. ASSUME InGame' /\ is_our_turn' /\ ~ waiting_for_ack'
      PROVE  /\ current_turn = seat /\ AllShow(toClient', board)
             /\ view' \in {NoCoins, board}
  <2>1. CASE InGame /\ is_our_turn /\ ~ waiting_for_ack
    BY <1>2, <1>5, <2>1 DEF TheirTurn
  <2>2. CASE /\ Head(toClient).type = "PLAY"
             /\ ~ Holds(toClient, "GENERAL_ACK")
    <3>1. Fresh(toClient, InGame, view, board)
      BY <1>2 DEF TheirTurn
    <3>2. /\ Prompted(toClient) /\ InGame /\ view = board
          /\ AllShow(toClient', board)
      BY <1>1, <1>3, <2>2, <3>1, FreshHead
    <3> QED
      BY <1>2, <2>2, <3>2 DEF TheirTurn
  <2>3. CASE Starting(Head(toClient)) /\ view' = NoCoins
    <3>1. 1 \in 1 .. Len(toClient) /\ Head(toClient) = toClient[1]
      BY <1>1, TailElements
    <3> QED
      BY <1>2, <1>5, <2>3, <3>1 DEF TheirTurn
  <2> QED
    BY <1>6, <2>1, <2>2, <2>3
<1>7. ASSUME Holds(toServer', "MOVE")
      PROVE  current_turn = seat /\ AllShow(toClient', board) /\ view' = board
  <2>1. current_turn = seat /\ AllShow(toClient, board) /\ view = board
    BY <1>2, <1>4, <1>7 DEF TheirTurn
  <2>2. InGame
    BY <1>2, <1>4, <1>7 DEF PlayInv, AnswerInv, InGame
  <2> QED
    BY <1>5, <2>1, <2>2
<1>8. Prompted(toClient') => current_turn = seat
  BY <1>1, <1>2, PromptedTail DEF TheirTurn
<1>9. Fresh(toClient', InGame', view', board)
  <2>1. Fresh(toClient, InGame, view, board)
    BY <1>2 DEF TheirTurn
  <2> QED
    BY <1>1, <2>1, FreshTail
<1>10. ASSUME NEW i \in 1 .. Len(toClient'), Starting(toClient'[i])
       PROVE  current_turn = seat /\ AllShow(toClient', board)
  <2>1. i + 1 \in 1 .. Len(toClient) /\ toClient[i + 1] = toClient'[i]
    BY <1>1, TailElements
  <2> QED
    BY <1>2, <1>5, <1>10, <2>1 DEF TheirTurn
<1>11. ASSUME pc \in {"turn_ack", "play_ack", "move"}
       PROVE  current_turn = seat /\ Shows(toClient', InGame', view', board)
  <2>1. current_turn = seat /\ Shows(toClient, InGame, view, board)
    BY <1>11 DEF TurnInv
  <2>2. /\ Len(toClient) \in Nat \ {0}
        /\ Len(toClient') = Len(toClient) - 1
    BY <1>1, TailElements
  <2>3. Len(toClient) + 1 \in 2 .. Len(toClient) + 1
    BY <2>2
  <2>4. ShowsBefore(toClient', (Len(toClient) + 1) - 1, InGame', view', board)
    BY <1>1, <2>1, <2>3, ShowsTail DEF Shows
  <2>5. (Len(toClient) + 1) - 1 = Len(toClient') + 1
    BY <2>2
  <2> QED
    BY <2>1, <2>4, <2>5 DEF Shows
<1>12. UNCHANGED <<pc, seat, board, current_turn>>
  BY DEF KeepTurn
<1>13. TheirTurn(board)'
  BY <1>4, <1>6, <1>7, <1>8, <1>9, <1>10, <1>12 DEF TheirTurn
<1>14. pc # "illegal_ack" /\ ~ Holds(toClient', "ILLEGAL_PLAY")
  BY <1>2, <1>3, UnsharedFacts
<1>15. pc' \in {"turn_ack", "play_ack", "move"} =>
          current_turn' = seat' /\ Shows(toClient', InGame', view', board')
  BY <1>11, <1>12
<1> QED
  BY <1>12, <1>13, <1>14, <1>15 DEF TurnInv

\* A step of the client that leaves the thread in a match on a turn.
LEMMA ClientUnshared ==
    ASSUME BaseInv, StreamInv, PlayInv, TurnInv,
           KeepServer, Unshared', link' = "open" => link = "open"
    PROVE  /\ Unshared /\ KeepTurn /\ Talking /\ pc \in InPlay
           /\ blocked \notin Early
<1>1. Unshared /\ KeepTurn
  BY DEF Unshared, KeepTurn, KeepServer, threadVars, lobbyVars
<1> QED
  BY <1>1, UnsharedFacts, EarlyPlay

\* What the client takes between two frames and answers.
LEMMA ArrivesTurn ==
    ASSUME BaseInv, StreamInv, PlayInv, TurnInv, NEW nets, NEW types,
           Arrives(nets, types), net' # "ERROR", Send(Ack),
           Unshared /\ Talking /\ pc \in InPlay =>
              /\ IF Head(toClient).type = "GAME_STATE"
                 THEN InGame' /\ view' = Head(toClient).board
                 ELSE InGame => InGame' /\ view' = view
              /\ InGame' /\ is_our_turn' /\ ~ waiting_for_ack' =>
                    \/ InGame /\ is_our_turn /\ ~ waiting_for_ack
                    \/ /\ Head(toClient).type = "PLAY"
                       /\ ~ Holds(toClient, "GENERAL_ACK")
                    \/ Starting(Head(toClient)) /\ view' = NoCoins
    PROVE  TurnInv'
<1> SUFFICES ASSUME Unshared' PROVE TurnInv'
  BY DEF TurnInv
<1>1. /\ toClient # <<>> /\ toClient' = Tail(toClient) /\ KeepServer
      /\ Readable(Head(toClient))
  BY DEF Arrives
<1>2. link' = "open" => link = "open"
  BY Answers
<1>3. Unshared /\ KeepTurn /\ Talking /\ pc \in InPlay
  BY <1>1, <1>2, ClientUnshared
<1>4. toServer' = Append(toServer, Ack)
  BY <1>3, Sent, Sends DEF BaseInv, Talking
<1>5. Head(toClient).type # "ILLEGAL_PLAY"
  BY <1>1, ReadableTypes
<1> QED
  BY <1>1, <1>3, <1>4, <1>5, TakesTurn

LEMMA TakeGameWaitTurn ==
    ASSUME BaseInv, StreamInv, PlayInv, TurnInv, TakeGameWait PROVE TurnInv'
<1>1. /\ Arrives({"IN_LOBBY"}, {"GAME_WAIT"}) /\ Send(Ack)
      /\ net = "IN_LOBBY" /\ net' = net /\ ~ InGame /\ ~ InGame'
      /\ Head(toClient).type = "GAME_WAIT"
  BY DEF TakeGameWait, Arrives, InGame
<1> QED
  BY <1>1, ArrivesTurn

LEMMA TakeGameStartTurn ==
    ASSUME BaseInv, StreamInv, PlayInv, TurnInv, TakeGameStart PROVE TurnInv'
<1>1. /\ Arrives({"IN_LOBBY"}, {"GAME_START"}) /\ Send(Ack)
      /\ net = "IN_LOBBY" /\ net' = "IN_GAME" /\ ~ InGame
      /\ Head(toClient).type = "GAME_START" /\ view' = NoCoins
      /\ is_our_turn' => Starting(Head(toClient))
  BY DEF TakeGameStart, Arrives, InGame, Starting
<1> QED
  BY <1>1, ArrivesTurn

LEMMA TakeGameStateTurn ==
    ASSUME BaseInv, StreamInv, PlayInv, TurnInv, TakeGameState PROVE TurnInv'
<1>1. /\ Arrives(Afterwards, {"GAME_STATE"}) /\ Send(Ack)
      /\ blocked = "no" /\ net \in Afterwards /\ net' = net
      /\ UNCHANGED <<is_our_turn, waiting_for_ack, InGame>>
      /\ Head(toClient).type = "GAME_STATE"
      /\ view' = IF InGame THEN Head(toClient).board ELSE view
  BY DEF TakeGameState, Arrives, InGame
<1>2. Talking /\ pc \in InPlay => InGame
  BY <1>1, InPlayStates DEF InGame
<1>3. net' # "ERROR"
  BY <1>1 DEF Afterwards
<1> QED
  BY <1>1, <1>2, <1>3, ArrivesTurn

\* While no answer to a move is awaited, none comes.
LEMMA TakePlayTurn ==
    ASSUME BaseInv, StreamInv, PlayInv, TurnInv, TakePlay PROVE TurnInv'
<1>1. /\ Arrives(Afterwards, {"PLAY"}) /\ Send(Ack)
      /\ blocked = "no" /\ net \in Afterwards /\ net' = net
      /\ UNCHANGED <<view, waiting_for_ack, InGame>>
      /\ Head(toClient).type = "PLAY"
  BY DEF TakePlay, Arrives, InGame
<1>2. Talking /\ pc \in InPlay /\ ~ waiting_for_ack
         => ~ Holds(toClient, "GENERAL_ACK")
  BY <1>1 DEF PlayInv, AnswerInv
<1>3. net' # "ERROR"
  BY <1>1 DEF Afterwards
<1> QED
  BY <1>1, <1>2, <1>3, ArrivesTurn

LEMMA TakeProfileTurn ==
    ASSUME BaseInv, StreamInv, PlayInv, TurnInv, TakeProfile PROVE TurnInv'
<1>1. /\ Arrives(Afterwards, {"PLAYER_INFO", "PLAYER_DATA_UPDATE"}) /\ Send(Ack)
      /\ net' = net /\ net \in Afterwards
      /\ UNCHANGED <<view, is_our_turn, waiting_for_ack, InGame>>
      /\ Head(toClient).type \in {"PLAYER_INFO", "PLAYER_DATA_UPDATE"}
  BY DEF TakeProfile, Arrives, InGame, KeepGame
<1>2. net' # "ERROR"
  BY <1>1 DEF Afterwards
<1> QED
  BY <1>1, <1>2, ArrivesTurn

LEMMA TakeGameEndTurn ==
    ASSUME BaseInv, StreamInv, PlayInv, TurnInv, TakeGameEnd PROVE TurnInv'
<1>1. /\ Arrives({"IN_GAME"}, {"GAME_END"}) /\ Send(Ack)
      /\ net = "IN_GAME" /\ net' = "CONNECTED"
      /\ toClient # <<>> /\ Head(toClient).type = "GAME_END"
  BY DEF TakeGameEnd, Arrives
<1>2. ~ (Talking /\ pc \in InPlay)
  BY <1>1, InPlayStates DEF Ack, InMatchTypes
<1> QED
  BY <1>1, <1>2, ArrivesTurn

LEMMA TakeAckTurn ==
    ASSUME BaseInv, StreamInv, PlayInv, TurnInv, TakeAck PROVE TurnInv'
<1> SUFFICES ASSUME Unshared' PROVE TurnInv'
  BY DEF TurnInv
<1>1. /\ blocked = "no" /\ net \in Afterwards
      /\ toClient # <<>> /\ toClient' = Tail(toClient)
      /\ Head(toClient).type = "GENERAL_ACK"
      /\ is_our_turn' =
           (is_our_turn /\ ~ (waiting_for_ack /\ Head(toClient).ok))
      /\ UNCHANGED <<net, link, toServer, view, InGame>> /\ KeepServer
  BY DEF TakeAck, Arrives, InGame
<1>2. Unshared /\ KeepTurn /\ Talking /\ pc \in InPlay
  BY <1>1, ClientUnshared
<1>3. net = "IN_GAME" /\ Head(toClient) = Ack
  BY <1>1, <1>2, InPlayStates DEF InMatchTypes
<1>4. waiting_for_ack
  <2>1. Holds(toClient, "GENERAL_ACK")
    BY <1>1, HoldsTail DEF BaseInv, TypeOK
  <2> QED
    BY <1>1, <1>2, <2>1 DEF PlayInv, AnswerInv
<1>5. ~ is_our_turn'
  <2>1. Head(toClient).ok
    BY <1>3 DEF Ack
  <2> QED
    BY <1>1, <1>4, <2>1, Zenon
<1> QED
  BY <1>1, <1>2, <1>3, <1>5, TakesTurn

LEMMA TakeJoinAckTurn ==
    ASSUME BaseInv, StreamInv, PlayInv, TurnInv, TakeJoinAck PROVE TurnInv'
<1> SUFFICES ASSUME Unshared' PROVE TurnInv'
  BY DEF TurnInv
<1>1. blocked = "join_ack" /\ link' = link /\ KeepServer
  BY DEF TakeJoinAck
<1>2. Unshared /\ KeepTurn /\ Talking /\ pc \in InPlay
  BY <1>1, ClientUnshared
<1>3. /\ toClient # <<>> /\ Head(toClient) = Ack /\ net = "CONNECTED"
  BY <1>1, <1>2, PlayFacts, InPlayPcs DEF BaseInv, ClientInv
<1>4. Granted
  BY <1>1, <1>3, ReadableTypes DEF Granted, Expected, IsOk, Ack
<1>5. /\ toClient' = Tail(toClient) /\ net' = "IN_LOBBY"
      /\ ~ InGame /\ ~ InGame'
      /\ toServer' = toServer
  BY <1>3, <1>4 DEF TakeJoinAck, InGame
<1>6. Head(toClient).type = "GENERAL_ACK"
  BY <1>3 DEF Ack
<1> QED
  BY <1>2, <1>3, <1>5, <1>6, TakesTurn

\* Only ILLEGAL_PLAY fails to decode, and it is not sent.
LEMMA PollFailsTurn ==
    ASSUME BaseInv, StreamInv, PlayInv, TurnInv, PollFails PROVE TurnInv'
<1> SUFFICES ASSUME Unshared' PROVE FALSE
  BY DEF TurnInv
<1>1. link' = link /\ KeepServer /\ Polling
  BY DEF PollFails
<1>2. Unshared /\ Talking /\ pc \in InPlay
  BY <1>1, ClientUnshared
<1>3. toClient # <<>> /\ ~ Readable(Head(toClient))
  BY <1>2 DEF PollFails, RecvFails, Talking
<1>4. \/ Head(toClient).type \in {"GAME_WAIT", "GAME_START"}
      \/ Head(toClient) = Ack \/ Head(toClient).type \in InMatchTypes
  BY <1>1, <1>2, <1>3, PlayFacts, InPlayPcs DEF Polling
<1>5. Head(toClient).type # "ILLEGAL_PLAY"
  <2>1. ~ Holds(toClient, "ILLEGAL_PLAY")
    BY <1>2, UnsharedFacts
  <2> QED
    BY <1>3, <2>1, HoldsTail DEF BaseInv, TypeOK
<1> QED
  BY <1>3, <1>4, <1>5, ReadableTypes DEF InMatchTypes, Ack

LEMMA SendMoveTurn ==
    ASSUME BaseInv, StreamInv, PlayInv, TurnInv,
           NEW i \in Cells, NEW j \in Cells, SendMove(i, j)
    PROVE  TurnInv'
<1> SUFFICES ASSUME Unshared' PROVE TurnInv'
  BY DEF TurnInv
<1> DEFINE m == Move(i, j)
<1>1. /\ InGame /\ is_our_turn /\ ~ waiting_for_ack
      /\ ClientMoveIsValid(view, i, j) /\ Send(m)
      /\ UNCHANGED <<is_our_turn, view, toClient>> /\ KeepServer
      /\ net' = IF SendFails THEN "ERROR" ELSE net
      /\ waiting_for_ack' = ~ SendFails
  BY DEF SendMove
<1>2. /\ m \in Messages /\ m.type = "MOVE"
      /\ m.coin_index = i /\ m.coin_pos = j
      /\ toServer \in Seq(Messages) /\ TypeOK /\ view \in Boards
      /\ i \in Int /\ j \in Int
  BY Sent, BoardAssumption DEF BaseInv, TypeOK, Move, Cells
<1> HIDE DEF m
<1>3. link' = "open" => link = "open" /\ toServer' = Append(toServer, m)
  BY <1>1, <1>2, Sends
<1>4. Unshared /\ KeepTurn /\ Talking /\ pc \in InPlay
  BY <1>1, <1>3, ClientUnshared
<1>5. toServer' = Append(toServer, m)
  BY <1>3 DEF Unshared
<1>6. net' = net /\ waiting_for_ack' /\ InGame' /\ net # "ERROR"
  BY <1>1, <1>4 DEF SendFails, Talking, InGame
<1>7. /\ current_turn = seat /\ AllShow(toClient, board)
      /\ view \in {NoCoins, board}
  BY <1>1, <1>4, UnsharedFacts DEF TheirTurn
<1>8. view = board
  <2>1. view[i] # 0
    BY <1>1 DEF ClientMoveIsValid
  <2>2. NoCoins[i] = 0
    BY DEF NoCoins
  <2> QED
    BY <1>7, <2>1, <2>2
<1>9. LegalMoves(toServer', board)
  <2>1. IsMoveValid(board, m.coin_index, m.coin_pos)
    BY <1>1, <1>2, <1>8, ClientRule
  <2>2. LegalMoves(toServer, board)
    BY <1>4, UnsharedFacts DEF TheirTurn
  <2> QED
    BY <1>2, <1>5, <2>1, <2>2, LegalMovesSteps
<1>10. UNCHANGED <<pc, seat, board, current_turn, view, InGame, toClient>>
  BY <1>1, <1>4, <1>6 DEF KeepTurn
<1>11. TheirTurn(board)'
  <2>1. TheirTurn(board)
    BY <1>4, UnsharedFacts
  <2> QED
    BY <1>6, <1>7, <1>8, <1>9, <1>10, <2>1 DEF TheirTurn
<1> QED
  BY <1>4, <1>6, <1>10, <1>11 DEF TurnInv

\* The other steps of the client are none that it takes in a match.
LEMMA OtherwiseTurn ==
    ASSUME BaseInv, StreamInv, PlayInv, TurnInv,
           \/ \E p : Connect(p) \/ ConnectFails(p)
           \/ TakeConnectAck \/ TakePlayerInfo \/ ConnectRefused
           \/ JoinGame \/ SendShopAction \/ Leave
    PROVE  TurnInv'
<1> SUFFICES ASSUME Unshared' PROVE FALSE
  BY DEF TurnInv
<1>0. TypeOK /\ Ack \in Messages
      /\ Plain("GAME_JOIN") \in Messages /\ Plain("SHOP_ACTION") \in Messages
  BY Sent DEF BaseInv
<1>1. CASE \E p : Connect(p) \/ ConnectFails(p)
  BY <1>1
     DEF Unshared, Connect, ConnectFails, Request, MatchPcs, AckPcs, EndPcs,
         linkVars
<1>2. CASE ConnectRefused \/ Leave
  BY <1>2 DEF Unshared, ConnectRefused, Leave, CloseSocket
<1>3. CASE TakeConnectAck
  <2>1. KeepServer /\ link' = link /\ blocked = "connect_ack"
    BY <1>3 DEF TakeConnectAck
  <2> QED
    BY <2>1, ClientUnshared DEF Early
<1>4. CASE TakePlayerInfo
  <2>1. KeepServer /\ blocked = "player_info" /\ Send(Ack)
    BY <1>4 DEF TakePlayerInfo
  <2>2. link' = "open" => link = "open"
    BY <1>0, <2>1, Sends
  <2> QED
    BY <2>1, <2>2, ClientUnshared DEF Early
<1>5. CASE JoinGame
  <2>1. KeepServer /\ blocked = "join" /\ Send(Plain("GAME_JOIN"))
    BY <1>5 DEF JoinGame
  <2>2. link' = "open" => link = "open"
    BY <1>0, <2>1, Sends
  <2> QED
    BY <2>1, <2>2, ClientUnshared DEF Early
<1>6. CASE SendShopAction
  <2>1. /\ KeepServer /\ Send(Plain("SHOP_ACTION"))
        /\ blocked = "no" /\ net = "CONNECTED"
    BY <1>6 DEF SendShopAction
  <2>2. link' = "open" => link = "open"
    BY <1>0, <2>1, Sends
  <2>3. Talking /\ pc \in InPlay
    BY <2>1, <2>2, ClientUnshared
  <2> QED
    BY <2>1, <2>3, InPlayStates DEF Afterwards
<1> QED
  BY <1>1, <1>2, <1>3, <1>4, <1>5, <1>6

\* The thread sends n while it plays, or nothing.
LEMMA SendsTurn ==
    ASSUME BaseInv, TurnInv, Unshared, KeepClient, KeepLobby,
           \/ toServer' = toServer
           \/ toServer # <<>> /\ toServer' = Tail(toServer),
           \/ toClient' = toClient
           \/ \E n \in Messages :
                 /\ toClient' = Append(toClient, n)
                 /\ \/ n.type = "GAME_STATE" /\ n.board = board
                    \/ /\ n.type = "PLAY" /\ current_turn = seat
                       /\ Shows(toClient, InGame, view, board),
           pc' # "illegal_ack",
           pc' \in {"turn_ack", "play_ack", "move"} =>
              /\ current_turn = seat
              /\ \/ Shows(toClient, InGame, view, board)
                 \/ toClient' = Append(toClient, GameState(board))
    PROVE  TurnInv'
<1>1. /\ toClient \in Seq(Messages) /\ toServer \in Seq(Messages)
      /\ GameState(board) \in Messages
      /\ GameState(board).type = "GAME_STATE" /\ GameState(board).board = board
  BY Sent DEF BaseInv, TypeOK, GameState
<1>2. /\ UNCHANGED <<net, is_our_turn, waiting_for_ack, view, InGame>>
      /\ UNCHANGED <<seat, board, current_turn>>
  BY DEF KeepClient, clientVars, InGame, KeepLobby, lobbyVars
<1>3. TheirTurn(board) /\ ~ Holds(toClient, "ILLEGAL_PLAY") /\ net # "ERROR"
  BY UnsharedFacts DEF Talking
<1>4. /\ Holds(toServer', "MOVE") => Holds(toServer, "MOVE")
      /\ LegalMoves(toServer', board)
  <2>1. LegalMoves(toServer, board)
    BY <1>3 DEF TheirTurn
  <2>2. toServer # <<>> =>
          /\ Holds(Tail(toServer), "MOVE") => Holds(toServer, "MOVE")
          /\ LegalMoves(Tail(toServer), board)
    BY <1>1, <2>1, HoldsTail, LegalMovesSteps
  <2> QED
    BY <2>1, <2>2
<1>5. /\ AllShow(toClient, board) => AllShow(toClient', board)
      /\ Prompted(toClient') => current_turn = seat
      /\ Fresh(toClient', InGame, view, board)
      /\ ~ Holds(toClient', "ILLEGAL_PLAY")
      /\ \A i \in 1 .. Len(toClient') :
            Starting(toClient'[i]) =>
               current_turn = seat /\ AllShow(toClient, board)
      /\ Shows(toClient, InGame, view, board)
            => Shows(toClient', InGame, view, board)
  <2>1. /\ Prompted(toClient) => current_turn = seat
        /\ Fresh(toClient, InGame, view, board)
        /\ \A i \in 1 .. Len(toClient) :
              Starting(toClient[i]) =>
                 current_turn = seat /\ AllShow(toClient, board)
    BY <1>3 DEF TheirTurn
  <2>2. CASE toClient' = toClient
    BY <1>3, <2>1, <2>2
  <2>3. ASSUME NEW n \in Messages, toClient' = Append(toClient, n),
               \/ n.type = "GAME_STATE" /\ n.board = board
               \/ /\ n.type = "PLAY" /\ current_turn = seat
                  /\ Shows(toClient, InGame, view, board)
        PROVE  /\ AllShow(toClient, board) => AllShow(toClient', board)
               /\ Prompted(toClient') => current_turn = seat
               /\ Fresh(toClient', InGame, view, board)
               /\ ~ Holds(toClient', "ILLEGAL_PLAY")
               /\ \A i \in 1 .. Len(toClient') :
                     Starting(toClient'[i]) =>
                        current_turn = seat /\ AllShow(toClient, board)
               /\ Shows(toClient, InGame, view, board)
                     => Shows(toClient', InGame, view, board)
    <3>1. AllShow(toClient, board) => AllShow(toClient', board)
      BY <1>1, <2>3, AllShowSteps
    <3>2. Prompted(toClient') => current_turn = seat
      BY <1>1, <2>1, <2>3, PromptedAppend
    <3>3. Fresh(toClient', InGame, view, board)
      BY <1>1, <2>1, <2>3, FreshAppend
    <3>4. ~ Holds(toClient', "ILLEGAL_PLAY")
      BY <1>1, <1>3, <2>3, HoldsAppend
    <3>5. ASSUME NEW i \in 1 .. Len(toClient'), Starting(toClient'[i])
          PROVE  current_turn = seat /\ AllShow(toClient, board)
      <4>1. /\ Len(toClient) \in Nat /\ Len(toClient') = Len(toClient) + 1
            /\ toClient'[Len(toClient) + 1] = n
            /\ \A k \in 1 .. Len(toClient) : toClient'[k] = toClient[k]
        BY <1>1, <2>3, AppendElements
      <4>2. ~ Starting(n)
        BY <2>3 DEF Starting
      <4>3. i \in 1 .. Len(toClient) /\ Starting(toClient[i])
        BY <3>5, <4>1, <4>2
      <4> QED
        BY <2>1, <4>3
    <3>6. Shows(toClient, InGame, view, board)
             => Shows(toClient', InGame, view, board)
      BY <1>1, <2>3, ShowsAppend
    <3> QED
      BY <3>1, <3>2, <3>3, <3>4, <3>5, <3>6
  <2> QED
    BY <2>2, <2>3
<1>6. TheirTurn(board)'
  BY <1>2, <1>3, <1>4, <1>5 DEF TheirTurn
<1>7. ASSUME pc' \in {"turn_ack", "play_ack", "move"}
      PROVE  /\ current_turn' = seat'
             /\ Shows(toClient', InGame', view', board')
  <2>1. Shows(toClient', InGame, view, board)
    <3>1. CASE Shows(toClient, InGame, view, board)
      BY <1>5, <3>1
    <3>2. CASE toClient' = Append(toClient, GameState(board))
      BY <1>1, <3>2, ShowsAppend
    <3> QED
      BY <1>7, <3>1, <3>2
  <2> QED
    BY <1>2, <1>7, <2>1
<1> QED
  BY <1>2, <1>3, <1>5, <1>6, <1>7 DEF TurnInv

LEMMA HandleAckTurn ==
    ASSUME BaseInv, StreamInv, PlayInv, TurnInv,
           NEW m \in Received, HandleAck(m)
    PROVE  TurnInv'
<1> SUFFICES ASSUME Unshared' PROVE TurnInv'
  BY DEF TurnInv
<1>1. /\ KeepClient /\ KeepLobby /\ pc \in AckPcs
      /\ \/ toServer' = toServer
         \/ toServer # <<>> /\ toServer' = Tail(toServer)
  BY HandsOn, Consumes DEF BaseInv, HandleAck
<1>2. Unshared
  <2>1. pc # "last_ack"
    BY HandsOn DEF BaseInv, Unshared, OverPcs
  <2> QED
    BY <1>1, <2>1 DEF Unshared, KeepClient, KeepLobby, lobbyVars, MatchPcs,
                      OverPcs, AckPcs, EndPcs
<1>3. pc # "illegal_ack" /\ link = "open" /\ toClient \in Seq(Messages)
  BY <1>2 DEF TurnInv, Unshared, BaseInv, TypeOK
<1>4. pc \in {"turn_ack", "play_ack", "move"} =>
         current_turn = seat /\ Shows(toClient, InGame, view, board)
  BY <1>2 DEF TurnInv
<1>5. CASE /\ pc = "start_ack"
           /\ Tell(<<GameState(board)>>, "state_ack", "forfeit")
  <2>1. /\ pc' = "state_ack" /\ toClient' = Append(toClient, GameState(board))
    BY <1>3, <1>5 DEF Tell
  <2>2. /\ GameState(board) \in Messages /\ GameState(board).type = "GAME_STATE"
        /\ GameState(board).board = board
    BY Sent DEF GameState, BaseInv, TypeOK
  <2> QED
    BY <1>1, <1>2, <2>1, <2>2, SendsTurn
<1>6. CASE pc = "turn_ack" /\ Tell(<<Plain("PLAY")>>, "play_ack", "forfeit")
  <2>1. /\ pc' = "play_ack" /\ toClient' = Append(toClient, Plain("PLAY"))
    BY <1>3, <1>6 DEF Tell
  <2>2. Plain("PLAY") \in Messages /\ Plain("PLAY").type = "PLAY"
    BY Sent DEF Plain
  <2> QED
    BY <1>1, <1>2, <1>4, <1>6, <2>1, <2>2, SendsTurn
<1>7. CASE /\ <<pc, pc'>> \in {<<"state_ack", "turn">>, <<"play_ack", "move">>,
                <<"illegal_ack", "move">>, <<"moved_ack", "turn">>,
                <<"last_ack", "result">>}
           /\ toClient' = toClient
  BY <1>1, <1>2, <1>3, <1>4, <1>7, SendsTurn
<1> QED
  BY <1>5, <1>6, <1>7, HandsOn DEF BaseInv

LEMMA TakeTurnTurn ==
    ASSUME BaseInv, StreamInv, PlayInv, TurnInv, TakeTurn PROVE TurnInv'
<1> SUFFICES ASSUME Unshared' PROVE TurnInv'
  BY DEF TurnInv
<1>1. /\ pc = "turn" /\ current_turn = seat /\ KeepClient /\ KeepLobby
      /\ toServer' = toServer
      /\ Tell(<<GameState(board)>>, "turn_ack", "forfeit")
  BY DEF TakeTurn
<1>2. Unshared
  BY <1>1 DEF Unshared, KeepClient, KeepLobby, lobbyVars, MatchPcs, OverPcs,
             AckPcs, EndPcs
<1>3. /\ pc' = "turn_ack" /\ toClient' = Append(toClient, GameState(board))
  BY <1>1, <1>2 DEF Tell, Unshared, BaseInv, TypeOK
<1>4. /\ GameState(board) \in Messages /\ GameState(board).type = "GAME_STATE"
      /\ GameState(board).board = board
  BY Sent DEF GameState, BaseInv, TypeOK
<1> QED
  BY <1>1, <1>2, <1>3, <1>4, SendsTurn

LEMMA FailInPlayTurn ==
    ASSUME BaseInv, StreamInv, PlayInv, TurnInv,
           NEW m \in Received, FailInPlay(m)
    PROVE  TurnInv'
<1> SUFFICES ASSUME Unshared' PROVE TurnInv'
  BY DEF TurnInv
<1>1. /\ KeepClient /\ KeepLobby /\ pc \in AckPcs \cup {"move"}
      /\ pc' = "forfeit" /\ toClient' = toClient
      /\ \/ toServer' = toServer
         \/ toServer # <<>> /\ toServer' = Tail(toServer)
  BY Consumes DEF BaseInv, FailInPlay
<1>2. Unshared
  BY <1>1 DEF Unshared, KeepClient, KeepLobby, lobbyVars, MatchPcs, OverPcs,
              BaseInv, SeatInv
<1> QED
  BY <1>1, <1>2, SendsTurn

\* The match starts: what is under way is older than it.
LEMMA StartMatchTurn ==
    ASSUME BaseInv, StreamInv, PlayInv, TurnInv, StartMatch PROVE TurnInv'
<1> SUFFICES ASSUME Unshared' PROVE TurnInv'
  BY DEF TurnInv
<1> DEFINE m == GameStart(current_turn' = seat)
<1>1. /\ m \in Messages /\ m.type = "GAME_START"
      /\ m.is_starting = (current_turn' = seat)
      /\ toClient \in Seq(Messages)
  BY Sent DEF GameStart, BaseInv, TypeOK
<1>2. /\ pc = "begin" /\ KeepClient /\ UNCHANGED <<toServer, seat>>
      /\ Tell(<<m>>, "start_ack", "release_close")
  BY DEF StartMatch
<1> HIDE DEF m
<1>3. link = "open" /\ UNCHANGED <<net, InGame, view, is_our_turn>>
  BY <1>2 DEF Unshared, KeepClient, clientVars, InGame
<1>4. pc' = "start_ack" /\ toClient' = Append(toClient, m)
  BY <1>1, <1>2, <1>3 DEF Tell
<1>5. Talking
  BY <1>2, <1>3 DEF StreamInv, ErrorInv, Talking, MatchPcs, AckPcs, EndPcs
<1>6. /\ ~ Holds(toServer, "MOVE") /\ net # "IN_GAME"
      /\ \A i \in 1 .. Len(toClient) :
            toClient[i].type \in {"GENERAL_ACK", "GAME_WAIT"}
  BY <1>2, <1>5, BeforeMatch DEF QueuePcs
<1>7. /\ Len(toClient) \in Nat /\ Len(toClient') = Len(toClient) + 1
      /\ toClient'[Len(toClient) + 1] = m
      /\ \A i \in 1 .. Len(toClient) : toClient'[i] = toClient[i]
  BY <1>1, <1>4, AppendElements
<1>8. \A i \in 1 .. Len(toClient') :
         /\ toClient'[i].type \in {"GENERAL_ACK", "GAME_WAIT", "GAME_START"}
         /\ toClient'[i].type = "GAME_START" => toClient'[i] = m
  BY <1>1, <1>6, <1>7
<1>9. ~ Holds(toClient', "ILLEGAL_PLAY") /\ AllShow(toClient', board')
  BY <1>8 DEF Holds, AllShow
<1>10. ~ Prompted(toClient')
  BY <1>8 DEF Prompted
<1>11. Fresh(toClient', InGame', view', board')
  BY <1>10 DEF Prompted, Fresh
<1>12. \A i \in 1 .. Len(toClient') :
          Starting(toClient'[i]) => current_turn' = seat'
  BY <1>1, <1>2, <1>8 DEF Starting
<1>13. LegalMoves(toServer', board')
  BY <1>2, <1>6 DEF LegalMoves, Holds
<1>14. (TheirTurn(board))'
  BY <1>2, <1>3, <1>6, <1>9, <1>10, <1>11, <1>12, <1>13 DEF TheirTurn, InGame
<1> QED
  BY <1>3, <1>4, <1>5, <1>9, <1>14 DEF TurnInv, Talking

\* The answer to the move takes the turn away, wherever it is.
LEMMA LegalMoveTurn ==
    ASSUME BaseInv, StreamInv, PlayInv, TurnInv,
           NEW m \in Received, LegalMove(m)
    PROVE  TurnInv'
<1> SUFFICES ASSUME Unshared' PROVE TurnInv'
  BY DEF TurnInv
<1> DEFINE next == IF IsFinished(board') THEN "last_ack" ELSE "moved_ack"
           n    == GameState(board')
<1>1. /\ KeepClient /\ Tell(<<Ack, n>>, next, "forfeit") /\ seat' = seat
      /\ pc = "move" /\ Consume(m) /\ m.type = "MOVE"
      /\ Moved(seat, m.coin_index, m.coin_pos)
  BY DEF LegalMove
<1>2. seat \in Ids
  BY <1>1 DEF BaseInv, TypeOK, SeatInv, Seated, MatchPcs
<1>3. /\ board' \in Boards /\ UNCHANGED others
      /\ game_over' = (game_over \/ IsFinished(board'))
      /\ ~ IsFinished(board') => current_turn' = (current_turn + 1) % Count
  BY <1>1, <1>2, Moves
<1>4. ~ IsFinished(board') /\ Unshared
  <2>1. link' = link /\ link = "open"
    BY <1>1 DEF Unshared, KeepClient
  <2>2. pc' = next
    BY <1>1, <2>1 DEF Tell
  <2>3. ~ IsFinished(board')
    BY <2>2 DEF Unshared, OverPcs
  <2> QED
    BY <1>1, <1>3, <2>1, <2>3 DEF Unshared, MatchPcs, OverPcs, BaseInv, TypeOK
<1>5. /\ n \in Messages /\ n.type = "GAME_STATE" /\ Ack \in Messages
      /\ Ack.type = "GENERAL_ACK" /\ toClient \in Seq(Messages)
  BY <1>3, Sent DEF GameState, Ack, BaseInv, TypeOK
<1>6. /\ Talking /\ ~ Holds(toClient, "ILLEGAL_PLAY")
      /\ TheirTurn(board)
  BY <1>4, UnsharedFacts
<1> DEFINE u == Append(toClient, Ack)
<1>7. pc' = "moved_ack" /\ toClient' = Append(u, n) /\ u \in Seq(Messages)
  <2>1. toClient \o <<Ack, n>> = Append(Append(toClient, Ack), n)
    BY <1>5
  <2>2. link = "open"
    BY <1>6 DEF Talking
  <2> QED
    BY <1>1, <1>4, <1>5, <2>1, <2>2 DEF Tell
<1> HIDE DEF n, next
<1>8. /\ net = "IN_GAME" /\ waiting_for_ack /\ ~ Holds(toServer', "MOVE")
      /\ Holds(toServer, "MOVE")
  BY <1>1, <1>6, MoveTaken, Consumes DEF PlayInv, BaseInv
<1>11. ~ Prompted(u) /\ ~ Holds(u, "ILLEGAL_PLAY")
  BY <1>5, <1>6, PromptedAppend, HoldsAppend
<1>12. ~ Prompted(toClient') /\ ~ Holds(toClient', "ILLEGAL_PLAY")
  <2> HIDE DEF u
  <2> QED
    BY <1>5, <1>7, <1>11, PromptedAppend, HoldsAppend
<1>13. Fresh(toClient', InGame', view', board')
  BY <1>12 DEF Prompted, Fresh
<1>14. \A i \in 1 .. Len(toClient') : toClient'[i].type # "GAME_START"
  <2>1. ~ Holds(toClient, "GAME_START")
    <3>1. PICK b \in Stages : LeadsTo(b)
      BY <1>6, StreamFacts
    <3>2. Stage = InMatch
      BY <1>8 DEF Stage, BaseInv, ClientInv, TypeOK, BlockedIn
    <3> QED
      BY <1>5, <3>1, <3>2, PathFromMatch DEF LeadsTo
  <2>2. ~ Holds(u, "GAME_START")
    BY <1>5, <2>1, HoldsAppend
  <2>3. ~ Holds(toClient', "GAME_START")
    <3> HIDE DEF u
    <3> QED
      BY <1>5, <1>7, <2>2, HoldsAppend
  <2> QED
    BY <2>3 DEF Holds
<1>15. LegalMoves(toServer', board')
  BY <1>8 DEF LegalMoves, Holds
<1>16. UNCHANGED <<net, is_our_turn, waiting_for_ack, view>>
  BY <1>1 DEF KeepClient, clientVars
<1>17. (TheirTurn(board))'
  BY <1>8, <1>12, <1>13, <1>14, <1>15, <1>16 DEF TheirTurn, Starting
<1> QED
  BY <1>7, <1>8, <1>12, <1>16, <1>17 DEF TurnInv

\* The server does not refuse a move.
LEMMA IllegalMoveTurn ==
    ASSUME BaseInv, StreamInv, PlayInv, TurnInv,
           NEW m \in Received, IllegalMove(m)
    PROVE  TurnInv'
<1> SUFFICES ASSUME Unshared' PROVE FALSE
  BY DEF TurnInv
<1>1. /\ KeepClient /\ KeepLobby /\ pc = "move" /\ Consume(m)
      /\ m.type = "MOVE" /\ ~ IsMoveValid(board, m.coin_index, m.coin_pos)
  BY DEF IllegalMove
<1>2. Unshared
  BY <1>1 DEF Unshared, KeepClient, KeepLobby, lobbyVars, MatchPcs, OverPcs,
             AckPcs, EndPcs
<1>3. toServer # <<>> /\ m = Head(toServer) /\ toServer \in Seq(Messages)
  BY <1>1, Consumes DEF BaseInv, TypeOK
<1>4. 1 \in 1 .. Len(toServer) /\ Head(toServer) = toServer[1]
  BY <1>3, TailElements
<1>5. LegalMoves(toServer, board)
  BY <1>2, UnsharedFacts DEF TheirTurn
<1> QED
  BY <1>1, <1>3, <1>4, <1>5 DEF LegalMoves

\* The other steps of the thread end outside of a match, or in one that is
\* over.
LEMMA ThreadOtherwiseTurn ==
    ASSUME BaseInv, BaseInv', TurnInv,
           \/ \E m \in Received :
                 \/ HandleConnect(m) \/ HandleInfoAck(m) \/ HandleGameJoin(m)
                 \/ ShopActionServed(m) \/ ShopActionRefused(m)
                 \/ HandleOther(m) \/ HandleShopAck(m)
                 \/ KeepAlive(m) \/ HandleUpdateAck(m) \/ HandleEndAck(m)
           \/ AcquireSlot \/ SeeBothPlayers \/ SendGameWait \/ SeeGameOver
           \/ SendResult \/ HandleDisconnectWin \/ ReleaseSlot
           \/ CloseConnection
    PROVE  TurnInv'
<1>1. pc' \in {"join", "acquire", "closing", "poll", "begin", "keep_alive",
               "release_keep", "release_close", "result", "closed",
               "info_ack", "shop_ack", "update_ack", "end_ack"}
  BY DEF HandleConnect, HandleInfoAck, HandleGameJoin, ShopActionServed,
         ShopActionRefused, HandleOther, HandleShopAck, KeepAlive,
         HandleUpdateAck, HandleEndAck, AcquireSlot, SeeBothPlayers,
         SendGameWait, SeeGameOver, SendResult, HandleDisconnectWin,
         ReleaseSlot, CloseConnection, Tell, TellEnd
<1>2. pc' \notin MatchPcs \/ pc' \in OverPcs
  BY <1>1 DEF MatchPcs, AckPcs, EndPcs, OverPcs
<1>3. pc' \in OverPcs => game_over'
  BY DEF BaseInv, SeatInv
<1> QED
  BY <1>2, <1>3 DEF TurnInv, Unshared

\* The other player gives up or leaves, which changes neither board nor turn,
\* or moves, but then it is not this client's turn.
LEMMA OthersTurn ==
    ASSUME BaseInv, BaseInv', IdInv, TurnInv, OthersStep PROVE TurnInv'
<1> SUFFICES ASSUME Unshared' PROVE TurnInv'
  BY DEF TurnInv
<1>1. UNCHANGED <<clientVars, linkVars, threadVars>>
  BY DEF OthersStep, OtherJoins, OtherStarts, OtherMoves, OtherForfeits,
         OtherLeaves, KeepSession
<1>2. UNCHANGED <<net, is_our_turn, waiting_for_ack, view, InGame, link,
                  toClient, toServer, pc, seat>>
  BY <1>1 DEF clientVars, linkVars, threadVars, InGame
<1>3. /\ game_started /\ pc \in MatchPcs \ OverPcs /\ link = "open"
      /\ seat \in Ids /\ others \in [Ids -> 0 .. 2]
  BY <1>2 DEF Unshared, BaseInv, SeatInv, Seated, TypeOK
<1>4. ~ OtherJoins /\ ~ OtherStarts
  BY <1>3 DEF OtherJoins, OtherStarts
<1>5. ASSUME Unshared, UNCHANGED <<board, current_turn>> PROVE TurnInv'
  <2>1. (TheirTurn(board))' <=> TheirTurn(board)
    BY <1>2, <1>5 DEF TheirTurn
  <2> QED
    BY <1>2, <1>5, <2>1 DEF TurnInv
<1>6. ASSUME NEW i \in Ids, OtherForfeits(i) PROVE TurnInv'
  <2>1. UNCHANGED <<board, current_turn, others>> /\ ~ game_over
    BY <1>6 DEF OtherForfeits, Playing, Lose
  <2>2. Unshared
    BY <1>2, <1>3, <2>1 DEF Unshared
  <2> QED
    BY <1>5, <2>1, <2>2
<1>7. ASSUME NEW i \in Ids, OtherLeaves(i) PROVE TurnInv'
  <2>1. game_over /\ others[i] > 0
    BY <1>7 DEF OtherLeaves
  <2>2. Count # 1
    BY <1>3, <2>1 DEF Count, Ids, NoId
  <2>3. UNCHANGED <<board, current_turn, game_over>>
    BY <1>7, <2>2 DEF OtherLeaves
  <2>4. Unshared
    BY <1>2, <1>3, <2>1, <2>3 DEF Unshared, IdInv
  <2> QED
    BY <1>5, <2>3, <2>4
<1>8. ASSUME NEW i \in Ids, OtherMoves(i) PROVE TurnInv'
  <2>1. PICK from \in Cells, to \in Cells : Moved(i, from, to)
    BY <1>8 DEF OtherMoves
  <2>2. /\ others[i] > 0 /\ ~ game_over /\ current_turn = i
        /\ others' = others
    BY <1>8, <2>1 DEF OtherMoves, Playing, Moved
  <2>3. Unshared /\ current_turn # seat
    BY <1>2, <1>3, <2>2 DEF Unshared
  <2>4. TheirTurn(board)
    BY <2>3, UnsharedFacts
  <2>5. /\ ~ (InGame /\ is_our_turn /\ ~ waiting_for_ack)
        /\ ~ Holds(toServer, "MOVE") /\ ~ Prompted(toClient)
        /\ \A k \in 1 .. Len(toClient) : ~ Starting(toClient[k])
    BY <2>3, <2>4 DEF TheirTurn
  <2>6. Fresh(toClient, InGame, view, board') /\ LegalMoves(toServer, board')
    BY <2>5 DEF Fresh, Prompted, LegalMoves, Holds
  <2>7. (TheirTurn(board))'
    BY <1>2, <2>5, <2>6 DEF TheirTurn
  <2> QED
    BY <1>2, <2>3, <2>7 DEF TurnInv
<1> QED
  BY <1>4, <1>6, <1>7, <1>8 DEF OthersStep

LEMMA TurnInit == Init => TurnInv
  BY DEF Init, TurnInv, Unshared

LEMMA TurnNext ==
    BaseInv /\ StreamInv /\ PlayInv /\ IdInv /\ TurnInv /\ [Next]_vars
        => TurnInv'
<1> SUFFICES ASSUME BaseInv, StreamInv, PlayInv, IdInv, TurnInv, [Next]_vars
             PROVE  TurnInv'
  OBVIOUS
<1>0. BaseInv'
  BY BaseNext
<1>1. CASE ClientStep
  BY <1>1, OtherwiseTurn, TakeJoinAckTurn, TakeGameWaitTurn,
     TakeGameStartTurn, TakeAckTurn, TakeGameStateTurn, TakePlayTurn,
     TakeGameEndTurn, TakeProfileTurn, PollFailsTurn, SendMoveTurn
     DEF ClientStep
<1>2. CASE ThreadStep
  BY <1>0, <1>2, ThreadOtherwiseTurn, StartMatchTurn, TakeTurnTurn,
     HandleAckTurn, FailInPlayTurn, LegalMoveTurn, IllegalMoveTurn
     DEF ThreadStep, ThreadReceives
<1>3. CASE OthersStep
  BY <1>0, <1>3, OthersTurn
<1>4. CASE UNCHANGED vars
  <2>1. UNCHANGED <<net, is_our_turn, waiting_for_ack, view, link, toClient,
                    toServer, pc, seat, board, current_turn, game_over, others>>
    BY <1>4 DEF vars, clientVars, linkVars, threadVars, lobbyVars
  <2>2. /\ UNCHANGED <<Unshared, InGame>>
        /\ TheirTurn(board)' <=> TheirTurn(board)
    BY <2>1 DEF Unshared, InGame, TheirTurn
  <2> QED
    BY <2>1, <2>2 DEF TurnInv
<1> QED
  BY <1>1, <1>2, <1>3, <1>4 DEF Next

LEMMA UnsharedMatch == BaseInv /\ OnTurn => Unshared
  BY DEF BaseInv, SeatInv, OnTurn, Unshared

\* In a match that the thread plays under an id of its own, a client that lets
\* its user move has the turn on the server and shows the server's board,
\* however late GAME_STATE, PLAY and the answer to the last move arrive.
THEOREM TheMoverSeesTheBoard == Spec => []MoverSeesBoard
<1>1. BaseInv /\ TurnInv => MoverSeesBoard
  BY UnsharedMatch DEF TurnInv, TheirTurn, MoverSeesBoard
<1> QED
  BY BaseInit, BaseNext, StreamInit, StreamNext, PlayInit, PlayNext, IdInit,
     IdNext, TurnInit, TurnNext, <1>1, PTL DEF Spec

\* A move that the thread reads in such a match is legal on the server's board:
\* the board did not change since the client, which sends none that is illegal
\* on its own board, has sent it.
THEOREM NoMoveIsRefused == Spec => []MoveNeverRefused
<1>1. BaseInv /\ TurnInv => MoveNeverRefused
  <2> SUFFICES ASSUME BaseInv, TurnInv, OnTurn, toServer # <<>>,
                      Head(toServer).type = "MOVE"
               PROVE  IsMoveValid(board, Head(toServer).coin_index,
                                  Head(toServer).coin_pos)
    BY DEF MoveNeverRefused
  <2>1. toServer \in Seq(Messages)
    BY DEF BaseInv, TypeOK
  <2>2. 1 \in 1 .. Len(toServer) /\ Head(toServer) = toServer[1]
    BY <2>1, TailElements
  <2>3. LegalMoves(toServer, board)
    BY UnsharedMatch DEF TurnInv, TheirTurn
  <2> QED
    BY <2>2, <2>3 DEF LegalMoves
<1> QED
  BY BaseInit, BaseNext, StreamInit, StreamNext, PlayInit, PlayNext, IdInit,
     IdNext, TurnInit, TurnNext, <1>1, PTL DEF Spec

(***************************************************************************)
(* Sixth part: the answers that the thread may expect of a player with id  *)
(* 1, of whom another player can have the same id.  In the queue nothing   *)
(* is due, or the match that the player has found is lost to it; after     *)
(* that there is one acknowledgement for each exchange, so that nothing    *)
(* else is under way when a move is refused.                               *)
(***************************************************************************)
Only(s, T) == \A i \in 1 .. Len(s) : s[i].type \in T

\* The messages of c are acknowledgements, but for one.
ButOne(c) ==
    \E k \in 1 .. Len(c) :
        \A i \in 1 .. Len(c) : c[i].type # "GENERAL_ACK" <=> i = k

\* With s under way to the thread and c to the client, the thread will be sent
\* no acknowledgement, or one.
NoneDue(s, c) == Only(s, {"MOVE"}) /\ Only(c, {"GENERAL_ACK"})

OneDue(s, c) ==
    \/ Only(s, {"MOVE"}) /\ ButOne(c)
    \/ /\ Only(s, {"MOVE", "GENERAL_ACK"})
       /\ Holds(s, "GENERAL_ACK") /\ Once(s, "GENERAL_ACK")
       /\ Only(c, {"GENERAL_ACK"})

LEMMA OnlySteps ==
    ASSUME NEW s \in Seq(Messages), NEW T, Only(s, T)
    PROVE  /\ s # <<>> => Head(s).type \in T /\ Only(Tail(s), T)
           /\ \A m \in Messages : m.type \in T => Only(Append(s, m), T)
<1>1. ASSUME s # <<>> PROVE Head(s).type \in T /\ Only(Tail(s), T)
  BY <1>1, TailElements DEF Only
<1>2. ASSUME NEW m \in Messages, m.type \in T PROVE Only(Append(s, m), T)
  BY <1>2, AppendElements DEF Only
<1> QED
  BY <1>1, <1>2

LEMMA ButOneSteps ==
    ASSUME NEW c \in Seq(Messages)
    PROVE  /\ ButOne(c) /\ c # <<>> =>
                 IF Head(c).type = "GENERAL_ACK"
                 THEN ButOne(Tail(c)) ELSE Only(Tail(c), {"GENERAL_ACK"})
           /\ \A m \in Messages :
                 Only(c, {"GENERAL_ACK"}) /\ m.type # "GENERAL_ACK" =>
                    ButOne(Append(c, m))
<1>1. ASSUME ButOne(c), c # <<>>, Head(c).type = "GENERAL_ACK"
      PROVE  ButOne(Tail(c))
  <2>1. PICK k \in 1 .. Len(c) :
            \A i \in 1 .. Len(c) : c[i].type # "GENERAL_ACK" <=> i = k
    BY <1>1 DEF ButOne
  <2>2. /\ Len(c) \in Nat \ {0} /\ Len(Tail(c)) = Len(c) - 1
        /\ Head(c) = c[1]
        /\ \A i \in 1 .. Len(c) - 1 : Tail(c)[i] = c[i + 1]
    BY <1>1, TailElements
  <2>3. k # 1 /\ k - 1 \in 1 .. Len(Tail(c))
    BY <1>1, <2>1, <2>2
  <2>4. \A i \in 1 .. Len(Tail(c)) :
            Tail(c)[i].type # "GENERAL_ACK" <=> i = k - 1
    BY <2>1, <2>2
  <2> QED
    BY <2>3, <2>4 DEF ButOne
<1>2. ASSUME ButOne(c), c # <<>>, Head(c).type # "GENERAL_ACK"
      PROVE  Only(Tail(c), {"GENERAL_ACK"})
  <2>1. PICK k \in 1 .. Len(c) :
            \A i \in 1 .. Len(c) : c[i].type # "GENERAL_ACK" <=> i = k
    BY <1>2 DEF ButOne
  <2>2. /\ Len(c) \in Nat \ {0} /\ Len(Tail(c)) = Len(c) - 1
        /\ Head(c) = c[1]
        /\ \A i \in 1 .. Len(c) - 1 : Tail(c)[i] = c[i + 1]
    BY <1>2, TailElements
  <2>3. k = 1
    BY <1>2, <2>1, <2>2
  <2> QED
    BY <2>1, <2>2, <2>3 DEF Only
<1>3. ASSUME NEW m \in Messages, Only(c, {"GENERAL_ACK"}),
             m.type # "GENERAL_ACK"
      PROVE  ButOne(Append(c, m))
  <2> DEFINE d == Append(c, m)
  <2>1. /\ Len(c) \in Nat /\ Len(d) = Len(c) + 1 /\ d[Len(c) + 1] = m
        /\ \A i \in 1 .. Len(c) : d[i] = c[i]
    BY AppendElements
  <2> HIDE DEF d
  <2>2. \A i \in 1 .. Len(d) : d[i].type # "GENERAL_ACK" <=> i = Len(c) + 1
    BY <1>3, <2>1 DEF Only
  <2>3. Len(c) + 1 \in 1 .. Len(d)
    BY <2>1
  <2> QED
    BY <2>2, <2>3 DEF ButOne, d
<1> QED
  BY <1>1, <1>2, <1>3

LEMMA NoneDueSteps ==
    ASSUME NEW s \in Seq(Messages), NEW c \in Seq(Messages), NoneDue(s, c)
    PROVE  /\ c # <<>> => /\ Head(c).type = "GENERAL_ACK"
                          /\ NoneDue(s, Tail(c))
           /\ s # <<>> => Head(s).type = "MOVE" /\ NoneDue(Tail(s), c)
           /\ \A m \in Messages : m.type = "MOVE" => NoneDue(Append(s, m), c)
           /\ \A m \in Messages :
                 IF m.type = "GENERAL_ACK" THEN NoneDue(s, Append(c, m))
                                           ELSE OneDue(s, Append(c, m))
  BY OnlySteps, ButOneSteps DEF NoneDue, OneDue

LEMMA OneDueSteps ==
    ASSUME NEW s \in Seq(Messages), NEW c \in Seq(Messages), OneDue(s, c)
    PROVE  /\ c # <<>> => IF Head(c).type = "GENERAL_ACK"
                          THEN OneDue(s, Tail(c))
                          ELSE OneDue(Append(s, Ack), Tail(c))
           /\ s # <<>> /\ Head(s).type = "GENERAL_ACK" => NoneDue(Tail(s), c)
           /\ \A m \in Messages : m.type = "MOVE" => OneDue(Append(s, m), c)
<1>1. Ack \in Messages /\ Ack.type = "GENERAL_ACK"
  BY Sent DEF Ack
<1>2. Only(s, {"MOVE"}) =>
         /\ Only(s, {"MOVE", "GENERAL_ACK"})
         /\ ~ Holds(s, "GENERAL_ACK") /\ Once(s, "GENERAL_ACK")
  BY DEF Only, Holds, Once
<1>3. CASE Only(s, {"MOVE"}) /\ ButOne(c)
  <2>1. s # <<>> => Head(s).type = "MOVE"
    BY <1>3, OnlySteps
  <2>2. ASSUME NEW m \in Messages, m.type = "MOVE"
        PROVE  OneDue(Append(s, m), c)
    BY <1>3, <2>2, OnlySteps DEF OneDue
  <2>3. ASSUME c # <<>>, Head(c).type = "GENERAL_ACK"
        PROVE  OneDue(s, Tail(c))
    BY <1>3, <2>3, ButOneSteps DEF OneDue
  <2>4. ASSUME c # <<>>, Head(c).type # "GENERAL_ACK"
        PROVE  OneDue(Append(s, Ack), Tail(c))
    <3>1. Only(Tail(c), {"GENERAL_ACK"})
      BY <1>3, <2>4, ButOneSteps
    <3>2. /\ Holds(Append(s, Ack), "GENERAL_ACK")
          /\ Once(Append(s, Ack), "GENERAL_ACK")
      BY <1>1, <1>2, <1>3, HoldsAppend
    <3>3. Only(Append(s, Ack), {"MOVE", "GENERAL_ACK"})
      BY <1>1, <1>2, <1>3, OnlySteps
    <3> QED
      BY <3>1, <3>2, <3>3 DEF OneDue
  <2> QED
    BY <2>1, <2>2, <2>3, <2>4
<1>4. CASE /\ Only(s, {"MOVE", "GENERAL_ACK"})
           /\ Holds(s, "GENERAL_ACK") /\ Once(s, "GENERAL_ACK")
           /\ Only(c, {"GENERAL_ACK"})
  <2>1. c # <<>> => /\ Head(c).type = "GENERAL_ACK"
                    /\ Only(Tail(c), {"GENERAL_ACK"})
    BY <1>4, OnlySteps
  <2>2. ASSUME NEW m \in Messages, m.type = "MOVE"
        PROVE  OneDue(Append(s, m), c)
    <3>1. Only(Append(s, m), {"MOVE", "GENERAL_ACK"})
      BY <1>4, <2>2, OnlySteps
    <3>2. /\ Holds(Append(s, m), "GENERAL_ACK")
          /\ Once(Append(s, m), "GENERAL_ACK")
      BY <1>4, <2>2, HoldsAppend
    <3> QED
      BY <1>4, <3>1, <3>2 DEF OneDue
  <2>3. ASSUME s # <<>>, Head(s).type = "GENERAL_ACK"
        PROVE  NoneDue(Tail(s), c)
    <3>1. ~ Holds(Tail(s), "GENERAL_ACK")
      BY <1>4, <2>3, HoldsTail
    <3>2. Only(Tail(s), {"MOVE", "GENERAL_ACK"})
      BY <1>4, <2>3, OnlySteps
    <3>3. Only(Tail(s), {"MOVE"})
      BY <3>1, <3>2 DEF Only, Holds
    <3> QED
      BY <1>4, <3>3 DEF NoneDue
  <2> QED
    BY <1>4, <2>1, <2>2, <2>3 DEF OneDue
<1> QED
  BY <1>3, <1>4 DEF OneDue

\* A GAME_JOIN is the last that the client sends until it is answered.
JoinInv ==
    Talking /\ Holds(toServer, "GAME_JOIN") =>
        toServer[Len(toServer)].type = "GAME_JOIN"

\* The match has been played, or given up, without this player.
Stranded == game_started /\ Count < 2

DueInv ==
    Talking =>
    /\ pc = "acquire" => NoneDue(toServer, toClient)
    /\ seat = 1 =>
          /\ pc = "keep_alive" => Stranded
          /\ pc = "poll" => Stranded \/ NoneDue(toServer, toClient)
          /\ pc \in {"begin", "turn", "move"} => NoneDue(toServer, toClient)
          /\ pc \in {"start_ack", "state_ack", "turn_ack", "play_ack",
                     "moved_ack"} => OneDue(toServer, toClient)

\* A client that has been sent an ILLEGAL_PLAY takes nothing else, and fails.
RefusedInv ==
    link = "open" /\ (net = "ERROR" \/ Holds(toClient, "ILLEGAL_PLAY")) =>
    \/ pc \in {"forfeit", "release_close", "closing"}
    \/ /\ pc = "illegal_ack" /\ toServer = <<>>
       /\ net # "ERROR" => /\ InGame /\ waiting_for_ack
                           /\ toClient = <<Plain("ILLEGAL_PLAY")>>

RefusalInv == JoinInv /\ DueInv /\ RefusedInv

\* The client fails to decode one message only.
LEMMA Unreadable ==
    ASSUME BaseInv, StreamInv, Talking, toClient # <<>>
    PROVE  /\ \E c \in Stages : Leads(purpose, Stage, Head(toClient), c)
           /\ Readable(Head(toClient)) <=>
                 Head(toClient).type # "ILLEGAL_PLAY"
<1>1. PICK b \in Stages : LeadsTo(b)
  BY StreamFacts
<1>2. \E c \in Stages : Leads(purpose, Stage, Head(toClient), c)
  BY <1>1, PathTail DEF LeadsTo, BaseInv, TypeOK
<1> QED
  BY <1>2, ReadableTypes DEF Leads, Ack, InMatchTypes

LEMMA JoinAnswered ==
    ASSUME BaseInv, StreamInv, TakeJoinAck, link = "open" PROVE Granted
<1>1. net = "CONNECTED" /\ blocked = "join_ack" /\ toClient # <<>>
  BY DEF TakeJoinAck, Granted, Refused, RecvFails, BaseInv, ClientInv
<1>2. \E c \in Stages : Leads(purpose, Stage, Head(toClient), c)
  BY <1>1, Unreadable DEF Talking
<1>3. Head(toClient) = Ack
  BY <1>1, <1>2 DEF Leads, Stage, Connecting, Introduced, Joining, Queueing,
         InMatch, Idle
<1> QED
  BY <1>1, <1>3, ReadableTypes DEF Granted, Expected, IsOk, Ack

\* What a step of the client does to the streams.
Takes ==
    /\ toClient # <<>> /\ toClient' = Tail(toClient) /\ net' # "ERROR"
    /\ Readable(Head(toClient))
    /\ toServer' = IF Head(toClient).type = "GENERAL_ACK" THEN toServer
                   ELSE Append(toServer, Ack)

Asks(m) ==
    /\ toClient' = toClient /\ net' # "ERROR"
    /\ toServer' = Append(toServer, m)
    /\ \/ m.type = "MOVE" /\ InGame /\ ~ waiting_for_ack
       \/ m.type = "GAME_JOIN" /\ blocked = "join"
       \/ m.type = "SHOP_ACTION" /\ blocked = "no" /\ net = "CONNECTED"

Fails ==
    /\ toClient # <<>> /\ ~ Readable(Head(toClient))
    /\ toServer' = toServer /\ net' = "ERROR"

LEMMA ClientMoves ==
    ASSUME BaseInv, StreamInv, ClientStep, link' = "open", pc # "closed"
    PROVE  /\ Talking /\ UNCHANGED <<pc, seat, lobbyVars>>
           /\ Takes \/ Fails \/ \E m \in Messages : Asks(m)
<1>1. ASSUME NEW p, Connect(p) \/ ConnectFails(p) PROVE FALSE
  BY <1>1 DEF Connect, ConnectFails, Request, linkVars
<1>2. ~ Leave /\ ~ ConnectRefused
  BY DEF Leave, ConnectRefused, CloseSocket
<1>3. UNCHANGED <<pc, seat, lobbyVars>>
  BY <1>1, <1>2
     DEF ClientStep, TakeConnectAck, TakePlayerInfo, JoinGame, TakeJoinAck,
         TakeGameWait, TakeGameStart, TakeAck, TakeGameState, TakePlay,
         TakeGameEnd, TakeProfile, PollFails, SendMove, SendShopAction,
         Arrives, KeepServer, threadVars
<1>4. ASSUME NEW m \in Messages, Send(m)
      PROVE  link = "open" /\ toServer' = Append(toServer, m) /\ ~ SendFails
  BY <1>4, Sends DEF BaseInv, SendFails
<1>5. Ack \in Messages /\ Ack.type = "GENERAL_ACK"
  BY Sent DEF Ack
<1>6. ASSUME NEW nets, NEW types, Arrives(nets, types), "ERROR" \notin nets
      PROVE  /\ toClient # <<>> /\ toClient' = Tail(toClient) /\ net # "ERROR"
             /\ Readable(Head(toClient)) /\ Head(toClient).type \in types
  BY <1>6 DEF Arrives
<1>7. CASE TakeConnectAck
  <2>1. net # "ERROR"
    BY <1>7 DEF TakeConnectAck, BaseInv, ClientInv
  <2> QED
    BY <1>3, <1>7, <2>1
       DEF TakeConnectAck, Granted, Expected, IsOk, Takes, Talking
<1>8. CASE TakePlayerInfo
  <2>1. net # "ERROR"
    BY <1>8 DEF TakePlayerInfo, BaseInv, ClientInv
  <2> QED
    BY <1>3, <1>4, <1>5, <1>8, <2>1
       DEF TakePlayerInfo, Granted, Expected, Takes, Talking
<1>9. CASE JoinGame
  <2> DEFINE j == Plain("GAME_JOIN")
  <2>1. j \in Messages /\ j.type = "GAME_JOIN"
    BY Sent DEF Plain
  <2>2. /\ blocked = "join" /\ Send(j) /\ toClient' = toClient
        /\ net' = IF SendFails THEN "ERROR" ELSE net
    BY <1>9 DEF JoinGame
  <2> HIDE DEF j
  <2>3. net # "ERROR"
    BY <2>2 DEF BaseInv, ClientInv
  <2>4. link = "open" /\ Asks(j)
    BY <1>4, <2>1, <2>2, <2>3 DEF Asks
  <2> QED
    BY <1>3, <2>1, <2>3, <2>4 DEF Talking
<1>10. CASE TakeJoinAck
  <2>1. link = "open" /\ net # "ERROR"
    BY <1>10 DEF TakeJoinAck, BaseInv, ClientInv
  <2>2. Granted
    BY <1>10, <2>1, JoinAnswered
  <2> QED
    BY <1>3, <1>10, <2>1, <2>2
       DEF TakeJoinAck, Granted, Expected, IsOk, Takes, Talking
<1>11. CASE TakeGameWait
  BY <1>3, <1>4, <1>5, <1>6, <1>11 DEF TakeGameWait, Takes, Talking
<1>12. CASE TakeGameStart
  BY <1>3, <1>4, <1>5, <1>6, <1>12 DEF TakeGameStart, Takes, Talking
<1>13. CASE TakeAck
  BY <1>3, <1>6, <1>13 DEF TakeAck, Afterwards, Takes, Talking
<1>14. CASE TakeGameState
  BY <1>3, <1>4, <1>5, <1>6, <1>14
     DEF TakeGameState, Afterwards, Takes, Talking
<1>15. CASE TakePlay
  BY <1>3, <1>4, <1>5, <1>6, <1>15 DEF TakePlay, Afterwards, Takes, Talking
<1>16. CASE TakeGameEnd
  BY <1>3, <1>4, <1>5, <1>6, <1>16 DEF TakeGameEnd, Takes, Talking
<1>17. CASE TakeProfile
  BY <1>3, <1>4, <1>5, <1>6, <1>17 DEF TakeProfile, Afterwards, Takes, Talking
<1>18. CASE PollFails
  BY <1>3, <1>18 DEF PollFails, Polling, RecvFails, Fails, Talking
<1>19. ASSUME NEW i \in Cells, NEW k \in Cells, SendMove(i, k)
       PROVE  Talking /\ \E m \in Messages : Asks(m)
  <2> DEFINE v == Move(i, k)
  <2>1. v \in Messages /\ v.type = "MOVE"
    BY Sent DEF Move
  <2>2. /\ InGame /\ ~ waiting_for_ack /\ Send(v) /\ toClient' = toClient
        /\ net' = IF SendFails THEN "ERROR" ELSE net
    BY <1>19 DEF SendMove
  <2> HIDE DEF v
  <2>3. net # "ERROR"
    BY <2>2 DEF InGame
  <2>4. link = "open" /\ Asks(v)
    BY <1>4, <2>1, <2>2, <2>3 DEF Asks
  <2> QED
    BY <2>1, <2>3, <2>4 DEF Talking
<1>20. CASE SendShopAction
  <2> DEFINE a == Plain("SHOP_ACTION")
  <2>1. a \in Messages /\ a.type = "SHOP_ACTION"
    BY Sent DEF Plain
  <2>2. /\ blocked = "no" /\ net = "CONNECTED" /\ Send(a)
        /\ toClient' = toClient /\ net' = IF SendFails THEN "ERROR" ELSE net
    BY <1>20 DEF SendShopAction
  <2> HIDE DEF a
  <2>3. link = "open" /\ Asks(a)
    BY <1>4, <2>1, <2>2 DEF Asks
  <2> QED
    BY <1>3, <2>1, <2>2, <2>3 DEF Talking
<1> QED
  BY <1>1, <1>2, <1>3, <1>7, <1>8, <1>9, <1>10, <1>11, <1>12, <1>13, <1>14,
     <1>15, <1>16, <1>17, <1>18, <1>19, <1>20, Zenon
     DEF ClientStep

\* In the queue and in a match the client cannot ask for anything but a move.
LEMMA OnlyMoves ==
    ASSUME BaseInv, StreamInv, Talking, pc \in QueuePcs \cup InPlay,
           NEW m, Asks(m)
    PROVE  m.type = "MOVE"
<1>1. blocked \notin Early
  BY LateFacts, InPlayPcs DEF LatePcs
<1>2. ~ (blocked = "no" /\ net = "CONNECTED")
  <2>1. CASE pc \in InPlay
    BY <2>1, InPlayStates DEF Afterwards
  <2>2. CASE pc \in QueuePcs
    <3>1. PICK b \in Stages : LeadsTo(b)
      BY StreamFacts
    <3>2. b = Queueing
      BY <2>2, <3>1, ReachedAt DEF LeadsTo, Talking
    <3>3. Stage \in Stages /\ Stage <= Queueing
      BY <3>1, <3>2, PathEnds DEF LeadsTo, BaseInv, TypeOK
    <3> QED
      BY <3>3 DEF Stage, Stages, Queueing, Idle
  <2> QED
    BY <2>1, <2>2
<1> QED
  BY <1>1, <1>2 DEF Asks, Early

LEMMA ClientRefusal ==
    ASSUME BaseInv, StreamInv, RefusalInv, ClientStep PROVE RefusalInv'
<1>1. CASE link' # "open"
  BY <1>1 DEF RefusalInv, JoinInv, DueInv, RefusedInv, Talking
<1>2. CASE link' = "open" /\ pc = "closed"
  <2>1. link # "open"
    BY <1>2 DEF BaseInv, LinkInv
  <2>2. link' # "open" \/ \E p : Connect(p)
    BY <1>2, <2>1
       DEF ClientStep, ConnectFails, TakeConnectAck, TakePlayerInfo,
           ConnectRefused, JoinGame, TakeJoinAck, TakeGameWait, TakeGameStart,
           TakeAck, TakeGameState, TakePlay, TakeGameEnd, TakeProfile,
           PollFails, SendMove, SendShopAction, Leave, linkVars, Send,
           CloseSocket
  <2>3. /\ pc' = "connect" /\ net' # "ERROR" /\ toClient' = <<>>
        /\ toServer' = <<Plain("CONNECT")>>
    BY <1>2, <2>2 DEF Connect
  <2>4. ~ Holds(toServer', "GAME_JOIN") /\ ~ Holds(toClient', "ILLEGAL_PLAY")
    BY <2>3 DEF Holds, Plain
  <2>5. ~ Holds(toServer, "GAME_JOIN")' /\ ~ Holds(toClient, "ILLEGAL_PLAY")'
    BY <2>4 DEF Holds
  <2> QED
    BY <2>3, <2>5 DEF RefusalInv, JoinInv, DueInv, RefusedInv
<1>3. CASE link' = "open" /\ pc # "closed"
  <2>1. /\ Talking /\ UNCHANGED <<pc, seat, lobbyVars>>
        /\ Takes \/ Fails \/ \E m \in Messages : Asks(m)
    BY <1>3, ClientMoves
  <2>2. /\ toServer \in Seq(Messages) /\ toClient \in Seq(Messages)
        /\ Ack \in Messages /\ Ack.type = "GENERAL_ACK"
    BY Sent DEF BaseInv, TypeOK, Ack
  <2>3. Holds(toServer, "GAME_JOIN") => blocked = "join_ack" /\ toClient = <<>>
    BY <2>1 DEF StreamInv, RequestInv
  <2>4. blocked \in {"join", "join_ack"} => net = "CONNECTED"
    BY DEF BaseInv, ClientInv
  <2>5. Holds(toClient, "ILLEGAL_PLAY") =>
           \/ pc \in {"forfeit", "release_close", "closing"}
           \/ /\ pc = "illegal_ack" /\ toServer = <<>>
              /\ InGame /\ waiting_for_ack
              /\ toClient = <<Plain("ILLEGAL_PLAY")>>
    BY <2>1 DEF RefusalInv, RefusedInv, Talking
  <2>6. UNCHANGED Stranded
    BY <2>1 DEF Stranded, lobbyVars, Count
  <2>7. CASE Takes
    <3>1. JoinInv'
      <4>1. ~ Holds(toServer', "GAME_JOIN")
        BY <2>2, <2>3, <2>7, HoldsAppend DEF Takes
      <4> QED
        BY <4>1 DEF JoinInv, Holds
    <3>2. /\ NoneDue(toServer, toClient) => NoneDue(toServer', toClient')
          /\ OneDue(toServer, toClient) => OneDue(toServer', toClient')
      BY <2>2, <2>7, NoneDueSteps, OneDueSteps DEF Takes
    <3>3. DueInv'
      BY <2>1, <2>6, <3>2 DEF RefusalInv, DueInv, NoneDue, OneDue
    <3>4. RefusedInv'
      <4>1. Holds(toClient', "ILLEGAL_PLAY") => Holds(toClient, "ILLEGAL_PLAY")
        BY <2>2, <2>7, HoldsTail DEF Takes
      <4>2. Head(toClient).type # "ILLEGAL_PLAY"
        BY <2>7, ReadableTypes DEF Takes
      <4>3. toClient # <<Plain("ILLEGAL_PLAY")>>
        BY <4>2 DEF Plain
      <4> QED
        BY <2>1, <2>5, <2>7, <4>1, <4>3 DEF RefusedInv, Takes, Holds
    <3> QED
      BY <3>1, <3>3, <3>4 DEF RefusalInv
  <2>8. CASE Fails
    <3>1. ~ Talking'
      BY <2>8 DEF Fails, Talking
    <3>2. Holds(toClient, "ILLEGAL_PLAY")
      BY <2>1, <2>2, <2>8, Unreadable, HoldsTail DEF Fails
    <3>3. RefusedInv'
      BY <2>1, <2>5, <2>8, <3>2 DEF RefusedInv, Fails
    <3> QED
      BY <3>1, <3>3 DEF RefusalInv, JoinInv, DueInv
  <2>9. ASSUME NEW m \in Messages, Asks(m) PROVE RefusalInv'
    <3>1. JoinInv'
      <4>1. ~ Holds(toServer, "GAME_JOIN")
        BY <2>3, <2>4, <2>9 DEF Asks, InGame
      <4>2. Holds(toServer', "GAME_JOIN") => m.type = "GAME_JOIN"
        BY <2>2, <2>9, <4>1, HoldsAppend DEF Asks
      <4>3. toServer'[Len(toServer')] = m
        BY <2>2, <2>9, AppendElements DEF Asks
      <4> QED
        BY <4>2, <4>3 DEF JoinInv, Holds
    <3>2. DueInv'
      <4>1. CASE pc \in QueuePcs \cup InPlay
        <5>1. m.type = "MOVE"
          BY <2>1, <2>9, <4>1, OnlyMoves
        <5>2. /\ NoneDue(toServer, toClient) => NoneDue(toServer', toClient')
              /\ OneDue(toServer, toClient) => OneDue(toServer', toClient')
          BY <2>2, <2>9, <5>1, NoneDueSteps, OneDueSteps DEF Asks
        <5> QED
          BY <2>1, <2>6, <5>2 DEF RefusalInv, DueInv, NoneDue, OneDue
      <4>2. CASE pc \notin QueuePcs \cup InPlay
        BY <2>1, <4>2 DEF DueInv, QueuePcs, InPlay, AckPcs
      <4> QED
        BY <4>1, <4>2
    <3>3. RefusedInv'
      <4>1. Holds(toClient, "ILLEGAL_PLAY") =>
               pc \in {"forfeit", "release_close", "closing"}
        BY <2>4, <2>5, <2>9 DEF Asks, InGame
      <4> QED
        BY <2>1, <2>9, <4>1 DEF RefusedInv, Asks, Holds
    <3> QED
      BY <3>1, <3>2, <3>3 DEF RefusalInv
  <2> QED
    BY <2>1, <2>7, <2>8, <2>9
<1> QED
  BY <1>1, <1>2, <1>3

\* A step of the thread that refuses no move.
LEMMA ThreadRefusal ==
    ASSUME BaseInv, RefusalInv, KeepClient,
           \/ toServer' = toServer
           \/ toServer # <<>> /\ toServer' = Tail(toServer),
           link = "open" =>
              \/ pc' \in {"forfeit", "release_close", "closing"}
              \/ /\ pc \notin {"forfeit", "release_close", "closing",
                               "illegal_ack"}
                 /\ Holds(toClient', "ILLEGAL_PLAY") =>
                       Holds(toClient, "ILLEGAL_PLAY"),
           Talking => DueInv'
    PROVE  RefusalInv'
<1>1. UNCHANGED <<net, blocked, waiting_for_ack, link, Talking, InGame>>
  BY DEF KeepClient, clientVars, Talking, InGame
<1>2. toServer \in Seq(Messages)
  BY DEF BaseInv, TypeOK
<1>3. JoinInv'
  <2>1. CASE toServer' = toServer
    BY <1>1, <2>1 DEF RefusalInv, JoinInv, Holds
  <2>2. CASE toServer # <<>> /\ toServer' = Tail(toServer)
    <3> SUFFICES ASSUME Talking', Holds(toServer', "GAME_JOIN")
                 PROVE  toServer'[Len(toServer')].type = "GAME_JOIN"
      BY DEF JoinInv, Holds
    <3>1. toServer[Len(toServer)].type = "GAME_JOIN"
      BY <1>1, <1>2, <2>2, HoldsTail DEF RefusalInv, JoinInv
    <3>2. Len(toServer) \in Nat \ {0} /\ Len(toServer') = Len(toServer) - 1
      BY <1>2, <2>2, TailElements
    <3>3. Len(toServer') # 0
      BY <3>2 DEF Holds
    <3>4. /\ Len(toServer') \in 1 .. Len(toServer) - 1
          /\ Len(toServer') + 1 = Len(toServer)
      BY <3>2, <3>3
    <3>5. Tail(toServer)[Len(toServer')] = toServer[Len(toServer)]
      BY <1>2, <2>2, <3>4, TailElements
    <3> QED
      BY <2>2, <3>1, <3>5
  <2> QED
    BY <2>1, <2>2
<1>4. DueInv'
  BY <1>1 DEF DueInv
<1>5. RefusedInv'
  BY <1>1 DEF RefusalInv, RefusedInv, Holds
<1> QED
  BY <1>3, <1>4, <1>5 DEF RefusalInv

LEMMA TellsOther ==
    ASSUME TypeOK, NEW k, NEW f,
           \/ Tell(<<>>, k, f)
           \/ \E m \in Messages :
                 m.type # "ILLEGAL_PLAY" /\ Tell(<<m>>, k, f)
           \/ \E m, n \in Messages :
                 /\ m.type # "ILLEGAL_PLAY" /\ n.type # "ILLEGAL_PLAY"
                 /\ Tell(<<m, n>>, k, f)
    PROVE  Holds(toClient', "ILLEGAL_PLAY") => Holds(toClient, "ILLEGAL_PLAY")
<1>1. toClient \in Seq(Messages)
  BY DEF TypeOK
<1>2. CASE toClient' = toClient \/ toClient' = toClient \o <<>>
  BY <1>1, <1>2
<1>3. ASSUME NEW m \in Messages, m.type # "ILLEGAL_PLAY",
             toClient' = toClient \o <<m>>
      PROVE  Holds(toClient', "ILLEGAL_PLAY") => Holds(toClient, "ILLEGAL_PLAY")
  <2>1. toClient' = Append(toClient, m)
    BY <1>1, <1>3
  <2>2. Holds(Append(toClient, m), "ILLEGAL_PLAY") =>
           Holds(toClient, "ILLEGAL_PLAY")
    BY <1>1, <1>3, HoldsAppend
  <2> QED
    BY <2>1, <2>2
<1>4. ASSUME NEW m \in Messages, NEW n \in Messages,
             m.type # "ILLEGAL_PLAY", n.type # "ILLEGAL_PLAY",
             toClient' = toClient \o <<m, n>>
      PROVE  Holds(toClient', "ILLEGAL_PLAY") => Holds(toClient, "ILLEGAL_PLAY")
  <2> DEFINE u == Append(toClient, m)
  <2>1. u \in Seq(Messages) /\ toClient' = Append(u, n)
    BY <1>1, <1>4
  <2>2. Holds(u, "ILLEGAL_PLAY") => Holds(toClient, "ILLEGAL_PLAY")
    BY <1>1, <1>4, HoldsAppend
  <2> HIDE DEF u
  <2>3. Holds(Append(u, n), "ILLEGAL_PLAY") => Holds(u, "ILLEGAL_PLAY")
    BY <1>4, <2>1, HoldsAppend
  <2> QED
    BY <2>1, <2>2, <2>3
<1> QED
  BY <1>2, <1>3, <1>4 DEF Tell

\* The steps of the thread that end where nothing is said of answers.
LEMMA OtherwiseRefusal ==
    ASSUME BaseInv, RefusalInv,
           \/ \E m \in Received :
                 \/ HandleConnect(m) \/ HandleInfoAck(m)
                 \/ ShopActionServed(m) \/ ShopActionRefused(m)
                 \/ HandleOther(m) \/ HandleShopAck(m) \/ FailInPlay(m)
                 \/ HandleUpdateAck(m) \/ HandleEndAck(m)
           \/ SeeGameOver \/ SendResult \/ HandleDisconnectWin \/ ReleaseSlot
    PROVE  RefusalInv'
<1>1. /\ KeepClient
      /\ \/ toServer' = toServer
         \/ toServer # <<>> /\ toServer' = Tail(toServer)
  <2>1. ASSUME NEW m \in Received, Consume(m)
        PROVE  \/ toServer' = toServer
               \/ toServer # <<>> /\ toServer' = Tail(toServer)
    BY <2>1, Consumes DEF BaseInv
  <2> QED
    BY <2>1
       DEF HandleConnect, HandleInfoAck, ShopActionServed, ShopActionRefused,
           HandleOther, HandleShopAck, FailInPlay, HandleUpdateAck,
           HandleEndAck, SeeGameOver, SendResult, HandleDisconnectWin,
           ReleaseSlot, KeepClient, linkVars
<1>2. pc' \in {"info_ack", "join", "shop_ack", "closing", "forfeit", "end_ack",
               "update_ack", "release_keep", "release_close", "result"}
  BY DEF HandleConnect, HandleInfoAck, ShopActionServed, ShopActionRefused,
         HandleOther, HandleShopAck, FailInPlay, HandleUpdateAck, HandleEndAck,
         SeeGameOver, SendResult, HandleDisconnectWin, ReleaseSlot, TellEnd,
         Tell
<1>3. DueInv'
  BY <1>2 DEF DueInv
<1>4. Holds(toClient', "ILLEGAL_PLAY") => Holds(toClient, "ILLEGAL_PLAY")
  <2>1. /\ \A t \in {"PLAYER_INFO", "PLAYER_DATA_UPDATE"} :
              Plain(t) \in Messages /\ Plain(t).type # "ILLEGAL_PLAY"
        /\ \A b \in BOOLEAN : GameEnd(b) \in Messages
                              /\ GameEnd(b).type # "ILLEGAL_PLAY"
        /\ \A m \in {Ack, Nok} : m \in Messages /\ m.type # "ILLEGAL_PLAY"
    BY Sent DEF Plain, GameEnd, Ack, Nok
  <2>2. ASSUME TellEnd
        PROVE  Holds(toClient', "ILLEGAL_PLAY") =>
                  Holds(toClient, "ILLEGAL_PLAY")
    BY <2>1, <2>2, TellsOther DEF TellEnd, BaseInv
  <2>3. ASSUME NEW m, HandleConnect(m)
        PROVE  Holds(toClient', "ILLEGAL_PLAY") =>
                  Holds(toClient, "ILLEGAL_PLAY")
    BY <2>1, <2>3, TellsOther DEF HandleConnect, BaseInv
  <2>4. ASSUME NEW m, ShopActionServed(m) \/ ShopActionRefused(m)
        PROVE  Holds(toClient', "ILLEGAL_PLAY") =>
                  Holds(toClient, "ILLEGAL_PLAY")
    BY <2>1, <2>4, TellsOther DEF ShopActionServed, ShopActionRefused, BaseInv
  <2>5. ASSUME SendResult
        PROVE  Holds(toClient', "ILLEGAL_PLAY") =>
                  Holds(toClient, "ILLEGAL_PLAY")
    BY <2>1, <2>2, <2>5, TellsOther DEF SendResult, BaseInv
  <2> QED
    BY <2>2, <2>3, <2>4, <2>5
       DEF HandleInfoAck, HandleOther, HandleShopAck, FailInPlay,
           HandleUpdateAck, HandleEndAck, SeeGameOver, HandleDisconnectWin,
           ReleaseSlot, linkVars
<1>5. \/ pc' \in {"forfeit", "release_close", "closing"}
      \/ pc \notin {"forfeit", "release_close", "closing", "illegal_ack"}
  BY DEF HandleConnect, HandleInfoAck, ShopActionServed, ShopActionRefused,
         HandleOther, HandleShopAck, FailInPlay, HandleUpdateAck, HandleEndAck,
         SeeGameOver, SendResult, HandleDisconnectWin, ReleaseSlot
<1> QED
  BY <1>1, <1>3, <1>4, <1>5, ThreadRefusal

LEMMA CloseConnectionRefusal ==
    ASSUME RefusalInv, CloseConnection PROVE RefusalInv'
<1>1. link' # "open"
  BY DEF CloseConnection
<1> QED
  BY <1>1 DEF RefusalInv, JoinInv, DueInv, RefusedInv, Talking

\* The GAME_JOIN that the thread takes is all that was under way.
LEMMA HandleGameJoinRefusal ==
    ASSUME BaseInv, StreamInv, RefusalInv,
           NEW m \in Received, HandleGameJoin(m)
    PROVE  RefusalInv'
<1>1. /\ pc = "join" /\ Consume(m) /\ m.type = "GAME_JOIN" /\ KeepClient
      /\ seat' = seat /\ pc' = "acquire" /\ Tell(<<Ack>>, "acquire", "acquire")
  BY DEF HandleGameJoin, KeepLobby, Tell
<1>2. /\ Ack \in Messages /\ Ack.type = "GENERAL_ACK"
      /\ toServer \in Seq(Messages)
  BY Sent DEF Ack, BaseInv, TypeOK
<1>3. /\ toServer # <<>> /\ m = Head(toServer) /\ toServer' = Tail(toServer)
      /\ Holds(toServer, "GAME_JOIN")
  BY <1>1, Consumes DEF BaseInv
<1>4. seat' # 1
  BY <1>1 DEF BaseInv, SeatInv, Seated, MatchPcs, AckPcs, EndPcs, NoId
<1>5. ASSUME Talking PROVE toServer' = <<>> /\ toClient' = <<Ack>>
  <2>1. toClient = <<>> /\ Once(toServer, "GAME_JOIN")
    BY <1>3, <1>5 DEF StreamInv, RequestInv
  <2>2. toServer[Len(toServer)].type = "GAME_JOIN"
    BY <1>3, <1>5 DEF RefusalInv, JoinInv
  <2>3. Len(toServer) \in Nat \ {0} /\ Head(toServer) = toServer[1]
    BY <1>2, <1>3, TailElements
  <2>4. Len(toServer) = 1
    <3>1. 1 \in 1 .. Len(toServer) /\ Len(toServer) \in 1 .. Len(toServer)
      BY <2>3
    <3>2. toServer[1].type = "GAME_JOIN"
      BY <1>1, <1>3, <2>3
    <3> QED
      BY <2>1, <2>2, <3>1, <3>2 DEF Once
  <2>5. Tail(toServer) = <<>>
    BY <1>2, <1>3, <2>4
  <2>6. toClient' = <<Ack>>
    BY <1>1, <1>5, <2>1 DEF Tell, Talking
  <2> QED
    BY <1>3, <2>5, <2>6
<1>6. Only(<<>>, {"MOVE"}) /\ Only(<<Ack>>, {"GENERAL_ACK"})
  BY <1>2 DEF Only
<1>7. Talking => DueInv'
  BY <1>1, <1>4, <1>5, <1>6 DEF DueInv, NoneDue
<1>8. Holds(toClient', "ILLEGAL_PLAY") => Holds(toClient, "ILLEGAL_PLAY")
  BY <1>1, <1>2, TellsOther DEF BaseInv
<1> QED
  BY <1>1, <1>3, <1>7, <1>8, ThreadRefusal

\* The queue.
LEMMA QueueRefusal ==
    ASSUME BaseInv, IdInv, RefusalInv,
           \/ AcquireSlot \/ SeeBothPlayers \/ SendGameWait
           \/ \E m \in Received : KeepAlive(m)
    PROVE  RefusalInv'
<1>1. CASE AcquireSlot
  <2>1. /\ pc = "acquire" /\ pc' \in {"closing", "poll"}
        /\ UNCHANGED <<clientVars, link, toServer, toClient, lobbyVars>>
    BY <1>1 DEF AcquireSlot, linkVars
  <2>2. Talking => DueInv'
    BY <2>1 DEF RefusalInv, DueInv, NoneDue
  <2> QED
    BY <2>1, <2>2, ThreadRefusal DEF KeepClient
<1>2. CASE SeeBothPlayers
  <2>1. /\ pc = "poll" /\ Count >= 2 /\ pc' = "begin"
        /\ UNCHANGED <<clientVars, link, toServer, toClient, seat>>
    BY <1>2 DEF SeeBothPlayers, linkVars, KeepLobby
  <2>2. ~ Stranded
    BY <2>1 DEF Stranded, Count, BaseInv, TypeOK, Ids
  <2>3. Talking => DueInv'
    BY <2>1, <2>2 DEF RefusalInv, DueInv, NoneDue
  <2> QED
    BY <2>1, <2>3, ThreadRefusal DEF KeepClient
<1>3. CASE SendGameWait
  <2> DEFINE full == Len(toServer) + Len(toClient) >= MaxPending
             ms   == IF full THEN <<>> ELSE <<Plain("GAME_WAIT")>>
  <2>1. /\ pc = "poll" /\ Count < 2 /\ pc' \in {"keep_alive", "release_close"}
        /\ Tell(ms, "keep_alive", "release_close")
        /\ KeepClient /\ UNCHANGED <<toServer, seat, lobbyVars, Count>>
    BY <1>3 DEF SendGameWait, KeepLobby, Tell, lobbyVars, Count
  <2>2. seat = 1 => Stranded'
    BY <2>1 DEF Stranded, IdInv, BaseInv, TypeOK, lobbyVars
  <2>3. DueInv'
    BY <2>1, <2>2 DEF DueInv
  <2>4. /\ Plain("GAME_WAIT") \in Messages
        /\ Plain("GAME_WAIT").type # "ILLEGAL_PLAY"
    BY Sent DEF Plain
  <2>5. ms = <<>> \/ ms = <<Plain("GAME_WAIT")>>
    OBVIOUS
  <2> HIDE DEF ms
  <2>6. Holds(toClient', "ILLEGAL_PLAY") => Holds(toClient, "ILLEGAL_PLAY")
    BY <2>1, <2>4, <2>5, TellsOther DEF BaseInv
  <2> QED
    BY <2>1, <2>3, <2>6, ThreadRefusal
<1>4. ASSUME NEW m \in Received, KeepAlive(m) PROVE RefusalInv'
  <2>1. /\ pc = "keep_alive" /\ Consume(m) /\ pc' \in {"poll", "release_close"}
        /\ KeepClient /\ UNCHANGED <<toClient, seat, lobbyVars, Stranded>>
    BY <1>4 DEF KeepAlive, KeepLobby, lobbyVars, Stranded, Count
  <2>2. Talking => DueInv'
    BY <2>1 DEF RefusalInv, DueInv
  <2> QED
    BY <2>1, <2>2, Consumes, ThreadRefusal DEF BaseInv
<1> QED
  BY <1>1, <1>2, <1>3, <1>4

\* The thread sends n, and awaits the answer to it.
LEMMA ExchangeRefusal ==
    ASSUME BaseInv, RefusalInv, KeepClient, seat' = seat, toServer' = toServer,
           pc \in {"begin", "turn"},
           pc' \in {"start_ack", "turn_ack", "forfeit", "release_close"},
           NEW n \in Messages, n.type \notin {"GENERAL_ACK", "ILLEGAL_PLAY"},
           NEW k, NEW f, Tell(<<n>>, k, f)
    PROVE  RefusalInv'
<1>1. toServer \in Seq(Messages) /\ toClient \in Seq(Messages)
  BY DEF BaseInv, TypeOK
<1>2. toClient \o <<n>> = Append(toClient, n)
  BY <1>1
<1>3. Talking => toClient' = Append(toClient, n)
  BY <1>2 DEF Tell, Talking
<1>4. ASSUME Talking, seat = 1 PROVE OneDue(toServer, toClient')
  <2>1. NoneDue(toServer, toClient)
    BY <1>4 DEF RefusalInv, DueInv
  <2>2. OneDue(toServer, Append(toClient, n))
    BY <1>1, <2>1, NoneDueSteps
  <2> QED
    BY <1>3, <1>4, <2>2
<1>5. Talking => DueInv'
  BY <1>4 DEF DueInv, OneDue
<1>6. Holds(toClient', "ILLEGAL_PLAY") => Holds(toClient, "ILLEGAL_PLAY")
  BY TellsOther DEF BaseInv
<1> QED
  BY <1>5, <1>6, ThreadRefusal

LEMMA StartMatchRefusal ==
    ASSUME BaseInv, RefusalInv, StartMatch PROVE RefusalInv'
<1> DEFINE n == GameStart(current_turn' = seat)
<1>1. n \in Messages /\ n.type = "GAME_START"
  BY Sent DEF GameStart
<1>2. /\ pc = "begin" /\ KeepClient /\ UNCHANGED <<toServer, seat>>
      /\ Tell(<<n>>, "start_ack", "release_close")
  BY DEF StartMatch
<1> HIDE DEF n
<1>3. pc' \in {"start_ack", "release_close"}
  BY <1>2 DEF Tell
<1> QED
  BY <1>1, <1>2, <1>3, ExchangeRefusal

LEMMA TakeTurnRefusal ==
    ASSUME BaseInv, RefusalInv, TakeTurn PROVE RefusalInv'
<1> DEFINE n == GameState(board)
<1>1. n \in Messages /\ n.type = "GAME_STATE"
  BY Sent DEF GameState, BaseInv, TypeOK
<1>2. /\ pc = "turn" /\ KeepClient /\ UNCHANGED <<toServer, seat>>
      /\ Tell(<<n>>, "turn_ack", "forfeit")
  BY DEF TakeTurn, KeepLobby
<1> HIDE DEF n
<1>3. pc' \in {"turn_ack", "forfeit"}
  BY <1>2 DEF Tell
<1> QED
  BY <1>1, <1>2, <1>3, ExchangeRefusal

LEMMA HandleAckRefusal ==
    ASSUME BaseInv, PlayInv, RefusalInv, NEW m \in Received, HandleAck(m)
    PROVE  RefusalInv'
<1>1. /\ Consume(m) /\ m.type = "GENERAL_ACK" /\ KeepClient /\ seat' = seat
      /\ \/ /\ pc = "start_ack"
            /\ Tell(<<GameState(board)>>, "state_ack", "forfeit")
         \/ /\ pc = "turn_ack"
            /\ Tell(<<Plain("PLAY")>>, "play_ack", "forfeit")
         \/ /\ <<pc, pc'>> \in {<<"state_ack", "turn">>, <<"play_ack", "move">>,
                                <<"illegal_ack", "move">>,
                                <<"moved_ack", "turn">>,
                                <<"last_ack", "result">>}
            /\ toClient' = toClient
  BY HandsOn DEF BaseInv, KeepLobby
<1>2. toServer # <<>> /\ m = Head(toServer) /\ toServer' = Tail(toServer)
  BY <1>1, Consumes DEF BaseInv
<1>3. /\ toServer \in Seq(Messages) /\ toClient \in Seq(Messages)
      /\ GameState(board) \in Messages /\ Plain("PLAY") \in Messages
      /\ GameState(board).type = "GAME_STATE" /\ Plain("PLAY").type = "PLAY"
  BY Sent DEF BaseInv, TypeOK, GameState, Plain
<1>4. link = "open" => pc # "illegal_ack"
  <2>1. Talking /\ pc = "illegal_ack" => Holds(toClient, "ILLEGAL_PLAY")
    BY DEF PlayInv, PromptInv
  <2> QED
    BY <1>2, <2>1 DEF RefusalInv, RefusedInv, Talking
<1>5. Holds(toClient', "ILLEGAL_PLAY") => Holds(toClient, "ILLEGAL_PLAY")
  BY <1>1, <1>3, TellsOther DEF BaseInv
<1>6. ASSUME Talking PROVE DueInv'
  <2>1. CASE seat = 1 /\ pc # "last_ack"
    <3>1. pc \in {"start_ack", "state_ack", "turn_ack", "play_ack", "moved_ack"}
      BY <1>1, <1>4, <1>6, <2>1 DEF Talking
    <3>2. NoneDue(toServer', toClient)
      BY <1>1, <1>2, <1>3, <1>6, <2>1, <3>1, OneDueSteps DEF RefusalInv, DueInv
    <3>3. ASSUME NEW n \in Messages, n.type # "GENERAL_ACK", NEW k, NEW f,
                 Tell(<<n>>, k, f)
          PROVE  pc' = k /\ OneDue(toServer', toClient')
      <4>1. toClient' = Append(toClient, n) /\ pc' = k
        BY <1>3, <1>6, <3>3 DEF Tell, Talking
      <4>2. toServer' \in Seq(Messages)
        BY <1>2, <1>3
      <4>3. OneDue(toServer', Append(toClient, n))
        BY <1>3, <3>2, <3>3, <4>2, NoneDueSteps
      <4> QED
        BY <4>1, <4>3
    <3>4. CASE pc = "start_ack"
      <4>1. pc' = "state_ack" /\ OneDue(toServer', toClient')
        BY <1>1, <1>3, <3>3, <3>4
      <4> QED
        BY <4>1 DEF DueInv, OneDue
    <3>5. CASE pc = "turn_ack"
      <4>1. pc' = "play_ack" /\ OneDue(toServer', toClient')
        BY <1>1, <1>3, <3>3, <3>5
      <4> QED
        BY <4>1 DEF DueInv, OneDue
    <3>6. CASE pc \in {"state_ack", "play_ack", "moved_ack"}
      <4>1. pc' \in {"turn", "move"} /\ NoneDue(toServer', toClient')
        BY <1>1, <3>2, <3>6
      <4> QED
        BY <4>1 DEF DueInv, NoneDue
    <3> QED
      BY <3>1, <3>4, <3>5, <3>6
  <2>2. CASE pc = "last_ack"
    BY <1>1, <2>2 DEF DueInv
  <2>3. CASE seat # 1
    <3>1. pc' # "acquire"
      BY <1>1 DEF Tell
    <3> QED
      BY <1>1, <2>3, <3>1 DEF DueInv
  <2> QED
    BY <2>1, <2>2, <2>3
<1> QED
  BY <1>1, <1>2, <1>4, <1>5, <1>6, ThreadRefusal DEF HandleAck, AckPcs

LEMMA LegalMoveRefusal ==
    ASSUME BaseInv, RefusalInv, NEW m \in Received, LegalMove(m)
    PROVE  RefusalInv'
<1> DEFINE next == IF IsFinished(board') THEN "last_ack" ELSE "moved_ack"
           n    == GameState(board')
<1>1. /\ KeepClient /\ Tell(<<Ack, n>>, next, "forfeit") /\ seat' = seat
      /\ pc = "move" /\ Consume(m) /\ m.type = "MOVE"
      /\ Moved(seat, m.coin_index, m.coin_pos)
  BY DEF LegalMove
<1>2. seat \in Ids
  BY <1>1 DEF BaseInv, TypeOK, SeatInv, Seated, MatchPcs
<1>3. /\ n \in Messages /\ n.type = "GAME_STATE"
      /\ Ack \in Messages /\ Ack.type = "GENERAL_ACK"
      /\ toServer \in Seq(Messages) /\ toClient \in Seq(Messages)
  BY <1>1, <1>2, Moves, Sent DEF GameState, Ack, BaseInv, TypeOK
<1>4. next \in {"last_ack", "moved_ack"}
  OBVIOUS
<1> HIDE DEF next, n
<1>5. toServer # <<>> /\ toServer' = Tail(toServer)
  BY <1>1, Consumes DEF BaseInv
<1>6. pc' \in {"last_ack", "moved_ack", "forfeit"}
  BY <1>1, <1>4 DEF Tell
<1>7. ASSUME Talking, seat = 1 PROVE OneDue(toServer', toClient')
  <2> DEFINE u == Append(toClient, Ack)
  <2>1. u \in Seq(Messages) /\ toServer' \in Seq(Messages)
    BY <1>3, <1>5
  <2>2. toClient' = Append(u, n)
    BY <1>1, <1>3, <1>7 DEF Tell, Talking
  <2>3. NoneDue(toServer, toClient)
    BY <1>1, <1>7 DEF RefusalInv, DueInv
  <2>4. NoneDue(toServer', toClient)
    BY <1>3, <1>5, <2>3, NoneDueSteps
  <2>5. NoneDue(toServer', u)
    BY <1>3, <2>1, <2>4, NoneDueSteps
  <2> HIDE DEF u
  <2>6. OneDue(toServer', Append(u, n))
    BY <1>3, <2>1, <2>5, NoneDueSteps
  <2> QED
    BY <2>2, <2>6
<1>8. Talking => DueInv'
  BY <1>1, <1>6, <1>7 DEF DueInv, OneDue
<1>9. Holds(toClient', "ILLEGAL_PLAY") => Holds(toClient, "ILLEGAL_PLAY")
  BY <1>1, <1>3, TellsOther DEF BaseInv
<1> QED
  BY <1>1, <1>5, <1>8, <1>9, ThreadRefusal

\* A move of a player with id 0 is not refused; when one of a player with id 1
\* is, nothing else is under way.
LEMMA IllegalMoveRefusal ==
    ASSUME BaseInv, StreamInv, PlayInv, IdInv, TurnInv, RefusalInv,
           NEW m \in Received, IllegalMove(m)
    PROVE  RefusalInv'
<1> DEFINE n == Plain("ILLEGAL_PLAY")
<1>1. /\ KeepClient /\ KeepLobby /\ pc = "move" /\ Consume(m)
      /\ m.type = "MOVE" /\ ~ IsMoveValid(board, m.coin_index, m.coin_pos)
      /\ Tell(<<n>>, "illegal_ack", "illegal_ack") /\ pc' = "illegal_ack"
  BY DEF IllegalMove, Tell
<1>2. n \in Messages /\ toServer \in Seq(Messages) /\ toClient \in Seq(Messages)
  BY Sent DEF BaseInv, TypeOK
<1>3. toServer # <<>> /\ m = Head(toServer) /\ toServer' = Tail(toServer)
  BY <1>1, Consumes DEF BaseInv
<1>4. UNCHANGED <<net, blocked, waiting_for_ack, link, Talking, InGame>>
  BY <1>1 DEF KeepClient, clientVars, Talking, InGame
<1>5. CASE link # "open"
  BY <1>4, <1>5 DEF RefusalInv, JoinInv, DueInv, RefusedInv, Talking
<1>6. CASE link = "open"
  <2>1. Talking
    BY <1>1, <1>6 DEF RefusalInv, RefusedInv, Talking
  <2>2. seat = 1
    <3>1. ~ Unshared
      <4> SUFFICES ASSUME Unshared PROVE FALSE
        OBVIOUS
      <4>1. LegalMoves(toServer, board)
        BY UnsharedFacts DEF TheirTurn
      <4>2. 1 \in 1 .. Len(toServer) /\ Head(toServer) = toServer[1]
        BY <1>2, <1>3, TailElements
      <4> QED
        BY <1>1, <1>3, <4>1, <4>2 DEF LegalMoves
    <3>2. seat \in Ids
      BY <1>1 DEF BaseInv, TypeOK, SeatInv, Seated, MatchPcs
    <3>3. seat # 0
      BY <1>1, <1>6, <3>1
         DEF Unshared, IdInv, MatchPcs, OverPcs, AckPcs, EndPcs
    <3> QED
      BY <3>2, <3>3 DEF Ids
  <2>3. NoneDue(toServer, toClient)
    BY <1>1, <2>1, <2>2 DEF RefusalInv, DueInv
  <2>4. /\ InGame /\ waiting_for_ack
        /\ ~ Holds(toClient, "GENERAL_ACK") /\ ~ Holds(toServer', "MOVE")
    BY <1>1, <2>1, MoveTaken DEF PlayInv, InGame
  <2>5. toServer' = <<>>
    <3>1. toServer' \in Seq(Messages) /\ Only(toServer', {"MOVE"})
      BY <1>2, <1>3, <2>3, OnlySteps DEF NoneDue
    <3>2. Len(toServer') = 0
      <4>1. Len(toServer') \in Nat
        BY <3>1
      <4>2. 1 \notin 1 .. Len(toServer')
        BY <2>4, <3>1 DEF Only, Holds
      <4> QED
        BY <4>1, <4>2
    <3> QED
      BY <3>1, <3>2
  <2>6. toClient = <<>>
    <3>1. 1 \notin 1 .. Len(toClient)
      BY <2>3, <2>4 DEF NoneDue, Only, Holds
    <3>2. Len(toClient) = 0
      <4>1. Len(toClient) \in Nat
        BY <1>2
      <4> QED
        BY <3>1, <4>1
    <3> QED
      BY <1>2, <3>2
  <2>7. toClient' = <<n>>
    BY <1>1, <1>6, <2>6 DEF Tell
  <2>8. RefusedInv'
    BY <1>1, <1>4, <2>4, <2>5, <2>7 DEF RefusedInv
  <2>9. JoinInv'
    <3>1. ~ Holds(toServer', "GAME_JOIN")
      BY <2>5, HoldsEmpty
    <3> QED
      BY <3>1 DEF JoinInv, Holds
  <2>10. DueInv'
    BY <1>1 DEF DueInv
  <2> QED
    BY <2>8, <2>9, <2>10 DEF RefusalInv
<1> QED
  BY <1>5, <1>6

\* The match that a player with id 1 has lost is not reset before it leaves.
LEMMA OthersRefusal ==
    ASSUME BaseInv, IdInv, RefusalInv, OthersStep PROVE RefusalInv'
<1>1. UNCHANGED <<clientVars, linkVars, threadVars>>
  BY DEF OthersStep, OtherJoins, OtherStarts, OtherMoves, OtherForfeits,
         OtherLeaves, KeepSession
<1>2. UNCHANGED <<net, waiting_for_ack, InGame, Talking, link, toClient,
                  toServer, pc, seat>>
  BY <1>1 DEF clientVars, linkVars, threadVars, InGame, Talking
<1>3. others \in [Ids -> 0 .. 2]
  BY DEF BaseInv, TypeOK
<1>4. ASSUME Stranded, seat = 1 PROVE Stranded'
  <2>1. game_started /\ Count < 2
    BY <1>4 DEF Stranded
  <2>2. CASE UNCHANGED <<game_started, others>>
    BY <1>2, <2>1, <2>2 DEF Stranded, Count
  <2>3. ASSUME NEW i \in Ids, OtherLeaves(i) PROVE Stranded'
    <3>1. others[i] > 0 /\ others' = [others EXCEPT ![i] = @ - 1]
      BY <2>3 DEF OtherLeaves
    <3>2. Count # 1
      BY <1>3, <1>4, <3>1 DEF Count, Ids, NoId
    <3> QED
      BY <1>3, <1>4, <2>1, <3>1, <3>2 DEF Count, Ids, NoId
  <2> QED
    BY <2>1, <2>2, <2>3
       DEF OthersStep, OtherJoins, OtherStarts, OtherMoves, OtherForfeits,
           Moved, Lose
<1>5. DueInv'
  BY <1>2, <1>4 DEF RefusalInv, DueInv, NoneDue, OneDue
<1> QED
  BY <1>2, <1>5 DEF RefusalInv, JoinInv, RefusedInv, Holds

LEMMA RefusalInit == Init => RefusalInv
  BY DEF Init, RefusalInv, JoinInv, DueInv, RefusedInv, Talking

LEMMA RefusalNext ==
    /\ BaseInv /\ StreamInv /\ PlayInv /\ IdInv /\ TurnInv /\ RefusalInv
    /\ [Next]_vars
    => RefusalInv'
<1> SUFFICES ASSUME BaseInv, StreamInv, PlayInv, IdInv, TurnInv, RefusalInv,
                    [Next]_vars
             PROVE  RefusalInv'
  OBVIOUS
<1>1. CASE ClientStep
  BY <1>1, ClientRefusal
<1>2. CASE ThreadStep
  BY <1>2, OtherwiseRefusal, CloseConnectionRefusal, HandleGameJoinRefusal,
     QueueRefusal, StartMatchRefusal, TakeTurnRefusal, HandleAckRefusal,
     LegalMoveRefusal, IllegalMoveRefusal
     DEF ThreadStep, ThreadReceives
<1>3. CASE OthersStep
  BY <1>3, OthersRefusal
<1>4. CASE UNCHANGED vars
  <2>1. UNCHANGED <<net, waiting_for_ack, link, toClient, toServer, pc, seat,
                    game_started, others>>
    BY <1>4 DEF vars, clientVars, linkVars, threadVars, lobbyVars
  <2>2. UNCHANGED <<Talking, InGame, Stranded>>
    BY <2>1 DEF Talking, InGame, Stranded, Count
  <2> QED
    BY <2>1, <2>2
       DEF RefusalInv, JoinInv, DueInv, RefusedInv, NoneDue, OneDue, Holds
<1> QED
  BY <1>1, <1>2, <1>3, <1>4 DEF Next

\* With nothing under way the thread only waits for a choice of the user, which
\* the client offers: in the lobby it is connected, in a match it has the turn
\* and a legal move on the board that it shows.  It waits in vain for a client
\* whose CONNECT it took for something else, and for one whose move it refused,
\* and for no other.
THEOREM NobodyStandsOff == Spec => []NoStandoff
<1>1. BaseInv /\ StreamInv /\ PlayInv /\ RefusalInv => NoStandoff
  <2> SUFFICES ASSUME BaseInv, StreamInv, PlayInv, RefusalInv, pc \in RecvPcs,
                      link = "open", toServer = <<>>, toClient = <<>>
               PROVE  MayAsk \/ MayMove \/ GreetingMissed \/ MoveRefused
    BY DEF NoStandoff
  <2>1. CASE net = "ERROR"
    <3>1. pc \notin {"forfeit", "release_close", "closing"}
      BY DEF RecvPcs, ShopPcs, AckPcs, EndPcs
    <3> QED
      BY <2>1, <3>1 DEF RefusalInv, RefusedInv, MoveRefused
  <2>2. CASE net # "ERROR"
    <3>1. Talking /\ Stage \in Reached(pc, purpose)
      BY <2>2, StreamFacts DEF Talking
    <3>2. \A t : ~ Holds(toServer, t) /\ ~ Holds(toClient, t)
      BY HoldsEmpty
    <3>3. pc \notin AwaitingPcs
      BY <3>1 DEF PlayInv, AwaitedInv, ToAcknowledge
    <3>4. pc # "connect"
      <4>1. <<Plain("CONNECT")>> # <<>>
        OBVIOUS
      <4> QED
        BY <3>1, <4>1 DEF StreamInv, GreetingInv
    <3>5. pc \in {"join", "move"}
      BY <3>3, <3>4 DEF RecvPcs, ShopPcs, AwaitingPcs
    <3>6. CASE pc = "join"
      <4>1. Stage \in {Connecting, Joining, Idle}
        BY <3>1, <3>6, ReachedAt
      <4>2. blocked # "player_info"
        BY <4>1 DEF Stage, Connecting, Introduced, Joining, Idle
      <4>3. blocked # "join_ack"
        BY <3>1, <3>2, <3>6 DEF StreamInv, RequestInv
      <4>4. blocked = "no" => net = "CONNECTED" /\ ~ waiting_for_ack
        <5> SUFFICES ASSUME blocked = "no"
                     PROVE  net = "CONNECTED" /\ ~ waiting_for_ack
          OBVIOUS
        <5>1. net \notin {"IN_LOBBY", "IN_GAME"}
          BY <4>1 DEF Stage, Connecting, Joining, Queueing, InMatch, Idle
        <5>2. net \notin {"CONNECTING", "DISCONNECTED"}
          BY DEF BaseInv, LinkInv, ClientInv
        <5> QED
          BY <2>2, <5>1, <5>2 DEF BaseInv, TypeOK, NetStates, ClientInv
      <4>5. blocked \in {"no", "join", "connect_ack"}
        BY <4>2, <4>3 DEF BaseInv, TypeOK, BlockedIn
      <4> QED
        BY <3>6, <4>4, <4>5 DEF MayAsk, GreetingMissed
    <3>7. CASE pc = "move"
      <4>1. pc \in InPlay /\ pc \in MatchPcs \ {"end_ack"}
        BY <3>7, InPlayPcs
      <4>2. net = "IN_GAME" /\ result = "none"
        BY <3>1, <4>1, PlayFacts DEF BaseInv, ClientInv
      <4>3. ~ waiting_for_ack
        BY <3>1, <3>2, <3>7, <4>1, <4>2 DEF PlayInv, AnswerInv
      <4>4. ~ Prompted(toClient)
        BY DEF Prompted
      <4>5. InGame /\ is_our_turn
        BY <3>1, <3>2, <3>7, <4>4 DEF PlayInv, PromptInv
      <4>6. PICK b \in Boards :
                ~ IsFinished(b) /\ Shows(toClient, InGame, view, b)
        BY <3>1, <3>2, <3>7 DEF PlayInv, PromptInv
      <4>7. view = b
        BY <4>6 DEF Shows, ShowsBefore
      <4>8. PICK i \in Cells, j \in Cells : IsMoveValid(view, i, j)
        BY <4>6, <4>7, FinishedIffStuck
      <4>9. i \in Int /\ j \in Int /\ view \in Boards
        BY <4>6, <4>7, BoardAssumption DEF Cells
      <4>10. ClientMoveIsValid(view, i, j)
        BY <4>8, <4>9, ClientRule
      <4> QED
        BY <3>7, <4>2, <4>3, <4>5, <4>10 DEF MayMove
    <3> QED
      BY <3>5, <3>6, <3>7
  <2> QED
    BY <2>1, <2>2
<1> QED
  BY BaseInit, BaseNext, StreamInit, StreamNext, PlayInit, PlayNext, IdInit,
     IdNext, TurnInit, TurnNext, RefusalInit, RefusalNext, <1>1, PTL DEF Spec
=============================================================================
