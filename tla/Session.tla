------------------------------ MODULE Session ------------------------------
(***************************************************************************)
(* One player's session: network_client.c and the loop of the client's     *)
(* main.c on one side, the thread of server_worker.c that serves the       *)
(* connection on the other, and between them a stream in each direction.   *)
(*                                                                         *)
(* The protocol has no sequence numbers.  Each side sends a message, takes *)
(* the next one that arrives, and holds it for the answer.  Messages are   *)
(* delayed without a bound here, so every timeout of the server (60 s on a *)
(* receive, 50 ms after GAME_WAIT) can expire while the answer is on its   *)
(* way.                                                                    *)
(*                                                                         *)
(* The rest of the server is what this thread can see of it: the fields of *)
(* struct ServerLobby, and how many other players hold a slot under which  *)
(* id.  They join, start, move, forfeit and leave as the threads of module *)
(* Lobby do when nobody leaves before a match; this client may, at any     *)
(* time.  It connects again when its last thread has ended: threads that   *)
(* overlap are the subject of Lobby.                                       *)
(***************************************************************************)
EXTENDS GameLogic, Emap, Sequences

CONSTANT MaxPending     \* no GAME_WAIT or SHOP_ACTION while so many are unread

ASSUME PendingAssumption == MaxPending \in Nat \ {0}

VARIABLES
    \* the client
    net,                \* NetworkClient.state
    blocked,            \* the receive loop that the client is in, or "no"
    purpose,            \* of the connection: "match" or "info"
    is_our_turn,
    waiting_for_ack,
    view,               \* GameState.board
    result,             \* GameState.gameOver and .winner
    \* the connection
    link,               \* see Links
    toServer, toClient,
    \* the thread
    pc,
    seat,               \* my_id
    \* the lobby
    board, current_turn, winner_id, game_started, game_over,
    others              \* of each id, the other players that hold a slot

clientVars == <<net, blocked, purpose, is_our_turn, waiting_for_ack, view,
                result>>
linkVars   == <<link, toServer, toClient>>
threadVars == <<pc, seat>>
lobbyVars  == <<board, current_turn, winner_id, game_started, game_over,
                others>>
vars == <<clientVars, linkVars, threadVars, lobbyVars>>

NetStates == {"DISCONNECTED", "CONNECTING", "CONNECTED", "IN_LOBBY",
              "IN_GAME", "ERROR"}

\* "join" is the moment between Connect and JoinGame, in one frame.
BlockedIn == {"no", "connect_ack", "player_info", "join", "join_ack"}

(***************************************************************************)
(* The connection as the client's socket knows it: "gone", the client has  *)
(* closed it; "closed", the server has, and all was read; "reset", it has  *)
(* with messages unread, or the client has sent since; "dead", a send has  *)
(* failed and taken the socket's error with it.                            *)
(***************************************************************************)
Links == {"gone", "open", "closed", "reset", "dead"}

\* Where the thread waits in emap_recv_packet.
ShopPcs  == {"info_ack", "join", "shop_ack"}
AckPcs   == {"start_ack", "state_ack", "turn_ack", "play_ack", "illegal_ack",
             "moved_ack", "last_ack"}
EndPcs   == {"update_ack", "end_ack"}
RecvPcs  == {"connect", "move"} \cup ShopPcs \cup AckPcs \cup EndPcs
MatchPcs == {"turn", "move", "result", "forfeit"} \cup AckPcs \cup EndPcs
Pcs == RecvPcs \cup MatchPcs
         \cup {"closed", "acquire", "poll", "keep_alive", "begin",
               "release_keep", "release_close", "closing"}

Ids     == {0, 1}
NoId    == -1
NoCoins == [i \in Cells |-> 0]

\* Messages.  A profile is left out, and so is who is connecting.
Plain(type)      == [type |-> type]
Ack              == [type |-> "GENERAL_ACK", ok |-> TRUE]
Nok              == [type |-> "GENERAL_ACK", ok |-> FALSE]
GameStart(yours) == [type |-> "GAME_START", is_starting |-> yours]
GameState(b)     == [type |-> "GAME_STATE", board |-> b]
Move(from, to)   == [type |-> "MOVE", coin_index |-> from, coin_pos |-> to]
GameEnd(won)     == [type |-> "GAME_END", has_won |-> won]

IsOk(m) == m.type = "GENERAL_ACK" /\ m.ok

Count == others[0] + others[1] + (IF seat = NoId THEN 0 ELSE 1)

Init ==
    /\ net = "DISCONNECTED" /\ blocked = "no" /\ purpose = "info"
    /\ is_our_turn = FALSE /\ waiting_for_ack = FALSE
    /\ view = NoCoins /\ result = "none"
    /\ link = "gone" /\ toServer = <<>> /\ toClient = <<>>
    /\ pc = "closed" /\ seat = NoId
    /\ board \in InitBoards
    /\ current_turn = 0 /\ winner_id = NoId
    /\ game_started = FALSE /\ game_over = FALSE
    /\ others = [i \in Ids |-> 0]
-----------------------------------------------------------------------------
(***************************************************************************)
(* The client's socket.                                                    *)
(***************************************************************************)
SendFails == link \in {"reset", "dead"}

\* A send to a server that has closed succeeds, and is answered by a reset.
Send(m) ==
    /\ toServer' = IF link = "open" THEN Append(toServer, m) ELSE toServer
    /\ link' = CASE link = "open"   -> "open"
                 [] link = "closed" -> "reset"
                 [] OTHER           -> "dead"

\* recv_message_nonblocking returns the next message.  It decodes it, except
\* for GAME_STATE, whose payload it keeps as it came.
Readable(m) == Decodes(m.type) \/ m.type = "GAME_STATE"

\* It returns -1.  At the end of the stream ("closed") it returns -2, as if a
\* packet were still to come.
RecvFails == toClient = <<>> /\ link = "reset"

\* close: what was not read is lost.
CloseSocket == link' = "gone" /\ toClient' = <<>> /\ UNCHANGED toServer

KeepServer == UNCHANGED <<threadVars, lobbyVars>>
KeepGame   == UNCHANGED <<is_our_turn, waiting_for_ack, view, result>>

(***************************************************************************)
(* The user leaves: Cancel, Menu, the window's close button, or the end of *)
(* the process.  main also does this before it connects again.             *)
(***************************************************************************)
Leave ==
    /\ link # "gone"
    /\ CloseSocket
    /\ net' = "DISCONNECTED" /\ blocked' = "no"
    /\ is_our_turn' = FALSE /\ waiting_for_ack' = FALSE
    /\ UNCHANGED <<purpose, view, result>> /\ KeepServer

\* PLAY, RETRY ("match") and the popup that connects ("info").
Request(p) ==
    /\ link = "gone"
    /\ purpose' = p
    /\ is_our_turn' = FALSE /\ waiting_for_ack' = FALSE
    /\ view' = NoCoins /\ result' = "none"

Connect(p) ==
    /\ Request(p)
    /\ pc = "closed"
    /\ net' = "CONNECTING" /\ blocked' = "connect_ack"
    /\ link' = "open" /\ toServer' = <<Plain("CONNECT")>> /\ toClient' = <<>>
    /\ pc' = "connect"
    /\ UNCHANGED <<seat, lobbyVars>>

\* No socket, no address, no connection in 5 s.
ConnectFails(p) ==
    /\ Request(p)
    /\ net' = "ERROR"
    /\ UNCHANGED <<blocked, linkVars>> /\ KeepServer

\* What Connect and JoinGame wait for; anything else is a refusal.
Expected(m) ==
    /\ Readable(m)
    /\ IF blocked = "player_info" THEN m.type = "PLAYER_INFO" ELSE IsOk(m)

Granted == toClient # <<>> /\ Expected(Head(toClient))
Refused == RecvFails \/ (toClient # <<>> /\ ~ Expected(Head(toClient)))

TakeConnectAck ==
    /\ blocked = "connect_ack" /\ Granted
    /\ toClient' = Tail(toClient)
    /\ blocked' = "player_info"
    /\ UNCHANGED <<net, purpose, link, toServer>> /\ KeepGame /\ KeepServer

\* PLAYER_INFO and its ACK.  JoinGame follows if a match was requested.
TakePlayerInfo ==
    /\ blocked = "player_info" /\ Granted /\ ~ SendFails
    /\ toClient' = Tail(toClient) /\ Send(Ack)
    /\ net' = "CONNECTED"
    /\ blocked' = IF purpose = "match" THEN "join" ELSE "no"
    /\ UNCHANGED purpose /\ KeepGame /\ KeepServer

\* A step of NetworkClient_Connect that fails closes the socket.
HandshakeFails ==
    /\ blocked \in {"connect_ack", "player_info"}
    /\ Refused \/ (blocked = "player_info" /\ Granted /\ SendFails)

ConnectRefused ==
    /\ HandshakeFails
    /\ net' = "ERROR" /\ blocked' = "no"
    /\ CloseSocket
    /\ UNCHANGED purpose /\ KeepGame /\ KeepServer

\* NetworkClient_JoinGame.  When it fails the socket stays open.
JoinGame ==
    /\ blocked = "join"
    /\ Send(Plain("GAME_JOIN"))
    /\ net' = IF SendFails THEN "ERROR" ELSE net
    /\ blocked' = IF SendFails THEN "no" ELSE "join_ack"
    /\ UNCHANGED <<purpose, toClient>> /\ KeepGame /\ KeepServer

TakeJoinAck ==
    /\ blocked = "join_ack"
    /\ Granted \/ Refused
    /\ net' = IF Granted THEN "IN_LOBBY" ELSE "ERROR"
    /\ toClient' = IF toClient = <<>> THEN <<>> ELSE Tail(toClient)
    /\ blocked' = "no"
    /\ UNCHANGED <<purpose, link, toServer>> /\ KeepGame /\ KeepServer
-----------------------------------------------------------------------------
(***************************************************************************)
(* The client between two frames, not blocked: WaitForGame in the lobby,   *)
(* ProcessMessages once connected.  Both drain the socket; a step is one   *)
(* message.  They do not look at what their sends return.                  *)
(***************************************************************************)
InGame  == net = "IN_GAME"
Polling == blocked = "no" /\ net \in {"IN_LOBBY", "CONNECTED", "IN_GAME"}

Arrives(nets, types) ==
    /\ blocked = "no" /\ net \in nets
    /\ toClient # <<>>
    /\ Readable(Head(toClient))
    /\ Head(toClient).type \in types
    /\ toClient' = Tail(toClient)
    /\ UNCHANGED <<blocked, purpose>> /\ KeepServer

Afterwards == {"CONNECTED", "IN_GAME"}

TakeGameWait ==
    /\ Arrives({"IN_LOBBY"}, {"GAME_WAIT"})
    /\ Send(Ack)
    /\ UNCHANGED net /\ KeepGame

\* Faulty: the state is not set.
TakeGameStartInLobby ==
    /\ Arrives({"IN_LOBBY"}, {"GAME_START"})
    /\ Send(Ack)
    /\ is_our_turn' = Head(toClient).is_starting
    /\ waiting_for_ack' = FALSE
    /\ view' = NoCoins /\ result' = "none"
    /\ UNCHANGED net

TakeGameStart ==
    /\ Arrives({"IN_LOBBY"}, {"GAME_START"})
    /\ Send(Ack)
    /\ net' = "IN_GAME"
    /\ is_our_turn' = Head(toClient).is_starting
    /\ waiting_for_ack' = FALSE
    /\ view' = NoCoins /\ result' = "none"

\* Faulty: the turn is not given up.
TakeAckKeepsTurn ==
    /\ Arrives(Afterwards, {"GENERAL_ACK"})
    /\ waiting_for_ack' = FALSE
    /\ UNCHANGED <<net, is_our_turn, view, result, link, toServer>>

\* Faulty: the end of the match is shown, the state of the match stays.
TakeGameEndInGame ==
    /\ Arrives({"IN_GAME"}, {"GAME_END"})
    /\ Send(Ack)
    /\ result' = IF Head(toClient).has_won THEN "won" ELSE "lost"
    /\ UNCHANGED <<net, is_our_turn, waiting_for_ack, view>>

\* A GENERAL_ACK is taken for the answer to the move, whatever it answers.
TakeAck ==
    /\ Arrives(Afterwards, {"GENERAL_ACK"})
    /\ waiting_for_ack' = FALSE
    /\ is_our_turn' =
         (is_our_turn /\ ~ (waiting_for_ack /\ Head(toClient).ok))
    /\ UNCHANGED <<net, view, result, link, toServer>>

\* Faulty: only the first board of a match is kept.
TakeGameStateOnce ==
    /\ Arrives(Afterwards, {"GAME_STATE"})
    /\ Send(Ack)
    /\ view' = IF InGame /\ view = NoCoins THEN Head(toClient).board ELSE view
    /\ UNCHANGED <<net, is_our_turn, waiting_for_ack, result>>

TakeGameState ==
    /\ Arrives(Afterwards, {"GAME_STATE"})
    /\ Send(Ack)
    /\ view' = IF InGame THEN Head(toClient).board ELSE view
    /\ UNCHANGED <<net, is_our_turn, waiting_for_ack, result>>

\* Faulty: no ACK.
TakePlayNoAck ==
    /\ Arrives(Afterwards, {"PLAY"})
    /\ is_our_turn' = (InGame \/ is_our_turn)
    /\ UNCHANGED <<net, waiting_for_ack, view, result, link, toServer>>

\* The server only ever sends YOUR_TURN.
TakePlay ==
    /\ Arrives(Afterwards, {"PLAY"})
    /\ Send(Ack)
    /\ is_our_turn' = (InGame \/ is_our_turn)
    /\ UNCHANGED <<net, waiting_for_ack, view, result>>

TakeGameEnd ==
    /\ Arrives({"IN_GAME"}, {"GAME_END"})
    /\ Send(Ack)
    /\ net' = "CONNECTED"
    /\ is_our_turn' = FALSE /\ waiting_for_ack' = FALSE
    /\ result' = IF Head(toClient).has_won THEN "won" ELSE "lost"
    /\ UNCHANGED view

TakeProfile ==
    /\ Arrives(Afterwards, {"PLAYER_INFO", "PLAYER_DATA_UPDATE"})
    /\ Send(Ack)
    /\ UNCHANGED net /\ KeepGame

\* recv_message_nonblocking fails: the error is shown, the socket stays open.
PollFails ==
    /\ Polling
    /\ RecvFails \/ (toClient # <<>> /\ ~ Readable(Head(toClient)))
    /\ net' = "ERROR"
    /\ toClient' = IF toClient = <<>> THEN <<>> ELSE Tail(toClient)
    /\ UNCHANGED <<blocked, purpose, link, toServer>> /\ KeepGame /\ KeepServer

(***************************************************************************)
(* What the user does: DrawGameScreen's move, which goes by the board and  *)
(* the turn as the client knows them, and the buttons of the shop.         *)
(***************************************************************************)
SendMove(coin_index, coin_pos) ==
    /\ InGame /\ is_our_turn /\ result = "none"
    /\ ~ waiting_for_ack
    /\ ClientMoveIsValid(view, coin_index, coin_pos)
    /\ Send(Move(coin_index, coin_pos))
    /\ net' = IF SendFails THEN "ERROR" ELSE net
    /\ waiting_for_ack' = ~ SendFails
    /\ UNCHANGED <<blocked, purpose, is_our_turn, view, result, toClient>>
    /\ KeepServer

\* waiting_for_ack is looked at, but no shop action sets it.
SendShopAction ==
    /\ blocked = "no" /\ net = "CONNECTED"
    /\ ~ waiting_for_ack
    /\ Len(toServer) + Len(toClient) < MaxPending
    /\ Send(Plain("SHOP_ACTION"))
    /\ net' = IF SendFails THEN "ERROR" ELSE net
    /\ UNCHANGED <<blocked, purpose, toClient>> /\ KeepGame /\ KeepServer
-----------------------------------------------------------------------------
(***************************************************************************)
(* The thread.  A step is a receive, or a critical section of the lobby,   *)
(* with the sends that follow it.  A receive has two outcomes: the next    *)
(* message, or Lost, when the client is gone or 60 s have passed.          *)
(***************************************************************************)
KeepClient == UNCHANGED <<clientVars, link>>
KeepLobby  == UNCHANGED <<seat, lobbyVars>>

Lost == Plain("none")

Received == {Lost} \cup (IF toServer = <<>> THEN {} ELSE {Head(toServer)})

Consume(m) == toServer' = IF m = Lost THEN toServer ELSE Tail(toServer)

\* What is sent to a client that is gone is lost; the first such send may
\* still succeed.
Tell(messages, next, failed) ==
    /\ toClient' = IF link = "gone" THEN toClient ELSE toClient \o messages
    /\ pc' \in {next} \cup (IF link = "gone" THEN {failed} ELSE {})

(***************************************************************************)
(* server_client_thread and wait_for_game_join.  The outcome of the        *)
(* connection phase, connection_active, is never read.                     *)
(***************************************************************************)
HandleConnect(m) ==
    /\ pc = "connect" /\ Consume(m)
    /\ IF m.type = "CONNECT"
       THEN Tell(<<Ack, Plain("PLAYER_INFO")>>, "info_ack", "join")
       ELSE pc' = "join" /\ UNCHANGED toClient
    /\ KeepClient /\ KeepLobby

HandleInfoAck(m) ==
    /\ pc = "info_ack" /\ Consume(m)
    /\ pc' = "join"
    /\ UNCHANGED toClient /\ KeepClient /\ KeepLobby

HandleGameJoin(m) ==
    /\ pc = "join" /\ Consume(m)
    /\ m.type = "GAME_JOIN"
    /\ Tell(<<Ack>>, "acquire", "acquire")
    /\ KeepClient /\ KeepLobby

ShopActionServed(m) ==
    /\ pc = "join" /\ Consume(m)
    /\ m.type = "SHOP_ACTION"
    /\ Tell(<<Ack, Plain("PLAYER_INFO")>>, "shop_ack", "closing")
    /\ KeepClient /\ KeepLobby

ShopActionRefused(m) ==
    /\ pc = "join" /\ Consume(m)
    /\ m.type = "SHOP_ACTION"
    /\ Tell(<<Nok>>, "join", "join")
    /\ KeepClient /\ KeepLobby

HandleOther(m) ==
    /\ pc = "join" /\ Consume(m)
    /\ m.type \notin {"GAME_JOIN", "SHOP_ACTION"}
    /\ pc' = IF m = Lost THEN "closing" ELSE "join"
    /\ UNCHANGED toClient /\ KeepClient /\ KeepLobby

HandleShopAck(m) ==
    /\ pc = "shop_ack" /\ Consume(m)
    /\ pc' = IF IsOk(m) THEN "join" ELSE "closing"
    /\ UNCHANGED toClient /\ KeepClient /\ KeepLobby

CloseConnection ==
    /\ pc = "closing"
    /\ pc' = "closed"
    /\ toServer' = <<>>
    /\ link' = IF link = "gone" THEN "gone"
               ELSE IF toServer = <<>> THEN "closed" ELSE "reset"
    /\ UNCHANGED <<clientVars, toClient, seat, lobbyVars>>

(***************************************************************************)
(* play_single_match, wait_for_lobby_start.                                *)
(***************************************************************************)
AcquireSlot ==
    /\ pc = "acquire" /\ ~ game_started
    /\ IF Count >= 2
       THEN pc' = "closing" /\ UNCHANGED seat
       ELSE pc' = "poll" /\ seat' = Count
    /\ UNCHANGED <<clientVars, linkVars, lobbyVars>>

SeeBothPlayers ==
    /\ pc = "poll" /\ Count >= 2
    /\ pc' = "begin"
    /\ UNCHANGED <<clientVars, linkVars>> /\ KeepLobby

SendGameWait ==
    /\ pc = "poll" /\ Count < 2
    /\ LET full == Len(toServer) + Len(toClient) >= MaxPending
       IN  Tell(IF full THEN <<>> ELSE <<Plain("GAME_WAIT")>>,
                "keep_alive", "release_close")
    /\ UNCHANGED toServer /\ KeepClient /\ KeepLobby

\* Faulty: what emap_recv_packet returns is not looked at.
KeepAliveBlindly(m) ==
    /\ pc = "keep_alive" /\ Consume(m)
    /\ pc' = "poll"
    /\ UNCHANGED toClient /\ KeepClient /\ KeepLobby

\* An answer to some GAME_WAIT, none in 50 ms, or none ever.
KeepAlive(m) ==
    /\ pc = "keep_alive" /\ Consume(m)
    /\ pc' = IF m = Lost /\ link = "gone" THEN "release_close" ELSE "poll"
    /\ UNCHANGED toClient /\ KeepClient /\ KeepLobby

ResetLobby ==
    /\ board' \in InitBoards
    /\ current_turn' = 0 /\ winner_id' = NoId
    /\ game_started' = FALSE /\ game_over' = FALSE

ReleaseSlot ==
    /\ pc \in {"release_keep", "release_close"}
    /\ seat' = NoId
    /\ IF Count = 1
       THEN ResetLobby
       ELSE UNCHANGED <<board, current_turn, winner_id, game_started,
                        game_over>>
    /\ pc' = IF pc = "release_keep" THEN "join" ELSE "closing"
    /\ UNCHANGED <<others, clientVars, linkVars>>

(***************************************************************************)
(* run_match_session.                                                      *)
(***************************************************************************)
SetUpMatch ==
    IF game_started
    THEN UNCHANGED <<board, current_turn, winner_id, game_started, game_over>>
    ELSE /\ game_started' = TRUE /\ game_over' = FALSE /\ winner_id' = NoId
         /\ board' \in InitBoards
         /\ current_turn' \in 0 .. Count - 1

StartMatch ==
    /\ pc = "begin"
    /\ SetUpMatch
    /\ Tell(<<GameStart(current_turn' = seat)>>, "start_ack", "release_close")
    /\ UNCHANGED <<toServer, seat, others>> /\ KeepClient

\* Each exchange of the match: where its ACK is awaited, what is sent then,
\* and where that is answered.
Exchanges ==
    [start_ack   |-> [sends |-> <<GameState(board)>>,  next |-> "state_ack"],
     state_ack   |-> [sends |-> <<>>,                  next |-> "turn"],
     turn_ack    |-> [sends |-> <<Plain("PLAY")>>,     next |-> "play_ack"],
     play_ack    |-> [sends |-> <<>>,                  next |-> "move"],
     illegal_ack |-> [sends |-> <<>>,                  next |-> "move"],
     moved_ack   |-> [sends |-> <<>>,                  next |-> "turn"],
     last_ack    |-> [sends |-> <<>>,                  next |-> "result"]]

HandleAck(m) ==
    /\ pc \in AckPcs /\ Consume(m)
    /\ m.type = "GENERAL_ACK"
    /\ LET e == Exchanges[pc]
       IN  Tell(e.sends, e.next, IF e.sends = <<>> THEN e.next ELSE "forfeit")
    /\ KeepClient /\ KeepLobby

SeeGameOver ==
    /\ pc = "turn" /\ game_over
    /\ pc' = "result"
    /\ UNCHANGED <<clientVars, linkVars>> /\ KeepLobby

TakeTurn ==
    /\ pc = "turn" /\ ~ game_over /\ current_turn = seat
    /\ Tell(<<GameState(board)>>, "turn_ack", "forfeit")
    /\ UNCHANGED toServer /\ KeepClient /\ KeepLobby

\* The critical section of a move by the player of id i.
Moved(i, coin_index, coin_pos) ==
    /\ IsMoveValid(board, coin_index, coin_pos)
    /\ board' = ApplyMove(board, coin_index, coin_pos)
    /\ IF IsFinished(board')
       THEN game_over' = TRUE /\ winner_id' = i /\ UNCHANGED current_turn
       ELSE /\ current_turn' = (current_turn + 1) % Count
            /\ UNCHANGED <<game_over, winner_id>>
    /\ UNCHANGED <<game_started, others>>

LegalMove(m) ==
    /\ pc = "move" /\ Consume(m)
    /\ m.type = "MOVE"
    /\ Moved(seat, m.coin_index, m.coin_pos)
    /\ Tell(<<Ack, GameState(board')>>,
            IF IsFinished(board') THEN "last_ack" ELSE "moved_ack", "forfeit")
    /\ UNCHANGED seat /\ KeepClient

IllegalMove(m) ==
    /\ pc = "move" /\ Consume(m)
    /\ m.type = "MOVE"
    /\ ~ IsMoveValid(board, m.coin_index, m.coin_pos)
    /\ Tell(<<Plain("ILLEGAL_PLAY")>>, "illegal_ack", "illegal_ack")
    /\ KeepClient /\ KeepLobby

\* An exchange of the match fails: nothing received, or not what is awaited.
FailInPlay(m) ==
    /\ \/ pc \in AckPcs /\ m.type # "GENERAL_ACK"
       \/ pc = "move" /\ m.type # "MOVE"
    /\ Consume(m)
    /\ pc' = "forfeit"
    /\ UNCHANGED toClient /\ KeepClient /\ KeepLobby

\* Faulty: no "% 2".
LoseNoWrap(i) ==
    /\ IF game_started /\ ~ game_over
       THEN game_over' = TRUE /\ winner_id' = i + 1
       ELSE UNCHANGED <<game_over, winner_id>>
    /\ UNCHANGED <<board, current_turn, game_started, others>>

Lose(i) ==
    /\ IF game_started /\ ~ game_over
       THEN game_over' = TRUE /\ winner_id' = (i + 1) % 2
       ELSE UNCHANGED <<game_over, winner_id>>
    /\ UNCHANGED <<board, current_turn, game_started, others>>

HandleDisconnectWin ==
    /\ pc = "forfeit"
    /\ Lose(seat)
    /\ pc' = "release_close"
    /\ UNCHANGED <<seat, clientVars, linkVars>>

TellEnd == Tell(<<GameEnd(winner_id = seat)>>, "end_ack", "release_close")

\* The profile is saved and sent, or the database has failed.
SendResult ==
    /\ pc = "result"
    /\ \/ Tell(<<Plain("PLAYER_DATA_UPDATE")>>, "update_ack", "release_close")
       \/ TellEnd
    /\ UNCHANGED toServer /\ KeepClient /\ KeepLobby

HandleUpdateAck(m) ==
    /\ pc = "update_ack" /\ Consume(m)
    /\ IF IsOk(m)
       THEN TellEnd
       ELSE pc' = "release_close" /\ UNCHANGED toClient
    /\ KeepClient /\ KeepLobby

HandleEndAck(m) ==
    /\ pc = "end_ack" /\ Consume(m)
    /\ pc' = "release_keep"
    /\ UNCHANGED toClient /\ KeepClient /\ KeepLobby
-----------------------------------------------------------------------------
(***************************************************************************)
(* The other players.  Their move after the end of a match is left out: it *)
(* changes nothing that a player is told (LateMove of LobbyMatch_proofs).  *)
(***************************************************************************)
KeepSession == UNCHANGED <<clientVars, linkVars, threadVars>>

OtherJoins ==
    /\ ~ game_started /\ Count < 2
    /\ others' = [others EXCEPT ![Count] = @ + 1]
    /\ UNCHANGED <<board, current_turn, winner_id, game_started, game_over>>
    /\ KeepSession

OtherStarts ==
    /\ ~ game_started /\ Count >= 2
    /\ \E i \in Ids : others[i] > 0
    /\ SetUpMatch
    /\ UNCHANGED others /\ KeepSession

Playing(i) == others[i] > 0 /\ game_started /\ ~ game_over

OtherMoves(i) ==
    /\ Playing(i) /\ current_turn = i
    /\ \E coin_index, coin_pos \in Cells : Moved(i, coin_index, coin_pos)
    /\ KeepSession

OtherForfeits(i) ==
    /\ Playing(i)
    /\ Lose(i)
    /\ KeepSession

OtherLeaves(i) ==
    /\ others[i] > 0 /\ game_over
    /\ others' = [others EXCEPT ![i] = @ - 1]
    /\ IF Count = 1
       THEN ResetLobby
       ELSE UNCHANGED <<board, current_turn, winner_id, game_started,
                        game_over>>
    /\ KeepSession
-----------------------------------------------------------------------------
ClientStep ==
    \/ \E p \in {"match", "info"} : Connect(p)
    \/ \E p \in {"match", "info"} : ConnectFails(p)
    \/ TakeConnectAck \/ TakePlayerInfo \/ ConnectRefused
    \/ JoinGame \/ TakeJoinAck
    \/ TakeGameWait \/ TakeGameStart
    \/ TakeAck \/ TakeGameState \/ TakePlay \/ TakeGameEnd \/ TakeProfile
    \/ PollFails
    \/ \E coin_index, coin_pos \in Cells : SendMove(coin_index, coin_pos)
    \/ SendShopAction
    \/ Leave

ThreadReceives ==
    \E m \in Received :
        \/ HandleConnect(m) \/ HandleInfoAck(m)
        \/ HandleGameJoin(m) \/ ShopActionServed(m) \/ ShopActionRefused(m)
        \/ HandleOther(m) \/ HandleShopAck(m)
        \/ KeepAlive(m)
        \/ HandleAck(m) \/ LegalMove(m) \/ IllegalMove(m) \/ FailInPlay(m)
        \/ HandleUpdateAck(m) \/ HandleEndAck(m)

ThreadStep ==
    \/ ThreadReceives
    \/ AcquireSlot \/ SeeBothPlayers \/ SendGameWait
    \/ StartMatch \/ SeeGameOver \/ TakeTurn \/ SendResult
    \/ HandleDisconnectWin \/ ReleaseSlot \/ CloseConnection

OthersStep ==
    \/ OtherJoins \/ OtherStarts
    \/ \E i \in Ids : OtherMoves(i) \/ OtherForfeits(i) \/ OtherLeaves(i)

Next == ClientStep \/ ThreadStep \/ OthersStep

Spec == Init /\ [][Next]_vars

(***************************************************************************)
(* The thread is scheduled, and each of its receives ends within 60 s.     *)
(* A player on turn moves, or is given up after the same 60 s.  Of the     *)
(* client nothing is assumed.                                              *)
(***************************************************************************)
Fairness ==
    /\ WF_vars(ThreadStep)
    /\ WF_vars(\E i \in Ids :
                  current_turn = i /\ (OtherMoves(i) \/ OtherForfeits(i)))

FairSpec == Spec /\ Fairness
-----------------------------------------------------------------------------
Messages ==
    {Plain(t) : t \in {"CONNECT", "PLAYER_INFO", "PLAYER_DATA_UPDATE",
                       "GAME_JOIN", "SHOP_ACTION", "GAME_WAIT", "PLAY",
                       "ILLEGAL_PLAY"}}
      \cup {Ack, Nok}
      \cup {GameStart(b) : b \in BOOLEAN} \cup {GameEnd(b) : b \in BOOLEAN}
      \cup {GameState(b) : b \in Boards}
      \cup {Move(i, j) : i \in Cells, j \in Cells}

\* The types of the variables.
TypeOK ==
    /\ net \in NetStates /\ blocked \in BlockedIn
    /\ purpose \in {"match", "info"}
    /\ is_our_turn \in BOOLEAN /\ waiting_for_ack \in BOOLEAN
    /\ view \in Boards /\ result \in {"none", "won", "lost"}
    /\ link \in Links
    /\ toServer \in Seq(Messages) /\ toClient \in Seq(Messages)
    /\ pc \in Pcs /\ seat \in Ids \cup {NoId}
    /\ board \in Boards
    /\ current_turn \in Ids /\ winner_id \in Ids \cup {NoId}
    /\ game_started \in BOOLEAN /\ game_over \in BOOLEAN
    /\ others \in [Ids -> 0 .. 2]

\* The thread plays a match under an id of its own (see Lobby: a player who
\* leaves the queue can cause two to have the same one).
OnTurn == pc \in MatchPcs /\ link = "open" /\ ~ game_over /\ others[seat] = 0

\* Whenever the client lets its user move, it is the user's turn on the
\* server, and the board on the screen is the server's: whichever GENERAL_ACKs
\* were mistaken for which, and however late GAME_STATE, PLAY and the answer
\* to the last move arrive.
MoverSeesBoard ==
    (OnTurn /\ InGame /\ is_our_turn /\ ~ waiting_for_ack /\ view # NoCoins)
        => current_turn = seat /\ view = board

\* The server never has to refuse a move of this client: what was legal on
\* the client's board as it was sent is legal on the server's as it is read.
\* (ILLEGAL_PLAY is a message the client fails to decode: its payload is a
\* byte longer than emap_decode_msg expects.)
MoveNeverRefused ==
    (OnTurn /\ pc = "move" /\ toServer # <<>> /\ Head(toServer).type = "MOVE")
        => IsMoveValid(board, Head(toServer).coin_index,
                       Head(toServer).coin_pos)

\* No message reaches the client in a state in which it drops the message
\* without the ACK that the thread awaits: the default branches of WaitForGame
\* and ProcessMessages, and GAME_END outside of a match.
NothingDropped ==
    (blocked = "no" /\ toClient # <<>>) =>
        CASE net = "IN_LOBBY"  -> Head(toClient).type \in
                                    {"GAME_WAIT", "GAME_START"}
          [] net = "IN_GAME"   -> Head(toClient).type \notin
                                    {"GAME_WAIT", "GAME_START"}
          [] net = "CONNECTED" -> Head(toClient).type \in
                                    {"GENERAL_ACK", "PLAYER_INFO"}
          [] OTHER             -> TRUE

\* What only the user decides: to join or to shop, and to move.
MayAsk ==
    /\ pc = "join"
    /\ \/ blocked = "join"
       \/ blocked = "no" /\ net = "CONNECTED" /\ ~ waiting_for_ack

MayMove ==
    /\ pc = "move" /\ InGame /\ is_our_turn /\ ~ waiting_for_ack
    /\ result = "none"
    /\ \E i, j \in Cells : ClientMoveIsValid(view, i, j)

\* The receive of CONNECT has given up and wait_for_game_join has dropped the
\* late CONNECT: the client awaits an answer that will not come.
GreetingMissed == pc = "join" /\ blocked = "connect_ack"

\* The client has failed on an ILLEGAL_PLAY, which it cannot decode.
MoveRefused == pc = "illegal_ack" /\ net = "ERROR"

\* With nothing under way, what the thread waits for is a choice of the user,
\* which the client offers; no ACK is lost, no message skipped.  There are two
\* exceptions and no third, in which the thread waits in vain until its 60 s
\* are over: a late CONNECT, whose sender waits as well, and a refused move,
\* which takes two players with the same id (MoveNeverRefused).
NoStandoff ==
    (pc \in RecvPcs /\ link = "open" /\ toServer = <<>> /\ toClient = <<>>)
        => MayAsk \/ MayMove \/ GreetingMissed \/ MoveRefused

\* A thread whose client is gone gives up its slot and ends, wherever it was,
\* unless it waits for the match of others to end.
ThreadEnds ==
    (link = "gone" /\ pc # "acquire" /\ (seat # NoId => others[seat] = 0))
        ~> pc \in {"closed", "acquire"}

\* What main knows of the connection: nothing new while it is blocked in
\* Connect or JoinGame.
NetSeen == IF blocked = "no" THEN net ELSE "DISCONNECTED"

Client == INSTANCE NetworkClient WITH net <- NetSeen

\* With this server and these streams the client does what main takes for
\* granted: matches start in the lobby and end once, a turn is only had in a
\* match and lost by an acknowledged move, a board only arrives in a match.
ClientSpec == Client!NetSpec
=============================================================================
