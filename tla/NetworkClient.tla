--------------------------- MODULE NetworkClient ---------------------------
(***************************************************************************)
(* What network_client.c promises the loop of the client's main.c: the     *)
(* state of the connection, of the turn and of the game as they are        *)
(* between two of its calls.  A connection attempt, with the handshake and *)
(* the JoinGame that follows, is one step here; the messages of the server *)
(* come when and as they like.                                             *)
(*                                                                         *)
(* Session implements this module with both ends of the protocol;          *)
(* ClientApp is the program built on it.                                   *)
(***************************************************************************)
EXTENDS GameLogic

VARIABLES net,               \* NetworkClient.state
          is_our_turn, waiting_for_ack,
          view,              \* GameState.board
          result             \* GameState.gameOver and .winner

netVars == <<net, is_our_turn, waiting_for_ack, view, result>>

NoCoins == [i \in Cells |-> 0]

NetTypeOK ==
    /\ net \in {"DISCONNECTED", "CONNECTED", "IN_LOBBY", "IN_GAME", "ERROR"}
    /\ is_our_turn \in BOOLEAN /\ waiting_for_ack \in BOOLEAN
    /\ view \in Boards /\ result \in {"none", "won", "lost"}

NetInit ==
    /\ net = "DISCONNECTED"
    /\ is_our_turn = FALSE /\ waiting_for_ack = FALSE
    /\ view = NoCoins /\ result = "none"
-----------------------------------------------------------------------------
Drop(s) == net' = s /\ is_our_turn' = FALSE /\ waiting_for_ack' = FALSE

NetworkClient_Disconnect == Drop("DISCONNECTED") /\ UNCHANGED <<view, result>>

\* main gives up the last connection, and the game, before it connects again;
\* an attempt may fail at once.
Prepare(s) == Drop(s) /\ view' = NoCoins /\ result' = "none"

\* A connection attempt ends, and with it the JoinGame of a "match".
NetworkClient_Connect(purpose) ==
    /\ net = "DISCONNECTED"
    /\ net' = IF purpose = "match" THEN "IN_LOBBY" ELSE "CONNECTED"
    /\ UNCHANGED <<is_our_turn, waiting_for_ack, view, result>>

\* A connection attempt, a receive or a send fails.  Nothing else is undone.
NetworkFails ==
    /\ net # "ERROR" /\ net' = "ERROR"
    /\ UNCHANGED <<is_our_turn, waiting_for_ack, view, result>>

StartGame(is_starting) ==
    /\ net = "IN_LOBBY" /\ net' = "IN_GAME"
    /\ is_our_turn' = is_starting /\ waiting_for_ack' = FALSE
    /\ view' = NoCoins /\ result' = "none"

TakeAck(ok) ==
    /\ net \in {"CONNECTED", "IN_GAME"}
    /\ waiting_for_ack' = FALSE
    /\ is_our_turn' = (is_our_turn /\ ~ (waiting_for_ack /\ ok))
    /\ UNCHANGED <<net, view, result>>

TakeGameState(board) ==
    /\ net = "IN_GAME" /\ view' = board
    /\ UNCHANGED <<net, is_our_turn, waiting_for_ack, result>>

TakePlay ==
    /\ net = "IN_GAME" /\ is_our_turn' = TRUE
    /\ UNCHANGED <<net, waiting_for_ack, view, result>>

TakeGameEnd(has_won) ==
    /\ net = "IN_GAME" /\ Drop("CONNECTED")
    /\ result' = IF has_won THEN "won" ELSE "lost"
    /\ UNCHANGED view

NetworkClient_IsOurTurn == is_our_turn /\ net = "IN_GAME"

\* The move is under way.  It fails as NetworkFails.
CanSend == NetworkClient_IsOurTurn /\ ~ waiting_for_ack

NetworkClient_SendMove ==
    /\ CanSend
    /\ waiting_for_ack' = TRUE
    /\ UNCHANGED <<net, is_our_turn, view, result>>
-----------------------------------------------------------------------------
\* What main calls, and what the server brings about.
NetNext ==
    \/ NetworkClient_Disconnect
    \/ \E s \in {"DISCONNECTED", "ERROR"} : Prepare(s)
    \/ \E p \in {"match", "info"} : NetworkClient_Connect(p)
    \/ NetworkFails
    \/ \E b \in BOOLEAN : StartGame(b) \/ TakeAck(b) \/ TakeGameEnd(b)
    \/ \E b \in Boards : TakeGameState(b)
    \/ TakePlay
    \/ NetworkClient_SendMove

NetSpec == NetInit /\ [][NetNext]_netVars
=============================================================================
