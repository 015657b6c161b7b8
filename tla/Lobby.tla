------------------------------- MODULE Lobby -------------------------------
(***************************************************************************)
(* The server's lobby and the threads that share it: server_worker.c, with *)
(* one detached thread per connection, and the accept loop of main.c.      *)
(*                                                                         *)
(* The state is struct ServerLobby, plus of each thread its place in the   *)
(* code (pc), its local my_id, and whether it is blocked in                *)
(* pthread_cond_wait.  A step is one critical section of the mutex, or one *)
(* exchange of the thread with its client: what happens between two points *)
(* where threads can see each other.  The mutex is held over more than one *)
(* step in one place only, the two writes of game_apply_move, because the  *)
(* initial GAME_STATE is sent from lobby->board without the mutex.         *)
(*                                                                         *)
(* A client is abstracted to what its thread sees of it: an answer in      *)
(* time, or none (the connection lost, the 60 s receive timeout expired, a *)
(* message of another type), and moves with any fields.                    *)
(***************************************************************************)
EXTENDS GameLogic

CONSTANTS Threads,      \* connection threads; a closed one is used again
          NoThread,     \* not a thread: the mutex is free, a slot is unused
          Faults        \* where a connection may be lost, see below

(***************************************************************************)
(* "wait": while its thread is in wait_for_lobby_start                     *)
(* "start": before its thread has sent GAME_START                          *)
(* "play": from the ACK of GAME_START to that of the last GAME_STATE       *)
(* "end": while the result of the match is being sent                      *)
(***************************************************************************)
FaultKinds == {"wait", "start", "play", "end"}

ASSUME ThreadsAssumption ==
    /\ IsFiniteSet(Threads)
    /\ NoThread \notin Threads
    /\ Faults \subseteq FaultKinds

VARIABLES mutex,        \* the holder of lobby->mutex between steps
          waiting,      \* the threads blocked in pthread_cond_wait
          client_fds,   \* the slots: connections, here named by their thread
          count,
          board,
          current_turn,
          winner_id,
          game_started,
          game_over,
          pc,           \* where each thread is
          my_id,        \* each thread's id in the lobby, -1 for none
          move,         \* the move being applied by the holder of the mutex
          shown,        \* the board of the last GAME_STATE for each client
          outcome       \* what each player of this match was told: history

lobbyVars  == <<client_fds, count, board, current_turn, winner_id,
                game_started, game_over>>
threadVars == <<pc, my_id, shown, outcome>>
vars == <<mutex, waiting, lobbyVars, threadVars, move>>

NoId    == -1
NoBoard == <<>>
NoMove  == <<>>
Ids     == {0, 1}

\* In a match: between the lock that starts it and lobby_release_slot.
SessionPcs == {"game_start", "initial_state", "turn", "prompt", "move",
               "apply", "after_move", "after_last_move", "result", "reward",
               "forfeit"}
\* Where a thread holds a slot.
SlotPcs == {"poll", "keep_alive", "begin", "release_keep", "release_close"}
              \cup SessionPcs
Pcs == {"closed", "wait_for_game_join", "acquire"} \cup SlotPcs

Holders == {t \in Threads : my_id[t] # NoId}

Init ==
    /\ mutex = NoThread
    /\ waiting = {}
    /\ client_fds = [i \in Ids |-> NoThread]
    /\ count = 0
    /\ board \in InitBoards
    /\ current_turn = 0
    /\ winner_id = NoId
    /\ game_started = FALSE
    /\ game_over = FALSE
    /\ pc = [t \in Threads |-> "closed"]
    /\ my_id = [t \in Threads |-> NoId]
    /\ move = NoMove
    /\ shown = [t \in Threads |-> NoBoard]
    /\ outcome = [t \in Threads |-> "none"]
-----------------------------------------------------------------------------
At(t, label)       == pc[t] = label
Goto(t, label)     == pc' = [pc EXCEPT ![t] = label]

\* The guard of a step that locks the mutex: it is free, and t is not asleep.
CanLock(t) == mutex = NoThread /\ t \notin waiting

\* Faulty: nobody is told.
BroadcastForgotten == UNCHANGED waiting

\* pthread_cond_broadcast and pthread_cond_wait; both leave the mutex free.
Broadcast == waiting' = {}
Sleep(t)  == waiting' = waiting \cup {t}

\* POSIX lets pthread_cond_wait return without a broadcast.
SpuriousWakeup(t) ==
    /\ t \in waiting
    /\ waiting' = waiting \ {t}
    /\ UNCHANGED <<mutex, lobbyVars, threadVars, move>>

\* An exchange with the client that touches nothing the threads share.
Exchange(t, from, to) ==
    /\ At(t, from)
    /\ Goto(t, to)
    /\ UNCHANGED <<mutex, waiting, lobbyVars, my_id, shown, outcome, move>>

(***************************************************************************)
(* main's accept loop and server_client_thread, up to play_single_match.   *)
(* Whatever becomes of the CONNECT phase the thread goes on to             *)
(* wait_for_game_join: connection_active is set and never read.            *)
(***************************************************************************)
Accept(t)   == Exchange(t, "closed", "wait_for_game_join")
GameJoin(t) == Exchange(t, "wait_for_game_join", "acquire")
HangUp(t)   == Exchange(t, "wait_for_game_join", "closed")

(***************************************************************************)
(* play_single_match, until the slot is taken.                             *)
(***************************************************************************)
WaitForLobby(t) ==
    /\ At(t, "acquire") /\ CanLock(t)
    /\ game_started
    /\ Sleep(t)
    /\ UNCHANGED <<mutex, lobbyVars, threadVars, move>>

RejectThird(t) ==
    /\ At(t, "acquire") /\ CanLock(t)
    /\ ~ game_started
    /\ count >= 2
    /\ Goto(t, "closed")
    /\ UNCHANGED <<mutex, waiting, lobbyVars, my_id, shown, outcome, move>>

ClaimSlot(t) ==
    /\ At(t, "acquire") /\ CanLock(t)
    /\ my_id' = [my_id EXCEPT ![t] = count]
    /\ client_fds' = [client_fds EXCEPT ![count] = t]
    /\ count' = count + 1
    /\ Goto(t, "poll")
    /\ UNCHANGED <<mutex, waiting, board, current_turn, winner_id,
                   game_started, game_over, shown, outcome, move>>

\* Faulty: one without the limit of two, one without the wait for the end of
\* a match under way.
TakeSlotUnlimited(t) == ~ game_started /\ ClaimSlot(t)
TakeSlotInMatch(t)   == count < 2 /\ ClaimSlot(t)

TakeSlot(t) ==
    /\ ~ game_started
    /\ count < 2
    /\ ClaimSlot(t)

(***************************************************************************)
(* wait_for_lobby_start: look at the count, else send GAME_WAIT, take what *)
(* the client sends, sleep, and look again.                                *)
(***************************************************************************)
Poll(t) ==
    /\ At(t, "poll") /\ CanLock(t)
    /\ Goto(t, IF count >= 2 THEN "begin" ELSE "keep_alive")
    /\ UNCHANGED <<mutex, waiting, lobbyVars, my_id, shown, outcome, move>>

KeepAlive(t) == Exchange(t, "keep_alive", "poll")

LostWhileWaiting(t) ==
    /\ "wait" \in Faults
    /\ Exchange(t, "keep_alive", "release_close")

(***************************************************************************)
(* run_match_session, up to the turn loop.  The first thread here starts   *)
(* the match; the count it divides by is read again, after the unlock of   *)
(* wait_for_lobby_start, and may have changed.                             *)
(***************************************************************************)
SetUpMatch(t) ==
    /\ At(t, "begin") /\ CanLock(t)
    /\ game_started' = TRUE
    /\ game_over' = FALSE
    /\ winner_id' = NoId
    /\ board' \in InitBoards
    /\ current_turn' \in 0 .. count - 1        \* random() % lobby->count
    /\ Broadcast
    /\ Goto(t, "game_start")
    /\ outcome' = [u \in Threads |-> "none"]
    /\ UNCHANGED <<mutex, client_fds, count, my_id, shown, move>>

StartMatch(t) == ~ game_started /\ SetUpMatch(t)

\* Faulty: the second thread sets the match up again.
EnterMatchAfresh(t) == game_started /\ SetUpMatch(t)

EnterMatch(t) ==
    /\ At(t, "begin") /\ CanLock(t)
    /\ game_started
    /\ Broadcast
    /\ Goto(t, "game_start")
    /\ UNCHANGED <<mutex, lobbyVars, my_id, shown, outcome, move>>

\* GAME_START is sent and its ACK received.
GameStart(t) == Exchange(t, "game_start", "initial_state")

\* Faulty: the thread ends without lobby_release_slot.
LostBeforeStartNoRelease(t) ==
    /\ "start" \in Faults
    /\ Exchange(t, "game_start", "closed")

\* GAME_START cannot be sent: the session ends, and nobody is told.
LostBeforeStart(t) ==
    /\ "start" \in Faults
    /\ Exchange(t, "game_start", "release_close")

\* What a read of lobby->board without the mutex may return: each of the two
\* cells that a move under way writes, before or after its write.
BoardsSeen ==
    IF mutex = NoThread
    THEN {board}
    ELSE {[board EXCEPT ![move.coin_index] = x, ![move.coin_pos] = y] :
             x \in {0, 1}, y \in {0, 1}}

InitialState(t) ==
    /\ At(t, "initial_state")
    /\ \E seen \in BoardsSeen : shown' = [shown EXCEPT ![t] = seen]
    /\ Goto(t, "turn")
    /\ UNCHANGED <<mutex, waiting, lobbyVars, my_id, outcome, move>>

(***************************************************************************)
(* The turn loop.                                                          *)
(***************************************************************************)
\* Faulty: the loop looks at the turn only.
WaitForTurnOnly(t) ==
    /\ At(t, "turn") /\ CanLock(t)
    /\ current_turn # my_id[t]
    /\ Sleep(t)
    /\ UNCHANGED <<mutex, lobbyVars, threadVars, move>>

WaitForTurn(t) ==
    /\ At(t, "turn") /\ CanLock(t)
    /\ current_turn # my_id[t]
    /\ ~ game_over
    /\ Sleep(t)
    /\ UNCHANGED <<mutex, lobbyVars, threadVars, move>>

SeeGameOver(t) ==
    /\ At(t, "turn") /\ CanLock(t)
    /\ game_over
    /\ Goto(t, "result")
    /\ UNCHANGED <<mutex, waiting, lobbyVars, my_id, shown, outcome, move>>

\* Faulty: GAME_STATE repeats the board that was sent last.
TakeTurnNoSnapshot(t) ==
    /\ At(t, "turn") /\ CanLock(t)
    /\ current_turn = my_id[t]
    /\ ~ game_over
    /\ Exchange(t, "turn", "prompt")

\* Faulty: the thread does not wait for its turn.
TakeTurnAnyTime(t) ==
    /\ At(t, "turn") /\ CanLock(t)
    /\ ~ game_over
    /\ shown' = [shown EXCEPT ![t] = board]
    /\ Goto(t, "prompt")
    /\ UNCHANGED <<mutex, waiting, lobbyVars, my_id, outcome, move>>

\* The snapshot of the board, which is then sent.
TakeTurn(t) ==
    /\ At(t, "turn") /\ CanLock(t)
    /\ current_turn = my_id[t]
    /\ ~ game_over
    /\ shown' = [shown EXCEPT ![t] = board]
    /\ Goto(t, "prompt")
    /\ UNCHANGED <<mutex, waiting, lobbyVars, my_id, outcome, move>>

\* GAME_STATE and PLAY, each with its ACK.
Prompt(t) == Exchange(t, "prompt", "move")

\* A MOVE that the rules refuse, its ILLEGAL_PLAY and the ACK of it.
IllegalMove(t, coin_index, coin_pos) ==
    /\ At(t, "move") /\ CanLock(t)
    /\ ~ IsMoveValid(board, coin_index, coin_pos)
    /\ UNCHANGED vars

\* A MOVE that the rules allow: the lock, and the first write of
\* game_apply_move.  Neither game_over nor current_turn is looked at.
LegalMove(t, coin_index, coin_pos) ==
    /\ At(t, "move") /\ CanLock(t)
    /\ IsMoveValid(board, coin_index, coin_pos)
    /\ mutex' = t
    /\ move' = [coin_index |-> coin_index, coin_pos |-> coin_pos]
    /\ board' = ClearSource(board, coin_index)
    /\ Goto(t, "apply")
    /\ UNCHANGED <<waiting, client_fds, count, current_turn, winner_id,
                   game_started, game_over, my_id, shown, outcome>>

\* The second write, what follows from the move, and the unlock.
FinishMove(t) ==
    /\ At(t, "apply")
    /\ board' = PlaceCoin(board, move.coin_pos)
    /\ IF IsFinished(board')
       THEN /\ game_over' = TRUE
            /\ winner_id' = my_id[t]
            /\ Goto(t, "after_last_move")
            /\ UNCHANGED current_turn
       ELSE /\ current_turn' = (current_turn + 1) % count
            /\ Goto(t, "after_move")
            /\ UNCHANGED <<game_over, winner_id>>
    /\ shown' = [shown EXCEPT ![t] = board']
    /\ mutex' = NoThread
    /\ move' = NoMove
    /\ Broadcast
    /\ UNCHANGED <<client_fds, count, game_started, my_id, outcome>>

\* ACK and GAME_STATE after a move, and the client's ACK of the state.
AfterMove(t)     == Exchange(t, "after_move", "turn")
AfterLastMove(t) == Exchange(t, "after_last_move", "result")

(***************************************************************************)
(* Every exchange of the match that fails ends in handle_disconnect_win    *)
(* (the "wait" before a turn is no exchange: a thread asleep there does    *)
(* not notice its client leave).                                           *)
(***************************************************************************)
LostInPlay(t) ==
    /\ "play" \in Faults
    /\ \E from \in {"game_start", "initial_state", "prompt", "move",
                    "after_move", "after_last_move"} :
          Exchange(t, from, "forfeit")

\* Faulty: a match that has its winner is forfeited all the same.
HandleDisconnectWinLate(t) ==
    /\ At(t, "forfeit") /\ CanLock(t)
    /\ game_over' = TRUE
    /\ winner_id' = (my_id[t] + 1) % 2
    /\ Broadcast
    /\ Goto(t, "release_close")
    /\ UNCHANGED <<mutex, client_fds, count, board, current_turn,
                   game_started, my_id, shown, outcome, move>>

HandleDisconnectWin(t) ==
    /\ At(t, "forfeit") /\ CanLock(t)
    /\ IF game_started /\ ~ game_over
       THEN /\ game_over' = TRUE
            /\ winner_id' = (my_id[t] + 1) % 2
            /\ Broadcast
       ELSE UNCHANGED <<game_over, winner_id, waiting>>
    /\ Goto(t, "release_close")
    /\ UNCHANGED <<mutex, client_fds, count, board, current_turn,
                   game_started, my_id, shown, outcome, move>>

(***************************************************************************)
(* The result, read under the mutex, then sent after it has been released. *)
(***************************************************************************)
\* Faulty: winner_id taken for a flag.
ReadResultAsFlag(t) ==
    /\ At(t, "result") /\ CanLock(t)
    /\ outcome' = [outcome EXCEPT
                     ![t] = IF winner_id = 1 THEN "win" ELSE "lose"]
    /\ Goto(t, "reward")
    /\ UNCHANGED <<mutex, waiting, lobbyVars, my_id, shown, move>>

ReadResult(t) ==
    /\ At(t, "result") /\ CanLock(t)
    /\ outcome' = [outcome EXCEPT
                     ![t] = IF winner_id = my_id[t] THEN "win" ELSE "lose"]
    /\ Goto(t, "reward")
    /\ UNCHANGED <<mutex, waiting, lobbyVars, my_id, shown, move>>

\* The profile update and GAME_END; no answer to GAME_END is needed.
Reward(t) == Exchange(t, "reward", "release_keep")

LostAtEnd(t) ==
    /\ "end" \in Faults
    /\ Exchange(t, "reward", "release_close")

\* When a release resets the lobby.  Faulty: already when one player is left.
LobbyHalfEmptied(left) == left <= 1
LobbyEmptied(left)     == left <= 0

\* lobby_release_slot, with and without the connection kept for a next match.
ReleaseSlot(t) ==
    /\ At(t, "release_keep") \/ At(t, "release_close")
    /\ CanLock(t)
    /\ LET left == IF my_id[t] >= 0 /\ count > 0 THEN count - 1 ELSE count
       IN  /\ client_fds' = IF my_id[t] >= 0 /\ count > 0
                            THEN [client_fds EXCEPT ![my_id[t]] = NoThread]
                            ELSE client_fds
           /\ IF LobbyEmptied(left)
              THEN /\ count' = 0
                   /\ game_started' = FALSE
                   /\ game_over' = FALSE
                   /\ winner_id' = NoId
                   /\ current_turn' = 0
                   /\ board' \in InitBoards
                   /\ Broadcast
              ELSE /\ count' = left
                   /\ UNCHANGED <<game_started, game_over, winner_id,
                                  current_turn, board, waiting>>
    /\ my_id' = [my_id EXCEPT ![t] = NoId]
    /\ shown' = [shown EXCEPT ![t] = NoBoard]
    /\ Goto(t, IF At(t, "release_keep") THEN "wait_for_game_join"
                                        ELSE "closed")
    /\ UNCHANGED <<mutex, outcome, move>>
-----------------------------------------------------------------------------
\* What a thread does by itself, given a client that answers in time and a
\* player who comes to make a legal move.
Progress(t) ==
    \/ WaitForLobby(t) \/ RejectThird(t) \/ TakeSlot(t)
    \/ Poll(t) \/ KeepAlive(t)
    \/ StartMatch(t) \/ EnterMatch(t) \/ GameStart(t) \/ InitialState(t)
    \/ WaitForTurn(t) \/ SeeGameOver(t) \/ TakeTurn(t) \/ Prompt(t)
    \/ \E coin_index, coin_pos \in MoveFields :
          LegalMove(t, coin_index, coin_pos)
    \/ FinishMove(t) \/ AfterMove(t) \/ AfterLastMove(t)
    \/ HandleDisconnectWin(t)
    \/ ReadResult(t) \/ Reward(t) \/ ReleaseSlot(t)

\* What is up to the client, the network or the scheduler.
Environment(t) ==
    \/ Accept(t) \/ GameJoin(t) \/ HangUp(t)
    \/ \E coin_index, coin_pos \in MoveFields :
          IllegalMove(t, coin_index, coin_pos)
    \/ LostWhileWaiting(t) \/ LostBeforeStart(t) \/ LostInPlay(t)
    \/ LostAtEnd(t)
    \/ SpuriousWakeup(t)

Next == \E t \in Threads : Progress(t) \/ Environment(t)

Spec == Init /\ [][Next]_vars

\* Threads are scheduled; a receive returns within its 60 s, here with the
\* answer; a player to move comes to make a legal move.  Nothing else is fair.
FairSpec == Spec /\ \A t \in Threads : WF_vars(Progress(t))
-----------------------------------------------------------------------------
TypeOK ==
    /\ mutex \in Threads \cup {NoThread}
    /\ waiting \subseteq Threads
    /\ client_fds \in [Ids -> Threads \cup {NoThread}]
    /\ count \in 0 .. 2
    /\ board \in Boards
    /\ current_turn \in Ids
    /\ winner_id \in Ids \cup {NoId}
    /\ game_started \in BOOLEAN
    /\ game_over \in BOOLEAN
    /\ pc \in [Threads -> Pcs]
    /\ my_id \in [Threads -> Ids \cup {NoId}]
    /\ move \in [coin_index : Cells, coin_pos : Cells] \cup {NoMove}
    /\ shown \in [Threads -> Boards \cup {NoBoard}]
    /\ outcome \in [Threads -> {"none", "win", "lose"}]

(***************************************************************************)
(* The count of the lobby is the number of threads that hold a slot, and a *)
(* thread holds one exactly from play_single_match's lock to its release,  *)
(* on every path out of a match.  So the lobby is reset when the last      *)
(* player leaves and not before, client_fds is indexed within its bounds,  *)
(* and the two "% lobby->count" never divide by zero.                      *)
(***************************************************************************)
SlotAccounting ==
    /\ count = Cardinality(Holders)
    /\ \A t \in Threads : t \in Holders <=> pc[t] \in SlotPcs

(***************************************************************************)
(* The flags agree with each other and with the threads: no thread is in   *)
(* run_match_session of a match that the lobby has forgotten (a reset by   *)
(* another thread's release under its feet), a match that is over has a    *)
(* winner and one that is not has none.                                    *)
(***************************************************************************)
MatchFlags ==
    /\ \A t \in Threads : pc[t] \in SessionPcs => game_started
    /\ game_over => game_started
    /\ game_over <=> winner_id # NoId

(***************************************************************************)
(* No wakeup is lost: a thread asleep in pthread_cond_wait has something   *)
(* to wait for, the end of a match to join the lobby, its turn or the end  *)
(* of its match to go on.  Every write that can make one of the two loop   *)
(* conditions false is followed by a broadcast before the unlock.          *)
(***************************************************************************)
NoLostWakeup ==
    \A t \in waiting :
        \/ At(t, "acquire") /\ game_started
        \/ At(t, "turn") /\ current_turn # my_id[t] /\ ~ game_over

(***************************************************************************)
(* The coins are kept: whenever the mutex is free the board has all its    *)
(* coins, and during a move all but the one on its way.                    *)
(***************************************************************************)
CoinsKept ==
    Cardinality(CoinsOf(board)) =
        IF mutex = NoThread THEN NumCoins ELSE NumCoins - 1

(***************************************************************************)
(* server_worker.h:64 calls a thread's id "Unique client/player ID within  *)
(* the lobby (0 or 1)".                                                    *)
(***************************************************************************)
UniqueIds ==
    \A t, u \in Holders : t # u => my_id[t] # my_id[u]

(***************************************************************************)
(* The slot table is right, as long as nobody leaves before a match has    *)
(* begun: every player's slot has that player's connection, so ids are     *)
(* unique, although an id is no more than the count at the time it was     *)
(* taken, and although slots are released in any order.                    *)
(***************************************************************************)
SlotTable == \A t \in Holders : client_fds[my_id[t]] = t

(***************************************************************************)
(* Turns are exclusive.  Between the unlock that follows its wait and the  *)
(* lock that applies its move a thread holds nothing, and the code that    *)
(* applies a move looks at neither current_turn nor game_over; still the   *)
(* turn cannot pass while a player has been asked to move.                 *)
(***************************************************************************)
TurnKept ==
    \A t \in Threads :
        pc[t] \in {"prompt", "move", "apply"} => current_turn = my_id[t]

(***************************************************************************)
(* A move is judged against the board its player was shown: the snapshot   *)
(* sent with the prompt cannot go stale before the move arrives.           *)
(***************************************************************************)
ShownBoardCurrent ==
    \A t \in Threads : pc[t] \in {"prompt", "move"} => shown[t] = board

(***************************************************************************)
(* Of two players of a match who are told a result, one has won and the    *)
(* other has lost, although each thread reads winner_id by itself, at its  *)
(* own time, after moves and forfeits that the other may still make.       *)
(***************************************************************************)
OneWinner ==
    \A t, u \in Threads :
        t # u /\ "none" \notin {outcome[t], outcome[u]} =>
            outcome[t] # outcome[u]

(***************************************************************************)
(* A match that is over keeps its winner until the lobby is reset: neither *)
(* a move accepted after the end nor a late forfeit changes it.            *)
(***************************************************************************)
WinnerKept ==
    [][game_over /\ game_over' => winner_id' = winner_id]_vars

(***************************************************************************)
(* ARCHITECTURE.md:250 of the server promises that a player never observes *)
(* a board in the middle of an update.                                     *)
(***************************************************************************)
ShownBoardsWhole ==
    \A t \in Threads :
        shown[t] # NoBoard => Cardinality(CoinsOf(shown[t])) = NumCoins

(***************************************************************************)
(* A player's match ends: whoever is in run_match_session comes out of it, *)
(* also when the opponent is lost in the middle of the match.              *)
(***************************************************************************)
MatchEnds ==
    \A t \in Threads :
        pc[t] \in SessionPcs ~> pc[t] \in {"release_keep", "release_close"}

(***************************************************************************)
(* ARCHITECTURE.md:261 of the server: the loss of a client ends the match  *)
(* at once and the opponent wins.  So a player who has a slot when a match *)
(* is on does not keep it for ever.                                        *)
(***************************************************************************)
PlayersReleased ==
    \A t \in Threads : my_id[t] # NoId /\ game_started ~> my_id[t] = NoId

(***************************************************************************)
(* The refinement mapping to the abstract match.  While a move is being    *)
(* written the abstract board is still the one before it.                  *)
(***************************************************************************)
BoardBeforeMove ==
    IF mutex = NoThread THEN board ELSE PlaceCoin(board, move.coin_index)

Playing == game_started /\ ~ game_over

M == INSTANCE Match WITH
        phase  <- IF Playing THEN "playing"
                  ELSE IF game_over THEN "over" ELSE "open",
        board  <- IF Playing THEN BoardBeforeMove ELSE NoBoard,
        turn   <- IF Playing THEN current_turn ELSE NoId,
        winner <- winner_id

MatchSpec == M!Spec
=============================================================================
