------------------------- MODULE LobbyMatch_proofs -------------------------
(***************************************************************************)
(* What holds of the lobby, for any number of threads and any board, as    *)
(* long as no connection is lost in wait_for_lobby_start, that is before   *)
(* its match has begun.  (Without that assumption none of it does: two     *)
(* threads can then have the same id.)                                     *)
(***************************************************************************)
EXTENDS Lobby_proofs

(***************************************************************************)
(* Ids.  Slots are released in any order, but only after the start of the  *)
(* match, and none is taken before the last has been released.  So while   *)
(* there is no match the ids taken are those below the count.              *)
(***************************************************************************)
IdInv ==
    /\ SlotTable
    /\ ~ game_started =>
          \A t \in Holders :
             /\ my_id[t] < count
             /\ pc[t] \in {"poll", "keep_alive", "begin"}

(***************************************************************************)
(* The result.  Who is being asked for a move when the match is over has   *)
(* won it by the other's forfeit, so a move made then changes no winner;   *)
(* and what a player was told fits the players who are still to be told.   *)
(***************************************************************************)
ResultInv ==
    /\ \A t \in Threads :
          /\ pc[t] \in {"after_last_move", "result", "reward"} => game_over
          /\ pc[t] \in {"prompt", "move", "apply"} /\ game_over
                => winner_id = my_id[t]
    /\ \A t \in Threads : \A u \in Holders :
          t # u /\ outcome[t] # "none" /\ game_started
             => game_over /\ (outcome[t] = "win" <=> winner_id # my_id[u])
    /\ OneWinner

LobbyMatchInv ==
    /\ LobbyInv
    /\ IdInv
    /\ TurnKept
    /\ ShownBoardCurrent
    /\ ResultInv
-----------------------------------------------------------------------------
LEMMA IdsDistinct ==
    ASSUME SlotTable, NEW t \in Holders, NEW u \in Holders, t # u
    PROVE  my_id[t] # my_id[u]
BY DEF SlotTable

LEMMA LobbyMatchInit == Init => LobbyMatchInv
<1> SUFFICES ASSUME Init PROVE LobbyMatchInv
  OBVIOUS
<1>1. Holders = {}
  BY DEF Init, Holders
<1>2. IdInv
  BY <1>1 DEF IdInv, SlotTable
<1>3. TurnKept /\ ShownBoardCurrent
  BY DEF Init, TurnKept, ShownBoardCurrent
<1>4. ResultInv
  BY <1>1 DEF Init, ResultInv, OneWinner
<1> QED
  BY <1>2, <1>3, <1>4, LobbyInit DEF LobbyMatchInv
-----------------------------------------------------------------------------
\* Ids change only where a slot is taken or released.
LEMMA IdInvStep ==
    ASSUME "wait" \notin Faults, LobbyMatchInv, LobbyInv', [Next]_vars
    PROVE  IdInv'
<1> USE DEF LobbyMatchInv, lobbyVars, threadVars
<1> DEFINE Waits(t) == pc[t] \in {"poll", "keep_alive", "begin"}
<1>0. /\ pc \in [Threads -> Pcs] /\ my_id \in [Threads -> Ids \cup {NoId}]
      /\ client_fds \in [Ids -> Threads \cup {NoThread}]
      /\ game_started \in BOOLEAN
  BY DEF LobbyInv, TypeOK
<1>1. ASSUME UNCHANGED <<my_id, client_fds, count, game_started>>,
             \A t \in Threads : Waits(t) => Waits(t)' \/ game_started
      PROVE  IdInv'
  <2>1. Holders' = Holders
    BY <1>1 DEF Holders
  <2>2. SlotTable'
    BY <1>1, <2>1 DEF IdInv, SlotTable
  <2>3. ASSUME ~ game_started', NEW t \in Holders'
        PROVE  my_id'[t] < count' /\ Waits(t)'
    <3>1. t \in Threads /\ t \in Holders /\ ~ game_started
      BY <1>1, <2>1, <2>3 DEF Holders
    <3>2. my_id[t] < count /\ Waits(t)
      BY <3>1 DEF IdInv
    <3> QED
      BY <1>1, <3>1, <3>2
  <2> QED
    BY <2>2, <2>3 DEF IdInv
<1> HIDE DEF Waits
<1>2. ASSUME NEW t \in Threads, NEW from, NEW to, Exchange(t, from, to),
             from = "keep_alive" => to = "poll", from \notin {"poll", "begin"}
      PROVE  IdInv'
  <2>1. UNCHANGED <<my_id, client_fds, count, game_started>>
    BY <1>2 DEF Exchange
  <2>2. \A u \in Threads : Waits(u) => Waits(u)'
    BY <1>0, <1>2 DEF Exchange, At, Goto, Waits
  <2> QED
    BY <1>1, <2>1, <2>2
<1>3. ASSUME NEW t \in Threads, TakeSlot(t)
      PROVE  IdInv'
  <2> USE DEF TakeSlot, ClaimSlot, At, Goto
  <2>1. count \in {0, 1} /\ ~ game_started /\ t \notin Holders
        /\ count \in Ids
    <3>1. "acquire" \notin SlotPcs
      BY DEF SlotPcs, SessionPcs
    <3> QED
      BY <1>3, <3>1 DEF LobbyInv, TypeOK, SlotAccounting, CanLock, Ids
  <2>2. Holders' = Holders \cup {t}
    BY <1>0, <1>3, <2>1 DEF Holders, NoId
  <2>3. \A u \in Holders : u # t /\ u \in Threads /\ my_id[u] < count
                           /\ my_id'[u] = my_id[u] /\ pc'[u] = pc[u]
                           /\ my_id[u] \in Ids
    BY <1>0, <1>3, <2>1 DEF IdInv, Holders
  <2>4. my_id'[t] = count /\ pc'[t] = "poll" /\ count' = count + 1
        /\ client_fds'[count] = t /\ game_started' = game_started
    BY <1>0, <1>3, <2>1
  <2>5. \A u \in Holders : client_fds'[my_id[u]] = client_fds[my_id[u]]
    BY <1>0, <1>3, <2>1, <2>3 DEF Ids
  <2>6. SlotTable'
    BY <2>2, <2>3, <2>4, <2>5 DEF IdInv, SlotTable
  <2>7. \A u \in Holders' : /\ my_id'[u] < count'
                            /\ pc'[u] \in {"poll", "keep_alive", "begin"}
    BY <2>1, <2>2, <2>3, <2>4 DEF IdInv, Ids
  <2> QED
    BY <2>6, <2>7 DEF IdInv
<1>4. ASSUME NEW t \in Threads, ReleaseSlot(t)
      PROVE  IdInv'
  <2>1. t \in Holders /\ count \in {1, 2} /\ my_id[t] \in Ids
    BY <1>4, HolderCounted DEF ReleaseSlot, LobbyEmptied, At, SlotPcs
  <2>2. game_started
    BY <1>4, <2>1 DEF IdInv, ReleaseSlot, LobbyEmptied, At
  <2>3. client_fds' = [client_fds EXCEPT ![my_id[t]] = NoThread]
        /\ my_id' = [my_id EXCEPT ![t] = NoId]
    BY <1>4, <2>1 DEF ReleaseSlot, LobbyEmptied, Ids
  <2>4. Holders' = Holders \ {t}
    BY <1>0, <2>3 DEF Holders
  <2>5. \A u \in Holders' : /\ u \in Holders /\ my_id[u] # my_id[t]
                            /\ my_id[u] \in Ids
                            /\ my_id'[u] = my_id[u]
    BY <1>0, <2>1, <2>3, <2>4, IdsDistinct DEF IdInv, Holders
  <2>6. SlotTable'
    BY <1>0, <2>1, <2>3, <2>5 DEF IdInv, SlotTable
  <2>7. ~ game_started' => Holders' = {}
    <3>1. ASSUME ~ game_started' PROVE count' = 0
      BY <1>4, <2>2, <3>1 DEF ReleaseSlot, LobbyEmptied
    <3>2. IsFiniteSet(Holders')
      BY <2>4, HoldersFinite, FS_RemoveElement
    <3>3. count' = Cardinality(Holders')
      BY DEF LobbyInv, SlotAccounting
    <3> QED
      BY <3>1, <3>2, <3>3, FS_EmptySet
  <2> QED
    BY <2>6, <2>7 DEF IdInv
<1>5. ASSUME NEW t \in Threads, StartMatch(t) \/ EnterMatch(t)
      PROVE  IdInv'
  <2>1. UNCHANGED <<my_id, client_fds, count>> /\ game_started'
    BY <1>5 DEF StartMatch, SetUpMatch, EnterMatch
  <2>2. Holders' = Holders
    BY <2>1 DEF Holders
  <2> QED
    BY <2>1, <2>2 DEF IdInv, SlotTable
<1>6. ASSUME NEW t \in Threads, Progress(t)
      PROVE  IdInv'
  <2> USE <1>1, <1>2 DEF At, Goto, Waits
  <2>1. CASE WaitForLobby(t) \/ WaitForTurn(t)
    BY <2>1 DEF WaitForLobby, WaitForTurn
  <2>2. CASE RejectThird(t)
    BY <1>0, <2>2 DEF RejectThird
  <2>3. CASE Poll(t)
    BY <1>0, <2>3 DEF Poll
  <2>4. CASE KeepAlive(t) \/ GameStart(t) \/ Prompt(t) \/ AfterMove(t)
                \/ AfterLastMove(t) \/ Reward(t)
    BY <2>4 DEF KeepAlive, GameStart, Prompt, AfterMove, AfterLastMove, Reward
  <2>5. CASE InitialState(t) \/ SeeGameOver(t) \/ TakeTurn(t) \/ ReadResult(t)
    BY <1>0, <2>5 DEF InitialState, SeeGameOver, TakeTurn, ReadResult
  <2>6. CASE \E coin_index, coin_pos \in MoveFields :
                LegalMove(t, coin_index, coin_pos)
    BY <1>0, <2>6 DEF LegalMove
  <2>7. CASE FinishMove(t)
    BY <1>0, <2>7 DEF FinishMove
  <2>8. CASE HandleDisconnectWin(t)
    BY <1>0, <2>8 DEF HandleDisconnectWin
  <2> QED
    BY <1>3, <1>4, <1>5, <1>6, <2>1, <2>2, <2>3, <2>4, <2>5, <2>6, <2>7, <2>8
    DEF Progress
<1>7. ASSUME NEW t \in Threads, Environment(t)
      PROVE  IdInv'
  <2>1. CASE Accept(t) \/ GameJoin(t) \/ HangUp(t) \/ LostBeforeStart(t)
                \/ LostInPlay(t) \/ LostAtEnd(t)
    BY <1>2, <2>1
    DEF Accept, GameJoin, HangUp, LostBeforeStart, LostInPlay, LostAtEnd
  <2>2. CASE SpuriousWakeup(t)
    BY <1>1, <2>2 DEF SpuriousWakeup, Waits
  <2>3. CASE \E coin_index, coin_pos \in MoveFields :
                IllegalMove(t, coin_index, coin_pos)
    BY <1>1, <2>3 DEF IllegalMove, vars, Waits
  <2> QED
    BY <1>7, <2>1, <2>2, <2>3 DEF Environment, LostWhileWaiting
<1>8. CASE UNCHANGED vars
  BY <1>1, <1>8 DEF vars, Waits
<1> QED
  BY <1>6, <1>7, <1>8 DEF Next

\* Who is asked for a move can only lose the turn by making the move: no
\* other thread is between its turn and its move, for its id is another one.
LEMMA TurnInvStep ==
    ASSUME LobbyMatchInv, LobbyInv', [Next]_vars
    PROVE  TurnKept' /\ ShownBoardCurrent'
<1> USE DEF LobbyMatchInv, lobbyVars, threadVars
<1> DEFINE Asked(t) == pc[t] \in {"prompt", "move"}
<1>0. /\ pc \in [Threads -> Pcs] /\ my_id \in [Threads -> Ids \cup {NoId}]
      /\ shown \in [Threads -> Boards \cup {NoBoard}]
  BY DEF LobbyInv, TypeOK
<1>1. ASSUME UNCHANGED <<current_turn, board, my_id>>,
             \A t \in Threads : Asked(t)' => Asked(t),
             \A t \in Threads : pc'[t] = "apply" => pc[t] = "apply",
             \A t \in Threads : Asked(t) => shown'[t] = shown[t]
      PROVE  TurnKept' /\ ShownBoardCurrent'
  BY <1>1 DEF TurnKept, ShownBoardCurrent
<1>2. ASSUME NEW t \in Threads, NEW from, NEW to, Exchange(t, from, to),
             to = "move" => from = "prompt", to \notin {"prompt", "apply"}
      PROVE  TurnKept' /\ ShownBoardCurrent'
  <2>1. UNCHANGED <<current_turn, board, my_id, shown>>
    BY <1>2 DEF Exchange
  <2>2. \A u \in Threads : /\ Asked(u)' => Asked(u)
                           /\ pc'[u] = "apply" => pc[u] = "apply"
    BY <1>0, <1>2 DEF Exchange, At, Goto
  <2> QED
    BY <1>1, <2>1, <2>2
\* The turn is another's as soon as one thread is asked to move.
<1>3. ASSUME NEW t \in Threads, NEW u \in Threads, t # u,
             Asked(t) \/ pc[t] = "apply", Asked(u) \/ pc[u] = "apply"
      PROVE  FALSE
  <2>1. t \in Holders /\ u \in Holders
    BY <1>3 DEF LobbyInv, SlotAccounting, SlotPcs, SessionPcs
  <2>2. my_id[t] = current_turn /\ my_id[u] = current_turn
    BY <1>3 DEF TurnKept
  <2> QED
    BY <1>3, <2>1, <2>2, IdsDistinct DEF IdInv
\* A start or a reset of the lobby finds nobody in a match.
<1>4. ASSUME NEW t \in Threads, ~ game_started
      PROVE  ~ Asked(t) /\ pc[t] # "apply"
  BY <1>4 DEF LobbyInv, MatchFlags, SessionPcs
<1>5. ASSUME NEW t \in Threads, StartMatch(t)
      PROVE  TurnKept' /\ ShownBoardCurrent'
  <2>1. \A u \in Threads : ~ Asked(u)' /\ pc'[u] # "apply"
    BY <1>0, <1>4, <1>5 DEF StartMatch, SetUpMatch, At, Goto
  <2> QED
    BY <2>1 DEF TurnKept, ShownBoardCurrent
<1>6. ASSUME NEW t \in Threads, TakeTurn(t)
      PROVE  TurnKept' /\ ShownBoardCurrent'
  <2>1. UNCHANGED <<current_turn, board, my_id>>
    BY <1>6 DEF TakeTurn
  <2>2. /\ pc' = [pc EXCEPT ![t] = "prompt"]
        /\ shown' = [shown EXCEPT ![t] = board]
        /\ current_turn = my_id[t]
    BY <1>6 DEF TakeTurn, Goto
  <2>3. \A u \in Threads \ {t} : pc'[u] = pc[u] /\ shown'[u] = shown[u]
    BY <1>0, <2>2
  <2>4. pc'[t] = "prompt" /\ shown'[t] = board
    BY <1>0, <2>2
  <2> QED
    BY <2>1, <2>2, <2>3, <2>4 DEF TurnKept, ShownBoardCurrent
<1>7. ASSUME NEW t \in Threads, NEW coin_index \in MoveFields,
             NEW coin_pos \in MoveFields, LegalMove(t, coin_index, coin_pos)
      PROVE  TurnKept' /\ ShownBoardCurrent'
  <2>1. /\ pc[t] = "move" /\ pc' = [pc EXCEPT ![t] = "apply"]
        /\ UNCHANGED <<current_turn, my_id, shown>>
    BY <1>7 DEF LegalMove, At, Goto
  <2>2. \A u \in Threads \ {t} : /\ ~ Asked(u) /\ pc[u] # "apply"
                                 /\ pc'[u] = pc[u]
    BY <1>0, <1>3, <2>1
  <2>3. pc'[t] = "apply" /\ current_turn = my_id[t]
    BY <1>0, <2>1 DEF TurnKept
  <2> QED
    BY <2>1, <2>2, <2>3 DEF TurnKept, ShownBoardCurrent
<1>8. ASSUME NEW t \in Threads, FinishMove(t)
      PROVE  TurnKept' /\ ShownBoardCurrent'
  <2>1. /\ pc[t] = "apply"
        /\ \E to \in {"after_move", "after_last_move"} :
              pc' = [pc EXCEPT ![t] = to]
    BY <1>8 DEF FinishMove, At, Goto
  <2>2. \A u \in Threads : ~ Asked(u)' /\ pc'[u] # "apply"
    BY <1>0, <1>3, <2>1
  <2> QED
    BY <2>2 DEF TurnKept, ShownBoardCurrent
<1>9. ASSUME NEW t \in Threads, ReleaseSlot(t)
      PROVE  TurnKept' /\ ShownBoardCurrent'
  <2>1. /\ my_id' = [my_id EXCEPT ![t] = NoId]
        /\ shown' = [shown EXCEPT ![t] = NoBoard]
        /\ \E to \in {"wait_for_game_join", "closed"} :
              pc' = [pc EXCEPT ![t] = to]
    BY <1>9 DEF ReleaseSlot, LobbyEmptied, Goto
  <2>2. CASE game_started'
    <3>1. UNCHANGED <<current_turn, board>>
      BY <1>9, <2>2 DEF ReleaseSlot, LobbyEmptied
    <3>2. \A u \in Threads : Asked(u)' \/ pc'[u] = "apply" =>
             pc'[u] = pc[u] /\ my_id'[u] = my_id[u] /\ shown'[u] = shown[u]
      BY <1>0, <2>1
    <3> QED
      BY <3>1, <3>2 DEF TurnKept, ShownBoardCurrent
  <2>3. CASE ~ game_started'
    BY <2>3 DEF LobbyInv, MatchFlags, SessionPcs, TurnKept, ShownBoardCurrent
  <2> QED
    BY <2>2, <2>3
<1>10. ASSUME NEW t \in Threads, Progress(t)
       PROVE  TurnKept' /\ ShownBoardCurrent'
  <2> USE <1>1, <1>2 DEF At, Goto
  <2>1. CASE WaitForLobby(t) \/ WaitForTurn(t)
    BY <2>1 DEF WaitForLobby, WaitForTurn
  <2>2. CASE RejectThird(t) \/ TakeSlot(t) \/ Poll(t) \/ EnterMatch(t)
    <3>1. UNCHANGED <<current_turn, board, shown>>
      BY <2>2 DEF RejectThird, TakeSlot, ClaimSlot, Poll, EnterMatch
    <3>2. /\ \E to \in {"closed", "poll", "keep_alive", "begin", "game_start"} :
                pc' = [pc EXCEPT ![t] = to]
          /\ \A u \in Threads \ {t} : my_id'[u] = my_id[u]
      BY <1>0, <2>2 DEF RejectThird, TakeSlot, ClaimSlot, Poll, EnterMatch
    <3> QED
      BY <1>0, <3>1, <3>2 DEF TurnKept, ShownBoardCurrent
  <2>3. CASE KeepAlive(t) \/ GameStart(t) \/ Prompt(t) \/ AfterMove(t)
                \/ AfterLastMove(t) \/ Reward(t)
    BY <2>3 DEF KeepAlive, GameStart, Prompt, AfterMove, AfterLastMove, Reward
  <2>4. CASE InitialState(t) \/ SeeGameOver(t) \/ ReadResult(t)
    BY <1>0, <2>4 DEF InitialState, SeeGameOver, ReadResult
  <2>5. CASE HandleDisconnectWin(t)
    BY <1>0, <2>5 DEF HandleDisconnectWin
  <2> QED
    BY <1>5, <1>6, <1>7, <1>8, <1>9, <1>10, <2>1, <2>2, <2>3, <2>4, <2>5
    DEF Progress
<1>11. ASSUME NEW t \in Threads, Environment(t)
       PROVE  TurnKept' /\ ShownBoardCurrent'
  <2>1. CASE Accept(t) \/ GameJoin(t) \/ HangUp(t) \/ LostWhileWaiting(t)
                \/ LostBeforeStart(t) \/ LostInPlay(t) \/ LostAtEnd(t)
    BY <1>2, <2>1
    DEF Accept, GameJoin, HangUp, LostWhileWaiting, LostBeforeStart,
        LostInPlay, LostAtEnd
  <2>2. CASE SpuriousWakeup(t)
    BY <1>1, <2>2 DEF SpuriousWakeup
  <2>3. CASE \E coin_index, coin_pos \in MoveFields :
                IllegalMove(t, coin_index, coin_pos)
    BY <1>1, <2>3 DEF IllegalMove, vars
  <2> QED
    BY <1>11, <2>1, <2>2, <2>3 DEF Environment
<1>12. CASE UNCHANGED vars
  BY <1>1, <1>12 DEF vars
<1> QED
  BY <1>10, <1>11, <1>12 DEF Next

\* A move made when the match is already over was made by its winner.
LEMMA LateMove ==
    ASSUME LobbyMatchInv, NEW t \in Threads, FinishMove(t), game_over
    PROVE  winner_id = my_id[t]
BY DEF LobbyMatchInv, ResultInv, FinishMove, At

LEMMA ResultInvStep ==
    ASSUME LobbyMatchInv, LobbyInv', [Next]_vars
    PROVE  ResultInv'
<1> USE DEF LobbyMatchInv, lobbyVars, threadVars
<1> DEFINE Done(t)  == pc[t] \in {"after_last_move", "result", "reward"}
           Asked(t) == pc[t] \in {"prompt", "move", "apply"}
           Told(t, u) == t # u /\ outcome[t] # "none" /\ game_started
                            => /\ game_over
                               /\ outcome[t] = "win" <=> winner_id # my_id[u]
<1>0. /\ pc \in [Threads -> Pcs] /\ my_id \in [Threads -> Ids \cup {NoId}]
      /\ outcome \in [Threads -> {"none", "win", "lose"}]
      /\ winner_id \in Ids \cup {NoId} /\ game_over \in BOOLEAN
  BY DEF LobbyInv, TypeOK
<1>1. ASSUME UNCHANGED <<my_id, game_started, game_over, winner_id, outcome>>,
             \A t \in Threads : Done(t)' => Done(t) \/ game_over,
             \A t \in Threads : Asked(t)' => Asked(t) \/ ~ game_over
      PROVE  ResultInv'
  <2>1. Holders' = Holders
    BY <1>1 DEF Holders
  <2> QED
    BY <1>1, <2>1 DEF ResultInv, OneWinner
<1>2. ASSUME NEW t \in Threads, NEW from, NEW to, Exchange(t, from, to),
             to = "move" => from = "prompt", to \notin {"prompt", "apply"},
             to = "result" => from = "after_last_move",
             to \notin {"after_last_move", "reward"}
      PROVE  ResultInv'
  <2>1. UNCHANGED <<my_id, game_started, game_over, winner_id, outcome>>
    BY <1>2 DEF Exchange
  <2>2. \A u \in Threads : /\ Asked(u)' => Asked(u)
                           /\ Done(u)' => Done(u)
    BY <1>0, <1>2 DEF Exchange, At, Goto
  <2> QED
    BY <1>1, <2>1, <2>2
<1>3. ASSUME NEW t \in Threads, TakeSlot(t)
      PROVE  ResultInv'
  <2>1. ~ game_started /\ UNCHANGED <<game_started, game_over, winner_id, outcome>>
    BY <1>3 DEF TakeSlot, ClaimSlot
  <2>2. \A u \in Threads : ~ Done(u)' /\ ~ Asked(u)'
    BY <2>1 DEF LobbyInv, MatchFlags, SessionPcs
  <2> QED
    BY <2>1, <2>2 DEF ResultInv, OneWinner
<1>4. ASSUME NEW t \in Threads, StartMatch(t)
      PROVE  ResultInv'
  <2>1. ~ game_started /\ pc' = [pc EXCEPT ![t] = "game_start"]
        /\ outcome' = [u \in Threads |-> "none"]
    BY <1>4 DEF StartMatch, SetUpMatch, Goto
  <2>2. \A u \in Threads : ~ Done(u)' /\ ~ Asked(u)'
    BY <1>0, <2>1 DEF LobbyInv, MatchFlags, SessionPcs
  <2> QED
    BY <2>1, <2>2 DEF ResultInv, OneWinner
<1>5. ASSUME NEW t \in Threads, FinishMove(t)
      PROVE  ResultInv'
  <2>1. /\ pc[t] = "apply" /\ UNCHANGED <<my_id, game_started, outcome>>
        /\ t \in Holders /\ my_id[t] \in Ids
        /\ Holders' = Holders
    BY <1>5, HolderCounted DEF FinishMove, At, SlotPcs, SessionPcs, Holders
  <2>2. PICK to \in {"after_move", "after_last_move"} :
               /\ pc' = [pc EXCEPT ![t] = to]
               /\ to = "after_last_move" => game_over'
               /\ game_over' <=> game_over \/ to = "after_last_move"
               /\ winner_id' = IF to = "after_last_move" THEN my_id[t]
                                                         ELSE winner_id
    BY <1>5 DEF FinishMove, Goto
  <2>3. \A u \in Threads : Asked(u)' => FALSE
    <3>1. TAKE u \in Threads
    <3>2. CASE u = t
      BY <1>0, <2>2, <3>2
    <3>3. ASSUME u # t, Asked(u) PROVE FALSE
      <4>1. u \in Holders /\ my_id[u] = current_turn /\ my_id[t] = current_turn
        BY <2>1, <3>3
        DEF LobbyInv, SlotAccounting, SlotPcs, SessionPcs, TurnKept
      <4> QED
        BY <2>1, <3>3, <4>1, IdsDistinct DEF IdInv
    <3> QED
      BY <1>0, <2>2, <3>2, <3>3
  <2>4. \A u \in Threads : Done(u)' => game_over'
    <3>1. TAKE u \in Threads
    <3>2. CASE u = t
      BY <1>0, <2>2, <3>2
    <3>3. CASE u # t
      BY <1>0, <2>2, <3>3 DEF ResultInv
    <3> QED
      BY <3>2, <3>3
  \* Who has been told is not playing: then the match was over before, and
  \* this is a late move of the winner.
  <2>5. ASSUME NEW u \in Threads, NEW v \in Holders, u # v,
               outcome[u] # "none", game_started
        PROVE  game_over' /\ (outcome[u] = "win" <=> winner_id' # my_id[v])
    <3>1. Told(u, v)
      BY <2>5 DEF ResultInv
    <3>2. game_over /\ winner_id = my_id[t]
      BY <1>5, <2>5, <3>1, LateMove
    <3> QED
      BY <2>2, <2>5, <3>1, <3>2
  <2> QED
    BY <2>1, <2>3, <2>4, <2>5 DEF ResultInv, OneWinner
<1>6. ASSUME NEW t \in Threads, HandleDisconnectWin(t)
      PROVE  ResultInv'
  <2>1. /\ pc[t] = "forfeit" /\ pc' = [pc EXCEPT ![t] = "release_close"]
        /\ UNCHANGED <<my_id, game_started, outcome>>
        /\ Holders' = Holders
    BY <1>6 DEF HandleDisconnectWin, At, Goto, Holders
  <2>2. t \in Holders /\ my_id[t] \in Ids /\ game_started
    BY <2>1, HolderCounted
    DEF LobbyInv, MatchFlags, SlotPcs, SessionPcs
  <2>3. CASE game_over
    <3>1. UNCHANGED <<game_over, winner_id>>
      BY <1>6, <2>3 DEF HandleDisconnectWin
    <3>2. \A u \in Threads : /\ Asked(u)' => Asked(u)
                             /\ Done(u)' => Done(u)
      BY <1>0, <2>1
    <3> QED
      BY <1>1, <2>1, <3>1, <3>2
  <2>4. CASE ~ game_over
    <3>1. game_over' /\ winner_id' = (my_id[t] + 1) % 2
      BY <1>6, <2>2, <2>4 DEF HandleDisconnectWin
    <3>2. \A u \in Threads : Asked(u)' => winner_id' = my_id[u]
      <4> SUFFICES ASSUME NEW u \in Threads, Asked(u)'
                   PROVE  winner_id' = my_id[u]
        OBVIOUS
      <4>1. u # t /\ Asked(u)
        BY <1>0, <2>1
      <4>2. u \in Holders /\ my_id[u] \in Ids
        BY <4>1, HolderCounted DEF SlotPcs, SessionPcs
      <4>3. my_id[u] # my_id[t]
        BY <2>2, <4>1, <4>2, IdsDistinct DEF IdInv
      <4> QED
        BY <2>2, <3>1, <4>2, <4>3 DEF Ids
    <3>3. \A u \in Threads : outcome[u] # "none" => Holders \subseteq {u}
      BY <2>2, <2>4 DEF ResultInv
    <3>4. \A u \in Threads, v \in Holders : u # v => outcome[u] = "none"
      BY <3>3
    <3> QED
      BY <2>1, <3>1, <3>2, <3>4 DEF ResultInv, OneWinner
  <2> QED
    BY <2>3, <2>4
<1>7. ASSUME NEW t \in Threads, ReadResult(t)
      PROVE  ResultInv'
  <2>1. /\ pc[t] = "result" /\ pc' = [pc EXCEPT ![t] = "reward"]
        /\ outcome' = [outcome EXCEPT
                         ![t] = IF winner_id = my_id[t] THEN "win" ELSE "lose"]
        /\ UNCHANGED <<my_id, game_started, game_over, winner_id>>
        /\ Holders' = Holders
    BY <1>7 DEF ReadResult, At, Goto, Holders
  <2>2. /\ t \in Holders /\ my_id[t] \in Ids
        /\ game_started /\ game_over /\ winner_id \in Ids
    <3>1. t \in Holders /\ my_id[t] \in Ids /\ game_started
      BY <2>1, HolderCounted DEF LobbyInv, MatchFlags, SlotPcs, SessionPcs
    <3>2. game_over
      BY <2>1 DEF ResultInv
    <3> QED
      BY <1>0, <3>1, <3>2 DEF LobbyInv, MatchFlags
  <2>3. \A u \in Threads : /\ Asked(u)' => Asked(u)
                           /\ Done(u)' => Done(u)
    BY <1>0, <2>1
  <2>4. /\ outcome'[t] \in {"win", "lose"}
        /\ outcome'[t] = "win" <=> winner_id = my_id[t]
        /\ \A u \in Threads \ {t} : outcome'[u] = outcome[u]
    BY <1>0, <2>1
  <2>5. \A v \in Holders : v # t =>
           (outcome'[t] = "win" <=> winner_id # my_id[v])
    <3> SUFFICES ASSUME NEW v \in Holders, v # t
                 PROVE  winner_id = my_id[t] <=> winner_id # my_id[v]
      BY <2>4
    <3>1. my_id[v] \in Ids /\ my_id[v] # my_id[t]
      BY <1>0, <2>2, IdsDistinct DEF IdInv, Holders
    <3> QED
      BY <2>2, <3>1 DEF Ids
  <2>6. \A u \in Threads : u # t /\ outcome[u] # "none" =>
           (outcome[u] = "win" <=> winner_id # my_id[t])
    BY <2>2 DEF ResultInv
  <2>7. OneWinner'
    <3> SUFFICES ASSUME NEW u \in Threads, NEW v \in Threads, u # v,
                        outcome'[u] # "none", outcome'[v] # "none"
                 PROVE  outcome'[u] # outcome'[v]
      BY DEF OneWinner
    <3>1. CASE u # t /\ v # t
      BY <2>4, <3>1 DEF ResultInv, OneWinner
    <3>2. CASE u = t
      BY <1>0, <2>4, <2>6, <3>2
    <3>3. CASE v = t
      BY <1>0, <2>4, <2>6, <3>3
    <3> QED
      BY <3>1, <3>2, <3>3
  <2>8. \A u \in Threads, v \in Holders :
           u # v /\ outcome'[u] # "none" =>
              (outcome'[u] = "win" <=> winner_id # my_id[v])
    BY <2>2, <2>4, <2>5 DEF ResultInv
  <2> QED
    BY <2>1, <2>2, <2>3, <2>7, <2>8 DEF ResultInv
<1>8. ASSUME NEW t \in Threads, ReleaseSlot(t)
      PROVE  ResultInv'
  <2>1. /\ my_id' = [my_id EXCEPT ![t] = NoId] /\ outcome' = outcome
        /\ pc' = [pc EXCEPT ![t] = IF At(t, "release_keep")
                                   THEN "wait_for_game_join" ELSE "closed"]
        /\ \/ ~ game_started'
           \/ UNCHANGED <<game_started, game_over, winner_id>>
    BY <1>8 DEF ReleaseSlot, LobbyEmptied, Goto
  <2>2. CASE ~ game_started'
    <3>1. \A u \in Threads : ~ Done(u)' /\ ~ Asked(u)'
      BY <2>2 DEF LobbyInv, MatchFlags, SessionPcs
    <3> QED
      BY <2>1, <2>2, <3>1 DEF ResultInv, OneWinner
  <2>3. CASE UNCHANGED <<game_started, game_over, winner_id>>
    <3>1. \A u \in Threads : Asked(u)' \/ Done(u)' =>
             u # t /\ pc'[u] = pc[u] /\ my_id'[u] = my_id[u]
      BY <1>0, <2>1
    <3>2. \A u \in Holders' : u \in Holders /\ my_id'[u] = my_id[u]
      BY <1>0, <2>1 DEF Holders
    <3> QED
      BY <2>1, <2>3, <3>1, <3>2 DEF ResultInv, OneWinner
  <2> QED
    BY <2>1, <2>2, <2>3
<1>9. ASSUME NEW t \in Threads, Progress(t)
      PROVE  ResultInv'
  <2> USE <1>1, <1>2 DEF At, Goto
  <2>1. CASE WaitForLobby(t) \/ WaitForTurn(t)
    BY <2>1 DEF WaitForLobby, WaitForTurn
  <2>2. CASE RejectThird(t) \/ Poll(t) \/ EnterMatch(t)
    BY <1>0, <2>2 DEF RejectThird, Poll, EnterMatch
  <2>3. CASE KeepAlive(t) \/ GameStart(t) \/ Prompt(t) \/ AfterMove(t)
                \/ AfterLastMove(t) \/ Reward(t)
    BY <2>3 DEF KeepAlive, GameStart, Prompt, AfterMove, AfterLastMove, Reward
  <2>4. CASE InitialState(t) \/ SeeGameOver(t) \/ TakeTurn(t)
    BY <1>0, <2>4 DEF InitialState, SeeGameOver, TakeTurn
  <2>5. CASE \E coin_index, coin_pos \in MoveFields :
                LegalMove(t, coin_index, coin_pos)
    BY <1>0, <2>5 DEF LegalMove
  <2> QED
    BY <1>3, <1>4, <1>5, <1>6, <1>7, <1>8, <1>9, <2>1, <2>2, <2>3, <2>4, <2>5
    DEF Progress
<1>10. ASSUME NEW t \in Threads, Environment(t)
       PROVE  ResultInv'
  <2>1. CASE Accept(t) \/ GameJoin(t) \/ HangUp(t) \/ LostWhileWaiting(t)
                \/ LostBeforeStart(t) \/ LostInPlay(t) \/ LostAtEnd(t)
    BY <1>2, <2>1
    DEF Accept, GameJoin, HangUp, LostWhileWaiting, LostBeforeStart,
        LostInPlay, LostAtEnd
  <2>2. CASE SpuriousWakeup(t)
    BY <1>1, <2>2 DEF SpuriousWakeup
  <2>3. CASE \E coin_index, coin_pos \in MoveFields :
                IllegalMove(t, coin_index, coin_pos)
    BY <1>1, <2>3 DEF IllegalMove, vars
  <2> QED
    BY <1>10, <2>1, <2>2, <2>3 DEF Environment
<1>11. CASE UNCHANGED vars
  BY <1>1, <1>11 DEF vars
<1> QED
  BY <1>9, <1>10, <1>11 DEF Next
-----------------------------------------------------------------------------
THEOREM LobbyMatchInvariant ==
    ASSUME "wait" \notin Faults
    PROVE  Spec => []LobbyMatchInv
<1>1. LobbyMatchInv /\ [Next]_vars => LobbyMatchInv'
  <2> SUFFICES ASSUME LobbyMatchInv, [Next]_vars
               PROVE  LobbyMatchInv'
    OBVIOUS
  <2>1. LobbyInv'
    BY LobbyStep DEF LobbyMatchInv
  <2> QED
    BY <2>1, IdInvStep, TurnInvStep, ResultInvStep DEF LobbyMatchInv
<1> QED
  BY <1>1, LobbyMatchInit, PTL DEF Spec

(***************************************************************************)
(* Every player's slot has that player's connection, so that ids are       *)
(* unique.                                                                 *)
(***************************************************************************)
THEOREM LobbySlotTable ==
    ASSUME "wait" \notin Faults
    PROVE  Spec => []SlotTable
BY LobbyMatchInvariant, PTL DEF LobbyMatchInv, IdInv

THEOREM LobbyUniqueIds ==
    ASSUME "wait" \notin Faults
    PROVE  Spec => []UniqueIds
<1>1. SlotTable => UniqueIds
  BY IdsDistinct DEF UniqueIds
<1> QED
  BY <1>1, LobbySlotTable, PTL

(***************************************************************************)
(* The turn does not pass while a player has been asked to move.           *)
(***************************************************************************)
THEOREM LobbyTurnKept ==
    ASSUME "wait" \notin Faults
    PROVE  Spec => []TurnKept
BY LobbyMatchInvariant, PTL DEF LobbyMatchInv

(***************************************************************************)
(* A move is judged against the board its player was shown.                *)
(***************************************************************************)
THEOREM LobbyShownBoardCurrent ==
    ASSUME "wait" \notin Faults
    PROVE  Spec => []ShownBoardCurrent
BY LobbyMatchInvariant, PTL DEF LobbyMatchInv

(***************************************************************************)
(* Of two players who are told a result one has won and one has lost.      *)
(***************************************************************************)
THEOREM LobbyOneWinner ==
    ASSUME "wait" \notin Faults
    PROVE  Spec => []OneWinner
BY LobbyMatchInvariant, PTL DEF LobbyMatchInv, ResultInv

(***************************************************************************)
(* A match that is over keeps its winner until the lobby is reset.         *)
(***************************************************************************)
THEOREM LobbyWinnerKept ==
    ASSUME "wait" \notin Faults
    PROVE  Spec => WinnerKept
<1>1. LobbyMatchInv /\ [Next]_vars
         => [game_over /\ game_over' => winner_id' = winner_id]_vars
  <2> SUFFICES ASSUME LobbyMatchInv, [Next]_vars, game_over, game_over'
               PROVE  winner_id' = winner_id
    OBVIOUS
  <2> USE DEF lobbyVars
  <2>1. ASSUME NEW t \in Threads, FinishMove(t)
        PROVE  winner_id' = winner_id
    BY <2>1, LateMove DEF FinishMove
  <2>2. ASSUME NEW t \in Threads, Progress(t)
        PROVE  winner_id' = winner_id
    BY <2>1, <2>2
    DEF Progress, Exchange, WaitForLobby, RejectThird, TakeSlot, ClaimSlot,
        Poll, KeepAlive, StartMatch, SetUpMatch, EnterMatch, GameStart,
        InitialState,
        WaitForTurn, SeeGameOver, TakeTurn, Prompt, LegalMove, AfterMove,
        AfterLastMove, HandleDisconnectWin, ReadResult, Reward,
        ReleaseSlot, LobbyEmptied
  <2>3. ASSUME NEW t \in Threads, Environment(t)
        PROVE  winner_id' = winner_id
    BY <2>3
    DEF Environment, Exchange, Accept, GameJoin, HangUp, IllegalMove, vars,
        LostWhileWaiting, LostBeforeStart, LostInPlay, LostAtEnd,
        SpuriousWakeup
  <2>4. CASE UNCHANGED vars
    BY <2>4 DEF vars
  <2> QED
    BY <2>2, <2>3, <2>4 DEF Next
<1> QED
  BY <1>1, LobbyMatchInvariant, PTL DEF Spec, WinnerKept
-----------------------------------------------------------------------------
(***************************************************************************)
(* The lobby implements the abstract match, for any number of threads and  *)
(* any board, as long as no connection is lost before its match has begun: *)
(* neither in wait_for_lobby_start nor before GAME_START has been sent.    *)
(***************************************************************************)

(***************************************************************************)
(* While a match is on both its slots are held, so the turn of the code,   *)
(* counted modulo the number of slots, alternates; and the move that is    *)
(* being written was legal on the board before it.                         *)
(***************************************************************************)
PlayersPresent ==
    /\ \A t \in Threads :
          /\ pc[t] \in {"release_keep", "release_close"} => game_over
          /\ pc[t] = "begin" /\ ~ game_started => count = 2
    /\ Playing => count = 2

MoveLegal ==
    mutex # NoThread =>
        IsMoveValid(BoardBeforeMove, move.coin_index, move.coin_pos)

RefinementInv ==
    /\ LobbyMatchInv
    /\ PlayersPresent
    /\ MoveLegal
-----------------------------------------------------------------------------
\* Writing the coin back where it came from undoes the first write.
LEMMA ClearThenPlace ==
    ASSUME NEW b \in Boards, NEW i \in Cells, b[i] = 1
    PROVE  PlaceCoin(ClearSource(b, i), i) = b
BY DEF Boards, PlaceCoin, ClearSource

LEMMA PlaceThenClear ==
    ASSUME NEW b \in Boards, NEW i \in Cells, b[i] = 0
    PROVE  ClearSource(PlaceCoin(b, i), i) = b
BY DEF Boards, PlaceCoin, ClearSource

\* The operators of the two modules are the same.
LEMMA SameRules ==
    /\ M!InitBoards = InitBoards
    /\ M!MoveFields = MoveFields
    /\ \A b : M!IsFinished(b) <=> IsFinished(b)
    /\ \A b, i, j : /\ M!IsMoveValid(b, i, j) <=> IsMoveValid(b, i, j)
                    /\ M!ApplyMove(b, i, j) = ApplyMove(b, i, j)
<1>1. M!Cells = Cells /\ M!Boards = Boards /\ M!MoveFields = MoveFields
  BY DEF M!Cells, Cells, M!Boards, Boards, M!MoveFields, MoveFields
<1>2. \A b : M!CoinsOf(b) = CoinsOf(b)
  BY <1>1, Zenon DEF M!CoinsOf, CoinsOf
<1>3. \A b : M!IsFinished(b) <=> IsFinished(b)
  BY <1>1, Zenon DEF M!IsFinished, IsFinished
<1>4. M!RandomBoards = RandomBoards
  BY <1>1, <1>2, Zenon
  DEF M!RandomBoards, RandomBoards, M!Cardinality, Cardinality
<1>5. M!FallbackBoard = FallbackBoard
  BY <1>1, Zenon DEF M!FallbackBoard, FallbackBoard
<1>6. M!InitBoards = InitBoards
  BY <1>3, <1>4, <1>5, Zenon DEF M!InitBoards, InitBoards
<1>7. \A b, i, j : M!ApplyMove(b, i, j) = ApplyMove(b, i, j)
  BY Zenon DEF M!ApplyMove, ApplyMove, M!PlaceCoin, PlaceCoin, M!ClearSource,
               ClearSource
<1>8. \A b, i : M!PrevCoin(b, i) = PrevCoin(b, i)
  BY <1>2, Zenon DEF M!PrevCoin, PrevCoin, M!Max, Max
<1>9. \A b, i, j : M!IsMoveValid(b, i, j) <=> IsMoveValid(b, i, j)
  BY <1>1, <1>8, Zenon DEF M!IsMoveValid, IsMoveValid
<1> QED
  BY <1>1, <1>3, <1>6, <1>7, <1>9
-----------------------------------------------------------------------------
LEMMA RefinementInit == Init => RefinementInv
<1> SUFFICES ASSUME Init PROVE RefinementInv
  OBVIOUS
<1>1. PlayersPresent /\ MoveLegal
  BY DEF Init, PlayersPresent, MoveLegal, Playing
<1> QED
  BY <1>1, LobbyMatchInit DEF RefinementInv

\* A slot is given up only when the match is over.
LEMMA PlayersPresentStep ==
    ASSUME Faults \cap {"wait", "start"} = {},
           RefinementInv, LobbyMatchInv', [Next]_vars
    PROVE  PlayersPresent'
<1> USE DEF RefinementInv, lobbyVars, threadVars
<1> DEFINE Releases(t) == pc[t] \in {"release_keep", "release_close"}
           Begins(t) == pc[t] = "begin" /\ ~ game_started
<1>0. pc \in [Threads -> Pcs] /\ count \in 0 .. 2 /\ game_over \in BOOLEAN
      /\ game_started \in BOOLEAN
  BY DEF LobbyMatchInv, LobbyInv, TypeOK
<1>1. ASSUME UNCHANGED <<count, game_started, game_over>>,
             \A t \in Threads : Releases(t)' => Releases(t) \/ game_over,
             \A t \in Threads : Begins(t)' => Begins(t) \/ count = 2
      PROVE  PlayersPresent'
  BY <1>1 DEF PlayersPresent, Playing
<1>2. ASSUME NEW t \in Threads, NEW from, NEW to, Exchange(t, from, to),
             to \in {"release_keep", "release_close"} => from = "reward",
             to # "begin"
      PROVE  PlayersPresent'
  <2>1. UNCHANGED <<count, game_started, game_over>>
    BY <1>2 DEF Exchange
  <2>2. pc[t] = "reward" => game_over
    BY DEF LobbyMatchInv, ResultInv
  <2>3. \A u \in Threads : /\ Releases(u)' => Releases(u) \/ game_over
                           /\ Begins(u)' => Begins(u)
    BY <1>0, <1>2, <2>1, <2>2 DEF Exchange, At, Goto
  <2> QED
    BY <1>1, <2>1, <2>3
<1>3. ASSUME NEW t \in Threads, TakeSlot(t)
      PROVE  PlayersPresent'
  <2>1. /\ ~ game_started /\ UNCHANGED <<game_started, game_over>>
        /\ count < 2 /\ pc' = [pc EXCEPT ![t] = "poll"]
    BY <1>3 DEF TakeSlot, ClaimSlot, Goto
  <2>2. \A u \in Threads : /\ Releases(u)' => Releases(u)
                           /\ Begins(u)' => Begins(u)
    BY <1>0, <2>1
  <2> QED
    BY <2>1, <2>2 DEF PlayersPresent, Playing
<1>4. ASSUME NEW t \in Threads, StartMatch(t)
      PROVE  PlayersPresent'
  <2>1. /\ ~ game_started /\ game_started' /\ count' = count
        /\ pc[t] = "begin" /\ pc' = [pc EXCEPT ![t] = "game_start"]
    BY <1>4 DEF StartMatch, SetUpMatch, At, Goto
  <2>2. count = 2
    BY <2>1 DEF PlayersPresent
  <2>3. \A u \in Threads : ~ Releases(u)
    BY <2>1 DEF PlayersPresent, LobbyMatchInv, LobbyInv, MatchFlags
  <2> QED
    BY <1>0, <2>1, <2>2, <2>3 DEF PlayersPresent, Playing
<1>5. ASSUME NEW t \in Threads, FinishMove(t)
      PROVE  PlayersPresent'
  <2>1. /\ UNCHANGED <<count, game_started>>
        /\ game_over => game_over'
        /\ \E to \in {"after_move", "after_last_move"} :
              pc' = [pc EXCEPT ![t] = to]
    BY <1>5 DEF FinishMove, Goto
  <2> QED
    BY <1>0, <2>1 DEF PlayersPresent, Playing
<1>6. ASSUME NEW t \in Threads, HandleDisconnectWin(t)
      PROVE  PlayersPresent'
  <2>1. game_started /\ UNCHANGED <<count, game_started>>
    BY <1>6
    DEF HandleDisconnectWin, At, LobbyMatchInv, LobbyInv, MatchFlags,
        SessionPcs
  <2>2. game_over'
    BY <1>6, <2>1 DEF HandleDisconnectWin
  <2> QED
    BY <1>0, <1>6, <2>1, <2>2 DEF PlayersPresent, Playing, HandleDisconnectWin, Goto
<1>7. ASSUME NEW t \in Threads, ReleaseSlot(t)
      PROVE  PlayersPresent'
  <2>1. game_over /\ game_started
    BY <1>7
    DEF ReleaseSlot, LobbyEmptied, At, PlayersPresent, LobbyMatchInv,
        LobbyInv, MatchFlags
  <2>2. CASE UNCHANGED <<game_started, game_over>>
    BY <2>1, <2>2 DEF PlayersPresent, Playing
  <2>3. CASE ~ game_started'
    <3>1. count' = 0
      BY <1>7, <2>1, <2>3 DEF ReleaseSlot, LobbyEmptied
    <3>2. ASSUME NEW u \in Threads PROVE ~ Releases(u)' /\ pc'[u] # "begin"
      <4>1. Holders' = {}
        <5>1. Cardinality(Holders') = 0
          BY <3>1 DEF LobbyMatchInv, LobbyInv, SlotAccounting
        <5>2. Holders' \in SUBSET Threads
          BY DEF Holders
        <5> QED
          BY <5>1, <5>2, FS_Subset, FS_EmptySet, ThreadsAssumption
      <4> QED
        BY <4>1 DEF LobbyMatchInv, LobbyInv, SlotAccounting, SlotPcs
    <3> QED
      BY <2>3, <3>2 DEF PlayersPresent, Playing
  <2> QED
    BY <1>7, <2>2, <2>3 DEF ReleaseSlot, LobbyEmptied
<1>8. ASSUME NEW t \in Threads, Progress(t)
      PROVE  PlayersPresent'
  <2> USE <1>1, <1>2 DEF At, Goto
  <2>1. CASE WaitForLobby(t) \/ WaitForTurn(t)
    BY <2>1 DEF WaitForLobby, WaitForTurn
  <2>2. CASE RejectThird(t) \/ Poll(t) \/ EnterMatch(t)
    BY <1>0, <2>2 DEF RejectThird, Poll, EnterMatch
  <2>3. CASE KeepAlive(t) \/ GameStart(t) \/ Prompt(t) \/ AfterMove(t)
                \/ AfterLastMove(t) \/ Reward(t)
    BY <2>3 DEF KeepAlive, GameStart, Prompt, AfterMove, AfterLastMove, Reward
  <2>4. CASE InitialState(t) \/ SeeGameOver(t) \/ TakeTurn(t) \/ ReadResult(t)
    BY <1>0, <2>4 DEF InitialState, SeeGameOver, TakeTurn, ReadResult
  <2>5. CASE \E coin_index, coin_pos \in MoveFields :
                LegalMove(t, coin_index, coin_pos)
    BY <1>0, <2>5 DEF LegalMove
  <2> QED
    BY <1>3, <1>4, <1>5, <1>6, <1>7, <1>8, <2>1, <2>2, <2>3, <2>4, <2>5
    DEF Progress
<1>9. ASSUME NEW t \in Threads, Environment(t)
      PROVE  PlayersPresent'
  <2>1. CASE Accept(t) \/ GameJoin(t) \/ HangUp(t) \/ LostInPlay(t)
                \/ LostAtEnd(t)
    BY <1>2, <2>1 DEF Accept, GameJoin, HangUp, LostInPlay, LostAtEnd
  <2>2. CASE SpuriousWakeup(t)
    BY <1>1, <2>2 DEF SpuriousWakeup
  <2>3. CASE \E coin_index, coin_pos \in MoveFields :
                IllegalMove(t, coin_index, coin_pos)
    BY <1>1, <2>3 DEF IllegalMove, vars
  <2> QED
    BY <1>9, <2>1, <2>2, <2>3
    DEF Environment, LostWhileWaiting, LostBeforeStart
<1>10. CASE UNCHANGED vars
  BY <1>1, <1>10 DEF vars
<1> QED
  BY <1>8, <1>9, <1>10 DEF Next

\* What a step does to the board, the move and the mutex, unless it is one
\* of the steps that play.
LEMMA QuietStep ==
    ASSUME NEW t \in Threads, Progress(t) \/ Environment(t),
           ~ StartMatch(t), ~ FinishMove(t), ~ HandleDisconnectWin(t),
           ~ ReleaseSlot(t),
           ~ \E coin_index, coin_pos \in MoveFields :
                LegalMove(t, coin_index, coin_pos)
    PROVE  UNCHANGED <<board, move, mutex, current_turn, winner_id,
                       game_started, game_over>>
<1> USE DEF lobbyVars, threadVars
<1>1. CASE Progress(t)
  BY <1>1
  DEF Progress, Exchange, WaitForLobby, RejectThird, TakeSlot, ClaimSlot,
      Poll, KeepAlive, EnterMatch, GameStart, InitialState, WaitForTurn,
      SeeGameOver, TakeTurn, Prompt, AfterMove, AfterLastMove, ReadResult,
      Reward
<1>2. CASE Environment(t)
  BY <1>2
  DEF Environment, Exchange, Accept, GameJoin, HangUp, IllegalMove, vars,
      LostWhileWaiting, LostBeforeStart, LostInPlay, LostAtEnd,
      SpuriousWakeup
<1> QED
  BY <1>1, <1>2

LEMMA LegalMoveKeepsBoard ==
    ASSUME LobbyInv, NEW t \in Threads,
           NEW coin_index \in MoveFields, NEW coin_pos \in MoveFields,
           LegalMove(t, coin_index, coin_pos)
    PROVE  /\ BoardBeforeMove = board /\ BoardBeforeMove' = board
           /\ move'.coin_index = coin_index /\ move'.coin_pos = coin_pos
           /\ IsMoveValid(board, coin_index, coin_pos)
<1>1. board \in Boards /\ coin_index \in Cells /\ board[coin_index] = 1
  BY DEF LobbyInv, TypeOK, LegalMove, IsMoveValid
<1>2. mutex = NoThread /\ mutex' # NoThread
  BY ThreadsAssumption DEF LegalMove, CanLock
<1> QED
  BY <1>1, <1>2, ClearThenPlace DEF BoardBeforeMove, LegalMove

LEMMA MoveLegalStep ==
    ASSUME LobbyInv, MoveLegal, [Next]_vars
    PROVE  MoveLegal'
<1>1. ASSUME UNCHANGED <<board, move, mutex>> PROVE MoveLegal'
  BY <1>1 DEF MoveLegal, BoardBeforeMove
<1>2. ASSUME mutex' = NoThread PROVE MoveLegal'
  BY <1>2 DEF MoveLegal
<1>3. ASSUME NEW t \in Threads, NEW coin_index \in MoveFields,
             NEW coin_pos \in MoveFields, LegalMove(t, coin_index, coin_pos)
      PROVE  MoveLegal'
  BY <1>3, LegalMoveKeepsBoard DEF MoveLegal
<1>4. ASSUME NEW t \in Threads, StartMatch(t) \/ FinishMove(t)
                \/ HandleDisconnectWin(t) \/ ReleaseSlot(t)
      PROVE  MoveLegal'
  BY <1>2, <1>4
  DEF StartMatch, SetUpMatch, FinishMove, HandleDisconnectWin, ReleaseSlot,
      LobbyEmptied, CanLock
<1>5. ASSUME NEW t \in Threads, Progress(t) \/ Environment(t)
      PROVE  MoveLegal'
  BY <1>1, <1>3, <1>4, <1>5, QuietStep
<1>6. CASE UNCHANGED vars
  BY <1>1, <1>6 DEF vars, lobbyVars
<1> QED
  BY <1>5, <1>6 DEF Next

THEOREM RefinementInvariant ==
    ASSUME Faults \cap {"wait", "start"} = {}
    PROVE  Spec => []RefinementInv
<1>1. RefinementInv /\ [Next]_vars /\ LobbyMatchInv' => RefinementInv'
  <2> SUFFICES ASSUME RefinementInv, [Next]_vars, LobbyMatchInv'
               PROVE  RefinementInv'
    OBVIOUS
  <2>1. MoveLegal'
    BY MoveLegalStep DEF RefinementInv, LobbyMatchInv
  <2> QED
    BY <2>1, PlayersPresentStep DEF RefinementInv
<1>2. Spec => []LobbyMatchInv
  BY LobbyMatchInvariant
<1> QED
  BY <1>1, <1>2, RefinementInit, PTL DEF Spec
-----------------------------------------------------------------------------
(***************************************************************************)
(* The simulation: a step of the lobby is a step of the abstract match, or *)
(* leaves it alone.                                                        *)
(***************************************************************************)
LEMMA FinishMoveSimulation ==
    ASSUME RefinementInv, NEW t \in Threads, FinishMove(t)
    PROVE  [M!Next]_(M!matchVars)
<1> USE DEF RefinementInv, LobbyMatchInv
<1>1. pc[t] = "apply" /\ mutex = t /\ mutex # NoThread
  BY ThreadsAssumption DEF FinishMove, At, LobbyInv, MutexInv
<1>2. mutex' = NoThread /\ game_started /\ game_started' = game_started
  BY <1>1 DEF FinishMove, LobbyInv, MatchFlags, SessionPcs
<1>3. CASE game_over
  <2>1. game_over' /\ winner_id' = winner_id
    BY <1>3, LateMove DEF FinishMove
  <2> QED
    BY <1>2, <1>3, <2>1 DEF M!matchVars, Playing
<1>4. CASE ~ game_over
  <2> DEFINE before == BoardBeforeMove
  <2>1. /\ move.coin_index \in Cells /\ move.coin_pos \in Cells
        /\ board \in Boards /\ board[move.coin_index] = 0
    BY <1>1 DEF LobbyInv, MutexInv, TypeOK
  <2>2. Playing /\ count = 2 /\ current_turn = my_id[t]
        /\ current_turn \in {0, 1}
    BY <1>1, <1>2, <1>4
    DEF Playing, PlayersPresent, TurnKept, LobbyInv, TypeOK, Ids
  <2>3. IsMoveValid(before, move.coin_index, move.coin_pos)
    BY <1>1 DEF MoveLegal
  <2>4. ApplyMove(before, move.coin_index, move.coin_pos) = board'
    BY <1>1, <2>1, PlaceThenClear DEF BoardBeforeMove, ApplyMove, FinishMove
  <2>5. BoardBeforeMove' = board'
    BY <1>2 DEF BoardBeforeMove
  <2>6. move.coin_index \in M!MoveFields /\ move.coin_pos \in M!MoveFields
    BY <2>1, SameRules, BoardAssumption DEF MoveFields, Cells
  <2>7. M!Move(move.coin_index, move.coin_pos)
    <3>1. CASE IsFinished(board')
      <4>1. game_over' /\ winner_id' = my_id[t]
        BY <3>1 DEF FinishMove
      <4>2. M!EndWith(current_turn)
        BY <1>2, <2>2, <4>1 DEF M!EndWith, Playing, M!NoBoard, NoBoard,
                              M!NoPlayer, NoId
      <4> QED
        BY <2>2, <2>3, <2>4, <3>1, <4>2, SameRules DEF M!Move
    <3>2. CASE ~ IsFinished(board')
      <4>1. /\ UNCHANGED <<game_over, winner_id>>
            /\ current_turn' = (current_turn + 1) % 2
        BY <2>2, <3>2 DEF FinishMove
      <4>2. current_turn' = M!Opponent(current_turn)
        BY <2>2, <4>1 DEF M!Opponent
      <4>3. Playing'
        BY <1>2, <1>4, <4>1 DEF Playing
      <4> QED
        BY <2>2, <2>3, <2>4, <2>5, <3>2, <4>1, <4>2, <4>3, SameRules DEF M!Move
    <3> QED
      BY <3>1, <3>2
  <2> QED
    BY <2>6, <2>7 DEF M!Next
<1> QED
  BY <1>3, <1>4

LEMMA StartMatchSimulation ==
    ASSUME RefinementInv, NEW t \in Threads, StartMatch(t)
    PROVE  [M!Next]_(M!matchVars)
<1> USE DEF RefinementInv, LobbyMatchInv
<1>1. /\ ~ Playing /\ ~ game_over /\ winner_id = NoId
  BY DEF StartMatch, SetUpMatch, LobbyInv, MatchFlags, Playing
<1>2. /\ Playing' /\ winner_id' = NoId /\ board' \in InitBoards
      /\ current_turn' \in {0, 1} /\ BoardBeforeMove' = board'
  <2>1. count \in {1, 2}
    BY HolderCounted DEF StartMatch, SetUpMatch, At, SlotPcs
  <2>2. current_turn' \in {0, 1}
    BY <2>1 DEF StartMatch, SetUpMatch
  <2> QED
    BY <2>2 DEF StartMatch, SetUpMatch, CanLock, Playing, BoardBeforeMove
<1>3. M!Start
  BY <1>1, <1>2, SameRules DEF M!Start, M!Players
<1> QED
  BY <1>3 DEF M!Next

LEMMA HandleDisconnectWinSimulation ==
    ASSUME RefinementInv, NEW t \in Threads, HandleDisconnectWin(t)
    PROVE  [M!Next]_(M!matchVars)
<1> USE DEF RefinementInv, LobbyMatchInv
<1>1. /\ game_started /\ my_id[t] \in {0, 1} /\ mutex' = mutex
      /\ board' = board /\ current_turn' = current_turn
      /\ game_started' = game_started /\ move' = move
  BY HolderCounted
  DEF HandleDisconnectWin, At, LobbyInv, MatchFlags, SlotPcs, SessionPcs, Ids
<1>2. CASE game_over
  <2>1. UNCHANGED <<game_over, winner_id>>
    BY <1>2 DEF HandleDisconnectWin
  <2> QED
    BY <1>1, <1>2, <2>1 DEF M!matchVars, Playing
<1>3. CASE ~ game_over
  <2>1. game_over' /\ winner_id' = (my_id[t] + 1) % 2
    BY <1>1, <1>3 DEF HandleDisconnectWin
  <2>2. winner_id' = M!Opponent(my_id[t])
    BY <1>1, <2>1 DEF M!Opponent
  <2>3. M!Forfeit(my_id[t])
    BY <1>1, <1>3, <2>1, <2>2
    DEF M!Forfeit, M!EndWith, Playing, M!NoBoard, NoBoard, M!NoPlayer, NoId
  <2> QED
    BY <1>1, <2>3 DEF M!Next, M!Players
<1> QED
  BY <1>2, <1>3

LEMMA ReleaseSlotSimulation ==
    ASSUME RefinementInv, NEW t \in Threads, ReleaseSlot(t)
    PROVE  [M!Next]_(M!matchVars)
<1> USE DEF RefinementInv, LobbyMatchInv
<1>1. game_over /\ ~ Playing
  BY DEF ReleaseSlot, LobbyEmptied, At, PlayersPresent, Playing
<1>2. CASE UNCHANGED <<game_started, game_over, winner_id>>
  BY <1>1, <1>2 DEF M!matchVars, Playing
<1>3. CASE /\ game_started' = FALSE /\ game_over' = FALSE
           /\ winner_id' = NoId
  <2>1. M!Reset
    BY <1>1, <1>3 DEF M!Reset, Playing, M!NoPlayer, NoId
  <2> QED
    BY <2>1 DEF M!Next
<1> QED
  BY <1>2, <1>3 DEF ReleaseSlot, LobbyEmptied

LEMMA StepSimulation ==
    ASSUME RefinementInv, [Next]_vars
    PROVE  [M!Next]_(M!matchVars)
<1> USE DEF RefinementInv, LobbyMatchInv
<1>1. ASSUME BoardBeforeMove' = BoardBeforeMove,
             UNCHANGED <<current_turn, winner_id, game_started, game_over>>
      PROVE  [M!Next]_(M!matchVars)
  BY <1>1 DEF M!matchVars, Playing
<1>2. ASSUME UNCHANGED <<board, move, mutex, current_turn, winner_id,
                         game_started, game_over>>
      PROVE  [M!Next]_(M!matchVars)
  BY <1>1, <1>2 DEF BoardBeforeMove
<1>3. ASSUME NEW t \in Threads, NEW coin_index \in MoveFields,
             NEW coin_pos \in MoveFields, LegalMove(t, coin_index, coin_pos)
      PROVE  [M!Next]_(M!matchVars)
  BY <1>1, <1>3, LegalMoveKeepsBoard DEF LegalMove
<1>4. ASSUME NEW t \in Threads, Progress(t) \/ Environment(t)
      PROVE  [M!Next]_(M!matchVars)
  BY <1>2, <1>3, <1>4, QuietStep, StartMatchSimulation, FinishMoveSimulation,
     HandleDisconnectWinSimulation, ReleaseSlotSimulation
<1>5. CASE UNCHANGED vars
  BY <1>2, <1>5 DEF vars, lobbyVars
<1> QED
  BY <1>4, <1>5 DEF Next

LEMMA InitSimulation == Init => M!Init
BY DEF Init, M!Init, Playing, M!NoBoard, NoBoard, M!NoPlayer, NoId

(***************************************************************************)
(* The server keeps the promise of the abstract match: alternating legal   *)
(* moves, one winner, the player without an opponent or the one who leaves *)
(* no move.                                                                *)
(***************************************************************************)
THEOREM LobbyImplementsMatch ==
    ASSUME Faults \cap {"wait", "start"} = {}
    PROVE  Spec => MatchSpec
<1>1. RefinementInv /\ [Next]_vars => [M!Next]_(M!matchVars)
  BY StepSimulation
<1>2. Spec => []RefinementInv
  BY RefinementInvariant
<1> QED
  BY <1>1, <1>2, InitSimulation, PTL DEF Spec, MatchSpec, M!Spec
-----------------------------------------------------------------------------
LEMMA BoardBeforeMoveIsBoard ==
    ASSUME RefinementInv
    PROVE  BoardBeforeMove \in Boards
<1>1. CASE mutex = NoThread
  BY <1>1 DEF RefinementInv, LobbyMatchInv, LobbyInv, TypeOK, BoardBeforeMove
<1>2. CASE mutex # NoThread
  <2>1. board \in Boards /\ move.coin_index \in Cells
    BY <1>2 DEF RefinementInv, LobbyMatchInv, LobbyInv, TypeOK, MutexInv
  <2> QED
    BY <1>2, <2>1 DEF BoardBeforeMove, PlaceCoin, Boards
<1> QED
  BY <1>1, <1>2

(***************************************************************************)
(* A match of the server does not go on for ever by moving: whatever the   *)
(* threads do in between, every step that changes the match and leaves it  *)
(* on is a move that leaves the coins less room than they had, and the     *)
(* room is a natural number.                                               *)
(***************************************************************************)
THEOREM LobbyMovesRunOut ==
    ASSUME Faults \cap {"wait", "start"} = {}
    PROVE  Spec => [][Playing /\ Playing' =>
                        /\ Room(BoardBeforeMove') < Room(BoardBeforeMove)
                        /\ Room(BoardBeforeMove') \in Nat]_(M!matchVars)
<1>1. RefinementInv /\ [Next]_vars =>
        [Playing /\ Playing' =>
           /\ Room(BoardBeforeMove') < Room(BoardBeforeMove)
           /\ Room(BoardBeforeMove') \in Nat]_(M!matchVars)
  <2> SUFFICES ASSUME RefinementInv, [Next]_vars, ~ UNCHANGED M!matchVars,
                      Playing, Playing'
               PROVE  /\ Room(BoardBeforeMove') < Room(BoardBeforeMove)
                      /\ Room(BoardBeforeMove') \in Nat
    OBVIOUS
  <2>1. M!Next
    BY StepSimulation
  <2>2. PICK from \in MoveFields, to \in MoveFields : M!Move(from, to)
    BY <2>1, SameRules DEF M!Next, M!Start, M!Forfeit, M!EndWith, M!Reset
  <2>3. /\ BoardBeforeMove' = ApplyMove(BoardBeforeMove, from, to)
        /\ IsMoveValid(BoardBeforeMove, from, to)
    BY <2>2, SameRules DEF M!Move, M!EndWith
  <2>4. Room(BoardBeforeMove') = Room(BoardBeforeMove) - (from - to)
    BY <2>3, BoardBeforeMoveIsBoard, MoveTakesRoom
  <2>5. from \in Int /\ to \in Int /\ to < from
    BY <2>3, BoardAssumption DEF IsMoveValid, Cells
  <2> QED
    BY <2>4, <2>5, RoomFinite
<1>2. Spec => []RefinementInv
  BY RefinementInvariant
<1> QED
  BY <1>1, <1>2, PTL DEF Spec
=============================================================================
