---------------------------- MODULE Lobby_proofs ----------------------------
(***************************************************************************)
(* What holds of the lobby for any number of threads, any board, and       *)
(* whatever connections are lost.                                          *)
(***************************************************************************)
EXTENDS Lobby, GameLogic_proofs

\* Who holds the mutex is in the middle of game_apply_move, and nobody else
\* is; both cells of the move are empty then.
MutexInv ==
    /\ \A t \in Threads : pc[t] = "apply" <=> mutex = t
    /\ mutex # NoThread =>
          /\ move \in [coin_index : Cells, coin_pos : Cells]
          /\ move.coin_pos < move.coin_index
          /\ board[move.coin_index] = 0
          /\ board[move.coin_pos] = 0

LobbyInv ==
    /\ TypeOK
    /\ SlotAccounting
    /\ MatchFlags
    /\ NoLostWakeup
    /\ MutexInv
    /\ CoinsKept
-----------------------------------------------------------------------------
LEMMA HoldersFinite ==
    IsFiniteSet(Holders) /\ Cardinality(Holders) \in Nat
<1>1. Holders \in SUBSET Threads
  BY DEF Holders
<1>2. IsFiniteSet(Holders)
  BY <1>1, FS_Subset, ThreadsAssumption
<1> QED
  BY <1>2, FS_CardinalityType

\* A thread that holds a slot is counted.
LEMMA HolderCounted ==
    ASSUME LobbyInv, NEW t \in Threads, pc[t] \in SlotPcs
    PROVE  t \in Holders /\ count \in {1, 2} /\ my_id[t] \in Ids
<1>1. t \in Holders
  BY DEF LobbyInv, SlotAccounting
<1>2. Cardinality(Holders) # 0
  BY <1>1, HoldersFinite, FS_EmptySet
<1> QED
  BY <1>1, <1>2 DEF LobbyInv, SlotAccounting, TypeOK, Holders

LEMMA LobbyInit == Init => LobbyInv
<1> SUFFICES ASSUME Init PROVE LobbyInv
  OBVIOUS
<1>1. TypeOK
  <2>1. board \in Boards
    BY InitBoardsPlayable DEF Init
  <2>2. /\ client_fds \in [Ids -> Threads \cup {NoThread}]
        /\ pc \in [Threads -> Pcs]
        /\ my_id \in [Threads -> Ids \cup {NoId}]
        /\ shown \in [Threads -> Boards \cup {NoBoard}]
        /\ outcome \in [Threads -> {"none", "win", "lose"}]
    BY DEF Init, Pcs
  <2>3. /\ count \in 0 .. 2 /\ current_turn \in Ids
        /\ winner_id \in Ids \cup {NoId}
    BY DEF Init, Ids
  <2>4. /\ mutex \in Threads \cup {NoThread} /\ waiting \subseteq Threads
        /\ game_started \in BOOLEAN /\ game_over \in BOOLEAN
    BY DEF Init
  <2>5. move \in [coin_index : Cells, coin_pos : Cells] \cup {NoMove}
    BY Zenon DEF Init
  <2> QED
    BY <2>1, <2>2, <2>3, <2>4, <2>5, Zenon DEF TypeOK
<1>2. SlotAccounting
  <2>1. Holders = {}
    BY DEF Init, Holders
  <2>2. \A t \in Threads : pc[t] \notin SlotPcs
    BY DEF Init, SlotPcs, SessionPcs
  <2> QED
    BY <2>1, <2>2, FS_EmptySet DEF Init, SlotAccounting
<1>3. MatchFlags
  BY DEF Init, MatchFlags, SessionPcs
<1>4. NoLostWakeup /\ MutexInv
  BY ThreadsAssumption DEF Init, NoLostWakeup, MutexInv
<1>5. CoinsKept
  BY InitBoardsPlayable DEF Init, CoinsKept
<1> QED
  BY <1>1, <1>2, <1>3, <1>4, <1>5 DEF LobbyInv
-----------------------------------------------------------------------------
(***************************************************************************)
(* A step of t from one point of the code to another that changes nothing  *)
(* but t's history keeps the invariant, provided that it neither takes nor *)
(* gives up a slot, enters no match that is not on, does not touch the     *)
(* mutex, and leaves no thread asleep where it does not wait.              *)
(***************************************************************************)
LEMMA FrameStep ==
    ASSUME LobbyInv, NEW t \in Threads, NEW from \in Pcs, NEW to \in Pcs,
           pc[t] = from, pc' = [pc EXCEPT ![t] = to],
           from \in SlotPcs <=> to \in SlotPcs,
           to \in SessionPcs => game_started,
           from # "apply", to # "apply",
           t \notin waiting,
           waiting' \subseteq waiting,
           UNCHANGED <<mutex, lobbyVars, my_id, move>>,
           shown' \in [Threads -> Boards \cup {NoBoard}],
           outcome' \in [Threads -> {"none", "win", "lose"}]
    PROVE  LobbyInv'
<1> USE DEF LobbyInv, lobbyVars
<1>1. TypeOK'
  BY DEF TypeOK
<1>2. SlotAccounting'
  <2>1. Holders' = Holders
    BY DEF Holders
  <2>2. \A u \in Threads : pc'[u] \in SlotPcs <=> pc[u] \in SlotPcs
    BY DEF TypeOK
  <2> QED
    BY <2>1, <2>2 DEF SlotAccounting
<1>3. MatchFlags'
  BY DEF TypeOK, MatchFlags
<1>4. NoLostWakeup'
  BY DEF TypeOK, NoLostWakeup, At
<1>5. MutexInv'
  BY DEF TypeOK, MutexInv
<1>6. CoinsKept'
  BY DEF CoinsKept
<1> QED
  BY <1>1, <1>2, <1>3, <1>4, <1>5, <1>6

\* An exchange with the client is such a step: a thread asleep is not in one.
LEMMA ExchangeStep ==
    ASSUME LobbyInv, NEW t \in Threads, NEW from \in Pcs, NEW to \in Pcs,
           Exchange(t, from, to),
           from \in SlotPcs <=> to \in SlotPcs,
           to \in SessionPcs => from \in SessionPcs,
           from \notin {"apply", "acquire", "turn"}, to # "apply"
    PROVE  LobbyInv'
<1>1. t \notin waiting
  BY DEF LobbyInv, NoLostWakeup, Exchange, At
<1>2. to \in SessionPcs => game_started
  BY DEF LobbyInv, MatchFlags, Exchange, At
<1>3. /\ shown' \in [Threads -> Boards \cup {NoBoard}]
      /\ outcome' \in [Threads -> {"none", "win", "lose"}]
  BY DEF LobbyInv, TypeOK, Exchange
<1> QED
  BY <1>1, <1>2, <1>3, FrameStep DEF Exchange, At, Goto

\* Going to sleep keeps the invariant where there is something to wait for.
LEMMA SleepStep ==
    ASSUME LobbyInv, NEW t \in Threads,
           \/ At(t, "acquire") /\ game_started
           \/ At(t, "turn") /\ current_turn # my_id[t] /\ ~ game_over,
           Sleep(t),
           UNCHANGED <<mutex, lobbyVars, threadVars, move>>
    PROVE  LobbyInv'
<1> USE DEF LobbyInv, lobbyVars, threadVars
<1>1. TypeOK' /\ SlotAccounting'
  BY DEF TypeOK, SlotAccounting, Holders, Sleep
<1>2. MatchFlags' /\ MutexInv' /\ CoinsKept'
  BY DEF MatchFlags, MutexInv, CoinsKept
<1>3. NoLostWakeup'
  BY DEF NoLostWakeup, Sleep, At
<1> QED
  BY <1>1, <1>2, <1>3

LEMMA SpuriousWakeupStep ==
    ASSUME LobbyInv, NEW t \in Threads, SpuriousWakeup(t)
    PROVE  LobbyInv'
<1> USE DEF LobbyInv, SpuriousWakeup, lobbyVars, threadVars
<1>1. TypeOK' /\ SlotAccounting'
  BY DEF TypeOK, SlotAccounting, Holders
<1>2. MatchFlags' /\ MutexInv' /\ CoinsKept'
  BY DEF MatchFlags, MutexInv, CoinsKept
<1>3. NoLostWakeup'
  BY DEF NoLostWakeup, At
<1> QED
  BY <1>1, <1>2, <1>3

LEMMA TakeSlotStep ==
    ASSUME LobbyInv, NEW t \in Threads, TakeSlot(t)
    PROVE  LobbyInv'
<1> USE DEF LobbyInv, TakeSlot, ClaimSlot, At, Goto, CanLock
<1>1. count \in {0, 1} /\ pc \in [Threads -> Pcs]
      /\ my_id \in [Threads -> Ids \cup {NoId}]
  BY DEF TypeOK
<1>2. t \notin Holders /\ Holders' = Holders \cup {t}
  <2>1. "acquire" \notin SlotPcs
    BY DEF SlotPcs, SessionPcs
  <2>2. t \notin Holders
    BY <2>1 DEF SlotAccounting
  <2>3. count # NoId
    BY <1>1 DEF NoId
  <2> QED
    BY <1>1, <2>2, <2>3 DEF Holders
<1>3. "poll" \in SlotPcs /\ "poll" \in Pcs /\ "poll" \notin SessionPcs
  BY DEF Pcs, SlotPcs, SessionPcs
<1>4. TypeOK'
  BY <1>1, <1>3 DEF TypeOK, Ids
<1>5. SlotAccounting'
  <2>1. Cardinality(Holders') = count + 1
    BY <1>2, HoldersFinite, FS_AddElement DEF SlotAccounting
  <2>2. \A u \in Threads : u \in Holders' <=> pc'[u] \in SlotPcs
    BY <1>1, <1>2, <1>3 DEF SlotAccounting
  <2> QED
    BY <2>1, <2>2 DEF SlotAccounting
<1>6. MatchFlags'
  BY <1>1, <1>3 DEF MatchFlags
<1>7. NoLostWakeup'
  BY <1>1 DEF NoLostWakeup
<1>8. MutexInv' /\ CoinsKept'
  BY <1>1 DEF MutexInv, CoinsKept
<1> QED
  BY <1>4, <1>5, <1>6, <1>7, <1>8

LEMMA StartMatchStep ==
    ASSUME LobbyInv, NEW t \in Threads, StartMatch(t)
    PROVE  LobbyInv'
<1> USE DEF LobbyInv, StartMatch, SetUpMatch, At, Goto, CanLock, Broadcast
<1>1. pc \in [Threads -> Pcs]
  BY DEF TypeOK
<1>2. count \in {1, 2}
  BY HolderCounted DEF SlotPcs
<1>3. {"begin", "game_start"} \subseteq SlotPcs /\ "game_start" \in Pcs
  BY DEF Pcs, SlotPcs, SessionPcs
<1>4. TypeOK'
  <2>1. current_turn' \in Ids /\ board' \in Boards
    BY <1>2, InitBoardsPlayable DEF Ids
  <2>2. outcome' \in [Threads -> {"none", "win", "lose"}]
    OBVIOUS
  <2>3. winner_id' \in Ids \cup {NoId}
    OBVIOUS
  <2> QED
    BY <1>1, <1>3, <2>1, <2>2, <2>3 DEF TypeOK
<1>5. SlotAccounting'
  <2>1. Holders' = Holders
    BY DEF Holders
  <2> QED
    BY <1>1, <1>3, <2>1 DEF SlotAccounting
<1>6. MatchFlags'
  BY DEF MatchFlags
<1>7. NoLostWakeup' /\ MutexInv'
  BY <1>1 DEF NoLostWakeup, MutexInv
<1>8. CoinsKept'
  BY InitBoardsPlayable DEF CoinsKept
<1> QED
  BY <1>4, <1>5, <1>6, <1>7, <1>8

\* Even a read in the middle of a move gives a board, if not all its coins.
LEMMA InitialStateStep ==
    ASSUME LobbyInv, NEW t \in Threads, InitialState(t)
    PROVE  LobbyInv'
<1>1. BoardsSeen \subseteq Boards
  <2>1. board \in Boards
    BY DEF LobbyInv, TypeOK
  <2>2. CASE mutex = NoThread
    BY <2>1, <2>2 DEF BoardsSeen
  <2>3. CASE mutex # NoThread
    <3>1. move.coin_index \in Cells /\ move.coin_pos \in Cells
      BY <2>3 DEF LobbyInv, MutexInv
    <3> QED
      BY <2>1, <2>3, <3>1 DEF BoardsSeen, Boards
  <2> QED
    BY <2>2, <2>3
<1>2. /\ shown' \in [Threads -> Boards \cup {NoBoard}]
      /\ outcome' \in [Threads -> {"none", "win", "lose"}]
  BY <1>1 DEF LobbyInv, TypeOK, InitialState
<1>3. t \notin waiting
  BY DEF LobbyInv, NoLostWakeup, InitialState, At
<1>4. {"initial_state", "turn"} \subseteq SessionPcs \cap SlotPcs \cap Pcs
  BY DEF Pcs, SlotPcs, SessionPcs
<1>5. game_started
  BY <1>4 DEF LobbyInv, MatchFlags, InitialState, At
<1> QED
  BY <1>2, <1>3, <1>4, <1>5, FrameStep DEF InitialState, At, Goto

LEMMA LegalMoveStep ==
    ASSUME LobbyInv, NEW t \in Threads,
           NEW coin_index \in MoveFields, NEW coin_pos \in MoveFields,
           LegalMove(t, coin_index, coin_pos)
    PROVE  LobbyInv'
<1> USE DEF LobbyInv, LegalMove, At, Goto, CanLock
<1>1. pc \in [Threads -> Pcs] /\ board \in Boards
  BY DEF TypeOK
<1>2. /\ coin_index \in Cells /\ coin_pos \in Cells
      /\ coin_pos < coin_index
      /\ board[coin_index] = 1 /\ board[coin_pos] = 0
  BY DEF IsMoveValid
<1>3. /\ board' \in Boards
      /\ board'[coin_index] = 0 /\ board'[coin_pos] = 0
  BY <1>1, <1>2 DEF ClearSource, Boards
<1>4. {"move", "apply"} \subseteq SlotPcs \cap SessionPcs /\ "apply" \in Pcs
  BY DEF Pcs, SlotPcs, SessionPcs
<1>5. t # NoThread
  BY ThreadsAssumption
<1>6. TypeOK'
  <2>1. move' \in [coin_index : Cells, coin_pos : Cells]
    BY <1>2
  <2> QED
    BY <1>1, <1>3, <1>4, <2>1 DEF TypeOK
<1>7. SlotAccounting'
  <2>1. Holders' = Holders
    BY DEF Holders
  <2> QED
    BY <1>1, <1>4, <2>1 DEF SlotAccounting
<1>8. MatchFlags'
  BY <1>1, <1>4 DEF MatchFlags
<1>9. NoLostWakeup'
  BY <1>1 DEF NoLostWakeup
<1>10. MutexInv'
  <2>1. \A u \in Threads : pc'[u] = "apply" <=> mutex' = u
    <3>1. \A u \in Threads : pc[u] # "apply"
      BY ThreadsAssumption DEF MutexInv
    <3> QED
      BY <1>1, <1>5, <3>1
  <2> QED
    BY <1>2, <1>3, <2>1 DEF MutexInv
<1>11. CoinsKept'
  BY <1>1, <1>2, <1>5, ClearSourceCoins DEF CoinsKept
<1> QED
  BY <1>6, <1>7, <1>8, <1>9, <1>10, <1>11

LEMMA FinishMoveStep ==
    ASSUME LobbyInv, NEW t \in Threads, FinishMove(t)
    PROVE  LobbyInv'
<1> USE DEF LobbyInv, At, Broadcast
<1>1. pc \in [Threads -> Pcs] /\ board \in Boards /\ pc[t] = "apply"
  BY DEF TypeOK, FinishMove
<1>2. mutex = t /\ t # NoThread
  BY <1>1, ThreadsAssumption DEF MutexInv
<1>3. move.coin_pos \in Cells /\ board[move.coin_pos] = 0
  BY <1>2 DEF MutexInv
<1>4. PICK to \in {"after_move", "after_last_move"} :
             pc' = [pc EXCEPT ![t] = to]
  BY DEF FinishMove, Goto
<1>5. {"apply", "after_move", "after_last_move"}
         \subseteq SlotPcs \cap SessionPcs \cap Pcs
  BY DEF Pcs, SlotPcs, SessionPcs
<1>6. t \in Holders /\ count \in {1, 2} /\ my_id[t] \in Ids
  BY <1>1, <1>5, HolderCounted
<1>7. board' \in Boards /\ Cardinality(CoinsOf(board')) = NumCoins
  <2>1. board' = PlaceCoin(board, move.coin_pos)
    BY DEF FinishMove
  <2>2. Cardinality(CoinsOf(board)) = NumCoins - 1
    BY <1>2 DEF CoinsKept
  <2> QED
    BY <1>1, <1>3, <2>1, <2>2, PlaceCoinCoins, BoardAssumption
<1>8. current_turn' \in Ids
  <2>1. current_turn \in {0, 1}
    BY DEF TypeOK, Ids
  <2>2. (current_turn + 1) % 1 = 0 /\ (current_turn + 1) % 2 \in {0, 1}
    BY <2>1
  <2> QED
    BY <1>6, <2>1, <2>2 DEF FinishMove, Ids
<1>9. /\ winner_id' \in Ids \cup {NoId} /\ game_over' \in BOOLEAN
      /\ game_over' <=> winner_id' # NoId
      /\ game_over' => game_started'
      /\ game_started' = game_started
  <2>1. my_id[t] # NoId
    BY <1>6 DEF Ids, NoId
  <2>2. game_started
    BY <1>1, <1>5 DEF MatchFlags
  <2> QED
    BY <1>6, <2>1, <2>2 DEF FinishMove, MatchFlags, TypeOK
<1>10. TypeOK'
  BY <1>1, <1>4, <1>5, <1>7, <1>8, <1>9 DEF TypeOK, FinishMove
<1>11. SlotAccounting'
  <2>1. Holders' = Holders
    BY DEF Holders, FinishMove
  <2> QED
    BY <1>1, <1>4, <1>5, <2>1 DEF SlotAccounting, FinishMove
<1>12. MatchFlags'
  BY <1>1, <1>4, <1>5, <1>9 DEF MatchFlags
<1>13. NoLostWakeup'
  BY DEF NoLostWakeup, FinishMove
<1>14. MutexInv'
  <2>1. \A u \in Threads : pc'[u] # "apply"
    BY <1>1, <1>2, <1>4 DEF MutexInv
  <2>2. mutex' = NoThread
    BY DEF FinishMove
  <2> QED
    BY <2>1, <2>2, ThreadsAssumption DEF MutexInv
<1>15. CoinsKept'
  BY <1>7 DEF CoinsKept, FinishMove
<1> QED
  BY <1>10, <1>11, <1>12, <1>13, <1>14, <1>15

LEMMA HandleDisconnectWinStep ==
    ASSUME LobbyInv, NEW t \in Threads, HandleDisconnectWin(t)
    PROVE  LobbyInv'
<1> USE DEF LobbyInv, HandleDisconnectWin, At, Goto, CanLock, Broadcast
<1>1. pc \in [Threads -> Pcs]
  BY DEF TypeOK
<1>2. {"forfeit", "release_close"} \subseteq SlotPcs \cap Pcs
      /\ "release_close" \notin SessionPcs
  BY DEF Pcs, SlotPcs, SessionPcs
<1>3. my_id[t] \in Ids
  BY <1>2, HolderCounted
<1>4. (my_id[t] + 1) % 2 \in Ids
  BY <1>3 DEF Ids
<1>5. winner_id' \in Ids \cup {NoId} /\ game_over' \in BOOLEAN
      /\ (game_over' <=> winner_id' # NoId)
      /\ (game_over' => game_started')
  <2>1. CASE game_started /\ ~ game_over
    <3>1. (my_id[t] + 1) % 2 # NoId
      BY <1>4 DEF Ids, NoId
    <3> QED
      BY <1>4, <2>1, <3>1
  <2>2. CASE ~ (game_started /\ ~ game_over)
    BY <2>2 DEF TypeOK, MatchFlags
  <2> QED
    BY <2>1, <2>2
<1>6. TypeOK'
  BY <1>1, <1>2, <1>5 DEF TypeOK
<1>7. SlotAccounting'
  <2>1. Holders' = Holders
    BY DEF Holders
  <2> QED
    BY <1>1, <1>2, <2>1 DEF SlotAccounting
<1>8. MatchFlags'
  BY <1>1, <1>2, <1>5 DEF MatchFlags
<1>9. NoLostWakeup'
  BY <1>1 DEF NoLostWakeup
<1>10. MutexInv' /\ CoinsKept'
  BY <1>1 DEF MutexInv, CoinsKept
<1> QED
  BY <1>6, <1>7, <1>8, <1>9, <1>10

LEMMA ReleaseSlotStep ==
    ASSUME LobbyInv, NEW t \in Threads, ReleaseSlot(t)
    PROVE  LobbyInv'
<1> USE DEF LobbyInv, At, Goto, CanLock, Broadcast
<1>1. /\ pc \in [Threads -> Pcs]
      /\ my_id \in [Threads -> Ids \cup {NoId}]
      /\ shown \in [Threads -> Boards \cup {NoBoard}]
  BY DEF TypeOK
<1>2. {"release_keep", "release_close"} \subseteq SlotPcs
      /\ {"wait_for_game_join", "closed"} \cap (SlotPcs \cup SessionPcs) = {}
      /\ {"wait_for_game_join", "closed"} \subseteq Pcs
  BY DEF Pcs, SlotPcs, SessionPcs
<1>3. t \in Holders /\ count \in {1, 2} /\ my_id[t] \in Ids
  BY <1>2, HolderCounted DEF ReleaseSlot, LobbyEmptied
<1>4. my_id[t] >= 0 /\ count > 0
  BY <1>3 DEF Ids
<1>5. PICK to \in {"wait_for_game_join", "closed"} :
             pc' = [pc EXCEPT ![t] = to]
  BY DEF ReleaseSlot, LobbyEmptied
<1>6. mutex = NoThread /\ mutex' = NoThread /\ t \notin waiting
      /\ pc[t] \in SlotPcs \ {"apply"}
  BY <1>2 DEF ReleaseSlot, LobbyEmptied
<1>7. Holders' = Holders \ {t}
  BY <1>1 DEF Holders, ReleaseSlot, LobbyEmptied, Ids, NoId
<1>8. count' = count - 1 /\ Cardinality(Holders') = count - 1
  <2>1. Cardinality(Holders') = count - 1
    BY <1>3, <1>7, HoldersFinite, FS_RemoveElement DEF SlotAccounting
  <2>2. count' = count - 1
    BY <1>3, <1>4 DEF ReleaseSlot, LobbyEmptied
  <2> QED
    BY <2>1, <2>2
<1>9. SlotAccounting'
  <2>1. \A u \in Threads : u \in Holders' <=> pc'[u] \in SlotPcs
    BY <1>1, <1>2, <1>5, <1>7 DEF SlotAccounting
  <2> QED
    BY <1>8, <2>1 DEF SlotAccounting
<1>10. CASE count = 1
  <2>1. /\ count' = 0 /\ game_started' = FALSE /\ game_over' = FALSE
        /\ winner_id' = NoId /\ current_turn' = 0 /\ board' \in InitBoards
        /\ waiting' = {}
    <3>1. (IF my_id[t] >= 0 /\ count > 0 THEN count - 1 ELSE count) = 0
      BY <1>4, <1>10
    <3> QED
      BY <3>1 DEF ReleaseSlot, LobbyEmptied
  <2>2. TypeOK'
    <3>1. client_fds' \in [Ids -> Threads \cup {NoThread}]
      BY <1>4 DEF ReleaseSlot, LobbyEmptied, TypeOK
    <3>2. my_id' \in [Threads -> Ids \cup {NoId}]
          /\ shown' \in [Threads -> Boards \cup {NoBoard}]
      BY <1>1 DEF ReleaseSlot, LobbyEmptied
    <3>3. pc' \in [Threads -> Pcs]
      BY <1>1, <1>2, <1>5
    <3> QED
      <4>1. board' \in Boards /\ current_turn' \in Ids
            /\ count' \in 0 .. 2
        BY <2>1, InitBoardsPlayable DEF Ids
      <4>2. /\ winner_id' \in Ids \cup {NoId} /\ waiting' \subseteq Threads
            /\ game_started' \in BOOLEAN /\ game_over' \in BOOLEAN
            /\ mutex' \in Threads \cup {NoThread}
        BY <1>6, <2>1
      <4>3. UNCHANGED <<outcome, move>>
        BY DEF ReleaseSlot, LobbyEmptied
      <4> QED
        BY <3>1, <3>2, <3>3, <4>1, <4>2, <4>3 DEF TypeOK
  <2>3. MatchFlags'
    <3>1. Holders' = {}
      <4>1. IsFiniteSet(Holders')
        BY <1>7, HoldersFinite, FS_RemoveElement
      <4>2. Cardinality(Holders') = 0
        BY <1>8, <1>10
      <4> QED
        BY <4>1, <4>2, FS_EmptySet
    <3>2. \A u \in Threads : pc'[u] \notin SessionPcs
      BY <1>9, <3>1 DEF SlotAccounting, SlotPcs
    <3> QED
      BY <2>1, <3>2 DEF MatchFlags
  <2>4. NoLostWakeup'
    BY <2>1 DEF NoLostWakeup
  <2>5. MutexInv'
    BY <1>1, <1>5, <1>6, ThreadsAssumption DEF MutexInv
  <2>6. CoinsKept'
    BY <1>6, <2>1, InitBoardsPlayable DEF CoinsKept
  <2> QED
    BY <1>9, <2>2, <2>3, <2>4, <2>5, <2>6
<1>11. CASE count = 2
  <2>1. UNCHANGED <<game_started, game_over, winner_id, current_turn, board,
                    waiting>>
    BY <1>4, <1>11 DEF ReleaseSlot, LobbyEmptied
  <2>2. TypeOK'
    <3>1. client_fds' \in [Ids -> Threads \cup {NoThread}]
      BY <1>4 DEF ReleaseSlot, LobbyEmptied, TypeOK
    <3>2. my_id' \in [Threads -> Ids \cup {NoId}]
          /\ shown' \in [Threads -> Boards \cup {NoBoard}]
      BY <1>1 DEF ReleaseSlot, LobbyEmptied
    <3>3. pc' \in [Threads -> Pcs]
      BY <1>1, <1>2, <1>5
    <3> QED
      BY <1>8, <1>11, <2>1, <3>1, <3>2, <3>3 DEF TypeOK, ReleaseSlot, LobbyEmptied
  <2>3. MatchFlags'
    BY <1>1, <1>2, <1>5, <2>1 DEF MatchFlags
  <2>4. NoLostWakeup'
    BY <1>1, <1>5, <1>6, <2>1 DEF NoLostWakeup, ReleaseSlot, LobbyEmptied
  <2>5. MutexInv'
    BY <1>1, <1>5, <1>6, ThreadsAssumption DEF MutexInv
  <2>6. CoinsKept'
    BY <1>6, <2>1 DEF CoinsKept
  <2> QED
    BY <1>9, <2>2, <2>3, <2>4, <2>5, <2>6
<1> QED
  BY <1>3, <1>10, <1>11

LEMMA LobbyStep == LobbyInv /\ [Next]_vars => LobbyInv'
<1> SUFFICES ASSUME LobbyInv, [Next]_vars
             PROVE  LobbyInv'
  OBVIOUS
<1>1. ASSUME NEW t \in Threads, Progress(t)
      PROVE  LobbyInv'
  <2> USE DEF SlotPcs, SessionPcs, Pcs
  <2>1. CASE WaitForLobby(t)
    BY <2>1, SleepStep DEF WaitForLobby
  <2>2. CASE RejectThird(t)
    BY <2>2, FrameStep DEF RejectThird, CanLock, At, Goto, LobbyInv, TypeOK
  <2>3. CASE TakeSlot(t)
    BY <2>3, TakeSlotStep
  <2>4. CASE Poll(t)
    BY <2>4, FrameStep DEF Poll, CanLock, At, Goto, LobbyInv, TypeOK
  <2>5. CASE KeepAlive(t)
    BY <2>5, ExchangeStep DEF KeepAlive
  <2>6. CASE StartMatch(t)
    BY <2>6, StartMatchStep
  <2>7. CASE EnterMatch(t)
    BY <2>7, FrameStep
    DEF EnterMatch, CanLock, At, Goto, Broadcast, LobbyInv, TypeOK
  <2>8. CASE GameStart(t)
    BY <2>8, ExchangeStep DEF GameStart
  <2>9. CASE InitialState(t)
    BY <2>9, InitialStateStep
  <2>10. CASE WaitForTurn(t)
    BY <2>10, SleepStep DEF WaitForTurn
  <2>11. CASE SeeGameOver(t)
    BY <2>11, FrameStep
    DEF SeeGameOver, CanLock, At, Goto, LobbyInv, TypeOK, MatchFlags
  <2>12. CASE TakeTurn(t)
    <3>1. game_started
      BY <2>12 DEF TakeTurn, At, LobbyInv, MatchFlags
    <3> QED
      BY <2>12, <3>1, FrameStep DEF TakeTurn, CanLock, At, Goto, LobbyInv, TypeOK
  <2>13. CASE Prompt(t)
    BY <2>13, ExchangeStep DEF Prompt
  <2>14. CASE \E coin_index, coin_pos \in MoveFields :
                 LegalMove(t, coin_index, coin_pos)
    BY <2>14, LegalMoveStep
  <2>15. CASE FinishMove(t)
    BY <2>15, FinishMoveStep
  <2>16. CASE AfterMove(t)
    BY <2>16, ExchangeStep DEF AfterMove
  <2>17. CASE AfterLastMove(t)
    BY <2>17, ExchangeStep DEF AfterLastMove
  <2>18. CASE HandleDisconnectWin(t)
    BY <2>18, HandleDisconnectWinStep
  <2>19. CASE ReadResult(t)
    <3>1. game_started
      BY <2>19 DEF ReadResult, At, LobbyInv, MatchFlags
    <3> QED
      BY <2>19, <3>1, FrameStep
      DEF ReadResult, CanLock, At, Goto, LobbyInv, TypeOK
  <2>20. CASE Reward(t)
    BY <2>20, ExchangeStep DEF Reward
  <2>21. CASE ReleaseSlot(t)
    BY <2>21, ReleaseSlotStep
  <2> QED
    BY <1>1, <2>1, <2>2, <2>3, <2>4, <2>5, <2>6, <2>7, <2>8, <2>9, <2>10,
       <2>11, <2>12, <2>13, <2>14, <2>15, <2>16, <2>17, <2>18, <2>19, <2>20,
       <2>21
    DEF Progress
<1>2. ASSUME NEW t \in Threads, Environment(t)
      PROVE  LobbyInv'
  <2> USE DEF SlotPcs, SessionPcs, Pcs
  <2>1. CASE Accept(t) \/ GameJoin(t) \/ HangUp(t)
    BY <2>1, ExchangeStep DEF Accept, GameJoin, HangUp
  <2>2. CASE LostWhileWaiting(t) \/ LostBeforeStart(t) \/ LostAtEnd(t)
    BY <2>2, ExchangeStep DEF LostWhileWaiting, LostBeforeStart, LostAtEnd
  <2>3. CASE LostInPlay(t)
    BY <2>3, ExchangeStep DEF LostInPlay
  <2>4. CASE SpuriousWakeup(t)
    BY <2>4, SpuriousWakeupStep
  <2>5. ASSUME NEW coin_index \in MoveFields, NEW coin_pos \in MoveFields,
               IllegalMove(t, coin_index, coin_pos)
        PROVE  LobbyInv'
    BY <2>5 DEF IllegalMove, vars, lobbyVars, threadVars, LobbyInv, TypeOK,
                SlotAccounting, MatchFlags, NoLostWakeup, MutexInv, CoinsKept,
                Holders, At
  <2> QED
    BY <1>2, <2>1, <2>2, <2>3, <2>4, <2>5 DEF Environment
<1>3. CASE UNCHANGED vars
  BY <1>3 DEF vars, lobbyVars, threadVars, LobbyInv, TypeOK,
              SlotAccounting, MatchFlags, NoLostWakeup, MutexInv, CoinsKept,
              Holders, At
<1> QED
  BY <1>1, <1>2, <1>3 DEF Next

THEOREM LobbyInvariant == Spec => []LobbyInv
BY LobbyInit, LobbyStep, PTL DEF Spec

\* The parts of the invariant, each for every value of the constants.
THEOREM LobbyTyped == Spec => []TypeOK
BY LobbyInvariant, PTL DEF LobbyInv

(***************************************************************************)
(* The count of the lobby is the number of slots held: no path through     *)
(* play_single_match leaks a slot or releases one twice, and the modulus   *)
(* of random() % lobby->count and of the change of turns is not zero.      *)
(***************************************************************************)
THEOREM LobbySlotAccounting == Spec => []SlotAccounting
BY LobbyInvariant, PTL DEF LobbyInv

(***************************************************************************)
(* No match is reset while a thread is in it, and the flags of the lobby   *)
(* agree.                                                                  *)
(***************************************************************************)
THEOREM LobbyMatchFlags == Spec => []MatchFlags
BY LobbyInvariant, PTL DEF LobbyInv

(***************************************************************************)
(* No thread sleeps on the condition variable while what it waits for is   *)
(* already so.                                                             *)
(***************************************************************************)
THEOREM LobbyNoLostWakeup == Spec => []NoLostWakeup
BY LobbyInvariant, PTL DEF LobbyInv

(***************************************************************************)
(* Coins are neither lost nor made, whoever moves and however often.       *)
(***************************************************************************)
THEOREM LobbyCoinsKept == Spec => []CoinsKept
BY LobbyInvariant, PTL DEF LobbyInv
=============================================================================
