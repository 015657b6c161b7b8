-------------------------- MODULE GameLogic_proofs --------------------------
(***************************************************************************)
(* What the rules of the coin game guarantee, for a board of any size and  *)
(* any number of coins.                                                    *)
(***************************************************************************)
EXTENDS GameLogic, FiniteSetTheorems, WellFoundedInduction, TLAPS

\* A finite scan to the left stops at a nearest element: a nonempty set of
\* numbers under a bound has a greatest element.
LEMMA GreatestExists ==
    ASSUME NEW S \in SUBSET Int, NEW b \in Int, NEW lo \in Int, S # {},
           \A x \in S : lo <= x /\ x <= b
    PROVE  \E m \in S : \A x \in S : m >= x
<1> DEFINE D == {b - x : x \in S}
<1>1. D \subseteq Nat /\ D # {}
  <2>1. \A x \in S : b - x \in Nat
    OBVIOUS
  <2>2. D # {}
    <3>1. PICK x \in S : TRUE
      OBVIOUS
    <3>2. b - x \in D
      OBVIOUS
    <3> QED
      BY <3>2
  <2> QED
    BY <2>1, <2>2
<1>2. PICK d \in D : \A y \in D : ~ <<y, d>> \in OpToRel(<, Nat)
  BY ONLY <1>1, WFMin, NatLessThanWellFounded, Zenon
<1>3. \A y \in D : ~ y < d
  BY <1>1, <1>2 DEF OpToRel
<1>4. PICK m \in S : d = b - m
  OBVIOUS
<1>5. \A x \in S : m >= x
  <2> TAKE x \in S
  <2>1. b - x \in D
    OBVIOUS
  <2>2. ~ (b - x < b - m)
    BY <1>3, <1>4, <2>1
  <2> QED
    BY <2>2
<1> QED
  BY <1>5

LEMMA LeastExists ==
    ASSUME NEW S \in SUBSET Nat, S # {}
    PROVE  \E m \in S : \A x \in S : m <= x
<1>1. PICK m \in S : \A y \in S : ~ <<y, m>> \in OpToRel(<, Nat)
  BY ONLY S # {}, S \in SUBSET Nat, WFMin, NatLessThanWellFounded, Zenon
<1>2. \A y \in S : ~ y < m
  BY <1>1 DEF OpToRel
<1> QED
  BY <1>2

LEMMA PrevCoinIsNearest ==
    ASSUME NEW board \in Boards, NEW coin_index \in Cells
    PROVE  LET prev == PrevCoin(board, coin_index)
           IN  /\ prev \in {-1} \cup Cells
               /\ prev >= 0 => prev < coin_index /\ board[prev] = 1
               /\ \A i \in Cells : i < coin_index /\ board[i] = 1 => i <= prev
<1> DEFINE S == {-1} \cup {i \in CoinsOf(board) : i < coin_index}
<1>1. S \in SUBSET Int /\ S # {} /\ \A x \in S : -1 <= x /\ x <= NumCells
  BY BoardAssumption DEF Cells, CoinsOf
<1>2. \E m \in S : \A x \in S : m >= x
  <2>1. NumCells \in Int /\ -1 \in Int
    BY BoardAssumption
  <2> HIDE DEF S
  <2> QED
    BY ONLY <1>1, <2>1, GreatestExists, Zenon
<1>3. PrevCoin(board, coin_index) = CHOOSE m \in S : \A x \in S : m >= x
  BY DEF PrevCoin, Max
<1>4. PrevCoin(board, coin_index) \in S
      /\ \A x \in S : PrevCoin(board, coin_index) >= x
  BY <1>2, <1>3, Zenon
<1> QED
  BY <1>4, BoardAssumption DEF Cells, CoinsOf
-----------------------------------------------------------------------------
(***************************************************************************)
(* game_is_move_valid allows exactly the slides to the left: from a coin,  *)
(* over empty cells only, to an empty cell.                                *)
(***************************************************************************)
THEOREM MoveRule ==
    ASSUME NEW board \in Boards, NEW from, NEW to \in Int
    PROVE  IsMoveValid(board, from, to) <=>
              /\ from \in Cells /\ to \in Cells /\ to < from
              /\ board[from] = 1
              /\ \A i \in to .. from - 1 : board[i] = 0
<1>1. SUFFICES ASSUME from \in Cells, to \in Cells, to < from,
                      board[from] = 1
               PROVE  IsMoveValid(board, from, to) <=>
                         \A i \in to .. from - 1 : board[i] = 0
  BY DEF IsMoveValid
<1> DEFINE prev == PrevCoin(board, from)
<1>2. /\ prev \in {-1} \cup Cells
      /\ prev >= 0 => prev < from /\ board[prev] = 1
      /\ \A i \in Cells : i < from /\ board[i] = 1 => i <= prev
  BY <1>1, PrevCoinIsNearest
<1>3. to .. from - 1 \subseteq Cells
  BY <1>1, BoardAssumption DEF Cells
<1>4. \A i \in Cells : board[i] \in {0, 1}
  BY DEF Boards
<1> HIDE DEF prev
<1>5. ASSUME IsMoveValid(board, from, to), NEW i \in to .. from - 1
      PROVE  board[i] = 0
  <2>1. prev < to
    BY <1>1, <1>2, <1>5, BoardAssumption DEF IsMoveValid, prev, Cells
  <2> QED
    BY <1>1, <1>2, <1>3, <1>4, <2>1, BoardAssumption DEF Cells
<1>6. ASSUME \A i \in to .. from - 1 : board[i] = 0
      PROVE  IsMoveValid(board, from, to)
  <2>1. board[to] = 0
    BY <1>1, <1>6, BoardAssumption DEF Cells
  <2>2. prev < 0 \/ to > prev
    BY <1>1, <1>2, <1>6, BoardAssumption DEF Cells
  <2> QED
    BY <1>1, <2>1, <2>2 DEF IsMoveValid, prev
<1> QED
  BY <1>5, <1>6

(***************************************************************************)
(* The rule that the client checks before it sends a move is the rule by   *)
(* which the server judges it.                                             *)
(***************************************************************************)
THEOREM ClientRule ==
    ASSUME NEW board \in Boards, NEW from \in Int, NEW to \in Int
    PROVE  ClientMoveIsValid(board, from, to) <=> IsMoveValid(board, from, to)
<1>1. {i \in Cells : i < from /\ board[i] # 0}
        = {i \in CoinsOf(board) : i < from}
  BY DEF Boards, CoinsOf
<1>2. ASSUME from \in Cells, to \in Cells
      PROVE  ClientMoveIsValid(board, from, to)
                <=> IsMoveValid(board, from, to)
  <2>1. board[from] \in {0, 1} /\ board[to] \in {0, 1}
    BY <1>2 DEF Boards
  <2>2. PrevCoin(board, from) \in {-1} \cup Cells
    BY <1>2, PrevCoinIsNearest
  <2>3. PrevCoin(board, from) \in Int
    BY <2>2, BoardAssumption DEF Cells
  <2>4. ClientMoveIsValid(board, from, to) <=>
           /\ board[from] # 0 /\ board[to] = 0
           /\ ~ to >= from
           /\ ~ (PrevCoin(board, from) >= 0 /\ to <= PrevCoin(board, from))
    BY <1>1, <1>2, Zenon DEF ClientMoveIsValid, PrevCoin
  <2> QED
    BY <1>2, <2>1, <2>3, <2>4 DEF IsMoveValid
<1>3. ASSUME ~ (from \in Cells /\ to \in Cells)
      PROVE  ClientMoveIsValid(board, from, to)
                <=> IsMoveValid(board, from, to)
  <2>1. ~ {from, to} \subseteq Cells
    BY <1>3
  <2> QED
    BY <1>3, <2>1, Zenon DEF ClientMoveIsValid, IsMoveValid
<1> QED
  BY <1>2, <1>3

(***************************************************************************)
(* game_is_finished says that no move is legal, and only then: a match is  *)
(* never cut short, and never left without a move.                         *)
(***************************************************************************)
THEOREM FinishedIffStuck ==
    ASSUME NEW board \in Boards
    PROVE  IsFinished(board) <=>
              \A from, to \in Cells : ~ IsMoveValid(board, from, to)
<1>1. ASSUME NEW from \in Cells, NEW to \in Cells, IsMoveValid(board, from, to)
      PROVE  ~ IsFinished(board)
  BY <1>1 DEF IsMoveValid, IsFinished
<1>2. ASSUME ~ IsFinished(board)
      PROVE  \E from, to \in Cells : IsMoveValid(board, from, to)
  <2>1. PICK empty \in Cells, coin \in Cells :
               board[empty] = 0 /\ board[coin] = 1 /\ empty < coin
    BY <1>2, Zenon DEF IsFinished
  <2> DEFINE S == {i \in Cells : empty < i /\ board[i] = 1}
  <2>2. S \in SUBSET Nat /\ S # {}
    BY <2>1, BoardAssumption DEF Cells
  <2>3. PICK first \in S : \A i \in S : first <= i
    <3> HIDE DEF S
    <3> QED
      BY ONLY <2>2, LeastExists, Zenon
  <2>4. first \in Cells /\ empty < first /\ board[first] = 1
    BY <2>3
  <2>5. \A i \in empty .. first - 1 : board[i] = 0
    <3> TAKE i \in empty .. first - 1
    <3>1. i \in Cells /\ empty <= i /\ i < first
      BY <2>4, BoardAssumption DEF Cells
    <3>2. CASE i = empty
      BY <2>1, <3>2
    <3>3. CASE i # empty
      <4>1. empty < i
        BY <3>1, <3>3, BoardAssumption DEF Cells
      <4>2. i \notin S
        BY <2>3, <3>1, <4>1, BoardAssumption DEF Cells
      <4> QED
        BY <3>1, <4>1, <4>2 DEF Boards
    <3> QED
      BY <3>2, <3>3
  <2>6. empty \in Int
    BY BoardAssumption DEF Cells
  <2>7. IsMoveValid(board, first, empty)
    BY <2>1, <2>4, <2>5, <2>6, MoveRule
  <2> QED
    BY <2>4, <2>7
<1> QED
  BY <1>1, <1>2
-----------------------------------------------------------------------------
LEMMA CoinsFinite ==
    ASSUME NEW board
    PROVE  /\ IsFiniteSet(CoinsOf(board))
           /\ Cardinality(CoinsOf(board)) \in Nat
<1>1. IsFiniteSet(Cells)
  BY FS_Interval, BoardAssumption DEF Cells
<1>2. CoinsOf(board) \in SUBSET Cells
  BY DEF CoinsOf
<1>3. IsFiniteSet(CoinsOf(board))
  BY <1>1, <1>2, FS_Subset
<1> QED
  BY <1>3, FS_CardinalityType

\* Each of the two writes of game_apply_move gives a board, with one coin
\* less and with one coin more.
LEMMA ClearSourceCoins ==
    ASSUME NEW board \in Boards, NEW i \in Cells, board[i] = 1
    PROVE  /\ ClearSource(board, i) \in Boards
           /\ Cardinality(CoinsOf(ClearSource(board, i)))
                = Cardinality(CoinsOf(board)) - 1
<1>1. ClearSource(board, i) \in Boards
  BY DEF Boards, ClearSource
<1>2. CoinsOf(ClearSource(board, i)) = CoinsOf(board) \ {i}
  BY DEF Boards, ClearSource, CoinsOf
<1>3. i \in CoinsOf(board)
  BY DEF CoinsOf
<1>4. Cardinality(CoinsOf(board) \ {i}) = Cardinality(CoinsOf(board)) - 1
  BY ONLY <1>3, CoinsFinite, FS_RemoveElement
<1> QED
  BY <1>1, <1>2, <1>4, Zenon

LEMMA PlaceCoinCoins ==
    ASSUME NEW board \in Boards, NEW i \in Cells, board[i] = 0
    PROVE  /\ PlaceCoin(board, i) \in Boards
           /\ Cardinality(CoinsOf(PlaceCoin(board, i)))
                = Cardinality(CoinsOf(board)) + 1
<1>1. PlaceCoin(board, i) \in Boards
  BY DEF Boards, PlaceCoin
<1>2. CoinsOf(PlaceCoin(board, i)) = CoinsOf(board) \cup {i}
  BY DEF Boards, PlaceCoin, CoinsOf
<1>3. i \notin CoinsOf(board)
  BY DEF CoinsOf
<1>4. Cardinality(CoinsOf(board) \cup {i}) = Cardinality(CoinsOf(board)) + 1
  BY ONLY <1>3, CoinsFinite, FS_AddElement
<1> QED
  BY <1>1, <1>2, <1>4, Zenon

\* A legal move gives a board with as many coins.
LEMMA ApplyMoveCoins ==
    ASSUME NEW board \in Boards, NEW from, NEW to,
           IsMoveValid(board, from, to)
    PROVE  /\ ApplyMove(board, from, to) \in Boards
           /\ Cardinality(CoinsOf(ApplyMove(board, from, to)))
                = Cardinality(CoinsOf(board))
<1>1. /\ from \in Cells /\ to \in Cells /\ from # to
      /\ board[from] = 1 /\ board[to] = 0
  BY BoardAssumption DEF IsMoveValid, Cells
<1> DEFINE cleared == ClearSource(board, from)
<1>2. cleared \in Boards /\ cleared[to] = 0
  BY <1>1, ClearSourceCoins DEF ClearSource, Boards
<1>3. Cardinality(CoinsOf(cleared)) = Cardinality(CoinsOf(board)) - 1
  BY <1>1, ClearSourceCoins
<1> HIDE DEF cleared
<1>4. /\ PlaceCoin(cleared, to) \in Boards
      /\ Cardinality(CoinsOf(PlaceCoin(cleared, to)))
            = Cardinality(CoinsOf(cleared)) + 1
  BY <1>1, <1>2, PlaceCoinCoins
<1>5. Cardinality(CoinsOf(board)) \in Nat
  BY CoinsFinite
<1> QED
  BY <1>3, <1>4, <1>5 DEF ApplyMove, cleared

(***************************************************************************)
(* How much room the coins have below them: the sum of their positions.  A *)
(* legal move takes exactly the distance it goes, so that there is an end  *)
(* to the legal moves from any board.                                      *)
(***************************************************************************)
Below(board) ==
    {cells \in Cells \X Cells : board[cells[1]] = 1 /\ cells[2] < cells[1]}
Room(board) == Cardinality(Below(board))

LEMMA RoomOfOne ==
    ASSUME NEW i \in Cells
    PROVE  /\ IsFiniteSet({i} \X (0 .. i - 1))
           /\ Cardinality({i} \X (0 .. i - 1)) = i
<1>1. IsFiniteSet({i}) /\ Cardinality({i}) = 1
  BY FS_Singleton
<1>2. i \in Nat
  BY BoardAssumption DEF Cells
<1>3. IsFiniteSet(0 .. i - 1) /\ Cardinality(0 .. i - 1) = i
  <2>1. 0 \in Int /\ i - 1 \in Int
    BY <1>2
  <2>2. /\ IsFiniteSet(0 .. i - 1)
        /\ Cardinality(0 .. i - 1) = IF 0 > i - 1 THEN 0 ELSE (i - 1) - 0 + 1
    BY ONLY <2>1, FS_Interval
  <2> QED
    BY <1>2, <2>2
<1>4. /\ IsFiniteSet({i} \X (0 .. i - 1))
      /\ Cardinality({i} \X (0 .. i - 1))
           = Cardinality({i}) * Cardinality(0 .. i - 1)
  BY ONLY <1>1, <1>3, FS_Product
<1> QED
  BY <1>1, <1>2, <1>3, <1>4

LEMMA RoomFinite ==
    ASSUME NEW board
    PROVE  IsFiniteSet(Below(board)) /\ Room(board) \in Nat
<1>1. IsFiniteSet(Cells)
  BY FS_Interval, BoardAssumption DEF Cells
<1>2. IsFiniteSet(Cells \X Cells)
  BY <1>1, FS_Product
<1>3. Below(board) \in SUBSET (Cells \X Cells)
  BY DEF Below
<1>4. IsFiniteSet(Below(board))
  BY <1>2, <1>3, FS_Subset
<1> QED
  BY <1>4, FS_CardinalityType DEF Room

THEOREM MoveTakesRoom ==
    ASSUME NEW board \in Boards, NEW from, NEW to,
           IsMoveValid(board, from, to)
    PROVE  Room(ApplyMove(board, from, to)) = Room(board) - (from - to)
<1> DEFINE moved == ApplyMove(board, from, to)
           old == {from} \X (0 .. from - 1)
           new == {to} \X (0 .. to - 1)
           kept == Below(board) \ old
<1>1. /\ from \in Cells /\ to \in Cells /\ to < from
      /\ board[from] = 1 /\ board[to] = 0
  BY DEF IsMoveValid
<1>2. /\ moved \in Boards /\ moved[from] = 0 /\ moved[to] = 1
      /\ \A i \in Cells \ {from, to} : moved[i] = board[i]
  BY <1>1, BoardAssumption DEF ApplyMove, PlaceCoin, ClearSource, Boards, Cells
<1>3. old \subseteq Below(board) /\ new \subseteq Cells \X Cells
  BY <1>1, BoardAssumption DEF Below, Cells
<1>4. \A c, p : <<c, p>> \in Below(board) <=>
                  c \in Cells /\ p \in Cells /\ board[c] = 1 /\ p < c
  BY DEF Below
<1>5. \A c, p : <<c, p>> \in Below(moved) <=>
                  c \in Cells /\ p \in Cells /\ moved[c] = 1 /\ p < c
  BY DEF Below
<1>6. Below(moved) = kept \cup new
  <2> HIDE DEF moved
  <2>1. ASSUME NEW c, NEW p
        PROVE  <<c, p>> \in Below(moved) <=> <<c, p>> \in kept \cup new
    <3>1. <<c, p>> \in kept <=>
             <<c, p>> \in Below(board) /\ ~ (c = from /\ p \in 0 .. from - 1)
      OBVIOUS
    <3>2. <<c, p>> \in new <=> c = to /\ p \in 0 .. to - 1
      OBVIOUS
    <3>3. \A i \in Cells : p \in 0 .. i - 1 <=> p \in Cells /\ p < i
      BY BoardAssumption DEF Cells
    <3>4. from # to
      BY <1>1, BoardAssumption DEF Cells
    <3> HIDE DEF kept, new
    <3>5. CASE c = from
      BY <1>1, <1>2, <1>4, <1>5, <3>1, <3>2, <3>3, <3>4, <3>5
    <3>6. CASE c = to
      BY <1>1, <1>2, <1>4, <1>5, <3>1, <3>2, <3>3, <3>4, <3>6
    <3>7. CASE c \notin {from, to}
      BY <1>2, <1>4, <1>5, <3>1, <3>2, <3>7
    <3> QED
      BY <3>5, <3>6, <3>7
  <2>2. /\ \A x \in Below(moved) : x = <<x[1], x[2]>>
        /\ \A x \in kept \cup new : x = <<x[1], x[2]>>
    BY DEF Below
  <2> HIDE DEF kept, new
  <2> QED
    BY <2>1, <2>2
<1>7. kept \cap new = {}
  BY <1>1 DEF Below
<1>8. /\ IsFiniteSet(kept)
      /\ Cardinality(kept) = Room(board) - from
  <2>1. Below(board) \cap old = old
    BY <1>3
  <2>2. /\ IsFiniteSet(kept)
        /\ Cardinality(kept) = Cardinality(Below(board))
                                 - Cardinality(Below(board) \cap old)
    BY RoomFinite, FS_Difference
  <2> QED
    BY <1>1, <2>1, <2>2, RoomOfOne DEF Room
<1>9. IsFiniteSet(new) /\ Cardinality(new) = to
  BY <1>1, RoomOfOne
<1>10. Cardinality(kept \cup new)
         = Cardinality(kept) + Cardinality(new) - Cardinality(kept \cap new)
  <2> HIDE DEF kept, new
  <2> QED
    BY ONLY <1>8, <1>9, FS_Union
<1>11. Cardinality(kept \cap new) = 0
  BY <1>7, FS_EmptySet
<1>12. Room(board) \in Int /\ from \in Int /\ to \in Int
  BY <1>1, RoomFinite, BoardAssumption DEF Cells
<1> HIDE DEF kept, new, moved
<1> QED
  BY <1>6, <1>8, <1>9, <1>10, <1>11, <1>12 DEF Room, moved

\* The fallback board is a board of the game, and has a move left.
LEMMA FallbackBoardPlayable ==
    FallbackBoard \in RandomBoards /\ ~ IsFinished(FallbackBoard)
<1> DEFINE f == [k \in 1 .. NumCoins |-> 2 * k]
<1>1. FallbackBoard \in Boards
  BY DEF FallbackBoard, Boards
<1>2. \A k \in 1 .. NumCoins : 2 * k \in Cells /\ FallbackBoard[2 * k] = 1
  <2> TAKE k \in 1 .. NumCoins
  <2>1. 2 * k \in Cells
    BY BoardAssumption DEF Cells
  <2> QED
    BY <2>1 DEF FallbackBoard
<1>3. \A i \in Cells :
         FallbackBoard[i] = 1 => \E k \in 1 .. NumCoins : i = 2 * k
  BY DEF FallbackBoard
<1>4. f \in Bijection(1 .. NumCoins, CoinsOf(FallbackBoard))
  <2>1. f \in [1 .. NumCoins -> CoinsOf(FallbackBoard)]
    BY <1>2 DEF CoinsOf
  <2>2. \A j, k \in 1 .. NumCoins : f[j] = f[k] => j = k
    BY BoardAssumption
  <2>3. \A i \in CoinsOf(FallbackBoard) : \E k \in 1 .. NumCoins : f[k] = i
    BY <1>3 DEF CoinsOf
  <2> QED
    BY <2>1, <2>2, <2>3 DEF Bijection, Injection, Surjection, IsInjective
<1>5. Cardinality(CoinsOf(FallbackBoard)) = NumCoins
  <2>1. ExistsBijection(1 .. NumCoins, CoinsOf(FallbackBoard))
    BY <1>4 DEF ExistsBijection
  <2> QED
    BY <2>1, FS_CountingElements, BoardAssumption
<1>6. ~ IsFinished(FallbackBoard)
  <2>1. 0 \in Cells /\ 2 \in Cells /\ FallbackBoard[2] = 1
    <3>1. 1 \in 1 .. NumCoins /\ 2 = 2 * 1
      BY BoardAssumption
    <3>2. 0 \in Cells
      BY BoardAssumption DEF Cells
    <3> QED
      BY <1>2, <3>1, <3>2
  <2>2. FallbackBoard[0] = 0
    <3>1. \A k \in 1 .. NumCoins : 0 # 2 * k
      BY BoardAssumption
    <3> QED
      BY <2>1, <3>1 DEF FallbackBoard
  <2> QED
    BY <2>1, <2>2 DEF IsFinished
<1> QED
  BY <1>1, <1>5, <1>6 DEF RandomBoards

\* Every board that a match or an empty lobby starts from.
LEMMA InitBoardsPlayable ==
    /\ InitBoards \subseteq Boards
    /\ InitBoards # {}
    /\ \A board \in InitBoards :
          Cardinality(CoinsOf(board)) = NumCoins /\ ~ IsFinished(board)
BY FallbackBoardPlayable DEF InitBoards, RandomBoards
=============================================================================
