# Formal model of Noom Eternal

Noom Eternal is a two-player coin game: a server in C with one POSIX thread per
connection, a raylib client, and *emap*, the library with the wire protocol they
share.  On a board of 12 cells five coins slide to the left; the player who
makes the last possible move wins, and is paid in experience and "souls" for
which the shop sells skins.

This directory holds TLA+ specifications of the program, TLC models of them and
proofs for TLAPS.  `PROJECT.json` lists, for every definition, the source lines
it models.

## 1. Inventory

| Component | Source | State | Operations | Talks to |
|---|---|---|---|---|
| Game rules | `noometernal-server/src/game_logic.c`, and a copy of the move rule in `noometernal-client/src/ui_screens/game_screen.c` | none (pure functions on a board) | initial board, move rule, application of a move, end of the game | called by the connection threads under the lobby's mutex, and by the client's game screen |
| Lobby and connection threads | `noometernal-server/src/server_worker.c`, `main.c` | `struct ServerLobby` (slots, count, board, turn, winner, two flags), a mutex, a condition variable; per thread its place in the code and its id | join, wait for an opponent, start a match, wait for a turn, apply a move, forfeit, read the result, release the slot | each thread with its client (EMAP messages), with the other threads (shared lobby), with the database |
| Session protocol | `server_worker.c`, `noometernal-client/src/network_client.c` | per connection: where each side is, the messages under way in both directions | CONNECT, GAME_JOIN, SHOP_ACTION, GAME_WAIT, GAME_START, GAME_STATE, PLAY, MOVE, ILLEGAL_PLAY, GAME_END and the acknowledgement of each | one stream socket |
| Player database | `noometernal-server/src/db_manager.c` | one file of fixed-size records, read and written without a lock by every connection thread | load or create, match rewards, purchase, equip | called by the connection threads |
| Client application | `noometernal-client/src/main.c`, `ui_screens/*.c`, `settings_ui.c` | the screen and the one it fades to, what was requested, cancelled and is on, the selected slot, popup and settings panel, the music streams | one frame at a time: take up what was clicked, poll the network, turn the page, draw the screen and react to a click | `network_client.c` (calls, once a frame), its screens (flags), local rule check |
| EMAP | `emap/src/*.c` | none | framing, encoding, decoding, sending and receiving in full | sockets |
| Configuration | server `config_parser.c`, client `config.c` | values read at start, and saved by the client at its exit | line parsers, setters with checks, save | each program's `main` |
| Sockets | `noometernal-server/src/server_connection.c`, `main.c` | open descriptors, blocks of memory that carry them to threads | listener, accept, thread per connection, close | connection threads |
| Rendering, audio and assets | `ui.c`, `audio_manager.c`, `raygui.h` | handles | wrappers of library calls | client application |

**What is hard here.**  All connection threads share one lobby through a mutex
and one condition variable with two different predicates.  A player's id is the
count at the time it joined; the count is looked at, unlocked, and divided by
later.  The mutex is free while the server talks to a player, so what a thread
knows when it asks for a move has to hold still until the move arrives.  A
connection can be lost in any exchange, and there is a different piece of code
after each.  A match ends on two paths (a last move, a lost connection) that two
threads can take at once, and the lobby is reset by whoever leaves last.  The
database is a file that all threads rewrite in place without a lock.  The
session protocol has no sequence numbers: which acknowledgement belongs to which
message is decided by the order of arrival alone.  The client has one thread, but
its frame is a sequence of blocks that leave each other some fifteen flags: a
click is taken up in the next frame, a page turns some frames after that, and
the page that fades still takes clicks.  A socket's number passes from `accept`
through `main` to a thread, any call in between may fail, and the number is
given out again as soon as it is closed.  A receive that times out inside a
packet loses what it has read.

**What makes each component correct.**

- *Game rules*: a move is legal exactly when a coin slides left over empty
  cells; the client's copy of the rule is the same rule; the game is declared
  finished exactly when no move is left; a match starts on a board with a move.
- *Lobby*: slots are counted right on every path; no thread sleeps on a
  condition that holds; turns are exclusive although they are held without a
  lock; a match has one winner and keeps it; nobody is in a match the lobby has
  forgotten; matches end; players are released.
- *Session*: although either side may take one acknowledgement for another, a
  client on turn has the server's board, its moves need not be refused, no
  message of the server is dropped unanswered, the two sides do not wait for each
  other (but for two cases that section 3 names), and a thread whose client is gone
  ends.
- *Database*: operations on profiles behave as if they happened one after the
  other; records stay well formed; nothing paid for is lost.
- *Client application*: interface and connection agree on whether a match is
  awaited or on; Cancel sticks; a request joins a match exactly if the user
  asked for one; what is selected is a coin; one music track plays; the
  settings survive a restart; the loading screen is left.
- *EMAP*: what is encoded is decoded; a thread is given whole packets only, in
  order, wherever a receive gave up.
- *Sockets*: every descriptor and block of memory has one owner.
- *Configuration*: what is used is what the file says.

## 2. Modules

| Module | Contents |
|---|---|
| `GameLogic` | the rules as operators; no variables |
| `Match` | abstract specification of what the server promises its players |
| `Lobby` | the lobby and its threads; shown to implement `Match` |
| `MCLobby` | `Lobby` for TLC (thread symmetry) |
| `Profiles` | a player's profile, rewards, prices and what each request does to a profile; no variables |
| `ProfileStore` | abstract specification of the database: requests take effect at once |
| `PlayerDb` | the file and the threads that scan and rewrite it; shown to implement `ProfileStore` |
| `MCPlayerDb` | `PlayerDb` for TLC (prices, first profiles, symmetry of new players) |
| `Emap` | which messages of the wire library decode at the receiver; no variables |
| `EmapCodec` | the bytes of every payload there and back, and of a profile from record to screen; no variables |
| `EmapStream` | framing of packets over a stream that delivers in pieces; no variables |
| `NetworkClient` | abstract specification of what `network_client.c` promises the client's `main` |
| `Session` | one connection: the client's half of the protocol, the server's thread, and the messages under way; shown to implement `NetworkClient` |
| `ClientConfig`, `ServerConfig` | the two configuration parsers, and what the client saves; no variables |
| `ClientApp` | the loop of the client's `main`, its screens, settings panel and music, over `NetworkClient` |
| `MCClientApp` | `ClientApp` for TLC (volumes, hosts, ports) |
| `Server` | start and accept loop of the server, and each thread's use of its socket |
| `MCServer` | `Server` for TLC (what clients say, values in a file, symmetry) |
| `GameLogic_proofs` | facts about the rules, for every board size |
| `Match_proofs` | invariants of `Match` |
| `Lobby_proofs` | the lobby's invariants with all faults |
| `LobbyMatch_proofs` | the invariants of matches, if nobody leaves while waiting; `Lobby` implements `Match` |
| `PlayerDb_proofs` | the codec; well-formed profiles and one record per player, with all faults; `PlayerDb` implements `ProfileStore` |
| `Session_proofs` | client and thread in step, for streams and boards of any size; `Session` implements `NetworkClient` |
| `ClientApp_proofs` | the interface, the user's wish and the connection together |
| `Server_proofs` | one owner per descriptor and block, whole packets |

`Match`, `Lobby`, `Session` and `NetworkClient` EXTEND `GameLogic`, `Session` also
`Emap`; `Lobby` instantiates `Match` under the refinement mapping at its end.
`ProfileStore` and `PlayerDb` EXTEND `Profiles`, which EXTENDS `Emap`, `PlayerDb`
through `EmapCodec`, and are related in the same way.  The client is put together
of two halves that meet in `NetworkClient`: `Session` implements it (`ClientSpec`),
with a server and streams behind it, and `ClientApp`, with a user and pages in
front, EXTENDS it.  `ClientApp` also EXTENDS `ClientConfig`; `Server` EXTENDS
`EmapStream` and `ServerConfig`.

Definitions whose comment starts with "Faulty" belong to no specification.  Each
is a plausible mistake in the code (a forgotten broadcast, a missing guard, an
early reset); `PROJECT.json` ("mutants") says which definition it stands in for
and which property then fails, so that every property is known to be able to.

### How `Lobby` corresponds to the code

The variables `client_fds`, `count`, `board`, `current_turn`, `winner_id`,
`game_started` and `game_over` are the fields of `struct ServerLobby`.  Of each
thread the model keeps its place in the code (`pc`), its local `my_id` and
whether it is inside `pthread_cond_wait` (`waiting`).  `shown` is the board of
the last GAME_STATE its client was sent, `outcome` what its client was told at
the end; both are history and no step depends on them.

| `pc` | place in `server_worker.c` |
|---|---|
| `closed` | no such connection (before accept, after close) |
| `wait_for_game_join` | `wait_for_game_join`, after the CONNECT phase |
| `acquire` | lock and wait at the head of `play_single_match` |
| `poll`, `keep_alive` | the two halves of a round of `wait_for_lobby_start` |
| `begin` | head of `run_match_session` |
| `game_start`, `initial_state` | GAME_START and its ACK; the initial GAME_STATE and its ACK |
| `turn` | lock and wait at the head of the turn loop |
| `prompt`, `move` | GAME_STATE, PLAY and their ACKs; waiting for MOVE |
| `apply` | inside the critical section that applies a move |
| `after_move`, `after_last_move` | ACK, GAME_STATE and its ACK, after a move |
| `result`, `reward` | reading `winner_id`; update and GAME_END |
| `forfeit` | call of `handle_disconnect_win` |
| `release_keep`, `release_close` | call of `lobby_release_slot` with the session ended well or not |

A step is one critical section or one exchange with a client.  A critical
section is one step because every access to the lobby but one takes the mutex.
The exception is `emap_helper_send_game_state(fd, lobby->board, 12)`
(`server_worker.c:518`): what it can see is `BoardsSeen`, and for its sake the
critical section that applies a move is split between the two writes of
`game_apply_move`.  As this is a data race, a reader may see each of the two
cells old or new.

A client is abstracted to an answer in time or none.  "None" covers a closed
connection, the 60 s receive timeout and a message of another type, which the
code treats alike.  The constant `Faults` says where that may happen, so that a
run can say which faults a property survives:

| fault | exchange | the code's reaction |
|---|---|---|
| `wait` | in `wait_for_lobby_start` | slot released |
| `start` | GAME_START cannot be sent | slot released, the opponent is not told |
| `play` | any later exchange of the match | `handle_disconnect_win`, slot released |
| `end` | profile update or GAME_END | slot released |

### How `PlayerDb` corresponds to the code

`file` is the sequence of records of `db/player_db.bin`, or `NoFile`.  Of each
thread the model keeps the request being served (`request`), the profile in
memory (`record`), the number of the next record its scan reads (`pos`), whether
`load_or_create_record` has returned (`saving`), and what its client was told
last (`answer`).

| `pc` | place in `db_manager.c` |
|---|---|
| `closed`, `idle` | in `server_worker.c`, without a connection and between requests |
| `fetch` | the loop of `fetch_player_record` |
| `open`, `create` | the two calls of `fopen` in `upsert_player_record` |
| `scan` | its loop |
| `write` | `fwrite`, as it reaches the file in `fclose` |

A step reads one record, writes one record, or opens or empties the file; the
threads interleave between any two steps.  A write past the end of a file that
another thread has emptied leaves a hole that reads as zeros (`Hole`).  What
comes between two calls on the file is computed on one profile and is an
operator of `Profiles`.  `UserOf` is the name each thread's client logs in with;
the thread is used again when the client comes back.

| fault | call | the code's reaction |
|---|---|---|
| `open` | `fopen` of a file that is there, for want of descriptors or memory | to read: an unknown player; to write: the file is emptied with `"w+b"`, or, if that fails too, the request fails |
| `flush` | the write in `fclose` | none: its result is dropped |

A request that fails (-1) is answered `"error"`; the profile that the server
makes up when that happens at CONNECT (`server_worker.c:325`) is constant and is
left out.

An answer goes the whole way to the player: `EmapCodec` has the payload that
`record_to_payload` and the helpers build, the bytes that `emap_encode_msg` makes
of it and what `emap_decode_msg` and `client_update_profile` make of those;
`Shown` is the profile on the client's screen at the end, and `ProfilesWellFormed`
says of every answer that it is the one that was sent.  Integers
on the wire are bytes, so that an order of bytes, a field in another's place or a
width too small changes what is shown.

### How `Session` corresponds to the code

`Lobby` knows of a client that it answers in time or does not.  `Session` opens
that up for one connection.  The client's side is `struct NetworkClient` (`net`,
`is_our_turn`, `waiting_for_ack`), the board and result of its `GameState`
(`view`, `result`), what the connection is for (`purpose`: a match, or the popup
that only connects), and, as the client has a single thread, the loop it is
blocked in:

| `blocked` | place in `network_client.c` |
|---|---|
| `connect_ack`, `player_info` | the two receive loops of `NetworkClient_Connect` |
| `join` | between `NetworkClient_Connect` and `NetworkClient_JoinGame`, in one frame of `main` |
| `join_ack` | the receive loop of `NetworkClient_JoinGame` |
| `no` | between frames: `WaitForGame` (in the lobby) or `ProcessMessages` takes what has arrived, the user clicks |

The server's side is one thread, its place `pc` named by what it waits for or
does next:

| `pc` | place in `server_worker.c` |
|---|---|
| `closed`, `closing` | no connection; about to close it (`server_client_thread`) |
| `connect`, `info_ack` | CONNECT; the ACK of the first PLAYER_INFO |
| `join`, `shop_ack` | `wait_for_game_join`; the ACK of the profile after a shop action |
| `acquire`, `poll`, `keep_alive`, `begin` | as in `Lobby` |
| `start_ack`, `state_ack` | the ACKs of GAME_START and of the initial GAME_STATE |
| `turn` | as in `Lobby` |
| `turn_ack`, `play_ack`, `move` | the ACKs of the turn's GAME_STATE and PLAY; the MOVE |
| `illegal_ack`, `moved_ack`, `last_ack` | the ACK of what follows a move, by its kind |
| `result`, `update_ack`, `end_ack` | reading `winner_id`; the ACKs of the new profile and of GAME_END |
| `forfeit`, `release_keep`, `release_close` | as in `Lobby` |

`toServer` and `toClient` are the two directions of the connection, sequences of
whole packets; `link` is what the client's socket knows of it (open, closed by
either side, reset).  A receive of the thread takes the next packet or gives up,
which it may do at any time: a delay of 60 s (50 ms after GAME_WAIT) is only a
slow network.  A receive of the client takes the next packet if it decodes it
(`Emap!Decodes`); GAME_STATE is passed on raw and ILLEGAL_PLAY is an error.

The rest of the server is what the thread can see of it: the fields of the
lobby, and `others`, how many other players hold each id.  Those players join,
start, move, forfeit, and leave when the match is over; one who leaves while
waiting for an opponent, and with it every path to two players with one id, is
the subject of `Lobby` and of the run `lobby_ids`.  (This client may leave at
any time, so that `others` does come to have two players under id 1, without
it; the properties about turns are stated for a thread whose id is its own.)

### How `ClientApp` corresponds to the code

The variables are those of `main` (`currentScreen`, `onlineState`, the `online...`
flags), of the home screen (`showConnectionPopup`), of the settings panel and of
raylib's music streams (`tracks`: which play, which of them are paused; `loaded`:
which were found on disk).  The connection is that of `NetworkClient`.  `wish` is
history: what the user asked for last, a match, a mere connection or nothing.

A step is a block of the loop of `main`, and `phase` the block that comes next.

| `phase` | block of a frame |
|---|---|
| `begin` | `onlineMatchCancelRequested`, else `onlineMatchRequested` (the window may be closed before it) |
| `connect` | `NetworkClient_Connect` and, unless `onlineConnectOnly`, `NetworkClient_JoinGame`: one step that succeeds or fails |
| `wait` | `NetworkClient_WaitForGame` |
| `poll` | `NetworkClient_ProcessMessages`, a step per message |
| `page` | the end of the match, the fade, the music |
| `draw` | the screen, and over it the settings button or panel, each with at most one widget under the click |

A click is the widget `w` of the screen and the widget `o` of the panel under it;
`UnderOnePoint` says which two can be hit at once, as the panel is drawn over the
popup and over the board and neither looks at it.  In the same way the buttons of
the home screen work under the popup, and neighbouring slots of the board overlap
(`Hits`).  The fade is a page that turns in this frame or a later one.

### How `Server` corresponds to the code

`main` is the next call of `srv_create_listener` or of the loop of `main`:
`resolve`, `socket`, `reuseaddr`, `bind`, `listen`, then `accept`, `malloc`, `create`.
Every one may fail.  `files` is the table of open descriptors, `heap` the blocks
that are allocated (`addrinfo`, and one per connection between `malloc` and the
thread that frees it).  A thread is at its start, in a call of `emap_recv_packet`
or before its `close`; it is in the call `lenient`ly where the code goes on after
a failure (the connection phase and the acknowledgement of GAME_END), `strict`ly
elsewhere.

A packet is two or three units: the half of the header with magic bytes and
version, the half with the size, the payload.  A client says units one after the
other and may stop anywhere; a receive takes the next one, and fails if there is
none, which is the timeout and the hang-up alike.  `taken` is what
`emap_recv_packet` has returned to the thread.  The number of a socket is any that
is free.  `ServerConfig` is what `main` has done before the first of these steps.

## 3. Runs

| Run | Question | Instance | Result |
|---|---|---|---|
| `match` | Do the rules and the turns work on the real board? | 12 cells, 5 coins: the program's own values, all 791 starting boards | holds |
| `lobby_all` | What holds with connections lost anywhere? | 3 threads, 5 cells, 2 coins, all faults | holds |
| `lobby_refines` | What holds of matches if nobody leaves while waiting, does the lobby implement `Match`, and do matches end? | 3 threads, 4 cells, 1 coin, faults `play` and `end`, fair | holds |
| `lobby_ids` | Are ids unique (`server_worker.h:64`)? | 3 threads, fault `wait` | **violated** |
| `lobby_torn` | Does a player only see whole boards (`ARCHITECTURE.md:250`)? | 2 threads, no faults | **violated** |
| `lobby_straggler` | Is the opponent of a lost client released (the same line)? | 2 threads, fault `play`, fair | **violated** |
| `db_store` | Is the database safe for players it knows? | 1 known player and 2 new ones, a thread each, 4 requests, no faults | holds |
| `db_faults` | What survives failing calls? | the same, 3 requests, all faults | holds |
| `session` | Do client and thread stay in step, whatever is late, and does the client keep what `main` takes for granted? | 4 cells, 1 coin, `MaxPending` 2, one connection at a time, fair | holds |
| `client_app` | Do the interface, the user's wish and the connection stay together? | 3 cells, 1 coin, 2 values of each setting, fair | holds |
| `server_io` | Who owns what, what do threads read, and what is configured? | 3 clients, 3 numbers, a packet with a payload and one without, files of up to 3 lines | holds |
| `db_new` | Is what a client was told in the file (`API_REFERENCE.md:887`)? | a file with 1 record, 2 new players | **violated** |

**Why the bounds are enough.**  A match has two players; a third thread is
needed for whatever happens around a match (waiting for it to end, being turned
away, joining after somebody left), and since threads are alike and slots are
two, a fourth would only repeat the third.  The refinement is
proved for any number of threads and the run has three as well.  The rules are checked on the real
board in `match`; in the lobby runs the board only has to have several moves for
both players, illegal moves and more than one final position, which 5 cells and
2 coins have (up to six moves in a match); `lobby_refines`, with liveness to
check, has one coin on 4 cells and up to three moves, so that either can make the
last one.  Nothing in the specifications is
cut off by a counter: the state spaces are finite as they are, because a board
only moves left and a closed thread is used again for the next connection.
In the database runs `MaxCalls` bounds the requests of all threads together.  A
known player's request can be disturbed by another thread's at two places, its
read and its write, and a new player makes two passes over the file in its first
request; 4 requests let each of the three threads serve one and one of them a
second on the outcome of the first.  Three skins of the six have a free one, one
that can and one that cannot be bought with the first profiles, which are a
match or a purchase away from every limit (level 254 and 255, progression 950,
65400 souls); rewards and prices are the program's own.  (`TOTAL_SKIN_AMOUNT` is 6
in `session`, where it is only a size of payloads.)  `CHECK_DEADLOCK FALSE`
is set in these runs as the server may well be left without clients, which
the bound on requests makes final, and in `server_io` as the server exits if it
cannot listen.
In the session runs `MaxPending` bounds the one thing that would grow without
end, the GAME_WAITs and SHOP_ACTIONs that are sent while earlier ones are
unread: none is sent when two messages are under way.  Two GAME_WAITs are enough
for every acknowledgement of a match to be taken for the next one's and for two
of them to be left over when the thread asks for a move; the rest of the
protocol never has more than a handful of messages under way and is not cut.
One coin on four cells gives matches of one to three moves, so that a player
can be on turn twice and the last move can be either's.
In `client_app` nothing is cut off: clicks, failures and messages come in any
number and order, and a restart of the client leads back to the start.  A board
of 3 cells has a coin to select, an empty cell on either side of it, and boards
that arrive under a selection.  Of the settings, two values are enough to tell a
key that was read from one that was not; one of the volumes is one that
`"%.2f"` changes.  In `server_io`, three clients and numbers let one client
connect again with the number that another has just left while a third reads;
the listener takes a number as well, so that they run out.  Two packets, the
first with a payload, let a reader go astray at any of their five units and
either recover or not.  Three lines of a file are a section, an assignment and
one to undo it.
The theorems of section 5 drop the bounds of the lobby, match, database, session,
client and server runs.

**What the violations show.**

- `lobby_ids`: A joins (id 0), B joins (id 1) as A's client is found lost and A
  releases.  C takes the count, 1, as its id.  B and C both have id 1: both
  apply moves in the same turn, or neither is ever on turn.
- `lobby_torn`: A has made its first move up to the first of the two writes as B
  sends its initial GAME_STATE: B is shown a board with a coin missing.
- `lobby_straggler`: A sees the count of 2 and starts the match.  Before B looks
  at the count again, A's client is lost and A releases its slot.  B reads 1
  and polls for ever: `game_started` is still set and keeps newcomers out.
- `db_new`: B and C connect for the first time.  Both scans find the end of the
  file behind A's record; B writes there, answers its client, and C writes at
  the same place.  B's profile is gone, and B's next request starts again from a
  default one.  What is written is still whole and nobody has two records, which
  is what `db_faults` and the theorems show.

**What holds in `session`, and why it could fail.**  The client clears its turn on
any GENERAL_ACK it gets with a move under way, and the thread takes any
GENERAL_ACK for the one it awaits.  `MoverSeesBoard` and `MoveNeverRefused` say
that this never leaves the client with a turn or a board that is not the
server's: not when both players were told that they begin (the thread that
enters second reads the turn after a first move), nor when GAME_STATE and PLAY of the
next turn are already on their way.  `NothingDropped` says that no message meets
the client in a state whose `switch` ignores it, and `NoStandoff` that no
exchange is left half done: with nothing under way on an open connection, the
thread waits for something that the user of this client can do (`MayAsk`,
`MayMove`), with two exceptions that are named in it and no third.  One is
`GreetingMissed`, a CONNECT that came too late; the other is `MoveRefused`, a
client that has failed on an ILLEGAL_PLAY; both are described below.  `ThreadEnds`
says that a thread whose client is gone
finds out in whichever loop or receive it is.  `ClientSpec` is the refinement: a
match starts in the lobby and ends once, a board arrives only in a match, and
only an acknowledged move takes the turn away.

**What holds in `client_app`, and why it could fail.**  `NoForgottenMatch`: while
the server counts this client as a player, `onlineState` says so; PLAY, SHOP,
Cancel, the popup and RETRY in any order within a fade do not lose the
connection from sight.  `MatchRequestJoins`: `onlineConnectOnly` is set by the
popup, cleared only by a successful connection and looked at by whatever request
comes next; after a failure PLAY is disabled, and that, together with a restart
of the client, is all that keeps a PLAY from being taken for the popup's request.
`CancelSticks`: the board is never on the screen after a Cancel, though the match
may start in the frame of the click and the two branches of the loading screen
both set `targetScreen`.  `SelectionIsCoin`: boards, matches and restarts arrive
under a selection, and one click can be handled for two slots.  `OneTrack`: two
places play and pause two streams.  `SavedSettingsReload`: `LoadConfig` starts
from whatever was on the stack, and every key is found again where `SaveConfig` has
put it.  `LoadingEnds`: a match that starts, or a failure, takes the player off
the loading screen; it does not say so of `IDLE`, see below.

**What holds in `server_io`, and why it could fail.**  `OneOwner`: every path out of
the start and of the accept loop closes and frees what it has and nothing else.
`OwnPackets`: a thread whose receive failed in the connection phase goes on to
read where the stream happens to be; the magic bytes make the next call fail
unless that is the start of a packet, and the call after that is strict.
`ConfigAsWritten`: `config_load` of every file of up to three lines is what its
last acceptable assignments in a `[server]` section say.

**Behaviour worth knowing.**  The models show the following of the code; nothing in
the repository says that it should be otherwise, so that they are not findings.

- *A premature MOVE forfeits the match.*  GAME_START tells a player that it
  begins, and the initial GAME_STATE gives it the board; from then on the client
  offers a move.  The server sends another GAME_STATE and PLAY first.  If the user
  is faster, the MOVE arrives where the acknowledgement of one of them is awaited,
  and the player, who is still there, has lost as by a disconnection
  (`server_worker.c:237`).  The same happens with acknowledgements of GAME_WAIT
  that were more than 50 ms late: each is taken for the next message's, and the
  last for the MOVE.
- *A late CONNECT* is not answered.  When the first receive of a thread gives up
  after its 60 s, the thread goes on to `wait_for_game_join` all the same
  (`server_worker.c:291-297`); a CONNECT that arrives then is of a type that the
  loop reads and drops (`:405`).  The client spins in `NetworkClient_Connect`
  (`network_client.c:424-428`) for a GENERAL_ACK that is not sent, and its user can
  ask for nothing, while the thread waits for a GAME_JOIN (`GreetingMissed`).  After
  another 60 s the thread closes the connection, which the client does not notice
  (see *The client's handshake*).
- *A refused move* ends the match of the client that made it.  ILLEGAL_PLAY is a
  message that `emap_decode_msg` refuses, the client shows an error and keeps its
  socket open without reading from it, and the thread waits 60 s for the
  acknowledgement (`MoveRefused`).  It takes two players with one id: nobody else is
  refused a move (`MoveNeverRefused`).
- *Leaving the fade.*  PLAY and then SHOP within the fade leaves the player in
  the shop, waiting or in a match that is not shown.  A connection from the popup
  during the fade after PLAY leads to a loading screen with nothing to wait for
  (`onlineState` is `IDLE`), which only Cancel leaves.
- *After a failure* PLAY stays disabled until a connection from the popup has
  succeeded; a failed one shows the new name with the old profile.  A move that
  cannot be sent leaves the match on the screen, in a connection that is polled
  no more.
- *A restart in the frame in which a match ends* clears its result before the
  end screen is chosen.
- *The settings panel* is said to be modal (`settings_ui.h:6`) and is drawn
  last, and a click on it reaches the screen below.
- *The client's handshake* takes an orderly close by the server for "no data yet"
  (`network_client.c:110`) and spins until the window is closed by force.
- *Of `server.ini`* a port is checked as a number and copied as a text: what
  follows the digits is cut at five characters.
- *Without the lobby's music* there is no music at all.
- *SHOP_ACTION* is encoded but not known to `emap_decode_msg`; the server takes
  its payload apart itself.

One failure of the lobby is not the subject of a run of its own: when GAME_START
cannot be sent (`server_worker.c:504`, fault `start`), `run_match_session` returns
without `handle_disconnect_win`, and the opponent waits for a turn that does not
come.  `lobby_all` includes that fault; `lobby_refines` and the refinement theorem
exclude it, and adding it to `Faults` there makes TLC show a match that does not
end.

## 4. Fairness

`Match!FairSpec`: the player on turn eventually moves.  `Lobby!FairSpec`: weak
fairness of `Progress(t)` for each thread `t`, the steps of a thread whose client
answers and whose player comes to make a legal move.  The code justifies it as
follows: threads are scheduled; every receive returns within 60 s
(`set_recv_timeout`, `server_worker.c:277`), here with an answer or as a fault,
and after a fault the thread goes on with `Progress` steps alone; a critical
section is a few assignments, so a thread that wants the mutex gets it.
`Session!FairSpec`: weak fairness of the thread (it is scheduled, and its
receives give up after 60 s at the latest) and of another player on turn, who
moves or is given up in the same time.  Of the client nothing is assumed: its
user may never click, and it may stop taking messages.
`ClientApp!FairSpec`: frame follows frame (weak fairness of each block but
`connect`, which can block for ever, and of the end of a poll, as what has arrived
is finite), and a page that is asked for turns (strong fairness of `PageTurns`: the
alpha of a fade grows in every frame and no click resets it, but a turn is enabled
in one block of a frame only).  Nothing is assumed of the user or of messages.
In `Lobby`, illegal moves, faults, new connections and spurious wakeups are not fair.  That a
player never decides is the 60 s timeout, hence a fault of kind `play`.
Symmetry is used in runs of safety properties only.

## 5. Proofs

The proofs about rules, match and lobby hold for any finite set of threads and
any board with `NumCells > 2 * NumCoins` (`BoardAssumption`: the fallback board must
fit; the program has 12 and 5).

- **Rules** (`GameLogic_proofs`).  `MoveRule`: `game_is_move_valid` is "slide left
  over empty cells", although the code only looks for the nearest coin.
  `ClientRule`: the client's copy agrees.  `FinishedIffStuck`: the scan of
  `game_is_finished` answers yes exactly when no move is left.  They rest on the
  existence of greatest and least elements of finite sets of integers and on
  what a move does to the set of coins.  `MoveTakesRoom`: `Room(board)`, the sum
  of the positions of the coins (counted as pairs of a coin and a cell below it),
  goes down by exactly the distance of the move.
- **Match** (`Match_proofs`).  `MatchInv` adds to the type that a board being
  played is not finished and has all its coins; `MatchTyped` and the three safety
  properties follow with the theorems on the rules.  `MatchMovesRunOut` is the
  safety half of `MatchEnds`: a step that leaves a match on takes `Room`, a natural
  number, so that moves run out and no board comes back.
- **Lobby, all faults** (`Lobby_proofs`).  `LobbyInv` is the conjunction of the
  type, `SlotAccounting`, `MatchFlags`, `NoLostWakeup`, `CoinsKept` and
  `MutexInv`, which says who holds the mutex and that the move it applies is
  within the board.  It is inductive; the argument that needs care is the last
  release: that the count falls to zero means by `SlotAccounting` that no other
  thread holds a slot, hence that none is in a session whose flags are reset.
- **Matches** (`LobbyMatch_proofs`), assuming `"wait" \notin Faults`; the other
  faults, `start` included, may happen.
  `IdInv`: the ids in use are distinct, the slots agree with them, and a player
  that has not begun a match yet keeps the count from being decreased by others
  unless the match is on.  `TurnKept` and `ShownBoardCurrent` need that only the
  thread with the turn changes turn and board.  `ResultInv` adds that whoever
  has been told a result has been told that of the present `winner_id`; the
  lemma `LateMove` shows that the code's failure to check `game_over` when it
  applies a move is harmless, and gives `WinnerKept`.
- **Refinement** (`LobbyMatch_proofs`), assuming
  `Faults \cap {"wait", "start"} = {}`.  `PlayersPresent` says that a match has
  two players when it starts and both while nobody has forfeited, so that
  `(current_turn + 1) % count` is the opponent.  While a move is half written the
  abstract board is the one before it (`BoardBeforeMove`).  `LobbyMovesRunOut` brings
  `MoveTakesRoom` back through the mapping: whatever the threads do in between, a
  step that changes the server's match and leaves it on takes room.
- **Session** (`Session_proofs`), for any board, any `MaxPending` and streams of any
  length.  No property is inductive, because all that decides whether the two
  sides stay in step is under way between them.  The invariant comes in six
  parts, each of which rests on those before:
  - `BaseInv`, the types, with `SeatInv` (the thread has a slot in these states of
    its own, a match that is on has two players and a board with a move),
    `LinkInv` (what a closed, reset or dead connection still holds) and `ClientInv`
    (which flags of the client go with which state).  `SessionTyped` needs it, as
    the turn is the count modulo two, and so does `ImplementsNetworkClient`
    (`ClientSpec`): each step of the client is one of `NetworkClient` or a stutter,
    and each step of a thread a stutter.
  - `StreamInv`.  `ToClientInv` says that the messages under way to the client lead
    it, one by one, from the stage that it is in (connecting, introduced, joining,
    queueing, in a match, idle) to a stage to which the thread has brought it, a
    set that depends on where the thread is.  This replaces any count of the
    messages: `Path` is a chain of stages, and there is a lemma each for taking the
    head, for appending, and for the empty stream.  `GreetingInv`, `RequestInv` and
    `ErrorInv` are its counterpart for the stream to the thread: the handshake
    alternates, a GAME_JOIN is under way once and to a thread that has answered all
    else, a client that has failed asks for nothing.  `NothingIsDropped` follows
    from the head of the chain.
  - `PlayInv`, the answers.  `AwaitedInv`: a thread that awaits an acknowledgement
    has something coming, or has sent something last that will be acknowledged.
    `AnswerInv`: moves and the GENERAL_ACKs that the client may take for an answer
    to its move are under way once, and not at the same time.  `PromptInv`: once the
    thread has asked for a move, the client has the turn and a board, or they are
    under way with nothing behind them that takes them back.
  - `IdInv`, the ids.  A player with id 0 shares it with nobody, and one with id 1
    has an opponent until the match starts.
  - `TurnInv`, the turn, of a thread whose id is its own (`Unshared`).  `TheirTurn`:
    if the client has the turn, or a PLAY, a
    GAME_START with the turn or a move is under way, then the thread is on turn,
    every board under way is the server's, and the one that the client has when the
    turn reaches it is too; moves under way are legal on it.  That a PLAY which an
    acknowledgement behind it will cancel does not count is what makes it
    inductive: the client's move and the acknowledgement of the move before can
    cross.  `TheMoverSeesTheBoard` and `NoMoveIsRefused` follow.
  - `RefusalInv`, the rest: a player with id 1, who may share it and be refused a
    move.  `DueInv` counts the acknowledgements that such a thread can still be
    sent: none where it does not await one, one where it does, since a player who
    joined second was never sent a GAME_WAIT (or has lost its match before it began,
    `Stranded`).  `JoinInv`, that a GAME_JOIN is the last message of the client until
    it is answered, is where this starts.  `RefusedInv` follows: nothing else is
    under way when ILLEGAL_PLAY is sent, so the client fails on it, sends nothing
    more, and the thread leaves `illegal_ack` by giving up.

  `NobodyStandsOff` is this invariant with both streams empty: `PlayInv` leaves `join`
  and `move` as the only places where a thread can wait for a client that has not
  failed, the stage of the client and `RequestInv` say what the user can do in
  `join`, `FinishedIffStuck` that a board that is not finished has a move on the
  client's rule too, and `RefusedInv` where the thread of a client that has failed
  waits.

  All six were model-checked first, on the instance of `session`.
- **Client application** (`ClientApp_proofs`), for any board and any values of the
  settings.  `FrameInv` holds at every block of the frame.  `FlagsInv`: a request and
  a cancellation are taken up at the head of the next frame and are never both
  under way.  `ConnectionInv` adds to `NoForgottenMatch` that a match that is
  awaited or on has no result.  `ConnectOnlyInv`: the flag for "profile only" outlives a
  failed connection, but then the client is on a screen from which nobody asks
  for a match without setting it anew, the one place where the properties hang on
  what a screen offers.  `WishInv` ties what leads to a match (request, waiting,
  ready, a page that turns to the board) to what the user asked for last, or to a
  cancellation in the next block, and gives `RequestJoinsAsAsked` and
  `CancelledMatchStaysAway`.  `MusicInv` adds to `OneTrack` which streams are paused,
  without which turning the music on again could start a second.

- **Codec** (`PlayerDb_proofs`), for any number of skins, with the limits of bytes
  and words only (`WireAssumption`).  `DecodeInvertsEncode`: every message but
  SHOP_ACTION is decoded as what was encoded.  `PayloadInverse`:
  `payload_to_record` undoes `record_to_payload`, through the bytes of the message,
  for every well-formed profile.  Both come down to high and low byte of a word
  and to where a sequence of known length is cut.
- **Database, all faults** (`PlayerDb_proofs`), assuming only that a level and a
  skin exist, that prices and rewards are natural numbers and that the file
  starts with well-formed profiles (`ProfileAssumption`, `DbAssumption`).
  `ServedWellFormed` says that no request takes a profile out of its ranges or
  leaves it with a skin that is not owned; `DbInv` carries that through memory,
  file and answers, for whatever a thread writes it has loaded or made itself.
  `OneRecordEach`, if each player is logged in once: `KeyInv` says that a
  scanning thread's player has no record before the place reached and a writing
  one's none elsewhere, which nobody else can disturb because nobody else writes
  that name, not even by emptying the file.
- **Database refinement** (`PlayerDb_proofs`), assuming `KnownPlayers`: no
  faults, a player with a record at the start, each logged in once.
  `StoreInv`: the records of known players never move, so that their scans find
  them, and no new player's scan ends at one; from the read of a known player's
  profile to its write, what is stored is what was read (`Serving`).  The write
  is then the step of `ProfileStore`, every other step a stutter or an answer.
- **Server** (`Server_proofs`), for any clients, descriptors and talk, assuming
  only that `NoFd` is no descriptor (`FDsAssumption`), that no client has the name of
  one of `main`'s variables (`ClientsAssumption`) and that a talk is a sequence
  (`TalkAssumption`).  `OwnerInv` ties together where `main` is and what it
  holds (`MainInv`), that a thread that is not over holds the descriptor of its
  own client (`ThreadInv`), that nothing is open that nobody holds (`OpenInv`), and
  who is to free what (`HeapInv`); `OneOwner` follows.  `StreamInv` says of a reader that
  it is in step (its buffer is the beginning of the next packet, and what it has
  taken are all the packets before) or astray, and then that the call it is in is
  strict and its buffer does not begin with a magic number: that call is
  refused, and was the last.  `OwnPackets` follows, as `taken` is a run of packets in
  either case.

- **Both configuration files** (`Server_proofs`, `ClientApp_proofs`).  A parser goes
  through a file line by line, so what it ends with takes an induction over the
  length of the file, which the induction theorems of the library do not give
  here.  It is done by least elements instead: `<` on the naturals is
  well-founded, and a line that breaks the claim would have a first one (`EveryNumber`).
  The same argument shows that the function by which `FoldLeft` is defined exists
  and can be read step by step (`FoldExists`).
  - `ConfigRead`: after `k` lines the server's parser has what the first `k` lines
    say, for a file of any length, of which `MaxLines` in the run is an instance;
    `ConfigAsWrittenHolds` follows.  `LineStep` is the induction step: a section
    header moves the "last header", an assignment the "last acceptable value" of
    its own key and no other, and any other line neither.
  - `SavedReloads`: the lines that `SaveConfig` writes are read back one after the
    other, each into its own field, so that nothing of the uninitialized
    structure is left; volumes are rounded once and blanks in front of the address
    lost once, and saving again changes nothing.  The volumes, counted in
    thousandths, need only be integers (`VolumesAssumption`).
    `SavedSettingsReloadHolds` follows.

With these every safety invariant of a passing run is stated by a theorem.  What
stays with TLC alone is liveness (`MatchEnds`, `ThreadEnds`, `LoadingEnds`), which is
beyond the proof system.  The assumptions on `Faults` are needed.  The violated
runs show what happens without them, and under all faults TLC finds each of
`SlotTable`, `TurnKept`, `ShownBoardCurrent`, `OneWinner` and `WinnerKept` violated:
a shared id undoes them all.

## 6. Not modelled

Not modelled: drawing (textures, colours, animations: no state that another part
reads), and `raygui.h`, a vendored library of 7386 lines that no file includes.
In `ClientApp`: what is typed into the fields of the popup, the volumes and the
frame counter, and which coin the shop shows.  In `Lobby` the contents of messages
other than boards, moves and results; in `Session` profiles and usernames, and
threads of one user that overlap (the client connects again when the last thread
has ended).  In `Server` what the server sends, and the database's use of
descriptor numbers (a socket gets any number that is free).  In `PlayerDb`:
`db_update_player_info`, which nothing calls; users with an empty name, which a
hole in the file would match; two connections with one name; a crash in the
middle of a write; failures of `fread`, `fseek` and `fwrite`; and the blocks in
which stdio reads ahead, which can split a record that is being written in files
of more than a hundred records.

Four hazards in `PROJECT.json` have no property, each with the reason: the
repository does not say what should happen, or, for a torn record, the model has
no bytes of a file.

What could come next: the match of a thread that shares its id with another
player (`OnTurn` excludes it, and `lobby_ids` shows that it happens), and the
bytes of the file under `PlayerDb`.
