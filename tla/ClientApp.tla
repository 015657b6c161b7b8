----------------------------- MODULE ClientApp -----------------------------
(***************************************************************************)
(* The client application: the loop of main.c over network_client.c (as    *)
(* NetworkClient promises it), the screens of ui_screens/, the settings    *)
(* panel and the music.                                                    *)
(*                                                                         *)
(* The program has one thread; what makes it hard is that a frame is a     *)
(* sequence of blocks that hand each other flags: what a click sets, the   *)
(* network code of the next frame takes up, before pages turn, before      *)
(* anything is drawn and clicked again; and that a page turns some frames  *)
(* after it was asked for, while the page that is left still takes clicks. *)
(* A step here is one such block; "phase" is the block that comes next.    *)
(*                                                                         *)
(* Textures, colours and positions are left out, but not that two widgets  *)
(* can lie under one point.  Of the assets, only the music is kept: a      *)
(* button without its texture is one that is not clicked.                  *)
(***************************************************************************)
EXTENDS NetworkClient, ClientConfig

VARIABLES
    phase,
    currentScreen, targetScreen, isTransitioning,
    onlineState,
    onlineMatchRequested, onlineMatchCancelRequested, onlineConnectOnly,
    onlineMatchActive, onlineMatchReady, onlineLastMatch,
    onlineError,            \* whether a text is shown
    selectedSlot,
    showConnectionPopup, showSettings,
    musicEnabled,
    loaded,                 \* the music streams that can be played
    tracks,                 \* of raylib: which music streams play, and paused
    wish                    \* history: what the user asked for last

pageVars   == <<currentScreen, targetScreen, isTransitioning>>
askVars    == <<onlineMatchRequested, onlineMatchCancelRequested,
                onlineConnectOnly, wish>>
matchVars  == <<onlineState, onlineMatchActive, onlineMatchReady,
                onlineLastMatch>>
windowVars == <<showConnectionPopup, showSettings>>
musicVars  == <<musicEnabled, loaded, tracks>>
vars == <<phase, pageVars, askVars, matchVars, onlineError, selectedSlot,
          windowVars, musicVars, netVars>>

Screens == {"INTRO", "HOME", "SHOP", "LOADING", "GAME", "VICTORY", "GAMEOVER"}
Phases  == {"begin", "connect", "wait", "poll", "page", "draw"}
NoSlot  == -1
Streams == {"lobby", "song"}
\* LoadAssets, which takes what it finds.  There is music if the lobby's file
\* is there, and main has an audio device; the song's may be missing.
LoadAssets == {{}, {"lobby"}, Streams}
Silence    == [playing |-> {}, paused |-> {}]

\* main up to the loop.  The settings are those of the file, see ClientConfig.
Init ==
    /\ phase = "begin"
    /\ currentScreen = "INTRO" /\ targetScreen = "INTRO"
    /\ isTransitioning = FALSE
    /\ onlineState = "IDLE"
    /\ onlineMatchRequested = FALSE /\ onlineMatchCancelRequested = FALSE
    /\ onlineConnectOnly = FALSE
    /\ onlineMatchActive = FALSE /\ onlineMatchReady = FALSE
    /\ onlineLastMatch = FALSE /\ onlineError = FALSE
    /\ selectedSlot = NoSlot
    /\ showConnectionPopup = FALSE /\ showSettings = FALSE
    /\ musicEnabled \in BOOLEAN
    /\ loaded \in LoadAssets /\ tracks = Silence
    /\ wish = "none"
    /\ NetInit

\* The window's close button is seen between two frames; the connection is
\* closed, and the next thing is that the client is started again.
CloseWindow ==
    /\ phase = "begin" /\ UNCHANGED phase
    /\ currentScreen' = "INTRO" /\ targetScreen' = "INTRO"
    /\ isTransitioning' = FALSE
    /\ onlineState' = "IDLE" /\ onlineError' = FALSE
    /\ onlineMatchRequested' = FALSE /\ onlineMatchCancelRequested' = FALSE
    /\ onlineConnectOnly' = FALSE /\ onlineLastMatch' = FALSE
    /\ onlineMatchActive' = FALSE /\ onlineMatchReady' = FALSE
    /\ showConnectionPopup' = FALSE /\ showSettings' = FALSE
    /\ loaded' \in LoadAssets /\ tracks' = Silence
    /\ UNCHANGED musicEnabled       \* saved and loaded: SavedSettingsReload
    /\ wish' = "none"
    /\ Prepare("DISCONNECTED") /\ selectedSlot' = NoSlot
-----------------------------------------------------------------------------
(***************************************************************************)
(* The network code at the head of a frame.                                *)
(***************************************************************************)
GoTo(screen) ==
    /\ targetScreen' = screen /\ isTransitioning' = TRUE
    /\ UNCHANGED currentScreen

SetState(state) ==
    /\ onlineState' = state
    /\ UNCHANGED <<onlineMatchActive, onlineMatchReady, onlineLastMatch>>

\* What main does about a failure: Connect, JoinGame, WaitForGame.
GiveUp ==
    /\ NetworkFails
    /\ onlineState' = "ERROR" /\ onlineLastMatch' = FALSE
    /\ onlineError' = TRUE
    /\ GoTo("HOME")

\* Faulty: the state is reset, the connection stays.
TakeCancelConnected ==
    /\ phase = "begin" /\ onlineMatchCancelRequested
    /\ onlineMatchCancelRequested' = FALSE /\ onlineMatchRequested' = FALSE
    /\ onlineMatchActive' = FALSE /\ onlineMatchReady' = FALSE
    /\ onlineState' = "IDLE" /\ onlineLastMatch' = FALSE
    /\ phase' = "wait"
    /\ UNCHANGED <<pageVars, onlineConnectOnly, wish, onlineError,
                   selectedSlot, windowVars, musicVars, netVars>>

TakeCancel ==
    /\ phase = "begin" /\ onlineMatchCancelRequested
    /\ onlineMatchCancelRequested' = FALSE /\ onlineMatchRequested' = FALSE
    /\ onlineMatchActive' = FALSE /\ onlineMatchReady' = FALSE
    /\ onlineState' = "IDLE" /\ onlineLastMatch' = FALSE
    /\ NetworkClient_Disconnect
    /\ phase' = "wait"
    /\ UNCHANGED <<pageVars, onlineConnectOnly, wish, onlineError,
                   selectedSlot, windowVars, musicVars>>

TakeRequest ==
    /\ phase = "begin" /\ ~ onlineMatchCancelRequested
    /\ onlineMatchRequested /\ onlineMatchRequested' = FALSE
    /\ onlineError' = FALSE
    /\ Prepare("DISCONNECTED") /\ selectedSlot' = NoSlot
    /\ phase' = "connect"
    /\ UNCHANGED <<pageVars, onlineMatchCancelRequested, onlineConnectOnly,
                   wish, matchVars, windowVars, musicVars>>

NothingAsked ==
    /\ phase = "begin"
    /\ ~ onlineMatchCancelRequested /\ ~ onlineMatchRequested
    /\ phase' = "wait"
    /\ UNCHANGED <<pageVars, askVars, matchVars, onlineError, selectedSlot,
                   windowVars, musicVars, netVars>>

\* Faulty: the next request is for information as well.
ConnectedForGood ==
    /\ phase = "connect" /\ onlineConnectOnly
    /\ NetworkClient_Connect("info")
    /\ SetState("IDLE")
    /\ phase' = "wait"
    /\ UNCHANGED <<pageVars, askVars, onlineError, selectedSlot, windowVars,
                   musicVars>>

Connected ==
    /\ phase = "connect" /\ onlineConnectOnly
    /\ NetworkClient_Connect("info")
    /\ SetState("IDLE") /\ onlineConnectOnly' = FALSE
    /\ phase' = "wait"
    /\ UNCHANGED <<pageVars, onlineMatchRequested, onlineMatchCancelRequested,
                   wish, onlineError, selectedSlot, windowVars, musicVars>>

Joined ==
    /\ phase = "connect" /\ ~ onlineConnectOnly
    /\ NetworkClient_Connect("match")
    /\ SetState("WAITING")
    /\ phase' = "wait"
    /\ UNCHANGED <<pageVars, askVars, onlineError, selectedSlot, windowVars,
                   musicVars>>

\* onlineConnectOnly stays as it is.
ConnectFails ==
    /\ phase = "connect"
    /\ GiveUp
    /\ phase' = "wait"
    /\ UNCHANGED <<askVars, onlineMatchActive, onlineMatchReady, selectedSlot,
                   windowVars, musicVars>>

\* NetworkClient_WaitForGame: no, or not yet, or the match has started, or an
\* error.
StillWaiting ==
    /\ phase = "wait" /\ phase' = "poll"
    /\ UNCHANGED <<pageVars, askVars, matchVars, onlineError, selectedSlot,
                   windowVars, musicVars, netVars>>

\* Faulty: the loading screen is not told.
MatchStartsUnseen(is_starting) ==
    /\ phase = "wait" /\ onlineState = "WAITING"
    /\ StartGame(is_starting) /\ selectedSlot' = NoSlot
    /\ onlineState' = "IN_GAME"
    /\ onlineMatchActive' = TRUE
    /\ phase' = "poll"
    /\ UNCHANGED <<pageVars, askVars, onlineMatchReady, onlineLastMatch,
                   onlineError, windowVars, musicVars>>

MatchStarts(is_starting) ==
    /\ phase = "wait" /\ onlineState = "WAITING"
    /\ StartGame(is_starting) /\ selectedSlot' = NoSlot
    /\ onlineState' = "IN_GAME"
    /\ onlineMatchReady' = TRUE /\ onlineMatchActive' = TRUE
    /\ phase' = "poll"
    /\ UNCHANGED <<pageVars, askVars, onlineLastMatch, onlineError,
                   windowVars, musicVars>>

LobbyFails ==
    /\ phase = "wait" /\ onlineState = "WAITING" /\ net = "IN_LOBBY"
    /\ GiveUp
    /\ phase' = "poll"
    /\ UNCHANGED <<askVars, onlineMatchActive, onlineMatchReady, selectedSlot,
                   windowVars, musicVars>>

(***************************************************************************)
(* NetworkClient_ProcessMessages drains the socket, message by message.    *)
(***************************************************************************)
ShouldPoll == phase = "poll" /\ net \in {"CONNECTED", "IN_GAME"}

KeepApp == UNCHANGED <<phase, pageVars, askVars, matchVars, onlineError,
                       windowVars, musicVars>>

\* Faulty: what is selected may not be a coin any more.
BoardArrivesSelected(board) ==
    /\ ShouldPoll /\ TakeGameState(board)
    /\ KeepApp /\ UNCHANGED selectedSlot

BoardArrives(board) ==
    /\ ShouldPoll /\ TakeGameState(board)
    /\ selectedSlot' = NoSlot
    /\ KeepApp

MessageArrives ==
    /\ ShouldPoll
    /\ TakePlay \/ \E b \in BOOLEAN : TakeAck(b) \/ TakeGameEnd(b)
    /\ KeepApp /\ UNCHANGED selectedSlot

PollFails ==
    /\ ShouldPoll
    /\ GiveUp
    /\ onlineMatchActive' = FALSE
    /\ phase' = "page"
    /\ UNCHANGED <<askVars, onlineMatchReady, selectedSlot, windowVars,
                   musicVars>>

PollDone ==
    /\ phase = "poll" /\ phase' = "page"
    /\ UNCHANGED <<pageVars, askVars, matchVars, onlineError, selectedSlot,
                   windowVars, musicVars, netVars>>
-----------------------------------------------------------------------------
(***************************************************************************)
(* The end of a match, the pages and the music.                            *)
(***************************************************************************)
MatchOver == onlineMatchActive /\ result # "none"

NoticeEnd ==
    IF MatchOver
    THEN /\ onlineMatchActive' = FALSE /\ onlineState' = "IDLE"
         /\ UNCHANGED <<onlineMatchReady, onlineLastMatch>>
    ELSE UNCHANGED matchVars

\* raylib: Stop does nothing to a stream that is silent, and so not to one
\* that is paused; Play also resumes.
Audible           == tracks.playing \ tracks.paused
Stopped(t, music) == IF music \in t.playing \ t.paused
                     THEN [t EXCEPT !.playing = @ \ {music}] ELSE t
Played(t, music)  == IF music \in loaded
                     THEN [playing |-> t.playing \cup {music},
                           paused  |-> t.paused \ {music}] ELSE t

TrackOf(screen) == IF screen \in {"HOME", "SHOP"} THEN "lobby" ELSE "song"

\* Faulty: the other track goes on.
UpdateBackgroundMusicBoth(screen) ==
    LET track == TrackOf(screen)
        plays == musicEnabled /\ loaded # {}
    IN  CASE ~ plays -> tracks
          [] plays /\ screen = "INTRO" ->
               Stopped(Stopped(tracks, "lobby"), "song")
          [] OTHER -> Played(tracks, track)

UpdateBackgroundMusic(screen) ==
    LET track == TrackOf(screen)
        other == CHOOSE t \in Streams : t # track
        plays == musicEnabled /\ loaded # {}
    IN  CASE ~ plays -> tracks
          [] plays /\ screen = "INTRO" ->
               Stopped(Stopped(tracks, "lobby"), "song")
          [] plays /\ screen # "INTRO" /\ track \in Audible -> tracks
          [] OTHER -> Played(Stopped(tracks, other), track)

EndOfNetworkCode ==
    /\ phase = "page" /\ phase' = "draw"
    /\ NoticeEnd
    /\ tracks' = UpdateBackgroundMusic(currentScreen')
    /\ UNCHANGED <<askVars, onlineError, selectedSlot, windowVars,
                   musicEnabled, loaded, netVars>>

\* The fade to black is complete.  How many frames it takes depends on how
\* long they take; one that has waited for a connection is enough.
PageTurns ==
    /\ isTransitioning
    /\ currentScreen' = targetScreen /\ isTransitioning' = FALSE
    /\ UNCHANGED targetScreen
    /\ EndOfNetworkCode

PageStays == UNCHANGED pageVars /\ EndOfNetworkCode
-----------------------------------------------------------------------------
(***************************************************************************)
(* The screens.  Each is drawn, and takes at most one click; w is the      *)
(* widget under it, or "none".                                             *)
(***************************************************************************)
KeepAsk == UNCHANGED <<askVars, matchVars, onlineError>>
KeepNet == UNCHANGED <<netVars, selectedSlot>>

\* PLAY and RETRY ask for a match, the popup for a connection.
Ask(p) ==
    /\ onlineMatchRequested' = TRUE /\ onlineState' = "CONNECTING"
    /\ onlineMatchActive' = FALSE /\ onlineMatchReady' = FALSE
    /\ onlineMatchCancelRequested' = FALSE /\ onlineError' = FALSE
    /\ onlineConnectOnly' = (onlineConnectOnly \/ p = "info")
    /\ onlineLastMatch' = (onlineLastMatch \/ p = "match")
    /\ wish' = p

Cancel ==
    /\ onlineMatchCancelRequested' = TRUE /\ wish' = "none"
    /\ UNCHANGED <<onlineMatchRequested, onlineConnectOnly>>

\* Until the video ends, or a click or a key.
DrawIntro(w) ==
    /\ currentScreen = "INTRO" /\ w \in {"none", "skip"}
    /\ currentScreen' = IF w = "skip" THEN "HOME" ELSE "INTRO"
    /\ UNCHANGED <<targetScreen, isTransitioning, showConnectionPopup>>
    /\ KeepAsk /\ KeepNet

\* The popup covers the screen, and the buttons under it still work.  What is
\* typed into its fields (a name, an address) is data.
ClickHome(w) ==
    /\ w \in {"none", "wifi", "shop"}
                \cup (IF onlineState = "IDLE" THEN {"play"} ELSE {})
    /\ CASE w = "play" -> Ask("match") /\ GoTo("LOADING")
         [] w = "shop" -> GoTo("SHOP") /\ KeepAsk
         [] OTHER      -> UNCHANGED pageVars /\ KeepAsk
    /\ showConnectionPopup' = (showConnectionPopup \/ w = "wifi")

ClickConnectionPopup(w) ==
    /\ showConnectionPopup /\ w \in {"close popup", "connect"}
    /\ showConnectionPopup' = FALSE
    /\ IF w = "connect" THEN Ask("info") ELSE KeepAsk
    /\ UNCHANGED pageVars

DrawHomeScreen(w) ==
    /\ currentScreen = "HOME"
    /\ ClickHome(w) \/ ClickConnectionPopup(w)
    /\ KeepNet

\* BUY and EQUIP are refused with a text, or sent; which, depends on the
\* connection, the player's copy of the profile and the coin that is shown.
ShopSends == net = "CONNECTED" /\ ~ waiting_for_ack

BuyOrEquip ==
    \/ UNCHANGED netVars /\ onlineError' = TRUE
    \/ ShopSends /\ UNCHANGED netVars /\ onlineError' = FALSE
    \/ ShopSends /\ NetworkFails /\ onlineError' = TRUE

DrawShopScreen(w) ==
    /\ currentScreen = "SHOP" /\ w \in {"none", "back", "buy or equip"}
    /\ IF w = "back" THEN GoTo("HOME") ELSE UNCHANGED pageVars
    /\ IF w = "buy or equip" THEN BuyOrEquip
                             ELSE UNCHANGED <<netVars, onlineError>>
    /\ UNCHANGED <<askVars, matchVars, selectedSlot, showConnectionPopup>>

\* Faulty: the match that is ready goes first.
DrawLoadingScreenReady(w) ==
    /\ currentScreen = "LOADING" /\ w \in {"none", "cancel"}
    /\ IF w = "cancel" THEN Cancel /\ onlineError' = TRUE
                       ELSE UNCHANGED <<askVars, onlineError>>
    /\ onlineMatchReady' = FALSE
    /\ onlineMatchActive' = (onlineMatchActive \/ onlineMatchReady)
    /\ UNCHANGED <<onlineState, onlineLastMatch>>
    /\ CASE onlineMatchReady                   -> GoTo("GAME")
         [] ~ onlineMatchReady /\ w = "cancel" -> GoTo("HOME")
         [] OTHER                              -> UNCHANGED pageVars
    /\ UNCHANGED showConnectionPopup /\ KeepNet

DrawLoadingScreen(w) ==
    /\ currentScreen = "LOADING" /\ w \in {"none", "cancel"}
    /\ IF w = "cancel" THEN Cancel /\ onlineError' = TRUE
                       ELSE UNCHANGED <<askVars, onlineError>>
    /\ onlineMatchReady' = FALSE
    /\ onlineMatchActive' = (onlineMatchActive \/ onlineMatchReady)
    /\ UNCHANGED <<onlineState, onlineLastMatch>>
    /\ CASE w = "cancel"                      -> GoTo("HOME")
         [] w # "cancel" /\ onlineMatchReady  -> GoTo("GAME")
         [] OTHER                             -> UNCHANGED pageVars
    /\ UNCHANGED showConnectionPopup /\ KeepNet

(***************************************************************************)
(* The board.  Neighbouring slots overlap: a click hits one or two of      *)
(* them, and they are handled one after the other.  A hit is the first of  *)
(* them and the last.                                                      *)
(***************************************************************************)
Hits == {hit \in Cells \X Cells : hit[2] \in {hit[1], hit[1] + 1}}

\* Faulty: slots are counted from one, as the server counts them.
ClickSlotFromOne(c, i) == [c EXCEPT !.slot = i + 1]

\* A click on slot i: c.slot is selectedSlot, c.move whether the slots clicked
\* so far made a move, c.error whether one was impossible.
ClickSlot(c, i) ==
    CASE view[i] # 0 -> [c EXCEPT !.slot = i]
      [] view[i] = 0 /\ c.slot = NoSlot -> c
      [] OTHER ->
           LET valid == ClientMoveIsValid(view, c.slot, i)
           IN  [slot |-> NoSlot, move |-> c.move \/ valid,
                error |-> c.error \/ ~ valid]

MayMove == result = "none" /\ NetworkClient_IsOurTurn

ClickSlots(c, hit) ==
    LET first == ClickSlot(c, hit[1])
    IN  IF hit[2] = hit[1] THEN first ELSE ClickSlot(first, hit[2])

ClickBoard(hit) ==
    LET c == ClickSlots(
                 [slot |-> selectedSlot, move |-> FALSE, error |-> FALSE], hit)
    IN  /\ onlineMatchActive /\ MayMove
        /\ selectedSlot' = c.slot
        /\ \/ ~ c.move /\ UNCHANGED netVars
                /\ onlineError' = (onlineError \/ c.error)
           \/ c.move /\ NetworkClient_SendMove /\ onlineError' = FALSE
           \/ c.move /\ CanSend /\ NetworkFails /\ onlineError' = TRUE
           \/ c.move /\ ~ CanSend /\ UNCHANGED netVars /\ onlineError' = TRUE

\* Without a match (main shows the screen until the page turns) a click may
\* still select a coin, as currentPlayer has it, and makes no move.
ClickIdleBoard(hit) ==
    /\ ~ onlineMatchActive /\ result = "none"
    /\ selectedSlot' \in {selectedSlot, NoSlot}
                           \cup (CoinsOf(view) \cap {hit[2]})
    /\ UNCHANGED <<netVars, onlineError>>

\* The button, in place of which a match has none.
Restart ==
    /\ ~ onlineMatchActive
    /\ view' = NoCoins /\ result' = "none" /\ selectedSlot' = NoSlot
    /\ UNCHANGED <<net, is_our_turn, waiting_for_ack, onlineError>>

\* What main does after DrawGameScreen, whichever screen that has set.
ScreenAfterGame(w) ==
    CASE result' = "won"                 -> "VICTORY"
      [] result' = "lost"                -> "GAMEOVER"
      [] result' = "none" /\ w = "menu"  -> "HOME"
      [] OTHER                           -> "GAME"

DrawGameScreen(w) ==
    /\ currentScreen = "GAME" /\ w \in {"none", "slot", "restart", "menu"}
    /\ CASE w = "slot"    -> \E hit \in Hits :
                                ClickBoard(hit) \/ ClickIdleBoard(hit)
         [] w = "restart" -> Restart
         [] OTHER         -> KeepNet /\ UNCHANGED onlineError
    /\ IF w = "menu" /\ onlineMatchActive THEN Cancel ELSE UNCHANGED askVars
    /\ currentScreen' = ScreenAfterGame(w)
    /\ onlineLastMatch' = (onlineLastMatch /\ result' = "none")
    /\ UNCHANGED <<targetScreen, isTransitioning, onlineState,
                   onlineMatchActive, onlineMatchReady, showConnectionPopup>>

\* RETRY; CONTINUE and MENU.
ClickEndScreen(w) ==
    /\ w \in {"none", "menu", "retry"}
    /\ CASE w = "retry" -> Ask("match") /\ GoTo("LOADING")
         [] w = "menu"  -> KeepAsk /\ GoTo("HOME")
         [] OTHER       -> KeepAsk /\ UNCHANGED pageVars
    /\ UNCHANGED showConnectionPopup /\ KeepNet

DrawVictoryScreen(w)  == currentScreen = "VICTORY" /\ ClickEndScreen(w)
DrawGameOverScreen(w) == currentScreen = "GAMEOVER" /\ ClickEndScreen(w)

(***************************************************************************)
(* The settings button and panel, drawn last; o is their widget under the  *)
(* click.  The volumes and the frame counter are left out.                 *)
(***************************************************************************)
DrawSettingsButton(o) ==
    /\ o \in {"none", "button"}
    /\ showSettings' = IF o = "button" THEN ~ showSettings ELSE showSettings
    /\ UNCHANGED musicVars

ToggleMusic ==
    /\ musicEnabled' = ~ musicEnabled
    /\ tracks' = [tracks EXCEPT !.paused = IF musicEnabled THEN loaded ELSE {}]
    /\ UNCHANGED loaded

DrawSettingsPanel(o) ==
    /\ showSettings /\ o \in {"close panel", "music"}
    /\ showSettings' = (o # "close panel")
    /\ IF o = "music" THEN ToggleMusic ELSE UNCHANGED musicVars

\* The panel is drawn over the popup and over the board, which take the click
\* as well; during the intro every click skips it.
UnderOnePoint(w, o) ==
    IF currentScreen = "INTRO"
    THEN o # "none" => w = "skip"
    ELSE \/ w = "none" \/ o = "none"
         \/ <<w, o>> \in {<<"connect", "music">>, <<"slot", "close panel">>}

Widgets == {"none", "skip", "wifi", "play", "shop", "close popup", "connect",
            "back", "buy or equip", "cancel", "slot", "restart", "menu",
            "retry"}
Overlay == {"none", "button", "close panel", "music"}

Draw ==
    /\ phase = "draw" /\ phase' = "begin"
    /\ \E w \in Widgets, o \in Overlay :
         /\ UnderOnePoint(w, o)
         /\ \/ DrawIntro(w) \/ DrawHomeScreen(w) \/ DrawShopScreen(w)
            \/ DrawLoadingScreen(w) \/ DrawGameScreen(w)
            \/ DrawVictoryScreen(w) \/ DrawGameOverScreen(w)
         /\ DrawSettingsButton(o) \/ DrawSettingsPanel(o)
-----------------------------------------------------------------------------
Begin == TakeCancel \/ TakeRequest \/ NothingAsked
Attempt == Connected \/ Joined \/ ConnectFails
Wait ==
    \/ StillWaiting \/ LobbyFails
    \/ \E is_starting \in BOOLEAN : MatchStarts(is_starting)
Poll ==
    \/ PollDone \/ PollFails \/ MessageArrives
    \/ \E board \in Boards : BoardArrives(board)

Next ==
    \/ CloseWindow
    \/ Begin \/ Attempt \/ Wait \/ Poll \/ PageTurns \/ PageStays \/ Draw

Spec == Init /\ [][Next]_vars

(***************************************************************************)
(* Frame follows frame: what arrives is finite, so that ProcessMessages    *)
(* returns.  The alpha of a fade grows in every frame and no click resets  *)
(* it, so that a page that is asked for turns.  Nothing is assumed of      *)
(* Connect, which can block for ever (see Session), nor of the user.       *)
(***************************************************************************)
Fairness ==
    /\ WF_vars(Begin) /\ WF_vars(Wait)
    /\ WF_vars(PollDone) /\ WF_vars(PageStays) /\ WF_vars(Draw)
    /\ SF_vars(PageTurns)

FairSpec == Spec /\ Fairness
-----------------------------------------------------------------------------
\* The types of the variables.
TypeOK ==
    /\ NetTypeOK
    /\ phase \in Phases
    /\ currentScreen \in Screens /\ targetScreen \in Screens
    /\ onlineState \in {"IDLE", "CONNECTING", "WAITING", "IN_GAME", "ERROR"}
    /\ {isTransitioning, onlineMatchRequested, onlineMatchCancelRequested,
        onlineConnectOnly, onlineMatchActive, onlineMatchReady,
        onlineLastMatch, onlineError, showConnectionPopup, showSettings,
        musicEnabled} \subseteq BOOLEAN
    /\ selectedSlot \in Cells \cup {NoSlot}
    /\ loaded \in LoadAssets
    /\ tracks \in [playing : SUBSET loaded, paused : SUBSET loaded]
    /\ wish \in {"none", "match", "info"}

\* The interface never forgets a connection that the server counts as a player:
\* while the client is in a lobby or in a match, onlineState says so, whatever
\* was clicked, cancelled or retried during a fade.  Nor does it wait for a
\* match without being in a lobby.
NoForgottenMatch ==
    /\ net = "IN_LOBBY" => onlineState \in {"WAITING", "CONNECTING"}
    /\ net = "IN_GAME"  => onlineState \in {"IN_GAME", "CONNECTING"}
    /\ onlineState = "WAITING" => net = "IN_LOBBY"
    /\ onlineState = "ERROR" => net = "ERROR"

\* A request joins a match exactly if that is what the user asked for last:
\* the flag of the popup, which a failed connection leaves set, never turns a
\* later PLAY or RETRY into a mere connection.
MatchRequestJoins ==
    onlineMatchRequested => (onlineConnectOnly <=> wish = "info")

\* After Cancel no match comes on the screen until the user asks for one, even
\* if the match starts in the frame of the click, or while a page turns.
CancelSticks == currentScreen = "GAME" => wish = "match"

\* What is selected on the board is a coin: no GAME_STATE, match or restart
\* leaves a selection behind on a cell that has none now.
SelectionIsCoin == selectedSlot # NoSlot => view[selectedSlot] = 1

\* As a frame is drawn the track of its screen plays, if there is one, and no
\* other, or nothing if music is off, in whichever order screens and settings
\* have changed.
OneTrack ==
    phase = "draw" =>
        Audible = IF musicEnabled /\ currentScreen # "INTRO"
                  THEN {TrackOf(currentScreen)} \cap loaded ELSE {}

\* What is saved when the client exits is what it finds when it starts again,
\* although it asks for the keys one by one where SaveConfig has put them, and
\* a key it does not find keeps a value from the stack.  (That the settings are
\* those of any start is why it is enough to look during the intro.)
SavedSettingsReload ==
    phase = "begin" /\ currentScreen = "INTRO" =>
        \A config, garbage \in Configs :
            config.MusicEnabled = musicEnabled => Reloads(config, garbage)

\* The loading screen is left when its match has started, and when it never
\* will: the connection was refused, or lost.
LoadingEnds ==
    (currentScreen = "LOADING" /\ onlineState \in {"IN_GAME", "ERROR"})
        ~> currentScreen # "LOADING"
=============================================================================
