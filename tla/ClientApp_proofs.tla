-------------------------- MODULE ClientApp_proofs --------------------------
(***************************************************************************)
(* Theorems about the client application, for a board of any size and any  *)
(* order of clicks, messages, failures and fades.                          *)
(***************************************************************************)
EXTENDS ClientApp, WellFoundedInduction, TLAPS

(***************************************************************************)
(* The inductive invariant.  A request and a cancellation are taken up at  *)
(* the head of the next frame, and are never both under way.               *)
(***************************************************************************)
FlagsInv ==
    /\ phase # "begin" => ~ onlineMatchRequested /\ ~ onlineMatchCancelRequested
    /\ ~ (onlineMatchRequested /\ onlineMatchCancelRequested)
    /\ onlineState = "CONNECTING" <=> onlineMatchRequested \/ phase = "connect"

\* A match that is awaited or on has no result yet.
ConnectionInv ==
    /\ NoForgottenMatch
    /\ phase = "connect" => net = "DISCONNECTED" /\ result = "none"
    /\ net \in {"IN_LOBBY", "IN_GAME"} => result = "none"

\* onlineConnectOnly outlives a failed connection, but then the client is in
\* an error on two screens from which nobody asks for a match.
ConnectOnlyInv ==
    onlineConnectOnly =>
        /\ currentScreen \in {"HOME", "SHOP"}
        /\ ~ onlineMatchActive /\ ~ onlineMatchReady
        /\ ~ onlineMatchCancelRequested
        /\ \/ wish = "info" /\ (onlineMatchRequested \/ phase = "connect")
           \/ /\ onlineState = "ERROR"
              /\ isTransitioning => targetScreen \in {"HOME", "SHOP"}

\* What leads to a match is what the user asked for last, or is cancelled in
\* the next block.
WishInv ==
    /\ onlineMatchRequested => wish \in {"match", "info"}
    /\ MatchRequestJoins
    /\ phase = "connect" /\ ~ onlineConnectOnly => wish = "match"
    /\ onlineMatchReady \/ onlineState = "WAITING" =>
          wish = "match" \/ onlineMatchCancelRequested
    /\ isTransitioning /\ targetScreen = "GAME" =>
          currentScreen = "LOADING" /\ wish = "match"
    /\ CancelSticks

\* Only one stream has been started, and all are paused while music is off.
MusicInv ==
    /\ tracks.playing # Streams
    /\ IF musicEnabled THEN tracks.paused = {} ELSE Audible = {}
    /\ OneTrack

FrameInv == FlagsInv /\ ConnectionInv /\ ConnectOnlyInv /\ WishInv

ClientInv == TypeOK /\ FrameInv /\ SelectionIsCoin /\ MusicInv

\* TypeOK, of the variables that the screens change and of the others.
ScreenTypes ==
    /\ NetTypeOK
    /\ phase \in Phases
    /\ currentScreen \in Screens /\ targetScreen \in Screens
    /\ onlineState \in {"IDLE", "CONNECTING", "WAITING", "IN_GAME", "ERROR"}
    /\ {isTransitioning, onlineMatchRequested, onlineMatchCancelRequested,
        onlineConnectOnly, onlineMatchActive, onlineMatchReady,
        onlineLastMatch, onlineError, showConnectionPopup} \subseteq BOOLEAN
    /\ selectedSlot \in Cells \cup {NoSlot}
    /\ wish \in {"none", "match", "info"}

\* The flags among them.
FlagTypes ==
    {isTransitioning, onlineMatchRequested, onlineMatchCancelRequested,
     onlineConnectOnly, onlineMatchActive, onlineMatchReady,
     onlineLastMatch, onlineError, showConnectionPopup} \subseteq BOOLEAN

MusicTypes ==
    /\ {showSettings, musicEnabled} \subseteq BOOLEAN
    /\ loaded \in LoadAssets
    /\ tracks \in [playing : SUBSET loaded, paused : SUBSET loaded]

ScreenInv == ScreenTypes /\ FrameInv /\ SelectionIsCoin

LEMMA ClientInvParts ==
    /\ ClientInv <=> ScreenInv /\ MusicTypes /\ MusicInv
    /\ ClientInv' <=> ScreenInv' /\ MusicTypes' /\ MusicInv'
  BY DEF ClientInv, ScreenInv, TypeOK, ScreenTypes, MusicTypes

LEMMA TracksTyped ==
    ASSUME MusicTypes
    PROVE  /\ tracks = [playing |-> tracks.playing, paused |-> tracks.paused]
           /\ tracks.playing \subseteq loaded /\ tracks.paused \subseteq loaded
           /\ loaded \in {{}, {"lobby"}, {"lobby", "song"}}
           /\ musicEnabled \in BOOLEAN
  BY DEF MusicTypes, LoadAssets, Streams
-----------------------------------------------------------------------------
(***************************************************************************)
(* The music, which the blocks of the network code and the screens leave   *)
(* alone.                                                                  *)
(***************************************************************************)
LEMMA MusicGoesOn ==
    ASSUME MusicTypes, MusicInv, phase' # "draw", UNCHANGED musicVars,
           UNCHANGED showSettings
    PROVE  MusicTypes' /\ MusicInv'
  BY DEF MusicTypes, MusicInv, OneTrack, Audible, musicVars

\* What UpdateBackgroundMusic makes of the tracks: that of the screen plays,
\* if there is one, and no other.
LEMMA MusicFollows ==
    ASSUME MusicTypes, MusicInv, phase' = "draw",
           UNCHANGED <<musicEnabled, loaded, showSettings>>,
           tracks' = UpdateBackgroundMusic(currentScreen')
    PROVE  MusicTypes' /\ MusicInv'
<1> DEFINE screen == currentScreen'
           track  == TrackOf(screen)
           other  == CHOOSE t \in Streams : t # track
<1> USE DEF MusicTypes, Streams
<1>1. CASE ~ musicEnabled \/ loaded = {}
  <2>1. tracks' = tracks
    BY <1>1 DEF UpdateBackgroundMusic
  <2> QED
    BY <1>1, <2>1, TracksTyped DEF MusicInv, OneTrack, Audible
<1>2. CASE musicEnabled /\ loaded # {}
  <2>1. tracks.paused = {}
    BY <1>2 DEF MusicInv
  <2>2. CASE screen = "INTRO"
    <3>1. tracks' = Stopped(Stopped(tracks, "lobby"), "song")
      BY <1>2, <2>2 DEF UpdateBackgroundMusic
    <3>2. tracks' = [playing |-> {}, paused |-> {}]
      BY <3>1, <2>1, TracksTyped DEF Stopped
    <3> QED
      BY <3>2, <2>2, <1>2 DEF MusicInv, OneTrack, Audible
  <2>3. CASE screen # "INTRO"
    <3>1. \/ track = "lobby" /\ other = "song"
          \/ track = "song" /\ other = "lobby"
      BY DEF TrackOf
    <3>2. tracks' = [playing |-> {track} \cap loaded, paused |-> {}]
      <4>1. CASE track \in Audible
        <5>1. tracks' = tracks
          BY <1>2, <2>3, <4>1 DEF UpdateBackgroundMusic
        <5>2. tracks.playing = {track} /\ track \in loaded
          BY <4>1, <3>1, TracksTyped DEF Audible, MusicInv
        <5> QED
          BY <5>1, <5>2, <2>1, TracksTyped
      <4>2. CASE track \notin Audible
        <5>1. tracks' = Played(Stopped(tracks, other), track)
          BY <1>2, <2>3, <4>2 DEF UpdateBackgroundMusic
        <5>2. Stopped(tracks, other) = [playing |-> {}, paused |-> {}]
          BY <3>1, <4>2, <2>1, TracksTyped DEF Stopped, Audible
        <5>3. Played([playing |-> {}, paused |-> {}], track)
                = [playing |-> {track} \cap loaded, paused |-> {}]
          BY <3>1, TracksTyped DEF Played
        <5> QED
          BY <5>1, <5>2, <5>3
      <4> QED
        BY <4>1, <4>2
    <3> HIDE DEF track
    <3> QED
      BY <3>1, <3>2, <2>3, <1>2 DEF MusicInv, OneTrack, Audible, track
  <2> QED
    BY <2>2, <2>3
<1> QED
  BY <1>1, <1>2

\* The settings button and panel, of which one key is for the music.
LEMMA SettingsStep ==
    ASSUME MusicTypes, MusicInv, phase' = "begin", NEW o,
           DrawSettingsButton(o) \/ DrawSettingsPanel(o)
    PROVE  MusicTypes' /\ MusicInv'
<1> USE DEF DrawSettingsButton, DrawSettingsPanel
<1>1. CASE UNCHANGED musicVars
  BY <1>1 DEF MusicTypes, MusicInv, OneTrack, Audible, musicVars
<1>2. CASE ToggleMusic
  BY <1>2, TracksTyped
  DEF MusicTypes, MusicInv, OneTrack, Audible, ToggleMusic
<1> QED
  BY <1>1, <1>2
-----------------------------------------------------------------------------
(***************************************************************************)
(* The blocks at the head of a frame.                                      *)
(***************************************************************************)
LEMMA CloseWindowStep ==
    ASSUME ScreenInv, CloseWindow
    PROVE  ScreenInv'
<1> USE DEF ScreenInv, FrameInv, NoSlot, CloseWindow, Prepare, Drop, NoCoins,
            pageVars, askVars, matchVars, windowVars, netVars
<1>1. ScreenTypes'
  BY DEF ScreenTypes, NetTypeOK, Phases, Screens, Boards
<1>2. FlagsInv' /\ ConnectionInv' /\ ConnectOnlyInv'
  BY DEF ScreenTypes, NetTypeOK, FlagsInv, ConnectionInv, NoForgottenMatch,
         ConnectOnlyInv
<1>3. WishInv'
  BY DEF FlagsInv, ConnectionInv, NoForgottenMatch, ConnectOnlyInv, WishInv,
         MatchRequestJoins, CancelSticks
<1>4. SelectionIsCoin'
  BY DEF SelectionIsCoin
<1> QED
  BY <1>1, <1>2, <1>3, <1>4

LEMMA TakeCancelStep ==
    ASSUME ScreenInv, TakeCancel
    PROVE  ScreenInv'
<1> USE DEF ScreenInv, FrameInv, NoSlot, TakeCancel, NetworkClient_Disconnect,
            Drop, pageVars, askVars, matchVars, windowVars, netVars
<1>1. ScreenTypes'
  BY DEF ScreenTypes, NetTypeOK, Phases, Screens, Boards
<1>2. FlagsInv' /\ ConnectionInv' /\ ConnectOnlyInv'
  BY DEF ScreenTypes, NetTypeOK, FlagsInv, ConnectionInv, NoForgottenMatch,
         ConnectOnlyInv
<1>3. WishInv'
  BY DEF FlagsInv, ConnectionInv, NoForgottenMatch, ConnectOnlyInv, WishInv,
         MatchRequestJoins, CancelSticks
<1>4. SelectionIsCoin'
  BY DEF SelectionIsCoin
<1> QED
  BY <1>1, <1>2, <1>3, <1>4

LEMMA TakeRequestStep ==
    ASSUME ScreenInv, TakeRequest
    PROVE  ScreenInv'
<1> USE DEF ScreenInv, FrameInv, NoSlot, TakeRequest, Prepare, Drop, NoCoins,
            pageVars, askVars, matchVars, windowVars, netVars
<1>1. ScreenTypes'
  BY DEF ScreenTypes, NetTypeOK, Phases, Screens, Boards
<1>2. FlagsInv' /\ ConnectionInv' /\ ConnectOnlyInv'
  BY DEF ScreenTypes, NetTypeOK, FlagsInv, ConnectionInv, NoForgottenMatch,
         ConnectOnlyInv
<1>3. WishInv'
  BY DEF FlagsInv, ConnectionInv, NoForgottenMatch, ConnectOnlyInv, WishInv,
         MatchRequestJoins, CancelSticks
<1>4. SelectionIsCoin'
  BY DEF SelectionIsCoin
<1> QED
  BY <1>1, <1>2, <1>3, <1>4

LEMMA NothingAskedStep ==
    ASSUME ScreenInv, NothingAsked
    PROVE  ScreenInv'
<1> USE DEF ScreenInv, FrameInv, NoSlot, NothingAsked, pageVars, askVars,
            matchVars, windowVars, netVars
<1>1. ScreenTypes'
  BY DEF ScreenTypes, NetTypeOK, Phases, Screens, Boards
<1>2. FlagsInv' /\ ConnectionInv' /\ ConnectOnlyInv'
  BY DEF ScreenTypes, NetTypeOK, FlagsInv, ConnectionInv, NoForgottenMatch,
         ConnectOnlyInv
<1>3. WishInv'
  BY DEF FlagsInv, ConnectionInv, NoForgottenMatch, ConnectOnlyInv, WishInv,
         MatchRequestJoins, CancelSticks
<1>4. SelectionIsCoin'
  BY DEF SelectionIsCoin
<1> QED
  BY <1>1, <1>2, <1>3, <1>4

LEMMA ConnectedStep ==
    ASSUME ScreenInv, Connected
    PROVE  ScreenInv'
<1> USE DEF ScreenInv, FrameInv, NoSlot, Connected, NetworkClient_Connect,
            SetState, pageVars, askVars, matchVars, windowVars, netVars
<1>1. ScreenTypes'
  <2>1. NetTypeOK'
    BY DEF ScreenTypes, NetTypeOK, Boards
  <2>2. /\ phase' \in Phases
        /\ currentScreen' \in Screens /\ targetScreen' \in Screens
        /\ onlineState' \in
              {"IDLE", "CONNECTING", "WAITING", "IN_GAME", "ERROR"}
    BY DEF ScreenTypes, Phases, Screens
  <2>3. FlagTypes'
    BY DEF ScreenTypes, FlagTypes
  <2>4. /\ selectedSlot' \in Cells \cup {NoSlot}
        /\ wish' \in {"none", "match", "info"}
    BY DEF ScreenTypes
  <2> QED
    BY <2>1, <2>2, <2>3, <2>4 DEF ScreenTypes, FlagTypes
<1>2. FlagsInv' /\ ConnectionInv' /\ ConnectOnlyInv'
  BY DEF ScreenTypes, NetTypeOK, FlagsInv, ConnectionInv, NoForgottenMatch,
         ConnectOnlyInv
<1>3. WishInv'
  BY DEF FlagsInv, ConnectionInv, NoForgottenMatch, ConnectOnlyInv, WishInv,
         MatchRequestJoins, CancelSticks
<1>4. SelectionIsCoin'
  BY DEF SelectionIsCoin
<1> QED
  BY <1>1, <1>2, <1>3, <1>4

LEMMA JoinedStep ==
    ASSUME ScreenInv, Joined
    PROVE  ScreenInv'
<1> USE DEF ScreenInv, FrameInv, NoSlot, Joined, NetworkClient_Connect,
            SetState, pageVars, askVars, matchVars, windowVars, netVars
<1>1. ScreenTypes'
  BY DEF ScreenTypes, NetTypeOK, Phases, Screens, Boards
<1>2. FlagsInv' /\ ConnectionInv' /\ ConnectOnlyInv'
  BY DEF ScreenTypes, NetTypeOK, FlagsInv, ConnectionInv, NoForgottenMatch,
         ConnectOnlyInv
<1>3. WishInv'
  BY DEF FlagsInv, ConnectionInv, NoForgottenMatch, ConnectOnlyInv, WishInv,
         MatchRequestJoins, CancelSticks
<1>4. SelectionIsCoin'
  BY DEF SelectionIsCoin
<1> QED
  BY <1>1, <1>2, <1>3, <1>4

LEMMA ConnectFailsStep ==
    ASSUME ScreenInv, ConnectFails
    PROVE  ScreenInv'
<1> USE DEF ScreenInv, FrameInv, NoSlot, ConnectFails, GiveUp, NetworkFails,
            GoTo, pageVars, askVars, matchVars, windowVars, netVars
<1>1. ScreenTypes'
  BY DEF ScreenTypes, NetTypeOK, Phases, Screens, Boards
<1>2. FlagsInv' /\ ConnectionInv' /\ ConnectOnlyInv'
  BY DEF ScreenTypes, NetTypeOK, FlagsInv, ConnectionInv, NoForgottenMatch,
         ConnectOnlyInv
<1>3. WishInv'
  BY DEF FlagsInv, ConnectionInv, NoForgottenMatch, ConnectOnlyInv, WishInv,
         MatchRequestJoins, CancelSticks
<1>4. SelectionIsCoin'
  BY DEF SelectionIsCoin
<1> QED
  BY <1>1, <1>2, <1>3, <1>4

LEMMA StillWaitingStep ==
    ASSUME ScreenInv, StillWaiting
    PROVE  ScreenInv'
<1> USE DEF ScreenInv, FrameInv, NoSlot, StillWaiting, pageVars, askVars,
            matchVars, windowVars, netVars
<1>1. ScreenTypes'
  BY DEF ScreenTypes, NetTypeOK, Phases, Screens, Boards
<1>2. FlagsInv' /\ ConnectionInv' /\ ConnectOnlyInv'
  BY DEF ScreenTypes, NetTypeOK, FlagsInv, ConnectionInv, NoForgottenMatch,
         ConnectOnlyInv
<1>3. WishInv'
  BY DEF FlagsInv, ConnectionInv, NoForgottenMatch, ConnectOnlyInv, WishInv,
         MatchRequestJoins, CancelSticks
<1>4. SelectionIsCoin'
  BY DEF SelectionIsCoin
<1> QED
  BY <1>1, <1>2, <1>3, <1>4

LEMMA MatchStartsStep ==
    ASSUME ScreenInv, NEW b \in BOOLEAN, MatchStarts(b)
    PROVE  ScreenInv'
<1> USE DEF ScreenInv, FrameInv, NoSlot, MatchStarts, StartGame, NoCoins,
            pageVars, askVars, matchVars, windowVars, netVars
<1>1. ScreenTypes'
  BY DEF ScreenTypes, NetTypeOK, Phases, Screens, Boards
<1>2. FlagsInv' /\ ConnectionInv' /\ ConnectOnlyInv'
  BY DEF ScreenTypes, NetTypeOK, FlagsInv, ConnectionInv, NoForgottenMatch,
         ConnectOnlyInv
<1>3. WishInv'
  BY DEF FlagsInv, ConnectionInv, NoForgottenMatch, ConnectOnlyInv, WishInv,
         MatchRequestJoins, CancelSticks
<1>4. SelectionIsCoin'
  BY DEF SelectionIsCoin
<1> QED
  BY <1>1, <1>2, <1>3, <1>4

LEMMA LobbyFailsStep ==
    ASSUME ScreenInv, LobbyFails
    PROVE  ScreenInv'
<1> USE DEF ScreenInv, FrameInv, NoSlot, LobbyFails, GiveUp, NetworkFails,
            GoTo, pageVars, askVars, matchVars, windowVars, netVars
<1>1. ScreenTypes'
  BY DEF ScreenTypes, NetTypeOK, Phases, Screens, Boards
<1>2. FlagsInv' /\ ConnectionInv' /\ ConnectOnlyInv'
  BY DEF ScreenTypes, NetTypeOK, FlagsInv, ConnectionInv, NoForgottenMatch,
         ConnectOnlyInv
<1>3. WishInv'
  BY DEF FlagsInv, ConnectionInv, NoForgottenMatch, ConnectOnlyInv, WishInv,
         MatchRequestJoins, CancelSticks
<1>4. SelectionIsCoin'
  BY DEF SelectionIsCoin
<1> QED
  BY <1>1, <1>2, <1>3, <1>4

LEMMA PollDoneStep ==
    ASSUME ScreenInv, PollDone
    PROVE  ScreenInv'
<1> USE DEF ScreenInv, FrameInv, NoSlot, PollDone, pageVars, askVars,
            matchVars, windowVars, netVars
<1>1. ScreenTypes'
  BY DEF ScreenTypes, NetTypeOK, Phases, Screens, Boards
<1>2. FlagsInv' /\ ConnectionInv' /\ ConnectOnlyInv'
  BY DEF ScreenTypes, NetTypeOK, FlagsInv, ConnectionInv, NoForgottenMatch,
         ConnectOnlyInv
<1>3. WishInv'
  BY DEF FlagsInv, ConnectionInv, NoForgottenMatch, ConnectOnlyInv, WishInv,
         MatchRequestJoins, CancelSticks
<1>4. SelectionIsCoin'
  BY DEF SelectionIsCoin
<1> QED
  BY <1>1, <1>2, <1>3, <1>4

LEMMA PollFailsStep ==
    ASSUME ScreenInv, PollFails
    PROVE  ScreenInv'
<1> USE DEF ScreenInv, FrameInv, NoSlot, PollFails, ShouldPoll, GiveUp,
            NetworkFails, GoTo, pageVars, askVars, matchVars, windowVars,
            netVars
<1>1. ScreenTypes'
  BY DEF ScreenTypes, NetTypeOK, Phases, Screens, Boards
<1>2. FlagsInv' /\ ConnectionInv' /\ ConnectOnlyInv'
  BY DEF ScreenTypes, NetTypeOK, FlagsInv, ConnectionInv, NoForgottenMatch,
         ConnectOnlyInv
<1>3. WishInv'
  BY DEF FlagsInv, ConnectionInv, NoForgottenMatch, ConnectOnlyInv, WishInv,
         MatchRequestJoins, CancelSticks
<1>4. SelectionIsCoin'
  BY DEF SelectionIsCoin
<1> QED
  BY <1>1, <1>2, <1>3, <1>4

LEMMA MessageArrivesStep ==
    ASSUME ScreenInv, MessageArrives
    PROVE  ScreenInv'
<1> USE DEF ScreenInv, FrameInv, NoSlot, MessageArrives, ShouldPoll, KeepApp,
            pageVars, askVars, matchVars, windowVars, netVars
<1> USE DEF TakePlay, TakeAck, TakeGameEnd, Drop
<1>0. NetTypeOK'
  BY DEF ScreenTypes, NetTypeOK
<1>1. ScreenTypes'
  BY <1>0 DEF ScreenTypes
<1>2. FlagsInv' /\ ConnectionInv' /\ ConnectOnlyInv'
  BY DEF ScreenTypes, NetTypeOK, FlagsInv, ConnectionInv, NoForgottenMatch,
         ConnectOnlyInv
<1>3. WishInv'
  BY DEF FlagsInv, ConnectionInv, NoForgottenMatch, ConnectOnlyInv, WishInv,
         MatchRequestJoins, CancelSticks
<1>4. SelectionIsCoin'
  BY DEF SelectionIsCoin
<1> QED
  BY <1>1, <1>2, <1>3, <1>4

LEMMA BoardArrivesStep ==
    ASSUME ScreenInv, NEW board \in Boards, BoardArrives(board)
    PROVE  ScreenInv'
<1> USE DEF ScreenInv, FrameInv, NoSlot, BoardArrives, ShouldPoll,
            TakeGameState, KeepApp, pageVars, askVars, matchVars, windowVars,
            netVars
<1>1. ScreenTypes'
  BY DEF ScreenTypes, NetTypeOK, Phases, Screens, Boards
<1>2. FlagsInv' /\ ConnectionInv' /\ ConnectOnlyInv'
  BY DEF ScreenTypes, NetTypeOK, FlagsInv, ConnectionInv, NoForgottenMatch,
         ConnectOnlyInv
<1>3. WishInv'
  BY DEF FlagsInv, ConnectionInv, NoForgottenMatch, ConnectOnlyInv, WishInv,
         MatchRequestJoins, CancelSticks
<1>4. SelectionIsCoin'
  BY DEF SelectionIsCoin
<1> QED
  BY <1>1, <1>2, <1>3, <1>4

LEMMA PageStep ==
    ASSUME ScreenInv, PageTurns \/ PageStays
    PROVE  ScreenInv'
<1> USE DEF ScreenInv, FrameInv, NoSlot, PageTurns, PageStays,
            EndOfNetworkCode, NoticeEnd, MatchOver, pageVars, askVars,
            matchVars, windowVars, netVars
<1>1. ScreenTypes'
  BY DEF ScreenTypes, NetTypeOK, Phases, Screens, Boards
<1>2. FlagsInv' /\ ConnectionInv' /\ ConnectOnlyInv'
  BY DEF ScreenTypes, NetTypeOK, FlagsInv, ConnectionInv, NoForgottenMatch,
         ConnectOnlyInv
<1>3. WishInv'
  BY DEF FlagsInv, ConnectionInv, NoForgottenMatch, ConnectOnlyInv, WishInv,
         MatchRequestJoins, CancelSticks
<1>4. SelectionIsCoin'
  BY DEF SelectionIsCoin
<1> QED
  BY <1>1, <1>2, <1>3, <1>4

-----------------------------------------------------------------------------
(***************************************************************************)
(* The screens.                                                            *)
(***************************************************************************)
LEMMA DrawIntroStep ==
    ASSUME ScreenInv, phase = "draw", phase' = "begin",
           NEW w \in Widgets, DrawIntro(w)
    PROVE  ScreenInv'
<1> USE DEF ScreenInv, FrameInv, NoSlot, DrawIntro, KeepAsk, KeepNet,
            pageVars, askVars, matchVars, windowVars, netVars
<1>1. ScreenTypes'
  BY DEF ScreenTypes, NetTypeOK, Phases, Screens, Boards
<1>2. FlagsInv' /\ ConnectionInv' /\ ConnectOnlyInv'
  BY DEF ScreenTypes, NetTypeOK, FlagsInv, ConnectionInv, NoForgottenMatch,
         ConnectOnlyInv
<1>3. WishInv'
  BY DEF FlagsInv, ConnectionInv, NoForgottenMatch, ConnectOnlyInv, WishInv,
         MatchRequestJoins, CancelSticks
<1>4. SelectionIsCoin'
  BY DEF SelectionIsCoin
<1> QED
  BY <1>1, <1>2, <1>3, <1>4

\* PLAY is not there while onlineConnectOnly is set: onlineState is ERROR.
LEMMA DrawHomeScreenStep ==
    ASSUME ScreenInv, phase = "draw", phase' = "begin",
           NEW w \in Widgets, DrawHomeScreen(w)
    PROVE  ScreenInv'
<1> USE DEF ScreenInv, FrameInv, NoSlot, DrawHomeScreen, ClickHome,
            ClickConnectionPopup, Ask, GoTo, KeepAsk, KeepNet, pageVars,
            askVars, matchVars, windowVars, netVars
<1>1. ScreenTypes'
  <2>1. NetTypeOK'
    BY DEF ScreenTypes, NetTypeOK, Boards
  <2>2. /\ phase' \in Phases
        /\ currentScreen' \in Screens /\ targetScreen' \in Screens
        /\ onlineState' \in
              {"IDLE", "CONNECTING", "WAITING", "IN_GAME", "ERROR"}
    BY DEF ScreenTypes, Phases, Screens
  <2>3. FlagTypes'
    BY DEF ScreenTypes, FlagTypes
  <2>4. /\ selectedSlot' \in Cells \cup {NoSlot}
        /\ wish' \in {"none", "match", "info"}
    BY DEF ScreenTypes
  <2> QED
    BY <2>1, <2>2, <2>3, <2>4 DEF ScreenTypes, FlagTypes
<1>2. ~ onlineConnectOnly \/ onlineState = "ERROR"
  BY DEF FlagsInv, ConnectOnlyInv
<1>3. CASE w = "play" /\ Ask("match") /\ GoTo("LOADING")
  <2>1. ~ onlineConnectOnly /\ ~ onlineConnectOnly'
    BY <1>2, <1>3
  <2> QED
    BY <1>1, <1>3, <2>1
    DEF FlagsInv, ConnectionInv, NoForgottenMatch, ConnectOnlyInv, WishInv,
        MatchRequestJoins, CancelSticks, SelectionIsCoin
<1>4. CASE w = "connect" /\ Ask("info") /\ UNCHANGED pageVars
  BY <1>1, <1>4
  DEF FlagsInv, ConnectionInv, NoForgottenMatch, ConnectOnlyInv, WishInv,
      MatchRequestJoins, CancelSticks, SelectionIsCoin
<1>5. CASE KeepAsk
  <2>0. /\ currentScreen' = currentScreen
        /\ \/ targetScreen' = targetScreen /\ isTransitioning' = isTransitioning
           \/ targetScreen' = "SHOP"
        /\ KeepNet
    BY <1>5
  <2> HIDE DEF DrawHomeScreen
  <2>1. FlagsInv' /\ ConnectionInv' /\ ConnectOnlyInv'
    BY <1>5, <2>0
    DEF FlagsInv, ConnectionInv, NoForgottenMatch, ConnectOnlyInv
  <2>2. WishInv'
    BY <1>5, <2>0 DEF WishInv, MatchRequestJoins, CancelSticks
  <2> QED
    BY <1>1, <2>0, <2>1, <2>2 DEF SelectionIsCoin
<1> QED
  BY <1>3, <1>4, <1>5

LEMMA DrawShopScreenStep ==
    ASSUME ScreenInv, phase = "draw", phase' = "begin",
           NEW w \in Widgets, DrawShopScreen(w)
    PROVE  ScreenInv'
<1> USE DEF ScreenInv, FrameInv, NoSlot, DrawShopScreen, BuyOrEquip,
            ShopSends, NetworkFails, GoTo, pageVars, askVars, matchVars,
            windowVars, netVars
<1>1. ScreenTypes'
  BY DEF ScreenTypes, NetTypeOK, Phases, Screens, Boards
<1>2. FlagsInv' /\ ConnectionInv' /\ ConnectOnlyInv'
  <2>1. FlagsInv'
    BY DEF ScreenTypes, NetTypeOK, FlagsInv
  <2>2. ConnectionInv'
    BY DEF ScreenTypes, NetTypeOK, FlagsInv, ConnectionInv, NoForgottenMatch
  <2>3. ConnectOnlyInv'
    BY DEF ScreenTypes, NetTypeOK, FlagsInv, ConnectionInv, NoForgottenMatch,
           ConnectOnlyInv
  <2> QED
    BY <2>1, <2>2, <2>3
<1>3. WishInv'
  BY DEF FlagsInv, ConnectionInv, NoForgottenMatch, ConnectOnlyInv, WishInv,
         MatchRequestJoins, CancelSticks
<1>4. SelectionIsCoin'
  BY DEF SelectionIsCoin
<1> QED
  BY <1>1, <1>2, <1>3, <1>4

LEMMA DrawLoadingScreenStep ==
    ASSUME ScreenInv, phase = "draw", phase' = "begin",
           NEW w \in Widgets, DrawLoadingScreen(w)
    PROVE  ScreenInv'
<1> USE DEF ScreenInv, FrameInv, NoSlot, DrawLoadingScreen, Cancel, GoTo,
            KeepNet, pageVars, askVars, matchVars, windowVars, netVars
<1>1. ScreenTypes'
  <2>1. NetTypeOK'
    BY DEF ScreenTypes, NetTypeOK, Boards
  <2>2. /\ phase' \in Phases
        /\ currentScreen' \in Screens /\ targetScreen' \in Screens
        /\ onlineState' \in
              {"IDLE", "CONNECTING", "WAITING", "IN_GAME", "ERROR"}
    BY DEF ScreenTypes, Phases, Screens
  <2>3. FlagTypes'
    BY DEF ScreenTypes, FlagTypes
  <2>4. /\ selectedSlot' \in Cells \cup {NoSlot}
        /\ wish' \in {"none", "match", "info"}
    BY DEF ScreenTypes
  <2> QED
    BY <2>1, <2>2, <2>3, <2>4 DEF ScreenTypes, FlagTypes
<1>2. FlagsInv' /\ ConnectionInv' /\ ConnectOnlyInv'
  BY DEF ScreenTypes, NetTypeOK, FlagsInv, ConnectionInv, NoForgottenMatch,
         ConnectOnlyInv
<1>3. WishInv'
  BY DEF FlagsInv, ConnectionInv, NoForgottenMatch, ConnectOnlyInv, WishInv,
         MatchRequestJoins, CancelSticks
<1>4. SelectionIsCoin'
  BY DEF SelectionIsCoin
<1> QED
  BY <1>1, <1>2, <1>3, <1>4

LEMMA DrawEndScreenStep ==
    ASSUME ScreenInv, phase = "draw", phase' = "begin",
           NEW w \in Widgets, DrawVictoryScreen(w) \/ DrawGameOverScreen(w)
    PROVE  ScreenInv'
<1> USE DEF ScreenInv, FrameInv, NoSlot, DrawVictoryScreen,
            DrawGameOverScreen, ClickEndScreen, Ask, GoTo, KeepAsk, KeepNet,
            pageVars, askVars, matchVars, windowVars, netVars
<1>1. ScreenTypes'
  BY DEF ScreenTypes, NetTypeOK, Phases, Screens, Boards
<1>2. FlagsInv' /\ ConnectionInv' /\ ConnectOnlyInv'
  BY DEF ScreenTypes, NetTypeOK, FlagsInv, ConnectionInv, NoForgottenMatch,
         ConnectOnlyInv
<1>3. WishInv'
  BY DEF FlagsInv, ConnectionInv, NoForgottenMatch, ConnectOnlyInv, WishInv,
         MatchRequestJoins, CancelSticks
<1>4. SelectionIsCoin'
  BY DEF SelectionIsCoin
<1> QED
  BY <1>1, <1>2, <1>3, <1>4

(***************************************************************************)
(* The board.                                                              *)
(***************************************************************************)
Selects(slot) ==
    slot \in Cells \cup {NoSlot} /\ (slot # NoSlot => view[slot] = 1)

Clicks == [slot : Cells \cup {NoSlot}, move : BOOLEAN, error : BOOLEAN]

\* A click, on one or two slots, selects a coin or nothing.
LEMMA ClickSelects ==
    ASSUME view \in Boards, NEW c \in Clicks, Selects(c.slot),
           NEW i \in Cells
    PROVE  ClickSlot(c, i) \in Clicks /\ Selects(ClickSlot(c, i).slot)
<1> USE DEF Selects, ClickSlot, Clicks
<1>1. CASE view[i] # 0
  <2>1. view[i] = 1 /\ ClickSlot(c, i) = [c EXCEPT !.slot = i]
    BY <1>1 DEF Boards
  <2> QED
    BY <2>1
<1>2. CASE view[i] = 0 /\ c.slot = NoSlot
  BY <1>2
<1>3. CASE view[i] = 0 /\ c.slot # NoSlot
  <2> DEFINE valid == ClientMoveIsValid(view, c.slot, i)
  <2>1. valid \in BOOLEAN
    BY DEF ClientMoveIsValid
  <2>2. ClickSlot(c, i) = [slot |-> NoSlot, move |-> c.move \/ valid,
                           error |-> c.error \/ ~ valid]
    BY <1>3
  <2> HIDE DEF valid, ClickSlot
  <2> QED
    BY <2>1, <2>2
<1> QED
  BY <1>1, <1>2, <1>3

LEMMA ClicksSelect ==
    ASSUME ScreenTypes, SelectionIsCoin, NEW hit \in Hits,
           NEW c \in Clicks, c.slot = selectedSlot
    PROVE  Selects(ClickSlots(c, hit).slot)
<1>1. view \in Boards /\ hit[1] \in Cells /\ hit[2] \in Cells
  BY DEF ScreenTypes, NetTypeOK, Hits
<1>2. Selects(c.slot)
  BY DEF ScreenTypes, SelectionIsCoin, Selects
<1>3. ClickSlot(c, hit[1]) \in Clicks /\ Selects(ClickSlot(c, hit[1]).slot)
  BY <1>1, <1>2, ClickSelects
<1>4. Selects(ClickSlot(ClickSlot(c, hit[1]), hit[2]).slot)
  BY <1>1, <1>3, ClickSelects
<1> QED
  BY <1>3, <1>4 DEF ClickSlots

\* A click on the board changes the selection and the network client.
LEMMA ClickBoardEffect ==
    ASSUME ScreenInv, NEW hit \in Hits, ClickBoard(hit) \/ ClickIdleBoard(hit)
    PROVE  /\ Selects(selectedSlot') /\ view' = view /\ result' = result
           /\ NetTypeOK' /\ (net' # net => net = "IN_GAME" /\ net' = "ERROR")
           /\ onlineError' \in BOOLEAN
<1> DEFINE c == ClickSlots(
                 [slot |-> selectedSlot, move |-> FALSE, error |-> FALSE], hit)
<1> USE DEF ScreenInv, ScreenTypes
<1>1. CASE ClickBoard(hit)
  <2>1. Selects(c.slot)
    <3>1. [slot |-> selectedSlot, move |-> FALSE, error |-> FALSE] \in Clicks
      BY DEF Clicks
    <3> QED
      BY <3>1, ClicksSelect
  <2>2. /\ MayMove /\ selectedSlot' = c.slot
        /\ UNCHANGED netVars \/ NetworkClient_SendMove \/ NetworkFails
    BY <1>1 DEF ClickBoard
  <2>3. onlineError' \in BOOLEAN
    <3> HIDE DEF c
    <3> QED
      BY <1>1 DEF ClickBoard
  <2> HIDE DEF c
  <2> USE DEF MayMove, NetworkClient_IsOurTurn, NetworkClient_SendMove,
              NetworkFails, netVars
  <2>4. NetTypeOK'
    BY <2>2 DEF NetTypeOK
  <2>5. /\ view' = view /\ result' = result
        /\ net' # net => net = "IN_GAME" /\ net' = "ERROR"
    BY <2>2
  <2> QED
    BY <2>1, <2>2, <2>3, <2>4, <2>5
<1>2. CASE ClickIdleBoard(hit)
  <2>1. UNCHANGED netVars /\ onlineError' \in BOOLEAN
    BY <1>2 DEF ClickIdleBoard
  <2>2. Selects(selectedSlot')
    BY <1>2 DEF ClickIdleBoard, Selects, SelectionIsCoin, CoinsOf
  <2>3. NetTypeOK'
    BY <2>1 DEF netVars, NetTypeOK
  <2> QED
    BY <2>1, <2>2, <2>3 DEF netVars
<1> QED
  BY <1>1, <1>2

LEMMA DrawGameScreenStep ==
    ASSUME ScreenInv, phase = "draw", phase' = "begin",
           NEW w \in Widgets, DrawGameScreen(w)
    PROVE  ScreenInv'
<1>1. /\ Selects(selectedSlot)' /\ NetTypeOK'
      /\ net' # net => net = "IN_GAME" /\ net' = "ERROR"
      /\ result' = result \/ result' = "none"
      /\ onlineError' \in BOOLEAN
  <2>1. CASE w = "slot"
    <3>1. PICK hit \in Hits : ClickBoard(hit) \/ ClickIdleBoard(hit)
      BY <2>1 DEF DrawGameScreen
    <3> QED
      BY <3>1, ClickBoardEffect DEF Selects
  <2>2. CASE w = "restart"
    <3>1. Restart
      BY <2>2 DEF DrawGameScreen
    <3>2. NetTypeOK'
      BY <3>1 DEF Restart, ScreenInv, ScreenTypes, NetTypeOK, NoCoins, Boards
    <3> QED
      BY <3>1, <3>2 DEF Restart, Selects, ScreenInv, ScreenTypes
  <2>3. CASE w \notin {"slot", "restart"}
    <3>1. KeepNet /\ UNCHANGED onlineError
      BY <2>3 DEF DrawGameScreen
    <3>2. NetTypeOK'
      BY <3>1 DEF KeepNet, netVars, ScreenInv, ScreenTypes, NetTypeOK
    <3> QED
      BY <3>1, <3>2
      DEF KeepNet, netVars, Selects, ScreenInv, ScreenTypes, SelectionIsCoin
  <2> QED
    BY <2>1, <2>2, <2>3
<1> USE DEF ScreenInv, FrameInv
<1>2. currentScreen' \in {"GAME", "HOME", "VICTORY", "GAMEOVER"}
  BY DEF DrawGameScreen, ScreenAfterGame
<1>3. ScreenTypes'
  BY <1>1, <1>2
  DEF DrawGameScreen, Cancel, ScreenTypes, Screens, Phases, Selects, askVars
<1>4. FlagsInv' /\ ConnectionInv' /\ ConnectOnlyInv'
  BY <1>1
  DEF DrawGameScreen, Cancel, askVars, FlagsInv, ConnectionInv,
      NoForgottenMatch, ConnectOnlyInv
<1>5. currentScreen' = "GAME" => w # "menu"
  BY <1>1, <1>3
  DEF DrawGameScreen, ScreenAfterGame, ScreenTypes, NetTypeOK
<1>6. WishInv'
  BY <1>5
  DEF DrawGameScreen, Cancel, askVars, WishInv, MatchRequestJoins,
      CancelSticks, FlagsInv
<1> QED
  BY <1>1, <1>3, <1>4, <1>6 DEF Selects, SelectionIsCoin
-----------------------------------------------------------------------------

(***************************************************************************)
(* The invariant.                                                          *)
(***************************************************************************)
LEMMA ClientInit == Init => ClientInv
<1> SUFFICES ASSUME Init PROVE ClientInv
  OBVIOUS
<1> USE DEF Init, NetInit
<1>1. ScreenTypes
  BY DEF ScreenTypes, NetTypeOK, Phases, Screens, NoCoins, Boards
<1>2. FrameInv /\ SelectionIsCoin
  BY DEF FrameInv, FlagsInv, ConnectionInv, NoForgottenMatch, ConnectOnlyInv,
         WishInv, MatchRequestJoins, CancelSticks, SelectionIsCoin
<1>3. MusicTypes /\ MusicInv
  BY DEF Silence, MusicTypes, MusicInv, OneTrack, Audible, Streams
<1> QED
  BY <1>1, <1>2, <1>3, ClientInvParts DEF ScreenInv

\* The screen and the settings over it take the same click, and change
\* different variables.
LEMMA DrawStep == ASSUME ClientInv, Draw PROVE ClientInv'
<1>1. PICK w \in Widgets, o \in Overlay :
        /\ \/ DrawIntro(w) \/ DrawHomeScreen(w) \/ DrawShopScreen(w)
           \/ DrawLoadingScreen(w) \/ DrawGameScreen(w)
           \/ DrawVictoryScreen(w) \/ DrawGameOverScreen(w)
        /\ DrawSettingsButton(o) \/ DrawSettingsPanel(o)
  BY DEF Draw
<1>2. phase = "draw" /\ phase' = "begin"
  BY DEF Draw
<1>3. ScreenInv'
  BY <1>1, <1>2, ClientInvParts, DrawIntroStep, DrawHomeScreenStep,
     DrawShopScreenStep, DrawLoadingScreenStep, DrawGameScreenStep,
     DrawEndScreenStep
<1>4. MusicTypes' /\ MusicInv'
  BY <1>1, <1>2, ClientInvParts, SettingsStep
<1> QED
  BY <1>3, <1>4, ClientInvParts

LEMMA ClientStep == ASSUME ClientInv, [Next]_vars PROVE ClientInv'
<1> USE ClientInvParts
<1>1. CASE CloseWindow
  <2>1. MusicTypes' /\ MusicInv'
    BY <1>1
    DEF CloseWindow, Silence, MusicTypes, MusicInv, OneTrack, Audible,
        LoadAssets, Streams
  <2> QED
    BY <1>1, <2>1, CloseWindowStep
<1>2. CASE Begin \/ Attempt \/ Wait \/ Poll
  <2>1. ScreenInv'
    BY <1>2, TakeCancelStep, TakeRequestStep, NothingAskedStep, ConnectedStep,
       JoinedStep, ConnectFailsStep, StillWaitingStep, MatchStartsStep,
       LobbyFailsStep, PollDoneStep, PollFailsStep, MessageArrivesStep,
       BoardArrivesStep
    DEF Begin, Attempt, Wait, Poll
  <2>2. phase' # "draw" /\ UNCHANGED musicVars /\ UNCHANGED showSettings
    BY <1>2
    DEF Begin, Attempt, Wait, Poll, TakeCancel, TakeRequest, NothingAsked,
        Connected, Joined, ConnectFails, StillWaiting, MatchStarts,
        LobbyFails, PollDone, PollFails, MessageArrives, BoardArrives,
        ShouldPoll, KeepApp, windowVars
  <2> QED
    BY <2>1, <2>2, MusicGoesOn
<1>3. CASE PageTurns \/ PageStays
  <2>1. MusicTypes' /\ MusicInv'
    BY <1>3, MusicFollows
    DEF PageTurns, PageStays, EndOfNetworkCode, windowVars
  <2> QED
    BY <1>3, <2>1, PageStep
<1>4. CASE Draw
  BY <1>4, DrawStep
<1>5. CASE UNCHANGED vars
  BY <1>5
  DEF vars, pageVars, askVars, matchVars, windowVars, musicVars, netVars,
      ClientInv, TypeOK, NetTypeOK, FrameInv, FlagsInv, ConnectionInv,
      NoForgottenMatch, ConnectOnlyInv, WishInv, MatchRequestJoins,
      CancelSticks, SelectionIsCoin, MusicInv, OneTrack, Audible
<1> QED
  BY <1>1, <1>2, <1>3, <1>4, <1>5 DEF Next

LEMMA ClientAlways == Spec => []ClientInv
  BY ClientInit, ClientStep, PTL DEF Spec

\* The variables of the loop and of the network client stay within their types.
THEOREM ClientTyped == Spec => []TypeOK
  BY ClientAlways, PTL DEF ClientInv

\* Whatever is clicked, cancelled or retried while pages turn, the interface
\* knows of the lobby or the match that the server counts the client in.
THEOREM MatchNeverForgotten == Spec => []NoForgottenMatch
  BY ClientAlways, PTL DEF ClientInv, FrameInv, ConnectionInv

\* PLAY and RETRY join a match and the popup only connects, although the flag
\* that tells them apart survives a connection that failed.
THEOREM RequestJoinsAsAsked == Spec => []MatchRequestJoins
  BY ClientAlways, PTL DEF ClientInv, FrameInv, WishInv

\* A cancelled match never comes on the screen, even if it starts in the frame
\* of the click.
THEOREM CancelledMatchStaysAway == Spec => []CancelSticks
  BY ClientAlways, PTL DEF ClientInv, FrameInv, WishInv

\* What is selected is a coin of the board that is shown, whichever of two
\* overlapping slots took the click and whatever has arrived since.
THEOREM SelectionStaysCoin == Spec => []SelectionIsCoin
  BY ClientAlways, PTL DEF ClientInv

\* The track of the screen plays and no other, although raylib does not stop a
\* stream that is paused, and one of the files may be missing.
THEOREM TrackOfTheScreen == Spec => []OneTrack
  BY ClientAlways, PTL DEF ClientInv, MusicInv
-----------------------------------------------------------------------------
(***************************************************************************)
(* What is read of a file that SaveConfig has written.                     *)
(***************************************************************************)
\* Induction, for a set of numbers.
LEMMA EveryNumber ==
    ASSUME NEW S \in SUBSET Nat, 0 \in S, \A n \in S : n + 1 \in S
    PROVE  S = Nat
<1> DEFINE T == Nat \ S
<1>1. SUFFICES ASSUME T # {} PROVE FALSE
  OBVIOUS
<1>2. PICK m \in T : \A y \in T : ~ <<y, m>> \in OpToRel(<, Nat)
  <2>1. T \subseteq Nat
    OBVIOUS
  <2> QED
    BY ONLY <1>1, <2>1, WFMin, NatLessThanWellFounded, Zenon
<1>3. m - 1 \in Nat /\ m - 1 < m
  OBVIOUS
<1>4. m - 1 \in S
  BY <1>2, <1>3 DEF OpToRel
<1> QED
  BY <1>4

\* The line that is read last.
LEMMA GreatestIsMax ==
    ASSUME NEW s \in SUBSET Int, NEW m \in s, \A i \in s : i <= m
    PROVE  Max(s) = m
<1>1. \E x \in s : \A y \in s : x >= y
  OBVIOUS
<1>2. Max(s) \in s /\ \A y \in s : Max(s) >= y
  BY <1>1, Zenon DEF Max
<1>3. Max(s) \in Int /\ m \in Int /\ Max(s) <= m /\ Max(s) >= m
  BY <1>2
<1> QED
  BY <1>3

\* What FoldLeft defines: a function of the sets of lines that are still to be
\* read, for a file of which the first n lines count.
Folds(g, base, file, n) ==
    g = [s \in SUBSET (1..n) |->
           IF s = {} THEN base
           ELSE ReadLine(g[s \ {Max(s)}], file[Max(s)])]

\* There is such a function: a line more is read after the lines before it.
LEMMA FoldExists ==
    ASSUME NEW file, NEW base, NEW n \in Nat
    PROVE  \E g : Folds(g, base, file, n)
<1> DEFINE Body(g, s) == IF s = {} THEN base
                         ELSE ReadLine(g[s \ {Max(s)}], file[Max(s)])
           Reads(g, k) == g = [s \in SUBSET (1..k) |-> Body(g, s)]
           K == {k \in Nat : \E g : Reads(g, k)}
<1>1. 0 \in K
  <2> DEFINE g == [s \in {{}} |-> base]
  <2>1. SUBSET (1..0) = {{}}
    OBVIOUS
  <2>2. g = [s \in {{}} |-> Body(g, s)]
    OBVIOUS
  <2>3. Reads(g, 0)
    BY <2>1, <2>2, Zenon
  <2> QED
    BY <2>3
<1>2. ASSUME NEW k \in K PROVE k + 1 \in K
  <2>1. PICK g : Reads(g, k)
    OBVIOUS
  <2> DEFINE h == [s \in SUBSET (1..(k + 1)) |-> IF k + 1 \in s
                      THEN ReadLine(g[s \ {k + 1}], file[k + 1]) ELSE g[s]]
  <2>2. ASSUME NEW s \in SUBSET (1..(k + 1)) PROVE h[s] = Body(h, s)
    <3>1. CASE k + 1 \in s
      <4>1. Max(s) = k + 1
        BY <3>1, GreatestIsMax
      <4>2. s \ {k + 1} \in SUBSET (1..k)
        OBVIOUS
      <4>3. h[s \ {k + 1}] = g[s \ {k + 1}]
        BY <4>2
      <4> QED
        BY <3>1, <4>1, <4>3
    <3>2. CASE k + 1 \notin s
      <4>1. s \in SUBSET (1..k)
        BY <3>2
      <4>2. g[s] = Body(g, s)
        BY <2>1, <4>1
      <4>3. h[s \ {Max(s)}] = g[s \ {Max(s)}]
        BY <4>1, <3>2
      <4> QED
        BY <3>2, <4>2, <4>3
    <3> QED
      BY <3>1, <3>2
  <2>3. Reads(h, k + 1)
    BY <2>2
  <2>4. \E f : Reads(f, k + 1)
    BY <2>3, Zenon
  <2> HIDE DEF Reads
  <2> QED
    BY <2>4
<1>3. K = Nat
  <2>1. K \subseteq Nat
    OBVIOUS
  <2> HIDE DEF K
  <2> QED
    BY <1>1, <1>2, <2>1, EveryNumber
<1> QED
  BY <1>3 DEF Folds


\* What has been read after each of the n lines.
Loads(read, lines, n, garbage) ==
    /\ read[0] = [config |-> garbage, section |-> ""]
    /\ \A i \in 1..n : read[i] = ReadLine(read[i - 1], lines[i])
    /\ LoadConfig(lines, garbage) = read[n].config

LEMMA LoadStepwise ==
    ASSUME NEW n \in Nat, NEW lines, DOMAIN lines = 1..n, NEW garbage
    PROVE  \E read : Loads(read, lines, n, garbage)
<1> DEFINE base == [config |-> garbage, section |-> ""]
           iter == CHOOSE g : Folds(g, base, lines, n)
           read == [i \in 0..n |-> iter[1..i]]
<1>1. Folds(iter, base, lines, n)
  <2>1. \E g : Folds(g, base, lines, n)
    BY FoldExists, Zenon
  <2> QED
    BY <2>1, Zenon
<1>2. LoadConfig(lines, garbage) = iter[1..n].config
  BY DEF LoadConfig, FoldLeft, MapThenFoldSet, Folds
<1> HIDE DEF iter
<1>3. iter[{}] = base
  BY <1>1 DEF Folds
<1>4. ASSUME NEW i \in 1..n PROVE iter[1..i] = ReadLine(iter[1..(i-1)], lines[i])
  <2>1. Max(1..i) = i
    <3>1. 1..i \in SUBSET Int /\ i \in 1..i /\ \A j \in 1..i : j <= i
      OBVIOUS
    <3> QED
      BY <3>1, GreatestIsMax
  <2>2. (1..i) \ {i} = 1..(i - 1)
    <3>1. \A j : j \in (1..i) \ {i} <=> j \in 1..(i - 1)
      OBVIOUS
    <3> QED
      BY <3>1, Zenon
  <2>3. 1..i # {} /\ 1..i \in SUBSET (1..n)
    OBVIOUS
  <2> QED
    BY <1>1, <2>1, <2>2, <2>3 DEF Folds
<1>5. 1..0 = {}
  OBVIOUS
<1>6. read[0] = base
  <2>1. read[0] = iter[1..0]
    OBVIOUS
  <2> QED
    BY <1>3, <1>5, <2>1, Zenon
<1>7. ASSUME NEW i \in 1..n PROVE read[i] = ReadLine(read[i - 1], lines[i])
  BY <1>4
<1>8. LoadConfig(lines, garbage) = read[n].config
  BY <1>2
<1> HIDE DEF read
<1> QED
  BY <1>6, <1>7, <1>8 DEF Loads

\* The parser between two lines, and what each kind of line does to it.
Reading(config, section) == [config |-> config, section |-> section]

LEMMA ReadsOther ==
    ASSUME NEW config, NEW section
    PROVE  ReadLine(Reading(config, section), Other) = Reading(config, section)
  BY DEF ReadLine, Reading, Other

LEMMA ReadsSection ==
    ASSUME NEW config, NEW section, NEW name
    PROVE  ReadLine(Reading(config, section), Section(name)) = Reading(config, name)
  BY DEF ReadLine, Reading, Section

LEMMA ReadsAssign ==
    ASSUME NEW config, NEW section, NEW key \in DOMAIN SectionsOf, NEW value,
           section \in SectionsOf[key]
    PROVE  ReadLine(Reading(config, section), Assign(key, value))
             = Reading([config EXCEPT ![key] = Value(Assign(key, value))], section)
<1> DEFINE line == Assign(key, value)
           read == Reading(config, section)
<1>1. line.kind = "assign" /\ line.key = key
  BY DEF Assign
<1>2. read.section = section /\ read.config = config
  BY DEF Reading
<1>3. ReadLine(read, line) = [read EXCEPT !.config[line.key] = Value(line)]
  <2> HIDE DEF line, read
  <2> QED
    BY <1>1, <1>2 DEF ReadLine
<1>4. [read EXCEPT !.config[key] = Value(line)]
        = [config |-> [config EXCEPT ![key] = Value(line)], section |-> section]
  BY DEF Reading
<1> QED
  BY <1>1, <1>3, <1>4 DEF Reading

\* The settings, field by field.
Settings(m, s, e, a, p, f) ==
    [MusicVolume |-> m, SFXVolume |-> s, MusicEnabled |-> e,
     ServerIP |-> a, ServerPort |-> p, ShowFPS |-> f]

\* SectionsOf, key by key.
LEMMA KeysOfSections ==
    /\ SectionsOf["MusicVolume"] = {"Audio"} /\ SectionsOf["SFXVolume"] = {"Audio"}
    /\ SectionsOf["MusicEnabled"] = {"Audio"}
    /\ SectionsOf["ServerIP"] = {"Network"} /\ SectionsOf["ServerPort"] = {"Network"}
    /\ SectionsOf["ShowFPS"] = {"Game", "Display"}
    /\ DOMAIN SectionsOf = {"MusicVolume", "SFXVolume", "MusicEnabled",
                            "ServerIP", "ServerPort", "ShowFPS"}
  BY DEF SectionsOf

LEMMA ValuesRead ==
    ASSUME NEW v
    PROVE  /\ Value(Assign("ServerIP", v)) = [v EXCEPT !.blanks = 0]
           /\ \A key : key # "ServerIP" => Value(Assign(key, v)) = v
  BY DEF Value, Assign

\* Each key, in the section where SaveConfig puts it.
LEMMA ReadsMusicVolume ==
    ASSUME NEW m, NEW s, NEW e, NEW a, NEW p, NEW f, NEW v
    PROVE  ReadLine(Reading(Settings(m, s, e, a, p, f), "Audio"),
                    Assign("MusicVolume", v))
             = Reading(Settings(v, s, e, a, p, f), "Audio")
<1> DEFINE old == Settings(m, s, e, a, p, f)
<1>1. ReadLine(Reading(old, "Audio"), Assign("MusicVolume", v))
        = Reading([old EXCEPT !["MusicVolume"] = Value(Assign("MusicVolume", v))], "Audio")
  <2>1. "MusicVolume" \in DOMAIN SectionsOf /\ "Audio" \in SectionsOf["MusicVolume"]
    BY KeysOfSections
  <2> HIDE DEF old
  <2> QED
    BY <2>1, ReadsAssign
<1>2. Value(Assign("MusicVolume", v)) = v
  BY ValuesRead
<1>3. [old EXCEPT !["MusicVolume"] = v] = Settings(v, s, e, a, p, f)
  BY DEF Settings
<1> QED
  BY <1>1, <1>2, <1>3

LEMMA ReadsSFXVolume ==
    ASSUME NEW m, NEW s, NEW e, NEW a, NEW p, NEW f, NEW v
    PROVE  ReadLine(Reading(Settings(m, s, e, a, p, f), "Audio"),
                    Assign("SFXVolume", v))
             = Reading(Settings(m, v, e, a, p, f), "Audio")
<1> DEFINE old == Settings(m, s, e, a, p, f)
<1>1. ReadLine(Reading(old, "Audio"), Assign("SFXVolume", v))
        = Reading([old EXCEPT !["SFXVolume"] = Value(Assign("SFXVolume", v))], "Audio")
  <2>1. "SFXVolume" \in DOMAIN SectionsOf /\ "Audio" \in SectionsOf["SFXVolume"]
    BY KeysOfSections
  <2> HIDE DEF old
  <2> QED
    BY <2>1, ReadsAssign
<1>2. Value(Assign("SFXVolume", v)) = v
  BY ValuesRead
<1>3. [old EXCEPT !["SFXVolume"] = v] = Settings(m, v, e, a, p, f)
  BY DEF Settings
<1> QED
  BY <1>1, <1>2, <1>3

LEMMA ReadsMusicEnabled ==
    ASSUME NEW m, NEW s, NEW e, NEW a, NEW p, NEW f, NEW v
    PROVE  ReadLine(Reading(Settings(m, s, e, a, p, f), "Audio"),
                    Assign("MusicEnabled", v))
             = Reading(Settings(m, s, v, a, p, f), "Audio")
<1> DEFINE old == Settings(m, s, e, a, p, f)
<1>1. ReadLine(Reading(old, "Audio"), Assign("MusicEnabled", v))
        = Reading([old EXCEPT !["MusicEnabled"] = Value(Assign("MusicEnabled", v))], "Audio")
  <2>1. "MusicEnabled" \in DOMAIN SectionsOf /\ "Audio" \in SectionsOf["MusicEnabled"]
    BY KeysOfSections
  <2> HIDE DEF old
  <2> QED
    BY <2>1, ReadsAssign
<1>2. Value(Assign("MusicEnabled", v)) = v
  BY ValuesRead
<1>3. [old EXCEPT !["MusicEnabled"] = v] = Settings(m, s, v, a, p, f)
  BY DEF Settings
<1> QED
  BY <1>1, <1>2, <1>3

LEMMA ReadsServerIP ==
    ASSUME NEW m, NEW s, NEW e, NEW a, NEW p, NEW f, NEW v
    PROVE  ReadLine(Reading(Settings(m, s, e, a, p, f), "Network"),
                    Assign("ServerIP", v))
             = Reading(Settings(m, s, e, [v EXCEPT !.blanks = 0], p, f), "Network")
<1> DEFINE old == Settings(m, s, e, a, p, f)
<1>1. ReadLine(Reading(old, "Network"), Assign("ServerIP", v))
        = Reading([old EXCEPT !["ServerIP"] = Value(Assign("ServerIP", v))], "Network")
  <2>1. "ServerIP" \in DOMAIN SectionsOf /\ "Network" \in SectionsOf["ServerIP"]
    BY KeysOfSections
  <2> HIDE DEF old
  <2> QED
    BY <2>1, ReadsAssign
<1>2. Value(Assign("ServerIP", v)) = [v EXCEPT !.blanks = 0]
  BY ValuesRead
<1>3. [old EXCEPT !["ServerIP"] = [v EXCEPT !.blanks = 0]] = Settings(m, s, e, [v EXCEPT !.blanks = 0], p, f)
  BY DEF Settings
<1> QED
  BY <1>1, <1>2, <1>3

LEMMA ReadsServerPort ==
    ASSUME NEW m, NEW s, NEW e, NEW a, NEW p, NEW f, NEW v
    PROVE  ReadLine(Reading(Settings(m, s, e, a, p, f), "Network"),
                    Assign("ServerPort", v))
             = Reading(Settings(m, s, e, a, v, f), "Network")
<1> DEFINE old == Settings(m, s, e, a, p, f)
<1>1. ReadLine(Reading(old, "Network"), Assign("ServerPort", v))
        = Reading([old EXCEPT !["ServerPort"] = Value(Assign("ServerPort", v))], "Network")
  <2>1. "ServerPort" \in DOMAIN SectionsOf /\ "Network" \in SectionsOf["ServerPort"]
    BY KeysOfSections
  <2> HIDE DEF old
  <2> QED
    BY <2>1, ReadsAssign
<1>2. Value(Assign("ServerPort", v)) = v
  BY ValuesRead
<1>3. [old EXCEPT !["ServerPort"] = v] = Settings(m, s, e, a, v, f)
  BY DEF Settings
<1> QED
  BY <1>1, <1>2, <1>3

LEMMA ReadsShowFPS ==
    ASSUME NEW m, NEW s, NEW e, NEW a, NEW p, NEW f, NEW v
    PROVE  ReadLine(Reading(Settings(m, s, e, a, p, f), "Display"),
                    Assign("ShowFPS", v))
             = Reading(Settings(m, s, e, a, p, v), "Display")
<1> DEFINE old == Settings(m, s, e, a, p, f)
<1>1. ReadLine(Reading(old, "Display"), Assign("ShowFPS", v))
        = Reading([old EXCEPT !["ShowFPS"] = Value(Assign("ShowFPS", v))], "Display")
  <2>1. "ShowFPS" \in DOMAIN SectionsOf /\ "Display" \in SectionsOf["ShowFPS"]
    BY KeysOfSections
  <2> HIDE DEF old
  <2> QED
    BY <2>1, ReadsAssign
<1>2. Value(Assign("ShowFPS", v)) = v
  BY ValuesRead
<1>3. [old EXCEPT !["ShowFPS"] = v] = Settings(m, s, e, a, p, v)
  BY DEF Settings
<1> QED
  BY <1>1, <1>2, <1>3

\* SaveConfig writes every key under a section where LoadConfig looks for it.
LEMMA LoadsSaved ==
    ASSUME NEW config, NEW m, NEW s, NEW e, NEW a, NEW p, NEW f
    PROVE  LoadConfig(SaveConfig(config), Settings(m, s, e, a, p, f))
             = Settings(Rounded(config.MusicVolume), Rounded(config.SFXVolume),
                        config.MusicEnabled, [config.ServerIP EXCEPT !.blanks = 0],
                        config.ServerPort, config.ShowFPS)
<1> DEFINE lines == SaveConfig(config)
           music == Rounded(config.MusicVolume)
           sfx == Rounded(config.SFXVolume)
           on == config.MusicEnabled
           ip == [config.ServerIP EXCEPT !.blanks = 0]
           port == config.ServerPort
           fps == config.ShowFPS
<1>1. DOMAIN lines = 1..11
  BY DEF SaveConfig
<1>2. /\ lines[1] = Section("Audio")
      /\ lines[2] = Assign("MusicVolume", music)
      /\ lines[3] = Assign("SFXVolume", sfx)
      /\ lines[4] = Assign("MusicEnabled", on)
      /\ lines[5] = Other
      /\ lines[6] = Section("Network")
      /\ lines[7] = Assign("ServerIP", config.ServerIP)
      /\ lines[8] = Assign("ServerPort", port)
      /\ lines[9] = Other
      /\ lines[10] = Section("Display")
      /\ lines[11] = Assign("ShowFPS", fps)
  BY DEF SaveConfig
<1>3. PICK read : Loads(read, lines, 11, Settings(m, s, e, a, p, f))
  <2>1. 11 \in Nat
    OBVIOUS
  <2> HIDE DEF lines
  <2> QED
    BY <1>1, <2>1, LoadStepwise, Zenon
<1> HIDE DEF lines, music, sfx, on, ip, port, fps
<1>4. ASSUME NEW i \in 1..11, NEW j, j = i - 1
      PROVE  read[i] = ReadLine(read[j], lines[i])
  BY <1>3, <1>4 DEF Loads
<1>5. read[0] = Reading(Settings(m, s, e, a, p, f), "")
  BY <1>3 DEF Loads, Reading
<1>6. read[1] = Reading(Settings(m, s, e, a, p, f), "Audio")
  <2>1. read[1] = ReadLine(read[0], lines[1])
    <3>1. 1 \in 1..11 /\ 0 = 1 - 1
      OBVIOUS
    <3> QED
      BY <1>4, <3>1, Zenon
  <2> QED
    BY <1>2, <1>5, <2>1, ReadsSection, Zenon
<1>7. read[2] = Reading(Settings(music, s, e, a, p, f), "Audio")
  <2>1. read[2] = ReadLine(read[1], lines[2])
    <3>1. 2 \in 1..11 /\ 1 = 2 - 1
      OBVIOUS
    <3> QED
      BY <1>4, <3>1, Zenon
  <2> QED
    BY <1>2, <1>6, <2>1, ReadsMusicVolume
<1>8. read[3] = Reading(Settings(music, sfx, e, a, p, f), "Audio")
  <2>1. read[3] = ReadLine(read[2], lines[3])
    <3>1. 3 \in 1..11 /\ 2 = 3 - 1
      OBVIOUS
    <3> QED
      BY <1>4, <3>1, Zenon
  <2> QED
    BY <1>2, <1>7, <2>1, ReadsSFXVolume
<1>9. read[4] = Reading(Settings(music, sfx, on, a, p, f), "Audio")
  <2>1. read[4] = ReadLine(read[3], lines[4])
    <3>1. 4 \in 1..11 /\ 3 = 4 - 1
      OBVIOUS
    <3> QED
      BY <1>4, <3>1, Zenon
  <2> QED
    BY <1>2, <1>8, <2>1, ReadsMusicEnabled
<1>10. read[5] = Reading(Settings(music, sfx, on, a, p, f), "Audio")
  <2>1. read[5] = ReadLine(read[4], lines[5])
    <3>1. 5 \in 1..11 /\ 4 = 5 - 1
      OBVIOUS
    <3> QED
      BY <1>4, <3>1, Zenon
  <2> QED
    BY <1>2, <1>9, <2>1, ReadsOther, Zenon
<1>11. read[6] = Reading(Settings(music, sfx, on, a, p, f), "Network")
  <2>1. read[6] = ReadLine(read[5], lines[6])
    <3>1. 6 \in 1..11 /\ 5 = 6 - 1
      OBVIOUS
    <3> QED
      BY <1>4, <3>1, Zenon
  <2> QED
    BY <1>2, <1>10, <2>1, ReadsSection, Zenon
<1>12. read[7] = Reading(Settings(music, sfx, on, ip, p, f), "Network")
  <2>1. read[7] = ReadLine(read[6], lines[7])
    <3>1. 7 \in 1..11 /\ 6 = 7 - 1
      OBVIOUS
    <3> QED
      BY <1>4, <3>1, Zenon
  <2> QED
    BY <1>2, <1>11, <2>1, ReadsServerIP DEF ip
<1>13. read[8] = Reading(Settings(music, sfx, on, ip, port, f), "Network")
  <2>1. read[8] = ReadLine(read[7], lines[8])
    <3>1. 8 \in 1..11 /\ 7 = 8 - 1
      OBVIOUS
    <3> QED
      BY <1>4, <3>1, Zenon
  <2> QED
    BY <1>2, <1>12, <2>1, ReadsServerPort
<1>14. read[9] = Reading(Settings(music, sfx, on, ip, port, f), "Network")
  <2>1. read[9] = ReadLine(read[8], lines[9])
    <3>1. 9 \in 1..11 /\ 8 = 9 - 1
      OBVIOUS
    <3> QED
      BY <1>4, <3>1, Zenon
  <2> QED
    BY <1>2, <1>13, <2>1, ReadsOther, Zenon
<1>15. read[10] = Reading(Settings(music, sfx, on, ip, port, f), "Display")
  <2>1. read[10] = ReadLine(read[9], lines[10])
    <3>1. 10 \in 1..11 /\ 9 = 10 - 1
      OBVIOUS
    <3> QED
      BY <1>4, <3>1, Zenon
  <2> QED
    BY <1>2, <1>14, <2>1, ReadsSection, Zenon
<1>16. read[11] = Reading(Settings(music, sfx, on, ip, port, fps), "Display")
  <2>1. read[11] = ReadLine(read[10], lines[11])
    <3>1. 11 \in 1..11 /\ 10 = 11 - 1
      OBVIOUS
    <3> QED
      BY <1>4, <3>1, Zenon
  <2> QED
    BY <1>2, <1>15, <2>1, ReadsShowFPS
<1>17. read[11].config = Settings(music, sfx, on, ip, port, fps)
  BY <1>16 DEF Reading
<1> QED
  BY <1>3, <1>17, Zenon DEF Loads, lines, music, sfx, on, ip, port, fps

\* A volume that has been rounded is not rounded again.
LEMMA RoundedOnce ==
    ASSUME NEW volume \in Int
    PROVE  Rounded(Rounded(volume)) = Rounded(volume)
  BY DEF Rounded

\* Settings have the six fields.
LEMMA ConfigFields ==
    ASSUME NEW config \in Configs
    PROVE  /\ config = Settings(config.MusicVolume, config.SFXVolume,
                                config.MusicEnabled, config.ServerIP,
                                config.ServerPort, config.ShowFPS)
           /\ config.MusicVolume \in Volumes /\ config.SFXVolume \in Volumes
           /\ config.ServerIP \in [blanks : {0, 1}, host : Hosts]
  BY DEF Configs, Settings

\* What a save and a load make of the settings.
Reloaded(config) == [config EXCEPT !.MusicVolume = Rounded(@),
                                   !.SFXVolume = Rounded(@),
                                   !.ServerIP.blanks = 0]

LEMMA ReloadedSettings ==
    ASSUME NEW m, NEW s, NEW e, NEW a, NEW p, NEW f
    PROVE  Reloaded(Settings(m, s, e, a, p, f))
             = Settings(Rounded(m), Rounded(s), e, [a EXCEPT !.blanks = 0], p, f)
<1>1. [Settings(m, s, e, a, p, f) EXCEPT !.MusicVolume = Rounded(@)]
        = Settings(Rounded(m), s, e, a, p, f)
  BY DEF Settings
<1>2. [Settings(Rounded(m), s, e, a, p, f) EXCEPT !.SFXVolume = Rounded(@)]
        = Settings(Rounded(m), Rounded(s), e, a, p, f)
  BY DEF Settings
<1>3. [Settings(Rounded(m), Rounded(s), e, a, p, f) EXCEPT !.ServerIP.blanks = 0]
        = Settings(Rounded(m), Rounded(s), e, [a EXCEPT !.blanks = 0], p, f)
  BY DEF Settings
<1> QED
  BY <1>1, <1>2, <1>3, Zenon DEF Reloaded

(***************************************************************************)
(* Settings that were saved are those that are loaded, with the volumes    *)
(* rounded and the blanks in front of the address gone, whatever was on    *)
(* the stack; and saving and loading those changes nothing any more.       *)
(***************************************************************************)
THEOREM SavedReloads ==
    ASSUME NEW config \in Configs, NEW garbage \in Configs
    PROVE  Reloads(config, garbage)
<1> DEFINE music == Rounded(config.MusicVolume)
           sfx == Rounded(config.SFXVolume)
           ip == [config.ServerIP EXCEPT !.blanks = 0]
           once == LoadConfig(SaveConfig(config), garbage)
           twice == LoadConfig(SaveConfig(once), garbage)
           expected == Settings(music, sfx, config.MusicEnabled, ip,
                                config.ServerPort, config.ShowFPS)
<1>1. once = expected
  BY ConfigFields, LoadsSaved
<1>2. /\ once.MusicVolume = music /\ once.SFXVolume = sfx
      /\ once.MusicEnabled = config.MusicEnabled /\ once.ServerIP = ip
      /\ once.ServerPort = config.ServerPort /\ once.ShowFPS = config.ShowFPS
  <2> HIDE DEF once, music, sfx, ip
  <2> QED
    BY <1>1 DEF Settings
<1>3. Rounded(music) = music /\ Rounded(sfx) = sfx
  BY ConfigFields, VolumesAssumption, RoundedOnce
<1>4. [ip EXCEPT !.blanks = 0] = ip
  BY ConfigFields
<1>5. twice = Settings(Rounded(once.MusicVolume), Rounded(once.SFXVolume),
                       once.MusicEnabled, [once.ServerIP EXCEPT !.blanks = 0],
                       once.ServerPort, once.ShowFPS)
  <2> HIDE DEF once
  <2> QED
    BY ConfigFields, LoadsSaved
<1>6. twice = once
  <2> HIDE DEF once, twice, music, sfx, ip
  <2> QED
    BY <1>1, <1>2, <1>3, <1>4, <1>5
<1>7. expected = Reloaded(config)
  <2>1. PICK m, s, e, a, p, f : config = Settings(m, s, e, a, p, f)
    BY ConfigFields
  <2>2. /\ config.MusicVolume = m /\ config.SFXVolume = s
        /\ config.MusicEnabled = e /\ config.ServerIP = a
        /\ config.ServerPort = p /\ config.ShowFPS = f
    BY <2>1 DEF Settings
  <2> QED
    BY <2>1, <2>2, ReloadedSettings
<1> QED
  BY <1>1, <1>6, <1>7, Zenon DEF Reloads, Reloaded

\* What is saved when the client exits is what the next start finds.
THEOREM SavedSettingsReloadHolds == Spec => []SavedSettingsReload
<1>1. SavedSettingsReload
  BY SavedReloads DEF SavedSettingsReload
<1> QED
  BY <1>1, PTL
=============================================================================
