------------------------------ MODULE GameState ------------------------------
(***************************************************************************)
(* GameStateImpl (game_state_impl.cpp): the game data the application      *)
(* edits, and which calls of NetBase::sessionCreate and submitGameData     *)
(* its edits lead to.  The public operations run one at a time on the C    *)
(* API thread (game_state_c.cpp); OnCreated is the callback of a session-  *)
(* create reply, which a pool thread runs and no lock keeps apart from     *)
(* them: it may come between the steps of setGameFinished.                 *)
(*                                                                         *)
(* `calls' holds the calls the last operation made on NetBase; a module    *)
(* that models the other side of that interface picks them up.  A mode is  *)
(* an opaque name here and its expiry is not modelled (see ModeExpiry).    *)
(* Timestamps, NFC lights and logging are left out.                        *)
(***************************************************************************)
EXTENDS Integers, Sequences, FiniteSets

CONSTANTS Players,     \* player numbers the application uses
          Balls,       \* ball numbers the application uses
          Scores,      \* scores it sets
          ModeNames,   \* modes it adds
          MaxGames,    \* bound: games started
          MaxCalls,    \* bound: submissions numbered (see `serial')
          MaxAuthChanges \* bound: changes of authChanges

ASSUME GameStateAssumption ==
    /\ 1 \in Players /\ Players \subseteq Int
    /\ 1 \in Balls /\ Balls \subseteq Int
    /\ 0 \in Scores /\ Scores \subseteq Nat
    /\ MaxGames \in Nat
    /\ MaxCalls \in Nat
    /\ MaxAuthChanges \in Nat

VARIABLES data,        \* m_data
          prevData,    \* m_prevData
          finishing,   \* where the API thread is in setGameFinished, if it is there
          sessionId,   \* m_sessionId
          authChanges, \* how often AuthenticationFailed was reached or left
          calls,       \* NetBase calls made by the last operation
          serial       \* ghost: how many submissions have been made so far

gameVars == <<data, prevData, finishing, sessionId, authChanges, calls, serial>>

\* m_net->status() == AuthenticationFailed
AuthFailed == authChanges % 2 = 1

NotPlaying == -1       \* players.count(p) == 0

IsPlayerValid(p) == 1 <= p /\ p <= 9
IsBallValid(b)   == 1 <= b /\ b <= 9

\* GameData; the ball and the active player are 0 before a game sets them.
GameDataType ==
    [id: 0..MaxGames, isGameActive: BOOLEAN,
     ball: {b \in Balls : IsBallValid(b)} \cup {0},
     activePlayer: {p \in Players : IsPlayerValid(p)} \cup {0},
     players: [Players -> Scores \cup {NotPlaying}],
     modes: SUBSET ModeNames]

SessionFlag == {"UploadHistoryLogs", "PlayersAdd", "Debounced"}

\* A call of submitGameData, with its number in the order of all submissions, or
\* of sessionCreate, whose `number' is 0.
Call == [op: {"create", "submit"}, data: GameDataType, flags: SUBSET SessionFlag,
         number: Nat]

GameTypeOK ==
    /\ data \in GameDataType
    /\ prevData \in GameDataType
    /\ finishing \in {"no", "submit", "reset"}
    /\ sessionId \in 0..MaxGames
    /\ authChanges \in 0..MaxAuthChanges
    /\ calls \in Seq(Call)
    /\ serial \in Nat

\* GameData{}
NoGame == [id |-> 0, isGameActive |-> FALSE, ball |-> 0, activePlayer |-> 0,
           players |-> [p \in Players |-> NotPlaying], modes |-> {}]

GameInit ==
    /\ data = NoGame
    /\ prevData = NoGame
    /\ finishing = "no"
    /\ sessionId = 0
    /\ authChanges = 0
    /\ calls = <<>>
    /\ serial = 0

-----------------------------------------------------------------------------
(* Editing game data *)

PlayersIn(d) == {p \in Players : d.players[p] # NotPlaying}

AddNewPlayer(d, p) ==
    IF p \in PlayersIn(d) THEN d ELSE [d EXCEPT !.players[p] = 0]

\* operator==: the id and the timestamp do not count.
SameGameData(d, e) == [d EXCEPT !.id = 0] = [e EXCEPT !.id = 0]

-----------------------------------------------------------------------------
(* submitGameData: which submissions a change from prev to d leads to *)

ActivePlayerChanged(prev, d) == prev.activePlayer # d.activePlayer
BallChanged(prev, d)         == prev.ball # d.ball
JustStarted(prev, d)         == ~prev.isGameActive /\ d.isGameActive
JustFinished(prev, d)        == prev.isGameActive /\ ~d.isGameActive

PlayersNumberChanged(prev, d) ==
    Cardinality(PlayersIn(prev)) # Cardinality(PlayersIn(d))

MutantNoBonus(prev, d) == FALSE

\* The player who was active scored since, and it is another player's turn now.
HasBonus(prev, d) ==
    LET p == prev.activePlayer IN
    /\ ActivePlayerChanged(prev, d)
    /\ p # 0
    /\ p \in PlayersIn(prev) \cap PlayersIn(d)
    /\ prev.players[p] # d.players[p]

MutantUploadTwice(prev, d) ==
    /\ ~JustStarted(prev, d)
    /\ ActivePlayerChanged(prev, d) \/ BallChanged(prev, d) \/ JustFinished(prev, d)

\* hasToUploadSessionLogs
HasToUploadLogs(prev, d) ==
    /\ ~HasBonus(prev, d)
    /\ ~JustStarted(prev, d)
    /\ ActivePlayerChanged(prev, d) \/ BallChanged(prev, d) \/ JustFinished(prev, d)

FlagsFor(prev, d) ==
    {f \in {"UploadHistoryLogs", "PlayersAdd"} :
        \/ f = "UploadHistoryLogs" /\ HasToUploadLogs(prev, d)
        \/ f = "PlayersAdd" /\ PlayersNumberChanged(prev, d)}

\* The bonus submission: the new scores, but still the previous player and ball.
BonusData(prev, d) == [d EXCEPT !.activePlayer = prev.activePlayer, !.ball = prev.ball]

SubmitCall(d, flags, number) ==
    [op |-> "submit", data |-> d, flags |-> flags, number |-> number]

\* The calls of one submitGameData that passes its guards.
Submissions(prev, d) ==
    IF HasBonus(prev, d)
    THEN << SubmitCall(BonusData(prev, d), {"UploadHistoryLogs"}, serial + 1),
            SubmitCall(d, FlagsFor(prev, d), serial + 2) >>
    ELSE << SubmitCall(d, FlagsFor(prev, d), serial + 1) >>

\* submitGameData(force) on the data d.
SubmitGameData(d, force) ==
    IF ~AuthFailed /\ (force \/ ~SameGameData(d, prevData))
    THEN /\ calls' = Submissions(prevData, d)
         /\ serial' = serial + Len(Submissions(prevData, d))
         /\ prevData' = d
    ELSE /\ calls' = <<>>
         /\ UNCHANGED <<serial, prevData>>

-----------------------------------------------------------------------------
(* Operations *)

\* An edit changes m_data only; nothing is sent before commit.
Edit(d) ==
    /\ data' = d
    /\ calls' = <<>>
    /\ UNCHANGED <<prevData, finishing, sessionId, authChanges, serial>>

MutantStartReusesId ==
    /\ ~data.isGameActive
    /\ ~AuthFailed
    /\ sessionId' = IF sessionId = 0 THEN 1 ELSE sessionId
    /\ prevData' = NoGame
    /\ data' = [NoGame EXCEPT !.id = sessionId', !.isGameActive = TRUE,
                              !.players[1] = 0, !.ball = 1, !.activePlayer = 1]
    /\ calls' = << [op |-> "create", data |-> data', flags |-> {}, number |-> 0] >>
    /\ UNCHANGED <<finishing, authChanges, serial>>

\* setGameStarted -> startGame(1, origin).
SetGameStarted ==
    /\ ~data.isGameActive
    /\ ~AuthFailed
    /\ sessionId < MaxGames
    /\ sessionId' = sessionId + 1
    /\ prevData' = NoGame
    /\ data' = [NoGame EXCEPT !.id = sessionId', !.isGameActive = TRUE,
                              !.players[1] = 0, !.ball = 1, !.activePlayer = 1]
    /\ calls' = << [op |-> "create", data |-> data', flags |-> {}, number |-> 0] >>
    /\ UNCHANGED <<finishing, authChanges, serial>>

\* setGameFinished: the game is over in m_data ...
SetGameFinished ==
    /\ data.isGameActive
    /\ data' = [data EXCEPT !.isGameActive = FALSE]
    /\ finishing' = "submit"
    /\ calls' = <<>>
    /\ UNCHANGED <<prevData, sessionId, authChanges, serial>>

\* ... is submitted so ...
SubmitFinished ==
    /\ finishing = "submit"
    /\ SubmitGameData(data, FALSE)
    /\ finishing' = "reset"
    /\ UNCHANGED <<data, sessionId, authChanges>>

MutantForgetKeepsId ==
    /\ finishing = "reset"
    /\ data' = [NoGame EXCEPT !.id = data.id]
    /\ finishing' = "no"
    /\ calls' = <<>>
    /\ UNCHANGED <<prevData, sessionId, authChanges, serial>>

\* ... and is forgotten.
ForgetGame ==
    /\ finishing = "reset"
    /\ data' = NoGame
    /\ finishing' = "no"
    /\ calls' = <<>>
    /\ UNCHANGED <<prevData, sessionId, authChanges, serial>>

SetCurrentBall(b) ==
    /\ data.isGameActive
    /\ IsBallValid(b)
    /\ Edit([data EXCEPT !.ball = b])

SetActivePlayer(p) ==
    /\ data.isGameActive
    /\ IsPlayerValid(p)
    /\ Edit([AddNewPlayer(data, p) EXCEPT !.activePlayer = p])

SetScore(p, s) ==
    /\ data.isGameActive
    /\ IsPlayerValid(p)
    /\ Edit([AddNewPlayer(data, p) EXCEPT !.players[p] = s])

AddMode(m) ==
    /\ data.isGameActive
    /\ Edit([data EXCEPT !.modes = @ \cup {m}])

RemoveMode(m) ==
    /\ data.isGameActive
    /\ Edit([data EXCEPT !.modes = @ \ {m}])

ClearModes ==
    /\ data.isGameActive
    /\ Edit([data EXCEPT !.modes = {}])

Commit ==
    /\ data.isGameActive
    /\ SubmitGameData(data, FALSE)
    /\ UNCHANGED <<data, finishing, sessionId, authChanges>>

\* The onCreated callback startGame gives to sessionCreate: submitGameData(true)
\* on whatever m_data holds when the reply arrives.
OnCreated ==
    /\ SubmitGameData(data, TRUE)
    /\ UNCHANGED <<data, finishing, sessionId, authChanges>>

\* Net gives up authenticating; a reply still under way may revive it (NetAuth).
AuthenticationChanges ==
    /\ authChanges < MaxAuthChanges
    /\ authChanges' = authChanges + 1
    /\ calls' = <<>>
    /\ UNCHANGED <<data, prevData, finishing, sessionId, serial>>

\* An operation of the C API thread that begins, or is done in one step.
ApiCall ==
    \/ SetGameStarted
    \/ SetGameFinished
    \/ Commit
    \/ \E b \in Balls : SetCurrentBall(b)
    \/ \E p \in Players : SetActivePlayer(p)
    \/ \E p \in Players, s \in Scores : SetScore(p, s)
    \/ \E m \in ModeNames : AddMode(m) \/ RemoveMode(m)
    \/ ClearModes

\* The steps of the C API thread; MaxCalls bounds the submissions numbered.
ApiOp ==
    /\ serial < MaxCalls
    /\ \/ finishing = "no" /\ ApiCall
       \/ SubmitFinished
       \/ ForgetGame

-----------------------------------------------------------------------------
(* The component on its own: create replies come at any time after the call *)

\* A create reply can arrive once a game was started; each step is one of the
\* application's operations or the environment's.
GameNext ==
    \/ ApiOp
    \/ sessionId > 0 /\ serial < MaxCalls /\ OnCreated
    \/ AuthenticationChanges

GameSpec == GameInit /\ [][GameNext]_gameVars

-----------------------------------------------------------------------------
(* Properties *)

\* The data submitted before the i-th call of a step: of the call before it, or
\* the last data submitted by an earlier step.
Before(i) == IF i = 1 THEN prevData ELSE calls'[i - 1].data

TurnKeepsScore ==
    \A i \in DOMAIN calls' :
        LET after == calls'[i].data
            p     == Before(i).activePlayer
        IN  /\ calls'[i].op = "submit"
            /\ p \in PlayersIn(Before(i))
            /\ p \in PlayersIn(after)
            /\ Before(i).players[p] # after.players[p]
            => after.activePlayer = p

\* "If active player changed and previous player's score also changed due to
\* bonus, do extra submit with previous player as current player": within a game
\* the score of the player whose turn it was never changes in a submission that
\* already names another active player, whatever was edited between commits.
ScoreStaysWithTurn == [][TurnKeepsScore]_gameVars

Uploads == {i \in DOMAIN calls' : "UploadHistoryLogs" \in calls'[i].flags}

TurnUploadsOnce ==
    (\E i \in DOMAIN calls' : calls'[i].op = "submit") =>
        LET last == calls'[Len(calls')].data
        IN  Cardinality(Uploads) =
              IF /\ ~JustStarted(prevData, last)
                 /\ \/ prevData.activePlayer # last.activePlayer
                    \/ prevData.ball # last.ball
                    \/ prevData.isGameActive /\ ~last.isGameActive
              THEN 1 ELSE 0

\* Logs are uploaded exactly once for a turn: a step that submits a changed ball
\* or active player, or the end of a game, carries exactly one UploadHistoryLogs
\* over all its submissions, and a step that submits none of these carries none.
OneUploadPerTurn == [][TurnUploadsOnce]_gameVars

EndRepeated ==
    prevData.id # 0 /\ ~prevData.isGameActive =>
        \A i \in DOMAIN calls' :
            calls'[i].data.id = prevData.id => calls'[i].data = prevData /\ calls'[i].flags = {}

\* The end of a game stands once it was submitted: a create reply that comes before
\* setGameFinished has reset m_data submits the game again under its number, with the
\* same data and without flags, and nothing else is submitted under that number.
EndStands == [][EndRepeated]_gameVars
=============================================================================
