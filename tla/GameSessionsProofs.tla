------------------------- MODULE GameSessionsProofs -------------------------
(***************************************************************************)
(* Proofs about GameState and GameSessions: what a step submits, and that  *)
(* the game in progress keeps its session and is never settled, for every  *)
(* number of players, games, submissions and pool threads.                 *)
(***************************************************************************)
EXTENDS GameSessions, FiniteSetTheorems, SequenceTheorems, TLAPS

-----------------------------------------------------------------------------
(* The game data *)

\* Only a game in progress, or one that setGameFinished is about to forget, has data of
\* its own; what was submitted last belongs to it or to no game at all, unless no game is
\* in progress, and of a game that is over it is all of the data.
Playing ==
    /\ data.isGameActive => finishing = "no" /\ (prevData.isGameActive \/ prevData = NoGame)
    /\ data.isGameActive \/ finishing # "no" => data.id = sessionId /\ sessionId > 0
    /\ ~data.isGameActive /\ finishing = "no" => data = NoGame
    /\ finishing # "no" => prevData.isGameActive \/ prevData = NoGame \/ prevData = data

\* Only players with a valid number have a score: never number 0, which stands for
\* no active player.
Seated(d) == PlayersIn(d) \subseteq {p \in Players : IsPlayerValid(p)}

GameInv ==
    /\ GameTypeOK
    /\ Playing
    /\ prevData.id <= sessionId
    /\ Seated(data) /\ Seated(prevData)

\* What any step of either specification does to the variables of GameState.
GameStep == ApiOp \/ OnCreated \/ AuthenticationChanges \/ NetOnly

\* The effects of a step: a game starts; its data are edited; it ends; the data at hand
\* are submitted, by setGameFinished too; nothing is submitted, and a game may be forgotten.
Starts ==
    /\ ~data.isGameActive
    /\ finishing = "no" /\ finishing' = "no"
    /\ sessionId' = sessionId + 1 /\ sessionId' \in 0..MaxGames
    /\ prevData' = NoGame
    /\ data' \in GameDataType /\ data'.id = sessionId' /\ data'.isGameActive
    /\ Seated(data')
    /\ calls' = << [op |-> "create", data |-> data', flags |-> {}, number |-> 0] >>
    /\ serial' = serial

Same == prevData' = prevData /\ sessionId' = sessionId /\ serial' = serial

Edits ==
    /\ data.isGameActive
    /\ finishing' = IF data'.isGameActive THEN finishing ELSE "submit"
    /\ data' \in GameDataType /\ data'.id = data.id
    /\ Seated(data) => Seated(data')
    /\ calls' = <<>>
    /\ Same

\* The API thread goes on in setGameFinished, or stays where it is.
GoesOn ==
    /\ data' = data
    /\ finishing' = finishing \/ (finishing = "submit" /\ finishing' = "reset")

Forgets == finishing = "reset" /\ finishing' = "no" /\ data' = NoGame

Submits(d) ==
    /\ d = data /\ GoesOn
    /\ calls' = Submissions(prevData, d)
    /\ serial' = serial + Len(Submissions(prevData, d))
    /\ prevData' = d
    /\ sessionId' = sessionId

Waits ==
    /\ GoesOn \/ Forgets
    /\ calls' = <<>>
    /\ Same

LEMMA NoGameType == NoGame \in GameDataType /\ Seated(NoGame)
  BY GameStateAssumption
  DEF NoGame, GameDataType, IsPlayerValid, IsBallValid, Seated, PlayersIn

LEMMA SubmitEffect ==
  ASSUME NEW force, SubmitGameData(data, force), sessionId' = sessionId, GoesOn
  PROVE  Submits(data) \/ Waits
  BY DEF SubmitGameData, Submits, Waits, Same

LEMMA GameEffect ==
  ASSUME GameTypeOK, GameStep
  PROVE  /\ Starts \/ Edits \/ Waits \/ \E d \in GameDataType : Submits(d)
         /\ authChanges' \in 0..MaxAuthChanges
<1> USE DEF GameTypeOK
<1>1. CASE finishing = "no" /\ SetGameStarted
  <2>1. data' \in GameDataType /\ data'.id = sessionId' /\ data'.isGameActive
    <3> DEFINE ps == [p \in Players |-> NotPlaying]
    <3>1. data' = [id |-> sessionId', isGameActive |-> TRUE, ball |-> 1,
                   activePlayer |-> 1, players |-> [ps EXCEPT ![1] = 0], modes |-> {}]
      BY <1>1 DEF SetGameStarted, NoGame
    <3>2. [ps EXCEPT ![1] = 0] \in [Players -> Scores \cup {NotPlaying}]
      BY GameStateAssumption
    <3>3. sessionId' \in 0..MaxGames
      BY <1>1, GameStateAssumption DEF SetGameStarted
    <3>4. 1 \in {p \in Players : IsPlayerValid(p)} /\ 1 \in {b \in Balls : IsBallValid(b)}
      BY GameStateAssumption DEF IsPlayerValid, IsBallValid
    <3> HIDE DEF ps
    <3> QED BY <3>1, <3>2, <3>3, <3>4 DEF GameDataType
  <2>2. Seated(data')
    BY <1>1, GameStateAssumption
    DEF SetGameStarted, NoGame, Seated, PlayersIn, IsPlayerValid
  <2> QED BY <1>1, <2>1, <2>2, GameStateAssumption DEF SetGameStarted, Starts
<1>2. ASSUME SetGameFinished PROVE Edits /\ authChanges' = authChanges
  BY <1>2 DEF SetGameFinished, Edits, Same, GameDataType, Seated, PlayersIn
<1>3. CASE Commit \/ OnCreated \/ SubmitFinished
  <2>1. /\ GoesOn /\ sessionId' = sessionId /\ authChanges' = authChanges
        /\ \E force \in BOOLEAN : SubmitGameData(data, force)
    BY <1>3 DEF Commit, OnCreated, SubmitFinished, GoesOn
  <2> QED BY <2>1, SubmitEffect
<1>11. CASE ForgetGame
  BY <1>11 DEF ForgetGame, Waits, Forgets, Same
<1>4. ASSUME NEW b \in Balls, SetCurrentBall(b) PROVE Edits /\ authChanges' = authChanges
  BY <1>4 DEF SetCurrentBall, Edit, Edits, Same, GameDataType, Seated, PlayersIn
<1>5. ASSUME NEW p \in Players, SetActivePlayer(p) PROVE Edits /\ authChanges' = authChanges
  <2> DEFINE d == AddNewPlayer(data, p)
  <2>1. d \in GameDataType /\ d.id = data.id /\ d.isGameActive = data.isGameActive
    BY <1>5, GameStateAssumption DEF SetActivePlayer, AddNewPlayer, GameDataType, PlayersIn
  <2>4. Seated(data) => Seated(d)
    BY <1>5 DEF SetActivePlayer, AddNewPlayer, GameDataType, PlayersIn, Seated
  <2> HIDE DEF d
  <2>2. data' = [d EXCEPT !.activePlayer = p]
    BY <1>5 DEF SetActivePlayer, Edit, d
  <2>3. data' \in GameDataType /\ data'.id = d.id /\ data'.isGameActive = d.isGameActive
    BY <1>5, <2>1, <2>2 DEF GameDataType, SetActivePlayer
  <2>5. Seated(d) => Seated(data')
    BY <2>1, <2>2 DEF GameDataType, Seated, PlayersIn
  <2> QED BY <1>5, <2>1, <2>3, <2>4, <2>5 DEF SetActivePlayer, Edit, Edits, Same
<1>6. ASSUME NEW p \in Players, NEW s \in Scores, SetScore(p, s)
      PROVE  Edits /\ authChanges' = authChanges
  <2> DEFINE d == AddNewPlayer(data, p)
  <2>1. d \in GameDataType /\ d.id = data.id /\ d.isGameActive = data.isGameActive
    BY <1>6, GameStateAssumption DEF SetScore, AddNewPlayer, GameDataType, PlayersIn
  <2>4. Seated(data) => Seated(d)
    BY <1>6 DEF SetScore, AddNewPlayer, GameDataType, PlayersIn, Seated
  <2> HIDE DEF d
  <2>2. data' = [d EXCEPT !.players[p] = s]
    BY <1>6 DEF SetScore, Edit, d
  <2>3. data' \in GameDataType /\ data'.id = d.id /\ data'.isGameActive = d.isGameActive
    BY <1>6, <2>1, <2>2 DEF GameDataType
  <2>5. Seated(d) => Seated(data')
    BY <1>6, <2>1, <2>2 DEF GameDataType, Seated, PlayersIn, SetScore
  <2> QED BY <1>6, <2>1, <2>3, <2>4, <2>5 DEF SetScore, Edit, Edits, Same
<1>7. ASSUME NEW m \in ModeNames, AddMode(m) \/ RemoveMode(m)
      PROVE  Edits /\ authChanges' = authChanges
  BY <1>7 DEF AddMode, RemoveMode, Edit, Edits, Same, GameDataType, Seated, PlayersIn
<1>8. ASSUME ClearModes PROVE Edits /\ authChanges' = authChanges
  BY <1>8 DEF ClearModes, Edit, Edits, Same, GameDataType, Seated, PlayersIn
<1>9. CASE AuthenticationChanges
  BY <1>9, GameStateAssumption DEF AuthenticationChanges, Waits, GoesOn, Same
<1>10. CASE NetOnly
  BY <1>10 DEF NetOnly, Waits, GoesOn, Same
<1> QED BY <1>1, <1>2, <1>3, <1>4, <1>5, <1>6, <1>7, <1>8, <1>9, <1>10, <1>11
    DEF GameStep, ApiOp, ApiCall

-----------------------------------------------------------------------------
(* What a step submits *)

LEMMA FlagsType ==
  ASSUME NEW prev, NEW d
  PROVE  FlagsFor(prev, d) \in SUBSET SessionFlag
  BY DEF FlagsFor, SessionFlag

\* The one or two submissions of a step, call by call.
LEMMA SubmissionsShape ==
  ASSUME NEW prev \in GameDataType, NEW d \in GameDataType, serial \in Nat
  PROVE  /\ Submissions(prev, d) \in Seq(Call)
         /\ Submissions(prev, d) # <<>>
         /\ \A i \in DOMAIN Submissions(prev, d) :
              /\ Submissions(prev, d)[i].op = "submit"
              /\ Submissions(prev, d)[i].data.id = d.id
              /\ Submissions(prev, d)[i].data.isGameActive = d.isGameActive
<1> DEFINE b == BonusData(prev, d)
           f == FlagsFor(prev, d)
<1>1. b \in GameDataType /\ b.id = d.id /\ b.isGameActive = d.isGameActive
  BY DEF BonusData, GameDataType
<1>2. f \in SUBSET SessionFlag /\ {"UploadHistoryLogs"} \in SUBSET SessionFlag
  BY FlagsType DEF SessionFlag
<1> HIDE DEF b, f
<1> DEFINE c1 == SubmitCall(b, {"UploadHistoryLogs"}, serial + 1)
           c2 == SubmitCall(d, f, serial + 2)
           c3 == SubmitCall(d, f, serial + 1)
<1>3. c1 \in Call /\ c2 \in Call /\ c3 \in Call
  BY <1>1, <1>2 DEF SubmitCall, Call
<1>4. /\ c1.op = "submit" /\ c1.data = b
      /\ c2.op = "submit" /\ c2.data = d
      /\ c3.op = "submit" /\ c3.data = d
  BY DEF SubmitCall
<1> HIDE DEF c1, c2, c3
<1>5. Submissions(prev, d) = <<c1, c2>> \/ Submissions(prev, d) = <<c3>>
  BY DEF Submissions, c1, c2, c3, b, f
<1>6. CASE Submissions(prev, d) = <<c1, c2>>
  BY <1>1, <1>3, <1>4, <1>6
<1>7. CASE Submissions(prev, d) = <<c3>>
  BY <1>3, <1>4, <1>7
<1> QED BY <1>5, <1>6, <1>7

LEMMA GameInitially == GameInit => GameInv
  BY NoGameType, GameStateAssumption DEF GameInit, GameInv, GameTypeOK, Playing, NoGame

LEMMA GamePreserved ==
  ASSUME GameInv, GameStep
  PROVE  GameInv'
<1> USE DEF GameInv
<1>1. GameTypeOK
  OBVIOUS
<1>2. authChanges' \in 0..MaxAuthChanges
  BY <1>1, GameEffect
<1>3. CASE Starts
  <2>1. calls' \in Seq(Call)
    BY <1>3 DEF Starts, Call
  <2> QED BY <1>1, <1>2, <1>3, <2>1, NoGameType DEF Starts, GameTypeOK, Playing, NoGame
<1>4. CASE Edits
  BY <1>1, <1>2, <1>4 DEF Edits, Same, GameTypeOK, Playing
<1>5. CASE Waits
  <2>1. data' \in GameDataType /\ Seated(data')
    BY <1>1, <1>5, NoGameType DEF Waits, GoesOn, Forgets, GameTypeOK
  <2>2. Playing'
    BY <1>1, <1>5 DEF Waits, GoesOn, Forgets, Same, Playing, NoGame, GameTypeOK
  <2>3. finishing' \in {"no", "submit", "reset"}
    BY <1>1, <1>5 DEF Waits, GoesOn, Forgets, GameTypeOK
  <2> QED BY <1>1, <1>2, <1>5, <2>1, <2>2, <2>3 DEF Waits, Same, GameTypeOK
<1>6. ASSUME NEW d \in GameDataType, Submits(d) PROVE GameInv'
  <2>1. calls' \in Seq(Call) /\ serial' \in Nat
    BY <1>1, <1>6, SubmissionsShape DEF Submits, GameTypeOK
  <2>2. d = data /\ data' = data
    BY <1>6 DEF Submits, GoesOn
  <2>3. finishing' \in {"no", "submit", "reset"}
    BY <1>1, <1>6 DEF Submits, GoesOn, GameTypeOK
  <2>4. data.id <= sessionId
    BY <1>1 DEF Playing, NoGame, GameTypeOK
  <2>5. Playing'
    BY <1>6 DEF Submits, GoesOn, Playing, NoGame
  <2> QED BY <1>1, <1>2, <1>6, <2>1, <2>2, <2>3, <2>4, <2>5 DEF Submits, GameTypeOK
<1> QED BY <1>1, <1>3, <1>4, <1>5, <1>6, GameEffect

\* Data submitted again lead to one submission without flags.
LEMMA Resubmission ==
  ASSUME NEW d \in GameDataType
  PROVE  Submissions(d, d) = << SubmitCall(d, {}, serial + 1) >>
<1>1. ~HasBonus(d, d) /\ FlagsFor(d, d) = {}
  BY DEF HasBonus, ActivePlayerChanged, FlagsFor, HasToUploadLogs, BallChanged, JustFinished,
         PlayersNumberChanged
<1> QED BY <1>1 DEF Submissions

LEMMA EndKept ==
  ASSUME GameInv, GameStep
  PROVE  EndRepeated
<1> SUFFICES ASSUME prevData.id # 0, ~prevData.isGameActive,
                    NEW i \in DOMAIN calls', calls'[i].data.id = prevData.id
             PROVE  calls'[i].data = prevData /\ calls'[i].flags = {}
  BY DEF EndRepeated
<1> USE DEF GameInv
<1>1. /\ GameTypeOK /\ ~data.isGameActive
      /\ data = NoGame \/ prevData = data
  BY DEF Playing, NoGame, GameTypeOK
<1>2. ~Starts
  <2>1. prevData.id \in Nat /\ sessionId \in Nat
    BY <1>1 DEF GameTypeOK, GameDataType
  <2> QED BY <2>1 DEF Starts
<1>3. ~Edits /\ ~Waits
  BY DEF Edits, Waits
<1>4. PICK d \in GameDataType : Submits(d)
  BY <1>1, <1>2, <1>3, GameEffect
<1>5. d = data /\ calls' = Submissions(prevData, data)
  BY <1>4 DEF Submits
<1>6. CASE data = NoGame
  <2>1. calls'[i].data.id = 0
    BY <1>1, <1>5, <1>6, SubmissionsShape DEF NoGame, GameTypeOK
  <2> QED BY <2>1
<1>7. CASE prevData = data
  <2>1. calls' = << SubmitCall(data, {}, serial + 1) >>
    BY <1>1, <1>5, <1>7, Resubmission DEF GameTypeOK
  <2> QED BY <1>7, <2>1 DEF SubmitCall
<1> QED BY <1>1, <1>6, <1>7

LEMMA ScoreKept ==
  ASSUME GameInv, GameStep
  PROVE  TurnKeepsScore
<1> SUFFICES ASSUME NEW i \in DOMAIN calls', calls'[i].op = "submit",
                    NEW p, p = Before(i).activePlayer,
                    p \in PlayersIn(Before(i)), p \in PlayersIn(calls'[i].data),
                    Before(i).players[p] # calls'[i].data.players[p]
             PROVE  calls'[i].data.activePlayer = p
  BY DEF TurnKeepsScore
<1> USE DEF GameInv
<1>1. GameTypeOK
  OBVIOUS
<1>2. ~Starts /\ ~Edits /\ ~Waits
  BY DEF Starts, Edits, Waits
<1>3. PICK d \in GameDataType : Submits(d)
  BY <1>1, <1>2, GameEffect
<1> DEFINE b == BonusData(prevData, d)
<1>4. /\ b.players = d.players /\ b.activePlayer = prevData.activePlayer
      /\ prevData \in GameDataType
  BY <1>1 DEF BonusData, GameDataType, GameTypeOK
<1>5. CASE HasBonus(prevData, d)
  <2> DEFINE c1 == SubmitCall(b, {"UploadHistoryLogs"}, serial + 1)
             c2 == SubmitCall(d, FlagsFor(prevData, d), serial + 2)
  <2>1. calls' = <<c1, c2>> /\ c1.data = b /\ c2.data = d
    BY <1>3, <1>5 DEF Submits, Submissions, SubmitCall
  <2> HIDE DEF b, c1, c2
  <2>2. i = 1 \/ i = 2
    BY <2>1
  <2>3. CASE i = 1
    BY <1>4, <2>1, <2>3 DEF Before
  <2>4. CASE i = 2
    BY <1>4, <2>1, <2>4 DEF Before
  <2> QED BY <2>2, <2>3, <2>4
<1>6. CASE ~HasBonus(prevData, d)
  <2> DEFINE c == SubmitCall(d, FlagsFor(prevData, d), serial + 1)
  <2>1. calls' = <<c>> /\ c.data = d
    BY <1>3, <1>6 DEF Submits, Submissions, SubmitCall
  <2> HIDE DEF c
  <2>2. i = 1 /\ calls'[i].data = d /\ Before(i) = prevData
    BY <2>1 DEF Before
  <2>3. p # 0
    BY <2>2 DEF Seated, IsPlayerValid
  <2> QED BY <1>4, <1>6, <2>2, <2>3 DEF HasBonus, ActivePlayerChanged
<1> QED BY <1>5, <1>6

LEMMA UploadsKept ==
  ASSUME GameInv, GameStep
  PROVE  TurnUploadsOnce
<1> DEFINE last  == calls'[Len(calls')].data
           Turns == /\ ~JustStarted(prevData, last)
                    /\ \/ prevData.activePlayer # last.activePlayer
                       \/ prevData.ball # last.ball
                       \/ prevData.isGameActive /\ ~last.isGameActive
<1> SUFFICES ASSUME NEW i \in DOMAIN calls', calls'[i].op = "submit"
             PROVE  Cardinality(Uploads) = IF Turns THEN 1 ELSE 0
  BY DEF TurnUploadsOnce
<1> USE DEF GameInv
<1>1. GameTypeOK
  OBVIOUS
<1>2. ~Starts /\ ~Edits /\ ~Waits
  BY DEF Starts, Edits, Waits
<1>3. PICK d \in GameDataType : Submits(d)
  BY <1>1, <1>2, GameEffect
<1> DEFINE b == BonusData(prevData, d)
           f == FlagsFor(prevData, d)
<1>4. "UploadHistoryLogs" \in f <=> HasToUploadLogs(prevData, d)
  BY DEF FlagsFor
<1> HIDE DEF b, f
<1>5. CASE HasBonus(prevData, d)
  <2> DEFINE c1 == SubmitCall(b, {"UploadHistoryLogs"}, serial + 1)
             c2 == SubmitCall(d, f, serial + 2)
  <2>1. /\ calls' = <<c1, c2>> /\ c2.data = d
        /\ c1.flags = {"UploadHistoryLogs"} /\ c2.flags = f
    BY <1>3, <1>5 DEF Submits, Submissions, SubmitCall, b, f
  <2> HIDE DEF c1, c2
  <2>2. last = d /\ DOMAIN calls' = {1, 2}
    BY <2>1
  <2>3. "UploadHistoryLogs" \notin f
    BY <1>4, <1>5 DEF HasToUploadLogs
  <2>4. Uploads = {1}
    BY <2>1, <2>2, <2>3 DEF Uploads
  <2>5. ~JustStarted(prevData, d)
    BY <1>3, <1>5 DEF JustStarted, Submits, Playing, NoGame, HasBonus
  <2>6. Turns
    BY <1>5, <2>2, <2>5 DEF HasBonus, ActivePlayerChanged
  <2> QED BY <2>4, <2>6, FS_Singleton
<1>6. CASE ~HasBonus(prevData, d)
  <2> DEFINE c == SubmitCall(d, f, serial + 1)
  <2>1. calls' = <<c>> /\ c.data = d /\ c.flags = f
    BY <1>3, <1>6 DEF Submits, Submissions, SubmitCall, f
  <2> HIDE DEF c
  <2>2. last = d /\ DOMAIN calls' = {1}
    BY <2>1
  <2>3. Turns <=> HasToUploadLogs(prevData, d)
    BY <1>6, <2>2
    DEF HasToUploadLogs, ActivePlayerChanged, BallChanged, JustFinished
  <2>4. CASE Turns
    <3>1. Uploads = {1}
      BY <1>4, <2>1, <2>2, <2>3, <2>4 DEF Uploads
    <3> QED BY <2>4, <3>1, FS_Singleton
  <2>5. CASE ~Turns
    <3>1. Uploads = {}
      BY <1>4, <2>1, <2>2, <2>3, <2>5 DEF Uploads
    <3> QED BY <2>5, <3>1, FS_EmptySet
  <2> QED BY <2>4, <2>5
<1> QED BY <1>5, <1>6

-----------------------------------------------------------------------------
(* The component on its own *)

LEMMA GameNextSteps ==
  ASSUME GameInv, [GameNext]_gameVars
  PROVE  /\ GameInv'
         /\ [GameStep]_gameVars
<1>1. CASE GameNext
  <2>1. GameStep
    BY <1>1 DEF GameNext, GameStep
  <2> QED BY <2>1, GamePreserved
<1>2. CASE UNCHANGED gameVars
  BY <1>2 DEF gameVars, GameInv, GameTypeOK, Playing
<1> QED BY <1>1, <1>2

\* The inductive invariant of the game data alone.
THEOREM GameInvariance == GameSpec => []GameInv
<1>1. GameInv /\ [GameNext]_gameVars => GameInv'
  BY GameNextSteps
<1> QED BY <1>1, GameInitially, PTL DEF GameSpec

\* Whatever was edited between two commits, and whenever the reply to a session
\* request submits the data again, the score of the player whose turn it was never
\* changes in a submission that already names another player (submitGameData).
THEOREM BonusGoesToItsTurn == GameSpec => ScoreStaysWithTurn
<1>1. GameInv /\ [GameNext]_gameVars => [TurnKeepsScore]_gameVars
  BY GameNextSteps, ScoreKept
<1> QED BY <1>1, GameInvariance, PTL DEF GameSpec, ScoreStaysWithTurn

\* Every turn that ends, and the end of the game, is submitted with exactly one
\* upload of the logs, and nothing else is (hasToUploadSessionLogs).
THEOREM TurnsUploadOnce == GameSpec => OneUploadPerTurn
<1>1. GameInv /\ [GameNext]_gameVars => [TurnUploadsOnce]_gameVars
  BY GameNextSteps, UploadsKept
<1> QED BY <1>1, GameInvariance, PTL DEF GameSpec, OneUploadPerTurn

\* The end of a game stands once it was submitted: whenever a session reply comes, the
\* steps of setGameFinished included, what it submits under the number of that game are the
\* same data without flags (setGameFinished, onCreated).
THEOREM FinishSubmittedLast == GameSpec => EndStands
<1>1. GameInv /\ [GameNext]_gameVars => [EndRepeated]_gameVars
  BY GameNextSteps, EndKept
<1> QED BY <1>1, GameInvariance, PTL DEF GameSpec, EndStands

-----------------------------------------------------------------------------
(* Queues *)

LEMMA AppendRange ==
  ASSUME NEW S, NEW q \in Seq(S), NEW e \in S
  PROVE  /\ Append(q, e) \in Seq(S)
         /\ Range(Append(q, e)) \subseteq Range(q) \cup {e}
  BY DEF Range

LEMMA ExceptRange ==
  ASSUME NEW S, NEW q \in Seq(S), NEW i \in DOMAIN q, NEW e \in S
  PROVE  /\ [q EXCEPT ![i] = e] \in Seq(S)
         /\ Range([q EXCEPT ![i] = e]) \subseteq Range(q) \cup {e}
  BY DEF Range

LEMMA TailRange ==
  ASSUME NEW S, NEW q \in Seq(S), q # <<>>
  PROVE  /\ Tail(q) \in Seq(S)
         /\ Head(q) \in S /\ Head(q) \in Range(q)
         /\ Range(Tail(q)) \subseteq Range(q)
  BY DEF Range

LEMMA ConcatRange ==
  ASSUME NEW S, NEW q \in Seq(S), NEW r \in Seq(S)
  PROVE  /\ q \o r \in Seq(S)
         /\ Range(q \o r) \subseteq Range(q) \cup Range(r)
<1> DEFINE z == q \o r
<1>1. /\ z \in Seq(S) /\ Len(z) = Len(q) + Len(r)
      /\ \A i \in 1 .. Len(q) + Len(r) : z[i] = IF i <= Len(q) THEN q[i] ELSE r[i - Len(q)]
  BY ConcatProperties
<1> HIDE DEF z
<1>2. ASSUME NEW i \in DOMAIN z PROVE z[i] \in Range(q) \cup Range(r)
  <2>1. i \in 1 .. Len(q) + Len(r)
    BY <1>1
  <2>2. CASE i <= Len(q)
    <3>1. i \in DOMAIN q /\ z[i] = q[i]
      BY <1>1, <2>1, <2>2
    <3> QED BY <3>1 DEF Range
  <2>3. CASE ~(i <= Len(q))
    <3>1. i - Len(q) \in DOMAIN r /\ z[i] = r[i - Len(q)]
      BY <1>1, <2>1, <2>3
    <3> QED BY <3>1 DEF Range
  <2> QED BY <2>2, <2>3
<1>3. Range(z) \subseteq Range(q) \cup Range(r)
  BY <1>2 DEF Range
<1> QED BY <1>1, <1>3 DEF z

LEMMA RemoveRange ==
  ASSUME NEW S, NEW q \in Seq(S), NEW i \in DOMAIN q
  PROVE  /\ RemoveAt(q, i) \in Seq(S)
         /\ Range(RemoveAt(q, i)) \subseteq Range(q)
<1> DEFINE a == SubSeq(q, 1, i - 1)
           z == SubSeq(q, i + 1, Len(q))
<1>1. a \in Seq(S) /\ Range(a) \subseteq Range(q)
  BY DEF Range
<1>2. z \in Seq(S) /\ Range(z) \subseteq Range(q)
  BY DEF Range
<1>3. RemoveAt(q, i) = a \o z
  BY DEF RemoveAt
<1> HIDE DEF a, z
<1> QED BY <1>1, <1>2, <1>3, ConcatRange

-----------------------------------------------------------------------------
(* The invariant of the composition *)

\* A submission still to be stored, or an update still to be queued: it says that
\* the game in progress is active, and belongs to a game that was started.
TaskFits(t) ==
    t.stage \in {"write", "enqueue"} =>
        /\ t.id <= sessionId
        /\ data.isGameActive /\ t.id = data.id => t.active

RequestFits(r) ==
    /\ r.id <= sessionId
    /\ data.isGameActive /\ r.id = data.id => r.active

SessionsFit ==
    /\ \A id \in DOMAIN sessions : id <= sessionId
    /\ data.isGameActive => data.id \in DOMAIN sessions /\ sessions[data.id].active

SettledFits == \A id \in settled : id <= sessionId /\ (data.isGameActive => id # data.id)

PoolFits  == \A t \in Range(pool) : TaskFits(t)
QueueFits == \A r \in Range(sessionQ) : RequestFits(r)

IInv == TypeOK /\ GameInv /\ PoolFits /\ QueueFits /\ SessionsFit /\ SettledFits

\* The part of TypeOK about Net.
NetTypeOK ==
    /\ DOMAIN sessions \subseteq Ids
    /\ \A id \in DOMAIN sessions : sessions[id] \in GameSession
    /\ pool \in Seq(PoolTask)
    /\ updateTimer \subseteq Postponed /\ Cardinality(updateTimer) <= 1
    /\ dataTimer \subseteq Ids /\ Cardinality(dataTimer) <= 1
    /\ commitQ \in Seq(Ids)
    /\ committing \subseteq [id: Ids, active: BOOLEAN, uuid: BOOLEAN]
    /\ sessionQ \in Seq(HttpTask)
    /\ settled \subseteq Ids

\* How a step may move on to another game: none is in progress after it, the same
\* one is, or one with a new number.
GameMoves ==
    /\ sessionId \in Nat /\ sessionId' \in Nat /\ sessionId <= sessionId'
    /\ data'.isGameActive =>
         \/ data.isGameActive /\ data'.id = data.id
         \/ data'.id \in Nat /\ data'.id > sessionId

LEMMA GameStepMoves ==
  ASSUME GameInv, GameStep
  PROVE  GameMoves
<1>1. GameTypeOK
  BY DEF GameInv
<1>2. CASE Starts
  BY <1>1, <1>2 DEF Starts, GameMoves, GameTypeOK
<1>3. CASE Edits
  BY <1>1, <1>3 DEF Edits, Same, GameMoves, GameTypeOK
<1>4. CASE Waits \/ \E d \in GameDataType : Submits(d)
  BY <1>1, <1>4 DEF Waits, Submits, GoesOn, Forgets, Same, GameMoves, GameTypeOK, NoGame
<1> QED BY <1>1, <1>2, <1>3, <1>4, GameEffect

LEMMA TaskStillFits ==
  ASSUME GameMoves, NEW t \in PoolTask, TaskFits(t)
  PROVE  TaskFits(t)'
  BY DEF GameMoves, TaskFits, PoolTask, Ids

LEMMA RequestStillFits ==
  ASSUME GameMoves, NEW r \in HttpTask, RequestFits(r)
  PROVE  RequestFits(r)'
  BY DEF GameMoves, RequestFits, HttpTask, Ids

LEMMA PoolStillFits ==
  ASSUME GameMoves, pool \in Seq(PoolTask), PoolFits,
         NEW new, Range(pool') \subseteq Range(pool) \cup new,
         \A t \in new : TaskFits(t)'
  PROVE  PoolFits'
<1>1. ASSUME NEW t \in Range(pool) PROVE TaskFits(t)'
  <2>1. t \in PoolTask /\ TaskFits(t)
    BY <1>1 DEF PoolFits, Range
  <2> QED BY <2>1, TaskStillFits
<1> QED BY <1>1 DEF PoolFits

LEMMA QueueStillFits ==
  ASSUME GameMoves, sessionQ \in Seq(HttpTask), QueueFits,
         NEW new, Range(sessionQ') \subseteq Range(sessionQ) \cup new,
         \A r \in new : RequestFits(r)'
  PROVE  QueueFits'
<1>1. ASSUME NEW r \in Range(sessionQ) PROVE RequestFits(r)'
  <2>1. r \in HttpTask /\ RequestFits(r)
    BY <1>1 DEF QueueFits, Range
  <2> QED BY <2>1, RequestStillFits
<1> QED BY <1>1 DEF QueueFits

LEMMA SettledStillFits ==
  ASSUME GameMoves, settled \subseteq Ids, SettledFits, settled' = settled
  PROVE  SettledFits'
  BY DEF GameMoves, SettledFits, Ids

LEMMA PoolShrinks ==
  ASSUME GameMoves, pool \in Seq(PoolTask), PoolFits, Range(pool') \subseteq Range(pool)
  PROVE  PoolFits'
<1> PICK none : none = {}
  OBVIOUS
<1>1. Range(pool') \subseteq Range(pool) \cup none /\ \A t \in none : TaskFits(t)'
  OBVIOUS
<1> QED BY <1>1, PoolStillFits

LEMMA QueueShrinks ==
  ASSUME GameMoves, sessionQ \in Seq(HttpTask), QueueFits,
         Range(sessionQ') \subseteq Range(sessionQ)
  PROVE  QueueFits'
<1> PICK none : none = {}
  OBVIOUS
<1>1. Range(sessionQ') \subseteq Range(sessionQ) \cup none /\ \A r \in none : RequestFits(r)'
  OBVIOUS
<1> QED BY <1>1, QueueStillFits

NetInv == NetTypeOK /\ PoolFits /\ QueueFits /\ SessionsFit /\ SettledFits

LEMMA Parts == IInv <=> GameInv /\ NetInv
  BY DEF IInv, NetInv, TypeOK, NetTypeOK, GameInv

\* A step of Net that leaves a part alone, or only takes elements out of a queue,
\* leaves that part fitting.
LEMMA SameGame ==
  ASSUME GameInv, NetOnly
  PROVE  GameMoves /\ data' = data /\ sessionId' = sessionId
  BY GameStepMoves DEF GameStep, NetOnly

LEMMA SameSessions ==
  ASSUME SessionsFit, data' = data, sessionId' = sessionId,
         DOMAIN sessions' = DOMAIN sessions,
         \A id \in DOMAIN sessions : sessions'[id].active = sessions[id].active
  PROVE  SessionsFit'
  BY DEF SessionsFit

LEMMA AtMostOne ==
  ASSUME NEW e
  PROVE  Cardinality({}) <= 1 /\ Cardinality({e}) <= 1
<1>1. Cardinality({}) = 0
  BY FS_EmptySet
<1>2. Cardinality({e}) = 1
  BY FS_Singleton
<1> QED BY <1>1, <1>2

\* One handler moves on, or ends.
LEMMA Advanced ==
  ASSUME NetInv, GameMoves, NEW i \in DOMAIN pool, NEW t \in PoolTask,
         Advance(i, t), TaskFits(t)'
  PROVE  pool' \in Seq(PoolTask) /\ PoolFits'
<1>1. pool \in Seq(PoolTask) /\ PoolFits
  BY DEF NetInv, NetTypeOK
<1>2. pool' \in Seq(PoolTask) /\ Range(pool') \subseteq Range(pool) \cup {t}
  BY <1>1, ExceptRange DEF Advance
<1> PICK new : new = {t}
  OBVIOUS
<1>3. Range(pool') \subseteq Range(pool) \cup new /\ \A x \in new : TaskFits(x)'
  BY <1>2
<1> QED BY <1>1, <1>2, <1>3, PoolStillFits

LEMMA Finished ==
  ASSUME NetInv, GameMoves, NEW i \in DOMAIN pool, Finish(i)
  PROVE  pool' \in Seq(PoolTask) /\ PoolFits'
<1>1. pool \in Seq(PoolTask) /\ PoolFits
  BY DEF NetInv, NetTypeOK
<1>2. pool' \in Seq(PoolTask) /\ Range(pool') \subseteq Range(pool)
  BY <1>1, RemoveRange DEF Finish
<1> QED BY <1>1, <1>2, PoolShrinks

LEMMA Untouched ==
  ASSUME NetInv, GameMoves
  PROVE  /\ pool' = pool => pool' \in Seq(PoolTask) /\ PoolFits'
         /\ sessionQ' = sessionQ => sessionQ' \in Seq(HttpTask) /\ QueueFits'
         /\ settled' = settled => settled' \subseteq Ids /\ SettledFits'
         /\ data' = data /\ sessionId' = sessionId /\ sessions' = sessions => SessionsFit'
<1> USE DEF NetInv, NetTypeOK
<1>1. pool' = pool => pool' \in Seq(PoolTask) /\ PoolFits'
  BY PoolShrinks
<1>2. sessionQ' = sessionQ => sessionQ' \in Seq(HttpTask) /\ QueueFits'
  BY QueueShrinks
<1>3. settled' = settled => settled' \subseteq Ids /\ SettledFits'
  BY SettledStillFits
<1>4. data' = data /\ sessionId' = sessionId /\ sessions' = sessions => SessionsFit'
  BY DEF SessionsFit
<1> QED BY <1>1, <1>2, <1>3, <1>4

LEMMA QueueGrows ==
  ASSUME NetInv, GameMoves, NEW r \in HttpTask, RequestFits(r)',
         Range(sessionQ') \subseteq Range(sessionQ) \cup {r}
  PROVE  QueueFits'
<1> PICK new : new = {r}
  OBVIOUS
<1>1. Range(sessionQ') \subseteq Range(sessionQ) \cup new /\ \A x \in new : RequestFits(x)'
  OBVIOUS
<1>2. sessionQ \in Seq(HttpTask) /\ QueueFits
  BY DEF NetInv, NetTypeOK
<1> QED BY <1>1, <1>2, QueueStillFits

LEMMA PoolGrows ==
  ASSUME NetInv, GameMoves, NEW t \in PoolTask, TaskFits(t)',
         Range(pool') \subseteq Range(pool) \cup {t}
  PROVE  PoolFits'
<1> PICK new : new = {t}
  OBVIOUS
<1>1. Range(pool') \subseteq Range(pool) \cup new /\ \A x \in new : TaskFits(x)'
  OBVIOUS
<1>2. pool \in Seq(PoolTask) /\ PoolFits
  BY DEF NetInv, NetTypeOK
<1> QED BY <1>1, <1>2, PoolStillFits

\* A waiting handler and what is known of it.
LEMMA TaskInPool ==
  ASSUME NetInv, NEW i \in DOMAIN pool
  PROVE  pool[i] \in PoolTask /\ TaskFits(pool[i])
  BY DEF NetInv, NetTypeOK, PoolFits, Range

-----------------------------------------------------------------------------
(* The pool handlers *)

LEMMA WriteDataKeeps ==
  ASSUME IInv, NEW i \in DOMAIN pool, WriteData(i)
  PROVE  NetInv'
<1> DEFINE t == pool[i]
           s == Session(t.id)
           n == [s EXCEPT !.active = t.active, !.number = t.number,
                          !.history = Append(@, t.number)]
<1> PICK u : u = [t EXCEPT !.stage = IF ~t.active \/ s.counter = 1 THEN "send" ELSE "update"]
  OBVIOUS
<1>1. NetInv /\ GameInv /\ NetTypeOK
  BY Parts DEF NetInv
<1>2. GameMoves /\ data' = data /\ sessionId' = sessionId
  BY <1>1, SameGame DEF WriteData
<1>3. t \in PoolTask /\ TaskFits(t) /\ t.stage = "write"
  BY <1>1, TaskInPool DEF WriteData
<1>4. s \in GameSession
  BY <1>1 DEF Session, NetTypeOK, NewSession, GameSession
<1>5. sessions' = Put(t.id, n) /\ Advance(i, u)
  BY DEF WriteData
<1> HIDE DEF t, s
<1>6. n \in GameSession /\ n.active = t.active
  <2>1. Append(s.history, t.number) \in Seq(Nat)
    BY <1>3, <1>4 DEF GameSession, PoolTask
  <2>2. n.history = Append(s.history, t.number)
    BY <1>4 DEF GameSession
  <2> QED BY <1>3, <1>4, <2>1, <2>2 DEF GameSession, PoolTask
<1>7. u \in PoolTask /\ u.stage \in {"send", "update"}
  BY <1>3 DEF PoolTask, Stages
<1> HIDE DEF n
<1>8. TaskFits(u)'
  BY <1>7 DEF TaskFits
<1>9. pool' \in Seq(PoolTask) /\ PoolFits'
  BY <1>1, <1>2, <1>5, <1>7, <1>8, Advanced
<1>10. /\ DOMAIN sessions' = DOMAIN sessions \cup {t.id}
       /\ \A id \in DOMAIN sessions' : sessions'[id] = IF id = t.id THEN n ELSE sessions[id]
  BY <1>5 DEF Put
<1>11. t.id \in Ids /\ t.id <= sessionId /\ (data.isGameActive /\ t.id = data.id => t.active)
  BY <1>3 DEF PoolTask, TaskFits
<1>12. DOMAIN sessions' \subseteq Ids /\ \A id \in DOMAIN sessions' : sessions'[id] \in GameSession
  BY <1>1, <1>6, <1>10, <1>11 DEF NetTypeOK
<1>13. SessionsFit'
  BY <1>1, <1>2, <1>6, <1>10, <1>11 DEF NetInv, SessionsFit
<1>14. UNCHANGED <<updateTimer, dataTimer, commitQ, committing, sessionQ, settled>>
  BY DEF WriteData
<1>15. QueueFits' /\ SettledFits'
  BY <1>1, <1>2, <1>14, Untouched
<1> QED BY <1>1, <1>9, <1>12, <1>13, <1>14, <1>15 DEF NetInv, NetTypeOK

LEMMA PostCommitKeeps ==
  ASSUME IInv, NEW i \in DOMAIN pool, PostCommit(i)
  PROVE  NetInv'
<1> DEFINE t == pool[i]
<1> PICK u : u = [t EXCEPT !.stage = "update"]
  OBVIOUS
<1>1. NetInv /\ GameInv /\ NetTypeOK
  BY Parts DEF NetInv
<1>2. GameMoves /\ data' = data /\ sessionId' = sessionId
  BY <1>1, SameGame DEF PostCommit
<1>3. t \in PoolTask
  BY <1>1, TaskInPool
<1>4. /\ Advance(i, u) /\ commitQ' = Append(commitQ, t.id)
      /\ UNCHANGED <<sessions, updateTimer, dataTimer, committing, sessionQ, settled>>
  BY DEF PostCommit
<1> HIDE DEF t
<1>5. u \in PoolTask /\ u.stage = "update"
  BY <1>3 DEF PoolTask, Stages
<1>6. TaskFits(u)'
  BY <1>5 DEF TaskFits
<1>7. pool' \in Seq(PoolTask) /\ PoolFits'
  BY <1>1, <1>2, <1>4, <1>5, <1>6, Advanced
<1>8. commitQ' \in Seq(Ids)
  BY <1>1, <1>3, <1>4 DEF NetTypeOK, PoolTask
<1>9. QueueFits' /\ SettledFits' /\ SessionsFit'
  BY <1>1, <1>2, <1>4, Untouched
<1> QED BY <1>1, <1>4, <1>7, <1>8, <1>9 DEF NetInv, NetTypeOK

LEMMA SessionUpdateKeeps ==
  ASSUME IInv, NEW i \in DOMAIN pool, SessionUpdate(i)
  PROVE  NetInv'
<1> DEFINE t == pool[i]
           p == [id |-> t.id, flags |-> t.flags \cup {"Debounced"}]
<1> PICK u : u = [t EXCEPT !.stage = "compose"]
  OBVIOUS
<1>1. NetInv /\ GameInv /\ NetTypeOK
  BY Parts DEF NetInv
<1>2. GameMoves /\ data' = data /\ sessionId' = sessionId
  BY <1>1, SameGame DEF SessionUpdate
<1>3. t \in PoolTask
  BY <1>1, TaskInPool
<1>4. /\ UNCHANGED <<sessions, dataTimer, commitQ, committing, sessionQ, settled>>
      /\ \/ updateTimer' = {p} /\ Finish(i)
         \/ updateTimer' = {} /\ Advance(i, u)
  BY DEF SessionUpdate
<1> HIDE DEF t
<1>5. u \in PoolTask /\ u.stage = "compose" /\ p \in Postponed
  BY <1>3 DEF PoolTask, Stages, Postponed, SessionFlag
<1> HIDE DEF p
<1>6. TaskFits(u)'
  BY <1>5 DEF TaskFits
<1>7. pool' \in Seq(PoolTask) /\ PoolFits'
  BY <1>1, <1>2, <1>4, <1>5, <1>6, Advanced, Finished
<1>8. updateTimer' \subseteq Postponed /\ Cardinality(updateTimer') <= 1
  BY <1>4, <1>5, AtMostOne
<1>9. QueueFits' /\ SettledFits' /\ SessionsFit'
  BY <1>1, <1>2, <1>4, Untouched
<1> QED BY <1>1, <1>4, <1>7, <1>8, <1>9 DEF NetInv, NetTypeOK

LEMMA NoUpdateKeeps ==
  ASSUME IInv, NEW i \in DOMAIN pool, NoUpdate(i)
  PROVE  NetInv'
<1>1. NetInv /\ GameInv /\ NetTypeOK
  BY Parts DEF NetInv
<1>2. GameMoves /\ data' = data /\ sessionId' = sessionId
  BY <1>1, SameGame DEF NoUpdate
<1>3. /\ UNCHANGED <<sessions, updateTimer, dataTimer, commitQ, committing, sessionQ, settled>>
      /\ Finish(i)
  BY DEF NoUpdate
<1>4. pool' \in Seq(PoolTask) /\ PoolFits'
  BY <1>1, <1>2, <1>3, Finished
<1>5. QueueFits' /\ SettledFits' /\ SessionsFit'
  BY <1>1, <1>2, <1>3, Untouched
<1> QED BY <1>1, <1>3, <1>4, <1>5 DEF NetInv, NetTypeOK

\* An update is composed from the session as stored: that of the game in progress
\* says it is active.
LEMMA ComposeUpdateKeeps ==
  ASSUME IInv, NEW i \in DOMAIN pool, ComposeUpdate(i)
  PROVE  NetInv'
<1> DEFINE t == pool[i]
           h == IF "UploadHistoryLogs" \in t.flags THEN sessions[t.id].history ELSE <<>>
           p == [id |-> t.id, flags |-> t.flags]
<1> PICK u : u = [t EXCEPT !.stage = "enqueue", !.active = sessions[t.id].active,
                           !.counter = sessions[t.id].counter, !.history = h]
  OBVIOUS
<1>1. NetInv /\ GameInv /\ NetTypeOK
  BY Parts DEF NetInv
<1>2. GameMoves /\ data' = data /\ sessionId' = sessionId
  BY <1>1, SameGame DEF ComposeUpdate
<1>3. t \in PoolTask
  BY <1>1, TaskInPool
<1>4. /\ UNCHANGED <<sessions, dataTimer, commitQ, committing, sessionQ, settled>>
      /\ \/ updateTimer' = updateTimer /\ Finish(i)
         \/ updateTimer' = {p} /\ Finish(i)
         \/ t.id \in DOMAIN sessions /\ updateTimer' = updateTimer /\ Advance(i, u)
  BY DEF ComposeUpdate
<1> HIDE DEF t
<1>5. p \in Postponed
  BY <1>3 DEF PoolTask, Postponed
<1>6. ASSUME t.id \in DOMAIN sessions, Advance(i, u)
      PROVE  pool' \in Seq(PoolTask) /\ PoolFits'
  <2>1. sessions[t.id] \in GameSession
    BY <1>1, <1>6 DEF NetTypeOK
  <2>2. h \in Seq(Nat)
    BY <2>1 DEF GameSession
  <2> HIDE DEF h
  <2>3. /\ u \in PoolTask /\ u.stage = "enqueue"
        /\ u.id = t.id /\ u.active = sessions[t.id].active
    BY <1>3, <2>1, <2>2 DEF PoolTask, Stages, GameSession
  <2>4. TaskFits(u)'
    BY <1>1, <1>2, <1>6, <2>3 DEF TaskFits, NetInv, SessionsFit
  <2> QED BY <1>1, <1>2, <1>6, <2>3, <2>4, Advanced
<1> HIDE DEF p
<1>7. pool' \in Seq(PoolTask) /\ PoolFits'
  BY <1>1, <1>2, <1>4, <1>6, Finished
<1>8. updateTimer' \subseteq Postponed /\ Cardinality(updateTimer') <= 1
  BY <1>1, <1>4, <1>5, AtMostOne DEF NetTypeOK
<1>9. QueueFits' /\ SettledFits' /\ SessionsFit'
  BY <1>1, <1>2, <1>4, Untouched
<1> QED BY <1>1, <1>4, <1>7, <1>8, <1>9 DEF NetInv, NetTypeOK

LEMMA EnqueueUpdateKeeps ==
  ASSUME IInv, NEW i \in DOMAIN pool, EnqueueUpdate(i)
  PROVE  NetInv'
<1> DEFINE t == pool[i]
<1> PICK r : r = [kind |-> "patch", id |-> t.id, active |-> t.active,
                  counter |-> t.counter, history |-> t.history]
  OBVIOUS
<1>1. NetInv /\ GameInv /\ NetTypeOK
  BY Parts DEF NetInv
<1>2. GameMoves /\ data' = data /\ sessionId' = sessionId
  BY <1>1, SameGame DEF EnqueueUpdate
<1>3. t \in PoolTask /\ TaskFits(t) /\ t.stage = "enqueue"
  BY <1>1, TaskInPool DEF EnqueueUpdate
<1>4. /\ UNCHANGED <<sessions, updateTimer, dataTimer, commitQ, committing, settled>>
      /\ sessionQ' = Append(sessionQ, r) /\ Finish(i)
  BY DEF EnqueueUpdate
<1> HIDE DEF t
<1>5. r \in HttpTask /\ r.id = t.id /\ r.active = t.active
  BY <1>3 DEF PoolTask, HttpTask
<1>6. RequestFits(r)'
  BY <1>2, <1>3, <1>5 DEF RequestFits, TaskFits
<1>7. sessionQ' \in Seq(HttpTask) /\ Range(sessionQ') \subseteq Range(sessionQ) \cup {r}
  BY <1>1, <1>4, <1>5, AppendRange DEF NetTypeOK
<1>8. QueueFits'
  BY <1>1, <1>2, <1>5, <1>6, <1>7, QueueGrows
<1>9. pool' \in Seq(PoolTask) /\ PoolFits'
  BY <1>1, <1>2, <1>4, Finished
<1>10. SettledFits' /\ SessionsFit'
  BY <1>1, <1>2, <1>4, Untouched
<1> QED BY <1>1, <1>4, <1>7, <1>8, <1>9, <1>10 DEF NetInv, NetTypeOK

LEMMA RunHandlerKeeps ==
  ASSUME IInv, NEW i \in Running, RunHandler(i)
  PROVE  NetInv' /\ NetOnly
<1>1. i \in DOMAIN pool
  BY DEF Running
<1>2. NetInv'
  BY <1>1, WriteDataKeeps, PostCommitKeeps, SessionUpdateKeeps, NoUpdateKeeps,
     ComposeUpdateKeeps, EnqueueUpdateKeeps DEF RunHandler
<1>3. NetOnly
  BY DEF RunHandler, WriteData, PostCommit, SessionUpdate, NoUpdate, ComposeUpdate,
         EnqueueUpdate
<1> QED BY <1>2, <1>3

LEMMA TimersKeep ==
  ASSUME IInv, UpdateTimerExpires \/ DataTimerExpires
  PROVE  NetInv' /\ NetOnly
<1>1. NetInv /\ GameInv /\ NetTypeOK
  BY Parts DEF NetInv
<1>2. NetOnly
  BY DEF UpdateTimerExpires, DataTimerExpires
<1>3. GameMoves /\ data' = data /\ sessionId' = sessionId
  BY <1>1, <1>2, SameGame
<1>4. PICK t \in PoolTask : t.stage \in {"send", "update"} /\ pool' = Append(pool, t)
  <2>1. CASE UpdateTimerExpires
    <3>1. PICK u \in updateTimer :
            pool' = Append(pool, [stage |-> "update", id |-> u.id, active |-> FALSE,
                                  number |-> 0, flags |-> u.flags, counter |-> 0,
                                  history |-> <<>>])
      BY <2>1 DEF UpdateTimerExpires
    <3>2. u \in Postponed
      BY <1>1 DEF NetTypeOK
    <3> DEFINE t == [stage |-> "update", id |-> u.id, active |-> FALSE,
                     number |-> 0, flags |-> u.flags, counter |-> 0, history |-> <<>>]
    <3>3. t \in PoolTask /\ t.stage = "update"
      BY <3>2 DEF Postponed, PoolTask, Stages
    <3> QED BY <3>1, <3>3
  <2>2. CASE DataTimerExpires
    <3>1. PICK id \in dataTimer :
            pool' = Append(pool, [stage |-> "send", id |-> id, active |-> FALSE,
                                  number |-> 0, flags |-> {}, counter |-> 0,
                                  history |-> <<>>])
      BY <2>2 DEF DataTimerExpires
    <3>2. id \in Ids
      BY <1>1 DEF NetTypeOK
    <3> DEFINE t == [stage |-> "send", id |-> id, active |-> FALSE,
                     number |-> 0, flags |-> {}, counter |-> 0, history |-> <<>>]
    <3>3. t \in PoolTask /\ t.stage = "send"
      BY <3>2 DEF PoolTask, Stages
    <3> QED BY <3>1, <3>3
  <2> QED BY <2>1, <2>2
<1>5. TaskFits(t)'
  BY <1>4 DEF TaskFits
<1>6. pool' \in Seq(PoolTask) /\ Range(pool') \subseteq Range(pool) \cup {t}
  BY <1>1, <1>4, AppendRange DEF NetTypeOK
<1>7. PoolFits'
  BY <1>1, <1>3, <1>5, <1>6, PoolGrows
<1>8. /\ UNCHANGED <<sessions, commitQ, committing, sessionQ, settled>>
      /\ updateTimer' = {} \/ updateTimer' = updateTimer
      /\ dataTimer' = {} \/ dataTimer' = dataTimer
  BY DEF UpdateTimerExpires, DataTimerExpires
<1>9. QueueFits' /\ SettledFits' /\ SessionsFit'
  BY <1>1, <1>3, <1>8, Untouched
<1>10. updateTimer' \subseteq Postponed /\ Cardinality(updateTimer') <= 1
  BY <1>1, <1>8, AtMostOne DEF NetTypeOK
<1>11. dataTimer' \subseteq Ids /\ Cardinality(dataTimer') <= 1
  BY <1>1, <1>8, AtMostOne DEF NetTypeOK
<1> QED BY <1>1, <1>2, <1>6, <1>7, <1>8, <1>9, <1>10, <1>11 DEF NetInv, NetTypeOK

-----------------------------------------------------------------------------
(* The commit strand *)

LEMMA CommitTakeKeeps ==
  ASSUME IInv, CommitSnapshot \/ CommitNoClient
  PROVE  NetInv' /\ NetOnly
<1>1. NetInv /\ GameInv /\ NetTypeOK
  BY Parts DEF NetInv
<1>2. /\ NetOnly /\ commitQ # <<>> /\ commitQ' = Tail(commitQ) /\ dataTimer' = {}
      /\ UNCHANGED <<sessions, pool, updateTimer, sessionQ, settled>>
  BY DEF CommitSnapshot, CommitNoClient
<1>3. GameMoves /\ data' = data /\ sessionId' = sessionId
  BY <1>1, <1>2, SameGame
<1>4. committing' \subseteq [id: Ids, active: BOOLEAN, uuid: BOOLEAN]
  <2>1. CASE CommitNoClient
    BY <1>1, <2>1 DEF CommitNoClient, NetTypeOK
  <2>2. CASE CommitSnapshot
    <3> DEFINE id == Head(commitQ)
               c  == [id |-> id, active |-> sessions[id].active, uuid |-> sessions[id].uuid]
    <3>1. committing' = IF id \in DOMAIN sessions THEN {c} ELSE {}
      BY <2>2 DEF CommitSnapshot
    <3> HIDE DEF id
    <3>2. CASE id \in DOMAIN sessions
      <4>1. sessions[id] \in GameSession /\ id \in Ids
        BY <1>1, <3>2 DEF NetTypeOK
      <4>2. c \in [id: Ids, active: BOOLEAN, uuid: BOOLEAN]
        BY <4>1 DEF GameSession
      <4> HIDE DEF c
      <4> QED BY <3>1, <3>2, <4>2
    <3>3. CASE id \notin DOMAIN sessions
      BY <3>1, <3>3
    <3> QED BY <3>2, <3>3
  <2> QED BY <2>1, <2>2
<1>5. PoolFits' /\ QueueFits' /\ SettledFits' /\ SessionsFit'
  BY <1>1, <1>2, <1>3, Untouched
<1>6. commitQ' \in Seq(Ids)
  BY <1>1, <1>2, TailRange DEF NetTypeOK
<1>7. dataTimer' \subseteq Ids /\ Cardinality(dataTimer') <= 1
  BY <1>2, AtMostOne
<1> QED BY <1>1, <1>2, <1>4, <1>5, <1>6, <1>7 DEF NetInv, NetTypeOK

LEMMA CommitEndKeeps ==
  ASSUME IInv, CommitSkip \/ CommitPublish
  PROVE  NetInv' /\ NetOnly
<1>1. NetInv /\ GameInv /\ NetTypeOK
  BY Parts DEF NetInv
<1>2. /\ NetOnly /\ committing' = {}
      /\ UNCHANGED <<pool, updateTimer, commitQ, sessionQ, settled>>
  BY DEF CommitSkip, CommitPublish
<1>3. GameMoves /\ data' = data /\ sessionId' = sessionId
  BY <1>1, <1>2, SameGame
<1>4. PICK c \in committing :
        /\ dataTimer' = dataTimer \/ dataTimer' = {c.id}
        /\ \/ sessions' = sessions
           \/ /\ c.id \in DOMAIN sessions
              /\ sessions' = [sessions EXCEPT ![c.id].counter = @ + 1]
  BY DEF CommitSkip, CommitPublish, Rearm
<1>5. c.id \in Ids
  BY <1>1 DEF NetTypeOK
<1>6. dataTimer' \subseteq Ids /\ Cardinality(dataTimer') <= 1
  BY <1>1, <1>4, <1>5, AtMostOne DEF NetTypeOK
<1>7. /\ DOMAIN sessions' = DOMAIN sessions
      /\ \A id \in DOMAIN sessions : /\ sessions'[id] \in GameSession
                                     /\ sessions'[id].active = sessions[id].active
  <2>1. CASE sessions' = sessions
    BY <1>1, <2>1 DEF NetTypeOK
  <2>2. CASE /\ c.id \in DOMAIN sessions
             /\ sessions' = [sessions EXCEPT ![c.id].counter = @ + 1]
    <3>1. DOMAIN sessions' = DOMAIN sessions
      BY <2>2
    <3>2. ASSUME NEW id \in DOMAIN sessions
          PROVE  sessions'[id] = IF id = c.id
                                 THEN [sessions[id] EXCEPT !.counter = @ + 1]
                                 ELSE sessions[id]
      BY <2>2
    <3>3. ASSUME NEW id \in DOMAIN sessions PROVE sessions[id] \in GameSession
      BY <1>1 DEF NetTypeOK
    <3>4. ASSUME NEW e \in GameSession
          PROVE  /\ [e EXCEPT !.counter = @ + 1] \in GameSession
                 /\ [e EXCEPT !.counter = @ + 1].active = e.active
      BY DEF GameSession
    <3> QED BY <3>1, <3>2, <3>3, <3>4
  <2> QED BY <1>4, <2>1, <2>2
<1>8. SessionsFit'
  BY <1>1, <1>3, <1>7, SameSessions DEF NetInv
<1>9. PoolFits' /\ QueueFits' /\ SettledFits'
  BY <1>1, <1>2, <1>3, Untouched
<1> QED BY <1>1, <1>2, <1>6, <1>7, <1>8, <1>9 DEF NetInv, NetTypeOK

-----------------------------------------------------------------------------
(* The session strand *)

LEMMA CreateSucceedsKeeps ==
  ASSUME IInv, CreateSucceeds
  PROVE  NetInv' /\ NetOnly
<1>1. NetInv /\ GameInv /\ NetTypeOK
  BY Parts DEF NetInv
<1>2. /\ NetOnly /\ sessionQ # <<>>
      /\ UNCHANGED <<pool, updateTimer, dataTimer, commitQ, committing, settled>>
  BY DEF CreateSucceeds, HeadIs
<1>3. GameMoves /\ data' = data /\ sessionId' = sessionId
  BY <1>1, <1>2, SameGame
<1>4. /\ sessionQ \in Seq(HttpTask) /\ Head(sessionQ) \in HttpTask
      /\ Head(sessionQ) \in Range(sessionQ) /\ RequestFits(Head(sessionQ))
  BY <1>1, <1>2, TailRange DEF NetInv, NetTypeOK, QueueFits
<1> PICK h : h = Head(sessionQ)
  OBVIOUS
<1> PICK r : r = [h EXCEPT !.kind = "created"]
  OBVIOUS
<1>5. /\ r \in HttpTask /\ r.id = h.id /\ r.active = h.active
  BY <1>4 DEF HttpTask
<1>6. RequestFits(r)'
  BY <1>3, <1>4, <1>5 DEF RequestFits
<1>7. CASE h.id \in DOMAIN sessions
  <2>1. /\ sessions' = [sessions EXCEPT ![h.id].uuid = TRUE]
        /\ sessionQ' = [sessionQ EXCEPT ![1].kind = "created"]
    BY <1>7 DEF CreateSucceeds
  <2>2. 1 \in DOMAIN sessionQ /\ sessionQ[1] = h
    BY <1>2, <1>4
  <2>3. sessionQ' = [sessionQ EXCEPT ![1] = r]
    BY <2>1, <2>2
  <2>4. sessionQ' \in Seq(HttpTask) /\ Range(sessionQ') \subseteq Range(sessionQ) \cup {r}
    <3>1. PICK k \in DOMAIN sessionQ : k = 1
      BY <2>2
    <3>2. /\ [sessionQ EXCEPT ![k] = r] \in Seq(HttpTask)
          /\ Range([sessionQ EXCEPT ![k] = r]) \subseteq Range(sessionQ) \cup {r}
      BY <1>4, <1>5, ExceptRange
    <3> QED BY <2>3, <3>1, <3>2
  <2>5. QueueFits'
    BY <1>1, <1>3, <1>5, <1>6, <2>4, QueueGrows
  <2>6. DOMAIN sessions' = DOMAIN sessions
    BY <2>1
  <2>7. ASSUME NEW id \in DOMAIN sessions
        PROVE  sessions'[id] = IF id = h.id THEN [sessions[id] EXCEPT !.uuid = TRUE]
                                            ELSE sessions[id]
    BY <2>1
  <2>8. ASSUME NEW id \in DOMAIN sessions PROVE sessions[id] \in GameSession
    BY <1>1 DEF NetTypeOK
  <2>9. ASSUME NEW e \in GameSession
        PROVE  /\ [e EXCEPT !.uuid = TRUE] \in GameSession
               /\ [e EXCEPT !.uuid = TRUE].active = e.active
    BY DEF GameSession
  <2>10. \A id \in DOMAIN sessions : /\ sessions'[id] \in GameSession
                                     /\ sessions'[id].active = sessions[id].active
    BY <2>7, <2>8, <2>9
  <2>11. SessionsFit'
    BY <1>1, <1>3, <2>6, <2>10, SameSessions DEF NetInv
  <2>12. PoolFits' /\ SettledFits'
    BY <1>1, <1>2, <1>3, Untouched
  <2> QED BY <1>1, <1>2, <2>4, <2>5, <2>6, <2>10, <2>11, <2>12 DEF NetInv, NetTypeOK
<1>8. CASE h.id \notin DOMAIN sessions
  <2>1. sessions' = sessions /\ sessionQ' = Tail(sessionQ)
    BY <1>8 DEF CreateSucceeds
  <2>2. sessionQ' \in Seq(HttpTask) /\ Range(sessionQ') \subseteq Range(sessionQ)
    BY <1>2, <1>4, <2>1, TailRange
  <2>3. QueueFits'
    BY <1>1, <1>3, <2>2, QueueShrinks DEF NetInv, NetTypeOK
  <2>4. PoolFits' /\ SettledFits' /\ SessionsFit'
    BY <1>1, <1>2, <1>3, <2>1, Untouched
  <2> QED BY <1>1, <1>2, <2>1, <2>2, <2>3, <2>4 DEF NetInv, NetTypeOK
<1> QED BY <1>2, <1>7, <1>8

LEMMA RequestFailsKeeps ==
  ASSUME IInv, RequestFails
  PROVE  NetInv' /\ NetOnly
<1>1. NetInv /\ GameInv /\ NetTypeOK
  BY Parts DEF NetInv
<1>2. /\ NetOnly /\ sessionQ # <<>> /\ sessionQ' = Tail(sessionQ)
      /\ UNCHANGED <<sessions, pool, updateTimer, dataTimer, commitQ, committing, settled>>
  BY DEF RequestFails, HeadIs
<1>3. GameMoves /\ data' = data /\ sessionId' = sessionId
  BY <1>1, <1>2, SameGame
<1>4. sessionQ' \in Seq(HttpTask) /\ Range(sessionQ') \subseteq Range(sessionQ)
  BY <1>1, <1>2, TailRange DEF NetTypeOK
<1>5. QueueFits'
  BY <1>1, <1>3, <1>4, QueueShrinks DEF NetInv, NetTypeOK
<1>6. PoolFits' /\ SettledFits' /\ SessionsFit'
  BY <1>1, <1>2, <1>3, Untouched
<1> QED BY <1>1, <1>2, <1>4, <1>5, <1>6 DEF NetInv, NetTypeOK

\* The reply to an update neither erases nor settles the game in progress: its
\* session says it is active, and so did the update.
LEMMA PatchSucceedsKeeps ==
  ASSUME IInv, PatchSucceeds
  PROVE  NetInv' /\ NetOnly
<1>1. NetInv /\ GameInv /\ NetTypeOK
  BY Parts DEF NetInv
<1> PICK h : h = Head(sessionQ)
  OBVIOUS
<1>2. /\ NetOnly /\ sessionQ # <<>> /\ sessionQ' = Tail(sessionQ)
      /\ sessions' = IF Session(h.id).active THEN sessions ELSE Erase(h.id)
      /\ settled' = IF h.active THEN settled ELSE settled \cup {h.id}
      /\ UNCHANGED <<pool, updateTimer, dataTimer, commitQ, committing>>
  BY DEF PatchSucceeds, HeadIs
<1>3. GameMoves /\ data' = data /\ sessionId' = sessionId
  BY <1>1, <1>2, SameGame
<1>4. /\ h \in HttpTask /\ RequestFits(h)
      /\ sessionQ' \in Seq(HttpTask) /\ Range(sessionQ') \subseteq Range(sessionQ)
  BY <1>1, <1>2, TailRange DEF NetInv, NetTypeOK, QueueFits
<1>5. QueueFits'
  BY <1>1, <1>3, <1>4, QueueShrinks DEF NetInv, NetTypeOK
<1>6. PoolFits'
  BY <1>1, <1>2, <1>3, Untouched
<1>7. settled' \subseteq Ids /\ SettledFits'
  <2>1. h.id \in Ids /\ h.id <= sessionId /\ (data.isGameActive /\ h.id = data.id => h.active)
    BY <1>4 DEF HttpTask, RequestFits
  <2>2. settled \subseteq Ids /\ SettledFits
    BY <1>1 DEF NetInv, NetTypeOK
  <2> QED BY <1>2, <1>3, <2>1, <2>2 DEF SettledFits
<1>8. /\ DOMAIN sessions' \subseteq DOMAIN sessions
      /\ \A id \in DOMAIN sessions' : sessions'[id] = sessions[id]
  BY <1>2 DEF Erase
<1>9. data.isGameActive => data.id \in DOMAIN sessions'
  <2>1. data.isGameActive => data.id \in DOMAIN sessions /\ sessions[data.id].active
    BY <1>1 DEF NetInv, SessionsFit
  <2>2. CASE h.id = data.id
    BY <1>2, <2>1, <2>2 DEF Session
  <2>3. CASE h.id # data.id
    BY <1>2, <2>1, <2>3 DEF Erase
  <2> QED BY <2>2, <2>3
<1>10. SessionsFit'
  BY <1>1, <1>3, <1>8, <1>9 DEF NetInv, SessionsFit
<1> QED BY <1>1, <1>2, <1>4, <1>5, <1>6, <1>7, <1>8, <1>10 DEF NetInv, NetTypeOK

-----------------------------------------------------------------------------
(* The submissions of GameState *)

LEMMA SubmittedTasks ==
  ASSUME GameInv, GameStep, \A i \in DOMAIN calls' : calls'[i].op = "submit",
         NEW q, q = [i \in DOMAIN calls' |-> SubmitTask(calls'[i])]
  PROVE  q \in Seq(PoolTask) /\ \A t \in Range(q) : TaskFits(t)'
<1>1. GameTypeOK /\ calls' \in Seq(Call)
  BY GamePreserved DEF GameInv, GameTypeOK
<1>2. ASSUME NEW c \in Call
      PROVE  /\ SubmitTask(c) \in PoolTask
             /\ SubmitTask(c).id = c.data.id
             /\ SubmitTask(c).active = c.data.isGameActive
  BY DEF SubmitTask, Call, PoolTask, GameDataType, Ids, Stages
<1>3. q \in Seq(PoolTask)
  BY <1>1, <1>2
<1>4. CASE Starts \/ Edits \/ Waits
  <2>1. calls' = <<>>
    BY <1>4 DEF Starts, Edits, Waits
  <2> QED BY <1>3, <2>1 DEF Range
<1>5. ASSUME NEW d \in GameDataType, Submits(d), NEW t \in Range(q)
      PROVE  TaskFits(t)'
  <2>1. PICK i \in DOMAIN calls' : t = SubmitTask(calls'[i])
    BY <1>5 DEF Range
  <2>2. calls'[i].data.id = d.id /\ calls'[i].data.isGameActive = d.isGameActive
    BY <1>1, <1>5, SubmissionsShape DEF Submits, GameTypeOK
  <2>3. t.id = d.id /\ t.active = d.isGameActive
    BY <1>1, <1>2, <2>1, <2>2
  <2>4. d.id <= sessionId
    <3>1. d.id = data.id
      BY <1>1, <1>5 DEF Submits, GameTypeOK, GameDataType
    <3>2. data.id <= sessionId
      BY <1>1 DEF GameInv, Playing, NoGame, GameTypeOK
    <3> QED BY <3>1, <3>2
  <2>5. data'.isGameActive => d = data'
    BY <1>5 DEF Submits, GoesOn
  <2>6. sessionId' = sessionId
    BY <1>5 DEF Submits
  <2> QED BY <2>3, <2>4, <2>5, <2>6 DEF TaskFits
<1> QED BY <1>1, <1>3, <1>4, <1>5, GameEffect

LEMMA Submitting ==
  ASSUME IInv, GameStep, \A i \in DOMAIN calls' : calls'[i].op = "submit",
         pool' = pool \o [i \in DOMAIN calls' |-> SubmitTask(calls'[i])]
  PROVE  pool' \in Seq(PoolTask) /\ PoolFits'
<1>1. NetInv /\ GameInv /\ pool \in Seq(PoolTask) /\ PoolFits
  BY Parts DEF NetInv, NetTypeOK
<1> PICK q : q = [i \in DOMAIN calls' |-> SubmitTask(calls'[i])]
  OBVIOUS
<1>2. q \in Seq(PoolTask) /\ \A t \in Range(q) : TaskFits(t)'
  BY <1>1, SubmittedTasks
<1>3. pool' \in Seq(PoolTask) /\ Range(pool') \subseteq Range(pool) \cup Range(q)
  BY <1>1, <1>2, ConcatRange
<1>4. GameMoves
  BY <1>1, GameStepMoves
<1> QED BY <1>1, <1>2, <1>3, <1>4, PoolStillFits

LEMMA SessionCreatedKeeps ==
  ASSUME IInv, SessionCreated
  PROVE  NetInv' /\ GameStep
<1>1. NetInv /\ GameInv /\ NetTypeOK /\ GameTypeOK
  BY Parts DEF NetInv, GameInv
<1>2. /\ OnCreated /\ sessionQ # <<>> /\ sessionQ' = Tail(sessionQ)
      /\ pool' = pool \o [i \in DOMAIN calls' |-> SubmitTask(calls'[i])]
      /\ UNCHANGED <<sessions, updateTimer, dataTimer, commitQ, committing, settled>>
  BY DEF SessionCreated, HeadIs
<1>3. GameStep /\ data' = data /\ sessionId' = sessionId
  BY <1>2 DEF GameStep, OnCreated
<1>4. GameMoves
  BY <1>1, <1>3, GameStepMoves
<1>5. \A i \in DOMAIN calls' : calls'[i].op = "submit"
  <2>1. CASE calls' = <<>>
    BY <2>1
  <2>2. CASE calls' = Submissions(prevData, data)
    BY <1>1, <2>2, SubmissionsShape DEF GameTypeOK
  <2> QED BY <1>2, <2>1, <2>2 DEF OnCreated, SubmitGameData
<1>6. pool' \in Seq(PoolTask) /\ PoolFits'
  BY <1>2, <1>3, <1>5, Submitting
<1>7. sessionQ' \in Seq(HttpTask) /\ Range(sessionQ') \subseteq Range(sessionQ)
  BY <1>1, <1>2, TailRange DEF NetTypeOK
<1>8. QueueFits'
  BY <1>1, <1>4, <1>7, QueueShrinks DEF NetInv, NetTypeOK
<1>9. SettledFits' /\ SessionsFit'
  BY <1>1, <1>2, <1>3, <1>4, Untouched
<1> QED BY <1>1, <1>2, <1>3, <1>6, <1>7, <1>8, <1>9 DEF NetInv, NetTypeOK

LEMMA SessionStarts ==
  ASSUME NEW s \in GameSession, NEW d \in GameDataType, NEW n,
         n = [s EXCEPT !.active = d.isGameActive, !.number = 0,
                       !.counter = @ + 1, !.history = Append(@, 0)]
  PROVE  n \in GameSession /\ n.active = d.isGameActive
<1>1. /\ s.history \in Seq(Nat) /\ s.counter \in Nat /\ s.uuid \in BOOLEAN
      /\ d.isGameActive \in BOOLEAN
  BY DEF GameSession, GameDataType
<1>2. Append(s.history, 0) \in Seq(Nat) /\ s.counter + 1 \in Nat
  BY <1>1
<1>3. [s EXCEPT !.active = d.isGameActive, !.number = 0] \in GameSession
  BY <1>1 DEF GameSession
<1>4. n.active = d.isGameActive
  BY DEF GameSession
<1>5. n \in GameSession
  BY <1>2, <1>3 DEF GameSession
<1> QED BY <1>4, <1>5

LEMMA SessionCreateKeeps ==
  ASSUME IInv, Starts, SessionCreate(data'),
         UNCHANGED <<updateTimer, dataTimer, commitQ, committing, settled>>, GameMoves
  PROVE  NetInv'
<1>1. NetInv /\ GameInv /\ NetTypeOK /\ GameTypeOK
  BY Parts DEF NetInv, GameInv
<1> PICK k : k = data'.id
  OBVIOUS
<1> PICK n : n = [Session(k) EXCEPT !.active = data'.isGameActive, !.number = 0,
                                    !.counter = @ + 1, !.history = Append(@, 0)]
  OBVIOUS
<1>2. k \in Ids /\ k = sessionId + 1 /\ k = sessionId' /\ data'.isGameActive
  BY DEF Starts, Ids
<1>4. Session(k) \in GameSession
  BY <1>1 DEF Session, NetTypeOK, NewSession, GameSession
<1>5. n \in GameSession /\ n.active = data'.isGameActive
  BY <1>4, SessionStarts DEF Starts
<1>6. sessions' = Put(k, n)
  BY DEF SessionCreate
<1>7. /\ DOMAIN sessions' = DOMAIN sessions \cup {k}
      /\ \A id \in DOMAIN sessions' : sessions'[id] = IF id = k THEN n ELSE sessions[id]
  BY <1>6 DEF Put
<1>8. DOMAIN sessions' \subseteq Ids /\ \A id \in DOMAIN sessions' : sessions'[id] \in GameSession
  BY <1>1, <1>2, <1>5, <1>7 DEF NetTypeOK
<1>9. SessionsFit'
  <2>1. \A id \in DOMAIN sessions' : id <= sessionId'
    BY <1>1, <1>2, <1>7 DEF NetInv, SessionsFit, NetTypeOK, Ids, GameTypeOK
  <2>2. data'.id \in DOMAIN sessions' /\ sessions'[data'.id].active
    BY <1>2, <1>5, <1>7
  <2> QED BY <2>1, <2>2 DEF SessionsFit
<1> PICK r : r = [kind |-> "create", id |-> k, active |-> TRUE,
                  counter |-> sessions'[k].counter, history |-> <<>>]
  OBVIOUS
<1>10. r \in HttpTask /\ r.id = k /\ r.active
  <2>1. sessions'[k].counter \in Nat
    BY <1>5, <1>7 DEF GameSession
  <2> QED BY <1>2, <2>1 DEF HttpTask
<1>11. sessionQ' = Append(sessionQ, r) /\ pool' = pool
  BY DEF SessionCreate
<1>12. RequestFits(r)'
  BY <1>2, <1>10 DEF RequestFits, GameMoves
<1>13. sessionQ' \in Seq(HttpTask) /\ Range(sessionQ') \subseteq Range(sessionQ) \cup {r}
  BY <1>1, <1>10, <1>11, AppendRange DEF NetTypeOK
<1>14. QueueFits'
  BY <1>1, <1>10, <1>12, <1>13, QueueGrows
<1>15. PoolFits' /\ SettledFits'
  BY <1>1, <1>11, Untouched
<1> QED BY <1>1, <1>8, <1>9, <1>11, <1>13, <1>14, <1>15 DEF NetInv, NetTypeOK

LEMMA ApiKeeps ==
  ASSUME IInv, Api
  PROVE  NetInv' /\ GameStep
<1>1. NetInv /\ GameInv /\ NetTypeOK /\ GameTypeOK
  BY Parts DEF NetInv, GameInv
<1>2. /\ GameStep /\ Receive(calls')
      /\ UNCHANGED <<updateTimer, dataTimer, commitQ, committing, settled>>
  BY DEF Api, GameStep
<1>3. GameMoves
  BY <1>1, <1>2, GameStepMoves
<1>4. CASE Starts
  <2>1. DOMAIN calls' = {1} /\ calls'[1].op = "create" /\ Head(calls').data = data'
    BY <1>4 DEF Starts
  <2>2. SessionCreate(data')
    BY <1>2, <2>1 DEF Receive
  <2> QED BY <1>2, <1>3, <1>4, <2>2, SessionCreateKeeps
<1>5. CASE Edits \/ Waits \/ \E d \in GameDataType : Submits(d)
  <2>1. \A i \in DOMAIN calls' : calls'[i].op = "submit"
    <3>1. CASE Edits \/ Waits
      BY <3>1 DEF Edits, Waits
    <3>2. ASSUME NEW d \in GameDataType, Submits(d)
          PROVE  \A i \in DOMAIN calls' : calls'[i].op = "submit"
      BY <1>1, <3>2, SubmissionsShape DEF Submits, GameTypeOK
    <3> QED BY <1>5, <3>1, <3>2
  <2>2. /\ pool' = pool \o [i \in DOMAIN calls' |-> SubmitTask(calls'[i])]
        /\ UNCHANGED <<sessions, sessionQ>>
    BY <1>2, <2>1 DEF Receive
  <2>3. pool' \in Seq(PoolTask) /\ PoolFits'
    BY <1>2, <2>1, <2>2, Submitting
  <2>4. QueueFits' /\ SettledFits'
    BY <1>1, <1>2, <1>3, <2>2, Untouched
  <2>5. SessionsFit'
    <3>1. \A id \in DOMAIN sessions : id <= sessionId'
      BY <1>1, <1>3 DEF NetInv, SessionsFit, GameMoves, NetTypeOK, Ids
    <3>2. data'.isGameActive => data.isGameActive /\ data'.id = data.id
      BY <1>5 DEF Edits, Waits, Submits, GoesOn, Forgets, NoGame
    <3> QED BY <1>1, <2>2, <3>1, <3>2 DEF NetInv, SessionsFit
  <2> QED BY <1>1, <1>2, <2>2, <2>3, <2>4, <2>5 DEF NetInv, NetTypeOK
<1> QED BY <1>1, <1>2, <1>4, <1>5, GameEffect

-----------------------------------------------------------------------------
(* The composition *)

LEMMA Initially == Init => IInv
<1> SUFFICES ASSUME Init PROVE IInv
  OBVIOUS
<1>1. GameInv
  BY GameInitially DEF Init
<1>2. Cardinality(updateTimer) <= 1 /\ Cardinality(dataTimer) <= 1
  BY AtMostOne DEF Init
<1>3. NetTypeOK
  BY <1>2 DEF Init, NetTypeOK
<1>4. ~data.isGameActive /\ Range(pool) = {} /\ Range(sessionQ) = {}
  BY DEF Init, GameInit, NoGame, Range
<1>5. DOMAIN sessions = {} /\ settled = {}
  BY DEF Init
<1>6. PoolFits /\ QueueFits /\ SessionsFit /\ SettledFits
  BY <1>4, <1>5 DEF PoolFits, QueueFits, SessionsFit, SettledFits
<1> QED BY <1>1, <1>3, <1>6, Parts DEF NetInv

LEMMA NextKeeps ==
  ASSUME IInv, Next
  PROVE  NetInv' /\ GameStep
<1>1. CASE Api
  BY <1>1, ApiKeeps
<1>2. CASE \E i \in Running : RunHandler(i)
  BY <1>2, RunHandlerKeeps DEF GameStep
<1>3. CASE UpdateTimerExpires \/ DataTimerExpires
  BY <1>3, TimersKeep DEF GameStep
<1>4. CASE CommitSnapshot \/ CommitNoClient
  BY <1>4, CommitTakeKeeps DEF GameStep
<1>5. CASE CommitSkip \/ CommitPublish
  BY <1>5, CommitEndKeeps DEF GameStep
<1>6. CASE CreateSucceeds
  BY <1>6, CreateSucceedsKeeps DEF GameStep
<1>7. CASE RequestFails
  BY <1>7, RequestFailsKeeps DEF GameStep
<1>8. CASE SessionCreated
  BY <1>8, SessionCreatedKeeps
<1>9. CASE PatchSucceeds
  BY <1>9, PatchSucceedsKeeps DEF GameStep
<1>10. CASE AuthChanges
  <2>1. NetInv /\ data' = data /\ sessionId' = sessionId /\ UNCHANGED netVars /\ GameStep
    BY <1>10, Parts DEF AuthChanges, AuthenticationChanges, GameStep
  <2>2. GameMoves
    BY <2>1, Parts, GameStepMoves
  <2>3. PoolFits' /\ QueueFits' /\ SettledFits' /\ SessionsFit'
    BY <2>1, <2>2, Untouched DEF netVars
  <2> QED BY <2>1, <2>3 DEF NetInv, NetTypeOK, netVars
<1> QED BY <1>1, <1>2, <1>3, <1>4, <1>5, <1>6, <1>7, <1>8, <1>9, <1>10 DEF Next

LEMMA StepKeeps ==
  ASSUME IInv, [Next]_vars
  PROVE  IInv' /\ [GameStep]_gameVars
<1>1. CASE Next
  <2>1. NetInv' /\ GameStep
    BY <1>1, NextKeeps
  <2>2. GameInv'
    BY <2>1, Parts, GamePreserved
  <2> QED BY <2>1, <2>2, Parts DEF IInv, NetInv, TypeOK, NetTypeOK, GameInv
<1>2. CASE UNCHANGED vars
  BY <1>2 DEF vars, gameVars, netVars, IInv, TypeOK, GameInv, GameTypeOK, Playing, PoolFits,
     QueueFits, TaskFits, RequestFits, SessionsFit, SettledFits
<1> QED BY <1>1, <1>2

\* The inductive invariant of the composition, the type invariant included.
THEOREM Invariance == Spec => []IInv
<1>1. IInv /\ [Next]_vars => IInv'
  BY StepKeeps
<1> QED BY <1>1, Initially, PTL DEF Spec

\* The game in progress always has its session in m_gameSessions, however the
\* handlers of the pool, the timers, the two strands and the application's
\* operations interleave: no reply to an update erases it (sessionUpdate).
THEOREM SessionOutlivesGame == Spec => []CurrentSessionKept
<1>1. IInv => CurrentSessionKept
  BY DEF IInv, SessionsFit, CurrentSessionKept
<1> QED BY <1>1, Invariance, PTL

\* The server is told that a session is completed only after its game is over: no
\* request answered or waiting says so of the game in progress.
THEOREM NeverSettledEarly == Spec => []SettledOnlyAfterFinish
<1>1. ASSUME IInv PROVE SettledOnlyAfterFinish
  BY <1>1 DEF IInv, SettledFits, QueueFits, RequestFits, Range, SettledOnlyAfterFinish
<1> QED BY <1>1, Invariance, PTL

\* Composed with Net, which delivers the session reply that submits again, the game
\* data still keep what the component promises on its own.
THEOREM SubmissionsInContext ==
  Spec => ScoreStaysWithTurn /\ OneUploadPerTurn /\ EndStands
<1>1. ASSUME IInv, [Next]_vars
      PROVE  /\ [TurnKeepsScore]_gameVars
             /\ [TurnUploadsOnce]_gameVars
             /\ [EndRepeated]_gameVars
  BY <1>1, StepKeeps, Parts, ScoreKept, UploadsKept, EndKept
<1> QED BY <1>1, Invariance, PTL
        DEF Spec, ScoreStaysWithTurn, OneUploadPerTurn, EndStands

=============================================================================
