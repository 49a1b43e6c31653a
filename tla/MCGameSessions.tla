--------------------------- MODULE MCGameSessions ---------------------------
(* Two scopes, one of them for a behaviour: GameState, with the create      *)
(* replies at any time, two games, two players and numbers the code must    *)
(* refuse, and a Net that only stores the sessions; or GameState with Net,  *)
(* two short games of one player.                                           *)
EXTENDS GameSessions

CONSTANT NetCalls      \* the bound MaxCalls in the second scope

VARIABLE scope

MCInit == Init /\ scope \in {"game", "net"}

\* One player on ball 1, no score, no modes.
ShortGame ==
    /\ data'.players \in [Players -> {0, NotPlaying}] /\ PlayersIn(data') \subseteq {1}
    /\ data'.ball \in {0, 1} /\ data'.activePlayer \in {0, 1} /\ data'.modes = {}

\* The authentication, which only GameState looks at, changes when no handler runs.
Short ==
    /\ ShortGame
    /\ serial < NetCalls \/ UNCHANGED <<data, finishing>>
    /\ authChanges # authChanges' => authChanges = 0 /\ pool = <<>> /\ committing = {}

NetStores ==
    /\ IF \E i \in DOMAIN calls' : calls'[i].op = "create"
       THEN Receive(calls') ELSE UNCHANGED <<sessions, pool, sessionQ>>
    /\ UNCHANGED <<updateTimer, dataTimer, commitQ, committing, settled>>

MCNext ==
    /\ \/ scope = "game" /\ GameNext /\ NetStores
       \/ scope = "net" /\ Next /\ Short
    /\ UNCHANGED scope

MCSpec == MCInit /\ [][MCNext]_<<vars, scope>>
=============================================================================
