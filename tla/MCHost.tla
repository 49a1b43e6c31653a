------------------------------- MODULE MCHost -------------------------------
EXTENDS Host

Quiet == [lang |-> "cpp", scorbitron |-> FALSE, calls |-> {}, msgs |-> {}, make |-> 1, sets |-> 0,
          ask |-> 0, chain |-> 0, msg |-> 0, auth |-> 0, ticks |-> 0, drop |-> FALSE]

\* The life of objects and callbacks; requests and their callbacks; messages of the cloud with
\* what the application does about them; uploads in two seconds; probes, more than are remembered.
MCScenarios ==
    {[Quiet EXCEPT !.sets = 3, !.make = 2, !.drop = TRUE],
     [Quiet EXCEPT !.lang = "python", !.sets = 2, !.make = 2, !.drop = TRUE],
     [Quiet EXCEPT !.calls = {"unpair", "pairCode", "download"}, !.ask = 2, !.auth = 1],
     [Quiet EXCEPT !.calls = Asks, !.ask = 1, !.chain = 1, !.auth = 1],
     [Quiet EXCEPT !.calls = {"pairCode", "capabilities"}, !.ask = 1, !.chain = 2, !.auth = 1],
     [Quiet EXCEPT !.calls = {"unpair", "pairMachine"}, !.ask = 1, !.auth = 2, !.scorbitron = TRUE],
     [Quiet EXCEPT !.msgs = {"creditsStatus", "addCredits", "uploadDiagnostics"}, !.sets = 1, !.msg = 2,
                   !.auth = 1],
     [Quiet EXCEPT !.lang = "python", !.calls = Commands, !.msgs = Messages \ Traces,
                   !.sets = 1, !.ask = 1, !.msg = 1, !.auth = 1],
     [Quiet EXCEPT !.calls = {"upload"}, !.ask = 3, !.ticks = 1, !.auth = 1],
     [Quiet EXCEPT !.msgs = Traces, !.msg = 5]}
=============================================================================
