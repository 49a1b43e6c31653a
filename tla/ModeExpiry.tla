----------------------------- MODULE ModeExpiry -----------------------------
(***************************************************************************)
(* Expiring modes, across three threads: the application posts jobs        *)
(* (game_state_c.cpp), the C API thread runs them on the modes of the game *)
(* (game_state_impl.cpp, modes.cpp) and keeps one ModeExpiry timer armed,  *)
(* and a pool thread that runs the handler of the expired timer posts a    *)
(* tick back to the C API thread.                                          *)
(*                                                                         *)
(* Times are seconds from now, so a passing second lowers all of them; a   *)
(* time that is reached stays 0.  Only jobs about games and modes are      *)
(* modelled, the others leave this state alone; the order of the mode list *)
(* is left out.                                                            *)
(***************************************************************************)
EXTENDS Integers, Sequences

CONSTANTS ModeNames,   \* modes the application uses
          Durations,   \* duration_seconds it passes
          MaxJobs,     \* bound: jobs waiting in the queue, Poison aside
          MaxTicks     \* bound: handlers of the timer and ticks under way

ASSUME ModeExpiryAssumption ==
    /\ Durations \subseteq Nat
    /\ MaxJobs \in Nat
    /\ MaxTicks \in Nat \ {0}

VARIABLES active,      \* m_data.isGameActive
          modes,       \* m_modes, as a set
          deadlines,   \* m_modeExpiryDeadlines
          timer,       \* when the ModeExpiry timer expires
          fired,       \* expired waits whose handler has not run yet
          posting,     \* handlers that have read cApiAccepting as true
          ticks,       \* JobTickModeExpiries in cApiQueue
          jobs,        \* the application's jobs in cApiQueue
          accepting,   \* cApiAccepting
          dispatcher   \* cApiDispatcher: running, ended, destroyed with its handle

game == <<active, modes, deadlines, timer>>
pool == <<fired, posting>>
modesVars == <<game, pool, ticks, jobs, accepting, dispatcher>>

MODE_EXPIRY_DEFAULT_SEC == 3
MODE_EXPIRY_MAX_SEC     == 10

None == -1             \* no deadline, or the timer is not armed

NormalizeModeExpirySeconds(s) ==
    IF s = 0 THEN MODE_EXPIRY_DEFAULT_SEC
    ELSE IF s > MODE_EXPIRY_MAX_SEC THEN MODE_EXPIRY_MAX_SEC
    ELSE s

Seconds == 0..MODE_EXPIRY_MAX_SEC

\* A job names the mode it is about; jobs about the game or all modes name none.
Job == [op: {"add", "remove"}, mode: ModeNames]
         \cup [op: {"addExpiring"}, mode: ModeNames, duration: Durations]
         \cup [op: {"start", "finish", "clear", "poison"}]

ModesTypeOK ==
    /\ active \in BOOLEAN
    /\ modes \subseteq ModeNames
    /\ deadlines \in [ModeNames -> Seconds \cup {None}]
    /\ timer \in Seconds \cup {None}
    /\ fired \in Nat /\ posting \in Nat /\ ticks \in Nat
    /\ jobs \in Seq(Job)
    /\ accepting \in BOOLEAN
    /\ dispatcher \in {"running", "ended", "destroyed"}

NoDeadlines == [m \in ModeNames |-> None]

ModesInit ==
    /\ active = FALSE
    /\ modes = {}
    /\ deadlines = NoDeadlines
    /\ timer = None
    /\ fired = 0 /\ posting = 0 /\ ticks = 0
    /\ jobs = <<>>
    /\ accepting = TRUE
    /\ dispatcher = "running"

-----------------------------------------------------------------------------
(* The timer.  Cancelling it does not reach a wait that has expired. *)

Expiring(d) == {m \in ModeNames : d[m] # None}

\* t is the least deadline of d.
IsNextExpiryDelay(d, t) ==
    /\ \E m \in Expiring(d) : t = d[m]
    /\ \A m \in Expiring(d) : t <= d[m]

MutantRescheduleKeepsTimer(d) ==
    IF timer # None /\ Expiring(d) # {} THEN timer' = timer
    ELSE IF Expiring(d) = {} THEN timer' = None
    ELSE timer' \in {t \in Seconds : IsNextExpiryDelay(d, t)}

\* rescheduleModeExpiryTimer with the deadlines d.
RescheduleModeExpiryTimer(d) ==
    IF Expiring(d) = {} THEN timer' = None
    ELSE timer' \in {t \in Seconds : IsNextExpiryDelay(d, t)}

CancelModeExpiryTimer == timer' = None

-----------------------------------------------------------------------------
(* Jobs on the C API thread *)

\* startGame: with failed authentication it does nothing.
SetGameStarted ==
    /\ ~active
    /\ active' = TRUE
    /\ modes' = {}
    /\ deadlines' = NoDeadlines
    /\ CancelModeExpiryTimer

SetGameFinished ==
    /\ active
    /\ active' = FALSE
    /\ modes' = {}
    /\ deadlines' = NoDeadlines
    /\ CancelModeExpiryTimer

AddMode(m) ==
    /\ active
    /\ modes' = modes \cup {m}
    /\ UNCHANGED <<active, deadlines, timer>>

AddModeExpiring(m, s) ==
    /\ active
    /\ modes' = modes \cup {m}
    /\ deadlines' = [deadlines EXCEPT ![m] = NormalizeModeExpirySeconds(s)]
    /\ RescheduleModeExpiryTimer(deadlines')
    /\ UNCHANGED active

MutantRemoveKeepsDeadline(m) ==
    /\ active
    /\ modes' = modes \ {m}
    /\ UNCHANGED <<active, deadlines, timer>>

\* The timer is set anew only if some mode was expiring before.
RemoveMode(m) ==
    /\ active
    /\ modes' = modes \ {m}
    /\ deadlines' = [deadlines EXCEPT ![m] = None]
    /\ IF Expiring(deadlines) # {} THEN RescheduleModeExpiryTimer(deadlines')
       ELSE UNCHANGED timer
    /\ UNCHANGED active

ClearModes ==
    /\ active
    /\ modes' = {}
    /\ deadlines' = NoDeadlines
    /\ CancelModeExpiryTimer
    /\ UNCHANGED active

\* tickExpiries
Due == {m \in ModeNames : deadlines[m] = 0}

MutantTickWithoutReschedule ==
    /\ modes' = modes \ Due
    /\ deadlines' = [m \in ModeNames |-> IF m \in Due THEN None ELSE deadlines[m]]
    /\ UNCHANGED <<active, timer>>

TickModeExpiries ==
    \/ /\ active
       /\ modes' = modes \ Due
       /\ deadlines' = [m \in ModeNames |-> IF m \in Due THEN None ELSE deadlines[m]]
       /\ RescheduleModeExpiryTimer(deadlines')
       /\ UNCHANGED active
    \/ /\ ~active
       /\ deadlines' = NoDeadlines
       /\ CancelModeExpiryTimer
       /\ UNCHANGED <<active, modes>>

-----------------------------------------------------------------------------
(* The C API thread.  cApiQueue is first in, first out for the jobs of one  *)
(* thread only: a tick, which a pool thread posts, can be taken before or   *)
(* after any of the application's jobs.                                     *)

\* The next job of the application is an op, taken from the queue.
Takes(op) ==
    /\ dispatcher = "running"
    /\ jobs # <<>>
    /\ Head(jobs).op = op
    /\ jobs' = Tail(jobs)

RunStart ==
    /\ Takes("start")
    /\ SetGameStarted
    /\ UNCHANGED <<pool, ticks, accepting, dispatcher>>

\* A job that returns early: no game to act on, one active already, or a start
\* refused because authentication has failed.
RunReturnsEarly ==
    /\ \/ Takes("start")
       \/ ~active /\ \E op \in {"finish", "add", "addExpiring", "remove", "clear"} : Takes(op)
    /\ UNCHANGED <<game, pool, ticks, accepting, dispatcher>>

RunFinish ==
    /\ Takes("finish")
    /\ SetGameFinished
    /\ UNCHANGED <<pool, ticks, accepting, dispatcher>>

RunAdd ==
    /\ Takes("add")
    /\ AddMode(Head(jobs).mode)
    /\ UNCHANGED <<pool, ticks, accepting, dispatcher>>

RunAddExpiring ==
    /\ Takes("addExpiring")
    /\ AddModeExpiring(Head(jobs).mode, Head(jobs).duration)
    /\ UNCHANGED <<pool, ticks, accepting, dispatcher>>

RunRemove ==
    /\ Takes("remove")
    /\ RemoveMode(Head(jobs).mode)
    /\ UNCHANGED <<pool, ticks, accepting, dispatcher>>

RunClear ==
    /\ Takes("clear")
    /\ ClearModes
    /\ UNCHANGED <<pool, ticks, accepting, dispatcher>>

RunTick ==
    /\ dispatcher = "running"
    /\ ticks > 0
    /\ ticks' = ticks - 1
    /\ TickModeExpiries
    /\ UNCHANGED <<pool, jobs, accepting, dispatcher>>

MutantStopAtOnce ==
    /\ dispatcher = "running"
    /\ ~accepting
    /\ dispatcher' = "ended"
    /\ UNCHANGED <<game, pool, ticks, jobs, accepting>>

\* Poison ends the loop.
RunPoison ==
    /\ Takes("poison")
    /\ dispatcher' = "ended"
    /\ UNCHANGED <<game, pool, ticks, accepting>>

-----------------------------------------------------------------------------
(* The application's thread *)

PostApiJob(j) ==
    /\ accepting
    /\ Len(jobs) < MaxJobs
    /\ jobs' = Append(jobs, j)
    /\ UNCHANGED <<game, pool, ticks, accepting, dispatcher>>

\* sb_destroy_game_state up to the join.
ShutdownCApiDispatcher ==
    /\ accepting
    /\ accepting' = FALSE
    /\ jobs' = Append(jobs, [op |-> "poison"])
    /\ UNCHANGED <<game, pool, ticks, dispatcher>>

\* After the join the handle is deleted; ~Net stops the timers of the worker.
DestroyHandle ==
    /\ dispatcher = "ended"
    /\ dispatcher' = "destroyed"
    /\ CancelModeExpiryTimer
    /\ UNCHANGED <<active, modes, deadlines, pool, ticks, jobs, accepting>>

-----------------------------------------------------------------------------
(* Time and the pool *)

SecondLess(n) == IF n > 0 THEN n - 1 ELSE n

ClockTick ==
    /\ deadlines' = [m \in ModeNames |-> SecondLess(deadlines[m])]
    /\ timer' = SecondLess(timer)
    /\ UNCHANGED <<active, modes, pool, ticks, jobs, accepting, dispatcher>>

TimerExpires ==
    /\ timer = 0
    /\ fired + posting + ticks < MaxTicks
    /\ timer' = None
    /\ fired' = fired + 1
    /\ UNCHANGED <<active, modes, deadlines, posting, ticks, jobs, accepting, dispatcher>>

\* The poster of sb_game_state_struct: the test, then the enqueueing.
PosterTests ==
    /\ fired > 0
    /\ fired' = fired - 1
    /\ posting' = IF accepting THEN posting + 1 ELSE posting
    /\ UNCHANGED <<game, ticks, jobs, accepting, dispatcher>>

PosterEnqueues ==
    /\ posting > 0
    /\ posting' = posting - 1
    /\ ticks' = ticks + 1
    /\ UNCHANGED <<game, fired, jobs, accepting, dispatcher>>

Dispatch ==
    \/ RunStart \/ RunReturnsEarly \/ RunFinish
    \/ RunAdd \/ RunAddExpiring \/ RunRemove \/ RunClear
    \/ RunTick
    \/ RunPoison

ModesNext ==
    \/ Dispatch
    \/ \E j \in Job \ {[op |-> "poison"]} : PostApiJob(j)
    \/ ShutdownCApiDispatcher
    \/ DestroyHandle
    \/ ClockTick
    \/ TimerExpires
    \/ PosterTests
    \/ PosterEnqueues

ModesSpec == ModesInit /\ [][ModesNext]_modesVars

\* The pool and the C API thread keep running, and the queue does not pass over
\* a tick for ever.
ModesFairness ==
    /\ WF_modesVars(TimerExpires)
    /\ WF_modesVars(PosterTests)
    /\ WF_modesVars(PosterEnqueues)
    /\ WF_modesVars(RunTick)

ModesFairSpec == ModesSpec /\ ModesFairness

-----------------------------------------------------------------------------
(* Properties *)

\* A timer that expires no later than any deadline, or a tick on its way.
Covered ==
    \/ timer # None /\ \A m \in Expiring(deadlines) : timer <= deadlines[m]
    \/ fired > 0 \/ posting > 0 \/ ticks > 0

\* While the handle is open, an expiring mode is never forgotten: however adding,
\* removing, a new game and late ticks follow each other, the timer is armed in
\* time for every deadline or a tick that will arm it again is under way
\* (rescheduleModeExpiryTimer after each change, cancelModeExpiryTimer).
ExpiryCovered == accepting /\ Expiring(deadlines) # {} => Covered

\* Overdue modes go: a mode whose duration has elapsed is removed in the end, or
\* added again, unless the handle is being destroyed ("The SDK removes it when
\* the duration elapses", game_state_c.h).
OverdueModeGoes ==
    \A m \in ModeNames : deadlines[m] = 0 ~> (deadlines[m] # 0 \/ ~accepting)

\* Everything the application asked for before sb_destroy_game_state is done
\* when its C API thread ends: Poison is the last of its jobs.
CallsBeforeDestroyRun == dispatcher # "running" => jobs = <<>>

\* A mode that is not listed is ModeLease's Absent, a listed one without deadline
\* its Kept.
LeaseOf(m) == IF m \in modes THEN deadlines[m] ELSE -2

leases == [m \in ModeNames |-> LeaseOf(m)]

Lease == INSTANCE ModeLease WITH lease <- leases

\* The modes behave as ModeLease says: no tick, late or of an earlier game, takes
\* a mode that is kept or whose current lease has not run out, and a mode added
\* again after its removal does not inherit its old deadline.
ModesAreLeased == Lease!Spec
=============================================================================
