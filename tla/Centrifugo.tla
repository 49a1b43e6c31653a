----------------------------- MODULE Centrifugo -----------------------------
(***************************************************************************)
(* The real-time connection of Net (net.cpp): the client in m_centrifugo,  *)
(* its restarts, the reconnection timer, the retired clients that are kept *)
(* for a grace period, and the request of the credits status that needs    *)
(* both a connection and a machine channel.                                *)
(*                                                                         *)
(* restartCentrifugo runs on pool threads (after an authentication or a    *)
(* pairing) and on the Centrifugo strand (signals paired and unpaired);    *)
(* the timer's handlers run on the pool, the client's callbacks on the     *)
(* strand.  m_centrifugo has no lock, and a set-up fetches a token over    *)
(* HTTP before it assigns it, so each of them takes several steps.  The    *)
(* client library is external: a state, and callbacks queued on its strand.*)
(***************************************************************************)
EXTENDS Naturals, Sequences, FiniteSets

CONSTANTS Pool,        \* pool threads
          Strand,      \* the Centrifugo strand
          MaxClients,  \* bound: clients ever created
          MaxRestarts, \* bound: calls of restartCentrifugo
          MaxDrops     \* bound: connections the server closes for good

ASSUME CentrifugoAssumption ==
    /\ Strand \notin Pool
    /\ MaxClients \in Nat \ {0}
    /\ {MaxRestarts, MaxDrops} \subseteq Nat

Actors == Pool \cup {Strand}

Clients == 1..MaxClients

VARIABLES cur,        \* m_centrifugo: 0 when there is none
          created,    \* clients created so far
          st,         \* state() of each client
          closing,    \* the code of an onDisconnected callback that is queued
          greeting,   \* clients with a queued onConnected callback
          frame,      \* the client whose callback the strand is running, or 0
          retired,    \* m_retiredCentrifugoClients
          destroyed,  \* clients that have been destroyed
          pending,    \* m_restartCentrifugoPending
          timer,      \* what the CentrifugoReconnect timer waits for
          expired,    \* handlers of that timer that can no longer be cancelled
          pc,         \* where each actor is
          channel,    \* m_machineChannel is not empty
          requested,  \* CreditsStatusRequestedEvent since the connection and the channel
          stop,       \* m_stop
          dtor,       \* where ~Net is
          budget,     \* what is left of MaxRestarts and MaxDrops
          gaveUp,     \* ghost: nothing in the code reacts to how the client ended
          overlapped  \* ghost: two actors have been inside these functions at once

client == <<st, closing, greeting>>
status == <<channel, requested>>
vars == <<cur, created, client, retired, destroyed, pending, timer, expired, pc, status,
          stop, dtor, budget, gaveUp, overlapped, frame>>

Codes == {"asked", "3500", "other"}

NoTimer == [kind |-> "off", id |-> 0]
Handler == [kind: {"rebuild"}, id: {0}] \cup [kind: {"reset"}, id: Clients]

RetiredIds == {retired[i].id : i \in DOMAIN retired}

TypeOK ==
    /\ cur \in 0..created
    /\ created \in 0..MaxClients
    /\ st \in [Clients -> {"Disconnected", "Connecting", "Connected"}]
    /\ closing \in [Clients -> Codes \cup {"none"}]
    /\ greeting \subseteq Clients
    /\ frame \in {0} \cup Clients
    /\ retired \in Seq([id: Clients, old: BOOLEAN])
    /\ destroyed \subseteq Clients
    /\ timer \in Handler \cup {NoTimer}
    /\ expired \subseteq Handler
    /\ pc \in [Actors -> {"idle", "look", "retire", "flag", "disconnect", "setup",
                          "assign", "connect", "dial", "parsed"}]
    /\ dtor \in {"no", "stopping", "posted", "join"}
    /\ budget \in [restarts: 0..MaxRestarts, drops: 0..MaxDrops]
    /\ {pending, channel, requested, stop, gaveUp, overlapped} \subseteq BOOLEAN
    \* Every client created so far is in one place: active, retired or destroyed.
    /\ 1..created \subseteq {cur} \cup RetiredIds \cup destroyed
    /\ cur \notin RetiredIds \cup destroyed
    /\ RetiredIds \cap destroyed = {}

\* Net::Net sets up a client that does not connect.
Init ==
    /\ cur = 1
    /\ created = 1
    /\ st = [c \in Clients |-> "Disconnected"]
    /\ closing = [c \in Clients |-> "none"]
    /\ greeting = {}
    /\ frame = 0
    /\ retired = <<>>
    /\ destroyed = {}
    /\ pending = FALSE
    /\ timer = NoTimer
    /\ expired = {}
    /\ pc = [a \in Actors |-> "idle"]
    /\ channel = FALSE
    /\ requested = FALSE
    /\ stop = FALSE
    /\ dtor = "no"
    /\ budget = [restarts |-> MaxRestarts, drops |-> MaxDrops]
    /\ gaveUp = FALSE
    /\ overlapped = FALSE

Busy(a) == pc[a] \notin {"idle", "parsed"}

\* a begins to work on the client.
Enter(a, at) ==
    /\ pc[a] = "idle"
    /\ pc' = [pc EXCEPT ![a] = at]
    /\ overlapped' = (overlapped \/ \E b \in Actors \ {a} : Busy(b))

Go(a, from, to) == pc[a] = from /\ pc' = [pc EXCEPT ![a] = to]

-----------------------------------------------------------------------------
(* The client library (external). *)

\* The connection is made: the state first, then the callback.
Establish(c) ==
    /\ st[c] = "Connecting" /\ closing[c] = "none" /\ c \notin destroyed
    /\ st' = [st EXCEPT ![c] = "Connected"]
    /\ greeting' = greeting \cup {c}
    /\ requested' = IF c = cur THEN FALSE ELSE requested
    /\ UNCHANGED <<cur, created, closing, retired, destroyed, pending, timer, expired, pc,
                   channel, stop, dtor, budget, gaveUp, overlapped, frame>>

\* A lost connection is renewed by the client itself.
LinkLost(c) ==
    /\ st[c] = "Connected" /\ closing[c] = "none" /\ c \notin destroyed
    /\ st' = [st EXCEPT ![c] = "Connecting"]
    /\ UNCHANGED <<cur, created, closing, greeting, retired, destroyed, pending, timer,
                   expired, pc, status, stop, dtor, budget, gaveUp, overlapped, frame>>

\* The server ends the connection with a code after which the client does not reconnect.
Drop(c, code) ==
    /\ budget.drops > 0
    /\ st[c] # "Disconnected" /\ closing[c] = "none" /\ c \notin destroyed
    /\ st' = [st EXCEPT ![c] = "Disconnected"]
    /\ closing' = [closing EXCEPT ![c] = code]
    /\ budget' = [budget EXCEPT !.drops = @ - 1]
    /\ UNCHANGED <<cur, created, greeting, retired, destroyed, pending, timer, expired, pc,
                   status, stop, dtor, gaveUp, overlapped, frame>>

\* disconnect(): nothing when disconnected; the state changes now or with the callback.
Disconnect(c) ==
    IF c = 0 \/ st[c] = "Disconnected"
      THEN UNCHANGED <<st, closing>>
      ELSE /\ closing' = [closing EXCEPT ![c] = IF @ = "none" THEN "asked" ELSE @]
           /\ st' \in {st, [st EXCEPT ![c] = "Disconnected"]}

-----------------------------------------------------------------------------
(* Retired clients and the set-up. *)

\* pruneRetiredCentrifugoClients: those in front whose grace period is over.
Kept ==
    LET young == {i \in DOMAIN retired : ~retired[i].old}
        first == IF young = {} THEN Len(retired) + 1
                               ELSE CHOOSE i \in young : \A j \in young : i <= j
    IN  SubSeq(retired, first, Len(retired))

Pruned == RetiredIds \ {Kept[i].id : i \in DOMAIN Kept}

PruneRetiredCentrifugoClients ==
    /\ retired' = Kept
    /\ destroyed' = destroyed \cup Pruned

\* Mutant of the next definition: the client is destroyed at once.
MutantReset ==
    /\ cur' = 0
    /\ retired' = Kept
    /\ destroyed' = destroyed \cup Pruned \cup ({cur} \ {0})

\* retireCentrifugoClient; nothing happens without a client.
RetireCentrifugoClient ==
    /\ cur' = 0
    /\ IF cur = 0
         THEN UNCHANGED <<retired, destroyed>>
         ELSE /\ retired' = Append(Kept, [id |-> cur, old |-> FALSE])
              /\ destroyed' = destroyed \cup Pruned

\* CF_RETIRED_CLIENT_GRACE_PERIOD passes for the oldest of them.  It is longer than a
\* callback, which waits at most NET_TIMEOUT for a token: by then those that were queued for
\* the client have run and the one it was retired in has returned.
GracePasses ==
    \E i \in DOMAIN retired :
        /\ ~retired[i].old
        /\ \A j \in 1..(i - 1) : retired[j].old
        /\ closing[retired[i].id] = "none" /\ retired[i].id \notin greeting \cup {frame}
        /\ retired' = [retired EXCEPT ![i].old = TRUE]
        /\ UNCHANGED <<cur, created, client, destroyed, pending, timer, expired, pc, status,
                       stop, dtor, budget, gaveUp, overlapped, frame>>

\* setupAndConnectCentrifugo up to the request for a token, which blocks.
Setup(a) ==
    /\ Go(a, "setup", "assign")
    /\ PruneRetiredCentrifugoClients
    /\ UNCHANGED <<cur, created, client, pending, timer, expired, status, stop, dtor, budget,
                   gaveUp, overlapped, frame>>

\* The rest of centrifugoSetup: make_unique destroys a client that is still there.
Assign(a) ==
    /\ Go(a, "assign", "connect")
    /\ created < MaxClients
    /\ created' = created + 1
    /\ cur' = created'
    /\ destroyed' = IF cur = 0 THEN destroyed ELSE destroyed \cup {cur}
    /\ gaveUp' = FALSE
    /\ UNCHANGED <<client, retired, pending, timer, expired, status, stop, dtor, budget,
                   overlapped, frame>>

\* centrifugoConnect: the early returns ...
CentrifugoConnect(a) ==
    /\ IF stop \/ cur = 0 \/ (cur # 0 /\ st[cur] # "Disconnected")
         THEN Go(a, "connect", "idle")
         ELSE Go(a, "connect", "dial")
    /\ UNCHANGED <<cur, created, client, retired, destroyed, pending, timer, expired, status,
                   stop, dtor, budget, gaveUp, overlapped, frame>>

\* ... and connect(), whose failure is only logged.
Dial(a) ==
    /\ Go(a, "dial", "idle")
    /\ \/ /\ cur # 0 /\ closing[cur] = "none"
          /\ st' = [st EXCEPT ![cur] = "Connecting"]
          /\ UNCHANGED gaveUp
       \/ gaveUp' = TRUE /\ UNCHANGED st
    /\ UNCHANGED <<cur, created, closing, greeting, retired, destroyed, pending, timer,
                   expired, status, stop, dtor, budget, overlapped, frame>>

-----------------------------------------------------------------------------
(* restartCentrifugo. *)

\* It is called on a pool thread (initializeConnectionState), or on the strand for the
\* signals paired (onPaired) and unpaired (onUnpaired); stopTimer cannot cancel a handler
\* that has expired.
Restart(a) ==
    /\ budget.restarts > 0
    /\ budget' = [budget EXCEPT !.restarts = @ - 1]
    /\ timer' = NoTimer
    /\ Enter(a, "look")
    /\ UNCHANGED <<cur, created, client, retired, destroyed, pending, expired, stop, dtor,
                   gaveUp>>

InitializeConnectionState(a) == a \in Pool /\ Restart(a) /\ UNCHANGED <<status, frame>>

\* The strand runs one callback at a time; here begins one of client c.
Begins(c) == pc[Strand] = "idle" /\ frame = 0 /\ frame' = c

\* Publications reach only the active client's handler, not after m_stop, and not after the
\* client's onDisconnected, which comes behind them on the strand.
Publication ==
    /\ ~stop /\ cur # 0
    /\ cur # 0 => st[cur] # "Disconnected" \/ closing[cur] # "none"
    /\ Begins(cur)

OnPaired == Publication /\ Restart(Strand) /\ UNCHANGED status

OnUnpaired ==
    /\ Publication
    /\ channel' = FALSE
    /\ requested' = FALSE
    /\ Restart(Strand)

\* The three branches.
Look(a) ==
    /\ IF cur # 0 /\ st[cur] # "Disconnected"
         THEN Go(a, "look", "flag") /\ UNCHANGED pending
         ELSE Go(a, "look", IF cur = 0 THEN "setup" ELSE "retire") /\ pending' = FALSE
    /\ UNCHANGED <<cur, created, client, retired, destroyed, timer, expired, status, stop,
                   dtor, budget, gaveUp, overlapped, frame>>

Retire(a) ==
    /\ Go(a, "retire", "setup")
    /\ RetireCentrifugoClient
    /\ UNCHANGED <<created, client, pending, timer, expired, status, stop, dtor, budget,
                   gaveUp, overlapped, frame>>

\* Mutant of the next definition: the callback is not told that a restart waits for it.
MutantNoFlag(a) ==
    /\ Go(a, "flag", "disconnect")
    /\ UNCHANGED <<cur, created, client, retired, destroyed, pending, timer, expired, status,
                   stop, dtor, budget, gaveUp, overlapped, frame>>

Flag(a) ==
    /\ Go(a, "flag", "disconnect")
    /\ pending' = TRUE
    /\ UNCHANGED <<cur, created, client, retired, destroyed, timer, expired, status, stop,
                   dtor, budget, gaveUp, overlapped, frame>>

AskDisconnect(a) ==
    /\ Go(a, "disconnect", "idle")
    /\ Disconnect(cur)
    /\ UNCHANGED <<cur, created, greeting, retired, destroyed, pending, timer, expired,
                   status, stop, dtor, budget, gaveUp, overlapped, frame>>

-----------------------------------------------------------------------------
(* Callbacks of the client and handlers of the timer. *)

\* What the callback does is short, so it is one step; its frame unwinds in a later one.
OnStrand(c) ==
    /\ Begins(c)
    /\ overlapped' = (overlapped \/ \E b \in Pool : Busy(b))
    /\ UNCHANGED pc

\* The callback, and with it restartCentrifugo if it called that, returns into the client.
CallbackReturns ==
    /\ pc[Strand] = "idle" /\ frame # 0
    /\ frame' = 0
    /\ UNCHANGED <<cur, created, client, retired, destroyed, pending, timer, expired, pc, status,
                   stop, dtor, budget, gaveUp, overlapped>>

RequestCreditsStatusIfReady ==
    requested' = (requested \/ (/\ ~stop /\ cur # 0 /\ channel
                                /\ cur # 0 => st[cur] = "Connected"))

\* withActiveClient: the callbacks of a client that is no longer active do nothing.
OnConnected(c) ==
    /\ c \in greeting /\ c \notin destroyed
    /\ greeting' = greeting \ {c}
    /\ OnStrand(c)
    /\ IF c = cur /\ ~stop
         THEN PruneRetiredCentrifugoClients /\ RequestCreditsStatusIfReady
         ELSE UNCHANGED <<retired, destroyed, requested>>
    /\ UNCHANGED <<cur, created, st, closing, pending, timer, expired, channel, stop, dtor,
                   budget, gaveUp>>

OnDisconnected(c) ==
    /\ closing[c] # "none" /\ c \notin destroyed \cup greeting
    /\ closing' = [closing EXCEPT ![c] = "none"]
    /\ st' = [st EXCEPT ![c] = "Disconnected"]
    /\ OnStrand(c)
    /\ IF c # cur \/ stop
         THEN UNCHANGED <<cur, retired, destroyed, pending, timer, gaveUp>>
         ELSE IF pending
           THEN /\ pending' = FALSE
                /\ RetireCentrifugoClient
                /\ timer' = [kind |-> "rebuild", id |-> 0]
                /\ UNCHANGED gaveUp
           ELSE /\ timer' = IF closing[c] = "3500" THEN [kind |-> "reset", id |-> c]
                                                   ELSE timer
                /\ gaveUp' = (gaveUp \/ closing[c] = "other")
                /\ UNCHANGED <<cur, retired, destroyed, pending>>
    /\ UNCHANGED <<created, greeting, expired, status, stop, dtor, budget>>

\* The ten seconds of a reset are longer than the callback that starts the timer.
TimerExpires ==
    /\ timer # NoTimer
    /\ timer.kind = "reset" => frame # timer.id
    /\ expired' = expired \cup {timer}
    /\ timer' = NoTimer
    /\ UNCHANGED <<cur, created, client, retired, destroyed, pending, pc, status, stop, dtor,
                   budget, gaveUp, overlapped, frame>>

\* The two handlers onDisconnected gives to startTimer.
HandlerSkips(h) == IF h.kind = "rebuild" THEN stop \/ cur # 0 ELSE h.id # cur

TimerHandler(a, h) ==
    /\ a \in Pool /\ h \in expired
    /\ expired' = expired \ {h}
    /\ IF HandlerSkips(h)
         THEN pc[a] = "idle" /\ UNCHANGED <<pc, overlapped>>
         ELSE Enter(a, "setup")
    /\ UNCHANGED <<cur, created, client, retired, destroyed, pending, timer, status, stop,
                   dtor, budget, gaveUp, frame>>

-----------------------------------------------------------------------------
(* The machine channel. *)

\* Mutant of the next definition: a known machine is not followed by a request.
MutantNotAsked(a, paired) ==
    /\ a \in Pool
    /\ pc[a] = "idle" /\ UNCHANGED pc
    /\ channel' = paired
    /\ requested' = FALSE
    /\ UNCHANGED <<cur, created, client, retired, destroyed, pending, timer, expired, stop,
                   dtor, budget, gaveUp, overlapped, frame>>

\* parseScorbitronObject: the reply says whether there is a machine ...
ParseScorbitronObject(a, paired) ==
    /\ a \in Pool
    /\ IF paired THEN Go(a, "idle", "parsed") ELSE pc[a] = "idle" /\ UNCHANGED pc
    /\ channel' = paired
    /\ requested' = FALSE
    /\ UNCHANGED <<cur, created, client, retired, destroyed, pending, timer, expired, stop,
                   dtor, budget, gaveUp, overlapped, frame>>

\* ... and with a machine asks for the credits status.
ParsedPaired(a) ==
    /\ Go(a, "parsed", "idle")
    /\ RequestCreditsStatusIfReady
    /\ UNCHANGED <<cur, created, client, retired, destroyed, pending, timer, expired, channel,
                   stop, dtor, budget, gaveUp, overlapped, frame>>

-----------------------------------------------------------------------------
(* ~Net. *)

\* A thread that has passed centrifugoConnect's test of m_stop connects all the same.
Stop ==
    /\ dtor = "no"
    /\ dtor' = "stopping"
    /\ stop' = TRUE
    /\ overlapped' = (overlapped \/ \E a \in Actors : pc[a] = "dial")
    /\ UNCHANGED <<cur, created, client, retired, destroyed, pending, timer, expired, pc,
                   status, budget, gaveUp, frame>>

\* The disconnection is posted and waited for, unless there is no client.
PostDisconnect ==
    /\ dtor = "stopping"
    /\ dtor' = IF cur = 0 THEN "join" ELSE "posted"
    /\ timer' = IF cur = 0 THEN NoTimer ELSE timer
    /\ UNCHANGED <<cur, created, client, retired, destroyed, pending, expired, pc, status,
                   stop, budget, gaveUp, overlapped, frame>>

\* Mutant of the next definition: the client is left connected.
MutantJoinOnly ==
    /\ dtor = "posted"
    /\ dtor' = "join"
    /\ timer' = NoTimer
    /\ UNCHANGED <<cur, created, client, retired, destroyed, pending, expired, pc, status,
                   stop, budget, gaveUp, overlapped, frame>>

\* The posted task, then m_worker.stop(), which cancels the timers and joins the threads.
ShutdownDisconnect ==
    /\ dtor = "posted"
    /\ dtor' = "join"
    /\ timer' = NoTimer
    /\ Disconnect(cur)
    /\ UNCHANGED <<cur, created, greeting, retired, destroyed, pending, expired, pc, status,
                   stop, budget, gaveUp, overlapped, frame>>

-----------------------------------------------------------------------------
Step(a) ==
    \/ Look(a) \/ Retire(a) \/ Flag(a) \/ AskDisconnect(a)
    \/ Setup(a) \/ Assign(a) \/ CentrifugoConnect(a) \/ Dial(a) \/ ParsedPaired(a)

Library(c) ==
    Establish(c) \/ LinkLost(c) \/ (\E code \in {"3500", "other"} : Drop(c, code))

Callbacks(c) == OnConnected(c) \/ OnDisconnected(c)

Next ==
    \/ \E a \in Actors : Step(a)
    \/ \E a \in Pool : \/ InitializeConnectionState(a)
                       \/ \E p \in BOOLEAN : ParseScorbitronObject(a, p)
                       \/ \E h \in expired : TimerHandler(a, h)
    \/ OnPaired \/ OnUnpaired \/ CallbackReturns
    \/ \E c \in Clients : Library(c) \/ Callbacks(c)
    \/ TimerExpires \/ GracePasses
    \/ Stop \/ PostDisconnect \/ ShutdownDisconnect

\* The threads and the strand run what they have, timers expire, and the server can be
\* reached whenever a client tries for long enough.  The io_context serves its queue in
\* order, so other tasks that come up again and again do not keep a handler from running.
Fairness ==
    /\ \A a \in Actors : WF_vars(Step(a))
    /\ \A c \in Clients : WF_vars(Establish(c)) /\ WF_vars(Callbacks(c))
    /\ WF_vars(TimerExpires) /\ WF_vars(CallbackReturns)
    /\ \A h \in Handler : SF_vars(\E a \in Pool : TimerHandler(a, h))

Spec == Init /\ [][Next]_vars

FairSpec == Spec /\ Fairness

-----------------------------------------------------------------------------
Started == budget.restarts < MaxRestarts

\* A client is destroyed only when no callback of it is queued, neither onConnected nor
\* onDisconnected, and none of its frames is left on the strand: a client that is replaced in
\* its own callback is kept by m_retiredCentrifugoClients, and make_unique takes the place of
\* a client only from the timer its onDisconnected has started, when no publication of it, no
\* other restart and no prune can be under way.
DestroyedUnwound ==
    ~overlapped => \A c \in destroyed : closing[c] = "none" /\ c \notin greeting \cup {frame}

\* When the client is connected and the machine's channel is known, the credits status has
\* been requested since, whichever of the two came last (requestCreditsStatusIfReady is
\* called from onConnected and from parseScorbitronObject, on different threads).
CreditsStatusNotMissed ==
    /\ cur # 0 /\ channel /\ ~stop
    /\ cur # 0 => st[cur] = "Connected" /\ cur \notin greeting
    /\ \A a \in Actors : pc[a] # "parsed"
    => requested

\* Once ~Net joins the threads and they are idle, no connection is open that would keep the
\* io_context running, unless a thread was already inside connect().
ShutdownQuiet ==
    dtor = "join" /\ ~overlapped /\ (\A a \in Actors : ~Busy(a))
        => \A c \in Clients \ destroyed : st[c] = "Disconnected" \/ closing[c] = "asked"

\* A restart leads to a connected client (restartCentrifugo through the pending flag, the
\* callback and the timer), unless the server or connect() ended it in a way the code does not
\* react to, or two threads were inside these functions at once.
RestartReconnects ==
    Started ~> \/ cur # 0 /\ (cur # 0 => st[cur] = "Connected")
               \/ stop \/ gaveUp \/ overlapped
=============================================================================
