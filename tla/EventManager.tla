---------------------------- MODULE EventManager ----------------------------
(***************************************************************************)
(* The SDK's event channel: EventManager (event_manager.h), the mutex-     *)
(* protected priority queue it owns (event_queue.h) and the order number   *)
(* every event draws from the static counter EventBase::s_orderCounter     *)
(* when it is constructed (event_classes.h).                               *)
(*                                                                         *)
(* Producers are the threads that construct an event and push it: the four *)
(* pool threads and the thread that runs the C API jobs.  The consumer is  *)
(* the events strand: at most one processEvents handler runs at a time,    *)
(* `posted' handlers wait behind it.  Every access to shared state that    *)
(* another thread can interleave with is an action of its own.             *)
(***************************************************************************)
EXTENDS Naturals, Sequences, SequencesExt, FiniteSets

CONSTANTS Producers,   \* threads that push events
          Events,      \* the events they may push, each of them once
          Priority     \* EventPriority of each event: 0 Normal, 1 High, 2 Highest

ASSUME PriorityAssumption == Priority \in [Events -> 0..2]

VARIABLES orderCounter,  \* EventBase::s_orderCounter, a plain size_t
          order,         \* m_order of each constructed event, 0 before
          pushed,        \* program order: the events each producer has created
          pc,            \* where each producer is in its push
          seen,          \* the value of s_orderCounter a producer has loaded
          queue,         \* EventQueue::m_queue
          posted,        \* processEvents handlers waiting in the strand
          handler,       \* the running processEvents handler, or "idle"
          current,       \* event dequeued by that handler, if any
          stopped,       \* m_stopped
          handled        \* history: events handed to m_eventCallback, in order

eventsVars == <<orderCounter, order, pushed, pc, seen, queue, posted, handler,
          current, stopped, handled>>

producerVars == <<orderCounter, order, pushed, pc, seen>>
handlerVars  == <<handler, current, handled>>

PCs      == {"idle", "constructing", "built", "checked", "enqueued"}
Handlers == {"idle", "check", "dequeue", "callback"}

EventsTypeOK ==
    /\ orderCounter \in Nat
    /\ order \in [Events -> Nat]
    /\ pushed \in [Producers -> Seq(Events)]
    /\ pc \in [Producers -> PCs]
    /\ seen \in [Producers -> Nat]
    /\ queue \subseteq Events
    /\ posted \in Nat
    /\ handler \in Handlers
    /\ current \in SUBSET Events
    /\ stopped \in BOOLEAN
    /\ handled \in Seq(Events)

EventsInit ==
    /\ orderCounter = 0
    /\ order = [e \in Events |-> 0]
    /\ pushed = [p \in Producers |-> <<>>]
    /\ pc = [p \in Producers |-> "idle"]
    /\ seen = [p \in Producers |-> 0]
    /\ queue = {}
    /\ posted = 0
    /\ handler = "idle"
    /\ current = {}
    /\ stopped = FALSE
    /\ handled = <<>>

-----------------------------------------------------------------------------
(* Producers *)

Fresh(e) == \A p \in Producers : e \notin ToSet(pushed[p])

Creating(p) == Last(pushed[p])

\* EventBase's constructor, m_order{++s_orderCounter}.  The counter is neither
\* atomic nor locked, so the increment is a load and a later store.
ConstructLoad(p, e) ==
    /\ pc[p] = "idle"
    /\ Fresh(e)
    /\ pushed' = [pushed EXCEPT ![p] = Append(@, e)]
    /\ seen' = [seen EXCEPT ![p] = orderCounter]
    /\ pc' = [pc EXCEPT ![p] = "constructing"]
    /\ UNCHANGED <<orderCounter, order, queue, posted, stopped, handlerVars>>

ConstructStore(p) ==
    /\ pc[p] = "constructing"
    /\ orderCounter' = seen[p] + 1
    /\ order' = [order EXCEPT ![Creating(p)] = seen[p] + 1]
    /\ pc' = [pc EXCEPT ![p] = "built"]
    /\ UNCHANGED <<pushed, seen, queue, posted, stopped, handlerVars>>

\* push: the early return when the manager is stopped.
PushCheck(p) ==
    /\ pc[p] = "built"
    /\ pc' = [pc EXCEPT ![p] = IF stopped THEN "idle" ELSE "checked"]
    /\ UNCHANGED <<orderCounter, order, pushed, seen, queue, posted, stopped,
                   handlerVars>>

\* push: m_events.enqueue, under m_queueMutex.
Enqueue(p) ==
    /\ pc[p] = "checked"
    /\ queue' = queue \cup {Creating(p)}
    /\ pc' = [pc EXCEPT ![p] = "enqueued"]
    /\ UNCHANGED <<orderCounter, order, pushed, seen, posted, stopped, handlerVars>>

MutantPostIfOnlyOne(p) ==
    /\ pc[p] = "enqueued"
    /\ posted' = IF Cardinality(queue) = 1 THEN posted + 1 ELSE posted
    /\ pc' = [pc EXCEPT ![p] = "idle"]
    /\ UNCHANGED <<orderCounter, order, pushed, seen, queue, stopped, handlerVars>>

\* push: scheduleProcessing always posts one more handler.
ScheduleProcessing(p) ==
    /\ pc[p] = "enqueued"
    /\ posted' = posted + 1
    /\ pc' = [pc EXCEPT ![p] = "idle"]
    /\ UNCHANGED <<orderCounter, order, pushed, seen, queue, stopped, handlerVars>>

-----------------------------------------------------------------------------
(* The strand: processEvents *)

\* CompareEvents, through EventBase::operator<: higher priority first, then the
\* lower order number; std::priority_queue breaks a tie either way.
Before(a, b) ==
    \/ Priority[a] > Priority[b]
    \/ Priority[a] = Priority[b] /\ order[a] < order[b]

IsTop(e) == e \in queue /\ \A f \in queue : ~Before(f, e)

\* The strand starts the next posted handler.
HandlerStart ==
    /\ handler = "idle"
    /\ posted > 0
    /\ posted' = posted - 1
    /\ handler' = "check"
    /\ UNCHANGED <<producerVars, queue, current, stopped, handled>>

MutantCheckOnce ==
    /\ handler = "check"
    /\ handler' = "dequeue"
    /\ UNCHANGED <<producerVars, queue, posted, current, stopped, handled>>

\* while (!m_stopped)
HandlerCheck ==
    /\ handler = "check"
    /\ handler' = IF stopped THEN "idle" ELSE "dequeue"
    /\ UNCHANGED <<producerVars, queue, posted, current, stopped, handled>>

MutantPeek ==
    /\ handler = "dequeue"
    /\ \/ /\ queue = {}
          /\ handler' = "idle"
          /\ UNCHANGED <<queue, current>>
       \/ \E e \in queue :
             /\ IsTop(e)
             /\ current' = {e}
             /\ handler' = "callback"
             /\ UNCHANGED queue
    /\ UNCHANGED <<producerVars, posted, stopped, handled>>

\* m_events.dequeue(), under m_queueMutex; an empty queue ends the handler.
HandlerDequeue ==
    /\ handler = "dequeue"
    /\ \/ /\ queue = {}
          /\ handler' = "idle"
          /\ UNCHANGED <<queue, current>>
       \/ \E e \in queue :
             /\ IsTop(e)
             /\ queue' = queue \ {e}
             /\ current' = {e}
             /\ handler' = "callback"
    /\ UNCHANGED <<producerVars, posted, stopped, handled>>

\* The application's callback runs to its end; then the loop goes round.
HandlerCallback ==
    /\ handler = "callback"
    /\ \E e \in current : handled' = Append(handled, e)
    /\ current' = {}
    /\ handler' = "check"
    /\ UNCHANGED <<producerVars, queue, posted, stopped>>

\* stop(), from ~Net or the destructor.
Stop ==
    /\ ~stopped
    /\ stopped' = TRUE
    /\ UNCHANGED <<producerVars, queue, posted, handlerVars>>

-----------------------------------------------------------------------------
Produce(p) ==
    \/ \E e \in Events : ConstructLoad(p, e)
    \/ ConstructStore(p)
    \/ PushCheck(p)
    \/ Enqueue(p)
    \/ ScheduleProcessing(p)

Process == HandlerStart \/ HandlerCheck \/ HandlerDequeue \/ HandlerCallback

EventsNext == (\E p \in Producers : Produce(p)) \/ Process \/ Stop

EventsSpec == EventsInit /\ [][EventsNext]_eventsVars

\* The pool threads keep running what is posted to them, the callback returns,
\* and a thread inside push goes on; nothing obliges a producer to push.
EventsFairness ==
    /\ WF_eventsVars(Process)
    /\ \A p \in Producers : WF_eventsVars(ScheduleProcessing(p))

EventsFairSpec == EventsSpec /\ EventsFairness

-----------------------------------------------------------------------------
(* Properties *)

\* Some handler will still look at the queue.
Attended ==
    \/ posted > 0
    \/ handler # "idle"
    \/ \E p \in Producers : pc[p] = "enqueued"

\* "Always post to ensure processing happens": while the manager is not stopped,
\* an event in the queue has a handler posted or running, or its producer is
\* about to post one (event_manager.h, push and processEvents).
NoStrandedEvent == queue # {} /\ ~stopped => Attended

\* No event is given to the application twice, whatever the number of handlers
\* the pushes have posted (dequeue takes and removes under one lock).
DeliveredOnce ==
    /\ \A i, j \in DOMAIN handled : handled[i] = handled[j] => i = j
    /\ current \cap ToSet(handled) = {}
    /\ queue \cap (current \cup ToSet(handled)) = {}

\* stop() lets at most the iteration already past the m_stopped test deliver its
\* event: once stopped and out of that iteration no callback ever starts.
StopIsFinal ==
    [][stopped /\ handler \in {"idle", "check"}
         => handler' \in {"idle", "check"} /\ handled' = handled]_eventsVars

\* Every event that reaches the queue is delivered unless the manager is stopped.
EventuallyDelivered ==
    \A e \in Events : e \in queue ~> e \in ToSet(handled) \/ stopped

=============================================================================
