-------------------------- MODULE GameSideProofs --------------------------
(***************************************************************************)
(* Theorems about what a game gets from the SDK: its event callbacks       *)
(* (EventManager), the modes it has added (ModeExpiry), and the answers to its *)
(* requests with the players' pictures (Services).  Each part is proved for *)
(* every value of its own constants.  What is in the queue of events is always *)
(* attended to, nothing is delivered twice and stop() is final; no mode is *)
(* forgotten and modes behave as leases; every request is answered at most *)
(* once and a picture that is not there yet is on its way.                 *)
(***************************************************************************)
EXTENDS EventManager, ModeExpiry, Services, FiniteSetTheorems, SequenceTheorems, TLAPS

-----------------------------------------------------------------------------
(* The event channel *)

\* Events that have reached the queue, waiting or already taken out of it.
Arrived == queue \cup current \cup ToSet(handled)

\* A producer inside push owns the last event it created.
OwnsEvent == \A p \in Producers : pc[p] # "idle" => pushed[p] # <<>>

\* Only created events arrive, and not while their producer still owns them.
ArrivedArePushed ==
    \A e \in Arrived : \E p \in Producers : e \in ToSet(pushed[p])

NotYetArrived ==
    \A p \in Producers :
        pc[p] \in {"constructing", "built", "checked"} => Creating(p) \notin Arrived

\* An event has one creator.
OneCreator ==
    \A p, q \in Producers :
        p # q => ToSet(pushed[p]) \cap ToSet(pushed[q]) = {}

\* The inductive invariant: DeliveredOnce needs the ownership facts because a
\* second enqueue of a delivered event is what it excludes.
EventsIInv ==
    /\ EventsTypeOK
    /\ NoStrandedEvent
    /\ OwnsEvent
    /\ ArrivedArePushed
    /\ NotYetArrived
    /\ OneCreator
    /\ DeliveredOnce

-----------------------------------------------------------------------------
LEMMA AppendSet ==
    ASSUME NEW S, NEW s \in Seq(S), NEW x \in S
    PROVE  ToSet(Append(s, x)) = ToSet(s) \cup {x}
<1>1. DOMAIN Append(s, x) = DOMAIN s \cup {Len(s) + 1}
  OBVIOUS
<1>2. \A i \in DOMAIN s : Append(s, x)[i] = s[i]
  OBVIOUS
<1>3. Append(s, x)[Len(s) + 1] = x
  OBVIOUS
<1> QED BY <1>1, <1>2, <1>3 DEF ToSet

LEMMA LastIn ==
    ASSUME NEW S, NEW s \in Seq(S), s # <<>>
    PROVE  Last(s) \in ToSet(s) /\ Last(s) \in S
<1>1. Len(s) \in DOMAIN s
  OBVIOUS
<1> QED BY <1>1 DEF ToSet, Last

LEMMA LastAppend ==
    ASSUME NEW S, NEW s \in Seq(S), NEW x \in S
    PROVE  Append(s, x) # <<>> /\ Last(Append(s, x)) = x
BY DEF Last

LEMMA EventsInitIInv == EventsInit => EventsIInv
<1> SUFFICES ASSUME EventsInit PROVE EventsIInv
  OBVIOUS
<1>1. ToSet(handled) = {} /\ \A p \in Producers : ToSet(pushed[p]) = {}
  BY DEF EventsInit, ToSet
<1>2. EventsTypeOK
  <2>1. <<>> \in Seq(Events)
    OBVIOUS
  <2>2. pushed \in [Producers -> Seq(Events)] /\ handled \in Seq(Events)
    BY <2>1 DEF EventsInit
  <2>3. order \in [Events -> Nat] /\ seen \in [Producers -> Nat] /\ pc \in [Producers -> PCs]
    BY DEF EventsInit, PCs
  <2> QED BY <2>2, <2>3 DEF EventsInit, EventsTypeOK, Handlers
<1>3. NoStrandedEvent /\ OwnsEvent /\ NotYetArrived
  BY DEF EventsInit, NoStrandedEvent, OwnsEvent, NotYetArrived
<1>4. ArrivedArePushed /\ OneCreator /\ DeliveredOnce
  BY <1>1 DEF EventsInit, ArrivedArePushed, OneCreator, DeliveredOnce, Arrived
<1> QED BY <1>2, <1>3, <1>4 DEF EventsIInv

-----------------------------------------------------------------------------
LEMMA EventsTypeStep == EventsTypeOK /\ OwnsEvent /\ [EventsNext]_eventsVars => EventsTypeOK'
<1> SUFFICES ASSUME EventsTypeOK, OwnsEvent, [EventsNext]_eventsVars PROVE EventsTypeOK'
  OBVIOUS
<1> USE DEF EventsTypeOK, PCs, Handlers, handlerVars, producerVars
<1>1. ASSUME NEW p \in Producers, NEW e \in Events, ConstructLoad(p, e) PROVE EventsTypeOK'
  BY <1>1 DEF ConstructLoad
<1>2. ASSUME NEW p \in Producers, ConstructStore(p) PROVE EventsTypeOK'
  <2>1. pushed[p] # <<>> /\ pushed[p] \in Seq(Events)
    BY <1>2 DEF ConstructStore, OwnsEvent
  <2>2. Creating(p) \in Events
    BY <2>1, LastIn DEF Creating
  <2>3. seen[p] + 1 \in Nat
    OBVIOUS
  <2>4. order' \in [Events -> Nat] /\ orderCounter' \in Nat /\ pc' \in [Producers -> PCs]
    BY <1>2, <2>2, <2>3 DEF ConstructStore
  <2> QED BY <1>2, <2>4 DEF ConstructStore
<1>3. ASSUME NEW p \in Producers, PushCheck(p) PROVE EventsTypeOK'
  BY <1>3 DEF PushCheck
<1>4. ASSUME NEW p \in Producers, Enqueue(p) PROVE EventsTypeOK'
  <2>1. pushed[p] # <<>> /\ pushed[p] \in Seq(Events)
    BY <1>4 DEF Enqueue, OwnsEvent
  <2>2. Creating(p) \in Events
    BY <2>1, LastIn DEF Creating
  <2> QED BY <1>4, <2>2 DEF Enqueue
<1>5. ASSUME NEW p \in Producers, ScheduleProcessing(p) PROVE EventsTypeOK'
  BY <1>5 DEF ScheduleProcessing
<1>6. CASE HandlerStart
  BY <1>6 DEF HandlerStart
<1>7. CASE HandlerCheck
  BY <1>7 DEF HandlerCheck
<1>8. CASE HandlerDequeue
  BY <1>8 DEF HandlerDequeue
<1>9. CASE HandlerCallback
  BY <1>9 DEF HandlerCallback
<1>10. CASE Stop
  BY <1>10 DEF Stop
<1>11. CASE UNCHANGED eventsVars
  BY <1>11 DEF eventsVars
<1> QED
  BY <1>1, <1>2, <1>3, <1>4, <1>5, <1>6, <1>7, <1>8, <1>9, <1>10, <1>11
  DEF EventsNext, Produce, Process

\* An event is never stranded: the enqueuing producer still has to post, a
\* posted handler takes its place, and a handler only ends on an empty queue or
\* on m_stopped.
LEMMA StrandedStep == EventsTypeOK /\ NoStrandedEvent /\ [EventsNext]_eventsVars => NoStrandedEvent'
<1> SUFFICES ASSUME EventsTypeOK, NoStrandedEvent, [EventsNext]_eventsVars PROVE NoStrandedEvent'
  OBVIOUS
<1> USE DEF EventsTypeOK, NoStrandedEvent, Attended, handlerVars, producerVars
<1>1. ASSUME NEW p \in Producers, NEW e \in Events, ConstructLoad(p, e)
      PROVE  NoStrandedEvent'
  BY <1>1 DEF ConstructLoad
<1>2. ASSUME NEW p \in Producers, ConstructStore(p) PROVE NoStrandedEvent'
  BY <1>2 DEF ConstructStore
<1>3. ASSUME NEW p \in Producers, PushCheck(p) PROVE NoStrandedEvent'
  BY <1>3 DEF PushCheck
<1>4. ASSUME NEW p \in Producers, Enqueue(p) PROVE NoStrandedEvent'
  BY <1>4 DEF Enqueue
<1>5. ASSUME NEW p \in Producers, ScheduleProcessing(p) PROVE NoStrandedEvent'
  BY <1>5 DEF ScheduleProcessing
<1>6. CASE HandlerStart
  BY <1>6 DEF HandlerStart
<1>7. CASE HandlerCheck
  BY <1>7 DEF HandlerCheck
<1>8. CASE HandlerDequeue
  BY <1>8 DEF HandlerDequeue
<1>9. CASE HandlerCallback
  BY <1>9 DEF HandlerCallback
<1>10. CASE Stop
  BY <1>10 DEF Stop
<1>11. CASE UNCHANGED eventsVars
  BY <1>11 DEF eventsVars
<1> QED
  BY <1>1, <1>2, <1>3, <1>4, <1>5, <1>6, <1>7, <1>8, <1>9, <1>10, <1>11
  DEF EventsNext, Produce, Process

\* The creation facts: only ConstructLoad extends pushed, with a fresh event.
LEMMA CreationStep ==
    EventsTypeOK /\ OwnsEvent /\ OneCreator /\ [EventsNext]_eventsVars
        => /\ OwnsEvent'
           /\ OneCreator'
           /\ \A p \in Producers : ToSet(pushed[p]) \subseteq ToSet(pushed'[p])
<1> SUFFICES ASSUME EventsTypeOK, OwnsEvent, OneCreator, [EventsNext]_eventsVars
             PROVE  /\ OwnsEvent'
                    /\ OneCreator'
                    /\ \A p \in Producers : ToSet(pushed[p]) \subseteq ToSet(pushed'[p])
  OBVIOUS
<1>1. ASSUME NEW p \in Producers, NEW e \in Events, ConstructLoad(p, e)
      PROVE  /\ OwnsEvent'
             /\ OneCreator'
             /\ \A q \in Producers : ToSet(pushed[q]) \subseteq ToSet(pushed'[q])
  <2>1. pushed' = [pushed EXCEPT ![p] = Append(@, e)] /\ pc' = [pc EXCEPT ![p] = "constructing"]
    BY <1>1 DEF ConstructLoad
  <2>2. /\ pushed[p] \in Seq(Events)
        /\ pushed'[p] = Append(pushed[p], e)
        /\ \A q \in Producers \ {p} : pushed'[q] = pushed[q]
    BY <2>1 DEF EventsTypeOK
  <2>3. /\ ToSet(pushed'[p]) = ToSet(pushed[p]) \cup {e}
        /\ pushed'[p] # <<>>
    BY <2>2, AppendSet, LastAppend
  <2>4. \A q \in Producers : e \notin ToSet(pushed[q])
    BY <1>1 DEF ConstructLoad, Fresh
  <2>5. OwnsEvent'
    BY <2>1, <2>2, <2>3 DEF OwnsEvent, EventsTypeOK
  <2>6. OneCreator'
    <3> SUFFICES ASSUME NEW q \in Producers, NEW r \in Producers, q # r
                 PROVE  ToSet(pushed'[q]) \cap ToSet(pushed'[r]) = {}
      BY DEF OneCreator
    <3>1. ToSet(pushed[q]) \cap ToSet(pushed[r]) = {}
      BY DEF OneCreator
    <3>2. CASE q = p
      BY <3>1, <3>2, <2>2, <2>3, <2>4
    <3>3. CASE r = p
      BY <3>1, <3>3, <2>2, <2>3, <2>4
    <3>4. CASE q # p /\ r # p
      BY <3>1, <3>4, <2>2
    <3> QED BY <3>2, <3>3, <3>4
  <2> QED BY <2>2, <2>3, <2>5, <2>6
<1>2. ASSUME UNCHANGED pushed,
             \A p \in Producers : pc[p] = "idle" => pc'[p] = "idle"
      PROVE  /\ OwnsEvent'
             /\ OneCreator'
             /\ \A q \in Producers : ToSet(pushed[q]) \subseteq ToSet(pushed'[q])
  BY <1>2 DEF OwnsEvent, OneCreator
<1>3. ASSUME NEW p \in Producers, ConstructStore(p) \/ PushCheck(p) \/ Enqueue(p)
                                   \/ ScheduleProcessing(p)
      PROVE  /\ UNCHANGED pushed
             /\ \A q \in Producers : pc[q] = "idle" => pc'[q] = "idle"
  BY <1>3 DEF ConstructStore, PushCheck, Enqueue, ScheduleProcessing, EventsTypeOK
<1>4. ASSUME Process \/ Stop \/ UNCHANGED eventsVars
      PROVE  UNCHANGED <<pushed, pc>>
  BY <1>4 DEF Process, HandlerStart, HandlerCheck, HandlerDequeue, HandlerCallback,
              Stop, eventsVars, producerVars
<1> QED BY <1>1, <1>2, <1>3, <1>4 DEF EventsNext, Produce

\* Arrived grows only by Enqueue, with the event its producer owns.
LEMMA ArrivedStep ==
    ASSUME EventsTypeOK, [EventsNext]_eventsVars
    PROVE  \/ Arrived' \subseteq Arrived
           \/ \E p \in Producers : Enqueue(p) /\ Arrived' \subseteq Arrived \cup {Creating(p)}
<1>1. ASSUME NEW p \in Producers, Enqueue(p)
      PROVE  Arrived' \subseteq Arrived \cup {Creating(p)}
  BY <1>1 DEF Enqueue, handlerVars, Arrived
<1>2. ASSUME NEW p \in Producers, NEW e \in Events, ConstructLoad(p, e)
      PROVE  Arrived' \subseteq Arrived
  BY <1>2 DEF ConstructLoad, handlerVars, Arrived
<1>3. ASSUME NEW p \in Producers, ConstructStore(p) \/ PushCheck(p) \/ ScheduleProcessing(p)
      PROVE  Arrived' \subseteq Arrived
  BY <1>3 DEF ConstructStore, PushCheck, ScheduleProcessing, handlerVars, Arrived
<1>4. CASE HandlerDequeue
  BY <1>4 DEF HandlerDequeue, Arrived
<1>5. CASE HandlerCallback
  <2>1. PICK e \in current : handled' = Append(handled, e)
    BY <1>5 DEF HandlerCallback
  <2>2. ToSet(handled') = ToSet(handled) \cup {e}
    BY <2>1, AppendSet DEF EventsTypeOK
  <2> QED BY <1>5, <2>2 DEF HandlerCallback, Arrived
<1>6. CASE HandlerStart \/ HandlerCheck \/ Stop \/ UNCHANGED eventsVars
  BY <1>6 DEF HandlerStart, HandlerCheck, Stop, eventsVars, handlerVars, Arrived
<1> QED BY <1>1, <1>2, <1>3, <1>4, <1>5, <1>6 DEF EventsNext, Produce, Process

\* Arrived events keep a creator, and no producer's own event arrives early: the
\* one event Enqueue adds leaves its producer's hands in the same step.
LEMMA OwnershipStep ==
    EventsIInv /\ [EventsNext]_eventsVars => ArrivedArePushed' /\ NotYetArrived'
<1> SUFFICES ASSUME EventsIInv, [EventsNext]_eventsVars PROVE ArrivedArePushed' /\ NotYetArrived'
  OBVIOUS
<1>a. EventsTypeOK /\ OwnsEvent /\ OneCreator /\ ArrivedArePushed /\ NotYetArrived
  BY DEF EventsIInv
<1>b. \A p \in Producers : ToSet(pushed[p]) \subseteq ToSet(pushed'[p])
  BY <1>a, CreationStep
<1>c. \A p \in Producers : pc[p] # "idle" => Creating(p) \in ToSet(pushed[p])
  BY <1>a, LastIn DEF OwnsEvent, Creating, EventsTypeOK
<1>1. ArrivedArePushed'
  <2> SUFFICES ASSUME NEW e \in Arrived' PROVE \E p \in Producers : e \in ToSet(pushed'[p])
    BY DEF ArrivedArePushed
  <2>1. CASE e \in Arrived
    BY <1>a, <1>b, <2>1 DEF ArrivedArePushed
  <2>2. CASE \E p \in Producers : Enqueue(p) /\ e = Creating(p)
    BY <1>b, <1>c, <2>2 DEF Enqueue
  <2> QED BY <1>a, <2>1, <2>2, ArrivedStep
<1>2. NotYetArrived'
  <2> SUFFICES ASSUME NEW p \in Producers, pc'[p] \in {"constructing", "built", "checked"}
               PROVE  Creating(p)' \notin Arrived'
    BY DEF NotYetArrived
  <2>1. ASSUME NEW e \in Events, ConstructLoad(p, e)
        PROVE  Creating(p)' \notin Arrived'
    <3>1. pushed'[p] = Append(pushed[p], e) /\ pushed[p] \in Seq(Events)
      BY <1>a, <2>1 DEF ConstructLoad, EventsTypeOK
    <3>2. Creating(p)' = e
      BY <3>1, LastAppend DEF Creating
    <3>3. e \notin Arrived
      BY <1>a, <2>1 DEF ConstructLoad, Fresh, ArrivedArePushed
    <3>4. Arrived' = Arrived
      BY <2>1 DEF ConstructLoad, handlerVars, Arrived
    <3> QED BY <3>2, <3>3, <3>4
  <2>2. ASSUME pushed'[p] = pushed[p],
               pc[p] \in {"constructing", "built", "checked"}, ~Enqueue(p)
        PROVE  Creating(p)' \notin Arrived'
    <3>1. Creating(p)' = Creating(p) /\ Creating(p) \notin Arrived
      BY <1>a, <2>2 DEF Creating, NotYetArrived
    <3>2. ASSUME NEW q \in Producers, Enqueue(q) PROVE Creating(q) # Creating(p)
      <4>1. q # p /\ pc[q] # "idle" /\ pc[p] # "idle"
        BY <2>2, <3>2 DEF Enqueue
      <4> QED BY <1>a, <1>c, <4>1 DEF OneCreator
    <3> QED BY <1>a, <3>1, <3>2, ArrivedStep
  <2>3. CASE \E q \in Producers : \/ \E e \in Events : ConstructLoad(q, e)
                                  \/ ConstructStore(q)
                                  \/ PushCheck(q)
                                  \/ Enqueue(q)
                                  \/ ScheduleProcessing(q)
    BY <1>a, <2>1, <2>2, <2>3
    DEF ConstructLoad, ConstructStore, PushCheck, Enqueue, ScheduleProcessing, EventsTypeOK
  <2>4. CASE Process \/ Stop \/ UNCHANGED eventsVars
    <3>1. UNCHANGED <<pushed, pc>>
      BY <2>4 DEF Process, HandlerStart, HandlerCheck, HandlerDequeue, HandlerCallback,
                  Stop, eventsVars, producerVars
    <3>2. ~Enqueue(p)
      BY <3>1, <1>a DEF Enqueue, EventsTypeOK
    <3> QED BY <2>2, <3>1, <3>2
  <2> QED BY <2>3, <2>4 DEF EventsNext, Produce
<1> QED BY <1>1, <1>2

LEMMA DeliveredStep == EventsIInv /\ [EventsNext]_eventsVars => DeliveredOnce'
<1> SUFFICES ASSUME EventsIInv, [EventsNext]_eventsVars PROVE DeliveredOnce'
  OBVIOUS
<1>a. EventsTypeOK /\ NotYetArrived /\ DeliveredOnce
  BY DEF EventsIInv
<1>1. ASSUME NEW p \in Producers, Enqueue(p) PROVE DeliveredOnce'
  <2>1. Creating(p) \notin Arrived
    BY <1>1, <1>a DEF Enqueue, NotYetArrived
  <2> QED BY <1>1, <1>a, <2>1 DEF Enqueue, handlerVars, DeliveredOnce, Arrived
<1>2. CASE HandlerDequeue
  <2>1. handled' = handled
    BY <1>2 DEF HandlerDequeue
  <2>2. CASE UNCHANGED <<queue, current>>
    BY <1>a, <2>1, <2>2 DEF DeliveredOnce
  <2>3. CASE \E e \in queue : queue' = queue \ {e} /\ current' = {e}
    BY <1>a, <2>1, <2>3 DEF DeliveredOnce
  <2> QED BY <1>2, <2>2, <2>3 DEF HandlerDequeue
<1>3. CASE HandlerCallback
  <2>1. PICK e \in current : handled' = Append(handled, e)
    BY <1>3 DEF HandlerCallback
  <2>2. current' = {} /\ queue' = queue /\ handled \in Seq(Events) /\ e \in Events
    BY <1>3, <1>a DEF HandlerCallback, EventsTypeOK
  <2>3. ToSet(handled') = ToSet(handled) \cup {e}
    BY <2>1, <2>2, AppendSet
  <2>4. e \notin ToSet(handled)
    BY <1>a DEF DeliveredOnce
  <2>5. \A i, j \in DOMAIN handled' : handled'[i] = handled'[j] => i = j
    <3>1. /\ DOMAIN handled' = DOMAIN handled \cup {Len(handled) + 1}
          /\ \A i \in DOMAIN handled : handled'[i] = handled[i]
          /\ handled'[Len(handled) + 1] = e
      BY <2>1, <2>2
    <3>2. \A i \in DOMAIN handled : handled[i] # e
      BY <2>4 DEF ToSet
    <3>3. \A i, j \in DOMAIN handled : handled[i] = handled[j] => i = j
      BY <1>a DEF DeliveredOnce
    <3> QED BY <3>1, <3>2, <3>3
  <2>6. queue \cap (current \cup ToSet(handled)) = {}
    BY <1>a DEF DeliveredOnce
  <2> QED BY <2>2, <2>3, <2>5, <2>6 DEF DeliveredOnce
<1>4. ASSUME UNCHANGED <<queue, current, handled>> PROVE DeliveredOnce'
  BY <1>a, <1>4 DEF DeliveredOnce
<1>5. ASSUME NEW p \in Producers,
             \/ \E e \in Events : ConstructLoad(p, e)
             \/ ConstructStore(p) \/ PushCheck(p) \/ ScheduleProcessing(p)
      PROVE  UNCHANGED <<queue, current, handled>>
  BY <1>5 DEF ConstructLoad, ConstructStore, PushCheck, ScheduleProcessing, handlerVars
<1>6. ASSUME HandlerStart \/ HandlerCheck \/ Stop \/ UNCHANGED eventsVars
      PROVE  UNCHANGED <<queue, current, handled>>
  BY <1>6 DEF HandlerStart, HandlerCheck, Stop, eventsVars, handlerVars
<1> QED BY <1>1, <1>2, <1>3, <1>4, <1>5, <1>6 DEF EventsNext, Produce, Process

LEMMA StepIInv == EventsIInv /\ [EventsNext]_eventsVars => EventsIInv'
BY EventsTypeStep, StrandedStep, CreationStep, OwnershipStep, DeliveredStep DEF EventsIInv

LEMMA SpecIInv == EventsSpec => []EventsIInv
BY EventsInitIInv, StepIInv, PTL DEF EventsSpec

-----------------------------------------------------------------------------
\* Every reachable state of the event channel is well typed.
THEOREM EventsTypeCorrect == EventsSpec => []EventsTypeOK
<1>1. EventsIInv => EventsTypeOK
  BY DEF EventsIInv
<1> QED BY <1>1, SpecIInv, PTL

\* push always posts and processEvents only stops on an empty queue, so no event
\* waits in the queue unattended, for any number of pushing threads.
THEOREM NeverStranded == EventsSpec => []NoStrandedEvent
<1>1. EventsIInv => NoStrandedEvent
  BY DEF EventsIInv
<1> QED BY <1>1, SpecIInv, PTL

\* The queue hands every event out at most once, for any number of pushing
\* threads and posted handlers.
THEOREM NeverTwice == EventsSpec => []DeliveredOnce
<1>1. EventsIInv => DeliveredOnce
  BY DEF EventsIInv
<1> QED BY <1>1, SpecIInv, PTL

\* After stop() no processEvents handler starts another callback.
THEOREM StopHolds == EventsSpec => StopIsFinal
<1>1. [EventsNext]_eventsVars => [stopped /\ handler \in {"idle", "check"}
         => handler' \in {"idle", "check"} /\ handled' = handled]_eventsVars
  <2> SUFFICES ASSUME [EventsNext]_eventsVars, stopped, handler \in {"idle", "check"}
               PROVE  handler' \in {"idle", "check"} /\ handled' = handled
    OBVIOUS
  <2>1. CASE Process
    BY <2>1 DEF Process, HandlerStart, HandlerCheck, HandlerDequeue, HandlerCallback
  <2>2. CASE \E p \in Producers : Produce(p)
    BY <2>2 DEF Produce, ConstructLoad, ConstructStore, PushCheck, Enqueue,
                ScheduleProcessing, handlerVars
  <2>3. CASE Stop \/ UNCHANGED eventsVars
    BY <2>3 DEF Stop, eventsVars, handlerVars
  <2> QED BY <2>1, <2>2, <2>3 DEF EventsNext
<1> QED BY <1>1, PTL DEF EventsSpec, StopIsFinal

-----------------------------------------------------------------------------
(* Modes and their expiry *)

\* A deadline belongs to a listed mode: removals erase both.
DeadlinesListed == \A m \in ModeNames : deadlines[m] # None => m \in modes

\* Between games there are no modes, so a late tick finds nothing.
NoModesBetweenGames == ~active => modes = {}

\* Poison is in the queue exactly from the shutdown to the end of the thread, and
\* nothing is behind it.
PoisonLast ==
    /\ \A i \in 1..Len(jobs) : jobs[i].op = "poison" => i = Len(jobs) /\ ~accepting
    /\ ~accepting /\ dispatcher = "running"
         => jobs # <<>> /\ jobs[Len(jobs)].op = "poison"
    /\ accepting => dispatcher = "running"
    /\ dispatcher # "running" => jobs = <<>>

ModesIInv ==
    /\ ModesTypeOK
    /\ ExpiryCovered
    /\ DeadlinesListed
    /\ NoModesBetweenGames
    /\ PoisonLast

-----------------------------------------------------------------------------
(* Lemmas *)

\* A normalised duration is between one second and the cap.
LEMMA NormalizedSeconds ==
    ASSUME NEW s \in Nat
    PROVE  NormalizeModeExpirySeconds(s) \in Seconds \ {0}
BY DEF NormalizeModeExpirySeconds, Seconds, MODE_EXPIRY_DEFAULT_SEC, MODE_EXPIRY_MAX_SEC

\* After rescheduling for d the timer has its type and covers every deadline of d.
LEMMA RescheduledCovers ==
    ASSUME NEW d \in [ModeNames -> Seconds \cup {None}], RescheduleModeExpiryTimer(d)
    PROVE  /\ timer' \in Seconds \cup {None}
           /\ Expiring(d) # {} => /\ timer' # None
                                  /\ \A m \in Expiring(d) : timer' <= d[m]
BY DEF RescheduleModeExpiryTimer, IsNextExpiryDelay, Seconds, None, MODE_EXPIRY_MAX_SEC

\* The job taken from the queue is a job, and the rest is a queue.
LEMMA TakenJob ==
    ASSUME ModesTypeOK, NEW op, Takes(op)
    PROVE  /\ Head(jobs) \in Job /\ Head(jobs).op = op
           /\ jobs' \in Seq(Job)
           /\ Len(jobs') = Len(jobs) - 1
           /\ \A i \in 1..Len(jobs') : jobs'[i] = jobs[i + 1]
BY DEF ModesTypeOK, Takes

\* Kinds of jobs and what they carry.
LEMMA JobFields ==
    ASSUME NEW j \in Job
    PROVE  /\ j.op \in {"add", "remove", "addExpiring"} => j.mode \in ModeNames
           /\ j.op = "addExpiring" => j.duration \in Durations
BY DEF Job

-----------------------------------------------------------------------------
(* Types *)

LEMMA ModesTypeStep == ModesTypeOK /\ [ModesNext]_modesVars => ModesTypeOK'
<1> SUFFICES ASSUME ModesTypeOK, [ModesNext]_modesVars PROVE ModesTypeOK'
    OBVIOUS
<1> USE ModeExpiryAssumption
<1> NoDeadlines \in [ModeNames -> Seconds \cup {None}]
    BY DEF NoDeadlines
<1>1. CASE RunStart
    BY <1>1, TakenJob DEF RunStart, SetGameStarted, CancelModeExpiryTimer, ModesTypeOK, pool
<1>2. CASE RunReturnsEarly
    BY <1>2, TakenJob DEF RunReturnsEarly, ModesTypeOK, game, pool
<1>3. CASE RunFinish
    BY <1>3, TakenJob DEF RunFinish, SetGameFinished, CancelModeExpiryTimer, ModesTypeOK, pool
<1>4. CASE RunAdd
    BY <1>4, TakenJob, JobFields DEF RunAdd, AddMode, ModesTypeOK, pool
<1>5. CASE RunAddExpiring
  <2> DEFINE m == Head(jobs).mode
             n == NormalizeModeExpirySeconds(Head(jobs).duration)
  <2>1. Takes("addExpiring")
        BY <1>5 DEF RunAddExpiring
  <2>2. jobs' \in Seq(Job) /\ m \in ModeNames /\ n \in Seconds
        BY <2>1, TakenJob, JobFields, NormalizedSeconds
  <2>3. deadlines' = [deadlines EXCEPT ![m] = n]
        BY <1>5 DEF RunAddExpiring, AddModeExpiring
  <2>4. deadlines' \in [ModeNames -> Seconds \cup {None}]
        BY <2>2, <2>3 DEF ModesTypeOK
  <2>5. timer' \in Seconds \cup {None}
        BY <1>5, <2>4, RescheduledCovers DEF RunAddExpiring, AddModeExpiring
  <2> QED
        BY <1>5, <2>2, <2>4, <2>5 DEF RunAddExpiring, AddModeExpiring, ModesTypeOK, pool
<1>6. CASE RunRemove
  <2>1. Takes("remove")
        BY <1>6 DEF RunRemove
  <2>2. jobs' \in Seq(Job) /\ Head(jobs).mode \in ModeNames
        BY <2>1, TakenJob, JobFields
  <2>3. deadlines' \in [ModeNames -> Seconds \cup {None}]
        BY <1>6, <2>2 DEF RunRemove, RemoveMode, ModesTypeOK
  <2>4. timer' \in Seconds \cup {None}
        BY <1>6, <2>3, RescheduledCovers DEF RunRemove, RemoveMode, ModesTypeOK
  <2> QED
        BY <1>6, <2>2, <2>3, <2>4 DEF RunRemove, RemoveMode, ModesTypeOK, pool
<1>7. CASE RunClear
    BY <1>7, TakenJob DEF RunClear, ClearModes, CancelModeExpiryTimer, ModesTypeOK, pool
<1>8. CASE RunTick
  <2>1. deadlines' \in [ModeNames -> Seconds \cup {None}]
        BY <1>8 DEF RunTick, TickModeExpiries, ModesTypeOK
  <2>2. timer' \in Seconds \cup {None}
        BY <1>8, <2>1, RescheduledCovers
        DEF RunTick, TickModeExpiries, CancelModeExpiryTimer
  <2>3. modes' \subseteq ModeNames /\ active' \in BOOLEAN
        BY <1>8 DEF RunTick, TickModeExpiries, ModesTypeOK
  <2> QED
        BY <1>8, <2>1, <2>2, <2>3 DEF RunTick, ModesTypeOK, pool
<1>9. CASE RunPoison
    BY <1>9, TakenJob DEF RunPoison, ModesTypeOK, game, pool
<1>10. CASE \E j \in Job \ {[op |-> "poison"]} : PostApiJob(j)
    BY <1>10 DEF PostApiJob, ModesTypeOK, game, pool
<1>11. CASE ShutdownCApiDispatcher
  <2>1. [op |-> "poison"] \in Job
        BY DEF Job
  <2>2. jobs' \in Seq(Job)
        BY <1>11, <2>1 DEF ShutdownCApiDispatcher, ModesTypeOK
  <2>3. accepting' \in BOOLEAN
        BY <1>11, Zenon DEF ShutdownCApiDispatcher
  <2> QED
        BY <1>11, <2>2, <2>3 DEF ShutdownCApiDispatcher, ModesTypeOK, game, pool
<1>12. CASE DestroyHandle
    BY <1>12 DEF DestroyHandle, CancelModeExpiryTimer, ModesTypeOK, pool
<1>13. CASE ClockTick
  <2>1. \A n \in Seconds \cup {None} : SecondLess(n) \in Seconds \cup {None}
        BY DEF SecondLess, Seconds, None, MODE_EXPIRY_MAX_SEC
  <2> QED
        BY <1>13, <2>1 DEF ClockTick, ModesTypeOK, pool
<1>14. CASE TimerExpires
    BY <1>14 DEF TimerExpires, ModesTypeOK
<1>15. CASE PosterTests
    BY <1>15 DEF PosterTests, ModesTypeOK, game
<1>16. CASE PosterEnqueues
    BY <1>16 DEF PosterEnqueues, ModesTypeOK, game
<1>17. CASE UNCHANGED modesVars
    BY <1>17 DEF modesVars, game, pool, ModesTypeOK
<1> QED
    BY <1>1, <1>2, <1>3, <1>4, <1>5, <1>6, <1>7, <1>8, <1>9, <1>10, <1>11, <1>12,
       <1>13, <1>14, <1>15, <1>16, <1>17 DEF ModesNext, Dispatch

\* The variables of ModeExpiry keep their types.
THEOREM ModesTypeCorrect == ModesSpec => []ModesTypeOK
<1>1. ModesInit => ModesTypeOK
  <2> SUFFICES ASSUME ModesInit PROVE ModesTypeOK
      OBVIOUS
  <2>1. active \in BOOLEAN /\ accepting \in BOOLEAN
      BY Zenon DEF ModesInit
  <2>2. jobs \in Seq(Job)
      BY DEF ModesInit
  <2> QED
      BY <2>1, <2>2 DEF ModesInit, ModesTypeOK, NoDeadlines
<1> QED
    BY <1>1, ModesTypeStep, PTL DEF ModesSpec

-----------------------------------------------------------------------------
(* The queue ends with Poison *)

LEMMA PoisonStep == ModesTypeOK /\ PoisonLast /\ [ModesNext]_modesVars => PoisonLast'
<1> SUFFICES ASSUME ModesTypeOK, PoisonLast, [ModesNext]_modesVars PROVE PoisonLast'
    OBVIOUS
<1>0. jobs \in Seq(Job)
    BY DEF ModesTypeOK
<1>1. ASSUME UNCHANGED <<jobs, accepting, dispatcher>> PROVE PoisonLast'
    BY <1>1 DEF PoisonLast
<1>2. ASSUME NEW op, op # "poison", Takes(op), UNCHANGED <<accepting, dispatcher>>
      PROVE  PoisonLast'
  <2>1. /\ dispatcher = "running" /\ jobs # <<>> /\ Len(jobs) \in Nat
        /\ Len(jobs') = Len(jobs) - 1
        /\ \A i \in 1..Len(jobs') : jobs'[i] = jobs[i + 1]
        /\ jobs[1].op = op /\ jobs' \in Seq(Job)
        BY <1>0, <1>2, TakenJob DEF Takes
  <2>2. ASSUME ~accepting PROVE Len(jobs) > 1 /\ jobs[Len(jobs)].op = "poison"
        BY <1>0, <1>2, <2>1, <2>2 DEF PoisonLast
  <2>3. \A i \in 1..Len(jobs') : jobs'[i].op = "poison" => i = Len(jobs') /\ ~accepting'
        BY <1>2, <2>1 DEF PoisonLast
  <2>4. ~accepting' => jobs' # <<>> /\ jobs'[Len(jobs')].op = "poison"
        BY <1>2, <2>1, <2>2
  <2> QED
        BY <1>2, <2>1, <2>3, <2>4 DEF PoisonLast
<1>3. CASE RunStart \/ RunReturnsEarly \/ RunFinish \/ RunAdd \/ RunAddExpiring
             \/ RunRemove \/ RunClear
    BY <1>2, <1>3 DEF RunStart, RunReturnsEarly, RunFinish, RunAdd, RunAddExpiring,
                      RunRemove, RunClear
<1>4. CASE RunTick \/ ClockTick \/ TimerExpires \/ PosterTests \/ PosterEnqueues
    BY <1>1, <1>4 DEF RunTick, ClockTick, TimerExpires, PosterTests, PosterEnqueues
<1>5. CASE RunPoison
  <2>1. jobs # <<>> /\ jobs[1].op = "poison" /\ jobs' = Tail(jobs)
        BY <1>0, <1>5 DEF RunPoison, Takes
  <2>2. 1 \in 1..Len(jobs)
        BY <1>0, <2>1
  <2>3. Len(jobs) = 1 /\ ~accepting
        BY <2>1, <2>2 DEF PoisonLast
  <2>4. jobs' = <<>>
        BY <1>0, <2>1, <2>3
  <2> QED
        BY <1>5, <2>3, <2>4 DEF RunPoison, PoisonLast
<1>6. CASE \E j \in Job \ {[op |-> "poison"]} : PostApiJob(j)
  <2>1. PICK j \in Job \ {[op |-> "poison"]} : PostApiJob(j)
        BY <1>6
  <2>2. j.op # "poison"
        BY DEF Job
  <2>3. accepting /\ accepting' = accepting /\ dispatcher' = dispatcher
        BY <2>1 DEF PostApiJob
  <2>4. \A i \in 1..Len(jobs') : jobs'[i].op # "poison"
        BY <1>0, <2>1, <2>2, <2>3 DEF PostApiJob, PoisonLast
  <2> QED
        BY <2>3, <2>4 DEF PoisonLast
<1>7. CASE ShutdownCApiDispatcher
  <2>1. /\ accepting /\ ~accepting' /\ dispatcher' = dispatcher
        /\ jobs' = Append(jobs, [op |-> "poison"])
        BY <1>7 DEF ShutdownCApiDispatcher
  <2>2. /\ Len(jobs') = Len(jobs) + 1 /\ Len(jobs) \in Nat
        /\ jobs'[Len(jobs')].op = "poison" /\ jobs' # <<>>
        /\ \A i \in 1..Len(jobs) : jobs'[i] = jobs[i]
        BY <1>0, <2>1
  <2> QED
        BY <2>1, <2>2 DEF PoisonLast
<1>8. CASE DestroyHandle
    BY <1>8 DEF DestroyHandle, PoisonLast
<1>9. CASE UNCHANGED modesVars
    BY <1>1, <1>9 DEF modesVars
<1> QED
    BY <1>3, <1>4, <1>5, <1>6, <1>7, <1>8, <1>9 DEF ModesNext, Dispatch

-----------------------------------------------------------------------------
(* The timer covers every deadline *)

\* Every step either sets the timer anew for the deadlines it leaves, erases all
\* deadlines, or hands a pending expiry on: timer, handler, poster, tick.
LEMMA CoveredStep ==
    ModesTypeOK /\ PoisonLast /\ ExpiryCovered /\ [ModesNext]_modesVars => ExpiryCovered'
<1> SUFFICES ASSUME ModesTypeOK, PoisonLast, ExpiryCovered, [ModesNext]_modesVars,
                    accepting', (Expiring(deadlines) # {})'
             PROVE  Covered'
    BY DEF ExpiryCovered
<1>0. ModesTypeOK'
    BY ModesTypeStep
<1> USE DEF None
<1>1. ASSUME RescheduleModeExpiryTimer(deadlines') PROVE Covered'
    BY <1>0, <1>1, RescheduledCovers DEF ModesTypeOK, Covered, Expiring
<1>2. ASSUME deadlines' = NoDeadlines PROVE FALSE
    BY <1>2 DEF NoDeadlines, Expiring
<1>3. ASSUME UNCHANGED <<deadlines, timer, fired, posting, ticks, accepting>> PROVE Covered'
    BY <1>3 DEF ExpiryCovered, Covered, Expiring
<1>4. CASE RunStart \/ RunFinish \/ RunClear
    BY <1>2, <1>4 DEF RunStart, RunFinish, RunClear, SetGameStarted, SetGameFinished, ClearModes
<1>5. CASE RunReturnsEarly \/ RunAdd
    BY <1>3, <1>5 DEF RunReturnsEarly, RunAdd, AddMode, game, pool
<1>6. CASE RunAddExpiring
    BY <1>1, <1>6 DEF RunAddExpiring, AddModeExpiring
<1>7. CASE RunRemove
  <2>1. CASE Expiring(deadlines) # {}
        BY <1>1, <1>7, <2>1 DEF RunRemove, RemoveMode
  <2>2. CASE Expiring(deadlines) = {}
    <3>1. \A m \in ModeNames : deadlines'[m] = -1
          BY <1>7, <2>2 DEF RunRemove, RemoveMode, Expiring, ModesTypeOK
    <3> QED
          BY <3>1 DEF Expiring
  <2> QED
        BY <2>1, <2>2
<1>8. CASE RunTick
    BY <1>1, <1>2, <1>8 DEF RunTick, TickModeExpiries
<1>9. CASE RunPoison
    BY <1>3, <1>9 DEF RunPoison, game, pool
<1>10. CASE \E j \in Job \ {[op |-> "poison"]} : PostApiJob(j)
    BY <1>3, <1>10 DEF PostApiJob, game, pool
<1>11. CASE ShutdownCApiDispatcher
    BY <1>11 DEF ShutdownCApiDispatcher
<1>12. CASE DestroyHandle
    BY <1>12 DEF DestroyHandle, PoisonLast
<1>13. CASE ClockTick
  <2>1. accepting /\ fired' = fired /\ posting' = posting /\ ticks' = ticks
        BY <1>13 DEF ClockTick, pool
  <2>2. \A m \in ModeNames : /\ deadlines[m] \in Int
                             /\ deadlines'[m] = SecondLess(deadlines[m])
        BY <1>13 DEF ClockTick, ModesTypeOK, Seconds
  <2>3. Expiring(deadlines') = Expiring(deadlines)
        BY <2>2 DEF Expiring, SecondLess
  <2>4. Expiring(deadlines) # {} /\ Covered
        BY <2>1, <2>3 DEF ExpiryCovered, Expiring
  <2>5. ASSUME timer # -1, \A m \in Expiring(deadlines) : timer <= deadlines[m]
        PROVE  timer' # -1 /\ \A m \in Expiring(deadlines') : timer' <= deadlines'[m]
        BY <1>13, <2>2, <2>3, <2>5 DEF ClockTick, SecondLess, ModesTypeOK, Seconds, Expiring
  <2> QED
        BY <2>1, <2>4, <2>5 DEF Covered, Expiring
<1>14. CASE TimerExpires
    BY <1>14 DEF TimerExpires, Covered, ModesTypeOK
<1>15. CASE PosterTests
    BY <1>15 DEF PosterTests, Covered, ModesTypeOK, ExpiryCovered
<1>16. CASE PosterEnqueues
    BY <1>16 DEF PosterEnqueues, Covered, ModesTypeOK
<1>17. CASE UNCHANGED modesVars
    BY <1>3, <1>17 DEF modesVars, game, pool
<1> QED
    BY <1>4, <1>5, <1>6, <1>7, <1>8, <1>9, <1>10, <1>11, <1>12,
       <1>13, <1>14, <1>15, <1>16, <1>17 DEF ModesNext, Dispatch

-----------------------------------------------------------------------------
(* Modes and their deadlines agree *)

LEMMA ListedStep ==
    /\ ModesTypeOK /\ DeadlinesListed /\ NoModesBetweenGames /\ [ModesNext]_modesVars
    => DeadlinesListed' /\ NoModesBetweenGames'
<1> SUFFICES ASSUME ModesTypeOK, DeadlinesListed, NoModesBetweenGames, [ModesNext]_modesVars
             PROVE  DeadlinesListed' /\ NoModesBetweenGames'
    OBVIOUS
<1> USE DEF DeadlinesListed, NoModesBetweenGames, ModesTypeOK, None
<1>1. ASSUME UNCHANGED <<active, modes, deadlines>>
      PROVE  DeadlinesListed' /\ NoModesBetweenGames'
    BY <1>1
<1>2. ASSUME deadlines' = NoDeadlines, modes' = {}
      PROVE  DeadlinesListed' /\ NoModesBetweenGames'
    BY <1>2 DEF NoDeadlines
<1>3. CASE RunStart \/ RunFinish \/ RunClear
    BY <1>2, <1>3 DEF RunStart, RunFinish, RunClear, SetGameStarted, SetGameFinished, ClearModes
<1>4. CASE RunAdd
    BY <1>4 DEF RunAdd, AddMode
<1>5. CASE RunAddExpiring
    BY <1>5 DEF RunAddExpiring, AddModeExpiring
<1>6. CASE RunRemove
    BY <1>6 DEF RunRemove, RemoveMode
<1>7. CASE RunTick
    BY <1>7 DEF RunTick, TickModeExpiries, Due, NoDeadlines
<1>8. CASE ClockTick
    BY <1>8 DEF ClockTick, SecondLess, Seconds
<1>9. CASE RunReturnsEarly \/ RunPoison \/ (\E j \in Job \ {[op |-> "poison"]} : PostApiJob(j))
             \/ ShutdownCApiDispatcher \/ DestroyHandle \/ TimerExpires \/ PosterTests
             \/ PosterEnqueues \/ UNCHANGED modesVars
    BY <1>1, <1>9 DEF RunReturnsEarly, RunPoison, PostApiJob, ShutdownCApiDispatcher,
       DestroyHandle, TimerExpires, PosterTests, PosterEnqueues, modesVars, game
<1> QED
    BY <1>3, <1>4, <1>5, <1>6, <1>7, <1>8, <1>9 DEF ModesNext, Dispatch

LEMMA ModesInvariance == ModesSpec => []ModesIInv
<1>1. ModesInit => ModesIInv
  <2> SUFFICES ASSUME ModesInit PROVE ModesIInv
      OBVIOUS
  <2>1. active \in BOOLEAN /\ accepting \in BOOLEAN
      BY Zenon DEF ModesInit
  <2>2. jobs = <<>> /\ jobs \in Seq(Job) /\ Len(jobs) = 0
      BY DEF ModesInit
  <2>3. ModesTypeOK
      BY <2>1, <2>2 DEF ModesInit, ModesTypeOK, NoDeadlines
  <2>4. PoisonLast
      BY <2>2 DEF ModesInit, PoisonLast
  <2>5. ExpiryCovered /\ DeadlinesListed /\ NoModesBetweenGames
      BY DEF ModesInit, ExpiryCovered, Expiring, DeadlinesListed, NoModesBetweenGames, NoDeadlines
  <2> QED
      BY <2>3, <2>4, <2>5 DEF ModesIInv
<1>2. ModesIInv /\ [ModesNext]_modesVars => ModesIInv'
    BY ModesTypeStep, PoisonStep, CoveredStep, ListedStep DEF ModesIInv
<1> QED
    BY <1>1, <1>2, PTL DEF ModesSpec

\* While the handle is open, every expiring mode has the timer armed in time for
\* it, or a tick on its way: the expiry of a mode is never forgotten.
THEOREM ExpiryNeverForgotten == ModesSpec => []ExpiryCovered
BY ModesInvariance, PTL DEF ModesIInv

\* What the application asked for before destroying the handle has been done
\* when the C API thread ends.
THEOREM QueueIsDrained == ModesSpec => []CallsBeforeDestroyRun
<1>1. ModesIInv => CallsBeforeDestroyRun
    BY DEF ModesIInv, PoisonLast, CallsBeforeDestroyRun
<1> QED
    BY <1>1, ModesInvariance, PTL

-----------------------------------------------------------------------------
(* Refinement *)

\* A step of ModeExpiry is a step of ModeLease or leaves every lease as it is.
LEMMA LeaseStep == ModesIInv /\ [ModesNext]_modesVars => [Lease!Next]_leases
<1> SUFFICES ASSUME ModesIInv, [ModesNext]_modesVars PROVE Lease!Next \/ UNCHANGED leases
    OBVIOUS
<1> USE DEF None
<1>0. ModesTypeOK /\ DeadlinesListed /\ NoModesBetweenGames
    BY DEF ModesIInv
<1>1. ASSUME UNCHANGED <<modes, deadlines>> PROVE UNCHANGED leases
    BY <1>1 DEF leases, LeaseOf
<1>2. ASSUME modes' = {} PROVE Lease!Next
    BY <1>2 DEF leases, LeaseOf, Lease!Next, Lease!RemoveAll, Lease!Absent
<1>3. CASE RunStart \/ RunFinish \/ RunClear
    BY <1>2, <1>3 DEF RunStart, RunFinish, RunClear, SetGameStarted, SetGameFinished, ClearModes
<1>4. CASE RunAdd
  <2> DEFINE m == Head(jobs).mode
  <2>1. m \in ModeNames
        BY <1>0, <1>4, TakenJob, JobFields DEF RunAdd
  <2>2. modes' = modes \cup {m} /\ deadlines' = deadlines
        BY <1>4 DEF RunAdd, AddMode
  <2>3. CASE m \in modes
        BY <1>1, <2>2, <2>3
  <2>4. CASE m \notin modes
    <3>1. leases[m] = -2 /\ leases' = [leases EXCEPT ![m] = -1]
          BY <1>0, <2>1, <2>2, <2>4 DEF leases, LeaseOf, DeadlinesListed
    <3> QED
          BY <2>1, <3>1 DEF Lease!Next, Lease!Keep, Lease!Absent, Lease!Kept
  <2> QED
        BY <2>3, <2>4
<1>5. CASE RunAddExpiring
  <2> DEFINE m == Head(jobs).mode
             s == Head(jobs).duration
  <2>1. m \in ModeNames /\ s \in Durations
        BY <1>0, <1>5, TakenJob, JobFields DEF RunAddExpiring
  <2>2. /\ modes' = modes \cup {m}
        /\ deadlines' = [deadlines EXCEPT ![m] = NormalizeModeExpirySeconds(s)]
        BY <1>5 DEF RunAddExpiring, AddModeExpiring
  <2>3. NormalizeModeExpirySeconds(s) = Lease!Granted(s)
        BY <2>1, ModeExpiryAssumption DEF NormalizeModeExpirySeconds, Lease!Granted,
           MODE_EXPIRY_DEFAULT_SEC, MODE_EXPIRY_MAX_SEC
  <2>4. leases' = [leases EXCEPT ![m] = Lease!Granted(s)]
        BY <1>0, <2>1, <2>2, <2>3 DEF leases, LeaseOf, ModesTypeOK
  <2> QED
        BY <2>1, <2>4 DEF Lease!Next, Lease!Lease
<1>6. CASE RunRemove
  <2>1. Head(jobs).mode \in ModeNames
        BY <1>0, <1>6, TakenJob, JobFields DEF RunRemove
  <2>2. leases' = [leases EXCEPT ![Head(jobs).mode] = -2]
        BY <1>0, <1>6, <2>1 DEF RunRemove, RemoveMode, leases, LeaseOf, ModesTypeOK
  <2> QED
        BY <2>1, <2>2 DEF Lease!Next, Lease!Remove, Lease!Absent
<1>7. CASE RunTick
  <2>1. CASE active
    <3>1. leases' = [m \in ModeNames |-> IF leases[m] = 0 THEN -2 ELSE leases[m]]
          BY <1>0, <1>7, <2>1 DEF RunTick, TickModeExpiries, Due, leases, LeaseOf,
             DeadlinesListed, ModesTypeOK
    <3> QED
          BY <3>1 DEF Lease!Next, Lease!Expire, Lease!Absent
  <2>2. CASE ~active
        BY <1>0, <1>2, <1>7, <2>2 DEF RunTick, TickModeExpiries, NoModesBetweenGames
  <2> QED
        BY <2>1, <2>2
<1>8. CASE ClockTick
  <2>1. leases' = [m \in ModeNames |-> SecondLess(leases[m])]
        BY <1>8 DEF ClockTick, leases, LeaseOf, SecondLess
  <2> QED
        BY <2>1 DEF Lease!Next, Lease!SecondPasses, Lease!SecondLess, SecondLess
<1>9. CASE RunReturnsEarly \/ RunPoison \/ (\E j \in Job \ {[op |-> "poison"]} : PostApiJob(j))
             \/ ShutdownCApiDispatcher \/ DestroyHandle \/ TimerExpires \/ PosterTests
             \/ PosterEnqueues \/ UNCHANGED modesVars
    BY <1>1, <1>9 DEF RunReturnsEarly, RunPoison, PostApiJob, ShutdownCApiDispatcher,
       DestroyHandle, TimerExpires, PosterTests, PosterEnqueues, modesVars, game
<1> QED
    BY <1>3, <1>4, <1>5, <1>6, <1>7, <1>8, <1>9 DEF ModesNext, Dispatch

\* The modes of a game behave as ModeLease specifies, whatever the threads, late
\* ticks and rescheduled timers do: only a lease that has run out ends by itself.
THEOREM ModesImplementLeases == ModesSpec => ModesAreLeased
<1>1. ModesInit => Lease!Init
    BY DEF ModesInit, Lease!Init, Lease!Absent, leases, LeaseOf
<1> QED
    BY <1>1, LeaseStep, ModesInvariance, PTL DEF ModesSpec, ModesAreLeased, Lease!Spec

-----------------------------------------------------------------------------
(* Requests and pictures *)

Jobs == Top \cup Pair \cup Pic

-----------------------------------------------------------------------------
(* Queues of jobs *)

\* A job of q is for r; at most one is.
HasJob(q, r) == \E i \in DOMAIN q : Of(q[i], r)
Single(q, r) == \A i, j \in DOMAIN q : Of(q[i], r) /\ Of(q[j], r) => i = j

\* A download of url is in q.
HasDownload(q, url) == \E i \in DOMAIN q : IsDownload(q[i], url)

LEMMA Posted ==
    ASSUME NEW q \in Seq(Jobs), NEW job \in Jobs
    PROVE  /\ Append(q, job) \in Seq(Jobs)
           /\ \A r : HasJob(Append(q, job), r) <=> HasJob(q, r) \/ Of(job, r)
           /\ \A r : Single(q, r) /\ ~(HasJob(q, r) /\ Of(job, r)) => Single(Append(q, job), r)
           /\ \A u : HasDownload(Append(q, job), u) <=> HasDownload(q, u) \/ IsDownload(job, u)
<1>1. PICK n : n = Len(q)
    OBVIOUS
<1>2. PICK a : a = Append(q, job)
    OBVIOUS
<1>3. /\ a \in Seq(Jobs) /\ n \in Nat /\ DOMAIN q = 1..n /\ DOMAIN a = 1..(n + 1)
      /\ \A i \in 1..n : a[i] = q[i]
      /\ a[n + 1] = job
    BY <1>1, <1>2
<1>4. \A i \in DOMAIN a : i \in DOMAIN q \/ i = n + 1
    BY <1>3
<1>5. n + 1 \in DOMAIN a /\ \A i \in DOMAIN q : i \in DOMAIN a /\ i # n + 1
    BY <1>3
<1>6. \A i \in DOMAIN q : a[i] = q[i]
    BY <1>3
<1>7. \A r : HasJob(a, r) <=> HasJob(q, r) \/ Of(job, r)
    BY <1>3, <1>4, <1>5, <1>6 DEF HasJob
<1>8. \A u : HasDownload(a, u) <=> HasDownload(q, u) \/ IsDownload(job, u)
    BY <1>3, <1>4, <1>5, <1>6 DEF HasDownload
<1>9. ASSUME NEW r, Single(q, r), ~(HasJob(q, r) /\ Of(job, r))
      PROVE  Single(a, r)
    BY <1>3, <1>4, <1>6, <1>9 DEF Single, HasJob
<1> QED BY <1>2, <1>3, <1>7, <1>8, <1>9

LEMMA TakenOff ==
    ASSUME NEW q \in Seq(Jobs), q # <<>>
    PROVE  /\ Head(q) \in Jobs /\ Tail(q) \in Seq(Jobs)
           /\ \A r : HasJob(q, r) <=> Of(Head(q), r) \/ HasJob(Tail(q), r)
           /\ \A r : Single(q, r) => Single(Tail(q), r) /\ ~(Of(Head(q), r) /\ HasJob(Tail(q), r))
           /\ \A u : HasDownload(q, u) <=> IsDownload(Head(q), u) \/ HasDownload(Tail(q), u)
<1>1. PICK n : n = Len(q)
    OBVIOUS
<1>2. PICK t : t = Tail(q)
    OBVIOUS
<1>3. PICK h : h = Head(q)
    OBVIOUS
<1>4. /\ t \in Seq(Jobs) /\ h \in Jobs /\ n \in Nat /\ n >= 1
      /\ DOMAIN q = 1..n /\ DOMAIN t = 1..(n - 1)
      /\ \A i \in 1..(n - 1) : t[i] = q[i + 1]
      /\ q[1] = h
    BY <1>1, <1>2, <1>3
<1>5. \A i \in DOMAIN t : i + 1 \in DOMAIN q /\ i + 1 # 1 /\ t[i] = q[i + 1]
    BY <1>4
<1>6. \A i \in DOMAIN q : i # 1 => i - 1 \in DOMAIN t /\ t[i - 1] = q[i]
    BY <1>4
<1>7. 1 \in DOMAIN q
    BY <1>4
<1>8. \A r : HasJob(q, r) <=> Of(h, r) \/ HasJob(t, r)
    BY <1>4, <1>5, <1>6, <1>7 DEF HasJob
<1>9. \A u : HasDownload(q, u) <=> IsDownload(h, u) \/ HasDownload(t, u)
    BY <1>4, <1>5, <1>6, <1>7 DEF HasDownload
<1>10. ASSUME NEW r, Single(q, r)
       PROVE  Single(t, r) /\ ~(Of(h, r) /\ HasJob(t, r))
  <2>1. ~(Of(h, r) /\ HasJob(t, r))
      BY <1>4, <1>5, <1>7, <1>10 DEF Single, HasJob
  <2>2. \A i, j \in DOMAIN t : i + 1 = j + 1 => i = j
      BY <1>4
  <2>3. Single(t, r)
      BY <1>5, <1>10, <2>2 DEF Single
  <2> QED BY <2>1, <2>3
<1> QED BY <1>2, <1>3, <1>4, <1>8, <1>9, <1>10

-----------------------------------------------------------------------------
(* The picture cache *)

Entry == [url: Urls, full: BOOLEAN]

\* What the LRU cache is: no key twice, and no more than there is room for.
Lru(c) ==
    /\ c \in Seq(Entry) /\ Len(c) <= Capacity
    /\ \A i, j \in DOMAIN c : c[i].url = c[j].url => i = j

\* c has no entries but those of d.
From(c, d) == \A i \in DOMAIN c : \E j \in DOMAIN d : c[i] = d[j]

LEMMA Placed ==
    ASSUME NEW c, NEW url, Cached(c, url)
    PROVE  Place(c, url) \in DOMAIN c /\ c[Place(c, url)].url = url
BY DEF Cached, Place

LEMMA Removed ==
    ASSUME NEW c, Lru(c), NEW k \in DOMAIN c
    PROVE  /\ Lru(RemoveAt(c, k)) /\ Len(RemoveAt(c, k)) = Len(c) - 1
           /\ From(RemoveAt(c, k), c)
           /\ \A i \in DOMAIN RemoveAt(c, k) : RemoveAt(c, k)[i].url # c[k].url
<1>1. PICK n : n = Len(c)
    OBVIOUS
<1>2. c \in Seq(Entry) /\ n \in Nat /\ k \in 1..n /\ DOMAIN c = 1..n
    BY <1>1 DEF Lru
<1>3. PICK a : a = SubSeq(c, 1, k - 1)
    OBVIOUS
<1>4. PICK z : z = SubSeq(c, k + 1, n)
    OBVIOUS
<1>5. a \in Seq(Entry) /\ Len(a) = k - 1 /\ \A i \in 1..(k - 1) : a[i] = c[i]
    BY <1>1, <1>2, <1>3
<1>6. z \in Seq(Entry) /\ Len(z) = n - k /\ \A i \in 1..(n - k) : z[i] = c[i + k]
    BY <1>1, <1>2, <1>4
<1>7. PICK d : d = RemoveAt(c, k)
    OBVIOUS
<1>8. d = a \o z
    BY <1>1, <1>3, <1>4, <1>7 DEF RemoveAt
<1>9. d \in Seq(Entry) /\ Len(d) = n - 1 /\ DOMAIN d = 1..(n - 1)
  <2>1. d \in Seq(Entry) /\ Len(d) = Len(a) + Len(z)
    <3>1. a \in Seq(Entry) /\ z \in Seq(Entry)
        BY <1>5, <1>6
    <3> QED BY <1>8, <3>1, ConcatProperties
  <2>2. Len(d) = n - 1
      BY <1>2, <1>5, <1>6, <2>1
  <2> QED BY <2>1, <2>2
<1>10. \A i \in 1..(n - 1) : d[i] = c[IF i < k THEN i ELSE i + 1]
  <2> SUFFICES ASSUME NEW i \in 1..(n - 1) PROVE d[i] = c[IF i < k THEN i ELSE i + 1]
      OBVIOUS
  <2>1. CASE i < k
      BY <1>2, <1>5, <1>6, <1>8, <2>1
  <2>2. CASE ~(i < k)
    <3>1. d[i] = z[i - (k - 1)] /\ i - (k - 1) \in 1..(n - k)
        BY <1>2, <1>5, <1>6, <1>8, <2>2
    <3>2. (i - (k - 1)) + k = i + 1
        BY <1>2
    <3>3. d[i] = c[i + 1]
        BY <1>6, <3>1, <3>2
    <3> QED BY <2>2, <3>3
  <2> QED BY <2>1, <2>2
<1>11. \A i \in DOMAIN d : \E j \in DOMAIN c : j # k /\ d[i] = c[j]
       /\ j = (IF i < k THEN i ELSE i + 1)
    BY <1>2, <1>9, <1>10
<1>12. \A i, j \in DOMAIN d :
           (IF i < k THEN i ELSE i + 1) = (IF j < k THEN j ELSE j + 1) => i = j
    BY <1>2, <1>9
<1>13. From(d, c) /\ \A i \in DOMAIN d : d[i].url # c[k].url
    BY <1>11 DEF From, Lru
<1>14. \A i, j \in DOMAIN d : d[i].url = d[j].url => i = j
    BY <1>11, <1>12 DEF Lru
<1>15. Capacity \in Nat /\ Len(d) <= Capacity
    BY <1>1, <1>2, <1>9, ServicesAssumption DEF Lru
<1> QED BY <1>1, <1>7, <1>9, <1>13, <1>14, <1>15 DEF Lru

LEMMA Erased ==
    ASSUME NEW c, Lru(c), NEW url
    PROVE  /\ Lru(Erase(c, url)) /\ From(Erase(c, url), c)
           /\ \A i \in DOMAIN Erase(c, url) : Erase(c, url)[i].url # url
           /\ Cached(c, url) => Len(Erase(c, url)) = Len(c) - 1
<1>1. CASE Cached(c, url)
    BY <1>1, Placed, Removed DEF Erase
<1>2. CASE ~Cached(c, url)
    BY <1>2 DEF Erase, Cached, From
<1> QED BY <1>1, <1>2

LEMMA PutInFront ==
    ASSUME NEW e \in Entry, NEW d, Lru(d), Len(d) < Capacity,
           \A i \in DOMAIN d : d[i].url # e.url
    PROVE  /\ Lru(<<e>> \o d)
           /\ \A i \in DOMAIN (<<e>> \o d) :
                 (<<e>> \o d)[i] = e \/ \E j \in DOMAIN d : (<<e>> \o d)[i] = d[j]
<1>1. PICK n : n = Len(d)
    OBVIOUS
<1>2. d \in Seq(Entry) /\ n \in Nat /\ DOMAIN d = 1..n /\ Capacity \in Nat
    BY <1>1, ServicesAssumption DEF Lru
<1>3. PICK c : c = <<e>> \o d
    OBVIOUS
<1>4. /\ c \in Seq(Entry) /\ Len(c) = n + 1 /\ DOMAIN c = 1..(n + 1)
      /\ c[1] = e /\ \A i \in 2..(n + 1) : c[i] = d[i - 1]
    BY <1>1, <1>2, <1>3
<1>5. \A i \in DOMAIN c : i = 1 \/ (i - 1 \in DOMAIN d /\ c[i] = d[i - 1])
    BY <1>2, <1>4
<1>6. \A i, j \in DOMAIN c : c[i].url = c[j].url => i = j
  <2>1. \A i, j \in DOMAIN c : i - 1 = j - 1 => i = j
      BY <1>4
  <2> QED BY <1>4, <1>5, <2>1 DEF Lru
<1>7. Len(c) <= Capacity
    BY <1>1, <1>2, <1>4
<1> QED BY <1>3, <1>4, <1>5, <1>6, <1>7 DEF Lru

\* Put stores the entry, and keeps others or drops the last one.
LEMMA PutStores ==
    ASSUME NEW c, Lru(c), NEW url \in Urls, NEW full \in BOOLEAN
    PROVE  /\ Lru(Put(c, url, full))
           /\ \A i \in DOMAIN Put(c, url, full) :
                 \/ Put(c, url, full)[i] = [url |-> url, full |-> full]
                 \/ \E j \in DOMAIN c : Put(c, url, full)[i] = c[j] /\ c[j].url # url
<1> DEFINE e == [url |-> url, full |-> full]
<1>1. PICK rest : rest = IF Cached(c, url) THEN Erase(c, url)
                         ELSE IF Len(c) = Capacity THEN Front(c) ELSE c
    OBVIOUS
<1>2. Put(c, url, full) = <<e>> \o rest
    BY <1>1 DEF Put
<1>3. c \in Seq(Entry) /\ Capacity \in Nat \ {0} /\ Len(c) \in Nat /\ Len(c) <= Capacity
    BY ServicesAssumption DEF Lru
<1>4. /\ Lru(rest) /\ Len(rest) < Capacity /\ From(rest, c)
      /\ \A i \in DOMAIN rest : rest[i].url # url
  <2>1. CASE Cached(c, url)
      BY <1>1, <1>3, <2>1, Erased
  <2>2. CASE ~Cached(c, url) /\ Len(c) = Capacity
    <3>1. rest = Front(c)
        BY <1>1, <2>2
    <3>2. /\ rest \in Seq(Entry) /\ Len(rest) = Len(c) - 1
          /\ \A i \in DOMAIN rest : i \in DOMAIN c /\ rest[i] = c[i]
        BY <1>3, <2>2, <3>1 DEF Front
    <3>3. Len(rest) < Capacity /\ Len(rest) <= Capacity
        BY <1>3, <2>2, <3>2
    <3> QED BY <2>2, <3>2, <3>3 DEF Lru, From, Cached
  <2>3. CASE ~Cached(c, url) /\ Len(c) # Capacity
    <3>1. rest = c /\ Len(c) < Capacity
        BY <1>1, <1>3, <2>3
    <3> QED BY <2>3, <3>1 DEF From, Cached
  <2> QED BY <2>1, <2>2, <2>3
<1>5. e \in Entry /\ e.url = url
    BY DEF Entry
<1> HIDE DEF e
<1>6. /\ Lru(<<e>> \o rest)
      /\ \A i \in DOMAIN (<<e>> \o rest) :
            (<<e>> \o rest)[i] = e \/ \E j \in DOMAIN rest : (<<e>> \o rest)[i] = rest[j]
    BY <1>4, <1>5, PutInFront
<1>7. \A i \in DOMAIN (<<e>> \o rest) :
         (<<e>> \o rest)[i] = e \/ \E j \in DOMAIN c : (<<e>> \o rest)[i] = c[j] /\ c[j].url # url
    BY <1>4, <1>6 DEF From
<1> QED BY <1>2, <1>6, <1>7 DEF e

LEMMA PutTrue ==
    ASSUME NEW c, Lru(c), NEW url \in Urls
    PROVE  /\ Lru(Put(c, url, TRUE))
           /\ \A i \in DOMAIN Put(c, url, TRUE) :
                 \/ Put(c, url, TRUE)[i].full
                 \/ \E j \in DOMAIN c : Put(c, url, TRUE)[i] = c[j] /\ c[j].url # url
<1>1. PICK full \in BOOLEAN : full = TRUE
    OBVIOUS
<1>2. PICK d : d = Put(c, url, full)
    OBVIOUS
<1>3. PICK e : e = [url |-> url, full |-> full]
    OBVIOUS
<1>4. e.full = full
    BY <1>3
<1>5. /\ Lru(d)
      /\ \A i \in DOMAIN d : d[i] = e \/ \E j \in DOMAIN c : d[i] = c[j] /\ c[j].url # url
    BY <1>2, <1>3, PutStores
<1>6. \A i \in DOMAIN d : d[i].full = full \/ \E j \in DOMAIN c : d[i] = c[j] /\ c[j].url # url
    BY <1>4, <1>5
<1>7. d = Put(c, url, TRUE)
    BY <1>1, <1>2
<1> QED BY <1>1, <1>5, <1>6, <1>7

LEMMA PutFalse ==
    ASSUME NEW c, Lru(c), NEW url \in Urls
    PROVE  /\ Lru(Put(c, url, FALSE))
           /\ \A i \in DOMAIN Put(c, url, FALSE) :
                 \/ Put(c, url, FALSE)[i].url = url
                 \/ \E j \in DOMAIN c : Put(c, url, FALSE)[i] = c[j]
<1>1. PICK full \in BOOLEAN : full = FALSE
    OBVIOUS
<1>2. PICK d : d = Put(c, url, full)
    OBVIOUS
<1>3. PICK e : e = [url |-> url, full |-> full]
    OBVIOUS
<1>4. e.url = url
    BY <1>3
<1>5. /\ Lru(d)
      /\ \A i \in DOMAIN d : d[i] = e \/ \E j \in DOMAIN c : d[i] = c[j] /\ c[j].url # url
    BY <1>2, <1>3, PutStores
<1>6. \A i \in DOMAIN d : d[i].url = url \/ \E j \in DOMAIN c : d[i] = c[j]
    BY <1>4, <1>5
<1>7. d = Put(c, url, FALSE)
    BY <1>1, <1>2
<1> QED BY <1>5, <1>6, <1>7

-----------------------------------------------------------------------------
(* The invariant *)

\* Request r is at one place at most, or answered; before its call it is nowhere.
Once(r) ==
    /\ Single(strand, r)
    /\ \A a, b \in expired : Of(a, r) /\ Of(b, r) => a = b
    /\ HasJob(strand, r) => /\ \A a \in expired : ~Of(a, r)
                            /\ ~Of(deferral, r) /\ ~Of(run.job, r) /\ answers[r] = 0
    /\ (\E a \in expired : Of(a, r)) => ~Of(deferral, r) /\ ~Of(run.job, r) /\ answers[r] = 0
    /\ Of(deferral, r) => ~Of(run.job, r) /\ answers[r] = 0
    /\ Of(run.job, r) => answers[r] = 0
    /\ r \notin called => /\ ~HasJob(strand, r) /\ \A a \in expired : ~Of(a, r)
                          /\ ~Of(deferral, r) /\ ~Of(run.job, r) /\ answers[r] = 0

\* A download of url is queued or runs.
Downloading(url) == HasDownload(strand, url) \/ IsDownload(run.job, url)

EmptyEntriesLoad == \A i \in DOMAIN cache : ~cache[i].full => Downloading(cache[i].url)

ServicesIInv == ServicesTypeOK /\ (\A r \in Requests : Once(r)) /\ EmptyEntriesLoad

WaitType ==
    /\ strand \in Seq(Jobs)
    /\ run \in [job: Jobs \cup {Idle}, at: {"start", "get", "tested", "asleep"}]
    /\ deferral \in Top \cup {Idle}
    /\ expired \subseteq Top
    /\ answers \in [Requests -> 0..1]
    /\ called \subseteq Requests

WaitInv == WaitType /\ \A r \in Requests : Once(r)

-----------------------------------------------------------------------------
(* Requests *)

LEMMA JobKinds ==
    /\ \A j \in Top \cup Pair : /\ j.id \in Requests
                                /\ \A r : Of(j, r) <=> j.id = r
                                /\ \A u : ~IsDownload(j, u)
    /\ \A j \in Pic : /\ j.url \in Urls /\ \A r : ~Of(j, r)
                      /\ \A u : IsDownload(j, u) <=> j.url = u
    /\ (\A r : ~Of(Idle, r)) /\ (\A u : ~IsDownload(Idle, u))
BY DEF Top, Pair, Pic, Idle, Of, IsDownload

LEMMA RunKinds ==
    ASSUME WaitType
    PROVE  /\ \A at : Runs("top", at) => run.job \in Top
           /\ \A at : Runs("pair", at) => run.job \in Pair
           /\ \A at : Runs("picture", at) => run.job \in Pic
BY DEF WaitType, Runs, Jobs, Top, Pair, Pic, Idle

\* Nothing that Once speaks of changes.
Still == UNCHANGED <<strand, deferral, expired, answers, called>> /\ run'.job = run.job

LEMMA StillOnce ==
    ASSUME \A r \in Requests : Once(r), Still
    PROVE  \A r \in Requests : Once(r)'
BY DEF Once, Still

\* A new request is posted.
LEMMA NewRequest ==
    ASSUME WaitInv, NEW job \in Top \cup Pair, job.id \notin called,
           strand' = Append(strand, job), called' = called \cup {job.id},
           UNCHANGED <<run, deferral, expired, answers>>
    PROVE  WaitInv'
<1>1. job \in Jobs /\ job.id \in Requests /\ \A r : Of(job, r) <=> job.id = r
    BY JobKinds DEF Jobs
<1>2. /\ strand' \in Seq(Jobs)
      /\ \A r : HasJob(strand', r) <=> HasJob(strand, r) \/ Of(job, r)
      /\ \A r : Single(strand, r) /\ ~(HasJob(strand, r) /\ Of(job, r)) => Single(strand', r)
    BY <1>1, Posted DEF WaitInv, WaitType
<1>3. WaitType'
    BY <1>1, <1>2 DEF WaitInv, WaitType
<1>4. ASSUME NEW r \in Requests
      PROVE  Once(r)'
  <2>1. Once(r)
      BY DEF WaitInv
  <2>2. CASE r = job.id
      BY <1>1, <1>2, <2>1, <2>2 DEF Once
  <2>3. CASE r # job.id
      BY <1>1, <1>2, <2>1, <2>3 DEF Once
  <2> QED BY <2>2, <2>3
<1> QED BY <1>3, <1>4 DEF WaitInv

\* Another job is posted that no request waits for.
LEMMA OtherPosted ==
    ASSUME WaitInv, NEW job \in Pic, strand' = Append(strand, job),
           UNCHANGED <<run, deferral, expired, answers, called>>
    PROVE  WaitInv'
<1>1. job \in Jobs /\ \A r : ~Of(job, r)
    BY JobKinds DEF Jobs
<1>2. /\ strand' \in Seq(Jobs)
      /\ \A r : HasJob(strand', r) <=> HasJob(strand, r)
      /\ \A r : Single(strand, r) => Single(strand', r)
    BY <1>1, Posted DEF WaitInv, WaitType
<1> QED BY <1>2 DEF WaitInv, WaitType, Once

\* The handler that runs has called the callback and returned.
LEMMA AnsweredAndDone ==
    ASSUME WaitInv, run.job \in Top \cup Pair, Callback(run.job.id), Done,
           UNCHANGED <<strand, deferral, expired, called>>
    PROVE  WaitInv'
<1>1. PICK q : q = run.job.id
    OBVIOUS
<1>2. q \in Requests /\ \A r : Of(run.job, r) <=> q = r
    BY <1>1, JobKinds
<1>3. answers[q] = 0 /\ Once(q)
    BY <1>2 DEF WaitInv, Once
<1>4. answers' = [answers EXCEPT ![q] = 1]
    BY <1>1, <1>3 DEF Callback
<1>5. run'.job = Idle /\ run' \in [job: Jobs \cup {Idle}, at: {"start", "get", "tested", "asleep"}]
    BY DEF Done
<1>6. WaitType'
    BY <1>2, <1>4, <1>5 DEF WaitInv, WaitType
<1>7. \A r : ~Of(run'.job, r)
    BY <1>5, JobKinds
<1>8. ASSUME NEW r \in Requests
      PROVE  Once(r)'
  <2>1. Once(r) /\ answers \in [Requests -> 0..1]
      BY DEF WaitInv, WaitType
  <2>2. CASE r = q
      BY <1>2, <1>4, <1>7, <2>1, <2>2 DEF Once
  <2>3. CASE r # q
    <3>1. answers'[r] = answers[r]
        BY <1>4, <2>1, <2>3
    <3> QED BY <1>7, <2>1, <3>1 DEF Once
  <2> QED BY <2>2, <2>3
<1> QED BY <1>6, <1>8 DEF WaitInv

-----------------------------------------------------------------------------
LEMMA WaitStep ==
    ASSUME WaitInv, todo \subseteq Players \X Urls, [ServicesNext]_servicesVars
    PROVE  WaitInv'
<1>1. WaitType /\ \A r \in Requests : Once(r)
    BY DEF WaitInv
<1>2. ASSUME Still, run'.at \in {"start", "get", "tested", "asleep"},
             run' = [run EXCEPT !.at = run'.at]
      PROVE  WaitInv'
  <2>1. WaitType'
      BY <1>1, <1>2 DEF Still, WaitType
  <2> QED BY <1>1, <1>2, <2>1, StillOnce DEF WaitInv
<1>3. ASSUME UNCHANGED <<wait, client>>
      PROVE  WaitInv'
  <2>1. Still /\ run' = run
      BY <1>3 DEF Still, wait, client
  <2>2. WaitType'
      BY <1>1, <1>3 DEF wait, client, WaitType
  <2> QED BY <1>1, <2>1, <2>2, StillOnce DEF WaitInv
<1>4. ASSUME NEW r \in Requests, RequestPairCode(r)
      PROVE  WaitInv'
  <2>1. r \notin called /\ called' = called \cup {r} /\ UNCHANGED <<run, deferral, expired>>
      BY <1>4 DEF RequestPairCode
  <2>2. CASE code
    <3>1. answers' = [answers EXCEPT ![r] = @ + 1] /\ UNCHANGED strand
        BY <1>4, <2>2 DEF RequestPairCode, Callback
    <3>2. answers[r] = 0 /\ Once(r)
        BY <1>1, <2>1 DEF Once
    <3>3. answers' = [answers EXCEPT ![r] = 1]
        BY <3>1, <3>2
    <3>4. WaitType'
        BY <1>1, <2>1, <3>1, <3>3 DEF WaitType
    <3>5. ASSUME NEW s \in Requests
          PROVE  Once(s)'
      <4>1. Once(s) /\ answers \in [Requests -> 0..1]
          BY <1>1 DEF WaitType
      <4>2. CASE s = r
          BY <1>1, <2>1, <3>1, <3>3, <4>1, <4>2 DEF Once
      <4>3. CASE s # r
        <5>1. answers'[s] = answers[s] /\ (s \in called' <=> s \in called)
            BY <2>1, <3>3, <4>1, <4>3
        <5> QED BY <2>1, <3>1, <4>1, <5>1 DEF Once
      <4> QED BY <4>2, <4>3
    <3> QED BY <3>4, <3>5 DEF WaitInv
  <2>3. CASE ~code
    <3>1. strand' = Append(strand, [kind |-> "pair", id |-> r]) /\ UNCHANGED answers
        BY <1>4, <2>3 DEF RequestPairCode, PostQueue
    <3>2. [kind |-> "pair", id |-> r] \in Pair
        BY DEF Pair
    <3> QED BY <2>1, <3>1, <3>2, NewRequest
  <2> QED BY <2>2, <2>3
<1>5. ASSUME NEW r \in Requests, NEW v \in BOOLEAN, RequestTopScores(r, v)
      PROVE  WaitInv'
  <2> DEFINE job == [kind |-> "top", id |-> r, valid |-> v, attempt |-> 0]
  <2>1. /\ r \notin called /\ called' = called \cup {r} /\ strand' = Append(strand, job)
        /\ UNCHANGED <<run, deferral, expired, answers>>
      BY <1>5 DEF RequestTopScores, PostQueue
  <2>2. job \in Top /\ job.id = r
      BY ServicesAssumption DEF Top
  <2> HIDE DEF job
  <2> QED BY <2>1, <2>2, NewRequest
<1>6. CASE StrandTakes
  <2>1. /\ run.job = Idle /\ strand # <<>>
        /\ run' = [job |-> Head(strand), at |-> "start"] /\ strand' = Tail(strand)
        /\ UNCHANGED <<deferral, expired, answers, called>>
      BY <1>6 DEF StrandTakes, client
  <2>2. strand \in Seq(Jobs)
      BY <1>1 DEF WaitType
  <2>3. /\ Head(strand) \in Jobs /\ strand' \in Seq(Jobs) /\ run'.job = Head(strand)
        /\ \A r : HasJob(strand, r) <=> Of(run'.job, r) \/ HasJob(strand', r)
        /\ \A r : Single(strand, r) => Single(strand', r) /\ ~(Of(run'.job, r) /\ HasJob(strand', r))
      BY <2>1, <2>2, TakenOff
  <2>4. WaitType'
      BY <1>1, <2>1, <2>3 DEF WaitType
  <2>5. \A r \in Requests : Once(r)'
      BY <1>1, <2>1, <2>3 DEF Once
  <2> QED BY <2>4, <2>5 DEF WaitInv
<1>7. CASE TopScoresFails \/ TopScoresReply
  <2>1. /\ run.job \in Top /\ Callback(run.job.id) /\ Done
        /\ UNCHANGED <<strand, deferral, expired, called>>
      BY <1>1, <1>7, RunKinds DEF TopScoresFails, TopScoresReply
  <2> QED BY <2>1, AnsweredAndDone
<1>8. CASE TopScoresDefers
  <2>1. /\ run.job \in Top /\ run.job.attempt < MaxDefer
        /\ deferral' = [run.job EXCEPT !.attempt = @ + 1]
        /\ Done /\ UNCHANGED <<strand, expired, answers, called>>
      BY <1>1, <1>8, RunKinds DEF TopScoresDefers, client
  <2>2. deferral' \in Top /\ deferral'.id = run.job.id
      BY <2>1, ServicesAssumption DEF Top
  <2>3. \A r : Of(deferral', r) <=> Of(run.job, r)
      BY ZenonT(40), <2>1, <2>2, JobKinds
  <2>4. run'.job = Idle /\ run' \in [job: Jobs \cup {Idle}, at: {"start", "get", "tested", "asleep"}]
      BY <2>1 DEF Done
  <2>5. \A r : ~Of(run'.job, r)
      BY <2>4, JobKinds
  <2>6. WaitType'
      BY <1>1, <2>1, <2>2, <2>4 DEF WaitType
  <2>7. \A r \in Requests : Once(r)'
      BY <1>1, <2>1, <2>3, <2>5 DEF Once
  <2> QED BY <2>6, <2>7 DEF WaitInv
<1>9. CASE PairCodeTests
  <2>1. run.job \in Pair /\ UNCHANGED <<strand, deferral, expired, called>>
      BY <1>1, <1>9, RunKinds DEF PairCodeTests
  <2>2. CASE code \/ Stopped
    <3>1. Callback(run.job.id) /\ Done
        BY <1>9, <2>2 DEF PairCodeTests
    <3> QED BY <2>1, <3>1, AnsweredAndDone
  <2>3. CASE ~(code \/ Stopped)
    <3>1. run' = [run EXCEPT !.at = "tested"] /\ UNCHANGED answers
        BY <1>9, <2>3 DEF PairCodeTests
    <3> QED BY <1>1, <1>2, <2>1, <3>1 DEF Still, WaitType
  <2> QED BY <2>2, <2>3
<1>10. CASE TopScoresGets \/ PairCodeSleeps
  <2>1. /\ UNCHANGED <<strand, deferral, expired, answers, called>>
        /\ run' = [run EXCEPT !.at = "get"] \/ run' = [run EXCEPT !.at = "asleep"]
      BY <1>10 DEF TopScoresGets, PairCodeSleeps, client
  <2> QED BY <1>1, <1>2, <2>1 DEF Still, WaitType
<1>11. CASE PictureDownloaded
  <2>1. run.job \in Pic /\ Done /\ UNCHANGED <<strand, deferral, expired, answers, called>>
      BY <1>1, <1>11, RunKinds DEF PictureDownloaded, client
  <2>2. run'.job = Idle /\ run' \in [job: Jobs \cup {Idle}, at: {"start", "get", "tested", "asleep"}]
      BY <2>1 DEF Done
  <2>3. \A r : ~Of(run'.job, r)
      BY <2>2, JobKinds
  <2>4. WaitType'
      BY <1>1, <2>1, <2>2 DEF WaitType
  <2>5. \A r \in Requests : Once(r)'
      BY <1>1, <2>1, <2>3 DEF Once
  <2> QED BY <2>4, <2>5 DEF WaitInv
<1>12. CASE CodeArrives \/ NotifyStop
  <2>1. UNCHANGED <<strand, deferral, expired, answers, called>> /\ Woken
      BY <1>12 DEF CodeArrives, NotifyStop, client
  <2>2. run' = [run EXCEPT !.at = "start"] \/ run' = run
      BY <2>1 DEF Woken
  <2>3. CASE run' = run
      BY <1>3, <2>1, <2>3 DEF wait, client
  <2>4. CASE run' = [run EXCEPT !.at = "start"]
      BY <1>1, <1>2, <2>1, <2>4 DEF Still, WaitType
  <2> QED BY <2>2, <2>3, <2>4
<1>13. CASE DeferralExpires
  <2>1. /\ deferral # Idle /\ expired' = expired \cup {deferral} /\ deferral' = Idle
        /\ UNCHANGED <<strand, run, answers, called>>
      BY <1>13 DEF DeferralExpires, client
  <2>2. \A r : ~Of(deferral', r)
      BY <2>1, JobKinds
  <2>3. WaitType'
      BY <1>1, <2>1 DEF WaitType
  <2>4. \A r \in Requests : Once(r)'
      BY <1>1, <2>1, <2>2 DEF Once
  <2> QED BY <2>3, <2>4 DEF WaitInv
<1>14. ASSUME NEW job \in expired, TimerHandler(job)
       PROVE  WaitInv'
  <2>1. /\ expired' = expired \ {job} /\ strand' = Append(strand, job)
        /\ UNCHANGED <<run, deferral, answers, called>>
      BY <1>14 DEF TimerHandler, PostQueue, client
  <2>2. job \in Jobs /\ strand \in Seq(Jobs)
      BY <1>1, <1>14 DEF WaitType, Jobs
  <2>3. /\ strand' \in Seq(Jobs)
        /\ \A r : HasJob(strand', r) <=> HasJob(strand, r) \/ Of(job, r)
        /\ \A r : Single(strand, r) /\ ~(HasJob(strand, r) /\ Of(job, r)) => Single(strand', r)
      BY <2>1, <2>2, Posted
  <2>4. WaitType'
      BY <1>1, <2>1, <2>3 DEF WaitType
  <2>5. \A r \in Requests : Once(r)'
      BY <1>1, <1>14, <2>1, <2>3 DEF Once
  <2> QED BY <2>4, <2>5 DEF WaitInv
<1>15. CASE StartDownload
  <2>1. PICK t \in todo : /\ strand' = Append(strand, [kind |-> "picture", player |-> t[1], url |-> t[2]])
                          /\ UNCHANGED <<run, deferral, expired, answers, called>>
      BY <1>15 DEF StartDownload, PostQueue, client
  <2>2. [kind |-> "picture", player |-> t[1], url |-> t[2]] \in Pic
      BY DEF Pic
  <2> QED BY <2>1, <2>2, OtherPosted
<1>16. CASE WorkerStops
  <2>1. deferral' = Idle /\ UNCHANGED <<strand, run, expired, answers, called>>
      BY <1>16 DEF WorkerStops, client
  <2>2. \A r : ~Of(deferral', r)
      BY <2>1, JobKinds
  <2>3. WaitType'
      BY <1>1, <2>1 DEF WaitType
  <2>4. \A r \in Requests : Once(r)'
      BY <1>1, <2>1, <2>2 DEF Once
  <2> QED BY <2>3, <2>4 DEF WaitInv
<1>17. (\E c \in [status: Statuses, ready: BOOLEAN] : ContextChanges(c))
       \/ (\E prof \in Lists : ProcessProfiles(prof))
       \/ (\E url \in Urls : GetPicture(url)) \/ SetStop \/ UNCHANGED servicesVars
          => UNCHANGED <<wait, client>>
    BY DEF ContextChanges, ProcessProfiles, GetPicture, SetStop, servicesVars
<1> QED
    BY <1>3, <1>4, <1>5, <1>6, <1>7, <1>8, <1>9, <1>10, <1>11, <1>12, <1>13, <1>14, <1>15, <1>16,
       <1>17 DEF ServicesNext, Handler, Shutdown

-----------------------------------------------------------------------------
(* Pictures *)

PictureType ==
    /\ profiles \in [Players -> Urls \cup {NoUrl}]
    /\ Lru(cache)
    /\ todo \subseteq Players \X Urls

\* Every download stays, and the cache.
DownloadsStay == UNCHANGED cache /\ \A u : Downloading(u) => Downloading(u)'

LEMMA StillLoading ==
    ASSUME EmptyEntriesLoad, DownloadsStay
    PROVE  EmptyEntriesLoad'
BY DEF EmptyEntriesLoad, DownloadsStay

\* The cache and the downloads in a step.
LEMMA DownloadsStep ==
    ASSUME WaitType, PictureType, EmptyEntriesLoad, [ServicesNext]_servicesVars
    PROVE  Lru(cache') /\ EmptyEntriesLoad'
<1>1. ASSUME UNCHANGED cache
      PROVE  Lru(cache')
    BY <1>1 DEF PictureType
<1>2. ASSUME UNCHANGED cache, \A u : HasDownload(strand, u) => HasDownload(strand', u),
             run'.job = run.job \/ (\A u : ~IsDownload(run.job, u))
      PROVE  Lru(cache') /\ EmptyEntriesLoad'
    BY <1>1, <1>2, StillLoading DEF DownloadsStay, Downloading
<1>3. ASSUME NEW job \in Jobs, strand' = Append(strand, job)
      PROVE  \A u : HasDownload(strand', u) <=> HasDownload(strand, u) \/ IsDownload(job, u)
    BY <1>3, Posted DEF WaitType
<1>4. ASSUME NEW r \in Requests, RequestPairCode(r)
      PROVE  Lru(cache') /\ EmptyEntriesLoad'
  <2>1. [kind |-> "pair", id |-> r] \in Jobs
      BY DEF Pair, Jobs
  <2>2. UNCHANGED <<run, cache>>
      BY <1>4 DEF RequestPairCode, pictures
  <2>3. strand' = strand \/ strand' = Append(strand, [kind |-> "pair", id |-> r])
      BY <1>4 DEF RequestPairCode, PostQueue
  <2> QED BY <1>2, <1>3, <2>1, <2>2, <2>3
<1>5. ASSUME NEW r \in Requests, NEW v \in BOOLEAN, RequestTopScores(r, v)
      PROVE  Lru(cache') /\ EmptyEntriesLoad'
  <2> DEFINE job == [kind |-> "top", id |-> r, valid |-> v, attempt |-> 0]
  <2>1. job \in Jobs
      BY ServicesAssumption DEF Top, Jobs
  <2>2. UNCHANGED <<run, cache>> /\ strand' = Append(strand, job)
      BY <1>5 DEF RequestTopScores, PostQueue, pictures
  <2> HIDE DEF job
  <2> QED BY <1>2, <1>3, <2>1, <2>2
<1>6. CASE StrandTakes
  <2>1. /\ strand # <<>> /\ run' = [job |-> Head(strand), at |-> "start"] /\ run.job = Idle
        /\ strand' = Tail(strand) /\ UNCHANGED cache
      BY <1>6 DEF StrandTakes, pictures
  <2>2. \A u : HasDownload(strand, u) <=> IsDownload(Head(strand), u) \/ HasDownload(strand', u)
      BY <2>1, TakenOff DEF WaitType
  <2>3. \A u : ~IsDownload(run.job, u)
      BY <2>1, JobKinds
  <2>4. run'.job = Head(strand)
      BY <2>1
  <2> QED BY <1>1, <2>1, <2>2, <2>3, <2>4, StillLoading DEF DownloadsStay, Downloading
<1>7. CASE TopScoresFails \/ TopScoresDefers \/ TopScoresGets \/ TopScoresReply \/ PairCodeTests
           \/ PairCodeSleeps
  <2>1. UNCHANGED <<strand, cache>>
      BY <1>7 DEF TopScoresFails, TopScoresDefers, TopScoresGets, TopScoresReply, PairCodeTests,
             PairCodeSleeps, pictures
  <2>2. run.job \in Top \cup Pair
      BY <1>7, RunKinds DEF TopScoresFails, TopScoresDefers, TopScoresGets, TopScoresReply,
             PairCodeTests, PairCodeSleeps
  <2> QED BY <1>2, <2>1, <2>2, JobKinds
<1>8. CASE PictureDownloaded
  <2>1. /\ run.job \in Pic /\ UNCHANGED strand
        /\ cache' = Put(cache, run.job.url, TRUE) \/ cache' = Erase(cache, run.job.url)
      BY <1>8, RunKinds DEF PictureDownloaded
  <2>2. PICK url : url = run.job.url
      OBVIOUS
  <2>3. url \in Urls /\ \A u : IsDownload(run.job, u) <=> url = u
      BY <2>1, <2>2, JobKinds
  <2>4. /\ Lru(cache')
        /\ \A i \in DOMAIN cache' :
              \/ cache'[i].full
              \/ \E j \in DOMAIN cache : cache'[i] = cache[j] /\ cache[j].url # url
    <3>1. CASE cache' = Put(cache, url, TRUE)
        BY ZenonT(40), <2>3, <3>1, PutTrue DEF PictureType
    <3>2. CASE cache' = Erase(cache, url)
      <4>1. /\ Lru(cache') /\ From(cache', cache)
            /\ \A i \in DOMAIN cache' : cache'[i].url # url
          BY <3>2, Erased DEF PictureType
      <4> QED BY <4>1 DEF From
    <3> QED BY <2>1, <2>2, <3>1, <3>2
  <2>5. ASSUME NEW i \in DOMAIN cache', ~cache'[i].full
        PROVE  HasDownload(strand', cache'[i].url)
    <3>1. PICK j \in DOMAIN cache : cache'[i] = cache[j] /\ cache[j].url # url
        BY <2>4, <2>5
    <3>2. Downloading(cache[j].url)
        BY <2>5, <3>1 DEF EmptyEntriesLoad
    <3>3. HasDownload(strand, cache[j].url)
        BY <2>3, <3>1, <3>2 DEF Downloading
    <3> QED BY <2>1, <3>1, <3>3
  <2> QED BY <2>4, <2>5 DEF EmptyEntriesLoad, Downloading
<1>9. CASE CodeArrives \/ NotifyStop
  <2>1. UNCHANGED <<strand, cache>> /\ Woken
      BY <1>9 DEF CodeArrives, NotifyStop, pictures
  <2>2. run'.job = run.job
      BY <2>1 DEF Woken, WaitType
  <2> QED BY <1>2, <2>1, <2>2
<1>10. CASE DeferralExpires \/ SetStop \/ WorkerStops \/ UNCHANGED servicesVars
           \/ (\E c \in [status: Statuses, ready: BOOLEAN] : ContextChanges(c))
           \/ (\E prof \in Lists : ProcessProfiles(prof))
  <2>1. UNCHANGED <<strand, run, cache>>
      BY <1>10 DEF DeferralExpires, SetStop, WorkerStops, ContextChanges, ProcessProfiles, servicesVars,
             wait, pictures
  <2> QED BY <1>2, <2>1
<1>11. ASSUME NEW job \in expired, TimerHandler(job)
       PROVE  Lru(cache') /\ EmptyEntriesLoad'
  <2>1. job \in Jobs
      BY DEF WaitType, Jobs
  <2>2. UNCHANGED <<run, cache>> /\ strand' = Append(strand, job)
      BY <1>11 DEF TimerHandler, PostQueue, pictures
  <2> QED BY <1>2, <1>3, <2>1, <2>2
<1>12. CASE StartDownload
  <2>1. PICK t \in todo :
            /\ strand' = Append(strand, [kind |-> "picture", player |-> t[1], url |-> t[2]])
            /\ cache' = Put(cache, t[2], FALSE) /\ UNCHANGED run
      BY <1>12 DEF StartDownload, PostQueue
  <2>2. PICK job : job = [kind |-> "picture", player |-> t[1], url |-> t[2]]
      OBVIOUS
  <2>3. PICK url : url = t[2]
      OBVIOUS
  <2>4. url \in Urls /\ job \in Pic /\ job \in Jobs /\ IsDownload(job, url)
    <3>1. url \in Urls /\ job \in Pic /\ job.url = url
        BY <2>2, <2>3 DEF PictureType, Pic
    <3> QED BY <3>1, JobKinds DEF Jobs
  <2>5. \A u : HasDownload(strand', u) <=> HasDownload(strand, u) \/ IsDownload(job, u)
      BY <1>3, <2>1, <2>2, <2>4
  <2>6. /\ Lru(cache')
        /\ \A i \in DOMAIN cache' :
              cache'[i].url = url \/ \E j \in DOMAIN cache : cache'[i] = cache[j]
      BY ZenonT(40), <2>1, <2>3, <2>4, PutFalse DEF PictureType
  <2>7. ASSUME NEW i \in DOMAIN cache', ~cache'[i].full
        PROVE  HasDownload(strand', cache'[i].url) \/ IsDownload(run'.job, cache'[i].url)
    <3>1. CASE cache'[i].url = url
        BY <2>4, <2>5, <3>1
    <3>2. ASSUME NEW j \in DOMAIN cache, cache'[i] = cache[j]
          PROVE  HasDownload(strand', cache'[i].url) \/ IsDownload(run'.job, cache'[i].url)
        BY <2>1, <2>5, <2>7, <3>2 DEF EmptyEntriesLoad, Downloading
    <3> QED BY <2>6, <3>1, <3>2
  <2> QED BY <2>6, <2>7 DEF EmptyEntriesLoad, Downloading
<1>13. ASSUME NEW url \in Urls, GetPicture(url)
       PROVE  Lru(cache') /\ EmptyEntriesLoad'
  <2>1. Cached(cache, url) /\ UNCHANGED <<strand, run>> /\ Lru(cache)
        /\ cache' = <<cache[Place(cache, url)]>> \o Erase(cache, url)
      BY <1>13 DEF GetPicture, wait, PictureType
  <2>2. PICK k : k = Place(cache, url)
      OBVIOUS
  <2>3. k \in DOMAIN cache /\ cache[k].url = url
      BY <2>1, <2>2, Placed
  <2>4. PICK e : e = cache[k]
      OBVIOUS
  <2>5. e \in Entry /\ e.url = url
      BY <2>1, <2>3, <2>4 DEF Lru
  <2>6. PICK d : d = Erase(cache, url)
      OBVIOUS
  <2>7. /\ Lru(d) /\ From(d, cache) /\ Len(d) = Len(cache) - 1
        /\ \A i \in DOMAIN d : d[i].url # e.url
      BY <2>1, <2>5, <2>6, Erased
  <2>8. Len(d) < Capacity
      BY <2>1, <2>7, ServicesAssumption DEF Lru
  <2>9. /\ Lru(cache')
        /\ \A i \in DOMAIN cache' : cache'[i] = e \/ \E j \in DOMAIN d : cache'[i] = d[j]
      BY <2>1, <2>2, <2>4, <2>5, <2>6, <2>7, <2>8, PutInFront
  <2>10. \A i \in DOMAIN cache' : \E j \in DOMAIN cache : cache'[i] = cache[j]
      BY <2>3, <2>4, <2>7, <2>9 DEF From
  <2>11. \A u : Downloading(u)' <=> Downloading(u)
      BY <2>1 DEF Downloading
  <2> QED BY <2>9, <2>10, <2>11 DEF EmptyEntriesLoad
<1> QED
    BY <1>4, <1>5, <1>6, <1>7, <1>8, <1>9, <1>10, <1>11, <1>12, <1>13
    DEF ServicesNext, Handler, Shutdown

-----------------------------------------------------------------------------
(* Types *)

OtherType ==
    /\ context \in [status: Statuses, ready: BOOLEAN]
    /\ code \in BOOLEAN
    /\ stop \in {"no", "set", "notified", "joining"}
    /\ budget \in [calls: Nat, replies: Nat, changes: Nat]
    /\ superseded \subseteq Requests
    /\ cancelled \subseteq Requests
    /\ missed \in BOOLEAN

\* The sets of the invariant are the parts of TypeOK.
LEMMA TypeParts == ServicesTypeOK <=> WaitType /\ PictureType /\ OtherType
BY DEF ServicesTypeOK, WaitType, PictureType, OtherType, Jobs, Lru, Entry

LEMMA TodoStep ==
    ASSUME PictureType, [ServicesNext]_servicesVars
    PROVE  profiles' \in [Players -> Urls \cup {NoUrl}] /\ todo' \subseteq Players \X Urls
<1>1. ASSUME NEW prof \in Lists, ProcessProfiles(prof)
      PROVE  profiles' \in [Players -> Urls \cup {NoUrl}] /\ todo' \subseteq Players \X Urls
  <2>1. prof \in [Players -> Urls \cup {NoUrl}] /\ profiles' = prof /\ todo' = PicturesToDownload(prof)
      BY <1>1, ServicesAssumption DEF ProcessProfiles
  <2>2. PicturesToDownload(prof) \subseteq Players \X Urls
      BY <2>1 DEF PicturesToDownload
  <2> QED BY <2>1, <2>2
<1>2. CASE StartDownload
    BY <1>2 DEF StartDownload, PictureType
<1>3. CASE UNCHANGED <<profiles, todo>>
    BY <1>3 DEF PictureType
<1>4. (\A prof \in Lists : ~ProcessProfiles(prof)) /\ ~StartDownload => UNCHANGED <<profiles, todo>>
    BY DEF ServicesNext, Handler, Shutdown, RequestPairCode, RequestTopScores, StrandTakes,
           TopScoresFails,
           TopScoresDefers, TopScoresGets, TopScoresReply, PairCodeTests, PairCodeSleeps,
           PictureDownloaded, CodeArrives, DeferralExpires, TimerHandler, ContextChanges, GetPicture,
           SetStop, NotifyStop, WorkerStops, servicesVars, pictures
<1> QED BY <1>1, <1>2, <1>3, <1>4

LEMMA OtherStep ==
    ASSUME WaitType, OtherType, [ServicesNext]_servicesVars
    PROVE  OtherType'
<1>1. CASE UNCHANGED <<context, code, stop, budget, ghosts>>
    BY <1>1 DEF OtherType, ghosts
<1>2. ASSUME NEW r \in Requests, RequestPairCode(r) \/ \E v \in BOOLEAN : RequestTopScores(r, v)
      PROVE  OtherType'
  <2>1. budget.calls > 0 /\ budget' = [budget EXCEPT !.calls = @ - 1]
        /\ UNCHANGED <<context, code, stop, superseded, cancelled, missed>>
      BY <1>2 DEF RequestPairCode, RequestTopScores, ghosts
  <2>2. budget' \in [calls: Nat, replies: Nat, changes: Nat]
      BY <2>1 DEF OtherType
  <2> QED BY <2>1, <2>2 DEF OtherType
<1>3. CASE TopScoresDefers
  <2>1. UNCHANGED <<context, code, stop, budget, cancelled, missed>>
      BY <1>3 DEF TopScoresDefers
  <2>2. superseded' \subseteq Requests
      BY <1>3, JobKinds DEF TopScoresDefers, OtherType, WaitType
  <2> QED BY <2>1, <2>2 DEF OtherType
<1>4. CASE CodeArrives
    BY <1>4 DEF CodeArrives, OtherType, ghosts
<1>5. ASSUME NEW c \in [status: Statuses, ready: BOOLEAN], ContextChanges(c)
      PROVE  OtherType'
    BY <1>5 DEF ContextChanges, OtherType, ghosts
<1>6. ASSUME NEW prof \in Lists, ProcessProfiles(prof)
      PROVE  OtherType'
    BY <1>6 DEF ProcessProfiles, OtherType, ghosts
<1>7. CASE SetStop
    BY <1>7 DEF SetStop, OtherType, ghosts
<1>8. CASE NotifyStop
  <2>1. missed' \in BOOLEAN
      BY <1>8 DEF NotifyStop, Runs
  <2> QED BY <1>8, <2>1 DEF NotifyStop, OtherType
<1>9. CASE WorkerStops
  <2>1. cancelled' \subseteq Requests
      BY <1>9, JobKinds DEF WorkerStops, OtherType, WaitType
  <2> QED BY <1>9, <2>1 DEF WorkerStops, OtherType
<1>10. StrandTakes \/ TopScoresFails \/ TopScoresGets \/ TopScoresReply \/ PairCodeTests
         \/ PairCodeSleeps \/ PictureDownloaded \/ DeferralExpires \/ StartDownload
         \/ (\E job \in expired : TimerHandler(job)) \/ (\E url \in Urls : GetPicture(url))
         \/ UNCHANGED servicesVars => UNCHANGED <<context, code, stop, budget, ghosts>>
    BY DEF StrandTakes, TopScoresFails, TopScoresGets, TopScoresReply, PairCodeTests,
           PairCodeSleeps, PictureDownloaded, DeferralExpires, StartDownload, TimerHandler,
           GetPicture, servicesVars
<1> QED
    BY <1>1, <1>2, <1>3, <1>4, <1>5, <1>6, <1>7, <1>8, <1>9, <1>10 DEF ServicesNext, Handler, Shutdown

-----------------------------------------------------------------------------
(* The theorems *)

LEMMA ServicesInitIInv == ServicesInit => ServicesIInv
<1> SUFFICES ASSUME ServicesInit PROVE ServicesIInv
    OBVIOUS
<1>1. WaitType
  <2>1. run \in [job: Jobs \cup {Idle}, at: {"start", "get", "tested", "asleep"}]
      BY DEF ServicesInit
  <2> QED BY <2>1 DEF ServicesInit, WaitType
<1>2. PictureType
  <2>1. Len(<<>>) <= Capacity
      BY ServicesAssumption
  <2> QED BY <2>1 DEF ServicesInit, PictureType, Lru
<1>3. OtherType
  <2>1. budget \in [calls: Nat, replies: Nat, changes: Nat]
      BY ServicesAssumption DEF ServicesInit
  <2>2. context \in [status: Statuses, ready: BOOLEAN]
      BY DEF ServicesInit, Statuses
  <2> QED BY <2>1, <2>2 DEF ServicesInit, OtherType
<1>4. \A r \in Requests : Once(r)
  <2>1. \A r : ~Of(deferral, r) /\ ~Of(run.job, r)
      BY JobKinds DEF ServicesInit
  <2> QED BY <2>1 DEF ServicesInit, Once, Single, HasJob
<1>5. EmptyEntriesLoad
    BY DEF ServicesInit, EmptyEntriesLoad
<1> QED BY <1>1, <1>2, <1>3, <1>4, <1>5, TypeParts DEF ServicesIInv

LEMMA ServicesInvariance == ServicesSpec => []ServicesIInv
<1>1. ServicesIInv /\ [ServicesNext]_servicesVars => ServicesIInv'
  <2> SUFFICES ASSUME ServicesIInv, [ServicesNext]_servicesVars PROVE ServicesIInv'
      OBVIOUS
  <2>1. WaitType /\ PictureType /\ OtherType /\ WaitInv /\ EmptyEntriesLoad
      BY TypeParts DEF ServicesIInv, WaitInv
  <2>2. WaitInv'
      BY <2>1, WaitStep DEF PictureType
  <2>3. PictureType' /\ EmptyEntriesLoad'
      BY <2>1, DownloadsStep, TodoStep DEF PictureType
  <2>4. OtherType'
      BY <2>1, OtherStep
  <2>5. (ServicesTypeOK <=> WaitType /\ PictureType /\ OtherType)'
      BY DEF ServicesTypeOK, WaitType, PictureType, OtherType, Jobs, Lru, Entry
  <2> QED BY <2>2, <2>3, <2>4, <2>5 DEF ServicesIInv, WaitInv
<1> QED BY <1>1, ServicesInitIInv, PTL DEF ServicesSpec

\* The LRU cache keeps to its capacity and has no key twice, and everything else has its
\* type, for any capacity and any sequence of puts, gets and removals (LRUCache).
THEOREM ServicesTypeCorrect == ServicesSpec => []ServicesTypeOK
<1>1. ServicesIInv => ServicesTypeOK
    BY DEF ServicesIInv
<1> QED BY <1>1, ServicesInvariance, PTL

LEMMA AtMostOne ==
    ASSUME NEW S, \A x, y \in S : x = y
    PROVE  /\ IsFiniteSet(S) /\ Cardinality(S) \in {0, 1}
           /\ S = {} => Cardinality(S) = 0
<1>1. CASE S = {}
    BY <1>1, FS_EmptySet
<1>2. CASE S # {}
  <2>1. PICK x : S = {x}
      BY <1>2
  <2> QED BY <1>2, <2>1, FS_Singleton
<1> QED BY <1>1, <1>2

\* A request moves between the strand, the timer and its handlers, and is answered once, for
\* any number of requests and deferrals (requestPairCode, requestTopScoresImpl).
THEOREM RequestsAnsweredOnce == ServicesSpec => []AnsweredOnce
<1>1. ASSUME ServicesIInv, NEW r \in Requests
      PROVE  Waits(r) + answers[r] <= 1
  <2> DEFINE S == {i \in DOMAIN strand : Of(strand[i], r)}
             E == {job \in expired : Of(job, r)}
  <2>1. Once(r) /\ answers[r] \in {0, 1}
      BY <1>1 DEF ServicesIInv, ServicesTypeOK
  <2>2. Cardinality(S) \in {0, 1} /\ (S = {} => Cardinality(S) = 0)
      BY <2>1, AtMostOne DEF Once, Single
  <2>3. Cardinality(E) \in {0, 1} /\ (E = {} => Cardinality(E) = 0)
      BY <2>1, AtMostOne DEF Once
  <2>4. S # {} <=> HasJob(strand, r)
      BY DEF HasJob
  <2>5. E # {} <=> \E a \in expired : Of(a, r)
      OBVIOUS
  <2>6. Waits(r) = Cardinality(S) + Cardinality(E) + (IF Of(deferral, r) THEN 1 ELSE 0)
                   + (IF Of(run.job, r) THEN 1 ELSE 0)
      BY DEF Waits
  <2> HIDE DEF S, E
  <2>7. CASE S # {}
      BY <2>1, <2>2, <2>3, <2>4, <2>5, <2>6, <2>7 DEF Once
  <2>8. CASE S = {} /\ E # {}
      BY <2>1, <2>2, <2>3, <2>5, <2>6, <2>8 DEF Once
  <2>9. CASE S = {} /\ E = {}
      BY <2>1, <2>2, <2>3, <2>6, <2>9 DEF Once
  <2> QED BY <2>7, <2>8, <2>9
<1>2. ServicesIInv => AnsweredOnce
    BY <1>1 DEF AnsweredOnce
<1> QED BY <1>2, ServicesInvariance, PTL

\* A picture with an empty entry is being downloaded, for any capacity, pictures and
\* failures (processScoresAndPlayersProfiles, setPicture, removePicture).
THEOREM EmptyEntriesAreLoading == ServicesSpec => []PlaceholderIsDownloading
<1>1. ASSUME ServicesIInv, NEW i \in DOMAIN cache, ~cache[i].full
      PROVE  \E job \in Range(strand) \cup {run.job} : IsDownload(job, cache[i].url)
  <2>1. HasDownload(strand, cache[i].url) \/ IsDownload(run.job, cache[i].url)
      BY <1>1 DEF ServicesIInv, EmptyEntriesLoad, Downloading
  <2>2. \A k \in DOMAIN strand : strand[k] \in Range(strand)
      BY DEF Range
  <2> QED BY <2>1, <2>2 DEF HasDownload
<1>2. ServicesIInv => PlaceholderIsDownloading
    BY <1>1 DEF PlaceholderIsDownloading
<1> QED BY <1>2, ServicesInvariance, PTL
=============================================================================
