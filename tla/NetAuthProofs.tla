---------------------------- MODULE NetAuthProofs ----------------------------
(***************************************************************************)
(* Theorems about NetAuth, for any number of threads, retries, requests    *)
(* and disturbances.                                                       *)
(***************************************************************************)
EXTENDS NetAuth, FiniteSetTheorems, SequenceTheorems, TLAPS

\* A task as the code can leave it: a timer's handler has not begun, an authentication
\* task is in its own stages, the lock is only waited for by a normal authentication,
\* and a request that is not over has a try left.
GoodTask ==
    {t \in Task : /\ t.kind = "refresh" => t.pc = "begin"
                  /\ t.kind = "auth" => t.pc \in AuthStages
                  /\ t.pc = "lock" => t.normal
                  /\ t.pc # "callback" => t.tries < NumRetries}

Good ==
    /\ status \in Statuses
    /\ {refreshing, locked, stop, timer, tokenValid, paired, misled} \subseteq BOOLEAN
    /\ keys \in {"unresolved", "ready", "none"}
    /\ pool \in Seq(GoodTask)
    /\ news \in SUBSET {"paired", "unpaired"}
    /\ budget \in [requests: 0..MaxRequests, disturbances: 0..MaxDisturbances]

-----------------------------------------------------------------------------
(* The operators on the pool *)

LEMMA WithoutProperties ==
    ASSUME NEW S, pool \in Seq(S), NEW i \in DOMAIN pool
    PROVE  /\ Without(i) \in Seq(S)
           /\ Len(Without(i)) = Len(pool) - 1
           /\ DOMAIN Without(i) = 1..(Len(pool) - 1)
           /\ \A j \in DOMAIN Without(i) :
                Without(i)[j] = IF j < i THEN pool[j] ELSE pool[j + 1]
<1> DEFINE n == Len(pool)
           a == SubSeq(pool, 1, i - 1)
           b == SubSeq(pool, i + 1, n)
<1>0. n \in Nat /\ DOMAIN pool = 1..n /\ i \in 1..n
    OBVIOUS
<1>1. a \in Seq(S) /\ Len(a) = i - 1 /\ \A j \in 1..(i - 1) : a[j] = pool[j]
    BY <1>0
<1>2. b \in Seq(S) /\ Len(b) = n - i /\ \A j \in 1..(n - i) : b[j] = pool[j + i]
    BY <1>0
<1>3. Without(i) = a \o b
    BY DEF Without
<1> HIDE DEF a, b
<1>4. /\ a \o b \in Seq(S)
      /\ Len(a \o b) = Len(a) + Len(b)
      /\ \A j \in 1..(Len(a) + Len(b)) :
           (a \o b)[j] = IF j <= Len(a) THEN a[j] ELSE b[j - Len(a)]
    BY <1>1, <1>2, ConcatProperties
<1>5. Len(a \o b) = n - 1 /\ DOMAIN (a \o b) = 1..(n - 1)
  <2>1. Len(a) + Len(b) = n - 1
      BY <1>0, <1>1, <1>2
  <2>2. DOMAIN (a \o b) = 1..Len(a \o b)
      BY <1>4
  <2> QED
      BY <1>4, <2>1, <2>2
<1>6. ASSUME NEW j \in 1..(n - 1)
      PROVE  (a \o b)[j] = IF j < i THEN pool[j] ELSE pool[j + 1]
  <2>1. CASE j < i
      BY <1>0, <1>1, <1>2, <1>4, <2>1
  <2>2. CASE ~(j < i)
    <3>1. (a \o b)[j] = b[j - (i - 1)] /\ j - (i - 1) \in 1..(n - i)
        BY <1>0, <1>1, <1>2, <1>4, <2>2
    <3>2. j - (i - 1) + i = j + 1
        BY <1>0
    <3> QED
        BY <1>2, <2>2, <3>1, <3>2
  <2> QED
      BY <2>1, <2>2
<1> QED
    BY <1>3, <1>4, <1>5, <1>6

\* A task that sleeps may be woken; otherwise it is the same.
Like(t, u) ==
    /\ t.kind = u.kind /\ t.normal = u.normal
    /\ t.pc = u.pc \/ (u.pc = "asleep" /\ t.pc = "wait")

LEMMA WokenProperties ==
    ASSUME NEW p \in Seq(GoodTask)
    PROVE  /\ Woken(p) \in Seq(GoodTask)
           /\ DOMAIN Woken(p) = DOMAIN p
           /\ \A j \in DOMAIN p : Like(Woken(p)[j], p[j])
           /\ \A j \in DOMAIN p : p[j].pc # "asleep" => Woken(p)[j] = p[j]
<1>1. \A t \in GoodTask : t.pc = "asleep" =>
        /\ [t EXCEPT !.pc = "wait"] \in GoodTask
        /\ [t EXCEPT !.pc = "wait"].kind = t.kind
        /\ [t EXCEPT !.pc = "wait"].normal = t.normal
        /\ [t EXCEPT !.pc = "wait"].pc = "wait"
    BY DEF GoodTask, Task, RequestStages, AuthStages
<1>2. DOMAIN p = 1..Len(p) /\ \A j \in DOMAIN p : p[j] \in GoodTask
    OBVIOUS
<1>3. \A j \in DOMAIN p : Woken(p)[j] \in GoodTask
    BY <1>1, <1>2 DEF Woken
<1>4. Woken(p) \in [1..Len(p) -> GoodTask]
    BY <1>2, <1>3 DEF Woken
<1> QED
    BY <1>1, <1>2, <1>4 DEF Woken, Like

\* Where the task at j is once the one at i has been edited or, if it is over, dropped.
Place(i, drop, j) == IF drop /\ j > i THEN j - 1 ELSE j

\* q has every task of the pool but the one at i, which may be dropped, and no others but
\* the edited one and new ones.
Follows(i, drop, new, q) ==
    /\ \A j \in DOMAIN pool \ {i} : /\ Place(i, drop, j) \in DOMAIN q
                                    /\ Like(q[Place(i, drop, j)], pool[j])
    /\ \A k \in DOMAIN q : \/ \E j \in DOMAIN pool \ {i} : k = Place(i, drop, j)
                           \/ ~drop /\ k = i
                           \/ \E t \in new : Like(q[k], t)

\* The task at i is over, or it has gone on to one of these stages.
Leaves(i, new, q) == Follows(i, TRUE, new, q)

Moves(i, stages, new, q) ==
    /\ Follows(i, FALSE, new, q)
    /\ i \in DOMAIN q
    /\ q[i].kind = pool[i].kind /\ q[i].normal = pool[i].normal /\ q[i].pc \in stages

LEMMA FollowsSelf ==
    ASSUME pool \in Seq(GoodTask)
    PROVE  Follows(0, FALSE, {}, pool)
BY DEF Follows, Place, Like

LEMMA FollowsWith ==
    ASSUME pool \in Seq(GoodTask), NEW i \in DOMAIN pool, NEW t \in GoodTask
    PROVE  /\ With(i, t) \in Seq(GoodTask)
           /\ DOMAIN With(i, t) = DOMAIN pool
           /\ With(i, t)[i] = t
           /\ Follows(i, FALSE, {}, With(i, t))
<1>1. With(i, t) \in Seq(GoodTask) /\ DOMAIN With(i, t) = DOMAIN pool /\ With(i, t)[i] = t
    BY DEF With
<1>2. \A j \in DOMAIN pool \ {i} : With(i, t)[j] = pool[j]
    BY DEF With
<1> QED
    BY <1>1, <1>2 DEF Follows, Place, Like

LEMMA FollowsWithout ==
    ASSUME pool \in Seq(GoodTask), NEW i \in DOMAIN pool
    PROVE  Without(i) \in Seq(GoodTask) /\ Leaves(i, {}, Without(i))
<1>1. /\ Without(i) \in Seq(GoodTask)
      /\ DOMAIN Without(i) = 1..(Len(pool) - 1)
      /\ \A j \in DOMAIN Without(i) : Without(i)[j] = IF j < i THEN pool[j] ELSE pool[j + 1]
    BY WithoutProperties
<1>2. Len(pool) \in Nat /\ DOMAIN pool = 1..Len(pool)
    OBVIOUS
<1>3. ASSUME NEW j \in DOMAIN pool \ {i}
      PROVE  Place(i, TRUE, j) \in DOMAIN Without(i) /\ Without(i)[Place(i, TRUE, j)] = pool[j]
  <2>1. CASE j < i
      BY <1>1, <1>2, <2>1 DEF Place
  <2>2. CASE j > i
    <3>1. Place(i, TRUE, j) = j - 1 /\ j - 1 \in 1..(Len(pool) - 1) /\ ~(j - 1 < i)
        BY <1>2, <2>2 DEF Place
    <3>2. j - 1 + 1 = j
        BY <1>2
    <3> QED
        BY <1>1, <3>1, <3>2
  <2>3. j < i \/ j > i
      BY <1>2
  <2> QED
      BY <2>1, <2>2, <2>3
<1>4. ASSUME NEW k \in DOMAIN Without(i)
      PROVE  \E j \in DOMAIN pool \ {i} : k = Place(i, TRUE, j)
  <2>1. CASE k < i
      BY <1>1, <1>2, <2>1 DEF Place
  <2>2. CASE ~(k < i)
    <3>1. k + 1 \in DOMAIN pool \ {i} /\ k = Place(i, TRUE, k + 1)
        BY <1>1, <1>2, <2>2 DEF Place
    <3> QED
        BY <3>1
  <2> QED
      BY <2>1, <2>2
<1> QED
    BY <1>1, <1>3, <1>4 DEF Leaves, Follows, Like

LEMMA FollowsWoken ==
    ASSUME NEW q \in Seq(GoodTask), NEW i, NEW drop, NEW new, Follows(i, drop, new, q)
    PROVE  Follows(i, drop, new, Woken(q))
<1>1. DOMAIN Woken(q) = DOMAIN q /\ \A j \in DOMAIN q : Like(Woken(q)[j], q[j])
    BY WokenProperties
<1>2. \A t, u, v : Like(t, u) /\ Like(u, v) => Like(t, v)
    BY DEF Like
<1> QED
    BY <1>1, <1>2 DEF Follows

LEMMA FollowsAppend ==
    ASSUME NEW q \in Seq(GoodTask), NEW t \in GoodTask, NEW i, NEW drop, NEW new,
           Follows(i, drop, new, q)
    PROVE  /\ Append(q, t) \in Seq(GoodTask)
           /\ Follows(i, drop, new \cup {t}, Append(q, t))
           /\ DOMAIN q \subseteq DOMAIN Append(q, t)
           /\ \A j \in DOMAIN q : Append(q, t)[j] = q[j]
<1>1. /\ Append(q, t) \in Seq(GoodTask)
      /\ DOMAIN Append(q, t) = DOMAIN q \cup {Len(q) + 1}
      /\ \A j \in DOMAIN q : Append(q, t)[j] = q[j]
      /\ Append(q, t)[Len(q) + 1] = t
    BY AppendProperties
<1>2. Like(t, t)
    BY DEF Like
<1> QED
    BY <1>1, <1>2 DEF Follows

LEMMA NewTaskGood ==
    /\ NewTask("auth", "begin") \in GoodTask /\ NewTask("refresh", "begin") \in GoodTask
    /\ \A kind \in {"object", "request", "unpair"} : NewTask(kind, "wait") \in GoodTask
BY AuthAssumption DEF NewTask, GoodTask, Task, RequestStages, AuthStages, Errors

\* A task that is replaced by one of its kind.
LEMMA WithMoves ==
    ASSUME pool \in Seq(GoodTask), NEW i \in DOMAIN pool, NEW t \in GoodTask,
           t.kind = pool[i].kind, t.normal = pool[i].normal, NEW stages, t.pc \in stages
    PROVE  With(i, t) \in Seq(GoodTask) /\ Moves(i, stages, {}, With(i, t))
BY FollowsWith DEF Moves

LEMMA GotoMoves ==
    ASSUME pool \in Seq(GoodTask), NEW i \in DOMAIN pool, NEW stage \in RequestStages \cup AuthStages,
           pool[i].kind # "refresh", pool[i].kind = "auth" => stage \in AuthStages,
           pool[i].pc # "callback", stage # "lock"
    PROVE  Goto(i, stage) \in Seq(GoodTask) /\ Moves(i, {stage}, {}, Goto(i, stage))
<1> DEFINE t == [pool[i] EXCEPT !.pc = stage]
<1>1. pool[i] \in GoodTask
    OBVIOUS
<1>2. t \in GoodTask /\ t.kind = pool[i].kind /\ t.normal = pool[i].normal /\ t.pc = stage
    BY <1>1 DEF GoodTask, Task
<1> QED
    BY <1>2, WithMoves DEF Goto

LEMMA AgainMoves ==
    ASSUME pool \in Seq(GoodTask), NEW i \in DOMAIN pool,
           pool[i].kind \notin {"auth", "refresh"}, pool[i].pc # "callback"
    PROVE  Again(i) \in Seq(GoodTask) /\ Moves(i, {"wait", "callback"}, {}, Again(i))
<1> DEFINE n == pool[i].tries + 1
           t == [pool[i] EXCEPT !.tries = n, !.pc = IF n < NumRetries THEN "wait" ELSE "callback"]
<1>1. pool[i] \in GoodTask
    OBVIOUS
<1>2. n \in 0..NumRetries
    BY <1>1, AuthAssumption DEF GoodTask, Task
<1>3. /\ t \in GoodTask /\ t.kind = pool[i].kind /\ t.normal = pool[i].normal
      /\ t.pc \in {"wait", "callback"}
    BY <1>1, <1>2 DEF GoodTask, Task, RequestStages
<1>4. Again(i) = With(i, t)
    BY DEF Again
<1> HIDE DEF t
<1> QED
    BY <1>3, <1>4, WithMoves

\* The task at i is over or back in the loop of its request.
Returns(i, new, q) == Leaves(i, new, q) \/ Moves(i, {"wait", "callback"}, new, q)

LEMMA ReturnReturns ==
    ASSUME pool \in Seq(GoodTask), NEW i \in DOMAIN pool, pool[i].kind # "refresh",
           pool[i].pc # "callback"
    PROVE  Return(i) \in Seq(GoodTask) /\ Returns(i, {}, Return(i))
BY FollowsWithout, AgainMoves DEF Return, Returns

LEMMA ReturnsWoken ==
    ASSUME NEW q \in Seq(GoodTask), NEW i, NEW new, Returns(i, new, q)
    PROVE  Woken(q) \in Seq(GoodTask) /\ Returns(i, new, Woken(q))
<1>1. CASE Leaves(i, new, q)
    BY <1>1, FollowsWoken, WokenProperties DEF Leaves, Returns
<1>2. CASE Moves(i, {"wait", "callback"}, new, q)
    BY <1>2, FollowsWoken, WokenProperties DEF Moves, Returns
<1> QED
    BY <1>1, <1>2 DEF Returns

LEMMA ReturnsAppend ==
    ASSUME NEW q \in Seq(GoodTask), NEW t \in GoodTask, NEW i, NEW new, Returns(i, new, q)
    PROVE  Append(q, t) \in Seq(GoodTask) /\ Returns(i, new \cup {t}, Append(q, t))
<1>1. CASE Leaves(i, new, q)
    BY <1>1, FollowsAppend DEF Leaves, Returns
<1>2. CASE Moves(i, {"wait", "callback"}, new, q)
    BY <1>2, FollowsAppend DEF Moves, Returns
<1> QED
    BY <1>1, <1>2 DEF Returns

-----------------------------------------------------------------------------
(* A step is one of these, as far as the invariants are concerned. *)

RequestTasks == {NewTask(kind, "wait") : kind \in {"object", "request", "unpair"}}

Settled == {"CheckingPairing", "Unpaired", "Paired", "Failed"}

\* The steps of a request, but those that concern the lock and the loss of the token.
ServeEffect(i) ==
    /\ UNCHANGED <<locked, refreshing, timer, misled>>
    /\ UNCHANGED status \/ status' \in Settled
    /\ pool[i].pc \in {"wait", "check", "send", "got401", "callback"}
    /\ Leaves(i, {}, pool') \/ Moves(i, {"wait", "check", "send", "got401", "callback"}, {}, pool')

FallEffect(i) ==
    /\ UNCHANGED <<status, refreshing, timer, misled>>
    /\ ~locked /\ locked'
    /\ pool[i].pc = "wait" /\ Moves(i, {"falling"}, {}, pool')

SleepEffect(i) ==
    /\ UNCHANGED <<status, refreshing, timer, misled>>
    /\ ~locked'
    /\ pool[i].pc = "falling" /\ Moves(i, {"asleep"}, {}, pool')

LoseEffect(i) ==
    /\ UNCHANGED <<locked, refreshing, timer, misled>>
    /\ ~locked /\ status' = "NotAuthenticated"
    /\ pool[i].pc = "got401" /\ Moves(i, {"stoptimer"}, {}, pool')

StopEffect(i) ==
    /\ UNCHANGED <<locked, status, misled>>
    /\ ~timer' /\ ~refreshing'
    /\ pool[i].pc = "stoptimer" /\ Moves(i, {"begin"}, {}, pool')

BeginEffect(i) ==
    /\ UNCHANGED <<locked, status, refreshing, timer>>
    /\ misled => misled'
    /\ refreshing /\ pool[i].kind # "auth" => misled'
    /\ pool[i].pc = "begin" /\ pool[i].kind # "refresh"
    /\ Follows(i, FALSE, {}, pool') /\ i \in DOMAIN pool' /\ pool'[i].kind = pool[i].kind
    /\ \/ refreshing /\ pool'[i].pc = "mark" /\ ~pool'[i].normal
       \/ ~refreshing /\ pool'[i].pc = "lock"

TakeEffect(i) ==
    /\ UNCHANGED <<refreshing, timer, misled>>
    /\ ~locked /\ locked' /\ status' = "Authenticating"
    /\ pool[i].pc = "lock" /\ pool[i].normal /\ Moves(i, {"mark"}, {}, pool')

SkipEffect(i) ==
    /\ UNCHANGED <<status, locked, refreshing, timer, misled>>
    /\ status # "NotAuthenticated"
    /\ pool[i].pc = "lock" /\ Returns(i, {}, pool')

MarkEffect(i) ==
    /\ UNCHANGED <<status, locked, timer, misled>>
    /\ pool[i].pc = "mark" /\ Moves(i, {"token"}, {}, pool')

AcceptEffect(i) ==
    /\ UNCHANGED <<status, locked, refreshing, misled>>
    /\ pool[i].pc = "token" /\ Moves(i, {"accepted"}, {}, pool')

FinishEffect(i) ==
    /\ UNCHANGED misled
    /\ refreshing' => refreshing
    /\ timer' => timer
    /\ locked' <=> (locked /\ ~pool[i].normal)
    /\ status' \in Settled \/ (~pool[i].normal /\ UNCHANGED status)
    /\ pool[i].pc \in {"token", "accepted"}
    /\ \E new \in SUBSET RequestTasks : Returns(i, new, pool')

TriggerEffect(i) ==
    /\ UNCHANGED <<status, locked, timer, misled>>
    /\ pool[i].kind = "refresh" /\ Leaves(i, {NewTask("auth", "begin")}, pool')

\* What happens outside the pool.
OutsideEffect ==
    /\ UNCHANGED <<locked, misled>>
    /\ UNCHANGED status \/ status' \in Settled
    /\ refreshing' => refreshing
    /\ timer' => timer
    /\ \E new \in SUBSET (RequestTasks \cup {NewTask("refresh", "begin")}) :
         /\ NewTask("refresh", "begin") \in new => timer
         /\ Follows(0, FALSE, new, pool')

Effect(i) ==
    \/ ServeEffect(i) \/ FallEffect(i) \/ SleepEffect(i) \/ LoseEffect(i) \/ StopEffect(i)
    \/ BeginEffect(i) \/ TakeEffect(i) \/ SkipEffect(i) \/ MarkEffect(i) \/ AcceptEffect(i)
    \/ FinishEffect(i) \/ TriggerEffect(i)

LEMMA RequestEffect ==
    ASSUME Good, NEW i \in Running
    PROVE  /\ WaitEvaluate(i) \/ WaitSleep(i) \/ CheckStatus(i) => pool' \in Seq(GoodTask) /\ Effect(i)
           /\ SendAccepted(i) \/ SendUnauthorized(i) \/ SendLost(i) \/ SendRefused(i) =>
                pool' \in Seq(GoodTask) /\ Effect(i)
           /\ Unauthorized(i) \/ StopRefreshing(i) => pool' \in Seq(GoodTask) /\ Effect(i)
<1> USE DEF At
<1>0. pool \in Seq(GoodTask) /\ i \in DOMAIN pool /\ pool[i] \in GoodTask
    BY DEF Good, Running
<1>1. ASSUME pool[i].pc \in {"wait", "falling", "check", "send", "got401", "stoptimer"}
      PROVE  /\ pool[i].kind \notin {"auth", "refresh"} /\ pool[i].pc # "callback"
             /\ \A s \in RequestStages \cup {"begin"} :
                  Goto(i, s) \in Seq(GoodTask) /\ Moves(i, {s}, {}, Goto(i, s))
             /\ Again(i) \in Seq(GoodTask) /\ Moves(i, {"wait", "callback"}, {}, Again(i))
  <2>1. pool[i].kind \notin {"auth", "refresh"} /\ pool[i].pc # "callback"
      BY <1>0, <1>1 DEF GoodTask, AuthStages
  <2>2. \A s \in RequestStages \cup {"begin"} : s \in RequestStages \cup AuthStages /\ s # "lock"
      BY DEF AuthStages, RequestStages
  <2> QED
      BY <1>0, <2>1, <2>2, GotoMoves, AgainMoves
<1>2. {"wait", "falling", "asleep", "check", "send", "got401", "stoptimer", "callback"} = RequestStages
    BY DEF RequestStages
<1> DEFINE Quiet == UNCHANGED <<status, locked, refreshing, timer, misled>>
           Served == {"wait", "check", "send", "got401", "callback"}
<1>3. ASSUME Quiet, pool[i].pc \in Served, pool' \in Seq(GoodTask), Moves(i, Served, {}, pool')
      PROVE  pool' \in Seq(GoodTask) /\ Effect(i)
    BY <1>3, Zenon DEF Effect, ServeEffect
<1>4. ASSUME Quiet, pool[i].pc \in {"wait", "check", "send", "got401"},
             pool' = Again(i) \/ \E s \in Served : pool' = Goto(i, s)
      PROVE  pool' \in Seq(GoodTask) /\ Effect(i)
  <2>1. pool' \in Seq(GoodTask) /\ Moves(i, Served, {}, pool')
    <3>1. CASE pool' = Again(i)
        BY <1>1, <1>4, <3>1 DEF Moves
    <3>2. ASSUME NEW s \in Served, pool' = Goto(i, s)
          PROVE  pool' \in Seq(GoodTask) /\ Moves(i, Served, {}, pool')
      <4>1. pool' \in Seq(GoodTask) /\ Moves(i, {s}, {}, pool')
          BY <1>1, <1>2, <1>4, <3>2
      <4> QED
          BY <3>2, <4>1 DEF Moves
    <3> QED
        BY <1>4, <3>1, <3>2
  <2> QED
      BY <1>3, <1>4, <2>1
<1>5. CASE WaitEvaluate(i)
  <2>1. CASE pool' = Goto(i, "check") /\ UNCHANGED locked
    <3>1. Quiet /\ pool[i].pc = "wait"
        BY <1>5, <2>1, Zenon DEF WaitEvaluate
    <3> QED
        BY <1>4, <2>1, <3>1
  <2>2. CASE pool' = Goto(i, "falling") /\ locked' = TRUE
    <3>1. pool[i].pc = "wait" /\ ~locked /\ locked' /\ UNCHANGED <<status, refreshing, timer, misled>>
        BY <1>5, <2>2, Zenon DEF WaitEvaluate
    <3>2. pool' \in Seq(GoodTask) /\ Moves(i, {"falling"}, {}, pool')
        BY <1>1, <1>2, <2>2, <3>1
    <3> QED
        BY <3>1, <3>2, Zenon DEF Effect, FallEffect
  <2> QED
      BY <1>5, <2>1, <2>2, Zenon DEF WaitEvaluate
<1>6. CASE WaitSleep(i)
  <2>1. pool[i].pc = "falling" /\ ~locked' /\ UNCHANGED <<status, refreshing, timer, misled>>
      BY <1>6, Zenon DEF WaitSleep
  <2>2. pool' \in Seq(GoodTask) /\ Moves(i, {"asleep"}, {}, pool')
      BY <1>1, <1>2, <1>6, <2>1 DEF WaitSleep
  <2> QED
      BY <2>1, <2>2, Zenon DEF Effect, SleepEffect
<1>7. CASE CheckStatus(i) \/ SendAccepted(i)
  <2>1. Quiet /\ pool[i].pc \in {"check", "send"}
      BY <1>7, Zenon DEF CheckStatus, SendAccepted, serverVars
  <2>2. ASSUME NEW e \in Errors, NEW b \in BOOLEAN
        PROVE  LET t == [pool[i] EXCEPT !.pc = "callback", !.error = e]
                   u == [pool[i] EXCEPT !.pc = "callback", !.error = e, !.paired = b]
               IN  /\ With(i, t) \in Seq(GoodTask) /\ Moves(i, {"callback"}, {}, With(i, t))
                   /\ With(i, u) \in Seq(GoodTask) /\ Moves(i, {"callback"}, {}, With(i, u))
    <3> DEFINE t == [pool[i] EXCEPT !.pc = "callback", !.error = e]
               u == [pool[i] EXCEPT !.pc = "callback", !.error = e, !.paired = b]
    <3>1. t \in GoodTask /\ t.kind = pool[i].kind /\ t.normal = pool[i].normal /\ t.pc = "callback"
        BY <1>0, <1>1, <1>2, <2>1 DEF GoodTask, Task
    <3>2. u \in GoodTask /\ u.kind = pool[i].kind /\ u.normal = pool[i].normal /\ u.pc = "callback"
        BY <1>0, <1>1, <1>2, <2>1 DEF GoodTask, Task
    <3> HIDE DEF t, u
    <3>3. With(i, t) \in Seq(GoodTask) /\ Moves(i, {"callback"}, {}, With(i, t))
        BY <1>0, <3>1, WithMoves
    <3>4. With(i, u) \in Seq(GoodTask) /\ Moves(i, {"callback"}, {}, With(i, u))
        BY <1>0, <3>2, WithMoves
    <3> QED
        BY <3>3, <3>4, Zenon DEF t, u
  <2>3. CASE pool' = Goto(i, "send")
      BY <1>4, <2>1, <2>3
  <2>4. CASE pool' # Goto(i, "send")
    <3>1. PICK e \in Errors, b \in BOOLEAN :
            \/ pool' = With(i, [pool[i] EXCEPT !.pc = "callback", !.error = e])
            \/ pool' = With(i, [pool[i] EXCEPT !.pc = "callback", !.error = e, !.paired = b])
      <4>1. CASE CheckStatus(i)
          BY <2>4, <4>1 DEF CheckStatus, Errors
      <4>2. CASE SendAccepted(i)
        <5>1. paired' \in BOOLEAN
            BY <4>2, Zenon DEF SendAccepted, Good
        <5>2. "Success" \in Errors
            BY DEF Errors
        <5> QED
            BY <4>2, <5>1, <5>2, Zenon DEF SendAccepted
      <4> QED
          BY <1>7, <4>1, <4>2
    <3>2. pool' \in Seq(GoodTask) /\ Moves(i, {"callback"}, {}, pool')
        BY <2>2, <3>1, Zenon
    <3>3. Moves(i, Served, {}, pool')
        BY <3>2 DEF Moves
    <3> QED
        BY <1>3, <2>1, <3>2, <3>3
  <2> QED
      BY <2>3, <2>4
<1>8. CASE SendUnauthorized(i) \/ SendLost(i) \/ SendRefused(i)
  <2>1. Quiet /\ pool[i].pc = "send"
      BY <1>8, Zenon DEF SendUnauthorized, SendLost, SendRefused
  <2>2. pool' = Again(i) \/ pool' = Goto(i, "got401") \/ pool' = Goto(i, "callback")
      BY <1>8, Zenon DEF SendUnauthorized, SendLost, SendRefused
  <2> QED
      BY <1>4, <2>1, <2>2
<1>9. CASE Unauthorized(i)
  <2>1. CASE pool' = Again(i) /\ UNCHANGED status
    <3>1. Quiet /\ pool[i].pc = "got401"
        BY <1>9, <2>1, Zenon DEF Unauthorized
    <3> QED
        BY <1>4, <2>1, <3>1
  <2>2. CASE pool' = Goto(i, "stoptimer") /\ status' = "NotAuthenticated"
    <3>1. pool[i].pc = "got401" /\ ~locked /\ UNCHANGED <<locked, refreshing, timer, misled>>
        BY <1>9, <2>2, Zenon DEF Unauthorized
    <3>2. pool' \in Seq(GoodTask) /\ Moves(i, {"stoptimer"}, {}, pool')
        BY <1>1, <1>2, <2>2, <3>1
    <3> QED
        BY <2>2, <3>1, <3>2, Zenon DEF Effect, LoseEffect
  <2> QED
      BY <1>9, <2>1, <2>2, Zenon DEF Unauthorized
<1>10. CASE StopRefreshing(i)
  <2>1. /\ pool[i].pc = "stoptimer" /\ UNCHANGED <<locked, status, misled>>
        /\ ~timer' /\ ~refreshing'
      BY <1>10, Zenon DEF StopRefreshing
  <2>2. pool' \in Seq(GoodTask) /\ Moves(i, {"begin"}, {}, pool')
      BY <1>1, <1>10, <2>1 DEF StopRefreshing
  <2> QED
      BY <2>1, <2>2, Zenon DEF Effect, StopEffect
<1> QED
    BY <1>5, <1>6, <1>7, <1>8, <1>9, <1>10, Zenon

LEMMA CallbackEffect ==
    ASSUME Good, NEW i \in Running, CallbackObject(i) \/ CallbackRequest(i) \/ CallbackUnpair(i)
    PROVE  pool' \in Seq(GoodTask) /\ Effect(i)
<1> USE DEF At
<1>0. pool \in Seq(GoodTask) /\ i \in DOMAIN pool
    BY DEF Good, Running
<1>1. UNCHANGED <<locked, refreshing, timer, misled>> /\ pool[i].pc = "callback"
    BY Zenon DEF CallbackObject, CallbackRequest, CallbackUnpair
<1>2. UNCHANGED status \/ status' \in Settled
    BY DEF CallbackObject, CallbackRequest, CallbackUnpair, ParsedStatus, Settled
<1>3. pool' = Without(i) \/ pool' = Woken(Without(i))
    BY Zenon DEF CallbackObject, CallbackRequest, CallbackUnpair, NotifiedIf
<1>4. pool' \in Seq(GoodTask) /\ Leaves(i, {}, pool')
    BY <1>0, <1>3, FollowsWithout, FollowsWoken, WokenProperties DEF Leaves
<1> QED
    BY <1>1, <1>2, <1>4 DEF Effect, ServeEffect

LEMMA TriggeredEffect ==
    ASSUME Good, NEW i \in Running, RefreshTriggered(i)
    PROVE  pool' \in Seq(GoodTask) /\ Effect(i)
<1>0. pool \in Seq(GoodTask) /\ i \in DOMAIN pool
    BY DEF Good, Running
<1> DEFINE t == NewTask("auth", "begin")
<1>1. Without(i) \in Seq(GoodTask) /\ Follows(i, TRUE, {}, Without(i)) /\ t \in GoodTask
    BY <1>0, FollowsWithout, NewTaskGood DEF Leaves
<1> HIDE DEF t
<1>2. /\ Append(Without(i), t) \in Seq(GoodTask)
      /\ Follows(i, TRUE, {} \cup {t}, Append(Without(i), t))
    BY <1>1, FollowsAppend
<1>3. {} \cup {t} = {t}
    OBVIOUS
<1>4. pool' \in Seq(GoodTask) /\ Leaves(i, {NewTask("auth", "begin")}, pool')
    BY <1>2, <1>3 DEF RefreshTriggered, Leaves, t
<1> QED
    BY <1>4, Zenon DEF RefreshTriggered, Effect, TriggerEffect

LEMMA AuthenticateEffect ==
    ASSUME Good, NEW i \in Running, pool[i].kind # "refresh", Authenticate(i)
    PROVE  pool' \in Seq(GoodTask) /\ Effect(i)
<1> USE DEF At
<1>0. pool \in Seq(GoodTask) /\ i \in DOMAIN pool /\ pool[i] \in GoodTask
    BY DEF Good, Running
<1>1. ASSUME pool[i].pc \in {"lock", "mark", "token", "accepted"}
      PROVE  /\ \A s \in {"mark", "token", "accepted"} :
                  Goto(i, s) \in Seq(GoodTask) /\ Moves(i, {s}, {}, Goto(i, s))
             /\ Return(i) \in Seq(GoodTask) /\ Returns(i, {}, Return(i))
             /\ Woken(Return(i)) \in Seq(GoodTask) /\ Returns(i, {}, Woken(Return(i)))
  <2>1. \A s \in {"mark", "token", "accepted"} : s \in AuthStages /\ s # "lock"
      BY DEF AuthStages
  <2>2. Return(i) \in Seq(GoodTask) /\ Returns(i, {}, Return(i))
      BY <1>0, <1>1, ReturnReturns
  <2>3. Woken(Return(i)) \in Seq(GoodTask) /\ Returns(i, {}, Woken(Return(i)))
      BY <2>2, ReturnsWoken
  <2>4. ASSUME NEW s \in {"mark", "token", "accepted"}
        PROVE  Goto(i, s) \in Seq(GoodTask) /\ Moves(i, {s}, {}, Goto(i, s))
      BY <1>0, <1>1, <2>1, GotoMoves
  <2> QED
      BY <2>2, <2>3, <2>4
<1>2. CASE AuthBegin(i)
  <2> DEFINE pc == IF refreshing THEN "mark" ELSE "lock"
             t == [pool[i] EXCEPT !.normal = ~refreshing, !.pc = pc]
  <2>1. (~refreshing) \in BOOLEAN
      OBVIOUS
  <2>2. t.normal = ~refreshing /\ t.pc = pc /\ t.kind = pool[i].kind
      BY <1>0 DEF GoodTask, Task
  <2>3. t \in Task
      BY <1>0, <2>1 DEF GoodTask, Task, AuthStages
  <2>4. pc = "lock" => t.normal
      BY <2>2
  <2>5. pool[i].tries < NumRetries /\ t.tries = pool[i].tries
      BY <1>0, <1>2 DEF AuthBegin, GoodTask, Task
  <2>6. t \in GoodTask
      BY <2>2, <2>3, <2>4, <2>5 DEF GoodTask, AuthStages
  <2>7. pool' = With(i, t) /\ UNCHANGED <<locked, status, refreshing, timer>> /\ pool[i].pc = "begin"
      BY <1>2, Zenon DEF AuthBegin
  <2>8. /\ misled => misled'
        /\ refreshing /\ pool[i].kind # "auth" => misled'
      BY <1>2, Zenon DEF AuthBegin
  <2>9. \/ refreshing /\ t.pc = "mark" /\ ~t.normal
        \/ ~refreshing /\ t.pc = "lock"
      BY <2>2
  <2> HIDE DEF t, pc
  <2>10. /\ pool' \in Seq(GoodTask) /\ Follows(i, FALSE, {}, pool') /\ i \in DOMAIN pool'
         /\ pool'[i] = t
      BY <1>0, <2>6, <2>7, FollowsWith
  <2> QED
      BY <2>2, <2>7, <2>8, <2>9, <2>10 DEF Effect, BeginEffect
<1>3. CASE AuthLock(i)
  <2>1. CASE status = "NotAuthenticated"
    <3>1. /\ UNCHANGED <<refreshing, timer, misled>> /\ ~locked /\ locked'
          /\ status' = "Authenticating" /\ pool[i].pc = "lock" /\ pool' = Goto(i, "mark")
        BY <1>3, <2>1, Zenon DEF AuthLock
    <3>2. pool[i].normal /\ pool' \in Seq(GoodTask) /\ Moves(i, {"mark"}, {}, pool')
        BY <1>0, <1>1, <3>1 DEF GoodTask
    <3> QED
        BY <3>1, <3>2, Zenon DEF Effect, TakeEffect
  <2>2. CASE status # "NotAuthenticated"
    <3>1. /\ UNCHANGED <<status, locked, refreshing, timer, misled>>
          /\ pool[i].pc = "lock" /\ pool' = Return(i)
        BY <1>3, <2>2, Zenon DEF AuthLock
    <3> QED
        BY <1>1, <2>2, <3>1 DEF Effect, SkipEffect
  <2> QED
      BY <2>1, <2>2
<1>4. CASE AuthMark(i)
  <2>1. /\ UNCHANGED <<status, locked, timer, misled>>
        /\ pool[i].pc = "mark" /\ pool' = Goto(i, "token")
      BY <1>4, Zenon DEF AuthMark
  <2> QED
      BY <1>1, <2>1 DEF Effect, MarkEffect
<1>5. CASE KeysUnresolved(i) \/ AuthFails(i) \/ AuthStopped(i)
  <2>1. /\ UNCHANGED misled /\ (locked' <=> (locked /\ ~pool[i].normal))
        /\ status' = "Failed" /\ pool[i].pc = "token" /\ pool' = Woken(Return(i))
      BY <1>5, Zenon DEF KeysUnresolved, AuthFails, AuthStopped, Unlock
  <2>4. refreshing' => refreshing
    <3>1. UNCHANGED refreshing \/ ~refreshing'
        BY <1>5, Zenon DEF KeysUnresolved, AuthFails, AuthStopped
    <3> QED
        BY <3>1
  <2>5. timer' => timer
    <3>1. UNCHANGED timer \/ ~timer'
        BY <1>5, Zenon DEF KeysUnresolved, AuthFails, AuthStopped
    <3> QED
        BY <3>1
  <2>2. pool' \in Seq(GoodTask) /\ \E new \in SUBSET RequestTasks : Returns(i, new, pool')
      BY <1>1, <2>1
  <2>3. status' \in Settled
      BY <2>1 DEF Settled
  <2> QED
      BY <2>1, <2>2, <2>3, <2>4, <2>5, Zenon DEF Effect, FinishEffect
<1>6. CASE AuthAccepted(i)
  <2>1. /\ UNCHANGED <<status, locked, refreshing, misled>>
        /\ pool[i].pc = "token" /\ pool' = Woken(Goto(i, "accepted"))
      BY <1>6, Zenon DEF AuthAccepted
  <2>2. Goto(i, "accepted") \in Seq(GoodTask) /\ Moves(i, {"accepted"}, {}, Goto(i, "accepted"))
      BY <1>1, <2>1
  <2>3. pool' \in Seq(GoodTask) /\ Moves(i, {"accepted"}, {}, pool')
      BY <2>1, <2>2, FollowsWoken, WokenProperties DEF Moves
  <2> QED
      BY <2>1, <2>3, Zenon DEF Effect, AcceptEffect
<1>7. CASE AuthDone(i)
  <2>1. /\ UNCHANGED <<refreshing, timer, misled>> /\ pool[i].pc = "accepted"
        /\ locked' <=> (locked /\ ~pool[i].normal)
      BY <1>7, Zenon DEF AuthDone, Unlock
  <2>2. CASE pool[i].normal
    <3>1. status' = "CheckingPairing" /\ pool' = Append(Return(i), NewTask("object", "wait"))
        BY <1>7, <2>2, Zenon DEF AuthDone
    <3>2. NewTask("object", "wait") \in GoodTask /\ NewTask("object", "wait") \in RequestTasks
        BY NewTaskGood DEF RequestTasks
    <3>3. /\ pool' \in Seq(GoodTask)
          /\ Returns(i, {} \cup {NewTask("object", "wait")}, pool')
        BY <1>1, <2>1, <3>1, <3>2, ReturnsAppend
    <3>4. status' \in Settled
        BY <3>1 DEF Settled
    <3>5. {} \cup {NewTask("object", "wait")} \in SUBSET RequestTasks
        BY <3>2
    <3> QED
        BY <2>1, <3>3, <3>4, <3>5, Zenon DEF Effect, FinishEffect
  <2>3. CASE ~pool[i].normal
    <3>1. UNCHANGED status /\ pool' = Return(i)
        BY <1>7, <2>3, Zenon DEF AuthDone
    <3>2. pool' \in Seq(GoodTask) /\ \E new \in SUBSET RequestTasks : Returns(i, new, pool')
        BY <1>1, <2>1, <3>1
    <3> QED
        BY <2>1, <2>3, <3>1, <3>2, Zenon DEF Effect, FinishEffect
  <2> QED
      BY <2>2, <2>3
<1> QED
    BY <1>2, <1>3, <1>4, <1>5, <1>6, <1>7, Zenon DEF Authenticate

LEMMA RunEffect ==
    ASSUME Good, NEW i \in Running, RunTask(i)
    PROVE  pool' \in Seq(GoodTask) /\ Effect(i)
BY RequestEffect, CallbackEffect, TriggeredEffect, AuthenticateEffect, Zenon DEF RunTask

Outside ==
    \/ OnPaired \/ OnUnpaired \/ RefreshTimerExpires \/ TokenExpires \/ PairingChanges \/ Stop
    \/ \E kind \in {"request", "unpair"} : PostRequest(kind)

LEMMA OutsideEffects ==
    ASSUME Good, Outside
    PROVE  pool' \in Seq(GoodTask) /\ OutsideEffect
<1>0. pool \in Seq(GoodTask) /\ Follows(0, FALSE, {}, pool)
    BY FollowsSelf DEF Good
<1>1. UNCHANGED <<locked, misled>>
    BY Zenon DEF Outside, OnPaired, OnUnpaired, RefreshTimerExpires, PostRequest, TokenExpires,
                 PairingChanges, Stop
<1>2. UNCHANGED status \/ status' \in Settled
  <2>1. UNCHANGED status \/ status' = "Paired" \/ status' = "Unpaired"
      BY Zenon DEF Outside, OnPaired, OnUnpaired, RefreshTimerExpires, PostRequest, TokenExpires,
                   PairingChanges, Stop
  <2> QED
      BY <2>1 DEF Settled
<1>3. refreshing' => refreshing
  <2>1. UNCHANGED refreshing \/ ~refreshing'
      BY Zenon DEF Outside, OnPaired, OnUnpaired, RefreshTimerExpires, PostRequest, TokenExpires,
                   PairingChanges, Stop
  <2> QED
      BY <2>1
<1>4. timer' => timer
  <2>1. UNCHANGED timer \/ ~timer'
      BY Zenon DEF Outside, OnPaired, OnUnpaired, RefreshTimerExpires, PostRequest, TokenExpires,
                   PairingChanges, Stop
  <2> QED
      BY <2>1
<1> DEFINE News == RequestTasks \cup {NewTask("refresh", "begin")}
<1>5. /\ pool' \in Seq(GoodTask)
      /\ \E new \in SUBSET News :
           /\ NewTask("refresh", "begin") \in new => timer
           /\ Follows(0, FALSE, new, pool')
  <2>1. ASSUME NEW t \in News, pool' = Append(pool, t), t = NewTask("refresh", "begin") => timer
        PROVE  /\ pool' \in Seq(GoodTask)
               /\ \E new \in SUBSET News :
                    /\ NewTask("refresh", "begin") \in new => timer
                    /\ Follows(0, FALSE, new, pool')
    <3>1. t \in GoodTask
        BY NewTaskGood DEF RequestTasks
    <3>2. pool' \in Seq(GoodTask) /\ Follows(0, FALSE, {} \cup {t}, pool')
        BY <1>0, <2>1, <3>1, FollowsAppend
    <3>3. {} \cup {t} \in SUBSET News /\ (NewTask("refresh", "begin") \in {} \cup {t} => timer)
        BY <2>1
    <3> QED
        BY <3>2, <3>3, Zenon
  <2>2. {} \in SUBSET News /\ NewTask("refresh", "begin") \notin {}
      OBVIOUS
  <2>3. CASE UNCHANGED pool
      BY <1>0, <2>2, <2>3
  <2>4. CASE pool' = Woken(pool)
    <3>1. pool' \in Seq(GoodTask) /\ Follows(0, FALSE, {}, pool')
        BY <1>0, <2>4, FollowsWoken, WokenProperties
    <3> QED
        BY <2>2, <3>1
  <2>5. \A kind \in {"object", "request", "unpair"} :
          /\ NewTask(kind, "wait") \in News
          /\ NewTask(kind, "wait") # NewTask("refresh", "begin")
      BY DEF RequestTasks, NewTask
  <2>6. CASE OnPaired \/ \E kind \in {"request", "unpair"} : PostRequest(kind)
    <3>1. \E kind \in {"object", "request", "unpair"} : pool' = Append(pool, NewTask(kind, "wait"))
        BY <2>6 DEF OnPaired, PostRequest
    <3> QED
        BY <2>1, <2>5, <3>1
  <2>7. CASE RefreshTimerExpires
    <3>1. timer /\ pool' = Append(pool, NewTask("refresh", "begin"))
        BY <2>7, Zenon DEF RefreshTimerExpires
    <3> QED
        BY <2>1, <3>1
  <2>8. CASE OnUnpaired \/ TokenExpires \/ PairingChanges \/ Stop
    <3>1. UNCHANGED pool \/ pool' = Woken(pool)
        BY <2>8, Zenon DEF OnUnpaired, TokenExpires, PairingChanges, Stop
    <3> QED
        BY <2>3, <2>4, <3>1
  <2> QED
      BY <2>6, <2>7, <2>8, Zenon DEF Outside
<1> QED
    BY <1>1, <1>2, <1>3, <1>4, <1>5, Zenon DEF OutsideEffect

LEMMA NextCases == Next <=> Outside \/ \E i \in Running : RunTask(i)
BY Zenon DEF Next, RunPool, Outside

LEMMA InitGood == Init => Good
<1> SUFFICES ASSUME Init PROVE Good
    OBVIOUS
<1>1. {refreshing, locked, stop, timer, tokenValid, paired, misled} \subseteq BOOLEAN
    BY Zenon DEF Init
<1>2. pool \in Seq(GoodTask)
    BY NewTaskGood DEF Init
<1> QED
    BY <1>1, <1>2, AuthAssumption DEF Init, Good, Statuses

LEMMA FlagStep ==
    ASSUME Good, [Next]_vars
    PROVE  {refreshing, locked, stop, timer, tokenValid, paired, misled}' \subseteq BOOLEAN
<1> USE DEF Good, serverVars
<1>1. CASE UNCHANGED vars
    BY <1>1, Zenon DEF vars
<1>2. CASE Outside
    BY <1>2, Zenon DEF Outside, OnPaired, OnUnpaired, RefreshTimerExpires, PostRequest,
                       TokenExpires, PairingChanges, Stop
<1>3. ASSUME NEW i \in Running, RunTask(i)
      PROVE  {refreshing, locked, stop, timer, tokenValid, paired, misled}' \subseteq BOOLEAN
  <2>1. CASE WaitEvaluate(i) \/ WaitSleep(i) \/ CheckStatus(i) \/ SendAccepted(i)
             \/ SendUnauthorized(i) \/ SendLost(i) \/ SendRefused(i)
      BY <2>1, Zenon DEF WaitEvaluate, WaitSleep, CheckStatus, SendAccepted, SendUnauthorized,
                         SendLost, SendRefused
  <2>2. CASE Unauthorized(i) \/ StopRefreshing(i) \/ CallbackObject(i) \/ CallbackRequest(i)
             \/ CallbackUnpair(i) \/ RefreshTriggered(i)
      BY <2>2, Zenon DEF Unauthorized, StopRefreshing, CallbackObject, CallbackRequest,
                         CallbackUnpair, RefreshTriggered
  <2>3. CASE Authenticate(i)
      BY <2>3, Zenon DEF Authenticate, AuthBegin, AuthLock, AuthMark, KeysUnresolved, AuthFails,
                         AuthStopped, AuthAccepted, AuthDone, Unlock
  <2> QED
      BY <1>3, <2>1, <2>2, <2>3, Zenon DEF RunTask
<1> QED
    BY <1>1, <1>2, <1>3, NextCases

LEMMA GoodStep == Good /\ [Next]_vars => Good'
<1> SUFFICES ASSUME Good, [Next]_vars PROVE Good'
    OBVIOUS
<1>f. {refreshing, locked, stop, timer, tokenValid, paired, misled}' \subseteq BOOLEAN
    BY FlagStep
<1>1. CASE UNCHANGED vars
    BY <1>1, <1>f DEF vars, Good
<1>2. CASE Next
  <2>1. pool' \in Seq(GoodTask)
      BY <1>2, NextCases, RunEffect, OutsideEffects
  <2>2. status' \in Statuses
    <3>1. Settled \subseteq Statuses /\ "NotAuthenticated" \in Statuses /\ "Authenticating" \in Statuses
        BY DEF Settled, Statuses
    <3>2. ASSUME NEW i, Effect(i)
          PROVE  UNCHANGED status \/ status' \in Settled \/ status' \in {"NotAuthenticated", "Authenticating"}
        BY <3>2, Zenon
        DEF Effect, ServeEffect, FallEffect, SleepEffect, LoseEffect, StopEffect, BeginEffect,
            TakeEffect, SkipEffect, MarkEffect, AcceptEffect, FinishEffect, TriggerEffect
    <3>3. OutsideEffect => UNCHANGED status \/ status' \in Settled
        BY Zenon DEF OutsideEffect
    <3> QED
        BY <1>2, <3>1, <3>2, <3>3, NextCases, RunEffect, OutsideEffects DEF Good
  <2> USE DEF serverVars
  <2>3. CASE Outside
    <3>1. keys' = keys
        BY <2>3, Zenon DEF Outside, OnPaired, OnUnpaired, RefreshTimerExpires, PostRequest,
                           TokenExpires, PairingChanges, Stop
    <3>2. news' \in SUBSET {"paired", "unpaired"}
      <4>1. CASE PairingChanges
          BY <4>1 DEF PairingChanges, Good
      <4>2. CASE ~PairingChanges
          BY <2>3, <4>2 DEF Outside, OnPaired, OnUnpaired, RefreshTimerExpires, PostRequest,
                            TokenExpires, Stop, Good
      <4> QED
          BY <4>1, <4>2
    <3>3. \/ budget' = budget
          \/ budget.requests > 0 /\ budget' = [budget EXCEPT !.requests = @ - 1]
          \/ budget.disturbances > 0 /\ budget' = [budget EXCEPT !.disturbances = @ - 1]
        BY <2>3, Zenon DEF Outside, OnPaired, OnUnpaired, RefreshTimerExpires, PostRequest,
                           TokenExpires, PairingChanges, Stop, Disturb
    <3>4. budget' \in [requests: 0..MaxRequests, disturbances: 0..MaxDisturbances]
        BY <3>3, AuthAssumption DEF Good
    <3> QED
        BY <1>f, <2>1, <2>2, <3>1, <3>2, <3>4 DEF Good
  <2>4. ASSUME NEW i \in Running, RunTask(i) PROVE Good'
    <3>1. keys' \in {keys, "ready", "none"} /\ UNCHANGED <<news, budget>>
      <4>1. CASE WaitEvaluate(i) \/ WaitSleep(i) \/ CheckStatus(i) \/ SendAccepted(i)
                 \/ SendUnauthorized(i) \/ SendLost(i) \/ SendRefused(i)
          BY <4>1, Zenon DEF WaitEvaluate, WaitSleep, CheckStatus, SendAccepted, SendUnauthorized,
                             SendLost, SendRefused
      <4>2. CASE Unauthorized(i) \/ StopRefreshing(i) \/ CallbackObject(i) \/ CallbackRequest(i)
                 \/ CallbackUnpair(i) \/ RefreshTriggered(i)
          BY <4>2, Zenon DEF Unauthorized, StopRefreshing, CallbackObject, CallbackRequest,
                             CallbackUnpair, RefreshTriggered
      <4>3. CASE Authenticate(i)
          BY <4>3, Zenon DEF Authenticate, AuthBegin, AuthLock, AuthMark, KeysUnresolved, AuthFails,
                             AuthStopped, AuthAccepted, AuthDone
      <4> QED
          BY <2>4, <4>1, <4>2, <4>3, Zenon DEF RunTask
    <3> QED
        BY <1>f, <2>1, <2>2, <3>1 DEF Good
  <2> QED
      BY <1>2, <2>3, <2>4, NextCases
<1> QED
    BY <1>1, <1>2

-----------------------------------------------------------------------------
(* The lock *)

Owning == {"mark", "token", "accepted"}

Holding(t) == t.pc = "falling" \/ (t.normal /\ t.pc \in Owning)

\* At most one task holds m_authMutex across steps, it is running, and it is what
\* `locked' stands for.
LockOwned ==
    /\ \A j \in DOMAIN pool : Holding(pool[j]) => locked /\ j <= Threads
    /\ \A j, k \in DOMAIN pool : Holding(pool[j]) /\ Holding(pool[k]) => j = k
    /\ locked => \E j \in DOMAIN pool : Holding(pool[j])

LEMMA LikeHolding == \A t, u : Like(t, u) => (Holding(t) <=> Holding(u))
BY DEF Like, Holding, Owning

LEMMA LockFollows ==
    ASSUME Good, Good', LockOwned, NEW i, i = 0 \/ i \in Running, NEW drop \in BOOLEAN, NEW new,
           \A t \in new : ~Holding(t), Follows(i, drop, new, pool')
    PROVE  LET before == i \in DOMAIN pool /\ Holding(pool[i])
               after  == ~drop /\ i \in DOMAIN pool' /\ Holding(pool'[i])
           IN  /\ ~before /\ ~after /\ UNCHANGED locked => LockOwned'
               /\ before /\ after /\ UNCHANGED locked => LockOwned'
               /\ before /\ ~after /\ ~locked' => LockOwned'
               /\ ~locked /\ after /\ locked' => LockOwned'
<1> DEFINE before == i \in DOMAIN pool /\ Holding(pool[i])
           after == ~drop /\ i \in DOMAIN pool' /\ Holding(pool'[i])
           P(j) == Place(i, drop, j)
<1>0. /\ pool \in Seq(GoodTask) /\ pool' \in Seq(GoodTask)
      /\ DOMAIN pool \subseteq Nat /\ DOMAIN pool' \subseteq Nat /\ i \in Nat /\ Threads \in Nat
      /\ i = 0 \/ i <= Threads
    BY AuthAssumption DEF Good, Running
<1>1. \A j, k \in DOMAIN pool \ {i} : P(j) = P(k) => j = k
    BY <1>0 DEF Place
<1>2. \A j \in DOMAIN pool \ {i} : P(j) <= j
    BY <1>0 DEF Place
\* The holders afterwards are the other holders and, perhaps, i.
<1>3. ASSUME NEW k \in DOMAIN pool', Holding(pool'[k])
      PROVE  \/ \E j \in DOMAIN pool \ {i} : k = P(j) /\ Holding(pool[j])
             \/ after /\ k = i
    BY <1>3, LikeHolding DEF Follows
<1>4. \A j \in DOMAIN pool \ {i} : Holding(pool[j]) => P(j) \in DOMAIN pool' /\ Holding(pool'[P(j)])
    BY LikeHolding DEF Follows
<1> HIDE DEF P
<1>5. ASSUME ~before, ~after, UNCHANGED locked PROVE LockOwned'
  <2>1. \A k \in DOMAIN pool' : Holding(pool'[k]) => locked' /\ k <= Threads
      BY <1>0, <1>2, <1>3, <1>5 DEF LockOwned
  <2>2. \A j, k \in DOMAIN pool' : Holding(pool'[j]) /\ Holding(pool'[k]) => j = k
      BY <1>3, <1>5 DEF LockOwned
  <2>3. locked' => \E j \in DOMAIN pool' : Holding(pool'[j])
      BY <1>4, <1>5 DEF LockOwned
  <2> QED
      BY <2>1, <2>2, <2>3 DEF LockOwned, Holding
<1>6. ASSUME before, after, UNCHANGED locked PROVE LockOwned'
  <2>1. \A k \in DOMAIN pool' : Holding(pool'[k]) => k = i
      BY <1>3, <1>6 DEF LockOwned
  <2>2. locked /\ locked'
      BY <1>6 DEF LockOwned
  <2>3. i <= Threads
      BY <1>6 DEF LockOwned
  <2> QED
      BY <1>6, <2>1, <2>2, <2>3 DEF LockOwned
<1>7. ASSUME before, ~after, ~locked' PROVE LockOwned'
  <2>1. \A k \in DOMAIN pool' : ~Holding(pool'[k])
      BY <1>3, <1>7 DEF LockOwned
  <2> QED
      BY <1>7, <2>1 DEF LockOwned
<1>8. ASSUME ~locked, after, locked' PROVE LockOwned'
  <2>1. \A k \in DOMAIN pool' : Holding(pool'[k]) => k = i
      BY <1>3, <1>8 DEF LockOwned
  <2>2. i <= Threads
      BY <1>0, <1>8
  <2> QED
      BY <1>8, <2>1, <2>2 DEF LockOwned
<1> QED
    BY <1>5, <1>6, <1>7, <1>8, Zenon

LEMMA NewTasksAreFree ==
    /\ \A t \in RequestTasks : ~Holding(t) /\ t.kind # "refresh" /\ t.pc \notin Owning
    /\ ~Holding(NewTask("auth", "begin")) /\ ~Holding(NewTask("refresh", "begin"))
    /\ NewTask("auth", "begin").kind # "refresh" /\ NewTask("auth", "begin").pc \notin Owning
BY DEF RequestTasks, NewTask, Holding, Owning

LEMMA LockStep ==
    ASSUME Good, Good', LockOwned, NEW i \in Running, Effect(i)
    PROVE  LockOwned'
<1>0. i \in DOMAIN pool /\ Threads \in Nat
    BY AuthAssumption DEF Running
<1> DEFINE before == Holding(pool[i])
           after == i \in DOMAIN pool' /\ Holding(pool'[i])
\* What LockFollows says of the two shapes a step has.
<1>1. ASSUME NEW new, \A t \in new : ~Holding(t), Follows(i, FALSE, new, pool')
      PROVE  /\ ~before /\ ~after /\ UNCHANGED locked => LockOwned'
             /\ before /\ after /\ UNCHANGED locked => LockOwned'
             /\ before /\ ~after /\ ~locked' => LockOwned'
             /\ ~locked /\ after /\ locked' => LockOwned'
    BY <1>0, <1>1, LockFollows, Zenon
<1>2. ASSUME NEW new, \A t \in new : ~Holding(t), Follows(i, TRUE, new, pool')
      PROVE  /\ ~before /\ UNCHANGED locked => LockOwned'
             /\ before /\ ~locked' => LockOwned'
    BY <1>0, <1>2, LockFollows, Zenon
<1>a. ASSUME Follows(i, FALSE, {}, pool')
      PROVE  /\ ~before /\ ~after /\ UNCHANGED locked => LockOwned'
             /\ before /\ after /\ UNCHANGED locked => LockOwned'
             /\ before /\ ~after /\ ~locked' => LockOwned'
             /\ ~locked /\ after /\ locked' => LockOwned'
  <2>1. PICK none : none = {}
      OBVIOUS
  <2>2. (\A t \in none : ~Holding(t)) /\ Follows(i, FALSE, none, pool')
      BY <1>a, <2>1
  <2> QED
      BY <1>1, <1>a, <2>2, Zenon
<1>b. ASSUME Follows(i, TRUE, {}, pool'), ~before, UNCHANGED locked PROVE LockOwned'
  <2>1. PICK none : none = {}
      OBVIOUS
  <2>2. (\A t \in none : ~Holding(t)) /\ Follows(i, TRUE, none, pool')
      BY <1>b, <2>1
  <2> QED
      BY <1>2, <1>b, <2>2, Zenon
<1>3. ASSUME NEW new, \A t \in new : ~Holding(t), Returns(i, new, pool')
      PROVE  /\ ~before /\ UNCHANGED locked => LockOwned'
             /\ before /\ ~locked' => LockOwned'
  <2>1. CASE Leaves(i, new, pool')
      BY <1>2, <1>3, <2>1, Zenon DEF Leaves
  <2>2. CASE Moves(i, {"wait", "callback"}, new, pool')
    <3>1. ~after /\ Follows(i, FALSE, new, pool')
        BY <2>2 DEF Moves, Holding, Owning
    <3> QED
        BY <1>1, <1>3, <3>1, Zenon
  <2> QED
      BY <1>3, <2>1, <2>2 DEF Returns
<1>4. CASE ServeEffect(i)
  <2>1. ~before /\ UNCHANGED locked
      BY <1>4 DEF ServeEffect, Holding, Owning
  <2>2. CASE Leaves(i, {}, pool')
      BY <1>b, <2>1, <2>2 DEF Leaves
  <2>3. CASE Moves(i, {"wait", "check", "send", "got401", "callback"}, {}, pool')
    <3>1. ~after /\ Follows(i, FALSE, {}, pool')
        BY <2>3 DEF Moves, Holding, Owning
    <3> QED
        BY <1>a, <2>1, <3>1
  <2> QED
      BY <1>4, <2>2, <2>3 DEF ServeEffect
<1>5. CASE FallEffect(i)
  <2>1. ~locked /\ locked' /\ after /\ Follows(i, FALSE, {}, pool')
      BY <1>5 DEF FallEffect, Moves, Holding
  <2> QED
      BY <1>a, <2>1
<1>6. CASE SleepEffect(i)
  <2>1. before /\ ~after /\ ~locked' /\ Follows(i, FALSE, {}, pool')
      BY <1>6 DEF SleepEffect, Moves, Holding, Owning
  <2> QED
      BY <1>a, <2>1
<1>7. CASE LoseEffect(i) \/ StopEffect(i)
  <2>1. ~before /\ ~after /\ UNCHANGED locked /\ Follows(i, FALSE, {}, pool')
      BY <1>7 DEF LoseEffect, StopEffect, Moves, Holding, Owning
  <2> QED
      BY <1>a, <2>1
<1>8. CASE BeginEffect(i)
  <2>1. ~before /\ ~after /\ UNCHANGED locked /\ Follows(i, FALSE, {}, pool')
      BY <1>8 DEF BeginEffect, Holding, Owning
  <2> QED
      BY <1>a, <2>1
<1>9. CASE TakeEffect(i)
  <2>1. ~locked /\ locked' /\ after /\ Follows(i, FALSE, {}, pool')
      BY <1>9 DEF TakeEffect, Moves, Holding, Owning
  <2> QED
      BY <1>a, <2>1
<1>10. CASE SkipEffect(i)
  <2>1. ~before /\ UNCHANGED locked /\ Returns(i, {}, pool')
      BY <1>10 DEF SkipEffect, Holding, Owning
  <2> QED
      BY <1>3, <2>1
<1>11. CASE MarkEffect(i) \/ AcceptEffect(i)
  <2>1. (before <=> after) /\ UNCHANGED locked /\ Follows(i, FALSE, {}, pool')
      BY <1>11 DEF MarkEffect, AcceptEffect, Moves, Holding, Owning
  <2> QED
      BY <1>a, <2>1
<1>12. CASE FinishEffect(i)
  <2>1. PICK new \in SUBSET RequestTasks : Returns(i, new, pool')
      BY <1>12 DEF FinishEffect
  <2>2. \A t \in new : ~Holding(t)
      BY NewTasksAreFree
  <2>3. before <=> pool[i].normal
      BY <1>12 DEF FinishEffect, Holding, Owning
  <2>4. CASE before
    <3>1. ~locked'
        BY <1>12, <2>3, <2>4 DEF FinishEffect
    <3> QED
        BY <1>3, <2>1, <2>2, <2>4, <3>1
  <2>5. CASE ~before
    <3>1. locked' <=> locked
        BY <1>12, <2>3, <2>5 DEF FinishEffect
    <3>2. locked \in BOOLEAN /\ locked' \in BOOLEAN
        BY Zenon DEF Good
    <3>3. UNCHANGED locked
        BY <3>1, <3>2, Zenon
    <3> QED
        BY <1>3, <2>1, <2>2, <2>5, <3>3
  <2> QED
      BY <2>4, <2>5
<1>13. CASE TriggerEffect(i)
  <2>1. pool[i] \in GoodTask
      BY <1>0 DEF Good
  <2>2. ~before /\ UNCHANGED locked /\ Follows(i, TRUE, {NewTask("auth", "begin")}, pool')
      BY <1>13, <2>1 DEF TriggerEffect, GoodTask, Holding, Owning, Leaves
  <2> QED
      BY <1>2, <2>2, NewTasksAreFree
<1> QED
    BY <1>4, <1>5, <1>6, <1>7, <1>8, <1>9, <1>10, <1>11, <1>12, <1>13 DEF Effect

LEMMA LockOutside ==
    ASSUME Good, Good', LockOwned, OutsideEffect
    PROVE  LockOwned'
<1>1. PICK new \in SUBSET (RequestTasks \cup {NewTask("refresh", "begin")}) :
        Follows(0, FALSE, new, pool')
    BY DEF OutsideEffect
<1>2. \A t \in new : ~Holding(t)
    BY NewTasksAreFree
<1>3. 0 \notin DOMAIN pool /\ 0 \notin DOMAIN pool'
    BY DEF Good
<1>4. UNCHANGED locked
    BY DEF OutsideEffect
<1> QED
    BY <1>1, <1>2, <1>3, <1>4, LockFollows

-----------------------------------------------------------------------------
(* The authentication under way *)

Owner(t) == t.normal /\ t.pc \in Owning

AuthOwned == status = "Authenticating" => \E j \in DOMAIN pool : Owner(pool[j])

\* Owners other than the task that runs stay.
LEMMA OwnersStay ==
    ASSUME NEW i, NEW drop, NEW new, Follows(i, drop, new, pool'),
           NEW j \in DOMAIN pool \ {i}, Owner(pool[j])
    PROVE  \E k \in DOMAIN pool' : Owner(pool'[k])
BY DEF Follows, Like, Owner, Owning

\* Every effect has the shape of Follows.
LEMMA EffectFollows ==
    ASSUME NEW i, Effect(i)
    PROVE  \E drop \in BOOLEAN : \E new : Follows(i, drop, new, pool')
<1>1. CASE FinishEffect(i)
    BY <1>1, Zenon DEF FinishEffect, Returns, Leaves, Moves
<1> QED
    BY <1>1, Zenon
    DEF Effect, ServeEffect, FallEffect, SleepEffect, LoseEffect, StopEffect, BeginEffect,
        TakeEffect, SkipEffect, MarkEffect, AcceptEffect, TriggerEffect, Returns, Leaves, Moves

LEMMA AuthStep ==
    ASSUME Good, AuthOwned, NEW i \in Running, Effect(i)
    PROVE  AuthOwned'
<1> SUFFICES ASSUME status' = "Authenticating"
             PROVE  \E k \in DOMAIN pool' : Owner(pool'[k])
    BY DEF AuthOwned, Owner
<1>1. CASE TakeEffect(i)
    BY <1>1 DEF TakeEffect, Moves, Owner, Owning
<1>2. CASE ~TakeEffect(i)
  <2>1. status = "Authenticating" /\ (FinishEffect(i) => ~pool[i].normal)
      BY <1>2 DEF Effect, ServeEffect, FallEffect, SleepEffect, LoseEffect, StopEffect, BeginEffect,
                  SkipEffect, MarkEffect, AcceptEffect, FinishEffect, TriggerEffect, Settled
  <2>2. PICK j \in DOMAIN pool : Owner(pool[j])
      BY <2>1 DEF AuthOwned
  <2>3. CASE j # i
      BY <2>2, <2>3, EffectFollows, OwnersStay
  <2>4. CASE j = i
    <3>1. MarkEffect(i) \/ AcceptEffect(i)
      <4>1. pool[i] \in GoodTask
          BY <2>4 DEF Good
      <4> QED
          BY <1>2, <2>1, <2>2, <2>4, <4>1
          DEF Effect, ServeEffect, FallEffect, SleepEffect, LoseEffect, StopEffect, BeginEffect,
              SkipEffect, FinishEffect, TriggerEffect, Owner, Owning, GoodTask
    <3> QED
        BY <2>2, <2>4, <3>1 DEF MarkEffect, AcceptEffect, Moves, Owner, Owning
  <2> QED
      BY <2>3, <2>4
<1> QED
    BY <1>1, <1>2

LEMMA AuthOutside ==
    ASSUME Good, AuthOwned, OutsideEffect
    PROVE  AuthOwned'
<1>1. 0 \notin DOMAIN pool
    BY DEF Good
<1>2. PICK new : Follows(0, FALSE, new, pool')
    BY DEF OutsideEffect
<1>3. status' = "Authenticating" => status = "Authenticating"
    BY DEF OutsideEffect, Settled
<1> QED
    BY <1>1, <1>2, <1>3, OwnersStay DEF AuthOwned, Owner

-----------------------------------------------------------------------------
(* The authentication that is still to come *)

\* The task will take the lock, whatever the refresh flag becomes - or be misled by it.
Strong(t) == \/ t.pc \in {"stoptimer", "lock"}
             \/ t.pc = "begin" /\ t.kind \notin {"auth", "refresh"}

\* The first authentication has not begun: nothing has set the refresh flag or can do so
\* before it.
Fresh ==
    /\ ~refreshing /\ ~timer
    /\ \A j \in DOMAIN pool : pool[j].kind # "refresh" /\ pool[j].pc \notin Owning
    /\ \E j \in DOMAIN pool : pool[j].kind = "auth" /\ pool[j].pc = "begin"

Recovering ==
    status = "NotAuthenticated" /\ ~misled =>
        (\E j \in DOMAIN pool : Strong(pool[j])) \/ Fresh

LEMMA StrongStay ==
    ASSUME NEW i, NEW drop, NEW new, Follows(i, drop, new, pool'),
           NEW j \in DOMAIN pool \ {i}, Strong(pool[j])
    PROVE  \E k \in DOMAIN pool' : Strong(pool'[k])
BY DEF Follows, Like, Strong

LEMMA FreshStays ==
    ASSUME Fresh, NEW i, NEW drop, NEW new, Follows(i, drop, new, pool'),
           ~refreshing', ~timer',
           \A t \in new : t.kind # "refresh" /\ t.pc \notin Owning,
           i \in DOMAIN pool => ~(pool[i].kind = "auth" /\ pool[i].pc = "begin"),
           ~drop /\ i \in DOMAIN pool' => pool'[i].kind # "refresh" /\ pool'[i].pc \notin Owning
    PROVE  Fresh'
<1>1. \A t, u : Like(t, u) /\ u.kind # "refresh" /\ u.pc \notin Owning =>
        t.kind # "refresh" /\ t.pc \notin Owning
    BY DEF Like, Owning
<1>2. \A t, u : Like(t, u) /\ u.kind = "auth" /\ u.pc = "begin" => t.kind = "auth" /\ t.pc = "begin"
    BY DEF Like
<1>3. \A k \in DOMAIN pool' : pool'[k].kind # "refresh" /\ pool'[k].pc \notin Owning
    BY <1>1 DEF Follows, Fresh
<1>4. \E k \in DOMAIN pool' : pool'[k].kind = "auth" /\ pool'[k].pc = "begin"
    BY <1>2 DEF Follows, Fresh
<1> QED
    BY <1>3, <1>4 DEF Fresh, Owning

\* The same without new tasks.
LEMMA FreshKept ==
    ASSUME Fresh, NEW i, NEW drop, Follows(i, drop, {}, pool'), ~refreshing', ~timer',
           pool[i].pc # "begin",
           ~drop => pool'[i].kind # "refresh" /\ pool'[i].pc \notin Owning
    PROVE  Fresh'
<1>1. PICK none : none = {}
    OBVIOUS
<1>2. /\ Follows(i, drop, none, pool')
      /\ \A t \in none : t.kind # "refresh" /\ t.pc \notin Owning
    BY <1>1
<1> QED
    BY <1>2, FreshStays

LEMMA RecoveryStep ==
    ASSUME Good, Recovering, NEW i \in Running, Effect(i)
    PROVE  Recovering'
<1> SUFFICES ASSUME status' = "NotAuthenticated", ~misled'
             PROVE  (\E k \in DOMAIN pool' : Strong(pool'[k])) \/ Fresh'
    BY DEF Recovering, Strong
<1>0. i \in DOMAIN pool /\ pool[i] \in GoodTask
    BY DEF Good, Running
<1>1. CASE LoseEffect(i)
    BY <1>1 DEF LoseEffect, Moves, Strong
<1>2. CASE ~LoseEffect(i)
  <2>1. ~misled /\ status = "NotAuthenticated"
    <3>1. misled => misled'
        BY DEF Effect, ServeEffect, FallEffect, SleepEffect, LoseEffect, StopEffect, BeginEffect,
               TakeEffect, SkipEffect, MarkEffect, AcceptEffect, FinishEffect, TriggerEffect
    <3>2. status = "NotAuthenticated"
        BY <1>2 DEF Effect, ServeEffect, FallEffect, SleepEffect, StopEffect, BeginEffect,
               TakeEffect, SkipEffect, MarkEffect, AcceptEffect, FinishEffect, TriggerEffect, Settled
    <3> QED
        BY <3>1, <3>2
  <2>2. CASE StopEffect(i)
    <3>1. pool[i].kind \notin {"auth", "refresh"}
        BY <1>0, <2>2 DEF StopEffect, GoodTask, AuthStages
    <3> QED
        BY <2>2, <3>1 DEF StopEffect, Moves, Strong
  <2>3. ASSUME NEW j \in DOMAIN pool, Strong(pool[j]), j # i
        PROVE  \E k \in DOMAIN pool' : Strong(pool'[k])
      BY <2>3, EffectFollows, StrongStay
  <2>4. CASE BeginEffect(i)
    <3>1. CASE ~refreshing
        BY <2>4, <3>1 DEF BeginEffect, Strong
    <3>2. CASE refreshing
      <4>1. pool[i].kind = "auth" /\ pool[i].pc = "begin"
          BY <2>4, <3>2 DEF BeginEffect
      <4>2. PICK j \in DOMAIN pool : Strong(pool[j])
          BY <2>1, <3>2 DEF Recovering, Fresh
      <4> QED
          BY <2>3, <4>1, <4>2 DEF Strong
    <3> QED
        BY <3>1, <3>2
  <2>5. CASE \E j \in DOMAIN pool : Strong(pool[j])
    <3>1. PICK j \in DOMAIN pool : Strong(pool[j])
        BY <2>5
    <3>2. CASE j = i
        BY <1>0, <1>2, <2>1, <2>2, <2>4, <3>1, <3>2
        DEF Effect, ServeEffect, FallEffect, SleepEffect, TakeEffect, SkipEffect, MarkEffect,
            AcceptEffect, FinishEffect, TriggerEffect, Strong, GoodTask
    <3> QED
        BY <2>3, <3>1, <3>2
  <2>6. CASE Fresh
    <3>1. pool[i].kind # "refresh" /\ pool[i].pc \notin Owning
        BY <1>0, <2>6 DEF Fresh
    <3>2. CASE ServeEffect(i)
      <4>1. ~refreshing' /\ ~timer'
          BY <2>6, <3>2 DEF ServeEffect, Fresh
      <4>2. pool[i].pc # "begin"
          BY <3>2 DEF ServeEffect
      <4>3. CASE Leaves(i, {}, pool')
          BY <2>6, <4>1, <4>2, <4>3, FreshKept DEF Leaves
      <4>4. CASE Moves(i, {"wait", "check", "send", "got401", "callback"}, {}, pool')
        <5>1. Follows(i, FALSE, {}, pool') /\ pool'[i].kind # "refresh" /\ pool'[i].pc \notin Owning
            BY <3>1, <4>4 DEF Moves, Owning
        <5> QED
            BY <2>6, <4>1, <4>2, <5>1, FreshKept
      <4> QED
          BY <3>2, <4>3, <4>4 DEF ServeEffect
    <3>3. CASE FallEffect(i) \/ SleepEffect(i)
      <4>1. ~refreshing' /\ ~timer'
          BY <2>6, <3>3 DEF FallEffect, SleepEffect, Fresh
      <4>2. pool[i].pc # "begin"
          BY <3>3 DEF FallEffect, SleepEffect
      <4>3. Follows(i, FALSE, {}, pool') /\ pool'[i].kind # "refresh" /\ pool'[i].pc \notin Owning
          BY <3>1, <3>3 DEF FallEffect, SleepEffect, Moves, Owning
      <4> QED
          BY <2>6, <4>1, <4>2, <4>3, FreshKept
    <3> QED
        BY <1>2, <2>1, <2>2, <2>4, <3>1, <3>2, <3>3
        DEF Effect, TakeEffect, SkipEffect, MarkEffect, AcceptEffect, FinishEffect, TriggerEffect,
            Owning
  <2> QED
      BY <2>1, <2>5, <2>6 DEF Recovering
<1> QED
    BY <1>1, <1>2

LEMMA RecoveryOutside ==
    ASSUME Good, Good', Recovering, OutsideEffect
    PROVE  Recovering'
<1> SUFFICES ASSUME status' = "NotAuthenticated", ~misled'
             PROVE  (\E k \in DOMAIN pool' : Strong(pool'[k])) \/ Fresh'
    BY DEF Recovering, Strong
<1>1. status = "NotAuthenticated" /\ ~misled
    BY DEF OutsideEffect, Settled
<1>2. PICK new \in SUBSET (RequestTasks \cup {NewTask("refresh", "begin")}) :
        (NewTask("refresh", "begin") \in new => timer) /\ Follows(0, FALSE, new, pool')
    BY DEF OutsideEffect
<1>3. 0 \notin DOMAIN pool /\ 0 \notin DOMAIN pool'
    BY DEF Good
<1>4. CASE \E j \in DOMAIN pool : Strong(pool[j])
    BY <1>2, <1>3, <1>4, StrongStay
<1>5. CASE Fresh
  <2>1. ~refreshing' /\ ~timer'
      BY <1>5 DEF OutsideEffect, Fresh
  <2>2. \A t \in new : t.kind # "refresh" /\ t.pc \notin Owning
      BY <1>2, <1>5, NewTasksAreFree DEF Fresh
  <2> QED
      BY <1>2, <1>3, <1>5, <2>1, <2>2, FreshStays
<1> QED
    BY <1>1, <1>4, <1>5 DEF Recovering

-----------------------------------------------------------------------------
(* The invariant and what it is for *)

IInv == Good /\ LockOwned /\ AuthOwned /\ Recovering

LEMMA InitIInv == Init => IInv
<1> SUFFICES ASSUME Init PROVE IInv
    OBVIOUS
<1>1. Good
    BY InitGood
<1>2. /\ pool = << NewTask("auth", "begin") >> /\ status = "NotAuthenticated"
      /\ ~locked /\ ~refreshing /\ ~timer
    BY Zenon DEF Init
<1>3. DOMAIN pool = {1} /\ pool[1].kind = "auth" /\ pool[1].pc = "begin"
    BY <1>2 DEF NewTask
<1>4. LockOwned
    BY <1>2, <1>3 DEF LockOwned, Holding, Owning
<1>5. AuthOwned
    BY <1>2 DEF AuthOwned
<1>6. Recovering
    BY <1>2, <1>3 DEF Recovering, Fresh, Owning
<1> QED
    BY <1>1, <1>4, <1>5, <1>6 DEF IInv

LEMMA NextIInv == IInv /\ [Next]_vars => IInv'
<1> SUFFICES ASSUME IInv, [Next]_vars PROVE IInv'
    OBVIOUS
<1>0. Good /\ Good'
    BY GoodStep DEF IInv
<1>1. CASE UNCHANGED vars
  <2>1. UNCHANGED <<pool, status, locked, refreshing, timer, misled>>
      BY <1>1, Zenon DEF vars
  <2>2. LockOwned' /\ AuthOwned'
      BY <2>1 DEF IInv, LockOwned, AuthOwned, Owner, Holding
  <2>3. Recovering'
      BY <2>1 DEF IInv, Recovering, Strong, Fresh
  <2> QED
      BY <1>0, <2>2, <2>3 DEF IInv
<1>2. CASE Outside
    BY <1>0, <1>2, OutsideEffects, LockOutside, AuthOutside, RecoveryOutside DEF IInv
<1>3. ASSUME NEW i \in Running, RunTask(i) PROVE IInv'
  <2>1. Effect(i)
      BY <1>0, <1>3, RunEffect
  <2> QED
      BY <1>0, <2>1, LockStep, AuthStep, RecoveryStep DEF IInv
<1> QED
    BY <1>1, <1>2, <1>3, NextCases

\* The inductive invariant of status, lock and tasks, for any number of tasks and threads.
THEOREM Invariance == Spec => []IInv
BY InitIInv, NextIInv, PTL DEF Spec

\* The status, the lock and every task of the pool keep their types.
THEOREM TypeCorrect == Spec => []TypeOK
<1>1. Good => TypeOK
  <2>1. GoodTask \subseteq Task
      BY DEF GoodTask
  <2>2. Good => pool \in Seq(Task)
      BY <2>1, SeqMonotonic DEF Good
  <2> QED
      BY <2>2 DEF Good, TypeOK
<1>2. IInv => TypeOK
    BY <1>1 DEF IInv
<1> QED
    BY <1>2, Invariance, PTL

\* m_authMutex has one holder or none, and nobody waits for an authentication that is over.
THEOREM OneAuthentication == Spec => []AuthenticatingIsOwned
<1>1. ASSUME IInv PROVE AuthenticatingIsOwned
  <2>0. \A j \in DOMAIN pool : Holds(j) <=> Holding(pool[j])
      BY DEF Holds, At, Holding, Owning
  <2>1. status = "Authenticating" =>
          \E i \in Running : pool[i].normal /\ pool[i].pc \in {"mark", "token", "accepted"}
    <3>1. SUFFICES ASSUME status = "Authenticating"
                   PROVE  \E i \in Running : pool[i].normal /\ pool[i].pc \in Owning
        BY DEF Owning
    <3>2. PICK j \in DOMAIN pool : Owner(pool[j])
        BY <1>1, <3>1 DEF IInv, AuthOwned
    <3>3. j \in Running
        BY <1>1, <3>2 DEF IInv, LockOwned, Owner, Holding, Running
    <3> QED
        BY <3>2, <3>3 DEF Owner
  <2> DEFINE H == {j \in DOMAIN pool : Holds(j)}
  <2>2. CASE locked
    <3>1. PICK j \in DOMAIN pool : Holding(pool[j])
        BY <1>1, <2>2 DEF IInv, LockOwned
    <3>2. H = {j}
        BY <1>1, <2>0, <3>1 DEF IInv, LockOwned
    <3> QED
        BY <2>1, <2>2, <3>2, FS_Singleton DEF AuthenticatingIsOwned
  <2>3. CASE ~locked
    <3>1. H = {}
        BY <1>1, <2>0, <2>3 DEF IInv, LockOwned
    <3> QED
        BY <2>1, <2>3, <3>1, FS_EmptySet DEF AuthenticatingIsOwned
  <2> QED
      BY <2>2, <2>3
<1> QED
    BY <1>1, Invariance, PTL

\* A status NotAuthenticated always has a task that will authenticate, unless an inline
\* authentication has taken itself for a refresh.
THEOREM LostTokenIsRecovered == Spec => []RecoveryPending
<1>1. ASSUME IInv PROVE RecoveryPending
  <2>1. \A j \in DOMAIN pool : Strong(pool[j]) => WillAuthenticate(j)
      BY DEF Strong, WillAuthenticate, At
  <2>2. \A j \in DOMAIN pool : pool[j].kind = "auth" /\ pool[j].pc = "begin" => WillAuthenticate(j)
      BY DEF WillAuthenticate, At
  <2> QED
      BY <1>1, <2>1, <2>2 DEF IInv, Recovering, Fresh, RecoveryPending
<1> QED
    BY <1>1, Invariance, PTL

=============================================================================
