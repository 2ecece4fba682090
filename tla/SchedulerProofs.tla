-------------------------- MODULE SchedulerProofs --------------------------
(***************************************************************************)
(* Proofs about Scheduler for any number of threads and tasks and for all  *)
(* delays.  SchedulerSafe is inductive.  Of its parts the order of the     *)
(* queue needs an argument about data: in a queue in order of time the     *)
(* entries that are due no later than a new one are the first k of it, and *)
(* k is their number (SoonerIsPrefix), so the place that multimap::insert  *)
(* chooses keeps the order (InsertKeeps).                                  *)
(***************************************************************************)
EXTENDS Scheduler, FiniteSetTheorems, TLAPS

Entry == [f : Task, left : Nat]

Ordered(queue) == \A i, j \in DOMAIN queue : i < j => queue[i].left <= queue[j].left

Distinct(queue) == \A i, j \in DOMAIN queue : queue[i].f = queue[j].f => i = j

Sooner(queue, e) == {i \in DOMAIN queue : queue[i].left <= e.left}

-----------------------------------------------------------------------------
\* A set of positions that has every position before one of its own is an
\* initial segment: as long as it has elements.
LEMMA PrefixSet ==
  ASSUME NEW n \in Nat, NEW S \in SUBSET (1..n),
         \A i \in S : \A j \in 1..n : j < i => j \in S
  PROVE  Cardinality(S) \in 0..n /\ S = 1..Cardinality(S)
  <1>1. IsFiniteSet(1..n) /\ Cardinality(1..n) = n
    BY FS_Interval
  <1>2. IsFiniteSet(S) /\ Cardinality(S) <= n
    BY <1>1, FS_Subset
  <1>3. Cardinality(S) \in Nat
    BY <1>2, FS_CardinalityType
  <1>4. ASSUME NEW i \in S PROVE i <= Cardinality(S)
    <2>1. 1..i \in SUBSET S
      OBVIOUS
    <2>2. Cardinality(1..i) <= Cardinality(S)
      BY <1>2, <2>1, FS_Subset
    <2>3. Cardinality(1..i) = i
      BY FS_Interval
    <2>4. QED
      BY <2>2, <2>3
  <1>5. S \in SUBSET (1..Cardinality(S))
    BY <1>4
  <1>6. IsFiniteSet(1..Cardinality(S)) /\ Cardinality(1..Cardinality(S)) = Cardinality(S)
    BY <1>3, FS_Interval
  <1>7. S = 1..Cardinality(S)
    BY <1>5, <1>6, FS_Subset
  <1>8. QED
    BY <1>2, <1>3, <1>7

LEMMA EntryAt ==
  ASSUME NEW queue \in Seq(Entry), NEW i \in 1..Len(queue)
  PROVE  queue[i] \in Entry /\ queue[i].f \in Task /\ queue[i].left \in Nat
  <1>1. queue[i] \in Entry
    OBVIOUS
  <1>2. QED
    BY <1>1 DEF Entry

\* The entries due no later than e are the first ones of an ordered queue.
LEMMA SoonerIsPrefix ==
  ASSUME NEW queue \in Seq(Entry), Ordered(queue), NEW e \in Entry
  PROVE  /\ Cardinality(Sooner(queue, e)) \in 0..Len(queue)
         /\ Sooner(queue, e) = 1..Cardinality(Sooner(queue, e))
  <1>1. DOMAIN queue = 1..Len(queue) /\ Len(queue) \in Nat
    OBVIOUS
  <1>2. \A i \in 1..Len(queue) : queue[i].left \in Nat
    BY EntryAt
  <1>3. Sooner(queue, e) \in SUBSET (1..Len(queue))
    BY <1>1 DEF Sooner
  <1>4. \A i \in Sooner(queue, e) : \A j \in 1..Len(queue) :
          j < i => j \in Sooner(queue, e)
    BY <1>1, <1>2 DEF Sooner, Ordered, Entry
  <1>5. QED
    BY <1>1, <1>3, <1>4, PrefixSet

\* Insert puts e behind the first k entries and shifts the others.
LEMMA InsertIs ==
  ASSUME NEW queue \in Seq(Entry), Ordered(queue), NEW e \in Entry
  PROVE  LET k == Cardinality(Sooner(queue, e))
             q == Insert(queue, e)
         IN  /\ q \in Seq(Entry)
             /\ Len(q) = Len(queue) + 1
             /\ \A i \in 1..Len(q) :
                  q[i] = IF i <= k THEN queue[i]
                         ELSE IF i = k + 1 THEN e ELSE queue[i - 1]
  <1> DEFINE k == Cardinality(Sooner(queue, e))
             a == SubSeq(queue, 1, k)
             b == SubSeq(queue, k + 1, Len(queue))
  <1>1. k \in 0..Len(queue) /\ Len(queue) \in Nat
    BY SoonerIsPrefix
  <1>2. Insert(queue, e) = a \o <<e>> \o b
    <2>1. Insert(queue, e) = InsertAt(queue, k + 1, e)
      BY DEF Insert, Sooner
    <2>2. InsertAt(queue, k + 1, e) = SubSeq(queue, 1, (k + 1) - 1) \o <<e>> \o b
      BY DEF InsertAt
    <2>3. (k + 1) - 1 = k
      BY <1>1
    <2>4. QED
      BY <2>1, <2>2, <2>3
  <1> HIDE DEF k
  <1>3. /\ a \in Seq(Entry) /\ Len(a) = k
        /\ \A i \in 1..k : a[i] = queue[i]
    BY <1>1
  <1>4. /\ b \in Seq(Entry) /\ Len(b) = Len(queue) - k
        /\ \A i \in 1..(Len(queue) - k) : b[i] = queue[k + i]
    BY <1>1
  <1> HIDE DEF a, b
  <1>5. <<e>> \in Seq(Entry) /\ Len(<<e>>) = 1 /\ <<e>>[1] = e
    OBVIOUS
  <1>6. /\ a \o <<e>> \in Seq(Entry) /\ Len(a \o <<e>>) = k + 1
        /\ \A i \in 1..(k + 1) : (a \o <<e>>)[i] = IF i <= k THEN queue[i] ELSE e
    BY <1>1, <1>3, <1>5
  <1>7. DEFINE c == a \o <<e>>
  <1> HIDE DEF c
  <1>8. /\ c \in Seq(Entry) /\ Len(c) = k + 1
        /\ \A i \in 1..(k + 1) : c[i] = IF i <= k THEN queue[i] ELSE e
    BY <1>6 DEF c
  <1>9. /\ c \o b \in Seq(Entry) /\ Len(c \o b) = Len(queue) + 1
        /\ \A i \in 1..(Len(queue) + 1) :
             (c \o b)[i] = IF i <= k + 1 THEN c[i] ELSE b[i - (k + 1)]
    BY <1>1, <1>4, <1>8
  <1>10. \A i \in 1..(Len(queue) + 1) :
           (c \o b)[i] = IF i <= k THEN queue[i]
                         ELSE IF i = k + 1 THEN e ELSE queue[i - 1]
    <2> SUFFICES ASSUME NEW i \in 1..(Len(queue) + 1)
                 PROVE  (c \o b)[i] = IF i <= k THEN queue[i]
                                      ELSE IF i = k + 1 THEN e ELSE queue[i - 1]
      OBVIOUS
    <2>1. CASE i <= k + 1
      BY <1>1, <1>8, <1>9, <2>1
    <2>2. CASE i > k + 1
      <3>1. i - (k + 1) \in 1..(Len(queue) - k) /\ k + (i - (k + 1)) = i - 1
        BY <1>1, <2>2
      <3>2. b[i - (k + 1)] = queue[i - 1]
        BY <1>4, <3>1
      <3>3. QED
        BY <1>1, <1>9, <2>2, <3>2
    <2>3. i \in Int /\ k + 1 \in Int
      BY <1>1
    <2>4. i <= k + 1 \/ i > k + 1
      BY <2>3
    <2>5. QED
      BY <2>1, <2>2, <2>4
  <1>11. QED
    BY <1>2, <1>9, <1>10 DEF c, k

\* Inserting into an ordered queue keeps the order, adds e.f to the tasks of
\* the queue and, if it was not among them, keeps them distinct.
LEMMA InsertKeeps ==
  ASSUME NEW queue \in Seq(Entry), Ordered(queue), NEW e \in Entry
  PROVE  /\ Insert(queue, e) \in Seq(Entry)
         /\ Insert(queue, e) # <<>>
         /\ Ordered(Insert(queue, e))
         /\ \A i \in DOMAIN Insert(queue, e) :
              \/ Insert(queue, e)[i].f = e.f
              \/ \E j \in DOMAIN queue : Insert(queue, e)[i].f = queue[j].f
         /\ Distinct(queue) /\ (\A i \in DOMAIN queue : queue[i].f # e.f) =>
              Distinct(Insert(queue, e))
  <1> DEFINE k == Cardinality(Sooner(queue, e))
             q == Insert(queue, e)
             n == Len(queue)
  <1>1. k \in 0..n /\ n \in Nat /\ DOMAIN queue = 1..n
    BY SoonerIsPrefix
  <1>2. \A i \in 1..n : queue[i] \in Entry /\ queue[i].left \in Nat
    BY EntryAt
  <1>3. \A i \in 1..n : queue[i].left <= e.left <=> i <= k
    <2>1. \A i \in 1..n : i \in Sooner(queue, e) <=> i \in 1..k
      BY SoonerIsPrefix
    <2>2. QED
      BY <1>1, <2>1 DEF Sooner
  <1>4. /\ q \in Seq(Entry) /\ Len(q) = n + 1
        /\ \A i \in 1..(n + 1) : q[i] = IF i <= k THEN queue[i]
                                        ELSE IF i = k + 1 THEN e ELSE queue[i - 1]
    BY InsertIs
  <1> HIDE DEF k, q, n
  <1>5. DOMAIN q = 1..(n + 1) /\ q # <<>>
    BY <1>1, <1>4
  <1>6. e.left \in Nat
    BY DEF Entry
  <1>7. Ordered(q)
    <2> SUFFICES ASSUME NEW i \in 1..(n + 1), NEW j \in 1..(n + 1), i < j
                 PROVE  q[i].left <= q[j].left
      BY <1>5 DEF Ordered
    <2>0. \A x, y \in 1..n : x < y => queue[x].left <= queue[y].left
      BY <1>1 DEF Ordered
    <2>1. CASE j <= k
      BY <1>1, <1>4, <2>0, <2>1
    <2>2. CASE j = k + 1
      BY <1>1, <1>3, <1>4, <2>2
    <2>3. CASE j > k + 1 /\ i <= k
      BY <1>1, <1>4, <2>0, <2>3
    <2>4. CASE j > k + 1 /\ i = k + 1
      <3>1. j - 1 \in 1..n /\ ~(j - 1 <= k)
        BY <1>1, <2>4
      <3>2. ~(queue[j - 1].left <= e.left) /\ queue[j - 1].left \in Nat
        BY <1>2, <1>3, <3>1
      <3>3. q[i] = e /\ q[j] = queue[j - 1]
        BY <1>1, <1>4, <2>4
      <3>4. QED
        BY <1>6, <3>2, <3>3
    <2>5. CASE j > k + 1 /\ i > k + 1
      BY <1>1, <1>4, <2>0, <2>5
    <2>6. QED
      BY <1>1, <2>1, <2>2, <2>3, <2>4, <2>5
  <1>8. \A i \in 1..(n + 1) : q[i] = e \/ \E j \in 1..n : q[i] = queue[j]
    BY <1>1, <1>4
  <1>9. ASSUME Distinct(queue), \A i \in 1..n : queue[i].f # e.f
        PROVE  Distinct(q)
    <2> SUFFICES ASSUME NEW i \in 1..(n + 1), NEW j \in 1..(n + 1), i < j,
                        q[i].f = q[j].f
                 PROVE  FALSE
      BY <1>1, <1>5 DEF Distinct
    <2>0. \A x, y \in 1..n : queue[x].f = queue[y].f => x = y
      BY <1>1, <1>9 DEF Distinct
    <2>1. CASE j <= k
      BY <1>1, <1>4, <2>0, <2>1
    <2>2. CASE j = k + 1
      BY <1>1, <1>4, <1>9, <2>2
    <2>3. CASE j > k + 1 /\ i <= k
      BY <1>1, <1>4, <2>0, <2>3
    <2>4. CASE j > k + 1 /\ i = k + 1
      BY <1>1, <1>4, <1>9, <2>4
    <2>5. CASE j > k + 1 /\ i > k + 1
      BY <1>1, <1>4, <2>0, <2>5
    <2>6. QED
      BY <1>1, <2>1, <2>2, <2>3, <2>4, <2>5
  <1>10. QED
    BY <1>1, <1>4, <1>5, <1>7, <1>8, <1>9 DEF q

-----------------------------------------------------------------------------
States == {"loop", "wait", "timed", "timeout", "run", "notify", "ended"}

LEMMA WaitingIs ==
  ASSUME SchedulerTypeOK
  PROVE  \A t \in Service : t \in Waiting <=> pc[t] \in {"wait", "timed"}
  BY DEF Waiting

\* notify_one: one of the waiting threads goes back to its loop, if there is
\* one; the others are where now says.
LEMMA NotifyOneDoes ==
  ASSUME SchedulerTypeOK, NEW now \in [Service -> States], NotifyOne(now)
  PROVE  /\ pc' \in [Service -> States]
         /\ \A t \in Service : pc'[t] = now[t] \/ (t \in Waiting /\ pc'[t] = "loop")
         /\ Waiting = {} \/ \E t \in Service : pc'[t] = "loop"
  <1>1. CASE Waiting = {}
    BY <1>1 DEF NotifyOne
  <1>2. CASE Waiting # {}
    <2>1. PICK t \in Waiting : pc' = [now EXCEPT ![t] = "loop"]
      BY <1>2 DEF NotifyOne
    <2>2. t \in Service
      BY DEF Waiting
    <2>3. QED
      BY <2>1, <2>2 DEF States
  <1>3. QED
    BY <1>1, <1>2

\* A step that touches neither the queue nor a running task, and starts none.
LEMMA OnceKept ==
  ASSUME AtMostOnce, UNCHANGED taskQueue,
         \A t \in Service : pc'[t] = "run" => pc[t] = "run" /\ f'[t] = f[t]
  PROVE  AtMostOnce'
  BY DEF AtMostOnce, Queued

\* Only a thread that finds the queue empty begins to wait, and one that
\* ends wakes another: what a step of a thread does to the waiting ones.
LEMMA WakeupKept ==
  ASSUME SchedulerTypeOK, NoLostWakeup, StopWakesAll,
         UNCHANGED <<stopRequested, owner>>,
         taskQueue' # <<>> => taskQueue # <<>>,
         pc' \in [Service -> States],
         NEW t \in Service,
         pc[t] \notin {"wait", "ended"},
         \A u \in Service \ {t} : pc'[u] = pc[u] \/ (u \in Waiting /\ pc'[u] = "loop"),
         pc'[t] = "wait" => taskQueue' = <<>> /\ ~stopRequested,
         pc'[t] = "timed" => ~stopRequested \/ pc[t] = "timed",
         pc'[t] = "ended" => Waiting = {} \/ \E u \in Service : pc'[u] = "loop"
  PROVE  NoLostWakeup' /\ StopWakesAll'
  <1>1. NoLostWakeup'
    <2> SUFFICES ASSUME taskQueue' # <<>>, NEW w \in Service, pc'[w] = "wait"
                 PROVE  \E u \in Service : pc'[u] \notin {"wait", "ended"}
      BY DEF NoLostWakeup
    <2>1. CASE pc'[t] = "ended"
      <3>1. w # t /\ pc[w] = "wait"
        BY <2>1
      <3>2. Waiting # {}
        BY <3>1 DEF Waiting
      <3>3. QED
        BY <2>1, <3>2
    <2>2. CASE pc'[t] # "ended"
      BY <2>2
    <2>3. QED
      BY <2>1, <2>2
  <1>2. StopWakesAll'
    <2> SUFFICES ASSUME stopRequested, owner # "all", NEW w \in Service,
                        pc'[w] \in {"wait", "timed"}
                 PROVE  FALSE
      BY DEF StopWakesAll, Waiting
    <2>1. pc[w] \notin {"wait", "timed"}
      BY DEF StopWakesAll, Waiting
    <2>2. QED
      BY <2>1
  <1>3. QED
    BY <1>1, <1>2

-----------------------------------------------------------------------------
LEMMA InitSafe == Init => SchedulerSafe
  <1> SUFFICES ASSUME Init PROVE SchedulerSafe
    OBVIOUS
  <1>1. SchedulerTypeOK
    <2>1. taskQueue \in Seq(Entry)
      BY DEF Init
    <2>2. stopRequested \in BOOLEAN /\ stopWhenEmpty \in BOOLEAN
      BY DEF Init
    <2>3. QED
      BY <2>1, <2>2 DEF Init, SchedulerTypeOK, Entry
  <1>2. DOMAIN taskQueue = {} /\ \A t \in Service : pc[t] = "loop"
    BY DEF Init
  <1>3. InTimeOrder /\ AtMostOnce /\ NoLostWakeup /\ StopWakesAll
    BY <1>2 DEF Init, InTimeOrder, AtMostOnce, NoLostWakeup, StopWakesAll
  <1>4. QED
    BY <1>1, <1>3 DEF SchedulerSafe

LEMMA ScheduleSafe ==
  ASSUME SchedulerSafe, NEW g \in Task, Schedule(g)
  PROVE  SchedulerSafe'
  <1> DEFINE e == [f |-> g, left |-> Delay[g]]
  <1>1. SchedulerTypeOK /\ Ordered(taskQueue) /\ Distinct(taskQueue)
    BY DEF SchedulerSafe, InTimeOrder, AtMostOnce, Ordered, Distinct
  <1>2. e \in Entry /\ e.f = g /\ taskQueue \in Seq(Entry)
    BY <1>1, SchedulerAssumption DEF Entry, SchedulerTypeOK
  <1>3. taskQueue' = Insert(taskQueue, e)
    BY DEF Schedule
  <1>4. ~Queued(g) /\ ~Runs(g) /\ owner = "none" /\ owner' = "one"
        /\ UNCHANGED <<pc, timeToWaitFor, f, stopRequested, stopWhenEmpty>>
    BY DEF Schedule
  <1>5. \A i \in DOMAIN taskQueue : taskQueue[i].f # e.f
    BY <1>2, <1>4 DEF Queued
  <1> HIDE DEF e
  <1>6. /\ taskQueue' \in Seq(Entry)
        /\ Ordered(taskQueue') /\ Distinct(taskQueue')
        /\ \A i \in DOMAIN taskQueue' :
             \/ taskQueue'[i].f = g
             \/ \E j \in DOMAIN taskQueue : taskQueue'[i].f = taskQueue[j].f
    BY <1>1, <1>2, <1>3, <1>5, InsertKeeps
  <1>7. SchedulerTypeOK'
    BY <1>1, <1>4, <1>6 DEF SchedulerTypeOK, Entry
  <1>8. AtMostOnce'
    <2>1. \A t \in Service : pc[t] = "run" => f[t] \in Task /\ ~Queued(f[t]) /\ f[t] # g
      BY <1>4 DEF SchedulerSafe, AtMostOnce, Runs
    <2>2. \A t \in Service : pc'[t] = "run" => f'[t] \in Task /\ ~Queued(f[t])'
      BY <1>4, <1>6, <2>1 DEF Queued
    <2>3. QED
      BY <1>4, <1>6, <2>2 DEF SchedulerSafe, AtMostOnce, Distinct
  <1>9. QED
    BY <1>4, <1>6, <1>7, <1>8
       DEF SchedulerSafe, InTimeOrder, Ordered, NoLostWakeup, StopWakesAll, Waiting

LEMMA StopSafe ==
  ASSUME SchedulerSafe, NEW drain \in BOOLEAN, Stop(drain)
  PROVE  SchedulerSafe'
  <1>1. SchedulerTypeOK'
    BY DEF SchedulerSafe, SchedulerTypeOK, Stop
  <1>2. InTimeOrder' /\ AtMostOnce'
    BY DEF SchedulerSafe, InTimeOrder, AtMostOnce, Queued, Stop
  <1>3. NoLostWakeup' /\ StopWakesAll'
    BY DEF SchedulerSafe, NoLostWakeup, StopWakesAll, Stop
  <1>4. QED
    BY <1>1, <1>2, <1>3 DEF SchedulerSafe

LEMMA NotifySafe ==
  ASSUME SchedulerSafe, Notify
  PROVE  SchedulerSafe'
  <1>1. SchedulerTypeOK /\ pc \in [Service -> States] /\ owner' = "none"
        /\ UNCHANGED <<taskQueue, timeToWaitFor, f, stopRequested, stopWhenEmpty>>
    BY DEF SchedulerSafe, SchedulerTypeOK, States, Notify
  <1>2. /\ pc' \in [Service -> States]
        /\ \A t \in Service : pc'[t] = pc[t] \/ (t \in Waiting /\ pc'[t] = "loop")
        /\ \/ owner = "one" /\ (Waiting = {} \/ \E t \in Service : pc'[t] = "loop")
           \/ owner = "all" /\ \A t \in Waiting : pc'[t] = "loop"
    <2>1. CASE owner = "one" /\ NotifyOne(pc)
      BY <1>1, <2>1, NotifyOneDoes
    <2>2. CASE owner = "all"
               /\ pc' = [t \in Service |-> IF t \in Waiting THEN "loop" ELSE pc[t]]
      BY <1>1, <2>2 DEF States, Waiting
    <2>3. QED
      BY <2>1, <2>2 DEF Notify
  <1>3. SchedulerTypeOK'
    BY <1>1, <1>2 DEF SchedulerTypeOK, States
  <1>4. InTimeOrder'
    BY <1>1 DEF SchedulerSafe, InTimeOrder
  <1>5. AtMostOnce'
    BY <1>1, <1>2, OnceKept DEF SchedulerSafe
  <1>6. NoLostWakeup'
    <2> SUFFICES ASSUME taskQueue' # <<>>, NEW w \in Service, pc'[w] = "wait"
                 PROVE  \E u \in Service : pc'[u] \notin {"wait", "ended"}
      BY DEF NoLostWakeup
    <2>1. pc[w] = "wait" /\ w \in Waiting
      BY <1>2 DEF Waiting
    <2>2. QED
      BY <1>2, <2>1
  <1>7. StopWakesAll'
    <2> SUFFICES ASSUME stopRequested, NEW w \in Service, pc'[w] \in {"wait", "timed"}
                 PROVE  FALSE
      BY <1>1 DEF StopWakesAll, Waiting
    <2>1. w \in Waiting
      BY <1>2 DEF Waiting
    <2>2. owner # "all" => Waiting = {}
      BY DEF SchedulerSafe, StopWakesAll
    <2>3. QED
      BY <1>2, <2>1, <2>2
  <1>8. QED
    BY <1>3, <1>4, <1>5, <1>6, <1>7 DEF SchedulerSafe

LEMMA WaitSafe ==
  ASSUME SchedulerSafe, NEW t \in Service, WaitStep(t)
  PROVE  SchedulerSafe'
  <1>1. /\ SchedulerTypeOK /\ pc[t] = "loop" /\ ~stopRequested
        /\ UNCHANGED <<taskQueue, f, stopRequested, stopWhenEmpty, owner>>
    BY DEF SchedulerSafe, WaitStep, Wait, shouldStop
  <1>2. /\ pc' \in [Service -> States]
        /\ \A u \in Service \ {t} : pc'[u] = pc[u]
        /\ (pc'[t] = "wait" /\ taskQueue = <<>>) \/ pc'[t] = "timed"
    BY <1>1 DEF SchedulerTypeOK, WaitStep, Wait, States
  <1>3. timeToWaitFor' \in [Service -> Nat]
    <2>1. CASE taskQueue = <<>>
      BY <1>1, <2>1 DEF WaitStep, Wait, SchedulerTypeOK
    <2>2. CASE taskQueue # <<>>
      <3>1. taskQueue \in Seq(Entry) /\ 1 \in 1..Len(taskQueue) /\ Head(taskQueue) = taskQueue[1]
        BY <1>1, <2>2 DEF SchedulerTypeOK, Entry
      <3>2. Head(taskQueue).left \in Nat
        BY <3>1, EntryAt
      <3>3. QED
        BY <1>1, <2>2, <3>2 DEF WaitStep, Wait, SchedulerTypeOK
    <2>3. QED
      BY <2>1, <2>2
  <1>4. SchedulerTypeOK'
    BY <1>1, <1>2, <1>3 DEF SchedulerTypeOK, States
  <1>5. InTimeOrder'
    BY <1>1 DEF SchedulerSafe, InTimeOrder
  <1>6. AtMostOnce'
    BY <1>1, <1>2, OnceKept DEF SchedulerSafe
  <1>7. NoLostWakeup' /\ StopWakesAll'
    BY <1>1, <1>2, WakeupKept DEF SchedulerSafe
  <1>8. QED
    BY <1>4, <1>5, <1>6, <1>7 DEF SchedulerSafe

LEMMA TimeOutSafe ==
  ASSUME SchedulerSafe, NEW t \in Service, TimeOut(t)
  PROVE  SchedulerSafe'
  <1>1. /\ SchedulerTypeOK /\ pc[t] = "timed"
        /\ UNCHANGED <<taskQueue, timeToWaitFor, f, stopRequested, stopWhenEmpty, owner>>
    BY DEF SchedulerSafe, TimeOut
  <1>2. /\ pc' \in [Service -> States] /\ pc'[t] = "timeout"
        /\ \A u \in Service \ {t} : pc'[u] = pc[u]
    BY <1>1 DEF SchedulerTypeOK, TimeOut, States
  <1>3. SchedulerTypeOK'
    BY <1>1, <1>2 DEF SchedulerTypeOK, States
  <1>4. InTimeOrder'
    BY <1>1 DEF SchedulerSafe, InTimeOrder
  <1>5. AtMostOnce'
    BY <1>1, <1>2, OnceKept DEF SchedulerSafe
  <1>6. NoLostWakeup' /\ StopWakesAll'
    BY <1>1, <1>2, WakeupKept DEF SchedulerSafe
  <1>7. QED
    BY <1>3, <1>4, <1>5, <1>6 DEF SchedulerSafe

\* The head of the queue leaves it and runs: it was nowhere else.
LEMMA TakeSafe ==
  ASSUME SchedulerSafe, NEW t \in Service, Take(t)
  PROVE  SchedulerSafe'
  <1>1. /\ SchedulerTypeOK /\ pc[t] = "timeout"
        /\ UNCHANGED <<timeToWaitFor, stopRequested, stopWhenEmpty, owner>>
    BY DEF SchedulerSafe, Take
  <1>2. CASE shouldStop \/ taskQueue = <<>>
    <2>1. /\ pc' \in [Service -> States] /\ pc'[t] = "loop"
          /\ \A u \in Service \ {t} : pc'[u] = pc[u]
          /\ UNCHANGED <<taskQueue, f>>
      BY <1>1, <1>2 DEF SchedulerTypeOK, Take, States
    <2>2. SchedulerTypeOK'
      BY <1>1, <2>1 DEF SchedulerTypeOK, States
    <2>3. InTimeOrder'
      BY <2>1 DEF SchedulerSafe, InTimeOrder
    <2>4. AtMostOnce'
      BY <2>1, OnceKept DEF SchedulerSafe
    <2>5. NoLostWakeup' /\ StopWakesAll'
      BY <1>1, <2>1, WakeupKept DEF SchedulerSafe
    <2>6. QED
      BY <2>2, <2>3, <2>4, <2>5 DEF SchedulerSafe
  <1>3. CASE ~shouldStop /\ taskQueue # <<>>
    <2> DEFINE h == taskQueue[1].f
               n == Len(taskQueue)
    <2>1. taskQueue \in Seq(Entry) /\ n \in Nat /\ n > 0 /\ Head(taskQueue) = taskQueue[1]
      BY <1>1, <1>3 DEF SchedulerTypeOK, Entry
    <2>2. h \in Task /\ 1 \in DOMAIN taskQueue /\ DOMAIN taskQueue = 1..n
      BY <2>1, EntryAt
    <2>3. /\ taskQueue' \in Seq(Entry) /\ Len(taskQueue') = n - 1
          /\ DOMAIN taskQueue' = 1..(n - 1)
          /\ \A i \in 1..(n - 1) : taskQueue'[i] = taskQueue[i + 1]
      <3>1. taskQueue' = Tail(taskQueue)
        BY <1>3 DEF Take
      <3>2. QED
        BY <2>1, <3>1
    <2>4. /\ pc' \in [Service -> States] /\ pc'[t] = "run"
          /\ \A u \in Service \ {t} : pc'[u] = pc[u]
          /\ f' \in [Service -> Task \cup {"none"}] /\ f'[t] = h
          /\ \A u \in Service \ {t} : f'[u] = f[u]
      BY <1>1, <1>3, <2>1, <2>2 DEF SchedulerTypeOK, Take, States
    <2> HIDE DEF h, n
    <2>5. SchedulerTypeOK'
      BY <1>1, <2>3, <2>4 DEF SchedulerTypeOK, States, Entry
    <2>6. InTimeOrder'
      <3> SUFFICES ASSUME NEW i \in 1..(n - 1), NEW j \in 1..(n - 1), i < j
                   PROVE  taskQueue'[i].left <= taskQueue'[j].left
        BY <2>3 DEF InTimeOrder
      <3>1. i + 1 \in 1..n /\ j + 1 \in 1..n /\ i + 1 < j + 1
        BY <2>1 DEF n
      <3>2. QED
        BY <2>2, <2>3, <3>1 DEF SchedulerSafe, InTimeOrder
    <2>7. AtMostOnce'
      <3>1. \A i \in 1..(n - 1) : i \in Int /\ i + 1 \in 2..n /\ i + 1 \in DOMAIN taskQueue
        BY <2>1, <2>2 DEF n
      <3>2. Distinct(taskQueue)
        BY DEF SchedulerSafe, AtMostOnce, Distinct
      <3>3. Distinct(taskQueue')
        <4> SUFFICES ASSUME NEW i \in 1..(n - 1), NEW j \in 1..(n - 1),
                            taskQueue'[i].f = taskQueue'[j].f
                     PROVE  i = j
          BY <2>3 DEF Distinct
        <4>1. i + 1 = j + 1
          BY <2>3, <3>1, <3>2 DEF Distinct
        <4>2. QED
          BY <3>1, <4>1
      <3>4. \A i \in 1..(n - 1) : taskQueue'[i].f # h
        <4> SUFFICES ASSUME NEW i \in 1..(n - 1), taskQueue'[i].f = h PROVE FALSE
          OBVIOUS
        <4>1. i + 1 = 1
          BY <2>2, <2>3, <3>1, <3>2 DEF Distinct, h
        <4>2. QED
          BY <3>1, <4>1
      <3>5. \A u \in Service : pc[u] = "run" => f[u] \in Task /\ ~Queued(f[u]) /\ f[u] # h
        BY <2>2 DEF SchedulerSafe, AtMostOnce, Queued, h
      <3>6. \A u \in Service : pc'[u] = "run" => f'[u] \in Task /\ ~Queued(f[u])'
        <4> SUFFICES ASSUME NEW u \in Service, pc'[u] = "run"
                     PROVE  f'[u] \in Task
                            /\ \A i \in 1..(n - 1) : taskQueue'[i].f # f'[u]
          BY <2>3 DEF Queued
        <4>1. CASE u = t
          BY <2>2, <2>4, <3>4, <4>1
        <4>2. CASE u # t
          BY <2>3, <2>4, <3>1, <3>5, <4>2 DEF Queued
        <4>3. QED
          BY <4>1, <4>2
      <3>7. \A u, w \in Service : pc'[u] = "run" /\ pc'[w] = "run" /\ f'[u] = f'[w] => u = w
        BY <2>4, <3>5 DEF SchedulerSafe, AtMostOnce
      <3>8. QED
        BY <3>3, <3>6, <3>7 DEF AtMostOnce, Distinct
    <2>8. NoLostWakeup' /\ StopWakesAll'
      BY <1>1, <1>3, <2>4, WakeupKept DEF SchedulerSafe
    <2>9. QED
      BY <2>5, <2>6, <2>7, <2>8 DEF SchedulerSafe
  <1>4. QED
    BY <1>2, <1>3

\* A periodic task goes back into the queue, where it was not while it ran.
LEMMA FinishSafe ==
  ASSUME SchedulerSafe, NEW t \in Service, Finish(t)
  PROVE  SchedulerSafe'
  <1>1. /\ SchedulerTypeOK /\ pc[t] = "run"
        /\ UNCHANGED <<timeToWaitFor, stopRequested, stopWhenEmpty, owner>>
    BY DEF SchedulerSafe, Finish
  <1>2. f[t] \in Task /\ ~Queued(f[t])
    BY <1>1 DEF SchedulerSafe, AtMostOnce
  <1>3. CASE f[t] \in Periodic
    <2> DEFINE e == [f |-> f[t], left |-> Delay[f[t]]]
    <2>1. Ordered(taskQueue) /\ Distinct(taskQueue) /\ taskQueue \in Seq(Entry)
      BY DEF SchedulerSafe, SchedulerTypeOK, InTimeOrder, AtMostOnce, Ordered, Distinct,
         Entry
    <2>2. e \in Entry /\ e.f = f[t] /\ \A i \in DOMAIN taskQueue : taskQueue[i].f # e.f
      BY <1>2, SchedulerAssumption DEF Entry, Queued
    <2>3. taskQueue' = Insert(taskQueue, e) /\ UNCHANGED f
      BY <1>3 DEF Finish
    <2> HIDE DEF e
    <2>4. /\ taskQueue' \in Seq(Entry)
          /\ Ordered(taskQueue') /\ Distinct(taskQueue')
          /\ \A i \in DOMAIN taskQueue' :
               \/ taskQueue'[i].f = f[t]
               \/ \E j \in DOMAIN taskQueue : taskQueue'[i].f = taskQueue[j].f
      BY <2>1, <2>2, <2>3, InsertKeeps
    <2>5. /\ pc' \in [Service -> States] /\ pc'[t] = "notify"
          /\ \A u \in Service \ {t} : pc'[u] = pc[u]
      BY <1>1, <1>3 DEF SchedulerTypeOK, Finish, States
    <2>6. SchedulerTypeOK'
      BY <1>1, <2>3, <2>4, <2>5 DEF SchedulerTypeOK, States, Entry
    <2>7. AtMostOnce'
      <3>1. \A u \in Service \ {t} :
              pc[u] = "run" => f[u] \in Task /\ ~Queued(f[u]) /\ f[u] # f[t]
        BY <1>1 DEF SchedulerSafe, AtMostOnce
      <3>2. \A u \in Service : pc'[u] = "run" => f'[u] \in Task /\ ~Queued(f[u])'
        BY <2>3, <2>4, <2>5, <3>1 DEF Queued
      <3>3. \A u, w \in Service : pc'[u] = "run" /\ pc'[w] = "run" /\ f'[u] = f'[w] => u = w
        BY <2>3, <2>5 DEF SchedulerSafe, AtMostOnce
      <3>4. QED
        BY <2>4, <3>2, <3>3 DEF AtMostOnce, Distinct
    <2>8. NoLostWakeup' /\ StopWakesAll'
      BY <1>1, <2>5 DEF SchedulerSafe, NoLostWakeup, StopWakesAll, Waiting
    <2>9. QED
      BY <2>4, <2>6, <2>7, <2>8 DEF SchedulerSafe, InTimeOrder, Ordered
  <1>4. CASE f[t] \notin Periodic
    <2>1. /\ pc' \in [Service -> States] /\ pc'[t] = "loop"
          /\ \A u \in Service \ {t} : pc'[u] = pc[u] /\ f'[u] = f[u]
          /\ f' \in [Service -> Task \cup {"none"}]
          /\ UNCHANGED taskQueue
      BY <1>1, <1>4 DEF SchedulerTypeOK, Finish, States
    <2>2. SchedulerTypeOK'
      BY <1>1, <2>1 DEF SchedulerTypeOK, States
    <2>3. InTimeOrder'
      BY <2>1 DEF SchedulerSafe, InTimeOrder
    <2>4. AtMostOnce'
      BY <2>1, OnceKept DEF SchedulerSafe
    <2>5. NoLostWakeup' /\ StopWakesAll'
      BY <1>1, <2>1, WakeupKept DEF SchedulerSafe
    <2>6. QED
      BY <2>2, <2>3, <2>4, <2>5 DEF SchedulerSafe
  <1>5. QED
    BY <1>3, <1>4

LEMMA RescheduledSafe ==
  ASSUME SchedulerSafe, NEW t \in Service, Rescheduled(t)
  PROVE  SchedulerSafe'
  <1> DEFINE now == [pc EXCEPT ![t] = "loop"]
  <1>1. /\ SchedulerTypeOK /\ pc[t] = "notify" /\ NotifyOne(now)
        /\ UNCHANGED <<taskQueue, timeToWaitFor, stopRequested, stopWhenEmpty, owner>>
    BY DEF SchedulerSafe, Rescheduled
  <1>2. /\ now \in [Service -> States] /\ now[t] = "loop"
        /\ \A u \in Service \ {t} : now[u] = pc[u]
    BY <1>1 DEF SchedulerTypeOK, States
  <1> HIDE DEF now
  <1>3. /\ pc' \in [Service -> States] /\ pc'[t] = "loop"
        /\ \A u \in Service \ {t} : pc'[u] = pc[u] \/ (u \in Waiting /\ pc'[u] = "loop")
    BY <1>1, <1>2, NotifyOneDoes
  <1>4. /\ f' \in [Service -> Task \cup {"none"}]
        /\ \A u \in Service \ {t} : f'[u] = f[u]
    BY <1>1 DEF SchedulerTypeOK, Rescheduled
  <1>5. SchedulerTypeOK'
    BY <1>1, <1>3, <1>4 DEF SchedulerTypeOK, States
  <1>6. InTimeOrder'
    BY <1>1 DEF SchedulerSafe, InTimeOrder
  <1>7. AtMostOnce'
    BY <1>1, <1>3, <1>4, OnceKept DEF SchedulerSafe
  <1>8. NoLostWakeup' /\ StopWakesAll'
    BY <1>1, <1>3, WakeupKept DEF SchedulerSafe
  <1>9. QED
    BY <1>5, <1>6, <1>7, <1>8 DEF SchedulerSafe

\* A thread that ends passes the notification on.
LEMMA LeaveSafe ==
  ASSUME SchedulerSafe, NEW t \in Service, Leave(t)
  PROVE  SchedulerSafe'
  <1> DEFINE now == [pc EXCEPT ![t] = "ended"]
  <1>1. /\ SchedulerTypeOK /\ pc[t] = "loop" /\ NotifyOne(now)
        /\ UNCHANGED <<taskQueue, timeToWaitFor, f, stopRequested, stopWhenEmpty, owner>>
    BY DEF SchedulerSafe, Leave
  <1>2. /\ now \in [Service -> States] /\ now[t] = "ended"
        /\ \A u \in Service \ {t} : now[u] = pc[u]
    BY <1>1 DEF SchedulerTypeOK, States
  <1> HIDE DEF now
  <1>3. /\ pc' \in [Service -> States] /\ pc'[t] \in {"ended", "loop"}
        /\ \A u \in Service \ {t} : pc'[u] = pc[u] \/ (u \in Waiting /\ pc'[u] = "loop")
        /\ Waiting = {} \/ \E u \in Service : pc'[u] = "loop"
    BY <1>1, <1>2, NotifyOneDoes
  <1>4. SchedulerTypeOK'
    BY <1>1, <1>3 DEF SchedulerTypeOK, States
  <1>5. InTimeOrder'
    BY <1>1 DEF SchedulerSafe, InTimeOrder
  <1>6. AtMostOnce'
    BY <1>1, <1>3, OnceKept DEF SchedulerSafe
  <1>7. NoLostWakeup' /\ StopWakesAll'
    BY <1>1, <1>3, WakeupKept DEF SchedulerSafe
  <1>8. QED
    BY <1>4, <1>5, <1>6, <1>7 DEF SchedulerSafe

LEMMA WakeSafe ==
  ASSUME SchedulerSafe, NEW t \in Service, Wake(t)
  PROVE  SchedulerSafe'
  <1>1. /\ SchedulerTypeOK
        /\ UNCHANGED <<taskQueue, timeToWaitFor, f, stopRequested, stopWhenEmpty, owner>>
    BY DEF SchedulerSafe, Wake
  <1>2. /\ pc' \in [Service -> States] /\ pc'[t] = "loop"
        /\ \A u \in Service \ {t} : pc'[u] = pc[u]
    BY <1>1 DEF SchedulerTypeOK, Wake, States
  <1>3. SchedulerTypeOK'
    BY <1>1, <1>2 DEF SchedulerTypeOK, States
  <1>4. InTimeOrder'
    BY <1>1 DEF SchedulerSafe, InTimeOrder
  <1>5. AtMostOnce'
    BY <1>1, <1>2, OnceKept DEF SchedulerSafe
  <1>6. NoLostWakeup' /\ StopWakesAll'
    BY <1>1, <1>2 DEF SchedulerSafe, NoLostWakeup, StopWakesAll, Waiting
  <1>7. QED
    BY <1>3, <1>4, <1>5, <1>6 DEF SchedulerSafe

\* Time passes for all entries alike: what is due stays due.
LEMMA TickSafe ==
  ASSUME SchedulerSafe, Tick
  PROVE  SchedulerSafe'
  <1> DEFINE Less(k) == IF k = 0 THEN 0 ELSE k - 1
             n == Len(taskQueue)
  <1>1. /\ SchedulerTypeOK
        /\ taskQueue' = [i \in DOMAIN taskQueue |-> [taskQueue[i] EXCEPT !.left = Less(@)]]
        /\ timeToWaitFor' = [t \in Service |-> Less(timeToWaitFor[t])]
        /\ UNCHANGED <<pc, f, stopRequested, stopWhenEmpty, owner>>
    BY DEF SchedulerSafe, Tick
  <1>2. taskQueue \in Seq(Entry) /\ n \in Nat /\ DOMAIN taskQueue = 1..n
    BY <1>1 DEF SchedulerTypeOK, Entry
  <1>3. \A i \in 1..n : taskQueue[i] \in Entry /\ taskQueue[i].f \in Task
                         /\ taskQueue[i].left \in Nat
    BY <1>2, EntryAt
  <1>4. \A k \in Nat : Less(k) \in Nat
    OBVIOUS
  <1>5. \A k, m \in Nat : k <= m => Less(k) <= Less(m)
    OBVIOUS
  <1> HIDE DEF Less
  <1>6. \A i \in 1..n : /\ taskQueue'[i] \in Entry
                         /\ taskQueue'[i].f = taskQueue[i].f
                         /\ taskQueue'[i].left = Less(taskQueue[i].left)
    BY <1>1, <1>2, <1>3, <1>4 DEF Entry
  <1>7. /\ taskQueue' \in Seq(Entry) /\ DOMAIN taskQueue' = 1..n
        /\ taskQueue' # <<>> => taskQueue # <<>>
    <2>1. taskQueue' = [i \in 1..n |-> taskQueue'[i]]
      BY <1>1, <1>2
    <2>2. taskQueue' \in [1..n -> Entry]
      BY <1>6, <2>1
    <2>3. taskQueue' \in Seq(Entry)
      BY <1>2, <2>2
    <2>4. Len(taskQueue') = n /\ DOMAIN taskQueue' = 1..n
      BY <1>2, <2>2
    <2>5. QED
      BY <1>2, <2>3, <2>4
  <1>8. SchedulerTypeOK'
    <2>1. timeToWaitFor' \in [Service -> Nat]
      BY <1>1, <1>4 DEF SchedulerTypeOK
    <2>2. QED
      BY <1>1, <1>7, <2>1 DEF SchedulerTypeOK, Entry
  <1>9. InTimeOrder'
    BY <1>2, <1>3, <1>5, <1>6, <1>7 DEF SchedulerSafe, InTimeOrder
  <1>10. AtMostOnce'
    <2> HIDE DEF n
    <2>1. \A i \in 1..n : taskQueue'[i].f = taskQueue[i].f
      BY <1>6
    <2>2. \A i, j \in DOMAIN taskQueue' : taskQueue'[i].f = taskQueue'[j].f => i = j
      BY <1>2, <1>7, <2>1 DEF SchedulerSafe, AtMostOnce
    <2>3. \A t \in Service : pc[t] = "run" => f[t] \in Task /\ ~Queued(f[t])
      BY DEF SchedulerSafe, AtMostOnce
    <2>4. \A t \in Service : pc'[t] = "run" => f'[t] \in Task /\ ~Queued(f[t])'
      BY <1>1, <1>2, <1>7, <2>1, <2>3 DEF Queued
    <2>5. \A t, u \in Service : pc'[t] = "run" /\ pc'[u] = "run" /\ f'[t] = f'[u] => t = u
      BY <1>1 DEF SchedulerSafe, AtMostOnce
    <2>6. QED
      BY <2>2, <2>4, <2>5 DEF AtMostOnce
  <1>11. NoLostWakeup' /\ StopWakesAll'
    BY <1>1, <1>7 DEF SchedulerSafe, NoLostWakeup, StopWakesAll, Waiting
  <1>12. QED
    BY <1>8, <1>9, <1>10, <1>11 DEF SchedulerSafe

LEMMA SafeStep == SchedulerSafe /\ [Next]_vars => SchedulerSafe'
  <1> SUFFICES ASSUME SchedulerSafe, [Next]_vars PROVE SchedulerSafe'
    OBVIOUS
  <1>1. CASE \E g \in Task : Schedule(g)
    BY <1>1, ScheduleSafe
  <1>2. CASE \E drain \in BOOLEAN : Stop(drain)
    BY <1>2, StopSafe
  <1>3. CASE Notify
    BY <1>3, NotifySafe
  <1>4. CASE \E t \in Service : ServiceStep(t) \/ Wake(t)
    BY <1>4, WaitSafe, TimeOutSafe, TakeSafe, FinishSafe, RescheduledSafe, LeaveSafe,
       WakeSafe DEF ServiceStep
  <1>5. CASE Tick
    BY <1>5, TickSafe
  <1>6. CASE UNCHANGED vars
    BY <1>6 DEF vars, SchedulerSafe, SchedulerTypeOK, InTimeOrder, AtMostOnce, Queued,
       NoLostWakeup, StopWakesAll, Waiting
  <1>7. QED
    BY <1>1, <1>2, <1>3, <1>4, <1>5, <1>6 DEF Next

\* For any number of threads, tasks and delays and in every interleaving:
\* the queue stays in order of time, no task is queued or run twice, no
\* thread sleeps over a queued task, and none waits behind stop().
THEOREM SchedulerSafeHolds == Spec => []SchedulerSafe
  BY InitSafe, SafeStep, PTL DEF Spec
=============================================================================
