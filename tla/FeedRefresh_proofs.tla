------------------------- MODULE FeedRefresh_proofs -------------------------
(***************************************************************************)
(* Proofs about FeedRefresh for any feeds, sites and number of rounds: no  *)
(* two rounds fetch from one site at once and, as long as only refreshes   *)
(* make sites rest, none asks a site that does.  Then about Organize,      *)
(* after the line of dashes that says so.                                  *)
(***************************************************************************)
EXTENDS FeedRefresh, Organize, Largest, FiniteSetTheorems, TLAPS

\* A task that is past the lock is first in its site's queue, and a round is in
\* the queue of a site exactly while it has a task there.
Holds(r, s) == queue[s] # <<>> /\ Head(queue[s]) = r
Queued(r, s) == \E i \in DOMAIN queue[s] : queue[s][i] = r

LocksMatchTasks ==
    \A r \in Rounds, s \in Sites :
        /\ task[r][s] \notin {"none", "lock"} => Holds(r, s)
        /\ Queued(r, s) <=> task[r][s] # "none"
        /\ ~Active(r) => task[r][s] = "none"

IInv == TypeOK /\ LocksMatchTasks

-----------------------------------------------------------------------------
LEMMA QueueAppend ==
    ASSUME NEW q \in Queues, NEW r \in Rounds, \A i \in DOMAIN q : q[i] # r
    PROVE  /\ Append(q, r) \in Queues
           /\ Append(q, r) # <<>>
           /\ q # <<>> => Head(Append(q, r)) = Head(q)
           /\ \A x : (\E i \in DOMAIN Append(q, r) : Append(q, r)[i] = x)
                        <=> (x = r \/ \E i \in DOMAIN q : q[i] = x)
<1> DEFINE p == Append(q, r)
<1>1. q \in Seq(Rounds) /\ Len(q) \in Nat /\ DOMAIN q = 1..Len(q)
  BY DEF Queues
<1>2. p \in Seq(Rounds) /\ Len(p) = Len(q) + 1 /\ DOMAIN p = 1..(Len(q) + 1)
  BY <1>1
<1>3. p[Len(q) + 1] = r /\ \A i \in 1..Len(q) : p[i] = q[i]
  BY <1>1
<1> HIDE DEF p
<1>4. \A i, j \in DOMAIN p : p[i] = p[j] => i = j
  <2> SUFFICES ASSUME NEW i \in 1..(Len(q) + 1), NEW j \in 1..(Len(q) + 1), p[i] = p[j] PROVE i = j
    BY <1>2
  <2>1. CASE i \in 1..Len(q) /\ j \in 1..Len(q)
    BY <2>1, <1>1, <1>3 DEF Queues
  <2>2. CASE i = Len(q) + 1 /\ j \in 1..Len(q)
    BY <2>2, <1>1, <1>3
  <2>3. CASE i \in 1..Len(q) /\ j = Len(q) + 1
    BY <2>3, <1>1, <1>3
  <2> QED BY <2>1, <2>2, <2>3, <1>1
<1>5. p \in Queues
  BY <1>2, <1>4 DEF Queues
<1>6. p # <<>>
  BY <1>2, <1>1
<1>7. q # <<>> => p[1] = q[1] /\ Head(p) = p[1] /\ Head(q) = q[1]
  BY <1>1, <1>2, <1>3, <1>6
<1>8. \A x : (\E i \in DOMAIN p : p[i] = x) <=> (x = r \/ \E i \in DOMAIN q : q[i] = x)
  <2> TAKE x
  <2>1. ASSUME NEW i \in DOMAIN p, p[i] = x PROVE x = r \/ \E k \in DOMAIN q : q[k] = x
    BY <2>1, <1>1, <1>2, <1>3
  <2>2. ASSUME x = r PROVE \E i \in DOMAIN p : p[i] = x
    BY <2>2, <1>1, <1>2, <1>3
  <2>3. ASSUME NEW i \in DOMAIN q, q[i] = x PROVE \E k \in DOMAIN p : p[k] = x
    BY <2>3, <1>1, <1>2, <1>3
  <2> QED BY <2>1, <2>2, <2>3
<1> QED BY <1>5, <1>6, <1>7, <1>8 DEF p

LEMMA QueueTail ==
    ASSUME NEW q \in Queues, q # <<>>
    PROVE  /\ Tail(q) \in Queues
           /\ \A x : (\E i \in DOMAIN Tail(q) : Tail(q)[i] = x)
                        <=> (x # Head(q) /\ \E i \in DOMAIN q : q[i] = x)
<1> DEFINE t == Tail(q)
<1>1. q \in Seq(Rounds) /\ Len(q) \in Nat \ {0} /\ DOMAIN q = 1..Len(q) /\ Head(q) = q[1]
  BY DEF Queues
<1>2. t \in Seq(Rounds) /\ DOMAIN t = 1..(Len(q) - 1) /\ \A i \in 1..(Len(q) - 1) : t[i] = q[i + 1]
  BY <1>1
<1> HIDE DEF t
<1>3. \A i, j \in DOMAIN t : t[i] = t[j] => i = j
  <2> SUFFICES ASSUME NEW i \in 1..(Len(q) - 1), NEW j \in 1..(Len(q) - 1), t[i] = t[j] PROVE i = j
    BY <1>2
  <2>1. i + 1 \in 1..Len(q) /\ j + 1 \in 1..Len(q) /\ q[i + 1] = q[j + 1]
    BY <1>1, <1>2
  <2>2. i + 1 = j + 1
    BY <2>1, <1>1 DEF Queues
  <2> QED BY <2>2
<1>4. ASSUME NEW x
      PROVE  (\E i \in DOMAIN t : t[i] = x) <=> (x # Head(q) /\ \E i \in DOMAIN q : q[i] = x)
  <2>1. ASSUME NEW i \in DOMAIN t, t[i] = x PROVE x # Head(q) /\ \E k \in DOMAIN q : q[k] = x
    <3>1. i + 1 \in 1..Len(q) /\ 1 \in 1..Len(q) /\ i + 1 # 1 /\ q[i + 1] = x
      BY <2>1, <1>1, <1>2
    <3> QED BY <3>1, <1>1 DEF Queues
  <2>2. ASSUME x # Head(q), NEW i \in DOMAIN q, q[i] = x PROVE \E k \in DOMAIN t : t[k] = x
    <3>1. i # 1 /\ i - 1 \in 1..(Len(q) - 1) /\ (i - 1) + 1 = i
      BY <2>2, <1>1
    <3>2. t[i - 1] = q[(i - 1) + 1]
      BY <3>1, <1>2
    <3> QED BY <3>1, <3>2, <2>2, <1>2
  <2> QED BY <2>1, <2>2
<1>5. t \in Queues
  BY <1>2, <1>3 DEF Queues
<1> QED BY <1>4, <1>5 DEF t

-----------------------------------------------------------------------------
LEMMA InitIInv == Init => IInv
<1> SUFFICES ASSUME Init PROVE IInv
  OBVIOUS
<1>1. <<>> \in Queues /\ DOMAIN <<>> = {}
  BY DEF Queues
<1>2. TypeOK
  BY <1>1, Parameters DEF Init, TypeOK, Steps
<1>3. LocksMatchTasks
  BY <1>1 DEF Init, LocksMatchTasks, Queued, Holds, Active
<1> QED BY <1>2, <1>3 DEF IInv

\* A round begins: it joins the queues of the sites it has feeds of
LEMMA BeginStep ==
    ASSUME IInv, NEW r \in Rounds, NEW who \in {"scheduler", "press"}, NEW feeds \in SUBSET Feeds,
           Begin(r, who, feeds)
    PROVE  IInv'
<1> DEFINE sites == {SiteOf[f] : f \in feeds}
<1>1. /\ ~Active(r)
      /\ caller' = [caller EXCEPT ![r] = who] /\ todo' = [todo EXCEPT ![r] = feeds]
      /\ task' = [task EXCEPT ![r] = [s \in Sites |-> IF s \in sites THEN "lock" ELSE "none"]]
      /\ queue' = [s \in Sites |-> IF s \in sites THEN Append(queue[s], r) ELSE queue[s]]
      /\ UNCHANGED <<rest, followed, closed, due, troubles>>
  BY DEF Begin
<1> HIDE DEF sites
<1>2. ASSUME NEW s \in Sites
      PROVE  /\ task[r][s] = "none" /\ queue[s] \in Queues
             /\ \A i \in DOMAIN queue[s] : queue[s][i] # r
             /\ Append(queue[s], r) \in Queues
             /\ Append(queue[s], r) # <<>>
             /\ queue[s] # <<>> => Head(Append(queue[s], r)) = Head(queue[s])
             /\ \A x : (\E i \in DOMAIN Append(queue[s], r) : Append(queue[s], r)[i] = x)
                          <=> (x = r \/ \E i \in DOMAIN queue[s] : queue[s][i] = x)
  <2>1. task[r][s] = "none" /\ ~Queued(r, s) /\ queue[s] \in Queues
    BY <1>1 DEF IInv, TypeOK, LocksMatchTasks
  <2>2. \A i \in DOMAIN queue[s] : queue[s][i] # r
    BY <2>1 DEF Queued
  <2> QED BY <2>1, <2>2, QueueAppend
<1>3. TypeOK'
  <2>1. queue' \in [Sites -> Queues]
    BY <1>1, <1>2 DEF IInv, TypeOK
  <2>2. task' \in [Rounds -> [Sites -> Steps]]
    BY <1>1 DEF IInv, TypeOK, Steps
  <2> QED BY <1>1, <2>1, <2>2 DEF IInv, TypeOK
<1>4. LocksMatchTasks'
  <2> SUFFICES ASSUME NEW q \in Rounds, NEW s \in Sites
               PROVE  /\ task'[q][s] \notin {"none", "lock"} => Holds(q, s)'
                      /\ Queued(q, s)' <=> task'[q][s] # "none"
                      /\ ~Active(q)' => task'[q][s] = "none"
    BY DEF LocksMatchTasks
  <2>1. /\ task[q][s] \notin {"none", "lock"} => Holds(q, s)
        /\ Queued(q, s) <=> task[q][s] # "none"
        /\ ~Active(q) => task[q][s] = "none"
    BY DEF IInv, LocksMatchTasks
  <2>2. task'[q][s] = IF q = r THEN (IF s \in sites THEN "lock" ELSE "none") ELSE task[q][s]
    BY <1>1 DEF IInv, TypeOK
  <2>3. queue'[s] = IF s \in sites THEN Append(queue[s], r) ELSE queue[s]
    BY <1>1
  <2>4. Queued(q, s)' <=> ((s \in sites /\ q = r) \/ Queued(q, s))
    <3>1. CASE s \in sites
      <4>1. (\E i \in DOMAIN Append(queue[s], r) : Append(queue[s], r)[i] = q)
              <=> (q = r \/ \E i \in DOMAIN queue[s] : queue[s][i] = q)
        <5>1. queue[s] \in Queues /\ \A i \in DOMAIN queue[s] : queue[s][i] # r
          BY <1>2
        <5>2. \A x : (\E i \in DOMAIN Append(queue[s], r) : Append(queue[s], r)[i] = x)
                        <=> (x = r \/ \E i \in DOMAIN queue[s] : queue[s][i] = x)
          BY <5>1, QueueAppend
        <5> QED BY <5>2, Zenon
      <4>2. queue'[s] = Append(queue[s], r)
        BY <2>3, <3>1
      <4> QED BY <3>1, <4>1, <4>2 DEF Queued
    <3>2. CASE s \notin sites
      BY <2>3, <3>2 DEF Queued
    <3> QED BY <3>1, <3>2
  <2>5. Holds(q, s) => Holds(q, s)'
    <3>1. CASE s \in sites
      <4>1. queue'[s] = Append(queue[s], r)
        BY <2>3, <3>1
      <4> QED BY <1>2, <4>1 DEF Holds
    <3>2. CASE s \notin sites
      BY <2>3, <3>2 DEF Holds
    <3> QED BY <3>1, <3>2
  <2>6. task[r][s] = "none"
    BY <1>2
  <2>7. Active(q)' <=> (q = r \/ Active(q))
    BY <1>1, Parameters DEF IInv, TypeOK, Active
  <2>8. CASE q = r
    <3>1. ~Queued(q, s) /\ Active(q)'
      BY <2>1, <2>6, <2>7, <2>8
    <3>2. CASE s \in sites
      BY <2>2, <2>4, <2>8, <3>1, <3>2
    <3>3. CASE s \notin sites
      BY <2>2, <2>4, <2>8, <3>1, <3>3
    <3> QED BY <3>2, <3>3
  <2>9. CASE q # r
    <3>1. task'[q][s] = task[q][s] /\ (Queued(q, s)' <=> Queued(q, s)) /\ (Active(q)' <=> Active(q))
      BY <2>2, <2>4, <2>7, <2>9
    <3> QED BY <2>1, <2>5, <3>1
  <2> QED BY <2>8, <2>9
<1> QED BY <1>3, <1>4 DEF IInv

\* A task goes on while the queues stay as they are: it has the lock, or is first in line for it
LEMMA MoveStep ==
    ASSUME IInv, NEW r \in Rounds, NEW s \in Sites, NEW step \in Steps \ {"none"},
           task' = [task EXCEPT ![r][s] = step], UNCHANGED <<queue, caller>>,
           task[r][s] # "none", Head(queue[s]) = r, TypeOK'
    PROVE  IInv'
<1>1. queue[s] \in Queues /\ Queued(r, s)
  BY DEF IInv, TypeOK, LocksMatchTasks
<1>2. queue[s] # <<>>
  BY <1>1 DEF Queued, Queues
<1>3. \A q \in Rounds, z \in Sites : task'[q][z] = IF q = r /\ z = s THEN step ELSE task[q][z]
  BY DEF IInv, TypeOK
<1>4. LocksMatchTasks'
  BY <1>1, <1>2, <1>3 DEF IInv, LocksMatchTasks, Holds, Queued, Active
<1> QED BY <1>4 DEF IInv

\* A task ends and leaves the lock to the next round in line
LEMMA LeaveStep ==
    ASSUME IInv, NEW r \in Rounds, NEW s \in Sites, task[r][s] \notin {"none", "lock"}, Leave(r, s),
           UNCHANGED <<caller, rest, followed, due>>,
           todo' \in [Rounds -> SUBSET Feeds], closed' \subseteq Rounds, troubles' \in 0..MaxTroubles
    PROVE  IInv'
<1>1. queue' = [queue EXCEPT ![s] = Tail(@)] /\ task' = [task EXCEPT ![r][s] = "none"]
  BY DEF Leave, Goto
<1>2. queue[s] \in Queues /\ queue[s] # <<>> /\ Head(queue[s]) = r
  BY DEF IInv, TypeOK, LocksMatchTasks, Holds
<1>3. /\ Tail(queue[s]) \in Queues
      /\ \A x : (\E i \in DOMAIN Tail(queue[s]) : Tail(queue[s])[i] = x)
                   <=> (x # r /\ \E i \in DOMAIN queue[s] : queue[s][i] = x)
  BY <1>2, QueueTail
<1>4. TypeOK'
  <2>1. queue' \in [Sites -> Queues]
    BY <1>1, <1>3 DEF IInv, TypeOK
  <2>2. task' \in [Rounds -> [Sites -> Steps]]
    BY <1>1 DEF IInv, TypeOK, Steps
  <2> QED BY <2>1, <2>2 DEF IInv, TypeOK
<1>5. LocksMatchTasks'
  <2> SUFFICES ASSUME NEW q \in Rounds, NEW z \in Sites
               PROVE  /\ task'[q][z] \notin {"none", "lock"} => Holds(q, z)'
                      /\ Queued(q, z)' <=> task'[q][z] # "none"
                      /\ ~Active(q)' => task'[q][z] = "none"
    BY DEF LocksMatchTasks
  <2>1. /\ task[q][z] \notin {"none", "lock"} => Holds(q, z)
        /\ Queued(q, z) <=> task[q][z] # "none"
        /\ ~Active(q) => task[q][z] = "none"
        /\ Active(q)' = Active(q)
    BY DEF IInv, LocksMatchTasks, Active
  <2>2. task'[q][z] = IF q = r /\ z = s THEN "none" ELSE task[q][z]
    BY <1>1 DEF IInv, TypeOK
  <2>3. CASE z # s
    <3>1. queue'[z] = queue[z]
      BY <1>1, <2>3 DEF IInv, TypeOK
    <3> QED BY <3>1, <2>1, <2>2, <2>3 DEF Holds, Queued
  <2>4. CASE z = s
    <3>1. queue'[s] = Tail(queue[s])
      BY <1>1 DEF IInv, TypeOK
    <3>2. Queued(q, s)' <=> (q # r /\ Queued(q, s))
      BY <1>3, <3>1 DEF Queued
    <3>3. q # r => task[q][s] \in {"none", "lock"}
      BY <1>2, <2>1, <2>4 DEF Holds
    <3> QED BY <2>1, <2>2, <2>4, <3>2, <3>3
  <2> QED BY <2>3, <2>4
<1> QED BY <1>4, <1>5 DEF IInv

LEMMA TaskStep ==
    ASSUME IInv, NEW r \in Rounds, NEW s \in Sites, Work(r, s) \/ StoreFails(r, s) \/ RecordFails(r, s)
    PROVE  IInv'
<1>0. TypeOK /\ \A x \in Sites : task[r][x] \notin {"none", "lock"} => Holds(r, x)
  BY DEF IInv, LocksMatchTasks
<1>1. CASE Enter(r, s)
  <2>1. TypeOK'
    BY <1>0, <1>1 DEF Enter, Goto, TypeOK, Steps
  <2> QED BY <1>1, <2>1, MoveStep DEF Enter, HasLock, Goto, Steps
<1>2. CASE Look(r, s)
  <2>1. PICK step \in {"fetch", "slot", "sleep"} : task' = [task EXCEPT ![r][s] = step]
    BY <1>2 DEF Look, Goto
  <2>2. UNCHANGED <<caller, todo, queue, rest, followed, closed, due, troubles>> /\ task[r][s] \in {"first", "next"}
    BY <1>2 DEF Look
  <2>3. TypeOK'
    BY <1>0, <2>1, <2>2 DEF TypeOK, Steps
  <2> QED BY <1>0, <2>1, <2>2, <2>3, MoveStep DEF Holds, Steps
<1>3. CASE WakeUp(r, s) \/ TakeSlot(r, s)
  <2>1. PICK step \in {"fetch", "slot"} : task' = [task EXCEPT ![r][s] = step]
    BY <1>3 DEF WakeUp, TakeSlot, Goto
  <2>2. UNCHANGED <<caller, todo, queue, rest, followed, closed, due, troubles>> /\ task[r][s] \in {"sleep", "slot"}
    BY <1>3 DEF WakeUp, TakeSlot
  <2>3. TypeOK'
    BY <1>0, <2>1, <2>2 DEF TypeOK, Steps
  <2> QED BY <1>0, <2>1, <2>2, <2>3, MoveStep DEF Holds, Steps
<1>4. CASE Fetched(r, s)
  <2>1. PICK step \in {"store", "record"} : task' = [task EXCEPT ![r][s] = step]
    BY <1>4 DEF Fetched, Goto
  <2>2. /\ UNCHANGED <<caller, todo, queue, followed, closed, due>> /\ task[r][s] = "fetch"
        /\ \/ UNCHANGED <<rest, troubles>>
           \/ troubles < MaxTroubles /\ troubles' = troubles + 1 /\ \E n \in Rests : rest' = Rested(s, n)
    BY <1>4 DEF Fetched
  <2>3. rest' \in [Sites -> Nat] /\ troubles' \in 0..MaxTroubles
    <3>1. CASE UNCHANGED <<rest, troubles>>
      BY <1>0, <3>1 DEF TypeOK
    <3>2. ASSUME NEW n \in Rests, rest' = Rested(s, n), troubles < MaxTroubles, troubles' = troubles + 1
          PROVE  rest' \in [Sites -> Nat] /\ troubles' \in 0..MaxTroubles
      <4>1. rest[s] \in Nat /\ n \in Nat
        BY <1>0, <3>2, Parameters DEF TypeOK
      <4>2. \E x \in {rest[s], n} : \A y \in {rest[s], n} : x >= y
        BY <4>1
      <4>3. Max({rest[s], n}) \in {rest[s], n}
        BY <4>2 DEF Max
      <4> QED BY <1>0, <3>2, <4>1, <4>3, Parameters DEF TypeOK, Rested
    <3> QED BY <2>2, <3>1, <3>2
  <2>4. TypeOK'
    BY <1>0, <2>1, <2>2, <2>3 DEF TypeOK, Steps
  <2> QED BY <1>0, <2>1, <2>2, <2>4, MoveStep DEF Holds, Steps
<1>5. CASE Stored(r, s)
  <2>1. TypeOK'
    BY <1>0, <1>5 DEF Stored, DueAfter, Goto, TypeOK, Steps
  <2> QED BY <1>0, <1>5, <2>1, MoveStep DEF Stored, Goto, Holds, Steps
<1>6. CASE StoreFails(r, s)
  <2>1. TypeOK'
    BY <1>0, <1>6, Parameters DEF StoreFails, Goto, TypeOK, Steps
  <2> QED BY <1>0, <1>6, <2>1, MoveStep DEF StoreFails, Goto, Holds, Steps
<1>7. CASE RecordFails(r, s)
  BY <1>0, <1>7, LeaveStep, Parameters DEF RecordFails, TypeOK
<1>8. CASE Break(r, s)
  BY <1>0, <1>8, LeaveStep DEF Break, TypeOK
<1> QED BY <1>1, <1>2, <1>3, <1>4, <1>5, <1>6, <1>7, <1>8 DEF Work

LEMMA StepIInv == IInv /\ [Next]_vars => IInv'
<1> SUFFICES ASSUME IInv, [Next]_vars PROVE IInv'
  OBVIOUS
<1>0. TypeOK
  BY DEF IInv
<1>1. ASSUME NEW r \in Rounds, Scheduled(r) \/ Pressed(r) PROVE IInv'
  <2>1. PICK who \in {"scheduler", "press"}, feeds \in SUBSET Feeds : Begin(r, who, feeds)
    BY <1>0, <1>1, Parameters DEF Scheduled, Pressed, TypeOK
  <2> QED BY <2>1, BeginStep
<1>2. ASSUME NEW r \in Rounds, End(r) PROVE IInv'
  <2>1. TypeOK'
    BY <1>0, <1>2 DEF End, TypeOK
  <2>2. LocksMatchTasks'
    BY <1>0, <1>2 DEF End, IInv, TypeOK, LocksMatchTasks, Holds, Queued, Active
  <2> QED BY <2>1, <2>2 DEF IInv
<1>3. ASSUME NEW r \in Rounds, NEW s \in Sites, Work(r, s) \/ StoreFails(r, s) \/ RecordFails(r, s) PROVE IInv'
  BY <1>3, TaskStep
<1>4. ASSUME TypeOK', UNCHANGED <<caller, task, queue>> PROVE IInv'
  BY <1>4 DEF IInv, LocksMatchTasks, Holds, Queued, Active
<1>5. ASSUME NEW s \in Sites, FollowLimited(s) PROVE IInv'
  <2>1. PICK n \in Rests : rest' = Rested(s, n)
    BY <1>5 DEF FollowLimited
  <2>2. rest[s] \in Nat /\ n \in Nat
    BY <1>0, Parameters DEF TypeOK
  <2>3. \E x \in {rest[s], n} : \A y \in {rest[s], n} : x >= y
    BY <2>2
  <2>4. Max({rest[s], n}) \in {rest[s], n}
    BY <2>3 DEF Max
  <2>5. rest' \in [Sites -> Nat]
    BY <1>0, <2>1, <2>2, <2>4 DEF TypeOK, Rested
  <2>6. TypeOK'
    BY <1>0, <1>5, <2>5, Parameters DEF FollowLimited, TypeOK
  <2> QED BY <1>5, <2>6, <1>4 DEF FollowLimited
<1>7. CASE Tick
  BY <1>0, <1>4, <1>7 DEF Tick, TypeOK
<1>8. ASSUME NEW f \in Feeds, FallDue(f) PROVE IInv'
  BY <1>0, <1>4, <1>8 DEF FallDue, TypeOK
<1>9. CASE UNCHANGED vars
  BY <1>0, <1>4, <1>9 DEF vars, TypeOK
<1> QED BY <1>1, <1>2, <1>3, <1>5, <1>7, <1>8, <1>9 DEF Next

THEOREM Invariance == Spec => []IInv
  BY InitIInv, StepIInv, PTL DEF Spec

\* The type invariant, and that a round never waits twice in one queue.
THEOREM TypeCorrect == Spec => []TypeOK
<1>1. IInv => TypeOK
  BY DEF IInv
<1> QED BY <1>1, Invariance, PTL

\* Two rounds that fetch from a site are both first in its queue, so they are one.
THEOREM OneRoundTalksToASite == Spec => []OneRoundPerSite
<1>1. IInv => OneRoundPerSite
  BY DEF IInv, LocksMatchTasks, OneRoundPerSite, Fetching, Holds
<1> QED BY <1>1, Invariance, PTL

-----------------------------------------------------------------------------
(* Rests                                                                   *)

Awake(s) == rest[s] = 0 \/ s \in followed

\* A site a task has looked at does not rest: whoever could make it rest would
\* need its lock, but for those who follow a feed there.
LookedAtAwake ==
    \A r \in Rounds, s \in Sites : task[r][s] \in {"sleep", "slot"} => Awake(s)

\* No feed is asked for while its site rests, however long a task waited between
\* looking and asking, unless the rest is one that following a feed began.
THEOREM RestsAreKept == Spec => RestIsKept
<1>1. Init => LookedAtAwake
  BY DEF Init, LookedAtAwake
<1>2. IInv /\ LookedAtAwake /\ [Next]_vars
        => LookedAtAwake' /\ \A r \in Rounds, s \in Sites : Starts(r, s) => Awake(s)
  <2> SUFFICES ASSUME IInv, LookedAtAwake, [Next]_vars, NEW r \in Rounds, NEW s \in Sites
               PROVE  /\ task'[r][s] \in {"sleep", "slot"} => Awake(s)'
                      /\ Starts(r, s) => Awake(s)
    BY DEF LookedAtAwake
  <2>0. /\ task \in [Rounds -> [Sites -> Steps]] /\ rest \in [Sites -> Nat]
        /\ task[r][s] \in {"sleep", "slot"} => Awake(s)
    BY DEF IInv, TypeOK, LookedAtAwake
  <2>1. CASE UNCHANGED <<task, rest, followed>>
    BY <2>0, <2>1 DEF Starts, Awake
  <2>2. ASSUME NEW q \in Rounds, NEW who, NEW feeds, Begin(q, who, feeds)
        PROVE  /\ task'[r][s] \in {"sleep", "slot"} => Awake(s)'
               /\ Starts(r, s) => Awake(s)
    BY <2>0, <2>2 DEF Begin, Starts, Awake
  <2>3. ASSUME NEW q \in Rounds, NEW z \in Sites, Fetched(q, z)
        PROVE  /\ task'[r][s] \in {"sleep", "slot"} => Awake(s)'
               /\ Starts(r, s) => Awake(s)
    <3>1. \/ task' = [task EXCEPT ![q][z] = "store"]
          \/ task' = [task EXCEPT ![q][z] = "record"]
      BY <2>3 DEF Fetched, Goto
    <3>2. followed' = followed /\ (s # z => rest'[s] = rest[s])
      BY <2>0, <2>3 DEF Fetched, Rested
    <3>3. task[q][z] = "fetch" /\ Holds(q, z)
      BY <2>3 DEF Fetched, IInv, LocksMatchTasks
    <3>4. task[r][s] \in {"sleep", "slot"} => Holds(r, s)
      BY DEF IInv, LocksMatchTasks
    <3>5. s = z /\ r # q => task[r][s] \notin {"sleep", "slot"}
      BY <3>3, <3>4 DEF Holds
    <3>6. ~Starts(r, s)
      BY <2>0, <3>1 DEF Starts
    <3>7. task'[r][s] \in {"sleep", "slot"} => task[r][s] \in {"sleep", "slot"} /\ ~(r = q /\ s = z)
      BY <2>0, <3>1
    <3> QED BY <2>0, <3>2, <3>5, <3>6, <3>7 DEF Awake
  <2>4. ASSUME NEW q \in Rounds, NEW z \in Sites,
               \/ Enter(q, z) \/ Look(q, z) \/ WakeUp(q, z) \/ TakeSlot(q, z) \/ Stored(q, z) \/ Break(q, z)
               \/ StoreFails(q, z) \/ RecordFails(q, z)
        PROVE  /\ task'[r][s] \in {"sleep", "slot"} => Awake(s)'
               /\ Starts(r, s) => Awake(s)
    <3>1. rest' = rest /\ followed' = followed
      BY <2>4 DEF Enter, Look, WakeUp, TakeSlot, Stored, Break, StoreFails, RecordFails
    <3>2. PICK step \in Steps : task' = [task EXCEPT ![q][z] = step]
      BY <2>4 DEF Enter, Look, WakeUp, TakeSlot, Stored, Break, StoreFails, RecordFails, Leave, Goto, Steps
    <3>3. step \in {"sleep", "slot", "fetch"} => Awake(z)
      BY <2>0, <2>4, <3>2 DEF Awake, Enter, Look, MayAsk, WakeUp, TakeSlot, Stored, Break, StoreFails, RecordFails, Leave, Goto,
                         LookedAtAwake
    <3> QED BY <2>0, <3>1, <3>2, <3>3 DEF Starts, Awake
  <2>5. CASE Tick
    BY <2>0, <2>5 DEF Tick, Starts, Awake
  <2>6. ASSUME NEW z \in Sites, FollowLimited(z)
        PROVE  /\ task'[r][s] \in {"sleep", "slot"} => Awake(s)'
               /\ Starts(r, s) => Awake(s)
    BY <2>0, <2>6 DEF FollowLimited, Rested, Starts, Awake
  <2> QED BY <2>1, <2>2, <2>3, <2>4, <2>5, <2>6
          DEF Next, Work, Scheduled, Pressed, End, FallDue, vars
<1>3. (\A r \in Rounds, s \in Sites : Starts(r, s) => Awake(s))
        => [\A r \in Rounds, s \in Sites : Starts(r, s) => Awake(s)]_vars
  OBVIOUS
<1> QED BY <1>1, <1>2, <1>3, Invariance, PTL DEF Spec, RestIsKept, Awake

-----------------------------------------------------------------------------
(* How a stash is kept in order: proofs about Organize, for any rules,      *)
(* lists, tags, folders, batches and requests.                              *)

RunType ==
    run \in [at : {"no", "batch", "item", "write"}, todo : SUBSET Ids, batch : SUBSET Ids,
             rules : [1..MaxRule -> Rules \cup {None}], read : Items \cup {None}]

\* What rules file in is there.
RulesFile == \A k \in RuleIds : rules[k].folder \in folders \cup {None}

\* The item that is about to be written is as it was read, or known to have changed.
ReadForWrite ==
    run.at = "write" =>
        /\ run.batch # {} /\ run.read # None
        /\ crossed => NextItem \in touched
        /\ crossed \/ item[NextItem] = run.read

\* What the run began with, and nobody else changed, is still to do or done by the rules
\* there are.
Done(i) == Applied(rules, item[i]) = item[i]
RunCovers ==
    /\ run.at \in {"no", "batch"} => run.batch = {}
    /\ run.at # "no" /\ ~reruled =>
        /\ run.at # "batch" => run.rules = rules
        /\ \A i \in begun \ touched : i \in Present /\ (i \in run.todo \cup run.batch \/ Done(i))

\* An article being saved is not there yet, and no one else saves it, or that is known.
SavesAreKnown ==
    /\ \A s \in saves : Found(s.link) => s.link \in twice
    /\ \A s, t \in saves : s # t /\ s.link = t.link => s.link \in twice

ChangeLooks == change # None => LooksForSomething(change)

OrganizeInv ==
    /\ OrganizeTypeOK /\ RunType
    /\ RulesFile /\ ReadForWrite /\ RunCovers
    /\ SavesAreKnown /\ SavedOnce
    /\ ChangeLooks /\ NothingIsHollow

RuleSets == [1..MaxRule -> Rules \cup {None}]

\* Nothing is not an item, a rule or any part of one.
LEMMA NothingIsNone ==
    None \notin Links /\ None \notin Tags /\ None \notin Folders /\ None \notin Items /\ None \notin Rules /\ None \notin Lists
BY Distinct

\* Items are told apart by what they are made of.
LEMMA ItemsByParts ==
    ASSUME NEW x \in Items, NEW y \in Items,
           x.link = y.link, x.tags = y.tags, x.folder = y.folder, x.archived <=> y.archived
    PROVE  x = y
<1>1. x.archived \in BOOLEAN /\ y.archived \in BOOLEAN
  BY DEF Items
<1>2. x.archived = y.archived
  BY <1>1
<1> QED BY <1>2 DEF Items

\* The tags that rules add, and whether one of them archives.
TagsOf(rs, K) == {rs[k].tag : k \in K} \ {None}

\* What the rules make of an item, part by part (apply, stash_rules.py:136).
LEMMA RulesApplied ==
    ASSUME NEW rs \in RuleSets, NEW x \in Items
    PROVE  /\ Applied(rs, x).link = x.link
           /\ Applied(rs, x).tags = x.tags \cup TagsOf(rs, Matching(rs, x))
           /\ Applied(rs, x).folder = FolderFor(rs, x)
           /\ Applied(rs, x).archived <=> (x.archived \/ \E k \in Matching(rs, x) : rs[k].archive)
           /\ Applied(rs, x) \in Items
           /\ FolderFor(rs, x) \in Folders \cup {None}
           /\ FolderFor(rs, x) # x.folder =>
                x.folder = None /\ \E k \in 1..MaxRule : rs[k] # None /\ FolderFor(rs, x) = rs[k].folder
<1> PICK K : K = Matching(rs, x)
  OBVIOUS
<1> PICK a \in BOOLEAN : a <=> (x.archived \/ \E k \in K : rs[k].archive)
  OBVIOUS
<1>1. \A k \in K : k \in 1..MaxRule /\ rs[k] \in Rules /\ rs[k] # None
  BY NothingIsNone DEF Matching, RuleSets
<1>2. FolderOfRule(rs, x) = x.folder \/ \E k \in K : FolderOfRule(rs, x) = rs[k].folder
  <2> PICK F : F = {k \in K : rs[k].folder # None}
    OBVIOUS
  <2>1. CASE F = {}
    BY <2>1 DEF FolderOfRule
  <2>2. CASE F # {}
    <3>1. F \in SUBSET Nat
      BY <1>1
    <3>2. Min(F) \in F
      BY <2>2, <3>1, MinOfNumbers
    <3> QED BY <2>2, <3>2 DEF FolderOfRule
  <2> QED BY <2>1, <2>2
<1>3. x.folder \in Folders \cup {None} /\ \A k \in K : rs[k].folder \in Folders \cup {None}
  BY <1>1 DEF Items, Rules
<1>4. FolderFor(rs, x) \in Folders \cup {None}
  BY <1>2, <1>3 DEF FolderFor
<1>5. TagsOf(rs, K) \subseteq Tags
  BY <1>1 DEF TagsOf, Rules
<1> PICK y : y = [link |-> x.link, tags |-> x.tags \cup TagsOf(rs, K), folder |-> FolderFor(rs, x), archived |-> a]
  OBVIOUS
<1>6. y \in Items
  <2>1. x.link \in Links /\ x.tags \cup TagsOf(rs, K) \in SUBSET Tags
    BY <1>5 DEF Items
  <2> QED BY <2>1, <1>4 DEF Items
<1>7. Applied(rs, x) = y
  <2>1. (x.archived \/ \E k \in K : rs[k].archive) = a
    OBVIOUS
  <2>2. x.tags \cup ({rs[k].tag : k \in K} \ {None}) = x.tags \cup TagsOf(rs, K)
    BY DEF TagsOf
  <2>3. Applied(rs, x) = [x EXCEPT !.tags = x.tags \cup ({rs[k].tag : k \in K} \ {None}),
                                   !.folder = FolderFor(rs, x),
                                   !.archived = (x.archived \/ \E k \in K : rs[k].archive)]
    BY DEF Applied
  <2>4. Applied(rs, x) = [x EXCEPT !.tags = x.tags \cup TagsOf(rs, K), !.folder = FolderFor(rs, x), !.archived = a]
    BY <2>1, <2>2, <2>3, Zenon
  <2> QED BY <2>4 DEF Items
<1>8. y.archived = a
  OBVIOUS
<1> QED BY <1>1, <1>2, <1>4, <1>6, <1>7, <1>8 DEF FolderFor

\* Rules take nothing from an item.
LEMMA RulesAdd ==
    ASSUME NEW rs \in RuleSets, NEW x \in Items
    PROVE  /\ Applied(rs, x).link = x.link
           /\ x.tags \subseteq Applied(rs, x).tags
           /\ x.folder \in {None, Applied(rs, x).folder}
           /\ x.archived => Applied(rs, x).archived
BY RulesApplied

\* Once they have been applied to an item, the same rules do nothing more to it.
LEMMA RulesSettle ==
    ASSUME NEW rs \in RuleSets, NEW x \in Items
    PROVE  Applied(rs, Applied(rs, x)) = Applied(rs, x)
<1> PICK y : y = Applied(rs, x)
  OBVIOUS
<1>1. y \in Items /\ y.link = x.link
  BY RulesApplied
<1>2. Matching(rs, y) = Matching(rs, x)
  BY <1>1 DEF Matching
<1>3. y.tags \cup TagsOf(rs, Matching(rs, y)) = y.tags
  BY <1>2, RulesApplied
<1>4. FolderFor(rs, y) = y.folder
  <2>1. y.folder = FolderFor(rs, x)
    BY RulesApplied
  <2>2. y.folder = None => x.folder = None
    BY <2>1 DEF FolderFor
  <2>3. x.folder = None => (y.folder = None => FolderOfRule(rs, x) = None)
    BY <2>1 DEF FolderFor
  <2> PICK F : F = {k \in Matching(rs, x) : rs[k].folder # None}
    OBVIOUS
  <2>4. FolderOfRule(rs, x) = None /\ x.folder = None => F = {}
    <3> SUFFICES ASSUME FolderOfRule(rs, x) = None, F # {} PROVE FALSE
      OBVIOUS
    <3>1. F \in SUBSET Nat
      BY DEF Matching, RuleSets
    <3>2. Min(F) \in F
      BY <3>1, MinOfNumbers
    <3> QED BY <3>2 DEF FolderOfRule
  <2>5. y.folder = None => FolderOfRule(rs, y) = None
    BY <1>2, <2>2, <2>3, <2>4 DEF FolderOfRule
  <2> QED BY <2>5 DEF FolderFor
<1>5. (y.archived \/ \E k \in Matching(rs, y) : rs[k].archive) <=> y.archived
  BY <1>2, RulesApplied
<1> PICK z : z = Applied(rs, y)
  OBVIOUS
<1>6. z \in Items /\ z.link = y.link /\ z.tags = y.tags /\ z.folder = y.folder /\ (z.archived <=> y.archived)
  BY <1>1, <1>3, <1>4, <1>5, RulesApplied
<1>7. z = y
  BY <1>1, <1>6, ItemsByParts
<1> QED BY <1>7

\* update writes what the rules changed of an item as it was read.
LEMMA ItemUpdated ==
    ASSUME NEW rs \in RuleSets, NEW x \in Items, NEW was \in Items
    PROVE  /\ Updated(x, was, Applied(rs, was)) \in Items
           /\ Updated(x, was, Applied(rs, was)).link = x.link
           /\ Updated(x, was, Applied(rs, was)).folder \in {x.folder, Applied(rs, was).folder}
           /\ Updated(x, was, Applied(rs, was)).folder # x.folder => Applied(rs, was).folder # was.folder
           /\ x.archived => Updated(x, was, Applied(rs, was)).archived
           /\ x = was => Updated(x, was, Applied(rs, was)) = Applied(rs, was)
<1> PICK now : now = Applied(rs, was)
  OBVIOUS
<1>1. now \in Items /\ now.link = was.link /\ (was.archived => now.archived)
  BY RulesApplied
<1> PICK a \in BOOLEAN : a = IF now.archived # was.archived THEN now.archived ELSE x.archived
  BY <1>1 DEF Items
<1> PICK y : y = [link |-> x.link, tags |-> IF now.tags # was.tags THEN now.tags ELSE x.tags,
                  folder |-> IF now.folder # was.folder THEN now.folder ELSE x.folder, archived |-> a]
  OBVIOUS
<1>2. y \in Items /\ y.link = x.link
  <2>1. x.link \in Links /\ y.tags \in SUBSET Tags /\ y.folder \in Folders \cup {None} /\ y.archived \in BOOLEAN
    BY <1>1 DEF Items
  <2> QED BY <2>1 DEF Items
<1>3. Updated(x, was, now) = y
  <2> PICK T : T = IF now.tags # was.tags THEN now.tags ELSE x.tags
    OBVIOUS
  <2> PICK f : f = IF now.folder # was.folder THEN now.folder ELSE x.folder
    OBVIOUS
  <2>1. Updated(x, was, now) = [x EXCEPT !.tags = T, !.folder = f, !.archived = a]
    BY Zenon DEF Updated
  <2>2. y = [link |-> x.link, tags |-> T, folder |-> f, archived |-> a]
    OBVIOUS
  <2> QED BY <2>1, <2>2 DEF Items
<1>4. y.folder \in {x.folder, now.folder} /\ (y.folder # x.folder => now.folder # was.folder)
  OBVIOUS
<1>5. y.archived = a /\ now.archived \in BOOLEAN /\ was.archived \in BOOLEAN /\ x.archived \in BOOLEAN
  BY <1>1 DEF Items
<1>6. x.archived => y.archived
  BY <1>1, <1>5
<1>7. x = was => y = now
  <2> SUFFICES ASSUME x = was PROVE y = now
    OBVIOUS
  <2>1. y.link = now.link /\ y.tags = now.tags /\ y.folder = now.folder
    BY <1>1
  <2>2. y.archived <=> now.archived
    BY <1>5
  <2> QED BY <1>1, <1>2, <2>1, <2>2, ItemsByParts
<1> QED BY <1>2, <1>3, <1>4, <1>6, <1>7

-----------------------------------------------------------------------------
(* Its parts                                                               *)

ItemsPart ==
    /\ item \in [Ids -> Items \cup {None}] /\ folders \subseteq Folders
    /\ \A i \in Present : item[i].folder \in folders \cup {None}

RulesPart ==
    /\ rules \in RuleSets /\ hollowed \subseteq 1..MaxRule
    /\ RulesFile
    /\ \A k \in RuleIds \ hollowed : DoesSomething(rules[k])

ListsPart ==
    /\ list \in Lists \cup {None} /\ change \in Lists \cup {None}
    /\ list # None => LooksForSomething(list)
    /\ ChangeLooks

SavesPart ==
    /\ saves \subseteq [by : Requests, link : Links] /\ twice \subseteq Links
    /\ SavesAreKnown /\ SavedOnce

RunPart ==
    /\ crossed \in BOOLEAN /\ reruled \in BOOLEAN /\ touched \subseteq Ids /\ begun \subseteq Ids
    /\ RunType /\ ReadForWrite /\ RunCovers

CountsPart == kind \in {"run", "save", "list"} /\ edits \in 0..MaxEdits /\ runs \in 0..MaxRuns

\* The invariant, by what it is about.
LEMMA OrganizeInParts ==
    OrganizeInv <=> ItemsPart /\ RulesPart /\ ListsPart /\ SavesPart /\ RunPart /\ CountsPart
<1>1. RunType => run.at \in {"no", "batch", "item", "write"}
  BY DEF RunType
<1> QED BY <1>1 DEF OrganizeInv, OrganizeTypeOK, NothingIsHollow, ItemsPart, RulesPart, ListsPart, SavesPart, RunPart,
           CountsPart, RuleSets

Creating ==
    \/ \E l \in Links : AutoStash(l) \/ Capture(l)
    \/ \E s \in saves : SaveCreates(s)
Changing == \E i \in Present : Delete(i) \/ \E x \in Versions(i) : Update(i, x)
Filing == NewFolder \/ \E f \in Folders : DeleteFolder(f)
Ruling == (\E r \in RuleInputs : NewRule(r)) \/ \E k \in 1..MaxRule : DeleteRule(k)
Tagging == \E t \in Tags : DeleteTag(t) \/ \E old \in Tags : RenameTag(old, t)
Listing == DeleteList \/ \E l \in ListInputs : NewList(l) \/ ListChange(l)
Looking == \E q \in Requests, l \in Links : SaveLooks(q, l)

\* What can happen.
LEMMA StepsOfOrganize ==
    OrganizeNext => Run \/ Creating \/ Changing \/ Filing \/ Ruling \/ Tagging \/ Listing \/ Looking \/ ListWritten \/ Restart
BY DEF OrganizeNext, Saves, User, Creating, Changing, Filing, Ruling, Tagging, Listing, Looking

\* A new row has the id after the largest, which no row has.
LEMMA NextIsNew ==
    ASSUME NEW n \in Nat, NEW S \in SUBSET (1..n)
    PROVE  NextOf(S) \in Nat \ {0} /\ NextOf(S) \notin S
<1>1. S \cup {0} \in SUBSET (0..n) /\ S \cup {0} # {}
  OBVIOUS
<1>2. Max(S \cup {0}) \in S \cup {0} /\ \A i \in S \cup {0} : Max(S \cup {0}) >= i
  BY <1>1, MaxOfBounded
<1> PICK m : m = Max(S \cup {0})
  OBVIOUS
<1>3. m \in S \cup {0} /\ \A i \in S \cup {0} : m >= i
  BY <1>2
<1>4. m \in 0..n
  BY <1>1, <1>3
<1>5. ASSUME 1 + m \in S PROVE FALSE
  <2>1. m >= 1 + m
    BY <1>3, <1>5
  <2> QED BY <2>1, <1>4
<1>6. NextOf(S) = 1 + m
  BY DEF NextOf
<1> QED BY <1>4, <1>5, <1>6

\* A new item comes with what the rules make of it.
LEMMA ItemCreated ==
    ASSUME ItemsPart, RulesPart, NEW l \in Links, Create(Plain(l))
    PROVE  \E n \in Ids : /\ n \notin Present
                          /\ item' = [item EXCEPT ![n] = Applied(rules, Plain(l))]
                          /\ Applied(rules, Plain(l)) \in Items /\ Applied(rules, Plain(l)).link = l
                          /\ Applied(rules, Plain(l)).folder \in folders \cup {None}
<1>1. NextOf(Present) \in Ids /\ item' = [item EXCEPT ![NextOf(Present)] = Applied(rules, Plain(l))]
  BY DEF Create
<1>2. NextOf(Present) \notin Present
  <2>1. Present \in SUBSET (1..MaxId) /\ MaxId \in Nat
    BY OrganizeParameters DEF Present, Ids
  <2> QED BY <2>1, NextIsNew
<1>3. Plain(l) \in Items /\ Plain(l).link = l /\ Plain(l).folder = None
  BY DEF Plain, Items
<1>4. rules \in RuleSets /\ \A k \in 1..MaxRule : rules[k] # None => rules[k].folder \in folders \cup {None}
  BY DEF RulesPart, RulesFile, RuleIds
<1>5. Applied(rules, Plain(l)).folder \in folders \cup {None}
  <2> PICK x : x = Plain(l)
    OBVIOUS
  <2>1. x \in Items /\ x.folder = None
    BY <1>3
  <2>2. FolderFor(rules, x) \in folders \cup {None}
    BY <2>1, <1>4, RulesApplied
  <2> QED BY <2>1, <2>2, <1>4, RulesApplied
<1> QED BY <1>1, <1>2, <1>3, <1>4, <1>5, RulesApplied

\* The items a run writes are what the rules make of them, and its folders are there.
LEMMA RunWritten ==
    ASSUME ItemsPart, RunPart, RunWrites
    PROVE  /\ item' \in [Ids -> Items \cup {None}] /\ Present' = Present /\ UNCHANGED <<folders, rules, saves, twice>>
           /\ \A i \in Present : /\ item'[i].link = item[i].link
                                 /\ item'[i].folder \in folders \cup {None}
                                 /\ item[i].archived => item'[i].archived
<1>0. /\ item \in [Ids -> Items \cup {None}] /\ run.rules \in RuleSets /\ run.at = "write" /\ run.read \in Items
      /\ run.batch \subseteq Ids
  BY DEF ItemsPart, RunPart, RunType, RunWrites, RuleSets, ReadForWrite
<1>1. UNCHANGED <<folders, rules, saves, twice>>
  BY DEF RunWrites, history
<1>2. \A i \in Present : i \in Ids /\ item[i] \in Items /\ item[i].folder \in folders \cup {None}
  BY <1>0 DEF Present, ItemsPart
<1>3. CASE UNCHANGED item
  BY <1>0, <1>1, <1>2, <1>3 DEF Present
<1>4. CASE /\ item[NextItem] # None /\ FolderIsThere(run.read, Applied(run.rules, run.read))
           /\ item' = [k \in Ids |-> IF k = NextItem THEN Updated(item[NextItem], run.read, Applied(run.rules, run.read))
                                     ELSE IF k \in run.batch \ {NextItem} THEN Sorted(k) ELSE item[k]]
  <2> PICK now : now = Applied(run.rules, run.read)
    OBVIOUS
  <2>0. NextItem \in Ids /\ item[NextItem] \in Items
    <3>1. run.batch \in SUBSET Nat /\ run.batch # {}
      BY <1>0 DEF RunPart, ReadForWrite, Ids
    <3>2. NextItem \in Ids
      BY <1>0, <3>1, MinOfNumbers DEF NextItem
    <3> QED BY <1>0, <1>4, <3>2
  <2> PICK y : y = Updated(item[NextItem], run.read, now)
    OBVIOUS
  <2>1. /\ y \in Items /\ y.link = item[NextItem].link /\ (item[NextItem].archived => y.archived)
        /\ y.folder \in folders \cup {None}
    <3>1. /\ y \in Items /\ y.link = item[NextItem].link /\ (item[NextItem].archived => y.archived)
          /\ y.folder \in {item[NextItem].folder, now.folder} /\ (y.folder # item[NextItem].folder => now.folder # run.read.folder)
      BY <1>0, <2>0, ItemUpdated
    <3>2. now.folder \in folders \cup {None, run.read.folder}
      BY <1>4 DEF FolderIsThere
    <3>3. item[NextItem].folder \in folders \cup {None}
      BY <1>2, <1>4, <2>0 DEF Present
    <3> QED BY <3>1, <3>2, <3>3
  <2>2. ASSUME NEW k \in Present
        PROVE  /\ Sorted(k) \in Items /\ Sorted(k).link = item[k].link /\ (item[k].archived => Sorted(k).archived)
               /\ Sorted(k).folder \in folders \cup {None}
    <3> PICK x : x = item[k]
      OBVIOUS
    <3>1. x \in Items /\ x.folder \in folders \cup {None} /\ x # None
      BY <1>2, NothingIsNone
    <3>2. CASE FolderIsThere(x, Applied(run.rules, x))
      <4>1. Sorted(k) = Applied(run.rules, x)
        BY <3>1, <3>2 DEF Sorted
      <4>2. Applied(run.rules, x).folder \in folders \cup {None}
        BY <3>1, <3>2 DEF FolderIsThere
      <4> QED BY <4>1, <4>2, <3>1, <1>0, RulesApplied
    <3>3. CASE ~FolderIsThere(x, Applied(run.rules, x))
      <4>1. Sorted(k) = x
        BY <3>1, <3>3 DEF Sorted
      <4> QED BY <4>1, <3>1
    <3> QED BY <3>2, <3>3
  <2>3. \A k \in Ids \ Present : item[k] = None /\ Sorted(k) = None /\ k # NextItem
    BY <1>4 DEF Present, Sorted
  <2>4. ASSUME NEW k \in Ids
        PROVE  item'[k] = IF k = NextItem THEN y ELSE IF k \in run.batch \ {NextItem} THEN Sorted(k) ELSE item[k]
    BY <1>4
  <2>5. \A k \in Present : /\ item'[k] \in Items /\ item'[k].link = item[k].link
                           /\ item'[k].folder \in folders \cup {None} /\ (item[k].archived => item'[k].archived)
    BY <1>2, <2>1, <2>2, <2>4
  <2>6. \A k \in Ids \ Present : item'[k] = None
    BY <2>3, <2>4
  <2>7. item' \in [Ids -> Items \cup {None}]
    <3>1. \A k \in Ids : item'[k] \in Items \cup {None}
      BY <2>5, <2>6
    <3>2. item' = [k \in Ids |-> item'[k]]
      BY <1>4
    <3> QED BY <3>1, <3>2
  <2>8. Present' = Present
    BY <2>5, <2>6, NothingIsNone DEF Present
  <2> QED BY <1>1, <2>5, <2>7, <2>8
<1> QED BY <1>3, <1>4 DEF RunWrites

\* Items stay in folders that there are.
LEMMA ItemsStep ==
    ASSUME OrganizeInv, [OrganizeNext]_organizeVars
    PROVE  ItemsPart'
<1>0. /\ ItemsPart /\ RulesPart /\ RunPart
      /\ item \in [Ids -> Items \cup {None}] /\ folders \subseteq Folders
      /\ \A i \in Present : i \in Ids /\ item[i] \in Items /\ item[i].folder \in folders \cup {None}
  BY OrganizeInParts DEF ItemsPart, Present
<1>1. CASE UNCHANGED <<item, folders>>
  BY <1>0, <1>1 DEF ItemsPart, Present
<1>2. ASSUME NEW l \in Links, Create(Plain(l))
      PROVE  ItemsPart'
  <2> PICK x : x = Applied(rules, Plain(l))
    OBVIOUS
  <2>1. PICK n \in Ids : n \notin Present /\ item' = [item EXCEPT ![n] = x] /\ x \in Items /\ x.folder \in folders \cup {None}
    BY <1>0, <1>2, ItemCreated
  <2>2. UNCHANGED folders
    BY <1>2 DEF Create
  <2>3. \A k \in Ids : item'[k] = IF k = n THEN x ELSE item[k]
    BY <1>0, <2>1
  <2> QED BY <1>0, <2>1, <2>2, <2>3 DEF ItemsPart, Present
<1>3. CASE Creating
  BY <1>2, <1>3 DEF Creating, AutoStash, Capture, SaveCreates, OrganizeInv, OrganizeTypeOK
<1>4. ASSUME NEW i \in Present, Delete(i)
      PROVE  ItemsPart'
  <2>1. item' = [item EXCEPT ![i] = None] /\ UNCHANGED folders
    BY <1>4 DEF Delete
  <2>2. \A k \in Ids : item'[k] = IF k = i THEN None ELSE item[k]
    BY <1>0, <2>1
  <2> QED BY <1>0, <2>1, <2>2 DEF ItemsPart, Present
<1>5. ASSUME NEW i \in Present, NEW x \in Versions(i), Update(i, x)
      PROVE  ItemsPart'
  <2>1. item' = [item EXCEPT ![i] = x] /\ UNCHANGED folders
    BY <1>5 DEF Update
  <2>2. x \in Items /\ x.folder \in folders \cup {None}
    BY <1>0 DEF Versions, Items
  <2>3. \A k \in Ids : item'[k] = IF k = i THEN x ELSE item[k]
    BY <1>0, <2>1
  <2> QED BY <1>0, <2>1, <2>2, <2>3 DEF ItemsPart, Present
<1>6. CASE NewFolder
  <2>1. UNCHANGED item /\ folders' = folders \cup {NextOf(folders)} /\ NextOf(folders) \in Folders
    BY <1>6 DEF NewFolder
  <2> QED BY <1>0, <2>1 DEF ItemsPart, Present
<1>7. ASSUME NEW f \in Folders, DeleteFolder(f)
      PROVE  ItemsPart'
  <2>1. /\ item' = [i \in Ids |-> IF i \in Present /\ item[i].folder = f THEN [item[i] EXCEPT !.folder = None] ELSE item[i]]
        /\ folders' = folders \ {f}
    BY <1>7 DEF DeleteFolder
  <2>2. \A i \in Present : [item[i] EXCEPT !.folder = None] \in Items /\ [item[i] EXCEPT !.folder = None].folder = None
    BY <1>0 DEF Items
  <2>3. \A i \in Present : item'[i] \in Items /\ item'[i].folder \in (folders \ {f}) \cup {None}
    BY <1>0, <2>1, <2>2
  <2>4. \A i \in Ids \ Present : item'[i] = None
    BY <2>1 DEF Present
  <2>5. item' \in [Ids -> Items \cup {None}]
    BY <2>1, <2>3, <2>4
  <2>6. Present' \subseteq Present
    BY <2>4 DEF Present
  <2> QED BY <1>0, <2>1, <2>3, <2>5, <2>6 DEF ItemsPart
<1>8. ASSUME UNCHANGED folders, item' = [i \in Ids |-> IF i \in Present THEN item'[i] ELSE None],
             \A i \in Present : item'[i] \in Items /\ item'[i].folder = item[i].folder
      PROVE  ItemsPart'
  <2>1. \A i \in Ids \ Present : item'[i] = None
    BY <1>8
  <2>2. item' \in [Ids -> Items \cup {None}]
    BY <1>8, <2>1
  <2>3. Present' \subseteq Present
    BY <2>1 DEF Present
  <2> QED BY <1>0, <1>8, <2>2, <2>3 DEF ItemsPart
<1>9. ASSUME NEW t \in Tags, DeleteTag(t)
      PROVE  ItemsPart'
  <2>1. item' = [i \in Ids |-> IF i \in Present THEN [item[i] EXCEPT !.tags = @ \ {t}] ELSE None] /\ UNCHANGED folders
    BY <1>9 DEF DeleteTag
  <2>2. \A i \in Present : [item[i] EXCEPT !.tags = @ \ {t}] \in Items /\ [item[i] EXCEPT !.tags = @ \ {t}].folder = item[i].folder
    BY <1>0 DEF Items
  <2> QED BY <1>0, <1>8, <2>1, <2>2
<1>10. ASSUME NEW old \in Tags, NEW new \in Tags, RenameTag(old, new)
       PROVE  ItemsPart'
  <2>1. /\ item' = [i \in Ids |-> IF i \in Present THEN [item[i] EXCEPT !.tags = {Instead(t, old, new) : t \in @}] ELSE None]
        /\ UNCHANGED folders
    BY <1>10 DEF RenameTag
  <2>2. \A i \in Present : {Instead(t, old, new) : t \in item[i].tags} \in SUBSET Tags
    BY <1>0 DEF Items, Instead
  <2>3. \A i \in Present : \A T \in SUBSET Tags : [item[i] EXCEPT !.tags = T] \in Items /\ [item[i] EXCEPT !.tags = T].folder = item[i].folder
    BY <1>0 DEF Items
  <2>4. \A i \in Present : item'[i] = [item[i] EXCEPT !.tags = {Instead(t, old, new) : t \in item[i].tags}]
    BY <1>0, <2>1
  <2>5. \A i \in Present : item'[i] \in Items /\ item'[i].folder = item[i].folder
    BY <2>2, <2>3, <2>4
  <2> QED BY <1>0, <1>8, <2>1, <2>5
<1>11. CASE RunWrites
  <2>1. /\ item' \in [Ids -> Items \cup {None}] /\ Present' = Present /\ UNCHANGED folders
        /\ \A i \in Present : item'[i].folder \in folders \cup {None}
    BY <1>0, <1>11, RunWritten
  <2> QED BY <1>0, <2>1 DEF ItemsPart
<1>12. CASE Run
  BY <1>1, <1>11, <1>12 DEF Run, RunBegins, RunReadsRules, RunReadsItem, RunGoesOn, RunEnds, stash
<1>13. CASE Ruling \/ Listing \/ Looking \/ ListWritten \/ Restart
  BY <1>1, <1>13 DEF Ruling, NewRule, DeleteRule, Listing, DeleteList, NewList, ListChange, Looking, SaveLooks, ListWritten,
       Restart, stash
<1>14. UNCHANGED organizeVars => UNCHANGED <<item, folders>>
  BY DEF organizeVars
<1> QED BY <1>1, <1>3, <1>4, <1>5, <1>6, <1>7, <1>9, <1>10, <1>12, <1>13, <1>14, StepsOfOrganize DEF Changing, Filing, Tagging

\* Rules do something, and file in folders that there are.
LEMMA RulesStep ==
    ASSUME OrganizeInv, [OrganizeNext]_organizeVars
    PROVE  RulesPart'
<1>0. /\ RulesPart /\ ItemsPart /\ rules \in RuleSets /\ hollowed \subseteq 1..MaxRule /\ MaxRule \in Nat
      /\ \A k \in RuleIds : k \in 1..MaxRule /\ rules[k] \in Rules /\ rules[k].folder \in folders \cup {None}
      /\ \A k \in RuleIds \ hollowed : DoesSomething(rules[k])
      /\ DOMAIN rules = 1..MaxRule
  BY OrganizeInParts, OrganizeParameters DEF RulesPart, RuleIds, RuleSets, RulesFile
<1>1. CASE UNCHANGED <<rules, folders, hollowed>>
  BY <1>0, <1>1 DEF RulesPart, RulesFile, RuleIds
<1>2. ASSUME rules' \in RuleSets, hollowed' \subseteq 1..MaxRule,
             \A k \in 1..MaxRule : rules'[k] # None =>
                 /\ rules'[k].folder \in folders' \cup {None}
                 /\ k \notin hollowed' => DoesSomething(rules'[k])
      PROVE  RulesPart'
  <2>1. RuleIds' = {k \in 1..MaxRule : rules'[k] # None}
    BY DEF RuleIds
  <2> QED BY <1>2, <2>1 DEF RulesPart, RulesFile
<1>3. CASE NewFolder
  <2>1. UNCHANGED <<rules, hollowed>> /\ folders \subseteq folders'
    BY <1>3 DEF NewFolder
  <2> QED BY <1>0, <1>2, <2>1 DEF RuleIds
<1>4. ASSUME NEW f \in Folders, DeleteFolder(f)
      PROVE  RulesPart'
  <2>1. /\ rules' = [k \in DOMAIN rules |-> IF k \in RuleIds /\ rules[k].folder = f THEN [rules[k] EXCEPT !.folder = None] ELSE rules[k]]
        /\ folders' = folders \ {f}
        /\ hollowed' = hollowed \cup {k \in RuleIds : rules[k].folder = f /\ ~DoesSomething([rules[k] EXCEPT !.folder = None])}
    BY <1>4 DEF DeleteFolder
  <2>2. \A k \in RuleIds : [rules[k] EXCEPT !.folder = None] \in Rules /\ [rules[k] EXCEPT !.folder = None].folder = None
    BY <1>0 DEF Rules
  <2>3. ASSUME NEW k \in 1..MaxRule
        PROVE  /\ rules'[k] \in Rules \cup {None}
               /\ rules'[k] # None => /\ rules'[k].folder \in folders' \cup {None}
                                      /\ k \notin hollowed' => DoesSomething(rules'[k])
    <3>1. CASE k \in RuleIds /\ rules[k].folder = f
      <4>1. rules'[k] = [rules[k] EXCEPT !.folder = None]
        BY <1>0, <2>1, <3>1
      <4>2. k \notin hollowed' => DoesSomething([rules[k] EXCEPT !.folder = None])
        BY <2>1, <3>1
      <4> QED BY <4>1, <4>2, <2>2, <3>1
    <3>2. CASE k \in RuleIds /\ rules[k].folder # f
      <4>1. rules'[k] = rules[k]
        BY <1>0, <2>1, <3>2
      <4> QED BY <4>1, <1>0, <2>1, <3>2
    <3>3. CASE k \notin RuleIds
      <4>1. rules'[k] = rules[k]
        BY <1>0, <2>1, <3>3
      <4> QED BY <4>1, <3>3 DEF RuleIds
    <3> QED BY <3>1, <3>2, <3>3
  <2>4. rules' \in RuleSets /\ hollowed' \subseteq 1..MaxRule
    <3>1. rules' = [k \in 1..MaxRule |-> rules'[k]]
      BY <1>0, <2>1
    <3>2. hollowed' \subseteq 1..MaxRule
      BY <1>0, <2>1 DEF RuleIds
    <3> QED BY <3>1, <3>2, <2>3 DEF RuleSets
  <2> QED BY <1>2, <2>3, <2>4
<1>5. ASSUME NEW r \in RuleInputs, NewRule(r)
      PROVE  RulesPart'
  <2> PICK n : n = NextOf(RuleIds)
    OBVIOUS
  <2>1. /\ DoesSomething(r) /\ r.folder \in folders \cup {None} /\ n <= MaxRule
        /\ rules' = [rules EXCEPT ![n] = r] /\ hollowed' = hollowed \ {n} /\ UNCHANGED folders
    BY <1>5 DEF NewRule
  <2>2. n \in 1..MaxRule /\ r \in Rules
    <3>1. RuleIds \in SUBSET (1..MaxRule)
      BY DEF RuleIds
    <3>2. n \in Nat \ {0}
      BY <1>0, <3>1, NextIsNew
    <3> QED BY <1>0, <2>1, <3>2, Inputs
  <2>3. rules' \in RuleSets /\ \A k \in 1..MaxRule : rules'[k] = IF k = n THEN r ELSE rules[k]
    BY <1>0, <2>1, <2>2 DEF RuleSets
  <2>4. \A k \in 1..MaxRule : rules'[k] # None =>
                 /\ rules'[k].folder \in folders' \cup {None}
                 /\ k \notin hollowed' => DoesSomething(rules'[k])
    BY <1>0, <2>1, <2>3 DEF RuleIds
  <2> QED BY <1>0, <1>2, <2>1, <2>3, <2>4
<1>6. ASSUME NEW k \in 1..MaxRule, DeleteRule(k)
      PROVE  RulesPart'
  <2>1. rules' = [rules EXCEPT ![k] = None] /\ UNCHANGED <<hollowed, folders>>
    BY <1>6 DEF DeleteRule
  <2>2. rules' \in RuleSets /\ \A j \in 1..MaxRule : rules'[j] = IF j = k THEN None ELSE rules[j]
    BY <1>0, <2>1 DEF RuleSets
  <2> QED BY <1>0, <1>2, <2>1, <2>2 DEF RuleIds
<1>7. ASSUME NEW old \in Tags, NEW new \in Tags, RenameTag(old, new)
      PROVE  RulesPart'
  <2>1. /\ rules' = [k \in DOMAIN rules |-> IF k \in RuleIds THEN [rules[k] EXCEPT !.tag = Instead(@, old, new)] ELSE None]
        /\ UNCHANGED <<hollowed, folders>>
    BY <1>7 DEF RenameTag
  <2>2. ASSUME NEW k \in 1..MaxRule
        PROVE  /\ rules'[k] \in Rules \cup {None}
               /\ rules'[k] # None => k \in RuleIds /\ rules'[k].folder = rules[k].folder /\ (DoesSomething(rules[k]) => DoesSomething(rules'[k]))
    <3>1. CASE k \in RuleIds
      <4> PICK t : t = Instead(rules[k].tag, old, new)
        OBVIOUS
      <4>1. rules'[k] = [rules[k] EXCEPT !.tag = t]
        BY <1>0, <2>1, <3>1
      <4>2. t \in Tags \cup {None} /\ (rules[k].tag # None => t # None)
        BY <1>0, <3>1, NothingIsNone DEF Instead, Rules
      <4>3. /\ rules'[k] \in Rules /\ rules'[k].tag = t /\ rules'[k].folder = rules[k].folder
            /\ rules'[k].archive = rules[k].archive
        BY <1>0, <3>1, <4>1, <4>2 DEF Rules
      <4> QED BY <3>1, <4>2, <4>3 DEF DoesSomething
    <3>2. CASE k \notin RuleIds
      BY <1>0, <2>1, <3>2
    <3> QED BY <3>1, <3>2
  <2>3. rules' \in RuleSets
    <3>1. rules' = [k \in 1..MaxRule |-> rules'[k]]
      BY <1>0, <2>1
    <3> QED BY <3>1, <2>2 DEF RuleSets
  <2> QED BY <1>0, <1>2, <2>1, <2>2, <2>3
<1>8. ASSUME NEW t \in Tags, DeleteTag(t)
      PROVE  RulesPart'
  <2>1. rules' = [k \in DOMAIN rules |-> RuleWithout(k, t)] /\ UNCHANGED <<hollowed, folders>>
    BY <1>8 DEF DeleteTag
  <2>2. ASSUME NEW k \in 1..MaxRule
        PROVE  /\ rules'[k] \in Rules \cup {None}
               /\ rules'[k] # None => /\ rules'[k].folder \in folders' \cup {None}
                                      /\ k \notin hollowed' => DoesSomething(rules'[k])
    <3> PICK r : r = [rules[k] EXCEPT !.tag = Instead(rules[k].tag, t, None)]
      OBVIOUS
    <3>1. rules'[k] = IF k \in RuleIds /\ DoesSomething(r) THEN r ELSE IF k \in hollowed THEN rules[k] ELSE None
      BY <1>0, <2>1 DEF RuleWithout
    <3>2. k \in RuleIds => r \in Rules /\ r.folder = rules[k].folder
      BY <1>0 DEF Rules, Instead
    <3>3. k \notin RuleIds => rules[k] = None
      BY DEF RuleIds
    <3>4. CASE k \in RuleIds /\ DoesSomething(r)
      BY <1>0, <2>1, <3>1, <3>2, <3>4
    <3>5. CASE ~(k \in RuleIds /\ DoesSomething(r))
      BY <1>0, <2>1, <3>1, <3>3, <3>5
    <3> QED BY <3>4, <3>5
  <2>3. rules' \in RuleSets
    <3>1. rules' = [k \in 1..MaxRule |-> rules'[k]]
      BY <1>0, <2>1
    <3> QED BY <3>1, <2>2 DEF RuleSets
  <2> QED BY <1>0, <1>2, <2>1, <2>2, <2>3
<1>9. CASE Run \/ Restart
  BY <1>1, <1>9 DEF Run, RunBegins, RunReadsRules, RunReadsItem, RunWrites, RunGoesOn, RunEnds, Restart, stash, history
<1>10. CASE Creating \/ Changing
  BY <1>1, <1>10 DEF Creating, AutoStash, Capture, SaveCreates, Create, Changing, Delete, Update
<1>11. CASE Listing \/ Looking \/ ListWritten
  BY <1>1, <1>11 DEF Listing, DeleteList, NewList, ListChange, Looking, SaveLooks, ListWritten, stash, history
<1>12. UNCHANGED organizeVars => UNCHANGED <<rules, folders, hollowed>>
  BY DEF organizeVars
<1> QED BY <1>1, <1>3, <1>4, <1>5, <1>6, <1>7, <1>8, <1>9, <1>10, <1>11, <1>12, StepsOfOrganize DEF Filing, Tagging, Ruling

\* A smart list looks for something, also one that is being edited.
LEMMA ListsStep ==
    ASSUME OrganizeInv, [OrganizeNext]_organizeVars
    PROVE  ListsPart'
<1>0. ListsPart /\ list \in Lists \cup {None} /\ change \in Lists \cup {None}
  BY OrganizeInParts DEF ListsPart
<1>1. CASE UNCHANGED <<list, change>>
  BY <1>0, <1>1 DEF ListsPart, ChangeLooks
<1>2. ASSUME list' \in Lists \cup {None}, list' # None => LooksForSomething(list'), UNCHANGED change \/ change' = None
      PROVE  ListsPart'
  BY <1>0, <1>2 DEF ListsPart, ChangeLooks
<1>3. ASSUME NEW f \in Folders, DeleteFolder(f)
      PROVE  ListsPart'
  <2>1. list' \in {list, None} /\ UNCHANGED change
    BY <1>3 DEF DeleteFolder
  <2> QED BY <1>0, <1>2, <2>1 DEF ListsPart
<1>4. ASSUME NEW old \in Tags, NEW new \in Tags, RenameTag(old, new)
      PROVE  ListsPart'
  <2>1. list' = (IF list = None THEN None ELSE [list EXCEPT !.tag = Instead(@, old, new)]) /\ UNCHANGED change
    BY <1>4 DEF RenameTag
  <2>2. CASE list # None
    <3> PICK t : t = Instead(list.tag, old, new)
      OBVIOUS
    <3>1. list' = [list EXCEPT !.tag = t] /\ list \in Lists /\ LooksForSomething(list)
      BY <1>0, <2>1, <2>2 DEF ListsPart
    <3>2. t \in Tags \cup {None} /\ (list.tag # None => t # None)
      BY <3>1, NothingIsNone DEF Instead, Lists
    <3>3. list' \in Lists /\ list'.tag = t /\ list'.folder = list.folder /\ list'.words = list.words
      BY <3>1, <3>2 DEF Lists
    <3>4. LooksForSomething(list')
      BY <3>1, <3>2, <3>3 DEF LooksForSomething
    <3> QED BY <1>2, <2>1, <3>3, <3>4
  <2> QED BY <1>2, <2>1, <2>2
<1>5. ASSUME NEW t \in Tags, DeleteTag(t)
      PROVE  ListsPart'
  <2>1. list' = ListWithout(t) /\ UNCHANGED change
    BY <1>5 DEF DeleteTag
  <2> PICK l : l = [list EXCEPT !.tag = Instead(list.tag, t, None)]
    OBVIOUS
  <2>2. list' = IF list # None /\ LooksForSomething(l) THEN l ELSE None
    BY <2>1 DEF ListWithout
  <2>3. list # None => l \in Lists
    BY <1>0 DEF Lists, Instead
  <2> QED BY <1>2, <2>1, <2>2, <2>3
<1>6. ASSUME NEW l \in ListInputs, NewList(l)
      PROVE  ListsPart'
  <2>1. list' = l /\ l \in Lists /\ LooksForSomething(l) /\ UNCHANGED change
    BY <1>6, Inputs DEF NewList
  <2> QED BY <1>2, <2>1
<1>7. ASSUME NEW l \in ListInputs, ListChange(l)
      PROVE  ListsPart'
  <2>1. list' = list /\ change' = l /\ l \in Lists /\ LooksForSomething(l)
    BY <1>7, Inputs DEF ListChange, stash
  <2> QED BY <1>0, <2>1 DEF ListsPart, ChangeLooks
<1>8. CASE DeleteList
  BY <1>2, <1>8 DEF DeleteList
<1>9. CASE ListWritten
  <2>1. list' \in {list, change} /\ change # None /\ change' = None
    BY <1>9 DEF ListWritten
  <2> QED BY <1>0, <1>2, <2>1 DEF ListsPart, ChangeLooks
<1>10. CASE Restart
  <2>1. list' = list /\ change' = None
    BY <1>10 DEF Restart, stash
  <2> QED BY <1>0, <1>2, <2>1 DEF ListsPart
<1>11. CASE Run \/ Looking
  BY <1>1, <1>11 DEF Run, RunBegins, RunReadsRules, RunReadsItem, RunWrites, RunGoesOn, RunEnds, Looking, SaveLooks, stash
<1>12. CASE Creating \/ Changing \/ Ruling \/ NewFolder
  BY <1>1, <1>12 DEF Creating, AutoStash, Capture, SaveCreates, Create, Changing, Delete, Update, Ruling, NewRule, DeleteRule, NewFolder
<1>13. UNCHANGED organizeVars => UNCHANGED <<list, change>>
  BY DEF organizeVars
<1> QED BY <1>1, <1>3, <1>4, <1>5, <1>6, <1>7, <1>8, <1>9, <1>10, <1>11, <1>12, <1>13, StepsOfOrganize DEF Filing, Tagging, Listing

\* What keeps its link and is not taken out of the archive can't be saved twice by that.
LEMMA SameLinks ==
    ASSUME OrganizeInv, saves' \subseteq saves, twice' = twice,
           \A i \in Present' : i \in Present /\ item'[i].link = item[i].link /\ (item[i].archived => item'[i].archived)
    PROVE  SavesPart'
<1>1. SavesPart
  BY OrganizeInParts
<1>2. \A s \in saves' : Found(s.link)' => Found(s.link)
  BY DEF Found
<1> QED BY <1>1, <1>2 DEF SavesPart, SavesAreKnown, SavedOnce

\* A new item's link was not there, or that is known.
LEMMA LinkCreated ==
    ASSUME OrganizeInv, NEW l \in Links, Create(Plain(l)), saves' \subseteq saves, twice \subseteq twice', twice' \subseteq Links,
           Found(l) => l \in twice', \A s \in saves' : s.link = l => l \in twice'
    PROVE  SavesPart'
<1>0. SavesPart /\ ItemsPart /\ RulesPart /\ item \in [Ids -> Items \cup {None}]
  BY OrganizeInParts DEF ItemsPart
<1> PICK x : x = Applied(rules, Plain(l))
  OBVIOUS
<1>1. PICK n \in Ids : n \notin Present /\ item' = [item EXCEPT ![n] = x] /\ x.link = l
  BY <1>0, ItemCreated
<1>2. \A k \in Ids : item'[k] = IF k = n THEN x ELSE item[k]
  BY <1>0, <1>1
<1>3. \A i \in Present' : (i = n /\ item'[i] = x) \/ (i \in Present /\ item'[i] = item[i])
  BY <1>2 DEF Present
<1>4. ASSUME NEW s \in saves', Found(s.link)'
      PROVE  s.link \in twice'
  <2>1. PICK i \in Present' : item'[i].link = s.link /\ ~item'[i].archived
    BY <1>4 DEF Found
  <2>2. CASE i = n
    BY <1>1, <1>3, <2>1, <2>2
  <2>3. CASE i # n
    <3>1. Found(s.link)
      BY <1>3, <2>1, <2>3 DEF Found
    <3> QED BY <1>0, <3>1 DEF SavesPart, SavesAreKnown
  <2> QED BY <2>2, <2>3
<1>5. ASSUME NEW i \in Present', NEW j \in Present', i # j, item'[i].link = item'[j].link, ~item'[i].archived, ~item'[j].archived
      PROVE  item'[i].link \in twice'
  <2>1. CASE i # n /\ j # n
    BY <1>0, <1>3, <1>5, <2>1 DEF SavesPart, SavedOnce
  <2>2. CASE i = n \/ j = n
    <3>1. PICK k \in Present : item[k].link = l /\ ~item[k].archived
      BY <1>1, <1>3, <1>5, <2>2
    <3>2. Found(l)
      BY <3>1 DEF Found
    <3>3. item'[i].link = l
      BY <1>1, <1>3, <1>5, <2>2
    <3> QED BY <3>2, <3>3
  <2> QED BY <2>1, <2>2
<1>6. saves' \subseteq [by : Requests, link : Links]
  BY <1>0 DEF SavesPart
<1>7. \A s, t \in saves' : s # t /\ s.link = t.link => s.link \in twice'
  BY <1>0 DEF SavesPart, SavesAreKnown
<1> QED BY <1>4, <1>5, <1>6, <1>7 DEF SavesPart, SavesAreKnown, SavedOnce

\* Who looks for a link and doesn't find it saves it alone, or that is known.
LEMMA SavesStep ==
    ASSUME OrganizeInv, [OrganizeNext]_organizeVars
    PROVE  SavesPart'
<1>0. /\ SavesPart /\ ItemsPart /\ RunPart /\ item \in [Ids -> Items \cup {None}] /\ folders \subseteq Folders
      /\ twice \subseteq Links
      /\ saves \subseteq [by : Requests, link : Links]
      /\ \A i \in Present : i \in Ids /\ item[i] \in Items
  BY OrganizeInParts DEF ItemsPart, SavesPart, Present
<1>1. CASE UNCHANGED <<item, twice>> /\ saves' \subseteq saves
  BY <1>1, SameLinks DEF Present
<1>2. ASSUME NEW l \in Links, AutoStash(l)
      PROVE  SavesPart'
  <2>1. /\ ~Found(l) /\ Create(Plain(l)) /\ saves' = saves
        /\ twice' = IF \E s \in saves : s.link = l THEN twice \cup {l} ELSE twice
    BY <1>2 DEF AutoStash
  <2> QED BY <1>0, <2>1, LinkCreated
<1>3. ASSUME NEW l \in Links, Capture(l)
      PROVE  SavesPart'
  <2>1. Create(Plain(l)) /\ saves' = saves /\ twice' = twice \cup {l}
    BY <1>3 DEF Capture, Edit
  <2> QED BY <1>0, <2>1, LinkCreated
<1>4. ASSUME NEW s \in saves, SaveCreates(s)
      PROVE  SavesPart'
  <2> PICK l \in Links : l = s.link
    BY <1>0
  <2>1. Create(Plain(l)) /\ saves' = saves \ {s} /\ twice' = twice
    BY <1>4 DEF SaveCreates
  <2>2. Found(l) => l \in twice
    BY <1>0 DEF SavesPart, SavesAreKnown
  <2>3. \A t \in saves' : t.link = l => l \in twice
    BY <1>0, <2>1 DEF SavesPart, SavesAreKnown
  <2> QED BY <1>0, <2>1, <2>2, <2>3, LinkCreated
<1>5. ASSUME NEW q \in Requests, NEW l \in Links, SaveLooks(q, l)
      PROVE  SavesPart'
  <2>1. /\ saves' = IF Found(l) THEN saves ELSE saves \cup {[by |-> q, link |-> l]}
        /\ twice' = IF \E s \in saves : s.link = l THEN twice \cup {l} ELSE twice
        /\ UNCHANGED item
    BY <1>5 DEF SaveLooks, stash
  <2>2. Present' = Present /\ \A k \in Links : Found(k)' = Found(k)
    BY <2>1 DEF Present, Found
  <2>3. twice \subseteq twice' /\ twice' \subseteq Links /\ saves' \subseteq [by : Requests, link : Links]
    BY <1>0, <2>1
  <2>4. \A s \in saves' : s \in saves \/ (s.link = l /\ ~Found(l) /\ s = [by |-> q, link |-> l])
    BY <2>1
  <2>5. SavedOnce'
    BY <1>0, <2>1, <2>2, <2>3 DEF SavesPart, SavedOnce
  <2>6. \A s \in saves' : Found(s.link)' => s.link \in twice'
    BY <1>0, <2>2, <2>3, <2>4 DEF SavesPart, SavesAreKnown
  <2>7. \A s, t \in saves' : s # t /\ s.link = t.link => s.link \in twice'
    BY <1>0, <2>1, <2>3, <2>4 DEF SavesPart, SavesAreKnown
  <2> QED BY <2>3, <2>5, <2>6, <2>7 DEF SavesPart, SavesAreKnown
<1>6. ASSUME NEW i \in Present, Delete(i)
      PROVE  SavesPart'
  <2>1. item' = [item EXCEPT ![i] = None] /\ saves' = saves /\ twice' = twice
    BY <1>6 DEF Delete, Edit
  <2>2. \A k \in Ids : item'[k] = IF k = i THEN None ELSE item[k]
    BY <1>0, <2>1
  <2> QED BY <2>1, <2>2, SameLinks DEF Present
<1>7. ASSUME NEW i \in Present, NEW x \in Versions(i), Update(i, x)
      PROVE  SavesPart'
  <2>1. /\ item' = [item EXCEPT ![i] = x] /\ saves' = saves
        /\ twice' = IF item[i].archived /\ ~x.archived THEN twice \cup {x.link} ELSE twice
    BY <1>7 DEF Update, Edit
  <2>2. x.link = item[i].link /\ x.link \in Links /\ x \in Items
    <3>1. x \in Items
      BY <1>0 DEF Versions, Items
    <3>2. x.link = item[i].link
      BY <1>0 DEF Versions, Items
    <3> QED BY <3>1, <3>2 DEF Items
  <2>3. \A k \in Ids : item'[k] = IF k = i THEN x ELSE item[k]
    BY <1>0, <2>1
  <2>4. Present' = Present /\ \A k \in Present : k # i => item'[k] = item[k]
    BY <1>0, <2>2, <2>3, NothingIsNone DEF Present
  <2>5. item'[i] = x
    BY <1>0, <2>3
  <2>6. CASE item[i].archived => x.archived
    <3>1. twice' = twice
      BY <2>1, <2>6
    <3>2. \A k \in Present' : k \in Present /\ item'[k].link = item[k].link /\ (item[k].archived => item'[k].archived)
      BY <2>2, <2>4, <2>5, <2>6
    <3> QED BY <2>1, <3>1, <3>2, SameLinks
  <2>7. CASE ~(item[i].archived => x.archived)
    <3>1. twice' = twice \cup {x.link}
      BY <2>1, <2>7
    <3>2. ASSUME NEW s \in saves, Found(s.link)'
          PROVE  s.link \in twice'
      <4>1. PICK k \in Present : item'[k].link = s.link /\ ~item'[k].archived
        BY <2>4, <3>2 DEF Found
      <4>2. CASE k = i
        BY <2>5, <3>1, <4>1, <4>2
      <4>3. CASE k # i
        <5>1. Found(s.link)
          BY <2>4, <4>1, <4>3 DEF Found
        <5> QED BY <1>0, <3>1, <5>1 DEF SavesPart, SavesAreKnown
      <4> QED BY <4>2, <4>3
    <3>3. ASSUME NEW j \in Present, NEW k \in Present, j # k, item'[j].link = item'[k].link, ~item'[j].archived, ~item'[k].archived
          PROVE  item'[j].link \in twice'
      <4>1. CASE j = i \/ k = i
        BY <2>5, <3>1, <3>3, <4>1
      <4>2. CASE j # i /\ k # i
        BY <1>0, <2>4, <3>1, <3>3, <4>2 DEF SavesPart, SavedOnce
      <4> QED BY <4>1, <4>2
    <3>4. SavedOnce'
      BY <2>4, <3>3 DEF SavedOnce
    <3>5. SavesAreKnown'
      BY <1>0, <2>1, <3>1, <3>2 DEF SavesPart, SavesAreKnown
    <3> QED BY <1>0, <2>1, <2>2, <3>1, <3>4, <3>5 DEF SavesPart
  <2> QED BY <2>6, <2>7
<1>8. ASSUME NEW f \in Folders, DeleteFolder(f)
      PROVE  SavesPart'
  <2>1. /\ item' = [i \in Ids |-> IF i \in Present /\ item[i].folder = f THEN [item[i] EXCEPT !.folder = None] ELSE item[i]]
        /\ saves' = saves /\ twice' = twice
    BY <1>8 DEF DeleteFolder, Edit
  <2>2. \A i \in Present : /\ [item[i] EXCEPT !.folder = None].link = item[i].link
                           /\ [item[i] EXCEPT !.folder = None].archived = item[i].archived
    BY <1>0 DEF Items
  <2>3. \A i \in Present : item'[i].link = item[i].link /\ item'[i].archived = item[i].archived
    BY <1>0, <2>1, <2>2
  <2>4. Present' \subseteq Present
    BY <2>1 DEF Present
  <2> QED BY <2>1, <2>3, <2>4, SameLinks
<1>9. ASSUME NEW t \in Tags, DeleteTag(t)
      PROVE  SavesPart'
  <2>1. /\ item' = [i \in Ids |-> IF i \in Present THEN [item[i] EXCEPT !.tags = @ \ {t}] ELSE None]
        /\ saves' = saves /\ twice' = twice
    BY <1>9 DEF DeleteTag, Edit
  <2>2. \A i \in Present : /\ [item[i] EXCEPT !.tags = @ \ {t}].link = item[i].link
                           /\ [item[i] EXCEPT !.tags = @ \ {t}].archived = item[i].archived
    BY <1>0 DEF Items
  <2>3. \A i \in Present : item'[i].link = item[i].link /\ item'[i].archived = item[i].archived
    BY <1>0, <2>1, <2>2
  <2>4. Present' \subseteq Present
    BY <2>1 DEF Present
  <2> QED BY <2>1, <2>3, <2>4, SameLinks
<1>10. ASSUME NEW old \in Tags, NEW new \in Tags, RenameTag(old, new)
       PROVE  SavesPart'
  <2>1. /\ item' = [i \in Ids |-> IF i \in Present THEN [item[i] EXCEPT !.tags = {Instead(t, old, new) : t \in @}] ELSE None]
        /\ saves' = saves /\ twice' = twice
    BY <1>10 DEF RenameTag, Edit
  <2>2. \A i \in Present : \A T \in SUBSET Tags : /\ [item[i] EXCEPT !.tags = T].link = item[i].link
                                                 /\ [item[i] EXCEPT !.tags = T].archived = item[i].archived
    BY <1>0 DEF Items
  <2>3. \A i \in Present : item'[i] = [item[i] EXCEPT !.tags = {Instead(t, old, new) : t \in item[i].tags}]
    BY <1>0, <2>1
  <2>6. \A i \in Present : {Instead(t, old, new) : t \in item[i].tags} \in SUBSET Tags
    BY <1>0 DEF Items, Instead
  <2>4. \A i \in Present : item'[i].link = item[i].link /\ item'[i].archived = item[i].archived
    BY <2>2, <2>3, <2>6
  <2>5. Present' \subseteq Present
    BY <2>1 DEF Present
  <2> QED BY <2>1, <2>4, <2>5, SameLinks
<1>11. CASE RunWrites
  <2>1. /\ Present' = Present /\ UNCHANGED <<saves, twice>>
        /\ \A i \in Present : item'[i].link = item[i].link /\ (item[i].archived => item'[i].archived)
    BY <1>0, <1>11, RunWritten
  <2> QED BY <2>1, SameLinks
<1>12. CASE Run
  BY <1>1, <1>11, <1>12 DEF Run, RunBegins, RunReadsRules, RunReadsItem, RunGoesOn, RunEnds, stash, history
<1>13. CASE Ruling \/ Listing \/ ListWritten \/ NewFolder
  BY <1>1, <1>13 DEF Ruling, NewRule, DeleteRule, Listing, DeleteList, NewList, ListChange, ListWritten, NewFolder, Edit, stash, history
<1>14. CASE Restart
  BY <1>1, <1>14 DEF Restart, stash
<1>15. UNCHANGED organizeVars => UNCHANGED <<item, twice, saves>>
  BY DEF organizeVars
<1> QED BY <1>1, <1>2, <1>3, <1>4, <1>5, <1>6, <1>7, <1>8, <1>9, <1>10, <1>12, <1>13, <1>14, <1>15, StepsOfOrganize
        DEF Creating, Changing, Filing, Tagging, Looking

-----------------------------------------------------------------------------
(* The rules over everything                                               *)

\* What others do meanwhile is noted.
LEMMA OthersNoted ==
    ASSUME OrganizeInv, Noted, UNCHANGED run
    PROVE  RunPart'
<1>0. RunPart /\ run.at \in {"no", "batch", "item", "write"} /\ run.batch \subseteq Ids
  BY OrganizeInParts DEF RunPart, RunType
<1>1. /\ touched' = IF run.at = "no" THEN touched ELSE touched \cup {i \in Ids : item'[i] # item[i]}
      /\ crossed' = (crossed \/ (run.at = "write" /\ NextItem \in {i \in Ids : item'[i] # item[i]}))
      /\ reruled' = IF run.at = "no" THEN reruled ELSE reruled \/ rules' # rules
      /\ begun' = begun
  BY DEF Noted
<1>2. run.at # "no" => \A i \in Ids \ touched' : item'[i] = item[i] /\ i \notin touched
  BY <1>1
<1>3. crossed' \in BOOLEAN /\ reruled' \in BOOLEAN /\ touched' \subseteq Ids /\ begun' \subseteq Ids
  BY <1>0, <1>1 DEF RunPart
<1>4. RunType'
  BY <1>0 DEF RunPart, RunType
<1>5. ReadForWrite'
  <2> SUFFICES ASSUME run.at = "write"
               PROVE  /\ run.batch # {} /\ run.read # None
                      /\ crossed' => NextItem \in touched'
                      /\ crossed' \/ item'[NextItem] = run.read
    BY DEF ReadForWrite, NextItem
  <2>1. run.batch # {} /\ run.read # None /\ (crossed => NextItem \in touched) /\ (crossed \/ item[NextItem] = run.read)
    BY <1>0 DEF RunPart, ReadForWrite
  <2>2. touched' = touched \cup {i \in Ids : item'[i] # item[i]}
    BY <1>1
  <2>3. NextItem \in Ids
    <3>1. run.batch \in SUBSET Nat
      BY <1>0 DEF Ids
    <3> QED BY <1>0, <2>1, <3>1, MinOfNumbers DEF NextItem
  <2>4. crossed' <=> crossed \/ item'[NextItem] # item[NextItem]
    BY <1>1, <2>3
  <2> QED BY <2>1, <2>2, <2>3, <2>4
<1>6. RunCovers'
  <2>1. run.at \in {"no", "batch"} => run.batch = {}
    BY <1>0 DEF RunPart, RunCovers
  <2>2. ASSUME run.at # "no", ~reruled'
        PROVE  /\ run.at # "batch" => run.rules = rules'
               /\ \A i \in begun' \ touched' : i \in Present' /\ (i \in run.todo \cup run.batch \/ Done(i)')
    <3>1. ~reruled /\ rules' = rules
      BY <1>1, <2>2
    <3>2. /\ run.at # "batch" => run.rules = rules
          /\ \A i \in begun \ touched : i \in Present /\ (i \in run.todo \cup run.batch \/ Done(i))
      BY <1>0, <2>2, <3>1 DEF RunPart, RunCovers
    <3>3. ASSUME NEW i \in begun' \ touched'
          PROVE  i \in Present' /\ (i \in run.todo \cup run.batch \/ Done(i)')
      <4>1. i \in Ids /\ i \in begun /\ i \notin touched /\ item'[i] = item[i]
        BY <1>1, <1>2, <1>3, <2>2
      <4> QED BY <3>1, <3>2, <4>1 DEF Present, Done
    <3> QED BY <3>1, <3>2, <3>3
  <2> QED BY <2>1, <2>2 DEF RunCovers
<1> QED BY <1>3, <1>4, <1>5, <1>6 DEF RunPart

\* A run reads rules and items, writes what the rules make of them, and goes on.
LEMMA RunGoes ==
    ASSUME OrganizeInv, Run
    PROVE  RunPart'
<1>0. /\ RunPart /\ ItemsPart /\ RulesPart /\ RunType /\ item \in [Ids -> Items \cup {None}] /\ rules \in RuleSets
      /\ run.at \in {"no", "batch", "item", "write"} /\ run.batch \subseteq Ids /\ run.todo \subseteq Ids
      /\ run.rules \in RuleSets
      /\ \A i \in Present : i \in Ids /\ item[i] \in Items
  BY OrganizeInParts DEF RunPart, RunType, ItemsPart, RulesPart, Present, RuleSets
<1>1. run.batch # {} => NextItem \in run.batch /\ NextItem \in Ids
  <2>1. run.batch \in SUBSET Nat
    BY <1>0 DEF Ids
  <2> QED BY <1>0, <2>1, MinOfNumbers DEF NextItem
<1>2. run.at # "no" /\ ~reruled =>
        /\ run.at # "batch" => run.rules = rules
        /\ \A i \in begun \ touched : i \in Present /\ (i \in run.todo \cup run.batch \/ Done(i))
  BY <1>0 DEF RunPart, RunCovers
<1>3. run.at \in {"no", "batch"} => run.batch = {}
  BY <1>0 DEF RunPart, RunCovers
<1>4. Idle \in [at : {"no", "batch", "item", "write"}, todo : SUBSET Ids, batch : SUBSET Ids,
                rules : [1..MaxRule -> Rules \cup {None}], read : Items \cup {None}]
  BY DEF Idle
<1>5. CASE RunBegins
  <2>1. /\ run' = [Idle EXCEPT !.at = "batch", !.todo = Unarchived]
        /\ begun' = Unarchived /\ touched' = {} /\ reruled' = FALSE /\ UNCHANGED <<item, rules, crossed>>
    BY <1>5 DEF RunBegins, stash
  <2>2. Unarchived \subseteq Present /\ Unarchived \subseteq Ids
    BY DEF Unarchived, Present
  <2>3. RunType'
    BY <1>4, <2>1, <2>2 DEF RunType
  <2>4. run'.at = "batch" /\ run'.todo = Unarchived /\ run'.batch = {}
    BY <2>1 DEF Idle
  <2>5. Present' = Present
    BY <2>1 DEF Present
  <2> QED BY <1>0, <2>1, <2>2, <2>3, <2>4, <2>5 DEF RunPart, ReadForWrite, RunCovers
<1>6. CASE RunReadsRules
  <2>1. /\ run' = [run EXCEPT !.at = "item", !.rules = rules, !.batch = BatchOf(run.todo), !.todo = Later(run.todo)]
        /\ run.at = "batch" /\ UNCHANGED <<item, rules, touched, begun, reruled, crossed>>
    BY <1>6 DEF RunReadsRules, stash, history
  <2>2. BatchOf(run.todo) \cup Later(run.todo) = run.todo
    BY DEF BatchOf, Later
  <2>3. /\ run'.at = "item" /\ run'.rules = rules /\ run'.batch = BatchOf(run.todo) /\ run'.todo = Later(run.todo)
        /\ RunType'
    BY <1>0, <2>1, <2>2 DEF RunType, RuleSets
  <2>4. Present' = Present /\ \A i : Done(i)' <=> Done(i)
    BY <2>1 DEF Present, Done
  <2> QED BY <1>0, <1>2, <1>3, <2>1, <2>2, <2>3, <2>4 DEF RunPart, ReadForWrite, RunCovers
<1>7. CASE RunReadsItem
  <2> PICK x : x = item[NextItem]
    OBVIOUS
  <2>1. /\ run' = IF x = None \/ Applied(run.rules, x) = x THEN [run EXCEPT !.batch = @ \ {NextItem}]
                  ELSE [run EXCEPT !.at = "write", !.read = x]
        /\ run.at = "item" /\ run.batch # {} /\ crossed' = FALSE
        /\ UNCHANGED <<item, rules, touched, begun, reruled>>
    BY <1>7 DEF RunReadsItem, stash
  <2>2. Present' = Present /\ \A i : Done(i)' <=> Done(i)
    BY <2>1 DEF Present, Done
  <2>3. CASE x = None \/ Applied(run.rules, x) = x
    <3>1. run' = [run EXCEPT !.batch = @ \ {NextItem}]
      BY <2>1, <2>3
    <3>2. /\ run'.at = "item" /\ run'.rules = run.rules /\ run'.batch = run.batch \ {NextItem} /\ run'.todo = run.todo
          /\ RunType'
      BY <1>0, <2>1, <3>1 DEF RunType
    <3>3. ASSUME ~reruled, NEW i \in begun \ touched
          PROVE  i \in Present /\ (i \in run'.todo \cup run'.batch \/ Done(i))
      <4>1. i \in Present /\ (i \in run.todo \cup run.batch \/ Done(i)) /\ run.rules = rules
        BY <1>2, <2>1, <3>3
      <4>2. i = NextItem => Done(i)
        BY <2>3, <4>1 DEF Done, Present
      <4> QED BY <3>2, <4>1, <4>2
    <3>4. RunCovers'
      BY <1>2, <2>1, <2>2, <3>2, <3>3 DEF RunCovers
    <3>5. ReadForWrite'
      BY <3>2 DEF ReadForWrite
    <3> QED BY <1>0, <2>1, <3>2, <3>4, <3>5 DEF RunPart
  <2>4. CASE ~(x = None \/ Applied(run.rules, x) = x)
    <3>1. run' = [run EXCEPT !.at = "write", !.read = x] /\ x \in Items
      BY <1>0, <1>1, <2>1, <2>4
    <3>2. /\ run'.at = "write" /\ run'.rules = run.rules /\ run'.batch = run.batch /\ run'.todo = run.todo /\ run'.read = x
          /\ RunType'
      BY <1>0, <2>1, <3>1 DEF RunType
    <3>3. ReadForWrite'
      BY <2>1, <2>4, <3>2 DEF ReadForWrite, NextItem
    <3>4. RunCovers'
      BY <1>2, <2>1, <2>2, <3>2 DEF RunCovers
    <3> QED BY <1>0, <2>1, <3>2, <3>3, <3>4 DEF RunPart
  <2> QED BY <2>3, <2>4
<1>8. CASE RunWrites
  <2> PICK now : now = Applied(run.rules, run.read)
    OBVIOUS
  <2> PICK cur : cur = NextItem
    OBVIOUS
  <2>1. run.at = "write" /\ UNCHANGED <<rules, touched, begun, reruled, crossed>>
    BY <1>8 DEF RunWrites, history
  <2>2. /\ run.batch # {} /\ run.read # None /\ (crossed => cur \in touched) /\ (crossed \/ item[cur] = run.read)
        /\ cur \in run.batch /\ cur \in Ids
    BY <1>0, <1>1, <2>1 DEF RunPart, ReadForWrite
  <2>3. Present' = Present
    BY <1>0, <1>8, RunWritten
  \* A rule that is there names a folder that is there
  <2>4. ~reruled => \A y \in Items : FolderIsThere(y, Applied(rules, y))
    <3> SUFFICES ASSUME NEW y \in Items PROVE FolderIsThere(y, Applied(rules, y))
      OBVIOUS
    <3>1. \A k \in 1..MaxRule : rules[k] # None => rules[k].folder \in folders \cup {None}
      BY <1>0 DEF RulesPart, RulesFile, RuleIds
    <3>2. Applied(rules, y).folder = y.folder \/ Applied(rules, y).folder \in folders \cup {None}
      BY <1>0, <3>1, RulesApplied
    <3> QED BY <3>2 DEF FolderIsThere
  <2>5. CASE item[cur] # None /\ FolderIsThere(run.read, now)
    <3>1. /\ item' = [k \in Ids |-> IF k = cur THEN Updated(item[cur], run.read, now)
                                    ELSE IF k \in run.batch \ {cur} THEN Sorted(k) ELSE item[k]]
          /\ run' = [run EXCEPT !.at = "item", !.batch = {}, !.read = None]
      BY <1>8, <2>5 DEF RunWrites
    <3>2. /\ run'.at = "item" /\ run'.rules = run.rules /\ run'.batch = {} /\ run'.todo = run.todo /\ RunType'
      BY <1>0, <3>1 DEF RunType
    <3>3. ASSUME ~reruled, NEW i \in begun \ touched
          PROVE  i \in Present /\ (i \in run.todo \/ Done(i)')
      <4>1. i \in Present /\ i \in Ids /\ item[i] \in Items /\ (i \in run.todo \cup run.batch \/ Done(i)) /\ run.rules = rules
        BY <1>0, <1>2, <2>1, <3>3
      <4>2. ASSUME i = cur
            PROVE  Done(i)'
        <5>1. item[cur] = run.read
          BY <2>2, <3>3, <4>2
        <5>2. item'[cur] = Applied(rules, item[cur])
          <6>1. item'[cur] = Updated(item[cur], run.read, now) /\ now = Applied(rules, item[cur])
            BY <2>2, <3>1, <4>1, <5>1
          <6> QED BY <4>1, <4>2, <5>1, <6>1, <1>0, ItemUpdated
        <5> QED BY <1>0, <2>1, <4>1, <4>2, <5>2, RulesSettle DEF Done
      <4>3. ASSUME i # cur, i \in run.batch
            PROVE  Done(i)'
        <5>1. item'[i] = Sorted(i)
          BY <3>1, <4>1, <4>3
        <5>2. Sorted(i) = Applied(rules, item[i])
          BY <2>4, <3>3, <4>1, NothingIsNone DEF Sorted
        <5> QED BY <1>0, <2>1, <4>1, <5>1, <5>2, RulesSettle DEF Done
      <4>4. ASSUME i # cur, i \notin run.batch
            PROVE  item'[i] = item[i]
        BY <3>1, <4>1, <4>4
      <4>5. i # cur /\ i \notin run.batch /\ Done(i) => Done(i)'
        BY <2>1, <4>4 DEF Done
      <4> QED BY <4>1, <4>2, <4>3, <4>5
    <3>4. RunCovers'
      BY <1>2, <2>1, <2>3, <3>2, <3>3 DEF RunCovers
    <3>5. ReadForWrite'
      BY <3>2 DEF ReadForWrite
    <3> QED BY <1>0, <2>1, <3>2, <3>4, <3>5 DEF RunPart
  <2>6. CASE ~(item[cur] # None /\ FolderIsThere(run.read, now))
    <3>1. item' = item /\ run' = [run EXCEPT !.at = "item", !.batch = run.batch \ {cur}, !.read = None]
      BY <1>8, <2>6 DEF RunWrites
    <3>2. /\ run'.at = "item" /\ run'.rules = run.rules /\ run'.batch = run.batch \ {cur} /\ run'.todo = run.todo
          /\ RunType'
      BY <1>0, <3>1 DEF RunType
    <3>3. ASSUME ~reruled, NEW i \in begun \ touched
          PROVE  i \in Present /\ (i \in run'.todo \cup run'.batch \/ Done(i)')
      <4>1. i \in Present /\ i \in Ids /\ item[i] \in Items /\ (i \in run.todo \cup run.batch \/ Done(i)) /\ run.rules = rules
        BY <1>0, <1>2, <2>1, <3>3
      <4>2. i # cur
        <5> SUFFICES ASSUME i = cur PROVE FALSE
          OBVIOUS
        <5>1. item[cur] = run.read /\ item[cur] \in Items /\ item[cur] # None
          BY <2>2, <3>3, <4>1, NothingIsNone
        <5>2. FolderIsThere(run.read, now)
          BY <2>4, <3>3, <4>1, <5>1
        <5> QED BY <2>6, <5>1, <5>2
      <4>3. Done(i)' <=> Done(i)
        BY <2>1, <3>1 DEF Done
      <4> QED BY <3>2, <4>1, <4>2, <4>3
    <3>4. RunCovers'
      BY <1>2, <2>1, <2>3, <3>2, <3>3 DEF RunCovers
    <3>5. ReadForWrite'
      BY <3>2 DEF ReadForWrite
    <3> QED BY <1>0, <2>1, <3>2, <3>4, <3>5 DEF RunPart
  <2> QED BY <2>5, <2>6
<1>9. CASE RunGoesOn
  <2>1. /\ run' = [run EXCEPT !.at = "batch"] /\ run.at = "item" /\ run.batch = {}
        /\ UNCHANGED <<item, rules, touched, begun, reruled, crossed>>
    BY <1>9 DEF RunGoesOn, stash, history
  <2>2. run'.at = "batch" /\ run'.batch = {} /\ run'.todo = run.todo /\ RunType'
    BY <1>0, <2>1 DEF RunType
  <2>3. Present' = Present /\ \A i : Done(i)' <=> Done(i)
    BY <2>1 DEF Present, Done
  <2> QED BY <1>0, <1>2, <2>1, <2>2, <2>3 DEF RunPart, ReadForWrite, RunCovers
<1>10. CASE RunEnds
  <2>1. run' = Idle /\ begun' = {} /\ touched' = {} /\ reruled' = FALSE /\ crossed' = crossed
    BY <1>10 DEF RunEnds
  <2>2. run'.at = "no" /\ run'.batch = {} /\ RunType'
    BY <1>4, <2>1 DEF Idle, RunType
  <2> QED BY <1>0, <2>1, <2>2 DEF RunPart, ReadForWrite, RunCovers
<1> QED BY <1>5, <1>6, <1>7, <1>8, <1>9, <1>10 DEF Run

\* What a run has done and has to do is known whatever happens in between.
LEMMA RunStep ==
    ASSUME OrganizeInv, [OrganizeNext]_organizeVars
    PROVE  RunPart'
<1>0. RunPart
  BY OrganizeInParts
<1>1. CASE UNCHANGED <<item, rules, run, crossed, touched, begun, reruled>>
  BY <1>0, <1>1 DEF RunPart, RunType, ReadForWrite, RunCovers, NextItem, Present, Done
<1>2. CASE Noted /\ UNCHANGED run
  BY <1>2, OthersNoted
<1>3. CASE Creating
  BY <1>2, <1>3 DEF Creating, AutoStash, Capture, SaveCreates, Edit
<1>4. CASE Changing \/ Filing
  BY <1>2, <1>4 DEF Changing, Delete, Update, Filing, NewFolder, DeleteFolder, Edit
<1>5. CASE Ruling \/ Tagging \/ Listing
  BY <1>2, <1>5 DEF Ruling, NewRule, DeleteRule, Tagging, DeleteTag, RenameTag, Listing, DeleteList, NewList, ListChange, Edit
<1>6. CASE Looking \/ ListWritten
  BY <1>1, <1>6 DEF Looking, SaveLooks, ListWritten, stash, history
<1>7. CASE Restart
  <2>1. run' = Idle /\ begun' = {} /\ touched' = {} /\ reruled' = FALSE /\ UNCHANGED crossed
    BY <1>7 DEF Restart
  <2>2. RunType' /\ run'.at = "no" /\ run'.batch = {}
    BY <2>1 DEF Idle, RunType
  <2> QED BY <1>0, <2>1, <2>2 DEF RunPart, ReadForWrite, RunCovers
<1>8. UNCHANGED organizeVars => UNCHANGED <<item, rules, run, crossed, touched, begun, reruled>>
  BY DEF organizeVars
<1> QED BY <1>1, <1>3, <1>4, <1>5, <1>6, <1>7, <1>8, RunGoes, StepsOfOrganize

\* The bounds.
LEMMA CountsStep ==
    ASSUME OrganizeInv, [OrganizeNext]_organizeVars
    PROVE  CountsPart'
<1>0. CountsPart /\ MaxEdits \in Nat /\ MaxRuns \in Nat
  BY OrganizeInParts, OrganizeParameters
<1>1. CASE UNCHANGED bounds
  BY <1>0, <1>1 DEF CountsPart, bounds
<1>2. CASE kind' = kind /\ runs' = runs /\ edits < MaxEdits /\ edits' = edits + 1
  BY <1>0, <1>2 DEF CountsPart
<1>3. CASE RunBegins
  <2>1. kind' = kind /\ edits' = edits /\ runs < MaxRuns /\ runs' = runs + 1
    BY <1>3 DEF RunBegins
  <2> QED BY <1>0, <2>1 DEF CountsPart
<1>4. CASE Run
  BY <1>1, <1>3, <1>4 DEF Run, RunReadsRules, RunReadsItem, RunWrites, RunGoesOn, RunEnds
<1>5. CASE Creating
  BY <1>1, <1>2, <1>5 DEF Creating, AutoStash, Capture, SaveCreates, Edit, Noted, bounds
<1>6. CASE Changing \/ Filing
  BY <1>2, <1>6 DEF Changing, Delete, Update, Filing, NewFolder, DeleteFolder, Edit, Noted
<1>7. CASE Ruling \/ Tagging \/ Listing
  BY <1>2, <1>7 DEF Ruling, NewRule, DeleteRule, Tagging, DeleteTag, RenameTag, Listing, DeleteList, NewList, ListChange, Edit, Noted
<1>8. CASE Looking \/ ListWritten
  BY <1>1, <1>8 DEF Looking, SaveLooks, ListWritten
<1>9. CASE Restart
  BY <1>2, <1>9 DEF Restart
<1>10. UNCHANGED organizeVars => UNCHANGED bounds
  BY DEF organizeVars, bounds
<1> QED BY <1>1, <1>4, <1>5, <1>6, <1>7, <1>8, <1>9, <1>10, StepsOfOrganize

\* A stash of items that were saved once each.
LEMMA OrganizeInitially == OrganizeInit => OrganizeInv
<1> SUFFICES ASSUME OrganizeInit PROVE OrganizeInv
  OBVIOUS
<1>1. ItemsPart
  <2>1. item \in [Ids -> {Plain(l) : l \in Links} \cup {None}] /\ folders \subseteq Folders
    BY DEF OrganizeInit
  <2>2. \A l \in Links : Plain(l) \in Items /\ Plain(l).folder = None
    BY DEF Plain, Items
  <2> QED BY <2>1, <2>2 DEF ItemsPart, Present
<1>2. RulesPart
  <2>1. PICK r \in RuleInputs : /\ DoesSomething(r) /\ r.folder \in folders \cup {None}
                                /\ rules = [k \in 1..MaxRule |-> IF k = 1 THEN r ELSE None]
    BY DEF OrganizeInit
  <2>2. r \in Rules
    BY Inputs
  <2>3. \A k \in RuleIds : rules[k] = r
    BY <2>1 DEF RuleIds
  <2>4. hollowed = {}
    BY DEF OrganizeInit
  <2> QED BY <2>1, <2>2, <2>3, <2>4 DEF RulesPart, RulesFile, RuleSets
<1>3. ListsPart
  BY Inputs DEF OrganizeInit, ListsPart, ChangeLooks
<1>4. SavesPart
  <2>1. \A i \in Present : i \in Ids /\ item[i] # None /\ \E l \in Links : item[i] = Plain(l)
    BY DEF OrganizeInit, Present
  <2>2. \A i, j \in Present : i # j => item[i].link # item[j].link
    <3> SUFFICES ASSUME NEW i \in Present, NEW j \in Present, i # j, item[i].link = item[j].link PROVE FALSE
      OBVIOUS
    <3>1. PICK l \in Links : item[i] = Plain(l)
      BY <2>1
    <3>2. PICK k \in Links : item[j] = Plain(k)
      BY <2>1
    <3>3. l = k
      BY <3>1, <3>2 DEF Plain
    <3>4. item[i] # item[j]
      BY <2>1 DEF OrganizeInit
    <3> QED BY <3>1, <3>2, <3>3, <3>4
  <2>3. saves = {} /\ twice = {}
    BY DEF OrganizeInit
  <2> QED BY <2>2, <2>3 DEF SavesPart, SavesAreKnown, SavedOnce
<1>5. RunPart
  <2>1. run = Idle /\ crossed = FALSE /\ touched = {} /\ begun = {} /\ reruled = FALSE
    BY DEF OrganizeInit
  <2>2. RunType /\ run.at = "no" /\ run.batch = {}
    BY <2>1 DEF Idle, RunType
  <2> QED BY <2>1, <2>2 DEF RunPart, ReadForWrite, RunCovers
<1>6. CountsPart
  BY OrganizeParameters DEF OrganizeInit, CountsPart
<1> QED BY <1>1, <1>2, <1>3, <1>4, <1>5, <1>6, OrganizeInParts

\* The invariant of a stash that is kept in order.
LEMMA OrganizeStep == OrganizeInv /\ [OrganizeNext]_organizeVars => OrganizeInv'
<1> SUFFICES ASSUME OrganizeInv, [OrganizeNext]_organizeVars PROVE OrganizeInv'
  OBVIOUS
<1>1. ItemsPart' /\ RulesPart' /\ ListsPart' /\ SavesPart' /\ RunPart' /\ CountsPart'
  BY ItemsStep, RulesStep, ListsStep, SavesStep, RunStep, CountsStep
<1>2. (ItemsPart /\ RulesPart /\ ListsPart /\ SavesPart /\ RunPart /\ CountsPart => OrganizeInv)'
  BY OrganizeInParts, PTL
<1> QED BY <1>1, <1>2

\* The inductive invariant: what the rules began with is done or to do, what is being saved
\* isn't there yet, and every rule and smart list has something, each but for what is
\* known to have crossed it.
THEOREM OrganizeInvariance == OrganizeSpec => []OrganizeInv
BY OrganizeInitially, OrganizeStep, PTL DEF OrganizeSpec

\* The types of the stash; in particular no item is in a folder that is gone.
THEOREM OrganizeTypeCorrect == OrganizeSpec => []OrganizeTypeOK
<1>1. OrganizeInv => OrganizeTypeOK
  BY DEF OrganizeInv
<1> QED BY <1>1, OrganizeInvariance, PTL

\* An article is saved once (find_link before create in to_stash.py), by hand or from
\* its feed, but for the exceptions that SavedOnce names.
THEOREM ArticlesAreSavedOnce == OrganizeSpec => []SavedOnce
<1>1. OrganizeInv => SavedOnce
  BY DEF OrganizeInv
<1> QED BY <1>1, OrganizeInvariance, PTL

\* Deleting and renaming tags and folders (delete_tags, rename_tag of items.py) leaves no rule
\* doing nothing and no smart list showing everything, also while one is edited.
THEOREM NothingIsLeftHollow == OrganizeSpec => []NothingIsHollow
<1>1. OrganizeInv => NothingIsHollow
  BY DEF OrganizeInv
<1> QED BY <1>1, OrganizeInvariance, PTL

\* A batch of apply_to_items takes no tag, no folder and nothing out of the archive, but from
\* an item that changes between being read and the batch's first write.
THEOREM RulesTakeNothing == OrganizeSpec => RulesOnlyAdd
<1>1. ASSUME OrganizeInv, RunWrites, NEW i \in Present
      PROVE  \/ crossed /\ i = NextItem
             \/ /\ item[i].tags \subseteq item'[i].tags
                /\ item[i].folder \in {None, item'[i].folder}
                /\ item[i].archived => item'[i].archived
  <2>0. /\ item \in [Ids -> Items \cup {None}] /\ run.rules \in RuleSets /\ run.read \in Items \cup {None}
        /\ i \in Ids /\ item[i] \in Items /\ item[i] # None
    BY <1>1 DEF OrganizeInv, OrganizeTypeOK, RunType, RuleSets, Present
  <2>1. /\ run.at = "write" /\ (crossed \/ item[NextItem] = run.read)
        /\ item[i].archived => item'[i].archived
    <3>1. ItemsPart /\ RunPart
      BY <1>1, OrganizeInParts
    <3> QED BY <1>1, <3>1, RunWritten DEF RunWrites, RunPart, ReadForWrite
  <2>2. \/ item'[i] = item[i]
        \/ i # NextItem /\ item'[i] = Sorted(i)
        \/ i = NextItem /\ item'[i] = Updated(item[i], run.read, Applied(run.rules, run.read))
    BY <1>1, <2>0 DEF RunWrites
  <2>3. CASE item'[i] = item[i]
    BY <2>3
  <2>4. CASE item'[i] = Sorted(i)
    <3>1. item'[i] = item[i] \/ item'[i] = Applied(run.rules, item[i])
      BY <2>0, <2>4 DEF Sorted
    <3> QED BY <2>0, <2>1, <3>1, RulesAdd
  <2>5. CASE i = NextItem /\ ~crossed /\ item'[i] = Updated(item[i], run.read, Applied(run.rules, run.read))
    <3>1. item[i] = run.read
      BY <2>1, <2>5
    <3>2. item'[i] = Applied(run.rules, item[i])
      <4> PICK x \in Items : x = item[i]
        BY <2>0
      <4>1. Updated(x, x, Applied(run.rules, x)) = Applied(run.rules, x)
        BY <2>0, ItemUpdated
      <4> QED BY <2>5, <3>1, <4>1
    <3> QED BY <2>0, <2>1, <3>2, RulesAdd
  <2> QED BY <2>2, <2>3, <2>4, <2>5
<1>2. OrganizeInv =>
        [RunWrites => \A i \in Present :
            \/ crossed /\ i = NextItem
            \/ /\ item[i].tags \subseteq item'[i].tags
               /\ item[i].folder \in {None, item'[i].folder}
               /\ item[i].archived => item'[i].archived]_organizeVars
  BY <1>1
<1> QED BY <1>2, OrganizeInvariance, PTL DEF RulesOnlyAdd

\* When apply_rules_to_everything ends, the rules have nothing left to do on the items it
\* began with and nobody else changed, however the batches were interrupted.
THEOREM RunsReachEverything == OrganizeSpec => RunReachesAll
<1>1. ASSUME OrganizeInv, RunEnds, ~reruled, NEW i \in begun \ touched
      PROVE  i \in Present /\ Applied(rules, item[i]) = item[i]
  <2>1. run.at = "batch" /\ run.todo = {}
    BY <1>1 DEF RunEnds
  <2>2. run.batch = {} /\ i \in Present /\ (i \in run.todo \cup run.batch \/ Done(i))
    BY <1>1, <2>1 DEF OrganizeInv, RunCovers
  <2> QED BY <2>1, <2>2 DEF Done
<1>2. OrganizeInv =>
        [RunEnds => reruled \/ \A i \in begun \ touched : i \in Present /\ Applied(rules, item[i]) = item[i]]_organizeVars
  BY <1>1
<1> QED BY <1>2, OrganizeInvariance, PTL DEF RunReachesAll
=============================================================================
