-------------------------- MODULE KeyedLockProofs --------------------------
(* Exclusion by key, and that no lock is left behind, for every set of tasks and keys. *)
EXTENDS KeyedLock, TLAPS

\* The map and the counters tell the same story: a task is counted by the object filed
\* under the key it asked for and by no other, and holders and waiters are counted,
\* each of them in one place.
LocksTyped == /\ locks \in [Keys -> Objects \cup {Nobody}]
              /\ users \in [Objects -> SUBSET Tasks]
              /\ holder \in [Objects -> Tasks \cup {Nobody}]
              /\ queue \in [Objects -> Seq(Tasks)]
              /\ asked \in [Tasks -> Keys \cup {Nobody}]
Filed == \A o \in Objects : \A t \in users[o] : asked[t] # Nobody /\ locks[asked[t]] = o
Counted == \A o \in Objects :
             /\ holder[o] # Nobody => holder[o] \in users[o]
             /\ \A i \in 1..Len(queue[o]) : queue[o][i] \in users[o]
InTurn == \A o \in Objects : \A i, j \in 1..Len(queue[o]) :
            /\ queue[o][i] # holder[o]
            /\ queue[o][i] = queue[o][j] => i = j
InUse == \A k \in Keys : locks[k] # Nobody =>
           /\ users[locks[k]] # {}
           /\ \A t \in users[locks[k]] : asked[t] = k
LInv == LocksTyped /\ Filed /\ Counted /\ InTurn /\ InUse

USE DEF KeyedLockAssumption

\* Whoever asked for a key is the only one inside for that key, and a lock that exists
\* has somebody who asked for it (KeyedLock.hold).
LEMMA InvariantImplies == LInv => MutualExclusion /\ NoLockLeft
<1> SUFFICES ASSUME LInv PROVE MutualExclusion /\ NoLockLeft
  OBVIOUS
<1>1. MutualExclusion
  <2> SUFFICES ASSUME NEW t \in Tasks, NEW u \in Tasks, NEW o \in Objects, NEW p \in Objects,
                      holder[o] = t, holder[p] = u, asked[t] = asked[u]
               PROVE  t = u
    BY DEF MutualExclusion, Holds
  <2>1. t # Nobody /\ u # Nobody
    BY KeyedLockAssumption
  <2>2. t \in users[o] /\ u \in users[p]
    BY <2>1 DEF LInv, Counted
  <2>3. locks[asked[t]] = o /\ locks[asked[u]] = p
    BY <2>2 DEF LInv, Filed
  <2> QED  BY <2>3
<1>2. NoLockLeft
  BY DEF LInv, LocksTyped, InUse, NoLockLeft
<1> QED  BY <1>1, <1>2

\* A map without locks is consistent (KeyedLock.__init__).
LEMMA Initially == LocksInit => LInv
  BY KeyedLockAssumption DEF LocksInit, LInv, LocksTyped, Filed, Counted, InTurn, InUse

\* The finally of hold, left by a task its object counts: nobody who stays loses the lock.
LEMMA CountedDownKeeps ==
  ASSUME LInv, NEW t \in Tasks, NEW o \in Objects, t \in users[o], CountedDown(t, o)
  PROVE  /\ locks' \in [Keys -> Objects \cup {Nobody}]
         /\ users' \in [Objects -> SUBSET Tasks]
         /\ asked' \in [Tasks -> Keys \cup {Nobody}]
         /\ Filed' /\ InUse'
<1> USE DEF LInv, LocksTyped, CountedDown, Forgotten
<1>1. /\ locks' \in [Keys -> Objects \cup {Nobody}]
      /\ users' \in [Objects -> SUBSET Tasks]
      /\ asked' \in [Tasks -> Keys \cup {Nobody}]
  OBVIOUS
<1>2. \A p \in Objects : t \in users[p] => p = o
  BY DEF Filed
<1>3. Filed'
  <2> SUFFICES ASSUME NEW p \in Objects, NEW u \in users'[p]
               PROVE  asked'[u] # Nobody /\ locks'[asked'[u]] = p
    BY DEF Filed
  <2>1. u \in users[p] /\ u # t /\ u \in Tasks
    BY <1>2
  <2>2. asked[u] # Nobody /\ locks[asked[u]] = p /\ asked'[u] = asked[u]
    BY <2>1 DEF Filed
  <2>3. p = o => users[o] \ {t} # {}
    BY <2>1
  <2> QED  BY <2>2, <2>3
<1>4. InUse'
  <2> SUFFICES ASSUME NEW k \in Keys, locks'[k] # Nobody
               PROVE  /\ users'[locks'[k]] # {}
                      /\ \A u \in users'[locks'[k]] : asked'[u] = k
    BY DEF InUse
  <2>1. locks'[k] = locks[k] /\ locks[k] \in Objects
    OBVIOUS
  <2>2. users[locks[k]] # {} /\ \A u \in users[locks[k]] : asked[u] = k
    BY <2>1, KeyedLockAssumption DEF InUse
  <2>3. CASE locks[k] = o
    BY <2>1, <2>2, <2>3
  <2>4. CASE locks[k] # o
    BY <1>2, <2>1, <2>2, <2>4
  <2> QED  BY <2>3, <2>4
<1> QED  BY <1>1, <1>3, <1>4

\* hold up to its await keeps the map and the counters in step.
LEMMA EnterKeeps ==
  ASSUME LInv, NEW t \in Tasks, NEW k \in Keys, Enter(t, k)
  PROVE  LInv'
<1> DEFINE o == Given(k)
<1> USE DEF LInv, LocksTyped, Outside
<1>1. o \in Objects /\ (locks[k] = Nobody => Garbage(o))
  BY DEF Enter, Given
<1>2. /\ locks' = [locks EXCEPT ![k] = o]
      /\ users' = [users EXCEPT ![o] = @ \cup {t}]
      /\ asked' = [asked EXCEPT ![t] = k]
      /\ asked[t] = Nobody
  BY DEF Enter
<1>3. \A p \in Objects : t \notin users[p]
  BY <1>2 DEF Filed
<1>4. k # Nobody
  BY KeyedLockAssumption
<1>5. \A u \in users[o] : asked[u] = k
  BY <1>1 DEF Garbage, InUse, Given
<1>6. LocksTyped'
  <2>1. CASE holder' = [holder EXCEPT ![o] = t] /\ UNCHANGED queue
    BY <1>1, <1>2, <2>1
  <2>2. CASE queue' = [queue EXCEPT ![o] = Append(@, t)] /\ UNCHANGED holder
    BY <1>1, <1>2, <2>2
  <2> QED  BY <2>1, <2>2 DEF Enter
<1>7. Filed'
  <2> SUFFICES ASSUME NEW p \in Objects, NEW u \in users'[p]
               PROVE  asked'[u] # Nobody /\ locks'[asked'[u]] = p
    BY DEF Filed
  <2>1. CASE u = t
    BY <1>1, <1>2, <1>3, <1>4, <2>1
  <2>2. CASE u # t
    <3>1. u \in users[p] /\ asked'[u] = asked[u] /\ asked[u] # Nobody /\ locks[asked[u]] = p
      BY <1>1, <1>2, <2>2 DEF Filed
    <3>2. asked[u] = k => p = o
      BY <3>1, <1>4, KeyedLockAssumption DEF Given
    <3> QED  BY <1>1, <1>2, <3>1, <3>2
  <2> QED  BY <2>1, <2>2
<1>8. Counted'
  <2> SUFFICES ASSUME NEW p \in Objects
               PROVE  /\ holder'[p] # Nobody => holder'[p] \in users'[p]
                      /\ \A i \in 1..Len(queue'[p]) : queue'[p][i] \in users'[p]
    BY DEF Counted
  <2>0. users[p] \subseteq users'[p] /\ t \in users'[o]
    BY <1>1, <1>2
  <2>1. CASE holder' = [holder EXCEPT ![o] = t] /\ UNCHANGED queue
    BY <1>1, <2>0, <2>1 DEF Counted
  <2>2. CASE queue' = [queue EXCEPT ![o] = Append(@, t)] /\ UNCHANGED holder
    <3>1. CASE p = o
      <4>1. queue'[p] = Append(queue[p], t) /\ queue[p] \in Seq(Tasks)
        BY <1>1, <2>2, <3>1
      <4>2. \A i \in 1..Len(queue'[p]) :
              queue'[p][i] = t \/ (i \in 1..Len(queue[p]) /\ queue'[p][i] = queue[p][i])
        BY <4>1
      <4> QED  BY <2>0, <2>2, <3>1, <4>2 DEF Counted
    <3>2. CASE p # o
      BY <1>1, <2>0, <2>2, <3>2 DEF Counted
    <3> QED  BY <3>1, <3>2
  <2> QED  BY <2>1, <2>2 DEF Enter
<1>9. InUse'
  <2> SUFFICES ASSUME NEW l \in Keys, locks'[l] # Nobody
               PROVE  /\ users'[locks'[l]] # {}
                      /\ \A u \in users'[locks'[l]] : asked'[u] = l
    BY DEF InUse
  <2>1. CASE l = k
    BY <1>1, <1>2, <1>3, <1>5, <2>1
  <2>2. CASE l # k
    <3>1. locks'[l] = locks[l] /\ locks[l] \in Objects
      BY <1>1, <1>2, <2>2
    <3>2. users[locks[l]] # {} /\ \A u \in users[locks[l]] : asked[u] = l
      BY <3>1, KeyedLockAssumption DEF InUse
    <3>3. locks[l] # o
      <4>1. CASE locks[k] = Nobody
        BY <1>1, <3>1, <4>1 DEF Garbage
      <4>2. CASE locks[k] # Nobody
        BY <1>1, <1>5, <2>2, <3>2
      <4> QED  BY <4>1, <4>2
    <3> QED  BY <1>1, <1>2, <1>3, <3>1, <3>2, <3>3
  <2> QED  BY <2>1, <2>2
<1>10. InTurn'
  <2> SUFFICES ASSUME NEW p \in Objects,
                      NEW i \in 1..Len(queue'[p]), NEW j \in 1..Len(queue'[p])
               PROVE  /\ queue'[p][i] # holder'[p]
                      /\ queue'[p][i] = queue'[p][j] => i = j
    BY DEF InTurn
  <2>0. holder[o] # t /\ \A n \in 1..Len(queue[o]) : queue[o][n] # t
    BY <1>1, <1>3, KeyedLockAssumption DEF Counted
  <2>1. CASE queue[o] = << >> /\ holder' = [holder EXCEPT ![o] = t] /\ UNCHANGED queue
    BY <1>1, <2>1 DEF InTurn
  <2>2. CASE queue' = [queue EXCEPT ![o] = Append(@, t)] /\ UNCHANGED holder
    <3>1. CASE p = o
      <4>1. queue'[p] = Append(queue[p], t) /\ queue[p] \in Seq(Tasks)
        BY <1>1, <2>2, <3>1
      <4>2. \A n \in 1..Len(queue'[p]) :
              \/ n = Len(queue[p]) + 1 /\ queue'[p][n] = t
              \/ n \in 1..Len(queue[p]) /\ queue'[p][n] = queue[p][n]
        BY <4>1
      <4> QED  BY <2>0, <2>2, <3>1, <4>2 DEF InTurn
    <3>2. CASE p # o
      BY <1>1, <2>2, <3>2 DEF InTurn
    <3> QED  BY <3>1, <3>2
  <2> QED  BY <2>1, <2>2 DEF Enter
<1> QED  BY <1>6, <1>7, <1>8, <1>9, <1>10

\* A waiter that wakes up was counted all along.
LEMMA GrantedKeeps ==
  ASSUME LInv, NEW t \in Tasks, Granted(t)
  PROVE  LInv'
<1> USE DEF LInv, LocksTyped
<1>1. PICK o \in Objects : /\ holder[o] = Nobody /\ queue[o] # << >> /\ Head(queue[o]) = t
                           /\ holder' = [holder EXCEPT ![o] = t]
                           /\ queue' = [queue EXCEPT ![o] = Tail(@)]
  BY DEF Granted
<1>2. UNCHANGED <<locks, users, asked>>
  BY DEF Granted
<1>3. queue[o] \in Seq(Tasks) /\ Len(queue[o]) > 0 /\ queue[o][1] = t
  BY <1>1
<1>4. Tail(queue[o]) \in Seq(Tasks)
      /\ \A i \in 1..Len(Tail(queue[o])) : /\ i + 1 \in 1..Len(queue[o])
                                           /\ Tail(queue[o])[i] = queue[o][i + 1]
  BY <1>1, <1>3
<1>5. LocksTyped'
  BY <1>1, <1>2, <1>4
<1>6. Counted'
  BY <1>1, <1>2, <1>3, <1>4 DEF Counted
<1>7. InTurn'
  BY <1>1, <1>3, <1>4 DEF InTurn
<1> QED  BY <1>2, <1>5, <1>6, <1>7 DEF Filed, InUse

\* Leaving the body: the holder waits nowhere, so whoever waits is still counted.
LEMMA LeaveKeeps ==
  ASSUME LInv, NEW t \in Tasks, Leave(t)
  PROVE  LInv'
<1> USE DEF LInv, LocksTyped
<1>1. PICK o \in Objects : /\ holder[o] = t
                           /\ holder' = [holder EXCEPT ![o] = Nobody]
                           /\ CountedDown(t, o)
  BY DEF Leave
<1>2. queue' = queue
  BY DEF Leave
<1>3. t \in users[o]
  BY <1>1, KeyedLockAssumption DEF Counted
<1>4. /\ locks' \in [Keys -> Objects \cup {Nobody}]
      /\ users' \in [Objects -> SUBSET Tasks]
      /\ asked' \in [Tasks -> Keys \cup {Nobody}]
      /\ Filed' /\ InUse'
  BY <1>1, <1>3, CountedDownKeeps
<1>5. users' = [users EXCEPT ![o] = @ \ {t}]
  BY <1>1 DEF CountedDown
<1>6. Counted'
  <2> SUFFICES ASSUME NEW p \in Objects
               PROVE  /\ holder'[p] # Nobody => holder'[p] \in users'[p]
                      /\ \A i \in 1..Len(queue'[p]) : queue'[p][i] \in users'[p]
    BY DEF Counted
  <2>1. CASE p = o
    BY <1>1, <1>2, <1>5, <2>1 DEF Counted, InTurn
  <2>2. CASE p # o
    BY <1>1, <1>2, <1>5, <2>2 DEF Counted
  <2> QED  BY <2>1, <2>2
<1>7. InTurn'
  <2>1. \A p \in Objects : \A i \in 1..Len(queue[p]) : queue[p][i] \in Tasks
    OBVIOUS
  <2> QED  BY <1>1, <1>2, <2>1, KeyedLockAssumption DEF InTurn
<1> QED  BY <1>1, <1>2, <1>4, <1>6, <1>7

\* A queue without one of its waiters.
LEMMA WithoutOne ==
  ASSUME NEW q \in Seq(Tasks), NEW i \in 1..Len(q)
  PROVE  /\ Without(q, i) \in Seq(Tasks)
         /\ Len(Without(q, i)) = Len(q) - 1
         /\ \A j \in 1..(Len(q) - 1) :
              LET n == IF j < i THEN j ELSE j + 1 IN
              n \in 1..Len(q) /\ n # i /\ Without(q, i)[j] = q[n]
  BY DEF Without

\* A cancelled waiter is counted down once, and is in the queue no more.
LEMMA CancelledKeeps ==
  ASSUME LInv, NEW t \in Tasks, Cancelled(t)
  PROVE  LInv'
<1> USE DEF LInv, LocksTyped
<1>0. PICK o \in Objects : \E i \in DOMAIN queue[o] :
        /\ queue[o][i] = t
        /\ queue' = [queue EXCEPT ![o] = Without(@, i)]
        /\ CountedDown(t, o)
  BY DEF Cancelled
<1>1. PICK i \in DOMAIN queue[o] :
        /\ queue[o][i] = t
        /\ queue' = [queue EXCEPT ![o] = Without(@, i)]
        /\ CountedDown(t, o)
  BY <1>0
<1>2. holder' = holder
  BY DEF Cancelled
<1> DEFINE q == queue[o]
<1>3. q \in Seq(Tasks) /\ i \in 1..Len(q)
  BY <1>1
<1>4. t \in users[o] /\ holder[o] # t
  BY <1>1, <1>3 DEF Counted, InTurn
<1>5. /\ locks' \in [Keys -> Objects \cup {Nobody}]
      /\ users' \in [Objects -> SUBSET Tasks]
      /\ asked' \in [Tasks -> Keys \cup {Nobody}]
      /\ Filed' /\ InUse'
  BY <1>1, <1>4, CountedDownKeeps
<1>6. users' = [users EXCEPT ![o] = @ \ {t}]
  BY <1>1 DEF CountedDown
<1>7. /\ Without(q, i) \in Seq(Tasks)
      /\ Len(Without(q, i)) = Len(q) - 1
      /\ \A j \in 1..(Len(q) - 1) :
           LET n == IF j < i THEN j ELSE j + 1 IN
           n \in 1..Len(q) /\ n # i /\ Without(q, i)[j] = q[n]
  BY <1>3, WithoutOne
<1> HIDE DEF q
<1>8. queue' = [queue EXCEPT ![o] = Without(q, i)] /\ q = queue[o]
  BY <1>1 DEF q
<1>9. Counted'
  <2> SUFFICES ASSUME NEW p \in Objects
               PROVE  /\ holder'[p] # Nobody => holder'[p] \in users'[p]
                      /\ \A j \in 1..Len(queue'[p]) : queue'[p][j] \in users'[p]
    BY DEF Counted
  <2>1. CASE p = o
    <3>1. holder'[p] # Nobody => holder'[p] \in users'[p]
      BY <1>2, <1>4, <1>6, <2>1 DEF Counted
    <3>2. ASSUME NEW j \in 1..(Len(q) - 1)
          PROVE  Without(q, i)[j] \in users[o] \ {t}
      <4>1. PICK n \in 1..Len(q) : n # i /\ Without(q, i)[j] = q[n]
        BY <1>7
      <4>2. q[n] # q[i]
        BY <1>3, <1>8, <4>1 DEF InTurn
      <4>3. q[n] \in users[o]
        BY <1>8 DEF Counted
      <4> QED  BY <1>1, <1>8, <4>1, <4>2, <4>3
    <3> QED  BY <1>6, <1>7, <1>8, <2>1, <3>1, <3>2
  <2>2. CASE p # o
    BY <1>2, <1>6, <1>8, <2>2 DEF Counted
  <2> QED  BY <2>1, <2>2
<1>10. InTurn'
  <2> SUFFICES ASSUME NEW p \in Objects,
                      NEW j \in 1..Len(queue'[p]), NEW l \in 1..Len(queue'[p])
               PROVE  /\ queue'[p][j] # holder'[p]
                      /\ queue'[p][j] = queue'[p][l] => j = l
    BY DEF InTurn
  <2>1. CASE p = o
    <3>1. j \in 1..(Len(q) - 1) /\ l \in 1..(Len(q) - 1) /\ queue'[p] = Without(q, i)
      BY <1>7, <1>8, <2>1
    <3> DEFINE at(x) == IF x < i THEN x ELSE x + 1
    <3>2. /\ at(j) \in 1..Len(q) /\ Without(q, i)[j] = q[at(j)]
          /\ at(l) \in 1..Len(q) /\ Without(q, i)[l] = q[at(l)]
      BY <1>7, <3>1
    <3>3. at(j) = at(l) => j = l
      BY <1>3, <3>1
    <3> HIDE DEF at
    <3> QED  BY <1>2, <1>8, <2>1, <3>1, <3>2, <3>3 DEF InTurn
  <2>2. CASE p # o
    BY <1>2, <1>8, <2>2 DEF InTurn
  <2> QED  BY <2>1, <2>2
<1>11. queue' \in [Objects -> Seq(Tasks)]
  BY <1>7, <1>8
<1> QED  BY <1>2, <1>5, <1>9, <1>10, <1>11

\* Every step keeps the story straight.
LEMMA StepKeeps == LInv /\ [LockNext]_lockVars => LInv'
<1> SUFFICES ASSUME LInv, [LockNext]_lockVars PROVE LInv'
  OBVIOUS
<1>1. CASE LockNext
  BY <1>1, EnterKeeps, GrantedKeeps, LeaveKeeps, CancelledKeeps DEF LockNext
<1>2. CASE UNCHANGED lockVars
  BY <1>2 DEF lockVars, LInv, LocksTyped, Filed, Counted, InTurn, InUse
<1> QED  BY <1>1, <1>2

\* However many tasks ask for however many keys, and whoever is cancelled while waiting:
\* one task at a time is inside for a key (routing/keyed_lock.py, hold).
THEOREM ExclusiveByKey == LockSpec => []MutualExclusion
<1>1. LInv => MutualExclusion
  BY InvariantImplies
<1> QED  BY <1>1, Initially, StepKeeps, PTL DEF LockSpec

\* The map holds no lock that nobody asked for (routing/keyed_lock.py, hold).
THEOREM NoLockOutlivesItsUsers == LockSpec => []NoLockLeft
<1>1. LInv => NoLockLeft
  BY InvariantImplies
<1> QED  BY <1>1, Initially, StepKeeps, PTL DEF LockSpec
=============================================================================
