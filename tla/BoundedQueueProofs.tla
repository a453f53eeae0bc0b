------------------------- MODULE BoundedQueueProofs --------------------------
(***************************************************************************)
(* Proofs about BoundedQueue, for any number of producers, consumers and   *)
(* closers, any items and any capacity.                                    *)
(***************************************************************************)
EXTENDS BoundedQueue, FiniteSetTheorems, TLAPS

USE DEF Threads

-----------------------------------------------------------------------------
\* Type correctness is preserved by every step.
LEMMA TypeInductive ==
  ASSUME TypeOK, [Next]_vars
  PROVE  TypeOK'
<1> USE ThreadsAssumption, CapacityAssumption, ItemsAssumption
<1>1. ASSUME NEW p \in Producers, Push(p)
      PROVE  TypeOK'
  <2>1. CASE PushWait(p)
    BY <2>1 DEF PushWait, TypeOK
  <2>2. CASE PushReject(p)
    BY <2>2 DEF PushReject, TypeOK
  <2>3. CASE PushInsert(p)
    BY <2>3 DEF PushInsert, TypeOK
  <2>4. CASE PushNotify(p)
    BY <2>4 DEF PushNotify, NotifyOne, Asleep, TypeOK
  <2> QED  BY <1>1, <2>1, <2>2, <2>3, <2>4 DEF Push
<1>2. ASSUME NEW p \in Producers, NEW v \in Items, PushCall(p, v)
      PROVE  TypeOK'
  BY <1>2 DEF PushCall, TypeOK
<1>3. ASSUME NEW c \in Consumers, Pop(c)
      PROVE  TypeOK'
  <2>1. CASE PopWait(c)
    BY <2>1 DEF PopWait, TypeOK
  <2>2. CASE PopEmpty(c)
    BY <2>2 DEF PopEmpty, TypeOK
  <2>3. CASE PopTake(c)
    BY <2>3 DEF PopTake, TypeOK
  <2>4. CASE PopNotify(c)
    BY <2>4 DEF PopNotify, NotifyOne, Asleep, TypeOK
  <2> QED  BY <1>3, <2>1, <2>2, <2>3, <2>4 DEF Pop
<1>4. ASSUME NEW c \in Consumers, PopCall(c) \/ Discard(c)
      PROVE  TypeOK'
  BY <1>4 DEF PopCall, Discard, TypeOK
<1>5. ASSUME NEW k \in Closers, CloseSet(k) \/ CloseNotify(k)
      PROVE  TypeOK'
  <2>1. CASE CloseSet(k)
    BY <2>1 DEF CloseSet, TypeOK
  <2>2. CASE CloseNotifyEmpty(k)
    BY <2>2 DEF CloseNotifyEmpty, NotifyAll, Asleep, TypeOK
  <2>3. CASE CloseNotifyFull(k)
    BY <2>3 DEF CloseNotifyFull, NotifyAll, Asleep, TypeOK
  <2> QED  BY <1>5, <2>1, <2>2, <2>3 DEF CloseNotify
<1>6. ASSUME NEW t \in Producers \cup Consumers, SpuriousWakeup(t)
      PROVE  TypeOK'
  BY <1>6 DEF SpuriousWakeup, TypeOK
<1>7. CASE UNCHANGED vars
  BY <1>7 DEF vars, TypeOK
<1> QED  BY <1>1, <1>2, <1>3, <1>4, <1>5, <1>6, <1>7 DEF Next

\* Every reachable state of the queue is well typed.
THEOREM TypeCorrect == SafeSpec => []TypeOK
<1>1. Init => TypeOK
  <2> SUFFICES ASSUME Init PROVE TypeOK
    OBVIOUS
  <2>1. /\ fresh \subseteq Items /\ queue = <<>> /\ <<>> \in Seq(Items)
        /\ closed = FALSE /\ high_water_mark = 0
    BY DEF Init
  <2>2. \A t \in Threads : pc[t] = "idle"
    BY DEF Init
  <2>3. \A t \in Producers \cup Consumers : held[t] = NoItem
    BY DEF Init
  <2>4. /\ pc \in [Threads -> {"idle", "lock", "wait", "notify",
                               "notify_empty", "notify_full"}]
        /\ held \in [Producers \cup Consumers -> Items \cup {NoItem}]
    BY DEF Init
  <2> QED  BY <2>1, <2>2, <2>3, <2>4, Zenon DEF TypeOK
<1> QED  BY <1>1, TypeInductive, PTL DEF SafeSpec

-----------------------------------------------------------------------------
\* push never stores beyond capacity_, and high_water_mark_ tracks the peak.
THEOREM OccupancyCorrect == SafeSpec => []OccupancyBounded
<1>1. Init => OccupancyBounded
  BY CapacityAssumption DEF Init, OccupancyBounded
<1>2. TypeOK /\ OccupancyBounded /\ [Next]_vars => OccupancyBounded'
  <2> SUFFICES ASSUME TypeOK, OccupancyBounded, [Next]_vars
               PROVE  OccupancyBounded'
    OBVIOUS
  <2> USE CapacityAssumption
  <2>1. ASSUME NEW p \in Producers, PushInsert(p)
        PROVE  OccupancyBounded'
    <3>1. held[p] \in Items /\ Len(queue) \in Nat
      BY <2>1 DEF PushInsert, TypeOK
    <3>2. Len(queue') = Len(queue) + 1
      BY <2>1, <3>1 DEF PushInsert, TypeOK
    <3> QED  BY <2>1, <3>1, <3>2 DEF PushInsert, OccupancyBounded, TypeOK
  <2>2. ASSUME NEW c \in Consumers, PopTake(c)
        PROVE  OccupancyBounded'
    <3>1. Len(queue) \in Nat /\ Len(queue') = Len(queue) - 1
      BY <2>2 DEF PopTake, TypeOK
    <3> QED  BY <2>2, <3>1 DEF PopTake, OccupancyBounded, TypeOK
  <2>3. CASE UNCHANGED <<queue, high_water_mark>>
    BY <2>3 DEF OccupancyBounded
  <2> QED
    BY <2>1, <2>2, <2>3
       DEF Next, Push, Pop, CloseNotify, PushCall, PushWait, PushReject,
           PushNotify, PopCall, PopWait, PopEmpty, PopNotify, Discard, CloseSet,
           CloseNotifyEmpty, CloseNotifyFull, SpuriousWakeup, vars
<1> QED  BY <1>1, <1>2, TypeCorrect, PTL DEF SafeSpec

-----------------------------------------------------------------------------
\* Items are moved into, through and out of the queue, never duplicated.
THEOREM OwnershipCorrect == SafeSpec => []SingleOwner
<1>1. Init => SingleOwner
  BY DEF Init, SingleOwner
<1>2. TypeOK /\ SingleOwner /\ [Next]_vars => SingleOwner'
  <2> SUFFICES ASSUME TypeOK, SingleOwner, [Next]_vars
               PROVE  SingleOwner'
    OBVIOUS
  <2> USE ItemsAssumption, ThreadsAssumption
  <2>1. ASSUME NEW p \in Producers, NEW v \in Items, PushCall(p, v)
        PROVE  SingleOwner'
    BY <2>1 DEF PushCall, SingleOwner, TypeOK
  <2>2. ASSUME NEW p \in Producers, PushInsert(p)
        PROVE  SingleOwner'
    <3>1. held[p] \in Items
      BY <2>2 DEF PushInsert, TypeOK
    <3>2. /\ Len(queue) \in Nat /\ DOMAIN queue = 1..Len(queue)
          /\ DOMAIN queue' = 1..(Len(queue) + 1)
          /\ \A i \in DOMAIN queue : queue'[i] = queue[i]
          /\ queue'[Len(queue) + 1] = held[p]
      BY <2>2, <3>1 DEF PushInsert, TypeOK
    <3>3. /\ held' = [held EXCEPT ![p] = NoItem]
          /\ fresh' = fresh
      BY <2>2 DEF PushInsert
    <3>4. \A i \in DOMAIN queue' : i \in DOMAIN queue \/ i = Len(queue) + 1
      BY <3>2
    <3>5. \A i, j \in DOMAIN queue' : queue'[i] = queue'[j] => i = j
      BY <3>1, <3>2, <3>4 DEF SingleOwner
    <3>6. \A i \in DOMAIN queue' : queue'[i] \notin fresh'
      BY <3>1, <3>2, <3>3, <3>4 DEF SingleOwner
    <3>7. ASSUME NEW t \in Producers \cup Consumers, held'[t] # NoItem
          PROVE  /\ held'[t] \notin fresh'
                 /\ \A i \in DOMAIN queue' : queue'[i] # held'[t]
                 /\ \A u \in Producers \cup Consumers : held'[u] = held'[t] => u = t
      <4>1. t # p /\ held'[t] = held[t]
        BY <3>3, <3>7 DEF TypeOK
      <4> QED  BY <3>1, <3>2, <3>3, <3>4, <3>7, <4>1 DEF SingleOwner, TypeOK
    <3> QED  BY <3>5, <3>6, <3>7 DEF SingleOwner
  <2>3. ASSUME NEW c \in Consumers, PopTake(c)
        PROVE  SingleOwner'
    <3>1. /\ Len(queue) \in Nat \ {0} /\ DOMAIN queue = 1..Len(queue)
          /\ DOMAIN queue' = 1..(Len(queue) - 1)
          /\ \A i \in DOMAIN queue' : queue'[i] = queue[i + 1]
          /\ Head(queue) = queue[1] /\ queue[1] \in Items
      BY <2>3 DEF PopTake, TypeOK
    <3>2. /\ held' = [held EXCEPT ![c] = queue[1]]
          /\ fresh' = fresh
      BY <2>3, <3>1 DEF PopTake
    <3>3. \A i \in DOMAIN queue' : i + 1 \in DOMAIN queue /\ i + 1 # 1
      BY <3>1
    <3>4. 1 \in DOMAIN queue
      BY <3>1
    <3>5. \A i, j \in DOMAIN queue' : queue'[i] = queue'[j] => i = j
      BY <3>1, <3>3 DEF SingleOwner
    <3>6. \A i \in DOMAIN queue' : queue'[i] \notin fresh'
      BY <3>1, <3>2, <3>3 DEF SingleOwner
    <3>7. ASSUME NEW t \in Producers \cup Consumers, held'[t] # NoItem
          PROVE  /\ held'[t] \notin fresh'
                 /\ \A i \in DOMAIN queue' : queue'[i] # held'[t]
                 /\ \A u \in Producers \cup Consumers : held'[u] = held'[t] => u = t
      <4>1. CASE t = c
        BY <3>1, <3>2, <3>3, <3>4, <4>1 DEF SingleOwner, TypeOK
      <4>2. CASE t # c
        BY <3>1, <3>2, <3>3, <3>4, <3>7, <4>2 DEF SingleOwner, TypeOK
      <4> QED  BY <4>1, <4>2
    <3> QED  BY <3>5, <3>6, <3>7 DEF SingleOwner
  <2>4. ASSUME NEW t \in Producers \cup Consumers, UNCHANGED <<fresh, queue>>,
               held' = [held EXCEPT ![t] = NoItem]
        PROVE  SingleOwner'
    BY <2>4 DEF SingleOwner, TypeOK
  <2>5. CASE UNCHANGED <<fresh, queue, held>>
    BY <2>5 DEF SingleOwner
  <2> QED
    BY <2>1, <2>2, <2>3, <2>4, <2>5
       DEF Next, Push, Pop, CloseNotify, PushWait, PushReject,
           PushNotify, PopCall, PopWait, PopEmpty, PopNotify, Discard, CloseSet,
           CloseNotifyEmpty, CloseNotifyFull, SpuriousWakeup, vars
<1> QED  BY <1>1, <1>2, TypeCorrect, PTL DEF SafeSpec

-----------------------------------------------------------------------------
\* The sets of threads the wake-up invariants count are finite, and adding or
\* removing one thread changes their number by one.
LEMMA CountedThreads ==
  ASSUME NEW S \in {Producers, Consumers}, NEW T \in SUBSET S
  PROVE  /\ Cardinality(T) \in Nat
         /\ \A t \in S \ T : Cardinality(T \cup {t}) = Cardinality(T) + 1
         /\ \A t \in T : Cardinality(T \ {t}) = Cardinality(T) - 1
<1>1. IsFiniteSet(T)
  BY ThreadsAssumption, FS_Subset
<1> QED  BY <1>1, FS_CardinalityType, FS_AddElement, FS_RemoveElement

\* No pop sleeps through an item: NoLostItemWakeup is inductive relative to
\* TypeOK.
THEOREM ItemWakeupCorrect == SafeSpec => []NoLostItemWakeup
<1>1. Init => NoLostItemWakeup
  BY DEF Init, NoLostItemWakeup, Asleep
<1>2. TypeOK /\ NoLostItemWakeup /\ [Next]_vars => NoLostItemWakeup'
  <2> SUFFICES ASSUME TypeOK, NoLostItemWakeup, [Next]_vars,
                      Asleep(Consumers)' # {}
               PROVE  IF closed'
                      THEN At(Closers, "notify_empty")' # {}
                      ELSE Len(queue') <= Cardinality(At(Producers, "notify")')
                                            + Cardinality(At(Consumers, "lock")')
    BY DEF NoLostItemWakeup
  <2> DEFINE Goal == IF closed'
                     THEN At(Closers, "notify_empty")' # {}
                     ELSE Len(queue') <= Cardinality(At(Producers, "notify")')
                                           + Cardinality(At(Consumers, "lock")')
             N == At(Producers, "notify")
             L == At(Consumers, "lock")
  <2> USE ThreadsAssumption
  <2>a. /\ N \in SUBSET Producers /\ L \in SUBSET Consumers
        /\ Cardinality(N) \in Nat /\ Cardinality(L) \in Nat
    BY CountedThreads DEF At
  <2>b. Len(queue) \in Nat
    BY DEF TypeOK
  \* Nothing but the number of awake pops changes, and that does not fall.
  <2>c. ASSUME Asleep(Consumers) # {}, UNCHANGED <<queue, closed>>, N' = N,
               At(Closers, "notify_empty")' = At(Closers, "notify_empty"),
               L' = L \/ \E c \in Consumers \ L : L' = L \cup {c}
        PROVE  Goal
    <3>1. Cardinality(L') >= Cardinality(L)
      BY <2>a, <2>c, CountedThreads
    <3>2. Cardinality(L') \in Nat
      BY <2>a, <2>c, CountedThreads
    <3>3. CASE closed
      BY <2>c, <3>3 DEF NoLostItemWakeup
    <3>4. CASE ~closed
      <4>1. Len(queue) <= Cardinality(N) + Cardinality(L)
        BY <2>c, <3>4 DEF NoLostItemWakeup
      <4>2. Len(queue) <= Cardinality(N) + Cardinality(L')
        BY <2>a, <2>b, <3>1, <3>2, <4>1
      <4> QED  BY <2>c, <3>4, <4>2
    <3> QED  BY <3>3, <3>4
  <2>1. ASSUME NEW p \in Producers, PushInsert(p)
        PROVE  Goal
    <3>1. Asleep(Consumers)' = Asleep(Consumers) /\ ~closed /\ ~closed'
      BY <2>1 DEF PushInsert, Asleep, TypeOK
    <3>2. N' = N \cup {p} /\ p \in Producers \ N /\ L' = L
      BY <2>1 DEF PushInsert, At, TypeOK
    <3>3. Len(queue') = Len(queue) + 1
      BY <2>1 DEF PushInsert, TypeOK
    <3>4. Len(queue) <= Cardinality(N) + Cardinality(L)
      BY <3>1 DEF NoLostItemWakeup
    <3>5. Cardinality(N') = Cardinality(N) + 1
      BY <2>a, <3>2, CountedThreads
    <3>6. Len(queue') <= Cardinality(N') + Cardinality(L')
      BY <2>a, <2>b, <3>2, <3>3, <3>4, <3>5
    <3> QED  BY <3>1, <3>6
  <2>2. ASSUME NEW p \in Producers, PushNotify(p)
        PROVE  Goal
    <3>1. PICK c \in Asleep(Consumers) : pc' = [pc EXCEPT ![p] = "idle", ![c] = "lock"]
      BY <2>2 DEF PushNotify, NotifyOne, Asleep, TypeOK
    <3>2. /\ N' = N \ {p} /\ p \in N
          /\ L' = L \cup {c} /\ c \in Consumers \ L
      BY <2>2, <3>1 DEF PushNotify, At, Asleep, TypeOK
    <3>3. At(Closers, "notify_empty")' = At(Closers, "notify_empty")
      BY <2>2, <3>1 DEF PushNotify, At, Asleep, TypeOK
    <3>4. /\ Cardinality(N') = Cardinality(N) - 1
          /\ Cardinality(L') = Cardinality(L) + 1
      BY <2>a, <3>2, CountedThreads
    <3>5. UNCHANGED <<queue, closed>>
      BY <2>2 DEF PushNotify
    <3>6. CASE closed
      BY <3>1, <3>3, <3>5, <3>6 DEF NoLostItemWakeup
    <3>7. CASE ~closed
      <4>1. Len(queue) <= Cardinality(N) + Cardinality(L)
        BY <3>1, <3>7 DEF NoLostItemWakeup
      <4>2. Len(queue') <= Cardinality(N') + Cardinality(L')
        BY <2>a, <2>b, <3>4, <3>5, <4>1
      <4> QED  BY <3>5, <3>7, <4>2
    <3> QED  BY <3>6, <3>7
  <2>3. ASSUME NEW p \in Producers,
               PushWait(p) \/ PushReject(p) \/ \E v \in Items : PushCall(p, v)
        PROVE  Goal
    <3>1. PICK m \in {"wait", "idle", "lock"} : pc' = [pc EXCEPT ![p] = m]
      BY <2>3 DEF PushWait, PushReject, PushCall
    <3>2. pc[p] # "notify" /\ UNCHANGED <<queue, closed>>
      BY <2>3 DEF PushWait, PushReject, PushCall
    <3>3. /\ N' = N /\ L' = L /\ Asleep(Consumers)' = Asleep(Consumers)
          /\ At(Closers, "notify_empty")' = At(Closers, "notify_empty")
      BY <3>1, <3>2 DEF At, Asleep, TypeOK
    <3> QED  BY <2>c, <3>2, <3>3
  <2>4. ASSUME NEW c \in Consumers, PopWait(c)
        PROVE  Goal
    <3>1. ~closed' /\ Len(queue') = 0
      BY <2>4 DEF PopWait
    <3>2. N' = N /\ L' = L \ {c} /\ c \in L
      BY <2>4 DEF PopWait, At, TypeOK
    <3>3. Cardinality(N') \in Nat /\ Cardinality(L') \in Nat
      BY <2>a, <3>2, CountedThreads
    <3> QED  BY <3>1, <3>3
  <2>5. ASSUME NEW c \in Consumers, PopEmpty(c)
        PROVE  Goal
    <3>1. /\ closed /\ closed' /\ Asleep(Consumers)' = Asleep(Consumers)
          /\ At(Closers, "notify_empty")' = At(Closers, "notify_empty")
      BY <2>5 DEF PopEmpty, At, Asleep, TypeOK
    <3> QED  BY <3>1 DEF NoLostItemWakeup
  <2>6. ASSUME NEW c \in Consumers, PopTake(c)
        PROVE  Goal
    <3>1. /\ closed' = closed /\ Asleep(Consumers)' = Asleep(Consumers)
          /\ At(Closers, "notify_empty")' = At(Closers, "notify_empty")
      BY <2>6 DEF PopTake, At, Asleep, TypeOK
    <3>2. N' = N /\ L' = L \ {c} /\ c \in L
      BY <2>6 DEF PopTake, At, TypeOK
    <3>3. Len(queue') = Len(queue) - 1
      BY <2>6 DEF PopTake, TypeOK
    <3>4. CASE closed
      BY <3>1, <3>4 DEF NoLostItemWakeup
    <3>5. CASE ~closed
      <4>1. Len(queue) <= Cardinality(N) + Cardinality(L)
        BY <3>1, <3>5 DEF NoLostItemWakeup
      <4>2. Cardinality(L') = Cardinality(L) - 1
        BY <2>a, <3>2, CountedThreads
      <4>3. Len(queue') <= Cardinality(N') + Cardinality(L')
        BY <2>a, <2>b, <3>2, <3>3, <4>1, <4>2
      <4> QED  BY <3>1, <3>5, <4>3
    <3> QED  BY <3>4, <3>5
  <2>7. ASSUME NEW c \in Consumers, PopNotify(c)
        PROVE  Goal
    <3>1. /\ N' = N /\ L' = L /\ Asleep(Consumers)' = Asleep(Consumers)
          /\ At(Closers, "notify_empty")' = At(Closers, "notify_empty")
          /\ UNCHANGED <<queue, closed>>
      BY <2>7 DEF PopNotify, NotifyOne, At, Asleep, TypeOK
    <3> QED  BY <2>c, <3>1
  <2>8. ASSUME NEW c \in Consumers, PopCall(c) \/ SpuriousWakeup(c)
        PROVE  Goal
    <3>1. /\ pc' = [pc EXCEPT ![c] = "lock"] /\ pc[c] \in {"idle", "wait"}
          /\ UNCHANGED <<queue, closed>>
      BY <2>8 DEF PopCall, SpuriousWakeup
    <3>2. /\ N' = N /\ L' = L \cup {c} /\ c \in Consumers \ L
          /\ Asleep(Consumers) # {}
          /\ At(Closers, "notify_empty")' = At(Closers, "notify_empty")
      BY <3>1 DEF At, Asleep, TypeOK
    <3> QED  BY <2>c, <3>1, <3>2
  <2>9. ASSUME NEW p \in Producers, SpuriousWakeup(p)
        PROVE  Goal
    <3>1. /\ N' = N /\ L' = L /\ Asleep(Consumers)' = Asleep(Consumers)
          /\ At(Closers, "notify_empty")' = At(Closers, "notify_empty")
          /\ UNCHANGED <<queue, closed>>
      BY <2>9 DEF SpuriousWakeup, At, Asleep, TypeOK
    <3> QED  BY <2>c, <3>1
  <2>10. ASSUME NEW k \in Closers, CloseSet(k)
         PROVE  Goal
    <3>1. closed' /\ k \in At(Closers, "notify_empty")'
      BY <2>10 DEF CloseSet, At, TypeOK
    <3> QED  BY <3>1
  <2>11. ASSUME NEW k \in Closers, CloseNotifyEmpty(k)
         PROVE  FALSE
    BY <2>11, Zenon DEF CloseNotifyEmpty, NotifyAll, Asleep, TypeOK
  <2>12. ASSUME NEW k \in Closers, CloseNotifyFull(k)
         PROVE  Goal
    <3>1. /\ N' = N /\ L' = L /\ Asleep(Consumers)' = Asleep(Consumers)
          /\ At(Closers, "notify_empty")' = At(Closers, "notify_empty")
          /\ UNCHANGED <<queue, closed>>
      BY <2>12 DEF CloseNotifyFull, NotifyAll, At, Asleep, TypeOK
    <3> QED  BY <2>c, <3>1
  <2>13. ASSUME (\E c \in Consumers : Discard(c)) \/ UNCHANGED vars
         PROVE  Goal
    <3>1. UNCHANGED <<queue, closed, pc>>
      BY <2>13 DEF Discard, vars
    <3>2. /\ N' = N /\ L' = L /\ Asleep(Consumers)' = Asleep(Consumers)
          /\ At(Closers, "notify_empty")' = At(Closers, "notify_empty")
      BY <3>1 DEF At, Asleep
    <3> QED  BY <2>c, <3>1, <3>2
  <2> HIDE DEF Goal
  <2>14. Goal
    <3>1. ASSUME NEW p \in Producers, Push(p) \/ \E v \in Items : PushCall(p, v)
          PROVE  Goal
      BY <2>1, <2>2, <2>3, <3>1 DEF Push
    <3>2. ASSUME NEW c \in Consumers, Pop(c) \/ PopCall(c) \/ Discard(c)
          PROVE  Goal
      BY <2>4, <2>5, <2>6, <2>7, <2>8, <2>13, <3>2 DEF Pop
    <3>3. ASSUME NEW k \in Closers, CloseNotify(k) \/ CloseSet(k)
          PROVE  Goal
      BY <2>10, <2>11, <2>12, <3>3 DEF CloseNotify
    <3>4. ASSUME NEW t \in Producers \cup Consumers, SpuriousWakeup(t)
          PROVE  Goal
      BY <2>8, <2>9, <3>4
    <3> QED  BY <2>13, <3>1, <3>2, <3>3, <3>4 DEF Next
  <2> QED  BY <2>14 DEF Goal
<1> QED  BY <1>1, <1>2, TypeCorrect, PTL DEF SafeSpec

-----------------------------------------------------------------------------
\* No push sleeps through a free slot: NoLostSlotWakeup is inductive relative
\* to TypeOK, by the same count with the roles of push and pop exchanged.
THEOREM SlotWakeupCorrect == SafeSpec => []NoLostSlotWakeup
<1>1. Init => NoLostSlotWakeup
  BY DEF Init, NoLostSlotWakeup, Asleep
<1>2. TypeOK /\ NoLostSlotWakeup /\ [Next]_vars => NoLostSlotWakeup'
  <2> SUFFICES ASSUME TypeOK, NoLostSlotWakeup, [Next]_vars,
                      Asleep(Producers)' # {}
               PROVE  IF closed'
                      THEN At(Closers, "notify_empty")'
                             \cup At(Closers, "notify_full")' # {}
                      ELSE Capacity <= Len(queue')
                                         + Cardinality(At(Consumers, "notify")')
                                         + Cardinality(At(Producers, "lock")')
    BY DEF NoLostSlotWakeup
  <2> DEFINE N == At(Consumers, "notify")
             L == At(Producers, "lock")
             K == At(Closers, "notify_empty") \cup At(Closers, "notify_full")
             Goal == IF closed' THEN K' # {}
                     ELSE Capacity <= Len(queue') + Cardinality(N') + Cardinality(L')
  <2> USE ThreadsAssumption, CapacityAssumption
  <2>a. /\ N \in SUBSET Consumers /\ L \in SUBSET Producers
        /\ Cardinality(N) \in Nat /\ Cardinality(L) \in Nat
    BY CountedThreads DEF At
  <2>b. Len(queue) \in Nat
    BY DEF TypeOK
  \* Nothing but the number of awake pushes changes, and that does not fall.
  <2>c. ASSUME Asleep(Producers) # {}, UNCHANGED <<queue, closed>>, N' = N, K' = K,
               L' = L \/ \E p \in Producers \ L : L' = L \cup {p}
        PROVE  Goal
    <3>1. Cardinality(L') >= Cardinality(L) /\ Cardinality(L') \in Nat
      BY <2>a, <2>c, CountedThreads
    <3>2. CASE closed
      BY <2>c, <3>2 DEF NoLostSlotWakeup
    <3>3. CASE ~closed
      <4>1. Capacity <= Len(queue) + Cardinality(N) + Cardinality(L)
        BY <2>c, <3>3 DEF NoLostSlotWakeup
      <4>2. Capacity <= Len(queue) + Cardinality(N) + Cardinality(L')
        BY <2>a, <2>b, <3>1, <4>1
      <4> QED  BY <2>c, <3>3, <4>2
    <3> QED  BY <3>2, <3>3
  <2>1. ASSUME NEW c \in Consumers, PopTake(c)
        PROVE  Goal
    <3>1. closed' = closed /\ Asleep(Producers)' = Asleep(Producers) /\ K' = K
      BY <2>1 DEF PopTake, At, Asleep, TypeOK
    <3>2. N' = N \cup {c} /\ c \in Consumers \ N /\ L' = L
      BY <2>1 DEF PopTake, At, TypeOK
    <3>3. Len(queue') = Len(queue) - 1
      BY <2>1 DEF PopTake, TypeOK
    <3>4. CASE closed
      BY <3>1, <3>4 DEF NoLostSlotWakeup
    <3>5. CASE ~closed
      <4>1. Capacity <= Len(queue) + Cardinality(N) + Cardinality(L)
        BY <3>1, <3>5 DEF NoLostSlotWakeup
      <4>2. Cardinality(N') = Cardinality(N) + 1
        BY <2>a, <3>2, CountedThreads
      <4>3. Capacity <= Len(queue') + Cardinality(N') + Cardinality(L')
        BY <2>a, <2>b, <3>2, <3>3, <4>1, <4>2
      <4> QED  BY <3>1, <3>5, <4>3
    <3> QED  BY <3>4, <3>5
  <2>2. ASSUME NEW c \in Consumers, PopNotify(c)
        PROVE  Goal
    <3>1. PICK p \in Asleep(Producers) : pc' = [pc EXCEPT ![c] = "idle", ![p] = "lock"]
      BY <2>2 DEF PopNotify, NotifyOne, Asleep, TypeOK
    <3>2. /\ N' = N \ {c} /\ c \in N
          /\ L' = L \cup {p} /\ p \in Producers \ L
          /\ K' = K
      BY <2>2, <3>1 DEF PopNotify, At, Asleep, TypeOK
    <3>3. /\ Cardinality(N') = Cardinality(N) - 1
          /\ Cardinality(L') = Cardinality(L) + 1
      BY <2>a, <3>2, CountedThreads
    <3>4. UNCHANGED <<queue, closed>>
      BY <2>2 DEF PopNotify
    <3>5. CASE closed
      BY <3>1, <3>2, <3>4, <3>5 DEF NoLostSlotWakeup
    <3>6. CASE ~closed
      <4>1. Capacity <= Len(queue) + Cardinality(N) + Cardinality(L)
        BY <3>1, <3>6 DEF NoLostSlotWakeup
      <4>2. Capacity <= Len(queue') + Cardinality(N') + Cardinality(L')
        BY <2>a, <2>b, <3>3, <3>4, <4>1
      <4> QED  BY <3>4, <3>6, <4>2
    <3> QED  BY <3>5, <3>6
  <2>3. ASSUME NEW c \in Consumers,
               PopWait(c) \/ PopEmpty(c) \/ PopCall(c) \/ SpuriousWakeup(c)
        PROVE  Goal
    <3>1. PICK m \in {"wait", "idle", "lock"} : pc' = [pc EXCEPT ![c] = m]
      BY <2>3 DEF PopWait, PopEmpty, PopCall, SpuriousWakeup
    <3>2. pc[c] # "notify" /\ UNCHANGED <<queue, closed>>
      BY <2>3 DEF PopWait, PopEmpty, PopCall, SpuriousWakeup
    <3>3. N' = N /\ L' = L /\ K' = K /\ Asleep(Producers)' = Asleep(Producers)
      BY <3>1, <3>2 DEF At, Asleep, TypeOK
    <3> QED  BY <2>c, <3>2, <3>3
  <2>4. ASSUME NEW p \in Producers, PushWait(p)
        PROVE  Goal
    <3>1. ~closed' /\ Capacity <= Len(queue') /\ queue' = queue
      BY <2>b, <2>4 DEF PushWait
    <3>2. N' = N /\ L' = L \ {p} /\ p \in L
      BY <2>4 DEF PushWait, At, TypeOK
    <3>3. Cardinality(N') \in Nat /\ Cardinality(L') \in Nat
      BY <2>a, <3>2, CountedThreads
    <3>4. Capacity <= Len(queue') + Cardinality(N') + Cardinality(L')
      BY <2>b, <3>1, <3>3
    <3> QED  BY <3>1, <3>4
  <2>5. ASSUME NEW p \in Producers, PushReject(p)
        PROVE  Goal
    <3>1. closed /\ closed' /\ Asleep(Producers)' = Asleep(Producers) /\ K' = K
      BY <2>5 DEF PushReject, At, Asleep, TypeOK
    <3> QED  BY <3>1 DEF NoLostSlotWakeup
  <2>6. ASSUME NEW p \in Producers, PushInsert(p)
        PROVE  Goal
    <3>1. Asleep(Producers)' = Asleep(Producers) /\ ~closed /\ ~closed'
      BY <2>6 DEF PushInsert, Asleep, TypeOK
    <3>2. N' = N /\ L' = L \ {p} /\ p \in L
      BY <2>6 DEF PushInsert, At, TypeOK
    <3>3. Len(queue') = Len(queue) + 1
      BY <2>6 DEF PushInsert, TypeOK
    <3>4. Capacity <= Len(queue) + Cardinality(N) + Cardinality(L)
      BY <3>1 DEF NoLostSlotWakeup
    <3>5. Cardinality(L') = Cardinality(L) - 1
      BY <2>a, <3>2, CountedThreads
    <3>6. Capacity <= Len(queue') + Cardinality(N') + Cardinality(L')
      BY <2>a, <2>b, <3>2, <3>3, <3>4, <3>5
    <3> QED  BY <3>1, <3>6
  <2>7. ASSUME NEW p \in Producers, PushNotify(p)
        PROVE  Goal
    <3>1. /\ N' = N /\ L' = L /\ K' = K /\ Asleep(Producers)' = Asleep(Producers)
          /\ UNCHANGED <<queue, closed>>
      BY <2>7 DEF PushNotify, NotifyOne, At, Asleep, TypeOK
    <3> QED  BY <2>c, <3>1
  <2>8. ASSUME NEW p \in Producers,
               (\E v \in Items : PushCall(p, v)) \/ SpuriousWakeup(p)
        PROVE  Goal
    <3>1. /\ pc' = [pc EXCEPT ![p] = "lock"] /\ pc[p] \in {"idle", "wait"}
          /\ UNCHANGED <<queue, closed>>
      BY <2>8 DEF PushCall, SpuriousWakeup
    <3>2. /\ N' = N /\ L' = L \cup {p} /\ p \in Producers \ L
          /\ Asleep(Producers) # {} /\ K' = K
      BY <3>1 DEF At, Asleep, TypeOK
    <3> QED  BY <2>c, <3>1, <3>2
  <2>9. ASSUME NEW k \in Closers, CloseSet(k)
        PROVE  Goal
    <3>1. closed' /\ k \in K'
      BY <2>9 DEF CloseSet, At, TypeOK
    <3> QED  BY <3>1
  <2>10. ASSUME NEW k \in Closers, CloseNotifyEmpty(k)
         PROVE  Goal
    <3>1. /\ N' = N /\ L' = L /\ Asleep(Producers)' = Asleep(Producers)
          /\ UNCHANGED <<queue, closed>> /\ K' = K
      BY <2>10 DEF CloseNotifyEmpty, NotifyAll, At, Asleep, TypeOK
    <3> QED  BY <2>c, <3>1
  <2>11. ASSUME NEW k \in Closers, CloseNotifyFull(k)
         PROVE  FALSE
    BY <2>11, Zenon DEF CloseNotifyFull, NotifyAll, Asleep, TypeOK
  <2>12. ASSUME (\E c \in Consumers : Discard(c)) \/ UNCHANGED vars
         PROVE  Goal
    <3>1. UNCHANGED <<queue, closed, pc>>
      BY <2>12 DEF Discard, vars
    <3>2. N' = N /\ L' = L /\ K' = K /\ Asleep(Producers)' = Asleep(Producers)
      BY <3>1 DEF At, Asleep
    <3> QED  BY <2>c, <3>1, <3>2
  <2> HIDE DEF Goal
  <2>13. Goal
    <3>1. ASSUME NEW p \in Producers, Push(p) \/ \E v \in Items : PushCall(p, v)
          PROVE  Goal
      BY <2>4, <2>5, <2>6, <2>7, <2>8, <3>1 DEF Push
    <3>2. ASSUME NEW c \in Consumers, Pop(c) \/ PopCall(c) \/ Discard(c)
          PROVE  Goal
      BY <2>1, <2>2, <2>3, <2>12, <3>2 DEF Pop
    <3>3. ASSUME NEW k \in Closers, CloseNotify(k) \/ CloseSet(k)
          PROVE  Goal
      BY <2>9, <2>10, <2>11, <3>3 DEF CloseNotify
    <3>4. ASSUME NEW t \in Producers \cup Consumers, SpuriousWakeup(t)
          PROVE  Goal
      BY <2>3, <2>8, <3>4
    <3> QED  BY <2>12, <3>1, <3>2, <3>3, <3>4 DEF Next
  <2> QED  BY <2>13 DEF Goal
<1> QED  BY <1>1, <1>2, TypeCorrect, PTL DEF SafeSpec

-----------------------------------------------------------------------------
\* A thread that moves changes its own call only.
LEMMA OpMoves ==
  ASSUME TypeOK, NEW t \in Producers \cup Consumers,
         NEW l \in {"idle", "lock", "wait", "notify"},
         pc' = [pc EXCEPT ![t] = l]
  PROVE  op' = [op EXCEPT ![t] = CallAt(l)]
  BY Zenon DEF op, TypeOK

\* Waking sleepers is invisible: a woken thread is still in its call.
LEMMA WakeUpInvisible ==
  ASSUME TypeOK,
         \A t \in Producers \cup Consumers :
           \/ pc'[t] = pc[t]
           \/ pc[t] = "wait" /\ pc'[t] = "lock"
  PROVE  op' = op
  BY DEF op, CallAt

\* The call of the notifying thread returns, and whoever it wakes stays in its
\* own.
LEMMA NotifyReturns ==
  ASSUME TypeOK, NEW t \in Producers \cup Consumers,
         NEW S \in SUBSET (Producers \cup Consumers),
         pc[t] = "notify", NotifyOne(t, S, "idle")
  PROVE  op[t] = "done" /\ op' = [op EXCEPT ![t] = "idle"]
<1>1. /\ pc'[t] = "idle"
      /\ \A u \in (Producers \cup Consumers) \ {t} :
           \/ pc'[u] = pc[u]
           \/ pc[u] = "wait" /\ pc'[u] = "lock"
  BY DEF NotifyOne, Asleep, TypeOK
<1> QED  BY <1>1, Zenon DEF op, CallAt

\* The monitor is an atomic bounded FIFO: every step of BoundedQueue is a step
\* of FifoQueue or changes nothing its callers can see.
THEOREM RefinementCorrect == SafeSpec => Abstract!SafeSpec
<1> USE DEF Abstract!Callers
<1>1. Init => Abstract!Init
  BY DEF Init, Abstract!Init, op, CallAt
<1>2. TypeOK /\ [Next]_vars => [Abstract!Next]_(Abstract!vars)
  <2> SUFFICES ASSUME TypeOK, [Next]_vars
               PROVE  Abstract!Next \/ UNCHANGED Abstract!vars
    OBVIOUS
  <2>1. ASSUME NEW p \in Producers, NEW v \in Items, PushCall(p, v)
        PROVE  Abstract!PushCall(p, v)
    <3>1. op' = [op EXCEPT ![p] = "called"] /\ op[p] = "idle"
      BY <2>1, OpMoves, Zenon DEF PushCall, op, CallAt
    <3> QED  BY <2>1, <3>1 DEF PushCall, Abstract!PushCall
  <2>2. ASSUME NEW p \in Producers, PushInsert(p)
        PROVE  Abstract!PushInsert(p)
    <3>1. op' = [op EXCEPT ![p] = "done"] /\ op[p] = "called"
      BY <2>2, OpMoves, Zenon DEF PushInsert, op, CallAt
    <3> QED  BY <2>2, <3>1 DEF PushInsert, Abstract!PushInsert
  <2>3. ASSUME NEW p \in Producers, PushReject(p)
        PROVE  Abstract!PushReject(p)
    <3>1. op' = [op EXCEPT ![p] = "idle"] /\ op[p] = "called"
      BY <2>3, OpMoves, Zenon DEF PushReject, op, CallAt
    <3> QED  BY <2>3, <3>1 DEF PushReject, Abstract!PushReject
  <2>4. ASSUME NEW c \in Consumers, PopCall(c)
        PROVE  Abstract!PopCall(c)
    <3>1. op' = [op EXCEPT ![c] = "called"] /\ op[c] = "idle"
      BY <2>4, OpMoves, Zenon DEF PopCall, op, CallAt
    <3> QED  BY <2>4, <3>1 DEF PopCall, Abstract!PopCall
  <2>5. ASSUME NEW c \in Consumers, PopTake(c)
        PROVE  Abstract!PopTake(c)
    <3>1. op' = [op EXCEPT ![c] = "done"] /\ op[c] = "called"
      BY <2>5, OpMoves, Zenon DEF PopTake, op, CallAt
    <3> QED  BY <2>5, <3>1 DEF PopTake, Abstract!PopTake
  <2>6. ASSUME NEW c \in Consumers, PopEmpty(c)
        PROVE  Abstract!PopEmpty(c)
    <3>1. op' = [op EXCEPT ![c] = "idle"] /\ op[c] = "called"
      BY <2>6, OpMoves, Zenon DEF PopEmpty, op, CallAt
    <3> QED  BY <2>6, <3>1 DEF PopEmpty, Abstract!PopEmpty
  <2>7. ASSUME NEW c \in Consumers, Discard(c)
        PROVE  Abstract!Discard(c)
    <3>1. op' = op /\ op[c] = "idle"
      BY <2>7 DEF Discard, op, CallAt
    <3> QED  BY <2>7, <3>1 DEF Discard, Abstract!Discard
  <2>8. ASSUME NEW t \in Producers \cup Consumers, PushNotify(t) \/ PopNotify(t)
        PROVE  Abstract!Return(t)
    <3>1. /\ pc[t] = "notify"
          /\ NotifyOne(t, Consumers, "idle") \/ NotifyOne(t, Producers, "idle")
          /\ UNCHANGED <<fresh, queue, closed, held>>
      BY <2>8 DEF PushNotify, PopNotify
    <3>2. op[t] = "done" /\ op' = [op EXCEPT ![t] = "idle"]
      BY <3>1, NotifyReturns
    <3> QED  BY <3>1, <3>2 DEF Abstract!Return
  <2>9. ASSUME NEW k \in Closers, CloseSet(k)
        PROVE  Abstract!Close
    <3>1. op' = op
      BY <2>9, ThreadsAssumption DEF CloseSet, op, TypeOK
    <3> QED  BY <2>9, <3>1 DEF CloseSet, Abstract!Close
  <2>10. ASSUME NEW k \in Closers, CloseNotify(k)
         PROVE  UNCHANGED Abstract!vars
    <3>1. \A t \in Producers \cup Consumers :
            pc'[t] = pc[t] \/ (pc[t] = "wait" /\ pc'[t] = "lock")
      BY <2>10, ThreadsAssumption
         DEF CloseNotify, CloseNotifyEmpty, CloseNotifyFull, NotifyAll, Asleep
    <3>2. op' = op
      BY <3>1, WakeUpInvisible
    <3>3. UNCHANGED <<fresh, queue, closed, held>>
      BY <2>10 DEF CloseNotify, CloseNotifyEmpty, CloseNotifyFull
    <3> QED  BY <3>2, <3>3 DEF Abstract!vars
  <2>11. ASSUME NEW t \in Producers \cup Consumers,
                PushWait(t) \/ PopWait(t) \/ SpuriousWakeup(t)
         PROVE  UNCHANGED Abstract!vars
    <3>1. op' = op
      BY <2>11 DEF PushWait, PopWait, SpuriousWakeup, op, CallAt, TypeOK
    <3>2. UNCHANGED <<fresh, queue, closed, held>>
      BY <2>11 DEF PushWait, PopWait, SpuriousWakeup
    <3> QED  BY <3>1, <3>2 DEF Abstract!vars
  <2>12. CASE UNCHANGED vars
    BY <2>12 DEF vars, op, Abstract!vars
  <2> QED
    BY <2>1, <2>2, <2>3, <2>4, <2>5, <2>6, <2>7, <2>8, <2>9, <2>10, <2>11, <2>12
       DEF Next, Push, Pop, Abstract!Next
<1> QED  BY <1>1, <1>2, TypeCorrect, PTL DEF SafeSpec, Abstract!SafeSpec
==============================================================================
