---------------------------- MODULE BoundedQueue -----------------------------
(***************************************************************************)
(* BoundedQueue<T> (include/http/bounded_queue.hpp): a monitor with one    *)
(* mutex and the condition variables not_full_ and not_empty_.             *)
(*                                                                         *)
(* Each stretch of code under mutex_ is one action; the lock is not a      *)
(* variable of its own because nothing reads or writes the queue outside   *)
(* it.  The program counter of a thread says where it is between those     *)
(* stretches:                                                              *)
(*   "idle"          outside the queue                                     *)
(*   "lock"          about to (re)acquire mutex_ and test the predicate    *)
(*   "wait"          asleep on its condition variable                      *)
(*   "notify"        mutex_ released, notify_one still to be called        *)
(*   "notify_empty", "notify_full"   a closer's two notify_all calls       *)
(* so every notification is a step of its own, after the unlock.           *)
(***************************************************************************)
EXTENDS Naturals, Sequences, FiniteSets

CONSTANTS Producers, Consumers, Closers, Items, Capacity, NoItem

Threads == Producers \cup Consumers \cup Closers

\* The constructor throws when capacity is zero.
ASSUME CapacityAssumption == Capacity \in Nat \ {0}

ASSUME ThreadsAssumption ==
  /\ IsFiniteSet(Producers) /\ IsFiniteSet(Consumers)
  /\ Producers \cap Consumers = {}
  /\ Producers \cap Closers = {}
  /\ Consumers \cap Closers = {}

ASSUME ItemsAssumption == NoItem \notin Items

VARIABLES
  fresh,            \* items no push has been called with
  queue,            \* queue_
  closed,           \* closed_
  high_water_mark,  \* high_water_mark_
  pc,
  held              \* the item a producer passes in, a consumer got out

vars == <<fresh, queue, closed, high_water_mark, pc, held>>

Init ==
  /\ fresh = Items
  /\ queue = <<>>
  /\ closed = FALSE
  /\ high_water_mark = 0
  /\ pc = [t \in Threads |-> "idle"]
  /\ held = [t \in Producers \cup Consumers |-> NoItem]

-----------------------------------------------------------------------------
\* Condition variables.

Asleep(S) == {t \in S : pc[t] = "wait"}

\* t calls notify_one and goes on to `next`: one sleeper of S, if there is
\* any, is released and must reacquire the mutex.
NotifyOne(t, S, next) ==
  IF Asleep(S) = {}
  THEN pc' = [pc EXCEPT ![t] = next]
  ELSE \E s \in Asleep(S) : pc' = [pc EXCEPT ![t] = next, ![s] = "lock"]

NotifyAll(t, S, next) ==
  pc' = [u \in Threads |-> IF u = t THEN next
                           ELSE IF u \in Asleep(S) THEN "lock" ELSE pc[u]]

\* std::condition_variable may wake a sleeper without a notification.
SpuriousWakeup(t) ==
  /\ pc[t] = "wait"
  /\ pc' = [pc EXCEPT ![t] = "lock"]
  /\ UNCHANGED <<fresh, queue, closed, high_water_mark, held>>

-----------------------------------------------------------------------------
\* push

PushCall(p, v) ==
  /\ pc[p] = "idle" /\ v \in fresh
  /\ fresh' = fresh \ {v}
  /\ held' = [held EXCEPT ![p] = v]
  /\ pc' = [pc EXCEPT ![p] = "lock"]
  /\ UNCHANGED <<queue, closed, high_water_mark>>

PushWait(p) ==
  /\ pc[p] = "lock" /\ ~closed /\ Len(queue) >= Capacity
  /\ pc' = [pc EXCEPT ![p] = "wait"]
  /\ UNCHANGED <<fresh, queue, closed, high_water_mark, held>>

PushReject(p) ==
  /\ pc[p] = "lock" /\ closed
  /\ held' = [held EXCEPT ![p] = NoItem]
  /\ pc' = [pc EXCEPT ![p] = "idle"]
  /\ UNCHANGED <<fresh, queue, closed, high_water_mark>>

\* Seeded faults: the bound is off by one, and notify_one is kept for the
\* empty-to-non-empty transition only.
PushInsertOneTooMany(p) ==
  /\ pc[p] = "lock" /\ ~closed /\ Len(queue) <= Capacity
  /\ queue' = Append(queue, held[p])
  /\ high_water_mark' =
       IF Len(queue') > high_water_mark THEN Len(queue') ELSE high_water_mark
  /\ held' = [held EXCEPT ![p] = NoItem]
  /\ pc' = [pc EXCEPT ![p] = "notify"]
  /\ UNCHANGED <<fresh, closed>>

PushInsertNotifyIfEmpty(p) ==
  /\ pc[p] = "lock" /\ ~closed /\ Len(queue) < Capacity
  /\ queue' = Append(queue, held[p])
  /\ high_water_mark' =
       IF Len(queue') > high_water_mark THEN Len(queue') ELSE high_water_mark
  /\ held' = [held EXCEPT ![p] = NoItem]
  /\ pc' = [pc EXCEPT ![p] = IF queue = <<>> THEN "notify" ELSE "idle"]
  /\ UNCHANGED <<fresh, closed>>

PushInsert(p) ==
  /\ pc[p] = "lock" /\ ~closed /\ Len(queue) < Capacity
  /\ queue' = Append(queue, held[p])
  /\ high_water_mark' =
       IF Len(queue') > high_water_mark THEN Len(queue') ELSE high_water_mark
  /\ held' = [held EXCEPT ![p] = NoItem]
  /\ pc' = [pc EXCEPT ![p] = "notify"]
  /\ UNCHANGED <<fresh, closed>>

PushNotify(p) ==
  /\ pc[p] = "notify"
  /\ NotifyOne(p, Consumers, "idle")
  /\ UNCHANGED <<fresh, queue, closed, high_water_mark, held>>

-----------------------------------------------------------------------------
\* pop

PopCall(c) ==
  /\ pc[c] = "idle" /\ held[c] = NoItem
  /\ pc' = [pc EXCEPT ![c] = "lock"]
  /\ UNCHANGED <<fresh, queue, closed, high_water_mark, held>>

PopWait(c) ==
  /\ pc[c] = "lock" /\ ~closed /\ queue = <<>>
  /\ pc' = [pc EXCEPT ![c] = "wait"]
  /\ UNCHANGED <<fresh, queue, closed, high_water_mark, held>>

\* Seeded fault: a closed queue answers nullopt before it is drained.
PopEmptyUndrained(c) ==
  /\ pc[c] = "lock" /\ closed
  /\ pc' = [pc EXCEPT ![c] = "idle"]
  /\ UNCHANGED <<fresh, queue, closed, high_water_mark, held>>

PopEmpty(c) ==
  /\ pc[c] = "lock" /\ closed /\ queue = <<>>
  /\ pc' = [pc EXCEPT ![c] = "idle"]
  /\ UNCHANGED <<fresh, queue, closed, high_water_mark, held>>

\* Seeded faults: pop_front is missing, and notify_one is kept for the
\* full-to-non-full transition only.
PopTakeWithoutRemoval(c) ==
  /\ pc[c] = "lock" /\ queue # <<>>
  /\ held' = [held EXCEPT ![c] = Head(queue)]
  /\ pc' = [pc EXCEPT ![c] = "notify"]
  /\ UNCHANGED <<fresh, queue, closed, high_water_mark>>

PopTakeNotifyIfFull(c) ==
  /\ pc[c] = "lock" /\ queue # <<>>
  /\ held' = [held EXCEPT ![c] = Head(queue)]
  /\ queue' = Tail(queue)
  /\ pc' = [pc EXCEPT ![c] = IF Len(queue) = Capacity THEN "notify" ELSE "idle"]
  /\ UNCHANGED <<fresh, closed, high_water_mark>>

PopTake(c) ==
  /\ pc[c] = "lock" /\ queue # <<>>
  /\ held' = [held EXCEPT ![c] = Head(queue)]
  /\ queue' = Tail(queue)
  /\ pc' = [pc EXCEPT ![c] = "notify"]
  /\ UNCHANGED <<fresh, closed, high_water_mark>>

PopNotify(c) ==
  /\ pc[c] = "notify"
  /\ NotifyOne(c, Producers, "idle")
  /\ UNCHANGED <<fresh, queue, closed, high_water_mark, held>>

\* The caller destroys the item pop returned.
Discard(c) ==
  /\ pc[c] = "idle" /\ held[c] # NoItem
  /\ held' = [held EXCEPT ![c] = NoItem]
  /\ UNCHANGED <<fresh, queue, closed, high_water_mark, pc>>

-----------------------------------------------------------------------------
\* close: any number of threads, any number of times

CloseSet(k) ==
  /\ pc[k] = "idle"
  /\ closed' = TRUE
  /\ pc' = [pc EXCEPT ![k] = "notify_empty"]
  /\ UNCHANGED <<fresh, queue, high_water_mark, held>>

CloseNotifyEmpty(k) ==
  /\ pc[k] = "notify_empty"
  /\ NotifyAll(k, Consumers, "notify_full")
  /\ UNCHANGED <<fresh, queue, closed, high_water_mark, held>>

\* Seeded fault: notify_one instead of notify_all.
CloseNotifyFullOne(k) ==
  /\ pc[k] = "notify_full"
  /\ NotifyOne(k, Producers, "idle")
  /\ UNCHANGED <<fresh, queue, closed, high_water_mark, held>>

CloseNotifyFull(k) ==
  /\ pc[k] = "notify_full"
  /\ NotifyAll(k, Producers, "idle")
  /\ UNCHANGED <<fresh, queue, closed, high_water_mark, held>>

-----------------------------------------------------------------------------
Push(p) == PushWait(p) \/ PushReject(p) \/ PushInsert(p) \/ PushNotify(p)

Pop(c) == PopWait(c) \/ PopEmpty(c) \/ PopTake(c) \/ PopNotify(c)

CloseNotify(k) == CloseNotifyEmpty(k) \/ CloseNotifyFull(k)

Next ==
  \/ \E p \in Producers : Push(p) \/ \E v \in Items : PushCall(p, v)
  \/ \E c \in Consumers : Pop(c) \/ PopCall(c) \/ Discard(c)
  \/ \E k \in Closers : CloseNotify(k) \/ CloseSet(k)
  \/ \E t \in Producers \cup Consumers : SpuriousWakeup(t)

\* A thread inside the queue that is not asleep keeps running.  Nobody has to
\* call the queue, and no wake-up is spurious by obligation.
Fairness ==
  /\ \A p \in Producers : WF_vars(Push(p))
  /\ \A c \in Consumers : WF_vars(Pop(c))
  /\ \A k \in Closers : WF_vars(CloseNotify(k))

SafeSpec == Init /\ [][Next]_vars

Spec == SafeSpec /\ Fairness

-----------------------------------------------------------------------------
\* Every variable keeps its type.  A producer owns its item exactly from the
\* call of push until push stores or refuses it, and a consumer calls pop with
\* empty hands.
TypeOK ==
  /\ fresh \subseteq Items
  /\ queue \in Seq(Items)
  /\ closed \in BOOLEAN
  /\ high_water_mark \in Nat
  /\ pc \in [Threads -> {"idle", "lock", "wait", "notify",
                         "notify_empty", "notify_full"}]
  /\ held \in [Producers \cup Consumers -> Items \cup {NoItem}]
  /\ \A t \in Producers \cup Consumers :
        pc[t] \notin {"notify_empty", "notify_full"}
  /\ \A k \in Closers : pc[k] \in {"idle", "notify_empty", "notify_full"}
  /\ \A p \in Producers : held[p] # NoItem <=> pc[p] \in {"lock", "wait"}
  /\ \A c \in Consumers : pc[c] \in {"lock", "wait"} => held[c] = NoItem

At(S, l) == {t \in S : pc[t] = l}

\* No consumer sleeps through an item.  While some pop is asleep on not_empty_,
\* an open queue holds no more items than there are notifications still to be
\* sent by push plus pops that are awake and will take one; after close, the
\* notify_all on not_empty_ is still to come.
NoLostItemWakeup ==
  Asleep(Consumers) # {} =>
    IF closed
    THEN At(Closers, "notify_empty") # {}
    ELSE Len(queue) <= Cardinality(At(Producers, "notify"))
                         + Cardinality(At(Consumers, "lock"))

\* No producer sleeps through a free slot.  While some push is asleep on
\* not_full_, an open queue has no more free slots than there are
\* notifications still to be sent by pop plus pushes that are awake; after
\* close, the notify_all on not_full_ is still to come.
NoLostSlotWakeup ==
  Asleep(Producers) # {} =>
    IF closed
    THEN At(Closers, "notify_empty") \cup At(Closers, "notify_full") # {}
    ELSE Capacity <= Len(queue) + Cardinality(At(Consumers, "notify"))
                                + Cardinality(At(Producers, "lock"))

\* The queue never holds more than capacity_ items, and high_water_mark_ is
\* never below what it holds nor above what it could hold.
OccupancyBounded ==
  Len(queue) <= high_water_mark /\ high_water_mark <= Capacity

\* Items are moved, never copied: an item is queued once, or owned by one
\* thread, or not pushed yet.
SingleOwner ==
  /\ \A i, j \in DOMAIN queue : queue[i] = queue[j] => i = j
  /\ \A i \in DOMAIN queue : queue[i] \notin fresh
  /\ \A t \in Producers \cup Consumers : held[t] # NoItem =>
       /\ held[t] \notin fresh
       /\ \A i \in DOMAIN queue : queue[i] # held[t]
       /\ \A u \in Producers \cup Consumers : held[u] = held[t] => u = t

\* close() releases every thread that sleeps in push or pop, whatever the
\* other threads do.
CloseReleasesSleepers ==
  \A t \in Producers \cup Consumers :
    (closed /\ pc[t] = "wait") ~> pc[t] = "idle"

\* Where a thread is in its call, as a caller sees it: the call takes effect in
\* the critical section in which its predicate holds.
CallAt(l) == IF l \in {"lock", "wait"} THEN "called"
             ELSE IF l = "notify" THEN "done" ELSE "idle"

op == [t \in Producers \cup Consumers |-> CallAt(pc[t])]

Abstract == INSTANCE FifoQueue WITH op <- op

\* The monitor implements the atomic queue: push and pop take effect at one
\* instant, and the blocked calls the atomic queue lets proceed do proceed.
ImplementsFifoQueue == Abstract!Spec
==============================================================================
