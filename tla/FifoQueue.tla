------------------------------ MODULE FifoQueue ------------------------------
(***************************************************************************)
(* What BoundedQueue<T> promises its callers, without mutex, condition     *)
(* variables or wake-ups: a bounded FIFO whose push and pop each take      *)
(* effect at one instant between the call and the return, and which can be *)
(* closed once and then drained.  BoundedQueue is shown to implement it;   *)
(* HttpServer is built on it.                                              *)
(***************************************************************************)
EXTENDS Naturals, Sequences

CONSTANTS Producers, Consumers, Items, Capacity, NoItem

VARIABLES
  fresh,    \* items no push has been called with
  queue,    \* queue_: the accepted items, oldest first
  closed,   \* closed_
  op,       \* per thread: "idle", "called" (not yet in effect) or "done"
  held      \* the item a thread owns: push's argument, pop's result

vars == <<fresh, queue, closed, op, held>>

Callers == Producers \cup Consumers

Init ==
  /\ fresh = Items
  /\ queue = <<>>
  /\ closed = FALSE
  /\ op = [t \in Callers |-> "idle"]
  /\ held = [t \in Callers |-> NoItem]

\* push(v) is entered: the item is moved into the parameter.
PushCall(p, v) ==
  /\ op[p] = "idle" /\ v \in fresh
  /\ fresh' = fresh \ {v}
  /\ held' = [held EXCEPT ![p] = v]
  /\ op' = [op EXCEPT ![p] = "called"]
  /\ UNCHANGED <<queue, closed>>

\* Seeded fault: the bound is not tested.
PushInsertUnbounded(p) ==
  /\ op[p] = "called" /\ ~closed
  /\ queue' = Append(queue, held[p])
  /\ held' = [held EXCEPT ![p] = NoItem]
  /\ op' = [op EXCEPT ![p] = "done"]
  /\ UNCHANGED <<fresh, closed>>

\* push returns true: only an open queue with room accepts the item.
PushInsert(p) ==
  /\ op[p] = "called" /\ ~closed /\ Len(queue) < Capacity
  /\ queue' = Append(queue, held[p])
  /\ held' = [held EXCEPT ![p] = NoItem]
  /\ op' = [op EXCEPT ![p] = "done"]
  /\ UNCHANGED <<fresh, closed>>

\* push returns false: only a closed queue refuses, and the item is destroyed.
PushReject(p) ==
  /\ op[p] = "called" /\ closed
  /\ held' = [held EXCEPT ![p] = NoItem]
  /\ op' = [op EXCEPT ![p] = "idle"]
  /\ UNCHANGED <<fresh, queue, closed>>

PopCall(c) ==
  /\ op[c] = "idle" /\ held[c] = NoItem
  /\ op' = [op EXCEPT ![c] = "called"]
  /\ UNCHANGED <<fresh, queue, closed, held>>

\* pop returns the oldest item, also from a closed queue.
PopTake(c) ==
  /\ op[c] = "called" /\ queue # <<>>
  /\ held' = [held EXCEPT ![c] = Head(queue)]
  /\ queue' = Tail(queue)
  /\ op' = [op EXCEPT ![c] = "done"]
  /\ UNCHANGED <<fresh, closed>>

\* pop returns nullopt: only a closed queue that has been drained does.
PopEmpty(c) ==
  /\ op[c] = "called" /\ closed /\ queue = <<>>
  /\ op' = [op EXCEPT ![c] = "idle"]
  /\ UNCHANGED <<fresh, queue, closed, held>>

Return(t) ==
  /\ op[t] = "done"
  /\ op' = [op EXCEPT ![t] = "idle"]
  /\ UNCHANGED <<fresh, queue, closed, held>>

\* The consumer destroys the item it obtained.
Discard(c) ==
  /\ op[c] = "idle" /\ held[c] # NoItem
  /\ held' = [held EXCEPT ![c] = NoItem]
  /\ UNCHANGED <<fresh, queue, closed, op>>

Close ==
  /\ closed' = TRUE
  /\ UNCHANGED <<fresh, queue, op, held>>

Next ==
  \/ \E p \in Producers :
       \/ \E v \in Items : PushCall(p, v)
       \/ PushInsert(p) \/ PushReject(p)
  \/ \E c \in Consumers :
       PopCall(c) \/ PopTake(c) \/ PopEmpty(c) \/ Discard(c)
  \/ \E t \in Callers : Return(t)
  \/ Close

\* Some blocked push proceeds while there is room and some blocked pop while
\* there are items (not a particular one: the queue makes no such promise);
\* every blocked call proceeds once the queue is closed.
Fairness ==
  /\ WF_vars(\E p \in Producers : PushInsert(p))
  /\ WF_vars(\E c \in Consumers : PopTake(c))
  /\ \A p \in Producers : WF_vars(PushReject(p))
  /\ \A c \in Consumers : WF_vars(PopEmpty(c))
  /\ \A t \in Callers : WF_vars(Return(t))

SafeSpec == Init /\ [][Next]_vars

Spec == SafeSpec /\ Fairness
==============================================================================
