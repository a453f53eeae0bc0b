------------------------------- MODULE Service -------------------------------
(***************************************************************************)
(* What the server promises the clients that connect to it, without        *)
(* threads, queue, pipe or counters: connections are accepted while there  *)
(* is room, wait in the order in which they were accepted, and each is     *)
(* served once by one of the workers.  A shutdown refuses at most the      *)
(* connection accepted last, after which no other is accepted, and the     *)
(* process ends only when everybody else has been served.  HttpServer is   *)
(* shown to implement it.                                                  *)
(***************************************************************************)
EXTENDS Naturals, Sequences

CONSTANTS Clients, Workers, Capacity, NoClient

VARIABLES
  fresh,      \* clients not accepted yet
  waiting,    \* accepted and waiting for a worker, oldest first
  serving,    \* the client of each worker
  fate,       \* what became of each client
  stopping,   \* a shutdown has begun
  ended       \* the server is gone

vars == <<fresh, waiting, serving, fate, stopping, ended>>

Init ==
  /\ fresh = Clients
  /\ waiting = <<>>
  /\ serving = [w \in Workers |-> NoClient]
  /\ fate = [c \in Clients |-> "pending"]
  /\ stopping = FALSE
  /\ ended = FALSE

NoneRefused == \A c \in Clients : fate[c] # "refused"

\* One connection more than the queue holds is accepted before the acceptor waits.
Accept(c) ==
  /\ c \in fresh /\ Len(waiting) <= Capacity /\ NoneRefused /\ ~ended
  /\ fresh' = fresh \ {c}
  /\ waiting' = Append(waiting, c)
  /\ UNCHANGED <<serving, fate, stopping, ended>>

\* A free worker turns to the connection that has waited longest.
Begin(w) ==
  /\ waiting # <<>> /\ serving[w] = NoClient
  /\ serving' = [serving EXCEPT ![w] = Head(waiting)]
  /\ waiting' = Tail(waiting)
  /\ UNCHANGED <<fresh, fate, stopping, ended>>

Finish(w) ==
  /\ serving[w] # NoClient
  /\ \E how \in {"served", "failed"} : fate' = [fate EXCEPT ![serving[w]] = how]
  /\ serving' = [serving EXCEPT ![w] = NoClient]
  /\ UNCHANGED <<fresh, waiting, stopping, ended>>

\* Only the newest connection, only in a shutdown, and only one.
Refuse ==
  /\ stopping /\ waiting # <<>> /\ NoneRefused
  /\ fate' = [fate EXCEPT ![waiting[Len(waiting)]] = "refused"]
  /\ waiting' = SubSeq(waiting, 1, Len(waiting) - 1)
  /\ UNCHANGED <<fresh, serving, stopping, ended>>

Stop ==
  /\ stopping' = TRUE
  /\ UNCHANGED <<fresh, waiting, serving, fate, ended>>

\* The process ends when nobody waits and nobody is being served.
End ==
  /\ stopping /\ ~ended /\ waiting = <<>> /\ \A w \in Workers : serving[w] = NoClient
  /\ ended' = TRUE
  /\ UNCHANGED <<fresh, waiting, serving, fate, stopping>>

Next ==
  \/ \E c \in Clients : Accept(c)
  \/ \E w \in Workers : Begin(w) \/ Finish(w)
  \/ Refuse \/ Stop \/ End

\* A waiting connection gets a worker, a connection that is being served comes
\* to its end, and a shutdown with nobody left ends the process.
Fairness ==
  /\ WF_vars(\E w \in Workers : Begin(w))
  /\ \A w \in Workers : WF_vars(Finish(w))
  /\ WF_vars(End)

SafeSpec == Init /\ [][Next]_vars

Spec == SafeSpec /\ Fairness
==============================================================================
