------------------------ MODULE HttpServerCountProofs -------------------------
(*****************************************************************************)
(* The server counters against the places of the descriptors: what each      *)
(* counter says at every moment, and what they add up to at the end.         *)
(*****************************************************************************)
EXTENDS HttpServerProofs, WellFoundedInduction

\* How many workers are where, and how a step of one of them changes that.

At(f, L) == {w \in Workers : f[w] \in L}

\* When one worker moves, only its old and its new place count differently.
LEMMA MoveCount ==
  ASSUME NEW f \in [Workers -> WorkerPlaces], NEW w \in Workers, NEW l, NEW L
  PROVE  /\ Cardinality(At([f EXCEPT ![w] = l], L)) =
              Cardinality(At(f, L)) - One(f[w] \in L) + One(l \in L)
         /\ Cardinality(At(f, L)) \in Nat
         /\ Cardinality(At([f EXCEPT ![w] = l], L)) \in Nat
<1> DEFINE g == [f EXCEPT ![w] = l]
           A == At(f, L)
           B == At(g, L)
<1>1. IsFiniteSet(A) /\ IsFiniteSet(B)
  <2>1. A \in SUBSET Workers /\ B \in SUBSET Workers
    BY DEF At
  <2> QED BY <2>1, ServerAssumption, FS_Subset, Zenon
<1>2. Cardinality(A) \in Nat /\ Cardinality(B) \in Nat
  BY <1>1, FS_CardinalityType
<1>3. /\ w \in A <=> f[w] \in L
      /\ w \in B <=> l \in L
      /\ B \ {w} = A \ {w}
  BY DEF At
<1>4. /\ Cardinality(A \ {w}) = IF w \in A THEN Cardinality(A) - 1 ELSE Cardinality(A)
      /\ Cardinality(B \ {w}) = IF w \in B THEN Cardinality(B) - 1 ELSE Cardinality(B)
  BY <1>1, FS_RemoveElement, Zenon
<1> HIDE DEF A, B
<1>5. Cardinality(B) = Cardinality(A) - One(f[w] \in L) + One(l \in L)
  <2>1. One(f[w] \in L) = One(w \in A) /\ One(l \in L) = One(w \in B)
    BY <1>3 DEF One
  <2>2. \A a, b \in Nat, p, q \in BOOLEAN :
          (IF p THEN a - 1 ELSE a) = (IF q THEN b - 1 ELSE b)
            => b = a - (IF p THEN 1 ELSE 0) + (IF q THEN 1 ELSE 0)
    OBVIOUS
  <2>3. (w \in A) \in BOOLEAN /\ (w \in B) \in BOOLEAN
    OBVIOUS
  <2>4. (IF w \in A THEN Cardinality(A) - 1 ELSE Cardinality(A))
          = (IF w \in B THEN Cardinality(B) - 1 ELSE Cardinality(B))
    BY <1>3, <1>4
  <2> QED BY <1>2, <2>1, <2>2, <2>3, <2>4 DEF One
<1> QED BY <1>2, <1>5 DEF A, B

\* The numbers that have to balance: the counters,
Accepted == count["accepted"]
Dispatched == count["dispatched"]
Rejected == count["rejected"]
InService == count["active"]
Completed == count["completed"]
Errors == count["worker_errors"]
\* the connections with the acceptor, in the queue and closed,
WithAcceptor == One(pc \in {"push", "pushed", "refused"})
Pushed == One(pc = "pushed")
Refused == One(pc = "refused")
Waiting == Len(queue)
Closed == Cardinality(gone)
\* and the workers by their place.
Busy == Cardinality(At(wpc, {"popped", "serving", "unwound"}))
Active == Cardinality(At(wpc, {"serving", "recorded", "unwound", "closing"}))
Recorded == Cardinality(At(wpc, {"recorded"}))
Unwound == Cardinality(At(wpc, {"unwound"}))

Counts ==
  /\ Accepted \in Int /\ Dispatched \in Int /\ Rejected \in Int
  /\ InService \in Int /\ Completed \in Int /\ Errors \in Int

Numbers ==
  /\ WithAcceptor \in Int /\ Pushed \in Int /\ Refused \in Int
  /\ Waiting \in Nat /\ Closed \in Nat
  /\ Busy \in Nat /\ Active \in Nat /\ Recorded \in Nat /\ Unwound \in Nat

Balanced ==
  /\ Accepted = Dispatched + Rejected + WithAcceptor
  /\ Dispatched + Pushed = Waiting + Completed + Errors + Busy
  /\ InService = Active
  /\ Closed + Recorded <= Completed + Errors + Rejected + Unwound + Refused

Tallied == count \in [Counters -> Int] /\ Balanced

\* The counters are numbers,
LEMMA CountsAlways ==
  ASSUME count \in [Counters -> Int]
  PROVE  Counts
  BY DEF Counts, Counters, Accepted, Dispatched, Rejected, InService, Completed, Errors

\* and so are the others.
LEMMA NumbersAlways ==
  ASSUME ControlTypes, Ownership
  PROVE  Numbers
<1>1. PICK w \in Workers : TRUE
  BY ServerAssumption
<1>2. \A L : Cardinality(At(wpc, L)) \in Nat
  <2>1. wpc \in [Workers -> WorkerPlaces]
    BY DEF ControlTypes
  <2> QED BY <2>1, MoveCount, Zenon
<1>3. IsFiniteSet(gone)
  BY ServerAssumption, FS_Subset DEF Ownership, OwnerTypes
<1>4. Closed \in Nat
  BY <1>3, FS_CardinalityType DEF Closed
<1>5. Waiting \in Nat
  BY LenProperties DEF Waiting, Ownership, OwnerTypes
<1>6. WithAcceptor \in Int /\ Pushed \in Int /\ Refused \in Int
  BY DEF WithAcceptor, Pushed, Refused, One
<1>7. Busy \in Nat /\ Active \in Nat /\ Recorded \in Nat /\ Unwound \in Nat
  BY <1>2 DEF Busy, Active, Recorded, Unwound
<1> QED BY <1>4, <1>5, <1>6, <1>7 DEF Numbers

\* What a step does to them: a worker moves, with these differences,
Moved(busy, active, recorded, unwound) ==
  /\ Busy' = Busy + busy /\ Active' = Active + active
  /\ Recorded' = Recorded + recorded /\ Unwound' = Unwound + unwound

\* the places it leaves and enters say which,
Shifted(from, to) ==
  /\ Busy' = Busy - One(from \in {"popped", "serving", "unwound"})
                  + One(to \in {"popped", "serving", "unwound"})
  /\ Active' = Active - One(from \in {"serving", "recorded", "unwound", "closing"})
                      + One(to \in {"serving", "recorded", "unwound", "closing"})
  /\ Recorded' = Recorded - One(from \in {"recorded"}) + One(to \in {"recorded"})
  /\ Unwound' = Unwound - One(from \in {"unwound"}) + One(to \in {"unwound"})

\* A worker at one place goes to another.
LEMMA WorkerMoves ==
  ASSUME ControlTypes, NEW w \in Workers, NEW from, wpc[w] = from,
         NEW to, wpc' = [wpc EXCEPT ![w] = to]
  PROVE  Shifted(from, to)
<1>1. wpc \in [Workers -> WorkerPlaces]
  BY DEF ControlTypes
<1>2. ASSUME NEW L
      PROVE  Cardinality(At(wpc', L)) = Cardinality(At(wpc, L)) - One(from \in L) + One(to \in L)
  <2>1. /\ Cardinality(At([wpc EXCEPT ![w] = to], L)) =
             Cardinality(At(wpc, L)) - One(wpc[w] \in L) + One(to \in L)
        /\ Cardinality(At(wpc, L)) \in Nat
        /\ Cardinality(At([wpc EXCEPT ![w] = to], L)) \in Nat
    BY <1>1, MoveCount, Zenon
  <2> QED BY <2>1, Zenon
<1> QED BY <1>2, Zenon DEF Shifted, Busy, Active, Recorded, Unwound

\* one counter is incremented,
Counted(accepted, dispatched, rejected, inService, completed, errors) ==
  /\ count' \in [Counters -> Int]
  /\ Accepted' = Accepted + accepted /\ Dispatched' = Dispatched + dispatched
  /\ Rejected' = Rejected + rejected /\ InService' = InService + inService
  /\ Completed' = Completed + completed /\ Errors' = Errors + errors

\* or the acceptor moves.
Stands(withAcceptor, pushed, refused) ==
  /\ WithAcceptor' = WithAcceptor + withAcceptor
  /\ Pushed' = Pushed + pushed /\ Refused' = Refused + refused

\* One addition to one of the atomic counters.
LEMMA AddCounts ==
  ASSUME count \in [Counters -> Int], NEW n \in Int, NEW k \in Counters, Add(k, n)
  PROVE  /\ count' \in [Counters -> Int]
         /\ \A j \in Counters : count'[j] = IF j = k THEN count[j] + n ELSE count[j]
  BY DEF Add

\* record_result adds to the completed connections, to the requests and to the one
\* reason; no reason has the name of another counter.
LEMMA RecordCounts ==
  ASSUME count \in [Counters -> Int], NEW r \in Results, record_result(r)
  PROVE  /\ count' \in [Counters -> Int]
         /\ count'["completed"] = count["completed"] + 1
         /\ count'["requests"] = count["requests"] + r.requests_served
         /\ \A x \in Reasons : count'[x] = count[x] + One(r.reason = x)
         /\ \A j \in {"accepted", "dispatched", "rejected", "active", "worker_errors"} :
              count'[j] = count[j]
<1>1. PICK k \in Reasons, n \in Int : k = r.reason /\ n = r.requests_served
  BY ServerAssumption
<1>2. k \notin {"accepted", "dispatched", "rejected", "active", "completed", "requests",
               "worker_errors"}
  BY ServerAssumption
<1>3. count' = [count EXCEPT !["completed"] = @ + 1, !["requests"] = @ + n, ![k] = @ + 1]
  BY <1>1 DEF record_result
<1>4. "completed" \in Counters /\ "requests" \in Counters /\ k \in Counters
  BY DEF Counters
<1>5. count' \in [Counters -> Int]
  BY <1>2, <1>3, <1>4
<1>6. \A j \in Counters : count'[j] = IF j = k THEN count[j] + 1
                                      ELSE IF j = "requests" THEN count[j] + n
                                      ELSE IF j = "completed" THEN count[j] + 1
                                      ELSE count[j]
  BY <1>2, <1>3, <1>4
<1>7. \A x \in Reasons : count'[x] = count[x] + One(r.reason = x)
  <2> SUFFICES ASSUME NEW x \in Reasons PROVE count'[x] = count[x] + One(k = x)
    BY <1>1
  <2>1. x \in Counters /\ count[x] \in Int /\ x # "requests" /\ x # "completed"
    BY ServerAssumption DEF Counters
  <2> QED BY <1>6, <2>1 DEF One
<1>8. count'["requests"] = count["requests"] + r.requests_served
  BY <1>1, <1>2, <1>4, <1>6
<1> QED BY <1>2, <1>5, <1>6, <1>7, <1>8 DEF Counters

\* Closing a descriptor makes at most one more closed descriptor.
LEMMA GoneGrows ==
  ASSUME Ownership, NEW x, gone' = gone \cup {x}
  PROVE  \E d \in 0..1 : Closed' = Closed + d
<1>1. IsFiniteSet(gone)
  BY ServerAssumption, FS_Subset DEF Ownership, OwnerTypes
<1>2. /\ IsFiniteSet(gone')
      /\ Cardinality(gone') = IF x \in gone THEN Cardinality(gone) ELSE Cardinality(gone) + 1
  BY <1>1, FS_AddElement
<1>3. Cardinality(gone) \in Nat /\ Cardinality(gone') \in Nat
  BY <1>1, <1>2, FS_CardinalityType
<1> QED BY <1>2, <1>3 DEF Closed

\* Steps that leave one kind of number alone.
LEMMA NobodyMoves ==
  ASSUME Numbers, UNCHANGED wpc
  PROVE  Moved(0, 0, 0, 0)
<1>1. Busy' = Busy /\ Active' = Active /\ Recorded' = Recorded /\ Unwound' = Unwound
  BY DEF Busy, Active, Recorded, Unwound
<1> QED BY <1>1 DEF Moved, Numbers

\* No counter changes.
LEMMA NothingCounted ==
  ASSUME Counts, count \in [Counters -> Int], UNCHANGED count
  PROVE  Counted(0, 0, 0, 0, 0, 0)
<1>1. /\ Accepted' = Accepted /\ Dispatched' = Dispatched /\ Rejected' = Rejected
      /\ InService' = InService /\ Completed' = Completed /\ Errors' = Errors
  BY DEF Accepted, Dispatched, Rejected, InService, Completed, Errors
<1> QED BY <1>1 DEF Counted, Counts

\* The acceptor stays where it is.
LEMMA AcceptorStands ==
  ASSUME Numbers, UNCHANGED pc
  PROVE  Stands(0, 0, 0)
<1>1. WithAcceptor' = WithAcceptor /\ Pushed' = Pushed /\ Refused' = Refused
  BY DEF WithAcceptor, Pushed, Refused
<1> QED BY <1>1 DEF Stands, Numbers

\* Steps that none of the numbers see.
LEMMA QuietStep ==
  ASSUME Tallied, UNCHANGED <<count, wpc, queue, gone>>,
         pc' = pc \/ (/\ pc \notin {"push", "pushed", "refused"}
                      /\ pc' \notin {"push", "pushed", "refused"})
  PROVE  Tallied'
<1>1. WithAcceptor' = WithAcceptor /\ Pushed' = Pushed /\ Refused' = Refused
  BY DEF WithAcceptor, Pushed, Refused, One
<1>2. /\ Accepted' = Accepted /\ Dispatched' = Dispatched /\ Rejected' = Rejected
      /\ InService' = InService /\ Completed' = Completed /\ Errors' = Errors
  BY DEF Accepted, Dispatched, Rejected, InService, Completed, Errors
<1>3. /\ Waiting' = Waiting /\ Closed' = Closed
      /\ Busy' = Busy /\ Active' = Active /\ Recorded' = Recorded /\ Unwound' = Unwound
  BY DEF Waiting, Closed, Busy, Active, Recorded, Unwound
<1> QED BY <1>1, <1>2, <1>3 DEF Tallied, Balanced

\* Every step keeps the balance.
LEMMA TalliedStep ==
  ASSUME ControlTypes, Ownership, Tallied, [Next]_vars
  PROVE  Tallied'
<1> USE DEF queueVars, kernelVars, mainVars, workerVars, historyVars
<1>0. Numbers /\ Counts
  BY NumbersAlways, CountsAlways DEF Tallied
<1>1. ASSUME NEW w \in Workers, StartWorker(w) PROVE Tallied'
  <2>1. Moved(0, 0, 0, 0)
    <3>1. wpc[w] = "unborn" /\ wpc' = [wpc EXCEPT ![w] = "pop"]
      BY <1>1 DEF StartWorker
    <3>2. Shifted("unborn", "pop")
      BY <3>1, WorkerMoves, Zenon
    <3> QED BY <1>0, <3>2 DEF Shifted, Moved, Numbers, One
  <2>2. Counted(0, 0, 0, 0, 0, 0)
    BY <1>1, <1>0, NothingCounted DEF StartWorker, Tallied
  <2>3. Stands(0, 0, 0)
    BY <1>1, <1>0, AcceptorStands DEF StartWorker
  <2>4. Waiting' = Waiting /\ Closed' = Closed
    BY <1>1 DEF StartWorker, Waiting, Closed
  <2> QED BY <1>0, <2>1, <2>2, <2>3, <2>4, SMTT(30)
    DEF Tallied, Balanced, Moved, Counted, Stands, Numbers, Counts
<1>2. CASE StartFails
  BY <1>2, QuietStep DEF StartFails
<1>3. CASE MakeShutdownPipe
  BY <1>3, QuietStep DEF MakeShutdownPipe
<1>4. CASE InstallHandler
  BY <1>4, QuietStep DEF InstallHandler
<1>5. CASE InstallFails
  BY <1>5, QuietStep DEF InstallFails
<1>6. CASE LoopTest
  BY <1>6, QuietStep DEF LoopTest
<1>7. CASE Poll
  BY <1>7, QuietStep DEF Poll
<1>8. ASSUME NEW c \in Clients, Accept(c) PROVE Tallied'
  <2>1. Moved(0, 0, 0, 0)
    BY <1>8, <1>0, NobodyMoves DEF Accept
  <2>2. Counted(1, 0, 0, 0, 0, 0)
    <3>1. Add("accepted", 1) /\ "accepted" \in Counters
      BY <1>8 DEF Accept, Counters
    <3>2. /\ count' \in [Counters -> Int]
          /\ \A j \in Counters : count'[j] = IF j = "accepted" THEN count[j] + 1 ELSE count[j]
      BY <3>1, AddCounts DEF Tallied
    <3> QED BY <1>0, <3>2, SMTT(30)
      DEF Counted, Counts, Counters, Accepted, Dispatched, Rejected, InService,
          Completed, Errors
  <2>3. Stands(1, 0, 0)
    BY <1>8 DEF Accept, Stands, WithAcceptor, Pushed, Refused, One
  <2>4. Waiting' = Waiting /\ Closed' = Closed
    BY <1>8 DEF Accept, Queue!PushCall, Waiting, Closed
  <2> QED BY <1>0, <2>1, <2>2, <2>3, <2>4, SMTT(30)
    DEF Tallied, Balanced, Moved, Counted, Stands, Numbers, Counts
<1>9. CASE DispatchPush
  <2>1. Moved(0, 0, 0, 0)
    BY <1>9, <1>0, NobodyMoves DEF DispatchPush
  <2>2. Counted(0, 0, 0, 0, 0, 0)
    BY <1>9, <1>0, NothingCounted DEF DispatchPush, Tallied
  <2>3. Stands(0, 1, 0)
    BY <1>9 DEF DispatchPush, Stands, WithAcceptor, Pushed, Refused, One
  <2>4. Waiting' = Waiting + 1 /\ Closed' = Closed
    <3>1. queue \in Seq(Clients) /\ held[Acceptor] \in Clients
      BY <1>9 DEF DispatchPush, Queue!PushInsert, Ownership, OwnerTypes, Threads
    <3>2. queue' = Append(queue, held[Acceptor]) /\ UNCHANGED gone
      BY <1>9 DEF DispatchPush, Queue!PushInsert
    <3>3. Len(queue') = Len(queue) + 1
      BY <3>1, <3>2, AppendProperties
    <3> QED BY <3>2, <3>3 DEF Waiting, Closed
  <2> QED BY <1>0, <2>1, <2>2, <2>3, <2>4, SMTT(30)
    DEF Tallied, Balanced, Moved, Counted, Stands, Numbers, Counts
<1>10. CASE DispatchCount
  <2>1. Moved(0, 0, 0, 0)
    BY <1>10, <1>0, NobodyMoves DEF DispatchCount
  <2>2. Counted(0, 1, 0, 0, 0, 0)
    <3>1. Add("dispatched", 1) /\ "dispatched" \in Counters
      BY <1>10 DEF DispatchCount, Counters
    <3>2. /\ count' \in [Counters -> Int]
          /\ \A j \in Counters : count'[j] = IF j = "dispatched" THEN count[j] + 1 ELSE count[j]
      BY <3>1, AddCounts DEF Tallied
    <3> QED BY <1>0, <3>2, SMTT(30)
      DEF Counted, Counts, Counters, Accepted, Dispatched, Rejected, InService,
          Completed, Errors
  <2>3. Stands(-1, -1, 0)
    BY <1>10 DEF DispatchCount, Stands, WithAcceptor, Pushed, Refused, One
  <2>4. Waiting' = Waiting /\ Closed' = Closed
    BY <1>10 DEF DispatchCount, Queue!Return, Waiting, Closed
  <2> QED BY <1>0, <2>1, <2>2, <2>3, <2>4, SMTT(30)
    DEF Tallied, Balanced, Moved, Counted, Stands, Numbers, Counts
<1>11. CASE DispatchRefused
  <2>1. Moved(0, 0, 0, 0)
    BY <1>11, <1>0, NobodyMoves DEF DispatchRefused
  <2>2. Counted(0, 0, 0, 0, 0, 0)
    BY <1>11, <1>0, NothingCounted DEF DispatchRefused, Tallied
  <2>3. Stands(0, 0, 1)
    BY <1>11 DEF DispatchRefused, Stands, WithAcceptor, Pushed, Refused, One
  <2>4. PICK d \in 0..1 : Closed' = Closed + d
    BY <1>11, GoneGrows, Zenon DEF DispatchRefused
  <2>5. Waiting' = Waiting
    BY <1>11 DEF DispatchRefused, Queue!PushReject, Waiting
  <2> QED BY <1>0, <2>1, <2>2, <2>3, <2>4, <2>5, SMTT(30)
    DEF Tallied, Balanced, Moved, Counted, Stands, Numbers, Counts
<1>12. CASE RefusedCount
  <2>1. Moved(0, 0, 0, 0)
    BY <1>12, <1>0, NobodyMoves, Zenon DEF RefusedCount
  <2>2. Counted(0, 0, 1, 0, 0, 0)
    <3>1. Add("rejected", 1) /\ "rejected" \in Counters
      BY <1>12, Zenon DEF RefusedCount, Counters
    <3>2. /\ count' \in [Counters -> Int]
          /\ \A j \in Counters : count'[j] = IF j = "rejected" THEN count[j] + 1 ELSE count[j]
      BY <3>1, AddCounts DEF Tallied
    <3> QED BY <1>0, <3>2, SMTT(30)
      DEF Counted, Counts, Counters, Accepted, Dispatched, Rejected, InService,
          Completed, Errors
  <2>3. Stands(-1, 0, -1)
    <3>1. pc = "refused" /\ pc' \in {"loop", "request"}
      BY <1>12, Zenon DEF RefusedCount
    <3> QED BY <3>1 DEF Stands, WithAcceptor, Pushed, Refused, One
  <2>4. Waiting' = Waiting /\ Closed' = Closed
    BY <1>12, Zenon DEF RefusedCount, Waiting, Closed
  <2> QED BY <1>0, <2>1, <2>2, <2>3, <2>4, SMTT(30)
    DEF Tallied, Balanced, Moved, Counted, Stands, Numbers, Counts
<1>13. ASSUME NEW t \in Requesters \cup {Acceptor}, Exchange(t) PROVE Tallied'
  BY <1>13, QuietStep DEF Exchange
<1>14. ASSUME NEW t \in Requesters \cup {Acceptor}, CloseQueue(t) PROVE Tallied'
  BY <1>14, QuietStep DEF CloseQueue, Queue!Close
<1>15. ASSUME NEW t \in Requesters \cup {Acceptor}, WritePipe(t) PROVE Tallied'
  BY <1>15, QuietStep DEF WritePipe
<1>16. CASE RequestReturns
  BY <1>16, QuietStep DEF RequestReturns
<1>17. CASE PoolClose
  BY <1>17, QuietStep DEF PoolClose, Queue!Close
<1>18. CASE Join
  BY <1>18, QuietStep DEF Join
<1>19. CASE ForgetNotificationFd
  BY <1>19, QuietStep DEF ForgetNotificationFd
<1>20. CASE Report
  BY <1>20, QuietStep DEF Report
<1>21. CASE Destroy
  BY <1>21, QuietStep DEF Destroy
<1>22. CASE Exit
  BY <1>22, QuietStep DEF Exit
<1>23. ASSUME NEW w \in Workers, PopCall(w) PROVE Tallied'
  <2>1. Moved(0, 0, 0, 0)
    <3>1. wpc[w] = "pop" /\ wpc' = [wpc EXCEPT ![w] = "popping"]
      BY <1>23 DEF PopCall, WorkerAt, WorkerGoes
    <3>2. Shifted("pop", "popping")
      BY <3>1, WorkerMoves, Zenon
    <3> QED BY <1>0, <3>2 DEF Shifted, Moved, Numbers, One
  <2>2. Counted(0, 0, 0, 0, 0, 0)
    BY <1>23, <1>0, NothingCounted DEF PopCall, Tallied
  <2>3. Stands(0, 0, 0)
    BY <1>23, <1>0, AcceptorStands DEF PopCall
  <2>4. Waiting' = Waiting /\ Closed' = Closed
    BY <1>23 DEF PopCall, Queue!PopCall, Waiting, Closed
  <2> QED BY <1>0, <2>1, <2>2, <2>3, <2>4, SMTT(30)
    DEF Tallied, Balanced, Moved, Counted, Stands, Numbers, Counts
<1>24. ASSUME NEW w \in Workers, PopTake(w) PROVE Tallied'
  <2>1. Moved(1, 0, 0, 0)
    <3>1. wpc[w] = "popping" /\ wpc' = [wpc EXCEPT ![w] = "popped"]
      BY <1>24 DEF PopTake, WorkerAt, WorkerGoes
    <3>2. Shifted("popping", "popped")
      BY <3>1, WorkerMoves, Zenon
    <3> QED BY <1>0, <3>2 DEF Shifted, Moved, Numbers, One
  <2>2. Counted(0, 0, 0, 0, 0, 0)
    BY <1>24, <1>0, NothingCounted DEF PopTake, Tallied
  <2>3. Stands(0, 0, 0)
    BY <1>24, <1>0, AcceptorStands DEF PopTake
  <2>4. Waiting' = Waiting - 1 /\ Closed' = Closed
    BY <1>24, HeadTailProperties, LenProperties, EmptySeq
    DEF PopTake, Queue!PopTake, Ownership, OwnerTypes, Waiting, Closed
  <2> QED BY <1>0, <2>1, <2>2, <2>3, <2>4, SMTT(30)
    DEF Tallied, Balanced, Moved, Counted, Stands, Numbers, Counts
<1>25. ASSUME NEW w \in Workers, PopEmpty(w) PROVE Tallied'
  <2>1. Moved(0, 0, 0, 0)
    <3>1. wpc[w] = "popping" /\ wpc' = [wpc EXCEPT ![w] = "exited"]
      BY <1>25 DEF PopEmpty, WorkerAt, WorkerGoes
    <3>2. Shifted("popping", "exited")
      BY <3>1, WorkerMoves, Zenon
    <3> QED BY <1>0, <3>2 DEF Shifted, Moved, Numbers, One
  <2>2. Counted(0, 0, 0, 0, 0, 0)
    BY <1>25, <1>0, NothingCounted DEF PopEmpty, Tallied
  <2>3. Stands(0, 0, 0)
    BY <1>25, <1>0, AcceptorStands DEF PopEmpty
  <2>4. Waiting' = Waiting /\ Closed' = Closed
    BY <1>25 DEF PopEmpty, Queue!PopEmpty, Waiting, Closed
  <2> QED BY <1>0, <2>1, <2>2, <2>3, <2>4, SMTT(30)
    DEF Tallied, Balanced, Moved, Counted, Stands, Numbers, Counts
<1>26. ASSUME NEW w \in Workers, ServeBegin(w) PROVE Tallied'
  <2>1. Moved(0, 1, 0, 0)
    <3>1. wpc[w] = "popped" /\ wpc' = [wpc EXCEPT ![w] = "serving"]
      BY <1>26 DEF ServeBegin, WorkerAt, WorkerGoes
    <3>2. Shifted("popped", "serving")
      BY <3>1, WorkerMoves, Zenon
    <3> QED BY <1>0, <3>2 DEF Shifted, Moved, Numbers, One
  <2>2. Counted(0, 0, 0, 1, 0, 0)
    <3>1. Add("active", 1) /\ "active" \in Counters
      BY <1>26 DEF ServeBegin, Counters
    <3>2. /\ count' \in [Counters -> Int]
          /\ \A j \in Counters : count'[j] = IF j = "active" THEN count[j] + 1 ELSE count[j]
      BY <3>1, AddCounts DEF Tallied
    <3> QED BY <1>0, <3>2, SMTT(30)
      DEF Counted, Counts, Counters, Accepted, Dispatched, Rejected, InService,
          Completed, Errors
  <2>3. Stands(0, 0, 0)
    BY <1>26, <1>0, AcceptorStands DEF ServeBegin
  <2>4. Waiting' = Waiting /\ Closed' = Closed
    BY <1>26 DEF ServeBegin, Queue!Return, Waiting, Closed
  <2> QED BY <1>0, <2>1, <2>2, <2>3, <2>4, SMTT(30)
    DEF Tallied, Balanced, Moved, Counted, Stands, Numbers, Counts
<1>27. ASSUME NEW w \in Workers, NEW r \in Results, ServeReturns(w, r) PROVE Tallied'
  <2>1. Moved(-1, 0, 1, 0)
    <3>1. wpc[w] = "serving" /\ wpc' = [wpc EXCEPT ![w] = "recorded"]
      BY <1>27 DEF ServeReturns, WorkerAt, WorkerGoes
    <3>2. Shifted("serving", "recorded")
      BY <3>1, WorkerMoves, Zenon
    <3> QED BY <1>0, <3>2 DEF Shifted, Moved, Numbers, One
  <2>2. Counted(0, 0, 0, 0, 1, 0)
    BY <1>27, <1>0, RecordCounts
    DEF ServeReturns, Tallied, Counted, Counts, Accepted, Dispatched, Rejected,
        InService, Completed, Errors
  <2>3. Stands(0, 0, 0)
    BY <1>27, <1>0, AcceptorStands DEF ServeReturns
  <2>4. Waiting' = Waiting /\ Closed' = Closed
    BY <1>27 DEF ServeReturns, Waiting, Closed
  <2> QED BY <1>0, <2>1, <2>2, <2>3, <2>4, SMTT(30)
    DEF Tallied, Balanced, Moved, Counted, Stands, Numbers, Counts
<1>28. ASSUME NEW w \in Workers, CloseServed(w) PROVE Tallied'
  <2>1. Moved(0, 0, -1, 0)
    <3>1. wpc[w] = "recorded" /\ wpc' = [wpc EXCEPT ![w] = "closing"]
      BY <1>28 DEF CloseServed, WorkerAt, WorkerGoes
    <3>2. Shifted("recorded", "closing")
      BY <3>1, WorkerMoves, Zenon
    <3> QED BY <1>0, <3>2 DEF Shifted, Moved, Numbers, One
  <2>2. Counted(0, 0, 0, 0, 0, 0)
    BY <1>28, <1>0, NothingCounted DEF CloseServed, Tallied
  <2>3. Stands(0, 0, 0)
    BY <1>28, <1>0, AcceptorStands DEF CloseServed
  <2>4. PICK d \in 0..1 : Closed' = Closed + d
    BY <1>28, GoneGrows, Zenon DEF CloseServed
  <2>5. Waiting' = Waiting
    BY <1>28 DEF CloseServed, Queue!Discard, Waiting
  <2> QED BY <1>0, <2>1, <2>2, <2>3, <2>4, <2>5, SMTT(30)
    DEF Tallied, Balanced, Moved, Counted, Stands, Numbers, Counts
<1>29. ASSUME NEW w \in Workers, ServeThrows(w) PROVE Tallied'
  <2>1. Moved(0, 0, 0, 1)
    <3>1. wpc[w] = "serving" /\ wpc' = [wpc EXCEPT ![w] = "unwound"]
      BY <1>29 DEF ServeThrows, WorkerAt, WorkerGoes
    <3>2. Shifted("serving", "unwound")
      BY <3>1, WorkerMoves, Zenon
    <3> QED BY <1>0, <3>2 DEF Shifted, Moved, Numbers, One
  <2>2. Counted(0, 0, 0, 0, 0, 0)
    BY <1>29, <1>0, NothingCounted DEF ServeThrows, Tallied
  <2>3. Stands(0, 0, 0)
    BY <1>29, <1>0, AcceptorStands DEF ServeThrows
  <2>4. PICK d \in 0..1 : Closed' = Closed + d
    BY <1>29, GoneGrows DEF ServeThrows
  <2>5. Waiting' = Waiting
    BY <1>29 DEF ServeThrows, Queue!Discard, Waiting
  <2> QED BY <1>0, <2>1, <2>2, <2>3, <2>4, <2>5, SMTT(30)
    DEF Tallied, Balanced, Moved, Counted, Stands, Numbers, Counts
<1>30. ASSUME NEW w \in Workers, CatchError(w) PROVE Tallied'
  <2>1. Moved(-1, 0, 0, -1)
    <3>1. wpc[w] = "unwound" /\ wpc' = [wpc EXCEPT ![w] = "closing"]
      BY <1>30 DEF CatchError, WorkerAt, WorkerGoes
    <3>2. Shifted("unwound", "closing")
      BY <3>1, WorkerMoves, Zenon
    <3> QED BY <1>0, <3>2 DEF Shifted, Moved, Numbers, One
  <2>2. Counted(0, 0, 0, 0, 0, 1)
    <3>1. Add("worker_errors", 1) /\ "worker_errors" \in Counters
      BY <1>30 DEF CatchError, Counters
    <3>2. /\ count' \in [Counters -> Int]
          /\ \A j \in Counters : count'[j] = IF j = "worker_errors" THEN count[j] + 1 ELSE count[j]
      BY <3>1, AddCounts DEF Tallied
    <3> QED BY <1>0, <3>2, SMTT(30)
      DEF Counted, Counts, Counters, Accepted, Dispatched, Rejected, InService,
          Completed, Errors
  <2>3. Stands(0, 0, 0)
    BY <1>30, <1>0, AcceptorStands DEF CatchError
  <2>4. Waiting' = Waiting /\ Closed' = Closed
    BY <1>30 DEF CatchError, Waiting, Closed
  <2> QED BY <1>0, <2>1, <2>2, <2>3, <2>4, SMTT(30)
    DEF Tallied, Balanced, Moved, Counted, Stands, Numbers, Counts
<1>31. ASSUME NEW w \in Workers, ServeEnd(w) PROVE Tallied'
  <2>1. Moved(0, -1, 0, 0)
    <3>1. wpc[w] = "closing" /\ wpc' = [wpc EXCEPT ![w] = "pop"]
      BY <1>31 DEF ServeEnd, WorkerAt, WorkerGoes
    <3>2. Shifted("closing", "pop")
      BY <3>1, WorkerMoves, Zenon
    <3> QED BY <1>0, <3>2 DEF Shifted, Moved, Numbers, One
  <2>2. Counted(0, 0, 0, -1, 0, 0)
    <3>1. Add("active", -1) /\ "active" \in Counters
      BY <1>31 DEF ServeEnd, Counters
    <3>2. /\ count' \in [Counters -> Int]
          /\ \A j \in Counters : count'[j] = IF j = "active" THEN count[j] + (-1) ELSE count[j]
      BY <3>1, AddCounts DEF Tallied
    <3> QED BY <1>0, <3>2, SMTT(30)
      DEF Counted, Counts, Counters, Accepted, Dispatched, Rejected, InService,
          Completed, Errors
  <2>3. Stands(0, 0, 0)
    BY <1>31, <1>0, AcceptorStands DEF ServeEnd
  <2>4. Waiting' = Waiting /\ Closed' = Closed
    BY <1>31 DEF ServeEnd, Waiting, Closed
  <2> QED BY <1>0, <2>1, <2>2, <2>3, <2>4, SMTT(30)
    DEF Tallied, Balanced, Moved, Counted, Stands, Numbers, Counts
<1>32. ASSUME NEW c \in Clients, Connect(c) PROVE Tallied'
  BY <1>32, QuietStep DEF Connect
<1>33. CASE SignalMain
  BY <1>33, QuietStep DEF SignalMain
<1>34. CASE SystemCallFails
  BY <1>34, QuietStep DEF SystemCallFails
<1>35. ASSUME NEW w \in Workers, SignalWorker(w) PROVE Tallied'
  BY <1>35, QuietStep DEF SignalWorker
<1>36. ASSUME NEW w \in Workers, HandlerOnWorkerWrites(w) PROVE Tallied'
  BY <1>36, QuietStep DEF HandlerOnWorkerWrites
<1>37. CASE UNCHANGED vars
  BY <1>37, QuietStep DEF vars
<1> QED BY NextCases, <1>1, <1>2, <1>3, <1>4, <1>5, <1>6, <1>7, <1>8, <1>9, <1>10, <1>11,
           <1>12, <1>13, <1>14, <1>15, <1>16, <1>17, <1>18, <1>19, <1>20, <1>21, <1>22,
           <1>23, <1>24, <1>25, <1>26, <1>27, <1>28, <1>29, <1>30, <1>31, <1>32, <1>33,
           <1>34, <1>35, <1>36, <1>37
  DEF Requests, WorkerSteps

\* All counters start at zero.
LEMMA TalliedInit == Init => Tallied
<1> SUFFICES ASSUME Init PROVE Tallied
  OBVIOUS
<1>1. \A L : "unborn" \notin L => At(wpc, L) = {}
  BY DEF Init, At
<1>2. Busy = 0 /\ Active = 0 /\ Recorded = 0 /\ Unwound = 0
  BY <1>1, FS_EmptySet DEF Busy, Active, Recorded, Unwound
<1>3. Closed = 0 /\ Waiting = 0
  BY FS_EmptySet DEF Init, Queue!Init, Closed, Waiting
<1>4. WithAcceptor = 0 /\ Pushed = 0 /\ Refused = 0
  BY DEF Init, WithAcceptor, Pushed, Refused, One
<1>5. /\ count \in [Counters -> Int]
      /\ Accepted = 0 /\ Dispatched = 0 /\ Rejected = 0
      /\ InService = 0 /\ Completed = 0 /\ Errors = 0
  BY DEF Init, Counters, Accepted, Dispatched, Rejected, InService, Completed, Errors
<1> QED BY <1>2, <1>3, <1>4, <1>5 DEF Tallied, Balanced

\* The balance is inductive, together with the types and ownership.
LEMMA TalliedCorrect == SafeSpec => [](ControlTypes /\ Ownership /\ Tallied)
<1>1. Init => ControlTypes /\ Ownership /\ Tallied
  BY ControlTypesInit, OwnershipInit, TalliedInit
<1>2. ControlTypes /\ Ownership /\ Tallied /\ [Next]_vars => (ControlTypes /\ Ownership /\ Tallied)'
  BY ControlTypesStep, OwnershipStep, TalliedStep
<1> QED BY <1>1, <1>2, PTL DEF SafeSpec

\* The counters balance between any two steps of any threads: an accepted
\* connection is with the acceptor, dispatched or rejected, and a dispatched one
\* waits, is served, or was counted once as completed or failed.
THEOREM CountersCorrect == SafeSpec => []CountersConserved
<1>1. Tallied => CountersConserved
  BY DEF Tallied, Balanced, CountersConserved, Accepted, Dispatched, Rejected, InService,
         Completed, Errors, WithAcceptor, Pushed, Waiting, Busy, Active, WorkersAt, At
<1> QED BY <1>1, TalliedCorrect, PTL

\* A connection whose end a client can see is in the counters, but for the moment
\* between unwinding and the catch handler, or a refused push and its count.
THEOREM EndCounted == SafeSpec => []EndIsCounted
<1>1. ControlTypes /\ Ownership /\ Tallied => EndIsCounted
  <2> SUFFICES ASSUME ControlTypes, Ownership, Tallied PROVE EndIsCounted
    OBVIOUS
  <2>1. Numbers /\ Counts
    BY NumbersAlways, CountsAlways DEF Tallied
  <2>2. Closed <= Completed + Errors + Rejected + Unwound + Refused
    BY <2>1 DEF Tallied, Balanced, Numbers, Counts
  <2> QED BY <2>2 DEF EndIsCounted, Closed, Completed, Errors, Rejected, Unwound, Refused,
                      WorkersAt, At
<1> QED BY <1>1, TalliedCorrect, PTL

-----------------------------------------------------------------------------
\* What the report says.

NoResult == [reason |-> "none", requests_served |-> 0]

\* A connection has a fate only once it is closed, or about to be by the worker
\* that has recorded its result; only a served one has a result.
Ledger ==
  /\ fate \in [Clients -> {"pending", "refused", "served", "failed"}]
  /\ result \in [Clients -> [reason : Reasons \cup {"none"}, requests_served : Nat]]
  /\ \A c \in Clients : fate[c] # "pending" /\ c \notin gone =>
       \E w \in Workers : held[w] = c /\ wpc[w] = "recorded"
  /\ \A c \in Clients : fate[c] # "served" => result[c] = NoResult

\* A connection without a result has served no request.
LEMMA NoRequests == NoResult.requests_served = 0
  BY DEF NoResult

\* What a thread still holds, other than a recorded connection, has no fate yet.
LEMMA HeldIsPending ==
  ASSUME Ownership, Ledger, NEW t \in Threads, held[t] # NoClient,
         t \in Workers => wpc[t] # "recorded"
  PROVE  held[t] \in Clients /\ fate[held[t]] = "pending" /\ result[held[t]] = NoResult
<1>1. held[t] \in Clients
  BY DEF Ownership, OwnerTypes
<1>2. held[t] \notin gone
  BY <1>1 DEF Ownership, Owned
<1>3. \A w \in Workers : held[w] = held[t] => w = t
  BY DEF Ownership, SingleOwner, Threads
<1> QED BY <1>1, <1>2, <1>3 DEF Ledger

\* Steps in which no connection meets its fate.
LEMMA LedgerKept ==
  ASSUME Ledger, UNCHANGED <<fate, result>>, gone \subseteq gone',
         \A w \in Workers : wpc[w] = "recorded" /\ held[w] \notin gone' =>
           wpc'[w] = "recorded" /\ held'[w] = held[w]
  PROVE  Ledger'
<1>1. ASSUME NEW c \in Clients, fate'[c] # "pending", c \notin gone'
      PROVE  \E w \in Workers : held'[w] = c /\ wpc'[w] = "recorded"
  BY <1>1 DEF Ledger
<1> QED BY <1>1 DEF Ledger

\* The main thread touches no worker's descriptor.
LEMMA MainHolds ==
  ASSUME Ownership, NEW x, held' = held \/ held' = [held EXCEPT ![Acceptor] = x]
  PROVE  \A w \in Workers : held'[w] = held[w]
  BY ServerAssumption DEF Ownership, OwnerTypes, Threads

\* Every step keeps the ledger.
LEMMA LedgerStep ==
  ASSUME ControlTypes, Ownership, Custody, Ledger, [Next]_vars
  PROVE  Ledger'
<1> USE DEF queueVars, kernelVars, mainVars, workerVars, historyVars
<1>0. /\ wpc \in [Workers -> WorkerPlaces] /\ Acceptor \notin Workers
      /\ held \in [Threads -> Clients \cup {NoClient}] /\ NoClient \notin Clients
  BY ServerAssumption DEF ControlTypes, Ownership, OwnerTypes
<1>1. ASSUME NEW w \in Workers, StartWorker(w) PROVE Ledger'
  <2>1. /\ UNCHANGED <<fate, result, gone, held>>
        /\ wpc[w] = "unborn" /\ wpc' = [wpc EXCEPT ![w] = "pop"]
    BY <1>1 DEF StartWorker
  <2> QED BY <1>0, <2>1, LedgerKept
<1>2. CASE UNCHANGED <<fate, result, gone, held, wpc>>
  BY <1>2, LedgerKept
<1>3. CASE StartFails \/ MakeShutdownPipe \/ InstallHandler \/ InstallFails \/ LoopTest \/ Poll
  BY <1>2, <1>3, Zenon
  DEF StartFails, MakeShutdownPipe, InstallHandler, InstallFails, LoopTest, Poll
<1>4. ASSUME NEW c \in Clients, Accept(c) PROVE Ledger'
  <2>1. UNCHANGED <<fate, result, gone, wpc>> /\ held' = [held EXCEPT ![Acceptor] = c]
    BY <1>4 DEF Accept, Queue!PushCall
  <2>2. \A w \in Workers : held'[w] = held[w]
    BY <2>1, MainHolds, Zenon
  <2> QED BY <2>1, <2>2, LedgerKept
<1>5. CASE DispatchPush
  <2>1. UNCHANGED <<fate, result, gone, wpc>> /\ held' = [held EXCEPT ![Acceptor] = NoClient]
    BY <1>5 DEF DispatchPush, Queue!PushInsert
  <2>2. \A w \in Workers : held'[w] = held[w]
    BY <2>1, MainHolds, Zenon
  <2> QED BY <2>1, <2>2, LedgerKept
<1>6. CASE DispatchCount \/ RefusedCount
  BY <1>2, <1>6, Zenon DEF DispatchCount, RefusedCount, Queue!Return
<1>7. CASE DispatchRefused
  <2> DEFINE d == held[Acceptor]
  <2>1. /\ gone' = gone \cup {d} /\ fate' = [fate EXCEPT ![d] = "refused"]
        /\ held' = [held EXCEPT ![Acceptor] = NoClient] /\ UNCHANGED <<result, wpc>>
        /\ pc = "push"
    BY <1>7 DEF DispatchRefused, Queue!PushReject
  <2>2. d \in Clients /\ fate[d] = "pending" /\ result[d] = NoResult
    BY <1>0, <2>1, HeldIsPending DEF Custody, Threads
  <2>3. \A w \in Workers : held'[w] = held[w]
    BY <2>1, MainHolds, Zenon
  <2> HIDE DEF d
  <2>4. /\ fate' \in [Clients -> {"pending", "refused", "served", "failed"}]
        /\ \A c \in Clients : fate'[c] = IF c = d THEN "refused" ELSE fate[c]
    BY <2>1, <2>2 DEF Ledger
  <2>5. ASSUME NEW c \in Clients, fate'[c] # "pending", c \notin gone'
        PROVE  \E w \in Workers : held'[w] = c /\ wpc'[w] = "recorded"
    BY <2>1, <2>3, <2>4, <2>5 DEF Ledger
  <2>6. \A c \in Clients : fate'[c] # "served" => result'[c] = NoResult
    BY <2>1, <2>2, <2>4 DEF Ledger
  <2> QED BY <2>1, <2>4, <2>5, <2>6 DEF Ledger
<1>8. ASSUME NEW t \in Requesters \cup {Acceptor}, Requests(t) PROVE Ledger'
  BY <1>2, <1>8 DEF Requests, Exchange, CloseQueue, WritePipe, Queue!Close
<1>9. CASE RequestReturns \/ PoolClose \/ Join \/ ForgetNotificationFd \/ Report
  BY <1>2, <1>9, Zenon
  DEF RequestReturns, PoolClose, Join, ForgetNotificationFd, Report, Queue!Close
<1>10. CASE Destroy \/ Exit
  BY <1>2, <1>10 DEF Destroy, Exit
<1>11. ASSUME NEW w \in Workers, WorkerSteps(w) PROVE Ledger'
  <2>1. ASSUME NEW l, wpc' = [wpc EXCEPT ![w] = l], wpc[w] # "recorded",
               NEW x, held' = held \/ held' = [held EXCEPT ![w] = x]
        PROVE  \A v \in Workers : wpc[v] = "recorded" =>
                 wpc'[v] = "recorded" /\ held'[v] = held[v]
    BY <1>0, <2>1 DEF Threads
  <2>2. CASE PopCall(w) \/ PopEmpty(w) \/ ServeBegin(w) \/ CatchError(w) \/ ServeEnd(w)
    <3>1. UNCHANGED <<fate, result, gone, held>> /\ wpc[w] # "recorded"
      BY <2>2, Zenon
      DEF PopCall, PopEmpty, ServeBegin, CatchError, ServeEnd, WorkerAt,
          Queue!PopCall, Queue!PopEmpty, Queue!Return
    <3>2. PICK l : wpc' = [wpc EXCEPT ![w] = l]
      BY <2>2, Zenon DEF PopCall, PopEmpty, ServeBegin, CatchError, ServeEnd, WorkerGoes
    <3> QED BY <2>1, <3>1, <3>2, LedgerKept
  <2>3. CASE PopTake(w)
    <3>1. /\ UNCHANGED <<fate, result, gone>> /\ wpc[w] # "recorded"
          /\ held' = [held EXCEPT ![w] = Head(queue)] /\ wpc' = [wpc EXCEPT ![w] = "popped"]
      BY <2>3 DEF PopTake, WorkerAt, WorkerGoes, Queue!PopTake
    <3> QED BY <2>1, <3>1, LedgerKept
  <2>4. ASSUME NEW r \in Results, ServeReturns(w, r) PROVE Ledger'
    <3> DEFINE d == held[w]
    <3>1. /\ wpc[w] = "serving" /\ wpc' = [wpc EXCEPT ![w] = "recorded"]
          /\ fate' = [fate EXCEPT ![d] = "served"] /\ result' = [result EXCEPT ![d] = r]
          /\ UNCHANGED <<held, gone>>
      BY <2>4, Zenon DEF ServeReturns, WorkerAt, WorkerGoes
    <3>2. d \in Clients /\ fate[d] = "pending" /\ result[d] = NoResult
      BY <1>0, <3>1, HeldIsPending DEF Custody, Threads
    <3>3. r \in [reason : Reasons \cup {"none"}, requests_served : Nat]
      BY ServerAssumption
    <3>4. /\ fate' \in [Clients -> {"pending", "refused", "served", "failed"}]
          /\ \A c \in Clients : fate'[c] = IF c = d THEN "served" ELSE fate[c]
      BY <3>1, <3>2 DEF Ledger
    <3>5. /\ result' \in [Clients -> [reason : Reasons \cup {"none"}, requests_served : Nat]]
          /\ \A c \in Clients : result'[c] = IF c = d THEN r ELSE result[c]
      BY <3>1, <3>2, <3>3 DEF Ledger
    <3>6. \A v \in Workers : wpc'[v] = IF v = w THEN "recorded" ELSE wpc[v]
      BY <1>0, <3>1
    <3>7. ASSUME NEW c \in Clients, fate'[c] # "pending", c \notin gone'
          PROVE  \E v \in Workers : held'[v] = c /\ wpc'[v] = "recorded"
      <4>1. CASE c = d
        BY <3>1, <3>6, <4>1
      <4>2. CASE c # d
        BY <3>1, <3>4, <3>6, <3>7, <4>2 DEF Ledger
      <4> QED BY <4>1, <4>2
    <3>8. \A c \in Clients : fate'[c] # "served" => result'[c] = NoResult
      BY <3>4, <3>5 DEF Ledger
    <3> QED BY <3>4, <3>5, <3>7, <3>8, Zenon DEF Ledger
  <2>5. CASE CloseServed(w)
    <3>1. /\ UNCHANGED <<fate, result>> /\ gone' = gone \cup {held[w]}
          /\ held' = [held EXCEPT ![w] = NoClient] /\ wpc' = [wpc EXCEPT ![w] = "closing"]
      BY <2>5 DEF CloseServed, WorkerGoes, Queue!Discard
    <3>2. \A v \in Workers : v # w => wpc'[v] = wpc[v] /\ held'[v] = held[v]
      BY <1>0, <3>1 DEF Threads
    <3> QED BY <3>1, <3>2, LedgerKept
  <2>6. CASE ServeThrows(w)
    <3> DEFINE d == held[w]
    <3>1. /\ wpc[w] = "serving" /\ wpc' = [wpc EXCEPT ![w] = "unwound"]
          /\ fate' = [fate EXCEPT ![d] = "failed"] /\ UNCHANGED result
          /\ gone' = gone \cup {d} /\ held' = [held EXCEPT ![w] = NoClient]
      BY <2>6, Zenon DEF ServeThrows, WorkerAt, WorkerGoes, Queue!Discard
    <3>2. d \in Clients /\ fate[d] = "pending" /\ result[d] = NoResult
      BY <1>0, <3>1, HeldIsPending DEF Custody, Threads
    <3>3. /\ fate' \in [Clients -> {"pending", "refused", "served", "failed"}]
          /\ \A c \in Clients : fate'[c] = IF c = d THEN "failed" ELSE fate[c]
      BY <3>1, <3>2 DEF Ledger
    <3>4. \A v \in Workers : v # w => wpc'[v] = wpc[v] /\ held'[v] = held[v]
      BY <1>0, <3>1 DEF Threads
    <3>5. ASSUME NEW c \in Clients, fate'[c] # "pending", c \notin gone'
          PROVE  \E v \in Workers : held'[v] = c /\ wpc'[v] = "recorded"
      <4>1. c # d /\ c \notin gone /\ fate[c] # "pending"
        BY <3>1, <3>3, <3>5
      <4>2. PICK v \in Workers : held[v] = c /\ wpc[v] = "recorded"
        BY <4>1 DEF Ledger
      <4> QED BY <3>1, <3>4, <4>1, <4>2
    <3>6. \A c \in Clients : fate'[c] # "served" => result'[c] = NoResult
      BY <3>1, <3>2, <3>3 DEF Ledger
    <3> QED BY <3>1, <3>3, <3>5, <3>6, Zenon DEF Ledger
  <2> QED BY <1>11, <2>2, <2>3, <2>4, <2>5, <2>6 DEF WorkerSteps
<1>12. ASSUME NEW c \in Clients, Connect(c) PROVE Ledger'
  BY <1>2, <1>12 DEF Connect
<1>13. CASE SignalMain \/ SystemCallFails
  BY <1>2, <1>13 DEF SignalMain, SystemCallFails
<1>14. ASSUME NEW w \in Workers, SignalWorker(w) \/ HandlerOnWorkerWrites(w) PROVE Ledger'
  BY <1>2, <1>14 DEF SignalWorker, HandlerOnWorkerWrites
<1>15. CASE UNCHANGED vars
  BY <1>2, <1>15 DEF vars
<1> QED BY NextCases, <1>1, <1>3, <1>4, <1>5, <1>6, <1>7, <1>8, <1>9, <1>10, <1>11,
           <1>12, <1>13, <1>14, <1>15

Pick(s) == CHOOSE x \in s : TRUE

\* h has the sum of f over every set of clients, one client after the other.
Sums(f, h) ==
  h = [s \in SUBSET Clients |->
         IF s = {} THEN 0 ELSE f[Pick(s)].requests_served + h[s \ {Pick(s)}]]

SumOfRequests(f) == (CHOOSE h : Sums(f, h))[Clients]

\* It is what the report compares the counter with.
LEMMA RequestsAreTotal ==
  \A f : MapThenSumSet(LAMBDA c : f[c].requests_served, Clients) = SumOfRequests(f)
  BY DEF MapThenSumSet, MapThenFoldSet, SumOfRequests, Sums, Pick

\* Induction over the size of sets of clients: if a property of numbers fails
\* somewhere it fails at a number whose predecessor has it.
LEMMA LeastFailure ==
  ASSUME NEW T, T \subseteq Nat, T # {}
  PROVE  \E n \in T : \A m \in Nat : m < n => m \notin T
  <1> DEFINE R == OpToRel(<, Nat)
  <1>1. \A x, y \in Nat : x < y => <<x, y>> \in R
    BY Zenon DEF OpToRel
  <1>2. IsWellFoundedOn(R, Nat)
    BY NatLessThanWellFounded, Zenon
  <1> HIDE DEF R
  <1>3. PICK n \in T : \A m \in T : ~(<<m, n>> \in R)
    BY <1>2, WFMin, Zenon
  <1> QED
    BY <1>1, <1>3, Zenon

\* Taking one client out.
LEMMA PickFacts ==
  ASSUME NEW s \in SUBSET Clients
  PROVE  /\ IsFiniteSet(s) /\ Cardinality(s) \in Nat
         /\ s # {} => /\ Pick(s) \in s /\ s \ {Pick(s)} \in SUBSET Clients
                      /\ Cardinality(s) > 0
                      /\ Cardinality(s \ {Pick(s)}) = Cardinality(s) - 1
  <1>1. IsFiniteSet(s) /\ Cardinality(s) \in Nat
    BY ServerAssumption, FS_Subset, FS_CardinalityType
  <1>2. ASSUME s # {}
        PROVE  Pick(s) \in s
    BY <1>2, Zenon DEF Pick
  <1>3. s # {} => Cardinality(s) # 0
    BY <1>1, FS_EmptySet
  <1>4. ASSUME s # {}
        PROVE  Cardinality(s \ {Pick(s)}) = Cardinality(s) - 1
    BY <1>1, <1>2, <1>4, FS_RemoveElement, Zenon
  <1> QED
    BY <1>1, <1>2, <1>3, <1>4

\* There is such a function.
LEMMA SumsExist ==
  ASSUME NEW f
  PROVE  \E h : Sums(f, h)
  <1> DEFINE
        E(h, s) == IF s = {} THEN 0 ELSE f[Pick(s)].requests_served + h[s \ {Pick(s)}]
        Up(n, h) == /\ h = [s \in SUBSET Clients |-> h[s]]
                    /\ \A s \in SUBSET Clients : Cardinality(s) <= n => h[s] = E(h, s)
        T == {n \in Nat : ~\E h : Up(n, h)}
  <1>1. T = {}
    <2> SUFFICES ASSUME T # {} PROVE FALSE
      BY Zenon
    <2>1. T \subseteq Nat
      OBVIOUS
    <2> HIDE DEF T
    <2>2. PICK n \in T : \A m \in Nat : m < n => m \notin T
      BY <2>1, LeastFailure, Zenon
    <2>3. n \in Nat /\ ~\E h : Up(n, h)
      BY Zenon DEF T
    <2> HIDE DEF Up
    <2>4. PICK g : n # 0 => Up(n - 1, g)
      <3>1. n # 0 => n - 1 \in Nat /\ n - 1 < n
        BY <2>3
      <3>2. n # 0 => \E h : Up(n - 1, h)
        BY <2>2, <3>1 DEF T
      <3> QED
        BY <3>2
    <2> USE DEF Up
    <2> DEFINE k == [s \in SUBSET Clients |-> E(g, s)]
    <2>5. ASSUME NEW s \in SUBSET Clients, Cardinality(s) <= n
          PROVE  k[s] = E(k, s)
      <3>1. CASE s = {}
        BY <3>1
      <3>2. CASE s # {}
        <4> DEFINE u == s \ {Pick(s)}
        <4>1. u \in SUBSET Clients /\ Cardinality(u) <= n - 1 /\ n # 0
          BY <2>3, <2>5, <3>2, PickFacts
        <4>2. g[u] = E(g, u)
          BY <2>4, <4>1, Zenon
        <4>3. k[u] = g[u]
          BY <4>1, <4>2
        <4> HIDE DEF u
        <4>4. k[s] = f[Pick(s)].requests_served + g[u]
          BY <3>2 DEF u
        <4>5. E(k, s) = f[Pick(s)].requests_served + k[u]
          BY <3>2 DEF u
        <4> QED
          BY <4>3, <4>4, <4>5, Zenon
      <3> QED
        BY <3>1, <3>2, Zenon
    <2>6. Up(n, k)
      BY <2>5, Zenon
    <2> QED
      BY <2>3, <2>6, Zenon
  <1>2. Cardinality(Clients) \in Nat
    BY ServerAssumption, FS_CardinalityType
  <1>3. PICK h : Up(Cardinality(Clients), h)
    BY <1>1, <1>2, Zenon
  <1>4. ASSUME NEW s \in SUBSET Clients
        PROVE  h[s] = E(h, s)
    <2>1. Cardinality(s) <= Cardinality(Clients)
      BY ServerAssumption, FS_Subset
    <2> QED
      BY <1>3, <2>1, Zenon
  <1>5. h = [s \in SUBSET Clients |-> E(h, s)]
    BY <1>3, <1>4, Zenon
  <1> QED
    BY <1>5 DEF Sums

\* One client's requests more make the sum that much greater.
LEMMA SumGrows ==
  ASSUME NEW f \in [Clients -> [reason : Reasons \cup {"none"}, requests_served : Nat]],
         NEW g \in [Clients -> [reason : Reasons \cup {"none"}, requests_served : Nat]],
         NEW c \in Clients, \A d \in Clients : d # c => g[d] = f[d],
         f[c].requests_served = 0
  PROVE  /\ SumOfRequests(f) \in Int
         /\ SumOfRequests(g) = SumOfRequests(f) + g[c].requests_served
  <1> DEFINE F == CHOOSE h : Sums(f, h)
             G == CHOOSE h : Sums(g, h)
  <1>1. Sums(f, F) /\ Sums(g, G)
    BY SumsExist
  <1> HIDE DEF F, G
  <1>2. ASSUME NEW s \in SUBSET Clients
        PROVE  /\ s = {} => F[s] = 0 /\ G[s] = 0
               /\ s # {} => /\ F[s] = f[Pick(s)].requests_served + F[s \ {Pick(s)}]
                            /\ G[s] = g[Pick(s)].requests_served + G[s \ {Pick(s)}]
    BY <1>1, Zenon DEF Sums
  <1> DEFINE Ok(s) == /\ F[s] \in Int
                      /\ G[s] = F[s] + (IF c \in s THEN g[c].requests_served ELSE 0)
             T == {n \in Nat : \E s \in SUBSET Clients : Cardinality(s) = n /\ ~Ok(s)}
  <1>3. T = {}
    <2> SUFFICES ASSUME T # {} PROVE FALSE
      OBVIOUS
    <2>1. T \subseteq Nat
      OBVIOUS
    <2> HIDE DEF T
    <2>2. PICK n \in T : \A m \in Nat : m < n => m \notin T
      BY <2>1, LeastFailure, Zenon
    <2>3. PICK s \in SUBSET Clients : Cardinality(s) = n /\ ~Ok(s)
      BY <2>2, Zenon DEF T
    <2>4. CASE s = {}
      <3>1. F[s] = 0 /\ G[s] = 0
        BY <1>2, <2>4, Zenon
      <3>2. c \notin s
        BY <2>4
      <3> QED
        BY <2>3, <3>1, <3>2
    <2>5. CASE s # {}
      <3> DEFINE x == Pick(s)
                 u == s \ {x}
      <3>1. x \in s /\ u \in SUBSET Clients /\ Cardinality(u) \in Nat /\ Cardinality(u) < n
        <4>1. /\ Cardinality(s) = n /\ n \in Nat /\ x \in s /\ u \in SUBSET Clients
              /\ Cardinality(u) = Cardinality(s) - 1
          BY <2>1, <2>3, <2>5, PickFacts, Zenon
        <4>2. Cardinality(u) \in Nat
          BY <4>1, PickFacts
        <4> HIDE DEF x, u
        <4> QED
          BY <4>1, <4>2
      <3> HIDE DEF Ok, u
      <3>2. Ok(u)
        BY <2>2, <3>1 DEF T
      <3> USE DEF Ok, u
      <3>3. F[s] = f[x].requests_served + F[u] /\ G[s] = g[x].requests_served + G[u]
        BY <1>2, <2>5
      <3>4. f[x].requests_served \in Int /\ g[x].requests_served \in Int
        BY <3>1
      <3>5. x # c => g[x] = f[x]
        BY <3>1
      <3>6. c \in u <=> c \in s /\ x # c
        OBVIOUS
      <3> HIDE DEF x, u
      <3>7. Ok(s)
        <4> DEFINE a == F[u]
                   b == f[x].requests_served
                   d == g[x].requests_served
        <4>1. a \in Int /\ b \in Int /\ d \in Int /\ F[s] = b + a
          BY <3>2, <3>3, <3>4, Zenon
        <4>2. CASE x = c
          <5>1. b = 0 /\ c \in s /\ c \notin u
            BY <3>1, <3>6, <4>2, Zenon
          <5>2. G[u] = a + 0 /\ G[s] = d + G[u] /\ d = g[c].requests_served
            BY <3>2, <3>3, <4>2, <5>1, Zenon
          <5> HIDE DEF a, b, d
          <5>3. F[s] \in Int /\ G[s] = F[s] + d
            BY <4>1, <5>1, <5>2
          <5> QED
            BY <5>1, <5>2, <5>3, Zenon
        <4>3. CASE x # c
          <5> DEFINE e == IF c \in s THEN g[c].requests_served ELSE 0
          <5>1. G[u] = a + e /\ G[s] = b + G[u]
            BY <3>2, <3>3, <3>5, <3>6, <4>3, Zenon
          <5>2. e \in Int
            OBVIOUS
          <5> HIDE DEF a, b, d, e
          <5>3. F[s] \in Int /\ G[s] = F[s] + e
            BY <4>1, <5>1, <5>2
          <5> QED
            BY <5>3, Zenon DEF e
        <4> QED
          BY <4>2, <4>3, Zenon
      <3> QED
        BY <2>3, <3>7, Zenon
    <2> QED
      BY <2>4, <2>5
  <1>4. Cardinality(Clients) \in Nat
    BY ServerAssumption, FS_CardinalityType
  <1>5. Ok(Clients)
    BY <1>3, <1>4
  <1> QED
    BY <1>5 DEF SumOfRequests, F, G

\* Nothing adds up to nothing.
LEMMA SumOfNone ==
  ASSUME NEW f, \A c \in Clients : f[c].requests_served = 0
  PROVE  SumOfRequests(f) = 0
  <1> DEFINE F == CHOOSE h : Sums(f, h)
  <1>1. Sums(f, F)
    BY SumsExist
  <1> HIDE DEF F
  <1> DEFINE T == {n \in Nat : \E s \in SUBSET Clients : Cardinality(s) = n /\ F[s] # 0}
  <1>2. T = {}
    <2> SUFFICES ASSUME T # {} PROVE FALSE
      OBVIOUS
    <2>1. T \subseteq Nat
      OBVIOUS
    <2> HIDE DEF T
    <2>2. PICK n \in T : \A m \in Nat : m < n => m \notin T
      BY <2>1, LeastFailure, Zenon
    <2>3. PICK s \in SUBSET Clients : Cardinality(s) = n /\ F[s] # 0
      BY <2>2 DEF T
    <2>4. s # {}
      BY <1>1, <2>3 DEF Sums
    <2> DEFINE x == Pick(s)
               u == s \ {x}
    <2>5. x \in s /\ u \in SUBSET Clients /\ Cardinality(u) \in Nat /\ Cardinality(u) < n
      <3>1. /\ Cardinality(s) = n /\ n \in Nat /\ x \in s /\ u \in SUBSET Clients
            /\ Cardinality(u) = Cardinality(s) - 1
        BY <2>1, <2>3, <2>4, PickFacts
      <3>2. Cardinality(u) \in Nat
        BY <3>1, PickFacts
      <3> HIDE DEF x, u
      <3> QED
        BY <3>1, <3>2
    <2>6. F[u] = 0
      BY <2>2, <2>5 DEF T
    <2>7. F[s] = f[x].requests_served + F[u]
      BY <1>1, <2>4, Zenon DEF Sums
    <2> QED
      BY <2>3, <2>5, <2>6, <2>7
  <1>3. Cardinality(Clients) \in Nat
    BY ServerAssumption, FS_CardinalityType
  <1> QED
    BY <1>2, <1>3, Zenon DEF SumOfRequests, F

\* The connections with a fate, and those that ended for a reason.
Met(x) == {c \in Clients : fate[c] = x}
EndedFor(r) == {c \in Clients : result[c].reason = r}

\* The counters against the connections themselves.
Totals ==
  /\ Accepted = Cardinality(Clients \ fresh)
  /\ Completed = Cardinality(Met("served"))
  /\ Errors + Unwound = Cardinality(Met("failed"))
  /\ \A r \in Reasons : count[r] = Cardinality(EndedFor(r))
  /\ count["requests"] = SumOfRequests(result)

\* Two sets that agree on all clients but one.
LEMMA OneDiffers ==
  ASSUME NEW A \in SUBSET Clients, NEW B \in SUBSET Clients, NEW c, A \ {c} = B \ {c}
  PROVE  /\ Cardinality(A) \in Nat /\ Cardinality(B) \in Nat
         /\ Cardinality(B) = Cardinality(A) - One(c \in A) + One(c \in B)
<1>1. IsFiniteSet(A) /\ IsFiniteSet(B)
  BY ServerAssumption, FS_Subset
<1>2. Cardinality(A) \in Nat /\ Cardinality(B) \in Nat
  BY <1>1, FS_CardinalityType
<1>3. /\ Cardinality(A \ {c}) = IF c \in A THEN Cardinality(A) - 1 ELSE Cardinality(A)
      /\ Cardinality(B \ {c}) = IF c \in B THEN Cardinality(B) - 1 ELSE Cardinality(B)
  BY <1>1, FS_RemoveElement
<1> DEFINE a == Cardinality(A)
           b == Cardinality(B)
<1>4. (IF c \in A THEN a - 1 ELSE a) = (IF c \in B THEN b - 1 ELSE b)
  BY <1>3
<1>5. a \in Nat /\ b \in Nat
  BY <1>2
<1> HIDE DEF a, b
<1>6. b = a - One(c \in A) + One(c \in B)
  BY <1>4, <1>5 DEF One
<1> QED BY <1>2, <1>6 DEF a, b

\* A connection meets its fate.
LEMMA OneFate ==
  ASSUME Ledger, NEW c \in Clients, fate[c] = "pending",
         NEW x \in {"refused", "served", "failed"}, fate' = [fate EXCEPT ![c] = x],
         NEW y \in {"served", "failed"}
  PROVE  /\ Cardinality(Met(y)) \in Nat
         /\ Cardinality(Met(y)') = Cardinality(Met(y)) + One(x = y)
<1>1. \A d \in Clients : fate'[d] = IF d = c THEN x ELSE fate[d]
  BY DEF Ledger
<1>2. /\ Met(y) \in SUBSET Clients /\ Met(y)' \in SUBSET Clients
      /\ Met(y) \ {c} = Met(y)' \ {c} /\ c \notin Met(y) /\ (c \in Met(y)' <=> x = y)
  BY <1>1 DEF Met
<1>3. /\ Cardinality(Met(y)) \in Nat
      /\ Cardinality(Met(y)') = Cardinality(Met(y)) - One(c \in Met(y)) + One(c \in Met(y)')
  BY <1>2, OneDiffers
<1>4. One(c \in Met(y)) = 0 /\ One(c \in Met(y)') = One(x = y)
  BY <1>2 DEF One
<1>5. One(x = y) \in Int
  BY DEF One
<1> QED BY <1>3, <1>4, <1>5

\* Steps that count nothing of this.
LEMMA TotalsKept ==
  ASSUME Totals, UNCHANGED <<fresh, fate, result>>, Unwound' = Unwound,
         \A k \in {"accepted", "completed", "worker_errors", "requests"} \cup Reasons :
           count'[k] = count[k]
  PROVE  Totals'
<1>1. Accepted' = Accepted /\ Completed' = Completed /\ Errors' = Errors
  BY DEF Accepted, Completed, Errors
<1>2. /\ Met("served")' = Met("served") /\ Met("failed")' = Met("failed")
      /\ \A r \in Reasons : EndedFor(r)' = EndedFor(r)
      /\ SumOfRequests(result)' = SumOfRequests(result)
  BY DEF Met, EndedFor, SumOfRequests, Sums
<1> QED BY <1>1, <1>2, Zenon DEF Totals

\* A step that adds to another counter, and moves a worker or none.
LEMMA OtherCounter ==
  ASSUME count \in [Counters -> Int], NEW n \in Int, NEW k \in {"dispatched", "rejected", "active"},
         Add(k, n)
  PROVE  \A j \in {"accepted", "completed", "worker_errors", "requests"} \cup Reasons :
           count'[j] = count[j]
<1>1. k \notin Reasons
  BY ServerAssumption
<1>2. \A j \in Counters : count'[j] = IF j = k THEN count[j] + n ELSE count[j]
  BY AddCounts DEF Counters
<1> QED BY <1>1, <1>2 DEF Counters

\* A worker that goes from one place to another, neither of them "unwound".
LEMMA UnwoundKept ==
  ASSUME ControlTypes, Ownership, NEW w \in Workers, NEW to, wpc' = [wpc EXCEPT ![w] = to],
         wpc[w] # "unwound", to # "unwound"
  PROVE  Unwound' = Unwound
<1>1. Shifted(wpc[w], to) /\ Numbers
  BY WorkerMoves, NumbersAlways, Zenon
<1>2. Unwound' = Unwound - One(wpc[w] \in {"unwound"}) + One(to \in {"unwound"})
  BY <1>1 DEF Shifted
<1> QED BY <1>1, <1>2 DEF One, Numbers

\* Every step keeps the totals.
LEMMA TotalsStep ==
  ASSUME ControlTypes, Ownership, Tallied, Custody, Ledger, Totals, [Next]_vars
  PROVE  Totals'
<1> USE DEF queueVars, kernelVars, mainVars, workerVars, historyVars
<1>0. /\ wpc \in [Workers -> WorkerPlaces] /\ held \in [Threads -> Clients \cup {NoClient}]
      /\ count \in [Counters -> Int] /\ Numbers
  BY NumbersAlways, Zenon DEF ControlTypes, Ownership, OwnerTypes, Tallied
<1>1. CASE UNCHANGED <<fresh, fate, result, count, wpc>>
  <2>1. Unwound' = Unwound
    BY <1>1 DEF Unwound
  <2> QED BY <1>1, <2>1, TotalsKept
<1>2. ASSUME NEW w \in Workers, StartWorker(w) PROVE Totals'
  <2>1. /\ UNCHANGED <<fresh, fate, result, count>>
        /\ wpc[w] = "unborn" /\ wpc' = [wpc EXCEPT ![w] = "pop"]
    BY <1>2 DEF StartWorker
  <2> QED BY <2>1, UnwoundKept, TotalsKept, Zenon
<1>3. CASE StartFails \/ MakeShutdownPipe \/ InstallHandler \/ InstallFails \/ LoopTest \/ Poll
  BY <1>1, <1>3, Zenon
  DEF StartFails, MakeShutdownPipe, InstallHandler, InstallFails, LoopTest, Poll
<1>4. ASSUME NEW c \in Clients, Accept(c) PROVE Totals'
  <2>1. /\ c \in fresh /\ fresh' = fresh \ {c} /\ UNCHANGED <<fate, result, wpc>>
        /\ Add("accepted", 1)
    BY <1>4 DEF Accept, Queue!PushCall
  <2>2. \A k \in Counters : count'[k] = IF k = "accepted" THEN count[k] + 1 ELSE count[k]
    BY <1>0, <2>1, AddCounts DEF Counters
  <2>3. Cardinality(Clients \ fresh') = Cardinality(Clients \ fresh) + 1
        /\ Cardinality(Clients \ fresh) \in Nat
    <3> DEFINE A == Clients \ fresh
               B == Clients \ fresh'
    <3>1. /\ A \in SUBSET Clients /\ B \in SUBSET Clients /\ A \ {c} = B \ {c}
          /\ c \notin A /\ c \in B
      BY <2>1
    <3> HIDE DEF A, B
    <3>2. /\ Cardinality(A) \in Nat /\ Cardinality(B) \in Nat
          /\ Cardinality(B) = Cardinality(A) - One(c \in A) + One(c \in B)
      BY <3>1, OneDiffers
    <3>3. Cardinality(B) = Cardinality(A) + 1
      BY <3>1, <3>2 DEF One
    <3> QED BY <3>2, <3>3 DEF A, B
  <2>4. /\ Accepted' = Accepted + 1 /\ Completed' = Completed /\ Errors' = Errors
        /\ count'["requests"] = count["requests"]
    BY <2>2 DEF Accepted, Completed, Errors, Counters
  <2>5. \A r \in Reasons : count'[r] = count[r]
    BY <2>2, ServerAssumption, Zenon DEF Counters
  <2>6. /\ Met("served")' = Met("served") /\ Met("failed")' = Met("failed")
        /\ \A r \in Reasons : EndedFor(r)' = EndedFor(r)
        /\ SumOfRequests(result)' = SumOfRequests(result) /\ Unwound' = Unwound
    BY <2>1 DEF Met, EndedFor, SumOfRequests, Sums, Unwound
  <2> QED BY <2>3, <2>4, <2>5, <2>6 DEF Totals
<1>5. CASE DispatchPush
  <2>1. UNCHANGED <<fresh, fate, result, count, wpc>>
    BY <1>5, Zenon DEF DispatchPush, Queue!PushInsert
  <2> QED BY <1>1, <2>1, Zenon
<1>6. CASE DispatchCount \/ RefusedCount
  <2>1. UNCHANGED <<fresh, fate, result, wpc>>
    BY <1>6, Zenon DEF DispatchCount, RefusedCount, Queue!Return
  <2>2. Add("dispatched", 1) \/ Add("rejected", 1)
    BY <1>6, Zenon DEF DispatchCount, RefusedCount
  <2>3. Unwound' = Unwound
    BY <2>1 DEF Unwound
  <2>4. \A j \in {"accepted", "completed", "worker_errors", "requests"} \cup Reasons :
          count'[j] = count[j]
    BY <1>0, <2>2, OtherCounter
  <2> QED BY <2>1, <2>3, <2>4, TotalsKept, Zenon
<1>7. CASE DispatchRefused
  <2>1. /\ fate' = [fate EXCEPT ![held[Acceptor]] = "refused"] /\ pc = "push"
        /\ UNCHANGED <<fresh, result, wpc, count>>
    BY <1>7 DEF DispatchRefused, Queue!PushReject
  <2>2. held[Acceptor] \in Clients /\ fate[held[Acceptor]] = "pending"
    BY <2>1, ServerAssumption, HeldIsPending, Zenon DEF Custody, Threads
  <2>3. \A y \in {"served", "failed"} : Cardinality(Met(y)') = Cardinality(Met(y))
    <3> SUFFICES ASSUME NEW y \in {"served", "failed"}
                 PROVE  Cardinality(Met(y)') = Cardinality(Met(y))
      OBVIOUS
    <3>1. /\ Cardinality(Met(y)) \in Nat
          /\ Cardinality(Met(y)') = Cardinality(Met(y)) + One("refused" = y)
      BY <2>1, <2>2, OneFate, Zenon
    <3> QED BY <3>1 DEF One
  <2>4. /\ Accepted' = Accepted /\ Completed' = Completed /\ Errors' = Errors
        /\ Unwound' = Unwound /\ \A r \in Reasons : EndedFor(r)' = EndedFor(r)
        /\ SumOfRequests(result)' = SumOfRequests(result)
    BY <2>1, Zenon DEF Accepted, Completed, Errors, Unwound, EndedFor, SumOfRequests, Sums
  <2>5. Cardinality(Met("served"))' = Cardinality(Met("served"))
        /\ Cardinality(Met("failed"))' = Cardinality(Met("failed"))
    BY <2>3
  <2> QED BY <2>1, <2>4, <2>5 DEF Totals
<1>8. ASSUME NEW t \in Requesters \cup {Acceptor}, Requests(t) PROVE Totals'
  BY <1>1, <1>8, Zenon DEF Requests, Exchange, CloseQueue, WritePipe, Queue!Close
<1>9. CASE RequestReturns \/ PoolClose \/ Join \/ ForgetNotificationFd \/ Report
  BY <1>1, <1>9, Zenon
  DEF RequestReturns, PoolClose, Join, ForgetNotificationFd, Report, Queue!Close
<1>10. CASE Destroy \/ Exit
  BY <1>1, <1>10 DEF Destroy, Exit
<1>11. ASSUME NEW w \in Workers, PopCall(w) \/ PopTake(w) \/ PopEmpty(w) \/ CloseServed(w)
       PROVE  Totals'
  <2>1. UNCHANGED <<fresh, fate, result, count>> /\ wpc[w] # "unwound"
    BY <1>11, Zenon
    DEF PopCall, PopTake, PopEmpty, CloseServed, WorkerAt,
        Queue!PopCall, Queue!PopTake, Queue!PopEmpty, Queue!Discard
  <2>2. PICK to \in {"popping", "popped", "exited", "closing"} : wpc' = [wpc EXCEPT ![w] = to]
    BY <1>11, Zenon DEF PopCall, PopTake, PopEmpty, CloseServed, WorkerGoes
  <2>3. Unwound' = Unwound
    BY <2>1, <2>2, UnwoundKept, Zenon
  <2> QED BY <2>1, <2>3, TotalsKept
<1>12. ASSUME NEW w \in Workers, ServeBegin(w) \/ ServeEnd(w) PROVE Totals'
  <2>1. UNCHANGED <<fresh, fate, result>> /\ wpc[w] # "unwound"
    BY <1>12, Zenon DEF ServeBegin, ServeEnd, WorkerAt, Queue!Return
  <2>2. PICK to \in {"serving", "pop"} : wpc' = [wpc EXCEPT ![w] = to]
    BY <1>12 DEF ServeBegin, ServeEnd, WorkerGoes
  <2>3. PICK n \in Int : Add("active", n)
    BY <1>12 DEF ServeBegin, ServeEnd
  <2>4. Unwound' = Unwound
    BY <2>1, <2>2, UnwoundKept, Zenon
  <2>5. \A j \in {"accepted", "completed", "worker_errors", "requests"} \cup Reasons :
          count'[j] = count[j]
    BY <1>0, <2>3, OtherCounter
  <2> QED BY <2>1, <2>4, <2>5, TotalsKept, Zenon
<1>13. ASSUME NEW w \in Workers, NEW r \in Results, ServeReturns(w, r) PROVE Totals'
  <2> DEFINE c == held[w]
  <2>1. /\ wpc[w] = "serving" /\ wpc' = [wpc EXCEPT ![w] = "recorded"]
        /\ fate' = [fate EXCEPT ![c] = "served"] /\ result' = [result EXCEPT ![c] = r]
        /\ UNCHANGED fresh /\ record_result(r)
    BY <1>13, Zenon DEF ServeReturns, WorkerAt, WorkerGoes
  <2>2. c \in Clients /\ fate[c] = "pending" /\ result[c] = NoResult
    BY <2>1, HeldIsPending, Zenon DEF Custody, Threads
  <2>3. r \in [reason : Reasons, requests_served : Nat]
    BY ServerAssumption
  <2> HIDE DEF c
  <2>4. /\ result' \in [Clients -> [reason : Reasons \cup {"none"}, requests_served : Nat]]
        /\ \A d \in Clients : result'[d] = IF d = c THEN r ELSE result[d]
    BY <2>1, <2>2, <2>3 DEF Ledger
  <2>5. Unwound' = Unwound
    BY <2>1, UnwoundKept, Zenon
  <2>6. /\ Cardinality(Met("served"))' = Cardinality(Met("served")) + 1
        /\ Cardinality(Met("failed"))' = Cardinality(Met("failed"))
        /\ Cardinality(Met("served")) \in Nat
    <3>1. ASSUME NEW y \in {"served", "failed"}
          PROVE  /\ Cardinality(Met(y)) \in Nat
                 /\ Cardinality(Met(y)') = Cardinality(Met(y)) + One("served" = y)
      BY <2>1, <2>2, OneFate, Zenon
    <3>2. /\ Cardinality(Met("served")') = Cardinality(Met("served")) + One("served" = "served")
          /\ Cardinality(Met("failed")') = Cardinality(Met("failed")) + One("served" = "failed")
          /\ Cardinality(Met("served")) \in Nat /\ Cardinality(Met("failed")) \in Nat
      BY <3>1
    <3> QED BY <3>2 DEF One
  <2>7. ASSUME NEW x \in Reasons
        PROVE  /\ Cardinality(EndedFor(x)) \in Nat
               /\ Cardinality(EndedFor(x)') = Cardinality(EndedFor(x)) + One(r.reason = x)
    <3>1. result[c].reason # x
      BY <2>2, ServerAssumption DEF NoResult
    <3>2. /\ EndedFor(x) \in SUBSET Clients /\ EndedFor(x)' \in SUBSET Clients
          /\ EndedFor(x) \ {c} = EndedFor(x)' \ {c}
          /\ c \notin EndedFor(x) /\ (c \in EndedFor(x)' <=> r.reason = x)
      BY <2>2, <2>4, <3>1, Zenon DEF EndedFor
    <3>3. /\ Cardinality(EndedFor(x)) \in Nat
          /\ Cardinality(EndedFor(x)') = Cardinality(EndedFor(x)) - One(c \in EndedFor(x))
                                           + One(c \in EndedFor(x)')
      BY <3>2, OneDiffers
    <3>4. /\ One(c \in EndedFor(x)) = 0 /\ One(c \in EndedFor(x)') = One(r.reason = x)
          /\ One(r.reason = x) \in Int
      BY <3>2 DEF One
    <3> QED BY <3>3, <3>4
  <2>8. /\ SumOfRequests(result') = SumOfRequests(result) + r.requests_served
        /\ SumOfRequests(result)' = SumOfRequests(result')
    <3>1. /\ result \in [Clients -> [reason : Reasons \cup {"none"}, requests_served : Nat]]
          /\ result[c].requests_served = 0 /\ result'[c] = r
          /\ \A d \in Clients : d # c => result'[d] = result[d]
      <4>1. result[c].requests_served = 0
        BY <2>2, NoRequests, Zenon
      <4> QED BY <2>2, <2>4, <4>1, Zenon DEF Ledger
    <3>2. SumOfRequests(result') = SumOfRequests(result) + r.requests_served
      BY <2>2, <2>4, <3>1, SumGrows
    <3> QED BY <3>2, Zenon DEF SumOfRequests, Sums
  <2>9. /\ Accepted' = Accepted /\ Errors' = Errors /\ Completed' = Completed + 1
        /\ count'["requests"] = count["requests"] + r.requests_served
        /\ \A x \in Reasons : count'[x] = count[x] + One(r.reason = x)
    BY <1>0, <2>1, RecordCounts, Zenon DEF Accepted, Errors, Completed
  <2>10. /\ Accepted = Cardinality(Clients \ fresh) /\ Completed = Cardinality(Met("served"))
         /\ Errors + Unwound = Cardinality(Met("failed"))
         /\ \A x \in Reasons : count[x] = Cardinality(EndedFor(x))
         /\ count["requests"] = SumOfRequests(result)
    BY DEF Totals
  <2>11. ASSUME NEW x \in Reasons PROVE count'[x] = Cardinality(EndedFor(x)')
    BY <2>7, <2>9, <2>10
  <2>12. count'["requests"] = SumOfRequests(result)'
    BY <2>8, <2>9, <2>10, Zenon
  <2>13. /\ Accepted' = Cardinality(Clients \ fresh)' /\ Completed' = Cardinality(Met("served"))'
         /\ (Errors + Unwound)' = Cardinality(Met("failed"))'
    BY <2>1, <2>5, <2>6, <2>9, <2>10
  <2> QED BY <2>11, <2>12, <2>13, Zenon DEF Totals
<1>14. ASSUME NEW w \in Workers, ServeThrows(w) PROVE Totals'
  <2> DEFINE c == held[w]
  <2>1. /\ wpc[w] = "serving" /\ wpc' = [wpc EXCEPT ![w] = "unwound"]
        /\ fate' = [fate EXCEPT ![c] = "failed"] /\ UNCHANGED <<fresh, result, count>>
    BY <1>14, Zenon DEF ServeThrows, WorkerAt, WorkerGoes, Queue!Discard
  <2>2. c \in Clients /\ fate[c] = "pending"
    BY <2>1, HeldIsPending, Zenon DEF Custody, Threads
  <2> HIDE DEF c
  <2>3. Unwound' = Unwound + 1
    <3>1. Shifted("serving", "unwound")
      BY <2>1, WorkerMoves, Zenon
    <3> QED BY <1>0, <3>1 DEF Shifted, One, Numbers
  <2>4. /\ Cardinality(Met("failed"))' = Cardinality(Met("failed")) + 1
        /\ Cardinality(Met("served"))' = Cardinality(Met("served"))
        /\ Cardinality(Met("failed")) \in Nat
    <3>1. ASSUME NEW y \in {"served", "failed"}
          PROVE  /\ Cardinality(Met(y)) \in Nat
                 /\ Cardinality(Met(y)') = Cardinality(Met(y)) + One("failed" = y)
      BY <2>1, <2>2, OneFate, Zenon
    <3>2. /\ Cardinality(Met("served")') = Cardinality(Met("served")) + One("failed" = "served")
          /\ Cardinality(Met("failed")') = Cardinality(Met("failed")) + One("failed" = "failed")
          /\ Cardinality(Met("served")) \in Nat /\ Cardinality(Met("failed")) \in Nat
      BY <3>1
    <3> QED BY <3>2 DEF One
  <2>5. /\ Accepted' = Accepted /\ Completed' = Completed /\ Errors' = Errors
        /\ \A r \in Reasons : EndedFor(r)' = EndedFor(r)
        /\ SumOfRequests(result)' = SumOfRequests(result)
    BY <2>1 DEF Accepted, Completed, Errors, EndedFor, SumOfRequests, Sums
  <2>6. Errors \in Int /\ Unwound \in Int
    BY <1>0, CountsAlways DEF Counts, Numbers
  <2> QED BY <2>1, <2>3, <2>4, <2>5, <2>6 DEF Totals
<1>15. ASSUME NEW w \in Workers, CatchError(w) PROVE Totals'
  <2>1. /\ wpc[w] = "unwound" /\ wpc' = [wpc EXCEPT ![w] = "closing"]
        /\ UNCHANGED <<fresh, fate, result>> /\ Add("worker_errors", 1)
    BY <1>15 DEF CatchError, WorkerAt, WorkerGoes
  <2>2. Unwound' = Unwound - 1
    <3>1. Shifted("unwound", "closing")
      BY <2>1, WorkerMoves, Zenon
    <3> QED BY <1>0, <3>1 DEF Shifted, One, Numbers
  <2>3. \A k \in Counters : count'[k] = IF k = "worker_errors" THEN count[k] + 1 ELSE count[k]
    BY <1>0, <2>1, AddCounts DEF Counters
  <2>4. /\ Accepted' = Accepted /\ Completed' = Completed /\ Errors' = Errors + 1
        /\ count'["requests"] = count["requests"]
    BY <2>3 DEF Accepted, Completed, Errors, Counters
  <2>5. \A r \in Reasons : count'[r] = count[r]
    BY <2>3, ServerAssumption, Zenon DEF Counters
  <2>6. /\ Met("served")' = Met("served") /\ Met("failed")' = Met("failed")
        /\ \A r \in Reasons : EndedFor(r)' = EndedFor(r)
        /\ SumOfRequests(result)' = SumOfRequests(result)
    BY <2>1 DEF Met, EndedFor, SumOfRequests, Sums
  <2>7. Errors \in Int /\ Unwound \in Int
    BY <1>0, CountsAlways DEF Counts, Numbers
  <2> QED BY <2>1, <2>2, <2>4, <2>5, <2>6, <2>7 DEF Totals
<1>16. ASSUME NEW c \in Clients, Connect(c) PROVE Totals'
  BY <1>1, <1>16 DEF Connect
<1>17. CASE SignalMain \/ SystemCallFails
  <2>1. UNCHANGED <<fresh, fate, result, count, wpc>>
    BY <1>17, Zenon DEF SignalMain, SystemCallFails
  <2> QED BY <1>1, <2>1, Zenon
<1>18. ASSUME NEW w \in Workers, SignalWorker(w) \/ HandlerOnWorkerWrites(w) PROVE Totals'
  <2>1. UNCHANGED <<fresh, fate, result, count, wpc>>
    BY <1>18, Zenon DEF SignalWorker, HandlerOnWorkerWrites
  <2> QED BY <1>1, <2>1, Zenon
<1>19. CASE UNCHANGED vars
  BY <1>1, <1>19 DEF vars
<1> QED BY NextCases, <1>2, <1>3, <1>4, <1>5, <1>6, <1>7, <1>8, <1>9, <1>10, <1>11,
           <1>12, <1>13, <1>14, <1>15, <1>16, <1>17, <1>18, <1>19, Zenon
  DEF WorkerSteps

\* At the start nothing is counted and nothing has happened.
LEMMA ReportInit == Init => Custody /\ Ledger /\ Totals
<1> SUFFICES ASSUME Init PROVE Custody /\ Ledger /\ Totals
  OBVIOUS
<1>1. Custody
  BY CustodyInit, Zenon
<1>2. \A c \in Clients : fate[c] = "pending" /\ result[c] = NoResult
  BY DEF Init, NoResult
<1>3. Ledger
  BY <1>2, Zenon DEF Init, Ledger, NoResult
<1>4. /\ Clients \ fresh = {} /\ Met("served") = {} /\ Met("failed") = {}
      /\ \A r \in Reasons : EndedFor(r) = {}
  BY <1>2, ServerAssumption, Zenon DEF Init, Queue!Init, Met, EndedFor, NoResult
<1>5. SumOfRequests(result) = 0
  <2>1. \A c \in Clients : result[c].requests_served = 0
    BY <1>2, NoRequests, Zenon
  <2> QED BY <2>1, SumOfNone, Zenon
<1>6. \A k \in Counters : count[k] = 0
  BY DEF Init
<1>7. Unwound = 0
  <2>1. At(wpc, {"unwound"}) = {}
    BY DEF Init, At
  <2> QED BY <2>1, FS_EmptySet DEF Unwound
<1>8. Accepted = 0 /\ Completed = 0 /\ Errors = 0 /\ count["requests"] = 0
      /\ \A r \in Reasons : count[r] = 0
  BY <1>6, Zenon DEF Counters, Accepted, Completed, Errors
<1>9. Cardinality({}) = 0
  BY FS_EmptySet
<1>10. Totals
  <2>1. 0 + 0 = 0
    OBVIOUS
  <2> QED BY <1>4, <1>5, <1>7, <1>8, <1>9, <2>1, Zenon DEF Totals
<1> QED BY <1>1, <1>3, <1>10

\* When main prints the metrics record, after any schedule of accepts, signals,
\* requests to shut down and workers: nothing is queued, active or open, every
\* accepted connection was dispatched or rejected and every dispatched one
\* completed or failed, each counter of a reason is the number of connections
\* that ended for it and the requests are those of all connections together.
THEOREM ReportCorrect == SafeSpec => []ReportExact
<1>1. ControlTypes /\ Ownership /\ Tallied /\ Drained /\ Custody /\ Ledger /\ Totals
        => ReportExact
  <2> SUFFICES ASSUME ControlTypes, Ownership, Tallied, Drained, Custody, Ledger, Totals,
                      pc = "report"
               PROVE  ReportExact
    BY Zenon DEF ReportExact
  <2>1. \A w \in Workers : wpc[w] = "exited"
    BY Zenon DEF Custody, Drained, DrainedBeforeExit
  <2>2. queue = <<>>
    BY <2>1, ServerAssumption DEF Drained, DrainedBeforeExit
  <2>3. OpenDescriptors = {}
    <3>1. Len(queue) = 0
      BY <2>2
    <3>2. \A t \in Threads : held[t] = NoClient
      BY <2>1 DEF Custody, Threads
    <3>3. \A c \in Clients : ~Owned(c)
      BY <3>1, <3>2, ServerAssumption DEF Owned
    <3> QED BY <3>3 DEF Ownership, OpenDescriptors
  <2>4. Busy = 0 /\ Active = 0 /\ Unwound = 0
    <3>1. \A L : "exited" \notin L => At(wpc, L) = {}
      BY <2>1 DEF At
    <3> QED BY <3>1, FS_EmptySet DEF Busy, Active, Unwound
  <2>5. WithAcceptor = 0 /\ Pushed = 0 /\ Waiting = 0
    BY <2>2 DEF WithAcceptor, Pushed, Waiting, One
  <2>6. Counts
    BY CountsAlways DEF Tallied
  <2>7. InService = 0 /\ Accepted = Dispatched + Rejected /\ Dispatched = Completed + Errors
    BY <2>4, <2>5, <2>6 DEF Tallied, Balanced, Counts
  <2>8. Errors = Cardinality(Met("failed"))
    BY <2>4, <2>6 DEF Totals, Counts
  <2>9. count["requests"] = MapThenSumSet(LAMBDA c : result[c].requests_served, Clients)
    BY RequestsAreTotal, Zenon DEF Totals
  <2> QED BY <2>2, <2>3, <2>7, <2>8, <2>9, Zenon
    DEF ReportExact, Totals, Met, EndedFor, InService, Accepted, Dispatched, Rejected,
        Completed, Errors
<1>2. SafeSpec => []Drained
  BY DrainedAlways
<1>3. Init => Custody /\ Ledger /\ Totals
  BY ReportInit
<1>4. ControlTypes /\ Ownership /\ Tallied /\ Custody /\ Ledger /\ Totals /\ [Next]_vars
        => (Custody /\ Ledger /\ Totals)'
  BY CustodyStep, LedgerStep, TotalsStep
<1> QED BY <1>1, <1>2, <1>3, <1>4, TalliedCorrect, PTL DEF SafeSpec
===============================================================================
