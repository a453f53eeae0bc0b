--------------------------- MODULE HttpServerProofs ---------------------------
(***************************************************************************)
(* Theorems about HttpServer: for any finite number of workers and         *)
(* clients, any callers of request_shutdown, any capacity and any number   *)
(* of signals.                                                             *)
(***************************************************************************)
EXTENDS HttpServer, SequenceTheorems, FiniteSetTheorems, TLAPS

Threads == Workers \cup {Acceptor}

\* Where the main thread may be.
Serving == {"loop", "poll", "accept", "push", "pushed", "refused"}
Joined == {"returned", "report", "destroy", "destroyed", "exited"}
Places == {"spawn", "install", "request", "pool_close", "join"} \cup Serving \cup Joined

WorkerPlaces == {"unborn", "pop", "popping", "popped", "serving", "recorded", "unwound",
                 "closing", "exited"}

ControlTypes ==
  /\ pc \in Places /\ path \in {"ctor", "serve", "dtor"}
  /\ wpc \in [Workers -> WorkerPlaces]
  /\ rs \in [Requesters \cup {Acceptor} -> {"idle", "close", "write", "done"}]
  /\ notification_fd \in {"unset", "pipe", "none"}

-----------------------------------------------------------------------------
\* The steps, by what they do to the control of the threads.

Requests(t) == Exchange(t) \/ CloseQueue(t) \/ WritePipe(t)

WorkerSteps(w) ==
  \/ PopCall(w) \/ PopTake(w) \/ PopEmpty(w) \/ ServeBegin(w)
  \/ (\E r \in Results : ServeReturns(w, r))
  \/ CloseServed(w) \/ ServeThrows(w) \/ CatchError(w) \/ ServeEnd(w)

\* All steps.
LEMMA NextCases ==
  ASSUME [Next]_vars
  PROVE  \/ \E w \in Workers : StartWorker(w)
         \/ StartFails \/ MakeShutdownPipe \/ InstallHandler \/ InstallFails
         \/ LoopTest \/ Poll \/ (\E c \in Clients : Accept(c))
         \/ DispatchPush \/ DispatchCount \/ DispatchRefused \/ RefusedCount
         \/ (\E t \in Requesters \cup {Acceptor} : Requests(t))
         \/ RequestReturns \/ PoolClose \/ Join
         \/ ForgetNotificationFd \/ Report \/ Destroy \/ Exit
         \/ (\E w \in Workers : WorkerSteps(w))
         \/ (\E c \in Clients : Connect(c))
         \/ SignalMain \/ SystemCallFails
         \/ (\E w \in Workers : SignalWorker(w) \/ HandlerOnWorkerWrites(w))
         \/ UNCHANGED vars
  BY DEF Next, Main, RequestShutdown, Worker, WorkerRuns, Environment, Terminated,
         Requests, WorkerSteps

-----------------------------------------------------------------------------
\* The types of the control variables are inductive by themselves.
LEMMA ControlTypesInit == Init => ControlTypes
  BY DEF Init, ControlTypes, Places, WorkerPlaces

\* Every step respects them.
LEMMA ControlTypesStep ==
  ASSUME ControlTypes, [Next]_vars
  PROVE  ControlTypes'
<1> USE DEF queueVars, kernelVars, mainVars, workerVars, historyVars, Places, Serving,
    Joined,
            WorkerPlaces
<1>1. ASSUME NEW w \in Workers, StartWorker(w) PROVE ControlTypes'
  BY <1>1 DEF StartWorker, ControlTypes
<1>2. CASE StartFails
  BY <1>2 DEF StartFails, ControlTypes
<1>3. CASE MakeShutdownPipe
  BY <1>3 DEF MakeShutdownPipe, ControlTypes
<1>4. CASE InstallHandler
  BY <1>4 DEF InstallHandler, ControlTypes
<1>5. CASE InstallFails
  BY <1>5 DEF InstallFails, ControlTypes
<1>6. CASE LoopTest
  BY <1>6 DEF LoopTest, ControlTypes
<1>7. CASE Poll
  BY <1>7 DEF Poll, ControlTypes
<1>8. ASSUME NEW c \in Clients, Accept(c) PROVE ControlTypes'
  BY <1>8 DEF Accept, ControlTypes
<1>9. CASE DispatchPush
  BY <1>9 DEF DispatchPush, ControlTypes
<1>10. CASE DispatchCount
  BY <1>10 DEF DispatchCount, ControlTypes
<1>11. CASE DispatchRefused
  BY <1>11 DEF DispatchRefused, ControlTypes
<1>12. CASE RefusedCount
  BY <1>12, Zenon DEF RefusedCount, ControlTypes
<1>13. ASSUME NEW t \in Requesters \cup {Acceptor}, Exchange(t) PROVE ControlTypes'
  BY <1>13 DEF Exchange, ControlTypes
<1>14. ASSUME NEW t \in Requesters \cup {Acceptor}, CloseQueue(t) PROVE ControlTypes'
  BY <1>14 DEF CloseQueue, ControlTypes
<1>15. ASSUME NEW t \in Requesters \cup {Acceptor}, WritePipe(t) PROVE ControlTypes'
  BY <1>15 DEF WritePipe, ControlTypes
<1>16. CASE RequestReturns
  BY <1>16 DEF RequestReturns, ControlTypes
<1>17. CASE PoolClose
  BY <1>17 DEF PoolClose, ControlTypes
<1>18. CASE Join
  BY <1>18 DEF Join, ControlTypes
<1>19. CASE ForgetNotificationFd
  BY <1>19 DEF ForgetNotificationFd, ControlTypes
<1>20. CASE Report
  BY <1>20 DEF Report, ControlTypes
<1>21. CASE Destroy
  BY <1>21 DEF Destroy, ControlTypes
<1>22. CASE Exit
  BY <1>22 DEF Exit, ControlTypes
<1>23. ASSUME NEW w \in Workers, PopCall(w) PROVE ControlTypes'
  BY <1>23 DEF PopCall, WorkerAt, WorkerGoes, ControlTypes
<1>24. ASSUME NEW w \in Workers, PopTake(w) PROVE ControlTypes'
  BY <1>24 DEF PopTake, WorkerAt, WorkerGoes, ControlTypes
<1>25. ASSUME NEW w \in Workers, PopEmpty(w) PROVE ControlTypes'
  BY <1>25 DEF PopEmpty, WorkerAt, WorkerGoes, ControlTypes
<1>26. ASSUME NEW w \in Workers, ServeBegin(w) PROVE ControlTypes'
  BY <1>26 DEF ServeBegin, WorkerAt, WorkerGoes, ControlTypes
<1>27. ASSUME NEW w \in Workers, NEW r \in Results, ServeReturns(w, r) PROVE ControlTypes'
  BY <1>27 DEF ServeReturns, WorkerAt, WorkerGoes, ControlTypes
<1>28. ASSUME NEW w \in Workers, CloseServed(w) PROVE ControlTypes'
  BY <1>28 DEF CloseServed, WorkerAt, WorkerGoes, ControlTypes
<1>29. ASSUME NEW w \in Workers, ServeThrows(w) PROVE ControlTypes'
  BY <1>29 DEF ServeThrows, WorkerAt, WorkerGoes, ControlTypes
<1>30. ASSUME NEW w \in Workers, CatchError(w) PROVE ControlTypes'
  BY <1>30 DEF CatchError, WorkerAt, WorkerGoes, ControlTypes
<1>31. ASSUME NEW w \in Workers, ServeEnd(w) PROVE ControlTypes'
  BY <1>31 DEF ServeEnd, WorkerAt, WorkerGoes, ControlTypes
<1>32. ASSUME NEW c \in Clients, Connect(c) PROVE ControlTypes'
  BY <1>32 DEF Connect, ControlTypes
<1>33. CASE SignalMain
  BY <1>33 DEF SignalMain, HandlerWrites, ControlTypes
<1>34. CASE SystemCallFails
  BY <1>34 DEF SystemCallFails, ControlTypes
<1>35. ASSUME NEW w \in Workers, SignalWorker(w) PROVE ControlTypes'
  BY <1>35 DEF SignalWorker, ControlTypes
<1>36. ASSUME NEW w \in Workers, HandlerOnWorkerWrites(w) PROVE ControlTypes'
  BY <1>36 DEF HandlerOnWorkerWrites, HandlerWrites, ControlTypes
<1>37. CASE UNCHANGED vars
  BY <1>37 DEF vars, ControlTypes
<1> QED BY NextCases, <1>1, <1>2, <1>3, <1>4, <1>5, <1>6, <1>7, <1>8, <1>9, <1>10, <1>11,
           <1>12, <1>13, <1>14, <1>15, <1>16, <1>17, <1>18, <1>19, <1>20, <1>21, <1>22,
           <1>23, <1>24, <1>25, <1>26, <1>27, <1>28, <1>29, <1>30, <1>31, <1>32, <1>33,
           <1>34, <1>35, <1>36, <1>37
  DEF Requests, WorkerSteps

-----------------------------------------------------------------------------
\* Whoever closes the queue has set the flag before, except a constructor that
\* failed and never serves.
FlagBeforeClose ==
  /\ \A t \in Requesters \cup {Acceptor} : rs[t] # "idle" => shutdown_requested
  /\ pc \in {"spawn", "install"} => path = "ctor"
  /\ pc = "pool_close" => path = "ctor" \/ shutdown_requested
  /\ closed => shutdown_requested \/ (path = "ctor" /\ pc \in {"join", "exited"})
  /\ pc = "refused" => shutdown_requested
  /\ RefusalMeansShutdown

\* Every step of every thread preserves it.
LEMMA FlagBeforeCloseStep ==
  ASSUME ControlTypes, FlagBeforeClose, [Next]_vars
  PROVE  FlagBeforeClose'
<1> USE DEF queueVars, kernelVars, mainVars, workerVars, historyVars, RefusalMeansShutdown
<1>1. ASSUME NEW w \in Workers, StartWorker(w) PROVE FlagBeforeClose'
  BY <1>1, Zenon DEF StartWorker, ControlTypes, FlagBeforeClose
<1>2. CASE StartFails
  BY <1>2, Zenon DEF StartFails, ControlTypes, FlagBeforeClose
<1>3. CASE MakeShutdownPipe
  BY <1>3, Zenon DEF MakeShutdownPipe, ControlTypes, FlagBeforeClose
<1>4. CASE InstallHandler
  BY <1>4, Zenon DEF InstallHandler, ControlTypes, FlagBeforeClose
<1>5. CASE InstallFails
  BY <1>5, Zenon DEF InstallFails, ControlTypes, FlagBeforeClose
<1>6. CASE LoopTest
  BY <1>6, Zenon DEF LoopTest, ControlTypes, FlagBeforeClose
<1>7. CASE Poll
  BY <1>7, Zenon DEF Poll, ControlTypes, FlagBeforeClose
<1>8. ASSUME NEW c \in Clients, Accept(c) PROVE FlagBeforeClose'
  BY <1>8, Zenon DEF Accept, Queue!PushCall, ControlTypes, FlagBeforeClose
<1>9. CASE DispatchPush
  BY <1>9, Zenon DEF DispatchPush, Queue!PushInsert, ControlTypes, FlagBeforeClose
<1>10. CASE DispatchCount
  BY <1>10, Zenon DEF DispatchCount, Queue!Return, ControlTypes, FlagBeforeClose
<1>11. CASE DispatchRefused
  BY <1>11, Zenon DEF DispatchRefused, Queue!PushReject, ControlTypes, FlagBeforeClose
<1>12. CASE RefusedCount
  BY <1>12, Zenon DEF RefusedCount, ControlTypes, FlagBeforeClose
<1>13. ASSUME NEW t \in Requesters \cup {Acceptor}, Exchange(t) PROVE FlagBeforeClose'
  BY <1>13, Zenon DEF Exchange, ControlTypes, FlagBeforeClose
<1>14. ASSUME NEW t \in Requesters \cup {Acceptor}, CloseQueue(t) PROVE FlagBeforeClose'
  BY <1>14, Zenon DEF CloseQueue, Queue!Close, ControlTypes, FlagBeforeClose
<1>15. ASSUME NEW t \in Requesters \cup {Acceptor}, WritePipe(t) PROVE FlagBeforeClose'
  BY <1>15, Zenon DEF WritePipe, ControlTypes, FlagBeforeClose
<1>16. CASE RequestReturns
  BY <1>16, Zenon DEF RequestReturns, ControlTypes, FlagBeforeClose
<1>17. CASE PoolClose
  BY <1>17, Zenon DEF PoolClose, Queue!Close, ControlTypes, FlagBeforeClose
<1>18. CASE Join
  BY <1>18, Zenon DEF Join, ControlTypes, FlagBeforeClose
<1>19. CASE ForgetNotificationFd
  BY <1>19, Zenon DEF ForgetNotificationFd, ControlTypes, FlagBeforeClose
<1>20. CASE Report
  BY <1>20, Zenon DEF Report, ControlTypes, FlagBeforeClose
<1>21. CASE Destroy
  BY <1>21, Zenon DEF Destroy, ControlTypes, FlagBeforeClose
<1>22. CASE Exit
  BY <1>22, Zenon DEF Exit, ControlTypes, FlagBeforeClose
<1>23. ASSUME NEW w \in Workers, PopCall(w) PROVE FlagBeforeClose'
  BY <1>23, Zenon
  DEF PopCall, WorkerAt, WorkerGoes, Queue!PopCall, ControlTypes, FlagBeforeClose
<1>24. ASSUME NEW w \in Workers, PopTake(w) PROVE FlagBeforeClose'
  BY <1>24, Zenon
  DEF PopTake, WorkerAt, WorkerGoes, Queue!PopTake, ControlTypes, FlagBeforeClose
<1>25. ASSUME NEW w \in Workers, PopEmpty(w) PROVE FlagBeforeClose'
  BY <1>25, Zenon
  DEF PopEmpty, WorkerAt, WorkerGoes, Queue!PopEmpty, ControlTypes, FlagBeforeClose
<1>26. ASSUME NEW w \in Workers, ServeBegin(w) PROVE FlagBeforeClose'
  BY <1>26, Zenon
  DEF ServeBegin, WorkerAt, WorkerGoes, Queue!Return, ControlTypes, FlagBeforeClose
<1>27. ASSUME NEW w \in Workers, NEW r \in Results, ServeReturns(w, r) PROVE FlagBeforeClose'
  BY <1>27, Zenon DEF ServeReturns, WorkerAt, WorkerGoes, ControlTypes, FlagBeforeClose
<1>28. ASSUME NEW w \in Workers, CloseServed(w) PROVE FlagBeforeClose'
  BY <1>28, Zenon DEF CloseServed, WorkerAt, WorkerGoes, Queue!Discard, ControlTypes,
      FlagBeforeClose
<1>29. ASSUME NEW w \in Workers, ServeThrows(w) PROVE FlagBeforeClose'
  BY <1>29, Zenon DEF ServeThrows, WorkerAt, WorkerGoes, Queue!Discard, ControlTypes,
      FlagBeforeClose
<1>30. ASSUME NEW w \in Workers, CatchError(w) PROVE FlagBeforeClose'
  BY <1>30, Zenon DEF CatchError, WorkerAt, WorkerGoes, ControlTypes, FlagBeforeClose
<1>31. ASSUME NEW w \in Workers, ServeEnd(w) PROVE FlagBeforeClose'
  BY <1>31, Zenon DEF ServeEnd, WorkerAt, WorkerGoes, ControlTypes, FlagBeforeClose
<1>32. ASSUME NEW c \in Clients, Connect(c) PROVE FlagBeforeClose'
  BY <1>32, Zenon DEF Connect, ControlTypes, FlagBeforeClose
<1>33. CASE SignalMain
  BY <1>33, Zenon DEF SignalMain, HandlerWrites, ControlTypes, FlagBeforeClose
<1>34. CASE SystemCallFails
  BY <1>34, Zenon DEF SystemCallFails, ControlTypes, FlagBeforeClose
<1>35. ASSUME NEW w \in Workers, SignalWorker(w) PROVE FlagBeforeClose'
  BY <1>35, Zenon DEF SignalWorker, ControlTypes, FlagBeforeClose
<1>36. ASSUME NEW w \in Workers, HandlerOnWorkerWrites(w) PROVE FlagBeforeClose'
  BY <1>36, Zenon DEF HandlerOnWorkerWrites, HandlerWrites, ControlTypes, FlagBeforeClose
<1>37. CASE UNCHANGED vars
  BY <1>37, Zenon DEF vars, ControlTypes, FlagBeforeClose
<1> QED BY NextCases, <1>1, <1>2, <1>3, <1>4, <1>5, <1>6, <1>7, <1>8, <1>9, <1>10, <1>11,
           <1>12, <1>13, <1>14, <1>15, <1>16, <1>17, <1>18, <1>19, <1>20, <1>21, <1>22,
           <1>23, <1>24, <1>25, <1>26, <1>27, <1>28, <1>29, <1>30, <1>31, <1>32, <1>33,
           <1>34, <1>35, <1>36, <1>37
  DEF Requests, WorkerSteps

\* Together with the control this is inductive.
LEMMA FlagAlways == SafeSpec => [](ControlTypes /\ FlagBeforeClose)
<1>1. Init => ControlTypes /\ FlagBeforeClose
  BY ControlTypesInit DEF Init, FlagBeforeClose, RefusalMeansShutdown, Queue!Init
<1>2. ControlTypes /\ FlagBeforeClose /\ [Next]_vars => (ControlTypes /\ FlagBeforeClose)'
  BY ControlTypesStep, FlagBeforeCloseStep
<1> QED BY <1>1, <1>2, PTL DEF SafeSpec

\* serve_one never throws "worker pool is closed": a push is refused only when a
\* request_shutdown that closed the queue had set the flag before.
THEOREM RefusalCorrect == SafeSpec => []RefusalMeansShutdown
<1>1. FlagBeforeClose => RefusalMeansShutdown
  BY DEF FlagBeforeClose
<1> QED BY <1>1, FlagAlways, PTL

-----------------------------------------------------------------------------
\* A handler runs only on a worker that runs; ended workers leave nothing in
\* the queue.
Drained ==
  /\ handler \in [Workers -> BOOLEAN]
  /\ \A w \in Workers : handler[w] => wpc[w] \notin {"unborn", "exited"}
  /\ DrainedBeforeExit

\* pop returns nothing only from a closed, empty queue, and push inserts only into an
\* open one.
LEMMA DrainedStep ==
  ASSUME ControlTypes, Drained, [Next]_vars
  PROVE  Drained'
<1> USE DEF queueVars, kernelVars, mainVars, workerVars, historyVars, DrainedBeforeExit
<1>1. ASSUME NEW w \in Workers, StartWorker(w) PROVE Drained'
  BY <1>1 DEF StartWorker, ControlTypes, Drained
<1>2. CASE StartFails
  BY <1>2 DEF StartFails, ControlTypes, Drained
<1>3. CASE MakeShutdownPipe
  BY <1>3 DEF MakeShutdownPipe, ControlTypes, Drained
<1>4. CASE InstallHandler
  BY <1>4 DEF InstallHandler, ControlTypes, Drained
<1>5. CASE InstallFails
  BY <1>5 DEF InstallFails, ControlTypes, Drained
<1>6. CASE LoopTest
  BY <1>6 DEF LoopTest, ControlTypes, Drained
<1>7. CASE Poll
  BY <1>7 DEF Poll, ControlTypes, Drained
<1>8. ASSUME NEW c \in Clients, Accept(c) PROVE Drained'
  BY <1>8 DEF Accept, Queue!PushCall, ControlTypes, Drained
<1>9. CASE DispatchPush
  BY <1>9 DEF DispatchPush, Queue!PushInsert, ControlTypes, Drained
<1>10. CASE DispatchCount
  BY <1>10 DEF DispatchCount, Queue!Return, ControlTypes, Drained
<1>11. CASE DispatchRefused
  BY <1>11 DEF DispatchRefused, Queue!PushReject, ControlTypes, Drained
<1>12. CASE RefusedCount
  BY <1>12, Zenon DEF RefusedCount, ControlTypes, Drained
<1>13. ASSUME NEW t \in Requesters \cup {Acceptor}, Exchange(t) PROVE Drained'
  BY <1>13 DEF Exchange, ControlTypes, Drained
<1>14. ASSUME NEW t \in Requesters \cup {Acceptor}, CloseQueue(t) PROVE Drained'
  BY <1>14 DEF CloseQueue, Queue!Close, ControlTypes, Drained
<1>15. ASSUME NEW t \in Requesters \cup {Acceptor}, WritePipe(t) PROVE Drained'
  BY <1>15 DEF WritePipe, ControlTypes, Drained
<1>16. CASE RequestReturns
  BY <1>16 DEF RequestReturns, ControlTypes, Drained
<1>17. CASE PoolClose
  BY <1>17 DEF PoolClose, Queue!Close, ControlTypes, Drained
<1>18. CASE Join
  BY <1>18 DEF Join, ControlTypes, Drained
<1>19. CASE ForgetNotificationFd
  BY <1>19 DEF ForgetNotificationFd, ControlTypes, Drained
<1>20. CASE Report
  BY <1>20 DEF Report, ControlTypes, Drained
<1>21. CASE Destroy
  BY <1>21 DEF Destroy, ControlTypes, Drained
<1>22. CASE Exit
  BY <1>22 DEF Exit, ControlTypes, Drained
<1>23. ASSUME NEW w \in Workers, PopCall(w) PROVE Drained'
  BY <1>23 DEF PopCall, WorkerAt, WorkerGoes, Queue!PopCall, ControlTypes, Drained
<1>24. ASSUME NEW w \in Workers, PopTake(w) PROVE Drained'
  BY <1>24 DEF PopTake, WorkerAt, WorkerGoes, Queue!PopTake, ControlTypes, Drained
<1>25. ASSUME NEW w \in Workers, PopEmpty(w) PROVE Drained'
  BY <1>25 DEF PopEmpty, WorkerAt, WorkerGoes, Queue!PopEmpty, ControlTypes, Drained
<1>26. ASSUME NEW w \in Workers, ServeBegin(w) PROVE Drained'
  BY <1>26 DEF ServeBegin, WorkerAt, WorkerGoes, Queue!Return, ControlTypes, Drained
<1>27. ASSUME NEW w \in Workers, NEW r \in Results, ServeReturns(w, r) PROVE Drained'
  BY <1>27 DEF ServeReturns, WorkerAt, WorkerGoes, ControlTypes, Drained
<1>28. ASSUME NEW w \in Workers, CloseServed(w) PROVE Drained'
  BY <1>28 DEF CloseServed, WorkerAt, WorkerGoes, Queue!Discard, ControlTypes, Drained
<1>29. ASSUME NEW w \in Workers, ServeThrows(w) PROVE Drained'
  BY <1>29 DEF ServeThrows, WorkerAt, WorkerGoes, Queue!Discard, ControlTypes, Drained
<1>30. ASSUME NEW w \in Workers, CatchError(w) PROVE Drained'
  BY <1>30 DEF CatchError, WorkerAt, WorkerGoes, ControlTypes, Drained
<1>31. ASSUME NEW w \in Workers, ServeEnd(w) PROVE Drained'
  BY <1>31 DEF ServeEnd, WorkerAt, WorkerGoes, ControlTypes, Drained
<1>32. ASSUME NEW c \in Clients, Connect(c) PROVE Drained'
  BY <1>32 DEF Connect, ControlTypes, Drained
<1>33. CASE SignalMain
  BY <1>33 DEF SignalMain, HandlerWrites, ControlTypes, Drained
<1>34. CASE SystemCallFails
  BY <1>34 DEF SystemCallFails, ControlTypes, Drained
<1>35. ASSUME NEW w \in Workers, SignalWorker(w) PROVE Drained'
  BY <1>35 DEF SignalWorker, ControlTypes, Drained
<1>36. ASSUME NEW w \in Workers, HandlerOnWorkerWrites(w) PROVE Drained'
  BY <1>36 DEF HandlerOnWorkerWrites, HandlerWrites, ControlTypes, Drained
<1>37. CASE UNCHANGED vars
  BY <1>37 DEF vars, ControlTypes, Drained
<1> QED BY NextCases, <1>1, <1>2, <1>3, <1>4, <1>5, <1>6, <1>7, <1>8, <1>9, <1>10, <1>11,
           <1>12, <1>13, <1>14, <1>15, <1>16, <1>17, <1>18, <1>19, <1>20, <1>21, <1>22,
           <1>23, <1>24, <1>25, <1>26, <1>27, <1>28, <1>29, <1>30, <1>31, <1>32, <1>33,
           <1>34, <1>35, <1>36, <1>37
  DEF Requests, WorkerSteps

\* Together with the control this is inductive.
LEMMA DrainedAlways == SafeSpec => []Drained
<1>1. Init => ControlTypes /\ Drained
  BY ControlTypesInit DEF Init, Drained, DrainedBeforeExit
<1>2. ControlTypes /\ Drained /\ [Next]_vars => (ControlTypes /\ Drained)'
  BY ControlTypesStep, DrainedStep
<1> QED BY <1>1, <1>2, PTL DEF SafeSpec

\* A worker ends only when the queue is closed and drained, and none is left,
\* or still in a signal handler, when WorkerPool::shutdown has returned.
THEOREM DrainedCorrect == SafeSpec => []DrainedBeforeExit
<1>1. Drained => DrainedBeforeExit
  BY DEF Drained
<1> QED BY <1>1, DrainedAlways, PTL

-----------------------------------------------------------------------------
\* While main's notification fd names the pipe, the pipe exists, until a server
\* is destroyed by an exception; a destructor reached without one finds the fd
\* reset.
Notified ==
  /\ pc = "install" => pipe_open
  /\ pc \in {"spawn", "install"} => path = "ctor"
  /\ pc \in Serving \cup {"returned", "report"} => path = "serve"
  /\ path = "ctor" => notification_fd = "unset"
  /\ path # "ctor" => notification_fd # "unset"
  /\ notification_fd # "unset" /\ pc \notin {"destroyed", "exited"} => pipe_open
  /\ pc = "report" => notification_fd = "none"
  /\ path = "dtor" /\ error = "none" => notification_fd = "none"
  /\ pc \in {"destroy", "destroyed"} => path = "dtor"
  /\ \A w \in Workers : handler[w] => pipe_open
  /\ NoStrayWriteOnNormalExit

\* Joining the workers before the pipe is destroyed is what keeps a handler that has
\* read the fd from writing too late.
LEMMA NotifiedStep ==
  ASSUME ControlTypes, Drained, Notified, [Next]_vars
  PROVE  Notified'
<1> USE DEF queueVars, kernelVars, mainVars, workerVars, historyVars, Serving,
    NoStrayWriteOnNormalExit
<1>1. ASSUME NEW w \in Workers, StartWorker(w) PROVE Notified'
  BY <1>1 DEF StartWorker, ControlTypes, Notified
<1>2. CASE StartFails
  BY <1>2 DEF StartFails, ControlTypes, Notified
<1>3. CASE MakeShutdownPipe
  BY <1>3 DEF MakeShutdownPipe, ControlTypes, Notified
<1>4. CASE InstallHandler
  BY <1>4 DEF InstallHandler, ControlTypes, Notified
<1>5. CASE InstallFails
  BY <1>5 DEF InstallFails, ControlTypes, Notified
<1>6. CASE LoopTest
  BY <1>6 DEF LoopTest, ControlTypes, Notified
<1>7. CASE Poll
  BY <1>7 DEF Poll, ControlTypes, Notified
<1>8. ASSUME NEW c \in Clients, Accept(c) PROVE Notified'
  BY <1>8 DEF Accept, Queue!PushCall, ControlTypes, Notified
<1>9. CASE DispatchPush
  BY <1>9 DEF DispatchPush, Queue!PushInsert, ControlTypes, Notified
<1>10. CASE DispatchCount
  BY <1>10 DEF DispatchCount, Queue!Return, ControlTypes, Notified
<1>11. CASE DispatchRefused
  BY <1>11 DEF DispatchRefused, Queue!PushReject, ControlTypes, Notified
<1>12. CASE RefusedCount
  BY <1>12, Zenon DEF RefusedCount, ControlTypes, Notified
<1>13. ASSUME NEW t \in Requesters \cup {Acceptor}, Exchange(t) PROVE Notified'
  BY <1>13 DEF Exchange, ControlTypes, Notified
<1>14. ASSUME NEW t \in Requesters \cup {Acceptor}, CloseQueue(t) PROVE Notified'
  BY <1>14 DEF CloseQueue, Queue!Close, ControlTypes, Notified
<1>15. ASSUME NEW t \in Requesters \cup {Acceptor}, WritePipe(t) PROVE Notified'
  BY <1>15 DEF WritePipe, ControlTypes, Notified
<1>16. CASE RequestReturns
  BY <1>16 DEF RequestReturns, ControlTypes, Notified
<1>17. CASE PoolClose
  BY <1>17 DEF PoolClose, Queue!Close, ControlTypes, Notified
<1>18. CASE Join
  BY <1>18 DEF Join, ControlTypes, Notified
<1>19. CASE ForgetNotificationFd
  BY <1>19 DEF ForgetNotificationFd, ControlTypes, Notified
<1>20. CASE Report
  BY <1>20 DEF Report, ControlTypes, Notified
<1>21. CASE Destroy
  BY <1>21 DEF Destroy, ControlTypes, Drained, DrainedBeforeExit, Notified
<1>22. CASE Exit
  BY <1>22 DEF Exit, ControlTypes, Notified
<1>23. ASSUME NEW w \in Workers, PopCall(w) PROVE Notified'
  BY <1>23 DEF PopCall, WorkerAt, WorkerGoes, Queue!PopCall, ControlTypes, Notified
<1>24. ASSUME NEW w \in Workers, PopTake(w) PROVE Notified'
  BY <1>24 DEF PopTake, WorkerAt, WorkerGoes, Queue!PopTake, ControlTypes, Notified
<1>25. ASSUME NEW w \in Workers, PopEmpty(w) PROVE Notified'
  BY <1>25 DEF PopEmpty, WorkerAt, WorkerGoes, Queue!PopEmpty, ControlTypes, Notified
<1>26. ASSUME NEW w \in Workers, ServeBegin(w) PROVE Notified'
  BY <1>26 DEF ServeBegin, WorkerAt, WorkerGoes, Queue!Return, ControlTypes, Notified
<1>27. ASSUME NEW w \in Workers, NEW r \in Results, ServeReturns(w, r) PROVE Notified'
  BY <1>27 DEF ServeReturns, WorkerAt, WorkerGoes, ControlTypes, Notified
<1>28. ASSUME NEW w \in Workers, CloseServed(w) PROVE Notified'
  BY <1>28 DEF CloseServed, WorkerAt, WorkerGoes, Queue!Discard, ControlTypes, Notified
<1>29. ASSUME NEW w \in Workers, ServeThrows(w) PROVE Notified'
  BY <1>29 DEF ServeThrows, WorkerAt, WorkerGoes, Queue!Discard, ControlTypes, Notified
<1>30. ASSUME NEW w \in Workers, CatchError(w) PROVE Notified'
  BY <1>30 DEF CatchError, WorkerAt, WorkerGoes, ControlTypes, Notified
<1>31. ASSUME NEW w \in Workers, ServeEnd(w) PROVE Notified'
  BY <1>31 DEF ServeEnd, WorkerAt, WorkerGoes, ControlTypes, Notified
<1>32. ASSUME NEW c \in Clients, Connect(c) PROVE Notified'
  BY <1>32 DEF Connect, ControlTypes, Notified
<1>33. CASE SignalMain
  BY <1>33 DEF SignalMain, HandlerWrites, ControlTypes, Notified
<1>34. CASE SystemCallFails
  BY <1>34 DEF SystemCallFails, ControlTypes, Notified
<1>35. ASSUME NEW w \in Workers, SignalWorker(w) PROVE Notified'
  BY <1>35 DEF SignalWorker, ControlTypes, Drained, DrainedBeforeExit, Notified
<1>36. ASSUME NEW w \in Workers, HandlerOnWorkerWrites(w) PROVE Notified'
  BY <1>36 DEF HandlerOnWorkerWrites, HandlerWrites, ControlTypes, Drained, Notified
<1>37. CASE UNCHANGED vars
  BY <1>37 DEF vars, ControlTypes, Notified
<1> QED BY NextCases, <1>1, <1>2, <1>3, <1>4, <1>5, <1>6, <1>7, <1>8, <1>9, <1>10, <1>11,
           <1>12, <1>13, <1>14, <1>15, <1>16, <1>17, <1>18, <1>19, <1>20, <1>21, <1>22,
           <1>23, <1>24, <1>25, <1>26, <1>27, <1>28, <1>29, <1>30, <1>31, <1>32, <1>33,
           <1>34, <1>35, <1>36, <1>37
  DEF Requests, WorkerSteps

\* Unless serve_forever or the set-up threw, no signal handler writes to the
\* pipe after it was destroyed.
THEOREM NormalExitCorrect == SafeSpec => []NoStrayWriteOnNormalExit
<1>1. Init => ControlTypes /\ Drained /\ Notified
  BY ControlTypesInit
  DEF Init, Drained, DrainedBeforeExit, Notified, NoStrayWriteOnNormalExit,
                              Serving
<1>2. ControlTypes /\ Drained /\ Notified /\ [Next]_vars => (ControlTypes /\ Drained /\ Notified)'
  BY ControlTypesStep, DrainedStep, NotifiedStep
<1>3. Notified => NoStrayWriteOnNormalExit
  BY DEF Notified
<1> QED BY <1>1, <1>2, <1>3, PTL DEF SafeSpec

-----------------------------------------------------------------------------
\* The acceptor reaches accept only from a poll that found the pipe empty.
LateAccepts ==
  /\ late \in 0..1
  /\ ~pipe => late = 0
  /\ late = 1 => pc # "accept"

\* The byte stays in the pipe, so every later poll leads to request_shutdown.
LEMMA LateAcceptsStep ==
  ASSUME LateAccepts, [Next]_vars
  PROVE  LateAccepts'
<1> USE DEF queueVars, kernelVars, mainVars, workerVars, historyVars
<1>1. ASSUME NEW w \in Workers, StartWorker(w) PROVE LateAccepts'
  BY <1>1 DEF StartWorker, LateAccepts
<1>2. CASE StartFails
  BY <1>2 DEF StartFails, LateAccepts
<1>3. CASE MakeShutdownPipe
  BY <1>3 DEF MakeShutdownPipe, LateAccepts
<1>4. CASE InstallHandler
  BY <1>4 DEF InstallHandler, LateAccepts
<1>5. CASE InstallFails
  BY <1>5 DEF InstallFails, LateAccepts
<1>6. CASE LoopTest
  BY <1>6 DEF LoopTest, LateAccepts
<1>7. CASE Poll
  BY <1>7 DEF Poll, LateAccepts
<1>8. ASSUME NEW c \in Clients, Accept(c) PROVE LateAccepts'
  BY <1>8 DEF Accept, LateAccepts
<1>9. CASE DispatchPush
  BY <1>9 DEF DispatchPush, LateAccepts
<1>10. CASE DispatchCount
  BY <1>10 DEF DispatchCount, LateAccepts
<1>11. CASE DispatchRefused
  BY <1>11 DEF DispatchRefused, LateAccepts
<1>12. CASE RefusedCount
  BY <1>12, Zenon DEF RefusedCount, LateAccepts
<1>13. ASSUME NEW t \in Requesters \cup {Acceptor}, Exchange(t) PROVE LateAccepts'
  BY <1>13 DEF Exchange, LateAccepts
<1>14. ASSUME NEW t \in Requesters \cup {Acceptor}, CloseQueue(t) PROVE LateAccepts'
  BY <1>14 DEF CloseQueue, LateAccepts
<1>15. ASSUME NEW t \in Requesters \cup {Acceptor}, WritePipe(t) PROVE LateAccepts'
  BY <1>15 DEF WritePipe, LateAccepts
<1>16. CASE RequestReturns
  BY <1>16 DEF RequestReturns, LateAccepts
<1>17. CASE PoolClose
  BY <1>17 DEF PoolClose, LateAccepts
<1>18. CASE Join
  BY <1>18 DEF Join, LateAccepts
<1>19. CASE ForgetNotificationFd
  BY <1>19 DEF ForgetNotificationFd, LateAccepts
<1>20. CASE Report
  BY <1>20 DEF Report, LateAccepts
<1>21. CASE Destroy
  BY <1>21 DEF Destroy, LateAccepts
<1>22. CASE Exit
  BY <1>22 DEF Exit, LateAccepts
<1>23. ASSUME NEW w \in Workers, PopCall(w) PROVE LateAccepts'
  BY <1>23 DEF PopCall, WorkerAt, WorkerGoes, LateAccepts
<1>24. ASSUME NEW w \in Workers, PopTake(w) PROVE LateAccepts'
  BY <1>24 DEF PopTake, WorkerAt, WorkerGoes, LateAccepts
<1>25. ASSUME NEW w \in Workers, PopEmpty(w) PROVE LateAccepts'
  BY <1>25 DEF PopEmpty, WorkerAt, WorkerGoes, LateAccepts
<1>26. ASSUME NEW w \in Workers, ServeBegin(w) PROVE LateAccepts'
  BY <1>26 DEF ServeBegin, WorkerAt, WorkerGoes, LateAccepts
<1>27. ASSUME NEW w \in Workers, NEW r \in Results, ServeReturns(w, r) PROVE LateAccepts'
  BY <1>27 DEF ServeReturns, WorkerAt, WorkerGoes, LateAccepts
<1>28. ASSUME NEW w \in Workers, CloseServed(w) PROVE LateAccepts'
  BY <1>28 DEF CloseServed, WorkerAt, WorkerGoes, LateAccepts
<1>29. ASSUME NEW w \in Workers, ServeThrows(w) PROVE LateAccepts'
  BY <1>29 DEF ServeThrows, WorkerAt, WorkerGoes, LateAccepts
<1>30. ASSUME NEW w \in Workers, CatchError(w) PROVE LateAccepts'
  BY <1>30 DEF CatchError, WorkerAt, WorkerGoes, LateAccepts
<1>31. ASSUME NEW w \in Workers, ServeEnd(w) PROVE LateAccepts'
  BY <1>31 DEF ServeEnd, WorkerAt, WorkerGoes, LateAccepts
<1>32. ASSUME NEW c \in Clients, Connect(c) PROVE LateAccepts'
  BY <1>32 DEF Connect, LateAccepts
<1>33. CASE SignalMain
  BY <1>33 DEF SignalMain, HandlerWrites, LateAccepts
<1>34. CASE SystemCallFails
  BY <1>34 DEF SystemCallFails, LateAccepts
<1>35. ASSUME NEW w \in Workers, SignalWorker(w) PROVE LateAccepts'
  BY <1>35 DEF SignalWorker, LateAccepts
<1>36. ASSUME NEW w \in Workers, HandlerOnWorkerWrites(w) PROVE LateAccepts'
  BY <1>36 DEF HandlerOnWorkerWrites, HandlerWrites, LateAccepts
<1>37. CASE UNCHANGED vars
  BY <1>37 DEF vars, LateAccepts
<1> QED BY NextCases, <1>1, <1>2, <1>3, <1>4, <1>5, <1>6, <1>7, <1>8, <1>9, <1>10, <1>11,
           <1>12, <1>13, <1>14, <1>15, <1>16, <1>17, <1>18, <1>19, <1>20, <1>21, <1>22,
           <1>23, <1>24, <1>25, <1>26, <1>27, <1>28, <1>29, <1>30, <1>31, <1>32, <1>33,
           <1>34, <1>35, <1>36, <1>37
  DEF Requests, WorkerSteps

\* At most one connection is accepted once a byte is in the shutdown pipe.
THEOREM StopsAcceptingCorrect == SafeSpec => []StopsAccepting
<1>1. Init => LateAccepts
  BY DEF Init, LateAccepts
<1>2. LateAccepts /\ [Next]_vars => LateAccepts'
  BY LateAcceptsStep
<1>3. LateAccepts => StopsAccepting
  BY DEF LateAccepts, StopsAccepting
<1> QED BY <1>1, <1>2, <1>3, PTL DEF SafeSpec

-----------------------------------------------------------------------------
\* Without another thread that calls request_shutdown, the queue is closed only
\* by the acceptor itself, when it has stopped accepting.
OnlyAcceptorCloses ==
  /\ fate \in [Clients -> {"pending", "served", "failed", "refused"}]
  /\ rs[Acceptor] # "idle" => pc = "request"
  /\ pc \in {"spawn", "install"} => path = "ctor"
  /\ pc \in {"spawn", "install"} \cup Serving => ~closed
  /\ pc # "refused"
  /\ AcceptedIsServed

\* The acceptor is in request_shutdown only when it has left the loop.
LEMMA OnlyAcceptorClosesStep ==
  ASSUME Requesters = {}, ControlTypes, OnlyAcceptorCloses, [Next]_vars
  PROVE  OnlyAcceptorCloses'
<1> USE DEF queueVars, kernelVars, mainVars, workerVars, historyVars, Serving,
    AcceptedIsServed
<1>1. ASSUME NEW w \in Workers, StartWorker(w) PROVE OnlyAcceptorCloses'
  BY <1>1 DEF StartWorker, ControlTypes, OnlyAcceptorCloses
<1>2. CASE StartFails
  BY <1>2 DEF StartFails, ControlTypes, OnlyAcceptorCloses
<1>3. CASE MakeShutdownPipe
  BY <1>3 DEF MakeShutdownPipe, ControlTypes, OnlyAcceptorCloses
<1>4. CASE InstallHandler
  BY <1>4 DEF InstallHandler, ControlTypes, OnlyAcceptorCloses
<1>5. CASE InstallFails
  BY <1>5 DEF InstallFails, ControlTypes, OnlyAcceptorCloses
<1>6. CASE LoopTest
  BY <1>6 DEF LoopTest, ControlTypes, OnlyAcceptorCloses
<1>7. CASE Poll
  BY <1>7 DEF Poll, ControlTypes, OnlyAcceptorCloses
<1>8. ASSUME NEW c \in Clients, Accept(c) PROVE OnlyAcceptorCloses'
  BY <1>8 DEF Accept, Queue!PushCall, ControlTypes, OnlyAcceptorCloses
<1>9. CASE DispatchPush
  BY <1>9 DEF DispatchPush, Queue!PushInsert, ControlTypes, OnlyAcceptorCloses
<1>10. CASE DispatchCount
  BY <1>10 DEF DispatchCount, Queue!Return, ControlTypes, OnlyAcceptorCloses
<1>11. CASE DispatchRefused
  BY <1>11 DEF DispatchRefused, Queue!PushReject, ControlTypes, OnlyAcceptorCloses
<1>12. CASE RefusedCount
  BY <1>12, Zenon DEF RefusedCount, ControlTypes, OnlyAcceptorCloses
<1>13. ASSUME NEW t \in Requesters \cup {Acceptor}, Exchange(t) PROVE OnlyAcceptorCloses'
  BY <1>13 DEF Exchange, ControlTypes, OnlyAcceptorCloses
<1>14. ASSUME NEW t \in Requesters \cup {Acceptor}, CloseQueue(t) PROVE OnlyAcceptorCloses'
  BY <1>14 DEF CloseQueue, Queue!Close, ControlTypes, OnlyAcceptorCloses
<1>15. ASSUME NEW t \in Requesters \cup {Acceptor}, WritePipe(t) PROVE OnlyAcceptorCloses'
  BY <1>15 DEF WritePipe, ControlTypes, OnlyAcceptorCloses
<1>16. CASE RequestReturns
  BY <1>16 DEF RequestReturns, ControlTypes, OnlyAcceptorCloses
<1>17. CASE PoolClose
  BY <1>17 DEF PoolClose, Queue!Close, ControlTypes, OnlyAcceptorCloses
<1>18. CASE Join
  BY <1>18 DEF Join, ControlTypes, OnlyAcceptorCloses
<1>19. CASE ForgetNotificationFd
  BY <1>19 DEF ForgetNotificationFd, ControlTypes, OnlyAcceptorCloses
<1>20. CASE Report
  BY <1>20 DEF Report, ControlTypes, OnlyAcceptorCloses
<1>21. CASE Destroy
  BY <1>21 DEF Destroy, ControlTypes, OnlyAcceptorCloses
<1>22. CASE Exit
  BY <1>22 DEF Exit, ControlTypes, OnlyAcceptorCloses
<1>23. ASSUME NEW w \in Workers, PopCall(w) PROVE OnlyAcceptorCloses'
  BY <1>23 DEF PopCall, WorkerAt, WorkerGoes, Queue!PopCall, ControlTypes,
      OnlyAcceptorCloses
<1>24. ASSUME NEW w \in Workers, PopTake(w) PROVE OnlyAcceptorCloses'
  BY <1>24 DEF PopTake, WorkerAt, WorkerGoes, Queue!PopTake, ControlTypes,
      OnlyAcceptorCloses
<1>25. ASSUME NEW w \in Workers, PopEmpty(w) PROVE OnlyAcceptorCloses'
  BY <1>25 DEF PopEmpty, WorkerAt, WorkerGoes, Queue!PopEmpty, ControlTypes,
      OnlyAcceptorCloses
<1>26. ASSUME NEW w \in Workers, ServeBegin(w) PROVE OnlyAcceptorCloses'
  BY <1>26 DEF ServeBegin, WorkerAt, WorkerGoes, Queue!Return, ControlTypes,
      OnlyAcceptorCloses
<1>27. ASSUME NEW w \in Workers, NEW r \in Results, ServeReturns(w, r) PROVE OnlyAcceptorCloses'
  BY <1>27, Zenon DEF ServeReturns, WorkerAt, WorkerGoes, ControlTypes, OnlyAcceptorCloses
<1>28. ASSUME NEW w \in Workers, CloseServed(w) PROVE OnlyAcceptorCloses'
  BY <1>28, Zenon DEF CloseServed, WorkerAt, WorkerGoes, Queue!Discard, ControlTypes,
      OnlyAcceptorCloses
<1>29. ASSUME NEW w \in Workers, ServeThrows(w) PROVE OnlyAcceptorCloses'
  BY <1>29, Zenon DEF ServeThrows, WorkerAt, WorkerGoes, Queue!Discard, ControlTypes,
      OnlyAcceptorCloses
<1>30. ASSUME NEW w \in Workers, CatchError(w) PROVE OnlyAcceptorCloses'
  BY <1>30 DEF CatchError, WorkerAt, WorkerGoes, ControlTypes, OnlyAcceptorCloses
<1>31. ASSUME NEW w \in Workers, ServeEnd(w) PROVE OnlyAcceptorCloses'
  BY <1>31 DEF ServeEnd, WorkerAt, WorkerGoes, ControlTypes, OnlyAcceptorCloses
<1>32. ASSUME NEW c \in Clients, Connect(c) PROVE OnlyAcceptorCloses'
  BY <1>32, Zenon DEF Connect, ControlTypes, OnlyAcceptorCloses
<1>33. CASE SignalMain
  BY <1>33, Zenon DEF SignalMain, HandlerWrites, ControlTypes, OnlyAcceptorCloses
<1>34. CASE SystemCallFails
  BY <1>34, Zenon DEF SystemCallFails, ControlTypes, OnlyAcceptorCloses
<1>35. ASSUME NEW w \in Workers, SignalWorker(w) PROVE OnlyAcceptorCloses'
  BY <1>35, Zenon DEF SignalWorker, ControlTypes, OnlyAcceptorCloses
<1>36. ASSUME NEW w \in Workers, HandlerOnWorkerWrites(w) PROVE OnlyAcceptorCloses'
  BY <1>36 DEF HandlerOnWorkerWrites, HandlerWrites, ControlTypes, OnlyAcceptorCloses
<1>37. CASE UNCHANGED vars
  BY <1>37, Zenon DEF vars, ControlTypes, OnlyAcceptorCloses
<1> QED BY NextCases, <1>1, <1>2, <1>3, <1>4, <1>5, <1>6, <1>7, <1>8, <1>9, <1>10, <1>11,
           <1>12, <1>13, <1>14, <1>15, <1>16, <1>17, <1>18, <1>19, <1>20, <1>21, <1>22,
           <1>23, <1>24, <1>25, <1>26, <1>27, <1>28, <1>29, <1>30, <1>31, <1>32, <1>33,
           <1>34, <1>35, <1>36, <1>37, Zenon
  DEF Requests, WorkerSteps

\* When only signals shut the server down, every accepted connection is served
\* or fails in service: none is closed because the queue refused it.
THEOREM SignalsRefuseNobody ==
  ASSUME Requesters = {}
  PROVE  SafeSpec => []AcceptedIsServed
<1>1. Init => ControlTypes /\ OnlyAcceptorCloses
  BY ControlTypesInit DEF Init, OnlyAcceptorCloses, AcceptedIsServed, Serving, Queue!Init
<1>2. ControlTypes /\ OnlyAcceptorCloses /\ [Next]_vars => (ControlTypes /\ OnlyAcceptorCloses)'
  BY ControlTypesStep, OnlyAcceptorClosesStep
<1>3. OnlyAcceptorCloses => AcceptedIsServed
  BY DEF OnlyAcceptorCloses
<1> QED BY <1>1, <1>2, <1>3, PTL DEF SafeSpec

-----------------------------------------------------------------------------
\* Who owns an accepted descriptor: the acceptor, a slot of the queue, a worker,
\* or nobody once it is closed; never two of them.

\* Who owns a descriptor.
Owned(c) == (\E i \in 1..Len(queue) : queue[i] = c) \/ (\E t \in Threads : held[t] = c)

OwnerTypes ==
  /\ fresh \subseteq Clients /\ gone \subseteq Clients /\ gone \cap fresh = {}
  /\ queue \in Seq(Clients) /\ Len(queue) <= Capacity
  /\ op \in [Threads -> {"idle", "called", "done"}]
  /\ held \in [Threads -> Clients \cup {NoClient}]
  /\ op[Acceptor] = "called" => held[Acceptor] # NoClient
  /\ op[Acceptor] # "called" => held[Acceptor] = NoClient
  /\ \A w \in Workers : op[w] = "called" => held[w] = NoClient

\* No descriptor has two owners.
SingleOwner ==
  /\ \A i, j \in 1..Len(queue) : queue[i] = queue[j] => i = j
  /\ \A t, u \in Threads : held[t] # NoClient /\ held[t] = held[u] => t = u
  /\ \A t \in Threads, i \in 1..Len(queue) : queue[i] # held[t]

Ownership ==
  /\ OwnerTypes
  /\ SingleOwner
  /\ \A c \in Clients : Owned(c) <=> (c \notin fresh /\ c \notin gone)

\* A new descriptor is with the acceptor.
LEMMA CallOwns ==
  ASSUME Ownership, NEW c \in Clients, Queue!PushCall(Acceptor, c), UNCHANGED gone
  PROVE  Ownership'
<1> USE DEF Queue!PushCall, Ownership, OwnerTypes, Threads
<1>1. OwnerTypes'
  BY ServerAssumption, Zenon
<1>2. held'[Acceptor] = c /\ \A t \in Workers : held'[t] = held[t]
  BY ServerAssumption, Zenon
<1>3. /\ held[Acceptor] = NoClient /\ c \in fresh /\ fresh' = fresh \ {c}
      /\ queue' = queue /\ gone' = gone /\ gone \cap fresh = {} /\ SingleOwner
      /\ \A d \in Clients : Owned(d) <=> (d \notin fresh /\ d \notin gone)
  BY Zenon
<1> HIDE DEF Queue!PushCall, Ownership, OwnerTypes
<1>4. ~Owned(c)
  BY <1>3, Zenon
<1>5. SingleOwner'
  <2>1. \A t \in Threads : held[t] # c
    BY <1>4, Zenon DEF Owned
  <2>2. ASSUME NEW t \in Threads, NEW u \in Threads, held'[t] # NoClient, held'[t] = held'[u]
        PROVE  t = u
    BY <1>2, <1>3, <2>1, <2>2, Zenon DEF SingleOwner
  <2>3. ASSUME NEW t \in Threads, NEW i \in 1..Len(queue) PROVE queue[i] # held'[t]
    <3>1. queue[i] # c
      BY <1>4, Zenon DEF Owned
    <3>2. CASE t = Acceptor
      BY <1>2, <3>1, <3>2, Zenon
    <3>3. CASE t \in Workers
      BY <1>2, <1>3, <3>3, Zenon DEF SingleOwner
    <3> QED BY <3>2, <3>3, Zenon
  <2>4. \A i, j \in 1..Len(queue) : queue[i] = queue[j] => i = j
    BY <1>3, Zenon DEF SingleOwner
  <2> QED BY <1>3, <2>2, <2>3, <2>4, Zenon DEF SingleOwner
<1>6. ASSUME NEW d \in Clients PROVE Owned(d)' <=> (Owned(d) \/ d = c)
  <2>1. (\E t \in Threads : held'[t] = d) <=> ((\E t \in Threads : held[t] = d) \/ d = c)
    BY <1>2, <1>3, ServerAssumption, Zenon
  <2> QED BY <1>3, <2>1, Zenon DEF Owned
<1>7. \A d \in Clients : Owned(d)' <=> (d \notin fresh' /\ d \notin gone')
  BY <1>3, <1>6
<1> QED BY <1>1, <1>5, <1>7, Zenon DEF Ownership

\* A sequence with one element more.
LEMMA AppendedTo ==
  ASSUME NEW S, NEW q \in Seq(S), NEW x \in S
  PROVE  /\ Append(q, x) \in Seq(S) /\ Append(q, x) # <<>>
         /\ Len(Append(q, x)) = Len(q) + 1 /\ Len(q) \in Nat
         /\ \A i \in 1..Len(q) : Append(q, x)[i] = q[i]
         /\ Append(q, x)[Len(q) + 1] = x
  BY AppendProperties, LenProperties

\* push moves the acceptor's descriptor to the end of the queue.
LEMMA InsertOwns ==
  ASSUME Ownership, Queue!PushInsert(Acceptor), UNCHANGED gone
  PROVE  Ownership'
<1> USE DEF Queue!PushInsert, Ownership, OwnerTypes, Threads
<1> DEFINE x == held[Acceptor]
           n == Len(queue)
<1>0. /\ queue \in Seq(Clients) /\ queue' = Append(queue, x) /\ Len(queue) < Capacity
      /\ held \in [Threads -> Clients \cup {NoClient}] /\ op \in [Threads -> {"idle", "called", "done"}]
      /\ held' = [held EXCEPT ![Acceptor] = NoClient] /\ op' = [op EXCEPT ![Acceptor] = "done"]
      /\ fresh' = fresh /\ gone' = gone /\ OwnerTypes /\ SingleOwner
  BY Zenon
<1>1. x \in Clients
  OBVIOUS
<1> HIDE DEF Queue!PushInsert, Ownership, OwnerTypes
<1>2. /\ queue' \in Seq(Clients) /\ Len(queue') = n + 1 /\ n \in Nat
      /\ \A i \in 1..n : queue'[i] = queue[i]
      /\ queue'[n + 1] = x
  <2>1. /\ Append(queue, x) \in Seq(Clients) /\ Len(Append(queue, x)) = n + 1 /\ n \in Nat
        /\ \A i \in 1..n : Append(queue, x)[i] = queue[i]
        /\ Append(queue, x)[n + 1] = x
    <3>1. queue \in Seq(Clients) /\ x \in Clients
      BY <1>0, <1>1, Zenon
    <3> HIDE DEF x
    <3> QED BY <3>1, AppendedTo
  <2> QED BY <1>0, <2>1, Zenon
<1>3. held'[Acceptor] = NoClient /\ \A t \in Workers : held'[t] = held[t]
  BY <1>0, ServerAssumption, Zenon DEF Threads
<1>4. OwnerTypes'
  <2>1. op' \in [Threads -> {"idle", "called", "done"}] /\ held' \in [Threads -> Clients \cup {NoClient}]
    BY <1>0, Zenon DEF Threads
  <2>2. op'[Acceptor] = "done" /\ \A w \in Workers : op'[w] = op[w]
    BY <1>0, ServerAssumption, Zenon DEF Threads
  <2>3. Len(queue') <= Capacity
    BY <1>0, <1>2, ServerAssumption
  <2> QED BY <1>0, <1>2, <1>3, <2>1, <2>2, <2>3, Zenon DEF OwnerTypes
<1>5. \A i \in 1..n + 1 : i \in 1..n \/ i = n + 1
  BY <1>2
<1>6. (\A i \in 1..n : i \in 1..n + 1) /\ n + 1 \in 1..n + 1
  BY <1>2
<1> HIDE DEF n
<1>7. \A i \in 1..n : queue[i] # x
  BY <1>0, Zenon DEF SingleOwner, n, Threads
<1>8. SingleOwner'
  <2>1. \A i, j \in 1..n + 1 : queue'[i] = queue'[j] => i = j
    <3>1. \A i, j \in 1..n : queue[i] = queue[j] => i = j
      BY <1>0, Zenon DEF SingleOwner, n
    <3>2. ASSUME NEW i \in 1..n + 1, NEW j \in 1..n + 1, queue'[i] = queue'[j] PROVE i = j
      <4>1. CASE i \in 1..n /\ j \in 1..n
        BY <1>2, <3>1, <3>2, <4>1, Zenon
      <4>2. CASE i = n + 1 /\ j \in 1..n
        BY <1>2, <1>7, <3>2, <4>2, Zenon
      <4>3. CASE i \in 1..n /\ j = n + 1
        BY <1>2, <1>7, <3>2, <4>3, Zenon
      <4>4. CASE i = n + 1 /\ j = n + 1
        BY <4>4, Zenon
      <4> QED BY <1>5, <4>1, <4>2, <4>3, <4>4, Zenon
    <3> QED BY <3>2, Zenon
  <2>2. \A t, u \in Threads : held'[t] # NoClient /\ held'[t] = held'[u] => t = u
    BY <1>0, <1>3, Zenon DEF SingleOwner, Threads
  <2>3. \A t \in Threads, i \in 1..n + 1 : queue'[i] # held'[t]
    <3>1. \A i \in 1..n + 1 : queue'[i] \in Clients
      BY <1>2, ElementOfSeq, Zenon
    <3>2. \A t \in Workers : held[t] # x
      BY <1>0, <1>1, ServerAssumption, Zenon DEF SingleOwner, Threads
    <3>3. ASSUME NEW t \in Workers, NEW i \in 1..n PROVE queue[i] # held[t]
      BY <1>0, Zenon DEF SingleOwner, n, Threads
    <3>4. ASSUME NEW t \in Workers, NEW i \in 1..n + 1 PROVE queue'[i] # held'[t]
      BY <1>2, <1>3, <1>5, <3>2, <3>3, Zenon
    <3>5. \A i \in 1..n + 1 : queue'[i] # held'[Acceptor]
      BY <1>3, <3>1, ServerAssumption, Zenon
    <3> QED BY <3>4, <3>5, Zenon DEF Threads
  <2> QED BY <1>2, <2>1, <2>2, <2>3, Zenon DEF SingleOwner
<1>9. ASSUME NEW d \in Clients PROVE Owned(d)' <=> Owned(d)
  <2>1. (\E i \in 1..n + 1 : queue'[i] = d) <=> ((\E i \in 1..n : queue[i] = d) \/ d = x)
    BY <1>2, <1>5, <1>6, Zenon
  <2>2. (\E t \in Threads : held[t] = d) <=> ((\E t \in Threads : held'[t] = d) \/ d = x)
    BY <1>3, ServerAssumption, Zenon DEF Threads
  <2> QED BY <1>2, <2>1, <2>2, Zenon DEF Owned, n
<1> QED BY <1>0, <1>4, <1>8, <1>9, Zenon DEF Ownership

\* pop moves the oldest descriptor of the queue to a worker.
LEMMA TakeOwns ==
  ASSUME Ownership, NEW w \in Workers, Queue!PopTake(w), UNCHANGED gone
  PROVE  Ownership'
<1> USE DEF Queue!PopTake, Ownership, OwnerTypes, Threads
<1> DEFINE x == Head(queue)
           n == Len(queue)
<1>1. /\ n \in Nat /\ n >= 1 /\ x = queue[1] /\ x \in Clients
      /\ queue' \in Seq(Clients) /\ Len(queue') = n - 1
      /\ \A i \in 1..n - 1 : queue'[i] = queue[i + 1]
  BY HeadTailProperties, LenProperties, EmptySeq, ElementOfSeq
<1>2. held'[w] = x /\ held[w] = NoClient /\ \A t \in Threads : t # w => held'[t] = held[t]
  BY ServerAssumption, Zenon
<1>3. /\ op' \in [Threads -> {"idle", "called", "done"}] /\ op'[w] = "done" /\ w # Acceptor
      /\ \A t \in Threads : t # w => op'[t] = op[t]
  BY ServerAssumption, Zenon
<1>4. held' = [held EXCEPT ![w] = x] /\ fresh' = fresh /\ gone' = gone /\ OwnerTypes /\ SingleOwner
  BY Zenon
<1> HIDE DEF Queue!PopTake, Ownership, OwnerTypes, x
<1>5. OwnerTypes'
  <2>1. held' \in [Threads -> Clients \cup {NoClient}]
    BY <1>1, <1>4, Zenon DEF OwnerTypes
  <2>2. Len(queue') <= Capacity
    <3>1. n <= Capacity
      BY <1>4, Zenon DEF OwnerTypes
    <3>2. Capacity \in Nat /\ n \in Nat /\ Len(queue') = n - 1
      BY <1>1, ServerAssumption, Zenon
    <3> HIDE DEF n
    <3> QED BY <3>1, <3>2
  <2>3. held'[Acceptor] = held[Acceptor] /\ op'[Acceptor] = op[Acceptor]
    BY <1>2, <1>3, Zenon
  <2>4. \A t \in Workers : op'[t] = "called" => held'[t] = NoClient
    BY <1>2, <1>3, <1>4, Zenon DEF OwnerTypes
  <2> QED BY <1>1, <1>3, <1>4, <2>1, <2>2, <2>3, <2>4, Zenon DEF OwnerTypes
<1>6. \A i \in 1..n - 1 : i + 1 \in 1..n /\ i + 1 # 1
  BY <1>1
<1>7. \A i \in 1..n : i = 1 \/ (i - 1 \in 1..n - 1 /\ (i - 1) + 1 = i)
  BY <1>1
<1>8. 1 \in 1..n
  BY <1>1
<1>9. \A i, j \in 1..n - 1 : i + 1 = j + 1 => i = j
  BY <1>1
<1>10. Len(queue) = n
  OBVIOUS
<1> HIDE DEF n
<1>11. /\ \A i, j \in 1..n : queue[i] = queue[j] => i = j
       /\ \A t, u \in Threads : held[t] # NoClient /\ held[t] = held[u] => t = u
       /\ \A t \in Threads, i \in 1..n : queue[i] # held[t]
  BY <1>4, <1>10, Zenon DEF SingleOwner
<1>12. SingleOwner'
  <2>1. \A i, j \in 1..n - 1 : queue'[i] = queue'[j] => i = j
    <3>1. ASSUME NEW i \in 1..n - 1, NEW j \in 1..n - 1, queue'[i] = queue'[j] PROVE i = j
      <4>1. queue[i + 1] = queue[j + 1]
        BY <1>1, <3>1, Zenon
      <4>2. i + 1 \in 1..n /\ j + 1 \in 1..n
        BY <1>6, Zenon
      <4>3. i + 1 = j + 1
        BY <1>11, <4>1, <4>2, Zenon
      <4> QED BY <1>9, <4>3, Zenon
    <3> QED BY <3>1, Zenon
  <2>2. \A t, u \in Threads : held'[t] # NoClient /\ held'[t] = held'[u] => t = u
    <3>1. \A t \in Threads : held[t] # x
      BY <1>1, <1>8, <1>11, Zenon
    <3> QED BY <1>2, <1>11, <3>1, Zenon
  <2>3. \A t \in Threads, i \in 1..n - 1 : queue'[i] # held'[t]
    <3>1. \A i \in 1..n - 1 : queue[i + 1] # x
      BY <1>1, <1>6, <1>8, <1>11, Zenon
    <3>2. ASSUME NEW t \in Threads, NEW i \in 1..n - 1 PROVE queue'[i] # held'[t]
      <4>1. queue'[i] = queue[i + 1] /\ i + 1 \in 1..n
        BY <1>1, <1>6, Zenon
      <4>2. queue[i + 1] # held[t]
        BY <1>11, <4>1, Zenon
      <4> QED BY <1>2, <3>1, <4>1, <4>2, Zenon
    <3> QED BY <3>2, Zenon
  <2> QED BY <1>1, <2>1, <2>2, <2>3, Zenon DEF SingleOwner
<1>13. ASSUME NEW d \in Clients PROVE Owned(d)' <=> Owned(d)
  <2>1. (\E i \in 1..n : queue[i] = d) <=> ((\E i \in 1..n - 1 : queue'[i] = d) \/ d = x)
    <3>1. ASSUME NEW i \in 1..n, queue[i] = d, d # x
          PROVE  \E j \in 1..n - 1 : queue'[j] = d
      <4>1. i - 1 \in 1..n - 1 /\ (i - 1) + 1 = i
        BY <1>1, <1>7, <3>1, Zenon
      <4>2. queue'[i - 1] = d
        BY <1>1, <3>1, <4>1, Zenon
      <4> QED BY <4>1, <4>2, Zenon
    <3>2. ASSUME NEW j \in 1..n - 1, queue'[j] = d
          PROVE  \E i \in 1..n : queue[i] = d
      BY <1>1, <1>6, <3>2, Zenon
    <3>3. queue[1] = x /\ 1 \in 1..n
      BY <1>1, <1>8, Zenon
    <3> QED BY <3>1, <3>2, <3>3, Zenon
  <2>2. (\E t \in Threads : held'[t] = d) <=> ((\E t \in Threads : held[t] = d) \/ d = x)
    <3>1. w \in Threads
      BY Zenon DEF Threads
    <3> QED BY <1>2, <3>1, ServerAssumption, Zenon
  <2> QED BY <1>1, <1>10, <2>1, <2>2, Zenon DEF Owned
<1> QED BY <1>4, <1>5, <1>12, <1>13, Zenon DEF Ownership

\* A thread closes the descriptor it owns.
LEMMA CloseOwns ==
  ASSUME Ownership, NEW t \in Threads, held[t] # NoClient,
         held' = [held EXCEPT ![t] = NoClient], gone' = gone \cup {held[t]},
         UNCHANGED <<fresh, queue>>, OwnerTypes'
  PROVE  Ownership'
<1>1. held[t] \in Clients /\ held'[t] = NoClient /\ held \in [Threads -> Clients \cup {NoClient}]
  BY Zenon DEF Ownership, OwnerTypes
<1>2. held'[t] = NoClient /\ \A u \in Threads : u # t => held'[u] = held[u]
  BY <1>1, Zenon
<1>3. SingleOwner'
  <2>1. \A i \in 1..Len(queue) : queue[i] # NoClient
    <3>1. queue \in Seq(Clients)
      BY Zenon DEF Ownership, OwnerTypes
    <3>2. \A i \in 1..Len(queue) : queue[i] \in Clients
      BY <3>1, ElementOfSeq, Zenon
    <3> QED BY <3>2, ServerAssumption, Zenon
  <2>2. SingleOwner
    BY Zenon DEF Ownership
  <2>3. \A u, v \in Threads : held'[u] # NoClient /\ held'[u] = held'[v] => u = v
    BY <1>2, <2>2, Zenon DEF SingleOwner
  <2>4. \A u \in Threads, i \in 1..Len(queue) : queue[i] # held'[u]
    BY <1>2, <2>1, <2>2, Zenon DEF SingleOwner
  <2> QED BY <2>2, <2>3, <2>4, Zenon DEF SingleOwner
<1>4. ASSUME NEW d \in Clients PROVE Owned(d)' <=> (Owned(d) /\ d # held[t])
  <2>1. \A u \in Threads : held[u] = held[t] => u = t
    BY Zenon DEF SingleOwner, Ownership
  <2>2. (\E u \in Threads : held'[u] = d) <=> ((\E u \in Threads : held[u] = d) /\ d # held[t])
    BY <1>2, <2>1, ServerAssumption, Zenon
  <2>3. \A i \in 1..Len(queue) : queue[i] # held[t]
    BY Zenon DEF SingleOwner, Ownership
  <2> QED BY <2>2, <2>3, Zenon DEF Owned
<1>5. ASSUME NEW d \in Clients PROVE Owned(d)' <=> (d \notin fresh' /\ d \notin gone')
  BY <1>4, Zenon DEF Ownership
<1> QED BY <1>3, <1>5, Zenon DEF Ownership

\* Steps that move no descriptor.
LEMMA KeepOwns ==
  ASSUME Ownership, UNCHANGED <<fresh, queue, held, gone>>, OwnerTypes'
  PROVE  Ownership'
<1>1. SingleOwner'
  BY Zenon DEF Ownership, SingleOwner
<1>2. ASSUME NEW c \in Clients PROVE Owned(c)' <=> (c \notin fresh' /\ c \notin gone')
  BY Zenon DEF Ownership, Owned
<1> QED BY <1>1, <1>2, Zenon DEF Ownership

\* Every step moves a descriptor from one owner to another, closes it, or leaves it.
LEMMA OwnershipStep ==
  ASSUME Ownership, [Next]_vars
  PROVE  Ownership'
<1> USE DEF queueVars, kernelVars, mainVars, workerVars, historyVars
<1>1. ASSUME NEW w \in Workers, StartWorker(w) PROVE Ownership'
  BY <1>1, KeepOwns, Zenon DEF StartWorker, Ownership, OwnerTypes
<1>2. CASE StartFails
  BY <1>2, KeepOwns, Zenon DEF StartFails, Ownership, OwnerTypes
<1>3. CASE MakeShutdownPipe
  BY <1>3, KeepOwns, Zenon DEF MakeShutdownPipe, Ownership, OwnerTypes
<1>4. CASE InstallHandler
  BY <1>4, KeepOwns, Zenon DEF InstallHandler, Ownership, OwnerTypes
<1>5. CASE InstallFails
  BY <1>5, KeepOwns, Zenon DEF InstallFails, Ownership, OwnerTypes
<1>6. CASE LoopTest
  BY <1>6, KeepOwns, Zenon DEF LoopTest, Ownership, OwnerTypes
<1>7. CASE Poll
  BY <1>7, KeepOwns, Zenon DEF Poll, Ownership, OwnerTypes
<1>8. ASSUME NEW c \in Clients, Accept(c) PROVE Ownership'
  BY <1>8, CallOwns DEF Accept
<1>9. CASE DispatchPush
  BY <1>9, InsertOwns DEF DispatchPush
<1>10. CASE DispatchCount
  <2>1. OwnerTypes'
    BY <1>10, ServerAssumption, Zenon
    DEF DispatchCount, Queue!Return, Ownership, OwnerTypes, Threads
  <2> QED BY <1>10, <2>1, KeepOwns DEF DispatchCount, Queue!Return
<1>11. CASE DispatchRefused
  <2>1. held[Acceptor] # NoClient /\ held[Acceptor] \in Clients /\ Acceptor \in Threads
    BY <1>11 DEF DispatchRefused, Queue!PushReject, Ownership, OwnerTypes, Threads
  <2>2. held[Acceptor] \notin fresh
    BY <2>1, Zenon DEF Ownership, Owned
  <2>3. OwnerTypes'
    <3>1. /\ held' = [held EXCEPT ![Acceptor] = NoClient] /\ op' = [op EXCEPT ![Acceptor] = "idle"]
          /\ queue' = queue /\ fresh' = fresh /\ gone' = gone \cup {held[Acceptor]}
      BY <1>11, Zenon DEF DispatchRefused, Queue!PushReject
    <3>2. OwnerTypes
      BY Zenon DEF Ownership
    <3>3. /\ held' \in [Threads -> Clients \cup {NoClient}] /\ op' \in [Threads -> {"idle", "called", "done"}]
          /\ held'[Acceptor] = NoClient /\ op'[Acceptor] = "idle"
          /\ \A w \in Workers : held'[w] = held[w] /\ op'[w] = op[w]
      BY <3>1, <3>2, ServerAssumption, Zenon DEF OwnerTypes, Threads
    <3>4. gone' \subseteq Clients /\ gone' \cap fresh = {}
      BY <2>1, <2>2, <3>1, <3>2 DEF OwnerTypes
    <3> QED BY <3>1, <3>2, <3>3, <3>4, Zenon DEF OwnerTypes
  <2> QED BY <1>11, <2>1, <2>3, CloseOwns, Zenon DEF DispatchRefused, Queue!PushReject
<1>12. CASE RefusedCount
  BY <1>12, KeepOwns, Zenon DEF RefusedCount, Ownership, OwnerTypes
<1>13. ASSUME NEW t \in Requesters \cup {Acceptor}, Exchange(t) PROVE Ownership'
  BY <1>13, KeepOwns, Zenon DEF Exchange, Ownership, OwnerTypes
<1>14. ASSUME NEW t \in Requesters \cup {Acceptor}, CloseQueue(t) PROVE Ownership'
  BY <1>14, KeepOwns, Zenon DEF CloseQueue, Queue!Close, Ownership, OwnerTypes
<1>15. ASSUME NEW t \in Requesters \cup {Acceptor}, WritePipe(t) PROVE Ownership'
  BY <1>15, KeepOwns, Zenon DEF WritePipe, Ownership, OwnerTypes
<1>16. CASE RequestReturns
  BY <1>16, KeepOwns, Zenon DEF RequestReturns, Ownership, OwnerTypes
<1>17. CASE PoolClose
  BY <1>17, KeepOwns, Zenon DEF PoolClose, Queue!Close, Ownership, OwnerTypes
<1>18. CASE Join
  BY <1>18, KeepOwns, Zenon DEF Join, Ownership, OwnerTypes
<1>19. CASE ForgetNotificationFd
  BY <1>19, KeepOwns, Zenon DEF ForgetNotificationFd, Ownership, OwnerTypes
<1>20. CASE Report
  BY <1>20, KeepOwns, Zenon DEF Report, Ownership, OwnerTypes
<1>21. CASE Destroy
  BY <1>21, KeepOwns, Zenon DEF Destroy, Ownership, OwnerTypes
<1>22. CASE Exit
  BY <1>22, KeepOwns, Zenon DEF Exit, Ownership, OwnerTypes
<1>23. ASSUME NEW w \in Workers, PopCall(w) PROVE Ownership'
  <2>1. OwnerTypes'
    BY <1>23, ServerAssumption, Zenon
    DEF PopCall, WorkerAt, WorkerGoes, Queue!PopCall, Ownership, OwnerTypes, Threads
  <2> QED BY <1>23, <2>1, KeepOwns, Zenon DEF PopCall, WorkerAt, WorkerGoes, Queue!PopCall
<1>24. ASSUME NEW w \in Workers, PopTake(w) PROVE Ownership'
  BY <1>24, TakeOwns DEF PopTake
<1>25. ASSUME NEW w \in Workers, PopEmpty(w) PROVE Ownership'
  <2>1. OwnerTypes'
    BY <1>25, ServerAssumption, Zenon
    DEF PopEmpty, WorkerAt, WorkerGoes, Queue!PopEmpty, Ownership, OwnerTypes, Threads
  <2> QED BY <1>25, <2>1, KeepOwns DEF PopEmpty, WorkerAt, WorkerGoes, Queue!PopEmpty
<1>26. ASSUME NEW w \in Workers, ServeBegin(w) PROVE Ownership'
  <2>1. OwnerTypes'
    BY <1>26, ServerAssumption, Zenon
    DEF ServeBegin, WorkerAt, WorkerGoes, Queue!Return, Ownership, OwnerTypes, Threads
  <2> QED BY <1>26, <2>1, KeepOwns DEF ServeBegin, WorkerAt, WorkerGoes, Queue!Return
<1>27. ASSUME NEW w \in Workers, NEW r \in Results, ServeReturns(w, r) PROVE Ownership'
  BY <1>27, KeepOwns, Zenon DEF ServeReturns, WorkerAt, WorkerGoes, Ownership, OwnerTypes
<1>28. ASSUME NEW w \in Workers, CloseServed(w) PROVE Ownership'
  <2>1. held[w] # NoClient /\ held[w] \in Clients /\ w \in Threads
    BY <1>28, Zenon DEF CloseServed, Queue!Discard, Ownership, OwnerTypes, Threads
  <2>2. held[w] \notin fresh
    BY <2>1 DEF Ownership, Owned
  <2>3. OwnerTypes'
    BY <1>28, <2>1, <2>2, ServerAssumption, Zenon
    DEF CloseServed, Queue!Discard, Ownership, OwnerTypes, Threads
  <2> QED BY <1>28, <2>1, <2>3, CloseOwns, Zenon DEF CloseServed, Queue!Discard
<1>29. ASSUME NEW w \in Workers, ServeThrows(w) PROVE Ownership'
  <2>1. held[w] # NoClient /\ held[w] \in Clients /\ w \in Threads
    BY <1>29, Zenon DEF ServeThrows, Queue!Discard, Ownership, OwnerTypes, Threads
  <2>2. held[w] \notin fresh
    BY <2>1 DEF Ownership, Owned
  <2>3. OwnerTypes'
    BY <1>29, <2>1, <2>2, ServerAssumption, Zenon
    DEF ServeThrows, Queue!Discard, Ownership, OwnerTypes, Threads
  <2> QED BY <1>29, <2>1, <2>3, CloseOwns, Zenon DEF ServeThrows, Queue!Discard
<1>30. ASSUME NEW w \in Workers, CatchError(w) PROVE Ownership'
  BY <1>30, KeepOwns, Zenon DEF CatchError, WorkerAt, WorkerGoes, Ownership, OwnerTypes
<1>31. ASSUME NEW w \in Workers, ServeEnd(w) PROVE Ownership'
  BY <1>31, KeepOwns, Zenon DEF ServeEnd, WorkerAt, WorkerGoes, Ownership, OwnerTypes
<1>32. ASSUME NEW c \in Clients, Connect(c) PROVE Ownership'
  BY <1>32, KeepOwns, Zenon DEF Connect, Ownership, OwnerTypes
<1>33. CASE SignalMain
  BY <1>33, KeepOwns, Zenon DEF SignalMain, HandlerWrites, Ownership, OwnerTypes
<1>34. CASE SystemCallFails
  BY <1>34, KeepOwns, Zenon DEF SystemCallFails, Ownership, OwnerTypes
<1>35. ASSUME NEW w \in Workers, SignalWorker(w) PROVE Ownership'
  BY <1>35, KeepOwns, Zenon DEF SignalWorker, Ownership, OwnerTypes
<1>36. ASSUME NEW w \in Workers, HandlerOnWorkerWrites(w) PROVE Ownership'
  BY <1>36, KeepOwns, Zenon DEF HandlerOnWorkerWrites, HandlerWrites, Ownership, OwnerTypes
<1>37. CASE UNCHANGED vars
  BY <1>37, KeepOwns, Zenon DEF vars, Ownership, OwnerTypes
<1> QED BY NextCases, <1>1, <1>2, <1>3, <1>4, <1>5, <1>6, <1>7, <1>8, <1>9, <1>10, <1>11,
           <1>12, <1>13, <1>14, <1>15, <1>16, <1>17, <1>18, <1>19, <1>20, <1>21, <1>22,
           <1>23, <1>24, <1>25, <1>26, <1>27, <1>28, <1>29, <1>30, <1>31, <1>32, <1>33,
           <1>34, <1>35, <1>36, <1>37
  DEF Requests, WorkerSteps

\* No descriptor is open when the process starts.
LEMMA OwnershipInit == Init => Ownership
<1> SUFFICES ASSUME Init PROVE Ownership
  OBVIOUS
<1>0. /\ fresh = Clients /\ gone = {} /\ Acceptor \in Threads
      /\ op = [t \in Threads |-> "idle"] /\ held = [t \in Threads |-> NoClient]
  BY DEF Init, Queue!Init, Queue!Callers, Threads
<1>1. queue = <<>> /\ Len(queue) = 0 /\ queue \in Seq(Clients)
  BY EmptySeq DEF Init, Queue!Init
<1>2. OwnerTypes
  <2>1. /\ fresh = Clients /\ gone = {} /\ Acceptor \in Threads
        /\ op = [t \in Threads |-> "idle"] /\ held = [t \in Threads |-> NoClient]
    BY <1>0
  <2>2. op[Acceptor] = "idle" /\ \A t \in Threads : held[t] = NoClient
    BY <2>1, Zenon
  <2>3. /\ op \in [Threads -> {"idle", "called", "done"}]
        /\ held \in [Threads -> Clients \cup {NoClient}]
    BY <2>1
  <2>4. Len(queue) <= Capacity
    BY <1>1, ServerAssumption
  <2> QED BY <1>1, <2>1, <2>2, <2>3, <2>4, Zenon DEF OwnerTypes, Threads
<1>3. \A t \in Threads : held[t] = NoClient
  BY <1>0, Zenon
<1>4. SingleOwner
  BY <1>1, <1>3 DEF SingleOwner
<1>5. \A c \in Clients : ~Owned(c) /\ c \in fresh
  <2>1. 1..Len(queue) = {}
    BY <1>1
  <2> QED BY <1>0, <1>3, <2>1, ServerAssumption, Zenon DEF Owned
<1> QED BY <1>0, <1>2, <1>4, <1>5, Zenon DEF Ownership

\* Ownership is inductive.
LEMMA OwnershipCorrect == SafeSpec => []Ownership
  BY OwnershipInit, OwnershipStep, PTL DEF SafeSpec

\* Every accepted descriptor that is not closed is owned by the queue, the
\* acceptor or a worker, and no closed one is: on every path through dispatch,
\* the queue, the workers and their exceptions.
THEOREM DescriptorsOwned == SafeSpec => []EveryDescriptorOwned
<1>1. Ownership => EveryDescriptorOwned
  <2> SUFFICES ASSUME Ownership PROVE EveryDescriptorOwned
    OBVIOUS
  <2>1. DOMAIN queue = 1..Len(queue) /\ \A i \in 1..Len(queue) : queue[i] \in Clients
    BY LenProperties, ElementOfSeq DEF Ownership, OwnerTypes
  <2>2. \A t \in Threads : held[t] \in Clients \cup {NoClient}
    BY DEF Ownership, OwnerTypes
  <2>3. \A c : c \in OpenDescriptors <=> c \in Clients /\ Owned(c)
    BY DEF Ownership, OpenDescriptors
  <2> DEFINE Q == {queue[i] : i \in DOMAIN queue}
             H == {held[t] : t \in Threads} \ {NoClient}
  <2>4. \A c : c \in Q <=> c \in Clients /\ \E i \in 1..Len(queue) : queue[i] = c
    BY <2>1
  <2>5. \A c : c \in H <=> c \in Clients /\ \E t \in Threads : held[t] = c
    BY <2>2, ServerAssumption
  <2>6. \A c : c \in OpenDescriptors <=> c \in Q \cup H
    <3> HIDE DEF Q, H
    <3> QED BY <2>3, <2>4, <2>5 DEF Owned
  <2>7. OpenDescriptors = Q \cup H
    <3> HIDE DEF Q, H
    <3> QED BY <2>6
  <2> QED BY <2>7, Zenon DEF EveryDescriptorOwned, Threads
<1> QED BY <1>1, OwnershipCorrect, PTL

\* The image of a finite set is finite and no larger.
LEMMA ImageCount ==
  ASSUME NEW S, IsFiniteSet(S), NEW T, NEW f \in [S -> T]
  PROVE  /\ IsFiniteSet({f[x] : x \in S})
         /\ Cardinality({f[x] : x \in S}) <= Cardinality(S)
<1>1. f \in Surjection(S, {f[x] : x \in S})
  BY DEF Surjection
<1> QED BY <1>1, FS_Surjection

\* A union is no larger than its parts together.
LEMMA UnionCount ==
  ASSUME NEW S, IsFiniteSet(S), NEW T, IsFiniteSet(T)
  PROVE  /\ IsFiniteSet(S \cup T)
         /\ Cardinality(S \cup T) <= Cardinality(S) + Cardinality(T)
<1>1. IsFiniteSet(S \cap T)
  <2>1. S \cap T \in SUBSET S
    OBVIOUS
  <2> QED BY <2>1, FS_Subset
<1>2. /\ Cardinality(S \cap T) \in Nat /\ Cardinality(S) \in Nat
      /\ Cardinality(T) \in Nat
  BY <1>1, FS_CardinalityType
<1>3. /\ IsFiniteSet(S \cup T)
      /\ Cardinality(S \cup T) = Cardinality(S) + Cardinality(T) - Cardinality(S \cap T)
  BY FS_Union
<1> QED BY <1>2, <1>3

\* A process never has more client descriptors open than one per worker, one per
\* queue slot and one with the acceptor.
THEOREM DescriptorsBounded == SafeSpec => []DescriptorBound
<1>1. ASSUME Ownership, EveryDescriptorOwned PROVE DescriptorBound
  <2> DEFINE Q == {queue[i] : i \in DOMAIN queue}
             H == {held[t] : t \in Threads}
             n == Len(queue)
  <2>1. n \in Nat /\ n <= Capacity /\ DOMAIN queue = 1..n /\ queue \in [1..n -> Clients]
    BY <1>1, LenProperties DEF Ownership, OwnerTypes
  <2>2. IsFiniteSet(1..n) /\ Cardinality(1..n) = n
    BY <2>1, FS_Interval
  <2>3. IsFiniteSet(Q) /\ Cardinality(Q) <= n
    BY <2>1, <2>2, ImageCount, Zenon
  <2>4. IsFiniteSet(Threads) /\ Cardinality(Threads) = Cardinality(Workers) + 1
    BY ServerAssumption, FS_AddElement DEF Threads
  <2>5. IsFiniteSet(H) /\ Cardinality(H) <= Cardinality(Workers) + 1
    <3>1. held \in [Threads -> Clients \cup {NoClient}]
      BY <1>1 DEF Ownership, OwnerTypes
    <3>2. IsFiniteSet(H) /\ Cardinality(H) <= Cardinality(Threads)
      BY <2>4, <3>1, ImageCount, Zenon
    <3> HIDE DEF H
    <3> QED BY <2>4, <3>2
  <2>6. IsFiniteSet(Q \cup H) /\ Cardinality(Q \cup H) <= Cardinality(Q) + Cardinality(H)
    <3> HIDE DEF Q, H
    <3> QED BY <2>3, <2>5, UnionCount, Zenon
  <2>7. OpenDescriptors \subseteq Q \cup H
    BY <1>1, Zenon DEF EveryDescriptorOwned, Threads
  <2>8. Cardinality(OpenDescriptors) <= Cardinality(Q \cup H) /\ IsFiniteSet(OpenDescriptors)
    BY <2>6, <2>7, FS_Subset, Zenon
  <2>9. /\ Cardinality(OpenDescriptors) \in Nat /\ Cardinality(Q \cup H) \in Nat
        /\ Cardinality(Q) \in Nat /\ Cardinality(H) \in Nat /\ Cardinality(Workers) \in Nat
    BY <2>3, <2>5, <2>6, <2>8, ServerAssumption, FS_CardinalityType, Zenon
  <2>10. \A a, b, c, d, e, f \in Nat :
           d <= e /\ e <= c + f /\ c <= n /\ n <= Capacity /\ f <= a + 1 => d <= a + Capacity + 1
    BY <2>1, ServerAssumption
  <2> HIDE DEF Q, H, n
  <2> QED BY <2>1, <2>3, <2>5, <2>6, <2>8, <2>9, <2>10, Zenon DEF DescriptorBound
<1> QED BY <1>1, OwnershipCorrect, DescriptorsOwned, PTL


-----------------------------------------------------------------------------
\* What the clients see.

\* A worker owns a descriptor from pop's return to the end of its Connection, the
\* acceptor while it is in push.  Nothing is reported before every worker was
\* started.
Custody ==
  /\ \A w \in Workers : held[w] # NoClient <=> wpc[w] \in {"popped", "serving", "recorded"}
  /\ held[Acceptor] # NoClient <=> pc = "push"
  /\ pc \in Serving \cup {"returned", "report"} => path = "serve"
  /\ pc = "install" \/ path # "ctor" => \A w \in Workers : wpc[w] # "unborn"

\* Steps of the main thread and of others that move no descriptor.
LEMMA CustodyKept ==
  ASSUME Custody, UNCHANGED held,
         \A w \in Workers : wpc'[w] \in {"popped", "serving", "recorded"}
                              <=> wpc[w] \in {"popped", "serving", "recorded"},
         pc' = "push" <=> pc = "push",
         pc' \in Serving \cup {"returned", "report"} =>
           path' = "serve" /\ (pc' = pc \/ pc = "install" \/ path = "serve"),
         \A w \in Workers : wpc[w] # "unborn" => wpc'[w] # "unborn",
         pc' = "install" \/ path' # "ctor" =>
           \/ pc = "install" \/ path # "ctor"
           \/ \A w \in Workers : wpc[w] # "unborn"
  PROVE  Custody'
<1>1. \A w \in Workers : held'[w] # NoClient <=> wpc'[w] \in {"popped", "serving", "recorded"}
  BY DEF Custody
<1>2. held'[Acceptor] # NoClient <=> pc' = "push"
  BY DEF Custody
<1>3. pc' = "install" \/ path' # "ctor" => \A w \in Workers : wpc'[w] # "unborn"
  BY DEF Custody
<1> QED BY <1>1, <1>2, <1>3 DEF Custody

\* Every step keeps the descriptors where the program counters say.
LEMMA CustodyStep ==
  ASSUME ControlTypes, Ownership, Custody, [Next]_vars
  PROVE  Custody'
<1> USE DEF queueVars, kernelVars, mainVars, workerVars, historyVars
<1>0. /\ wpc \in [Workers -> WorkerPlaces] /\ Acceptor \notin Workers
      /\ held \in [Threads -> Clients \cup {NoClient}] /\ NoClient \notin Clients
      /\ pc \in Places
  BY ServerAssumption DEF ControlTypes, Ownership, OwnerTypes
<1>1. ASSUME NEW w \in Workers, StartWorker(w) PROVE Custody'
  BY <1>0, <1>1, CustodyKept DEF StartWorker, Custody, Serving
<1>2. CASE StartFails
  BY <1>2, CustodyKept DEF StartFails, Serving
<1>3. CASE MakeShutdownPipe
  BY <1>3, CustodyKept DEF MakeShutdownPipe, Serving
<1>4. CASE InstallHandler
  BY <1>4, CustodyKept DEF InstallHandler, Serving
<1>5. CASE InstallFails
  BY <1>5, CustodyKept DEF InstallFails, Serving
<1>6. CASE LoopTest
  BY <1>6, CustodyKept, Zenon DEF LoopTest, Serving, Custody
<1>7. CASE Poll
  BY <1>7, CustodyKept DEF Poll, Serving, Custody
<1>8. ASSUME NEW c \in Clients, Accept(c) PROVE Custody'
  <2>1. /\ pc = "accept" /\ pc' = "push" /\ UNCHANGED <<path, wpc>>
        /\ held' = [held EXCEPT ![Acceptor] = c]
    BY <1>8 DEF Accept, Queue!PushCall
  <2>2. held'[Acceptor] # NoClient /\ \A w \in Workers : held'[w] = held[w]
    BY <1>0, <2>1 DEF Threads
  <2> QED BY <2>1, <2>2 DEF Custody, Serving
<1>9. CASE DispatchPush
  <2>1. /\ pc = "push" /\ pc' = "pushed" /\ UNCHANGED <<path, wpc>>
        /\ held' = [held EXCEPT ![Acceptor] = NoClient]
    BY <1>9 DEF DispatchPush, Queue!PushInsert
  <2>2. held'[Acceptor] = NoClient /\ \A w \in Workers : held'[w] = held[w]
    BY <1>0, <2>1 DEF Threads
  <2> QED BY <2>1, <2>2 DEF Custody, Serving
<1>10. CASE DispatchCount
  BY <1>10, CustodyKept DEF DispatchCount, Queue!Return, Serving, Custody
<1>11. CASE DispatchRefused
  <2>1. /\ pc = "push" /\ pc' = "refused" /\ UNCHANGED <<path, wpc>>
        /\ held' = [held EXCEPT ![Acceptor] = NoClient]
    BY <1>11 DEF DispatchRefused, Queue!PushReject
  <2>2. held'[Acceptor] = NoClient /\ \A w \in Workers : held'[w] = held[w]
    BY <1>0, <2>1 DEF Threads
  <2> QED BY <2>1, <2>2 DEF Custody, Serving
<1>12. CASE RefusedCount
  <2>1. /\ pc = "refused" /\ UNCHANGED <<held, wpc>> /\ path = "serve"
        /\ (pc' = "loop" /\ path' = path) \/ (pc' = "request" /\ path' = "dtor")
    BY <1>12, Zenon DEF RefusedCount, Custody, Serving
  <2> QED BY <2>1, CustodyKept DEF Serving
<1>13. ASSUME NEW t \in Requesters \cup {Acceptor}, Requests(t) PROVE Custody'
  <2>1. UNCHANGED <<held, wpc, pc, path>>
    BY <1>13 DEF Requests, Exchange, CloseQueue, WritePipe, Queue!Close
  <2> QED BY <2>1 DEF Custody
<1>14. CASE RequestReturns
  BY <1>14, CustodyKept DEF RequestReturns, Serving
<1>15. CASE PoolClose
  BY <1>15, CustodyKept DEF PoolClose, Queue!Close, Serving
<1>16. CASE Join
  <2>1. /\ pc = "join" /\ UNCHANGED <<held, wpc, path>>
        /\ pc' \in {"returned", "destroy", "exited"} /\ (pc' = "returned" => path = "serve")
    BY <1>16 DEF Join
  <2> QED BY <2>1, CustodyKept DEF Serving
<1>17. CASE ForgetNotificationFd
  BY <1>17, CustodyKept DEF ForgetNotificationFd, Serving, Custody
<1>18. CASE Report
  BY <1>18, CustodyKept DEF Report, Serving, Custody
<1>19. CASE Destroy
  BY <1>19, CustodyKept DEF Destroy, Serving
<1>20. CASE Exit
  BY <1>20, CustodyKept DEF Exit, Serving
<1>21. ASSUME NEW w \in Workers, WorkerSteps(w) PROVE Custody'
  <2>1. UNCHANGED <<pc, path>> /\ wpc[w] # "unborn"
    BY <1>21, Zenon
    DEF WorkerSteps, PopCall, PopTake, PopEmpty, ServeBegin, ServeReturns, CloseServed,
        ServeThrows, CatchError, ServeEnd, WorkerAt
  <2>2. ASSUME NEW l \in WorkerPlaces \ {"unborn"}, wpc' = [wpc EXCEPT ![w] = l],
               NEW x \in Clients \cup {NoClient}, held' = [held EXCEPT ![w] = x],
               x # NoClient <=> l \in {"popped", "serving", "recorded"}
        PROVE  Custody'
    <3>1. /\ \A v \in Workers : wpc'[v] = IF v = w THEN l ELSE wpc[v]
          /\ \A v \in Threads : held'[v] = IF v = w THEN x ELSE held[v]
      BY <1>0, <2>2
    <3> QED BY <1>0, <2>1, <2>2, <3>1 DEF Custody, Threads
  <2>3. held = [held EXCEPT ![w] = held[w]] /\ held[w] \in Clients \cup {NoClient}
    BY <1>0 DEF Threads
  <2>4. CASE PopCall(w) \/ PopEmpty(w)
    <3>1. UNCHANGED held /\ held[w] = NoClient
      <4>1. UNCHANGED held /\ wpc[w] \in {"pop", "popping"}
        BY <2>4, Zenon DEF PopCall, PopEmpty, WorkerAt, Queue!PopCall, Queue!PopEmpty
      <4> QED BY <4>1, Zenon DEF Custody
    <3>2. PICK l \in {"popping", "exited"} : wpc' = [wpc EXCEPT ![w] = l]
      BY <2>4, Zenon DEF PopCall, PopEmpty, WorkerGoes
    <3> QED BY <2>2, <2>3, <3>1, <3>2, Zenon DEF WorkerPlaces
  <2>5. CASE PopTake(w)
    <3>1. Head(queue) \in Clients
      BY <2>5, EmptySeq, HeadTailProperties DEF PopTake, Queue!PopTake, Ownership, OwnerTypes
    <3> QED BY <1>0, <2>2, <2>5, <3>1, Zenon
      DEF PopTake, WorkerAt, WorkerGoes, Queue!PopTake, WorkerPlaces
  <2>6. CASE ServeBegin(w)
    <3>1. UNCHANGED held /\ wpc[w] = "popped" /\ wpc' = [wpc EXCEPT ![w] = "serving"]
      BY <2>6, Zenon DEF ServeBegin, WorkerAt, WorkerGoes, Queue!Return
    <3>2. held[w] # NoClient
      BY <3>1, Zenon DEF Custody
    <3> QED BY <2>2, <2>3, <3>1, <3>2, Zenon DEF WorkerPlaces
  <2>7. ASSUME NEW r \in Results, ServeReturns(w, r) PROVE Custody'
    <3>1. UNCHANGED held /\ wpc[w] = "serving" /\ wpc' = [wpc EXCEPT ![w] = "recorded"]
      BY <2>7, Zenon DEF ServeReturns, WorkerAt, WorkerGoes
    <3>2. held[w] # NoClient
      BY <3>1, Zenon DEF Custody
    <3> QED BY <2>2, <2>3, <3>1, <3>2, Zenon DEF WorkerPlaces
  <2>8. CASE CloseServed(w) \/ ServeThrows(w)
    <3>1. held' = [held EXCEPT ![w] = NoClient]
      BY <2>8, Zenon DEF CloseServed, ServeThrows, Queue!Discard
    <3>2. PICK l \in {"closing", "unwound"} : wpc' = [wpc EXCEPT ![w] = l]
      BY <2>8, Zenon DEF CloseServed, ServeThrows, WorkerGoes
    <3>3. NoClient \in Clients \cup {NoClient}
      BY Zenon
    <3>4. /\ l \in WorkerPlaces \ {"unborn"} /\ l \notin {"popped", "serving", "recorded"}
      BY <3>2 DEF WorkerPlaces
    <3> QED BY <2>2, <3>1, <3>2, <3>3, <3>4, Zenon
  <2>9. CASE CatchError(w) \/ ServeEnd(w)
    <3>1. UNCHANGED held /\ wpc[w] \in {"unwound", "closing"}
      BY <2>9, Zenon DEF CatchError, ServeEnd, WorkerAt
    <3>2. held[w] = NoClient
      BY <3>1, Zenon DEF Custody
    <3>3. PICK l \in {"closing", "pop"} : wpc' = [wpc EXCEPT ![w] = l]
      BY <2>9, Zenon DEF CatchError, ServeEnd, WorkerGoes
    <3> QED BY <2>2, <2>3, <3>1, <3>2, <3>3, Zenon DEF WorkerPlaces
  <2> QED BY <1>21, <2>4, <2>5, <2>6, <2>7, <2>8, <2>9 DEF WorkerSteps
<1>22. ASSUME NEW c \in Clients, Connect(c) PROVE Custody'
  BY <1>22, Zenon DEF Connect, Custody
<1>23. CASE SignalMain
  <2>1. UNCHANGED <<held, wpc, path>> /\ (pc' = pc \/ (pc = "poll" /\ pc' = "loop"))
    BY <1>23, Zenon DEF SignalMain
  <2> QED BY <2>1 DEF Custody, Serving
<1>24. CASE SystemCallFails
  BY <1>24, CustodyKept, Zenon DEF SystemCallFails, Serving, Custody
<1>25. ASSUME NEW w \in Workers, SignalWorker(w) \/ HandlerOnWorkerWrites(w) PROVE Custody'
  BY <1>25, Zenon DEF SignalWorker, HandlerOnWorkerWrites, Custody
<1>26. CASE UNCHANGED vars
  BY <1>26, Zenon DEF vars, Custody
<1> QED BY NextCases, <1>1, <1>2, <1>3, <1>4, <1>5, <1>6, <1>7, <1>8, <1>9, <1>10, <1>11,
           <1>12, <1>13, <1>14, <1>15, <1>16, <1>17, <1>18, <1>19, <1>20, <1>21, <1>22,
           <1>23, <1>24, <1>25, <1>26

\* At the start nobody owns a descriptor.
LEMMA CustodyInit == Init => Custody
<1> SUFFICES ASSUME Init PROVE Custody
  OBVIOUS
<1>1. /\ \A t \in Threads : held[t] = NoClient
      /\ \A w \in Workers : wpc[w] = "unborn"
      /\ pc = "spawn" /\ path = "ctor"
  BY Zenon DEF Init, Queue!Init, Queue!Callers, Threads
<1> QED BY <1>1, Zenon DEF Custody, Serving, Threads

\* The program counters tell who owns what in every state.
LEMMA CustodyAlways == SafeSpec => []Custody
<1>1. ControlTypes /\ Ownership /\ Custody /\ [Next]_vars => Custody'
  BY CustodyStep, Zenon
<1> QED BY <1>1, CustodyInit, FlagAlways, OwnershipCorrect, PTL DEF SafeSpec

\* A refusal is the acceptor's last act: the flag it finds set keeps it from polling
\* again.  The workers are joined with the queue closed, and a server that was not
\* constructed has accepted nothing.
LastRefusal ==
  /\ closed \in BOOLEAN
  /\ fate \in [Clients -> {"pending", "refused", "served", "failed"}]
  /\ pc \in {"join"} \cup Joined => closed
  /\ path = "ctor" => queue = <<>>
  /\ Outside!NoneRefused
       \/ (shutdown_requested /\ pc \notin {"spawn", "install", "poll", "accept", "push", "pushed"})

\* Steps that change neither the queue nor a fate.
LEMMA LastRefusalKept ==
  ASSUME LastRefusal, UNCHANGED <<fate, queue>>, closed' \in {closed, TRUE},
         shutdown_requested => shutdown_requested',
         pc' \in {"join"} \cup Joined => closed' \/ pc \in {"join"} \cup Joined,
         path' = "ctor" => path = "ctor",
         pc' \in {"spawn", "install", "poll", "accept", "push", "pushed"} =>
           \/ pc \in {"spawn", "install", "poll", "accept", "push", "pushed"}
           \/ ~shutdown_requested
  PROVE  LastRefusal'
<1>1. closed' \in BOOLEAN /\ (closed => closed')
  BY Zenon DEF LastRefusal
<1>2. Outside!NoneRefused' <=> Outside!NoneRefused
  BY Zenon DEF Outside!NoneRefused
<1>3. pc' \in {"join"} \cup Joined => closed'
  BY <1>1, Zenon DEF LastRefusal
<1>4. \/ Outside!NoneRefused'
      \/ shutdown_requested' /\ pc' \notin {"spawn", "install", "poll", "accept", "push", "pushed"}
  BY <1>2, Zenon DEF LastRefusal
<1> QED BY <1>1, <1>3, <1>4, Zenon DEF LastRefusal

\* Every step keeps the refusal last.
LEMMA LastRefusalStep ==
  ASSUME FlagBeforeClose, Custody, LastRefusal, [Next]_vars
  PROVE  LastRefusal'
<1> USE DEF queueVars, kernelVars, mainVars, workerVars, historyVars
<1>1. ASSUME NEW w \in Workers, StartWorker(w) PROVE LastRefusal'
  BY <1>1, LastRefusalKept, Zenon DEF StartWorker
<1>2. CASE StartFails
  BY <1>2, LastRefusalKept, Zenon DEF StartFails, Joined
<1>3. CASE MakeShutdownPipe
  BY <1>3, LastRefusalKept, Zenon DEF MakeShutdownPipe, Joined
<1>4. CASE InstallHandler
  BY <1>4, LastRefusalKept, Zenon DEF InstallHandler, Joined
<1>5. CASE InstallFails
  BY <1>5, LastRefusalKept, Zenon DEF InstallFails, Joined
<1>6. CASE LoopTest
  BY <1>6, LastRefusalKept, Zenon DEF LoopTest, Joined
<1>7. CASE Poll
  BY <1>7, LastRefusalKept, Zenon DEF Poll, Joined
<1>8. ASSUME NEW c \in Clients, Accept(c) PROVE LastRefusal'
  BY <1>8, LastRefusalKept, Zenon DEF Accept, Queue!PushCall, Joined
<1>9. CASE DispatchPush
  <2>1. /\ pc = "push" /\ pc' = "pushed"
        /\ UNCHANGED <<path, closed, fate, shutdown_requested>>
    BY <1>9, Zenon DEF DispatchPush, Queue!PushInsert
  <2>2. path = "serve" /\ Outside!NoneRefused
    BY <2>1, Zenon DEF Custody, Serving, LastRefusal
  <2>3. Outside!NoneRefused'
    BY <2>1, <2>2, Zenon DEF Outside!NoneRefused
  <2>4. path' # "ctor" /\ pc' \notin {"join"} \cup Joined
    BY <2>1, <2>2, Zenon DEF Joined
  <2> QED BY <2>1, <2>3, <2>4, Zenon DEF LastRefusal
<1>10. CASE DispatchCount
  <2>1. pc' = "loop" /\ UNCHANGED <<fate, queue, closed, shutdown_requested, path>>
    BY <1>10, Zenon DEF DispatchCount, Queue!Return
  <2> QED BY <2>1, LastRefusalKept, Zenon DEF Joined
<1>11. CASE DispatchRefused
  <2>1. /\ pc = "push" /\ pc' = "refused" /\ closed
        /\ UNCHANGED <<path, closed, queue, shutdown_requested>>
        /\ fate' = [fate EXCEPT ![held[Acceptor]] = "refused"]
    BY <1>11, Zenon DEF DispatchRefused, Queue!PushReject
  <2>2. shutdown_requested
    BY <2>1, Zenon DEF FlagBeforeClose
  <2>3. fate' \in [Clients -> {"pending", "refused", "served", "failed"}]
    BY <2>1, Zenon DEF LastRefusal
  <2>4. /\ pc' \notin {"join"} \cup Joined
        /\ pc' \notin {"spawn", "install", "poll", "accept", "push", "pushed"}
    BY <2>1, Zenon DEF Joined
  <2> QED BY <2>1, <2>2, <2>3, <2>4, Zenon DEF LastRefusal
<1>12. CASE RefusedCount
  <2>1. /\ UNCHANGED <<fate, queue, closed, shutdown_requested>>
        /\ (pc' = "loop" /\ path' = path) \/ (pc' = "request" /\ path' = "dtor")
    BY <1>12, Zenon DEF RefusedCount
  <2> QED BY <2>1, LastRefusalKept, Zenon DEF Joined
<1>13. ASSUME NEW t \in Requesters \cup {Acceptor}, Requests(t) PROVE LastRefusal'
  <2>1. /\ UNCHANGED <<fate, queue, pc, path>> /\ closed' \in {closed, TRUE}
    BY <1>13, Zenon DEF Requests, Exchange, CloseQueue, WritePipe, Queue!Close
  <2>2. shutdown_requested => shutdown_requested'
    <3>1. CASE Exchange(t)
      BY <3>1, Zenon DEF Exchange
    <3>2. CASE CloseQueue(t) \/ WritePipe(t)
      <4>1. UNCHANGED shutdown_requested
        BY <3>2, Zenon DEF CloseQueue, WritePipe
      <4> QED BY <4>1, Zenon
    <3> QED BY <1>13, <3>1, <3>2, Zenon DEF Requests
  <2> QED BY <2>1, <2>2, LastRefusalKept, Zenon
<1>14. CASE RequestReturns
  BY <1>14, LastRefusalKept, Zenon DEF RequestReturns, Joined
<1>15. CASE PoolClose
  BY <1>15, LastRefusalKept, Zenon DEF PoolClose, Queue!Close
<1>16. CASE Join
  <2>1. /\ pc = "join" /\ UNCHANGED <<fate, queue, closed, shutdown_requested, path>>
        /\ pc' \in {"returned", "destroy", "exited"}
    BY <1>16 DEF Join
  <2> QED BY <2>1, LastRefusalKept, Zenon
<1>17. CASE ForgetNotificationFd
  BY <1>17, LastRefusalKept, Zenon DEF ForgetNotificationFd, Joined
<1>18. CASE Report
  BY <1>18, LastRefusalKept, Zenon DEF Report, Joined
<1>19. CASE Destroy
  BY <1>19, LastRefusalKept, Zenon DEF Destroy, Joined
<1>20. CASE Exit
  BY <1>20, LastRefusalKept, Zenon DEF Exit, Joined
<1>21. ASSUME NEW w \in Workers, WorkerSteps(w) PROVE LastRefusal'
  <2>1. UNCHANGED <<pc, path, closed, shutdown_requested>>
    BY <1>21, Zenon
    DEF WorkerSteps, PopCall, PopTake, PopEmpty, ServeBegin, ServeReturns, CloseServed,
        ServeThrows, CatchError, ServeEnd, Queue!PopCall, Queue!PopTake, Queue!PopEmpty,
        Queue!Return, Queue!Discard
  <2>2. path = "ctor" => queue' = <<>>
    <3>1. CASE PopTake(w)
      BY <3>1, Zenon DEF PopTake, Queue!PopTake, LastRefusal
    <3>2. CASE ~PopTake(w)
      <4>1. queue' = queue
        BY <1>21, <3>2, Zenon
        DEF WorkerSteps, PopCall, PopEmpty, ServeBegin, ServeReturns, CloseServed,
            ServeThrows, CatchError, ServeEnd, Queue!PopCall, Queue!PopEmpty,
            Queue!Return, Queue!Discard
      <4> QED BY <4>1, Zenon DEF LastRefusal
    <3> QED BY <3>1, <3>2, Zenon
  <2>3. fate' = fate \/ \E how \in {"served", "failed"} : fate' = [fate EXCEPT ![held[w]] = how]
    BY <1>21, Zenon
    DEF WorkerSteps, PopCall, PopTake, PopEmpty, ServeBegin, ServeReturns, CloseServed,
        ServeThrows, CatchError, ServeEnd
  <2>4. /\ fate' \in [Clients -> {"pending", "refused", "served", "failed"}]
        /\ Outside!NoneRefused => Outside!NoneRefused'
    <3>1. fate \in [Clients -> {"pending", "refused", "served", "failed"}]
      BY Zenon DEF LastRefusal
    <3>2. CASE fate' = fate
      BY <3>1, <3>2, Zenon DEF Outside!NoneRefused
    <3>3. ASSUME NEW how \in {"served", "failed"}, fate' = [fate EXCEPT ![held[w]] = how]
          PROVE  /\ fate' \in [Clients -> {"pending", "refused", "served", "failed"}]
                 /\ Outside!NoneRefused => Outside!NoneRefused'
      <4>1. how # "refused" /\ how \in {"pending", "refused", "served", "failed"}
        OBVIOUS
      <4>2. \A c \in Clients : fate'[c] = how \/ fate'[c] = fate[c]
        BY <3>1, <3>3, Zenon
      <4>3. fate' \in [Clients -> {"pending", "refused", "served", "failed"}]
        BY <3>1, <3>3, <4>1, Zenon
      <4> QED BY <4>1, <4>2, <4>3, Zenon DEF Outside!NoneRefused
    <3> QED BY <2>3, <3>2, <3>3, Zenon
  <2> QED BY <2>1, <2>2, <2>4, Zenon DEF LastRefusal
<1>22. ASSUME NEW c \in Clients, Connect(c) PROVE LastRefusal'
  BY <1>22, LastRefusalKept, Zenon DEF Connect
<1>23. CASE SignalMain
  <2>1. /\ UNCHANGED <<fate, queue, closed, path, shutdown_requested>>
        /\ pc' = pc \/ pc' = "loop"
    BY <1>23, Zenon DEF SignalMain
  <2> QED BY <2>1, LastRefusalKept, Zenon DEF Joined
<1>24. CASE SystemCallFails
  BY <1>24, LastRefusalKept, Zenon DEF SystemCallFails, Joined
<1>25. ASSUME NEW w \in Workers, SignalWorker(w) \/ HandlerOnWorkerWrites(w) PROVE LastRefusal'
  <2>1. UNCHANGED <<fate, queue, closed, pc, path, shutdown_requested>>
    BY <1>25, Zenon DEF SignalWorker, HandlerOnWorkerWrites
  <2> QED BY <2>1, LastRefusalKept, Zenon
<1>26. CASE UNCHANGED vars
  BY <1>26, LastRefusalKept, Zenon DEF vars
<1> QED BY NextCases, <1>1, <1>2, <1>3, <1>4, <1>5, <1>6, <1>7, <1>8, <1>9, <1>10, <1>11,
           <1>12, <1>13, <1>14, <1>15, <1>16, <1>17, <1>18, <1>19, <1>20, <1>21, <1>22,
           <1>23, <1>24, <1>25, <1>26

\* So it is the last in every behaviour.
LEMMA LastRefusalAlways == SafeSpec => []LastRefusal
<1>1. Init => LastRefusal
  <2> SUFFICES ASSUME Init PROVE LastRefusal
    OBVIOUS
  <2>1. /\ pc = "spawn" /\ queue = <<>> /\ closed = FALSE
        /\ fate = [c \in Clients |-> "pending"]
    BY Zenon DEF Init, Queue!Init
  <2>2. fate \in [Clients -> {"pending", "refused", "served", "failed"}] /\ Outside!NoneRefused
    BY <2>1 DEF Outside!NoneRefused
  <2> QED BY <2>1, <2>2, Zenon DEF LastRefusal, Joined
<1>2. FlagBeforeClose /\ Custody /\ LastRefusal /\ [Next]_vars => LastRefusal'
  BY LastRefusalStep, Zenon
<1> QED BY <1>1, <1>2, FlagAlways, CustodyAlways, PTL DEF SafeSpec

\* Steps no client notices.
LEMMA SameView ==
  ASSUME UNCHANGED <<fresh, queue, held, fate, closed>>, Over' <=> Over,
         \A w \in Workers : wpc'[w] \in {"popped", "serving"} <=> wpc[w] \in {"popped", "serving"}
  PROVE  UNCHANGED Outside!vars
<1>1. InLine' = InLine
  BY Zenon DEF InLine
<1>2. ClientOf' = ClientOf
  BY DEF ClientOf
<1>3. Over' = Over
  BY DEF Over
<1> QED BY <1>1, <1>2, <1>3, Zenon DEF Outside!vars

\* The client of a worker, by where the worker is.
LEMMA ClientOfAt ==
  ASSUME NEW w \in Workers
  PROVE  ClientOf[w] = IF wpc[w] \in {"popped", "serving"} THEN held[w] ELSE NoClient
  BY Zenon DEF ClientOf

\* Assigning what was there changes nothing.
LEMMA SameUpdate ==
  ASSUME NEW S, NEW T, NEW f \in [S -> T], NEW x \in S
  PROVE  [f EXCEPT ![x] = f[x]] = f
  OBVIOUS

\* The line changes only with the queue and with what the acceptor holds.
LEMMA InLineKept ==
  ASSUME queue' = queue, held'[Acceptor] = held[Acceptor]
  PROVE  InLine' = InLine
  BY DEF InLine

\* A worker's step changes the client of that worker only.
LEMMA ClientOfMoves ==
  ASSUME ControlTypes, Ownership, NEW w \in Workers, NEW l \in WorkerPlaces,
         NEW x \in Clients \cup {NoClient},
         wpc' = [wpc EXCEPT ![w] = l], held' = [held EXCEPT ![w] = x]
  PROVE  ClientOf' = [ClientOf EXCEPT ![w] = IF l \in {"popped", "serving"} THEN x ELSE NoClient]
<1>1. /\ wpc \in [Workers -> WorkerPlaces] /\ held \in [Threads -> Clients \cup {NoClient}]
  BY Zenon DEF ControlTypes, Ownership, OwnerTypes
<1>2. \A v \in Workers : /\ wpc'[v] = IF v = w THEN l ELSE wpc[v]
                         /\ held'[v] = IF v = w THEN x ELSE held[v]
  BY <1>1, Zenon DEF Threads
<1>3. \A v \in Workers :
        (IF wpc'[v] \in {"popped", "serving"} THEN held'[v] ELSE NoClient) =
          IF v = w THEN IF l \in {"popped", "serving"} THEN x ELSE NoClient ELSE ClientOf[v]
  BY <1>2, ClientOfAt, Zenon
<1>4. ClientOf' = [v \in Workers |-> IF v = w
                                     THEN IF l \in {"popped", "serving"} THEN x ELSE NoClient
                                     ELSE ClientOf[v]]
  BY <1>3, Zenon DEF ClientOf
<1>5. ClientOf = [v \in Workers |-> ClientOf[v]]
  BY Zenon DEF ClientOf
<1> QED BY <1>4, <1>5

\* What the acceptor does with its own descriptor leaves the workers' alone.
LEMMA ClientsStay ==
  ASSUME ControlTypes, Ownership, NEW x, UNCHANGED wpc, held' = [held EXCEPT ![Acceptor] = x]
  PROVE  ClientOf' = ClientOf /\ held'[Acceptor] = x
<1>1. held \in [Threads -> Clients \cup {NoClient}]
  BY Zenon DEF Ownership, OwnerTypes
<1>2. held'[Acceptor] = x /\ \A w \in Workers : held'[w] = held[w]
  BY <1>1, ServerAssumption, Zenon DEF Threads
<1> QED BY <1>2, Zenon DEF ClientOf

\* accept puts the client at the end of the line.
LEMMA AcceptSeen ==
  ASSUME ControlTypes, Ownership, Custody, LastRefusal, NEW c \in Clients, Accept(c)
  PROVE  Outside!Accept(c)
<1> USE DEF queueVars, kernelVars, mainVars, workerVars, historyVars
<1>1. /\ pc = "accept" /\ pc' = "push" /\ c \in fresh /\ fresh' = fresh \ {c}
      /\ held' = [held EXCEPT ![Acceptor] = c] /\ UNCHANGED <<queue, closed, fate, wpc>>
  BY Zenon DEF Accept, Queue!PushCall
<1>2. InLine = queue /\ Len(InLine) <= Capacity
  BY <1>1, Zenon DEF Custody, InLine, Ownership, OwnerTypes
<1>3. ClientOf' = ClientOf /\ InLine' = Append(InLine, c)
  BY <1>1, <1>2, ClientsStay, ServerAssumption, Zenon DEF InLine
<1>4. Outside!NoneRefused
  BY <1>1, Zenon DEF LastRefusal
<1>5. ~Over /\ Over' = Over
  BY <1>1 DEF Over
<1> QED BY <1>1, <1>2, <1>3, <1>4, <1>5, Zenon DEF Outside!Accept

\* push moves the newest client from the acceptor to the queue: it stays the newest.
LEMMA PushUnseen ==
  ASSUME ControlTypes, Ownership, Custody, DispatchPush
  PROVE  UNCHANGED Outside!vars
<1> USE DEF queueVars, kernelVars, mainVars, workerVars, historyVars
<1>1. /\ pc = "push" /\ pc' = "pushed" /\ queue' = Append(queue, held[Acceptor])
      /\ held' = [held EXCEPT ![Acceptor] = NoClient] /\ UNCHANGED <<fresh, closed, fate, wpc>>
  BY Zenon DEF DispatchPush, Queue!PushInsert
<1>2. ClientOf' = ClientOf /\ held'[Acceptor] = NoClient /\ held[Acceptor] # NoClient
  BY <1>1, ClientsStay, Zenon DEF Custody
<1>3. InLine' = InLine
  BY <1>1, <1>2, Zenon DEF InLine
<1>4. Over' = Over
  BY <1>1 DEF Over
<1> QED BY <1>1, <1>2, <1>3, <1>4, Zenon DEF Outside!vars

\* Taking the last element off again.
LEMMA AppendUndone ==
  ASSUME NEW S, NEW q \in Seq(S), NEW x \in S
  PROVE  LET s == Append(q, x)
         IN  /\ s # <<>> /\ s[Len(s)] = x
             /\ SubSeq(s, 1, Len(s) - 1) = q
<1> DEFINE s == Append(q, x)
           f == SubSeq(s, 1, Len(s) - 1)
<1>1. /\ s \in Seq(S) /\ s # <<>> /\ Len(s) = Len(q) + 1 /\ s[Len(q) + 1] = x
      /\ \A i \in 1..Len(q) : s[i] = q[i]
  BY AppendProperties
<1>2. Len(q) \in Nat /\ Len(s) - 1 = Len(q)
  BY <1>1, LenProperties
<1>3. f = q
  <2> HIDE DEF s
  <2>1. f \in Seq(S) /\ Len(f) = Len(q) /\ \A i \in 1..Len(q) : f[i] = s[i]
    <3> DEFINE n == Len(q)
    <3>1. n \in Nat /\ Len(s) - 1 = n /\ \A i \in 1..n : s[i] \in S
      BY <1>1, <1>2, ElementOfSeq, Zenon
    <3>2. f = SubSeq(s, 1, n)
      BY <3>1, Zenon
    <3> HIDE DEF n, f
    <3>3. /\ SubSeq(s, 1, n) \in Seq(S) /\ Len(SubSeq(s, 1, n)) = n
          /\ \A i \in 1..n : SubSeq(s, 1, n)[i] = s[i]
      <4>1. 1 \in Int /\ n \in Int /\ n - 1 + 1 = n /\ \A i \in 1..n : 1 + i - 1 = i
        BY <3>1
      <4>2. Len(SubSeq(s, 1, n)) = IF 1 <= n THEN n - 1 + 1 ELSE 0
        BY <3>1, <4>1, SubSeqProperties
      <4>3. Len(SubSeq(s, 1, n)) = n
        BY <3>1, <4>2
      <4>4. /\ SubSeq(s, 1, n) \in Seq(S)
            /\ \A i \in 1..n - 1 + 1 : SubSeq(s, 1, n)[i] = s[1 + i - 1]
        BY <3>1, <4>1, SubSeqProperties
      <4> QED BY <4>1, <4>3, <4>4, Zenon
    <3> QED BY <3>2, <3>3, Zenon DEF n
  <2> HIDE DEF f
  <2> QED BY <1>1, <2>1, SeqEqual
<1> QED BY <1>1, <1>2, <1>3

\* The head and the tail of a queue do not depend on who comes last.
LEMMA AppendBehind ==
  ASSUME NEW S, NEW q \in Seq(S), NEW x \in S, q # <<>>
  PROVE  /\ Append(q, x) # <<>> /\ Head(Append(q, x)) = Head(q)
         /\ Tail(Append(q, x)) = Append(Tail(q), x)
<1> DEFINE n == Len(q)
           s == Append(q, x)
           t == Tail(q)
           u == Tail(s)
           v == Append(t, x)
<1>1. /\ n \in Nat /\ n >= 1
      /\ s \in Seq(S) /\ s # <<>> /\ Len(s) = n + 1 /\ s[n + 1] = x
      /\ \A i \in 1..n : s[i] = q[i]
  <2>1. n \in Nat /\ n # 0
    BY LenProperties, EmptySeq, Zenon
  <2>2. n >= 1
    BY <2>1
  <2>3. /\ s \in Seq(S) /\ s # <<>> /\ Len(s) = n + 1 /\ s[n + 1] = x
        /\ \A i \in 1..n : s[i] = q[i]
    BY AppendedTo
  <2> QED BY <2>1, <2>2, <2>3, Zenon
<1>2. /\ Head(q) = q[1] /\ Head(s) = s[1]
      /\ t \in Seq(S) /\ Len(t) = n - 1 /\ \A i \in 1..n - 1 : t[i] = q[i + 1]
      /\ u \in Seq(S) /\ Len(u) = n /\ \A i \in 1..n : u[i] = s[i + 1]
  <2> HIDE DEF s
  <2> QED BY <1>1, HeadTailProperties
<1>3. /\ v \in Seq(S) /\ Len(v) = n /\ v[n] = x
      /\ \A i \in 1..n - 1 : v[i] = t[i]
  <2> HIDE DEF t, n
  <2>1. /\ v \in Seq(S) /\ Len(v) = Len(t) + 1 /\ v[Len(t) + 1] = x
        /\ \A i \in 1..Len(t) : v[i] = t[i]
    <3>1. t \in Seq(S)
      BY <1>2
    <3> QED BY <3>1, AppendProperties
  <2> HIDE DEF v
  <2>2. Len(t) = n - 1 /\ Len(t) + 1 = n
    BY <1>1, <1>2
  <2> QED BY <2>1, <2>2, Zenon
<1> HIDE DEF n, s, t, u, v
<1>4. ASSUME NEW i \in 1..n PROVE u[i] = v[i]
  <2>1. CASE i = n
    BY <1>1, <1>2, <1>3, <2>1
  <2>2. CASE i # n
    <3>1. i \in 1..n - 1 /\ i + 1 \in 1..n
      BY <1>1, <2>2
    <3> QED BY <1>1, <1>2, <1>3, <3>1
  <2> QED BY <2>1, <2>2
<1>5. u = v
  BY <1>2, <1>3, <1>4, SeqEqual, Zenon
<1>6. 1 \in 1..n
  BY <1>1
<1> QED BY <1>1, <1>2, <1>5, <1>6 DEF s, t, u, v

\* A push that fails ends the newest client's wait.
LEMMA RefuseSeen ==
  ASSUME ControlTypes, Ownership, Custody, LastRefusal, DispatchRefused
  PROVE  Outside!Refuse
<1> USE DEF queueVars, kernelVars, mainVars, workerVars, historyVars
<1> DEFINE x == held[Acceptor]
<1>1. /\ pc = "push" /\ pc' = "refused" /\ closed
      /\ held' = [held EXCEPT ![Acceptor] = NoClient] /\ UNCHANGED <<fresh, queue, closed, wpc>>
      /\ fate' = [fate EXCEPT ![x] = "refused"]
  BY Zenon DEF DispatchRefused, Queue!PushReject
<1>2. /\ x # NoClient /\ x \in Clients /\ queue \in Seq(Clients)
  BY <1>1, Zenon DEF Custody, Ownership, OwnerTypes, Threads
<1>3. ClientOf' = ClientOf /\ InLine = Append(queue, x) /\ InLine' = queue
  BY <1>1, <1>2, ClientsStay, Zenon DEF InLine
<1>4. /\ InLine # <<>> /\ InLine[Len(InLine)] = x
      /\ SubSeq(InLine, 1, Len(InLine) - 1) = queue
  BY <1>2, <1>3, AppendUndone, Zenon
<1>5. Outside!NoneRefused
  BY <1>1, Zenon DEF LastRefusal
<1>6. Over' = Over
  BY <1>1 DEF Over
<1> QED BY <1>1, <1>3, <1>4, <1>5, <1>6, Zenon DEF Outside!Refuse

\* pop gives a free worker the client that has waited longest.
LEMMA TakeSeen ==
  ASSUME ControlTypes, Ownership, Custody, NEW w \in Workers, PopTake(w)
  PROVE  Outside!Begin(w)
<1> USE DEF queueVars, kernelVars, mainVars, workerVars, historyVars
<1> DEFINE x == held[Acceptor]
<1>1. /\ wpc[w] = "popping" /\ wpc' = [wpc EXCEPT ![w] = "popped"] /\ queue # <<>>
      /\ held' = [held EXCEPT ![w] = Head(queue)] /\ queue' = Tail(queue)
      /\ UNCHANGED <<fresh, closed, fate, pc>>
  BY Zenon DEF PopTake, WorkerAt, WorkerGoes, Queue!PopTake
<1>2. queue \in Seq(Clients) /\ held \in [Threads -> Clients \cup {NoClient}]
  BY Zenon DEF Ownership, OwnerTypes
<1>3. Head(queue) \in Clients
  BY <1>1, <1>2, HeadTailProperties, Zenon
<1>4. ClientOf' = [ClientOf EXCEPT ![w] = Head(queue)]
  BY <1>1, <1>3, ClientOfMoves, Zenon DEF WorkerPlaces
<1>5. ClientOf[w] = NoClient
  BY <1>1, ClientOfAt
<1>6. x \in Clients \cup {NoClient} /\ held'[Acceptor] = x
  BY <1>1, <1>2, ServerAssumption, Zenon DEF Threads
<1>7. InLine # <<>> /\ Head(InLine) = Head(queue) /\ InLine' = Tail(InLine)
  <2>1. CASE x = NoClient
    BY <1>1, <1>6, <2>1, Zenon DEF InLine
  <2>2. CASE x # NoClient
    <3>1. x \in Clients /\ InLine = Append(queue, x) /\ InLine' = Append(Tail(queue), x)
      BY <1>1, <1>6, <2>2, Zenon DEF InLine
    <3>2. queue \in Seq(Clients) /\ queue # <<>>
      BY <1>1, <1>2, Zenon
    <3>3. /\ Append(queue, x) # <<>> /\ Head(Append(queue, x)) = Head(queue)
          /\ Tail(Append(queue, x)) = Append(Tail(queue), x)
      BY <3>1, <3>2, AppendBehind, Zenon
    <3> QED BY <3>1, <3>3, Zenon
  <2> QED BY <2>1, <2>2, Zenon
<1>8. Over' = Over
  BY <1>1, Zenon DEF Over
<1> QED BY <1>1, <1>4, <1>5, <1>7, <1>8, Zenon DEF Outside!Begin

\* A result, or an exception, is the end of a client's service.
LEMMA FinishSeen ==
  ASSUME ControlTypes, Ownership, Custody, NEW w \in Workers,
         (\E r \in Results : ServeReturns(w, r)) \/ ServeThrows(w)
  PROVE  Outside!Finish(w)
<1> USE DEF queueVars, kernelVars, mainVars, workerVars, historyVars
<1> DEFINE x == held[w]
<1>1. /\ wpc[w] = "serving" /\ UNCHANGED <<fresh, queue, closed, pc>>
      /\ \E how \in {"served", "failed"} : fate' = [fate EXCEPT ![x] = how]
  BY Zenon DEF ServeReturns, ServeThrows, WorkerAt, Queue!Discard
<1>2. held \in [Threads -> Clients \cup {NoClient}] /\ x \in Clients \cup {NoClient} /\ x # NoClient
  BY <1>1, Zenon DEF Ownership, OwnerTypes, Threads, Custody
<1>3. ClientOf[w] = x
  BY <1>1, ClientOfAt, Zenon
<1>4. ClientOf' = [ClientOf EXCEPT ![w] = NoClient] /\ held'[Acceptor] = held[Acceptor]
  <2>1. ASSUME NEW r \in Results, ServeReturns(w, r)
        PROVE  /\ wpc' = [wpc EXCEPT ![w] = "recorded"] /\ UNCHANGED held
    BY <2>1, Zenon DEF ServeReturns, WorkerGoes
  <2>2. ASSUME ServeThrows(w)
        PROVE  /\ wpc' = [wpc EXCEPT ![w] = "unwound"]
               /\ held' = [held EXCEPT ![w] = NoClient]
    BY <2>2, Zenon DEF ServeThrows, WorkerGoes, Queue!Discard
  <2>3. held = [held EXCEPT ![w] = x]
    BY <1>2
  <2>4. ASSUME NEW l \in {"recorded", "unwound"}, NEW y \in {x, NoClient},
               wpc' = [wpc EXCEPT ![w] = l], held' = [held EXCEPT ![w] = y]
        PROVE  ClientOf' = [ClientOf EXCEPT ![w] = NoClient] /\ held'[Acceptor] = held[Acceptor]
    <3>1. l \in WorkerPlaces /\ l \notin {"popped", "serving"}
      BY DEF WorkerPlaces
    <3>2. y \in Clients \cup {NoClient}
      BY <1>2, Zenon
    <3>3. held'[Acceptor] = held[Acceptor]
      BY <1>2, <2>4, ServerAssumption, Zenon DEF Threads
    <3>4. ClientOf' = [ClientOf EXCEPT ![w] = IF l \in {"popped", "serving"} THEN y ELSE NoClient]
      BY <2>4, <3>1, <3>2, ClientOfMoves, Zenon
    <3> QED BY <3>1, <3>3, <3>4, Zenon
  <2> QED BY <2>1, <2>2, <2>3, <2>4, Zenon
<1>5. InLine' = InLine /\ Over' = Over
  BY <1>1, <1>4, Zenon DEF InLine, Over
<1> QED BY <1>1, <1>2, <1>3, <1>4, <1>5, Zenon DEF Outside!Finish

\* The process ends with the workers joined and nobody in line.
LEMMA EndSeen ==
  ASSUME ControlTypes, Ownership, Custody, Drained, LastRefusal,
         Destroy \/ (Join /\ path = "ctor")
  PROVE  Outside!End
<1> USE DEF queueVars, kernelVars, mainVars, workerVars, historyVars
<1>1. /\ UNCHANGED <<fresh, queue, closed, held, fate, wpc>>
      /\ pc \in {"destroy", "join"} /\ pc' \in {"destroyed", "exited"}
      /\ pc = "join" => path = "ctor" /\ \A w \in Workers : wpc[w] \in {"unborn", "exited"}
  BY Zenon DEF Destroy, Join
<1>2. closed /\ held[Acceptor] = NoClient
  BY <1>1, Zenon DEF LastRefusal, Joined, Custody
<1>3. \A w \in Workers : wpc[w] \in {"unborn", "exited"}
  BY <1>1, Zenon DEF Drained, DrainedBeforeExit
<1>4. queue = <<>>
  <2>1. CASE path = "ctor"
    BY <2>1, Zenon DEF LastRefusal
  <2>2. CASE path # "ctor"
    <3>1. PICK w \in Workers : TRUE
      BY ServerAssumption, Zenon
    <3>2. wpc[w] = "exited"
      BY <1>3, <2>2, <3>1, Zenon DEF Custody
    <3> QED BY <3>2, Zenon DEF Drained, DrainedBeforeExit
  <2> QED BY <2>1, <2>2, Zenon
<1>5. InLine = <<>> /\ InLine' = InLine /\ ClientOf' = ClientOf
  BY <1>1, <1>2, <1>4, Zenon DEF InLine, ClientOf
<1>6. \A w \in Workers : ClientOf[w] = NoClient
  BY <1>3, ClientOfAt, Zenon
<1>7. ~Over /\ Over' = TRUE
  BY <1>1 DEF Over
<1> QED BY <1>1, <1>2, <1>5, <1>6, <1>7, Zenon DEF Outside!End

\* Every step of the threads is a step of the service, or none.
LEMMA ServiceStep ==
  ASSUME ControlTypes, Ownership, Custody, Drained, LastRefusal, [Next]_vars
  PROVE  Outside!Next \/ UNCHANGED Outside!vars
<1> USE DEF queueVars, kernelVars, mainVars, workerVars, historyVars
<1>1. ASSUME NEW w \in Workers, StartWorker(w) PROVE UNCHANGED Outside!vars
  <2>1. UNCHANGED <<fresh, queue, held, fate, closed, pc>>
    BY <1>1, Zenon DEF StartWorker
  <2>2. \A v \in Workers : wpc'[v] \in {"popped", "serving"} <=> wpc[v] \in {"popped", "serving"}
    BY <1>1, Zenon DEF StartWorker, ControlTypes
  <2> QED BY <2>1, <2>2, SameView, Zenon DEF Over
<1>2. CASE StartFails
  BY <1>2, SameView, Zenon DEF StartFails, Over
<1>3. CASE MakeShutdownPipe
  BY <1>3, SameView, Zenon DEF MakeShutdownPipe, Over
<1>4. CASE InstallHandler
  BY <1>4, SameView, Zenon DEF InstallHandler, Over
<1>5. CASE InstallFails
  BY <1>5, SameView, Zenon DEF InstallFails, Over
<1>6. CASE LoopTest
  BY <1>6, SameView, Zenon DEF LoopTest, Over
<1>7. CASE Poll
  BY <1>7, SameView, Zenon DEF Poll, Over
<1>8. ASSUME NEW c \in Clients, Accept(c) PROVE Outside!Next
  BY <1>8, AcceptSeen, Zenon DEF Outside!Next
<1>9. CASE DispatchPush
  BY <1>9, PushUnseen, Zenon
<1>10. CASE DispatchCount
  BY <1>10, SameView, Zenon DEF DispatchCount, Queue!Return, Over
<1>11. CASE DispatchRefused
  BY <1>11, RefuseSeen, Zenon DEF Outside!Next
<1>12. CASE RefusedCount
  BY <1>12, SameView, Zenon DEF RefusedCount, Over
<1>13. ASSUME Queue!Close, Over' <=> Over, UNCHANGED <<fate, wpc>> PROVE Outside!Next
  <2>1. InLine' = InLine /\ ClientOf' = ClientOf
    BY <1>13, Zenon DEF Queue!Close, InLine, ClientOf
  <2>2. Over' = Over
    BY <1>13 DEF Over
  <2> QED BY <1>13, <2>1, <2>2, Zenon DEF Queue!Close, Outside!Next, Outside!Stop
<1>14. ASSUME NEW t \in Requesters \cup {Acceptor}, Requests(t)
       PROVE  Outside!Next \/ UNCHANGED Outside!vars
  <2>1. CASE Exchange(t) \/ WritePipe(t)
    BY <2>1, SameView, Zenon DEF Exchange, WritePipe, Over
  <2>2. CASE CloseQueue(t)
    BY <1>13, <2>2, Zenon DEF CloseQueue, Over
  <2> QED BY <1>14, <2>1, <2>2, Zenon DEF Requests
<1>15. CASE RequestReturns
  BY <1>15, SameView, Zenon DEF RequestReturns, Over
<1>16. CASE PoolClose
  BY <1>13, <1>16, Zenon DEF PoolClose, Over
<1>17. CASE Join
  <2>1. CASE path = "ctor"
    BY <1>17, <2>1, EndSeen, Zenon DEF Outside!Next
  <2>2. CASE path # "ctor"
    <3>1. /\ pc = "join" /\ pc' \in {"returned", "destroy", "exited"}
          /\ pc' = "exited" => path \notin {"serve", "dtor"}
          /\ UNCHANGED <<fresh, queue, held, fate, closed, wpc>>
      BY <1>17 DEF Join
    <3>2. path \in {"serve", "dtor"}
      BY <2>2, Zenon DEF ControlTypes
    <3> QED BY <3>1, <3>2, SameView, Zenon DEF Over
  <2> QED BY <2>1, <2>2, Zenon
<1>18. CASE ForgetNotificationFd
  BY <1>18, SameView, Zenon DEF ForgetNotificationFd, Over
<1>19. CASE Report
  BY <1>19, SameView, Zenon DEF Report, Over
<1>20. CASE Destroy
  BY <1>20, EndSeen, Zenon DEF Outside!Next
<1>21. CASE Exit
  BY <1>21, SameView, Zenon DEF Exit, Over
<1>22. ASSUME NEW w \in Workers, WorkerSteps(w)
       PROVE  Outside!Next \/ UNCHANGED Outside!vars
  <2>1. /\ wpc \in [Workers -> WorkerPlaces] /\ held \in [Threads -> Clients \cup {NoClient}]
        /\ held = [held EXCEPT ![w] = held[w]] /\ held[w] \in Clients \cup {NoClient}
    BY DEF ControlTypes, Ownership, OwnerTypes, Threads
  <2>2. ASSUME NEW l \in WorkerPlaces, wpc' = [wpc EXCEPT ![w] = l],
               NEW x \in Clients \cup {NoClient}, held' = [held EXCEPT ![w] = x],
               UNCHANGED <<fresh, queue, fate, closed, pc>>,
               ClientOf[w] = IF l \in {"popped", "serving"} THEN x ELSE NoClient
        PROVE  UNCHANGED Outside!vars
    <3>1. ClientOf' = [ClientOf EXCEPT ![w] = ClientOf[w]]
      BY <2>2, ClientOfMoves, Zenon
    <3>2. ClientOf' = ClientOf
      <4>1. ClientOf \in [Workers -> {ClientOf[v] : v \in Workers}]
        BY Zenon DEF ClientOf
      <4> QED BY <3>1, <4>1, SameUpdate, Zenon
    <3>3. held'[Acceptor] = held[Acceptor]
      BY <2>1, <2>2, ServerAssumption, Zenon DEF Threads
    <3>4. InLine' = InLine
      BY <2>2, <3>3, InLineKept, Zenon
    <3>5. Over' = Over
      BY <2>2 DEF Over
    <3> QED BY <2>2, <3>2, <3>4, <3>5, Zenon DEF Outside!vars
  <2>3. CASE PopCall(w) \/ PopEmpty(w) \/ CatchError(w) \/ ServeEnd(w)
    <3>1. /\ UNCHANGED <<fresh, queue, held, fate, closed, pc>>
          /\ wpc[w] \in {"pop", "popping", "unwound", "closing"}
          /\ \E l \in {"popping", "exited", "closing", "pop"} : wpc' = [wpc EXCEPT ![w] = l]
      BY <2>3, Zenon DEF PopCall, PopEmpty, CatchError, ServeEnd, WorkerAt, WorkerGoes,
                         Queue!PopCall, Queue!PopEmpty
    <3>2. PICK l \in {"popping", "exited", "closing", "pop"} : wpc' = [wpc EXCEPT ![w] = l]
      BY <3>1, Zenon
    <3>3. l \in WorkerPlaces /\ l \notin {"popped", "serving"}
      BY DEF WorkerPlaces
    <3>4. ClientOf[w] = NoClient
      BY <3>1, ClientOfAt, Zenon
    <3>5. held' = [held EXCEPT ![w] = held[w]]
      BY <2>1, <3>1, Zenon
    <3> QED BY <2>1, <2>2, <3>1, <3>2, <3>3, <3>4, <3>5, Zenon
  <2>4. CASE PopTake(w)
    BY <2>4, TakeSeen, Zenon DEF Outside!Next
  <2>5. CASE ServeBegin(w)
    <3>1. /\ UNCHANGED <<fresh, queue, held, fate, closed, pc>>
          /\ wpc[w] = "popped" /\ wpc' = [wpc EXCEPT ![w] = "serving"]
      BY <2>5, Zenon DEF ServeBegin, WorkerAt, WorkerGoes, Queue!Return
    <3>2. ClientOf[w] = held[w] /\ "serving" \in WorkerPlaces
      BY <3>1, ClientOfAt, Zenon DEF WorkerPlaces
    <3>3. held' = [held EXCEPT ![w] = held[w]]
      BY <2>1, <3>1, Zenon
    <3> QED BY <2>1, <2>2, <3>1, <3>2, <3>3, Zenon
  <2>6. CASE (\E r \in Results : ServeReturns(w, r)) \/ ServeThrows(w)
    BY <2>6, FinishSeen, Zenon DEF Outside!Next
  <2>7. CASE CloseServed(w)
    <3>1. /\ UNCHANGED <<fresh, queue, fate, closed, pc>> /\ held' = [held EXCEPT ![w] = NoClient]
          /\ wpc[w] = "recorded" /\ wpc' = [wpc EXCEPT ![w] = "closing"]
      BY <2>7, Zenon DEF CloseServed, WorkerAt, WorkerGoes, Queue!Discard
    <3>2. ClientOf[w] = NoClient /\ "closing" \in WorkerPlaces /\ NoClient \in Clients \cup {NoClient}
      BY <3>1, ClientOfAt, Zenon DEF WorkerPlaces
    <3> QED BY <2>2, <3>1, <3>2, Zenon
  <2> QED BY <1>22, <2>3, <2>4, <2>5, <2>6, <2>7, Zenon DEF WorkerSteps
<1>23. ASSUME NEW c \in Clients, Connect(c) PROVE UNCHANGED Outside!vars
  BY <1>23, SameView, Zenon DEF Connect, Over
<1>24. CASE SignalMain
  <2>1. /\ UNCHANGED <<fresh, queue, held, fate, closed, wpc>>
        /\ pc' = pc \/ (pc = "poll" /\ pc' = "loop")
    BY <1>24, Zenon DEF SignalMain
  <2> QED BY <2>1, SameView, Zenon DEF Over
<1>25. CASE SystemCallFails
  BY <1>25, SameView, Zenon DEF SystemCallFails, Over
<1>26. ASSUME NEW w \in Workers, SignalWorker(w) \/ HandlerOnWorkerWrites(w)
       PROVE  UNCHANGED Outside!vars
  <2>1. UNCHANGED <<fresh, queue, held, fate, closed, wpc, pc>>
    BY <1>26, Zenon DEF SignalWorker, HandlerOnWorkerWrites
  <2> QED BY <2>1, SameView, Zenon DEF Over
<1>27. CASE UNCHANGED vars
  BY <1>27, SameView, Zenon DEF vars, Over
<1> QED BY NextCases, <1>1, <1>2, <1>3, <1>4, <1>5, <1>6, <1>7, <1>8, <1>9, <1>10, <1>11,
           <1>12, <1>14, <1>15, <1>16, <1>17, <1>18, <1>19, <1>20, <1>21, <1>22,
           <1>23, <1>24, <1>25, <1>26, <1>27, Zenon

\* The threads of the server, with their queue, pipe and flags, do what Service
\* promises: connections are served in the order of accept, each once and by one
\* worker; only a shutdown refuses one, the newest, and none is accepted after it;
\* and the process ends with nobody in line and nobody being served.
THEOREM ServiceCorrect == SafeSpec => Outside!SafeSpec
<1>1. Init => Outside!Init
  <2> SUFFICES ASSUME Init PROVE Outside!Init
    OBVIOUS
  <2>1. /\ pc = "spawn" /\ queue = <<>> /\ closed = FALSE /\ fresh = Clients
        /\ fate = [c \in Clients |-> "pending"] /\ \A t \in Threads : held[t] = NoClient
        /\ \A w \in Workers : wpc[w] = "unborn"
    BY Zenon DEF Init, Queue!Init, Queue!Callers, Threads
  <2>2. InLine = <<>> /\ ClientOf = [w \in Workers |-> NoClient]
    BY <2>1 DEF InLine, ClientOf, Threads
  <2>3. Over = FALSE
    BY <2>1 DEF Over
  <2> QED BY <2>1, <2>2, <2>3, Zenon DEF Outside!Init
<1>2. ControlTypes /\ Drained /\ Ownership /\ Custody /\ LastRefusal /\ [Next]_vars
        => [Outside!Next]_(Outside!vars)
  BY ServiceStep, Zenon
<1> QED BY <1>1, <1>2, FlagAlways, DrainedAlways, OwnershipCorrect, CustodyAlways,
           LastRefusalAlways, PTL
  DEF SafeSpec, Outside!SafeSpec
===============================================================================
