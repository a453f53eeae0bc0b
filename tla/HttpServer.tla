----------------------------- MODULE HttpServer ------------------------------
(***************************************************************************)
(* The life of a server process: main (src/main.cpp), HttpServer           *)
(* (src/server.cpp) and WorkerPool (src/worker_pool.cpp), composed with    *)
(* the queue of module FifoQueue.                                          *)
(*                                                                         *)
(* The thread that constructs the server, runs serve_forever and destroys  *)
(* the server is the only producer, Acceptor.  Requesters are other        *)
(* threads that call request_shutdown, as the tests do; a signal may run   *)
(* the handler of main.cpp on the main thread or on a worker.  A program   *)
(* counter names the next step of a thread; a step ends where another      *)
(* thread can see what it did or can make it wait.                         *)
(***************************************************************************)
EXTENDS Integers, Sequences, FiniteSets, FiniteSetsExt

CONSTANTS
  Clients,      \* connections that may be made, and their descriptors
  Workers,
  Acceptor,
  Requesters,
  Capacity,     \* queue_capacity
  Reasons,      \* the ConnectionEndReason values, one counter each
  Results,      \* the ConnectionResult values serve() may return
  MaxSignals,   \* bound: signals delivered to the process
  NoClient

ASSUME ServerAssumption ==
  /\ IsFiniteSet(Clients) /\ NoClient \notin Clients
  /\ IsFiniteSet(Workers) /\ Workers # {}
  /\ Acceptor \notin Workers /\ Acceptor \notin Requesters
  /\ Capacity \in Nat \ {0}
  /\ MaxSignals \in Nat
  /\ Results \subseteq [reason : Reasons, requests_served : Nat]
  /\ Reasons \cap {"accepted", "dispatched", "rejected", "active", "completed",
                   "requests", "worker_errors", "none"} = {}

VARIABLES
  \* the queue of WorkerPool (module FifoQueue)
  fresh,               \* clients not accepted yet
  queue, closed, op,
  held,                \* the descriptor the acceptor or a worker owns
  \* kernel
  backlog,             \* connections waiting in the listener
  gone,                \* client descriptors that have been closed
  pipe,                \* the shutdown pipe holds a byte; nobody reads it
  pipe_open,           \* the shutdown pipe exists
  \* HttpServer and main
  pc,                  \* of the main thread
  path,                \* who called shutdown: "ctor", "serve" or "dtor"
  error,               \* what was thrown to main, or "none"
  shutdown_requested,
  rs,                  \* progress of request_shutdown, per caller
  notification_fd,     \* main's global: "unset", "pipe" or "none" (-1)
  signals,             \* signals still to be delivered
  \* WorkerPool
  wpc,                 \* per worker
  handler,             \* worker is in the signal handler, about to write
  count,               \* the atomic counters
  \* history
  fate,                \* what became of each connection, and
  result,              \* the ConnectionResult of the ones that were served
  late,                \* accepts made with a byte already in the pipe
  stray                \* a handler wrote to a destroyed pipe

queueVars == <<fresh, queue, closed, op, held>>
kernelVars == <<backlog, gone, pipe, pipe_open>>
mainVars == <<pc, path, error, shutdown_requested, rs, notification_fd, signals>>
workerVars == <<wpc, handler>>
historyVars == <<fate, result, late, stray>>
vars == <<queueVars, kernelVars, mainVars, workerVars, count, historyVars>>

Queue == INSTANCE FifoQueue WITH
  Producers <- {Acceptor}, Consumers <- Workers,
  Items <- Clients, NoItem <- NoClient

Counters == {"accepted", "dispatched", "rejected", "active", "completed",
             "requests", "worker_errors"} \cup Reasons

Add(k, n) == count' = [count EXCEPT ![k] = @ + n]

Init ==
  /\ Queue!Init
  /\ backlog = {} /\ gone = {} /\ pipe = FALSE /\ pipe_open = FALSE
  /\ pc = "spawn" /\ path = "ctor" /\ error = "none"
  /\ shutdown_requested = FALSE
  /\ rs = [t \in Requesters \cup {Acceptor} |-> "idle"]
  /\ notification_fd = "unset"
  /\ signals = MaxSignals
  /\ wpc = [w \in Workers |-> "unborn"]
  /\ handler = [w \in Workers |-> FALSE]
  /\ count = [k \in Counters |-> 0]
  /\ fate = [c \in Clients |-> "pending"]
  /\ result = [c \in Clients |-> [reason |-> "none", requests_served |-> 0]]
  /\ late = 0 /\ stray = FALSE

-----------------------------------------------------------------------------
\* Construction: WorkerPool starts its threads, then the pipe is created and
\* main installs the handler.  A failure closes the queue and joins the
\* threads that were started.

StartWorker(w) ==
  /\ pc = "spawn" /\ wpc[w] = "unborn"
  /\ wpc' = [wpc EXCEPT ![w] = "pop"]
  /\ UNCHANGED <<queueVars, kernelVars, mainVars, handler, count, historyVars>>

StartFails ==
  /\ pc = "spawn" /\ \E w \in Workers : wpc[w] = "unborn"
  /\ pc' = "pool_close" /\ error' = "thread"
  /\ UNCHANGED <<queueVars, kernelVars, path, shutdown_requested, rs,
                 notification_fd, signals, workerVars, count, historyVars>>

MakeShutdownPipe ==
  /\ pc = "spawn" /\ \A w \in Workers : wpc[w] # "unborn"
  /\ \/ pc' = "install" /\ pipe_open' = TRUE /\ UNCHANGED error
     \/ pc' = "pool_close" /\ error' = "pipe" /\ UNCHANGED pipe_open
  /\ UNCHANGED <<queueVars, backlog, gone, pipe, path, shutdown_requested, rs,
                 notification_fd, signals, workerVars, count, historyVars>>

InstallHandler ==
  /\ pc = "install"
  /\ pc' = "loop" /\ path' = "serve" /\ notification_fd' = "pipe"
  /\ UNCHANGED <<queueVars, kernelVars, error, shutdown_requested, rs, signals,
                 workerVars, count, historyVars>>

\* sigaction fails, and the notification fd is taken back; or, with the handler
\* installed, the document root has no canonical path any more.
InstallFails ==
  /\ pc = "install"
  /\ \/ error' = "sigaction" /\ notification_fd' = "none"
     \/ error' = "canonical" /\ notification_fd' = "pipe"
  /\ pc' = "request" /\ path' = "dtor"
  /\ UNCHANGED <<queueVars, kernelVars, shutdown_requested, rs, signals,
                 workerVars, count, historyVars>>

-----------------------------------------------------------------------------
\* serve_forever and serve_one

\* Seeded fault: the loop does not test the flag and leaves by the pipe alone.
LoopIgnoresFlag ==
  /\ pc = "loop"
  /\ pc' = "poll"
  /\ UNCHANGED <<queueVars, kernelVars, path, error, shutdown_requested, rs,
                 notification_fd, signals, workerVars, count, historyVars>>

LoopTest ==
  /\ pc = "loop"
  /\ pc' = IF shutdown_requested THEN "pool_close" ELSE "poll"
  /\ UNCHANGED <<queueVars, kernelVars, path, error, shutdown_requested, rs,
                 notification_fd, signals, workerVars, count, historyVars>>

\* Seeded fault: the listener is looked at before the pipe.
PollListenerFirst ==
  /\ pc = "poll" /\ (pipe \/ backlog # {})
  /\ pc' = IF backlog # {} THEN "accept" ELSE "request"
  /\ UNCHANGED <<queueVars, kernelVars, path, error, shutdown_requested, rs,
                 notification_fd, signals, workerVars, count, historyVars>>

\* Seeded fault: only the listener is polled.
PollListenerOnly ==
  /\ pc = "poll" /\ backlog # {}
  /\ pc' = IF pipe THEN "request" ELSE "accept"
  /\ UNCHANGED <<queueVars, kernelVars, path, error, shutdown_requested, rs,
                 notification_fd, signals, workerVars, count, historyVars>>

\* poll reports every descriptor that is ready, and the pipe is looked at first.
Poll ==
  /\ pc = "poll" /\ (pipe \/ backlog # {})
  /\ pc' = IF pipe THEN "request" ELSE "accept"
  /\ UNCHANGED <<queueVars, kernelVars, path, error, shutdown_requested, rs,
                 notification_fd, signals, workerVars, count, historyVars>>

\* accept returns a client, which is counted and passed to dispatch, where
\* push is called with it.
Accept(c) ==
  /\ pc = "accept" /\ c \in backlog
  /\ Queue!PushCall(Acceptor, c)
  /\ backlog' = backlog \ {c}
  /\ Add("accepted", 1)
  /\ late' = IF pipe THEN late + 1 ELSE late
  /\ pc' = "push"
  /\ UNCHANGED <<gone, pipe, pipe_open, path, error, shutdown_requested, rs,
                 notification_fd, signals, workerVars, fate, result, stray>>

\* poll or accept fails with anything but EINTR: the exception leaves
\* serve_forever, and main destroys the server while unwinding.
SystemCallFails ==
  /\ pc \in {"poll", "accept"}
  /\ error' = pc /\ pc' = "request" /\ path' = "dtor"
  /\ UNCHANGED <<queueVars, kernelVars, shutdown_requested, rs, notification_fd,
                 signals, workerVars, count, historyVars>>

DispatchPush ==
  /\ pc = "push"
  /\ Queue!PushInsert(Acceptor)
  /\ pc' = "pushed"
  /\ UNCHANGED <<kernelVars, path, error, shutdown_requested, rs,
                 notification_fd, signals, workerVars, count, historyVars>>

DispatchCount ==
  /\ pc = "pushed"
  /\ Queue!Return(Acceptor)
  /\ Add("dispatched", 1)
  /\ pc' = "loop"
  /\ UNCHANGED <<kernelVars, path, error, shutdown_requested, rs,
                 notification_fd, signals, workerVars, historyVars>>

\* push refuses: the descriptor is closed with push's parameter.
DispatchRefused ==
  /\ pc = "push"
  /\ Queue!PushReject(Acceptor)
  /\ gone' = gone \cup {held[Acceptor]}
  /\ fate' = [fate EXCEPT ![held[Acceptor]] = "refused"]
  /\ pc' = "refused"
  /\ UNCHANGED <<backlog, pipe, pipe_open, path, error, shutdown_requested, rs,
                 notification_fd, signals, workerVars, count, result, late, stray>>

\* The refusal is counted; serve_one throws unless shutdown was requested.
RefusedCount ==
  /\ pc = "refused"
  /\ Add("rejected", 1)
  /\ IF shutdown_requested
     THEN pc' = "loop" /\ UNCHANGED <<path, error>>
     ELSE pc' = "request" /\ path' = "dtor" /\ error' = "worker pool is closed"
  /\ UNCHANGED <<queueVars, kernelVars, shutdown_requested, rs, notification_fd,
                 signals, workerVars, historyVars>>

-----------------------------------------------------------------------------
\* request_shutdown, called by a requester at any time in the server's life,
\* by serve_forever when the pipe is readable and by ~HttpServer.

\* Seeded fault: the flag is read but not set.
ExchangeWithoutStore(t) ==
  /\ rs[t] = "idle"
  /\ IF t = Acceptor THEN pc = "request" ELSE pipe_open
  /\ rs' = [rs EXCEPT ![t] = IF shutdown_requested THEN "done" ELSE "close"]
  /\ UNCHANGED <<queueVars, kernelVars, shutdown_requested, pc, path, error,
                 notification_fd, signals, workerVars, count, historyVars>>

Exchange(t) ==
  /\ rs[t] = "idle"
  /\ IF t = Acceptor THEN pc = "request" ELSE pipe_open
  /\ shutdown_requested' = TRUE
  /\ rs' = [rs EXCEPT ![t] = IF shutdown_requested THEN "done" ELSE "close"]
  /\ UNCHANGED <<queueVars, kernelVars, pc, path, error, notification_fd,
                 signals, workerVars, count, historyVars>>

CloseQueue(t) ==
  /\ rs[t] = "close"
  /\ Queue!Close
  /\ rs' = [rs EXCEPT ![t] = "write"]
  /\ UNCHANGED <<kernelVars, pc, path, error, shutdown_requested,
                 notification_fd, signals, workerVars, count, historyVars>>

WritePipe(t) ==
  /\ rs[t] = "write"
  /\ pipe' = TRUE
  /\ rs' = [rs EXCEPT ![t] = "done"]
  /\ UNCHANGED <<queueVars, backlog, gone, pipe_open, pc, path, error,
                 shutdown_requested, notification_fd, signals, workerVars,
                 count, historyVars>>

\* Back in the acceptor, which goes on to WorkerPool::shutdown.
RequestReturns ==
  /\ pc = "request" /\ rs[Acceptor] = "done"
  /\ rs' = [rs EXCEPT ![Acceptor] = "idle"]
  /\ pc' = "pool_close"
  /\ UNCHANGED <<queueVars, kernelVars, path, error, shutdown_requested,
                 notification_fd, signals, workerVars, count, historyVars>>

-----------------------------------------------------------------------------
\* WorkerPool::shutdown, then whatever its caller does next: main reports the
\* counters and destroys the server, or the process ends with an error.

PoolClose ==
  /\ pc = "pool_close"
  /\ Queue!Close
  /\ pc' = "join"
  /\ UNCHANGED <<kernelVars, path, error, shutdown_requested, rs,
                 notification_fd, signals, workerVars, count, historyVars>>

\* Seeded fault: the first worker to end lets shutdown return.
JoinAnyWorker ==
  /\ pc = "join" /\ \E w \in Workers : wpc[w] \in {"unborn", "exited"}
  /\ pc' = IF path = "serve" THEN "returned"
           ELSE IF path = "dtor" THEN "destroy"
           ELSE "exited"
  /\ UNCHANGED <<queueVars, kernelVars, path, error, shutdown_requested, rs,
                 notification_fd, signals, workerVars, count, historyVars>>

Join ==
  /\ pc = "join" /\ \A w \in Workers : wpc[w] \in {"unborn", "exited"}
  /\ pc' = IF path = "serve" THEN "returned"
           ELSE IF path = "dtor" THEN "destroy"
           ELSE "exited"
  /\ UNCHANGED <<queueVars, kernelVars, path, error, shutdown_requested, rs,
                 notification_fd, signals, workerVars, count, historyVars>>

\* Seeded fault: main keeps the descriptor of the pipe.
KeepNotificationFd ==
  /\ pc = "returned"
  /\ pc' = "report"
  /\ UNCHANGED <<queueVars, kernelVars, path, error, shutdown_requested, rs,
                 notification_fd, signals, workerVars, count, historyVars>>

ForgetNotificationFd ==
  /\ pc = "returned"
  /\ notification_fd' = "none"
  /\ pc' = "report"
  /\ UNCHANGED <<queueVars, kernelVars, path, error, shutdown_requested, rs,
                 signals, workerVars, count, historyVars>>

\* The metrics record is printed from stats(); then ~HttpServer starts.
Report ==
  /\ pc = "report"
  /\ pc' = "request" /\ path' = "dtor"
  /\ UNCHANGED <<queueVars, kernelVars, error, shutdown_requested, rs,
                 notification_fd, signals, workerVars, count, historyVars>>

\* The members are destroyed.  The owner of the server has seen to it that no
\* other thread is still in request_shutdown.
Destroy ==
  /\ pc = "destroy" /\ \A t \in Requesters : rs[t] \in {"idle", "done"}
  /\ pipe_open' = FALSE
  /\ pc' = "destroyed"
  /\ UNCHANGED <<queueVars, backlog, gone, pipe, path, error,
                 shutdown_requested, rs, notification_fd, signals, workerVars,
                 count, historyVars>>

Exit ==
  /\ pc = "destroyed"
  /\ pc' = "exited"
  /\ UNCHANGED <<queueVars, kernelVars, path, error, shutdown_requested, rs,
                 notification_fd, signals, workerVars, count, historyVars>>

-----------------------------------------------------------------------------
\* worker_loop.  A worker interrupted by a signal finishes the handler first.

WorkerAt(w, l) == wpc[w] = l /\ ~handler[w]

WorkerGoes(w, l) == wpc' = [wpc EXCEPT ![w] = l] /\ UNCHANGED handler

PopCall(w) ==
  /\ WorkerAt(w, "pop") /\ WorkerGoes(w, "popping")
  /\ Queue!PopCall(w)
  /\ UNCHANGED <<kernelVars, mainVars, count, historyVars>>

PopTake(w) ==
  /\ WorkerAt(w, "popping") /\ WorkerGoes(w, "popped")
  /\ Queue!PopTake(w)
  /\ UNCHANGED <<kernelVars, mainVars, count, historyVars>>

\* pop returns nullopt and the thread ends.
PopEmpty(w) ==
  /\ WorkerAt(w, "popping") /\ WorkerGoes(w, "exited")
  /\ Queue!PopEmpty(w)
  /\ UNCHANGED <<kernelVars, mainVars, count, historyVars>>

ServeBegin(w) ==
  /\ WorkerAt(w, "popped") /\ WorkerGoes(w, "serving")
  /\ Queue!Return(w)
  /\ Add("active", 1)
  /\ UNCHANGED <<kernelVars, mainVars, historyVars>>

\* Seeded faults: one counter for every reason; connections without a request
\* left out.
record_result_one_reason(r) ==
  count' = [count EXCEPT !["completed"] = @ + 1,
                         !["requests"] = @ + r.requests_served,
                         !["peer_closes"] = @ + 1]

record_result_if_requests(r) ==
  count' = [count EXCEPT !["completed"] = @ + (IF r.requests_served > 0 THEN 1 ELSE 0),
                         !["requests"] = @ + r.requests_served,
                         ![r.reason] = @ + 1]

\* The effect of record_result(r) on the counters.
record_result(r) ==
  count' = [count EXCEPT !["completed"] = @ + 1,
                         !["requests"] = @ + r.requests_served,
                         ![r.reason] = @ + 1]

\* Connection::serve returns r, which is recorded while the Connection, and
\* with it the descriptor, still exists.
ServeReturns(w, r) ==
  /\ WorkerAt(w, "serving") /\ WorkerGoes(w, "recorded")
  /\ record_result(r)
  /\ fate' = [fate EXCEPT ![held[w]] = "served"]
  /\ result' = [result EXCEPT ![held[w]] = r]
  /\ UNCHANGED <<queueVars, kernelVars, mainVars, late, stray>>

\* Seeded fault: the descriptor is released, not closed.
CloseServedReleases(w) ==
  /\ WorkerAt(w, "recorded") /\ WorkerGoes(w, "closing")
  /\ Queue!Discard(w)
  /\ UNCHANGED <<kernelVars, mainVars, count, historyVars>>

\* The Connection is destroyed at the end of the try block ...
CloseServed(w) ==
  /\ WorkerAt(w, "recorded") /\ WorkerGoes(w, "closing")
  /\ gone' = gone \cup {held[w]}
  /\ Queue!Discard(w)
  /\ UNCHANGED <<backlog, pipe, pipe_open, mainVars, count, historyVars>>

\* ... or, when its constructor or serve throws, before the handler runs.
ServeThrows(w) ==
  /\ WorkerAt(w, "serving") /\ WorkerGoes(w, "unwound")
  /\ gone' = gone \cup {held[w]}
  /\ fate' = [fate EXCEPT ![held[w]] = "failed"]
  /\ Queue!Discard(w)
  /\ UNCHANGED <<backlog, pipe, pipe_open, mainVars, count, result, late, stray>>

\* Seeded faults: the error is not counted; it ends the thread.
CatchErrorUncounted(w) ==
  /\ WorkerAt(w, "unwound") /\ WorkerGoes(w, "closing")
  /\ UNCHANGED <<queueVars, kernelVars, mainVars, count, historyVars>>

CatchErrorEndsThread(w) ==
  /\ WorkerAt(w, "unwound") /\ WorkerGoes(w, "exited")
  /\ Add("worker_errors", 1)
  /\ UNCHANGED <<queueVars, kernelVars, mainVars, historyVars>>

CatchError(w) ==
  /\ WorkerAt(w, "unwound") /\ WorkerGoes(w, "closing")
  /\ Add("worker_errors", 1)
  /\ UNCHANGED <<queueVars, kernelVars, mainVars, historyVars>>

ServeEnd(w) ==
  /\ WorkerAt(w, "closing") /\ WorkerGoes(w, "pop")
  /\ Add("active", -1)
  /\ UNCHANGED <<queueVars, kernelVars, mainVars, historyVars>>

-----------------------------------------------------------------------------
\* Environment: clients and signals.

\* A connection completes and stays in the listener's backlog until accepted.
Connect(c) ==
  /\ c \in fresh \ backlog /\ pc \notin {"destroyed", "exited"}
  /\ backlog' = backlog \cup {c}
  /\ UNCHANGED <<queueVars, gone, pipe, pipe_open, mainVars, workerVars, count,
                 historyVars>>

\* write(fd, ...) by a handler that read a valid notification fd.
HandlerWrites ==
  IF pipe_open THEN pipe' = TRUE /\ UNCHANGED stray
               ELSE stray' = TRUE /\ UNCHANGED pipe

\* The handler runs on the main thread, between two of its steps; a blocked
\* poll returns EINTR, a blocked accept is retried.
SignalMain ==
  /\ signals > 0 /\ notification_fd # "unset" /\ pc # "exited"
  /\ signals' = signals - 1
  /\ IF notification_fd = "pipe" THEN HandlerWrites ELSE UNCHANGED <<pipe, stray>>
  /\ pc' = IF pc = "poll" THEN "loop" ELSE pc
  /\ UNCHANGED <<queueVars, backlog, gone, pipe_open, path, error,
                 shutdown_requested, rs, notification_fd, workerVars, count,
                 fate, result, late>>

\* The handler runs on a worker and reads the notification fd now; its write
\* follows, with steps of other threads in between.
SignalWorker(w) ==
  /\ signals > 0 /\ notification_fd # "unset"
  /\ wpc[w] \notin {"unborn", "exited"} /\ ~handler[w]
  /\ signals' = signals - 1
  /\ handler' = [handler EXCEPT ![w] = (notification_fd = "pipe")]
  /\ UNCHANGED <<queueVars, kernelVars, pc, path, error, shutdown_requested, rs,
                 notification_fd, wpc, count, historyVars>>

\* Seeded fault: the handler closes the queue itself.
HandlerOnWorkerCloses(w) ==
  /\ handler[w]
  /\ Queue!Close
  /\ HandlerWrites
  /\ handler' = [handler EXCEPT ![w] = FALSE]
  /\ UNCHANGED <<backlog, gone, pipe_open, mainVars, wpc, count, fate, result, late>>

HandlerOnWorkerWrites(w) ==
  /\ handler[w]
  /\ HandlerWrites
  /\ handler' = [handler EXCEPT ![w] = FALSE]
  /\ UNCHANGED <<queueVars, backlog, gone, pipe_open, mainVars, wpc, count,
                 fate, result, late>>

-----------------------------------------------------------------------------
Main ==
  \/ \E w \in Workers : StartWorker(w)
  \/ StartFails \/ MakeShutdownPipe \/ InstallHandler \/ InstallFails
  \/ LoopTest \/ Poll \/ \E c \in Clients : Accept(c)
  \/ DispatchPush \/ DispatchCount \/ DispatchRefused \/ RefusedCount
  \/ Exchange(Acceptor) \/ CloseQueue(Acceptor) \/ WritePipe(Acceptor)
  \/ RequestReturns \/ PoolClose \/ Join
  \/ ForgetNotificationFd \/ Report \/ Destroy \/ Exit

RequestShutdown(t) == Exchange(t) \/ CloseQueue(t) \/ WritePipe(t)

\* What a worker does by itself; which worker gets a connection is up to the
\* queue.
WorkerRuns(w) ==
  \/ PopCall(w) \/ PopEmpty(w)
  \/ ServeBegin(w) \/ \E r \in Results : ServeReturns(w, r)
  \/ CloseServed(w) \/ ServeThrows(w) \/ CatchError(w) \/ ServeEnd(w)
  \/ HandlerOnWorkerWrites(w)

Worker(w) == PopTake(w) \/ WorkerRuns(w)

Environment ==
  \/ \E c \in Clients : Connect(c)
  \/ SignalMain
  \/ \E w \in Workers : SignalWorker(w)
  \/ SystemCallFails

\* The process is gone; nothing happens any more.
Terminated == pc = "exited" /\ UNCHANGED vars

Next ==
  \/ Main
  \/ \E t \in Requesters : RequestShutdown(t)
  \/ \E w \in Workers : Worker(w)
  \/ Environment
  \/ Terminated

\* Threads that can run do run, and of the workers waiting for a connection some
\* one gets it: no more than FifoQueue promises.  That a worker's connection
\* ends is what the deadlines and the request limit of Connection guarantee.
\* Nobody has to connect, to request shutdown or to send a signal, and no call
\* has to fail.
Fairness ==
  /\ WF_vars(Main)
  /\ \A w \in Workers : WF_vars(WorkerRuns(w))
  /\ WF_vars(\E w \in Workers : PopTake(w))
  /\ \A t \in Requesters : WF_vars(CloseQueue(t) \/ WritePipe(t))

SafeSpec == Init /\ [][Next]_vars

Spec == SafeSpec /\ Fairness

-----------------------------------------------------------------------------
\* Descriptors that have been accepted and not closed.
OpenDescriptors == (Clients \ fresh) \ gone

\* Every open descriptor has an owner that will close it, no closed one has:
\* nothing leaks and nothing is closed twice, on any path through dispatch,
\* the queue, the workers and their exceptions.
EveryDescriptorOwned ==
  OpenDescriptors = {queue[i] : i \in DOMAIN queue}
                      \cup ({held[t] : t \in Workers \cup {Acceptor}} \ {NoClient})

\* A process never has more client descriptors open than one per worker, one
\* per queue slot and one with the acceptor.
DescriptorBound ==
  Cardinality(OpenDescriptors) <= Cardinality(Workers) + Capacity + 1

WorkersAt(L) == {w \in Workers : wpc[w] \in L}

One(b) == IF b THEN 1 ELSE 0

\* The counters add up between any two steps of any threads: what was accepted
\* was dispatched, rejected or is with the acceptor, and what was dispatched
\* waits, is being served, or was counted exactly once as completed or failed.
CountersConserved ==
  /\ count["accepted"] = count["dispatched"] + count["rejected"]
                            + One(pc \in {"push", "pushed", "refused"})
  /\ count["dispatched"] + One(pc = "pushed") =
       Len(queue) + count["completed"] + count["worker_errors"]
         + Cardinality(WorkersAt({"popped", "serving", "unwound"}))
  /\ count["active"] =
       Cardinality(WorkersAt({"serving", "recorded", "unwound", "closing"}))

\* When main prints the shutdown record no connection is queued or active and
\* the totals agree with what happened to each connection.
ReportExact ==
  pc = "report" =>
    /\ queue = <<>> /\ count["active"] = 0
    /\ OpenDescriptors = {}
    /\ count["accepted"] = Cardinality(Clients \ fresh)
    /\ count["accepted"] = count["dispatched"] + count["rejected"]
    /\ count["dispatched"] = count["completed"] + count["worker_errors"]
    /\ count["completed"] = Cardinality({c \in Clients : fate[c] = "served"})
    /\ count["worker_errors"] = Cardinality({c \in Clients : fate[c] = "failed"})
    /\ \A r \in Reasons :
         count[r] = Cardinality({c \in Clients : result[c].reason = r})
    /\ count["requests"] = MapThenSumSet(LAMBDA c : result[c].requests_served, Clients)

\* A client that sees its connection end finds it in the counters, except for
\* the moment between an exception's unwinding and its catch handler, and
\* between a refused push and the refusal's count.
EndIsCounted ==
  Cardinality(gone) <= count["completed"] + count["worker_errors"]
    + count["rejected"] + Cardinality(WorkersAt({"unwound"})) + One(pc = "refused")

\* serve_one never throws "worker pool is closed": a queue that refuses was
\* closed by a request_shutdown that set the flag before.
RefusalMeansShutdown == error # "worker pool is closed"

\* A worker ends only when the queue is closed and drained, and none outlives
\* the pool, also when the constructor fails half-way.
DrainedBeforeExit ==
  /\ \A w \in Workers : wpc[w] = "exited" => closed /\ queue = <<>>
  /\ pc \in {"returned", "report", "destroy", "destroyed", "exited"} =>
       \A w \in Workers : wpc[w] \in {"unborn", "exited"} /\ ~handler[w]

\* At most one connection is accepted once a byte is in the shutdown pipe.
StopsAccepting == late <= 1

\* On a normal exit no signal handler writes to the pipe after it was
\* destroyed: the notification fd is reset first, and the workers, which may
\* be in a handler, are joined before.
NoStrayWriteOnNormalExit == stray => error # "none"

\* The server as its clients see it: those accepted and not popped, in the order
\* in which they will be, and the client of each worker until its result is known.
InLine == IF held[Acceptor] = NoClient THEN queue ELSE Append(queue, held[Acceptor])

ClientOf == [w \in Workers |-> IF wpc[w] \in {"popped", "serving"} THEN held[w] ELSE NoClient]

Over == pc \in {"destroyed", "exited"}

Outside == INSTANCE Service WITH
  waiting <- InLine, serving <- ClientOf, stopping <- closed, ended <- Over

\* Accepting, queueing, serving and shutting down, with all their threads, keep the
\* promises of Service: first come first served, at most one connection refused and
\* none accepted after it, no end while somebody waits or is served, and nobody
\* waits for ever.
ImplementsService == Outside!Spec

\* Every connection that was accepted is served or fails in service.
AcceptedIsServed == \A c \in Clients : fate[c] # "refused"

\* A signal or a request to shut down ends the process.
ShutdownCompletes == (pipe \/ shutdown_requested) ~> pc = "exited"

\* Every accepted connection is closed in the end.
AcceptedIsClosed == \A c \in Clients : (c \notin fresh) ~> (c \in gone)

\* No signal handler ever writes to a destroyed pipe.
NoStrayWrite == ~stray
==============================================================================
