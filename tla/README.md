# TLA+ models of the HTTP server

Models, model-checking runs and machine-checked proofs for the concurrent HTTP
server (its dispatch queue, life cycle, connections, parser and static files)
and for the course server kept under `legacy/`.
`PROJECT.json` lists the components, the runs, the source lines behind every
definition, the hazards the properties are aimed at, and the theorems.

## The system and its parts

    main, signal handler --> HttpServer (acceptor) --> BoundedQueue<Fd> --> worker threads
                                                                               |
                                            Connection --> HttpParser --> router, static files
                                                 |
                                            response serializer --> socket

    legacy/myhttpd.cc: one of four accept loops --> handleClient --> file, directory, /stats,
                                                                     /logs or a CGI process

| Part | Source | Module | Modelled |
| --- | --- | --- | --- |
| Bounded queue | `include/http/bounded_queue.hpp` | `FifoQueue`, `BoundedQueue` | yes |
| Worker pool | `src/worker_pool.cpp` | `Service`, `HttpServer` | yes |
| Acceptor, shutdown | `src/server.cpp` | `Service`, `HttpServer` | yes |
| Program, signal handler | `src/main.cpp` | `HttpServer` | all but argument parsing |
| Listener | `src/tcp_listener.cpp` | `HttpServer` | `accept`; `bind_ipv4` runs before there is state |
| Connection | `src/connection.cpp` | `Connection` | yes |
| Parser | `src/parser.cpp` | `HttpParser` | yes, above the level of characters |
| Router, static files | `src/router.cpp`, `src/static_file_handler.cpp` | `StaticFile` | yes |
| Serializer | `src/response.cpp` | `StaticFile` | framing only |
| Course server | `legacy/myhttpd.cc` | `LegacyServer` | yes |
| `Fd`, metrics, course examples | `src/fd.cpp`, `src/metrics.cpp`, `legacy/` | | no: see "Not modelled" |

The `MC` modules give the constants their values for TLC, the `Proofs` modules
hold the theorems.

## Modules

### FifoQueue and BoundedQueue

`FifoQueue` is what the queue promises: `push` and `pop` take effect at one
instant between call and return, a closed queue refuses pushes and is drained.
`BoundedQueue` is the code: each stretch under `mutex_` is an action, waiting and
being notified are steps of their own, and `notify_one` and `notify_all` follow
the unlock as they do in the code. Condition variables (external) may wake
spuriously and wake any sleeper. Items are distinct, and each is pushed at most
once, because the server pushes descriptors it owns. `close` may be called by any
number of threads, any number of times.

`Abstract` in `BoundedQueue` maps the program counters to the call states of
`FifoQueue`. `HttpServer` is built on `FifoQueue`, so what it shows holds for
the monitor.

### Service and HttpServer

`Service` is what the server promises its clients, without threads, queue, pipe
or counters: connections wait in the order in which they were accepted, at most
one more than the queue holds; each is served once; a shutdown refuses at most
the connection accepted last, after which no other is accepted; the process ends
when nobody waits and nobody is being served.

`HttpServer` is the code: one process from the construction of the pool to its
exit. `pc` is the main
thread: it starts the workers, makes the pipe, installs the handler, runs
`serve_forever`, shuts the pool down, forgets the notification fd, reports and
destroys the server, with the exception paths of each. `wpc` is the position of
each worker in `worker_loop`; `rs` that of each caller in `request_shutdown`:
the acceptor itself (from `serve_forever` and `~HttpServer`) and the threads
`Requesters`, as in `tests/server_tests.cpp`. A signal runs the handler on the
main thread, or on a worker, where the read of the fd and the write are two
steps. A blocked `poll` then returns `EINTR`; `accept` is retried.

A step ends where another thread can see it: the descriptor leaves the acceptor
in `push`, is counted as dispatched after that, and is closed after its result
was recorded. `record_result` is one step although its additions are separate
atomic operations: the conservation of connections looks at the first of them
only, and the sums it adds to are read after the workers were joined. The count
of a refusal and the test of the flag that follows it are one step because the
flag is never cleared.
`fate`, `result`, `late` and `stray` are history.

`Outside` maps it to `Service`. Those who wait are the queue, followed by the
descriptor the acceptor has accepted and not pushed yet (`InLine`). A worker
serves its client from `pop` until `serve` returns or throws (`ClientOf`). A
shutdown has begun when the queue is closed, and the server is gone when it is
destroyed (`Over`).

### Connection

One connection and an arbitrary peer. A deadline is the number of ticks left, so
re-reading the clock is implicit. Socket timeouts are in microseconds of
`TicksPerUs` ticks, truncated as `duration_cast` does, and zero means no timeout,
as the kernel has it. That a kernel rounds a timeout up to its own clock is left
out; it would lengthen a wait by less than one of its ticks. A unit of input is part of a request or completes one; a
unit of output is numbered by response and position, so `wire` shows repetitions
and gaps. What the router answers is a response of any length up to
`MaxResponse` with status 200 standing for every routed answer. `waited` counts
blocked ticks and stops one past the bound it is compared with. An exception out
of `serve` is the action `ServeThrows` of `HttpServer`.

### HttpParser

`feed` and `next` driven as `Connection` drives them. The stream is made of CR,
LF, whole lines and body bytes; sizes and limits count these units. A line keeps
what the code tells apart: valid request lines by version, header lines by field
name and, for `Host`, `Content-Length` and `Transfer-Encoding`, by what the
value means to `next`. `Expected` states the verdict a request deserves on its
own, whatever surrounds it in the stream and however it is cut.

### StaticFile

One request through `route_request`, `StaticFileHandler::handle` and
`serialize_response`. Every call of the handler into `std::filesystem` or the
stream is a step, the first being `weakly_canonical` in `Route`, and between any
two the object at the path may be removed, replaced, rewritten in
place or made unreadable: the handler keeps a path, so what one call found out
may be stale at the next. Of `weakly_canonical`, which has no links to follow,
the model keeps that the slash at the end of a path is dropped if there is a
directory at that moment (`WeaklyCanonical`). A target is a sequence of character codes;
`extract_path`, `percent_decode` and `Resolve` work on it as the code does.
`Answer` says without steps what an undisturbed request deserves. The contents of
a file are units, read `ReadSize` at a time. A call may also fail for reasons of its own.
`seen`, `rewritten` and `failed` are history.

### LegacyServer

The four accept loops of `myhttpd.cc` (iterative, a process, a thread, a pool of
threads per client) around one `handleClient`. What the modes share or copy is
state: `holders` says which processes have a descriptor of a connection, `stats`
has one copy of the statistics per process and its increments are separate reads
and writes, `clientAddr` is the one variable the pool's threads read after
unlocking `acceptMutex`. `accept`, `fork`, `std::thread`, `opendir`, the read of a
file and the script's start may fail. A scenario says how many descriptors a
process may have for connections and open files (`limit`); with none left, `accept`
only fails and `open` fails too. Clients send at most one request, may stay silent,
may stop reading and may leave. `write` has no deadline, so a handler or a script
cannot go on while its client's buffers are full (`room` is `"none"`: `Stall`,
`Resume`). Room that a client has made lasts until the next write. Of a response
only what follows it is kept, and for a file how much was announced and sent.

## Runs

| Run | Bounds | Shows |
| --- | --- | --- |
| `queue` | 2 producers, 2 consumers, 1 closer, 4 items, capacity 2 | no lost wake-up, bound and high-water mark, single ownership; `close` releases sleepers; implements `FifoQueue`, fairness included |
| `server_safety` | 3 clients, 2 workers, 2 requesters, 1 signal, capacity 1 | every open descriptor owned once; counters balance at every instant and in the report; drained before exit; refusal only after the flag; at most one accept after the pipe is written; no stray write on a normal exit |
| `server_signals` | 5 clients, 2 workers, capacity 1, 1 signal, no requester | at most W + Q + 1 descriptors open; every accepted connection is served; an ended connection is counted |
| `server_liveness` | 3 clients, 1 worker, capacity 1, 1 requester, 1 signal | shutdown completes; every accepted connection is closed; implements `Service`, fairness included |
| `connection` | timeouts of 2 ticks, 2 ticks per microsecond, 3 requests, reads and responses of up to 2 units | order on the wire, one answer per request, true end reasons, nothing buffered waits, bounded blocking time, termination |
| `parser_framing` | 19 requests, two per client, limits 10 and 2, fragments of up to 8 units | exact framing for every cut, bounded buffer |
| `static_files` | GET, HEAD and POST; all targets of up to 3 of the characters `/ % . 2 f 0` after the slash and 6 longer ones; files of up to 5 units against a limit of 4, reads of 2, 2 changes | exact framing, bounded body, one version of a file, answers true of some moment, the exact answer when nothing interferes, escapes invisible |
| `legacy_server` | 3 clients, pool of 2, 2 descriptors for 3 threads, files of 1 or 3 units, 1 change of size, five start options | who holds which descriptor, which children are reaped, what log and statistics may say, framing, which connections end, who may stay in the backlog |

The bounds are the smallest at which the interesting cases occur. Two sleepers on
each side can be awake or asleep while the others race them, and two slots let
one notification be outstanding while another item is already there; larger
numbers of threads are covered by the proofs. Five clients are more than two
workers, one slot and the acceptor can hold. Three clients let the signal of
`server_liveness` arrive while the acceptor is blocked in `push`, with one client
served and one queued: the byte in the pipe is then seen only after a worker has
made room. Three requests with a limit of three
give a first, a middle and a last one. Two ticks per microsecond make the
truncation of a remaining tick to zero happen. A file of more than the limit, of
exactly the limit, and of less than one read all occur, and two changes are
enough to remove and to bring back. In the course server three clients let a child be forked while another
runs and a third is to be reaped, and are one too many for the pool and for the
descriptors of the crowded scenario. Symmetry is used only in `server_safety` and
`server_signals`, where no temporal property is checked. Deadlock is checked everywhere: a terminated
process, a closed connection, a finished client and an idle server stutter
explicitly. The runs have between 17 thousand and 1.1 million distinct states.

Four runs are expected to fail. Each states what the repository says and shows
where the code differs:

* `server_dropped`: a connection counted as accepted is closed unserved when
  `request_shutdown` runs on another thread between `accept` and `push`. The
  shutdown test waits for the accepted count and expects the answer. (With
  signals only this cannot happen: `server_signals` and `SignalsRefuseNobody`.)
* `server_stray`: when `serve_forever` throws, the notification fd is not reset
  and a signal that arrives after the server was destroyed writes to a closed
  descriptor.
* `parser_limit`: a header block within three bytes of the limit is refused if a
  read ends inside its terminator, and accepted otherwise. `FramingExact` of
  `HttpParser` allows exactly this.
* `static_head`: for a file that cannot be read, `HEAD` announces the length of
  the file, `GET` that of the error text.

## Fairness

* Queue: a thread inside `push`, `pop` or `close` that is not asleep goes on.
  Nobody must call, and no wake-up must be spurious.
* Server: the main thread, each worker and a `request_shutdown` that has begun go
  on; of the workers in `pop` some one, not a particular one, gets a queued
  connection, which is what `FifoQueue` promises. That a worker's connection ends
  rests on `Terminates`, checked in `connection`. Clients, signals, requesters and
  failures owe nothing.
* Connection: the worker runs and time passes. The peer owes nothing.
* Course server: the accept loop and the handlers run when they can, `accept` does
  not fail for ever when there is a descriptor, and a script whose client reads
  ends some time. Clients owe nothing: neither to send, nor to read, nor to leave.
  `read` and `write` are not fair towards them, so `ConnectionEnds` says that a
  handler ends or waits for its own client, never for another. `BacklogAccepted`
  says when somebody may stay in the backlog: clients the server waits for have all
  its threads (modes `i` and `p`) or all its descriptors (`t` and `p`), or the
  process was ended by `SIGPIPE` or by `std::thread`; in mode `f`, never.
* Parser and static files are checked for safety only.

All fairness is weak: the operating system schedules runnable threads.

## Proofs

Each theorem holds for every value of the constants that satisfies the named
assumption of its model. Each rests on an inductive invariant, proved with one
step per action.

`BoundedQueueProofs`, for any finite sets of producers and consumers, any set of
closers, any items and any positive capacity:

* `TypeCorrect`. `TypeOK` is inductive; no run checks it. It includes who owns an item at which
  point of `push` and `pop`; without that, nothing says that what `push` appends
  is an item.
* `OccupancyCorrect`, `OwnershipCorrect`: inductive relative to `TypeOK`.
* `ItemWakeupCorrect`, `SlotWakeupCorrect`. The invariants count: while a
  consumer sleeps, the items in an open queue are covered by producers that
  still have to notify and consumers that are awake. `push` adds an item and a
  notifier; a notification turns a sleeper into an awake consumer; an awake
  consumer leaves only by taking an item or by finding none. After `close` the
  first closer still has its `notify_all` to do. `CountedThreads` supplies the
  arithmetic of the counts.
* `RefinementCorrect`: each step is a step of `FifoQueue` or invisible. A woken
  sleeper is still in its call (`WakeUpInvisible`), and a notification is the
  return of the notifier's call (`NotifyReturns`).

The assumptions are a positive capacity (the constructor throws otherwise),
disjoint kinds of threads, finitely many producers and consumers, and a `NoItem`
that is not an item.

`HttpServerProofs` (shutdown, descriptors, the promise to clients) and `HttpServerCountProofs` (counters), for any finite sets of clients and workers, any
callers of `request_shutdown`, any positive capacity and any number of signals:

* `RefusalCorrect` from `FlagBeforeClose`: whoever closes the queue has set the
  flag, except a constructor that failed and never serves.
* `DrainedCorrect` from `Drained`: a handler runs only on a running worker, and an
  ended worker found the queue closed and empty, which it then stays.
* `NormalExitCorrect` from `Notified`: the fd names an existing pipe until the
  server is destroyed, and a destructor reached without an exception finds it
  reset; joined workers are in no handler.
* `StopsAcceptingCorrect` from `LateAccepts`: `accept` is reached only from a
  `poll` that found the pipe empty.
* `SignalsRefuseNobody`, which assumes that there is no requester: then only the
  acceptor closes the queue, after it has left its loop.
* `DescriptorsOwned` and `DescriptorsBounded` from `Ownership`: besides the
  equation itself, that no descriptor has two owners. Without that, closing one
  could leave it owned elsewhere. The bound follows by counting the owners.
* `ServiceCorrect`: each step of the server is a step of `Service` or invisible to
  its clients, which is the safety part of `ImplementsService`. `accept` puts a
  client at the end of the line, and the `push` that follows changes nothing
  (`PushUnseen`); a refused push takes the last in line away (`RefuseSeen`); a
  `pop` is the beginning of service (`TakeSeen`). Two invariants are needed besides
  those above. `Custody` says who holds a descriptor at which point of its loop.
  `LastRefusal` says that once a connection was refused the acceptor is past its
  last `accept`: it found the queue closed, so the flag was set
  (`FlagBeforeClose`), and the loop tests the flag before it polls again.
* `CountersCorrect` and `EndCounted` from `Balanced`: the counters, the queue, the
  acceptor's position and the numbers of workers at each place balance. Each step
  is reduced to the differences it makes, and `MoveCount` gives those of a worker.
* `ReportCorrect`, in three layers. `Custody`, as above. `Ledger`: a connection has met its fate only when it is
  closed or its worker has recorded it, and only a served one has a result, so no
  connection meets its fate twice. `Totals`: each counter is the number of
  connections with that fate or reason, and the requests are the sum over their
  results (`SumGrows`: giving one connection its result adds its requests to the sum).

`ConnectionProofs`, for any positive timeouts, clock resolution, request limit and
sizes:

* `PipelinedNeverWaits` (`IdleAfterAnswer`), `OneAnswerEach` and `TrueReason`
  (`Answered`: before the last answer only requests answered with keep-alive; an
  answer that is pending closes the connection exactly if it says so).
* `InOrder` (`Delivering`): the next unit expected on the wire is the next one of
  the pending response.
* `WorkerFreed` (`WithinBudget`): the time waited and the budget that is left never
  exceed the bound. The budget is what remains of the current deadline, the
  deadlines still to come for this request, and a full cycle for each request the
  limit still allows; an armed timer exceeds its deadline by less than a
  microsecond, which is the truncation.

`HttpParserProofs`, for any limits, any read size and any number of requests. The
assumption `DeclaredBodies` says that a client sends as many body bytes as its
headers declare; without it the parser takes body for header, as it should.

* `BufferCorrect` from `Buffered`: a buffer that was found incomplete exceeds the
  limits by less than a blank line, and one read is added to that.
* `FramingCorrect` from `Framing`: until a request is refused, buffer and stream
  together are the rest of what the client sent, from the end of the last request
  that came out (`Pending`), and the verdicts are those expected. When more data
  is awaited the next request is incomplete; this is what makes `next()` hold back
  nothing. The crux is `NextOn`: what `next()` says of a buffer that begins with a
  rendered request, complete or not. It rests on where `\r\n\r\n` can occur
  (`BlankLine`): lines and their terminators come in threes, so the first blank
  line is the one that ends the headers, and the block before it is the one that
  was rendered (`BlockOf`).

`StaticFileProofs`, for any targets, objects, limit, read size and number of
changes:

* `FramingCorrect`, `BodyCorrect`, `OneVersion`, `Truthful` and `QuietExact`. The
  invariant (`Reading`) says that what was read so far stands at its place in an
  object seen, and is a prefix of the open file unless that was rewritten in place.
* `EscapingCorrect`. `RoundTrip`: decoding an encoded text without percent signs
  gives the text. It is shown from the end of the text, one character or escape at a
  time: `EscapeRuns` says what encoding puts in front of the rest, `PieceFacts`
  that `percent_decode` takes exactly that off again. NUL is left out, because its
  escape is the one `percent_decode` refuses while a raw NUL passes; the targets
  are assumed to be sequences of bytes.

`LegacyServerProofs`, for any finite set of clients and any scenarios:
`ChildrenReaped` (a count of children and zombies that each `waitpid` keeps level
with the most that ran), `LogsRightClient`, `ClosedMeansEof` (`Descriptors`: what
a fork copies is what the forking process held) and `FramingHolds` (`Copying`).

`LegacyStatsProofs`, under the same assumptions: `StatsCorrect` from `Statistics`.
What a thread has read of `totalRequests` never exceeds what was counted, so a
lost increment can only lower it; a child starts from the server's empty
statistics and counts once; and in mode `i` the one request that is between its
count and its last comparison is followed through each assignment (`Compared`).

The recursive functions (in `EndOf`, `Concat`, `percent_decode`, `Escaped`) are reasoned about without an induction rule over operators: a fact that
fails for some number fails at a least one (`LeastFailure`), whose predecessors
have it. The same argument gives their existence.

Only model-checked:

* liveness: `CloseReleasesSleepers`, the fairness parts of `ImplementsFifoQueue`
  and `ImplementsService`, `ShutdownCompletes`, `AcceptedIsClosed`, `Terminates`, `ConnectionEnds`,
  `BacklogAccepted`. They need fairness and `ENABLED`, which the proof
  system does not support;
* the four runs that are expected to fail.

Every safety invariant that a run checks has a theorem.

## Not modelled

* `Fd`: moves within one thread. `HttpServer` moves descriptors from owner to
  owner as the code does, and `EveryDescriptorOwned` says none is lost or shared.
* `metrics.cpp`, the log lines and the argument parsing of `main.cpp`: pure
  formatting and parsing. What the metrics print is the subject of `ReportExact`.
* `bind_ipv4`: runs before any thread exists.
* The sample CGI programs, the daytime server and the `dlopen` example under
  `legacy/`: sequential programs that handle one request. The course server knows
  of a script only that it starts, may fail and ends.
* Characters in the parser: token syntax and white space. Status lines and
  header formatting in the serializer, and content types.
* Symbolic links. A normal path is canonical but for a slash at its end.
* The order and HTML of directory listings, and what a script prints.
* `poll` reporting neither input nor failure; kernels that drop aborted
  connections from the backlog.
* Counter and size overflow (64-bit counters).
* Snapshots of `stats()` while workers run; `bytes_read` and `bytes_written`.
* Destruction of the server while another thread is in `request_shutdown`: the
  owner must not do that, and `Destroy` waits.
* Signals before the handler is installed: they end the process.
