---------------------------- MODULE LegacyServer -----------------------------
(***************************************************************************)
(* The course server kept in legacy/myhttpd.cc: one accept loop per mode   *)
(* (iterative, a process per client, a thread per client, a pool of        *)
(* threads) around the same handleClient, with CGI scripts as processes.   *)
(*                                                                         *)
(* What the modes share or copy is what matters: descriptors (a forked     *)
(* process has its own of every connection its parent had open), the       *)
(* statistics (one copy per process, unsynchronised between threads), the  *)
(* variable clientAddr.  Every client sends at most one request, may stay  *)
(* silent, may stop reading and may leave.  What a handler and its client  *)
(* knew is forgotten when the connection is closed.  Of the responses only *)
(* what follows them is kept; for a file, also how much of it was          *)
(* announced and sent.                                                     *)
(***************************************************************************)
EXTENDS Integers, FiniteSets

CONSTANTS
  Clients,
  PoolSize,     \* the pool's threads
  Scenarios,    \* how the server is started, who connects and asks for what
  Times,        \* what clock() may measure for a request
  Sizes,        \* sizes of the one file served
  BufSize,      \* units copied at a time
  MaxChanges,   \* bound: changes of that file
  NoClient

Urls == {"/stats", "/logs", "/cgi-bin/", "file", "dir/", "dir", "missing"}

ASSUME LegacyAssumption ==
  /\ IsFiniteSet(Clients) /\ NoClient \notin Clients
  /\ BufSize \in Nat \ {0} /\ PoolSize \in Nat /\ Sizes \subseteq Nat /\ Times \subseteq Nat
  /\ Scenarios \subseteq
       [mode : {"i", "f", "t", "p", "x"}, limit : Nat \ {0}, file : Sizes,
        clients : SUBSET Clients,
        request : [Clients -> [auth : BOOLEAN, url : Urls, method : {"GET", "POST", "PUT"}]]]

\* Processes: the server, a child for a client, the script run for a client.
Main == <<"main">>
Child(c) == <<"child", c>>
Script(c) == <<"script", c>>

VARIABLES
  mode,         \* first letter of the option; "x" is any but the four known
  request,
  limit,        \* descriptors a process may have for clients and files
  \* processes
  main,         \* where the accept loop is; main[2] the client it forks for
  alive,        \* processes that run
  zombies,      \* children of the server that have exited, not yet waited for
  holders,      \* the processes with a descriptor of a client's connection
  \* handleClient, per client
  at, addr, clientAddr,
  found,        \* sb.st_size
  offset,       \* units of the file sent
  total_read,   \* totalRequests as read by totalRequests++
  improved,     \* serviceTime, and whether it is the extreme last compared with
  stats,        \* totalRequests and the extremes, per process
  \* the world
  sent, gone,   \* clients whose request waits to be read, that have left
  room,         \* "none": the client does not read and its buffers are full;
                \* "made": it has read since
  file, changes,
  \* what was done
  log,          \* the last line of log.txt: whose request, and the address written
  counted,      \* how many requests updated the statistics
  resized,      \* clients whose file changed between stat and the last read
  peak          \* most children that ran at once

loopVars == <<main, clientAddr>>
procVars == <<alive, zombies, holders, peak>>
fileVars == <<found, offset, file, changes, resized>>
statVars == <<stats, total_read, improved, counted>>
clientVars == <<sent, gone, room>>
constVars == <<mode, request, limit>>
vars == <<constVars, loopVars, procVars, fileVars, statVars, clientVars,
          at, addr, log>>

\* The process, and so the copy of the globals, that serves c.
Server(c) == IF mode = "f" THEN Child(c) ELSE Main

NoStats == [total |-> 0, min |-> -1, min_url |-> -1, max |-> -1, max_url |-> -1]
NotCounted == [time |-> -1, new |-> FALSE]

Init ==
  /\ \E s \in Scenarios :
       /\ mode = s.mode /\ limit = s.limit /\ file = s.file /\ request = s.request
       /\ at = [c \in Clients |-> IF c \in s.clients THEN "backlog" ELSE "done"]
  /\ main = <<"start", NoClient>>
  /\ alive = {Main} /\ zombies = {} /\ peak = 0
  /\ holders = [c \in Clients |-> {}]
  /\ addr = [c \in Clients |-> NoClient]
  /\ clientAddr = NoClient
  /\ found = [c \in Clients |-> -1] /\ offset = [c \in Clients |-> 0]
  /\ changes = 0 /\ resized = {}
  /\ room = [c \in Clients |-> "free"]
  /\ stats = [p \in {Main} \cup {Child(c) : c \in Clients} |-> NoStats]
  /\ total_read = [c \in Clients |-> 0] /\ improved = [c \in Clients |-> NotCounted]
  /\ counted = 0 /\ sent = {} /\ gone = {} /\ log = <<NoClient, NoClient>>

-----------------------------------------------------------------------------
\* Steps the loops and the handler share.

Step(c, from, to) == at[c] = from /\ at' = [at EXCEPT ![c] = to]

\* p exits or is killed: its descriptors close, its threads stop.
Exits(p, status) ==
  /\ alive' = alive \ {p}
  /\ holders' = [c \in Clients |-> holders[c] \ {p}]
  /\ zombies' = IF \E c \in Clients : p = Child(c) THEN zombies \cup {p} ELSE zombies
  /\ at' = [c \in Clients |-> IF Server(c) = p /\ at[c] # "backlog" THEN status ELSE at[c]]

-----------------------------------------------------------------------------
\* main: the socket is set up, then one of the accept loops.

Start ==
  /\ main[1] = "start"
  /\ IF mode \in {"i", "f", "t", "p"}
     THEN main' = <<"accept", NoClient>> /\ UNCHANGED <<procVars, at>>
     ELSE main' = <<"exited", NoClient>> /\ Exits(Main, "lost") /\ UNCHANGED peak
  /\ UNCHANGED <<constVars, clientAddr, fileVars, statVars, clientVars, addr, log>>

\* socket, setsockopt, bind or listen fails.
StartFails ==
  /\ main[1] = "start"
  /\ main' = <<"exited", NoClient>> /\ Exits(Main, "lost")
  /\ UNCHANGED <<constVars, clientAddr, peak, fileVars, statVars, clientVars, addr, log>>

Active == {c \in Clients : at[c] \notin {"backlog", "done", "lost"}}

\* A thread is in accept: not the only one while it serves a client, of the
\* pool one that serves nobody (acceptMutex is held for the accept alone).
InAccept ==
  /\ main[1] = "accept"
  /\ mode = "i" => Active = {}
  /\ mode = "p" => Cardinality(Active) < PoolSize

\* The descriptors of connections, and of the files being copied, in process p.
FdsUsed(p) ==
  Cardinality({c \in Clients : p \in holders[c]})
    + Cardinality({c \in Clients : Server(c) = p /\ at[c] = "copy_file"})

Acceptable(c) == InAccept /\ at[c] = "backlog" /\ FdsUsed(Main) < limit

\* accept returns the connection of c.
Accept(c) ==
  /\ Acceptable(c)
  /\ holders' = [holders EXCEPT ![c] = {Main}]
  /\ clientAddr' = c
  /\ UNCHANGED <<constVars, alive, zombies, peak, fileVars, statVars, clientVars, log>>

\* accept fails, for want of a descriptor or otherwise: perror, and the loop
\* calls it again.
AcceptFails ==
  /\ InAccept /\ \E c \in Clients : at[c] = "backlog"
  /\ UNCHANGED vars

AcceptIterative(c) ==
  /\ mode = "i"
  /\ Accept(c)
  /\ addr' = [addr EXCEPT ![c] = c] /\ Step(c, "backlog", "read")
  /\ UNCHANGED main

AcceptFork(c) ==
  /\ mode = "f"
  /\ Accept(c)
  /\ main' = <<"fork", c>> /\ Step(c, "backlog", "accepted")
  /\ UNCHANGED addr

\* Every descriptor of the parent is open in the child too.
Inherit(parent, child, held) ==
  [c \in Clients |-> IF parent \in held[c] THEN held[c] \cup {child} ELSE held[c]]

Children == {Child(c) : c \in Clients}

Fork(c) ==
  /\ main = <<"fork", c>> /\ main' = <<"parent", c>>
  /\ alive' = alive \cup {Child(c)}
  /\ holders' = Inherit(Main, Child(c), holders)
  /\ peak' = LET running == Cardinality(alive' \cap Children)
             IN IF running > peak THEN running ELSE peak
  /\ stats' = [stats EXCEPT ![Child(c)] = stats[Main]]
  /\ addr' = [addr EXCEPT ![c] = clientAddr] /\ Step(c, "accepted", "read")
  /\ UNCHANGED <<constVars, clientAddr, zombies, fileVars, total_read, improved,
                 counted, clientVars, log>>

ForkFails(c) ==
  /\ main = <<"fork", c>> /\ main' = <<"accept", NoClient>>
  /\ holders' = [holders EXCEPT ![c] = @ \ {Main}]
  /\ Step(c, "accepted", "done")
  /\ UNCHANGED <<constVars, clientAddr, alive, zombies, peak, fileVars, statVars,
                 clientVars, addr, log>>

\* Seeded fault: nobody waits for the children.
ReapNone == zombies' = zombies

\* waitpid(-1, NULL, WNOHANG) takes one of the children that have exited.
Reap ==
  IF zombies = {} THEN zombies' = {} ELSE \E z \in zombies : zombies' = zombies \ {z}

Parent(c) ==
  /\ main = <<"parent", c>> /\ main' = <<"accept", NoClient>>
  /\ holders' = [holders EXCEPT ![c] = @ \ {Main}]
  /\ Reap
  /\ UNCHANGED <<constVars, clientAddr, alive, peak, fileVars, statVars, clientVars,
                 at, addr, log>>

\* Seeded fault: the thread has a reference to clientAddr, not a copy.
ThreadStartsAtReference == "copy_addr"

\* A thread of mode 't' has its copy of the address, one of the pool still has
\* to take it out of the shared variable.
ThreadStartsAt == "read"

\* Seeded fault: the thread is joined, not detached.
AcceptThreadJoined(c) ==
  /\ mode = "t" /\ Active = {}
  /\ Accept(c)
  /\ addr' = [addr EXCEPT ![c] = c] /\ Step(c, "backlog", ThreadStartsAt)
  /\ UNCHANGED main

AcceptThread(c) ==
  /\ mode = "t"
  /\ Accept(c)
  /\ addr' = [addr EXCEPT ![c] = c] /\ Step(c, "backlog", ThreadStartsAt)
  /\ UNCHANGED main

\* std::thread throws and nobody catches it.
ThreadFails(c) ==
  /\ mode = "t" /\ Acceptable(c)
  /\ main' = <<"exited", NoClient>> /\ Exits(Main, "lost")
  /\ UNCHANGED <<constVars, clientAddr, peak, fileVars, statVars, clientVars, addr, log>>

AcceptPool(c) ==
  /\ mode = "p"
  /\ Accept(c)
  /\ Step(c, "backlog", "copy_addr")
  /\ UNCHANGED <<main, addr>>

\* The argument clientAddr of handleClient, after the unlock.
CopyAddr(c) ==
  /\ addr' = [addr EXCEPT ![c] = clientAddr] /\ Step(c, "copy_addr", "read")
  /\ UNCHANGED <<constVars, loopVars, procVars, fileVars, statVars, clientVars, log>>

Loop ==
  \/ Start
  \/ \E c \in Clients : AcceptIterative(c) \/ AcceptFork(c) \/ Fork(c) \/ Parent(c)
                          \/ AcceptThread(c) \/ AcceptPool(c)

-----------------------------------------------------------------------------
\* handleClient up to the branch taken.

\* One read; what arrives later is never looked at, so a request that comes in
\* pieces may lack its Authorization header.
Branch(c, whole) ==
  IF ~(whole /\ request[c].auth) THEN "401"
  ELSE IF request[c].method \notin {"GET", "POST"} THEN "501"
  ELSE IF request[c].url \in {"/stats", "/logs", "/cgi-bin/"} THEN request[c].url
  ELSE "stat"

ReadRequest(c) ==
  /\ c \in sent
  /\ \E whole \in BOOLEAN : Step(c, "read", Branch(c, whole))
  /\ sent' = sent \ {c}
  /\ log' \in {log, <<c, addr[c]>>}
  /\ UNCHANGED <<constVars, loopVars, procVars, fileVars, statVars, gone, room, addr>>

\* Seeded fault: a read that yields nothing is repeated.
ReadNothingAgain(c) ==
  /\ c \in gone /\ Step(c, "read", "read")
  /\ UNCHANGED <<constVars, loopVars, procVars, fileVars, statVars, clientVars, addr, log>>

\* End of file, or an error.
ReadNothing(c) ==
  /\ c \in gone
  /\ Step(c, "read", "close")
  /\ UNCHANGED <<constVars, loopVars, procVars, fileVars, statVars, clientVars, addr, log>>

\* write returns when the kernel has taken everything, for which it waits
\* without a deadline.  Only another write uses up the room a client makes.
Written(c) == room[c] # "none" /\ room' = [room EXCEPT ![c] = "free"]

\* The response at `from` is sent, and the handler goes on to `to`.  After the
\* last write nobody looks whether the client is there.
Respond(c, from, to) ==
  /\ Step(c, from, to) /\ Written(c)
  /\ gone' = IF to = "copy_file" THEN gone ELSE gone \ {c}
  /\ UNCHANGED <<constVars, loopVars, procVars, fileVars, statVars, sent, addr, log>>

Refuse(c) == Respond(c, "401", "close") \/ Respond(c, "501", "close")

handleStats(c) == Respond(c, "/stats", "close")

\* With the log or, if it cannot be opened, with 404.
handleLogs(c) == Respond(c, "/logs", "close")

-----------------------------------------------------------------------------
\* handleCGI.

ForkScript(c) ==
  /\ Step(c, "/cgi-bin/", "wait")
  /\ alive' = alive \cup {Script(c)}
  /\ holders' = Inherit(Server(c), Script(c), holders)
  /\ UNCHANGED <<constVars, loopVars, zombies, peak, fileVars, statVars, clientVars,
                 addr, log>>

ForkScriptFails(c) ==
  /\ Step(c, "/cgi-bin/", "close")
  /\ UNCHANGED <<constVars, loopVars, procVars, fileVars, statVars, clientVars, addr, log>>

\* The script exits, whether or not the pipe and execv succeeded.  What it
\* prints goes to the client, and it too waits until the client reads.
ScriptEnds(c) ==
  /\ Script(c) \in alive /\ Written(c)
  /\ Exits(Script(c), "done")
  /\ UNCHANGED <<constVars, loopVars, peak, fileVars, statVars, sent, gone, addr, log>>

\* Seeded fault: the script is not waited for.
WaitedForNothing(c) == TRUE

\* waitpid(pid, NULL, 0) returns.
WaitedFor(c) == Script(c) \notin alive

WaitScript(c) ==
  /\ WaitedFor(c)
  /\ Step(c, "wait", "close")
  /\ UNCHANGED <<constVars, loopVars, procVars, fileVars, statVars, clientVars, addr, log>>

-----------------------------------------------------------------------------
\* Files and directories.

Stat(c) ==
  /\ LET url == request[c].url
     IN /\ Step(c, "stat", IF url = "dir" THEN "301"
                           ELSE IF url = "dir/" THEN "listing"
                           ELSE IF url = "file" THEN "open" ELSE "404")
        /\ found' = IF url = "file" THEN [found EXCEPT ![c] = file] ELSE found
  /\ UNCHANGED <<constVars, loopVars, procVars, offset, file, changes, resized, statVars,
                 clientVars, addr, log>>

Redirect(c) == Respond(c, "301", "close")

NotFound(c) == Respond(c, "404", "count")

\* A directory that cannot be opened is answered but not counted.
OpendirFails(c) == Respond(c, "listing", "close")

\* The listing goes out with its own length.
ListDirectory(c) == Respond(c, "listing", "count")

\* The header announces the size that stat found.
OpenFile(c) == Respond(c, "open", "copy_file") /\ FdsUsed(Server(c)) < limit

OpenFails(c) ==
  /\ Step(c, "open", "close")
  /\ UNCHANGED <<constVars, loopVars, procVars, fileVars, statVars, clientVars, addr, log>>

\* Seeded fault: a last piece shorter than the buffer is dropped.
PieceWhole(c) == IF file - offset[c] >= BufSize THEN BufSize ELSE 0

\* What the next read of the file yields.
Piece(c) ==
  IF file - offset[c] >= BufSize THEN BufSize
  ELSE IF file > offset[c] THEN file - offset[c] ELSE 0

\* One read and the sendAll of what it yields.
CopyFile(c) ==
  /\ Piece(c) > 0 /\ Step(c, "copy_file", "copy_file") /\ Written(c)
  /\ offset' = [offset EXCEPT ![c] = @ + Piece(c)]
  /\ UNCHANGED <<constVars, loopVars, procVars, found, file, changes, resized, statVars,
                 sent, gone, addr, log>>

CopyStops(c) ==
  /\ Step(c, "copy_file", "count") /\ Written(c)
  /\ found' = [found EXCEPT ![c] = -1] /\ offset' = [offset EXCEPT ![c] = 0]
  /\ gone' = gone \ {c} /\ resized' = resized \ {c}
  /\ UNCHANGED <<constVars, loopVars, procVars, file, changes, statVars, sent, addr, log>>

\* The end of the file, or sendAll fails because the client has left.
CopyEnds(c) == (Piece(c) = 0 \/ c \in gone) /\ CopyStops(c)

\* read fails, which ends the loop as the end of the file does.
CopyFails(c) == Piece(c) > 0 /\ CopyStops(c)

-----------------------------------------------------------------------------
\* The statistics, unprotected: totalRequests++ is a load and a store, an
\* extreme is compared, assigned, and its URL assigned.

CountLoad(c) ==
  /\ Step(c, "count", "store")
  /\ total_read' = [total_read EXCEPT ![c] = stats[Server(c)].total]
  /\ UNCHANGED <<constVars, loopVars, procVars, fileVars, stats, improved, counted,
                 clientVars, addr, log>>

CountStore(c) ==
  /\ Step(c, "store", "test_min")
  /\ stats' = [stats EXCEPT ![Server(c)].total = total_read[c] + 1]
  /\ \E t \in Times : improved' = [improved EXCEPT ![c].time = t]
  /\ total_read' = [total_read EXCEPT ![c] = 0]
  /\ counted' = counted + 1
  /\ UNCHANGED <<constVars, loopVars, procVars, fileVars, clientVars, addr, log>>

TestExtreme(c, from, new, to) ==
  /\ Step(c, from, to)
  /\ improved' = [improved EXCEPT ![c].new = new]
  /\ UNCHANGED <<constVars, loopVars, procVars, fileVars, stats, total_read, counted,
                 clientVars, addr, log>>

\* URLs are told apart by the time of their requests.
SetExtreme(c, field, to) ==
  /\ Step(c, field, to)
  /\ stats' = IF improved[c].new THEN [stats EXCEPT ![Server(c)][field] = improved[c].time]
                                 ELSE stats
  /\ improved' = IF to = "close" THEN [improved EXCEPT ![c] = NotCounted] ELSE improved
  /\ UNCHANGED <<constVars, loopVars, procVars, fileVars, total_read, counted,
                 clientVars, addr, log>>

\* Seeded fault: a first minimum needs a time below the initial -1.
IsMinStrict(t, min) == t < min

IsMin(t, min) == min < 0 \/ t < min

CountExtremes(c) ==
  LET s == stats[Server(c)]
      t == improved[c].time
  IN \/ TestExtreme(c, "test_min", IsMin(t, s.min), "min")
     \/ SetExtreme(c, "min", "min_url") \/ SetExtreme(c, "min_url", "test_max")
     \/ TestExtreme(c, "test_max", t > s.max, "max")
     \/ SetExtreme(c, "max", "max_url") \/ SetExtreme(c, "max_url", "close")

-----------------------------------------------------------------------------
\* The end of a request: close(clientFd), and exit(0) in a child.

Close(c) ==
  /\ at[c] = "close"
  /\ IF mode = "f"
     THEN /\ Exits(Child(c), "done")
          /\ stats' = [stats EXCEPT ![Child(c)] = NoStats]
     ELSE /\ Step(c, "close", "done")
          /\ holders' = [holders EXCEPT ![c] = @ \ {Main}]
          /\ UNCHANGED <<alive, zombies, stats>>
  /\ addr' = [addr EXCEPT ![c] = NoClient]
  /\ gone' = gone \ {c} /\ sent' = sent \ {c} /\ resized' = resized \ {c}
  /\ found' = [found EXCEPT ![c] = -1]
  /\ UNCHANGED <<constVars, main, clientAddr, peak, offset, file, changes,
                 total_read, improved, counted, room, log>>

\* Where a handler writes to the connection.
Sending == {"401", "501", "301", "404", "/stats", "/logs", "listing", "open", "copy_file"}

\* SIGPIPE: writing to a client that has left kills the process.
BrokenPipe(c) ==
  /\ c \in gone
  /\ at[c] \in Sending
  /\ Exits(Server(c), "lost")
  /\ main' = IF Server(c) = Main THEN <<"exited", NoClient>> ELSE main
  /\ UNCHANGED <<constVars, clientAddr, peak, fileVars, statVars, clientVars, addr, log>>

handleClient(c) ==
  \/ CopyAddr(c) \/ ReadRequest(c) \/ ReadNothing(c) \/ Refuse(c)
  \/ handleStats(c) \/ handleLogs(c)
  \/ ForkScript(c) \/ ForkScriptFails(c) \/ WaitScript(c)
  \/ Stat(c) \/ Redirect(c) \/ NotFound(c) \/ OpendirFails(c) \/ ListDirectory(c)
  \/ OpenFile(c) \/ OpenFails(c) \/ CopyFile(c) \/ CopyEnds(c) \/ CopyFails(c)
  \/ CountLoad(c) \/ CountStore(c) \/ CountExtremes(c) \/ Close(c) \/ BrokenPipe(c)

-----------------------------------------------------------------------------
\* Clients, and whoever edits the file.

\* Requests sent before the server reads are those sent while it does.
SendRequest(c) ==
  /\ at[c] = "read" /\ sent' = sent \cup {c} /\ c \notin sent \cup gone
  /\ UNCHANGED <<constVars, loopVars, procVars, fileVars, statVars, gone, room, at, addr,
                 log>>

\* Only a read or a write notices that a client has left.
Leave(c) ==
  /\ at[c] \in Sending \cup {"read"} /\ c \notin gone
  /\ gone' = gone \cup {c} /\ room' = [room EXCEPT ![c] = "free"]
  /\ UNCHANGED <<constVars, loopVars, procVars, fileVars, statVars, sent, at, addr, log>>

\* The client does not read, and what the handler or the script is writing does
\* not fit into the buffers of the connection.
Stall(c) ==
  /\ \/ at[c] \in Sending /\ (at[c] = "copy_file" => Piece(c) > 0)
     \/ Script(c) \in alive
  /\ c \notin gone /\ room[c] = "free" /\ room' = [room EXCEPT ![c] = "none"]
  /\ UNCHANGED <<constVars, loopVars, procVars, fileVars, statVars, sent, gone, at, addr,
                 log>>

\* It reads after all.
Resume(c) ==
  /\ room[c] = "none" /\ room' = [room EXCEPT ![c] = "made"]
  /\ UNCHANGED <<constVars, loopVars, procVars, fileVars, statVars, sent, gone, at, addr,
                 log>>

\* Only between stat and the last read does a change of size matter.
Resize ==
  LET reading == {c \in Clients : at[c] \in {"open", "copy_file"}}
  IN /\ reading # {} /\ changes < MaxChanges
     /\ file' \in Sizes \ {file}
     /\ changes' = changes + 1 /\ resized' = resized \cup reading
     /\ UNCHANGED <<constVars, loopVars, procVars, found, offset, statVars, clientVars,
                    at, addr, log>>

\* Nothing is left to do but to wait for clients.
Quiescent ==
  /\ \A c \in Clients : at[c] \in (IF main[1] = "exited" THEN {"done", "lost", "backlog"}
                                                         ELSE {"done", "lost"})
  /\ alive \subseteq {Main}
  /\ UNCHANGED vars

Next ==
  \/ Loop \/ StartFails \/ AcceptFails
  \/ \E c \in Clients :
       ForkFails(c) \/ ThreadFails(c) \/ handleClient(c) \/ ScriptEnds(c)
         \/ SendRequest(c) \/ Leave(c) \/ Stall(c) \/ Resume(c)
  \/ Resize
  \/ Quiescent

\* The loop and the handlers run whenever they can, and accept does not fail for
\* ever when there is a descriptor.  A script whose client reads ends some time.
\* Clients owe nobody anything.
Fairness ==
  /\ WF_vars(Loop)
  /\ \A c \in Clients : WF_vars(handleClient(c)) /\ WF_vars(ScriptEnds(c))

SafeSpec == Init /\ [][Next]_vars
Spec == SafeSpec /\ Fairness

-----------------------------------------------------------------------------
\* Properties.

Labels ==
  {"backlog", "accepted", "copy_addr", "read", "401", "501", "301", "404", "stat", "listing",
   "open", "copy_file", "/stats", "/logs", "/cgi-bin/", "wait", "count", "store", "test_min",
   "min", "min_url", "test_max", "max", "max_url", "close", "done", "lost"}

Scripts == {Script(c) : c \in Clients}
Processes == {Main} \cup Children \cup Scripts

\* Types of the state of main and handleClient; a descriptor belongs to a
\* process that runs, and a child waits to be reaped only when it has exited.
TypeOK ==
  /\ main \in {"start", "accept", "fork", "parent", "exited"} \X (Clients \cup {NoClient})
  /\ alive \subseteq Processes /\ zombies \subseteq Children \ alive
  /\ holders \in [Clients -> SUBSET alive]
  /\ at \in [Clients -> Labels] /\ addr \in [Clients -> Clients \cup {NoClient}]
  /\ clientAddr \in Clients \cup {NoClient}
  /\ found \in [Clients -> Int] /\ offset \in [Clients -> Nat]
  /\ file \in Sizes /\ resized \subseteq Clients /\ peak \in Nat

\* A line of log.txt names the client whose request it records.  The pool is
\* left out: its threads read the one clientAddr after unlocking acceptMutex,
\* when the next accept may have overwritten it.
LogTruthful == mode # "p" => log[1] = log[2]

\* When handleClient has returned and its caller has closed the descriptor, no
\* process has the connection open and the client sees its end, except: the
\* parent of a forked child that was quicker than the parent's own close, and
\* scripts started by other threads while the connection was open.
EofAfterClose ==
  \A c \in Clients : at[c] = "done" =>
    holders[c] \subseteq
      IF mode = "f" THEN IF main = <<"parent", c>> THEN {Main} ELSE {}
      ELSE IF mode \in {"t", "p"} THEN Scripts \ {Script(c)}
      ELSE {}

\* The children of mode 'f' that run or wait to be reaped are never more than
\* one above the most that ever ran at once: one waitpid per accept keeps up.
ChildrenBounded == Cardinality((alive \cap Children) \cup zombies) <= peak + 1

\* totalRequests never exceeds the requests that were counted, whatever threads
\* lose of each other's increments.  With one thread it is exact, and the URL
\* shown beside an extreme is that of the request that set it; in mode 'f' the
\* server that answers /stats counts nothing and no child more than its own.
StatsHonest ==
  /\ \A p \in DOMAIN stats : stats[p].total <= counted
  /\ mode = "i" /\ Active = {} =>
       /\ stats[Main].total = counted
       /\ stats[Main].min = stats[Main].min_url /\ stats[Main].max = stats[Main].max_url
       /\ stats[Main].min <= stats[Main].max /\ (counted > 0 => stats[Main].min >= 0)
  /\ mode = "f" => /\ stats[Main].total = 0
                   /\ \A c \in Clients : stats[Child(c)].total <= 1

\* When the copy loop meets the end of the file it has sent the number of bytes
\* that Content-Length announced, unless the file changed since stat.
FramingUnlessResized ==
  \A c \in Clients \ resized :
    at[c] = "copy_file" /\ Piece(c) = 0 => offset[c] = found[c]

\* The server, or a script, waits for c: it does not send or does not read, and
\* neither read nor write has a deadline.
Awaited(c) ==
  \/ at[c] = "read" /\ c \notin sent \cup gone
  \/ room[c] = "none" /\ (c \in Active \/ Script(c) \in alive)

Busy == {c \in Active : ~Awaited(c)}

\* Every handler comes to its end, or else waits for its own client: all returns
\* from handleClient lead to close, and no other client can delay one for ever.
\* Then all connections end, copies of descriptors included, or else the server
\* waits for somebody: a script may have inherited the connections of other
\* clients, and keeps them open until its own client has read.
ConnectionEnds ==
  /\ Busy # {} ~> Busy = {}
  /\ (\E c \in Clients : holders[c] # {})
       ~> ((\A c \in Clients : holders[c] = {}) \/ \E c \in Clients : Awaited(c))

\* Clients the server waits for have all its threads or, where one process serves
\* several, all its descriptors.
Saturated ==
  LET waited == {c \in Active : Awaited(c)}
      copying == {c \in waited : at[c] = "copy_file"}
  IN \/ mode = "i" /\ waited # {}
     \/ mode = "p" /\ Cardinality(waited) >= PoolSize
     \/ mode \in {"t", "p"} /\ Cardinality(waited) + Cardinality(copying) >= limit

\* Nobody stays in the backlog of a server that has started, unless clients it
\* waits for saturate it, or one that left while it was written to has ended the
\* process by SIGPIPE, or std::thread has thrown.  In mode 'f' there is no
\* exception: no client ends the server, stops it or uses up its descriptors.
BacklogAccepted ==
  (main[1] = "accept" /\ \E c \in Clients : at[c] = "backlog")
    ~> \/ \A c \in Clients : at[c] # "backlog"
       \/ Saturated
       \/ /\ mode # "f" /\ main[1] = "exited"
          /\ mode = "t" \/ \E c \in gone : at[c] = "lost"

=============================================================================
