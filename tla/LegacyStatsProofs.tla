------------------------- MODULE LegacyStatsProofs --------------------------
(***************************************************************************)
(* What the statistics page of the course server may show (StatsHonest),   *)
(* for any number of clients, in each of its modes: an invariant about the *)
(* counter, its copies and the shortest and longest service times, one     *)
(* assignment at a time.                                                   *)
(***************************************************************************)
EXTENDS LegacyServerProofs

\* The statistics.

\* A handler that has not stored its count yet, and one that has and is now at
\* the extremes.
Uncounted ==
  {"backlog", "accepted", "copy_addr", "read", "401", "501", "301", "404", "stat", "listing",
   "open", "copy_file", "/stats", "/logs", "/cgi-bin/", "wait", "count", "store"}
Comparing == {"test_min", "min", "min_url", "test_max", "max", "max_url"}

StatRecord == [total : Nat, min : Int, min_url : Int, max : Int, max_url : Int]

StatTypes ==
  /\ counted \in Nat /\ total_read \in [Clients -> Nat]
  /\ improved \in [Clients -> [time : Int, new : BOOLEAN]]
  /\ stats \in [{Main} \cup Children -> StatRecord]

\* Whatever the threads lose of each other's increments, nobody has read or
\* stored more than was counted.
NoneTooMany ==
  /\ \A p \in {Main} \cup Children : stats[p].total <= counted
  /\ \A c \in Clients : total_read[c] <= counted

\* In mode 'f' a child starts from the server's empty statistics.
OnePerChild ==
  mode = "f" =>
    /\ stats[Main].total = 0
    /\ \A c \in Clients : /\ stats[Child(c)].total <= 1
                          /\ at[c] \in Uncounted => stats[Child(c)].total = 0
                          /\ at[c] = "store" => total_read[c] = 0

\* No request is between its count and its last extreme.
Settled(s) ==
  /\ s.min = s.min_url /\ s.max = s.max_url /\ s.min <= s.max
  /\ counted > 0 => s.min >= 0

\* The one request of mode 'i' that is: what the extremes are when its time t
\* has been compared with, assigned to, and named beside each of them.
Compared(label, s, t, new) ==
  /\ counted > 0 /\ t >= 0
  /\ label \in {"test_min", "min"} => s.min = s.min_url /\ s.min <= s.max
  /\ label = "min" => (new <=> s.min < 0 \/ t < s.min)
  /\ label \notin {"test_min", "min"} => 0 <= s.min /\ s.min <= t
  /\ label = "min_url" /\ new => s.min = t
  /\ label = "min_url" /\ ~new => s.min = s.min_url
  /\ label \in {"test_max", "max", "max_url"} => s.min = s.min_url
  /\ label # "max_url" => s.max = s.max_url
  /\ label = "max" => (new <=> t > s.max)
  /\ label = "max_url" => t <= s.max
  /\ label = "max_url" /\ new => s.max = t
  /\ label = "max_url" /\ ~new => s.max = s.max_url

OneAtATime ==
  mode = "i" =>
    /\ stats[Main].total = counted
    /\ \A c \in Clients :
         /\ at[c] = "store" => total_read[c] = counted
         /\ at[c] \in Comparing =>
              Compared(at[c], stats[Main], improved[c].time, improved[c].new)
    /\ (\A c \in Clients : at[c] \notin Comparing) => Settled(stats[Main])

\* Nobody is served before the server has started.
NotBefore == main[1] = "start" => \A c \in Clients : at[c] \in Ended

Statistics == StatTypes /\ NoneTooMany /\ OnePerChild /\ OneAtATime /\ NotBefore

\* What any other step than a fork, a close or a count does: it leaves the
\* statistics alone and takes no handler into, or in mode 'i' out of, a count.
Quiet ==
  /\ UNCHANGED <<mode, statVars>>
  /\ main'[1] = "start" =>
       main[1] = "start" /\ \A c \in Clients : at[c] \in Ended => at'[c] \in Ended
  /\ \A c \in Clients : at'[c] # at[c] =>
       /\ at'[c] \notin Comparing \cup {"store"}
       /\ at'[c] \in Uncounted => at[c] \in Uncounted
       /\ mode = "i" => at[c] \notin Comparing \cup {"store"}

\* A step of one handler away from the counts.
LEMMA QuietHandler ==
  ASSUME Basic, NEW c \in Clients, NEW from, NEW to, Step(c, from, to),
         UNCHANGED <<mode, statVars, main>>,
         from \notin Comparing \cup {"store"} \cup Ended, to \notin Comparing \cup {"store"},
         to \in Uncounted => from \in Uncounted
  PROVE  Quiet
  <1>1. at \in [Clients -> Labels]
    BY DEF Basic, ProcessTypes
  <1>2. at[c] = from /\ at'[c] = to /\ \A d \in Clients : d # c => at'[d] = at[d]
    BY <1>1 DEF Step
  <1> QED
    BY <1>2 DEF Quiet

\* The end of a process in which no handler is at a count, if handlers run one
\* at a time.
LEMMA QuietExit ==
  ASSUME Basic, NEW p, NEW status \in {"done", "lost"}, Exits(p, status),
         UNCHANGED <<mode, statVars>>, main'[1] = "start" => main[1] = "start",
         mode = "i" =>
           \A c \in Clients : at'[c] # at[c] => at[c] \notin Comparing \cup {"store"}
  PROVE  Quiet
  <1>1. \A c \in Clients : at'[c] = at[c] \/ at'[c] = status
    BY DEF Exits
  <1>2. status \notin Comparing \cup {"store"} /\ status \notin Uncounted /\ status \in Ended
    BY DEF Comparing, Uncounted, Ended
  <1>3. ASSUME NEW c \in Clients, at'[c] # at[c]
        PROVE  /\ at'[c] \notin Comparing \cup {"store"} /\ at'[c] \notin Uncounted
               /\ mode = "i" => at[c] \notin Comparing \cup {"store"}
    BY <1>1, <1>2, <1>3
  <1>4. \A c \in Clients : at[c] \in Ended => at'[c] \in Ended
    BY <1>1, <1>2
  <1> QED
    BY <1>3, <1>4 DEF Quiet

\* accept takes a connection out of the backlog.
LEMMA QuietAccept ==
  ASSUME Basic, NEW c \in Clients, NEW to \in {"read", "accepted", "copy_addr"},
         Accept(c), Step(c, "backlog", to), main' = main \/ main'[1] # "start"
  PROVE  Quiet
  <1>1. at \in [Clients -> Labels]
    BY DEF Basic, ProcessTypes
  <1>2. at[c] = "backlog" /\ at'[c] = to /\ \A d \in Clients : d # c => at'[d] = at[d]
    BY <1>1 DEF Step, Labels
  <1>3. main'[1] # "start" /\ UNCHANGED <<mode, statVars>>
    BY DEF Accept, Acceptable, InAccept, constVars
  <1>4. to \notin Comparing \cup {"store"} /\ "backlog" \notin Comparing \cup {"store"}
        /\ "backlog" \in Uncounted
    BY DEF Comparing, Uncounted
  <1> QED
    BY <1>2, <1>3, <1>4 DEF Quiet

\* The steps of handleClient that are quiet.
LEMMA QuietHandlers ==
  ASSUME Basic, NEW c \in Clients, handleClient(c)
  PROVE  \/ Quiet \/ BrokenPipe(c) \/ Close(c)
         \/ CountLoad(c) \/ CountStore(c) \/ CountExtremes(c)
  <1> USE DEF constVars, loopVars, Uncounted, Comparing, Ended
  <1>1. ASSUME NEW from \in Sending, NEW to \in {"close", "count", "copy_file"},
               Respond(c, from, to)
        PROVE  Quiet
    BY <1>1, QuietHandler DEF Respond, Sending
  <1>2. Refuse(c) \/ handleStats(c) \/ handleLogs(c) => Quiet
    BY <1>1 DEF Refuse, handleStats, handleLogs, Sending
  <1>3. Redirect(c) \/ NotFound(c) \/ OpendirFails(c) \/ ListDirectory(c) \/ OpenFile(c)
          => Quiet
    BY <1>1 DEF Redirect, NotFound, OpendirFails, ListDirectory, OpenFile, Sending
  <1>4. ReadNothing(c) \/ ForkScriptFails(c) \/ WaitScript(c) \/ OpenFails(c) => Quiet
    BY QuietHandler DEF ReadNothing, ForkScriptFails, WaitScript, OpenFails
  <1>5. ForkScript(c) \/ CopyAddr(c) => Quiet
    BY QuietHandler DEF ForkScript, CopyAddr
  <1>6. Stat(c) => Quiet
    BY QuietHandler DEF Stat
  <1>7. CopyFile(c) \/ CopyEnds(c) \/ CopyFails(c) => Quiet
    BY QuietHandler DEF CopyFile, CopyEnds, CopyFails, CopyStops
  <1>8. ReadRequest(c) => Quiet
    <2> SUFFICES ASSUME ReadRequest(c) PROVE Quiet
      OBVIOUS
    <2>1. PICK whole \in BOOLEAN : Step(c, "read", Branch(c, whole))
      BY DEF ReadRequest
    <2>2. Branch(c, whole) \in {"401", "501", "/stats", "/logs", "/cgi-bin/", "stat"}
      BY DEF Branch
    <2>3. UNCHANGED <<mode, statVars, main>>
      BY DEF ReadRequest
    <2> QED
      BY <2>1, <2>2, <2>3, QuietHandler
  <1> QED
    BY <1>2, <1>3, <1>4, <1>5, <1>6, <1>7, <1>8 DEF handleClient

\* All steps, by what they do to the statistics.
LEMMA StatCases ==
  ASSUME Basic, Descriptors, NotBefore, [Next]_vars
  PROVE  \/ Quiet
         \/ \E c \in Clients : \/ Fork(c) \/ Close(c)
                               \/ CountLoad(c) \/ CountStore(c) \/ CountExtremes(c)
  <1> USE DEF constVars, loopVars
  <1>1. CASE Start \/ StartFails
    <2>1. main[1] = "start" /\ main'[1] # "start" /\ UNCHANGED <<mode, statVars>>
      BY <1>1 DEF Start, StartFails
    <2>2. \A c \in Clients : at[c] \notin Comparing \cup {"store"}
      BY <2>1 DEF NotBefore, Ended, Comparing
    <2>3. CASE UNCHANGED at
      BY <2>1, <2>3 DEF Quiet
    <2>4. CASE Exits(Main, "lost")
      BY <2>1, <2>2, <2>4, QuietExit
    <2> QED
      BY <1>1, <2>3, <2>4 DEF Start, StartFails
  <1>2. ASSUME UNCHANGED <<mode, main, at, statVars>>
        PROVE  Quiet
    BY <1>2 DEF Quiet
  <1>3. Resize \/ Quiescent \/ AcceptFails \/ UNCHANGED vars => Quiet
    BY <1>2 DEF Resize, Quiescent, AcceptFails, vars
  <1>4. ASSUME NEW c \in Clients,
               SendRequest(c) \/ Leave(c) \/ Stall(c) \/ Resume(c) \/ Parent(c)
        PROVE  Quiet
    <2>1. CASE SendRequest(c) \/ Leave(c) \/ Stall(c) \/ Resume(c)
      BY <1>2, <2>1 DEF SendRequest, Leave, Stall, Resume
    <2>2. CASE Parent(c)
      BY <2>2 DEF Parent, Quiet
    <2> QED
      BY <1>4, <2>1, <2>2
  <1>5. ASSUME NEW c \in Clients, AcceptIterative(c) \/ AcceptFork(c) \/ AcceptPool(c)
        PROVE  Quiet
    BY <1>5, QuietAccept DEF AcceptIterative, AcceptFork, AcceptPool
  <1>6. ASSUME NEW c \in Clients, AcceptThread(c)
        PROVE  Quiet
    BY <1>6, QuietAccept DEF AcceptThread, ThreadStartsAt
  <1>7. ASSUME NEW c \in Clients, ForkFails(c)
        PROVE  Quiet
    <2>1. at \in [Clients -> Labels]
      BY DEF Basic, ProcessTypes
    <2>2. /\ at[c] = "accepted" /\ at'[c] = "done"
          /\ \A d \in Clients : d # c => at'[d] = at[d]
          /\ UNCHANGED <<mode, statVars>> /\ main'[1] = "accept"
      BY <1>7, <2>1 DEF ForkFails, Step
    <2> QED
      BY <2>2 DEF Quiet, Comparing, Uncounted
  <1>8. ASSUME NEW c \in Clients, ThreadFails(c)
        PROVE  Quiet
    BY <1>8, QuietExit DEF ThreadFails
  <1>9. ASSUME NEW c \in Clients, ScriptEnds(c)
        PROVE  Quiet
    <2>1. at' = at
      BY <1>9, ExitScript DEF ScriptEnds, procVars
    <2> QED
      BY <1>2, <1>9, <2>1 DEF ScriptEnds
  <1>10. ASSUME NEW c \in Clients, BrokenPipe(c)
         PROVE  Quiet
    <2>1. /\ at[c] \in Sending /\ Exits(Server(c), "lost") /\ UNCHANGED <<mode, statVars>>
          /\ main'[1] = "start" => main[1] = "start"
      BY <1>10 DEF BrokenPipe
    <2>2. ASSUME mode = "i", NEW d \in Clients, at[d] \in Comparing \cup {"store"}
          PROVE  FALSE
      <3>1. at[c] \notin Ended /\ at[d] \notin Ended /\ at[c] # at[d]
        BY <2>1, <2>2 DEF Sending, Ended, Comparing
      <3> QED
        BY <2>2, <3>1 DEF Descriptors
    <2> QED
      BY <2>1, <2>2, QuietExit
  <1> QED
    BY <1>1, <1>3, <1>4, <1>5, <1>6, <1>7, <1>8, <1>9, <1>10, QuietHandlers DEF Next, Loop


\* Quiet steps keep everything.
LEMMA QuietKeeps ==
  ASSUME Statistics, Quiet
  PROVE  Statistics'
  <1> USE DEF Statistics
  <1>1. /\ mode' = mode /\ stats' = stats /\ total_read' = total_read
        /\ improved' = improved /\ counted' = counted
    BY DEF Quiet, statVars
  <1>2. StatTypes' /\ NoneTooMany'
    BY <1>1 DEF StatTypes, NoneTooMany
  <1>3. OnePerChild'
    BY <1>1 DEF OnePerChild, Quiet
  <1>4. OneAtATime'
    <2> SUFFICES ASSUME mode = "i" PROVE OneAtATime'
      BY <1>1 DEF OneAtATime
    <2>1. \A c \in Clients :
            at[c] \in Comparing \cup {"store"} \/ at'[c] \in Comparing \cup {"store"}
            => at'[c] = at[c]
      BY DEF Quiet
    <2>2. \A c \in Clients : at'[c] \in Comparing <=> at[c] \in Comparing
      BY <2>1
    <2>3. Settled(stats[Main])' <=> Settled(stats[Main])
      BY <1>1 DEF Settled
    <2>4. stats[Main]' = stats[Main] /\ \A c \in Clients : improved[c]' = improved[c]
      BY <1>1
    <2>5. ASSUME NEW c \in Clients, at'[c] \in Comparing
          PROVE  Compared(at[c], stats[Main], improved[c].time, improved[c].new)'
      <3>1. Compared(at[c], stats[Main], improved[c].time, improved[c].new) /\ at'[c] = at[c]
        BY <2>1, <2>2, <2>5, Zenon DEF OneAtATime
      <3> QED
        BY <1>1, <3>1, Zenon DEF Compared
    <2> QED
      BY <1>1, <2>1, <2>2, <2>3, <2>5 DEF OneAtATime
  <1>5. NotBefore'
    BY DEF NotBefore, Quiet
  <1> QED
    BY <1>2, <1>3, <1>4, <1>5

\* A child starts from the statistics of the server.
LEMMA ForkKeeps ==
  ASSUME Basic, Statistics, NEW c \in Clients, Fork(c)
  PROVE  Statistics'
  <1> USE DEF Statistics
  <1>1. /\ stats' = [stats EXCEPT ![Child(c)] = stats[Main]] /\ at[c] = "accepted"
        /\ at' = [at EXCEPT ![c] = "read"] /\ main'[1] = "parent" /\ mode = "f"
        /\ UNCHANGED <<mode, total_read, improved, counted>>
    BY DEF Fork, Step, constVars, Basic, Lifecycle
  <1>2. Child(c) \in Children /\ \A d \in Clients : Child(d) \in Children
    BY DEF Children
  <1>3. stats' \in [{Main} \cup Children -> StatRecord]
    BY <1>1, Zenon DEF StatTypes
  <1>4. \A p \in {Main} \cup Children :
          stats'[p] = IF p = Child(c) THEN stats[Main] ELSE stats[p]
    BY <1>1 DEF StatTypes
  <1>5. StatTypes'
    BY <1>1, <1>3 DEF StatTypes
  <1>6. NoneTooMany'
    BY <1>1, <1>4 DEF NoneTooMany
  <1>7. at \in [Clients -> Labels]
    BY DEF Basic, ProcessTypes
  <1>8. OnePerChild'
    BY <1>1, <1>2, <1>4, <1>7, Distinct DEF OnePerChild, Uncounted
  <1> QED
    BY <1>1, <1>5, <1>6, <1>8 DEF OneAtATime, NotBefore

\* close, and in a child exit.
LEMMA CloseKeeps ==
  ASSUME Basic, Statistics, NEW c \in Clients, Close(c)
  PROVE  Statistics'
  <1> USE DEF Statistics
  <1>0. at \in [Clients -> Labels]
    BY DEF Basic, ProcessTypes
  <1>1. CASE mode # "f"
    <2>1. Step(c, "close", "done") /\ UNCHANGED <<mode, statVars, main>>
      BY <1>1 DEF Close, constVars, statVars
    <2> QED
      BY <2>1, QuietHandler, QuietKeeps DEF Comparing, Ended, Uncounted
  <1>2. CASE mode = "f"
    <2>1. /\ stats' = [stats EXCEPT ![Child(c)] = NoStats] /\ Exits(Child(c), "done")
          /\ UNCHANGED <<mode, main, total_read, improved, counted>>
      BY <1>2 DEF Close, constVars
    <2>2. \A d \in Clients : at'[d] = IF d = c /\ at[d] # "backlog" THEN "done" ELSE at[d]
      BY <1>2, <2>1, ServerFacts, Distinct DEF Exits
    <2>3. NoStats \in StatRecord /\ NoStats.total = 0
      BY DEF NoStats, StatRecord
    <2>4. /\ stats' \in [{Main} \cup Children -> StatRecord]
          /\ \A p \in {Main} \cup Children :
               stats'[p] = IF p = Child(c) THEN NoStats ELSE stats[p]
      BY <2>1, <2>3, Zenon DEF StatTypes
    <2>5. StatTypes'
      BY <2>1, <2>4 DEF StatTypes
    <2>6. NoneTooMany'
      BY <2>1, <2>3, <2>4 DEF NoneTooMany, StatTypes
    <2>7. \A d \in Clients : Child(d) \in Children
      BY DEF Children
    <2>8. OnePerChild'
      BY <2>1, <2>2, <2>3, <2>4, <2>7, Distinct DEF OnePerChild, Uncounted
    <2>9. NotBefore'
      BY <2>1, <2>2 DEF NotBefore, Ended
    <2> QED
      BY <1>2, <2>1, <2>5, <2>6, <2>8, <2>9, Zenon DEF OneAtATime
  <1> QED
    BY <1>1, <1>2

\* totalRequests++ reads.
LEMMA LoadKeeps ==
  ASSUME Basic, Statistics, NEW c \in Clients, CountLoad(c)
  PROVE  Statistics'
  <1> USE DEF Statistics
  <1>1. /\ at[c] = "count" /\ at' = [at EXCEPT ![c] = "store"]
        /\ total_read' = [total_read EXCEPT ![c] = stats[Server(c)].total]
        /\ UNCHANGED <<mode, main, stats, improved, counted>>
    BY DEF CountLoad, Step, constVars, loopVars
  <1>2. at \in [Clients -> Labels]
    BY DEF Basic, ProcessTypes
  <1>3. Server(c) \in {Main} \cup Children
    BY DEF Server, Children
  <1>4. stats[Server(c)].total \in Nat /\ stats[Server(c)].total <= counted
    BY <1>3 DEF StatTypes, StatRecord, NoneTooMany
  <1>5. StatTypes'
    BY <1>1, <1>4 DEF StatTypes
  <1>6. NoneTooMany'
    BY <1>1, <1>4 DEF NoneTooMany, StatTypes
  <1>7. \A d \in Clients : at'[d] = IF d = c THEN "store" ELSE at[d]
    BY <1>1, <1>2
  <1>8. \A d \in Clients :
          total_read'[d] = IF d = c THEN stats[Server(c)].total ELSE total_read[d]
    BY <1>1 DEF StatTypes
  <1>9. OnePerChild'
    BY <1>1, <1>7, <1>8, ServerFacts DEF OnePerChild, Uncounted
  <1>10. OneAtATime'
    <2> SUFFICES ASSUME mode = "i" PROVE OneAtATime'
      BY <1>1, Zenon DEF OneAtATime
    <2>1. \A d \in Clients : at'[d] \in Comparing <=> at[d] \in Comparing
      BY <1>1, <1>7 DEF Comparing
    <2>2. ASSUME NEW d \in Clients, at'[d] \in Comparing
          PROVE  Compared(at[d], stats[Main], improved[d].time, improved[d].new)'
      <3>1. Compared(at[d], stats[Main], improved[d].time, improved[d].new) /\ at'[d] = at[d]
        BY <1>7, <2>1, <2>2, Zenon DEF OneAtATime, Comparing
      <3> QED
        BY <1>1, <3>1, Zenon DEF Compared
    <2>3. Settled(stats[Main])' <=> Settled(stats[Main])
      BY <1>1, Zenon DEF Settled
    <2> QED
      BY <1>1, <1>7, <1>8, <2>1, <2>2, <2>3, ServerFacts, Zenon DEF OneAtATime
  <1>11. NotBefore'
    BY <1>1, <1>7 DEF NotBefore, Ended
  <1> QED
    BY <1>5, <1>6, <1>9, <1>10, <1>11

\* totalRequests++ stores what was read plus one, and the request has its time.
LEMMA StoreKeeps ==
  ASSUME Basic, Descriptors, Statistics, NEW c \in Clients, CountStore(c)
  PROVE  Statistics'
  <1> USE DEF Statistics
  <1>1. /\ at[c] = "store" /\ at' = [at EXCEPT ![c] = "test_min"]
        /\ stats' = [stats EXCEPT ![Server(c)].total = total_read[c] + 1]
        /\ total_read' = [total_read EXCEPT ![c] = 0] /\ counted' = counted + 1
        /\ UNCHANGED <<mode, main>>
    BY DEF CountStore, Step, constVars, loopVars
  <1>2. PICK t \in Times : improved' = [improved EXCEPT ![c].time = t]
    BY Zenon DEF CountStore
  <1>3. t \in Nat
    BY LegacyAssumption
  <1>4. \A d \in Clients : at'[d] = IF d = c THEN "test_min" ELSE at[d]
    BY <1>1 DEF Basic, ProcessTypes
  <1>5. \A d \in Clients : total_read'[d] = IF d = c THEN 0 ELSE total_read[d]
    BY <1>1 DEF StatTypes
  <1>6. Server(c) \in {Main} \cup Children
    BY DEF Server, Children
  <1>7. counted \in Nat /\ total_read[c] \in Nat /\ total_read[c] <= counted
    BY DEF StatTypes, NoneTooMany
  <1>8. /\ stats' \in [{Main} \cup Children -> StatRecord]
        /\ \A p \in {Main} \cup Children :
             /\ stats'[p].total = IF p = Server(c) THEN total_read[c] + 1 ELSE stats[p].total
             /\ stats'[p].min = stats[p].min /\ stats'[p].min_url = stats[p].min_url
             /\ stats'[p].max = stats[p].max /\ stats'[p].max_url = stats[p].max_url
    <2> DEFINE r == [stats[Server(c)] EXCEPT !.total = total_read[c] + 1]
    <2>1. stats \in [{Main} \cup Children -> StatRecord] /\ stats[Server(c)] \in StatRecord
      BY <1>6 DEF StatTypes
    <2>2. stats' = [stats EXCEPT ![Server(c)] = r]
      BY <1>1
    <2>3. /\ r \in StatRecord /\ r.total = total_read[c] + 1
          /\ r.min = stats[Server(c)].min /\ r.min_url = stats[Server(c)].min_url
          /\ r.max = stats[Server(c)].max /\ r.max_url = stats[Server(c)].max_url
      BY <1>7, <2>1 DEF StatRecord
    <2> HIDE DEF r
    <2>4. stats' \in [{Main} \cup Children -> StatRecord]
          /\ \A p \in {Main} \cup Children : stats'[p] = IF p = Server(c) THEN r ELSE stats[p]
      BY <1>6, <2>1, <2>2, <2>3
    <2> QED
      BY <2>3, <2>4 DEF StatRecord
  <1>9. improved' \in [Clients -> [time : Int, new : BOOLEAN]] /\ improved'[c].time = t
    <2> DEFINE r == [improved[c] EXCEPT !.time = t]
    <2>1. improved[c] \in [time : Int, new : BOOLEAN]
      BY DEF StatTypes
    <2>2. r \in [time : Int, new : BOOLEAN] /\ r.time = t
      BY <1>3, <2>1
    <2>3. improved' = [improved EXCEPT ![c] = r]
      BY <1>2
    <2> HIDE DEF r
    <2> QED
      BY <2>2, <2>3 DEF StatTypes
  <1>10. StatTypes'
    <2>1. total_read' \in [Clients -> Nat] /\ counted' \in Nat
      BY <1>1, <1>7 DEF StatTypes
    <2> QED
      BY <1>8, <1>9, <2>1 DEF StatTypes
  <1>11. NoneTooMany'
    <2>1. \A p \in {Main} \cup Children : stats[p].total \in Nat /\ stats[p].total <= counted
      BY DEF StatTypes, StatRecord, NoneTooMany
    <2>2. \A d \in Clients : total_read[d] \in Nat /\ total_read[d] <= counted
      BY DEF StatTypes, NoneTooMany
    <2> QED
      BY <1>1, <1>5, <1>7, <1>8, <2>1, <2>2 DEF NoneTooMany
  <1>12. OnePerChild'
    <2> SUFFICES ASSUME mode = "f" PROVE OnePerChild'
      BY <1>1 DEF OnePerChild
    <2>1. Server(c) = Child(c) /\ total_read[c] = 0
      BY <1>1, ServerFacts DEF OnePerChild
    <2>2. \A d \in Clients : Child(d) \in Children
      BY DEF Children
    <2>3. stats'[Main].total = 0
      BY <1>8, <2>1, Distinct, Zenon DEF OnePerChild
    <2>4. ASSUME NEW d \in Clients
          PROVE  /\ stats'[Child(d)].total <= 1
                 /\ at'[d] \in Uncounted => stats'[Child(d)].total = 0
                 /\ at'[d] = "store" => total_read'[d] = 0
      <3>1. CASE d = c
        BY <1>4, <1>8, <2>1, <2>2, <3>1 DEF Uncounted
      <3>2. CASE d # c
        <4>1. Child(d) # Child(c)
          BY <3>2, Distinct
        <4> QED
          BY <1>4, <1>5, <1>8, <2>1, <2>2, <3>2, <4>1, Zenon DEF OnePerChild
      <3> QED
        BY <3>1, <3>2, Zenon
    <2> QED
      BY <2>3, <2>4 DEF OnePerChild
  <1>13. OneAtATime'
    <2> SUFFICES ASSUME mode = "i" PROVE OneAtATime'
      BY <1>1 DEF OneAtATime
    <2>1. \A d \in Clients : d # c => at[d] \in Ended
      BY <1>1 DEF Descriptors, Ended
    <2>2. \A d \in Clients : at[d] \notin Comparing
      BY <1>1, <2>1 DEF Ended, Comparing
    <2>3. Settled(stats[Main]) /\ Server(c) = Main /\ total_read[c] = counted
      BY <1>1, <2>2, ServerFacts DEF OneAtATime
    <2>4. stats'[Main].total = counted'
      BY <1>1, <1>8, <2>3
    <2>5. stats'[Main].min = stats'[Main].min_url /\ stats'[Main].max = stats'[Main].max_url
          /\ stats'[Main].min <= stats'[Main].max
      BY <1>8, <2>3 DEF Settled
    <2>6. \A d \in Clients : at'[d] \in Comparing \cup {"store"} => d = c
      BY <1>4, <2>1 DEF Comparing, Ended
    <2>7. at'[c] = "test_min" /\ "test_min" \in Comparing /\ "test_min" # "store"
      BY <1>4 DEF Comparing
    <2>8. Compared(at[c], stats[Main], improved[c].time, improved[c].new)'
      <3>1. counted' > 0 /\ improved'[c].time >= 0
        BY <1>1, <1>3, <1>7, <1>9
      <3> QED
        BY <2>5, <2>7, <3>1, Zenon DEF Compared
    <2> QED
      BY <2>4, <2>6, <2>7, <2>8, Zenon DEF OneAtATime
  <1>14. NotBefore'
    BY <1>1, <1>4 DEF NotBefore, Ended
  <1> QED
    BY <1>10, <1>11, <1>12, <1>13, <1>14

\* A comparison: the request remembers whether it is a new extreme.
TestDone(c, from, new, to) ==
  /\ UNCHANGED <<mode, main, stats, total_read, counted>> /\ StatTypes'
  /\ at[c] = from /\ at' = [at EXCEPT ![c] = to]
  /\ improved'[c].time = improved[c].time /\ improved'[c].new = new

LEMMA TestFacts ==
  ASSUME Statistics, NEW c \in Clients, NEW from, NEW new \in BOOLEAN, NEW to,
         TestExtreme(c, from, new, to)
  PROVE  TestDone(c, from, new, to)
  <1> DEFINE r == [improved[c] EXCEPT !.new = new]
  <1>1. /\ UNCHANGED <<mode, main, stats, total_read, counted>>
        /\ at[c] = from /\ at' = [at EXCEPT ![c] = to]
        /\ improved' = [improved EXCEPT ![c] = r]
    BY DEF TestExtreme, Step, constVars, loopVars
  <1>2. improved[c] \in [time : Int, new : BOOLEAN]
    BY DEF Statistics, StatTypes
  <1>3. r \in [time : Int, new : BOOLEAN] /\ r.time = improved[c].time /\ r.new = new
    BY <1>2
  <1> HIDE DEF r
  <1>4. improved' \in [Clients -> [time : Int, new : BOOLEAN]] /\ improved'[c] = r
    BY <1>1, <1>3 DEF Statistics, StatTypes
  <1>5. StatTypes'
    BY <1>1, <1>4, Zenon DEF Statistics, StatTypes
  <1> QED
    BY <1>1, <1>3, <1>4, <1>5, Zenon DEF TestDone

\* An assignment: if the request is a new extreme its time is written to one
\* field.
Assigned(s, field, t, new) == IF new THEN [s EXCEPT ![field] = t] ELSE s

SetDone(c, field, to) ==
  /\ UNCHANGED <<mode, main, total_read, counted>> /\ StatTypes'
  /\ at[c] = field /\ at' = [at EXCEPT ![c] = to]
  /\ to # "close" => improved' = improved
  /\ stats'[Server(c)] = Assigned(stats[Server(c)], field, improved[c].time, improved[c].new)
  /\ \A p \in {Main} \cup Children : stats'[p].total = stats[p].total

LEMMA SetFacts ==
  ASSUME Statistics, NEW c \in Clients, NEW to,
         NEW field \in {"min", "min_url", "max", "max_url"}, SetExtreme(c, field, to)
  PROVE  SetDone(c, field, to)
  <1> DEFINE r == [stats[Server(c)] EXCEPT ![field] = improved[c].time]
  <1>1. /\ UNCHANGED <<mode, main, total_read, counted>>
        /\ at[c] = field /\ at' = [at EXCEPT ![c] = to]
        /\ to # "close" => improved' = improved
        /\ to = "close" => improved' = [improved EXCEPT ![c] = NotCounted]
        /\ ~improved[c].new => stats' = stats
        /\ improved[c].new => stats' = [stats EXCEPT ![Server(c)] = r]
    BY DEF SetExtreme, Step, constVars, loopVars
  <1>2. improved[c].time \in Int /\ Server(c) \in {Main} \cup Children
    BY DEF Statistics, StatTypes, Server, Children
  <1>3. stats \in [{Main} \cup Children -> StatRecord] /\ stats[Server(c)] \in StatRecord
    BY <1>2 DEF Statistics, StatTypes
  <1>4. r \in StatRecord /\ r.total = stats[Server(c)].total
    BY <1>2, <1>3 DEF StatRecord
  <1>5. NotCounted \in [time : Int, new : BOOLEAN]
    BY DEF NotCounted
  <1>6. improved' \in [Clients -> [time : Int, new : BOOLEAN]]
    <2>1. CASE to = "close"
      BY <1>1, <1>5, <2>1 DEF Statistics, StatTypes
    <2>2. CASE to # "close"
      BY <1>1, <2>2 DEF Statistics, StatTypes
    <2> QED
      BY <2>1, <2>2
  <1>7. CASE improved[c].new
    <2>1. stats'[Server(c)] = Assigned(stats[Server(c)], field, improved[c].time, improved[c].new)
          <=> stats'[Server(c)] = r
      BY <1>7, Zenon DEF Assigned
    <2>2. stats' = [stats EXCEPT ![Server(c)] = r]
      BY <1>1, <1>7, Zenon
    <2> HIDE DEF r
    <2>3. stats' \in [{Main} \cup Children -> StatRecord]
          /\ \A p \in {Main} \cup Children : stats'[p] = IF p = Server(c) THEN r ELSE stats[p]
      BY <1>2, <1>3, <1>4, <2>2
    <2>4. StatTypes'
      BY <1>1, <1>6, <2>3, Zenon DEF Statistics, StatTypes
    <2>5. \A p \in {Main} \cup Children : stats'[p].total = stats[p].total
      BY <1>4, <2>3, Zenon
    <2> QED
      BY <1>1, <1>2, <2>1, <2>3, <2>4, <2>5, Zenon DEF SetDone
  <1>8. CASE ~improved[c].new
    <2>1. stats' = stats /\ StatTypes'
      BY <1>1, <1>6, <1>8, Zenon DEF Statistics, StatTypes
    <2> QED
      BY <1>1, <1>8, <2>1, Zenon DEF SetDone, Assigned
  <1> QED
    BY <1>7, <1>8, Zenon

OneField(r, s, field, t, new) ==
  /\ r.min = IF new /\ field = "min" THEN t ELSE s.min
  /\ r.min_url = IF new /\ field = "min_url" THEN t ELSE s.min_url
  /\ r.max = IF new /\ field = "max" THEN t ELSE s.max
  /\ r.max_url = IF new /\ field = "max_url" THEN t ELSE s.max_url

LEMMA AssignedFacts ==
  ASSUME NEW s \in StatRecord, NEW t \in Int, NEW new \in BOOLEAN,
         NEW field \in {"min", "min_url", "max", "max_url"}, NEW r,
         r = Assigned(s, field, t, new)
  PROVE  OneField(r, s, field, t, new)
  <1>1. CASE new
    <2>1. r = [s EXCEPT ![field] = t]
      BY <1>1, Zenon DEF Assigned
    <2> QED
      BY <1>1, <2>1, Zenon DEF StatRecord, OneField
  <1>2. CASE ~new
    <2>1. r = s
      BY <1>2, Zenon DEF Assigned
    <2> QED
      BY <1>2, <2>1, Zenon DEF OneField
  <1> QED
    BY <1>1, <1>2

\* What the assignments leave of the comparisons.
LEMMA ComparedNext ==
  ASSUME NEW s \in StatRecord, NEW t \in Int, NEW new \in BOOLEAN
  PROVE  /\ Compared("min", s, t, new) => Compared("min_url", Assigned(s, "min", t, new), t, new)
         /\ Compared("min_url", s, t, new) =>
              Compared("test_max", Assigned(s, "min_url", t, new), t, new)
         /\ Compared("max", s, t, new) => Compared("max_url", Assigned(s, "max", t, new), t, new)
         /\ Compared("max_url", s, t, new) => Settled(Assigned(s, "max_url", t, new))
  <1>1. s.min \in Int /\ s.min_url \in Int /\ s.max \in Int /\ s.max_url \in Int
    BY DEF StatRecord
  <1>2. \A field \in {"min", "min_url", "max", "max_url"} :
          OneField(Assigned(s, field, t, new), s, field, t, new)
    BY AssignedFacts, Zenon
  <1>3. ASSUME Compared("min", s, t, new)
        PROVE  Compared("min_url", Assigned(s, "min", t, new), t, new)
    <2> DEFINE r == Assigned(s, "min", t, new)
    <2>1. /\ r.min = (IF new THEN t ELSE s.min) /\ r.min_url = s.min_url
          /\ r.max = s.max /\ r.max_url = s.max_url
      BY <1>2 DEF OneField
    <2> HIDE DEF r
    <2>2. Compared("min_url", r, t, new)
      BY <1>1, <1>3, <2>1 DEF Compared
    <2> QED
      BY <2>2, Zenon DEF r
  <1>4. ASSUME Compared("min_url", s, t, new)
        PROVE  Compared("test_max", Assigned(s, "min_url", t, new), t, new)
    <2> DEFINE r == Assigned(s, "min_url", t, new)
    <2>1. /\ r.min = s.min /\ r.min_url = (IF new THEN t ELSE s.min_url)
          /\ r.max = s.max /\ r.max_url = s.max_url
      BY <1>2 DEF OneField
    <2> HIDE DEF r
    <2>2. Compared("test_max", r, t, new)
      BY <1>1, <1>4, <2>1 DEF Compared
    <2> QED
      BY <2>2, Zenon DEF r
  <1>5. ASSUME Compared("max", s, t, new)
        PROVE  Compared("max_url", Assigned(s, "max", t, new), t, new)
    <2> DEFINE r == Assigned(s, "max", t, new)
    <2>1. /\ r.min = s.min /\ r.min_url = s.min_url
          /\ r.max = (IF new THEN t ELSE s.max) /\ r.max_url = s.max_url
      BY <1>2 DEF OneField
    <2> HIDE DEF r
    <2>2. Compared("max_url", r, t, new)
      BY <1>1, <1>5, <2>1 DEF Compared
    <2> QED
      BY <2>2, Zenon DEF r
  <1>6. ASSUME Compared("max_url", s, t, new)
        PROVE  Settled(Assigned(s, "max_url", t, new))
    <2> DEFINE r == Assigned(s, "max_url", t, new)
    <2>1. /\ r.min = s.min /\ r.min_url = s.min_url
          /\ r.max = s.max /\ r.max_url = (IF new THEN t ELSE s.max_url)
      BY <1>2 DEF OneField
    <2> HIDE DEF r
    <2>2. Settled(r)
      BY <1>1, <1>6, <2>1 DEF Compared, Settled
    <2> QED
      BY <2>2, Zenon DEF r
  <1> QED
    BY <1>3, <1>4, <1>5, <1>6, Zenon

\* A step that leaves the totals alone and brings no handler back to its count
\* keeps the children's totals.
LEMMA OnePerChildKept ==
  ASSUME OnePerChild, mode' = mode, total_read' = total_read,
         stats'[Main].total = stats[Main].total,
         \A d \in Clients : stats'[Child(d)].total = stats[Child(d)].total,
         \A d \in Clients : /\ at'[d] \in Uncounted => at[d] \in Uncounted
                            /\ at'[d] = "store" => at[d] = "store"
  PROVE  OnePerChild'
  BY DEF OnePerChild

\* Between the count and close nothing but the extremes changes.
LEMMA ExtremesKeep ==
  ASSUME Basic, Statistics, NEW c \in Clients, NEW to, at[c] \in Comparing,
         to \in Comparing \cup {"close"},
         at' = [at EXCEPT ![c] = to], StatTypes',
         UNCHANGED <<mode, main, total_read, counted>>,
         \A p \in {Main} \cup Children : stats'[p].total = stats[p].total
  PROVE  /\ NoneTooMany' /\ OnePerChild' /\ NotBefore'
         /\ \A d \in Clients : at'[d] = IF d = c THEN to ELSE at[d]
  <1>1. \A d \in Clients : at'[d] = IF d = c THEN to ELSE at[d]
    BY Zenon DEF Basic, ProcessTypes
  <1>2. NoneTooMany'
    BY DEF Statistics, NoneTooMany
  <1>3. \A d \in Clients : Child(d) \in Children
    BY DEF Children
  <1>4. OnePerChild'
    <2>1. to \notin Uncounted
      BY DEF Uncounted, Comparing
    <2>2. \A d \in Clients : /\ at'[d] \in Uncounted => at[d] \in Uncounted
                             /\ at'[d] = "store" => at[d] = "store"
      BY <1>1, <2>1, Zenon DEF Uncounted
    <2>3. /\ OnePerChild
          /\ mode' = mode /\ total_read' = total_read
          /\ stats'[Main].total = stats[Main].total
          /\ \A d \in Clients : stats'[Child(d)].total = stats[Child(d)].total
      BY <1>3 DEF Statistics
    <2> QED
      BY <2>2, <2>3, OnePerChildKept, Zenon
  <1>5. NotBefore'
    BY <1>1, Zenon DEF Statistics, NotBefore, Comparing, Ended
  <1> QED
    BY <1>1, <1>2, <1>4, <1>5, Zenon

\* The comparisons and assignments of the extremes.
LEMMA CompareKeeps ==
  ASSUME Basic, Descriptors, Statistics, NEW c \in Clients, CountExtremes(c)
  PROVE  Statistics'
  <1> DEFINE s == stats[Main]
             t == improved[c].time
             new == improved[c].new
  <1>1. t \in Int /\ new \in BOOLEAN /\ stats[Server(c)] \in StatRecord /\ s \in StatRecord
    BY DEF Statistics, StatTypes, Server, Children
  <1>2. /\ s.min \in Int /\ s.min_url \in Int /\ s.max \in Int /\ s.max_url \in Int
        /\ stats[Server(c)].min \in Int /\ stats[Server(c)].max \in Int
    BY <1>1 DEF StatRecord
  <1>3. ASSUME NEW from \in Comparing, NEW to \in Comparing \cup {"close"},
               at[c] = from, at' = [at EXCEPT ![c] = to],
               UNCHANGED <<mode, main, total_read, counted>>, StatTypes',
               \A p \in {Main} \cup Children : stats'[p].total = stats[p].total,
               mode = "i" /\ Compared(from, s, t, new) =>
                 IF to = "close" THEN Settled(stats[Main])'
                 ELSE Compared(to, stats[Main]', improved[c].time', improved[c].new')
        PROVE  Statistics'
    <2>1. /\ NoneTooMany' /\ OnePerChild' /\ NotBefore'
          /\ \A d \in Clients : at'[d] = IF d = c THEN to ELSE at[d]
      BY <1>3, ExtremesKeep, Zenon
    <2>2. OneAtATime'
      <3> SUFFICES ASSUME mode = "i" PROVE OneAtATime'
        BY <1>3, Zenon DEF OneAtATime
      <3>1. \A d \in Clients : d # c => at[d] \in Ended
        BY <1>3, Zenon DEF Descriptors, Ended, Comparing
      <3>2. \A d \in Clients : d # c => at'[d] \notin Comparing \cup {"store"}
        BY <2>1, <3>1 DEF Comparing, Ended
      <3>3. Compared(from, s, t, new) /\ stats'[Main].total = counted'
        BY <1>3, Zenon DEF Statistics, OneAtATime
      <3>4. at'[c] = to /\ to # "store"
        BY <2>1, Zenon DEF Comparing
      <3>5. CASE to = "close"
        <4>1. Settled(stats[Main])' /\ to \notin Comparing
          BY <1>3, <3>3, <3>5, Zenon DEF Comparing
        <4> QED
          BY <3>2, <3>3, <3>4, <4>1, Zenon DEF OneAtATime
      <3>6. CASE to # "close"
        <4>1. to \in Comparing
              /\ Compared(to, stats[Main]', improved[c].time', improved[c].new')
          BY <1>3, <3>3, <3>6, Zenon
        <4>2. Compared(at[c], stats[Main], improved[c].time, improved[c].new)'
          BY <1>3, <3>4, <4>1, Zenon DEF Compared
        <4> QED
          BY <3>2, <3>3, <3>4, <4>1, <4>2, Zenon DEF OneAtATime
      <3> QED
        BY <3>5, <3>6
    <2> QED
      BY <1>3, <2>1, <2>2, Zenon DEF Statistics
  <1> HIDE DEF s, t, new
  <1>4. mode = "i" => Server(c) = Main
    BY ServerFacts
  <1>5. CASE TestExtreme(c, "test_min", IsMin(improved[c].time, stats[Server(c)].min), "min")
    <2> DEFINE shorter == IsMin(improved[c].time, stats[Server(c)].min)
    <2>1. shorter \in BOOLEAN /\ TestExtreme(c, "test_min", shorter, "min")
      BY <1>5, Zenon DEF IsMin
    <2>2. mode = "i" => (shorter <=> s.min < 0 \/ t < s.min)
      BY <1>4, Zenon DEF IsMin, s, t
    <2> HIDE DEF shorter
    <2>3. TestDone(c, "test_min", shorter, "min")
      BY <2>1, TestFacts, Zenon
    <2>4. stats'[Main] = s /\ improved'[c].time = t /\ improved'[c].new = shorter
      BY <2>3, Zenon DEF TestDone, s, t
    <2>5. Compared("test_min", s, t, new) /\ (shorter <=> s.min < 0 \/ t < s.min) =>
            Compared("min", s, t, shorter)
      BY DEF Compared
    <2>6. mode = "i" /\ Compared("test_min", s, t, new) =>
            Compared("min", stats[Main]', improved[c].time', improved[c].new')
      BY <2>2, <2>4, <2>5, Zenon
    <2> QED
      BY <1>3, <2>3, <2>6, Zenon DEF Comparing, TestDone
  <1>6. CASE TestExtreme(c, "test_max", improved[c].time > stats[Server(c)].max, "max")
    <2> DEFINE longer == improved[c].time > stats[Server(c)].max
    <2>1. longer \in BOOLEAN /\ TestExtreme(c, "test_max", longer, "max")
      <3>1. longer \in BOOLEAN
        OBVIOUS
      <3> QED
        BY <1>6, <3>1, Zenon
    <2>2. mode = "i" => (longer <=> t > s.max)
      BY <1>4, Zenon DEF s, t
    <2> HIDE DEF longer
    <2>3. TestDone(c, "test_max", longer, "max")
      BY <2>1, TestFacts, Zenon
    <2>4. stats'[Main] = s /\ improved'[c].time = t /\ improved'[c].new = longer
      BY <2>3, Zenon DEF TestDone, s, t
    <2>5. Compared("test_max", s, t, new) /\ (longer <=> t > s.max) =>
            Compared("max", s, t, longer)
      BY DEF Compared
    <2>6. mode = "i" /\ Compared("test_max", s, t, new) =>
            Compared("max", stats[Main]', improved[c].time', improved[c].new')
      BY <2>2, <2>4, <2>5, Zenon
    <2> QED
      BY <1>3, <2>3, <2>6, Zenon DEF Comparing, TestDone
  <1>7. CASE SetExtreme(c, "min", "min_url")
    <2>1. SetDone(c, "min", "min_url")
      BY <1>7, SetFacts, Zenon
    <2>2. mode = "i" => stats'[Main] = Assigned(s, "min", t, new)
      BY <1>4, <2>1, Zenon DEF SetDone, s, t, new
    <2>3. improved'[c].time = t /\ improved'[c].new = new
      BY <2>1 DEF SetDone, t, new
    <2>4. mode = "i" /\ Compared("min", s, t, new) =>
            Compared("min_url", stats[Main]', improved[c].time', improved[c].new')
      BY <1>1, <2>2, <2>3, ComparedNext, Zenon
    <2> QED
      BY <1>3, <2>1, <2>4, Zenon DEF Comparing, SetDone
  <1>8. CASE SetExtreme(c, "min_url", "test_max")
    <2>1. SetDone(c, "min_url", "test_max")
      BY <1>8, SetFacts, Zenon
    <2>2. mode = "i" => stats'[Main] = Assigned(s, "min_url", t, new)
      BY <1>4, <2>1, Zenon DEF SetDone, s, t, new
    <2>3. improved'[c].time = t /\ improved'[c].new = new
      BY <2>1 DEF SetDone, t, new
    <2>4. mode = "i" /\ Compared("min_url", s, t, new) =>
            Compared("test_max", stats[Main]', improved[c].time', improved[c].new')
      BY <1>1, <2>2, <2>3, ComparedNext, Zenon
    <2> QED
      BY <1>3, <2>1, <2>4, Zenon DEF Comparing, SetDone
  <1>9. CASE SetExtreme(c, "max", "max_url")
    <2>1. SetDone(c, "max", "max_url")
      BY <1>9, SetFacts, Zenon
    <2>2. mode = "i" => stats'[Main] = Assigned(s, "max", t, new)
      BY <1>4, <2>1, Zenon DEF SetDone, s, t, new
    <2>3. improved'[c].time = t /\ improved'[c].new = new
      BY <2>1 DEF SetDone, t, new
    <2>4. mode = "i" /\ Compared("max", s, t, new) =>
            Compared("max_url", stats[Main]', improved[c].time', improved[c].new')
      BY <1>1, <2>2, <2>3, ComparedNext, Zenon
    <2> QED
      BY <1>3, <2>1, <2>4, Zenon DEF Comparing, SetDone
  <1>10. CASE SetExtreme(c, "max_url", "close")
    <2>1. SetDone(c, "max_url", "close")
      BY <1>10, SetFacts, Zenon
    <2>2. mode = "i" => stats'[Main] = Assigned(s, "max_url", t, new)
      BY <1>4, <2>1, Zenon DEF SetDone, s, t, new
    <2>3. counted' = counted
      BY <2>1, Zenon DEF SetDone
    <2>4. mode = "i" /\ Compared("max_url", s, t, new) => Settled(stats[Main])'
      BY <1>1, <2>2, <2>3, ComparedNext, Zenon DEF Settled
    <2> QED
      BY <1>3, <2>1, <2>4, Zenon DEF Comparing, SetDone
  <1> QED
    BY <1>5, <1>6, <1>7, <1>8, <1>9, <1>10, Zenon DEF CountExtremes

\* Every step keeps the statistics in order.
LEMMA StatisticsAlways == SafeSpec => []Statistics
  <1>1. Init => Statistics
    <2> SUFFICES ASSUME Init PROVE Statistics
      OBVIOUS
    <2>1. PICK z \in Scenarios :
            at = [c \in Clients |-> IF c \in z.clients THEN "backlog" ELSE "done"]
      BY Zenon DEF Init
    <2>2. /\ stats = [p \in {Main} \cup Children |-> NoStats]
          /\ total_read = [c \in Clients |-> 0] /\ counted = 0
          /\ improved = [c \in Clients |-> NotCounted]
      BY Zenon DEF Init, Children
    <2>3. \A c \in Clients : at[c] \in {"backlog", "done"}
      BY <2>1
    <2>4. /\ NoStats \in StatRecord /\ NoStats.total = 0 /\ NoStats.min = NoStats.min_url
          /\ NoStats.max = NoStats.max_url /\ NoStats.min <= NoStats.max
          /\ NotCounted \in [time : Int, new : BOOLEAN]
      BY DEF NoStats, StatRecord, NotCounted
    <2>5. \A p \in {Main} \cup Children : stats[p] = NoStats
      BY <2>2
    <2>6. \A c \in Clients : Child(c) \in Children
      BY DEF Children
    <2>7. StatTypes /\ NoneTooMany
      BY <2>2, <2>4, <2>5 DEF StatTypes, NoneTooMany
    <2>8. OnePerChild /\ NotBefore
      BY <2>2, <2>3, <2>4, <2>5, <2>6 DEF OnePerChild, NotBefore, Ended
    <2>9. OneAtATime
      BY <2>2, <2>3, <2>4, <2>5 DEF OneAtATime, Settled, Comparing
    <2> QED
      BY <2>7, <2>8, <2>9 DEF Statistics
  <1>2. Basic /\ Descriptors /\ Statistics /\ [Next]_vars => Statistics'
    BY StatCases, QuietKeeps, ForkKeeps, CloseKeeps, LoadKeeps, StoreKeeps, CompareKeeps
    DEF Statistics
  <1> QED
    BY <1>1, <1>2, BasicAlways, DescriptorsAlways, PTL DEF SafeSpec

\* For any number of clients and any times: no copy of totalRequests exceeds the
\* requests counted; with one thread it is exact and the URL beside each extreme
\* belongs to it; in mode 'f' the server's own copy stays empty and a child
\* counts no more than its one request.
THEOREM StatsCorrect == SafeSpec => []StatsHonest
  <1>1. Basic /\ Statistics => StatsHonest
    <2> SUFFICES ASSUME Basic, Statistics PROVE StatsHonest
      OBVIOUS
    <2>1. DOMAIN stats = {Main} \cup Children
      BY DEF Statistics, StatTypes
    <2>2. \A p \in DOMAIN stats : stats[p].total <= counted
      BY <2>1 DEF Statistics, NoneTooMany
    <2>3. ASSUME mode = "i", Active = {}
          PROVE  stats[Main].total = counted /\ Settled(stats[Main])
      <3>1. \A c \in Clients : at[c] \notin Comparing
        BY <2>3 DEF Active, Comparing
      <3> QED
        BY <2>3, <3>1 DEF Statistics, OneAtATime
    <2> QED
      BY <2>2, <2>3, Zenon DEF StatsHonest, Settled, Statistics, OnePerChild
  <1> QED
    BY <1>1, BasicAlways, StatisticsAlways, PTL
==============================================================================
