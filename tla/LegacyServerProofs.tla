-------------------------- MODULE LegacyServerProofs --------------------------
(***************************************************************************)
(* Theorems about LegacyServer: for any number of clients, any size of the *)
(* pool and of the copy buffer, any file sizes and any number of changes.  *)
(***************************************************************************)
EXTENDS LegacyServer, FiniteSetTheorems, TLAPS

\* The names of processes are distinct.
LEMMA Distinct ==
  \A c, d : /\ Child(c) # Main /\ Script(c) # Main /\ Child(c) # Script(d)
            /\ Child(c) = Child(d) => c = d
            /\ Script(c) = Script(d) => c = d
  BY DEF Child, Script, Main

\* There are finitely many children because there are finitely many clients.
LEMMA FiniteChildren == IsFiniteSet(Children)
  <1> DEFINE f == [c \in Clients |-> Child(c)]
  <1>1. f \in Surjection(Clients, Children)
    BY DEF Surjection, Children
  <1> QED
    BY <1>1, FS_Surjection, LegacyAssumption

\* A client is served by its child in mode 'f', by the server otherwise.
LEMMA ServerFacts ==
  ASSUME NEW c
  PROVE  /\ mode = "f" => Server(c) = Child(c)
         /\ mode # "f" => Server(c) = Main
         /\ \A d : Server(c) # Script(d)
  BY Distinct DEF Server

-----------------------------------------------------------------------------
\* The actions, by what they leave alone.

\* Where a handler is before, and after, a step that concerns no process.
InnerLabels ==
  Labels \ {"backlog", "accepted", "copy_addr", "read", "done", "lost"}

\* A step of the handler of c between read and close.
Inner(c) ==
  /\ \E from \in InnerLabels \cup {"read"}, to \in InnerLabels : Step(c, from, to)
  /\ at[c] = "wait" => WaitedFor(c)
  /\ UNCHANGED <<constVars, loopVars, procVars, addr>>

\* Every branch of handleClient is an inner step, except the ones that start or
\* end a process, read the request or close.
LEMMA InnerSteps ==
  ASSUME NEW c \in Clients
  PROVE  /\ handleClient(c) => \/ CopyAddr(c) \/ ReadRequest(c) \/ ForkScript(c) \/ Close(c)
                               \/ BrokenPipe(c) \/ (Inner(c) /\ UNCHANGED log)
         /\ ReadRequest(c) => Inner(c)
  <1> USE DEF InnerLabels, Labels, Inner
  <1>1. ASSUME NEW from \in InnerLabels \ {"wait"}, NEW to \in InnerLabels, Respond(c, from, to)
        PROVE  Inner(c) /\ UNCHANGED log
    BY <1>1, Zenon DEF Respond, Step
  <1>2. Refuse(c) => Inner(c) /\ UNCHANGED log
    BY <1>1 DEF Refuse
  <1>3. handleStats(c) \/ handleLogs(c) => Inner(c) /\ UNCHANGED log
    BY <1>1 DEF handleStats, handleLogs
  <1>4. Redirect(c) \/ NotFound(c) \/ OpendirFails(c) \/ ListDirectory(c) \/ OpenFile(c)
          => Inner(c) /\ UNCHANGED log
    BY <1>1 DEF Redirect, NotFound, OpendirFails, ListDirectory, OpenFile
  <1>5. ReadNothing(c) \/ ForkScriptFails(c) \/ WaitScript(c) \/ OpenFails(c)
          => Inner(c) /\ UNCHANGED log
    BY DEF ReadNothing, ForkScriptFails, WaitScript, OpenFails, Step
  <1>6. Stat(c) => Inner(c) /\ UNCHANGED log
    BY Zenon DEF Stat, Step
  <1>7. CopyFile(c) \/ CopyEnds(c) \/ CopyFails(c) => Inner(c) /\ UNCHANGED log
    BY DEF CopyFile, CopyEnds, CopyFails, CopyStops, Step
  <1>8. CountLoad(c) \/ CountStore(c) => Inner(c) /\ UNCHANGED log
    BY DEF CountLoad, CountStore, Step
  <1>9. CountExtremes(c) => Inner(c) /\ UNCHANGED log
    BY DEF CountExtremes, TestExtreme, SetExtreme, Step
  <1>10. ReadRequest(c) => Inner(c)
    BY Zenon DEF ReadRequest, Branch, Step
  <1> QED
    BY <1>2, <1>3, <1>4, <1>5, <1>6, <1>7, <1>8, <1>9, <1>10 DEF handleClient

\* A step of the world that concerns neither a process nor a handler.
Outside == UNCHANGED <<constVars, loopVars, procVars, at, addr, log>>

\* All steps.
LEMMA NextCases ==
  ASSUME [Next]_vars
  PROVE  \/ Start \/ StartFails \/ Outside
         \/ \E c \in Clients :
              \/ AcceptIterative(c) \/ AcceptFork(c) \/ Fork(c) \/ ForkFails(c) \/ Parent(c)
              \/ AcceptThread(c) \/ ThreadFails(c) \/ AcceptPool(c) \/ CopyAddr(c)
              \/ ReadRequest(c) \/ ForkScript(c) \/ ScriptEnds(c) \/ Close(c)
              \/ BrokenPipe(c) \/ (Inner(c) /\ UNCHANGED log)
  <1>1. \A c \in Clients : SendRequest(c) \/ Leave(c) \/ Stall(c) \/ Resume(c) => Outside
    BY DEF SendRequest, Leave, Stall, Resume, Outside
  <1>2. Resize \/ Quiescent \/ AcceptFails \/ UNCHANGED vars => Outside
    BY DEF Resize, Quiescent, AcceptFails, vars, Outside
  <1> QED
    BY <1>1, <1>2, InnerSteps DEF Next, Loop

-----------------------------------------------------------------------------
\* Types.

ProcessTypes ==
  /\ main \in {"start", "accept", "fork", "parent", "exited"} \X (Clients \cup {NoClient})
  /\ alive \subseteq Processes /\ zombies \subseteq Children \ alive
  /\ holders \in [Clients -> SUBSET alive]
  /\ at \in [Clients -> Labels] /\ addr \in [Clients -> Clients \cup {NoClient}]
  /\ clientAddr \in Clients \cup {NoClient} /\ peak \in Nat

\* A client's child starts with Fork and ends with Close or a broken pipe, and
\* only mode 'f' has any; the descriptors of the server need a server.
Lifecycle ==
  /\ \A c \in Clients :
       /\ at[c] \in {"backlog", "accepted"} => Child(c) \notin alive \cup zombies
       /\ mode = "f" /\ at[c] \notin {"backlog", "accepted", "done", "lost"}
            => Child(c) \in alive
       /\ main = <<"fork", c>> => at[c] = "accepted"
  /\ main[1] \in {"fork", "parent"} => mode = "f"
  /\ main[1] # "exited" => Main \in alive

Basic == ProcessTypes /\ Lifecycle

\* The end of a process that is a server or a script.
LEMMA ExitKeeps ==
  ASSUME Basic, NEW p, NEW status \in {"done", "lost"}, Exits(p, status)
  PROVE  /\ alive' \subseteq Processes /\ zombies' \subseteq Children \ alive'
         /\ holders' \in [Clients -> SUBSET alive'] /\ at' \in [Clients -> Labels]
         /\ \A c \in Clients : at'[c] = (IF Server(c) = p /\ at[c] # "backlog" THEN status
                                                                          ELSE at[c])
         /\ alive' = alive \ {p} /\ zombies \subseteq zombies'
         /\ zombies' \subseteq zombies \cup {p}
  BY DEF Basic, ProcessTypes, Exits, Labels, Children

\* The server ends, and with it all its threads.
LEMMA ExitMain ==
  ASSUME Basic, NEW status \in {"done", "lost"}, Exits(Main, status),
         main' = <<"exited", NoClient>>, UNCHANGED <<mode, addr, clientAddr, peak>>
  PROVE  Basic'
  <1>1. ProcessTypes'
    BY ExitKeeps DEF Basic, ProcessTypes
  <1>2. alive' = alive \ {Main} /\ zombies' = zombies
    BY Distinct DEF Exits
  <1>3. ASSUME NEW c \in Clients
        PROVE  at'[c] = at[c] \/ (at'[c] = status /\ mode # "f")
    BY <1>3, ExitKeeps, Distinct DEF Server
  <1>4. Lifecycle'
    BY <1>2, <1>3, Distinct DEF Basic, Lifecycle
  <1> QED
    BY <1>1, <1>4 DEF Basic

\* A child ends: it becomes a zombie and its client's handler is over.
LEMMA ExitChild ==
  ASSUME Basic, NEW c \in Clients, NEW status \in {"done", "lost"}, mode = "f",
         at[c] \notin {"backlog", "accepted", "done", "lost"},
         Exits(Child(c), status), UNCHANGED <<mode, main, clientAddr, peak>>,
         addr' \in [Clients -> Clients \cup {NoClient}]
  PROVE  Basic'
  <1>1. ProcessTypes'
    BY ExitKeeps DEF Basic, ProcessTypes
  <1>2. alive' = alive \ {Child(c)} /\ zombies' = zombies \cup {Child(c)}
    BY DEF Exits
  <1>3. \A d \in Clients : at'[d] = IF d = c THEN status ELSE at[d]
    BY ExitKeeps, ServerFacts, Distinct
  <1>4. Lifecycle'
    BY <1>2, <1>3, Distinct DEF Basic, Lifecycle
  <1> QED
    BY <1>1, <1>4 DEF Basic

\* A script ends: no handler moves.
LEMMA ExitScript ==
  ASSUME Basic, NEW c \in Clients, Exits(Script(c), "done"),
         UNCHANGED <<mode, main, clientAddr, peak, addr>>
  PROVE  Basic' /\ at' = at
  <1>1. ProcessTypes'
    BY ExitKeeps DEF Basic, ProcessTypes
  <1>2. alive' = alive \ {Script(c)} /\ zombies' = zombies
    BY Distinct DEF Exits
  <1>3. \A d \in Clients : at'[d] = at[d]
    BY ExitKeeps, ServerFacts
  <1>4. at' = at
    BY <1>3, ExitKeeps DEF Basic, ProcessTypes
  <1>5. Lifecycle'
    BY <1>2, <1>4, Distinct DEF Basic, Lifecycle
  <1> QED
    BY <1>1, <1>4, <1>5 DEF Basic

\* A step of one handler that starts and ends no server process.
LEMMA HandlerKeeps ==
  ASSUME Basic, NEW c \in Clients, NEW from \in Labels, NEW to \in Labels,
         Step(c, from, to), from \notin {"backlog", "accepted", "done", "lost"},
         to \notin {"backlog", "accepted"},
         UNCHANGED <<mode, main, zombies, peak>>,
         clientAddr' \in Clients \cup {NoClient},
         addr' \in [Clients -> Clients \cup {NoClient}],
         alive' \in {alive, alive \cup {Script(c)}},
         holders' \in [Clients -> SUBSET alive']
  PROVE  Basic'
  <1>1. /\ at' \in [Clients -> Labels] /\ at[c] = from
        /\ \A d \in Clients : at'[d] = IF d = c THEN to ELSE at[d]
    BY DEF Step, Basic, ProcessTypes
  <1>2. alive' \subseteq Processes /\ zombies' \subseteq Children \ alive'
    BY Distinct DEF Basic, ProcessTypes, Processes, Scripts, Children
  <1>3. ProcessTypes'
    BY <1>1, <1>2 DEF Basic, ProcessTypes
  <1>4. Lifecycle'
    BY <1>1, Distinct DEF Basic, Lifecycle
  <1> QED
    BY <1>3, <1>4 DEF Basic

\* accept, by whatever thread: the connection gets its first descriptor.
LEMMA AcceptKeeps ==
  ASSUME Basic, NEW c \in Clients, NEW to \in {"read", "accepted", "copy_addr"},
         Accept(c), Step(c, "backlog", to), mode = "f" <=> to = "accepted",
         main' = IF to = "accepted" THEN <<"fork", c>> ELSE main,
         addr' \in [Clients -> Clients \cup {NoClient}]
  PROVE  Basic'
  <1>1. /\ at' \in [Clients -> Labels] /\ at[c] = "backlog"
        /\ \A d \in Clients : at'[d] = IF d = c THEN to ELSE at[d]
    BY DEF Step, Basic, ProcessTypes, Labels
  <1>2. /\ main[1] = "accept" /\ Main \in alive /\ UNCHANGED <<mode, alive, zombies, peak>>
        /\ holders' = [holders EXCEPT ![c] = {Main}] /\ clientAddr' = c
    BY DEF Accept, Acceptable, InAccept, constVars, Basic, Lifecycle
  <1>3. main' \in {"start", "accept", "fork", "parent", "exited"} \X (Clients \cup {NoClient})
    BY DEF Basic, ProcessTypes
  <1>4. ProcessTypes'
    BY <1>1, <1>2, <1>3 DEF Basic, ProcessTypes
  <1>5. \A d \in Clients : main' = <<"fork", d>> => at'[d] = "accepted"
    BY <1>1, <1>2
  <1>6. Lifecycle'
    BY <1>1, <1>2, <1>5 DEF Basic, Lifecycle
  <1> QED
    BY <1>4, <1>6 DEF Basic

\* Every step keeps the types and the life cycle of children.
LEMMA BasicStep ==
  ASSUME Basic, [Next]_vars
  PROVE  Basic'
  <1> USE DEF constVars, loopVars, procVars
  <1>1. CASE Start
    <2>1. CASE mode \in {"i", "f", "t", "p"}
      <3>1. main[1] = "start" /\ main' = <<"accept", NoClient>>
            /\ UNCHANGED <<mode, alive, zombies, holders, peak, at, clientAddr, addr>>
        BY <1>1, <2>1 DEF Start
      <3> QED
        BY <3>1 DEF Basic, ProcessTypes, Lifecycle
    <2>2. CASE mode \notin {"i", "f", "t", "p"}
      BY <1>1, <2>2, ExitMain DEF Start
    <2> QED
      BY <2>1, <2>2
  <1>2. CASE StartFails
    BY <1>2, ExitMain DEF StartFails
  <1>3. CASE Outside
    BY <1>3 DEF Outside, Basic, ProcessTypes, Lifecycle
  <1>4. ASSUME NEW c \in Clients, AcceptIterative(c)
        PROVE  Basic'
    BY <1>4, AcceptKeeps DEF AcceptIterative, Basic, ProcessTypes
  <1>5. ASSUME NEW c \in Clients, AcceptFork(c)
        PROVE  Basic'
    BY <1>5, AcceptKeeps DEF AcceptFork, Basic, ProcessTypes
  <1>6. ASSUME NEW c \in Clients, Fork(c)
        PROVE  Basic'
    <2>1. /\ main = <<"fork", c>> /\ main' = <<"parent", c>> /\ alive' = alive \cup {Child(c)}
          /\ holders' = Inherit(Main, Child(c), holders) /\ Step(c, "accepted", "read")
          /\ addr' = [addr EXCEPT ![c] = clientAddr]
          /\ UNCHANGED <<mode, zombies, clientAddr>>
      BY <1>6 DEF Fork
    <2>2. mode = "f" /\ Child(c) \notin zombies /\ at[c] = "accepted"
      BY <2>1 DEF Basic, Lifecycle
    <2>3. /\ at' \in [Clients -> Labels]
          /\ \A d \in Clients : at'[d] = IF d = c THEN "read" ELSE at[d]
      BY <2>1 DEF Step, Basic, ProcessTypes, Labels
    <2>4. peak' \in Nat
      <3>1. Children \in SUBSET Children /\ IsFiniteSet(Children)
        BY FiniteChildren
      <3>2. Cardinality(alive' \cap Children) \in Nat
        BY <3>1, FS_Subset, FS_CardinalityType
      <3> QED
        BY <1>6, <3>2 DEF Fork, Basic, ProcessTypes
    <2>5. holders' \in [Clients -> SUBSET alive']
      BY <2>1 DEF Inherit, Basic, ProcessTypes
    <2>6. alive' \subseteq Processes /\ zombies' \subseteq Children \ alive'
      BY <2>1, <2>2 DEF Basic, ProcessTypes, Processes, Children
    <2>7. ProcessTypes'
      BY <2>1, <2>3, <2>4, <2>5, <2>6, Zenon DEF Basic, ProcessTypes
    <2>8. Lifecycle'
      BY <2>1, <2>2, <2>3, Distinct DEF Basic, Lifecycle
    <2> QED
      BY <2>7, <2>8 DEF Basic
  <1>7. ASSUME NEW c \in Clients, ForkFails(c)
        PROVE  Basic'
    <2>1. /\ main = <<"fork", c>> /\ main' = <<"accept", NoClient>>
          /\ holders' = [holders EXCEPT ![c] = @ \ {Main}] /\ Step(c, "accepted", "done")
          /\ UNCHANGED <<mode, alive, zombies, peak, clientAddr, addr>>
      BY <1>7 DEF ForkFails
    <2>2. /\ at' \in [Clients -> Labels]
          /\ \A d \in Clients : at'[d] = IF d = c THEN "done" ELSE at[d]
      BY <2>1 DEF Step, Basic, ProcessTypes, Labels
    <2>3. ProcessTypes'
      BY <2>1, <2>2, Zenon DEF Basic, ProcessTypes
    <2>4. Lifecycle'
      BY <2>1, <2>2 DEF Basic, Lifecycle
    <2> QED
      BY <2>3, <2>4 DEF Basic
  <1>8. ASSUME NEW c \in Clients, Parent(c)
        PROVE  Basic'
    <2>1. /\ main = <<"parent", c>> /\ main' = <<"accept", NoClient>>
          /\ holders' = [holders EXCEPT ![c] = @ \ {Main}] /\ zombies' \subseteq zombies
          /\ UNCHANGED <<mode, alive, peak, clientAddr, addr, at>>
      BY <1>8 DEF Parent, Reap
    <2>2. ProcessTypes'
      BY <2>1 DEF Basic, ProcessTypes
    <2>3. Lifecycle'
      BY <2>1 DEF Basic, Lifecycle
    <2> QED
      BY <2>2, <2>3 DEF Basic
  <1>9. ASSUME NEW c \in Clients, AcceptThread(c)
        PROVE  Basic'
    <2>1. addr' \in [Clients -> Clients \cup {NoClient}]
      BY <1>9 DEF AcceptThread, Basic, ProcessTypes
    <2>2. Accept(c) /\ Step(c, "backlog", "read") /\ UNCHANGED main /\ mode = "t"
      BY <1>9 DEF AcceptThread, ThreadStartsAt
    <2> QED
      BY <2>1, <2>2, AcceptKeeps
  <1>10. ASSUME NEW c \in Clients, ThreadFails(c)
         PROVE  Basic'
    BY <1>10, ExitMain DEF ThreadFails
  <1>11. ASSUME NEW c \in Clients, AcceptPool(c)
         PROVE  Basic'
    BY <1>11, AcceptKeeps DEF AcceptPool, Basic, ProcessTypes
  <1>12. ASSUME NEW c \in Clients, CopyAddr(c)
         PROVE  Basic'
    <2>1. /\ Step(c, "copy_addr", "read") /\ alive' = alive /\ holders' = holders
          /\ UNCHANGED <<mode, main, zombies, peak, clientAddr>>
          /\ addr' = [addr EXCEPT ![c] = clientAddr]
      BY <1>12, Zenon DEF CopyAddr, constVars, loopVars, procVars
    <2>2. /\ clientAddr' \in Clients \cup {NoClient}
          /\ addr' \in [Clients -> Clients \cup {NoClient}]
          /\ holders' \in [Clients -> SUBSET alive']
      BY <2>1, Zenon DEF Basic, ProcessTypes
    <2>3. "copy_addr" \in Labels /\ "read" \in Labels
      BY DEF Labels
    <2> QED
      BY <2>1, <2>2, <2>3, HandlerKeeps
  <1>13. ASSUME NEW c \in Clients, Inner(c)
         PROVE  Basic'
    <2>1. PICK from \in InnerLabels \cup {"read"}, to \in InnerLabels : Step(c, from, to)
      BY <1>13 DEF Inner
    <2>2. /\ from \in Labels \ {"backlog", "accepted", "done", "lost"}
          /\ to \in Labels \ {"backlog", "accepted"}
      BY DEF InnerLabels, Labels
    <2>3. /\ UNCHANGED <<mode, main, zombies, peak, alive, holders, clientAddr, addr>>
          /\ holders \in [Clients -> SUBSET alive]
      BY <1>13 DEF Inner, Basic, ProcessTypes
    <2> QED
      BY <2>1, <2>2, <2>3, HandlerKeeps DEF Basic, ProcessTypes
  <1>14. ASSUME NEW c \in Clients, ForkScript(c)
         PROVE  Basic'
    <2>1. holders' \in [Clients -> SUBSET alive']
      BY <1>14 DEF ForkScript, Inherit, Basic, ProcessTypes
    <2> QED
      <3>1. /\ Step(c, "/cgi-bin/", "wait") /\ alive' = alive \cup {Script(c)}
            /\ UNCHANGED <<mode, main, zombies, peak, clientAddr, addr>>
        BY <1>14, Zenon DEF ForkScript
      <3>2. /\ "/cgi-bin/" \in Labels /\ "/cgi-bin/" \notin {"backlog", "accepted", "done", "lost"}
            /\ "wait" \in Labels /\ "wait" \notin {"backlog", "accepted"}
        BY DEF Labels
      <3>3. /\ clientAddr' \in Clients \cup {NoClient}
            /\ addr' \in [Clients -> Clients \cup {NoClient}]
        BY <3>1, Zenon DEF Basic, ProcessTypes
      <3> QED
        BY <2>1, <3>1, <3>2, <3>3, HandlerKeeps, Zenon
  <1>15. ASSUME NEW c \in Clients, ScriptEnds(c)
         PROVE  Basic'
    BY <1>15, ExitScript DEF ScriptEnds
  <1>16. ASSUME NEW c \in Clients, Close(c)
         PROVE  Basic'
    <2>1. /\ at[c] = "close" /\ addr' \in [Clients -> Clients \cup {NoClient}]
          /\ UNCHANGED <<mode, main, clientAddr, peak>>
      BY <1>16, Zenon DEF Close, Basic, ProcessTypes
    <2>2. CASE mode = "f"
      BY <1>16, <2>1, <2>2, ExitChild DEF Close
    <2>3. CASE mode # "f"
      <3>1. holders' \in [Clients -> SUBSET alive']
        <4>1. holders' = [holders EXCEPT ![c] = @ \ {Main}] /\ alive' = alive
          BY <1>16, <2>3, Zenon DEF Close
        <4>2. holders \in [Clients -> SUBSET alive]
          BY Zenon DEF Basic, ProcessTypes
        <4> HIDE <1>16
        <4> QED
          BY <4>1, <4>2
      <3> QED
        BY <1>16, <2>1, <2>3, <3>1, HandlerKeeps, Zenon DEF Close, Basic, ProcessTypes, Labels
    <2> QED
      BY <2>2, <2>3
  <1>17. ASSUME NEW c \in Clients, BrokenPipe(c)
         PROVE  Basic'
    <2>1. /\ at[c] \notin {"backlog", "accepted", "done", "lost"} /\ Exits(Server(c), "lost")
          /\ main' = (IF Server(c) = Main THEN <<"exited", NoClient>> ELSE main)
          /\ UNCHANGED <<mode, clientAddr, peak, addr>>
      BY <1>17 DEF BrokenPipe, Sending
    <2>2. CASE mode = "f"
      <3>1. Server(c) = Child(c) /\ Child(c) # Main
        BY <2>2, ServerFacts, Distinct, Zenon
      <3>2. UNCHANGED <<mode, main, clientAddr, peak, addr>> /\ Exits(Child(c), "lost")
        BY <2>1, <3>1, Zenon
      <3>3. addr' \in [Clients -> Clients \cup {NoClient}]
        BY <3>2, Zenon DEF Basic, ProcessTypes
      <3> QED
        BY <2>1, <2>2, <3>2, <3>3, ExitChild, Zenon
    <2>3. CASE mode # "f"
      BY <2>1, <2>3, ServerFacts, ExitMain
    <2> QED
      BY <2>2, <2>3
  <1> QED
    BY <1>1, <1>2, <1>3, <1>4, <1>5, <1>6, <1>7, <1>8, <1>9, <1>10, <1>11, <1>12, <1>13,
       <1>14, <1>15, <1>16, <1>17, NextCases, InnerSteps

\* Types and life cycle together are inductive.
LEMMA BasicAlways == SafeSpec => []Basic
  <1>1. Init => Basic
    <2> SUFFICES ASSUME Init PROVE Basic
      OBVIOUS
    <2>1. PICK s \in Scenarios :
            at = [c \in Clients |-> IF c \in s.clients THEN "backlog" ELSE "done"]
      BY Zenon DEF Init
    <2>2. ProcessTypes
      BY <2>1 DEF Init, ProcessTypes, Labels, Processes
    <2>3. Lifecycle
      BY <2>1, Distinct DEF Init, Lifecycle
    <2> QED
      BY <2>2, <2>3 DEF Basic
  <1> QED
    BY <1>1, BasicStep, PTL DEF SafeSpec

-----------------------------------------------------------------------------
\* Children of mode 'f'.

Mine == (alive \cap Children) \cup zombies

\* One more than ever ran at once only between fork and waitpid.
ReapedInTime ==
  /\ Cardinality(alive \cap Children) <= peak
  /\ Cardinality(Mine) <= IF main[1] = "parent" THEN peak + 1 ELSE peak

\* The children, running or not, are finitely many.
LEMMA MineFacts ==
  ASSUME Basic
  PROVE  /\ IsFiniteSet(Mine) /\ Cardinality(Mine) \in Nat
         /\ IsFiniteSet(alive \cap Children) /\ Cardinality(alive \cap Children) \in Nat
         /\ peak \in Nat
  <1>1. Mine \in SUBSET Children /\ alive \cap Children \in SUBSET Children
    BY DEF Basic, ProcessTypes, Mine
  <1> QED
    BY <1>1, FiniteChildren, FS_Subset, FS_CardinalityType DEF Basic, ProcessTypes

\* A step that adds no child and moves none out of the parent's reach.
LEMMA Steady ==
  ASSUME Basic, Basic', ReapedInTime, Mine' = Mine, peak' = peak,
         alive' \cap Children \subseteq alive, main[1] = "parent" => main'[1] = "parent"
  PROVE  ReapedInTime'
  <1>1. Cardinality(alive' \cap Children) <= Cardinality(alive \cap Children)
    <2>1. alive' \cap Children \in SUBSET (alive \cap Children)
      OBVIOUS
    <2> QED
      BY <2>1, MineFacts, FS_Subset
  <1>2. Cardinality(alive' \cap Children) \in Nat
    <2>1. alive' \cap Children \in SUBSET Children
      OBVIOUS
    <2> QED
      BY <2>1, FiniteChildren, FS_Subset, FS_CardinalityType
  <1> QED
    BY <1>1, <1>2, MineFacts DEF ReapedInTime

\* Fork adds one child, the waitpid that follows it takes one if there is one to
\* take, and nothing else changes their number.
LEMMA ReapedStep ==
  ASSUME Basic, Basic', ReapedInTime, [Next]_vars
  PROVE  ReapedInTime'
  <1> USE DEF constVars, loopVars, procVars
  <1>1. ASSUME NEW c \in Clients, Fork(c)
        PROVE  ReapedInTime'
    <2>1. /\ main = <<"fork", c>> /\ main' = <<"parent", c>>
          /\ alive' \cap Children = (alive \cap Children) \cup {Child(c)}
          /\ zombies' = zombies
      BY <1>1 DEF Fork, Children
    <2>2. Child(c) \notin alive
      BY <2>1 DEF Basic, Lifecycle
    <2>3. Mine' = Mine \cup {Child(c)}
      BY <2>1 DEF Mine
    <2>4. /\ Cardinality(Mine') \in Nat /\ Cardinality(Mine') <= Cardinality(Mine) + 1
          /\ Cardinality(alive' \cap Children) \in Nat
      <3>1. Cardinality(alive' \cap Children) = Cardinality(alive \cap Children) + 1
        BY <2>1, <2>2, MineFacts, FS_AddElement, Zenon
      <3>2. Cardinality(Mine') \in {Cardinality(Mine), Cardinality(Mine) + 1}
        BY <2>3, MineFacts, FS_AddElement, Zenon
      <3> QED
        BY <3>1, <3>2, MineFacts
    <2>5. peak' = LET running == Cardinality(alive' \cap Children)
                  IN IF running > peak THEN running ELSE peak
      BY <1>1 DEF Fork
    <2>6. peak' >= Cardinality(alive' \cap Children) /\ peak' >= peak /\ peak' \in Nat
      BY <2>4, <2>5, MineFacts
    <2>7. Cardinality(Mine) <= peak
      BY <2>1 DEF ReapedInTime
    <2>8. Cardinality(Mine') <= peak' + 1
      BY <2>4, <2>6, <2>7, MineFacts
    <2> QED
      BY <2>1, <2>6, <2>8 DEF ReapedInTime
  <1>2. ASSUME NEW c \in Clients, Parent(c)
        PROVE  ReapedInTime'
    <2>1. /\ main = <<"parent", c>> /\ main' = <<"accept", NoClient>>
          /\ UNCHANGED <<alive, peak>> /\ Reap
      BY <1>2 DEF Parent
    <2>2. CASE zombies = {}
      <3>1. Mine' = alive \cap Children
        BY <2>1, <2>2 DEF Reap, Mine
      <3> QED
        BY <2>1, <3>1 DEF ReapedInTime
    <2>3. CASE zombies # {}
      <3>1. PICK z \in zombies : zombies' = zombies \ {z}
        BY <2>1, <2>3 DEF Reap
      <3>2. Mine' = Mine \ {z} /\ z \in Mine
        BY <2>1, <3>1 DEF Mine, Basic, ProcessTypes
      <3>3. Cardinality(Mine') = Cardinality(Mine) - 1
        BY <3>2, MineFacts, FS_RemoveElement, Zenon
      <3> QED
        BY <2>1, <3>3, MineFacts DEF ReapedInTime
    <2> QED
      BY <2>2, <2>3
  <1>3. ASSUME Exits(Main, "lost"), main[1] # "parent", peak' = peak
        PROVE  ReapedInTime'
    <2>1. alive' = alive \ {Main} /\ zombies' = zombies
      BY <1>3, Distinct DEF Exits
    <2>2. Main \notin Children
      BY Distinct DEF Children
    <2> QED
      BY <1>3, <2>1, <2>2, Steady DEF Mine
  <1>4. ASSUME NEW c \in Clients, NEW status, Exits(Child(c), status), Child(c) \in alive,
               UNCHANGED <<main, peak>>
        PROVE  ReapedInTime'
    <2>1. alive' = alive \ {Child(c)} /\ zombies' = zombies \cup {Child(c)}
      BY <1>4 DEF Exits
    <2>2. Child(c) \in Children
      BY DEF Children
    <2> QED
      BY <1>4, <2>1, <2>2, Steady DEF Mine
  <1>5. CASE Start \/ StartFails
    BY <1>3, <1>5, Steady DEF Start, StartFails, Mine
  <1>6. CASE Outside
    BY <1>6, Steady DEF Outside, Mine
  <1>7. ASSUME NEW c \in Clients, UNCHANGED <<alive, zombies, peak>>,
               main[1] = "parent" => main'[1] = "parent"
        PROVE  ReapedInTime'
    BY <1>7, Steady DEF Mine
  <1>8. ASSUME NEW c \in Clients,
               AcceptIterative(c) \/ AcceptFork(c) \/ AcceptThread(c) \/ AcceptPool(c)
        PROVE  ReapedInTime'
    <2>1. Accept(c)
      BY <1>8, Zenon DEF AcceptIterative, AcceptFork, AcceptThread, AcceptPool
    <2>2. main[1] = "accept" /\ UNCHANGED <<alive, zombies, peak>>
      BY <2>1, Zenon DEF Accept, Acceptable, InAccept
    <2> QED
      BY <1>7, <2>2
  <1>9. ASSUME NEW c \in Clients, ForkFails(c)
        PROVE  ReapedInTime'
    BY <1>7, <1>9 DEF ForkFails
  <1>10. ASSUME NEW c \in Clients, CopyAddr(c) \/ Inner(c)
         PROVE  ReapedInTime'
    BY <1>7, <1>10, Zenon DEF CopyAddr, Inner
  <1>11. ASSUME NEW c \in Clients, ThreadFails(c)
         PROVE  ReapedInTime'
    BY <1>3, <1>11 DEF ThreadFails, Acceptable, InAccept
  <1>12. ASSUME NEW c \in Clients, ForkScript(c) \/ ScriptEnds(c)
         PROVE  ReapedInTime'
    <2>1. Script(c) \notin Children /\ \A d : Child(d) # Script(c)
      BY Distinct DEF Children
    <2>2. /\ alive' \cap Children = alive \cap Children /\ zombies' = zombies
          /\ UNCHANGED <<main, peak>>
      BY <1>12, <2>1, Zenon DEF ForkScript, ScriptEnds, Exits
    <2> QED
      BY <2>2, Steady DEF Mine
  <1>13. ASSUME NEW c \in Clients, Close(c)
         PROVE  ReapedInTime'
    <2>1. CASE mode = "f"
      BY <1>4, <1>13, <2>1, Zenon DEF Close, Basic, Lifecycle
    <2>2. CASE mode # "f"
      BY <1>7, <1>13, <2>2 DEF Close
    <2> QED
      BY <2>1, <2>2
  <1>14. ASSUME NEW c \in Clients, BrokenPipe(c)
         PROVE  ReapedInTime'
    <2>1. /\ at[c] \notin {"backlog", "accepted", "done", "lost"} /\ Exits(Server(c), "lost")
          /\ main' = (IF Server(c) = Main THEN <<"exited", NoClient>> ELSE main)
          /\ peak' = peak
      BY <1>14 DEF BrokenPipe, Sending
    <2>2. CASE mode = "f"
      <3>1. Server(c) = Child(c) /\ Child(c) \in alive
        BY <2>1, <2>2, ServerFacts, Zenon DEF Basic, Lifecycle
      <3>2. Server(c) # Main
        BY <3>1, Distinct, Zenon
      <3>3. UNCHANGED <<main, peak>>
        BY <2>1, <3>2, Zenon
      <3> QED
        BY <1>4, <2>1, <3>1, <3>3, Zenon
    <2>3. CASE mode # "f"
      BY <1>3, <2>1, <2>3, ServerFacts, Zenon DEF Basic, Lifecycle
    <2> QED
      BY <2>2, <2>3
  <1> QED
    BY <1>1, <1>2, <1>5, <1>6, <1>8, <1>9, <1>10, <1>11, <1>12, <1>13, <1>14,
       NextCases, InnerSteps

\* In mode 'f' the one waitpid per accept keeps up: for any number of clients,
\* the children that run or wait to be reaped are never more than one above the
\* most that ever ran at once.
THEOREM ChildrenReaped == SafeSpec => []ChildrenBounded
  <1>1. Init => ReapedInTime
    <2> SUFFICES ASSUME Init PROVE ReapedInTime
      OBVIOUS
    <2>1. alive \cap Children = {} /\ Mine = {} /\ peak = 0
      BY Distinct DEF Init, Mine, Children
    <2>2. Cardinality(alive \cap Children) = 0 /\ Cardinality(Mine) = 0
      BY <2>1, FS_EmptySet
    <2> QED
      BY <2>1, <2>2 DEF ReapedInTime
  <1>2. Basic /\ ReapedInTime => ChildrenBounded
    BY MineFacts DEF ReapedInTime, ChildrenBounded, Mine
  <1> QED
    BY <1>1, <1>2, BasicAlways, ReapedStep, PTL DEF SafeSpec

-----------------------------------------------------------------------------
\* The log.

\* Outside the pool, a handler that has still to read has its own client's
\* address, and clientAddr is not overwritten between accept and fork.
AddressKnown ==
  mode # "p" =>
    /\ log[1] = log[2]
    /\ \A c \in Clients : /\ at[c] = "read" => addr[c] = c
                          /\ at[c] # "copy_addr"
                          /\ main = <<"fork", c>> => clientAddr = c

\* Every step keeps the addresses right.
LEMMA AddressStep ==
  ASSUME Basic, AddressKnown, [Next]_vars
  PROVE  AddressKnown'
  <1> USE DEF constVars, loopVars, procVars
  <1> SUFFICES ASSUME mode' # "p" PROVE AddressKnown'
    BY Zenon DEF AddressKnown
  <1>0. at \in [Clients -> Labels] /\ addr \in [Clients -> Clients \cup {NoClient}]
    BY DEF Basic, ProcessTypes
  <1>1. ASSUME UNCHANGED <<mode, addr, log, clientAddr>>,
               \A c \in Clients : at'[c] \in {"read", "copy_addr"} => at'[c] = at[c],
               \A c \in Clients : main' = <<"fork", c>> => main = <<"fork", c>>
        PROVE  AddressKnown'
    BY <1>1 DEF AddressKnown
  <1>2. ASSUME NEW p, NEW status \in {"done", "lost"}, Exits(p, status)
        PROVE  \A c \in Clients : at'[c] \in {"read", "copy_addr"} => at'[c] = at[c]
    BY <1>2 DEF Exits
  <1>3. CASE Start \/ StartFails
    BY <1>1, <1>2, <1>3 DEF Start, StartFails
  <1>4. CASE Outside
    BY <1>1, <1>4 DEF Outside
  <1>5. ASSUME NEW c \in Clients, AcceptIterative(c) \/ AcceptThread(c)
        PROVE  AddressKnown'
    <2>1. /\ at' = [at EXCEPT ![c] = "read"] /\ addr' = [addr EXCEPT ![c] = c]
          /\ UNCHANGED <<mode, main, log>> /\ main[1] = "accept"
      BY <1>5
      DEF AcceptIterative, AcceptThread, ThreadStartsAt, Accept, Acceptable, InAccept, Step
    <2> QED
      BY <1>0, <2>1 DEF AddressKnown
  <1>6. ASSUME NEW c \in Clients, AcceptFork(c)
        PROVE  AddressKnown'
    <2>1. /\ at' = [at EXCEPT ![c] = "accepted"] /\ main' = <<"fork", c>> /\ clientAddr' = c
          /\ UNCHANGED <<mode, addr, log>>
      BY <1>6 DEF AcceptFork, Accept, Step
    <2> QED
      BY <1>0, <2>1 DEF AddressKnown
  <1>7. ASSUME NEW c \in Clients, Fork(c)
        PROVE  AddressKnown'
    <2>1. /\ at' = [at EXCEPT ![c] = "read"] /\ addr' = [addr EXCEPT ![c] = clientAddr]
          /\ UNCHANGED <<mode, clientAddr, log>>
          /\ main = <<"fork", c>> /\ main' = <<"parent", c>>
      BY <1>7 DEF Fork, Step
    <2> QED
      BY <1>0, <2>1 DEF AddressKnown
  <1>8. ASSUME NEW c \in Clients, ForkFails(c) \/ Parent(c)
        PROVE  AddressKnown'
    BY <1>0, <1>1, <1>8 DEF ForkFails, Parent, Step
  <1>9. ASSUME NEW c \in Clients, ThreadFails(c) \/ ScriptEnds(c)
        PROVE  AddressKnown'
    <2>1. CASE ThreadFails(c)
      <3>1. /\ Exits(Main, "lost") /\ UNCHANGED <<mode, addr, log, clientAddr>>
            /\ main' = <<"exited", NoClient>>
        BY <2>1, Zenon DEF ThreadFails
      <3>2. \A d \in Clients : main' # <<"fork", d>>
        BY <3>1
      <3> QED
        BY <1>1, <1>2, <3>1, <3>2, Zenon
    <2>2. CASE ScriptEnds(c)
      <3>1. Exits(Script(c), "done") /\ UNCHANGED <<mode, addr, log, clientAddr, main>>
        BY <2>2, Zenon DEF ScriptEnds
      <3> QED
        BY <1>1, <1>2, <3>1, Zenon
    <2> QED
      BY <1>9, <2>1, <2>2, Zenon
  <1>10. ASSUME NEW c \in Clients, CopyAddr(c)
         PROVE  AddressKnown'
    BY <1>10 DEF CopyAddr, Step, AddressKnown
  <1>11. ASSUME NEW c \in Clients, Inner(c), UNCHANGED log
         PROVE  AddressKnown'
    BY <1>0, <1>1, <1>11 DEF Inner, InnerLabels, Step
  <1>12. ASSUME NEW c \in Clients, ReadRequest(c)
         PROVE  AddressKnown'
    <2>1. /\ UNCHANGED <<mode, main, clientAddr, addr>> /\ at[c] = "read"
          /\ log' \in {log, <<c, addr[c]>>}
      BY <1>12, Zenon DEF ReadRequest, Step
    <2>2. \A d \in Clients : at'[d] \in {"read", "copy_addr"} => at'[d] = at[d]
      BY <1>0, <1>12, InnerSteps DEF Inner, InnerLabels, Step
    <2>3. mode # "p" /\ addr[c] = c
      BY <2>1, Zenon DEF AddressKnown
    <2>4. log'[1] = log'[2]
      <3>1. CASE log' = log
        BY <2>3, <3>1, Zenon DEF AddressKnown
      <3>2. CASE log' = <<c, addr[c]>>
        BY <2>3, <3>2
      <3> QED
        BY <2>1, <3>1, <3>2, Zenon
    <2> QED
      BY <2>1, <2>2, <2>3, <2>4, Zenon DEF AddressKnown
  <1>13. ASSUME NEW c \in Clients, ForkScript(c)
         PROVE  AddressKnown'
    BY <1>0, <1>1, <1>13 DEF ForkScript, Step
  <1>14. ASSUME NEW c \in Clients, Close(c)
         PROVE  AddressKnown'
    <2>1. /\ UNCHANGED <<mode, main, clientAddr, log>> /\ at[c] = "close"
          /\ addr' = [addr EXCEPT ![c] = NoClient]
      BY <1>14 DEF Close
    <2>2. \A d \in Clients : at'[d] \in {"read", "copy_addr"} => at'[d] = at[d] /\ d # c
      <3>1. CASE mode = "f"
        BY <1>2, <1>14, <2>1, <3>1, Zenon DEF Close
      <3>2. CASE mode # "f"
        BY <1>0, <1>14, <3>2 DEF Close, Step
      <3> QED
        BY <3>1, <3>2
    <2> QED
      BY <1>0, <2>1, <2>2, Zenon DEF AddressKnown
  <1>15. ASSUME NEW c \in Clients, BrokenPipe(c)
         PROVE  AddressKnown'
    BY <1>1, <1>2, <1>15, Zenon DEF BrokenPipe
  <1>16. ASSUME NEW c \in Clients, AcceptPool(c)
         PROVE  AddressKnown'
    BY <1>16 DEF AcceptPool, Accept
  <1> QED
    BY <1>3, <1>4, <1>5, <1>6, <1>7, <1>8, <1>9, <1>10, <1>11, <1>12, <1>13, <1>14, <1>15,
       <1>16, NextCases

\* Outside the pool every line of log.txt names the client whose request it
\* records, for any number of clients: the thread of mode 't' and the child of
\* mode 'f' have copied clientAddr before the next accept writes it.
THEOREM LogsRightClient == SafeSpec => []LogTruthful
  <1>1. Init => AddressKnown
    <2> SUFFICES ASSUME Init PROVE AddressKnown
      OBVIOUS
    <2>1. log[1] = log[2] /\ \A c \in Clients : main # <<"fork", c>>
      BY Zenon DEF Init
    <2>2. \A c \in Clients : at[c] \in {"backlog", "done"}
      BY Zenon DEF Init
    <2> QED
      BY <2>1, <2>2, Zenon DEF AddressKnown
  <1>2. AddressKnown => LogTruthful
    BY DEF AddressKnown, LogTruthful
  <1> QED
    BY <1>1, <1>2, BasicAlways, AddressStep, PTL DEF SafeSpec

-----------------------------------------------------------------------------
\* Who has a connection open.

Ended == {"backlog", "done", "lost"}

\* In the modes with one thread per process no process inherits a connection of
\* another client; a script lives no longer than the handler that waits for it.
Descriptors ==
  /\ \A c \in Clients :
       /\ Main \in holders[c] => IF mode = "f" THEN main \in {<<"fork", c>>, <<"parent", c>>}
                                             ELSE at[c] \notin Ended
       /\ Child(c) \in alive => mode = "f" /\ at[c] \notin {"done", "lost"}
       /\ Script(c) \in alive => at[c] \in {"wait", "lost"}
       /\ \A d \in Clients : Child(d) \in holders[c] => d = c
       /\ mode \notin {"t", "p"} => \A d \in Clients : Script(d) \in holders[c] => d = c
  /\ mode \notin {"f", "t", "p"} =>
       \A c, d \in Clients : at[c] \notin Ended /\ at[d] \notin Ended => c = d

\* From who may hold a connection to who does after close.
LEMMA DescriptorsSuffice == Basic /\ Descriptors => EofAfterClose
  <1> SUFFICES ASSUME Basic, Descriptors, NEW c \in Clients, at[c] = "done",
                      NEW p \in holders[c]
               PROVE  p \in IF mode = "f" THEN IF main = <<"parent", c>> THEN {Main} ELSE {}
                            ELSE IF mode \in {"t", "p"} THEN Scripts \ {Script(c)}
                            ELSE {}
    BY DEF EofAfterClose
  <1>1. p \in alive /\ p \in Processes
    BY DEF Basic, ProcessTypes
  <1>2. CASE p = Main
    BY <1>2, Zenon DEF Descriptors, Ended, Basic, Lifecycle
  <1>3. ASSUME NEW d \in Clients, p = Child(d)
        PROVE  FALSE
    BY <1>1, <1>3 DEF Descriptors
  <1>4. ASSUME NEW d \in Clients, p = Script(d)
        PROVE  mode \in {"t", "p"} /\ p \in Scripts \ {Script(c)}
    BY <1>1, <1>4 DEF Descriptors, Scripts
  <1> QED
    BY <1>1, <1>2, <1>3, <1>4 DEF Processes, Children, Scripts

\* Descriptors only go, and so do processes, while handlers do not come back
\* from where they ended.
LEMMA OnlyClosing ==
  ASSUME Basic, Basic', Descriptors, mode' = mode, alive' \subseteq alive,
         \A c \in Clients : holders'[c] \subseteq holders[c],
         \A c \in Clients :
           /\ Main \in holders'[c] =>
                IF mode = "f" THEN main' \in {<<"fork", c>>, <<"parent", c>>}
                              ELSE at'[c] \notin Ended
           /\ Child(c) \in alive' => at'[c] \notin {"done", "lost"}
           /\ Script(c) \in alive' => at'[c] \in {"wait", "lost"}
           /\ mode # "f" /\ at[c] \in Ended => at'[c] \in Ended
  PROVE  Descriptors'
  BY Zenon DEF Descriptors

\* A new connection, held by the server alone.
LEMMA AcceptOpens ==
  ASSUME Basic, Basic', Descriptors, NEW c \in Clients,
         NEW to \in {"read", "accepted", "copy_addr"},
         Accept(c), Step(c, "backlog", to), mode = "f" <=> to = "accepted",
         main' = IF to = "accepted" THEN <<"fork", c>> ELSE main,
         mode \in {"i", "f", "t", "p"}
  PROVE  Descriptors'
  <1>1. /\ at[c] = "backlog" /\ \A d \in Clients : at'[d] = IF d = c THEN to ELSE at[d]
        /\ \A d \in Clients : holders'[d] = IF d = c THEN {Main} ELSE holders[d]
        /\ UNCHANGED <<mode, alive>> /\ main[1] = "accept"
    BY DEF Step, Accept, Acceptable, InAccept, Basic, ProcessTypes, constVars
  <1>2. ASSUME NEW d \in Clients, mode = "f" PROVE Main \notin holders[d]
    <2>0. main[1] = "accept"
      BY <1>1, Zenon
    <2>1. main \notin {<<"fork", d>>, <<"parent", d>>}
      BY <2>0
    <2>2. Main \in holders[d] => main \in {<<"fork", d>>, <<"parent", d>>}
      BY <1>2, Zenon DEF Descriptors
    <2> QED
      BY <2>1, <2>2, Zenon
  <1>3. mode \notin {"f", "t", "p"} => \A d \in Clients : at[d] \in Ended
    BY DEF Accept, Acceptable, InAccept, Active, Ended
  <1>4. ASSUME NEW d \in Clients, d # c
        PROVE  at'[d] = at[d] /\ holders'[d] = holders[d]
    BY <1>1, <1>4, Zenon
  <1>5. at[c] = "backlog" /\ at'[c] = to /\ holders'[c] = {Main} /\ mode' = mode /\ alive' = alive
    BY <1>1, Zenon
  <1>6. ASSUME NEW d \in Clients
        PROVE  Main \in holders'[d] =>
                 IF mode' = "f" THEN main' \in {<<"fork", d>>, <<"parent", d>>}
                                ELSE at'[d] \notin Ended
    <2>1. CASE d = c
      BY <1>5, <2>1, Zenon DEF Ended
    <2>2. CASE d # c
      <3>1. Main \in holders[d] /\ mode # "f" => at[d] \notin Ended
        BY Zenon DEF Descriptors
      <3> QED
        BY <1>2, <1>4, <1>5, <2>2, <3>1, Zenon
    <2> QED
      BY <2>1, <2>2, Zenon
  <1>7. ASSUME NEW d \in Clients
        PROVE  /\ Child(d) \in alive' => mode' = "f" /\ at'[d] \notin {"done", "lost"}
               /\ Script(d) \in alive' => at'[d] \in {"wait", "lost"}
    <2>1. /\ Child(d) \in alive => mode = "f" /\ at[d] \notin {"done", "lost"}
          /\ Script(d) \in alive => at[d] \in {"wait", "lost"}
      BY Zenon DEF Descriptors
    <2> QED
      BY <1>4, <1>5, <2>1, Zenon
  <1>8. ASSUME NEW d \in Clients, NEW e \in Clients
        PROVE  /\ Child(e) \in holders'[d] => e = d
               /\ mode' \notin {"t", "p"} => (Script(e) \in holders'[d] => e = d)
    <2>1. CASE d = c
      BY <1>5, <2>1, Distinct, Zenon
    <2>2. CASE d # c
      <3>1. /\ Child(e) \in holders[d] => e = d
            /\ mode \notin {"t", "p"} => (Script(e) \in holders[d] => e = d)
        BY Zenon DEF Descriptors
      <3> QED
        BY <1>4, <1>5, <2>2, <3>1, Zenon
    <2> QED
      BY <2>1, <2>2, Zenon
  <1>9. ASSUME mode' \notin {"f", "t", "p"}, NEW d \in Clients, NEW e \in Clients,
               at'[d] \notin Ended, at'[e] \notin Ended
        PROVE  d = e
    BY <1>3, <1>4, <1>5, <1>9, Zenon
  <1> QED
    BY <1>6, <1>7, <1>8, <1>9, Zenon DEF Descriptors

\* Every step keeps the descriptors where they belong: those that fork copies are
\* those of the process that forks.
LEMMA DescriptorsStep ==
  ASSUME Basic, Basic', Descriptors, [Next]_vars
  PROVE  Descriptors'
  <1> USE DEF constVars, loopVars, procVars
  <1>0. /\ at \in [Clients -> Labels] /\ holders \in [Clients -> SUBSET alive]
        /\ holders' \in [Clients -> SUBSET alive']
    BY DEF Basic, ProcessTypes
  <1>1. ASSUME Exits(Main, "lost"), mode' = mode
        PROVE  Descriptors'
    <2>1. /\ alive' = alive \ {Main}
          /\ \A c \in Clients : holders'[c] = holders[c] \ {Main}
      BY <1>1 DEF Exits
    <2>2. \A c \in Clients : at'[c] = at[c] \/ (at'[c] = "lost" /\ mode # "f")
      <3>1. \A c \in Clients : at'[c] = IF Server(c) = Main /\ at[c] # "backlog" THEN "lost"
                                                                                 ELSE at[c]
        BY <1>1 DEF Exits
      <3>2. mode = "f" => \A c : Server(c) # Main
        BY ServerFacts, Distinct
      <3> QED
        BY <3>1, <3>2
    <2>3. ASSUME NEW d \in Clients
          PROVE  /\ Main \in holders'[d] =>
                      IF mode = "f" THEN main' \in {<<"fork", d>>, <<"parent", d>>}
                                    ELSE at'[d] \notin Ended
                 /\ Child(d) \in alive' => at'[d] \notin {"done", "lost"}
                 /\ Script(d) \in alive' => at'[d] \in {"wait", "lost"}
                 /\ mode # "f" /\ at[d] \in Ended => at'[d] \in Ended
      <3>1. Main \notin holders'[d] /\ (Child(d) \in alive' => Child(d) \in alive)
                                  /\ (Script(d) \in alive' => Script(d) \in alive)
        BY <2>1
      <3>2. /\ Child(d) \in alive => mode = "f" /\ at[d] \notin {"done", "lost"}
            /\ Script(d) \in alive => at[d] \in {"wait", "lost"}
        BY Zenon DEF Descriptors
      <3> QED
        BY <2>2, <3>1, <3>2 DEF Ended
    <2>4. \A d \in Clients : holders'[d] \subseteq holders[d]
      BY <2>1
    <2> QED
      BY <1>1, <2>1, <2>3, <2>4, OnlyClosing, Zenon
  <1>2. ASSUME NEW c \in Clients, NEW status \in {"done", "lost"}, Exits(Child(c), status),
               mode = "f", UNCHANGED <<mode, main>>, at[c] \notin {"wait", "backlog", "lost"}
        PROVE  Descriptors'
    <2>1. /\ alive' = alive \ {Child(c)}
          /\ \A d \in Clients : holders'[d] = holders[d] \ {Child(c)}
      BY <1>2 DEF Exits
    <2>2. \A d \in Clients : at'[d] = IF d = c THEN status ELSE at[d]
      <3>1. \A d \in Clients : at'[d] = IF Server(d) = Child(c) /\ at[d] # "backlog" THEN status
                                                                                     ELSE at[d]
        BY <1>2, Zenon DEF Exits
      <3>2. \A d : Server(d) = Child(c) <=> d = c
        BY <1>2, ServerFacts, Distinct
      <3> QED
        BY <1>2, <3>1, <3>2
    <2>3. ASSUME NEW d \in Clients
          PROVE  /\ Main \in holders'[d] =>
                      IF mode = "f" THEN main' \in {<<"fork", d>>, <<"parent", d>>}
                                    ELSE at'[d] \notin Ended
                 /\ Child(d) \in alive' => at'[d] \notin {"done", "lost"}
                 /\ Script(d) \in alive' => at'[d] \in {"wait", "lost"}
                 /\ mode # "f" /\ at[d] \in Ended => at'[d] \in Ended
      <3>1. /\ Main \in holders'[d] => Main \in holders[d]
            /\ Child(d) \in alive' => Child(d) \in alive /\ Child(d) # Child(c)
            /\ Script(d) \in alive' => Script(d) \in alive
        BY <2>1, Zenon
      <3>2. /\ Main \in holders[d] => main' \in {<<"fork", d>>, <<"parent", d>>}
            /\ Child(d) \in alive => at[d] \notin {"done", "lost"}
            /\ Script(d) \in alive => at[d] \in {"wait", "lost"}
        BY <1>2, Zenon DEF Descriptors
      <3>3. CASE d = c
        BY <1>2, <2>2, <3>1, <3>2, <3>3, Zenon
      <3>4. CASE d # c
        BY <1>2, <2>2, <3>1, <3>2, <3>4, Zenon
      <3> QED
        BY <3>3, <3>4, Zenon
    <2>4. \A d \in Clients : holders'[d] \subseteq holders[d]
      BY <2>1
    <2> QED
      BY <1>2, <2>1, <2>3, <2>4, OnlyClosing, Zenon
  <1>3. CASE Start
    <2>1. CASE mode \in {"i", "f", "t", "p"}
      <3>1. main[1] = "start" /\ UNCHANGED <<mode, alive, holders, at>>
        BY <1>3, <2>1 DEF Start
      <3>2. mode = "f" => \A c \in Clients : Main \notin holders[c]
        <4>1. \A c \in Clients : main \notin {<<"fork", c>>, <<"parent", c>>}
          BY <3>1
        <4> QED
          BY <4>1, Zenon DEF Descriptors
      <3> QED
        BY <3>1, <3>2, OnlyClosing, Zenon DEF Descriptors, Ended
    <2>2. CASE mode \notin {"i", "f", "t", "p"}
      BY <1>1, <1>3, <2>2 DEF Start
    <2> QED
      BY <2>1, <2>2
  <1>4. CASE StartFails
    BY <1>1, <1>4 DEF StartFails
  <1>5. CASE Outside
    BY <1>5, OnlyClosing, Zenon DEF Outside, Descriptors
  <1>6. ASSUME NEW c \in Clients, AcceptIterative(c)
        PROVE  Descriptors'
    BY <1>6, AcceptOpens DEF AcceptIterative
  <1>7. ASSUME NEW c \in Clients, AcceptFork(c)
        PROVE  Descriptors'
    BY <1>7, AcceptOpens DEF AcceptFork
  <1>8. ASSUME NEW c \in Clients, AcceptThread(c)
        PROVE  Descriptors'
    BY <1>8, AcceptOpens DEF AcceptThread, ThreadStartsAt
  <1>9. ASSUME NEW c \in Clients, AcceptPool(c)
        PROVE  Descriptors'
    BY <1>9, AcceptOpens DEF AcceptPool
  <1>10. ASSUME NEW c \in Clients, Fork(c)
         PROVE  Descriptors'
    <2>1. /\ main = <<"fork", c>> /\ main' = <<"parent", c>> /\ alive' = alive \cup {Child(c)}
          /\ at[c] = "accepted" /\ mode' = mode /\ mode = "f"
          /\ \A d \in Clients : at'[d] = IF d = c THEN "read" ELSE at[d]
          /\ \A d \in Clients : holders'[d] = IF Main \in holders[d]
                                              THEN holders[d] \cup {Child(c)} ELSE holders[d]
      BY <1>0, <1>10, Zenon DEF Fork, Step, Inherit, Basic, Lifecycle
    <2>2. \A d \in Clients : Main \in holders[d] => d = c
      BY <2>1, Zenon DEF Descriptors
    <2>3. ASSUME NEW d \in Clients
          PROVE  /\ Main \in holders'[d] => main' \in {<<"fork", d>>, <<"parent", d>>}
                 /\ Child(d) \in alive' => at'[d] \notin {"done", "lost"}
                 /\ Script(d) \in alive' => at'[d] \in {"wait", "lost"}
      BY <2>1, <2>2, Distinct, Zenon DEF Descriptors
    <2>4. ASSUME NEW d \in Clients, NEW e \in Clients
          PROVE  /\ Child(e) \in holders'[d] => e = d
                 /\ Script(e) \in holders'[d] => e = d
      <3>1. /\ Child(e) \in holders'[d] => Child(e) \in holders[d] \/ (d = c /\ e = c)
            /\ Script(e) \in holders'[d] => Script(e) \in holders[d]
        <4>1. CASE Main \in holders[d]
          <5>1. d = c /\ holders'[d] = holders[d] \cup {Child(c)}
            BY <2>1, <2>2, <4>1, Zenon
          <5> QED
            BY <5>1, Distinct, Zenon
        <4>2. CASE Main \notin holders[d]
          BY <2>1, <4>2, Zenon
        <4> QED
          BY <4>1, <4>2, Zenon
      <3>2. /\ Child(e) \in holders[d] => e = d
            /\ mode \notin {"t", "p"} => (Script(e) \in holders[d] => e = d)
        BY Zenon DEF Descriptors
      <3> QED
        BY <2>1, <3>1, <3>2, Zenon
    <2> QED
      BY <2>1, <2>3, <2>4, Zenon DEF Descriptors
  <1>11. ASSUME NEW c \in Clients, ForkFails(c) \/ Parent(c)
         PROVE  Descriptors'
    <2>1. /\ main \in {<<"fork", c>>, <<"parent", c>>} /\ UNCHANGED <<mode, alive>>
          /\ mode = "f"
          /\ \A d \in Clients : holders'[d] = IF d = c THEN holders[d] \ {Main} ELSE holders[d]
      <3>1. /\ main \in {<<"fork", c>>, <<"parent", c>>} /\ UNCHANGED <<mode, alive>>
            /\ holders' = [holders EXCEPT ![c] = @ \ {Main}]
        BY <1>11, Zenon DEF ForkFails, Parent
      <3>2. main[1] \in {"fork", "parent"}
        BY <3>1
      <3>3. mode = "f"
        BY <3>2, Zenon DEF Basic, Lifecycle
      <3> QED
        BY <1>0, <3>1, <3>3, Zenon
    <2>2. \A d \in Clients : at'[d] = at[d] \/ (d = c /\ at[c] = "accepted" /\ at'[d] = "done")
      BY <1>0, <1>11 DEF ForkFails, Parent, Step
    <2>3. \A d \in Clients : Main \notin holders'[d]
      <3> SUFFICES ASSUME NEW d \in Clients, Main \in holders'[d] PROVE FALSE
        OBVIOUS
      <3>1. d # c /\ Main \in holders[d]
        BY <2>1, Zenon
      <3>2. main \in {<<"fork", d>>, <<"parent", d>>}
        BY <2>1, <3>1, Zenon DEF Descriptors
      <3> QED
        BY <2>1, <3>1, <3>2
    <2>4. at[c] = "accepted" => Child(c) \notin alive /\ Script(c) \notin alive
      BY Zenon DEF Basic, Lifecycle, Descriptors
    <2> QED
      BY <2>1, <2>2, <2>3, <2>4, OnlyClosing, Zenon DEF Descriptors
  <1>12. ASSUME NEW c \in Clients, ThreadFails(c)
         PROVE  Descriptors'
    BY <1>1, <1>12 DEF ThreadFails
  <1>13. ASSUME NEW c \in Clients, CopyAddr(c)
         PROVE  Descriptors'
    <2>1. /\ UNCHANGED <<mode, main, alive, holders>> /\ at[c] = "copy_addr"
          /\ \A d \in Clients : at'[d] = IF d = c THEN "read" ELSE at[d]
      BY <1>0, <1>13 DEF CopyAddr, Step
    <2> QED
      BY <2>1, OnlyClosing, Zenon DEF Descriptors, Ended
  <1>14. ASSUME NEW c \in Clients, Inner(c)
         PROVE  Descriptors'
    <2>1. /\ UNCHANGED <<mode, main, alive, holders>> /\ at[c] \notin Ended
          /\ at'[c] \notin Ended \cup {"accepted"}
          /\ \A d \in Clients : d # c => at'[d] = at[d]
      BY <1>0, <1>14 DEF Inner, InnerLabels, Step, Ended, Labels
    <2>2. Script(c) \notin alive
      BY <1>14, <2>1, Zenon DEF Inner, WaitedFor, Descriptors, Ended
    <2> QED
      BY <2>1, <2>2, OnlyClosing, Zenon DEF Descriptors, Ended
  <1>15. ASSUME NEW c \in Clients, ForkScript(c)
         PROVE  Descriptors'
    <2>1. /\ at[c] = "/cgi-bin/" /\ UNCHANGED <<mode, main>>
          /\ alive' = alive \cup {Script(c)}
          /\ \A d \in Clients : at'[d] = IF d = c THEN "wait" ELSE at[d]
          /\ \A d \in Clients : holders'[d] = IF Server(c) \in holders[d]
                                              THEN holders[d] \cup {Script(c)} ELSE holders[d]
      BY <1>0, <1>15 DEF ForkScript, Step, Inherit
    <2>2. mode \notin {"t", "p"} => \A d \in Clients : Server(c) \in holders[d] => d = c
      <3>1. CASE mode = "f"
        BY <3>1, ServerFacts, Zenon DEF Descriptors
      <3>2. CASE mode \notin {"f", "t", "p"}
        BY <2>1, <3>2, ServerFacts, Zenon DEF Descriptors, Ended
      <3> QED
        BY <3>1, <3>2
    <2>3. ASSUME NEW d \in Clients
          PROVE  /\ Main \in holders'[d] => Main \in holders[d]
                 /\ Child(d) \in alive' => Child(d) \in alive
                 /\ Script(d) \in alive' => Script(d) \in alive \/ d = c
                 /\ at'[d] \in Ended <=> at[d] \in Ended
                 /\ at'[d] = at[d] \/ (d = c /\ at'[d] = "wait")
      BY <2>1, Distinct, Zenon DEF Ended
    <2>4. ASSUME NEW d \in Clients, NEW e \in Clients
          PROVE  /\ Child(e) \in holders'[d] => e = d
                 /\ mode \notin {"t", "p"} /\ Script(e) \in holders'[d] => e = d
      <3>1. /\ Child(e) \in holders'[d] => Child(e) \in holders[d]
            /\ mode \notin {"t", "p"} /\ Script(e) \in holders'[d]
                 => Script(e) \in holders[d] \/ (d = c /\ e = c)
        <4>1. CASE Server(c) \in holders[d]
          <5>1. holders'[d] = holders[d] \cup {Script(c)}
            BY <2>1, <4>1, Zenon
          <5>2. mode \notin {"t", "p"} => d = c
            BY <2>2, <4>1
          <5> QED
            BY <5>1, <5>2, Distinct, Zenon
        <4>2. CASE Server(c) \notin holders[d]
          <5>1. holders'[d] = holders[d]
            BY <2>1, <4>2, Zenon
          <5> QED
            BY <5>1, Zenon
        <4> QED
          BY <4>1, <4>2, Zenon
      <3> QED
        BY <3>1, Zenon DEF Descriptors
    <2>5. ASSUME NEW d \in Clients
          PROVE  /\ Main \in holders'[d] =>
                      IF mode = "f" THEN main \in {<<"fork", d>>, <<"parent", d>>}
                                    ELSE at'[d] \notin Ended
                 /\ Child(d) \in alive' => mode = "f" /\ at'[d] \notin {"done", "lost"}
                 /\ Script(d) \in alive' => at'[d] \in {"wait", "lost"}
      BY <2>1, <2>3, Zenon DEF Descriptors
    <2> QED
      BY <2>1, <2>3, <2>4, <2>5, Zenon DEF Descriptors
  <1>16. ASSUME NEW c \in Clients, ScriptEnds(c)
         PROVE  Descriptors'
    <2>1. /\ UNCHANGED <<mode, main>> /\ at' = at /\ alive' = alive \ {Script(c)}
          /\ \A d \in Clients : holders'[d] = holders[d] \ {Script(c)}
      BY <1>16, ExitScript, Zenon DEF ScriptEnds, Exits
    <2> QED
      BY <2>1, OnlyClosing, Zenon DEF Descriptors
  <1>17. ASSUME NEW c \in Clients, Close(c)
         PROVE  Descriptors'
    <2>1. at[c] = "close" /\ UNCHANGED <<mode, main>>
      BY <1>17 DEF Close
    <2>2. CASE mode = "f"
      BY <1>2, <1>17, <2>1, <2>2 DEF Close
    <2>3. CASE mode # "f"
      <3>1. /\ alive' = alive
            /\ \A d \in Clients : at'[d] = IF d = c THEN "done" ELSE at[d]
            /\ \A d \in Clients : holders'[d] = IF d = c THEN holders[d] \ {Main}
                                                        ELSE holders[d]
        BY <1>0, <1>17, <2>3, Zenon DEF Close, Step
      <3> QED
        <4>1. ASSUME NEW d \in Clients
              PROVE  /\ Main \in holders'[d] => at'[d] \notin Ended
                     /\ Child(d) \in alive' => at'[d] \notin {"done", "lost"}
                     /\ Script(d) \in alive' => at'[d] \in {"wait", "lost"}
                     /\ at[d] \in Ended => at'[d] \in Ended
                     /\ holders'[d] \subseteq holders[d]
          <5>1. CASE d = c
            <6>1. at'[d] = "done" /\ at[d] = "close" /\ holders'[d] = holders[d] \ {Main}
              BY <2>1, <3>1, <5>1, Zenon
            <6>2. Child(d) \notin alive /\ Script(d) \notin alive
              BY <2>3, <6>1, Zenon DEF Descriptors
            <6> QED
              BY <3>1, <6>1, <6>2, Zenon DEF Ended
          <5>2. CASE d # c
            <6>1. at'[d] = at[d] /\ holders'[d] = holders[d]
              BY <3>1, <5>2, Zenon
            <6> QED
              BY <2>3, <3>1, <6>1, Zenon DEF Descriptors
          <5> QED
            BY <5>1, <5>2, Zenon
        <4> QED
          BY <1>0, <2>1, <2>3, <3>1, <4>1, OnlyClosing, Zenon
    <2> QED
      BY <2>2, <2>3
  <1>18. ASSUME NEW c \in Clients, BrokenPipe(c)
         PROVE  Descriptors'
    <2>1. /\ at[c] \notin {"wait", "backlog", "lost"} /\ Exits(Server(c), "lost") /\ mode' = mode
          /\ main' = (IF Server(c) = Main THEN <<"exited", NoClient>> ELSE main)
      BY <1>18 DEF BrokenPipe, Sending
    <2>2. CASE mode = "f"
      BY <1>2, <2>1, <2>2, ServerFacts, Distinct
    <2>3. CASE mode # "f"
      BY <1>1, <2>1, <2>3, ServerFacts
    <2> QED
      BY <2>2, <2>3
  <1> QED
    BY <1>3, <1>4, <1>5, <1>6, <1>7, <1>8, <1>9, <1>10, <1>11, <1>12, <1>13, <1>14, <1>15,
       <1>16, <1>17, <1>18, NextCases, InnerSteps

\* Who may hold a connection, in every state.
LEMMA DescriptorsAlways == SafeSpec => []Descriptors
  <1>1. Init => Descriptors
    <2> SUFFICES ASSUME Init PROVE Descriptors
      OBVIOUS
    <2>1. PICK s \in Scenarios :
            at = [c \in Clients |-> IF c \in s.clients THEN "backlog" ELSE "done"]
      BY Zenon DEF Init
    <2>2. \A c \in Clients : at[c] \in {"backlog", "done"} /\ holders[c] = {}
      BY <2>1, Zenon DEF Init
    <2>3. \A c \in Clients : Child(c) \notin alive /\ Script(c) \notin alive
      BY Distinct DEF Init
    <2> QED
      BY <2>2, <2>3, Zenon DEF Descriptors, Ended
  <1> QED
    BY <1>1, BasicAlways, DescriptorsStep, PTL DEF SafeSpec

\* For any number of clients and any pool: once handleClient has returned and its
\* caller has closed the descriptor, only the parent of mode 'f' just before its
\* own close, and scripts of other threads, can still hold the connection.
THEOREM ClosedMeansEof == SafeSpec => []EofAfterClose
  BY BasicAlways, DescriptorsAlways, DescriptorsSuffice, PTL

-----------------------------------------------------------------------------
\* The copy of a file, and the rest of the types.

FileTypes ==
  /\ found \in [Clients -> Int] /\ offset \in [Clients -> Nat]
  /\ file \in Sizes /\ resized \subseteq Clients

Unsent == {"backlog", "accepted", "copy_addr", "read", "stat", "open"}
Sized == {"open", "copy_file"}

Copying ==
  \A c \in Clients :
    /\ at[c] \in Unsent => offset[c] = 0
    /\ at[c] \in Sized /\ c \notin resized => found[c] = file /\ offset[c] <= file

\* A step that has nothing to do with the file.
Elsewhere ==
  /\ UNCHANGED fileVars
  /\ \A c \in Clients : /\ at'[c] \in Unsent => at[c] \in Unsent
                        /\ at'[c] \in Sized => at[c] \in Sized

\* The steps that concern the file.
LEMMA FileCases ==
  ASSUME Basic, [Next]_vars
  PROVE  \/ Elsewhere \/ Resize
         \/ \E c \in Clients : Stat(c) \/ CopyFile(c) \/ CopyStops(c) \/ Close(c)
  <1> USE DEF Unsent, Sized
  <1>0. at \in [Clients -> Labels]
    BY DEF Basic, ProcessTypes
  <1>1. ASSUME NEW c \in Clients, NEW from, NEW to, Step(c, from, to), UNCHANGED fileVars,
               to \in Unsent => from \in Unsent, to \in Sized => from \in Sized
        PROVE  Elsewhere
    BY <1>0, <1>1 DEF Step, Elsewhere
  <1>2. ASSUME NEW p, NEW status \in {"done", "lost"}, Exits(p, status), UNCHANGED fileVars
        PROVE  Elsewhere
    BY <1>2, Zenon DEF Exits, Elsewhere
  <1>3. ASSUME UNCHANGED <<fileVars, at>>
        PROVE  Elsewhere
    BY <1>3 DEF Elsewhere
  <1>4. Start \/ StartFails => Elsewhere
    BY <1>2, <1>3 DEF Start, StartFails
  <1>5. \A c \in Clients :
          AcceptIterative(c) \/ AcceptFork(c) \/ AcceptThread(c) \/ AcceptPool(c) => Elsewhere
    BY <1>1, Zenon
    DEF AcceptIterative, AcceptFork, AcceptThread, AcceptPool, Accept, ThreadStartsAt
  <1>6. \A c \in Clients : Fork(c) \/ ForkFails(c) \/ Parent(c) => Elsewhere
    BY <1>1, <1>3, Zenon DEF Fork, ForkFails, Parent
  <1>7. \A c \in Clients : ThreadFails(c) \/ ScriptEnds(c) \/ BrokenPipe(c) => Elsewhere
    BY <1>2 DEF ThreadFails, ScriptEnds, BrokenPipe
  <1>8. \A c \in Clients : CopyAddr(c) \/ ReadNothing(c) \/ ForkScript(c)
                           \/ ForkScriptFails(c) \/ WaitScript(c) \/ OpenFails(c) => Elsewhere
    BY <1>1, Zenon
    DEF CopyAddr, ReadNothing, ForkScript, ForkScriptFails, WaitScript, OpenFails
  <1>9. \A c \in Clients : ReadRequest(c) => Elsewhere
    BY <1>1, Zenon DEF ReadRequest, Branch
  <1>10. ASSUME NEW c \in Clients, NEW from, NEW to, Respond(c, from, to),
                to \notin Unsent, to \in Sized => from \in Sized
         PROVE  Elsewhere
    BY <1>1, <1>10 DEF Respond
  <1>11. \A c \in Clients : Refuse(c) \/ handleStats(c) \/ handleLogs(c) \/ Redirect(c)
                            \/ NotFound(c) \/ OpendirFails(c) \/ ListDirectory(c)
                            \/ OpenFile(c) => Elsewhere
    BY <1>10 DEF Refuse, handleStats, handleLogs, Redirect, NotFound, OpendirFails,
                 ListDirectory, OpenFile
  <1>12. \A c \in Clients : CountLoad(c) \/ CountStore(c) \/ CountExtremes(c) => Elsewhere
    BY <1>1 DEF CountLoad, CountStore, CountExtremes, TestExtreme, SetExtreme
  <1>13. \A c \in Clients : SendRequest(c) \/ Leave(c) \/ Stall(c) \/ Resume(c) => Elsewhere
    BY <1>3 DEF SendRequest, Leave, Stall, Resume
  <1>14. Quiescent \/ AcceptFails \/ UNCHANGED vars => Elsewhere
    BY <1>3 DEF Quiescent, AcceptFails, vars
  <1>15. \A c \in Clients : CopyEnds(c) \/ CopyFails(c) => CopyStops(c)
    BY Zenon DEF CopyEnds, CopyFails
  <1> QED
    BY <1>4, <1>5, <1>6, <1>7, <1>8, <1>9, <1>11, <1>12, <1>13, <1>14, <1>15, Zenon
       DEF Next, Loop, handleClient

\* A piece never goes past the end of the file and is empty only there.
LEMMA PieceFacts ==
  ASSUME FileTypes, NEW c \in Clients
  PROVE  /\ Piece(c) \in Nat /\ file \in Nat /\ offset[c] \in Nat
         /\ offset[c] <= file => offset[c] + Piece(c) <= file
         /\ Piece(c) = 0 => file <= offset[c]
  <1>1. file \in Nat /\ offset[c] \in Nat /\ BufSize \in Nat \ {0}
    BY LegacyAssumption DEF FileTypes
  <1> QED
    BY <1>1 DEF Piece

\* A step of one handler on its own place in the file.
LEMMA OneCopyMoves ==
  ASSUME Copying, NEW c \in Clients, UNCHANGED <<file, resized>>,
         \A d \in Clients : d # c => /\ at'[d] = at[d] /\ found'[d] = found[d]
                                     /\ offset'[d] = offset[d],
         at'[c] \in Unsent => offset'[c] = 0,
         at'[c] \in Sized /\ c \notin resized => found'[c] = file /\ offset'[c] <= file
  PROVE  Copying'
  <1> SUFFICES ASSUME NEW d \in Clients
               PROVE  /\ at'[d] \in Unsent => offset'[d] = 0
                      /\ at'[d] \in Sized /\ d \notin resized' =>
                           found'[d] = file' /\ offset'[d] <= file'
    BY Zenon DEF Copying, Unsent, Sized
  <1>1. file' = file /\ resized' = resized
    OBVIOUS
  <1>2. CASE d = c
    BY <1>1, <1>2, Zenon
  <1>3. CASE d # c
    <2>1. at'[d] = at[d] /\ found'[d] = found[d] /\ offset'[d] = offset[d]
      BY <1>3, Zenon
    <2> QED
      BY <1>1, <2>1, Zenon DEF Copying
  <1> QED
    BY <1>2, <1>3, Zenon

\* Every step keeps offset and announced size in step with the file.
LEMMA CopyStep ==
  ASSUME Basic, FileTypes, Copying, [Next]_vars
  PROVE  FileTypes' /\ Copying'
  <1> USE DEF Unsent, Sized
  <1>0. at \in [Clients -> Labels]
    BY DEF Basic, ProcessTypes
  <1>1. CASE Elsewhere
    BY <1>1, Zenon DEF Elsewhere, fileVars, FileTypes, Copying
  <1>2. CASE Resize
    BY <1>2 DEF Resize, FileTypes, Copying
  <1>3. ASSUME NEW c \in Clients, Stat(c)
        PROVE  FileTypes' /\ Copying'
    <2>1. /\ UNCHANGED <<offset, file, resized>> /\ at[c] = "stat" /\ at'[c] # "copy_file"
          /\ at'[c] = "open" => found' = [found EXCEPT ![c] = file]
          /\ found' \in {found, [found EXCEPT ![c] = file]}
          /\ \A d \in Clients : d # c => at'[d] = at[d]
      BY <1>0, <1>3, Zenon DEF Stat, Step
    <2>2. file \in Nat
      BY PieceFacts, <1>3
    <2>3. FileTypes' /\ \A d \in Clients : d # c => found'[d] = found[d]
      BY <2>1, <2>2 DEF FileTypes
    <2>4. offset'[c] = 0 /\ 0 <= file
      BY <2>1, <2>2 DEF Copying
    <2>5. at'[c] = "open" => found'[c] = file
      BY <2>1 DEF FileTypes
    <2>6. at'[c] \in Sized => found'[c] = file /\ offset'[c] <= file
      BY <2>1, <2>4, <2>5, Zenon
    <2> QED
      BY <2>1, <2>3, <2>4, <2>6, OneCopyMoves, Zenon
  <1>4. ASSUME NEW c \in Clients, CopyFile(c)
        PROVE  FileTypes' /\ Copying'
    <2>1. /\ UNCHANGED <<found, file, resized>> /\ at[c] = "copy_file" /\ at' = at
          /\ offset' = [offset EXCEPT ![c] = @ + Piece(c)]
      BY <1>0, <1>4 DEF CopyFile, Step
    <2>2. /\ offset' \in [Clients -> Nat] /\ offset'[c] = offset[c] + Piece(c)
          /\ \A d \in Clients : d # c => offset'[d] = offset[d]
      BY <2>1, PieceFacts DEF FileTypes
    <2>3. c \notin resized => found'[c] = file /\ offset'[c] <= file
      <3>1. c \notin resized => found[c] = file /\ offset[c] <= file
        BY <2>1, Zenon DEF Copying
      <3> QED
        BY <2>1, <2>2, <3>1, PieceFacts, Zenon
    <2>4. FileTypes'
      BY <2>1, <2>2, Zenon DEF FileTypes
    <2>5. at'[c] \notin Unsent
      BY <2>1
    <2> QED
      BY <2>1, <2>2, <2>3, <2>4, <2>5, OneCopyMoves, Zenon
  <1>5. ASSUME NEW c \in Clients, CopyStops(c)
        PROVE  FileTypes' /\ Copying'
    <2>1. /\ found' = [found EXCEPT ![c] = -1] /\ offset' = [offset EXCEPT ![c] = 0]
          /\ resized' = resized \ {c} /\ file' = file
          /\ \A d \in Clients : at'[d] = IF d = c THEN "count" ELSE at[d]
      BY <1>0, <1>5 DEF CopyStops, Step
    <2>2. /\ FileTypes' /\ at'[c] = "count"
          /\ \A d \in Clients : d # c => found'[d] = found[d] /\ offset'[d] = offset[d]
      BY <2>1 DEF FileTypes
    <2>3. ASSUME NEW d \in Clients
          PROVE  /\ at'[d] \in Unsent => offset'[d] = 0
                 /\ at'[d] \in Sized /\ d \notin resized' =>
                      found'[d] = file' /\ offset'[d] <= file'
      <3>1. CASE d = c
        BY <2>2, <3>1, Zenon
      <3>2. CASE d # c
        <4>1. /\ at'[d] = at[d] /\ found'[d] = found[d] /\ offset'[d] = offset[d]
              /\ file' = file /\ (d \notin resized' => d \notin resized)
          BY <2>1, <2>2, <3>2, Zenon
        <4> QED
          BY <4>1, Zenon DEF Copying
      <3> QED
        BY <3>1, <3>2, Zenon
    <2> QED
      BY <2>2, <2>3, Zenon DEF Copying
  <1>6. ASSUME NEW c \in Clients, Close(c)
        PROVE  FileTypes' /\ Copying'
    <2>1. /\ found' = [found EXCEPT ![c] = -1] /\ UNCHANGED <<offset, file>>
          /\ resized' = resized \ {c} /\ at[c] = "close"
      BY <1>6 DEF Close
    <2>2. \A d \in Clients : at'[d] = at[d] \/ at'[d] = "done"
      BY <1>0, <1>6, Zenon DEF Close, Step, Exits
    <2> QED
      BY <2>1, <2>2 DEF FileTypes, Copying
  <1> QED
    BY <1>1, <1>2, <1>3, <1>4, <1>5, <1>6, FileCases

\* Together with the life cycle, inductive.
LEMMA CopyAlways == SafeSpec => [](FileTypes /\ Copying)
  <1>1. Init => FileTypes /\ Copying
    <2> SUFFICES ASSUME Init PROVE FileTypes /\ Copying
      OBVIOUS
    <2>1. PICK s \in Scenarios :
            /\ file = s.file
            /\ at = [c \in Clients |-> IF c \in s.clients THEN "backlog" ELSE "done"]
      BY Zenon DEF Init
    <2>2. file \in Sizes
      BY <2>1, LegacyAssumption
    <2> QED
      <3>0. /\ found = [c \in Clients |-> -1] /\ offset = [c \in Clients |-> 0]
            /\ resized = {}
        BY Zenon DEF Init
      <3>1. FileTypes
        BY <2>2, <3>0 DEF FileTypes
      <3>2. \A c \in Clients : at[c] \in {"backlog", "done"} /\ offset[c] = 0
        BY <2>1, <3>0
      <3>3. Copying
        BY <3>2 DEF Copying, Sized
      <3> QED
        BY <3>1, <3>3
  <1> QED
    BY <1>1, BasicAlways, CopyStep, PTL DEF SafeSpec

\* The types of the state of main and handleClient, and that descriptors and
\* zombies belong to processes in the right state.
THEOREM TypeCorrect == SafeSpec => []TypeOK
  <1>1. Basic /\ FileTypes => TypeOK
    BY DEF Basic, ProcessTypes, FileTypes, TypeOK
  <1> QED
    BY <1>1, BasicAlways, CopyAlways, PTL

\* For files and buffers of any size: when the copy loop meets the end of a file
\* that kept its size since stat, it has sent what Content-Length announced.
THEOREM FramingHolds == SafeSpec => []FramingUnlessResized
  <1>1. FileTypes /\ Copying => FramingUnlessResized
    <2> SUFFICES ASSUME FileTypes, Copying, NEW c \in Clients \ resized,
                        at[c] = "copy_file", Piece(c) = 0
                 PROVE  offset[c] = found[c]
      BY DEF FramingUnlessResized
    <2>1. file \in Nat /\ offset[c] \in Nat /\ file <= offset[c]
      BY PieceFacts
    <2> QED
      BY <2>1 DEF Copying, Sized
  <1> QED
    BY <1>1, CopyAlways, PTL
===============================================================================
