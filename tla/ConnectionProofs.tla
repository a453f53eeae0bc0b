--------------------------- MODULE ConnectionProofs ---------------------------
(***************************************************************************)
(* Theorems about Connection: for all timeouts, clock resolutions, request *)
(* limits, parser limits, and sizes of reads and responses.                *)
(***************************************************************************)
EXTENDS Connection, SequenceTheorems, WellFoundedInduction, TLAPS

Response == [status : {200, 400, 408, 501}, keep_alive : BOOLEAN, length : Nat \ {0}]

Reasons ==
  {"PeerClosed", "ReadError", "ConnectionClose", "RequestLimit", "ParseError",
   "ReadTimeout", "KeepAliveTimeout", "WriteTimeout", "WriteError"}

\* Types; a call is blocked only while reading or writing and has a timeout.
TypeOK ==
  /\ state \in {"Reading", "Parsing", "Writing", "Closed"}
  /\ read_phase \in {"Request", "KeepAlive"} /\ read_left \in Nat /\ write_left \in Nat
  /\ buffer \in Seq(Units)
  /\ pending_response \in Seq(Nat \X Nat) /\ write_offset \in Nat
  /\ close_after_write \in BOOLEAN /\ close_reason_after_write \in Reasons
  /\ result \in [reason : Reasons, requests_served : Nat]
  /\ blocked \in BOOLEAN /\ timer \in Nat /\ (~blocked => timer = 0)
  /\ blocked => state \in {"Reading", "Writing"}
  /\ queued \in Seq(Response) /\ wire \in Seq(Nat \X Nat) /\ waited \in Nat

\* Whole microseconds never outlast the deadline by a microsecond, and are never
\* none: zero would mean no timeout at all.
LEMMA ArmedTimeout ==
  ASSUME NEW left \in Nat \ {0}
  PROVE  /\ KernelTimeout(armed_timeout(left)) \in Nat \ {0}
         /\ KernelTimeout(armed_timeout(left)) <= left + TicksPerUs - 1
  <1>1. TicksPerUs \in Nat \ {0}
    BY ConnectionAssumption
  <1> DEFINE q == left \div TicksPerUs
  <1>2. q \in Nat /\ q * TicksPerUs <= left
    BY <1>1
  <1>3. CASE q = 0
    BY <1>1, <1>3 DEF armed_timeout, KernelTimeout
  <1>4. CASE q # 0
    <2>1. KernelTimeout(armed_timeout(left)) = q * TicksPerUs
      BY <1>4 DEF armed_timeout, KernelTimeout
    <2>2. q * TicksPerUs \in Nat \ {0}
      BY <1>1, <1>2, <1>4
    <2> QED
      BY <1>1, <1>2, <2>1, <2>2
  <1> QED
    BY <1>3, <1>4

\* The record of a response that queue_response adds.
Queue(status, keep_alive, n) == [status |-> status, keep_alive |-> keep_alive, length |-> n]

Queues(status, keep, reason, n) ==
  /\ n \in Nat \ {0}
  /\ pending_response' \in Seq(Nat \X Nat) /\ Len(pending_response') = n
  /\ \A i \in 1..n : pending_response'[i] = <<Len(queued) + 1, i>>
  /\ write_offset' = 0 /\ close_after_write' = ~keep
  /\ close_reason_after_write' = reason
  /\ write_left' = WriteTimeout /\ state' = "Writing"
  /\ queued' \in Seq(Response) /\ Len(queued') = Len(queued) + 1
  /\ \A k \in 1..Len(queued) : queued'[k] = queued[k]
  /\ queued'[Len(queued')] = Queue(status, keep, n)

\* queue_response: the response is the last of those queued, none of it is
\* sent yet, and its own write deadline runs.
LEMMA QueueFacts ==
  ASSUME TypeOK, NEW status \in {200, 400, 408, 501}, NEW keep \in BOOLEAN,
         NEW reason \in Reasons, NEW n \in 1..MaxResponse,
         queue_response(status, keep, reason, n)
  PROVE  Queues(status, keep, reason, n)
  <1>1. n \in Nat \ {0} /\ Len(queued) \in Nat
    BY ConnectionAssumption DEF TypeOK
  <1>2. pending_response' = [i \in 1..n |-> <<Len(queued) + 1, i>>]
    BY DEF queue_response
  <1>3. pending_response' \in Seq(Nat \X Nat) /\ Len(pending_response') = n
    BY <1>1, <1>2
  <1>4. Queue(status, keep, n) \in Response /\ queued' = Append(queued, Queue(status, keep, n))
    BY <1>1 DEF Queue, Response, queue_response
  <1>5. /\ queued' \in Seq(Response) /\ Len(queued') = Len(queued) + 1
        /\ \A k \in 1..Len(queued) : queued'[k] = queued[k]
        /\ queued'[Len(queued) + 1] = Queue(status, keep, n)
    BY <1>4, AppendProperties DEF TypeOK
  <1> QED
    BY <1>1, <1>2, <1>3, <1>5 DEF Queues, queue_response

\* parse_request consumes a prefix of the buffer.
LEMMA ConsumeFacts ==
  ASSUME buffer \in Seq(Units), next(buffer).kind = "request"
  PROVE  SubSeq(buffer, FirstComplete(buffer) + 1, Len(buffer)) \in Seq(Units)
  <1>1. Complete(buffer) # {}
    <2>1. [kind |-> IF Len(buffer) > MaxParts THEN "bad" ELSE "need_more_data"].kind # "request"
      OBVIOUS
    <2> QED
      BY <2>1 DEF next
  <1>2. Complete(buffer) \subseteq Nat
    BY DEF Complete
  <1> DEFINE R == OpToRel(<, Nat)
  <1>3. \A x, y \in Nat : x < y => <<x, y>> \in R
    BY Zenon DEF OpToRel
  <1>4. IsWellFoundedOn(R, Nat)
    BY NatLessThanWellFounded, Zenon
  <1> HIDE DEF R
  <1>5. PICK i \in Complete(buffer) : \A j \in Complete(buffer) : ~(<<j, i>> \in R)
    BY <1>1, <1>2, <1>4, WFMin
  <1>6. \A j \in Complete(buffer) : i <= j
    <2> SUFFICES ASSUME NEW j \in Complete(buffer) PROVE i <= j
      OBVIOUS
    <2>1. i \in Nat /\ j \in Nat
      BY <1>2
    <2>2. ~(j < i)
      BY <1>3, <1>5, <2>1, Zenon
    <2> QED
      BY <2>1, <2>2
  <1>7. FirstComplete(buffer) \in Complete(buffer)
    BY <1>6 DEF FirstComplete
  <1> QED
    BY <1>7 DEF Complete

-----------------------------------------------------------------------------
\* The steps, by what they do to responses.

\* Time passes, or a call begins or is interrupted.
Waits ==
  /\ UNCHANGED <<state, read_phase, buffer, result, queued, wire>>
  /\ UNCHANGED <<pending_response, write_offset, close_reason_after_write>>
  /\ UNCHANGED close_after_write

\* Units are read, or found not to be enough.
Reads ==
  /\ \/ state = "Reading" /\ state' = "Parsing"
     \/ state = "Parsing" /\ state' = "Reading"
  /\ UNCHANGED <<result, queued, wire>>
  /\ UNCHANGED <<pending_response, write_offset, close_reason_after_write>>
  /\ UNCHANGED close_after_write

\* An error is answered, or the expiry of the read deadline.
Refuses(status, reason, n) ==
  /\ state \in {"Reading", "Parsing"}
  /\ queue_response(status, FALSE, reason, n)
  /\ \/ status \in {400, 501} /\ reason = "ParseError"
     \/ status = 408 /\ reason = "ReadTimeout"
  /\ UNCHANGED <<result, wire>>

\* A request is answered.
Answers(keep, n) ==
  /\ state = "Parsing"
  /\ result' = [result EXCEPT !.requests_served = @ + 1]
  /\ queue_response(200, keep, IF result.requests_served + 1 >= MaxRequests
                               THEN "RequestLimit" ELSE "ConnectionClose", n)
  /\ result.requests_served + 1 >= MaxRequests => ~keep
  /\ UNCHANGED wire

\* The connection ends, in the middle of a write or outside one.
Ends(reason) ==
  /\ state \in {"Reading", "Writing"} /\ finish(reason)
  /\ \/ state = "Writing" /\ reason \in {"WriteTimeout", "WriteError"}
     \/ state = "Reading" /\ reason \in {"PeerClosed", "ReadError"}
     \/ state = "Reading" /\ reason = "KeepAliveTimeout" /\ read_phase = "KeepAlive"
  /\ UNCHANGED <<read_phase, buffer, queued, wire>>
  /\ UNCHANGED <<pending_response, write_offset, close_reason_after_write>>
  /\ UNCHANGED close_after_write

Writes(n) == WritePartial(n) \/ WriteComplete(n)

\* All steps.
LEMMA StepKinds ==
  ASSUME TypeOK, [Next]_vars
  PROVE  \/ Waits \/ Reads
         \/ \E status \in {400, 408, 501}, reason \in Reasons, n \in 1..MaxResponse :
              Refuses(status, reason, n)
         \/ \E keep \in BOOLEAN, n \in 1..MaxResponse : Answers(keep, n)
         \/ \E reason \in Reasons : Ends(reason)
         \/ \E n \in 1..MaxResponse : Writes(n)
  <1> USE DEF readVars, writeVars, kernelVars
  <1>1. ReadBlock \/ WriteBlock \/ Interrupted => Waits
    BY DEF ReadBlock, WriteBlock, Interrupted, Waits
  <1>2. Tick => Waits
    BY DEF Tick, Waits
  <1>3. Done \/ UNCHANGED vars => Waits
    BY DEF Done, vars, Waits
  <1>4. ASSUME ReadExpired
        PROVE  \/ Ends("KeepAliveTimeout")
               \/ \E n \in 1..MaxResponse : Refuses(408, "ReadTimeout", n)
    BY <1>4, Zenon DEF ReadExpired, Ends, Refuses
  <1>5. ParseNeedsMore => Reads
    BY DEF ParseNeedsMore, Reads
  <1>6. \A data \in Data : ReadData(data) => Reads
    BY DEF ReadData, Reads
  <1>7. ASSUME ParseError
        PROVE  \E status \in {400, 501}, n \in 1..MaxResponse : Refuses(status, "ParseError", n)
    <2> DEFINE status == IF next(buffer).kind = "bad" THEN 400 ELSE 501
    <2>1. PICK n \in 1..MaxResponse : queue_response(status, FALSE, "ParseError", n)
      BY <1>7, Zenon DEF ParseError
    <2>2. status \in {400, 501} /\ state = "Parsing" /\ UNCHANGED <<result, wire>>
      BY <1>7 DEF ParseError
    <2> HIDE DEF status
    <2>3. Refuses(status, "ParseError", n)
      BY <2>1, <2>2, Zenon DEF Refuses
    <2> QED
      BY <2>2, <2>3
  <1>8. ASSUME ParseRequest
        PROVE  \E keep \in BOOLEAN, n \in 1..MaxResponse : Answers(keep, n)
    <2>1. /\ state = "Parsing" /\ wire' = wire
          /\ result' = [result EXCEPT !.requests_served = @ + 1]
      BY <1>8 DEF ParseRequest
    <2>2. result'.requests_served = result.requests_served + 1
      BY <2>1 DEF TypeOK
    <2> DEFINE limit == result.requests_served + 1 >= MaxRequests
               keep == should_keep_alive(next(buffer)) /\ ~limit
    <2>3. PICK n \in 1..MaxResponse :
            queue_response(200, keep, IF limit THEN "RequestLimit" ELSE "ConnectionClose", n)
      BY <1>8, <2>2 DEF ParseRequest
    <2>4. keep \in BOOLEAN
      OBVIOUS
    <2>5. Answers(keep, n)
      BY <2>1, <2>3 DEF Answers
    <2> QED
      BY <2>4, <2>5, Zenon
  <1>9. WriteExpired => Ends("WriteTimeout")
    BY DEF WriteExpired, Ends
  <1>10. ReadEof => Ends("PeerClosed")
    BY DEF ReadEof, Ends
  <1>11. ReadFails => Ends("ReadError")
    BY DEF ReadFails, Ends
  <1>12. WriteFails => Ends("WriteError")
    BY DEF WriteFails, Ends
  <1> QED
    BY <1>1, <1>2, <1>3, <1>4, <1>5, <1>6, <1>7, <1>8, <1>9, <1>10, <1>11, <1>12
       DEF Next, Serve, Peer, Writes, Reasons

-----------------------------------------------------------------------------
\* Types.

ClockTypes ==
  /\ read_left \in Nat /\ write_left \in Nat /\ timer \in Nat /\ waited \in Nat
  /\ ~blocked => timer = 0
  /\ blocked => state \in {"Reading", "Writing"}

\* The clock and the kernel.
LEMMA ClockStep ==
  ASSUME TypeOK, [Next]_vars
  PROVE  ClockTypes' /\ blocked' \in BOOLEAN
  <1> USE ConnectionAssumption DEF readVars, writeVars, kernelVars, ClockTypes
  <1>0. ClockTypes /\ blocked \in BOOLEAN /\ state \in {"Reading", "Parsing", "Writing", "Closed"}
    BY DEF TypeOK
  <1>1. CASE ReadBlock \/ WriteBlock
    <2>1. PICK left \in {read_left, write_left} : Block(left)
      BY <1>1 DEF ReadBlock, WriteBlock
    <2>2. timer' \in Nat /\ blocked'
      BY <1>0, <2>1, ArmedTimeout DEF Block
    <2>3. /\ UNCHANGED <<read_left, write_left, waited, state>>
          /\ state \in {"Reading", "Writing"}
      BY <1>1 DEF ReadBlock, WriteBlock
    <2> QED
      BY <1>0, <2>1, <2>2, <2>3 DEF Block
  <1>2. ASSUME Return, read_left' \in Nat, write_left' \in Nat, waited' = waited
        PROVE  ClockTypes' /\ blocked' \in BOOLEAN
    BY <1>0, <1>2, Zenon DEF Return
  <1>3. ASSUME UNCHANGED kernelVars, ~blocked, read_left' \in Nat, write_left' \in Nat,
               waited' = waited
        PROVE  ClockTypes' /\ blocked' \in BOOLEAN
    BY <1>0, <1>3
  <1>4. CASE ReadExpired
    <2>1. read_left' \in Nat /\ write_left' \in Nat /\ waited' = waited
      BY <1>0, <1>4, Zenon DEF ReadExpired, queue_response
    <2> QED
      BY <1>2, <1>3, <1>4, <2>1 DEF ReadExpired, Expired
  <1>5. CASE WriteExpired
    BY <1>0, <1>2, <1>3, <1>5 DEF WriteExpired, Expired
  <1>6. CASE ReadFails \/ WriteFails
    BY <1>0, <1>2, <1>3, <1>6 DEF ReadFails, WriteFails
  <1>7. CASE ReadEof \/ Interrupted
    BY <1>0, <1>2, <1>7 DEF ReadEof, Interrupted
  <1>8. ASSUME NEW data \in Data, ReadData(data)
        PROVE  ClockTypes' /\ blocked' \in BOOLEAN
    BY <1>0, <1>2, <1>8 DEF ReadData, begin_request_timeout
  <1>9. ASSUME NEW n \in 1..MaxResponse, Writes(n)
        PROVE  ClockTypes' /\ blocked' \in BOOLEAN
    BY <1>0, <1>2, <1>9 DEF Writes, WritePartial, WriteComplete, begin_keep_alive_timeout
  <1>10. CASE ParseNeedsMore \/ ParseError \/ ParseRequest
    <2>1. state = "Parsing" /\ UNCHANGED kernelVars /\ waited' = waited /\ StartDeadline
      BY <1>10, Zenon DEF ParseNeedsMore, ParseError, ParseRequest
    <2>2. read_left' \in Nat
      BY <1>0, <2>1 DEF StartDeadline, begin_request_timeout
    <2>3. write_left' \in Nat
      BY <1>0, <1>10, Zenon DEF ParseNeedsMore, ParseError, ParseRequest, queue_response
    <2> QED
      BY <1>0, <1>3, <2>1, <2>2, <2>3
  <1>11. CASE Tick
    BY <1>0, <1>11 DEF Tick
  <1>12. CASE UNCHANGED vars
    BY <1>0, <1>12 DEF vars
  <1> QED
    BY <1>1, <1>4, <1>5, <1>6, <1>7, <1>8, <1>9, <1>10, <1>11, <1>12
       DEF Next, Serve, Peer, Done, Writes

\* The parser's buffer.
LEMMA BufferStep ==
  ASSUME TypeOK, [Next]_vars
  PROVE  buffer' \in Seq(Units) /\ read_phase' \in {"Request", "KeepAlive"}
  <1> USE DEF TypeOK, readVars
  <1>1. ASSUME NEW data \in Data, ReadData(data)
        PROVE  buffer' \in Seq(Units) /\ read_phase' \in {"Request", "KeepAlive"}
    <2>1. data \in Seq(Units)
      BY ConnectionAssumption DEF Data
    <2> QED
      BY <1>1, <2>1 DEF ReadData, begin_request_timeout
  <1>2. CASE ParseRequest
    BY <1>2, ConsumeFacts DEF ParseRequest, StartDeadline, begin_request_timeout
  <1>3. CASE ParseNeedsMore \/ ParseError
    BY <1>3, Zenon DEF ParseNeedsMore, ParseError, StartDeadline, begin_request_timeout
  <1>4. ASSUME NEW n \in 1..MaxResponse, Writes(n)
        PROVE  buffer' \in Seq(Units) /\ read_phase' \in {"Request", "KeepAlive"}
    BY <1>4 DEF Writes, WritePartial, WriteComplete, begin_keep_alive_timeout
  <1>5. CASE ReadBlock \/ WriteBlock \/ ReadExpired \/ WriteExpired \/ ReadEof
               \/ ReadFails \/ WriteFails \/ Interrupted \/ Tick \/ UNCHANGED vars
    BY <1>5, Zenon DEF ReadBlock, WriteBlock, ReadExpired, WriteExpired, ReadEof, ReadFails,
                WriteFails, Interrupted, Tick, vars
  <1> QED
    BY <1>1, <1>2, <1>3, <1>4, <1>5 DEF Next, Serve, Peer, Done, Writes

\* send takes a part of the pending response.
LEMMA SendFacts ==
  ASSUME TypeOK, NEW n \in 1..MaxResponse, Send(n)
  PROVE  /\ n \in Nat \ {0} /\ write_offset + n <= Len(pending_response)
         /\ wire' \in Seq(Nat \X Nat) /\ Len(wire') = Len(wire) + n
         /\ \A j \in 1..Len(wire) : wire'[j] = wire[j]
         /\ \A i \in 1..n : wire'[Len(wire) + i] = pending_response[write_offset + i]
  <1> DEFINE sent == SubSeq(pending_response, write_offset + 1, write_offset + n)
  <1>1. n \in Nat \ {0} /\ write_offset \in Nat /\ write_offset + n <= Len(pending_response)
    BY ConnectionAssumption DEF TypeOK, Send
  <1>2. pending_response \in Seq(Nat \X Nat) /\ wire \in Seq(Nat \X Nat)
    BY DEF TypeOK
  <1>3. /\ sent \in Seq(Nat \X Nat) /\ Len(sent) = n
        /\ \A i \in 1..n : sent[i] = pending_response[write_offset + i]
    <2>1. \A i \in (write_offset + 1)..(write_offset + n) : pending_response[i] \in Nat \X Nat
      BY <1>1, <1>2
    <2>2. (write_offset + n) - (write_offset + 1) + 1 = n /\ write_offset + 1 <= write_offset + n
      BY <1>1
    <2>3. \A i \in 1..n : (write_offset + 1) + i - 1 = write_offset + i
      BY <1>1
    <2> QED
      BY <1>1, <2>1, <2>2, <2>3, SubSeqProperties
  <1>4. wire' = wire \o sent
    BY DEF Send
  <1> HIDE DEF sent
  <1>5. /\ wire' \in Seq(Nat \X Nat) /\ Len(wire') = Len(wire) + n
        /\ \A i \in 1..(Len(wire) + n) :
             wire'[i] = IF i <= Len(wire) THEN wire[i] ELSE sent[i - Len(wire)]
    BY <1>2, <1>3, <1>4, ConcatProperties
  <1>6. Len(wire) \in Nat
    BY <1>2
  <1>7. ASSUME NEW i \in 1..n
        PROVE  wire'[Len(wire) + i] = pending_response[write_offset + i]
    <2>1. Len(wire) + i \in 1..(Len(wire) + n) /\ ~(Len(wire) + i <= Len(wire))
      BY <1>1, <1>6
    <2>2. (Len(wire) + i) - Len(wire) = i
      BY <1>1, <1>6
    <2> QED
      BY <1>3, <1>5, <2>1, <2>2, Zenon
  <1>8. ASSUME NEW j \in 1..Len(wire)
        PROVE  wire'[j] = wire[j]
    <2>1. j \in 1..(Len(wire) + n) /\ j <= Len(wire)
      BY <1>1, <1>6
    <2> QED
      BY <1>5, <2>1
  <1> QED
    BY <1>1, <1>5, <1>7, <1>8, Zenon

ResponseTypes ==
  /\ state \in {"Reading", "Parsing", "Writing", "Closed"}
  /\ pending_response \in Seq(Nat \X Nat) /\ write_offset \in Nat
  /\ close_after_write \in BOOLEAN /\ close_reason_after_write \in Reasons
  /\ result \in [reason : Reasons, requests_served : Nat]
  /\ queued \in Seq(Response) /\ wire \in Seq(Nat \X Nat)

\* The responses and the result.
LEMMA ResponseStep ==
  ASSUME TypeOK, [Next]_vars
  PROVE  ResponseTypes'
  <1>0. ResponseTypes
    BY DEF ResponseTypes, TypeOK
  <1>1. CASE Waits
    BY <1>0, <1>1 DEF Waits, ResponseTypes
  <1>2. CASE Reads
    BY <1>0, <1>2 DEF Reads, ResponseTypes
  <1>3. ASSUME NEW status \in {400, 408, 501}, NEW reason \in Reasons,
               NEW n \in 1..MaxResponse, Refuses(status, reason, n)
        PROVE  ResponseTypes'
    <2>0. status \in {200, 400, 408, 501} /\ FALSE \in BOOLEAN
      OBVIOUS
    <2>1. queue_response(status, FALSE, reason, n)
      BY <1>0, <1>3, Zenon DEF Refuses
    <2>2. Queues(status, FALSE, reason, n)
      BY <2>0, <2>1, QueueFacts, ZenonT(60)
    <2>3. close_after_write' \in BOOLEAN
      BY <2>1 DEF queue_response
    <2>4. UNCHANGED <<result, wire>>
      BY <1>3 DEF Refuses
    <2> QED
      BY <1>0, <2>2, <2>3, <2>4 DEF Queues, ResponseTypes
  <1>4. ASSUME NEW keep \in BOOLEAN, NEW n \in 1..MaxResponse, Answers(keep, n)
        PROVE  ResponseTypes'
    <2>0. 200 \in {200, 400, 408, 501}
      OBVIOUS
    <2>1. PICK reason \in Reasons : queue_response(200, keep, reason, n)
      BY <1>4 DEF Answers, Reasons
    <2>2. result' = [result EXCEPT !.requests_served = @ + 1] /\ wire' = wire
      BY <1>4 DEF Answers
    <2>3. result' \in [reason : Reasons, requests_served : Nat]
      <3>1. result \in [reason : Reasons, requests_served : Nat]
        BY <1>0 DEF ResponseTypes
      <3>2. result.requests_served + 1 \in Nat
        BY <3>1
      <3> QED
        BY <2>2, <3>1, <3>2
    <2>4. Queues(200, keep, reason, n)
      BY <2>0, <2>1, QueueFacts
    <2>5. close_after_write' \in BOOLEAN
      BY <2>1 DEF queue_response
    <2> QED
      BY <1>0, <2>1, <2>2, <2>3, <2>4, <2>5 DEF Queues, ResponseTypes
  <1>5. ASSUME NEW reason \in Reasons, Ends(reason)
        PROVE  ResponseTypes'
    <2>1. result' \in [reason : Reasons, requests_served : Nat] /\ state' = "Closed"
      BY <1>0, <1>5, Zenon DEF Ends, finish, ResponseTypes
    <2> QED
      BY <1>0, <1>5, <2>1 DEF Ends, ResponseTypes
  <1>6. ASSUME NEW n \in 1..MaxResponse, Writes(n)
        PROVE  ResponseTypes'
    <2>1. Send(n)
      BY <1>0, <1>6 DEF Writes, WritePartial, WriteComplete
    <2>2. wire' \in Seq(Nat \X Nat) /\ n \in Nat
      BY <1>0, <2>1, SendFacts
    <2>3. CASE WritePartial(n)
      BY <1>0, <2>2, <2>3 DEF WritePartial, ResponseTypes
    <2>4. CASE WriteComplete(n)
      <3>1. state' \in {"Closed", "Parsing"}
        BY <1>0, <2>4 DEF WriteComplete, finish
      <3>2. result' \in [reason : Reasons, requests_served : Nat]
        BY <1>0, <2>4, Zenon DEF WriteComplete, finish, ResponseTypes
      <3>3. pending_response' = <<>> /\ write_offset' = 0
        BY <1>0, <2>4 DEF WriteComplete
      <3>4. UNCHANGED <<close_reason_after_write, queued>> /\ UNCHANGED close_after_write
        BY <1>0, <2>4 DEF WriteComplete
      <3> QED
        BY <1>0, <2>2, <3>1, <3>2, <3>3, <3>4 DEF ResponseTypes
    <2> QED
      BY <1>0, <1>6, <2>3, <2>4 DEF Writes
  <1> QED
    BY <1>0, <1>1, <1>2, <1>3, <1>4, <1>5, <1>6, StepKinds

\* A step keeps the types.
LEMMA TypeStep ==
  ASSUME TypeOK, [Next]_vars
  PROVE  TypeOK'
  BY ClockStep, BufferStep, ResponseStep DEF ClockTypes, ResponseTypes, TypeOK

\* The constructor's state is well typed.
LEMMA TypeInit ==
  ASSUME Init
  PROVE  TypeOK
  <1>1. blocked \in BOOLEAN /\ close_after_write \in BOOLEAN /\ ~blocked
    BY Zenon DEF Init
  <1>2. buffer \in Seq(Units) /\ pending_response \in Seq(Nat \X Nat)
    BY EmptySeq DEF Init
  <1>3. queued \in Seq(Response) /\ wire \in Seq(Nat \X Nat)
    BY EmptySeq DEF Init
  <1>4. result \in [reason : Reasons, requests_served : Nat]
    BY DEF Init, Reasons
  <1> QED
    BY <1>1, <1>2, <1>3, <1>4, ConnectionAssumption DEF Init, TypeOK, Reasons

\* Every state is well typed.  Behind it: the thread is blocked only in read or
\* send, and always with a timeout armed, since armed_timeout never rounds down
\* to the zero that would mean none.
THEOREM TypeCorrect == SafeSpec => []TypeOK
  BY TypeInit, TypeStep, PTL DEF SafeSpec

-----------------------------------------------------------------------------
\* Pipelined requests.

\* The state becomes Reading only when the parser asks for more.
LEMMA BufferedStep ==
  ASSUME TypeOK, BufferedRequestNeverWaits, [Next]_vars
  PROVE  BufferedRequestNeverWaits'
  <1> SUFFICES ASSUME state' = "Reading"
               PROVE  /\ next(buffer').kind = "need_more_data"
                      /\ read_phase' = "KeepAlive" => buffer' = <<>>
    BY DEF BufferedRequestNeverWaits
  <1>1. CASE Waits
    BY <1>1 DEF Waits, BufferedRequestNeverWaits
  <1>2. CASE ParseNeedsMore
    <2>1. buffer' = buffer /\ next(buffer).kind = "need_more_data" /\ StartDeadline
      BY <1>2 DEF ParseNeedsMore
    <2>2. read_phase' = "KeepAlive" => buffer = <<>>
      BY <2>1 DEF StartDeadline, begin_request_timeout, readVars, TypeOK
    <2> QED
      BY <2>1, <2>2
  <1>3. CASE ReadBlock \/ WriteBlock \/ Interrupted \/ Tick \/ Done \/ UNCHANGED vars
    <2>1. Waits
      BY <1>3 DEF ReadBlock, WriteBlock, Interrupted, Tick, Done, vars, Waits, readVars, writeVars
    <2> QED
      BY <1>1, <2>1
  <1>4. ~(ReadExpired \/ ReadEof \/ ReadFails \/ WriteExpired \/ WriteFails)
    BY DEF ReadExpired, ReadEof, ReadFails, WriteExpired, WriteFails, finish, queue_response
  <1>5. ~(ParseError \/ ParseRequest)
    BY DEF ParseError, ParseRequest, queue_response
  <1>6. ASSUME NEW n \in 1..MaxResponse
        PROVE  ~(WritePartial(n) \/ WriteComplete(n))
    BY DEF WritePartial, WriteComplete, finish
  <1>7. ASSUME NEW data \in Data
        PROVE  ~ReadData(data)
    BY DEF ReadData
  <1> QED
    BY <1>2, <1>3, <1>4, <1>5, <1>6, <1>7 DEF Next, Serve, Peer

\* The thread never blocks for bytes it already has: a request that is complete
\* in the buffer is answered before the next read, and one that has begun
\* there runs under its own deadline.
THEOREM PipelinedNeverWaits == SafeSpec => []BufferedRequestNeverWaits
  <1>1. ASSUME Init PROVE BufferedRequestNeverWaits
    <2>1. buffer = <<>> /\ Len(buffer) = 0 /\ MaxParts \in Nat
      BY <1>1, ConnectionAssumption DEF Init
    <2>2. Complete(buffer) = {}
      BY <2>1 DEF Complete
    <2>3. next(buffer) = [kind |-> "need_more_data"]
      BY <2>1, <2>2 DEF next
    <2> QED
      BY <2>1, <2>3 DEF BufferedRequestNeverWaits
  <1> QED
    BY <1>1, TypeCorrect, BufferedStep, PTL DEF SafeSpec

-----------------------------------------------------------------------------
\* One answer per request.

AllKept ==
  \A k \in 1..Len(queued) : queued[k].keep_alive /\ queued[k].status = 200

\* What the last answer was, by the reason with which it closes.
ClosesFor(reason) ==
  \/ /\ reason = "ConnectionClose" /\ LastQueued.status = 200
     /\ result.requests_served < MaxRequests
  \/ reason = "RequestLimit" /\ result.requests_served = MaxRequests
  \/ reason = "ParseError" /\ LastQueued.status \in {400, 501}
  \/ reason = "ReadTimeout" /\ LastQueued.status = 408

\* Until the last answer only requests have been answered, with keep-alive; the
\* pending answer closes the connection exactly when it announces that.
Answered ==
  /\ state \in {"Reading", "Parsing"} =>
       AllKept /\ result.requests_served = Len(queued) /\ Len(queued) < MaxRequests
  /\ state = "Writing" =>
       /\ queued # <<>>
       /\ close_after_write <=> ~LastQueued.keep_alive
       /\ LastQueued.keep_alive => /\ LastQueued.status = 200
                                   /\ result.requests_served < MaxRequests
       /\ ~LastQueued.keep_alive => ClosesFor(close_reason_after_write)
  /\ AnswersMatchRequests

\* An error is answered.
LEMMA RefusesAnswered ==
  ASSUME TypeOK, Answered, NEW status \in {400, 408, 501}, NEW reason \in Reasons,
         NEW n \in 1..MaxResponse, Refuses(status, reason, n)
  PROVE  Answered'
  <1>0. status # 200
    OBVIOUS
  <1>1. queue_response(status, FALSE, reason, n) /\ UNCHANGED <<result, wire>>
    BY Zenon DEF Refuses
  <1>2. Queues(status, FALSE, reason, n)
    <2>1. status \in {200, 400, 408, 501} /\ FALSE \in BOOLEAN
      OBVIOUS
    <2>2. queue_response(status, FALSE, reason, n)
      BY <1>1, Zenon
    <2> QED
      BY <2>1, <2>2, QueueFacts, ZenonT(60)
  <1>3. AllKept /\ result.requests_served = Len(queued) /\ Len(queued) < MaxRequests
    BY DEF Refuses, Answered
  <1>4. Len(queued) \in Nat /\ MaxRequests \in Nat
    BY ConnectionAssumption DEF TypeOK
  <1>5. /\ LastQueued' = Queue(status, FALSE, n) /\ state' = "Writing"
        /\ Len(queued') = Len(queued) + 1 /\ close_reason_after_write' = reason
        /\ queued' \in Seq(Response)
    BY <1>2 DEF Queues, LastQueued
  <1>6. LastQueued'.status = status /\ ~LastQueued'.keep_alive
    BY <1>5 DEF Queue
  <1>7. close_after_write'
    BY <1>1, Zenon DEF queue_response
  <1>8. ClosesFor(reason)'
    BY <1>6 DEF Refuses, ClosesFor
  <1>9. ASSUME NEW k \in 1..(Len(queued') - 1)
        PROVE  queued'[k].keep_alive /\ queued'[k].status = 200
    <2>1. k \in 1..Len(queued)
      BY <1>4, <1>5
    <2>2. queued'[k] = queued[k]
      BY <1>2, <2>1 DEF Queues
    <2> QED
      BY <1>3, <2>1, <2>2 DEF AllKept
  <1>10. queued' # <<>>
    BY <1>4, <1>5
  <1>11. AnswersMatchRequests'
    <2>1. result'.requests_served = Len(queued') - 1
      BY <1>1, <1>3, <1>4, <1>5
    <2>2. result'.requests_served < MaxRequests
      BY <1>1, <1>3
    <2>3. LastQueued'.status # 200
      BY <1>0, <1>6
    <2>4. /\ result'.requests_served =
               IF queued' # <<>> /\ LastQueued'.status # 200
               THEN Len(queued') - 1 ELSE Len(queued')
          /\ result'.requests_served <= MaxRequests /\ result'.requests_served # MaxRequests
      BY <1>3, <1>4, <1>5, <1>10, <2>1, <2>2, <2>3
    <2> QED
      BY <1>9, <2>4 DEF AnswersMatchRequests
  <1> QED
    BY <1>5, <1>6, <1>7, <1>8, <1>10, <1>11, Zenon DEF Answered

\* A request is answered.
LEMMA AnswersAnswered ==
  ASSUME TypeOK, Answered, NEW keep \in BOOLEAN, NEW n \in 1..MaxResponse, Answers(keep, n)
  PROVE  Answered'
  <1> DEFINE served == result.requests_served
  <1>1. PICK reason \in Reasons :
          /\ queue_response(200, keep, reason, n)
          /\ reason = IF served + 1 >= MaxRequests THEN "RequestLimit" ELSE "ConnectionClose"
    BY DEF Answers, Reasons
  <1>2. Queues(200, keep, reason, n)
    <2>1. 200 \in {200, 400, 408, 501}
      OBVIOUS
    <2>2. queue_response(200, keep, reason, n)
      BY <1>1
    <2> QED
      BY <2>1, <2>2, QueueFacts
  <1>3. AllKept /\ served = Len(queued) /\ Len(queued) < MaxRequests
    BY DEF Answers, Answered
  <1>4. Len(queued) \in Nat /\ MaxRequests \in Nat
    BY ConnectionAssumption DEF TypeOK
  <1>5. /\ LastQueued' = Queue(200, keep, n) /\ state' = "Writing"
        /\ Len(queued') = Len(queued) + 1 /\ close_reason_after_write' = reason
        /\ queued' \in Seq(Response)
    BY <1>2 DEF Queues, LastQueued
  <1>6. LastQueued'.status = 200 /\ (LastQueued'.keep_alive <=> keep)
    BY <1>5 DEF Queue
  <1>7. close_after_write' <=> ~keep
    BY <1>1, Zenon DEF queue_response
  <1>8. result'.requests_served = Len(queued')
    <2>1. result' = [result EXCEPT !.requests_served = @ + 1]
      BY DEF Answers
    <2>2. result'.requests_served = served + 1
      BY <2>1 DEF TypeOK
    <2> QED
      BY <1>3, <1>5, <2>2
  <1>9. Len(queued') <= MaxRequests /\ (Len(queued') = MaxRequests => ~keep)
    BY <1>3, <1>4, <1>5 DEF Answers
  <1>10. ClosesFor(reason)'
    <2>1. CASE Len(queued') = MaxRequests
      BY <1>1, <1>3, <1>4, <1>5, <1>8, <2>1 DEF ClosesFor
    <2>2. CASE Len(queued') < MaxRequests
      BY <1>1, <1>3, <1>4, <1>5, <1>6, <1>8, <2>2 DEF ClosesFor
    <2> QED
      BY <1>4, <1>5, <1>9, <2>1, <2>2
  <1>11. ASSUME NEW k \in 1..(Len(queued') - 1)
         PROVE  queued'[k].keep_alive /\ queued'[k].status = 200
    <2>1. k \in 1..Len(queued)
      BY <1>4, <1>5
    <2>2. queued'[k] = queued[k]
      BY <1>2, <2>1 DEF Queues
    <2> QED
      BY <1>3, <2>1, <2>2 DEF AllKept
  <1>12. queued' # <<>>
    BY <1>4, <1>5
  <1>13. AnswersMatchRequests'
    BY <1>4, <1>6, <1>8, <1>9, <1>11 DEF AnswersMatchRequests
  <1>14. ASSUME keep
         PROVE  LastQueued'.status = 200 /\ result'.requests_served < MaxRequests
    <2>1. Len(queued') # MaxRequests /\ Len(queued') <= MaxRequests
      BY <1>9, <1>14
    <2> QED
      BY <1>4, <1>5, <1>6, <1>8, <2>1
  <1> QED
    BY <1>5, <1>6, <1>7, <1>10, <1>12, <1>13, <1>14 DEF Answered

\* A step keeps all this.
LEMMA AnsweredStep ==
  ASSUME TypeOK, Answered, [Next]_vars
  PROVE  Answered'
  <1>1. ASSUME UNCHANGED queued, result'.requests_served = result.requests_served
        PROVE  AnswersMatchRequests' /\ UNCHANGED LastQueued /\ (AllKept => AllKept')
    <2>1. UNCHANGED LastQueued
      BY <1>1 DEF LastQueued
    <2>2. AllKept => AllKept'
      BY <1>1 DEF AllKept
    <2>3. AnswersMatchRequests'
      BY <1>1, <2>1 DEF Answered, AnswersMatchRequests
    <2> QED
      BY <2>1, <2>2, <2>3
  <1>2. CASE Waits
    <2>1. UNCHANGED <<state, result, queued, close_reason_after_write>>
      BY <1>2 DEF Waits
    <2>2. close_after_write' <=> close_after_write
      BY <1>2 DEF Waits
    <2> QED
      BY <1>1, <2>1, <2>2 DEF Answered, ClosesFor
  <1>3. CASE Reads
    <2>1. UNCHANGED <<result, queued>> /\ {state, state'} \subseteq {"Reading", "Parsing"}
      BY <1>3 DEF Reads
    <2> QED
      BY <1>1, <2>1 DEF Answered
  <1>4. ASSUME NEW reason \in Reasons, Ends(reason)
        PROVE  Answered'
    <2>1. /\ UNCHANGED queued /\ state' = "Closed"
          /\ result' = [result EXCEPT !.reason = reason]
      BY <1>4 DEF Ends, finish
    <2>2. result'.requests_served = result.requests_served
      BY <2>1 DEF TypeOK
    <2> QED
      BY <1>1, <2>1, <2>2 DEF Answered
  <1>5. ASSUME NEW n \in 1..MaxResponse, WritePartial(n)
        PROVE  Answered'
    <2>1. UNCHANGED <<state, result, queued, close_reason_after_write>>
      BY <1>5 DEF WritePartial
    <2>2. close_after_write' <=> close_after_write
      BY <1>5 DEF WritePartial
    <2> QED
      BY <1>1, <2>1, <2>2 DEF Answered, ClosesFor
  <1>6. ASSUME NEW n \in 1..MaxResponse, WriteComplete(n)
        PROVE  Answered'
    <2>1. UNCHANGED queued /\ state = "Writing"
      BY <1>6 DEF WriteComplete
    <2>2. CASE close_after_write
      <3>1. state' = "Closed" /\ result' = [result EXCEPT !.reason = close_reason_after_write]
        BY <1>6, <2>2 DEF WriteComplete, finish
      <3>2. result'.requests_served = result.requests_served
        BY <3>1 DEF TypeOK
      <3> QED
        BY <1>1, <2>1, <3>1, <3>2 DEF Answered
    <2>3. CASE ~close_after_write
      <3>1. state' = "Parsing" /\ result' = result
        BY <1>6, <2>3 DEF WriteComplete
      <3>2. /\ queued # <<>> /\ LastQueued.keep_alive /\ LastQueued.status = 200
            /\ result.requests_served < MaxRequests
        BY <2>1, <2>3 DEF Answered
      <3>3. result.requests_served = Len(queued)
        BY <3>2 DEF Answered, AnswersMatchRequests
      <3>4. AllKept
        <4>1. \A k \in 1..(Len(queued) - 1) : queued[k].keep_alive /\ queued[k].status = 200
          BY DEF Answered, AnswersMatchRequests
        <4>2. queued[Len(queued)].keep_alive /\ queued[Len(queued)].status = 200
          BY <3>2 DEF LastQueued
        <4>3. \A k \in 1..Len(queued) : k = Len(queued) \/ k \in 1..(Len(queued) - 1)
          BY DEF TypeOK
        <4> QED
          BY <4>1, <4>2, <4>3 DEF AllKept
      <3> QED
        BY <1>1, <2>1, <3>1, <3>2, <3>3, <3>4 DEF Answered
    <2> QED
      BY <2>2, <2>3
  <1> QED
    BY <1>2, <1>3, <1>4, <1>5, <1>6, RefusesAnswered, AnswersAnswered, StepKinds DEF Writes

\* The constructor's state.
LEMMA AnsweredInit ==
  ASSUME Init
  PROVE  Answered
  <1>1. queued = <<>> /\ Len(queued) = 0 /\ result.requests_served = 0
    BY DEF Init
  <1>2. MaxRequests \in Nat /\ 0 < MaxRequests
    BY ConnectionAssumption
  <1>3. state # "Writing"
    BY DEF Init
  <1> QED
    BY <1>1, <1>2, <1>3 DEF Answered, AllKept, AnswersMatchRequests

\* However requests arrive, are refused or time out: one answer per request, at
\* most one error and only as the last answer, nothing after an answer that
\* announces close, and never more requests than the limit.
THEOREM OneAnswerEach == SafeSpec => []AnswersMatchRequests
  <1>1. Answered => AnswersMatchRequests
    BY DEF Answered
  <1> QED
    BY <1>1, AnsweredInit, TypeCorrect, AnsweredStep, PTL DEF SafeSpec

-----------------------------------------------------------------------------
\* The bytes on the wire.

\* The unit that follows u when the responses q are sent in order.
After(q, u) == IF u[2] < q[u[1]].length THEN <<u[1], u[2] + 1>> ELSE <<u[1] + 1, 1>>

Within == \A j \in 1..Len(wire) : wire[j][1] \in 1..Len(queued)

Ordered ==
  /\ wire # <<>> => wire[1] = <<1, 1>>
  /\ \A j \in 1..(Len(wire) - 1) : wire[j + 1] = After(queued, wire[j])

\* The unit the peer expects.
Expected == IF wire = <<>> THEN <<1, 1>> ELSE After(queued, wire[Len(wire)])

\* The units are in order; what is pending are the units of the last response,
\* and the next of them is the one the peer expects.
Delivering ==
  /\ Within /\ Ordered
  /\ state \in {"Reading", "Parsing"} => AllDelivered
  /\ state = "Writing" =>
       /\ queued # <<>> /\ Len(pending_response) = LastQueued.length
       /\ \A i \in 1..Len(pending_response) : pending_response[i] = <<Len(queued), i>>
       /\ write_offset < Len(pending_response)
       /\ Expected = <<Len(queued), write_offset + 1>>

\* send extends the wire in order.
LEMMA SendInOrder ==
  ASSUME TypeOK, Delivering, state = "Writing", queued' = queued,
         NEW n \in 1..MaxResponse, Send(n)
  PROVE  /\ Within' /\ Ordered' /\ wire' # <<>>
         /\ wire'[Len(wire')] = <<Len(queued), write_offset + n>>
  <1> DEFINE L == Len(queued)
             W == Len(wire)
             o == write_offset
  <1>1. /\ n \in Nat \ {0} /\ o \in Nat /\ W \in Nat /\ L \in Nat \ {0}
        /\ o + n <= Len(pending_response) /\ Len(pending_response) \in Nat
    <2>1. queued # <<>>
      BY DEF Delivering
    <2>2. L \in Nat \ {0}
      BY <2>1, EmptySeq DEF TypeOK
    <2>3. n \in Nat \ {0} /\ o + n <= Len(pending_response)
      BY SendFacts
    <2>4. o \in Nat /\ W \in Nat /\ Len(pending_response) \in Nat
      BY DEF TypeOK
    <2> QED
      BY <2>2, <2>3, <2>4
  <1>2. /\ wire' \in Seq(Nat \X Nat) /\ Len(wire') = W + n
        /\ \A j \in 1..W : wire'[j] = wire[j]
        /\ \A i \in 1..n : wire'[W + i] = pending_response[o + i]
    BY SendFacts, Zenon
  <1>3. ASSUME NEW i \in 1..n
        PROVE  wire'[W + i] = <<L, o + i>>
    <2>1. o + i \in 1..Len(pending_response)
      BY <1>1
    <2>2. pending_response[o + i] = <<L, o + i>>
      BY <2>1 DEF Delivering
    <2> QED
      BY <1>2, <2>2, Zenon
  <1>4. ASSUME NEW j \in 1..(W + n)
        PROVE  j \in 1..W \/ \E i \in 1..n : j = W + i
    <2>1. j \in 1..W \/ (j - W \in 1..n /\ j = W + (j - W))
      BY <1>1
    <2> QED
      BY <2>1
  <1>5. Within'
    <2> SUFFICES ASSUME NEW j \in 1..(W + n)
                 PROVE  wire'[j][1] \in 1..L
      BY <1>2 DEF Within
    <2>1. CASE j \in 1..W
      <3>1. wire'[j] = wire[j]
        BY <1>2, <2>1, Zenon
      <3>2. wire[j][1] \in 1..L
        BY <2>1 DEF Within, Delivering
      <3> QED
        BY <3>1, <3>2
    <2>2. ASSUME NEW i \in 1..n, j = W + i
          PROVE  wire'[j][1] \in 1..L
      <3>1. wire'[j] = <<L, o + i>>
        BY <1>3, <2>2
      <3>2. wire'[j][1] = L
        BY <3>1
      <3> QED
        BY <1>1, <3>2
    <2> QED
      BY <1>4, <2>1, <2>2, Zenon
  <1>6. Expected = <<L, o + 1>> /\ LastQueued.length = Len(pending_response)
    BY DEF Delivering
  <1>7. wire'[1] = <<1, 1>>
    <2>1. CASE wire = <<>>
      <3>1. W = 0 /\ <<L, o + 1>> = <<1, 1>>
        BY <1>6, <2>1 DEF Expected
      <3>2. 1 \in 1..n /\ W + 1 = 1
        BY <1>1, <3>1
      <3> QED
        BY <1>3, <3>1, <3>2
    <2>2. CASE wire # <<>>
      <3>1. 1 \in 1..W
        BY <1>1, <2>2, EmptySeq DEF TypeOK
      <3> QED
        BY <1>2, <2>2, <3>1, Zenon DEF Delivering, Ordered
    <2> QED
      BY <2>1, <2>2
  <1>8. ASSUME NEW j \in 1..(W + n - 1)
        PROVE  wire'[j + 1] = After(queued, wire'[j])
    <2>1. CASE j \in 1..(W - 1)
      <3>1. j \in 1..W /\ j + 1 \in 1..W
        BY <1>1, <2>1
      <3> QED
        BY <1>2, <2>1, <3>1 DEF Delivering, Ordered
    <2>2. CASE j = W
      <3>1. j \in 1..W /\ wire # <<>> /\ 1 \in 1..n
        BY <1>1, <2>2
      <3>2. wire'[j + 1] = <<L, o + 1>> /\ wire'[j] = wire[W]
        BY <1>2, <1>3, <2>2, <3>1, Zenon
      <3> QED
        BY <1>6, <3>1, <3>2, Zenon DEF Expected
    <2>3. ASSUME NEW i \in 1..(n - 1), j = W + i
          PROVE  wire'[j + 1] = After(queued, wire'[j])
      <3>1. i \in 1..n /\ i + 1 \in 1..n /\ j + 1 = W + (i + 1)
        BY <1>1, <2>3
      <3>2. wire'[j] = <<L, o + i>> /\ wire'[j + 1] = <<L, o + (i + 1)>>
        BY <1>3, <2>3, <3>1, Zenon
      <3>3. o + i < queued[L].length
        BY <1>1, <1>6, <3>1 DEF LastQueued
      <3>4. o + (i + 1) = (o + i) + 1
        BY <1>1, <3>1
      <3> QED
        BY <3>2, <3>3, <3>4 DEF After
    <2>4. j \in 1..(W - 1) \/ j = W \/ (j - W \in 1..(n - 1) /\ j = W + (j - W))
      BY <1>1
    <2> QED
      BY <2>1, <2>2, <2>3, <2>4, Zenon
  <1>9. Ordered'
    <2>1. \A j \in 1..(Len(wire') - 1) : wire'[j + 1] = After(queued', wire'[j])
      BY <1>2, <1>8
    <2> QED
      BY <1>7, <2>1 DEF Ordered
  <1>10. wire' # <<>> /\ wire'[Len(wire')] = <<L, o + n>>
    <2>1. n \in 1..n /\ Len(wire') # 0
      BY <1>1, <1>2
    <2>2. wire'[W + n] = <<L, o + n>>
      BY <1>3, <2>1
    <2> QED
      BY <1>2, <2>1, <2>2
  <1> QED
    BY <1>5, <1>9, <1>10

\* A response that is queued changes nothing about the units already sent, and
\* its first unit is the one the peer expects.
LEMMA QueueInOrder ==
  ASSUME TypeOK, Delivering, state \in {"Reading", "Parsing"}, wire' = wire,
         NEW status \in {200, 400, 408, 501}, NEW keep \in BOOLEAN,
         NEW reason \in Reasons, NEW n \in 1..MaxResponse,
         Queues(status, keep, reason, n)
  PROVE  Delivering'
  <1> DEFINE L == Len(queued)
  <1>1. /\ queued' \in Seq(Response) /\ Len(queued') = L + 1 /\ L \in Nat
        /\ \A k \in 1..L : queued'[k] = queued[k]
        /\ LastQueued' = Queue(status, keep, n)
    BY DEF Queues, LastQueued, TypeOK
  <1>2. ASSUME NEW j \in 1..Len(wire)
        PROVE  /\ wire[j][1] \in 1..L /\ wire[j][1] \in 1..(L + 1)
               /\ After(queued', wire[j]) = After(queued, wire[j])
    <2>1. wire[j][1] \in 1..L
      BY DEF Delivering, Within
    <2>2. queued'[wire[j][1]] = queued[wire[j][1]]
      BY <1>1, <2>1
    <2>3. wire[j][1] \in 1..(L + 1)
      BY <1>1, <2>1
    <2> QED
      BY <2>1, <2>2, <2>3 DEF After
  <1>3. Within'
    BY <1>1, <1>2 DEF Within
  <1>4. Ordered'
    <2>1. ASSUME NEW j \in 1..(Len(wire) - 1)
          PROVE  wire[j + 1] = After(queued', wire[j])
      <3>1. j \in 1..Len(wire)
        BY DEF TypeOK
      <3>2. wire[j + 1] = After(queued, wire[j])
        BY DEF Delivering, Ordered
      <3> QED
        BY <1>2, <3>1, <3>2
    <2>2. wire # <<>> => wire[1] = <<1, 1>>
      BY DEF Delivering, Ordered
    <2> QED
      BY <2>1, <2>2 DEF Ordered
  <1>5. Expected' = <<L + 1, 1>>
    <2>1. CASE queued = <<>>
      <3>1. L = 0 /\ 1..L = {}
        BY <2>1
      <3>2. Len(wire) = 0
        <4>1. CASE Len(wire) # 0
          <5>1. 1 \in 1..Len(wire)
            BY <4>1 DEF TypeOK
          <5> QED
            BY <1>2, <3>1, <5>1
        <4> QED
          BY <4>1
      <3>3. wire = <<>>
        BY <3>2, EmptySeq DEF TypeOK
      <3> QED
        BY <3>1, <3>3 DEF Expected
    <2>2. CASE queued # <<>>
      <3>1. wire # <<>> /\ wire[Len(wire)] = <<L, LastQueued.length>>
        BY <2>2 DEF Delivering, AllDelivered
      <3>2. Len(wire) \in 1..Len(wire) /\ L \in 1..L
        BY <1>1, <2>2, <3>1, EmptySeq DEF TypeOK
      <3>3. queued[L].length = LastQueued.length /\ LastQueued.length \in Nat
        <4>1. queued[L] \in Response
          BY <3>2 DEF TypeOK
        <4> QED
          BY <4>1 DEF LastQueued, Response
      <3>4. After(queued, <<L, LastQueued.length>>) = <<L + 1, 1>>
        BY <3>3 DEF After
      <3>5. After(queued', wire[Len(wire)]) = <<L + 1, 1>>
        BY <1>2, <3>1, <3>2, <3>4
      <3> QED
        BY <3>1, <3>5 DEF Expected
    <2> QED
      BY <2>1, <2>2
  <1>6. /\ Len(pending_response') = n /\ LastQueued'.length = n /\ n \in Nat \ {0}
        /\ write_offset' = 0 /\ state' = "Writing"
        /\ \A i \in 1..n : pending_response'[i] = <<L + 1, i>>
    BY <1>1, Zenon DEF Queues, Queue
  <1>7. queued' # <<>> /\ 0 + 1 = 1 /\ 0 < n
    BY <1>1, <1>6
  <1> QED
    BY <1>1, <1>3, <1>4, <1>5, <1>6, <1>7 DEF Delivering

\* The write that completes a response delivers all there is.
LEMMA CompleteDelivers ==
  ASSUME TypeOK, Delivering, NEW n \in 1..MaxResponse, WriteComplete(n)
  PROVE  AllDelivered'
  <1>1. /\ state = "Writing" /\ Send(n) /\ queued' = queued
        /\ write_offset + n = Len(pending_response)
    BY DEF WriteComplete
  <1>2. wire' # <<>> /\ wire'[Len(wire')] = <<Len(queued), write_offset + n>>
    BY <1>1, SendInOrder
  <1>3. LastQueued.length = Len(pending_response) /\ LastQueued' = LastQueued
    BY <1>1 DEF Delivering, LastQueued
  <1> QED
    BY <1>1, <1>2, <1>3 DEF AllDelivered

\* A step keeps the order.
LEMMA DeliveringStep ==
  ASSUME TypeOK, Delivering, [Next]_vars
  PROVE  Delivering'
  <1>1. ASSUME UNCHANGED <<queued, wire>>
        PROVE  /\ Within' /\ Ordered' /\ UNCHANGED <<Expected, LastQueued>>
               /\ AllDelivered' <=> AllDelivered
    <2>1. Within' /\ Ordered'
      BY <1>1 DEF Delivering, Within, Ordered
    <2>2. UNCHANGED <<Expected, LastQueued>> /\ (AllDelivered' <=> AllDelivered)
      BY <1>1 DEF Expected, AllDelivered, LastQueued
    <2> QED
      BY <2>1, <2>2
  <1>2. CASE Waits
    <2>1. UNCHANGED <<state, queued, wire, pending_response, write_offset>>
      BY <1>2 DEF Waits
    <2> QED
      BY <1>1, <2>1 DEF Delivering
  <1>3. CASE Reads
    <2>1. UNCHANGED <<queued, wire>> /\ {state, state'} \subseteq {"Reading", "Parsing"}
      BY <1>3 DEF Reads
    <2> QED
      BY <1>1, <2>1 DEF Delivering
  <1>4. ASSUME NEW status \in {400, 408, 501}, NEW reason \in Reasons,
               NEW n \in 1..MaxResponse, Refuses(status, reason, n)
        PROVE  Delivering'
    <2>1. status \in {200, 400, 408, 501} /\ FALSE \in BOOLEAN
      OBVIOUS
    <2>2. queue_response(status, FALSE, reason, n)
      BY <1>4, Zenon DEF Refuses
    <2>3. Queues(status, FALSE, reason, n)
      BY <2>1, <2>2, QueueFacts, ZenonT(60)
    <2>4. wire' = wire /\ state \in {"Reading", "Parsing"}
      BY <1>4 DEF Refuses
    <2> QED
      BY <2>1, <2>3, <2>4, QueueInOrder, ZenonT(60)
  <1>5. ASSUME NEW keep \in BOOLEAN, NEW n \in 1..MaxResponse, Answers(keep, n)
        PROVE  Delivering'
    <2>1. PICK reason \in Reasons : queue_response(200, keep, reason, n)
      BY <1>5 DEF Answers, Reasons
    <2>2. 200 \in {200, 400, 408, 501}
      OBVIOUS
    <2>3. Queues(200, keep, reason, n)
      BY <2>1, <2>2, QueueFacts
    <2>4. wire' = wire /\ state \in {"Reading", "Parsing"}
      BY <1>5 DEF Answers
    <2> QED
      BY <2>2, <2>3, <2>4, QueueInOrder
  <1>6. ASSUME NEW reason \in Reasons, Ends(reason)
        PROVE  Delivering'
    <2>1. UNCHANGED <<queued, wire>> /\ state' = "Closed"
      BY <1>6 DEF Ends, finish
    <2> QED
      BY <1>1, <2>1 DEF Delivering
  <1>7. ASSUME NEW n \in 1..MaxResponse, Writes(n)
        PROVE  Delivering'
    <2> DEFINE L == Len(queued)
    <2>1. state = "Writing" /\ Send(n) /\ queued' = queued
      BY <1>7 DEF Writes, WritePartial, WriteComplete
    <2>2. /\ Within' /\ Ordered' /\ wire' # <<>>
          /\ wire'[Len(wire')] = <<L, write_offset + n>>
      BY <2>1, SendInOrder
    <2>3. /\ queued # <<>> /\ LastQueued.length = Len(pending_response)
          /\ \A i \in 1..Len(pending_response) : pending_response[i] = <<L, i>>
      BY <2>1 DEF Delivering
    <2>4. LastQueued' = LastQueued
      BY <2>1 DEF LastQueued
    <2>5. CASE WritePartial(n)
      <3>1. /\ write_offset' = write_offset + n /\ state' = "Writing"
            /\ pending_response' = pending_response
            /\ write_offset + n # Len(pending_response)
        BY <2>1, <2>5 DEF WritePartial
      <3>2. write_offset + n < Len(pending_response)
        BY <2>1, <3>1, SendFacts DEF TypeOK
      <3>3. Expected' = <<L, (write_offset + n) + 1>>
        <4>1. write_offset + n < queued[L].length
          BY <2>3, <3>2 DEF LastQueued
        <4>2. After(queued, <<L, write_offset + n>>) = <<L, (write_offset + n) + 1>>
          BY <4>1 DEF After
        <4> QED
          BY <2>1, <2>2, <4>2 DEF Expected
      <3> QED
        BY <2>1, <2>2, <2>3, <2>4, <3>1, <3>2, <3>3 DEF Delivering
    <2>6. CASE WriteComplete(n)
      <3>1. state' \in {"Closed", "Parsing"} /\ write_offset + n = Len(pending_response)
        BY <2>6 DEF WriteComplete, finish
      <3>2. AllDelivered'
        BY <2>6, CompleteDelivers
      <3> QED
        BY <2>2, <3>1, <3>2 DEF Delivering
    <2> QED
      BY <1>7, <2>5, <2>6 DEF Writes
  <1> QED
    BY <1>2, <1>3, <1>4, <1>5, <1>6, <1>7, StepKinds

\* The constructor's state.
LEMMA DeliveringInit ==
  ASSUME Init
  PROVE  Delivering
  <1>1. wire = <<>> /\ Len(wire) = 0 /\ queued = <<>> /\ state # "Writing"
    BY DEF Init
  <1> QED
    BY <1>1 DEF Delivering, Within, Ordered, AllDelivered

\* However send splits the responses, the peer receives every unit of them
\* once and in order, and a response is complete before the next request is
\* looked at.
THEOREM InOrder == SafeSpec => []WireInOrder
  <1>1. Delivering => WireInOrder
    BY DEF Delivering, Ordered, After, WireInOrder
  <1> QED
    BY <1>1, DeliveringInit, TypeCorrect, DeliveringStep, PTL DEF SafeSpec

-----------------------------------------------------------------------------
\* The reported reason.

\* A pending response has not been delivered.
LEMMA PendingUndelivered ==
  ASSUME TypeOK, Delivering, state = "Writing"
  PROVE  ~AllDelivered
  <1> DEFINE L == Len(queued)
  <1>1. /\ queued # <<>> /\ Expected = <<L, write_offset + 1>>
    BY DEF Delivering
  <1> SUFFICES ASSUME wire # <<>>, wire[Len(wire)] = <<L, LastQueued.length>>
               PROVE  FALSE
    BY <1>1 DEF AllDelivered
  <1>2. L \in 1..L /\ L \in Nat
    BY <1>1, EmptySeq DEF TypeOK
  <1>3. queued[L] \in Response
    BY <1>2 DEF TypeOK
  <1>4. queued[L].length = LastQueued.length /\ LastQueued.length \in Nat
    BY <1>3 DEF LastQueued, Response
  <1>5. After(queued, <<L, LastQueued.length>>) = <<L + 1, 1>>
    BY <1>4 DEF After
  <1>6. <<L, write_offset + 1>> = <<L + 1, 1>>
    BY <1>1, <1>5 DEF Expected
  <1> QED
    BY <1>2, <1>6

\* The idle deadline runs only behind an answer.
IdleAfterAnswer == read_phase = "KeepAlive" => queued # <<>>

\* Only the completion of a write starts the idle deadline.
LEMMA IdleStep ==
  ASSUME TypeOK, Answered, IdleAfterAnswer, [Next]_vars
  PROVE  IdleAfterAnswer'
  <1>1. queued # <<>> => queued' # <<>>
    <2>1. ASSUME NEW status \in {200, 400, 408, 501}, NEW keep \in BOOLEAN,
                 NEW reason \in Reasons, NEW n \in 1..MaxResponse,
                 queue_response(status, keep, reason, n)
          PROVE  queued' # <<>>
      <3>1. Len(queued') = Len(queued) + 1 /\ Len(queued) \in Nat
        BY <2>1, QueueFacts DEF Queues, TypeOK
      <3> QED
        BY <3>1
    <2>2. UNCHANGED queued \/ queued' # <<>>
      <3>1. Waits \/ Reads => UNCHANGED queued
        BY DEF Waits, Reads
      <3>2. \A reason \in Reasons : Ends(reason) => UNCHANGED queued
        BY DEF Ends
      <3>3. \A n \in 1..MaxResponse : Writes(n) => UNCHANGED queued
        BY DEF Writes, WritePartial, WriteComplete
      <3>4. ASSUME NEW status \in {400, 408, 501}, NEW reason \in Reasons,
                   NEW n \in 1..MaxResponse, Refuses(status, reason, n)
            PROVE  queued' # <<>>
        <4>1. queue_response(status, FALSE, reason, n)
          BY <3>4, Zenon DEF Refuses
        <4>2. status \in {200, 400, 408, 501} /\ FALSE \in BOOLEAN
          OBVIOUS
        <4> QED
          BY <2>1, <4>1, <4>2, ZenonT(60)
      <3>5. ASSUME NEW keep \in BOOLEAN, NEW n \in 1..MaxResponse, Answers(keep, n)
            PROVE  queued' # <<>>
        <4>1. PICK reason \in Reasons : queue_response(200, keep, reason, n)
          BY <3>5 DEF Answers, Reasons
        <4> QED
          BY <2>1, <4>1
      <3> QED
        BY <3>1, <3>2, <3>3, <3>4, <3>5, StepKinds
    <2> QED
      BY <2>2
  <1>2. ASSUME NEW n \in 1..MaxResponse, WriteComplete(n)
        PROVE  queued' # <<>>
    BY <1>2 DEF WriteComplete, Answered
  <1>3. \/ read_phase' \in {read_phase, "Request"}
        \/ \E n \in 1..MaxResponse : WriteComplete(n)
    <2> USE DEF readVars
    <2>1. ReadBlock \/ WriteBlock \/ ReadExpired \/ WriteExpired \/ Interrupted => UNCHANGED read_phase
      BY Zenon DEF ReadBlock, WriteBlock, ReadExpired, WriteExpired, Interrupted
    <2>2. ReadEof \/ ReadFails \/ WriteFails \/ Tick \/ Done \/ UNCHANGED vars => UNCHANGED read_phase
      BY DEF ReadEof, ReadFails, WriteFails, Tick, Done, vars
    <2>3. ParseNeedsMore \/ ParseError \/ ParseRequest => read_phase' \in {read_phase, "Request"}
      BY Zenon
      DEF ParseNeedsMore, ParseError, ParseRequest, StartDeadline, begin_request_timeout
    <2>4. \A data \in Data : ReadData(data) => read_phase' \in {read_phase, "Request"}
      BY DEF ReadData, begin_request_timeout
    <2>5. \A n \in 1..MaxResponse : WritePartial(n) => UNCHANGED read_phase
      BY DEF WritePartial
    <2> QED
      BY <2>1, <2>2, <2>3, <2>4, <2>5 DEF Next, Serve, Peer
  <1> QED
    BY <1>1, <1>2, <1>3 DEF IdleAfterAnswer

\* A step that ends the connection reports what happened.
LEMMA ReasonStep ==
  ASSUME TypeOK, Answered, Delivering, IdleAfterAnswer, BufferedRequestNeverWaits,
         EndReasonTruthful, [Next]_vars
  PROVE  EndReasonTruthful'
  <1> SUFFICES ASSUME state' = "Closed"
               PROVE  EndReasonTruthful'
    BY DEF EndReasonTruthful
  <1>1. ASSUME UNCHANGED <<queued, wire>>
        PROVE  LastQueued' = LastQueued /\ (AllDelivered' <=> AllDelivered)
    BY <1>1 DEF AllDelivered, LastQueued
  <1>2. CASE Waits
    <2>1. UNCHANGED <<state, result, queued, wire, buffer>>
      BY <1>2 DEF Waits
    <2> QED
      BY <1>1, <2>1 DEF EndReasonTruthful
  <1>3. ASSUME NEW reason \in Reasons, Ends(reason)
        PROVE  EndReasonTruthful'
    <2>1. UNCHANGED <<queued, wire, buffer>> /\ result'.reason = reason
      BY <1>3 DEF Ends, finish, TypeOK
    <2>2. CASE state = "Writing"
      <3>1. reason \in {"WriteTimeout", "WriteError"}
        BY <1>3, <2>2 DEF Ends
      <3>2. ~AllDelivered
        BY <2>2, PendingUndelivered
      <3> QED
        BY <1>1, <2>1, <3>1, <3>2 DEF EndReasonTruthful
    <2>3. CASE state = "Reading"
      <3>1. reason \in {"PeerClosed", "ReadError", "KeepAliveTimeout"}
        BY <1>3, <2>3 DEF Ends
      <3>2. AllDelivered /\ \A k \in 1..Len(queued) : queued[k].keep_alive
        BY <2>3 DEF Answered, AllKept, Delivering
      <3>3. reason = "KeepAliveTimeout" => buffer = <<>> /\ queued # <<>>
        BY <1>3, <2>3 DEF Ends, IdleAfterAnswer, BufferedRequestNeverWaits
      <3> QED
        BY <1>1, <2>1, <3>1, <3>2, <3>3 DEF EndReasonTruthful
    <2> QED
      BY <1>3, <2>2, <2>3 DEF Ends
  <1>4. ASSUME NEW n \in 1..MaxResponse, Writes(n)
        PROVE  EndReasonTruthful'
    <2>1. WriteComplete(n) /\ close_after_write
      BY <1>4 DEF Writes, WritePartial, WriteComplete
    <2>2. /\ result' = [result EXCEPT !.reason = close_reason_after_write]
          /\ UNCHANGED queued /\ state = "Writing"
      BY <2>1 DEF WriteComplete, finish
    <2>3. /\ result'.reason = close_reason_after_write
          /\ result'.requests_served = result.requests_served
      BY <2>2 DEF TypeOK
    <2>4. ClosesFor(close_reason_after_write)
      BY <2>1, <2>2 DEF Answered
    <2>5. AllDelivered'
      BY <2>1, CompleteDelivers
    <2>6. LastQueued' = LastQueued
      BY <2>2 DEF LastQueued
    <2> QED
      BY <2>2, <2>3, <2>4, <2>5, <2>6 DEF ClosesFor, EndReasonTruthful
  <1>5. ~Reads
    BY DEF Reads
  <1>6. \A status \in {400, 408, 501}, reason \in Reasons, n \in 1..MaxResponse :
          ~Refuses(status, reason, n)
    BY DEF Refuses, queue_response
  <1>7. \A keep \in BOOLEAN, n \in 1..MaxResponse : ~Answers(keep, n)
    BY DEF Answers, queue_response
  <1> QED
    BY <1>2, <1>3, <1>4, <1>5, <1>6, <1>7, StepKinds

\* The reason a connection reports is what happened to it: a write failure
\* exactly when the peer is owed something, and otherwise the kind of the last
\* answer, the limit that was reached or what ended the read.
THEOREM TrueReason == SafeSpec => []EndReasonTruthful
  <1>1. ASSUME Init PROVE IdleAfterAnswer /\ EndReasonTruthful
    BY <1>1 DEF Init, IdleAfterAnswer, EndReasonTruthful, AllDelivered
  <1> QED
    BY <1>1, TypeCorrect, PipelinedNeverWaits, AnsweredInit, AnsweredStep,
       DeliveringInit, DeliveringStep, IdleStep, ReasonStep, PTL DEF SafeSpec

-----------------------------------------------------------------------------
\* The time spent blocked.

\* What a call may overrun its deadline by.
Over == TicksPerUs - 1

\* The ticks that may still be spent blocked under a deadline, with t on the
\* timer of the call.
Left(left, t) == IF left > 0 THEN left + Over ELSE t

\* The deadlines of one more request, with the idle period before it.
Cycle == ReadTimeout + WriteTimeout + KeepAliveTimeout + 3 * Over

\* The requests that may follow when s are served.
Later(s) == (MaxRequests - s) * Cycle

\* The ticks that may still be spent blocked: under the current deadline, under
\* those this request still gets, and on the requests that may follow.
Budget ==
  IF state \in {"Reading", "Parsing"}
  THEN Left(read_left, timer) + (IF read_phase = "KeepAlive" THEN ReadTimeout + Over ELSE 0)
         + WriteTimeout + Over + Later(result.requests_served + 1)
  ELSE IF state = "Writing"
  THEN Left(write_left, timer) + (IF close_after_write THEN 0 ELSE Later(result.requests_served))
  ELSE 0

\* No armed timeout outlasts its deadline by a microsecond, and the time spent
\* and the time that may still be spent never exceed the bound.
WithinBudget ==
  /\ blocked /\ state = "Reading" => timer <= read_left + Over
  /\ blocked /\ state = "Writing" => timer <= write_left + Over
  /\ waited + Budget <= MaxBlocked

\* The arithmetic of the bound.
LEMMA BudgetFacts ==
  /\ Over \in Nat /\ Cycle \in Nat /\ MaxRequests \in Nat \ {0}
  /\ Cycle = ReadTimeout + WriteTimeout + KeepAliveTimeout + 3 * Over
  /\ \A s \in 0..MaxRequests : Later(s) \in Nat
  /\ \A s \in 0..(MaxRequests - 1) : Later(s) = Cycle + Later(s + 1)
  /\ MaxBlocked = ReadTimeout + Over + WriteTimeout + Over + Later(1)
  <1>1. /\ Over \in Nat /\ ReadTimeout \in Nat /\ WriteTimeout \in Nat
        /\ KeepAliveTimeout \in Nat /\ MaxRequests \in Nat \ {0}
    BY ConnectionAssumption DEF Over
  <1>2. Cycle \in Nat
    BY <1>1 DEF Cycle
  <1>3. ASSUME NEW s \in 0..MaxRequests
        PROVE  Later(s) \in Nat
    <2>1. MaxRequests - s \in Nat
      BY <1>1
    <2>2. \A a, b \in Nat : a * b \in Nat
      OBVIOUS
    <2> QED
      BY <1>2, <2>1, <2>2 DEF Later
  <1>4. ASSUME NEW s \in 0..(MaxRequests - 1)
        PROVE  Later(s) = Cycle + Later(s + 1)
    <2>1. MaxRequests - (s + 1) \in Nat /\ MaxRequests - s = (MaxRequests - (s + 1)) + 1
      BY <1>1
    <2>2. \A a, b \in Nat : (a + 1) * b = b + a * b
      OBVIOUS
    <2> QED
      BY <1>2, <2>1, <2>2 DEF Later
  <1>5. MaxBlocked = ReadTimeout + Over + WriteTimeout + Over + Later(1)
    <2> DEFINE m == MaxRequests - 1
               d == ReadTimeout + WriteTimeout + 2 * Over
               k == KeepAliveTimeout + Over
    <2>1. m \in Nat /\ d \in Nat /\ k \in Nat /\ MaxRequests = m + 1
      BY <1>1
    <2>2. MaxBlocked = (m + 1) * d + m * k
      <3>1. KeepAliveTimeout + TicksPerUs - 1 = k
        BY <1>1, ConnectionAssumption DEF Over
      <3> QED
        BY <2>1, <3>1 DEF MaxBlocked, Over
    <2>3. Cycle = d + k
      BY <1>1 DEF Cycle
    <2>4. \A a, b, c \in Nat : (a + 1) * b + a * c = b + a * (b + c)
      OBVIOUS
    <2>5. Later(1) = m * (d + k)
      BY <2>3 DEF Later
    <2>6. MaxBlocked = d + Later(1)
      <3> HIDE DEF m, d, k
      <3> QED
        BY <2>1, <2>2, <2>4, <2>5
    <2>7. Later(1) \in Nat
      BY <1>1, <1>3
    <2> QED
      BY <1>1, <2>6, <2>7
  <1> QED
    BY <1>1, <1>2, <1>3, <1>4, <1>5 DEF Cycle

\* The budget is a number.
LEMMA BudgetType ==
  ASSUME TypeOK, Answered
  PROVE  /\ Budget \in Nat /\ MaxBlocked \in Nat
         /\ Left(read_left, timer) \in Nat /\ Left(write_left, timer) \in Nat
         /\ state \in {"Reading", "Parsing"} => Later(result.requests_served + 1) \in Nat
         /\ Later(result.requests_served) \in Nat
  <1> DEFINE s == result.requests_served
  <1>1. /\ s \in Nat /\ s <= MaxRequests /\ MaxRequests \in Nat /\ Over \in Nat
        /\ ReadTimeout \in Nat /\ WriteTimeout \in Nat
    <2>1. s \in Nat /\ s <= MaxRequests
      BY DEF TypeOK, Answered, AnswersMatchRequests
    <2>2. MaxRequests \in Nat /\ Over \in Nat
      BY BudgetFacts
    <2> QED
      BY <2>1, <2>2, ConnectionAssumption
  <1>2. Left(read_left, timer) \in Nat /\ Left(write_left, timer) \in Nat
    BY <1>1 DEF Left, TypeOK
  <1>3. state \in {"Reading", "Parsing"} => s < MaxRequests
    BY DEF Answered
  <1>4. state \in {"Reading", "Parsing"} => Later(s + 1) \in Nat
    <2>1. ASSUME state \in {"Reading", "Parsing"} PROVE s + 1 \in 0..MaxRequests
      BY <1>1, <1>3, <2>1
    <2> QED
      BY <2>1, BudgetFacts
  <1>5. Later(s) \in Nat
    BY <1>1, BudgetFacts
  <1>6. MaxBlocked \in Nat
    <2>1. Later(1) \in Nat
      BY BudgetFacts
    <2> QED
      BY <1>1, <2>1, BudgetFacts
  <1>7. Budget \in Nat
    <2>1. CASE state \in {"Reading", "Parsing"}
      BY <1>1, <1>2, <1>4, <2>1 DEF Budget
    <2>2. CASE state = "Writing"
      <3>1. (IF close_after_write THEN 0 ELSE Later(s)) \in Nat
        BY <1>5
      <3> QED
        BY <1>2, <2>2, <3>1 DEF Budget
    <2>3. CASE state = "Closed"
      BY <2>3 DEF Budget
    <2> QED
      BY <2>1, <2>2, <2>3 DEF TypeOK
  <1> QED
    BY <1>2, <1>4, <1>5, <1>6, <1>7

\* A step after which the thread is not blocked and no time has passed.
Released == ~blocked' /\ timer' = 0 /\ waited' = waited

\* Such a step need only not add to the budget.
LEMMA ReleasedBudget ==
  ASSUME TypeOK, TypeOK', Answered, Answered', WithinBudget, Released, Budget' <= Budget
  PROVE  WithinBudget'
  <1>1. Budget \in Nat /\ MaxBlocked \in Nat
    BY BudgetType
  <1>2. Budget' \in Nat
    <2>1. (TypeOK /\ Answered => Budget \in Nat)'
      BY BudgetType, PTL
    <2> QED
      BY <2>1
  <1>3. waited \in Nat /\ waited' = waited
    BY DEF TypeOK, Released
  <1>4. waited + Budget <= MaxBlocked
    BY DEF WithinBudget
  <1>5. waited' + Budget' <= MaxBlocked
    <2>1. \A w, b, c, m \in Nat : w + b <= m /\ c <= b => w + c <= m
      OBVIOUS
    <2> QED
      BY <1>1, <1>2, <1>3, <1>4, <2>1, Zenon
  <1>6. ~blocked'
    BY DEF Released
  <1> QED
    BY <1>5, <1>6 DEF WithinBudget

\* The call begins.
LEMMA BlockBudget ==
  ASSUME TypeOK, WithinBudget, ReadBlock \/ WriteBlock
  PROVE  WithinBudget'
  <1> USE DEF readVars, writeVars
  <1>1. /\ UNCHANGED <<state, read_phase, read_left, write_left, waited, result>>
        /\ close_after_write' <=> close_after_write
    BY DEF ReadBlock, WriteBlock
  <1>2. CASE ReadBlock
    <2>1. state = "Reading" /\ read_left > 0 /\ timer' = KernelTimeout(armed_timeout(read_left))
      BY <1>2 DEF ReadBlock, Block
    <2>2. timer' <= read_left + Over
      BY <2>1, ArmedTimeout, ConnectionAssumption DEF TypeOK, Over
    <2>3. Left(read_left', timer') = Left(read_left, timer)
      BY <1>1, <2>1 DEF Left
    <2>4. Budget' = Budget
      BY <1>1, <2>1, <2>3 DEF Budget
    <2> QED
      BY <1>1, <2>1, <2>2, <2>4 DEF WithinBudget
  <1>3. CASE WriteBlock
    <2>1. state = "Writing" /\ write_left > 0 /\ timer' = KernelTimeout(armed_timeout(write_left))
      BY <1>3 DEF WriteBlock, Block
    <2>2. timer' <= write_left + Over
      BY <2>1, ArmedTimeout, ConnectionAssumption DEF TypeOK, Over
    <2>3. Left(write_left', timer') = Left(write_left, timer)
      BY <1>1, <2>1 DEF Left
    <2>4. Budget' = Budget
      BY <1>1, <2>1, <2>3 DEF Budget
    <2> QED
      BY <1>1, <2>1, <2>2, <2>4 DEF WithinBudget
  <1> QED
    BY <1>2, <1>3

\* A tick under a deadline, of a thread that runs or waits.
LEMMA TickLeft ==
  ASSUME TypeOK, NEW left \in Nat, NEW left1 \in Nat, Tick,
         left1 = IF left > 0 THEN left - 1 ELSE 0,
         blocked => timer <= left + Over
  PROVE  /\ blocked => timer' <= left1 + Over
         /\ blocked => (IF left1 > 0 THEN left1 + Over ELSE timer') + 1 <= Left(left, timer)
         /\ (IF left1 > 0 THEN left1 + Over ELSE timer') <= Left(left, timer)
         /\ (IF left1 > 0 THEN left1 + Over ELSE timer') \in Nat
  <1>1. timer \in Nat /\ Over \in Nat /\ timer' = (IF timer > 0 THEN timer - 1 ELSE timer)
    BY BudgetFacts DEF TypeOK, Tick
  <1>2. CASE blocked
    <2>1. timer # 0 /\ timer <= left + Over
      BY <1>2 DEF Tick
    <2>2. timer' = timer - 1
      BY <1>1, <2>1
    <2>3. CASE left > 1
      BY <1>1, <2>1, <2>2, <2>3 DEF Left
    <2>4. CASE left <= 1
      BY <1>1, <2>1, <2>2, <2>4 DEF Left
    <2> QED
      BY <2>3, <2>4
  <1>3. CASE ~blocked
    <2>1. timer = 0 /\ timer' = 0
      BY <1>1, <1>3 DEF TypeOK
    <2> QED
      BY <1>1, <1>3, <2>1 DEF Left
  <1> QED
    BY <1>2, <1>3

\* A tick spends of the budget what it adds to the time spent.
LEMMA TickBudget ==
  ASSUME TypeOK, Answered, WithinBudget, Tick
  PROVE  WithinBudget'
  <1> DEFINE s == result.requests_served
  <1>1. /\ UNCHANGED <<state, read_phase, result>>
        /\ read_left' = (IF read_left > 0 THEN read_left - 1 ELSE 0)
        /\ write_left' = (IF write_left > 0 THEN write_left - 1 ELSE 0)
        /\ state # "Closed"
    BY DEF Tick
  <1>2. (close_after_write' <=> close_after_write) /\ (blocked' <=> blocked)
    BY DEF Tick
  <1>3. waited' = (IF blocked THEN waited + 1 ELSE waited) /\ waited + Budget <= MaxBlocked
    <2>1. /\ waited' = (IF blocked /\ waited <= MaxBlocked THEN waited + 1 ELSE waited)
          /\ waited + Budget <= MaxBlocked /\ waited \in Nat
      BY DEF Tick, WithinBudget, TypeOK
    <2>2. Budget \in Nat /\ MaxBlocked \in Nat
      BY BudgetType
    <2> HIDE DEF Budget, MaxBlocked
    <2>3. waited <= MaxBlocked
      BY <2>1, <2>2
    <2> QED
      BY <2>1, <2>3, Zenon
  <1>4. /\ read_left \in Nat /\ write_left \in Nat /\ read_left' \in Nat /\ write_left' \in Nat
        /\ waited \in Nat
    BY <1>1 DEF TypeOK
  <1>5. MaxBlocked \in Nat /\ Over \in Nat /\ Budget \in Nat
    BY BudgetFacts, BudgetType
  <1>6. ASSUME NEW old \in Nat, NEW new \in Nat, NEW rest \in Nat,
               Budget = old + rest, Budget' = new + rest,
               new <= old, blocked => new + 1 <= old
        PROVE  waited' + Budget' <= MaxBlocked
    <2>1. CASE blocked
      BY <1>3, <1>4, <1>5, <1>6, <2>1
    <2>2. CASE ~blocked
      BY <1>3, <1>4, <1>5, <1>6, <2>2
    <2> QED
      BY <2>1, <2>2
  <1>7. CASE state \in {"Reading", "Parsing"}
    <2> DEFINE old == Left(read_left, timer)
               new == IF read_left' > 0 THEN read_left' + Over ELSE timer'
               rest == (IF read_phase = "KeepAlive" THEN ReadTimeout + Over ELSE 0)
                         + WriteTimeout + Over + Later(s + 1)
    <2>1. blocked => timer <= read_left + Over
      BY <1>7 DEF WithinBudget, TypeOK
    <2>2. /\ blocked => timer' <= read_left' + Over
          /\ new \in Nat /\ new <= old /\ (blocked => new + 1 <= old)
      BY <1>1, <1>4, <2>1, TickLeft, Zenon
    <2>3. old \in Nat /\ rest \in Nat
      BY <1>5, <1>7, BudgetType, ConnectionAssumption
    <2>4. Budget = old + rest /\ Budget' = new + rest
      <3>1. Budget = old + (IF read_phase = "KeepAlive" THEN ReadTimeout + Over ELSE 0)
                       + WriteTimeout + Over + Later(s + 1)
        BY <1>7 DEF Budget
      <3>2. Left(read_left', timer') = new
        BY DEF Left
      <3>3. Budget' = new + (IF read_phase = "KeepAlive" THEN ReadTimeout + Over ELSE 0)
                        + WriteTimeout + Over + Later(s + 1)
        BY <1>1, <1>7, <3>2 DEF Budget
      <3>4. Later(s + 1) \in Nat
        BY <1>7, BudgetType
      <3> HIDE DEF old, new
      <3> QED
        BY <1>5, <2>2, <2>3, <3>1, <3>3, <3>4, ConnectionAssumption
    <2> HIDE DEF old, new, rest
    <2>5. waited' + Budget' <= MaxBlocked
      BY <1>6, <2>2, <2>3, <2>4, Zenon
    <2> QED
      BY <1>1, <1>2, <1>7, <2>2, <2>5 DEF WithinBudget
  <1>8. CASE state = "Writing"
    <2> DEFINE old == Left(write_left, timer)
               new == IF write_left' > 0 THEN write_left' + Over ELSE timer'
               rest == IF close_after_write THEN 0 ELSE Later(s)
    <2>1. blocked => timer <= write_left + Over
      BY <1>8 DEF WithinBudget
    <2>2. /\ blocked => timer' <= write_left' + Over
          /\ new \in Nat /\ new <= old /\ (blocked => new + 1 <= old)
      BY <1>1, <1>4, <2>1, TickLeft
    <2>3. old \in Nat /\ rest \in Nat
      BY BudgetType
    <2>4. Budget = old + rest
      BY <1>8 DEF Budget
    <2>5. Budget' = new + rest
      <3>1. Left(write_left', timer') = new
        BY DEF Left
      <3> QED
        BY <1>1, <1>2, <1>8, <3>1 DEF Budget
    <2> HIDE DEF old, new, rest
    <2>6. waited' + Budget' <= MaxBlocked
      BY <1>6, <2>2, <2>3, <2>4, <2>5, Zenon
    <2> QED
      BY <1>1, <1>2, <1>8, <2>2, <2>6 DEF WithinBudget
  <1> QED
    BY <1>1, <1>7, <1>8 DEF TypeOK

\* A deadline that goes on running when the call returns.
LEMMA ReturnLeft ==
  ASSUME TypeOK, Released
  PROVE  /\ read_left' = read_left => Left(read_left', timer') <= Left(read_left, timer)
         /\ write_left' = write_left => Left(write_left', timer') <= Left(write_left, timer)
  <1>1. timer' = 0 /\ timer \in Nat /\ read_left \in Nat /\ write_left \in Nat /\ Over \in Nat
    BY BudgetFacts DEF TypeOK, Released
  <1>2. ASSUME read_left' = read_left
        PROVE  Left(read_left', timer') <= Left(read_left, timer)
    BY <1>1, <1>2 DEF Left
  <1>3. ASSUME write_left' = write_left
        PROVE  Left(write_left', timer') <= Left(write_left, timer)
    BY <1>1, <1>3 DEF Left
  <1> QED
    BY <1>2, <1>3

\* Data is read or found not to be enough: a request that begins gives up the
\* idle deadline for its own.
LEMMA ReadsBudget ==
  ASSUME TypeOK, TypeOK', Answered, Answered', Released, Reads,
         \/ read_phase = "KeepAlive" /\ begin_request_timeout
         \/ UNCHANGED readVars
  PROVE  Budget' <= Budget
  <1> DEFINE s == result.requests_served
  <1>1. {state, state'} \subseteq {"Reading", "Parsing"} /\ result' = result
    BY DEF Reads
  <1>2. Later(s + 1) \in Nat /\ Left(read_left, timer) \in Nat
    BY <1>1, BudgetType
  <1>3. /\ Over \in Nat /\ ReadTimeout \in Nat \ {0} /\ WriteTimeout \in Nat
    BY BudgetFacts, ConnectionAssumption
  <1>4. Left(read_left', timer') \in Nat
    <2>1. (TypeOK /\ Answered => Left(read_left, timer) \in Nat)'
      BY BudgetType, PTL
    <2> QED
      BY <2>1
  <1>5. Budget = Left(read_left, timer) + (IF read_phase = "KeepAlive" THEN ReadTimeout + Over ELSE 0)
                   + WriteTimeout + Over + Later(s + 1)
    BY <1>1 DEF Budget
  <1>6. Budget' = Left(read_left', timer') + (IF read_phase' = "KeepAlive" THEN ReadTimeout + Over ELSE 0)
                    + WriteTimeout + Over + Later(s + 1)
    BY <1>1 DEF Budget
  <1>7. CASE read_phase = "KeepAlive" /\ begin_request_timeout
    <2>1. read_phase' = "Request" /\ Left(read_left', timer') = ReadTimeout + Over
      <3>1. read_left' = ReadTimeout /\ read_phase' = "Request"
        BY <1>7 DEF begin_request_timeout
      <3>2. read_left' > 0
        BY <1>3, <3>1
      <3> QED
        BY <3>1, <3>2 DEF Left
    <2> QED
      BY <1>2, <1>3, <1>5, <1>6, <1>7, <2>1
  <1>8. CASE UNCHANGED readVars
    <2>1. read_phase' = read_phase /\ Left(read_left', timer') <= Left(read_left, timer)
      BY <1>8, ReturnLeft DEF readVars
    <2> QED
      BY <1>2, <1>3, <1>4, <1>5, <1>6, <2>1
  <1> QED
    BY <1>7, <1>8

\* A response is queued: its write deadline was in the budget, and so were the
\* requests that may follow it.
LEMMA QueueBudget ==
  ASSUME TypeOK, Answered, Answered', state \in {"Reading", "Parsing"},
         state' = "Writing", write_left' = WriteTimeout,
         \/ close_after_write' /\ result' = result
         \/ result'.requests_served = result.requests_served + 1
  PROVE  Budget' <= Budget
  <1> DEFINE s == result.requests_served
  <1>1. Later(s + 1) \in Nat /\ Left(read_left, timer) \in Nat
    BY BudgetType
  <1>2. /\ Over \in Nat /\ ReadTimeout \in Nat /\ WriteTimeout \in Nat \ {0}
    BY BudgetFacts, ConnectionAssumption
  <1>3. Budget = Left(read_left, timer) + (IF read_phase = "KeepAlive" THEN ReadTimeout + Over ELSE 0)
                   + WriteTimeout + Over + Later(s + 1)
    BY DEF Budget
  <1>4. WriteTimeout + Over + Later(s + 1) <= Budget
    BY <1>1, <1>2, <1>3
  <1>5. Left(write_left', timer') = WriteTimeout + Over
    <2>1. write_left' > 0
      BY <1>2
    <2> QED
      BY <2>1 DEF Left
  <1>6. Budget' = (WriteTimeout + Over)
                    + (IF close_after_write' THEN 0 ELSE Later(result'.requests_served))
    BY <1>5 DEF Budget
  <1>7. CASE close_after_write'
    <2>1. Budget' = WriteTimeout + Over
      BY <1>2, <1>6, <1>7
    <2>2. Budget \in Nat
      BY BudgetType
    <2> QED
      BY <1>1, <1>2, <1>4, <2>1, <2>2
  <1>8. CASE ~close_after_write'
    <2>1. result'.requests_served = s + 1
      BY <1>8
    <2>2. Budget' = (WriteTimeout + Over) + Later(s + 1)
      BY <1>6, <1>8, <2>1
    <2> QED
      BY <1>1, <1>2, <1>4, <2>2
  <1> QED
    BY <1>7, <1>8

\* A response is sent: the next request and the idle period before it were in
\* the budget.
LEMMA CompleteBudget ==
  ASSUME TypeOK, Answered, Answered', NEW n \in 1..MaxResponse, WriteComplete(n)
  PROVE  Budget' <= Budget
  <1> DEFINE s == result.requests_served
  <1>1. state = "Writing" /\ Budget \in Nat /\ Left(write_left, timer) \in Nat /\ Later(s) \in Nat
    BY BudgetType DEF WriteComplete
  <1>2. CASE close_after_write
    <2>1. state' = "Closed"
      BY <1>2 DEF WriteComplete, finish
    <2>2. Budget' = 0
      BY <2>1 DEF Budget
    <2> QED
      BY <1>1, <2>2
  <1>3. CASE ~close_after_write
    <2>1. /\ state' = "Parsing" /\ result' = result
          /\ read_phase' = "KeepAlive" /\ read_left' = KeepAliveTimeout
      BY <1>3 DEF WriteComplete, begin_keep_alive_timeout
    <2>2. s \in Nat /\ s < MaxRequests
      BY <1>1, <1>3 DEF Answered, TypeOK
    <2>3. /\ Over \in Nat /\ ReadTimeout \in Nat /\ WriteTimeout \in Nat
          /\ KeepAliveTimeout \in Nat \ {0} /\ MaxRequests \in Nat
      BY BudgetFacts, ConnectionAssumption
    <2>4. s \in 0..(MaxRequests - 1) /\ s + 1 \in 0..MaxRequests
      BY <2>2, <2>3
    <2>5. Later(s) = Cycle + Later(s + 1) /\ Later(s + 1) \in Nat
      BY <2>4, BudgetFacts
    <2>6. Cycle = ReadTimeout + WriteTimeout + KeepAliveTimeout + 3 * Over
      BY BudgetFacts
    <2>7. Budget = Left(write_left, timer) + Later(s)
      BY <1>1, <1>3 DEF Budget
    <2>8. Left(read_left', timer') = KeepAliveTimeout + Over
      <3>1. read_left' > 0
        BY <2>1, <2>3
      <3> QED
        BY <2>1, <3>1 DEF Left
    <2>9. Budget' = (KeepAliveTimeout + Over) + (ReadTimeout + Over)
                      + WriteTimeout + Over + Later(s + 1)
      BY <2>1, <2>8 DEF Budget
    <2> QED
      BY <1>1, <2>3, <2>5, <2>6, <2>7, <2>9
  <1> QED
    BY <1>2, <1>3

\* Every other step leaves the thread unblocked without a tick passing.
LEMMA OtherSteps ==
  ASSUME TypeOK, TypeOK', [Next]_vars, ~ReadBlock, ~WriteBlock, ~Tick, ~UNCHANGED vars
  PROVE  Released
  <1>1. ~blocked' /\ waited' = waited
    <2>1. ASSUME ReadExpired \/ WriteExpired
          PROVE  ~blocked' /\ waited' = waited
      <3>1. (~blocked /\ UNCHANGED blocked) \/ Return
        BY <2>1, Zenon DEF ReadExpired, WriteExpired, Expired, kernelVars
      <3>2. ~blocked'
        BY <3>1 DEF Return
      <3>3. waited' = waited
        BY <2>1, Zenon DEF ReadExpired, WriteExpired
      <3> QED
        BY <3>2, <3>3
    <2>2. ReadEof \/ ReadFails \/ WriteFails \/ Interrupted => ~blocked' /\ waited' = waited
      BY DEF ReadEof, ReadFails, WriteFails, Interrupted, Return, kernelVars
    <2>3. ASSUME ParseNeedsMore \/ ParseError \/ ParseRequest
          PROVE  ~blocked' /\ waited' = waited
      <3>1. state = "Parsing" /\ waited' = waited
        BY <2>3, Zenon DEF ParseNeedsMore, ParseError, ParseRequest
      <3>2. UNCHANGED blocked
        BY <2>3, Zenon DEF ParseNeedsMore, ParseError, ParseRequest, kernelVars
      <3>3. ~blocked
        BY <3>1 DEF TypeOK
      <3> QED
        BY <3>1, <3>2, <3>3
    <2>4. \A data \in Data : ReadData(data) => ~blocked' /\ waited' = waited
      BY DEF ReadData, Return
    <2>5. \A n \in 1..MaxResponse :
            WritePartial(n) \/ WriteComplete(n) => ~blocked' /\ waited' = waited
      BY DEF WritePartial, WriteComplete, Return
    <2> QED
      BY <2>1, <2>2, <2>3, <2>4, <2>5 DEF Next, Serve, Peer, Done
  <1>2. timer' = 0
    BY <1>1 DEF TypeOK
  <1> QED
    BY <1>1, <1>2 DEF Released

\* None of them adds to the budget.
LEMMA OtherBudget ==
  ASSUME TypeOK, TypeOK', Answered, Answered', [Next]_vars, Released,
         ~ReadBlock, ~WriteBlock, ~Tick, ~UNCHANGED vars
  PROVE  Budget' <= Budget
  <1>0. Budget \in Nat /\ Left(read_left, timer) \in Nat /\ Left(write_left, timer) \in Nat
    BY BudgetType
  <1>1. ASSUME state' = "Closed" PROVE Budget' <= Budget
    <2>1. Budget' = 0
      BY <1>1 DEF Budget
    <2> QED
      BY <1>0, <2>1
  <1>2. ASSUME UNCHANGED <<state, read_phase, read_left, write_left, result>>,
               close_after_write' <=> close_after_write
        PROVE  Budget' <= Budget
    <2>1. /\ Left(read_left', timer') <= Left(read_left, timer)
          /\ Left(write_left', timer') <= Left(write_left, timer)
      BY <1>2, ReturnLeft
    <2>2. Left(read_left', timer') \in Nat /\ Left(write_left', timer') \in Nat
      <3>1. (TypeOK /\ Answered =>
               Left(read_left, timer) \in Nat /\ Left(write_left, timer) \in Nat)'
        BY BudgetType, PTL
      <3> QED
        BY <3>1
    <2>3. Over \in Nat /\ ReadTimeout \in Nat /\ WriteTimeout \in Nat
      BY BudgetFacts, ConnectionAssumption
    <2>4. CASE state \in {"Reading", "Parsing"}
      <3> DEFINE phase == IF read_phase = "KeepAlive" THEN ReadTimeout + Over ELSE 0
                 later == Later(result.requests_served + 1)
      <3>1. phase \in Nat /\ later \in Nat
        BY <2>3, <2>4, BudgetType
      <3>2. /\ Budget = Left(read_left, timer) + phase + WriteTimeout + Over + later
            /\ Budget' = Left(read_left', timer') + phase + WriteTimeout + Over + later
        BY <1>2, <2>4 DEF Budget
      <3> HIDE DEF phase, later
      <3> QED
        BY <1>0, <2>1, <2>2, <2>3, <3>1, <3>2
    <2>5. CASE state = "Writing"
      <3> DEFINE later == IF close_after_write THEN 0 ELSE Later(result.requests_served)
      <3>1. later \in Nat
        BY BudgetType
      <3>2. Budget = Left(write_left, timer) + later
        BY <2>5 DEF Budget
      <3>3. Budget' = Left(write_left', timer') + later
        BY <1>2, <2>5 DEF Budget
      <3> HIDE DEF later
      <3> QED
        BY <1>0, <2>1, <2>2, <3>1, <3>2, <3>3
    <2>6. CASE state = "Closed"
      BY <1>1, <1>2, <2>6
    <2> QED
      BY <2>4, <2>5, <2>6 DEF TypeOK
  <1>3. CASE Interrupted
    BY <1>2, <1>3 DEF Interrupted, readVars, writeVars
  <1>4. ASSUME NEW n \in 1..MaxResponse, WritePartial(n)
        PROVE  Budget' <= Budget
    BY <1>2, <1>4 DEF WritePartial, readVars
  <1>5. ASSUME NEW n \in 1..MaxResponse, WriteComplete(n)
        PROVE  Budget' <= Budget
    BY <1>5, CompleteBudget
  <1>6. CASE ReadEof \/ ReadFails \/ WriteFails \/ WriteExpired
    BY <1>1, <1>6 DEF ReadEof, ReadFails, WriteFails, WriteExpired, finish
  <1>7. CASE ReadExpired
    <2>1. CASE read_phase = "KeepAlive"
      BY <1>1, <1>7, <2>1 DEF ReadExpired, finish
    <2>2. CASE read_phase # "KeepAlive"
      <3>1. /\ state = "Reading" /\ result' = result
            /\ \E n \in 1..MaxResponse : queue_response(408, FALSE, "ReadTimeout", n)
        BY <1>7, <2>2, Zenon DEF ReadExpired
      <3>2. state' = "Writing" /\ write_left' = WriteTimeout
        BY <3>1 DEF queue_response
      <3>3. close_after_write'
        BY <3>1, Zenon DEF queue_response
      <3> QED
        BY <3>1, <3>2, <3>3, QueueBudget
    <2> QED
      BY <2>1, <2>2
  <1>8. ASSUME NEW data \in Data, ReadData(data)
        PROVE  Budget' <= Budget
    <2>1. Reads /\ \/ read_phase = "KeepAlive" /\ begin_request_timeout
                   \/ UNCHANGED readVars
      BY <1>8 DEF ReadData, Reads, readVars, writeVars
    <2> QED
      BY <2>1, ReadsBudget
  <1>9. CASE ParseNeedsMore
    <2>1. Reads /\ \/ read_phase = "KeepAlive" /\ begin_request_timeout
                   \/ UNCHANGED readVars
      BY <1>9 DEF ParseNeedsMore, StartDeadline, Reads, readVars, writeVars
    <2> QED
      BY <2>1, ReadsBudget
  <1>10. CASE ParseError
    <2>1. state = "Parsing" /\ result' = result /\ state' = "Writing" /\ write_left' = WriteTimeout
      BY <1>10 DEF ParseError, queue_response
    <2>2. close_after_write'
      BY <1>10, Zenon DEF ParseError, queue_response
    <2> QED
      BY <2>1, <2>2, QueueBudget
  <1>11. CASE ParseRequest
    <2>1. /\ state = "Parsing" /\ state' = "Writing" /\ write_left' = WriteTimeout
          /\ result' = [result EXCEPT !.requests_served = @ + 1]
      BY <1>11 DEF ParseRequest, queue_response
    <2>2. result'.requests_served = result.requests_served + 1
      BY <2>1 DEF TypeOK
    <2> QED
      BY <2>1, <2>2, QueueBudget
  <1> QED
    BY <1>3, <1>4, <1>5, <1>6, <1>7, <1>8, <1>9, <1>10, <1>11 DEF Next, Serve, Peer, Done

\* A step keeps within the budget.
LEMMA WithinBudgetStep ==
  ASSUME TypeOK, TypeOK', Answered, Answered', WithinBudget, [Next]_vars
  PROVE  WithinBudget'
  <1>1. CASE UNCHANGED vars
    <2>1. /\ UNCHANGED <<state, read_phase, read_left, write_left, result, timer, waited>>
          /\ (blocked' <=> blocked) /\ (close_after_write' <=> close_after_write)
      BY <1>1 DEF vars, readVars, writeVars, kernelVars
    <2>2. Budget' = Budget
      BY <2>1 DEF Budget
    <2> QED
      BY <2>1, <2>2 DEF WithinBudget
  <1>2. CASE ~ReadBlock /\ ~WriteBlock /\ ~Tick /\ ~UNCHANGED vars
    <2>1. Released
      BY <1>2, OtherSteps
    <2>2. Budget' <= Budget
      BY <1>2, <2>1, OtherBudget
    <2> QED
      BY <2>1, <2>2, ReleasedBudget
  <1> QED
    BY <1>1, <1>2, BlockBudget, TickBudget

\* However the peer drips its bytes, drains the answers or stays silent, and
\* whatever interrupts the calls, a connection keeps its worker blocked for at
\* most a read and a write deadline per request and an idle deadline between
\* requests, each overrun by less than a microsecond.
THEOREM WorkerFreed == SafeSpec => []BlockedTimeBounded
  <1>1. ASSUME Init PROVE WithinBudget
    <2>1. /\ ~blocked /\ waited = 0 /\ read_left = ReadTimeout /\ read_phase = "Request"
          /\ result.requests_served = 0 /\ state \in {"Reading", "Closed"}
      BY <1>1 DEF Init
    <2>2. MaxBlocked \in Nat
      BY <1>1, TypeInit, AnsweredInit, BudgetType
    <2>3. CASE state = "Reading"
      <3>1. /\ Over \in Nat /\ ReadTimeout \in Nat \ {0} /\ WriteTimeout \in Nat
            /\ Later(0 + 1) \in Nat /\ 0 + 1 = 1
        BY BudgetFacts, ConnectionAssumption
      <3>2. Left(read_left, timer) = ReadTimeout + Over
        <4>1. read_left > 0
          BY <2>1, <3>1
        <4> QED
          BY <2>1, <4>1 DEF Left
      <3>3. Budget = (ReadTimeout + Over) + 0 + WriteTimeout + Over + Later(1)
        BY <2>1, <2>3, <3>1, <3>2 DEF Budget
      <3>4. waited + Budget <= MaxBlocked
        BY <2>1, <2>2, <3>1, <3>3, BudgetFacts
      <3> QED
        BY <2>1, <3>4 DEF WithinBudget
    <2>4. CASE state = "Closed"
      <3>1. Budget = 0
        BY <2>4 DEF Budget
      <3> QED
        BY <2>1, <2>2, <2>4, <3>1 DEF WithinBudget
    <2> QED
      BY <2>1, <2>3, <2>4
  <1>2. TypeOK /\ Answered /\ WithinBudget => BlockedTimeBounded
    BY BudgetType DEF TypeOK, WithinBudget, BlockedTimeBounded
  <1> QED
    BY <1>1, <1>2, TypeCorrect, TypeStep, AnsweredInit, AnsweredStep, WithinBudgetStep, PTL
       DEF SafeSpec
===============================================================================
