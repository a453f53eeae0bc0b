----------------------------- MODULE Connection ------------------------------
(***************************************************************************)
(* One client connection (src/connection.cpp): the Reading / Parsing /     *)
(* Writing / Closed loop of Connection::serve on a blocking socket with    *)
(* absolute deadlines.                                                     *)
(*                                                                         *)
(* Bytes are abstracted to units.  A received unit either is "part" of a   *)
(* request or completes one; the completing unit carries what the parser   *)
(* makes of it (module HttpParser has the parser itself).  The peer is     *)
(* arbitrary: it may send anything, close, reset or stall at any time.     *)
(*                                                                         *)
(* Deadlines are kept as the ticks left until they pass.  Time may pass    *)
(* between any two steps, but a system call does not outlast its timeout.  *)
(***************************************************************************)
EXTENDS Integers, Sequences

CONSTANTS
  ReadTimeout, KeepAliveTimeout, WriteTimeout,   \* ticks
  TicksPerUs,     \* clock resolution: ticks in a microsecond
  MaxRequests,    \* limits.max_requests
  MaxParts,       \* the parser's limits: units of a request before its last
  ReadSize,       \* units one read may return
  MaxResponse,    \* bound: units of a serialized response
  Requests        \* the requests a peer may send

\* The constructor throws on a timeout or a request limit of zero.
ASSUME ConnectionAssumption ==
  /\ ReadTimeout \in Nat \ {0} /\ KeepAliveTimeout \in Nat \ {0}
  /\ WriteTimeout \in Nat \ {0} /\ TicksPerUs \in Nat \ {0}
  /\ MaxRequests \in Nat \ {0} /\ MaxParts \in Nat
  /\ ReadSize \in Nat \ {0} /\ MaxResponse \in Nat \ {0}
  /\ Requests \subseteq [kind : {"request"}, version : {"HTTP/1.0", "HTTP/1.1"},
                         connection : SUBSET {"close", "keep-alive"}]

Units == Requests \cup [kind : {"part", "bad", "unsupported"}]

VARIABLES
  state, read_phase,
  read_left, write_left,   \* read_deadline_, write_deadline_
  buffer,                  \* the parser's unconsumed units
  pending_response, write_offset,
  close_after_write, close_reason_after_write,
  result,                  \* reason and requests_served
  \* kernel
  blocked,                 \* in read or send, with the timeout armed
  timer,                   \* ticks until that call times out
  \* history
  queued,                  \* every response, in order
  wire,                    \* every unit the peer was sent, in order
  waited                   \* ticks spent blocked

readVars == <<read_phase, read_left>>
writeVars == <<pending_response, write_offset, close_after_write,
               close_reason_after_write, write_left>>
kernelVars == <<blocked, timer>>
vars == <<state, readVars, writeVars, buffer, result, kernelVars,
          queued, wire, waited>>

\* The constructor; an invalid descriptor starts out closed.
Init ==
  /\ \/ state = "Reading" /\ result = [reason |-> "PeerClosed", requests_served |-> 0]
     \/ state = "Closed" /\ result = [reason |-> "ReadError", requests_served |-> 0]
  /\ read_phase = "Request" /\ read_left = ReadTimeout /\ write_left = 0
  /\ buffer = <<>> /\ pending_response = <<>> /\ write_offset = 0
  /\ close_after_write = FALSE /\ close_reason_after_write = "ConnectionClose"
  /\ blocked = FALSE /\ timer = 0
  /\ queued = <<>> /\ wire = <<>> /\ waited = 0

-----------------------------------------------------------------------------
\* Steps the handlers share.

finish(reason) ==
  /\ state' = "Closed"
  /\ result' = [result EXCEPT !.reason = reason]

\* The response of n units is serialized and becomes the pending one.
queue_response(status, keep_alive, close_reason, n) ==
  /\ pending_response' = [i \in 1..n |-> <<Len(queued) + 1, i>>]
  /\ write_offset' = 0
  /\ close_after_write' = ~keep_alive
  /\ close_reason_after_write' = close_reason
  /\ write_left' = WriteTimeout
  /\ state' = "Writing"
  /\ queued' = Append(queued, [status |-> status, keep_alive |-> keep_alive,
                               length |-> n])

begin_request_timeout ==
  read_phase' = "Request" /\ read_left' = ReadTimeout

begin_keep_alive_timeout ==
  read_phase' = "KeepAlive" /\ read_left' = KeepAliveTimeout

\* SO_RCVTIMEO and SO_SNDTIMEO count microseconds, and zero means no timeout.
Forever == -1

KernelTimeout(us) == IF us = 0 THEN Forever ELSE us * TicksPerUs

\* Seeded fault: less than a microsecond is truncated to zero.
armed_timeout_truncated(left) == left \div TicksPerUs

\* The microseconds armed for a deadline that has not passed.
armed_timeout(left) == IF left \div TicksPerUs = 0 THEN 1 ELSE left \div TicksPerUs

\* arm_socket_timeout succeeds and the system call blocks ...
Block(left) ==
  /\ ~blocked /\ left > 0
  /\ blocked' = TRUE /\ timer' = KernelTimeout(armed_timeout(left))

\* ... until it returns.
Return == blocked /\ blocked' = FALSE /\ timer' = 0

\* The deadline has passed before the call, or the call timed out.
Expired(left) ==
  \/ ~blocked /\ left = 0 /\ UNCHANGED kernelVars
  \/ timer = 0 /\ Return

-----------------------------------------------------------------------------
\* read_from_socket

ReadBlock ==
  /\ state = "Reading" /\ Block(read_left)
  /\ UNCHANGED <<state, readVars, writeVars, buffer, result, queued, wire, waited>>

\* Seeded fault: an idle timeout is taken for an interrupted call.
ReadExpiredRetries ==
  /\ state = "Reading" /\ Expired(read_left)
  /\ IF read_phase = "KeepAlive"
     THEN UNCHANGED <<state, result, writeVars, queued>>
     ELSE /\ \E n \in 1..MaxResponse : queue_response(408, FALSE, "ReadTimeout", n)
          /\ UNCHANGED result
  /\ UNCHANGED <<readVars, buffer, wire, waited>>

ReadExpired ==
  /\ state = "Reading" /\ Expired(read_left)
  /\ IF read_phase = "KeepAlive"
     THEN finish("KeepAliveTimeout") /\ UNCHANGED <<writeVars, queued>>
     ELSE /\ \E n \in 1..MaxResponse : queue_response(408, FALSE, "ReadTimeout", n)
          /\ UNCHANGED result
  /\ UNCHANGED <<readVars, buffer, wire, waited>>

\* read returns data: the first bytes after an idle period start the request's
\* deadline.
ReadData(data) ==
  /\ state = "Reading" /\ Return
  /\ IF read_phase = "KeepAlive" THEN begin_request_timeout ELSE UNCHANGED readVars
  /\ buffer' = buffer \o data
  /\ state' = "Parsing"
  /\ UNCHANGED <<writeVars, result, queued, wire, waited>>

ReadEof ==
  /\ state = "Reading" /\ Return
  /\ finish("PeerClosed")
  /\ UNCHANGED <<readVars, writeVars, buffer, queued, wire, waited>>

\* setsockopt or read fails.
ReadFails ==
  /\ state = "Reading"
  /\ Return \/ (~blocked /\ read_left > 0 /\ UNCHANGED kernelVars)
  /\ finish("ReadError")
  /\ UNCHANGED <<readVars, writeVars, buffer, queued, wire, waited>>

\* EINTR: the handler returns and is entered again.
Interrupted ==
  /\ Return
  /\ UNCHANGED <<state, readVars, writeVars, buffer, result, queued, wire, waited>>

-----------------------------------------------------------------------------
\* parse_request

should_keep_alive(request) ==
  /\ "close" \notin request.connection
  /\ request.version = "HTTP/1.1" \/ "keep-alive" \in request.connection

\* parser_.next(): the first unit that completes a request decides; without
\* one, more data is needed unless a limit is already exceeded.
Complete(buf) == {i \in DOMAIN buf : buf[i].kind # "part"}

FirstComplete(buf) == CHOOSE i \in Complete(buf) : \A j \in Complete(buf) : i <= j

next(buf) ==
  IF Complete(buf) = {}
  THEN [kind |-> IF Len(buf) > MaxParts THEN "bad" ELSE "need_more_data"]
  ELSE IF FirstComplete(buf) > MaxParts + 1 THEN [kind |-> "bad"]
  ELSE buf[FirstComplete(buf)]

\* Seeded fault: pipelined bytes leave the idle deadline running.
StartDeadlineSkipped == UNCHANGED readVars

\* Pipelined bytes that are already buffered start the request's deadline.
StartDeadline ==
  IF read_phase = "KeepAlive" /\ buffer # <<>>
  THEN begin_request_timeout ELSE UNCHANGED readVars

ParseNeedsMore ==
  /\ state = "Parsing" /\ next(buffer).kind = "need_more_data"
  /\ StartDeadline
  /\ state' = "Reading"
  /\ UNCHANGED <<writeVars, buffer, result, kernelVars, queued, wire, waited>>

ParseError ==
  /\ state = "Parsing" /\ next(buffer).kind \in {"bad", "unsupported"}
  /\ StartDeadline
  /\ \E n \in 1..MaxResponse :
       queue_response(IF next(buffer).kind = "bad" THEN 400 ELSE 501,
                      FALSE, "ParseError", n)
  /\ UNCHANGED <<buffer, result, kernelVars, wire, waited>>

\* Seeded faults: the limit is off by one; it is not reported as the reason.
ParseRequestOneMore ==
  /\ state = "Parsing" /\ next(buffer).kind = "request"
  /\ StartDeadline
  /\ buffer' = SubSeq(buffer, FirstComplete(buffer) + 1, Len(buffer))
  /\ result' = [result EXCEPT !.requests_served = @ + 1]
  /\ LET limit_reached == result'.requests_served > MaxRequests
         keep_alive == should_keep_alive(next(buffer)) /\ ~limit_reached
     IN  \E n \in 1..MaxResponse :
           queue_response(200, keep_alive,
                          IF limit_reached THEN "RequestLimit" ELSE "ConnectionClose", n)
  /\ UNCHANGED <<kernelVars, wire, waited>>

ParseRequestOneReason ==
  /\ state = "Parsing" /\ next(buffer).kind = "request"
  /\ StartDeadline
  /\ buffer' = SubSeq(buffer, FirstComplete(buffer) + 1, Len(buffer))
  /\ result' = [result EXCEPT !.requests_served = @ + 1]
  /\ LET limit_reached == result'.requests_served >= MaxRequests
         keep_alive == should_keep_alive(next(buffer)) /\ ~limit_reached
     IN  \E n \in 1..MaxResponse :
           queue_response(200, keep_alive, "ConnectionClose", n)
  /\ UNCHANGED <<kernelVars, wire, waited>>

\* The request is counted, routed and answered; the last one allowed closes.
ParseRequest ==
  /\ state = "Parsing" /\ next(buffer).kind = "request"
  /\ StartDeadline
  /\ buffer' = SubSeq(buffer, FirstComplete(buffer) + 1, Len(buffer))
  /\ result' = [result EXCEPT !.requests_served = @ + 1]
  /\ LET limit_reached == result'.requests_served >= MaxRequests
         keep_alive == should_keep_alive(next(buffer)) /\ ~limit_reached
     IN  \E n \in 1..MaxResponse :
           queue_response(200, keep_alive,
                          IF limit_reached THEN "RequestLimit" ELSE "ConnectionClose", n)
  /\ UNCHANGED <<kernelVars, wire, waited>>

-----------------------------------------------------------------------------
\* write_to_socket

WriteBlock ==
  /\ state = "Writing" /\ Block(write_left)
  /\ UNCHANGED <<state, readVars, writeVars, buffer, result, queued, wire, waited>>

WriteExpired ==
  /\ state = "Writing" /\ Expired(write_left)
  /\ finish("WriteTimeout")
  /\ UNCHANGED <<readVars, writeVars, buffer, queued, wire, waited>>

\* send takes n of the remaining units.
Send(n) ==
  /\ write_offset + n <= Len(pending_response)
  /\ wire' = wire \o SubSeq(pending_response, write_offset + 1, write_offset + n)

\* Seeded fault: the offset is not kept across a partial write.
WritePartialResends(n) ==
  /\ state = "Writing" /\ Return
  /\ Send(n) /\ write_offset + n # Len(pending_response)
  /\ UNCHANGED <<state, readVars, writeVars, buffer, result, queued, waited>>

WritePartial(n) ==
  /\ state = "Writing" /\ Return
  /\ Send(n) /\ write_offset + n # Len(pending_response)
  /\ write_offset' = write_offset + n
  /\ UNCHANGED <<state, readVars, pending_response, close_after_write,
                 close_reason_after_write, write_left, buffer, result, queued, waited>>

WriteComplete(n) ==
  /\ state = "Writing" /\ Return
  /\ Send(n) /\ write_offset + n = Len(pending_response)
  /\ pending_response' = <<>> /\ write_offset' = 0
  /\ IF close_after_write
     THEN finish(close_reason_after_write) /\ UNCHANGED readVars
     ELSE begin_keep_alive_timeout /\ state' = "Parsing" /\ UNCHANGED result
  /\ UNCHANGED <<close_after_write, close_reason_after_write, write_left, buffer,
                 queued, waited>>

\* setsockopt or send fails.
WriteFails ==
  /\ state = "Writing"
  /\ Return \/ (~blocked /\ write_left > 0 /\ UNCHANGED kernelVars)
  /\ finish("WriteError")
  /\ UNCHANGED <<readVars, writeVars, buffer, queued, wire, waited>>

-----------------------------------------------------------------------------
\* How long all the blocking calls of a connection may take together: a read
\* and a write deadline per request and an idle deadline between requests, each
\* rounded up to the resolution of the socket timeouts.
MaxBlocked ==
  MaxRequests * (ReadTimeout + WriteTimeout + 2 * (TicksPerUs - 1))
    + (MaxRequests - 1) * (KeepAliveTimeout + TicksPerUs - 1)

\* A tick passes: any time while the thread runs, and while it is blocked
\* until the call times out.  (waited stops counting one past MaxBlocked.)
Tick ==
  /\ state # "Closed" /\ (blocked => timer # 0)
  /\ read_left' = IF read_left > 0 THEN read_left - 1 ELSE 0
  /\ write_left' = IF write_left > 0 THEN write_left - 1 ELSE 0
  /\ timer' = IF timer > 0 THEN timer - 1 ELSE timer
  /\ waited' = IF blocked /\ waited <= MaxBlocked THEN waited + 1 ELSE waited
  /\ UNCHANGED <<state, read_phase, pending_response, write_offset,
                 close_after_write, close_reason_after_write, buffer, result,
                 blocked, queued, wire>>

-----------------------------------------------------------------------------
Data == UNION {[1..n -> Units] : n \in 1..ReadSize}

\* What the serving thread does without help from the peer.
Serve ==
  \/ ReadBlock \/ ReadExpired
  \/ ParseNeedsMore \/ ParseError \/ ParseRequest
  \/ WriteBlock \/ WriteExpired

\* What the peer, the network and signals make a system call return.
Peer ==
  \/ \E data \in Data : ReadData(data)
  \/ ReadEof \/ ReadFails
  \/ \E n \in 1..MaxResponse : WritePartial(n) \/ WriteComplete(n)
  \/ WriteFails \/ Interrupted

Done == state = "Closed" /\ UNCHANGED vars

Next == Serve \/ Peer \/ Tick \/ Done

\* The worker thread runs and time passes.  The peer need not do anything.
Fairness == WF_vars(Serve) /\ WF_vars(Tick)

SafeSpec == Init /\ [][Next]_vars

Spec == SafeSpec /\ Fairness

-----------------------------------------------------------------------------
LastQueued == queued[Len(queued)]

\* The peer has been sent every response in full.
AllDelivered ==
  queued # <<>> => /\ wire # <<>>
                   /\ wire[Len(wire)] = <<Len(queued), LastQueued.length>>

\* Every unit of every response goes out once and in order, however send splits
\* it, and a response is complete before the next request is looked at.
WireInOrder ==
  /\ wire # <<>> => wire[1] = <<1, 1>>
  /\ \A j \in 1..(Len(wire) - 1) :
       wire[j + 1] = IF wire[j][2] < queued[wire[j][1]].length
                     THEN <<wire[j][1], wire[j][2] + 1>>
                     ELSE <<wire[j][1] + 1, 1>>
  /\ state \in {"Reading", "Parsing"} => AllDelivered

\* One answer per request, at most one error answer and that the last; nothing
\* follows an answer that announces close, and the answer to the last request
\* allowed announces it.
AnswersMatchRequests ==
  /\ \A k \in 1..(Len(queued) - 1) :
       queued[k].keep_alive /\ queued[k].status = 200
  /\ result.requests_served =
       IF queued # <<>> /\ LastQueued.status # 200 THEN Len(queued) - 1 ELSE Len(queued)
  /\ result.requests_served <= MaxRequests
  /\ result.requests_served = MaxRequests => ~LastQueued.keep_alive

\* The thread blocks in read only when the buffer holds no complete request, so
\* a pipelined request never waits for more bytes; and under the idle deadline
\* only when it holds nothing, so a request that has begun, also one pipelined
\* behind the previous, has its own deadline.
BufferedRequestNeverWaits ==
  state = "Reading" => /\ next(buffer).kind = "need_more_data"
                       /\ read_phase = "KeepAlive" => buffer = <<>>

\* The reason reported for the end of a connection is what happened to it.
EndReasonTruthful ==
  state = "Closed" =>
    /\ result.reason \in {"WriteTimeout", "WriteError"} <=> ~AllDelivered
    /\ result.reason = "ConnectionClose" =>
         LastQueued.status = 200 /\ result.requests_served < MaxRequests
    /\ result.reason = "RequestLimit" => result.requests_served = MaxRequests
    /\ result.reason = "ParseError" => LastQueued.status \in {400, 501}
    /\ result.reason = "ReadTimeout" => LastQueued.status = 408
    /\ result.reason = "KeepAliveTimeout" => buffer = <<>> /\ queued # <<>>
    /\ result.reason \in {"PeerClosed", "ReadError", "KeepAliveTimeout"} =>
         \A k \in 1..Len(queued) : queued[k].keep_alive

\* However the peer drips its bytes or drains the answers, the time a
\* connection keeps its worker blocked is bounded by the deadlines, each
\* overrun by less than a microsecond.
BlockedTimeBounded == waited <= MaxBlocked

\* Every connection ends.
Terminates == <>(state = "Closed")
==============================================================================
