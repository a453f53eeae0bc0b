----------------------------- MODULE HttpParser ------------------------------
(***************************************************************************)
(* The incremental request parser (src/parser.cpp), driven the way         *)
(* Connection drives it: the bytes of a client arrive in arbitrary         *)
(* fragments, next() is called after each one and again after every        *)
(* request, and an error ends the connection.                              *)
(*                                                                         *)
(* A unit of the stream is a CR, an LF, a whole line without its CR LF, or *)
(* a body byte; sizes and limits count units.  A line is its content as    *)
(* far as the parser tells contents apart.  A body byte stands for one     *)
(* that no token may contain, so that a line it is part of is malformed.   *)
(***************************************************************************)
EXTENDS Integers, Sequences, FiniteSets

CONSTANTS
  MaxHeader,   \* max_header_bytes
  MaxBody,     \* max_body_bytes
  ReadSize,    \* units a fragment may have
  Messages,    \* the requests a client may send
  MaxMessages  \* bound: requests of one client

\* Request lines and their HTTP version; "bad line" stands for all others.
Version == [get11 |-> "HTTP/1.1", get10 |-> "HTTP/1.0"]

\* Header lines and the name of their field, in lower case.
FieldName == [host |-> "host", host_empty |-> "host",
              length_0 |-> "content-length", length_1 |-> "content-length",
              length_2 |-> "content-length", length_3 |-> "content-length",
              length_bad |-> "content-length", chunked |-> "transfer-encoding",
              close |-> "connection", keep_alive |-> "connection",
              other |-> "other"]

\* What parse_content_length accepts, and the value it stores.
ContentLength == [length_0 |-> 0, length_1 |-> 1, length_2 |-> 2, length_3 |-> 3]

\* A request: its lines and the number of bytes the client sends after them.
ASSUME ParserAssumption ==
  /\ MaxHeader \in Nat /\ MaxBody \in Nat /\ ReadSize \in Nat \ {0}
  /\ MaxMessages \in Nat
  /\ \A m \in Messages :
       /\ m.line \in DOMAIN Version \cup {"bad_line"}
       /\ m.fields \in Seq(DOMAIN FieldName \cup {"bad_field"})
       /\ m.body \in Nat

VARIABLES
  sent,     \* the requests of this client
  stream,   \* the units of them that have not arrived
  buffer,   \* buffer_
  status,   \* of the last next(), or "Fed" when it is due
  out       \* the results next() has returned, NeedMoreData left out

vars == <<sent, stream, buffer, status, out>>

-----------------------------------------------------------------------------
\* next()

\* The offsets at which the blank line that ends a header block is found.
HeaderEnds(buf) ==
  {e \in 0..(Len(buf) - 4) : SubSeq(buf, e + 1, e + 4) = <<"CR", "LF", "CR", "LF">>}

header_end(buf) == CHOOSE e \in HeaderEnds(buf) : \A f \in HeaderEnds(buf) : e <= f

\* A header block is a request line and header lines with CR LF between them;
\* any other arrangement of units has a malformed line.
LinesSeparated(block) ==
  /\ Len(block) % 3 = 1
  /\ \A i \in DOMAIN block :
       /\ i % 3 = 2 => block[i] = "CR"
       /\ i % 3 = 0 => block[i] = "LF"

header_fields(block) == [k \in 1..(Len(block) \div 3) |-> block[3 * k + 1]]

Names(fields) == {FieldName[fields[k]] : k \in DOMAIN fields}

\* Every header line parses, and only Connection may be repeated.
FieldsAccepted(fields) ==
  /\ \A k \in DOMAIN fields : fields[k] \in DOMAIN FieldName
  /\ \A j, k \in DOMAIN fields :
       j # k /\ FieldName[fields[j]] = FieldName[fields[k]] =>
         FieldName[fields[j]] = "connection"

Has(fields, l) == \E k \in DOMAIN fields : fields[k] = l

BadRequest == [kind |-> "BadRequest"]
Unsupported == [kind |-> "UnsupportedTransferEncoding"]
NeedMoreData == [kind |-> "NeedMoreData"]

\* The length the headers declare.
content_length(fields) ==
  IF "content-length" \in Names(fields)
  THEN ContentLength[CHOOSE l \in DOMAIN ContentLength : Has(fields, l)]
  ELSE 0

\* What next() makes of a complete header block.
HeadersResult(line, fields) ==
  IF line \notin DOMAIN Version \/ ~FieldsAccepted(fields) THEN BadRequest
  ELSE IF Version[line] = "HTTP/1.1" /\ ~Has(fields, "host") THEN BadRequest
  ELSE IF {"transfer-encoding", "content-length"} \subseteq Names(fields) THEN BadRequest
  ELSE IF "transfer-encoding" \in Names(fields) THEN Unsupported
  ELSE IF Has(fields, "length_bad") THEN BadRequest
  ELSE IF content_length(fields) > MaxBody THEN BadRequest
  ELSE [kind |-> "RequestReady", line |-> line, fields |-> fields,
        body |-> content_length(fields)]

\* A block without a request line has a malformed one.
BlockResult(block) ==
  IF LinesSeparated(block) THEN HeadersResult(block[1], header_fields(block))
  ELSE BadRequest

\* Seeded fault: an unterminated header block may grow without limit.
next_unlimited(buf) ==
  IF HeaderEnds(buf) = {} THEN NeedMoreData
  ELSE IF header_end(buf) > MaxHeader THEN BadRequest
  ELSE LET r == BlockResult(SubSeq(buf, 1, header_end(buf)))
       IN  IF r.kind = "RequestReady" /\ Len(buf) - (header_end(buf) + 4) < r.body
           THEN NeedMoreData ELSE r

next(buf) ==
  IF HeaderEnds(buf) = {}
  THEN IF Len(buf) > MaxHeader THEN BadRequest ELSE NeedMoreData
  ELSE IF header_end(buf) > MaxHeader THEN BadRequest
  ELSE LET r == BlockResult(SubSeq(buf, 1, header_end(buf)))
       IN  IF r.kind = "RequestReady" /\ Len(buf) - (header_end(buf) + 4) < r.body
           THEN NeedMoreData ELSE r

-----------------------------------------------------------------------------
\* The client's bytes.

HeaderSize(m) == 1 + 3 * Len(m.fields)

Size(m) == HeaderSize(m) + 4 + m.body

\* A client sends the body that it declares; what it appends to a request that
\* next() refuses is free, for the connection ends there.
ASSUME DeclaredBodies ==
  \A m \in Messages :
    LET r == HeadersResult(m.line, m.fields)
    IN  r.kind = "RequestReady" => m.body = r.body

Render(m) ==
  [i \in 1..Size(m) |->
     IF i > HeaderSize(m) + 4 THEN "body"
     ELSE IF i > HeaderSize(m) THEN <<"CR", "LF", "CR", "LF">>[i - HeaderSize(m)]
     ELSE IF i = 1 THEN m.line
     ELSE IF i % 3 = 1 THEN m.fields[i \div 3]
     ELSE IF i % 3 = 2 THEN "CR" ELSE "LF"]

\* Where the k-th request ends in the stream.
EndOf(ms) ==
  LET end[k \in 0..Len(ms)] == IF k = 0 THEN 0 ELSE end[k - 1] + Size(ms[k])
  IN  end

Concat(ms) ==
  LET cat[k \in 0..Len(ms)] == IF k = 0 THEN <<>> ELSE cat[k - 1] \o Render(ms[k])
  IN  cat[Len(ms)]

Init ==
  /\ sent \in UNION {[1..n -> Messages] : n \in 1..MaxMessages}
  /\ stream = Concat(sent)
  /\ buffer = <<>> /\ status = "NeedMoreData" /\ out = <<>>

\* read returns a fragment and feed appends it.
Feed(n) ==
  /\ status = "NeedMoreData" /\ n <= Len(stream)
  /\ buffer' = buffer \o SubSeq(stream, 1, n)
  /\ stream' = SubSeq(stream, n + 1, Len(stream))
  /\ status' = "Fed"
  /\ UNCHANGED <<sent, out>>

NextNeedsMore ==
  /\ status \in {"Fed", "RequestReady"} /\ next(buffer).kind = "NeedMoreData"
  /\ status' = "NeedMoreData"
  /\ UNCHANGED <<sent, stream, buffer, out>>

\* Seeded fault: the body is not consumed with its request.
NextReadyKeepsBody ==
  /\ status \in {"Fed", "RequestReady"} /\ next(buffer).kind = "RequestReady"
  /\ out' = Append(out, next(buffer))
  /\ buffer' = SubSeq(buffer, header_end(buffer) + 4 + 1, Len(buffer))
  /\ status' = "RequestReady"
  /\ UNCHANGED <<sent, stream>>

NextReady ==
  /\ status \in {"Fed", "RequestReady"} /\ next(buffer).kind = "RequestReady"
  /\ out' = Append(out, next(buffer))
  /\ buffer' = SubSeq(buffer, header_end(buffer) + 4 + next(buffer).body + 1, Len(buffer))
  /\ status' = "RequestReady"
  /\ UNCHANGED <<sent, stream>>

NextError ==
  /\ status \in {"Fed", "RequestReady"}
  /\ next(buffer).kind \in {"BadRequest", "UnsupportedTransferEncoding"}
  /\ out' = Append(out, next(buffer))
  /\ status' = "Error"
  /\ UNCHANGED <<sent, stream, buffer>>

\* The client has sent everything, or the connection was closed on an error.
Done ==
  /\ status = "Error" \/ (status = "NeedMoreData" /\ stream = <<>>)
  /\ UNCHANGED vars

Next ==
  \/ \E n \in 1..ReadSize : Feed(n)
  \/ NextNeedsMore \/ NextReady \/ NextError
  \/ Done

Spec == Init /\ [][Next]_vars

-----------------------------------------------------------------------------
\* What the client should be told about request m.
Expected(m) ==
  IF HeaderSize(m) > MaxHeader THEN BadRequest ELSE HeadersResult(m.line, m.fields)

\* The header block is within the limit, but together with part of the blank
\* line that ends it it is not.
AtLimit(m) == HeaderSize(m) \in (MaxHeader - 2)..MaxHeader

Arrived == Len(Concat(sent)) - Len(stream)

\* Requests come out as they went in, one by one and in order, wherever the
\* stream was cut: no unit of a request is taken for part of its neighbour,
\* and no request that has arrived in full is held back.  (Within three bytes
\* of the header limit a request may be refused instead.)
FramingExact ==
  /\ Len(out) <= Len(sent)
  /\ \A k \in DOMAIN out :
       \/ out[k] = Expected(sent[k])
       \/ AtLimit(sent[k]) /\ k = Len(out) /\ out[k] = BadRequest
  /\ status = "NeedMoreData" =>
       Len(out) = Cardinality({k \in DOMAIN sent : EndOf(sent)[k] <= Arrived})

\* However much is declared or left unfinished, what is buffered stays within
\* the limits plus one read.
BufferBounded == Len(buffer) <= MaxHeader + 3 + MaxBody + ReadSize

\* The verdict on a request does not depend on how it was fragmented.
FragmentationIndependent ==
  \A k \in DOMAIN out : out[k] = Expected(sent[k])
==============================================================================
