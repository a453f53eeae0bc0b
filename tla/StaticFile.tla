----------------------------- MODULE StaticFile ------------------------------
(***************************************************************************)
(* One request on its way through route_request, StaticFileHandler::handle *)
(* and serialize_response (src/router.cpp, src/static_file_handler.cpp,    *)
(* src/response.cpp) over a file system that others change meanwhile.      *)
(*                                                                         *)
(* Every file-system call of the handler is a step of its own, because the *)
(* handler keeps a path, not a file: what one call found out may be stale  *)
(* at the next.  Characters are their codes; the contents of a file are a  *)
(* sequence of units.  Symbolic links are not modelled, so a normal path   *)
(* is canonical but for the slash that may be left at its end.             *)
(***************************************************************************)
EXTENDS Integers, Sequences, SequencesExt

CONSTANTS
  Methods,        \* request methods
  Targets,        \* request targets, in origin form
  Objects,        \* what a path may lead to
  Root,           \* root_, a sequence of components
  MaxFileBytes,   \* max_file_bytes_
  ReadSize,       \* units one read of read_file asks for
  MaxChanges      \* bound: changes of the file system during a request

ObjectKinds == {"absent", "directory", "regular"}

ASSUME StaticFileAssumption ==
  /\ MaxFileBytes \in Nat /\ ReadSize \in Nat \ {0} /\ MaxChanges \in Nat
  /\ \A t \in Targets : t \in Seq(0..255)
  /\ \A o \in Objects : /\ o.kind \in ObjectKinds /\ o.readable \in BOOLEAN
                        /\ o.data \in Seq(STRING)

Object(kind, data) == [kind |-> kind, data |-> data, readable |-> TRUE]
Absent == Object("absent", <<>>)
Directory == Object("directory", <<>>)

VARIABLES
  pc, method, target,
  candidate,    \* where the target leads, once resolved
  stream,       \* the open file of read_file
  body,         \* what read_file has read
  response,     \* the response as serialized
  entry,        \* the object at the candidate path
  \* history
  changes,      \* changes made during this request
  seen,         \* the objects the candidate path has led to meanwhile
  rewritten,    \* a file was changed in place meanwhile
  failed        \* a file-system call failed for reasons of its own

requestVars == <<method, target>>
fsVars == <<entry, changes, seen, rewritten>>
vars == <<pc, requestVars, candidate, stream, body, response, fsVars, failed>>

-----------------------------------------------------------------------------
\* From the target to the candidate path.

Slash == 47
Percent == 37
Question == 63
DotCode == 46

\* "index.html", as one code beyond those of characters.
IndexHtml == 256

extract_path(t) ==
  IF Contains(t, Question) THEN SubSeq(t, 1, SelectInSeq(t, LAMBDA c : c = Question) - 1)
                           ELSE t

hex_value(c) ==
  IF c \in 48..57 THEN c - 48
  ELSE IF c \in 97..102 THEN c - 97 + 10
  ELSE IF c \in 65..70 THEN c - 65 + 10
  ELSE -1

Malformed == [ok |-> FALSE, text |-> <<>>]

\* Seeded fault: an escape in the last three characters is cut off.
EscapeFitsShort(input, i) == i + 2 < Len(input)

EscapeFits(input, i) == i + 2 <= Len(input)

percent_decode(input) ==
  LET Prepend(c, rest) == IF rest.ok THEN [rest EXCEPT !.text = <<c>> \o @] ELSE rest
      From[i \in 1..(Len(input) + 1)] ==
        IF i > Len(input) THEN [ok |-> TRUE, text |-> <<>>]
        ELSE IF input[i] # Percent THEN Prepend(input[i], From[i + 1])
        ELSE IF ~EscapeFits(input, i) THEN Malformed
        ELSE LET high == hex_value(input[i + 1])
                 low == hex_value(input[i + 2])
             IN IF high < 0 \/ low < 0 \/ 16 * high + low = 0 THEN Malformed
                ELSE Prepend(16 * high + low, From[i + 3])
  IN From[1]

\* The components of a path, an empty one after a trailing slash included.
Components(text) ==
  FoldLeft(LAMBDA parts, c : IF c = Slash THEN Append(parts, <<>>)
                             ELSE [parts EXCEPT ![Len(parts)] = Append(@, c)],
           <<<<>>>>, text)

\* weakly_canonical(root_ / make_relative_path(text)): "." and empty
\* components go, ".." takes back the one before it.
Canonical(text) ==
  FoldLeft(LAMBDA path, part :
             IF part \in {<<>>, <<DotCode>>} THEN path
             ELSE IF part = <<DotCode, DotCode>>
                  THEN IF path = <<>> THEN path ELSE Front(path)
             ELSE Append(path, part),
           Root, Components(text))

is_inside_root(path) == IsPrefix(Root, path)

\* Where a target leads; only a directory has the name of one (names_dir).
Resolve(t) ==
  LET path == extract_path(t)
      decoded == percent_decode(IF path = <<Slash>> THEN <<Slash, IndexHtml>> ELSE path)
      final == Canonical(decoded.text)
  IN IF ~decoded.ok \/ decoded.text = <<>> \/ decoded.text[1] # Slash
     THEN [place |-> "malformed", names_dir |-> FALSE]
     ELSE IF ~is_inside_root(final) THEN [place |-> "outside", names_dir |-> FALSE]
     ELSE [place |-> IF final = Root THEN "root" ELSE "below",
           names_dir |-> Last(Components(decoded.text))
                           \in {<<>>, <<DotCode>>, <<DotCode, DotCode>>}]

Unresolved == [place |-> "unresolved", names_dir |-> FALSE]

-----------------------------------------------------------------------------
\* Responses.

NoLength == -1

make_response(status) ==
  [status |-> status, body |-> <<"text">>, content_length |-> NoLength,
   suppress_body |-> FALSE]

\* Seeded fault: the header of an answer to HEAD describes the empty body.
AsHeadEmpty(r) == [r EXCEPT !.content_length = 0, !.suppress_body = TRUE]

AsHead(r) ==
  [r EXCEPT !.content_length = IF @ = NoLength THEN Len(r.body) ELSE @,
            !.suppress_body = TRUE]

route_request(m, r) == IF m = "HEAD" THEN AsHead(r) ELSE r

\* Seeded fault: suppress_body is ignored.
serialize_response_whole(r) ==
  [status |-> r.status, body |-> r.body,
   content_length |-> IF r.content_length = NoLength THEN Len(r.body)
                                                     ELSE r.content_length]

serialize_response(r) ==
  [status |-> r.status,
   content_length |-> IF r.content_length = NoLength THEN Len(r.body)
                                                     ELSE r.content_length,
   body |-> IF r.suppress_body THEN <<>> ELSE r.body]

NoResponse == [status |-> 0, content_length |-> 0, body |-> <<>>]

\* The handler returns r.
Finish(r) ==
  /\ response' = serialize_response(route_request(method, r))
  /\ pc' = "done"

Goto(label) == pc' = label /\ UNCHANGED response

-----------------------------------------------------------------------------
\* The handler, one step per call into the file system.

\* weakly_canonical takes the final slash off what it finds to be a directory,
\* but not when the path ends in `x/..' and there is no x.
WeaklyCanonical(path) ==
  IF entry.kind = "directory" THEN {path, [path EXCEPT !.names_dir = FALSE]} ELSE {path}

\* A request is routed and its target resolved, as far as weakly_canonical.
Route ==
  /\ pc = "route"
  /\ IF method \notin {"GET", "HEAD"}
     THEN Finish(make_response(405)) /\ UNCHANGED candidate
     ELSE /\ candidate' \in WeaklyCanonical(Resolve(target))
          /\ IF candidate'.place = "malformed" THEN Finish(make_response(400))
             ELSE IF candidate'.place = "outside" THEN Finish(make_response(403))
             ELSE Goto("exists")
  /\ target' = <<>>
  /\ UNCHANGED <<method, stream, body, fsVars, failed>>

\* What a call on the candidate path finds.
Stat ==
  IF candidate.place = "root" THEN Directory
  ELSE IF candidate.names_dir /\ entry.kind = "regular" THEN Absent
  ELSE entry

Exists ==
  /\ pc = "exists"
  /\ IF Stat.kind = "absent" THEN Finish(make_response(404)) ELSE Goto("regular")
  /\ UNCHANGED <<requestVars, candidate, stream, body, fsVars, failed>>

\* Seeded fault: what is no regular file is reported missing.
NotRegularMissing == make_response(404)

NotRegular == make_response(403)

IsRegularFile ==
  /\ pc = "regular"
  /\ IF Stat.kind # "regular" THEN Finish(NotRegular) ELSE Goto("size")
  /\ UNCHANGED <<requestVars, candidate, stream, body, fsVars, failed>>

\* serve_file up to read_file; file_size is an error on anything else than a
\* regular file.
FileSize ==
  /\ pc = "size"
  /\ IF Stat.kind # "regular" \/ Len(Stat.data) > MaxFileBytes
     THEN Finish(make_response(403))
     ELSE IF method = "HEAD"
          THEN Finish([status |-> 200, body |-> <<>>, suppress_body |-> TRUE,
                       content_length |-> Len(Stat.data)])
          ELSE Goto("open")
  /\ UNCHANGED <<requestVars, candidate, stream, body, fsVars, failed>>

Closed == [kind |-> "none", data |-> <<>>, live |-> FALSE]

\* A directory can be opened, but not read.
Open ==
  /\ pc = "open"
  /\ IF Stat.kind = "absent" \/ ~Stat.readable
     THEN Finish(make_response(403)) /\ UNCHANGED stream
     ELSE /\ stream' = [kind |-> Stat.kind, data |-> <<>>, live |-> TRUE]
          /\ Goto("read")
  /\ UNCHANGED <<requestVars, candidate, body, fsVars, failed>>

\* Seeded fault: every read opens the path again.
StreamDataReopened == entry.data

\* A stream stays with the file it was opened on.
StreamData == IF stream.live THEN entry.data ELSE stream.data

\* Seeded fault: the size found by file_size is trusted.
FitsUnchecked(count) == TRUE

Fits(count) == count <= MaxFileBytes - Len(body)

\* What one read yields.
Chunk ==
  SubSeq(StreamData, Len(body) + 1,
         IF Len(body) + ReadSize < Len(StreamData) THEN Len(body) + ReadSize
                                                   ELSE Len(StreamData))

ReadFile ==
  /\ pc = "read"
  /\ IF stream.kind # "regular" \/ ~Fits(Len(Chunk))
     THEN Finish(make_response(403)) /\ UNCHANGED body
     ELSE /\ body' = body \o Chunk
          /\ IF Len(Chunk) < ReadSize
             THEN Finish([status |-> 200, body |-> body', suppress_body |-> FALSE,
                          content_length |-> NoLength])
             ELSE Goto("read")
  /\ stream' = IF pc' = "done" THEN Closed ELSE stream
  /\ UNCHANGED <<requestVars, candidate, fsVars, failed>>

\* A call fails for a reason outside the model: permissions, resources, I/O.
\* At "exists" that is weakly_canonical or exists.
CallFails ==
  /\ pc \in {"exists", "regular", "size", "open", "read"}
  /\ Finish(make_response(403))
  /\ stream' = Closed /\ failed' = TRUE
  /\ UNCHANGED <<requestVars, candidate, body, fsVars>>

Handle == Route \/ Exists \/ IsRegularFile \/ FileSize \/ Open \/ ReadFile \/ CallFails

-----------------------------------------------------------------------------
\* The file system.

\* Before weakly_canonical, and after the last call, a change makes no difference
\* to this request.
Change(o) ==
  /\ pc \notin {"route", "done"} /\ changes < MaxChanges /\ entry # o
  /\ entry' = o /\ changes' = changes + 1 /\ seen' = seen \cup {o}
  /\ UNCHANGED <<pc, requestVars, candidate, body, response, failed>>

\* The path leads to another object: removed, created, renamed over.
Replace(o) ==
  /\ Change(o)
  /\ stream' = IF stream.live THEN [stream EXCEPT !.data = entry.data, !.live = FALSE]
                              ELSE stream
  /\ UNCHANGED rewritten

\* A regular file is written, truncated or extended in place.
Rewrite(o) ==
  /\ entry.kind = "regular" /\ o.kind = "regular" /\ entry.readable = o.readable
  /\ Change(o)
  /\ rewritten' = TRUE
  /\ UNCHANGED stream

\* The response goes to the connection; the next request starts afresh.
Returned == pc = "done" /\ UNCHANGED vars

Init ==
  /\ pc = "route" /\ method \in Methods /\ target \in Targets
  /\ candidate = Unresolved
  /\ stream = Closed /\ body = <<>> /\ response = NoResponse
  /\ entry \in Objects /\ changes = 0 /\ seen = {entry} /\ rewritten = FALSE
  /\ failed = FALSE

Next ==
  \/ Handle
  \/ \E o \in Objects : Replace(o) \/ Rewrite(o)
  \/ Returned

SafeSpec == Init /\ [][Next]_vars

-----------------------------------------------------------------------------
\* Properties.

\* Types; a stream is open on the path only while read_file reads, and nothing
\* is read before that.
TypeOK ==
  /\ pc \in {"route", "exists", "regular", "size", "open", "read", "done"}
  /\ method \in Methods
  /\ entry \in Objects /\ seen \subseteq Objects /\ entry \in seen
  /\ stream \in [kind : {"none", "regular", "directory"}, data : Seq(STRING),
                 live : BOOLEAN]
  /\ stream.live => pc = "read"
  /\ body \in Seq(STRING)
  /\ pc \notin {"read", "done"} => body = <<>>
  /\ changes \in 0..MaxChanges /\ rewritten \in BOOLEAN /\ failed \in BOOLEAN

\* Content-Length announces exactly the bytes that follow, or, on HEAD, none
\* follow: serialize_response counts the body it has, never the size that
\* serve_file found before the file was read.
FramingExact ==
  pc = "done" => IF method = "HEAD" THEN response.body = <<>>
                 ELSE response.content_length = Len(response.body)

\* No response carries more than max_file_bytes of a file, also when the file
\* grows after file_size was compared with the limit; and the subtraction in
\* read_file, of unsigned numbers, never wraps.
BodyBounded ==
  /\ Len(body) <= MaxFileBytes
  /\ pc = "done" /\ response.status = 200 => Len(response.body) <= MaxFileBytes

\* A file that is only ever replaced as a whole (written elsewhere and renamed)
\* is served as one of its versions, never as a mixture: read_file reads one
\* stream to its end.
BodyIsOneVersion ==
  pc = "done" /\ method # "HEAD" /\ response.status = 200 /\ ~rewritten
    => \E o \in seen : o.kind = "regular" /\ o.data = response.body

\* What a response says was true at some moment of the request: a file reported
\* missing was missing, a length told to HEAD was the length, every unit served
\* stood at its place, although handle asks the file system several times.
AnswerWasTrue ==
  pc = "done" =>
    /\ response.status = 404 => \E o \in seen :
         o.kind = "absent" \/ (candidate.names_dir /\ o.kind = "regular")
    /\ response.status = 200 /\ method = "HEAD" =>
         \E o \in seen : o.kind = "regular" /\ Len(o.data) = response.content_length
    /\ response.status = 200 =>
         \A i \in 1..Len(response.body) :
           \E o \in seen : i <= Len(o.data) /\ o.data[i] = response.body[i]

\* The answer of an undisturbed request.
Answer(m) ==
  LET file == Stat.kind = "regular" /\ Len(Stat.data) <= MaxFileBytes
                /\ (Stat.readable \/ m = "HEAD")
      status == IF m \notin {"GET", "HEAD"} THEN 405
                ELSE IF candidate.place = "malformed" THEN 400
                ELSE IF candidate.place = "outside" THEN 403
                ELSE IF Stat.kind = "absent" THEN 404
                ELSE IF ~file THEN 403 ELSE 200
      text == IF status = 200 THEN Stat.data ELSE <<"text">>
  IN [status |-> status, content_length |-> Len(text),
      body |-> IF m = "HEAD" THEN <<>> ELSE text]

\* When nothing changes and no call fails, the steps of handle, route_request
\* and serialize_response together give the one answer that the object at the
\* path calls for, whatever the size of the file and of the reads.
QuietAnswerExact ==
  pc = "done" /\ changes = 0 /\ ~failed => response = Answer(method)

HexDigit(n) == IF n < 10 THEN 48 + n ELSE 97 + n - 10

\* t with the characters at the positions S written as escapes.
Escaped(t, S) ==
  LET From[i \in 1..(Len(t) + 1)] ==
        IF i > Len(t) THEN <<>>
        ELSE (IF i \in S THEN <<Percent, HexDigit(t[i] \div 16), HexDigit(t[i] % 16)>>
                         ELSE <<t[i]>>) \o From[i + 1]
  IN From[1]

\* Percent-encoding any characters of a path (after its leading slash) changes
\* nothing about where percent_decode and the resolution lead.  (The escape of
\* NUL is the one that percent_decode refuses.)
EscapingInvisible ==
  pc = "route" /\ ~Contains(target, Percent) /\ ~Contains(target, Question) =>
    \A S \in SUBSET {i \in 2..Len(target) : target[i] # 0} :
      Resolve(Escaped(target, S)) = Resolve(target)

\* "HEAD: same representation length as GET" (README.md): the length an
\* undisturbed HEAD announces is the one GET announces for the same object.
HeadLengthIsGetLength ==
  pc = "done" /\ method = "HEAD" /\ changes = 0 /\ ~failed
    => response.content_length = Answer("GET").content_length
==============================================================================
