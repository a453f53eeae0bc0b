--------------------------- MODULE StaticFileProofs ---------------------------
(***************************************************************************)
(* What StaticFile's runs check on small files, for files, limits, buffers *)
(* and numbers of changes of any size.                                     *)
(***************************************************************************)
EXTENDS StaticFile, SequenceTheorems, WellFoundedInduction, TLAPS

\* What a call finds is an object; a regular file it finds is the entry itself.
LEMMA ObjectFacts ==
  ASSUME TypeOK
  PROVE  /\ entry.kind \in ObjectKinds /\ entry.data \in Seq(STRING)
         /\ Stat.kind \in ObjectKinds /\ Stat.data \in Seq(STRING)
         /\ Stat.kind = "regular" => Stat = entry
         /\ StreamData \in Seq(STRING)
  BY StaticFileAssumption, EmptySeq, Zenon DEF TypeOK, Stat, Directory, Absent, Object,
     ObjectKinds, StreamData

\* One read yields the units that follow those read so far: a full buffer, or all
\* that is left.
LEMMA ChunkFacts ==
  ASSUME TypeOK
  PROVE  /\ Chunk \in Seq(STRING) /\ Len(Chunk) <= ReadSize
         /\ Len(Chunk) > 0 => Len(body) + Len(Chunk) <= Len(StreamData)
         /\ \A i \in 1..Len(Chunk) : Chunk[i] = StreamData[Len(body) + i]
         /\ Len(Chunk) < ReadSize /\ Len(body) <= Len(StreamData)
              => Len(Chunk) = Len(StreamData) - Len(body)
         /\ Len(Chunk) = ReadSize => Len(body) + ReadSize <= Len(StreamData)
  <1> DEFINE m == Len(body) + 1
             n == IF Len(body) + ReadSize < Len(StreamData) THEN Len(body) + ReadSize
                                                            ELSE Len(StreamData)
  <1>1. StreamData \in Seq(STRING) /\ Len(StreamData) \in Nat
    BY ObjectFacts, LenProperties
  <1>2. body \in Seq(STRING) /\ Len(body) \in Nat
    BY LenProperties DEF TypeOK
  <1>3. ReadSize \in Nat \ {0}
    BY StaticFileAssumption
  <1>4. m \in Nat /\ m >= 1 /\ n \in Nat /\ n <= Len(StreamData)
    BY <1>1, <1>2, <1>3
  <1>5. \A i \in m..n : i \in 1..Len(StreamData)
    BY <1>1, <1>4
  <1>6. Chunk = SubSeq(StreamData, m, n)
    BY DEF Chunk
  <1> HIDE DEF m, n
  <1>7. /\ Chunk \in Seq(STRING)
        /\ Len(Chunk) = IF m <= n THEN n - m + 1 ELSE 0
        /\ \A i \in 1..(n - m + 1) : Chunk[i] = StreamData[m + i - 1]
    BY <1>1, <1>4, <1>5, <1>6, SubSeqProperties
  <1> QED
    BY <1>1, <1>2, <1>3, <1>4, <1>7 DEF m, n

-----------------------------------------------------------------------------
\* The three kinds of response that a step can end with.

ErrorResponse(status) ==
  [status |-> status, content_length |-> 1,
   body |-> IF method = "HEAD" THEN <<>> ELSE <<"text">>]

\* make_response through route_request and serialize_response.
LEMMA FinishError ==
  ASSUME NEW status \in Int, Finish(make_response(status))
  PROVE  pc' = "done" /\ response' = ErrorResponse(status)
  BY DEF Finish, make_response, route_request, AsHead, serialize_response, NoLength,
         ErrorResponse

\* The answer of serve_file to HEAD, with the length that file_size gave.
LEMMA FinishHead ==
  ASSUME NEW n \in Nat, method = "HEAD",
         Finish([status |-> 200, body |-> <<>>, suppress_body |-> TRUE,
                 content_length |-> n])
  PROVE  /\ pc' = "done"
         /\ response' = [status |-> 200, content_length |-> n, body |-> <<>>]
  BY DEF Finish, route_request, AsHead, serialize_response, NoLength

\* The answer of serve_file after read_file: the length is counted.
LEMMA FinishFile ==
  ASSUME NEW b \in Seq(STRING), method # "HEAD",
         Finish([status |-> 200, body |-> b, suppress_body |-> FALSE,
                 content_length |-> NoLength])
  PROVE  /\ pc' = "done"
         /\ response' = [status |-> 200, content_length |-> Len(b), body |-> b]
  BY DEF Finish, route_request, serialize_response, NoLength

-----------------------------------------------------------------------------
\* Types.

\* A closed stream is a stream that is not on the path.
LEMMA ClosedFacts ==
  /\ Closed \in [kind : {"none", "regular", "directory"}, data : Seq(STRING),
                 live : BOOLEAN]
  /\ ~Closed.live
  BY EmptySeq DEF Closed

\* Every step keeps the types.
LEMMA TypeStep ==
  ASSUME TypeOK, [Next]_vars
  PROVE  TypeOK'
  <1> USE DEF TypeOK, requestVars, fsVars, Goto, Finish
  <1>1. CASE Route
    BY <1>1 DEF Route
  <1>2. CASE Exists
    BY <1>2 DEF Exists
  <1>3. CASE IsRegularFile
    BY <1>3 DEF IsRegularFile
  <1>4. CASE FileSize
    BY <1>4 DEF FileSize
  <1>5. CASE Open
    <2>1. Stat.kind \in ObjectKinds
      BY ObjectFacts
    <2>2. CASE Stat.kind = "absent" \/ ~Stat.readable
      BY <1>5, <2>2 DEF Open
    <2>3. CASE ~(Stat.kind = "absent" \/ ~Stat.readable)
      <3>1. /\ stream' = [kind |-> Stat.kind, data |-> <<>>, live |-> TRUE]
            /\ pc' = "read" /\ UNCHANGED <<method, body, entry, seen, changes>>
        BY <1>5, <2>3 DEF Open
      <3>2. UNCHANGED <<rewritten, failed>>
        BY <1>5 DEF Open
      <3>3. Stat.kind \in {"regular", "directory"}
        BY <2>1, <2>3 DEF ObjectKinds
      <3>4. <<>> \in Seq(STRING)
        BY EmptySeq
      <3>5. stream' \in [kind : {"none", "regular", "directory"}, data : Seq(STRING),
                        live : BOOLEAN]
        BY <3>1, <3>3, <3>4
      <3> QED
        BY <3>1, <3>2, <3>5
    <2> QED
      BY <2>2, <2>3
  <1>6. CASE ReadFile
    <2>1. body \o Chunk \in Seq(STRING)
      BY ChunkFacts, ConcatProperties
    <2>2. body' \in Seq(STRING)
      BY <1>6, <2>1, Zenon DEF ReadFile
    <2>3. stream' \in {stream, Closed} /\ pc' \in {"read", "done"}
      BY <1>6 DEF ReadFile
    <2>4. stream'.live => pc' = "read"
      BY <1>6, <2>3, ClosedFacts DEF ReadFile
    <2>5. /\ entry' \in Objects /\ seen' \subseteq Objects /\ entry' \in seen'
          /\ method' \in Methods /\ changes' \in 0..MaxChanges
      BY <1>6 DEF ReadFile
    <2>6. rewritten' \in BOOLEAN /\ failed' \in BOOLEAN
      BY <1>6 DEF ReadFile
    <2> QED
      BY <2>2, <2>3, <2>4, <2>5, <2>6, ClosedFacts
  <1>7. CASE CallFails
    BY <1>7, EmptySeq DEF CallFails, Closed
  <1>8. ASSUME NEW o \in Objects, Replace(o)
        PROVE  TypeOK'
    <2>1. entry.data \in Seq(STRING)
      BY ObjectFacts
    <2>2. stream' \in [kind : {"none", "regular", "directory"}, data : Seq(STRING),
                      live : BOOLEAN]
      BY <1>8, <2>1, Zenon DEF Replace
    <2>3. stream'.live => stream.live
      BY <1>8 DEF Replace
    <2> QED
      BY <1>8, <2>2, <2>3, StaticFileAssumption DEF Replace, Change
  <1>9. ASSUME NEW o \in Objects, Rewrite(o)
        PROVE  TypeOK'
    BY <1>9, StaticFileAssumption DEF Rewrite, Change
  <1>10. CASE UNCHANGED vars
    BY <1>10 DEF vars
  <1> QED
    BY <1>1, <1>2, <1>3, <1>4, <1>5, <1>6, <1>7, <1>8, <1>9, <1>10
       DEF Next, Handle, Returned

\* The types of the handler's state, and that a file is read only by read_file,
\* whatever others do to the file system between its calls.
THEOREM TypeCorrect == SafeSpec => []TypeOK
  <1>1. Init => TypeOK
    <2> SUFFICES ASSUME Init PROVE TypeOK
      OBVIOUS
    <2>1. body \in Seq(STRING) /\ 0 \in 0..MaxChanges
      BY StaticFileAssumption, EmptySeq DEF Init
    <2> QED
      BY <2>1, ClosedFacts, Zenon DEF Init, TypeOK
  <1> QED
    BY <1>1, TypeStep, PTL DEF SafeSpec

-----------------------------------------------------------------------------
\* What read_file has read, in the middle of reading: the strengthening from
\* which the properties of finished responses follow.

FromSeen ==
  \A i \in 1..Len(body) : \E o \in seen : i <= Len(o.data) /\ o.data[i] = body[i]

OnOneFile ==
  pc = "read" /\ stream.kind = "regular" =>
    /\ stream.live => entry.kind = "regular"
    /\ \E o \in seen : o.kind = "regular" /\ o.data = StreamData
    /\ ~rewritten => /\ Len(body) <= Len(StreamData)
                     /\ \A i \in 1..Len(body) : body[i] = StreamData[i]

Reading ==
  /\ Len(body) <= MaxFileBytes
  /\ FromSeen
  /\ pc \in {"open", "read"} => method # "HEAD"
  /\ OnOneFile

\* Each unit of a chunk stands at its place in an object seen.
LEMMA ReadKeeps ==
  ASSUME TypeOK, Reading, pc = "read", stream.kind = "regular", Fits(Len(Chunk)),
         NEW b, b = body \o Chunk
  PROVE  /\ b \in Seq(STRING) /\ Len(b) = Len(body) + Len(Chunk)
         /\ Len(b) <= MaxFileBytes
         /\ \A i \in 1..Len(b) : \E o \in seen : i <= Len(o.data) /\ o.data[i] = b[i]
         /\ ~rewritten => /\ Len(b) <= Len(StreamData)
                          /\ \A i \in 1..Len(b) : b[i] = StreamData[i]
                          /\ Len(Chunk) < ReadSize => b = StreamData
  <1>1. /\ Len(body) \in Nat /\ Len(Chunk) \in Nat /\ StreamData \in Seq(STRING)
        /\ Len(StreamData) \in Nat /\ MaxFileBytes \in Nat /\ ReadSize \in Nat \ {0}
    BY ObjectFacts, ChunkFacts, LenProperties, StaticFileAssumption DEF TypeOK
  <1>2. /\ b \in Seq(STRING) /\ Len(b) = Len(body) + Len(Chunk)
        /\ \A i \in 1..Len(b) : b[i] = IF i <= Len(body) THEN body[i]
                                                      ELSE Chunk[i - Len(body)]
    BY ChunkFacts, ConcatProperties DEF TypeOK
  <1>3. Len(b) <= MaxFileBytes
    BY <1>1, <1>2 DEF Fits
  <1>4. \A i \in 1..Len(b) : i > Len(body) => i <= Len(StreamData) /\ b[i] = StreamData[i]
    <2> SUFFICES ASSUME NEW i \in 1..Len(b), i > Len(body)
                 PROVE  i <= Len(StreamData) /\ b[i] = StreamData[i]
      OBVIOUS
    <2>1. i - Len(body) \in 1..Len(Chunk) /\ Len(Chunk) > 0
      BY <1>1, <1>2
    <2>2. Chunk[i - Len(body)] = StreamData[Len(body) + (i - Len(body))]
      BY <2>1, ChunkFacts
    <2> QED
      BY <1>1, <1>2, <2>1, <2>2, ChunkFacts
  <1>5. PICK f \in seen : f.kind = "regular" /\ f.data = StreamData
    BY DEF Reading, OnOneFile
  <1>6. ASSUME NEW i \in 1..Len(b)
        PROVE  \E o \in seen : i <= Len(o.data) /\ o.data[i] = b[i]
    <2>1. CASE i <= Len(body)
      BY <1>1, <1>2, <2>1 DEF Reading, FromSeen
    <2>2. CASE i > Len(body)
      BY <1>4, <1>5, <2>2
    <2> QED
      BY <1>1, <1>2, <2>1, <2>2
  <1>7. ASSUME ~rewritten
        PROVE  /\ Len(b) <= Len(StreamData)
               /\ \A i \in 1..Len(b) : b[i] = StreamData[i]
               /\ Len(Chunk) < ReadSize => b = StreamData
    <2>1. Len(body) <= Len(StreamData) /\ \A i \in 1..Len(body) : body[i] = StreamData[i]
      BY <1>7 DEF Reading, OnOneFile
    <2>2. Len(b) <= Len(StreamData)
      BY <1>1, <1>2, <2>1, ChunkFacts
    <2>3. \A i \in 1..Len(b) : b[i] = StreamData[i]
      BY <1>1, <1>2, <1>4, <2>1, SMTT(60)
    <2>4. ASSUME Len(Chunk) < ReadSize PROVE b = StreamData
      <3>1. Len(b) = Len(StreamData)
        BY <1>1, <1>2, <2>1, <2>4, ChunkFacts
      <3> QED
        BY <1>1, <1>2, <2>3, <3>1, SeqEqual, Zenon
    <2> QED
      BY <2>2, <2>3, <2>4
  <1> QED
    BY <1>2, <1>3, <1>6, <1>7, Zenon

\* Every step keeps what is known about the units read: those of read_file extend
\* it, those of others change the path and leave the stream with its file.
LEMMA ReadingStep ==
  ASSUME TypeOK, Reading, [Next]_vars
  PROVE  Reading'
  <1> USE DEF requestVars, fsVars
  <1>0. MaxFileBytes \in Nat /\ Len(<<>>) = 0
    BY StaticFileAssumption
  <1>1. ASSUME pc' \notin {"open", "read"}, body' = body, seen' = seen
        PROVE  Reading'
    BY <1>1 DEF Reading, FromSeen, OnOneFile
  <1>2. CASE Route
    BY <1>1, <1>2 DEF Route, Finish, Goto
  <1>3. CASE Exists
    BY <1>1, <1>3 DEF Exists, Finish, Goto
  <1>4. CASE IsRegularFile
    BY <1>1, <1>4 DEF IsRegularFile, Finish, Goto
  <1>5. CASE FileSize
    BY <1>5 DEF FileSize, Finish, Goto, Reading, FromSeen, OnOneFile
  <1>6. CASE Open
    <2>1. CASE pc' = "done"
      BY <1>1, <1>6, <2>1 DEF Open
    <2>2. CASE pc' # "done"
      <3>1. /\ pc = "open" /\ pc' = "read" /\ stream'.kind = Stat.kind /\ stream'.live
            /\ UNCHANGED <<method, body, entry, seen>>
        BY <1>6, <2>2 DEF Open, Finish, Goto
      <3>2. StreamData' = entry.data
        BY <3>1 DEF StreamData
      <3>3. body = <<>> /\ entry \in seen /\ (Stat.kind = "regular" => Stat = entry)
        BY <3>1, ObjectFacts DEF TypeOK
      <3>4. Len(entry.data) \in Nat
        BY ObjectFacts, LenProperties
      <3>5. stream'.kind = "regular" => entry'.kind = "regular" /\ entry \in seen'
        BY <3>1, <3>3, Zenon
      <3>6. Len(body') = 0 /\ Len(body') <= Len(StreamData')
            /\ \A i \in 1..Len(body') : body'[i] = StreamData'[i]
        BY <1>0, <3>1, <3>2, <3>3, <3>4
      <3>7. OnOneFile'
        BY <3>1, <3>2, <3>5, <3>6 DEF OnOneFile
      <3> QED
        BY <3>1, <3>7 DEF Reading, FromSeen
    <2> QED
      BY <2>1, <2>2
  <1>7. CASE ReadFile
    <2>1. CASE UNCHANGED body /\ pc' = "done"
      BY <1>1, <1>7, <2>1 DEF ReadFile
    <2>2. CASE ~(UNCHANGED body /\ pc' = "done")
      <3>1. /\ pc = "read" /\ stream.kind = "regular" /\ Fits(Len(Chunk))
            /\ body' = body \o Chunk /\ pc' \in {"read", "done"}
            /\ UNCHANGED <<method, entry, seen>> /\ (pc' = "read" => UNCHANGED stream)
        BY <1>7, <2>2 DEF ReadFile, Finish, Goto
      <3>2. rewritten' = rewritten
        BY <1>7 DEF ReadFile
      <3>3. pc' = "read" => StreamData' = StreamData
        BY <3>1 DEF StreamData
      <3>4. /\ Len(body') <= MaxFileBytes
            /\ \A i \in 1..Len(body') : \E o \in seen :
                 i <= Len(o.data) /\ o.data[i] = body'[i]
            /\ ~rewritten => /\ Len(body') <= Len(StreamData)
                             /\ \A i \in 1..Len(body') : body'[i] = StreamData[i]
        BY <3>1, ReadKeeps, Zenon
      <3>5. OnOneFile'
        BY <3>1, <3>2, <3>3, <3>4 DEF Reading, OnOneFile
      <3> QED
        BY <3>1, <3>4, <3>5 DEF Reading, FromSeen
    <2> QED
      BY <2>1, <2>2
  <1>8. CASE CallFails
    BY <1>1, <1>8 DEF CallFails, Finish
  <1>9. ASSUME NEW o \in Objects, Replace(o)
        PROVE  Reading'
    <2>1. /\ UNCHANGED <<pc, method, body>> /\ entry' = o /\ seen' = seen \cup {o}
          /\ stream' = IF stream.live THEN [stream EXCEPT !.data = entry.data, !.live = FALSE]
                                      ELSE stream
      BY <1>9 DEF Replace, Change
    <2>2. rewritten' = rewritten
      BY <1>9 DEF Replace
    <2>3. stream'.kind = stream.kind /\ ~stream'.live /\ StreamData' = StreamData
      BY <2>1 DEF TypeOK, StreamData
    <2>4. FromSeen'
      BY <2>1 DEF Reading, FromSeen
    <2>5. OnOneFile'
      BY <2>1, <2>2, <2>3 DEF Reading, OnOneFile
    <2> QED
      BY <2>1, <2>4, <2>5 DEF Reading
  <1>10. ASSUME NEW o \in Objects, Rewrite(o)
         PROVE  Reading'
    <2>1. /\ UNCHANGED <<pc, method, body, stream>> /\ entry' = o /\ seen' = seen \cup {o}
          /\ rewritten' /\ o.kind = "regular"
      BY <1>10 DEF Rewrite, Change
    <2>2. StreamData' = IF stream.live THEN o.data ELSE StreamData
      BY <2>1 DEF StreamData
    <2>3. FromSeen'
      BY <2>1 DEF Reading, FromSeen
    <2>4. OnOneFile'
      BY <2>1, <2>2 DEF Reading, OnOneFile
    <2> QED
      BY <2>1, <2>3, <2>4 DEF Reading
  <1>11. CASE UNCHANGED vars
    <2>1. UNCHANGED <<pc, method, body, seen, stream, entry>>
      BY <1>11 DEF vars
    <2>2. rewritten' = rewritten
      BY <1>11 DEF vars
    <2> QED
      BY <2>1, <2>2 DEF Reading, FromSeen, OnOneFile, StreamData
  <1> QED
    BY <1>2, <1>3, <1>4, <1>5, <1>6, <1>7, <1>8, <1>9, <1>10, <1>11
       DEF Next, Handle, Returned

\* Types and Reading together are inductive.
LEMMA ReadingAlways == SafeSpec => [](TypeOK /\ Reading)
  <1>1. Init => Reading
    BY StaticFileAssumption, EmptySeq DEF Init, Reading, FromSeen, OnOneFile
  <1> QED
    BY <1>1, TypeCorrect, TypeStep, ReadingStep, PTL DEF SafeSpec

-----------------------------------------------------------------------------
\* The ways a request ends.

EndsInError ==
  /\ \E status \in {400, 403, 404, 405} :
       /\ response' = ErrorResponse(status)
       /\ status = 404 => /\ candidate' = candidate
                          /\ \/ entry.kind = "absent"
                             \/ candidate.names_dir /\ entry.kind = "regular"
  /\ body' = body

EndsForHead ==
  /\ method = "HEAD" /\ entry.kind = "regular"
  /\ response' = [status |-> 200, content_length |-> Len(entry.data), body |-> <<>>]
  /\ body' = body

EndsWithFile ==
  /\ method # "HEAD" /\ pc = "read" /\ stream.kind = "regular" /\ Fits(Len(Chunk))
  /\ Len(Chunk) < ReadSize /\ body' = body \o Chunk
  /\ response' = [status |-> 200, content_length |-> Len(body'), body |-> body']

\* Every step that ends a request ends it in one of the three ways.
LEMMA Ending ==
  ASSUME TypeOK, Reading, [Next]_vars, pc # "done", pc' = "done"
  PROVE  /\ UNCHANGED <<method, entry, seen, changes>> /\ UNCHANGED rewritten
         /\ EndsInError \/ EndsForHead \/ EndsWithFile
  <1> USE DEF requestVars, fsVars
  <1>1. CASE Route
    <2>1. UNCHANGED <<method, entry, seen, changes, body>> /\ UNCHANGED rewritten
      BY <1>1 DEF Route
    <2>2. \E status \in {400, 403, 405} : Finish(make_response(status))
      BY <1>1 DEF Route, Goto
    <2>3. PICK status \in {400, 403, 405} : response' = ErrorResponse(status)
      BY <2>2, FinishError
    <2> QED
      BY <1>1, <2>1, <2>3 DEF EndsInError, Route
  <1>2. CASE Exists
    <2>1. /\ UNCHANGED <<method, entry, seen, changes, body, candidate>>
          /\ UNCHANGED rewritten
      BY <1>2 DEF Exists
    <2>2. Stat.kind = "absent" /\ response' = ErrorResponse(404)
      BY <1>2, FinishError DEF Exists, Goto
    <2>3. entry.kind = "absent" \/ (candidate.names_dir /\ entry.kind = "regular")
      BY <2>2 DEF Stat, Directory, Object
    <2> QED
      BY <2>1, <2>2, <2>3 DEF EndsInError
  <1>3. CASE IsRegularFile
    <2>1. /\ UNCHANGED <<method, entry, seen, changes, body, candidate>>
          /\ UNCHANGED rewritten
      BY <1>3 DEF IsRegularFile
    <2>2. response' = ErrorResponse(403)
      BY <1>3, FinishError DEF IsRegularFile, Goto, NotRegular
    <2> QED
      BY <2>1, <2>2 DEF EndsInError
  <1>4. CASE FileSize
    <2>1. /\ UNCHANGED <<method, entry, seen, changes, body, candidate>>
          /\ UNCHANGED rewritten
      BY <1>4 DEF FileSize
    <2>2. CASE Stat.kind # "regular" \/ Len(Stat.data) > MaxFileBytes
      <3>1. response' = ErrorResponse(403)
        BY <1>4, <2>2, FinishError DEF FileSize
      <3> QED
        BY <2>1, <3>1 DEF EndsInError
    <2>3. CASE ~(Stat.kind # "regular" \/ Len(Stat.data) > MaxFileBytes)
      <3>1. Stat = entry /\ entry.kind = "regular" /\ Len(entry.data) \in Nat
        BY <2>3, ObjectFacts, LenProperties
      <3>2. /\ method = "HEAD"
            /\ Finish([status |-> 200, body |-> <<>>, suppress_body |-> TRUE,
                       content_length |-> Len(entry.data)])
        BY <1>4, <2>3, <3>1 DEF FileSize, Goto
      <3>3. response' = [status |-> 200, content_length |-> Len(entry.data), body |-> <<>>]
        BY <3>1, <3>2, FinishHead
      <3> QED
        BY <2>1, <3>1, <3>2, <3>3 DEF EndsForHead
    <2> QED
      BY <2>2, <2>3
  <1>5. CASE Open
    <2>1. /\ UNCHANGED <<method, entry, seen, changes, body, candidate>>
          /\ UNCHANGED rewritten
      BY <1>5 DEF Open
    <2>2. response' = ErrorResponse(403)
      BY <1>5, FinishError DEF Open, Goto
    <2> QED
      BY <2>1, <2>2 DEF EndsInError
  <1>6. CASE ReadFile
    <2>1. UNCHANGED <<method, entry, seen, changes, candidate>> /\ UNCHANGED rewritten
      BY <1>6 DEF ReadFile
    <2>2. CASE stream.kind # "regular" \/ ~Fits(Len(Chunk))
      <3>1. response' = ErrorResponse(403) /\ body' = body
        BY <1>6, <2>2, FinishError DEF ReadFile
      <3> QED
        BY <2>1, <3>1 DEF EndsInError
    <2>3. CASE ~(stream.kind # "regular" \/ ~Fits(Len(Chunk)))
      <3>1. /\ pc = "read" /\ body' = body \o Chunk /\ Len(Chunk) < ReadSize
            /\ Finish([status |-> 200, body |-> body', suppress_body |-> FALSE,
                       content_length |-> NoLength])
        BY <1>6, <2>3 DEF ReadFile, Goto
      <3>2. method # "HEAD" /\ body' \in Seq(STRING)
        BY <3>1, TypeStep DEF Reading, TypeOK
      <3>3. response' = [status |-> 200, content_length |-> Len(body'), body |-> body']
        BY <3>1, <3>2, FinishFile, Zenon
      <3> QED
        BY <2>1, <2>3, <3>1, <3>2, <3>3 DEF EndsWithFile
    <2> QED
      BY <2>2, <2>3
  <1>7. CASE CallFails
    <2>1. /\ UNCHANGED <<method, entry, seen, changes, body, candidate>>
          /\ UNCHANGED rewritten
      BY <1>7 DEF CallFails
    <2>2. response' = ErrorResponse(403)
      BY <1>7, FinishError DEF CallFails
    <2> QED
      BY <2>1, <2>2 DEF EndsInError
  <1> QED
    BY <1>1, <1>2, <1>3, <1>4, <1>5, <1>6, <1>7
       DEF Next, Handle, Returned, vars, Replace, Rewrite, Change

\* A finished response is not touched again.
LEMMA DoneStays ==
  ASSUME [Next]_vars, pc = "done"
  PROVE  UNCHANGED vars
  BY DEF Next, Handle, Route, Exists, IsRegularFile, FileSize, Open, ReadFile, CallFails,
         Replace, Rewrite, Change, Returned

\* The two are proved together, because a response that is finished now carries
\* what read_file has read.
LEMMA FramingAndLimit == SafeSpec => [](FramingExact /\ BodyBounded)
  <1>1. Init => FramingExact /\ BodyBounded
    BY StaticFileAssumption DEF Init, FramingExact, BodyBounded
  <1>2. ASSUME TypeOK, Reading, Reading', FramingExact, BodyBounded, [Next]_vars
        PROVE  FramingExact' /\ BodyBounded'
    <2>1. CASE pc = "done"
      BY <1>2, <2>1, DoneStays DEF vars, requestVars, FramingExact, BodyBounded
    <2>2. CASE pc' # "done"
      BY <1>2, <2>2 DEF FramingExact, BodyBounded, Reading
    <2>3. CASE pc # "done" /\ pc' = "done"
      <3>1. method' = method /\ Len(body') <= MaxFileBytes
        BY <1>2, <2>3, Ending DEF Reading
      <3>2. CASE EndsInError
        BY <3>1, <3>2 DEF EndsInError, ErrorResponse, FramingExact, BodyBounded
      <3>3. CASE EndsForHead
        BY <3>1, <3>3, StaticFileAssumption DEF EndsForHead, FramingExact, BodyBounded
      <3>4. CASE EndsWithFile
        BY <3>1, <3>4 DEF EndsWithFile, FramingExact, BodyBounded
      <3> QED
        BY <1>2, <2>3, <3>2, <3>3, <3>4, Ending
    <2> QED
      BY <2>1, <2>2, <2>3
  <1> QED
    BY <1>1, <1>2, ReadingAlways, PTL DEF SafeSpec

\* Content-Length and body of every finished response agree, for every file,
\* limit and buffer and any changes of the file between the calls of serve_file
\* and read_file.
THEOREM FramingCorrect == SafeSpec => []FramingExact
  BY FramingAndLimit, PTL

\* No response carries more than max_file_bytes, however the file grows after
\* serve_file has compared its size, and the subtraction of unsigned numbers in
\* read_file never wraps.
THEOREM BodyCorrect == SafeSpec => []BodyBounded
  BY FramingAndLimit, PTL

\* A file that is only replaced as a whole is served as one of its versions,
\* whatever its size and the size of the reads of read_file.
THEOREM OneVersion == SafeSpec => []BodyIsOneVersion
  <1>1. Init => BodyIsOneVersion
    BY DEF Init, BodyIsOneVersion
  <1>2. ASSUME TypeOK, Reading, BodyIsOneVersion, [Next]_vars
        PROVE  BodyIsOneVersion'
    <2>1. CASE pc = "done"
      BY <1>2, <2>1, DoneStays DEF vars, requestVars, fsVars, BodyIsOneVersion
    <2>2. CASE pc' # "done"
      BY <2>2 DEF BodyIsOneVersion
    <2>3. CASE pc # "done" /\ pc' = "done"
      <3>1. method' = method /\ seen' = seen /\ rewritten' = rewritten
        BY <1>2, <2>3, Ending
      <3>2. CASE EndsInError
        BY <3>2 DEF EndsInError, ErrorResponse, BodyIsOneVersion
      <3>3. CASE EndsForHead
        BY <3>1, <3>3 DEF EndsForHead, BodyIsOneVersion
      <3>4. CASE EndsWithFile
        <4>1. ~rewritten => body' = StreamData
          BY <1>2, <3>4, ReadKeeps DEF EndsWithFile
        <4>2. \E o \in seen : o.kind = "regular" /\ o.data = StreamData
          BY <1>2, <3>4 DEF EndsWithFile, Reading, OnOneFile
        <4>3. response'.body = body'
          BY <3>4 DEF EndsWithFile
        <4>4. ~rewritten' => \E o \in seen' : o.kind = "regular" /\ o.data = response'.body
          BY <3>1, <4>1, <4>2, <4>3
        <4> QED
          BY <4>4 DEF BodyIsOneVersion
      <3> QED
        BY <1>2, <2>3, <3>2, <3>3, <3>4, Ending
    <2> QED
      BY <2>1, <2>2, <2>3
  <1> QED
    BY <1>1, <1>2, ReadingAlways, PTL DEF SafeSpec

\* What a response says was true at some moment of the request, however often
\* the file changes between the calls of handle.
THEOREM Truthful == SafeSpec => []AnswerWasTrue
  <1>1. Init => AnswerWasTrue
    BY DEF Init, AnswerWasTrue
  <1>2. ASSUME TypeOK, Reading, Reading', AnswerWasTrue, [Next]_vars
        PROVE  AnswerWasTrue'
    <2>1. CASE pc = "done"
      BY <1>2, <2>1, DoneStays DEF vars, requestVars, fsVars, AnswerWasTrue
    <2>2. CASE pc' # "done"
      BY <2>2 DEF AnswerWasTrue
    <2>3. CASE pc # "done" /\ pc' = "done"
      <3>1. method' = method /\ seen' = seen /\ entry \in seen
        BY <1>2, <2>3, Ending DEF TypeOK
      <3>2. CASE EndsInError
        <4>1. PICK status \in {400, 403, 404, 405} :
                /\ response' = ErrorResponse(status)
                /\ status = 404 => /\ candidate' = candidate
                                   /\ \/ entry.kind = "absent"
                                      \/ candidate.names_dir /\ entry.kind = "regular"
          BY <3>2 DEF EndsInError
        <4>2. response'.status = status
          BY <4>1 DEF ErrorResponse
        <4> QED
          BY <3>1, <4>1, <4>2 DEF AnswerWasTrue
      <3>3. CASE EndsForHead
        BY <3>1, <3>3 DEF EndsForHead, AnswerWasTrue
      <3>4. CASE EndsWithFile
        <4>1. response'.status = 200 /\ response'.body = body' /\ method' # "HEAD"
          BY <3>1, <3>4 DEF EndsWithFile
        <4> QED
          BY <1>2, <4>1 DEF AnswerWasTrue, Reading, FromSeen
      <3> QED
        BY <1>2, <2>3, <3>2, <3>3, <3>4, Ending
    <2> QED
      BY <2>1, <2>2, <2>3
  <1> QED
    BY <1>1, <1>2, ReadingAlways, PTL DEF SafeSpec

-----------------------------------------------------------------------------
\* A request that nothing disturbs.

\* What the calls made so far have established, and what is still true of the
\* path because nothing has changed.
Established ==
  changes = 0 =>
    /\ ~rewritten
    /\ pc \notin {"route", "done"} =>
         method \in {"GET", "HEAD"} /\ candidate.place \notin {"malformed", "outside"}
    /\ pc = "regular" => Stat.kind # "absent"
    /\ pc \in {"size", "open", "read"} => Stat.kind = "regular"
    /\ pc \in {"open", "read"} => Len(Stat.data) <= MaxFileBytes
    /\ pc = "read" => Stat.readable /\ stream.live /\ stream.kind = "regular"

\* As long as nothing changes, each call confirms what the one before found.
LEMMA EstablishedStep ==
  ASSUME TypeOK, Established, [Next]_vars
  PROVE  Established'
  <1> USE DEF requestVars, fsVars
  <1> SUFFICES ASSUME changes' = 0 PROVE Established'
    BY DEF Established
  <1>1. CASE Route
    <2>1. UNCHANGED <<method, changes>> /\ UNCHANGED rewritten /\ pc = "route"
      BY <1>1 DEF Route
    <2>2. /\ pc' \in {"exists", "done"}
          /\ pc' = "exists" => /\ method \in {"GET", "HEAD"}
                               /\ candidate'.place \notin {"malformed", "outside"}
      BY <1>1 DEF Route, Finish, Goto
    <2> QED
      BY <2>1, <2>2 DEF Established
  <1>2. CASE Exists
    BY <1>2 DEF Exists, Finish, Goto, Established, Stat
  <1>3. CASE IsRegularFile
    BY <1>3 DEF IsRegularFile, Finish, Goto, Established, Stat
  <1>4. CASE FileSize
    <2>1. UNCHANGED <<method, candidate, entry, changes>> /\ UNCHANGED rewritten
      BY <1>4 DEF FileSize
    <2>2. Stat' = Stat
      BY <2>1 DEF Stat
    <2>3. pc = "size" /\ pc' \in {"open", "done"}
      BY <1>4 DEF FileSize, Finish, Goto
    <2>4. pc' = "open" => Stat.kind = "regular" /\ ~(Len(Stat.data) > MaxFileBytes)
      BY <1>4 DEF FileSize, Finish, Goto
    <2>5. Len(Stat.data) \in Nat /\ MaxFileBytes \in Nat
      BY ObjectFacts, LenProperties, StaticFileAssumption
    <2> QED
      BY <2>1, <2>2, <2>3, <2>4, <2>5 DEF Established
  <1>5. CASE Open
    <2>1. UNCHANGED <<method, candidate, entry, changes>> /\ UNCHANGED rewritten
      BY <1>5 DEF Open
    <2>2. Stat' = Stat
      BY <2>1 DEF Stat
    <2>3. pc = "open" /\ pc' \in {"read", "done"}
      BY <1>5 DEF Open, Finish, Goto
    <2>4. pc' = "read" => /\ Stat.readable
                          /\ stream' = [kind |-> Stat.kind, data |-> <<>>, live |-> TRUE]
      BY <1>5 DEF Open, Finish, Goto
    <2>5. pc' = "read" => stream'.live /\ stream'.kind = Stat.kind
      BY <2>4
    <2> QED
      BY <2>1, <2>2, <2>3, <2>4, <2>5 DEF Established
  <1>6. CASE ReadFile
    <2>1. UNCHANGED <<method, candidate, entry, changes>> /\ UNCHANGED rewritten
      BY <1>6 DEF ReadFile
    <2>2. Stat' = Stat
      BY <2>1 DEF Stat
    <2>3. pc = "read" /\ pc' \in {"read", "done"} /\ (pc' = "read" => stream' = stream)
      BY <1>6 DEF ReadFile, Finish, Goto
    <2> QED
      BY <2>1, <2>2, <2>3 DEF Established
  <1>7. CASE CallFails
    <2>1. UNCHANGED changes /\ UNCHANGED rewritten /\ pc' = "done"
      BY <1>7 DEF CallFails, Finish
    <2> QED
      BY <2>1 DEF Established
  <1>8. CASE \E o \in Objects : Replace(o) \/ Rewrite(o)
    BY <1>8 DEF Replace, Rewrite, Change, TypeOK
  <1>9. CASE UNCHANGED vars
    <2>1. /\ UNCHANGED <<pc, method, candidate, entry, changes, stream>>
          /\ UNCHANGED rewritten
      BY <1>9 DEF vars
    <2>2. Stat' = Stat
      BY <2>1 DEF Stat
    <2> QED
      BY <2>1, <2>2 DEF Established
  <1> QED
    BY <1>1, <1>2, <1>3, <1>4, <1>5, <1>6, <1>7, <1>8, <1>9 DEF Next, Handle, Returned

\* The answer depends on the method, the candidate and the object alone.
LEMMA AnswerKept ==
  ASSUME UNCHANGED <<method, candidate, entry>>
  PROVE  Answer(method)' = Answer(method)
  <1>1. method' = method /\ candidate' = candidate /\ entry' = entry
    OBVIOUS
  <1>2. Stat' = Stat
    BY <1>1, Zenon DEF Stat
  <1> DEFINE Of(m, c, st) ==
               LET file == st.kind = "regular" /\ Len(st.data) <= MaxFileBytes
                             /\ (st.readable \/ m = "HEAD")
                   status == IF m \notin {"GET", "HEAD"} THEN 405
                             ELSE IF c.place = "malformed" THEN 400
                             ELSE IF c.place = "outside" THEN 403
                             ELSE IF st.kind = "absent" THEN 404
                             ELSE IF ~file THEN 403 ELSE 200
                   text == IF status = 200 THEN st.data ELSE <<"text">>
               IN [status |-> status, content_length |-> Len(text),
                   body |-> IF m = "HEAD" THEN <<>> ELSE text]
  <1>3. Answer(method) = Of(method, candidate, Stat)
    BY Zenon DEF Answer
  <1>4. Answer(method)' = Of(method', candidate', Stat')
    BY Zenon DEF Answer
  <1> HIDE DEF Of
  <1> QED
    BY <1>1, <1>2, <1>3, <1>4, Zenon

\* An error is the answer when the object is no file that may be served.
LEMMA AnswerIsError ==
  ASSUME NEW status \in {400, 403, 404, 405},
         status = IF method \notin {"GET", "HEAD"} THEN 405
                  ELSE IF candidate.place = "malformed" THEN 400
                  ELSE IF candidate.place = "outside" THEN 403
                  ELSE IF Stat.kind = "absent" THEN 404
                  ELSE IF ~(Stat.kind = "regular" /\ Len(Stat.data) <= MaxFileBytes
                              /\ (Stat.readable \/ method = "HEAD")) THEN 403 ELSE 200
  PROVE  Answer(method) = ErrorResponse(status)
  BY DEF Answer, ErrorResponse

\* A file is the answer when it is regular, small enough and readable.
LEMMA AnswerIsFile ==
  ASSUME method \in {"GET", "HEAD"}, candidate.place \notin {"malformed", "outside"},
         Stat.kind = "regular", Len(Stat.data) <= MaxFileBytes,
         Stat.readable \/ method = "HEAD"
  PROVE  Answer(method) = [status |-> 200, content_length |-> Len(Stat.data),
                           body |-> IF method = "HEAD" THEN <<>> ELSE Stat.data]
  BY DEF Answer

\* The step that ends an undisturbed request gives the answer the object calls for.
LEMMA QuietEnding ==
  ASSUME TypeOK, Reading, Established, Established', [Next]_vars,
         pc # "done", pc' = "done", changes' = 0, ~failed'
  PROVE  response' = Answer(method)'
  <1> USE DEF requestVars, fsVars
  <1>1. CASE Route
    <2>1. method' = method
      BY <1>1 DEF Route
    <2>2. PICK status \in {400, 403, 405} :
            /\ Finish(make_response(status))
            /\ status = IF method \notin {"GET", "HEAD"} THEN 405
                        ELSE IF candidate'.place = "malformed" THEN 400 ELSE 403
            /\ status = 403 => candidate'.place = "outside"
      BY <1>1 DEF Route, Goto
    <2>3. response' = ErrorResponse(status)
      BY <2>2, FinishError
    <2>4. response' = ErrorResponse(status)'
      BY <2>1, <2>3 DEF ErrorResponse
    <2> QED
      BY <2>1, <2>2, <2>4 DEF Answer, ErrorResponse
  <1>2. ASSUME ~Route, UNCHANGED <<method, candidate, entry>>
        PROVE  Answer(method)' = Answer(method)
    BY <1>2, AnswerKept, Zenon
  <1>3. CASE Exists
    <2>1. UNCHANGED <<method, candidate, entry, changes>> /\ pc = "exists"
      BY <1>3 DEF Exists
    <2>2. Stat.kind = "absent" /\ response' = ErrorResponse(404)
      BY <1>3, FinishError DEF Exists, Goto
    <2>3. Answer(method) = ErrorResponse(404)
      BY <2>1, <2>2, AnswerIsError DEF Established
    <2> QED
      BY <1>2, <2>1, <2>2, <2>3 DEF Route
  <1>4. CASE IsRegularFile
    <2>1. UNCHANGED <<method, candidate, entry, changes>> /\ pc = "regular"
      BY <1>4 DEF IsRegularFile
    <2>2. Stat.kind # "regular" /\ response' = ErrorResponse(403)
      BY <1>4, FinishError DEF IsRegularFile, Goto, NotRegular
    <2>3. Answer(method) = ErrorResponse(403)
      BY <2>1, <2>2, AnswerIsError DEF Established
    <2> QED
      BY <1>2, <2>1, <2>2, <2>3 DEF Route
  <1>5. CASE FileSize
    <2>1. UNCHANGED <<method, candidate, entry, changes>> /\ pc = "size"
      BY <1>5 DEF FileSize
    <2>2. Len(Stat.data) \in Nat /\ MaxFileBytes \in Nat
      BY ObjectFacts, LenProperties, StaticFileAssumption
    <2>3. Stat.kind = "regular"
      BY <2>1 DEF Established
    <2>4. CASE Len(Stat.data) > MaxFileBytes
      <3>1. response' = ErrorResponse(403)
        BY <1>5, <2>4, FinishError DEF FileSize
      <3>2. Answer(method) = ErrorResponse(403)
        BY <2>1, <2>2, <2>3, <2>4, AnswerIsError DEF Established
      <3> QED
        BY <1>2, <2>1, <3>1, <3>2 DEF Route
    <2>5. CASE ~(Len(Stat.data) > MaxFileBytes)
      <3>1. /\ method = "HEAD"
            /\ Finish([status |-> 200, body |-> <<>>, suppress_body |-> TRUE,
                       content_length |-> Len(Stat.data)])
        BY <1>5, <2>3, <2>5 DEF FileSize, Goto
      <3>2. response' = [status |-> 200, content_length |-> Len(Stat.data), body |-> <<>>]
        BY <2>2, <3>1, FinishHead
      <3>3. Answer(method) = response'
        <4>1. candidate.place \notin {"malformed", "outside"} /\ method \in {"GET", "HEAD"}
          BY <2>1 DEF Established
        <4>2. Len(Stat.data) <= MaxFileBytes
          BY <2>2, <2>5
        <4>3. Answer(method) = [status |-> 200, content_length |-> Len(Stat.data),
                                body |-> IF method = "HEAD" THEN <<>> ELSE Stat.data]
          BY <2>3, <3>1, <4>1, <4>2, AnswerIsFile, Zenon
        <4> QED
          BY <3>1, <3>2, <4>3, Zenon
      <3> QED
        BY <1>2, <2>1, <3>3 DEF Route
    <2> QED
      BY <2>4, <2>5
  <1>6. CASE Open
    <2>1. UNCHANGED <<method, candidate, entry, changes>> /\ pc = "open"
      BY <1>6 DEF Open
    <2>2. Stat.kind = "regular" /\ method # "HEAD"
      BY <2>1 DEF Established, Reading
    <2>3. ~Stat.readable /\ response' = ErrorResponse(403)
      BY <1>6, <2>2, FinishError DEF Open, Goto
    <2>4. Answer(method) = ErrorResponse(403)
      BY <2>1, <2>2, <2>3, AnswerIsError DEF Established
    <2> QED
      BY <1>2, <2>1, <2>3, <2>4 DEF Route
  <1>7. CASE ReadFile
    <2>1. UNCHANGED <<method, candidate, entry, changes>> /\ pc = "read"
      BY <1>7 DEF ReadFile
    <2>2. /\ Stat.kind = "regular" /\ method = "GET" /\ Len(Stat.data) <= MaxFileBytes
          /\ candidate.place \notin {"malformed", "outside"}
          /\ stream.kind = "regular" /\ stream.live
      BY <2>1 DEF Established, Reading
    <2>3. Stat.readable /\ ~rewritten
      BY <2>1 DEF Established
    <2>4. StreamData = Stat.data /\ Len(Stat.data) \in Nat
      BY <2>2, ObjectFacts, LenProperties DEF StreamData
    <2>5. Fits(Len(Chunk))
      <3>1. Len(body) \in Nat /\ Len(Chunk) \in Nat /\ MaxFileBytes \in Nat
        BY ChunkFacts, LenProperties, StaticFileAssumption DEF TypeOK
      <3>2. Len(body) <= Len(StreamData)
        BY <2>1, <2>2, <2>3 DEF Reading, OnOneFile
      <3>3. Len(body) + Len(Chunk) <= Len(StreamData)
        BY <2>4, <3>1, <3>2, ChunkFacts
      <3> QED
        BY <2>2, <2>4, <3>1, <3>3 DEF Fits
    <2>6. /\ body' = body \o Chunk /\ Len(Chunk) < ReadSize
          /\ Finish([status |-> 200, body |-> body', suppress_body |-> FALSE,
                     content_length |-> NoLength])
      BY <1>7, <2>2, <2>5 DEF ReadFile, Goto
    <2>7. body' \in Seq(STRING) /\ body' = Stat.data
      BY <2>1, <2>2, <2>3, <2>4, <2>5, <2>6, ReadKeeps, Zenon
    <2>8. response' = [status |-> 200, content_length |-> Len(Stat.data), body |-> Stat.data]
      BY <2>2, <2>6, <2>7, FinishFile, Zenon
    <2>9. Answer(method) = response'
      BY <2>2, <2>3, <2>8, AnswerIsFile
    <2> QED
      BY <1>2, <2>1, <2>9 DEF Route
  <1> QED
    BY <1>1, <1>3, <1>4, <1>5, <1>6, <1>7
       DEF Next, Handle, Returned, vars, CallFails, Replace, Rewrite, Change

\* When nothing changes and no call fails, the steps of handle, route_request and
\* serialize_response give the one answer that the object calls for: for every
\* file, every limit and every size of the reads of read_file.
THEOREM QuietExact == SafeSpec => []QuietAnswerExact
  <1>1. Init => Established /\ QuietAnswerExact
    BY DEF Init, Established, QuietAnswerExact
  <1>2. ASSUME TypeOK, Reading, Established, Established', QuietAnswerExact, [Next]_vars
        PROVE  QuietAnswerExact'
    <2>1. CASE pc = "done"
      <3>1. UNCHANGED <<pc, changes, response, method, candidate, entry>> /\ UNCHANGED failed
        BY <1>2, <2>1, DoneStays DEF vars, requestVars, fsVars
      <3>2. Answer(method)' = Answer(method)
        BY <3>1, AnswerKept, Zenon
      <3> QED
        BY <1>2, <3>1, <3>2 DEF QuietAnswerExact
    <2>2. CASE pc' # "done"
      BY <2>2 DEF QuietAnswerExact
    <2>3. CASE pc # "done" /\ pc' = "done"
      BY <1>2, <2>3, QuietEnding DEF QuietAnswerExact
    <2> QED
      BY <2>1, <2>2, <2>3
  <1>3. ASSUME TypeOK, Established, [Next]_vars
        PROVE  Established'
    BY <1>3, EstablishedStep
  <1> QED
    BY <1>1, <1>2, <1>3, ReadingAlways, PTL DEF SafeSpec

-----------------------------------------------------------------------------
\* Percent-encoding and percent_decode.

\* Induction: a property of numbers that fails somewhere fails first at one
\* whose predecessors have it.
LEMMA LeastFailure ==
  ASSUME NEW T, T \subseteq Nat, T # {}
  PROVE  \E n \in T : \A m \in Nat : m < n => m \notin T
  <1> DEFINE R == OpToRel(<, Nat)
  <1>1. \A x, y \in Nat : x < y => <<x, y>> \in R
    BY Zenon DEF OpToRel
  <1>2. IsWellFoundedOn(R, Nat)
    BY NatLessThanWellFounded, Zenon
  <1> HIDE DEF R
  <1>3. PICK n \in T : \A m \in T : ~(<<m, n>> \in R)
    BY <1>2, WFMin, Zenon
  <1> QED
    BY <1>1, <1>3, Zenon

\* The values of a text, from each position on.
Tables(n, V) == [1..n -> V]

\* G fills each place from the places after it only.
LooksAhead(G, n, V) ==
  \A f, g \in Tables(n, V) : \A i \in 1..n :
    (\A j \in 1..n : j > i => f[j] = g[j]) => G[f][i] = G[g][i]

\* Such a recursion from the end of a text to its start has a solution.
LEMMA FromTheEnd ==
  ASSUME NEW n \in Nat, NEW V, NEW v \in V,
         NEW G \in [Tables(n, V) -> Tables(n, V)], LooksAhead(G, n, V)
  PROVE  \E h \in Tables(n, V) : G[h] = h
  <1> DEFINE
        Up(m, h) == h \in Tables(n, V) /\ \A i \in 1..n : i + m > n => G[h][i] = h[i]
        T == {m \in Nat : ~\E h : Up(m, h)}
  <1>1. T = {}
    <2> SUFFICES ASSUME T # {} PROVE FALSE
      OBVIOUS
    <2>1. T \subseteq Nat
      OBVIOUS
    <2> HIDE DEF T
    <2>2. PICK m \in T : \A l \in Nat : l < m => l \notin T
      BY <2>1, LeastFailure, Zenon
    <2>3. m \in Nat /\ ~\E h : Up(m, h)
      BY DEF T
    <2>4. CASE m = 0
      <3> DEFINE z == [i \in 1..n |-> v]
      <3>1. Up(m, z)
        BY <2>4 DEF Tables
      <3> QED
        BY <2>3, <3>1
    <2>5. CASE m # 0
      <3> HIDE DEF Up
      <3>1. m - 1 \in Nat /\ m - 1 < m
        BY <2>3, <2>5
      <3>2. PICK f : Up(m - 1, f)
        BY <2>2, <3>1 DEF T
      <3>3. f \in Tables(n, V) /\ \A i \in 1..n : i + (m - 1) > n => G[f][i] = f[i]
        BY <3>2 DEF Up
      <3> DEFINE z == G[f]
      <3>4. z \in Tables(n, V)
        BY <3>3
      <3>5. ASSUME NEW i \in 1..n, i + m > n
            PROVE  G[z][i] = z[i]
        <4>1. \A j \in 1..n : j > i => j + (m - 1) > n
          BY <2>3, <3>5
        <4>2. \A j \in 1..n : j > i => z[j] = f[j]
          BY <3>3, <4>1
        <4> HIDE DEF z
        <4>3. G[z][i] = G[f][i]
          BY <3>3, <3>4, <4>2 DEF LooksAhead
        <4> QED
          BY <4>3 DEF z
      <3>6. Up(m, z)
        BY <3>4, <3>5 DEF Up
      <3> QED
        BY <2>3, <3>6
    <2> QED
      BY <2>4, <2>5
  <1>2. PICK h : Up(n, h)
    BY <1>1, Zenon
  <1>3. h \in Tables(n, V) /\ \A i \in 1..n : G[h][i] = h[i]
    BY <1>2
  <1>4. G[h] = h
    BY <1>3 DEF Tables
  <1> QED
    BY <1>3, <1>4

\* c and h are tables that agree wherever they agree on all later places.
AgreeFromTheEnd(c, h, n) ==
  /\ c = [i \in 1..n |-> c[i]] /\ h = [i \in 1..n |-> h[i]]
  /\ \A i \in 1..n : (\A j \in 1..n : j > i => c[j] = h[j]) => c[i] = h[i]

\* And only one.
LEMMA OnlyOne ==
  ASSUME NEW n \in Nat, NEW c, NEW h, AgreeFromTheEnd(c, h, n)
  PROVE  c = h
  <1> USE DEF AgreeFromTheEnd
  <1> DEFINE T == {m \in Nat : m < n /\ c[n - m] # h[n - m]}
  <1>1. T = {}
    <2> SUFFICES ASSUME T # {} PROVE FALSE
      OBVIOUS
    <2>1. PICK m \in T : \A l \in Nat : l < m => l \notin T
      BY LeastFailure, Zenon
    <2>2. n - m \in 1..n /\ m \in Nat
      OBVIOUS
    <2>3. ASSUME NEW j \in 1..n, j > n - m
          PROVE  c[j] = h[j]
      <3>1. n - j \in Nat /\ n - j < m /\ n - j < n /\ n - (n - j) = j
        BY <2>2, <2>3
      <3> QED
        BY <2>1, <3>1, Zenon
    <2>4. c[n - m] = h[n - m]
      BY <2>2, <2>3
    <2> QED
      BY <2>4
  <1>2. ASSUME NEW i \in 1..n
        PROVE  c[i] = h[i]
    <2>1. n - i \in Nat /\ n - i < n /\ n - (n - i) = i
      OBVIOUS
    <2> QED
      BY <1>1, <2>1, Zenon
  <1> QED
    BY <1>2

\* A step of percent_decode, in terms of what comes after it.
Prepend(c, rest) == IF rest.ok THEN [rest EXCEPT !.text = <<c>> \o @] ELSE rest
Decoded(input, f, i) ==
  IF i > Len(input) THEN [ok |-> TRUE, text |-> <<>>]
  ELSE IF input[i] # Percent THEN Prepend(input[i], f[i + 1])
  ELSE IF ~EscapeFits(input, i) THEN Malformed
  ELSE LET high == hex_value(input[i + 1])
           low == hex_value(input[i + 2])
       IN IF high < 0 \/ low < 0 \/ 16 * high + low = 0 THEN Malformed
          ELSE Prepend(16 * high + low, f[i + 3])
Results == [ok : BOOLEAN, text : Seq(Int)]

LEMMA PrependFacts ==
  ASSUME NEW c \in Int, NEW rest \in Results
  PROVE  /\ Prepend(c, rest) \in Results
         /\ rest.ok => Prepend(c, rest) = [ok |-> TRUE, text |-> <<c>> \o rest.text]
  <1>1. <<c>> \o rest.text \in Seq(Int)
    BY DEF Results
  <1>2. [rest EXCEPT !.text = <<c>> \o @] = [ok |-> rest.ok, text |-> <<c>> \o rest.text]
    <2> DEFINE w == <<c>> \o rest.text
    <2> HIDE DEF w
    <2>1. \A x : [rest EXCEPT !.text = x] = [ok |-> rest.ok, text |-> x]
      BY DEF Results
    <2>2. [rest EXCEPT !.text = w] = [ok |-> rest.ok, text |-> w]
      BY <2>1
    <2> QED
      BY <2>2, Zenon DEF w
  <1>3. rest.ok \in BOOLEAN
    BY DEF Results
  <1>4. [ok |-> rest.ok, text |-> <<c>> \o rest.text] \in Results
    BY <1>1, <1>3 DEF Results
  <1>5. rest.ok => rest.ok = TRUE
    BY <1>3
  <1> QED
    BY <1>2, <1>4, <1>5, Zenon DEF Prepend

LEMMA HexType ==
  ASSUME NEW c \in Int
  PROVE  hex_value(c) \in Int
  BY DEF hex_value

\* percent_decode as the recursion from the end of its input.
LEMMA DecodeRuns ==
  ASSUME NEW input \in Seq(Int)
  PROVE  \E h \in Tables(Len(input) + 1, Results) :
           /\ percent_decode(input) = h[1]
           /\ \A i \in 1..(Len(input) + 1) : h[i] = Decoded(input, h, i)
  <1> DEFINE n == Len(input) + 1
             D == Tables(n, Results)
             G == [f \in D |-> [i \in 1..n |-> Decoded(input, f, i)]]
             Is(f) == f = [i \in 1..n |-> Decoded(input, f, i)]
  <1>1. /\ n \in Nat /\ Len(input) \in Nat /\ 1 \in 1..n
        /\ \A i \in 1..Len(input) : input[i] \in Int
    BY LenProperties, ElementOfSeq
  <1>2. percent_decode(input) = (CHOOSE f : Is(f))[1]
    BY DEF percent_decode, Decoded, Prepend
  <1>3. ASSUME NEW i \in 1..n, i <= Len(input)
        PROVE  /\ i \in 1..Len(input) /\ i + 1 \in 1..n
               /\ EscapeFits(input, i) =>
                    i + 1 \in 1..Len(input) /\ i + 2 \in 1..Len(input) /\ i + 3 \in 1..n
    BY <1>1, <1>3 DEF EscapeFits
  <1>4. Malformed \in Results /\ [ok |-> TRUE, text |-> <<>>] \in Results
    BY DEF Malformed, Results
  <1> HIDE DEF n
  <1>5. ASSUME NEW f \in D, NEW i \in 1..n
        PROVE  Decoded(input, f, i) \in Results
    <2>1. CASE i > Len(input)
      BY <1>4, <2>1 DEF Decoded
    <2>2. CASE ~(i > Len(input)) /\ input[i] # Percent
      <3>1. input[i] \in Int /\ f[i + 1] \in Results
        BY <1>1, <1>3, <2>2 DEF Tables
      <3> QED
        BY <2>2, <3>1, PrependFacts, Zenon DEF Decoded
    <2>3. CASE ~(i > Len(input)) /\ input[i] = Percent
      <3> DEFINE high == hex_value(input[i + 1])
                 low == hex_value(input[i + 2])
      <3>1. EscapeFits(input, i) => high \in Int /\ low \in Int /\ f[i + 3] \in Results
        <4>1. i <= Len(input)
          BY <1>1, <2>3
        <4>2. EscapeFits(input, i) =>
                input[i + 1] \in Int /\ input[i + 2] \in Int /\ i + 3 \in 1..n
          BY <1>1, <1>3, <4>1
        <4> QED
          BY <4>2, HexType, Zenon DEF Tables
      <3>2. Decoded(input, f, i) \in {Malformed, Prepend(16 * high + low, f[i + 3])}
        BY <2>3, Zenon DEF Decoded
      <3>3. ~EscapeFits(input, i) => Decoded(input, f, i) = Malformed
        BY <2>3, Zenon DEF Decoded
      <3> HIDE DEF high, low
      <3>4. EscapeFits(input, i) => 16 * high + low \in Int
        BY <3>1
      <3>5. EscapeFits(input, i) => Prepend(16 * high + low, f[i + 3]) \in Results
        BY <3>1, <3>4, PrependFacts, Zenon
      <3> QED
        BY <1>4, <3>2, <3>3, <3>5
    <2> QED
      BY <2>1, <2>2, <2>3
  <1>6. G \in [D -> D]
    BY <1>5 DEF Tables
  <1>7. ASSUME NEW f, NEW g, NEW i \in 1..n, \A j \in 1..n : j > i => f[j] = g[j]
        PROVE  Decoded(input, f, i) = Decoded(input, g, i)
    <2>1. CASE i > Len(input)
      BY <2>1, Zenon DEF Decoded
    <2>2. CASE ~(i > Len(input))
      <3>1. i <= Len(input) /\ i + 1 > i /\ i + 3 > i
        BY <1>1, <2>2
      <3>2. f[i + 1] = g[i + 1]
        BY <1>3, <1>7, <3>1
      <3>3. EscapeFits(input, i) => f[i + 3] = g[i + 3]
        BY <1>3, <1>7, <3>1
      <3> QED
        BY <2>2, <3>2, <3>3, Zenon DEF Decoded
    <2> QED
      BY <2>1, <2>2
  <1>8. LooksAhead(G, n, Results)
    BY <1>7 DEF LooksAhead
  <1> HIDE DEF G, D
  <1>9. PICK h \in D : G[h] = h
    BY <1>1, <1>4, <1>6, <1>8, FromTheEnd DEF D
  <1>10. Is(h)
    BY <1>9 DEF G
  <1> DEFINE c == CHOOSE f : Is(f)
  <1>11. Is(c)
    BY <1>10, Zenon
  <1> HIDE DEF c
  <1>12. \A i \in 1..n : c[i] = Decoded(input, c, i) /\ h[i] = Decoded(input, h, i)
    BY <1>10, <1>11, Zenon
  <1>13. c = [i \in 1..n |-> c[i]] /\ h = [i \in 1..n |-> h[i]]
    BY <1>9, <1>11 DEF D, Tables
  <1>14. c = h
    <2> HIDE DEF Is
    <2>1. \A i \in 1..n : (\A j \in 1..n : j > i => c[j] = h[j]) => c[i] = h[i]
      BY <1>7, <1>12
    <2>2. AgreeFromTheEnd(c, h, n)
      BY <1>13, <2>1, Zenon DEF AgreeFromTheEnd
    <2> QED
      BY <1>1, <2>2, OnlyOne, Zenon
  <1> QED
    BY <1>2, <1>9, <1>12, <1>14, Zenon DEF c, D, n

\* What stands for the character at position i.
Piece(t, S, i) ==
  IF i \in S THEN <<Percent, HexDigit(t[i] \div 16), HexDigit(t[i] % 16)>> ELSE <<t[i]>>

\* The two digits of a character's code.
LEMMA ByteFacts ==
  ASSUME NEW c \in 0..255
  PROVE  c \div 16 \in 0..15 /\ c % 16 \in 0..15 /\ 16 * (c \div 16) + (c % 16) = c
  <1> DEFINE q == c \div 16
             r == c % 16
  <1>1. q \in Int /\ r \in 0..15 /\ c = 16 * q + r
    OBVIOUS
  <1> HIDE DEF q, r
  <1>2. q \in 0..15 /\ r \in 0..15 /\ 16 * q + r = c
    BY <1>1
  <1> QED
    BY <1>2, Zenon DEF q, r

\* hex_value reads back what HexDigit writes.
LEMMA HexFacts ==
  ASSUME NEW x \in 0..15
  PROVE  /\ HexDigit(x) \in Int /\ HexDigit(x) # Percent /\ HexDigit(x) # Question
         /\ hex_value(HexDigit(x)) = x
  <1>1. CASE x < 10
    <2>1. HexDigit(x) = 48 + x /\ 48 + x \in 48..57
      BY <1>1 DEF HexDigit
    <2> QED
      BY <2>1 DEF hex_value, Percent, Question
  <1>2. CASE ~(x < 10)
    <2>1. HexDigit(x) = 97 + x - 10 /\ 97 + x - 10 \in 97..102 /\ ~(97 + x - 10 \in 48..57)
      BY <1>2 DEF HexDigit
    <2> QED
      BY <2>1 DEF hex_value, Percent, Question
  <1> QED
    BY <1>1, <1>2

LEMMA PieceFacts ==
  ASSUME NEW t \in Seq(0..255), NEW S, NEW i \in 1..Len(t)
  PROVE  /\ t[i] \in 0..255 /\ Piece(t, S, i) \in Seq(Int)
         /\ Len(Piece(t, S, i)) = IF i \in S THEN 3 ELSE 1
         /\ i \notin S => Piece(t, S, i)[1] = t[i]
         /\ i \in S => /\ Piece(t, S, i)[1] = Percent
                       /\ Piece(t, S, i)[2] = HexDigit(t[i] \div 16)
                       /\ Piece(t, S, i)[3] = HexDigit(t[i] % 16)
         /\ t[i] # Question => \A j \in 1..Len(Piece(t, S, i)) : Piece(t, S, i)[j] # Question
  <1>1. t[i] \in 0..255
    BY ElementOfSeq
  <1> DEFINE hi == HexDigit(t[i] \div 16)
             lo == HexDigit(t[i] % 16)
             p == Piece(t, S, i)
  <1>2. hi \in Int /\ lo \in Int /\ hi # Question /\ lo # Question
    BY <1>1, ByteFacts, HexFacts, Zenon
  <1>3. p = IF i \in S THEN <<Percent, hi, lo>> ELSE <<t[i]>>
    BY DEF Piece
  <1> HIDE DEF hi, lo, p
  <1>4. CASE i \in S
    <2>1. /\ p \in Seq(Int) /\ Len(p) = 3 /\ p[1] = Percent /\ p[2] = hi /\ p[3] = lo
      BY <1>2, <1>3, <1>4 DEF Percent
    <2>2. Percent # Question
      BY DEF Percent, Question
    <2>3. \A j \in 1..3 : p[j] # Question
      BY <1>2, <2>1, <2>2
    <2> QED
      BY <1>1, <1>4, <2>1, <2>3, Zenon DEF hi, lo, p
  <1>5. CASE i \notin S
    <2> DEFINE x == t[i]
    <2>0. x \in Int
      <3>1. \A y \in 0..255 : y \in Int
        OBVIOUS
      <3> QED
        BY <1>1, <3>1, Zenon
    <2>1. p = <<x>>
      BY <1>3, <1>5, Zenon
    <2> HIDE DEF x
    <2>3. p \in Seq(Int) /\ Len(p) = 1 /\ p[1] = x
      BY <2>0, <2>1
    <2>2. x # Question => \A j \in 1..1 : p[j] # Question
      BY <2>3
    <2> QED
      BY <1>1, <1>5, <2>3, <2>2, Zenon DEF p, x
  <1> QED
    BY <1>4, <1>5, Zenon

\* What Escaped writes from each position on.
EscapeTable(h, t, S) ==
  /\ h \in Tables(Len(t) + 1, Seq(Int)) /\ h[Len(t) + 1] = <<>>
  /\ \A i \in 1..Len(t) : h[i] = Piece(t, S, i) \o h[i + 1]

\* Escaped as the recursion from the end of the text.
LEMMA EscapeRuns ==
  ASSUME NEW t \in Seq(0..255), NEW S
  PROVE  \E h : EscapeTable(h, t, S) /\ Escaped(t, S) = h[1]
  <1> DEFINE n == Len(t) + 1
             V == Seq(Int)
             D == Tables(n, V)
             E(f, i) == IF i > Len(t) THEN <<>> ELSE Piece(t, S, i) \o f[i + 1]
             G == [f \in D |-> [i \in 1..n |-> E(f, i)]]
             Is(f) == f = [i \in 1..n |-> E(f, i)]
  <1>1. n \in Nat /\ Len(t) \in Nat /\ 1 \in 1..n
    BY LenProperties
  <1>2. Escaped(t, S) = (CHOOSE f : Is(f))[1]
    BY DEF Escaped, Piece
  <1>3. ASSUME NEW i \in 1..n, ~(i > Len(t))
        PROVE  i \in 1..Len(t) /\ i + 1 \in 1..n /\ i + 1 > i
    BY <1>1, <1>3
  <1>4. \A i \in 1..Len(t) : i \in 1..n /\ ~(i > Len(t))
    BY <1>1
  <1>5. n \in 1..n /\ n > Len(t)
    BY <1>1
  <1> HIDE DEF n
  <1>6. ASSUME NEW f \in D, NEW i \in 1..n
        PROVE  E(f, i) \in V
    <2>1. CASE i > Len(t)
      BY <2>1
    <2>2. CASE ~(i > Len(t))
      <3>1. Piece(t, S, i) \in Seq(Int) /\ f[i + 1] \in Seq(Int)
        BY <1>3, <2>2, PieceFacts DEF Tables
      <3> QED
        BY <2>2, <3>1, ConcatProperties
    <2> QED
      BY <2>1, <2>2
  <1>7. G \in [D -> D]
    BY <1>6, Zenon DEF Tables
  <1>8. ASSUME NEW f, NEW g, NEW i \in 1..n, \A j \in 1..n : j > i => f[j] = g[j]
        PROVE  E(f, i) = E(g, i)
    BY <1>3, <1>8
  <1>9. LooksAhead(G, n, V)
    <2>1. ASSUME NEW f \in D, NEW i \in 1..n
          PROVE  G[f][i] = E(f, i)
      BY <2>1, Zenon
    <2> HIDE DEF G, E, V, Is
    <2>2. ASSUME NEW f \in D, NEW g \in D, NEW i \in 1..n,
                 \A j \in 1..n : j > i => f[j] = g[j]
          PROVE  G[f][i] = G[g][i]
      <3>1. E(f, i) = E(g, i)
        BY <1>8, <2>2, Zenon
      <3> QED
        BY <2>1, <3>1, Zenon
    <2> QED
      BY <2>2, Zenon DEF LooksAhead
  <1>10. <<>> \in V
    OBVIOUS
  <1> HIDE DEF G, D, V
  <1>11. PICK h \in D : G[h] = h
    BY <1>1, <1>7, <1>9, <1>10, FromTheEnd DEF D
  <1>12. Is(h)
    BY <1>11 DEF G
  <1> DEFINE c == CHOOSE f : Is(f)
  <1>13. Is(c)
    BY <1>12, Zenon
  <1> HIDE DEF c
  <1>14. \A i \in 1..n : c[i] = E(c, i) /\ h[i] = E(h, i)
    BY <1>12, <1>13, Zenon
  <1>15. c = [i \in 1..n |-> c[i]] /\ h = [i \in 1..n |-> h[i]]
    BY <1>11, <1>13 DEF D, Tables
  <1>16. c = h
    <2> HIDE DEF Is, E
    <2>1. \A i \in 1..n : (\A j \in 1..n : j > i => c[j] = h[j]) => c[i] = h[i]
      BY <1>8, <1>14
    <2>2. AgreeFromTheEnd(c, h, n)
      BY <1>15, <2>1, Zenon DEF AgreeFromTheEnd
    <2> QED
      BY <1>1, <2>2, OnlyOne, Zenon
  <1>17. h[n] = <<>> /\ \A i \in 1..Len(t) : h[i] = Piece(t, S, i) \o h[i + 1]
    BY <1>4, <1>5, <1>14, Zenon
  <1> QED
    BY <1>2, <1>11, <1>16, <1>17, Zenon DEF c, D, V, n, EscapeTable

\* What is written for the rest of the text is a suffix of the whole, and
\* starts with what stands for its first character.
SuffixTable(h, t, S) ==
  /\ \A i \in 1..(Len(t) + 1) :
       /\ Len(h[i]) \in Nat /\ Len(h[i]) <= Len(h[1])
       /\ \A j \in 1..Len(h[i]) : h[1][(Len(h[1]) - Len(h[i])) + j] = h[i][j]
  /\ \A i \in 1..Len(t) :
       /\ Len(h[i]) = Len(Piece(t, S, i)) + Len(h[i + 1])
       /\ \A j \in 1..Len(Piece(t, S, i)) : h[i][j] = Piece(t, S, i)[j]

LEMMA EscapedSuffixes ==
  ASSUME NEW t \in Seq(0..255), NEW S, NEW h, EscapeTable(h, t, S)
  PROVE  SuffixTable(h, t, S)
  <1> DEFINE n == Len(t)
             P(i) == Piece(t, S, i)
             N == Len(h[1])
  <1>1. n \in Nat
    BY LenProperties
  <1>2. \A i \in 1..(n + 1) : h[i] \in Seq(Int) /\ Len(h[i]) \in Nat
    BY LenProperties, Zenon DEF EscapeTable, Tables
  <1>3. ASSUME NEW i \in 1..n
        PROVE  /\ P(i) \in Seq(Int) /\ Len(P(i)) \in Nat
               /\ Len(h[i]) = Len(P(i)) + Len(h[i + 1])
               /\ \A j \in 1..Len(P(i)) : h[i][j] = P(i)[j]
               /\ \A j \in 1..Len(h[i + 1]) : h[i][Len(P(i)) + j] = h[i + 1][j]
    <2> DEFINE p == P(i)
               w == h[i + 1]
    <2>1. i + 1 \in 1..(n + 1)
      BY <1>1
    <2>2. p \in Seq(Int) /\ Len(p) \in Nat /\ w \in Seq(Int) /\ Len(w) \in Nat /\ h[i] = p \o w
      BY <1>2, <2>1, PieceFacts, LenProperties, Zenon DEF EscapeTable
    <2> HIDE DEF p, w
    <2>3. /\ Len(p \o w) = Len(p) + Len(w)
          /\ \A x \in 1..(Len(p) + Len(w)) :
               (p \o w)[x] = IF x <= Len(p) THEN p[x] ELSE w[x - Len(p)]
      BY <2>2, ConcatProperties
    <2>4. ASSUME NEW j \in 1..Len(p) PROVE (p \o w)[j] = p[j]
      BY <2>2, <2>3
    <2>5. ASSUME NEW j \in 1..Len(w) PROVE (p \o w)[Len(p) + j] = w[j]
      <3> DEFINE y == Len(p) + j
      <3>1. y \in 1..(Len(p) + Len(w)) /\ ~(y <= Len(p)) /\ y - Len(p) = j
        BY <2>2
      <3> HIDE DEF y
      <3>2. (p \o w)[y] = w[j]
        BY <2>3, <3>1
      <3> QED
        BY <3>2 DEF y
    <2> QED
      BY <2>2, <2>3, <2>4, <2>5, Zenon DEF p, w
  <1> HIDE DEF n, P
  <1> DEFINE
        Good(i) == /\ Len(h[i]) <= N
                   /\ \A j \in 1..Len(h[i]) : h[1][(N - Len(h[i])) + j] = h[i][j]
        T == {k \in Nat : k <= n /\ ~Good(k + 1)}
  <1>4. N \in Nat
    BY <1>1, <1>2
  <1>5. Good(0 + 1)
    <2>1. \A j \in 1..N : (N - N) + j = j
      BY <1>4
    <2> QED
      BY <1>4, <2>1
  <1>6. ASSUME NEW k \in 1..n, Good(k)
        PROVE  Good(k + 1)
    <2> DEFINE a == Len(h[k])
               b == Len(h[k + 1])
               l == Len(P(k))
    <2>1. k \in 1..(n + 1) /\ k + 1 \in 1..(n + 1)
      BY <1>1
    <2>2. a \in Nat /\ b \in Nat /\ l \in Nat /\ a = l + b /\ a <= N
      BY <1>2, <1>3, <1>6, <2>1, Zenon
    <2>3. /\ \A j \in 1..b : h[k][l + j] = h[k + 1][j]
          /\ \A j \in 1..a : h[1][(N - a) + j] = h[k][j]
      BY <1>3, <1>6, Zenon
    <2> HIDE DEF a, b, l, N
    <2>4. ASSUME NEW j \in 1..b
          PROVE  h[1][(N - b) + j] = h[k + 1][j]
      <3>1. l + j \in 1..a /\ (N - a) + (l + j) = (N - b) + j
        BY <1>4, <2>2
      <3> QED
        BY <2>3, <3>1, Zenon
    <2>5. b <= N
      BY <1>4, <2>2
    <2> QED
      BY <2>4, <2>5 DEF b
  <1> HIDE DEF Good
  <1>7. T = {}
    <2> SUFFICES ASSUME T # {} PROVE FALSE
      OBVIOUS
    <2>1. PICK k \in T : \A j \in Nat : j < k => j \notin T
      BY LeastFailure, Zenon
    <2>2. k \in Nat /\ k <= n /\ k # 0 /\ ~Good(k + 1)
      BY <1>5
    <2>3. k \in 1..n /\ k - 1 \in Nat /\ k - 1 < k /\ k - 1 <= n /\ (k - 1) + 1 = k
      BY <1>1, <2>2
    <2>4. Good(k)
      BY <2>1, <2>3
    <2> QED
      BY <1>6, <2>2, <2>3, <2>4
  <1>8. ASSUME NEW i \in 1..(n + 1) PROVE Good(i)
    <2>1. i - 1 \in Nat /\ i - 1 <= n /\ (i - 1) + 1 = i
      BY <1>1
    <2>2. Good((i - 1) + 1)
      BY <1>7, <2>1
    <2> QED
      BY <2>1, <2>2
  <1> QED
    BY <1>2, <1>3, <1>8, Zenon DEF Good, n, P, SuffixTable

\* The rest of a text.
LEMMA RestOf ==
  ASSUME NEW A, NEW s \in Seq(A), NEW i \in Nat, i >= 1, i <= Len(s) + 1
  PROVE  /\ SubSeq(s, i, Len(s)) \in Seq(A) /\ Len(SubSeq(s, i, Len(s))) = Len(s) - i + 1
         /\ \A j \in 1..(Len(s) - i + 1) : SubSeq(s, i, Len(s))[j] = s[i + j - 1]
  <1>1. Len(s) \in Nat
    BY LenProperties
  <1>2. SubSeq(s, i, Len(s)) \in Seq(A)
    <2>1. \A k \in i..Len(s) : k \in 1..Len(s)
      BY <1>1
    <2> QED
      BY <2>1, SubSeqProperties
  <1> QED
    BY <1>1, <1>2

\* The characters of two texts put together.
LEMMA TextsJoined ==
  ASSUME NEW y \in Seq(0..255), NEW w \in Seq(0..255)
  PROVE  /\ y \o w \in Seq(0..255) /\ Len(y \o w) = Len(y) + Len(w)
         /\ \A j \in 1..(Len(y) + Len(w)) :
              (y \o w)[j] = IF j <= Len(y) THEN y[j] ELSE w[j - Len(y)]
  BY ConcatProperties

\* Taking a text apart at its first character.
LEMMA FirstOff ==
  ASSUME NEW t \in Seq(0..255), NEW i \in 1..Len(t)
  PROVE  /\ <<t[i]>> \o SubSeq(t, i + 1, Len(t)) = SubSeq(t, i, Len(t))
         /\ SubSeq(t, i + 1, Len(t)) \in Seq(0..255)
  <1> DEFINE n == Len(t)
             w == SubSeq(t, i + 1, n)
             s == SubSeq(t, i, n)
             x == t[i]
  <1>1. n \in Nat /\ i \in 1..n /\ x \in 0..255
    BY LenProperties, ElementOfSeq
  <1>2. w \in Seq(0..255) /\ Len(w) = n - i /\ \A j \in 1..(n - i) : w[j] = t[i + j]
    <2>1. i + 1 \in Nat /\ i + 1 >= 1 /\ i + 1 <= n + 1
      BY <1>1
    <2>2. /\ w \in Seq(0..255) /\ Len(w) = n - (i + 1) + 1
          /\ \A j \in 1..(n - (i + 1) + 1) : w[j] = t[(i + 1) + j - 1]
      BY <2>1, RestOf, Zenon
    <2> HIDE DEF n, w
    <2>3. n - (i + 1) + 1 = n - i
      BY <1>1
    <2>4. ASSUME NEW j \in 1..(n - i) PROVE w[j] = t[i + j]
      <3>1. (i + 1) + j - 1 = i + j /\ j \in 1..(n - (i + 1) + 1)
        BY <1>1, <2>3
      <3>2. w[j] = t[(i + 1) + j - 1]
        BY <2>2, <3>1
      <3> QED
        BY <3>1, <3>2, Zenon
    <2> QED
      BY <2>2, <2>3, <2>4
  <1>3. /\ s \in Seq(0..255) /\ Len(s) = n - i + 1
        /\ \A j \in 1..(n - i + 1) : s[j] = t[i + j - 1]
    <2>1. i \in Nat /\ i >= 1 /\ i <= n + 1
      BY <1>1
    <2> QED
      BY <2>1, RestOf, Zenon
  <1>4. <<x>> \in Seq(0..255) /\ Len(<<x>>) = 1 /\ <<x>>[1] = x
    BY <1>1
  <1> HIDE DEF n, w, s
  <1> DEFINE y == <<x>>
             v == y \o w
  <1> HIDE DEF y
  <1>5. /\ v \in Seq(0..255) /\ Len(v) = 1 + (n - i)
        /\ \A j \in 1..(1 + (n - i)) : v[j] = IF j <= 1 THEN y[j] ELSE w[j - 1]
    <2>1. y \in Seq(0..255) /\ Len(y) = 1 /\ w \in Seq(0..255) /\ Len(w) = n - i
      BY <1>2, <1>4, Zenon DEF y
    <2>2. /\ v \in Seq(0..255) /\ Len(v) = Len(y) + Len(w)
          /\ \A j \in 1..(Len(y) + Len(w)) :
               v[j] = IF j <= Len(y) THEN y[j] ELSE w[j - Len(y)]
      BY <2>1, TextsJoined, Zenon
    <2> HIDE DEF v
    <2> QED
      BY <2>1, <2>2, Zenon
  <1> HIDE DEF v
  <1>6. Len(v) = Len(s) /\ Len(v) \in Nat
    BY <1>1, <1>3, <1>5
  <1>7. ASSUME NEW j \in 1..Len(v)
        PROVE  v[j] = s[j]
    <2>1. CASE j = 1
      <3>1. i + 1 - 1 = i /\ 1 \in 1..(n - i + 1)
        BY <1>1
      <3>2. 1 <= 1 /\ 1 \in 1..(1 + (n - i))
        BY <1>1
      <3>3. v[1] = x
        BY <1>4, <1>5, <3>2, Zenon DEF y
      <3>4. s[1] = x
        BY <1>1, <1>3, <3>1
      <3> QED
        BY <2>1, <3>3, <3>4, Zenon
    <2>2. CASE j # 1
      <3>1. /\ j - 1 \in 1..(n - i) /\ i + (j - 1) = i + j - 1 /\ j \in 1..(n - i + 1)
            /\ ~(j <= 1)
        BY <1>1, <1>5, <2>2
      <3> QED
        BY <1>2, <1>3, <1>5, <3>1, Zenon
    <2> QED
      BY <2>1, <2>2
  <1>8. v = s
    BY <1>3, <1>5, <1>6, <1>7, SeqEqual, Zenon
  <1> QED
    BY <1>2, <1>8 DEF v, s, w, n, x

\* A text is a sequence of numbers.
LEMMA IntText ==
  ASSUME NEW s \in Seq(0..255)
  PROVE  s \in Seq(Int)
  <1>1. 0..255 \subseteq Int
    OBVIOUS
  <1> QED
    BY <1>1, SeqMonotonic, Zenon

\* percent_decode undoes Escaped: whatever characters but NUL are escaped in a
\* text without percent signs, the text comes back.
LEMMA RoundTrip ==
  ASSUME NEW t \in Seq(0..255), ~Contains(t, Percent),
         NEW S, \A i \in S : i \in 1..Len(t) => t[i] # 0
  PROVE  percent_decode(Escaped(t, S)) = [ok |-> TRUE, text |-> t]
  <1> DEFINE n == Len(t)
             P(i) == Piece(t, S, i)
  <1>1. n \in Nat /\ \A i \in 1..n : t[i] \in 0..255 /\ t[i] # Percent
    BY LenProperties, ElementOfSeq DEF Contains
  <1>0. PICK h : EscapeTable(h, t, S) /\ Escaped(t, S) = h[1]
    BY EscapeRuns, Zenon
  <1>2. h \in Tables(n + 1, Seq(Int)) /\ Escaped(t, S) = h[1] /\ h[n + 1] = <<>>
    BY <1>0 DEF EscapeTable
  <1> DEFINE u == h[1]
             N == Len(u)
             L(i) == Len(h[i])
  <1>3. u \in Seq(Int) /\ N \in Nat
    BY <1>1, <1>2, LenProperties DEF Tables
  <1>4. /\ \A i \in 1..(n + 1) : L(i) \in Nat /\ L(i) <= N
        /\ \A i \in 1..(n + 1) : \A j \in 1..L(i) : u[(N - L(i)) + j] = h[i][j]
        /\ \A i \in 1..n : L(i) = Len(P(i)) + L(i + 1)
        /\ \A i \in 1..n : \A j \in 1..Len(P(i)) : h[i][j] = P(i)[j]
    <2>1. SuffixTable(h, t, S)
      BY <1>0, EscapedSuffixes
    <2> QED
      BY <2>1, Zenon DEF SuffixTable
  <1>5. PICK d \in Tables(N + 1, Results) :
          percent_decode(u) = d[1] /\ \A i \in 1..(N + 1) : d[i] = Decoded(u, d, i)
    BY <1>3, DecodeRuns, Zenon
  <1>6. \A i \in 1..n : /\ Len(P(i)) = IF i \in S THEN 3 ELSE 1
                        /\ i \notin S => P(i)[1] = t[i]
                        /\ i \in S => /\ P(i)[1] = Percent /\ P(i)[2] = HexDigit(t[i] \div 16)
                                      /\ P(i)[3] = HexDigit(t[i] % 16)
    BY PieceFacts
  <1>7. L(n + 1) = 0
    BY <1>2
  <1> DEFINE Rest(i) == [ok |-> TRUE, text |-> SubSeq(t, i, n)]
             Good(i) == d[(N - L(i)) + 1] = Rest(i)
  <1>8. Good(n + 1)
    <2>1. (N - L(n + 1)) + 1 = N + 1 /\ N + 1 \in 1..(N + 1) /\ N + 1 > N
      BY <1>3, <1>7
    <2>2. d[N + 1] = [ok |-> TRUE, text |-> <<>>]
      BY <1>5, <2>1, Zenon DEF Decoded
    <2>3. SubSeq(t, n + 1, n) = <<>>
      BY <1>1
    <2> QED
      BY <2>1, <2>2, <2>3, Zenon
  <1>9. \A i \in 1..n : Rest(i + 1) \in Results /\ Prepend(t[i], Rest(i + 1)) = Rest(i)
    <2> SUFFICES ASSUME NEW i \in 1..n
                 PROVE  Rest(i + 1) \in Results /\ Prepend(t[i], Rest(i + 1)) = Rest(i)
      BY Zenon
    <2> DEFINE w == SubSeq(t, i + 1, n)
    <2>1. w \in Seq(Int) /\ <<t[i]>> \o w = SubSeq(t, i, n) /\ t[i] \in Int
      <3>1. w \in Seq(0..255) /\ <<t[i]>> \o w = SubSeq(t, i, n)
        BY FirstOff, Zenon
      <3>2. w \in Seq(Int)
        BY <3>1, IntText
      <3>3. t[i] \in Int
        <4>1. \A c \in 0..255 : c \in Int
          OBVIOUS
        <4> QED
          BY <1>1, <4>1, Zenon
      <3> QED
        BY <3>1, <3>2, <3>3, Zenon
    <2> HIDE DEF w
    <2>2. [ok |-> TRUE, text |-> w] \in Results
      BY <2>1, Zenon DEF Results
    <2>3. Prepend(t[i], [ok |-> TRUE, text |-> w]) = [ok |-> TRUE, text |-> <<t[i]>> \o w]
      BY <2>1, <2>2, PrependFacts, Zenon
    <2> QED
      BY <2>1, <2>2, <2>3, Zenon DEF w
  <1> HIDE DEF n, P, u, N, L, Rest
  <1>10. ASSUME NEW i \in 1..n, Good(i + 1)
         PROVE  Good(i)
    <2> DEFINE x == (N - L(i)) + 1
               y == (N - L(i + 1)) + 1
    <2>1. i \in 1..(n + 1) /\ i + 1 \in 1..(n + 1)
      BY <1>1
    <2>2. /\ L(i) \in Nat /\ L(i + 1) \in Nat /\ L(i) <= N /\ L(i + 1) <= N
          /\ L(i) = Len(P(i)) + L(i + 1)
          /\ \A j \in 1..L(i) : u[(N - L(i)) + j] = h[i][j]
          /\ \A j \in 1..Len(P(i)) : h[i][j] = P(i)[j]
      BY <1>4, <2>1, Zenon
    <2>2a. /\ N \in Nat /\ L(i) \in Nat /\ L(i + 1) \in Nat /\ L(i) <= N /\ L(i + 1) <= N
           /\ L(i) = Len(P(i)) + L(i + 1)
      BY <1>3, <2>2, Zenon
    <2>3. d[y] = Rest(i + 1)
      BY <1>10
    <2>4. CASE i \notin S
      <3>1. Len(P(i)) = 1 /\ P(i)[1] = t[i]
        BY <1>6, <2>4
      <3>2. /\ x \in 1..(N + 1) /\ ~(x > N) /\ y = x + 1
            /\ 1 \in 1..L(i) /\ 1 \in 1..Len(P(i))
        BY <2>2a, <3>1
      <3>3. u[x] = t[i]
        <4>1. u[(N - L(i)) + 1] = h[i][1] /\ h[i][1] = P(i)[1]
          BY <2>2, <3>2, Zenon
        <4> QED
          BY <3>1, <4>1, Zenon
      <3> HIDE DEF x, y
      <3>4. d[x] = Prepend(t[i], d[x + 1])
        <4>1. u[x] # Percent
          BY <1>1, <3>3
        <4>2. d[x] = Decoded(u, d, x)
          BY <1>5, <3>2
        <4> QED
          BY <3>2, <3>3, <4>1, <4>2, Zenon DEF Decoded, N
      <3>5. d[x] = Rest(i)
        BY <1>9, <2>3, <3>2, <3>4
      <3> QED
        BY <3>5 DEF x
    <2>5. CASE i \in S
      <3> DEFINE q == t[i] \div 16
                 r == t[i] % 16
      <3>1. /\ Len(P(i)) = 3 /\ P(i)[1] = Percent /\ P(i)[2] = HexDigit(q)
            /\ P(i)[3] = HexDigit(r)
        BY <1>6, <2>5
      <3>2. /\ x \in 1..(N + 1) /\ ~(x > N) /\ y = x + 3 /\ x + 2 <= N
            /\ 1 \in 1..L(i) /\ 2 \in 1..L(i) /\ 3 \in 1..L(i)
            /\ (N - L(i)) + 2 = x + 1 /\ (N - L(i)) + 3 = x + 2
        <4> DEFINE a == L(i)
                   b == L(i + 1)
        <4>1. N \in Nat /\ a \in Nat /\ b \in Nat /\ a <= N /\ a = 3 + b
          BY <2>2a, <3>1, Zenon
        <4> HIDE DEF a, b
        <4>2. /\ (N - a) + 1 \in 1..(N + 1) /\ ~((N - a) + 1 > N)
              /\ (N - b) + 1 = ((N - a) + 1) + 3 /\ ((N - a) + 1) + 2 <= N
          BY <4>1
        <4>3. /\ 1 \in 1..a /\ 2 \in 1..a /\ 3 \in 1..a
              /\ (N - a) + 2 = ((N - a) + 1) + 1 /\ (N - a) + 3 = ((N - a) + 1) + 2
          BY <4>1
        <4> QED
          BY <4>2, <4>3, Zenon DEF a, b, x, y
      <3>3. u[x] = Percent /\ u[x + 1] = HexDigit(q) /\ u[x + 2] = HexDigit(r)
        <4>1. 1 \in 1..3 /\ 2 \in 1..3 /\ 3 \in 1..3
          OBVIOUS
        <4> QED
          BY <2>2, <3>1, <3>2, <4>1, Zenon
      <3>4. q \in 0..15 /\ r \in 0..15 /\ 16 * q + r = t[i] /\ t[i] # 0
        BY <1>1, <2>5, ByteFacts, Zenon DEF n
      <3> HIDE DEF x, y, q, r
      <3>5. hex_value(u[x + 1]) = q /\ hex_value(u[x + 2]) = r
        BY <3>3, <3>4, HexFacts, Zenon
      <3>6. d[x] = Prepend(t[i], d[x + 3])
        <4>1. d[x] = Decoded(u, d, x)
          BY <1>5, <3>2
        <4>2. EscapeFits(u, x)
          BY <3>2 DEF EscapeFits, N
        <4>3. ~(q < 0) /\ ~(r < 0) /\ 16 * q + r # 0
          BY <3>4
        <4>4. Decoded(u, d, x) = Prepend(16 * q + r, d[x + 3])
          BY <3>2, <3>3, <3>5, <4>2, <4>3, Zenon DEF Decoded, N
        <4> QED
          BY <3>4, <4>1, <4>4
      <3>7. d[x] = Rest(i)
        BY <1>9, <2>3, <3>2, <3>6
      <3> QED
        BY <3>7 DEF x
    <2> QED
      BY <2>4, <2>5
  <1> HIDE DEF Good
  <1> DEFINE T == {k \in Nat : k <= n /\ ~Good((n + 1) - k)}
  <1>11. T = {}
    <2> SUFFICES ASSUME T # {} PROVE FALSE
      OBVIOUS
    <2>1. PICK k \in T : \A j \in Nat : j < k => j \notin T
      BY LeastFailure, Zenon
    <2>2. k \in Nat /\ k <= n /\ ~Good((n + 1) - k) /\ (n + 1) - 0 = n + 1
      BY <1>1
    <2>3. k # 0
      BY <1>8, <2>2
    <2>4. /\ (n + 1) - k \in 1..n /\ k - 1 \in Nat /\ k - 1 < k /\ k - 1 <= n
          /\ (n + 1) - (k - 1) = ((n + 1) - k) + 1
      BY <1>1, <2>2, <2>3
    <2>5. Good(((n + 1) - k) + 1)
      BY <2>1, <2>4
    <2> QED
      BY <1>10, <2>2, <2>4, <2>5
  <1>12. Good(1)
    <2>1. n \in Nat /\ n <= n /\ (n + 1) - n = 1
      BY <1>1
    <2> QED
      BY <1>11, <2>1, Zenon
  <1>13. d[1] = Rest(1)
    <2>1. (N - L(1)) + 1 = 1
      BY <1>3 DEF L, N, u
    <2> QED
      BY <1>12, <2>1 DEF Good
  <1>14. SubSeq(t, 1, n) = t
    BY <1>1 DEF n
  <1> QED
    BY <1>2, <1>5, <1>13, <1>14, Zenon DEF Rest, u, n

\* Escaping makes a text no shorter and adds no question mark; when nothing is
\* escaped, nothing changes.
LEMMA EscapedText ==
  ASSUME NEW t \in Seq(0..255), NEW S
  PROVE  /\ Len(Escaped(t, S)) \in Nat /\ Len(Escaped(t, S)) >= Len(t)
         /\ ~Contains(t, Question) => ~Contains(Escaped(t, S), Question)
         /\ S = {} => Escaped(t, S) = t
  <1> DEFINE n == Len(t)
             P(i) == Piece(t, S, i)
  <1>1. n \in Nat /\ \A i \in 1..n : t[i] \in 0..255
    BY LenProperties, ElementOfSeq
  <1>2. PICK h : EscapeTable(h, t, S) /\ Escaped(t, S) = h[1]
    BY EscapeRuns, Zenon
  <1>3. /\ h[n + 1] = <<>> /\ \A i \in 1..n : h[i] = P(i) \o h[i + 1]
        /\ \A i \in 1..(n + 1) : h[i] \in Seq(Int) /\ Len(h[i]) \in Nat
    BY <1>2, LenProperties, Zenon DEF EscapeTable, Tables
  <1>4. ASSUME NEW i \in 1..n
        PROVE  /\ P(i) \in Seq(Int) /\ Len(P(i)) \in Nat /\ Len(P(i)) >= 1
               /\ t[i] # Question => \A j \in 1..Len(P(i)) : P(i)[j] # Question
               /\ S = {} => P(i) = <<t[i]>>
    <2>1. P(i) \in Seq(Int) /\ Len(P(i)) = IF i \in S THEN 3 ELSE 1
      BY PieceFacts
    <2>2. t[i] # Question => \A j \in 1..Len(P(i)) : P(i)[j] # Question
      BY PieceFacts
    <2>3. S = {} => P(i) = <<t[i]>>
      BY DEF Piece
    <2> HIDE DEF P
    <2>4. Len(P(i)) \in Nat /\ Len(P(i)) >= 1
      BY <2>1
    <2> QED
      BY <2>1, <2>2, <2>3, <2>4
  <1>5. \A i \in 1..n : <<t[i]>> \o SubSeq(t, i + 1, n) = SubSeq(t, i, n)
    BY FirstOff
  <1>6. SubSeq(t, n + 1, n) = <<>> /\ SubSeq(t, 1, n) = t
    BY <1>1
  <1>7. ~Contains(t, Question) => \A i \in 1..n : t[i] # Question
    BY DEF Contains
  <1> HIDE DEF n, P
  <1> DEFINE Good(i) == /\ Len(h[i]) >= (n + 1) - i
                        /\ ~Contains(t, Question) => \A j \in 1..Len(h[i]) : h[i][j] # Question
                        /\ S = {} => h[i] = SubSeq(t, i, n)
             T == {k \in Nat : k <= n /\ ~Good((n + 1) - k)}
  <1>8. Good(n + 1)
    <2>1. Len(h[n + 1]) = 0 /\ (n + 1) - (n + 1) = 0
      BY <1>1, <1>3
    <2>2. Len(h[n + 1]) >= (n + 1) - (n + 1)
      BY <2>1
    <2>3. 1..Len(h[n + 1]) = {}
      BY <2>1
    <2>4. h[n + 1] = SubSeq(t, n + 1, n)
      BY <1>3, <1>6, Zenon
    <2> QED
      BY <2>2, <2>3, <2>4, Zenon
  <1>9. ASSUME NEW i \in 1..n, Good(i + 1)
        PROVE  Good(i)
    <2> DEFINE p == P(i)
               w == h[i + 1]
    <2>1. i + 1 \in 1..(n + 1)
      BY <1>1
    <2>2. /\ p \in Seq(Int) /\ Len(p) \in Nat /\ Len(p) >= 1
          /\ w \in Seq(Int) /\ Len(w) \in Nat /\ h[i] = p \o w
      BY <1>3, <1>4, <2>1, Zenon
    <2>3. /\ Len(w) >= (n + 1) - (i + 1)
          /\ ~Contains(t, Question) => \A j \in 1..Len(w) : w[j] # Question
          /\ S = {} => w = SubSeq(t, i + 1, n)
      BY <1>9
    <2>4. S = {} => h[i] = SubSeq(t, i, n)
      BY <1>3, <1>4, <1>5, <2>3, Zenon
    <2>5. ~Contains(t, Question) => \A j \in 1..Len(p) : p[j] # Question
      BY <1>4, <1>7
    <2> HIDE DEF p, w, Good
    <2>6. /\ Len(p \o w) = Len(p) + Len(w)
          /\ \A x \in 1..(Len(p) + Len(w)) :
               (p \o w)[x] = IF x <= Len(p) THEN p[x] ELSE w[x - Len(p)]
      BY <2>2, ConcatProperties
    <2>7. Len(h[i]) = Len(p) + Len(w) /\ Len(h[i]) >= (n + 1) - i
      BY <1>1, <2>2, <2>3, <2>6
    <2>8. ASSUME ~Contains(t, Question), NEW j \in 1..Len(h[i])
          PROVE  h[i][j] # Question
      <3>1. \/ j <= Len(p) /\ j \in 1..Len(p)
            \/ ~(j <= Len(p)) /\ j - Len(p) \in 1..Len(w)
        BY <2>2, <2>7
      <3>2. h[i][j] = IF j <= Len(p) THEN p[j] ELSE w[j - Len(p)]
        BY <2>2, <2>6, <2>7
      <3> QED
        BY <2>3, <2>5, <2>8, <3>1, <3>2
    <2> QED
      BY <2>4, <2>7, <2>8, Zenon DEF Good
  <1> HIDE DEF Good
  <1>10. T = {}
    <2> SUFFICES ASSUME T # {} PROVE FALSE
      OBVIOUS
    <2>1. PICK k \in T : \A j \in Nat : j < k => j \notin T
      BY LeastFailure, Zenon
    <2>2. k \in Nat /\ k <= n /\ ~Good((n + 1) - k) /\ (n + 1) - 0 = n + 1
      BY <1>1
    <2>3. k # 0
      BY <1>8, <2>2
    <2>4. /\ (n + 1) - k \in 1..n /\ k - 1 \in Nat /\ k - 1 < k /\ k - 1 <= n
          /\ (n + 1) - (k - 1) = ((n + 1) - k) + 1
      BY <1>1, <2>2, <2>3
    <2>5. Good(((n + 1) - k) + 1)
      BY <2>1, <2>4
    <2> QED
      BY <1>9, <2>2, <2>4, <2>5
  <1>11. Good(1)
    <2>1. n \in Nat /\ n <= n /\ (n + 1) - n = 1
      BY <1>1
    <2> QED
      BY <1>10, <2>1, Zenon
  <1>12. Len(h[1]) \in Nat /\ (n + 1) - 1 = n
    BY <1>1, <1>3
  <1> QED
    BY <1>2, <1>6, <1>11, <1>12 DEF Good, Contains, n

\* Where a target leads does not depend on which of its characters are escaped.
LEMMA EscapesResolve ==
  ASSUME NEW t \in Seq(0..255), ~Contains(t, Percent), ~Contains(t, Question),
         NEW S \in SUBSET {i \in 2..Len(t) : t[i] # 0}
  PROVE  Resolve(Escaped(t, S)) = Resolve(t)
  <1> DEFINE u == Escaped(t, S)
  <1>1. Len(t) \in Nat
    BY LenProperties
  <1>2. CASE S = {}
    BY <1>2, EscapedText
  <1>3. CASE S # {}
    <2>1. Len(t) >= 2
      <3>1. PICK i \in S : TRUE
        BY <1>3, Zenon
      <3>2. i \in 2..Len(t)
        BY <3>1
      <3> QED
        BY <1>1, <3>2
    <2>2. Len(u) \in Nat /\ Len(u) >= 2 /\ ~Contains(u, Question)
      BY <1>1, <2>1, EscapedText
    <2>3. extract_path(t) = t /\ extract_path(u) = u
      BY <2>2 DEF extract_path
    <2>4. t # <<Slash>> /\ u # <<Slash>>
      <3>1. Len(<<Slash>>) = 1
        OBVIOUS
      <3>2. Len(t) # 1 /\ Len(u) # 1
        <4> DEFINE a == Len(t)
                   b == Len(u)
        <4>1. a \in Nat /\ a >= 2 /\ b \in Nat /\ b >= 2
          BY <1>1, <2>1, <2>2
        <4> HIDE DEF a, b
        <4>2. a # 1 /\ b # 1
          BY <4>1
        <4> QED
          BY <4>2 DEF a, b
      <3> QED
        BY <3>1, <3>2, Zenon
    <2>5. percent_decode(u) = [ok |-> TRUE, text |-> t]
      BY RoundTrip
    <2>6. percent_decode(t) = [ok |-> TRUE, text |-> t]
      <3>1. Escaped(t, {}) = t
        BY EscapedText
      <3>2. percent_decode(Escaped(t, {})) = [ok |-> TRUE, text |-> t]
        BY RoundTrip
      <3> QED
        BY <3>1, <3>2
    <2> HIDE DEF u
    <2>7. Resolve(u) = Resolve(t)
      <3> DEFINE From(d) ==
                   LET final == Canonical(d.text)
                   IN IF ~d.ok \/ d.text = <<>> \/ d.text[1] # Slash
                      THEN [place |-> "malformed", names_dir |-> FALSE]
                      ELSE IF ~is_inside_root(final) THEN [place |-> "outside", names_dir |-> FALSE]
                      ELSE [place |-> IF final = Root THEN "root" ELSE "below",
                            names_dir |-> Last(Components(d.text))
                                            \in {<<>>, <<DotCode>>, <<DotCode, DotCode>>}]
                 Path(p) == IF p = <<Slash>> THEN <<Slash, IndexHtml>> ELSE p
      <3>1. Resolve(u) = From(percent_decode(Path(extract_path(u))))
        BY Zenon DEF Resolve
      <3>2. Resolve(t) = From(percent_decode(Path(extract_path(t))))
        BY Zenon DEF Resolve
      <3> HIDE DEF From
      <3>3. Path(extract_path(u)) = u /\ Path(extract_path(t)) = t
        BY <2>3, <2>4, Zenon
      <3> HIDE DEF Path
      <3> QED
        BY <2>5, <2>6, <3>1, <3>2, <3>3, Zenon
    <2> QED
      BY <2>7 DEF u
  <1> QED
    BY <1>2, <1>3

\* For every target, percent-encoding characters of its path does not change
\* what percent_decode and the resolution make of it.
THEOREM EscapingCorrect == SafeSpec => []EscapingInvisible
  <1> DEFINE Inv == pc = "route" => target \in Targets
  <1>1. Init => Inv
    BY DEF Init
  <1>2. Inv /\ [Next]_vars => Inv'
    <2> SUFFICES ASSUME Inv, [Next]_vars PROVE Inv'
      OBVIOUS
    <2>1. CASE Handle
      <3>1. pc' # "route"
        BY <2>1, Zenon
        DEF Handle, Route, Exists, IsRegularFile, FileSize, Open, ReadFile, CallFails,
                    Finish, Goto
      <3> QED
        BY <3>1
    <2>2. CASE ~Handle
      <3>1. UNCHANGED <<pc, target>>
        BY <2>2 DEF Next, Replace, Rewrite, Change, Returned, vars, requestVars
      <3> QED
        BY <3>1
    <2> QED
      BY <2>1, <2>2
  <1>3. Inv => EscapingInvisible
    <2> SUFFICES ASSUME Inv, pc = "route", ~Contains(target, Percent),
                        ~Contains(target, Question),
                        NEW S \in SUBSET {i \in 2..Len(target) : target[i] # 0}
                 PROVE  Resolve(Escaped(target, S)) = Resolve(target)
      BY DEF EscapingInvisible
    <2>1. target \in Seq(0..255)
      BY StaticFileAssumption
    <2> QED
      BY <2>1, EscapesResolve
  <1> QED
    BY <1>1, <1>2, <1>3, PTL DEF SafeSpec
==============================================================================
