--------------------------- MODULE ConnectionProofs ---------------------------
(***************************************************************************)
(* Proofs about Connection for every queue limit and any number of         *)
(* requests and messages.  What is done to a connection are a session's    *)
(* steps, so that all that HttpSessionProofs shows holds of it; a stream   *)
(* that is handed over never has two readers; what the WebSocket session   *)
(* writes back are the client's messages, all of them when it closes; a    *)
(* HEAD request is answered like a GET; and all_segments splits every path *)
(* into its names.                                                         *)
(***************************************************************************)
EXTENDS Connection, HttpSessionProofs, SequenceTheorems

-----------------------------------------------------------------------------
(* The session's part.                                                     *)

\* The response to each method, for each outcome of opening the file.
LEMMA AnswersOfFiles ==
  \A request \in Request, file \in File :
    LET response == handle_request(request, file) IN
    /\ response.keepAlive = KeepAlive(request)
    /\ Framed(request, response)
    /\ response.status =
         IF Illegal(request) THEN 400
         ELSE IF file = "absent" THEN 404
         ELSE IF file = "unreadable" THEN 500 ELSE 200
    /\ response.length = IF response.status = 200 THEN "file" ELSE "message"
<1> SUFFICES ASSUME NEW request \in Request, NEW file \in File
             PROVE  LET response == handle_request(request, file) IN
                    /\ response.keepAlive = KeepAlive(request)
                    /\ Framed(request, response)
                    /\ response.status =
                         IF Illegal(request) THEN 400
                         ELSE IF file = "absent" THEN 404
                         ELSE IF file = "unreadable" THEN 500 ELSE 200
                    /\ response.length =
                         IF response.status = 200 THEN "file" ELSE "message"
  OBVIOUS
<1> DEFINE response == handle_request(request, file)
<1>1. file \in {"present", "absent", "unreadable"}
  BY DEF File
<1>2. CASE Illegal(request)
  <2>1. response = bad_request(request)
    BY <1>2 DEF handle_request
  <2> QED
    BY <1>2, <2>1 DEF bad_request, Prepared, Response, Framed
<1>3. CASE ~Illegal(request) /\ file = "absent"
  <2>1. response = not_found(request)
    BY <1>3 DEF handle_request
  <2> QED
    BY <1>3, <2>1 DEF not_found, Prepared, Response, Framed
<1>4. CASE ~Illegal(request) /\ file = "unreadable"
  <2>1. response = server_error(request)
    BY <1>4 DEF handle_request
  <2> QED
    BY <1>4, <2>1 DEF server_error, Prepared, Response, Framed
<1>5. CASE ~Illegal(request) /\ file = "present" /\ request.method = "HEAD"
  <2>1. response = HeadOfFile(request)
    BY <1>5 DEF handle_request
  <2> QED
    BY <1>5, <2>1 DEF HeadOfFile, Response, Framed
<1>6. CASE ~Illegal(request) /\ file = "present" /\ request.method # "HEAD"
  <2>1. response = GetOfFile(request)
    BY <1>6 DEF handle_request
  <2> QED
    BY <1>6, <2>1 DEF GetOfFile, Response, Framed
<1> QED
  BY <1>1, <1>2, <1>3, <1>4, <1>5, <1>6

\* What a request can ask for are the kinds HttpSession knows.
LEMMA OutcomesAreKinds ==
  \A outcome \in Outcomes : outcome[1] \in Kind /\ outcome[2] \in BOOLEAN
<1>1. ASSUME NEW request \in Request, NEW file \in File
      PROVE  Route(request) \in Kind /\ GoesOn(request, file) \in BOOLEAN
  <2>1. request.upgrade \in BOOLEAN
        /\ request.form \in {"origin", "absolute", "other"}
    BY DEF Request
  <2>2. Route(request) \in Kind
    BY <2>1 DEF Route, Kind
  <2>3. handle_request(request, file).keepAlive = KeepAlive(request)
    BY AnswersOfFiles
  <2> QED
    BY <2>2, <2>3 DEF GoesOn, KeepAlive
<1> QED
  BY <1>1 DEF Outcomes

LEMMA SessionSteps == [ConnectionNext]_connection => [Next]_vars
<1> SUFFICES ASSUME [ConnectionNext]_connection PROVE [Next]_vars
  OBVIOUS
<1>1. CASE Upgrade
  <2>1. PICK outcome \in Outcomes : OnRequest("upgrade", outcome[2])
    BY <1>1 DEF Upgrade
  <2>2. "upgrade" \in Kind /\ outcome[2] \in BOOLEAN
    BY OutcomesAreKinds DEF Kind
  <2> QED
    BY <2>1, <2>2 DEF Next, OnReadStep
<1>2. CASE SessionStep
  <2>1. CASE \E outcome \in Outcomes : OnRequest(outcome[1], outcome[2])
    BY <2>1, OutcomesAreKinds DEF Next, OnReadStep
  <2> QED
    BY <1>2, <2>1 DEF SessionStep, Next, OnReadStep
<1>3. CASE WebSocketStep \/ Quiet \/ UNCHANGED connection
  BY <1>3 DEF WebSocketStep, Quiet, Terminated, connection
<1> QED
  BY <1>1, <1>2, <1>3 DEF ConnectionNext

\* What HttpSession promises, a connection that becomes a WebSocket session
\* promises too.
THEOREM ConnectionImplementsSession == ConnectionSpec => Spec
<1>1. ConnectionInit => Init
  BY DEF ConnectionInit
<1> QED
  BY <1>1, SessionSteps, PTL DEF ConnectionSpec, Spec

-----------------------------------------------------------------------------
(* The stream's owners.                                                    *)

\* From the hand-over on the session reads nothing.
Owners ==
  ws # "none" =>
    stage \in {"released", "undefined"} /\ headerReads = 0 /\ bodies = <<>>

LEMMA HandedOver ==
  ASSUME Inv, Inv', [Next]_vars, stage \in {"released", "undefined"},
         headerReads = 0, bodies = <<>>
  PROVE  stage' \in {"released", "undefined"} /\ headerReads' = 0 /\ bodies' = <<>>
<1>1. stage' = stage \/ stage' = "undefined"
  BY DEF Next, OnRun, OnDetect, OnHandshake, StartFails, OnReadStep, OnRequest,
     OnReadEof, OnReadError, OnBodyStep, OnBody, OnBodyError, OnWriteStep,
     OnWriteClose, OnWriteKeep, OnWriteError, OnMovedEngine, OnShutdown,
     ConnectionLost, Destroy, Terminated, vars
<1>2. CASE stage' = "released"
  BY <1>1, <1>2 DEF Inv, Stages
<1>3. CASE stage' = "undefined"
  BY <1>3
  DEF Next, OnRun, OnDetect, OnHandshake, StartFails, OnReadStep, OnRequest,
      OnReadEof, OnReadError, OnBodyStep, OnBody, OnBodyError, OnWriteStep,
      OnWriteClose, OnWriteKeep, OnWriteError, WriteSent, Drives, OnMovedEngine,
      OnShutdown, ConnectionLost, Destroy, Terminated, vars
<1> QED
  BY <1>1, <1>2, <1>3

LEMMA OwnersPreserved ==
  Inv /\ Inv' /\ Owners /\ [ConnectionNext]_connection => Owners'
<1> SUFFICES ASSUME Inv, Inv', Owners, [ConnectionNext]_connection, ws' # "none"
             PROVE  Owners'
  BY DEF Owners
<1>1. CASE ws # "none"
  BY <1>1, SessionSteps, HandedOver DEF Owners
<1>2. CASE ws = "none"
  <2>1. Upgrade
    BY <1>2 DEF ConnectionNext, SessionStep, WebSocketStep, Quiet, connection,
       websocket, WsStep, WsAccept, WsRead, WsWrite, on_accept,
       on_accept_error, on_read, on_read_error, on_write, on_write_error,
       Speak, Close, Lost
  <2>2. stage' = "released"
    BY <2>1
    DEF Upgrade, OnRequest, HandleFile, HandleBadTarget, HandleUpload, HandOver
  <2> QED
    BY <2>2 DEF Owners, Inv, Stages
<1> QED
  BY <1>1, <1>2

-----------------------------------------------------------------------------
(* The echoes.                                                             *)

\* buffer_ holds the message being written, and nothing at any other time.
Echoing ==
  /\ heard <= Len(spoken)
  /\ ws \in {"none", "accepting", "reading"} =>
       buffer = <<>> /\ heard = Len(echoed)
  /\ ws = "writing" =>
       /\ heard = Len(echoed) + 1
       /\ buffer = <<heard>>
       /\ text = spoken[heard]
  /\ Len(echoed) <= heard
  /\ EchoesAreFaithful

WsInv == WsTypeOK /\ Echoing

LEMMA WsInvInit == WsInit => WsInv
BY DEF WsInit, WsInv, WsTypeOK, Echoing, EchoesAreFaithful, Echo

LEMMA WsInvPreserved ==
  WsInv /\ (do_accept \/ WsStep \/ UNCHANGED websocket) => WsInv'
<1> SUFFICES ASSUME WsInv, do_accept \/ WsStep \/ UNCHANGED websocket
             PROVE  WsInv'
  OBVIOUS
<1>1. /\ heard \in Nat /\ Len(spoken) \in Nat /\ Len(echoed) \in Nat
      /\ spoken \in Seq(BOOLEAN) /\ echoed \in Seq(Echo) /\ buffer \in Seq(Nat)
      /\ text \in BOOLEAN /\ hangup \in {"no", "close", "lost"}
      /\ heard <= Len(spoken) /\ Len(echoed) <= heard
  BY DEF WsInv, WsTypeOK, Echoing
<1>2. CASE do_accept \/ WsAccept \/ on_read_error \/ on_write_error \/ Close
           \/ Lost \/ UNCHANGED websocket
  <2>1. /\ UNCHANGED <<buffer, text, heard, echoed, spoken>>
        /\ ws' \in {"accepting", "reading", "over", ws}
        /\ hangup' \in {"close", "lost", hangup}
        /\ ws' = "accepting" => ws \in {"none", "accepting"}
        /\ ws' = "reading" => ws \in {"accepting", "reading"}
    BY <1>2 DEF do_accept, WsAccept, on_accept, on_accept_error, on_read_error,
       on_write_error, Close, Lost, websocket, client
  <2> QED
    BY <1>1, <2>1 DEF WsInv, WsTypeOK, Echoing, EchoesAreFaithful
<1>3. CASE Speak
  <2>1. PICK mode \in BOOLEAN : spoken' = Append(spoken, mode)
    BY <1>3 DEF Speak
  <2>2. UNCHANGED <<ws, buffer, text, heard, hangup, echoed>>
    BY <1>3 DEF Speak
  <2>3. /\ spoken' \in Seq(BOOLEAN) /\ Len(spoken') = Len(spoken) + 1
        /\ \A i \in 1..Len(spoken) : spoken'[i] = spoken[i]
    BY <1>1, <2>1, AppendTyped, AppendAt
  <2>4. WsTypeOK'
    BY <2>2, <2>3 DEF WsInv, WsTypeOK
  <2>5. ws = "writing" => text = spoken'[heard]
    BY <1>1, <2>3 DEF WsInv, Echoing
  <2>6. EchoesAreFaithful'
    BY <1>1, <2>2, <2>3 DEF WsInv, Echoing, EchoesAreFaithful
  <2> QED
    BY <1>1, <2>2, <2>3, <2>4, <2>5, <2>6 DEF WsInv, Echoing
<1>4. CASE on_read
  <2>1. /\ ws = "reading" /\ ws' = "writing" /\ heard < Len(spoken)
        /\ heard' = heard + 1 /\ buffer' = Append(buffer, heard')
        /\ text' = spoken[heard']
        /\ UNCHANGED <<echoed, spoken, hangup>>
    BY <1>4 DEF on_read, client
  <2>2. buffer = <<>> /\ heard = Len(echoed)
    BY <2>1 DEF WsInv, Echoing
  <2>3. heard' \in 1..Len(spoken) /\ heard' \in Nat
    BY <1>1, <2>1
  <2>4. buffer' = <<heard'>> /\ buffer' \in Seq(Nat)
    BY <2>1, <2>2, <2>3
  <2>5. text' \in BOOLEAN
    BY <1>1, <2>1, <2>3
  <2>6. WsTypeOK'
    BY <1>1, <2>1, <2>3, <2>4, <2>5 DEF WsTypeOK
  <2> QED
    BY <1>1, <2>1, <2>2, <2>3, <2>4, <2>6
    DEF WsInv, Echoing, EchoesAreFaithful
<1>5. CASE on_write
  <2> DEFINE e == [of |-> buffer, text |-> text]
  <2>1. /\ ws = "writing" /\ ws' = "reading" /\ buffer' = <<>>
        /\ echoed' = Append(echoed, e)
        /\ UNCHANGED <<text, heard, spoken, hangup>>
    BY <1>5 DEF on_write, client
  <2>2. heard = Len(echoed) + 1 /\ buffer = <<heard>> /\ text = spoken[heard]
    BY <2>1 DEF WsInv, Echoing
  <2>3. e \in Echo
    BY <1>1 DEF Echo
  <2>4. /\ echoed' \in Seq(Echo) /\ Len(echoed') = heard
        /\ \A i \in 1..Len(echoed) : echoed'[i] = echoed[i]
        /\ echoed'[heard] = [of |-> <<heard>>, text |-> spoken[heard]]
    <3> HIDE DEF e
    <3>1. /\ echoed' \in Seq(Echo) /\ Len(echoed') = Len(echoed) + 1
          /\ \A i \in 1..Len(echoed) : echoed'[i] = echoed[i]
          /\ echoed'[Len(echoed) + 1] = e
      BY <1>1, <2>1, <2>3, AppendTyped, AppendAt
    <3>2. e = [of |-> <<heard>>, text |-> spoken[heard]]
      BY <2>2 DEF e
    <3> QED
      BY <2>2, <3>1, <3>2
  <2>5. WsTypeOK'
    BY <1>1, <2>1, <2>4 DEF WsInv, WsTypeOK
  <2>6. EchoesAreFaithful'
    <3>1. \A i \in 1..Len(echoed') : i \in 1..Len(echoed) \/ i = heard
      BY <1>1, <2>2, <2>4
    <3>2. \A i \in 1..Len(echoed) :
            echoed'[i] = [of |-> <<i>>, text |-> spoken[i]]
      BY <2>4 DEF WsInv, Echoing, EchoesAreFaithful
    <3> QED
      BY <2>1, <2>4, <3>1, <3>2 DEF EchoesAreFaithful
  <2> QED
    BY <1>1, <2>1, <2>4, <2>5, <2>6 DEF WsInv, Echoing
<1> QED
  BY <1>2, <1>3, <1>4, <1>5 DEF WsStep, WsRead, WsWrite

-----------------------------------------------------------------------------
(* The theorems.                                                           *)

LEMMA ConnectionInvariance == ConnectionSpec => [](Inv /\ Owners /\ WsInv)
<1>1. ConnectionInit => Inv /\ Owners /\ WsInv
  BY InvInit, WsInvInit DEF ConnectionInit, Owners, WsInit
<1>2. Inv /\ [Next]_vars => Inv'
  BY QuietStep, ReadEndsStep, RequestStep, BodyStep, KeepStep, WriteEndsStep
  DEF Next, OnReadStep, OnBodyStep, OnWriteStep
<1>3. WsInv /\ [ConnectionNext]_connection => WsInv'
  BY WsInvPreserved
  DEF ConnectionNext, Upgrade, SessionStep, WebSocketStep, Quiet, connection
<1> QED
  BY <1>1, <1>2, <1>3, SessionSteps, OwnersPreserved, PTL DEF ConnectionSpec

\* Every variable of a connection keeps its type; in particular no operation
\* completes more often than it was started.
THEOREM ConnectionTypeCorrect == ConnectionSpec => []ConnectionTypeOK
<1>1. Inv /\ WsInv => ConnectionTypeOK
  BY DEF Inv, WsInv, ConnectionTypeOK
<1> QED
  BY <1>1, ConnectionInvariance, PTL

\* No two operations ever read the stream, whoever has started them.
THEOREM StreamHasOneReader == ConnectionSpec => []OneReaderOfStream
<1>1. Inv /\ Owners => OneReaderOfStream
  <2> SUFFICES ASSUME Inv, Owners PROVE OneReaderOfStream
    OBVIOUS
  <2>1. /\ headerReads \in Nat /\ Len(bodies) \in Nat
        /\ headerReads + Len(bodies) <= 1
    BY Typed DEF Inv, ReadLoop
  <2>2. CASE ws = "reading"
    <3>1. headerReads = 0 /\ Len(bodies) = 0
      BY <2>2 DEF Owners
    <3> QED
      BY <2>2, <3>1 DEF OneReaderOfStream
  <2>3. CASE ws # "reading"
    BY <2>1, <2>3 DEF OneReaderOfStream
  <2> QED
    BY <2>2, <2>3
<1> QED
  BY <1>1, ConnectionInvariance, PTL

\* The WebSocket session of a connection that uploads nothing has the stream to
\* itself: the session it came from has no read, write or shutdown outstanding
\* on it, now or later.
THEOREM StreamIsTheWebSockets ==
  ConnectionSpec /\ []NoUpload =>
    [](ws # "none" =>
         stage = "released" /\ headerReads = 0 /\ writes = <<>> /\ shutdowns = 0)
<1>1. Inv /\ Owners /\ Alone =>
        (ws # "none" =>
           stage = "released" /\ headerReads = 0 /\ writes = <<>>
           /\ shutdowns = 0)
  <2> SUFFICES ASSUME Inv, Owners, Alone, ws # "none"
               PROVE  stage = "released" /\ headerReads = 0 /\ writes = <<>>
                      /\ shutdowns = 0
    OBVIOUS
  <2>1. stage = "released" /\ headerReads = 0
    BY DEF Owners, Alone
  <2>2. writes = <<>> /\ ~(shutdowns > 0)
    BY <2>1 DEF Alone, OwnershipTransferred
  <2>3. shutdowns \in Nat
    BY DEF Inv, TypeOK
  <2> QED
    BY <2>1, <2>2, <2>3
<1> QED
  BY <1>1, ConnectionInvariance, ConnectionImplementsSession,
     AloneWithoutUploads, PTL

\* The echoes are the client's messages, each once and in its own mode.
THEOREM EchoesFaithful == ConnectionSpec => []EchoesAreFaithful
<1>1. WsInv => EchoesAreFaithful
  BY DEF WsInv, Echoing
<1> QED
  BY <1>1, ConnectionInvariance, PTL

\* A client speaks to a session that has accepted it, and a session that was
\* not lost ends when it has read all the client said.
Parting ==
  /\ ws \in {"none", "accepting"} => spoken = <<>> /\ hangup # "close"
  /\ ws = "over" /\ hangup # "lost" =>
       heard = Len(spoken) /\ Len(echoed) = Len(spoken)

LEMMA PartingKept ==
  WsInv /\ Parting /\ (do_accept \/ WsStep \/ UNCHANGED websocket) => Parting'
<1> SUFFICES ASSUME WsInv, Parting, do_accept \/ WsStep \/ UNCHANGED websocket
             PROVE  Parting'
  OBVIOUS
<1>1. CASE do_accept \/ on_accept \/ UNCHANGED websocket
  BY <1>1 DEF Parting, do_accept, on_accept, websocket, client
<1>2. CASE on_accept_error
  <2>1. /\ ws = "accepting" /\ ws' = "over"
        /\ UNCHANGED <<heard, echoed, spoken, hangup>>
    BY <1>2 DEF on_accept_error, client
  <2>2. heard = Len(echoed) /\ spoken = <<>> /\ heard <= Len(spoken)
        /\ heard \in Nat
    BY <2>1 DEF Parting, WsInv, WsTypeOK, Echoing
  <2>3. Len(spoken) = 0
    BY <2>2
  <2>4. heard = Len(spoken) /\ Len(echoed) = Len(spoken)
    BY <2>2, <2>3
  <2> QED
    BY <2>1, <2>4 DEF Parting
<1>3. CASE on_read_error
  <2>1. /\ ws = "reading" /\ ws' = "over"
        /\ hangup = "lost" \/ heard = Len(spoken)
        /\ UNCHANGED <<heard, echoed, spoken, hangup>>
    BY <1>3 DEF on_read_error, client
  <2>2. heard = Len(echoed)
    BY <2>1 DEF WsInv, Echoing
  <2> QED
    BY <2>1, <2>2 DEF Parting
<1>4. CASE on_write_error
  BY <1>4 DEF Parting, on_write_error, client
<1>5. CASE on_read \/ on_write \/ Speak \/ Close
  <2>1. ws' \in {"reading", "writing"}
    BY <1>5 DEF on_read, on_write, Speak, Close
  <2> QED
    BY <2>1 DEF Parting
<1>6. CASE Lost
  BY <1>6 DEF Parting, Lost
<1> QED
  BY <1>1, <1>2, <1>3, <1>4, <1>5, <1>6 DEF WsStep, WsAccept, WsRead, WsWrite

\* A WebSocket session that was not lost is over only when it has written back
\* everything its client has said before it closed.
THEOREM NothingUnsaidAtTheClose ==
  ConnectionSpec => [](ws = "over" /\ hangup # "lost"
                         => Len(echoed) = Len(spoken))
<1>1. ConnectionInit => Parting
  BY DEF ConnectionInit, WsInit, Parting
<1>2. WsInv /\ Parting /\ [ConnectionNext]_connection => Parting'
  BY PartingKept
  DEF ConnectionNext, Upgrade, SessionStep, WebSocketStep, Quiet, connection
<1>3. Parting => (ws = "over" /\ hangup # "lost" => Len(echoed) = Len(spoken))
  BY DEF Parting
<1> QED
  BY <1>1, <1>2, <1>3, ConnectionInvariance, PTL DEF ConnectionSpec

-----------------------------------------------------------------------------
(* Requests.                                                               *)

\* Of the same target and the same file HEAD is answered with GET's status,
\* length and close, and each answer has the body its head announces, for every
\* set of paths: the two branches that find the file build the same head.
THEOREM HeadAnswersLikeGet == ConnectionSpec => []HeadMatchesGet
<1>1. ASSUME NEW request \in Request, request.method = "GET",
             Route(request) = "file", NEW file \in File
      PROVE  LET other == [request EXCEPT !.method = "HEAD"]
                 get   == handle_request(request, file)
                 head  == handle_request(other, file)
             IN /\ head.status = get.status /\ head.length = get.length
                /\ head.keepAlive = get.keepAlive
                /\ Framed(request, get) /\ Framed(other, head)
  <2> DEFINE other == [request EXCEPT !.method = "HEAD"]
  <2>1. ~request.upgrade
    BY <1>1 DEF Route, Request
  <2>2. other \in Request
    BY <2>1 DEF Request, Method
  <2>3. /\ other.method = "HEAD" /\ other.path = request.path
        /\ other.connection = request.connection
    BY DEF Request
  <2> HIDE DEF other
  <2>4. Illegal(other) = Illegal(request) /\ KeepAlive(other) = KeepAlive(request)
    BY <1>1, <2>3 DEF Illegal, KeepAlive
  <2> QED
    BY <2>2, <2>4, AnswersOfFiles DEF other
<1>2. HeadMatchesGet
  BY <1>1 DEF HeadMatchesGet, Unlike
<1> QED
  BY <1>2, PTL

-----------------------------------------------------------------------------
(* Path segments.  All inductions take the first place where the claim     *)
(* would fail; those over all_segments run from the end of the path.       *)

\* The texts of paths.  The prover does not know that "/" is a string.
Char == STRING \cup {"/"}
Text == Seq(Char)

\* What joining texts does.
LEMMA TextFacts ==
  /\ <<>> \in Text /\ <<"/">> \in Text
  /\ \A a, b \in Text : a \o b \in Text
  /\ \A a, b, c \in Text : (a \o b) \o c = a \o (b \o c)
  /\ \A a \in Text : a \o <<>> = a /\ <<>> \o a = a
<1>1. "/" \in Char
  BY DEF Char
<1>2. <<>> \in Text /\ <<"/">> \in Text
  BY <1>1 DEF Text
<1>3. \A a, b \in Text : a \o b \in Text
  BY ConcatProperties DEF Text
<1>4. \A a, b, c \in Text : (a \o b) \o c = a \o (b \o c)
  BY ConcatAssociative DEF Text
<1>5. \A a \in Text : a \o <<>> = a /\ <<>> \o a = a
  BY ConcatEmptySeq DEF Text
<1> QED
  BY <1>2, <1>3, <1>4, <1>5

\* Concatenation of three texts, whichever two are put together first.
LEMMA TextAssociative ==
  ASSUME NEW a \in Text, NEW b \in Text, NEW c \in Text
  PROVE  (a \o b) \o c = a \o (b \o c)
BY TextFacts

\* There is a function that begins with the empty text and goes on with step.
LEMMA Iterated ==
  ASSUME NEW N \in Nat, NEW step \in [Text \X (1..N) -> Text]
  PROVE  \E f \in [0..N -> Text] :
           f[0] = <<>> /\ \A n \in 1..N : f[n] = step[<<f[n - 1], n>>]
<1> DEFINE base == <<>>
           S == Text
<1>0. base \in S
  BY DEF Text
<1> HIDE DEF base, S
<1> SUFFICES \E f \in [0..N -> S] :
           f[0] = base /\ \A n \in 1..N : f[n] = step[<<f[n - 1], n>>]
  BY DEF base, S
<1> step \in [S \X (1..N) -> S]
  BY DEF S
<1> DEFINE Good(f, k) ==
             f[0] = base /\ \A n \in 1..k : f[n] = step[<<f[n - 1], n>>]
           Bad == {k \in 0..N : ~ \E f \in [0..N -> S] : Good(f, k)}
<1>1. SUFFICES ASSUME Bad # {} PROVE FALSE
  <2>1. N \in 0..N
    OBVIOUS
  <2> QED
    BY <2>1
<1>2. PICK m \in Bad : \A k \in Bad : m <= k
  <2>1. Bad \subseteq Nat
    OBVIOUS
  <2> HIDE DEF Bad
  <2> QED
    BY <1>1, <2>1, LeastNatural
<1>3. CASE m = 0
  <2>1. Good([n \in 0..N |-> base], 0)
    BY <1>0
  <2> QED
    BY <2>1, <1>0, <1>2, <1>3
<1>4. CASE m # 0
  <2>1. m - 1 \in 0..N /\ m \in 1..N /\ ~ (m <= m - 1)
    BY <1>2, <1>4
  <2>2. PICK f \in [0..N -> S] : Good(f, m - 1)
    BY <1>2, <2>1
  <2> DEFINE g == [f EXCEPT ![m] = step[<<f[m - 1], m>>]]
  <2>3. f[m - 1] \in S
    BY <2>1, <2>2
  <2>4. g \in [0..N -> S]
    BY <2>1, <2>2, <2>3
  <2>5. \A n \in 0..m - 1 : g[n] = f[n]
    BY <2>1, <2>2
  <2>6. g[m] = step[<<f[m - 1], m>>]
    BY <2>1, <2>2
  <2> HIDE DEF g
  <2>7. Good(g, m)
    <3>1. g[0] = base
      BY <2>1, <2>2, <2>5
    <3>2. ASSUME NEW n \in 1..m
          PROVE  g[n] = step[<<g[n - 1], n>>]
      <4>1. g[n - 1] = f[n - 1]
        BY <2>1, <2>5
      <4>2. CASE n = m
        BY <2>6, <4>1, <4>2
      <4>3. CASE n # m
        BY <2>1, <2>2, <2>5, <4>1, <4>3
      <4> QED
        BY <4>2, <4>3
    <3> QED
      BY <3>1, <3>2
  <2> QED
    BY <1>2, <2>4, <2>7
<1> QED
  BY <1>3, <1>4


\* The recursion of CollapsedUpTo has a solution, so its equations hold.
LEMMA CollapsedSteps ==
  ASSUME NEW path \in Text
  PROVE  LET upto == CollapsedUpTo(path) IN
         /\ upto[0] = <<>>
         /\ \A n \in 1..Len(path) :
              upto[n] = IF path[n] = "/" /\ (n = Len(path) \/ path[n + 1] = "/")
                        THEN upto[n - 1] ELSE Append(upto[n - 1], path[n])
         /\ \A n \in 0..Len(path) : upto[n] \in Text
<1> DEFINE N == Len(path)
           Drop(n) == path[n] = "/" /\ (n = N \/ path[n + 1] = "/")
           Fits(f) == f = [n \in 0..N |->
                             IF n = 0 THEN <<>>
                             ELSE IF Drop(n) THEN f[n - 1]
                                  ELSE Append(f[n - 1], path[n])]
           step == [pair \in Text \X (1..N) |->
                      IF Drop(pair[2]) THEN pair[1] ELSE Append(pair[1], path[pair[2]])]
<1>1. N \in Nat /\ <<>> \in Text /\ \A n \in 1..N : path[n] \in Char
  BY DEF Text
<1>2. step \in [Text \X (1..N) -> Text]
  <2>1. ASSUME NEW word \in Text, NEW n \in 1..N
        PROVE  Append(word, path[n]) \in Text
    BY <1>1, AppendTyped DEF Text
  <2> QED
    BY <2>1
<1>3. \E g \in [0..N -> Text] :
        g[0] = <<>> /\ \A n \in 1..N : g[n] = step[<<g[n - 1], n>>]
  <2> HIDE DEF step, N
  <2> QED
    <3> QED
      BY <1>1, <1>2, Iterated
<1>4. PICK g \in [0..N -> Text] :
        g[0] = <<>> /\ \A n \in 1..N : g[n] = step[<<g[n - 1], n>>]
  BY <1>3, Zenon
<1>5. ASSUME NEW n \in 1..N
      PROVE  g[n] = IF Drop(n) THEN g[n - 1] ELSE Append(g[n - 1], path[n])
  <2>1. g[n - 1] \in Text /\ <<g[n - 1], n>> \in Text \X (1..N)
    BY <1>1, <1>4
  <2>2. g[n] = step[<<g[n - 1], n>>]
    BY <1>4, Zenon
  <2> QED
    BY <2>1, <2>2
<1>6. ASSUME NEW n \in 0..N
      PROVE  g[n] = IF n = 0 THEN <<>>
                    ELSE IF Drop(n) THEN g[n - 1] ELSE Append(g[n - 1], path[n])
  <2> HIDE DEF step, Drop
  <2>1. CASE n = 0
    BY <1>4, <2>1, Zenon
  <2>2. CASE n # 0
    <3>1. n \in 1..N
      BY <1>1, <2>2
    <3> QED
      BY <3>1, <2>2, <1>5, Zenon
  <2> QED
    BY <2>1, <2>2
<1>7. Fits(g)
  <2> HIDE DEF step, Drop
  <2> QED
    BY <1>4, <1>6
<1>8. CollapsedUpTo(path) = CHOOSE f : Fits(f)
  BY DEF CollapsedUpTo
<1>9. Fits(CollapsedUpTo(path))
  <2> HIDE DEF Fits
  <2> QED
    BY <1>7, <1>8
<1> DEFINE upto == CollapsedUpTo(path)
<1>10. /\ upto[0] = <<>>
       /\ \A n \in 1..N : upto[n] = IF Drop(n) THEN upto[n - 1] ELSE Append(upto[n - 1], path[n])
  <2> HIDE DEF Drop, upto
  <2>1. upto = [n \in 0..N |->
                             IF n = 0 THEN <<>>
                             ELSE IF Drop(n) THEN upto[n - 1]
                                  ELSE Append(upto[n - 1], path[n])]
    BY <1>9 DEF upto
  <2> HIDE DEF N
  <2>2. upto[0] = <<>>
    BY <1>1, <2>1
  <2>3. ASSUME NEW n \in 1..N PROVE upto[n] = IF Drop(n) THEN upto[n - 1] ELSE Append(upto[n - 1], path[n])
    <3>1. n \in 0..N /\ n # 0
      BY <1>1
    <3> QED
      BY <2>1, <3>1
  <2> QED
    BY <2>2, <2>3
<1>11. \A n \in 0..N : upto[n] \in Text
  <2> HIDE DEF upto, Drop, N
  <2> DEFINE Bad == {n \in 0..N : upto[n] \notin Text}
  <2>1. SUFFICES ASSUME Bad # {} PROVE FALSE
    OBVIOUS
  <2>2. Bad \subseteq Nat
    BY <1>1
  <2>3. PICK m \in Bad : \A k \in Bad : m <= k
    <3> HIDE DEF Bad
    <3> QED
      BY <2>1, <2>2, LeastNatural
  <2>4. CASE m = 0
    BY <1>1, <1>10, <2>3, <2>4
  <2>5. CASE m # 0
    <3>1. m - 1 \in 0..N /\ m \in 1..N /\ ~ (m <= m - 1)
      BY <1>1, <2>3, <2>5
    <3>2. upto[m - 1] \in Text
      BY <2>3, <3>1
    <3>3. Append(upto[m - 1], path[m]) \in Text
      BY <1>1, <3>1, <3>2, AppendTyped DEF Text
    <3> QED
      BY <1>10, <2>3, <3>1, <3>2, <3>3
  <2> QED
    BY <2>4, <2>5
<1> QED
  BY <1>10, <1>11

\* That of JoinedUpTo.
LEMMA JoinedSteps ==
  ASSUME NEW segments \in Seq(Text)
  PROVE  LET upto == JoinedUpTo(segments) IN
         /\ upto[0] = <<>>
         /\ \A n \in 1..Len(segments) :
              upto[n] = upto[n - 1] \o <<"/">> \o segments[n]
         /\ \A n \in 0..Len(segments) : upto[n] \in Text
<1> DEFINE N == Len(segments)
           Fits(f) == f = [n \in 0..N |->
                             IF n = 0 THEN <<>>
                             ELSE f[n - 1] \o <<"/">> \o segments[n]]
           step == [pair \in Text \X (1..N) |->
                      pair[1] \o <<"/">> \o segments[pair[2]]]
<1>1. N \in Nat /\ <<>> \in Text /\ <<"/">> \in Text
      /\ \A n \in 1..N : segments[n] \in Text
  BY TextFacts
<1>2. ASSUME NEW word \in Text, NEW n \in 1..N
      PROVE  word \o <<"/">> \o segments[n] \in Text
  BY <1>1, TextFacts
<1>3. step \in [Text \X (1..N) -> Text]
  BY <1>2
<1>4. \E g \in [0..N -> Text] :
        g[0] = <<>> /\ \A n \in 1..N : g[n] = step[<<g[n - 1], n>>]
  <2> HIDE DEF step, N
  <2> QED
    BY <1>1, <1>3, Iterated
<1>5. PICK g \in [0..N -> Text] :
        g[0] = <<>> /\ \A n \in 1..N : g[n] = step[<<g[n - 1], n>>]
  BY <1>4, Zenon
<1>6. ASSUME NEW n \in 0..N
      PROVE  g[n] = IF n = 0 THEN <<>> ELSE g[n - 1] \o <<"/">> \o segments[n]
  <2>1. CASE n = 0
    BY <1>5, <2>1, Zenon
  <2>2. CASE n # 0
    <3>1. n \in 1..N /\ n - 1 \in 0..N
      BY <1>1, <2>2
    <3>2. g[n - 1] \in Text
      BY <1>5, <3>1
    <3>3. g[n] = step[<<g[n - 1], n>>]
      BY <1>5, <3>1, Zenon
    <3> QED
      BY <2>2, <3>1, <3>2, <3>3
  <2> QED
    BY <2>1, <2>2
<1>7. Fits(g)
  <2> HIDE DEF step
  <2> QED
    BY <1>5, <1>6
<1>8. JoinedUpTo(segments) = CHOOSE f : Fits(f)
  BY DEF JoinedUpTo
<1> DEFINE upto == JoinedUpTo(segments)
<1>9. upto = [n \in 0..N |->
                IF n = 0 THEN <<>> ELSE upto[n - 1] \o <<"/">> \o segments[n]]
  <2>1. Fits(JoinedUpTo(segments))
    <3> HIDE DEF Fits
    <3> QED
      BY <1>7, <1>8
  <2> QED
    BY <2>1
<1> HIDE DEF upto, N
<1>10. upto[0] = <<>>
  BY <1>1, <1>9
<1>11. ASSUME NEW n \in 1..N
       PROVE  upto[n] = upto[n - 1] \o <<"/">> \o segments[n]
  <2>1. n \in 0..N /\ n # 0
    BY <1>1
  <2> QED
    BY <1>9, <2>1
<1>12. \A n \in 0..N : upto[n] \in Text
  <2> DEFINE Bad == {n \in 0..N : upto[n] \notin Text}
  <2>1. SUFFICES ASSUME Bad # {} PROVE FALSE
    OBVIOUS
  <2>2. PICK m \in Bad : \A k \in Bad : m <= k
    <3>1. Bad \subseteq Nat
      BY <1>1
    <3> HIDE DEF Bad
    <3> QED
      BY <2>1, <3>1, LeastNatural
  <2>3. m # 0
    BY <1>1, <1>10, <2>2
  <2>4. m - 1 \in 0..N /\ m \in 1..N /\ ~ (m <= m - 1)
    BY <1>1, <2>2, <2>3
  <2>5. upto[m - 1] \in Text
    BY <2>2, <2>4
  <2> QED
    BY <1>2, <1>11, <2>2, <2>4, <2>5
<1> QED
  BY <1>10, <1>11, <1>12 DEF upto, N

\* One more segment in front.
LEMMA JoinedCons ==
  ASSUME NEW name \in Text, NEW rest \in Seq(Text)
  PROVE  /\ <<name>> \o rest \in Seq(Text)
         /\ Joined(<<name>> \o rest) = (<<"/">> \o name) \o Joined(rest)
         /\ Joined(rest) \in Text
<1> DEFINE all == <<name>> \o rest
           N == Len(rest)
           long == JoinedUpTo(all)
           short == JoinedUpTo(rest)
           front == <<"/">> \o name
<1>1. /\ N \in Nat /\ all \in Seq(Text) /\ Len(all) = N + 1
      /\ all[1] = name /\ \A n \in 1..N : all[n + 1] = rest[n] /\ rest[n] \in Text
  BY ConcatProperties
<1>2. /\ short[0] = <<>>
      /\ \A n \in 1..N : short[n] = short[n - 1] \o <<"/">> \o rest[n]
      /\ \A n \in 0..N : short[n] \in Text
  BY JoinedSteps
<1>3. /\ long[0] = <<>>
      /\ \A n \in 1..N + 1 : long[n] = long[n - 1] \o <<"/">> \o all[n]
      /\ \A n \in 0..N + 1 : long[n] \in Text
  <2> HIDE DEF all
  <2> QED
    BY <1>1, JoinedSteps
<1>4. <<"/">> \in Text /\ front \in Text /\ <<>> \in Text
  BY TextFacts
<1>0. N \in Nat
  BY <1>1
<1> HIDE DEF all, N, long, short, front
<1> DEFINE Bad == {n \in 0..N : long[n + 1] # front \o short[n]}
<1>5. Bad = {}
  <2>1. SUFFICES ASSUME Bad # {} PROVE FALSE
    OBVIOUS
  <2>2. PICK m \in Bad : \A k \in Bad : m <= k
    <3>1. Bad \subseteq Nat
      BY <1>0
    <3> HIDE DEF Bad
    <3> QED
      BY <2>1, <3>1, LeastNatural
  <2>3. CASE m = 0
    <3>0. 1 \in 1..N + 1 /\ 1 - 1 = 0 /\ 0 + 1 = 1
      BY <1>0
    <3>1. long[1] = <<>> \o <<"/">> \o name
      <4>1. long[1] = long[1 - 1] \o <<"/">> \o all[1]
        BY <1>3, <3>0
      <4> QED
        BY <1>1, <1>3, <3>0, <4>1, Zenon
    <3>2. long[1] = front
      BY <3>1, <1>4, TextFacts DEF front
    <3>3. front \o <<>> = front
      BY <1>4, TextFacts
    <3> QED
      <4>1. long[m + 1] # front \o short[m]
        BY <2>2
      <4> QED
        BY <1>2, <2>3, <3>0, <3>2, <3>3, <4>1, Zenon
  <2>4. CASE m # 0
    <3>1. m - 1 \in 0..N /\ m \in 1..N /\ m + 1 \in 1..N + 1 /\ ~ (m <= m - 1)
          /\ (m - 1) + 1 = m /\ (m + 1) - 1 = m
      BY <1>1, <2>2, <2>4
    <3>2. long[m] = front \o short[m - 1]
      BY <2>2, <3>1
    <3> DEFINE s == short[m - 1]
               r == rest[m]
    <3>3. s \in Text /\ r \in Text
      BY <1>1, <1>2, <3>1
    <3>4. long[m + 1] = (front \o s) \o <<"/">> \o r
      BY <1>1, <1>3, <3>1, <3>2
    <3>5. short[m] = s \o <<"/">> \o r
      BY <1>2, <3>1
    <3> HIDE DEF s, r
    <3>6. s \o <<"/">> \in Text
      BY <1>4, <3>3, TextFacts
    <3>7. (front \o s) \o <<"/">> = front \o (s \o <<"/">>)
      <4> DEFINE f == front
                 slash == <<"/">>
      <4>1. f \in Text /\ slash \in Text
        BY <1>4
      <4> HIDE DEF f, slash
      <4>2. (f \o s) \o slash = f \o (s \o slash)
        BY <3>3, <4>1, TextAssociative, Zenon
      <4> QED
        BY <4>2 DEF f, slash
    <3>8. (front \o (s \o <<"/">>)) \o r = front \o ((s \o <<"/">>) \o r)
      <4> DEFINE b == s \o <<"/">>
      <4>1. b \in Text
        BY <3>6
      <4> HIDE DEF b
      <4> DEFINE f == front
      <4>2. f \in Text
        BY <1>4
      <4> HIDE DEF f
      <4>3. (f \o b) \o r = f \o (b \o r)
        BY <3>3, <4>1, <4>2, TextAssociative, Zenon
      <4> QED
        BY <4>3 DEF b, f
    <3> QED
      BY <2>2, <3>4, <3>5, <3>7, <3>8
  <2> QED
    BY <2>3, <2>4
<1>6. N \in 0..N
  BY <1>1
<1>7. long[N + 1] = front \o short[N]
  BY <1>5, <1>6
<1> QED
  BY <1>1, <1>2, <1>6, <1>7 DEF Joined, all, long, short, front, N

\* What next_segment does from a slash: it goes to the next one, or the end.
LEMMA NextSegment ==
  ASSUME NEW path \in Text, NEW pos \in 1..Len(path), path[pos] = "/"
  PROVE  \E q \in pos + 1..Len(path) + 1 :
           /\ q = Len(path) + 1 \/ path[q] = "/"
           /\ \A j \in pos + 1..q - 1 : path[j] # "/"
           /\ next_segment(path, pos)
                = [segment |-> SubSeq(path, pos + 1, q - 1), pos |-> q]
<1> DEFINE N == Len(path)
           Stop(i) == i = N + 1 \/ path[i] = "/"
           q == find_slash(path, pos + 1)
           Stops == {i \in pos + 1..N + 1 : Stop(i)}
<1>1. N \in Nat /\ pos \in 1..N
  BY DEF Text
<1>2. \E i \in pos + 1..N + 1 :
        Stop(i) /\ \A j \in pos + 1..i - 1 : path[j] # "/"
  <2> HIDE DEF N
  <2>1. Stops # {} /\ Stops \subseteq Nat
    <3>1. N + 1 \in Stops
      BY <1>1
    <3>2. Stops \subseteq Nat
      BY <1>1
    <3> QED
      BY <3>1, <3>2
  <2>2. PICK i \in Stops : \A k \in Stops : i <= k
    <3> HIDE DEF Stops
    <3> QED
      BY <2>1, LeastNatural
  <2>3. ASSUME NEW j \in pos + 1..i - 1
        PROVE  path[j] # "/"
    <3>1. j \in pos + 1..N + 1 /\ ~ (i <= j)
      BY <1>1, <2>2
    <3> QED
      BY <2>2, <3>1
  <2> QED
    BY <2>2, <2>3
<1>3. /\ q \in pos + 1..N + 1
      /\ q = N + 1 \/ path[q] = "/"
      /\ \A j \in pos + 1..q - 1 : path[j] # "/"
  BY <1>2 DEF find_slash
<1>4. next_segment(path, pos) = [segment |-> SubSeq(path, pos + 1, q - 1), pos |-> q]
  <2>1. ~ (pos > Len(path) \/ path[pos] # "/")
    BY <1>1
  <2> HIDE DEF q
  <2> QED
    BY <2>1 DEF next_segment, q
<1> HIDE DEF q
<1> QED
  BY <1>3, <1>4

\* Wherever it is called, next_segment returns a text and does not go back.
LEMMA NextSegmentTyped ==
  ASSUME NEW path \in Text, NEW pos \in 1..Len(path)
  PROVE  /\ next_segment(path, pos).pos \in pos..Len(path) + 1
         /\ next_segment(path, pos).segment \in Text
<1>0. Len(path) \in Nat /\ \A i \in 1..Len(path) : path[i] \in Char
  BY DEF Text
<1>1. CASE path[pos] = "/"
  <2>1. PICK q \in pos + 1..Len(path) + 1 :
          next_segment(path, pos)
            = [segment |-> SubSeq(path, pos + 1, q - 1), pos |-> q]
    BY <1>1, NextSegment
  <2>2. SubSeq(path, pos + 1, q - 1) \in Text
    <3>1. \A i \in pos + 1..q - 1 : path[i] \in Char
      BY <1>0
    <3>2. pos + 1 \in Int /\ q - 1 \in Int
      BY <1>0
    <3> QED
      BY <3>1, <3>2, SubSeqProperties DEF Text
  <2>3. q \in pos..Len(path) + 1
    BY <1>0
  <2> QED
    BY <2>1, <2>2, <2>3
<1>2. CASE path[pos] # "/"
  <2>1. next_segment(path, pos) = [segment |-> <<>>, pos |-> pos]
    BY <1>2 DEF next_segment
  <2>2. pos \in pos..Len(path) + 1
    BY <1>0
  <2> QED
    BY <2>1, <2>2, TextFacts
<1> QED
  BY <1>1, <1>2

\* What the loop of all_segments adds at a position.
Added(path, pos) ==
  IF next_segment(path, pos).segment = <<>> THEN <<>>
  ELSE <<next_segment(path, pos).segment>>

\* That of the loop of all_segments: next_segment never goes back.
LEMMA SegmentsSteps ==
  ASSUME NEW path \in Text
  PROVE  \A pos \in 1..Len(path) + 2 :
           segments_from(path)[pos] =
             IF pos > Len(path) THEN <<>>
             ELSE IF next_segment(path, pos).pos = pos THEN Forever
             ELSE Added(path, pos) \o segments_from(path)[next_segment(path, pos).pos]
<1> DEFINE N == Len(path)
           after(pos) == next_segment(path, pos).pos
           add(pos) == Added(path, pos)
           Step(f, pos) == IF pos > N THEN <<>>
                           ELSE IF after(pos) = pos THEN Forever
                           ELSE add(pos) \o f[after(pos)]
           Fits(f) == f = [pos \in 1..N + 2 |-> Step(f, pos)]
           Names == Seq(Text)
           Good(f, k) == \A pos \in N + 2 - k..N + 2 : f[pos] = Step(f, pos)
           Bad == {k \in 0..N + 1 : ~ \E f \in [1..N + 2 -> Names] : Good(f, k)}
<1>1. N \in Nat
  BY DEF Text
<1>2. \A pos \in 1..N : after(pos) \in pos..N + 1 /\ add(pos) \in Names
  BY NextSegmentTyped DEF Added
<1>3. Forever \in Names /\ <<>> \in Names
  BY TextFacts DEF Forever
<1>4. \A a, b \in Names : a \o b \in Names
  BY ConcatProperties
<1> HIDE DEF N, after, add, Names
<1>5. ASSUME NEW f \in [1..N + 2 -> Names], NEW pos \in 1..N + 2
      PROVE  Step(f, pos) \in Names
  <2>1. CASE pos > N
    BY <1>3, <2>1
  <2>2. CASE ~ (pos > N)
    <3>1. pos \in 1..N /\ after(pos) \in 1..N + 2
      BY <1>1, <1>2, <2>2
    <3>2. f[after(pos)] \in Names /\ add(pos) \in Names
      BY <1>2, <3>1
    <3> QED
      BY <1>3, <1>4, <3>2
  <2> QED
    BY <2>1, <2>2
<1>6. Bad = {}
  <2>1. SUFFICES ASSUME Bad # {} PROVE FALSE
    OBVIOUS
  <2>2. PICK m \in Bad : \A k \in Bad : m <= k
    <3>1. Bad \subseteq Nat
      BY <1>1
    <3> HIDE DEF Bad
    <3> QED
      BY <2>1, <3>1, LeastNatural
  <2>3. CASE m = 0
    <3> DEFINE f == [pos \in 1..N + 2 |-> <<>>]
    <3>1. f \in [1..N + 2 -> Names]
      BY <1>3
    <3>2. Good(f, 0)
      BY <1>1
    <3> QED
      BY <2>2, <2>3, <3>1, <3>2
  <2>4. CASE m # 0
    <3> DEFINE here == N + 2 - m
    <3>1. /\ m - 1 \in 0..N + 1 /\ ~ (m <= m - 1)
          /\ here \in 1..N + 1 /\ N + 2 - (m - 1) = here + 1
      BY <1>1, <2>2, <2>4
    <3>2. PICK f \in [1..N + 2 -> Names] : Good(f, m - 1)
      BY <2>2, <3>1
    <3> DEFINE g == [f EXCEPT ![here] = Step(f, here)]
    <3>3. here \in 1..N + 2
      BY <1>1, <3>1
    <3>4. Step(f, here) \in Names
      BY <1>5, <3>3
    <3>5. g \in [1..N + 2 -> Names]
      BY <3>3, <3>4
    <3>6. g[here] = Step(f, here) /\ \A pos \in here + 1..N + 2 : g[pos] = f[pos]
      BY <1>1, <3>1, <3>2, <3>3
    <3> HIDE DEF g
    <3>7. ASSUME NEW pos \in here..N + 2
          PROVE  g[pos] = Step(g, pos)
      <4>1. g[pos] = Step(f, pos)
        <5>1. CASE pos = here
          BY <3>6, <5>1
        <5>2. CASE pos # here
          <6>1. pos \in here + 1..N + 2
            BY <1>1, <3>1, <5>2
          <6>2. f[pos] = Step(f, pos)
            BY <3>1, <3>2, <6>1
          <6> QED
            BY <3>6, <6>1, <6>2
        <5> QED
          BY <5>1, <5>2
      <4>2. CASE pos > N \/ after(pos) = pos
        BY <4>1, <4>2
      <4>3. CASE ~ (pos > N) /\ after(pos) # pos
        <5>1. pos \in 1..N /\ after(pos) \in here + 1..N + 2
          BY <1>1, <1>2, <3>1, <4>3
        <5>2. g[after(pos)] = f[after(pos)]
          BY <3>6, <5>1
        <5> QED
          BY <4>1, <4>3, <5>2
      <4> QED
        BY <4>2, <4>3
    <3>8. Good(g, m)
      BY <3>7
    <3> QED
      BY <2>2, <3>5, <3>8
  <2> QED
    BY <2>3, <2>4
<1>7. PICK f \in [1..N + 2 -> Names] : Good(f, N + 1)
  <2>1. N + 1 \in 0..N + 1
    BY <1>1
  <2> QED
    BY <1>6, <2>1
<1>8. Fits(f)
  <2>1. \A pos \in 1..N + 2 : f[pos] = Step(f, pos)
    <3>1. N + 2 - (N + 1) = 1
      BY <1>1
    <3> QED
      BY <1>7, <3>1
  <2> HIDE DEF Step
  <2> QED
    BY <1>7, <2>1
<1>9. segments_from(path) = CHOOSE g : Fits(g)
  BY DEF segments_from, N, after, add, Added
<1>10. Fits(segments_from(path))
  <2> HIDE DEF Fits
  <2> QED
    BY <1>8, <1>9
<1> DEFINE from == segments_from(path)
<1>11. from = [pos \in 1..N + 2 |-> Step(from, pos)]
  BY <1>10
<1>12. ASSUME NEW pos \in 1..N + 2
       PROVE  from[pos] = Step(from, pos)
  <2> HIDE DEF from, Step
  <2> QED
    BY <1>11
<1> QED
  BY <1>12 DEF N, after, add

\* Between two slashes nothing is dropped.
LEMMA CollapsedName ==
  ASSUME NEW path \in Text, NEW p \in 1..Len(path), path[p] = "/",
         NEW q \in p + 2..Len(path) + 1, \A j \in p + 1..q - 1 : path[j] # "/"
  PROVE  CollapsedUpTo(path)[q - 1]
           = CollapsedUpTo(path)[p - 1] \o (<<"/">> \o SubSeq(path, p + 1, q - 1))
<1> DEFINE N == Len(path)
           upto == CollapsedUpTo(path)
           name(j) == SubSeq(path, p + 1, j)
           base == upto[p - 1]
           Bad == {j \in p..q - 1 : upto[j] # base \o (<<"/">> \o name(j))}
<1>1. /\ N \in Nat /\ p \in 1..N /\ q \in p + 2..N + 1
      /\ \A i \in 1..N : path[i] \in Char
  BY DEF Text
<1>2. /\ \A n \in 1..N :
           upto[n] = IF path[n] = "/" /\ (n = N \/ path[n + 1] = "/")
                     THEN upto[n - 1] ELSE Append(upto[n - 1], path[n])
      /\ \A n \in 0..N : upto[n] \in Text
  BY CollapsedSteps
<1>3. \A word \in Text : \A c \in Char :
        Append(word, c) = word \o <<c>> /\ <<c>> \in Text
  BY AppendIsConcat DEF Text
<1>4. /\ \A j \in p..q - 1 : name(j) \in Text
      /\ name(p) = <<>>
      /\ \A j \in p + 1..q - 1 : name(j) = name(j - 1) \o <<path[j]>>
  <2>1. ASSUME NEW j \in p..q - 1
        PROVE  name(j) \in Text
    <3>1. p + 1 \in Int /\ j \in Int /\ \A i \in p + 1..j : path[i] \in Char
      BY <1>1
    <3> QED
      BY <3>1, SubSeqProperties DEF Text
  <2>2. name(p) = <<>>
    <3>1. p + 1 \in Int /\ p \in Int /\ p < p + 1
      BY <1>1
    <3> QED
      BY <3>1, SubSeqEmpty
  <2>3. ASSUME NEW j \in p + 1..q - 1
        PROVE  name(j) = name(j - 1) \o <<path[j]>>
    <3>1. path \in Seq(Char) /\ p + 1 \in 1..Len(path) /\ j \in p + 1..Len(path)
      BY <1>1 DEF Text
    <3> QED
      BY <3>1, SubSeqRecursiveSecond
  <2> QED
    BY <2>1, <2>2, <2>3
<1>5. base \in Text
  <2>1. p - 1 \in 0..N
    BY <1>1
  <2> QED
    BY <1>2, <2>1
<1>6. \A j \in p + 1..q - 1 : path[j] # "/"
  OBVIOUS
<1>7. path[p] = "/"
  OBVIOUS
<1> HIDE DEF N, upto, name, base
<1>8. Bad = {}
  <2>1. SUFFICES ASSUME Bad # {} PROVE FALSE
    OBVIOUS
  <2>2. PICK m \in Bad : \A k \in Bad : m <= k
    <3>1. Bad \subseteq Nat
      BY <1>1
    <3> HIDE DEF Bad
    <3> QED
      BY <2>1, <3>1, LeastNatural
  <2>3. m \in 1..N /\ m \in p..q - 1
    BY <1>1, <2>2
  <2>4. upto[m] = upto[m - 1] \o <<path[m]>>
    <3>1. ~ (path[m] = "/" /\ (m = N \/ path[m + 1] = "/"))
      <4>1. CASE m = p
        <5>1. m + 1 \in p + 1..q - 1 /\ m # N
          BY <1>1, <4>1
        <5> QED
          BY <1>6, <5>1
      <4>2. CASE m # p
        <5>1. m \in p + 1..q - 1
          BY <1>1, <2>3, <4>2
        <5> QED
          BY <1>6, <5>1
      <4> QED
        BY <4>1, <4>2
    <3>2. upto[m - 1] \in Text /\ path[m] \in Char
      <4>1. m - 1 \in 0..N
        BY <1>1, <2>3
      <4> QED
        BY <1>1, <1>2, <2>3, <4>1
    <3>3. upto[m] = Append(upto[m - 1], path[m])
      BY <1>2, <2>3, <3>1
    <3> QED
      BY <1>3, <3>2, <3>3
  <2>5. CASE m = p
    <3>1. upto[m] = base \o <<"/">>
      BY <1>7, <2>4, <2>5 DEF base
    <3>2. <<"/">> \o name(m) = <<"/">>
      BY <1>4, <2>5, TextFacts
    <3> QED
      BY <2>2, <3>1, <3>2
  <2>6. CASE m # p
    <3>1. m \in p + 1..q - 1 /\ m - 1 \in p..q - 1 /\ ~ (m <= m - 1)
      BY <1>1, <2>3, <2>6
    <3> DEFINE old == name(m - 1)
               c == <<path[m]>>
    <3>2. upto[m - 1] = base \o (<<"/">> \o old)
      BY <2>2, <3>1
    <3>3. name(m) = old \o c
      BY <1>4, <3>1
    <3>4. old \in Text /\ c \in Text
      BY <1>1, <1>3, <1>4, <2>3, <3>1, TextFacts
    <3>5. upto[m] = (base \o (<<"/">> \o old)) \o c
      BY <2>4, <3>2
    <3> HIDE DEF old, c
    <3>6. <<"/">> \in Text /\ <<"/">> \o old \in Text
      BY <3>4, TextFacts
    <3>7. upto[m] = base \o ((<<"/">> \o old) \o c)
      BY <1>5, <3>4, <3>5, <3>6, TextAssociative, Zenon
    <3>8. (<<"/">> \o old) \o c = <<"/">> \o (old \o c)
      <4> DEFINE slash == <<"/">>
      <4>1. slash \in Text
        BY <3>6
      <4> HIDE DEF slash
      <4>2. (slash \o old) \o c = slash \o (old \o c)
        BY <3>4, <4>1, TextAssociative, Zenon
      <4> QED
        BY <4>2 DEF slash
    <3> QED
      BY <2>2, <3>3, <3>7, <3>8
  <2> QED
    BY <2>5, <2>6
<1>9. q - 1 \in p..q - 1
  BY <1>1
<1>10. upto[q - 1] = base \o (<<"/">> \o name(q - 1))
  BY <1>8, <1>9
<1> QED
  BY <1>10 DEF upto, base, name

\* Names: texts that are not empty and have no slash.
AreNames(segments) ==
  \A i \in 1..Len(segments) :
    /\ segments[i] # <<>>
    /\ \A j \in 1..Len(segments[i]) : segments[i][j] # "/"

\* What the loop returns from a slash on, and what it has passed before.
LEMMA SegmentsFromSlash ==
  ASSUME NEW path \in Text
  PROVE  \A pos \in 1..Len(path) + 1 :
           pos = Len(path) + 1 \/ path[pos] = "/" =>
             LET rest == segments_from(path)[pos] IN
             /\ rest \in Seq(Text)
             /\ AreNames(rest)
             /\ CollapsedUpTo(path)[pos - 1] \o Joined(rest) = Collapsed(path)
<1> DEFINE N == Len(path)
           from == segments_from(path)
           upto == CollapsedUpTo(path)
           Slash(pos) == pos = N + 1 \/ path[pos] = "/"
           Right(pos) == /\ from[pos] \in Seq(Text)
                         /\ AreNames(from[pos])
                         /\ upto[pos - 1] \o Joined(from[pos]) = Collapsed(path)
           Bad == {k \in 0..N : Slash(N + 1 - k) /\ ~ Right(N + 1 - k)}
<1>1. N \in Nat /\ \A i \in 1..N : path[i] \in Char
  BY DEF Text
<1>2. /\ \A n \in 1..N :
           upto[n] = IF path[n] = "/" /\ (n = N \/ path[n + 1] = "/")
                     THEN upto[n - 1] ELSE Append(upto[n - 1], path[n])
      /\ \A n \in 0..N : upto[n] \in Text
  BY CollapsedSteps
<1>3. \A pos \in 1..N + 2 :
        from[pos] =
          IF pos > N THEN <<>>
          ELSE IF next_segment(path, pos).pos = pos THEN Forever
          ELSE Added(path, pos) \o from[next_segment(path, pos).pos]
  BY SegmentsSteps
<1>4. Collapsed(path) = upto[N]
  BY DEF Collapsed
<1> HIDE DEF from, upto
<1>5. Right(N + 1)
  <2>1. from[N + 1] = <<>>
    <3>1. N + 1 \in 1..N + 2 /\ N + 1 > N
      BY <1>1
    <3> QED
      BY <1>3, <3>1
  <2>2. Joined(<<>>) = <<>>
    <3>1. <<>> \in Seq(Text) /\ Len(<<>>) = 0
      OBVIOUS
    <3> QED
      BY <3>1, JoinedSteps DEF Joined
  <2>3. upto[N] \o <<>> = upto[N] /\ (N + 1) - 1 = N
    BY <1>1, <1>2, TextFacts
  <2>4. <<>> \in Seq(Text) /\ AreNames(<<>>)
    BY DEF AreNames
  <2> QED
    BY <1>4, <2>1, <2>2, <2>3, <2>4
<1>6. ASSUME NEW p \in 1..N, path[p] = "/",
             \A q \in p + 1..N + 1 : Slash(q) => Right(q)
      PROVE  Right(p)
  <2>1. PICK q \in p + 1..N + 1 :
          /\ Slash(q)
          /\ \A j \in p + 1..q - 1 : path[j] # "/"
          /\ next_segment(path, p) = [segment |-> SubSeq(path, p + 1, q - 1), pos |-> q]
    BY <1>6, NextSegment
  <2> DEFINE name == SubSeq(path, p + 1, q - 1)
             rest == from[q]
  <2>2. Right(q)
    BY <1>6, <2>1
  <2>3. next_segment(path, p).segment = name /\ next_segment(path, p).pos = q
    BY <2>1
  <2>4. name \in Text
    BY <2>3, NextSegmentTyped
  <2>5. from[p] = Added(path, p) \o rest
    <3>1. p \in 1..N + 2 /\ ~ (p > N) /\ q # p
      BY <1>1
    <3> QED
      BY <1>3, <2>3, <3>1
  <2>6. CASE q = p + 1
    <3>1. name = <<>>
      BY <1>1, <2>6, SubSeqEmpty
    <3>2. from[p] = rest
      <4>1. Added(path, p) = <<>>
        BY <2>3, <3>1 DEF Added
      <4> QED
        BY <2>2, <2>5, <4>1
    <3>3. upto[q - 1] = upto[p - 1]
      <4>1. path[p] = "/" /\ (p = N \/ path[p + 1] = "/") /\ q - 1 = p
        BY <1>1, <1>6, <2>1, <2>6
      <4> QED
        BY <1>2, <4>1
    <3> QED
      BY <2>2, <3>2, <3>3
  <2>7. CASE q # p + 1
    <3>1. q \in p + 2..N + 1
      BY <1>1, <2>7
    <3>2. upto[q - 1] = upto[p - 1] \o (<<"/">> \o name)
      BY <1>6, <2>1, <3>1, CollapsedName DEF upto
    <3>3. /\ Len(name) = q - 1 - p
          /\ \A i \in 1..q - 1 - p : name[i] = path[p + i]
      <4>1. /\ p + 1 \in Int /\ q - 1 \in Int /\ p + 1 <= q - 1
            /\ \A i \in p + 1..q - 1 : path[i] \in Char
            /\ (q - 1) - (p + 1) + 1 = q - 1 - p
        BY <1>1, <3>1
      <4>2. /\ Len(name) = (q - 1) - (p + 1) + 1
            /\ \A i \in 1..(q - 1) - (p + 1) + 1 : name[i] = path[(p + 1) + i - 1]
        BY <4>1, SubSeqProperties
      <4>3. \A i \in 1..q - 1 - p : (p + 1) + i - 1 = p + i
        BY <1>1, <3>1
      <4> QED
        BY <4>1, <4>2, <4>3
    <3>4. name # <<>> /\ \A i \in 1..Len(name) : name[i] # "/"
      <4>1. \A i \in 1..q - 1 - p : p + i \in p + 1..q - 1
        BY <1>1, <3>1
      <4>2. q - 1 - p # 0
        BY <1>1, <3>1
      <4> HIDE DEF name
      <4> QED
        BY <2>1, <3>3, <4>1, <4>2
    <3> HIDE DEF name
    <3>5. from[p] = <<name>> \o rest
      BY <2>3, <2>5, <3>4 DEF Added
    <3>6. rest \in Seq(Text)
      BY <2>2
    <3> HIDE DEF rest
    <3>7. /\ from[p] \in Seq(Text)
          /\ Joined(from[p]) = (<<"/">> \o name) \o Joined(rest)
          /\ Joined(rest) \in Text
      BY <2>4, <3>5, <3>6, JoinedCons
    <3>8. AreNames(from[p])
      <4>1. AreNames(rest)
        BY <2>2 DEF rest
      <4>2. /\ Len(from[p]) = Len(rest) + 1 /\ Len(rest) \in Nat
            /\ from[p][1] = name
            /\ \A i \in 2..Len(rest) + 1 : from[p][i] = rest[i - 1]
        BY <2>4, <3>5, <3>6
      <4>3. ASSUME NEW i \in 1..Len(from[p])
            PROVE  /\ from[p][i] # <<>>
                   /\ \A j \in 1..Len(from[p][i]) : from[p][i][j] # "/"
        <5>1. CASE i = 1
          BY <3>4, <4>2, <5>1
        <5>2. CASE i # 1
          <6>1. i \in 2..Len(rest) + 1 /\ i - 1 \in 1..Len(rest)
            BY <4>2, <5>2
          <6>2. from[p][i] = rest[i - 1]
            BY <4>2, <6>1
          <6> QED
            BY <4>1, <6>1, <6>2 DEF AreNames
        <5> QED
          BY <5>1, <5>2
      <4> QED
        BY <4>3 DEF AreNames
    <3>9. upto[p - 1] \o Joined(from[p]) = Collapsed(path)
      <4> DEFINE front == <<"/">> \o name
                 tail == Joined(rest)
                 before == upto[p - 1]
      <4>1. front \in Text /\ tail \in Text
        BY <2>4, <3>7, TextFacts
      <4>2. before \in Text
        <5>1. p - 1 \in 0..N
          BY <1>1
        <5> QED
          BY <1>2, <5>1
      <4>3. (before \o front) \o tail = Collapsed(path)
        BY <2>2, <3>2 DEF rest
      <4> HIDE DEF front, tail, before
      <4>4. before \o (front \o tail) = Collapsed(path)
        BY <4>1, <4>2, <4>3, TextAssociative, Zenon
      <4> QED
        BY <3>7, <4>4 DEF front, tail, before
    <3> QED
      BY <3>7, <3>8, <3>9
  <2> QED
    BY <2>6, <2>7
<1> HIDE DEF N, Slash, Right
<1>7. Bad = {}
  <2>1. SUFFICES ASSUME Bad # {} PROVE FALSE
    OBVIOUS
  <2>2. PICK m \in Bad : \A k \in Bad : m <= k
    <3>1. Bad \subseteq Nat
      BY <1>1
    <3> HIDE DEF Bad
    <3> QED
      BY <2>1, <3>1, LeastNatural
  <2>3. CASE m = 0
    BY <1>1, <1>5, <2>2, <2>3
  <2>4. CASE m # 0
    <3> DEFINE p == N + 1 - m
    <3>1. p \in 1..N /\ Slash(p) /\ ~ Right(p) /\ p # N + 1
      BY <1>1, <2>2, <2>4
    <3>2. ASSUME NEW q \in p + 1..N + 1, Slash(q)
          PROVE  Right(q)
      <4>1. N + 1 - q \in 0..N /\ ~ (m <= N + 1 - q) /\ N + 1 - (N + 1 - q) = q
        BY <1>1, <2>2, <3>1
      <4> QED
        BY <2>2, <3>2, <4>1
    <3>3. path[p] = "/"
      BY <3>1 DEF Slash
    <3> HIDE DEF p
    <3> QED
      BY <1>6, <3>1, <3>2, <3>3
  <2> QED
    BY <2>3, <2>4
<1>8. ASSUME NEW pos \in 1..N + 1, Slash(pos)
      PROVE  Right(pos)
  <2>1. N + 1 - pos \in 0..N /\ N + 1 - (N + 1 - pos) = pos
    BY <1>1
  <2> QED
    BY <1>7, <1>8, <2>1
<1> QED
  BY <1>8 DEF N, Slash, Right, from, upto

\* No path is split wrongly, and the loop ends for every one.
LEMMA NoneMisread == Misread = {}
<1> SUFFICES ASSUME NEW path \in Paths
             PROVE  LET segments == all_segments(path) IN
                    AreNames(segments) /\ Joined(segments) = Collapsed(path)
  BY DEF Misread, AreNames
<1>1. path \in Text /\ path # <<>> /\ path[1] = "/"
  <2>1. path \in Seq(STRING) /\ path # <<>> /\ path[1] = "/"
    BY PathsAreAbsolute
  <2>2. STRING \subseteq Char
    BY DEF Char
  <2> QED
    BY <2>1, <2>2, SeqMonotonic DEF Text
<1>2. 1 \in 1..Len(path) + 1
  BY <1>1 DEF Text
<1> DEFINE segments == all_segments(path)
<1>3. /\ segments \in Seq(Text) /\ AreNames(segments)
      /\ CollapsedUpTo(path)[1 - 1] \o Joined(segments) = Collapsed(path)
  BY <1>1, <1>2, SegmentsFromSlash DEF all_segments
<1>4. CollapsedUpTo(path)[1 - 1] = <<>>
  BY <1>1, CollapsedSteps
<1>5. Joined(segments) \in Text
  <2> HIDE DEF segments
  <2>1. Len(segments) \in 0..Len(segments)
    BY <1>3
  <2> QED
    BY <1>3, <2>1, JoinedSteps DEF Joined
<1> QED
  BY <1>3, <1>4, <1>5, TextFacts

\* Whatever paths a session is asked for, all_segments ends and returns exactly
\* the names between their slashes.
THEOREM SegmentsAreNames == ConnectionSpec => []SegmentsAreTheNames
<1>1. SegmentsAreTheNames
  BY NoneMisread DEF SegmentsAreTheNames
<1> QED
  BY <1>1, PTL
=============================================================================
