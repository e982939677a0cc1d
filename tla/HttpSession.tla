---------------------------- MODULE HttpSession ----------------------------
(***************************************************************************)
(* One connection of the HTTP server: detect_session, http_session with    *)
(* its plain and SSL variants, and the request handlers it calls           *)
(* (server_async.h, http_session.hpp, http_server_async.hpp,               *)
(* handler_file.hpp under apps/http_server_async_include).                 *)
(*                                                                         *)
(* All handlers of a connection run on one strand, so each completion      *)
(* handler is one atomic action; what interleaves are the completions of   *)
(* the operations a session has outstanding at the same time: reading a    *)
(* request header, reading an upload's body, writing a response, the SSL   *)
(* shutdown.  The client decides what it sends, and the connection may     *)
(* fail or time out at any moment.                                         *)
(***************************************************************************)
EXTENDS Integers, Sequences

CONSTANTS
  QueueLimit,   \* queue_limit, 8 in the code
  MaxRequests   \* bound: how many requests the client sends

ASSUME QueueLimitPositive == QueueLimit \in Nat \ {0}

ASSUME MaxRequestsNatural == MaxRequests \in Nat

\* What a request asks for, as far as the code tells requests apart.
Kind == {"file",        \* served by FileRequestHandler, whatever the status
         "bad_target",  \* a target that is not in origin form
         "upload",      \* multipart/form-data or /upload/data
         "upgrade",     \* a WebSocket upgrade
         "connect",     \* the CONNECT method
         "absolute"}    \* a target that starts with http

Message == [req : Nat, keep : BOOLEAN]

VARIABLES
  stage,        \* which object drives the connection
  secure,       \* the session is an ssl_http_session
  headerReads,  \* outstanding async_read_header operations
  bodies,       \* outstanding body reads: request and keep-alive of each
  queue,        \* response_queue_
  writes,       \* outstanding writes; late: started after do_eof or hand-over
  shutdowns,    \* outstanding SSL shutdowns
  sendShut,     \* do_eof has been called
  failed,       \* some operation failed, or the connection was lost
  dead,         \* the socket is closed: timeout or reset
  next,         \* number of requests read so far; the last one's number
  answered      \* history: the requests whose responses were sent, in order

vars == <<stage, secure, headerReads, bodies, queue, writes, shutdowns,
          sendShut, failed, dead, next, answered>>

TypeOK ==
  /\ stage \in {"accepted", "detect", "handshake", "serving", "released",
                "ended", "undefined"}
  /\ secure \in BOOLEAN
  /\ headerReads \in Nat
  /\ bodies \in Seq(Message)
  /\ queue \in Seq(Message)
  /\ writes \in Seq([req : Nat, keep : BOOLEAN, late : BOOLEAN])
  /\ shutdowns \in Nat
  /\ sendShut \in BOOLEAN
  /\ failed \in BOOLEAN
  /\ dead \in BOOLEAN
  /\ next \in Nat
  /\ answered \in Seq(Nat)

Init ==
  /\ stage = "accepted"
  /\ secure = FALSE
  /\ headerReads = 0
  /\ bodies = <<>>
  /\ queue = <<>>
  /\ writes = <<>>
  /\ shutdowns = 0
  /\ sendShut = FALSE
  /\ failed = FALSE
  /\ dead = FALSE
  /\ next = 0
  /\ answered = <<>>

-----------------------------------------------------------------------------
(* detect_session and the start of a session.                              *)

\* detect_session::on_run sets the timer and starts async_detect_ssl.
OnRun ==
  /\ stage = "accepted"
  /\ stage' = "detect"
  /\ UNCHANGED <<secure, headerReads, bodies, queue, writes, shutdowns,
                 sendShut, failed, dead, next, answered>>

\* An SSL connection goes on with its handshake, a plain one reads.
OnDetect ==
  /\ stage = "detect"
  /\ ~dead
  /\ \/ /\ secure' = TRUE
        /\ stage' = "handshake"
        /\ UNCHANGED headerReads
     \/ /\ secure' = FALSE
        /\ stage' = "serving"
        /\ headerReads' = headerReads + 1
  /\ UNCHANGED <<bodies, queue, writes, shutdowns, sendShut, failed, dead,
                 next, answered>>

OnHandshake ==
  /\ stage = "handshake"
  /\ ~dead
  /\ stage' = "serving"
  /\ headerReads' = headerReads + 1
  /\ UNCHANGED <<secure, bodies, queue, writes, shutdowns, sendShut, failed,
                 dead, next, answered>>

\* Detection or handshake fails: the object dies and its socket with it.
StartFails ==
  /\ stage \in {"detect", "handshake"}
  /\ stage' = "ended"
  /\ failed' = TRUE
  /\ UNCHANGED <<secure, headerReads, bodies, queue, writes, shutdowns,
                 sendShut, dead, next, answered>>

-----------------------------------------------------------------------------
(* The operations handlers use.                                            *)

\* A session whose plain stream was moved away is left with a stream that
\* is valid and closed: what it starts on it fails.
Drives == stage = "serving" \/ (stage = "released" /\ ~secure)

do_read == headerReads' = headerReads + 1

\* shutdown(shutdown_send) on the socket.
do_eof_plain ==
  /\ ~secure
  /\ sendShut' = TRUE
  /\ UNCHANGED shutdowns

\* A 30 second timer and async_shutdown of the stream.
do_eof_ssl ==
  /\ secure
  /\ sendShut' = TRUE
  /\ shutdowns' = shutdowns + 1

do_eof == do_eof_plain \/ do_eof_ssl

\* do_write with response queue q: write the front, if there is one.
DoWrite(q, outstanding) ==
  IF q = <<>> THEN outstanding
  ELSE Append(outstanding, [req  |-> Head(q).req,
                            keep |-> Head(q).keep,
                            late |-> sendShut \/ stage = "released"])

\* Broken variant: starts a write for every response.
QueueWriteAlways(response) ==
  /\ queue' = Append(queue, response)
  /\ writes' = DoWrite(queue', writes)

\* Push, and start the write loop if there was no previous work.
queue_write(response) ==
  /\ queue' = Append(queue, response)
  /\ writes' = IF Len(queue) + 1 = 1 THEN DoWrite(queue', writes) ELSE writes

-----------------------------------------------------------------------------
(* http_session::on_read: a request header has been read.                  *)

\* FileRequestHandler queues exactly one response on every path: bad method,
\* bad target, not found, server error, HEAD and GET.
HandleFile(keep) ==
  /\ queue_write([req |-> next', keep |-> keep])
  /\ UNCHANGED <<stage, bodies, shutdowns, sendShut>>

\* The target does not parse: the handler calls do_eof.
HandleBadTarget ==
  /\ do_eof
  /\ UNCHANGED <<stage, bodies, queue, writes>>

\* FileUploadHandler opens its file and reads the body, or gives up.
HandleUpload(keep) ==
  \/ /\ bodies' = Append(bodies, [req |-> next', keep |-> keep])
     /\ UNCHANGED <<stage, queue, writes, shutdowns, sendShut>>
  \/ /\ do_eof
     /\ UNCHANGED <<stage, bodies, queue, writes>>

\* The stream is moved into a websocket session, a socket copier or an HTTP
\* copier; this object lives on while it has operations outstanding.
HandOver ==
  /\ stage' = "released"
  /\ UNCHANGED <<bodies, queue, writes, shutdowns, sendShut>>

\* Broken variant: starts the next read before dispatching the request.
OnRequestPipelined(kind, keep) ==
  /\ stage = "serving"
  /\ headerReads > 0
  /\ ~dead
  /\ next < MaxRequests
  /\ UNCHANGED headerReads
  /\ next' = next + 1
  /\ \/ kind = "file" /\ HandleFile(keep)
     \/ kind = "bad_target" /\ HandleBadTarget
     \/ kind = "upload" /\ HandleUpload(keep)
     \/ kind \in {"upgrade", "connect", "absolute"} /\ HandOver
  /\ UNCHANGED <<secure, failed, dead, answered>>

OnRequest(kind, keep) ==
  /\ stage = "serving"
  /\ headerReads > 0
  /\ ~dead
  /\ next < MaxRequests
  /\ headerReads' = headerReads - 1
  /\ next' = next + 1
  /\ \/ kind = "file" /\ HandleFile(keep)
     \/ kind = "bad_target" /\ HandleBadTarget
     \/ kind = "upload" /\ HandleUpload(keep)
     \/ kind \in {"upgrade", "connect", "absolute"} /\ HandOver
  /\ UNCHANGED <<secure, failed, dead, answered>>

\* end_of_stream: the client has sent its last byte.
OnReadEof ==
  /\ stage = "serving"
  /\ headerReads > 0
  /\ ~dead
  /\ headerReads' = headerReads - 1
  /\ do_eof
  /\ UNCHANGED <<stage, secure, bodies, queue, writes, failed, dead, next,
                 answered>>

OnReadError ==
  /\ Drives
  /\ headerReads > 0
  /\ headerReads' = headerReads - 1
  /\ failed' = TRUE
  /\ UNCHANGED <<stage, secure, bodies, queue, writes, shutdowns, sendShut,
                 dead, next, answered>>

-----------------------------------------------------------------------------
(* FileUploadHandler::on_read: the body of an upload has been read.        *)

\* Broken variant: reads on at the limit, off by one.
ContinueAtLimit ==
  IF Len(queue') <= QueueLimit THEN do_read ELSE UNCHANGED headerReads

\* Broken variant: reads on without looking at the limit.
ContinueAlways == do_read

\* size < queue_limit, with the response just queued.
continue_read_if_needed ==
  IF Len(queue') < QueueLimit THEN do_read ELSE UNCHANGED headerReads

OnBody ==
  /\ stage = "serving"
  /\ bodies # <<>>
  /\ ~dead
  /\ bodies' = Tail(bodies)
  /\ queue_write(Head(bodies))
  /\ continue_read_if_needed
  /\ UNCHANGED <<stage, secure, shutdowns, sendShut, failed, dead, next,
                 answered>>

OnBodyError ==
  /\ stage = "serving"
  /\ bodies # <<>>
  /\ bodies' = Tail(bodies)
  /\ failed' = TRUE
  /\ UNCHANGED <<stage, secure, headerReads, queue, writes, shutdowns,
                 sendShut, dead, next, answered>>

-----------------------------------------------------------------------------
(* http_session::on_write: a response has been sent.                       *)

\* An operation started after do_eof, or after the stream was moved away,
\* cannot succeed.
WriteSent ==
  /\ Drives
  /\ writes # <<>>
  /\ ~dead
  /\ ~Head(writes).late
  /\ answered' = Append(answered, Head(writes).req)

\* Broken variant: pops the response it has sent.
OnWriteClosePops ==
  /\ WriteSent
  /\ ~Head(writes).keep
  /\ writes' = Tail(writes)
  /\ queue' = Tail(queue)
  /\ do_eof
  /\ UNCHANGED <<stage, secure, headerReads, bodies, failed, dead, next>>

\* The connection is to be closed: the response stays in the queue.
OnWriteClose ==
  /\ WriteSent
  /\ ~Head(writes).keep
  /\ writes' = Tail(writes)
  /\ do_eof
  /\ UNCHANGED <<stage, secure, headerReads, bodies, queue, failed, dead, next>>

\* Broken variant: the response stays in the queue.
OnWriteNoPop ==
  /\ WriteSent
  /\ Head(writes).keep
  /\ IF Len(queue) >= QueueLimit THEN do_read ELSE UNCHANGED headerReads
  /\ writes' = DoWrite(queue, Tail(writes))
  /\ UNCHANGED <<stage, secure, bodies, queue, shutdowns, sendShut, failed,
                 dead, next>>

\* Broken variant: does not go on with the next response.
OnWriteNoLoop ==
  /\ WriteSent
  /\ Head(writes).keep
  /\ IF Len(queue) >= QueueLimit THEN do_read ELSE UNCHANGED headerReads
  /\ queue' = Tail(queue)
  /\ writes' = Tail(writes)
  /\ UNCHANGED <<stage, secure, bodies, shutdowns, sendShut, failed, dead, next>>

\* Resume the read if it was paused at the limit, pop, write the next one.
OnWriteKeep ==
  /\ WriteSent
  /\ Head(writes).keep
  /\ IF Len(queue) >= QueueLimit THEN do_read ELSE UNCHANGED headerReads
  /\ queue' = Tail(queue)
  /\ writes' = DoWrite(queue', Tail(writes))
  /\ UNCHANGED <<stage, secure, bodies, shutdowns, sendShut, failed, dead, next>>

OnWriteError ==
  /\ Drives
  /\ writes # <<>>
  /\ writes' = Tail(writes)
  /\ failed' = TRUE
  /\ UNCHANGED <<stage, secure, headerReads, bodies, queue, shutdowns,
                 sendShut, dead, next, answered>>

\* An operation outstanding on an SSL stream when it was moved away works on
\* the engine of the moved-from stream, which is undefined.
OnMovedEngine ==
  /\ stage = "released"
  /\ secure
  /\ writes # <<>> \/ shutdowns > 0
  /\ stage' = "undefined"
  /\ UNCHANGED <<secure, headerReads, bodies, queue, writes, shutdowns,
                 sendShut, failed, dead, next, answered>>

\* Broken variant: completes a shutdown that was never started.
OnShutdownTwice ==
  /\ stage = "serving"
  /\ shutdowns' = shutdowns - 1
  /\ UNCHANGED <<stage, secure, headerReads, bodies, queue, writes, sendShut,
                 failed, dead, next, answered>>

\* ssl_http_session::on_shutdown.
OnShutdown ==
  /\ stage = "serving"
  /\ shutdowns > 0
  /\ shutdowns' = shutdowns - 1
  /\ UNCHANGED <<stage, secure, headerReads, bodies, queue, writes, sendShut,
                 failed, dead, next, answered>>

-----------------------------------------------------------------------------
(* The environment.                                                        *)

Outstanding ==
  \/ stage \in {"detect", "handshake"}
  \/ headerReads > 0
  \/ bodies # <<>>
  \/ writes # <<>>
  \/ shutdowns > 0

\* The 30 second timer fires, or the peer resets the connection.
ConnectionLost ==
  /\ stage \in {"detect", "handshake", "serving"}
  /\ Outstanding
  /\ ~dead
  /\ dead' = TRUE
  /\ failed' = TRUE
  /\ UNCHANGED <<stage, secure, headerReads, bodies, queue, writes, shutdowns,
                 sendShut, next, answered>>

\* A handler returns without having started anything and no operation holds a
\* reference to the session: it is destroyed, and its socket, unless it was
\* moved away, is closed.
Destroy ==
  /\ stage = "serving"
  /\ ~Outstanding
  /\ stage' = "ended"
  /\ UNCHANGED <<secure, headerReads, bodies, queue, writes, shutdowns,
                 sendShut, failed, dead, next, answered>>

Terminated ==
  /\ \/ stage \in {"ended", "undefined"}
     \/ stage = "released" /\ ~Outstanding
  /\ UNCHANGED vars

OnReadStep ==
  \/ \E kind \in Kind, keep \in BOOLEAN : OnRequest(kind, keep)
  \/ OnReadEof
  \/ OnReadError

OnBodyStep == OnBody \/ OnBodyError

OnWriteStep == OnWriteClose \/ OnWriteKeep \/ OnWriteError \/ OnMovedEngine

Next ==
  \/ OnRun \/ OnDetect \/ OnHandshake \/ StartFails
  \/ OnReadStep \/ OnBodyStep \/ OnWriteStep \/ OnShutdown
  \/ ConnectionLost \/ Destroy \/ Terminated

\* Every operation that is outstanding completes, with an error at the
\* latest when its 30 second timer fires.
Fairness ==
  /\ WF_vars(OnRun)
  /\ WF_vars(OnDetect \/ OnHandshake \/ StartFails)
  /\ WF_vars(OnReadStep)
  /\ WF_vars(OnBodyStep)
  /\ WF_vars(OnWriteStep)
  /\ WF_vars(OnShutdown)
  /\ WF_vars(Destroy)

Spec == Init /\ [][Next]_vars

FairSpec == Spec /\ Fairness

-----------------------------------------------------------------------------
(* Properties.                                                             *)

\* At most one operation reads the connection: on_read of the upload
\* handler, which continues the read loop, and on_write, which resumes it
\* when the queue was full, never both start one.
OneReader == headerReads + Len(bodies) <= 1

\* At most one response is being written, and it is the front of the queue
\* (do_write "should not be called when write_loop is already active").
OneWriter ==
  /\ Len(writes) <= 1
  /\ writes # <<>> => queue # <<>> /\ Head(writes).req = Head(queue).req

\* The response queue never outgrows queue_limit.
QueueBounded == Len(queue) <= QueueLimit

\* Responses leave in the order of the requests, none skipped or repeated.
AnsweredInOrder == \A i \in 1..Len(answered) : answered[i] = i

\* A session that hands its stream over has no read outstanding on it: the
\* new owner is the only reader.
HandOverLeavesNoReader ==
  stage = "released" => headerReads = 0 /\ bodies = <<>>

\* A queued response is sent in the end, unless an operation failed, the
\* session closed its side first or gave the stream away.
ResponsesAreSent ==
  \A r \in 1..MaxRequests :
    (\E i \in 1..Len(queue) : queue[i].req = r)
      ~> \/ \E i \in 1..Len(answered) : answered[i] = r
         \/ failed \/ sendShut \/ stage \in {"released", "undefined"}

\* Once the session has shut its side and nothing is being written, nothing
\* ever is: the response that closed the connection stays at the front of
\* the queue, so that what an upload still queues does not start a write.
NothingWrittenAfterClose ==
  [][sendShut /\ writes = <<>> => writes' = <<>>]_vars

\* on_read: "If we aren't at the queue limit, try to pipeline another
\* request"; on_write: "Resume the read if it has been paused".  A session
\* ends only when a side closed it, something failed or it was handed over.
KeepAliveGoesOn == stage = "ended" => sendShut \/ failed

\* on_read: "transferring ownership of both the socket and the HTTP
\* request": a session that has given its stream away has no write of its
\* own in progress on it, between the bytes of the new owner.
OwnershipTransferred == stage = "released" => writes = <<>>
=============================================================================
