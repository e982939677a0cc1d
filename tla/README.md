# TLA+ verification of learning-cxx

The repository is a collection of C++ network programs: an HTTP server built on
Boost.Beast that also serves uploads, upgrades to WebSocket and proxies
connections, an HTTP client with a thread pool, a background task queue, and a
small TCP proxy. This directory holds TLA+ models of the parts with behaviour
of their own, the TLC configurations that check them, and TLAPS proofs.

Paths below are relative to the repository; `include/` stands for
`apps/http_server_async_include/`.

## The system

| Component | Code | State it keeps | Operations | Module |
|---|---|---|---|---|
| Task queue | `include/dic_task.hpp` | queue, mutex, condition variable, stop flag, worker, map of futures | `add_task`, `run_command_async`, `query_task_result`, `get_task_result`, destructor, `process_tasks` | `TaskQueue` |
| HTTP connection | `include/http_session.hpp`, `server_async.h` (detect_session) | stream, parser, response queue, outstanding operations | detection, handshake, read loop, write loop, close, hand-over | `HttpSession`, `Connection` |
| Request dispatch, file handlers | `include/http_server_async.hpp`, `handler_file.hpp`, `http_handler*.hpp`, `string_util.hpp` | the files | choice of handler and response, path segments; upload and download of a file | `Dispatch`, `FileTransfers` |
| WebSocket echo | `include/socket_session.hpp` | stream, one buffer | accept, read, echo | `WebSocketSession`, `Connection` |
| Tunnels | `include/socket_copier.h`, `http_copier.h` | two sockets, one buffer for each direction | resolve, connect, greeting, `write_unconsumed`, `do_relay`, `do_eof` | `Tunnel`, `Relay` |
| Server | `include/server_async.h` | io_context, acceptor, signal set, threads | `start`, `stop`, the accept loop, signals | `HttpServer`, `FileTransfers` |
| HTTP client | `include/http_client_async.hpp` | io_context, work guard, threads; sessions with a promise each | pool `start`, `stop`, destruction; session `run` and its handlers | `HttpClient` |
| TCP proxy | `asio-server/server-async-simple.*`, `apps/proxy-server.cpp` | acceptor; for each connection two sockets, two buffers, a request buffer | accept, connect, both directions, `cleanup` | `TcpProxy`, `Relay` |

How they interact. `HttpServer` runs the io_context; its listener gives every
accepted socket a strand and a `detect_session`, which becomes a plain or SSL
session (`HttpSession`). A session calls the request handlers, which call back
into it (`queue_write`, `do_eof`, `continue_read_if_needed`). Three kinds of
request end the session and move its stream away: an upgrade, to a WebSocket
session (`WebSocketSession`); CONNECT and absolute targets, to a copier
(`Tunnel`). The session object lives on while it has operations outstanding, so
that two owners may be on one stream (`Connection`). Connections share nothing but
the io_context and the files: all uploads go to one, which the file handler serves
like any other (`FileTransfers`). `HttpClient` and
`TcpProxy` are programs of their own. `TaskQueue` is independent of all of them.

Where it is hard: a notification sent after the unlock and a destructor that
must drain what running tasks still submit; two places that start the next read
and two that start the next write of a connection; a limit at which reading
pauses; streams moved while operations on them are outstanding; half-closed and
lost connections in the relays; threads joined, detached and stopped from
several sides; promises that only some error paths keep; requests that arrive in
any segmentation; one file that several connections truncate, write and send.

What makes each correct:

- Task queue: first in first out, nothing lost by the destructor, no lost
  wakeup, no wait that nobody ends; as a whole, a serial executor.
- Connection: one reader, one writer, responses in request order, a bounded
  queue, every queued response sent, nothing after the one that closes, a single
  owner of the stream.
- Dispatch: HEAD answered with the head of GET's response, responses with the
  body their head announces, segments that are the names between the slashes.
- WebSocket: every message echoed once, in order, unmixed and in its mode.
- Files: a lone upload stays as it was sent until the next; no transfer hangs.
- Tunnel: both streams in order, after the greeting and from the first byte;
  the end of the remote's stream passed on after its data; no copier left over.
  As a whole, a relay of two ordered streams.
- Server: `start` returns, and only when no thread runs; accept errors do not
  end the accept loop.
- Client: `start` returns after `stop` and only when the threads have left; a
  wait for a response ends.
- Proxy: requests and answers unchanged and in order, and where requests are
  rewritten, nothing of theirs out of order, repeated or forgotten; a failure on
  one side releases both.

## Modules

**`TaskQueue`** is written at the level of the mutex: taking it, pushing,
releasing it and notifying, testing the predicate, sleeping, waking and running
are separate actions, and so are the steps of the destructor. `pc` says where
each thread is in a call, `wpc` where the worker is in `process_tasks`, `state`
holds what a task's future holds. `Producer` threads and running tasks may call
`add_task`; only the client uses the map, because `task_results` is not
protected by the mutex and a race on it has no defined outcome. Commands may
return or throw. A closure passed to `add_task` that throws is not modelled: it
ends the program. Tasks terminate. `pushed` is a history variable.

**`SerialExecutor`** is what a queue with one worker promises: accepted tasks
finish one at a time and in order, and it closes only when all have finished.
`TaskQueue` implements it under the mapping `accepted <- pushed`, `ran <-` the
number of popped tasks that have finished, `open <-` the destructor has not
returned.

**`HttpSession`** models one connection. All of its handlers run on one strand,
so a completion handler is one action, with every call it makes: `OnRequest` is
`on_read` with the handler it dispatches to, `OnBody` the upload handler's
`on_read` with `queue_write` and `continue_read_if_needed`, `OnWriteKeep` and
`OnWriteClose` the two ends of `on_write`. Outstanding operations are counted
(`headerReads`, `bodies`, `writes`, `shutdowns`), so that two reads or two
writes at a time would be seen. Requests differ in what the code does with them
(`Kind`). A stream that was moved
from stays usable as a closed stream if it is plain; an operation outstanding on
a moved SSL engine is undefined (stage `"undefined"`).

**`Dispatch`** has no state: `Route` is what `on_read` and `handler::operator()`
choose, `handle_request` the response of `FileRequestHandler` for each outcome of
opening the file, with one operator for each place that builds one: a response is its
status, the length it announces, the body that follows and whether the connection is
kept. The three error messages call `prepare_payload`; `HeadOfFile` and `GetOfFile` each
set the length by hand, HEAD's without a body. `next_segment` and `all_segments` the string helpers. A path is
a sequence of characters, in which a name without dots or slashes is one. A call of
`next_segment` that leaves its position alone would loop for ever; `Forever` stands
for that. `Outcomes` is what a session can be told to do and whether it goes on: after a
file request as the response of `handle_request` says, after an upload only with an
explicit `Connection: keep-alive`.

**`WebSocketSession`** is the echo loop. Messages are numbered and either text or
not; `buffer` holds the numbers of the messages in `buffer_`, so that an echo of two
messages, or of none, would be seen.

**`Connection`** composes the three on one stream. `Upgrade` is `on_read` for an
upgrade request together with `make_websocket_session`'s `do_accept`; all other
steps of the session leave the WebSocket alone and the other way around. Requests
are those that `Dispatch` yields.

**`Relay`** is the abstract specification of a proxied connection: two streams, each
passed on once, in order and without gaps, each with an end that comes after
all of it unless a connection broke or the other direction ended first. `Tunnel` and
`TcpProxy` (with `debug_mode` off) implement it. A CONNECT tunnel may lack the
head of the client's stream (`headless`), see `TunnelBuffer.cfg`.

**`Tunnel`** models both copiers, plain and SSL. A chunk is what one
`async_read_some` returned, numbered by its sender. `op` is the outstanding
operation of each direction. A write to the client that starts after `do_eof`
fails (`"doomed"`); one already outstanding may succeed or not. The 200 reply
is a temporary string, destroyed before the write is complete, so on a plain
socket it may arrive garbled (`greeted`). `url_view` throws for a target it
cannot parse and nothing catches it (stage `"thrown"`).

**`HttpServer`** models `start`, `stop` and the listener. `joining` and `at` put
`start` and `stop` at places in their join loops, because both join the same
threads. Handlers are atomic: `listener` works on one strand and the others only
touch connections. `stop` is called once the server is up, as the test does.

**`FileTransfers`** composes `HttpServer` with what its connections do to
`upload_tmp_file`. A part of a body names its upload and its place in it; every
open file has its own offset, a write behind the end leaves a hole, and opening for
an upload truncates. A download captures the size when it opens the file; if the
file is truncated later the response cannot be completed and the session ends
(`CutOffDownload`, for which a client that is gone or stalls is a reason too, as it is for
`CutOffUpload`). `alone` and `stored` are history: which transfers had the file to
themselves and what it is to hold.

**`HttpClient`** models the pool, sessions and the program around them (run,
get, stop, join, destroy, as in `gtest/client_async_test.cpp`). A handler takes
its thread, and in a plain session its strand, from `Begin` to `End`; its
effects happen at its beginning, which is the earliest that others can see them.

**`TcpProxy`** models the accept loop and one connection. One thread runs the
io_context. The client's stream is a sequence of pieces that no read separates: parts
of words, blanks, CR and LF. A read returns one or more of them, so it may end inside a
line, inside a word or between a CR and its LF. Without `debug_mode` data is passed on.
With it, `request_buffer` grows until it has an empty line, and `parse_http_request`
makes of it what the code does: `RequestLine`, three words of the buffer's first line
with one space each between them, whatever that line is and however many words it has;
`OtherLines`, each with its own CR and then CR LF, the last one also if its end was not
read; and an empty line. What the proxy adds has number 0.

The `MC...` modules are the instances TLC checks; `QueueFacts` holds facts about
sequences for the proofs, and that a set of natural numbers has a least one; the `...Proofs` modules hold the theorems. Operators
marked "Broken variant" are the bugs each property is tested against; no
specification uses them.

## Runs

Runs that pass:

| Configuration | Instance | Shows |
|---|---|---|
| `TaskQueue.cfg` | 2 commands, 1 closure, 2 identifiers, 1 producer; 76,266 states | `TypeOK`, `CompletedInOrder`, `NoLostWakeup`, `NothingLost`, `GetIsServed`, `ImplementsExecutor`; under fairness `GetReturns`, `DestructorReturns`, `AcceptedRuns` |
| `Connection.cfg` | queue limit 3, 6 requests, 2 messages, 365 paths; 28,076 states | `ConnectionTypeOK`, `OneWriter`, `QueueBounded`, `AnsweredInOrder`, `HandOverLeavesNoReader`, `OneReaderOfStream`, `EchoesAreFaithful`, `SegmentsAreTheNames`, `HeadMatchesGet`, `NothingWrittenAfterClose`; under fairness `ResponsesAreSent`, `EveryMessageIsEchoed` |
| `Tunnel.cfg` | 3 chunks from each peer, up to 2 early; 156,428 states | `GreetingComesFirst`, `EndIsPassedOn`, `ImplementsRelay`; under fairness `RemoteLossEndsTunnel`, `OnlyRemoteKeepsTunnel` |
| `FileTransfers.cfg` | 2 threads beside `start`'s, 2 connections, 2 uploads of up to 2 parts, 1 download; 352,181 states | `ReturnsQuiet`, `UploadIsStored`, `DownloadIsWhole`; under fairness `SignalEndsStart`, `ListenerGoesOn`, `TransfersEnd` |
| `HttpClient.cfg` | a plain and an SSL session, 2 threads; 187,492 states | `BlockingStartWaits`; under fairness `StopEndsStart`, `ReadEndsTheWait` |
| `TcpProxy.cfg` | 16 pieces, read in any division: a blank request, a line of four words, the end of another request; 1 chunk back; 728,692 states | `InOrder`, `NothingForgotten`, `RemoteIsDelivered`, `ImplementsRelay`; under fairness `CleanupReleases` |

What a run need not check because something it checks, or a theorem, implies it:
the type invariants of `Tunnel`, `TcpProxy`, `HttpClient` and `FileTransfers`, `Fifo`
and `Tunnel`'s `InOrder` are proved; `OneReader` follows from `OneReaderOfStream`.

Runs that find a violation, each of something the repository says of the code:

| Configuration | Property | What the code does |
|---|---|---|
| `HttpSessionKeepAlive.cfg` | `KeepAliveGoesOn` | After a file request nothing reads on: a keep-alive session ends with its first answer (`include/handler_file.hpp:80`; the calls in `http_session.hpp:186` are commented out). |
| `HttpSessionOwner.cfg` | `OwnershipTransferred` | A pipelined upgrade, CONNECT or absolute target after an upload moves the stream while the upload's response is being written (`include/http_session.hpp:105`). |
| `TunnelBuffer.cfg` | `StartsAtTheStart` | `socket_copier` never stores the buffer it is given: bytes sent together with the CONNECT are lost (`include/socket_copier.h:94`). |
| `HttpClientGet.cfg` | `EveryGetReturns` | Errors before the read leave the promise unset (`include/http_client_async.hpp:88`). |
| `HttpServerJoin.cfg` | `JoinsSucceed` | `stop` and `start` join the same threads (`include/server_async.h:286`). |
| `TcpProxyBody.cfg` | `RequestIsForwarded` | In debug mode a body that comes after its header stays in the buffer (`asio-server/server-async-simple.cpp:89`). When it is written after all, its first line is cut to three words (`:36`), and every other line has a second carriage return (`:56`). |

Further disagreements the models contain, without a run of their own:

- `get_task_result` of a command that threw leaves its entry in the map with a
  future that has no state: the next call throws (`dic_task.hpp:82-84`).
- An upload that asked for `Connection: close` still starts the next read; what
  is then read is handled and never answered (`handler_file.hpp:161` against
  `http_session.hpp:242`). `NothingWrittenAfterClose` shows that the answers stay
  behind the closing response. An upload without `Connection: keep-alive` is
  closed also where HTTP/1.1 keeps alive by default (`handler_file.hpp:155`).
- Two uploads at a time write to one file and truncate each other's; both are
  answered 200 (`handler_file.hpp:107`). An upload may also cut off downloads in
  progress.
- A HEAD request that fails is answered with a body (`handler_file.hpp:34`, `:50`).
  `HeadMatchesGet` asks of HEAD that nothing follows the head of a file, and of every
  other response that its length is the body's.
- What the client sends right behind its upgrade request is in the session's
  `buffer_` and is not passed to the WebSocket session (`socket_session.hpp:180`).
  A client that waits for the 101, as it must, never meets this.
- `do_eof` shuts the connection while responses to pipelined requests are queued
  (`http_session.hpp:318`). `ResponsesAreSent` excepts sessions that have shut it, so
  these responses are covered by no property.
- In debug mode `parse_http_request` takes whatever line the buffer begins with for a
  request line, also one of a body: words after the third are lost, several blanks
  become one, an empty line becomes two spaces. Where a read ended inside the last line
  of the buffer, that line is ended there and an empty line follows it
  (`server-async-simple.cpp:36`, `:56`, `:60`). `NothingForgotten` says that nothing
  else is lost of what was read: a word that is neither written nor held was cut off
  behind the third of a line that has three.
- When a client half-closes its tunnel, `do_eof` shuts the other direction and
  the rest of the remote's answer is dropped (`socket_copier.h:70`, `:279`).
- When only the client is lost, a tunnel stays until the remote acts
  (`OnlyRemoteKeepsTunnel` says that nothing else keeps it); a tunnel
  in use is cut by the 30 second deadline the session set, which the copiers
  never renew.
- A detached `ClientPoolSsl` may be destroyed while its threads are in
  `ioc.run()` (`http_client_async.hpp:381`).
- A listener that could not bind accepts on, failing at once each time
  (`server_async.h:128`); the TCP proxy stops accepting after one error
  (`server-async-simple.cpp:236`).

### Bounds, and why they are enough

- `TaskQueue`: each task is submitted at most once. Two commands and a closure,
  from three kinds of thread, fill the queue while another task runs, submit
  from a task during the destructor, and let two futures share an identifier.
  The proofs remove the bound for safety.
- `Connection`: the limit is 8 in the code and 3 here; six requests are enough
  to reach the limit, pause, resume and go on. The proofs hold for every limit
  and every number of requests. Two messages suffice for one to run into the
  next. Paths of up to six characters from slash, dot and a name cover doubled
  and trailing slashes, empty names and names of several parts.
- `Tunnel`: a direction holds one chunk, so three chunks give every combination
  of passed on, in the buffer and still to come; two early ones tell the order
  within the buffer.
- `FileTransfers`: two workers distinguish the first join, a later one and the end
  of the loop. Two uploads of different length show what the
  longer one leaves behind, and with a download every order of the three on two
  connections. A double join needs one worker (`HttpServerJoin.cfg`).
- `HttpClient`: sessions do not interact but for the pool's threads; one of
  each kind on two threads gives both contention and concurrency.
- `TcpProxy`: the stream is short because reads may divide it anywhere, and has what
  `parse_http_request` tells apart: a first line of no words and one of four, with a
  word in two parts, or of one to three when a read ended in it; headers that are
  complete at once, in two reads or together with what follows them; a line that is
  ended or not; and two headers in one buffer. One chunk of the remote's is being
  read, written, or neither. The proofs hold for every stream.

### Fairness, and what justifies it

Threads that have started a step go on with it. The mutex is strongly fair in
`TaskQueue`: spurious wakeups may make the worker take it again and again, and
real mutexes do not starve a thread for ever; spurious wakeups themselves are
never forced. In the asynchronous modules a handler whose operation has
completed is run, and every operation with a deadline completes: sessions and
client streams set 30 seconds, a WebSocket 30 for its handshake and 300 of idling.
A tunnel's read returns what has arrived. In `HttpClient` the choice of which handler a
free thread takes is strongly fair for each session, since asio's queue is first in first
out. Resolving and connecting give up on their own. No peer is ever assumed to
send, to read or to close; no program is assumed to call `stop`; in `TcpProxy`,
which has no timers, only the remote is assumed to take what is written to it.

`TransfersEnd` rests on the deadline more than on anything else: a client may stall at
any point of a transfer, so that what ends it for certain is `CutOffUpload` or
`CutOffDownload`, and the property says that no transfer is in a state in which these
cannot happen.

## Proofs

TLAPS checks every theorem for every value of the constants that satisfies the
modules' assumptions: in `TaskQueue`, that commands and closures are disjoint,
and that `None` and the names of the client and the worker belong to nothing
else; in `HttpSession`, a positive queue limit and a natural number of requests;
in `Dispatch`, that paths are finite sequences of strings that begin with a slash;
elsewhere that bounds are natural
numbers and that `None` is none of the values it stands beside.

`TaskQueueProofs`. The invariants checked by TLC are not inductive alone; they
are proved in layers.

1. `Control` = `TypeOK` and four parts: who holds the mutex at which step
   (`LockHeld`), which thread can be where (`Places`), nothing but a running
   task uses the queue once the destructor has begun (`Closing`), and `stop` is
   set exactly from the destructor's assignment on (`StopSet`). `TypeCorrect`
   follows.
2. `NoLostWakeup` is inductive relative to `Control`: between the predicate and
   sleeping the worker holds the mutex, so a push cannot come between.
   `WakeupsReachTheWorker`.
3. `Order` = every task pushed once (`Distinct`), `Fifo`, which tasks are
   finished, running and queued (`Progress`), every submitted task is in a
   queue, running, finished or in the hands of its submitter (`Accounted`), and
   every entry of the map was submitted (`Futures`). From it `QueueIsFifo`,
   `TasksCompleteInOrder`, `DestructorDrains`, `GetsAreServed` and, about steps,
   `TasksFinishOnce`: what has finished never runs again.
4. `Implementation`: `Spec` implements `SerialExecutor`; a push maps to
   accepting, the end of a task to running it, the end of the join to closing,
   everything else to a stutter.
5. Three theorems from `Control` say what the mutex and the join are for. No two
   threads are between lock and unlock (`MutualExclusion`); the queue and `stop` are
   changed only there (`SharedStateIsLocked`); after the destructor no step of any
   thread touches the object (`NothingAfterDestruction`).
6. Progress. `Waits`: whoever holds the mutex is between lock and unlock, and a
   `get_task_result` waits for a result that nobody has taken. With `Control`,
   `NoLostWakeup` and `Order` it gives `SomebodyGoesOn`: while a call has not returned
   or a task has not finished, some thread has a step it can take, spurious wakeups
   and new calls apart. `DestructorReachesItsJoin` follows the mutex through its
   holders: each of them lets go, and strong fairness of the lock does the rest.

`HttpSessionProofs`. `Inv` = `TypeOK` and: a write is outstanding exactly when
the front of the queue is being sent, with the requests in the queue
consecutive and `answered` just before them (`WriteLoop`); one read at most,
none while the queue is full, and the reader's request newer than all queued
ones (`ReadLoop`); which stages can have operations outstanding (`Stages`).
Reading and writing have to be in one invariant: that `on_write` resumes the
read only when nobody reads depends on the reader having paused at the limit,
and that the queue keeps its limit depends on who reads. From it
`SessionTypeCorrect`, `SingleReader`, `SingleWriter`, `QueueWithinLimit`,
`ResponsesInOrder`, `NoReaderAfterHandOver`. `NothingAfterClose` needs one part more
(`Shut`): once the session has shut its side and writes nothing, either nothing can
be queued any more or the closing response is stuck at the front, which is what
keeps `queue_write` from starting a write. `Accounts` adds up the requests: while
nothing has cut a session off (`Healthy`), those it has read are the ones answered,
those queued behind a write that is going on, and the upload being read, and so
none of them is forgotten (`EveryRequestIsAccountedFor`).

Three theorems bound the two findings about sessions. `NoUpload` says that no body
is being read; a session for which it always holds queues one response at a time and
reads only when none is queued (`Alone`), so it gives its stream away with nothing
being written (`OwnershipWithoutUploads`) and never works on an engine it has moved
(`EngineWithoutUploads`). A session none of whose steps reads the request of a file
has a read outstanding, or a full queue that is being written, until something ends
it (`ReadsOn`): `KeepAliveWithoutFiles`. Each hypothesis is about the requests a
client sends, and all of the session's other behaviour is left to it.

`ConnectionProofs`. `ConnectionImplementsSession`: every step of a connection is
one of its session or a stutter, so the theorems above hold of it. `Owners` (from
the hand-over on the session reads nothing) gives `StreamHasOneReader`; `Echoing`
(the buffer holds exactly the message being written) gives `EchoesFaithful`, and
`Parting` (a session that was not lost ends with all read and all echoed) gives
`NothingUnsaidAtTheClose`.
`StreamIsTheWebSockets` puts `Owners` and `Alone` together: without an upload the
session has no read, write or shutdown outstanding on a stream once it is the
WebSocket session's.

`HeadAnswersLikeGet` and `SegmentsAreNames` are about `Dispatch` alone. The first
compares two branches: `AnswersOfFiles` finds status, length, body and close of each of
the five responses, and then HEAD and GET reach the branch for the same outcome and get
the same head from it. The second is
for paths of every length: `next_segment` finds the name after a run of slashes and
stops at the next slash; the recursive functions behind `all_segments` and behind the
reference definition (collapse the slashes, take what is between them) are unrolled
one position at a time, and were they to disagree there would be a last position
from which they do (`LeastNatural`).

`FileTransfersProofs`. For the server, `StartJoins`: what `start` has joined has
left `ioc.run()`, and it joins only after a stop; with the fact that a join blocks
at the place reached it gives `ServerReturnsQuiet`. `TransfersImplementServer`
carries it over. For the file, `OneUpload` (an upload that is alone has written
exactly its first parts, and none is going on while a stored one is kept) and
`OfStored` give `UploadsAreStored` and `DownloadsAreWhole`. `FileRestsAfterStart`
combines both parts: no handler writes the file after `start` has returned.
`SignalledJoinsSucceed` bounds the finding about joins: as long as nobody calls `stop`,
`start` alone is in the join loop and every element it has joined is behind it
(`JoinedOnce`). `Progressing` (the accept is outstanding from `start` on, whoever
served a connection still runs, no thread is missing when the joins begin) says what
things wait for: a stopped server has a next step until `start` has ended
(`StoppedServersComeDown`), a client in the backlog has a listener that accepts
(`ClientsHaveAListener`), an unfinished transfer a thread to go on with it
(`TransfersAreServed`). These are the safety halves of `SignalEndsStart`,
`ListenerGoesOn` and `TransfersEnd`.

`TunnelProofs`. The invariant says which chunk each direction has written last
(`Streaming`: the last one read, or the one before it while that is being
written), what holds before the relay starts, and why a direction has ended
(`Ends`). It gives `StreamsInOrder`, `GreetingIsFirst`, `EndsArePassedOn`, and
`TunnelImplementsRelay`: a completed write maps to passing on a chunk, the end of a
direction to the end of its stream, everything else to sending, finishing, breaking
or a stutter. `NothingEarlyNothingLost` bounds the finding of `TunnelBuffer.cfg`: a
tunnel that is an `http_copier`, or whose client has sent nothing early, passes on the
client's stream from its first chunk (`FirstIsFirst`).
`RemoteLossIsEnough` and `OnlyTheRemoteIsWaitedFor` prove the two liveness properties:
each stage a tunnel can be in after a loss is left for one nearer to the end,
and in the relay both directions end, the shutdowns they started return (at
most two), and the copier is destroyed.

`TcpProxyProofs`. `Upward`: the client's pieces up to some last one are written, and
the rest of those read are pending, as they were sent or, behind `parse_http_request`,
rewritten. `Rewritten` is what can be said of a rewritten part for every stream and
every division of it into reads: it carries each of its words or has cut it off behind
three others (`Carries`, `CutOff`), in order and with the lines kept apart (`Orderly`),
and ends with a line end (so that the next part can follow). `ParsedFacts` proves it
of `parse_http_request`, from facts about the words of a line (`WordFacts`,
`RequestLineFacts`) and about the other lines (`OtherLinesFacts`); `RewrittenConcat`
puts parts together. With `Buffers`, `Downward` and `Closing` this gives `PiecesInOrder`,
`NoWordForgotten`, `RemoteDelivered`, and without `debug_mode` `ProxyImplementsRelay`. It
bounds the finding of `TcpProxyBody.cfg` from both sides: without `debug_mode` the
remote has exactly what was read, as it was sent, whenever the client is read again
(`PlainStreamIsUnchanged`); with it, whatever the stream, no line feed of the client's
arrives and a carriage return before one is followed by another
(`DebugEndsAreDoubled`). After `cleanup` nothing is read or written any more
(`ClosedProxyIsSilent`), each outstanding operation fails, and its handler starts no
other: `CleanupIsEnough`.

`HttpClientProofs`. `ClientTypeCorrect`, and from `Starting` (what `start` has done
by when) `BlockingStartJoins`. `Answers` (a promise is set when the response has been
read and not before) gives `PromisesAreSetOnce` and `OnlyEarlyErrorsLeaveNoAnswer`: the
gets of `HttpClientGet.cfg` that never return are exactly those whose session could not
run or met an error before its read. With `Quiet` (only a thread in `ioc.run()` is in a
handler) `DestroyedPoolIsStill`: after a blocking `start`, nothing of a destroyed pool
moves.

`Handlers` (a handler that runs has been started by its session, by one thread, and shares
its strand with no other that runs) gives `HandlersAreSerial`; `Threads` gives `OnlyEndedSessionsStarveAWait`: what the
client of `get` waits for can go on unless its session is over, and
`OnlyEarlyErrorsLeaveNoAnswer` says which sessions end without an answer.

Liveness. `CleanupIsEnough`, `RemoteLossIsEnough`, `OnlyTheRemoteIsWaitedFor` and
`DestructorReachesItsJoin` are proved from the fairness of their modules, which they
take apart as it stands, and from one more hypothesis each (`FailuresAreHandled`,
`EndsAreHandled`, `StepsArePossible`): that an action is enabled where the formula
to the left of the arrow says its guard holds. The prover treats `ENABLED` as an
unknown and cannot show this. No such action has a guard that the formula
leaves out, and TLC finds each hypothesis true in every state of the instance its
module's run checks. For the first three TLC also checks the property
itself, without the hypothesis. They are the liveness properties whose
argument has a fixed number of stages.

Only model-checked: the other liveness properties. `GetReturns`, `DestructorReturns`,
`AcceptedRuns`, `ResponsesAreSent`, `EveryMessageIsEchoed`, `ReadEndsTheWait` and
`TransfersEnd` need as many stages as there are tasks before the one that is waited for,
responses, messages, handlers or parts; `StopEndsStart` and
`SignalEndsStart` as many as there are threads; and `ListenerGoesOn` the fairness of
one connection out of a quantified formula. The temporal prover has neither induction over
stages nor instantiation. Every invariant and every refinement the
passing runs check is also proved.

## Not modelled

- The path of a file below the document root, MIME types, header fields, the wording of responses, JSON, certificates, logging.
- Proxy handlers (`http_proxy_server_side.hpp`), `connection_session.hpp` and
  `handler_tasks.hpp`, which no program uses, and `handle_request` in
  `http_handler_util.hpp`, an older copy of the file handler that nothing calls.
- `apps/boost_relay.cpp`: a program of its own with two blocking loops for each
  connection. The loops ignore every error and have no exit (`:27`), so the joins
  behind them never return; reading the code shows as much as a model would.
- `asio-server/ssl-server.cpp`, `ssh-server.cpp`, `server.cpp` and
  `asio-client/`: demonstrations. All connections of the SSL server read into its one
  buffer (`ssl-server.cpp:53`), so lines of two clients may mix.
- The PAM module, the benchmark, the language tests, build files and retired
  files: no concurrent or stateful behaviour.

## Plan

Built in this order: `TaskQueue` with `SerialExecutor` and its proofs,
`HttpSession` with its proofs, `Tunnel`, `HttpClient`, `HttpServer`, `TcpProxy`;
then `Relay` and the refinements of it, `WebSocketSession`, `Dispatch` and
`Connection`, `FileTransfers`, and the proofs of all of these.

What could follow: the hand-over to a copier composed with the session as
`Connection` does for WebSockets; and, should `handler_tasks.hpp` come into use, the task queue behind the HTTP server.
