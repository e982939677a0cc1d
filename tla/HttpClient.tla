----------------------------- MODULE HttpClient -----------------------------
(***************************************************************************)
(* The HTTP client: ClientPoolSsl with its io_context and threads, the     *)
(* sessions it creates, plain (session) and SSL (session_ssl), and the     *)
(* program that uses them as the tests do                                  *)
(* (apps/http_server_async_include/http_client_async.hpp).                 *)
(*                                                                         *)
(* An asynchronous operation completes at some moment; its handler then    *)
(* waits for a thread of the pool and, in a plain session, for the strand  *)
(* it is bound to.  A handler's effects happen when it begins; until it    *)
(* ends its thread, and its strand, are taken.                             *)
(***************************************************************************)
EXTENDS Integers, FiniteSets

CONSTANTS
  Session,   \* the sessions the program creates
  Secure,    \* those made by createSessionSsl
  Worker,    \* the pool's threads
  None       \* no session

ASSUME NoneIsNoSession == None \notin Session

ASSUME SecureSessions == Secure \subseteq Session

ASSUME WorkersExist == IsFiniteSet(Worker) /\ Worker # {}

VARIABLES
  op,        \* of each session: the outstanding operation
  done,      \* of each session: that operation's outcome, if it is complete
  promise,   \* of each session: response_promise_
  thread,    \* of each worker: not created, in ioc.run(), returned from it
  running,   \* of each worker: the handler it is in
  stopped,   \* the io_context has been stopped
  blocking,  \* the argument of start
  starter,   \* where start is
  pc,        \* where the program is: the pool is new, used, or destroyed
  waiting    \* the session whose future the program waits for

vars == <<op, done, promise, thread, running, stopped, blocking,
          starter, pc, waiting>>

session == <<op, done, promise>>

pool == <<thread, running, stopped, blocking, starter>>

Op == {"resolve", "connect", "handshake", "write", "read", "shutdown"}

NoHandler == [of |-> None, on |-> "none"]

TypeOK ==
  /\ op \in [Session -> Op \cup {"none", "over"}]
  /\ done \in [Session -> {"no", "ok", "error"}]
  /\ promise \in [Session -> {"unset", "value", "exception"}]
  /\ thread \in [Worker -> {"none", "run", "exited"}]
  /\ running \in [Worker -> [of : Session \cup {None}, on : Op \cup {"none"}]]
  /\ stopped \in BOOLEAN
  /\ blocking \in BOOLEAN
  /\ starter \in {"none", "spawning", "joining", "returned"}
  /\ pc \in {"new", "up", "destroyed"}
  /\ waiting \in Session \cup {None}

Init ==
  /\ op = [s \in Session |-> "none"]
  /\ done = [s \in Session |-> "no"]
  /\ promise = [s \in Session |-> "unset"]
  /\ thread = [w \in Worker |-> "none"]
  /\ running = [w \in Worker |-> NoHandler]
  /\ stopped = FALSE
  /\ blocking \in BOOLEAN
  /\ starter = "none"
  /\ pc = "new"
  /\ waiting = None

-----------------------------------------------------------------------------
(* The pool.  A blocking start runs on a thread of its own, which the      *)
(* program joins before it destroys the pool.                              *)

StartPool ==
  /\ pc = "new"
  /\ pc' = "up"
  /\ starter' = "spawning"
  /\ UNCHANGED <<session, thread, running, stopped, blocking, waiting>>

\* emplace_back of one thread, which calls ioc.run().
Spawn(w) ==
  /\ starter = "spawning"
  /\ thread[w] = "none"
  /\ thread' = [thread EXCEPT ![w] = "run"]
  /\ UNCHANGED <<session, running, stopped, blocking, starter, pc, waiting>>

\* The second loop of start: join every thread, or detach every thread.
Spawned ==
  /\ starter = "spawning"
  /\ \A w \in Worker : thread[w] # "none"
  /\ starter' = IF blocking THEN "joining" ELSE "returned"
  /\ UNCHANGED <<session, thread, running, stopped, blocking, pc, waiting>>

\* Broken variant: joins only the first thread that ends.
JoinedAny ==
  /\ starter = "joining"
  /\ \E w \in Worker : thread[w] = "exited"
  /\ starter' = "returned"
  /\ UNCHANGED <<session, thread, running, stopped, blocking, pc, waiting>>

Joined ==
  /\ starter = "joining"
  /\ \A w \in Worker : thread[w] = "exited"
  /\ starter' = "returned"
  /\ UNCHANGED <<session, thread, running, stopped, blocking, pc, waiting>>

\* Broken variant: returns only when every session is over.
RunReturnsDrained(w) ==
  /\ thread[w] = "run"
  /\ running[w] = NoHandler
  /\ stopped
  /\ \A s \in Session : op[s] = "over"
  /\ thread' = [thread EXCEPT ![w] = "exited"]
  /\ UNCHANGED <<session, running, stopped, blocking, starter, pc, waiting>>

\* A stopped io_context makes run() return; the work guard makes it wait for
\* more work otherwise.
RunReturns(w) ==
  /\ thread[w] = "run"
  /\ running[w] = NoHandler
  /\ stopped
  /\ thread' = [thread EXCEPT ![w] = "exited"]
  /\ UNCHANGED <<session, running, stopped, blocking, starter, pc, waiting>>

\* The program goes on at once beside a blocking start, after any other.
Free ==
  /\ pc = "up"
  /\ waiting = None
  /\ blocking \/ starter = "returned"

stop ==
  /\ Free
  /\ stopped' = TRUE
  /\ UNCHANGED <<session, thread, running, blocking, starter, pc, waiting>>

DestroyPool ==
  /\ Free
  /\ stopped
  /\ starter = "returned"
  /\ pc' = "destroyed"
  /\ UNCHANGED <<session, pool, waiting>>

-----------------------------------------------------------------------------
(* The sessions.                                                           *)

\* run: SSL_set_tlsext_host_name may fail and end the session at once.
Run(s) ==
  /\ Free
  /\ op[s] = "none"
  /\ \/ op' = [op EXCEPT ![s] = "resolve"]
     \/ s \in Secure /\ op' = [op EXCEPT ![s] = "over"]
  /\ UNCHANGED <<done, promise, pool, pc, waiting>>

\* The operation a session's handler starts after a success.
Following(s, o) ==
  CASE o = "resolve"                    -> "connect"
    [] o = "connect" /\ s \in Secure    -> "handshake"
    [] o = "connect" /\ s \notin Secure -> "write"
    [] o = "handshake"                  -> "write"
    [] o = "write"                      -> "read"
    [] o = "read" /\ s \in Secure       -> "shutdown"
    [] OTHER                            -> "over"

\* The operation completes: the network answers, or a timer fires.
Completes(s) ==
  /\ pc = "up"
  /\ op[s] \in Op
  /\ done[s] = "no"
  /\ \E r \in {"ok", "error"} : done' = [done EXCEPT ![s] = r]
  /\ UNCHANGED <<op, promise, pool, pc, waiting>>

\* A plain session has two strands, one for its resolver and one for its
\* stream; an SSL session has none.
SameStrand(s, o, p) ==
  s \notin Secure /\ ((o = "resolve") <=> (p = "resolve"))

MayRun(w, s) ==
  /\ thread[w] = "run" /\ running[w] = NoHandler
  /\ ~stopped
  /\ \A v \in Worker :
       running[v].of = s => ~SameStrand(s, running[v].on, op[s])

Begin(w, s) ==
  /\ MayRun(w, s)
  /\ running' = [running EXCEPT ![w] = [of |-> s, on |-> op[s]]]
  /\ done' = [done EXCEPT ![s] = "no"]
  /\ UNCHANGED <<thread, stopped, blocking, starter, pc, waiting>>

\* on_resolve, on_connect, on_handshake, on_write: start the next operation.
OnStep(w, s) ==
  /\ op[s] \in {"resolve", "connect", "handshake", "write"}
  /\ done[s] = "ok"
  /\ Begin(w, s)
  /\ op' = [op EXCEPT ![s] = Following(s, op[s])]
  /\ UNCHANGED promise

\* Their error path only logs.
OnStepError(w, s) ==
  /\ op[s] \in {"resolve", "connect", "handshake", "write"}
  /\ done[s] = "error"
  /\ Begin(w, s)
  /\ op' = [op EXCEPT ![s] = "over"]
  /\ UNCHANGED promise

\* Broken variant: reports an error like the other handlers do.
OnReadLogs(w, s) ==
  /\ op[s] = "read"
  /\ done[s] # "no"
  /\ Begin(w, s)
  /\ IF done[s] = "ok"
     THEN /\ promise' = [promise EXCEPT ![s] = "value"]
          /\ op' = [op EXCEPT ![s] = Following(s, "read")]
     ELSE /\ UNCHANGED promise
          /\ op' = [op EXCEPT ![s] = "over"]

\* on_read keeps the promise, one way or the other.
OnRead(w, s) ==
  /\ op[s] = "read"
  /\ done[s] # "no"
  /\ Begin(w, s)
  /\ IF done[s] = "ok"
     THEN /\ promise' = [promise EXCEPT ![s] = "value"]
          /\ op' = [op EXCEPT ![s] = Following(s, "read")]
     ELSE /\ promise' = [promise EXCEPT ![s] = "exception"]
          /\ op' = [op EXCEPT ![s] = "over"]

\* on_shutdown of an SSL session only logs.
OnShutdown(w, s) ==
  /\ op[s] = "shutdown"
  /\ done[s] # "no"
  /\ Begin(w, s)
  /\ op' = [op EXCEPT ![s] = "over"]
  /\ UNCHANGED promise

\* The handler returns to ioc.run().
End(w) ==
  /\ running[w] # NoHandler
  /\ running' = [running EXCEPT ![w] = NoHandler]
  /\ UNCHANGED <<session, thread, stopped, blocking, starter, pc, waiting>>

\* get_response_future().get().
Get(s) ==
  /\ Free
  /\ op[s] # "none"
  /\ waiting' = s
  /\ UNCHANGED <<session, pool, pc>>

GetReturn ==
  /\ waiting # None
  /\ promise[waiting] # "unset"
  /\ waiting' = None
  /\ UNCHANGED <<session, pool, pc>>

-----------------------------------------------------------------------------

Handle(w, s) ==
  OnStep(w, s) \/ OnStepError(w, s) \/ OnRead(w, s) \/ OnShutdown(w, s)

\* The program may also wait for ever, or have nothing left to do.
Idle ==
  /\ pc = "destroyed" \/ waiting # None
  /\ UNCHANGED vars

Next ==
  \/ StartPool \/ Spawned \/ Joined \/ stop \/ DestroyPool
  \/ \E w \in Worker : Spawn(w) \/ RunReturns(w) \/ End(w)
  \/ \E s \in Session : Run(s) \/ Completes(s) \/ Get(s)
  \/ \E w \in Worker, s \in Session : Handle(w, s)
  \/ GetReturn
  \/ Idle

Spec == Init /\ [][Next]_vars

\* Threads run, operations complete (the resolver gives up, every stream
\* operation has a 30 second timer) and a kept promise wakes its waiter.
Fairness ==
  /\ \A w \in Worker :
       WF_vars(Spawn(w)) /\ WF_vars(RunReturns(w)) /\ WF_vars(End(w))
  /\ WF_vars(Spawned) /\ WF_vars(Joined)
  /\ \A s \in Session :
       /\ WF_vars(Completes(s))
       /\ SF_vars(\E w \in Worker : Handle(w, s))
  /\ WF_vars(GetReturn)

FairSpec == Spec /\ Fairness

-----------------------------------------------------------------------------
(* Properties.                                                             *)

\* A program that starts the pool blocking, stops it, joins the starting
\* thread and destroys the pool, as the test HTTP_BLOCK does, has no thread
\* left in ioc.run() on a destroyed io_context.
BlockingStartWaits ==
  pc = "destroyed" /\ blocking => \A w \in Worker : thread[w] = "exited"

\* stop always gets a blocking start to return, whatever the sessions are
\* doing and however many threads are inside handlers or not yet running.
StopEndsStart == stopped /\ starter = "joining" ~> starter = "returned"

\* A request that was sent is answered: once its response is being read on
\* a pool that is not stopped, the wait for it ends, errors included.
ReadEndsTheWait ==
  \A s \in Session :
    (waiting = s /\ op[s] = "read" /\ ~stopped) ~> waiting # s

\* The tests wait for a session's response without a timeout: every such
\* wait on a running pool ends.
EveryGetReturns ==
  \A s \in Session : (waiting = s /\ ~stopped) ~> waiting # s
=============================================================================
