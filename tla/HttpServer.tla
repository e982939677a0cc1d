----------------------------- MODULE HttpServer -----------------------------
(***************************************************************************)
(* HttpServer and its listener (server_async.h): start launches the        *)
(* listener and the threads, runs the io_context itself and joins the      *)
(* threads when it returns; a signal, or stop called from another thread,  *)
(* ends it.                                                                *)
(*                                                                         *)
(* A completion handler is one atomic action of some thread that is in     *)
(* ioc.run().  stop is called once the server is up, as the test does;     *)
(* joining is modelled step by step, because start and stop join the same  *)
(* std::thread objects.                                                    *)
(***************************************************************************)
EXTENDS Integers

CONSTANTS
  Extra,   \* the number of threads start creates: threads - 1
  Conn     \* the connections clients open

ASSUME ExtraIsNatural == Extra \in Nat

Worker == 1..Extra     \* the elements of v

Joiner == {"start", "stop"}

VARIABLES
  acceptor,   \* "closed", "listening", or "broken": set-up failed
  accepting,  \* async_accept is outstanding
  conn,       \* of each connection: not opened, in the backlog, served, over
  thread,     \* of each worker: not created, in ioc.run(), returned from it
  handle,     \* of each element of v: joinable, or already joined
  joining,    \* of each joiner: the worker it is blocked in join on, or 0
  at,         \* of each joiner: the element of v it joins next
  start,      \* where start is
  stopper,    \* where the thread that calls stop is
  stopped,    \* the io_context has been stopped
  signalled   \* SIGINT or SIGTERM has been delivered

vars == <<acceptor, accepting, conn, thread, handle, joining, at, start,
          stopper, stopped, signalled>>

joins == <<handle, joining, at>>

TypeOK ==
  /\ acceptor \in {"closed", "listening", "broken"}
  /\ accepting \in BOOLEAN
  /\ conn \in [Conn -> {"none", "backlog", "served", "over"}]
  /\ thread \in [Worker -> {"none", "run", "exited"}]
  /\ handle \in [Worker -> {"joinable", "joined"}]
  /\ joining \in [Joiner -> 0..Extra]
  /\ at \in [Joiner -> 1..Extra + 1]
  /\ start \in {"new", "spawn", "run", "join", "returned", "thrown"}
  /\ stopper \in {"idle", "join", "returned", "thrown"}
  /\ stopped \in BOOLEAN
  /\ signalled \in BOOLEAN

Init ==
  /\ acceptor = "closed"
  /\ accepting = FALSE
  /\ conn = [c \in Conn |-> "none"]
  /\ thread = [w \in Worker |-> "none"]
  /\ handle = [w \in Worker |-> "joinable"]
  /\ joining = [j \in Joiner |-> 0]
  /\ at = [j \in Joiner |-> 1]
  /\ start = "new"
  /\ stopper = "idle"
  /\ stopped = FALSE
  /\ signalled = FALSE

-----------------------------------------------------------------------------
(* start.                                                                  *)

\* The listener's constructor reports that open, set_option, bind or listen
\* failed and returns; run calls do_accept whatever happened.
Launch ==
  /\ start = "new"
  /\ acceptor' \in {"listening", "broken"}
  /\ accepting' = TRUE
  /\ start' = "spawn"
  /\ UNCHANGED <<conn, thread, joins, stopper, stopped, signalled>>

Spawn(w) ==
  /\ start = "spawn"
  /\ thread[w] = "none"
  /\ \A v \in 1..w - 1 : thread[v] # "none"
  /\ thread' = [thread EXCEPT ![w] = "run"]
  /\ UNCHANGED <<acceptor, accepting, conn, joins, start, stopper, stopped,
                 signalled>>

\* start calls ioc.run() itself.
RunItself ==
  /\ start = "spawn"
  /\ \A w \in Worker : thread[w] # "none"
  /\ start' = "run"
  /\ UNCHANGED <<acceptor, accepting, conn, thread, joins, stopper, stopped,
                 signalled>>

\* The io_context is stopped: start goes on to its joins.
StartRunReturns ==
  /\ start = "run"
  /\ stopped
  /\ start' = "join"
  /\ UNCHANGED <<acceptor, accepting, conn, thread, joins, stopper, stopped,
                 signalled>>

RunReturns(w) ==
  /\ thread[w] = "run"
  /\ stopped
  /\ thread' = [thread EXCEPT ![w] = "exited"]
  /\ UNCHANGED <<acceptor, accepting, conn, joins, start, stopper, stopped,
                 signalled>>

-----------------------------------------------------------------------------
(* The join loops of start and stop.                                       *)

\* The state of joiner j.
Stage(j) == IF j = "start" THEN start ELSE stopper

Becomes(j, s) ==
  IF j = "start" THEN start' = s /\ UNCHANGED stopper
  ELSE stopper' = s /\ UNCHANGED start

\* join of the next element: it throws when the thread is no longer
\* joinable, and blocks otherwise.
Join(j) ==
  /\ Stage(j) = "join"
  /\ joining[j] = 0
  /\ at[j] <= Extra
  /\ IF handle[at[j]] = "joined"
     THEN Becomes(j, "thrown") /\ UNCHANGED joining
     ELSE joining' = [joining EXCEPT ![j] = at[j]] /\ UNCHANGED <<start, stopper>>
  /\ UNCHANGED <<acceptor, accepting, conn, thread, handle, at, stopped,
                 signalled>>

\* The thread has ended.  If another join of it has returned meanwhile, what
\* this one does is undefined: it may return or throw.
Joined(j) ==
  /\ joining[j] # 0
  /\ thread[joining[j]] = "exited"
  /\ joining' = [joining EXCEPT ![j] = 0]
  /\ handle' = [handle EXCEPT ![joining[j]] = "joined"]
  /\ \/ /\ at' = [at EXCEPT ![j] = @ + 1]
        /\ UNCHANGED <<start, stopper>>
     \/ /\ handle[joining[j]] = "joined"
        /\ Becomes(j, "thrown")
        /\ UNCHANGED at
  /\ UNCHANGED <<acceptor, accepting, conn, thread, stopped, signalled>>

\* Broken variant: returns after the first thread.
ReturnsEarly(j) ==
  /\ Stage(j) = "join"
  /\ joining[j] = 0
  /\ at[j] >= Extra
  /\ Becomes(j, "returned")
  /\ UNCHANGED <<acceptor, accepting, conn, thread, joins, stopped, signalled>>

Returns(j) ==
  /\ Stage(j) = "join"
  /\ joining[j] = 0
  /\ at[j] > Extra
  /\ Becomes(j, "returned")
  /\ UNCHANGED <<acceptor, accepting, conn, thread, joins, stopped, signalled>>

\* stop is called from another thread while the server is up.
stop ==
  /\ stopper = "idle"
  /\ start = "run"
  /\ stopped' = TRUE
  /\ stopper' = "join"
  /\ UNCHANGED <<acceptor, accepting, conn, thread, joins, start, signalled>>

\* SIGINT or SIGTERM arrives; signals is waiting for it from before the
\* threads are made.
Signal ==
  /\ start \in {"spawn", "run"}
  /\ ~signalled
  /\ signalled' = TRUE
  /\ UNCHANGED <<acceptor, accepting, conn, thread, joins, start, stopper,
                 stopped>>

-----------------------------------------------------------------------------
(* Handlers, run by the threads in ioc.run().                              *)

Running == ~stopped /\ (start = "run" \/ \E w \in Worker : thread[w] = "run")

\* Broken variant: closes the acceptor and keeps running.
OnSignalClosesOnly ==
  /\ Running
  /\ signalled
  /\ acceptor' = "closed"
  /\ UNCHANGED <<accepting, conn, thread, joins, start, stopper, stopped,
                 signalled>>

\* The signal handler stops the io_context.
OnSignal ==
  /\ Running
  /\ signalled
  /\ stopped' = TRUE
  /\ UNCHANGED <<acceptor, accepting, conn, thread, joins, start, stopper,
                 signalled>>

\* A connection is accepted: a detect_session takes it over, and the
\* listener accepts again.
OnAccept(c) ==
  /\ Running
  /\ accepting
  /\ acceptor = "listening"
  /\ conn[c] = "backlog"
  /\ conn' = [conn EXCEPT ![c] = "served"]
  /\ UNCHANGED <<acceptor, accepting, thread, joins, start, stopper, stopped,
                 signalled>>

\* Broken variant: gives up after an error.
OnAcceptErrorStops ==
  /\ Running
  /\ accepting
  /\ accepting' = FALSE
  /\ UNCHANGED <<acceptor, conn, thread, joins, start, stopper, stopped,
                 signalled>>

\* An error is reported and the listener accepts again.
OnAcceptError ==
  /\ Running
  /\ accepting
  /\ UNCHANGED vars

\* A session ends, in a handler that starts nothing more; HttpSession and
\* Tunnel model what happens before.
SessionEnds(c) ==
  /\ Running
  /\ conn[c] = "served"
  /\ conn' = [conn EXCEPT ![c] = "over"]
  /\ UNCHANGED <<acceptor, accepting, thread, joins, start, stopper, stopped,
                 signalled>>

\* A client connects; nobody can when nothing listens.
Connect(c) ==
  /\ acceptor = "listening"
  /\ conn[c] = "none"
  /\ conn' = [conn EXCEPT ![c] = "backlog"]
  /\ UNCHANGED <<acceptor, accepting, thread, joins, start, stopper, stopped,
                 signalled>>

Terminated ==
  /\ start \in {"returned", "thrown"} \/ stopper = "thrown"
  /\ UNCHANGED vars

Next ==
  \/ Launch \/ RunItself \/ StartRunReturns
  \/ \E w \in Worker : Spawn(w) \/ RunReturns(w)
  \/ \E j \in Joiner : Join(j) \/ Joined(j) \/ Returns(j)
  \/ stop \/ Signal \/ OnSignal
  \/ \E c \in Conn : OnAccept(c) \/ SessionEnds(c) \/ Connect(c)
  \/ OnAcceptError
  \/ Terminated

Spec == Init /\ [][Next]_vars

\* Threads run and ready handlers get a thread.  Sessions may last for ever.
Fairness ==
  /\ WF_vars(Launch) /\ WF_vars(RunItself) /\ WF_vars(StartRunReturns)
  /\ \A w \in Worker : WF_vars(Spawn(w)) /\ WF_vars(RunReturns(w))
  /\ \A j \in Joiner :
       WF_vars(Join(j)) /\ WF_vars(Joined(j)) /\ WF_vars(Returns(j))
  /\ WF_vars(OnSignal)
  /\ \A c \in Conn : WF_vars(OnAccept(c))

FairSpec == Spec /\ Fairness

-----------------------------------------------------------------------------
(* Properties.                                                             *)

\* start returns only when no thread runs a handler any more, so that its
\* caller may destroy the io_context ("Block until all the threads exit").
ReturnsQuiet ==
  start = "returned" => stopped /\ \A w \in Worker : thread[w] = "exited"

\* A server that is stopped by a signal alone returns from start, joins
\* included, whatever its connections are doing.
SignalEndsStart ==
  signalled ~> start = "returned" \/ stopper # "idle"

\* Accept errors do not make the server deaf: every client that connects is
\* served in the end, unless the server is stopped.
ListenerGoesOn ==
  \A c \in Conn : conn[c] = "backlog" ~> conn[c] # "backlog" \/ stopped

\* stop: "Wait for each thread to finish".  Neither stop nor start, which
\* waits for the same threads, ends with an exception.
JoinsSucceed == start # "thrown" /\ stopper # "thrown"
=============================================================================
