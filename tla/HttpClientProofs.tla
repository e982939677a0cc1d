--------------------------- MODULE HttpClientProofs ---------------------------
(***************************************************************************)
(* Proofs about HttpClient for any sessions and threads: its variables     *)
(* keep their types; a program that starts the pool blocking destroys it   *)
(* only when all of its threads have returned, and then nothing of it      *)
(* moves; a promise is set once, and is left unset only by an error        *)
(* before the response is read.  Handlers of one strand never overlap, and *)
(* only a session that is over can leave a get without a step to wait for. *)
(***************************************************************************)
EXTENDS HttpClient, TLAPS

\* start has begun once the program has left "new", it has returned before
\* the pool is destroyed, and if it blocks, after the last thread.
Starting ==
  /\ pc = "new" <=> starter = "none"
  /\ pc = "destroyed" => starter = "returned"
  /\ blocking /\ starter = "returned" => \A w \in Worker : thread[w] = "exited"

Inv == TypeOK /\ Starting

-----------------------------------------------------------------------------

LEMMA InvInit == Init => Inv
<1> SUFFICES ASSUME Init PROVE Inv
  OBVIOUS
<1>1. NoHandler \in [of : Session \cup {None}, on : Op \cup {"none"}]
  BY DEF NoHandler
<1>2. TypeOK
  BY <1>1 DEF Init, TypeOK
<1>3. Starting
  BY DEF Init, Starting
<1> QED
  BY <1>2, <1>3 DEF Inv

\* Steps of the program and of start.
LEMMA ProgramStep ==
  ASSUME Inv,
         \/ StartPool \/ Spawned \/ Joined \/ stop \/ DestroyPool \/ GetReturn
         \/ Idle \/ UNCHANGED vars
  PROVE  Inv'
<1>1. /\ UNCHANGED <<op, done, promise, thread, running, blocking>>
      /\ stopped' \in BOOLEAN
      /\ waiting' \in {waiting, None}
  BY DEF StartPool, Spawned, Joined, stop, DestroyPool, GetReturn, Idle, vars,
     session, pool, Inv, TypeOK
<1>2. /\ starter' \in {"none", "spawning", "joining", "returned"}
      /\ pc' \in {"new", "up", "destroyed"}
      /\ Starting'
  BY DEF StartPool, Spawned, Joined, stop, DestroyPool, GetReturn, Idle, vars,
     session, pool, Inv, TypeOK, Starting
<1>3. TypeOK'
  BY <1>1, <1>2 DEF Inv, TypeOK
<1> QED
  BY <1>2, <1>3 DEF Inv

\* Steps of a thread that are no handler's: its creation, its end, and the
\* end of a handler.
LEMMA ThreadStep ==
  ASSUME Inv, NEW w \in Worker, Spawn(w) \/ RunReturns(w) \/ End(w)
  PROVE  Inv'
<1>1. /\ UNCHANGED <<op, done, promise, stopped, blocking, starter, pc, waiting>>
      /\ \/ thread' = [thread EXCEPT ![w] = "run"] /\ starter = "spawning"
            /\ running' = running
         \/ thread' = [thread EXCEPT ![w] = "exited"] /\ running' = running
         \/ running' = [running EXCEPT ![w] = NoHandler] /\ thread' = thread
  BY DEF Spawn, RunReturns, End, session
<1>2. /\ thread \in [Worker -> {"none", "run", "exited"}]
      /\ running \in [Worker -> [of : Session \cup {None}, on : Op \cup {"none"}]]
      /\ NoHandler \in [of : Session \cup {None}, on : Op \cup {"none"}]
  BY DEF Inv, TypeOK, NoHandler
<1>3. /\ thread' \in [Worker -> {"none", "run", "exited"}]
      /\ running' \in [Worker -> [of : Session \cup {None}, on : Op \cup {"none"}]]
  BY <1>1, <1>2
<1>4. TypeOK'
  BY <1>1, <1>3 DEF Inv, TypeOK
<1>5. starter = "returned" =>
        \A v \in Worker : thread[v] = "exited" => thread'[v] = "exited"
  BY <1>1, <1>2
<1>6. Starting'
  BY <1>1, <1>5 DEF Inv, Starting
<1> QED
  BY <1>4, <1>6 DEF Inv

\* A session starts, its operation completes, or its response is waited for.
LEMMA SessionStep ==
  ASSUME Inv, NEW s \in Session, Run(s) \/ Completes(s) \/ Get(s)
  PROVE  Inv'
<1>1. /\ UNCHANGED <<promise, thread, running, stopped, blocking, starter, pc>>
      /\ waiting' \in {waiting, s}
      /\ \/ op' = op /\ done' = done
         \/ \E o \in {"resolve", "over"} : op' = [op EXCEPT ![s] = o] /\ done' = done
         \/ \E r \in {"ok", "error"} : done' = [done EXCEPT ![s] = r] /\ op' = op
  BY DEF Run, Completes, Get, session, pool
<1>2. /\ op' \in [Session -> Op \cup {"none", "over"}]
      /\ done' \in [Session -> {"no", "ok", "error"}]
  BY <1>1 DEF Inv, TypeOK, Op
<1>3. TypeOK'
  BY <1>1, <1>2 DEF Inv, TypeOK
<1>4. Starting'
  BY <1>1 DEF Inv, Starting
<1> QED
  BY <1>3, <1>4 DEF Inv

\* A handler begins: the operation that follows is one of the session's.
LEMMA HandlerStep ==
  ASSUME Inv, NEW w \in Worker, NEW s \in Session, Handle(w, s)
  PROVE  Inv'
<1>1. /\ Begin(w, s) /\ op[s] \in Op
      /\ \/ op' = [op EXCEPT ![s] = Following(s, op[s])]
         \/ op' = [op EXCEPT ![s] = Following(s, "read")]
         \/ op' = [op EXCEPT ![s] = "over"]
      /\ \/ promise' = promise
         \/ promise' = [promise EXCEPT ![s] = "value"]
         \/ promise' = [promise EXCEPT ![s] = "exception"]
  BY DEF Handle, OnStep, OnStepError, OnRead, OnShutdown, Op
<1>2. /\ Following(s, op[s]) \in Op \cup {"over"}
      /\ Following(s, "read") \in Op \cup {"over"}
  BY DEF Following, Op
<1>3. op' \in [Session -> Op \cup {"none", "over"}]
  <2>1. op \in [Session -> Op \cup {"none", "over"}]
    BY DEF Inv, TypeOK
  <2> QED
    BY <1>1, <1>2, <2>1
<1>4. promise' \in [Session -> {"unset", "value", "exception"}]
  BY <1>1 DEF Inv, TypeOK
<1>5. /\ running' = [running EXCEPT ![w] = [of |-> s, on |-> op[s]]]
      /\ done' = [done EXCEPT ![s] = "no"]
      /\ UNCHANGED <<thread, stopped, blocking, starter, pc, waiting>>
  BY <1>1 DEF Begin
<1>6. /\ running' \in [Worker -> [of : Session \cup {None}, on : Op \cup {"none"}]]
      /\ done' \in [Session -> {"no", "ok", "error"}]
  <2>1. [of |-> s, on |-> op[s]] \in [of : Session \cup {None}, on : Op \cup {"none"}]
    BY <1>1
  <2> QED
    BY <1>5, <2>1 DEF Inv, TypeOK
<1>7. TypeOK'
  BY <1>3, <1>4, <1>5, <1>6 DEF Inv, TypeOK
<1>8. Starting'
  BY <1>5 DEF Inv, Starting
<1> QED
  BY <1>7, <1>8 DEF Inv

LEMMA Invariance == Spec => []Inv
<1>1. Inv /\ [Next]_vars => Inv'
  BY ProgramStep, ThreadStep, SessionStep, HandlerStep DEF Next
<1> QED
  BY <1>1, InvInit, PTL DEF Spec

\* Every variable of the client keeps its type.
THEOREM ClientTypeCorrect == Spec => []TypeOK
<1>1. Inv => TypeOK
  BY DEF Inv
<1> QED
  BY <1>1, Invariance, PTL

\* A pool whose blocking start has been joined is destroyed after its last
\* thread has left ioc.run(), whatever sessions are doing at the time.
THEOREM BlockingStartJoins == Spec => []BlockingStartWaits
<1>1. Inv => BlockingStartWaits
  BY DEF Inv, Starting, BlockingStartWaits
<1> QED
  BY <1>1, Invariance, PTL

-----------------------------------------------------------------------------
(* The promises of the sessions.                                           *)

\* A promise is set when the response has been read, and not before; an SSL
\* session that shuts down has its response.
Answers ==
  \A s \in Session :
    /\ promise[s] # "unset" => op[s] \in {"shutdown", "over"}
    /\ op[s] = "shutdown" => promise[s] = "value"

\* What a step does to the operation and the promise of one session.
LEMMA AnswerStep ==
  ASSUME Inv, Answers, NEW s \in Session, [Next]_vars
  PROVE  /\ promise[s] # "unset" =>
              promise'[s] = promise[s] /\ op'[s] \in {op[s], "over"}
         /\ promise'[s] # "unset" => op'[s] \in {"shutdown", "over"}
         /\ op'[s] = "shutdown" => promise'[s] = "value"
         /\ op'[s] = "over" /\ promise'[s] = "unset" =>
              \/ op[s] = "over"
              \/ Run(s)
              \/ \E w \in Worker : OnStepError(w, s)
<1>1. /\ op \in [Session -> Op \cup {"none", "over"}]
      /\ promise \in [Session -> {"unset", "value", "exception"}]
      /\ promise[s] # "unset" => op[s] \in {"shutdown", "over"}
      /\ op[s] = "shutdown" => promise[s] = "value"
  BY DEF Inv, TypeOK, Answers
<1>2. CASE op'[s] = op[s] /\ promise'[s] = promise[s]
  BY <1>1, <1>2
<1>3. ASSUME NEW r \in Session, Run(r), ~(op'[s] = op[s])
      PROVE  /\ r = s /\ op[s] = "none" /\ op'[s] \in {"resolve", "over"}
             /\ promise'[s] = promise[s]
  BY <1>1, <1>3 DEF Run
<1>4. ASSUME NEW w \in Worker, NEW r \in Session, Handle(w, r),
             ~(op'[s] = op[s] /\ promise'[s] = promise[s])
      PROVE  r = s
  BY <1>1, <1>4 DEF Handle, OnStep, OnStepError, OnRead, OnShutdown
<1>5. ASSUME NEW w \in Worker, OnStep(w, s)
      PROVE  /\ op[s] \in {"resolve", "connect", "handshake", "write"}
             /\ op'[s] \in {"connect", "handshake", "write", "read"}
             /\ promise'[s] = promise[s]
  <2>1. /\ op[s] \in {"resolve", "connect", "handshake", "write"}
        /\ op'[s] = Following(s, op[s]) /\ promise' = promise
    BY <1>1, <1>5 DEF OnStep
  <2>2. Following(s, op[s]) \in {"connect", "handshake", "write", "read"}
    BY <2>1 DEF Following
  <2> QED
    BY <2>1, <2>2
<1>6. ASSUME NEW w \in Worker, OnStepError(w, s)
      PROVE  /\ op[s] \in {"resolve", "connect", "handshake", "write"}
             /\ op'[s] = "over" /\ promise'[s] = promise[s]
  BY <1>1, <1>6 DEF OnStepError
<1>7. ASSUME NEW w \in Worker, OnRead(w, s)
      PROVE  /\ op[s] = "read"
             /\ \/ promise'[s] = "value" /\ op'[s] \in {"shutdown", "over"}
                \/ promise'[s] = "exception" /\ op'[s] = "over"
  <2>1. Following(s, "read") \in {"shutdown", "over"}
    BY DEF Following
  <2> QED
    BY <1>1, <1>7, <2>1 DEF OnRead
<1>8. ASSUME NEW w \in Worker, OnShutdown(w, s)
      PROVE  op[s] = "shutdown" /\ op'[s] = "over" /\ promise'[s] = promise[s]
  BY <1>1, <1>8 DEF OnShutdown
<1>9. CASE \E w \in Worker : Handle(w, s)
  BY <1>1, <1>5, <1>6, <1>7, <1>8, <1>9 DEF Handle
<1>10. CASE \E w \in Worker, r \in Session : Handle(w, r)
  BY <1>2, <1>4, <1>9, <1>10
<1>11. CASE \E r \in Session : Run(r)
  <2>1. promise' = promise
    BY <1>11 DEF Run
  <2> QED
    BY <1>1, <1>2, <1>3, <1>11, <2>1
<1>12. CASE ~(\/ \E r \in Session : Run(r)
              \/ \E w \in Worker, r \in Session : Handle(w, r))
  <2>1. UNCHANGED <<op, promise>>
    BY <1>12
    DEF Next, StartPool, Spawned, Joined, stop, DestroyPool, Spawn, RunReturns,
        End, Completes, Get, GetReturn, Idle, session, vars
  <2> QED
    BY <1>2, <2>1
<1> QED
  BY <1>10, <1>11, <1>12

LEMMA AnswersKept == Inv /\ Answers /\ [Next]_vars => Answers'
BY AnswerStep DEF Answers

LEMMA AnswersInit == Init => Answers
BY DEF Init, Answers

\* A session sets its promise at most once, to a value or to an exception:
\* std::promise would throw in the handler that sets it again.
THEOREM PromisesAreSetOnce ==
  Spec => [][\A s \in Session :
               promise[s] # "unset" => promise'[s] = promise[s]]_vars
<1>1. Inv /\ Answers /\ [Next]_vars
        => [\A s \in Session :
              promise[s] # "unset" => promise'[s] = promise[s]]_vars
  BY AnswerStep
<1>2. Spec => Init /\ [][Next]_vars
  BY DEF Spec
<1> QED
  BY <1>1, <1>2, AnswersInit, AnswersKept, Invariance, PTL

\* A session ends without an answer in two ways only: run could not set the
\* host name, or an operation before the read has failed.  These are the
\* waits without an end HttpClientGet.cfg finds.
THEOREM OnlyEarlyErrorsLeaveNoAnswer ==
  Spec => [][\A s \in Session :
               op'[s] = "over" /\ promise'[s] = "unset" =>
                 \/ op[s] = "over"
                 \/ Run(s)
                 \/ \E w \in Worker : OnStepError(w, s)]_vars
<1> DEFINE A == \A s \in Session :
                  op'[s] = "over" /\ promise'[s] = "unset" =>
                    \/ op[s] = "over"
                    \/ Run(s)
                    \/ \E w \in Worker : OnStepError(w, s)
<1>1. Inv /\ Answers /\ [Next]_vars => [A]_vars
  BY AnswerStep
<1>2. Spec => Init /\ [][Next]_vars
  BY DEF Spec
<1> HIDE DEF A
<1>3. Spec => [][A]_vars
  BY <1>1, <1>2, AnswersInit, AnswersKept, Invariance, PTL
<1> QED
  BY <1>3 DEF A

-----------------------------------------------------------------------------
(* After the pool.                                                         *)

\* Only a thread in ioc.run() is in a handler, and the program that destroys
\* the pool waits for no response.
Quiet ==
  /\ \A w \in Worker : thread[w] # "run" => running[w] = NoHandler
  /\ pc = "destroyed" => waiting = None

LEMMA QuietKept == Inv /\ Quiet /\ [Next]_vars => Quiet'
<1>0. Inv /\ Quiet /\ [Next]_vars => (pc' = "destroyed" => waiting' = None)
  BY DEF Quiet, Next, StartPool, Spawned, Joined, stop, DestroyPool, Spawn,
     RunReturns, End, Run, Completes, Get, GetReturn, Idle, Free, Handle, OnStep,
     OnStepError, OnRead, OnShutdown, Begin, pool, vars
<1> SUFFICES ASSUME Inv, Quiet, [Next]_vars, NEW v \in Worker
             PROVE  thread'[v] # "run" => running'[v] = NoHandler
  BY <1>0 DEF Quiet
<1>1. /\ thread \in [Worker -> {"none", "run", "exited"}]
      /\ DOMAIN running = Worker
      /\ thread[v] # "run" => running[v] = NoHandler
  BY DEF Inv, TypeOK, Quiet
<1>2. CASE \E w \in Worker : Spawn(w) \/ RunReturns(w) \/ End(w)
  BY <1>1, <1>2 DEF Spawn, RunReturns, End
<1>3. CASE \E w \in Worker, s \in Session : Handle(w, s)
  <2>1. PICK w \in Worker, s \in Session : Begin(w, s)
    BY <1>3 DEF Handle, OnStep, OnStepError, OnRead, OnShutdown
  <2> QED
    BY <1>1, <2>1 DEF Begin, MayRun
<1>4. CASE ~(\/ \E w \in Worker : Spawn(w) \/ RunReturns(w) \/ End(w)
             \/ \E w \in Worker, s \in Session : Handle(w, s))
  <2>1. UNCHANGED <<thread, running>>
    BY <1>4
    DEF Next, StartPool, Spawned, Joined, stop, DestroyPool, Run, Completes,
        Get, GetReturn, Idle, pool, vars
  <2> QED
    BY <1>1, <2>1
<1> QED
  BY <1>2, <1>3, <1>4

\* Once a pool that was started blocking is destroyed, nothing of it moves:
\* no handler runs or is still running, whatever operations the sessions had
\* outstanding.
THEOREM DestroyedPoolIsStill ==
  Spec => [][~(blocking /\ pc = "destroyed")]_vars
<1>1. Init => Quiet
  BY DEF Init, Quiet
<1>2. Inv /\ Quiet /\ [Next]_vars => [~(blocking /\ pc = "destroyed")]_vars
  <2> SUFFICES ASSUME Inv, Quiet, Next, blocking, pc = "destroyed"
               PROVE  vars' = vars
    OBVIOUS
  <2>1. /\ starter = "returned"
        /\ \A w \in Worker : thread[w] = "exited" /\ running[w] = NoHandler
        /\ waiting = None
    BY DEF Inv, Starting, Quiet
  <2>2. ~ (StartPool \/ Spawned \/ Joined \/ stop \/ DestroyPool)
    BY <2>1 DEF StartPool, Spawned, Joined, stop, DestroyPool, Free
  <2>3. ASSUME NEW w \in Worker
        PROVE  ~ (Spawn(w) \/ RunReturns(w) \/ End(w))
    BY <2>1 DEF Spawn, RunReturns, End
  <2>4. ASSUME NEW w \in Worker, NEW s \in Session PROVE ~Handle(w, s)
    BY <2>1 DEF Handle, OnStep, OnStepError, OnRead, OnShutdown, Begin, MayRun
  <2>5. ASSUME NEW s \in Session PROVE ~ (Run(s) \/ Completes(s) \/ Get(s))
    BY DEF Run, Completes, Get, Free
  <2>6. ~GetReturn
    BY <2>1 DEF GetReturn
  <2>7. Idle
    BY <2>2, <2>3, <2>4, <2>5, <2>6 DEF Next
  <2> QED
    BY <2>7 DEF Idle
<1>3. Spec => Init /\ [][Next]_vars
  BY DEF Spec
<1> QED
  BY <1>1, <1>2, <1>3, QuietKept, Invariance, PTL

-----------------------------------------------------------------------------
(* The handlers of a session, and the waits for its response.              *)

\* How far an operation is along a session.
Rank(o) == CASE o = "none"      -> 0
             [] o = "resolve"   -> 1
             [] o = "connect"   -> 2
             [] o = "handshake" -> 3
             [] o = "write"     -> 4
             [] o = "read"      -> 5
             [] o = "shutdown"  -> 6
             [] OTHER           -> 7

LEMMA RankFacts ==
  /\ \A o \in Op \cup {"none", "over"} : Rank(o) \in 0..7
  /\ \A o \in Op : Rank(o) < Rank("over") /\ Rank("none") < Rank(o)
  /\ \A s \in Session, o \in Op :
       /\ Following(s, o) \in Op \cup {"over"}
       /\ Rank(o) < Rank(Following(s, o))
BY DEF Rank, Op, Following

\* A session's operations only move on.
LEMMA HandlerMoves ==
  ASSUME Inv, NEW w \in Worker, NEW s \in Session, Handle(w, s)
  PROVE  /\ Begin(w, s) /\ op[s] \in Op
         /\ \E o \in Op \cup {"over"} :
              op' = [op EXCEPT ![s] = o] /\ Rank(op[s]) < Rank(o)
<1>1. /\ Begin(w, s) /\ op[s] \in Op
      /\ \/ op' = [op EXCEPT ![s] = Following(s, op[s])]
         \/ op' = [op EXCEPT ![s] = "over"]
  BY DEF Handle, OnStep, OnStepError, OnRead, OnShutdown, Op
<1> QED
  BY <1>1, RankFacts

\* A handler that runs is one its session has left behind, no other thread is
\* in the same one, and none is in another one of the same strand.
Handlers ==
  /\ \A w \in Worker :
       running[w].of # None =>
         /\ running[w].on \in Op
         /\ Rank(running[w].on) < Rank(op[running[w].of])
  /\ \A w \in Worker : running[w] # NoHandler => running[w].of # None
  /\ \A v, w \in Worker :
       running[v].of # None /\ running[v] = running[w] => v = w
  /\ \A v, w \in Worker :
       /\ running[v].of # None
       /\ running[v].of = running[w].of
       /\ SameStrand(running[v].of, running[v].on, running[w].on)
       => v = w

LEMMA HandlersKept ==
  ASSUME Inv, Handlers, [Next]_vars
  PROVE  Handlers'
<1>0. /\ op \in [Session -> Op \cup {"none", "over"}]
      /\ running \in [Worker -> [of : Session \cup {None}, on : Op \cup {"none"}]]
      /\ None \notin Session
  BY NoneIsNoSession DEF Inv, TypeOK
<1>1. ASSUME NEW w \in Worker, NEW s \in Session, Handle(w, s)
      PROVE  Handlers'
  <2>1. PICK o \in Op \cup {"over"} :
          op' = [op EXCEPT ![s] = o] /\ Rank(op[s]) < Rank(o)
    BY <1>1, HandlerMoves
  <2> DEFINE h == [of |-> s, on |-> op[s]]
  <2>2. /\ running' = [running EXCEPT ![w] = h] /\ op[s] \in Op
        /\ \A v \in Worker :
             running[v].of = s => ~SameStrand(s, running[v].on, op[s])
    BY <1>1, HandlerMoves DEF Begin, MayRun
  <2>3. h.of = s /\ h.on = op[s] /\ h # NoHandler
    BY <1>0 DEF NoHandler
  <2>4. \A v \in Worker : running'[v] = (IF v = w THEN h ELSE running[v])
    BY <1>0, <2>2
  <2> HIDE DEF h
  <2>5. \A r \in Session : op'[r] = (IF r = s THEN o ELSE op[r])
    BY <1>0, <2>1
  <2>6. \A v \in Worker :
          running[v].of = s =>
            Rank(running[v].on) < Rank(op[s]) /\ running[v].on # op[s]
    BY <1>0, <2>2, RankFacts DEF Handlers
  <2>7. \A v \in Worker : running[v] # h
    BY <2>3, <2>6
  <2>8. ASSUME NEW v \in Worker, running'[v].of # None
        PROVE  /\ running'[v].on \in Op
               /\ Rank(running'[v].on) < Rank(op'[running'[v].of])
    <3>1. CASE v = w
      BY <2>1, <2>2, <2>3, <2>4, <2>5, <3>1
    <3>2. CASE v # w /\ running[v].of = s
      <4>1. /\ running'[v] = running[v] /\ op'[running[v].of] = o
            /\ Rank(running[v].on) < Rank(op[s]) /\ running[v].on \in Op
        BY <2>2, <2>4, <2>5, <2>6, <2>8, <3>2 DEF Handlers
      <4>2. /\ Rank(running[v].on) \in Int /\ Rank(op[s]) \in Int
            /\ Rank(o) \in Int
        BY <2>1, <2>2, <4>1, RankFacts
      <4> QED
        BY <2>1, <4>1, <4>2
    <3>3. CASE v # w /\ running[v].of # s
      <4>1. running'[v] = running[v] /\ op'[running[v].of] = op[running[v].of]
        BY <1>0, <2>4, <2>5, <2>8, <3>3
      <4> QED
        BY <2>8, <4>1 DEF Handlers
    <3> QED
      BY <3>1, <3>2, <3>3
  <2>9. ASSUME NEW v \in Worker, running'[v] # NoHandler
        PROVE  running'[v].of # None
    BY <1>0, <2>3, <2>4, <2>9 DEF Handlers
  <2>10. ASSUME NEW u \in Worker, NEW v \in Worker,
                running'[u].of # None, running'[u] = running'[v]
         PROVE  u = v
    BY <2>4, <2>7, <2>10 DEF Handlers
  <2>11. ASSUME NEW u \in Worker, NEW v \in Worker,
                running'[u].of # None, running'[u].of = running'[v].of,
                SameStrand(running'[u].of, running'[u].on, running'[v].on)
         PROVE  u = v
    <3>1. CASE u = w /\ v # w
      BY <2>2, <2>3, <2>4, <2>11, <3>1 DEF SameStrand
    <3>2. CASE u # w /\ v = w
      BY <2>2, <2>3, <2>4, <2>11, <3>2 DEF SameStrand
    <3>3. CASE u # w /\ v # w
      BY <2>4, <2>11, <3>3 DEF Handlers
    <3> QED
      BY <3>1, <3>2, <3>3
  <2> QED
    BY <2>8, <2>9, <2>10, <2>11 DEF Handlers
<1>2. ASSUME NEW w \in Worker, End(w) PROVE Handlers'
  <2>1. \A v \in Worker :
          running'[v] = (IF v = w THEN NoHandler ELSE running[v])
    BY <1>0, <1>2 DEF End
  <2>2. op' = op /\ NoHandler.of = None
    BY <1>2 DEF End, session, NoHandler
  <2>3. \A v \in Worker : running'[v].of # None => v # w
    BY <2>1, <2>2
  <2> QED
    BY <2>1, <2>2, <2>3 DEF Handlers
<1>3. ASSUME NEW s \in Session, Run(s) PROVE Handlers'
  <2>1. PICK o \in {"resolve", "over"} :
          op[s] = "none" /\ op' = [op EXCEPT ![s] = o] /\ running' = running
    BY <1>3 DEF Run, pool
  <2>2. \A v \in Worker : running[v].of # None => running[v].of # s
    <3> SUFFICES ASSUME NEW v \in Worker, running[v].of = s PROVE FALSE
      BY <1>0
    <3>1. running[v].on \in Op /\ Rank(running[v].on) < Rank("none")
      BY <1>0, <2>1 DEF Handlers
    <3>2. /\ Rank("none") < Rank(running[v].on)
          /\ Rank("none") \in Int /\ Rank(running[v].on) \in Int
      BY <3>1, RankFacts
    <3> QED
      BY <3>1, <3>2
  <2>3. \A v \in Worker :
          running[v].of # None => op'[running[v].of] = op[running[v].of]
    BY <1>0, <2>1, <2>2
  <2> QED
    BY <2>1, <2>3 DEF Handlers
<1>4. CASE ~(\/ \E w \in Worker, s \in Session : Handle(w, s)
             \/ \E w \in Worker : End(w)
             \/ \E s \in Session : Run(s))
  <2>1. UNCHANGED <<op, running>>
    BY <1>4
    DEF Next, StartPool, Spawned, Joined, stop, DestroyPool, Spawn, RunReturns,
        Completes, Get, GetReturn, Idle, session, pool, vars
  <2> QED
    BY <2>1 DEF Handlers
<1> QED
  BY <1>1, <1>2, <1>3, <1>4

LEMMA HandlersHold == Spec => []Handlers
<1>1. Init => Handlers
  BY DEF Init, Handlers, NoHandler
<1> QED
  BY <1>1, HandlersKept, Invariance, PTL DEF Spec

\* However many threads run the io_context, a completion handler is run by one
\* of them, and what a plain session binds to one strand is run one handler
\* after the other: its stream, buffer and response are nobody else's.
THEOREM HandlersAreSerial ==
  Spec => [](\A v, w \in Worker :
               /\ running[v].of # None
               /\ running[v].of = running[w].of
               /\ \/ running[v].on = running[w].on
                  \/ SameStrand(running[v].of, running[v].on, running[w].on)
               => v = w)
<1>1. Inv /\ Handlers =>
        (\A v, w \in Worker :
           /\ running[v].of # None
           /\ running[v].of = running[w].of
           /\ \/ running[v].on = running[w].on
              \/ SameStrand(running[v].of, running[v].on, running[w].on)
           => v = w)
  <2> SUFFICES ASSUME Inv, Handlers, NEW v \in Worker, NEW w \in Worker,
                      running[v].of # None, running[v].of = running[w].of,
                      running[v].on = running[w].on
               PROVE  v = w
    BY DEF Handlers
  <2>1. running[v] \in [of : Session \cup {None}, on : Op \cup {"none"}]
        /\ running[w] \in [of : Session \cup {None}, on : Op \cup {"none"}]
    BY DEF Inv, TypeOK
  <2>2. running[v] = running[w]
    BY <2>1
  <2> QED
    BY <2>2 DEF Handlers
<1> QED
  BY <1>1, HandlersHold, Invariance, PTL

\* Threads end when the io_context is stopped, start goes on when all are
\* there, and what the program waits for has been run.
Threads ==
  /\ \A w \in Worker : thread[w] = "exited" => stopped
  /\ starter \in {"joining", "returned"} =>
       \A w \in Worker : thread[w] # "none"
  /\ waiting # None => pc = "up" /\ waiting \in Session /\ op[waiting] # "none"

LEMMA ThreadsKept ==
  ASSUME Inv, Threads, [Next]_vars
  PROVE  Threads'
<1>0. /\ op \in [Session -> Op \cup {"none", "over"}]
      /\ thread \in [Worker -> {"none", "run", "exited"}]
      /\ waiting \in Session \cup {None}
  BY DEF Inv, TypeOK
<1>1. ASSUME NEW w \in Worker, NEW s \in Session, Handle(w, s)
      PROVE  Threads'
  <2>1. PICK o \in Op \cup {"over"} : op' = [op EXCEPT ![s] = o]
    BY <1>1, HandlerMoves
  <2>2. UNCHANGED <<thread, stopped, starter, pc, waiting>>
    BY <1>1, HandlerMoves DEF Begin
  <2>3. o # "none"
    BY DEF Op
  <2> QED
    BY <1>0, <2>1, <2>2, <2>3 DEF Threads
<1>2. ASSUME NEW w \in Worker, Spawn(w) \/ RunReturns(w) \/ End(w)
      PROVE  Threads'
  BY <1>0, <1>2 DEF Spawn, RunReturns, End, session, Threads
<1>3. ASSUME NEW s \in Session, Run(s) \/ Completes(s) \/ Get(s)
      PROVE  Threads'
  BY <1>0, <1>3 DEF Run, Completes, Get, Free, session, pool, Threads
<1>4. CASE \/ StartPool \/ Spawned \/ Joined \/ stop \/ DestroyPool
           \/ GetReturn \/ Idle \/ UNCHANGED vars
  BY <1>0, <1>4
  DEF StartPool, Spawned, Joined, stop, DestroyPool, GetReturn, Idle, Free,
      session, pool, vars, Threads
<1> QED
  BY <1>1, <1>2, <1>3, <1>4 DEF Next

\* Session s has an operation outstanding that can go on: it can complete, or
\* a thread can run its handler, or start has threads to create yet, or a
\* thread is in a handler, which it will end.
CanGoOn(s) ==
  /\ op[s] \in Op
  /\ \/ done[s] = "no"
     \/ starter = "spawning"
     \/ \E w \in Worker : MayRun(w, s)
     \/ \E w \in Worker : running[w] # NoHandler

\* On a pool that is not stopped no wait for a response is stuck between
\* operations, threads and strands: only a session that is over leaves one
\* waiting, and OnlyEarlyErrorsLeaveNoAnswer says which of those do.
THEOREM OnlyEndedSessionsStarveAWait ==
  Spec => [](waiting # None /\ ~stopped /\ op[waiting] # "over"
               => CanGoOn(waiting))
<1>1. Init => Threads
  BY DEF Init, Threads
<1>2. Inv /\ Threads =>
        (waiting # None /\ ~stopped /\ op[waiting] # "over"
           => CanGoOn(waiting))
  <2> SUFFICES ASSUME Inv, Threads, waiting # None, ~stopped,
                      op[waiting] # "over", ~CanGoOn(waiting)
               PROVE  FALSE
    OBVIOUS
  <2>1. waiting \in Session /\ op[waiting] \in Op /\ pc = "up"
    BY DEF Inv, TypeOK, Threads
  <2>2. starter \in {"joining", "returned"}
    BY <2>1 DEF Inv, TypeOK, Starting, CanGoOn
  <2>3. \A w \in Worker : thread[w] = "run" /\ running[w] = NoHandler
    BY <2>1, <2>2 DEF Inv, TypeOK, Threads, CanGoOn
  <2>4. \A w \in Worker : MayRun(w, waiting)
    BY <2>1, <2>3, NoneIsNoSession DEF MayRun, NoHandler
  <2> QED
    BY <2>1, <2>4, WorkersExist DEF CanGoOn
<1>3. Inv /\ Threads /\ [Next]_vars => Threads'
  BY ThreadsKept
<1> QED
  BY <1>1, <1>2, <1>3, Invariance, PTL DEF Spec
=============================================================================
