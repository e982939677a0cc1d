------------------------ MODULE FileTransfersProofs ------------------------
(***************************************************************************)
(* Proofs about HttpServer and FileTransfers for any number of threads,    *)
(* connections, uploads and parts.  A transfer's step is a stutter or the  *)
(* end of a session for the server, so what holds of the server alone      *)
(* holds with its transfers; what holds of the file rests on there being   *)
(* no second upload while one is alone or a stored one is kept, and on no  *)
(* handler running once start has returned.  Other sections show what a    *)
(* stopping server, a client and a transfer wait for, and that a signal    *)
(* alone leads to no failing join.                                         *)
(***************************************************************************)
EXTENDS FileTransfers, QueueFacts

\* A joiner is blocked in the join of the element it has reached.
JoinsInTurn ==
  \A j \in Joiner : joining[j] # 0 => joining[j] = at[j]

\* What start has joined has left ioc.run(), and it joins only when stopped.
StartJoins ==
  /\ start \in {"join", "returned", "thrown"} => stopped
  /\ joining["start"] # 0 => stopped
  /\ \A w \in Worker : w < at["start"] => thread[w] = "exited"

ServerInv == TypeOK /\ JoinsInTurn /\ StartJoins /\ ReturnsQuiet

-----------------------------------------------------------------------------
(* The server.                                                             *)

LEMMA ServerInit == Init => ServerInv
<1> SUFFICES ASSUME Init PROVE ServerInv
  OBVIOUS
<1>1. Extra \in Nat
  BY ExtraIsNatural
<1>2. TypeOK
  <2>1. joining \in [Joiner -> 0..Extra] /\ at \in [Joiner -> 1..Extra + 1]
    BY <1>1 DEF Init
  <2>2. /\ thread \in [Worker -> {"none", "run", "exited"}]
        /\ handle \in [Worker -> {"joinable", "joined"}]
        /\ conn \in [Conn -> {"none", "backlog", "served", "over"}]
    BY DEF Init
  <2> QED
    BY <2>1, <2>2 DEF Init, TypeOK
<1>3. JoinsInTurn
  BY DEF Init, JoinsInTurn
<1>4. StartJoins
  BY <1>1 DEF Init, StartJoins, Worker, Joiner
<1>5. ReturnsQuiet
  BY DEF Init, ReturnsQuiet
<1> QED
  BY <1>2, <1>3, <1>4, <1>5 DEF ServerInv

\* A joiner's next state, from Becomes.
LEMMA BecomesTyped ==
  ASSUME TypeOK, NEW j \in Joiner, NEW s \in {"thrown", "returned"},
         Becomes(j, s)
  PROVE  /\ start' \in {"new", "spawn", "run", "join", "returned", "thrown"}
         /\ stopper' \in {"idle", "join", "returned", "thrown"}
         /\ start' = start \/ (j = "start" /\ start' = s)
BY DEF TypeOK, Becomes, Joiner

\* The joins: the only steps that move a joiner.
LEMMA JoinStep ==
  ASSUME ServerInv, NEW j \in Joiner, Join(j)
  PROVE  ServerInv'
<1>1. Extra \in Nat
  BY ExtraIsNatural
<1>2. at[j] \in 1..Extra
  BY <1>1 DEF Join, ServerInv, TypeOK
<1>3. CASE handle[at[j]] = "joined"
  <2>1. Becomes(j, "thrown")
        /\ UNCHANGED <<acceptor, accepting, conn, thread, handle, joining, at,
                       stopped, signalled>>
    BY <1>3 DEF Join
  <2>2. Stage(j) = "join"
    BY DEF Join
  <2>3. start' = start \/ (j = "start" /\ start' = "thrown")
    BY <2>1, BecomesTyped DEF ServerInv
  <2>4. TypeOK'
    BY <2>1, BecomesTyped DEF ServerInv, TypeOK
  <2>5. JoinsInTurn'
    BY <2>1 DEF ServerInv, JoinsInTurn
  <2>6. StartJoins' /\ ReturnsQuiet'
    BY <2>1, <2>2, <2>3 DEF ServerInv, StartJoins, ReturnsQuiet, Stage
  <2> QED
    BY <2>4, <2>5, <2>6 DEF ServerInv
<1>4. CASE handle[at[j]] # "joined"
  <2>1. joining' = [joining EXCEPT ![j] = at[j]]
        /\ UNCHANGED <<acceptor, accepting, conn, thread, handle, at, start,
                       stopper, stopped, signalled>>
    BY <1>4 DEF Join
  <2>2. joining \in [Joiner -> 0..Extra] /\ at[j] \in 0..Extra
    BY <1>1, <1>2 DEF ServerInv, TypeOK
  <2>3. joining' \in [Joiner -> 0..Extra]
    BY <2>1, <2>2
  <2>4. TypeOK'
    BY <2>1, <2>3 DEF ServerInv, TypeOK
  <2>5. JoinsInTurn'
    BY <2>1, <2>2 DEF ServerInv, JoinsInTurn
  <2>6. joining'["start"] # 0 => stopped
    <3>1. CASE j = "start"
      BY <3>1 DEF Join, Stage, ServerInv, StartJoins
    <3>2. CASE j # "start"
      BY <2>1, <2>2, <3>2 DEF ServerInv, StartJoins, Joiner
    <3> QED
      BY <3>1, <3>2
  <2>7. StartJoins' /\ ReturnsQuiet'
    BY <2>1, <2>6 DEF ServerInv, StartJoins, ReturnsQuiet
  <2> QED
    BY <2>4, <2>5, <2>7 DEF ServerInv
<1> QED
  BY <1>3, <1>4

\* A thread that was joined has left ioc.run().
LEMMA JoinedStep ==
  ASSUME ServerInv, NEW j \in Joiner, Joined(j)
  PROVE  ServerInv'
<1>1. Extra \in Nat
  BY ExtraIsNatural
<1>2. /\ joining[j] = at[j] /\ at[j] \in 1..Extra
      /\ joining \in [Joiner -> 0..Extra] /\ at \in [Joiner -> 1..Extra + 1]
      /\ handle \in [Worker -> {"joinable", "joined"}]
  BY <1>1 DEF Joined, ServerInv, TypeOK, JoinsInTurn
<1>3. /\ thread[at[j]] = "exited"
      /\ joining' = [joining EXCEPT ![j] = 0]
      /\ handle' = [handle EXCEPT ![at[j]] = "joined"]
      /\ UNCHANGED <<acceptor, accepting, conn, thread, stopped, signalled>>
  BY <1>2 DEF Joined
<1>4. /\ joining' \in [Joiner -> 0..Extra]
      /\ handle' \in [Worker -> {"joinable", "joined"}]
      /\ \A i \in Joiner : joining'[i] # 0 => joining[i] # 0
      /\ j = "start" => stopped
  BY <1>1, <1>2, <1>3 DEF Worker, ServerInv, StartJoins
<1>5. CASE at' = [at EXCEPT ![j] = @ + 1] /\ UNCHANGED <<start, stopper>>
  <2>1. at' \in [Joiner -> 1..Extra + 1] /\ at'[j] = at[j] + 1
        /\ \A i \in Joiner : i # j => at'[i] = at[i]
    BY <1>1, <1>2, <1>5
  <2>2. TypeOK'
    BY <1>3, <1>4, <1>5, <2>1 DEF ServerInv, TypeOK
  <2>3. JoinsInTurn'
    BY <1>2, <1>3, <2>1 DEF ServerInv, JoinsInTurn
  <2>4. StartJoins'
    <3>1. \A w \in Worker : w < at["start"] => thread[w] = "exited"
      BY DEF ServerInv, StartJoins
    <3>2. \A w \in Worker : w < at["start"]' => thread[w] = "exited"
      <4>1. CASE j = "start"
        BY <1>2, <1>3, <2>1, <3>1, <4>1 DEF Worker
      <4>2. CASE j # "start"
        BY <2>1, <3>1, <4>2 DEF Joiner
      <4> QED
        BY <4>1, <4>2
    <3> QED
      BY <1>3, <1>4, <1>5, <3>2 DEF ServerInv, StartJoins, Joiner
  <2>5. ReturnsQuiet'
    BY <1>3, <1>5 DEF ServerInv, ReturnsQuiet
  <2> QED
    BY <2>2, <2>3, <2>4, <2>5 DEF ServerInv
<1>6. CASE handle[at[j]] = "joined" /\ Becomes(j, "thrown") /\ UNCHANGED at
  <2>1. start' = start \/ (j = "start" /\ start' = "thrown")
    BY <1>6, BecomesTyped DEF ServerInv
  <2>2. TypeOK'
    BY <1>3, <1>4, <1>6, BecomesTyped DEF ServerInv, TypeOK
  <2>3. JoinsInTurn'
    BY <1>2, <1>3, <1>6 DEF ServerInv, JoinsInTurn
  <2>4. StartJoins'
    BY <1>3, <1>4, <1>6, <2>1 DEF ServerInv, StartJoins, Joiner
  <2>5. ReturnsQuiet'
    BY <1>3, <2>1 DEF ServerInv, ReturnsQuiet
  <2> QED
    BY <2>2, <2>3, <2>4, <2>5 DEF ServerInv
<1> QED
  BY <1>2, <1>5, <1>6 DEF Joined

LEMMA ReturnsStep ==
  ASSUME ServerInv, NEW j \in Joiner, Returns(j)
  PROVE  ServerInv'
<1>1. Extra \in Nat /\ at \in [Joiner -> 1..Extra + 1]
  BY ExtraIsNatural DEF ServerInv, TypeOK
<1>2. /\ Stage(j) = "join" /\ at[j] > Extra /\ Becomes(j, "returned")
      /\ UNCHANGED <<acceptor, accepting, conn, thread, handle, joining, at,
                     stopped, signalled>>
  BY DEF Returns, joins
<1>3. start' = start \/ (j = "start" /\ start' = "returned")
  BY <1>2, BecomesTyped DEF ServerInv
<1>4. TypeOK'
  BY <1>2, BecomesTyped DEF ServerInv, TypeOK
<1>5. JoinsInTurn'
  BY <1>2 DEF ServerInv, JoinsInTurn
<1>6. j = "start" => stopped
  BY <1>2 DEF Stage, ServerInv, StartJoins
<1>7. StartJoins'
  BY <1>2, <1>3, <1>6 DEF ServerInv, StartJoins
<1>8. ReturnsQuiet'
  <2>1. CASE start' = start
    BY <1>2, <2>1 DEF ServerInv, ReturnsQuiet
  <2>2. CASE j = "start" /\ start' = "returned"
    <3>1. \A w \in Worker : w < at["start"]
      BY <1>1, <1>2, <2>2 DEF Worker, Joiner
    <3>2. \A w \in Worker : thread[w] = "exited"
      BY <3>1 DEF ServerInv, StartJoins
    <3> QED
      BY <1>2, <1>6, <2>2, <3>2 DEF ReturnsQuiet
  <2> QED
    BY <1>3, <2>1, <2>2
<1> QED
  BY <1>4, <1>5, <1>7, <1>8 DEF ServerInv

\* A worker begins: it has not been joined, as start's joins come later.
LEMMA SpawnStep ==
  ASSUME ServerInv, NEW w \in Worker, Spawn(w)
  PROVE  ServerInv'
<1>1. /\ start = "spawn" /\ thread[w] = "none"
      /\ thread' = [thread EXCEPT ![w] = "run"]
      /\ UNCHANGED <<acceptor, accepting, conn, handle, joining, at, start,
                     stopper, stopped, signalled>>
  BY DEF Spawn, joins
<1>2. thread \in [Worker -> {"none", "run", "exited"}]
  BY DEF ServerInv, TypeOK
<1>3. /\ thread' \in [Worker -> {"none", "run", "exited"}]
      /\ \A v \in Worker : thread[v] = "exited" => thread'[v] = "exited"
  BY <1>1, <1>2
<1>4. TypeOK'
  BY <1>1, <1>3 DEF ServerInv, TypeOK
<1> QED
  BY <1>1, <1>3, <1>4
  DEF ServerInv, JoinsInTurn, StartJoins, ReturnsQuiet

LEMMA RunReturnsStep ==
  ASSUME ServerInv, NEW w \in Worker, RunReturns(w)
  PROVE  ServerInv'
<1>1. /\ thread' = [thread EXCEPT ![w] = "exited"]
      /\ UNCHANGED <<acceptor, accepting, conn, handle, joining, at, start,
                     stopper, stopped, signalled>>
  BY DEF RunReturns, joins
<1>2. thread \in [Worker -> {"none", "run", "exited"}]
  BY DEF ServerInv, TypeOK
<1>3. /\ thread' \in [Worker -> {"none", "run", "exited"}]
      /\ \A v \in Worker : thread[v] = "exited" => thread'[v] = "exited"
  BY <1>1, <1>2
<1>4. TypeOK'
  BY <1>1, <1>3 DEF ServerInv, TypeOK
<1> QED
  BY <1>1, <1>3, <1>4
  DEF ServerInv, JoinsInTurn, StartJoins, ReturnsQuiet

\* The steps that touch neither a thread nor a joiner.
LEMMA OtherServerStep ==
  ASSUME ServerInv,
         \/ Launch \/ RunItself \/ StartRunReturns \/ stop \/ Signal \/ OnSignal
         \/ OnAcceptError \/ Terminated
         \/ \E c \in Conn : OnAccept(c) \/ SessionEnds(c) \/ Connect(c)
  PROVE  ServerInv'
<1>1. UNCHANGED <<thread, handle, joining, at>>
  BY DEF Launch, RunItself, StartRunReturns, stop, Signal, OnSignal,
     OnAcceptError, Terminated, OnAccept, SessionEnds, Connect, joins, vars
<1>2. /\ acceptor' \in {"closed", "listening", "broken"}
      /\ accepting' \in BOOLEAN
      /\ start' \in {"new", "spawn", "run", "join", "returned", "thrown"}
      /\ stopper' \in {"idle", "join", "returned", "thrown"}
      /\ stopped' \in BOOLEAN
      /\ signalled' \in BOOLEAN
  <2> USE DEF ServerInv, TypeOK
  <2>1. CASE Launch \/ RunItself \/ StartRunReturns
    BY <2>1 DEF Launch, RunItself, StartRunReturns
  <2>2. CASE stop \/ Signal \/ OnSignal
    BY <2>2 DEF stop, Signal, OnSignal
  <2>3. CASE OnAcceptError \/ Terminated
    BY <2>3 DEF OnAcceptError, Terminated, vars
  <2>4. CASE \E c \in Conn : OnAccept(c) \/ SessionEnds(c) \/ Connect(c)
    BY <2>4 DEF OnAccept, SessionEnds, Connect
  <2> QED
    BY <2>1, <2>2, <2>3, <2>4
<1>3. conn' \in [Conn -> {"none", "backlog", "served", "over"}]
  <2>1. conn \in [Conn -> {"none", "backlog", "served", "over"}]
    BY DEF ServerInv, TypeOK
  <2> QED
    BY <2>1
    DEF Launch, RunItself, StartRunReturns, stop, Signal, OnSignal,
        OnAcceptError, Terminated, OnAccept, SessionEnds, Connect, vars
<1>4. /\ stopped => stopped'
      /\ start' \in {"join", "returned", "thrown"} => start' = start \/ stopped'
      /\ start' = "returned" => start = "returned"
  BY DEF Launch, RunItself, StartRunReturns, stop, Signal, OnSignal,
     OnAcceptError, Terminated, OnAccept, SessionEnds, Connect, joins, vars
<1>5. TypeOK'
  BY <1>1, <1>2, <1>3 DEF ServerInv, TypeOK
<1>6. JoinsInTurn'
  BY <1>1 DEF ServerInv, JoinsInTurn
<1>7. StartJoins'
  BY <1>1, <1>4 DEF ServerInv, StartJoins
<1>8. ReturnsQuiet'
  BY <1>1, <1>4 DEF ServerInv, ReturnsQuiet
<1> QED
  BY <1>5, <1>6, <1>7, <1>8 DEF ServerInv

LEMMA ServerPreserves == ServerInv /\ [Next]_vars => ServerInv'
<1> SUFFICES ASSUME ServerInv, [Next]_vars PROVE ServerInv'
  OBVIOUS
<1>1. CASE UNCHANGED vars
  BY <1>1 DEF vars, ServerInv, TypeOK, JoinsInTurn, StartJoins, ReturnsQuiet
<1>2. ASSUME NEW w \in Worker, Spawn(w) \/ RunReturns(w) PROVE ServerInv'
  BY <1>2, SpawnStep, RunReturnsStep
<1>3. ASSUME NEW j \in Joiner, Join(j) \/ Joined(j) \/ Returns(j)
      PROVE  ServerInv'
  BY <1>3, JoinStep, JoinedStep, ReturnsStep
<1> QED
  BY <1>1, <1>2, <1>3, OtherServerStep DEF Next

\* Whatever the number of threads, start returns only when the io_context is
\* stopped and every thread has left it.
THEOREM ServerReturnsQuiet == Spec => []ReturnsQuiet
<1>1. ServerInv => ReturnsQuiet
  BY DEF ServerInv
<1> QED
  BY <1>1, ServerInit, ServerPreserves, PTL DEF Spec

-----------------------------------------------------------------------------
(* What a server waits for.                                                *)

\* The acceptor stays as start has left it, no thread is missing once start is
\* past making them, and none returns before the stop; whoever accepted a
\* connection is running.
Progressing ==
  /\ start = "new" => acceptor = "closed" /\ \A c \in Conn : conn[c] = "none"
  /\ start # "new" => accepting
  /\ \A c \in Conn : conn[c] # "none" => acceptor = "listening"
  /\ \A c \in Conn : conn[c] = "served" => Running \/ stopped
  /\ \A w \in Worker : thread[w] = "exited" => stopped
  /\ start \in {"run", "join", "returned", "thrown"} =>
       \A w \in Worker : thread[w] # "none"
  /\ joining["start"] # 0 => start = "join"

\* The guard of the next step of start, or, when start is blocked in a join, of
\* the thread it waits for.
StartGoesOn ==
  \/ start = "new"
  \/ start = "spawn" /\ \E w \in Worker :
       thread[w] = "none" /\ \A v \in 1..w - 1 : thread[v] # "none"
  \/ start = "spawn" /\ \A w \in Worker : thread[w] # "none"
  \/ start \in {"run", "join"} /\ stopped /\ joining["start"] = 0
  \/ joining["start"] # 0 /\ thread[joining["start"]] = "exited"
  \/ joining["start"] # 0 /\ thread[joining["start"]] = "run" /\ stopped

LEMMA ProgressingInit == Init => Progressing
BY ExtraIsNatural DEF Init, Progressing, Joiner

\* The steps of start and of its threads.
LEMMA ThreadsProgress ==
  ASSUME ServerInv, Progressing,
         \/ Launch \/ RunItself \/ StartRunReturns
         \/ \E w \in Worker : Spawn(w) \/ RunReturns(w)
  PROVE  Progressing'
<1>1. /\ thread \in [Worker -> {"none", "run", "exited"}]
      /\ acceptor \in {"closed", "listening", "broken"}
      /\ \A w \in Worker : w < at["start"] => thread[w] = "exited"
      /\ start = "join" \/ joining["start"] # 0 => stopped
  BY DEF ServerInv, TypeOK, StartJoins
<1>2. CASE Launch
  BY <1>1, <1>2 DEF Launch, joins, Progressing, Running
<1>3. CASE RunItself
  BY <1>1, <1>3 DEF RunItself, joins, Progressing, Running
<1>4. CASE StartRunReturns
  <2>1. /\ start = "run" /\ start' = "join" /\ stopped
        /\ UNCHANGED <<acceptor, accepting, conn, thread, joining, stopped>>
    BY <1>4 DEF StartRunReturns, joins
  <2> QED
    BY <2>1 DEF Progressing
<1>5. ASSUME NEW w \in Worker, Spawn(w)
      PROVE  Progressing'
  BY <1>1, <1>5 DEF Spawn, joins, Progressing, Running
<1>6. ASSUME NEW w \in Worker, RunReturns(w)
      PROVE  Progressing'
  BY <1>1, <1>6 DEF RunReturns, joins, Progressing, Running
<1> QED
  BY <1>2, <1>3, <1>4, <1>5, <1>6

\* The joins leave start where it is, or end it.
LEMMA JoinsProgress ==
  ASSUME ServerInv, Progressing, NEW j \in Joiner,
         Join(j) \/ Joined(j) \/ Returns(j)
  PROVE  Progressing'
<1>1. /\ joining \in [Joiner -> 0..Extra]
      /\ joining["start"] # 0 => stopped
      /\ start \in {"join", "returned", "thrown"} => stopped
      /\ "start" \in Joiner /\ Joiner = {"start", "stop"}
  BY DEF ServerInv, TypeOK, StartJoins, Joiner
<1>2. UNCHANGED <<acceptor, accepting, conn, thread, stopped>>
  BY DEF Join, Joined, Returns
<1>3. /\ start' = start \/ (j = "start" /\ start = "join"
                             /\ start' \in {"thrown", "returned"})
      /\ joining'["start"] # 0 => start' = "join"
  <2>1. CASE j = "start"
    <3>1. CASE Join(j) \/ Returns(j)
      BY <1>1, <2>1, <3>1 DEF Join, Returns, Stage, Becomes, joins
    <3>2. CASE Joined(j)
      <4>1. start = "join" /\ joining' = [joining EXCEPT !["start"] = 0]
        BY <2>1, <3>2 DEF Joined, Progressing
      <4> QED
        BY <1>1, <2>1, <3>2, <4>1 DEF Joined, Becomes
    <3> QED
      BY <3>1, <3>2
  <2>2. CASE j = "stop"
    <3>1. start' = start /\ joining'["start"] = joining["start"]
      BY <1>1, <2>2 DEF Join, Joined, Returns, Becomes, joins
    <3> QED
      BY <3>1 DEF Progressing
  <2> QED
    BY <1>1, <2>1, <2>2
<1>4. Running => Running' \/ stopped
  BY <1>1, <1>2, <1>3 DEF Running
<1> QED
  BY <1>1, <1>2, <1>3, <1>4 DEF Progressing

\* The other steps are of the handlers, of clients and of who stops the server.
LEMMA HandlersProgress ==
  ASSUME ServerInv, Progressing,
         \/ stop \/ Signal \/ OnSignal \/ OnAcceptError \/ Terminated
         \/ \E c \in Conn : OnAccept(c) \/ SessionEnds(c) \/ Connect(c)
         \/ UNCHANGED vars
  PROVE  Progressing'
<1>1. conn \in [Conn -> {"none", "backlog", "served", "over"}]
  BY DEF ServerInv, TypeOK
<1>2. UNCHANGED <<acceptor, accepting, thread, joining, start>>
      /\ (stopped => stopped')
  BY DEF stop, Signal, OnSignal, OnAcceptError, Terminated, OnAccept,
     SessionEnds, Connect, joins, vars
<1>3. CASE UNCHANGED conn
  BY <1>2, <1>3 DEF Progressing, Running
<1>4. ASSUME NEW c \in Conn, OnAccept(c) \/ SessionEnds(c) \/ Connect(c)
      PROVE  Progressing'
  BY <1>1, <1>2, <1>4
  DEF OnAccept, SessionEnds, Connect, Progressing, Running
<1>5. \/ UNCHANGED conn
      \/ \E c \in Conn : OnAccept(c) \/ SessionEnds(c) \/ Connect(c)
  BY DEF stop, Signal, OnSignal, OnAcceptError, Terminated, vars
<1> QED
  BY <1>3, <1>4, <1>5

LEMMA ProgressingHolds == Spec => [](ServerInv /\ Progressing)
<1>1. ServerInv /\ Progressing /\ [Next]_vars => Progressing'
  BY ThreadsProgress, JoinsProgress, HandlersProgress DEF Next
<1> QED
  BY <1>1, ProgressingInit, ServerInit, ServerPreserves, PTL DEF Spec

\* Before it is in its joins, start can always make the next thread or run.
LEMMA SpawningGoesOn ==
  ASSUME start = "spawn" PROVE StartGoesOn
<1> DEFINE missing == {w \in Worker : thread[w] = "none"}
<1>1. Extra \in Nat /\ missing \subseteq Nat
  BY ExtraIsNatural DEF Worker
<1>2. CASE missing = {}
  BY <1>2 DEF StartGoesOn
<1>3. CASE missing # {}
  <2>1. PICK w \in missing : \A k \in missing : w <= k
    BY <1>1, <1>3, LeastNatural
  <2>2. w \in Worker /\ thread[w] = "none"
    OBVIOUS
  <2>3. ASSUME NEW v \in 1..w - 1
        PROVE  thread[v] # "none"
    <3>1. v \in Worker /\ v < w
      BY <1>1, <2>2 DEF Worker
    <3>2. v \notin missing
      BY <1>1, <2>1, <2>2, <3>1 DEF Worker
    <3> QED
      BY <3>1, <3>2
  <2> QED
    BY <2>2, <2>3 DEF StartGoesOn
<1> QED
  BY <1>2, <1>3

\* Once the server is stopped nothing but its own steps keeps start from
\* returning: neither a connection nor a handler, and no join is of a thread
\* that was never made.
THEOREM StoppedServersComeDown ==
  Spec => [](stopped => start \in {"returned", "thrown"} \/ StartGoesOn)
<1>1. ServerInv /\ Progressing /\ stopped
        => start \in {"returned", "thrown"} \/ StartGoesOn
  <2> SUFFICES ASSUME ServerInv, Progressing, stopped,
                      start \notin {"returned", "thrown"}
               PROVE  StartGoesOn
    OBVIOUS
  <2>1. CASE start = "spawn"
    BY <2>1, SpawningGoesOn
  <2>2. CASE joining["start"] # 0
    <3>1. joining["start"] \in Worker /\ start = "join"
      BY <2>2, ExtraIsNatural
      DEF ServerInv, TypeOK, Progressing, Worker, Joiner
    <3>2. thread[joining["start"]] \in {"run", "exited"}
      BY <3>1 DEF ServerInv, TypeOK, Progressing
    <3> QED
      BY <2>2, <3>2 DEF StartGoesOn
  <2>3. CASE joining["start"] = 0 /\ start # "spawn"
    BY <2>3 DEF ServerInv, TypeOK, StartGoesOn
  <2> QED
    BY <2>1, <2>2, <2>3
<1> QED
  BY <1>1, ProgressingHolds, PTL

\* A client that waits to be accepted has a listener that is accepting, and a
\* thread to run its handler or a start that is about to be one, unless the
\* server is stopped.
THEOREM ClientsHaveAListener ==
  Spec => [](\A c \in Conn : conn[c] = "backlog" /\ ~stopped =>
               /\ accepting /\ acceptor = "listening"
               /\ Running \/ StartGoesOn)
<1>1. ServerInv /\ Progressing
        => \A c \in Conn : conn[c] = "backlog" /\ ~stopped =>
             /\ accepting /\ acceptor = "listening"
             /\ Running \/ StartGoesOn
  <2> SUFFICES ASSUME ServerInv, Progressing, ~stopped,
                      NEW c \in Conn, conn[c] = "backlog"
               PROVE  /\ accepting /\ acceptor = "listening"
                      /\ Running \/ StartGoesOn
    OBVIOUS
  <2>1. start # "new"
    BY DEF Progressing
  <2>2. accepting /\ acceptor = "listening"
    BY <2>1 DEF Progressing
  <2>3. start \in {"spawn", "run"}
    BY <2>1 DEF ServerInv, TypeOK, StartJoins
  <2> QED
    BY <2>2, <2>3, SpawningGoesOn DEF Running
<1> QED
  BY <1>1, ProgressingHolds, PTL

-----------------------------------------------------------------------------
(* The file.                                                               *)

Piece == Part \cup {Hole}

\* An upload that is alone has the file to itself and has written all of it,
\* and nothing is uploaded while a stored upload is kept.
OneUpload ==
  /\ \A c \in Conn :
       transfer[c].op = "upload" =>
         /\ transfer[c].number \in 1..MaxUploads
         /\ transfer[c].alone =>
              /\ file = Body(transfer[c].number, transfer[c].done)
              /\ \A d \in Conn : d # c => transfer[d].op # "upload"
         /\ stored.upload = 0

\* A download that no upload has disturbed is of the stored upload.
OfStored ==
  \A c \in Conn :
    transfer[c].op = "download" /\ transfer[c].alone => stored.upload # 0

FileInv ==
  /\ TransfersTypeOK
  /\ OneUpload
  /\ UploadIsStored
  /\ OfStored
  /\ DownloadIsWhole

\* What every proof below uses of the types.
LEMMA FileTyped ==
  ASSUME TransfersTypeOK
  PROVE  /\ file \in Seq(Piece) /\ Len(file) \in 0..Parts
         /\ transfer \in [Conn -> Transfer]
         /\ \A c \in Conn : /\ transfer[c].done \in 0..Parts
                            /\ transfer[c].size \in 0..Parts
                            /\ transfer[c].done <= transfer[c].size
                            /\ transfer[c].got \in Seq(Piece)
         /\ uploads \in 0..MaxUploads /\ downloads \in 0..MaxDownloads
         /\ stored \in [upload : 0..MaxUploads, size : 0..Parts]
         /\ Parts \in Nat \ {0} /\ MaxUploads \in Nat /\ MaxDownloads \in Nat
BY TransferBounds DEF TransfersTypeOK, Transfer, Piece

\* Writing the next part of a body behind those already there.
LEMMA WrittenBody ==
  ASSUME NEW n, NEW k \in Nat, file = Body(n, k)
  PROVE  Written(k + 1, [upload |-> n, part |-> k + 1]) = Body(n, k + 1)
<1> DEFINE p == [upload |-> n, part |-> k + 1]
<1>1. Len(file) = k /\ \A j \in 1..k : file[j] = [upload |-> n, part |-> j]
  BY DEF Body
<1>2. Written(k + 1, p)
        = [j \in 1..k + 1 |-> IF j = k + 1 THEN p
                              ELSE IF j <= k THEN file[j] ELSE Hole]
  BY <1>1 DEF Written
<1>3. \A j \in 1..k + 1 :
        (IF j = k + 1 THEN p ELSE IF j <= k THEN file[j] ELSE Hole)
          = [upload |-> n, part |-> j]
  BY <1>1
<1> QED
  BY <1>2, <1>3 DEF Body

\* Writing a part anywhere keeps the file a sequence of pieces.
LEMMA WrittenTyped ==
  ASSUME file \in Seq(Piece), Len(file) \in 0..Parts, Parts \in Nat,
         NEW i \in 1..Parts, NEW p \in Part
  PROVE  Written(i, p) \in Seq(Piece) /\ Len(Written(i, p)) \in 0..Parts
<1> DEFINE n == IF i > Len(file) THEN i ELSE Len(file)
<1>1. n \in 0..Parts
  OBVIOUS
<1>2. \A j \in 1..n : (IF j = i THEN p
                       ELSE IF j <= Len(file) THEN file[j] ELSE Hole) \in Piece
  BY DEF Piece
<1>3. Written(i, p) = [j \in 1..n |-> IF j = i THEN p
                        ELSE IF j <= Len(file) THEN file[j] ELSE Hole]
  BY DEF Written
<1> HIDE DEF n
<1>4. Written(i, p) \in [1..n -> Piece]
  BY <1>2, <1>3
<1> QED
  BY <1>1, <1>4

\* A body is a sequence of as many pieces, and grows at its end.
LEMMA BodyFacts ==
  ASSUME NEW n, NEW k \in Nat
  PROVE  /\ Len(Body(n, k)) = k
         /\ \A j \in 1..k : Body(n, k)[j] = [upload |-> n, part |-> j]
         /\ Append(Body(n, k), [upload |-> n, part |-> k + 1]) = Body(n, k + 1)
         /\ Body(n, 0) = <<>>
<1>1. Len(Body(n, k)) = k
      /\ \A j \in 1..k : Body(n, k)[j] = [upload |-> n, part |-> j]
  BY DEF Body
<1>2. Append(Body(n, k), [upload |-> n, part |-> k + 1]) = Body(n, k + 1)
  BY DEF Body
<1>3. Body(n, 0) = <<>>
  BY DEF Body
<1> QED
  BY <1>1, <1>2, <1>3

LEMMA FileInit == TransfersInit => FileInv
<1> SUFFICES ASSUME TransfersInit PROVE FileInv
  OBVIOUS
<1>1. TypeOK
  BY ServerInit DEF TransfersInit, ServerInv
<1>2. None \in Transfer /\ None.op = "none" /\ None.done <= None.size
  BY TransferBounds DEF None, Transfer
<1>3. transfer \in [Conn -> Transfer] /\ \A c \in Conn : transfer[c] = None
  BY <1>2 DEF TransfersInit
<1>4. TransfersTypeOK
  BY <1>1, <1>2, <1>3, TransferBounds DEF TransfersInit, TransfersTypeOK
<1> QED
  BY <1>2, <1>3, <1>4
  DEF TransfersInit, FileInv, OneUpload, UploadIsStored, OfStored,
      DownloadIsWhole

\* An upload opens: the file is empty, nothing is stored, no one else alone.
LEMMA OpenUploadStep ==
  ASSUME FileInv, TypeOK', NEW c \in Conn, NEW size \in 1..Parts,
         OpenUpload(c, size)
  PROVE  FileInv'
<1> DEFINE t == [op |-> "upload", number |-> uploads + 1, size |-> size,
                 done |-> 0,
                 alone |-> \A d \in Conn : transfer[d].op # "upload",
                 got |-> <<>>]
<1>1. /\ transfer[c].op = "none" /\ uploads < MaxUploads
      /\ uploads' = uploads + 1 /\ file' = <<>>
      /\ stored' = [upload |-> 0, size |-> 0] /\ downloads' = downloads
  BY DEF OpenUpload
<1>2. transfer' = [Disturbed EXCEPT ![c] = t]
  BY <1>1 DEF OpenUpload
<1>3. /\ transfer \in [Conn -> Transfer] /\ uploads \in 0..MaxUploads
      /\ \A d \in Conn : transfer[d].done <= transfer[d].size
      /\ Parts \in Nat \ {0} /\ MaxUploads \in Nat
      /\ downloads \in 0..MaxDownloads
  BY FileTyped DEF FileInv
<1>4. /\ uploads + 1 \in 1..MaxUploads
      /\ t \in Transfer /\ t.done <= t.size
  BY <1>1, <1>3 DEF Transfer
<1>5. \A d \in Conn : d # c =>
        /\ transfer'[d] = [transfer[d] EXCEPT !.alone = FALSE]
        /\ transfer'[d] \in Transfer
        /\ transfer'[d].done <= transfer'[d].size
        /\ ~transfer'[d].alone
        /\ transfer'[d].op = transfer[d].op
        /\ transfer'[d].number = transfer[d].number
  BY <1>2, <1>3 DEF Disturbed, Transfer
<1>6. transfer'[c] = t
  BY <1>2 DEF Disturbed
<1>7. transfer' \in [Conn -> Transfer]
  BY <1>2, <1>4, <1>5, <1>6 DEF Disturbed
<1>8. TransfersTypeOK'
  BY <1>1, <1>3, <1>4, <1>5, <1>6, <1>7 DEF TransfersTypeOK
<1>9. /\ t.op = "upload" /\ t.number \in 1..MaxUploads /\ t.done = 0
      /\ t.alone => \A d \in Conn : transfer[d].op # "upload"
  BY <1>4
<1>10. Body(t.number, t.done) = <<>>
  BY <1>9, BodyFacts
<1> HIDE DEF t
<1>11. OneUpload'
  <2> SUFFICES ASSUME NEW d \in Conn, transfer'[d].op = "upload"
               PROVE  /\ transfer'[d].number \in 1..MaxUploads
                      /\ transfer'[d].alone =>
                           /\ file' = Body(transfer'[d].number, transfer'[d].done)
                           /\ \A e \in Conn : e # d => transfer'[e].op # "upload"
                      /\ stored'.upload = 0
    BY DEF OneUpload
  <2>1. stored'.upload = 0
    BY <1>1
  <2>2. CASE d = c
    BY <1>1, <1>5, <1>6, <1>9, <1>10, <2>1, <2>2
  <2>3. CASE d # c
    BY <1>5, <2>1, <2>3 DEF FileInv, OneUpload
  <2> QED
    BY <2>2, <2>3
<1>12. UploadIsStored'
  BY <1>1 DEF UploadIsStored
<1>13. OfStored' /\ DownloadIsWhole'
  BY <1>5, <1>6, <1>9 DEF OfStored, DownloadIsWhole
<1> QED
  BY <1>8, <1>11, <1>12, <1>13 DEF FileInv

\* A part is written: by the only upload that is alone, or by one of several.
LEMMA WriteBodyStep ==
  ASSUME FileInv, TypeOK', NEW c \in Conn, WriteBody(c)
  PROVE  FileInv'
<1> DEFINE k == transfer[c].done
           n == transfer[c].number
           p == [upload |-> n, part |-> k + 1]
<1>1. /\ transfer[c].op = "upload" /\ k < transfer[c].size
      /\ transfer' = [transfer EXCEPT ![c].done = k + 1]
      /\ UNCHANGED <<uploads, downloads, stored>>
  BY DEF WriteBody
<1>2. /\ file \in Seq(Piece) /\ Len(file) \in 0..Parts
      /\ transfer \in [Conn -> Transfer]
      /\ k \in 0..Parts /\ transfer[c].size \in 0..Parts
      /\ Parts \in Nat \ {0}
      /\ \A d \in Conn : transfer[d].done <= transfer[d].size
  BY FileTyped DEF FileInv
<1>3. transfer'[c] = [transfer[c] EXCEPT !.done = k + 1]
      /\ \A d \in Conn : d # c => transfer'[d] = transfer[d]
  BY <1>1, <1>2
<1>4. /\ transfer'[c].op = "upload" /\ transfer'[c].number = n
      /\ transfer'[c].done = k + 1 /\ transfer'[c].size = transfer[c].size
      /\ transfer'[c].alone = transfer[c].alone
      /\ transfer'[c] \in Transfer /\ k + 1 \in 1..Parts
  <2>1. transfer[c] \in Transfer /\ k + 1 \in 1..Parts
    BY <1>1, <1>2
  <2> HIDE DEF k
  <2> QED
    BY <1>1, <1>3, <2>1 DEF Transfer
<1>5. file' = Written(k + 1, p)
  BY <1>4 DEF WriteBody
<1>6. /\ n \in 1..MaxUploads /\ stored.upload = 0
      /\ transfer[c].alone =>
           /\ file = Body(n, k)
           /\ \A d \in Conn : d # c => transfer[d].op # "upload"
  BY <1>1 DEF FileInv, OneUpload
<1>7. p \in Part
  BY <1>4, <1>6 DEF Part
<1>8. file' \in Seq(Piece) /\ Len(file') \in 0..Parts
  BY <1>2, <1>4, <1>5, <1>7, WrittenTyped
<1>9. transfer[c].alone => file' = Body(n, k + 1)
  BY <1>2, <1>5, <1>6, WrittenBody
<1> HIDE DEF k, n, p
<1>10. transfer' \in [Conn -> Transfer]
  BY <1>1, <1>2, <1>3, <1>4
<1>11. \A d \in Conn : transfer'[d].done <= transfer'[d].size
  BY <1>1, <1>2, <1>3, <1>4
<1>12. TransfersTypeOK'
  BY <1>1, <1>8, <1>10, <1>11 DEF FileInv, TransfersTypeOK, Piece
<1>13. \A d \in Conn : transfer'[d].op = transfer[d].op
                       /\ transfer'[d].alone = transfer[d].alone
                       /\ transfer'[d].number = transfer[d].number
  BY <1>1, <1>3, <1>4 DEF n
<1>14. OneUpload'
  <2> SUFFICES ASSUME NEW d \in Conn, transfer'[d].op = "upload"
               PROVE  /\ transfer'[d].number \in 1..MaxUploads
                      /\ transfer'[d].alone =>
                           /\ file' = Body(transfer'[d].number, transfer'[d].done)
                           /\ \A e \in Conn : e # d => transfer'[e].op # "upload"
                      /\ stored'.upload = 0
    BY DEF OneUpload
  <2>1. CASE d = c
    BY <1>1, <1>4, <1>6, <1>9, <1>13, <2>1
  <2>2. CASE d # c
    <3>1. transfer[d].op = "upload" /\ transfer[d].number \in 1..MaxUploads
      BY <1>13 DEF FileInv, OneUpload
    <3>2. ~transfer[d].alone
      BY <1>1, <2>2, <3>1 DEF FileInv, OneUpload
    <3> QED
      BY <1>1, <1>6, <1>13, <3>1, <3>2
  <2> QED
    BY <2>1, <2>2
<1>15. UploadIsStored'
  BY <1>1, <1>6 DEF UploadIsStored
<1>16. OfStored' /\ DownloadIsWhole'
  BY <1>1, <1>6, <1>13 DEF FileInv, OfStored, DownloadIsWhole
<1> QED
  BY <1>12, <1>14, <1>15, <1>16 DEF FileInv

\* A transfer is over: whatever the others rely on stays.
LEMMA NoneTyped ==
  ASSUME TransfersTypeOK, NEW c \in Conn,
         transfer' = [transfer EXCEPT ![c] = None]
  PROVE  /\ transfer' \in [Conn -> Transfer]
         /\ \A d \in Conn : transfer'[d].done <= transfer'[d].size
         /\ transfer'[c].op = "none"
         /\ \A d \in Conn : d # c => transfer'[d] = transfer[d]
<1>1. None \in Transfer /\ None.op = "none" /\ None.done <= None.size
  BY TransferBounds DEF None, Transfer
<1>2. transfer \in [Conn -> Transfer]
      /\ \A d \in Conn : transfer[d].done <= transfer[d].size
  BY FileTyped
<1> QED
  BY <1>1, <1>2

\* The file of an upload that was alone is the stored one from now on; there
\* is no download that was of an earlier one.
LEMMA OnReadBodyStep ==
  ASSUME FileInv, TypeOK', NEW c \in Conn, on_read(c)
  PROVE  FileInv'
<1>1. /\ transfer[c].op = "upload"
      /\ transfer[c].done = transfer[c].size
      /\ transfer' = [transfer EXCEPT ![c] = None]
      /\ stored' = IF transfer[c].alone
                   THEN [upload |-> transfer[c].number, size |-> transfer[c].size]
                   ELSE stored
      /\ UNCHANGED <<file, uploads, downloads>>
  BY DEF on_read
<1>2. /\ transfer' \in [Conn -> Transfer]
      /\ \A d \in Conn : transfer'[d].done <= transfer'[d].size
      /\ transfer'[c].op = "none"
      /\ \A d \in Conn : d # c => transfer'[d] = transfer[d]
  BY <1>1, NoneTyped DEF FileInv
<1>3. /\ transfer[c].number \in 1..MaxUploads
      /\ transfer[c].size \in 0..Parts
      /\ stored \in [upload : 0..MaxUploads, size : 0..Parts]
      /\ MaxUploads \in Nat /\ Parts \in Nat
  BY <1>1, FileTyped DEF FileInv, OneUpload
<1>4. stored' \in [upload : 0..MaxUploads, size : 0..Parts]
  BY <1>1, <1>3
<1>5. TransfersTypeOK'
  BY <1>1, <1>2, <1>4 DEF FileInv, TransfersTypeOK
<1>6. stored.upload = 0
  BY <1>1 DEF FileInv, OneUpload
<1>7. transfer[c].alone => /\ file = Body(transfer[c].number, transfer[c].size)
                           /\ \A d \in Conn : d # c => transfer[d].op # "upload"
  BY <1>1 DEF FileInv, OneUpload
<1>8. OneUpload'
  <2> SUFFICES ASSUME NEW d \in Conn, transfer'[d].op = "upload"
               PROVE  /\ transfer'[d].number \in 1..MaxUploads
                      /\ transfer'[d].alone =>
                           /\ file' = Body(transfer'[d].number, transfer'[d].done)
                           /\ \A e \in Conn : e # d => transfer'[e].op # "upload"
                      /\ stored'.upload = 0
    BY DEF OneUpload
  <2>1. d # c /\ transfer'[d] = transfer[d]
    BY <1>2
  <2>2. ~transfer[c].alone
    BY <1>7, <2>1
  <2>3. ~transfer[d].alone
    BY <1>1, <2>1 DEF FileInv, OneUpload
  <2>4. transfer[d].number \in 1..MaxUploads
    BY <2>1 DEF FileInv, OneUpload
  <2> QED
    BY <1>1, <1>6, <2>1, <2>2, <2>3, <2>4
<1>9. UploadIsStored'
  <2>1. CASE transfer[c].alone
    BY <1>1, <1>7, <2>1 DEF UploadIsStored
  <2>2. CASE ~transfer[c].alone
    BY <1>1, <1>6, <2>2 DEF UploadIsStored
  <2> QED
    BY <2>1, <2>2
<1>10. OfStored' /\ DownloadIsWhole'
  BY <1>2, <1>6 DEF FileInv, OfStored, DownloadIsWhole
<1> QED
  BY <1>5, <1>8, <1>9, <1>10 DEF FileInv

\* A transfer ends without changing what is stored.
LEMMA EndStep ==
  ASSUME FileInv, TypeOK', NEW c \in Conn,
         Sent(c) \/ CutOffUpload(c) \/ CutOffDownload(c)
  PROVE  FileInv'
<1>1. /\ transfer' = [transfer EXCEPT ![c] = None]
      /\ UNCHANGED <<file, uploads, downloads, stored>>
  BY DEF Sent, CutOffUpload, CutOffDownload
<1>2. /\ transfer' \in [Conn -> Transfer]
      /\ \A d \in Conn : transfer'[d].done <= transfer'[d].size
      /\ transfer'[c].op = "none"
      /\ \A d \in Conn : d # c => transfer'[d] = transfer[d]
  BY <1>1, NoneTyped DEF FileInv
<1>3. TransfersTypeOK'
  BY <1>1, <1>2 DEF FileInv, TransfersTypeOK
<1>4. OneUpload'
  BY <1>1, <1>2 DEF FileInv, OneUpload
<1>5. UploadIsStored' /\ OfStored' /\ DownloadIsWhole'
  BY <1>1, <1>2 DEF FileInv, UploadIsStored, OfStored, DownloadIsWhole
<1> QED
  BY <1>3, <1>4, <1>5 DEF FileInv

\* A download opens: what is stored is what the file holds.
LEMMA OpenDownloadStep ==
  ASSUME FileInv, TypeOK', NEW c \in Conn, OpenDownload(c)
  PROVE  FileInv'
<1> DEFINE t == [op |-> "download", number |-> 0, size |-> Len(file), done |-> 0,
                 alone |-> stored.upload # 0, got |-> <<>>]
<1>1. /\ transfer[c].op = "none" /\ downloads < MaxDownloads
      /\ downloads' = downloads + 1
      /\ transfer' = [transfer EXCEPT ![c] = t]
      /\ UNCHANGED <<file, uploads, stored>>
  BY DEF OpenDownload
<1>2. /\ transfer \in [Conn -> Transfer] /\ Len(file) \in 0..Parts
      /\ \A d \in Conn : transfer[d].done <= transfer[d].size
      /\ downloads \in 0..MaxDownloads /\ MaxDownloads \in Nat
      /\ stored \in [upload : 0..MaxUploads, size : 0..Parts]
      /\ Parts \in Nat \ {0} /\ MaxUploads \in Nat
  BY FileTyped DEF FileInv
<1>3. t \in Transfer /\ t.done <= t.size
  BY <1>2 DEF Transfer
<1>4. stored.upload # 0 =>
        t.size = stored.size /\ t.got = Body(stored.upload, t.done)
  <2>1. stored.size \in Nat
    BY <1>2
  <2>2. Len(Body(stored.upload, stored.size)) = stored.size
        /\ Body(stored.upload, 0) = <<>>
    BY <2>1, BodyFacts
  <2> QED
    BY <2>2 DEF FileInv, UploadIsStored
<1>5. t.op = "download" /\ (t.alone => stored.upload # 0)
  OBVIOUS
<1> HIDE DEF t
<1>6. transfer'[c] = t /\ \A d \in Conn : d # c => transfer'[d] = transfer[d]
  BY <1>1, <1>2
<1>7. /\ transfer' \in [Conn -> Transfer]
      /\ \A d \in Conn : transfer'[d].done <= transfer'[d].size
      /\ downloads' \in 0..MaxDownloads
  BY <1>1, <1>2, <1>3, <1>6
<1>8. TransfersTypeOK'
  BY <1>1, <1>7 DEF FileInv, TransfersTypeOK
<1>9. OneUpload'
  BY <1>1, <1>5, <1>6 DEF FileInv, OneUpload
<1>10. UploadIsStored' /\ OfStored' /\ DownloadIsWhole'
  BY <1>1, <1>4, <1>5, <1>6
  DEF FileInv, UploadIsStored, OfStored, DownloadIsWhole
<1> QED
  BY <1>8, <1>9, <1>10 DEF FileInv

\* The next part of a download is the stored body's next part.
LEMMA SendPartStep ==
  ASSUME FileInv, TypeOK', NEW c \in Conn, SendPart(c)
  PROVE  FileInv'
<1> DEFINE k == transfer[c].done
           g == Append(transfer[c].got, file[k + 1])
<1>1. /\ transfer[c].op = "download" /\ k < transfer[c].size /\ k < Len(file)
      /\ transfer' = [transfer EXCEPT ![c].done = k + 1, ![c].got = g]
      /\ UNCHANGED <<file, uploads, downloads, stored>>
  BY DEF SendPart
<1>2. /\ transfer \in [Conn -> Transfer]
      /\ file \in Seq(Piece) /\ Len(file) \in 0..Parts
      /\ k \in 0..Parts /\ transfer[c].size \in 0..Parts
      /\ transfer[c].got \in Seq(Piece)
      /\ \A d \in Conn : transfer[d].done <= transfer[d].size
      /\ stored \in [upload : 0..MaxUploads, size : 0..Parts]
      /\ Parts \in Nat \ {0} /\ MaxUploads \in Nat
  BY FileTyped DEF FileInv
<1>3. k + 1 \in 1..Parts /\ k + 1 <= transfer[c].size /\ k \in Nat
      /\ file[k + 1] \in Piece
  BY <1>1, <1>2
<1>4. g \in Seq(Piece)
  BY <1>2, <1>3, AppendTyped
<1>5. transfer[c].alone => /\ stored.upload # 0
                           /\ transfer[c].size = stored.size
                           /\ g = Body(stored.upload, k + 1)
  <2> SUFFICES ASSUME transfer[c].alone
               PROVE  /\ stored.upload # 0
                      /\ transfer[c].size = stored.size
                      /\ g = Body(stored.upload, k + 1)
    OBVIOUS
  <2>1. /\ stored.upload # 0 /\ transfer[c].size = stored.size
        /\ transfer[c].got = Body(stored.upload, k)
        /\ file = Body(stored.upload, stored.size)
    BY <1>1 DEF FileInv, OfStored, DownloadIsWhole, UploadIsStored
  <2>2. stored.size \in Nat /\ k + 1 \in 1..stored.size
    BY <1>2, <1>3, <2>1
  <2>3. file[k + 1] = [upload |-> stored.upload, part |-> k + 1]
    <3>1. \A j \in 1..stored.size :
            Body(stored.upload, stored.size)[j]
              = [upload |-> stored.upload, part |-> j]
      BY <2>2, BodyFacts
    <3> QED
      BY <2>1, <2>2, <3>1
  <2> QED
    BY <1>3, <2>1, <2>3, BodyFacts
<1> HIDE DEF g
<1>6. transfer'[c] = [transfer[c] EXCEPT !.done = k + 1, !.got = g]
      /\ \A d \in Conn : d # c => transfer'[d] = transfer[d]
  BY <1>1, <1>2
<1>7. /\ transfer'[c].op = "download" /\ transfer'[c].done = k + 1
      /\ transfer'[c].size = transfer[c].size /\ transfer'[c].got = g
      /\ transfer'[c].alone = transfer[c].alone
      /\ transfer'[c].number = transfer[c].number
      /\ transfer'[c] \in Transfer
  <2>1. transfer[c] \in Transfer /\ k + 1 \in 0..Parts
    BY <1>2, <1>3
  <2> HIDE DEF k
  <2>2. /\ transfer'[c].op = transfer[c].op /\ transfer'[c].done = k + 1
        /\ transfer'[c].size = transfer[c].size /\ transfer'[c].got = g
        /\ transfer'[c].alone = transfer[c].alone
        /\ transfer'[c].number = transfer[c].number
    BY <1>6, <2>1 DEF Transfer
  <2>3. transfer'[c] \in Transfer
    BY <1>4, <1>6, <2>1 DEF Transfer, Piece
  <2> QED
    BY <1>1, <2>2, <2>3
<1> HIDE DEF k
<1>8. transfer' \in [Conn -> Transfer]
      /\ \A d \in Conn : transfer'[d].done <= transfer'[d].size
  BY <1>1, <1>2, <1>3, <1>6, <1>7
<1>9. TransfersTypeOK'
  BY <1>1, <1>8 DEF FileInv, TransfersTypeOK
<1>10. OneUpload'
  <2>1. transfer'[c].op # "upload" /\ file' = file /\ stored' = stored
    BY <1>1, <1>7
  <2>2. \A d \in Conn :
          transfer'[d].op = "upload" => d # c /\ transfer'[d] = transfer[d]
    BY <1>6, <2>1
  <2> QED
    BY <2>1, <2>2 DEF FileInv, OneUpload
<1>11. UploadIsStored'
  BY <1>1 DEF FileInv, UploadIsStored
<1>12. stored' = stored
  BY <1>1
<1>13. ASSUME NEW d \in Conn,
              transfer'[d].op = "download", transfer'[d].alone
       PROVE  /\ stored'.upload # 0
              /\ transfer'[d].size = stored'.size
              /\ transfer'[d].got = Body(stored'.upload, transfer'[d].done)
  <2>1. CASE d = c
    BY <1>5, <1>7, <1>12, <1>13, <2>1
  <2>2. CASE d # c
    <3>1. transfer'[d] = transfer[d]
      BY <1>6, <2>2
    <3> QED
      BY <1>12, <1>13, <3>1 DEF FileInv, OfStored, DownloadIsWhole
  <2> QED
    BY <2>1, <2>2
<1>14. OfStored' /\ DownloadIsWhole'
  BY <1>13 DEF OfStored, DownloadIsWhole
<1> QED
  BY <1>9, <1>10, <1>11, <1>14 DEF FileInv

-----------------------------------------------------------------------------
(* The server with its transfers.                                          *)

\* A step of a transfer is none of the server's, or the end of a session.
LEMMA ServerMayStep == TransfersNext => [Next]_vars
<1> SUFFICES ASSUME TransfersNext PROVE [Next]_vars
  OBVIOUS
<1>1. CASE ServerStep
  BY <1>1 DEF ServerStep, Next
<1>2. ASSUME NEW c \in Conn,
             \/ \E size \in 1..Parts : OpenUpload(c, size)
             \/ OpenDownload(c)
             \/ TransferStep(c)
      PROVE  [Next]_vars
  <2>1. CASE CutOffUpload(c) \/ CutOffDownload(c)
    BY <2>1 DEF CutOffUpload, CutOffDownload, Next
  <2>2. CASE ~(CutOffUpload(c) \/ CutOffDownload(c))
    BY <1>2, <2>2
    DEF OpenUpload, OpenDownload, TransferStep, WriteBody, on_read, SendPart,
        Sent
  <2> QED
    BY <2>1, <2>2
<1> QED
  BY <1>1, <1>2 DEF TransfersNext

LEMMA FilePreserves ==
  FileInv /\ TypeOK' /\ [TransfersNext]_server => FileInv'
<1> SUFFICES ASSUME FileInv, TypeOK', [TransfersNext]_server PROVE FileInv'
  OBVIOUS
<1>1. CASE UNCHANGED disk
  BY <1>1
  DEF disk, FileInv, TransfersTypeOK, OneUpload, UploadIsStored, OfStored,
      DownloadIsWhole
<1>2. ASSUME NEW c \in Conn,
             \/ \E size \in 1..Parts : OpenUpload(c, size)
             \/ OpenDownload(c)
             \/ TransferStep(c)
      PROVE  FileInv'
  BY <1>2, OpenUploadStep, OpenDownloadStep, WriteBodyStep, OnReadBodyStep,
     SendPartStep, EndStep DEF TransferStep
<1> QED
  BY <1>1, <1>2 DEF TransfersNext, ServerStep, server

\* What the server does, seen without its transfers, is what HttpServer does:
\* every theorem about Spec holds of TransfersSpec.
THEOREM TransfersImplementServer == TransfersSpec => Spec
<1>1. TransfersInit => Init
  BY DEF TransfersInit
<1>2. [TransfersNext]_server => [Next]_vars
  BY ServerMayStep DEF server
<1> QED
  BY <1>1, <1>2, PTL DEF TransfersSpec, Spec

LEMMA TransfersInvariance == TransfersSpec => []FileInv
<1>1. Spec => []TypeOK
  <2>1. ServerInv => TypeOK
    BY DEF ServerInv
  <2> QED
    BY <2>1, ServerInit, ServerPreserves, PTL DEF Spec
<1> QED
  BY <1>1, FileInit, FilePreserves, TransfersImplementServer, PTL
  DEF TransfersSpec

\* Every variable of the server and of its transfers keeps its type: no body
\* is read past its end, and the file never outgrows the largest body.
THEOREM TransfersTypeCorrect == TransfersSpec => []TransfersTypeOK
<1>1. FileInv => TransfersTypeOK
  BY DEF FileInv
<1> QED
  BY <1>1, TransfersInvariance, PTL

\* start returns only when every thread has left, whatever was being uploaded
\* or downloaded.
THEOREM TransfersReturnQuiet == TransfersSpec => []ReturnsQuiet
BY ServerReturnsQuiet, TransfersImplementServer, PTL

\* An upload that no other has overlapped is in the file as it was sent, for
\* any number of connections and bodies of any length.
THEOREM UploadsAreStored == TransfersSpec => []UploadIsStored
<1>1. FileInv => UploadIsStored
  BY DEF FileInv
<1> QED
  BY <1>1, TransfersInvariance, PTL

\* A download of it is whole.
THEOREM DownloadsAreWhole == TransfersSpec => []DownloadIsWhole
<1>1. FileInv => DownloadIsWhole
  BY DEF FileInv
<1> QED
  BY <1>1, TransfersInvariance, PTL

\* Nothing touches the uploaded file once start has returned: the handlers
\* that hold it run only in threads that start has waited for.
THEOREM FileRestsAfterStart ==
  TransfersSpec => [][start = "returned" => UNCHANGED disk]_server
<1>1. ReturnsQuiet /\ [TransfersNext]_server
        => [start = "returned" => UNCHANGED disk]_server
  <2> SUFFICES ASSUME ReturnsQuiet, TransfersNext, start = "returned"
               PROVE  UNCHANGED disk
    BY DEF server
  <2>1. stopped
    BY DEF ReturnsQuiet
  <2> QED
    BY <2>1
    DEF TransfersNext, ServerStep, OpenUpload, OpenDownload, TransferStep,
        WriteBody, on_read, CutOffUpload, SendPart, Sent, CutOffDownload,
        SessionEnds, Serves, Running
<1>2. TransfersSpec => [][TransfersNext]_server
  BY DEF TransfersSpec
<1> QED
  BY <1>1, <1>2, TransfersReturnQuiet, PTL

-----------------------------------------------------------------------------
(* What a transfer waits for.                                              *)

\* Only connections that are being served transfer anything.
Served == \A c \in Conn : transfer[c].op # "none" => conn[c] = "served"

LEMMA ServedKept ==
  ASSUME FileInv, Served, [TransfersNext]_server
  PROVE  Served'
<1>1. transfer \in [Conn -> Transfer]
      /\ conn \in [Conn -> {"none", "backlog", "served", "over"}]
  BY FileTyped DEF FileInv, TransfersTypeOK, TypeOK
<1>2. CASE UNCHANGED server
  BY <1>2 DEF server, vars, disk, Served
<1>3. CASE ServerStep
  BY <1>1, <1>3
  DEF ServerStep, disk, Served, Launch, RunItself, StartRunReturns, Spawn,
      RunReturns, Join, Joined, Returns, stop, Signal, OnSignal, OnAccept,
      Connect, SessionEnds, OnAcceptError, Terminated, joins, vars
<1>4. ASSUME NEW c \in Conn, NEW size \in 1..Parts, OpenUpload(c, size)
      PROVE  Served'
  <2>1. conn' = conn /\ conn[c] = "served"
    BY <1>4 DEF OpenUpload, Serves, vars
  <2>2. \A d \in Conn : d # c => transfer'[d].op = transfer[d].op
    BY <1>1, <1>4 DEF OpenUpload, Disturbed, Transfer
  <2> QED
    BY <2>1, <2>2 DEF Served
<1>5. ASSUME NEW c \in Conn,
             OpenDownload(c) \/ WriteBody(c) \/ on_read(c) \/ SendPart(c) \/ Sent(c)
      PROVE  Served'
  <2>1. conn' = conn /\ conn[c] = "served"
    BY <1>5 DEF OpenDownload, WriteBody, on_read, SendPart, Sent, Serves, vars
  <2>2. \A d \in Conn : d # c => transfer'[d] = transfer[d]
    BY <1>1, <1>5 DEF OpenDownload, WriteBody, on_read, SendPart, Sent
  <2> QED
    BY <2>1, <2>2 DEF Served
<1>6. ASSUME NEW c \in Conn, CutOffUpload(c) \/ CutOffDownload(c)
      PROVE  Served'
  <2>1. /\ transfer' = [transfer EXCEPT ![c] = None]
        /\ conn' = [conn EXCEPT ![c] = "over"]
    BY <1>6 DEF CutOffUpload, CutOffDownload, SessionEnds
  <2>2. transfer'[c].op = "none"
    BY <1>1, <2>1 DEF None
  <2> QED
    BY <1>1, <2>1, <2>2 DEF Served
<1> QED
  BY <1>2, <1>3, <1>4, <1>5, <1>6 DEF TransfersNext, TransferStep

\* An unfinished transfer is never without a thread that can run its next
\* handler or the one of its timer, unless the server is stopped.
THEOREM TransfersAreServed ==
  TransfersSpec => [](\A c \in Conn :
                        transfer[c].op # "none" => Serves(c) \/ stopped)
<1>1. TransfersInit => Served
  BY DEF TransfersInit, Served, None
<1>2. FileInv /\ Served /\ [TransfersNext]_server => Served'
  BY ServedKept
<1>3. TransfersSpec => [](Served /\ Progressing)
  BY <1>1, <1>2, TransfersInvariance, TransfersImplementServer,
     ProgressingHolds, PTL DEF TransfersSpec
<1>4. Served /\ Progressing
        => \A c \in Conn : transfer[c].op # "none" => Serves(c) \/ stopped
  BY DEF Served, Progressing, Serves
<1> QED
  BY <1>3, <1>4, PTL

-----------------------------------------------------------------------------
(* The joins of a server that only a signal stops.                         *)

NobodyCallsStop == stopper = "idle"

\* start alone joins the elements of v, each of them once.
JoinedOnce ==
  /\ start # "thrown"
  /\ joining["stop"] = 0
  /\ \A w \in Worker : handle[w] = "joined" => w < at["start"]

LEMMA JoinedOnceKept ==
  ASSUME ServerInv, JoinedOnce, NobodyCallsStop, [Next]_vars
  PROVE  JoinedOnce'
<1>0. /\ Extra \in Nat
      /\ handle \in [Worker -> {"joinable", "joined"}]
      /\ joining \in [Joiner -> 0..Extra] /\ at \in [Joiner -> 1..Extra + 1]
      /\ "start" \in Joiner /\ "stop" \in Joiner /\ Joiner = {"start", "stop"}
  BY ExtraIsNatural DEF ServerInv, TypeOK, Joiner
<1>1. ASSUME NEW j \in Joiner, Join(j) \/ Joined(j) \/ Returns(j)
      PROVE  j = "start"
  BY <1>0, <1>1
  DEF Join, Joined, Returns, Stage, JoinedOnce, NobodyCallsStop
<1>2. CASE Join("start")
  <2>1. at["start"] \in Worker
    BY <1>0, <1>2 DEF Join, Worker
  <2>2. ~(at["start"] < at["start"])
    BY <1>0
  <2>3. handle[at["start"]] # "joined"
    BY <2>1, <2>2 DEF JoinedOnce
  <2>4. /\ joining' = [joining EXCEPT !["start"] = at["start"]]
        /\ UNCHANGED <<start, handle, at>>
    BY <1>2, <2>3 DEF Join
  <2> QED
    BY <1>0, <2>4 DEF JoinedOnce
<1>3. CASE Joined("start")
  <2>1. joining["start"] # 0 /\ joining["start"] = at["start"]
    BY <1>0, <1>3 DEF Joined, ServerInv, JoinsInTurn
  <2>2. at["start"] \in Worker /\ ~(at["start"] < at["start"])
    BY <1>0, <2>1 DEF Worker
  <2>3. handle[at["start"]] # "joined"
    BY <2>2 DEF JoinedOnce
  <2>4. /\ joining' = [joining EXCEPT !["start"] = 0]
        /\ handle' = [handle EXCEPT ![at["start"]] = "joined"]
        /\ at' = [at EXCEPT !["start"] = @ + 1] /\ start' = start
    BY <1>3, <2>1, <2>3 DEF Joined
  <2>5. at'["start"] = at["start"] + 1 /\ joining'["stop"] = 0
    BY <1>0, <2>4 DEF JoinedOnce
  <2>6. ASSUME NEW w \in Worker, handle'[w] = "joined"
        PROVE  w < at'["start"]
    <3>1. w = at["start"] \/ w < at["start"]
      BY <1>0, <2>4, <2>6 DEF JoinedOnce
    <3> QED
      BY <1>0, <2>5, <3>1 DEF Worker
  <2> QED
    BY <2>4, <2>5, <2>6 DEF JoinedOnce
<1>4. CASE Returns("start")
  BY <1>4 DEF Returns, Becomes, joins, JoinedOnce
<1>5. CASE ~\E j \in Joiner : Join(j) \/ Joined(j) \/ Returns(j)
  BY <1>5
  DEF Next, Launch, RunItself, StartRunReturns, Spawn, RunReturns, stop, Signal,
      OnSignal, OnAccept, SessionEnds, Connect, OnAcceptError, Terminated, joins,
      vars, JoinedOnce
<1> QED
  BY <1>1, <1>2, <1>3, <1>4, <1>5

\* As long as nobody calls stop, start joins every thread and throws nothing:
\* what HttpServerJoin.cfg finds needs both to join.
THEOREM SignalledJoinsSucceed == Spec /\ []NobodyCallsStop => []JoinsSucceed
<1>1. Init => JoinedOnce
  BY DEF Init, JoinedOnce, Joiner
<1>2. JoinedOnce /\ NobodyCallsStop => JoinsSucceed
  BY DEF JoinedOnce, NobodyCallsStop, JoinsSucceed
<1>3. ServerInv /\ JoinedOnce /\ NobodyCallsStop /\ [Next]_vars => JoinedOnce'
  BY JoinedOnceKept
<1>4. Spec => Init /\ [][Next]_vars
  BY DEF Spec
<1>5. Spec => []ServerInv
  BY <1>4, ServerInit, ServerPreserves, PTL
<1> QED
  BY <1>1, <1>2, <1>3, <1>4, <1>5, PTL
=============================================================================
