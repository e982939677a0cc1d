-------------------------- MODULE TaskQueueProofs --------------------------
(***************************************************************************)
(* Proofs about TaskQueue for any sets of commands, closures, identifiers  *)
(* and producer threads.  The inductive invariant has three layers, each   *)
(* proved from the ones before it:                                         *)
(*   Control  who holds the mutex and where each thread can be;            *)
(*   Wake     a sleeping worker with work to do is about to be notified;   *)
(*   Order    what the queue holds, what has finished, and that every      *)
(*            submitted task is accounted for.                             *)
(* Then come what the mutex and the join protect, and progress: somebody   *)
(* can always go on, and the destructor gets to its join.                  *)
(***************************************************************************)
EXTENDS TaskQueue, QueueFacts, TLAPS

\* The thread in a critical section holds the mutex.
LockHeld ==
  /\ \A t \in Thread : pc[t] = "push" => mtx = t
  /\ pc["client"] = "set_stop" => mtx = "client"
  /\ wpc \in {"pred", "block"} => mtx = "worker"

\* Where the threads other than the client can be, and what they carry.
Places ==
  /\ \A t \in Thread : pc[t] \in Adding => arg[t] \in Task
  /\ \A t \in Thread : t # "client" => pc[t] \in Adding \cup {"idle"}
  /\ \A t \in Thread : t # "client" /\ pc[t] \in Adding => arg[t] \in Closure
  /\ pc["worker"] # "idle" => wpc = "run"

\* The destructor has set stop.
Stopping == pc["client"] \in {"notify_all", "join", "destroyed"}

\* Once the destructor has started only a running task may still add tasks;
\* the worker leaves only after stop was set, and with the queue empty.
Closing ==
  /\ pc["client"] \in Destroying => \A p \in Producer : pc[p] = "idle"
  /\ pc["client"] = "destroyed" => wpc = "exited"
  /\ wpc = "exited" => Stopping /\ tasks = <<>>
  /\ wpc = "block" => ~Stopping /\ tasks = <<>>

StopSet == stop <=> Stopping

Control == TypeOK /\ LockHeld /\ Places /\ Closing /\ StopSet

-----------------------------------------------------------------------------

\* The constructor establishes the control invariant.
LEMMA ControlInit == Init => Control
<1> SUFFICES ASSUME Init PROVE Control
  OBVIOUS
<1> USE DEF Init, Thread
<1>1. TypeOK
  <2>1. tasks \in Seq(Task) /\ pushed \in Seq(Task)
    OBVIOUS
  <2>2. /\ DOMAIN task_results \subseteq TaskId
        /\ \A id \in DOMAIN task_results : task_results[id] \in Command
    OBVIOUS
  <2> QED
    BY <2>1, <2>2 DEF TypeOK, Adding, Destroying, Finished
<1>2. LockHeld /\ Places
  BY DEF LockHeld, Places, Adding
<1>3. Closing
  BY DEF Closing, Destroying
<1>4. StopSet
  BY DEF StopSet, Stopping
<1> QED
  BY <1>1, <1>2, <1>3, <1>4 DEF Control

\* No step takes a variable out of its type.
LEMMA TypeStep == Control /\ [Next]_vars => TypeOK'
<1> SUFFICES ASSUME Control, [Next]_vars PROVE TypeOK'
  OBVIOUS
<1> USE DEF Control, TypeOK, Adding, Destroying, Finished
<1>1. ASSUME NEW t \in Thread, NEW k \in Closure, add_task(t, k) PROVE TypeOK'
  <2>1. k \in Task /\ add_task(t, k)
    BY <1>1 DEF Task
  <2>2. /\ state' \in [Task -> {"fresh", "pending"} \cup Finished]
        /\ arg' \in [Thread -> Task \cup {None}]
        /\ pc' \in [Thread -> {"idle", "get"} \cup Adding \cup Destroying]
    BY <2>1 DEF add_task, EnterAddTask
  <2>3. UNCHANGED <<mtx, tasks, stop, task_results, wpc, cur, wanted, ret, pushed>>
    BY <2>1 DEF add_task
  <2> QED
    BY <2>2, <2>3
<1>2. ASSUME NEW c \in Command, NEW id \in TaskId, run_command_async(c, id)
      PROVE TypeOK'
  BY <1>2 DEF run_command_async, EnterAddTask, Task, Thread
<1>3. ASSUME NEW id \in TaskId, query_task_result(id) PROVE TypeOK'
  BY <1>3 DEF query_task_result, QueryAnswer
<1>4. ASSUME NEW id \in TaskId, get_task_result(id) PROVE TypeOK'
  BY <1>4 DEF get_task_result, GetNothing, GetWait
<1>5. CASE DtorStart
  BY <1>5 DEF DtorStart
<1>6. ASSUME NEW t \in Thread, AddStep(t) PROVE TypeOK'
  <2>1. CASE AddLock(t)
    BY <2>1 DEF AddLock
  <2>2. CASE AddPush(t)
    <3>1. arg[t] \in Task
      BY <2>2 DEF AddPush, Places
    <3> QED
      BY <2>2, <3>1, AppendTyped DEF AddPush
  <2>3. CASE AddNotify(t)
    BY <2>3 DEF AddNotify, Wake
  <2> QED
    BY <1>6, <2>1, <2>2, <2>3 DEF AddStep
<1>7. CASE ClientStep
  <2>1. CASE GetReturn
    BY <2>1 DEF GetReturn
  <2>2. CASE DtorLock \/ DtorJoin
    BY <2>2 DEF DtorLock, DtorJoin, Thread
  <2>3. CASE DtorStop
    BY <2>3 DEF DtorStop
  <2>4. CASE DtorNotify
    BY <2>4 DEF DtorNotify, Wake
  <2> QED
    BY <1>7, <2>1, <2>2, <2>3, <2>4 DEF ClientStep
<1>8. CASE WorkerStep
  <2>1. CASE WorkerPred
    <3>1. CASE PredPop
      BY <2>1, <3>1, TailTyped DEF WorkerPred, PredPop
    <3> QED
      BY <2>1, <3>1 DEF WorkerPred, PredFalse, PredBreak
  <2>2. CASE WorkerRun
    BY <2>2 DEF WorkerRun
  <2> QED
    BY <1>8, <2>1, <2>2 DEF WorkerStep, WorkerAcquire, WorkerBlock, Thread
<1>9. CASE SpuriousWakeup \/ Terminated \/ UNCHANGED vars
  BY <1>9 DEF SpuriousWakeup, Terminated, vars
<1> QED
  BY <1>1, <1>2, <1>3, <1>4, <1>5, <1>6, <1>7, <1>8, <1>9 DEF Next

\* No step sets stop but the destructor's.
LEMMA StopStep == Control /\ [Next]_vars => StopSet'
<1> SUFFICES ASSUME Control, [Next]_vars PROVE StopSet'
  OBVIOUS
<1>1. pc \in [Thread -> {"idle", "get"} \cup Adding \cup Destroying]
      /\ "client" \in Thread
  BY DEF Control, TypeOK, Thread
<1>2. CASE DtorStop
  BY <1>1, <1>2 DEF DtorStop, StopSet, Stopping
<1>3. ASSUME ~DtorStop PROVE (stop' <=> stop) /\ (Stopping' <=> Stopping)
  <2> USE <1>1 DEF Stopping
  <2>1. ASSUME NEW t \in Thread, NEW k \in Closure, add_task(t, k)
        PROVE (stop' <=> stop) /\ (Stopping' <=> Stopping)
    BY <2>1 DEF add_task, MayAdd, EnterAddTask
  <2>2. ASSUME NEW c \in Command, NEW id \in TaskId, run_command_async(c, id)
        PROVE (stop' <=> stop) /\ (Stopping' <=> Stopping)
    BY <2>2 DEF run_command_async, EnterAddTask
  <2>3. ASSUME NEW id \in TaskId, query_task_result(id) \/ get_task_result(id)
        PROVE (stop' <=> stop) /\ (Stopping' <=> Stopping)
    <3>1. CASE query_task_result(id)
      BY <3>1 DEF query_task_result
    <3>2. CASE GetNothing(id)
      BY <3>2 DEF GetNothing
    <3>3. CASE GetWait(id)
      BY <3>3 DEF GetWait
    <3> QED
      BY <2>3, <3>1, <3>2, <3>3 DEF get_task_result
  <2>4. CASE DtorStart
    BY <2>4 DEF DtorStart
  <2>5. ASSUME NEW t \in Thread, AddStep(t)
        PROVE (stop' <=> stop) /\ (Stopping' <=> Stopping)
    BY <2>5 DEF AddStep, AddLock, AddPush, AddNotify
  <2>6. CASE ClientStep
    BY <2>6, <1>3 DEF ClientStep, GetReturn, DtorLock, DtorNotify, DtorJoin
  <2>7. CASE WorkerStep
    BY <2>7 DEF WorkerStep, WorkerAcquire, WorkerPred, WorkerBlock, WorkerRun
  <2>8. CASE SpuriousWakeup \/ Terminated \/ UNCHANGED vars
    BY <2>8 DEF SpuriousWakeup, Terminated, vars
  <2> HIDE DEF Stopping
  <2> QED
    BY <2>1, <2>2, <2>3, <2>4, <2>5, <2>6, <2>7, <2>8 DEF Next
<1> QED
  BY <1>2, <1>3 DEF Control, StopSet

\* No step breaks mutual exclusion, moves a thread to an impossible place or
\* lets the worker leave before the queue is closed and empty.
LEMMA ControlStep == Control /\ [Next]_vars => Control'
<1> SUFFICES ASSUME Control, [Next]_vars PROVE Control'
  OBVIOUS
<1>t. TypeOK' /\ StopSet'
  BY TypeStep, StopStep
<1> DEFINE Rest == LockHeld /\ Places /\ Closing
<1>s. SUFFICES Rest'
  BY <1>t DEF Control
<1>c. "client" \in Thread /\ "worker" \in Thread /\ Closure \subseteq Task
      /\ Command \subseteq Task /\ None \notin Thread
  BY NoneIsFresh DEF Thread, Task
<1>p. \A p \in Producer : p \in Thread /\ p # "client" /\ p # "worker"
  BY ProducersAreOthers DEF Thread
<1>q. \A t \in Thread : t \in Producer \/ t = "client" \/ t = "worker"
  BY DEF Thread
<1>f. /\ pc \in [Thread -> {"idle", "get"} \cup Adding \cup Destroying]
      /\ arg \in [Thread -> Task \cup {None}]
  BY DEF Control, TypeOK
<1>h. LockHeld /\ Places /\ Closing
  BY DEF Control
<1> USE <1>c, <1>p, <1>q, <1>f, <1>h
    DEF LockHeld, Places, Closing, Stopping, Adding, Destroying
<1>1. ASSUME NEW t \in Thread, NEW k \in Closure, add_task(t, k) PROVE Rest'
  BY <1>1 DEF add_task, MayAdd, EnterAddTask
<1>2. ASSUME NEW c \in Command, NEW id \in TaskId, run_command_async(c, id)
      PROVE Rest'
  BY <1>2 DEF run_command_async, EnterAddTask
<1>3. ASSUME NEW id \in TaskId, query_task_result(id) PROVE Rest'
  BY <1>3 DEF query_task_result
<1>4. ASSUME NEW id \in TaskId, get_task_result(id) PROVE Rest'
  <2>1. CASE GetNothing(id)
    BY <2>1 DEF GetNothing
  <2>2. CASE GetWait(id)
    BY <2>2 DEF GetWait
  <2> QED
    BY <1>4, <2>1, <2>2 DEF get_task_result
<1>5. CASE DtorStart
  BY <1>5 DEF DtorStart
<1>6. ASSUME NEW t \in Thread, AddStep(t) PROVE Rest'
  <2>1. CASE AddLock(t)
    BY <2>1 DEF AddLock
  <2>2. CASE AddPush(t)
    BY <2>2 DEF AddPush
  <2>3. CASE AddNotify(t)
    BY <2>3 DEF AddNotify, Wake
  <2> QED
    BY <1>6, <2>1, <2>2, <2>3 DEF AddStep
<1>7. CASE ClientStep
  <2>1. CASE GetReturn
    BY <2>1 DEF GetReturn
  <2>2. CASE DtorLock
    BY <2>2 DEF DtorLock
  <2>3. CASE DtorStop
    BY <2>3 DEF DtorStop
  <2>4. CASE DtorNotify
    BY <2>4 DEF DtorNotify, Wake
  <2>5. CASE DtorJoin
    BY <2>5 DEF DtorJoin
  <2> QED
    BY <1>7, <2>1, <2>2, <2>3, <2>4, <2>5 DEF ClientStep
<1>8. CASE WorkerStep
  <2>1. CASE WorkerAcquire
    BY <2>1 DEF WorkerAcquire
  <2>2. CASE WorkerPred
    <3>1. stop <=> Stopping
      BY DEF Control, StopSet
    <3>2. CASE PredFalse
      BY <2>2, <3>1, <3>2 DEF WorkerPred, PredFalse
    <3>3. CASE PredBreak
      BY <2>2, <3>1, <3>3 DEF WorkerPred, PredBreak
    <3>4. CASE PredPop
      BY <2>2, <3>4 DEF WorkerPred, PredPop
    <3> QED
      BY <2>2, <3>2, <3>3, <3>4 DEF WorkerPred
  <2>3. CASE WorkerBlock
    BY <2>3 DEF WorkerBlock
  <2>4. CASE WorkerRun
    BY <2>4 DEF WorkerRun
  <2> QED
    BY <1>8, <2>1, <2>2, <2>3, <2>4 DEF WorkerStep
<1>9. CASE SpuriousWakeup \/ Terminated \/ UNCHANGED vars
  BY <1>9 DEF SpuriousWakeup, Terminated, vars
<1> HIDE DEF Rest
<1> QED
  BY <1>1, <1>2, <1>3, <1>4, <1>5, <1>6, <1>7, <1>8, <1>9 DEF Next

\* The control layer holds in every reachable state.
LEMMA ControlInvariant == Spec => []Control
BY ControlInit, ControlStep, PTL DEF Spec

\* Every reachable state is well typed: TaskQueue never pushes something
\* that is not a task, and every thread stays within its operations.
THEOREM TypeCorrect == Spec => []TypeOK
<1>1. Control => TypeOK
  BY DEF Control
<1> QED
  BY <1>1, ControlInvariant, PTL

-----------------------------------------------------------------------------
(* No lost wakeup.                                                         *)

\* A step leaves a sleeping worker with work to do only if the thread that
\* gave it the work, or set stop, has still to notify it.
LEMMA WakeStep == Control /\ NoLostWakeup /\ [Next]_vars => NoLostWakeup'
<1> SUFFICES ASSUME Control, NoLostWakeup, [Next]_vars PROVE NoLostWakeup'
  OBVIOUS
<1>c. "client" \in Thread /\ "worker" \in Thread
  BY DEF Thread
<1> USE <1>c DEF Control, TypeOK, NoLostWakeup, Adding, Destroying
<1>1. ASSUME NEW t \in Thread, NEW k \in Closure, add_task(t, k)
      PROVE NoLostWakeup'
  BY <1>1 DEF add_task, MayAdd, EnterAddTask
<1>2. ASSUME NEW c \in Command, NEW id \in TaskId, run_command_async(c, id)
      PROVE NoLostWakeup'
  BY <1>2 DEF run_command_async, EnterAddTask
<1>3. ASSUME NEW id \in TaskId, query_task_result(id) \/ get_task_result(id)
      PROVE NoLostWakeup'
  BY <1>3 DEF query_task_result, get_task_result, GetNothing, GetWait
<1>4. CASE DtorStart
  BY <1>4 DEF DtorStart
<1>5. ASSUME NEW t \in Thread, AddStep(t) PROVE NoLostWakeup'
  <2>1. CASE AddLock(t)
    BY <2>1 DEF AddLock
  <2>2. CASE AddPush(t)
    BY <2>2 DEF AddPush
  <2>3. CASE AddNotify(t)
    BY <2>3 DEF AddNotify, Wake
  <2> QED
    BY <1>5, <2>1, <2>2, <2>3 DEF AddStep
<1>6. CASE ClientStep
  <2>1. CASE GetReturn
    BY <2>1 DEF GetReturn
  <2>2. CASE DtorLock
    BY <2>2 DEF DtorLock
  <2>3. CASE DtorStop
    BY <2>3 DEF DtorStop
  <2>4. CASE DtorNotify \/ DtorJoin
    BY <2>4 DEF DtorNotify, DtorJoin, Wake
  <2> QED
    BY <1>6, <2>1, <2>2, <2>3, <2>4 DEF ClientStep
<1>7. CASE WorkerStep
  <2>1. CASE WorkerAcquire
    BY <2>1 DEF WorkerAcquire
  <2>2. CASE WorkerPred
    BY <2>2 DEF WorkerPred, PredFalse, PredBreak, PredPop
  <2>3. CASE WorkerBlock
    BY <2>3 DEF WorkerBlock, Closing, StopSet
  <2>4. CASE WorkerRun
    BY <2>4 DEF WorkerRun
  <2> QED
    BY <1>7, <2>1, <2>2, <2>3, <2>4 DEF WorkerStep
<1>8. CASE SpuriousWakeup \/ Terminated \/ UNCHANGED vars
  BY <1>8 DEF SpuriousWakeup, Terminated, vars
<1> QED
  BY <1>1, <1>2, <1>3, <1>4, <1>5, <1>6, <1>7, <1>8 DEF Next

\* No wakeup is ever lost: whenever the worker sleeps on cv while a task is
\* queued or stop is set, some thread is between its unlock and its notify.
THEOREM WakeupsReachTheWorker == Spec => []NoLostWakeup
<1>1. Init => NoLostWakeup
  BY DEF Init, NoLostWakeup
<1> QED
  BY <1>1, ControlInvariant, WakeStep, PTL DEF Spec

-----------------------------------------------------------------------------
(* Order and accounting.                                                   *)

\* A task is submitted once: no two places hold the same task.
Distinct ==
  /\ \A i, j \in 1..Len(pushed) : pushed[i] = pushed[j] => i = j
  /\ \A i \in 1..Len(pushed) : state[pushed[i]] # "fresh"
  /\ \A t \in Thread : pc[t] \in {"lock", "push"} =>
       /\ state[arg[t]] = "pending"
       /\ \A i \in 1..Len(pushed) : pushed[i] # arg[t]
  /\ \A t, u \in Thread :
       /\ pc[t] \in {"lock", "push"}
       /\ pc[u] \in {"lock", "push"}
       /\ arg[t] = arg[u]
       => t = u

\* The finished tasks are exactly the first Ran of those pushed.
Progress ==
  /\ wpc = "run" => Popped >= 1 /\ cur = pushed[Popped]
  /\ \A i \in 1..Len(pushed) : Done(pushed[i]) <=> i <= Ran

\* A task that is submitted and not finished was pushed, or is about to be.
Accounted ==
  \A k \in Task : state[k] = "pending" =>
    \/ \E i \in 1..Len(pushed) : pushed[i] = k
    \/ \E t \in Thread : pc[t] \in {"lock", "push"} /\ arg[t] = k

\* Every future in the map belongs to a submitted command.
Futures ==
  /\ pc["client"] = "get" => wanted \in DOMAIN task_results
  /\ \A id \in DOMAIN task_results : state[task_results[id]] # "fresh"

Ledger == Distinct /\ Fifo /\ Progress /\ Accounted

Order == Ledger /\ Futures

\* A step that moves no task from one place to another keeps the ledger.
LEMMA LedgerFrame ==
  ASSUME Ledger,
         UNCHANGED <<tasks, pushed, state, cur>>,
         wpc' = "run" <=> wpc = "run",
         \A t \in Thread :
           /\ pc'[t] \in {"lock", "push"} <=> pc[t] \in {"lock", "push"}
           /\ pc[t] \in {"lock", "push"} => arg'[t] = arg[t]
  PROVE  Ledger'
<1>1. Popped' = Popped /\ Ran' = Ran
  BY DEF Popped, Ran
<1>2. Distinct'
  BY DEF Ledger, Distinct
<1>3. Fifo'
  BY <1>1 DEF Ledger, Fifo
<1>4. Progress'
  BY <1>1 DEF Ledger, Progress, Done
<1>5. Accounted'
  BY DEF Ledger, Accounted
<1> QED
  BY <1>2, <1>3, <1>4, <1>5 DEF Ledger

\* Submitting a task that was never submitted keeps the ledger.
LEMMA LedgerSubmit ==
  ASSUME Control, Ledger,
         NEW t \in Thread, NEW k \in Task,
         pc[t] = "idle", state[k] = "fresh",
         EnterAddTask(t, k),
         UNCHANGED <<tasks, pushed, cur, wpc>>
  PROVE  Ledger'
<1>1. Popped' = Popped /\ Ran' = Ran
  BY DEF Popped, Ran
<1>2. /\ state \in [Task -> {"fresh", "pending"} \cup Finished]
      /\ pc \in [Thread -> {"idle", "get"} \cup Adding \cup Destroying]
      /\ arg \in [Thread -> Task \cup {None}]
      /\ pushed \in Seq(Task)
  BY DEF Control, TypeOK
<1>3. \A i \in 1..Len(pushed) : pushed[i] \in Task /\ pushed[i] # k
  BY <1>2 DEF Ledger, Distinct
<1>4. Distinct'
  <2>1. \A i \in 1..Len(pushed) : state'[pushed[i]] = state[pushed[i]]
    BY <1>2, <1>3 DEF EnterAddTask
  <2>2. \A u \in Thread : u # t => pc'[u] = pc[u] /\ arg'[u] = arg[u]
    BY <1>2 DEF EnterAddTask
  <2>3. pc'[t] = "lock" /\ arg'[t] = k /\ state'[k] = "pending"
    BY <1>2 DEF EnterAddTask
  <2>4. \A u \in Thread : u # t /\ pc[u] \in {"lock", "push"} =>
          arg[u] # k /\ arg[u] \in Task /\ state'[arg[u]] = state[arg[u]]
    BY <1>2 DEF EnterAddTask, Ledger, Distinct, Control, Places, Adding
  <2> QED
    BY <1>3, <2>1, <2>2, <2>3, <2>4 DEF Ledger, Distinct
<1>5. Fifo'
  BY <1>1 DEF Ledger, Fifo
<1>6. Progress'
  <2>1. \A i \in 1..Len(pushed) : Done(pushed[i])' <=> Done(pushed[i])
    BY <1>2, <1>3 DEF EnterAddTask, Done
  <2> QED
    BY <1>1, <2>1 DEF Ledger, Progress
<1>7. Accounted'
  <2> SUFFICES ASSUME NEW l \in Task, state'[l] = "pending"
               PROVE \/ \E i \in 1..Len(pushed) : pushed[i] = l
                     \/ \E u \in Thread : pc'[u] \in {"lock", "push"} /\ arg'[u] = l
    BY DEF Accounted
  <2>1. CASE l = k
    BY <2>1, <1>2 DEF EnterAddTask
  <2>2. CASE l # k
    BY <2>2, <1>2 DEF EnterAddTask, Ledger, Accounted
  <2> QED
    BY <2>1, <2>2
<1> QED
  BY <1>4, <1>5, <1>6, <1>7 DEF Ledger

\* Pushing the task a thread carries keeps the ledger.
LEMMA LedgerPush ==
  ASSUME Control, Ledger, NEW t \in Thread, AddPush(t)
  PROVE  Ledger'
<1>1. /\ pc \in [Thread -> {"idle", "get"} \cup Adding \cup Destroying]
      /\ arg[t] \in Task
      /\ tasks \in Seq(Task) /\ pushed \in Seq(Task)
  BY DEF Control, TypeOK, Places, Adding, AddPush
<1> DEFINE k == arg[t]
<1>2. /\ tasks' = Append(tasks, k) /\ pushed' = Append(pushed, k)
      /\ UNCHANGED <<state, arg, wpc, cur>>
  BY DEF AddPush
<1>3. /\ pc'[t] = "notify"
      /\ \A u \in Thread : u # t => pc'[u] = pc[u]
  BY <1>1 DEF AddPush
<1>4. /\ k \in Task
      /\ state[k] = "pending"
      /\ \A i \in 1..Len(pushed) : pushed[i] # k
      /\ \A u \in Thread : u # t /\ pc[u] \in {"lock", "push"} => arg[u] # k
  BY <1>1 DEF Ledger, Distinct, AddPush
<1> HIDE DEF k
<1>5. /\ Len(pushed') = Len(pushed) + 1 /\ Len(pushed) \in Nat
      /\ \A i \in 1..Len(pushed) : pushed'[i] = pushed[i]
      /\ pushed'[Len(pushed) + 1] = k
  BY <1>1, <1>2, <1>4, AppendAt
<1>6. /\ Len(tasks') = Len(tasks) + 1 /\ Len(tasks) \in Nat
      /\ \A i \in 1..Len(tasks) : tasks'[i] = tasks[i]
      /\ tasks'[Len(tasks) + 1] = k
  BY <1>1, <1>2, <1>4, AppendAt
<1>7. Popped' = Popped /\ Ran' = Ran /\ Popped = Len(pushed) - Len(tasks)
  BY <1>2, <1>5, <1>6 DEF Popped, Ran
<1>8. \A i \in 1..Len(pushed') : i \in 1..Len(pushed) \/ i = Len(pushed) + 1
  BY <1>5
<1>9. Distinct'
  <2>1. \A i, j \in 1..Len(pushed') : pushed'[i] = pushed'[j] => i = j
    BY <1>4, <1>5, <1>8 DEF Ledger, Distinct
  <2>2. \A i \in 1..Len(pushed') : state'[pushed'[i]] # "fresh"
    BY <1>2, <1>4, <1>5, <1>8 DEF Ledger, Distinct
  <2>3. ASSUME NEW u \in Thread, pc'[u] \in {"lock", "push"}
        PROVE  /\ u # t /\ pc[u] \in {"lock", "push"} /\ arg'[u] = arg[u]
               /\ state'[arg'[u]] = "pending"
               /\ \A i \in 1..Len(pushed') : pushed'[i] # arg'[u]
    <3>1. u # t /\ pc[u] \in {"lock", "push"} /\ arg'[u] = arg[u] /\ arg[u] # k
      BY <1>2, <1>3, <1>4, <2>3
    <3>2. state[arg[u]] = "pending" /\ \A i \in 1..Len(pushed) : pushed[i] # arg[u]
      BY <3>1 DEF Ledger, Distinct
    <3> QED
      BY <1>2, <1>5, <1>8, <3>1, <3>2
  <2>4. \A u, v \in Thread :
          /\ pc'[u] \in {"lock", "push"}
          /\ pc'[v] \in {"lock", "push"}
          /\ arg'[u] = arg'[v]
          => u = v
    BY <2>3 DEF Ledger, Distinct
  <2> QED
    BY <2>1, <2>2, <2>3, <2>4 DEF Distinct
<1>10. Fifo'
  <2>1. /\ Len(tasks) <= Len(pushed)
        /\ \A i \in 1..Len(tasks) : tasks[i] = pushed[Popped + i]
    BY DEF Ledger, Fifo
  <2>2. ASSUME NEW i \in 1..Len(tasks') PROVE tasks'[i] = pushed'[Popped + i]
    <3>1. CASE i \in 1..Len(tasks)
      <4>1. Popped + i \in 1..Len(pushed)
        BY <1>5, <1>6, <1>7, <2>1, <3>1
      <4> QED
        BY <1>5, <1>6, <2>1, <3>1, <4>1
    <3>2. CASE i = Len(tasks) + 1
      <4>1. Popped + i = Len(pushed) + 1
        BY <1>5, <1>6, <1>7, <2>1, <3>2
      <4> QED
        BY <1>5, <1>6, <3>2, <4>1
    <3> QED
      BY <1>6, <3>1, <3>2
  <2>3. Len(tasks') <= Len(pushed')
    BY <1>5, <1>6, <2>1
  <2>4. \A i \in 1..Len(tasks') : tasks'[i] = pushed'[Popped' + i]
    BY <1>7, <2>2
  <2> QED
    BY <2>3, <2>4 DEF Fifo
<1>11. Progress'
  <2>1. Len(tasks) <= Len(pushed)
    BY DEF Ledger, Fifo
  <2>2. ~Done(k)
    BY <1>4 DEF Done, Finished
  <2>3. \A i \in 1..Len(pushed') : state'[pushed'[i]] \in Finished <=> i <= Ran
    <3>1. ASSUME NEW i \in 1..Len(pushed)
          PROVE state'[pushed'[i]] \in Finished <=> i <= Ran
      BY <1>2, <1>5, <3>1 DEF Ledger, Progress, Done
    <3>2. ~(state'[pushed'[Len(pushed) + 1]] \in Finished)
      BY <1>2, <1>5, <2>2 DEF Done
    <3>3. ~(Len(pushed) + 1 <= Ran)
      BY <1>5, <1>6, <2>1 DEF Ran, Popped
    <3> QED
      BY <1>8, <3>1, <3>2, <3>3
  <2>4. wpc = "run" => Popped >= 1 /\ Popped \in 1..Len(pushed)
    BY <1>5, <1>6, <1>7, <2>1 DEF Ledger, Progress
  <2> QED
    BY <1>2, <1>5, <1>7, <2>3, <2>4 DEF Ledger, Progress, Done
<1>12. Accounted'
  BY <1>2, <1>3, <1>5, <1>8 DEF Ledger, Accounted, k
<1> QED
  BY <1>9, <1>10, <1>11, <1>12 DEF Ledger

\* Taking the oldest task off the queue keeps the ledger.
LEMMA LedgerPop ==
  ASSUME Control, Ledger, WorkerPred, PredPop
  PROVE  Ledger'
<1>1. tasks \in Seq(Task) /\ pushed \in Seq(Task) /\ tasks # <<>> /\ wpc = "pred"
  BY DEF Control, TypeOK, PredPop, WorkerPred
<1>2. /\ tasks' = Tail(tasks) /\ cur' = Head(tasks) /\ wpc' = "run"
      /\ UNCHANGED <<pushed, state, pc, arg>>
  BY DEF PredPop, WorkerPred
<1>3. /\ Len(tasks) >= 1 /\ Len(tasks) \in Nat /\ Len(pushed) \in Nat
      /\ Len(tasks') = Len(tasks) - 1
      /\ \A i \in 1..Len(tasks') : tasks'[i] = tasks[i + 1]
      /\ cur' = tasks[1]
  BY <1>1, <1>2, TailAt
<1>4. /\ Len(tasks) <= Len(pushed)
      /\ \A i \in 1..Len(tasks) : tasks[i] = pushed[Popped + i]
  BY DEF Ledger, Fifo
<1>5. /\ Popped = Len(pushed) - Len(tasks)
      /\ Popped' = Popped + 1 /\ Ran = Popped /\ Ran' = Popped
  BY <1>1, <1>2, <1>3 DEF Popped, Ran
<1>6. Distinct' /\ Accounted'
  BY <1>2 DEF Ledger, Distinct, Accounted
<1>7. Fifo'
  <2>1. ASSUME NEW i \in 1..Len(tasks')
        PROVE  tasks'[i] = pushed[Popped' + i]
    <3>1. i + 1 \in 1..Len(tasks) /\ Popped + (i + 1) = Popped' + i
      BY <1>3, <1>5
    <3> QED
      BY <1>3, <1>4, <3>1
  <2> QED
    BY <1>2, <1>3, <1>4, <2>1 DEF Fifo
<1>8. Progress'
  <2>1. cur' = pushed[Popped'] /\ Popped' >= 1
    BY <1>3, <1>4, <1>5
  <2> QED
    BY <1>2, <1>5, <2>1 DEF Ledger, Progress, Done
<1> QED
  BY <1>6, <1>7, <1>8 DEF Ledger

\* Finishing the running task keeps the ledger.
LEMMA LedgerRun ==
  ASSUME Control, Ledger, WorkerRun
  PROVE  Ledger'
<1>1. PICK r \in {"value", "exception"} : state' = [state EXCEPT ![cur] = r]
  BY DEF WorkerRun
<1>2. /\ state \in [Task -> {"fresh", "pending"} \cup Finished]
      /\ tasks \in Seq(Task) /\ pushed \in Seq(Task)
      /\ arg \in [Thread -> Task \cup {None}]
  BY DEF Control, TypeOK
<1>3. /\ UNCHANGED <<pushed, tasks, pc, arg>>
      /\ wpc = "run" /\ wpc' = "acquire"
  BY DEF WorkerRun
<1>4. /\ Len(tasks) \in Nat /\ Len(pushed) \in Nat /\ Len(tasks) <= Len(pushed)
      /\ Popped = Len(pushed) - Len(tasks)
      /\ Popped >= 1 /\ cur = pushed[Popped]
  BY <1>2, <1>3 DEF Ledger, Fifo, Progress, Popped
<1>5. /\ Popped \in 1..Len(pushed) /\ cur \in Task
      /\ \A i \in 1..Len(pushed) : pushed[i] \in Task
  BY <1>2, <1>4
<1>6. Popped' = Popped /\ Ran = Popped - 1 /\ Ran' = Popped
  BY <1>3 DEF Popped, Ran
<1>7. /\ state'[cur] = r /\ r \in Finished
      /\ \A k \in Task : k # cur => state'[k] = state[k]
  BY <1>1, <1>2, <1>5 DEF Finished
<1>8. Distinct'
  <2>1. \A t \in Thread : pc[t] \in {"lock", "push"} =>
          arg[t] # cur /\ arg[t] \in Task
    BY <1>4, <1>5 DEF Ledger, Distinct, Control, Places, Adding
  <2>2. \A i \in 1..Len(pushed) : state'[pushed[i]] # "fresh"
    BY <1>5, <1>7 DEF Ledger, Distinct, Finished
  <2> QED
    BY <1>3, <1>7, <2>1, <2>2 DEF Ledger, Distinct
<1>9. Fifo'
  BY <1>3, <1>6 DEF Ledger, Fifo
<1>10. Progress'
  <2>1. ASSUME NEW i \in 1..Len(pushed)
        PROVE  state'[pushed[i]] \in Finished <=> i <= Popped
    <3>1. CASE i = Popped
      BY <1>4, <1>7, <3>1
    <3>2. CASE i # Popped
      <4>1. pushed[i] # cur
        BY <1>4, <1>5, <3>2 DEF Ledger, Distinct
      <4>2. state'[pushed[i]] \in Finished <=> i <= Ran
        BY <1>5, <1>7, <4>1 DEF Ledger, Progress, Done
      <4> QED
        BY <1>4, <1>6, <3>2, <4>2
    <3> QED
      BY <3>1, <3>2
  <2> QED
    BY <1>3, <1>6, <2>1 DEF Progress, Done
<1>11. Accounted'
  BY <1>3, <1>5, <1>7 DEF Ledger, Accounted, Finished
<1> QED
  BY <1>8, <1>9, <1>10, <1>11 DEF Ledger

\* Fetching the result of a finished command keeps the ledger.
LEMMA LedgerGet ==
  ASSUME Control, Order, GetReturn
  PROVE  Ledger'
<1> DEFINE c == task_results[wanted]
<1>1. /\ state \in [Task -> {"fresh", "pending"} \cup Finished]
      /\ pc \in [Thread -> {"idle", "get"} \cup Adding \cup Destroying]
      /\ arg \in [Thread -> Task \cup {None}]
      /\ pushed \in Seq(Task) /\ c \in Task
  BY DEF Control, TypeOK, Order, Futures, GetReturn, Task
<1>2. /\ state[c] \in {"value", "exception"}
      /\ state' = [state EXCEPT ![c] = "taken"]
      /\ pc' = [pc EXCEPT !["client"] = "idle"]
      /\ pc["client"] = "get"
      /\ UNCHANGED <<tasks, pushed, wpc, cur, arg>>
  BY DEF GetReturn
<1> HIDE DEF c
<1>3. \A k \in Task :
        /\ state'[k] \in Finished <=> state[k] \in Finished
        /\ state'[k] = "fresh" <=> state[k] = "fresh"
        /\ state'[k] = "pending" <=> state[k] = "pending"
  BY <1>1, <1>2 DEF Finished
<1>4. /\ \A t \in Thread : pc'[t] \in {"lock", "push"} <=> pc[t] \in {"lock", "push"}
      /\ \A t \in Thread : pc[t] \in {"lock", "push"} => arg[t] \in Task
      /\ \A i \in 1..Len(pushed) : pushed[i] \in Task
  BY <1>1, <1>2 DEF Control, Places, Adding
<1>5. Popped' = Popped /\ Ran' = Ran
  BY <1>2 DEF Popped, Ran
<1>6. Distinct'
  BY <1>2, <1>3, <1>4 DEF Order, Ledger, Distinct
<1>7. Fifo'
  BY <1>2, <1>5 DEF Order, Ledger, Fifo
<1>8. Progress'
  BY <1>2, <1>3, <1>4, <1>5 DEF Order, Ledger, Progress, Done
<1>9. Accounted'
  BY <1>2, <1>3, <1>4 DEF Order, Ledger, Accounted
<1> QED
  BY <1>6, <1>7, <1>8, <1>9 DEF Ledger

\* Every entry of the map stays the future of a submitted command, and a
\* waiting client's entry stays in the map.
LEMMA FuturesStep == Control /\ Futures /\ [Next]_vars => Futures'
<1> SUFFICES ASSUME Control, Futures, [Next]_vars PROVE Futures'
  OBVIOUS
<1>f. /\ state \in [Task -> {"fresh", "pending"} \cup Finished]
      /\ pc \in [Thread -> {"idle", "get"} \cup Adding \cup Destroying]
      /\ \A id \in DOMAIN task_results : task_results[id] \in Task
      /\ "client" \in Thread
  BY DEF Control, TypeOK, Thread, Task
<1>w. cur \in Task \cup {None} /\ Command \subseteq Task /\ Closure \subseteq Task
  BY DEF Control, TypeOK, Task
<1> USE <1>f DEF Futures, Finished
<1>1. ASSUME NEW t \in Thread, NEW k \in Closure, add_task(t, k) PROVE Futures'
  BY <1>1, <1>w DEF add_task, MayAdd, EnterAddTask
<1>2. ASSUME NEW c \in Command, NEW id \in TaskId, run_command_async(c, id)
      PROVE Futures'
  <2>1. /\ DOMAIN task_results' = DOMAIN task_results \cup {id}
        /\ \A i \in DOMAIN task_results' :
             task_results'[i] = IF i = id THEN c ELSE task_results[i]
    BY <1>2 DEF run_command_async
  <2>2. /\ pc'["client"] = "lock" /\ state'[c] = "pending"
        /\ \A k \in Task : state[k] # "fresh" => state'[k] # "fresh"
    BY <1>2, <1>w DEF run_command_async, EnterAddTask
  <2> QED
    BY <2>1, <2>2
<1>3. ASSUME NEW id \in TaskId, query_task_result(id) \/ get_task_result(id)
      PROVE Futures'
  <2>1. CASE query_task_result(id)
    BY <2>1 DEF query_task_result
  <2>2. CASE GetNothing(id)
    BY <2>2 DEF GetNothing
  <2>3. CASE GetWait(id)
    BY <2>3 DEF GetWait
  <2> QED
    BY <1>3, <2>1, <2>2, <2>3 DEF get_task_result
<1>4. CASE DtorStart
  BY <1>4 DEF DtorStart
<1>5. ASSUME NEW t \in Thread, AddStep(t) PROVE Futures'
  BY <1>5 DEF AddStep, AddLock, AddPush, AddNotify
<1>6. CASE ClientStep
  <2>1. CASE GetReturn
    <3>1. /\ pc'["client"] = "idle"
          /\ \A k \in Task : state[k] # "fresh" => state'[k] # "fresh"
      BY <2>1 DEF GetReturn
    <3>2. /\ DOMAIN task_results' \subseteq DOMAIN task_results
          /\ \A i \in DOMAIN task_results' : task_results'[i] = task_results[i]
      BY <2>1 DEF GetReturn
    <3> QED
      BY <3>1, <3>2
  <2> QED
    BY <1>6, <2>1 DEF ClientStep, DtorLock, DtorStop, DtorNotify, DtorJoin
<1>7. CASE WorkerStep
  <2>1. CASE WorkerRun
    <3>1. \A k \in Task : state[k] # "fresh" => state'[k] # "fresh"
      BY <2>1 DEF WorkerRun
    <3> QED
      BY <2>1, <3>1 DEF WorkerRun
  <2> QED
    BY <1>7, <2>1 DEF WorkerStep, WorkerAcquire, WorkerPred, WorkerBlock
<1>8. CASE SpuriousWakeup \/ Terminated \/ UNCHANGED vars
  BY <1>8 DEF SpuriousWakeup, Terminated, vars
<1> HIDE DEF Futures
<1> QED
  BY <1>1, <1>2, <1>3, <1>4, <1>5, <1>6, <1>7, <1>8 DEF Next

\* Every step keeps the ledger.
LEMMA LedgerStep == Control /\ Order /\ [Next]_vars => Ledger'
<1> SUFFICES ASSUME Control, Order, [Next]_vars PROVE Ledger'
  OBVIOUS
<1>f. /\ pc \in [Thread -> {"idle", "get"} \cup Adding \cup Destroying]
      /\ arg \in [Thread -> Task \cup {None}]
      /\ "client" \in Thread /\ Ledger
      /\ Command \subseteq Task /\ Closure \subseteq Task
  BY DEF Control, TypeOK, Thread, Task, Order
<1>1. ASSUME NEW t \in Thread, NEW k \in Closure, add_task(t, k) PROVE Ledger'
  BY <1>1, <1>f, LedgerSubmit DEF add_task, MayAdd
<1>2. ASSUME NEW c \in Command, NEW id \in TaskId, run_command_async(c, id)
      PROVE Ledger'
  BY <1>2, <1>f, LedgerSubmit DEF run_command_async
<1>3. ASSUME NEW id \in TaskId, query_task_result(id) \/ get_task_result(id)
      PROVE Ledger'
  BY <1>3, <1>f, LedgerFrame
  DEF query_task_result, get_task_result, GetNothing, GetWait
<1>4. CASE DtorStart
  BY <1>4, <1>f, LedgerFrame DEF DtorStart
<1>5. ASSUME NEW t \in Thread, AddStep(t) PROVE Ledger'
  <2>1. CASE AddLock(t)
    BY <2>1, <1>f, LedgerFrame DEF AddLock
  <2>2. CASE AddPush(t)
    BY <2>2, <1>f, LedgerPush
  <2>3. CASE AddNotify(t)
    BY <2>3, <1>f, LedgerFrame DEF AddNotify, Wake
  <2> QED
    BY <1>5, <2>1, <2>2, <2>3 DEF AddStep
<1>6. CASE ClientStep
  <2>1. CASE GetReturn
    BY <2>1, LedgerGet
  <2>2. CASE DtorLock \/ DtorStop \/ DtorNotify \/ DtorJoin
    BY <2>2, <1>f, LedgerFrame DEF DtorLock, DtorStop, DtorNotify, DtorJoin, Wake
  <2> QED
    BY <1>6, <2>1, <2>2 DEF ClientStep
<1>7. CASE WorkerStep
  <2>1. CASE WorkerAcquire \/ WorkerBlock
    BY <2>1, <1>f, LedgerFrame DEF WorkerAcquire, WorkerBlock
  <2>2. CASE WorkerPred
    <3>1. CASE PredPop
      BY <2>2, <3>1, <1>f, LedgerPop
    <3>2. CASE PredFalse \/ PredBreak
      BY <2>2, <3>2, <1>f, LedgerFrame DEF WorkerPred, PredFalse, PredBreak
    <3> QED
      BY <2>2, <3>1, <3>2 DEF WorkerPred
  <2>3. CASE WorkerRun
    BY <2>3, <1>f, LedgerRun
  <2> QED
    BY <1>7, <2>1, <2>2, <2>3 DEF WorkerStep
<1>8. CASE SpuriousWakeup \/ Terminated \/ UNCHANGED vars
  BY <1>8, <1>f, LedgerFrame DEF SpuriousWakeup, Terminated, vars
<1> QED
  BY <1>1, <1>2, <1>3, <1>4, <1>5, <1>6, <1>7, <1>8 DEF Next

\* The order layer holds in every reachable state.
LEMMA OrderInvariant == Spec => []Order
<1>1. Init => Order
  <2> SUFFICES ASSUME Init PROVE Order
    OBVIOUS
  <2>1. Len(pushed) = 0 /\ Len(tasks) = 0
    BY DEF Init
  <2>2. Fifo /\ Progress
    BY <2>1 DEF Fifo, Progress, Init
  <2>3. Distinct /\ Accounted /\ Futures
    BY <2>1 DEF Distinct, Accounted, Futures, Init, Thread
  <2> QED
    BY <2>2, <2>3 DEF Order, Ledger
<1>2. Control /\ Order /\ [Next]_vars => Order'
  BY LedgerStep, FuturesStep DEF Order
<1> QED
  BY <1>1, <1>2, ControlInvariant, PTL DEF Spec

\* Lengths are natural numbers.
LEMMA LengthsTyped == Control => Len(pushed) \in Nat /\ Len(tasks) \in Nat
<1>1. Control => pushed \in Seq(Task) /\ tasks \in Seq(Task)
  BY DEF Control, TypeOK
<1> QED
  BY <1>1

\* The queue never reorders, drops or duplicates a task.
THEOREM QueueIsFifo == Spec => []Fifo
<1>1. Order => Fifo
  BY DEF Order, Ledger
<1> QED
  BY <1>1, OrderInvariant, PTL

\* Tasks finish in the order they were pushed, whatever threads push them.
THEOREM TasksCompleteInOrder == Spec => []CompletedInOrder
<1>1. Control /\ Order => CompletedInOrder
  <2> SUFFICES ASSUME Control, Order,
                      NEW j \in 1..Len(pushed), Done(pushed[j]),
                      NEW i \in 1..j
               PROVE  Done(pushed[i])
    BY DEF CompletedInOrder
  <2>1. Len(pushed) \in Nat /\ Len(tasks) \in Nat
    BY LengthsTyped
  <2>2. Ran \in Int /\ i \in 1..Len(pushed) /\ j <= Ran
    BY <2>1 DEF Order, Ledger, Progress, Ran, Popped
  <2> QED
    BY <2>1, <2>2 DEF Order, Ledger, Progress
<1> QED
  BY <1>1, ControlInvariant, OrderInvariant, PTL

\* The destructor loses nothing: when it has returned, every task that was
\* ever submitted has run.
THEOREM DestructorDrains == Spec => []NothingLost
<1>1. Control /\ Order => NothingLost
  <2> SUFFICES ASSUME Control, Order, pc["client"] = "destroyed",
                      NEW k \in Task, state[k] = "pending"
               PROVE  FALSE
    BY DEF NothingLost
  <2>1. Len(pushed) \in Nat /\ tasks = <<>> /\ wpc = "exited"
    BY LengthsTyped DEF Control, Closing
  <2>2. \A t \in Thread : pc[t] \notin {"lock", "push"}
    <3>1. \A p \in Producer : pc[p] = "idle"
      BY DEF Control, Closing, Destroying
    <3>2. pc["worker"] = "idle"
      BY <2>1 DEF Control, Places
    <3> QED
      BY <3>1, <3>2 DEF Thread
  <2>3. PICK i \in 1..Len(pushed) : pushed[i] = k
    BY <2>2 DEF Order, Ledger, Accounted
  <2>4. Ran = Len(pushed)
    BY <2>1 DEF Ran, Popped
  <2>5. Done(k)
    BY <2>3, <2>4 DEF Order, Ledger, Progress
  <2> QED
    BY <2>5 DEF Done, Finished
<1> QED
  BY <1>1, ControlInvariant, OrderInvariant, PTL

\* A client in get_task_result waits for a command that is queued or running
\* under a live worker.
THEOREM GetsAreServed == Spec => []GetIsServed
<1>1. Control /\ Order => GetIsServed
  <2> DEFINE c == task_results[wanted]
  <2> SUFFICES ASSUME Control, Order, pc["client"] = "get", ~Done(c)
               PROVE  /\ wpc # "exited"
                      /\ c = cur \/ \E i \in 1..Len(tasks) : tasks[i] = c
    BY DEF GetIsServed
  <2>1. c \in Command /\ state[c] # "fresh" /\ c \in Task
    BY DEF Order, Futures, Control, TypeOK, Task
  <2>2. state[c] = "pending"
    BY <2>1 DEF Control, TypeOK, Done
  <2> HIDE DEF c
  <2>3. ~(\E t \in Thread : pc[t] \in {"lock", "push"} /\ arg[t] = c)
    BY <2>1, DisjointTasks DEF Control, Places, Adding
  <2>4. PICK i \in 1..Len(pushed) : pushed[i] = c
    BY <2>1, <2>2, <2>3 DEF Order, Ledger, Accounted
  <2>5. ~(i <= Ran)
    BY <2>2, <2>4 DEF Order, Ledger, Progress, Done, Finished
  <2>6. /\ Len(pushed) \in Nat /\ Len(tasks) \in Nat
        /\ Len(tasks) <= Len(pushed) /\ Popped = Len(pushed) - Len(tasks)
    BY LengthsTyped DEF Order, Ledger, Fifo, Popped
  <2>7. wpc # "exited"
    BY DEF Control, Closing, Stopping
  <2>8. CASE i <= Popped
    <3>1. wpc = "run" /\ i = Popped
      BY <2>5, <2>6, <2>8 DEF Ran
    <3> QED
      BY <2>4, <2>7, <3>1 DEF Order, Ledger, Progress
  <2>9. CASE i > Popped
    <3>1. i - Popped \in 1..Len(tasks) /\ Popped + (i - Popped) = i
      BY <2>6, <2>9
    <3>2. tasks[i - Popped] = pushed[i]
      BY <3>1 DEF Order, Ledger, Fifo
    <3> QED
      BY <2>4, <2>7, <3>1, <3>2
  <2> QED
    BY <2>6, <2>8, <2>9
<1> QED
  BY <1>1, ControlInvariant, OrderInvariant, PTL

-----------------------------------------------------------------------------
(* The queue implements the serial executor.                               *)

\* A step changes how many tasks have run, which tasks were pushed and
\* whether the object is alive only as a step of the executor does.
LEMMA ExecStep ==
  Control /\ Order /\ Control' /\ Order' /\ [Next]_vars
    => [Exec!ExecNext]_(Exec!execVars)
<1> SUFFICES ASSUME Control, Order, Control', Order', [Next]_vars
             PROVE  [Exec!ExecNext]_(Exec!execVars)
  OBVIOUS
<1> DEFINE Same == UNCHANGED <<pushed, Ran, pc["client"] # "destroyed">>
<1>s. Same => [Exec!ExecNext]_(Exec!execVars)
  BY DEF Exec!execVars
<1>f. /\ pc \in [Thread -> {"idle", "get"} \cup Adding \cup Destroying]
      /\ "client" \in Thread
      /\ Len(pushed) \in Nat /\ Len(tasks) \in Nat
      /\ Len(tasks) <= Len(pushed)
  BY LengthsTyped DEF Control, TypeOK, Thread, Order, Ledger, Fifo
<1> USE <1>f
<1>1. ASSUME NEW t \in Thread, NEW k \in Closure, add_task(t, k) PROVE Same
  BY <1>1 DEF add_task, MayAdd, EnterAddTask, Ran, Popped
<1>2. ASSUME NEW c \in Command, NEW id \in TaskId, run_command_async(c, id)
      PROVE Same
  BY <1>2 DEF run_command_async, EnterAddTask, Ran, Popped
<1>3. ASSUME NEW id \in TaskId, query_task_result(id) \/ get_task_result(id)
      PROVE Same
  BY <1>3
  DEF query_task_result, get_task_result, GetNothing, GetWait, Ran, Popped
<1>4. ASSUME DtorStart PROVE Same
  BY <1>4 DEF DtorStart, Ran, Popped
<1>5. ASSUME NEW t \in Thread, AddStep(t) PROVE Same \/ Exec!Accept
  <2>1. CASE AddLock(t)
    BY <2>1 DEF AddLock, Ran, Popped
  <2>2. CASE AddNotify(t)
    BY <2>2 DEF AddNotify, Wake, Ran, Popped
  <2>3. CASE AddPush(t)
    <3>1. /\ pc["client"] # "destroyed" /\ pc'["client"] # "destroyed"
      BY <2>3 DEF AddPush, Control, Closing, Places, Destroying, Adding, Thread
    <3>2. /\ arg[t] \in Task
          /\ \A i \in 1..Len(pushed) : pushed[i] # arg[t]
      BY <2>3 DEF AddPush, Control, Places, Adding, Order, Ledger, Distinct
    <3>3. pushed \in Seq(Task) /\ tasks \in Seq(Task)
      BY DEF Control, TypeOK
    <3>4. /\ Len(pushed') = Len(pushed) + 1 /\ Len(tasks') = Len(tasks) + 1
          /\ wpc' = wpc /\ pushed' = Append(pushed, arg[t])
      BY <2>3, <3>2, <3>3, AppendAt DEF AddPush
    <3>5. Ran' = Ran
      BY <3>4 DEF Ran, Popped
    <3> QED
      BY <3>1, <3>2, <3>4, <3>5 DEF Exec!Accept
  <2> QED
    BY <1>5, <2>1, <2>2, <2>3 DEF AddStep
<1>6. ASSUME ClientStep PROVE Same \/ Exec!Close
  <2>1. CASE DtorJoin
    <3>1. /\ wpc = "exited" /\ wpc' = "exited" /\ UNCHANGED <<pushed, tasks>>
          /\ pc["client"] # "destroyed" /\ pc'["client"] = "destroyed"
      BY <2>1 DEF DtorJoin
    <3>2. tasks = <<>>
      BY <3>1 DEF Control, Closing
    <3>3. Ran = Len(pushed) /\ Ran' = Ran
      BY <3>1, <3>2 DEF Ran, Popped
    <3> QED
      BY <3>1, <3>3 DEF Exec!Close
  <2>2. CASE GetReturn \/ DtorLock \/ DtorStop \/ DtorNotify
    BY <2>2 DEF GetReturn, DtorLock, DtorStop, DtorNotify, Wake, Ran, Popped
  <2> QED
    BY <1>6, <2>1, <2>2 DEF ClientStep
<1>7. ASSUME WorkerStep PROVE Same \/ Exec!Finish
  <2>1. CASE WorkerAcquire \/ WorkerBlock
    BY <2>1 DEF WorkerAcquire, WorkerBlock, Ran, Popped
  <2>2. CASE WorkerPred
    <3>1. CASE PredPop
      <4>1. tasks \in Seq(Task) /\ tasks # <<>>
        BY <3>1 DEF Control, TypeOK, PredPop
      <4>2. /\ Len(tasks') = Len(tasks) - 1
            /\ wpc = "pred" /\ wpc' = "run" /\ UNCHANGED <<pushed, pc>>
        BY <2>2, <3>1, <4>1, TailAt DEF PredPop, WorkerPred
      <4> QED
        BY <4>2 DEF Ran, Popped
    <3>2. CASE PredFalse \/ PredBreak
      BY <2>2, <3>2 DEF WorkerPred, PredFalse, PredBreak, Ran, Popped
    <3> QED
      BY <2>2, <3>1, <3>2 DEF WorkerPred
  <2>3. CASE WorkerRun
    <3>1. /\ wpc = "run" /\ wpc' = "acquire" /\ UNCHANGED <<pushed, tasks, pc>>
      BY <2>3 DEF WorkerRun
    <3>2. pc["client"] # "destroyed"
      BY <3>1 DEF Control, Closing
    <3>3. Ran' = Ran + 1 /\ Ran < Len(pushed)
      BY <3>1 DEF Ran, Popped
    <3> QED
      BY <3>1, <3>2, <3>3 DEF Exec!Finish
  <2> QED
    BY <1>7, <2>1, <2>2, <2>3 DEF WorkerStep
<1>8. ASSUME SpuriousWakeup \/ Terminated \/ UNCHANGED vars PROVE Same
  BY <1>8 DEF SpuriousWakeup, Terminated, vars, Ran, Popped
<1> HIDE DEF Same
<1> QED
  BY <1>s, <1>1, <1>2, <1>3, <1>4, <1>5, <1>6, <1>7, <1>8 DEF Next, Exec!ExecNext

\* TaskQueue implements SerialExecutor: whatever the threads do, its users
\* see tasks accepted into one order, finished one at a time in that order,
\* and a destructor that returns after the last of them.
THEOREM Implementation == Spec => ImplementsExecutor
<1>1. Init => Exec!ExecInit
  BY DEF Init, Exec!ExecInit, Ran, Popped, Thread
<1>2. Spec => [](Control /\ Order)
  BY ControlInvariant, OrderInvariant, PTL
<1> QED
  BY <1>1, <1>2, ExecStep, PTL DEF Spec, Exec!ExecSpec, ImplementsExecutor

-----------------------------------------------------------------------------
(* What the mutex and the join protect.                                    *)

\* Thread t is between lock and unlock.
Inside(t) ==
  \/ pc[t] = "push"
  \/ t = "client" /\ pc[t] = "set_stop"
  \/ t = "worker" /\ wpc \in {"pred", "block"}

\* Two threads are never between lock and unlock at the same time.
THEOREM MutualExclusion ==
  Spec => [](\A t, u \in Thread : Inside(t) /\ Inside(u) => t = u)
<1>1. Control => \A t, u \in Thread : Inside(t) /\ Inside(u) => t = u
  BY DEF Control, LockHeld, Inside
<1> QED
  BY <1>1, ControlInvariant, PTL

\* The queue of tasks and the flag stop, which every thread reads, are changed
\* by the thread that holds the mutex, and by no other.
THEOREM SharedStateIsLocked ==
  Spec => [][tasks' # tasks \/ stop' # stop
               => \E t \in Thread : mtx = t /\ Inside(t)]_vars
<1> DEFINE A == tasks' # tasks \/ stop' # stop
                  => \E t \in Thread : mtx = t /\ Inside(t)
<1>1. Control /\ [Next]_vars => [A]_vars
  <2> SUFFICES ASSUME Control, Next, tasks' # tasks \/ stop' # stop
               PROVE  \E t \in Thread : mtx = t /\ Inside(t)
    OBVIOUS
  <2>1. CASE \E t \in Thread : AddPush(t)
    BY <2>1 DEF AddPush, Control, LockHeld, Inside
  <2>2. CASE DtorStop
    BY <2>2 DEF DtorStop, Control, LockHeld, Inside, Thread
  <2>3. CASE WorkerPred
    BY <2>3 DEF WorkerPred, Control, LockHeld, Inside, Thread
  <2>4. CASE ~(DtorStop \/ WorkerPred \/ \E t \in Thread : AddPush(t))
    BY <2>4
    DEF Next, add_task, run_command_async, query_task_result, get_task_result,
        GetNothing, GetWait, DtorStart, AddStep, AddLock, AddNotify, ClientStep,
        GetReturn, DtorLock, DtorNotify, DtorJoin, WorkerStep, WorkerAcquire,
        WorkerBlock, WorkerRun, SpuriousWakeup, Terminated, vars
  <2> QED
    BY <2>1, <2>2, <2>3, <2>4
<1>2. Spec => [][Next]_vars
  BY DEF Spec
<1> HIDE DEF A
<1>3. Spec => [][A]_vars
  BY <1>1, <1>2, ControlInvariant, PTL
<1> QED
  BY <1>3 DEF A

\* A task finishes once: what has finished is neither run nor submitted again,
\* only its result is fetched.
THEOREM TasksFinishOnce ==
  Spec => [][\A k \in Task :
               Done(k) => state'[k] \in {state[k], "taken"}]_vars
<1> DEFINE A == \A k \in Task : Done(k) => state'[k] \in {state[k], "taken"}
<1>1. Control /\ Order /\ [Next]_vars => [A]_vars
  <2> SUFFICES ASSUME Control, Order, Next, NEW k \in Task, Done(k)
               PROVE  state'[k] \in {state[k], "taken"}
    OBVIOUS
  <2>0. /\ state \in [Task -> {"fresh", "pending"} \cup Finished]
        /\ state[k] # "fresh"
    BY DEF Control, TypeOK, Done, Finished
  <2>1. CASE \/ \E t \in Thread, c \in Closure : add_task(t, c)
             \/ \E c \in Command, id \in TaskId : run_command_async(c, id)
    BY <2>0, <2>1 DEF add_task, run_command_async, EnterAddTask
  <2>2. CASE GetReturn
    BY <2>0, <2>2 DEF GetReturn
  <2>3. CASE WorkerRun
    <3>1. wpc = "run" /\ \E r : state' = [state EXCEPT ![cur] = r]
      BY <2>3 DEF WorkerRun
    <3>2. /\ Popped \in 1..Len(pushed) /\ cur = pushed[Popped]
          /\ ~(Popped <= Ran)
      BY <3>1, LengthsTyped DEF Order, Ledger, Progress, Fifo, Ran, Popped
    <3>3. ~Done(cur)
      BY <3>2 DEF Order, Ledger, Progress
    <3>4. k # cur
      BY <3>3
    <3> QED
      BY <2>0, <3>1, <3>4
  <2>4. CASE ~(\/ \E t \in Thread, c \in Closure : add_task(t, c)
               \/ \E c \in Command, id \in TaskId : run_command_async(c, id)
               \/ GetReturn \/ WorkerRun)
    BY <2>4
    DEF Next, query_task_result, get_task_result, GetNothing, GetWait, DtorStart,
        AddStep, AddLock, AddPush, AddNotify, ClientStep, DtorLock, DtorStop,
        DtorNotify, DtorJoin, WorkerStep, WorkerAcquire, WorkerPred, WorkerBlock,
        SpuriousWakeup, Terminated, vars
  <2> QED
    BY <2>1, <2>2, <2>3, <2>4
<1>2. Spec => [][Next]_vars
  BY DEF Spec
<1> HIDE DEF A
<1>3. Spec => [][A]_vars
  BY <1>1, <1>2, ControlInvariant, OrderInvariant, PTL
<1> QED
  BY <1>3 DEF A

\* Once the destructor has returned no thread touches the object: none is
\* inside add_task, and the worker has left its loop.
THEOREM NothingAfterDestruction ==
  Spec => [][~(pc["client"] = "destroyed")]_vars
<1>1. Control /\ [Next]_vars => [~(pc["client"] = "destroyed")]_vars
  <2> SUFFICES ASSUME Control, Next, pc["client"] = "destroyed"
               PROVE  vars' = vars
    OBVIOUS
  <2>1. wpc = "exited" /\ \A t \in Thread : pc[t] \in {"idle", "destroyed"}
    <3>1. wpc = "exited" /\ \A p \in Producer : pc[p] = "idle"
      BY DEF Control, Closing, Destroying
    <3>2. pc["worker"] = "idle"
      BY <3>1 DEF Control, Places
    <3> QED
      BY <3>1, <3>2 DEF Thread
  <2>2. ~\E t \in Thread : AddStep(t)
    BY <2>1 DEF AddStep, AddLock, AddPush, AddNotify
  <2>3. ~\E t \in Thread, k \in Closure : add_task(t, k)
    BY <2>1 DEF add_task, MayAdd, Destroying
  <2>4. ~ClientStep /\ ~DtorStart
    BY DEF ClientStep, GetReturn, DtorLock, DtorStop, DtorNotify, DtorJoin,
       DtorStart
  <2>5. ~WorkerStep /\ ~SpuriousWakeup
    BY <2>1 DEF WorkerStep, WorkerAcquire, WorkerPred, WorkerBlock, WorkerRun,
       SpuriousWakeup
  <2>6. /\ ~\E c \in Command, id \in TaskId : run_command_async(c, id)
        /\ ~\E id \in TaskId : query_task_result(id) \/ get_task_result(id)
    BY DEF run_command_async, query_task_result, get_task_result, GetNothing,
       GetWait
  <2> QED
    BY <2>2, <2>3, <2>4, <2>5, <2>6 DEF Next, Terminated
<1>2. Spec => [][Next]_vars
  BY DEF Spec
<1> QED
  BY <1>1, <1>2, ControlInvariant, PTL

-----------------------------------------------------------------------------
(* Nobody waits for ever for everybody else.                               *)

\* The mutex is held by a thread that is between lock and unlock, and
\* get_task_result waits for a future that nobody has consumed.
Waits ==
  /\ mtx # None => mtx \in Thread /\ Inside(mtx)
  /\ pc["client"] = "get" => state[task_results[wanted]] # "taken"

LEMMA WaitsStep == Control /\ Waits /\ [Next]_vars => Waits'
<1> SUFFICES ASSUME Control, Waits, [Next]_vars PROVE Waits'
  OBVIOUS
<1>c. /\ "client" \in Thread /\ "worker" \in Thread
      /\ Closure \subseteq Task /\ Command \subseteq Task /\ None \notin Thread
  BY NoneIsFresh DEF Thread, Task
<1>f. /\ pc \in [Thread -> {"idle", "get"} \cup Adding \cup Destroying]
      /\ state \in [Task -> {"fresh", "pending"} \cup Finished]
      /\ LockHeld /\ Places
  BY DEF Control, TypeOK
<1> USE <1>c, <1>f DEF Waits, Inside, LockHeld
<1>1. ASSUME NEW t \in Thread, NEW k \in Closure, add_task(t, k) PROVE Waits'
  BY <1>1 DEF add_task, MayAdd, EnterAddTask
<1>2. ASSUME NEW c \in Command, NEW id \in TaskId, run_command_async(c, id)
      PROVE Waits'
  BY <1>2 DEF run_command_async, EnterAddTask
<1>3. ASSUME NEW id \in TaskId, query_task_result(id) \/ get_task_result(id)
      PROVE Waits'
  <2>1. CASE GetWait(id)
    BY <2>1 DEF GetWait
  <2> QED
    BY <1>3, <2>1 DEF query_task_result, get_task_result, GetNothing
<1>4. CASE DtorStart
  BY <1>4 DEF DtorStart
<1>5. ASSUME NEW t \in Thread, AddStep(t) PROVE Waits'
  <2>1. CASE AddLock(t)
    BY <2>1 DEF AddLock
  <2>2. CASE AddPush(t)
    BY <2>2 DEF AddPush
  <2>3. CASE AddNotify(t)
    BY <2>3 DEF AddNotify, Wake
  <2> QED
    BY <1>5, <2>1, <2>2, <2>3 DEF AddStep
<1>6. CASE ClientStep
  <2>1. CASE GetReturn
    BY <2>1 DEF GetReturn
  <2>2. CASE DtorLock \/ DtorStop
    BY <2>2 DEF DtorLock, DtorStop
  <2>3. CASE DtorNotify \/ DtorJoin
    BY <2>3 DEF DtorNotify, DtorJoin, Wake
  <2> QED
    BY <1>6, <2>1, <2>2, <2>3 DEF ClientStep
<1>7. CASE WorkerStep
  <2>1. CASE WorkerAcquire \/ WorkerBlock
    BY <2>1 DEF WorkerAcquire, WorkerBlock
  <2>2. CASE WorkerPred
    BY <2>2 DEF WorkerPred, PredFalse, PredBreak, PredPop
  <2>3. CASE WorkerRun
    BY <2>3 DEF WorkerRun, Finished
  <2> QED
    BY <1>7, <2>1, <2>2, <2>3 DEF WorkerStep
<1>8. CASE SpuriousWakeup \/ Terminated \/ UNCHANGED vars
  BY <1>8 DEF SpuriousWakeup, Terminated, vars
<1> QED
  BY <1>1, <1>2, <1>3, <1>4, <1>5, <1>6, <1>7, <1>8 DEF Next

\* What thread t waits for has come: the mutex is free, the future is ready,
\* the worker has left its loop, or t waits for nothing.
CanGoOn(t) ==
  \/ pc[t] = "lock" /\ mtx = None
  \/ pc[t] \in {"push", "notify"}
  \/ /\ t = "client"
     /\ \/ pc[t] = "get" /\ state[task_results[wanted]] \in {"value", "exception"}
        \/ pc[t] = "dtor" /\ mtx = None
        \/ pc[t] \in {"set_stop", "notify_all"}
        \/ pc[t] = "join" /\ wpc = "exited"
  \/ /\ t = "worker"
     /\ \/ wpc = "acquire" /\ mtx = None
        \/ wpc \in {"pred", "block"}
        \/ wpc = "run" /\ pc[t] = "idle"

\* A call has not returned, or a task that was accepted has not finished.
Unfinished ==
  \/ \E t \in Thread : pc[t] \notin {"idle", "destroyed"}
  \/ \E k \in Task : state[k] = "pending"

\* The queue never blocks as a whole: while a call of any thread has not
\* returned or an accepted task has not finished, some thread's lock, get,
\* join or wait is over, without a spurious wakeup and without a new call.
THEOREM SomebodyGoesOn == Spec => [](Unfinished => \E t \in Thread : CanGoOn(t))
<1>1. Init => Waits
  BY DEF Init, Waits, Thread
<1>2. Control /\ NoLostWakeup /\ Order /\ Waits /\ Unfinished
        => \E t \in Thread : CanGoOn(t)
  <2> SUFFICES ASSUME Control, NoLostWakeup, Order, Waits, Unfinished,
                      \A t \in Thread : ~CanGoOn(t)
               PROVE  FALSE
    OBVIOUS
  <2>0. "client" \in Thread /\ "worker" \in Thread
    BY DEF Thread
  <2>1. mtx = None
    BY <2>0 DEF Waits, Inside, CanGoOn
  <2>2. \A t \in Thread : pc[t] \notin Adding
    BY <2>1 DEF CanGoOn, Adding
  <2>3. wpc \in {"waiting", "exited"}
    <3>1. pc["worker"] = "idle"
      BY <2>0, <2>2 DEF Control, Places
    <3> QED
      BY <2>0, <2>1, <3>1 DEF CanGoOn, Control, TypeOK
  <2>4. tasks = <<>> /\ (stop => wpc = "exited")
    <3>1. CASE wpc = "exited"
      BY <3>1 DEF Control, Closing
    <3>2. CASE wpc = "waiting"
      BY <2>0, <2>2, <3>2 DEF NoLostWakeup, CanGoOn, Adding
    <3> QED
      BY <2>3, <3>1, <3>2
  <2>5. \A k \in Task : state[k] # "pending"
    <3> SUFFICES ASSUME NEW k \in Task, state[k] = "pending" PROVE FALSE
      OBVIOUS
    <3>1. PICK i \in 1..Len(pushed) : pushed[i] = k
      BY <2>2 DEF Order, Ledger, Accounted, Adding
    <3>2. Ran = Len(pushed) /\ Len(pushed) \in Nat
      BY <2>3, <2>4, LengthsTyped DEF Ran, Popped
    <3>3. Done(k)
      BY <3>1, <3>2 DEF Order, Ledger, Progress
    <3> QED
      BY <3>3 DEF Done, Finished
  <2>6. pc["client"] \notin {"idle", "destroyed"}
    BY <2>2, <2>5 DEF Unfinished, Control, Places, Thread
  <2>7. pc["client"] \in {"get", "dtor", "set_stop", "notify_all", "join"}
    BY <2>0, <2>2, <2>6 DEF Control, TypeOK, Destroying
  <2>8. CASE pc["client"] = "get"
    <3> DEFINE c == task_results[wanted]
    <3>1. c \in Task /\ state[c] \notin {"fresh", "taken"}
      BY <2>8 DEF Order, Futures, Control, TypeOK, Task, Waits
    <3>2. state[c] \in {"value", "exception"}
      BY <2>5, <3>1 DEF Control, TypeOK, Finished
    <3> QED
      BY <2>0, <2>8, <3>2 DEF CanGoOn
  <2>9. CASE pc["client"] = "join"
    BY <2>0, <2>4, <2>9 DEF Control, StopSet, Stopping, CanGoOn
  <2> QED
    BY <2>0, <2>1, <2>7, <2>8, <2>9 DEF CanGoOn
<1> QED
  BY <1>1, <1>2, WaitsStep, ControlInvariant, WakeupsReachTheWorker,
     OrderInvariant, PTL DEF Spec

-----------------------------------------------------------------------------
(* The destructor gets as far as its join.                                 *)

\* Each step is possible when what it waits for has come.  The prover takes
\* ENABLED for an unknown.
StepsArePossible ==
  /\ pc["client"] = "dtor" /\ mtx = None => ENABLED <<DtorLock>>_vars
  /\ pc["client"] = "set_stop" => ENABLED <<DtorStop>>_vars
  /\ pc["client"] = "notify_all" => ENABLED <<DtorNotify>>_vars
  /\ pc["worker"] = "push" => ENABLED <<AddPush("worker")>>_vars
  /\ wpc = "pred" => ENABLED <<WorkerPred>>_vars
  /\ wpc = "block" => ENABLED <<WorkerBlock>>_vars

\* The parts of FairSpec the destructor needs.
LEMMA DestructorFairness ==
  FairSpec => /\ [][Next]_vars
              /\ [](Control /\ Waits)
              /\ SF_vars(DtorLock) /\ WF_vars(DtorStop) /\ WF_vars(DtorNotify)
              /\ WF_vars(AddPush("worker"))
              /\ WF_vars(WorkerPred) /\ WF_vars(WorkerBlock)
<1>1. Init => Waits
  BY DEF Init, Waits, Thread
<1>2. Spec => [](Control /\ Waits)
  BY <1>1, WaitsStep, ControlInvariant, PTL DEF Spec
<1> QED
  BY <1>2, PTL DEF FairSpec, Spec, Fairness, AddFairness

\* The destructor wants the mutex, and this is where its holder is.
Wanting == pc["client"] = "dtor"

\* While the destructor wants it the mutex is free or the worker's.
LEMMA WantingPlaces ==
  ASSUME Control, Waits, Wanting
  PROVE  \/ mtx = None
         \/ mtx = "worker" /\ wpc = "pred"
         \/ mtx = "worker" /\ wpc = "block"
         \/ mtx = "worker" /\ pc["worker"] = "push"
<1>1. \A p \in Producer : pc[p] = "idle"
  BY DEF Control, Closing, Destroying, Wanting
<1> QED
  BY <1>1 DEF Waits, Inside, Wanting, Thread

\* Other steps leave it to the destructor and to the holder of the mutex.
LEMMA WantingStep ==
  ASSUME Control, Wanting, [Next]_vars
  PROVE  /\ Wanting' \/ pc'["client"] = "set_stop"
         /\ mtx = "worker" =>
              /\ Wanting' /\ mtx' \in {"worker", None}
              /\ wpc = "pred" => wpc' \in {"pred", "block"} \/ mtx' = None
              /\ wpc = "block" => wpc' = "block" \/ mtx' = None
              /\ pc["worker"] = "push" =>
                   pc'["worker"] = "push" \/ mtx' = None
<1>0. /\ pc \in [Thread -> {"idle", "get"} \cup Adding \cup Destroying]
      /\ "client" \in Thread /\ "worker" \in Thread /\ None \notin Thread
      /\ pc["client"] = "dtor" /\ \A p \in Producer : pc[p] = "idle"
  BY NoneIsFresh DEF Control, TypeOK, Thread, Wanting, Closing, Destroying
<1> USE <1>0 DEF Wanting
<1>1. ASSUME NEW t \in Thread, NEW k \in Closure, add_task(t, k)
      PROVE  /\ t = "worker" /\ pc["worker"] = "idle"
             /\ UNCHANGED <<mtx, wpc>> /\ pc'["client"] = "dtor"
  BY <1>1 DEF add_task, MayAdd, EnterAddTask, Destroying
<1>2. ~(\/ \E c \in Command, id \in TaskId : run_command_async(c, id)
        \/ \E id \in TaskId : query_task_result(id) \/ get_task_result(id)
        \/ DtorStart)
  BY DEF run_command_async, query_task_result, get_task_result, GetNothing,
     GetWait, DtorStart
<1>3. ASSUME NEW t \in Thread, AddStep(t)
      PROVE  /\ t = "worker" /\ pc'["client"] = "dtor" /\ wpc' \in {wpc, "acquire"}
             /\ wpc # "waiting" => wpc' = wpc
             /\ \/ mtx = None
                \/ mtx' = None
                \/ UNCHANGED mtx /\ pc["worker"] = "notify"
  <2>1. t = "worker"
    BY <1>3 DEF AddStep, AddLock, AddPush, AddNotify, Thread
  <2> QED
    BY <1>3, <2>1 DEF AddStep, AddLock, AddPush, AddNotify, Wake
<1>4. ASSUME ClientStep PROVE mtx = None /\ pc'["client"] = "set_stop"
  BY <1>4 DEF ClientStep, GetReturn, DtorLock, DtorStop, DtorNotify, DtorJoin
<1>5. ASSUME WorkerStep \/ SpuriousWakeup
      PROVE  /\ pc' = pc
             /\ mtx = "worker" => mtx' \in {"worker", None}
             /\ mtx = "worker" /\ wpc = "pred" =>
                  wpc' = "block" \/ mtx' = None
             /\ mtx = "worker" /\ wpc = "block" => mtx' = None
  BY <1>5
  DEF WorkerStep, WorkerAcquire, WorkerPred, PredFalse, PredBreak, PredPop,
      WorkerBlock, WorkerRun, SpuriousWakeup
<1>6. CASE Terminated \/ UNCHANGED vars
  BY <1>6 DEF Terminated, vars
<1> QED
  BY <1>1, <1>2, <1>3, <1>4, <1>5, <1>6 DEF Next

\* The destructor gets the mutex from a worker that takes it again and again,
\* and goes on to join, where it waits for the worker alone.
THEOREM DestructorReachesItsJoin ==
  FairSpec /\ []StepsArePossible
    => (pc["client"] = "dtor" ~> pc["client"] = "join")
<1> DEFINE Free0 == Wanting /\ mtx = None
           Pred0 == Wanting /\ mtx = "worker" /\ wpc = "pred"
           Block0 == Wanting /\ mtx = "worker" /\ wpc = "block"
           Push0 == Wanting /\ mtx = "worker" /\ pc["worker"] = "push"
           Setting == pc["client"] = "set_stop"
           Telling == pc["client"] = "notify_all"
           Joining == pc["client"] = "join"
<1>1. Control /\ Waits /\ Wanting => Free0 \/ Pred0 \/ Block0 \/ Push0
  BY WantingPlaces
<1>2. Control /\ Wanting /\ [Next]_vars => Wanting' \/ Setting'
  BY WantingStep
<1>3. Control /\ Pred0 /\ [Next]_vars => Pred0' \/ Block0' \/ Free0'
  BY WantingStep
<1>4. Control /\ Block0 /\ [Next]_vars => Block0' \/ Free0'
  BY WantingStep
<1>5. Control /\ Push0 /\ [Next]_vars => Push0' \/ Free0'
  BY WantingStep
<1>6. /\ Pred0 /\ <<WorkerPred>>_vars => ~Pred0'
      /\ Block0 /\ <<WorkerBlock>>_vars => ~Block0'
      /\ Push0 /\ <<AddPush("worker")>>_vars => ~Push0'
  <2>1. "worker" # None
    BY NoneIsFresh DEF Thread
  <2> QED
    BY <2>1 DEF WorkerPred, PredFalse, PredBreak, PredPop, WorkerBlock, AddPush
<1>7. Control /\ <<DtorLock>>_vars => ~Wanting'
  BY DEF DtorLock, Wanting, Control, TypeOK, Thread
<1>8. /\ Control /\ Setting /\ [Next]_vars => Setting' \/ Telling'
      /\ Control /\ Telling /\ [Next]_vars => Telling' \/ Joining'
  <2>1. ASSUME Control, [Next]_vars, pc["client"] \in {"set_stop", "notify_all"}
        PROVE  \/ pc'["client"] = pc["client"]
               \/ pc["client"] = "set_stop" /\ pc'["client"] = "notify_all"
               \/ pc["client"] = "notify_all" /\ pc'["client"] = "join"
    <3>0. /\ pc \in [Thread -> {"idle", "get"} \cup Adding \cup Destroying]
          /\ "client" \in Thread
      BY <2>1 DEF Control, TypeOK, Thread
    <3>1. CASE \E t \in Thread, k \in Closure : add_task(t, k)
      BY <2>1, <3>0, <3>1 DEF add_task, MayAdd, EnterAddTask
    <3>2. CASE \E t \in Thread : AddStep(t)
      BY <2>1, <3>0, <3>2 DEF AddStep, AddLock, AddPush, AddNotify
    <3>3. CASE ClientStep
      BY <2>1, <3>0, <3>3
      DEF ClientStep, GetReturn, DtorLock, DtorStop, DtorNotify, DtorJoin
    <3>4. CASE ~(\/ \E t \in Thread, k \in Closure : add_task(t, k)
                 \/ \E t \in Thread : AddStep(t)
                 \/ ClientStep)
      BY <2>1, <3>0, <3>4
      DEF Next, run_command_async, query_task_result, get_task_result,
          GetNothing, GetWait, DtorStart, WorkerStep, WorkerAcquire, WorkerPred,
          WorkerBlock, WorkerRun, SpuriousWakeup, Terminated, vars
    <3> QED
      BY <3>1, <3>2, <3>3, <3>4
  <2> QED
    BY <2>1
<1>9. /\ Control /\ <<DtorStop>>_vars => ~Setting'
      /\ Control /\ <<DtorNotify>>_vars => ~Telling'
  BY DEF DtorStop, DtorNotify, Control, TypeOK, Thread
<1>10. /\ Free0 <=> Wanting /\ mtx = None
       /\ Pred0 => wpc = "pred"
       /\ Block0 => wpc = "block"
       /\ Push0 => pc["worker"] = "push"
  OBVIOUS
<1>11. /\ Wanting <=> pc["client"] = "dtor"
       /\ Setting <=> pc["client"] = "set_stop"
       /\ Telling <=> pc["client"] = "notify_all"
       /\ Joining <=> pc["client"] = "join"
  BY DEF Wanting
<1> HIDE DEF Free0, Pred0, Block0, Push0, Setting, Telling, Joining
<1>12. FairSpec /\ []StepsArePossible => (Wanting ~> Setting)
  BY <1>1, <1>2, <1>3, <1>4, <1>5, <1>6, <1>7, <1>10, <1>11,
     DestructorFairness, PTL DEF StepsArePossible
<1>13. FairSpec /\ []StepsArePossible => (Setting ~> Joining)
  BY <1>8, <1>9, <1>11, DestructorFairness, PTL DEF StepsArePossible
<1> QED
  BY <1>11, <1>12, <1>13, PTL
=============================================================================
