----------------------------- MODULE TaskQueue -----------------------------
(***************************************************************************)
(* server_async::TaskQueue (apps/http_server_async_include/dic_task.hpp):  *)
(* a queue of closures drained by one worker thread, and a map from task   *)
(* identifiers to the futures of the commands submitted through            *)
(* run_command_async.                                                      *)
(*                                                                         *)
(* The mutex, the condition variable and the worker's loop are modelled    *)
(* step by step, so that a notification, a spurious wakeup, the destructor *)
(* and a task that submits another task interleave as they can in the      *)
(* program.  The map task_results is not protected by the mutex: the class *)
(* supports one thread, the client, that uses run_command_async,           *)
(* query_task_result, get_task_result and the destructor.  add_task is     *)
(* safe from any thread: Producer is a set of threads that only call it,   *)
(* and a running task may call it too.                                     *)
(***************************************************************************)
EXTENDS Integers, Sequences

CONSTANTS
  Command,    \* std::function<std::string()>: may return a value or throw
  Closure,    \* std::function<void()> given to add_task directly
  TaskId,     \* the keys of task_results
  Producer,   \* threads that only call add_task
  None        \* no task, no identifier, no owner

Task == Command \cup Closure

Thread == Producer \cup {"client", "worker"}

ASSUME DisjointTasks == Command \cap Closure = {}

ASSUME NoneIsFresh == None \notin Task \cup TaskId \cup Thread

ASSUME ProducersAreOthers == Producer \cap {"client", "worker"} = {}

VARIABLES
  mtx,           \* the thread that holds the mutex, or None
  tasks,         \* the queue of closures
  stop,          \* the flag the destructor sets
  task_results,  \* the map: a partial function from TaskId to Command
  state,         \* of each task: not submitted, submitted, finished, fetched
  wpc,           \* where the worker is in process_tasks
  cur,           \* the worker's local variable task
  pc,            \* where each thread is in add_task, get or the destructor
  arg,           \* the argument of the add_task a thread is in
  wanted,        \* the argument of the get_task_result the client is in
  ret,           \* what the client's last call returned or threw
  pushed         \* history: every task ever pushed, in order

vars == <<mtx, tasks, stop, task_results, state, wpc, cur, pc, arg, wanted,
          ret, pushed>>

Adding == {"lock", "push", "notify"}

Destroying == {"dtor", "set_stop", "notify_all", "join", "destroyed"}

Finished == {"value", "exception", "taken"}

Done(k) == state[k] \in Finished

TypeOK ==
  /\ mtx \in Thread \cup {None}
  /\ tasks \in Seq(Task)
  /\ stop \in BOOLEAN
  /\ DOMAIN task_results \subseteq TaskId
  /\ \A id \in DOMAIN task_results : task_results[id] \in Command
  /\ state \in [Task -> {"fresh", "pending"} \cup Finished]
  /\ wpc \in {"acquire", "pred", "block", "waiting", "run", "exited"}
  /\ cur \in Task \cup {None}
  /\ pc \in [Thread -> {"idle", "get"} \cup Adding \cup Destroying]
  /\ arg \in [Thread -> Task \cup {None}]
  /\ wanted \in TaskId \cup {None}
  /\ ret \in {"none", "0", "1", "value", "exception", "", "no_state",
              "out_of_range"}
  /\ pushed \in Seq(Task)

Init ==
  /\ mtx = None
  /\ tasks = <<>>
  /\ stop = FALSE
  /\ task_results = [id \in {} |-> None]
  /\ state = [k \in Task |-> "fresh"]
  /\ wpc = "acquire"
  /\ cur = None
  /\ pc = [t \in Thread |-> "idle"]
  /\ arg = [t \in Thread |-> None]
  /\ wanted = None
  /\ ret = "none"
  /\ pushed = <<>>

-----------------------------------------------------------------------------
(* add_task: lock, push, unlock, notify_one.                               *)

\* Thread t enters add_task with task k.
EnterAddTask(t, k) ==
  /\ state' = [state EXCEPT ![k] = "pending"]
  /\ arg' = [arg EXCEPT ![t] = k]
  /\ pc' = [pc EXCEPT ![t] = "lock"]

\* Nobody but a running task may use the object once its destructor has
\* started: the lifetime rule every C++ object has.
MayAdd(t) ==
  /\ pc[t] = "idle"
  /\ IF t = "worker" THEN wpc = "run" ELSE pc["client"] \notin Destroying

add_task(t, k) ==
  /\ MayAdd(t)
  /\ state[k] = "fresh"
  /\ EnterAddTask(t, k)
  /\ UNCHANGED <<mtx, tasks, stop, task_results, wpc, cur, wanted, ret, pushed>>

AddLock(t) ==
  /\ pc[t] = "lock"
  /\ mtx = None
  /\ mtx' = t
  /\ pc' = [pc EXCEPT ![t] = "push"]
  /\ UNCHANGED <<tasks, stop, task_results, state, wpc, cur, arg, wanted, ret,
                 pushed>>

\* Broken variant: pushes at the front.
AddPushFront(t) ==
  /\ pc[t] = "push"
  /\ tasks' = <<arg[t]>> \o tasks
  /\ pushed' = Append(pushed, arg[t])
  /\ mtx' = None
  /\ pc' = [pc EXCEPT ![t] = "notify"]
  /\ UNCHANGED <<stop, task_results, state, wpc, cur, arg, wanted, ret>>

\* Broken variant: returns without notify_one.
AddPushSilent(t) ==
  /\ pc[t] = "push"
  /\ tasks' = Append(tasks, arg[t])
  /\ pushed' = Append(pushed, arg[t])
  /\ mtx' = None
  /\ pc' = [pc EXCEPT ![t] = "idle"]
  /\ arg' = [arg EXCEPT ![t] = None]
  /\ UNCHANGED <<stop, task_results, state, wpc, cur, wanted, ret>>

AddPush(t) ==
  /\ pc[t] = "push"
  /\ tasks' = Append(tasks, arg[t])
  /\ pushed' = Append(pushed, arg[t])
  /\ mtx' = None
  /\ pc' = [pc EXCEPT ![t] = "notify"]
  /\ UNCHANGED <<stop, task_results, state, wpc, cur, arg, wanted, ret>>

\* Broken variant: a notification that reaches nobody.
WakeNobody == wpc' = wpc

\* The worker is the only thread that ever waits on cv.
Wake == wpc' = IF wpc = "waiting" THEN "acquire" ELSE wpc

AddNotify(t) ==
  /\ pc[t] = "notify"
  /\ Wake
  /\ pc' = [pc EXCEPT ![t] = "idle"]
  /\ arg' = [arg EXCEPT ![t] = None]
  /\ UNCHANGED <<mtx, tasks, stop, task_results, state, cur, wanted, ret,
                 pushed>>

-----------------------------------------------------------------------------
(* The client's operations on task_results.                                *)

\* Broken variant: registers the future and forgets add_task.
RunWithoutAdd(c, id) ==
  /\ pc["client"] = "idle"
  /\ state[c] = "fresh"
  /\ task_results' = [i \in DOMAIN task_results \cup {id} |->
                        IF i = id THEN c ELSE task_results[i]]
  /\ state' = [state EXCEPT ![c] = "pending"]
  /\ ret' = "0"
  /\ UNCHANGED <<mtx, tasks, stop, wpc, cur, pc, arg, wanted, pushed>>

\* A second command under an identifier in use replaces the first one's
\* future; the first one still runs.
run_command_async(c, id) ==
  /\ pc["client"] = "idle"
  /\ state[c] = "fresh"
  /\ task_results' = [i \in DOMAIN task_results \cup {id} |->
                        IF i = id THEN c ELSE task_results[i]]
  /\ EnterAddTask("client", c)
  /\ ret' = "0"
  /\ UNCHANGED <<mtx, tasks, stop, wpc, cur, wanted, pushed>>

\* Broken variant: hands out the state of the future instead of 1 or 0.
QueryRawState(id) ==
  IF id \notin DOMAIN task_results THEN "out_of_range"
  ELSE state[task_results[id]]

\* What future.wait_for(0) makes of the state of the command behind it.
QueryAnswer(id) ==
  IF id \notin DOMAIN task_results THEN "out_of_range"
  ELSE CASE state[task_results[id]] = "taken"                  -> "no_state"
         [] state[task_results[id]] \in {"value", "exception"} -> "1"
         [] OTHER                                              -> "0"

query_task_result(id) ==
  /\ pc["client"] = "idle"
  /\ ret' = QueryAnswer(id)
  /\ UNCHANGED <<mtx, tasks, stop, task_results, state, wpc, cur, pc, arg,
                 wanted, pushed>>

\* The calls of get_task_result that end without waiting: no entry, or an
\* entry whose future has already been consumed.
GetNothing(id) ==
  /\ pc["client"] = "idle"
  /\ \/ /\ id \notin DOMAIN task_results
        /\ ret' = ""
     \/ /\ id \in DOMAIN task_results
        /\ state[task_results[id]] = "taken"
        /\ ret' = "no_state"
  /\ UNCHANGED <<mtx, tasks, stop, task_results, state, wpc, cur, pc, arg,
                 wanted, pushed>>

\* The call that blocks in future.get().
GetWait(id) ==
  /\ pc["client"] = "idle"
  /\ id \in DOMAIN task_results
  /\ state[task_results[id]] # "taken"
  /\ wanted' = id
  /\ pc' = [pc EXCEPT !["client"] = "get"]
  /\ UNCHANGED <<mtx, tasks, stop, task_results, state, wpc, cur, arg, ret,
                 pushed>>

\* future.get() consumes the future.  It returns a value, and the entry is
\* erased, or it rethrows the command's exception past the erase.
GetReturn ==
  LET c == task_results[wanted] IN
  /\ pc["client"] = "get"
  /\ \/ /\ state[c] = "value"
        /\ ret' = "value"
        /\ task_results' = [i \in DOMAIN task_results \ {wanted} |->
                              task_results[i]]
     \/ /\ state[c] = "exception"
        /\ ret' = "exception"
        /\ UNCHANGED task_results
  /\ state' = [state EXCEPT ![c] = "taken"]
  /\ wanted' = None
  /\ pc' = [pc EXCEPT !["client"] = "idle"]
  /\ UNCHANGED <<mtx, tasks, stop, wpc, cur, arg, pushed>>

get_task_result(id) == GetNothing(id) \/ GetWait(id)

-----------------------------------------------------------------------------
(* ~TaskQueue: lock, set stop, unlock, notify_all, join.                   *)

DtorStart ==
  /\ pc["client"] = "idle"
  /\ \A p \in Producer : pc[p] = "idle"
  /\ pc' = [pc EXCEPT !["client"] = "dtor"]
  /\ UNCHANGED <<mtx, tasks, stop, task_results, state, wpc, cur, arg, wanted,
                 ret, pushed>>

DtorLock ==
  /\ pc["client"] = "dtor"
  /\ mtx = None
  /\ mtx' = "client"
  /\ pc' = [pc EXCEPT !["client"] = "set_stop"]
  /\ UNCHANGED <<tasks, stop, task_results, state, wpc, cur, arg, wanted, ret,
                 pushed>>

\* Broken variant: sets stop and goes straight to join.
DtorStopSilent ==
  /\ pc["client"] = "set_stop"
  /\ stop' = TRUE
  /\ mtx' = None
  /\ pc' = [pc EXCEPT !["client"] = "join"]
  /\ UNCHANGED <<tasks, task_results, state, wpc, cur, arg, wanted, ret, pushed>>

DtorStop ==
  /\ pc["client"] = "set_stop"
  /\ stop' = TRUE
  /\ mtx' = None
  /\ pc' = [pc EXCEPT !["client"] = "notify_all"]
  /\ UNCHANGED <<tasks, task_results, state, wpc, cur, arg, wanted, ret, pushed>>

DtorNotify ==
  /\ pc["client"] = "notify_all"
  /\ Wake
  /\ pc' = [pc EXCEPT !["client"] = "join"]
  /\ UNCHANGED <<mtx, tasks, stop, task_results, state, cur, arg, wanted, ret,
                 pushed>>

\* Broken variant: detaches the worker instead of joining it.
DtorDetach ==
  /\ pc["client"] = "join"
  /\ pc' = [pc EXCEPT !["client"] = "destroyed"]
  /\ UNCHANGED <<mtx, tasks, stop, task_results, state, wpc, cur, arg, wanted,
                 ret, pushed>>

DtorJoin ==
  /\ pc["client"] = "join"
  /\ wpc = "exited"
  /\ pc' = [pc EXCEPT !["client"] = "destroyed"]
  /\ UNCHANGED <<mtx, tasks, stop, task_results, state, wpc, cur, arg, wanted,
                 ret, pushed>>

-----------------------------------------------------------------------------
(* process_tasks: the worker's loop.  cv.wait with a predicate is a loop   *)
(* that tests the predicate under the lock and waits while it is false.    *)

WorkerAcquire ==
  /\ wpc = "acquire"
  /\ mtx = None
  /\ mtx' = "worker"
  /\ wpc' = "pred"
  /\ UNCHANGED <<tasks, stop, task_results, state, cur, pc, arg, wanted, ret,
                 pushed>>

\* The predicate is false: the thread is about to wait, still under the lock.
PredFalse ==
  /\ tasks = <<>>
  /\ ~stop
  /\ wpc' = "block"
  /\ UNCHANGED <<mtx, tasks, cur>>

\* Broken variant: stops without draining the queue.
PredBreakEarly ==
  /\ stop
  /\ wpc' = "exited"
  /\ mtx' = None
  /\ UNCHANGED <<tasks, cur>>

\* stop && tasks.empty(): break.
PredBreak ==
  /\ stop
  /\ tasks = <<>>
  /\ wpc' = "exited"
  /\ mtx' = None
  /\ UNCHANGED <<tasks, cur>>

\* Take the oldest task and run it without the lock.
PredPop ==
  /\ tasks # <<>>
  /\ cur' = Head(tasks)
  /\ tasks' = Tail(tasks)
  /\ mtx' = None
  /\ wpc' = "run"

WorkerPred ==
  /\ wpc = "pred"
  /\ PredFalse \/ PredBreak \/ PredPop
  /\ UNCHANGED <<stop, task_results, state, pc, arg, wanted, ret, pushed>>

\* cv.wait releases the lock and enters the wait set in one step.
WorkerBlock ==
  /\ wpc = "block"
  /\ wpc' = "waiting"
  /\ mtx' = None
  /\ UNCHANGED <<tasks, stop, task_results, state, cur, pc, arg, wanted, ret,
                 pushed>>

SpuriousWakeup ==
  /\ wpc = "waiting"
  /\ wpc' = "acquire"
  /\ UNCHANGED <<mtx, tasks, stop, task_results, state, cur, pc, arg, wanted,
                 ret, pushed>>

\* task() returns.  A packaged_task stores the command's value or exception
\* in the shared state; a closure just ends.
WorkerRun ==
  /\ wpc = "run"
  /\ pc["worker"] = "idle"
  /\ \E r \in IF cur \in Command THEN {"value", "exception"} ELSE {"value"} :
       state' = [state EXCEPT ![cur] = r]
  /\ cur' = None
  /\ wpc' = "acquire"
  /\ UNCHANGED <<mtx, tasks, stop, task_results, pc, arg, wanted, ret, pushed>>

-----------------------------------------------------------------------------

\* Steps a thread that has started an operation takes to finish it.
ClientStep == GetReturn \/ DtorLock \/ DtorStop \/ DtorNotify \/ DtorJoin

AddStep(t) == AddLock(t) \/ AddPush(t) \/ AddNotify(t)

WorkerStep == WorkerAcquire \/ WorkerPred \/ WorkerBlock \/ WorkerRun

\* The object is gone and nothing is left to happen.
Terminated == pc["client"] = "destroyed" /\ UNCHANGED vars

Next ==
  \/ \E t \in Thread, k \in Closure : add_task(t, k)
  \/ \E c \in Command, id \in TaskId : run_command_async(c, id)
  \/ \E id \in TaskId : query_task_result(id) \/ get_task_result(id)
  \/ DtorStart
  \/ \E t \in Thread : AddStep(t)
  \/ ClientStep
  \/ WorkerStep
  \/ SpuriousWakeup
  \/ Terminated

\* A thread that is in add_task.
AddFairness(t) ==
  SF_vars(AddLock(t)) /\ WF_vars(AddPush(t)) /\ WF_vars(AddNotify(t))

\* A thread that has started an operation goes on with it, and every task
\* ends.  Acquiring the mutex is strongly fair: wakeups may make the worker
\* take the mutex again and again while another thread wants it, and a
\* mutex that starves that thread for ever is not one the platform offers.
\* No operation is forced to start.
Fairness ==
  /\ AddFairness("client") /\ AddFairness("worker")
  /\ \A p \in Producer : AddFairness(p)
  /\ SF_vars(DtorLock)
  /\ WF_vars(GetReturn) /\ WF_vars(DtorStop) /\ WF_vars(DtorNotify)
  /\ WF_vars(DtorJoin)
  /\ SF_vars(WorkerAcquire)
  /\ WF_vars(WorkerPred) /\ WF_vars(WorkerBlock) /\ WF_vars(WorkerRun)

Spec == Init /\ [][Next]_vars

FairSpec == Spec /\ Fairness

-----------------------------------------------------------------------------
(* The abstract executor the queue implements.                             *)

\* Tasks that have left the queue.
Popped == Len(pushed) - Len(tasks)

\* Tasks that have finished: all that were popped but the one running.
Ran == IF wpc = "run" THEN Popped - 1 ELSE Popped

Exec == INSTANCE SerialExecutor WITH
  accepted <- pushed, ran <- Ran, open <- pc["client"] # "destroyed"

\* The queue with its threads, lock and wakeups implements the serial
\* executor: tasks finish one at a time in the order add_task accepted
\* them, and the destructor returns only after the last of them.
ImplementsExecutor == Exec!ExecSpec

-----------------------------------------------------------------------------
(* Properties.                                                             *)

\* The queue is first-in first-out: what is left in tasks is what was pushed
\* last, in the order it was pushed (std::queue push and pop under mtx).
Fifo ==
  /\ Len(tasks) <= Len(pushed)
  /\ \A i \in 1..Len(tasks) : tasks[i] = pushed[Popped + i]

\* Tasks finish in the order they were pushed: when one has finished, so has
\* every task pushed before it.  This is what ShellTest.TaksQ relies on when
\* it waits for task "2" only and then reads the results of all three.
CompletedInOrder ==
  \A j \in 1..Len(pushed) :
    Done(pushed[j]) => \A i \in 1..j : Done(pushed[i])

\* A worker asleep on cv with work to do, or with stop set, is about to be
\* notified: the notification after the unlock in add_task and in the
\* destructor is never lost.
NoLostWakeup ==
  wpc = "waiting" /\ (tasks # <<>> \/ stop) =>
    \/ \E t \in Thread : pc[t] = "notify"
    \/ pc["client"] = "notify_all"

\* When the destructor has joined the worker every task accepted by add_task
\* has run, those submitted by running tasks while the destructor was
\* waiting included.
NothingLost ==
  pc["client"] = "destroyed" => \A k \in Task : state[k] # "pending"

\* get_task_result only ever waits for a future that is ready or whose
\* command a live worker still has to run: it cannot hang on a task nobody
\* is going to run.
GetIsServed ==
  pc["client"] = "get" =>
    LET c == task_results[wanted] IN
    \/ Done(c)
    \/ wpc # "exited" /\ (c = cur \/ \E i \in 1..Len(tasks) : tasks[i] = c)

\* Every wait for a result ends: the worker runs the task in bounded turn.
GetReturns == pc["client"] = "get" ~> pc["client"] # "get"

\* The destructor always gets through join: stop is never missed.
DestructorReturns == pc["client"] = "dtor" ~> pc["client"] = "destroyed"

\* Every task accepted by add_task is run in the end.
AcceptedRuns == \A k \in Task : state[k] = "pending" ~> Done(k)
=============================================================================
