----------------------------- MODULE ThreadPool -----------------------------
(***************************************************************************)
(* forge::static_thread_pool (include/forge/static_thread_pool.hpp).       *)
(*                                                                         *)
(* A step is one critical section of the pool mutex, or the body of a task *)
(* outside it.  A condition variable is the set of threads asleep on it:   *)
(* a sleeper looks at its predicate again only when it is notified (or     *)
(* wakes spuriously), so a missing notification is visible.                *)
(***************************************************************************)
EXTENDS Naturals, Sequences, FiniteSets

CONSTANTS Workers,     \* the threads of the pool
          Tasks,       \* schedule() operations, each started once
          Waiters,     \* outside threads that call wait()
          Capacity,    \* static_thread_pool_options::queue_capacity
          None

VARIABLES stop, queue, active,   \* __pool_state
          pool,       \* "building", "alive", "failed", "joining", "gone"
          detached,   \* the destructor ran on a worker
          wpc, cur,   \* workers: position in __run, the task at hand
          xpc, since, \* waiters: position in wait(), accepted tasks when called
          task        \* progress of each operation

poolVars == <<stop, queue, active>>
vars == <<poolVars, pool, detached, wpc, cur, xpc, since, task>>

Init == /\ stop = FALSE /\ queue = <<>> /\ active = 0
        /\ pool = "building" /\ detached = FALSE
        /\ wpc = [w \in Workers |-> "none"] /\ cur = [w \in Workers |-> None]
        /\ xpc = [x \in Waiters |-> "idle"] /\ since = [x \in Waiters |-> {}]
        /\ task = [t \in Tasks |-> "idle"]

-----------------------------------------------------------------------------
(* __cv_.notify_all and notify_one *)
Silent == UNCHANGED wpc
NotifyAll == wpc' = [w \in Workers |-> IF wpc[w] = "asleep" THEN "check" ELSE wpc[w]]

NotifyOne == \/ \E w \in Workers : wpc[w] = "asleep" /\ wpc' = [wpc EXCEPT ![w] = "check"]
             \/ (\A w \in Workers : wpc[w] # "asleep") /\ UNCHANGED wpc

(* The constructor starts the workers one by one; when a thread cannot be  *)
(* started it shuts the others down, joins them and throws.                *)
Launch(w) ==
  /\ pool = "building" /\ wpc[w] = "none"
  /\ wpc' = [wpc EXCEPT ![w] = "check"]
  /\ pool' = IF \A v \in Workers \ {w} : wpc[v] # "none" THEN "alive" ELSE pool
  /\ UNCHANGED <<poolVars, detached, cur, xpc, since, task>>

LaunchFails ==
  /\ pool = "building" /\ pool' = "failed"
  /\ stop' = TRUE /\ NotifyAll
  /\ UNCHANGED <<queue, active, detached, cur, xpc, since, task>>

-----------------------------------------------------------------------------
(* __submit refuses: stopped, or the queue is full. *)
Rejects == stop \/ Len(queue) >= Capacity

(* __op::start: a stopped token, a refusal and a failed allocation all     *)
(* complete the operation with set_stopped.                                *)
Submit(t) ==
  /\ pool \in {"alive", "joining"} /\ task[t] = "idle"
  /\ \/ /\ ~Rejects
        /\ queue' = Append(queue, t) /\ active' = active + 1
        /\ task' = [task EXCEPT ![t] = "queued"] /\ NotifyOne
     \/ /\ task' = [task EXCEPT ![t] = "stopped"]
        /\ UNCHANGED <<queue, active, wpc>>
  /\ UNCHANGED <<stop, pool, detached, cur, xpc, since>>

(* __run: sleep, leave, or take the first task. *)
WorkerSleep(w) ==
  /\ wpc[w] = "check" /\ queue = <<>> /\ ~stop
  /\ wpc' = [wpc EXCEPT ![w] = "asleep"]
  /\ UNCHANGED <<poolVars, pool, detached, cur, xpc, since, task>>

MayLeave == queue = <<>> /\ stop

WorkerExit(w) ==
  /\ wpc[w] = "check" /\ MayLeave
  /\ wpc' = [wpc EXCEPT ![w] = "exited"]
  /\ UNCHANGED <<poolVars, pool, detached, cur, xpc, since, task>>

WorkerTake(w) ==
  /\ wpc[w] = "check" /\ queue # <<>>
  /\ cur' = [cur EXCEPT ![w] = Head(queue)] /\ queue' = Tail(queue)
  /\ task' = [task EXCEPT ![Head(queue)] = "running"]
  /\ wpc' = [wpc EXCEPT ![w] = "run"]
  /\ UNCHANGED <<stop, active, pool, detached, xpc, since>>

(* The task's body, set_value on the receiver, returns. *)
WorkerBody(w) ==
  /\ wpc[w] = "run" /\ wpc' = [wpc EXCEPT ![w] = "finish"]
  /\ task' = [task EXCEPT ![cur[w]] = "value"]
  /\ UNCHANGED <<poolVars, pool, detached, cur, xpc, since>>

(* The predicate of __wait_idle, evaluated in the state q, n. *)
Idle(q, n) == q = <<>> /\ n = 0

NotifyWaiters(n) ==
  xpc' = [x \in Waiters |-> IF Idle(queue, n) /\ xpc[x] = "asleep" THEN "check" ELSE xpc[x]]

(* __run after the body: count down, notify when idle.  The task object    *)
(* itself is destroyed only after this step, at the end of the loop body.  *)
WorkerFinish(w) ==
  /\ wpc[w] = "finish" /\ wpc' = [wpc EXCEPT ![w] = "check"]
  /\ cur' = [cur EXCEPT ![w] = None]
  /\ active' = active - 1 /\ NotifyWaiters(active - 1)
  /\ UNCHANGED <<stop, queue, pool, detached, since, task>>

-----------------------------------------------------------------------------
(* wait() from outside; a worker returns at once and changes nothing.      *)
WaitCall(x) ==
  /\ pool = "alive" /\ xpc[x] = "idle"
  /\ xpc' = [xpc EXCEPT ![x] = "check"]
  /\ since' = [since EXCEPT ![x] = {t \in Tasks : task[t] \notin {"idle", "stopped"}}]
  /\ UNCHANGED <<poolVars, pool, detached, wpc, cur, task>>

WaitCheck(x) ==
  /\ xpc[x] = "check"
  /\ xpc' = [xpc EXCEPT ![x] = IF Idle(queue, active) THEN "done" ELSE "asleep"]
  /\ UNCHANGED <<poolVars, pool, detached, wpc, cur, since, task>>

(* A condition variable may wake a sleeper without a notification. *)
SpuriousWake ==
  /\ \/ /\ \E w \in Workers : wpc[w] = "asleep" /\ wpc' = [wpc EXCEPT ![w] = "check"]
        /\ UNCHANGED xpc
     \/ /\ \E x \in Waiters : xpc[x] = "asleep" /\ xpc' = [xpc EXCEPT ![x] = "check"]
        /\ UNCHANGED wpc
  /\ UNCHANGED <<poolVars, pool, detached, cur, since, task>>

Shutdown ==
  /\ pool = "alive" /\ ~stop
  /\ stop' = TRUE /\ NotifyAll
  /\ UNCHANGED <<queue, active, pool, detached, cur, xpc, since, task>>

(* ~static_thread_pool; nobody may be inside wait().  From outside it      *)
(* joins the workers, from a task it detaches them.                        *)
Quiet == \A x \in Waiters : xpc[x] \in {"idle", "done"}

Destroy ==
  /\ pool = "alive" /\ Quiet
  /\ stop' = TRUE /\ NotifyAll /\ pool' = "joining"
  /\ UNCHANGED <<queue, active, detached, cur, xpc, since, task>>

DestroyFromWorker(w) ==
  /\ pool = "alive" /\ Quiet /\ wpc[w] = "run"
  /\ stop' = TRUE /\ NotifyAll /\ pool' = "gone" /\ detached' = TRUE
  /\ UNCHANGED <<queue, active, cur, xpc, since, task>>

Join ==
  /\ pool \in {"failed", "joining"} /\ \A w \in Workers : wpc[w] \in {"none", "exited"}
  /\ pool' = "gone"
  /\ UNCHANGED <<poolVars, detached, wpc, cur, xpc, since, task>>

-----------------------------------------------------------------------------
WorkerStep(w) == \/ WorkerSleep(w) \/ WorkerExit(w) \/ WorkerTake(w)
                 \/ WorkerBody(w) \/ WorkerFinish(w)

Next == \/ LaunchFails \/ Shutdown \/ Destroy \/ Join \/ SpuriousWake
        \/ \E t \in Tasks : Submit(t)
        \/ \E w \in Workers : Launch(w) \/ WorkerStep(w) \/ DestroyFromWorker(w)
        \/ \E x \in Waiters : WaitCall(x) \/ WaitCheck(x)

Spec == Init /\ [][Next]_vars

(* The operating system runs every thread that is not asleep and task      *)
(* bodies return; spurious wake-ups are never relied on.                   *)
Fairness == /\ \A w \in Workers : WF_vars(WorkerStep(w))
            /\ \A x \in Waiters : WF_vars(WaitCheck(x))
            /\ WF_vars(Join)

-----------------------------------------------------------------------------
Busy == {w \in Workers : wpc[w] \in {"run", "finish"}}

(* __active_ counts the queued tasks and the ones a worker has in hand;    *)
(* wait() returns only after every task accepted before the call has run,  *)
(* and when the destructor has joined its workers no accepted task is left *)
(* unfinished: shutdown() drains the queue rather than drop it.            *)
WaitDrains ==
  /\ active = Len(queue) + Cardinality(Busy)
  /\ \A x \in Waiters : xpc[x] = "done" => \A t \in since[x] : task[t] = "value"
  /\ pool = "gone" /\ ~detached => \A t \in Tasks : task[t] \notin {"queued", "running"}

(* No notification is lost: again and again there is a moment at which no  *)
(* accepted task is unfinished and nobody is inside wait() or a joining    *)
(* destructor, also when the pool is destroyed by one of its own tasks.    *)
(* Calls happen once, so everyone who waits gets out.                      *)
TasksRun ==
  []<>(/\ \A t \in Tasks : task[t] \notin {"queued", "running"}
       /\ \A x \in Waiters : xpc[x] \in {"idle", "done"}
       /\ pool \notin {"failed", "joining"})
=============================================================================
