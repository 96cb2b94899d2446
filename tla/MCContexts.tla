---------------------------- MODULE MCContexts ----------------------------
(***************************************************************************)
(* A program that uses one of the runtime's contexts, and whether anything *)
(* in it can wait for ever.  The other contexts are never touched; which   *)
(* says which one the program uses.                                        *)
(*                                                                         *)
(* Two workers and three tasks fill a queue of two and leave a task behind *)
(* at shutdown; two operations give the strand a stale runner; one timer   *)
(* and one readiness operation meet their stop callback, a destructor and  *)
(* a thread in wait(); a spawned and a merely started chain of pool and    *)
(* timer operations meet shutdown(), wait() and the destructors of the     *)
(* contexts made of a pool, timers and a scope.                            *)
(***************************************************************************)
EXTENDS Naturals, Sequences, FiniteSets

CONSTANTS Workers, Tasks, Ops, Runners, Ctl, Nodes, Waiters, None

One == {CHOOSE o \in Ops : TRUE}
User == "user"

VARIABLES which,
  p_stop, p_queue, p_active, pool, detached, p_wpc, p_cur, p_xpc, p_since, p_task,
  s_closed, running, s_active, s_queue, deferred, flight, used, stop_only, s_pc, job,
  s_outcome, s_xpc, s_since, order, finished,
  active, closed, firstError, stopped, a_pc, life, refs, completed, error, scope, a_xpc, a_since,
  now, stop, items, pending, wpc, ready, kind, wakeAt, pc, item, deadline, due, flag, delivered,
  token, cb, done, completing, outcome, dpc, by, ctx, xpc, since,
  io, rec, th,
  queue, count, finishing, fin, rpc, cur, task, l_stop, pushed, popped,
  rt, chain, hops, caller

TP == INSTANCE ThreadPool WITH
  Capacity <- 2, stop <- p_stop, queue <- p_queue, active <- p_active, wpc <- p_wpc,
  cur <- p_cur, xpc <- p_xpc, since <- p_since, task <- p_task
ST == INSTANCE Strand WITH
  AllocFails <- TRUE, closed <- s_closed, active <- s_active, queue <- s_queue, pc <- s_pc,
  outcome <- s_outcome, xpc <- s_xpc, since <- s_since
AS == INSTANCE AsyncScope WITH pc <- a_pc, xpc <- a_xpc, since <- a_since
TM == INSTANCE TimerContext WITH
  Ops <- One, Delays <- {0, 1}, MaxTime <- 1, Limit <- 2, Slice <- 1, AllocFails <- TRUE,
  Destroyers <- {"client", "worker", "starter"}
EP == INSTANCE EpollContext WITH
  Ops <- One, Fds <- {"fd"}, FdOf <- [o \in One |-> "fd"], KindOf <- [o \in One |-> "read"],
  Users <- Waiters \cup {User}, Poller <- None, CtlFails <- FALSE, PollFails <- FALSE,
  DestroysOthers <- FALSE
RL == INSTANCE RunLoop WITH stop <- l_stop
RC == INSTANCE RuntimeContext WITH
  Chains <- Ops, Scoped <- One, Routes <- {<<"pool", "timers", "pool">>},
  Callers <- {"one", "other"},
  MayCall <- [one |-> {"wait", "close"}, other |-> {"request_stop", "shutdown", "dtor"}]

poolV   == <<p_stop, p_queue, p_active, pool, detached, p_wpc, p_cur, p_xpc, p_since, p_task>>
strandV == <<s_closed, running, s_active, s_queue, deferred, flight, used, stop_only, s_pc, job,
             s_outcome, s_xpc, s_since, order, finished>>
scopeV  == <<active, closed, firstError, stopped, a_pc, life, refs, completed, error, scope, a_xpc, a_since>>
timerV  == <<now, stop, items, pending, wpc, ready, kind, wakeAt, pc, item, deadline, due, flag, delivered,
             token, cb, done, completing, outcome, dpc, by, ctx, xpc, since>>
epollV  == <<io, rec, th>>
loopV   == <<queue, count, finishing, fin, rpc, cur, task, l_stop, pushed, popped>>
runtimeV == <<rt, chain, hops, caller>>
all == <<which, poolV, strandV, scopeV, timerV, epollV, loopV, runtimeV>>

Contexts == {"pool", "strand", "scope", "timers", "epoll", "loop", "runtime"}

Init ==
  /\ which \in Contexts
  /\ TP!Init /\ ST!Init /\ AS!Init /\ TM!Init /\ EP!Init /\ RL!Init /\ RC!Init

Next ==
  \/ which = "pool" /\ TP!Next /\ UNCHANGED <<which, strandV, scopeV, timerV, epollV, loopV, runtimeV>>
  \/ which = "strand" /\ ST!Next /\ UNCHANGED <<which, poolV, scopeV, timerV, epollV, loopV, runtimeV>>
  \/ which = "scope" /\ AS!Next /\ UNCHANGED <<which, poolV, strandV, timerV, epollV, loopV, runtimeV>>
  \/ which = "timers" /\ TM!Next /\ UNCHANGED <<which, poolV, strandV, scopeV, epollV, loopV, runtimeV>>
  \/ which = "epoll" /\ EP!Next /\ UNCHANGED <<which, poolV, strandV, scopeV, timerV, loopV, runtimeV>>
  \/ which = "loop" /\ RL!Next /\ UNCHANGED <<which, poolV, strandV, scopeV, timerV, epollV, runtimeV>>
  \/ which = "runtime" /\ RC!Next /\ UNCHANGED <<which, poolV, strandV, scopeV, timerV, epollV, loopV>>

Spec ==
  /\ Init /\ [][Next]_all
  /\ TP!Fairness /\ ST!Fairness /\ AS!Fairness /\ TM!Fairness
  /\ EP!Fairness /\ RL!Fairness /\ RC!Fairness

-----------------------------------------------------------------------------
(* static_thread_pool: wait() and the destructor leave no accepted task    *)
(* behind; every accepted task runs, and both calls return.                *)
PoolDrains == []TP!WaitDrains /\ TP!TasksRun

(* strand: turns never overlap and operations complete in the order in     *)
(* which they were enqueued; every operation completes, shutdown or not,   *)
(* and wait() returns after those enqueued before.                         *)
StrandIsSerial == [](ST!SerialTurns /\ ST!CompletedInOrder) /\ ST!OperationsComplete

(* async_scope, and the contexts made of a scope, a pool and timers:       *)
(* wait() is a teardown barrier for the work given to them, also for work  *)
(* that changes from one part to another meanwhile; the destructors stop   *)
(* the work and return.                                                    *)
ScopeIsBarrier == [](AS!WaitIsBarrier /\ RC!WaitIsBarrier) /\ AS!DestroyReturns /\ RC!ShutdownEnds

(* timer_context: wait() returns only when the timers queued before are    *)
(* through; every timer settles and every thread gets out.                 *)
TimersSettle == []TM!WaitDrains /\ TM!TimersSettle

(* io::context: the counters are exact and wait() is a barrier for the     *)
(* operations in flight; threads in wait() and ~__op, the poller and a     *)
(* cancelled operation come to an end.                                     *)
EpollSettles == [](EP!CountersAreExact /\ EP!WaitIsBarrier) /\ EP!NobodyHangs

(* run_loop: the count is exact and the order kept; tasks are executed and *)
(* finish() ends every run().                                              *)
LoopExecutes == []RL!FifoOrder /\ RL!PushedIsExecuted
=============================================================================
