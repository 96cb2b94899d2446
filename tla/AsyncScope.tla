----------------------------- MODULE AsyncScope -----------------------------
(***************************************************************************)
(* forge::async_scope (include/forge/async_scope.hpp).                     *)
(*                                                                         *)
(* Every spawn() runs on a thread of its own and its work completes on     *)
(* another; the node holds two references while start() runs, one for the  *)
(* call and one for the completion, and the last one destroys it.          *)
(***************************************************************************)
EXTENDS Naturals, FiniteSets

CONSTANTS Nodes,    \* calls of spawn()
          Waiters,  \* threads that call wait() on a living scope
          None

VARIABLES active, closed, firstError, stopped,  \* __state
          pc,      \* position of each spawn()
          life,    \* the node: "none", "alive", "publishing", "gone"
          refs, completed, error,               \* __op_node
          scope,   \* position in ~async_scope
          xpc, since   \* waiters, and the nodes acquired when they called

stateVars == <<active, closed, firstError, stopped>>
nodeVars == <<life, refs, completed, error>>
vars == <<stateVars, pc, nodeVars, scope, xpc, since>>

Init ==
  /\ active = 0 /\ closed = FALSE /\ firstError = None /\ stopped = FALSE
  /\ pc = [n \in Nodes |-> "idle"] /\ life = [n \in Nodes |-> "none"]
  /\ refs = [n \in Nodes |-> 0] /\ completed = [n \in Nodes |-> FALSE]
  /\ error = [n \in Nodes |-> None]
  /\ scope = "alive" /\ xpc = [x \in Waiters |-> "idle"] /\ since = [x \in Waiters |-> {}]

(* complete(e): remember the first error, count down, notify at zero.      *)
KeepsFirst(e) == IF e # None /\ firstError = None THEN e ELSE firstError

NotifyAll == xpc' = [x \in Waiters |-> IF xpc[x] = "asleep" THEN "check" ELSE xpc[x]]

Publish(e) ==
  /\ firstError' = KeepsFirst(e)
  /\ active' = active - 1
  /\ IF active = 1 THEN NotifyAll ELSE UNCHANGED xpc

-----------------------------------------------------------------------------
(* spawn: try_acquire, build the node or give the count back, start it.    *)
MayEnter == ~closed

TryAcquire(n) ==
  /\ pc[n] = "idle" /\ scope = "alive"
  /\ pc' = [pc EXCEPT ![n] = IF MayEnter THEN "acquired" ELSE "refused"]
  /\ active' = IF MayEnter THEN active + 1 ELSE active
  /\ UNCHANGED <<closed, firstError, stopped, nodeVars, scope, xpc, since>>

Build(n) ==
  /\ pc[n] = "acquired" /\ pc' = [pc EXCEPT ![n] = "built"]
  /\ life' = [life EXCEPT ![n] = "alive"] /\ refs' = [refs EXCEPT ![n] = 1]
  /\ UNCHANGED <<stateVars, completed, error, scope, xpc, since>>

BuildFails(n) ==
  /\ pc[n] = "acquired" /\ pc' = [pc EXCEPT ![n] = "failed"]
  /\ Publish(n)
  /\ UNCHANGED <<closed, stopped, nodeVars, scope, since>>

(* __op_node_base::start: a reference of its own around start_impl.        *)
StartBegin(n) ==
  /\ pc[n] = "built" /\ pc' = [pc EXCEPT ![n] = "starting"]
  /\ refs' = [refs EXCEPT ![n] = @ + 1]
  /\ UNCHANGED <<stateVars, life, completed, error, scope, xpc, since>>

LastRef(r) == r = 1

Release(n) ==
  /\ refs' = [refs EXCEPT ![n] = @ - 1]
  /\ life' = [life EXCEPT ![n] = IF LastRef(refs[n]) THEN "publishing" ELSE @]

StartReturn(n) ==
  /\ pc[n] = "starting" /\ pc' = [pc EXCEPT ![n] = "started"]
  /\ Release(n)
  /\ UNCHANGED <<stateVars, completed, error, scope, xpc, since>>

(* The receiver is completed, inside start_impl or later.                  *)
Complete(n) ==
  /\ pc[n] \in {"starting", "started"} /\ ~completed[n]
  /\ completed' = [completed EXCEPT ![n] = TRUE]
  /\ \E e \in {None, n} : error' = [error EXCEPT ![n] = e]
  /\ Release(n)
  /\ UNCHANGED <<stateVars, pc, scope, xpc, since>>

(* destroy_self: the node and its reference to the state are gone before   *)
(* the completion is published through a plain pointer.                    *)
PublishNode(n) ==
  /\ life[n] = "publishing" /\ life' = [life EXCEPT ![n] = "gone"]
  /\ Publish(error[n])
  /\ UNCHANGED <<closed, stopped, pc, refs, completed, error, scope, since>>

-----------------------------------------------------------------------------
Close == /\ scope = "alive" /\ ~closed /\ closed' = TRUE
         /\ UNCHANGED <<active, firstError, stopped, pc, nodeVars, scope, xpc, since>>

RequestStop == /\ scope = "alive" /\ ~stopped /\ stopped' = TRUE
               /\ UNCHANGED <<active, closed, firstError, pc, nodeVars, scope, xpc, since>>

(* wait() on a living scope *)
Wait(x) ==
  /\ scope = "alive" /\ xpc[x] = "idle" /\ xpc' = [xpc EXCEPT ![x] = "check"]
  /\ since' = [since EXCEPT ![x] = {n \in Nodes : pc[n] \notin {"idle", "refused"}}]
  /\ UNCHANGED <<stateVars, pc, nodeVars, scope>>

Idle == active = 0

WaitCheck(x) ==
  /\ xpc[x] = "check"
  /\ xpc' = [xpc EXCEPT ![x] = IF Idle THEN "done" ELSE "asleep"]
  /\ UNCHANGED <<stateVars, pc, nodeVars, scope, since>>

(* ~async_scope: close, request_stop, wait, then the scope's reference to  *)
(* the state is dropped.  No other thread is inside a member function.     *)
DtorClose ==
  /\ scope = "alive" /\ scope' = "stopping" /\ closed' = TRUE
  /\ \A n \in Nodes : pc[n] \notin {"acquired", "built", "starting"}
  /\ \A x \in Waiters : xpc[x] \in {"idle", "done"}
  /\ UNCHANGED <<active, firstError, stopped, pc, nodeVars, xpc, since>>


DtorStop ==
  /\ scope = "stopping" /\ scope' = "waiting" /\ stopped' = TRUE
  /\ UNCHANGED <<active, closed, firstError, pc, nodeVars, xpc, since>>

DtorWait ==
  /\ scope = "waiting" /\ Idle /\ scope' = "gone"
  /\ UNCHANGED <<stateVars, pc, nodeVars, xpc, since>>

Spawning(n) == TryAcquire(n) \/ Build(n) \/ BuildFails(n) \/ StartBegin(n) \/ StartReturn(n)

Next == \/ Close \/ RequestStop \/ DtorClose \/ DtorStop \/ DtorWait
        \/ \E n \in Nodes : Spawning(n) \/ Complete(n) \/ PublishNode(n)
        \/ \E x \in Waiters : Wait(x) \/ WaitCheck(x)

Spec == Init /\ [][Next]_vars

(* Work need not end by itself, but it does when stop was requested.       *)
Fairness ==
  /\ WF_vars(DtorStop) /\ WF_vars(DtorWait)
  /\ \A n \in Nodes : /\ WF_vars(Build(n) \/ StartBegin(n) \/ StartReturn(n))
                      /\ WF_vars(stopped /\ Complete(n)) /\ WF_vars(PublishNode(n))
  /\ \A x \in Waiters : WF_vars(WaitCheck(x))

-----------------------------------------------------------------------------
(* spawn() counts its node before it exists and the node gives the count   *)
(* back after it is gone: active counts exactly the calls in between.      *)
Counted == {n \in Nodes : pc[n] \in {"acquired", "built"} \/ life[n] \in {"alive", "publishing"}}

(* wait() is a teardown barrier: the nodes acquired before the call have   *)
(* been destroyed, and their outcome published, when it returns.  A node   *)
(* is freed by its last reference only, not while start() is still inside  *)
(* it, and the scope's state outlives all of them.                         *)
WaitIsBarrier ==
  /\ active = Cardinality(Counted)
  /\ \A x \in Waiters : xpc[x] = "done" => \A n \in since[x] : life[n] = "gone" \/ pc[n] = "failed"
  /\ \A n \in Nodes : life[n] \in {"publishing", "gone"} => pc[n] = "started" /\ completed[n]
  /\ scope = "gone" => Counted = {}

(* ~async_scope asks the work to stop and therefore returns, and so does   *)
(* wait() once stop was requested.                                         *)
DestroyReturns ==
  []<>(/\ scope \in {"alive", "gone"}
       /\ stopped /\ closed => \A x \in Waiters : xpc[x] \in {"idle", "done"})
=============================================================================
