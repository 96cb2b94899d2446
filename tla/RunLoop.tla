------------------------------ MODULE RunLoop ------------------------------
(***************************************************************************)
(* std::execution::run_loop (backport/cpp26/execution/run_loop.hpp).       *)
(*                                                                         *)
(* Threads inside run() wait on the condition variable (asleep) and must   *)
(* be notified.  Every critical section is one step, except finish(),      *)
(* whose lock is held while it notifies (fin = "notify"): the loop may be  *)
(* gone as soon as the lock is released.                                   *)
(***************************************************************************)
EXTENDS Naturals, Sequences, SequencesExt

CONSTANTS Tasks, Runners, None

VARIABLES queue, count, finishing, fin,      \* the list, __task_count_, __finishing_; finish()
          rpc, cur,                          \* threads in run(): position, task
          task, stop,                        \* operations; stop token requested
          pushed, popped                     \* history: order of __push and of __pop

loopVars == <<queue, count, finishing, fin, rpc, cur, task, stop, pushed, popped>>

Init ==
  /\ queue = <<>> /\ count = 0 /\ finishing = FALSE /\ fin = "no"
  /\ rpc = [r \in Runners |-> "out"] /\ cur = [r \in Runners |-> None]
  /\ task = [t \in Tasks |-> "idle"] /\ stop = FALSE
  /\ pushed = <<>> /\ popped = <<>>

MutexHeld == fin = "notify"

Asleep == {r \in Runners : rpc[r] = "asleep"}

-----------------------------------------------------------------------------
(* start() of a schedule operation: __push links at the tail and wakes one *)
(* sleeper.                                                                *)
NotifyNobody == FALSE
NotifyOne == TRUE

Push(t) ==
  /\ ~MutexHeld /\ task[t] = "idle" /\ task' = [task EXCEPT ![t] = "queued"]
  /\ queue' = Append(queue, t) /\ count' = count + 1 /\ pushed' = Append(pushed, t)
  /\ IF Asleep = {} \/ ~NotifyOne THEN UNCHANGED rpc
     ELSE \E r \in Asleep : rpc' = [rpc EXCEPT ![r] = "pop"]
  /\ UNCHANGED <<finishing, fin, cur, stop, popped>>

(* finish(): sets the flag and notifies everybody under the lock. *)
FinishBegin ==
  /\ ~MutexHeld /\ fin = "no" /\ finishing' = TRUE /\ fin' = "notify"
  /\ UNCHANGED <<queue, count, rpc, cur, task, stop, pushed, popped>>

FinishNotify ==
  /\ fin = "notify" /\ fin' = "out"
  /\ rpc' = [r \in Runners |-> IF r \in Asleep THEN "pop" ELSE rpc[r]]
  /\ UNCHANGED <<queue, count, finishing, cur, task, stop, pushed, popped>>

-----------------------------------------------------------------------------
Run(r) ==
  /\ rpc[r] = "out" /\ rpc' = [rpc EXCEPT ![r] = "pop"]
  /\ UNCHANGED <<queue, count, finishing, fin, cur, task, stop, pushed, popped>>

NothingLeft == finishing /\ queue = <<>>

(* __pop: take the head, sleep, or leave run() when the loop is finishing  *)
(* and empty.                                                              *)
Pop(r) ==
  /\ ~MutexHeld /\ rpc[r] = "pop"
  /\ \/ /\ queue # <<>> /\ ~NothingLeft /\ queue' = Tail(queue) /\ popped' = Append(popped, Head(queue))
        /\ cur' = [cur EXCEPT ![r] = Head(queue)] /\ rpc' = [rpc EXCEPT ![r] = "execute"]
     \/ /\ NothingLeft /\ rpc' = [rpc EXCEPT ![r] = "done"] /\ UNCHANGED <<queue, popped, cur>>
     \/ /\ queue = <<>> /\ ~finishing /\ rpc' = [rpc EXCEPT ![r] = "asleep"]
        /\ UNCHANGED <<queue, popped, cur>>
  /\ UNCHANGED <<count, finishing, fin, task, stop, pushed>>

(* __execute asks the receiver's token, then completes. *)
Execute(r) ==
  /\ rpc[r] = "execute" /\ rpc' = [rpc EXCEPT ![r] = "count"]
  /\ task' = [task EXCEPT ![cur[r]] = IF stop THEN "stopped" ELSE "value"]
  /\ UNCHANGED <<queue, count, finishing, fin, cur, stop, pushed, popped>>

CountDown(r) ==
  /\ ~MutexHeld /\ rpc[r] = "count" /\ count' = count - 1
  /\ rpc' = [rpc EXCEPT ![r] = "pop"] /\ cur' = [cur EXCEPT ![r] = None]
  /\ UNCHANGED <<queue, finishing, fin, task, stop, pushed, popped>>

RequestStop ==
  /\ ~stop /\ stop' = TRUE
  /\ UNCHANGED <<queue, count, finishing, fin, rpc, cur, task, pushed, popped>>

-----------------------------------------------------------------------------
RunStep(r) == Pop(r) \/ Execute(r) \/ CountDown(r)

Next ==
  \/ \E t \in Tasks : Push(t)
  \/ FinishBegin \/ FinishNotify \/ RequestStop
  \/ \E r \in Runners : Run(r) \/ RunStep(r)

Spec == Init /\ [][Next]_loopVars

(* Threads inside the loop go on. *)
Fairness ==
  /\ WF_loopVars(FinishNotify)
  /\ \A r \in Runners : WF_loopVars(RunStep(r))

-----------------------------------------------------------------------------
Busy == {r \in Runners : rpc[r] \in {"execute", "count"}}

(* __task_count_ counts the queued tasks and the ones in execution, so     *)
(* ~run_loop terminates exactly when work is left.  Tasks leave the list   *)
(* in the order of __push.                                                 *)
FifoOrder == count = Len(queue) + Cardinality(Busy) /\ popped \o queue = pushed

(* A pushed task is executed while somebody runs the loop, and finish()    *)
(* ends every run(): no notification is lost.                              *)
PushedIsExecuted ==
  []<>(\A r \in Runners : rpc[r] # "out" =>
         /\ finishing => rpc[r] = "done"
         /\ rpc[r] # "done" => \A t \in Tasks : task[t] \in {"idle", "value", "stopped"})
=============================================================================
