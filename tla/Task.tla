-------------------------------- MODULE Task --------------------------------
(***************************************************************************)
(* forge::task (include/forge/task.hpp) over the sender-to-awaitable       *)
(* bridge of backport/cpp26/execution/awaitable.hpp: a coroutine whose     *)
(* body awaits senders one after another and whose end completes the       *)
(* receiver it was connected to.                                           *)
(*                                                                         *)
(* A thread is the stack of what it is in: "run" is a resume() of the      *)
(* coroutine, an awaitable's number is the start() of its operation, with  *)
(* the start scope that await_suspend keeps there.                         *)
(***************************************************************************)
EXTENDS Naturals, Sequences, FiniteSets

CONSTANTS Threads,  \* the threads; any of them may complete a sender
          Awaits    \* how many senders the body awaits

VARIABLES thread,   \* each thread's stack
          coro,     \* the coroutine: where it is, and its promise
          await,    \* the awaitable of the current co_await
          op        \* the task's operation: __completed, the receiver's calls

vars == <<thread, coro, await, op>>

Init ==
  /\ thread = [t \in Threads |-> <<>>]
  /\ coro = [at |-> "initial", k |-> 0, stopped |-> FALSE, result |-> "none"]
  /\ await = [state |-> "none", out |-> "none"]
  /\ op = [state |-> "task", completed |-> FALSE, calls |-> <<>>]

Top(t) == IF thread[t] = <<>> THEN [kind |-> "idle", k |-> 0, resume |-> FALSE] ELSE Head(thread[t])
Run == [kind |-> "run", k |-> 0, resume |-> FALSE]
Push(t, frame) == [thread EXCEPT ![t] = <<frame>> \o @]
Runs(t) == Top(t).kind = "run" /\ coro.at = "body"

-----------------------------------------------------------------------------
(* task::connect and __op::start, on a thread that is not in anything.     *)
connect ==
  /\ op.state = "task" /\ op' = [op EXCEPT !.state = "connected"] /\ UNCHANGED <<thread, coro, await>>
start(t) ==
  /\ op.state = "connected" /\ thread[t] = <<>> /\ thread' = Push(t, Run)
  /\ op' = [op EXCEPT !.state = "started"] /\ coro' = [coro EXCEPT !.at = "body"] /\ UNCHANGED await

(* co_await of the next sender: await_suspend connects it, which may throw *)
(* into the body, opens a start scope and starts it.                       *)
Started(t, k) == Push(t, [kind |-> "start", k |-> k, resume |-> FALSE])
await_suspend(t) ==
  /\ Runs(t) /\ await.state = "none" /\ coro.k < Awaits /\ coro.result = "none" /\ UNCHANGED op
  /\ \/ /\ coro' = [coro EXCEPT !.at = "suspended", !.k = @ + 1]
        /\ await' = [state |-> "started", out |-> "none"] /\ thread' = Started(t, coro.k + 1)
     \/ /\ coro' = [coro EXCEPT !.k = @ + 1]
        /\ await' = [state |-> "completed", out |-> "error"] /\ UNCHANGED thread

(* __complete: on the starting thread the resumption is left to            *)
(* await_suspend; anywhere else the completing thread resumes.             *)
Scopes(t, k) == {i \in 1..Len(thread[t]) : thread[t][i].kind = "start" /\ thread[t][i].k = k}
Defers(t, k) == Scopes(t, k) # {}

unhandled_stopped(p) == [p EXCEPT !.stopped = TRUE]

complete(t) ==
  /\ coro.at = "suspended" /\ await.state = "started" /\ Top(t).kind \in {"idle", "start"} /\ UNCHANGED op
  /\ \E out \in {"value", "error", "stopped"} :
       /\ await' = [state |-> "completed", out |-> out]
       /\ LET promise == IF out = "stopped" THEN unhandled_stopped(coro) ELSE coro IN
          IF Defers(t, coro.k)
          THEN /\ thread' = [thread EXCEPT ![t] = [i \in 1..Len(@) |->
                                IF i \in Scopes(t, coro.k) THEN [@[i] EXCEPT !.resume = TRUE] ELSE @[i]]]
               /\ coro' = promise
          ELSE thread' = Push(t, Run) /\ coro' = [promise EXCEPT !.at = "body"]

(* start() returns: await_suspend's symmetric transfer goes on in the      *)
(* coroutine, or in nothing, and then the resume() below returns as well.  *)
start_returns(t) ==
  /\ Top(t).kind = "start" /\ UNCHANGED <<await, op>>
  /\ IF Top(t).resume
     THEN thread' = [thread EXCEPT ![t] = Tail(@)] /\ coro' = [coro EXCEPT !.at = "body"]
     ELSE thread' = [thread EXCEPT ![t] = Tail(Tail(@))] /\ UNCHANGED coro

(* await_resume: a value goes on; an error, and the exception that stands  *)
(* for stopped, may be caught by the body or end it.                       *)
await_resume(t) ==
  /\ Runs(t) /\ await.state = "completed" /\ await' = [state |-> "none", out |-> "none"] /\ UNCHANGED <<thread, op>>
  /\ \/ UNCHANGED coro
     \/ await.out # "value" /\ coro' = [coro EXCEPT !.result = IF coro.stopped THEN "dropped" ELSE "error"]

(* The body returns, throws, or has ended by an exception: final_suspend   *)
(* completes the receiver, which does not destroy the operation there.     *)
Outcome(p) == CASE p.stopped -> "stopped"
                [] ~p.stopped /\ p.result = "error" -> "error"
                [] OTHER -> "value"
final_suspend(t) ==
  /\ Runs(t) /\ await.state = "none" /\ (coro.k = Awaits \/ coro.result # "none")
  /\ \E result \in IF coro.result = "none" THEN {"value", "error"} ELSE {coro.result} :
       LET p == [coro EXCEPT !.result = result] IN
       /\ coro' = [p EXCEPT !.at = "final"]
       /\ op' = IF op.completed THEN op ELSE [op EXCEPT !.completed = TRUE, !.calls = Append(@, Outcome(p))]
  /\ thread' = [thread EXCEPT ![t] = Tail(@)] /\ UNCHANGED await

(* ~__op, once completed, or ~task of one never started.                   *)
destroy ==
  /\ op.state \in {"task", "connected"} \/ (op.state = "started" /\ op.completed)
  /\ op' = [op EXCEPT !.state = "destroyed"] /\ coro' = [coro EXCEPT !.at = "destroyed"] /\ UNCHANGED <<thread, await>>

-----------------------------------------------------------------------------
Working(t) == await_suspend(t) \/ start_returns(t) \/ await_resume(t) \/ final_suspend(t)
Next == connect \/ destroy \/ \E t \in Threads : start(t) \/ complete(t) \/ Working(t)

(* Threads run, and a sender that was started completes.                   *)
Fairness == (\A t \in Threads : WF_vars(Working(t))) /\ WF_vars(\E t \in Threads : complete(t))

Spec == Init /\ [][Next]_vars /\ Fairness

-----------------------------------------------------------------------------
(* One thread is in the body, whoever completes the sender and however     *)
(* late the thread that started it returns; the awaitable, and with it the *)
(* sender's operation, is not left while the same thread is in its         *)
(* start(); the receiver is called once; and a task one of whose awaits    *)
(* was stopped completes with stopped, even if the body caught that and    *)
(* returned a value or threw.                                              *)
TaskSound ==
  /\ coro.at = "body" => Cardinality({t \in Threads : Runs(t)}) = 1
  /\ \A t \in Threads : Runs(t) /\ await.state # "started" => Scopes(t, coro.k) = {}
  /\ Len(op.calls) <= 1
  /\ coro.at = "final" => op.calls = IF coro.stopped THEN <<"stopped">> ELSE <<coro.result>>
  /\ \A t \in Threads : \A i \in DOMAIN thread[t] : thread[t][i].resume => coro.at = "suspended"

(* A task that was started completes.                                      *)
TaskCompletes == []<>(op.state = "started" => op.completed)
=============================================================================
