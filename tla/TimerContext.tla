---------------------------- MODULE TimerContext ----------------------------
(***************************************************************************)
(* forge::timer_context (include/forge/timer_context.hpp).                 *)
(*                                                                         *)
(* One worker delivers the queued items; every operation has a thread that *)
(* starts it, a stop token of its own and a thread that may destroy it at  *)
(* any time after start() returned or the receiver was completed.  A step  *)
(* is a critical section of the state mutex, an atomic exchange, or a call *)
(* outside both.  Time is a counter that ticks at any moment.              *)
(***************************************************************************)
EXTENDS Integers, Sequences, SequencesExt, FiniteSets

CONSTANTS Ops,        \* timer operations, each started at most once
          Delays,     \* the delays they may ask for, in ticks
          MaxTime,    \* bound on the clock and on the deadlines it reaches
          Limit,      \* the largest time point of the clock's type
          Slice,      \* max_wait_slice of run()
          AllocFails, \* whether an allocation in start() may throw
          Waiters,    \* outside threads that call wait()
          Destroyers, \* the threads that may run ~__op, see MayDestroy
          None

ASSUME TimerAssumption ==
  /\ None \notin Ops /\ Delays \subseteq Int /\ MaxTime \in Nat
  /\ Limit \in Nat /\ MaxTime < Limit
  /\ Slice \in Nat \ {0} /\ AllocFails \in BOOLEAN
  /\ Destroyers \subseteq {"client", "worker", "starter"}

VARIABLES now, stop, items, pending,  \* the clock and __state
          wpc, ready, kind, wakeAt,   \* the worker: position in run(), item at hand
          pc,                         \* position of each operation's start()
          item, deadline, flag, delivered,  \* __item of each operation
          due,                        \* when its caller wanted it, however far off
          token, cb,                  \* its stop token and stop_callback
          done, completing, outcome,  \* __op_data and the signal the receiver got
          dpc, by,                    \* ~__op: position, and the thread it runs on
          ctx,                        \* shutdown() and ~timer_context
          xpc, since                  \* waiters: position in wait(), the items pending when called

stateVars == <<stop, items, pending>>
workerVars == <<wpc, ready, kind, wakeAt>>
opVars == <<pc, item, deadline, due, flag, delivered, token, cb, done, completing, outcome>>
dtorVars == <<dpc, by>>
waitVars == <<xpc, since>>
vars == <<now, stateVars, workerVars, opVars, dtorVars, ctx, waitVars>>

Init ==
  /\ now = 0 /\ stop = FALSE /\ items = <<>> /\ pending = 0
  /\ wpc = "none" /\ ready = None /\ kind = "value" /\ wakeAt = 0
  /\ pc = [o \in Ops |-> "idle"] /\ item = [o \in Ops |-> FALSE]
  /\ deadline = [o \in Ops |-> 0] /\ due = deadline /\ flag = [o \in Ops |-> FALSE]
  /\ delivered = [o \in Ops |-> FALSE] /\ token = [o \in Ops |-> FALSE]
  /\ cb = [o \in Ops |-> "none"] /\ done = [o \in Ops |-> FALSE]
  /\ completing = [o \in Ops |-> "nobody"] /\ outcome = [o \in Ops |-> "none"]
  /\ dpc = [o \in Ops |-> "alive"] /\ by = [o \in Ops |-> "nobody"]
  /\ ctx = "open"
  /\ xpc = [x \in Waiters |-> "idle"] /\ since = [x \in Waiters |-> {}]

Never == Limit + Slice + 1
Queued == ToSet(items)

(* The constructor starts the worker. *)
Construct ==
  /\ wpc = "none" /\ wpc' = "check"
  /\ UNCHANGED <<now, stateVars, ready, kind, wakeAt, opVars, dtorVars, ctx, waitVars>>

Tick == wpc # "none" /\ now < MaxTime /\ now' = now + 1
        /\ UNCHANGED <<stateVars, workerVars, opVars, dtorVars, ctx, waitVars>>

(* cv.notify_all and cv_wait.notify_all *)
NotifyWorker == IF wpc = "asleep" THEN wpc' = "check" /\ wakeAt' = 0 ELSE UNCHANGED <<wpc, wakeAt>>

NoNotice(n) == UNCHANGED xpc
NotifyWaiter(n) ==
  xpc' = [x \in Waiters |-> IF n = 0 /\ xpc[x] = "asleep" THEN "check" ELSE xpc[x]]

-----------------------------------------------------------------------------
(* A delay is cast to the clock's duration, and added to the time at which *)
(* the operation starts, without leaving the range of the type.            *)
saturating_nonnegative_duration_cast(d) == IF d <= 0 THEN 0 ELSE IF d >= Limit THEN Limit ELSE d

saturating_time_add(base, delay) ==
  IF delay > 0 /\ base > Limit - delay THEN Limit ELSE base + delay

(* __op::start.  The deadline is fixed here, not when the sender was made. *)
(* A failed allocation (before or after the item exists) and a token that  *)
(* is already stopped lead to complete_inline_stopped.                     *)
Start(o) ==
  /\ pc[o] = "idle" /\ dpc[o] = "alive"
  /\ \E d \in Delays :
       /\ now + d <= MaxTime \/ d > Limit
       /\ LET delay == saturating_nonnegative_duration_cast(d)
          IN  deadline' = [deadline EXCEPT ![o] = saturating_time_add(now, delay)]
       /\ due' = [due EXCEPT ![o] = IF d > Limit THEN d ELSE now + d]
  /\ \/ pc' = [pc EXCEPT ![o] = IF token[o] THEN "inline" ELSE "install"]
        /\ item' = [item EXCEPT ![o] = TRUE]
     \/ AllocFails /\ pc' = [pc EXCEPT ![o] = "inline"] /\ item' \in {item, [item EXCEPT ![o] = TRUE]}
  /\ UNCHANGED <<now, stateVars, workerVars, flag, delivered, token, cb, done, completing,
                 outcome, dtorVars, ctx, waitVars>>

(* install_stop_callback: on a token stopped in the meantime the callback  *)
(* runs inside the constructor.                                            *)
Install(o) ==
  /\ pc[o] = "install"
  /\ \/ /\ pc' = [pc EXCEPT ![o] = "enqueue"]
        /\ cb' = [cb EXCEPT ![o] = IF token[o] THEN "ran" ELSE "registered"]
        /\ flag' = [flag EXCEPT ![o] = token[o]]
        /\ IF token[o] THEN NotifyWorker ELSE UNCHANGED <<wpc, wakeAt>>
     \/ AllocFails /\ pc' = [pc EXCEPT ![o] = "inline"] /\ UNCHANGED <<cb, flag, wpc, wakeAt>>
  /\ UNCHANGED <<now, stateVars, ready, kind, item, deadline, due, delivered, token, done,
                 completing, outcome, dtorVars, ctx, waitVars>>

(* enqueue; start() then returns. *)
Enqueue(o) ==
  /\ pc[o] = "enqueue"
  /\ \/ /\ ~stop
        /\ items' = Append(items, o) /\ pending' = pending + 1 /\ NotifyWorker
        /\ pc' = [pc EXCEPT ![o] = "returned"]
     \/ /\ stop \/ AllocFails
        /\ pc' = [pc EXCEPT ![o] = "inline"]
        /\ UNCHANGED <<items, pending, wpc, wakeAt>>
  /\ UNCHANGED <<now, stop, ready, kind, item, deadline, due, flag, delivered, token, cb,
                 done, completing, outcome, dtorVars, ctx, waitVars>>

(* stop_callback.reset(): waits for a callback that runs on another thread *)
CallbackRuns(o) == cb[o] = "running"

Reset(o) == ~CallbackRuns(o) /\ cb' = [cb EXCEPT ![o] = "none"]

(* __op_data::complete_value, complete_stopped on thread t: publish the    *)
(* thread, claim done_, call the receiver.                                 *)
ClaimIgnored(o) == FALSE
Claimed(o) == done[o]

Complete(o, k, t) ==
  /\ completing' = [completing EXCEPT ![o] = t]
  /\ done' = [done EXCEPT ![o] = TRUE]
  /\ outcome' = [outcome EXCEPT ![o] = IF Claimed(o) THEN @ ELSE k]

(* complete_inline_stopped: reset, complete, finish_delivery.  Without an  *)
(* item there is nothing to reset and nothing to publish.  Nobody can run  *)
(* ~__op before the receiver is called, so reset and claim are one step.   *)
InlineComplete(o) ==
  /\ pc[o] = "inline" /\ pc' = [pc EXCEPT ![o] = "calling"]
  /\ Reset(o) /\ Complete(o, "stopped", "starter")
  /\ UNCHANGED <<now, stateVars, workerVars, item, deadline, due, flag, delivered, token,
                 dtorVars, ctx, waitVars>>

(* A callback returns once the destructors it runs have returned. *)
Busy(t) == \E o \in Ops : by[o] = t /\ dpc[o] # "gone"

InlineReturn(o) ==
  /\ pc[o] = "calling" /\ ~(by[o] = "starter" /\ dpc[o] # "gone")
  /\ pc' = [pc EXCEPT ![o] = "returned"]
  /\ delivered' = [delivered EXCEPT ![o] = item[o]]
  /\ UNCHANGED <<now, stateVars, workerVars, item, deadline, due, flag, token, cb, done, completing,
                 outcome, dtorVars, ctx, waitVars>>

-----------------------------------------------------------------------------
(* The stop source of an operation; its callback sets the item's flag      *)
(* under the mutex and notifies the worker after unlocking it.             *)
RequestStop(o) ==
  /\ ~token[o] /\ token' = [token EXCEPT ![o] = TRUE]
  /\ UNCHANGED <<now, stateVars, workerVars, pc, item, deadline, due, flag, delivered, cb, done,
                 completing, outcome, dtorVars, ctx, waitVars>>

StopCallback(o) ==
  /\ token[o] /\ cb[o] = "registered"
  /\ cb' = [cb EXCEPT ![o] = "running"] /\ flag' = [flag EXCEPT ![o] = TRUE]
  /\ UNCHANGED <<now, stateVars, workerVars, pc, item, deadline, due, delivered, token, done,
                 completing, outcome, dtorVars, ctx, waitVars>>

StopCallbackNotify(o) ==
  /\ cb[o] = "running" /\ cb' = [cb EXCEPT ![o] = "ran"] /\ NotifyWorker
  /\ UNCHANGED <<now, stateVars, ready, kind, pc, item, deadline, due, flag, delivered,
                 token, done, completing, outcome, dtorVars, ctx, waitVars>>

-----------------------------------------------------------------------------
(* run(): the locked loop.  Stop drains from the back; otherwise the first *)
(* stopped item goes before the first of the earliest deadline.            *)
Flagged == {i \in DOMAIN items : flag[items[i]]}
Earliest == {i \in DOMAIN items : \A j \in DOMAIN items : deadline[items[i]] <= deadline[items[j]]}
First(S) == CHOOSE i \in S : \A j \in S : i <= j

Due(i) == deadline[items[i]] <= now

Take(i, k) ==
  /\ ready' = items[i] /\ kind' = k /\ wpc' = "reset"
  /\ items' = RemoveAt(items, i)
  /\ UNCHANGED <<now, stop, pending, wakeAt, opVars, dtorVars, ctx, waitVars>>

WorkerDrain == wpc = "check" /\ stop /\ items # <<>> /\ Take(Len(items), "stopped")

WorkerTakeStopped == wpc = "check" /\ ~stop /\ Flagged # {} /\ Take(First(Flagged), "stopped")

WorkerTakeDue ==
  /\ wpc = "check" /\ ~stop /\ Flagged = {}
  /\ items # <<>> /\ Due(First(Earliest)) /\ Take(First(Earliest), "value")

(* wait_for sleeps at most one slice, wait until it is notified. *)
WakeTime(d) == IF d - now <= Slice THEN d ELSE now + Slice

WorkerSleep ==
  /\ wpc = "check" /\ ~stop /\ wpc' = "asleep"
  /\ \/ items = <<>> /\ wakeAt' = Never /\ NotifyWaiter(pending)
     \/ /\ items # <<>> /\ Flagged = {} /\ ~Due(First(Earliest))
        /\ wakeAt' = WakeTime(deadline[items[First(Earliest)]])
        /\ UNCHANGED xpc
  /\ UNCHANGED <<now, stateVars, ready, kind, opVars, dtorVars, ctx, since>>

WorkerTimeout ==
  /\ wpc = "asleep" /\ now >= wakeAt /\ wpc' = "check" /\ wakeAt' = 0
  /\ UNCHANGED <<now, stateVars, ready, kind, opVars, dtorVars, ctx, waitVars>>

WorkerExit ==
  /\ wpc = "check" /\ stop /\ items = <<>> /\ wpc' = "exited" /\ NotifyWaiter(pending)
  /\ UNCHANGED <<now, stateVars, ready, kind, wakeAt, opVars, dtorVars, ctx, since>>

(* deliver_value, deliver_stopped: reset, complete, finish_delivery; then  *)
(* pending is counted down under the mutex.                                *)
WorkerReset ==
  /\ wpc = "reset" /\ Reset(ready) /\ wpc' = "claim"
  /\ UNCHANGED <<now, stateVars, ready, kind, wakeAt, pc, item, deadline, due, flag, delivered,
                 token, done, completing, outcome, dtorVars, ctx, waitVars>>

WorkerComplete ==
  /\ wpc = "claim" /\ Complete(ready, kind, "worker") /\ wpc' = "calling"
  /\ UNCHANGED <<now, stateVars, ready, kind, wakeAt, pc, item, deadline, due, flag, delivered,
                 token, cb, dtorVars, ctx, waitVars>>

WorkerReturn ==
  /\ wpc = "calling" /\ ~Busy("worker") /\ wpc' = "retire"
  /\ delivered' = [delivered EXCEPT ![ready] = TRUE]
  /\ UNCHANGED <<now, stateVars, ready, kind, wakeAt, pc, item, deadline, due, flag, token, cb,
                 done, completing, outcome, dtorVars, ctx, waitVars>>

WorkerRetire ==
  /\ wpc = "retire" /\ wpc' = "check" /\ ready' = None /\ kind' = "value"
  /\ pending' = pending - 1 /\ NotifyWaiter(pending - 1)
  /\ UNCHANGED <<now, stop, items, wakeAt, opVars, dtorVars, ctx, since>>

-----------------------------------------------------------------------------
(* ~__op on thread t: any thread once start() returned or the receiver was *)
(* completed; the worker from inside a completion; the starting thread     *)
(* from inside an inline completion of the same operation.                 *)
MayDestroy(o, t) ==
  \/ t = "client" /\ (pc[o] = "returned" \/ outcome[o] # "none")
  \/ t = "worker" /\ wpc = "calling" /\ ~Busy("worker") /\ (pc[o] = "returned" \/ outcome[o] # "none")
  \/ t = "starter" /\ pc[o] = "calling"

OwnStack(o, t) == completing[o] = t

DtorClaim(o, t) ==
  /\ dpc[o] = "alive" /\ MayDestroy(o, t)
  /\ by' = [by EXCEPT ![o] = t] /\ done' = [done EXCEPT ![o] = item[o] \/ @]
  /\ dpc' = [dpc EXCEPT ![o] = IF ~item[o] \/ (done[o] /\ OwnStack(o, t)) THEN "gone"
                               ELSE IF done[o] THEN "wait" ELSE "discard"]
  /\ UNCHANGED <<now, stateVars, workerVars, pc, item, deadline, due, flag, delivered, token, cb,
                 completing, outcome, ctx, waitVars>>

(* discard_item *)
DtorDiscard(o) ==
  /\ dpc[o] = "discard"
  /\ \/ /\ o \in Queued
        /\ items' = SelectSeq(items, LAMBDA i : i # o)
        /\ pending' = pending - 1 /\ NotifyWaiter(pending')
        /\ dpc' = [dpc EXCEPT ![o] = "reset"]
     \/ o \notin Queued /\ dpc' = [dpc EXCEPT ![o] = "wait"] /\ UNCHANGED <<items, pending, xpc>>
  /\ UNCHANGED <<now, stop, workerVars, opVars, by, ctx, since>>

DtorReset(o) ==
  /\ dpc[o] = "reset" /\ Reset(o) /\ dpc' = [dpc EXCEPT ![o] = "gone"]
  /\ UNCHANGED <<now, stateVars, workerVars, pc, item, deadline, due, flag, delivered, token, done,
                 completing, outcome, by, ctx, waitVars>>

(* wait_delivered *)
NoBarrier(o) == TRUE
TailFinished(o) == delivered[o]

DtorWait(o) ==
  /\ dpc[o] = "wait" /\ TailFinished(o) /\ dpc' = [dpc EXCEPT ![o] = "gone"]
  /\ UNCHANGED <<now, stateVars, workerVars, opVars, by, ctx, waitVars>>

-----------------------------------------------------------------------------
(* shutdown() notifies after unlocking; ~timer_context joins the worker,   *)
(* or detaches it when it is itself running on the worker.                 *)
Shutdown ==
  /\ ctx = "open" /\ ctx' = "notify" /\ stop' = TRUE
  /\ UNCHANGED <<now, items, pending, workerVars, opVars, dtorVars, waitVars>>

ShutdownNotify ==
  /\ ctx = "notify" /\ ctx' = "closed" /\ NotifyWorker
  /\ UNCHANGED <<now, stateVars, ready, kind, opVars, dtorVars, waitVars>>

Destroy ==
  /\ ctx = "closed" /\ wpc \in {"exited", "calling"} /\ \A x \in Waiters : xpc[x] \in {"idle", "done"}
  /\ ctx' = "gone"
  /\ UNCHANGED <<now, stateVars, workerVars, opVars, dtorVars, waitVars>>

(* wait() from outside; on the worker it returns at once. *)
Wait(x) ==
  /\ xpc[x] = "idle" /\ ctx # "gone" /\ xpc' = [xpc EXCEPT ![x] = "check"]
  /\ since' = [since EXCEPT ![x] = Queued \cup ({ready} \ {None})]
  /\ UNCHANGED <<now, stateVars, workerVars, opVars, dtorVars, ctx>>

Drained == pending = 0

WaitCheck(x) ==
  /\ xpc[x] = "check" /\ xpc' = [xpc EXCEPT ![x] = IF Drained THEN "done" ELSE "asleep"]
  /\ UNCHANGED <<now, stateVars, workerVars, opVars, dtorVars, ctx, since>>

Worker == \/ WorkerDrain \/ WorkerTakeStopped \/ WorkerTakeDue \/ WorkerSleep
          \/ WorkerTimeout \/ WorkerExit \/ WorkerReset \/ WorkerComplete
          \/ WorkerReturn \/ WorkerRetire

Starting(o) == \/ Install(o) \/ Enqueue(o) \/ InlineComplete(o)
               \/ InlineReturn(o)
Stopping(o) == StopCallback(o) \/ StopCallbackNotify(o)
Destroying(o) == DtorDiscard(o) \/ DtorReset(o) \/ DtorWait(o)

Use == \/ Tick \/ Worker \/ Shutdown \/ ShutdownNotify \/ Destroy
       \/ \E x \in Waiters : Wait(x) \/ WaitCheck(x)
       \/ \E o \in Ops :
            \/ Start(o) \/ RequestStop(o) \/ Starting(o) \/ Stopping(o) \/ Destroying(o)
            \/ \E t \in Destroyers : DtorClaim(o, t)

Next == Construct \/ (wpc # "none" /\ Use)

Spec == Init /\ [][Next]_vars

(* Threads that have something to do do it, receivers return, time passes. *)
Fairness ==
  /\ WF_vars(Tick) /\ WF_vars(Worker) /\ WF_vars(ShutdownNotify)
  /\ \A x \in Waiters : WF_vars(WaitCheck(x))
  /\ \A o \in Ops : WF_vars(Starting(o)) /\ WF_vars(Stopping(o)) /\ WF_vars(Destroying(o))

-----------------------------------------------------------------------------
(* pending counts the queued items and the one being delivered; set_value  *)
(* is never sent before it is due, the delay counted from start() and not  *)
(* wrapped around the range of the clock; and the worker never sleeps      *)
(* through work: while it is asleep nobody has shut the context down or    *)
(* stopped a queued item without still owing it a notification, and it     *)
(* wakes no later than the earliest deadline.                              *)
NeverOversleeps ==
  /\ pending = Len(items) + (IF ready = None THEN 0 ELSE 1)
  /\ \A o \in Ops : outcome[o] = "value" => due[o] <= now
  /\ wpc = "asleep" => /\ stop => ctx = "notify"
                       /\ \A o \in Queued : wakeAt <= deadline[o] /\ (flag[o] => cb[o] = "running")

(* After ~__op returned, the stop registration is gone, the item is in no  *)
(* queue, and no delivery runs except the one the destructor was called    *)
(* from: the receiver's environment may go away.                           *)
DestroyIsBarrier ==
  \A o \in Ops : dpc[o] = "gone" =>
    /\ cb[o] = "none" /\ o \notin Queued
    /\ (item[o] /\ by[o] # completing[o]) =>
         pc[o] # "calling" /\ ~(ready = o /\ wpc \in {"reset", "claim", "calling"})

(* Once ~__op has claimed the completion the receiver hears nothing any    *)
(* more, and a receiver that was completed is not completed again.         *)
CompletesOnce ==
  [][\A o \in Ops : dpc[o] # "alive" \/ outcome[o] # "none" => outcome'[o] = outcome[o]]_vars

(* wait() returns only when every timer queued or in delivery at the call  *)
(* has been delivered completely or discarded.                             *)
WaitDrains == \A x \in Waiters : xpc[x] = "done" => since[x] \cap (Queued \cup {ready}) = {}

(* Every started timer completes its receiver or is destroyed before; ~__op *)
(* returns, from whichever thread it is called, and so does wait(); and    *)
(* after shutdown() the worker leaves run(), so that it can be joined.     *)
TimersSettle ==
  []<>(/\ \A o \in Ops : /\ pc[o] # "idle" => outcome[o] # "none" \/ dpc[o] # "alive"
                         /\ dpc[o] \in {"alive", "gone"}
       /\ \A x \in Waiters : xpc[x] \in {"idle", "done"}
       /\ stop => wpc = "exited")
=============================================================================
