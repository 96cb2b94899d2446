---------------------------- MODULE SpawnFuture ----------------------------
(***************************************************************************)
(* std::execution::spawn_future                                            *)
(* (backport/cpp26/execution/spawn_future.hpp): one spawned operation, the *)
(* future that observes it, and the receiver that consumes the future.     *)
(*                                                                         *)
(* Three threads meet in the shared state: the one that completes the      *)
(* inner operation, the owner of the future (connect, start, destroy), and *)
(* the one that runs the receiver's stop callback.  refs is the set of     *)
(* shared_ptr owners of the state; the state is freed when it is empty.    *)
(***************************************************************************)
EXTENDS Naturals, Sequences

Threads == {"inner", "cancel", "start"}

VARIABLES phase, result, taken, consumerCb, stopSrc,  \* __shared_state
          refs, assoc,          \* owners of the state; the scope association
          envToken, envCb,      \* stop token of the spawn environment, __env_stop
          inner, by, alt,       \* the inner operation: position, thread, result
          cpc,                  \* the future's owner
          token, cb, xpc,       \* the receiver's token, its callback, __try_cancel
          active, signals, dl   \* __consumer::__active, what the receiver got, __deliver

stateVars == <<phase, result, taken, consumerCb>>
envVars == <<envToken, envCb>>
innerVars == <<inner, by, alt>>
stopVars == <<token, cb, xpc>>
vars == <<stateVars, stopSrc, refs, assoc, envVars, innerVars, cpc, stopVars, active, signals, dl>>

Init ==
  /\ phase = "running" /\ result = "none" /\ taken = FALSE /\ consumerCb = FALSE
  /\ stopSrc = FALSE /\ refs = {} /\ assoc = "none"
  /\ envToken = FALSE /\ envCb = "none"
  /\ inner = "none" /\ by = "own" /\ alt = "none"
  /\ cpc = "idle" /\ token = FALSE /\ cb = "none" /\ xpc = "none"
  /\ active = TRUE /\ signals = <<>> /\ dl = [t \in Threads |-> "end"]

-----------------------------------------------------------------------------
(* __spawn_future: without an association the state is complete at once;   *)
(* otherwise __start keeps the state alive, registers on the environment's *)
(* token, and starts the inner operation or completes with an error.       *)
SpawnRefused ==
  /\ cpc = "idle" /\ cpc' = "future" /\ refs' = {"future"}
  /\ phase' = "done" /\ result' = "stopped" /\ inner' = "done"
  /\ UNCHANGED <<taken, consumerCb, stopSrc, assoc, envVars, by, alt, stopVars, active, signals, dl>>

Spawn ==
  /\ cpc = "idle" /\ assoc' = "held" /\ refs' = {"future", "keepalive"}
  /\ envCb' = (IF envToken THEN "none" ELSE "registered") /\ stopSrc' = envToken
  /\ \/ cpc' = "future" /\ inner' = "running" /\ UNCHANGED alt
     \/ cpc' = "spawn" /\ inner' = "envreset" /\ alt' = "error"
  /\ UNCHANGED <<stateVars, envToken, by, stopVars, active, signals, dl>>

SpawnReturns ==
  /\ cpc = "spawn" /\ inner = "done" /\ cpc' = "future"
  /\ UNCHANGED <<stateVars, stopSrc, refs, assoc, envVars, innerVars, stopVars, active, signals, dl>>

EnvRequestStop ==
  /\ ~envToken /\ envToken' = TRUE
  /\ UNCHANGED <<stateVars, stopSrc, refs, assoc, envCb, innerVars, cpc, stopVars, active, signals, dl>>

EnvCallback ==
  /\ envToken /\ envCb = "registered" /\ envCb' = "running" /\ stopSrc' = TRUE
  /\ UNCHANGED <<stateVars, refs, assoc, envToken, innerVars, cpc, stopVars, active, signals, dl>>

EnvCallbackReturn ==
  /\ envCb = "running" /\ (by = "env" => inner = "done") /\ envCb' = "ran"
  /\ UNCHANGED <<stateVars, stopSrc, refs, assoc, envToken, innerVars, cpc, stopVars, active, signals, dl>>

-----------------------------------------------------------------------------
(* Owners leave; the last one runs state_deleter, which destroys the inner *)
(* operation first and lets go of the association last.                    *)
Leave(r) ==
  /\ refs' = refs \ r
  /\ assoc' = IF refs \ r = {} /\ assoc = "held" THEN "released" ELSE assoc

(* __consumer::__deliver by thread t: claim the consumer, reset the stop   *)
(* callback (which waits while it runs on another thread), complete the    *)
(* receiver.  An inner operation that completes inside the stop callback's *)
(* request_stop is on the callback's thread.                               *)
Claims == active

ResetWaits(t) == cb = "running" /\ t # "cancel" /\ ~(t = "inner" /\ by = "cancel")

Claim(t) ==
  /\ dl[t] = "claim" /\ active' = FALSE
  /\ dl' = [dl EXCEPT ![t] = IF Claims THEN "reset" ELSE "end"]
  /\ UNCHANGED <<stateVars, stopSrc, refs, assoc, envVars, innerVars, cpc, stopVars, signals>>

ResetCallback(t) ==
  /\ dl[t] = "reset" /\ ~ResetWaits(t) /\ dl' = [dl EXCEPT ![t] = "signal"]
  /\ cb' = IF cb = "registered" THEN "none" ELSE cb
  /\ UNCHANGED <<stateVars, stopSrc, refs, assoc, envVars, innerVars, cpc, token, xpc, active, signals>>

DeliverTo(t) ==
  /\ dl[t] = "signal" /\ dl' = [dl EXCEPT ![t] = "end"]
  /\ signals' = Append(signals, IF cpc = "failed" THEN "error" ELSE result)
  /\ Leave({"consumer"})
  /\ UNCHANGED <<stateVars, stopSrc, envVars, innerVars, cpc, stopVars, active>>

Deliver(t) == Claim(t) \/ ResetCallback(t) \/ DeliverTo(t)

(* Under the mutex: the first completion stores its result and takes the   *)
(* registered consumer.                                                    *)
NotDone == phase # "done"

Settle(alternative, t) ==
  /\ phase' = "done"
  /\ result' = IF NotDone THEN alternative ELSE result
  /\ consumerCb' = (consumerCb /\ ~NotDone)
  /\ dl' = [dl EXCEPT ![t] = IF NotDone /\ consumerCb THEN "claim" ELSE "end"]

-----------------------------------------------------------------------------
(* The inner operation completes: on a thread of its own, or inside one of *)
(* the two stop callbacks.  __complete_with follows.                       *)
InnerCompletes(a, t) ==
  /\ inner = "running" /\ inner' = "envreset" /\ alt' = a /\ by' = t
  /\ a = "stopped" => stopSrc
  /\ t = "env" => envCb = "running"
  /\ t = "cancel" => xpc = "stop"
  /\ refs' = refs \cup {"inner"}
  /\ UNCHANGED <<stateVars, stopSrc, assoc, envVars, cpc, stopVars, active, signals, dl>>

EnvReset ==
  /\ inner = "envreset" /\ (envCb = "running" => by = "env") /\ inner' = "lock"
  /\ envCb' = IF envCb = "registered" THEN "none" ELSE envCb
  /\ UNCHANGED <<stateVars, stopSrc, refs, assoc, envToken, by, alt, cpc, stopVars, active, signals, dl>>

CompleteWith ==
  /\ inner = "lock" /\ inner' = "deliver" /\ Settle(alt, "inner")
  /\ UNCHANGED <<taken, stopSrc, refs, assoc, envVars, by, alt, cpc, stopVars, active, signals>>

KeepsItself == {"inner"}
DropsKeepalive == {"keepalive", "inner"}

InnerReturns ==
  /\ inner = "deliver" /\ dl["inner"] = "end" /\ inner' = "done" /\ Leave(DropsKeepalive)
  /\ UNCHANGED <<stateVars, stopSrc, envVars, by, alt, cpc, stopVars, active, signals, dl>>

-----------------------------------------------------------------------------
(* The receiver's token is stopped; its callback runs __try_cancel when it *)
(* still finds the state.                                                  *)
RequestStop ==
  /\ ~token /\ token' = TRUE
  /\ UNCHANGED <<stateVars, stopSrc, refs, assoc, envVars, innerVars, cpc, cb, xpc, active, signals, dl>>

StopCallback ==
  /\ token /\ cb = "registered" /\ cb' = "running" /\ xpc' = "stop"
  /\ refs' = refs \cup {"cancel"} /\ stopSrc' = TRUE
  /\ UNCHANGED <<stateVars, assoc, envVars, innerVars, cpc, token, active, signals, dl>>

TryCancel ==
  /\ xpc = "stop" /\ (by = "cancel" => inner = "done") /\ xpc' = "deliver"
  /\ Settle("stopped", "cancel")
  /\ UNCHANGED <<taken, stopSrc, refs, assoc, envVars, innerVars, cpc, token, cb, active, signals>>

CancelOwns == {"cancel"}

StopCallbackReturn ==
  /\ xpc = "deliver" /\ dl["cancel"] = "end" /\ xpc' = "done" /\ cb' = "ran"
  /\ Leave(CancelOwns)
  /\ UNCHANGED <<stateVars, stopSrc, envVars, innerVars, cpc, token, active, signals, dl>>

-----------------------------------------------------------------------------
(* The owner destroys the future, an operation that was never started, or  *)
(* fails to connect: __abandon_unconsumed.                                 *)
ShouldCancel == ~taken /\ phase # "done"

Abandon ==
  /\ cpc = "future" /\ taken' = TRUE /\ cpc' = IF ShouldCancel THEN "stop" ELSE "gone"
  /\ IF ShouldCancel THEN UNCHANGED <<refs, assoc>> ELSE Leave({"future"})
  /\ UNCHANGED <<phase, result, consumerCb, stopSrc, envVars, innerVars, stopVars, active, signals, dl>>

AbandonStops ==
  /\ cpc = "stop" /\ cpc' = "gone" /\ stopSrc' = TRUE /\ Leave({"future", "consumer"})
  /\ UNCHANGED <<stateVars, envVars, innerVars, stopVars, active, signals, dl>>

(* start(): the token is tested, then the callback registered (it runs at  *)
(* once on a stopped token), then the consumer; registration may throw.    *)
Start ==
  /\ cpc = "future" /\ refs' = refs \cup {"consumer"}
  /\ cpc' = (IF token THEN "cancel" ELSE "install") /\ stopSrc' = (stopSrc \/ token)
  /\ UNCHANGED <<stateVars, assoc, envVars, innerVars, stopVars, active, signals, dl>>

StartCancel ==
  /\ cpc = "cancel" /\ cpc' = "install" /\ Settle("stopped", "start")
  /\ UNCHANGED <<taken, stopSrc, refs, assoc, envVars, innerVars, stopVars, active, signals>>

Install ==
  /\ cpc = "install"
  /\ \/ ~token /\ cb' = "registered" /\ cpc' = "consume" /\ UNCHANGED stopSrc
     \/ token /\ phase = "running" /\ cpc' = "cancel" /\ stopSrc' = TRUE /\ UNCHANGED cb
     \/ token /\ phase = "done" /\ cpc' = "consume" /\ UNCHANGED <<cb, stopSrc>>
  /\ UNCHANGED <<stateVars, refs, assoc, envVars, innerVars, token, xpc, active, signals, dl>>

InstallFails ==
  /\ cpc = "install" /\ cpc' = "failed" /\ dl' = [dl EXCEPT !["start"] = "claim"]
  /\ UNCHANGED <<stateVars, stopSrc, refs, assoc, envVars, innerVars, stopVars, active, signals>>

InstallFailed ==
  /\ cpc = "failed" /\ dl["start"] = "end" /\ taken' = TRUE
  /\ cpc' = IF ShouldCancel THEN "stop" ELSE "gone"
  /\ IF ShouldCancel THEN UNCHANGED <<refs, assoc>> ELSE Leave({"future"})
  /\ UNCHANGED <<phase, result, consumerCb, stopSrc, envVars, innerVars, stopVars, active, signals, dl>>

DeliverNow == phase = "done"

Consume ==
  /\ cpc = "consume" /\ taken' = TRUE /\ cpc' = "started"
  /\ consumerCb' = ~DeliverNow
  /\ dl' = [dl EXCEPT !["start"] = IF DeliverNow THEN "claim" ELSE "end"]
  /\ UNCHANGED <<phase, result, stopSrc, refs, assoc, envVars, innerVars, stopVars, active, signals>>

StartReturns ==
  /\ cpc = "started" /\ dl["start"] = "end" /\ "future" \in refs /\ Leave({"future"})
  /\ UNCHANGED <<stateVars, stopSrc, envVars, innerVars, cpc, stopVars, active, signals, dl>>

(* ~__op of a started operation: __abandon, which claims the consumer,     *)
(* detaches it, resets its stop callback and asks the work to stop.        *)
Destroy ==
  /\ cpc = "started" /\ "future" \notin refs
  /\ active' = FALSE /\ cpc' = IF Claims THEN "detach" ELSE "gone"
  /\ UNCHANGED <<stateVars, stopSrc, refs, assoc, envVars, innerVars, stopVars, signals, dl>>

DestroyDetach ==
  /\ cpc = "detach" /\ cpc' = "reset" /\ consumerCb' = FALSE
  /\ UNCHANGED <<phase, result, taken, stopSrc, refs, assoc, envVars, innerVars, stopVars, active, signals, dl>>

DestroyReset ==
  /\ cpc = "reset" /\ ~ResetWaits("start") /\ cpc' = "stop"
  /\ cb' = IF cb = "registered" THEN "none" ELSE cb
  /\ UNCHANGED <<stateVars, stopSrc, refs, assoc, envVars, innerVars, token, xpc, active, signals, dl>>

-----------------------------------------------------------------------------
Inner ==
  \/ \E a \in {"value", "error", "stopped"}, t \in {"own", "env", "cancel"} : InnerCompletes(a, t)
  \/ EnvReset \/ CompleteWith \/ InnerReturns
Cancel == StopCallback \/ TryCancel \/ StopCallbackReturn
Client ==
  \/ Abandon \/ AbandonStops \/ Start \/ StartCancel \/ Install \/ InstallFails \/ InstallFailed
  \/ Consume \/ StartReturns \/ Destroy \/ DestroyDetach \/ DestroyReset
Next ==
  \/ SpawnRefused \/ Spawn \/ SpawnReturns \/ EnvRequestStop \/ EnvCallback \/ EnvCallbackReturn
  \/ RequestStop \/ Inner \/ Cancel \/ Client \/ \E t \in Threads : Deliver(t)

Spec == Init /\ [][Next]_vars

(* The work ends once asked to stop; every thread inside the library goes  *)
(* on; the owner of a future starts it or gives it up.  Nothing obliges the *)
(* owner to destroy the started operation, or the work to end unasked.     *)
Fairness ==
  /\ WF_vars(stopSrc /\ InnerCompletes("stopped", "own"))
  /\ WF_vars(SpawnReturns \/ EnvReset \/ CompleteWith \/ InnerReturns)
  /\ WF_vars(EnvCallback) /\ WF_vars(EnvCallbackReturn) /\ WF_vars(Cancel)
  /\ WF_vars(Abandon \/ Start \/ StartCancel \/ Install \/ InstallFailed \/ Consume)
  /\ WF_vars(StartReturns) /\ WF_vars(AbandonStops) /\ WF_vars(DestroyDetach \/ DestroyReset)
  /\ \A t \in Threads : WF_vars(Deliver(t))

-----------------------------------------------------------------------------
Freed == cpc # "idle" /\ refs = {}

(* The state is freed, and the association let go, only after the inner    *)
(* operation has finished and when no thread is inside any function of the *)
(* state or of the consumer; and the association is held until then.       *)
FreedLast ==
  /\ Freed => /\ inner = "done" /\ assoc # "held" /\ cb # "running"
              /\ \A t \in Threads : dl[t] = "end"
              /\ cpc \in {"started", "gone"}
  /\ assoc = "released" => Freed

(* The receiver gets at most one completion, none once the owner has       *)
(* claimed the consumer to abandon it, and none while another thread is    *)
(* inside its stop callback.                                               *)
DeliversOnce ==
  [][signals' # signals =>
       /\ signals = <<>> /\ cpc \notin {"detach", "reset", "stop"}
       /\ cb # "registered"
       /\ cb = "running" => dl["cancel"] = "signal" \/ by = "cancel"]_vars

(* A started future whose receiver asks to stop is answered, even if the   *)
(* work goes on; and work that was asked to stop is destroyed and its      *)
(* association released: the cycle of state and consumer is broken.        *)
StoppedWorkIsFreed ==
  []<>(/\ token /\ cpc = "started" => signals # <<>>
       /\ stopSrc => assoc # "held")
=============================================================================
