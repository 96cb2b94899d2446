------------------------------ MODULE WhenAll ------------------------------
(***************************************************************************)
(* std::execution::when_all                                                *)
(* (backport/cpp26/execution/when_all.hpp).                                *)
(*                                                                         *)
(* Every child completes on a thread of its own, or inside the outer stop  *)
(* callback.  A step is one atomic access or one critical section of       *)
(* child_fail, child_stop, child_done and deliver.                         *)
(***************************************************************************)
EXTENDS Naturals, FiniteSets

CONSTANTS N   \* number of child senders

Children == 1..N

VARIABLES started,      \* children start() has started; N + 1 before start()
          pc, how, by,  \* children: position, completion signal, thread
          partial, disp, result, pending,   \* __op
          stopSrc,      \* __stop_src: stop was requested
          outer, cb,    \* outer stop token and the callback registered on it
          signal        \* what the outer receiver got

childVars == <<pc, how, by>>
vars == <<started, childVars, partial, disp, result, pending, stopSrc, outer, cb, signal>>

Init ==
  /\ started = N + 1
  /\ pc = [c \in Children |-> "idle"] /\ how = [c \in Children |-> "none"]
  /\ by = [c \in Children |-> "own"]
  /\ partial = {} /\ disp = "started" /\ result = "none" /\ pending = N
  /\ stopSrc = FALSE /\ outer = FALSE /\ cb = "none" /\ signal = "none"

-----------------------------------------------------------------------------
(* start: register_outer_stop_callback, which runs the callback at once    *)
(* when the outer token is already stopped and asks for stop itself when   *)
(* the registration throws; then the children one by one.                  *)
Register ==
  /\ started = N + 1 /\ started' = 0
  /\ \/ /\ cb' = IF outer THEN "ran" ELSE "registered"
        /\ stopSrc' = outer
     \/ cb' = "none" /\ stopSrc' = TRUE
  /\ UNCHANGED <<childVars, partial, disp, result, pending, outer, signal>>

StartChild ==
  /\ started < N /\ started' = started + 1
  /\ pc' = [pc EXCEPT ![started + 1] = "running"]
  /\ UNCHANGED <<how, by, partial, disp, result, pending, stopSrc, outer, cb, signal>>

OuterRequestStop ==
  /\ ~outer /\ outer' = TRUE
  /\ UNCHANGED <<started, childVars, partial, disp, result, pending, stopSrc, cb, signal>>

(* __outer_stop_callback forwards the request and returns when the child   *)
(* completions it has caused on this thread have returned.                 *)

OuterCallback ==
  /\ outer /\ cb = "registered" /\ cb' = "running" /\ stopSrc' = TRUE
  /\ UNCHANGED <<started, childVars, partial, disp, result, pending, outer, signal>>

OuterCallbackReturn ==
  /\ cb = "running" /\ cb' = "ran"
  /\ \A c \in Children : by[c] = "outer" => pc[c] = "finished"
  /\ UNCHANGED <<started, childVars, partial, disp, result, pending, stopSrc, outer, signal>>

-----------------------------------------------------------------------------
(* A child completes.  A value that cannot be stored becomes an error.     *)
Complete(c, h, t) ==
  /\ pc[c] = "running" /\ (t = "outer" => cb = "running")
  /\ how' = [how EXCEPT ![c] = h] /\ by' = [by EXCEPT ![c] = t]
  /\ pc' = [pc EXCEPT ![c] = IF h = "value" THEN "done" ELSE "claim"]
  /\ partial' = IF h = "value" THEN partial \cup {c} ELSE partial
  /\ UNCHANGED <<started, disp, result, pending, stopSrc, outer, cb, signal>>

(* child_fail: exchange, request_stop, store the error. *)
FailWins == disp # "error"

FailClaim(c) ==
  /\ pc[c] = "claim" /\ how[c] = "error"
  /\ disp' = IF FailWins THEN "error" ELSE disp
  /\ pc' = [pc EXCEPT ![c] = IF FailWins THEN "failstop" ELSE "done"]
  /\ UNCHANGED <<started, how, by, partial, result, pending, stopSrc, outer, cb, signal>>

KeepsRunning == stopSrc
StopsOthers == TRUE

FailRequestStop(c) ==
  /\ pc[c] = "failstop" /\ pc' = [pc EXCEPT ![c] = "store"]
  /\ stopSrc' = StopsOthers
  /\ UNCHANGED <<started, how, by, partial, disp, result, pending, outer, cb, signal>>

FailStore(c) ==
  /\ pc[c] = "store" /\ how[c] = "error" /\ result' = "error"
  /\ pc' = [pc EXCEPT ![c] = "done"]
  /\ UNCHANGED <<started, how, by, partial, disp, pending, stopSrc, outer, cb, signal>>

(* child_stop: compare_exchange, store unless something is stored,         *)
(* request_stop.                                                           *)
StopClaim(c) ==
  /\ pc[c] = "claim" /\ how[c] = "stopped"
  /\ disp' = IF disp = "started" THEN "stopped" ELSE disp
  /\ pc' = [pc EXCEPT ![c] = IF disp = "started" THEN "store" ELSE "stopstop"]
  /\ UNCHANGED <<started, how, by, partial, result, pending, stopSrc, outer, cb, signal>>

NothingStored == result = "none"

StopStore(c) ==
  /\ pc[c] = "store" /\ how[c] = "stopped"
  /\ result' = IF NothingStored THEN "stopped" ELSE result
  /\ pc' = [pc EXCEPT ![c] = "stopstop"]
  /\ UNCHANGED <<started, how, by, partial, disp, pending, stopSrc, outer, cb, signal>>

StopRequestStop(c) ==
  /\ pc[c] = "stopstop" /\ pc' = [pc EXCEPT ![c] = "done"] /\ stopSrc' = TRUE
  /\ UNCHANGED <<started, how, by, partial, disp, result, pending, outer, cb, signal>>

(* child_done: the last one delivers. *)
LastOut(p) == p = 1

ChildDone(c) ==
  /\ pc[c] = "done" /\ pending' = pending - 1
  /\ pc' = [pc EXCEPT ![c] = IF LastOut(pending) THEN "destroycb" ELSE "finished"]
  /\ UNCHANGED <<started, how, by, partial, disp, result, stopSrc, outer, cb, signal>>

(* deliver: destroying the callback waits while it runs on another thread, *)
(* then the outer receiver is completed by what was stored.                *)
MustWait(c) == cb = "running" /\ by[c] # "outer"

DestroyCallback(c) ==
  /\ pc[c] = "destroycb" /\ ~MustWait(c)
  /\ pc' = [pc EXCEPT ![c] = "deliver"]
  /\ cb' = IF cb = "registered" THEN "none" ELSE cb
  /\ UNCHANGED <<started, how, by, partial, disp, result, pending, stopSrc, outer, signal>>

Deliver(c) ==
  /\ pc[c] = "deliver" /\ pc' = [pc EXCEPT ![c] = "finished"]
  /\ signal' = IF result = "none" THEN "value" ELSE result
  /\ UNCHANGED <<started, how, by, partial, disp, result, pending, stopSrc, outer, cb>>

ChildStep(c) == \/ FailClaim(c) \/ FailRequestStop(c) \/ FailStore(c)
                \/ StopClaim(c) \/ StopStore(c) \/ StopRequestStop(c)
                \/ ChildDone(c) \/ DestroyCallback(c) \/ Deliver(c)

Completes(c) == \E h \in {"value", "error", "stopped"}, t \in {"own", "outer"} : Complete(c, h, t)

Next == \/ Register \/ StartChild \/ OuterRequestStop \/ OuterCallback \/ OuterCallbackReturn
        \/ \E c \in Children : Completes(c) \/ ChildStep(c)

Spec == Init /\ [][Next]_vars

(* A child need not end by itself, but it does when it is asked to stop.   *)
Fairness ==
  /\ WF_vars(StartChild) /\ WF_vars(OuterCallback) /\ WF_vars(OuterCallbackReturn)
  /\ \A c \in Children : WF_vars(stopSrc /\ Completes(c)) /\ WF_vars(ChildStep(c))

-----------------------------------------------------------------------------
Failed == {c \in Children : how[c] = "error"}

(* An error wins over a stop whatever the order of exchange and store: the *)
(* outer receiver gets an error exactly when some child failed, a value    *)
(* only when every child stored one (try_deliver_values dereferences all   *)
(* the optionals), and a stop only from a child that stopped.              *)
OutcomeIsRight ==
  signal # "none" =>
    /\ (signal = "error") <=> (Failed # {})
    /\ signal = "value" => partial = Children
    /\ signal = "stopped" => \E c \in Children : how[c] = "stopped"

(* When the outer receiver is completed it may destroy the operation: all  *)
(* children are started and through child_done, and the outer callback is  *)
(* not running except as the caller of that very completion.               *)
QuietAtDelivery ==
  /\ \A c \in Children : pc[c] = "deliver" /\ cb = "running" => by[c] = "outer"
  /\ signal # "none" =>
    /\ started = N /\ pending = 0 /\ \A c \in Children : pc[c] = "finished"
    /\ cb # "registered"

(* A child that fails or is stopped, or an outer stop request, brings the  *)
(* whole operation to an end even if the other children would run forever. *)
StopSpreads ==
  []<>(\/ signal # "none"
       \/ \A c \in Children : how[c] \notin {"error", "stopped"} /\ (outer => started = N + 1))
=============================================================================
