----------------------------- MODULE FusedStop -----------------------------
(***************************************************************************)
(* The operation counting_scope::scope_token::wrap makes of a sender       *)
(* (__stop_op, backport/cpp26/execution/counting_scope.hpp): the inner     *)
(* operation sees one stop source that both the scope's stop source and    *)
(* the downstream receiver's token feed through a callback each.           *)
(*                                                                         *)
(* The inner operation completes on a thread of its own or inside the      *)
(* callback that requested stop first; a callback's destructor waits for a *)
(* callback that is running on another thread.                             *)
(***************************************************************************)
EXTENDS Naturals

Upstreams == {"scope", "downstream"}

VARIABLES token,   \* upstream tokens on which stop was requested
          cb,      \* the callback on each: "none", "registered", "running", "ran"
          fused,   \* __fused_state->__source: nobody, or the upstream that won
          pc,      \* __stop_op: position in start() and in the completion
          by,      \* the thread that completes: "own" or an upstream's
          signals  \* completions the downstream receiver got

vars == <<token, cb, fused, pc, by, signals>>

Init == /\ token = {} /\ cb = [u \in Upstreams |-> "none"] /\ fused = "nobody"
        /\ pc = "idle" /\ by = "own" /\ signals = 0

RequestStop(u) ==
  /\ u \notin token /\ token' = token \cup {u}
  /\ UNCHANGED <<cb, fused, pc, by, signals>>

(* The first request to the fused source wins. *)
Forward(u) == fused' = IF fused = "nobody" THEN u ELSE fused

(* install: a stopped token is forwarded at once, without a callback.      *)
Position(u) == IF u = "scope" THEN "idle" ELSE "second"

Install(u) ==
  /\ pc = Position(u) /\ pc' = IF u = "scope" THEN "second" ELSE "begin"
  /\ IF u \in token THEN Forward(u) /\ UNCHANGED cb
                    ELSE cb' = [cb EXCEPT ![u] = "registered"] /\ UNCHANGED fused
  /\ UNCHANGED <<token, by, signals>>

(* A registration that throws ends the operation with set_stopped. *)
InstallFails(u) ==
  /\ pc = Position(u) /\ pc' = "reset"
  /\ UNCHANGED <<token, cb, fused, by, signals>>

StartInner == /\ pc = "begin" /\ pc' = "running"
              /\ UNCHANGED <<token, cb, fused, by, signals>>

Callback(u) ==
  /\ u \in token /\ cb[u] = "registered"
  /\ cb' = [cb EXCEPT ![u] = "running"] /\ Forward(u)
  /\ UNCHANGED <<token, pc, by, signals>>

CallbackReturn(u) ==
  /\ cb[u] = "running" /\ (by = u => pc = "done")
  /\ cb' = [cb EXCEPT ![u] = "ran"]
  /\ UNCHANGED <<token, fused, pc, by, signals>>

(* __recv: the inner operation completes. *)
InnerCompletes(t) ==
  /\ pc = "running" /\ pc' = "reset" /\ by' = t
  /\ t # "own" => fused = t /\ cb[t] = "running"
  /\ UNCHANGED <<token, cb, fused, signals>>

(* __release_stop_callbacks, then the downstream receiver is completed.    *)
WaitsAlways(u) == cb[u] = "running"
MustWait(u) == cb[u] = "running" /\ by # u

Reset(u) == ~MustWait(u) /\ cb' = [cb EXCEPT ![u] = IF @ = "registered" THEN "none" ELSE @]

ResetScope ==
  /\ pc = "reset" /\ pc' = "reset2" /\ Reset("scope")
  /\ UNCHANGED <<token, fused, by, signals>>

ResetDownstream ==
  /\ pc = "reset2" /\ pc' = "complete" /\ Reset("downstream")
  /\ UNCHANGED <<token, fused, by, signals>>

Complete == /\ pc = "complete" /\ pc' = "done" /\ signals' = signals + 1
            /\ UNCHANGED <<token, cb, fused, by>>

Op == StartInner \/ ResetScope \/ ResetDownstream \/ Complete

Next == \/ Op
        \/ \E u \in Upstreams : \/ RequestStop(u) \/ Install(u) \/ InstallFails(u)
                                \/ Callback(u) \/ CallbackReturn(u)
        \/ \E t \in Upstreams \cup {"own"} : InnerCompletes(t)

Spec == Init /\ [][Next]_vars

(* The inner operation ends when it is asked to stop; callbacks that were  *)
(* entered, and a start() that was called, go on.                          *)
Fairness ==
  /\ WF_vars(Op) /\ WF_vars(fused # "nobody" /\ InnerCompletes("own"))
  /\ WF_vars(Install("downstream"))
  /\ \A u \in Upstreams : WF_vars(Callback(u)) /\ WF_vars(CallbackReturn(u))

-----------------------------------------------------------------------------
(* When the receiver has been completed, and may destroy the operation, no *)
(* callback can still enter it: none is registered, and one that runs is   *)
(* the caller of the completion itself.                                    *)
NoCallbackLeft ==
  /\ signals <= 1
  /\ pc \in {"complete", "done"} =>
       \A u \in Upstreams : cb[u] # "registered" /\ (cb[u] = "running" => by = u)

(* A stop request on either side ends the operation, whenever it arrives   *)
(* relative to the two registrations, and completing never deadlocks.      *)
EitherStopEnds == []<>(token # {} => pc \in {"idle", "done"})
=============================================================================
