---------------------------- MODULE MCAdaptors ----------------------------
(***************************************************************************)
(* A program that uses one of the sender algorithms which keep state       *)
(* between threads, or a unique_resource; the others are never touched.    *)
(*                                                                         *)
(* Three children of when_all, so that an error, a stop and a value can be *)
(* under way at once; three subscribers of split, one that starts it, one  *)
(* that joins and one that comes late; three pieces of work in sync_wait;  *)
(* three boxes to move erased senders and receivers between; two objects   *)
(* and three resources to move between them.                               *)
(***************************************************************************)
EXTENDS Naturals, Sequences, FiniteSets

CONSTANTS N, Subs, Tasks, Caller, None, Boxes, MaxMade

VARIABLES which,
  started, w_pc, how, w_by, partial, disp, w_result, pending, w_src, outer, w_cb, signal,
  l_phase, l_result, onDone, source, batch, sender, l_pc, l_active, got,
  phase, result, taken, consumerCb, stopSrc, refs, assoc, envToken, envCb, inner, by, alt,
  cpc, token, cb, xpc, active, signals, dl,
  f_token, f_cb, fused, f_pc, f_by, f_signals,
  queue, count, finishing, fin, rpc, cur, task, stop, pushed, popped, api, work, s_by, sent, s_result, call,
  kind, full, sleeper, possible, handle, e_outer, e_refs, owners, e_inner, engaged, starter, asked,
  outcome, box, mem, want, made,
  nothrow, held, freed, owner

WA == INSTANCE WhenAll WITH
  pc <- w_pc, by <- w_by, result <- w_result, stopSrc <- w_src, cb <- w_cb
SP == INSTANCE Split WITH phase <- l_phase, result <- l_result, pc <- l_pc, active <- l_active
SF == INSTANCE SpawnFuture
FS == INSTANCE FusedStop WITH
  token <- f_token, cb <- f_cb, pc <- f_pc, by <- f_by, signals <- f_signals
SW == INSTANCE SyncWait WITH Runners <- {Caller}, by <- s_by, result <- s_result
ER == INSTANCE Erased WITH outer <- e_outer, refs <- e_refs, inner <- e_inner
UQ == INSTANCE UniqueResource WITH
  Holders <- 1..2, Handles <- {"h1", "h2", "h3"}, Deleters <- {"close", "unlink"}

allV    == <<started, w_pc, how, w_by, partial, disp, w_result, pending, w_src, outer, w_cb, signal>>
splitV  == <<l_phase, l_result, onDone, source, batch, sender, l_pc, l_active, got>>
futureV == <<phase, result, taken, consumerCb, stopSrc, refs, assoc, envToken, envCb, inner, by,
             alt, cpc, token, cb, xpc, active, signals, dl>>
fusedV  == <<f_token, f_cb, fused, f_pc, f_by, f_signals>>
waitV   == <<queue, count, finishing, fin, rpc, cur, task, stop, pushed, popped,
             api, work, s_by, sent, s_result, call>>
erasedV == <<kind, full, sleeper, possible, handle, e_outer, e_refs, owners, e_inner, engaged,
             starter, asked, outcome, box, mem, want, made>>
uniqueV == <<nothrow, held, freed, owner>>
vars    == <<which, allV, splitV, futureV, fusedV, waitV, erasedV, uniqueV>>

Init ==
  /\ which \in {"when_all", "split", "spawn_future", "fused_stop", "sync_wait", "erased", "unique"}
  /\ WA!Init /\ SP!Init /\ SF!Init /\ FS!Init /\ SW!WaitInit /\ ER!Init /\ UQ!Init
  /\ which # "sync_wait" => api = "sync_wait"
  /\ which # "erased" => kind = "sender" /\ full /\ ~sleeper /\ ~possible
  /\ which # "unique" => nothrow = {}

Next ==
  \/ which = "when_all" /\ WA!Next /\ UNCHANGED <<which, splitV, futureV, fusedV, waitV, erasedV, uniqueV>>
  \/ which = "split" /\ SP!Next /\ UNCHANGED <<which, allV, futureV, fusedV, waitV, erasedV, uniqueV>>
  \/ which = "spawn_future" /\ SF!Next /\ UNCHANGED <<which, allV, splitV, fusedV, waitV, erasedV, uniqueV>>
  \/ which = "fused_stop" /\ FS!Next /\ UNCHANGED <<which, allV, splitV, futureV, waitV, erasedV, uniqueV>>
  \/ which = "sync_wait" /\ SW!WaitNext /\ UNCHANGED <<which, allV, splitV, futureV, fusedV, erasedV, uniqueV>>
  \/ which = "erased" /\ ER!Next /\ UNCHANGED <<which, allV, splitV, futureV, fusedV, waitV, uniqueV>>
  \/ which = "unique" /\ UQ!Next /\ UNCHANGED <<which, allV, splitV, futureV, fusedV, waitV, erasedV>>

Spec ==
  /\ Init /\ [][Next]_vars
  /\ WA!Fairness /\ SP!Fairness /\ SF!Fairness /\ FS!Fairness /\ SW!WaitFairness
  /\ ER!Fairness

-----------------------------------------------------------------------------
(* when_all completes once nothing of the operation is in use, with an     *)
(* error before a stop before values, and values only if every child       *)
(* stored one; a failed or stopped child, or an outer stop, ends it.       *)
WhenAllRight == [](WA!OutcomeIsRight /\ WA!QuietAtDelivery) /\ WA!StopSpreads

(* split: no subscriber is forgotten or told anything but the one result,  *)
(* and every subscriber hears it.                                          *)
SplitReachesAll == []SP!NobodyForgotten /\ SP!EveryoneHears

(* spawn_future completes its receiver at most once, answers a stop, frees *)
(* stopped work, and frees its state and lets its association go last.     *)
FutureSettles == []SF!FreedLast /\ SF!DeliversOnce /\ SF!StoppedWorkIsFreed

(* counting_scope's wrapped sender: a stop on either token ends it, and no *)
(* callback is left when it has ended.                                     *)
FusedStopEnds == []FS!NoCallbackLeft /\ FS!EitherStopEnds

(* sync_wait and wait_result return, with a result, and leave their loop   *)
(* quiet.                                                                  *)
SyncWaitReturns == []SW!LoopIsQuiet /\ SW!WaitReturns

(* An erased operation outlives the start() that runs inside it, whoever   *)
(* destroys it meanwhile, and ends once asked to stop; a box of any_sender *)
(* or any_receiver holds what was last put into it and nothing leaks.      *)
ErasedOutlives == [](ER!OperationOutlivesStart /\ ER!BoxesHoldTheirs) /\ ER!Ends

(* unique_resource: whatever throws, a resource is deleted exactly once,   *)
(* by its own deleter, or not at all after release().                      *)
DeletedOnce == UQ!DeletedOnce
=============================================================================
