---------------------------- MODULE CoroChain ----------------------------
(***************************************************************************)
(* A chain of forge::io::io_task frames run as a sender                    *)
(* (include/forge/io/coro.hpp, include/forge/io/detail/coro_lifetime.hpp). *)
(*                                                                         *)
(* A body awaits senders and, at most once, the task of the next frame.    *)
(* The thread that delivers a sender's completion resumes the frame that   *)
(* awaits it, while the one that started the sender may still be on its    *)
(* way out of start().  The operation may be destroyed at any time after   *)
(* start(), by another thread or by the receiver it completes; the slot in *)
(* the root frame, active_bridge, decides between that and a delivery.     *)
(* A step holds at most one atomic operation on the root's link; the       *)
(* atomics are taken to be sequentially consistent.                        *)
(***************************************************************************)
EXTENDS Naturals, Sequences

CONSTANTS Agents,  \* threads that start the operation or deliver completions
          Depth,   \* frames of the chain
          Bodies   \* for each frame, what it awaits: "sender" or "task"

VARIABLES link,   \* the root's frame_chain_link
          frame,  \* each frame: is it alive, its position in its body, its result
          op,     \* the operation of the sender the leaf awaits
          agent,  \* each thread: position, frame, bridge, resume_scope
          owner,  \* the thread that destroys the operation, and the receiver
          body    \* the bodies, chosen once

vars == <<link, frame, op, agent, owner, body>>

Frames == 1..Depth
NoBridge == [gen |-> 0, st |-> "inactive"]
NoOp == [st |-> "none", f |-> 0, gen |-> 0, out |-> "none"]
Idle == [pc |-> "idle", f |-> 0, gen |-> 0, pending |-> 0, inline |-> FALSE]

Init ==
  /\ link = [started |-> FALSE, finalized |-> FALSE, abandoning |-> FALSE, count |-> 0,
             deferred |-> FALSE, bridge |-> NoBridge, next |-> 0, terminated |-> FALSE]
  /\ frame = [f \in Frames |-> [alive |-> f = 1, at |-> 1, res |-> "none"]]
  /\ op = NoOp
  /\ agent = [a \in Agents |-> Idle]
  /\ owner = [pc |-> "idle", gate |-> 0, drop |-> "nobody", got |-> "none", calls |-> 0, starter |-> "none"]
  /\ body \in Bodies

Goes(a, pc) == agent' = [agent EXCEPT ![a].pc = pc]
At(f) == IF frame[f].at <= Len(body[f]) THEN body[f][frame[f].at] ELSE "return"

-----------------------------------------------------------------------------
(* The slot of the root's link: the generation of the bridge on which the  *)
(* chain waits, and its state.                                             *)
bridge_transition_allowed(st, desired) ==
  \/ desired = "suspended" /\ st = "starting"
  \/ desired \in {"completed", "abandoned"} /\ st \in {"starting", "suspended"}

Prior(l, gen) == IF gen # 0 /\ l.bridge.gen = gen THEN l.bridge.st ELSE "inactive"
transition_bridge(l, gen, desired) ==
  IF bridge_transition_allowed(Prior(l, gen), desired) THEN [l EXCEPT !.bridge.st = desired] ELSE l
clear_bridge(l, gen) == IF l.bridge.gen = gen THEN [l EXCEPT !.bridge = NoBridge] ELSE l

(* publish_bridge: the exchange, then a look at the abandoning flag.       *)
publish_bridge(a) ==
  /\ agent[a].pc = "run" /\ At(agent[a].f) = "sender"
  /\ link' = [link EXCEPT !.next = @ + 1, !.bridge = [gen |-> link.next + 1, st |-> "starting"],
                          !.terminated = @ \/ link.bridge # NoBridge]
  /\ agent' = [agent EXCEPT ![a].pc = "recheck", ![a].gen = link.next + 1]
  /\ UNCHANGED <<frame, op, owner, body>>

Keeps(l, gen) == l
KeepsClaim(l, gen) == IF l.abandoning THEN transition_bridge(l, gen, "abandoned") ELSE l
recheck(a) ==
  /\ agent[a].pc = "recheck" /\ link' = KeepsClaim(link, agent[a].gen) /\ Goes(a, "connect")
  /\ UNCHANGED <<frame, op, owner, body>>

-----------------------------------------------------------------------------
(* sender_awaitable.  A connect that throws clears the slot; the body      *)
(* handles the exception and goes on, or ends with it.                     *)
Throws(f, how) ==
  \/ frame' = [frame EXCEPT ![f].at = @ + 1]
  \/ frame' = [frame EXCEPT ![f].at = Len(body[f]) + 1, ![f].res = how]

connect(a) ==
  /\ agent[a].pc = "connect"
  /\ \/ /\ op' = [st |-> "connected", f |-> agent[a].f, gen |-> agent[a].gen, out |-> "none"]
        /\ Goes(a, "park") /\ UNCHANGED <<link, frame>>
     \/ /\ link' = clear_bridge(link, agent[a].gen) /\ Throws(agent[a].f, "error")
        /\ Goes(a, "run") /\ UNCHANGED op
  /\ UNCHANGED <<owner, body>>

(* The slot is parked before start() publishes the receiver.               *)
park(a) ==
  /\ agent[a].pc = "park" /\ link' = transition_bridge(link, agent[a].gen, "suspended")
  /\ Goes(a, "start") /\ UNCHANGED <<frame, op, owner, body>>

start_sender(a) ==
  /\ agent[a].pc = "start" /\ op' = [op EXCEPT !.st = "started"] /\ Goes(a, "starting")
  /\ UNCHANGED <<link, frame, owner, body>>

(* A completion inside start() is only noted there, by the starting scope. *)
Completions == {"value", "error", "stopped"}
CompletesInline(a) ==
  /\ agent[a].pc = "starting" /\ op.st = "started" /\ op.gen = agent[a].gen /\ ~agent[a].inline
  /\ \E out \in Completions : op' = [op EXCEPT !.st = "delivered", !.out = out]
  /\ link' = transition_bridge(link, op.gen, "completed")
  /\ agent' = [agent EXCEPT ![a].inline = (Prior(link, op.gen) = "suspended")]
  /\ UNCHANGED <<frame, owner, body>>

start_returns(a) ==
  /\ agent[a].pc = "starting"
  /\ agent' = [agent EXCEPT ![a].pc = IF agent[a].inline THEN "resumed" ELSE "unwind", ![a].inline = FALSE]
  /\ UNCHANGED <<link, frame, op, owner, body>>

(* A thread delivers; complete() resumes the frame unless it was abandoned. *)
Deliver(b) ==
  /\ agent[b].pc = "idle" /\ op.st = "started"
  /\ \E out \in Completions : op' = [op EXCEPT !.st = "delivering", !.out = out]
  /\ agent' = [agent EXCEPT ![b] = [Idle EXCEPT !.pc = "deliver", !.f = op.f, !.gen = op.gen]]
  /\ UNCHANGED <<link, frame, owner, body>>

complete(b) ==
  /\ agent[b].pc = "deliver" /\ link' = transition_bridge(link, agent[b].gen, "completed")
  /\ IF Prior(link, agent[b].gen) = "suspended"
     THEN Goes(b, "enter") /\ UNCHANGED op
     ELSE agent' = [agent EXCEPT ![b] = Idle] /\ op' = [op EXCEPT !.st = "delivered"]
  /\ UNCHANGED <<frame, owner, body>>

(* await_resume, and the destruction of the awaitable with its operation.  *)
await_resume(a) ==
  /\ agent[a].pc = "resumed" /\ link' = clear_bridge(link, agent[a].gen) /\ op' = NoOp
  /\ IF op.out = "value" THEN frame' = [frame EXCEPT ![agent[a].f].at = @ + 1]
     ELSE Throws(agent[a].f, op.out)
  /\ Goes(a, "run") /\ UNCHANGED <<owner, body>>

-----------------------------------------------------------------------------
(* resume_with_credit: transfers between frames of the chain are queued in *)
(* the scope and run one after the other.                                  *)
enter(a) ==
  /\ agent[a].pc = "enter" /\ link' = [link EXCEPT !.count = @ + 1]
  /\ Goes(a, IF agent[a].gen = 0 THEN "run" ELSE "resumed") /\ UNCHANGED <<frame, op, owner, body>>

(* task_awaitable: the child is linked below its parent and queued.        *)
await_task(a) ==
  /\ agent[a].pc = "run" /\ At(agent[a].f) = "task"
  /\ frame' = [frame EXCEPT ![agent[a].f + 1].alive = TRUE]
  /\ agent' = [agent EXCEPT ![a].pc = "unwind", ![a].pending = agent[a].f + 1]
  /\ UNCHANGED <<link, op, owner, body>>

(* return_value and the final_awaiter of a frame that is awaited.          *)
Returned(f) == [frame EXCEPT ![f].res = IF @ = "none" THEN "value" ELSE @]
return_to_parent(a) ==
  /\ agent[a].pc = "run" /\ At(agent[a].f) = "return" /\ agent[a].f > 1
  /\ frame' = Returned(agent[a].f)
  /\ agent' = [agent EXCEPT ![a].pc = "unwind", ![a].pending = agent[a].f - 1]
  /\ UNCHANGED <<link, op, owner, body>>

(* The parent takes the child's result and destroys its frame.             *)
TakesResult(f) ==
  LET freed == [frame EXCEPT ![f + 1].alive = FALSE] IN
  \/ frame' = [freed EXCEPT ![f].at = @ + 1]
  \/ /\ frame[f + 1].res # "value"
     /\ frame' = [freed EXCEPT ![f].at = Len(body[f]) + 1, ![f].res = frame[f + 1].res]

take_pending(a) ==
  /\ agent[a].pc = "unwind" /\ UNCHANGED <<link, op, owner, body>>
  /\ LET f == agent[a].pending IN
     \/ f = 0 /\ Goes(a, "leave") /\ UNCHANGED frame
     \/ /\ f # 0 /\ agent' = [agent EXCEPT ![a].pc = "run", ![a].f = f, ![a].pending = 0]
        /\ IF f > agent[a].f THEN UNCHANGED frame ELSE TakesResult(f)

(* ~resume_scope: the last one out destroys a chain left to it.            *)
NobodyDestroys(prior) == FALSE
LastDestroys(prior) == prior = 1 /\ link.deferred
leave(a) ==
  /\ agent[a].pc = "leave" /\ link' = [link EXCEPT !.count = @ - 1]
  /\ agent' = [agent EXCEPT ![a] = IF LastDestroys(link.count) THEN [Idle EXCEPT !.pc = "destroy"] ELSE Idle]
  /\ UNCHANGED <<frame, op, owner, body>>

-----------------------------------------------------------------------------
(* io_task_sender_op.  A stop callback that cannot be installed is an      *)
(* error, and nothing is started.                                          *)
Receives(how) == [owner EXCEPT !.got = how, !.calls = @ + 1]

start(a) ==
  /\ owner.starter = "none" /\ owner.drop = "nobody" /\ UNCHANGED <<frame, op, body>>
  /\ \/ /\ link' = [link EXCEPT !.started = TRUE] /\ owner' = [owner EXCEPT !.starter = a]
        /\ agent' = [agent EXCEPT ![a] = [Idle EXCEPT !.pc = "enter", !.f = 1]]
     \/ owner' = [Receives("error") EXCEPT !.starter = a] /\ UNCHANGED <<link, agent>>

(* The final_awaiter of the root publishes finalized and then calls the    *)
(* receiver, which may destroy the operation from inside that call.        *)
finalize(a) ==
  /\ agent[a].pc = "run" /\ At(agent[a].f) = "return" /\ agent[a].f = 1
  /\ frame' = Returned(1) /\ link' = [link EXCEPT !.finalized = TRUE] /\ Goes(a, "receiver")
  /\ UNCHANGED <<op, owner, body>>

Defers(l) == [l EXCEPT !.abandoning = TRUE, !.deferred = TRUE]
call_receiver(a) ==
  /\ agent[a].pc = "receiver" /\ Goes(a, "unwind") /\ UNCHANGED <<frame, op, body>>
  /\ \/ owner' = Receives(frame[1].res) /\ UNCHANGED link
     \/ /\ owner.drop = "nobody" /\ link' = Defers(link)
        /\ owner' = [Receives(frame[1].res) EXCEPT !.drop = "receiver"]

(* destroy_frame_chain by the last scope: the root alone is left.          *)
destroy_deferred(a) ==
  /\ agent[a].pc = "destroy" /\ frame' = [frame EXCEPT ![1].alive = FALSE]
  /\ agent' = [agent EXCEPT ![a] = Idle] /\ UNCHANGED <<link, op, owner, body>>

-----------------------------------------------------------------------------
(* abandon_task_chain by another thread, once start() has returned or the  *)
(* receiver has been called.                                               *)
OwnerGoes(pc) == owner' = [owner EXCEPT !.pc = pc]

MayDestroy == owner.starter # "none" => owner.calls > 0 \/ agent[owner.starter].pc = "idle"
abandon ==
  /\ owner.pc = "idle" /\ owner.drop = "nobody" /\ MayDestroy
  /\ owner' = [owner EXCEPT !.drop = "owner", !.pc = IF link.started THEN "finalized?" ELSE "destroy"]
  /\ link' = [link EXCEPT !.abandoning = link.started] /\ UNCHANGED <<frame, op, agent, body>>

is_finalized ==
  /\ owner.pc = "finalized?" /\ OwnerGoes(IF link.finalized THEN "drain" ELSE "gate")
  /\ UNCHANGED <<link, frame, op, agent, body>>

load_bridge ==
  /\ owner.pc = "gate" /\ UNCHANGED <<link, frame, op, agent, body>>
  /\ owner' = [owner EXCEPT !.pc = IF link.bridge = NoBridge THEN "count" ELSE "claim", !.gate = link.bridge.gen]

AfterClaim(prior) ==
  CASE prior = "inactive" -> "finalized?"
    [] prior = "completed" -> "lost"
    [] OTHER -> "drain"
claim ==
  /\ owner.pc = "claim" /\ link' = transition_bridge(link, owner.gate, "abandoned")
  /\ OwnerGoes(AfterClaim(Prior(link, owner.gate))) /\ UNCHANGED <<frame, op, agent, body>>

bridge_moves_on ==
  /\ owner.pc = "lost" /\ (link.bridge.gen # owner.gate \/ link.finalized) /\ OwnerGoes("finalized?")
  /\ UNCHANGED <<link, frame, op, agent, body>>

no_resume_running ==
  /\ owner.pc = "count" /\ OwnerGoes(IF link.count = 0 THEN "drain" ELSE "finalized?")
  /\ UNCHANGED <<link, frame, op, agent, body>>

drain ==
  /\ owner.pc = "drain" /\ link.count = 0 /\ OwnerGoes("destroy") /\ UNCHANGED <<link, frame, op, agent, body>>

(* destroy_frame_chain, leaf first.  A leaf that awaits a sender claims    *)
(* the slot and destroys the operation, which cancels it or waits for the  *)
(* delivery under way.                                                     *)
Leaf(f) == frame[f].alive /\ \A g \in Frames : frame[g].alive => g <= f
destroy_leaf ==
  /\ owner.pc = "destroy" /\ UNCHANGED <<agent, body>>
  /\ \/ \E f \in Frames :
          /\ Leaf(f)
          /\ IF op.f = f
             THEN link' = transition_bridge(link, op.gen, "abandoned") /\ OwnerGoes("close") /\ UNCHANGED frame
             ELSE frame' = [frame EXCEPT ![f].alive = FALSE] /\ UNCHANGED <<link, owner>>
     \/ (\A f \in Frames : ~frame[f].alive) /\ OwnerGoes("gone") /\ UNCHANGED <<link, frame>>
  /\ UNCHANGED op

destroy_op ==
  /\ owner.pc = "close" /\ op.st # "delivering" /\ op' = NoOp
  /\ frame' = [frame EXCEPT ![op.f].alive = FALSE] /\ OwnerGoes("destroy")
  /\ UNCHANGED <<link, agent, body>>

-----------------------------------------------------------------------------
AgentStep(a) ==
  \/ publish_bridge(a) \/ recheck(a) \/ connect(a) \/ park(a) \/ start_sender(a) \/ start_returns(a)
  \/ complete(a) \/ await_resume(a) \/ enter(a) \/ await_task(a) \/ return_to_parent(a) \/ take_pending(a)
  \/ leave(a) \/ finalize(a) \/ call_receiver(a) \/ destroy_deferred(a)

OwnerStep ==
  \/ is_finalized \/ load_bridge \/ claim \/ bridge_moves_on \/ no_resume_running \/ drain
  \/ destroy_leaf \/ destroy_op

Next ==
  \/ \E a \in Agents : AgentStep(a) \/ start(a) \/ CompletesInline(a) \/ Deliver(a)
  \/ abandon \/ OwnerStep

(* Threads run; senders need not complete.                                 *)
Fairness == (\A a \in Agents : WF_vars(AgentStep(a))) /\ WF_vars(OwnerStep)

Spec == Init /\ [][Next]_vars /\ Fairness

-----------------------------------------------------------------------------
(* No thread reads or resumes a frame that has been destroyed, nor touches *)
(* the root's link after it, whatever the order of delivery, unwinding and *)
(* abandonment; and neither guard against a broken chain terminates.       *)
InFrame == {"run", "recheck", "connect", "park", "start", "deliver", "enter", "resumed"}
OnLink == InFrame \cup {"unwind", "leave", "receiver", "destroy"}
FramesOutliveThreads ==
  /\ \A a \in Agents : /\ agent[a].pc \in InFrame => frame[agent[a].f].alive
                       /\ agent[a].pc \in OnLink => frame[1].alive
                       /\ agent[a].pending # 0 => frame[agent[a].pending].alive
  /\ ~link.terminated

(* One thread at a time runs in the frames, so a frame is never resumed    *)
(* twice for one suspension.                                               *)
Running(a) == agent[a].pc \in {"run", "recheck", "connect", "park", "resumed", "receiver"}
OneThreadRuns == \A a, b \in Agents : Running(a) /\ Running(b) => a = b

(* No completion is lost: when no thread is on its way, the receiver was   *)
(* called, once, or the sender the chain waits for has still to complete.  *)
NoLostCompletion ==
  /\ owner.calls <= 1
  /\ (\A a \in Agents : agent[a].pc = "idle") /\ link.started /\ owner.drop = "nobody" =>
       owner.calls = 1 \/ op.st = "started"

(* Destroying the operation ends, though senders need not complete, and    *)
(* every frame is destroyed.                                               *)
DestructionEnds == []<>(owner.drop # "nobody" => \A f \in Frames : ~frame[f].alive)
=============================================================================
